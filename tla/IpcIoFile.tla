----------------------------- MODULE IpcIoFile -----------------------------
(***************************************************************************)
(* IpcIoFile (src/src/DiskIO/IpcIo/IpcIoFile.cc): a worker hands its disk  *)
(* reads and writes to a disker process over a pair of shared-memory       *)
(* queues and passes the data in shared-memory pages.  The disker may be   *)
(* slow, its answer may come after the worker gave up, and either queue    *)
(* may overflow.                                                           *)
(*                                                                         *)
(* The worker is single-threaded: a handler runs to its end before the     *)
(* next one starts.  But push() first handles the responses that are       *)
(* waiting, a completed read calls back into the store, and the callback   *)
(* may read again (store_client::readHeader() calls fileRead()), so calls  *)
(* of push() nest: calls is the stack of the handlers in progress.         *)
(*                                                                         *)
(* The queues are the FIFOs that IpcQueue implements, the page pool is the *)
(* set of free pages that PagePool implements.  Wake-up messages may be    *)
(* lost or late: nothing makes the worker or the disker notice a message.  *)
(***************************************************************************)
EXTENDS Integers, Sequences, FiniteSets

CONSTANTS Requests,       \* the I/O requests of the store, each made once
          Kind,           \* [Requests -> {"read", "write"}]
          Pages,          \* the ioPages of the shared page pool
          QueueCapacity,  \* of each of the two queues
          IdWidth,        \* bits of lastRequestId (32 in the builds)
          MaxNested,      \* bound on push() calls inside push() calls
          MayRestart,     \* whether the worker may die (once)
          None            \* no request, page or message

(* A frame is the request that push() was called with, or one of the other *)
(* two handlers that call HandleResponses().                               *)
Handlers == {"CheckTimeouts", "HandleNotification"}

ASSUME IoAssumption ==
    /\ IsFiniteSet(Requests) /\ IsFiniteSet(Pages)
    /\ None \notin Requests \cup Pages /\ Requests \cap Handlers = {}
    /\ Kind \in [Requests -> {"read", "write"}]
    /\ {QueueCapacity, IdWidth, MaxNested} \subseteq Nat
    /\ MayRestart \in BOOLEAN
    /\ 2 ^ IdWidth \in Nat /\ 2 ^ IdWidth > Cardinality(Requests) + 1

VARIABLES lastRequestId,
          requestMap,             \* [1..2 -> [Ids -> Requests \cup {None}]]
          older,                  \* which of the two is olderRequests
          timeoutCheckScheduled,
          error_,
          calls,                  \* Seq of what the worker is in: frames
          drained,                \* whether HandleResponses() has returned
          toDisker, toWorker,     \* the two queues: Seq of messages
          hand,                   \* the message the disker works on
          free,                   \* the free pages
          issued,                 \* the requests made so far
          idsReused,              \* push() calls nested, or the worker died
          completed               \* [Requests -> Nat]: completeIo() calls

vars == <<lastRequestId, requestMap, older, timeoutCheckScheduled, error_,
          calls, drained, toDisker, toWorker, hand, free, issued,
          idsReused, completed>>
asked == <<issued, idsReused>>

Ids == 1..(2 ^ IdWidth - 1)     \* zero is not used as requestId
Outcomes == {"none", "ok", "short", "error"}

(* IpcIoMsg; for is the request it was made from, which the code does not  *)
(* send.                                                                   *)
Messages == [id : Ids, for : Requests, page : Pages \cup {None},
             outcome : Outcomes]

(* Types; in particular, zero is not sent as a request id. *)
IoTypeOK ==
    /\ lastRequestId \in Ids \cup {0}
    /\ requestMap \in [1..2 -> [Ids -> Requests \cup {None}]]
    /\ older \in 1..2
    /\ timeoutCheckScheduled \in BOOLEAN
    /\ error_ \in BOOLEAN
    /\ calls \in Seq(Requests \cup Handlers)
    /\ drained \in BOOLEAN
    /\ toDisker \in Seq(Messages)
    /\ toWorker \in Seq(Messages)
    /\ hand \in Messages \cup {None}
    /\ free \in SUBSET Pages
    /\ issued \in SUBSET Requests
    /\ idsReused \in BOOLEAN
    /\ completed \in [Requests -> Nat]

(* The file is open and idle; its ids are fresh or about to wrap around.   *)
IoInit ==
    /\ lastRequestId \in {0, 2 ^ IdWidth - 2}
    /\ requestMap = [m \in 1..2 |-> [i \in Ids |-> None]]
    /\ older = 1
    /\ timeoutCheckScheduled = FALSE
    /\ error_ = FALSE
    /\ calls = <<>>
    /\ drained = FALSE
    /\ toDisker = <<>>
    /\ toWorker = <<>>
    /\ hand = None
    /\ free = Pages
    /\ issued = {}
    /\ idsReused = FALSE
    /\ completed = [r \in Requests |-> 0]

-----------------------------------------------------------------------------
(* The worker: read(), write() and push()                                  *)

NextIdZeroMutant(i) == (i + 1) % (2 ^ IdWidth)   \* uses zero

NextIdResetMutant(i) ==         \* starts over when no request is pending
    IF \A m \in 1..2, n \in Ids : requestMap[m][n] = None
    THEN 1 ELSE (i % (2 ^ IdWidth - 1)) + 1

NextId(i) == (i % (2 ^ IdWidth - 1)) + 1    \* ++lastRequestId, skipping zero

(* IpcIoPendingRequest's constructor takes an id; push() is entered.       *)
NewRequest(r) ==
    /\ r \notin issued
    /\ ~error_                                          \* Must(!error_)
    /\ issued' = issued \cup {r}
    /\ lastRequestId' = NextId(lastRequestId)

ReadOrWrite(r) ==               \* a store callback outside push()
    /\ calls = <<>>
    /\ NewRequest(r)
    /\ calls' = <<r>>
    /\ UNCHANGED <<requestMap, older, timeoutCheckScheduled, error_, drained,
                   toDisker, toWorker, hand, free, idsReused, completed>>

CompleteIo(R) ==                \* completeIo() for the requests in R
    completed' = [r \in Requests |-> completed[r] + IF r \in R THEN 1 ELSE 0]

Top == calls[Len(calls)]
Return == SubSeq(calls, 1, Len(calls) - 1)

Message(r, p) ==
    [id |-> lastRequestId, for |-> r, page |-> p, outcome |-> "none"]

PushRead(r) ==                  \* the try block of push(), for a read
    /\ toDisker' = Append(toDisker, Message(r, None))
    /\ UNCHANGED free

PushWrite(r) ==                 \* ... for a write: the data goes to a page
    \E p \in free :
        /\ toDisker' = Append(toDisker, Message(r, p))
        /\ free' = free \ {p}

(* trackPendingRequest(): insert() does not replace an existing element.   *)
newer == 3 - older

TrackPendingRequest(r) ==
    /\ requestMap' = [requestMap EXCEPT
                         ![newer][lastRequestId] = IF @ = None THEN r ELSE @]
    /\ timeoutCheckScheduled' = TRUE

Resumed == drained' = FALSE     \* the caller's HandleResponses() goes on

(***************************************************************************)
(* HandleResponses() has returned: push() sends its message and tracks the *)
(* request.  Failures (queue overflow, no page left) complete the request  *)
(* at once.  A write that finds the queue full has got its page already    *)
(* and does not put it back.                                               *)
(***************************************************************************)
PushSend ==
    /\ drained /\ Top \in Requests
    /\ Len(toDisker) # QueueCapacity
    /\ IF Kind[Top] = "read" THEN PushRead(Top) ELSE PushWrite(Top)
    /\ TrackPendingRequest(Top)
    /\ calls' = Return /\ Resumed
    /\ UNCHANGED <<lastRequestId, older, error_, toWorker, hand, asked,
                   completed>>

PushFails ==
    /\ drained /\ Top \in Requests
    /\ \/ Kind[Top] = "write" /\ free = {} /\ UNCHANGED free
       \/ Kind[Top] = "write" /\ Len(toDisker) = QueueCapacity
          /\ \E p \in free : free' = free \ {p}
       \/ Kind[Top] = "read" /\ Len(toDisker) = QueueCapacity
          /\ UNCHANGED free
    /\ CompleteIo({Top})
    /\ calls' = Return /\ Resumed
    /\ UNCHANGED <<lastRequestId, requestMap, older, timeoutCheckScheduled,
                   error_, toDisker, toWorker, hand, asked>>

-----------------------------------------------------------------------------
(* The worker: HandleResponses(), in push() or another handler             *)

HandleNotification ==           \* a message woke the worker up
    /\ calls = <<>>
    /\ toWorker # <<>>
    /\ calls' = <<"HandleNotification">>
    /\ UNCHANGED <<lastRequestId, requestMap, older, timeoutCheckScheduled,
                   error_, drained, toDisker, toWorker, hand, free, asked,
                   completed>>

NoMoreResponses ==              \* queue->pop() returned false
    /\ calls # <<>> /\ ~drained
    /\ toWorker = <<>>
    /\ drained' = (Top # "HandleNotification")
    /\ calls' = IF Top = "HandleNotification" THEN Return ELSE calls
    /\ UNCHANGED <<lastRequestId, requestMap, older, timeoutCheckScheduled,
                   error_, toDisker, toWorker, hand, free, asked, completed>>

MapOf(i) == {m \in 1..2 : requestMap[m][i] # None}
Found(i) == CHOOSE m \in MapOf(i) : \A n \in MapOf(i) : m <= n  \* map1 first
Pending(i) == IF MapOf(i) = {} THEN None ELSE requestMap[Found(i)][i]

DequeueRequest(i) ==            \* erases it from the map it was found in
    requestMap' = [requestMap EXCEPT ![Found(i)][i] = None]

(* The callback of a read that succeeded may read more, from inside        *)
(* whatever the worker was doing.                                          *)
Nested == Cardinality({n \in 1..Len(calls) : calls[n] \in Requests})

MayReadMore(m, r) ==
    \/ UNCHANGED <<calls, issued, lastRequestId, idsReused>>
    \/ /\ Kind[r] = "read" /\ m.outcome = "ok" /\ m.page # None
       /\ Nested <= MaxNested
       /\ \E more \in Requests :
             /\ Kind[more] = "read"
             /\ NewRequest(more)
             /\ idsReused' = (idsReused \/ Nested > 0)
             /\ calls' = Append(calls, more)

PageOf(m) == {m.page} \ {None}

(***************************************************************************)
(* handleResponse() of a response to a pending request: readCompleted()    *)
(* copies the data and puts the page back; an I/O error, or a short write, *)
(* sets error_.                                                            *)
(***************************************************************************)
HandleResponse ==
    /\ calls # <<>> /\ ~drained
    /\ toWorker # <<>>
    /\ LET m == Head(toWorker)
           r == Pending(m.id)
       IN  /\ r # None
           /\ DequeueRequest(m.id)
           /\ CompleteIo({r})
           /\ error_' = (\/ error_
                         \/ m.outcome = "error"
                         \/ Kind[r] = "write" /\ m.outcome = "short")
           /\ free' = IF Kind[r] = "read" THEN free \cup PageOf(m) ELSE free
           /\ MayReadMore(m, r)
    /\ toWorker' = Tail(toWorker)
    /\ UNCHANGED <<older, timeoutCheckScheduled, drained, toDisker, hand>>

(* A response nobody waits for any more is dropped, with its page.         *)
HandleLateResponse ==
    /\ calls # <<>> /\ ~drained
    /\ toWorker # <<>>
    /\ Pending(Head(toWorker).id) = None
    /\ toWorker' = Tail(toWorker)
    /\ UNCHANGED <<lastRequestId, requestMap, older, timeoutCheckScheduled,
                   error_, calls, drained, toDisker, hand, free, asked,
                   completed>>

-----------------------------------------------------------------------------
(* The worker: checkTimeouts()                                             *)

CheckTimeouts ==
    /\ calls = <<>>
    /\ timeoutCheckScheduled
    /\ timeoutCheckScheduled' = FALSE
    /\ calls' = <<"CheckTimeouts">>
    /\ UNCHANGED <<lastRequestId, requestMap, older, error_, drained, toDisker,
                   toWorker, hand, free, asked, completed>>

AbandonOldMutant ==             \* swaps the maps without clearing the old one
    /\ CompleteIo({requestMap[older][i] : i \in Ids} \ {None})
    /\ older' = newer
    /\ UNCHANGED requestMap

(* The requests still in the old map complete without a response.          *)
AbandonOld ==
    /\ CompleteIo({requestMap[older][i] : i \in Ids} \ {None})
    /\ requestMap' = [requestMap EXCEPT ![older] = [i \in Ids |-> None]]
    /\ older' = newer

RescheduleMutant ==             \* forgets that requests are still pending
    UNCHANGED timeoutCheckScheduled

Reschedule ==
    timeoutCheckScheduled' =
        (timeoutCheckScheduled \/ \E i \in Ids : requestMap[newer][i] # None)

TimeoutsChecked ==              \* after HandleResponses("before timeout")
    /\ drained /\ Top = "CheckTimeouts"
    /\ AbandonOld
    /\ Reschedule
    /\ calls' = Return /\ Resumed
    /\ UNCHANGED <<lastRequestId, error_, toDisker, toWorker, hand, free,
                   asked>>

-----------------------------------------------------------------------------
(* The worker dies and the master process starts a successor: a new        *)
(* IpcIoFile on the old queues, with whatever messages are in them.        *)
WorkerRestart ==
    /\ MayRestart /\ ~idsReused
    /\ idsReused' = TRUE
    /\ lastRequestId' = 0
    /\ requestMap' = [m \in 1..2 |-> [i \in Ids |-> None]]
    /\ older' = 1
    /\ timeoutCheckScheduled' = FALSE
    /\ error_' = FALSE
    /\ calls' = <<>>
    /\ drained' = FALSE
    /\ UNCHANGED <<toDisker, toWorker, hand, free, issued, completed>>

-----------------------------------------------------------------------------
(* The disker: DiskerHandleRequest()                                       *)

DiskerRead(m) ==                \* diskerRead(): the data needs a page
    \/ /\ free = {}
       /\ hand' = m
       /\ UNCHANGED free
    \/ \E p \in free, o \in {"ok", "error"} :
          /\ hand' = [m EXCEPT !.page = p, !.outcome = o]
          /\ free' = free \ {p}

DiskerWriteMutant(m) ==         \* answers with the page still attached
    \E o \in {"ok", "short", "error"} :
        /\ hand' = [m EXCEPT !.outcome = o]
        /\ free' = free \cup PageOf(m)

DiskerWrite(m) ==               \* diskerWrite() puts the page back
    \E o \in {"ok", "short", "error"} :
        /\ hand' = [m EXCEPT !.page = None, !.outcome = o]
        /\ free' = free \cup PageOf(m)

DiskerPop ==
    /\ hand = None
    /\ toDisker # <<>>
    /\ LET m == Head(toDisker)
       IN  IF Kind[m.for] = "read" THEN DiskerRead(m) ELSE DiskerWrite(m)
    /\ toDisker' = Tail(toDisker)
    /\ UNCHANGED <<lastRequestId, requestMap, older, timeoutCheckScheduled,
                   error_, calls, drained, toWorker, asked, completed>>

DiskerPush ==                   \* a full queue drops the response
    /\ hand # None
    /\ toWorker' = IF Len(toWorker) = QueueCapacity THEN toWorker
                                                    ELSE Append(toWorker, hand)
    /\ hand' = None
    /\ UNCHANGED <<lastRequestId, requestMap, older, timeoutCheckScheduled,
                   error_, calls, drained, toDisker, free, asked, completed>>

-----------------------------------------------------------------------------
WorkerStep ==                   \* what a handler in progress does next
    \/ HandleResponse \/ HandleLateResponse \/ NoMoreResponses
    \/ PushSend \/ PushFails \/ TimeoutsChecked

IoNext ==
    \/ \E r \in Requests : ReadOrWrite(r)
    \/ HandleNotification \/ CheckTimeouts \/ WorkerStep \/ WorkerRestart
    \/ DiskerPop \/ DiskerPush

IoSpec == IoInit /\ [][IoNext]_vars

(***************************************************************************)
(* The worker finishes the handlers it starts and a scheduled event fires. *)
(* The disker owes nothing: it may have died.                              *)
(***************************************************************************)
FairIoSpec == IoSpec /\ WF_vars(WorkerStep) /\ WF_vars(CheckTimeouts)

-----------------------------------------------------------------------------
(* Properties *)

Elements(s) == {s[n] : n \in 1..Len(s)}
InFlight == Elements(toDisker) \cup Elements(toWorker) \cup ({hand} \ {None})

(***************************************************************************)
(* completeIo() is called at most once for a request, whichever of the     *)
(* response, the timeout check and the overflow of a queue gets there      *)
(* first: the callback data is released by the first call.                 *)
(***************************************************************************)
CompletedOnce == \A r \in Requests : completed[r] <= 1

(***************************************************************************)
(* A page is never free and in use, nor in use by two messages: a worker   *)
(* never copies the data of another request, and no page is put back twice *)
(* (by the disker and the worker).                                         *)
(***************************************************************************)
PagesNotShared ==
    /\ \A m \in InFlight : m.page \notin free
    /\ \A m, n \in InFlight : (m # n /\ m.page # None) => m.page # n.page

(***************************************************************************)
(* A response completes the request that it answers, unless push() calls   *)
(* have nested (then ids are sent twice, see RequestIdsUnique) or the      *)
(* worker has died (its successor counts its ids from the start again and  *)
(* takes the late answers to its predecessor's requests for its own).      *)
(***************************************************************************)
AnswersMatch ==
    ~idsReused => \A m \in InFlight : Pending(m.id) \in {m.for, None}

(***************************************************************************)
(* "the I/O request we could not push will timeout" (DiskerHandleRequest): *)
(* whatever the disker does, every read and write is completed, again      *)
(* unless push() calls have nested (a request tracked under an id that is  *)
(* already in the map is forgotten) or the worker has died.                *)
(***************************************************************************)
EveryIoCompletes ==
    \A r \in Requests : r \in issued ~> completed[r] > 0 \/ idsReused

(***************************************************************************)
(* requestId is "unique for requestor; matches request w/ response"        *)
(* (IpcIoFile.h).                                                          *)
(***************************************************************************)
RequestIdsUnique == \A m, n \in InFlight : m.id = n.id => m.for = n.for

(***************************************************************************)
(* Page numbers "can be temporary unavailable as long as they are never    *)
(* trully lost" (PageStack.h): a page that is not free is in some message. *)
(***************************************************************************)
NoPageLost == \A p \in Pages : p \in free \/ \E m \in InFlight : m.page = p
=============================================================================
