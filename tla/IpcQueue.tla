------------------------------ MODULE IpcQueue ------------------------------
(***************************************************************************)
(* Ipc::FewToFewBiQueue and its OneToOneUniQueues (src/src/ipc/Queue.h,    *)
(* Queue.cc), seen from one reader: every remote process has a lock-free   *)
(* ring buffer to the reader, and all these rings share the reader's       *)
(* QueueReader, which says whether the reader sleeps and whether a wake-up *)
(* message (IpcIoFile::Notify) is on its way.                              *)
(*                                                                         *)
(* The reader is a worker that pops disker responses, or a disker that     *)
(* pops worker requests (src/src/DiskIO/IpcIo/IpcIoFile.cc).  A worker     *)
(* also pops before it pushes and before it times requests out.  A disker  *)
(* pops when notified, and when it resumes a loop that took too long.      *)
(* Each access to a shared word is a step of its own; theIn and theOut are *)
(* used by one side only.  The n-th item that a writer pushes is n.        *)
(***************************************************************************)
EXTENDS Integers, FiniteSets

CONSTANTS NumWriters,    \* the size of the remote group
          Capacity,      \* theCapacity
          IndexWidth,    \* bits of theIn and theOut (32 in the builds)
          MaxPushes      \* bound on the items each writer pushes

ASSUME QueueAssumption ==
    /\ {NumWriters, Capacity} \subseteq Nat \ {0}
    /\ {IndexWidth, MaxPushes} \subseteq Nat
    /\ 2 ^ IndexWidth \in Nat \ {0}
    /\ (2 ^ IndexWidth) % Capacity = 0   \* QueueCapacity is 1024

VARIABLES theIn, theOut, theSize, theBuffer,  \* functions of the writer
          popBlocked, popSignal,              \* QueueReader, Atomic::Words
          wpc, wasEmpty,                      \* functions of the writer
          note,      \* [Writers -> BOOLEAN]: its message is on the way
          rpc,       \* where the reader is
          last,      \* theLastPopProcessId
          tries,     \* rings visited by this FewToFewBiQueue::pop
          more,      \* DiskerHandleMoreRequestsScheduled
          isWorker,  \* whether the reader is a worker; else a disker
          pushed,    \* [Writers -> Nat]: items the writer stored so far
          popped,    \* [Writers -> Nat]: items the reader took so far
          got        \* [Writers -> Nat]: the last item the reader copied

ringVars == <<theIn, theOut, theSize, theBuffer, pushed, popped, got>>
writerVars == <<wpc, wasEmpty>>
readerVars == <<rpc, last, tries, more, isWorker>>
vars == <<ringVars, writerVars, readerVars, popBlocked, popSignal, note>>

Writers == 1..NumWriters
Index == 0..(2 ^ IndexWidth - 1)
Cells == 0..(Capacity - 1)
bumpMutant(i) == (i + 1) % (2 ^ IndexWidth - 1)  \* skips the last index
bump(i) == (i + 1) % (2 ^ IndexWidth)

WriterPCs == {"idle", "sample", "fill", "grow", "ask", "raise", "notify"}
ReaderPCs == {"idle", "wake", "clear", "scan", "block", "retest", "unblock",
              "copy", "shrink"}

(* Types; in particular, a ring never has more items than cells. *)
QueueTypeOK ==
    /\ theIn \in [Writers -> Index]
    /\ theOut \in [Writers -> Index]
    /\ theSize \in [Writers -> 0..Capacity]
    /\ theBuffer \in [Writers -> [Cells -> 0..MaxPushes]]
    /\ popBlocked \in {0, 1}
    /\ popSignal \in {0, 1}
    /\ wpc \in [Writers -> WriterPCs]
    /\ wasEmpty \in [Writers -> BOOLEAN]
    /\ note \in [Writers -> BOOLEAN]
    /\ rpc \in ReaderPCs
    /\ last \in Writers
    /\ tries \in 0..NumWriters
    /\ more \in BOOLEAN
    /\ isWorker \in BOOLEAN
    /\ pushed \in [Writers -> 0..MaxPushes]
    /\ popped \in [Writers -> 0..MaxPushes]
    /\ got \in [Writers -> 0..MaxPushes]

QueueInit ==                    \* a reader starts "blocked without a signal"
    /\ theIn = [w \in Writers |-> 0]
    /\ theOut = [w \in Writers |-> 0]
    /\ theSize = [w \in Writers |-> 0]
    /\ theBuffer = [w \in Writers |-> [c \in Cells |-> 0]]
    /\ popBlocked = 1
    /\ popSignal = 0
    /\ wpc = [w \in Writers |-> "idle"]
    /\ wasEmpty = [w \in Writers |-> FALSE]
    /\ note = [w \in Writers |-> FALSE]
    /\ rpc = "idle"
    /\ last = NumWriters
    /\ tries = 0
    /\ more = FALSE
    /\ isWorker \in BOOLEAN        \* either kind of kid
    /\ pushed = [w \in Writers |-> 0]
    /\ popped = [w \in Writers |-> 0]
    /\ got = [w \in Writers |-> 0]

-----------------------------------------------------------------------------
(* OneToOneUniQueue::push and the notification that follows it             *)

Goes(w, p) == wpc' = [wpc EXCEPT ![w] = p]

PushTestMutant(w) ==            \* lets one item too many in
    /\ wpc[w] = "idle"
    /\ pushed[w] < MaxPushes
    /\ theSize[w] <= Capacity
    /\ Goes(w, "sample")
    /\ UNCHANGED <<ringVars, readerVars, wasEmpty, popBlocked, popSignal,
                   note>>

PushTest(w) ==                  \* if (full()) throw Full()
    /\ wpc[w] = "idle"
    /\ pushed[w] < MaxPushes
    /\ theSize[w] # Capacity
    /\ Goes(w, "sample")
    /\ UNCHANGED <<ringVars, readerVars, wasEmpty, popBlocked, popSignal,
                   note>>

PushSample(w) ==                \* wasEmpty = empty()
    /\ wpc[w] = "sample"
    /\ wasEmpty' = [wasEmpty EXCEPT ![w] = theSize[w] = 0]
    /\ Goes(w, "fill")
    /\ UNCHANGED <<ringVars, readerVars, popBlocked, popSignal, note>>

PushFill(w) ==                  \* pos = theIn++ % theCapacity; memcpy
    /\ wpc[w] = "fill"
    /\ pushed' = [pushed EXCEPT ![w] = @ + 1]
    /\ theBuffer' =
          [theBuffer EXCEPT ![w][theIn[w] % Capacity] = pushed[w] + 1]
    /\ theIn' = [theIn EXCEPT ![w] = bump(@)]
    /\ Goes(w, "grow")
    /\ UNCHANGED <<theOut, theSize, popped, got, readerVars, wasEmpty,
                   popBlocked, popSignal, note>>

PushGrow(w) ==                  \* ++theSize; return wasEmpty && ...
    /\ wpc[w] = "grow"
    /\ theSize' = [theSize EXCEPT ![w] = @ + 1]
    /\ Goes(w, IF wasEmpty[w] THEN "ask" ELSE "idle")
    /\ UNCHANGED <<theIn, theOut, theBuffer, pushed, popped, got, readerVars,
                   wasEmpty, popBlocked, popSignal, note>>

RaiseAsk(w) ==                  \* raiseSignal(): blocked() && ...
    /\ wpc[w] = "ask"
    /\ Goes(w, IF popBlocked = 1 THEN "raise" ELSE "idle")
    /\ UNCHANGED <<ringVars, readerVars, wasEmpty, popBlocked, popSignal,
                   note>>

RaiseSwapMutant(w) ==           \* notifies whether or not it is needed
    /\ wpc[w] = "raise"
    /\ Goes(w, "notify")
    /\ popSignal' = 1
    /\ UNCHANGED <<ringVars, readerVars, wasEmpty, popBlocked, note>>

RaiseSwap(w) ==                 \* raiseSignal(): popSignal.swap_if(0,1)
    /\ wpc[w] = "raise"
    /\ Goes(w, IF popSignal = 0 THEN "notify" ELSE "idle")
    /\ popSignal' = 1
    /\ UNCHANGED <<ringVars, readerVars, wasEmpty, popBlocked, note>>

Notify(w) ==                    \* Ipc::SendMessage to the reader's kid
    /\ wpc[w] = "notify"
    /\ note' = [note EXCEPT ![w] = TRUE]
    /\ Goes(w, "idle")
    /\ UNCHANGED <<ringVars, readerVars, wasEmpty, popBlocked, popSignal>>

PushStep(w) ==
    \/ PushSample(w) \/ PushFill(w) \/ PushGrow(w)
    \/ RaiseAsk(w) \/ RaiseSwap(w) \/ Notify(w)

-----------------------------------------------------------------------------
(* What makes the reader pop                                               *)

HandleNotification(w) ==        \* receives the message of w
    /\ rpc = "idle"
    /\ note[w]
    /\ note' = [note EXCEPT ![w] = FALSE]
    /\ rpc' = "wake"
    /\ UNCHANGED <<ringVars, writerVars, isWorker, last, tries, more,
                   popBlocked, popSignal>>

ClearUnblock ==                 \* clearSignal(): unblock()
    /\ rpc = "wake"
    /\ popBlocked' = 0
    /\ rpc' = "clear"
    /\ UNCHANGED <<ringVars, writerVars, isWorker, last, tries, more,
                   popSignal, note>>

ClearSignal ==                  \* clearSignal(): popSignal.swap_if(1,0)
    /\ rpc = "clear"
    /\ popSignal' = 0
    /\ rpc' = "scan"
    /\ tries' = 0
    /\ UNCHANGED <<ringVars, writerVars, isWorker, last, more, popBlocked,
                   note>>

Poll ==                         \* HandleResponses("before push" or timeout)
    /\ isWorker
    /\ rpc = "idle"
    /\ rpc' = "scan"
    /\ tries' = 0
    /\ UNCHANGED <<ringVars, writerVars, isWorker, last, more, popBlocked,
                   popSignal, note>>

HandleMoreRequests ==           \* DiskerHandleMoreRequests()
    /\ rpc = "idle"
    /\ more
    /\ more' = FALSE
    /\ rpc' = "scan"
    /\ tries' = 0
    /\ UNCHANGED <<ringVars, writerVars, isWorker, last, popBlocked,
                   popSignal, note>>

-----------------------------------------------------------------------------
(* FewToFewBiQueue::pop and, for each ring, OneToOneUniQueue::pop          *)

PopVisit ==                     \* the ring after the last one; empty()?
    /\ rpc = "scan"
    /\ tries < NumWriters
    /\ last' = (last % NumWriters) + 1
    /\ tries' = tries + 1
    /\ rpc' = IF theSize[last'] = 0 THEN "block" ELSE "unblock"
    /\ UNCHANGED <<ringVars, writerVars, isWorker, more, popBlocked,
                   popSignal, note>>

PopNothing ==                   \* no process had anything to pop
    /\ rpc = "scan"
    /\ tries = NumWriters
    /\ rpc' = "idle"
    /\ UNCHANGED <<ringVars, writerVars, isWorker, last, tries, more,
                   popBlocked, popSignal, note>>

PopBlock ==                     \* reader->block()
    /\ rpc = "block"
    /\ popBlocked' = 1
    /\ rpc' = "retest"
    /\ UNCHANGED <<ringVars, writerVars, isWorker, last, tries, more,
                   popSignal, note>>

PopRetest ==                    \* if (empty()) return false
    /\ rpc = "retest"
    /\ rpc' = IF theSize[last] = 0 THEN "scan" ELSE "unblock"
    /\ UNCHANGED <<ringVars, writerVars, isWorker, last, tries, more,
                   popBlocked, popSignal, note>>

PopUnblock ==                   \* reader->unblock()
    /\ rpc = "unblock"
    /\ popBlocked' = 0
    /\ rpc' = "copy"
    /\ UNCHANGED <<ringVars, writerVars, isWorker, last, tries, more,
                   popSignal, note>>

PopCopy ==                      \* pos = theOut++ % theCapacity; memcpy
    /\ rpc = "copy"
    /\ got' = [got EXCEPT ![last] = theBuffer[last][theOut[last] % Capacity]]
    /\ theOut' = [theOut EXCEPT ![last] = bump(@)]
    /\ rpc' = "shrink"
    /\ UNCHANGED <<theIn, theSize, theBuffer, pushed, popped, writerVars,
                   isWorker, last, tries, more, popBlocked, popSignal, note>>

PopShrinkMutant ==              \* forgets to schedule the event
    /\ rpc = "shrink"
    /\ theSize' = [theSize EXCEPT ![last] = @ - 1]
    /\ popped' = [popped EXCEPT ![last] = @ + 1]
    /\ \/ rpc' = "scan" /\ UNCHANGED more
       \/ ~isWorker /\ rpc' = "idle" /\ UNCHANGED more
    /\ tries' = 0
    /\ UNCHANGED <<theIn, theOut, theBuffer, pushed, got, writerVars,
                   isWorker, last, popBlocked, popSignal, note>>

(***************************************************************************)
(* --theSize; the caller handles the item and pops the next one, unless it *)
(* is a disker that has been doing this for more than 10ms.                *)
(***************************************************************************)
PopShrink ==
    /\ rpc = "shrink"
    /\ theSize' = [theSize EXCEPT ![last] = @ - 1]
    /\ popped' = [popped EXCEPT ![last] = @ + 1]
    /\ \/ rpc' = "scan" /\ UNCHANGED more
       \/ ~isWorker /\ rpc' = "idle" /\ more' = TRUE
    /\ tries' = 0
    /\ UNCHANGED <<theIn, theOut, theBuffer, pushed, got, writerVars,
                   isWorker, last, popBlocked, popSignal, note>>

PopStep ==
    \/ ClearUnblock \/ ClearSignal
    \/ PopVisit \/ PopNothing \/ PopBlock \/ PopRetest \/ PopUnblock
    \/ PopCopy \/ PopShrink

QueueNext ==
    \/ \E w \in Writers : PushTest(w) \/ PushStep(w) \/ HandleNotification(w)
    \/ Poll \/ HandleMoreRequests \/ PopStep

QueueSpec == QueueInit /\ [][QueueNext]_vars

(***************************************************************************)
(* Kids keep running once they are inside push or pop, messages arrive,    *)
(* and scheduled events fire.  Nobody has to push, and a worker need not   *)
(* poll: it does so only when it makes a request or checks the timeouts of *)
(* pending ones.                                                           *)
(***************************************************************************)
FairQueueSpec ==
    /\ QueueSpec
    /\ \A w \in Writers : /\ WF_vars(PushStep(w))
                          /\ WF_vars(HandleNotification(w))
    /\ WF_vars(HandleMoreRequests)
    /\ WF_vars(PopStep)

-----------------------------------------------------------------------------
(* Properties *)

copied(w) == IF rpc = "shrink" /\ last = w THEN 1 ELSE 0
taken(w) == popped[w] + copied(w)
growing(w) == IF wpc[w] = "grow" THEN 1 ELSE 0

(***************************************************************************)
(* Each writer's items come out in the order in which they went in, none   *)
(* lost, repeated or overwritten, also after theIn and theOut have wrapped *)
(* around: theSize items, from theOut on, are the next ones to pop.        *)
(***************************************************************************)
ItemsInOrder ==
    \A w \in Writers :
        /\ got[w] = taken(w)
        /\ \A n \in (taken(w) + 1)..(popped[w] + theSize[w]) :
              theBuffer[w][(theOut[w] + n - taken(w) - 1) % Capacity] = n

(***************************************************************************)
(* The bounded FIFOs that the rings implement: an item is in once theSize  *)
(* counts it, and out once it is copied.                                   *)
(***************************************************************************)
Contents(w) == [i \in 1..(theSize[w] - copied(w)) |->
                    theBuffer[w][(theOut[w] + i - 1) % Capacity]]

Fifos == INSTANCE BoundedFifos
            WITH sent     <- [w \in Writers |-> pushed[w] - growing(w)],
                 queue    <- [w \in Writers |-> Contents(w)],
                 received <- got

(***************************************************************************)
(* push() and pop() are atomic, although the writer and the reader use the *)
(* ring at the same time without a lock: every behaviour of the rings is   *)
(* one of bounded FIFOs, and the other steps stutter.                      *)
(***************************************************************************)
ImplementsFifos == Fifos!FifoSpec

(***************************************************************************)
(* popSignal, "whether writer has sent and reader has not received         *)
(* notification": it is set exactly while one message is about to be sent, *)
(* on its way or being received, so the rings, however many, never cause   *)
(* more than one message at a time and never none after a stale signal.    *)
(***************************************************************************)
Signals == {w \in Writers : wpc[w] = "notify" \/ note[w]}
Receiving == IF rpc \in {"wake", "clear"} THEN 1 ELSE 0

OneNotification == Cardinality(Signals) + Receiving = popSignal

(***************************************************************************)
(* Whatever is pushed to a disker is popped: push() "returns true iff the  *)
(* caller must notify the reader of the pushed item" (Queue.h), and the    *)
(* callers do.  Rings are FIFOs and MaxPushes bounds the items, so an item *)
(* that is never popped is a ring that is not emptied.  (A worker also     *)
(* polls, and may leave what answers an abandoned request in the ring.)    *)
(***************************************************************************)
EveryItemPopped ==
    \A w \in Writers : (~isWorker /\ theSize[w] > 0) ~> theSize[w] = 0

(***************************************************************************)
(* A reader that does not sleep, or has been signalled, empties every ring *)
(* with no help from the writers, which notify only one that sleeps and    *)
(* has no signal: no ring is passed over, a worker does not leave its loop *)
(* early, and a disker that does has its event to resume it.               *)
(***************************************************************************)
AwakeReaderPops ==
    \A w \in Writers : (popBlocked = 0 \/ popSignal = 1) ~> theSize[w] = 0
=============================================================================
