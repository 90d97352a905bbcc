-------------------------- MODULE IpcIoFileProofs --------------------------
(***************************************************************************)
(* Proofs about IpcIoFile: the worker completes each request at most once, *)
(* no page is used twice, and answers find their own requests, for any     *)
(* number of requests and pages and any size of the queues.                *)
(***************************************************************************)
EXTENDS IpcIoFile, FiniteSetTheorems, TLAPS

(***************************************************************************)
(* A request is nowhere before it is made; then it is a frame of the       *)
(* worker's stack, or in one place of one request map, or completed, or    *)
(* forgotten.                                                              *)
(***************************************************************************)
FramesLive ==
    /\ drained => calls # <<>>
    /\ \A n \in 1..Len(calls) : calls[n] \in Requests =>
          /\ calls[n] \in issued /\ completed[calls[n]] = 0
          /\ lastRequestId # 0
    /\ \A n, k \in 1..Len(calls) :
          (calls[n] \in Requests /\ calls[n] = calls[k]) => n = k

MapsLive ==
    /\ \A m \in 1..2, i \in Ids : requestMap[m][i] # None =>
          /\ requestMap[m][i] \in issued /\ completed[requestMap[m][i]] = 0
          /\ \A n \in 1..Len(calls) : calls[n] # requestMap[m][i]
    /\ \A m, n \in 1..2, i, j \in Ids :
          (requestMap[m][i] # None /\ requestMap[m][i] = requestMap[n][j])
              => m = n /\ i = j

NewUntouched == \A r \in Requests \ issued : completed[r] = 0

(* Each page is in one place: free, or in one message of a queue, or in    *)
(* the disker's hand.                                                      *)
QueuePages(q) ==
    /\ \A n \in 1..Len(q) : q[n].page \notin free
    /\ \A n, k \in 1..Len(q) :
          (n # k /\ q[n].page # None) => q[n].page # q[k].page
    /\ \A n \in 1..Len(q) :
          (hand # None /\ q[n].page # None) => q[n].page # hand.page

PagesApart ==
    /\ QueuePages(toDisker) /\ QueuePages(toWorker)
    /\ \A n \in 1..Len(toDisker), k \in 1..Len(toWorker) :
          toDisker[n].page # None => toDisker[n].page # toWorker[k].page
    /\ hand # None => hand.page \notin free

(***************************************************************************)
(* How many ids ago i was the last one, counting around the end of the id  *)
(* space, and the ids in use: as long as push() does not nest and the      *)
(* worker lives they are younger than there are requests, and older than   *)
(* that of the request which push() has not sent yet.                      *)
(***************************************************************************)
LastId == 2 ^ IdWidth - 1

Age(i) == IF i <= lastRequestId THEN lastRequestId - i
                                ELSE lastRequestId + LastId - i

Unsent == \E n \in 1..Len(calls) : calls[n] \in Requests

InUse(i) == \/ \E m \in InFlight : m.id = i
            \/ \E m \in 1..2 : requestMap[m][i] # None

IdsFresh ==
    ~idsReused =>
        /\ \A n \in 1..Len(calls) : calls[n] \in Requests => n = Len(calls)
        /\ \A i \in Ids : InUse(i) =>
              /\ Age(i) < Cardinality(issued)
              /\ Unsent => Age(i) > 0
        /\ \A m \in InFlight : \A n \in 1..2 :
              requestMap[n][m.id] \in {m.for, None}

(* The type invariant in two parts: flags and other data.                  *)
FlagsOK == /\ timeoutCheckScheduled \in BOOLEAN /\ error_ \in BOOLEAN
           /\ drained \in BOOLEAN /\ idsReused \in BOOLEAN

DataOK ==
    /\ lastRequestId \in Ids \cup {0}
    /\ requestMap \in [1..2 -> [Ids -> Requests \cup {None}]]
    /\ older \in 1..2
    /\ calls \in Seq(Requests \cup Handlers)
    /\ toDisker \in Seq(Messages) /\ toWorker \in Seq(Messages)
    /\ hand \in Messages \cup {None}
    /\ free \in SUBSET Pages
    /\ issued \in SUBSET Requests
    /\ completed \in [Requests -> Nat]

(* The inductive invariant.                                                *)
IoInv ==
    /\ DataOK /\ FlagsOK
    /\ FramesLive /\ MapsLive /\ NewUntouched /\ CompletedOnce
    /\ PagesApart
    /\ IdsFresh

-----------------------------------------------------------------------------
(* The operators of the worker                                             *)

(* What most steps need of the constants: which values differ.             *)
LEMMA Distinct ==
    /\ None \notin Requests /\ None \notin Pages
    /\ \A h \in Handlers : h \notin Requests
  BY IoAssumption

(* There are more ids than requests.                                       *)
LEMMA IdSpace ==
    /\ LastId \in Nat /\ Ids = 1..LastId
    /\ Cardinality(Requests) \in Nat /\ Cardinality(Requests) < LastId
  <1>1. Cardinality(Requests) \in Nat
    BY IoAssumption, FS_CardinalityType
  <1>2. 2 ^ IdWidth \in Nat /\ 2 ^ IdWidth > Cardinality(Requests) + 1
    BY IoAssumption
  <1> DEFINE N == 2 ^ IdWidth
  <1>3. LastId = N - 1 /\ Ids = 1..(N - 1)
    BY DEF LastId, Ids
  <1> HIDE DEF N
  <1>4. N \in Nat /\ N > Cardinality(Requests) + 1
    BY <1>2 DEF N
  <1> QED
    BY <1>1, <1>3, <1>4

(* The next id is never zero.                                              *)
LEMMA NextIdIs ==
    ASSUME NEW i \in Ids \cup {0}
    PROVE  /\ NextId(i) \in Ids
           /\ i \in {0, LastId} => NextId(i) = 1
           /\ i \notin {0, LastId} => NextId(i) = i + 1
  <1> PICK M \in Nat : M = LastId
    BY IdSpace
  <1>1. M > 0 /\ i \in 0..M /\ Ids = 1..M
    BY IdSpace
  <1>2. NextId(i) = (i % M) + 1
    BY DEF NextId, LastId
  <1>3. i < M => i % M = i
    BY <1>1
  <1>4. i = M => i % M = 0
    BY <1>1
  <1> QED
    BY <1>1, <1>2, <1>3, <1>4

(* The innermost frame, and the stack without it.                          *)
LEMMA TopFrame ==
    ASSUME DataOK, calls # <<>>
    PROVE  /\ Len(calls) \in Nat \ {0} /\ Len(calls) \in 1..Len(calls)
           /\ Top = calls[Len(calls)] /\ Top \in Requests \cup Handlers
           /\ Return \in Seq(Requests \cup Handlers)
           /\ Len(Return) = Len(calls) - 1
           /\ \A n \in 1..Len(Return) :
                 n \in 1..Len(calls) - 1 /\ Return[n] = calls[n]
  <1> DEFINE S == Requests \cup Handlers
  <1>1. calls \in Seq(S)
    BY DEF DataOK
  <1> HIDE DEF S
  <1>2. PICK L \in Nat \ {0} : L = Len(calls)
    BY <1>1
  <1>3. Top = calls[L] /\ Top \in S
    BY <1>1, <1>2 DEF Top
  <1>4. Return = SubSeq(calls, 1, L - 1)
    BY <1>2 DEF Return
  <1>5. Return \in Seq(S) /\ Len(Return) = L - 1
    BY <1>1, <1>2, <1>4
  <1>6. \A n \in 1..L - 1 : Return[n] = calls[n]
    BY <1>1, <1>2, <1>4
  <1> QED
    BY <1>2, <1>3, <1>5, <1>6 DEF S

(* A pending request is where it was found.                                *)
LEMMA PendingFound ==
    ASSUME DataOK, NEW i \in Ids, Pending(i) # None
    PROVE  /\ Found(i) \in 1..2 /\ Pending(i) = requestMap[Found(i)][i]
           /\ Pending(i) \in Requests
  <1>1. requestMap \in [1..2 -> [Ids -> Requests \cup {None}]]
    BY DEF DataOK
  <1>2. MapOf(i) # {} /\ Pending(i) = requestMap[Found(i)][i]
    BY DEF Pending
  <1>3. \E m \in MapOf(i) : \A n \in MapOf(i) : m <= n
    <2>1. MapOf(i) \subseteq 1..2
      BY DEF MapOf
    <2>2. CASE 1 \in MapOf(i)
      BY <2>1, <2>2
    <2>3. CASE 1 \notin MapOf(i)
      <3>1. MapOf(i) = {2}
        BY <1>2, <2>1, <2>3
      <3> QED
        BY <3>1
    <2> QED
      BY <2>2, <2>3
  <1>4. Found(i) \in MapOf(i)
    BY <1>3 DEF Found
  <1> QED
    BY <1>1, <1>2, <1>4 DEF MapOf

(* The first element of a queue, and the rest.                             *)
LEMMA HeadTail ==
    ASSUME NEW S, NEW q \in Seq(S), q # <<>>
    PROVE  /\ Len(q) \in Nat \ {0} /\ Head(q) \in S /\ Head(q) = q[1]
           /\ 1 \in 1..Len(q) /\ Tail(q) \in Seq(S)
           /\ Len(Tail(q)) = Len(q) - 1
           /\ \A n \in 1..Len(Tail(q)) :
                 n + 1 \in 1..Len(q) /\ n + 1 # 1 /\ Tail(q)[n] = q[n + 1]
  OBVIOUS

(* One more element at the end of a queue.                                 *)
LEMMA AppendOne ==
    ASSUME NEW S, NEW q \in Seq(S), NEW e \in S
    PROVE  /\ Append(q, e) \in Seq(S)
           /\ Len(Append(q, e)) = Len(q) + 1 /\ Len(q) \in Nat
           /\ Append(q, e)[Len(q) + 1] = e
           /\ \A n \in 1..Len(q) : Append(q, e)[n] = q[n]
           /\ \A n \in 1..Len(q) + 1 : n \in 1..Len(q) \/ n = Len(q) + 1
  OBVIOUS

(* Nothing is under way in the initial state.                              *)
LEMMA IoInitially == IoInit => IoInv
  <1> SUFFICES ASSUME IoInit PROVE IoInv
    OBVIOUS
  <1>1. DataOK
    <2>1. lastRequestId \in Ids \cup {0}
      <3>1. PICK M \in Nat : M = LastId
        BY IdSpace
      <3>2. 2 ^ IdWidth - 2 = M - 1
        BY <3>1, IoAssumption DEF LastId
      <3> QED
        BY <3>1, <3>2, IdSpace DEF IoInit
    <2> QED
      BY <2>1 DEF IoInit, DataOK
  <1>2. FlagsOK
    BY DEF IoInit, FlagsOK
  <1>3. InFlight = {}
    BY DEF IoInit, InFlight, Elements
  <1>4. IdsFresh
    BY <1>3 DEF IoInit, IdsFresh, InUse
  <1>5. PagesApart
    BY DEF IoInit, PagesApart, QueuePages
  <1>6. FramesLive /\ MapsLive /\ NewUntouched /\ CompletedOnce
    BY DEF IoInit, FramesLive, MapsLive, NewUntouched, CompletedOnce
  <1> QED
    BY <1>1, <1>2, <1>4, <1>5, <1>6 DEF IoInv

-----------------------------------------------------------------------------
(* The invariant is inductive                                              *)

(* The flags stay flags.                                                   *)
LEMMA FlagsStep == FlagsOK /\ [IoNext]_vars => FlagsOK'
  <1> SUFFICES ASSUME FlagsOK, [IoNext]_vars PROVE FlagsOK'
    OBVIOUS
  <1>1. CASE \E r \in Requests : ReadOrWrite(r)
    BY <1>1 DEF FlagsOK, ReadOrWrite
  <1>2. CASE HandleNotification
    BY <1>2 DEF FlagsOK, HandleNotification, asked
  <1>3. CASE CheckTimeouts
    BY <1>3 DEF FlagsOK, CheckTimeouts, asked
  <1>4. CASE HandleResponse
    <2>1. UNCHANGED <<timeoutCheckScheduled, drained>>
      BY <1>4 DEF HandleResponse
    <2>2. error_' \in BOOLEAN
      BY <1>4, Zenon DEF HandleResponse
    <2>3. idsReused' \in BOOLEAN
      <3>1. idsReused' = idsReused \/ idsReused' = (idsReused \/ Nested > 0)
        BY <1>4, Zenon DEF HandleResponse, MayReadMore
      <3> QED
        BY <3>1, Zenon DEF FlagsOK
    <2> QED
      BY <2>1, <2>2, <2>3 DEF FlagsOK
  <1>5. CASE HandleLateResponse
    BY <1>5 DEF FlagsOK, HandleLateResponse, asked
  <1>6. CASE NoMoreResponses
    BY <1>6 DEF FlagsOK, NoMoreResponses, asked
  <1>7. CASE PushSend
    BY <1>7 DEF FlagsOK, PushSend, TrackPendingRequest, Resumed, asked
  <1>8. CASE PushFails
    BY <1>8 DEF FlagsOK, PushFails, Resumed, asked
  <1>9. CASE TimeoutsChecked
    BY <1>9 DEF FlagsOK, TimeoutsChecked, Reschedule, Resumed, asked
  <1>10. CASE WorkerRestart
    BY <1>10 DEF FlagsOK, WorkerRestart
  <1>11. CASE DiskerPop
    BY <1>11 DEF FlagsOK, DiskerPop, asked
  <1>12. CASE DiskerPush
    BY <1>12 DEF FlagsOK, DiskerPush, asked
  <1>13. CASE UNCHANGED vars
    BY <1>13 DEF FlagsOK, vars
  <1> QED
    BY <1>1, <1>2, <1>3, <1>4, <1>5, <1>6, <1>7, <1>8, <1>9, <1>10, <1>11,
       <1>12, <1>13 DEF IoNext, WorkerStep

(* A response that is handled completes the request it was found for, and  *)
(* the callback may make another one.                                      *)
Completes(m, r, n) ==
    /\ requestMap' = [requestMap EXCEPT ![n][m.id] = None]
    /\ requestMap[n][m.id] = r
    /\ CompleteIo({r})
    /\ MayReadMore(m, r)
    /\ toWorker' = Tail(toWorker)
    /\ free' = free \/ free' = free \cup PageOf(m)
    /\ UNCHANGED <<older, timeoutCheckScheduled, drained, toDisker, hand>>

(* A HandleResponse step completes one request that is in a map.           *)
LEMMA ResponseHandled ==
    ASSUME DataOK, HandleResponse
    PROVE  /\ toWorker # <<>> /\ calls # <<>> /\ ~drained
           /\ Head(toWorker) \in Messages /\ Head(toWorker).id \in Ids
           /\ \E r \in Requests, n \in 1..2 :
                 Completes(Head(toWorker), r, n)
  <1>1. toWorker \in Seq(Messages) /\ toWorker # <<>>
    BY DEF DataOK, HandleResponse
  <1> PICK m \in Messages : m = Head(toWorker)
    BY <1>1, HeadTail
  <1>2. m.id \in Ids
    BY DEF Messages
  <1>3. Pending(m.id) # None
    BY DEF HandleResponse
  <1> PICK n \in 1..2, r \in Requests :
         n = Found(m.id) /\ r = Pending(m.id) /\ r = requestMap[n][m.id]
    BY <1>2, <1>3, PendingFound
  <1>4. Completes(m, r, n)
    BY DEF HandleResponse, Completes, DequeueRequest
  <1> QED
    BY <1>1, <1>2, <1>4 DEF HandleResponse

(* What the disker has in hand after it took a message from its queue.     *)
LEMMA DiskerPopped ==
    ASSUME DataOK, DiskerPop
    PROVE  /\ toDisker # <<>> /\ hand = None
           /\ Head(toDisker) \in Messages /\ hand' \in Messages
           /\ hand'.id = Head(toDisker).id /\ hand'.for = Head(toDisker).for
           /\ \/ hand' = Head(toDisker) /\ free' = free
              \/ hand'.page \in free /\ free' = free \ {hand'.page}
              \/ hand'.page = None /\ free' = free \cup PageOf(Head(toDisker))
           /\ toDisker' = Tail(toDisker)
  <1>1. toDisker \in Seq(Messages) /\ toDisker # <<>>
    BY DEF DataOK, DiskerPop
  <1> PICK m \in Messages : m = Head(toDisker)
    BY <1>1, HeadTail
  <1>2. CASE DiskerRead(m)
    <2>1. CASE free = {} /\ hand' = m /\ UNCHANGED free
      BY <1>1, <2>1 DEF DiskerPop
    <2>2. CASE \E p \in free, o \in {"ok", "error"} :
                  /\ hand' = [m EXCEPT !.page = p, !.outcome = o]
                  /\ free' = free \ {p}
      <3>1. PICK p \in free, o \in {"ok", "error"} :
                  /\ hand' = [m EXCEPT !.page = p, !.outcome = o]
                  /\ free' = free \ {p}
        BY <2>2
      <3>2. p \in Pages \cup {None} /\ o \in Outcomes
        BY DEF DataOK, Outcomes
      <3>3. hand' \in Messages /\ hand'.page = p /\ hand'.id = m.id
            /\ hand'.for = m.for
        BY <3>1, <3>2 DEF Messages
      <3> QED
        BY <1>1, <3>1, <3>3 DEF DiskerPop
    <2> QED
      BY <1>2, <2>1, <2>2 DEF DiskerRead
  <1>3. CASE DiskerWrite(m)
    <2>1. PICK o \in {"ok", "short", "error"} :
                  /\ hand' = [m EXCEPT !.page = None, !.outcome = o]
                  /\ free' = free \cup PageOf(m)
      BY <1>3 DEF DiskerWrite
    <2>2. None \in Pages \cup {None} /\ o \in Outcomes
      BY DEF Outcomes
    <2>3. hand' \in Messages /\ hand'.page = None /\ hand'.id = m.id
          /\ hand'.for = m.for
      BY <2>1, <2>2 DEF Messages
    <2> QED
      BY <1>1, <2>1, <2>3 DEF DiskerPop
  <1> QED
    BY <1>2, <1>3 DEF DiskerPop

(* push() puts a message with the newest id at the end of the queue.       *)
Pushes(r, m) ==
    /\ m \in Messages /\ m.for = r /\ m.id = lastRequestId
    /\ toDisker' = Append(toDisker, m)
    /\ \/ m.page = None /\ free' = free
       \/ m.page \in free /\ free' = free \ {m.page}

(* A push() that finds room sends one message for the request on top.      *)
LEMMA PushSent ==
    ASSUME DataOK, FramesLive, PushSend
    PROVE  /\ calls # <<>> /\ Top \in Requests /\ lastRequestId \in Ids
           /\ \E m \in Messages : Pushes(Top, m)
  <1>1. calls # <<>>
    BY DEF FramesLive, PushSend
  <1> PICK r \in Requests : r = Top
    BY DEF PushSend
  <1>2. lastRequestId \in Ids
    BY <1>1, TopFrame DEF FramesLive, DataOK
  <1>3. CASE PushRead(r)
    <2>1. Message(r, None) \in Messages /\ Message(r, None).for = r
          /\ Message(r, None).id = lastRequestId
          /\ Message(r, None).page = None
      BY <1>2 DEF Message, Messages, Outcomes
    <2>2. Pushes(r, Message(r, None))
      BY <1>3, <2>1 DEF PushRead, Pushes
    <2> QED
      BY <1>1, <1>2, <2>1, <2>2
  <1>4. CASE PushWrite(r)
    <2> PICK p \in free : /\ toDisker' = Append(toDisker, Message(r, p))
                          /\ free' = free \ {p}
      BY <1>4 DEF PushWrite
    <2>1. Message(r, p) \in Messages /\ Message(r, p).for = r
          /\ Message(r, p).id = lastRequestId /\ Message(r, p).page = p
      BY <1>2 DEF Message, Messages, Outcomes, DataOK
    <2>2. Pushes(r, Message(r, p))
      BY <2>1 DEF Pushes
    <2> QED
      BY <1>1, <1>2, <2>1, <2>2
  <1> QED
    BY <1>3, <1>4 DEF PushSend

(* The callback of a completed read makes a new request, or none.          *)
ReadsMore(r) ==
    /\ NewRequest(r)
    /\ idsReused' = (idsReused \/ Nested > 0)
    /\ calls' = Append(calls, r)

(* After a read completed, nothing more happens or one more read starts.   *)
LEMMA MayBeMore ==
    ASSUME NEW m, NEW r, MayReadMore(m, r)
    PROVE  \/ UNCHANGED <<calls, issued, lastRequestId, idsReused>>
           \/ \E more \in Requests : ReadsMore(more)
  BY DEF MayReadMore, ReadsMore

(* Types.                                                                  *)
LEMMA DataStep == IoInv /\ [IoNext]_vars => DataOK'
  <1> SUFFICES ASSUME IoInv, [IoNext]_vars PROVE DataOK'
    OBVIOUS
  <1> USE Distinct
  <1>1. DataOK /\ FramesLive
    BY DEF IoInv
  <1>2. NextId(lastRequestId) \in Ids
    BY <1>1, NextIdIs DEF DataOK
  <1>3. ASSUME NEW R, CompleteIo(R) PROVE completed' \in [Requests -> Nat]
    BY <1>1, <1>3 DEF CompleteIo, DataOK
  <1>4. ASSUME NEW r \in Requests, ReadOrWrite(r) PROVE DataOK'
    <2>1. lastRequestId' \in Ids /\ issued' \in SUBSET Requests
          /\ calls' \in Seq(Requests \cup Handlers)
      BY <1>1, <1>2, <1>4 DEF ReadOrWrite, NewRequest, DataOK
    <2> QED
      BY <1>1, <1>4, <2>1 DEF ReadOrWrite, DataOK
  <1>5. CASE HandleNotification
    <2>1. calls' \in Seq(Requests \cup Handlers)
      BY <1>5 DEF HandleNotification, Handlers
    <2> QED
      BY <1>1, <1>5, <2>1 DEF HandleNotification, DataOK, asked
  <1>6. CASE CheckTimeouts
    <2>1. calls' \in Seq(Requests \cup Handlers)
      BY <1>6 DEF CheckTimeouts, Handlers
    <2> QED
      BY <1>1, <1>6, <2>1 DEF CheckTimeouts, DataOK, asked
  <1>7. CASE HandleResponse
    <2> PICK m \in Messages : m = Head(toWorker)
      BY <1>1, <1>7, ResponseHandled
    <2> PICK r \in Requests, n \in 1..2 : Completes(m, r, n)
      BY <1>1, <1>7, ResponseHandled
    <2>1. toWorker' \in Seq(Messages)
      BY <1>1, <1>7, ResponseHandled, HeadTail DEF Completes, DataOK
    <2>2. m.id \in Ids /\ m.page \in Pages \cup {None}
      BY DEF Messages
    <2>3. requestMap' \in [1..2 -> [Ids -> Requests \cup {None}]]
      BY <1>1, <2>2 DEF Completes, DataOK
    <2>4. free' \in SUBSET Pages
      BY <1>1, <2>2 DEF Completes, PageOf, DataOK
    <2>5. completed' \in [Requests -> Nat]
      BY <1>3 DEF Completes
    <2>6. /\ lastRequestId' \in Ids \cup {0} /\ issued' \in SUBSET Requests
          /\ calls' \in Seq(Requests \cup Handlers)
      <3>1. MayReadMore(m, r)
        BY DEF Completes
      <3>2. CASE UNCHANGED <<calls, issued, lastRequestId, idsReused>>
        BY <1>1, <3>2 DEF DataOK
      <3>3. ASSUME NEW more \in Requests, ReadsMore(more)
            PROVE  /\ lastRequestId' \in Ids \cup {0}
                   /\ issued' \in SUBSET Requests
                   /\ calls' \in Seq(Requests \cup Handlers)
        BY <1>1, <1>2, <3>3 DEF ReadsMore, NewRequest, DataOK
      <3> QED
        BY <3>1, <3>2, <3>3, MayBeMore
    <2> QED
      BY <1>1, <2>1, <2>3, <2>4, <2>5, <2>6 DEF Completes, DataOK
  <1>8. CASE HandleLateResponse
    <2>1. toWorker' \in Seq(Messages)
      BY <1>1, <1>8, HeadTail DEF HandleLateResponse, DataOK
    <2> QED
      BY <1>1, <1>8, <2>1 DEF HandleLateResponse, DataOK, asked
  <1>9. CASE NoMoreResponses
    <2>1. calls' \in Seq(Requests \cup Handlers)
      BY <1>1, <1>9, TopFrame DEF NoMoreResponses, DataOK
    <2> QED
      BY <1>1, <1>9, <2>1 DEF NoMoreResponses, DataOK, asked
  <1>10. CASE PushSend
    <2> PICK m \in Messages : Pushes(Top, m)
      BY <1>1, <1>10, PushSent
    <2>1. calls # <<>> /\ Top \in Requests /\ lastRequestId \in Ids
      BY <1>1, <1>10, PushSent
    <2>2. calls' \in Seq(Requests \cup Handlers)
      BY <1>1, <1>10, <2>1, TopFrame DEF PushSend
    <2>3. toDisker' \in Seq(Messages) /\ free' \in SUBSET Pages
      BY <1>1 DEF Pushes, DataOK
    <2>4. requestMap' \in [1..2 -> [Ids -> Requests \cup {None}]]
      <3>1. newer \in 1..2
        BY <1>1 DEF newer, DataOK
      <3> QED
        BY <1>1, <1>10, <2>1, <3>1 DEF PushSend, TrackPendingRequest, DataOK
    <2> QED
      BY <1>1, <1>10, <2>2, <2>3, <2>4 DEF PushSend, DataOK, asked
  <1>11. CASE PushFails
    <2>1. calls' \in Seq(Requests \cup Handlers)
      BY <1>1, <1>11, TopFrame DEF PushFails, FramesLive
    <2>2. free' \in SUBSET Pages
      BY <1>1, <1>11 DEF PushFails, DataOK
    <2>3. completed' \in [Requests -> Nat]
      BY <1>3, <1>11 DEF PushFails
    <2> QED
      BY <1>1, <1>11, <2>1, <2>2, <2>3 DEF PushFails, DataOK, asked
  <1>12. CASE TimeoutsChecked
    <2>1. calls' \in Seq(Requests \cup Handlers)
      BY <1>1, <1>12, TopFrame DEF TimeoutsChecked, FramesLive
    <2>2. completed' \in [Requests -> Nat]
      BY <1>3, <1>12 DEF TimeoutsChecked, AbandonOld
    <2>3. requestMap' \in [1..2 -> [Ids -> Requests \cup {None}]]
          /\ older' \in 1..2
      BY <1>1, <1>12 DEF TimeoutsChecked, AbandonOld, newer, DataOK
    <2> QED
      BY <1>1, <1>12, <2>1, <2>2, <2>3 DEF TimeoutsChecked, DataOK, asked
  <1>13. CASE WorkerRestart
    BY <1>1, <1>13 DEF WorkerRestart, DataOK
  <1>14. CASE DiskerPop
    <2>1. /\ toDisker' \in Seq(Messages) /\ hand' \in Messages
          /\ free' \in SUBSET Pages
      <3>1. toDisker # <<>> /\ toDisker' = Tail(toDisker)
            /\ hand' \in Messages
        BY <1>1, <1>14, DiskerPopped
      <3>2. toDisker' \in Seq(Messages)
        BY <1>1, <3>1, HeadTail DEF DataOK
      <3>3. PICK m \in Messages : m = Head(toDisker)
        BY <1>1, <1>14, DiskerPopped
      <3>4. free' = free \/ free' \subseteq free
            \/ free' = free \cup PageOf(m)
        BY <1>1, <1>14, <3>3, DiskerPopped
      <3>5. PageOf(m) \subseteq Pages
        BY DEF PageOf, Messages
      <3> QED
        BY <1>1, <3>1, <3>2, <3>4, <3>5 DEF DataOK
    <2> QED
      BY <1>1, <1>14, <2>1 DEF DiskerPop, DataOK, asked
  <1>15. CASE DiskerPush
    <2>1. toWorker' \in Seq(Messages)
      BY <1>1, <1>15 DEF DiskerPush, DataOK
    <2> QED
      BY <1>1, <1>15, <2>1 DEF DiskerPush, DataOK, asked
  <1>16. CASE UNCHANGED vars
    BY <1>1, <1>16 DEF vars, DataOK
  <1> QED
    BY <1>4, <1>5, <1>6, <1>7, <1>8, <1>9, <1>10, <1>11, <1>12, <1>13,
       <1>14, <1>15, <1>16 DEF IoNext, WorkerStep

(* The four parts of the invariant about where a request is.               *)
Once == FramesLive /\ MapsLive /\ NewUntouched /\ CompletedOnce

(* What is completed was not completed before.                             *)
LEMMA CompletesLive ==
    ASSUME DataOK, Once, NEW R \in SUBSET issued, CompleteIo(R),
           \A r \in R : completed[r] = 0,
           issued \subseteq issued'
    PROVE  /\ CompletedOnce' /\ NewUntouched'
           /\ \A r \in Requests \ R : completed'[r] = completed[r]
  <1>1. completed \in [Requests -> Nat] /\ issued \subseteq Requests
    BY DEF DataOK
  <1>2. /\ \A r \in R : completed'[r] = 1
        /\ \A r \in Requests \ R : completed'[r] = completed[r]
    BY <1>1 DEF CompleteIo
  <1> QED
    BY <1>1, <1>2 DEF Once, CompletedOnce, NewUntouched

(* A handler returns: its frame was the innermost one.                     *)
LEMMA Returns ==
    ASSUME DataOK, calls # <<>>, calls' = Return
    PROVE  \A n \in 1..Len(calls') : /\ n \in 1..Len(calls)
                                     /\ n # Len(calls)
                                     /\ calls'[n] = calls[n]
  BY TopFrame

(* A request is completed at most once.                                    *)
LEMMA OnceStep == IoInv /\ [IoNext]_vars => Once'
  <1> SUFFICES ASSUME IoInv, [IoNext]_vars PROVE Once'
    OBVIOUS
  <1> USE Distinct
  <1>1. DataOK /\ Once
    BY DEF IoInv, Once
  <1>2. FramesLive /\ MapsLive /\ NewUntouched /\ CompletedOnce
    BY <1>1 DEF Once
  <1>3. /\ requestMap \in [1..2 -> [Ids -> Requests \cup {None}]]
        /\ calls \in Seq(Requests \cup Handlers)
        /\ completed \in [Requests -> Nat]
        /\ issued \subseteq Requests
        /\ lastRequestId \in Ids \cup {0} /\ older \in 1..2
    BY <1>1 DEF DataOK
  <1>4. NextId(lastRequestId) \in Ids /\ 0 \notin Ids
    BY <1>1, NextIdIs, IdSpace DEF DataOK
  <1>5. ASSUME NEW r \in Requests, ReadOrWrite(r) PROVE Once'
    <2>1. /\ r \notin issued /\ issued' = issued \cup {r}
          /\ lastRequestId' # 0 /\ calls' = <<r>>
          /\ UNCHANGED <<requestMap, completed, drained>>
      BY <1>4, <1>5 DEF ReadOrWrite, NewRequest
    <2>2. Len(calls') = 1 /\ calls'[1] = r
      BY <2>1
    <2>3. FramesLive'
      BY <1>2, <2>1, <2>2 DEF FramesLive, NewUntouched
    <2>4. MapsLive'
      BY <1>2, <2>1, <2>2 DEF MapsLive
    <2>5. NewUntouched' /\ CompletedOnce'
      BY <1>2, <2>1 DEF NewUntouched, CompletedOnce
    <2> QED
      BY <2>3, <2>4, <2>5 DEF Once
  <1>6. ASSUME NEW h \in Handlers, calls = <<>>, calls' = <<h>>,
               UNCHANGED <<requestMap, completed, issued, drained>>
        PROVE  Once'
    <2>1. Len(calls') = 1 /\ calls'[1] = h /\ h \notin Requests /\ ~drained
      BY <1>2, <1>6 DEF FramesLive
    <2>2. FramesLive'
      BY <1>6, <2>1 DEF FramesLive
    <2>3. MapsLive'
      BY <1>2, <1>3, <1>6, <2>1 DEF MapsLive
    <2>4. NewUntouched' /\ CompletedOnce'
      BY <1>2, <1>6 DEF NewUntouched, CompletedOnce
    <2> QED
      BY <2>2, <2>3, <2>4 DEF Once
  <1>7. CASE HandleNotification
    BY <1>6, <1>7 DEF HandleNotification, Handlers, asked
  <1>8. CASE CheckTimeouts
    BY <1>6, <1>8 DEF CheckTimeouts, Handlers, asked
  <1>9. CASE HandleResponse
    <2> PICK m \in Messages : m = Head(toWorker)
      BY <1>1, <1>9, ResponseHandled
    <2> PICK r \in Requests, n \in 1..2 : Completes(m, r, n)
      BY <1>1, <1>9, ResponseHandled
    <2>1. m.id \in Ids
      BY DEF Messages
    <2>2. /\ requestMap' = [requestMap EXCEPT ![n][m.id] = None]
          /\ requestMap[n][m.id] = r
          /\ CompleteIo({r}) /\ MayReadMore(m, r) /\ UNCHANGED drained
      BY DEF Completes
    <2>3. r \in issued /\ completed[r] = 0 /\ r # None
          /\ \A j \in 1..Len(calls) : calls[j] # r
      BY <1>2, <2>1, <2>2 DEF MapsLive
    <2>4. issued \subseteq issued'
      BY <2>2, MayBeMore DEF ReadsMore, NewRequest
    <2>5. /\ CompletedOnce' /\ NewUntouched'
          /\ \A q \in Requests \ {r} : completed'[q] = completed[q]
      BY <1>1, <2>2, <2>3, <2>4, CompletesLive
    <2>6. \A k \in 1..2, i \in Ids : requestMap'[k][i] # None =>
             requestMap'[k][i] = requestMap[k][i] /\ requestMap[k][i] # r
      <3> SUFFICES ASSUME NEW k \in 1..2, NEW i \in Ids,
                          requestMap'[k][i] # None
                   PROVE  requestMap'[k][i] = requestMap[k][i]
                          /\ requestMap[k][i] # r
        OBVIOUS
      <3>1. ~(k = n /\ i = m.id)
        BY <1>3, <2>1, <2>2
      <3> QED
        BY <1>2, <1>3, <2>1, <2>2, <2>3, <3>1 DEF MapsLive
    <2>7. CASE UNCHANGED <<calls, issued, lastRequestId, idsReused>>
      <3>1. FramesLive'
        BY <1>2, <2>2, <2>3, <2>5, <2>7 DEF FramesLive
      <3>2. \A k \in 1..2, i \in Ids : requestMap'[k][i] # None =>
               requestMap[k][i] \in Requests \ {r}
        BY <1>3, <2>6
      <3>3. MapsLive'
        BY <1>2, <2>5, <2>6, <2>7, <3>2 DEF MapsLive
      <3> QED
        BY <2>5, <3>1, <3>3 DEF Once
    <2>8. ASSUME NEW more \in Requests, ReadsMore(more) PROVE Once'
      <3>1. /\ more \notin issued /\ issued' = issued \cup {more}
            /\ lastRequestId' # 0 /\ calls' = Append(calls, more)
        BY <1>4, <2>8 DEF ReadsMore, NewRequest
      <3>2. more # r /\ completed'[more] = 0
        BY <1>2, <2>3, <2>5, <3>1 DEF NewUntouched
      <3>3. Len(calls') = Len(calls) + 1 /\ calls'[Len(calls) + 1] = more
            /\ calls' # <<>> /\ Len(calls) \in Nat
            /\ \A j \in 1..Len(calls) : calls'[j] = calls[j]
        BY <1>3, <3>1, AppendOne
      <3>4. \A j \in 1..Len(calls') : j \in 1..Len(calls)
                                      \/ j = Len(calls) + 1
        BY <3>3
      <3>5. FramesLive'
        BY <1>2, <2>2, <2>3, <2>5, <3>1, <3>2, <3>3, <3>4 DEF FramesLive
      <3>6. MapsLive'
        <4>1. \A k \in 1..2, i \in Ids : requestMap'[k][i] # None =>
                 /\ requestMap'[k][i] \in issued \ {r}
                 /\ completed'[requestMap'[k][i]] = 0
                 /\ \A j \in 1..Len(calls) : calls[j] # requestMap'[k][i]
          BY <1>2, <1>3, <2>5, <2>6 DEF MapsLive
        <4>2. \A k \in 1..2, i \in Ids : requestMap'[k][i] # None =>
                 \A j \in 1..Len(calls') : calls'[j] # requestMap'[k][i]
          BY <3>1, <3>3, <3>4, <4>1
        <4> QED
          BY <1>2, <2>6, <3>1, <4>1, <4>2 DEF MapsLive
      <3> QED
        BY <2>5, <3>5, <3>6 DEF Once
    <2> QED
      BY <2>2, <2>7, <2>8, MayBeMore
  <1>10. CASE UNCHANGED <<calls, drained, completed, issued, requestMap,
                          lastRequestId>>
    BY <1>2, <1>10 DEF Once, FramesLive, MapsLive, NewUntouched,
                       CompletedOnce
  <1>11. CASE HandleLateResponse
    BY <1>10, <1>11 DEF HandleLateResponse, asked
  <1>12. CASE NoMoreResponses
    <2>1. calls # <<>> /\ UNCHANGED <<completed, issued, requestMap,
                                      lastRequestId>>
      BY <1>12 DEF NoMoreResponses, asked
    <2>2. CASE calls' = calls
      BY <1>2, <2>1, <2>2 DEF Once, FramesLive, MapsLive, NewUntouched,
                              CompletedOnce
    <2>3. CASE calls' = Return /\ drained' = FALSE
      <3>1. \A n \in 1..Len(calls') : n \in 1..Len(calls)
                                      /\ calls'[n] = calls[n]
        BY <1>1, <2>1, <2>3, Returns
      <3> QED
        BY <1>2, <2>1, <2>3, <3>1 DEF Once, FramesLive, MapsLive,
                                      NewUntouched, CompletedOnce
    <2>4. \/ Top = "HandleNotification" /\ calls' = Return
             /\ drained' = FALSE
          \/ calls' = calls
      BY <1>12 DEF NoMoreResponses
    <2> QED
      BY <2>2, <2>3, <2>4
  <1>13. ASSUME calls # <<>>, calls' = Return, drained' = FALSE,
                issued' = issued
         PROVE  \A n \in 1..Len(calls') :
                   n \in 1..Len(calls) /\ n # Len(calls)
                   /\ calls'[n] = calls[n]
    BY <1>1, <1>13, Returns
  <1>14. CASE PushSend
    <2>1. calls # <<>> /\ Top \in Requests /\ lastRequestId \in Ids
      BY <1>1, <1>2, <1>14, PushSent
    <2>2. /\ calls' = Return /\ drained' = FALSE
          /\ UNCHANGED <<issued, completed, lastRequestId>>
      BY <1>14 DEF PushSend, Resumed, asked
    <2> PICK r \in Requests, k \in 1..2 : r = Top /\ k = newer
      BY <1>3, <2>1 DEF newer
    <2> PICK l \in Ids : l = lastRequestId
      BY <2>1
    <2>3. requestMap' = [requestMap EXCEPT ![k][l] = IF @ = None THEN r
                                                     ELSE @]
      BY <1>14 DEF PushSend, TrackPendingRequest
    <2>4. Len(calls) \in 1..Len(calls) /\ r = calls[Len(calls)]
      BY <1>1, <2>1, TopFrame
    <2>5. r \in issued /\ completed[r] = 0
      BY <1>2, <2>4 DEF FramesLive
    <2>6. \A n \in 1..Len(calls') :
             n \in 1..Len(calls) /\ n # Len(calls) /\ calls'[n] = calls[n]
      BY <1>13, <2>1, <2>2
    <2>7. FramesLive'
      BY <1>2, <2>2, <2>6 DEF FramesLive
    <2>8. \A n \in 1..Len(calls') : calls'[n] # r
      BY <1>2, <2>4, <2>6 DEF FramesLive
    <2>9. \A m \in 1..2, i \in Ids :
             \/ requestMap'[m][i] = requestMap[m][i]
             \/ m = k /\ i = l /\ requestMap'[m][i] = r
      BY <1>3, <2>3
    <2>10. \A m \in 1..2, i \in Ids : requestMap[m][i] # r
      BY <1>2, <2>4 DEF MapsLive
    <2>11. MapsLive'
      BY <1>2, <2>2, <2>5, <2>6, <2>8, <2>9, <2>10 DEF MapsLive
    <2>12. NewUntouched' /\ CompletedOnce'
      BY <1>2, <2>2 DEF NewUntouched, CompletedOnce
    <2> QED
      BY <2>7, <2>11, <2>12 DEF Once
  <1>15. CASE PushFails
    <2>1. calls # <<>> /\ Top \in Requests
      BY <1>2, <1>15 DEF PushFails, FramesLive
    <2>2. /\ calls' = Return /\ drained' = FALSE /\ CompleteIo({Top})
          /\ UNCHANGED <<issued, requestMap, lastRequestId>>
      BY <1>15 DEF PushFails, Resumed, asked
    <2> PICK r \in Requests : r = Top
      BY <2>1
    <2>3. Len(calls) \in 1..Len(calls) /\ r = calls[Len(calls)]
      BY <1>1, <2>1, TopFrame
    <2>4. r \in issued /\ completed[r] = 0
      BY <1>2, <2>3 DEF FramesLive
    <2>5. /\ CompletedOnce' /\ NewUntouched'
          /\ \A q \in Requests \ {r} : completed'[q] = completed[q]
      BY <1>1, <2>2, <2>4, CompletesLive
    <2>6. \A n \in 1..Len(calls') :
             n \in 1..Len(calls) /\ n # Len(calls) /\ calls'[n] = calls[n]
      BY <1>13, <2>1, <2>2
    <2>7. \A n \in 1..Len(calls') : calls'[n] # r
      BY <1>2, <2>3, <2>6 DEF FramesLive
    <2>8. FramesLive'
      BY <1>2, <2>2, <2>5, <2>6, <2>7 DEF FramesLive
    <2>9. \A m \in 1..2, i \in Ids : requestMap[m][i] # r
      BY <1>2, <2>3 DEF MapsLive
    <2>10. \A m \in 1..2, i \in Ids : requestMap[m][i] # None =>
              completed'[requestMap[m][i]] = 0
      BY <1>2, <1>3, <2>5, <2>9 DEF MapsLive
    <2>11. MapsLive'
      BY <1>2, <2>2, <2>6, <2>10 DEF MapsLive
    <2> QED
      BY <2>5, <2>8, <2>11 DEF Once
  <1>16. CASE TimeoutsChecked
    <2> DEFINE R == {requestMap[older][i] : i \in Ids} \ {None}
    <2>1. calls # <<>>
      BY <1>2, <1>16 DEF TimeoutsChecked, FramesLive
    <2>2. /\ calls' = Return /\ drained' = FALSE /\ CompleteIo(R)
          /\ requestMap' = [requestMap EXCEPT ![older] = [i \in Ids |-> None]]
          /\ UNCHANGED <<issued, lastRequestId>>
      BY <1>16 DEF TimeoutsChecked, AbandonOld, Resumed, asked
    <2>3. R \in SUBSET issued /\ \A r \in R : completed[r] = 0
      BY <1>2, <1>3 DEF MapsLive
    <2>4. \A n \in 1..Len(calls) : calls[n] \notin R
      BY <1>2, <1>3 DEF MapsLive
    <2>5. \A m \in 1..2, i \in Ids : requestMap'[m][i] # None =>
             requestMap'[m][i] = requestMap[m][i] /\ m # older
      BY <1>3, <2>2
    <2>6. \A m \in 1..2, i \in Ids :
             (m # older /\ requestMap[m][i] # None)
                 => requestMap[m][i] \notin R
      BY <1>2, <1>3 DEF MapsLive
    <2> HIDE DEF R
    <2>7. /\ CompletedOnce' /\ NewUntouched'
          /\ \A q \in Requests \ R : completed'[q] = completed[q]
      BY <1>1, <2>2, <2>3, CompletesLive
    <2>8. \A n \in 1..Len(calls') :
             n \in 1..Len(calls) /\ n # Len(calls) /\ calls'[n] = calls[n]
      BY <1>13, <2>1, <2>2
    <2>9. FramesLive'
      BY <1>2, <2>2, <2>4, <2>7, <2>8 DEF FramesLive
    <2>10. \A m \in 1..2, i \in Ids : requestMap'[m][i] # None =>
              completed'[requestMap'[m][i]] = 0
      BY <1>2, <1>3, <2>5, <2>6, <2>7 DEF MapsLive
    <2>11. MapsLive'
      BY <1>2, <2>2, <2>5, <2>8, <2>10 DEF MapsLive
    <2> QED
      BY <2>7, <2>9, <2>11 DEF Once
  <1>17. CASE WorkerRestart
    <2>1. /\ calls' = <<>> /\ drained' = FALSE
          /\ requestMap' = [m \in 1..2 |-> [i \in Ids |-> None]]
          /\ UNCHANGED <<issued, completed>>
      BY <1>17 DEF WorkerRestart
    <2>2. FramesLive' /\ MapsLive'
      BY <2>1 DEF FramesLive, MapsLive
    <2> QED
      BY <1>2, <2>1, <2>2 DEF Once, NewUntouched, CompletedOnce
  <1>18. CASE DiskerPop
    BY <1>10, <1>18 DEF DiskerPop, asked
  <1>19. CASE DiskerPush
    BY <1>10, <1>19 DEF DiskerPush, asked
  <1>20. CASE UNCHANGED vars
    BY <1>10, <1>20 DEF vars
  <1> QED
    BY <1>5, <1>7, <1>8, <1>9, <1>11, <1>12, <1>14, <1>15, <1>16, <1>17,
       <1>18, <1>19, <1>20 DEF IoNext, WorkerStep

(* A page stays in one place.                                              *)
LEMMA PagesStep == IoInv /\ [IoNext]_vars => PagesApart'
  <1> SUFFICES ASSUME IoInv, [IoNext]_vars PROVE PagesApart'
    OBVIOUS
  <1> USE Distinct
  <1>1. DataOK /\ FramesLive /\ PagesApart
    BY DEF IoInv
  <1>2. /\ toDisker \in Seq(Messages) /\ toWorker \in Seq(Messages)
        /\ hand \in Messages \cup {None} /\ free \subseteq Pages
    BY <1>1 DEF DataOK
  <1>3. CASE UNCHANGED <<toDisker, toWorker, hand, free>>
    BY <1>1, <1>3 DEF PagesApart, QueuePages
  (* The worker takes a response, and may put its page back. *)
  <1>4. ASSUME NEW m, toWorker # <<>>, m = Head(toWorker),
               toWorker' = Tail(toWorker), UNCHANGED <<toDisker, hand>>,
               free' = free \/ free' = free \cup PageOf(m)
        PROVE  PagesApart'
    <2> DEFINE p == m.page
    <2>1. \A n \in 1..Len(toWorker') :
             n + 1 \in 1..Len(toWorker) /\ toWorker'[n] = toWorker[n + 1]
             /\ n + 1 # 1 /\ n \in Int
      BY <1>2, <1>4, HeadTail
    <2>2. 1 \in 1..Len(toWorker) /\ m = toWorker[1]
      BY <1>2, <1>4, HeadTail
    <2>3. /\ \A n \in 1..Len(toWorker') :
                p # None => toWorker'[n].page # p
          /\ \A n \in 1..Len(toDisker) : p # None => toDisker[n].page # p
          /\ (p # None /\ hand # None) => hand.page # p
      <3>1. \A n \in 1..Len(toWorker) :
               (n # 1 /\ p # None) => toWorker[n].page # p
        BY <1>1, <2>2 DEF PagesApart, QueuePages
      <3>2. \A n \in 1..Len(toWorker') : p # None => toWorker'[n].page # p
        BY <2>1, <3>1
      <3>3. \A n \in 1..Len(toDisker) : p # None => toDisker[n].page # p
        BY <1>1, <2>2 DEF PagesApart
      <3>4. (p # None /\ hand # None) => hand.page # p
        BY <1>1, <2>2 DEF PagesApart, QueuePages
      <3> QED
        BY <3>2, <3>3, <3>4
    <2>4. free' \subseteq free \cup {p} /\ (p = None => free' = free)
      BY <1>4 DEF PageOf
    <2>5. QueuePages(toWorker)'
      <3>1. \A n \in 1..Len(toWorker') : toWorker'[n].page \notin free'
        BY <1>1, <2>1, <2>3, <2>4 DEF PagesApart, QueuePages
      <3>2. \A n, k \in 1..Len(toWorker') :
               (n # k /\ toWorker'[n].page # None)
                   => toWorker'[n].page # toWorker'[k].page
        <4> SUFFICES ASSUME NEW n \in 1..Len(toWorker'),
                            NEW k \in 1..Len(toWorker'),
                            n # k, toWorker'[n].page # None
                     PROVE  toWorker'[n].page # toWorker'[k].page
          OBVIOUS
        <4>1. n + 1 # k + 1
          BY <2>1
        <4> QED
          BY <1>1, <2>1, <4>1 DEF PagesApart, QueuePages
      <3>3. \A n \in 1..Len(toWorker') :
               (hand # None /\ toWorker'[n].page # None)
                   => toWorker'[n].page # hand.page
        BY <1>1, <2>1 DEF PagesApart, QueuePages
      <3> QED
        BY <1>4, <3>1, <3>2, <3>3 DEF QueuePages
    <2>6. QueuePages(toDisker)'
      BY <1>1, <1>4, <2>3, <2>4 DEF PagesApart, QueuePages
    <2>7. \A n \in 1..Len(toDisker), k \in 1..Len(toWorker') :
             toDisker[n].page # None
                 => toDisker[n].page # toWorker'[k].page
      BY <1>1, <2>1 DEF PagesApart
    <2>8. hand # None => hand.page \notin free'
      BY <1>1, <2>3, <2>4 DEF PagesApart
    <2> QED
      BY <1>4, <2>5, <2>6, <2>7, <2>8 DEF PagesApart
  <1>5. CASE HandleResponse
    <2> PICK m \in Messages : m = Head(toWorker)
      BY <1>1, <1>5, ResponseHandled
    <2> PICK r \in Requests, n \in 1..2 : Completes(m, r, n)
      BY <1>1, <1>5, ResponseHandled
    <2> QED
      BY <1>1, <1>4, <1>5, ResponseHandled DEF Completes
  <1>6. CASE HandleLateResponse
    BY <1>4, <1>6 DEF HandleLateResponse
  <1>7. CASE PushSend
    <2> PICK m \in Messages : Pushes(Top, m)
      BY <1>1, <1>7, PushSent
    <2> PICK L \in Nat : L = Len(toDisker)
      BY <1>2
    <2>1. UNCHANGED <<toWorker, hand>>
      BY <1>7 DEF PushSend
    <2>2. /\ Len(toDisker') = L + 1 /\ toDisker'[L + 1] = m
          /\ \A n \in 1..L : toDisker'[n] = toDisker[n]
          /\ \A n \in 1..Len(toDisker') : n \in 1..L \/ n = L + 1
      BY <1>2, AppendOne DEF Pushes
    <2>3. \/ m.page = None /\ free' = free
          \/ m.page \in free /\ free' = free \ {m.page}
      BY DEF Pushes
    <2>4. m.page \notin free' /\ free' \subseteq free
      BY <1>2, <2>3
    <2>5. m.page # None =>
             /\ \A n \in 1..L : toDisker[n].page # m.page
             /\ \A n \in 1..Len(toWorker) : toWorker[n].page # m.page
             /\ hand # None => hand.page # m.page
      BY <1>1, <2>3 DEF PagesApart, QueuePages
    <2>6. QueuePages(toWorker)'
      BY <1>1, <2>1, <2>4 DEF PagesApart, QueuePages
    <2>7. QueuePages(toDisker)'
      <3> DEFINE q == toDisker'
      <3>1. \A n \in 1..Len(q) : q[n].page \notin free'
        BY <1>1, <2>2, <2>4 DEF PagesApart, QueuePages
      <3>2. \A n, k \in 1..Len(q) :
               (n # k /\ q[n].page # None) => q[n].page # q[k].page
        <4> SUFFICES ASSUME NEW n \in 1..Len(q), NEW k \in 1..Len(q),
                            n # k, q[n].page # None
                     PROVE  q[n].page # q[k].page
          OBVIOUS
        <4>1. CASE n \in 1..L /\ k \in 1..L
          BY <1>1, <2>2, <4>1 DEF PagesApart, QueuePages
        <4>2. CASE n = L + 1 /\ k \in 1..L
          BY <2>2, <2>5, <4>2
        <4>3. CASE n \in 1..L /\ k = L + 1
          BY <2>2, <2>5, <4>3
        <4> QED
          BY <2>2, <4>1, <4>2, <4>3
      <3>3. \A n \in 1..Len(q) : (hand # None /\ q[n].page # None)
                                    => q[n].page # hand.page
        BY <1>1, <2>2, <2>5 DEF PagesApart, QueuePages
      <3> QED
        BY <2>1, <3>1, <3>2, <3>3 DEF QueuePages
    <2>8. \A n \in 1..Len(toDisker'), k \in 1..Len(toWorker) :
             toDisker'[n].page # None
                 => toDisker'[n].page # toWorker[k].page
      BY <1>1, <2>2, <2>5 DEF PagesApart
    <2> QED
      BY <1>1, <2>1, <2>4, <2>6, <2>7, <2>8 DEF PagesApart
  <1>8. CASE PushFails
    <2>1. UNCHANGED <<toDisker, toWorker, hand>> /\ free' \subseteq free
      BY <1>8 DEF PushFails
    <2> QED
      BY <1>1, <2>1 DEF PagesApart, QueuePages
  <1>9. CASE DiskerPop
    <2> PICK m \in Messages : m = Head(toDisker)
      BY <1>1, <1>9, DiskerPopped
    <2> DEFINE p == m.page
    <2>1. /\ toDisker # <<>> /\ hand = None /\ hand' \in Messages
          /\ toDisker' = Tail(toDisker)
          /\ \/ hand' = m /\ free' = free
             \/ hand'.page \in free /\ free' = free \ {hand'.page}
             \/ hand'.page = None /\ free' = free \cup PageOf(m)
      BY <1>1, <1>9, DiskerPopped
    <2>2. UNCHANGED toWorker
      BY <1>9 DEF DiskerPop
    <2> PICK h \in Messages : h = hand'
      BY <2>1
    <2>3. \A n \in 1..Len(toDisker') :
             n + 1 \in 1..Len(toDisker) /\ toDisker'[n] = toDisker[n + 1]
             /\ n + 1 # 1 /\ n \in Int
      BY <1>2, <2>1, HeadTail
    <2>4. 1 \in 1..Len(toDisker) /\ m = toDisker[1]
      BY <1>2, <2>1, HeadTail
    <2>5. p # None =>
             /\ \A n \in 1..Len(toDisker') : toDisker'[n].page # p
             /\ \A n \in 1..Len(toWorker) : toWorker[n].page # p
      <3>1. \A n \in 1..Len(toDisker) :
               (n # 1 /\ p # None) => toDisker[n].page # p
        BY <1>1, <2>4 DEF PagesApart, QueuePages
      <3>2. \A n \in 1..Len(toDisker') : p # None => toDisker'[n].page # p
        BY <2>3, <3>1
      <3>3. \A n \in 1..Len(toWorker) : p # None => toWorker[n].page # p
        BY <1>1, <2>4 DEF PagesApart
      <3> QED
        BY <3>2, <3>3
    <2>6. /\ \A n \in 1..Len(toDisker') : toDisker'[n].page \notin free
          /\ \A n \in 1..Len(toWorker) : toWorker[n].page \notin free
          /\ p \notin free
      BY <1>1, <2>3, <2>4 DEF PagesApart, QueuePages
    <2>7. /\ h.page \notin free'
          /\ \A n \in 1..Len(toDisker') : toDisker'[n].page \notin free'
          /\ \A n \in 1..Len(toWorker) : toWorker[n].page \notin free'
          /\ h.page # None =>
                /\ \A n \in 1..Len(toDisker') : toDisker'[n].page # h.page
                /\ \A n \in 1..Len(toWorker) : toWorker[n].page # h.page
      <3>1. CASE h = m /\ free' = free
        BY <2>5, <2>6, <3>1
      <3>2. CASE h.page \in free /\ free' = free \ {h.page}
        BY <2>6, <3>2
      <3>3. CASE h.page = None /\ free' = free \cup ({p} \ {None})
        <4>1. None \notin free
          BY <1>2
        <4> QED
          BY <2>5, <2>6, <3>3, <4>1
      <3> QED
        BY <2>1, <3>1, <3>2, <3>3 DEF PageOf
    <2>8. \A n, k \in 1..Len(toDisker') :
             (n # k /\ toDisker'[n].page # None)
                 => toDisker'[n].page # toDisker'[k].page
      <3> SUFFICES ASSUME NEW n \in 1..Len(toDisker'),
                          NEW k \in 1..Len(toDisker'),
                          n # k, toDisker'[n].page # None
                   PROVE  toDisker'[n].page # toDisker'[k].page
        OBVIOUS
      <3>1. n + 1 # k + 1
        BY <2>3
      <3> QED
        BY <1>1, <2>3, <3>1 DEF PagesApart, QueuePages
    <2>9. QueuePages(toDisker)'
      BY <2>7, <2>8 DEF QueuePages
    <2>10. QueuePages(toWorker)'
      BY <1>1, <2>2, <2>7 DEF PagesApart, QueuePages
    <2>11. \A n \in 1..Len(toDisker'), k \in 1..Len(toWorker) :
              toDisker'[n].page # None
                  => toDisker'[n].page # toWorker[k].page
      BY <1>1, <2>3 DEF PagesApart
    <2> QED
      BY <2>2, <2>7, <2>9, <2>10, <2>11 DEF PagesApart
  <1>10. CASE DiskerPush
    <2>1. hand # None /\ hand' = None /\ UNCHANGED <<toDisker, free>>
      BY <1>10 DEF DiskerPush
    <2> PICK h \in Messages : h = hand
      BY <1>2, <2>1
    <2>2. CASE toWorker' = toWorker
      BY <1>1, <2>1, <2>2 DEF PagesApart, QueuePages
    <2>3. CASE toWorker' = Append(toWorker, h)
      <3> PICK L \in Nat : L = Len(toWorker)
        BY <1>2
      <3>1. /\ Len(toWorker') = L + 1 /\ toWorker'[L + 1] = h
            /\ \A n \in 1..L : toWorker'[n] = toWorker[n]
            /\ \A n \in 1..Len(toWorker') : n \in 1..L \/ n = L + 1
        BY <1>2, <2>3, AppendOne
      <3>2. h.page \notin free /\ (h.page # None =>
               /\ \A n \in 1..L : toWorker[n].page # h.page
               /\ \A n \in 1..Len(toDisker) : toDisker[n].page # h.page)
        BY <1>1, <2>1 DEF PagesApart, QueuePages
      <3>3. QueuePages(toWorker)'
        BY <1>1, <2>1, <3>1, <3>2 DEF PagesApart, QueuePages
      <3>4. QueuePages(toDisker)'
        BY <1>1, <2>1 DEF PagesApart, QueuePages
      <3>5. \A n \in 1..Len(toDisker), k \in 1..Len(toWorker') :
               toDisker[n].page # None
                   => toDisker[n].page # toWorker'[k].page
        BY <1>1, <3>1, <3>2 DEF PagesApart
      <3> QED
        BY <2>1, <3>3, <3>4, <3>5 DEF PagesApart
    <2> QED
      BY <1>10, <2>2, <2>3 DEF DiskerPush
  <1> QED
    BY <1>3, <1>5, <1>6, <1>7, <1>8, <1>9, <1>10
       DEF IoNext, WorkerStep, ReadOrWrite, HandleNotification,
           CheckTimeouts, NoMoreResponses, TimeoutsChecked, WorkerRestart,
           vars

(* A new id makes the others one older; there are too few requests for the *)
(* ids to come round.                                                      *)
LEMMA Ages ==
    ASSUME DataOK, NEW r \in Requests, NewRequest(r),
           NEW i \in Ids, Age(i) < Cardinality(issued)
    PROVE  Age(i)' > 0 /\ Age(i)' < Cardinality(issued')
  <1>1. IsFiniteSet(Requests) /\ issued \in SUBSET Requests
        /\ lastRequestId \in Ids \cup {0}
    BY IoAssumption DEF DataOK
  <1>2. r \notin issued /\ issued' = issued \cup {r}
        /\ lastRequestId' = NextId(lastRequestId)
    BY DEF NewRequest
  <1>3. IsFiniteSet(issued) /\ issued' \in SUBSET Requests
    BY <1>1, <1>2, FS_Subset
  <1>4. PICK c \in Nat : c = Cardinality(issued)
    BY <1>3, FS_CardinalityType
  <1>5. Cardinality(issued') = c + 1
    BY <1>2, <1>3, <1>4, FS_AddElement
  <1>6. Cardinality(issued') <= Cardinality(Requests)
    BY <1>1, <1>3, FS_Subset
  <1>7. PICK M \in Nat : M = LastId
    BY IdSpace
  <1>8. c + 1 < M /\ i \in 1..M /\ lastRequestId \in 0..M
    BY <1>1, <1>5, <1>6, <1>7, IdSpace
  <1>9. \/ lastRequestId \in {0, M} /\ lastRequestId' = 1
        \/ lastRequestId \notin {0, M} /\ lastRequestId' = lastRequestId + 1
    BY <1>1, <1>2, <1>7, NextIdIs
  <1>10. LastId' = M
    BY <1>7 DEF LastId
  <1>11. /\ i <= lastRequestId => lastRequestId - i < c
         /\ ~(i <= lastRequestId) => lastRequestId + M - i < c
    BY <1>4, <1>7 DEF Age
  <1>12. /\ i <= lastRequestId' => Age(i)' = lastRequestId' - i
         /\ ~(i <= lastRequestId') => Age(i)' = lastRequestId' + M - i
    BY <1>10 DEF Age
  <1> QED
    BY <1>5, <1>8, <1>9, <1>11, <1>12

(* The elements of a queue that is taken from, or added to.                *)
LEMMA Taken ==
    ASSUME NEW q \in Seq(Messages), q # <<>>
    PROVE  Elements(Tail(q)) \subseteq Elements(q) /\ Head(q) \in Elements(q)
  BY HeadTail DEF Elements

(* The elements of a queue that one more message was sent to.              *)
LEMMA Added ==
    ASSUME NEW q \in Seq(Messages), NEW m \in Messages
    PROVE  Elements(Append(q, m)) = Elements(q) \cup {m}
  BY AppendOne DEF Elements

(* Messages under way are messages.                                        *)
LEMMA InFlightMessages ==
    ASSUME NEW q \in Seq(Messages), NEW s \in Seq(Messages),
           NEW h \in Messages \cup {None}
    PROVE  \A m \in Elements(q) \cup Elements(s) \cup ({h} \ {None}) :
              m \in Messages /\ m.id \in Ids
  <1>1. Elements(q) \subseteq Messages /\ Elements(s) \subseteq Messages
    BY DEF Elements
  <1>2. \A m \in Messages : m.id \in Ids
    BY DEF Messages
  <1> QED
    BY <1>1, <1>2

(* An answer has an id that no other request uses.                         *)
LEMMA IdsStep == IoInv /\ [IoNext]_vars => IdsFresh'
  <1> SUFFICES ASSUME IoInv, [IoNext]_vars, ~idsReused' PROVE IdsFresh'
    BY DEF IdsFresh
  <1> USE Distinct
  <1>1. DataOK /\ FramesLive
    BY DEF IoInv
  <1>2. /\ requestMap \in [1..2 -> [Ids -> Requests \cup {None}]]
        /\ calls \in Seq(Requests \cup Handlers)
        /\ toDisker \in Seq(Messages) /\ toWorker \in Seq(Messages)
        /\ hand \in Messages \cup {None}
        /\ lastRequestId \in Ids \cup {0} /\ older \in 1..2
    BY <1>1 DEF DataOK
  <1> DEFINE
        (* no more messages and map entries than before *)
        Shrinks == /\ \A x \in InFlight' : \E y \in InFlight :
                         y.id = x.id /\ y.for = x.for
                   /\ \A m \in 1..2, i \in Ids :
                         requestMap'[m][i] \in {requestMap[m][i], None}
        Fresh == /\ \A n \in 1..Len(calls) :
                       calls[n] \in Requests => n = Len(calls)
                 /\ \A i \in Ids : InUse(i) =>
                       /\ Age(i) < Cardinality(issued)
                       /\ Unsent => Age(i) > 0
                 /\ \A m \in InFlight : \A n \in 1..2 :
                       requestMap[n][m.id] \in {m.for, None}
  <1> HIDE DEF Shrinks, Fresh
  <1>3. ~idsReused => Fresh
    BY DEF IoInv, IdsFresh, Fresh
  <1>4. SUFFICES Fresh'
    BY DEF IdsFresh, Fresh
  <1>5. \A m \in InFlight : m.id \in Ids
    BY <1>2, InFlightMessages DEF InFlight
  <1>6. toDisker' \in Seq(Messages) /\ toWorker' \in Seq(Messages)
        /\ hand' \in Messages \cup {None}
    BY DataStep DEF DataOK
  <1>7. \A m \in InFlight' : m \in Messages /\ m.id \in Ids
    <2>1. InFlight' = Elements(toDisker') \cup Elements(toWorker')
                      \cup ({hand'} \ {None})
      BY DEF InFlight, Elements
    <2> QED
      BY <1>6, <2>1, InFlightMessages
  <1>8. ASSUME Shrinks, Fresh
        PROVE  /\ \A i \in Ids : InUse(i)' => InUse(i)
               /\ \A m \in InFlight' : \A n \in 1..2 :
                     requestMap'[n][m.id] \in {m.for, None}
    <2>1. \A i \in Ids : InUse(i)' => InUse(i)
      BY <1>8 DEF InUse, Shrinks
    <2>2. ASSUME NEW m \in InFlight', NEW n \in 1..2
          PROVE  requestMap'[n][m.id] \in {m.for, None}
      <3>1. PICK y \in InFlight : y.id = m.id /\ y.for = m.for
        BY <1>8 DEF Shrinks
      <3>2. requestMap'[n][m.id] \in {requestMap[n][m.id], None}
        BY <1>7, <1>8 DEF Shrinks
      <3> QED
        BY <1>8, <3>1, <3>2 DEF Fresh
    <2> QED
      BY <2>1, <2>2
  <1>9. ASSUME Shrinks, Fresh, UNCHANGED <<issued, lastRequestId>>,
               \A n \in 1..Len(calls') : calls'[n] \in Requests =>
                   n = Len(calls') /\ Unsent
        PROVE  Fresh'
    <2>1. \A i \in Ids : Age(i)' = Age(i)
      BY <1>9 DEF Age, LastId
    <2>2. Unsent' => Unsent
      BY <1>9 DEF Unsent
    <2> QED
      BY <1>8, <1>9, <2>1, <2>2 DEF Fresh
  <1>10. ASSUME Fresh, UNCHANGED calls
         PROVE  \A n \in 1..Len(calls') : calls'[n] \in Requests =>
                    n = Len(calls') /\ Unsent
    BY <1>10 DEF Fresh, Unsent
  <1>11. ASSUME Fresh, calls # <<>>, calls' = Return
         PROVE  \A n \in 1..Len(calls') : calls'[n] \notin Requests
    BY <1>1, <1>11, Returns DEF Fresh
  <1>12. ASSUME UNCHANGED <<toDisker, toWorker, hand, requestMap>>
         PROVE  Shrinks
    <2>1. InFlight' = InFlight
      BY <1>12 DEF InFlight, Elements
    <2> QED
      BY <1>12, <2>1 DEF Shrinks
  (* A new request, as the only one that is not sent yet. *)
  <1>13. ASSUME Shrinks, Fresh, NEW r \in Requests, NewRequest(r),
                \A n \in 1..Len(calls') :
                    calls'[n] \in Requests => n = Len(calls')
         PROVE  Fresh'
    <2>1. \A i \in Ids : InUse(i)' =>
             Age(i)' > 0 /\ Age(i)' < Cardinality(issued')
      <3> SUFFICES ASSUME NEW i \in Ids, InUse(i)'
                   PROVE  Age(i)' > 0 /\ Age(i)' < Cardinality(issued')
        OBVIOUS
      <3>1. Age(i) < Cardinality(issued)
        BY <1>8, <1>13 DEF Fresh
      <3> QED
        BY <1>1, <1>13, <3>1, Ages
    <2> QED
      BY <1>8, <1>13, <2>1 DEF Fresh
  <1>14. ASSUME NEW r \in Requests, ReadOrWrite(r) PROVE Fresh'
    <2>1. NewRequest(r) /\ calls' = <<r>> /\ UNCHANGED idsReused
          /\ UNCHANGED <<toDisker, toWorker, hand, requestMap>>
      BY <1>14 DEF ReadOrWrite
    <2>2. Fresh
      BY <1>3, <2>1
    <2>3. Len(calls') = 1
      BY <2>1
    <2> QED
      BY <1>12, <1>13, <2>1, <2>2, <2>3
  <1>15. CASE HandleNotification \/ CheckTimeouts
    <2>1. /\ UNCHANGED <<idsReused, issued, lastRequestId>>
          /\ UNCHANGED <<toDisker, toWorker, hand, requestMap>>
      BY <1>15 DEF HandleNotification, CheckTimeouts, asked
    <2>2. PICK h \in Handlers : calls' = <<h>>
      BY <1>15 DEF HandleNotification, CheckTimeouts, Handlers
    <2>3. Len(calls') = 1 /\ calls'[1] = h /\ h \notin Requests
      BY <2>2
    <2> QED
      BY <1>3, <1>9, <1>12, <2>1, <2>3
  <1>16. CASE HandleResponse
    <2> PICK m \in Messages : m = Head(toWorker)
      BY <1>1, <1>16, ResponseHandled
    <2> PICK r \in Requests, n \in 1..2 : Completes(m, r, n)
      BY <1>1, <1>16, ResponseHandled
    <2>1. m.id \in Ids /\ toWorker # <<>>
      BY <1>16 DEF HandleResponse, Messages
    <2>2. Shrinks
      <3>1. InFlight' \subseteq InFlight
        BY <1>2, <2>1, Taken DEF Completes, InFlight, Elements
      <3>2. \A k \in 1..2, i \in Ids :
               requestMap'[k][i] \in {requestMap[k][i], None}
        BY <1>2, <2>1 DEF Completes
      <3> QED
        BY <3>1, <3>2 DEF Shrinks
    <2>3. MayReadMore(m, r)
      BY DEF Completes
    <2>4. CASE UNCHANGED <<calls, issued, lastRequestId, idsReused>>
      BY <1>3, <1>9, <1>10, <2>2, <2>4
    <2>5. ASSUME NEW more \in Requests, ReadsMore(more) PROVE Fresh'
      <3>1. ~idsReused /\ ~(Nested > 0)
        BY <2>5 DEF ReadsMore
      <3>2. Fresh
        BY <1>3, <3>1
      <3> DEFINE N == {k \in 1..Len(calls) : calls[k] \in Requests}
      <3>3. N = {}
        <4>1. IsFiniteSet(1..Len(calls))
          BY <1>2, FS_Interval
        <4>2. IsFiniteSet(N)
          BY <4>1, FS_Subset
        <4>3. Cardinality(N) \in Nat /\ ~(Cardinality(N) > 0)
          BY <3>1, <4>2, FS_CardinalityType DEF Nested
        <4>4. Cardinality(N) = 0
          BY <4>3
        <4> QED
          BY <4>2, <4>4, FS_EmptySet
      <3>4. calls' = Append(calls, more) /\ NewRequest(more)
        BY <2>5 DEF ReadsMore
      <3>5. Len(calls') = Len(calls) + 1 /\ Len(calls) \in Nat
            /\ \A k \in 1..Len(calls) : calls'[k] = calls[k]
        BY <1>2, <3>4
      <3>6. \A k \in 1..Len(calls') :
               calls'[k] \in Requests => k = Len(calls')
        BY <3>3, <3>5
      <3> QED
        BY <1>13, <2>2, <3>2, <3>4, <3>6
    <2> QED
      BY <2>3, <2>4, <2>5, MayBeMore
  <1>17. CASE HandleLateResponse
    <2>1. /\ UNCHANGED <<idsReused, issued, lastRequestId, calls>>
          /\ UNCHANGED <<toDisker, hand, requestMap>>
          /\ toWorker # <<>> /\ toWorker' = Tail(toWorker)
      BY <1>17 DEF HandleLateResponse, asked
    <2>2. InFlight' \subseteq InFlight
      BY <1>2, <2>1, Taken DEF InFlight, Elements
    <2>3. Shrinks
      BY <2>1, <2>2 DEF Shrinks
    <2> QED
      BY <1>3, <1>9, <1>10, <2>1, <2>3
  <1>18. CASE NoMoreResponses
    <2>1. /\ UNCHANGED <<idsReused, issued, lastRequestId>>
          /\ UNCHANGED <<toDisker, toWorker, hand, requestMap>>
          /\ calls # <<>> /\ (calls' = Return \/ calls' = calls)
      BY <1>18 DEF NoMoreResponses, asked
    <2>2. Fresh /\ Shrinks
      BY <1>3, <1>12, <2>1
    <2>3. CASE calls' = Return
      BY <1>9, <1>11, <2>1, <2>2, <2>3
    <2>4. CASE calls' = calls
      BY <1>9, <1>10, <2>1, <2>2, <2>4
    <2> QED
      BY <2>1, <2>3, <2>4
  <1>19. CASE PushSend
    <2>1. calls # <<>> /\ Top \in Requests /\ lastRequestId \in Ids
      BY <1>1, <1>19, PushSent
    <2> PICK r \in Requests, k \in 1..2 : r = Top /\ k = newer
      BY <1>2, <2>1 DEF newer
    <2> PICK m \in Messages : Pushes(r, m)
      BY <1>1, <1>19, PushSent
    <2> PICK l \in Ids : l = lastRequestId
      BY <2>1
    <2>2. /\ calls' = Return /\ toDisker' = Append(toDisker, m)
          /\ m.id = l /\ m.for = r
          /\ UNCHANGED <<issued, lastRequestId, idsReused, toWorker, hand>>
          /\ requestMap' = [requestMap EXCEPT ![k][l] = IF @ = None THEN r
                                                        ELSE @]
      BY <1>19 DEF PushSend, Pushes, TrackPendingRequest, asked
    <2>3. Fresh
      BY <1>3, <2>2
    <2>4. \A n \in 1..Len(calls') : calls'[n] \notin Requests
      BY <1>11, <2>1, <2>2, <2>3
    <2>5. Unsent /\ r \in issued
      BY <1>1, <2>1, TopFrame DEF Unsent, FramesLive
    <2>6. Age(l) = 0 /\ ~InUse(l)
      <3>1. l \in Int
        BY IdSpace
      <3>2. Age(l) = 0
        BY <3>1 DEF Age
      <3> QED
        BY <2>3, <2>5, <3>2 DEF Fresh
    <2>7. InFlight' = InFlight \cup {m}
      <3>1. Elements(toDisker') = Elements(toDisker) \cup {m}
        BY <1>2, <2>2, Added
      <3> QED
        BY <2>2, <3>1 DEF InFlight, Elements
    <2>8. \A n \in 1..2, i \in Ids :
             IF i = l THEN requestMap'[n][i] \in {r, None}
                      ELSE requestMap'[n][i] = requestMap[n][i]
      BY <1>2, <2>2, <2>6 DEF InUse
    <2>9. \A i \in Ids : InUse(i)' => InUse(i) \/ i = l
      BY <2>2, <2>7, <2>8 DEF InUse
    <2>10. \A i \in Ids : Age(i)' = Age(i)
      BY <2>2 DEF Age, LastId
    <2>11. Cardinality(issued) > 0
      <3>1. IsFiniteSet(issued)
        BY <1>1, FS_Subset, IoAssumption DEF DataOK
      <3>2. Cardinality(issued) \in Nat /\ Cardinality(issued) # 0
        BY <2>5, <3>1, FS_CardinalityType, FS_EmptySet
      <3> QED
        BY <3>2
    <2>12. \A i \in Ids : InUse(i)' => Age(i)' < Cardinality(issued')
      BY <2>2, <2>3, <2>6, <2>9, <2>10, <2>11 DEF Fresh
    <2>13. ~Unsent'
      BY <2>4 DEF Unsent
    <2>14. \A x \in InFlight' : \A n \in 1..2 :
              requestMap'[n][x.id] \in {x.for, None}
      <3> SUFFICES ASSUME NEW x \in InFlight', NEW n \in 1..2
                   PROVE  requestMap'[n][x.id] \in {x.for, None}
        OBVIOUS
      <3>1. CASE x = m
        BY <2>2, <2>8, <3>1
      <3>2. CASE x \in InFlight
        <4>1. x.id \in Ids /\ x.id # l
          BY <1>5, <2>6, <3>2 DEF InUse
        <4> QED
          BY <2>3, <2>8, <3>2, <4>1 DEF Fresh
      <3> QED
        BY <2>7, <3>1, <3>2
    <2> QED
      BY <2>4, <2>12, <2>13, <2>14 DEF Fresh
  <1>20. CASE PushFails
    <2>1. /\ UNCHANGED <<idsReused, issued, lastRequestId>>
          /\ UNCHANGED <<toDisker, toWorker, hand, requestMap>>
          /\ calls # <<>> /\ calls' = Return
      BY <1>1, <1>20 DEF PushFails, FramesLive, asked
    <2> QED
      BY <1>3, <1>9, <1>11, <1>12, <2>1
  <1>21. CASE TimeoutsChecked
    <2>1. /\ UNCHANGED <<idsReused, issued, lastRequestId>>
          /\ UNCHANGED <<toDisker, toWorker, hand>>
          /\ calls # <<>> /\ calls' = Return
          /\ requestMap' = [requestMap EXCEPT
                               ![older] = [i \in Ids |-> None]]
      BY <1>1, <1>21 DEF TimeoutsChecked, AbandonOld, FramesLive, asked
    <2>2. InFlight' = InFlight
      BY <2>1 DEF InFlight, Elements
    <2>3. Shrinks
      BY <1>2, <2>1, <2>2 DEF Shrinks
    <2> QED
      BY <1>3, <1>9, <1>11, <2>1, <2>3
  <1>22. CASE WorkerRestart
    BY <1>22 DEF WorkerRestart
  <1>23. CASE DiskerPop
    <2>1. /\ UNCHANGED <<idsReused, issued, lastRequestId, calls>>
          /\ UNCHANGED <<toWorker, requestMap>>
      BY <1>23 DEF DiskerPop, asked
    <2>2. /\ toDisker # <<>> /\ hand = None
          /\ hand'.id = Head(toDisker).id /\ hand'.for = Head(toDisker).for
          /\ toDisker' = Tail(toDisker)
      BY <1>1, <1>23, DiskerPopped
    <2>3. Head(toDisker) \in InFlight
      BY <1>2, <2>2, Taken DEF InFlight
    <2>4. InFlight' \subseteq InFlight \cup {hand'}
      BY <1>2, <2>1, <2>2, Taken DEF InFlight, Elements
    <2>5. Shrinks
      BY <2>1, <2>2, <2>3, <2>4 DEF Shrinks
    <2> QED
      BY <1>3, <1>9, <1>10, <2>1, <2>5
  <1>24. CASE DiskerPush
    <2>1. /\ UNCHANGED <<idsReused, issued, lastRequestId, calls>>
          /\ UNCHANGED <<toDisker, requestMap>>
          /\ hand # None /\ hand' = None
          /\ (toWorker' = toWorker \/ toWorker' = Append(toWorker, hand))
      BY <1>24 DEF DiskerPush, asked
    <2>2. InFlight' \subseteq InFlight
      <3>1. PICK h \in Messages : h = hand
        BY <1>2, <2>1
      <3>2. Elements(Append(toWorker, h)) = Elements(toWorker) \cup {h}
        BY <1>2, Added
      <3>3. Elements(toWorker') \subseteq Elements(toWorker) \cup {h}
        BY <2>1, <3>1, <3>2
      <3>4. InFlight' = Elements(toDisker) \cup Elements(toWorker')
        BY <2>1 DEF InFlight, Elements
      <3> QED
        BY <2>1, <3>1, <3>3, <3>4 DEF InFlight
    <2>3. Shrinks
      BY <2>1, <2>2 DEF Shrinks
    <2> QED
      BY <1>3, <1>9, <1>10, <2>1, <2>3
  <1>25. CASE UNCHANGED vars
    BY <1>3, <1>9, <1>10, <1>12, <1>25 DEF vars
  <1> QED
    BY <1>14, <1>15, <1>16, <1>17, <1>18, <1>19, <1>20, <1>21, <1>22,
       <1>23, <1>24, <1>25 DEF IoNext, WorkerStep

(* The invariant holds of every reachable state.                           *)
LEMMA IoAlways == IoSpec => []IoInv
  <1>1. IoInv /\ [IoNext]_vars => IoInv'
    BY DataStep, FlagsStep, OnceStep, PagesStep, IdsStep DEF IoInv, Once
  <1> QED
    BY <1>1, IoInitially, PTL DEF IoSpec

-----------------------------------------------------------------------------
(***************************************************************************)
(* Types; in particular, no request is sent with the id zero.              *)
(***************************************************************************)
THEOREM IoTypes == IoSpec => []IoTypeOK
  <1>1. IoInv => IoTypeOK
    BY DEF IoInv, DataOK, FlagsOK, IoTypeOK
  <1> QED
    BY <1>1, IoAlways, PTL

(***************************************************************************)
(* completeIo() is called at most once for a request, whatever the race    *)
(* between the response, the timeout check and an overflow: a request is   *)
(* in one place at a time (FramesLive, MapsLive).                          *)
(***************************************************************************)
THEOREM IoCompletedOnce == IoSpec => []CompletedOnce
  <1>1. IoInv => CompletedOnce
    BY DEF IoInv
  <1> QED
    BY <1>1, IoAlways, PTL

(***************************************************************************)
(* Worker and disker never use the same page for two things, nor put one   *)
(* back twice.                                                             *)
(***************************************************************************)
THEOREM IoPagesSafe == IoSpec => []PagesNotShared
  <1>1. IoInv => PagesNotShared
    BY DEF IoInv, PagesApart, QueuePages, PagesNotShared, InFlight, Elements
  <1> QED
    BY <1>1, IoAlways, PTL

(***************************************************************************)
(* The answer to a request completes that request, although ids wrap       *)
(* around and answers may come after the worker gave up, as long as push() *)
(* calls do not nest and the worker has not died.                          *)
(***************************************************************************)
THEOREM IoAnswersMatch == IoSpec => []AnswersMatch
  <1>1. IoInv => AnswersMatch
    <2> SUFFICES ASSUME IoInv, ~idsReused, NEW m \in InFlight
                 PROVE  Pending(m.id) \in {m.for, None}
      BY DEF AnswersMatch
    <2>1. DataOK /\ m.id \in Ids
      BY InFlightMessages DEF IoInv, DataOK, InFlight
    <2>2. CASE Pending(m.id) # None
      BY <2>1, <2>2, PendingFound DEF IoInv, IdsFresh
    <2> QED
      BY <2>2
  <1> QED
    BY <1>1, IoAlways, PTL
=============================================================================
