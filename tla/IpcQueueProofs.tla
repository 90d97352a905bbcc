--------------------------- MODULE IpcQueueProofs ---------------------------
(***************************************************************************)
(* Proofs about IpcQueue for any number of writers, any ring capacity and  *)
(* any index width that the capacity divides.                              *)
(***************************************************************************)
EXTENDS IpcQueue, Sequences, FiniteSetTheorems, TLAPS

(***************************************************************************)
(* The inductive invariant.  taken counts the items that the reader has    *)
(* copied out of ring w.  RingCounts: theSize lags behind the items stored *)
(* and not popped by the one in "grow", and a writer that found room still *)
(* has it.  RingOrder: the indexes follow the numbers of items, modulo     *)
(* theCapacity, and item n is in the cell of its number until it is taken. *)
(***************************************************************************)
RingCounts(w) ==
    /\ theSize[w] = pushed[w] - popped[w] - growing(w)
    /\ pushed[w] - popped[w] <= Capacity
    /\ wpc[w] \in {"sample", "fill"} => /\ pushed[w] - popped[w] < Capacity
                                        /\ pushed[w] < MaxPushes

RingOrder(w) ==
    /\ got[w] = taken(w)
    /\ theIn[w] % Capacity = pushed[w] % Capacity
    /\ theOut[w] % Capacity = taken(w) % Capacity
    /\ \A n \in (taken(w) + 1)..pushed[w] :
          theBuffer[w][(n - 1) % Capacity] = n

ReaderHasItem == rpc \in {"unblock", "copy", "shrink"} => theSize[last] > 0

SentOnce == \A w \in Writers : ~(wpc[w] = "notify" /\ note[w])

QueueInv ==
    /\ QueueTypeOK
    /\ \A w \in Writers : RingCounts(w) /\ RingOrder(w)
    /\ ReaderHasItem
    /\ SentOnce
    /\ OneNotification

-----------------------------------------------------------------------------
(* Arithmetic modulo the capacity.                                         *)

(* The remainder of a number that is given as quotient and remainder.      *)
LEMMA ModUnique ==
    ASSUME NEW C \in Nat \ {0}, NEW q \in Nat, NEW r \in 0..(C - 1)
    PROVE  (C * q + r) % C = r
  OBVIOUS

(* Every natural number has a quotient and a remainder.                    *)
LEMMA ModSplit ==
    ASSUME NEW C \in Nat \ {0}, NEW t \in Nat
    PROVE  t \div C \in Nat /\ t % C \in 0..(C - 1)
           /\ t = C * (t \div C) + (t % C)
  OBVIOUS

(* The remainder of a sum may be taken of a summand first.                 *)
LEMMA ModAdd ==
    ASSUME NEW C \in Nat \ {0}, NEW t \in Nat, NEW k \in Nat
    PROVE  (t + k) % C = ((t % C) + k) % C
<1> DEFINE q == t \div C
           r == t % C
           q2 == (r + k) \div C
           r2 == (r + k) % C
<1>1. q \in Nat /\ r \in 0..(C - 1) /\ t = C * q + r
  BY ModSplit
<1>2. q2 \in Nat /\ r2 \in 0..(C - 1) /\ r + k = C * q2 + r2
  <2>1. r + k \in Nat
    BY <1>1
  <2> QED
    BY <2>1, ModSplit, Zenon
<1> HIDE DEF q, r, q2, r2
<1>3. t + k = C * (q + q2) + r2 /\ q + q2 \in Nat
  BY <1>1, <1>2
<1>4. (t + k) % C = r2
  BY <1>2, <1>3, ModUnique
<1> QED
  BY <1>4 DEF r2, r

(* Once around the ring at most.                                           *)
LEMMA ModOnce ==
    ASSUME NEW C \in Nat \ {0}, NEW x \in 0..(2 * C - 1)
    PROVE  (x < C => x % C = x) /\ (~(x < C) => x % C = x - C)
  OBVIOUS

(* Less than a whole ring apart means different cells.                     *)
LEMMA ModApart ==
    ASSUME NEW C \in Nat \ {0}, NEW a \in Nat, NEW b \in Nat,
           a < b, b < a + C
    PROVE  a % C # b % C
<1>1. PICK k \in 1..(C - 1) : b = a + k
  BY b - a \in 1..(C - 1)
<1>2. PICK r \in 0..(C - 1) : r = a % C
  BY ModSplit
<1>3. PICK x \in 0..(2 * C - 1) : x = r + k
  BY <1>1, <1>2, r + k \in 0..(2 * C - 1)
<1>4. b % C = x % C
  <2>1. k \in Nat
    BY <1>1
  <2> QED
    BY <1>1, <1>2, <1>3, <2>1, ModAdd, Zenon
<1>5. (x < C => x % C = x) /\ (~(x < C) => x % C = x - C)
  BY ModOnce
<1>6. x % C # r
  BY <1>3, <1>5
<1> QED
  BY <1>2, <1>4, <1>6, Zenon

(***************************************************************************)
(* An index that wraps around at 2^IndexWidth still walks through all the  *)
(* cells of the ring in order.                                             *)
(***************************************************************************)
LEMMA BumpWalks ==
    ASSUME NEW i \in Index, NEW n \in Nat, i % Capacity = n % Capacity
    PROVE  bump(i) \in Index /\ bump(i) % Capacity = (n + 1) % Capacity
<1> DEFINE Q == 2 ^ IndexWidth
<1>0. Capacity \in Nat \ {0} /\ Q \in Nat \ {0} /\ Q % Capacity = 0
  BY QueueAssumption
<1> HIDE DEF Q
<1>1. i \in 0..(Q - 1) /\ bump(i) = (i + 1) % Q
  BY DEF Index, bump, Q
<1>2. bump(i) = IF i + 1 < Q THEN i + 1 ELSE 0
  <2>1. PICK x \in 0..(2 * Q - 1) : x = i + 1
    BY <1>0, <1>1, i + 1 \in 0..(2 * Q - 1)
  <2>2. (x < Q => x % Q = x) /\ (~(x < Q) => x % Q = x - Q)
    BY <1>0, ModOnce
  <2>3. bump(i) = x % Q
    BY <1>1, <2>1
  <2> QED
    BY <1>0, <1>1, <2>1, <2>2, <2>3
<1>3. bump(i) % Capacity = (i + 1) % Capacity
  <2>1. CASE i + 1 < Q
    BY <1>2, <2>1
  <2>2. CASE i + 1 = Q
    BY <1>0, <1>2, <2>2
  <2> QED
    BY <1>0, <1>1, <2>1, <2>2
<1>4. (i + 1) % Capacity = (n + 1) % Capacity
  <2>1. i \in Nat /\ 1 \in Nat
    BY <1>0, <1>1
  <2>2. (i + 1) % Capacity = ((i % Capacity) + 1) % Capacity
    BY <1>0, <2>1, ModAdd, Zenon
  <2>3. (n + 1) % Capacity = ((n % Capacity) + 1) % Capacity
    BY <1>0, <2>1, ModAdd, Zenon
  <2> QED
    BY <2>2, <2>3
<1>5. bump(i) \in Index
  BY <1>0, <1>1, <1>2 DEF Index, Q
<1> QED
  BY <1>3, <1>4, <1>5

-----------------------------------------------------------------------------
(* Empty rings and idle kids.                                              *)
LEMMA QueueInitially == QueueInit => QueueInv
<1> SUFFICES ASSUME QueueInit PROVE QueueInv
  OBVIOUS
<1> USE QueueAssumption DEF QueueInit
<1>1. 0 \in Index /\ NumWriters \in Writers
  BY DEF Index, Writers
<1>2. QueueTypeOK
  <2>1. more \in BOOLEAN /\ isWorker \in BOOLEAN
    BY Zenon
  <2>2. /\ theIn \in [Writers -> Index] /\ theOut \in [Writers -> Index]
        /\ theSize \in [Writers -> 0..Capacity]
        /\ theBuffer \in [Writers -> [Cells -> 0..MaxPushes]]
        /\ pushed \in [Writers -> 0..MaxPushes]
        /\ popped \in [Writers -> 0..MaxPushes]
        /\ got \in [Writers -> 0..MaxPushes]
    BY <1>1
  <2>3. /\ popBlocked \in {0, 1} /\ popSignal \in {0, 1}
        /\ wpc \in [Writers -> WriterPCs]
        /\ wasEmpty \in [Writers -> BOOLEAN] /\ note \in [Writers -> BOOLEAN]
        /\ rpc \in ReaderPCs /\ last \in Writers /\ tries \in 0..NumWriters
    BY <1>1 DEF WriterPCs, ReaderPCs
  <2> QED
    BY <2>1, <2>2, <2>3 DEF QueueTypeOK
<1>3. \A w \in Writers : RingCounts(w) /\ RingOrder(w)
  BY DEF RingCounts, RingOrder, taken, copied, growing
<1>4. ReaderHasItem /\ SentOnce
  BY DEF ReaderHasItem, SentOnce
<1>5. Signals = {} /\ Receiving = 0
  BY DEF Signals, Receiving
<1>6. OneNotification
  BY <1>5, FS_EmptySet DEF OneNotification
<1> QED
  BY <1>2, <1>3, <1>4, <1>6 DEF QueueInv

(* The steps that leave the rings alone, by whose steps they are. *)
WriterQuiet(w) ==
    PushTest(w) \/ PushSample(w) \/ RaiseAsk(w) \/ RaiseSwap(w) \/ Notify(w)

ReaderQuiet ==
    \/ \E w \in Writers : HandleNotification(w)
    \/ Poll \/ HandleMoreRequests \/ ClearUnblock \/ ClearSignal
    \/ PopVisit \/ PopNothing \/ PopBlock \/ PopRetest \/ PopUnblock

(* The steps, by who takes them.                                           *)
LEMMA QueueSteps ==
    QueueNext <=> \/ \E w \in Writers :
                       WriterQuiet(w) \/ PushFill(w) \/ PushGrow(w)
                  \/ ReaderQuiet \/ PopCopy \/ PopShrink
  BY DEF QueueNext, PushStep, PopStep, WriterQuiet, ReaderQuiet

(* The rings and their cells are counted from one.                         *)
LEMMA QueueSizes ==
    NumWriters \in Nat \ {0} /\ Capacity \in Nat \ {0} /\ MaxPushes \in Nat
  BY QueueAssumption

(* A remainder is a cell of the ring.                                      *)
LEMMA ModCell ==
    ASSUME NEW i \in Index
    PROVE  i % Capacity \in Cells
  BY QueueAssumption DEF Index, Cells

(* Each step keeps the types.                                              *)
LEMMA TypeStep ==
    ASSUME QueueInv, QueueNext
    PROVE  QueueTypeOK'
<1>0. QueueTypeOK /\ \A w \in Writers : RingCounts(w)
  BY DEF QueueInv
<1> USE QueueAssumption DEF QueueTypeOK
<1>1. ASSUME NEW w \in Writers, WriterQuiet(w)
      PROVE  QueueTypeOK'
  BY <1>0, <1>1
  DEF WriterQuiet, PushTest, PushSample, RaiseAsk, RaiseSwap, Notify, Goes,
      ringVars, readerVars, WriterPCs
<1>2. ASSUME NEW w \in Writers, PushFill(w)
      PROVE  QueueTypeOK'
  <2>1. bump(theIn[w]) \in Index /\ theIn[w] % Capacity \in Cells
    BY <1>0, BumpWalks, ModCell DEF Index
  <2>2. pushed[w] + 1 \in 0..MaxPushes
    BY <1>0, <1>2 DEF PushFill, RingCounts
  <2>3. pushed' \in [Writers -> 0..MaxPushes]
    BY <1>0, <1>2, <2>2 DEF PushFill
  <2>4. theBuffer' \in [Writers -> [Cells -> 0..MaxPushes]]
    BY <1>0, <1>2, <2>1, <2>2 DEF PushFill
  <2>5. theIn' \in [Writers -> Index]
    BY <1>0, <1>2, <2>1 DEF PushFill
  <2> QED
    BY <1>0, <1>2, <2>3, <2>4, <2>5
    DEF PushFill, Goes, readerVars, WriterPCs
<1>3. ASSUME NEW w \in Writers, PushGrow(w)
      PROVE  QueueTypeOK'
  <2>1. theSize[w] + 1 \in 0..Capacity
    BY <1>0, <1>3 DEF PushGrow, RingCounts, growing
  <2> QED
    BY <1>0, <1>3, <2>1 DEF PushGrow, Goes, readerVars, WriterPCs
<1>4. CASE ReaderQuiet
  <2>1. PopVisit => last' \in Writers /\ tries' \in 0..NumWriters
    BY <1>0 DEF PopVisit, Writers
  <2>2. more' \in BOOLEAN /\ isWorker' \in BOOLEAN
    BY <1>0, <1>4, Zenon
    DEF ReaderQuiet, HandleNotification, Poll, HandleMoreRequests,
        ClearUnblock, ClearSignal, PopVisit, PopNothing, PopBlock,
        PopRetest, PopUnblock
  <2>3. UNCHANGED ringVars /\ UNCHANGED writerVars
    BY <1>4, Zenon
    DEF ReaderQuiet, HandleNotification, Poll, HandleMoreRequests,
        ClearUnblock, ClearSignal, PopVisit, PopNothing, PopBlock,
        PopRetest, PopUnblock
  <2>4. /\ popBlocked' \in {0, 1} /\ popSignal' \in {0, 1}
        /\ note' \in [Writers -> BOOLEAN]
    BY <1>0, <1>4
    DEF ReaderQuiet, HandleNotification, Poll, HandleMoreRequests,
        ClearUnblock, ClearSignal, PopVisit, PopNothing, PopBlock,
        PopRetest, PopUnblock
  <2>5. rpc' \in ReaderPCs /\ last' \in Writers /\ tries' \in 0..NumWriters
    BY <1>0, <1>4, <2>1
    DEF ReaderQuiet, HandleNotification, Poll, HandleMoreRequests,
        ClearUnblock, ClearSignal, PopVisit, PopNothing, PopBlock,
        PopRetest, PopUnblock, ReaderPCs
  <2> QED
    BY <1>0, <2>2, <2>3, <2>4, <2>5 DEF ringVars, writerVars
<1>5. CASE PopCopy
  <2>1. bump(theOut[last]) \in Index /\ theOut[last] % Capacity \in Cells
    BY <1>0, BumpWalks, ModCell DEF Index
  <2>2. theBuffer[last][theOut[last] % Capacity] \in 0..MaxPushes
    BY <1>0, <2>1
  <2>3. theOut' \in [Writers -> Index] /\ got' \in [Writers -> 0..MaxPushes]
    BY <1>0, <1>5, <2>1, <2>2 DEF PopCopy
  <2> QED
    BY <1>0, <1>5, <2>3 DEF PopCopy, writerVars, ReaderPCs
<1>6. CASE PopShrink
  <2>1. theSize[last] > 0 /\ theSize[last] - 1 \in 0..Capacity
    BY <1>0, <1>6 DEF PopShrink, QueueInv, ReaderHasItem
  <2>2. popped[last] + 1 \in 0..MaxPushes
    BY <1>0, <2>1 DEF RingCounts, growing
  <2>3. /\ theSize' \in [Writers -> 0..Capacity]
        /\ popped' \in [Writers -> 0..MaxPushes]
    BY <1>0, <1>6, <2>1, <2>2 DEF PopShrink
  <2>4. more' \in BOOLEAN /\ isWorker' \in BOOLEAN
    BY <1>0, <1>6, Zenon DEF PopShrink
  <2>5. rpc' \in ReaderPCs /\ tries' \in 0..NumWriters
    BY <1>6 DEF PopShrink, ReaderPCs
  <2> QED
    BY <1>0, <1>6, <2>3, <2>4, <2>5 DEF PopShrink, writerVars
<1> QED
  BY <1>1, <1>2, <1>3, <1>4, <1>5, <1>6, QueueSteps

(* Each step keeps size, indexes and histories in agreement.               *)
LEMMA CountsStep ==
    ASSUME QueueInv, QueueNext
    PROVE  \A w \in Writers : RingCounts(w)'
<1>0. QueueTypeOK /\ \A w \in Writers : RingCounts(w)
  BY DEF QueueInv
<1> USE QueueAssumption DEF QueueTypeOK, RingCounts, growing
<1>1. ASSUME NEW w \in Writers, WriterQuiet(w)
      PROVE  \A v \in Writers : RingCounts(v)'
  <2>1. UNCHANGED <<theSize, pushed, popped>>
    BY <1>1 DEF WriterQuiet, PushTest, PushSample, RaiseAsk, RaiseSwap,
                Notify, ringVars
  <2>2. \A v \in Writers \ {w} : wpc'[v] = wpc[v]
    BY <1>0, <1>1 DEF WriterQuiet, PushTest, PushSample, RaiseAsk, RaiseSwap,
                      Notify, Goes
  <2>3. /\ wpc[w] # "grow" /\ wpc'[w] # "grow"
        /\ wpc'[w] \in {"sample", "fill"}
              => \/ wpc[w] \in {"sample", "fill"}
                 \/ theSize[w] # Capacity /\ pushed[w] < MaxPushes
    BY <1>0, <1>1 DEF WriterQuiet, PushTest, PushSample, RaiseAsk, RaiseSwap,
                      Notify, Goes
  <2>4. RingCounts(w)'
    <3>1. /\ theSize[w] = pushed[w] - popped[w]
          /\ pushed[w] - popped[w] <= Capacity
      BY <1>0, <2>3
    <3>2. wpc'[w] \in {"sample", "fill"} => /\ pushed[w] - popped[w] < Capacity
                                           /\ pushed[w] < MaxPushes
      BY <1>0, <2>3, <3>1
    <3> QED
      BY <1>0, <2>1, <2>3, <3>1, <3>2
  <2>5. \A v \in Writers \ {w} : RingCounts(v)'
    BY <1>0, <2>1, <2>2
  <2> QED
    BY <2>4, <2>5
<1>2. ASSUME NEW w \in Writers, PushFill(w)
      PROVE  \A v \in Writers : RingCounts(v)'
  BY <1>0, <1>2 DEF PushFill, Goes
<1>3. ASSUME NEW w \in Writers, PushGrow(w)
      PROVE  \A v \in Writers : RingCounts(v)'
  BY <1>0, <1>3 DEF PushGrow, Goes
<1>4. CASE ReaderQuiet
  <2>1. UNCHANGED <<theSize, pushed, popped, wpc>>
    BY <1>4, Zenon
    DEF ReaderQuiet, HandleNotification, Poll, HandleMoreRequests,
        ClearUnblock, ClearSignal, PopVisit, PopNothing, PopBlock,
        PopRetest, PopUnblock, ringVars, writerVars
  <2> QED
    BY <1>0, <2>1
<1>5. CASE PopCopy
  BY <1>0, <1>5 DEF PopCopy, writerVars
<1>6. CASE PopShrink
  BY <1>0, <1>6 DEF PopShrink, writerVars
<1> QED
  BY <1>1, <1>2, <1>3, <1>4, <1>5, <1>6, QueueSteps

(***************************************************************************)
(* The reader takes an item only from a ring that has one, whatever the    *)
(* writers do after it looked.                                             *)
(***************************************************************************)
LEMMA ReaderStep ==
    ASSUME QueueInv, QueueNext
    PROVE  ReaderHasItem'
<1>0. QueueTypeOK /\ ReaderHasItem
  BY DEF QueueInv
<1> USE QueueSizes DEF QueueTypeOK, ReaderHasItem
<1>1. ASSUME NEW w \in Writers, WriterQuiet(w)
      PROVE  ReaderHasItem'
  BY <1>0, <1>1 DEF WriterQuiet, PushTest, PushSample, RaiseAsk, RaiseSwap,
                    Notify, ringVars, readerVars
<1>2. ASSUME NEW w \in Writers, PushFill(w) \/ PushGrow(w)
      PROVE  ReaderHasItem'
  BY <1>0, <1>2 DEF PushFill, PushGrow, readerVars
<1>3. CASE ReaderQuiet
  <2>1. CASE PopVisit
    <3>1. last' \in Writers
      BY <1>0, <2>1 DEF PopVisit, Writers
    <3> QED
      BY <1>0, <2>1, <3>1 DEF PopVisit, ringVars
  <2>2. CASE PopRetest \/ PopUnblock
    BY <1>0, <2>2 DEF PopRetest, PopUnblock, ringVars
  <2>3. CASE ReaderQuiet /\ ~PopVisit /\ ~PopRetest /\ ~PopUnblock
    <3>1. rpc' \notin {"unblock", "copy", "shrink"}
      BY <2>3
      DEF ReaderQuiet, HandleNotification, Poll, HandleMoreRequests,
          ClearUnblock, ClearSignal, PopNothing, PopBlock
    <3> QED
      BY <3>1
  <2> QED
    BY <1>3, <2>1, <2>2, <2>3
<1>4. CASE PopCopy
  BY <1>0, <1>4 DEF PopCopy
<1>5. CASE PopShrink
  BY <1>5 DEF PopShrink
<1> QED
  BY <1>1, <1>2, <1>3, <1>4, <1>5, QueueSteps

(***************************************************************************)
(* The items of a ring stay in order: a new item goes to a cell whose item *)
(* was taken, and the reader takes the oldest.                             *)
(***************************************************************************)
LEMMA OrderStep ==
    ASSUME QueueInv, QueueNext
    PROVE  \A w \in Writers : RingOrder(w)'
<1>0. /\ QueueTypeOK /\ ReaderHasItem
      /\ \A w \in Writers : RingCounts(w) /\ RingOrder(w)
  BY DEF QueueInv
<1>n. /\ Capacity \in Nat \ {0} /\ MaxPushes \in Nat
      /\ \A w \in Writers : taken(w) \in Nat /\ pushed[w] \in Nat
                            /\ popped[w] \in Nat
  BY <1>0, QueueAssumption DEF QueueTypeOK, taken, copied
<1>1. ASSUME NEW w \in Writers, WriterQuiet(w)
      PROVE  \A v \in Writers : RingOrder(v)'
  <2>1. UNCHANGED ringVars /\ UNCHANGED readerVars
    BY <1>1 DEF WriterQuiet, PushTest, PushSample, RaiseAsk, RaiseSwap, Notify
  <2> QED
    BY <1>0, <2>1 DEF ringVars, readerVars, RingOrder, taken, copied
<1>2. ASSUME NEW w \in Writers, PushFill(w)
      PROVE  \A v \in Writers : RingOrder(v)'
  <2>1. \A v \in Writers : taken(v)' = taken(v)
    BY <1>2 DEF PushFill, readerVars, taken, copied
  <2>2. /\ pushed'[w] = pushed[w] + 1
        /\ theIn'[w] = bump(theIn[w])
        /\ got' = got /\ theOut' = theOut
        /\ \A v \in Writers \ {w} : /\ pushed'[v] = pushed[v]
                                     /\ theIn'[v] = theIn[v]
                                     /\ theBuffer'[v] = theBuffer[v]
    BY <1>0, <1>2 DEF PushFill, QueueTypeOK
  <2>3. \A v \in Writers \ {w} : RingOrder(v)'
    BY <1>0, <2>1, <2>2 DEF RingOrder
  <2>4. theIn'[w] % Capacity = pushed'[w] % Capacity
    BY <1>0, <1>n, <2>2, BumpWalks DEF RingOrder, QueueTypeOK
  <2>5. PICK c \in Cells : /\ c = theIn[w] % Capacity
                           /\ c = pushed[w] % Capacity
    BY <1>0, ModCell DEF RingOrder, QueueTypeOK
  <2>6. \A d \in Cells : theBuffer'[w][d] = IF d = c THEN pushed[w] + 1
                                             ELSE theBuffer[w][d]
    BY <1>0, <1>2, <2>5 DEF PushFill, QueueTypeOK
  <2>7. ASSUME NEW n \in (taken(w) + 1)..(pushed[w] + 1)
        PROVE  theBuffer'[w][(n - 1) % Capacity] = n
    <3>1. n - 1 \in Nat /\ n \in Nat
      BY <1>n
    <3>2. PICK d \in Cells : d = (n - 1) % Capacity
      BY <1>n, <3>1 DEF Cells
    <3>3. CASE n = pushed[w] + 1
      BY <1>n, <2>5, <2>6, <3>2, <3>3
    <3>4. CASE n # pushed[w] + 1
      <4>1. n \in (taken(w) + 1)..pushed[w]
        BY <1>n, <3>4
      <4>2. n - 1 < pushed[w] /\ pushed[w] < n - 1 + Capacity
        BY <1>0, <1>2, <1>n, <4>1 DEF PushFill, RingCounts, taken, copied
      <4>3. (n - 1) % Capacity # pushed[w] % Capacity
        BY <1>n, <3>1, <4>2, ModApart
      <4>4. theBuffer[w][d] = n
        BY <1>0, <3>2, <4>1 DEF RingOrder
      <4> QED
        BY <2>5, <2>6, <3>2, <4>3, <4>4
    <3> QED
      BY <3>3, <3>4
  <2>8. RingOrder(w)'
    BY <1>0, <2>1, <2>2, <2>4, <2>7 DEF RingOrder
  <2> QED
    BY <2>3, <2>8
<1>3. ASSUME NEW w \in Writers, PushGrow(w)
      PROVE  \A v \in Writers : RingOrder(v)'
  BY <1>0, <1>3 DEF PushGrow, readerVars, RingOrder, taken, copied
<1>4. CASE ReaderQuiet
  <2>1. UNCHANGED ringVars
    BY <1>4, Zenon
    DEF ReaderQuiet, HandleNotification, Poll, HandleMoreRequests,
        ClearUnblock, ClearSignal, PopVisit, PopNothing, PopBlock,
        PopRetest, PopUnblock
  <2>2. rpc # "shrink" /\ rpc' # "shrink"
    BY <1>4
    DEF ReaderQuiet, HandleNotification, Poll, HandleMoreRequests,
        ClearUnblock, ClearSignal, PopVisit, PopNothing, PopBlock,
        PopRetest, PopUnblock
  <2> QED
    BY <1>0, <2>1, <2>2 DEF ringVars, RingOrder, taken, copied
<1>5. CASE PopCopy
  <2>1. PICK l \in Writers : l = last /\ last' = l
    BY <1>0, <1>5 DEF PopCopy, QueueTypeOK
  <2>2. /\ taken(l) = popped[l] /\ taken(l)' = taken(l) + 1
        /\ \A v \in Writers \ {l} : taken(v)' = taken(v)
    BY <1>5, <1>n, <2>1 DEF PopCopy, taken, copied
  <2>3. /\ theOut'[l] = bump(theOut[l])
        /\ got'[l] = theBuffer[l][theOut[l] % Capacity]
        /\ UNCHANGED <<pushed, theIn, theBuffer>>
        /\ \A v \in Writers \ {l} : /\ got'[v] = got[v]
                                     /\ theOut'[v] = theOut[v]
    BY <1>0, <1>5, <2>1 DEF PopCopy, QueueTypeOK
  <2>4. \A v \in Writers \ {l} : RingOrder(v)'
    BY <1>0, <2>2, <2>3 DEF RingOrder
  <2>5. theOut'[l] % Capacity = (taken(l) + 1) % Capacity
    BY <1>0, <1>n, <2>3, BumpWalks DEF RingOrder, QueueTypeOK
  <2>6. PICK n \in (taken(l) + 1)..pushed[l] :
            n = taken(l) + 1 /\ n - 1 = taken(l)
    <3>1. taken(l) + 1 \in (taken(l) + 1)..pushed[l]
      BY <1>0, <1>5, <1>n, <2>1, <2>2
      DEF PopCopy, ReaderHasItem, RingCounts, growing, QueueTypeOK
    <3> QED
      BY <1>n, <3>1
  <2>7. got'[l] = taken(l) + 1
    <3>1. theBuffer[l][(n - 1) % Capacity] = n
      BY <1>0 DEF RingOrder
    <3>2. theOut[l] % Capacity = taken(l) % Capacity
      BY <1>0 DEF RingOrder
    <3> QED
      BY <2>3, <2>6, <3>1, <3>2, Zenon
  <2>8. RingOrder(l)'
    <3>1. \A m \in (taken(l) + 2)..pushed[l] :
             theBuffer[l][(m - 1) % Capacity] = m
      BY <1>0, <1>n DEF RingOrder
    <3>2. \A m \in (taken(l)' + 1)..pushed'[l] :
             theBuffer'[l][(m - 1) % Capacity] = m
      BY <1>n, <2>2, <2>3, <3>1
    <3> QED
      BY <1>0, <2>2, <2>3, <2>5, <2>7, <3>2 DEF RingOrder
  <2> QED
    BY <2>4, <2>8
<1>6. CASE PopShrink
  <2>1. \A v \in Writers : taken(v)' = taken(v)
    BY <1>0, <1>n, <1>6 DEF PopShrink, taken, copied, QueueTypeOK
  <2> QED
    BY <1>0, <1>6, <2>1 DEF PopShrink, RingOrder
<1> QED
  BY <1>1, <1>2, <1>3, <1>4, <1>5, <1>6, QueueSteps

(***************************************************************************)
(* A signal is raised only when none is up, and comes down only when its   *)
(* message has been received.                                              *)
(***************************************************************************)
LEMMA SignalStep ==
    ASSUME QueueInv, QueueNext
    PROVE  SentOnce' /\ OneNotification'
<1>0. QueueTypeOK /\ SentOnce /\ OneNotification
  BY DEF QueueInv
<1>f. IsFiniteSet(Signals) /\ Cardinality(Signals) \in Nat
  <2>1. IsFiniteSet(Writers)
    BY FS_Interval, QueueAssumption DEF Writers
  <2>2. Signals \in SUBSET Writers
    BY DEF Signals
  <2> QED
    BY <2>1, <2>2, FS_Subset, FS_CardinalityType
<1>1. ASSUME UNCHANGED <<note, popSignal>>, Receiving' = Receiving,
             \A w \in Writers : wpc'[w] = "notify" <=> wpc[w] = "notify"
      PROVE  SentOnce' /\ OneNotification'
  <2>1. Signals' = Signals
    BY <1>1 DEF Signals
  <2> QED
    BY <1>0, <1>1, <2>1 DEF SentOnce, OneNotification
<1>2. ASSUME NEW w \in Writers,
             \/ PushTest(w) \/ PushSample(w) \/ RaiseAsk(w)
             \/ PushFill(w) \/ PushGrow(w)
      PROVE  SentOnce' /\ OneNotification'
  <2>1. UNCHANGED <<note, popSignal>> /\ Receiving' = Receiving
    BY <1>2 DEF PushTest, PushSample, RaiseAsk, PushFill, PushGrow,
                readerVars, Receiving
  <2>2. \A v \in Writers : wpc'[v] = "notify" <=> wpc[v] = "notify"
    BY <1>0, <1>2 DEF PushTest, PushSample, RaiseAsk, PushFill, PushGrow,
                      Goes, QueueTypeOK
  <2> QED
    BY <1>1, <2>1, <2>2
<1>3. CASE \/ Poll \/ HandleMoreRequests \/ ClearUnblock \/ PopVisit
           \/ PopNothing \/ PopBlock \/ PopRetest \/ PopUnblock
           \/ PopCopy \/ PopShrink
  <2>1. UNCHANGED <<note, popSignal, wpc>>
    BY <1>3, Zenon
    DEF Poll, HandleMoreRequests, ClearUnblock, PopVisit,
        PopNothing, PopBlock, PopRetest, PopUnblock, PopCopy, PopShrink,
        writerVars
  <2>2. Receiving' = Receiving
    BY <1>3
    DEF Poll, HandleMoreRequests, ClearUnblock, PopVisit,
        PopNothing, PopBlock, PopRetest, PopUnblock, PopCopy, PopShrink,
        Receiving
  <2> QED
    BY <1>1, <2>1, <2>2
<1>4. ASSUME NEW w \in Writers, RaiseSwap(w)
      PROVE  SentOnce' /\ OneNotification'
  <2>1. UNCHANGED note /\ Receiving' = Receiving /\ popSignal' = 1
    BY <1>4 DEF RaiseSwap, readerVars, Receiving
  <2>2. CASE popSignal = 1
    <3>1. \A v \in Writers : wpc'[v] = "notify" <=> wpc[v] = "notify"
      BY <1>0, <1>4, <2>2 DEF RaiseSwap, Goes, QueueTypeOK
    <3> QED
      BY <1>1, <2>1, <2>2, <3>1
  <2>3. CASE popSignal = 0
    <3>1. Cardinality(Signals) = 0 /\ Receiving = 0
      BY <1>0, <1>f, <2>3 DEF OneNotification, Receiving
    <3>2. Signals = {}
      BY <1>f, <3>1, FS_EmptySet
    <3>3. \A v \in Writers : wpc'[v] = "notify" <=> v = w
      BY <1>0, <1>4, <2>3, <3>2 DEF RaiseSwap, Goes, QueueTypeOK, Signals
    <3>4. \A v \in Writers : ~note[v]
      BY <3>2 DEF Signals
    <3>5. Signals' = {w}
      BY <2>1, <3>3, <3>4 DEF Signals
    <3>6. Cardinality(Signals') = 1
      BY <3>5, FS_Singleton
    <3> QED
      BY <2>1, <3>1, <3>4, <3>6 DEF SentOnce, OneNotification
  <2> QED
    BY <1>0, <2>2, <2>3 DEF QueueTypeOK
<1>5. ASSUME NEW w \in Writers, Notify(w)
      PROVE  SentOnce' /\ OneNotification'
  <2>1. /\ wpc[w] = "notify" /\ wpc'[w] = "idle" /\ note'[w] = TRUE
        /\ \A v \in Writers \ {w} : wpc'[v] = wpc[v] /\ note'[v] = note[v]
        /\ popSignal' = popSignal /\ Receiving' = Receiving
    BY <1>0, <1>5 DEF Notify, Goes, readerVars, Receiving, QueueTypeOK
  <2>2. Signals' = Signals
    BY <2>1 DEF Signals
  <2>3. SentOnce'
    BY <1>0, <2>1 DEF SentOnce
  <2> QED
    BY <1>0, <2>1, <2>2, <2>3 DEF OneNotification
<1>6. ASSUME NEW w \in Writers, HandleNotification(w)
      PROVE  SentOnce' /\ OneNotification'
  <2>1. /\ note[w] /\ ~note'[w] /\ UNCHANGED <<wpc, popSignal>>
        /\ \A v \in Writers \ {w} : note'[v] = note[v]
        /\ Receiving = 0 /\ Receiving' = 1
    BY <1>0, <1>6 DEF HandleNotification, writerVars, Receiving, QueueTypeOK
  <2>2. w \in Signals /\ Signals' = Signals \ {w}
    BY <1>0, <2>1 DEF Signals, SentOnce
  <2>3. Cardinality(Signals') = Cardinality(Signals) - 1
    BY <1>f, <2>2, FS_RemoveElement
  <2>4. SentOnce'
    BY <1>0, <2>1 DEF SentOnce
  <2> QED
    BY <1>0, <1>f, <2>1, <2>3, <2>4 DEF OneNotification
<1>7. CASE ClearSignal
  <2>1. /\ UNCHANGED <<wpc, note>> /\ popSignal' = 0
        /\ Receiving = 1 /\ Receiving' = 0
    BY <1>7 DEF ClearSignal, writerVars, Receiving
  <2>2. Signals' = Signals
    BY <2>1 DEF Signals
  <2>3. popSignal \in {0, 1}
    BY <1>0 DEF QueueTypeOK
  <2>4. Cardinality(Signals) = 0
    BY <1>0, <1>f, <2>1, <2>3 DEF OneNotification
  <2> QED
    BY <1>0, <2>1, <2>2, <2>4 DEF SentOnce, OneNotification
<1> QED
  BY <1>2, <1>3, <1>4, <1>5, <1>6, <1>7 DEF QueueNext, PushStep, PopStep

(* Each step keeps the inductive invariant.                                *)
LEMMA QueueInvStep == QueueInv /\ [QueueNext]_vars => QueueInv'
<1>1. ASSUME QueueInv, QueueNext
      PROVE  QueueInv'
  BY <1>1, TypeStep, CountsStep, OrderStep, ReaderStep, SignalStep
  DEF QueueInv
<1>2. ASSUME QueueInv, UNCHANGED vars
      PROVE  QueueInv'
  <2>1. /\ UNCHANGED ringVars /\ UNCHANGED writerVars /\ UNCHANGED readerVars
        /\ UNCHANGED <<popBlocked, popSignal, note>>
    BY <1>2 DEF vars
  <2>2. QueueTypeOK'
    BY <1>2, <2>1
    DEF QueueInv, QueueTypeOK, ringVars, writerVars, readerVars
  <2>3. \A w \in Writers : RingCounts(w)' /\ RingOrder(w)'
    BY <1>2, <2>1
    DEF QueueInv, RingCounts, RingOrder, taken, copied, growing, ringVars,
        writerVars, readerVars
  <2>4. ReaderHasItem' /\ SentOnce' /\ OneNotification'
    BY <1>2, <2>1
    DEF QueueInv, ReaderHasItem, SentOnce, OneNotification, Signals,
        Receiving, ringVars, writerVars, readerVars
  <2> QED
    BY <2>2, <2>3, <2>4 DEF QueueInv
<1> QED
  BY <1>1, <1>2

(* The inductive invariant always holds.                                   *)
LEMMA QueueAlways == QueueSpec => []QueueInv
  BY QueueInitially, QueueInvStep, PTL DEF QueueSpec

(***************************************************************************)
(* A ring never holds more than theCapacity items, and its indexes stay in *)
(* their unsigned range, whatever its writer and the reader do at the same *)
(* time: full() and empty(), read without a lock, are good enough.         *)
(***************************************************************************)
THEOREM QueueTypes == QueueSpec => []QueueTypeOK
<1>1. QueueInv => QueueTypeOK
  BY DEF QueueInv
<1> QED
  BY <1>1, QueueAlways, PTL

(***************************************************************************)
(* OneToOneUniQueue is a FIFO for any capacity, also after theIn and       *)
(* theOut have wrapped around.                                             *)
(***************************************************************************)
THEOREM QueueInOrder == QueueSpec => []ItemsInOrder
<1>1. ASSUME QueueInv, NEW w \in Writers,
             NEW n \in (taken(w) + 1)..(popped[w] + theSize[w])
      PROVE  theBuffer[w][(theOut[w] + n - taken(w) - 1) % Capacity] = n
  <2>0. /\ RingCounts(w) /\ RingOrder(w)
        /\ Capacity \in Nat \ {0}
        /\ taken(w) \in Nat /\ theOut[w] \in Nat /\ theSize[w] \in Nat
        /\ pushed[w] \in Nat /\ popped[w] \in Nat
    BY <1>1, QueueAssumption DEF QueueInv, QueueTypeOK, taken, copied, Index
  <2>1. PICK m \in (taken(w) + 1)..pushed[w] : m = n
    BY <2>0 DEF RingCounts, growing
  <2>2. PICK k \in Nat : /\ k = n - taken(w) - 1
                         /\ theOut[w] + n - taken(w) - 1 = theOut[w] + k
                         /\ m - 1 = taken(w) + k
    BY <2>0, <2>1, n - taken(w) - 1 \in Nat
  <2>3. (theOut[w] + k) % Capacity = ((theOut[w] % Capacity) + k) % Capacity
    BY <2>0, ModAdd, Zenon
  <2>4. (taken(w) + k) % Capacity = ((taken(w) % Capacity) + k) % Capacity
    BY <2>0, ModAdd, Zenon
  <2>5. theOut[w] % Capacity = taken(w) % Capacity
    BY <2>0 DEF RingOrder
  <2>6. theBuffer[w][(m - 1) % Capacity] = m
    BY <2>0 DEF RingOrder
  <2> QED
    BY <2>1, <2>2, <2>3, <2>4, <2>5, <2>6, Zenon
<1>2. ASSUME QueueInv, NEW w \in Writers
      PROVE  got[w] = taken(w)
  BY <1>2 DEF QueueInv, RingOrder
<1>3. QueueInv => ItemsInOrder
  BY <1>1, <1>2 DEF ItemsInOrder, taken, copied
<1> QED
  BY <1>3, QueueAlways, PTL

(***************************************************************************)
(* popSignal is up exactly while one message is about to be sent, is on    *)
(* its way or is being received, for any number of rings to the reader.    *)
(***************************************************************************)
THEOREM QueueNotifies == QueueSpec => []OneNotification
<1>1. QueueInv => OneNotification
  BY DEF QueueInv
<1> QED
  BY <1>1, QueueAlways, PTL

-----------------------------------------------------------------------------
(* The rings implement bounded FIFOs                                       *)

(* The k numbers that follow t.                                            *)
Run(t, k) == [i \in 1..k |-> t + i]

(* The contents of a ring are the numbers that follow the last one taken.  *)
LEMMA ContentsRun ==
    ASSUME QueueInv, NEW w \in Writers
    PROVE  /\ Contents(w) = Run(taken(w), theSize[w] - copied(w))
           /\ theSize[w] - copied(w) \in Nat /\ taken(w) \in Nat
           /\ taken(w) + (theSize[w] - copied(w)) = pushed[w] - growing(w)
<1> DEFINE k == theSize[w] - copied(w)
<1>1. /\ RingCounts(w) /\ RingOrder(w) /\ ReaderHasItem
      /\ Capacity \in Nat \ {0} /\ theOut[w] \in Nat
      /\ theSize[w] \in Nat /\ pushed[w] \in Nat /\ popped[w] \in Nat
  BY QueueAssumption DEF QueueInv, QueueTypeOK, Index
<1>2. k \in Nat /\ taken(w) \in Nat /\ growing(w) \in {0, 1}
  BY <1>1 DEF ReaderHasItem, taken, copied, growing
<1>3. taken(w) + k = pushed[w] - growing(w)
  BY <1>1, <1>2 DEF RingCounts, taken, copied, growing
<1> HIDE DEF k
<1>4. ASSUME NEW i \in 1..k
      PROVE  theBuffer[w][(theOut[w] + i - 1) % Capacity] = taken(w) + i
  <2>1. PICK j \in Nat : /\ j = i - 1 /\ theOut[w] + i - 1 = theOut[w] + j
                         /\ (taken(w) + i) - 1 = taken(w) + j
    BY <1>1, <1>2, i - 1 \in Nat
  <2>2. taken(w) + i \in (taken(w) + 1)..pushed[w]
    BY <1>1, <1>2, <1>3
  <2>3. theBuffer[w][((taken(w) + i) - 1) % Capacity] = taken(w) + i
    BY <1>1, <2>2 DEF RingOrder
  <2>4. (theOut[w] + j) % Capacity = ((theOut[w] % Capacity) + j) % Capacity
    BY <1>1, ModAdd, Zenon
  <2>5. (taken(w) + j) % Capacity = ((taken(w) % Capacity) + j) % Capacity
    BY <1>1, <1>2, ModAdd, Zenon
  <2>6. theOut[w] % Capacity = taken(w) % Capacity
    BY <1>1 DEF RingOrder
  <2> QED
    BY <2>1, <2>3, <2>4, <2>5, <2>6, Zenon
<1>5. Contents(w) = [i \in 1..k |->
                        theBuffer[w][(theOut[w] + i - 1) % Capacity]]
  BY DEF Contents, k
<1>6. Contents(w) = Run(taken(w), k)
  BY <1>4, <1>5 DEF Run
<1> QED
  BY <1>2, <1>3, <1>6 DEF k

(* A longer run has one number more at its end.                            *)
LEMMA RunPush ==
    ASSUME NEW t \in Nat, NEW k \in Nat
    PROVE  Run(t, k + 1) = Append(Run(t, k), t + k + 1) /\ Len(Run(t, k)) = k
<1>1. Run(t, k) \in Seq(Nat) /\ Len(Run(t, k)) = k
  BY DEF Run
<1>2. Run(t, k + 1) \in Seq(Nat) /\ Len(Run(t, k + 1)) = k + 1
  BY DEF Run
<1>3. Append(Run(t, k), t + k + 1)
        = [i \in 1..(k + 1) |-> IF i = k + 1 THEN t + k + 1
                                ELSE Run(t, k)[i]]
  BY <1>1
<1>4. \A i \in 1..(k + 1) : Run(t, k + 1)[i]
            = IF i = k + 1 THEN t + k + 1 ELSE Run(t, k)[i]
  BY DEF Run
<1>5. Run(t, k + 1) = [i \in 1..(k + 1) |-> Run(t, k + 1)[i]]
  BY DEF Run
<1> QED
  BY <1>1, <1>3, <1>4, <1>5

(* A run that starts one later lacks the first number.                     *)
LEMMA RunPop ==
    ASSUME NEW t \in Nat, NEW k \in Nat \ {0}
    PROVE  /\ Run(t, k) # <<>> /\ Head(Run(t, k)) = t + 1
           /\ Run(t + 1, k - 1) = Tail(Run(t, k))
<1>1. Run(t, k) \in Seq(Nat) /\ Len(Run(t, k)) = k /\ Run(t, k)[1] = t + 1
  BY DEF Run
<1>2. /\ Tail(Run(t, k)) \in Seq(Nat) /\ Len(Tail(Run(t, k))) = k - 1
      /\ \A i \in 1..(k - 1) : Tail(Run(t, k))[i] = Run(t, k)[i + 1]
  BY <1>1
<1>3. \A i \in 1..(k - 1) : Tail(Run(t, k))[i] = (t + 1) + i
  <2> TAKE i \in 1..(k - 1)
  <2>1. i + 1 \in 1..k /\ t + (i + 1) = (t + 1) + i
    OBVIOUS
  <2>2. Run(t, k)[i + 1] = t + (i + 1)
    BY <2>1 DEF Run
  <2> QED
    BY <1>2, <2>1, <2>2
<1>4. Tail(Run(t, k)) = [i \in 1..(k - 1) |-> Tail(Run(t, k))[i]]
  <2>1. PICK z \in Seq(Nat) : z = Tail(Run(t, k)) /\ Len(z) = k - 1
    BY <1>2
  <2>2. z \in Seq(Nat) /\ Len(z) = k - 1
    BY <2>1
  <2>3. z = [i \in 1..Len(z) |-> z[i]]
    BY <2>2
  <2> QED
    BY <2>1, <2>3, Zenon
<1>5. Tail(Run(t, k)) = Run(t + 1, k - 1)
  BY <1>3, <1>4 DEF Run
<1>6. Run(t, k) # <<>> /\ Head(Run(t, k)) = t + 1
  BY <1>1
<1> QED
  BY <1>5, <1>6

(* The state of the FIFO of ring w, in numbers.                            *)
size(w) == theSize[w] - copied(w)
stored(w) == pushed[w] - growing(w)

FifoNumbers ==
    \A w \in Writers :
        /\ Contents(w) = Run(taken(w), size(w))
        /\ size(w) \in Nat /\ taken(w) \in Nat
        /\ taken(w) + size(w) = stored(w)

(* The inductive invariant gives the FIFOs these numbers.                  *)
LEMMA FifoByNumbers == QueueInv => FifoNumbers
BY ContentsRun DEF FifoNumbers, size, stored

(***************************************************************************)
(* A step that adds an item to the FIFO is ++theSize, one that takes an    *)
(* item is the copy out of the ring, and the others leave the FIFOs alone. *)
(***************************************************************************)
LEMMA FifoStep ==
    ASSUME QueueInv, QueueInv', QueueNext
    PROVE  [Fifos!FifoNext]_(Fifos!fifoVars)
<1>0. /\ QueueTypeOK
      /\ ReaderHasItem
      /\ \A w \in Writers : RingCounts(w) /\ RingOrder(w) /\ RingOrder(w)'
  BY DEF QueueInv
<1>n. \A w \in Writers : pushed[w] \in Nat /\ popped[w] \in Nat
                           /\ theSize[w] \in Nat
  BY <1>0, QueueSizes DEF QueueTypeOK
<1>a. FifoNumbers
  BY FifoByNumbers
<1>b. FifoNumbers'
  BY FifoByNumbers, PTL
<1> DEFINE Same(w) == taken(w)' = taken(w) /\ size(w)' = size(w)
<1>c. ASSUME NEW w \in Writers, Same(w)
      PROVE  Contents(w)' = Contents(w) /\ stored(w)' = stored(w)
  BY <1>a, <1>b, <1>c DEF FifoNumbers
<1>d. ASSUME \A w \in Writers : Same(w), got' = got
      PROVE  UNCHANGED Fifos!fifoVars
  BY <1>c, <1>d DEF Fifos!fifoVars, stored
<1> HIDE DEF Same
<1>1. ASSUME NEW w \in Writers, WriterQuiet(w)
      PROVE  UNCHANGED Fifos!fifoVars
  <2>1. UNCHANGED ringVars /\ UNCHANGED readerVars
    BY <1>1 DEF WriterQuiet, PushTest, PushSample, RaiseAsk, RaiseSwap, Notify
  <2> QED
    BY <1>d, <2>1 DEF ringVars, readerVars, Same, taken, size, copied
<1>2. ASSUME NEW w \in Writers, PushFill(w)
      PROVE  UNCHANGED Fifos!fifoVars
  BY <1>2, <1>d DEF PushFill, readerVars, Same, taken, size, copied
<1>3. ASSUME NEW w \in Writers, PushGrow(w)
      PROVE  Fifos!Push(w)
  <2>1. /\ taken(w)' = taken(w) /\ size(w)' = size(w) + 1 /\ got' = got
        /\ \A v \in Writers \ {w} : Same(v)
    BY <1>0, <1>3, <1>n
    DEF PushGrow, readerVars, Same, taken, size, copied, QueueTypeOK
  <2>2. /\ stored(w) < MaxPushes /\ size(w) < Capacity
        /\ stored(w)' = stored(w) + 1
    BY <1>0, <1>3, <1>n, <1>a, <1>b, <2>1, QueueSizes
    DEF PushGrow, RingCounts, QueueTypeOK, stored, growing, size, copied,
        FifoNumbers
  <2>3. /\ Contents(w)' = Append(Contents(w), stored(w) + 1)
        /\ Len(Contents(w)) < Capacity
    <3>1. /\ taken(w) \in Nat /\ size(w) \in Nat
          /\ taken(w) + size(w) = stored(w)
          /\ Contents(w) = Run(taken(w), size(w))
          /\ Contents(w)' = Run(taken(w)', size(w)')
      BY <1>a, <1>b DEF FifoNumbers
    <3>2. /\ Run(taken(w), size(w) + 1)
               = Append(Run(taken(w), size(w)), taken(w) + size(w) + 1)
          /\ Len(Run(taken(w), size(w))) = size(w)
      BY <3>1, RunPush, Zenon
    <3>3. Contents(w)' = Run(taken(w), size(w) + 1)
      BY <2>1, <3>1, Zenon
    <3>4. taken(w) + size(w) + 1 = stored(w) + 1
      BY <3>1
    <3> QED
      BY <2>2, <3>1, <3>2, <3>3, <3>4, Zenon
  <2>4. \A v \in Writers \ {w} :
            Contents(v)' = Contents(v) /\ stored(v)' = stored(v)
    BY <1>c, <2>1
  <2> QED
    BY <2>1, <2>2, <2>3, <2>4 DEF Fifos!Push, stored
<1>4. CASE ReaderQuiet
  <2>1. UNCHANGED ringVars
    BY <1>4, Zenon
    DEF ReaderQuiet, HandleNotification, Poll, HandleMoreRequests,
        ClearUnblock, ClearSignal, PopVisit, PopNothing, PopBlock,
        PopRetest, PopUnblock
  <2>2. rpc # "shrink" /\ rpc' # "shrink"
    BY <1>4
    DEF ReaderQuiet, HandleNotification, Poll, HandleMoreRequests,
        ClearUnblock, ClearSignal, PopVisit, PopNothing, PopBlock,
        PopRetest, PopUnblock
  <2> QED
    BY <1>d, <2>1, <2>2 DEF ringVars, Same, taken, size, copied
<1>5. CASE PopCopy
  <2>1. PICK w \in Writers : w = last /\ last' = w
    BY <1>0, <1>5 DEF PopCopy, QueueTypeOK
  <2>2. /\ taken(w)' = taken(w) + 1 /\ size(w)' = size(w) - 1
        /\ size(w) \in Nat \ {0}
        /\ \A v \in Writers \ {w} : Same(v)
    BY <1>0, <1>5, <1>n, <2>1
    DEF PopCopy, Same, taken, size, copied, ReaderHasItem
  <2>3. stored(w)' = stored(w)
    BY <1>a, <1>b, <2>2 DEF FifoNumbers
  <2>4. /\ Contents(w) # <<>> /\ Head(Contents(w)) = taken(w) + 1
        /\ Contents(w)' = Tail(Contents(w))
    BY <1>a, <1>b, <2>2, RunPop DEF FifoNumbers
  <2>5. got' = [got EXCEPT ![w] = Head(Contents(w))]
    <3>1. got'[w] = taken(w) + 1
      BY <1>0, <2>2 DEF RingOrder
    <3>2. got' = [got EXCEPT ![w] = got'[w]]
      BY <1>0, <1>5, <2>1 DEF PopCopy, QueueTypeOK
    <3> QED
      BY <2>4, <3>1, <3>2
  <2>6. \A v \in Writers \ {w} :
            Contents(v)' = Contents(v) /\ stored(v)' = stored(v)
    BY <1>c, <2>2
  <2>7. Fifos!Pop(w)
    BY <2>3, <2>4, <2>5, <2>6 DEF Fifos!Pop, stored
  <2> QED
    BY <2>7 DEF Fifos!FifoNext
<1>6. CASE PopShrink
  <2>1. \A w \in Writers : Same(w)
    BY <1>0, <1>6, <1>n DEF PopShrink, Same, taken, size, copied, QueueTypeOK
  <2> QED
    BY <1>6, <1>d, <2>1 DEF PopShrink
<1> QED
  BY <1>1, <1>2, <1>3, <1>4, <1>5, <1>6, QueueSteps DEF Fifos!FifoNext

(***************************************************************************)
(* The lock-free rings of OneToOneUniQueue are bounded FIFOs with an       *)
(* atomic push() and pop(), for every number of writers, every capacity    *)
(* and every index width that the capacity divides.                        *)
(***************************************************************************)
THEOREM QueueRefinesFifos == QueueSpec => ImplementsFifos
<1>1. QueueInit => Fifos!FifoInit
  <2> SUFFICES ASSUME QueueInit PROVE Fifos!FifoInit
    OBVIOUS
  <2>1. \A w \in Writers : /\ growing(w) = 0 /\ copied(w) = 0
                            /\ theSize[w] = 0 /\ pushed[w] = 0
    BY DEF QueueInit, growing, copied
  <2>2. \A w \in Writers : Contents(w) = <<>>
    BY <2>1 DEF Contents
  <2> QED
    BY <2>1, <2>2 DEF Fifos!FifoInit, QueueInit
<1>2. /\ QueueInv /\ QueueInv' /\ [QueueNext]_vars
      => [Fifos!FifoNext]_(Fifos!fifoVars)
  <2>1. ASSUME UNCHANGED vars PROVE UNCHANGED Fifos!fifoVars
    BY <2>1
    DEF vars, ringVars, writerVars, readerVars, Fifos!fifoVars, Contents,
        copied, growing
  <2> QED
    BY <2>1, FifoStep
<1> QED
  BY <1>1, <1>2, QueueAlways, PTL
  DEF QueueSpec, ImplementsFifos, Fifos!FifoSpec
=============================================================================
