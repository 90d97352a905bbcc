-------------------------- MODULE RockStoreProofs --------------------------
(***************************************************************************)
(* Proofs about RockStore: the index describes the db file and clients are *)
(* served what they were promised, for any number of entries, keys, cells, *)
(* workers, writes and disker restarts, outside of the three known ways in *)
(* which a cell is spoilt.                                                 *)
(***************************************************************************)
EXTENDS RockStore, FiniteSetTheorems, TLAPS

Writing == {"filling", "writing", "failed"}
Reading == {"open", "reading"}

(* A user that swaps out has its slot locked, one that swaps in shares it, *)
(* and the slot does not change under them.                                *)
WritersHold ==
    \A u \in Users : pc[u] \in Writing =>
        /\ key[u] \in Keys /\ sees[u] <= writes
        /\ slot[CellOf(u)].writer = u
        /\ slot[CellOf(u)].key = key[u] /\ slot[CellOf(u)].ver = sees[u]

ReadersHold ==
    \A u \in Users : pc[u] \in Reading =>
        /\ key[u] \in Keys
        /\ slot[CellOf(u)].state = "Readable"
        /\ u \in slot[CellOf(u)].readers
        /\ slot[CellOf(u)].key = key[u] /\ slot[CellOf(u)].ver = sees[u]

(* Only who waits for an answer has one, only a reader was served.         *)
AnswersWanted ==
    \A u \in Users :
        /\ pc[u] \notin {"reading", "writing"} => reply[u] = NoReply
        /\ pc[u] \notin Reading => served[u] = None

(* A request with a user is the one that the user waits for.               *)
Queued(w, m) ==
    /\ m.kind = "write" => m.data \in Contents /\ m.data.ver <= writes
    /\ m.user # None =>
          /\ WorkerOf[m.user] = w /\ m.cell = CellOf(m.user)
          /\ reply[m.user] = NoReply
          /\ m.kind = "read" => pc[m.user] = "reading"
          /\ m.kind = "write" =>
                /\ pc[m.user] = "writing"
                /\ m.data = Content(key[m.user], sees[m.user])

RequestsQueued ==
    /\ \A w \in Workers : \A n \in 1..Len(fifo[w]) : Queued(w, fifo[w][n])
    /\ \A w \in Workers : \A n, k \in 1..Len(fifo[w]) :
          (n # k /\ fifo[w][n].user # None)
              => fifo[w][n].user # fifo[w][k].user

(* Writes to a cell are told apart by their versions; an abandoned one is  *)
(* older than that of the user who has the slot now.                       *)
VersionsApart ==
    \A v, w \in Workers :
        \A n \in 1..Len(fifo[v]), k \in 1..Len(fifo[w]) :
            (/\ fifo[v][n].kind = "write" /\ fifo[w][k].kind = "write"
             /\ fifo[v][n].cell = fifo[w][k].cell
             /\ fifo[v][n].data.ver = fifo[w][k].data.ver)
                => v = w /\ n = k

Outdates(u, m) ==
    (m.kind = "write" /\ m.cell = CellOf(u)) =>
        /\ m.data.ver <= sees[u]
        /\ (pc[u] = "filling" \/ reply[u].outcome = "ok")
               => m.data.ver # sees[u]

OldWrites ==
    \A u \in Users : pc[u] \in Writing =>
        \A w \in Workers : \A n \in 1..Len(fifo[w]) : Outdates(u, fifo[w][n])

(* What the disker said it did is what is in the cell, and what it brought *)
(* is what the slot promised.                                              *)
AnswersTrue ==
    \A u \in Users :
        (reply[u].outcome = "ok" /\ CellOf(u) \notin spoilt) =>
            /\ pc[u] = "writing" =>
                  disk[CellOf(u)] = Content(key[u], sees[u])
            /\ pc[u] = "reading" =>
                  (reply[u].data.whole
                      => reply[u].data = Content(key[u], sees[u]))

(* Readable slots describe their cells, also when they are to be freed:    *)
(* they may still have readers.                                            *)
SlotsMatch ==
    \A c \in Cells \ spoilt : slot[c].state = "Readable" =>
        disk[c] = Content(slot[c].key, slot[c].ver)

(* The inductive invariant.                                                *)
RockInv ==
    /\ RockTypeOK
    /\ WritersHold /\ ReadersHold /\ AnswersWanted
    /\ RequestsQueued /\ VersionsApart /\ OldWrites
    /\ AnswersTrue /\ SlotsMatch /\ ServedAsPromised

-----------------------------------------------------------------------------
(* Types                                                                   *)

SlotOK(s) == s \in Slots /\ ((s.state = "Writeable") <=> (s.writer # None))

(* What the constants are, as the provers want it.                         *)
LEMMA RockConstants ==
    /\ None \notin Users /\ None \notin Keys /\ None \notin Contents
    /\ \A u \in Users : WorkerOf[u] \in Workers
    /\ \A k \in Keys : HashOf[k] \in Cells
    /\ Cells \subseteq Int /\ 1 \in Cells /\ 0 \in Versions
    /\ MaxWrites \in Nat /\ MaxRestarts \in Nat
    /\ Versions \subseteq Nat
<1>1. Cardinality(Cells) \in Nat
  BY FS_CardinalityType, RockAssumption
<1>2. Cells \subseteq Int /\ 1 \in Cells
  BY <1>1, RockAssumption
<1> QED
  BY <1>2, RockAssumption DEF Workers, Versions

(* What a cell holds when it was filled, and when something is missing.    *)
LEMMA ContentFacts ==
    /\ \A k \in Keys, v \in Versions :
          /\ Content(k, v) \in Contents
          /\ Content(k, v).key = k /\ Content(k, v).ver = v
    /\ \A d \in Contents :
          /\ Cut(d) \in Contents /\ ~Cut(d).whole
          /\ Cut(d).key = d.key /\ Cut(d).ver = d.ver
          /\ d.whole => d = Content(d.key, d.ver)
<1>1. ASSUME NEW k \in Keys, NEW v \in Versions
      PROVE  /\ Content(k, v) \in Contents
             /\ Content(k, v).key = k /\ Content(k, v).ver = v
  BY DEF Content, Contents
<1>2. ASSUME NEW d \in Contents
      PROVE  /\ Cut(d) \in Contents /\ ~Cut(d).whole
             /\ Cut(d).key = d.key /\ Cut(d).ver = d.ver
  BY DEF Cut, Contents
<1>3. ASSUME NEW d \in Contents, d.whole
      PROVE  d = Content(d.key, d.ver)
  <2>1. d = [key |-> d.key, ver |-> d.ver, whole |-> d.whole]
    BY DEF Contents
  <2>2. d.whole \in BOOLEAN
    BY DEF Contents
  <2>3. d.whole = TRUE
    BY <2>2, <1>3
  <2> QED
    BY <2>1, <2>3, Zenon DEF Content
<1> QED
  BY <1>1, <1>2, <1>3

(* The calls of the map leave well-formed slots.                           *)
LEMMA SlotCalls ==
    ASSUME NEW s, SlotOK(s), NEW u \in Users
    PROVE  /\ \A k \in Keys, v \in Versions :
                 SlotOK([Opened(s, u) EXCEPT !.key = k, !.ver = v])
           /\ \A R \in SUBSET Users : SlotOK(Closed(s, R))
           /\ SlotOK(Marked(s)) /\ SlotOK(AbortedIo(s, u))
           /\ SlotOK([s EXCEPT !.readers = @ \cup {u}])
<1> USE RockConstants
<1>1. /\ s \in Slots /\ u # None /\ u \in Users
      /\ (s.state = "Writeable") <=> (s.writer # None)
  BY DEF SlotOK
<1>2. \A k \in Keys, v \in Versions :
         SlotOK([Opened(s, u) EXCEPT !.key = k, !.ver = v])
  BY <1>1 DEF SlotOK, Slots, States, Opened
<1>3. \A R \in SUBSET Users : SlotOK(Closed(s, R))
  BY <1>1 DEF SlotOK, Slots, States, Closed
<1>4. SlotOK(Marked(s))
  BY <1>1 DEF SlotOK, Slots, States, Marked
<1>5. SlotOK(AbortedIo(s, u))
  <2>1. CASE s.state = "Writeable"
    BY <1>1, <2>1 DEF SlotOK, Slots, States, AbortedIo
  <2>2. CASE s.state # "Writeable"
    BY <1>1, <2>2 DEF SlotOK, Slots, States, AbortedIo
  <2> QED
    BY <2>1, <2>2
<1>6. SlotOK([s EXCEPT !.readers = @ \cup {u}])
  BY <1>1 DEF SlotOK, Slots, States
<1> QED
  BY <1>2, <1>3, <1>4, <1>5, <1>6

(* The types of everything but the slots, and those of the slots.          *)
IndexOK == slot \in [Cells -> Slots] /\ \A c \in Cells : SlotOK(slot[c])

QueuesOK == fifo \in [Workers -> Seq(Requests)]

FilesOK ==
    /\ disk \in [Cells -> Contents \cup {None}]
    /\ filen \in Cells \cup {0} /\ restarts \in 0..MaxRestarts
    /\ writes \in Versions /\ spoilt \in SUBSET Cells

UsersOK ==
    /\ pc \in [Users -> PCs] /\ key \in [Users -> Keys \cup {None}]
    /\ sees \in [Users -> Versions] /\ reply \in [Users -> Replies]
    /\ served \in [Users -> Contents \cup {None}]

HeaderOK == header \in [Users -> BOOLEAN]

(* The type invariant is the conjunction of the five.                      *)
LEMMA RockTypeParts ==
    RockTypeOK <=> IndexOK /\ QueuesOK /\ FilesOK /\ UsersOK /\ HeaderOK
BY DEF RockTypeOK, IndexOK, SlotOK, QueuesOK, FilesOK, UsersOK, HeaderOK

(* The requests of a FIFO stay requests.                                   *)
LEMMA QueuesStep ==
    ASSUME RockTypeOK, WritersHold, ReadersHold, RockNext
    PROVE  QueuesOK'
<1> USE RockConstants
<1>1. QueuesOK /\ UsersOK
  BY RockTypeParts
<1>2. ASSUME UNCHANGED fifo
      PROVE  QueuesOK'
  BY <1>1, <1>2 DEF QueuesOK
<1>3. ASSUME NEW u \in Users, NEW kind \in {"read", "write"},
             NEW d \in Contents \cup {None}, key[u] \in Keys,
             Push(u, kind, d)
      PROVE  QueuesOK'
  <2> DEFINE m == [kind |-> kind, user |-> u, cell |-> CellOf(u),
                   data |-> d]
  <2>1. m \in Requests
    BY <1>3 DEF Requests, CellOf
  <2>2. WorkerOf[u] \in Workers /\ fifo[WorkerOf[u]] \in Seq(Requests)
    BY <1>1 DEF QueuesOK
  <2>3. CASE UNCHANGED fifo
    BY <2>3, <1>2
  <2>4. CASE fifo' = [fifo EXCEPT ![WorkerOf[u]] =
                         Append(fifo[WorkerOf[u]], m)]
    <3> HIDE DEF m
    <3>1. Append(fifo[WorkerOf[u]], m) \in Seq(Requests)
      BY <2>1, <2>2
    <3> QED
      BY <3>1, <2>4, <1>1 DEF QueuesOK
  <2> QED
    BY <1>3, <2>3, <2>4 DEF Push
<1>4. ASSUME NEW w \in Workers, fifo[w] # <<>>,
             fifo' = [fifo EXCEPT ![w] = Tail(@)]
      PROVE  QueuesOK'
  <2>1. fifo[w] \in Seq(Requests)
    BY <1>1 DEF QueuesOK
  <2>2. Tail(fifo[w]) \in Seq(Requests)
    BY <2>1, <1>4
  <2> QED
    BY <2>2, <1>1, <1>4 DEF QueuesOK
<1>5. ASSUME NEW u \in Users,
             fifo' = [fifo EXCEPT ![WorkerOf[u]] = Abandoned(@, u)]
      PROVE  QueuesOK'
  <2> DEFINE q == fifo[WorkerOf[u]]
  <2>1. WorkerOf[u] \in Workers /\ q \in Seq(Requests)
    BY <1>1 DEF QueuesOK
  <2> HIDE DEF q
  <2>2. ASSUME NEW n \in 1..Len(q)
        PROVE  (IF q[n].user = u THEN [q[n] EXCEPT !.user = None] ELSE q[n])
                  \in Requests
    <3>1. q[n] \in Requests
      BY <2>1
    <3> QED
      BY <3>1 DEF Requests
  <2>3. Abandoned(q, u) \in [1..Len(q) -> Requests]
    BY <2>2 DEF Abandoned
  <2>4. Len(q) \in Nat /\ Abandoned(q, u) \in Seq(Requests)
    BY <2>1, <2>3
  <2> QED
    BY <2>4, <1>1, <1>5 DEF QueuesOK, q
<1>6. ASSUME NEW u \in Users
      PROVE  /\ \A k \in Keys : CreateStoreIO(u, k) \/ Get(u, k) => QueuesOK'
             /\ CloseWriterGone(u) \/ WriteCompleted(u) \/ ReadCompleted(u)
                    \/ Unlink(u) \/ Disconnect(u) => QueuesOK'
             /\ Timeout(u) => QueuesOK'
             /\ CloseWroteAll(u) \/ Read(u) => QueuesOK'
  <2>1. \A k \in Keys : CreateStoreIO(u, k) \/ Get(u, k) => QueuesOK'
    BY <1>2 DEF CreateStoreIO, Get
  <2>2. CloseWriterGone(u) \/ WriteCompleted(u) \/ ReadCompleted(u)
            \/ Unlink(u) \/ Disconnect(u) => QueuesOK'
    BY <1>2
    DEF CloseWriterGone, WriteCompleted, ReadCompleted, Unlink, Disconnect,
        Forgets
  <2>3. Timeout(u) => QueuesOK'
    BY <1>5 DEF Timeout
  <2>4. CASE CloseWroteAll(u)
    <3>1. key[u] \in Keys /\ sees[u] \in Versions
      BY <2>4, <1>1 DEF CloseWroteAll, WritersHold, Writing, UsersOK
    <3>2. Content(key[u], sees[u]) \in Contents
      BY <3>1, ContentFacts
    <3> QED
      BY <3>1, <3>2, <1>3, <2>4 DEF CloseWroteAll
  <2>5. CASE Read(u)
    <3>1. key[u] \in Keys
      BY <2>5 DEF Read, ReadersHold, Reading
    <3> QED
      BY <3>1, <1>3, <2>5 DEF Read
  <2> QED
    BY <2>1, <2>2, <2>3, <2>4, <2>5
<1>7. ASSUME NEW w \in Workers
      PROVE  DiskerWrite(w) \/ DiskerRead(w) => QueuesOK'
  BY <1>4 DEF DiskerWrite, DiskerRead
<1>8. DiskerRestart \/ DoOneEntry => QueuesOK'
  BY <1>2, <1>4 DEF DiskerRestart, DoOneEntry
<1> QED
  BY <1>6, <1>7, <1>8 DEF RockNext, WorkerStep

(* A disker or a worker that answers gives a reply.                        *)
LEMMA RepliesStep ==
    ASSUME RockTypeOK, RockNext
    PROVE  reply' \in [Users -> Replies]
<1> USE RockConstants
<1>1. /\ UsersOK /\ QueuesOK /\ FilesOK
      /\ reply \in [Users -> Replies]
  BY RockTypeParts DEF UsersOK
<1>2. /\ NoReply \in Replies /\ Failed \in Replies
      /\ \A d \in Contents \cup {None} : Reply("ok", d) \in Replies
  BY DEF NoReply, Failed, Reply, Replies
<1>3. ASSUME NEW u \in Users
      PROVE  /\ \A k \in Keys : CreateStoreIO(u, k) \/ Get(u, k) =>
                   reply' \in [Users -> Replies]
             /\ CloseWriterGone(u) \/ WriteCompleted(u) \/ ReadCompleted(u)
                    \/ Timeout(u) => reply' \in [Users -> Replies]
             /\ Unlink(u) \/ Disconnect(u) => reply' \in [Users -> Replies]
             /\ CloseWroteAll(u) \/ Read(u) => reply' \in [Users -> Replies]
  <2>1. \A k \in Keys : CreateStoreIO(u, k) \/ Get(u, k) =>
           reply' \in [Users -> Replies]
    BY <1>1 DEF CreateStoreIO, Get
  <2>2. CloseWriterGone(u) \/ WriteCompleted(u) \/ ReadCompleted(u)
            \/ Timeout(u) => reply' \in [Users -> Replies]
    BY <1>1, <1>2
    DEF CloseWriterGone, WriteCompleted, ReadCompleted, Timeout
  <2>3. Unlink(u) \/ Disconnect(u) => reply' \in [Users -> Replies]
    BY <1>1 DEF Unlink, Disconnect, Forgets
  <2>4. CloseWroteAll(u) \/ Read(u) => reply' \in [Users -> Replies]
    BY <1>1, <1>2 DEF CloseWroteAll, Read, Push
  <2> QED
    BY <2>1, <2>2, <2>3, <2>4
<1>4. ASSUME NEW w \in Workers, DiskerWrite(w) \/ DiskerRead(w)
      PROVE  reply' \in [Users -> Replies]
  <2>1. fifo[w] \in Seq(Requests) /\ fifo[w] # <<>>
    BY <1>1, <1>4 DEF QueuesOK, DiskerWrite, DiskerRead
  <2>2. PICK m \in Requests : m = Head(fifo[w])
    BY <2>1
  <2>3. m.user \in Users \cup {None} /\ m.cell \in Cells
    BY DEF Requests
  <2>4. disk[m.cell] \in Contents \cup {None}
    BY <2>3, <1>1 DEF FilesOK
  <2>5. \E a \in Replies : Answer(m.user, a)
    <3>1. CASE DiskerWrite(w)
      BY <3>1, <2>2, <1>2 DEF DiskerWrite
    <3>2. CASE DiskerRead(w)
      BY <3>2, <2>2, <2>4, <1>2, ContentFacts DEF DiskerRead
    <3> QED
      BY <3>1, <3>2, <1>4
  <2> QED
    BY <2>5, <2>3, <1>1 DEF Answer
<1>5. DiskerRestart \/ DoOneEntry => reply' \in [Users -> Replies]
  BY <1>1 DEF DiskerRestart, DoOneEntry, users
<1> QED
  BY <1>3, <1>4, <1>5 DEF RockNext, WorkerStep

(* What users know keeps its types; what is served came with a reply.      *)
LEMMA UsersStep ==
    ASSUME RockTypeOK, RockNext
    PROVE  UsersOK' /\ HeaderOK'
<1> USE RockConstants
<1>1. UsersOK /\ HeaderOK /\ IndexOK /\ FilesOK
  BY RockTypeParts
<1>2. reply' \in [Users -> Replies]
  BY RepliesStep
<1>3. HeaderOK'
  <2>1. ASSUME UNCHANGED header
        PROVE  HeaderOK'
    BY <2>1, <1>1 DEF HeaderOK
  <2>2. ASSUME NEW u \in Users,
               \E b \in BOOLEAN : header' = [header EXCEPT ![u] = b]
        PROVE  HeaderOK'
    BY <2>2, <1>1, Zenon DEF HeaderOK
  <2>3. ASSUME NEW u \in Users, ReadCompleted(u) \/ Forgets(u)
        PROVE  HeaderOK'
    <3>1. CASE Forgets(u)
      BY <3>1, <2>2 DEF Forgets
    <3>2. CASE ReadCompleted(u)
      <4> DEFINE b == header[u] \/ (reply[u].outcome = "ok"
                                    /\ reply[u].data.key = key[u])
      <4>1. header' = [header EXCEPT ![u] = b]
        BY <3>2 DEF ReadCompleted
      <4>2. b \in BOOLEAN
        OBVIOUS
      <4> HIDE DEF b
      <4> QED
        BY <4>1, <4>2, <2>2
    <3> QED
      BY <2>3, <3>1, <3>2
  <2>4. ASSUME NEW u \in Users
        PROVE  /\ \A k \in Keys : CreateStoreIO(u, k) \/ Get(u, k) =>
                     HeaderOK'
               /\ CloseWriterGone(u) \/ WriteCompleted(u) \/ Timeout(u)
                      \/ CloseWroteAll(u) \/ Read(u) => HeaderOK'
               /\ Unlink(u) \/ Disconnect(u) \/ ReadCompleted(u) =>
                     HeaderOK'
    BY <2>1, <2>3
    DEF CreateStoreIO, Get, CloseWriterGone, WriteCompleted, Timeout,
        CloseWroteAll, Read, Unlink, Disconnect
  <2>5. ASSUME NEW w \in Workers, DiskerWrite(w) \/ DiskerRead(w)
        PROVE  HeaderOK'
    BY <2>1, <2>5 DEF DiskerWrite, DiskerRead
  <2>6. DiskerRestart \/ DoOneEntry => HeaderOK'
    BY <2>1 DEF DiskerRestart, DoOneEntry, users
  <2> QED
    BY <2>4, <2>5, <2>6 DEF RockNext, WorkerStep
<1>4. ASSUME NEW u \in Users, ReadCompleted(u)
      PROVE  UsersOK'
  <2>1. reply[u].data \in Contents \cup {None}
    BY <1>1 DEF UsersOK, Replies
  <2>2. served[u] \in Contents \cup {None}
    BY <1>1 DEF UsersOK
  <2>3. PICK d \in Contents \cup {None} :
           served' = [served EXCEPT ![u] = d]
    BY <1>4, <2>1, <2>2 DEF ReadCompleted
  <2>4. UNCHANGED <<key, sees>> /\ pc' = [pc EXCEPT ![u] = "open"]
    BY <1>4 DEF ReadCompleted, Goes
  <2> QED
    BY <2>3, <2>4, <1>1, <1>2 DEF UsersOK, PCs
<1>5. ASSUME NEW u \in Users, NEW k \in Keys, CreateStoreIO(u, k)
      PROVE  UsersOK'
  <2>1. writes + 1 \in Versions
    BY <1>1, <1>5 DEF CreateStoreIO, FilesOK, Versions
  <2> QED
    BY <2>1, <1>1, <1>2, <1>5 DEF CreateStoreIO, Goes, UsersOK, PCs
<1>6. ASSUME NEW u \in Users, NEW k \in Keys, Get(u, k)
      PROVE  UsersOK'
  <2>1. slot[HashOf[k]].ver \in Versions
    BY <1>1 DEF IndexOK, Slots
  <2> QED
    BY <2>1, <1>1, <1>2, <1>6 DEF Get, Goes, UsersOK, PCs
<1>7. ASSUME NEW u \in Users, Unlink(u) \/ Disconnect(u)
      PROVE  UsersOK'
  BY <1>1, <1>2, <1>7 DEF Unlink, Disconnect, Forgets, Goes, UsersOK, PCs
<1>8. ASSUME NEW u \in Users,
             CloseWriterGone(u) \/ WriteCompleted(u) \/ Timeout(u)
                \/ CloseWroteAll(u) \/ Read(u)
      PROVE  UsersOK'
  BY <1>1, <1>2, <1>8
  DEF CloseWriterGone, WriteCompleted, Timeout, CloseWroteAll, Read, Goes,
      UsersOK, PCs
<1>9. ASSUME NEW w \in Workers, DiskerWrite(w) \/ DiskerRead(w)
      PROVE  UsersOK'
  BY <1>1, <1>2, <1>9 DEF DiskerWrite, DiskerRead, UsersOK
<1>10. DiskerRestart \/ DoOneEntry => UsersOK'
  BY <1>1, <1>2 DEF DiskerRestart, DoOneEntry, users, UsersOK
<1> QED
  BY <1>3, <1>4, <1>5, <1>6, <1>7, <1>8, <1>9, <1>10
  DEF RockNext, WorkerStep

(* A rebuild that adds an entry, of the cell or a foreign one.             *)
LEMMA EntryAdded ==
    ASSUME IndexOK, NEW e \in Contents, NEW c \in Cells, AddEntry(c, e)
    PROVE  \E s \in Slots :
              /\ SlotOK(s) /\ slot' = [slot EXCEPT ![HashOf[e.key]] = s]
              /\ s.state = "Readable" /\ s.readers = {}
              /\ IF HashOf[e.key] = c
                 THEN /\ s.key = e.key /\ s.ver = e.ver
                      /\ spoilt' = IF e.whole THEN spoilt \ {c}
                                   ELSE spoilt \cup {c}
                 ELSE spoilt' = spoilt \cup {HashOf[e.key]}
<1> USE RockConstants
<1>1. e.key \in Keys /\ e.ver \in Versions
  BY DEF Contents
<1>2. PICK l \in Cells : l = HashOf[e.key]
  BY <1>1
<1>3. PICK o \in Slots : o = slot[l]
  BY <1>2 DEF IndexOK
<1>4. CASE l = c
  <2> DEFINE s == Closed([[o EXCEPT !.waitingToBeFreed = FALSE]
                             EXCEPT !.key = e.key, !.ver = e.ver], {})
  <2>1. /\ slot' = [slot EXCEPT ![l] = s]
        /\ spoilt' = IF e.whole THEN spoilt \ {c} ELSE spoilt \cup {c}
    BY <1>2, <1>3, <1>4 DEF AddEntry
  <2>2. /\ s \in Slots /\ SlotOK(s) /\ s.state = "Readable"
        /\ s.readers = {} /\ s.key = e.key /\ s.ver = e.ver
    BY <1>1, <1>3 DEF SlotOK, Slots, States, Closed
  <2> QED
    BY <1>2, <1>4, <2>1, <2>2
<1>5. CASE l # c
  <2> DEFINE s == Closed([o EXCEPT !.waitingToBeFreed = FALSE], {})
  <2>1. slot' = [slot EXCEPT ![l] = s] /\ spoilt' = spoilt \cup {l}
    BY <1>2, <1>3, <1>5 DEF AddEntry
  <2>2. /\ s \in Slots /\ SlotOK(s) /\ s.state = "Readable"
        /\ s.readers = {}
    BY <1>3 DEF SlotOK, Slots, States, Closed
  <2> QED
    BY <1>2, <1>5, <2>1, <2>2
<1> QED
  BY <1>4, <1>5

(* The index and the db file keep their types.                             *)
LEMMA IndexStep ==
    ASSUME RockTypeOK, WritersHold, ReadersHold, RockNext
    PROVE  IndexOK'
<1> USE RockConstants
<1>1. IndexOK /\ UsersOK /\ QueuesOK /\ FilesOK
  BY RockTypeParts
<1>2. ASSUME UNCHANGED slot
      PROVE  IndexOK'
  BY <1>1, <1>2 DEF IndexOK
<1>3. ASSUME NEW c \in Cells, NEW s, SlotOK(s),
             slot' = [slot EXCEPT ![c] = s]
      PROVE  IndexOK'
  <2>1. s \in Slots
    BY <1>3 DEF SlotOK
  <2>2. slot' \in [Cells -> Slots]
    BY <2>1, <1>1, <1>3 DEF IndexOK
  <2>3. \A d \in Cells : slot'[d] = IF d = c THEN s ELSE slot[d]
    BY <1>1, <1>3 DEF IndexOK
  <2>4. \A d \in Cells : SlotOK(slot'[d])
    BY <2>3, <1>1, <1>3 DEF IndexOK
  <2> QED
    BY <2>2, <2>4 DEF IndexOK
<1>4. \A c \in Cells : SlotOK(slot[c])
  BY <1>1 DEF IndexOK
<1>5. \A u \in Users : pc[u] \in Writing \cup Reading =>
         key[u] \in Keys /\ CellOf(u) \in Cells
  BY DEF WritersHold, ReadersHold, CellOf
<1>6. ASSUME NEW u \in Users
      PROVE  /\ \A k \in Keys : CreateStoreIO(u, k) => IndexOK'
             /\ \A k \in Keys : Get(u, k) => IndexOK'
             /\ WriteCompleted(u) => IndexOK'
             /\ Unlink(u) \/ Disconnect(u) => IndexOK'
             /\ CloseWroteAll(u) \/ Read(u) \/ CloseWriterGone(u)
                   \/ ReadCompleted(u) \/ Timeout(u) => IndexOK'
  <2>1. ASSUME NEW k \in Keys, CreateStoreIO(u, k)
        PROVE  IndexOK'
    <3>1. writes + 1 \in Versions /\ HashOf[k] \in Cells
      BY <1>1, <2>1 DEF CreateStoreIO, FilesOK, Versions
    <3>2. SlotOK([Opened(slot[HashOf[k]], u) EXCEPT !.key = k,
                                                    !.ver = writes + 1])
      BY <3>1, <1>4, SlotCalls
    <3> QED
      BY <3>1, <3>2, <2>1, <1>3 DEF CreateStoreIO
  <2>2. ASSUME NEW k \in Keys, Get(u, k)
        PROVE  IndexOK'
    <3>1. SlotOK([slot[HashOf[k]] EXCEPT !.readers = @ \cup {u}])
      BY <1>4, SlotCalls
    <3> QED
      BY <3>1, <2>2, <1>3 DEF Get
  <2>3. ASSUME WriteCompleted(u)
        PROVE  IndexOK'
    <3>1. CellOf(u) \in Cells
      BY <1>5, <2>3 DEF WriteCompleted, Writing
    <3>2. /\ SlotOK(Closed(slot[CellOf(u)], {u}))
          /\ SlotOK(Marked(slot[CellOf(u)]))
      BY <3>1, <1>4, SlotCalls
    <3> QED
      BY <3>1, <3>2, <2>3, <1>3 DEF WriteCompleted
  <2>4. ASSUME Unlink(u) \/ Disconnect(u)
        PROVE  IndexOK'
    <3>1. CellOf(u) \in Cells
      BY <1>5, <2>4 DEF Unlink, Disconnect, Writing, Reading
    <3>2. /\ SlotOK(AbortedIo(slot[CellOf(u)], u))
          /\ SlotOK(AbortedIo(Marked(slot[CellOf(u)]), u))
      BY <3>1, <1>4, SlotCalls
    <3> QED
      BY <3>1, <3>2, <2>4, <1>3 DEF Unlink, Disconnect
  <2>5. CloseWroteAll(u) \/ Read(u) \/ CloseWriterGone(u)
            \/ ReadCompleted(u) \/ Timeout(u) => IndexOK'
    BY <1>2
    DEF CloseWroteAll, Read, CloseWriterGone, ReadCompleted, Timeout, index
  <2> QED
    BY <2>1, <2>2, <2>3, <2>4, <2>5
<1>7. ASSUME NEW w \in Workers, DiskerWrite(w) \/ DiskerRead(w)
      PROVE  IndexOK'
  BY <1>2, <1>7 DEF DiskerWrite, DiskerRead, index
<1>8. DiskerRestart => IndexOK'
  BY <1>2 DEF DiskerRestart, index
<1>9. ASSUME DoOneEntry
      PROVE  IndexOK'
  <2>1. CASE UNCHANGED index
    BY <2>1, <1>2 DEF index
  <2>2. CASE ~Skipped(disk[filen])
    <3>1. filen \in Cells /\ disk[filen] \in Contents
      BY <1>1, <1>9, <2>2 DEF DoOneEntry, FilesOK, Skipped
    <3>2. PICK e \in Contents : e = disk[filen]
      BY <3>1
    <3>3. e.key \in Keys /\ HashOf[e.key] \in Cells
      BY DEF Contents
    <3>4. CASE AddEntry(filen, e)
      <4>1. PICK s \in Slots :
               SlotOK(s) /\ slot' = [slot EXCEPT ![HashOf[e.key]] = s]
        BY <3>4, <3>1, <1>1, EntryAdded
      <4> QED
        BY <4>1, <3>3, <1>3
    <3>5. CASE slot' = [slot EXCEPT ![HashOf[e.key]] =
                           IF Servable(@, e.key) THEN Marked(@) ELSE @]
      <4> DEFINE o == slot[HashOf[e.key]]
                 s == IF Servable(o, e.key) THEN Marked(o) ELSE o
      <4>1. SlotOK(o)
        BY <3>3, <1>4
      <4>3. SlotOK(Marked(o))
        BY <4>1 DEF SlotOK, Slots, States, Marked
      <4>4. SlotOK(s)
        BY <4>1, <4>3
      <4>5. slot' = [slot EXCEPT ![HashOf[e.key]] = s]
        BY <3>5
      <4> HIDE DEF s, o
      <4> QED
        BY <4>4, <4>5, <3>3, <1>3
    <3> QED
      BY <3>2, <3>4, <3>5, <2>2, <1>9 DEF DoOneEntry
  <2> QED
    BY <1>9, <2>1, <2>2 DEF DoOneEntry
<1> QED
  BY <1>6, <1>7, <1>8, <1>9 DEF RockNext, WorkerStep

(* The db file and the counters keep their types.                          *)
LEMMA FilesStep ==
    ASSUME RockTypeOK, RequestsQueued, RockNext
    PROVE  FilesOK'
<1> USE RockConstants
<1>1. QueuesOK /\ FilesOK /\ IndexOK
  BY RockTypeParts
<1>2. ASSUME UNCHANGED <<disk, filen, restarts, writes, spoilt>>
      PROVE  FilesOK'
  BY <1>1, <1>2 DEF FilesOK
<1>3. ASSUME NEW u \in Users
      PROVE  /\ \A k \in Keys : CreateStoreIO(u, k) => FilesOK'
             /\ \A k \in Keys : Get(u, k) => FilesOK'
             /\ WriteCompleted(u) \/ Unlink(u) \/ Disconnect(u) => FilesOK'
             /\ CloseWroteAll(u) \/ Read(u) \/ CloseWriterGone(u)
                   \/ ReadCompleted(u) \/ Timeout(u) => FilesOK'
  <2>1. ASSUME NEW k \in Keys, CreateStoreIO(u, k)
        PROVE  FilesOK'
    <3>1. writes + 1 \in Versions
      BY <1>1, <2>1 DEF CreateStoreIO, FilesOK, Versions
    <3> QED
      BY <3>1, <1>1, <2>1 DEF CreateStoreIO, FilesOK
  <2>2. \A k \in Keys : Get(u, k) => FilesOK'
    BY <1>2 DEF Get
  <2>3. WriteCompleted(u) \/ Unlink(u) \/ Disconnect(u) => FilesOK'
    BY <1>2 DEF WriteCompleted, Unlink, Disconnect, Forgets
  <2>4. CloseWroteAll(u) \/ Read(u) \/ CloseWriterGone(u)
            \/ ReadCompleted(u) \/ Timeout(u) => FilesOK'
    BY <1>2
    DEF CloseWroteAll, Read, CloseWriterGone, ReadCompleted, Timeout, index
  <2> QED
    BY <2>1, <2>2, <2>3, <2>4
<1>4. ASSUME NEW w \in Workers, DiskerWrite(w)
      PROVE  FilesOK'
  <2>1. fifo[w] \in Seq(Requests) /\ fifo[w] # <<>>
    BY <1>1, <1>4 DEF QueuesOK, DiskerWrite
  <2>2. PICK m \in Requests : m = Head(fifo[w])
    BY <2>1
  <2>3. m.data \in Contents /\ m.cell \in Cells
    <3>1. m = fifo[w][1] /\ 1 \in 1..Len(fifo[w])
      BY <2>1, <2>2
    <3>2. Queued(w, m)
      BY <3>1 DEF RequestsQueued
    <3> QED
      BY <3>2, <2>2, <1>4 DEF Queued, Requests, DiskerWrite
  <2>4. spoilt' \in SUBSET Cells
    BY <2>2, <2>3, <1>4, <1>1 DEF DiskerWrite, FilesOK
  <2>5. disk' \in [Cells -> Contents \cup {None}]
    <3>1. PICK x \in {m.data, Cut(m.data), disk[m.cell], None} :
             disk' = [disk EXCEPT ![m.cell] = x]
      BY <2>2, <1>4, Zenon DEF DiskerWrite
    <3>2. x \in Contents \cup {None}
      <4>1. Cut(m.data) \in Contents
        BY <2>3, ContentFacts, Zenon
      <4>2. disk[m.cell] \in Contents \cup {None}
        BY <2>3, <1>1 DEF FilesOK
      <4> QED
        BY <4>1, <4>2, <2>3
    <3> QED
      BY <3>1, <3>2, <2>3, <1>1 DEF FilesOK
  <2> QED
    BY <2>4, <2>5, <1>4, <1>1 DEF DiskerWrite, FilesOK
<1>5. ASSUME NEW w \in Workers, DiskerRead(w)
      PROVE  FilesOK'
  BY <1>2, <1>5 DEF DiskerRead, index
<1>6. ASSUME DiskerRestart
      PROVE  FilesOK'
  BY <1>6, <1>1 DEF DiskerRestart, FilesOK, index
<1>7. ASSUME DoOneEntry
      PROVE  FilesOK'
  <2>1. /\ UNCHANGED <<disk, writes, restarts>>
        /\ filen' \in Cells \cup {0}
    BY <1>7 DEF DoOneEntry, Rebuilt
  <2>2. CASE UNCHANGED spoilt
    BY <2>1, <2>2, <1>1 DEF FilesOK
  <2>3. CASE ~Skipped(disk[filen]) /\ AddEntry(filen, disk[filen])
    <3>1. filen \in Cells /\ disk[filen] \in Contents
      BY <1>1, <1>7, <2>3 DEF DoOneEntry, FilesOK, Skipped
    <3>2. HashOf[disk[filen].key] \in Cells
      BY <3>1 DEF Contents
    <3>3. spoilt' \in SUBSET Cells
      BY <3>1, <3>2, <2>3, <1>1 DEF AddEntry, FilesOK
    <3> QED
      BY <3>3, <2>1, <1>1 DEF FilesOK
  <2> QED
    BY <1>7, <2>2, <2>3 DEF DoOneEntry, index
<1> QED
  BY <1>3, <1>4, <1>5, <1>6, <1>7 DEF RockNext, WorkerStep

(* A step keeps the type invariant.                                        *)
LEMMA RockTypeStep ==
    ASSUME RockTypeOK, WritersHold, ReadersHold, RequestsQueued, RockNext
    PROVE  RockTypeOK'
<1>1. IndexOK' /\ QueuesOK' /\ FilesOK' /\ UsersOK' /\ HeaderOK'
  BY IndexStep, QueuesStep, FilesStep, UsersStep
<1> QED
  BY <1>1 DEF RockTypeOK, IndexOK, SlotOK, QueuesOK, FilesOK, UsersOK,
              HeaderOK

-----------------------------------------------------------------------------
(* Who holds a slot                                                        *)

WriterHolds(u) ==
    pc[u] \in Writing =>
        /\ key[u] \in Keys /\ sees[u] <= writes
        /\ slot[CellOf(u)].writer = u
        /\ slot[CellOf(u)].key = key[u] /\ slot[CellOf(u)].ver = sees[u]

ReaderHolds(u) ==
    pc[u] \in Reading =>
        /\ key[u] \in Keys
        /\ slot[CellOf(u)].state = "Readable"
        /\ u \in slot[CellOf(u)].readers
        /\ slot[CellOf(u)].key = key[u] /\ slot[CellOf(u)].ver = sees[u]

(* Slot s in place of o takes nothing from a user other than u.            *)
Keeps(o, s, u) ==
    \A v \in Users \ {u} :
        /\ o.writer = v =>
              s.writer = v /\ s.key = o.key /\ s.ver = o.ver
        /\ (o.state = "Readable" /\ v \in o.readers) =>
              /\ s.state = "Readable" /\ v \in s.readers
              /\ s.key = o.key /\ s.ver = o.ver

(* Nobody else depends on a slot that is not locked, or locked by the one  *)
(* writer; the other calls of the map are careful.                         *)
LEMMA SlotKept ==
    ASSUME NEW o, SlotOK(o), NEW u
    PROVE  /\ Unlocked(o) => \A s : Keeps(o, s, u)
           /\ u \in Users /\ o.writer = u => \A s : Keeps(o, s, u)
           /\ Keeps(o, Marked(o), u) /\ Keeps(o, o, u)
           /\ Keeps(o, [o EXCEPT !.readers = @ \cup {u}], u)
           /\ o.state = "Readable" =>
                 /\ Keeps(o, AbortedIo(o, u), u)
                 /\ Keeps(o, AbortedIo(Marked(o), u), u)
<1> USE RockConstants
<1>1. /\ o \in Slots /\ (o.state = "Writeable") <=> (o.writer # None)
  BY DEF SlotOK
<1>2. Unlocked(o) => \A s : Keeps(o, s, u)
  BY DEF Unlocked, Keeps
<1>3. u \in Users /\ o.writer = u => \A s : Keeps(o, s, u)
  BY <1>1 DEF Keeps
<1>4. Keeps(o, Marked(o), u) /\ Keeps(o, o, u)
  BY <1>1 DEF Keeps, Marked, Slots
<1>5. Keeps(o, [o EXCEPT !.readers = @ \cup {u}], u)
  BY <1>1 DEF Keeps, Slots
<1>6. ASSUME o.state = "Readable"
      PROVE  /\ Keeps(o, AbortedIo(o, u), u)
             /\ Keeps(o, AbortedIo(Marked(o), u), u)
  <2>1. Keeps(o, AbortedIo(o, u), u)
    BY <1>1, <1>6 DEF Keeps, AbortedIo, Slots
  <2>2. Keeps(o, AbortedIo(Marked(o), u), u)
    BY <1>1, <1>6 DEF Keeps, AbortedIo, Marked, Slots
  <2> QED
    BY <2>1, <2>2
<1> QED
  BY <1>2, <1>3, <1>4, <1>5, <1>6

(* No step takes a slot from a user who holds it.                          *)
LEMMA HoldStep ==
    ASSUME RockTypeOK, WritersHold, ReadersHold, RockNext
    PROVE  WritersHold' /\ ReadersHold'
<1> USE RockConstants
<1>1. IndexOK /\ UsersOK /\ QueuesOK /\ FilesOK
  BY RockTypeParts
<1>2. \A u \in Users : WriterHolds(u) /\ ReaderHolds(u)
  BY DEF WritersHold, ReadersHold, WriterHolds, ReaderHolds
<1>3. SUFFICES \A u \in Users : WriterHolds(u)' /\ ReaderHolds(u)'
  BY DEF WritersHold, ReadersHold, WriterHolds, ReaderHolds
<1>4. writes \in Nat /\ \A u \in Users : sees[u] \in Nat
  BY <1>1 DEF FilesOK, UsersOK
<1> DEFINE Same(v) == /\ pc'[v] = pc[v] /\ key'[v] = key[v]
                      /\ sees'[v] = sees[v]
<1>5. ASSUME NEW u, NEW c \in Cells, NEW s,
             slot' = [slot EXCEPT ![c] = s], Keeps(slot[c], s, u),
             \A v \in Users \ {u} : Same(v),
             writes' \in {writes, writes + 1}
      PROVE  \A v \in Users \ {u} : WriterHolds(v)' /\ ReaderHolds(v)'
  <2> TAKE v \in Users \ {u}
  <2>1. Same(v)
    BY <1>5
  <2>2. /\ slot' \in [Cells -> {slot'[d] : d \in Cells}]
        /\ \A d \in Cells : slot'[d] = IF d = c THEN s ELSE slot[d]
    BY <1>1, <1>5 DEF IndexOK
  <2>3. WriterHolds(v)'
    <3> SUFFICES ASSUME pc[v] \in Writing
                 PROVE  /\ key[v] \in Keys /\ sees[v] <= writes'
                        /\ slot'[CellOf(v)].writer = v
                        /\ slot'[CellOf(v)].key = key[v]
                        /\ slot'[CellOf(v)].ver = sees[v]
      BY <2>1 DEF WriterHolds, CellOf
    <3>1. /\ key[v] \in Keys /\ sees[v] <= writes
          /\ CellOf(v) \in Cells /\ slot[CellOf(v)].writer = v
          /\ slot[CellOf(v)].key = key[v] /\ slot[CellOf(v)].ver = sees[v]
      BY <1>2 DEF WriterHolds, CellOf
    <3>2. sees[v] <= writes'
      BY <3>1, <1>4, <1>5
    <3> QED
      BY <3>1, <3>2, <2>2, <1>5 DEF Keeps
  <2>4. ReaderHolds(v)'
    <3> SUFFICES ASSUME pc[v] \in Reading
                 PROVE  /\ key[v] \in Keys
                        /\ slot'[CellOf(v)].state = "Readable"
                        /\ v \in slot'[CellOf(v)].readers
                        /\ slot'[CellOf(v)].key = key[v]
                        /\ slot'[CellOf(v)].ver = sees[v]
      BY <2>1 DEF ReaderHolds, CellOf
    <3>1. /\ key[v] \in Keys /\ CellOf(v) \in Cells
          /\ slot[CellOf(v)].state = "Readable"
          /\ v \in slot[CellOf(v)].readers
          /\ slot[CellOf(v)].key = key[v] /\ slot[CellOf(v)].ver = sees[v]
      BY <1>2 DEF ReaderHolds, CellOf
    <3> QED
      BY <3>1, <2>2, <1>5 DEF Keeps
  <2> QED
    BY <2>3, <2>4
<1>6. ASSUME UNCHANGED <<slot, key, sees, writes>>,
             NEW u \in Users, pc' = [pc EXCEPT ![u] = pc'[u]],
             \/ pc[u] \in Writing /\ pc'[u] \in Writing
             \/ pc[u] \in Reading /\ pc'[u] \in Reading
      PROVE  \A v \in Users : WriterHolds(v)' /\ ReaderHolds(v)'
  <2> TAKE v \in Users
  <2>1. \/ pc'[v] = pc[v]
        \/ pc[v] \in Writing /\ pc'[v] \in Writing
        \/ pc[v] \in Reading /\ pc'[v] \in Reading
    BY <1>6, <1>1 DEF UsersOK
  <2>2. Writing \cap Reading = {}
    BY DEF Writing, Reading
  <2> QED
    BY <2>1, <2>2, <1>2, <1>6 DEF WriterHolds, ReaderHolds, CellOf
<1>7. ASSUME UNCHANGED <<slot, pc, key, sees, writes>>
      PROVE  \A v \in Users : WriterHolds(v)' /\ ReaderHolds(v)'
  BY <1>2, <1>7 DEF WriterHolds, ReaderHolds, CellOf
<1>8. \A c \in Cells : SlotOK(slot[c])
  BY <1>1 DEF IndexOK
<1>9. \A u \in Users : pc[u] \in Writing \cup Reading =>
         key[u] \in Keys /\ CellOf(u) \in Cells
  BY <1>2 DEF WriterHolds, ReaderHolds, CellOf
<1>10. ASSUME NEW u \in Users, NEW k \in Keys, CreateStoreIO(u, k)
       PROVE  \A v \in Users : WriterHolds(v)' /\ ReaderHolds(v)'
  <2> DEFINE c == HashOf[k]
             s == [Opened(slot[c], u) EXCEPT !.key = k, !.ver = writes + 1]
  <2>1. c \in Cells /\ slot' = [slot EXCEPT ![c] = s] /\ Unlocked(slot[c])
    BY <1>10 DEF CreateStoreIO
  <2>2. \A v \in Users \ {u} : Same(v)
    BY <1>10, <1>1 DEF CreateStoreIO, Goes, UsersOK
  <2>3. writes' = writes + 1 /\ writes' \in Versions
    BY <1>10, <1>1 DEF CreateStoreIO, FilesOK, Versions
  <2>4. Keeps(slot[c], s, u)
    BY <2>1, <1>8, SlotKept
  <2>5. s.writer = u /\ s.key = k /\ s.ver = writes + 1
    <3>1. slot[c] \in Slots
      BY <2>1, <1>1 DEF IndexOK
    <3> QED
      BY <3>1 DEF Slots, Opened
  <2>6. slot'[c] = s
    BY <2>1, <1>1 DEF IndexOK
  <2>7. pc'[u] = "filling" /\ key'[u] = k /\ sees'[u] = writes + 1
    BY <1>10, <1>1 DEF CreateStoreIO, Goes, UsersOK
  <2> HIDE DEF s
  <2>8. WriterHolds(u)' /\ ReaderHolds(u)'
    BY <2>3, <2>5, <2>6, <2>7, <1>4
    DEF WriterHolds, ReaderHolds, Reading, CellOf
  <2> QED
    BY <2>1, <2>2, <2>3, <2>4, <2>8, <1>5
<1>11. ASSUME NEW u \in Users, NEW k \in Keys, Get(u, k)
       PROVE  \A v \in Users : WriterHolds(v)' /\ ReaderHolds(v)'
  <2> DEFINE c == HashOf[k]
             s == [slot[c] EXCEPT !.readers = @ \cup {u}]
  <2>1. c \in Cells /\ slot' = [slot EXCEPT ![c] = s]
    BY <1>11 DEF Get
  <2>2. \A v \in Users \ {u} : Same(v)
    BY <1>11, <1>1 DEF Get, Goes, UsersOK
  <2>3. writes' = writes
    BY <1>11 DEF Get
  <2>4. Keeps(slot[c], s, u)
    BY <2>1, <1>8, SlotKept
  <2>5. /\ s.state = "Readable" /\ u \in s.readers /\ s.key = k
        /\ s.ver = slot[c].ver
    <3>1. slot[c] \in Slots
      BY <2>1, <1>1 DEF IndexOK
    <3> QED
      BY <3>1, <1>11 DEF Slots, Get, Servable
  <2>6. slot'[c] = s
    BY <2>1, <1>1 DEF IndexOK
  <2>7. pc'[u] = "open" /\ key'[u] = k /\ sees'[u] = slot[c].ver
    BY <1>11, <1>1 DEF Get, Goes, UsersOK
  <2> HIDE DEF s
  <2>8. WriterHolds(u)' /\ ReaderHolds(u)'
    BY <2>3, <2>5, <2>6, <2>7
    DEF WriterHolds, ReaderHolds, Writing, CellOf
  <2> QED
    BY <2>1, <2>2, <2>3, <2>4, <2>8, <1>5
<1>12. ASSUME NEW u \in Users, WriteCompleted(u)
       PROVE  \A v \in Users : WriterHolds(v)' /\ ReaderHolds(v)'
  <2> DEFINE c == CellOf(u)
  <2>1. /\ pc[u] \in Writing /\ key[u] \in Keys /\ c \in Cells
        /\ slot[c].writer = u /\ sees[u] <= writes
        /\ slot[c].key = key[u] /\ slot[c].ver = sees[u]
    BY <1>12, <1>2 DEF WriteCompleted, Writing, WriterHolds, CellOf
  <2>2. \A s : Keeps(slot[c], s, u)
    BY <2>1, <1>8, SlotKept
  <2>3. \A v \in Users \ {u} : Same(v)
    BY <1>12, <1>1 DEF WriteCompleted, Goes, UsersOK
  <2>4. UNCHANGED <<key, sees, writes>>
    BY <1>12 DEF WriteCompleted
  <2>5. slot[c] \in Slots
    BY <2>1, <1>1 DEF IndexOK
  <2>6. CASE /\ slot' = [slot EXCEPT ![c] = Closed(slot[c], {u})]
             /\ Goes(u, "open")
    <3>1. slot'[c] = Closed(slot[c], {u})
      BY <2>1, <2>6, <1>1 DEF IndexOK
    <3>2. /\ slot'[c].state = "Readable" /\ u \in slot'[c].readers
          /\ slot'[c].key = key[u] /\ slot'[c].ver = sees[u]
      BY <3>1, <2>1, <2>5 DEF Closed, Slots
    <3>3. pc'[u] = "open"
      BY <2>6, <1>1 DEF Goes, UsersOK
    <3>4. WriterHolds(u)' /\ ReaderHolds(u)'
      BY <3>2, <3>3, <2>1, <2>4
      DEF WriterHolds, ReaderHolds, Writing, CellOf
    <3> QED
      BY <3>4, <2>1, <2>2, <2>3, <2>4, <2>6, <1>5
  <2>7. CASE /\ slot' = [slot EXCEPT ![c] = Marked(slot[c])]
             /\ Goes(u, "failed")
    <3>1. slot'[c] = Marked(slot[c])
      BY <2>1, <2>7, <1>1 DEF IndexOK
    <3>2. /\ slot'[c].writer = u
          /\ slot'[c].key = key[u] /\ slot'[c].ver = sees[u]
      BY <3>1, <2>1, <2>5 DEF Marked, Slots
    <3>3. pc'[u] = "failed"
      BY <2>7, <1>1 DEF Goes, UsersOK
    <3>4. WriterHolds(u)' /\ ReaderHolds(u)'
      BY <3>2, <3>3, <2>1, <2>4
      DEF WriterHolds, ReaderHolds, Reading, CellOf
    <3> QED
      BY <3>4, <2>1, <2>2, <2>3, <2>4, <2>7, <1>5
  <2> QED
    BY <2>6, <2>7, <1>12 DEF WriteCompleted
<1>13. ASSUME NEW u \in Users, Unlink(u) \/ Disconnect(u)
       PROVE  \A v \in Users : WriterHolds(v)' /\ ReaderHolds(v)'
  <2> DEFINE c == CellOf(u)
  <2>1. /\ key[u] \in Keys /\ c \in Cells
        /\ slot[c].writer = u \/ slot[c].state = "Readable"
        /\ pc[u] = "open" => slot[c].state = "Readable"
    BY <1>13, <1>2
    DEF Unlink, Disconnect, Writing, Reading, WriterHolds, ReaderHolds,
        CellOf
  <2>2. PICK s : /\ slot' = [slot EXCEPT ![c] = s]
                 /\ Keeps(slot[c], s, u)
    <3>1. SlotOK(slot[c])
      BY <2>1, <1>8
    <3>2. CASE Unlink(u)
      <4>1. Keeps(slot[c], AbortedIo(Marked(slot[c]), u), u)
        BY <3>1, <2>1, SlotKept
      <4> QED
        BY <4>1, <3>2 DEF Unlink
    <3>3. CASE Disconnect(u)
      <4>1. Keeps(slot[c], AbortedIo(slot[c], u), u)
        BY <3>1, <3>3, <2>1, SlotKept DEF Disconnect
      <4> QED
        BY <4>1, <3>3 DEF Disconnect
    <3> QED
      BY <3>2, <3>3, <1>13
  <2>3. \A v \in Users \ {u} : Same(v)
    BY <1>13, <1>1 DEF Unlink, Disconnect, Forgets, Goes, UsersOK
  <2>4. pc'[u] = "none" /\ writes' = writes
    BY <1>13, <1>1 DEF Unlink, Disconnect, Forgets, Goes, UsersOK
  <2>5. WriterHolds(u)' /\ ReaderHolds(u)'
    BY <2>4 DEF WriterHolds, ReaderHolds, Reading, Writing
  <2> QED
    BY <2>1, <2>2, <2>3, <2>4, <2>5, <1>5
<1>14. ASSUME NEW u \in Users, CloseWroteAll(u) \/ Read(u)
                  \/ CloseWriterGone(u) \/ ReadCompleted(u)
       PROVE  \A v \in Users : WriterHolds(v)' /\ ReaderHolds(v)'
  <2>1. UNCHANGED <<slot, key, sees, writes>>
    BY <1>14 DEF CloseWroteAll, Read, CloseWriterGone, ReadCompleted, index
  <2>2. /\ pc' = [pc EXCEPT ![u] = pc'[u]]
        /\ \/ pc[u] \in Writing /\ pc'[u] \in Writing
           \/ pc[u] \in Reading /\ pc'[u] \in Reading
    BY <1>14, <1>1 DEF CloseWroteAll, Read, CloseWriterGone, ReadCompleted,
       Goes, UsersOK, Writing, Reading
  <2> QED
    BY <2>1, <2>2, <1>6
<1>15. ASSUME \E u \in Users : Timeout(u)
       PROVE  \A v \in Users : WriterHolds(v)' /\ ReaderHolds(v)'
  BY <1>7, <1>15 DEF Timeout, index
<1>16. ASSUME \/ \E w \in Workers : DiskerWrite(w) \/ DiskerRead(w)
              \/ DiskerRestart
       PROVE  \A v \in Users : WriterHolds(v)' /\ ReaderHolds(v)'
  BY <1>7, <1>16 DEF DiskerWrite, DiskerRead, DiskerRestart, index, users
<1>17. ASSUME DoOneEntry
       PROVE  \A v \in Users : WriterHolds(v)' /\ ReaderHolds(v)'
  <2>1. UNCHANGED <<pc, key, sees, writes>>
    BY <1>17 DEF DoOneEntry, users
  <2>2. CASE UNCHANGED slot
    BY <2>1, <2>2, <1>7
  <2>3. ASSUME NEW c \in Cells, NEW s, slot' = [slot EXCEPT ![c] = s],
               Keeps(slot[c], s, None)
        PROVE  \A v \in Users : WriterHolds(v)' /\ ReaderHolds(v)'
    <3>1. \A v \in Users \ {None} : Same(v)
      BY <2>1
    <3> QED
      BY <3>1, <2>1, <2>3, <1>5
  <2>4. CASE ~Skipped(disk[filen])
    <3>1. filen \in Cells /\ disk[filen] \in Contents
      BY <1>1, <1>17, <2>4 DEF DoOneEntry, FilesOK, Skipped
    <3>2. PICK e \in Contents : e = disk[filen]
      BY <3>1
    <3>3. e.key \in Keys /\ HashOf[e.key] \in Cells
      BY DEF Contents
    <3>4. PICK c \in Cells : c = HashOf[e.key]
      BY <3>3
    <3>5. SlotOK(slot[c])
      BY <1>8
    <3>6. CASE AddEntry(filen, e) /\ Unlocked(slot[c])
      <4>1. PICK s \in Slots : slot' = [slot EXCEPT ![c] = s]
        BY <3>1, <3>4, <3>6, <1>1, EntryAdded
      <4>2. Keeps(slot[c], s, None)
        BY <3>5, <3>6, SlotKept
      <4> QED
        BY <4>1, <4>2, <2>3
    <3>7. CASE slot' = [slot EXCEPT ![c] =
                           IF Servable(@, e.key) THEN Marked(@) ELSE @]
      <4>1. /\ Keeps(slot[c], Marked(slot[c]), None)
            /\ Keeps(slot[c], slot[c], None)
        BY <3>5, SlotKept
      <4> QED
        BY <4>1, <3>7, <2>3
    <3> QED
      BY <3>2, <3>4, <3>6, <3>7, <2>4, <1>17 DEF DoOneEntry
  <2> QED
    BY <1>17, <2>2, <2>4 DEF DoOneEntry, index
<1> QED
  BY <1>10, <1>11, <1>12, <1>13, <1>14, <1>15, <1>16, <1>17
  DEF RockNext, WorkerStep

-----------------------------------------------------------------------------
(* The FIFOs                                                               *)

AllQueued ==
    \A w \in Workers : \A n \in 1..Len(fifo[w]) : Queued(w, fifo[w][n])

UsersApart ==
    \A w \in Workers : \A n, k \in 1..Len(fifo[w]) :
        (n # k /\ fifo[w][n].user # None)
            => fifo[w][n].user # fifo[w][k].user

(* The step adds no request: it takes the first d[w] of each FIFO and may  *)
(* abandon others.                                                         *)
Remains(r, o) ==
    /\ r.kind = o.kind /\ r.cell = o.cell /\ r.data = o.data
    /\ r.user = o.user \/ r.user = None

Shrinks(d) ==
    \A w \in Workers : \A n \in 1..Len(fifo'[w]) :
        /\ n + d[w] \in 1..Len(fifo[w])
        /\ Remains(fifo'[w][n], fifo[w][n + d[w]])

Shifts == [Workers -> {0, 1}]

(* A FIFO has a length and requests.                                       *)
LEMMA QueueTyped ==
    ASSUME QueuesOK, NEW w \in Workers
    PROVE  /\ fifo[w] \in Seq(Requests) /\ Len(fifo[w]) \in Nat
           /\ \A n \in 1..Len(fifo[w]) : fifo[w][n] \in Requests
<1>1. fifo[w] \in Seq(Requests)
  BY DEF QueuesOK
<1> QED
  BY <1>1

(* Nothing happens to the FIFOs: they shrink by nothing.                   *)
LEMMA UnchangedShrinks ==
    ASSUME QueuesOK, UNCHANGED fifo
    PROVE  \E d \in Shifts : Shrinks(d)
<1> DEFINE d == [w \in Workers |-> 0]
<1>1. d \in Shifts
  BY DEF Shifts
<1>2. ASSUME NEW w \in Workers, NEW n \in 1..Len(fifo'[w])
      PROVE  /\ n + d[w] \in 1..Len(fifo[w])
             /\ Remains(fifo'[w][n], fifo[w][n + d[w]])
  <2>1. n + d[w] = n /\ n \in 1..Len(fifo[w])
    BY QueueTyped
  <2> QED
    BY <2>1 DEF Remains
<1> HIDE DEF d
<1>3. Shrinks(d)
  BY <1>2 DEF Shrinks
<1> QED
  BY <1>1, <1>3

(* The disker takes a request.                                             *)
LEMMA TailShrinks ==
    ASSUME QueuesOK, NEW w \in Workers, fifo[w] # <<>>,
           fifo' = [fifo EXCEPT ![w] = Tail(@)]
    PROVE  \E d \in Shifts : Shrinks(d) /\ d[w] = 1
<1> DEFINE d == [v \in Workers |-> IF v = w THEN 1 ELSE 0]
<1>1. d \in Shifts /\ d[w] = 1
  BY DEF Shifts
<1>2. ASSUME NEW v \in Workers, NEW n \in 1..Len(fifo'[v])
      PROVE  /\ n + d[v] \in 1..Len(fifo[v])
             /\ Remains(fifo'[v][n], fifo[v][n + d[v]])
  <2>1. fifo[v] \in Seq(Requests) /\ Len(fifo[v]) \in Nat
    BY QueueTyped
  <2>2. CASE v = w
    <3>1. fifo'[v] = Tail(fifo[v]) /\ fifo[v] # <<>>
      BY <2>2 DEF QueuesOK
    <3>2. PICK q \in Seq(Requests) : q = fifo[v]
      BY <2>1
    <3>3. /\ Len(Tail(q)) = Len(q) - 1 /\ Len(q) \in Nat
          /\ \A k \in 1..(Len(q) - 1) : Tail(q)[k] = q[k + 1]
      BY <3>1, <3>2
    <3>4. n \in 1..(Len(q) - 1)
      BY <3>1, <3>2, <3>3
    <3>5. /\ n + 1 \in 1..Len(fifo[v])
          /\ fifo'[v][n] = fifo[v][n + 1]
      <4>1. n + 1 \in 1..Len(q)
        BY <3>3, <3>4
      <4>2. Tail(q)[n] = q[n + 1]
        BY <3>3, <3>4, Zenon
      <4> QED
        BY <4>1, <4>2, <3>1, <3>2, Zenon
    <3>6. d[v] = 1
      BY <2>2
    <3> QED
      BY <3>5, <3>6 DEF Remains
  <2>3. CASE v # w
    <3>1. fifo'[v] = fifo[v] /\ n + d[v] = n
      BY <2>1, <2>3 DEF QueuesOK
    <3> QED
      BY <3>1 DEF Remains
  <2> QED
    BY <2>2, <2>3
<1> HIDE DEF d
<1>3. Shrinks(d)
  BY <1>2 DEF Shrinks
<1> QED
  BY <1>1, <1>3

(* A worker gives up on its requests.                                      *)
LEMMA AbandonedShrinks ==
    ASSUME QueuesOK, NEW u \in Users,
           fifo' = [fifo EXCEPT ![WorkerOf[u]] = Abandoned(@, u)]
    PROVE  /\ \E d \in Shifts : Shrinks(d)
           /\ \A n \in 1..Len(fifo'[WorkerOf[u]]) :
                 fifo'[WorkerOf[u]][n].user # u
<1> USE RockConstants
<1> DEFINE d == [w \in Workers |-> 0]
<1>1. d \in Shifts
  BY DEF Shifts
<1>2. PICK w \in Workers : w = WorkerOf[u]
  OBVIOUS
<1>3. PICK q \in Seq(Requests) : q = fifo[w]
  BY QueueTyped
<1>4. fifo'[w] = Abandoned(q, u)
  BY <1>2, <1>3 DEF QueuesOK
<1>5. Len(q) \in Nat /\ DOMAIN Abandoned(q, u) = 1..Len(q)
  BY DEF Abandoned
<1>6. Len(fifo'[w]) = Len(q)
  BY <1>4, <1>5 DEF Abandoned
<1>7. ASSUME NEW n \in 1..Len(fifo'[w])
      PROVE  Remains(fifo'[w][n], q[n]) /\ fifo'[w][n].user # u
  <2>1. q[n] \in Requests /\ n \in 1..Len(q)
    BY <1>6
  <2>2. fifo'[w][n] = IF q[n].user = u THEN [q[n] EXCEPT !.user = None]
                                       ELSE q[n]
    BY <1>4, <2>1 DEF Abandoned
  <2>3. PICK o \in Requests : o = q[n]
    BY <2>1
  <2>4. CASE o.user = u
    <3>1. fifo'[w][n] = [o EXCEPT !.user = None]
      BY <2>2, <2>3, <2>4
    <3>2. PICK r : r = [o EXCEPT !.user = None]
      OBVIOUS
    <3>3. /\ r.kind = o.kind /\ r.cell = o.cell /\ r.data = o.data
          /\ r.user = None
      BY <3>2 DEF Requests
    <3>4. fifo'[w][n] = r /\ None # u
      BY <3>1, <3>2
    <3> QED
      BY <3>3, <3>4, <2>3, Zenon DEF Remains
  <2>5. CASE o.user # u
    BY <2>2, <2>3, <2>5 DEF Remains
  <2> QED
    BY <2>4, <2>5
<1>8. ASSUME NEW v \in Workers, NEW n \in 1..Len(fifo'[v])
      PROVE  /\ n + d[v] \in 1..Len(fifo[v])
             /\ Remains(fifo'[v][n], fifo[v][n + d[v]])
  <2>1. fifo[v] \in Seq(Requests) /\ Len(fifo[v]) \in Nat
    BY QueueTyped
  <2>2. CASE v = w
    <3>1. n + d[v] = n /\ n \in 1..Len(q)
      BY <2>2, <1>6, <1>5
    <3> QED
      BY <3>1, <2>2, <1>7, <1>3
  <2>3. CASE v # w
    <3>1. fifo'[v] = fifo[v] /\ n + d[v] = n
      BY <2>1, <2>3, <1>2 DEF QueuesOK
    <3> QED
      BY <3>1 DEF Remains
  <2> QED
    BY <2>2, <2>3
<1> HIDE DEF d
<1>9. Shrinks(d)
  BY <1>8 DEF Shrinks
<1> QED
  BY <1>1, <1>2, <1>7, <1>9

(* Requests that remain are still told apart.                              *)
LEMMA ShrinksApart ==
    ASSUME QueuesOK, UsersApart, VersionsApart,
           NEW d \in Shifts, Shrinks(d)
    PROVE  UsersApart' /\ VersionsApart'
<1>1. ASSUME NEW w \in Workers, NEW n \in 1..Len(fifo'[w])
      PROVE  /\ n \in Int /\ d[w] \in Int /\ n + d[w] \in 1..Len(fifo[w])
             /\ Remains(fifo'[w][n], fifo[w][n + d[w]])
  <2>1. d[w] \in {0, 1} /\ n \in Int
    BY DEF Shifts
  <2> QED
    BY <2>1 DEF Shrinks
<1>2. UsersApart'
  <2> SUFFICES ASSUME NEW w \in Workers, NEW n \in 1..Len(fifo'[w]),
                      NEW k \in 1..Len(fifo'[w]), n # k,
                      fifo'[w][n].user # None
               PROVE  fifo'[w][n].user # fifo'[w][k].user
    BY DEF UsersApart, Workers
  <2>1. PICK a \in 1..Len(fifo[w]) :
           a = n + d[w] /\ Remains(fifo'[w][n], fifo[w][a])
    BY <1>1
  <2>2. PICK b \in 1..Len(fifo[w]) :
           b = k + d[w] /\ Remains(fifo'[w][k], fifo[w][b])
    BY <1>1
  <2>3. a # b
    <3>1. n \in Int /\ k \in Int /\ d[w] \in Int
      BY <1>1
    <3> QED
      BY <3>1, <2>1, <2>2
  <2> QED
    BY <2>1, <2>2, <2>3, ZenonT(30) DEF UsersApart, Remains
<1>3. VersionsApart'
  <2> SUFFICES ASSUME NEW v \in Workers, NEW w \in Workers,
                      NEW n \in 1..Len(fifo'[v]),
                      NEW k \in 1..Len(fifo'[w]),
                      fifo'[v][n].kind = "write", fifo'[w][k].kind = "write",
                      fifo'[v][n].cell = fifo'[w][k].cell,
                      fifo'[v][n].data.ver = fifo'[w][k].data.ver
               PROVE  v = w /\ n = k
    BY DEF VersionsApart, Workers
  <2>1. PICK a \in 1..Len(fifo[v]) :
           a = n + d[v] /\ Remains(fifo'[v][n], fifo[v][a])
    BY <1>1
  <2>2. PICK b \in 1..Len(fifo[w]) :
           b = k + d[w] /\ Remains(fifo'[w][k], fifo[w][b])
    BY <1>1
  <2>3. v = w /\ a = b
    BY <2>1, <2>2, ZenonT(30) DEF VersionsApart, Remains
  <2>4. n = k
    <3>1. n \in Int /\ k \in Int /\ d[w] \in Int
      BY <1>1
    <3> QED
      BY <3>1, <2>1, <2>2, <2>3
  <2> QED
    BY <2>3, <2>4
<1> QED
  BY <1>2, <1>3

(* Requests that remain are still waited for, if those who wait did not    *)
(* change.                                                                 *)
LEMMA ShrinksQueued ==
    ASSUME RockTypeOK, AllQueued, NEW d \in Shifts, Shrinks(d),
           writes' \in {writes, writes + 1},
           \A w \in Workers : \A n \in 1..Len(fifo'[w]) :
              \A x \in Users : fifo'[w][n].user = x =>
                 /\ pc'[x] = pc[x] /\ key'[x] = key[x]
                 /\ sees'[x] = sees[x] /\ reply'[x] = reply[x]
    PROVE  AllQueued'
<1> USE RockConstants
<1>1. QueuesOK /\ FilesOK
  BY RockTypeParts
<1> SUFFICES ASSUME NEW w \in Workers, NEW n \in 1..Len(fifo'[w])
             PROVE  Queued(w, fifo[w][n])'
  BY DEF AllQueued, Workers
<1>2. PICK k \in 1..Len(fifo[w]) : Remains(fifo'[w][n], fifo[w][k])
  BY DEF Shrinks
<1>3. PICK o \in Requests : o = fifo[w][k]
  BY <1>1, QueueTyped
<1>4. PICK r : r = fifo'[w][n]
  OBVIOUS
<1>5. Queued(w, o)
  BY <1>3 DEF AllQueued
<1>6. /\ r.kind = o.kind /\ r.cell = o.cell /\ r.data = o.data
      /\ r.user = o.user \/ r.user = None
  BY <1>2, <1>3, <1>4 DEF Remains
<1>7. o.user \in Users \cup {None}
  BY DEF Requests
<1>8. \A x \in Nat : x <= writes => x <= writes'
  BY <1>1 DEF FilesOK
<1>9. r.kind = "write" => r.data \in Contents /\ r.data.ver <= writes'
  <2> HAVE r.kind = "write"
  <2>1. o.data \in Contents /\ o.data.ver <= writes
    BY <1>5, <1>6 DEF Queued
  <2>2. o.data.ver \in Nat
    BY <2>1 DEF Contents
  <2> QED
    BY <2>1, <2>2, <1>6, <1>8
<1>10. ASSUME r.user # None
       PROVE  /\ WorkerOf[r.user] = w /\ r.cell = CellOf(r.user)'
              /\ reply'[r.user] = NoReply
              /\ r.kind = "read" => pc'[r.user] = "reading"
              /\ r.kind = "write" =>
                    /\ pc'[r.user] = "writing"
                    /\ r.data = Content(key'[r.user], sees'[r.user])
  <2>1. PICK x \in Users : x = r.user /\ x = o.user
    BY <1>6, <1>7, <1>10
  <2>2. /\ pc'[x] = pc[x] /\ key'[x] = key[x]
        /\ sees'[x] = sees[x] /\ reply'[x] = reply[x]
    BY <2>1, <1>4
  <2>3. /\ WorkerOf[x] = w /\ r.cell = HashOf[key[x]]
        /\ reply[x] = NoReply
        /\ r.kind = "read" => pc[x] = "reading"
        /\ r.kind = "write" =>
              /\ pc[x] = "writing"
              /\ r.data = Content(key[x], sees[x])
    BY <2>1, <1>5, <1>6, <1>10 DEF Queued, CellOf
  <2> QED
    BY <2>1, <2>2, <2>3 DEF CellOf
<1> QED
  BY <1>4, <1>9, <1>10 DEF Queued, CellOf

(* Writes that remain are still out of date for the writer of their cell.  *)
LEMMA ShrinksOld ==
    ASSUME RockTypeOK, OldWrites, NEW d \in Shifts, Shrinks(d),
           NEW u \in Users,
           pc'[u] \in Writing =>
              /\ pc[u] \in Writing /\ key'[u] = key[u] /\ sees'[u] = sees[u]
              /\ pc'[u] = "filling" => pc[u] = "filling"
              /\ reply'[u].outcome = "ok" => reply[u].outcome = "ok"
    PROVE  pc'[u] \in Writing =>
              \A w \in Workers : \A n \in 1..Len(fifo'[w]) :
                 Outdates(u, fifo[w][n])'
<1> SUFFICES ASSUME pc'[u] \in Writing,
                    NEW w \in Workers, NEW n \in 1..Len(fifo'[w])
             PROVE  Outdates(u, fifo[w][n])'
  OBVIOUS
<1>1. PICK k \in 1..Len(fifo[w]) : Remains(fifo'[w][n], fifo[w][k])
  BY DEF Shrinks
<1>2. PICK o : o = fifo[w][k]
  OBVIOUS
<1>3. PICK r : r = fifo'[w][n]
  OBVIOUS
<1>4. /\ r.kind = o.kind /\ r.cell = o.cell /\ r.data = o.data
  BY <1>1, <1>2, <1>3 DEF Remains
<1>5. Outdates(u, o)
  BY <1>2 DEF OldWrites
<1> QED
  BY <1>3, <1>4, <1>5 DEF Outdates, CellOf

(* A request that is queued at last is the only one of its user; a write   *)
(* is newer than every other one to its cell.                              *)
Appended(w, m) ==
    /\ fifo[w] \in Seq(Requests) /\ m \in Requests
    /\ fifo' = [fifo EXCEPT ![w] = Append(fifo[w], m)]

(* Where the requests are once m is queued at the end of w's FIFO.         *)
LEMMA AppendedPlaces ==
    ASSUME QueuesOK, NEW w \in Workers, NEW m, Appended(w, m)
    PROVE  /\ Len(fifo'[w]) = Len(fifo[w]) + 1
           /\ fifo'[w][Len(fifo[w]) + 1] = m
           /\ \A n \in 1..Len(fifo[w]) : fifo'[w][n] = fifo[w][n]
           /\ \A v \in Workers \ {w} : fifo'[v] = fifo[v]
           /\ \A v \in Workers : \A n \in 1..Len(fifo'[v]) :
                 \/ v = w /\ n = Len(fifo[w]) + 1 /\ fifo'[v][n] = m
                 \/ n \in 1..Len(fifo[v]) /\ fifo'[v][n] = fifo[v][n]
<1>1. PICK q \in Seq(Requests) : q = fifo[w]
  BY DEF Appended
<1>2. /\ Len(Append(q, m)) = Len(q) + 1 /\ Append(q, m)[Len(q) + 1] = m
      /\ \A n \in 1..Len(q) : Append(q, m)[n] = q[n]
      /\ Len(q) \in Nat
  BY DEF Appended
<1>3. fifo'[w] = Append(q, m)
  BY <1>1 DEF Appended, QueuesOK
<1>4. \A v \in Workers \ {w} : fifo'[v] = fifo[v]
  BY DEF Appended, QueuesOK
<1>5. ASSUME NEW n \in 1..Len(fifo'[w])
      PROVE  \/ n = Len(q) + 1 /\ fifo'[w][n] = m
             \/ n \in 1..Len(q) /\ fifo'[w][n] = q[n]
  <2>1. n = Len(q) + 1 \/ n \in 1..Len(q)
    BY <1>2, <1>3
  <2> QED
    BY <2>1, <1>2, <1>3
<1> QED
  BY <1>1, <1>2, <1>3, <1>4, <1>5

(* What the disker takes: no other request has its user.                   *)
LEMMA HeadGone ==
    ASSUME RockTypeOK, AllQueued, UsersApart, NEW w \in Workers,
           fifo[w] # <<>>, fifo' = [fifo EXCEPT ![w] = Tail(@)],
           NEW d \in Shifts, Shrinks(d), d[w] = 1
    PROVE  /\ 1 \in 1..Len(fifo[w]) /\ Head(fifo[w]) = fifo[w][1]
           /\ Head(fifo[w]) \in Requests /\ Queued(w, Head(fifo[w]))
           /\ \A v \in Workers : \A n \in 1..Len(fifo'[v]) :
                 /\ n + d[v] \in 1..Len(fifo[v])
                 /\ v = w => n + d[v] # 1
                 /\ \A x \in Users : fifo'[v][n].user = x =>
                       x # Head(fifo[w]).user
<1> USE RockConstants
<1>1. QueuesOK
  BY RockTypeParts
<1>2. /\ 1 \in 1..Len(fifo[w]) /\ Head(fifo[w]) = fifo[w][1]
      /\ Head(fifo[w]) \in Requests
  BY <1>1, QueueTyped
<1>3. PICK m \in Requests : m = Head(fifo[w])
  BY <1>2
<1>4. Queued(w, m)
  BY <1>2, <1>3 DEF AllQueued
<1>5. ASSUME NEW v \in Workers, NEW n \in 1..Len(fifo'[v])
      PROVE  /\ n + d[v] \in 1..Len(fifo[v])
             /\ v = w => n + d[v] # 1
             /\ \A x \in Users : fifo'[v][n].user = x => x # m.user
  <2>1. PICK k \in 1..Len(fifo[v]) :
           k = n + d[v] /\ Remains(fifo'[v][n], fifo[v][k])
    BY DEF Shrinks
  <2>2. v = w => k # 1
    BY <2>1
  <2>3. ASSUME NEW x \in Users, fifo'[v][n].user = x, x = m.user
        PROVE  FALSE
    <3>1. fifo[v][k].user = x /\ x # None
      BY <2>1, <2>3 DEF Remains
    <3>2. PICK o : o = fifo[v][k]
      OBVIOUS
    <3>3. Queued(v, o)
      BY <3>2 DEF AllQueued
    <3>4. v = w
      BY <3>1, <3>2, <3>3, <2>3, <1>4 DEF Queued
    <3>5. fifo[w][k].user # fifo[w][1].user
      BY <3>1, <3>4, <2>2, <1>2, <2>1 DEF UsersApart
    <3> QED
      BY <3>1, <3>4, <3>5, <2>3, <1>2, <1>3
  <2> QED
    BY <2>1, <2>2, <2>3
<1> QED
  BY <1>2, <1>3, <1>4, <1>5

(* The primed VersionsApart, spelled out.                                  *)
LEMMA VersionsApartNext ==
    ASSUME \A v, w \in Workers :
              \A n \in 1..Len(fifo'[v]), k \in 1..Len(fifo'[w]) :
                 (/\ fifo'[v][n].kind = "write" /\ fifo'[w][k].kind = "write"
                  /\ fifo'[v][n].cell = fifo'[w][k].cell
                  /\ fifo'[v][n].data.ver = fifo'[w][k].data.ver)
                     => v = w /\ n = k
    PROVE  VersionsApart'
BY DEF VersionsApart, Workers

(* A user who has no request queues one.                                   *)
LEMMA PushStep ==
    ASSUME RockTypeOK, WritersHold, ReadersHold, AnswersWanted,
           AllQueued, UsersApart, VersionsApart, OldWrites,
           NEW u \in Users, NEW kind, NEW data, Push(u, kind, data),
           UNCHANGED <<key, sees, writes>>,
           \A v \in Users \ {u} : pc'[v] = pc[v],
           \/ /\ kind = "read" /\ data = None
              /\ pc[u] = "open" /\ pc'[u] = "reading"
           \/ /\ kind = "write" /\ data = Content(key[u], sees[u])
              /\ pc[u] = "filling" /\ pc'[u] = "writing"
    PROVE  AllQueued' /\ UsersApart' /\ VersionsApart' /\ OldWrites'
<1> USE RockConstants
<1>1. QueuesOK /\ FilesOK /\ UsersOK
  BY RockTypeParts
<1>2. PICK w \in Workers : w = WorkerOf[u]
  OBVIOUS
<1>3. reply[u] = NoReply /\ key[u] \in Keys /\ CellOf(u) \in Cells
  <2>1. reply[u] = NoReply
    BY DEF AnswersWanted
  <2>2. key[u] \in Keys
    BY DEF WritersHold, ReadersHold, Writing, Reading
  <2> QED
    BY <2>1, <2>2 DEF CellOf
<1>4. \A v \in Workers : \A n \in 1..Len(fifo[v]) :
         fifo[v][n] \in Requests /\ fifo[v][n].user # u
  <2> TAKE v \in Workers
  <2> TAKE n \in 1..Len(fifo[v])
  <2>1. PICK o \in Requests : o = fifo[v][n]
    BY <1>1, QueueTyped
  <2>2. Queued(v, o)
    BY <2>1 DEF AllQueued
  <2>3. o.kind \in {"read", "write"} /\ u # None
    BY DEF Requests
  <2>4. o.user # u
    BY <2>2, <2>3 DEF Queued
  <2> QED
    BY <2>1, <2>4
<1>5. sees[u] \in Nat /\ sees[u] \in Versions
  BY <1>1 DEF UsersOK
<1>6. ASSUME UNCHANGED fifo, reply' = [reply EXCEPT ![u] = Failed]
      PROVE  AllQueued' /\ UsersApart' /\ VersionsApart' /\ OldWrites'
  <2>1. PICK d \in Shifts : Shrinks(d)
    BY <1>1, <1>6, UnchangedShrinks
  <2>2. UsersApart' /\ VersionsApart'
    BY <2>1, <1>1, ShrinksApart
  <2>3. \A v \in Users \ {u} : reply'[v] = reply[v]
    BY <1>6, <1>1 DEF UsersOK
  <2>4. reply'[u].outcome = "error"
    BY <1>6, <1>1 DEF UsersOK, Failed, Reply
  <2>5. AllQueued'
    <3>1. \A v \in Workers : \A n \in 1..Len(fifo'[v]) :
             \A x \in Users : fifo'[v][n].user = x =>
                /\ pc'[x] = pc[x] /\ key'[x] = key[x]
                /\ sees'[x] = sees[x] /\ reply'[x] = reply[x]
      BY <2>3, <1>4, <1>6
    <3> QED
      BY <3>1, <2>1, ShrinksQueued
  <2>6. OldWrites'
    <3>1. ASSUME NEW v \in Users
          PROVE  pc'[v] \in Writing =>
              /\ pc[v] \in Writing /\ key'[v] = key[v] /\ sees'[v] = sees[v]
              /\ pc'[v] = "filling" => pc[v] = "filling"
              /\ reply'[v].outcome = "ok" => reply[v].outcome = "ok"
      BY <2>3, <2>4 DEF Writing
    <3>2. \A v \in Users : pc'[v] \in Writing =>
             \A x \in Workers : \A n \in 1..Len(fifo'[x]) :
                 Outdates(v, fifo[x][n])'
      BY <3>1, <2>1, ShrinksOld
    <3> QED
      BY <3>2 DEF OldWrites, Workers
  <2> QED
    BY <2>2, <2>5, <2>6
<1> DEFINE m == [kind |-> kind, user |-> u, cell |-> CellOf(u),
                 data |-> data]
<1>7. /\ m \in Requests
      /\ m.kind = kind /\ m.user = u /\ m.cell = CellOf(u) /\ m.data = data
      /\ kind = "write" => data \in Contents /\ data.ver = sees[u]
  BY <1>3, <1>5, ContentFacts DEF Requests
<1> HIDE DEF m
<1>8. ASSUME fifo' = [fifo EXCEPT ![w] = Append(fifo[w], m)],
             UNCHANGED reply
      PROVE  AllQueued' /\ UsersApart' /\ VersionsApart' /\ OldWrites'
  <2>1. Appended(w, m)
    BY <1>7, <1>8, <1>1, QueueTyped DEF Appended
  <2>2. \A v \in Workers : \A n \in 1..Len(fifo'[v]) :
           \/ v = w /\ n = Len(fifo[w]) + 1 /\ fifo'[v][n] = m
           \/ n \in 1..Len(fifo[v]) /\ fifo'[v][n] = fifo[v][n]
    BY <2>1, <1>1, AppendedPlaces
  <2>3. AllQueued'
    <3> SUFFICES ASSUME NEW v \in Workers, NEW n \in 1..Len(fifo'[v])
                 PROVE  Queued(v, fifo[v][n])'
      BY DEF AllQueued, Workers
    <3>1. CASE v = w /\ fifo'[v][n] = m
      <4>1. m.kind = "write" => m.data \in Contents /\ m.data.ver <= writes'
        <5> HAVE m.kind = "write"
        <5>1. sees[u] <= writes
          BY <1>7 DEF WritersHold, Writing
        <5> QED
          BY <5>1, <1>7
      <4>2. /\ WorkerOf[m.user] = v /\ m.cell = CellOf(m.user)
            /\ reply[m.user] = NoReply
            /\ m.kind = "read" => pc'[m.user] = "reading"
            /\ m.kind = "write" =>
                  /\ pc'[m.user] = "writing"
                  /\ m.data = Content(key[m.user], sees[m.user])
        BY <3>1, <1>2, <1>3, <1>7
      <4> QED
        BY <4>1, <4>2, <3>1, <1>8 DEF Queued, CellOf
    <3>2. CASE n \in 1..Len(fifo[v]) /\ fifo'[v][n] = fifo[v][n]
      <4>1. PICK o \in Requests : o = fifo[v][n] /\ o.user # u
        BY <3>2, <1>4
      <4>2. Queued(v, o)
        BY <3>2, <4>1 DEF AllQueued
      <4>3. o.user \in Users \cup {None}
        BY DEF Requests
      <4>4. o.user # None => pc'[o.user] = pc[o.user]
        BY <4>1, <4>3
      <4>5. fifo'[v][n] = o
        BY <3>2, <4>1
      <4> QED
        BY <4>2, <4>4, <4>5, <1>8 DEF Queued, CellOf
    <3> QED
      BY <2>2, <3>1, <3>2
  <2>4. UsersApart'
    <3> SUFFICES ASSUME NEW v \in Workers, NEW n \in 1..Len(fifo'[v]),
                        NEW k \in 1..Len(fifo'[v]), n # k,
                        fifo'[v][n].user # None
                 PROVE  fifo'[v][n].user # fifo'[v][k].user
      BY DEF UsersApart, Workers
    <3>1. /\ \/ n = Len(fifo[w]) + 1 /\ fifo'[v][n].user = u
             \/ n \in 1..Len(fifo[v]) /\ fifo'[v][n] = fifo[v][n]
          /\ \/ k = Len(fifo[w]) + 1 /\ fifo'[v][k].user = u
             \/ k \in 1..Len(fifo[v]) /\ fifo'[v][k] = fifo[v][k]
      BY <2>2, <1>7
    <3>2. CASE /\ n \in 1..Len(fifo[v]) /\ fifo'[v][n] = fifo[v][n]
               /\ k \in 1..Len(fifo[v]) /\ fifo'[v][k] = fifo[v][k]
      BY <3>2 DEF UsersApart
    <3>3. CASE fifo'[v][n].user = u /\ fifo'[v][k].user # u
      BY <3>3
    <3>4. CASE fifo'[v][n].user # u /\ fifo'[v][k].user = u
      BY <3>4
    <3> QED
      BY <3>1, <3>2, <3>3, <3>4, <1>4
  <2>5. ASSUME kind = "write", NEW v \in Workers,
               NEW n \in 1..Len(fifo[v]), fifo[v][n].kind = "write",
               fifo[v][n].cell = CellOf(u)
        PROVE  fifo[v][n].data.ver <= sees[u]
                  /\ fifo[v][n].data.ver # sees[u]
    BY <2>5 DEF OldWrites, Outdates, Writing
  <2>6. ASSUME NEW v \in Workers, NEW x \in Workers,
               NEW n \in 1..Len(fifo'[v]), NEW k \in 1..Len(fifo'[x]),
               /\ fifo'[v][n].kind = "write" /\ fifo'[x][k].kind = "write"
               /\ fifo'[v][n].cell = fifo'[x][k].cell
               /\ fifo'[v][n].data.ver = fifo'[x][k].data.ver
        PROVE  v = x /\ n = k
    <3>1. /\ \/ v = w /\ n = Len(fifo[w]) + 1 /\ fifo'[v][n] = m
             \/ n \in 1..Len(fifo[v]) /\ fifo'[v][n] = fifo[v][n]
          /\ \/ x = w /\ k = Len(fifo[w]) + 1 /\ fifo'[x][k] = m
             \/ k \in 1..Len(fifo[x]) /\ fifo'[x][k] = fifo[x][k]
      BY <2>2
    <3>2. CASE /\ n \in 1..Len(fifo[v]) /\ fifo'[v][n] = fifo[v][n]
               /\ k \in 1..Len(fifo[x]) /\ fifo'[x][k] = fifo[x][k]
      BY <3>2, <2>6 DEF VersionsApart
    <3>3. CASE /\ n \in 1..Len(fifo[v]) /\ fifo'[v][n] = fifo[v][n]
               /\ fifo'[x][k] = m
      <4>1. kind = "write" /\ fifo[v][n].cell = CellOf(u)
        BY <3>3, <2>6, <1>7
      <4>2. fifo[v][n].data.ver # sees[u]
        BY <4>1, <3>3, <2>5, <2>6
      <4> QED
        BY <4>1, <4>2, <3>3, <2>6, <1>7
    <3>4. CASE /\ k \in 1..Len(fifo[x]) /\ fifo'[x][k] = fifo[x][k]
               /\ fifo'[v][n] = m
      <4>1. kind = "write" /\ fifo[x][k].cell = CellOf(u)
        BY <3>4, <2>6, <1>7
      <4>2. fifo[x][k].data.ver # sees[u]
        BY <4>1, <3>4, <2>5, <2>6
      <4> QED
        BY <4>1, <4>2, <3>4, <2>6, <1>7
    <3> QED
      BY <3>1, <3>2, <3>3, <3>4
  <2>7. VersionsApart'
    BY <2>6, VersionsApartNext
  <2>8. OldWrites'
    <3> SUFFICES ASSUME NEW v \in Users, pc'[v] \in Writing,
                        NEW x \in Workers, NEW n \in 1..Len(fifo'[x])
                 PROVE  Outdates(v, fifo[x][n])'
      BY DEF OldWrites, Workers
    <3>1. /\ pc[v] \in Writing
          /\ pc'[v] = "filling" => pc[v] = "filling"
      BY DEF Writing
    <3>2. CASE fifo'[x][n] = m
      <4>1. ASSUME m.kind = "write", m.cell = CellOf(v)
            PROVE  v = u
        <5>1. pc[u] \in Writing
          BY <4>1, <1>7 DEF Writing
        <5>2. /\ slot[CellOf(u)].writer = u /\ slot[CellOf(v)].writer = v
              /\ CellOf(u) = CellOf(v)
          BY <5>1, <3>1, <4>1, <1>7 DEF WritersHold
        <5> QED
          BY <5>2, Zenon
      <4>2. reply[u].outcome # "ok"
        BY <1>3 DEF NoReply, Reply
      <4>3. ASSUME m.kind = "write"
            PROVE  pc'[u] # "filling" /\ m.data.ver <= sees[u]
        BY <4>3, <1>5, <1>7
      <4>4. (m.kind = "write" /\ m.cell = CellOf(v)) =>
               /\ m.data.ver <= sees[v]
               /\ (pc'[v] = "filling" \/ reply[v].outcome = "ok")
                     => m.data.ver # sees[v]
        BY <4>1, <4>2, <4>3
      <4> QED
        BY <4>4, <3>2, <1>8 DEF Outdates, CellOf
    <3>3. CASE n \in 1..Len(fifo[x]) /\ fifo'[x][n] = fifo[x][n]
      <4>1. Outdates(v, fifo[x][n])
        BY <3>1, <3>3 DEF OldWrites
      <4> QED
        BY <4>1, <3>1, <3>3, <1>8 DEF Outdates, CellOf
    <3> QED
      BY <2>2, <3>2, <3>3
  <2> QED
    BY <2>3, <2>4, <2>7, <2>8
<1> QED
  BY <1>2, <1>6, <1>8 DEF Push, m

QueueOK == AllQueued /\ UsersApart /\ VersionsApart /\ OldWrites

(* Steps that only shrink the FIFOs keep order in them, if nobody who has  *)
(* a request changes and no writer has reason to believe more.             *)
LEMMA ShrinksOK ==
    ASSUME RockTypeOK, QueueOK, NEW d \in Shifts, Shrinks(d),
           writes' \in {writes, writes + 1},
           \A w \in Workers : \A n \in 1..Len(fifo'[w]) :
              \A x \in Users : fifo'[w][n].user = x =>
                 /\ pc'[x] = pc[x] /\ key'[x] = key[x]
                 /\ sees'[x] = sees[x] /\ reply'[x] = reply[x],
           \A u \in Users : pc'[u] \in Writing =>
              \/ /\ pc[u] \in Writing
                 /\ key'[u] = key[u] /\ sees'[u] = sees[u]
                 /\ pc'[u] = "filling" => pc[u] = "filling"
                 /\ reply'[u].outcome = "ok" => reply[u].outcome = "ok"
              \/ \A w \in Workers : \A n \in 1..Len(fifo'[w]) :
                    Outdates(u, fifo[w][n])'
    PROVE  QueueOK'
<1>1. QueuesOK
  BY RockTypeParts
<1>2. UsersApart' /\ VersionsApart'
  BY <1>1, ShrinksApart DEF QueueOK
<1>3. AllQueued'
  BY ShrinksQueued DEF QueueOK
<1>4. \A u \in Users : pc'[u] \in Writing =>
         \A w \in Workers : \A n \in 1..Len(fifo'[w]) :
             Outdates(u, fifo[w][n])'
  BY ShrinksOld DEF QueueOK
<1>5. OldWrites'
  BY <1>4 DEF OldWrites, Workers
<1> QED
  BY <1>2, <1>3, <1>5 DEF QueueOK

(* The FIFOs stay in order.                                                *)
LEMMA QueueStep ==
    ASSUME RockTypeOK, WritersHold, ReadersHold, AnswersWanted, QueueOK,
           RockNext
    PROVE  QueueOK'
<1> USE RockConstants
<1>1. UsersOK /\ QueuesOK /\ FilesOK
  BY RockTypeParts
<1>2. AllQueued /\ UsersApart /\ VersionsApart /\ OldWrites
  BY DEF QueueOK
<1>3. \A w \in Workers : \A n \in 1..Len(fifo[w]) : \A x \in Users :
         fifo[w][n].user = x =>
             /\ pc[x] \in {"reading", "writing"} /\ reply[x] = NoReply
             /\ WorkerOf[x] = w
  <2> TAKE w \in Workers
  <2> TAKE n \in 1..Len(fifo[w])
  <2> TAKE x \in Users
  <2>1. PICK o \in Requests : o = fifo[w][n]
    BY <1>1, QueueTyped
  <2>2. Queued(w, o)
    BY <2>1, <1>2 DEF AllQueued
  <2>3. o.kind \in {"read", "write"} /\ x # None
    BY DEF Requests
  <2> QED
    BY <2>1, <2>2, <2>3 DEF Queued
<1> DEFINE Same(x) == /\ pc'[x] = pc[x] /\ key'[x] = key[x]
                      /\ sees'[x] = sees[x] /\ reply'[x] = reply[x]
           Humble(u) == pc'[u] \in Writing =>
                  /\ pc[u] \in Writing
                  /\ key'[u] = key[u] /\ sees'[u] = sees[u]
                  /\ pc'[u] = "filling" => pc[u] = "filling"
                  /\ reply'[u].outcome = "ok" => reply[u].outcome = "ok"
           Waits(u) == pc[u] \in {"reading", "writing"} /\ reply[u] = NoReply
<1>4. ASSUME UNCHANGED fifo, NEW u \in Users, ~Waits(u),
             \A v \in Users \ {u} : Same(v), Humble(u), UNCHANGED writes
      PROVE  QueueOK'
  <2>1. PICK d \in Shifts : Shrinks(d)
    BY <1>1, <1>4, UnchangedShrinks
  <2>2. \A w \in Workers : \A n \in 1..Len(fifo'[w]) :
           \A x \in Users : fifo'[w][n].user = x => Same(x)
    BY <1>3, <1>4
  <2>3. \A v \in Users : Humble(v)
    BY <1>4
  <2> QED
    BY <2>1, <2>2, <2>3, <1>4, ShrinksOK
<1>5. ASSUME UNCHANGED <<fifo, writes>>, \A v \in Users : Same(v)
      PROVE  QueueOK'
  <2>1. PICK d \in Shifts : Shrinks(d)
    BY <1>1, <1>5, UnchangedShrinks
  <2> QED
    BY <2>1, <1>5, ShrinksOK
<1>6. ASSUME NEW u \in Users, NEW k \in Keys, CreateStoreIO(u, k)
      PROVE  QueueOK'
  <2>1. /\ UNCHANGED <<fifo, reply>> /\ writes' = writes + 1
        /\ pc[u] = "none" /\ sees'[u] = writes + 1
    BY <1>6, <1>1 DEF CreateStoreIO, UsersOK
  <2>2. PICK d \in Shifts : Shrinks(d)
    BY <1>1, <2>1, UnchangedShrinks
  <2>3. \A v \in Users \ {u} : Same(v)
    BY <1>6, <1>1 DEF CreateStoreIO, Goes, UsersOK
  <2>4. \A w \in Workers : \A n \in 1..Len(fifo'[w]) :
           \A x \in Users : fifo'[w][n].user = x => Same(x)
    BY <2>1, <2>3, <1>3
  <2>5. ASSUME NEW w \in Workers, NEW n \in 1..Len(fifo'[w])
        PROVE  Outdates(u, fifo[w][n])'
    <3>1. PICK o \in Requests : o = fifo[w][n] /\ o = fifo'[w][n]
      BY <2>1, <1>1, QueueTyped
    <3>2. Queued(w, o)
      BY <3>1, <2>1, <1>2 DEF AllQueued
    <3>3. ASSUME o.kind = "write"
          PROVE  o.data.ver <= sees'[u] /\ o.data.ver # sees'[u]
      <4>1. o.data \in Contents /\ o.data.ver <= writes
        BY <3>2, <3>3 DEF Queued
      <4>2. o.data.ver \in Nat /\ writes \in Nat
        BY <4>1, <1>1 DEF Contents, FilesOK
      <4> QED
        BY <4>1, <4>2, <2>1
    <3> QED
      BY <3>1, <3>3 DEF Outdates
  <2> QED
    BY <2>1, <2>2, <2>3, <2>4, <2>5, ShrinksOK
<1>7. ASSUME NEW u \in Users, NEW k \in Keys, Get(u, k)
      PROVE  QueueOK'
  <2>1. UNCHANGED <<fifo, writes>> /\ pc[u] = "none" /\ pc'[u] = "open"
    BY <1>7, <1>1 DEF Get, Goes, UsersOK
  <2>2. \A v \in Users \ {u} : Same(v)
    BY <1>7, <1>1 DEF Get, Goes, UsersOK
  <2>3. ~Waits(u) /\ Humble(u)
    BY <2>1 DEF Writing
  <2> QED
    BY <2>1, <2>2, <2>3, <1>4
<1>8. ASSUME NEW u \in Users, CloseWriterGone(u)
      PROVE  QueueOK'
  <2>1. /\ UNCHANGED <<fifo, writes, key, sees, reply>>
        /\ pc[u] = "filling" /\ pc'[u] = "failed"
    BY <1>8, <1>1 DEF CloseWriterGone, Goes, UsersOK
  <2>2. \A v \in Users \ {u} : Same(v)
    BY <1>8, <1>1 DEF CloseWriterGone, Goes, UsersOK
  <2>3. ~Waits(u) /\ Humble(u)
    BY <2>1 DEF Writing
  <2> QED
    BY <2>1, <2>2, <2>3, <1>4
<1>9. ASSUME NEW u \in Users, WriteCompleted(u)
      PROVE  QueueOK'
  <2>1. /\ UNCHANGED <<fifo, writes, key, sees>> /\ reply'[u] = NoReply
        /\ pc[u] = "writing" /\ pc'[u] \in {"open", "failed"}
        /\ reply[u] # NoReply
    BY <1>9, <1>1 DEF WriteCompleted, Goes, UsersOK
  <2>2. \A v \in Users \ {u} : Same(v)
    BY <1>9, <1>1 DEF WriteCompleted, Goes, UsersOK
  <2>3. reply'[u].outcome # "ok"
    BY <2>1 DEF NoReply, Reply
  <2>4. ~Waits(u) /\ Humble(u)
    BY <2>1, <2>3 DEF Writing
  <2> QED
    BY <2>1, <2>2, <2>4, <1>4
<1>10. ASSUME NEW u \in Users, ReadCompleted(u)
       PROVE  QueueOK'
  <2>1. /\ UNCHANGED <<fifo, writes, key, sees>>
        /\ pc[u] = "reading" /\ pc'[u] = "open" /\ reply[u] # NoReply
    BY <1>10, <1>1 DEF ReadCompleted, Goes, UsersOK
  <2>2. \A v \in Users \ {u} : Same(v)
    BY <1>10, <1>1 DEF ReadCompleted, Goes, UsersOK
  <2>3. ~Waits(u) /\ Humble(u)
    BY <2>1 DEF Writing
  <2> QED
    BY <2>1, <2>2, <2>3, <1>4
<1>11. ASSUME NEW u \in Users, Unlink(u) \/ Disconnect(u)
       PROVE  QueueOK'
  <2>1. /\ UNCHANGED <<fifo, writes>>
        /\ pc[u] \in {"failed", "open"} /\ pc'[u] = "none"
    BY <1>11, <1>1 DEF Unlink, Disconnect, Forgets, Goes, UsersOK
  <2>2. \A v \in Users \ {u} : Same(v)
    BY <1>11, <1>1 DEF Unlink, Disconnect, Forgets, Goes, UsersOK
  <2>3. ~Waits(u) /\ Humble(u)
    BY <2>1 DEF Writing
  <2> QED
    BY <2>1, <2>2, <2>3, <1>4
<1>12. ASSUME NEW u \in Users, CloseWroteAll(u) \/ Read(u)
       PROVE  QueueOK'
  <2>1. UNCHANGED <<key, sees, writes>>
    BY <1>12 DEF CloseWroteAll, Read
  <2>2. \A v \in Users \ {u} : pc'[v] = pc[v]
    BY <1>12, <1>1 DEF CloseWroteAll, Read, Goes, UsersOK
  <2>3. \E kind, data :
           /\ Push(u, kind, data)
           /\ \/ /\ kind = "read" /\ data = None
                 /\ pc[u] = "open" /\ pc'[u] = "reading"
              \/ /\ kind = "write"
                 /\ data = Content(key[u], sees[u])
                 /\ pc[u] = "filling" /\ pc'[u] = "writing"
    BY <1>12, <1>1 DEF CloseWroteAll, Read, Goes, UsersOK
  <2> QED
    BY <2>1, <2>2, <2>3, <1>2, PushStep DEF QueueOK
<1>13. ASSUME NEW u \in Users, Timeout(u)
       PROVE  QueueOK'
  <2>1. /\ UNCHANGED <<pc, key, sees, writes>>
        /\ fifo' = [fifo EXCEPT ![WorkerOf[u]] = Abandoned(@, u)]
        /\ reply' = [reply EXCEPT ![u] = Failed]
    BY <1>13 DEF Timeout
  <2>2. PICK d \in Shifts : Shrinks(d)
    BY <1>1, <2>1, AbandonedShrinks
  <2>3. \A n \in 1..Len(fifo'[WorkerOf[u]]) :
           fifo'[WorkerOf[u]][n].user # u
    BY <1>1, <2>1, AbandonedShrinks
  <2>4. /\ \A v \in Users \ {u} : Same(v)
        /\ reply'[u].outcome = "error"
    BY <2>1, <1>1 DEF UsersOK, Failed, Reply
  <2>5. ASSUME NEW w \in Workers, NEW n \in 1..Len(fifo'[w])
        PROVE  fifo'[w][n].user # u
    <3>1. PICK k \in 1..Len(fifo[w]) : Remains(fifo'[w][n], fifo[w][k])
      BY <2>2 DEF Shrinks
    <3>2. CASE fifo'[w][n].user = u
      <4>1. fifo[w][k].user = u
        BY <3>1, <3>2 DEF Remains
      <4> QED
        BY <4>1, <2>3, <1>3
    <3> QED
      BY <3>2
  <2>6. \A w \in Workers : \A n \in 1..Len(fifo'[w]) :
           \A x \in Users : fifo'[w][n].user = x => Same(x)
    BY <2>4, <2>5
  <2>7. \A v \in Users : Humble(v)
    BY <2>1, <2>4
  <2> QED
    BY <2>1, <2>2, <2>6, <2>7, ShrinksOK
<1>14. ASSUME NEW w \in Workers, DiskerWrite(w) \/ DiskerRead(w)
       PROVE  QueueOK'
  <2>1. /\ UNCHANGED <<pc, key, sees, writes>> /\ fifo[w] # <<>>
        /\ fifo' = [fifo EXCEPT ![w] = Tail(@)]
    BY <1>14 DEF DiskerWrite, DiskerRead
  <2>2. PICK d \in Shifts : Shrinks(d) /\ d[w] = 1
    BY <1>1, <2>1, TailShrinks
  <2>3. /\ 1 \in 1..Len(fifo[w]) /\ Head(fifo[w]) = fifo[w][1]
        /\ Head(fifo[w]) \in Requests /\ Queued(w, Head(fifo[w]))
        /\ \A v \in Workers : \A n \in 1..Len(fifo'[v]) :
              /\ n + d[v] \in 1..Len(fifo[v])
              /\ v = w => n + d[v] # 1
              /\ \A x \in Users : fifo'[v][n].user = x =>
                    x # Head(fifo[w]).user
    BY <2>1, <2>2, <1>2, HeadGone
  <2>4. PICK m \in Requests : m = Head(fifo[w])
    BY <2>3
  <2>5. m.user \in Users \cup {None} /\ m.kind \in {"read", "write"}
    BY DEF Requests
  <2>6. Queued(w, m)
    BY <2>3, <2>4
  <2>7. \A v \in Users \ {m.user} : Same(v)
    <3>1. \A v \in Users \ {m.user} : reply'[v] = reply[v]
      BY <1>14, <2>4, <2>5, <1>1
      DEF DiskerWrite, DiskerRead, Answer, UsersOK
    <3> QED
      BY <3>1, <2>1
  <2>8. \A v \in Workers : \A n \in 1..Len(fifo'[v]) :
           \A x \in Users : fifo'[v][n].user = x => Same(x)
    BY <2>3, <2>4, <2>7
  <2>9. ASSUME m.user \in Users, pc'[m.user] \in Writing,
               NEW v \in Workers, NEW n \in 1..Len(fifo'[v])
        PROVE  Outdates(m.user, fifo[v][n])'
    <3>1. /\ m.kind = "write" /\ m.cell = CellOf(m.user)
          /\ m.data = Content(key[m.user], sees[m.user])
          /\ m.data.ver = sees[m.user]
      BY <2>1, <2>5, <2>6, <2>9 DEF Queued, Writing, Content
    <3>2. PICK k \in 1..Len(fifo[v]) :
             k = n + d[v] /\ Remains(fifo'[v][n], fifo[v][k])
      BY <2>2 DEF Shrinks
    <3>3. v = w => k # 1
      BY <3>2, <2>3
    <3>4. PICK o : o = fifo[v][k]
      OBVIOUS
    <3>5. Outdates(m.user, o)
      BY <3>4, <2>9, <2>1, <1>2 DEF OldWrites
    <3>6. (o.kind = "write" /\ o.cell = m.cell) => o.data.ver # m.data.ver
      <4>1. m = fifo[w][1] /\ 1 \in 1..Len(fifo[w]) /\ VersionsApart
        BY <2>3, <2>4, <1>2
      <4>2. ASSUME o.kind = "write", o.cell = m.cell,
                   o.data.ver = m.data.ver
            PROVE  v = w /\ k = 1
        BY <4>1, <4>2, <3>1, <3>4, Zenon DEF VersionsApart
      <4> QED
        BY <4>2, <3>3
    <3>7. PICK r : r = fifo'[v][n]
      OBVIOUS
    <3>8. r.kind = o.kind /\ r.cell = o.cell /\ r.data = o.data
      BY <3>2, <3>4, <3>7 DEF Remains
    <3> QED
      BY <3>1, <3>5, <3>6, <3>7, <3>8, <2>1 DEF Outdates, CellOf
  <2>10. \A v \in Users \ {m.user} : Humble(v)
    BY <2>7
  <2> QED
    BY <2>1, <2>2, <2>8, <2>9, <2>10, ShrinksOK, ZenonT(30)
<1>15. ASSUME DiskerRestart
       PROVE  QueueOK'
  <2>1. UNCHANGED writes /\ \A v \in Users : Same(v)
    BY <1>15 DEF DiskerRestart, users
  <2>2. PICK d \in Shifts : Shrinks(d)
    BY <1>15, <1>1, UnchangedShrinks, TailShrinks DEF DiskerRestart
  <2> QED
    BY <2>1, <2>2, ShrinksOK
<1>16. ASSUME DoOneEntry
       PROVE  QueueOK'
  BY <1>16, <1>5 DEF DoOneEntry, users
<1> QED
  BY <1>6, <1>7, <1>8, <1>9, <1>10, <1>11, <1>12, <1>13, <1>14, <1>15,
     <1>16
  DEF RockNext, WorkerStep

-----------------------------------------------------------------------------
(* Answers, the index and the db file                                      *)

(* Only who waits is answered.                                             *)
LEMMA AnswersStep ==
    ASSUME RockTypeOK, AnswersWanted, AllQueued, RockNext
    PROVE  AnswersWanted'
<1> USE RockConstants
<1>1. UsersOK /\ QueuesOK
  BY RockTypeParts
<1> DEFINE Wanted(v) ==
              /\ pc[v] \notin {"reading", "writing"} => reply[v] = NoReply
              /\ pc[v] \notin Reading => served[v] = None
           Same(v) == /\ pc'[v] = pc[v] /\ reply'[v] = reply[v]
                      /\ served'[v] = served[v]
<1>2. \A v \in Users : Wanted(v)
  BY DEF AnswersWanted
<1>3. ASSUME NEW u, \A v \in Users \ {u} : Same(v),
             u \in Users => Wanted(u)'
      PROVE  AnswersWanted'
  BY <1>2, <1>3 DEF AnswersWanted
<1>4. ASSUME NEW u \in Users,
             \/ \E k \in Keys : CreateStoreIO(u, k) \/ Get(u, k)
             \/ CloseWriterGone(u)
      PROVE  AnswersWanted'
  <2>1. \A v \in Users \ {u} : Same(v)
    BY <1>4, <1>1 DEF CreateStoreIO, Get, CloseWriterGone, Goes, UsersOK
  <2>2. /\ pc[u] \in {"none", "filling"}
        /\ reply'[u] = reply[u] /\ served'[u] = served[u]
    BY <1>4 DEF CreateStoreIO, Get, CloseWriterGone
  <2>3. reply[u] = NoReply /\ served[u] = None
    BY <2>2, <1>2 DEF Reading
  <2> QED
    BY <2>1, <2>2, <2>3, <1>3
<1>5. ASSUME NEW u \in Users, CloseWroteAll(u) \/ Read(u)
      PROVE  AnswersWanted'
  <2>1. \A v \in Users \ {u} : Same(v)
    BY <1>5, <1>1 DEF CloseWroteAll, Read, Push, Goes, UsersOK
  <2>2. /\ served'[u] = served[u]
        /\ \/ pc[u] = "filling" /\ pc'[u] = "writing"
           \/ pc[u] = "open" /\ pc'[u] = "reading"
    BY <1>5, <1>1 DEF CloseWroteAll, Read, Goes, UsersOK
  <2>3. Wanted(u)'
    BY <2>2, <1>2 DEF Reading
  <2> QED
    BY <2>1, <2>3, <1>3
<1>6. ASSUME NEW u \in Users, WriteCompleted(u) \/ ReadCompleted(u)
      PROVE  AnswersWanted'
  <2>1. \A v \in Users \ {u} : Same(v)
    BY <1>6, <1>1 DEF WriteCompleted, ReadCompleted, Goes, UsersOK
  <2>2. /\ reply'[u] = NoReply
        /\ \/ /\ pc[u] = "writing" /\ pc'[u] \in {"open", "failed"}
              /\ served'[u] = served[u]
           \/ pc'[u] = "open"
    BY <1>6, <1>1 DEF WriteCompleted, ReadCompleted, Goes, UsersOK
  <2>3. Wanted(u)'
    BY <2>2, <1>2 DEF Reading
  <2> QED
    BY <2>1, <2>3, <1>3
<1>7. ASSUME NEW u \in Users, Unlink(u) \/ Disconnect(u)
      PROVE  AnswersWanted'
  <2>1. \A v \in Users \ {u} : Same(v)
    BY <1>7, <1>1 DEF Unlink, Disconnect, Forgets, Goes, UsersOK
  <2>2. /\ pc[u] \in {"failed", "open"} /\ reply'[u] = reply[u]
        /\ served'[u] = None
    BY <1>7, <1>1 DEF Unlink, Disconnect, Forgets, Goes, UsersOK
  <2>3. Wanted(u)'
    BY <2>2, <1>2
  <2> QED
    BY <2>1, <2>3, <1>3
<1>8. ASSUME NEW u \in Users, Timeout(u)
      PROVE  AnswersWanted'
  <2>1. /\ \A v \in Users \ {u} : Same(v)
        /\ pc'[u] \in {"reading", "writing"} /\ served'[u] = served[u]
        /\ pc'[u] = pc[u]
    BY <1>8, <1>1 DEF Timeout, UsersOK
  <2>2. Wanted(u)'
    BY <2>1, <1>2
  <2> QED
    BY <2>1, <2>2, <1>3
<1>9. ASSUME NEW w \in Workers, DiskerWrite(w) \/ DiskerRead(w)
      PROVE  AnswersWanted'
  <2>1. fifo[w] # <<>>
    BY <1>9 DEF DiskerWrite, DiskerRead
  <2>2. PICK m \in Requests :
           m = Head(fifo[w]) /\ m = fifo[w][1] /\ 1 \in 1..Len(fifo[w])
    BY <2>1, <1>1, QueueTyped
  <2>3. Queued(w, m) /\ m.kind \in {"read", "write"}
    BY <2>2 DEF AllQueued, Requests
  <2>4. UNCHANGED <<pc, served>>
    BY <1>9 DEF DiskerWrite, DiskerRead
  <2>5. \A v \in Users \ {m.user} : Same(v)
    <3>1. \A v \in Users \ {m.user} : reply'[v] = reply[v]
      <4>1. PICK a : Answer(m.user, a)
        <5>1. CASE DiskerWrite(w)
          BY <5>1, <2>2 DEF DiskerWrite
        <5>2. CASE DiskerRead(w)
          BY <5>2, <2>2 DEF DiskerRead
        <5> QED
          BY <1>9, <5>1, <5>2
      <4> QED
        BY <4>1, <1>1 DEF Answer, UsersOK
    <3> QED
      BY <3>1, <2>4
  <2>6. m.user \in Users => Wanted(m.user)'
    <3> SUFFICES ASSUME NEW x \in Users, x = m.user
                 PROVE  Wanted(x)'
      OBVIOUS
    <3>1. pc[x] \in {"reading", "writing"}
      BY <2>3 DEF Queued
    <3>2. Wanted(x)
      BY <1>2
    <3> QED
      BY <3>1, <3>2, <2>4
  <2> QED
    BY <2>5, <2>6, <1>3
<1>10. ASSUME DiskerRestart \/ DoOneEntry
       PROVE  AnswersWanted'
  BY <1>10, <1>2 DEF DiskerRestart, DoOneEntry, users, AnswersWanted
<1> QED
  BY <1>4, <1>5, <1>6, <1>7, <1>8, <1>9, <1>10 DEF RockNext, WorkerStep

(* What a user was told and what a client was served.                      *)
Told(u) ==
    (reply[u].outcome = "ok" /\ CellOf(u) \notin spoilt) =>
        /\ pc[u] = "writing" =>
              disk[CellOf(u)] = Content(key[u], sees[u])
        /\ pc[u] = "reading" =>
              (reply[u].data.whole
                  => reply[u].data = Content(key[u], sees[u]))

Served(u) ==
    (served[u] # None /\ CellOf(u) \notin spoilt)
        => served[u] = Content(key[u], sees[u])

Described(c) ==
    (c \notin spoilt /\ slot[c].state = "Readable") =>
        disk[c] = Content(slot[c].key, slot[c].ver)

TruthOK ==
    /\ \A u \in Users : Told(u) /\ Served(u)
    /\ \A c \in Cells : Described(c)

(* Slot s says no more of its cell than o.                                 *)
SaysNoMore(o, s) ==
    s.state = "Readable" =>
        o.state = "Readable" /\ s.key = o.key /\ s.ver = o.ver

(* The calls of the map that add no claim.                                 *)
LEMMA NoNewClaims ==
    ASSUME NEW o, SlotOK(o), NEW u
    PROVE  /\ SaysNoMore(o, Marked(o))
           /\ SaysNoMore(o, [o EXCEPT !.readers = @ \cup {u}])
           /\ SaysNoMore(o, AbortedIo(o, u))
           /\ SaysNoMore(o, AbortedIo(Marked(o), u))
           /\ \A k, v : SaysNoMore(o, [Opened(o, u) EXCEPT !.key = k,
                                                           !.ver = v])
<1>1. o \in Slots
  BY DEF SlotOK
<1>2. SaysNoMore(o, Marked(o))
  BY <1>1 DEF SaysNoMore, Marked, Slots
<1>3. SaysNoMore(o, [o EXCEPT !.readers = @ \cup {u}])
  BY <1>1 DEF SaysNoMore, Slots
<1>4. SaysNoMore(o, AbortedIo(o, u))
  BY <1>1 DEF SaysNoMore, AbortedIo, Slots
<1>5. SaysNoMore(o, AbortedIo(Marked(o), u))
  <2>1. PICK a \in Slots : a = Marked(o)
    BY <1>1 DEF Marked, Slots
  <2>2. a.state = o.state /\ a.key = o.key /\ a.ver = o.ver
    BY <2>1, <1>1 DEF Marked, Slots
  <2>3. SaysNoMore(a, AbortedIo(a, u))
    BY DEF SaysNoMore, AbortedIo, Slots
  <2> QED
    BY <2>1, <2>2, <2>3 DEF SaysNoMore
<1>6. \A k, v : SaysNoMore(o, [Opened(o, u) EXCEPT !.key = k, !.ver = v])
  BY <1>1 DEF SaysNoMore, Opened, Slots
<1> QED
  BY <1>2, <1>3, <1>4, <1>5, <1>6

(* The index says what is on disk, the disker's answers are true, and      *)
(* clients are served what they were promised, in the next state too.      *)
LEMMA TruthStep ==
    ASSUME RockTypeOK, WritersHold, ReadersHold, AnswersWanted, QueueOK,
           TruthOK, RockNext
    PROVE  TruthOK'
<1> USE RockConstants
<1>1. IndexOK /\ UsersOK /\ QueuesOK /\ FilesOK
  BY RockTypeParts
<1>2. /\ \A u \in Users : WriterHolds(u) /\ ReaderHolds(u)
      /\ \A u \in Users : Told(u) /\ Served(u)
      /\ \A c \in Cells : Described(c)
  BY DEF WritersHold, ReadersHold, WriterHolds, ReaderHolds, TruthOK
<1>3. \A c \in Cells : SlotOK(slot[c])
  BY <1>1 DEF IndexOK
<1>4. \A u \in Users :
         /\ pc[u] \notin {"reading", "writing"} => reply[u] = NoReply
         /\ pc[u] \notin Reading => served[u] = None
  BY DEF AnswersWanted
<1>5. NoReply.outcome # "ok" /\ Failed.outcome # "ok"
  BY DEF NoReply, Failed, Reply
<1> DEFINE Same(v) == /\ pc'[v] = pc[v] /\ reply'[v] = reply[v]
                      /\ served'[v] = served[v] /\ key'[v] = key[v]
                      /\ sees'[v] = sees[v]
           Holder(v) == pc[v] \in Writing \cup Reading
<1>6. ASSUME NEW v \in Users, Same(v),
             (Holder(v) /\ CellOf(v) \notin spoilt') =>
                 /\ CellOf(v) \notin spoilt
                 /\ (pc[v] = "writing" /\ reply[v].outcome = "ok") =>
                       disk'[CellOf(v)] = disk[CellOf(v)]
      PROVE  Told(v)' /\ Served(v)'
  <2>1. CellOf(v)' = CellOf(v)
    BY <1>6 DEF CellOf
  <2>2. Told(v) /\ Served(v)
    BY <1>2
  <2>3. Told(v)'
    BY <2>1, <2>2, <1>6 DEF Told, Writing, Reading
  <2>4. Served(v)'
    <3>1. served[v] # None => Holder(v)
      BY <1>4
    <3> QED
      BY <3>1, <2>1, <2>2, <1>6 DEF Served
  <2> QED
    BY <2>3, <2>4
<1>7. ASSUME NEW c \in Cells, NEW s, slot' = [slot EXCEPT ![c] = s],
             SaysNoMore(slot[c], s) \/ Described(c)', UNCHANGED disk,
             spoilt' = spoilt \/ spoilt' = spoilt \ {c}
                \/ spoilt' = spoilt \cup {c},
             s.state # "Readable" \/ c \in spoilt' \/ spoilt' = spoilt
                \/ Described(c)'
      PROVE  \A x \in Cells : Described(x)'
  <2> TAKE x \in Cells
  <2>1. slot'[x] = IF x = c THEN s ELSE slot[x]
    BY <1>1, <1>7 DEF IndexOK
  <2>2. Described(x)
    BY <1>2
  <2>3. CASE x = c
    BY <2>1, <2>2, <2>3, <1>7 DEF Described, SaysNoMore
  <2>4. CASE x # c
    BY <2>1, <2>2, <2>4, <1>7 DEF Described
  <2> QED
    BY <2>3, <2>4
<1>8. ASSUME UNCHANGED <<slot, disk, spoilt>>
      PROVE  \A x \in Cells : Described(x)'
  BY <1>8, <1>2 DEF Described
<1>9. ASSUME NEW u \in Users, UNCHANGED <<disk, spoilt>>,
             \A v \in Users \ {u} : Same(v)
      PROVE  \A v \in Users \ {u} : Told(v)' /\ Served(v)'
  BY <1>6, <1>9
<1>10. ASSUME NEW u \in Users, NEW k \in Keys, CreateStoreIO(u, k)
       PROVE  TruthOK'
  <2> DEFINE c == HashOf[k]
             s == [Opened(slot[c], u) EXCEPT !.key = k, !.ver = writes + 1]
  <2>1. /\ c \in Cells /\ slot' = [slot EXCEPT ![c] = s]
        /\ Unlocked(slot[c]) /\ UNCHANGED disk /\ spoilt' = spoilt \ {c}
    BY <1>10 DEF CreateStoreIO
  <2>2. /\ \A v \in Users \ {u} : Same(v)
        /\ pc[u] = "none" /\ pc'[u] = "filling" /\ served'[u] = served[u]
    BY <1>10, <1>1 DEF CreateStoreIO, Goes, UsersOK
  <2>3. SaysNoMore(slot[c], s) /\ s.state # "Readable"
    <3>1. slot[c] \in Slots
      BY <2>1, <1>1 DEF IndexOK
    <3>2. s.state = "Writeable"
      BY <3>1 DEF Slots, Opened
    <3> QED
      BY <3>2 DEF SaysNoMore
  <2> HIDE DEF s
  <2>4. \A x \in Cells : Described(x)'
    BY <2>1, <2>3, <1>7
  <2>5. \A v \in Users : Holder(v) => CellOf(v) # c
    BY <2>1, <1>2 DEF WriterHolds, ReaderHolds, Unlocked
  <2>6. \A v \in Users \ {u} : Told(v)' /\ Served(v)'
    BY <2>1, <2>2, <2>5, <1>6
  <2>7. Told(u)' /\ Served(u)'
    BY <2>2, <1>4 DEF Told, Served, Reading
  <2> QED
    BY <2>4, <2>6, <2>7 DEF TruthOK
<1>11. ASSUME NEW u \in Users, NEW k \in Keys, Get(u, k)
       PROVE  TruthOK'
  <2> DEFINE c == HashOf[k]
             s == [slot[c] EXCEPT !.readers = @ \cup {u}]
  <2>1. /\ c \in Cells /\ slot' = [slot EXCEPT ![c] = s]
        /\ UNCHANGED <<disk, spoilt>>
    BY <1>11 DEF Get
  <2>2. /\ \A v \in Users \ {u} : Same(v)
        /\ pc[u] = "none" /\ pc'[u] = "open" /\ served'[u] = served[u]
    BY <1>11, <1>1 DEF Get, Goes, UsersOK
  <2>3. SaysNoMore(slot[c], s)
    BY <2>1, <1>3, NoNewClaims
  <2> HIDE DEF s
  <2>4. \A x \in Cells : Described(x)'
    BY <2>1, <2>3, <1>7
  <2>5. Told(u)' /\ Served(u)'
    BY <2>2, <1>4 DEF Told, Served, Reading
  <2> QED
    BY <2>1, <2>2, <2>4, <2>5, <1>9 DEF TruthOK
<1>12. ASSUME NEW u \in Users, CloseWroteAll(u) \/ Read(u)
                  \/ CloseWriterGone(u)
       PROVE  TruthOK'
  <2>1. /\ UNCHANGED <<slot, disk, spoilt, key, sees, served>>
        /\ pc[u] \in {"filling", "open"}
    BY <1>12 DEF CloseWroteAll, Read, CloseWriterGone, index
  <2>2. \A v \in Users \ {u} : Same(v)
    BY <1>12, <1>1
    DEF CloseWroteAll, Read, CloseWriterGone, Push, Goes, UsersOK
  <2>3. reply'[u] \in {reply[u], Failed} /\ reply[u] = NoReply
    BY <1>12, <1>1, <2>1, <1>4
    DEF CloseWroteAll, Read, CloseWriterGone, Push, UsersOK
  <2>4. Told(u)'
    BY <2>3, <1>5 DEF Told
  <2>5. Served(u)'
    BY <2>1, <1>2 DEF Served, CellOf
  <2> QED
    BY <2>1, <2>2, <2>4, <2>5, <1>8, <1>9 DEF TruthOK
<1>13. ASSUME NEW u \in Users, WriteCompleted(u)
       PROVE  TruthOK'
  <2> DEFINE c == CellOf(u)
  <2>1. /\ pc[u] = "writing" /\ UNCHANGED <<disk, spoilt, key, sees, served>>
        /\ reply'[u] = NoReply
    BY <1>13, <1>1 DEF WriteCompleted, UsersOK
  <2>2. \A v \in Users \ {u} : Same(v)
    BY <1>13, <1>1 DEF WriteCompleted, Goes, UsersOK
  <2>3. /\ key[u] \in Keys /\ c \in Cells /\ slot[c] \in Slots
        /\ slot[c].key = key[u] /\ slot[c].ver = sees[u]
    BY <2>1, <1>1, <1>2 DEF WriterHolds, Writing, IndexOK, CellOf
  <2>4. \A x \in Cells : Described(x)'
    <3>1. CASE /\ reply[u].outcome = "ok"
               /\ slot' = [slot EXCEPT ![c] = Closed(slot[c], {u})]
      <4>1. slot'[c] = Closed(slot[c], {u})
        BY <2>3, <3>1, <1>1 DEF IndexOK
      <4>2. slot'[c].key = key[u] /\ slot'[c].ver = sees[u]
        BY <4>1, <2>3 DEF Closed, Slots
      <4>3. c \notin spoilt => disk[c] = Content(key[u], sees[u])
        BY <3>1, <2>1, <1>2 DEF Told
      <4>4. PICK x \in Cells : x = c
        BY <2>3
      <4>5. Described(x)'
        BY <4>2, <4>3, <4>4, <2>1 DEF Described
      <4> QED
        BY <4>4, <4>5, <3>1, <2>1, <2>3, <1>7
    <3>2. CASE slot' = [slot EXCEPT ![c] = Marked(slot[c])]
      <4>1. SaysNoMore(slot[c], Marked(slot[c]))
        BY <2>3, <1>3, NoNewClaims
      <4> QED
        BY <4>1, <3>2, <2>1, <2>3, <1>7
    <3> QED
      BY <3>1, <3>2, <1>13 DEF WriteCompleted
  <2>5. Told(u)' /\ Served(u)'
    BY <2>1, <1>4, <1>5 DEF Told, Served, Reading
  <2> QED
    BY <2>1, <2>2, <2>4, <2>5, <1>9 DEF TruthOK
<1>14. ASSUME NEW u \in Users, Unlink(u) \/ Disconnect(u)
       PROVE  TruthOK'
  <2> DEFINE c == CellOf(u)
  <2>1. /\ UNCHANGED <<disk, spoilt>> /\ served'[u] = None
        /\ pc'[u] = "none" /\ pc[u] \in Writing \cup Reading
    BY <1>14, <1>1 DEF Unlink, Disconnect, Forgets, Goes, UsersOK, Writing,
       Reading
  <2>2. \A v \in Users \ {u} : Same(v)
    BY <1>14, <1>1 DEF Unlink, Disconnect, Forgets, Goes, UsersOK
  <2>3. c \in Cells
    BY <2>1, <1>2 DEF WriterHolds, ReaderHolds, CellOf
  <2>4. \A x \in Cells : Described(x)'
    <3>1. PICK s : slot' = [slot EXCEPT ![c] = s] /\ SaysNoMore(slot[c], s)
      BY <1>14, <2>3, <1>3, NoNewClaims DEF Unlink, Disconnect
    <3> QED
      BY <3>1, <2>1, <2>3, <1>7
  <2>5. Told(u)' /\ Served(u)'
    BY <2>1 DEF Told, Served
  <2> QED
    BY <2>1, <2>2, <2>4, <2>5, <1>9 DEF TruthOK
<1>15. ASSUME NEW u \in Users, ReadCompleted(u)
       PROVE  TruthOK'
  <2>1. /\ UNCHANGED <<slot, disk, spoilt, key, sees>>
        /\ pc[u] = "reading" /\ pc'[u] = "open"
        /\ \A v \in Users \ {u} : Same(v)
    BY <1>15, <1>1 DEF ReadCompleted, Goes, UsersOK, index
  <2>2. \/ served'[u] = served[u]
        \/ /\ reply[u].outcome = "ok" /\ reply[u].data.whole
           /\ served'[u] = reply[u].data
    BY <1>15, <1>1 DEF ReadCompleted, UsersOK
  <2>3. Told(u) /\ Served(u)
    BY <1>2
  <2>4. Told(u)' /\ Served(u)'
    BY <2>1, <2>2, <2>3 DEF Told, Served, CellOf
  <2> QED
    BY <2>1, <2>4, <1>8, <1>9 DEF TruthOK
<1>16. ASSUME NEW u \in Users, Timeout(u)
       PROVE  TruthOK'
  <2>1. /\ UNCHANGED <<slot, disk, spoilt, key, sees, pc, served>>
        /\ \A v \in Users \ {u} : Same(v)
        /\ reply'[u] = Failed
    BY <1>16, <1>1 DEF Timeout, UsersOK, index
  <2>2. Told(u)'
    BY <2>1, <1>5 DEF Told
  <2>3. Served(u)'
    BY <2>1, <1>2 DEF Served, CellOf
  <2> QED
    BY <2>1, <2>2, <2>3, <1>8, <1>9 DEF TruthOK
<1>17. ASSUME DiskerRestart
       PROVE  TruthOK'
  <2>1. UNCHANGED <<slot, disk, spoilt>> /\ \A v \in Users : Same(v)
    BY <1>17 DEF DiskerRestart, index, users
  <2> QED
    BY <2>1, <1>6, <1>8 DEF TruthOK
<1>18. ASSUME NEW w \in Workers, DiskerRead(w)
       PROVE  TruthOK'
  <2>1. /\ UNCHANGED <<slot, disk, spoilt, key, sees, pc, served>>
        /\ fifo[w] # <<>>
    BY <1>18 DEF DiskerRead, index
  <2>2. PICK m \in Requests :
           m = Head(fifo[w]) /\ m = fifo[w][1] /\ 1 \in 1..Len(fifo[w])
    BY <2>1, <1>1, QueueTyped
  <2>3. Queued(w, m) /\ m.kind = "read" /\ m.user \in Users \cup {None}
    BY <2>2, <1>18 DEF QueueOK, AllQueued, Requests, DiskerRead
  <2>4. PICK a : /\ Answer(m.user, a)
                 /\ \/ a = Failed
                    \/ /\ disk[m.cell] # None
                       /\ \E d \in {disk[m.cell], Cut(disk[m.cell])} :
                             a = Reply("ok", d)
    BY <2>2, <1>18 DEF DiskerRead
  <2>5. \A v \in Users \ {m.user} : Told(v)' /\ Served(v)'
    <3>1. \A v \in Users \ {m.user} : Same(v)
      BY <2>1, <2>3, <2>4, <1>1 DEF Answer, UsersOK
    <3> QED
      BY <3>1, <2>1, <1>6
  <2>6. ASSUME NEW x \in Users, x = m.user
        PROVE  Told(x)' /\ Served(x)'
    <3>1. pc[x] = "reading" /\ m.cell = CellOf(x)
      BY <2>3, <2>6 DEF Queued
    <3>2. reply'[x] = a
      BY <2>4, <2>6, <1>1 DEF Answer, UsersOK
    <3>3. /\ CellOf(x) \in Cells
          /\ CellOf(x) \notin spoilt =>
                disk[CellOf(x)] = Content(key[x], sees[x])
      <4>1. ReaderHolds(x) /\ pc[x] \in Reading
        BY <3>1, <1>2 DEF Reading
      <4>2. /\ key[x] \in Keys /\ slot[CellOf(x)].state = "Readable"
            /\ slot[CellOf(x)].key = key[x]
            /\ slot[CellOf(x)].ver = sees[x]
        BY <4>1 DEF ReaderHolds
      <4>3. CellOf(x) \in Cells
        BY <4>2 DEF CellOf
      <4>4. Described(CellOf(x))
        BY <4>3, <1>2
      <4> QED
        BY <4>2, <4>3, <4>4 DEF Described
    <3>4. (reply'[x].outcome = "ok" /\ reply'[x].data.whole)
             => reply'[x].data = disk[m.cell]
      <4>1. disk[m.cell] \in Contents \cup {None}
        BY <3>1, <3>3, <1>1 DEF FilesOK
      <4>2. disk[m.cell] # None => ~Cut(disk[m.cell]).whole
        BY <4>1, ContentFacts
      <4>3. \A d : Reply("ok", d).data = d
        BY DEF Reply
      <4> QED
        BY <3>2, <2>4, <4>2, <4>3, <1>5
    <3>5. Told(x)'
      BY <3>1, <3>3, <3>4, <2>1 DEF Told, CellOf
    <3>6. Served(x)'
      BY <2>1, <1>2 DEF Served, CellOf
    <3> QED
      BY <3>5, <3>6
  <2> QED
    BY <2>1, <2>5, <2>6, <1>8 DEF TruthOK
<1>19. ASSUME NEW w \in Workers, DiskerWrite(w)
       PROVE  TruthOK'
  <2>1. /\ UNCHANGED <<slot, key, sees, pc, served>>
        /\ fifo[w] # <<>>
    BY <1>19 DEF DiskerWrite
  <2>2. PICK m \in Requests :
           m = Head(fifo[w]) /\ m = fifo[w][1] /\ 1 \in 1..Len(fifo[w])
    BY <2>1, <1>1, QueueTyped
  <2>3. /\ Queued(w, m) /\ m.kind = "write" /\ m.user \in Users \cup {None}
        /\ m.cell \in Cells
    BY <2>2, <1>19 DEF QueueOK, AllQueued, Requests, DiskerWrite
  <2>4. PICK d \in {m.data, Cut(m.data), disk[m.cell], None},
             a \in {Reply("ok", None), Failed} :
           /\ disk' = [disk EXCEPT ![m.cell] = d] /\ Answer(m.user, a)
           /\ spoilt' = IF Spoils(m, d, a) THEN spoilt \cup {m.cell}
                        ELSE spoilt
    BY <2>2, <1>19, Zenon DEF DiskerWrite
  <2>5. /\ spoilt \subseteq spoilt' /\ disk'[m.cell] = d
        /\ \A x \in Cells : x # m.cell => disk'[x] = disk[x]
        /\ Spoils(m, d, a) => m.cell \in spoilt'
    BY <2>3, <2>4, <1>1 DEF FilesOK
  <2>6. \A v \in Users \ {m.user} : Same(v)
    BY <2>1, <2>3, <2>4, <1>1 DEF Answer, UsersOK
  <2>7. ASSUME m.user # None
        PROVE  /\ pc[m.user] = "writing" /\ m.cell = CellOf(m.user)
               /\ m.data = Content(key[m.user], sees[m.user])
               /\ slot[m.cell].writer = m.user
               /\ slot[m.cell].state = "Writeable"
    <3>1. /\ pc[m.user] = "writing" /\ m.cell = CellOf(m.user)
          /\ m.data = Content(key[m.user], sees[m.user])
      BY <2>3, <2>7 DEF Queued
    <3>2. slot[m.cell].writer = m.user
      BY <3>1, <2>3, <2>7, <1>2 DEF WriterHolds, Writing
    <3>3. SlotOK(slot[m.cell])
      BY <2>3, <1>3
    <3> QED
      BY <3>1, <3>2, <3>3, <2>7 DEF SlotOK
  <2>8. \A x \in Cells : Described(x)'
    <3> TAKE x \in Cells
    <3>1. Described(x)
      BY <1>2
    <3>2. x = m.cell =>
             \/ x \in spoilt' \/ slot[x].state # "Readable"
             \/ disk'[x] = disk[x]
      BY <2>5, <2>7 DEF Spoils
    <3> QED
      BY <3>1, <3>2, <2>1, <2>5 DEF Described
  <2>9. ASSUME NEW v \in Users \ {m.user}
        PROVE  Told(v)' /\ Served(v)'
    <3>1. ASSUME pc[v] = "writing", reply[v].outcome = "ok",
                 CellOf(v) \notin spoilt'
          PROVE  disk'[CellOf(v)] = disk[CellOf(v)]
      <4>1. slot[CellOf(v)].writer = v /\ CellOf(v) \in Cells
        BY <3>1, <1>2 DEF WriterHolds, Writing, CellOf
      <4>2. CASE CellOf(v) = m.cell
        <5>1. m.user = None
          BY <4>1, <4>2, <2>7
        <5>2. disk[m.cell] = Content(key[v], sees[v])
          BY <3>1, <4>2, <2>5, <1>2 DEF Told
        <5>3. disk[m.cell] # None /\ disk[m.cell].ver = sees[v]
          <6>1. key[v] \in Keys /\ sees[v] \in Versions
            BY <3>1, <1>1, <1>2 DEF WriterHolds, Writing, UsersOK
          <6> QED
            BY <5>2, <6>1, ContentFacts
        <5>4. Outdates(v, m)
          BY <3>1, <2>2 DEF QueueOK, OldWrites, Writing
        <5>5. m.data.ver <= sees[v] /\ m.data.ver # sees[v]
          BY <5>4, <4>2, <3>1, <2>3 DEF Outdates
        <5>6. m.data.ver \in Nat /\ sees[v] \in Nat
          BY <2>3, <1>1 DEF Queued, Contents, UsersOK
        <5>7. disk[m.cell].ver > m.data.ver
          BY <5>3, <5>5, <5>6
        <5>8. d # disk[m.cell] => Spoils(m, d, a)
          BY <5>1, <5>3, <5>7 DEF Spoils
        <5> QED
          BY <5>8, <4>2, <3>1, <2>5
      <4>3. CASE CellOf(v) # m.cell
        BY <4>1, <4>3, <2>5
      <4> QED
        BY <4>2, <4>3
    <3> QED
      BY <3>1, <2>5, <2>6, <1>6
  <2>10. ASSUME NEW x \in Users, x = m.user
         PROVE  Told(x)' /\ Served(x)'
    <3>1. /\ pc[x] = "writing" /\ m.cell = CellOf(x)
          /\ m.data = Content(key[x], sees[x])
      BY <2>7, <2>10
    <3>2. \/ disk'[m.cell] = m.data
          \/ reply'[x] = Failed
          \/ m.cell \in spoilt'
      BY <2>3, <2>4, <2>5, <2>10, <1>1 DEF Answer, UsersOK, Spoils
    <3>3. Told(x)'
      BY <3>1, <3>2, <2>1, <1>5 DEF Told, CellOf
    <3>4. Served(x)'
      BY <3>1, <2>1, <1>4 DEF Served, Reading
    <3> QED
      BY <3>3, <3>4
  <2> QED
    BY <2>8, <2>9, <2>10 DEF TruthOK
<1>20. ASSUME DoOneEntry
       PROVE  TruthOK'
  <2>1. UNCHANGED disk /\ \A v \in Users : Same(v)
    BY <1>20 DEF DoOneEntry, users
  <2>2. CASE UNCHANGED index
    BY <2>1, <2>2, <1>6, <1>8 DEF TruthOK, index
  <2>3. CASE ~Skipped(disk[filen])
    <3>1. filen \in Cells /\ disk[filen] \in Contents
      BY <1>1, <1>20, <2>3 DEF DoOneEntry, FilesOK, Skipped
    <3>2. PICK e \in Contents : e = disk[filen]
      BY <3>1
    <3>3. e.key \in Keys /\ HashOf[e.key] \in Cells
      BY DEF Contents
    <3>4. PICK c \in Cells : c = HashOf[e.key]
      BY <3>3
    <3>5. SlotOK(slot[c])
      BY <1>3
    <3>6. CASE AddEntry(filen, e) /\ Unlocked(slot[c])
      <4>1. PICK s \in Slots :
               /\ slot' = [slot EXCEPT ![c] = s]
               /\ IF c = filen
                  THEN /\ s.key = e.key /\ s.ver = e.ver
                       /\ spoilt' = IF e.whole THEN spoilt \ {c}
                                    ELSE spoilt \cup {c}
                  ELSE spoilt' = spoilt \cup {c}
        BY <3>1, <3>4, <3>6, <1>1, EntryAdded
      <4>2. Described(c)'
        <5>1. slot'[c] = s
          BY <4>1, <1>1 DEF IndexOK
        <5>2. e.whole => e = Content(e.key, e.ver)
          BY ContentFacts
        <5>3. CASE c = filen
          BY <5>1, <5>2, <5>3, <4>1, <3>2, <2>1 DEF Described
        <5>4. CASE c # filen
          BY <5>4, <4>1 DEF Described
        <5> QED
          BY <5>3, <5>4
      <4>3. \A x \in Cells : Described(x)'
        BY <4>1, <4>2, <2>1, <1>7
      <4>4. \A v \in Users : Holder(v) => CellOf(v) # c
        BY <3>6, <1>2 DEF WriterHolds, ReaderHolds, Unlocked
      <4>5. ASSUME NEW v \in Users
            PROVE  Told(v)' /\ Served(v)'
        BY <4>1, <4>4, <2>1, <1>6
      <4> QED
        BY <4>3, <4>5 DEF TruthOK
    <3>7. CASE /\ slot' = [slot EXCEPT ![c] =
                              IF Servable(@, e.key) THEN Marked(@) ELSE @]
               /\ UNCHANGED spoilt
      <4>1. SaysNoMore(slot[c], Marked(slot[c]))
        BY <3>5, NoNewClaims
      <4>2. SaysNoMore(slot[c], slot[c])
        BY DEF SaysNoMore
      <4>3. PICK s : slot' = [slot EXCEPT ![c] = s] /\ SaysNoMore(slot[c], s)
        BY <4>1, <4>2, <3>7
      <4>4. \A x \in Cells : Described(x)'
        BY <4>3, <3>7, <2>1, <1>7
      <4> QED
        BY <4>4, <3>7, <2>1, <1>6 DEF TruthOK
    <3> QED
      BY <3>2, <3>4, <3>6, <3>7, <2>3, <1>20 DEF DoOneEntry
  <2> QED
    BY <1>20, <2>2, <2>3 DEF DoOneEntry
<1> QED
  BY <1>10, <1>11, <1>12, <1>13, <1>14, <1>15, <1>16, <1>17, <1>18, <1>19,
     <1>20
  DEF RockNext, WorkerStep

-----------------------------------------------------------------------------
(* The theorems                                                            *)

(* The inductive invariant, in the parts that the steps are about.         *)
LEMMA RockInvParts ==
    RockInv <=> /\ RockTypeOK /\ WritersHold /\ ReadersHold
                /\ AnswersWanted /\ QueueOK /\ TruthOK
<1>1. RequestsQueued <=> AllQueued /\ UsersApart
  BY DEF RequestsQueued, AllQueued, UsersApart
<1>2. AnswersTrue <=> \A u \in Users : Told(u)
  BY DEF AnswersTrue, Told
<1>3. ServedAsPromised <=> \A u \in Users : Served(u)
  BY DEF ServedAsPromised, Served
<1>4. SlotsMatch <=> \A c \in Cells : Described(c)
  BY DEF SlotsMatch, Described
<1> QED
  BY <1>1, <1>2, <1>3, <1>4 DEF RockInv, QueueOK, TruthOK

(* A cache that just started, whatever the db file holds.                  *)
LEMMA RockInitially == RockInit => RockInv
<1> USE RockConstants
<1> SUFFICES ASSUME RockInit
             PROVE  RockInv
  OBVIOUS
<1>1. FreeSlot \in Slots /\ SlotOK(FreeSlot)
  BY DEF FreeSlot, SlotOK, Slots, States
<1>2. IndexOK /\ \A c \in Cells : slot[c].state = "Empty"
  BY <1>1 DEF RockInit, IndexOK, FreeSlot
<1>3. \A w \in Workers : fifo[w] = <<>> /\ Len(fifo[w]) = 0
  BY DEF RockInit
<1>4. QueuesOK
  BY DEF QueuesOK, RockInit
<1>5. FilesOK
  <2>1. disk \in [Cells -> Contents \cup {None}]
    BY RockAssumption DEF RockInit, Contents
  <2> QED
    BY <2>1 DEF RockInit, FilesOK
<1>6. UsersOK
  BY DEF RockInit, UsersOK, PCs, NoReply, Reply, Replies
<1>7. HeaderOK
  BY DEF RockInit, HeaderOK
<1>8. RockTypeOK
  BY <1>2, <1>4, <1>5, <1>6, <1>7, RockTypeParts
<1>9. WritersHold /\ ReadersHold /\ AnswersWanted
  BY DEF RockInit, WritersHold, ReadersHold, AnswersWanted, Writing, Reading
<1>10. QueueOK
  <2>1. \A w \in Workers : 1..Len(fifo[w]) = {}
    BY <1>3
  <2> QED
    BY <2>1 DEF QueueOK, AllQueued, UsersApart, VersionsApart, OldWrites
<1>11. TruthOK
  <2>1. \A u \in Users : reply[u].outcome # "ok" /\ served[u] = None
    BY DEF RockInit, NoReply, Reply
  <2> QED
    BY <2>1, <1>2 DEF TruthOK, Told, Served, Described
<1> QED
  BY <1>8, <1>9, <1>10, <1>11, RockInvParts

(* Every step keeps the inductive invariant.                               *)
LEMMA RockStep ==
    ASSUME RockInv, [RockNext]_vars
    PROVE  RockInv'
<1>1. /\ RockTypeOK /\ WritersHold /\ ReadersHold
      /\ AnswersWanted /\ QueueOK /\ TruthOK
  BY RockInvParts
<1>2. CASE RockNext
  <2>1. RockTypeOK' /\ WritersHold' /\ ReadersHold'
    BY <1>1, <1>2, RockTypeStep, HoldStep DEF RockInv
  <2>2. AnswersWanted'
    BY <1>1, <1>2, AnswersStep DEF QueueOK
  <2>3. QueueOK' /\ TruthOK'
    BY <1>1, <1>2, QueueStep, TruthStep
  <2>4. RequestsQueued' /\ VersionsApart' /\ OldWrites'
    BY <2>3 DEF QueueOK, RequestsQueued, AllQueued, UsersApart
  <2>5. AnswersTrue' /\ ServedAsPromised'
    BY <2>3 DEF TruthOK, AnswersTrue, ServedAsPromised, Told, Served
  <2>6. SlotsMatch'
    BY <2>3 DEF TruthOK, SlotsMatch, Described
  <2> QED
    BY <2>1, <2>2, <2>4, <2>5, <2>6 DEF RockInv
<1>3. CASE UNCHANGED vars
  <2>1. UNCHANGED <<slot, disk, fifo, pc, key, sees, reply, header, served,
                    writes, filen, restarts, spoilt>>
    BY <1>3 DEF vars, index, users
  <2>2. RockTypeOK' /\ WritersHold' /\ ReadersHold' /\ AnswersWanted'
    BY <2>1, <1>1
    DEF RockTypeOK, WritersHold, ReadersHold, AnswersWanted, CellOf
  <2>3. RequestsQueued'
    BY <2>1, SMTT(30) DEF RockInv, RequestsQueued, Queued, CellOf
  <2>4. VersionsApart' /\ OldWrites'
    BY <2>1, SMTT(30) DEF RockInv, VersionsApart, OldWrites, Outdates, CellOf
  <2>5. AnswersTrue' /\ SlotsMatch' /\ ServedAsPromised'
    BY <2>1 DEF RockInv, AnswersTrue, SlotsMatch, ServedAsPromised, CellOf
  <2> QED
    BY <2>2, <2>3, <2>4, <2>5 DEF RockInv
<1> QED
  BY <1>2, <1>3

(* The inductive invariant always holds.                                   *)
LEMMA RockAlways == RockSpec => []RockInv
BY RockInitially, RockStep, PTL DEF RockSpec

(* The types are right, and a slot is Writeable exactly while some swap-   *)
(* out has it: no error path of IoState leaves a slot locked by nobody.    *)
THEOREM RockTypes == RockSpec => []RockTypeOK
<1>1. RockInv => RockTypeOK
  BY DEF RockInv
<1> QED
  BY <1>1, RockAlways, PTL

(* What the shared index says of a readable entry is in its cell of the db *)
(* file, through evictions, failed and abandoned writes, disker restarts   *)
(* and rebuilds, outside of the cells that were spoilt.                    *)
THEOREM RockIndexSafe == RockSpec => []IndexMatchesDisk
<1>1. RockInv => IndexMatchesDisk
  BY DEF RockInv, SlotsMatch, IndexMatchesDisk
<1> QED
  BY <1>1, RockAlways, PTL

(* A client of readCompleted() is served the entry that get() found, as    *)
(* long as the cell was not spoilt.                                        *)
THEOREM RockServedSafe == RockSpec => []ServedAsPromised
<1>1. RockInv => ServedAsPromised
  BY DEF RockInv
<1> QED
  BY <1>1, RockAlways, PTL
=============================================================================
