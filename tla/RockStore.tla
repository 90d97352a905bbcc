----------------------------- MODULE RockStore -----------------------------
(***************************************************************************)
(* A Rock cache_dir (src/src/fs/rock/): the workers find, fill and free    *)
(* entries in a shared index (Ipc::StoreMap), and one disker process reads *)
(* and writes the db file for all of them.  The db file is an array of     *)
(* cells; the cell of an entry is the slot its key hashes to, so two keys  *)
(* may compete for one cell, and nothing but the slot lock keeps a cell    *)
(* from being rewritten under its readers.                                 *)
(*                                                                         *)
(* Calls of the map are atomic here: StoreMap shows that its steps keep    *)
(* readers and writers apart.  Each worker has a FIFO of requests to the   *)
(* disker, which serves the FIFOs in any order.  A worker gives up on a    *)
(* request after a timeout; the request stays in the FIFO (IpcIoFile).     *)
(*                                                                         *)
(* A user is a StoreEntry of some worker, with at most one store client.   *)
(***************************************************************************)
EXTENDS Integers, Sequences, FiniteSets

CONSTANTS Users, Keys, Cells,
          WorkerOf,      \* [Users -> workers]
          HashOf,        \* [Keys -> Cells]: slotIndexByKey()
          QueueCapacity, \* of each FIFO
          MaxWrites,     \* bound on the entries written
          MaxRestarts,   \* bound on the disker's restarts
          Leftovers,     \* what earlier runs of Squid left in some cell
          None

Versions == 0..MaxWrites        \* 0: written in an earlier life of the cache
Contents == [key : Keys, ver : Versions, whole : BOOLEAN]

(* A cell that was filled, and one where the rest of what was to be        *)
(* written or read is missing.                                             *)
Content(k, v) == [key |-> k, ver |-> v, whole |-> TRUE]
Cut(d) == [d EXCEPT !.whole = FALSE]

ASSUME RockAssumption ==
    /\ IsFiniteSet(Users) /\ IsFiniteSet(Cells)
    /\ Cells = 1..Cardinality(Cells) /\ Cells # {}
    /\ HashOf \in [Keys -> Cells]
    /\ WorkerOf \in [Users -> {WorkerOf[u] : u \in Users}]
    /\ {QueueCapacity, MaxWrites, MaxRestarts} \subseteq Nat
    /\ Leftovers \subseteq [key : Keys, ver : {0}, whole : BOOLEAN]
    /\ None \notin Users \cup Keys \cup Contents

VARIABLES slot,       \* [Cells -> Slots]: the shared index
          disk,       \* [Cells -> Contents \cup {None}]: the db file
          fifo,       \* [worker -> Seq(Requests)]: requests to the disker
          pc,         \* [Users -> PCs]
          key,        \* [Users -> Keys]: StoreEntry::key
          sees,       \* [Users -> versions]: what the slot promised the user
          reply,      \* [Users -> the disker's answer]
          header,     \* [Users -> BOOLEAN]: the swap header was checked
          served,     \* [Users -> Contents]: the body last read as a whole
          writes,     \* how many entries were ever written
          filen,      \* the cell that the rebuild looks at next, 0: none
          restarts,
          spoilt      \* cells that hold what their slot does not describe

index == <<slot, spoilt>>
users == <<pc, key, sees, reply, header, served>>
vars == <<index, disk, fifo, users, writes, filen, restarts>>

Workers == {WorkerOf[u] : u \in Users}
States == {"Empty", "Writeable", "Readable"}
Slots == [state : States, key : Keys \cup {None}, ver : Versions,
          waitingToBeFreed : BOOLEAN, writer : Users \cup {None},
          readers : SUBSET Users]

(* A write request carries the cell's new content; a request that nobody   *)
(* waits for any more has user None.                                       *)
Requests == [kind : {"read", "write"}, user : Users \cup {None}, cell : Cells,
             data : Contents \cup {None}]

(* outcome none: no answer yet.  A read brings what is in the cell.        *)
Replies == [outcome : {"none", "ok", "error"}, data : Contents \cup {None}]
Reply(o, d) == [outcome |-> o, data |-> d]
NoReply == Reply("none", None)
Failed == Reply("error", None)

(* filling: swap-out is open, data is only buffered; writing, reading: the *)
(* request is with the disker; failed: the error callback is scheduled;    *)
(* open: the entry has the slot open for reading.                          *)
PCs == {"none", "filling", "writing", "failed", "open", "reading"}

(* Types; a slot is Writeable only with a writer, and never has both. *)
RockTypeOK ==
    /\ slot \in [Cells -> Slots]
    /\ disk \in [Cells -> Contents \cup {None}]
    /\ fifo \in [Workers -> Seq(Requests)]
    /\ pc \in [Users -> PCs]
    /\ key \in [Users -> Keys \cup {None}]
    /\ sees \in [Users -> Versions]
    /\ reply \in [Users -> Replies]
    /\ header \in [Users -> BOOLEAN]
    /\ served \in [Users -> Contents \cup {None}]
    /\ writes \in Versions
    /\ filen \in Cells \cup {0}
    /\ restarts \in 0..MaxRestarts
    /\ spoilt \in SUBSET Cells
    /\ \A c \in Cells :
          (slot[c].state = "Writeable") <=> (slot[c].writer # None)

(***************************************************************************)
(* The db file holds what earlier runs of Squid left there, under a        *)
(* configuration that may have hashed keys to other cells.  The disker     *)
(* starts to rebuild the index.                                            *)
(***************************************************************************)
FreeSlot == [state |-> "Empty", key |-> None, ver |-> 0,
             waitingToBeFreed |-> FALSE, writer |-> None, readers |-> {}]

RockInit ==
    /\ slot = [c \in Cells |-> FreeSlot]
    /\ disk \in [Cells -> Leftovers \cup {None}]
    /\ fifo = [w \in Workers |-> <<>>]
    /\ pc = [u \in Users |-> "none"]
    /\ key = [u \in Users |-> None]
    /\ sees = [u \in Users |-> 0]
    /\ reply = [u \in Users |-> NoReply]
    /\ header = [u \in Users |-> FALSE]
    /\ served = [u \in Users |-> None]
    /\ writes = 0
    /\ filen = 1
    /\ restarts = 0
    /\ spoilt = {}

Goes(u, p) == pc' = [pc EXCEPT ![u] = p]
CellOf(u) == HashOf[key[u]]

-----------------------------------------------------------------------------
(* Calls of the map                                                        *)

UnlockedMutant(s) == s.writer = None                \* overlooks readers

Unlocked(s) == s.writer = None /\ s.readers = {}    \* lockExclusive() works

Servable(s, k) ==               \* openForReading() works
    s.state = "Readable" /\ s.key = k /\ ~s.waitingToBeFreed

(* openForWriting() evicts what is there and leaves the key to its caller. *)
Opened(s, u) == [s EXCEPT !.state = "Writeable", !.waitingToBeFreed = FALSE,
                          !.writer = u]

Closed(s, R) == [s EXCEPT !.state = "Readable", !.writer = None,
                          !.readers = R]            \* closeForWriting()

Marked(s) == [s EXCEPT !.waitingToBeFreed = TRUE]   \* free() by a lock owner

AbortedIoMutant(s, u) ==        \* a writer that aborts keeps its lock
    IF s.state = "Writeable"
    THEN [s EXCEPT !.state = "Empty", !.waitingToBeFreed = FALSE]
    ELSE [s EXCEPT !.readers = @ \ {u}]

AbortedIo(s, u) ==              \* abortIo() by a writer or a reader
    IF s.state = "Writeable"
    THEN [s EXCEPT !.state = "Empty", !.waitingToBeFreed = FALSE,
                   !.writer = None]
    ELSE [s EXCEPT !.readers = @ \ {u}]

-----------------------------------------------------------------------------
(* Swapping out: createStoreIO(), IoState::close(), writeCompleted()       *)

CreateStoreIO(u, k) ==
    LET c == HashOf[k] IN
    /\ pc[u] = "none"
    /\ writes < MaxWrites
    /\ Unlocked(slot[c])
    /\ writes' = writes + 1
    /\ slot' = [slot EXCEPT ![c] = [Opened(@, u) EXCEPT !.key = k,
                                                        !.ver = writes + 1]]
    /\ spoilt' = spoilt \ {c}
    /\ key' = [key EXCEPT ![u] = k]
    /\ sees' = [sees EXCEPT ![u] = writes + 1]
    /\ Goes(u, "filling")
    /\ UNCHANGED <<disk, fifo, reply, header, served, filen, restarts>>

(* IpcIoFile::push(), which fails at once for lack of room in the FIFO.    *)
Push(u, kind, data) ==
    LET q == fifo[WorkerOf[u]]
        m == [kind |-> kind, user |-> u, cell |-> CellOf(u), data |-> data]
    IN  \/ /\ Len(q) < QueueCapacity
           /\ fifo' = [fifo EXCEPT ![WorkerOf[u]] = Append(q, m)]
           /\ UNCHANGED reply
        \/ /\ Len(q) = QueueCapacity
           /\ reply' = [reply EXCEPT ![u] = Failed]
           /\ UNCHANGED fifo

CloseWroteAll(u) ==             \* close(wroteAll): startWriting()
    /\ pc[u] = "filling"
    /\ Push(u, "write", Content(key[u], sees[u]))
    /\ Goes(u, "writing")
    /\ UNCHANGED <<index, disk, key, sees, header, served, writes, filen,
                   restarts>>

CloseWriterGone(u) ==           \* close(writerGone): callBack(DISK_ERROR)
    /\ pc[u] = "filling"
    /\ Goes(u, "failed")
    /\ UNCHANGED <<index, disk, fifo, key, sees, reply, header, served,
                   writes, filen, restarts>>

WriteCompleted(u) ==            \* the entry gets the read lock, or is marked
    LET c == CellOf(u) IN
    /\ pc[u] = "writing"
    /\ reply[u] # NoReply
    /\ reply' = [reply EXCEPT ![u] = NoReply]
    /\ \/ /\ reply[u].outcome = "ok"
          /\ slot' = [slot EXCEPT ![c] = Closed(@, {u})]
          /\ Goes(u, "open")
       \/ /\ reply[u].outcome = "error"
          /\ slot' = [slot EXCEPT ![c] = Marked(@)]
          /\ Goes(u, "failed")
    /\ UNCHANGED <<spoilt, disk, fifo, key, sees, header, served, writes,
                   filen, restarts>>

(* The StoreEntry loses its association with the store. *)
Forgets(u) ==
    /\ Goes(u, "none")
    /\ key' = [key EXCEPT ![u] = None]
    /\ sees' = [sees EXCEPT ![u] = 0]
    /\ header' = [header EXCEPT ![u] = FALSE]
    /\ served' = [served EXCEPT ![u] = None]
    /\ UNCHANGED <<spoilt, disk, fifo, reply, writes, filen, restarts>>

(* unlink(), called by storeSwapOutFileClosed() after an error and by      *)
(* StoreEntry::release(): free() and then disconnect().                    *)
Unlink(u) ==
    /\ pc[u] \in {"failed", "open"}
    /\ slot' = [slot EXCEPT ![CellOf(u)] = AbortedIo(Marked(@), u)]
    /\ Forgets(u)

Disconnect(u) ==                \* the entry leaves memory
    /\ pc[u] = "open"
    /\ slot' = [slot EXCEPT ![CellOf(u)] = AbortedIo(@, u)]
    /\ Forgets(u)

-----------------------------------------------------------------------------
(* Swapping in: get(), openStoreIO() and read_(), readCompleted() and the  *)
(* store client's callbacks                                                *)

Get(u, k) ==
    LET c == HashOf[k] IN
    /\ pc[u] = "none"
    /\ slot[c].writer = None /\ Servable(slot[c], k)
    /\ slot' = [slot EXCEPT ![c].readers = @ \cup {u}]
    /\ key' = [key EXCEPT ![u] = k]
    /\ sees' = [sees EXCEPT ![u] = slot[c].ver]
    /\ Goes(u, "open")
    /\ UNCHANGED <<spoilt, disk, fifo, reply, header, served, writes, filen,
                   restarts>>

Read(u) ==                      \* peekAtReader() finds the slot Readable
    /\ pc[u] = "open"
    /\ slot[CellOf(u)].state = "Readable"
    /\ Push(u, "read", None)
    /\ Goes(u, "reading")
    /\ UNCHANGED <<index, disk, key, sees, header, served, writes, filen,
                   restarts>>

(* The first read brings the swap header, whose key must be the entry's;   *)
(* later ones bring the body.                                              *)
ReadCompleted(u) ==
    /\ pc[u] = "reading"
    /\ reply[u] # NoReply
    /\ reply' = [reply EXCEPT ![u] = NoReply]
    /\ header' = [header EXCEPT ![u] =
                     @ \/ (reply[u].outcome = "ok"
                           /\ reply[u].data.key = key[u])]
    /\ served' = [served EXCEPT ![u] =
                     IF /\ header[u] /\ reply[u].outcome = "ok"
                        /\ reply[u].data.whole
                     THEN reply[u].data ELSE @]
    /\ Goes(u, "open")
    /\ UNCHANGED <<index, disk, fifo, key, sees, writes, filen, restarts>>

(***************************************************************************)
(* checkTimeouts(): the request is abandoned and stays with the disker.    *)
(* An answer that is already there is used instead.                        *)
(***************************************************************************)
Abandoned(q, u) ==
    [n \in 1..Len(q) |-> IF q[n].user = u THEN [q[n] EXCEPT !.user = None]
                                          ELSE q[n]]

TimeoutMutant(u) ==             \* checks the reads only
    /\ pc[u] = "reading"
    /\ reply[u] = NoReply
    /\ fifo' = [fifo EXCEPT ![WorkerOf[u]] = Abandoned(@, u)]
    /\ reply' = [reply EXCEPT ![u] = Failed]
    /\ UNCHANGED <<index, disk, pc, key, sees, header, served, writes, filen,
                   restarts>>

Timeout(u) ==
    /\ pc[u] \in {"reading", "writing"}
    /\ reply[u] = NoReply
    /\ fifo' = [fifo EXCEPT ![WorkerOf[u]] = Abandoned(@, u)]
    /\ reply' = [reply EXCEPT ![u] = Failed]
    /\ UNCHANGED <<index, disk, pc, key, sees, header, served, writes, filen,
                   restarts>>

-----------------------------------------------------------------------------
(* The disker                                                              *)

Answer(u, a) ==
    reply' = IF u = None THEN reply ELSE [reply EXCEPT ![u] = a]

(***************************************************************************)
(* A write that nobody waits for changes a cell whose slot was given to    *)
(* others, or a short write is answered like a complete one: the slot      *)
(* describes, or will describe, something else than what is now there.     *)
(***************************************************************************)
Spoils(m, x, a) ==
    \/ /\ m.user = None /\ x # disk[m.cell]
       /\ \/ slot[m.cell].state = "Readable"
          \/ disk[m.cell] # None /\ disk[m.cell].ver > m.data.ver
    \/ m.user # None /\ a # Failed /\ x # m.data

(***************************************************************************)
(* diskerWrite().  An error leaves the cell as it was, half written or not *)
(* recognizable.  So does a short write, but xerrno is 0 then, and         *)
(* IpcIoFile::writeCompleted() passes DISK_OK on.                          *)
(***************************************************************************)
DiskerWrite(w) ==
    LET m == Head(fifo[w]) IN
    /\ fifo[w] # <<>> /\ m.kind = "write"
    /\ fifo' = [fifo EXCEPT ![w] = Tail(@)]
    /\ \E x \in {m.data, Cut(m.data), disk[m.cell], None},
          a \in {Reply("ok", None), Failed} :
          /\ a = Failed => x # m.data
          /\ disk' = [disk EXCEPT ![m.cell] = x]
          /\ Answer(m.user, a)
          /\ spoilt' = IF Spoils(m, x, a) THEN spoilt \cup {m.cell} ELSE spoilt
    /\ UNCHANGED <<slot, pc, key, sees, header, served, writes, filen,
                   restarts>>

(* diskerRead(); IpcIoFile::readCompleted() does not tell a short read.    *)
DiskerRead(w) ==
    LET m == Head(fifo[w])
        x == disk[m.cell]
    IN
    /\ fifo[w] # <<>> /\ m.kind = "read"
    /\ fifo' = [fifo EXCEPT ![w] = Tail(@)]
    /\ \/ Answer(m.user, Failed)
       \/ /\ x # None
          /\ \E d \in {x, Cut(x)} : Answer(m.user, Reply("ok", d))
    /\ UNCHANGED <<index, disk, pc, key, sees, header, served, writes, filen,
                   restarts>>

(* The disker dies, perhaps with a request in hand, and its successor      *)
(* rebuilds the index while the workers go on.                             *)
DiskerRestart ==
    /\ restarts < MaxRestarts
    /\ restarts' = restarts + 1
    /\ filen' = 1
    /\ \/ UNCHANGED fifo
       \/ \E w \in Workers : /\ fifo[w] # <<>>
                             /\ fifo' = [fifo EXCEPT ![w] = Tail(@)]
    /\ UNCHANGED <<index, disk, users, writes>>

(* storeRebuildKeepEntry(): skip what the index has at least as new; the   *)
(* entry it has is released if it is older.                                *)
Skipped(e) ==
    \/ e = None
    \/ LET s == slot[HashOf[e.key]]
       IN  s.writer = None /\ Servable(s, e.key) /\ s.ver >= e.ver

AddEntryMutant(c, e) ==         \* calls set() whatever the new location is
    /\ slot' = [slot EXCEPT ![HashOf[e.key]] =
                   Closed([@ EXCEPT !.key = e.key, !.ver = e.ver,
                                    !.waitingToBeFreed = FALSE], {})]
    /\ spoilt' = IF e.whole THEN spoilt \ {HashOf[e.key]}
                 ELSE spoilt \cup {HashOf[e.key]}

(***************************************************************************)
(* addEntry(): the slot that the key hashes to is opened for writing, set  *)
(* if it is the cell's own slot, and closed: an entry found in a foreign   *)
(* cell evicts another one and makes the slot readable as it was.  What is *)
(* missing from a cell is not noticed.                                     *)
(***************************************************************************)
AddEntry(c, e) ==
    LET l == HashOf[e.key]
        s == [slot[l] EXCEPT !.waitingToBeFreed = FALSE]
    IN  IF l = c
        THEN /\ slot' = [slot EXCEPT ![l] =
                            Closed([s EXCEPT !.key = e.key, !.ver = e.ver],
                                   {})]
             /\ spoilt' = IF e.whole THEN spoilt \ {l} ELSE spoilt \cup {l}
        ELSE /\ slot' = [slot EXCEPT ![l] = Closed(s, {})]
             /\ spoilt' = spoilt \cup {l}

Rebuilt(c) == filen' = IF c + 1 \in Cells THEN c + 1 ELSE 0

DoOneEntry ==
    LET c == filen
        e == disk[c]
        l == HashOf[e.key]
    IN
    /\ c # 0
    /\ Rebuilt(c)
    /\ \/ Skipped(e) = TRUE /\ UNCHANGED index
       \/ /\ ~Skipped(e) /\ Unlocked(slot[l])
          /\ AddEntry(c, e)
       \/ /\ ~Skipped(e) /\ ~Unlocked(slot[l])
          /\ slot' = [slot EXCEPT ![l] =
                         IF Servable(@, e.key) THEN Marked(@) ELSE @]
          /\ UNCHANGED spoilt
    /\ UNCHANGED <<disk, fifo, users, writes, restarts>>

-----------------------------------------------------------------------------
WorkerStep(u) ==                \* what a worker does of its own accord
    WriteCompleted(u) \/ ReadCompleted(u) \/ Timeout(u)

RockNext ==
    \/ \E u \in Users :
          \/ \E k \in Keys : CreateStoreIO(u, k) \/ Get(u, k)
          \/ CloseWroteAll(u) \/ CloseWriterGone(u) \/ WorkerStep(u)
          \/ Unlink(u) \/ Disconnect(u) \/ Read(u)
    \/ \E w \in Workers : DiskerWrite(w) \/ DiskerRead(w)
    \/ DiskerRestart \/ DoOneEntry

RockSpec == RockInit /\ [][RockNext]_vars

(***************************************************************************)
(* A worker's main loop runs its timeouts, answers and scheduled callbacks *)
(* (a failed swap-out is unlinked by one).  The disker owes nothing.       *)
(***************************************************************************)
FairRockSpec ==
    /\ RockSpec
    /\ \A u \in Users :
          WF_vars(WorkerStep(u)) /\ WF_vars(pc[u] = "failed" /\ Unlink(u))

-----------------------------------------------------------------------------
(* Properties *)

(***************************************************************************)
(* What the index says of a readable entry is in its cell of the db file,  *)
(* whole, through evictions, failed and abandoned writes, disker restarts  *)
(* and rebuilds, with three exceptions and no other: a write executed      *)
(* after its worker gave up on it, an entry found in a foreign cell, and a *)
(* short write, which was reported as done or left half an entry for the   *)
(* rebuild to find.                                                        *)
(***************************************************************************)
IndexMatchesDisk ==
    \A c \in Cells \ spoilt :
        (slot[c].state = "Readable" /\ ~slot[c].waitingToBeFreed)
            => disk[c] = Content(slot[c].key, slot[c].ver)

(***************************************************************************)
(* What a client is served, if it is not cut short, is the entry that      *)
(* get() found, also when others freed or replaced it meanwhile, as long   *)
(* as its cell is not spoilt.                                              *)
(***************************************************************************)
ServedAsPromised ==
    \A u \in Users :
        (served[u] # None /\ CellOf(u) \notin spoilt)
            => served[u] = Content(key[u], sees[u])

(***************************************************************************)
(* A swap-out that was handed to the disker ends: whatever the disker      *)
(* does, the slot does not stay locked for writing.                        *)
(***************************************************************************)
WritesEnd == \A u \in Users : pc[u] = "writing" ~> pc[u] \in {"open", "none"}

(***************************************************************************)
(* "the disk entry remains open for reading, protected from modifications" *)
(* (RockSwapDir.cc, get()).                                                *)
(***************************************************************************)
ReadersProtected ==
    [][\A c \in Cells : disk'[c] # disk[c] => slot[c].readers = {}]_vars
=============================================================================
