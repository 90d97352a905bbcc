---------------------------- MODULE WorkerProofs ----------------------------
(***************************************************************************)
(* Proofs about the parts of one squid process that hold requests back:    *)
(* StoreEntry, for every finite set of clients, every page size, buffer    *)
(* size, read-ahead gap and limit, and, in the second half, Helper, for    *)
(* every number of requests, processes, channels and crashes.              *)
(***************************************************************************)
EXTENDS StoreEntry, Helper, FiniteSetTheorems, SequenceTheorems,
        WellFoundedInduction, TLAPS

-----------------------------------------------------------------------------
(* A set of natural numbers has a least one.                               *)
LEMMA MinOfMany ==
    ASSUME NEW S \in SUBSET Nat, S # {}
    PROVE  Min(S) \in S /\ \A y \in S : Min(S) <= y
<1> DEFINE Below == OpToRel(<, Nat)
<1>1. \A x, y \in Nat : <<x, y>> \in Below <=> x < y
  <2>1. Below = {xy \in Nat \X Nat : xy[1] < xy[2]}
    BY DEF OpToRel
  <2> HIDE DEF Below
  <2> QED
    BY <2>1
<1>2. IsWellFoundedOn(Below, Nat)
  BY NatLessThanWellFounded
<1> HIDE DEF Below
<1>3. PICK x \in S : \A y \in S : <<y, x>> \notin Below
  BY <1>2, WFMin, Zenon
<1>4. \A y \in S : ~(y < x)
  BY <1>1, <1>3, Zenon
<1>5. \A y \in S : x <= y
  BY <1>4
<1> QED
  BY <1>5, Zenon DEF Min

-----------------------------------------------------------------------------
(* The entry of the store                                                  *)

(***************************************************************************)
(* The inductive invariant.  EntryOK is about the entry alone: a swap-out  *)
(* is under way or done only after the decision for it, a file is closed   *)
(* for good only once all is queued, what memory gave up is on disk, and a *)
(* failed swap-out or an untrue length releases the entry.                 *)
(***************************************************************************)
SwapAgrees(e) ==
    /\ e.sio <=> e.swap = "WRITING"
    /\ e.queue <= e.end
    /\ ~e.failed => e.written <= e.queue
    /\ e.swap # "NONE" => e.decision = "swPossible"
    /\ e.swap = "DONE" => e.status = "OK"

ReleasedWhenBad(e) ==
    /\ e.failed => e.released
    /\ e.aborted => e.released /\ e.status = "OK"
    /\ (e.status = "OK" /\ ~e.released) => e.clen \in {Unknown, e.end}
    /\ (e.lo > 0 /\ ~e.released) => e.swap # "NONE"

ClosesWhole(e) ==
    /\ e.closing => e.sio /\ e.status = "OK"
    /\ (e.closing /\ ~e.aborted) => e.queue = e.end
    /\ (e.swap = "DONE" /\ ~e.released) => e.written = e.end

TrimmedIsOnDisk(e) == (e.lo > 0 /\ e.swap # "NONE") => e.lo < e.written

EntryOK(e) ==
    /\ e \in EntryTypes
    /\ SwapAgrees(e) /\ ReleasedWhenBad(e) /\ ClosesWhole(e)
    /\ TrimmedIsOnDisk(e)

(* The clients of an entry find what they may ask for, and a disk client   *)
(* has a file.                                                             *)
ClientOK(e, c) ==
    /\ c \in ClientTypes
    /\ c.type = "mem" => c.offset >= e.lo
    /\ (c.type = "disk" /\ ~e.failed) =>
            e.swap # "NONE" /\ (c.offset < e.lo => c.offset < e.written)

ClientsOK(e, cl) ==
    cl \in [Clients -> ClientTypes] /\ \A c \in Clients : ClientOK(e, cl[c])

StoreInv ==
    /\ EntryOK(entry)
    /\ ClientsOK(entry, clients)
    /\ server \in {"reading", "deferred", "gone"}
    /\ DeferredOnlyWhenAhead

-----------------------------------------------------------------------------
(* Arithmetic                                                              *)

(* A page starts at or below each of its units.                            *)
LEMMA PageStarts ==
    ASSUME NEW n \in Nat
    PROVE  PageStart(n) \in 0..n
  BY StoreAssumption DEF PageStart

(* The lesser and the greater of two integers.                             *)
LEMMA MinOfTwo ==
    ASSUME NEW a \in Int, NEW b \in Int
    PROVE  Min({a, b}) \in {a, b} /\ Min({a, b}) <= a /\ Min({a, b}) <= b
<1>1. \E x \in {a, b} : \A y \in {a, b} : x <= y
  BY a <= b \/ b <= a
<1>2. Min({a, b}) \in {a, b} /\ \A y \in {a, b} : Min({a, b}) <= y
  BY <1>1, Zenon DEF Min
<1> QED
  BY <1>2

(* The same for the greater.                                               *)
LEMMA MaxOfTwo ==
    ASSUME NEW a \in Int, NEW b \in Int
    PROVE  Max({a, b}) \in {a, b} /\ Max({a, b}) >= a /\ Max({a, b}) >= b
<1>1. \E x \in {a, b} : \A y \in {a, b} : x >= y
  BY a <= b \/ b <= a
<1>2. Max({a, b}) \in {a, b} /\ \A y \in {a, b} : Max({a, b}) >= y
  BY <1>1, Zenon DEF Max
<1> QED
  BY <1>2

(* No memory client is below the lowest of their offsets.                  *)
LEMMA LowestReader ==
    ASSUME NEW e, e.end \in Nat, NEW cl \in [Clients -> ClientTypes]
    PROVE  /\ LowestMemReaderOffset(e, cl) \in 0..e.end + 1
           /\ \A c \in MemReaders(cl) :
                 LowestMemReaderOffset(e, cl) <= cl[c].offset
<1> DEFINE S == {e.end + 1} \cup {cl[c].offset : c \in MemReaders(cl)}
<1>1. \A c \in MemReaders(cl) : cl[c].offset \in Nat
  BY StoreAssumption DEF MemReaders, ClientTypes
<1>2. S \subseteq Nat /\ S # {} /\ e.end + 1 \in S
  BY <1>1
<1>3. Min(S) \in S /\ \A y \in S : Min(S) <= y
  BY <1>2, MinOfMany
<1>4. \A c \in MemReaders(cl) : cl[c].offset \in S
  OBVIOUS
<1>5. LowestMemReaderOffset(e, cl) = Min(S)
  BY DEF LowestMemReaderOffset
<1> HIDE DEF S
<1>6. Min(S) \in Nat /\ Min(S) <= e.end + 1
  BY <1>2, <1>3
<1>7. \A c \in MemReaders(cl) : Min(S) <= cl[c].offset
  BY <1>3, <1>4, Zenon
<1> QED
  BY <1>5, <1>6, <1>7

(* What is kept in memory is all that the memory clients may still want.   *)
LEMMA PolicyKeeps ==
    ASSUME NEW e \in EntryTypes, NEW cl, ClientsOK(e, cl)
    PROVE  /\ PolicyLowestOffsetToKeep(e, cl) \in 0..MaxObject + 1
           /\ \A c \in MemReaders(cl) :
                 PolicyLowestOffsetToKeep(e, cl) <= cl[c].offset
<1> DEFINE L == LowestMemReaderOffset(e, cl)
<1>1. e.end \in 0..MaxObject /\ e.lo \in 0..MaxObject + 1
  BY DEF EntryTypes
<1>2. MaxObject \in Nat
  BY StoreAssumption
<1>3. L \in 0..e.end + 1 /\ \A c \in MemReaders(cl) : L <= cl[c].offset
  BY <1>1, <1>2, LowestReader DEF ClientsOK
<1>4. \A c \in MemReaders(cl) : e.lo <= cl[c].offset
  BY <1>1 DEF ClientsOK, ClientOK, ClientTypes, MemReaders
<1>5. PolicyLowestOffsetToKeep(e, cl) \in {L, e.lo}
  BY DEF PolicyLowestOffsetToKeep
<1> HIDE DEF L
<1> QED
  BY <1>1, <1>2, <1>3, <1>4, <1>5

-----------------------------------------------------------------------------
(* Trimming the memory                                                     *)

(* f is e but for what the trimming, the decision or the swap-out change.  *)
SameObject(e, f) ==
    /\ f.status = e.status /\ f.aborted = e.aborted
    /\ f.end = e.end /\ f.clen = e.clen

SameFile(e, f) ==
    /\ f.swap = e.swap /\ f.sio = e.sio /\ f.closing = e.closing
    /\ f.queue = e.queue /\ f.written = e.written /\ f.failed = e.failed

(* Trimming moves inmem_lo to the target and leaves the file alone.        *)
LEMMA TrimFields ==
    ASSUME NEW e \in EntryTypes, NEW new \in 0..MaxObject + 1
    PROVE  LET f == [FreeDataUpto(e, new) EXCEPT !.lo = new]
           IN  /\ f \in EntryTypes /\ f.lo = new
               /\ SameObject(e, f) /\ SameFile(e, f)
               /\ f.decision = e.decision /\ f.released = e.released
<1> DEFINE lastPage == IF e.end = 0 THEN 0 ELSE PageStart(e.end - 1)
           least == Min({lastPage, PageStart(new)})
           lowest == Max({e.dataLo, least})
<1>0. MaxObject \in Nat
  BY StoreAssumption
<1>1. e.end \in 0..MaxObject /\ e.dataLo \in 0..MaxObject
  BY DEF EntryTypes
<1>2. lastPage \in 0..MaxObject /\ PageStart(new) \in 0..MaxObject + 1
  <2>1. CASE e.end = 0
    BY <1>0, <2>1, PageStarts
  <2>2. CASE e.end # 0
    <3>1. e.end - 1 \in Nat /\ e.end - 1 <= MaxObject
      BY <1>0, <1>1, <2>2
    <3>2. PageStart(e.end - 1) \in 0..e.end - 1
      BY <3>1, PageStarts
    <3> QED
      BY <1>0, <3>1, <3>2, <2>2, PageStarts
  <2> QED
    BY <2>1, <2>2
<1> HIDE DEF lastPage
<1>3. least \in Int /\ least <= lastPage /\ least >= 0
  <2>1. lastPage \in Int /\ PageStart(new) \in Int
    BY <1>0, <1>2
  <2>2. least \in {lastPage, PageStart(new)} /\ least <= lastPage
    BY <2>1, MinOfTwo, Zenon
  <2> QED
    BY <1>0, <1>2, <2>2
<1> HIDE DEF least
<1>4. lowest \in 0..MaxObject
  <2>1. e.dataLo \in Int
    BY <1>0, <1>1
  <2>2. lowest \in {e.dataLo, least}
    BY <1>3, <2>1, MaxOfTwo, Zenon
  <2> QED
    BY <1>0, <1>1, <1>2, <1>3, <2>2
<1>5. FreeDataUpto(e, new) = [e EXCEPT !.dataLo = lowest,
                                       !.dead = lowest > new]
  BY Zenon DEF FreeDataUpto, lastPage, least
<1> HIDE DEF lowest
<1> DEFINE d == lowest > new
<1>6. d \in BOOLEAN
  OBVIOUS
<1> HIDE DEF d
<1>7. PICK f : f = [[e EXCEPT !.dataLo = lowest, !.dead = d] EXCEPT
                        !.lo = new]
  OBVIOUS
<1>8. f \in EntryTypes
  BY <1>4, <1>6, <1>7 DEF EntryTypes
<1>9. f.lo = new /\ SameObject(e, f) /\ SameFile(e, f)
      /\ f.decision = e.decision /\ f.released = e.released
  BY <1>7 DEF EntryTypes, SameObject, SameFile
<1> QED
  BY <1>5, <1>7, <1>8, <1>9, Zenon DEF d

(* A client finds its data in an entry that differs by the trimming, when  *)
(* no memory client is below the new inmem_lo.                             *)
LEMMA TrimmedClients ==
    ASSUME NEW e \in EntryTypes, NEW f \in EntryTypes, NEW cl,
           ClientsOK(e, cl), SameFile(e, f),
           \A c \in MemReaders(cl) : f.lo <= cl[c].offset,
           \A c \in Clients :
              (cl[c].type = "disk" /\ ~e.failed /\ cl[c].offset < f.lo)
                  => cl[c].offset < e.written
    PROVE  ClientsOK(f, cl)
<1>1. \A c \in Clients : cl[c].type = "mem" => cl[c].offset >= f.lo
  <2>1. \A c \in Clients : cl[c].offset \in Int
    BY StoreAssumption DEF ClientsOK, ClientTypes
  <2>2. f.lo \in Int
    BY StoreAssumption DEF EntryTypes
  <2>3. \A c \in Clients : cl[c].type = "mem" => f.lo <= cl[c].offset
    BY Zenon DEF MemReaders
  <2> QED
    BY <2>1, <2>2, <2>3
<1> QED
  BY <1>1, Zenon DEF ClientsOK, ClientOK, SameFile

(* Trimming of what is being swapped out: not beyond what is on the disk.  *)
LEMMA TrimsSwappable ==
    ASSUME NEW e, EntryOK(e), NEW cl, ClientsOK(e, cl), e.swap # "DONE"
    PROVE  LET f == TrimSwappable(e, cl)
           IN  /\ EntryOK(f) /\ ClientsOK(f, cl)
               /\ SameObject(e, f) /\ SameFile(e, f)
               /\ f.decision = e.decision /\ f.released = e.released
               /\ e.swap = "NONE" => f.lo = 0
<1> DEFINE P == PolicyLowestOffsetToKeep(e, cl)
           B == ObjectBytesOnDisk(e)
           least == Min({P, B - 1})
           new == Max({0, least})
<1>0. MaxObject \in Nat
  BY StoreAssumption
<1>1. e \in EntryTypes /\ e.written \in 0..MaxObject
  BY DEF EntryOK, EntryTypes
<1>2. P \in 0..MaxObject + 1 /\ \A c \in MemReaders(cl) : P <= cl[c].offset
  BY <1>1, PolicyKeeps
<1>3. /\ B \in 0..MaxObject
      /\ e.swap = "WRITING" => B = e.written
      /\ e.swap # "WRITING" => B = 0
  BY <1>0, <1>1 DEF ObjectBytesOnDisk, EntryOK, SwapAgrees
<1>4. new \in 0..P /\ (new > 0 => new < B)
  <2> HIDE DEF P, B
  <2>1. P \in Int /\ B - 1 \in Int
    BY <1>0, <1>2, <1>3
  <2>2. least \in {P, B - 1} /\ least <= P /\ least <= B - 1
    BY <2>1, MinOfTwo, Zenon
  <2> HIDE DEF least
  <2>3. least \in Int
    BY <2>1, <2>2
  <2>4. new \in {0, least} /\ new >= 0
    BY <2>3, MaxOfTwo
  <2> HIDE DEF new
  <2> QED
    BY <1>0, <1>2, <1>3, <2>2, <2>3, <2>4
<1>5. PICK f : f = TrimSwappable(e, cl)
  OBVIOUS
<1>6. f = [FreeDataUpto(e, new) EXCEPT !.lo = new]
  BY <1>5, Zenon DEF TrimSwappable
<1> HIDE DEF P, B, new
<1>7. /\ f \in EntryTypes /\ f.lo = new
      /\ SameObject(e, f) /\ SameFile(e, f)
      /\ f.decision = e.decision /\ f.released = e.released
  <2>1. new \in 0..MaxObject + 1
    BY <1>0, <1>2, <1>4
  <2> QED
    BY <1>1, <1>6, <2>1, TrimFields, Zenon
<1>8. f.lo > 0 => e.swap = "WRITING" /\ f.lo < e.written
  BY <1>0, <1>3, <1>4, <1>7, <1>2
<1>9. EntryOK(f)
  <2>1. SwapAgrees(f)
    BY <1>7, Zenon DEF EntryOK, SwapAgrees, SameFile, SameObject
  <2>2. ClosesWhole(f)
    BY <1>7, Zenon DEF EntryOK, ClosesWhole, SameFile, SameObject
  <2>3. TrimmedIsOnDisk(f)
    BY <1>7, <1>8, Zenon DEF TrimmedIsOnDisk, SameFile
  <2>4. ReleasedWhenBad(f)
    <3>1. f.lo > 0 => f.swap # "NONE"
      BY <1>7, <1>8 DEF SameFile
    <3> QED
      BY <1>7, <3>1, Zenon DEF EntryOK, ReleasedWhenBad, SameFile, SameObject
  <2> QED
    BY <1>7, <2>1, <2>2, <2>3, <2>4 DEF EntryOK
<1>10. ClientsOK(f, cl)
  <2>1. \A c \in Clients : cl[c].offset \in 0..MaxObject
    BY DEF ClientsOK, ClientTypes
  <2>2. \A c \in MemReaders(cl) : f.lo <= cl[c].offset
    BY <1>0, <1>2, <1>4, <1>7, <2>1 DEF MemReaders
  <2>3. \A c \in Clients : cl[c].offset < f.lo => cl[c].offset < e.written
    BY <1>0, <1>1, <1>2, <1>4, <1>7, <1>8, <2>1
  <2> QED
    BY <1>1, <1>7, <2>2, <2>3, TrimmedClients
<1>11. e.swap = "NONE" => f.lo = 0
  BY <1>2, <1>4, <1>7, <1>8, <1>0
<1> QED
  BY <1>5, <1>7, <1>9, <1>10, <1>11

(* A release keeps all but the flag.                                       *)
LEMMA ReleaseFields ==
    ASSUME NEW e \in EntryTypes
    PROVE  LET f == ReleaseRequest(e)
           IN  /\ f \in EntryTypes /\ f.released
               /\ SameObject(e, f) /\ SameFile(e, f)
               /\ f.lo = e.lo /\ f.decision = e.decision
<1>1. PICK f : f = [e EXCEPT !.released = TRUE]
  OBVIOUS
<1>2. f \in EntryTypes
  BY <1>1 DEF EntryTypes
<1>3. f.released /\ SameObject(e, f) /\ SameFile(e, f) /\ f.lo = e.lo
      /\ f.decision = e.decision
  BY <1>1 DEF EntryTypes, SameObject, SameFile
<1> QED
  BY <1>1, <1>2, <1>3, Zenon DEF ReleaseRequest

(* Trimming of what is not swapped out, and never will be.                 *)
LEMMA TrimsUnSwappable ==
    ASSUME NEW e, EntryOK(e), NEW cl, ClientsOK(e, cl), e.swap = "NONE"
    PROVE  LET f == TrimUnSwappable(e, cl)
           IN  /\ EntryOK(f) /\ ClientsOK(f, cl)
               /\ SameObject(e, f) /\ SameFile(e, f)
               /\ f.decision = e.decision /\ (e.released => f.released)
<1> DEFINE new == PolicyLowestOffsetToKeep(e, cl)
<1>1. e \in EntryTypes
  BY DEF EntryOK
<1>2. /\ new \in 0..MaxObject + 1
      /\ \A c \in MemReaders(cl) : new <= cl[c].offset
  BY <1>1, PolicyKeeps
<1>3. PICK f : f = TrimUnSwappable(e, cl)
  OBVIOUS
<1>4. CASE new = 0
  <2>1. f = e
    BY <1>3, <1>4, Zenon DEF TrimUnSwappable
  <2> QED
    BY <1>3, <2>1 DEF SameObject, SameFile
<1>5. CASE new # 0
  <2>1. PICK r : r = ReleaseRequest(e)
    OBVIOUS
  <2>2. /\ r \in EntryTypes /\ r.released
        /\ SameObject(e, r) /\ SameFile(e, r) /\ r.decision = e.decision
    BY <1>1, <2>1, ReleaseFields
  <2>3. f = [FreeDataUpto(r, new) EXCEPT !.lo = new]
    BY <1>3, <1>5, <2>1, Zenon DEF TrimUnSwappable
  <2> HIDE DEF new
  <2>4. /\ f \in EntryTypes /\ f.lo = new
        /\ SameObject(r, f) /\ SameFile(r, f)
        /\ f.decision = r.decision /\ f.released
    BY <1>2, <2>2, <2>3, TrimFields, Zenon
  <2>5. SameObject(e, f) /\ SameFile(e, f) /\ f.decision = e.decision
    BY <2>2, <2>4, Zenon DEF SameObject, SameFile
  <2>6. f.swap = "NONE"
    BY <2>5 DEF SameFile
  <2>7. EntryOK(f)
    <3>1. SwapAgrees(f)
      BY <2>5, Zenon DEF EntryOK, SwapAgrees, SameFile, SameObject
    <3>2. ClosesWhole(f)
      BY <2>5, <2>6 DEF EntryOK, ClosesWhole, SwapAgrees, SameFile,
                        SameObject
    <3>3. TrimmedIsOnDisk(f)
      BY <2>6, Zenon DEF TrimmedIsOnDisk
    <3>4. ReleasedWhenBad(f)
      BY <2>4, <2>5, Zenon DEF EntryOK, ReleasedWhenBad, SameFile,
                               SameObject
    <3> QED
      BY <2>4, <3>1, <3>2, <3>3, <3>4 DEF EntryOK
  <2>8. \A c \in Clients : ~(cl[c].type = "disk" /\ ~e.failed)
    BY DEF ClientsOK, ClientOK
  <2>9. \A c \in MemReaders(cl) : f.lo <= cl[c].offset
    BY <1>2, <2>4, Zenon
  <2>10. ClientsOK(f, cl)
    BY <1>1, <2>4, <2>5, <2>8, <2>9, TrimmedClients, Zenon
  <2> QED
    BY <1>3, <2>4, <2>5, <2>7, <2>10
<1> QED
  BY <1>4, <1>5

(* Whatever is trimmed, the entry and its clients stay right; an entry     *)
(* whose swap-out may still start is all in memory.                        *)
LEMMA Trims ==
    ASSUME NEW e, EntryOK(e), NEW cl, ClientsOK(e, cl), e.swap # "DONE",
           NEW preserve \in BOOLEAN, preserve \/ e.swap = "NONE"
    PROVE  LET f == MaybeTrimMemory(e, cl, preserve)
           IN  /\ EntryOK(f) /\ ClientsOK(f, cl)
               /\ SameObject(e, f) /\ SameFile(e, f)
               /\ f.decision = e.decision /\ (e.released => f.released)
               /\ (preserve /\ e.swap = "NONE") => f.lo = 0
<1>1. PICK f : f = MaybeTrimMemory(e, cl, preserve)
  OBVIOUS
<1>2. CASE KeepForLocalMemoryCache(e)
  <2>1. f = e /\ e.lo = 0
    BY <1>1, <1>2, Zenon DEF MaybeTrimMemory, KeepForLocalMemoryCache
  <2> QED
    BY <1>1, <2>1 DEF SameObject, SameFile
<1>3. CASE ~KeepForLocalMemoryCache(e) /\ preserve
  <2>1. f = TrimSwappable(e, cl)
    BY <1>1, <1>3, Zenon DEF MaybeTrimMemory
  <2> QED
    BY <1>1, <2>1, TrimsSwappable
<1>4. CASE ~KeepForLocalMemoryCache(e) /\ ~preserve
  <2>1. f = TrimUnSwappable(e, cl) /\ e.swap = "NONE"
    BY <1>1, <1>4, Zenon DEF MaybeTrimMemory
  <2> QED
    BY <1>1, <1>4, <2>1, TrimsUnSwappable
<1> QED
  BY <1>2, <1>3, <1>4

-----------------------------------------------------------------------------
(* Swapping out                                                            *)

(* A decision, or a release, before any swap-out.                          *)
LEMMA Decides ==
    ASSUME NEW e, EntryOK(e), NEW cl, ClientsOK(e, cl), e.swap = "NONE",
           NEW f \in EntryTypes, SameObject(e, f), SameFile(e, f),
           f.lo = e.lo, e.released => f.released
    PROVE  EntryOK(f) /\ ClientsOK(f, cl)
<1>1. f.swap = "NONE"
  BY DEF SameFile
<1>2. SwapAgrees(f)
  BY <1>1, Zenon DEF EntryOK, SwapAgrees, SameFile, SameObject
<1>3. ReleasedWhenBad(f)
  BY Zenon DEF EntryOK, ReleasedWhenBad, SameFile, SameObject
<1>4. ClosesWhole(f)
  BY <1>1 DEF EntryOK, ClosesWhole, SwapAgrees, SameFile, SameObject
<1>5. TrimmedIsOnDisk(f)
  BY <1>1, Zenon DEF TrimmedIsOnDisk
<1>6. ClientsOK(f, cl)
  BY Zenon DEF ClientsOK, ClientOK, SameFile
<1> QED
  BY <1>2, <1>3, <1>4, <1>5, <1>6 DEF EntryOK

(* mayStartSwapOut() only decides, and releases what is not cachable.      *)
LEMMA MayStart ==
    ASSUME NEW e, EntryOK(e), NEW cl, ClientsOK(e, cl), e.swap = "NONE",
           NEW how
    PROVE  LET f == MayStartSwapOut(e, how)
           IN  /\ EntryOK(f) /\ ClientsOK(f, cl)
               /\ SameObject(e, f) /\ SameFile(e, f)
<1>1. e \in EntryTypes
  BY DEF EntryOK
<1>2. ASSUME NEW v \in {"swImpossible", "swPossible"}, NEW d,
             d = [e EXCEPT !.decision = v]
      PROVE  /\ d \in EntryTypes /\ SameObject(e, d) /\ SameFile(e, d)
             /\ d.lo = e.lo /\ d.released = e.released
  BY <1>1, <1>2 DEF EntryTypes, SameObject, SameFile
<1>3. PICK f : f = MayStartSwapOut(e, how)
  OBVIOUS
<1>4. \/ f = e
      \/ f = ReleaseRequest([e EXCEPT !.decision = "swImpossible"])
      \/ f = [e EXCEPT !.decision = "swImpossible"]
      \/ f = [e EXCEPT !.decision = "swPossible"]
  BY <1>3 DEF MayStartSwapOut
<1>5. /\ f \in EntryTypes /\ SameObject(e, f) /\ SameFile(e, f)
      /\ f.lo = e.lo /\ (e.released => f.released)
  <2>1. CASE f = e
    BY <1>1, <2>1 DEF SameObject, SameFile
  <2>2. CASE f = ReleaseRequest([e EXCEPT !.decision = "swImpossible"])
    <3>1. PICK d : d = [e EXCEPT !.decision = "swImpossible"]
      OBVIOUS
    <3>2. /\ d \in EntryTypes /\ SameObject(e, d) /\ SameFile(e, d)
          /\ d.lo = e.lo
      BY <1>2, <3>1
    <3>3. /\ f \in EntryTypes /\ SameObject(d, f) /\ SameFile(d, f)
          /\ f.lo = d.lo /\ f.released
      BY <2>2, <3>1, <3>2, ReleaseFields
    <3> QED
      BY <3>2, <3>3, Zenon DEF SameObject, SameFile
  <2>3. CASE f = [e EXCEPT !.decision = "swImpossible"]
    BY <1>2, <2>3
  <2>4. CASE f = [e EXCEPT !.decision = "swPossible"]
    BY <1>2, <2>4
  <2> QED
    BY <1>4, <2>1, <2>2, <2>3, <2>4
<1> QED
  BY <1>3, <1>5, Decides

(* A swap-out starts with an empty file while all is in memory.            *)
LEMMA Starts ==
    ASSUME NEW e, EntryOK(e), NEW cl, ClientsOK(e, cl), NEW how,
           e.swap = "NONE", e.decision = "swPossible", e.lo = 0
    PROVE  LET f == StoreSwapOutStart(e, how)
           IN  /\ EntryOK(f) /\ ClientsOK(f, cl) /\ SameObject(e, f)
               /\ f.queue = e.queue /\ f.swap # "DONE"
<1>1. e \in EntryTypes
  BY DEF EntryOK
<1>2. PICK f : f = StoreSwapOutStart(e, how)
  OBVIOUS
<1>3. CASE how = "fails"
  <2>1. f = [e EXCEPT !.decision = "swImpossible"]
    BY <1>2, <1>3, Zenon DEF StoreSwapOutStart
  <2>2. /\ f \in EntryTypes /\ SameObject(e, f) /\ SameFile(e, f)
        /\ f.lo = e.lo /\ f.released = e.released
    BY <1>1, <2>1 DEF EntryTypes, SameObject, SameFile
  <2>3. f.queue = e.queue /\ f.swap # "DONE"
    BY <2>2 DEF SameFile
  <2> QED
    BY <1>2, <2>2, <2>3, Decides
<1>4. CASE how # "fails"
  <2>1. f = [e EXCEPT !.swap = "WRITING", !.sio = TRUE, !.written = 0]
    BY <1>2, <1>4, Zenon DEF StoreSwapOutStart
  <2>2. f \in EntryTypes
    <3>1. 0 \in 0..MaxObject
      BY StoreAssumption
    <3> QED
      BY <1>1, <2>1, <3>1, Zenon DEF EntryTypes
  <2>3. /\ SameObject(e, f) /\ f.queue = e.queue /\ f.lo = 0
        /\ f.decision = "swPossible" /\ f.closing = e.closing
        /\ f.released = e.released /\ f.failed = e.failed
        /\ f.swap = "WRITING" /\ f.sio /\ f.written = 0
    BY <1>1, <2>1 DEF EntryTypes, SameObject
  <2>4. 0 <= e.queue /\ ~e.closing /\ ~(0 > 0)
    BY <1>1 DEF EntryOK, SwapAgrees, ClosesWhole, EntryTypes
  <2>5. SwapAgrees(f)
    BY <2>3, <2>4, Zenon DEF EntryOK, SwapAgrees, SameObject
  <2>6. ReleasedWhenBad(f)
    BY <2>3, <2>4, Zenon DEF EntryOK, ReleasedWhenBad, SameObject
  <2>7. ClosesWhole(f)
    BY <2>3, <2>4 DEF ClosesWhole
  <2>8. TrimmedIsOnDisk(f)
    BY <2>3, <2>4, Zenon DEF TrimmedIsOnDisk
  <2>9. ClientsOK(f, cl)
    <3>1. \A c \in Clients : ~(cl[c].offset < 0)
      BY DEF ClientsOK, ClientTypes
    <3> QED
      BY <2>3, <3>1 DEF ClientsOK, ClientOK
  <2> QED
    BY <1>2, <2>2, <2>3, <2>5, <2>6, <2>7, <2>8, <2>9 DEF EntryOK
<1> QED
  BY <1>3, <1>4

(* Pages are queued up to the end of the object, the last one only once    *)
(* the object is complete.                                                 *)
LEMMA Queues ==
    ASSUME NEW e, EntryOK(e), NEW cl, ClientsOK(e, cl)
    PROVE  LET f == DoPages(e)
           IN  /\ EntryOK(f) /\ ClientsOK(f, cl) /\ SameObject(e, f)
               /\ f.swap = e.swap /\ f.sio = e.sio
               /\ e.status = "OK" => f.queue = f.end
<1>0. MaxObject \in Nat
  BY StoreAssumption
<1>1. /\ e \in EntryTypes /\ e.end \in 0..MaxObject
      /\ e.queue \in 0..MaxObject /\ e.written \in 0..MaxObject
  BY DEF EntryOK, EntryTypes
<1>2. e.queue <= e.end
  BY DEF EntryOK, SwapAgrees
<1>3. PICK q : q = IF e.status = "OK" THEN e.end
                   ELSE e.queue + PageStart(e.end - e.queue)
  OBVIOUS
<1>4. e.queue <= q /\ q <= e.end /\ q \in 0..MaxObject
      /\ (e.status = "OK" => q = e.end)
  <2>1. e.end - e.queue \in Nat
    BY <1>0, <1>1, <1>2
  <2>2. PageStart(e.end - e.queue) \in 0..e.end - e.queue
    BY <2>1, PageStarts
  <2> QED
    BY <1>0, <1>1, <1>2, <1>3, <2>2
<1>5. PICK f : f = DoPages(e)
  OBVIOUS
<1>6. f = [e EXCEPT !.queue = q]
  BY <1>3, <1>5, Zenon DEF DoPages
<1>7. f \in EntryTypes
  BY <1>1, <1>4, <1>6 DEF EntryTypes
<1>8. /\ SameObject(e, f) /\ f.queue = q /\ f.lo = e.lo
      /\ f.decision = e.decision /\ f.closing = e.closing
      /\ f.released = e.released /\ f.failed = e.failed
      /\ f.swap = e.swap /\ f.sio = e.sio /\ f.written = e.written
  BY <1>1, <1>6 DEF EntryTypes, SameObject
<1>9. f.end = e.end /\ f.status = e.status /\ f.aborted = e.aborted
  BY <1>8 DEF SameObject
<1>10. SwapAgrees(f)
  <2>1. e.written <= e.queue => e.written <= q
    BY <1>0, <1>1, <1>4
  <2> QED
    BY <1>4, <1>8, <1>9, <2>1, Zenon DEF EntryOK, SwapAgrees
<1>11. ReleasedWhenBad(f)
  BY <1>8, Zenon DEF EntryOK, ReleasedWhenBad, SameObject
<1>12. ClosesWhole(f)
  BY <1>4, <1>8, <1>9 DEF EntryOK, ClosesWhole
<1>13. TrimmedIsOnDisk(f)
  BY <1>8, Zenon DEF EntryOK, TrimmedIsOnDisk
<1>14. ClientsOK(f, cl)
  BY <1>8, Zenon DEF ClientsOK, ClientOK
<1> QED
  BY <1>4, <1>5, <1>7, <1>8, <1>9, <1>10, <1>11, <1>12, <1>13, <1>14
  DEF EntryOK

(* A file is closed once all of a complete object is queued, or when the   *)
(* object is given up.                                                     *)
LEMMA Closes ==
    ASSUME NEW e, EntryOK(e), NEW cl, ClientsOK(e, cl), e.status = "OK",
           e.aborted \/ e.queue = e.end
    PROVE  LET f == SwapOutFileClose(e)
           IN  EntryOK(f) /\ ClientsOK(f, cl) /\ SameObject(e, f)
               /\ f.swap = e.swap
<1>1. e \in EntryTypes
  BY DEF EntryOK
<1>2. PICK f : f = SwapOutFileClose(e)
  OBVIOUS
<1>3. CASE ~e.sio
  <2>1. f = e
    BY <1>2, <1>3, Zenon DEF SwapOutFileClose
  <2> QED
    BY <1>2, <2>1 DEF SameObject
<1>4. CASE e.sio
  <2>1. f = [e EXCEPT !.closing = TRUE]
    BY <1>2, <1>4, Zenon DEF SwapOutFileClose
  <2>2. f \in EntryTypes
    BY <1>1, <2>1, Zenon DEF EntryTypes
  <2>3. /\ SameObject(e, f) /\ f.queue = e.queue /\ f.lo = e.lo
        /\ f.decision = e.decision
        /\ f.released = e.released /\ f.failed = e.failed
        /\ f.swap = e.swap /\ f.sio = e.sio /\ f.written = e.written
    BY <1>1, <2>1 DEF EntryTypes, SameObject
  <2>4. SwapAgrees(f)
    BY <2>3, Zenon DEF EntryOK, SwapAgrees, SameObject
  <2>5. ReleasedWhenBad(f)
    BY <2>3, Zenon DEF EntryOK, ReleasedWhenBad, SameObject
  <2>6. ClosesWhole(f)
    BY <1>4, <2>3 DEF EntryOK, ClosesWhole, SameObject
  <2>7. TrimmedIsOnDisk(f)
    BY <2>3, Zenon DEF EntryOK, TrimmedIsOnDisk
  <2>8. ClientsOK(f, cl)
    BY <2>3, Zenon DEF ClientsOK, ClientOK
  <2> QED
    BY <1>2, <2>2, <2>3, <2>4, <2>5, <2>6, <2>7, <2>8 DEF EntryOK
<1> QED
  BY <1>3, <1>4

(* The end of swapOut(): start, queue pages, close.                        *)
LEMMA SwapsOutMaybe ==
    ASSUME NEW e, EntryOK(e), NEW cl, ClientsOK(e, cl), NEW how,
           e.swap # "DONE",
           (e.decision = "swPossible" /\ e.swap = "NONE") => e.lo = 0
    PROVE  LET f == SwapOutMaybe(e, how)
           IN  EntryOK(f) /\ ClientsOK(f, cl) /\ SameObject(e, f)
<1>0. SameObject(e, e)
  BY DEF SameObject
<1>1. PICK f : f = SwapOutMaybe(e, how)
  OBVIOUS
<1>2. PICK started : started = IF e.swap = "NONE"
                               THEN StoreSwapOutStart(e, how) ELSE e
  OBVIOUS
<1>3. PICK paged : paged = IF started.sio THEN DoPages(started) ELSE started
  OBVIOUS
<1>4. \/ f = e
      \/ /\ e.end - e.queue = 0 /\ e.status = "OK"
         /\ f = SwapOutFileClose(e)
      \/ /\ e.decision = "swPossible"
         /\ f = IF e.status = "OK" THEN SwapOutFileClose(paged) ELSE paged
  BY <1>1, <1>2, <1>3, Zenon DEF SwapOutMaybe
<1>5. CASE e.end - e.queue = 0 /\ e.status = "OK" /\ f = SwapOutFileClose(e)
  <2>1. e.end \in Int /\ e.queue \in Int
    BY StoreAssumption DEF EntryOK, EntryTypes
  <2>2. e.queue = e.end
    BY <1>5, <2>1
  <2> QED
    BY <1>1, <1>5, <2>2, Closes
<1>6. CASE /\ e.decision = "swPossible"
           /\ f = IF e.status = "OK" THEN SwapOutFileClose(paged) ELSE paged
  <2>1. EntryOK(started) /\ ClientsOK(started, cl) /\ SameObject(e, started)
    <3>1. CASE e.swap = "NONE"
      <4>1. started = StoreSwapOutStart(e, how)
        BY <1>2, <3>1
      <4> QED
        BY <1>6, <3>1, <4>1, Starts
    <3>2. CASE e.swap # "NONE"
      BY <1>0, <1>2, <3>2
    <3> QED
      BY <3>1, <3>2
  <2>2. CASE started.sio
    <3>1. paged = DoPages(started)
      BY <1>3, <2>2
    <3>2. /\ EntryOK(paged) /\ ClientsOK(paged, cl)
          /\ SameObject(started, paged)
          /\ started.status = "OK" => paged.queue = paged.end
      BY <2>1, <3>1, Queues
    <3>3. SameObject(e, paged)
      BY <2>1, <3>2, Zenon DEF SameObject
    <3>4. CASE e.status = "OK"
      <4>1. /\ paged.status = "OK" /\ paged.queue = paged.end
            /\ f = SwapOutFileClose(paged)
        BY <1>6, <2>1, <3>2, <3>3, <3>4 DEF SameObject
      <4>2. EntryOK(f) /\ ClientsOK(f, cl) /\ SameObject(paged, f)
        BY <3>2, <4>1, Closes
      <4> QED
        BY <1>1, <3>3, <4>2, Zenon DEF SameObject
    <3>5. CASE e.status # "OK"
      BY <1>1, <1>6, <3>2, <3>3, <3>5
    <3> QED
      BY <3>4, <3>5
  <2>3. CASE ~started.sio
    <3>1. paged = started
      BY <1>3, <2>3
    <3>2. SwapOutFileClose(paged) = started
      BY <2>3, <3>1, Zenon DEF SwapOutFileClose
    <3> QED
      BY <1>1, <1>6, <2>1, <3>1, <3>2
  <2> QED
    BY <2>2, <2>3
<1> QED
  BY <1>0, <1>1, <1>4, <1>5, <1>6

(* swapOut() keeps the entry and its clients right.                        *)
LEMMA SwapsOut ==
    ASSUME NEW e, EntryOK(e), NEW cl, ClientsOK(e, cl), NEW how,
           e.swap # "DONE"
    PROVE  LET f == SwapOut(e, cl, how)
           IN  EntryOK(f) /\ ClientsOK(f, cl) /\ SameObject(e, f)
<1>0. SameObject(e, e) /\ SameFile(e, e)
  BY DEF SameObject, SameFile
<1>1. PICK d : d = IF e.swap = "WRITING" THEN e ELSE MayStartSwapOut(e, how)
  OBVIOUS
<1>2. PICK preserve \in BOOLEAN :
         preserve <=> (e.swap = "WRITING" \/ d.decision # "swImpossible")
  BY Zenon
<1>3. PICK m : m = MaybeTrimMemory(d, cl, preserve)
  OBVIOUS
<1>4. CASE e.aborted
  <2>1. SwapOut(e, cl, how) = e
    BY <1>4, Zenon DEF SwapOut
  <2> QED
    BY <1>0, <2>1
<1>5. CASE ~e.aborted
  <2>1. SwapOut(e, cl, how) = SwapOutMaybe(m, how)
    <3> DEFINE P == e.swap = "WRITING" \/ d.decision # "swImpossible"
    <3>1. P = preserve
      BY <1>2, Zenon
    <3>2. SwapOut(e, cl, how) = SwapOutMaybe(MaybeTrimMemory(d, cl, P), how)
      BY <1>1, <1>5, Zenon DEF SwapOut
    <3> HIDE DEF P
    <3> QED
      BY <1>3, <3>1, <3>2, Zenon
  <2>2. /\ EntryOK(d) /\ ClientsOK(d, cl)
        /\ SameObject(e, d) /\ SameFile(e, d)
    <3>1. CASE e.swap = "WRITING"
      BY <1>0, <1>1, <3>1
    <3>2. CASE e.swap # "WRITING"
      <4>1. e.swap = "NONE"
        BY <3>2 DEF EntryOK, EntryTypes
      <4>2. d = MayStartSwapOut(e, how)
        BY <1>1, <3>2
      <4> QED
        BY <4>1, <4>2, MayStart
    <3> QED
      BY <3>1, <3>2
  <2>3. d.swap = e.swap
    BY <2>2 DEF SameFile
  <2>4. preserve \/ d.swap = "NONE"
    <3>1. CASE d.decision = "swImpossible"
      BY <2>2, <3>1 DEF EntryOK, SwapAgrees
    <3> QED
      BY <1>2, <3>1
  <2>5. /\ EntryOK(m) /\ ClientsOK(m, cl)
        /\ SameObject(d, m) /\ SameFile(d, m) /\ m.decision = d.decision
        /\ (preserve /\ d.swap = "NONE") => m.lo = 0
    BY <1>3, <2>2, <2>3, <2>4, Trims
  <2>6. m.swap = e.swap
    BY <2>3, <2>5 DEF SameFile
  <2>7. (m.decision = "swPossible" /\ m.swap = "NONE") => m.lo = 0
    BY <1>2, <2>3, <2>5, <2>6
  <2>8. LET f == SwapOutMaybe(m, how)
        IN  EntryOK(f) /\ ClientsOK(f, cl) /\ SameObject(m, f)
    BY <2>5, <2>6, <2>7, SwapsOutMaybe
  <2> QED
    BY <2>1, <2>2, <2>5, <2>8, Zenon DEF SameObject
<1> QED
  BY <1>4, <1>5

-----------------------------------------------------------------------------
(* Clients                                                                 *)

(* A client may be anywhere that is still in memory or past where it was:  *)
(* what memory gave up is on the disk.                                     *)
LEMMA ClientMoves ==
    ASSUME NEW e, EntryOK(e), NEW c, ClientOK(e, c), NEW d \in ClientTypes,
           d.type = c.type, d.offset >= c.offset
    PROVE  ClientOK(e, d)
<1>0. MaxObject \in Nat
  BY StoreAssumption
<1>1. /\ c.offset \in 0..MaxObject /\ d.offset \in 0..MaxObject
      /\ e.lo \in 0..MaxObject + 1 /\ e.written \in 0..MaxObject
  BY DEF ClientOK, ClientTypes, EntryOK, EntryTypes
<1>2. d.type = "mem" => d.offset >= e.lo
  <2>1. c.type = "mem" => c.offset >= e.lo
    BY DEF ClientOK
  <2> QED
    BY <1>0, <1>1, <2>1
<1>3. e.swap # "NONE" => (d.offset < e.lo => d.offset < e.written)
  <2>1. (e.lo > 0 /\ e.swap # "NONE") => e.lo < e.written
    BY DEF EntryOK, TrimmedIsOnDisk
  <2> QED
    BY <1>0, <1>1, <2>1
<1> QED
  BY <1>2, <1>3, Zenon DEF ClientOK

(* What a memory read brings is part of the object.                        *)
LEMMA ReadsFromMemory ==
    ASSUME NEW e \in EntryTypes, NEW c \in ClientTypes, c.offset < e.end
    PROVE  /\ Min({BufSize, e.end - c.offset}) \in 0..BufSize
           /\ c.offset + Min({BufSize, e.end - c.offset}) \in 0..MaxObject
<1>0. MaxObject \in Nat /\ BufSize \in Nat
  BY StoreAssumption
<1>1. c.offset \in 0..MaxObject /\ e.end \in 0..MaxObject
  BY DEF ClientTypes, EntryTypes
<1>2. PICK left \in Nat : left = e.end - c.offset
  BY <1>0, <1>1
<1>3. PICK got : got = Min({BufSize, left})
  OBVIOUS
<1>4. got \in {BufSize, left} /\ got <= BufSize /\ got <= left
  <2>1. BufSize \in Int /\ left \in Int
    BY <1>0
  <2> QED
    BY <1>3, <2>1, MinOfTwo, Zenon
<1>5. got \in 0..BufSize /\ c.offset + got \in 0..MaxObject
  BY <1>0, <1>1, <1>2, <1>4
<1> QED
  BY <1>2, <1>3, <1>5

(* doCopy() leaves the client with an answer or waiting for one.           *)
LEMMA Copies ==
    ASSUME NEW e, EntryOK(e), NEW c, ClientOK(e, c), NEW eager \in BOOLEAN
    PROVE  ClientOK(e, DoCopy(e, c, eager))
<1>0. MaxObject \in Nat /\ BufSize \in Nat
  BY StoreAssumption
<1>1. e \in EntryTypes /\ c \in ClientTypes
  BY DEF EntryOK, ClientOK
<1>2. c.offset \in 0..MaxObject /\ c.offset >= c.offset
  BY <1>0, <1>1 DEF ClientTypes
<1>3. PICK d : d = DoCopy(e, c, eager)
  OBVIOUS
<1>4. PICK got : got = Min({BufSize, e.end - c.offset})
  OBVIOUS
<1>5. \/ d = [c EXCEPT !.got = 0, !.state = "idle"]
      \/ d = [c EXCEPT !.state = "waiting"]
      \/ d = [c EXCEPT !.state = "disk"]
      \/ /\ InMemory(e, c)
         /\ d = [c EXCEPT !.got = got, !.state = "idle"]
      \/ /\ InMemory(e, c)
         /\ d = [c EXCEPT !.offset = @ + got, !.got = 0, !.state = "event"]
  BY <1>3, <1>4, Zenon DEF DoCopy, ScheduleMemRead
<1>6. InMemory(e, c) => got \in 0..BufSize /\ c.offset + got \in 0..MaxObject
  BY <1>1, <1>4, ReadsFromMemory DEF InMemory
<1>7. 0 \in 0..BufSize
  BY <1>0
<1>8. d \in ClientTypes /\ d.type = c.type /\ d.offset >= c.offset
  <2>1. CASE d = [c EXCEPT !.got = 0, !.state = "idle"]
    BY <1>1, <1>2, <1>7, <2>1 DEF ClientTypes
  <2>2. CASE d = [c EXCEPT !.state = "waiting"]
    BY <1>1, <1>2, <2>2 DEF ClientTypes
  <2>3. CASE d = [c EXCEPT !.state = "disk"]
    BY <1>1, <1>2, <2>3 DEF ClientTypes
  <2>4. CASE /\ InMemory(e, c)
             /\ d = [c EXCEPT !.got = got, !.state = "idle"]
    BY <1>1, <1>2, <1>6, <2>4 DEF ClientTypes
  <2>5. CASE /\ InMemory(e, c)
             /\ d = [c EXCEPT !.offset = @ + got, !.got = 0,
                              !.state = "event"]
    <3>1. d \in ClientTypes /\ d.type = c.type /\ d.offset = c.offset + got
      BY <1>1, <1>6, <1>7, <2>5 DEF ClientTypes
    <3>2. c.offset + got >= c.offset
      BY <1>0, <1>2, <1>6, <2>5
    <3> QED
      BY <3>1, <3>2
  <2> QED
    BY <1>5, <2>1, <2>2, <2>3, <2>4, <2>5
<1> QED
  BY <1>3, <1>8, ClientMoves

(* invokeHandlers() swaps out and answers whoever waits.                   *)
LEMMA Invokes ==
    ASSUME NEW e, EntryOK(e), NEW cl, ClientsOK(e, cl), NEW how,
           e.swap # "DONE"
    PROVE  LET s == InvokeHandlers(e, cl, how)
           IN  EntryOK(s.e) /\ ClientsOK(s.e, s.cl)
<1>1. PICK f : f = SwapOut(e, cl, how)
  OBVIOUS
<1>2. EntryOK(f) /\ ClientsOK(f, cl)
  BY <1>1, SwapsOut
<1>3. PICK k : k = [c \in Clients |-> IF cl[c].state = "waiting"
                                     THEN DoCopy(f, cl[c], c \in Eager)
                                     ELSE cl[c]]
  OBVIOUS
<1>4. \A c \in Clients : ClientOK(f, k[c])
  <2> SUFFICES ASSUME NEW c \in Clients PROVE ClientOK(f, k[c])
    OBVIOUS
  <2>1. ClientOK(f, cl[c])
    BY <1>2 DEF ClientsOK
  <2> DEFINE eager == c \in Eager
  <2>2. eager \in BOOLEAN
    OBVIOUS
  <2>3. k[c] = DoCopy(f, cl[c], eager) \/ k[c] = cl[c]
    BY <1>3, Zenon
  <2> HIDE DEF eager
  <2> QED
    BY <1>2, <2>1, <2>2, <2>3, Copies, Zenon
<1>5. ClientsOK(f, k)
  BY <1>3, <1>4 DEF ClientsOK, ClientOK
<1>6. InvokeHandlers(e, cl, how) = [e |-> f, cl |-> k]
  BY <1>1, <1>3, Zenon DEF InvokeHandlers
<1> QED
  BY <1>2, <1>5, <1>6

-----------------------------------------------------------------------------
(* The entry                                                               *)

(* More of a pending object arrives.                                       *)
LEMMA Receives ==
    ASSUME NEW e, EntryOK(e), NEW cl, ClientsOK(e, cl), NEW n \in Nat,
           e.status = "PENDING", e.end + n <= MaxObject
    PROVE  LET f == [e EXCEPT !.end = @ + n]
           IN  EntryOK(f) /\ ClientsOK(f, cl) /\ f.swap # "DONE"
<1>0. MaxObject \in Nat
  BY StoreAssumption
<1>1. /\ e \in EntryTypes
      /\ e.end \in 0..MaxObject /\ e.queue \in 0..MaxObject
  BY DEF EntryOK, EntryTypes
<1>2. PICK m : m = e.end + n
  OBVIOUS
<1>3. m \in 0..MaxObject /\ (e.queue <= e.end => e.queue <= m)
  BY <1>0, <1>1, <1>2
<1>4. PICK f : f = [e EXCEPT !.end = m]
  OBVIOUS
<1>5. f \in EntryTypes
  BY <1>1, <1>3, <1>4 DEF EntryTypes
<1>6. /\ SameFile(e, f) /\ f.status = e.status /\ f.aborted = e.aborted
      /\ f.end = m /\ f.lo = e.lo
      /\ f.released = e.released /\ f.decision = e.decision
  BY <1>1, <1>4 DEF EntryTypes, SameFile
<1>7. SwapAgrees(f)
  BY <1>3, <1>6, Zenon DEF EntryOK, SwapAgrees, SameFile
<1>8. ReleasedWhenBad(f)
  BY <1>6 DEF EntryOK, ReleasedWhenBad, SameFile
<1>9. e.swap # "DONE" /\ ~e.closing
  BY DEF EntryOK, SwapAgrees, ClosesWhole
<1>10. ClosesWhole(f)
  BY <1>6, <1>9 DEF ClosesWhole, SameFile
<1>11. TrimmedIsOnDisk(f)
  BY <1>6, Zenon DEF EntryOK, TrimmedIsOnDisk, SameFile
<1>12. ClientsOK(f, cl)
  BY <1>6, Zenon DEF ClientsOK, ClientOK, SameFile
<1>13. f.swap # "DONE"
  BY <1>6, <1>9 DEF SameFile
<1>14. f = [e EXCEPT !.end = @ + n]
  BY <1>2, <1>4
<1> QED
  BY <1>5, <1>7, <1>8, <1>10, <1>11, <1>12, <1>13, <1>14 DEF EntryOK

(* A pending object ends; one of another length than announced is          *)
(* released.                                                               *)
LEMMA Ends ==
    ASSUME NEW e, EntryOK(e), NEW cl, ClientsOK(e, cl),
           e.status = "PENDING",
           NEW valid \in BOOLEAN, valid => e.clen \in {Unknown, e.end}
    PROVE  LET f == Complete(e, valid)
           IN  EntryOK(f) /\ ClientsOK(f, cl) /\ f.swap # "DONE"
<1>1. e \in EntryTypes
  BY DEF EntryOK
<1>2. PICK g : g = [e EXCEPT !.status = "OK"]
  OBVIOUS
<1>3. /\ g \in EntryTypes /\ SameFile(e, g) /\ g.aborted = e.aborted
      /\ g.end = e.end /\ g.clen = e.clen /\ g.lo = e.lo /\ g.status = "OK"
      /\ g.released = e.released /\ g.decision = e.decision
  BY <1>1, <1>2 DEF EntryTypes, SameFile
<1>4. PICK f : f = Complete(e, valid)
  OBVIOUS
<1>5. /\ f \in EntryTypes /\ SameFile(e, f) /\ f.aborted = e.aborted
      /\ f.end = e.end /\ f.clen = e.clen /\ f.lo = e.lo /\ f.status = "OK"
      /\ f.decision = e.decision /\ (f.released <=> e.released \/ ~valid)
  <2>1. CASE valid
    <3>1. f = g
      BY <1>2, <1>4, <2>1, Zenon DEF Complete
    <3> QED
      BY <1>3, <2>1, <3>1
  <2>2. CASE ~valid
    <3>1. f = ReleaseRequest(g)
      BY <1>2, <1>4, <2>2, Zenon DEF Complete
    <3>2. /\ f \in EntryTypes /\ f.released
          /\ SameObject(g, f) /\ SameFile(g, f)
          /\ f.lo = g.lo /\ f.decision = g.decision
      BY <1>3, <3>1, ReleaseFields
    <3> QED
      BY <1>3, <2>2, <3>2, Zenon DEF SameObject, SameFile
  <2> QED
    BY <2>1, <2>2
<1>6. e.swap # "DONE" /\ ~e.closing
  BY DEF EntryOK, SwapAgrees, ClosesWhole
<1>7. SwapAgrees(f)
  BY <1>5, Zenon DEF EntryOK, SwapAgrees, SameFile
<1>8. ReleasedWhenBad(f)
  BY <1>5, Zenon DEF EntryOK, ReleasedWhenBad, SameFile
<1>9. ClosesWhole(f)
  BY <1>5, <1>6 DEF ClosesWhole, SameFile
<1>10. TrimmedIsOnDisk(f)
  BY <1>5, Zenon DEF EntryOK, TrimmedIsOnDisk, SameFile
<1>11. ClientsOK(f, cl)
  BY <1>5, Zenon DEF ClientsOK, ClientOK, SameFile
<1>12. f.swap # "DONE"
  BY <1>5, <1>6 DEF SameFile
<1> QED
  BY <1>4, <1>5, <1>7, <1>8, <1>9, <1>10, <1>11, <1>12 DEF EntryOK

(* A release breaks nothing.                                               *)
LEMMA Releases ==
    ASSUME NEW e, EntryOK(e), NEW cl, ClientsOK(e, cl)
    PROVE  LET f == ReleaseRequest(e)
           IN  EntryOK(f) /\ ClientsOK(f, cl)
<1>1. PICK f : f = ReleaseRequest(e)
  OBVIOUS
<1>2. /\ f \in EntryTypes /\ f.released
      /\ SameObject(e, f) /\ SameFile(e, f)
      /\ f.lo = e.lo /\ f.decision = e.decision
  BY <1>1, ReleaseFields DEF EntryOK
<1>3. SwapAgrees(f) /\ ClosesWhole(f) /\ TrimmedIsOnDisk(f)
  BY <1>2, Zenon DEF EntryOK, SwapAgrees, ClosesWhole, TrimmedIsOnDisk,
                     SameObject, SameFile
<1>4. ReleasedWhenBad(f)
  BY <1>2, Zenon DEF EntryOK, ReleasedWhenBad, SameObject, SameFile
<1>5. ClientsOK(f, cl)
  BY <1>2, Zenon DEF ClientsOK, ClientOK, SameObject, SameFile
<1> QED
  BY <1>1, <1>2, <1>3, <1>4, <1>5 DEF EntryOK

(* A pending object is given up: its file, if any, is closed and will not  *)
(* be kept.                                                                *)
LEMMA Aborts ==
    ASSUME NEW e, EntryOK(e), NEW cl, ClientsOK(e, cl),
           e.status = "PENDING"
    PROVE  EntryOK(Abort(e)) /\ ClientsOK(Abort(e), cl)
<1>1. e \in EntryTypes
  BY DEF EntryOK
<1>2. PICK g : g = [e EXCEPT !.aborted = TRUE, !.status = "OK"]
  OBVIOUS
<1>3. g \in EntryTypes
  BY <1>1, <1>2, Zenon DEF EntryTypes
<1>4. /\ SameFile(e, g) /\ g.aborted /\ g.status = "OK"
      /\ g.end = e.end /\ g.clen = e.clen /\ g.lo = e.lo
      /\ g.decision = e.decision
  BY <1>1, <1>2 DEF EntryTypes, SameFile
<1>5. PICK r : r = ReleaseRequest(g)
  OBVIOUS
<1>6. /\ r \in EntryTypes /\ r.released
      /\ SameObject(g, r) /\ SameFile(g, r)
      /\ r.lo = g.lo /\ r.decision = g.decision
  BY <1>3, <1>5, ReleaseFields
<1>7. /\ SameFile(e, r) /\ r.aborted /\ r.status = "OK"
      /\ r.end = e.end /\ r.lo = e.lo /\ r.decision = e.decision
  BY <1>4, <1>6, Zenon DEF SameObject, SameFile
<1>8. e.swap # "DONE" /\ ~e.closing
  BY DEF EntryOK, SwapAgrees, ClosesWhole
<1>9. SwapAgrees(r)
  BY <1>7, Zenon DEF EntryOK, SwapAgrees, SameFile
<1>10. ReleasedWhenBad(r)
  BY <1>6, <1>7, Zenon DEF ReleasedWhenBad
<1>11. ClosesWhole(r)
  BY <1>7, <1>8 DEF ClosesWhole, SameFile
<1>12. TrimmedIsOnDisk(r)
  BY <1>7, Zenon DEF EntryOK, TrimmedIsOnDisk, SameFile
<1>13. ClientsOK(r, cl)
  BY <1>7, Zenon DEF ClientsOK, ClientOK, SameFile
<1>14. EntryOK(r)
  BY <1>6, <1>9, <1>10, <1>11, <1>12 DEF EntryOK
<1>15. Abort(e) = SwapOutFileClose(r)
  BY <1>2, <1>5, Zenon DEF Abort
<1> QED
  BY <1>7, <1>13, <1>14, <1>15, Closes

(* A page reaches the disk.                                                *)
LEMMA Writes ==
    ASSUME NEW e, EntryOK(e), NEW cl, ClientsOK(e, cl),
           e.sio, e.written < e.queue
    PROVE  LET f == [e EXCEPT !.written = Min({@ + PageSize, e.queue})]
           IN  EntryOK(f) /\ ClientsOK(f, cl) /\ SameObject(e, f)
<1>0. MaxObject \in Nat /\ PageSize \in Nat
  BY StoreAssumption
<1>1. /\ e \in EntryTypes /\ e.lo \in 0..MaxObject + 1
      /\ e.queue \in 0..MaxObject /\ e.written \in 0..MaxObject
  BY DEF EntryOK, EntryTypes
<1>2. PICK w : w = Min({e.written + PageSize, e.queue})
  OBVIOUS
<1>3. w \in 0..MaxObject /\ e.written <= w /\ w <= e.queue
  <2>1. e.written + PageSize \in Int /\ e.queue \in Int
    BY <1>0, <1>1
  <2>2. w \in {e.written + PageSize, e.queue} /\ w <= e.queue
    BY <1>2, <2>1, MinOfTwo, Zenon
  <2> QED
    BY <1>0, <1>1, <2>2
<1>4. PICK f : f = [e EXCEPT !.written = w]
  OBVIOUS
<1>5. f \in EntryTypes
  BY <1>1, <1>3, <1>4 DEF EntryTypes
<1>6. /\ SameObject(e, f) /\ f.written = w /\ f.lo = e.lo
      /\ f.swap = e.swap /\ f.sio = e.sio /\ f.closing = e.closing
      /\ f.queue = e.queue /\ f.failed = e.failed
      /\ f.released = e.released /\ f.decision = e.decision
  BY <1>1, <1>4 DEF EntryTypes, SameObject
<1>7. SwapAgrees(f)
  BY <1>3, <1>6, Zenon DEF EntryOK, SwapAgrees, SameObject
<1>8. ReleasedWhenBad(f)
  BY <1>6, Zenon DEF EntryOK, ReleasedWhenBad, SameObject
<1>9. e.swap = "WRITING"
  BY DEF EntryOK, SwapAgrees
<1>10. ClosesWhole(f)
  BY <1>6, <1>9 DEF EntryOK, ClosesWhole, SameObject
<1>11. TrimmedIsOnDisk(f)
  <2>1. e.lo < e.written => e.lo < w
    BY <1>0, <1>1, <1>3
  <2> QED
    BY <1>6, <2>1, Zenon DEF EntryOK, TrimmedIsOnDisk
<1>12. ClientsOK(f, cl)
  <2>1. \A c \in Clients : cl[c].offset \in Int
    BY <1>0 DEF ClientsOK, ClientTypes
  <2>2. \A c \in Clients : cl[c].offset < e.written => cl[c].offset < w
    BY <1>0, <1>1, <1>3, <2>1
  <2> QED
    BY <1>6, <2>2, Zenon DEF ClientsOK, ClientOK
<1>13. f = [e EXCEPT !.written = Min({@ + PageSize, e.queue})]
  BY <1>2, <1>4
<1> QED
  BY <1>5, <1>6, <1>7, <1>8, <1>10, <1>11, <1>12, <1>13 DEF EntryOK

(* The file is closed: kept when all of a complete object is in it, and    *)
(* the entry released otherwise.                                           *)
LEMMA ClosesFile ==
    ASSUME NEW e, EntryOK(e), NEW cl, ClientsOK(e, cl), NEW ok \in BOOLEAN,
           e.sio, ok => e.closing /\ e.written = e.queue
    PROVE  LET f == FileClosed(e, ok)
           IN  EntryOK(f) /\ ClientsOK(f, cl) /\ SameObject(e, f)
<1>1. e \in EntryTypes
  BY DEF EntryOK
<1>2. e.swap = "WRITING" /\ e.decision = "swPossible"
  BY DEF EntryOK, SwapAgrees
<1>3. PICK f : f = FileClosed(e, ok)
  OBVIOUS
<1>4. PICK g : g = [e EXCEPT !.sio = FALSE, !.closing = FALSE]
  OBVIOUS
<1>5. g \in EntryTypes
  BY <1>1, <1>4, Zenon DEF EntryTypes
<1>6. /\ SameObject(e, g) /\ g.written = e.written /\ g.lo = e.lo
      /\ g.queue = e.queue /\ g.failed = e.failed /\ ~g.sio /\ ~g.closing
      /\ g.released = e.released /\ g.decision = e.decision
  BY <1>1, <1>4 DEF EntryTypes, SameObject
<1>7. CASE ok /\ e.status = "OK" /\ ~e.aborted
  <2>1. f = [g EXCEPT !.swap = "DONE"]
    BY <1>3, <1>4, <1>7, Zenon DEF FileClosed
  <2>2. /\ f \in EntryTypes /\ SameObject(g, f) /\ f.written = g.written
        /\ f.lo = g.lo /\ f.queue = g.queue /\ f.failed = g.failed
        /\ f.sio = g.sio /\ f.closing = g.closing /\ f.swap = "DONE"
        /\ f.released = g.released /\ f.decision = g.decision
    BY <1>5, <2>1 DEF EntryTypes, SameObject
  <2>3. /\ SameObject(e, f) /\ f.written = e.written /\ f.lo = e.lo
        /\ f.queue = e.queue /\ f.failed = e.failed /\ ~f.sio /\ ~f.closing
        /\ f.released = e.released /\ f.decision = e.decision
    BY <1>6, <2>2, Zenon DEF SameObject
  <2>4. e.written = e.end
    BY <1>7 DEF EntryOK, ClosesWhole
  <2>5. SwapAgrees(f)
    BY <1>2, <1>7, <2>2, <2>3 DEF EntryOK, SwapAgrees, SameObject
  <2>6. ReleasedWhenBad(f)
    BY <2>2, <2>3 DEF EntryOK, ReleasedWhenBad, SameObject
  <2>7. ClosesWhole(f)
    BY <2>2, <2>3, <2>4 DEF ClosesWhole, SameObject
  <2>8. TrimmedIsOnDisk(f)
    BY <1>2, <2>3 DEF EntryOK, TrimmedIsOnDisk
  <2>9. ClientsOK(f, cl)
    BY <1>2, <2>2, <2>3 DEF ClientsOK, ClientOK
  <2> QED
    BY <1>3, <2>2, <2>3, <2>5, <2>6, <2>7, <2>8, <2>9 DEF EntryOK
<1>8. CASE ~(ok /\ e.status = "OK" /\ ~e.aborted)
  <2>1. PICK u : u = [g EXCEPT !.swap = "NONE", !.failed = TRUE]
    OBVIOUS
  <2>2. f = ReleaseRequest(u)
    BY <1>3, <1>4, <1>8, <2>1, Zenon DEF FileClosed
  <2>3. u \in EntryTypes
    BY <1>5, <2>1, Zenon DEF EntryTypes
  <2>4. /\ SameObject(g, u) /\ u.written = g.written
        /\ u.lo = g.lo /\ u.queue = g.queue /\ u.failed
        /\ u.sio = g.sio /\ u.closing = g.closing /\ u.swap = "NONE"
        /\ u.decision = g.decision
    BY <1>5, <2>1 DEF EntryTypes, SameObject
  <2>5. /\ f \in EntryTypes /\ f.released
        /\ SameObject(u, f) /\ SameFile(u, f)
        /\ f.lo = u.lo /\ f.decision = u.decision
    BY <2>2, <2>3, ReleaseFields
  <2>6. /\ SameObject(e, f) /\ f.queue = e.queue /\ f.lo = e.lo
        /\ ~f.sio /\ ~f.closing /\ f.swap = "NONE" /\ f.failed
    BY <1>6, <2>4, <2>5, Zenon DEF SameObject, SameFile
  <2>7. SwapAgrees(f)
    BY <2>6 DEF EntryOK, SwapAgrees, SameObject
  <2>8. ReleasedWhenBad(f)
    BY <2>5, <2>6, Zenon DEF EntryOK, ReleasedWhenBad, SameObject
  <2>9. ClosesWhole(f)
    BY <2>6 DEF ClosesWhole
  <2>10. TrimmedIsOnDisk(f)
    BY <2>6, Zenon DEF TrimmedIsOnDisk
  <2>11. ClientsOK(f, cl)
    BY <2>6, Zenon DEF ClientsOK, ClientOK
  <2> QED
    BY <1>3, <2>5, <2>6, <2>7, <2>8, <2>9, <2>10, <2>11 DEF EntryOK
<1> QED
  BY <1>7, <1>8

-----------------------------------------------------------------------------
(* The steps                                                               *)

(* One client changes.                                                     *)
LEMMA OneClient ==
    ASSUME NEW e, NEW cl, ClientsOK(e, cl), NEW c \in Clients, NEW d,
           ClientOK(e, d)
    PROVE  ClientsOK(e, [cl EXCEPT ![c] = d])
  BY DEF ClientsOK, ClientOK

(* A client of no kind finds all it asks for.                              *)
LEMMA NoClientOK ==
    ASSUME NEW e PROVE ClientOK(e, NoClient)
<1>1. NoClient \in ClientTypes
  BY StoreAssumption DEF NoClient, ClientTypes
<1>2. NoClient.type = "none"
  BY DEF NoClient
<1> QED
  BY <1>1, <1>2 DEF ClientOK

(* A new client gets its data from where it is.                            *)
LEMMA Attaches ==
    ASSUME NEW e, EntryOK(e), NEW cl, ~e.released, NEW d,
           d = [NoClient EXCEPT !.type = StoreClientType(e, cl)]
    PROVE  ClientOK(e, d)
<1>0. MaxObject \in Nat
  BY StoreAssumption
<1>1. e.lo \in 0..MaxObject + 1 /\ e.written \in 0..MaxObject
  BY DEF EntryOK, EntryTypes
<1>2. PICK t : t = StoreClientType(e, cl)
  OBVIOUS
<1>3. \/ t = "mem" /\ ~(e.lo > 0)
      \/ t = "disk" /\ (e.lo > 0 \/ e.swap # "NONE")
  BY <1>2 DEF StoreClientType
<1>4. d \in ClientTypes /\ d.type = t /\ d.offset = 0
  BY <1>2, <1>3, StoreAssumption DEF NoClient, ClientTypes
<1>5. t = "mem" => 0 >= e.lo
  BY <1>0, <1>1, <1>3
<1>6. t = "disk" => e.swap # "NONE"
  BY <1>3 DEF EntryOK, ReleasedWhenBad
<1>7. (t = "disk" /\ 0 < e.lo) => 0 < e.written
  <2>1. (e.lo > 0 /\ e.swap # "NONE") => e.lo < e.written
    BY DEF EntryOK, TrimmedIsOnDisk
  <2> QED
    BY <1>0, <1>1, <1>6, <2>1
<1> QED
  BY <1>4, <1>5, <1>6, <1>7 DEF ClientOK

(* Every step keeps the entry and its clients right.                       *)
LEMMA SoundStep ==
    ASSUME EntryOK(entry), ClientsOK(entry, clients), StoreNext
    PROVE  EntryOK(entry)' /\ ClientsOK(entry, clients)'
<1>0. MaxObject \in Nat /\ BufSize \in Nat
  BY StoreAssumption
<1>1. ASSUME NEW how \in Hows, NEW n \in 1..2, ServerReads(n, how)
      PROVE  EntryOK(entry)' /\ ClientsOK(entry, clients)'
  <2>1. PICK e : e = [entry EXCEPT !.end = @ + n]
    OBVIOUS
  <2>2. PICK s : s = InvokeHandlers(e, clients, how)
    OBVIOUS
  <2>3. entry' = s.e /\ clients' = s.cl
    BY <1>1, <2>1, <2>2, Zenon DEF ServerReads, Becomes
  <2>4. entry.end + n <= MaxObject
    <3>1. /\ entry.end \in 0..MaxObject
          /\ entry.clen \in {Unknown} \cup 1..MaxObject
      BY DEF EntryOK, EntryTypes
    <3>2. entry.end + n <= IF entry.clen = Unknown THEN MaxObject
                           ELSE entry.clen
      BY <1>1 DEF ServerReads
    <3> QED
      BY <1>0, <3>1, <3>2
  <2>5. EntryOK(e) /\ ClientsOK(e, clients) /\ e.swap # "DONE"
    <3>1. entry.status = "PENDING" /\ n \in Nat
      BY <1>1 DEF ServerReads
    <3> QED
      BY <2>1, <2>4, <3>1, Receives, Zenon
  <2>6. EntryOK(s.e) /\ ClientsOK(s.e, s.cl)
    BY <2>2, <2>5, Invokes
  <2> QED
    BY <2>3, <2>6
<1>2. ASSUME NEW how \in Hows, entry.status = "PENDING", NEW s,
             s = InvokeHandlers(Complete(entry, ValidLength(entry)),
                                clients, how)
      PROVE  EntryOK(s.e) /\ ClientsOK(s.e, s.cl)
  <2>0. ValidLength(entry) \in BOOLEAN
    BY DEF ValidLength
  <2>1. PICK valid \in BOOLEAN : valid = ValidLength(entry)
    BY <2>0, Zenon
  <2>2. PICK e : e = Complete(entry, valid)
    OBVIOUS
  <2>3. EntryOK(e) /\ ClientsOK(e, clients) /\ e.swap # "DONE"
    BY <1>2, <2>1, <2>2, Ends DEF ValidLength
  <2>4. s = InvokeHandlers(e, clients, how)
    BY <1>2, <2>1, <2>2, Zenon
  <2> QED
    BY <2>3, <2>4, Invokes
<1>3. ASSUME NEW how \in Hows, ServerEnds(how)
      PROVE  EntryOK(entry)' /\ ClientsOK(entry, clients)'
  <2>1. PICK s : s = InvokeHandlers(Complete(entry, ValidLength(entry)),
                                    clients, how)
    OBVIOUS
  <2>2. entry.status = "PENDING" /\ entry' = s.e /\ clients' = s.cl
    BY <1>3, <2>1, Zenon DEF ServerEnds, Becomes
  <2>3. EntryOK(s.e) /\ ClientsOK(s.e, s.cl)
    BY <1>2, <2>1, <2>2
  <2> QED
    BY <2>2, <2>3
<1>4. ASSUME NEW how \in Hows, ServerTimesOut(how)
      PROVE  EntryOK(entry)' /\ ClientsOK(entry, clients)'
  <2>1. PICK s : s = InvokeHandlers(Complete(entry, ValidLength(entry)),
                                    clients, how)
    OBVIOUS
  <2>2. /\ entry.status = "PENDING"
        /\ Becomes([s EXCEPT !.e = ReleaseRequest(@)])
    BY <1>4, <2>1, Zenon DEF ServerTimesOut
  <2>3. \E e, cl : s = [e |-> e, cl |-> cl]
    BY <2>1, Zenon DEF InvokeHandlers
  <2>4. PICK e, cl : s = [e |-> e, cl |-> cl]
    BY <2>3
  <2>5. entry' = ReleaseRequest(s.e) /\ clients' = s.cl
    BY <2>2, <2>4 DEF Becomes
  <2>6. EntryOK(s.e) /\ ClientsOK(s.e, s.cl)
    BY <1>2, <2>1, <2>2
  <2> QED
    BY <2>5, <2>6, Releases
<1>5. CASE ServerStops
  BY <1>5 DEF ServerStops
<1>6. ASSUME NEW c \in Clients, NEW d, ClientOK(entry, d),
             UNCHANGED entry, clients' = [clients EXCEPT ![c] = d]
      PROVE  EntryOK(entry)' /\ ClientsOK(entry, clients)'
  BY <1>6, OneClient
<1>7. ASSUME NEW c \in Clients, NEW d, ClientOK(entry, d), UNCHANGED entry,
             clients' = [clients EXCEPT ![c] = DoCopy(entry, d, c \in Eager)]
      PROVE  EntryOK(entry)' /\ ClientsOK(entry, clients)'
  <2> DEFINE eager == c \in Eager
  <2>1. eager \in BOOLEAN
    OBVIOUS
  <2>2. clients' = [clients EXCEPT ![c] = DoCopy(entry, d, eager)]
    BY <1>7, Zenon
  <2> HIDE DEF eager
  <2>3. ClientOK(entry, DoCopy(entry, d, eager))
    BY <1>7, <2>1, Copies
  <2> QED
    BY <1>6, <1>7, <2>2, <2>3, Zenon
<1>8. ASSUME NEW c \in Clients, NEW opens \in BOOLEAN, Attach(c, opens)
      PROVE  EntryOK(entry)' /\ ClientsOK(entry, clients)'
  <2>1. PICK d : d = [NoClient EXCEPT
                        !.type = StoreClientType(entry, clients)]
    OBVIOUS
  <2>2. ClientOK(entry, d) /\ UNCHANGED entry
    BY <1>8, <2>1, Attaches DEF Attach
  <2>3. \/ clients' = [clients EXCEPT ![c] = [d EXCEPT !.state = "failed"]]
        \/ clients' = [clients EXCEPT ![c] = DoCopy(entry, d, c \in Eager)]
    BY <1>8, <2>1, Zenon DEF Attach
  <2>4. ClientOK(entry, [d EXCEPT !.state = "failed"])
    <3>1. PICK f : f = [d EXCEPT !.state = "failed"]
      OBVIOUS
    <3>2. f \in ClientTypes /\ f.type = d.type /\ f.offset = d.offset
      BY <2>2, <3>1 DEF ClientOK, ClientTypes
    <3> QED
      BY <2>2, <3>1, <3>2, Zenon DEF ClientOK
  <2> QED
    BY <1>6, <1>7, <2>2, <2>3, <2>4
<1>9. ASSUME NEW c \in Clients, NEW offset \in 0..MaxObject, Copy(c, offset)
      PROVE  EntryOK(entry)' /\ ClientsOK(entry, clients)'
  <2>1. PICK k : k = clients[c]
    OBVIOUS
  <2>2. PICK d : d = [k EXCEPT !.offset = offset, !.got = 0]
    OBVIOUS
  <2>3. ClientOK(entry, k)
    BY <2>1 DEF ClientsOK
  <2>4. k \in ClientTypes /\ k.offset \in 0..MaxObject /\ k.got \in 0..BufSize
    BY <2>3 DEF ClientOK, ClientTypes
  <2>5. d \in ClientTypes /\ d.type = k.type /\ d.offset = offset
    <3>1. 0 \in 0..BufSize
      BY <1>0
    <3> QED
      BY <2>2, <2>4, <3>1 DEF ClientTypes
  <2>6. offset >= k.offset + k.got
    BY <1>9, <2>1 DEF Copy
  <2>7. d.offset >= k.offset
    BY <1>0, <2>4, <2>5, <2>6
  <2>8. ClientOK(entry, d)
    BY <2>3, <2>5, <2>7, ClientMoves
  <2>9. /\ clients' = [clients EXCEPT ![c] = DoCopy(entry, d, c \in Eager)]
        /\ UNCHANGED entry
    BY <1>9, <2>1, <2>2, Zenon DEF Copy
  <2> QED
    BY <1>7, <2>8, <2>9
<1>10. ASSUME NEW c \in Clients, StoreClientCopyEvent(c)
       PROVE  EntryOK(entry)' /\ ClientsOK(entry, clients)'
  <2>1. ClientOK(entry, clients[c])
    BY DEF ClientsOK
  <2>2. /\ clients' = [clients EXCEPT
                        ![c] = DoCopy(entry, clients[c], c \in Eager)]
        /\ UNCHANGED entry
    BY <1>10, Zenon DEF StoreClientCopyEvent
  <2> QED
    BY <1>7, <2>1, <2>2
<1>11. ASSUME NEW c \in Clients, NEW n \in 0..BufSize, DiskRead(c, n)
       PROVE  EntryOK(entry)' /\ ClientsOK(entry, clients)'
  <2>1. PICK k : k = clients[c]
    OBVIOUS
  <2>2. ClientOK(entry, k)
    BY <2>1 DEF ClientsOK
  <2>3. PICK z \in {"failed", "idle"} :
           z = IF n = 0 THEN "failed" ELSE "idle"
    OBVIOUS
  <2>4. PICK d : d = [k EXCEPT !.got = n, !.state = z]
    OBVIOUS
  <2>5. d \in ClientTypes /\ d.type = k.type /\ d.offset = k.offset
    BY <2>2, <2>4 DEF ClientOK, ClientTypes
  <2>6. ClientOK(entry, d)
    BY <2>2, <2>5, Zenon DEF ClientOK
  <2>7. UNCHANGED entry /\ clients' = [clients EXCEPT ![c] = d]
    BY <1>11, <2>1, <2>3, <2>4 DEF DiskRead, ClientsOK
  <2> QED
    BY <1>6, <2>6, <2>7
<1>12. ASSUME NEW c \in Clients, NEW how \in Hows,
              NEW quickAbort \in BOOLEAN, Leave(c, how, quickAbort)
       PROVE  EntryOK(entry)' /\ ClientsOK(entry, clients)'
  <2>1. PICK cl : cl = [clients EXCEPT ![c] = NoClient]
    OBVIOUS
  <2>2. ClientsOK(entry, cl)
    BY <2>1, NoClientOK, OneClient
  <2>3. PICK f : f = IF entry.status = "OK" /\ entry.swap # "DONE"
                     THEN SwapOut(entry, cl, how) ELSE entry
    OBVIOUS
  <2>4. EntryOK(f) /\ ClientsOK(f, cl)
    BY <2>2, <2>3, SwapsOut
  <2>5. /\ clients' = cl
        /\ entry' = f \/ (f.status = "PENDING" /\ entry' = Abort(f))
    BY <1>12, <2>1, <2>3, Zenon DEF Leave
  <2> QED
    BY <2>4, <2>5, Aborts
<1>13. CASE PageWritten
  <2>1. /\ entry.sio /\ entry.written < entry.queue /\ UNCHANGED clients
        /\ entry' = [entry EXCEPT !.written = Min({@ + PageSize,
                                                   entry.queue})]
    BY <1>13 DEF PageWritten
  <2> QED
    BY <2>1, Writes
<1>14. ASSUME NEW ok \in BOOLEAN, StoreSwapOutFileClosed(ok)
       PROVE  EntryOK(entry)' /\ ClientsOK(entry, clients)'
  <2>1. /\ entry.sio /\ UNCHANGED clients
        /\ ok => entry.closing /\ entry.written = entry.queue
        /\ entry' = FileClosed(entry, ok)
    BY <1>14, Zenon DEF StoreSwapOutFileClosed
  <2> QED
    BY <2>1, ClosesFile
<1> QED
  BY <1>1, <1>3, <1>4, <1>5, <1>8, <1>9, <1>10, <1>11, <1>12, <1>13, <1>14
  DEF StoreNext

(* The read-ahead gap depends on the end of the object and on where the    *)
(* memory clients are.                                                     *)
LEMMA SameGap ==
    ASSUME NEW e, NEW f, f.end = e.end, NEW cl, NEW k,
           \A c \in Clients : k[c].type = cl[c].type
                              /\ k[c].offset = cl[c].offset
    PROVE  /\ ReadAheadPolicyCanRead(f, k) = ReadAheadPolicyCanRead(e, cl)
           /\ Attached(k) = Attached(cl)
<1>1. MemReaders(k) = MemReaders(cl) /\ Attached(k) = Attached(cl)
  BY DEF MemReaders, Attached
<1>2. {k[c].offset : c \in MemReaders(k)}
         = {cl[c].offset : c \in MemReaders(cl)}
  BY <1>1 DEF MemReaders
<1>3. LowestMemReaderOffset(f, k) = LowestMemReaderOffset(e, cl)
  BY <1>2, Zenon DEF LowestMemReaderOffset
<1> QED
  BY <1>1, <1>3, Zenon DEF ReadAheadPolicyCanRead

(* A read is deferred only when it was found to be too far ahead.          *)
LEMMA DeferredStep ==
    ASSUME EntryOK(entry), ClientsOK(entry, clients),
           server \in {"reading", "deferred", "gone"},
           DeferredOnlyWhenAhead, StoreNext
    PROVE  /\ server' \in {"reading", "deferred", "gone"}
           /\ DeferredOnlyWhenAhead'
<1> DEFINE Done == /\ server' \in {"reading", "deferred", "gone"}
                   /\ DeferredOnlyWhenAhead'
<1>1. ASSUME server' = "gone" PROVE Done
  BY <1>1 DEF DeferredOnlyWhenAhead
<1>2. ASSUME NEW s, s.e = entry', s.cl = clients',
             server' = NextRead(s) \/ server' = KickReads(s)
      PROVE  Done
  <2>1. \/ server' = NextRead(s)
        \/ server' = server /\ server # "deferred"
    BY <1>2 DEF KickReads
  <2>2. server' \in {"reading", "deferred", "gone"}
    BY <2>1 DEF NextRead
  <2>3. server' = "deferred" => ~ReadAheadPolicyCanRead(entry', clients')
    BY <1>2, <2>1 DEF NextRead
  <2> QED
    BY <2>2, <2>3 DEF DeferredOnlyWhenAhead
<1>3. ASSUME UNCHANGED server, entry'.end = entry.end,
             entry'.aborted = entry.aborted,
             \A c \in Clients : clients'[c].type = clients[c].type
                                /\ clients'[c].offset = clients[c].offset
      PROVE  Done
  <2>1. /\ ReadAheadPolicyCanRead(entry', clients')
              = ReadAheadPolicyCanRead(entry, clients)
        /\ Attached(clients') = Attached(clients)
    BY <1>3, SameGap
  <2> QED
    BY <1>3, <2>1, Zenon DEF DeferredOnlyWhenAhead
<1> HIDE DEF Done
<1>4. ASSUME NEW how \in Hows, NEW n \in 1..2, ServerReads(n, how)
      PROVE  Done
  <2>1. PICK s : s = InvokeHandlers([entry EXCEPT !.end = @ + n],
                                    clients, how)
    OBVIOUS
  <2>2. entry' = s.e /\ clients' = s.cl /\ server' = NextRead(s)
    BY <1>4, <2>1, Zenon DEF ServerReads, Becomes
  <2> QED
    BY <1>2, <2>2
<1>5. CASE ServerStops \/ \E how \in Hows : \/ ServerEnds(how)
                                           \/ ServerTimesOut(how)
  <2>1. server' = "gone"
    BY <1>5 DEF ServerEnds, ServerTimesOut, ServerStops
  <2> QED
    BY <1>1, <2>1 DEF Done
<1>6. ASSUME UNCHANGED entry,
             server' = KickReads([e |-> entry, cl |-> clients'])
      PROVE  Done
  <2>1. PICK s : s = [e |-> entry, cl |-> clients']
    OBVIOUS
  <2>2. s.e = entry' /\ s.cl = clients' /\ server' = KickReads(s)
    BY <1>6, <2>1
  <2> QED
    BY <1>2, <2>2
<1>7. ASSUME NEW c \in Clients,
             \/ \E opens \in BOOLEAN : Attach(c, opens)
             \/ \E offset \in 0..MaxObject : Copy(c, offset)
             \/ StoreClientCopyEvent(c)
      PROVE  Done
  BY <1>6, <1>7, Zenon DEF Attach, Copy, StoreClientCopyEvent
<1>8. ASSUME NEW c \in Clients, NEW n \in 0..BufSize, DiskRead(c, n)
      PROVE  Done
  <2>1. UNCHANGED <<entry, server>>
    BY <1>8 DEF DiskRead
  <2>2. \A k \in Clients : clients'[k].type = clients[k].type
                           /\ clients'[k].offset = clients[k].offset
    BY <1>8 DEF DiskRead, ClientsOK, ClientTypes
  <2> QED
    BY <1>3, <2>1, <2>2
<1>9. ASSUME NEW c \in Clients, NEW how \in Hows,
             NEW quickAbort \in BOOLEAN, Leave(c, how, quickAbort)
      PROVE  Done
  <2>1. PICK cl : cl = [clients EXCEPT ![c] = NoClient]
    OBVIOUS
  <2>2. PICK f : f = IF entry.status = "OK" /\ entry.swap # "DONE"
                     THEN SwapOut(entry, cl, how) ELSE entry
    OBVIOUS
  <2>3. CASE Attached(cl) = {}
    <3>1. clients' = cl /\ UNCHANGED server
      BY <1>9, <2>1, <2>3, Zenon DEF Leave
    <3> QED
      BY <2>3, <3>1 DEF Done, DeferredOnlyWhenAhead
  <2>4. CASE Attached(cl) # {}
    <3>1. /\ clients' = cl /\ entry' = f
          /\ server' = KickReads([e |-> f, cl |-> cl])
      BY <1>9, <2>1, <2>2, <2>4, Zenon DEF Leave
    <3>2. PICK s : s = [e |-> f, cl |-> cl]
      OBVIOUS
    <3>3. s.e = entry' /\ s.cl = clients' /\ server' = KickReads(s)
      BY <3>1, <3>2
    <3> QED
      BY <1>2, <3>3
  <2> QED
    BY <2>3, <2>4
<1>10. ASSUME UNCHANGED <<clients, server>>, SameObject(entry, entry')
       PROVE  Done
  BY <1>3, <1>10 DEF SameObject
<1>11. CASE PageWritten
  <2>1. /\ entry.sio /\ entry.written < entry.queue
        /\ entry' = [entry EXCEPT !.written = Min({@ + PageSize,
                                                   entry.queue})]
        /\ UNCHANGED <<clients, server>>
    BY <1>11 DEF PageWritten
  <2>2. SameObject(entry, entry') /\ UNCHANGED <<clients, server>>
    BY <2>1, Writes
  <2> QED
    BY <1>10, <2>2 DEF Done
<1>12. ASSUME NEW ok \in BOOLEAN, StoreSwapOutFileClosed(ok)
       PROVE  Done
  <2>1. /\ entry.sio /\ UNCHANGED <<clients, server>>
        /\ ok => entry.closing /\ entry.written = entry.queue
        /\ entry' = FileClosed(entry, ok)
    BY <1>12, Zenon DEF StoreSwapOutFileClosed
  <2>2. SameObject(entry, entry')
    BY <2>1, ClosesFile
  <2> QED
    BY <1>10, <2>1, <2>2
<1>13. Done
  BY <1>4, <1>5, <1>7, <1>8, <1>9, <1>11, <1>12
  DEF StoreNext, Done
<1> QED
  BY <1>13 DEF Done

(* A miss: nothing is there and one client waits.                          *)
LEMMA StoreInitially == StoreInit => StoreInv
<1> SUFFICES ASSUME StoreInit PROVE StoreInv
  OBVIOUS
<1>0. MaxObject \in Nat /\ BufSize \in Nat
  BY StoreAssumption
<1>1. PICK clen \in {Unknown} \cup 1..MaxObject :
         entry = [status |-> "PENDING", aborted |-> FALSE,
                  released |-> FALSE, end |-> 0, lo |-> 0, dataLo |-> 0,
                  clen |-> clen, decision |-> "swNeedsCheck",
                  swap |-> "NONE", queue |-> 0, sio |-> FALSE,
                  closing |-> FALSE, written |-> 0, failed |-> FALSE,
                  dead |-> FALSE]
  BY DEF StoreInit
<1>2. entry \in EntryTypes
  <2>1. 0 \in 0..MaxObject /\ 0 \in 0..MaxObject + 1
    BY <1>0
  <2> QED
    BY <1>1, <2>1, Zenon DEF EntryTypes
<1>3. /\ entry.status = "PENDING" /\ ~entry.aborted /\ ~entry.released
      /\ entry.end = 0 /\ entry.lo = 0 /\ entry.swap = "NONE"
      /\ entry.queue = 0 /\ ~entry.sio /\ ~entry.closing
      /\ entry.written = 0 /\ ~entry.failed
  BY <1>1
<1>4. EntryOK(entry)
  BY <1>2, <1>3 DEF EntryOK, SwapAgrees, ReleasedWhenBad, ClosesWhole,
                    TrimmedIsOnDisk
<1>5. PICK c \in Clients :
         clients = [d \in Clients |->
                      IF d = c THEN [NoClient EXCEPT !.type = "mem",
                                                     !.state = "waiting"]
                      ELSE NoClient]
  BY DEF StoreInit
<1>6. PICK m : m = [NoClient EXCEPT !.type = "mem", !.state = "waiting"]
  OBVIOUS
<1>7. m \in ClientTypes /\ m.type = "mem" /\ m.offset = 0
  <2>1. NoClient \in ClientTypes /\ NoClient.offset = 0
    BY <1>0 DEF NoClient, ClientTypes
  <2> QED
    BY <1>6, <2>1 DEF ClientTypes
<1>8. ClientOK(entry, m)
  BY <1>3, <1>7 DEF ClientOK
<1>9. ClientsOK(entry, clients)
  <2>1. \A d \in Clients : clients[d] = m \/ clients[d] = NoClient
    BY <1>5, <1>6
  <2>2. \A d \in Clients : ClientOK(entry, clients[d])
    BY <1>8, <2>1, NoClientOK
  <2> QED
    BY <1>5, <2>2 DEF ClientsOK, ClientOK
<1>10. server = "reading"
  BY DEF StoreInit
<1> QED
  BY <1>4, <1>9, <1>10 DEF StoreInv, DeferredOnlyWhenAhead

(* Every step keeps the inductive invariant.                               *)
LEMMA StoreStep == StoreInv /\ [StoreNext]_vars => StoreInv'
<1> SUFFICES ASSUME StoreInv, [StoreNext]_vars PROVE StoreInv'
  OBVIOUS
<1>1. CASE StoreNext
  BY <1>1, SoundStep, DeferredStep DEF StoreInv
<1>2. CASE UNCHANGED vars
  BY <1>2, Zenon DEF vars, StoreInv, DeferredOnlyWhenAhead, EntryOK, ClientsOK
<1> QED
  BY <1>1, <1>2

(* The inductive invariant always holds.                                   *)
LEMMA StoreAlways == StoreSpec => []StoreInv
  BY StoreInitially, StoreStep, PTL DEF StoreSpec

-----------------------------------------------------------------------------
(* Theorems                                                                *)

(* Types; the swap-out file is open exactly while it is written, and what  *)
(* is written was queued and what is queued was received.                  *)
THEOREM StoreTypes == StoreSpec => []StoreTypeOK
<1>1. StoreInv => StoreTypeOK
  BY Zenon DEF StoreInv, EntryOK, SwapAgrees, ClientsOK, StoreTypeOK
<1> QED
  BY <1>1, StoreAlways, PTL

(* What a client may still ask for is in memory or on the disk: no         *)
(* trimming, whatever its trigger, gives up a unit that a memory client    *)
(* will ask for, or that a disk client cannot read yet.                    *)
THEOREM StoreReadersSafe == StoreSpec => []ReadersHaveData
<1>1. StoreInv => ReadersHaveData
  BY Zenon DEF StoreInv, ClientsOK, ClientOK, ReadersHaveData
<1> QED
  BY <1>1, StoreAlways, PTL

(* A file that is kept for later hits holds the whole object, of the       *)
(* length that the server announced.                                       *)
THEOREM StoreSwappedSafe == StoreSpec => []SwappedWhole
<1>1. StoreInv => SwappedWhole
  BY DEF StoreInv, EntryOK, SwapAgrees, ReleasedWhenBad, ClosesWhole,
         SwappedWhole
<1> QED
  BY <1>1, StoreAlways, PTL

(* A read of the server side is deferred only while the object is more     *)
(* than the read-ahead gap ahead of its slowest memory client: whatever    *)
(* opens the gap, a copy or a client that leaves, also kicks the read.     *)
THEOREM StoreDeferredSafe == StoreSpec => []DeferredOnlyWhenAhead
<1>1. StoreInv => DeferredOnlyWhenAhead
  BY DEF StoreInv
<1> QED
  BY <1>1, StoreAlways, PTL

-----------------------------------------------------------------------------
(***************************************************************************)
(* Induction up to N.  The library's induction theorems have an operator   *)
(* as parameter, which the provers do not find; here it is the set G, and  *)
(* the least number outside of it leads to the contradiction.              *)
(***************************************************************************)
LEMMA UpTo ==
    ASSUME NEW N \in Nat, NEW G, 0 \in G,
           \A n \in 1..N : n - 1 \in G => n \in G
    PROVE  \A n \in 0..N : n \in G
<1> DEFINE Bad == (0..N) \ G
<1> SUFFICES ASSUME Bad # {} PROVE FALSE
  OBVIOUS
<1>1. Bad \in SUBSET Nat
  OBVIOUS
<1>2. Min(Bad) \in Bad /\ \A y \in Bad : Min(Bad) <= y
  <2> HIDE DEF Bad
  <2> QED
    BY <1>1, MinOfMany
<1>3. PICK m \in Bad : \A y \in Bad : m <= y
  BY <1>2
<1>4. m \in 1..N /\ m - 1 \in 0..N /\ ~(m <= m - 1)
  BY <1>3
<1> QED
  BY <1>3, <1>4

(***************************************************************************)
(* A loop, as a recursive function f of the number of rounds: step is what *)
(* a round does to the states S.  There is such a function, so that its    *)
(* recursive definition is sound, and what each round preserves holds      *)
(* after any number of rounds.                                             *)
(***************************************************************************)
Loop(f, a, step, N) ==
    f = [n \in 0..N |-> IF n = 0 THEN a ELSE step[f[n - 1]]]

(* The loop has such a function, and the states it passes stay in S.       *)
LEMMA LoopExists ==
    ASSUME NEW S, NEW a \in S, NEW step \in [S -> S], NEW N \in Nat
    PROVE  \E f : Loop(f, a, step, N) /\ \A n \in 0..N : f[n] \in S
<1> DEFINE Stays(f, n) ==
              Loop(f, a, step, n) /\ \A i \in 0..n : f[i] \in S
           G == {n \in 0..N : \E f : Stays(f, n)}
<1>1. 0 \in G
  <2> DEFINE g == [n \in 0..0 |-> a]
  <2>1. Stays(g, 0)
    BY DEF Loop
  <2> QED
    BY <2>1
<1>2. ASSUME NEW m \in 1..N, m - 1 \in G PROVE m \in G
  <2>1. m \in Nat /\ m # 0 /\ m - 1 \in Nat
    OBVIOUS
  <2>2. PICK f : Stays(f, m - 1)
    BY <1>2
  <2> DEFINE g == [n \in 0..m |-> IF n = m THEN step[f[m - 1]] ELSE f[n]]
  <2>3. \A n \in 0..(m - 1) : f[n] = IF n = 0 THEN a ELSE step[f[n - 1]]
    BY <2>1, <2>2 DEF Loop
  <2>4. \A n \in 0..m : g[n] = IF n = 0 THEN a ELSE step[g[n - 1]]
    <3> TAKE n \in 0..m
    <3>1. CASE n = m
      BY <2>1, <3>1
    <3>2. CASE n # m
      <4>1. n \in 0..(m - 1) /\ (n # 0 => n - 1 \in 0..m /\ n - 1 # m)
        BY <2>1, <3>2
      <4> QED
        BY <2>3, <3>2, <4>1
    <3> QED
      BY <3>1, <3>2
  <2>5. \A n \in 0..m : g[n] \in S
    <3>1. m - 1 \in 0..(m - 1) /\ \A n \in 0..m : n # m => n \in 0..(m - 1)
      BY <2>1
    <3>2. \A n \in 0..(m - 1) : f[n] \in S
      BY <2>2
    <3> QED
      BY <3>1, <3>2
  <2>6. g = [n \in 0..m |-> g[n]]
    OBVIOUS
  <2> HIDE DEF g
  <2>7. g = [n \in 0..m |-> IF n = 0 THEN a ELSE step[g[n - 1]]]
    BY <2>4, <2>6
  <2>8. Stays(g, m)
    BY <2>5, <2>7 DEF Loop
  <2> HIDE DEF Stays
  <2> QED
    BY <2>8
<1>3. N \in G
  <2>1. \A n \in 1..N : n - 1 \in G => n \in G
    BY <1>2
  <2> HIDE DEF G
  <2> QED
    BY <1>1, <2>1, UpTo
<1> QED
  BY <1>3

-----------------------------------------------------------------------------
(***************************************************************************)
(* The inductive invariant, an operator of the helper g, because handlers  *)
(* call each other half-way: x is the server whose answer is being         *)
(* returned, and which counts it still; n requests were submitted, and     *)
(* those in T are in nobody's hands at the moment.                         *)
(***************************************************************************)
ServerTypes ==
    [slot : [Channels -> Requests \cup {None}], pending : Int,
     wqueue : SUBSET Channels, writebuf : SUBSET Channels,
     replied : BOOLEAN, shutdown : BOOLEAN, closing : BOOLEAN,
     alive : BOOLEAN]

HelperTypes ==
    [list : Seq(Servers), srv : [Servers -> ServerTypes],
     queue : Seq(Requests), active : Int, answers : [Requests -> Nat],
     gone : SUBSET Requests, exits : {"no", "fatal", "assert"},
     forkFailed : BOOLEAN]

Shape(g) == g \in HelperTypes /\ IsInjective(g.list)

(* The counters are exact.                                                 *)
UsedIn(g, s) == {ch \in Channels : g.srv[s].slot[ch] # None}

Counts(g, x) ==
    /\ g.active = Cardinality(InService(g))
    /\ \A s \in Listed(g) :
          g.srv[s].pending = Cardinality(UsedIn(g, s))
                                + (IF s = x THEN 1 ELSE 0)

(* A request is in one place at most, and nowhere before it is submitted.  *)
Slot(g, s, ch) == g.srv[s].slot[ch]

OnePlace(g, n, T) ==
    /\ IsInjective(g.queue)
    /\ \A s, t \in Listed(g) : \A c, d \in Channels :
          (Slot(g, s, c) # None /\ Slot(g, s, c) = Slot(g, t, d))
              => s = t /\ c = d
    /\ \A i \in DOMAIN g.queue :
          /\ g.queue[i] \in (1..n) \ T /\ g.answers[g.queue[i]] = 0
          /\ \A s \in Listed(g), c \in Channels : Slot(g, s, c) # g.queue[i]
    /\ \A s \in Listed(g), c \in Channels : Slot(g, s, c) # None =>
          Slot(g, s, c) \in (1..n) \ T /\ g.answers[Slot(g, s, c)] = 0
    /\ \A r \in Requests :
          g.answers[r] = 0 \/ (g.answers[r] = 1 /\ r \in (1..n) \ T)

(* And it is somewhere, unless nobody wants to know the answer.            *)
Somewhere(g, n, T) ==
    \A r \in (1..n) \ g.gone :
        \/ r \in T \/ g.answers[r] = 1
        \/ \E i \in DOMAIN g.queue : g.queue[i] = r
        \/ \E s \in Listed(g), c \in Channels : Slot(g, s, c) = r

HelperOK(g, x, n, T) ==
    Shape(g) /\ Counts(g, x) /\ OnePlace(g, n, T) /\ Somewhere(g, n, T)

HelperInv ==
    /\ Shape(h)
    /\ h.exits = "no" => HelperOK(h, None, submitted, {})
    /\ submitted \in 0..MaxRequests

-----------------------------------------------------------------------------
(* Numbers of helpers                                                      *)

(* The constants, as the provers want them.                                *)
LEMMA HelperConstants ==
    /\ NMax \in Nat \ {0} /\ NIdle \in Nat \ {0} /\ MaxProcesses \in Nat \ {0}
    /\ MaxRequests \in Nat \ {0} /\ NStartup \in Nat /\ Concurrency \in Nat
    /\ NStartup <= NMax /\ NStartup <= MaxProcesses
    /\ Leaving \subseteq 1..MaxRequests
    /\ MaxPending \in Nat \ {0}
    /\ Channels = 0..(MaxPending - 1) /\ IsFiniteSet(Channels)
    /\ Cardinality(Channels) = MaxPending
    /\ IsFiniteSet(Servers) /\ Cardinality(Servers) = MaxProcesses
<1>1. /\ NMax \in Nat \ {0} /\ NIdle \in Nat \ {0}
      /\ MaxProcesses \in Nat \ {0} /\ MaxRequests \in Nat \ {0}
      /\ NStartup \in Nat /\ Concurrency \in Nat
      /\ NStartup <= NMax /\ NStartup <= MaxProcesses
      /\ Leaving \subseteq 1..MaxRequests
  BY HelperAssumption
<1>2. MaxPending \in Nat \ {0}
  BY <1>1 DEF MaxPending
<1>3. Channels = 0..(MaxPending - 1)
  BY DEF Channels
<1>4. IsFiniteSet(Channels) /\ Cardinality(Channels) = MaxPending
  BY <1>2, <1>3, FS_Interval
<1>5. IsFiniteSet(Servers) /\ Cardinality(Servers) = MaxProcesses
  BY <1>1, FS_Interval DEF Servers
<1> QED
  BY <1>1, <1>2, <1>3, <1>4, <1>5

(* The list and its set of servers.                                        *)
LEMMA ListedServers ==
    ASSUME NEW g, Shape(g)
    PROVE  /\ g.list \in Seq(Servers) /\ Listed(g) \subseteq Servers
           /\ DOMAIN g.list = 1..Len(g.list) /\ Len(g.list) \in Nat
           /\ \A s : s \in Listed(g) <=> \E i \in DOMAIN g.list : s = g.list[i]
           /\ IsFiniteSet(Listed(g)) /\ Cardinality(Listed(g)) = Len(g.list)
           /\ IsFiniteSet(InService(g)) /\ InService(g) \subseteq Listed(g)
           /\ None \notin Listed(g)
<1>1. /\ g.list \in Seq(Servers) /\ IsInjective(g.list)
      /\ DOMAIN g.list = 1..Len(g.list) /\ Len(g.list) \in Nat
  BY DEF Shape, HelperTypes
<1>2. \A s : s \in Listed(g) <=> \E i \in DOMAIN g.list : s = g.list[i]
  BY DEF Listed, ToSet
<1>3. Listed(g) \subseteq Servers
  BY <1>1, <1>2
<1>4. IsFiniteSet(Listed(g))
  BY <1>3, HelperConstants, FS_Subset
<1>5. Cardinality(Listed(g)) = Len(g.list)
  <2>1. g.list \in [1..Len(g.list) -> Listed(g)]
    BY <1>1, <1>2
  <2>2. \A s \in Listed(g) : \E i \in 1..Len(g.list) : g.list[i] = s
    BY <1>1, <1>2
  <2>3. \A i, j \in 1..Len(g.list) : g.list[i] = g.list[j] => i = j
    BY <1>1 DEF IsInjective
  <2>4. ExistsBijection(1..Len(g.list), Listed(g))
    BY <2>1, <2>2, <2>3, Zenon
    DEF ExistsBijection, Bijection, Injection, Surjection, IsInjective
  <2> QED
    BY <1>1, <2>4, FS_CountingElements
<1>6. IsFiniteSet(InService(g)) /\ InService(g) \subseteq Listed(g)
  BY <1>4, FS_Subset DEF InService
<1>7. None \notin Listed(g)
  BY <1>3 DEF None, Servers
<1> QED
  BY <1>1, <1>2, <1>3, <1>4, <1>5, <1>6, <1>7

(* GetFirstAvailable() answers with a server in service that has room.     *)
LEMMA AvailableHasRoom ==
    ASSUME NEW g, Shape(g), Available(g) # None
    PROVE  /\ Available(g) \in InService(g)
           /\ g.srv[Available(g)].pending < MaxPending
<1> DEFINE load(i) == g.srv[g.list[i]].pending
           usable == {i \in DOMAIN g.list : ~g.srv[g.list[i]].shutdown}
           less == {i \in usable : load(i) < load(Min(usable))}
           selected == IF less = {} THEN Min(usable) ELSE Min(less)
<1>1. Available(g) = IF usable = {} \/ load(selected) >= MaxPending
                     THEN None ELSE g.list[selected]
  BY DEF Available
<1>2. usable # {} /\ ~(load(selected) >= MaxPending)
  BY <1>1
<1>3. usable \in SUBSET Nat /\ less \in SUBSET Nat
  <2>1. DOMAIN g.list \subseteq Nat
    BY ListedServers
  <2> QED
    BY <2>1
<1>4. Min(usable) \in usable
  BY <1>2, <1>3, MinOfMany
<1>5. less # {} => Min(less) \in less
  BY <1>3, MinOfMany
<1>6. selected \in usable
  BY <1>4, <1>5
<1>7. g.list[selected] \in InService(g) /\ g.list[selected] \in Servers
  <2> HIDE DEF selected
  <2> QED
    BY <1>6, ListedServers DEF InService
<1>8. load(selected) < MaxPending
  <2>1. load(selected) \in Int
    <3> HIDE DEF selected
    <3> QED
      BY <1>7 DEF Shape, HelperTypes, ServerTypes
  <2> HIDE DEF selected
  <2> QED
    BY <1>2, <2>1, HelperConstants
<1>9. Available(g) = g.list[selected]
  BY <1>1, <1>2
<1> HIDE DEF selected, usable
<1> QED
  BY <1>7, <1>8, <1>9

-----------------------------------------------------------------------------
(* helperDispatch() and helperKickQueue()                                  *)

(* A server with fewer used channels than it has has a free one: the       *)
(* assertion in helperDispatch().                                          *)
LEMMA FreeChannelIsFree ==
    ASSUME NEW g, Shape(g), NEW s \in Servers,
           Cardinality(UsedIn(g, s)) < MaxPending
    PROVE  /\ FreeChannel(g, s) \in Channels
           /\ Slot(g, s, FreeChannel(g, s)) = None
<1> DEFINE F == {ch \in Channels : g.srv[s].slot[ch] = None}
<1>1. F # {}
  <2> SUFFICES ASSUME F = {} PROVE FALSE
    OBVIOUS
  <2>1. UsedIn(g, s) = Channels
    BY DEF UsedIn
  <2> QED
    BY <2>1, HelperConstants
<1>2. F \in SUBSET Nat
  BY HelperConstants
<1>3. Min(F) \in F
  <2> HIDE DEF F
  <2> QED
    BY <1>1, <1>2, MinOfMany
<1> QED
  BY <1>3 DEF FreeChannel, Slot

(* What a dispatch does to the fields of the helper.                       *)
LEMMA DispatchEffect ==
    ASSUME NEW g, Shape(g), NEW s \in Servers, NEW r \in Requests,
           r \notin g.gone, NEW ch \in Channels, ch = FreeChannel(g, s),
           NEW d, d = Dispatch(g, s, r)
    PROVE  /\ d \in HelperTypes
           /\ d.list = g.list /\ d.queue = g.queue /\ d.active = g.active
           /\ d.answers = g.answers /\ d.gone = g.gone
           /\ \A t \in Servers : t # s => d.srv[t] = g.srv[t]
           /\ d.srv[s].slot = [g.srv[s].slot EXCEPT ![ch] = r]
           /\ d.srv[s].pending = g.srv[s].pending + 1
           /\ d.srv[s].shutdown = g.srv[s].shutdown
<1> DEFINE v == g.srv[s]
           full == v.wqueue \union {ch}
           w == [v EXCEPT !.slot[ch] = r, !.pending = @ + 1,
                          !.wqueue = IF v.writebuf = {} THEN {} ELSE full,
                          !.writebuf = IF v.writebuf = {} THEN full ELSE @]
           e == IF v.writebuf = {} /\ v.closing THEN "assert" ELSE g.exits
<1>1. g \in HelperTypes /\ v \in ServerTypes
  BY DEF Shape, HelperTypes
<1>2. w \in ServerTypes
  <2> DEFINE wq == IF v.writebuf = {} THEN {} ELSE full
             wb == IF v.writebuf = {} THEN full ELSE v.writebuf
             sl == [v.slot EXCEPT ![ch] = r]
             pe == v.pending + 1
  <2>1. pe \in Int /\ wq \in SUBSET Channels /\ wb \in SUBSET Channels
        /\ sl \in [Channels -> Requests \cup {None}]
    BY <1>1 DEF ServerTypes
  <2> DEFINE v1 == [v EXCEPT !.slot = sl, !.pending = pe]
             v2 == [v1 EXCEPT !.wqueue = wq]
             v3 == [v2 EXCEPT !.writebuf = wb]
  <2>2. w = v3
    BY <1>1 DEF ServerTypes
  <2> HIDE DEF v, wq, wb, sl, pe, w
  <2>3. v1 \in ServerTypes
    BY <1>1, <2>1 DEF ServerTypes
  <2> HIDE DEF v1
  <2>4. v2 \in ServerTypes
    BY <2>1, <2>3 DEF ServerTypes
  <2> HIDE DEF v2
  <2>5. v3 \in ServerTypes
    BY <2>1, <2>4 DEF ServerTypes
  <2> QED
    BY <2>2, <2>5
<1>3. /\ w.slot = [v.slot EXCEPT ![ch] = r] /\ w.pending = v.pending + 1
      /\ w.shutdown = v.shutdown
  <2> HIDE DEF v, full
  <2> QED
    BY <1>1 DEF ServerTypes
<1>4. d = [g EXCEPT !.srv[s] = w, !.exits = e]
  BY Zenon DEF Dispatch
<1>5. e \in {"no", "fatal", "assert"}
  BY <1>1 DEF HelperTypes
<1> HIDE DEF w, e, v
<1>6. /\ d \in HelperTypes
      /\ d.list = g.list /\ d.queue = g.queue /\ d.active = g.active
      /\ d.answers = g.answers /\ d.gone = g.gone
      /\ d.srv = [g.srv EXCEPT ![s] = w]
  <2> DEFINE sv == [g.srv EXCEPT ![s] = w]
  <2>1. sv \in [Servers -> ServerTypes]
    BY <1>1, <1>2 DEF HelperTypes
  <2>2. d = [g EXCEPT !.srv = sv, !.exits = e]
    BY <1>1, <1>4 DEF HelperTypes
  <2> HIDE DEF sv
  <2>3. /\ d \in HelperTypes
        /\ d.list = g.list /\ d.queue = g.queue /\ d.active = g.active
        /\ d.answers = g.answers /\ d.gone = g.gone /\ d.srv = sv
    BY <1>1, <1>5, <2>1, <2>2 DEF HelperTypes
  <2> QED
    BY <2>3 DEF sv
<1>7. \A t \in Servers : d.srv[t] = IF t = s THEN w ELSE g.srv[t]
  BY <1>1, <1>6 DEF HelperTypes
<1> QED
  BY <1>3, <1>6, <1>7 DEF v

(* A dispatched request goes from nobody's hands to a channel, or is       *)
(* dropped because its caller is gone.                                     *)
LEMMA DispatchKeeps ==
    ASSUME NEW g, NEW x, NEW n \in 0..MaxRequests, NEW T, NEW r \in 1..n,
           r \notin T, HelperOK(g, x, n, T \cup {r}),
           NEW s \in Listed(g), g.srv[s].pending < MaxPending
    PROVE  HelperOK(Dispatch(g, s, r), x, n, T)
<1>1. r \in Requests /\ n \in Nat
  BY HelperConstants DEF Requests
<1>2. Shape(g) /\ Counts(g, x) /\ OnePlace(g, n, T \cup {r})
      /\ Somewhere(g, n, T \cup {r})
  BY DEF HelperOK
<1>3. s \in Servers
  BY <1>2, ListedServers
<1>4. CASE r \in g.gone
  <2>1. Dispatch(g, s, r) = g
    BY <1>4 DEF Dispatch
  <2>2. OnePlace(g, n, T)
    BY <1>2 DEF OnePlace
  <2>3. Somewhere(g, n, T)
    BY <1>2, <1>4 DEF Somewhere
  <2> QED
    BY <1>2, <2>1, <2>2, <2>3 DEF HelperOK
<1>5. CASE r \notin g.gone
  <2> DEFINE ch == FreeChannel(g, s)
             d == Dispatch(g, s, r)
  <2>1. Cardinality(UsedIn(g, s)) < MaxPending /\ IsFiniteSet(UsedIn(g, s))
        /\ Cardinality(UsedIn(g, s)) \in Nat
    <3>1. IsFiniteSet(UsedIn(g, s))
      BY HelperConstants, FS_Subset DEF UsedIn
    <3>2. g.srv[s].pending = Cardinality(UsedIn(g, s))
                                + (IF s = x THEN 1 ELSE 0)
      BY <1>2 DEF Counts
    <3> QED
      BY <3>1, <3>2, FS_CardinalityType, HelperConstants
  <2>2. ch \in Channels /\ Slot(g, s, ch) = None
    BY <1>2, <1>3, <2>1, FreeChannelIsFree
  <2> HIDE DEF ch, d
  <2>3. /\ d \in HelperTypes
        /\ d.list = g.list /\ d.queue = g.queue /\ d.active = g.active
        /\ d.answers = g.answers /\ d.gone = g.gone
        /\ \A t \in Servers : t # s => d.srv[t] = g.srv[t]
        /\ d.srv[s].slot = [g.srv[s].slot EXCEPT ![ch] = r]
        /\ d.srv[s].pending = g.srv[s].pending + 1
        /\ d.srv[s].shutdown = g.srv[s].shutdown
    BY <1>1, <1>2, <1>3, <1>5, <2>2, DispatchEffect DEF ch, d
  <2>4. Listed(d) = Listed(g) /\ InService(d) = InService(g)
    <3>1. Listed(d) = Listed(g)
      BY <2>3 DEF Listed
    <3> QED
      BY <1>2, <2>3, <3>1, ListedServers DEF InService
  <2>5. \A t \in Servers, c \in Channels :
          Slot(d, t, c) = IF t = s /\ c = ch THEN r ELSE Slot(g, t, c)
    <3>1. g.srv[s].slot \in [Channels -> Requests \cup {None}]
      BY <1>2, <1>3 DEF Shape, HelperTypes, ServerTypes
    <3> QED
      BY <2>3, <3>1 DEF Slot
  <2>6. Shape(d)
    BY <1>2, <2>3 DEF Shape
  <2>7. Counts(d, x)
    <3>1. UsedIn(d, s) = UsedIn(g, s) \cup {ch} /\ ch \notin UsedIn(g, s)
      BY <1>1, <1>3, <2>2, <2>5 DEF UsedIn, Slot, Requests, None
    <3>2. Cardinality(UsedIn(d, s)) = Cardinality(UsedIn(g, s)) + 1
      BY <2>1, <3>1, FS_AddElement
    <3>3. \A t \in Listed(g) : t # s => UsedIn(d, t) = UsedIn(g, t)
      BY <1>2, <2>3, ListedServers DEF UsedIn
    <3>4. ASSUME NEW t \in Listed(g)
          PROVE  d.srv[t].pending = Cardinality(UsedIn(d, t))
                                        + (IF t = x THEN 1 ELSE 0)
      <4>1. g.srv[t].pending = Cardinality(UsedIn(g, t))
                                    + (IF t = x THEN 1 ELSE 0)
        BY <1>2 DEF Counts
      <4>2. CASE t = s
        BY <2>1, <2>3, <3>2, <4>1, <4>2
      <4>3. CASE t # s
        BY <1>2, <2>3, <3>3, <4>1, <4>3, ListedServers
      <4> QED
        BY <4>2, <4>3
    <3> QED
      BY <1>2, <2>3, <2>4, <3>4 DEF Counts
  <2>8. OnePlace(d, n, T)
    <3>1. \A t \in Listed(g) : t \in Servers
      BY <1>2, ListedServers
    <3>2. \A t \in Listed(g), c \in Channels : Slot(g, t, c) # r
      BY <1>1, <1>2 DEF OnePlace, Requests, None
    <3>3. \A i \in DOMAIN g.queue : g.queue[i] # r
      BY <1>2 DEF OnePlace
    <3>4. g.answers[r] = 0
      BY <1>1, <1>2 DEF OnePlace
    <3>5. \A t, u \in Listed(g) : \A c, e \in Channels :
            (Slot(d, t, c) # None /\ Slot(d, t, c) = Slot(d, u, e))
                => t = u /\ c = e
      BY <1>2, <2>5, <3>1, <3>2 DEF OnePlace
    <3>6. \A i \in DOMAIN g.queue :
            /\ g.queue[i] \in (1..n) \ T /\ g.answers[g.queue[i]] = 0
            /\ \A t \in Listed(g), c \in Channels : Slot(d, t, c) # g.queue[i]
      BY <1>2, <2>5, <3>1, <3>3 DEF OnePlace
    <3>7. \A t \in Listed(g), c \in Channels : Slot(d, t, c) # None =>
            Slot(d, t, c) \in (1..n) \ T /\ g.answers[Slot(d, t, c)] = 0
      BY <1>2, <2>5, <3>1, <3>4 DEF OnePlace
    <3>8. \A q \in Requests :
            g.answers[q] = 0 \/ (g.answers[q] = 1 /\ q \in (1..n) \ T)
      BY <1>2 DEF OnePlace
    <3>9. IsInjective(g.queue)
      BY <1>2 DEF OnePlace
    <3> QED
      BY <2>3, <2>4, <3>5, <3>6, <3>7, <3>8, <3>9 DEF OnePlace
  <2>9. Somewhere(d, n, T)
    <3>1. \A t \in Listed(g) : t \in Servers
      BY <1>2, ListedServers
    <3>2. \A t \in Listed(g), c \in Channels :
            Slot(g, t, c) \in 1..n => Slot(d, t, c) = Slot(g, t, c)
      BY <2>2, <2>5, <3>1 DEF None
    <3>3. Slot(d, s, ch) = r
      BY <1>3, <2>2, <2>5
    <3> QED
      BY <1>2, <2>2, <2>3, <2>4, <3>2, <3>3 DEF Somewhere
  <2> QED
    BY <2>6, <2>7, <2>8, <2>9 DEF HelperOK, d
<1> QED
  BY <1>4, <1>5

(* Where a request is in the list of servers does not depend on the queue. *)
LEMMA SameServers ==
    ASSUME NEW f, NEW g, f.list = g.list, f.srv = g.srv
    PROVE  /\ Listed(f) = Listed(g) /\ InService(f) = InService(g)
           /\ \A s : UsedIn(f, s) = UsedIn(g, s)
           /\ \A s, ch : Slot(f, s, ch) = Slot(g, s, ch)
<1>1. Listed(f) = Listed(g)
  BY DEF Listed
<1> QED
  BY <1>1, Zenon DEF InService, UsedIn, Slot

(* Dequeue(): the first request is in nobody's hands then.                 *)
LEMMA DequeueKeeps ==
    ASSUME NEW g, NEW x, NEW n \in 0..MaxRequests, NEW T,
           HelperOK(g, x, n, T), g.queue # <<>>
    PROVE  /\ Head(g.queue) \in 1..n /\ Head(g.queue) \notin T
           /\ HelperOK([g EXCEPT !.queue = Tail(@)], x, n,
                       T \cup {Head(g.queue)})
<1> DEFINE f == [g EXCEPT !.queue = Tail(@)]
           r == Head(g.queue)
<1>1. Shape(g) /\ Counts(g, x) /\ OnePlace(g, n, T) /\ Somewhere(g, n, T)
  BY DEF HelperOK
<1>2. g.queue \in Seq(Requests) /\ g \in HelperTypes
  BY <1>1 DEF Shape, HelperTypes
<1>3. /\ Tail(g.queue) \in Seq(Requests) /\ r = g.queue[1]
      /\ Len(Tail(g.queue)) = Len(g.queue) - 1 /\ Len(g.queue) \in Nat \ {0}
      /\ \A i \in 1..Len(Tail(g.queue)) : Tail(g.queue)[i] = g.queue[i + 1]
  BY <1>2
<1>4. /\ DOMAIN g.queue = 1..Len(g.queue) /\ 1 \in DOMAIN g.queue
      /\ DOMAIN Tail(g.queue) = 1..(Len(g.queue) - 1)
  BY <1>2, <1>3
<1>5. /\ f \in HelperTypes /\ f.queue = Tail(g.queue)
      /\ f.list = g.list /\ f.srv = g.srv /\ f.active = g.active
      /\ f.answers = g.answers /\ f.gone = g.gone
  BY <1>2, <1>3 DEF HelperTypes
<1> HIDE DEF f
<1>6. /\ Listed(f) = Listed(g) /\ InService(f) = InService(g)
      /\ \A s : UsedIn(f, s) = UsedIn(g, s)
      /\ \A s, ch : Slot(f, s, ch) = Slot(g, s, ch)
  BY <1>5, SameServers
<1>7. r \in 1..n /\ r \notin T
  BY <1>1, <1>3, <1>4 DEF OnePlace
<1>8. \A i \in DOMAIN f.queue :
        /\ i + 1 \in DOMAIN g.queue /\ f.queue[i] = g.queue[i + 1]
        /\ i \in Nat /\ i + 1 # 1
  BY <1>3, <1>4, <1>5
<1>9. Shape(f)
  BY <1>1, <1>5 DEF Shape
<1>10. Counts(f, x)
  BY <1>1, <1>5, <1>6 DEF Counts
<1>11. OnePlace(f, n, T \cup {r})
  <2>1. \A i \in DOMAIN f.queue : f.queue[i] # r
    BY <1>1, <1>3, <1>4, <1>8 DEF OnePlace, IsInjective
  <2>2. IsInjective(f.queue)
    <3>1. \A i, j \in DOMAIN f.queue : f.queue[i] = f.queue[j] =>
            i + 1 = j + 1
      BY <1>1, <1>8 DEF OnePlace, IsInjective
    <3> QED
      BY <1>8, <3>1 DEF IsInjective
  <2>3. \A i \in DOMAIN f.queue :
          /\ f.queue[i] \in (1..n) \ (T \cup {r})
          /\ f.answers[f.queue[i]] = 0
          /\ \A s \in Listed(f), c \in Channels : Slot(f, s, c) # f.queue[i]
    BY <1>1, <1>5, <1>6, <1>8, <2>1 DEF OnePlace
  <2>4. \A s \in Listed(g), c \in Channels : Slot(g, s, c) # r
    BY <1>1, <1>3, <1>4 DEF OnePlace
  <2>5. g.answers[r] = 0
    BY <1>1, <1>3, <1>4 DEF OnePlace
  <2>6. \A s \in Listed(f), c \in Channels : Slot(f, s, c) # None =>
          /\ Slot(f, s, c) \in (1..n) \ (T \cup {r})
          /\ f.answers[Slot(f, s, c)] = 0
    BY <1>1, <1>5, <1>6, <2>4 DEF OnePlace
  <2>7. \A q \in Requests : f.answers[q] = 0
          \/ (f.answers[q] = 1 /\ q \in (1..n) \ (T \cup {r}))
    BY <1>1, <1>5, <2>5 DEF OnePlace
  <2>8. \A s, t \in Listed(f) : \A c, d \in Channels :
          (Slot(f, s, c) # None /\ Slot(f, s, c) = Slot(f, t, d))
              => s = t /\ c = d
    BY <1>1, <1>6 DEF OnePlace
  <2> QED
    BY <2>2, <2>3, <2>6, <2>7, <2>8 DEF OnePlace
<1>12. Somewhere(f, n, T \cup {r})
  <2> SUFFICES ASSUME NEW q \in (1..n) \ g.gone, q # r, q \notin T,
                      g.answers[q] # 1
               PROVE  \/ \E i \in DOMAIN f.queue : f.queue[i] = q
                      \/ \E s \in Listed(g), c \in Channels :
                            Slot(g, s, c) = q
    BY <1>5, <1>6 DEF Somewhere
  <2>1. CASE \E i \in DOMAIN g.queue : g.queue[i] = q
    <3>1. PICK i \in DOMAIN g.queue : g.queue[i] = q
      BY <2>1
    <3>2. i # 1 /\ i \in 1..Len(g.queue)
      BY <1>3, <1>4, <3>1
    <3>3. i - 1 \in DOMAIN f.queue /\ f.queue[i - 1] = q
      <4>1. i - 1 \in 1..(Len(g.queue) - 1)
        BY <1>3, <3>2
      <4> QED
        BY <1>3, <1>4, <1>5, <3>1, <3>2, <4>1
    <3> QED
      BY <3>3
  <2> QED
    BY <1>1, <2>1 DEF Somewhere
<1> QED
  BY <1>7, <1>9, <1>10, <1>11, <1>12 DEF HelperOK, f

(* One round of helperKickQueue().                                         *)
LEMMA KickOneKeeps ==
    ASSUME NEW g, NEW x, NEW n \in 0..MaxRequests, NEW T,
           HelperOK(g, x, n, T)
    PROVE  HelperOK(KickOne(g), x, n, T)
<1>1. CASE g.queue = <<>> \/ Available(g) = None \/ g.exits # "no"
  BY <1>1 DEF KickOne
<1>2. CASE ~(g.queue = <<>> \/ Available(g) = None \/ g.exits # "no")
  <2> DEFINE f == [g EXCEPT !.queue = Tail(@)]
             s == Available(g)
             r == Head(g.queue)
  <2>1. r \in 1..n /\ r \notin T /\ HelperOK(f, x, n, T \cup {r})
    BY <1>2, DequeueKeeps
  <2>2. s \in InService(g) /\ g.srv[s].pending < MaxPending
    BY <1>2, AvailableHasRoom DEF HelperOK
  <2>3. f.srv = g.srv /\ f.list = g.list
    BY DEF HelperOK, Shape, HelperTypes
  <2>4. s \in Listed(f) /\ f.srv[s].pending < MaxPending
    BY <2>2, <2>3 DEF InService, Listed
  <2>5. KickOne(g) = Dispatch(f, s, r)
    BY <1>2 DEF KickOne
  <2> HIDE DEF f, s, r
  <2> QED
    BY <2>1, <2>4, <2>5, DispatchKeeps
<1> QED
  BY <1>1, <1>2

(* helperKickQueue(), any number of rounds.                                *)
LEMMA KickQueueKeeps ==
    ASSUME NEW g, NEW x, NEW n \in 0..MaxRequests, NEW T,
           HelperOK(g, x, n, T)
    PROVE  HelperOK(KickQueue(g), x, n, T)
<1> DEFINE S == {f \in HelperTypes : HelperOK(f, x, n, T)}
           step == [f \in S |-> KickOne(f)]
           N == Len(g.queue)
           Kicks(k) == k = [m \in 0..N |->
                                IF m = 0 THEN g ELSE KickOne(k[m - 1])]
           kick == CHOOSE k : Kicks(k)
<1>1. g \in S /\ N \in Nat
  BY DEF HelperOK, Shape, HelperTypes
<1>2. \A f \in S : KickOne(f) \in S
  BY KickOneKeeps DEF HelperOK, Shape
<1> HIDE DEF S, N
<1>3. step \in [S -> S] /\ \A f \in S : step[f] = KickOne(f)
  BY <1>2
<1> HIDE DEF step
<1>4. PICK k : Loop(k, g, step, N) /\ \A m \in 0..N : k[m] \in S
  BY <1>1, <1>3, LoopExists
<1>5. Kicks(k)
  <2>1. \A m \in 0..N : m # 0 => m - 1 \in 0..N
    BY <1>1
  <2>2. \A m \in 0..N : m # 0 => step[k[m - 1]] = KickOne(k[m - 1])
    BY <1>3, <1>4, <2>1
  <2>3. [m \in 0..N |-> IF m = 0 THEN g ELSE step[k[m - 1]]]
          = [m \in 0..N |-> IF m = 0 THEN g ELSE KickOne(k[m - 1])]
    BY <2>2
  <2> QED
    BY <1>4, <2>3 DEF Loop
<1>7. Kicks(kick)
  BY <1>5, Zenon
<1>8. KickQueue(g) = kick[N]
  BY DEF KickQueue, N
<1> HIDE DEF kick
<1>9. \A m \in 0..N : kick[m] \in S
  <2> DEFINE G == {m \in 0..N : kick[m] \in S}
  <2>1. \A m \in 0..N : kick[m] = IF m = 0 THEN g ELSE KickOne(kick[m - 1])
    BY <1>7
  <2>2. 0 \in G
    BY <1>1, <2>1
  <2>3. \A m \in 1..N : m - 1 \in G => m \in G
    BY <1>1, <1>2, <2>1
  <2>4. \A m \in 0..N : m \in G
    <3> HIDE DEF G
    <3> QED
      BY <1>1, <2>2, <2>3, UpTo
  <2> QED
    BY <2>4
<1> QED
  BY <1>1, <1>8, <1>9 DEF S

-----------------------------------------------------------------------------
(* helperOpenServers() and helperSubmit()                                  *)

(* There are enough records of servers that are not in the list.           *)
LEMMA NewServers ==
    ASSUME NEW g, Shape(g), NEW k \in Nat, k <= MaxProcesses - Len(g.list)
    PROVE  \E q \in [1..k -> Servers \ Listed(g)] : IsInjective(q)
<1> DEFINE F == Servers \ Listed(g)
<1>1. IsFiniteSet(F) /\ Cardinality(F) = MaxProcesses - Len(g.list)
  <2>1. Servers \cap Listed(g) = Listed(g)
    BY ListedServers
  <2>2. IsFiniteSet(F) /\ Cardinality(F)
            = Cardinality(Servers) - Cardinality(Servers \cap Listed(g))
    BY HelperConstants, FS_Difference
  <2> QED
    BY <2>1, <2>2, HelperConstants, ListedServers
<1>2. PICK N \in Nat : ExistsBijection(1..N, F)
  BY <1>1, FS_NatBijection
<1>3. N = Cardinality(F)
  BY <1>2, FS_CountingElements
<1>4. PICK b \in [1..N -> F] : \A i, j \in 1..N : b[i] = b[j] => i = j
  BY <1>2, Zenon
  DEF ExistsBijection, Bijection, Injection, IsInjective
<1> DEFINE q == [i \in 1..k |-> b[i]]
<1>5. k <= N
  BY <1>1, <1>3
<1>6. q \in [1..k -> F] /\ IsInjective(q)
  BY <1>4, <1>5 DEF IsInjective
<1> QED
  BY <1>6

(* The record of a new server.                                             *)
LEMMA NewServerType ==
    /\ NewServer \in ServerTypes /\ NewServer.pending = 0
    /\ NewServer.shutdown = FALSE
    /\ NewServer.slot = [ch \in Channels |-> None]
<1> DEFINE sl == [ch \in Channels |-> None]
<1>1. sl \in [Channels -> Requests \cup {None}] /\ 0 \in Int
  OBVIOUS
<1>2. NewServer = [slot |-> sl, pending |-> 0,
              wqueue |-> {}, writebuf |-> {}, replied |-> FALSE,
              shutdown |-> FALSE, closing |-> FALSE, alive |-> TRUE]
  BY DEF NewServer
<1> HIDE DEF sl
<1>3. NewServer \in ServerTypes
  BY <1>1, <1>2, Zenon DEF ServerTypes
<1>4. /\ NewServer.pending = 0 /\ NewServer.shutdown = FALSE
      /\ NewServer.slot = sl
  BY <1>2, Zenon
<1> QED
  BY <1>3, <1>4 DEF sl

(* New servers are idle and in service.                                    *)
LEMMA OpenServersKeeps ==
    ASSUME NEW g, NEW x, NEW n \in 0..MaxRequests, NEW T,
           HelperOK(g, x, n, T), x \in Listed(g) \cup {None},
           NEW k \in Nat, k <= MaxProcesses - Len(g.list), NEW special
    PROVE  HelperOK(OpenServers(g, k, special), x, n, T)
<1> DEFINE new == CHOOSE q \in [1..k -> Servers \ Listed(g)] : IsInjective(q)
           sv == [s \in Servers |->
                    IF s \in ToSet(new) THEN NewServer ELSE g.srv[s]]
           ff == g.forkFailed \/ k < NeedNew(g.active, special)
           f == [g EXCEPT !.list = @ \o new, !.srv = sv, !.active = @ + k,
                          !.forkFailed = ff]
<1>1. Shape(g) /\ Counts(g, x) /\ OnePlace(g, n, T) /\ Somewhere(g, n, T)
  BY DEF HelperOK
<1>2. g \in HelperTypes /\ g.list \in Seq(Servers) /\ g.active \in Int
  BY <1>1 DEF Shape, HelperTypes
<1>3. new \in [1..k -> Servers \ Listed(g)] /\ IsInjective(new)
  BY <1>1, NewServers
<1>4. OpenServers(g, k, special) = KickQueue(f)
  BY <1>2 DEF OpenServers, HelperTypes
<1> HIDE DEF new
<1>5. /\ new \in Seq(Servers) /\ Len(new) = k /\ DOMAIN new = 1..k
      /\ \A s : s \in ToSet(new) <=> \E i \in 1..k : s = new[i]
      /\ ToSet(new) \subseteq Servers /\ ToSet(new) \cap Listed(g) = {}
  BY <1>3 DEF ToSet
<1>6. /\ g.list \o new \in Seq(Servers)
      /\ DOMAIN (g.list \o new) = 1..(Len(g.list) + k)
      /\ \A i \in 1..(Len(g.list) + k) : (g.list \o new)[i] =
            IF i <= Len(g.list) THEN g.list[i] ELSE new[i - Len(g.list)]
  <2> DEFINE l == g.list
  <2>1. l \in Seq(Servers) /\ new \in Seq(Servers) /\ Len(new) = k
    BY <1>2, <1>5
  <2> HIDE DEF l
  <2>2. l \o new \in Seq(Servers) /\ Len(l \o new) = Len(l) + k
    BY <2>1, ConcatProperties
  <2>3. DOMAIN (l \o new) = 1..(Len(l) + k)
    BY <2>2
  <2>4. \A i \in 1..(Len(l) + k) : (l \o new)[i] =
            IF i <= Len(l) THEN l[i] ELSE new[i - Len(l)]
    BY <2>1, ConcatProperties
  <2> QED
    BY <2>2, <2>3, <2>4 DEF l
<1>7. NewServer \in ServerTypes /\ NewServer.pending = 0
      /\ NewServer.shutdown = FALSE
      /\ NewServer.slot = [ch \in Channels |-> None]
  BY NewServerType
<1>8. /\ sv \in [Servers -> ServerTypes]
      /\ \A s \in Servers : s \notin ToSet(new) => sv[s] = g.srv[s]
      /\ \A s \in ToSet(new) : sv[s] = NewServer
  BY <1>2, <1>5, <1>7 DEF HelperTypes
<1> HIDE DEF sv
<1>9. ff \in BOOLEAN /\ g.active + k \in Int
  BY <1>2 DEF HelperTypes
<1> HIDE DEF ff
<1>10. /\ f \in HelperTypes /\ f.queue = g.queue
       /\ f.list = g.list \o new /\ f.srv = sv /\ f.active = g.active + k
       /\ f.answers = g.answers /\ f.gone = g.gone
  <2> DEFINE ls == g.list \o new
             ac == g.active + k
             f1 == [g EXCEPT !.list = ls, !.srv = sv]
             f2 == [f1 EXCEPT !.active = ac]
             f3 == [f2 EXCEPT !.forkFailed = ff]
  <2>1. f = f3
    BY <1>2 DEF HelperTypes
  <2>2. ls \in Seq(Servers) /\ ac \in Int
    BY <1>6, <1>9
  <2> HIDE DEF ls, ac, f
  <2>3. /\ f1 \in HelperTypes /\ f1.queue = g.queue /\ f1.list = ls
        /\ f1.srv = sv /\ f1.answers = g.answers /\ f1.gone = g.gone
    BY <1>2, <1>8, <2>2 DEF HelperTypes
  <2> HIDE DEF f1
  <2>4. /\ f2 \in HelperTypes /\ f2.queue = g.queue /\ f2.list = ls
        /\ f2.srv = sv /\ f2.answers = g.answers /\ f2.gone = g.gone
        /\ f2.active = ac
    BY <2>2, <2>3 DEF HelperTypes
  <2> HIDE DEF f2
  <2>5. /\ f3 \in HelperTypes /\ f3.queue = g.queue /\ f3.list = ls
        /\ f3.srv = sv /\ f3.answers = g.answers /\ f3.gone = g.gone
        /\ f3.active = ac
    BY <1>9, <2>4 DEF HelperTypes
  <2> QED
    BY <2>1, <2>5 DEF ls, ac
<1> HIDE DEF f
<1>11. Listed(f) = Listed(g) \cup ToSet(new)
  <2>1. \A s : s \in Listed(f) <=>
            \E i \in 1..(Len(g.list) + k) : s = f.list[i]
    BY <1>6, <1>10 DEF Listed, ToSet
  <2>2. ASSUME NEW s \in Listed(f) PROVE s \in Listed(g) \cup ToSet(new)
    <3>1. PICK i \in 1..(Len(g.list) + k) : s = f.list[i]
      BY <2>1, <2>2
    <3>2. CASE i <= Len(g.list)
      BY <1>1, <1>6, <1>10, <3>1, <3>2, ListedServers
    <3>3. CASE ~(i <= Len(g.list))
      <4>1. i - Len(g.list) \in 1..k
        BY <1>1, <3>1, <3>3, ListedServers
      <4>2. s = new[i - Len(g.list)]
        BY <1>6, <1>10, <3>1, <3>3
      <4> QED
        BY <1>5, <4>1, <4>2
    <3> QED
      BY <3>2, <3>3
  <2>3. ASSUME NEW s \in Listed(g) PROVE s \in Listed(f)
    <3>1. PICK i \in 1..Len(g.list) : s = g.list[i]
      BY <1>1, <2>3, ListedServers
    <3>2. i \in 1..(Len(g.list) + k) /\ f.list[i] = s
      BY <1>1, <1>6, <1>10, <3>1, ListedServers
    <3> QED
      BY <2>1, <3>2
  <2>4. ASSUME NEW s \in ToSet(new) PROVE s \in Listed(f)
    <3>1. PICK i \in 1..k : s = new[i]
      BY <1>5, <2>4
    <3>2. /\ Len(g.list) + i \in 1..(Len(g.list) + k)
          /\ ~(Len(g.list) + i <= Len(g.list))
          /\ (Len(g.list) + i) - Len(g.list) = i
      BY <1>1, ListedServers
    <3>3. f.list[Len(g.list) + i] = s
      BY <1>6, <1>10, <3>1, <3>2
    <3> QED
      BY <2>1, <3>2, <3>3
  <2> QED
    BY <2>2, <2>3, <2>4
<1>12. \A s \in Listed(g) : s \in Servers /\ f.srv[s] = g.srv[s]
  BY <1>1, <1>5, <1>8, <1>10, ListedServers
<1>13. \A s \in ToSet(new) : f.srv[s] = NewServer
  BY <1>8, <1>10
<1>14. InService(f) = InService(g) \cup ToSet(new)
  BY <1>7, <1>11, <1>12, <1>13 DEF InService
<1>15. Shape(f)
  <2>1. \A i, j \in 1..(Len(g.list) + k) : f.list[i] = f.list[j] => i = j
    <3> SUFFICES ASSUME NEW i \in 1..(Len(g.list) + k),
                        NEW j \in 1..(Len(g.list) + k),
                        f.list[i] = f.list[j]
                 PROVE  i = j
      OBVIOUS
    <3>1. Len(g.list) \in Nat
      BY <1>1, ListedServers
    <3>2. \A m \in 1..Len(g.list) : g.list[m] \in Listed(g)
      BY <1>1, ListedServers
    <3>3. \A m \in 1..k : new[m] \in ToSet(new)
      BY <1>5
    <3>4. CASE i <= Len(g.list) /\ j <= Len(g.list)
      BY <1>1, <1>6, <1>10, <3>1, <3>4, ListedServers DEF Shape, IsInjective
    <3>5. CASE i <= Len(g.list) /\ ~(j <= Len(g.list))
      <4>1. f.list[i] = g.list[i] /\ f.list[j] = new[j - Len(g.list)]
            /\ i \in 1..Len(g.list) /\ j - Len(g.list) \in 1..k
        BY <1>6, <1>10, <3>1, <3>5
      <4> QED
        BY <1>5, <3>2, <3>3, <4>1
    <3>6. CASE ~(i <= Len(g.list)) /\ j <= Len(g.list)
      <4>1. f.list[j] = g.list[j] /\ f.list[i] = new[i - Len(g.list)]
            /\ j \in 1..Len(g.list) /\ i - Len(g.list) \in 1..k
        BY <1>6, <1>10, <3>1, <3>6
      <4> QED
        BY <1>5, <3>2, <3>3, <4>1
    <3>7. CASE ~(i <= Len(g.list)) /\ ~(j <= Len(g.list))
      <4>1. /\ f.list[i] = new[i - Len(g.list)] /\ i - Len(g.list) \in 1..k
            /\ f.list[j] = new[j - Len(g.list)] /\ j - Len(g.list) \in 1..k
        <5>1. i - Len(g.list) \in 1..k /\ j - Len(g.list) \in 1..k
          BY <3>1, <3>7
        <5> QED
          BY <1>6, <1>10, <3>1, <3>7, <5>1
      <4>2. i - Len(g.list) = j - Len(g.list)
        BY <1>3, <1>5, <4>1 DEF IsInjective
      <4> QED
        BY <3>1, <4>2
    <3> QED
      BY <3>4, <3>5, <3>6, <3>7
  <2> QED
    BY <1>6, <1>10, <2>1 DEF Shape, IsInjective
<1>16. \A s \in ToSet(new), c \in Channels : Slot(f, s, c) = None
  BY <1>7, <1>13 DEF Slot
<1>17. \A s \in Listed(g), c \in Channels : Slot(f, s, c) = Slot(g, s, c)
  BY <1>12 DEF Slot
<1>18. Counts(f, x)
  <2>1. IsFiniteSet(ToSet(new)) /\ Cardinality(ToSet(new)) = k
    <3>1. /\ new \in [1..k -> ToSet(new)]
          /\ \A s \in ToSet(new) : \E i \in 1..k : new[i] = s
          /\ \A i, j \in 1..k : new[i] = new[j] => i = j
      BY <1>3, <1>5 DEF IsInjective
    <3>2. ExistsBijection(1..k, ToSet(new))
      BY <3>1, Zenon
      DEF ExistsBijection, Bijection, Injection, Surjection, IsInjective
    <3>3. IsFiniteSet(ToSet(new))
      BY <1>5, HelperConstants, FS_Subset
    <3> QED
      BY <3>2, <3>3, FS_CountingElements
  <2>2. f.active = Cardinality(InService(f))
    <3>1. InService(g) \cap ToSet(new) = {}
      BY <1>5 DEF InService
    <3>2. IsFiniteSet(InService(g))
      BY <1>1, ListedServers
    <3>3. Cardinality(InService(g) \cup ToSet(new))
            = Cardinality(InService(g)) + Cardinality(ToSet(new))
                - Cardinality(InService(g) \cap ToSet(new))
      BY <2>1, <3>2, FS_Union
    <3>4. Cardinality(InService(g)) \in Nat
      BY <3>2, FS_CardinalityType
    <3>5. Cardinality(InService(f)) = Cardinality(InService(g)) + k
      BY <1>14, <2>1, <3>1, <3>3, <3>4, FS_EmptySet
    <3> QED
      BY <1>1, <1>10, <3>5 DEF Counts
  <2>3. ASSUME NEW s \in Listed(f)
        PROVE  f.srv[s].pending = Cardinality(UsedIn(f, s))
                                    + (IF s = x THEN 1 ELSE 0)
    <3>1. CASE s \in Listed(g)
      <4>1. UsedIn(f, s) = UsedIn(g, s)
        BY <1>17, <3>1 DEF UsedIn, Slot
      <4> QED
        BY <1>1, <1>12, <3>1, <4>1 DEF Counts
    <3>2. CASE s \in ToSet(new)
      <4>1. UsedIn(f, s) = {}
        BY <1>16, <3>2 DEF UsedIn, Slot
      <4>2. s # x
        BY <1>5, <3>2 DEF None, Servers
      <4> QED
        BY <1>7, <1>13, <3>2, <4>1, <4>2, FS_EmptySet
    <3> QED
      BY <1>11, <2>3, <3>1, <3>2
  <2> QED
    BY <2>2, <2>3 DEF Counts
<1>19. OnePlace(f, n, T)
  <2>1. \A s \in Listed(f), c \in Channels : Slot(f, s, c) # None =>
            s \in Listed(g) /\ Slot(f, s, c) = Slot(g, s, c)
    BY <1>11, <1>16, <1>17
  <2>2. \A s, t \in Listed(f) : \A c, d \in Channels :
          (Slot(f, s, c) # None /\ Slot(f, s, c) = Slot(f, t, d))
              => s = t /\ c = d
    BY <1>1, <2>1 DEF OnePlace
  <2>3. \A i \in DOMAIN g.queue :
          /\ g.queue[i] \in (1..n) \ T /\ g.answers[g.queue[i]] = 0
          /\ \A s \in Listed(f), c \in Channels : Slot(f, s, c) # g.queue[i]
    <3>1. \A i \in DOMAIN g.queue : g.queue[i] # None
      BY <1>1, HelperConstants DEF OnePlace, None
    <3> QED
      BY <1>1, <2>1, <3>1 DEF OnePlace
  <2>4. \A s \in Listed(f), c \in Channels : Slot(f, s, c) # None =>
          Slot(f, s, c) \in (1..n) \ T /\ g.answers[Slot(f, s, c)] = 0
    BY <1>1, <2>1 DEF OnePlace
  <2>5. IsInjective(g.queue) /\ \A r \in Requests :
          g.answers[r] = 0 \/ (g.answers[r] = 1 /\ r \in (1..n) \ T)
    BY <1>1 DEF OnePlace
  <2> QED
    BY <1>10, <2>2, <2>3, <2>4, <2>5 DEF OnePlace
<1>20. Somewhere(f, n, T)
  BY <1>1, <1>10, <1>11, <1>17 DEF Somewhere
<1>21. HelperOK(f, x, n, T)
  BY <1>15, <1>18, <1>19, <1>20 DEF HelperOK
<1> QED
  BY <1>4, <1>21, KickQueueKeeps

(* A request that was just submitted is in nobody's hands yet.             *)
LEMMA NewRequest ==
    ASSUME NEW g, NEW x, NEW n \in 0..MaxRequests, NEW T,
           HelperOK(g, x, n, T), n + 1 <= MaxRequests
    PROVE  /\ n + 1 \in 0..MaxRequests /\ n + 1 \in 1..(n + 1)
           /\ n + 1 \notin 1..n
           /\ HelperOK(g, x, n + 1, T \cup {n + 1})
<1>1. Shape(g) /\ Counts(g, x) /\ OnePlace(g, n, T) /\ Somewhere(g, n, T)
  BY DEF HelperOK
<1>2. /\ n \in Nat /\ n + 1 \in 0..MaxRequests /\ n + 1 \in 1..(n + 1)
      /\ n + 1 \notin 1..n
  BY HelperConstants
<1>3. \A r \in (1..n) \ T : r \in (1..(n + 1)) \ (T \cup {n + 1})
  BY <1>2
<1>4. \A r \in 1..(n + 1) : r \in 1..n \/ r = n + 1
  BY <1>2
<1>5. OnePlace(g, n + 1, T \cup {n + 1})
  <2>1. \A i \in DOMAIN g.queue :
          /\ g.queue[i] \in (1..(n + 1)) \ (T \cup {n + 1})
          /\ g.answers[g.queue[i]] = 0
          /\ \A s \in Listed(g), c \in Channels : Slot(g, s, c) # g.queue[i]
    BY <1>1, <1>3, Zenon DEF OnePlace
  <2>2. \A s \in Listed(g), c \in Channels : Slot(g, s, c) # None =>
          /\ Slot(g, s, c) \in (1..(n + 1)) \ (T \cup {n + 1})
          /\ g.answers[Slot(g, s, c)] = 0
    BY <1>1, <1>3, Zenon DEF OnePlace
  <2>3. \A r \in Requests : g.answers[r] = 0 \/
          (g.answers[r] = 1 /\ r \in (1..(n + 1)) \ (T \cup {n + 1}))
    BY <1>1, <1>3, Zenon DEF OnePlace
  <2> QED
    BY <1>1, <2>1, <2>2, <2>3, Zenon DEF OnePlace
<1>6. Somewhere(g, n + 1, T \cup {n + 1})
  BY <1>1, <1>4, Zenon DEF Somewhere
<1> QED
  BY <1>1, <1>2, <1>5, <1>6 DEF HelperOK

(* Enqueue() puts a request behind the others.                             *)
LEMMA AppendKeeps ==
    ASSUME NEW g, NEW x, NEW n \in 0..MaxRequests, NEW T, NEW r \in 1..n,
           r \notin T, HelperOK(g, x, n, T \cup {r})
    PROVE  HelperOK([g EXCEPT !.queue = Append(@, r)], x, n, T)
<1> DEFINE f == [g EXCEPT !.queue = Append(@, r)]
           N == Len(g.queue)
<1>1. Shape(g) /\ Counts(g, x) /\ OnePlace(g, n, T \cup {r})
      /\ Somewhere(g, n, T \cup {r})
  BY DEF HelperOK
<1>2. g.queue \in Seq(Requests) /\ g \in HelperTypes /\ r \in Requests
  BY <1>1, HelperConstants DEF Shape, HelperTypes, Requests
<1>3. /\ Append(g.queue, r) \in Seq(Requests) /\ N \in Nat
      /\ DOMAIN g.queue = 1..N /\ DOMAIN Append(g.queue, r) = 1..(N + 1)
      /\ \A i \in 1..N : Append(g.queue, r)[i] = g.queue[i]
      /\ Append(g.queue, r)[N + 1] = r
  <2> DEFINE q == g.queue
  <2>1. q \in Seq(Requests)
    BY <1>2
  <2> HIDE DEF q
  <2>2. /\ Append(q, r) \in Seq(Requests) /\ Len(q) \in Nat
        /\ DOMAIN q = 1..Len(q) /\ DOMAIN Append(q, r) = 1..(Len(q) + 1)
        /\ \A i \in 1..Len(q) : Append(q, r)[i] = q[i]
        /\ Append(q, r)[Len(q) + 1] = r
    BY <1>2, <2>1, AppendProperties
  <2> QED
    BY <2>2 DEF q
<1>4. /\ f \in HelperTypes /\ f.queue = Append(g.queue, r)
      /\ f.list = g.list /\ f.srv = g.srv /\ f.active = g.active
      /\ f.answers = g.answers /\ f.gone = g.gone
  BY <1>2, <1>3 DEF HelperTypes
<1> HIDE DEF f
<1>5. /\ Listed(f) = Listed(g) /\ InService(f) = InService(g)
      /\ \A s : UsedIn(f, s) = UsedIn(g, s)
      /\ \A s, ch : Slot(f, s, ch) = Slot(g, s, ch)
  BY <1>4, SameServers
<1>6. /\ DOMAIN f.queue = 1..(N + 1) /\ f.queue[N + 1] = r
      /\ \A i \in DOMAIN f.queue : i = N + 1 \/
            (i \in DOMAIN g.queue /\ f.queue[i] = g.queue[i])
      /\ \A i \in DOMAIN g.queue :
            i \in DOMAIN f.queue /\ f.queue[i] = g.queue[i]
  BY <1>3, <1>4
<1>7. Shape(f)
  BY <1>1, <1>4 DEF Shape
<1>8. Counts(f, x)
  BY <1>1, <1>4, <1>5 DEF Counts
<1> HIDE DEF N
<1>9. /\ \A i \in DOMAIN g.queue : g.queue[i] # r
      /\ \A s \in Listed(g), c \in Channels : Slot(g, s, c) # r
      /\ g.answers[r] = 0
  BY <1>1, <1>2, HelperConstants DEF OnePlace, None
<1>10. OnePlace(f, n, T)
  <2>1. IsInjective(f.queue)
    BY <1>1, <1>6, <1>9 DEF OnePlace, IsInjective
  <2>2. \A i \in DOMAIN f.queue :
          /\ f.queue[i] \in (1..n) \ T /\ f.answers[f.queue[i]] = 0
          /\ \A s \in Listed(f), c \in Channels : Slot(f, s, c) # f.queue[i]
    <3> TAKE i \in DOMAIN f.queue
    <3>1. CASE i = N + 1
      BY <1>4, <1>5, <1>6, <1>9, <3>1
    <3>2. CASE i \in DOMAIN g.queue /\ f.queue[i] = g.queue[i]
      BY <1>1, <1>4, <1>5, <3>2 DEF OnePlace
    <3> QED
      BY <1>6, <3>1, <3>2
  <2>3. \A s, t \in Listed(f) : \A c, d \in Channels :
          (Slot(f, s, c) # None /\ Slot(f, s, c) = Slot(f, t, d))
              => s = t /\ c = d
    BY <1>1, <1>5 DEF OnePlace
  <2>4. \A s \in Listed(f), c \in Channels : Slot(f, s, c) # None =>
          Slot(f, s, c) \in (1..n) \ T /\ f.answers[Slot(f, s, c)] = 0
    BY <1>1, <1>4, <1>5 DEF OnePlace
  <2>5. \A q \in Requests : f.answers[q] = 0
          \/ (f.answers[q] = 1 /\ q \in (1..n) \ T)
    BY <1>1, <1>4, Zenon DEF OnePlace
  <2> QED
    BY <2>1, <2>2, <2>3, <2>4, <2>5 DEF OnePlace
<1>11. Somewhere(f, n, T)
  <2>1. \E i \in DOMAIN f.queue : f.queue[i] = r
    BY <1>3, <1>6 DEF N
  <2> SUFFICES ASSUME NEW q \in (1..n) \ g.gone, q # r, q \notin T,
                      g.answers[q] # 1
               PROVE  \/ \E i \in DOMAIN f.queue : f.queue[i] = q
                      \/ \E s \in Listed(g), c \in Channels :
                            Slot(g, s, c) = q
    BY <1>4, <1>5, <2>1 DEF Somewhere
  <2>2. \/ \E i \in DOMAIN g.queue : g.queue[i] = q
        \/ \E s \in Listed(g), c \in Channels : Slot(g, s, c) = q
    BY <1>1 DEF Somewhere
  <2>3. ASSUME NEW i \in DOMAIN g.queue, g.queue[i] = q
        PROVE  \E j \in DOMAIN f.queue : f.queue[j] = q
    <3>1. i \in DOMAIN f.queue /\ f.queue[i] = q
      BY <1>6, <2>3
    <3> QED
      BY <3>1, Zenon
  <2> QED
    BY <2>2, <2>3, Zenon
<1> QED
  BY <1>7, <1>8, <1>10, <1>11 DEF HelperOK, f

(* Exiting is the last thing that squid does.                              *)
LEMMA ExitKeeps ==
    ASSUME NEW g, Shape(g), NEW e \in {"no", "fatal", "assert"}
    PROVE  /\ Shape([g EXCEPT !.exits = e])
           /\ [g EXCEPT !.exits = e].exits = e
           /\ \A x, n, T : HelperOK(g, x, n, T)
                                => HelperOK([g EXCEPT !.exits = e], x, n, T)
<1> DEFINE f == [g EXCEPT !.exits = e]
<1>1. /\ f \in HelperTypes /\ f.list = g.list /\ f.srv = g.srv
      /\ f.queue = g.queue /\ f.active = g.active /\ f.exits = e
      /\ f.answers = g.answers /\ f.gone = g.gone
  BY DEF Shape, HelperTypes
<1> HIDE DEF f
<1>2. /\ Listed(f) = Listed(g) /\ InService(f) = InService(g)
      /\ \A s : UsedIn(f, s) = UsedIn(g, s)
      /\ \A s, ch : Slot(f, s, ch) = Slot(g, s, ch)
  BY <1>1, SameServers
<1>3. Shape(f)
  BY <1>1 DEF Shape
<1>4. ASSUME NEW x, NEW n, NEW T, HelperOK(g, x, n, T)
      PROVE  HelperOK(f, x, n, T)
  <2>1. Counts(f, x)
    BY <1>1, <1>2, <1>4, Zenon DEF HelperOK, Counts
  <2>2. OnePlace(f, n, T)
    BY <1>1, <1>2, <1>4 DEF HelperOK, OnePlace
  <2>3. Somewhere(f, n, T)
    BY <1>1, <1>2, <1>4 DEF HelperOK, Somewhere
  <2> QED
    BY <1>3, <2>1, <2>2, <2>3 DEF HelperOK
<1> QED
  BY <1>1, <1>3, <1>4 DEF f

(* helperSubmit(): the request is dispatched or queued.                    *)
LEMMA HelperSubmitKeeps ==
    ASSUME NEW g, NEW x, NEW n \in 0..MaxRequests, NEW T, NEW r \in 1..n,
           r \notin T, HelperOK(g, x, n, T \cup {r}),
           x \in Listed(g) \cup {None}, NEW k \in Nat,
           NEW late, NEW special, CanOpen(g, k, special)
    PROVE  HelperOK(HelperSubmit(g, r, k, late, special), x, n, T)
<1>1. CASE Available(g) # None
  <2>1. Available(g) \in InService(g)
        /\ g.srv[Available(g)].pending < MaxPending
    BY <1>1, AvailableHasRoom DEF HelperOK
  <2>2. Available(g) \in Listed(g)
    BY <2>1 DEF InService
  <2> QED
    BY <1>1, <2>1, <2>2, DispatchKeeps DEF HelperSubmit
<1>2. CASE Available(g) = None
  <2> DEFINE f == [g EXCEPT !.queue = Append(@, r)]
  <2>1. HelperOK(f, x, n, T)
    BY AppendKeeps
  <2>2. f.list = g.list /\ Listed(f) = Listed(g)
    BY DEF HelperOK, Shape, HelperTypes, Listed
  <2>3. k <= MaxProcesses - Len(f.list)
    BY <2>2 DEF CanOpen
  <2>4. \/ HelperSubmit(g, r, k, late, special) = OpenServers(f, k, special)
        \/ HelperSubmit(g, r, k, late, special) = [f EXCEPT !.exits = "fatal"]
        \/ HelperSubmit(g, r, k, late, special) = f
    BY <1>2, Zenon DEF HelperSubmit, Enqueue
  <2> HIDE DEF f
  <2>5. HelperOK(OpenServers(f, k, special), x, n, T)
    BY <2>1, <2>2, <2>3, OpenServersKeeps
  <2>6. HelperOK([f EXCEPT !.exits = "fatal"], x, n, T)
    BY <2>1, ExitKeeps DEF HelperOK
  <2> QED
    BY <2>1, <2>4, <2>5, <2>6
<1> QED
  BY <1>1, <1>2

-----------------------------------------------------------------------------
(* A reply                                                                 *)

(* Replacing the record of one server.                                     *)
WithServer(g, s, w) == [g EXCEPT !.srv[s] = w]

(* It changes nothing but that record.                                     *)
LEMMA UpdateServer ==
    ASSUME NEW g, Shape(g), NEW s \in Servers, NEW w \in ServerTypes,
           NEW f, f = WithServer(g, s, w)
    PROVE  /\ Shape(f) /\ f.list = g.list /\ f.queue = g.queue
           /\ f.active = g.active /\ f.answers = g.answers
           /\ f.gone = g.gone /\ f.exits = g.exits
           /\ Listed(f) = Listed(g) /\ f.srv[s] = w
           /\ \A t \in Servers : t # s => f.srv[t] = g.srv[t]
<1> DEFINE sv == [g.srv EXCEPT ![s] = w]
<1>1. g \in HelperTypes /\ IsInjective(g.list)
      /\ g.srv \in [Servers -> ServerTypes]
  BY DEF Shape, HelperTypes
<1>2. /\ sv \in [Servers -> ServerTypes]
      /\ \A t \in Servers : sv[t] = IF t = s THEN w ELSE g.srv[t]
  BY <1>1
<1>3. f = [g EXCEPT !.srv = sv]
  BY <1>1 DEF HelperTypes, WithServer
<1> HIDE DEF sv
<1>4. /\ f \in HelperTypes /\ f.list = g.list /\ f.queue = g.queue
      /\ f.active = g.active /\ f.answers = g.answers /\ f.gone = g.gone
      /\ f.exits = g.exits /\ f.srv = sv
  BY <1>1, <1>2, <1>3 DEF HelperTypes
<1> QED
  BY <1>1, <1>2, <1>4 DEF Shape, Listed

(* What the invariant does not look at may change.                         *)
LEMMA SameRequests ==
    ASSUME NEW f, NEW g, NEW x, NEW n, NEW T, HelperOK(g, x, n, T), Shape(f),
           f.list = g.list, f.queue = g.queue, f.active = g.active,
           f.answers = g.answers, f.gone = g.gone,
           \A t \in Servers : /\ f.srv[t].slot = g.srv[t].slot
                              /\ f.srv[t].pending = g.srv[t].pending
                              /\ f.srv[t].shutdown = g.srv[t].shutdown
    PROVE  HelperOK(f, x, n, T)
<1>1. Shape(g) /\ Counts(g, x) /\ OnePlace(g, n, T) /\ Somewhere(g, n, T)
  BY DEF HelperOK
<1>2. Listed(f) = Listed(g) /\ \A t \in Listed(g) : t \in Servers
  BY <1>1, ListedServers DEF Listed
<1>3. InService(f) = InService(g)
  BY <1>2 DEF InService
<1>4. \A t \in Listed(g) : UsedIn(f, t) = UsedIn(g, t)
  BY <1>2 DEF UsedIn
<1>5. \A t \in Listed(g), c \in Channels : Slot(f, t, c) = Slot(g, t, c)
  BY <1>2 DEF Slot
<1>6. Counts(f, x)
  BY <1>1, <1>2, <1>3, <1>4 DEF Counts
<1>7. OnePlace(f, n, T)
  BY <1>1, <1>2, <1>5 DEF OnePlace
<1>8. Somewhere(f, n, T)
  BY <1>1, <1>2, <1>5 DEF Somewhere
<1> QED
  BY <1>6, <1>7, <1>8 DEF HelperOK

(* The channel of a reply is free before pending is counted down.          *)
LEMMA TakeSlotKeeps ==
    ASSUME NEW g, NEW n \in 0..MaxRequests, HelperOK(g, None, n, {}),
           NEW s \in Listed(g), NEW ch \in Channels,
           NEW r, r = Slot(g, s, ch), r # None
    PROVE  /\ r \in 1..n
           /\ HelperOK([g EXCEPT !.srv[s].slot[ch] = None], s, n, {r})
<1> DEFINE v == g.srv[s]
           w == [v EXCEPT !.slot[ch] = None]
           f == WithServer(g, s, w)
<1>1. Shape(g) /\ Counts(g, None) /\ OnePlace(g, n, {})
      /\ Somewhere(g, n, {})
  BY DEF HelperOK
<1>2. s \in Servers /\ s # None /\ v \in ServerTypes
  BY <1>1, ListedServers DEF Shape, HelperTypes
<1>3. /\ w \in ServerTypes
      /\ w.slot = [v.slot EXCEPT ![ch] = None] /\ w.pending = v.pending
      /\ w.shutdown = v.shutdown
  <2> DEFINE sl == [v.slot EXCEPT ![ch] = None]
  <2>1. sl \in [Channels -> Requests \cup {None}]
    BY <1>2 DEF ServerTypes
  <2>2. w = [v EXCEPT !.slot = sl]
    BY <1>2 DEF ServerTypes
  <2> HIDE DEF v, sl, w
  <2>3. w \in ServerTypes /\ w.slot = sl /\ w.pending = v.pending
        /\ w.shutdown = v.shutdown
    BY <1>2, <2>1, <2>2 DEF ServerTypes
  <2> QED
    BY <2>3 DEF sl
<1>4. [g EXCEPT !.srv[s].slot[ch] = None] = f
  BY DEF WithServer
<1> HIDE DEF w, v
<1>5. /\ Shape(f) /\ f.list = g.list /\ f.queue = g.queue
      /\ f.active = g.active /\ f.answers = g.answers
      /\ f.gone = g.gone /\ Listed(f) = Listed(g)
      /\ \A t \in Servers : f.srv[t] = IF t = s THEN w ELSE g.srv[t]
  <2>1. Shape(g) /\ s \in Servers /\ w \in ServerTypes
    BY <1>1, <1>2, <1>3
  <2> HIDE DEF v
  <2> QED
    BY <2>1, UpdateServer
<1> HIDE DEF f
<1>6. \A t \in Listed(g), c \in Channels :
        Slot(f, t, c) = IF t = s /\ c = ch THEN None ELSE Slot(g, t, c)
  <2>1. v.slot \in [Channels -> Requests \cup {None}] /\ v = g.srv[s]
    BY <1>2 DEF ServerTypes, v
  <2> QED
    BY <1>1, <1>3, <1>5, <2>1, ListedServers DEF Slot
<1>7. InService(f) = InService(g)
  BY <1>1, <1>3, <1>5, ListedServers DEF InService, v
<1>8. r \in 1..n /\ r \in Requests
  <2>1. r \in 1..n
    BY <1>1 DEF OnePlace
  <2> QED
    BY <2>1, HelperConstants DEF Requests
<1>9. Counts(f, s)
  <2>1. UsedIn(f, s) = UsedIn(g, s) \ {ch} /\ ch \in UsedIn(g, s)
    BY <1>5, <1>6 DEF UsedIn, Slot
  <2>2. IsFiniteSet(UsedIn(g, s)) /\ Cardinality(UsedIn(g, s)) \in Nat
    BY HelperConstants, FS_Subset, FS_CardinalityType DEF UsedIn
  <2>3. Cardinality(UsedIn(f, s)) = Cardinality(UsedIn(g, s)) - 1
    BY <2>1, <2>2, FS_RemoveElement
  <2>4. \A t \in Listed(g) : t # s => UsedIn(f, t) = UsedIn(g, t)
    BY <1>6 DEF UsedIn, Slot
  <2>5. ASSUME NEW t \in Listed(g)
        PROVE  f.srv[t].pending = Cardinality(UsedIn(f, t))
                                    + (IF t = s THEN 1 ELSE 0)
    <3>1. t \in Servers /\ t # None /\ g.srv[t].pending \in Int
      BY <1>1, ListedServers DEF Shape, HelperTypes, ServerTypes
    <3>2. g.srv[t].pending = Cardinality(UsedIn(g, t)) + 0
      BY <1>1, <3>1 DEF Counts
    <3>3. CASE t = s
      BY <1>3, <1>5, <2>2, <2>3, <3>1, <3>2, <3>3 DEF v
    <3>4. CASE t # s
      BY <1>5, <2>4, <3>1, <3>2, <3>4
    <3> QED
      BY <3>3, <3>4
  <2> QED
    BY <1>1, <1>5, <1>7, <2>5 DEF Counts
<1>10. OnePlace(f, n, {r})
  <2>1. \A t \in Listed(g), c \in Channels : Slot(f, t, c) # None =>
          /\ Slot(f, t, c) = Slot(g, t, c) /\ ~(t = s /\ c = ch)
    BY <1>6
  <2>2. \A t \in Listed(g), c \in Channels : Slot(f, t, c) # r
    BY <1>1, <2>1 DEF OnePlace
  <2>3. \A i \in DOMAIN g.queue : g.queue[i] # r /\ g.queue[i] # None
    BY <1>1, HelperConstants DEF OnePlace, None
  <2>4. g.answers[r] = 0
    BY <1>1 DEF OnePlace
  <2>5. \A t, u \in Listed(f) : \A c, d \in Channels :
          (Slot(f, t, c) # None /\ Slot(f, t, c) = Slot(f, u, d))
              => t = u /\ c = d
    BY <1>1, <1>5, <2>1 DEF OnePlace
  <2>6. \A i \in DOMAIN f.queue :
          /\ f.queue[i] \in (1..n) \ {r} /\ f.answers[f.queue[i]] = 0
          /\ \A t \in Listed(f), c \in Channels : Slot(f, t, c) # f.queue[i]
    BY <1>1, <1>5, <2>1, <2>3 DEF OnePlace
  <2>7. \A t \in Listed(f), c \in Channels : Slot(f, t, c) # None =>
          Slot(f, t, c) \in (1..n) \ {r} /\ f.answers[Slot(f, t, c)] = 0
    BY <1>1, <1>5, <2>1, <2>2 DEF OnePlace
  <2>8. \A q \in Requests : f.answers[q] = 0
          \/ (f.answers[q] = 1 /\ q \in (1..n) \ {r})
    BY <1>1, <1>5, <2>4 DEF OnePlace
  <2>9. IsInjective(f.queue)
    BY <1>1, <1>5 DEF OnePlace
  <2> QED
    BY <2>5, <2>6, <2>7, <2>8, <2>9 DEF OnePlace
<1>11. Somewhere(f, n, {r})
  <2> SUFFICES ASSUME NEW q \in (1..n) \ g.gone, q # r, g.answers[q] # 1
               PROVE  \/ \E i \in DOMAIN g.queue : g.queue[i] = q
                      \/ \E t \in Listed(g), c \in Channels :
                            Slot(f, t, c) = q
    BY <1>5 DEF Somewhere
  <2>1. \/ \E i \in DOMAIN g.queue : g.queue[i] = q
        \/ \E t \in Listed(g), c \in Channels : Slot(g, t, c) = q
    BY <1>1 DEF Somewhere
  <2> QED
    BY <1>6, <2>1
<1> QED
  BY <1>4, <1>5, <1>8, <1>9, <1>10, <1>11 DEF HelperOK

(* The caller has the answer, or is gone.                                  *)
LEMMA CallBackKeeps ==
    ASSUME NEW g, NEW x, NEW n \in 0..MaxRequests, NEW T, NEW r \in 1..n,
           r \notin T, HelperOK(g, x, n, T \cup {r})
    PROVE  /\ HelperOK(CallBack(g, r), x, n, T)
           /\ Listed(CallBack(g, r)) = Listed(g)
           /\ CallBack(g, r).gone = g.gone
<1>1. Shape(g) /\ Counts(g, x) /\ OnePlace(g, n, T \cup {r})
      /\ Somewhere(g, n, T \cup {r})
  BY DEF HelperOK
<1>2. r \in Requests
  BY HelperConstants DEF Requests
<1>3. CASE r \in g.gone
  <2>1. CallBack(g, r) = g
    BY <1>3 DEF CallBack
  <2>2. OnePlace(g, n, T)
    BY <1>1 DEF OnePlace
  <2>3. Somewhere(g, n, T)
    BY <1>1, <1>3 DEF Somewhere
  <2> QED
    BY <1>1, <2>1, <2>2, <2>3 DEF HelperOK
<1>4. CASE r \notin g.gone
  <2> DEFINE an == [g.answers EXCEPT ![r] = @ + 1]
             f == [g EXCEPT !.answers = an]
  <2>1. g \in HelperTypes /\ g.answers \in [Requests -> Nat]
    BY <1>1 DEF Shape, HelperTypes
  <2>2. g.answers[r] = 0
    BY <1>1, <1>2 DEF OnePlace
  <2>3. /\ an \in [Requests -> Nat] /\ an[r] = 1
        /\ \A q \in Requests : q # r => an[q] = g.answers[q]
    BY <1>2, <2>1, <2>2
  <2>4. CallBack(g, r) = f
    BY <1>4, <2>1 DEF CallBack, HelperTypes
  <2> HIDE DEF an
  <2>5. /\ f \in HelperTypes /\ f.list = g.list /\ f.srv = g.srv
        /\ f.queue = g.queue /\ f.active = g.active /\ f.answers = an
        /\ f.gone = g.gone
    BY <2>1, <2>3 DEF HelperTypes
  <2> HIDE DEF f
  <2>6. /\ Listed(f) = Listed(g) /\ InService(f) = InService(g)
        /\ \A s : UsedIn(f, s) = UsedIn(g, s)
        /\ \A s, ch : Slot(f, s, ch) = Slot(g, s, ch)
    BY <2>5, SameServers
  <2>7. Shape(f) /\ Counts(f, x)
    BY <1>1, <2>5, <2>6 DEF Shape, Counts
  <2>8. OnePlace(f, n, T)
    <3>1. \A q \in 1..n : q \in Requests
      BY HelperConstants DEF Requests
    <3>2. \A i \in DOMAIN f.queue :
            /\ f.queue[i] \in (1..n) \ T /\ f.answers[f.queue[i]] = 0
            /\ \A s \in Listed(f), c \in Channels :
                  Slot(f, s, c) # f.queue[i]
      BY <1>1, <2>3, <2>5, <2>6, <3>1 DEF OnePlace
    <3>3. \A s, t \in Listed(f) : \A c, d \in Channels :
            (Slot(f, s, c) # None /\ Slot(f, s, c) = Slot(f, t, d))
                => s = t /\ c = d
      BY <1>1, <2>6 DEF OnePlace
    <3>4. \A s \in Listed(f), c \in Channels : Slot(f, s, c) # None =>
            Slot(f, s, c) \in (1..n) \ T /\ f.answers[Slot(f, s, c)] = 0
      BY <1>1, <2>3, <2>5, <2>6, <3>1 DEF OnePlace
    <3>5. \A q \in Requests : f.answers[q] = 0
            \/ (f.answers[q] = 1 /\ q \in (1..n) \ T)
      BY <1>1, <2>3, <2>5 DEF OnePlace
    <3>6. IsInjective(f.queue)
      BY <1>1, <2>5 DEF OnePlace
    <3> QED
      BY <3>2, <3>3, <3>4, <3>5, <3>6 DEF OnePlace
  <2>9. Somewhere(f, n, T)
    <3>1. \A q \in 1..n : q \in Requests
      BY HelperConstants DEF Requests
    <3> QED
      BY <1>1, <2>3, <2>5, <2>6, <3>1 DEF Somewhere
  <2> QED
    BY <2>4, <2>5, <2>6, <2>7, <2>8, <2>9 DEF HelperOK
<1> QED
  BY <1>3, <1>4

(* pending no longer counts the reply, once the callback has returned.     *)
LEMMA RepliedKeeps ==
    ASSUME NEW g, NEW n, NEW T, NEW s \in Servers, HelperOK(g, s, n, T)
    PROVE  HelperOK([g EXCEPT !.srv[s].pending = @ - 1,
                              !.srv[s].replied = TRUE], None, n, T)
<1> DEFINE v == g.srv[s]
           pe == v.pending - 1
           w1 == [v EXCEPT !.pending = pe]
           w == [w1 EXCEPT !.replied = TRUE]
           f == WithServer(g, s, w)
<1>1. Shape(g) /\ Counts(g, s) /\ OnePlace(g, n, T) /\ Somewhere(g, n, T)
  BY DEF HelperOK
<1>2. v \in ServerTypes /\ pe \in Int /\ g \in HelperTypes
  BY <1>1 DEF Shape, HelperTypes, ServerTypes
<1>3. [g EXCEPT !.srv[s].pending = @ - 1, !.srv[s].replied = TRUE] = f
  BY <1>2 DEF HelperTypes, ServerTypes, WithServer
<1> HIDE DEF pe
<1>4. /\ w \in ServerTypes /\ w.slot = v.slot /\ w.pending = pe
      /\ w.shutdown = v.shutdown
  <2> HIDE DEF v
  <2>1. /\ w1 \in ServerTypes /\ w1.slot = v.slot /\ w1.pending = pe
        /\ w1.shutdown = v.shutdown
    BY <1>2 DEF ServerTypes
  <2> HIDE DEF w1
  <2> QED
    BY <2>1 DEF ServerTypes
<1> HIDE DEF w
<1>5. /\ Shape(f) /\ f.list = g.list /\ f.queue = g.queue
      /\ f.active = g.active /\ f.answers = g.answers
      /\ f.gone = g.gone /\ Listed(f) = Listed(g)
      /\ \A t \in Servers : f.srv[t] = IF t = s THEN w ELSE g.srv[t]
  <2>1. Shape(g) /\ w \in ServerTypes
    BY <1>1, <1>4
  <2> HIDE DEF v
  <2> QED
    BY <2>1, UpdateServer
<1> HIDE DEF f
<1>6. \A t \in Listed(g) : t \in Servers /\ t # None
  BY <1>1, ListedServers
<1>7. \A t \in Servers : /\ f.srv[t].slot = g.srv[t].slot
                         /\ f.srv[t].shutdown = g.srv[t].shutdown
  BY <1>4, <1>5
<1>8. InService(f) = InService(g)
  BY <1>5, <1>6, <1>7 DEF InService
<1>9. \A t \in Listed(g) : UsedIn(f, t) = UsedIn(g, t)
  BY <1>6, <1>7 DEF UsedIn
<1>10. \A t \in Listed(g), c \in Channels : Slot(f, t, c) = Slot(g, t, c)
  BY <1>6, <1>7 DEF Slot
<1>11. Counts(f, None)
  <2>1. ASSUME NEW t \in Listed(g)
        PROVE  f.srv[t].pending = Cardinality(UsedIn(f, t))
                                    + (IF t = None THEN 1 ELSE 0)
    <3>1. g.srv[t].pending = Cardinality(UsedIn(g, t))
                                + (IF t = s THEN 1 ELSE 0)
      BY <1>1 DEF Counts
    <3>2. Cardinality(UsedIn(g, t)) \in Nat
      BY HelperConstants, FS_Subset, FS_CardinalityType DEF UsedIn
    <3>3. CASE t = s
      BY <1>4, <1>5, <1>6, <1>9, <3>1, <3>2, <3>3 DEF pe
    <3>4. CASE t # s
      BY <1>5, <1>6, <1>9, <3>1, <3>2, <3>4
    <3> QED
      BY <3>3, <3>4
  <2> QED
    BY <1>1, <1>5, <1>8, <2>1 DEF Counts
<1>12. OnePlace(f, n, T)
  BY <1>1, <1>5, <1>10 DEF OnePlace
<1>13. Somewhere(f, n, T)
  BY <1>1, <1>5, <1>10 DEF Somewhere
<1> QED
  BY <1>3, <1>5, <1>11, <1>12, <1>13 DEF HelperOK

(* closePipesSafely() only marks the server.                               *)
LEMMA CloseKeeps ==
    ASSUME NEW g, NEW x, NEW n, NEW T, NEW s \in Servers,
           HelperOK(g, x, n, T)
    PROVE  HelperOK([g EXCEPT !.srv[s].closing = TRUE], x, n, T)
<1> DEFINE w == [g.srv[s] EXCEPT !.closing = TRUE]
           f == WithServer(g, s, w)
<1>1. Shape(g) /\ g.srv[s] \in ServerTypes
  BY DEF HelperOK, Shape, HelperTypes
<1>2. /\ w \in ServerTypes /\ w.slot = g.srv[s].slot
      /\ w.pending = g.srv[s].pending /\ w.shutdown = g.srv[s].shutdown
  <2> DEFINE v == g.srv[s]
             u == [v EXCEPT !.closing = TRUE]
  <2>1. v \in ServerTypes
    BY <1>1
  <2> HIDE DEF v
  <2>2. /\ u \in ServerTypes /\ u.slot = v.slot
        /\ u.pending = v.pending /\ u.shutdown = v.shutdown
    BY <2>1 DEF ServerTypes
  <2> QED
    BY <2>2 DEF v
<1>3. [g EXCEPT !.srv[s].closing = TRUE] = f
  BY DEF WithServer
<1> HIDE DEF w
<1>5. /\ Shape(f) /\ f.list = g.list /\ f.queue = g.queue
      /\ f.active = g.active /\ f.answers = g.answers
      /\ f.gone = g.gone
      /\ \A t \in Servers : f.srv[t] = IF t = s THEN w ELSE g.srv[t]
  BY <1>1, <1>2, UpdateServer
<1> HIDE DEF f
<1>6. \A t \in Servers : /\ f.srv[t].slot = g.srv[t].slot
                         /\ f.srv[t].pending = g.srv[t].pending
                         /\ f.srv[t].shutdown = g.srv[t].shutdown
  BY <1>2, <1>5
<1> QED
  BY <1>3, <1>5, <1>6, SameRequests

(* The end of helperReturnBuffer()                                         *)
LEMMA AfterReplyKeeps ==
    ASSUME NEW g, NEW n \in 0..MaxRequests, NEW s \in Servers,
           HelperOK(g, None, n, {})
    PROVE  HelperOK(AfterReply(g, s), None, n, {})
BY KickQueueKeeps, CloseKeeps DEF AfterReply

(* A reply: the channel is freed, the caller called, which may submit the  *)
(* next request before pending is counted down.                            *)
LEMMA ReturnBufferKeeps ==
    ASSUME NEW s \in Servers, NEW ch \in Channels,
           NEW next \in Requests \cup {None}, NEW k \in Forks, NEW late,
           HelperInv, h.exits = "no", ReturnBuffer(s, ch, next, k, late)
    PROVE  HelperInv'
<1> DEFINE r == h.srv[s].slot[ch]
           e == [h EXCEPT !.srv[s].slot[ch] = None]
           f == CallBack(e, r)
           g == IF next = None THEN f
                ELSE HelperSubmit(f, next, k, late, reconfiguring)
           n == IF next = None THEN submitted ELSE next
           d == [g EXCEPT !.srv[s].pending = @ - 1, !.srv[s].replied = TRUE]
<1>1. /\ s \in Listed(h) /\ r # None /\ CanOpen(f, k, reconfiguring)
      /\ next # None => next = submitted + 1
      /\ submitted' = n
      /\ h' = IF g.exits # "no" THEN g ELSE AfterReply(d, s)
  BY DEF ReturnBuffer
<1>2. HelperOK(h, None, submitted, {}) /\ submitted \in 0..MaxRequests
      /\ k \in Nat
  BY HelperConstants DEF HelperInv, Forks
<1>3. r \in 1..submitted /\ HelperOK(e, s, submitted, {r})
  BY <1>1, <1>2, TakeSlotKeeps DEF Slot
<1>4. {} \cup {r} = {r}
  OBVIOUS
<1> HIDE DEF r, e
<1>5. HelperOK(f, s, submitted, {}) /\ Listed(f) = Listed(e)
  BY <1>2, <1>3, <1>4, CallBackKeeps
<1>6. Listed(e) = Listed(h)
  BY <1>2 DEF e, HelperOK, Shape, HelperTypes, Listed
<1> HIDE DEF f
<1>7. n \in 0..MaxRequests /\ HelperOK(g, s, n, {})
  <2>1. CASE next = None
    BY <1>2, <1>5, <2>1
  <2>2. CASE next # None
    <3>1. submitted + 1 <= MaxRequests /\ next = submitted + 1
      BY <1>1, <2>2, HelperConstants DEF Requests
    <3>2. /\ next \in 0..MaxRequests /\ next \in 1..next
          /\ HelperOK(f, s, next, {} \cup {next})
      BY <1>2, <1>5, <3>1, NewRequest
    <3>3. s \in Listed(f) \cup {None}
      BY <1>1, <1>5, <1>6
    <3>4. HelperOK(HelperSubmit(f, next, k, late, reconfiguring),
                   s, next, {})
      BY <1>1, <1>2, <3>2, <3>3, HelperSubmitKeeps
    <3> QED
      BY <2>2, <3>2, <3>4
  <2> QED
    BY <2>1, <2>2
<1> HIDE DEF g, n
<1>8. CASE g.exits # "no"
  <2>1. h' = g
    BY <1>1, <1>8
  <2> QED
    BY <1>1, <1>7, <1>8, <2>1 DEF HelperInv, HelperOK
<1>9. CASE g.exits = "no"
  <2>1. HelperOK(d, None, n, {})
    BY <1>7, RepliedKeeps
  <2>2. HelperOK(AfterReply(d, s), None, n, {})
    BY <1>7, <2>1, AfterReplyKeeps
  <2>3. h' = AfterReply(d, s)
    BY <1>1, <1>9
  <2> HIDE DEF d
  <2> QED
    BY <1>1, <1>7, <2>2, <2>3 DEF HelperInv, HelperOK
<1> QED
  BY <1>8, <1>9

-----------------------------------------------------------------------------
(* The end of a helper                                                     *)

(* A sequence without its i-th element.                                    *)
LEMMA RemoveAtProperties ==
    ASSUME NEW S, NEW l \in Seq(S), NEW i \in 1..Len(l)
    PROVE  /\ RemoveAt(l, i) \in Seq(S)
           /\ DOMAIN RemoveAt(l, i) = 1..(Len(l) - 1)
           /\ \A j \in 1..(Len(l) - 1) :
                RemoveAt(l, i)[j] = IF j < i THEN l[j] ELSE l[j + 1]
<1> DEFINE N == Len(l)
           a == SubSeq(l, 1, i - 1)
           b == SubSeq(l, i + 1, N)
<1>1. N \in Nat /\ i \in 1..N /\ i - 1 \in Nat /\ N - i \in Nat
  OBVIOUS
<1>2. /\ a \in Seq(S) /\ Len(a) = i - 1
      /\ \A j \in 1..(i - 1) : a[j] = l[j]
  <2>1. \A j \in 1..(i - 1) : l[j] \in S
    BY <1>1
  <2>2. a = [j \in 1..(i - 1) |-> l[1 + j - 1]]
    BY <1>1, SubSeqProperties
  <2> QED
    BY <1>1, <2>1, SubSeqProperties
<1>3. /\ b \in Seq(S) /\ Len(b) = N - i
      /\ \A j \in 1..(N - i) : b[j] = l[i + j]
  <2>1. \A j \in (i + 1)..N : l[j] \in S
    BY <1>1
  <2> QED
    BY <1>1, <2>1, SubSeqProperties
<1>4. RemoveAt(l, i) = a \o b
  BY DEF RemoveAt
<1> HIDE DEF a, b, N
<1>5. /\ a \o b \in Seq(S) /\ Len(a \o b) = (i - 1) + (N - i)
      /\ \A j \in 1..((i - 1) + (N - i)) :
            (a \o b)[j] = IF j <= i - 1 THEN a[j] ELSE b[j - (i - 1)]
  <2>1. /\ a \o b \in Seq(S) /\ Len(a \o b) = Len(a) + Len(b)
        /\ \A j \in 1..(Len(a) + Len(b)) :
              (a \o b)[j] = IF j <= Len(a) THEN a[j] ELSE b[j - Len(a)]
    BY <1>2, <1>3, ConcatProperties
  <2> QED
    BY <1>2, <1>3, <2>1
<1>6. (i - 1) + (N - i) = N - 1
  BY <1>1
<1>7. DOMAIN (a \o b) = 1..(N - 1)
  BY <1>5, <1>6
<1>8. ASSUME NEW j \in 1..(N - 1)
      PROVE  (a \o b)[j] = IF j < i THEN l[j] ELSE l[j + 1]
  <2>1. CASE j < i
    <3>1. j \in 1..(i - 1) /\ j <= i - 1
      BY <1>1, <2>1
    <3> QED
      BY <1>2, <1>5, <1>6, <2>1, <3>1
  <2>2. CASE ~(j < i)
    <3>1. /\ j - (i - 1) \in 1..(N - i) /\ i + (j - (i - 1)) = j + 1
          /\ ~(j <= i - 1)
      BY <1>1, <2>2
    <3> QED
      BY <1>3, <1>5, <1>6, <2>2, <3>1
  <2> QED
    BY <2>1, <2>2
<1> QED
  BY <1>4, <1>5, <1>7, <1>8 DEF N

(* The list without a server.                                              *)
LEMMA Unlist ==
    ASSUME NEW g, Shape(g), NEW s, NEW i \in DOMAIN g.list, g.list[i] = s
    PROVE  /\ RemoveAt(g.list, i) \in Seq(Servers)
           /\ IsInjective(RemoveAt(g.list, i))
           /\ ToSet(RemoveAt(g.list, i)) = Listed(g) \ {s}
           /\ Len(RemoveAt(g.list, i)) = Len(g.list) - 1
<1> DEFINE N == Len(g.list)
           l == RemoveAt(g.list, i)
<1>1. /\ g.list \in Seq(Servers) /\ N \in Nat /\ DOMAIN g.list = 1..N
      /\ \A t : t \in Listed(g) <=> \E j \in 1..N : t = g.list[j]
  BY ListedServers
<1>2. i \in 1..N /\ g.list[i] = s
  BY <1>1
<1>3. \A j, k \in 1..N : g.list[j] = g.list[k] => j = k
  BY <1>1 DEF Shape, IsInjective
<1>4. /\ l \in Seq(Servers) /\ DOMAIN l = 1..(N - 1)
      /\ \A j \in 1..(N - 1) :
            l[j] = IF j < i THEN g.list[j] ELSE g.list[j + 1]
  <2> DEFINE m == g.list
  <2>1. m \in Seq(Servers) /\ i \in 1..Len(m) /\ l = RemoveAt(m, i)
    BY <1>1, <1>2
  <2> HIDE DEF m, l
  <2>2. /\ l \in Seq(Servers) /\ DOMAIN l = 1..(Len(m) - 1)
        /\ \A j \in 1..(Len(m) - 1) :
              l[j] = IF j < i THEN m[j] ELSE m[j + 1]
    BY <2>1, RemoveAtProperties
  <2> QED
    BY <2>2 DEF m
<1> HIDE DEF l
<1>5. Len(l) = N - 1
  BY <1>1, <1>2, <1>4
<1>6. IsInjective(l)
  <2>1. \A j, k \in 1..(N - 1) : l[j] = l[k] => j = k
    BY <1>1, <1>2, <1>3, <1>4
  <2> QED
    BY <1>4, <2>1 DEF IsInjective
<1>7. \A t : t \in ToSet(l) <=> \E j \in 1..(N - 1) : t = l[j]
  BY <1>4 DEF ToSet
<1> HIDE DEF N
<1>8. ASSUME NEW t \in ToSet(l) PROVE t \in Listed(g) \ {s}
  <2>1. PICK j \in 1..(N - 1) : t = l[j]
    BY <1>7, <1>8
  <2>2. CASE j < i
    <3>1. j \in 1..N /\ t = g.list[j] /\ j # i
      BY <1>1, <1>2, <1>4, <2>1, <2>2
    <3> QED
      BY <1>1, <1>2, <1>3, <3>1
  <2>3. CASE ~(j < i)
    <3>1. j + 1 \in 1..N /\ t = g.list[j + 1] /\ j + 1 # i
      BY <1>1, <1>2, <1>4, <2>1, <2>3
    <3> QED
      BY <1>1, <1>2, <1>3, <3>1
  <2> QED
    BY <2>2, <2>3
<1>9. ASSUME NEW t \in Listed(g), t # s PROVE t \in ToSet(l)
  <2>1. PICK j \in 1..N : t = g.list[j]
    BY <1>1, <1>9
  <2>2. j # i
    BY <1>2, <1>9, <2>1
  <2>3. CASE j < i
    <3>1. j \in 1..(N - 1) /\ l[j] = t
      BY <1>1, <1>2, <1>4, <2>1, <2>3
    <3> QED
      BY <1>7, <3>1
  <2>4. CASE ~(j < i)
    <3>1. j - 1 \in 1..(N - 1) /\ ~(j - 1 < i) /\ (j - 1) + 1 = j
      BY <1>1, <1>2, <2>1, <2>2, <2>4
    <3>2. l[j - 1] = t
      BY <1>4, <2>1, <3>1
    <3> QED
      BY <1>7, <3>1, <3>2
  <2> QED
    BY <2>3, <2>4
<1> QED
  BY <1>4, <1>5, <1>6, <1>8, <1>9 DEF N, l

(* The requests in the slots of a server.                                  *)
Held(g, s) == {Slot(g, s, ch) : ch \in Channels} \ {None}

(* What a server had, when it is taken from the list, is in nobody's       *)
(* hands.                                                                  *)
LEMMA UnlistKeeps ==
    ASSUME NEW g, NEW n \in 0..MaxRequests, HelperOK(g, None, n, {}),
           NEW s \in Listed(g), NEW i,
           i = (CHOOSE j \in DOMAIN g.list : g.list[j] = s)
    PROVE  HelperOK([g EXCEPT !.list = RemoveAt(@, i),
                              !.srv[s] = NewServer,
                              !.active = IF g.srv[s].shutdown THEN @
                                         ELSE @ - 1], None, n, Held(g, s))
<1> DEFINE f == [g EXCEPT !.list = RemoveAt(@, i),
                          !.srv[s] = NewServer,
                          !.active = IF g.srv[s].shutdown THEN @ ELSE @ - 1]
           l == RemoveAt(g.list, i)
           sv == [g.srv EXCEPT ![s] = NewServer]
           ac == IF g.srv[s].shutdown THEN g.active ELSE g.active - 1
           T == Held(g, s)
<1>1. Shape(g) /\ Counts(g, None) /\ OnePlace(g, n, {})
      /\ Somewhere(g, n, {})
  BY DEF HelperOK
<1>2. g \in HelperTypes /\ s \in Servers
  BY <1>1, ListedServers DEF Shape
<1>3. /\ l \in Seq(Servers) /\ IsInjective(l)
      /\ ToSet(l) = Listed(g) \ {s}
  <2>1. \E j \in DOMAIN g.list : g.list[j] = s
    BY <1>1, ListedServers
  <2>2. i \in DOMAIN g.list /\ g.list[i] = s
    BY <2>1, Zenon
  <2> QED
    BY <1>1, <2>2, Unlist
<1>4. /\ sv \in [Servers -> ServerTypes]
      /\ \A t \in Servers : t # s => sv[t] = g.srv[t]
  BY <1>2, NewServerType DEF HelperTypes
<1>5. ac \in Int
  BY <1>2 DEF HelperTypes
<1>6. f = [g EXCEPT !.list = l, !.srv = sv, !.active = ac]
  BY <1>2 DEF HelperTypes
<1> HIDE DEF l, sv, ac, f
<1>7. /\ f \in HelperTypes /\ f.list = l /\ f.srv = sv
      /\ f.queue = g.queue /\ f.active = ac
      /\ f.answers = g.answers /\ f.gone = g.gone
  BY <1>2, <1>3, <1>4, <1>5, <1>6 DEF HelperTypes
<1>8. Shape(f) /\ Listed(f) = Listed(g) \ {s}
  BY <1>3, <1>7 DEF Shape, Listed
<1>9. \A t \in Listed(f) : t \in Listed(g) /\ t # s /\ f.srv[t] = g.srv[t]
  BY <1>1, <1>4, <1>7, <1>8, ListedServers
<1>10. \A t \in Listed(f), c \in Channels : Slot(f, t, c) = Slot(g, t, c)
  BY <1>9 DEF Slot
<1>11. \A q : q \in T <=> q # None /\ \E c \in Channels : q = Slot(g, s, c)
  BY DEF Held
<1>12. Counts(f, None)
  <2>1. InService(f) = InService(g) \ {s}
    BY <1>8, <1>9 DEF InService
  <2>2. IsFiniteSet(InService(g)) /\ Cardinality(InService(g)) \in Nat
    BY <1>1, ListedServers, FS_CardinalityType
  <2>3. Cardinality(InService(f)) = IF s \in InService(g)
            THEN Cardinality(InService(g)) - 1 ELSE Cardinality(InService(g))
    BY <2>1, <2>2, FS_RemoveElement
  <2>4. s \in InService(g) <=> ~g.srv[s].shutdown
    BY DEF InService
  <2>5. g.active = Cardinality(InService(g))
    BY <1>1 DEF Counts
  <2>6. f.active = Cardinality(InService(f))
    BY <1>7, <2>2, <2>3, <2>4, <2>5 DEF ac
  <2>7. \A t \in Listed(f) : UsedIn(f, t) = UsedIn(g, t)
    BY <1>9 DEF UsedIn
  <2> QED
    BY <1>1, <1>9, <2>6, <2>7 DEF Counts
<1> HIDE DEF T
<1>13. OnePlace(f, n, T)
  <2>1. \A t \in Listed(f), c \in Channels : Slot(g, t, c) \notin T
    BY <1>1, <1>9, <1>11 DEF OnePlace
  <2>2. \A j \in DOMAIN g.queue : g.queue[j] \notin T
    BY <1>1, <1>11 DEF OnePlace
  <2>3. \A q \in T : g.answers[q] = 0
    BY <1>1, <1>11 DEF OnePlace
  <2>4. \A t, u \in Listed(f) : \A c, d \in Channels :
          (Slot(f, t, c) # None /\ Slot(f, t, c) = Slot(f, u, d))
              => t = u /\ c = d
    BY <1>1, <1>9, <1>10 DEF OnePlace
  <2>5. \A j \in DOMAIN f.queue :
          /\ f.queue[j] \in (1..n) \ T /\ f.answers[f.queue[j]] = 0
          /\ \A t \in Listed(f), c \in Channels : Slot(f, t, c) # f.queue[j]
    BY <1>1, <1>7, <1>9, <1>10, <2>2 DEF OnePlace
  <2>6. \A t \in Listed(f), c \in Channels : Slot(f, t, c) # None =>
          Slot(f, t, c) \in (1..n) \ T /\ f.answers[Slot(f, t, c)] = 0
    BY <1>1, <1>7, <1>9, <1>10, <2>1 DEF OnePlace
  <2>7. \A q \in Requests : f.answers[q] = 0
          \/ (f.answers[q] = 1 /\ q \in (1..n) \ T)
    BY <1>1, <1>7, <2>3 DEF OnePlace
  <2>8. IsInjective(f.queue)
    BY <1>1, <1>7 DEF OnePlace
  <2> QED
    BY <2>4, <2>5, <2>6, <2>7, <2>8 DEF OnePlace
<1>14. Somewhere(f, n, T)
  <2> SUFFICES ASSUME NEW q \in (1..n) \ g.gone, q \notin T,
                      g.answers[q] # 1
               PROVE  \/ \E j \in DOMAIN g.queue : g.queue[j] = q
                      \/ \E t \in Listed(f), c \in Channels :
                            Slot(f, t, c) = q
    BY <1>7 DEF Somewhere
  <2>1. \/ \E j \in DOMAIN g.queue : g.queue[j] = q
        \/ \E t \in Listed(g), c \in Channels : Slot(g, t, c) = q
    BY <1>1 DEF Somewhere
  <2>2. q # None
    BY HelperConstants DEF None
  <2>3. ASSUME NEW t \in Listed(g), NEW c \in Channels, Slot(g, t, c) = q
        PROVE  t \in Listed(f) /\ Slot(f, t, c) = q
    BY <1>8, <1>10, <1>11, <2>2, <2>3
  <2> QED
    BY <2>1, <2>3
<1> QED
  BY <1>8, <1>12, <1>13, <1>14 DEF HelperOK, T, f

(* A set with at most one element.                                         *)
LEMMA OneAtMost ==
    ASSUME NEW S, \A a, b \in S : a = b
    PROVE  IsFiniteSet(S) /\ Cardinality(S) = IF S = {} THEN 0 ELSE 1
<1>1. CASE S = {}
  BY <1>1, FS_EmptySet
<1>2. CASE S # {}
  <2>1. PICK a : S = {a}
    BY <1>2
  <2> QED
    BY <1>2, <2>1, FS_Singleton
<1> QED
  BY <1>1, <1>2

(* The last loop of helperServerFree() answers what the server had.        *)
LEMMA AnswerAllKeeps ==
    ASSUME NEW g, NEW n \in 0..MaxRequests, NEW v \in ServerTypes,
           HelperOK(g, None, n, {v.slot[ch] : ch \in Channels} \ {None}),
           \A c, d \in Channels : v.slot[c] # None /\ v.slot[c] = v.slot[d]
                                    => c = d,
           \A c \in Channels : v.slot[c] # None => v.slot[c] \in 1..n
    PROVE  HelperOK(AnswerAll(g, v), None, n, {})
<1> DEFINE T == {v.slot[ch] : ch \in Channels} \ {None}
           On(r) == {ch \in Channels : v.slot[ch] = r}
           an == [r \in Requests |-> IF r \in g.gone THEN g.answers[r]
                    ELSE g.answers[r] + Cardinality(On(r))]
           f == [g EXCEPT !.answers = an]
<1>1. Shape(g) /\ Counts(g, None) /\ OnePlace(g, n, T) /\ Somewhere(g, n, T)
  BY DEF HelperOK
<1>2. \A q : q \in T <=> q # None /\ \E c \in Channels : q = v.slot[c]
  OBVIOUS
<1>3. g \in HelperTypes /\ g.answers \in [Requests -> Nat]
  BY <1>1 DEF Shape, HelperTypes
<1>4. \A q \in 1..n : q \in Requests
  BY HelperConstants DEF Requests
<1>5. ASSUME NEW q \in Requests
      PROVE  Cardinality(On(q)) = IF q \in T THEN 1 ELSE 0
  <2>1. q # None
    BY HelperConstants DEF Requests, None
  <2>2. \A c, d \in On(q) : c = d
    BY <2>1
  <2>3. On(q) = {} <=> q \notin T
    BY <1>2, <2>1
  <2> HIDE DEF On, T
  <2>4. Cardinality(On(q)) = IF On(q) = {} THEN 0 ELSE 1
    BY <2>2, OneAtMost
  <2> QED
    BY <2>3, <2>4
<1>6. \A q \in T : q \in 1..n /\ q \in Requests
  BY <1>2, <1>4
<1> HIDE DEF T, On
<1>7. \A q \in T : g.answers[q] = 0
  BY <1>1, <1>6 DEF OnePlace
<1>8. /\ an \in [Requests -> Nat]
      /\ \A q \in Requests : an[q] =
            IF q \in T /\ q \notin g.gone THEN 1 ELSE g.answers[q]
  BY <1>3, <1>5, <1>7
<1>9. AnswerAll(g, v) = f
  BY <1>3 DEF AnswerAll, HelperTypes, On
<1> HIDE DEF an
<1>10. /\ f \in HelperTypes /\ f.list = g.list /\ f.srv = g.srv
       /\ f.queue = g.queue /\ f.active = g.active /\ f.answers = an
       /\ f.gone = g.gone
  BY <1>3, <1>8 DEF HelperTypes
<1> HIDE DEF f
<1>11. /\ Listed(f) = Listed(g) /\ InService(f) = InService(g)
       /\ \A s : UsedIn(f, s) = UsedIn(g, s)
       /\ \A s, ch : Slot(f, s, ch) = Slot(g, s, ch)
  BY <1>10, SameServers
<1>12. Shape(f) /\ Counts(f, None)
  BY <1>1, <1>10, <1>11 DEF Shape, Counts
<1>13. OnePlace(f, n, {})
  <2>1. \A i \in DOMAIN f.queue :
          /\ f.queue[i] \in (1..n) \ {} /\ f.answers[f.queue[i]] = 0
          /\ \A s \in Listed(f), c \in Channels : Slot(f, s, c) # f.queue[i]
    BY <1>1, <1>4, <1>8, <1>10, <1>11 DEF OnePlace
  <2>2. \A s, t \in Listed(f) : \A c, d \in Channels :
          (Slot(f, s, c) # None /\ Slot(f, s, c) = Slot(f, t, d))
              => s = t /\ c = d
    BY <1>1, <1>11 DEF OnePlace
  <2>3. \A s \in Listed(f), c \in Channels : Slot(f, s, c) # None =>
          Slot(f, s, c) \in (1..n) \ {} /\ f.answers[Slot(f, s, c)] = 0
    BY <1>1, <1>4, <1>8, <1>10, <1>11 DEF OnePlace
  <2>4. \A q \in Requests : f.answers[q] = 0
          \/ (f.answers[q] = 1 /\ q \in (1..n) \ {})
    BY <1>1, <1>6, <1>8, <1>10 DEF OnePlace
  <2>5. IsInjective(f.queue)
    BY <1>1, <1>10 DEF OnePlace
  <2> QED
    BY <2>1, <2>2, <2>3, <2>4, <2>5 DEF OnePlace
<1>14. Somewhere(f, n, {})
  BY <1>1, <1>4, <1>8, <1>10, <1>11 DEF Somewhere
<1> QED
  BY <1>9, <1>12, <1>13, <1>14 DEF HelperOK

(* helperServerFree(): what the server had is answered, after its          *)
(* replacement was started and the queue kicked.                           *)
LEMMA ServerFreeKeeps ==
    ASSUME NEW s \in Servers, NEW k \in Forks, NEW rapid,
           HelperInv, h.exits = "no", HelperServerFree(s, k, rapid)
    PROVE  HelperInv'
<1> DEFINE v == h.srv[s]
           at == CHOOSE i \in DOMAIN h.list : h.list[i] = s
           f == [h EXCEPT !.list = RemoveAt(@, at), !.srv[s] = NewServer,
                          !.active = IF h.srv[s].shutdown THEN @ ELSE @ - 1]
           opens == ~v.shutdown /\ NeedNew(f.active, reconfiguring) > 0
           fatal == opens /\ f.active < NStartup /\ rapid /\ ~v.replied
           g == IF opens THEN OpenServers(f, k, reconfiguring) ELSE f
           T == Held(h, s)
<1>1. /\ s \in Listed(h) /\ CanOpen(f, k, reconfiguring)
      /\ submitted' = submitted
      /\ h' = IF fatal THEN [f EXCEPT !.exits = "fatal"] ELSE AnswerAll(g, v)
  BY DEF HelperServerFree
<1>2. HelperOK(h, None, submitted, {}) /\ submitted \in 0..MaxRequests
      /\ k \in Nat
  BY HelperConstants DEF HelperInv, Forks
<1>3. HelperOK(f, None, submitted, T)
  BY <1>1, <1>2, UnlistKeeps
<1> HIDE DEF f, at
<1>4. k <= MaxProcesses - Len(f.list)
  BY <1>1 DEF CanOpen
<1>5. HelperOK(g, None, submitted, T)
  BY <1>2, <1>3, <1>4, OpenServersKeeps
<1>6. v \in ServerTypes
  BY <1>2 DEF HelperOK, Shape, HelperTypes
<1>7. T = {v.slot[ch] : ch \in Channels} \ {None}
  BY DEF Held, Slot
<1>8. /\ \A c, d \in Channels : v.slot[c] # None /\ v.slot[c] = v.slot[d]
                                    => c = d
      /\ \A c \in Channels : v.slot[c] # None => v.slot[c] \in 1..submitted
  BY <1>1, <1>2 DEF HelperOK, OnePlace, Slot
<1> HIDE DEF g, T, v, opens
<1>9. HelperOK(AnswerAll(g, v), None, submitted, {})
  BY <1>2, <1>5, <1>6, <1>7, <1>8, AnswerAllKeeps
<1>10. CASE fatal
  <2>1. h' = [f EXCEPT !.exits = "fatal"]
    BY <1>1, <1>10
  <2>2. Shape([f EXCEPT !.exits = "fatal"])
        /\ [f EXCEPT !.exits = "fatal"].exits = "fatal"
    BY <1>3, ExitKeeps DEF HelperOK
  <2>3. Shape(h') /\ h'.exits = "fatal"
    BY <2>1, <2>2, Zenon
  <2> QED
    BY <1>1, <1>2, <2>3 DEF HelperInv
<1>11. CASE ~fatal
  <2>1. h' = AnswerAll(g, v)
    BY <1>1, <1>11
  <2> QED
    BY <1>1, <1>2, <1>9, <2>1 DEF HelperInv, HelperOK
<1> QED
  BY <1>10, <1>11

-----------------------------------------------------------------------------
(* The invariant is inductive                                              *)

(* Steps that touch neither requests nor counters of one server.           *)
LEMMA ServerKeeps ==
    ASSUME HelperInv, h.exits = "no", NEW s \in Servers,
           NEW w \in ServerTypes, w.slot = h.srv[s].slot,
           w.pending = h.srv[s].pending, w.shutdown = h.srv[s].shutdown,
           h' = WithServer(h, s, w), submitted' = submitted
    PROVE  HelperInv'
<1> DEFINE f == WithServer(h, s, w)
<1>1. HelperOK(h, None, submitted, {}) /\ Shape(h)
      /\ submitted \in 0..MaxRequests
  BY DEF HelperInv
<1>2. /\ Shape(f) /\ f.list = h.list /\ f.queue = h.queue
      /\ f.active = h.active /\ f.answers = h.answers
      /\ f.gone = h.gone /\ f.srv[s] = w
      /\ \A t \in Servers : t # s => f.srv[t] = h.srv[t]
  BY <1>1, UpdateServer
<1>3. h' = f
  OBVIOUS
<1> HIDE DEF f
<1>4. \A t \in Servers : /\ f.srv[t].slot = h.srv[t].slot
                         /\ f.srv[t].pending = h.srv[t].pending
                         /\ f.srv[t].shutdown = h.srv[t].shutdown
  <2> TAKE t \in Servers
  <2>1. CASE t = s
    BY <1>2, <2>1
  <2>2. CASE t # s
    BY <1>2, <2>2
  <2> QED
    BY <2>1, <2>2
<1>5. HelperOK(f, None, submitted, {})
  BY <1>1, <1>2, <1>4, SameRequests
<1>6. HelperOK(h', None, submitted', {}) /\ Shape(h')
      /\ submitted' \in 0..MaxRequests
  <2>1. submitted' = submitted
    OBVIOUS
  <2> QED
    BY <1>1, <1>2, <1>3, <1>5, <2>1, Zenon
<1> QED
  BY <1>6, Zenon DEF HelperInv

(* helperDispatchWriteDone()                                               *)
LEMMA WriteDoneKeeps ==
    ASSUME HelperInv, h.exits = "no", NEW s \in Servers, WriteDone(s)
    PROVE  HelperInv'
<1> DEFINE v == h.srv[s]
           ok == v.alive /\ ~v.closing
           wb == IF ok THEN v.wqueue ELSE {}
           wq == IF ok THEN {} ELSE v.wqueue
           w1 == [v EXCEPT !.writebuf = wb]
           w == [w1 EXCEPT !.wqueue = wq]
<1>1. v \in ServerTypes /\ h \in HelperTypes
  BY DEF HelperInv, Shape, HelperTypes
<1>2. wb \in SUBSET Channels /\ wq \in SUBSET Channels
  BY <1>1 DEF ServerTypes
<1>3. submitted' = submitted /\ h' = WithServer(h, s, w)
  <2> DEFINE x == [h EXCEPT !.srv[s].writebuf = wb, !.srv[s].wqueue = wq]
  <2>1. submitted' = submitted /\ h' = x
    BY Zenon DEF WriteDone
  <2> HIDE DEF wb, wq
  <2>2. x = WithServer(h, s, w)
    BY <1>1 DEF WithServer, HelperTypes, ServerTypes
  <2> QED
    BY <2>1, <2>2
<1> HIDE DEF wb, wq
<1>4. /\ w \in ServerTypes /\ w.slot = v.slot /\ w.pending = v.pending
      /\ w.shutdown = v.shutdown
  <2> HIDE DEF v
  <2>1. /\ w1 \in ServerTypes /\ w1.slot = v.slot /\ w1.pending = v.pending
        /\ w1.shutdown = v.shutdown
    BY <1>1, <1>2 DEF ServerTypes
  <2> HIDE DEF w1
  <2> QED
    BY <1>2, <2>1 DEF ServerTypes
<1> HIDE DEF w
<1> QED
  BY <1>3, <1>4, ServerKeeps

(* A crash                                                                 *)
LEMMA CrashKeeps ==
    ASSUME HelperInv, h.exits = "no", NEW s \in Servers, Crash(s)
    PROVE  HelperInv'
<1> DEFINE v == h.srv[s]
           w == [v EXCEPT !.alive = FALSE]
<1>1. v \in ServerTypes
  BY DEF HelperInv, Shape, HelperTypes
<1>2. submitted' = submitted /\ h' = WithServer(h, s, w)
  BY DEF Crash, WithServer
<1>3. /\ w \in ServerTypes /\ w.slot = v.slot /\ w.pending = v.pending
      /\ w.shutdown = v.shutdown
  <2> HIDE DEF v
  <2> QED
    BY <1>1 DEF ServerTypes
<1> HIDE DEF w
<1> QED
  BY <1>2, <1>3, ServerKeeps

(* The end of file                                                         *)
LEMMA ReadEofKeeps ==
    ASSUME HelperInv, h.exits = "no", NEW s \in Servers, ReadEof(s)
    PROVE  HelperInv'
<1> DEFINE v == h.srv[s]
           w == [v EXCEPT !.closing = TRUE]
<1>1. v \in ServerTypes
  BY DEF HelperInv, Shape, HelperTypes
<1>2. submitted' = submitted /\ h' = WithServer(h, s, w)
  BY DEF ReadEof, WithServer
<1>3. /\ w \in ServerTypes /\ w.slot = v.slot /\ w.pending = v.pending
      /\ w.shutdown = v.shutdown
  <2> HIDE DEF v
  <2> QED
    BY <1>1 DEF ServerTypes
<1> HIDE DEF w
<1> QED
  BY <1>2, <1>3, ServerKeeps

(* helperSubmit(), called from outside                                     *)
LEMMA SubmitKeeps ==
    ASSUME HelperInv, h.exits = "no", NEW r \in Requests, NEW k \in Forks,
           NEW late, Submit(r, k, late)
    PROVE  HelperInv'
<1> DEFINE g == HelperSubmit(h, r, k, late, reconfiguring)
<1>1. /\ r = submitted + 1 /\ CanOpen(h, k, reconfiguring)
      /\ submitted' = r /\ h' = g
  BY DEF Submit
<1>2. HelperOK(h, None, submitted, {}) /\ submitted \in 0..MaxRequests
      /\ k \in Nat
  BY HelperConstants DEF HelperInv, Forks
<1>3. submitted + 1 <= MaxRequests
  BY <1>1, HelperConstants DEF Requests
<1>4. /\ r \in 0..MaxRequests /\ r \in 1..r
      /\ HelperOK(h, None, r, {} \cup {r})
  BY <1>1, <1>2, <1>3, NewRequest
<1>5. HelperOK(g, None, r, {})
  BY <1>1, <1>2, <1>4, HelperSubmitKeeps
<1> HIDE DEF g
<1> QED
  BY <1>1, <1>4, <1>5 DEF HelperInv, HelperOK

(* helperShutdown(): no server is in service then.                         *)
LEMMA ReconfigureStartKeeps ==
    ASSUME HelperInv, h.exits = "no", ReconfigureStart
    PROVE  HelperInv'
<1> DEFINE W(s) == [h.srv[s] EXCEPT !.shutdown = TRUE,
                                    !.closing = @ \/ h.srv[s].pending = 0]
           sv == [s \in Servers |->
                    IF s \notin InService(h) THEN h.srv[s] ELSE W(s)]
           ac == h.active - Cardinality(InService(h))
           f == [h EXCEPT !.srv = sv, !.active = ac]
<1>1. HelperOK(h, None, submitted, {}) /\ submitted \in 0..MaxRequests
  BY DEF HelperInv
<1>2. Shape(h) /\ Counts(h, None) /\ OnePlace(h, submitted, {})
      /\ Somewhere(h, submitted, {}) /\ h \in HelperTypes
  BY <1>1 DEF HelperOK, Shape
<1>3. ASSUME NEW s \in Servers
      PROVE  /\ W(s) \in ServerTypes /\ W(s).slot = h.srv[s].slot
             /\ W(s).pending = h.srv[s].pending /\ W(s).shutdown = TRUE
  <2> DEFINE v == h.srv[s]
             cl == v.closing \/ v.pending = 0
             w1 == [v EXCEPT !.shutdown = TRUE]
             w == [w1 EXCEPT !.closing = cl]
  <2>1. v \in ServerTypes
    BY <1>2 DEF HelperTypes
  <2>2. cl \in BOOLEAN
    BY <2>1 DEF ServerTypes
  <2>3. W(s) = w
    BY <2>1 DEF ServerTypes
  <2> HIDE DEF v, cl
  <2>4. /\ w1 \in ServerTypes /\ w1.slot = v.slot /\ w1.pending = v.pending
        /\ w1.shutdown = TRUE
    BY <2>1 DEF ServerTypes
  <2> HIDE DEF w1
  <2>5. /\ w \in ServerTypes /\ w.slot = v.slot /\ w.pending = v.pending
        /\ w.shutdown = TRUE
    BY <2>2, <2>4 DEF ServerTypes
  <2> QED
    BY <2>3, <2>5 DEF v
<1>4. h' = f /\ submitted' = submitted
  <2>1. h' = f
    BY Zenon DEF ReconfigureStart
  <2>2. submitted' = submitted
    BY DEF ReconfigureStart
  <2> QED
    BY <2>1, <2>2
<1>5. IsFiniteSet(InService(h)) /\ Cardinality(InService(h)) \in Nat
      /\ h.active = Cardinality(InService(h))
  BY <1>2, ListedServers, FS_CardinalityType DEF Counts
<1>6. ac = 0 /\ ac \in Int
  BY <1>5
<1> HIDE DEF W
<1>7. /\ sv \in [Servers -> ServerTypes]
      /\ \A s \in Servers : /\ sv[s].slot = h.srv[s].slot
                            /\ sv[s].pending = h.srv[s].pending
                            /\ s \in InService(h) => sv[s].shutdown = TRUE
                            /\ s \notin InService(h) => sv[s] = h.srv[s]
  BY <1>2, <1>3 DEF HelperTypes
<1> HIDE DEF sv, ac
<1>8. /\ f \in HelperTypes /\ f.list = h.list /\ f.srv = sv
      /\ f.queue = h.queue /\ f.active = ac
      /\ f.answers = h.answers /\ f.gone = h.gone
  BY <1>2, <1>6, <1>7 DEF HelperTypes
<1> HIDE DEF f
<1>9. Shape(f) /\ Listed(f) = Listed(h)
  BY <1>2, <1>8 DEF Shape, Listed
<1>10. \A s \in Listed(h) : s \in Servers
  BY <1>2, ListedServers
<1>11. InService(f) = {}
  <2> SUFFICES ASSUME NEW s \in Listed(f) PROVE f.srv[s].shutdown = TRUE
    BY DEF InService
  <2>1. CASE s \in InService(h)
    BY <1>7, <1>8, <1>9, <1>10, <2>1
  <2>2. CASE s \notin InService(h)
    <3>1. s \in Servers /\ s \in Listed(h) /\ f.srv[s] = h.srv[s]
      BY <1>7, <1>8, <1>9, <1>10, <2>2
    <3>2. h.srv[s].shutdown \in BOOLEAN
      BY <1>2, <3>1 DEF HelperTypes, ServerTypes
    <3> QED
      BY <2>2, <3>1, <3>2 DEF InService
  <2> QED
    BY <2>1, <2>2
<1>12. \A s \in Listed(h) : UsedIn(f, s) = UsedIn(h, s)
  BY <1>7, <1>8, <1>10 DEF UsedIn
<1>13. \A s \in Listed(h), c \in Channels : Slot(f, s, c) = Slot(h, s, c)
  BY <1>7, <1>8, <1>10 DEF Slot
<1>14. Counts(f, None)
  BY <1>2, <1>6, <1>7, <1>8, <1>9, <1>10, <1>11, <1>12, FS_EmptySet
  DEF Counts
<1>15. OnePlace(f, submitted, {})
  BY <1>2, <1>8, <1>9, <1>13 DEF OnePlace
<1>16. Somewhere(f, submitted, {})
  BY <1>2, <1>8, <1>9, <1>13 DEF Somewhere
<1> QED
  BY <1>1, <1>4, <1>9, <1>14, <1>15, <1>16 DEF HelperInv, HelperOK

(* helperOpenServers() at the end of the reconfiguration                   *)
LEMMA ReconfigureFinishKeeps ==
    ASSUME HelperInv, h.exits = "no", NEW k \in Forks, ReconfigureFinish(k)
    PROVE  HelperInv'
<1> DEFINE g == OpenServers(h, k, TRUE)
<1>1. CanOpen(h, k, TRUE) /\ h' = g /\ submitted' = submitted
  BY DEF ReconfigureFinish
<1>2. HelperOK(h, None, submitted, {}) /\ submitted \in 0..MaxRequests
      /\ k \in Nat
  BY HelperConstants DEF HelperInv, Forks
<1>3. k <= MaxProcesses - Len(h.list)
  BY <1>1 DEF CanOpen
<1>4. HelperOK(g, None, submitted, {})
  BY <1>2, <1>3, OpenServersKeeps
<1> HIDE DEF g
<1> QED
  BY <1>1, <1>2, <1>4 DEF HelperInv, HelperOK

(* Nobody waits for the answer any more.                                   *)
LEMMA CancelKeeps ==
    ASSUME HelperInv, h.exits = "no", NEW r \in Requests, Cancel(r)
    PROVE  HelperInv'
<1> DEFINE go == h.gone \cup {r}
           f == [h EXCEPT !.gone = go]
<1>1. HelperOK(h, None, submitted, {}) /\ submitted \in 0..MaxRequests
  BY DEF HelperInv
<1>2. Shape(h) /\ Counts(h, None) /\ OnePlace(h, submitted, {})
      /\ Somewhere(h, submitted, {}) /\ h \in HelperTypes
  BY <1>1 DEF HelperOK, Shape
<1>3. go \in SUBSET Requests
  BY <1>2 DEF HelperTypes
<1>4. h' = f /\ submitted' = submitted
  BY DEF Cancel
<1>5. h.gone \subseteq go
  OBVIOUS
<1> HIDE DEF go
<1>6. /\ f \in HelperTypes /\ f.list = h.list /\ f.srv = h.srv
      /\ f.queue = h.queue /\ f.active = h.active
      /\ f.answers = h.answers /\ f.gone = go
  BY <1>2, <1>3 DEF HelperTypes
<1> HIDE DEF f
<1>7. /\ Listed(f) = Listed(h) /\ InService(f) = InService(h)
      /\ \A s : UsedIn(f, s) = UsedIn(h, s)
      /\ \A s, ch : Slot(f, s, ch) = Slot(h, s, ch)
  BY <1>6, SameServers
<1>8. Shape(f) /\ Counts(f, None)
  BY <1>2, <1>6, <1>7 DEF Shape, Counts
<1>9. OnePlace(f, submitted, {})
  BY <1>2, <1>6, <1>7 DEF OnePlace
<1>10. Somewhere(f, submitted, {})
  BY <1>2, <1>5, <1>6, <1>7 DEF Somewhere
<1> QED
  BY <1>1, <1>4, <1>8, <1>9, <1>10 DEF HelperInv, HelperOK

(* The startup helpers are idle and nothing was submitted.                 *)
LEMMA HelperInitially == HelperInit => HelperInv
<1> SUFFICES ASSUME HelperInit PROVE HelperInv
  OBVIOUS
<1> DEFINE l == [s \in 1..NStartup |-> s]
           sv == [s \in Servers |-> NewServer]
           an == [r \in Requests |-> 0]
<1>1. /\ h = [list |-> l, srv |-> sv, queue |-> <<>>, active |-> NStartup,
              answers |-> an, gone |-> {}, exits |-> "no",
              forkFailed |-> FALSE]
      /\ submitted = 0
  BY DEF HelperInit
<1>2. /\ l \in Seq(Servers) /\ IsInjective(l) /\ ToSet(l) = 1..NStartup
  BY HelperConstants DEF Servers, IsInjective, ToSet
<1>3. sv \in [Servers -> ServerTypes] /\ \A s \in Servers : sv[s] = NewServer
  BY NewServerType
<1>4. /\ an \in [Requests -> Nat] /\ \A r \in Requests : an[r] = 0
      /\ <<>> \in Seq(Requests) /\ NStartup \in Int /\ submitted = 0
      /\ {} \in SUBSET Requests /\ \A i : i \notin DOMAIN <<>>
  BY <1>1, HelperConstants
<1> HIDE DEF l, sv, an
<1>5. h \in HelperTypes
  BY <1>1, <1>2, <1>3, <1>4, Zenon DEF HelperTypes
<1>6. /\ h.list = l /\ h.srv = sv /\ h.queue = <<>> /\ h.active = NStartup
      /\ h.answers = an
  BY <1>1, Zenon
<1>7. Shape(h)
  BY <1>2, <1>5, <1>6 DEF Shape
<1>8. Listed(h) = 1..NStartup
  BY <1>2, <1>6 DEF Listed
<1>9. \A s \in Listed(h) : s \in Servers /\ h.srv[s] = NewServer
  BY <1>3, <1>6, <1>7, ListedServers
<1>10. InService(h) = Listed(h)
  BY <1>9, NewServerType DEF InService
<1>11. \A s \in Listed(h), c \in Channels : Slot(h, s, c) = None
  BY <1>9, NewServerType DEF Slot
<1>12. Counts(h, None)
  <2>1. Cardinality(InService(h)) = NStartup
    BY <1>8, <1>10, HelperConstants, FS_Interval
  <2>2. ASSUME NEW s \in Listed(h)
        PROVE  h.srv[s].pending = Cardinality(UsedIn(h, s))
                                    + (IF s = None THEN 1 ELSE 0)
    <3>1. UsedIn(h, s) = {}
      BY <1>11 DEF UsedIn, Slot
    <3>2. s # None
      BY <1>7, ListedServers
    <3> QED
      BY <1>9, <3>1, <3>2, NewServerType, FS_EmptySet
  <2> QED
    BY <1>6, <2>1, <2>2 DEF Counts
<1>13. DOMAIN h.queue = {}
  BY <1>6
<1>14. OnePlace(h, submitted, {})
  BY <1>4, <1>6, <1>11, <1>13 DEF OnePlace, IsInjective
<1>15. Somewhere(h, submitted, {})
  BY <1>4 DEF Somewhere
<1>16. submitted \in 0..MaxRequests
  BY <1>4, HelperConstants
<1> QED
  BY <1>7, <1>12, <1>14, <1>15, <1>16 DEF HelperInv, HelperOK

(* Every step keeps the invariant.                                         *)
LEMMA HelperStep == HelperInv /\ [HelperNext]_helperVars => HelperInv'
<1> SUFFICES ASSUME HelperInv, [HelperNext]_helperVars PROVE HelperInv'
  OBVIOUS
<1>1. CASE UNCHANGED helperVars
  BY <1>1 DEF helperVars, HelperInv
<1>2. CASE HelperNext
  <2>1. h.exits = "no"
    BY <1>2 DEF HelperNext
  <2>2. ASSUME NEW r \in Requests, NEW k \in Forks, NEW late \in BOOLEAN,
               Submit(r, k, late)
        PROVE  HelperInv'
    BY <2>1, <2>2, SubmitKeeps
  <2>3. ASSUME NEW s \in Servers, Replies(s) PROVE HelperInv'
    BY <2>1, <2>3, ReturnBufferKeeps DEF Replies
  <2>4. ASSUME NEW s \in Servers, WriteDone(s) PROVE HelperInv'
    BY <2>1, <2>4, WriteDoneKeeps
  <2>5. ASSUME NEW s \in Servers, Crash(s) PROVE HelperInv'
    BY <2>1, <2>5, CrashKeeps
  <2>6. ASSUME NEW s \in Servers, ReadEof(s) PROVE HelperInv'
    BY <2>1, <2>6, ReadEofKeeps
  <2>7. ASSUME NEW s \in Servers, Freed(s) PROVE HelperInv'
    BY <2>1, <2>7, ServerFreeKeeps DEF Freed
  <2>8. CASE ReconfigureStart
    BY <2>1, <2>8, ReconfigureStartKeeps
  <2>9. CASE Finish
    BY <2>1, <2>9, ReconfigureFinishKeeps DEF Finish
  <2>10. ASSUME NEW r \in Requests, Cancel(r) PROVE HelperInv'
    BY <2>1, <2>10, CancelKeeps
  <2> QED
    BY <1>2, <2>2, <2>3, <2>4, <2>5, <2>6, <2>7, <2>8, <2>9, <2>10
    DEF HelperNext
<1> QED
  BY <1>1, <1>2

(* The invariant holds always.                                             *)
LEMMA HelperAlways == HelperSpec => []HelperInv
BY HelperInitially, HelperStep, PTL DEF HelperSpec

(* The counters of helper.cc are exact: n_active is the number of servers  *)
(* in service, and stats.pending that of the requests on a server's        *)
(* channels, so that neither assertion on them fails.                      *)
THEOREM HelperCountersExact == HelperSpec => []HelperTypeOK
<1>1. HelperInv => HelperTypeOK
  <2> SUFFICES ASSUME HelperInv PROVE HelperTypeOK
    OBVIOUS
  <2>1. /\ h.list \in Seq(Servers) /\ IsInjective(h.list)
        /\ h.queue \in Seq(Requests) /\ h.answers \in [Requests -> Nat]
    BY DEF HelperInv, Shape, HelperTypes
  <2>2. ASSUME h.exits = "no"
        PROVE  /\ h.active = Cardinality(InService(h))
               /\ \A s \in Listed(h) : h.srv[s].pending = Cardinality(Used(s))
    <3>1. Shape(h) /\ Counts(h, None)
      BY <2>2 DEF HelperInv, HelperOK
    <3>2. \A s : Used(s) = UsedIn(h, s)
      BY DEF Used, UsedIn
    <3>3. ASSUME NEW s \in Listed(h)
          PROVE  h.srv[s].pending = Cardinality(Used(s))
      <4>1. s # None
        BY <3>1, ListedServers
      <4>2. h.srv[s].pending = Cardinality(UsedIn(h, s)) + 0
        BY <3>1, <4>1 DEF Counts
      <4>3. Cardinality(UsedIn(h, s)) \in Nat
        BY HelperConstants, FS_Subset, FS_CardinalityType DEF UsedIn
      <4> QED
        BY <3>2, <4>2, <4>3
    <3> QED
      BY <3>1, <3>3 DEF Counts
  <2> QED
    BY <2>1, <2>2 DEF HelperTypeOK
<1> QED
  BY <1>1, HelperAlways, PTL

(* No request is lost and none is answered twice, however many helpers     *)
(* crash, are replaced or cannot be started, and whatever is submitted     *)
(* from a callback.                                                        *)
THEOREM HelperRequestsSafe == HelperSpec => []RequestsAccounted
<1>1. HelperInv => RequestsAccounted
  <2> SUFFICES ASSUME HelperInv, h.exits = "no", NEW r \in 1..submitted
               PROVE  LET places ==
                            Cardinality({i \in DOMAIN h.queue :
                                            h.queue[i] = r})
                          + Cardinality({p \in Listed(h) \X Channels :
                                            h.srv[p[1]].slot[p[2]] = r})
                          + h.answers[r]
                      IN  IF r \in h.gone THEN places <= 1 ELSE places = 1
    BY DEF RequestsAccounted
  <2> DEFINE Q == {i \in DOMAIN h.queue : h.queue[i] = r}
             P == {p \in Listed(h) \X Channels : h.srv[p[1]].slot[p[2]] = r}
  <2>1. OnePlace(h, submitted, {}) /\ Somewhere(h, submitted, {})
        /\ r \in Requests /\ r # None
    BY HelperConstants DEF HelperInv, HelperOK, Requests, None
  <2>2. \A i, j \in Q : i = j
    BY <2>1 DEF OnePlace, IsInjective
  <2>3. \A p \in P : /\ p[1] \in Listed(h) /\ p[2] \in Channels
                     /\ p = <<p[1], p[2]>> /\ Slot(h, p[1], p[2]) = r
    BY DEF Slot
  <2>4. \A p, q \in P : p = q
    <3> HIDE DEF P
    <3> SUFFICES ASSUME NEW p \in P, NEW q \in P PROVE p = q
      OBVIOUS
    <3>1. p[1] = q[1] /\ p[2] = q[2]
      BY <2>1, <2>3 DEF OnePlace
    <3> QED
      BY <2>3, <3>1
  <2>5. Q # {} => P = {} /\ h.answers[r] = 0
    BY <2>1, <2>3 DEF OnePlace
  <2>6. P # {} => h.answers[r] = 0
    BY <2>1, <2>3 DEF OnePlace
  <2>7. r \in h.gone \/ h.answers[r] = 1 \/ Q # {} \/ P # {}
    <3>1. \A s \in Listed(h), c \in Channels :
            Slot(h, s, c) = r => <<s, c>> \in P
      BY DEF Slot
    <3> QED
      BY <2>1, <3>1 DEF Somewhere
  <2>8. h.answers[r] = 0 \/ h.answers[r] = 1
    BY <2>1 DEF OnePlace
  <2> HIDE DEF P, Q
  <2>9. /\ Cardinality(Q) = IF Q = {} THEN 0 ELSE 1
        /\ Cardinality(P) = IF P = {} THEN 0 ELSE 1
    BY <2>2, <2>4, OneAtMost
  <2>10. LET places == Cardinality(Q) + Cardinality(P) + h.answers[r]
         IN  IF r \in h.gone THEN places <= 1 ELSE places = 1
    BY <2>5, <2>6, <2>7, <2>8, <2>9
  <2> QED
    BY <2>10 DEF P, Q
<1> QED
  BY <1>1, HelperAlways, PTL
=============================================================================
