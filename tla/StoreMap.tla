------------------------------ MODULE StoreMap ------------------------------
(***************************************************************************)
(* Ipc::StoreMap (src/src/ipc/StoreMap.cc): the shared-memory index of the *)
(* memory cache and of a Rock cache_dir, a fixed array of slots found by   *)
(* hashing the entry key, each guarded by an Ipc::ReadWriteLock.           *)
(*                                                                         *)
(* A user is a StoreEntry, a MemStore call, or a Rock::SwapDir::addEntry() *)
(* of the rebuild, in some kid process.  Kids share memory and nothing     *)
(* orders their steps, so each access to a word that another kid may touch *)
(* at that moment (the lock counters, waitingToBeFreed and count) is a     *)
(* step of its own.  state, key and the stored content are only touched by *)
(* lock owners; accesses to them are joined to a neighbouring step.  What  *)
(* a user may call next is what MemStore and Rock::SwapDir call next.      *)
(***************************************************************************)
EXTENDS ReadWriteLock

CONSTANTS Keys,
          SlotOf,     \* [Keys -> Locks]: slotIndexByKey()
          MaxWrites   \* bound on how often a slot is claimed for writing

ASSUME MapAssumption ==
    /\ NoLock \notin Keys
    /\ SlotOf \in [Keys -> Locks]
    /\ MaxWrites \in Nat

VARIABLES state,             \* [Locks -> States]: Slot::state
          waitingToBeFreed,  \* [Locks -> BOOLEAN]
          key,               \* [Locks -> Keys \cup {NoLock}]: Slot::key
          ver,               \* [Locks -> Nat]: which write made the content
          count,             \* Shared::count, an Atomic::Word
          op,                \* [Users -> Ops]: where the user is in a method
          want,              \* [Users -> Keys]: the key the user asked for
          idx,               \* [Users -> Locks]: the slot the user worked on
          sees,              \* [Users -> Nat]: the ver the user opened
          writes,            \* how often a slot was claimed for writing
          freed              \* the vers that free() returned for, except those
                             \* that addEntry() made readable again

mapVars == <<state, waitingToBeFreed, key, ver, count,
             op, want, idx, sees, writes, freed>>
vars == <<lockVars, mapVars>>

States == {"Empty", "Writeable", "Readable"}

(***************************************************************************)
(* none: between calls; then the user has the slot open for reading,       *)
(* writing, or not at all, as held says.  openRead..drop: openForReading.  *)
(* openWrite..claim: openForWriting.  release, downgrade: closeForWriting, *)
(* added: the same at the end of addEntry.                                 *)
(* closed: MemStore::get after closeForReading, about to call free.        *)
(* free..mark: free.  unlock, uncount: the end of freeLocked.              *)
(***************************************************************************)
Ops == {"none", "openRead", "check", "drop",
        "openWrite", "evict", "evicted", "claim",
        "release", "downgrade", "added",
        "closed", "free", "freeLocked", "mark",
        "unlock", "uncount"}

(* Types; the entry versions are those written so far. *)
MapTypeOK ==
    /\ LockTypeOK
    /\ state \in [Locks -> States]
    /\ waitingToBeFreed \in [Locks -> BOOLEAN]
    /\ key \in [Locks -> Keys \cup {NoLock}]
    /\ ver \in [Locks -> 0..writes]
    /\ count \in Int
    /\ op \in [Users -> Ops]
    /\ want \in [Users -> Keys \cup {NoLock}]
    /\ idx \in [Users -> Locks \cup {NoLock}]
    /\ sees \in [Users -> 0..writes]
    /\ writes \in Nat
    /\ freed \in SUBSET (1..writes)

MapInit ==
    /\ LockInit
    /\ state = [s \in Locks |-> "Empty"]
    /\ waitingToBeFreed = [s \in Locks |-> FALSE]
    /\ key = [s \in Locks |-> NoLock]
    /\ ver = [s \in Locks |-> 0]
    /\ count = 0
    /\ op = [u \in Users |-> "none"]
    /\ want = [u \in Users |-> NoLock]
    /\ idx = [u \in Users |-> NoLock]
    /\ sees = [u \in Users |-> 0]
    /\ writes = 0
    /\ freed = {}

Goes(u, o) == op' = [op EXCEPT ![u] = o]

(* What most steps leave alone. *)
SameSlots == UNCHANGED <<state, key, ver, writes>>
SameAims == UNCHANGED <<want, idx, sees>>

-----------------------------------------------------------------------------
(* openForReading *)

OpenForReading(u, k) ==
    /\ op[u] = "none"
    /\ LockSharedEnter(u, SlotOf[k])
    /\ want' = [want EXCEPT ![u] = k]
    /\ idx' = [idx EXCEPT ![u] = SlotOf[k]]
    /\ Goes(u, "openRead")
    /\ SameSlots /\ UNCHANGED <<waitingToBeFreed, count, sees, freed>>

OpenForReadingTry(u) ==
    /\ op[u] = "openRead"
    /\ LockSharedTest(u)
    /\ Goes(u, IF held'[u] = "shared" THEN "check" ELSE "openRead")
    /\ SameSlots /\ SameAims /\ UNCHANGED <<waitingToBeFreed, count, freed>>

OpenForReadingFail(u) ==
    /\ op[u] = "openRead"
    /\ LockSharedUndo(u)
    /\ Goes(u, "none")
    /\ SameSlots /\ SameAims /\ UNCHANGED <<waitingToBeFreed, count, freed>>

(***************************************************************************)
(* The user has the shared lock: refuse an empty slot, a slot that waits   *)
(* to be freed and a slot with another key.                                *)
(***************************************************************************)
Servable(u) ==
    /\ state[at[u]] # "Empty"
    /\ ~waitingToBeFreed[at[u]]
    /\ key[at[u]] = want[u]

CheckSlot(u) ==
    /\ op[u] = "check"
    /\ Goes(u, IF Servable(u) THEN "none" ELSE "drop")
    /\ sees' = [sees EXCEPT ![u] = IF Servable(u) THEN ver[at[u]] ELSE @]
    /\ SameSlots
    /\ UNCHANGED <<lockVars, waitingToBeFreed, count, want, idx, freed>>

DropSlot(u) ==
    /\ op[u] = "drop"
    /\ UnlockShared(u)
    /\ Goes(u, "none")
    /\ SameSlots /\ SameAims /\ UNCHANGED <<waitingToBeFreed, count, freed>>

-----------------------------------------------------------------------------
(* freeLocked: the cleaner, the flag and the state; then, unless the slot  *)
(* stays locked, the lock; then the count.                                 *)

EmptySlotMutant(s) ==           \* leaves the slot state alone
    /\ waitingToBeFreed' = [waitingToBeFreed EXCEPT ![s] = FALSE]
    /\ UNCHANGED <<state, key, ver, writes>>

EmptySlot(s) ==
    /\ waitingToBeFreed' = [waitingToBeFreed EXCEPT ![s] = FALSE]
    /\ state' = [state EXCEPT ![s] = "Empty"]
    /\ UNCHANGED <<key, ver, writes>>

FreeUnlock(u) ==
    /\ op[u] = "unlock"
    /\ UnlockExclusive(u)
    /\ Goes(u, "uncount")
    /\ SameSlots /\ SameAims /\ UNCHANGED <<waitingToBeFreed, count, freed>>

FreeUncount(u) ==
    /\ op[u] \in {"uncount", "evicted"}
    /\ count' = count - 1
    /\ Goes(u, IF op[u] = "evicted" THEN "claim" ELSE "none")
    /\ SameSlots /\ SameAims /\ UNCHANGED <<lockVars, waitingToBeFreed, freed>>

-----------------------------------------------------------------------------
(* openForWriting *)

Writing ==                      \* the users between openForWriting and set()
    {u \in Users : op[u] \in {"openWrite", "evict", "evicted", "claim"}}

OpenForWriting(u, k) ==
    /\ op[u] = "none"
    /\ at[u] = NoLock
    /\ writes + Cardinality(Writing) < MaxWrites
    /\ LockExclusiveEnter(u, SlotOf[k])
    /\ want' = [want EXCEPT ![u] = k]
    /\ idx' = [idx EXCEPT ![u] = SlotOf[k]]
    /\ Goes(u, "openWrite")
    /\ SameSlots /\ UNCHANGED <<waitingToBeFreed, count, sees, freed>>

OpenForWritingTry(u) ==
    /\ op[u] = "openWrite"
    /\ LockExclusiveTest(u)
    /\ Goes(u, IF held'[u] = "exclusive" THEN "evict" ELSE "openWrite")
    /\ SameSlots /\ SameAims /\ UNCHANGED <<waitingToBeFreed, count, freed>>

OpenForWritingFail(u) ==
    /\ op[u] = "openWrite"
    /\ LockExclusiveUndo(u)
    /\ Goes(u, "none")
    /\ SameSlots /\ SameAims /\ UNCHANGED <<waitingToBeFreed, count, freed>>

Evict(u) ==                     \* freeLocked(s, true) if the entry was used
    /\ op[u] = "evict"
    /\ \/ /\ waitingToBeFreed[at[u]] \/ state[at[u]] = "Readable"
          /\ EmptySlot(at[u])
          /\ Goes(u, "evicted")
       \/ /\ ~waitingToBeFreed[at[u]] /\ state[at[u]] # "Readable"
          /\ Goes(u, "claim")
          /\ SameSlots /\ UNCHANGED waitingToBeFreed
    /\ SameAims /\ UNCHANGED <<lockVars, count, freed>>

ClaimSlot(u) ==                 \* count, state, and the caller's slot->set()
    /\ op[u] = "claim"
    /\ count' = count + 1
    /\ state' = [state EXCEPT ![at[u]] = "Writeable"]
    /\ key' = [key EXCEPT ![at[u]] = want[u]]
    /\ writes' = writes + 1
    /\ ver' = [ver EXCEPT ![at[u]] = writes + 1]
    /\ sees' = [sees EXCEPT ![u] = writes + 1]
    /\ Goes(u, "none")
    /\ UNCHANGED <<lockVars, waitingToBeFreed, want, idx, freed>>

(***************************************************************************)
(* Rock::SwapDir::addEntry(), for an entry that the rebuild found in a     *)
(* cell other than the one its key hashes to, opens the slot, does not     *)
(* set() it, and closes it: key and content of the slot's last entry,      *)
(* which was evicted or freed, are Readable again.                         *)
(***************************************************************************)
ClaimUnset(u) ==                \* count, state, and closeForWriting's state
    /\ op[u] = "claim"
    /\ count' = count + 1
    /\ state' = [state EXCEPT ![at[u]] = "Readable"]
    /\ writes' = writes + 1
    /\ freed' = freed \ {ver[at[u]]}
    /\ Goes(u, "added")
    /\ SameAims /\ UNCHANGED <<lockVars, waitingToBeFreed, key, ver>>

-----------------------------------------------------------------------------
(* The writer's way out: closeForWriting, with or without keeping the slot *)
(* open for reading.                                                       *)

CloseForWriting(u) ==
    /\ op[u] = "none"
    /\ held[u] = "exclusive"
    /\ state' = [state EXCEPT ![at[u]] = "Readable"]
    /\ \E o \in {"release", "downgrade"} : Goes(u, o)
    /\ SameAims
    /\ UNCHANGED <<lockVars, waitingToBeFreed, key, ver, count, writes, freed>>

CloseUnlock(u) ==
    /\ op[u] \in {"release", "added"}
    /\ UnlockExclusive(u)
    /\ Goes(u, "none")
    /\ SameSlots /\ SameAims /\ UNCHANGED <<waitingToBeFreed, count, freed>>

CloseSwitchMutant(u) ==         \* drops the write lock first, then reads
    /\ op[u] = "downgrade"
    /\ \/ SwitchEnterMutant(u) /\ UNCHANGED op
       \/ step[u] = "none" /\ held[u] = "shared" /\ Goes(u, "none")
          /\ UNCHANGED lockVars
    /\ SameSlots /\ SameAims /\ UNCHANGED <<waitingToBeFreed, count, freed>>

CloseSwitch(u) ==
    /\ op[u] = "downgrade"
    /\ \/ SwitchEnter(u) /\ UNCHANGED op
       \/ SwitchLeave(u) /\ Goes(u, "none")
    /\ SameSlots /\ SameAims /\ UNCHANGED <<waitingToBeFreed, count, freed>>

-----------------------------------------------------------------------------
(* abortIo, called by Rock::SwapDir::disconnect() and MemStore::keep(): a  *)
(* writer frees its slot, a reader closes it.                              *)

AbortIo(u) ==
    /\ op[u] = "none"
    /\ held[u] # "none"
    /\ \/ /\ state[at[u]] = "Writeable"
          /\ EmptySlot(at[u])
          /\ Goes(u, "unlock")
          /\ UNCHANGED lockVars
       \/ /\ state[at[u]] # "Writeable"
          /\ UnlockShared(u)
          /\ SameSlots /\ UNCHANGED <<op, waitingToBeFreed>>
    /\ SameAims /\ UNCHANGED <<count, freed>>

(* MemStore::get() could not load the entry: close it, then free() it.     *)
CloseForReadingThenFree(u) ==
    /\ op[u] = "none"
    /\ held[u] = "shared"
    /\ UnlockShared(u)
    /\ Goes(u, "closed")
    /\ SameSlots /\ SameAims /\ UNCHANGED <<waitingToBeFreed, count, freed>>

-----------------------------------------------------------------------------
(* free.  Rock calls it for a slot that its entry has open (unlink(), and  *)
(* writeCompleted() after an error), MemStore::get() for the slot it has   *)
(* just closed.                                                            *)

Free(u) ==
    /\ \/ op[u] = "none" /\ held[u] # "none"
       \/ op[u] = "closed"
    /\ LockExclusiveEnter(u, idx[u])
    /\ Goes(u, "free")
    /\ SameSlots /\ SameAims /\ UNCHANGED <<waitingToBeFreed, count, freed>>

FreeTry(u) ==
    /\ op[u] = "free"
    /\ LockExclusiveTest(u)
    /\ Goes(u, IF held'[u] = "exclusive" /\ step'[u] = "none"
               THEN "freeLocked" ELSE "free")
    /\ SameSlots /\ SameAims /\ UNCHANGED <<waitingToBeFreed, count, freed>>

FreeFail(u) ==
    /\ op[u] = "free"
    /\ LockExclusiveUndo(u)
    /\ Goes(u, "mark")
    /\ SameSlots /\ SameAims /\ UNCHANGED <<waitingToBeFreed, count, freed>>

FreeMarkMutant(u) ==            \* marks only a slot that it does not own
    /\ op[u] = "mark"
    /\ waitingToBeFreed' = [waitingToBeFreed EXCEPT
                               ![idx[u]] = @ \/ held[u] = "none"]
    /\ freed' = freed \cup {sees[u]}
    /\ Goes(u, "none")
    /\ SameSlots /\ SameAims /\ UNCHANGED <<lockVars, count>>

FreeMark(u) ==                  \* mark to free it later
    /\ op[u] = "mark"
    /\ waitingToBeFreed' = [waitingToBeFreed EXCEPT ![idx[u]] = TRUE]
    /\ freed' = freed \cup {sees[u]}
    /\ Goes(u, "none")
    /\ SameSlots /\ SameAims /\ UNCHANGED <<lockVars, count>>

FreeLocked(u) ==
    /\ op[u] = "freeLocked"
    /\ EmptySlot(at[u])
    /\ freed' = freed \cup {sees[u]}
    /\ Goes(u, "unlock")
    /\ SameAims /\ UNCHANGED <<lockVars, count>>

-----------------------------------------------------------------------------
MapStep(u) ==
    \/ \E k \in Keys : OpenForReading(u, k) \/ OpenForWriting(u, k)
    \/ OpenForReadingTry(u) \/ OpenForReadingFail(u)
    \/ CheckSlot(u) \/ DropSlot(u)
    \/ OpenForWritingTry(u) \/ OpenForWritingFail(u)
    \/ Evict(u) \/ ClaimSlot(u) \/ ClaimUnset(u)
    \/ CloseForWriting(u) \/ CloseUnlock(u) \/ CloseSwitch(u)
    \/ AbortIo(u) \/ CloseForReadingThenFree(u)
    \/ Free(u) \/ FreeTry(u) \/ FreeFail(u) \/ FreeMark(u) \/ FreeLocked(u)
    \/ FreeUnlock(u) \/ FreeUncount(u)

MapNext == \E u \in Users : MapStep(u)

MapSpec == MapInit /\ [][MapNext]_vars

-----------------------------------------------------------------------------
(* Properties *)

Reading(u) == held[u] = "shared" /\ op[u] = "none"
OwnsSlot(u) == held[u] = "exclusive" /\ step[u] # "switch"

(***************************************************************************)
(* An entry opened for reading stays what it was for as long as it is      *)
(* open: same slot state, same key, same content, whatever the other kids  *)
(* write, free or evict meanwhile ("the disk entry remains open for        *)
(* reading, protected from modifications", RockSwapDir.cc).  It is also    *)
(* the assert of closeForReading() and what peekAtReader() relies on.      *)
(***************************************************************************)
ReadersUndisturbed ==
    \A u \in Users :
        Reading(u) => /\ state[at[u]] = "Readable"
                      /\ key[at[u]] = want[u]
                      /\ ver[at[u]] = sees[u]

(***************************************************************************)
(* The asserts of openForWriting(), closeForWriting() and                  *)
(* openForReadingAt(), and the reasoning of abortIo(): a slot is Writeable *)
(* exactly while a writer has it open, so abortIo() can tell a writer from *)
(* a reader by the slot state, and no slot stays Writeable (unusable for   *)
(* ever) after its writer has gone.                                        *)
(***************************************************************************)
WriteableIffWriter ==
    /\ \A u \in Users :
          /\ op[u] = "check" => state[at[u]] # "Writeable"
          /\ op[u] = "evict" => state[at[u]] # "Writeable"
          /\ op[u] \in {"evicted", "claim"} => state[at[u]] = "Empty"
          /\ (op[u] \in {"none", "mark"} /\ held[u] = "exclusive")
                 => state[at[u]] = "Writeable"
    /\ \A s \in Locks :
          state[s] = "Writeable" =>
              \E u \in ExclusiveOwners(s) : op[u] \in {"none", "free", "mark"}

(***************************************************************************)
(* Once free() has returned to a kid that wanted an entry gone, no kid     *)
(* opens that entry again: not while other readers delay the freeing, not  *)
(* when a second free() or a writer races with it, and not when the entry  *)
(* was freed before its writer closed it.  The one exception is the entry  *)
(* that addEntry() makes readable again.                                   *)
(***************************************************************************)
FreedNeverServed ==
    [][\A u \in Users :
          (op[u] = "check" /\ op'[u] = "none") => ver[at[u]] \notin freed]_vars

(***************************************************************************)
(* An entry that was freed does not come back: free() is to "mark the slot *)
(* as waiting to be freed and, if possible, free it" (StoreMap.h).         *)
(***************************************************************************)
FreedStaysAway ==
    [][\A s \in Locks :
          (state[s] = "Empty" /\ ver[s] \in freed)
              => (state'[s] # "Readable" \/ ver'[s] # ver[s])]_vars

(* The inductive form of FreedNeverServed. *)
FreedIsDirty ==
    \A s \in Locks :
        (state[s] # "Empty" /\ ver[s] \in freed) => waitingToBeFreed[s]

(***************************************************************************)
(* entryCount() is the "number of used slots" (StoreMap.h) whenever no     *)
(* call is in progress.                                                    *)
(***************************************************************************)
Used == {s \in Locks : state[s] # "Empty"}

CountIsExact == (\A u \in Users : op[u] = "none") => count = Cardinality(Used)

-----------------------------------------------------------------------------
(***************************************************************************)
(* The inductive invariant behind these properties.  InCall: where a user  *)
(* is in a map method says which lock it has and which lock method it is   *)
(* in.                                                                     *)
(***************************************************************************)
InCall(u) ==
    /\ op[u] \in {"none", "mark"} => step[u] = "none"
    /\ op[u] = "openRead" => step[u] \in {"sharedTest", "sharedUndo"}
    /\ op[u] \in {"check", "drop"} => held[u] = "shared" /\ step[u] = "none"
    /\ op[u] = "openWrite" => /\ held[u] = "none"
                             /\ step[u] \in {"exclTest", "exclUndo"}
    /\ op[u] \in {"evict", "evicted", "claim", "release", "added",
                  "freeLocked", "unlock"} =>
          held[u] = "exclusive" /\ step[u] = "none"
    /\ op[u] = "downgrade" => /\ held[u] = "exclusive"
                             /\ step[u] \in {"none", "switch"}
    /\ op[u] \in {"closed", "uncount"} => at[u] = NoLock
    /\ op[u] = "free" => step[u] \in {"exclTest", "exclUndo"}
    /\ op[u] \in {"closed", "free", "mark", "freeLocked"} => idx[u] \in Locks
    /\ at[u] # NoLock => at[u] = idx[u]
    /\ idx[u] # NoLock => want[u] \in Keys

(* The users that opened an entry and did not start to open another. *)
Opened(u) ==
    \/ op[u] \in {"release", "downgrade",
                  "closed", "free", "freeLocked", "mark"}
    \/ op[u] = "none" /\ held[u] # "none"

(***************************************************************************)
(* A user that has the lock finds in the slot what it left or read there,  *)
(* and the entry it opened, free()d or not, is in no other slot.           *)
(***************************************************************************)
SeesSlot(u) ==
    /\ op[u] \in {"evicted", "claim", "unlock"} => state[at[u]] = "Empty"
    /\ Opened(u) =>
          /\ sees[u] > 0
          /\ \A s \in Locks : ver[s] = sees[u] => s = idx[u]
    /\ (Opened(u) /\ held[u] # "none" /\ op[u] # "freeLocked") =>
          /\ key[at[u]] = want[u]
          /\ ver[at[u]] = sees[u]
          /\ state[at[u]] = IF /\ held[u] = "exclusive"
                               /\ op[u] \in {"none", "free", "mark"}
                            THEN "Writeable" ELSE "Readable"

(* Every write has a version and a slot of its own. *)
VersionsUnique ==
    /\ \A s \in Locks : key[s] # NoLock => ver[s] > 0
    /\ \A s, t \in Locks : (ver[s] = ver[t] /\ ver[s] > 0) => s = t

WriteableHasWriter ==
    \A s \in Locks :
        state[s] = "Writeable" =>
            \E u \in ExclusiveOwners(s) : op[u] \in {"none", "free", "mark"}

MapInv ==
    /\ MapTypeOK
    /\ LockInv
    /\ \A u \in Users : InCall(u) /\ SeesSlot(u)
    /\ VersionsUnique
    /\ WriteableHasWriter
    /\ FreedIsDirty
-----------------------------------------------------------------------------
(***************************************************************************)
(* The cache that the map implements.  A user that closes its entry for    *)
(* writing and goes on reading is a reader from the moment the entry is    *)
(* Readable.                                                               *)
(***************************************************************************)
Settled(u) == op[u] \in {"none", "free", "mark"}
Reads(u) == (held[u] = "shared" /\ Settled(u)) \/ op[u] = "downgrade"
Writes(u) == held[u] = "exclusive" /\ Settled(u)

EntryOf(v, k, whole) == [ver |-> v, key |-> k, whole |-> whole]
NoEntry == EntryOf(0, NoLock, FALSE)

InSlot(s) == IF state[s] = "Empty" THEN NoEntry
             ELSE EntryOf(ver[s], key[s], state[s] = "Readable")
ReadBy(u) == IF Reads(u) THEN EntryOf(sees[u], want[u], TRUE) ELSE NoEntry
WrittenBy(u) == IF Writes(u) THEN EntryOf(sees[u], want[u], FALSE)
                ELSE NoEntry

Cache ==
    INSTANCE SlotCache
        WITH Slots <- Locks, NoKey <- NoLock,
             content <- [s \in Locks |-> InSlot(s)],
             marked  <- waitingToBeFreed,
             reading <- [u \in Users |-> ReadBy(u)],
             writing <- [u \in Users |-> WrittenBy(u)],
             made    <- writes,
             left    <- [s \in Locks |-> EntryOf(ver[s], key[s], TRUE)]

(***************************************************************************)
(* The map, whose calls lock, look, change and unlock in steps that other  *)
(* kids see, implements a cache with atomic operations: a lookup takes     *)
(* effect at its test under the lock, a write when the slot is claimed and *)
(* when its state becomes Readable, a free() when it empties or marks.     *)
(***************************************************************************)
ImplementsCache == Cache!CacheSpec
=============================================================================
