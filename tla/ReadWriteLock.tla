--------------------------- MODULE ReadWriteLock ---------------------------
(***************************************************************************)
(* Ipc::ReadWriteLock (src/src/ipc/ReadWriteLock.cc): the try-lock that    *)
(* guards every slot of a shared-memory store map.  Each access to one of  *)
(* the two atomic counters is a step of its own, so steps of the users of  *)
(* a lock, which run in different kid processes, interleave freely.        *)
(*                                                                         *)
(* A user is one holder-to-be of a lock: a StoreEntry, or one call of a    *)
(* map method, in some kid.  It works on one lock at a time (at), owns it  *)
(* or not (held) and may be inside one of the two try-lock methods or of   *)
(* switchExclusiveToShared (step).  StoreMap::free() tries an exclusive    *)
(* lock on a slot that its caller usually owns already, so a try may run   *)
(* on top of an owned lock.                                                *)
(***************************************************************************)
EXTENDS Integers, FiniteSets

CONSTANTS Users, Locks, NoLock

ASSUME LockAssumption ==
    /\ IsFiniteSet(Users)
    /\ NoLock \notin Locks

VARIABLES readers,  \* [Locks -> Nat]: Atomic::Word, users trying to read
          writers,  \* [Locks -> Nat]: Atomic::Word, users trying to modify
          at,       \* [Users -> Locks \cup {NoLock}]: lock the user works on
          held,     \* [Users -> Holds]: the ownership the user was granted
          step      \* [Users -> Steps]: where the user is in a lock method

lockVars == <<readers, writers, at, held, step>>

Holds == {"none", "shared", "exclusive"}

(***************************************************************************)
(* sharedTest and sharedUndo are inside lockShared(), exclTest and         *)
(* exclUndo inside lockExclusive(), switch inside                          *)
(* switchExclusiveToShared(); none means outside all of them.              *)
(***************************************************************************)
Steps == {"none", "sharedTest", "sharedUndo", "exclTest", "exclUndo", "switch"}

(***************************************************************************)
(* Types.  The counters are signed words; that they are never negative is  *)
(* what the asserts of unlockShared() and unlockExclusive() check.         *)
(***************************************************************************)
LockTypeOK ==
    /\ readers \in [Locks -> Nat]
    /\ writers \in [Locks -> Nat]
    /\ at \in [Users -> Locks \cup {NoLock}]
    /\ held \in [Users -> Holds]
    /\ step \in [Users -> Steps]

(***************************************************************************)
(* Shared memory is zero-initialised and the counters have no constructor. *)
(***************************************************************************)
LockInit ==
    /\ readers = [l \in Locks |-> 0]
    /\ writers = [l \in Locks |-> 0]
    /\ at = [u \in Users |-> NoLock]
    /\ held = [u \in Users |-> "none"]
    /\ step = [u \in Users |-> "none"]

-----------------------------------------------------------------------------
(* lockShared *)

LockSharedEnter(u, l) ==        \* ++readers
    /\ at[u] = NoLock
    /\ at' = [at EXCEPT ![u] = l]
    /\ readers' = [readers EXCEPT ![l] = @ + 1]
    /\ step' = [step EXCEPT ![u] = "sharedTest"]
    /\ UNCHANGED <<writers, held>>

LockSharedTestMutant(u) ==      \* forgets to look for old writers
    /\ step[u] = "sharedTest"
    /\ held' = [held EXCEPT ![u] = "shared"]
    /\ step' = [step EXCEPT ![u] = "none"]
    /\ UNCHANGED <<readers, writers, at>>

LockSharedTest(u) ==            \* if (!writers) return true
    /\ step[u] = "sharedTest"
    /\ \/ /\ writers[at[u]] = 0
          /\ held' = [held EXCEPT ![u] = "shared"]
          /\ step' = [step EXCEPT ![u] = "none"]
       \/ /\ writers[at[u]] # 0
          /\ step' = [step EXCEPT ![u] = "sharedUndo"]
          /\ UNCHANGED held
    /\ UNCHANGED <<readers, writers, at>>

LockSharedUndo(u) ==            \* --readers; return false
    /\ step[u] = "sharedUndo"
    /\ readers' = [readers EXCEPT ![at[u]] = @ - 1]
    /\ at' = [at EXCEPT ![u] = NoLock]
    /\ step' = [step EXCEPT ![u] = "none"]
    /\ UNCHANGED <<writers, held>>

-----------------------------------------------------------------------------
(* lockExclusive *)

LockExclusiveEnter(u, l) ==     \* if (!writers++)
    /\ step[u] = "none"
    /\ at[u] \in {NoLock, l}
    /\ at' = [at EXCEPT ![u] = l]
    /\ writers' = [writers EXCEPT ![l] = @ + 1]
    /\ step' = [step EXCEPT ![u] =
                   IF writers[l] = 0 THEN "exclTest" ELSE "exclUndo"]
    /\ UNCHANGED <<readers, held>>

LockExclusiveTest(u) ==         \* if (!readers) return true
    /\ step[u] = "exclTest"
    /\ \/ /\ readers[at[u]] = 0
          /\ held' = [held EXCEPT ![u] = "exclusive"]
          /\ step' = [step EXCEPT ![u] = "none"]
       \/ /\ readers[at[u]] # 0
          /\ step' = [step EXCEPT ![u] = "exclUndo"]
          /\ UNCHANGED held
    /\ UNCHANGED <<readers, writers, at>>

LockExclusiveUndo(u) ==         \* --writers; return false
    /\ step[u] = "exclUndo"
    /\ writers' = [writers EXCEPT ![at[u]] = @ - 1]
    /\ at' = [at EXCEPT ![u] = IF held[u] = "none" THEN NoLock ELSE @]
    /\ step' = [step EXCEPT ![u] = "none"]
    /\ UNCHANGED <<readers, held>>

-----------------------------------------------------------------------------
(* Giving a lock back.  The assert() of the code is the property           *)
(* CountersExact below.                                                    *)

UnlockShared(u) ==              \* assert(readers-- > 0)
    /\ step[u] = "none"
    /\ held[u] = "shared"
    /\ readers' = [readers EXCEPT ![at[u]] = @ - 1]
    /\ held' = [held EXCEPT ![u] = "none"]
    /\ at' = [at EXCEPT ![u] = NoLock]
    /\ UNCHANGED <<writers, step>>

UnlockExclusive(u) ==           \* assert(writers-- > 0)
    /\ step[u] = "none"
    /\ held[u] = "exclusive"
    /\ writers' = [writers EXCEPT ![at[u]] = @ - 1]
    /\ held' = [held EXCEPT ![u] = "none"]
    /\ at' = [at EXCEPT ![u] = NoLock]
    /\ UNCHANGED <<readers, step>>

SwitchEnterMutant(u) ==         \* releases exclusive control first
    /\ step[u] = "none"
    /\ held[u] = "exclusive"
    /\ writers' = [writers EXCEPT ![at[u]] = @ - 1]
    /\ held' = [held EXCEPT ![u] = "shared"]
    /\ UNCHANGED <<readers, at, step>>

SwitchEnter(u) ==               \* switchExclusiveToShared(): ++readers
    /\ step[u] = "none"
    /\ held[u] = "exclusive"
    /\ readers' = [readers EXCEPT ![at[u]] = @ + 1]
    /\ step' = [step EXCEPT ![u] = "switch"]
    /\ UNCHANGED <<writers, at, held>>

SwitchLeave(u) ==               \* switchExclusiveToShared(): unlockExclusive()
    /\ step[u] = "switch"
    /\ writers' = [writers EXCEPT ![at[u]] = @ - 1]
    /\ held' = [held EXCEPT ![u] = "shared"]
    /\ step' = [step EXCEPT ![u] = "none"]
    /\ UNCHANGED <<readers, at>>

-----------------------------------------------------------------------------
LockNext ==
    \E u \in Users :
        \/ \E l \in Locks : LockSharedEnter(u, l) \/ LockExclusiveEnter(u, l)
        \/ LockSharedTest(u) \/ LockSharedUndo(u)
        \/ LockExclusiveTest(u) \/ LockExclusiveUndo(u)
        \/ UnlockShared(u) \/ UnlockExclusive(u)
        \/ SwitchEnter(u) \/ SwitchLeave(u)

LockSpec == LockInit /\ [][LockNext]_lockVars

-----------------------------------------------------------------------------
(* Who contributes to the counters of lock l.                              *)

SharedOwners(l) == {u \in Users : at[u] = l /\ held[u] = "shared"}
ExclusiveOwners(l) == {u \in Users : at[u] = l /\ held[u] = "exclusive"}

ReaderCounted(l) ==
    {u \in Users : /\ at[u] = l
                   /\ \/ held[u] = "shared"
                      \/ step[u] \in {"sharedTest", "sharedUndo", "switch"}}

WriterTrying(l) ==
    {u \in Users : at[u] = l /\ step[u] \in {"exclTest", "exclUndo"}}

(***************************************************************************)
(* The lock does its job: an exclusive owner excludes every other owner,   *)
(* whatever the order in which the kids touch the two counters.            *)
(***************************************************************************)
MutualExclusion ==
    \A u, v \in Users :
        (u # v /\ at[u] = at[v] /\ held[u] = "exclusive") => held[v] = "none"

(***************************************************************************)
(* The asserts of unlockShared() and unlockExclusive() never fire, and a   *)
(* lock nobody uses has both counters back at zero: no sequence of failed  *)
(* tries, releases and downgrades leaks a count (a leaked count would keep *)
(* a slot locked for as long as Squid runs).                               *)
(***************************************************************************)
CountersExact ==
    \A l \in Locks :
        /\ readers[l] = Cardinality(ReaderCounted(l))
        /\ writers[l] = Cardinality(ExclusiveOwners(l))
                        + Cardinality(WriterTrying(l))

(***************************************************************************)
(* At most one user is past a successful "!writers++" or owns the lock     *)
(* exclusively: the strengthening that makes MutualExclusion inductive.    *)
(***************************************************************************)
Claims(u) == held[u] = "exclusive" \/ step[u] = "exclTest"

OneClaim ==
    /\ \A u, v \in Users :
          (u # v /\ at[u] = at[v] /\ Claims(u)) => ~Claims(v)
    /\ \A u \in Users : held[u] = "exclusive" => step[u] # "exclTest"

(***************************************************************************)
(* A user inside a lock method has a lock it works on, and the methods     *)
(* that take a shared lock start from no ownership.                        *)
(***************************************************************************)
WellFormedUser(u) ==
    /\ at[u] = NoLock <=> (held[u] = "none" /\ step[u] = "none")
    /\ step[u] \in {"sharedTest", "sharedUndo"} => held[u] = "none"
    /\ step[u] = "switch" => held[u] = "exclusive"

LockInv ==
    /\ LockTypeOK
    /\ \A u \in Users : WellFormedUser(u)
    /\ OneClaim
    /\ CountersExact
    /\ MutualExclusion

-----------------------------------------------------------------------------
(* The counters implement the abstract lock.                               *)
Abstract ==
    INSTANCE SharedExclusiveLock
        WITH shared    <- [l \in Locks |-> SharedOwners(l)],
             exclusive <- [l \in Locks |-> ExclusiveOwners(l)]

(***************************************************************************)
(* Every behaviour of the two counters is a behaviour of a correct         *)
(* shared/exclusive lock: grants, releases and the downgrade happen        *)
(* atomically at one step of the code each, all other steps stutter.       *)
(***************************************************************************)
ImplementsLock == Abstract!AbsSpec
=============================================================================
