------------------------ MODULE SharedExclusiveLock ------------------------
(***************************************************************************)
(* What Ipc::ReadWriteLock promises to the maps and tables that use it: a  *)
(* set of independent shared/exclusive locks.  A lock has any number of    *)
(* shared owners or one exclusive owner, and an exclusive owner may become *)
(* a shared one without letting another exclusive owner in between.        *)
(*                                                                         *)
(* Acquiring never waits in the code (lockShared and lockExclusive are     *)
(* try-locks), so a failed attempt is a stuttering step here.              *)
(***************************************************************************)
CONSTANTS Users, Locks

VARIABLES shared,      \* [Locks -> SUBSET Users]: the shared owners
          exclusive    \* [Locks -> SUBSET Users]: the exclusive owner, if any

absVars == <<shared, exclusive>>

AbsInit ==
    /\ shared = [l \in Locks |-> {}]
    /\ exclusive = [l \in Locks |-> {}]

AcquireShared(u, l) ==
    /\ exclusive[l] = {}
    /\ u \notin shared[l]
    /\ shared' = [shared EXCEPT ![l] = @ \cup {u}]
    /\ UNCHANGED exclusive

AcquireExclusive(u, l) ==
    /\ exclusive[l] = {}
    /\ shared[l] = {}
    /\ exclusive' = [exclusive EXCEPT ![l] = {u}]
    /\ UNCHANGED shared

ReleaseShared(u, l) ==
    /\ u \in shared[l]
    /\ shared' = [shared EXCEPT ![l] = @ \ {u}]
    /\ UNCHANGED exclusive

ReleaseExclusive(u, l) ==
    /\ exclusive[l] = {u}
    /\ exclusive' = [exclusive EXCEPT ![l] = {}]
    /\ UNCHANGED shared

Downgrade(u, l) ==
    /\ exclusive[l] = {u}
    /\ exclusive' = [exclusive EXCEPT ![l] = {}]
    /\ shared' = [shared EXCEPT ![l] = {u}]

AbsNext ==
    \E u \in Users, l \in Locks :
        \/ AcquireShared(u, l)
        \/ AcquireExclusive(u, l)
        \/ ReleaseShared(u, l)
        \/ ReleaseExclusive(u, l)
        \/ Downgrade(u, l)

AbsSpec == AbsInit /\ [][AbsNext]_absVars
=============================================================================
