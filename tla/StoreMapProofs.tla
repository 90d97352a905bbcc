--------------------------- MODULE StoreMapProofs ---------------------------
(***************************************************************************)
(* Proofs about ReadWriteLock and StoreMap for every finite set of users   *)
(* and every set of slots and keys.  The lock's inductive invariant is     *)
(* LockInv: its parts WellFormedUser and OneClaim strengthen CountersExact *)
(* and MutualExclusion, which are not inductive by themselves.  A step of  *)
(* the map is a step of one of its locks or leaves them alone, so the      *)
(* results on ReadWriteLock, which come first, carry over; MapInv adds     *)
(* what the lock owners know about the slots.                              *)
(***************************************************************************)
EXTENDS StoreMap, FiniteSetTheorems, TLAPS

-----------------------------------------------------------------------------
(* The lock                                                                *)

(***************************************************************************)
(* How the number of users in a set changes when one joins or leaves.      *)
(***************************************************************************)
LEMMA CountUsers ==
    ASSUME NEW S \in SUBSET Users, NEW u \in Users
    PROVE  /\ Cardinality(S) \in Nat
           /\ u \notin S => Cardinality(S \cup {u}) = Cardinality(S) + 1
           /\ u \in S => Cardinality(S \ {u}) = Cardinality(S) - 1
<1>1. IsFiniteSet(S)
  BY FS_Subset, LockAssumption
<1> QED
  BY <1>1, FS_CardinalityType, FS_AddElement, FS_RemoveElement

(***************************************************************************)
(* Counters read as zero tell that nobody is counted.                      *)
(***************************************************************************)
LEMMA ZeroCounter ==
    ASSUME LockInv, NEW l \in Locks
    PROVE  /\ readers[l] = 0 => ReaderCounted(l) = {}
           /\ writers[l] = 0 => ExclusiveOwners(l) = {} /\ WriterTrying(l) = {}
<1>1. /\ IsFiniteSet(ReaderCounted(l))
      /\ IsFiniteSet(ExclusiveOwners(l))
      /\ IsFiniteSet(WriterTrying(l))
  BY FS_Subset, LockAssumption DEF ReaderCounted, ExclusiveOwners, WriterTrying
<1>2. /\ Cardinality(ExclusiveOwners(l)) \in Nat
      /\ Cardinality(WriterTrying(l)) \in Nat
  BY <1>1, FS_CardinalityType
<1>3. /\ readers[l] = Cardinality(ReaderCounted(l))
      /\ writers[l] = Cardinality(ExclusiveOwners(l))
                      + Cardinality(WriterTrying(l))
  BY DEF LockInv, CountersExact
<1> QED
  BY <1>1, <1>2, <1>3, FS_EmptySet

(* The two counts as numbers, and how they relate to the sets of users. *)
ReaderCount(l) == Cardinality(ReaderCounted(l))
WriterCount(l) == Cardinality(ExclusiveOwners(l))
                  + Cardinality(WriterTrying(l))

(* Locks that nobody holds or tries for.                                   *)
LEMMA LockInitially == LockInit => LockInv
<1> SUFFICES ASSUME LockInit PROVE LockInv
  OBVIOUS
<1>1. LockTypeOK
  BY DEF LockInit, LockTypeOK, Holds, Steps
<1>2. \A u \in Users : WellFormedUser(u)
  BY DEF LockInit, WellFormedUser
<1>3. OneClaim /\ MutualExclusion
  BY DEF LockInit, OneClaim, Claims, MutualExclusion
<1>4. \A l \in Locks : /\ ReaderCounted(l) = {}
                       /\ ExclusiveOwners(l) = {}
                       /\ WriterTrying(l) = {}
  BY LockAssumption
  DEF LockInit, ReaderCounted, ExclusiveOwners, WriterTrying
<1>5. CountersExact
  BY <1>4, FS_EmptySet DEF LockInit, CountersExact
<1> QED
  BY <1>1, <1>2, <1>3, <1>5 DEF LockInv

(***************************************************************************)
(* Every step of the counters keeps the counts exact: it moves one user    *)
(* in or out of the set that the counter counts.                           *)
(***************************************************************************)
LEMMA CountsStep ==
    ASSUME LockInv, LockNext
    PROVE  CountersExact'
<1> /\ readers \in [Locks -> Nat] /\ writers \in [Locks -> Nat]
    /\ at \in [Users -> Locks \cup {NoLock}]
    /\ held \in [Users -> Holds] /\ step \in [Users -> Steps]
  BY DEF LockInv, LockTypeOK
<1>w. \A v \in Users : WellFormedUser(v)
  BY DEF LockInv
<1>e. \A l \in Locks : /\ readers[l] = ReaderCount(l)
                       /\ writers[l] = WriterCount(l)
  BY DEF LockInv, CountersExact, ReaderCount, WriterCount
<1>n. \A l \in Locks : /\ ReaderCounted(l) \in SUBSET Users
                       /\ ExclusiveOwners(l) \in SUBSET Users
                       /\ WriterTrying(l) \in SUBSET Users
  BY DEF ReaderCounted, ExclusiveOwners, WriterTrying
<1>t. \A l \in Locks : /\ Cardinality(ReaderCounted(l)) \in Nat
                       /\ Cardinality(ExclusiveOwners(l)) \in Nat
                       /\ Cardinality(WriterTrying(l)) \in Nat
  BY <1>n, LockAssumption, FS_Subset, FS_CardinalityType
<1> SUFFICES \A l \in Locks : /\ readers'[l] = ReaderCount(l)'
                              /\ writers'[l] = WriterCount(l)'
  BY DEF CountersExact, ReaderCount, WriterCount
<1> PICK u \in Users :
        \/ \E l \in Locks : LockSharedEnter(u, l) \/ LockExclusiveEnter(u, l)
        \/ LockSharedTest(u) \/ LockSharedUndo(u)
        \/ LockExclusiveTest(u) \/ LockExclusiveUndo(u)
        \/ UnlockShared(u) \/ UnlockExclusive(u)
        \/ SwitchEnter(u) \/ SwitchLeave(u)
  BY DEF LockNext
<1>1. ASSUME NEW l \in Locks, LockSharedEnter(u, l)
      PROVE  \A m \in Locks : /\ readers'[m] = ReaderCount(m)'
                              /\ writers'[m] = WriterCount(m)'
  <2>1. /\ \A m \in Locks \ {l} : ReaderCounted(m)' = ReaderCounted(m)
        /\ u \notin ReaderCounted(l)
        /\ ReaderCounted(l)' = ReaderCounted(l) \cup {u}
        /\ \A m \in Locks : ExclusiveOwners(m)' = ExclusiveOwners(m)
        /\ \A m \in Locks : WriterTrying(m)' = WriterTrying(m)
    BY <1>1, <1>w, LockAssumption
    DEF WellFormedUser, LockSharedEnter, Holds,
        ReaderCounted, ExclusiveOwners, WriterTrying
  <2>2. Cardinality(ReaderCounted(l)') = Cardinality(ReaderCounted(l)) + 1
    BY <2>1, <1>n, CountUsers
  <2>3. /\ \A m \in Locks \ {l} : ReaderCount(m)' = ReaderCount(m)
        /\ ReaderCount(l)' = ReaderCount(l) + 1
        /\ \A m \in Locks : WriterCount(m)' = WriterCount(m)
    BY <2>1, <2>2, <1>t DEF ReaderCount, WriterCount
  <2> QED
    BY <1>1, <1>e, <2>3 DEF LockSharedEnter
<1>2. ASSUME NEW l \in Locks, LockExclusiveEnter(u, l)
      PROVE  \A m \in Locks : /\ readers'[m] = ReaderCount(m)'
                              /\ writers'[m] = WriterCount(m)'
  <2>1. /\ \A m \in Locks : ReaderCounted(m)' = ReaderCounted(m)
        /\ \A m \in Locks : ExclusiveOwners(m)' = ExclusiveOwners(m)
        /\ \A m \in Locks \ {l} : WriterTrying(m)' = WriterTrying(m)
        /\ u \notin WriterTrying(l)
        /\ WriterTrying(l)' = WriterTrying(l) \cup {u}
    BY <1>2, <1>w, LockAssumption
    DEF WellFormedUser, LockExclusiveEnter, Holds,
        ReaderCounted, ExclusiveOwners, WriterTrying
  <2>2. Cardinality(WriterTrying(l)') = Cardinality(WriterTrying(l)) + 1
    BY <2>1, <1>n, CountUsers
  <2>3. /\ \A m \in Locks : ReaderCount(m)' = ReaderCount(m)
        /\ \A m \in Locks \ {l} : WriterCount(m)' = WriterCount(m)
        /\ WriterCount(l)' = WriterCount(l) + 1
    BY <2>1, <2>2, <1>t DEF ReaderCount, WriterCount
  <2> QED
    BY <1>2, <1>e, <2>3 DEF LockExclusiveEnter
<1>3. CASE LockSharedTest(u)
  <2>1. /\ \A m \in Locks : ReaderCounted(m)' = ReaderCounted(m)
        /\ \A m \in Locks : ExclusiveOwners(m)' = ExclusiveOwners(m)
        /\ \A m \in Locks : WriterTrying(m)' = WriterTrying(m)
    BY <1>3, <1>w, LockAssumption
    DEF WellFormedUser, LockSharedTest, Holds,
        ReaderCounted, ExclusiveOwners, WriterTrying
  <2>2. /\ \A m \in Locks : ReaderCount(m)' = ReaderCount(m)
        /\ \A m \in Locks : WriterCount(m)' = WriterCount(m)
    BY <2>1, <1>t DEF ReaderCount, WriterCount
  <2> QED
    BY <1>3, <1>e, <2>2 DEF LockSharedTest
<1>4. CASE LockSharedUndo(u)
  <2>1. PICK l \in Locks : l = at[u]
    BY <1>4, <1>w, LockAssumption DEF LockSharedUndo, WellFormedUser
  <2>2. /\ \A m \in Locks \ {l} : ReaderCounted(m)' = ReaderCounted(m)
        /\ u \in ReaderCounted(l)
        /\ ReaderCounted(l)' = ReaderCounted(l) \ {u}
        /\ \A m \in Locks : ExclusiveOwners(m)' = ExclusiveOwners(m)
        /\ \A m \in Locks : WriterTrying(m)' = WriterTrying(m)
    BY <1>4, <1>w, <2>1, LockAssumption
    DEF WellFormedUser, LockSharedUndo, Holds,
        ReaderCounted, ExclusiveOwners, WriterTrying
  <2>3. Cardinality(ReaderCounted(l)') = Cardinality(ReaderCounted(l)) - 1
    BY <2>2, <1>n, CountUsers
  <2>4. /\ \A m \in Locks \ {l} : ReaderCount(m)' = ReaderCount(m)
        /\ ReaderCount(l)' = ReaderCount(l) - 1
        /\ \A m \in Locks : WriterCount(m)' = WriterCount(m)
    BY <2>2, <2>3, <1>t DEF ReaderCount, WriterCount
  <2> QED
    BY <1>4, <1>e, <2>1, <2>4 DEF LockSharedUndo
<1>5. CASE LockExclusiveTest(u)
  <2>1. PICK l \in Locks : l = at[u]
    BY <1>5, <1>w, LockAssumption DEF LockExclusiveTest, WellFormedUser
  <2>2. CASE readers[l] = 0
    <3>1. ReaderCounted(l) = {} /\ held[u] # "exclusive"
      BY <1>5, <2>1, <2>2, ZeroCounter DEF LockExclusiveTest, LockInv, OneClaim
    <3>2. held'[u] = "exclusive" /\ held[u] = "none"
      BY <1>5, <2>1, <2>2, <3>1 DEF LockExclusiveTest, ReaderCounted, Holds
    <3>3. /\ \A m \in Locks : ReaderCounted(m)' = ReaderCounted(m)
          /\ \A m \in Locks \ {l} : ExclusiveOwners(m)' = ExclusiveOwners(m)
          /\ u \notin ExclusiveOwners(l)
          /\ ExclusiveOwners(l)' = ExclusiveOwners(l) \cup {u}
          /\ \A m \in Locks \ {l} : WriterTrying(m)' = WriterTrying(m)
          /\ u \in WriterTrying(l)
          /\ WriterTrying(l)' = WriterTrying(l) \ {u}
      BY <1>5, <1>w, <2>1, <2>2, <3>2, LockAssumption
      DEF WellFormedUser, LockExclusiveTest, Holds,
          ReaderCounted, ExclusiveOwners, WriterTrying
    <3>4. /\ Cardinality(ExclusiveOwners(l)')
                 = Cardinality(ExclusiveOwners(l)) + 1
          /\ Cardinality(WriterTrying(l)') = Cardinality(WriterTrying(l)) - 1
      BY <3>3, <1>n, CountUsers
    <3>5. WriterCount(l)' = WriterCount(l)
      BY <3>4, <1>t DEF WriterCount
    <3>6. \A m \in Locks \ {l} : WriterCount(m)' = WriterCount(m)
      BY <3>3 DEF WriterCount
    <3>7. \A m \in Locks : ReaderCount(m)' = ReaderCount(m)
      BY <3>3 DEF ReaderCount
    <3> QED
      BY <1>5, <1>e, <3>5, <3>6, <3>7 DEF LockExclusiveTest
  <2>3. CASE readers[l] # 0
    <3>1. /\ \A m \in Locks : ReaderCounted(m)' = ReaderCounted(m)
          /\ \A m \in Locks : ExclusiveOwners(m)' = ExclusiveOwners(m)
          /\ \A m \in Locks : WriterTrying(m)' = WriterTrying(m)
      BY <1>5, <1>w, <2>1, <2>3, LockAssumption
      DEF WellFormedUser, LockExclusiveTest, Holds,
          ReaderCounted, ExclusiveOwners, WriterTrying
    <3>2. /\ \A m \in Locks : ReaderCount(m)' = ReaderCount(m)
          /\ \A m \in Locks : WriterCount(m)' = WriterCount(m)
      BY <3>1, <1>t DEF ReaderCount, WriterCount
    <3> QED
      BY <1>5, <1>e, <3>2 DEF LockExclusiveTest
  <2> QED
    BY <2>2, <2>3
<1>6. CASE LockExclusiveUndo(u)
  <2>1. PICK l \in Locks : l = at[u]
    BY <1>6, <1>w, LockAssumption DEF LockExclusiveUndo, WellFormedUser
  <2>2. /\ \A m \in Locks : ReaderCounted(m)' = ReaderCounted(m)
        /\ \A m \in Locks : ExclusiveOwners(m)' = ExclusiveOwners(m)
        /\ \A m \in Locks \ {l} : WriterTrying(m)' = WriterTrying(m)
        /\ u \in WriterTrying(l)
        /\ WriterTrying(l)' = WriterTrying(l) \ {u}
    BY <1>6, <1>w, <2>1, LockAssumption
    DEF WellFormedUser, LockExclusiveUndo, Holds,
        ReaderCounted, ExclusiveOwners, WriterTrying
  <2>3. Cardinality(WriterTrying(l)') = Cardinality(WriterTrying(l)) - 1
    BY <2>2, <1>n, CountUsers
  <2>4. /\ \A m \in Locks : ReaderCount(m)' = ReaderCount(m)
        /\ \A m \in Locks \ {l} : WriterCount(m)' = WriterCount(m)
        /\ WriterCount(l)' = WriterCount(l) - 1
    BY <2>2, <2>3, <1>t DEF ReaderCount, WriterCount
  <2> QED
    BY <1>6, <1>e, <2>1, <2>4 DEF LockExclusiveUndo
<1>7. CASE UnlockShared(u)
  <2>1. PICK l \in Locks : l = at[u]
    BY <1>7, <1>w, LockAssumption DEF UnlockShared, WellFormedUser
  <2>2. /\ \A m \in Locks \ {l} : ReaderCounted(m)' = ReaderCounted(m)
        /\ u \in ReaderCounted(l)
        /\ ReaderCounted(l)' = ReaderCounted(l) \ {u}
        /\ \A m \in Locks : ExclusiveOwners(m)' = ExclusiveOwners(m)
        /\ \A m \in Locks : WriterTrying(m)' = WriterTrying(m)
    BY <1>7, <1>w, <2>1, LockAssumption
    DEF WellFormedUser, UnlockShared, Holds,
        ReaderCounted, ExclusiveOwners, WriterTrying
  <2>3. Cardinality(ReaderCounted(l)') = Cardinality(ReaderCounted(l)) - 1
    BY <2>2, <1>n, CountUsers
  <2>4. /\ \A m \in Locks \ {l} : ReaderCount(m)' = ReaderCount(m)
        /\ ReaderCount(l)' = ReaderCount(l) - 1
        /\ \A m \in Locks : WriterCount(m)' = WriterCount(m)
    BY <2>2, <2>3, <1>t DEF ReaderCount, WriterCount
  <2> QED
    BY <1>7, <1>e, <2>1, <2>4 DEF UnlockShared
<1>8. CASE UnlockExclusive(u)
  <2>1. PICK l \in Locks : l = at[u]
    BY <1>8, <1>w, LockAssumption DEF UnlockExclusive, WellFormedUser
  <2>2. /\ \A m \in Locks : ReaderCounted(m)' = ReaderCounted(m)
        /\ \A m \in Locks \ {l} : ExclusiveOwners(m)' = ExclusiveOwners(m)
        /\ u \in ExclusiveOwners(l)
        /\ ExclusiveOwners(l)' = ExclusiveOwners(l) \ {u}
        /\ \A m \in Locks : WriterTrying(m)' = WriterTrying(m)
    BY <1>8, <1>w, <2>1, LockAssumption
    DEF WellFormedUser, UnlockExclusive, Holds,
        ReaderCounted, ExclusiveOwners, WriterTrying
  <2>3. Cardinality(ExclusiveOwners(l)') = Cardinality(ExclusiveOwners(l)) - 1
    BY <2>2, <1>n, CountUsers
  <2>4. /\ \A m \in Locks : ReaderCount(m)' = ReaderCount(m)
        /\ \A m \in Locks \ {l} : WriterCount(m)' = WriterCount(m)
        /\ WriterCount(l)' = WriterCount(l) - 1
    BY <2>2, <2>3, <1>t DEF ReaderCount, WriterCount
  <2> QED
    BY <1>8, <1>e, <2>1, <2>4 DEF UnlockExclusive
<1>9. CASE SwitchEnter(u)
  <2>1. PICK l \in Locks : l = at[u]
    BY <1>9, <1>w, LockAssumption DEF SwitchEnter, WellFormedUser
  <2>2. /\ \A m \in Locks \ {l} : ReaderCounted(m)' = ReaderCounted(m)
        /\ u \notin ReaderCounted(l)
        /\ ReaderCounted(l)' = ReaderCounted(l) \cup {u}
        /\ \A m \in Locks : ExclusiveOwners(m)' = ExclusiveOwners(m)
        /\ \A m \in Locks : WriterTrying(m)' = WriterTrying(m)
    BY <1>9, <1>w, <2>1, LockAssumption
    DEF WellFormedUser, SwitchEnter, Holds,
        ReaderCounted, ExclusiveOwners, WriterTrying
  <2>3. Cardinality(ReaderCounted(l)') = Cardinality(ReaderCounted(l)) + 1
    BY <2>2, <1>n, CountUsers
  <2>4. /\ \A m \in Locks \ {l} : ReaderCount(m)' = ReaderCount(m)
        /\ ReaderCount(l)' = ReaderCount(l) + 1
        /\ \A m \in Locks : WriterCount(m)' = WriterCount(m)
    BY <2>2, <2>3, <1>t DEF ReaderCount, WriterCount
  <2> QED
    BY <1>9, <1>e, <2>1, <2>4 DEF SwitchEnter
<1>10. CASE SwitchLeave(u)
  <2>1. PICK l \in Locks : l = at[u]
    BY <1>10, <1>w, LockAssumption DEF SwitchLeave, WellFormedUser
  <2>2. /\ \A m \in Locks : ReaderCounted(m)' = ReaderCounted(m)
        /\ \A m \in Locks \ {l} : ExclusiveOwners(m)' = ExclusiveOwners(m)
        /\ u \in ExclusiveOwners(l)
        /\ ExclusiveOwners(l)' = ExclusiveOwners(l) \ {u}
        /\ \A m \in Locks : WriterTrying(m)' = WriterTrying(m)
    BY <1>10, <1>w, <2>1, LockAssumption
    DEF WellFormedUser, SwitchLeave, Holds,
        ReaderCounted, ExclusiveOwners, WriterTrying
  <2>3. Cardinality(ExclusiveOwners(l)') = Cardinality(ExclusiveOwners(l)) - 1
    BY <2>2, <1>n, CountUsers
  <2>4. /\ \A m \in Locks : ReaderCount(m)' = ReaderCount(m)
        /\ \A m \in Locks \ {l} : WriterCount(m)' = WriterCount(m)
        /\ WriterCount(l)' = WriterCount(l) - 1
    BY <2>2, <2>3, <1>t DEF ReaderCount, WriterCount
  <2> QED
    BY <1>10, <1>e, <2>1, <2>4 DEF SwitchLeave
<1> QED
  BY <1>1, <1>2, <1>3, <1>4, <1>5, <1>6, <1>7, <1>8, <1>9, <1>10

(***************************************************************************)
(* Steps keep users well formed, grant at most one claim per lock, and let *)
(* an exclusive owner in only when nobody else is counted.                 *)
(***************************************************************************)
LEMMA OwnersStep ==
    ASSUME LockInv, LockNext
    PROVE  /\ at' \in [Users -> Locks \cup {NoLock}]
           /\ held' \in [Users -> Holds]
           /\ step' \in [Users -> Steps]
           /\ (\A u \in Users : WellFormedUser(u))'
           /\ OneClaim'
           /\ MutualExclusion'
<1> /\ at \in [Users -> Locks \cup {NoLock}]
    /\ held \in [Users -> Holds] /\ step \in [Users -> Steps]
  BY DEF LockInv, LockTypeOK
<1>w. \A v \in Users : WellFormedUser(v)
  BY DEF LockInv
<1>o. OneClaim /\ MutualExclusion
  BY DEF LockInv
<1>z. ASSUME NEW v \in Users, NEW m \in Locks, at[v] = m
      PROVE  /\ writers[m] = 0 => ~Claims(v)
             /\ readers[m] = 0 => held[v] # "shared"
  BY <1>z, ZeroCounter
  DEF Claims, ReaderCounted, ExclusiveOwners, WriterTrying
<1> SUFFICES ASSUME NEW u \in Users,
                    \/ \E l \in Locks : \/ LockSharedEnter(u, l)
                                        \/ LockExclusiveEnter(u, l)
                    \/ LockSharedTest(u) \/ LockSharedUndo(u)
                    \/ LockExclusiveTest(u) \/ LockExclusiveUndo(u)
                    \/ UnlockShared(u) \/ UnlockExclusive(u)
                    \/ SwitchEnter(u) \/ SwitchLeave(u)
             PROVE  /\ at' \in [Users -> Locks \cup {NoLock}]
                    /\ held' \in [Users -> Holds]
                    /\ step' \in [Users -> Steps]
                    /\ \A v \in Users : WellFormedUser(v)'
                    /\ OneClaim'
                    /\ MutualExclusion'
  BY DEF LockNext
<1> USE LockAssumption DEF Holds, Steps
<1>1. ASSUME NEW l \in Locks, LockSharedEnter(u, l) \/ LockExclusiveEnter(u, l)
      PROVE  /\ at' \in [Users -> Locks \cup {NoLock}]
             /\ held' \in [Users -> Holds]
             /\ step' \in [Users -> Steps]
             /\ \A v \in Users : WellFormedUser(v)'
             /\ OneClaim'
             /\ MutualExclusion'
  <2>1. /\ at' \in [Users -> Locks \cup {NoLock}]
        /\ held' \in [Users -> Holds]
        /\ step' \in [Users -> Steps]
    BY <1>1 DEF LockSharedEnter, LockExclusiveEnter
  <2>2. \A v \in Users : WellFormedUser(v)'
    BY <1>1, <1>w DEF LockSharedEnter, LockExclusiveEnter, WellFormedUser
  <2>3. CASE LockSharedEnter(u, l)
    <3>1. OneClaim'
      BY <2>3, <1>o, <1>w DEF LockSharedEnter, OneClaim, Claims, WellFormedUser
    <3>2. MutualExclusion'
      BY <2>3, <1>o, <1>w DEF LockSharedEnter, MutualExclusion, WellFormedUser
    <3> QED
      BY <2>1, <2>2, <3>1, <3>2
  <2>4. CASE LockExclusiveEnter(u, l)
    <3>1. \A v \in Users : (at[v] = l /\ writers[l] = 0) => ~Claims(v)
      BY <1>z
    <3>2. OneClaim'
      BY <2>4, <1>o, <1>w, <3>1
      DEF LockExclusiveEnter, OneClaim, Claims, WellFormedUser
    <3>3. MutualExclusion'
      BY <2>4, <1>o, <1>w
      DEF LockExclusiveEnter, MutualExclusion, WellFormedUser
    <3> QED
      BY <2>1, <2>2, <3>2, <3>3
  <2> QED
    BY <1>1, <2>3, <2>4
<1>2. CASE LockSharedTest(u)
  <2>1. at[u] \in Locks /\ held[u] = "none"
    BY <1>2, <1>w DEF LockSharedTest, WellFormedUser
  <2>2. \A v \in Users : (at[v] = at[u] /\ writers[at[u]] = 0) => ~Claims(v)
    BY <1>z, <2>1
  <2>3. \A v \in Users : WellFormedUser(v)'
    BY <1>2, <1>w, <2>1 DEF LockSharedTest, WellFormedUser
  <2>4. OneClaim'
    BY <1>2, <1>o, <2>1 DEF LockSharedTest, OneClaim, Claims
  <2>5. MutualExclusion'
    BY <1>2, <1>o, <2>1, <2>2 DEF LockSharedTest, MutualExclusion, Claims
  <2> QED
    BY <1>2, <2>3, <2>4, <2>5 DEF LockSharedTest
<1>3. CASE LockExclusiveTest(u)
  <2>1. at[u] \in Locks
    BY <1>3, <1>w DEF LockExclusiveTest, WellFormedUser
  <2>2. \A v \in Users : (at[v] = at[u] /\ readers[at[u]] = 0)
                             => held[v] # "shared"
    BY <1>z, <2>1
  <2>3. \A v \in Users : WellFormedUser(v)'
    BY <1>3, <1>w, <2>1 DEF LockExclusiveTest, WellFormedUser
  <2>4. OneClaim'
    BY <1>3, <1>o, <2>1 DEF LockExclusiveTest, OneClaim, Claims
  <2>5. MutualExclusion'
    BY <1>3, <1>o, <2>1, <2>2
    DEF LockExclusiveTest, MutualExclusion, OneClaim, Claims
  <2> QED
    BY <1>3, <2>3, <2>4, <2>5 DEF LockExclusiveTest
<1>4. CASE LockSharedUndo(u)
  <2>1. /\ \A v \in Users : WellFormedUser(v)'
        /\ at' \in [Users -> Locks \cup {NoLock}]
        /\ held' \in [Users -> Holds]
        /\ step' \in [Users -> Steps]
    BY <1>4, <1>w DEF LockSharedUndo, WellFormedUser
  <2>2. OneClaim'
    BY <1>4, <1>o, <1>w DEF LockSharedUndo, OneClaim, Claims, WellFormedUser
  <2>3. MutualExclusion'
    BY <1>4, <1>o, <1>w DEF LockSharedUndo, MutualExclusion, WellFormedUser
  <2> QED
    BY <2>1, <2>2, <2>3
<1>5. CASE LockExclusiveUndo(u)
  <2>1. /\ \A v \in Users : WellFormedUser(v)'
        /\ at' \in [Users -> Locks \cup {NoLock}]
        /\ held' \in [Users -> Holds]
        /\ step' \in [Users -> Steps]
    BY <1>5, <1>w DEF LockExclusiveUndo, WellFormedUser
  <2>2. OneClaim'
    BY <1>5, <1>o, <1>w DEF LockExclusiveUndo, OneClaim, Claims, WellFormedUser
  <2>3. MutualExclusion'
    BY <1>5, <1>o, <1>w DEF LockExclusiveUndo, MutualExclusion, WellFormedUser
  <2> QED
    BY <2>1, <2>2, <2>3
<1>6. CASE UnlockShared(u) \/ UnlockExclusive(u)
  <2>1. /\ \A v \in Users : WellFormedUser(v)'
        /\ at' \in [Users -> Locks \cup {NoLock}]
        /\ held' \in [Users -> Holds]
        /\ step' \in [Users -> Steps]
    BY <1>6, <1>w DEF UnlockShared, UnlockExclusive, WellFormedUser
  <2>2. OneClaim'
    BY <1>6, <1>o, <1>w
    DEF UnlockShared, UnlockExclusive, OneClaim, Claims, WellFormedUser
  <2>3. MutualExclusion'
    BY <1>6, <1>o, <1>w
    DEF UnlockShared, UnlockExclusive, MutualExclusion, WellFormedUser
  <2> QED
    BY <2>1, <2>2, <2>3
<1>7. CASE SwitchEnter(u) \/ SwitchLeave(u)
  <2>1. /\ \A v \in Users : WellFormedUser(v)'
        /\ at' \in [Users -> Locks \cup {NoLock}]
        /\ held' \in [Users -> Holds]
        /\ step' \in [Users -> Steps]
    BY <1>7, <1>w DEF SwitchEnter, SwitchLeave, WellFormedUser
  <2>2. OneClaim'
    BY <1>7, <1>o, <1>w
    DEF SwitchEnter, SwitchLeave, OneClaim, Claims, WellFormedUser
  <2>3. MutualExclusion'
    BY <1>7, <1>o, <1>w
    DEF SwitchEnter, SwitchLeave, MutualExclusion, WellFormedUser
  <2> QED
    BY <2>1, <2>2, <2>3
<1> QED
  BY <1>1, <1>2, <1>3, <1>4, <1>5, <1>6, <1>7

(* Each step keeps the inductive invariant.                                *)
LEMMA LockInvStep == LockInv /\ [LockNext]_lockVars => LockInv'
<1> SUFFICES ASSUME LockInv, [LockNext]_lockVars PROVE LockInv'
  OBVIOUS
<1>1. CASE LockNext
  <2>1. CountersExact'
    BY <1>1, CountsStep
  <2>2. /\ at' \in [Users -> Locks \cup {NoLock}]
        /\ held' \in [Users -> Holds]
        /\ step' \in [Users -> Steps]
        /\ (\A u \in Users : WellFormedUser(u))'
        /\ OneClaim'
        /\ MutualExclusion'
    BY <1>1, OwnersStep
  <2>3. \A l \in Locks : readers'[l] \in Nat /\ writers'[l] \in Nat
    <3> TAKE l \in Locks
    <3>1. /\ IsFiniteSet(ReaderCounted(l)')
          /\ IsFiniteSet(ExclusiveOwners(l)')
          /\ IsFiniteSet(WriterTrying(l)')
      BY FS_Subset, LockAssumption
      DEF ReaderCounted, ExclusiveOwners, WriterTrying
    <3> QED
      BY <2>1, <3>1, FS_CardinalityType DEF CountersExact
  <2>4. /\ readers' = [l \in Locks |-> readers'[l]]
        /\ writers' = [l \in Locks |-> writers'[l]]
    BY <1>1
    DEF LockInv, LockTypeOK, LockNext, LockSharedEnter, LockExclusiveEnter,
        LockSharedTest, LockSharedUndo, LockExclusiveTest, LockExclusiveUndo,
        UnlockShared, UnlockExclusive, SwitchEnter, SwitchLeave
  <2>5. LockTypeOK'
    BY <2>2, <2>3, <2>4 DEF LockTypeOK
  <2> QED
    BY <2>1, <2>2, <2>5 DEF LockInv
<1>2. CASE UNCHANGED lockVars
  BY <1>2, ZenonT(30)
  DEF lockVars, LockInv, LockTypeOK, WellFormedUser, OneClaim, Claims,
      CountersExact, MutualExclusion, ReaderCounted, ExclusiveOwners,
      WriterTrying
<1> QED
  BY <1>1, <1>2

(***************************************************************************)
(* For any number of kids and slots, the two counters of                   *)
(* Ipc::ReadWriteLock never go negative, count exactly their users, and    *)
(* never let an exclusive owner share the lock.                            *)
(***************************************************************************)
THEOREM LockSafety ==
    LockSpec => [](LockTypeOK /\ CountersExact /\ MutualExclusion)
<1>1. LockInv => LockTypeOK /\ CountersExact /\ MutualExclusion
  BY DEF LockInv
<1> QED
  BY <1>1, LockInitially, LockInvStep, PTL DEF LockSpec

(***************************************************************************)
(* One step of the counters is one step of the abstract lock, or none: the *)
(* successful test grants the lock, the decrement gives it back, and the   *)
(* decrement at the end of switchExclusiveToShared() downgrades it.        *)
(***************************************************************************)
LEMMA AbstractStep ==
    ASSUME LockInv, [LockNext]_lockVars
    PROVE  [Abstract!AbsNext]_(Abstract!absVars)
<1> DEFINE S == [l \in Locks |-> SharedOwners(l)]
           X == [l \in Locks |-> ExclusiveOwners(l)]
<1> /\ at \in [Users -> Locks \cup {NoLock}]
    /\ held \in [Users -> Holds] /\ step \in [Users -> Steps]
  BY DEF LockInv, LockTypeOK
<1>w. \A v \in Users : WellFormedUser(v)
  BY DEF LockInv
<1>s. ASSUME \A m \in Locks : /\ SharedOwners(m)' = SharedOwners(m)
                              /\ ExclusiveOwners(m)' = ExclusiveOwners(m)
      PROVE  [Abstract!AbsNext]_(Abstract!absVars)
  BY <1>s DEF Abstract!absVars
<1>1. CASE UNCHANGED lockVars
  BY <1>1, <1>s DEF lockVars, SharedOwners, ExclusiveOwners
<1>2. ASSUME NEW u \in Users,
             \/ \E l \in Locks : \/ LockSharedEnter(u, l)
                                 \/ LockExclusiveEnter(u, l)
             \/ LockSharedUndo(u) \/ LockExclusiveUndo(u) \/ SwitchEnter(u)
      PROVE  [Abstract!AbsNext]_(Abstract!absVars)
  <2>1. \A v \in Users : held'[v] = held[v]
                         /\ (held[v] # "none" => at'[v] = at[v])
    BY <1>2, <1>w, LockAssumption
    DEF LockSharedEnter, LockExclusiveEnter, LockSharedUndo,
        LockExclusiveUndo, SwitchEnter, WellFormedUser
  <2>2. \A v \in Users, m \in Locks :
            held[v] # "none" => (at'[v] = m <=> at[v] = m)
    BY <2>1
  <2> QED
    BY <2>1, <2>2, <1>s DEF SharedOwners, ExclusiveOwners
<1>3. ASSUME NEW u \in Users, LockSharedTest(u)
      PROVE  [Abstract!AbsNext]_(Abstract!absVars)
  <2>1. PICK l \in Locks : l = at[u]
    BY <1>3, <1>w DEF LockSharedTest, WellFormedUser
  <2>2. CASE writers[l] = 0
    <3>1. X[l] = {} /\ u \notin S[l]
      BY <1>3, <1>w, <2>2, ZeroCounter
      DEF LockSharedTest, WellFormedUser, SharedOwners
    <3>2. /\ \A m \in Locks : ExclusiveOwners(m)' = ExclusiveOwners(m)
          /\ \A m \in Locks \ {l} : SharedOwners(m)' = SharedOwners(m)
          /\ SharedOwners(l)' = SharedOwners(l) \cup {u}
      BY <1>3, <1>w, <2>1, <2>2
      DEF LockSharedTest, WellFormedUser, SharedOwners, ExclusiveOwners
    <3>3. /\ S' = [S EXCEPT ![l] = @ \cup {u}]
          /\ X' = X
      BY <3>2
    <3> QED
      BY <3>1, <3>3 DEF Abstract!AbsNext, Abstract!AcquireShared
  <2>3. CASE writers[l] # 0
    BY <1>3, <1>s, <2>1, <2>3
    DEF LockSharedTest, SharedOwners, ExclusiveOwners
  <2> QED
    BY <2>2, <2>3
<1>4. ASSUME NEW u \in Users, LockExclusiveTest(u)
      PROVE  [Abstract!AbsNext]_(Abstract!absVars)
  <2>1. PICK l \in Locks : l = at[u]
    BY <1>4, <1>w DEF LockExclusiveTest, WellFormedUser
  <2>2. CASE readers[l] = 0
    <3>1. S[l] = {}
      BY <2>2, ZeroCounter DEF SharedOwners, ReaderCounted
    <3>2. X[l] = {}
      BY <1>4, <2>1
      DEF LockExclusiveTest, LockInv, OneClaim, Claims, ExclusiveOwners
    <3>3. held[u] = "none"
      BY <2>1, <3>1, <3>2 DEF Holds, SharedOwners, ExclusiveOwners
    <3>4. /\ \A m \in Locks : SharedOwners(m)' = SharedOwners(m)
          /\ \A m \in Locks \ {l} : ExclusiveOwners(m)' = ExclusiveOwners(m)
          /\ ExclusiveOwners(l)' = ExclusiveOwners(l) \cup {u}
      BY <1>4, <2>1, <2>2, <3>3
      DEF LockExclusiveTest, SharedOwners, ExclusiveOwners
    <3>5. /\ X' = [X EXCEPT ![l] = {u}]
          /\ S' = S
      BY <3>2, <3>4
    <3> QED
      BY <3>1, <3>2, <3>5 DEF Abstract!AbsNext, Abstract!AcquireExclusive
  <2>3. CASE readers[l] # 0
    BY <1>4, <1>s, <2>1, <2>3
    DEF LockExclusiveTest, SharedOwners, ExclusiveOwners
  <2> QED
    BY <2>2, <2>3
<1>5. ASSUME NEW u \in Users, UnlockShared(u)
      PROVE  [Abstract!AbsNext]_(Abstract!absVars)
  <2>1. PICK l \in Locks : l = at[u]
    BY <1>5, <1>w DEF UnlockShared, WellFormedUser
  <2>2. /\ u \in S[l]
        /\ S' = [S EXCEPT ![l] = @ \ {u}]
        /\ X' = X
    BY <1>5, <2>1, LockAssumption
    DEF UnlockShared, SharedOwners, ExclusiveOwners
  <2> QED
    BY <2>2 DEF Abstract!AbsNext, Abstract!ReleaseShared
<1>6. ASSUME NEW u \in Users, UnlockExclusive(u)
      PROVE  [Abstract!AbsNext]_(Abstract!absVars)
  <2>1. PICK l \in Locks : l = at[u]
    BY <1>6, <1>w DEF UnlockExclusive, WellFormedUser
  <2>2. X[l] = {u}
    BY <1>6, <2>1
    DEF UnlockExclusive, LockInv, MutualExclusion, ExclusiveOwners
  <2>3. /\ \A m \in Locks : SharedOwners(m)' = SharedOwners(m)
        /\ \A m \in Locks \ {l} : ExclusiveOwners(m)' = ExclusiveOwners(m)
        /\ ExclusiveOwners(l)' = ExclusiveOwners(l) \ {u}
    BY <1>6, <2>1, LockAssumption
    DEF UnlockExclusive, SharedOwners, ExclusiveOwners
  <2>4. /\ X' = [X EXCEPT ![l] = {}]
        /\ S' = S
    BY <2>2, <2>3
  <2> QED
    BY <2>2, <2>4 DEF Abstract!AbsNext, Abstract!ReleaseExclusive
<1>7. ASSUME NEW u \in Users, SwitchLeave(u)
      PROVE  [Abstract!AbsNext]_(Abstract!absVars)
  <2>1. PICK l \in Locks : l = at[u]
    BY <1>7, <1>w DEF SwitchLeave, WellFormedUser
  <2>2. X[l] = {u} /\ S[l] = {}
    BY <1>7, <1>w, <2>1
    DEF SwitchLeave, WellFormedUser, LockInv, MutualExclusion,
        SharedOwners, ExclusiveOwners
  <2>3. /\ \A m \in Locks \ {l} : /\ SharedOwners(m)' = SharedOwners(m)
                                  /\ ExclusiveOwners(m)' = ExclusiveOwners(m)
        /\ SharedOwners(l)' = SharedOwners(l) \cup {u}
        /\ ExclusiveOwners(l)' = ExclusiveOwners(l) \ {u}
    BY <1>7, <2>1 DEF SwitchLeave, SharedOwners, ExclusiveOwners
  <2>4. /\ X' = [X EXCEPT ![l] = {}]
        /\ S' = [S EXCEPT ![l] = {u}]
    BY <2>2, <2>3
  <2> QED
    BY <2>2, <2>4 DEF Abstract!AbsNext, Abstract!Downgrade
<1> QED
  BY <1>1, <1>2, <1>3, <1>4, <1>5, <1>6, <1>7 DEF LockNext

(***************************************************************************)
(* Ipc::ReadWriteLock, with its two counters that every kid touches at any *)
(* time, implements a shared/exclusive lock with an atomic downgrade.      *)
(***************************************************************************)
THEOREM LockRefinement == LockSpec => ImplementsLock
<1>1. LockInit => Abstract!AbsInit
  BY LockAssumption
  DEF LockInit, Abstract!AbsInit, SharedOwners, ExclusiveOwners
<1>2. LockInv /\ [LockNext]_lockVars => [Abstract!AbsNext]_(Abstract!absVars)
  BY AbstractStep
<1>3. LockSpec => []LockInv
  BY LockInitially, LockInvStep, PTL DEF LockSpec
<1> QED
  BY <1>1, <1>2, <1>3, PTL DEF LockSpec, ImplementsLock, Abstract!AbsSpec

-----------------------------------------------------------------------------
(* The map                                                                 *)

(* An empty map and users who hold nothing.                                *)
LEMMA MapInitially == MapInit => MapInv
<1> SUFFICES ASSUME MapInit PROVE MapInv
  OBVIOUS
<1>1. LockInv
  BY LockInitially DEF MapInit
<1>2. MapTypeOK
  BY <1>1 DEF MapInit, MapTypeOK, LockInv, States, Ops
<1>3. \A u \in Users : InCall(u) /\ SeesSlot(u)
  BY DEF MapInit, LockInit, InCall, SeesSlot, Opened
<1>4. VersionsUnique /\ WriteableHasWriter /\ FreedIsDirty
  BY DEF MapInit, VersionsUnique, WriteableHasWriter, FreedIsDirty
<1> QED
  BY <1>1, <1>2, <1>3, <1>4 DEF MapInv

(***************************************************************************)
(* Every step of a map method touches the lock counters only through the   *)
(* lock methods.                                                           *)
(***************************************************************************)
LEMMA LockStep ==
    ASSUME MapInv, NEW u \in Users, MapStep(u)
    PROVE  [LockNext]_lockVars
<1>1. InCall(u) /\ WellFormedUser(u) /\ at[u] \in Locks \cup {NoLock}
  BY DEF MapInv, LockInv, LockTypeOK
<1>2. \A k \in Keys : SlotOf[k] \in Locks
  BY MapAssumption
<1>3. CASE \E k \in Keys : OpenForReading(u, k) \/ OpenForWriting(u, k)
  BY <1>2, <1>3 DEF OpenForReading, OpenForWriting, LockNext
<1>4. CASE Free(u)
  <2>1. idx[u] \in Locks
    BY <1>1, <1>4 DEF Free, InCall, WellFormedUser
  <2> QED
    BY <1>4, <2>1 DEF Free, LockNext
<1>5. CASE \/ OpenForReadingTry(u) \/ OpenForReadingFail(u)
           \/ DropSlot(u) \/ CloseForReadingThenFree(u)
  BY <1>5 DEF OpenForReadingTry, OpenForReadingFail, DropSlot,
              CloseForReadingThenFree, LockNext
<1>6. CASE \/ OpenForWritingTry(u) \/ OpenForWritingFail(u)
           \/ FreeTry(u) \/ FreeFail(u)
  BY <1>6 DEF OpenForWritingTry, OpenForWritingFail, FreeTry, FreeFail,
              LockNext
<1>7. CASE CloseUnlock(u) \/ CloseSwitch(u) \/ FreeUnlock(u)
  BY <1>7 DEF CloseUnlock, CloseSwitch, FreeUnlock, LockNext
<1>8. CASE AbortIo(u)
  BY <1>8 DEF AbortIo, LockNext
<1>9. CASE \/ CheckSlot(u) \/ Evict(u) \/ ClaimSlot(u) \/ ClaimUnset(u)
           \/ CloseForWriting(u) \/ FreeMark(u) \/ FreeLocked(u)
           \/ FreeUncount(u)
  BY <1>9 DEF CheckSlot, Evict, ClaimSlot, ClaimUnset, CloseForWriting,
              FreeMark, FreeLocked, FreeUncount
<1> QED
  BY <1>3, <1>4, <1>5, <1>6, <1>7, <1>8, <1>9 DEF MapStep

(***************************************************************************)
(* What a step of user u leaves alone: what the other users are doing, and *)
(* every slot that u does not own exclusively.                             *)
(***************************************************************************)
OthersSame(u) ==
    \A v \in Users \ {u} :
        /\ at'[v] = at[v] /\ held'[v] = held[v] /\ step'[v] = step[v]
        /\ op'[v] = op[v] /\ want'[v] = want[v] /\ idx'[v] = idx[v]
        /\ sees'[v] = sees[v]

SlotsSame(u) ==
    \A s \in Locks :
        \/ held[u] = "exclusive" /\ step[u] = "none" /\ at[u] = s
        \/ state'[s] = state[s] /\ key'[s] = key[s] /\ ver'[s] = ver[s]

(* The other users, and the slots that a user does not own, stay the same. *)
LEMMA Frame ==
    ASSUME MapInv, NEW u \in Users, MapStep(u)
    PROVE  OthersSame(u) /\ SlotsSame(u)
<1>0. /\ MapTypeOK /\ LockTypeOK
      /\ InCall(u) /\ SeesSlot(u) /\ WellFormedUser(u)
  BY DEF MapInv, LockInv
<1> USE DEF LockTypeOK, MapTypeOK
<1>1. OthersSame(u)
  <2> USE DEF OthersSame, Goes, SameAims
  <2>1. CASE \E k \in Keys : OpenForReading(u, k) \/ OpenForWriting(u, k)
    BY <1>0, <2>1 DEF OpenForReading, OpenForWriting, LockSharedEnter,
                      LockExclusiveEnter
  <2>2. CASE \/ OpenForReadingTry(u) \/ OpenForReadingFail(u)
             \/ DropSlot(u) \/ CloseForReadingThenFree(u)
    BY <1>0, <2>2
    DEF OpenForReadingTry, OpenForReadingFail, DropSlot, LockSharedTest,
        LockSharedUndo, CloseForReadingThenFree, UnlockShared
  <2>3. CASE \/ OpenForWritingTry(u) \/ OpenForWritingFail(u)
             \/ Free(u) \/ FreeTry(u) \/ FreeFail(u)
    BY <1>0, <2>3
    DEF OpenForWritingTry, OpenForWritingFail, Free, FreeTry, FreeFail,
        LockExclusiveEnter, LockExclusiveTest, LockExclusiveUndo
  <2>4. CASE CloseUnlock(u) \/ CloseSwitch(u) \/ FreeUnlock(u)
    BY <1>0, <2>4
    DEF CloseUnlock, CloseSwitch, FreeUnlock, UnlockExclusive,
        SwitchEnter, SwitchLeave
  <2>5. CASE AbortIo(u)
    BY <1>0, <2>5 DEF AbortIo, UnlockShared, lockVars
  <2>6. CASE \/ CheckSlot(u) \/ Evict(u) \/ ClaimSlot(u) \/ ClaimUnset(u)
             \/ CloseForWriting(u) \/ FreeMark(u) \/ FreeLocked(u)
             \/ FreeUncount(u)
    BY <1>0, <2>6
    DEF CheckSlot, Evict, ClaimSlot, ClaimUnset, CloseForWriting, FreeMark,
        FreeLocked, FreeUncount, lockVars
  <2> QED
    BY <2>1, <2>2, <2>3, <2>4, <2>5, <2>6 DEF MapStep
<1>2. SlotsSame(u)
  <2> USE DEF SlotsSame, SameSlots
  <2>1. CASE \/ \E k \in Keys : OpenForReading(u, k) \/ OpenForWriting(u, k)
             \/ OpenForReadingTry(u) \/ OpenForReadingFail(u)
             \/ DropSlot(u) \/ CloseForReadingThenFree(u)
    BY <2>1
    DEF OpenForReading, OpenForWriting, OpenForReadingTry,
        OpenForReadingFail, DropSlot, CloseForReadingThenFree
  <2>2. CASE \/ OpenForWritingTry(u) \/ OpenForWritingFail(u)
             \/ Free(u) \/ FreeTry(u) \/ FreeFail(u)
             \/ CloseUnlock(u) \/ CloseSwitch(u) \/ FreeUnlock(u)
             \/ CheckSlot(u) \/ FreeMark(u) \/ FreeUncount(u)
    BY <2>2
    DEF OpenForWritingTry, OpenForWritingFail, Free, FreeTry, FreeFail,
        CloseUnlock, CloseSwitch, FreeUnlock, CheckSlot, FreeMark,
        FreeUncount
  <2>3. CASE Evict(u) \/ FreeLocked(u)
    BY <1>0, <2>3 DEF Evict, FreeLocked, EmptySlot, InCall
  <2>4. CASE ClaimSlot(u) \/ ClaimUnset(u)
    BY <1>0, <2>4 DEF ClaimSlot, ClaimUnset, InCall
  <2>5. CASE CloseForWriting(u)
    BY <1>0, <2>5 DEF CloseForWriting, InCall
  <2>6. CASE AbortIo(u)
    BY <1>0, <2>6 DEF AbortIo, EmptySlot, InCall, SeesSlot, Opened, Holds
  <2> QED
    BY <2>1, <2>2, <2>3, <2>4, <2>5, <2>6 DEF MapStep
<1> QED
  BY <1>1, <1>2

(* Each step keeps the types.                                              *)
LEMMA TypeStep ==
    ASSUME MapInv, LockTypeOK', NEW u \in Users, MapStep(u)
    PROVE  MapTypeOK'
<1>0. MapTypeOK
  BY DEF MapInv
<1> USE DEF MapTypeOK, Goes, SameAims, SameSlots, EmptySlot, States, Ops
<1>1. CASE \E k \in Keys : OpenForReading(u, k) \/ OpenForWriting(u, k)
  <2>1. PICK k \in Keys : OpenForReading(u, k) \/ OpenForWriting(u, k)
    BY <1>1
  <2>2. SlotOf[k] \in Locks
    BY MapAssumption
  <2>3. /\ want' = [want EXCEPT ![u] = k]
        /\ idx' = [idx EXCEPT ![u] = SlotOf[k]]
        /\ op' = [op EXCEPT ![u] = "openRead"]
           \/ op' = [op EXCEPT ![u] = "openWrite"]
        /\ SameSlots /\ UNCHANGED <<waitingToBeFreed, count, sees, freed>>
    BY <2>1 DEF OpenForReading, OpenForWriting
  <2> QED
    BY <1>0, <2>2, <2>3
<1>2. CASE \/ OpenForReadingTry(u) \/ OpenForReadingFail(u)
           \/ DropSlot(u) \/ CloseForReadingThenFree(u)
  BY <1>0, <1>2 DEF OpenForReadingTry, OpenForReadingFail, DropSlot,
                    CloseForReadingThenFree
<1>3. CASE \/ OpenForWritingTry(u) \/ OpenForWritingFail(u)
           \/ Free(u) \/ FreeTry(u) \/ FreeFail(u)
  BY <1>0, <1>3 DEF OpenForWritingTry, OpenForWritingFail, Free, FreeTry,
                    FreeFail
<1>4. CASE CloseUnlock(u) \/ CloseSwitch(u) \/ FreeUnlock(u)
  BY <1>0, <1>4 DEF CloseUnlock, CloseSwitch, FreeUnlock
<1>5. CASE AbortIo(u) \/ CloseForWriting(u)
  BY <1>0, <1>5, ZenonT(30) DEF AbortIo, CloseForWriting
<1>9. CASE Evict(u)
  BY <1>0, <1>9 DEF Evict
<1>10. CASE FreeUncount(u)
  <2>1. count' \in Int
    BY <1>0, <1>10 DEF FreeUncount
  <2> QED
    BY <1>0, <1>10, <2>1 DEF FreeUncount
<1>6. CASE ClaimSlot(u)
  <2>1. /\ writes' \in Nat
        /\ 0..writes \subseteq 0..writes' /\ 1..writes \subseteq 1..writes'
        /\ writes + 1 \in 0..writes'
    BY <1>0, <1>6 DEF ClaimSlot
  <2>2. ver' \in [Locks -> 0..writes'] /\ sees' \in [Users -> 0..writes']
    BY <1>0, <1>6, <2>1 DEF ClaimSlot
  <2> QED
    BY <1>0, <1>6, <2>1, <2>2 DEF ClaimSlot
<1>11. CASE ClaimUnset(u)
  <2>1. /\ writes' \in Nat
        /\ 0..writes \subseteq 0..writes' /\ 1..writes \subseteq 1..writes'
    BY <1>0, <1>11 DEF ClaimUnset
  <2>2. ver' \in [Locks -> 0..writes'] /\ sees' \in [Users -> 0..writes']
    BY <1>0, <1>11, <2>1 DEF ClaimUnset
  <2>3. freed' \in SUBSET (1..writes')
    <3>1. freed' \subseteq freed /\ freed \subseteq 1..writes
      BY <1>0, <1>11 DEF ClaimUnset
    <3> QED
      BY <2>1, <3>1
  <2>4. count' \in Int
    BY <1>0, <1>11 DEF ClaimUnset
  <2> QED
    BY <1>0, <1>11, <2>1, <2>2, <2>3, <2>4 DEF ClaimUnset
<1>7. CASE CheckSlot(u)
  <2>1. Servable(u) => at[u] \in Locks
    BY <1>7 DEF MapInv, LockInv, InCall, WellFormedUser, LockTypeOK, CheckSlot
  <2> QED
    BY <1>0, <1>7, <2>1 DEF CheckSlot
<1>8. CASE FreeMark(u) \/ FreeLocked(u)
  <2>1. Opened(u) /\ SeesSlot(u)
    BY <1>8 DEF FreeMark, FreeLocked, Opened, MapInv
  <2>2. sees[u] \in 1..writes
    BY <1>0, <2>1 DEF SeesSlot
  <2> QED
    BY <1>0, <1>8, <2>2 DEF FreeMark, FreeLocked
<1> QED
  BY <1>1, <1>2, <1>3, <1>4, <1>5, <1>6, <1>7, <1>8, <1>9, <1>10, <1>11
  DEF MapStep

(* Each step keeps locks and the operations that users are in together.    *)
LEMMA InCallStep ==
    ASSUME MapInv, NEW u \in Users, MapStep(u)
    PROVE  \A v \in Users : InCall(v)'
<1>0. /\ MapTypeOK /\ LockTypeOK
      /\ InCall(u) /\ WellFormedUser(u)
  BY DEF MapInv, LockInv
<1>1. \A v \in Users \ {u} : InCall(v)'
  BY Frame DEF OthersSame, InCall, MapInv
<1>2. InCall(u)'
  <2> USE DEF LockTypeOK, MapTypeOK, Goes, SameAims
  <2>1. CASE \E k \in Keys : OpenForReading(u, k) \/ OpenForWriting(u, k)
    BY <1>0, <2>1, MapAssumption
    DEF OpenForReading, OpenForWriting, LockSharedEnter,
        LockExclusiveEnter, InCall, WellFormedUser
  <2>2. CASE \/ OpenForReadingTry(u) \/ OpenForReadingFail(u)
             \/ DropSlot(u) \/ CloseForReadingThenFree(u)
    BY <1>0, <2>2
    DEF OpenForReadingTry, OpenForReadingFail, DropSlot, LockSharedTest,
        LockSharedUndo, CloseForReadingThenFree, UnlockShared, InCall,
        WellFormedUser
  <2>3. CASE OpenForWritingTry(u) \/ OpenForWritingFail(u)
    BY <1>0, <2>3
    DEF OpenForWritingTry, OpenForWritingFail, LockExclusiveTest,
        LockExclusiveUndo, InCall, WellFormedUser
  <2>4. CASE Free(u)
    BY <1>0, <2>4
    DEF Free, LockExclusiveEnter, InCall, WellFormedUser
  <2>5. CASE FreeTry(u) \/ FreeFail(u)
    BY <1>0, <2>5
    DEF FreeTry, FreeFail, LockExclusiveTest, LockExclusiveUndo, InCall,
        WellFormedUser
  <2>6. CASE CloseUnlock(u) \/ CloseSwitch(u) \/ FreeUnlock(u)
    BY <1>0, <2>6
    DEF CloseUnlock, CloseSwitch, FreeUnlock, UnlockExclusive,
        SwitchEnter, SwitchLeave, InCall
  <2>7. CASE AbortIo(u)
    <3>1. state[at[u]] = "Writeable" => held[u] = "exclusive"
      BY <1>0, <2>7 DEF AbortIo, MapInv, SeesSlot, Opened, Holds
    <3> QED
      BY <1>0, <2>7, <3>1 DEF AbortIo, UnlockShared, lockVars, InCall
  <2>8. CASE \/ CheckSlot(u) \/ Evict(u) \/ ClaimSlot(u) \/ ClaimUnset(u)
             \/ CloseForWriting(u) \/ FreeMark(u) \/ FreeLocked(u)
             \/ FreeUncount(u)
    BY <1>0, <2>8
    DEF CheckSlot, Evict, ClaimSlot, ClaimUnset, CloseForWriting, FreeMark,
        FreeLocked, FreeUncount, lockVars, InCall, WellFormedUser
  <2> QED
    BY <2>1, <2>2, <2>3, <2>4, <2>5, <2>6, <2>7, <2>8 DEF MapStep
<1> QED
  BY <1>1, <1>2

(***************************************************************************)
(* A user that has a lock finds the slot Writeable only if it is the       *)
(* writer that made it so.                                                 *)
(***************************************************************************)
LEMMA OthersNotWriteable ==
    ASSUME MapInv, NEW u \in Users, held[u] # "none",
           op[u] \notin {"none", "free", "mark"}
    PROVE  at[u] \in Locks /\ state[at[u]] # "Writeable"
<1>1. at[u] \in Locks
  BY DEF MapInv, LockInv, LockTypeOK, WellFormedUser
<1> QED
  BY <1>1
  DEF MapInv, LockInv, WriteableHasWriter, ExclusiveOwners, MutualExclusion

(***************************************************************************)
(* Key and version of a slot change only when an entry is set in it.       *)
(***************************************************************************)
LEMMA VersionStep ==
    ASSUME MapInv, NEW u \in Users, MapStep(u)
    PROVE  \/ ver' = ver /\ key' = key
           \/ ClaimSlot(u) /\ at[u] \in Locks
<1>1. ClaimSlot(u) => at[u] \in Locks
  BY DEF ClaimSlot, MapInv, InCall, LockInv, LockTypeOK, WellFormedUser
<1>2. CASE \/ \E k \in Keys : OpenForReading(u, k) \/ OpenForWriting(u, k)
           \/ OpenForReadingTry(u) \/ OpenForReadingFail(u)
           \/ CheckSlot(u) \/ DropSlot(u)
           \/ OpenForWritingTry(u) \/ OpenForWritingFail(u)
  BY <1>2
  DEF OpenForReading, OpenForWriting, OpenForReadingTry,
      OpenForReadingFail, DropSlot, OpenForWritingTry, CheckSlot,
      OpenForWritingFail, SameSlots
<1>3. CASE \/ Evict(u) \/ CloseForWriting(u) \/ CloseUnlock(u)
           \/ CloseSwitch(u) \/ AbortIo(u) \/ CloseForReadingThenFree(u)
           \/ Free(u) \/ FreeTry(u) \/ FreeFail(u) \/ FreeMark(u)
           \/ FreeLocked(u) \/ FreeUnlock(u) \/ FreeUncount(u)
           \/ ClaimUnset(u)
  BY <1>3
  DEF Evict, ClaimUnset, CloseForWriting, CloseUnlock, CloseSwitch, AbortIo,
      CloseForReadingThenFree, Free, FreeTry, FreeFail, FreeMark,
      FreeLocked, FreeUnlock, FreeUncount, SameSlots, EmptySlot
<1> QED
  BY <1>1, <1>2, <1>3 DEF MapStep

(* Each step keeps what readers and writers know of their slot.            *)
LEMMA SeesStep ==
    ASSUME MapInv, NEW u \in Users, MapStep(u)
    PROVE  \A v \in Users : SeesSlot(v)'
<1>0. /\ MapTypeOK /\ LockTypeOK
      /\ InCall(u) /\ WellFormedUser(u) /\ SeesSlot(u)
      /\ \A v \in Users : WellFormedUser(v) /\ InCall(v) /\ SeesSlot(v)
  BY DEF MapInv, LockInv
<1>1. ASSUME NEW v \in Users \ {u}
      PROVE  SeesSlot(v)'
  <2>1. Opened(v)' <=> Opened(v)
    BY Frame DEF OthersSame, Opened
  <2>2. ASSUME Opened(v), NEW s \in Locks, ver'[s] = sees[v]
        PROVE  s = idx[v]
    <3>1. sees[v] \in 0..writes
      BY <1>0 DEF MapTypeOK
    <3>2. ver'[s] = ver[s]
      BY <1>0, <2>2, <3>1, VersionStep DEF ClaimSlot, MapTypeOK
    <3> QED
      BY <1>0, <2>2, <3>2 DEF SeesSlot
  <2>3. ASSUME held[v] # "none"
        PROVE  /\ at[v] \in Locks
               /\ state'[at[v]] = state[at[v]]
               /\ key'[at[v]] = key[at[v]] /\ ver'[at[v]] = ver[at[v]]
    <3>1. at[v] \in Locks
      BY <1>0, <2>3 DEF LockTypeOK, WellFormedUser
    <3>2. ~(held[u] = "exclusive" /\ at[u] = at[v])
      BY <2>3 DEF MapInv, LockInv, MutualExclusion
    <3> QED
      BY <3>1, <3>2, Frame DEF SlotsSame
  <2>4. /\ Opened(v) => sees'[v] > 0
        /\ Opened(v) => \A s \in Locks : ver'[s] = sees'[v] => s = idx'[v]
    BY <1>0, <2>2, Frame DEF OthersSame, SeesSlot
  <2>5. op[v] \in {"evicted", "claim", "unlock"} => held[v] # "none"
    BY <1>0 DEF InCall
  <2> QED
    BY <1>0, <2>1, <2>3, <2>4, <2>5, Frame DEF OthersSame, SeesSlot
<1>2. SeesSlot(u)'
  <2> USE DEF LockTypeOK, MapTypeOK, Goes, SameAims, SameSlots, Opened
  <2>1. CASE \E k \in Keys : OpenForReading(u, k) \/ OpenForWriting(u, k)
    BY <1>0, <2>1 DEF OpenForReading, OpenForWriting, SeesSlot
  <2>2. CASE \/ OpenForReadingTry(u) \/ OpenForReadingFail(u)
             \/ DropSlot(u)
    BY <1>0, <2>2
    DEF OpenForReadingTry, OpenForReadingFail, DropSlot, LockSharedTest,
        LockSharedUndo, UnlockShared, SeesSlot, WellFormedUser
  <2>3. CASE OpenForWritingTry(u) \/ OpenForWritingFail(u)
    BY <1>0, <2>3
    DEF OpenForWritingTry, OpenForWritingFail, LockExclusiveTest,
        LockExclusiveUndo, SeesSlot, InCall
  <2>4. CASE CloseForReadingThenFree(u)
    BY <1>0, <2>4 DEF CloseForReadingThenFree, UnlockShared, SeesSlot
  <2>5. CASE Free(u)
    BY <1>0, <2>5
    DEF Free, LockExclusiveEnter, SeesSlot, InCall, WellFormedUser
  <2>6. CASE FreeTry(u) \/ FreeFail(u)
    BY <1>0, <2>6
    DEF FreeTry, FreeFail, LockExclusiveTest, LockExclusiveUndo, SeesSlot
  <2>7. CASE CloseUnlock(u) \/ FreeUnlock(u)
    BY <1>0, <2>7 DEF CloseUnlock, FreeUnlock, UnlockExclusive, SeesSlot
  <2>8. CASE CloseSwitch(u)
    <3>1. CASE SwitchEnter(u) /\ UNCHANGED op
      BY <1>0, <2>8, <3>1 DEF CloseSwitch, SwitchEnter, SeesSlot
    <3>2. CASE SwitchLeave(u) /\ Goes(u, "none")
      BY <1>0, <2>8, <3>2 DEF CloseSwitch, SwitchLeave, SeesSlot, InCall
    <3> QED
      BY <2>8, <3>1, <3>2 DEF CloseSwitch
  <2>9. CASE FreeMark(u) \/ FreeUncount(u)
    BY <1>0, <2>9 DEF FreeMark, FreeUncount, lockVars, SeesSlot, InCall,
                      WellFormedUser
  <2>10. CASE CheckSlot(u)
    <3>1. at[u] \in Locks /\ state[at[u]] # "Writeable" /\ at[u] = idx[u]
      BY <1>0, <2>10, OthersNotWriteable
      DEF CheckSlot, InCall, WellFormedUser
    <3>2. CASE Servable(u)
      <4>1. ver[at[u]] > 0
        BY <1>0, <3>1, <3>2, LockAssumption, MapAssumption
        DEF Servable, InCall, MapInv, VersionsUnique
      <4>2. \A s \in Locks : ver[s] = ver[at[u]] => s = at[u]
        BY <3>1, <4>1 DEF MapInv, VersionsUnique
      <4> QED
        BY <1>0, <2>10, <3>1, <3>2, <4>1, <4>2
        DEF CheckSlot, Servable, lockVars, SeesSlot, InCall, States
    <3> QED
      BY <1>0, <2>10, <3>2 DEF CheckSlot, lockVars, SeesSlot
  <2>11. CASE Evict(u)
    <3>1. at[u] \in Locks /\ state[at[u]] # "Writeable"
      BY <1>0, <2>11, OthersNotWriteable DEF Evict, InCall
    <3> QED
      BY <1>0, <2>11, <3>1
      DEF Evict, EmptySlot, lockVars, SeesSlot, States
  <2>12. CASE ClaimSlot(u)
    <3>1. at[u] \in Locks /\ held[u] = "exclusive" /\ at[u] = idx[u]
      BY <1>0, <2>12 DEF ClaimSlot, InCall, WellFormedUser
    <3>2. \A s \in Locks : ver'[s] = writes + 1 => s = at[u]
      BY <1>0, <2>12, <3>1 DEF ClaimSlot
    <3> QED
      BY <1>0, <2>12, <3>1, <3>2 DEF ClaimSlot, lockVars, SeesSlot
  <2>16. CASE ClaimUnset(u)
    BY <1>0, <2>16 DEF ClaimUnset, SeesSlot
  <2>13. CASE CloseForWriting(u)
    <3>1. at[u] \in Locks
      BY <1>0, <2>13 DEF CloseForWriting, WellFormedUser
    <3> QED
      BY <1>0, <2>13, <3>1 DEF CloseForWriting, lockVars, SeesSlot
  <2>14. CASE AbortIo(u)
    <3>1. at[u] \in Locks
      BY <1>0, <2>14 DEF AbortIo, WellFormedUser
    <3> QED
      BY <1>0, <2>14, <3>1
      DEF AbortIo, EmptySlot, UnlockShared, lockVars, SeesSlot
  <2>15. CASE FreeLocked(u)
    <3>1. at[u] \in Locks
      BY <1>0, <2>15 DEF FreeLocked, InCall, WellFormedUser
    <3> QED
      BY <1>0, <2>15, <3>1 DEF FreeLocked, EmptySlot, lockVars, SeesSlot
  <2> QED
    BY <2>1, <2>2, <2>3, <2>4, <2>5, <2>6, <2>7, <2>8, <2>9, <2>10,
       <2>11, <2>12, <2>13, <2>14, <2>15, <2>16 DEF MapStep
<1> QED
  BY <1>1, <1>2

(* Each step keeps the versions of entries apart.                          *)
LEMMA UniqueStep ==
    ASSUME MapInv, NEW u \in Users, MapStep(u)
    PROVE  VersionsUnique'
<1>0. MapTypeOK /\ VersionsUnique
  BY DEF MapInv
<1>1. CASE ClaimSlot(u) /\ at[u] \in Locks
  BY <1>0, <1>1 DEF ClaimSlot, VersionsUnique, MapTypeOK
<1>2. CASE ver' = ver /\ key' = key
  BY <1>0, <1>2 DEF VersionsUnique
<1> QED
  BY <1>1, <1>2, VersionStep

(* Each step keeps Writeable slots with their writers.                     *)
LEMMA WriterStep ==
    ASSUME MapInv, NEW u \in Users, MapStep(u)
    PROVE  WriteableHasWriter'
<1> DEFINE Writer(v, s) == /\ at[v] = s /\ held[v] = "exclusive"
                           /\ op[v] \in {"none", "free", "mark"}
<1>0. /\ MapTypeOK /\ LockTypeOK
      /\ InCall(u) /\ WellFormedUser(u) /\ SeesSlot(u)
      /\ ~(held[u] = "exclusive" /\ step[u] = "exclTest")
  BY DEF MapInv, LockInv, OneClaim
<1> SUFFICES ASSUME NEW s \in Locks, state'[s] = "Writeable"
             PROVE  \E v \in Users : Writer(v, s)'
  BY DEF WriteableHasWriter, ExclusiveOwners
<1>1. CASE state[s] = "Writeable"
  <2>1. PICK v \in Users : Writer(v, s)
    BY <1>1 DEF MapInv, WriteableHasWriter, ExclusiveOwners
  <2>2. CASE v # u
    BY <2>1, <2>2, Frame DEF OthersSame
  <2>3. CASE v = u
    <3> USE DEF MapTypeOK, LockTypeOK, Goes
    <3>1. \/ CloseForWriting(u) \/ AbortIo(u)
          \/ Free(u) \/ FreeTry(u) \/ FreeFail(u) \/ FreeMark(u)
      BY <1>0, <2>1, <2>3, LockAssumption
      DEF MapStep, OpenForReading, OpenForWriting, OpenForReadingTry,
          OpenForReadingFail, CheckSlot, DropSlot, OpenForWritingTry,
          OpenForWritingFail, Evict, ClaimSlot, ClaimUnset,
          CloseUnlock, CloseSwitch,
          CloseForReadingThenFree, FreeLocked, FreeUnlock, FreeUncount,
          LockSharedEnter
    <3>2. ~CloseForWriting(u) /\ ~AbortIo(u)
      BY <1>0, <1>1, <2>1, <2>3
      DEF CloseForWriting, AbortIo, EmptySlot, UnlockShared
    <3>3. ASSUME Free(u) PROVE Writer(u, s)'
      BY <1>0, <2>1, <2>3, <3>3, LockAssumption
      DEF Free, LockExclusiveEnter, InCall
    <3>4. ASSUME FreeTry(u) \/ FreeFail(u) PROVE Writer(u, s)'
      BY <1>0, <2>1, <2>3, <3>4
      DEF FreeTry, FreeFail, LockExclusiveTest, LockExclusiveUndo
    <3>5. ASSUME FreeMark(u) PROVE Writer(u, s)'
      BY <1>0, <2>1, <2>3, <3>5 DEF FreeMark, lockVars
    <3> QED
      BY <3>1, <3>2, <3>3, <3>4, <3>5
  <2> QED
    BY <2>2, <2>3
<1>2. CASE state[s] # "Writeable"
  <2>1. held[u] = "exclusive" /\ at[u] = s
    BY <1>2, Frame DEF SlotsSame
  <2>2. \/ Evict(u) \/ ClaimSlot(u) \/ ClaimUnset(u) \/ CloseForWriting(u)
        \/ AbortIo(u) \/ FreeLocked(u)
    BY <1>2
    DEF MapStep, OpenForReading, OpenForWriting, OpenForReadingTry,
        OpenForReadingFail, CheckSlot, DropSlot, OpenForWritingTry,
        OpenForWritingFail, CloseUnlock, CloseSwitch,
        CloseForReadingThenFree, Free, FreeTry, FreeFail, FreeMark,
        FreeUnlock, FreeUncount, SameSlots
  <2>3. ClaimSlot(u)
    BY <1>0, <1>2, <2>1, <2>2
    DEF Evict, ClaimUnset, CloseForWriting, AbortIo, FreeLocked, EmptySlot,
        SameSlots, MapTypeOK
  <2>4. Writer(u, s)'
    BY <1>0, <2>1, <2>3 DEF ClaimSlot, Goes, lockVars, MapTypeOK
  <2> QED
    BY <2>4
<1> QED
  BY <1>1, <1>2

(* Each step keeps freed entries marked until their slot is emptied.       *)
LEMMA DirtyStep ==
    ASSUME MapInv, NEW u \in Users, MapStep(u)
    PROVE  FreedIsDirty'
<1>0. MapTypeOK /\ InCall(u) /\ SeesSlot(u) /\ FreedIsDirty
  BY DEF MapInv
<1> SUFFICES ASSUME NEW s \in Locks, state'[s] # "Empty", ver'[s] \in freed'
             PROVE  waitingToBeFreed'[s]
  BY DEF FreedIsDirty
<1> USE DEF MapTypeOK, FreedIsDirty
<1>1. CASE \/ \E k \in Keys : OpenForReading(u, k) \/ OpenForWriting(u, k)
           \/ OpenForReadingTry(u) \/ OpenForReadingFail(u)
           \/ CheckSlot(u) \/ DropSlot(u)
           \/ OpenForWritingTry(u) \/ OpenForWritingFail(u)
  BY <1>0, <1>1
  DEF OpenForReading, OpenForWriting, OpenForReadingTry,
      OpenForReadingFail, DropSlot, OpenForWritingTry, CheckSlot,
      OpenForWritingFail, SameSlots
<1>2. CASE \/ CloseUnlock(u) \/ CloseSwitch(u) \/ CloseForReadingThenFree(u)
           \/ Free(u) \/ FreeTry(u) \/ FreeFail(u)
           \/ FreeUnlock(u) \/ FreeUncount(u)
  BY <1>0, <1>2
  DEF CloseUnlock, CloseSwitch, CloseForReadingThenFree, Free, FreeTry,
      FreeFail, FreeUnlock, FreeUncount, SameSlots
<1>3. CASE Evict(u) \/ AbortIo(u)
  BY <1>0, <1>3 DEF Evict, AbortIo, EmptySlot, SameSlots
<1>4. CASE ClaimSlot(u)
  <2>1. ver'[s] # writes + 1
    BY <1>0, <1>4 DEF ClaimSlot
  <2>2. s # at[u]
    BY <1>0, <1>4, <2>1 DEF ClaimSlot
  <2> QED
    BY <1>0, <1>4, <2>2 DEF ClaimSlot
<1>8. CASE ClaimUnset(u)
  <2>1. s # at[u]
    BY <1>8 DEF ClaimUnset
  <2> QED
    BY <1>0, <1>8, <2>1 DEF ClaimUnset
<1>5. CASE CloseForWriting(u)
  <2>1. state[at[u]] = "Writeable"
    BY <1>0, <1>5 DEF CloseForWriting, SeesSlot, Opened
  <2> QED
    BY <1>0, <1>5, <2>1 DEF CloseForWriting
<1>6. CASE FreeMark(u)
  <2>1. ver[s] = sees[u] => s = idx[u]
    BY <1>0, <1>6 DEF FreeMark, SeesSlot, Opened
  <2> QED
    BY <1>0, <1>6, <2>1 DEF FreeMark, SameSlots
<1>7. CASE FreeLocked(u)
  <2>1. at[u] = idx[u]
    BY <1>0, <1>7 DEF FreeLocked, InCall, MapInv, LockInv, WellFormedUser
  <2>2. ver[s] = sees[u] => s = at[u]
    BY <1>0, <1>7, <2>1 DEF FreeLocked, SeesSlot, Opened
  <2> QED
    BY <1>0, <1>7, <2>2 DEF FreeLocked, EmptySlot
<1> QED
  BY <1>1, <1>2, <1>3, <1>4, <1>5, <1>6, <1>7, <1>8 DEF MapStep

(* Each step keeps the inductive invariant.                                *)
LEMMA MapInvStep == MapInv /\ [MapNext]_vars => MapInv'
<1>1. ASSUME MapInv, NEW u \in Users, MapStep(u)
      PROVE  MapInv'
  <2>1. LockInv'
    BY <1>1, LockStep, LockInvStep DEF MapInv
  <2>2. LockTypeOK'
    BY <2>1 DEF LockInv
  <2>3. MapTypeOK'
    BY <1>1, <2>2, TypeStep
  <2>4. \A v \in Users : InCall(v)' /\ SeesSlot(v)'
    BY <1>1, InCallStep, SeesStep
  <2>5. VersionsUnique' /\ WriteableHasWriter' /\ FreedIsDirty'
    BY <1>1, UniqueStep, WriterStep, DirtyStep
  <2> QED
    BY <2>1, <2>3, <2>4, <2>5 DEF MapInv
<1>2. ASSUME MapInv, UNCHANGED vars
      PROVE  MapInv'
  <2>1. UNCHANGED lockVars /\ UNCHANGED mapVars
    BY <1>2 DEF vars
  <2>2. LockInv'
    BY <1>2, <2>1, LockInvStep DEF MapInv
  <2> QED
    BY <1>2, <2>1, <2>2
    DEF lockVars, mapVars, MapInv, MapTypeOK, LockTypeOK, InCall, SeesSlot,
        Opened, VersionsUnique, WriteableHasWriter, ExclusiveOwners,
        FreedIsDirty
<1> QED
  BY <1>1, <1>2 DEF MapNext

(* The inductive invariant always holds.                                   *)
LEMMA MapAlways == MapSpec => []MapInv
  BY MapInitially, MapInvStep, PTL DEF MapSpec

(***************************************************************************)
(* Ipc::StoreMap, for any number of kids, slots and keys, with every       *)
(* access to a shared word interleaved: the types (which bound the         *)
(* versions in use by the number of writes), and exclusive ownership of a  *)
(* slot.                                                                   *)
(***************************************************************************)
THEOREM MapTypes == MapSpec => [](MapTypeOK /\ MutualExclusion)
<1>1. MapInv => MapTypeOK /\ MutualExclusion
  BY DEF MapInv, LockInv
<1> QED
  BY <1>1, MapAlways, PTL

(***************************************************************************)
(* No entry opened for reading changes under its reader: openForReading()  *)
(* checked the slot under the shared lock, and every write to a slot is    *)
(* made by an exclusive owner.                                             *)
(***************************************************************************)
THEOREM ReadersSafe == MapSpec => []ReadersUndisturbed
<1>1. MapInv => ReadersUndisturbed
  BY DEF MapInv, ReadersUndisturbed, Reading, SeesSlot, Opened
<1> QED
  BY <1>1, MapAlways, PTL

(***************************************************************************)
(* The state asserts of openForReading(), openForWriting() and             *)
(* closeForWriting() hold, and abortIo() tells readers from writers by the *)
(* slot state.                                                             *)
(***************************************************************************)
THEOREM WriteableSafe == MapSpec => []WriteableIffWriter
<1>1. ASSUME MapInv PROVE WriteableIffWriter
  <2>1. ASSUME NEW u \in Users, op[u] \in {"check", "evict"}
        PROVE  state[at[u]] # "Writeable"
    <3>1. held[u] # "none"
      BY <1>1, <2>1 DEF MapInv, InCall
    <3> QED
      BY <1>1, <2>1, <3>1, OthersNotWriteable
  <2>2. ASSUME NEW u \in Users
        PROVE  /\ op[u] \in {"evicted", "claim"} => state[at[u]] = "Empty"
               /\ (op[u] \in {"none", "mark"} /\ held[u] = "exclusive")
                     => state[at[u]] = "Writeable"
    BY <1>1 DEF MapInv, SeesSlot, Opened
  <2> QED
    BY <1>1, <2>1, <2>2 DEF WriteableIffWriter, WriteableHasWriter, MapInv
<1> QED
  BY <1>1, MapAlways, PTL

(***************************************************************************)
(* The map uses its locks as the lock code allows, so what is proved about *)
(* the lock holds for the map, the abstract lock included.                 *)
(***************************************************************************)
THEOREM MapRefinesLock == MapSpec => ImplementsLock
<1>1. MapInit => LockInit
  BY DEF MapInit
<1>2. MapInv /\ [MapNext]_vars => [LockNext]_lockVars
  BY LockStep DEF MapNext, vars
<1>3. MapSpec => LockSpec
  BY <1>1, <1>2, MapAlways, PTL DEF MapSpec, LockSpec
<1> QED
  BY <1>3, LockRefinement, PTL

(***************************************************************************)
(* Once free() returned, openForReading() gives that entry to nobody: the  *)
(* only step that lets a reader through looks at waitingToBeFreed, and     *)
(* FreedIsDirty says that the flag is set for every freed entry that is    *)
(* still in a slot.  An entry that addEntry() made readable again counts   *)
(* as freed no longer.                                                     *)
(***************************************************************************)
THEOREM FreedSafe == MapSpec => FreedNeverServed
<1>1. ASSUME MapInv, NEW u \in Users, MapStep(u), NEW v \in Users,
             op[v] = "check", op'[v] = "none"
      PROVE  ver[at[v]] \notin freed
  <2>1. u = v
    BY <1>1, Frame DEF OthersSame
  <2>2. CheckSlot(v)
    BY <1>1, <2>1
    DEF MapStep, OpenForReading, OpenForWriting, OpenForReadingTry,
        OpenForReadingFail, DropSlot, OpenForWritingTry,
        OpenForWritingFail, Evict, ClaimSlot, ClaimUnset, CloseForWriting,
        CloseUnlock, CloseSwitch, AbortIo, CloseForReadingThenFree, Free,
        FreeTry, FreeFail, FreeMark, FreeLocked, FreeUnlock, FreeUncount
  <2>3. Servable(v)
    BY <1>1, <2>2 DEF CheckSlot, Goes, MapInv, MapTypeOK
  <2>4. at[v] \in Locks
    BY <1>1, <2>2 DEF CheckSlot, MapInv, LockInv, InCall, LockTypeOK,
                      WellFormedUser
  <2> QED
    BY <1>1, <2>3, <2>4 DEF Servable, MapInv, FreedIsDirty
<1>2. MapInv /\ [MapNext]_vars
        => [\A u \in Users : (op[u] = "check" /\ op'[u] = "none")
                              => ver[at[u]] \notin freed]_vars
  BY <1>1 DEF MapNext
<1> QED
  BY <1>2, MapAlways, PTL DEF MapSpec, FreedNeverServed

-----------------------------------------------------------------------------
(* The map implements a cache of atomic operations                         *)

(***************************************************************************)
(* Users work on the slot that their key hashes to, and what was set in a  *)
(* slot has a key that hashes to it.                                       *)
(***************************************************************************)
Hashed ==
    /\ \A u \in Users :
          idx[u] # NoLock => want[u] \in Keys /\ idx[u] = SlotOf[want[u]]
    /\ \A s \in Locks :
          key[s] # NoLock => key[s] \in Keys /\ SlotOf[key[s]] = s

(* Each step keeps users and entries in their slots.                       *)
LEMMA HashedStep ==
    ASSUME MapInv, Hashed, NEW u \in Users, MapStep(u)
    PROVE  Hashed'
<1>0. MapTypeOK /\ InCall(u)
  BY DEF MapInv
<1>1. \/ want' = want /\ idx' = idx
      \/ \E k \in Keys : /\ want' = [want EXCEPT ![u] = k]
                         /\ idx' = [idx EXCEPT ![u] = SlotOf[k]]
  <2>1. CASE \/ \E k \in Keys : OpenForReading(u, k) \/ OpenForWriting(u, k)
             \/ OpenForReadingTry(u) \/ OpenForReadingFail(u)
             \/ CheckSlot(u) \/ DropSlot(u)
             \/ OpenForWritingTry(u) \/ OpenForWritingFail(u)
    BY <2>1
    DEF OpenForReading, OpenForWriting, OpenForReadingTry,
        OpenForReadingFail, DropSlot, OpenForWritingTry, CheckSlot,
        OpenForWritingFail, SameAims
  <2>2. CASE \/ Evict(u) \/ CloseForWriting(u) \/ CloseUnlock(u)
             \/ CloseSwitch(u) \/ AbortIo(u) \/ CloseForReadingThenFree(u)
             \/ Free(u) \/ FreeTry(u) \/ FreeFail(u) \/ FreeMark(u)
             \/ FreeLocked(u) \/ FreeUnlock(u) \/ FreeUncount(u)
             \/ ClaimSlot(u) \/ ClaimUnset(u)
    BY <2>2
    DEF Evict, ClaimUnset, CloseForWriting, CloseUnlock, CloseSwitch,
        AbortIo, ClaimSlot,
        CloseForReadingThenFree, Free, FreeTry, FreeFail, FreeMark,
        FreeLocked, FreeUnlock, FreeUncount, SameAims
  <2> QED
    BY <2>1, <2>2 DEF MapStep
<1>2. \A v \in Users :
          idx'[v] # NoLock => want'[v] \in Keys /\ idx'[v] = SlotOf[want'[v]]
  BY <1>0, <1>1 DEF Hashed, MapTypeOK
<1>3. ASSUME NEW s \in Locks, key'[s] # NoLock
      PROVE  key'[s] \in Keys /\ SlotOf[key'[s]] = s
  <2>1. CASE key' = key
    BY <1>3, <2>1 DEF Hashed
  <2>2. CASE ClaimSlot(u) /\ at[u] \in Locks
    <3>1. want[u] \in Keys /\ SlotOf[want[u]] = at[u]
      BY <1>0, <2>2, LockAssumption DEF InCall, Hashed
    <3> QED
      BY <1>0, <1>3, <2>2, <3>1 DEF ClaimSlot, MapTypeOK, Hashed
  <2> QED
    BY <2>1, <2>2, VersionStep
<1> QED
  BY <1>2, <1>3 DEF Hashed

(* Users and entries are always in their slots.                            *)
LEMMA HashedAlways == MapSpec => [](MapInv /\ Hashed)
<1>1. MapInit => MapInv /\ Hashed
  BY MapInitially DEF MapInit, Hashed
<1>2. MapInv /\ Hashed /\ [MapNext]_vars => MapInv' /\ Hashed'
  <2>1. ASSUME MapInv, Hashed, UNCHANGED vars PROVE Hashed'
    BY <2>1 DEF vars, mapVars, Hashed
  <2> QED
    BY <2>1, HashedStep, MapInvStep DEF MapNext
<1> QED
  BY <1>1, <1>2, PTL DEF MapSpec

(* The other users read and write the same entries as before the step.     *)
LEMMA CacheUsers ==
    ASSUME MapInv, NEW u \in Users, MapStep(u), NEW v \in Users \ {u}
    PROVE  ReadBy(v)' = ReadBy(v) /\ WrittenBy(v)' = WrittenBy(v)
  BY Frame DEF OthersSame, ReadBy, WrittenBy, Reads, Writes, Settled, EntryOf,
               NoEntry

(***************************************************************************)
(* A step that changes no slot and nothing of what its user reads and      *)
(* writes is a stutter of the cache.                                       *)
(***************************************************************************)
Quiet(u) ==
    /\ UNCHANGED <<state, key, ver, writes, waitingToBeFreed>>
    /\ ReadBy(u)' = ReadBy(u) /\ WrittenBy(u)' = WrittenBy(u)

(* Such a step is a stuttering step of the cache. *)
LEMMA QuietStep ==
    ASSUME MapInv, NEW u \in Users, MapStep(u), Quiet(u)
    PROVE  UNCHANGED Cache!cacheVars
<1>1. \A s \in Locks : InSlot(s)' = InSlot(s)
  BY DEF Quiet, InSlot, EntryOf, NoEntry
<1>2. \A v \in Users : ReadBy(v)' = ReadBy(v) /\ WrittenBy(v)' = WrittenBy(v)
  BY CacheUsers DEF Quiet
<1> QED
  BY <1>1, <1>2 DEF Cache!cacheVars, Quiet

(* Locking, unlocking and counting are not seen in the cache.              *)
LEMMA LockingQuiet ==
    ASSUME MapInv, NEW u \in Users,
           \/ \E k \in Keys : OpenForReading(u, k) \/ OpenForWriting(u, k)
           \/ OpenForReadingTry(u) \/ OpenForReadingFail(u) \/ DropSlot(u)
           \/ OpenForWritingTry(u) \/ OpenForWritingFail(u)
           \/ CloseUnlock(u) \/ CloseSwitch(u)
           \/ Free(u) \/ FreeTry(u) \/ FreeFail(u)
           \/ FreeUnlock(u) \/ FreeUncount(u)
    PROVE  Quiet(u)
<1>0. /\ MapTypeOK /\ LockTypeOK /\ InCall(u) /\ WellFormedUser(u)
      /\ LockInv
  BY DEF MapInv, LockInv
<1>1. UNCHANGED <<state, key, ver, writes, waitingToBeFreed>>
  BY DEF OpenForReading, OpenForWriting, OpenForReadingTry, DropSlot,
         OpenForReadingFail, OpenForWritingTry, OpenForWritingFail,
         CloseUnlock, CloseSwitch, Free, FreeTry, FreeFail, FreeUnlock,
         FreeUncount, SameSlots
<1> DEFINE Same == /\ Reads(u)' <=> Reads(u)
                   /\ Writes(u)' <=> Writes(u)
                   /\ Reads(u) \/ Writes(u) =>
                          want'[u] = want[u] /\ sees'[u] = sees[u]
<1>2. ASSUME Same PROVE Quiet(u)
  BY <1>1, <1>2 DEF Quiet, ReadBy, WrittenBy
<1> USE DEF LockTypeOK, MapTypeOK, Goes, SameAims, Reads, Writes, Settled
<1>3. CASE \E k \in Keys : OpenForReading(u, k) \/ OpenForWriting(u, k)
  <2>1. Same
    BY <1>0, <1>3
    DEF OpenForReading, OpenForWriting, LockSharedEnter, LockExclusiveEnter,
        WellFormedUser
  <2> QED
    BY <1>2, <2>1
<1>4. CASE OpenForReadingTry(u) \/ OpenForReadingFail(u) \/ DropSlot(u)
  <2>1. Same
    BY <1>0, <1>4
    DEF OpenForReadingTry, OpenForReadingFail, DropSlot, LockSharedTest,
        LockSharedUndo, UnlockShared, InCall, WellFormedUser
  <2> QED
    BY <1>2, <2>1
<1>5. CASE OpenForWritingTry(u) \/ OpenForWritingFail(u)
  <2>1. Same
    BY <1>0, <1>5
    DEF OpenForWritingTry, OpenForWritingFail, LockExclusiveTest,
        LockExclusiveUndo, InCall
  <2> QED
    BY <1>2, <2>1
<1>6. CASE CloseUnlock(u) \/ CloseSwitch(u)
  <2>1. Same
    BY <1>0, <1>6
    DEF CloseUnlock, CloseSwitch, UnlockExclusive, SwitchEnter, SwitchLeave,
        InCall
  <2> QED
    BY <1>2, <2>1
<1>7. CASE Free(u)
  <2>1. Same
    BY <1>0, <1>7 DEF Free, LockExclusiveEnter, InCall, WellFormedUser
  <2> QED
    BY <1>2, <2>1
<1>8. CASE FreeTry(u)
  <2>1. readers[at[u]] = 0 => held[u] # "shared"
    <3>1. at[u] \in Locks
      BY <1>0, <1>8 DEF FreeTry, LockExclusiveTest, WellFormedUser
    <3>2. held[u] = "shared" => u \in ReaderCounted(at[u])
      BY DEF ReaderCounted
    <3> QED
      BY <1>0, <3>1, <3>2, ZeroCounter
  <2>2. step[u] = "exclTest" => held[u] # "exclusive"
    BY <1>0 DEF LockInv, OneClaim
  <2>3. Same
    BY <1>0, <1>8, <2>1, <2>2 DEF FreeTry, LockExclusiveTest, InCall, Holds
  <2> QED
    BY <1>2, <2>3
<1>9. CASE FreeFail(u)
  <2>1. Same
    BY <1>0, <1>9 DEF FreeFail, LockExclusiveUndo, InCall
  <2> QED
    BY <1>2, <2>1
<1>10. CASE FreeUnlock(u) \/ FreeUncount(u)
  <2>1. Same
    BY <1>0, <1>10
    DEF FreeUnlock, FreeUncount, UnlockExclusive, lockVars, InCall,
        WellFormedUser
  <2> QED
    BY <1>2, <2>1
<1> QED
  BY <1>3, <1>4, <1>5, <1>6, <1>7, <1>8, <1>9, <1>10

(***************************************************************************)
(* A test that lets the reader through opens the entry; one that does not  *)
(* is a failed lookup.                                                     *)
(***************************************************************************)
LEMMA CheckCache ==
    ASSUME MapInv, Hashed, NEW u \in Users, CheckSlot(u)
    PROVE  [Cache!CacheNext]_(Cache!cacheVars)
<1>0. /\ MapTypeOK /\ LockTypeOK /\ InCall(u) /\ WellFormedUser(u)
      /\ MapStep(u)
  BY DEF MapInv, LockInv, MapStep
<1>1. /\ op[u] = "check" /\ held[u] = "shared" /\ at[u] \in Locks
      /\ UNCHANGED <<state, key, ver, writes, waitingToBeFreed, held, want>>
  BY <1>0
  DEF CheckSlot, InCall, WellFormedUser, LockTypeOK, SameSlots, lockVars
<1>2. ReadBy(u) = NoEntry /\ WrittenBy(u) = NoEntry /\ WrittenBy(u)' = NoEntry
  BY <1>1 DEF ReadBy, WrittenBy, Reads, Writes, Settled, NoEntry, EntryOf
<1>3. CASE ~Servable(u)
  <2>1. op'[u] = "drop"
    BY <1>0, <1>3 DEF CheckSlot, Goes, MapTypeOK
  <2>2. ReadBy(u)' = NoEntry
    BY <2>1 DEF ReadBy, Reads, Settled, NoEntry, EntryOf
  <2>3. Quiet(u)
    BY <1>1, <1>2, <2>2 DEF Quiet
  <2> QED
    BY <1>0, <2>3, QuietStep
<1>4. CASE Servable(u)
  <2>1. op'[u] = "none" /\ sees'[u] = ver[at[u]]
    BY <1>0, <1>4 DEF CheckSlot, Goes, MapTypeOK
  <2>2. /\ state[at[u]] = "Readable" /\ key[at[u]] = want[u]
        /\ ~waitingToBeFreed[at[u]]
    BY <1>0, <1>1, <1>4, OthersNotWriteable
    DEF Servable, MapTypeOK, States
  <2>3. PICK k \in Keys : k = want[u] /\ SlotOf[k] = at[u]
    BY <1>0, <1>1, LockAssumption DEF InCall, Hashed
  <2>4. InSlot(at[u]) = EntryOf(ver[at[u]], k, TRUE)
    BY <2>2, <2>3 DEF InSlot
  <2>5. ReadBy(u)' = EntryOf(ver[at[u]], k, TRUE)
    BY <1>1, <2>1, <2>3 DEF ReadBy, Reads, Settled, EntryOf
  <2>6. \A s \in Locks : InSlot(s)' = InSlot(s)
    BY <1>1 DEF InSlot, EntryOf, NoEntry
  <2>7. Cache!Open(u, k)
    <3>1. /\ InSlot(at[u]).whole /\ InSlot(at[u]).key = k
      BY <2>4 DEF EntryOf
    <3>2. \A v \in Users : /\ v # u => ReadBy(v)' = ReadBy(v)
                           /\ WrittenBy(v)' = WrittenBy(v)
      BY <1>0, <1>2, CacheUsers
    <3>3. ReadBy(u)' = InSlot(at[u])
      BY <2>4, <2>5
    <3> QED
      BY <1>1, <1>2, <2>2, <2>3, <2>6, <3>1, <3>2, <3>3
      DEF Cache!Open, Cache!Free, Cache!Nothing, Cache!Entry, NoEntry,
          EntryOf
  <2> QED
    BY <2>7 DEF Cache!CacheNext
<1> QED
  BY <1>3, <1>4

(***************************************************************************)
(* An exclusive owner that empties a slot removes its whole entry, which   *)
(* nobody has open, or takes a mark from an empty slot.                    *)
(***************************************************************************)
LEMMA EmptyCache ==
    ASSUME MapInv, Hashed, NEW u \in Users, Evict(u) \/ FreeLocked(u)
    PROVE  [Cache!CacheNext]_(Cache!cacheVars)
<1>0. /\ MapTypeOK /\ LockTypeOK /\ InCall(u) /\ WellFormedUser(u)
      /\ MapStep(u)
  BY DEF MapInv, LockInv, MapStep
<1>1. /\ op[u] \in {"evict", "freeLocked"} /\ held[u] = "exclusive"
      /\ at[u] \in Locks
  BY <1>0
  DEF Evict, FreeLocked, InCall, WellFormedUser, LockTypeOK
<1>2. /\ op'[u] \in {"evicted", "claim", "unlock"}
      /\ UNCHANGED <<held, want, sees, writes>>
  BY <1>0
  DEF Evict, FreeLocked, Goes, MapTypeOK, SameAims, SameSlots, EmptySlot,
      lockVars
<1>3. /\ ReadBy(u) = NoEntry /\ WrittenBy(u) = NoEntry
      /\ ReadBy(u)' = NoEntry /\ WrittenBy(u)' = NoEntry
  BY <1>1, <1>2
  DEF ReadBy, WrittenBy, Reads, Writes, Settled, NoEntry, EntryOf
<1>4. \A v \in Users : ReadBy(v)' = ReadBy(v) /\ WrittenBy(v)' = WrittenBy(v)
  BY <1>0, <1>3, CacheUsers
<1>5. CASE SameSlots /\ UNCHANGED waitingToBeFreed
  <2>1. Quiet(u)
    BY <1>4, <1>5 DEF Quiet, SameSlots
  <2> QED
    BY <1>0, <2>1, QuietStep
<1>6. CASE EmptySlot(at[u])
  <2>0. PICK s \in Locks : s = at[u]
    BY <1>1
  <2>1. /\ InSlot(s)' = NoEntry
        /\ \A t \in Locks \ {s} : InSlot(t)' = InSlot(t)
        /\ waitingToBeFreed' = [waitingToBeFreed EXCEPT ![s] = FALSE]
    <3>1. /\ state'[s] = "Empty" /\ key' = key /\ ver' = ver
          /\ \A t \in Locks \ {s} : state'[t] = state[t]
      BY <1>0, <1>6, <2>0 DEF EmptySlot, MapTypeOK
    <3> QED
      BY <1>6, <2>0, <3>1 DEF InSlot, NoEntry, EntryOf, EmptySlot
  <2>2. CASE state[s] = "Empty"
    <3>1. InSlot(s) = NoEntry
      BY <2>2 DEF InSlot
    <3>2. \A t \in Locks : InSlot(t)' = InSlot(t)
      BY <2>1, <3>1
    <3>3. Cache!Unmark(s)
      BY <1>2, <1>4, <1>6, <2>1, <3>1, <3>2
      DEF Cache!Unmark, Cache!Nothing, Cache!Entry, NoEntry, EntryOf,
          EmptySlot
    <3> QED
      BY <3>3 DEF Cache!CacheNext
  <2>3. CASE state[s] # "Empty"
    <3>1. state[s] = "Readable"
      BY <1>0, <1>1, <2>0, <2>3, OthersNotWriteable DEF MapTypeOK, States
    <3>2. InSlot(s) = EntryOf(ver[s], key[s], TRUE)
      BY <3>1 DEF InSlot
    <3>3. ASSUME NEW v \in Users, ReadBy(v) = InSlot(s) PROVE FALSE
      <4>1. Reads(v) /\ want[v] = key[s]
        BY <3>2, <3>3 DEF ReadBy, NoEntry, EntryOf
      <4>2. held[v] # "none" /\ v # u
        BY <1>1, <4>1 DEF Reads, Settled, MapInv, InCall
      <4>3. at[v] \in Locks /\ at[v] = idx[v]
        BY <4>2 DEF MapInv, LockInv, LockTypeOK, WellFormedUser, InCall
      <4>4. at[v] = s
        BY <4>1, <4>3, LockAssumption, MapAssumption DEF Hashed
      <4> QED
        BY <1>1, <2>0, <4>2, <4>4 DEF MapInv, LockInv, MutualExclusion
    <3>4. InSlot(s).whole
      BY <3>2 DEF EntryOf
    <3>5. Cache!Remove(s)
      BY <1>2, <1>4, <1>6, <2>1, <3>3, <3>4
      DEF Cache!Remove, Cache!Nothing, Cache!Entry, NoEntry, EntryOf,
          EmptySlot
    <3> QED
      BY <3>5 DEF Cache!CacheNext
  <2> QED
    BY <2>2, <2>3
<1> QED
  BY <1>5, <1>6 DEF Evict, FreeLocked

(***************************************************************************)
(* Claiming a slot creates an entry in it.                                 *)
(***************************************************************************)
LEMMA ClaimCache ==
    ASSUME MapInv, Hashed, NEW u \in Users, ClaimSlot(u)
    PROVE  Cache!CacheNext
<1>0. /\ MapTypeOK /\ LockTypeOK /\ InCall(u) /\ WellFormedUser(u)
      /\ SeesSlot(u) /\ MapStep(u)
  BY DEF MapInv, LockInv, MapStep
<1>1. /\ op[u] = "claim" /\ held[u] = "exclusive" /\ at[u] \in Locks
      /\ state[at[u]] = "Empty"
  BY <1>0 DEF ClaimSlot, InCall, WellFormedUser, LockTypeOK, SeesSlot
<1>s. PICK s \in Locks : s = at[u]
  BY <1>1
<1>2. PICK k \in Keys : k = want[u] /\ SlotOf[k] = s
  BY <1>0, <1>s, LockAssumption DEF InCall, Hashed
<1>3. /\ op'[u] = "none" /\ sees'[u] = writes + 1 /\ writes' = writes + 1
      /\ UNCHANGED <<held, want, waitingToBeFreed>>
  BY <1>0 DEF ClaimSlot, Goes, MapTypeOK, lockVars
<1>4. /\ ReadBy(u) = NoEntry /\ WrittenBy(u) = NoEntry
      /\ ReadBy(u)' = NoEntry
      /\ WrittenBy(u)' = EntryOf(writes + 1, k, FALSE)
  BY <1>1, <1>2, <1>3
  DEF ReadBy, WrittenBy, Reads, Writes, Settled, NoEntry, EntryOf
<1>5. InSlot(s) = NoEntry
  BY <1>1, <1>s DEF InSlot
<1>6. /\ InSlot(s)' = EntryOf(writes + 1, k, FALSE)
      /\ \A t \in Locks \ {s} : InSlot(t)' = InSlot(t)
  <2>1. /\ state'[s] = "Writeable" /\ key'[s] = k /\ ver'[s] = writes + 1
        /\ \A t \in Locks \ {s} : /\ state'[t] = state[t]
                                  /\ key'[t] = key[t] /\ ver'[t] = ver[t]
    BY <1>0, <1>2, <1>s DEF ClaimSlot, MapTypeOK
  <2>2. InSlot(s)' = EntryOf(ver'[s], key'[s], state'[s] = "Readable")
    BY <2>1 DEF InSlot, EntryOf
  <2>3. (state'[s] = "Readable") = FALSE
    BY <2>1
  <2>4. \A t \in Locks \ {s} : InSlot(t)' = InSlot(t)
    BY <2>1 DEF InSlot, NoEntry, EntryOf
  <2> QED
    BY <2>1, <2>2, <2>3, <2>4, Zenon
<1>7. Cache!Create(u, k)
  <2>1. \A v \in Users : /\ ReadBy(v)' = ReadBy(v)
                         /\ v # u => WrittenBy(v)' = WrittenBy(v)
    BY <1>0, <1>4, CacheUsers
  <2>2. [t \in Locks |-> EntryOf(ver[t], key[t], TRUE)]'
            = [[t \in Locks |-> EntryOf(ver[t], key[t], TRUE)]
                  EXCEPT ![s] = EntryOf(writes + 1, k, TRUE)]
    BY <1>0, <1>2, <1>s DEF ClaimSlot, MapTypeOK, EntryOf
  <2> QED
    BY <1>2, <1>3, <1>4, <1>5, <1>6, <2>1, <2>2
    DEF Cache!Create, Cache!Free, Cache!Nothing, Cache!Entry, NoEntry, EntryOf
<1> QED
  BY <1>7 DEF Cache!CacheNext

(***************************************************************************)
(* Claiming a slot without setting it restores what was last set there.    *)
(***************************************************************************)
LEMMA RestoreCache ==
    ASSUME MapInv, NEW u \in Users, ClaimUnset(u)
    PROVE  Cache!CacheNext
<1>0. /\ MapTypeOK /\ LockTypeOK /\ InCall(u) /\ WellFormedUser(u)
      /\ SeesSlot(u) /\ MapStep(u)
  BY DEF MapInv, LockInv, MapStep
<1>s. PICK s \in Locks : s = at[u]
  BY <1>0 DEF ClaimUnset, InCall, WellFormedUser, LockTypeOK
<1>1. InSlot(s) = NoEntry
  BY <1>0, <1>s DEF ClaimUnset, SeesSlot, InSlot
<1>2. /\ op[u] = "claim" /\ op'[u] = "added" /\ writes' = writes + 1
      /\ UNCHANGED <<waitingToBeFreed, key, ver>>
  BY <1>0 DEF ClaimUnset, Goes, MapTypeOK
<1>3. \A v \in Users : ReadBy(v)' = ReadBy(v) /\ WrittenBy(v)' = WrittenBy(v)
  <2>1. ReadBy(u)' = ReadBy(u) /\ WrittenBy(u)' = WrittenBy(u)
    BY <1>2 DEF ReadBy, WrittenBy, Reads, Writes, Settled, NoEntry, EntryOf
  <2> QED
    BY <1>0, <2>1, CacheUsers
<1>4. /\ InSlot(s)' = EntryOf(ver[s], key[s], TRUE)
      /\ \A t \in Locks \ {s} : InSlot(t)' = InSlot(t)
  <2>1. /\ state'[s] = "Readable"
        /\ \A t \in Locks \ {s} : state'[t] = state[t]
    BY <1>0, <1>s DEF ClaimUnset, MapTypeOK
  <2>2. InSlot(s)' = EntryOf(ver[s], key[s], state'[s] = "Readable")
    BY <1>2, <2>1 DEF InSlot, EntryOf
  <2>3. (state'[s] = "Readable") = TRUE
    BY <2>1
  <2>4. \A t \in Locks \ {s} : InSlot(t)' = InSlot(t)
    BY <1>2, <2>1 DEF InSlot, NoEntry, EntryOf
  <2> QED
    BY <2>2, <2>3, <2>4, Zenon
<1>5. Cache!Restore(s)
  <2>1. UNCHANGED [t \in Locks |-> EntryOf(ver[t], key[t], TRUE)]
    BY <1>2
  <2> QED
    BY <1>1, <1>2, <1>3, <1>4, <2>1
    DEF Cache!Restore, Cache!Nothing, Cache!Entry, NoEntry, EntryOf
<1> QED
  BY <1>5 DEF Cache!CacheNext

(***************************************************************************)
(* Making the slot Readable publishes the entry.                           *)
(***************************************************************************)
LEMMA CloseCache ==
    ASSUME MapInv, Hashed, NEW u \in Users, CloseForWriting(u)
    PROVE  Cache!CacheNext
<1>0. /\ MapTypeOK /\ LockTypeOK /\ InCall(u) /\ WellFormedUser(u)
      /\ SeesSlot(u) /\ MapStep(u)
  BY DEF MapInv, LockInv, MapStep
<1>1. /\ op[u] = "none" /\ held[u] = "exclusive"
      /\ state[at[u]] = "Writeable" /\ key[at[u]] = want[u]
      /\ ver[at[u]] = sees[u] /\ sees[u] > 0
  BY <1>0 DEF CloseForWriting, SeesSlot, Opened
<1>s. PICK s \in Locks : s = at[u]
  BY <1>0, <1>1 DEF WellFormedUser, LockTypeOK
<1>2. PICK k \in Keys : k = want[u] /\ SlotOf[k] = s
  BY <1>0, <1>s, LockAssumption DEF InCall, Hashed
<1>3. /\ op'[u] \in {"release", "downgrade"}
      /\ UNCHANGED <<held, want, sees, waitingToBeFreed, writes>>
  BY <1>0 DEF CloseForWriting, Goes, MapTypeOK, lockVars, SameAims
<1> DEFINE e == EntryOf(sees[u], k, TRUE)
           keeps == op'[u] = "downgrade"
<1>4. /\ WrittenBy(u) = EntryOf(sees[u], k, FALSE)
      /\ WrittenBy(u)' = NoEntry
  BY <1>1, <1>2, <1>3 DEF WrittenBy, Writes, Settled, NoEntry, EntryOf
<1>5. ReadBy(u)' = IF keeps THEN e ELSE NoEntry
  BY <1>2, <1>3 DEF ReadBy, Reads, Settled, NoEntry, EntryOf
<1>6. InSlot(s)' = e /\ \A t \in Locks \ {s} : InSlot(t)' = InSlot(t)
  <2>1. /\ state'[s] = "Readable" /\ key' = key /\ ver' = ver
        /\ \A t \in Locks \ {s} : state'[t] = state[t]
    BY <1>0, <1>s DEF CloseForWriting, MapTypeOK
  <2>2. InSlot(s)' = EntryOf(ver[s], key[s], state'[s] = "Readable")
    BY <2>1 DEF InSlot, EntryOf
  <2>3. (state'[s] = "Readable") = TRUE
    BY <2>1
  <2>4. \A t \in Locks \ {s} : InSlot(t)' = InSlot(t)
    BY <2>1 DEF InSlot, NoEntry, EntryOf
  <2>5. ver[s] = sees[u] /\ key[s] = k
    BY <1>1, <1>s, <1>2
  <2> QED
    BY <2>2, <2>3, <2>4, <2>5, Zenon DEF e
<1>7. /\ WrittenBy(u).ver = sees[u] /\ WrittenBy(u).key = k
      /\ WrittenBy(u) # NoEntry
  <2>1. EntryOf(sees[u], k, FALSE).ver = sees[u]
    BY DEF EntryOf
  <2>2. EntryOf(sees[u], k, FALSE).key = k
    BY DEF EntryOf
  <2>3. NoEntry.ver = 0
    BY DEF NoEntry, EntryOf
  <2>4. sees[u] # 0
    BY <1>1
  <2> HIDE DEF e, keeps
  <2> QED
    BY <1>4, <2>1, <2>2, <2>3, <2>4
<1> HIDE DEF keeps
<1>8. Cache!Publish(u, keeps)
  <2>1. \A v \in Users \ {u} :
            ReadBy(v)' = ReadBy(v) /\ WrittenBy(v)' = WrittenBy(v)
    BY <1>0, CacheUsers
  <2>2. e = Cache!Entry(WrittenBy(u).ver, WrittenBy(u).key, TRUE)
    BY <1>7, Zenon DEF EntryOf, Cache!Entry
  <2>3. NoEntry = Cache!Nothing
    BY Zenon DEF NoEntry, EntryOf, Cache!Nothing, Cache!Entry
  <2>4. SlotOf[WrittenBy(u).key] = s
    BY <1>2, <1>7
  <2> DEFINE z == Cache!Entry(WrittenBy(u).ver, WrittenBy(u).key, TRUE)
  <2>5. z.key = WrittenBy(u).key
    BY DEF Cache!Entry
  <2>6. z = e /\ SlotOf[z.key] = s
    BY <2>2, <2>4, <2>5
  <2> HIDE DEF e, z
  <2>7. /\ [t \in Locks |-> InSlot(t)]'
               = [[t \in Locks |-> InSlot(t)] EXCEPT ![SlotOf[z.key]] = z]
        /\ [v \in Users |-> WrittenBy(v)]'
               = [[v \in Users |-> WrittenBy(v)] EXCEPT ![u] = NoEntry]
        /\ [v \in Users |-> ReadBy(v)]'
               = [[v \in Users |-> ReadBy(v)]
                     EXCEPT ![u] = IF keeps THEN z ELSE NoEntry]
    BY <1>4, <1>5, <1>6, <2>1, <2>6
  <2>8. [v \in Users |-> WrittenBy(v)][u] = WrittenBy(u)
    OBVIOUS
  <2>9. UNCHANGED [t \in Locks |-> EntryOf(ver[t], key[t], TRUE)]
    BY DEF CloseForWriting
  <2> QED
    BY <1>3, <1>7, <2>3, <2>7, <2>8, <2>9 DEF Cache!Publish, z
<1>9. keeps \in BOOLEAN
  BY DEF keeps
<1> QED
  BY <1>8, <1>9 DEF Cache!CacheNext

(* A reader that unlocks its slot closes the entry.                        *)
LEMMA UnlockCache ==
    ASSUME MapInv, NEW u \in Users, MapStep(u), op[u] = "none",
           UnlockShared(u), op'[u] \in {"none", "closed"},
           SameSlots, UNCHANGED waitingToBeFreed
    PROVE  Cache!CacheNext
<1>0. /\ MapTypeOK /\ LockTypeOK /\ SeesSlot(u)
  BY DEF MapInv, LockInv
<1>1. held[u] = "shared" /\ held'[u] = "none"
  BY <1>0 DEF UnlockShared, LockTypeOK
<1>2. ReadBy(u) # NoEntry
  BY <1>0, <1>1
  DEF ReadBy, Reads, Settled, SeesSlot, Opened, NoEntry, EntryOf, MapTypeOK
<1>3. /\ WrittenBy(u) = NoEntry
      /\ ReadBy(u)' = NoEntry /\ WrittenBy(u)' = NoEntry
  BY <1>1
  DEF ReadBy, WrittenBy, Reads, Writes, Settled, NoEntry, EntryOf
<1>4. \A v \in Users : /\ v # u => ReadBy(v)' = ReadBy(v)
                       /\ WrittenBy(v)' = WrittenBy(v)
  BY <1>3, CacheUsers
<1>5. \A s \in Locks : InSlot(s)' = InSlot(s)
  BY DEF SameSlots, InSlot, NoEntry, EntryOf
<1>6. Cache!Close(u)
  BY <1>2, <1>3, <1>4, <1>5
  DEF Cache!Close, Cache!Nothing, Cache!Entry, NoEntry, EntryOf, SameSlots
<1> QED
  BY <1>6 DEF Cache!CacheNext

(* A writer that gives up takes its entry with it.                         *)
LEMMA AbortCache ==
    ASSUME MapInv, Hashed, NEW u \in Users, AbortIo(u)
    PROVE  Cache!CacheNext
<1>0. /\ MapTypeOK /\ LockTypeOK /\ InCall(u) /\ WellFormedUser(u)
      /\ SeesSlot(u) /\ MapStep(u)
  BY DEF MapInv, LockInv, MapStep
<1>1. op[u] = "none" /\ held[u] # "none"
  BY DEF AbortIo
<1>2. CASE state[at[u]] # "Writeable"
  BY <1>0, <1>1, <1>2, UnlockCache DEF AbortIo, MapTypeOK
<1>3. CASE state[at[u]] = "Writeable"
  <2>s. PICK s \in Locks : s = at[u]
    BY <1>0, <1>1 DEF WellFormedUser, LockTypeOK
  <2>1. /\ held[u] = "exclusive" /\ sees[u] > 0
    BY <1>0, <1>1, <1>3 DEF SeesSlot, Opened, LockTypeOK, Holds
  <2>2. PICK k \in Keys : k = want[u] /\ SlotOf[k] = s
    BY <1>0, <2>s, LockAssumption DEF InCall, Hashed
  <2>3. /\ op'[u] = "unlock" /\ EmptySlot(s) /\ UNCHANGED <<held, writes>>
    BY <1>0, <1>3, <2>s DEF AbortIo, EmptySlot, Goes, MapTypeOK, lockVars
  <2>4. /\ WrittenBy(u) = EntryOf(sees[u], k, FALSE)
        /\ ReadBy(u) = NoEntry
        /\ WrittenBy(u)' = NoEntry /\ ReadBy(u)' = NoEntry
    BY <1>1, <2>1, <2>2, <2>3
    DEF ReadBy, WrittenBy, Reads, Writes, Settled, NoEntry, EntryOf
  <2>5. WrittenBy(u) # NoEntry /\ WrittenBy(u).key = k
    BY <1>0, <2>1, <2>4 DEF EntryOf, NoEntry, MapTypeOK
  <2>6. /\ InSlot(s)' = NoEntry
        /\ \A t \in Locks \ {s} : InSlot(t)' = InSlot(t)
    <3>1. /\ state'[s] = "Empty" /\ key' = key /\ ver' = ver
          /\ \A t \in Locks \ {s} : state'[t] = state[t]
      BY <1>0, <2>3 DEF EmptySlot, MapTypeOK
    <3> QED
      BY <3>1 DEF InSlot, NoEntry, EntryOf
  <2>7. \A v \in Users : /\ ReadBy(v)' = ReadBy(v)
                         /\ v # u => WrittenBy(v)' = WrittenBy(v)
    BY <1>0, <2>4, CacheUsers
  <2>8. Cache!Abort(u)
    BY <2>2, <2>3, <2>4, <2>5, <2>6, <2>7
    DEF Cache!Abort, Cache!Nothing, Cache!Entry, NoEntry, EntryOf, EmptySlot
  <2> QED
    BY <2>8 DEF Cache!CacheNext
<1> QED
  BY <1>2, <1>3

(* A free() that could not lock the slot marks it.                         *)
LEMMA MarkCache ==
    ASSUME MapInv, NEW u \in Users, FreeMark(u)
    PROVE  Cache!CacheNext
<1>0. /\ MapTypeOK /\ LockTypeOK /\ InCall(u) /\ MapStep(u)
  BY DEF MapInv, LockInv, MapStep
<1>1. /\ op[u] = "mark" /\ op'[u] = "none" /\ idx[u] \in Locks
      /\ UNCHANGED <<held, want, sees, state, key, ver, writes>>
  BY <1>0
  DEF FreeMark, InCall, Goes, MapTypeOK, lockVars, SameAims, SameSlots
<1>2. ReadBy(u)' = ReadBy(u) /\ WrittenBy(u)' = WrittenBy(u)
  BY <1>1 DEF ReadBy, WrittenBy, Reads, Writes, Settled, NoEntry, EntryOf
<1>3. \A v \in Users : ReadBy(v)' = ReadBy(v) /\ WrittenBy(v)' = WrittenBy(v)
  BY <1>0, <1>2, CacheUsers
<1>4. \A s \in Locks : InSlot(s)' = InSlot(s)
  BY <1>1 DEF InSlot, NoEntry, EntryOf
<1>5. Cache!Mark(idx[u])
  BY <1>1, <1>3, <1>4 DEF Cache!Mark, FreeMark
<1> QED
  BY <1>1, <1>5 DEF Cache!CacheNext

(* Each step of the map is a step of the cache or a stutter.               *)
LEMMA CacheStep ==
    ASSUME MapInv, Hashed, NEW u \in Users, MapStep(u)
    PROVE  [Cache!CacheNext]_(Cache!cacheVars)
<1>1. CASE CloseForReadingThenFree(u)
  <2>1. op[u] = "none" /\ op'[u] = "closed"
    BY <1>1 DEF CloseForReadingThenFree, Goes, MapInv, MapTypeOK
  <2> QED
    BY <1>1, <2>1, UnlockCache DEF CloseForReadingThenFree
<1>2. CASE \/ CheckSlot(u) \/ Evict(u) \/ FreeLocked(u) \/ ClaimSlot(u)
           \/ ClaimUnset(u) \/ CloseForWriting(u) \/ AbortIo(u)
           \/ FreeMark(u)
  BY <1>2, CheckCache, EmptyCache, ClaimCache, RestoreCache, CloseCache,
     AbortCache, MarkCache, Zenon
<1>3. CASE \/ \E k \in Keys : OpenForReading(u, k) \/ OpenForWriting(u, k)
           \/ OpenForReadingTry(u) \/ OpenForReadingFail(u) \/ DropSlot(u)
           \/ OpenForWritingTry(u) \/ OpenForWritingFail(u)
           \/ CloseUnlock(u) \/ CloseSwitch(u)
           \/ Free(u) \/ FreeTry(u) \/ FreeFail(u)
           \/ FreeUnlock(u) \/ FreeUncount(u)
  <2>1. Quiet(u)
    BY <1>3, LockingQuiet
  <2> QED
    BY <2>1, QuietStep
<1> QED
  BY <1>1, <1>2, <1>3, Zenon DEF MapStep

(***************************************************************************)
(* For any number of kids, slots and keys, the map behaves like a cache    *)
(* with atomic operations.  What MemStore and the Rock store may rely on   *)
(* follows from that cache alone: one finds only whole entries of the key  *)
(* that was asked for, an entry that is open stays in its slot, and one in *)
(* a marked slot is found by nobody until it is gone.                      *)
(***************************************************************************)
THEOREM MapRefinesCache == MapSpec => ImplementsCache
<1>1. MapInit => Cache!CacheInit
  BY DEF MapInit, LockInit, Cache!CacheInit, Cache!Nothing, Cache!Entry,
         InSlot, ReadBy, WrittenBy, Reads, Writes, Settled, NoEntry, EntryOf
<1>2. MapInv /\ Hashed /\ [MapNext]_vars
          => [Cache!CacheNext]_(Cache!cacheVars)
  <2>1. ASSUME UNCHANGED vars PROVE UNCHANGED Cache!cacheVars
    BY <2>1
    DEF vars, mapVars, lockVars, Cache!cacheVars, InSlot, ReadBy, WrittenBy,
        Reads, Writes, Settled, NoEntry, EntryOf
  <2> QED
    BY <2>1, CacheStep DEF MapNext
<1> QED
  BY <1>1, <1>2, HashedAlways, PTL
  DEF MapSpec, ImplementsCache, Cache!CacheSpec
=============================================================================
