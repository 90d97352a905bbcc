--------------------------- MODULE PagePoolProofs ---------------------------
(***************************************************************************)
(* Proofs about PageStack and PagePool for every finite set of users,      *)
(* every positive capacity, and any purposes and limits.  A step of the    *)
(* pool is a step of its page stack or leaves it alone, so the results on  *)
(* PageStack, which come first, carry over.                                *)
(***************************************************************************)
EXTENDS PagePool, FiniteSetTheorems, TLAPS

-----------------------------------------------------------------------------
(* The page stack                                                          *)

(***************************************************************************)
(* The inductive invariant.  PageSteps ties a user's page to its place in  *)
(* pop and push: a search starts without a page, and a page is dropped     *)
(* only once it is in an item.  PlacesExact counts the places of pages.    *)
(***************************************************************************)
Holders == {u \in Users : page[u] # 0}

PageSteps ==
    \A u \in Users :
        /\ pc[u] \in {"idle", "popTest", "popRead", "popTake", "popFail",
                      "pushHint", "pushCount"} => page[u] = 0
        /\ pc[u] \in {"using", "popHint", "pushTest", "pushRead", "pushPut"}
               => page[u] # 0
        /\ pc[u] # "failed"

PlacesExact == Cardinality(Readable) + Cardinality(Holders) = Capacity

StackInv ==
    /\ StackTypeOK
    /\ PageSteps
    /\ PagesUnique
    /\ PagesNeverLost
    /\ PlacesExact
    /\ SizeExact

(***************************************************************************)
(* The hints wrap around inside theItems.                                  *)
(***************************************************************************)
LEMMA HintsWrap ==
    ASSUME NEW i \in Offsets
    PROVE  next(i) \in Offsets /\ prev(i) \in Offsets
  BY PageAssumption DEF next, prev, Offsets

(* The sets that are counted are finite.                                   *)
LEMMA StackFinite ==
    /\ IsFiniteSet(Offsets) /\ Cardinality(Offsets) = Capacity
    /\ IsFiniteSet(Readable) /\ Cardinality(Readable) \in Nat
    /\ IsFiniteSet(Holders) /\ Cardinality(Holders) \in Nat
    /\ IsFiniteSet(Debtors) /\ Cardinality(Debtors) \in Nat
<1>1. IsFiniteSet(Offsets) /\ Cardinality(Offsets) = Capacity
  BY FS_Interval, PageAssumption DEF Offsets
<1>2. /\ Readable \in SUBSET Offsets
      /\ Holders \in SUBSET Users
      /\ Debtors \in SUBSET Users
  BY DEF Readable, Holders, Debtors
<1>3. IsFiniteSet(Readable) /\ IsFiniteSet(Holders) /\ IsFiniteSet(Debtors)
  BY <1>1, <1>2, FS_Subset, PageAssumption
<1> QED
  BY <1>1, <1>3, FS_CardinalityType

(* A full stack and idle users.                                            *)
LEMMA StackInitially == StackInit => StackInv
<1> SUFFICES ASSUME StackInit PROVE StackInv
  OBVIOUS
<1> USE PageAssumption DEF StackInit
<1>1. StackTypeOK
  BY DEF StackTypeOK, Offsets, PCs, PopSteps, PushSteps
<1>2. PageSteps /\ PagesUnique
  BY DEF PageSteps, PagesUnique, Offsets, Writable
<1>3. PagesNeverLost
  <2> SUFFICES ASSUME NEW p \in Pages PROVE \E i \in Offsets : theItems[i] = p
    BY DEF PagesNeverLost
  <2>1. p - 1 \in Offsets /\ theItems[p - 1] = p
    BY DEF Offsets, Pages
  <2> QED
    BY <2>1
<1>4. Readable = Offsets /\ Holders = {} /\ Debtors = {}
  BY DEF Readable, Offsets, Writable, Holders, Debtors
<1>5. PlacesExact /\ SizeExact
  BY <1>4, StackFinite, FS_EmptySet DEF PlacesExact, SizeExact
<1> QED
  BY <1>1, <1>2, <1>3, <1>5 DEF StackInv

(***************************************************************************)
(* Only pop's fetchAndAnd and push's successful swap_if move pages; every  *)
(* other step leaves the items and the pages of the users alone.           *)
(***************************************************************************)
Takes(u) == PopTake(u) /\ theItems[idx[u]] # Writable
Puts(u) == PushPut(u) /\ theItems[idx[u]] = Writable

(* A step takes a page, puts one, or moves none.                           *)
LEMMA MovesOnly ==
    ASSUME StackInv, StackNext
    PROVE  \/ \E u \in Users : Takes(u) \/ Puts(u)
           \/ UNCHANGED <<theItems, page>>
<1>1. PICK u \in Users : PopStart(u) \/ PushStart(u) \/ InPop(u) \/ InPush(u)
  BY DEF StackNext
<1>2. CASE PopTake(u) /\ theItems[idx[u]] = Writable
  <2>1. page[u] = 0 /\ theItems \in [Offsets -> 0..Capacity]
        /\ page \in [Users -> 0..Capacity] /\ idx[u] \in Offsets
    BY <1>2 DEF PopTake, StackInv, PageSteps, StackTypeOK
  <2> QED
    BY <1>2, <2>1 DEF PopTake, Writable
<1> QED
  BY <1>1, <1>2
  DEF InPop, InPush, Takes, Puts, PopStart, PopTest, PopRead, PopTake, PopSwap,
      PopHint, PopFail, PushStart, PushTest, PushRead, PushPut, PushSwap,
      PushHint, PushCount

(***************************************************************************)
(* What a move does: a page and the number 0 change places, between an     *)
(* item and a user that has none.                                          *)
(***************************************************************************)
LEMMA MoveEffect ==
    ASSUME StackInv, NEW u \in Users, Takes(u) \/ Puts(u)
    PROVE  \E i \in Offsets :
               /\ theItems[i] = 0 <=> page[u] # 0
               /\ theItems' = [theItems EXCEPT ![i] = page[u]]
               /\ page' = [page EXCEPT ![u] = theItems[i]]
<1>1. idx[u] \in Offsets
  BY DEF StackInv, StackTypeOK
<1>2. CASE Takes(u)
  BY <1>1, <1>2 DEF Takes, PopTake, StackInv, PageSteps, Writable
<1>3. CASE Puts(u)
  BY <1>1, <1>3 DEF Puts, PushPut, StackInv, PageSteps, Writable
<1> QED
  BY <1>2, <1>3

(* Each step keeps the types.                                              *)
LEMMA TypesStep ==
    ASSUME StackInv, StackNext
    PROVE  StackTypeOK'
<1> USE DEF StackInv, StackTypeOK
<1>1. PICK u \in Users : PopStart(u) \/ PushStart(u) \/ InPop(u) \/ InPush(u)
  BY DEF StackNext
<1>2. theSize' \in Int /\ pc' \in [Users -> PCs] /\ idx' \in [Users -> Offsets]
  BY <1>1
  DEF InPop, InPush, PopStart, PopTest, PopRead, PopTake, PopSwap, PopHint,
      PopFail, PushStart, PushTest, PushRead, PushPut, PushSwap, PushHint,
      PushCount, Goes, PCs, PopSteps, PushSteps
<1>3. theLastReadable' \in Offsets /\ theFirstWritable' \in Offsets
  BY <1>1, HintsWrap
  DEF InPop, InPush, PopStart, PopTest, PopRead, PopTake, PopSwap, PopHint,
      PopFail, PushStart, PushTest, PushRead, PushPut, PushSwap, PushHint,
      PushCount
<1>4. /\ theItems' \in [Offsets -> 0..Capacity]
      /\ page' \in [Users -> 0..Capacity]
  <2>1. CASE UNCHANGED <<theItems, page>>
    BY <2>1
  <2>2. ASSUME NEW v \in Users, Takes(v) \/ Puts(v)
        PROVE  /\ theItems' \in [Offsets -> 0..Capacity]
               /\ page' \in [Users -> 0..Capacity]
    <3>1. PICK i \in Offsets :
              /\ theItems' = [theItems EXCEPT ![i] = page[v]]
              /\ page' = [page EXCEPT ![v] = theItems[i]]
      BY <2>2, MoveEffect
    <3> QED
      BY <3>1
  <2> QED
    BY <2>1, <2>2, MovesOnly
<1> QED
  BY <1>2, <1>3, <1>4

(***************************************************************************)
(* A user that is about to push a page is one of those that theSize has    *)
(* been decremented for, so push() does not find theSize at its capacity.  *)
(***************************************************************************)
LEMMA PageStepsStep ==
    ASSUME StackInv, StackNext
    PROVE  PageSteps'
<1>1. PICK u \in Users : PopStart(u) \/ PushStart(u) \/ InPop(u) \/ InPush(u)
  BY DEF StackNext
<1>2. /\ pc \in [Users -> PCs] /\ page \in [Users -> 0..Capacity] /\ PageSteps
      /\ theItems \in [Offsets -> 0..Capacity] /\ idx \in [Users -> Offsets]
  BY DEF StackInv, StackTypeOK
<1>3. CASE PushTest(u)
  <2>1. theSize < Capacity
    <3>1. u \in Debtors
      BY <1>3 DEF PushTest, Debtors
    <3>2. Cardinality(Debtors) # 0
      BY <3>1, StackFinite, FS_EmptySet
    <3> QED
      BY <3>2, StackFinite, PageAssumption DEF StackInv, SizeExact
  <2> QED
    BY <1>2, <1>3, <2>1 DEF PushTest, Goes, PageSteps
<1>4. CASE PopTake(u)
  BY <1>2, <1>4 DEF PopTake, Goes, PageSteps
<1>5. CASE PushPut(u)
  BY <1>2, <1>5 DEF PushPut, Goes, PageSteps
<1>6. CASE \/ PopStart(u) \/ PopTest(u) \/ PopRead(u) \/ PopSwap(u)
           \/ PopHint(u) \/ PopFail(u)
  BY <1>2, <1>6
  DEF PopStart, PopTest, PopRead, PopSwap, PopHint, PopFail, Goes, PageSteps,
      Writable
<1>7. CASE \/ PushStart(u) \/ PushRead(u) \/ PushSwap(u) \/ PushHint(u)
           \/ PushCount(u)
  BY <1>2, <1>7
  DEF PushStart, PushRead, PushSwap, PushHint, PushCount, Goes, PageSteps
<1> QED
  BY <1>1, <1>3, <1>4, <1>5, <1>6, <1>7 DEF InPop, InPush

(* Each step keeps pages unique and accounted for.                         *)
LEMMA PagesStep ==
    ASSUME StackInv, StackNext
    PROVE  PagesUnique' /\ PagesNeverLost' /\ PlacesExact'
<1>1. CASE UNCHANGED <<theItems, page>>
  BY <1>1
  DEF StackInv, PagesUnique, PagesNeverLost, PlacesExact, Readable, Holders
<1>2. ASSUME NEW u \in Users, Takes(u) \/ Puts(u)
      PROVE  PagesUnique' /\ PagesNeverLost' /\ PlacesExact'
  <2>1. PICK i \in Offsets :
            /\ theItems[i] = 0 <=> page[u] # 0
            /\ theItems' = [theItems EXCEPT ![i] = page[u]]
            /\ page' = [page EXCEPT ![u] = theItems[i]]
    BY <1>2, MoveEffect
  <2>2. /\ theItems \in [Offsets -> 0..Capacity]
        /\ page \in [Users -> 0..Capacity]
    BY DEF StackInv, StackTypeOK
  <2>3. PagesUnique'
    <3>1. PagesUnique
      BY DEF StackInv
    <3>2. (\A j, k \in Offsets :
             (j # k /\ theItems[j] # Writable) => theItems[j] # theItems[k])'
      BY <2>1, <2>2, <3>1 DEF PagesUnique, Writable
    <3>3. (\A v, w \in Users : (v # w /\ page[v] # 0) => page[v] # page[w])'
      BY <2>1, <2>2, <3>1 DEF PagesUnique, Writable
    <3>4. (\A j \in Offsets, v \in Users :
             theItems[j] # Writable => theItems[j] # page[v])'
      BY <2>1, <2>2, <3>1 DEF PagesUnique, Writable
    <3> QED
      BY <3>2, <3>3, <3>4 DEF PagesUnique
  <2>4. PagesNeverLost'
    BY <2>1, <2>2, PageAssumption DEF StackInv, PagesNeverLost, Pages
  <2>5. PlacesExact'
    <3>1. CASE theItems[i] # 0
      <4>1. /\ i \in Readable /\ Readable' = Readable \ {i}
            /\ u \notin Holders /\ Holders' = Holders \cup {u}
        BY <2>1, <2>2, <3>1 DEF Readable, Holders, Writable
      <4>2. /\ Cardinality(Readable') = Cardinality(Readable) - 1
            /\ Cardinality(Holders') = Cardinality(Holders) + 1
        BY <4>1, StackFinite, FS_RemoveElement, FS_AddElement
      <4> QED
        BY <4>2, StackFinite, PageAssumption DEF StackInv, PlacesExact
    <3>2. CASE theItems[i] = 0
      <4>1. /\ i \notin Readable /\ Readable' = Readable \cup {i}
            /\ u \in Holders /\ Holders' = Holders \ {u}
        BY <2>1, <2>2, <3>2 DEF Readable, Holders, Writable
      <4>2. /\ Cardinality(Readable') = Cardinality(Readable) + 1
            /\ Cardinality(Holders') = Cardinality(Holders) - 1
        BY <4>1, StackFinite, FS_RemoveElement, FS_AddElement
      <4> QED
        BY <4>2, StackFinite, PageAssumption DEF StackInv, PlacesExact
    <3> QED
      BY <3>1, <3>2
  <2> QED
    BY <2>3, <2>4, <2>5
<1> QED
  BY <1>1, <1>2, MovesOnly

(* Each step keeps theSize exact.                                          *)
LEMMA SizeStep ==
    ASSUME StackInv, StackNext
    PROVE  SizeExact'
<1>1. PICK u \in Users : PopStart(u) \/ PushStart(u) \/ InPop(u) \/ InPush(u)
  BY DEF StackNext
<1>2. pc \in [Users -> PCs] /\ theSize = Capacity - Cardinality(Debtors)
  BY DEF StackInv, StackTypeOK, SizeExact
<1>3. CASE PopStart(u)
  <2>1. u \notin Debtors /\ Debtors' = Debtors \cup {u}
    BY <1>2, <1>3 DEF PopStart, Goes, Debtors
  <2>2. Cardinality(Debtors') = Cardinality(Debtors) + 1
    BY <2>1, StackFinite, FS_AddElement
  <2> QED
    BY <1>2, <1>3, <2>2, StackFinite, PageAssumption DEF PopStart, SizeExact
<1>4. CASE PopFail(u) \/ PushCount(u)
  <2>1. u \in Debtors /\ Debtors' = Debtors \ {u}
    BY <1>2, <1>4 DEF PopFail, PushCount, Goes, Debtors
  <2>2. Cardinality(Debtors') = Cardinality(Debtors) - 1
    BY <2>1, StackFinite, FS_RemoveElement
  <2> QED
    BY <1>2, <1>4, <2>2, StackFinite, PageAssumption
    DEF PopFail, PushCount, SizeExact
<1>5. CASE \/ PopTest(u) \/ PopRead(u) \/ PopTake(u) \/ PopSwap(u)
           \/ PopHint(u) \/ PushStart(u) \/ PushTest(u) \/ PushRead(u)
           \/ PushPut(u) \/ PushSwap(u) \/ PushHint(u)
  <2>1. pc[u] # "idle" /\ \E q \in PCs \ {"idle"} : Goes(u, q)
    BY <1>5
    DEF PopTest, PopRead, PopTake, PopSwap, PopHint, PushStart, PushTest,
        PushRead, PushPut, PushSwap, PushHint, PCs, PopSteps, PushSteps
  <2>2. Debtors' = Debtors
    BY <1>2, <2>1 DEF Goes, Debtors
  <2>3. theSize' = theSize
    BY <1>5
    DEF PopTest, PopRead, PopTake, PopSwap, PopHint, PushStart, PushTest,
        PushRead, PushPut, PushSwap, PushHint
  <2> QED
    BY <1>2, <2>2, <2>3 DEF SizeExact
<1> QED
  BY <1>1, <1>3, <1>4, <1>5 DEF InPop, InPush

(* Each step keeps the inductive invariant.                                *)
LEMMA StackInvStep == StackInv /\ [StackNext]_stackVars => StackInv'
<1> SUFFICES ASSUME StackInv, [StackNext]_stackVars PROVE StackInv'
  OBVIOUS
<1>1. CASE StackNext
  BY <1>1, TypesStep, PageStepsStep, PagesStep, SizeStep DEF StackInv
<1>2. CASE UNCHANGED stackVars
  BY <1>2
  DEF stackVars, StackInv, StackTypeOK, PageSteps, PagesUnique, PagesNeverLost,
      PlacesExact, SizeExact, Readable, Holders, Debtors
<1> QED
  BY <1>1, <1>2

(***************************************************************************)
(* For any capacity and any number of kids popping and pushing at once, no *)
(* page is handed out twice and none disappears.                           *)
(***************************************************************************)
THEOREM PagesSafe ==
    StackSpec => [](StackTypeOK /\ PagesUnique /\ PagesNeverLost)
<1>1. StackInv => StackTypeOK /\ PagesUnique /\ PagesNeverLost
  BY DEF StackInv
<1> QED
  BY <1>1, StackInitially, StackInvStep, PTL DEF StackSpec

(***************************************************************************)
(* Users that have a page are among those theSize was decremented for.     *)
(***************************************************************************)
LEMMA SizeBound ==
    ASSUME StackInv
    PROVE  SizeExact /\ SizeIsLowerBound
<1>1. Holders \in SUBSET Debtors
  BY DEF StackInv, PageSteps, Holders, Debtors
<1>2. Cardinality(Holders) <= Cardinality(Debtors)
  BY <1>1, StackFinite, FS_Subset
<1>3. theSize <= Cardinality(Readable)
  BY <1>2, StackFinite, PageAssumption DEF StackInv, SizeExact, PlacesExact
<1> QED
  BY <1>3 DEF StackInv, PageSteps, SizeIsLowerBound

(***************************************************************************)
(* size() is a lower bound for the number of free pages, is exact up to    *)
(* the calls in progress, and push() never throws.                         *)
(***************************************************************************)
THEOREM SizeSafe == StackSpec => [](SizeExact /\ SizeIsLowerBound)
<1>1. StackInv => SizeExact /\ SizeIsLowerBound
  BY SizeBound
<1> QED
  BY <1>1, StackInitially, StackInvStep, PTL DEF StackSpec

-----------------------------------------------------------------------------
(* The pool                                                                *)

(***************************************************************************)
(* The inductive invariant.  StagesAgree: where a user is in GetPage or    *)
(* PutPage says where it is in pop or push, and it keeps its purpose from  *)
(* GetPage to the end of PutPage.                                          *)
(***************************************************************************)
PoolTypeOK ==
    /\ theLevels \in [Purposes -> Int]
    /\ stage \in [Users -> Stages]
    /\ purpose \in [Users -> Purposes \cup {NoPurpose}]

StageAgrees(u) ==
    /\ stage[u] = "none" => pc[u] = "idle"
    /\ stage[u] = "get" => pc[u] \in {"idle"} \cup PopSteps
    /\ stage[u] \in {"got", "have"} => pc[u] = "using"
    /\ stage[u] = "put" => pc[u] \in PushSteps
    /\ stage[u] # "none" => purpose[u] \in Purposes

LevelsCount == \A p \in Purposes : theLevels[p] = Cardinality(UsersOf(p))

PoolInv ==
    /\ StackInv
    /\ PoolTypeOK
    /\ \A u \in Users : StageAgrees(u)
    /\ LevelsCount

(* A full stack and no page in use.                                        *)
LEMMA PoolInitially == PoolInit => PoolInv
<1> SUFFICES ASSUME PoolInit PROVE PoolInv
  OBVIOUS
<1>1. StackInv
  BY StackInitially DEF PoolInit
<1>2. PoolTypeOK
  BY DEF PoolInit, PoolTypeOK, Stages
<1>3. \A u \in Users : StageAgrees(u)
  BY DEF PoolInit, StackInit, StageAgrees
<1>4. \A p \in Purposes : UsersOf(p) = {}
  BY DEF PoolInit, UsersOf
<1>5. LevelsCount
  BY <1>4, FS_EmptySet DEF PoolInit, LevelsCount
<1> QED
  BY <1>1, <1>2, <1>3, <1>5 DEF PoolInv

PoolStep(u) ==
    \/ \E p \in Purposes : GetPage(u, p)
    \/ GetPop(u) \/ GetCount(u) \/ PutPage(u) \/ PutPush(u)

(***************************************************************************)
(* The pool touches its page stack only through pop and push.              *)
(***************************************************************************)
LEMMA StackStep ==
    ASSUME NEW u \in Users, PoolStep(u)
    PROVE  [StackNext]_stackVars
  BY DEF PoolStep, GetPage, GetPop, GetCount, PutPage, PutPush, StackNext

(* Each step keeps the pool's types and the stage that each user is at.    *)
LEMMA StagesStep ==
    ASSUME PoolInv, StackInv', NEW u \in Users, PoolStep(u)
    PROVE  PoolTypeOK' /\ \A v \in Users : StageAgrees(v)'
<1>0. /\ PoolTypeOK /\ \A v \in Users : StageAgrees(v)
      /\ pc \in [Users -> PCs] /\ pc' \in [Users -> PCs]
      /\ pc'[u] # "failed"
  BY DEF PoolInv, StackInv, StackTypeOK, PageSteps
<1> USE DEF PoolTypeOK, StageAgrees, Reaches, Forgets, Stages
<1>1. CASE \E p \in Purposes : GetPage(u, p)
  BY <1>0, <1>1 DEF GetPage, stackVars
<1>2. CASE GetPop(u)
  <2>1. /\ pc'[u] \in {"idle", "using"} \cup PopSteps
        /\ \A v \in Users \ {u} : pc'[v] = pc[v]
    BY <1>0, <1>2
    DEF GetPop, PopStart, InPop, PopTest, PopRead, PopTake, PopSwap,
        PopHint, PopFail, Goes, PopSteps
  <2> QED
    BY <1>0, <1>2, <2>1 DEF GetPop, PopSteps
<1>3. CASE GetCount(u)
  BY <1>0, <1>3 DEF GetCount, stackVars
<1>4. CASE PutPage(u)
  BY <1>0, <1>4 DEF PutPage, PushStart, Goes, PushSteps
<1>5. CASE PutPush(u)
  <2>1. /\ pc'[u] \in {"idle"} \cup PushSteps
        /\ \A v \in Users \ {u} : pc'[v] = pc[v]
    BY <1>0, <1>5
    DEF PutPush, InPush, PushTest, PushRead, PushPut, PushSwap,
        PushHint, PushCount, Goes, PushSteps
  <2> QED
    BY <1>0, <1>5, <2>1 DEF PutPush, PushSteps
<1> QED
  BY <1>1, <1>2, <1>3, <1>4, <1>5 DEF PoolStep

(***************************************************************************)
(* One user joins the set that a level counts when the level grows, and    *)
(* leaves it when the level shrinks.                                       *)
(***************************************************************************)
LEMMA LevelsStep ==
    ASSUME PoolInv, NEW u \in Users, PoolStep(u)
    PROVE  LevelsCount'
<1>0. PoolTypeOK /\ StageAgrees(u) /\ LevelsCount
  BY DEF PoolInv
<1>f. \A p \in Purposes : /\ IsFiniteSet(UsersOf(p))
                          /\ Cardinality(UsersOf(p)) \in Nat
  <2>1. \A p \in Purposes : UsersOf(p) \in SUBSET Users
    BY DEF UsersOf
  <2> QED
    BY <2>1, FS_Subset, FS_CardinalityType, PageAssumption
<1> USE DEF PoolTypeOK, LevelsCount
<1>1. CASE (\E p \in Purposes : GetPage(u, p)) \/ GetPop(u) \/ PutPush(u)
  <2>1. \A p \in Purposes : UsersOf(p)' = UsersOf(p)
    BY <1>0, <1>1 DEF GetPage, GetPop, PutPush, Reaches, Forgets, UsersOf
  <2> QED
    BY <1>0, <1>1, <2>1 DEF GetPage, GetPop, PutPush
<1>2. CASE GetCount(u)
  <2>1. PICK q \in Purposes : q = purpose[u]
    BY <1>0, <1>2 DEF GetCount, StageAgrees
  <2>2. /\ u \notin UsersOf(q)
        /\ UsersOf(q)' = UsersOf(q) \cup {u}
        /\ \A p \in Purposes \ {q} : UsersOf(p)' = UsersOf(p)
    BY <1>0, <1>2, <2>1 DEF GetCount, Reaches, UsersOf
  <2>3. Cardinality(UsersOf(q) \cup {u}) = Cardinality(UsersOf(q)) + 1
    BY <1>f, <2>2, FS_AddElement
  <2>4. \A p \in Purposes :
            theLevels'[p] = IF p = q THEN theLevels[p] + 1 ELSE theLevels[p]
    BY <1>0, <1>2, <2>1 DEF GetCount
  <2> QED
    BY <1>0, <2>2, <2>3, <2>4
<1>3. CASE PutPage(u)
  <2>1. PICK q \in Purposes : q = purpose[u]
    BY <1>0, <1>3 DEF PutPage, StageAgrees
  <2>2. /\ u \in UsersOf(q)
        /\ UsersOf(q)' = UsersOf(q) \ {u}
        /\ \A p \in Purposes \ {q} : UsersOf(p)' = UsersOf(p)
    BY <1>0, <1>3, <2>1 DEF PutPage, Reaches, UsersOf
  <2>3. Cardinality(UsersOf(q) \ {u}) = Cardinality(UsersOf(q)) - 1
    BY <1>f, <2>2, FS_RemoveElement
  <2>4. \A p \in Purposes :
            theLevels'[p] = IF p = q THEN theLevels[p] - 1 ELSE theLevels[p]
    BY <1>0, <1>3, <2>1 DEF PutPage
  <2> QED
    BY <1>0, <2>2, <2>3, <2>4
<1> QED
  BY <1>1, <1>2, <1>3 DEF PoolStep

(* Each step keeps the inductive invariant.                                *)
LEMMA PoolInvStep == PoolInv /\ [PoolNext]_poolVars => PoolInv'
<1>1. ASSUME PoolInv, NEW u \in Users, PoolStep(u)
      PROVE  PoolInv'
  <2>1. StackInv'
    BY <1>1, StackStep, StackInvStep DEF PoolInv
  <2> QED
    BY <1>1, <2>1, StagesStep, LevelsStep DEF PoolInv
<1>2. ASSUME PoolInv, UNCHANGED poolVars
      PROVE  PoolInv'
  <2>1. UNCHANGED stackVars /\ UNCHANGED <<theLevels, stage, purpose>>
    BY <1>2 DEF poolVars
  <2>2. StackInv'
    BY <1>2, <2>1, StackInvStep DEF PoolInv
  <2> QED
    BY <1>2, <2>1, <2>2
    DEF stackVars, PoolInv, PoolTypeOK, StageAgrees, LevelsCount, UsersOf
<1> QED
  BY <1>1, <1>2 DEF PoolNext, PoolStep

(* The inductive invariant always holds.                                   *)
LEMMA PoolAlways == PoolSpec => []PoolInv
  BY PoolInitially, PoolInvStep, PTL DEF PoolSpec

(***************************************************************************)
(* GetPage() and PutPage() of any number of kids: no page number is in two *)
(* places or in none, theSize never promises a free page that is not       *)
(* there, and the Must() of push() never throws.                           *)
(***************************************************************************)
THEOREM PoolPagesSafe ==
    PoolSpec => [](PagesUnique /\ PagesNeverLost /\ SizeIsLowerBound)
<1>1. PoolInv => PagesUnique /\ PagesNeverLost /\ SizeIsLowerBound
  BY SizeBound DEF PoolInv, StackInv
<1> QED
  BY <1>1, PoolAlways, PTL

(***************************************************************************)
(* Each level is the number of pages in use for its purpose, and together  *)
(* the levels never exceed what the page stack says is in use.             *)
(***************************************************************************)
THEOREM LevelsSafe == PoolSpec => []LevelsExact
<1>1. ASSUME PoolInv PROVE LevelsExact
  <2> DEFINE Using == UNION {UsersOf(p) : p \in Purposes}
  <2>1. Using \in SUBSET Debtors
    BY <1>1 DEF PoolInv, StageAgrees, UsersOf, Debtors
  <2>2. IsFiniteSet(Debtors) /\ Cardinality(Debtors) \in Nat
    BY StackFinite
  <2>3. /\ Cardinality(Using) \in Nat
        /\ Cardinality(Using) <= Cardinality(Debtors)
    BY <2>1, <2>2, FS_Subset, FS_CardinalityType
  <2>4. theSize = Capacity - Cardinality(Debtors)
    BY <1>1 DEF PoolInv, StackInv, SizeExact
  <2>5. Capacity - theSize >= Cardinality(Using)
    BY <2>2, <2>3, <2>4, PageAssumption
  <2> QED
    BY <1>1, <2>5 DEF PoolInv, LevelsCount, LevelsExact
<1> QED
  BY <1>1, PoolAlways, PTL

-----------------------------------------------------------------------------
(* The stack implements an allocator                                       *)

(* All pages are in the items of a full stack.                             *)
LEMMA AllocatorInitially ==
    ASSUME StackInit
    PROVE  Allocator!AllocatorInit
<1>1. Readable = Offsets
  BY PageAssumption DEF StackInit, Readable, Offsets, Writable
<1>2. \A i \in Offsets : theItems[i] = i + 1
  BY DEF StackInit
<1>3. ASSUME NEW p \in Pages PROVE p \in FreePages
  <2>1. p - 1 \in Offsets /\ (p - 1) + 1 = p
    BY PageAssumption DEF Pages, Offsets
  <2> QED
    BY <1>1, <1>2, <2>1 DEF FreePages
<1>4. FreePages \subseteq Pages
  BY <1>1, <1>2, PageAssumption DEF FreePages, Pages, Offsets
<1> QED
  BY <1>3, <1>4 DEF Allocator!AllocatorInit, StackInit

(***************************************************************************)
(* A page that changes places between an item and a user does so in the    *)
(* allocator too: that no other item has it (PagesUnique) is why it is no  *)
(* longer free when it is taken, and was not yet free when it is put.      *)
(***************************************************************************)
LEMMA AllocatorMove ==
    ASSUME StackInv, NEW u \in Users, Takes(u) \/ Puts(u)
    PROVE  Allocator!AllocatorNext
<1>1. PICK i \in Offsets :
          /\ theItems[i] = 0 <=> page[u] # 0
          /\ theItems' = [theItems EXCEPT ![i] = page[u]]
          /\ page' = [page EXCEPT ![u] = theItems[i]]
  BY MoveEffect
<1>2. /\ theItems \in [Offsets -> 0..Capacity]
      /\ page \in [Users -> 0..Capacity]
      /\ PagesUnique
  BY DEF StackInv, StackTypeOK
<1>3. CASE theItems[i] # 0
  <2> DEFINE p == theItems[i]
  <2>1. p \in Pages /\ page[u] = 0
    BY <1>1, <1>2, <1>3, PageAssumption DEF Pages
  <2>2. p \in FreePages
    BY <1>3 DEF FreePages, Readable, Writable
  <2>3. Readable' = Readable \ {i}
    BY <1>1, <1>2, <2>1 DEF Readable, Writable
  <2>4. FreePages' = FreePages \ {p}
    <3>1. \A j \in Readable' : theItems'[j] = theItems[j]
      BY <1>1, <1>2, <2>3 DEF Readable
    <3>2. \A j \in Readable \ {i} : theItems[j] # p
      BY <1>2, <1>3 DEF PagesUnique, Readable, Writable
    <3>3. FreePages' = {theItems[j] : j \in Readable \ {i}}
      BY <2>3, <3>1 DEF FreePages
    <3> QED
      BY <3>2, <3>3 DEF FreePages
  <2>5. Allocator!Allocate(u, p)
    BY <1>1, <2>1, <2>2, <2>4 DEF Allocator!Allocate
  <2> QED
    BY <2>1, <2>5 DEF Allocator!AllocatorNext
<1>4. CASE theItems[i] = 0
  <2>1. page[u] # 0
    BY <1>1, <1>4
  <2>2. page[u] \notin FreePages
    BY <1>2 DEF FreePages, PagesUnique, Readable
  <2>3. Readable' = Readable \cup {i} /\ i \notin Readable
    BY <1>1, <1>2, <1>4, <2>1 DEF Readable, Writable
  <2>4. FreePages' = FreePages \cup {page[u]}
    <3>1. \A j \in Readable : theItems'[j] = theItems[j]
      BY <1>1, <1>2, <2>3 DEF Readable
    <3>2. theItems'[i] = page[u]
      BY <1>1, <1>2
    <3> QED
      BY <2>3, <3>1, <3>2 DEF FreePages
  <2>5. Allocator!Release(u)
    BY <1>1, <1>4, <2>1, <2>2, <2>4 DEF Allocator!Release
  <2> QED
    BY <2>5 DEF Allocator!AllocatorNext
<1> QED
  BY <1>3, <1>4

(* Each step of the stack moves a page or leaves the allocator alone.      *)
LEMMA AllocatorStep ==
    ASSUME StackInv, [StackNext]_stackVars
    PROVE  [Allocator!AllocatorNext]_(Allocator!allocatorVars)
<1>1. CASE UNCHANGED <<theItems, page>>
  BY <1>1 DEF FreePages, Readable, Allocator!allocatorVars
<1>2. CASE UNCHANGED stackVars
  BY <1>1, <1>2 DEF stackVars
<1>3. CASE StackNext
  BY <1>1, <1>3, MovesOnly, AllocatorMove
<1> QED
  BY <1>2, <1>3

(***************************************************************************)
(* Used by any number of kids, directly or through a PagePool, the stack   *)
(* of free pages behaves like an allocator whose operations are atomic.    *)
(***************************************************************************)
THEOREM StackRefinesAllocator == StackSpec => ImplementsAllocator
<1>1. StackInv /\ [StackNext]_stackVars
          => [Allocator!AllocatorNext]_(Allocator!allocatorVars)
  BY AllocatorStep
<1>2. StackInit => Allocator!AllocatorInit
  BY AllocatorInitially
<1> QED
  BY <1>1, <1>2, StackInitially, StackInvStep, PTL
  DEF StackSpec, ImplementsAllocator, Allocator!AllocatorSpec

(***************************************************************************)
(* The purposes, levels and limits of PagePool do not change that: what    *)
(* GetPage() and PutPage() do to the pages is what the allocator does.     *)
(***************************************************************************)
THEOREM PoolRefinesAllocator == PoolSpec => ImplementsAllocator
<1>1. PoolNext => [StackNext]_stackVars
  BY StackStep DEF PoolNext, PoolStep
<1>2. UNCHANGED poolVars => UNCHANGED stackVars
  BY DEF poolVars
<1>3. PoolInit => StackInit
  BY DEF PoolInit
<1>4. PoolSpec => StackSpec
  BY <1>1, <1>2, <1>3, PTL DEF PoolSpec, StackSpec
<1> QED
  BY <1>4, StackRefinesAllocator, PTL
=============================================================================
