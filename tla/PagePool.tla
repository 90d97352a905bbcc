------------------------------ MODULE PagePool ------------------------------
(***************************************************************************)
(* Ipc::Mem::PagePool and the GetPage/PutPage functions of Ipc::Mem::Pages *)
(* (src/src/ipc/mem/PagePool.cc, Pages.cc, Pages.h): a PageStack whose     *)
(* users get pages for a purpose (memory cache or disk I/O), each purpose  *)
(* with a configured limit and a shared level.                             *)
(***************************************************************************)
EXTENDS PageStack

CONSTANTS Purposes, Limit,   \* Limit: [Purposes -> Nat], TheLimits
          NoPurpose,         \* PageId::maxPurpose: no page
          SizeWidth          \* bits of size_t (64 in the builds)

ASSUME PoolAssumption ==
    /\ Limit \in [Purposes -> Nat]
    /\ NoPurpose \notin Purposes
    /\ SizeWidth \in Nat

VARIABLES theLevels,   \* [Purposes -> Nat]: pages used now, Atomic::Word
          stage,       \* [Users -> Stages]
          purpose      \* [Users -> Purposes \cup {NoPurpose}]: PageId

poolVars == <<stackVars, theLevels, stage, purpose>>

(***************************************************************************)
(* none: has no page; get: in pop;     got: popped, not yet in theLevels;  *)
(* have: in theLevels; put: inside push, no longer in theLevels.           *)
(***************************************************************************)
Stages == {"none", "get", "got", "have", "put"}

PoolInit ==
    /\ StackInit
    /\ theLevels = [p \in Purposes |-> 0]
    /\ stage = [u \in Users |-> "none"]
    /\ purpose = [u \in Users |-> NoPurpose]

(* PageLimit(purpose) - PageLevel(purpose), both unsigned *)
PagesAvailable(p) == (Limit[p] - theLevels[p]) % (2 ^ SizeWidth)

Reaches(u, s) == stage' = [stage EXCEPT ![u] = s]

(* A PageId without a page is the default one. *)
Forgets(u) ==
    purpose' = [purpose EXCEPT ![u] = IF stage'[u] = "none" THEN NoPurpose
                                                            ELSE @]

GetPage(u, p) ==                \* PagesAvailable(purpose) > 0 ? get : false
    /\ stage[u] = "none"
    /\ PagesAvailable(p) > 0
    /\ purpose' = [purpose EXCEPT ![u] = p]
    /\ Reaches(u, "get")
    /\ UNCHANGED <<stackVars, theLevels>>

GetPop(u) ==                    \* pageIndex->pop(page)
    /\ stage[u] = "get"
    /\ PopStart(u) \/ InPop(u)
    /\ Reaches(u, IF pc'[u] = "using" THEN "got"
                  ELSE IF pc'[u] = "idle" THEN "none" ELSE "get")
    /\ Forgets(u)
    /\ UNCHANGED theLevels

GetCount(u) ==                  \* ++theLevels[purpose]; return true
    /\ stage[u] = "got"
    /\ theLevels' = [theLevels EXCEPT ![purpose[u]] = @ + 1]
    /\ Reaches(u, "have")
    /\ UNCHANGED <<stackVars, purpose>>

PutPageMutant(u) ==             \* forgets --theLevels
    /\ stage[u] = "have"
    /\ Reaches(u, "put")
    /\ PushStart(u)
    /\ UNCHANGED <<theLevels, purpose>>

PutPage(u) ==                   \* --theLevels[page.purpose], then push
    /\ stage[u] = "have"
    /\ theLevels' = [theLevels EXCEPT ![purpose[u]] = @ - 1]
    /\ Reaches(u, "put")
    /\ PushStart(u)
    /\ UNCHANGED purpose

PutPush(u) ==                   \* the rest of pageIndex->push(page)
    /\ stage[u] = "put"
    /\ InPush(u)
    /\ Reaches(u, IF pc'[u] = "idle" THEN "none" ELSE "put")
    /\ Forgets(u)
    /\ UNCHANGED theLevels

PoolNext ==
    \E u \in Users :
        \/ \E p \in Purposes : GetPage(u, p)
        \/ GetPop(u) \/ GetCount(u) \/ PutPage(u) \/ PutPush(u)

PoolSpec == PoolInit /\ [][PoolNext]_poolVars

(***************************************************************************)
(* Some kid that is inside GetPage or PutPage keeps running; which one,    *)
(* and whether the others run at all, is up to the operating system.       *)
(***************************************************************************)
InCall(u) == GetPop(u) \/ GetCount(u) \/ PutPush(u)

FairPoolSpec == PoolSpec /\ WF_poolVars(\E u \in Users : InCall(u))

-----------------------------------------------------------------------------
(* Properties *)

UsersOf(p) == {u \in Users : stage[u] = "have" /\ purpose[u] = p}

(***************************************************************************)
(* A level counts the users that finished GetPage() and have not called    *)
(* PutPage(): failed gets and interleaved gets and puts of other purposes  *)
(* leave no trace in it, so it cannot drift and close a purpose for good.  *)
(* The pool-wide level, capacity() - size(), is never below the sum of the *)
(* levels: users still in pop or already in push are counted there too.    *)
(***************************************************************************)
LevelsExact ==
    /\ \A p \in Purposes : theLevels[p] = Cardinality(UsersOf(p))
    /\ Capacity - theSize >= Cardinality(UNION {UsersOf(p) : p \in Purposes})

(***************************************************************************)
(* PageLimit(purpose) is "the total number of shared memory pages that can *)
(* be in use at any time for given purpose" (Pages.h).                     *)
(***************************************************************************)
LimitRespected == \A p \in Purposes : theLevels[p] <= Limit[p]
=============================================================================
