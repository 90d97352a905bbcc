----------------------------- MODULE PageStack -----------------------------
(***************************************************************************)
(* Ipc::Mem::PageStack (src/src/ipc/mem/PageStack.cc): the lock-free       *)
(* container of free page numbers in a shared-memory pool.  Kids pop a     *)
(* page number before they use a page and push it back afterwards, without *)
(* locks: a stack slot changes by an atomic fetch-and-and or compare-and-  *)
(* swap, theSize by an atomic add, and the two indexes are only hints.     *)
(* Every access to a shared word is a step of its own.                     *)
(*                                                                         *)
(* A user is one PageId variable of some kid.                              *)
(***************************************************************************)
EXTENDS Integers, FiniteSets

CONSTANTS Users, Capacity

ASSUME PageAssumption ==
    /\ IsFiniteSet(Users)
    /\ Capacity \in Nat \ {0}

VARIABLES theSize,           \* lower bound for the number of free pages
          theLastReadable,   \* hint: index of the last readable item
          theFirstWritable,  \* hint: index of the first writable item
          theItems,          \* [Offsets -> 0..Capacity]
          pc,                \* [Users -> PCs]: where the user is
          page,              \* [Users -> 0..Capacity]: its PageId::number
          idx                \* [Users -> Offsets]: its local variable

stackVars == <<theSize, theLastReadable, theFirstWritable, theItems,
               pc, page, idx>>

Writable == 0
Offsets == 0..(Capacity - 1)
Pages == 1..Capacity

next(i) == (i + 1) % Capacity
prev(i) == (Capacity + i - 1) % Capacity

(***************************************************************************)
(* idle: no page and no call in progress; using: has a page.  failed is    *)
(* the exception of Must(false) at the end of push.                        *)
(***************************************************************************)
PopSteps == {"popTest", "popRead", "popTake", "popSwap", "popHint", "popFail"}
PushSteps == {"pushTest", "pushRead", "pushPut", "pushSwap", "pushHint",
              "pushCount"}
PCs == {"idle", "using", "failed"} \cup PopSteps \cup PushSteps

(* Types; the hints always are valid indexes of theItems. *)
StackTypeOK ==
    /\ theSize \in Int
    /\ theLastReadable \in Offsets
    /\ theFirstWritable \in Offsets
    /\ theItems \in [Offsets -> 0..Capacity]
    /\ pc \in [Users -> PCs]
    /\ page \in [Users -> 0..Capacity]
    /\ idx \in [Users -> Offsets]

StackInit ==                    \* initially, all pages are free
    /\ theSize = Capacity
    /\ theLastReadable = Capacity - 1
    /\ theFirstWritable = 0
    /\ theItems = [i \in Offsets |-> i + 1]
    /\ pc = [u \in Users |-> "idle"]
    /\ page = [u \in Users |-> 0]
    /\ idx = [u \in Users |-> 0]

Goes(u, p) == pc' = [pc EXCEPT ![u] = p]

-----------------------------------------------------------------------------
(* pop *)

PopStartMutant(u) ==            \* does not announce the page it takes
    /\ pc[u] = "idle"
    /\ Goes(u, "popTest")
    /\ UNCHANGED <<theSize, theLastReadable, theFirstWritable, theItems,
                   page, idx>>

PopStart(u) ==                  \* --theSize
    /\ pc[u] = "idle"
    /\ theSize' = theSize - 1
    /\ Goes(u, "popTest")
    /\ UNCHANGED <<theLastReadable, theFirstWritable, theItems, page, idx>>

PopTest(u) ==                   \* while (theSize >= 0)
    /\ pc[u] = "popTest"
    /\ Goes(u, IF theSize >= 0 THEN "popRead" ELSE "popFail")
    /\ UNCHANGED <<theSize, theLastReadable, theFirstWritable, theItems,
                   page, idx>>

PopRead(u) ==                   \* idx = theLastReadable
    /\ pc[u] = "popRead"
    /\ idx' = [idx EXCEPT ![u] = theLastReadable]
    /\ Goes(u, "popTake")
    /\ UNCHANGED <<theSize, theLastReadable, theFirstWritable, theItems, page>>

PopTakeMutant(u) ==             \* reads the item without marking it Writable
    /\ pc[u] = "popTake"
    /\ page' = [page EXCEPT ![u] = theItems[idx[u]]]
    /\ Goes(u, "popSwap")
    /\ UNCHANGED <<theSize, theLastReadable, theFirstWritable, theItems, idx>>

PopTake(u) ==                   \* theItems[idx].fetchAndAnd(0)
    /\ pc[u] = "popTake"
    /\ page' = [page EXCEPT ![u] = theItems[idx[u]]]
    /\ theItems' = [theItems EXCEPT ![idx[u]] = Writable]
    /\ Goes(u, "popSwap")
    /\ UNCHANGED <<theSize, theLastReadable, theFirstWritable, idx>>

PopSwapMutant(u) ==             \* leaves the hint where it was
    /\ pc[u] = "popSwap"
    /\ Goes(u, IF page[u] # Writable THEN "popHint" ELSE "popTest")
    /\ UNCHANGED <<theSize, theLastReadable, theFirstWritable, theItems,
                   page, idx>>

PopSwap(u) ==                   \* theLastReadable.swap_if(idx, prev(idx))
    /\ pc[u] = "popSwap"
    /\ theLastReadable' = IF theLastReadable = idx[u] THEN prev(idx[u])
                                                      ELSE theLastReadable
    /\ Goes(u, IF page[u] # Writable THEN "popHint" ELSE "popTest")
    /\ UNCHANGED <<theSize, theFirstWritable, theItems, page, idx>>

PopHint(u) ==                   \* theFirstWritable = idx; return true
    /\ pc[u] = "popHint"
    /\ theFirstWritable' = idx[u]
    /\ Goes(u, "using")
    /\ UNCHANGED <<theSize, theLastReadable, theItems, page, idx>>

PopFail(u) ==                   \* ++theSize; return false
    /\ pc[u] = "popFail"
    /\ theSize' = theSize + 1
    /\ Goes(u, "idle")
    /\ UNCHANGED <<theLastReadable, theFirstWritable, theItems, page, idx>>

-----------------------------------------------------------------------------
(* push *)

PushStart(u) ==                 \* called with a valid page
    /\ pc[u] = "using"
    /\ Goes(u, "pushTest")
    /\ UNCHANGED <<theSize, theLastReadable, theFirstWritable, theItems,
                   page, idx>>

PushTest(u) ==                  \* while (theSize < theCapacity)
    /\ pc[u] = "pushTest"
    /\ Goes(u, IF theSize < Capacity THEN "pushRead" ELSE "failed")
    /\ UNCHANGED <<theSize, theLastReadable, theFirstWritable, theItems,
                   page, idx>>

PushRead(u) ==                  \* idx = theFirstWritable
    /\ pc[u] = "pushRead"
    /\ idx' = [idx EXCEPT ![u] = theFirstWritable]
    /\ Goes(u, "pushPut")
    /\ UNCHANGED <<theSize, theLastReadable, theFirstWritable, theItems, page>>

PushPutMutant(u) ==             \* writes the item without testing it
    /\ pc[u] = "pushPut"
    /\ theItems' = [theItems EXCEPT ![idx[u]] = page[u]]
    /\ page' = [page EXCEPT ![u] = 0]
    /\ Goes(u, "pushSwap")
    /\ UNCHANGED <<theSize, theLastReadable, theFirstWritable, idx>>

PushPut(u) ==                   \* theItems[idx].swap_if(Writable, page.number)
    /\ pc[u] = "pushPut"
    /\ \/ /\ theItems[idx[u]] = Writable
          /\ theItems' = [theItems EXCEPT ![idx[u]] = page[u]]
          /\ page' = [page EXCEPT ![u] = 0]
       \/ /\ theItems[idx[u]] # Writable
          /\ UNCHANGED <<theItems, page>>
    /\ Goes(u, "pushSwap")
    /\ UNCHANGED <<theSize, theLastReadable, theFirstWritable, idx>>

PushSwap(u) ==                  \* theFirstWritable.swap_if(idx, next(idx))
    /\ pc[u] = "pushSwap"
    /\ theFirstWritable' = IF theFirstWritable = idx[u] THEN next(idx[u])
                                                        ELSE theFirstWritable
    /\ Goes(u, IF page[u] = 0 THEN "pushHint" ELSE "pushTest")
    /\ UNCHANGED <<theSize, theLastReadable, theItems, page, idx>>

PushHint(u) ==                  \* theLastReadable = idx
    /\ pc[u] = "pushHint"
    /\ theLastReadable' = idx[u]
    /\ Goes(u, "pushCount")
    /\ UNCHANGED <<theSize, theFirstWritable, theItems, page, idx>>

PushCount(u) ==                 \* ++theSize; page = PageId()
    /\ pc[u] = "pushCount"
    /\ theSize' = theSize + 1
    /\ Goes(u, "idle")
    /\ UNCHANGED <<theLastReadable, theFirstWritable, theItems, page, idx>>

-----------------------------------------------------------------------------
InPop(u) ==
    \/ PopTest(u) \/ PopRead(u) \/ PopTake(u) \/ PopSwap(u)
    \/ PopHint(u) \/ PopFail(u)

InPush(u) ==
    \/ PushTest(u) \/ PushRead(u) \/ PushPut(u) \/ PushSwap(u)
    \/ PushHint(u) \/ PushCount(u)

StackNext ==
    \E u \in Users : PopStart(u) \/ PushStart(u) \/ InPop(u) \/ InPush(u)

StackSpec == StackInit /\ [][StackNext]_stackVars

(***************************************************************************)
(* Some kid that is inside pop or push keeps running; which one, and       *)
(* whether the others run at all, is up to the operating system.  A kid    *)
(* may keep its page, and need never ask for one.                          *)
(***************************************************************************)
StackFairness == WF_stackVars(\E u \in Users : InPop(u) \/ InPush(u))

FairStackSpec == StackSpec /\ StackFairness

-----------------------------------------------------------------------------
(* Properties *)

(***************************************************************************)
(* No two places have the same page number, be they stack items or users:  *)
(* a page never backs two cache entries or I/O requests at once.           *)
(***************************************************************************)
PagesUnique ==
    /\ \A i, j \in Offsets :
          (i # j /\ theItems[i] # Writable) => theItems[i] # theItems[j]
    /\ \A u, v \in Users : (u # v /\ page[u] # 0) => page[u] # page[v]
    /\ \A i \in Offsets, u \in Users :
          theItems[i] # Writable => theItems[i] # page[u]

(***************************************************************************)
(* Page numbers "can be temporary unavailable as long as they are never    *)
(* trully lost" (PageStack.h): each is in a stack item or with a user.     *)
(***************************************************************************)
PagesNeverLost ==
    \A p \in Pages : \/ \E i \in Offsets : theItems[i] = p
                     \/ \E u \in Users : page[u] = p

(***************************************************************************)
(* size() is a "lower bound for the number of free pages" and the Must()   *)
(* at the end of push ("the number of pages cannot exceed theCapacity")    *)
(* never throws, although every user adjusts theSize at another time than  *)
(* it takes or puts the page.                                              *)
(***************************************************************************)
Readable == {i \in Offsets : theItems[i] # Writable}

SizeIsLowerBound ==
    /\ theSize <= Cardinality(Readable)
    /\ \A u \in Users : pc[u] # "failed"

(***************************************************************************)
(* Who theSize has been decremented for: its inductive form.               *)
(***************************************************************************)
Debtors == {u \in Users : pc[u] # "idle"}

SizeExact == theSize = Capacity - Cardinality(Debtors)

(***************************************************************************)
(* The stack, with its hints, its separate counter and searches of several *)
(* steps, implements an allocator that gives and takes pages in one step:  *)
(* pop's fetchAndAnd of an item that is not Writable, and push's           *)
(* successful swap_if.                                                     *)
(***************************************************************************)
FreePages == {theItems[i] : i \in Readable}

Allocator == INSTANCE PageAllocator WITH NoPage <- 0, free <- FreePages,
                                         owned <- page

ImplementsAllocator == Allocator!AllocatorSpec

(***************************************************************************)
(* The searches of pop and push ("report suspiciously long loops") end:    *)
(* the container is lock-free, that is, as long as somebody is inside pop  *)
(* or push, somebody completes one, however the steps are scheduled.       *)
(***************************************************************************)
InMethod(u) == pc[u] \in PopSteps \cup PushSteps

SomeoneCompletes == \E u \in Users : InMethod(u) /\ ~InMethod(u)'

SearchesEnd ==
    ([]<>(\E u \in Users : InMethod(u))) => []<><<SomeoneCompletes>>_stackVars
=============================================================================
