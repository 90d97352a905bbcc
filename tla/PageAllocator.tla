--------------------------- MODULE PageAllocator ---------------------------
(***************************************************************************)
(* What Ipc::Mem::PageStack promises to the memory cache and to IpcIoFile: *)
(* pages that are either free or owned by one PageId.  pop() gives any     *)
(* free page to a user that has none, at once; push() takes a page back at *)
(* once.  A pop() that finds nothing is a stuttering step here.            *)
(***************************************************************************)
CONSTANTS Users, Pages, NoPage

VARIABLES free,        \* SUBSET Pages: the pages that nobody owns
          owned        \* [Users -> Pages \cup {NoPage}]: the page of a user

allocatorVars == <<free, owned>>

AllocatorInit ==
    /\ free = Pages
    /\ owned = [u \in Users |-> NoPage]

Allocate(u, p) ==
    /\ owned[u] = NoPage
    /\ p \in free
    /\ free' = free \ {p}
    /\ owned' = [owned EXCEPT ![u] = p]

Release(u) ==
    /\ owned[u] # NoPage
    /\ owned[u] \notin free
    /\ free' = free \cup {owned[u]}
    /\ owned' = [owned EXCEPT ![u] = NoPage]

AllocatorNext ==
    \E u \in Users : Release(u) \/ \E p \in Pages : Allocate(u, p)

AllocatorSpec == AllocatorInit /\ [][AllocatorNext]_allocatorVars
=============================================================================
