------------------------------ MODULE SlotCache ------------------------------
(***************************************************************************)
(* What Ipc::StoreMap promises to MemStore and to the Rock store: a cache  *)
(* with one slot for all the keys that hash to it.  An entry is created by *)
(* one user, becomes whole, is opened by any number of users and removed   *)
(* when nobody has it open; a slot that is marked lets nobody open its     *)
(* entry.  Each operation is one step, and one that fails is a stuttering  *)
(* step.  A slot remembers its last entry, and the rebuild of a Rock store *)
(* may bring it back.                                                      *)
(***************************************************************************)
EXTENDS Naturals

CONSTANTS Users, Keys, Slots, SlotOf, NoKey

VARIABLES content,     \* [Slots -> entries]
          marked,      \* [Slots -> BOOLEAN]: the slot is to be freed
          reading,     \* [Users -> entries]: what the user has open
          writing,     \* [Users -> entries]: what the user is filling
          made,        \* how many entries were created or restored
          left         \* [Slots -> entries]: what the slot last held

cacheVars == <<content, marked, reading, writing, made, left>>

Entry(v, k, whole) == [ver |-> v, key |-> k, whole |-> whole]
Nothing == Entry(0, NoKey, FALSE)

CacheInit ==
    /\ content = [s \in Slots |-> Nothing]
    /\ marked = [s \in Slots |-> FALSE]
    /\ reading = [u \in Users |-> Nothing]
    /\ writing = [u \in Users |-> Nothing]
    /\ made = 0
    /\ left = [s \in Slots |-> Entry(0, NoKey, TRUE)]

Free(u) == reading[u] = Nothing /\ writing[u] = Nothing

Open(u, k) ==
    /\ Free(u)
    /\ ~marked[SlotOf[k]]
    /\ content[SlotOf[k]].whole
    /\ content[SlotOf[k]].key = k
    /\ reading' = [reading EXCEPT ![u] = content[SlotOf[k]]]
    /\ UNCHANGED <<content, marked, writing, made, left>>

Close(u) ==
    /\ reading[u] # Nothing
    /\ reading' = [reading EXCEPT ![u] = Nothing]
    /\ UNCHANGED <<content, marked, writing, made, left>>

Create(u, k) ==
    LET e == Entry(made + 1, k, FALSE)
    IN  /\ Free(u)
        /\ content[SlotOf[k]] = Nothing
        /\ content' = [content EXCEPT ![SlotOf[k]] = e]
        /\ writing' = [writing EXCEPT ![u] = e]
        /\ made' = made + 1
        /\ left' = [left EXCEPT ![SlotOf[k]] = Entry(made + 1, k, TRUE)]
        /\ UNCHANGED <<marked, reading>>

(* The entry is whole; its writer keeps it open for reading, or not. *)
Publish(u, keeps) ==
    LET e == Entry(writing[u].ver, writing[u].key, TRUE)
    IN  /\ writing[u] # Nothing
        /\ content' = [content EXCEPT ![SlotOf[e.key]] = e]
        /\ writing' = [writing EXCEPT ![u] = Nothing]
        /\ reading' = [reading EXCEPT ![u] = IF keeps THEN e ELSE Nothing]
        /\ UNCHANGED <<marked, made, left>>

Abort(u) ==
    LET s == SlotOf[writing[u].key]
    IN  /\ writing[u] # Nothing
        /\ content' = [content EXCEPT ![s] = Nothing]
        /\ marked' = [marked EXCEPT ![s] = FALSE]
        /\ writing' = [writing EXCEPT ![u] = Nothing]
        /\ UNCHANGED <<reading, made, left>>

Remove(s) ==
    /\ content[s].whole
    /\ \A u \in Users : reading[u] # content[s]
    /\ content' = [content EXCEPT ![s] = Nothing]
    /\ marked' = [marked EXCEPT ![s] = FALSE]
    /\ UNCHANGED <<reading, writing, made, left>>

Restore(s) ==
    /\ content[s] = Nothing
    /\ content' = [content EXCEPT ![s] = left[s]]
    /\ made' = made + 1
    /\ UNCHANGED <<marked, reading, writing, left>>

(* Any slot may be marked; a mark goes with the entry, or from an empty    *)
(* slot.                                                                   *)
Mark(s) ==
    /\ marked' = [marked EXCEPT ![s] = TRUE]
    /\ UNCHANGED <<content, reading, writing, made, left>>

Unmark(s) ==
    /\ content[s] = Nothing
    /\ marked' = [marked EXCEPT ![s] = FALSE]
    /\ UNCHANGED <<content, reading, writing, made, left>>

CacheNext ==
    \/ \E u \in Users :
          \/ \E k \in Keys : Open(u, k) \/ Create(u, k)
          \/ Close(u) \/ Abort(u)
          \/ \E keeps \in BOOLEAN : Publish(u, keeps)
    \/ \E s \in Slots : Remove(s) \/ Restore(s) \/ Mark(s) \/ Unmark(s)

CacheSpec == CacheInit /\ [][CacheNext]_cacheVars
=============================================================================
