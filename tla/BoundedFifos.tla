---------------------------- MODULE BoundedFifos ----------------------------
(***************************************************************************)
(* What the OneToOneUniQueues to one reader promise to the diskers and the *)
(* workers: a bounded FIFO from every writer.  push() appends an item at   *)
(* once or throws Full, pop() takes the oldest item at once or finds none; *)
(* a failed attempt is a stuttering step here.                             *)
(***************************************************************************)
EXTENDS Naturals, Sequences

CONSTANTS Writers, Capacity, MaxPushes

VARIABLES sent,        \* [Writers -> Nat]: the last item pushed
          queue,       \* [Writers -> Seq(Nat)]: pushed and not popped
          received     \* [Writers -> Nat]: the last item popped

fifoVars == <<sent, queue, received>>

FifoInit ==
    /\ sent = [w \in Writers |-> 0]
    /\ queue = [w \in Writers |-> <<>>]
    /\ received = [w \in Writers |-> 0]

Push(w) ==
    /\ sent[w] < MaxPushes
    /\ Len(queue[w]) < Capacity
    /\ sent' = [sent EXCEPT ![w] = @ + 1]
    /\ queue' = [queue EXCEPT ![w] = Append(@, sent[w] + 1)]
    /\ UNCHANGED received

Pop(w) ==
    /\ queue[w] # <<>>
    /\ received' = [received EXCEPT ![w] = Head(queue[w])]
    /\ queue' = [queue EXCEPT ![w] = Tail(@)]
    /\ UNCHANGED sent

FifoNext == \E w \in Writers : Push(w) \/ Pop(w)

FifoSpec == FifoInit /\ [][FifoNext]_fifoVars
=============================================================================
