-------- MODULE BoundedFifo --------
(***************************************************************************)
(* What the matching engine expects of each of its two ring buffers: a     *)
(* first-in first-out queue of bounded length between one producer and one *)
(* consumer, whose remaining items are discarded, and not leaked, once     *)
(* both of its ends are gone.  SpscRingBuffer implements it.               *)
(***************************************************************************)
EXTENDS Naturals, Sequences

CONSTANTS Items, Capacity

VARIABLES
    queue,      \* the items pushed and not yet popped, oldest first
    delivered,  \* every item popped so far, in order
    discarded   \* the items destroyed with the queue

vars == <<queue, delivered, discarded>>

Init ==
    /\ queue = <<>>
    /\ delivered = <<>>
    /\ discarded = <<>>

Push(item) ==
    /\ Len(queue) < Capacity
    /\ queue' = Append(queue, item)
    /\ UNCHANGED <<delivered, discarded>>

Pop ==
    /\ queue # <<>>
    /\ queue' = Tail(queue)
    /\ delivered' = Append(delivered, Head(queue))
    /\ UNCHANGED discarded

Destroy ==
    /\ queue # <<>>
    /\ queue' = <<>>
    /\ discarded' = queue
    /\ UNCHANGED delivered

Next == (\E item \in Items : Push(item)) \/ Pop \/ Destroy

Spec == Init /\ [][Next]_vars
====================
