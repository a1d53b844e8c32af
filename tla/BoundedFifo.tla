----------------------------- MODULE BoundedFifo -----------------------------
(* What a receive ring promises: the items that arrived, in order, as long   *)
(* as no more than Capacity of them wait to be taken; later ones are lost.   *)
EXTENDS Naturals, Sequences

CONSTANTS Items, Capacity

VARIABLES
    queue,         \* items that arrived and were not yet taken
    got            \* the item the last take returned, "None" if it found none

Init == queue = <<>> /\ got = "None"

Arrive(x) ==
    /\ queue' = IF Len(queue) < Capacity THEN Append(queue, x) ELSE queue
    /\ UNCHANGED got

Take ==
    \/ queue # <<>> /\ got' = Head(queue) /\ queue' = Tail(queue)
    \/ queue = <<>> /\ got' = "None" /\ UNCHANGED queue

Next == Take \/ \E x \in Items : Arrive(x)

Spec == Init /\ [][Next]_<<queue, got>>
=============================================================================
