-------------------------------- MODULE Fifo --------------------------------
(***************************************************************************)
(* What the message queues of the katcp library promise their users:       *)
(* entries leave in the order in which they arrived, none is duplicated    *)
(* and none is lost.  Spec is the queue whose oldest entry leaves first,   *)
(* or whose entries are dropped all at once (katcp/queue.c); SpecAny also  *)
(* lets an entry leave from the middle, which must not disturb the order   *)
(* of the others (katcp/generic-queue.c).                                  *)
(***************************************************************************)
EXTENDS Integers, Sequences

CONSTANT Data

VARIABLE items   \* the entries waiting, oldest first

Init == items = << >>

Add(x) == items' = Append(items, x)

\* The entry at position k leaves, all others keep their order.
Take(k) ==
    items' = [i \in 1 .. Len(items) - 1 |->
                 IF i < k THEN items[i] ELSE items[i + 1]]

Drop == items' = << >>

Next ==
    \/ \E x \in Data : Add(x)
    \/ items # << >> /\ Take(1)
    \/ Drop

NextAny ==
    \/ Next
    \/ \E k \in 1 .. Len(items) : Take(k)

Spec    == Init /\ [][Next]_items
SpecAny == Init /\ [][NextAny]_items

=============================================================================
