-------------------------------- MODULE Heap --------------------------------
(***************************************************************************)
(* The binary heap of katcp/heap.c, which holds the timers of the server.  *)
(* The heap is the array h_array, here a sequence that starts at 1; what   *)
(* it holds is compared by its key, for timers the time they are due.      *)
(* The caller changes the key of an entry in place and then has the heap   *)
(* put the entry right again.                                              *)
(***************************************************************************)
EXTENDS Integers, Sequences

\* cmp_heap_timers_katcp: strictly earlier.
Less(key, x, y) == key[x] < key[y]

Swapped(h, i, j) == [h EXCEPT ![i] = h[j], ![j] = h[i]]

\* A place in the heap, and what is in the heap when the entry is there.  An
\* entry moves up while it is less than its parent.
Risen(key, s) ==
    IF s.at > 1 /\ Less(key, s.heap[s.at], s.heap[s.at \div 2])
    THEN [heap |-> Swapped(s.heap, s.at, s.at \div 2), at |-> s.at \div 2] ELSE s

CascadeUp(key, h, from) ==
    LET up[n \in 0 .. Len(h)] == IF n = 0 THEN [heap |-> h, at |-> from] ELSE Risen(key, up[n - 1])
    IN  up[Len(h)].heap

\* The lesser child, the right one if neither is less.
LesserChild(key, h, i) ==
    IF 2 * i + 1 > Len(h) \/ Less(key, h[2 * i], h[2 * i + 1]) THEN 2 * i ELSE 2 * i + 1

\* An entry moves down while its lesser child is less than itself.
Sunk(key, s) ==
    LET child == LesserChild(key, s.heap, s.at)
    IN  IF 2 * s.at <= Len(s.heap) /\ Less(key, s.heap[child], s.heap[s.at])
        THEN [heap |-> Swapped(s.heap, child, s.at), at |-> child] ELSE s

CascadeDown(key, h, from) ==
    LET down[n \in 0 .. Len(h)] == IF n = 0 THEN [heap |-> h, at |-> from] ELSE Sunk(key, down[n - 1])
    IN  down[Len(h)].heap

AddToHeap(key, h, x) == CascadeUp(key, Append(h, x), Len(h) + 1)

\* The last entry takes the place of the first and moves down.
RemoveTopOfHeap(key, h) ==
    IF Len(h) <= 1 THEN << >>
    ELSE CascadeDown(key, SubSeq(Swapped(h, 1, Len(h)), 1, Len(h) - 1), 1)

\* The key of entry i has changed in either direction.
UpdateNodeOnHeap(key, h, i) == CascadeDown(key, CascadeUp(key, h, i), i)

\* No entry is less than its parent, so none is less than the first.
HeapOrdered(key, h) == \A i \in 2 .. Len(h) : ~Less(key, h[i], h[i \div 2])

=============================================================================
