-------------------------------- MODULE Ring --------------------------------
(***************************************************************************)
(* The ring buffer of the katcp library.  The same code appears three      *)
(* times: in katcp/queue.c (parsed messages), in katcp/generic-queue.c     *)
(* (endpoint messages, deferred commands) and in katcp/job.c (notices      *)
(* waiting for a reply).                                                   *)
(*                                                                         *)
(* A ring has size slots, of which the count slots that follow head (and   *)
(* wrap around at the end) hold the entries.  It grows by one slot each    *)
(* time an entry is added to a full ring; the part of the ring before the  *)
(* head has to be rotated into the new slot then.                          *)
(***************************************************************************)
EXTENDS Integers, Sequences

CONSTANTS
    Data,      \* the entries (pointers)
    NULL,      \* an empty slot
    MaxSize    \* realloc() fails for a ring of more than MaxSize slots

ASSUME RingAssumption == NULL \notin Data /\ MaxSize \in Nat

MakeRing(slot, head, count, size) ==
    [slot |-> slot, head |-> head, count |-> count, size |-> size]

EmptyRing == MakeRing(<< >>, 0, 0, 0)

\* The slot of the k-th entry, counting from 0.
SlotOf(r, k) == (r.head + k) % r.size

Slots(r) == 0 .. r.size - 1

\* The slots in use.
Window(r) == {SlotOf(r, k) : k \in 0 .. r.count - 1}

\* The entries in the order of their arrival.
Items(r) == [k \in 1 .. r.count |-> r.slot[SlotOf(r, k - 1)]]

Full(r) == r.count >= r.size

\* Mutant: the first slot moves, the others before the head do not follow.
GrownUnmoved(r) ==
    MakeRing([i \in 0 .. r.size |->
                IF i = r.size THEN IF r.head > 0 THEN r.slot[0] ELSE NULL
                ELSE r.slot[i]],
             r.head, r.count, r.size + 1)

\* The ring after realloc() has added a slot.  Slots 0 .. head - 1 hold the
\* end of the queue: the first moves to the new slot, the others move down.
Grown(r) ==
    MakeRing([i \in 0 .. r.size |->
                IF i = r.size THEN IF r.head > 0 THEN r.slot[0] ELSE NULL
                ELSE IF i < r.head - 1 THEN r.slot[i + 1]
                ELSE IF i = r.head - 1 THEN NULL
                ELSE r.slot[i]],
             r.head, r.count, r.size + 1)

\* A new entry is stored in the slot after the last one.
Stored(r, x) ==
    MakeRing([r.slot EXCEPT ![SlotOf(r, r.count)] = x],
             r.head, r.count + 1, r.size)

AddTail(r, x) == IF Full(r) THEN Stored(Grown(r), x) ELSE Stored(r, x)

RemoveHead(r) ==
    MakeRing([r.slot EXCEPT ![r.head] = NULL],
             (r.head + 1) % r.size, r.count - 1, r.size)

\* Removal from the middle: the entries between the head and the gap move
\* up one slot if the gap lies after the head, and the head with them; else
\* the gap is in the part that has wrapped around, and the end moves down.
End(r) == (r.head + r.count - 1) % r.size

\* Mutant: the gap is filled with the oldest entry, out of turn.
RemoveAheadSwapped(r, index) ==
    MakeRing([r.slot EXCEPT ![r.head] = NULL, ![index] = r.slot[r.head]],
             (r.head + 1) % r.size, r.count - 1, r.size)

RemoveAhead(r, index) ==
    MakeRing([i \in Slots(r) |->
                IF i = r.head THEN NULL
                ELSE IF i \in r.head + 1 .. index THEN r.slot[i - 1]
                ELSE r.slot[i]],
             (r.head + 1) % r.size, r.count - 1, r.size)

RemoveBehind(r, index) ==
    MakeRing([i \in Slots(r) |->
                IF i = End(r) THEN NULL
                ELSE IF i \in index .. End(r) - 1 THEN r.slot[i + 1]
                ELSE r.slot[i]],
             r.head, r.count - 1, r.size)

RemoveIndex(r, index) ==
    IF index = r.head THEN RemoveHead(r)
    ELSE IF index > r.head THEN RemoveAhead(r, index)
    ELSE RemoveBehind(r, index)

Cleared(r) ==
    MakeRing([i \in Slots(r) |-> IF i \in Window(r) THEN NULL ELSE r.slot[i]],
             r.head, 0, r.size)

-----------------------------------------------------------------------------
\* The type of a ring.
IsRing(r) ==
    /\ r.size \in Nat
    /\ r.head \in IF r.size = 0 THEN {0} ELSE Slots(r)
    /\ r.count \in 0 .. r.size
    /\ r.slot \in [Slots(r) -> Data \cup {NULL}]

\* What dump_queue_parse_katcp looks for: the slots of the window are in use
\* ("error: null field") and all the others are empty ("error: used field").
InShape(r) == \A i \in Slots(r) : r.slot[i] # NULL <=> i \in Window(r)

=============================================================================
