----------------------------- MODULE ParseQueue -----------------------------
(***************************************************************************)
(* The queue of parsed messages of katcp/queue.c and the reference counts  *)
(* of the messages (struct katcl_parse, katcp/parse.c) that it shares with *)
(* its users.  Output lines and notices keep their messages in such a      *)
(* queue.  A message is queued by reference, so it may sit in the queue    *)
(* several times and be held elsewhere too.                                *)
(***************************************************************************)
EXTENDS Ring, FiniteSets

CONSTANT
    MaxHeld    \* bound: references to a message held outside the queue

ASSUME QueueAssumption == MaxHeld \in Nat \ {0}

Parses == Data   \* the message structures that can be allocated

VARIABLES
    q,         \* the ring, see module Ring
    p_refs,    \* reference count of every message
    p_state,   \* "free" (not allocated), "fresh" (being filled) or "done"
    held       \* references owned by the users of the queue

pvars == <<p_refs, p_state, held>>
vars  == <<q, pvars>>

Init ==
    /\ q = EmptyRing
    /\ p_refs = [p \in Parses |-> 0]
    /\ p_state = [p \in Parses |-> "free"]
    /\ held = [p \in Parses |-> 0]

-----------------------------------------------------------------------------
(***************************************************************************)
(* Messages: create_referenced_parse_katcl, copy_parse_katcl,              *)
(* destroy_parse_katcl and reuse_parse_katcl.                              *)
(***************************************************************************)

CreateParse(p) ==
    /\ p_state[p] = "free"
    /\ p_state' = [p_state EXCEPT ![p] = "fresh"]
    /\ p_refs' = [p_refs EXCEPT ![p] = 1]
    /\ held' = [held EXCEPT ![p] = 1]
    /\ UNCHANGED q

\* The last field is added, or the terminating newline parsed.
FinishParse(p) ==
    /\ p_state[p] = "fresh"
    /\ p_state' = [p_state EXCEPT ![p] = "done"]
    /\ UNCHANGED <<q, p_refs, held>>

\* Only a complete message can be shared.
CopyParse(p) ==
    /\ p_state[p] = "done"
    /\ held[p] \in 1 .. MaxHeld - 1
    /\ p_refs' = [p_refs EXCEPT ![p] = @ + 1]
    /\ held' = [held EXCEPT ![p] = @ + 1]
    /\ UNCHANGED <<q, p_state>>

\* A reference is given up; the last one frees the message.
DestroyParse(p) ==
    /\ held[p] > 0
    /\ p_refs' = [p_refs EXCEPT ![p] = @ - 1]
    /\ p_state' = IF p_refs[p] > 1 THEN p_state
                                   ELSE [p_state EXCEPT ![p] = "free"]
    /\ held' = [held EXCEPT ![p] = @ - 1]
    /\ UNCHANGED q

\* Mutant: a message is cleared although it is shared.
ReuseParseShared(p) ==
    /\ held[p] > 0
    /\ p_state' = [p_state EXCEPT ![p] = "fresh"]
    /\ UNCHANGED <<q, p_refs, held>>

\* A message nobody else refers to is cleared in place and filled again.
ReuseParse(p) ==
    /\ held[p] > 0
    /\ p_refs[p] <= 1
    /\ p_state' = [p_state EXCEPT ![p] = "fresh"]
    /\ UNCHANGED <<q, p_refs, held>>

\* Otherwise the caller gets a new one, px, and gives up its reference to p.
ReuseOther(p, px) ==
    /\ held[p] > 0
    /\ p_refs[p] > 1
    /\ p_state[px] = "free"
    /\ p_refs' = [p_refs EXCEPT ![p] = @ - 1, ![px] = 1]
    /\ held' = [held EXCEPT ![p] = @ - 1, ![px] = 1]
    /\ p_state' = [p_state EXCEPT ![px] = "fresh"]
    /\ UNCHANGED q

-----------------------------------------------------------------------------
(***************************************************************************)
(* The queue: add_tail_queue_katcl, remove_head_queue_katcl and            *)
(* clear_queue_katcl.  Its users queue complete messages only.             *)
(***************************************************************************)

\* Mutant: the reference of the queue is not counted.
QueueAddTailUncounted(p) ==
    /\ held[p] > 0
    /\ p_state[p] = "done"
    /\ ~Full(q) \/ q.size < MaxSize
    /\ q' = AddTail(q, p)
    /\ UNCHANGED <<p_refs, p_state, held>>

\* The queue takes a reference of its own.
QueueAddTail(p) ==
    /\ held[p] > 0
    /\ p_state[p] = "done"
    /\ ~Full(q) \/ q.size < MaxSize
    /\ q' = AddTail(q, p)
    /\ p_refs' = [p_refs EXCEPT ![p] = @ + 1]
    /\ UNCHANGED <<p_state, held>>

\* The reference of the queue passes to the caller.
QueueRemoveHead ==
    /\ q.count > 0
    /\ held[q.slot[q.head]] < MaxHeld
    /\ held' = [held EXCEPT ![q.slot[q.head]] = @ + 1]
    /\ q' = RemoveHead(q)
    /\ UNCHANGED <<p_refs, p_state>>

\* Number of times x occurs in the sequence s.
Occurrences(s, x) == Cardinality({k \in 1 .. Len(s) : s[k] = x})

\* Number of times p is queued.
Queued(p) == Occurrences(Items(q), p)

\* destroy_parse_katcl for every queued message.
DestroyQueued ==
    /\ p_refs' = [p \in Parses |-> p_refs[p] - Queued(p)]
    /\ p_state' = [p \in Parses |->
                     IF Queued(p) > 0 /\ p_refs[p] <= Queued(p)
                     THEN "free" ELSE p_state[p]]
    /\ UNCHANGED held

QueueClear ==
    /\ q.count > 0
    /\ DestroyQueued
    /\ q' = Cleared(q)

\* destroy_queue_katcl, and create_queue_katcl for the next user.
QueueDestroy ==
    /\ q.size > 0
    /\ DestroyQueued
    /\ q' = EmptyRing

-----------------------------------------------------------------------------
ParseNext ==
    \/ \E p \in Parses : \/ CreateParse(p)  \/ FinishParse(p)
                         \/ CopyParse(p)    \/ DestroyParse(p)
                         \/ ReuseParse(p)
    \/ \E p, px \in Parses : ReuseOther(p, px)

QueueNext ==
    \/ \E p \in Parses : QueueAddTail(p)
    \/ QueueRemoveHead
    \/ QueueClear
    \/ QueueDestroy

Next == ParseNext \/ QueueNext

Spec == Init /\ [][Next]_vars

-----------------------------------------------------------------------------
(* Properties *)

\* Every variable holds a value of its type; the ring never outgrows the
\* memory available and its head is one of its slots.
TypeOK ==
    /\ IsRing(q)
    /\ q.size <= MaxSize
    /\ p_refs \in [Parses -> Nat]
    /\ p_state \in [Parses -> {"free", "fresh", "done"}]
    /\ held \in [Parses -> 0 .. MaxHeld]

\* add_tail_queue_katcl and remove_index_queue_katcl keep the messages in the
\* slots that follow the head, across the wrap and while the ring grows: the
\* slots in use are exactly the ones that hold a message, so that removing
\* the head never meets the "already null" consistency check.
RingShape == InShape(q)

\* Every reference that copy_parse_katcl counted is accounted for, by a queue
\* entry or by a user: none leaks and none is given up twice.
RefsExact == \A p \in Parses : p_refs[p] = held[p] + Queued(p)

\* destroy_parse_katcl frees a message with the last reference to it, not
\* before, and nothing is left of it to be referred to afterwards.
FreedLast == \A p \in Parses : p_state[p] = "free" <=> p_refs[p] = 0

\* A message in the queue is complete: it is neither freed by
\* destroy_parse_katcl nor cleared by reuse_parse_katcl while it is queued,
\* however many users share it.
QueuedIntact ==
    \A k \in 1 .. q.count : p_state[Items(q)[k]] = "done"

Queue == INSTANCE Fifo WITH items <- Items(q)

\* The ring of katcp/queue.c behaves as a first-in first-out queue: growing
\* and rotating it neither reorders, loses nor duplicates a message.
FifoSpec == Queue!Spec

=============================================================================
