------------------------------- MODULE Gueue --------------------------------
(***************************************************************************)
(* The generic queue of katcp/generic-queue.c.  Endpoints keep their       *)
(* messages in one, duplex connections the requests of a client that has   *)
(* not waited for its previous reply.  Unlike the queue of katcp/queue.c,  *)
(* it is used to take entries out of the middle.                           *)
(***************************************************************************)
EXTENDS Ring

VARIABLE g   \* the ring, see module Ring

GueueInit == g = EmptyRing

GueueAddTail(x) ==
    /\ ~Full(g) \/ g.size < MaxSize
    /\ g' = AddTail(g, x)

GueueRemoveHead ==
    /\ g.count > 0
    /\ g' = RemoveHead(g)

\* remove_from_head_gueue_katcl: position counts from the head.
GueueRemoveFromHead(position) ==
    /\ position < g.count
    /\ g' = RemoveIndex(g, SlotOf(g, position))

\* x is at position k from the head, and at no earlier one.
FirstAt(x, k) ==
    /\ g.slot[SlotOf(g, k)] = x
    /\ \A j \in 0 .. k - 1 : g.slot[SlotOf(g, j)] # x

GueueRemoveDatum(x) ==
    \E k \in 0 .. g.count - 1 :
        /\ FirstAt(x, k)
        /\ g' = RemoveIndex(g, SlotOf(g, k))

GueueClear ==
    /\ g.count > 0
    /\ g' = Cleared(g)

\* destroy_gueue_katcl, and create_gueue_katcl for the next user.
GueueDestroy ==
    /\ g.size > 0
    /\ g' = EmptyRing

GueueNext ==
    \/ \E x \in Data : GueueAddTail(x) \/ GueueRemoveDatum(x)
    \/ GueueRemoveHead
    \/ \E position \in 0 .. g.count - 1 : GueueRemoveFromHead(position)
    \/ GueueClear
    \/ GueueDestroy

GueueSpec == GueueInit /\ [][GueueNext]_g

-----------------------------------------------------------------------------
(* Properties *)

\* The ring has the shape of a ring and never outgrows the memory available.
GueueTypeOK == IsRing(g) /\ g.size <= MaxSize

\* remove_index_gueue_katcl closes the gap it leaves, from the front or from
\* the back, so that the slots in use stay exactly the ones that hold an
\* entry: what dump_gueue aborts on otherwise.
GueueShape == InShape(g)

GueueFifo == INSTANCE Fifo WITH items <- Items(g)

\* An entry taken out of the middle, on either side of the wrap, leaves the
\* others in the order in which add_tail_gueue_katcl queued them.
OrderKept == GueueFifo!SpecAny

=============================================================================
