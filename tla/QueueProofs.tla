----------------------------- MODULE QueueProofs -----------------------------
(***************************************************************************)
(* The ring of module Ring and the two queues that are built on it.  The   *)
(* operations of the ring do to its entries what the abstract queue of     *)
(* module Fifo does.  The parse queue of katcp/queue.c (ParseQueue) counts *)
(* its references and keeps what it holds, for any number of messages and  *)
(* any size of the ring; the generic queue of generic-queue.c (Gueue) is   *)
(* well formed in every reachable state and takes out of its middle        *)
(* without disturbing the order, wherever it wraps around.                 *)
(***************************************************************************)
EXTENDS ParseQueue, Gueue, SequenceTheorems, FunctionTheorems,
        FiniteSetTheorems, TLAPS

-----------------------------------------------------------------------------
(* The ring: each operation keeps a well formed ring well formed and does  *)
(* to its entries what the abstract queue of module Fifo does, whatever    *)
(* the size of the ring.                                                   *)

\* Slot arithmetic: an offset of less than two turns wraps at most once.
LEMMA ModWrap ==
    ASSUME NEW n \in Nat \ {0}, NEW a \in 0 .. 2 * n - 1
    PROVE  a % n = IF a < n THEN a ELSE a - n
<1>1. CASE a < n
  BY <1>1
<1>2. CASE a >= n
  <2>1. a = n * 1 + (a - n) /\ a - n \in 0 .. n - 1
    BY <1>2
  <2>2. QED
    BY <2>1, <1>2
<1>3. QED
  BY <1>1, <1>2

\* The slot k places after the head h of a ring of n slots.
Wrap(h, k, n) == IF h + k < n THEN h + k ELSE h + k - n

LEMMA WrapMod ==
    ASSUME NEW n \in Nat \ {0}, NEW h \in 0 .. n - 1, NEW k \in 0 .. n
    PROVE  (h + k) % n = Wrap(h, k, n)
<1> DEFINE a == h + k
<1>1. a \in 0 .. 2 * n - 1
  OBVIOUS
<1> HIDE DEF a
<1>2. a % n = IF a < n THEN a ELSE a - n
  BY <1>1, ModWrap
<1>3. QED
  BY <1>2 DEF Wrap, a

\* Slot numbers without modular arithmetic.
LEMMA SlotWrap ==
    ASSUME NEW r, r.size \in Nat \ {0}, r.head \in Slots(r), NEW k \in 0 .. r.size
    PROVE  SlotOf(r, k) = Wrap(r.head, k, r.size)
BY WrapMod DEF SlotOf, Slots

\* The slots in use run from the head to the end of the entries, or to the
\* end of the ring and on from its start.
Used(h, c, n, i) == i \in h .. h + c - 1 \/ i < h + c - n

InUse(r, i) == Used(r.head, r.count, r.size, i)

\* The slot after the last of c entries.
LEMMA TailSlot ==
    ASSUME NEW n \in Nat \ {0}, NEW h \in 0 .. n - 1, NEW c \in 0 .. n - 1
    PROVE  /\ Wrap(h, c, n) \in 0 .. n - 1
           /\ \A i \in 0 .. n - 1 :
                 Used(h, c + 1, n, i) <=> Used(h, c, n, i) \/ i = Wrap(h, c, n)
           /\ \A k \in 0 .. c - 1 : Wrap(h, k, n) \in 0 .. n - 1
                                    /\ Wrap(h, k, n) # Wrap(h, c, n)
BY DEF Wrap, Used

\* The slot after the head, once the first of c entries has gone.
LEMMA HeadSlot ==
    ASSUME NEW n \in Nat \ {0}, NEW h \in 0 .. n - 1, NEW c \in 1 .. n
    PROVE  /\ Wrap(h, 1, n) \in 0 .. n - 1
           /\ \A i \in 0 .. n - 1 :
                 Used(Wrap(h, 1, n), c - 1, n, i) <=> Used(h, c, n, i) /\ i # h
           /\ \A k \in 1 .. c - 1 : /\ Wrap(Wrap(h, 1, n), k - 1, n) = Wrap(h, k, n)
                                    /\ Wrap(h, k, n) \in 0 .. n - 1
                                    /\ Wrap(h, k, n) # h
BY DEF Wrap, Used

LEMMA WindowInUse ==
    ASSUME NEW r, IsRing(r), NEW i \in Slots(r)
    PROVE  i \in Window(r) <=> InUse(r, i)
<1>1. r.size \in Nat \ {0} /\ r.head \in 0 .. r.size - 1 /\ r.count \in 0 .. r.size
  BY DEF IsRing, Slots
<1>2. \A k \in 0 .. r.count - 1 : SlotOf(r, k) = Wrap(r.head, k, r.size)
  BY <1>1, SlotWrap DEF Slots
<1>3. ASSUME i \in Window(r) PROVE InUse(r, i)
  <2>1. PICK k \in 0 .. r.count - 1 : i = SlotOf(r, k)
    BY <1>3 DEF Window
  <2>2. QED
    BY <1>1, <1>2, <2>1 DEF Wrap, InUse, Used, Slots
<1>4. ASSUME InUse(r, i) PROVE i \in Window(r)
  <2> DEFINE k == IF i >= r.head THEN i - r.head ELSE i + r.size - r.head
  <2>1. k \in 0 .. r.count - 1 /\ Wrap(r.head, k, r.size) = i
    BY <1>1, <1>4 DEF InUse, Used, Wrap, Slots
  <2>2. SlotOf(r, k) = i
    BY <1>2, <2>1
  <2>3. QED
    BY <2>1, <2>2 DEF Window
<1>5. QED
  BY <1>3, <1>4

\* A well formed ring, without modular arithmetic.
LEMMA ShapeInUse ==
    ASSUME NEW r, IsRing(r)
    PROVE  InShape(r) <=> \A i \in Slots(r) : r.slot[i] # NULL <=> InUse(r, i)
BY WindowInUse DEF InShape

\* The entries of a ring, without modular arithmetic.
LEMMA ItemAt ==
    ASSUME NEW r, IsRing(r), NEW k \in 1 .. r.count
    PROVE  /\ Wrap(r.head, k - 1, r.size) \in Slots(r)
           /\ Items(r)[k] = r.slot[Wrap(r.head, k - 1, r.size)]
<1>1. r.size \in Nat \ {0} /\ r.head \in Slots(r) /\ k - 1 \in 0 .. r.size
  BY DEF IsRing, Slots
<1>2. SlotOf(r, k - 1) = Wrap(r.head, k - 1, r.size)
  BY <1>1, SlotWrap
<1>3. Items(r)[k] = r.slot[SlotOf(r, k - 1)]
  BY DEF Items
<1>4. Wrap(r.head, k - 1, r.size) \in Slots(r)
  BY <1>1 DEF Wrap, Slots, IsRing
<1>5. QED
  BY <1>2, <1>3, <1>4

\* The entries of a well formed ring are data, never NULL.
LEMMA ItemsType ==
    ASSUME NEW r, IsRing(r), InShape(r)
    PROVE  /\ Items(r) \in [1 .. r.count -> Data]
           /\ Items(r) \in Seq(Data)
           /\ Len(Items(r)) = r.count
<1>1. ASSUME NEW k \in 1 .. r.count PROVE Items(r)[k] \in Data
  <2> DEFINE i == Wrap(r.head, k - 1, r.size)
  <2>1. i \in Slots(r) /\ Items(r)[k] = r.slot[i]
    BY ItemAt
  <2>2. InUse(r, i)
    BY DEF InUse, Used, Wrap, IsRing, Slots
  <2>3. r.slot[i] # NULL
    BY <2>1, <2>2, ShapeInUse
  <2>4. QED
    BY <2>1, <2>3 DEF IsRing
<1>2. Items(r) = [k \in 1 .. r.count |-> Items(r)[k]]
  BY DEF Items
<1>3. Items(r) \in [1 .. r.count -> Data]
  BY <1>1, <1>2
<1>4. r.count \in Nat
  BY DEF IsRing
<1>5. QED
  BY <1>3, <1>4

-----------------------------------------------------------------------------
\* Growing a full ring: the rotation keeps the entries and their order.
LEMMA GrownRing ==
    ASSUME NEW r, IsRing(r), InShape(r), Full(r)
    PROVE  /\ IsRing(Grown(r)) /\ InShape(Grown(r)) /\ ~Full(Grown(r))
           /\ Items(Grown(r)) = Items(r)
<1> DEFINE z == Grown(r)
<1>1. /\ z.size = r.size + 1 /\ z.head = r.head /\ z.count = r.count
      /\ z.slot = [i \in 0 .. r.size |->
                     IF i = r.size THEN IF r.head > 0 THEN r.slot[0] ELSE NULL
                     ELSE IF i < r.head - 1 THEN r.slot[i + 1]
                     ELSE IF i = r.head - 1 THEN NULL
                     ELSE r.slot[i]]
  BY DEF Grown, MakeRing
<1> HIDE DEF z
<1>2. /\ r.count = r.size /\ r.size \in Nat
      /\ r.head \in 0 .. r.size /\ (r.size > 0 => r.head < r.size)
      /\ \A i \in 0 .. r.size - 1 : r.slot[i] \in Data \cup {NULL}
  BY DEF Full, IsRing, Slots
<1>3. Slots(z) = 0 .. r.size
  BY <1>1, <1>2 DEF Slots
<1>4. \A i \in 0 .. r.size : z.slot[i] \in Data \cup {NULL}
  BY <1>1, <1>2
<1>5. IsRing(z) /\ ~Full(z)
  BY <1>1, <1>2, <1>3, <1>4 DEF IsRing, Full, Slots
<1>6. InShape(z)
  <2>1. ASSUME NEW i \in Slots(z) PROVE z.slot[i] # NULL <=> InUse(z, i)
    <3>1. \A j \in Slots(r) : r.slot[j] # NULL
      BY <1>2, ShapeInUse DEF InUse, Used, Slots, IsRing
    <3>2. InUse(z, i) <=> ~(i = r.head - 1 \/ (i = r.size /\ r.head = 0))
      BY <1>1, <1>2, <1>3 DEF InUse, Used
    <3>3. QED
      BY <1>1, <1>2, <1>3, <3>1, <3>2 DEF Slots, IsRing
  <2>2. QED
    BY <1>5, <2>1, ShapeInUse
<1>7. ASSUME NEW k \in 1 .. r.count PROVE Items(z)[k] = Items(r)[k]
  <2>1. Items(r)[k] = r.slot[Wrap(r.head, k - 1, r.size)]
    BY ItemAt
  <2>2. Items(z)[k] = z.slot[Wrap(z.head, k - 1, z.size)]
    BY <1>1, <1>5, ItemAt
  <2>3. CASE r.head + k - 1 < r.size
    <3>1. /\ Wrap(r.head, k - 1, r.size) = r.head + k - 1
          /\ Wrap(z.head, k - 1, z.size) = r.head + k - 1
          /\ r.head + k - 1 \in r.head .. r.size - 1
      BY <1>1, <1>2, <2>3 DEF Wrap
    <3>2. z.slot[r.head + k - 1] = r.slot[r.head + k - 1]
      BY <1>1, <1>2, <3>1
    <3>3. QED
      BY <2>1, <2>2, <3>1, <3>2
  <2>4. CASE r.head + k - 1 = r.size
    <3>1. /\ Wrap(r.head, k - 1, r.size) = 0
          /\ Wrap(z.head, k - 1, z.size) = r.size /\ r.head > 0
      BY <1>1, <1>2, <2>4 DEF Wrap
    <3>2. z.slot[r.size] = r.slot[0]
      BY <1>1, <1>2, <3>1
    <3>3. QED
      BY <2>1, <2>2, <3>1, <3>2
  <2>5. CASE r.head + k - 1 > r.size
    <3> DEFINE i == r.head + k - 2 - r.size
    <3>1. /\ Wrap(r.head, k - 1, r.size) = i + 1
          /\ Wrap(z.head, k - 1, z.size) = i
          /\ i \in 0 .. r.head - 2
      BY <1>1, <1>2, <2>5 DEF Wrap
    <3> HIDE DEF i
    <3>2. z.slot[i] = r.slot[i + 1]
      BY <1>1, <1>2, <3>1
    <3>3. QED
      BY <2>1, <2>2, <3>1, <3>2
  <2>6. QED
    BY <1>2, <2>3, <2>4, <2>5
<1>8. Items(z) = [k \in 1 .. r.count |-> Items(z)[k]] /\ Items(r) = [k \in 1 .. r.count |-> Items(r)[k]]
  BY <1>1 DEF Items
<1>9. Items(z) = Items(r)
  BY <1>7, <1>8
<1>10. QED
  BY <1>5, <1>6, <1>9 DEF z

\* Storing an entry in a ring with an empty slot appends it.
LEMMA StoredRing ==
    ASSUME NEW r, IsRing(r), InShape(r), ~Full(r), NEW x \in Data
    PROVE  /\ IsRing(Stored(r, x)) /\ InShape(Stored(r, x))
           /\ Items(Stored(r, x)) = Append(Items(r), x)
<1> DEFINE z == Stored(r, x)
           t == Wrap(r.head, r.count, r.size)
<1>1. /\ r.size \in Nat \ {0} /\ r.head \in 0 .. r.size - 1
      /\ r.count \in 0 .. r.size - 1
      /\ r.slot \in [0 .. r.size - 1 -> Data \cup {NULL}]
  BY DEF Full, IsRing, Slots
<1>2. t \in 0 .. r.size - 1 /\ SlotOf(r, r.count) = t
  <2>1. SlotOf(r, r.count) = t
    BY <1>1, SlotWrap DEF Slots
  <2>2. QED
    BY <1>1, <2>1, TailSlot
<1>3. /\ z.size = r.size /\ z.head = r.head /\ z.count = r.count + 1
      /\ z.slot = [r.slot EXCEPT ![t] = x]
  BY <1>2 DEF Stored, MakeRing
<1> HIDE DEF z, t
<1>4. IsRing(z)
  BY <1>1, <1>2, <1>3 DEF IsRing, Slots
<1>5. InShape(z)
  <2>1. ASSUME NEW i \in Slots(z) PROVE z.slot[i] # NULL <=> InUse(z, i)
    <3>1. i \in 0 .. r.size - 1
      BY <1>3 DEF Slots
    <3>2. InUse(z, i) <=> InUse(r, i) \/ i = t
      <4>1. Used(r.head, r.count + 1, r.size, i)
               <=> Used(r.head, r.count, r.size, i) \/ i = t
        BY <1>1, <3>1, TailSlot DEF t
      <4>2. QED
        BY <1>3, <4>1 DEF InUse
    <3>3. r.slot[i] # NULL <=> InUse(r, i)
      BY <3>1, ShapeInUse DEF Slots
    <3>4. z.slot[i] = IF i = t THEN x ELSE r.slot[i]
      BY <1>1, <1>2, <1>3, <3>1
    <3>5. QED
      BY <3>2, <3>3, <3>4, RingAssumption
  <2>2. QED
    BY <1>4, <2>1, ShapeInUse
<1>6. ASSUME NEW k \in 1 .. r.count PROVE Items(z)[k] = Items(r)[k]
  <2>1. Items(r)[k] = r.slot[Wrap(r.head, k - 1, r.size)]
    BY ItemAt
  <2>2. Items(z)[k] = z.slot[Wrap(z.head, k - 1, z.size)]
    <3>1. k \in 1 .. z.count
      BY <1>1, <1>3
    <3>2. QED
      BY <1>4, <3>1, ItemAt
  <2>3. Wrap(r.head, k - 1, r.size) \in 0 .. r.size - 1 /\ Wrap(r.head, k - 1, r.size) # t
    <3>1. k - 1 \in 0 .. r.count - 1
      BY <1>1
    <3>2. QED
      BY <1>1, <3>1, TailSlot DEF t
  <2>4. QED
    BY <1>1, <1>3, <2>1, <2>2, <2>3
<1>7. Items(z)[r.count + 1] = x
  <2>1. r.count + 1 \in 1 .. z.count /\ (r.count + 1) - 1 = r.count
    BY <1>1, <1>3
  <2>2. Items(z)[r.count + 1] = z.slot[Wrap(z.head, (r.count + 1) - 1, z.size)]
    BY <1>4, <2>1, ItemAt
  <2>3. Items(z)[r.count + 1] = z.slot[t]
    BY <1>3, <2>1, <2>2 DEF t
  <2>4. QED
    BY <1>1, <1>2, <1>3, <2>3
<1>8. Items(z) = Append(Items(r), x)
  <2>1. /\ Items(r) \in Seq(Data) /\ Len(Items(r)) = r.count
        /\ Items(z) \in Seq(Data) /\ Len(Items(z)) = r.count + 1
    BY <1>3, <1>4, <1>5, ItemsType
  <2>2. /\ Append(Items(r), x) \in Seq(Data)
        /\ Len(Append(Items(r), x)) = r.count + 1
        /\ \A k \in 1 .. r.count + 1 :
              Append(Items(r), x)[k] = IF k = r.count + 1 THEN x ELSE Items(r)[k]
    BY <1>1, <2>1, AppendProperties
  <2>3. \A k \in 1 .. r.count + 1 :
           Items(z)[k] = IF k = r.count + 1 THEN x ELSE Items(r)[k]
    BY <1>1, <1>6, <1>7
  <2>4. /\ Len(Items(z)) = Len(Append(Items(r), x))
        /\ \A k \in 1 .. Len(Items(z)) : Items(z)[k] = Append(Items(r), x)[k]
    BY <2>1, <2>2, <2>3
  <2>5. QED
    BY <2>1, <2>2, <2>4, SeqEqual, Zenon
<1>9. QED
  BY <1>4, <1>5, <1>8 DEF z

\* Adding an entry appends it, whether or not the ring has to grow.
LEMMA AddTailRing ==
    ASSUME NEW r, IsRing(r), InShape(r), NEW x \in Data
    PROVE  /\ IsRing(AddTail(r, x)) /\ InShape(AddTail(r, x))
           /\ Items(AddTail(r, x)) = Append(Items(r), x)
           /\ AddTail(r, x).size = IF Full(r) THEN r.size + 1 ELSE r.size
<1>1. CASE Full(r)
  <2>1. AddTail(r, x) = Stored(Grown(r), x) /\ Grown(r).size = r.size + 1
    BY <1>1 DEF AddTail, Grown, MakeRing
  <2>2. AddTail(r, x).size = r.size + 1
    BY <2>1 DEF Stored, MakeRing
  <2>3. QED
    BY <1>1, <2>1, <2>2, GrownRing, StoredRing
<1>2. CASE ~Full(r)
  <2>1. AddTail(r, x) = Stored(r, x) /\ AddTail(r, x).size = r.size
    BY <1>2 DEF AddTail, Stored, MakeRing
  <2>2. QED
    BY <1>2, <2>1, StoredRing
<1>3. QED
  BY <1>1, <1>2

\* The entries without the one at position k.
Without(s, k) == [i \in 1 .. Len(s) - 1 |-> IF i < k THEN s[i] ELSE s[i + 1]]

\* Removing the head removes the oldest entry.
LEMMA RemoveHeadRing ==
    ASSUME NEW r, IsRing(r), InShape(r), r.count > 0
    PROVE  /\ IsRing(RemoveHead(r)) /\ InShape(RemoveHead(r))
           /\ Items(RemoveHead(r)) = Without(Items(r), 1)
           /\ r.slot[r.head] = Items(r)[1] /\ r.slot[r.head] \in Data
           /\ RemoveHead(r).size = r.size
<1> DEFINE z == RemoveHead(r)
           h == Wrap(r.head, 1, r.size)
<1>1. /\ r.size \in Nat \ {0} /\ r.head \in 0 .. r.size - 1
      /\ r.count \in 1 .. r.size
      /\ r.slot \in [0 .. r.size - 1 -> Data \cup {NULL}]
  BY DEF IsRing, Slots
<1>2. h \in 0 .. r.size - 1 /\ (r.head + 1) % r.size = h
  <2>1. 1 \in 0 .. r.size
    BY <1>1
  <2>2. (r.head + 1) % r.size = h
    BY <1>1, <2>1, WrapMod
  <2>3. QED
    BY <1>1, <2>2, HeadSlot
<1>3. /\ z.size = r.size /\ z.head = h /\ z.count = r.count - 1
      /\ z.slot = [r.slot EXCEPT ![r.head] = NULL]
  BY <1>2 DEF RemoveHead, MakeRing
<1> HIDE DEF z, h
<1>4. IsRing(z)
  <2>1. z.slot \in [Slots(z) -> Data \cup {NULL}]
    BY <1>1, <1>3 DEF Slots
  <2>2. QED
    BY <1>1, <1>2, <1>3, <2>1 DEF IsRing, Slots
<1>5. InShape(z)
  <2>1. ASSUME NEW i \in Slots(z) PROVE z.slot[i] # NULL <=> InUse(z, i)
    <3>1. i \in 0 .. r.size - 1
      BY <1>3 DEF Slots
    <3>2. InUse(z, i) <=> InUse(r, i) /\ i # r.head
      <4>1. Used(h, r.count - 1, r.size, i)
               <=> Used(r.head, r.count, r.size, i) /\ i # r.head
        BY <1>1, <3>1, HeadSlot DEF h
      <4>2. QED
        BY <1>3, <4>1 DEF InUse
    <3>3. r.slot[i] # NULL <=> InUse(r, i)
      BY <3>1, ShapeInUse DEF Slots
    <3>4. z.slot[i] = IF i = r.head THEN NULL ELSE r.slot[i]
      BY <1>1, <1>2, <1>3, <3>1
    <3>5. QED
      BY <3>2, <3>3, <3>4
  <2>2. QED
    BY <1>4, <2>1, ShapeInUse
<1>6. ASSUME NEW k \in 1 .. r.count - 1 PROVE Items(z)[k] = Items(r)[k + 1]
  <2>1. Items(r)[k + 1] = r.slot[Wrap(r.head, k, r.size)]
    <3>1. k + 1 \in 1 .. r.count /\ (k + 1) - 1 = k
      BY <1>1
    <3>2. Items(r)[k + 1] = r.slot[Wrap(r.head, (k + 1) - 1, r.size)]
      BY <3>1, ItemAt
    <3>3. QED
      BY <3>1, <3>2
  <2>2. Items(z)[k] = z.slot[Wrap(z.head, k - 1, z.size)]
    BY <1>3, <1>4, ItemAt
  <2>3. /\ Wrap(h, k - 1, r.size) = Wrap(r.head, k, r.size)
        /\ Wrap(r.head, k, r.size) \in 0 .. r.size - 1
        /\ Wrap(r.head, k, r.size) # r.head
    <3>1. \A j \in 1 .. r.count - 1 :
             /\ Wrap(h, j - 1, r.size) = Wrap(r.head, j, r.size)
             /\ Wrap(r.head, j, r.size) \in 0 .. r.size - 1
             /\ Wrap(r.head, j, r.size) # r.head
      BY <1>1, HeadSlot DEF h
    <3>2. QED
      BY <3>1
  <2>4. QED
    BY <1>1, <1>3, <2>1, <2>2, <2>3
<1>7. Items(z) = Without(Items(r), 1)
  <2>1. /\ Items(z) = [k \in 1 .. r.count - 1 |-> Items(z)[k]]
        /\ Len(Items(r)) = r.count
    BY <1>3, ItemsType DEF Items
  <2>2. Without(Items(r), 1) = [k \in 1 .. r.count - 1 |-> Items(r)[k + 1]]
    BY <1>1, <2>1 DEF Without
  <2>3. QED
    BY <1>6, <2>1, <2>2
<1>8. r.slot[r.head] = Items(r)[1] /\ r.slot[r.head] \in Data
  <2>1. 1 \in 1 .. r.count /\ Wrap(r.head, 1 - 1, r.size) = r.head
    BY <1>1 DEF Wrap
  <2>2. Items(r)[1] = r.slot[r.head]
    BY <2>1, ItemAt
  <2>3. Items(r)[1] \in Data
    BY <2>1, ItemsType
  <2>4. QED
    BY <2>2, <2>3
<1>9. QED
  BY <1>3, <1>4, <1>5, <1>7, <1>8 DEF z

\* The slots of a ring of n slots that move when the entry k places after
\* the head h is removed, if it lies before the end of the ring.
AheadSlots(n, h, c, k) ==
    /\ Wrap(h, 1, n) = h + 1 /\ Wrap(h, 1, n) \in 0 .. n - 1
    /\ \A i \in h + 1 .. h + k :
          /\ i \in 0 .. n - 1 /\ i - 1 \in 0 .. n - 1 /\ i # h
          /\ Used(h, c, n, i) /\ Used(h, c, n, i - 1)
    /\ \A j \in 1 .. k : /\ Wrap(h, j, n) \in h + 1 .. h + k
                         /\ Wrap(h, j - 1, n) = Wrap(h, j, n) - 1
    /\ \A j \in k + 1 .. c - 1 : /\ Wrap(h, j, n) \in 0 .. n - 1
                                 /\ Wrap(h, j, n) \notin h .. h + k

LEMMA AheadSlot ==
    ASSUME NEW n \in Nat \ {0}, NEW h \in 0 .. n - 1, NEW c \in 0 .. n,
           NEW k \in 1 .. c - 1, h + k < n
    PROVE  AheadSlots(n, h, c, k)
BY DEF AheadSlots, Wrap, Used

\* The same if the entry, in slot x, lies in the part that has wrapped
\* around, which ends in slot e.
BehindSlots(n, h, c, k, x, e) ==
    /\ e \in 0 .. h - 1 /\ x \in 0 .. e
    /\ \A i \in 0 .. n - 1 : Used(h, c - 1, n, i) <=> Used(h, c, n, i) /\ i # e
    /\ \A i \in x .. e - 1 :
          /\ i \in 0 .. n - 1 /\ i + 1 \in 0 .. n - 1 /\ i # e
          /\ Used(h, c, n, i) /\ Used(h, c, n, i + 1)
    /\ \A j \in 1 .. k : /\ Wrap(h, j - 1, n) \in 0 .. n - 1
                         /\ Wrap(h, j - 1, n) \notin x .. e
    /\ \A j \in k + 1 .. c - 1 : /\ Wrap(h, j - 1, n) \in x .. e - 1
                                 /\ Wrap(h, j, n) = Wrap(h, j - 1, n) + 1

LEMMA BehindSlot ==
    ASSUME NEW n \in Nat \ {0}, NEW h \in 0 .. n - 1, NEW c \in 0 .. n,
           NEW k \in 1 .. c - 1, h + k >= n
    PROVE  BehindSlots(n, h, c, k, h + k - n, h + c - 1 - n)
<1> DEFINE e == h + c - 1 - n
           x == h + k - n
<1>1. e \in 0 .. h - 1 /\ x \in 0 .. e
  OBVIOUS
<1>2. \A i \in 0 .. n - 1 : Used(h, c - 1, n, i) <=> Used(h, c, n, i) /\ i # e
  BY DEF Used
<1>3. \A i \in x .. e - 1 :
         /\ i \in 0 .. n - 1 /\ i + 1 \in 0 .. n - 1 /\ i # e
         /\ Used(h, c, n, i) /\ Used(h, c, n, i + 1)
  BY DEF Used
<1>4. \A j \in 1 .. k : /\ Wrap(h, j - 1, n) \in 0 .. n - 1
                        /\ Wrap(h, j - 1, n) \notin x .. e
  BY DEF Wrap
<1>5. \A j \in k + 1 .. c - 1 : /\ Wrap(h, j - 1, n) \in x .. e - 1
                                /\ Wrap(h, j, n) = Wrap(h, j - 1, n) + 1
  BY DEF Wrap
<1>6. QED
  BY <1>1, <1>2, <1>3, <1>4, <1>5, Zenon DEF BehindSlots

\* Two rings whose entries agree but for the one at position k + 1.
LEMMA WithoutItems ==
    ASSUME NEW r, NEW z, IsRing(r), InShape(r), z.count = r.count - 1,
           NEW k \in 0 .. r.count - 1,
           \A j \in 1 .. k : Items(z)[j] = Items(r)[j],
           \A j \in k + 1 .. r.count - 1 : Items(z)[j] = Items(r)[j + 1]
    PROVE  Items(z) = Without(Items(r), k + 1)
<1>1. r.count \in Nat /\ Len(Items(r)) = r.count
  BY ItemsType DEF IsRing
<1>2. Items(z) = [j \in 1 .. r.count - 1 |-> Items(z)[j]]
  BY DEF Items
<1>3. \A j \in 1 .. r.count - 1 :
         Items(z)[j] = IF j < k + 1 THEN Items(r)[j] ELSE Items(r)[j + 1]
  BY <1>1
<1>4. QED
  BY <1>1, <1>2, <1>3 DEF Without

\* Removing an entry that lies after the head: the older entries and the
\* head move up.
LEMMA RemoveAheadRing ==
    ASSUME NEW r, IsRing(r), InShape(r),
           NEW k \in 1 .. r.count - 1, r.head + k < r.size
    PROVE  /\ IsRing(RemoveAhead(r, r.head + k))
           /\ InShape(RemoveAhead(r, r.head + k))
           /\ Items(RemoveAhead(r, r.head + k)) = Without(Items(r), k + 1)
           /\ RemoveAhead(r, r.head + k).size = r.size
<1> DEFINE n == r.size
           h == r.head
           c == r.count
           s == r.slot
           x == r.head + k
           z == RemoveAhead(r, x)
           t == Wrap(h, 1, n)
<1>1. /\ n \in Nat \ {0} /\ h \in 0 .. n - 1 /\ c \in 1 .. n /\ c \in 0 .. n
      /\ k \in 1 .. c - 1 /\ h + k < n /\ x = h + k
      /\ s \in [0 .. n - 1 -> Data \cup {NULL}]
  BY DEF IsRing, Slots
<1>2. t \in 0 .. n - 1 /\ (h + 1) % n = t
  <2>1. t \in 0 .. n - 1 /\ 1 \in 0 .. n
    BY <1>1 DEF Wrap
  <2>2. QED
    BY <1>1, <2>1, WrapMod
<1>3. /\ z.size = n /\ z.head = t /\ z.count = c - 1
      /\ z.slot = [i \in 0 .. n - 1 |-> IF i = h THEN NULL
                                        ELSE IF i \in h + 1 .. x THEN s[i - 1]
                                        ELSE s[i]]
  BY <1>2 DEF RemoveAhead, MakeRing, Slots
<1>4. Slots(z) = 0 .. n - 1 /\ Slots(r) = 0 .. n - 1
  BY <1>3 DEF Slots
<1>5. \A i \in 0 .. n - 1 : s[i] # NULL <=> Used(h, c, n, i)
  BY <1>4, ShapeInUse DEF InUse
<1>a. \A j \in 1 .. c : Items(r)[j] = s[Wrap(h, j - 1, n)]
  BY ItemAt
<1> HIDE DEF n, h, c, s, x, z, t
<1>c. AheadSlots(n, h, c, k)
  BY <1>1, AheadSlot
<1>6. IsRing(z)
  <2>1. \A i \in 0 .. n - 1 : z.slot[i] \in Data \cup {NULL}
    BY <1>1, <1>3
  <2>2. z.slot \in [Slots(z) -> Data \cup {NULL}]
    BY <1>3, <1>4, <2>1
  <2>3. z.size \in Nat /\ z.size # 0 /\ z.head \in Slots(z) /\ z.count \in 0 .. z.size
    BY <1>1, <1>2, <1>3, <1>4
  <2>4. QED
    BY <2>2, <2>3 DEF IsRing
<1>7. InShape(z)
  <2>1. ASSUME NEW i \in 0 .. n - 1 PROVE z.slot[i] # NULL <=> Used(t, c - 1, n, i)
    <3>1. Used(t, c - 1, n, i) <=> Used(h, c, n, i) /\ i # h
      BY <1>1, HeadSlot DEF t
    <3>2. CASE i \in h + 1 .. x
      <4>1. i \in h + 1 .. h + k
        BY <1>1, <3>2
      <4>2. i - 1 \in 0 .. n - 1 /\ i # h /\ Used(h, c, n, i) /\ Used(h, c, n, i - 1)
        BY <1>c, <4>1 DEF AheadSlots
      <4>3. z.slot[i] = s[i - 1] /\ s[i - 1] # NULL
        BY <1>3, <1>5, <3>2, <4>2
      <4>4. QED
        BY <3>1, <4>2, <4>3
    <3>3. CASE i \notin h + 1 .. x
      <4>1. z.slot[i] = IF i = h THEN NULL ELSE s[i]
        BY <1>3, <3>3
      <4>2. QED
        BY <1>5, <3>1, <4>1
    <3>4. QED
      BY <3>2, <3>3
  <2>2. \A i \in Slots(z) : z.slot[i] # NULL <=> InUse(z, i)
    BY <1>3, <1>4, <2>1 DEF InUse
  <2>3. QED
    BY <1>6, <2>2, ShapeInUse
<1>8. \A j \in 1 .. c - 1 : Items(z)[j] = z.slot[Wrap(h, j, n)]
  <2>1. \A j \in 1 .. c - 1 : Items(z)[j] = z.slot[Wrap(t, j - 1, n)]
    BY <1>3, <1>6, ItemAt
  <2>2. \A j \in 1 .. c - 1 : Wrap(t, j - 1, n) = Wrap(h, j, n)
    BY <1>1, HeadSlot DEF t
  <2>3. QED
    BY <2>1, <2>2
<1>9. ASSUME NEW j \in 1 .. k PROVE Items(z)[j] = Items(r)[j]
  <2> DEFINE i == Wrap(h, j, n)
  <2>1. i \in h + 1 .. h + k /\ Wrap(h, j - 1, n) = i - 1
    BY <1>c DEF AheadSlots
  <2>2. j \in 1 .. c - 1 /\ j \in 1 .. c
    BY <1>1
  <2>3. Items(z)[j] = z.slot[i] /\ Items(r)[j] = s[i - 1]
    BY <1>8, <1>a, <2>1, <2>2
  <2> HIDE DEF i
  <2>4. i \in 0 .. n - 1 /\ i # h /\ i \in h + 1 .. x
    BY <1>1, <2>1
  <2>5. z.slot[i] = s[i - 1]
    BY <1>3, <2>4
  <2>6. QED
    BY <2>3, <2>5
<1>10. ASSUME NEW j \in k + 1 .. c - 1 PROVE Items(z)[j] = Items(r)[j + 1]
  <2> DEFINE i == Wrap(h, j, n)
  <2>1. i \in 0 .. n - 1 /\ i \notin h .. h + k
    BY <1>c DEF AheadSlots
  <2>2. j \in 1 .. c - 1 /\ j + 1 \in 1 .. c /\ (j + 1) - 1 = j
    BY <1>1
  <2>3. Items(z)[j] = z.slot[i] /\ Items(r)[j + 1] = s[i]
    BY <1>8, <1>a, <2>2
  <2> HIDE DEF i
  <2>4. i # h /\ i \notin h + 1 .. x
    BY <1>1, <2>1
  <2>5. z.slot[i] = s[i]
    BY <1>3, <2>1, <2>4
  <2>6. QED
    BY <2>3, <2>5
<1>11. Items(z) = Without(Items(r), k + 1)
  <2>1. k \in 0 .. r.count - 1
    BY <1>1 DEF c
  <2>2. QED
    BY <1>3, <1>9, <1>10, <2>1, WithoutItems DEF c
<1>12. QED
  BY <1>3, <1>6, <1>7, <1>11 DEF z, x, n

\* Removing an entry from the part of the ring that has wrapped around: the
\* younger entries move down.
LEMMA RemoveBehindRing ==
    ASSUME NEW r, IsRing(r), InShape(r),
           NEW k \in 1 .. r.count - 1, r.head + k >= r.size
    PROVE  /\ IsRing(RemoveBehind(r, r.head + k - r.size))
           /\ InShape(RemoveBehind(r, r.head + k - r.size))
           /\ Items(RemoveBehind(r, r.head + k - r.size)) = Without(Items(r), k + 1)
           /\ RemoveBehind(r, r.head + k - r.size).size = r.size
<1> DEFINE n == r.size
           h == r.head
           c == r.count
           s == r.slot
           x == r.head + k - r.size
           e == r.head + r.count - 1 - r.size
           z == RemoveBehind(r, x)
<1>1. /\ n \in Nat \ {0} /\ h \in 0 .. n - 1 /\ c \in 1 .. n /\ c \in 0 .. n
      /\ k \in 1 .. c - 1 /\ h + k >= n /\ x = h + k - n /\ e = h + c - 1 - n
      /\ s \in [0 .. n - 1 -> Data \cup {NULL}]
  BY DEF IsRing, Slots
<1>2. End(r) = e
  <2>1. c - 1 \in 0 .. n /\ h + c - 1 = h + (c - 1) /\ Wrap(h, c - 1, n) = e
    BY <1>1 DEF Wrap
  <2>2. (h + (c - 1)) % n = Wrap(h, c - 1, n)
    BY <1>1, <2>1, WrapMod
  <2>3. End(r) = (h + c - 1) % n
    BY DEF End
  <2>4. QED
    BY <2>1, <2>2, <2>3
<1>3. /\ z.size = n /\ z.head = h /\ z.count = c - 1
      /\ z.slot = [i \in 0 .. n - 1 |-> IF i = e THEN NULL
                                        ELSE IF i \in x .. e - 1 THEN s[i + 1]
                                        ELSE s[i]]
  BY <1>2 DEF RemoveBehind, MakeRing, Slots
<1>4. Slots(z) = 0 .. n - 1 /\ Slots(r) = 0 .. n - 1
  BY <1>3 DEF Slots
<1>5. \A i \in 0 .. n - 1 : s[i] # NULL <=> Used(h, c, n, i)
  BY <1>4, ShapeInUse DEF InUse
<1>a. \A j \in 1 .. c : Items(r)[j] = s[Wrap(h, j - 1, n)]
  BY ItemAt
<1> HIDE DEF n, h, c, s, x, e, z
<1>b. BehindSlots(n, h, c, k, x, e)
  BY <1>1, BehindSlot
<1>d. e \in 0 .. h - 1 /\ x \in 0 .. e
  BY <1>b DEF BehindSlots
<1>6. IsRing(z)
  <2>1. \A i \in 0 .. n - 1 : z.slot[i] \in Data \cup {NULL}
    BY <1>1, <1>3, <1>d
  <2>2. z.slot \in [Slots(z) -> Data \cup {NULL}]
    BY <1>3, <1>4, <2>1
  <2>3. z.size \in Nat /\ z.size # 0 /\ z.head \in Slots(z) /\ z.count \in 0 .. z.size
    BY <1>1, <1>3, <1>4
  <2>4. QED
    BY <2>2, <2>3 DEF IsRing
<1>7. InShape(z)
  <2>1. ASSUME NEW i \in 0 .. n - 1 PROVE z.slot[i] # NULL <=> Used(h, c - 1, n, i)
    <3>1. Used(h, c - 1, n, i) <=> Used(h, c, n, i) /\ i # e
      BY <1>b DEF BehindSlots
    <3>2. CASE i \in x .. e - 1
      <4>1. i + 1 \in 0 .. n - 1 /\ i # e /\ Used(h, c, n, i) /\ Used(h, c, n, i + 1)
        BY <1>b, <3>2 DEF BehindSlots
      <4>2. z.slot[i] = s[i + 1] /\ s[i + 1] # NULL
        BY <1>3, <1>5, <3>2, <4>1
      <4>3. QED
        BY <3>1, <4>1, <4>2
    <3>3. CASE i \notin x .. e - 1
      <4>1. z.slot[i] = IF i = e THEN NULL ELSE s[i]
        BY <1>3, <3>3
      <4>2. QED
        BY <1>5, <3>1, <4>1
    <3>4. QED
      BY <3>2, <3>3
  <2>2. \A i \in Slots(z) : z.slot[i] # NULL <=> InUse(z, i)
    BY <1>3, <1>4, <2>1 DEF InUse
  <2>3. QED
    BY <1>6, <2>2, ShapeInUse
<1>8. \A j \in 1 .. c - 1 : Items(z)[j] = z.slot[Wrap(h, j - 1, n)]
  BY <1>3, <1>6, ItemAt
<1>9. ASSUME NEW j \in 1 .. k PROVE Items(z)[j] = Items(r)[j]
  <2> DEFINE i == Wrap(h, j - 1, n)
  <2>1. i \in 0 .. n - 1 /\ i \notin x .. e
    BY <1>b DEF BehindSlots
  <2>2. j \in 1 .. c - 1 /\ j \in 1 .. c
    BY <1>1
  <2>3. Items(z)[j] = z.slot[i] /\ Items(r)[j] = s[i]
    BY <1>8, <1>a, <2>2
  <2> HIDE DEF i
  <2>4. i # e /\ i \notin x .. e - 1
    BY <1>1, <1>d, <2>1
  <2>5. z.slot[i] = s[i]
    BY <1>3, <2>1, <2>4
  <2>6. QED
    BY <2>3, <2>5
<1>10. ASSUME NEW j \in k + 1 .. c - 1 PROVE Items(z)[j] = Items(r)[j + 1]
  <2> DEFINE i == Wrap(h, j - 1, n)
  <2>1. i \in x .. e - 1 /\ Wrap(h, j, n) = i + 1
    BY <1>b DEF BehindSlots
  <2>2. j \in 1 .. c - 1 /\ j + 1 \in 1 .. c /\ (j + 1) - 1 = j
    BY <1>1
  <2>3. Items(z)[j] = z.slot[i] /\ Items(r)[j + 1] = s[i + 1]
    BY <1>8, <1>a, <2>1, <2>2
  <2> HIDE DEF i
  <2>4. i \in 0 .. n - 1 /\ i # e
    BY <1>1, <1>d, <2>1
  <2>5. z.slot[i] = s[i + 1]
    BY <1>3, <2>1, <2>4
  <2>6. QED
    BY <2>3, <2>5
<1>11. Items(z) = Without(Items(r), k + 1)
  <2>1. k \in 0 .. r.count - 1
    BY <1>1 DEF c
  <2>2. QED
    BY <1>3, <1>9, <1>10, <2>1, WithoutItems DEF c
<1>12. QED
  BY <1>3, <1>6, <1>7, <1>11 DEF z, x, n

\* Removing the k-th entry, wherever it is, leaves the others in order.
LEMMA RemoveIndexRing ==
    ASSUME NEW r, IsRing(r), InShape(r), NEW k \in 0 .. r.count - 1
    PROVE  /\ IsRing(RemoveIndex(r, SlotOf(r, k)))
           /\ InShape(RemoveIndex(r, SlotOf(r, k)))
           /\ Items(RemoveIndex(r, SlotOf(r, k))) = Without(Items(r), k + 1)
           /\ RemoveIndex(r, SlotOf(r, k)).size = r.size
<1> DEFINE index == SlotOf(r, k)
<1>1. /\ r.size \in Nat \ {0} /\ r.head \in 0 .. r.size - 1
      /\ r.count \in 1 .. r.size /\ k \in 0 .. r.size
  BY DEF IsRing, Slots
<1>2. index = Wrap(r.head, k, r.size)
  BY <1>1, SlotWrap DEF Slots
<1> HIDE DEF index
<1>3. CASE k = 0
  <2>1. index = r.head /\ k + 1 = 1
    BY <1>1, <1>2, <1>3 DEF Wrap
  <2>2. RemoveIndex(r, index) = RemoveHead(r)
    BY <2>1 DEF RemoveIndex
  <2>3. QED
    BY <1>1, <2>1, <2>2, RemoveHeadRing DEF index
<1>4. CASE k > 0 /\ r.head + k < r.size
  <2>1. index = r.head + k /\ index > r.head /\ index # r.head
    BY <1>1, <1>2, <1>4 DEF Wrap
  <2>2. RemoveIndex(r, index) = RemoveAhead(r, index)
    BY <1>1, <2>1 DEF RemoveIndex
  <2>3. k \in 1 .. r.count - 1
    BY <1>1, <1>4
  <2>4. QED
    BY <1>4, <2>1, <2>2, <2>3, RemoveAheadRing DEF index
<1>5. CASE k > 0 /\ r.head + k >= r.size
  <2>1. index = r.head + k - r.size /\ index < r.head /\ index # r.head /\ ~(index > r.head)
    BY <1>1, <1>2, <1>5 DEF Wrap
  <2>2. RemoveIndex(r, index) = RemoveBehind(r, index)
    BY <1>1, <2>1 DEF RemoveIndex
  <2>3. k \in 1 .. r.count - 1
    BY <1>1, <1>5
  <2>4. QED
    BY <1>5, <2>1, <2>2, <2>3, RemoveBehindRing DEF index
<1>6. QED
  BY <1>1, <1>3, <1>4, <1>5

\* Clearing leaves no entry and only empty slots.
LEMMA ClearedRing ==
    ASSUME NEW r, IsRing(r), InShape(r)
    PROVE  /\ IsRing(Cleared(r)) /\ InShape(Cleared(r))
           /\ Items(Cleared(r)) = << >> /\ Cleared(r).size = r.size
<1> DEFINE z == Cleared(r)
<1>1. /\ z.size = r.size /\ z.head = r.head /\ z.count = 0
      /\ z.slot = [i \in Slots(r) |-> IF i \in Window(r) THEN NULL ELSE r.slot[i]]
  BY DEF Cleared, MakeRing
<1> HIDE DEF z
<1>2. \A i \in Slots(r) : z.slot[i] = NULL
  BY <1>1 DEF InShape
<1>3. IsRing(z)
  BY <1>1, <1>2 DEF IsRing, Slots
<1>4. InShape(z)
  BY <1>1, <1>2 DEF InShape, Slots, Window
<1>5. Items(z) = << >>
  BY <1>1 DEF Items
<1>6. QED
  BY <1>1, <1>3, <1>4, <1>5 DEF z

\* A new ring.
LEMMA EmptyRingRing ==
    IsRing(EmptyRing) /\ InShape(EmptyRing) /\ Items(EmptyRing) = << >> /\ EmptyRing.size = 0
<1>1. /\ EmptyRing.size = 0 /\ EmptyRing.head = 0 /\ EmptyRing.count = 0
      /\ EmptyRing.slot = << >>
  BY DEF EmptyRing, MakeRing
<1>2. IsRing(EmptyRing)
  BY <1>1 DEF IsRing, Slots
<1>3. InShape(EmptyRing)
  BY <1>1 DEF InShape, Slots
<1>4. Items(EmptyRing) = << >>
  BY <1>1 DEF Items
<1>5. QED
  BY <1>1, <1>2, <1>3, <1>4


-----------------------------------------------------------------------------
(* Counting the references held by the queue. *)

\* The positions at which x occurs form a finite set.
LEMMA OccursFinite ==
    ASSUME NEW s \in Seq(Data), NEW x
    PROVE  /\ IsFiniteSet({k \in 1 .. Len(s) : s[k] = x})
           /\ Occurrences(s, x) \in Nat
           /\ Occurrences(s, x) = 0 <=> \A k \in 1 .. Len(s) : s[k] # x
<1> DEFINE S == {k \in 1 .. Len(s) : s[k] = x}
<1>1. IsFiniteSet(1 .. Len(s)) /\ S \in SUBSET (1 .. Len(s))
  BY FS_Interval
<1>2. IsFiniteSet(S)
  BY <1>1, FS_Subset
<1>3. Cardinality(S) \in Nat /\ (Cardinality(S) = 0 <=> S = {})
  BY <1>2, FS_CardinalityType, FS_EmptySet
<1>4. QED
  BY <1>2, <1>3 DEF Occurrences

\* Nothing occurs in the empty sequence.
LEMMA OccursNone == \A x : Occurrences(<< >>, x) = 0
<1> TAKE x
<1>1. {k \in 1 .. Len(<< >>) : << >>[k] = x} = {}
  OBVIOUS
<1>2. QED
  BY <1>1, FS_EmptySet DEF Occurrences

\* Appending a message adds one reference to it.
LEMMA OccursAppend ==
    ASSUME NEW s \in Seq(Data), NEW y \in Data, NEW x
    PROVE  Occurrences(Append(s, y), x) =
              IF x = y THEN Occurrences(s, x) + 1 ELSE Occurrences(s, x)
<1> DEFINE S == {k \in 1 .. Len(s) : s[k] = x}
           T == {k \in 1 .. Len(Append(s, y)) : Append(s, y)[k] = x}
<1>1. /\ Len(Append(s, y)) = Len(s) + 1
      /\ \A k \in 1 .. Len(s) : Append(s, y)[k] = s[k]
      /\ Append(s, y)[Len(s) + 1] = y
  BY AppendProperties
<1>2. T = IF x = y THEN S \cup {Len(s) + 1} ELSE S
  BY <1>1
<1>3. IsFiniteSet(S) /\ Len(s) + 1 \notin S
  BY OccursFinite
<1>4. Cardinality(T) = IF x = y THEN Cardinality(S) + 1 ELSE Cardinality(S)
  BY <1>2, <1>3, FS_AddElement
<1>5. QED
  BY <1>4 DEF Occurrences

\* Taking the first message out removes one reference to it.
LEMMA OccursFirst ==
    ASSUME NEW s \in Seq(Data), Len(s) > 0, NEW x
    PROVE  Occurrences(Without(s, 1), x) =
              IF x = s[1] THEN Occurrences(s, x) - 1 ELSE Occurrences(s, x)
<1> DEFINE t == Without(s, 1)
           S == {k \in 1 .. Len(s) : s[k] = x}
           T == {k \in 1 .. Len(t) : t[k] = x}
           f == [k \in T |-> k + 1]
<1>1. Len(t) = Len(s) - 1 /\ \A k \in 1 .. Len(t) : t[k] = s[k + 1]
  BY DEF Without
<1> HIDE DEF t
<1>2. f \in Bijection(T, S \ {1})
  <2>0. Len(s) \in Nat /\ \A k \in T : k \in Int /\ k + 1 \in S \ {1}
    BY <1>1, LenProperties
  <2> HIDE DEF S
  <2>1. f \in Injection(T, S \ {1})
    <3>1. f \in [T -> S \ {1}] /\ DOMAIN f = T
      BY <2>0
    <3>2. \A a, b \in T : f[a] = f[b] => a = b
      BY <2>0
    <3>3. QED
      BY <3>1, <3>2 DEF Injection, IsInjective
  <2>2. ASSUME NEW j \in S \ {1} PROVE \E k \in T : f[k] = j
    <3>1. j \in 2 .. Len(s) /\ s[j] = x
      BY <2>0 DEF S
    <3>2. j - 1 \in 1 .. Len(t) /\ (j - 1) + 1 = j
      BY <1>1, <2>0, <3>1
    <3>3. j - 1 \in T
      BY <1>1, <3>1, <3>2
    <3>4. f[j - 1] = j
      BY <3>2, <3>3
    <3>5. QED
      BY <3>3, <3>4
  <2>3. QED
    BY <2>1, <2>2 DEF Bijection, Surjection, Injection
<1>3. IsFiniteSet(S)
  BY OccursFinite
<1>4. IsFiniteSet(S \ {1}) /\ Cardinality(S \ {1}) =
         IF 1 \in S THEN Cardinality(S) - 1 ELSE Cardinality(S)
  BY <1>3, FS_RemoveElement
<1>5. ExistsBijection(S \ {1}, T)
  BY <1>2, Fun_ExistsBijSymmetric DEF ExistsBijection
<1>6. Cardinality(T) = Cardinality(S \ {1})
  BY <1>4, <1>5, FS_Bijection
<1>7. 1 \in S <=> x = s[1]
  OBVIOUS
<1>8. QED
  BY <1>4, <1>6, <1>7 DEF Occurrences, t

-----------------------------------------------------------------------------
(***************************************************************************)
(* The inductive invariant.  TypeOK alone is not inductive: that a         *)
(* reference count stays a natural number when a reference is given up     *)
(* rests on RefsExact, and what is given up, or cleared for reuse, is not  *)
(* in the queue because of the two together with FreedLast.                *)
(***************************************************************************)
Inv ==
    /\ TypeOK
    /\ RingShape
    /\ RefsExact
    /\ FreedLast
    /\ QueuedIntact

\* The entries of the queue and their number, under the invariant.
LEMMA QueueFacts ==
    ASSUME Inv
    PROVE  /\ Items(q) \in Seq(Data) /\ Len(Items(q)) = q.count
           /\ q.count \in Nat
           /\ \A k \in 1 .. q.count : Items(q)[k] \in Data
           /\ \A p \in Data : Queued(p) \in Nat
           /\ \A p \in Data : Queued(p) = 0 <=> \A k \in 1 .. q.count : Items(q)[k] # p
<1>1. IsRing(q) /\ InShape(q)
  BY DEF Inv, TypeOK, RingShape
<1>2. Items(q) \in Seq(Data) /\ Len(Items(q)) = q.count
  BY <1>1, ItemsType
<1>3. q.count \in Nat /\ \A k \in 1 .. q.count : Items(q)[k] \in Data
  BY <1>1, <1>2, ItemsType
<1>4. \A p \in Data : Queued(p) \in Nat
  BY <1>2, OccursFinite DEF Queued
<1>5. \A p \in Data : Queued(p) = 0 <=> \A k \in 1 .. Len(Items(q)) : Items(q)[k] # p
  BY <1>2, OccursFinite DEF Queued
<1>6. QED
  BY <1>2, <1>3, <1>4, <1>5

\* The operations on messages leave the queue alone.
LEMMA ParseStep ==
    ASSUME Inv, ParseNext
    PROVE  Inv'
<1> USE DEF Parses
<1>1. q' = q
  BY DEF ParseNext, CreateParse, FinishParse, CopyParse, DestroyParse, ReuseParse, ReuseOther
<1>2. \A p \in Data : Queued(p)' = Queued(p)
  BY <1>1 DEF Queued
<1>3. RingShape'
  BY <1>1 DEF Inv, RingShape
<1>4. IsRing(q)' /\ (q.size <= MaxSize)'
  BY <1>1 DEF Inv, TypeOK
<1>5. \A k \in 1 .. q.count : /\ Items(q)[k] \in Data
                              /\ p_state[Items(q)[k]] = "done"
                              /\ Queued(Items(q)[k]) > 0
  BY QueueFacts DEF Inv, QueuedIntact
<1>6. /\ p_refs \in [Data -> Nat] /\ held \in [Data -> 0 .. MaxHeld]
      /\ p_state \in [Data -> {"free", "fresh", "done"}]
      /\ MaxHeld \in Nat \ {0}
      /\ \A p \in Data : Queued(p) \in Nat
      /\ \A p \in Data : p_refs[p] = held[p] + Queued(p)
      /\ \A p \in Data : p_state[p] = "free" <=> p_refs[p] = 0
  BY QueueFacts, QueueAssumption, RingAssumption DEF Inv, TypeOK, RefsExact, FreedLast
<1> DEFINE Goal ==
      /\ p_refs' \in [Data -> Nat] /\ held' \in [Data -> 0 .. MaxHeld]
      /\ p_state' \in [Data -> {"free", "fresh", "done"}]
      /\ \A p \in Data : p_refs'[p] = held'[p] + Queued(p)
      /\ \A p \in Data : p_state'[p] = "free" <=> p_refs'[p] = 0
      /\ \A p \in Data : Queued(p) > 0 /\ p_state[p] = "done" => p_state'[p] = "done"
<1>7. Goal
  <2>1. ASSUME NEW p \in Data, CreateParse(p) PROVE Goal
    BY <1>6, <2>1 DEF CreateParse
  <2>2. ASSUME NEW p \in Data, FinishParse(p) PROVE Goal
    BY <1>6, <2>2 DEF FinishParse
  <2>3. ASSUME NEW p \in Data, CopyParse(p) PROVE Goal
    <3>1. held[p] + 1 \in 0 .. MaxHeld /\ p_refs[p] + 1 \in Nat \ {0}
      BY <1>6, <2>3 DEF CopyParse
    <3>2. /\ p_refs' = [p_refs EXCEPT ![p] = p_refs[p] + 1]
          /\ held' = [held EXCEPT ![p] = held[p] + 1]
          /\ p_state' = p_state /\ p_state[p] = "done"
      BY <2>3 DEF CopyParse
    <3>3. QED
      BY <1>6, <3>1, <3>2
  <2>4. ASSUME NEW p \in Data, DestroyParse(p) PROVE Goal
    BY <1>6, <2>4 DEF DestroyParse
  <2>5. ASSUME NEW p \in Data, ReuseParse(p) PROVE Goal
    BY <1>6, <2>5 DEF ReuseParse
  <2>6. ASSUME NEW p \in Data, NEW px \in Data, ReuseOther(p, px) PROVE Goal
    BY <1>6, <2>6 DEF ReuseOther
  <2>7. QED
    BY <2>1, <2>2, <2>3, <2>4, <2>5, <2>6 DEF ParseNext
<1>8. QueuedIntact'
  BY <1>1, <1>5, <1>7 DEF QueuedIntact
<1>9. RefsExact' /\ FreedLast'
  BY <1>2, <1>7 DEF RefsExact, FreedLast
<1>10. TypeOK'
  BY <1>4, <1>7 DEF TypeOK
<1>11. QED
  BY <1>3, <1>8, <1>9, <1>10 DEF Inv

\* Queueing a message: the ring may grow.
LEMMA AddTailStep ==
    ASSUME Inv, NEW p \in Data, QueueAddTail(p)
    PROVE  Inv'
<1> USE DEF Parses
<1>1. /\ IsRing(q) /\ InShape(q) /\ q.size \in Nat /\ q.size <= MaxSize
      /\ MaxSize \in Nat
  BY QueueAssumption, RingAssumption DEF Inv, TypeOK, RingShape, IsRing
<1>2. /\ IsRing(q') /\ InShape(q')
      /\ Items(q') = Append(Items(q), p)
      /\ q'.size = IF Full(q) THEN q.size + 1 ELSE q.size
  BY <1>1, AddTailRing DEF QueueAddTail
<1>3. q'.size <= MaxSize
  BY <1>1, <1>2 DEF QueueAddTail
<1>4. Len(Items(q')) = q'.count /\ q'.count = q.count + 1
  <2>1. Len(Items(q')) = q'.count
    BY <1>2, ItemsType
  <2>2. Len(Items(q')) = q.count + 1
    BY <1>2, QueueFacts
  <2>3. QED
    BY <2>1, <2>2
<1>5. \A x \in Data : Queued(x)' = IF x = p THEN Queued(x) + 1 ELSE Queued(x)
  BY <1>2, OccursAppend, QueueFacts DEF Queued
<1>6. /\ p_refs' = [p_refs EXCEPT ![p] = p_refs[p] + 1]
      /\ held' = held /\ p_state' = p_state /\ p_state[p] = "done"
  BY DEF QueueAddTail
<1>7. /\ p_refs \in [Data -> Nat] /\ held \in [Data -> 0 .. MaxHeld]
      /\ p_state \in [Data -> {"free", "fresh", "done"}]
      /\ MaxHeld \in Nat
      /\ \A x \in Data : Queued(x) \in Nat
      /\ \A x \in Data : p_refs[x] = held[x] + Queued(x)
      /\ \A x \in Data : p_state[x] = "free" <=> p_refs[x] = 0
  BY QueueFacts, QueueAssumption, RingAssumption DEF Inv, TypeOK, RefsExact, FreedLast
<1>8. TypeOK'
  <2>1. p_refs' \in [Data -> Nat]
    BY <1>6, <1>7
  <2>2. QED
    BY <1>2, <1>3, <1>6, <1>7, <2>1 DEF TypeOK
<1>9. RefsExact'
  <2>1. \A x \in Data : p_refs'[x] = held[x] + Queued(x)'
    BY <1>5, <1>6, <1>7
  <2>2. QED
    BY <1>6, <2>1 DEF RefsExact
<1>10. FreedLast'
  BY <1>6, <1>7 DEF FreedLast
<1>11. QueuedIntact'
  <2>1. ASSUME NEW k \in 1 .. q'.count PROVE p_state[Items(q')[k]] = "done"
    <3>1. CASE k = q.count + 1
      BY <1>2, <1>6, <3>1, QueueFacts
    <3>2. CASE k \in 1 .. q.count
      <4>1. Items(q')[k] = Items(q)[k]
        BY <1>2, <3>2, QueueFacts
      <4>2. QED
        BY <3>2, <4>1 DEF Inv, QueuedIntact
    <3>3. QED
      BY <1>4, <3>1, <3>2, QueueFacts
  <2>2. QED
    BY <1>6, <2>1 DEF QueuedIntact
<1>12. QED
  BY <1>2, <1>8, <1>9, <1>10, <1>11 DEF Inv, RingShape

\* The reference of the oldest entry moves to the caller.
LEMMA RemoveHeadStep ==
    ASSUME Inv, QueueRemoveHead
    PROVE  Inv'
<1> USE DEF Parses
<1> DEFINE p == q.slot[q.head]
<1>1. IsRing(q) /\ InShape(q) /\ q.count > 0 /\ q.size <= MaxSize
  BY DEF Inv, TypeOK, RingShape, QueueRemoveHead
<1>2. /\ IsRing(q') /\ InShape(q') /\ q'.size = q.size
      /\ Items(q') = Without(Items(q), 1)
      /\ p = Items(q)[1] /\ p \in Data
  BY <1>1, RemoveHeadRing DEF QueueRemoveHead
<1>3. /\ held' = [held EXCEPT ![p] = held[p] + 1] /\ held[p] < MaxHeld
      /\ p_refs' = p_refs /\ p_state' = p_state
  BY DEF QueueRemoveHead
<1> HIDE DEF p
<1>4. Len(Items(q)) > 0
  BY <1>1, QueueFacts
<1>5. \A x \in Data : Queued(x)' = IF x = p THEN Queued(x) - 1 ELSE Queued(x)
  BY <1>2, <1>4, OccursFirst, QueueFacts DEF Queued
<1>6. /\ p_refs \in [Data -> Nat] /\ held \in [Data -> 0 .. MaxHeld]
      /\ p_state \in [Data -> {"free", "fresh", "done"}]
      /\ MaxHeld \in Nat
      /\ \A x \in Data : Queued(x) \in Nat
      /\ \A x \in Data : p_refs[x] = held[x] + Queued(x)
  BY QueueFacts, QueueAssumption, RingAssumption DEF Inv, TypeOK, RefsExact
<1>7. TypeOK'
  <2>1. held' \in [Data -> 0 .. MaxHeld]
    BY <1>2, <1>3, <1>6
  <2>2. QED
    BY <1>1, <1>2, <1>3, <1>6, <2>1 DEF TypeOK
<1>8. RefsExact'
  <2>1. \A x \in Data : p_refs[x] = held'[x] + Queued(x)'
    BY <1>2, <1>3, <1>5, <1>6
  <2>2. QED
    BY <1>3, <2>1 DEF RefsExact
<1>9. FreedLast'
  BY <1>3 DEF Inv, FreedLast
<1>10. QueuedIntact'
  <2>1. q'.count = q.count - 1 /\ q.count \in Nat
    BY QueueFacts DEF QueueRemoveHead, RemoveHead, MakeRing
  <2>2. ASSUME NEW k \in 1 .. q'.count PROVE p_state[Items(q')[k]] = "done"
    <3>1. k + 1 \in 1 .. q.count /\ Items(q')[k] = Items(q)[k + 1]
      BY <1>2, <2>1, QueueFacts DEF Without
    <3>2. QED
      BY <3>1 DEF Inv, QueuedIntact
  <2>3. QED
    BY <1>3, <2>2 DEF QueuedIntact
<1>11. QED
  BY <1>2, <1>7, <1>8, <1>9, <1>10 DEF Inv, RingShape

\* Every reference of the queue is given up.
LEMMA DropStep ==
    ASSUME Inv, DestroyQueued, q' = Cleared(q) \/ q' = EmptyRing
    PROVE  Inv'
<1> USE DEF Parses
<1>1. IsRing(q) /\ InShape(q) /\ q.size <= MaxSize /\ MaxSize \in Nat
  BY QueueAssumption, RingAssumption DEF Inv, TypeOK, RingShape
<1>2. /\ IsRing(q') /\ InShape(q') /\ q'.size <= MaxSize
      /\ Items(q') = << >>
  BY <1>1, ClearedRing, EmptyRingRing
<1>3. q'.count = 0
  BY <1>2, ItemsType
<1>4. \A x \in Data : Queued(x)' = 0
  BY <1>2, OccursNone DEF Queued
<1>5. /\ p_refs \in [Data -> Nat] /\ held \in [Data -> 0 .. MaxHeld]
      /\ p_state \in [Data -> {"free", "fresh", "done"}]
      /\ MaxHeld \in Nat
      /\ \A x \in Data : Queued(x) \in Nat
      /\ \A x \in Data : p_refs[x] = held[x] + Queued(x)
      /\ \A x \in Data : p_state[x] = "free" <=> p_refs[x] = 0
  BY QueueFacts, QueueAssumption, RingAssumption DEF Inv, TypeOK, RefsExact, FreedLast
<1>6. /\ p_refs' = [x \in Data |-> p_refs[x] - Queued(x)]
      /\ p_state' = [x \in Data |->
                       IF Queued(x) > 0 /\ p_refs[x] <= Queued(x)
                       THEN "free" ELSE p_state[x]]
      /\ held' = held
  BY DEF DestroyQueued
<1>7. TypeOK'
  <2>1. p_refs' \in [Data -> Nat] /\ p_state' \in [Data -> {"free", "fresh", "done"}]
    BY <1>5, <1>6
  <2>2. QED
    BY <1>2, <1>5, <1>6, <2>1 DEF TypeOK
<1>8. RefsExact'
  <2>1. \A x \in Data : p_refs'[x] = held[x] + 0
    BY <1>5, <1>6
  <2>2. QED
    BY <1>4, <1>6, <2>1 DEF RefsExact
<1>9. FreedLast'
  <2>1. ASSUME NEW x \in Data PROVE p_state'[x] = "free" <=> p_refs'[x] = 0
    <3>1. /\ p_refs'[x] = p_refs[x] - Queued(x) /\ p_refs[x] \in Nat /\ Queued(x) \in Nat
          /\ p_refs[x] >= Queued(x)
          /\ p_state[x] = "free" <=> p_refs[x] = 0
      BY <1>5, <1>6
    <3>2. p_state'[x] = IF Queued(x) > 0 /\ p_refs[x] <= Queued(x)
                        THEN "free" ELSE p_state[x]
      BY <1>6
    <3>3. QED
      BY <3>1, <3>2
  <2>2. QED
    BY <2>1 DEF FreedLast
<1>10. QueuedIntact'
  BY <1>3 DEF QueuedIntact
<1>11. QED
  BY <1>2, <1>7, <1>8, <1>9, <1>10 DEF Inv, RingShape

\* The inductive invariant holds in every reachable state.
THEOREM QueueInvariant == Spec => []Inv
<1>1. Init => Inv
  <2> SUFFICES ASSUME Init PROVE Inv
    OBVIOUS
  <2>1. IsRing(q) /\ InShape(q) /\ Items(q) = << >> /\ q.size = 0
    BY EmptyRingRing DEF Init
  <2>2. q.count = 0
    BY <2>1, ItemsType
  <2>3. \A x : Queued(x) = 0
    BY <2>1, OccursNone DEF Queued
  <2>4. QED
    BY <2>1, <2>2, <2>3, QueueAssumption, RingAssumption
    DEF Init, Inv, TypeOK, RingShape, RefsExact, FreedLast, QueuedIntact, Parses
<1>2. Inv /\ [Next]_vars => Inv'
  <2> SUFFICES ASSUME Inv, [Next]_vars PROVE Inv'
    OBVIOUS
  <2>1. CASE ParseNext
    BY <2>1, ParseStep
  <2>2. ASSUME NEW p \in Parses, QueueAddTail(p) PROVE Inv'
    BY <2>2, AddTailStep DEF Parses
  <2>3. CASE QueueRemoveHead
    BY <2>3, RemoveHeadStep
  <2>4. CASE QueueClear \/ QueueDestroy
    BY <2>4, DropStep DEF QueueClear, QueueDestroy
  <2>5. CASE UNCHANGED vars
    <3>1. \A x : Queued(x)' = Queued(x)
      BY <2>5 DEF vars, Queued
    <3>2. QED
      BY <2>5, <3>1 DEF vars, pvars, Inv, TypeOK, RingShape, RefsExact, FreedLast, QueuedIntact
  <2>6. QED
    BY <2>1, <2>2, <2>3, <2>4, <2>5 DEF Next, QueueNext
<1>3. QED
  BY <1>1, <1>2, PTL DEF Spec

\* Types, and the ring never outgrows the memory available.
THEOREM TypeCorrect == Spec => []TypeOK
BY QueueInvariant, PTL DEF Inv

\* The slots in use of the ring are the ones that hold a message.
THEOREM ShapeKept == Spec => []RingShape
BY QueueInvariant, PTL DEF Inv

\* Every reference count is the number of references there are.
THEOREM RefsCounted == Spec => []RefsExact
BY QueueInvariant, PTL DEF Inv

\* A message is freed with its last reference, never earlier.
THEOREM FreedWithLast == Spec => []FreedLast
BY QueueInvariant, PTL DEF Inv

\* What is queued is neither freed nor cleared.
THEOREM QueuedSafe == Spec => []QueuedIntact
BY QueueInvariant, PTL DEF Inv

(***************************************************************************)
(* Refinement: the ring is a first-in first-out queue of messages.         *)
(***************************************************************************)

\* Whatever its size, however often it wraps around, grows or is cleared, the
\* ring implements the abstract queue.
THEOREM ImplementsFifo == Spec => FifoSpec
<1>1. Init => Queue!Init
  BY EmptyRingRing DEF Init, Queue!Init
<1>2. Inv /\ [Next]_vars => [Queue!Next]_(Items(q))
  <2> SUFFICES ASSUME Inv, [Next]_vars PROVE [Queue!Next]_(Items(q))
    OBVIOUS
  <2>0. IsRing(q) /\ InShape(q)
    BY DEF Inv, TypeOK, RingShape
  <2>1. CASE ParseNext \/ UNCHANGED vars
    <3>1. q' = q
      BY <2>1 DEF ParseNext, CreateParse, FinishParse, CopyParse, DestroyParse,
                  ReuseParse, ReuseOther, vars
    <3>2. QED
      BY <3>1
  <2>2. ASSUME NEW p \in Data, QueueAddTail(p) PROVE Queue!Next
    <3>1. Items(q') = Append(Items(q), p)
      BY <2>0, <2>2, AddTailRing DEF QueueAddTail
    <3>2. QED
      BY <3>1 DEF Queue!Next, Queue!Add
  <2>3. CASE QueueRemoveHead
    <3>1. Items(q') = Without(Items(q), 1) /\ q.count > 0
      BY <2>0, <2>3, RemoveHeadRing DEF QueueRemoveHead
    <3>2. Items(q) # << >>
      BY <3>1, QueueFacts
    <3>3. QED
      BY <3>1, <3>2 DEF Queue!Next, Queue!Take, Without
  <2>4. CASE QueueClear \/ QueueDestroy
    <3>1. Items(q') = << >>
      BY <2>0, <2>4, ClearedRing, EmptyRingRing DEF QueueClear, QueueDestroy
    <3>2. QED
      BY <3>1 DEF Queue!Next, Queue!Drop
  <2>5. QED
    BY <2>1, <2>2, <2>3, <2>4 DEF Next, QueueNext, Parses
<1>3. QED
  BY <1>1, <1>2, QueueInvariant, PTL DEF Spec, FifoSpec, Queue!Spec

-----------------------------------------------------------------------------
(* The generic queue. *)

\* The two invariants together: each is used to show that an operation of
\* the ring preserves the others.
GueueInv == GueueTypeOK /\ GueueShape

\* What a step does to the ring and to the entries it holds.
LEMMA GueueRingStep ==
    ASSUME GueueInv, GueueNext
    PROVE  GueueInv' /\ GueueFifo!NextAny
<1>0. IsRing(g) /\ InShape(g) /\ g.size \in Nat /\ g.count \in Nat /\ g.size <= MaxSize
  BY DEF GueueInv, GueueTypeOK, GueueShape, IsRing
<1>1. ASSUME NEW x \in Data, GueueAddTail(x) PROVE GueueInv' /\ GueueFifo!NextAny
  <2>1. /\ IsRing(g') /\ InShape(g') /\ Items(g') = Append(Items(g), x)
        /\ g'.size = IF Full(g) THEN g.size + 1 ELSE g.size
    BY <1>0, <1>1, AddTailRing DEF GueueAddTail
  <2>2. g'.size <= MaxSize
    BY <1>0, <1>1, <2>1, RingAssumption DEF GueueAddTail
  <2>3. GueueFifo!NextAny
    BY <2>1 DEF GueueFifo!NextAny, GueueFifo!Next, GueueFifo!Add
  <2>4. QED
    BY <2>1, <2>2, <2>3 DEF GueueInv, GueueTypeOK, GueueShape
<1>2. ASSUME NEW k \in 0 .. g.count - 1, g' = RemoveIndex(g, SlotOf(g, k))
      PROVE  GueueInv' /\ GueueFifo!NextAny
  <2>1. /\ IsRing(g') /\ InShape(g') /\ g'.size = g.size
        /\ Items(g') = Without(Items(g), k + 1)
    BY <1>0, <1>2, RemoveIndexRing
  <2>2. k + 1 \in 1 .. Len(Items(g))
    BY <1>0, ItemsType
  <2>3. GueueFifo!Take(k + 1)
    BY <2>1 DEF GueueFifo!Take, Without
  <2>4. GueueFifo!NextAny
    BY <2>2, <2>3 DEF GueueFifo!NextAny
  <2>5. QED
    BY <1>0, <2>1, <2>4 DEF GueueInv, GueueTypeOK, GueueShape
<1>3. ASSUME GueueRemoveHead PROVE GueueInv' /\ GueueFifo!NextAny
  <2>1. /\ IsRing(g') /\ InShape(g') /\ g'.size = g.size
        /\ Items(g') = Without(Items(g), 1) /\ 1 \in 1 .. g.count
    BY <1>0, <1>3, RemoveHeadRing DEF GueueRemoveHead
  <2>2. 1 \in 1 .. Len(Items(g)) /\ GueueFifo!Take(1)
    BY <1>0, <2>1, ItemsType DEF GueueFifo!Take, Without
  <2>3. GueueFifo!NextAny
    BY <2>2 DEF GueueFifo!NextAny
  <2>4. QED
    BY <1>0, <2>1, <2>3 DEF GueueInv, GueueTypeOK, GueueShape
<1>4. ASSUME GueueClear \/ GueueDestroy PROVE GueueInv' /\ GueueFifo!NextAny
  <2>1. IsRing(g') /\ InShape(g') /\ Items(g') = << >> /\ g'.size <= MaxSize
    BY <1>0, <1>4, ClearedRing, EmptyRingRing, RingAssumption DEF GueueClear, GueueDestroy
  <2>2. GueueFifo!NextAny
    BY <2>1 DEF GueueFifo!NextAny, GueueFifo!Next, GueueFifo!Drop
  <2>3. QED
    BY <2>1, <2>2 DEF GueueInv, GueueTypeOK, GueueShape
<1>5. QED
  BY <1>1, <1>2, <1>3, <1>4 DEF GueueNext, GueueRemoveDatum, GueueRemoveFromHead

\* Every reachable ring is well formed: the slots in use are exactly the
\* ones that hold an entry, wherever entries have been taken out.
THEOREM GueueInvariant == GueueSpec => [](GueueTypeOK /\ GueueShape)
<1>1. GueueInit => GueueInv
  BY EmptyRingRing, RingAssumption DEF GueueInit, GueueInv, GueueTypeOK, GueueShape
<1>2. GueueInv /\ [GueueNext]_g => GueueInv'
  BY GueueRingStep DEF GueueInv, GueueTypeOK, GueueShape
<1>3. QED
  BY <1>1, <1>2, PTL DEF GueueSpec, GueueInv

\* Removing an entry from any position leaves the others in the order in
\* which they were queued.
THEOREM GueueOrder == GueueSpec => OrderKept
<1>1. GueueInit => GueueFifo!Init
  BY EmptyRingRing DEF GueueInit, GueueFifo!Init
<1>2. GueueTypeOK /\ GueueShape /\ [GueueNext]_g => [GueueFifo!NextAny]_(Items(g))
  <2> SUFFICES ASSUME GueueTypeOK, GueueShape, [GueueNext]_g PROVE [GueueFifo!NextAny]_(Items(g))
    OBVIOUS
  <2>1. CASE GueueNext
    BY <2>1, GueueRingStep DEF GueueInv
  <2>2. CASE UNCHANGED g
    BY <2>2
  <2>3. QED
    BY <2>1, <2>2
<1>3. QED
  BY <1>1, <1>2, GueueInvariant, PTL DEF GueueSpec, OrderKept, GueueFifo!SpecAny

=============================================================================
