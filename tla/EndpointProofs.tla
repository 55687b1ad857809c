--------------------------- MODULE EndpointProofs ---------------------------
(***************************************************************************)
(* Whatever the number of endpoints and messages, and in whatever order    *)
(* their owners create, use and release them: no reference to a freed      *)
(* endpoint, no message lost or queued twice, no request left unanswered,  *)
(* and no sleep with work to do.                                           *)
(***************************************************************************)
EXTENDS Endpoint, FiniteSetTheorems, SequenceTheorems, TLAPS

-----------------------------------------------------------------------------
(* The inductive invariant.                                                 *)

Elems(q) == {q[i] : i \in 1 .. Len(q)}

Inj(q) == \A i, j \in 1 .. Len(q) : q[i] = q[j] => i = j

From(e) == {m \in Allocated : message[m].from = e}
To(e) == {m \in Allocated : message[m].to = e}

DataTyped ==
    /\ s_endpoints \in Seq(Endpoints)
    /\ e_state \in [Endpoints -> SUBSET {"UP", "RX", "TX"}]
    /\ e_refcount \in [Endpoints -> Nat]
    /\ e_queue \in [Endpoints -> Seq(Messages)]
    /\ e_precedence \in [Endpoints -> {"LOW", "HIGH"}]
    /\ message \in [Messages -> Message \cup {NULL}]
    /\ held \in [Endpoints -> 0 .. MaxHeld]

\* QueuesExact, as sets.
Queued ==
    \A e \in Endpoints :
        /\ Inj(e_queue[e]) /\ Elems(e_queue[e]) = To(e)
        /\ e_queue[e] # << >> => Up(e)

Counted == \A e \in Endpoints : e_refcount[e] = held[e] + Cardinality(From(e)) + Cardinality(To(e))

\* A message is between two endpoints, the second of which was created with a
\* wake function, and only a request wants an acknowledgement.
Proper ==
    \A m \in Allocated :
        /\ message[m].from \in Listed /\ message[m].to \in Listed
        /\ message[m].from # message[m].to
        /\ message[m].to \in Wakes
        /\ message[m].wack => message[m].type = "request"

\* What is not up neither sends nor receives, and what has no wake function
\* does not receive.
Flagged ==
    \A e \in Endpoints :
        /\ Receiving(e) => Up(e) /\ e \in Wakes
        /\ "TX" \in e_state[e] => Up(e)

\* An endpoint is in the list once; if it is up or referred to by a client it is.
Linked ==
    /\ Inj(s_endpoints)
    /\ \A e \in Endpoints : held[e] > 0 \/ Up(e) => e \in Listed

Data == DataTyped /\ Queued /\ Counted /\ Proper /\ Flagged /\ Linked

\* While the callback runs its message stays where it is, and while an endpoint
\* is flushed it stays up.
Loop ==
    /\ s_busy \in BOOLEAN
    /\ at \in {"load", "select", "run", "visit", "call", "leave", "flush"}
    /\ IF at \in {"visit", "call", "leave", "flush"} THEN ep \in Endpoints /\ ep \in Listed ELSE ep = NULL
    /\ IF at = "call" THEN msg \in Elems(e_queue[ep]) ELSE msg = NULL
    /\ at = "flush" => Up(ep)
    /\ SleepsOnlyIdle

EndpointInv == Data /\ Loop

-----------------------------------------------------------------------------
(* Queues and lists whose entries differ.                                   *)

LEMMA ElemsNone ==
    ASSUME NEW S, NEW q \in Seq(S)
    PROVE  q # << >> <=> Elems(q) # {}
<1>1. CASE q = << >>
  BY <1>1 DEF Elems
<1>2. CASE q # << >>
  <2>1. 1 \in 1 .. Len(q)
    BY <1>2
  <2>2. QED
    BY <1>2, <2>1 DEF Elems
<1>3. QED
  BY <1>1, <1>2

LEMMA ElemsAppend ==
    ASSUME NEW S, NEW q \in Seq(S), Inj(q), NEW x \in S, x \notin Elems(q)
    PROVE  /\ Append(q, x) \in Seq(S)
           /\ Inj(Append(q, x)) /\ Elems(Append(q, x)) = Elems(q) \cup {x}
<1> DEFINE n == Len(q)
           r == Append(q, x)
<1>1. /\ n \in Nat /\ r \in Seq(S) /\ Len(r) = n + 1 /\ r[n + 1] = x
      /\ \A i \in 1 .. n : r[i] = q[i] /\ i \in 1 .. n + 1
      /\ n + 1 \in 1 .. n + 1
      /\ \A i \in 1 .. n + 1 : i \in 1 .. n \/ i = n + 1
  OBVIOUS
<1> HIDE DEF r
<1>2. Elems(r) = Elems(q) \cup {x}
  <2>1. \A y : y \in Elems(r) <=> \E i \in 1 .. n + 1 : r[i] = y
    BY <1>1 DEF Elems
  <2>2. \A y : y \in Elems(q) <=> \E i \in 1 .. n : r[i] = y
    BY <1>1 DEF Elems
  <2>3. QED
    BY <1>1, <2>1, <2>2
<1>3. \A i \in 1 .. n : r[i] # x
  BY <1>1 DEF Elems
<1>4. Inj(r)
  BY <1>1, <1>3 DEF Inj
<1>5. QED
  BY <1>1, <1>2, <1>4 DEF r

\* A new endpoint is the first of the list.
LEMMA ElemsFront ==
    ASSUME NEW S, NEW q \in Seq(S), Inj(q), NEW x \in S, x \notin Elems(q)
    PROVE  /\ <<x>> \o q \in Seq(S)
           /\ Inj(<<x>> \o q) /\ Elems(<<x>> \o q) = Elems(q) \cup {x}
<1> DEFINE n == Len(q)
           r == <<x>> \o q
<1>1. /\ n \in Nat /\ r \in Seq(S) /\ Len(r) = n + 1 /\ r[1] = x
      /\ \A i \in 1 .. n : r[i + 1] = q[i] /\ i + 1 \in 1 .. n + 1
      /\ 1 \in 1 .. n + 1
      /\ \A i \in 1 .. n + 1 : i = 1 \/ (i - 1 \in 1 .. n /\ (i - 1) + 1 = i)
  OBVIOUS
<1> HIDE DEF r
<1>2. \A i \in 1 .. n + 1 : i = 1 \/ (i - 1 \in 1 .. n /\ r[i] = q[i - 1])
  BY <1>1
<1>3. Elems(r) = Elems(q) \cup {x}
  <2>1. \A y : y \in Elems(r) <=> \E i \in 1 .. n + 1 : r[i] = y
    BY <1>1 DEF Elems
  <2>2. \A y : y \in Elems(q) <=> \E i \in 1 .. n : q[i] = y
    BY DEF Elems
  <2>3. ASSUME NEW y \in Elems(r)
        PROVE  y \in Elems(q) \cup {x}
    BY <1>1, <1>2, <2>1, <2>2
  <2>4. x \in Elems(r)
    BY <1>1, <2>1
  <2>5. ASSUME NEW y \in Elems(q)
        PROVE  y \in Elems(r)
    <3>1. PICK i \in 1 .. n : q[i] = y
      BY <2>2
    <3>2. i + 1 \in 1 .. n + 1 /\ r[i + 1] = y
      BY <1>1, <3>1
    <3>3. QED
      BY <2>1, <3>2
  <2>6. QED
    BY <2>3, <2>4, <2>5
<1>4. \A i \in 1 .. n : q[i] # x
  BY DEF Elems
<1>5. Inj(r)
  <2>1. SUFFICES ASSUME NEW i \in 1 .. n + 1, NEW j \in 1 .. n + 1, r[i] = r[j]
                 PROVE  i = j
    BY <1>1 DEF Inj
  <2>2. CASE i = 1
    BY <1>1, <1>2, <1>4, <2>1, <2>2
  <2>3. CASE j = 1
    BY <1>1, <1>2, <1>4, <2>1, <2>3
  <2>4. CASE i # 1 /\ j # 1
    <3>1. i - 1 \in 1 .. n /\ j - 1 \in 1 .. n /\ q[i - 1] = q[j - 1]
      BY <1>2, <2>1, <2>4
    <3>2. i - 1 = j - 1
      BY <3>1 DEF Inj
    <3>3. QED
      BY <3>2
  <2>5. QED
    BY <2>2, <2>3, <2>4
<1>6. QED
  BY <1>1, <1>3, <1>5 DEF r

\* remove_datum_gueue_katcl, and an endpoint that is unlinked.
LEMMA ElemsWithout ==
    ASSUME NEW S, NEW q \in Seq(S), Inj(q), NEW k \in 1 .. Len(q),
           NEW r, r = [i \in 1 .. Len(q) - 1 |-> IF i < k THEN q[i] ELSE q[i + 1]]
    PROVE  r \in Seq(S) /\ Inj(r) /\ Elems(r) = Elems(q) \ {q[k]}
<1> DEFINE n == Len(q)
<1>1. n \in Nat /\ n - 1 \in Nat /\ k \in 1 .. n /\ \A i \in 1 .. n : q[i] \in S
  OBVIOUS
<1>2. \A i \in 1 .. n - 1 : /\ r[i] = IF i < k THEN q[i] ELSE q[i + 1]
                            /\ i \in 1 .. n /\ i + 1 \in 1 .. n
  BY <1>1
<1>3. r \in Seq(S) /\ Len(r) = n - 1
  <2>1. \A i \in 1 .. n - 1 : (IF i < k THEN q[i] ELSE q[i + 1]) \in S
    BY <1>1, <1>2
  <2>2. QED
    BY <1>1, <2>1, IsASeq
<1>4. ASSUME NEW i \in 1 .. n - 1, NEW j \in 1 .. n - 1, r[i] = r[j]
      PROVE  i = j
  BY <1>1, <1>2, <1>4 DEF Inj
<1>5. ASSUME NEW y \in Elems(r)
      PROVE  y \in Elems(q) /\ y # q[k]
  <2>1. PICK i \in 1 .. n - 1 : r[i] = y
    BY <1>3 DEF Elems
  <2>2. CASE i < k
    <3>1. y = q[i] /\ i \in 1 .. n /\ i # k
      BY <1>1, <1>2, <2>1, <2>2
    <3>2. QED
      BY <3>1 DEF Elems, Inj
  <2>3. CASE ~(i < k)
    <3>1. y = q[i + 1] /\ i + 1 \in 1 .. n /\ i + 1 # k
      BY <1>1, <1>2, <2>1, <2>3
    <3>2. QED
      BY <3>1 DEF Elems, Inj
  <2>4. QED
    BY <2>2, <2>3
<1>6. ASSUME NEW y \in Elems(q), y # q[k]
      PROVE  y \in Elems(r)
  <2>1. PICK i \in 1 .. n : q[i] = y
    BY DEF Elems
  <2>2. CASE i < k
    <3>1. i \in 1 .. n - 1 /\ r[i] = y
      BY <1>1, <1>2, <2>1, <2>2
    <3>2. QED
      BY <1>3, <3>1 DEF Elems
  <2>3. CASE i > k
    <3>1. i - 1 \in 1 .. n - 1 /\ ~(i - 1 < k) /\ (i - 1) + 1 = i
      BY <1>1, <2>1, <2>3
    <3>2. r[i - 1] = y
      BY <1>2, <2>1, <3>1
    <3>3. QED
      BY <1>3, <3>1, <3>2 DEF Elems
  <2>4. QED
    BY <1>1, <1>6, <2>1, <2>2, <2>3
<1>7. Inj(r)
  BY <1>3, <1>4 DEF Inj
<1>8. QED
  BY <1>3, <1>5, <1>6, <1>7

\* The queue without its head.
LEMMA ElemsTail ==
    ASSUME NEW S, NEW q \in Seq(S), q # << >>, Inj(q)
    PROVE  Tail(q) \in Seq(S) /\ Inj(Tail(q)) /\ Elems(Tail(q)) = Elems(q) \ {Head(q)} /\ Head(q) \in Elems(q)
<1> DEFINE r == [i \in 1 .. Len(q) - 1 |-> IF i < 1 THEN q[i] ELSE q[i + 1]]
<1>1. 1 \in 1 .. Len(q) /\ Head(q) = q[1]
  OBVIOUS
<1>2. \A i \in 1 .. Len(q) - 1 : r[i] = Tail(q)[i]
  OBVIOUS
<1>3. r \in Seq(S) /\ Inj(r) /\ Elems(r) = Elems(q) \ {q[1]}
  BY <1>1, ElemsWithout
<1>4. Tail(q) = r
  <2>1. Tail(q) \in Seq(S) /\ Len(Tail(q)) = Len(q) - 1 /\ Len(r) = Len(q) - 1
    OBVIOUS
  <2>2. QED
    BY <1>2, <1>3, <2>1, SeqEqual
<1> HIDE DEF r
<1>5. q[1] \in Elems(q)
  BY <1>1 DEF Elems
<1>6. QED
  BY <1>1, <1>3, <1>4, <1>5

-----------------------------------------------------------------------------
(* Counting.                                                                *)

\* One element more or less.
LEMMA CountChange ==
    ASSUME NEW A, NEW B, IsFiniteSet(A), NEW x, B \ {x} = A \ {x}
    PROVE  /\ IsFiniteSet(B) /\ Cardinality(A) \in Nat /\ Cardinality(B) \in Nat
           /\ Cardinality(B) = Cardinality(A) + (IF x \in B THEN 1 ELSE 0) - (IF x \in A THEN 1 ELSE 0)
<1> DEFINE C == A \ {x}
<1>1. IsFiniteSet(C) /\ Cardinality(C) \in Nat /\ Cardinality(A) \in Nat
  BY FS_RemoveElement, FS_CardinalityType
<1>2. Cardinality(A) = Cardinality(C) + (IF x \in A THEN 1 ELSE 0)
  BY <1>1, FS_RemoveElement
<1>3. CASE x \in B
  <2>1. B = C \cup {x} /\ x \notin C
    BY <1>3
  <2>2. IsFiniteSet(B) /\ Cardinality(B) = Cardinality(C) + 1
    BY <1>1, <2>1, FS_AddElement
  <2>3. QED
    BY <1>1, <1>2, <1>3, <2>2
<1>4. CASE x \notin B
  <2>1. B = C
    BY <1>4
  <2>2. QED
    BY <1>1, <1>2, <1>4, <2>1
<1>5. QED
  BY <1>3, <1>4

-----------------------------------------------------------------------------
(* What becomes of one message, and of the counts and queues with it.       *)

Becomes(m, v) == message'[m] = v /\ \A x \in Messages \ {m} : message'[x] = message[x]

LEMMA MessageSets ==
    ASSUME DataTyped, NEW m \in Messages, NEW v, Becomes(m, v), NEW e \in Endpoints
    PROVE  /\ From(e)' \ {m} = From(e) \ {m} /\ To(e)' \ {m} = To(e) \ {m}
           /\ m \in To(e)' <=> v # NULL /\ v.to = e
           /\ To(e)' = IF v # NULL /\ v.to = e THEN To(e) \cup {m} ELSE To(e) \ {m}
           /\ m \in From(e) <=> message[m] # NULL /\ message[m].from = e
           /\ m \in From(e)' <=> v # NULL /\ v.from = e
           /\ m \in To(e) <=> message[m] # NULL /\ message[m].to = e
<1>1. message'[m] = v /\ \A x \in Messages \ {m} : message'[x] = message[x]
  BY DEF Becomes
<1>2. /\ \A x : x \in From(e) <=> x \in Messages /\ message[x] # NULL /\ message[x].from = e
      /\ \A x : x \in To(e) <=> x \in Messages /\ message[x] # NULL /\ message[x].to = e
      /\ \A x : x \in From(e)' <=> x \in Messages /\ message'[x] # NULL /\ message'[x].from = e
      /\ \A x : x \in To(e)' <=> x \in Messages /\ message'[x] # NULL /\ message'[x].to = e
  BY DEF From, To, Allocated
<1>3. From(e)' \ {m} = From(e) \ {m} /\ To(e)' \ {m} = To(e) \ {m}
  BY <1>1, <1>2
<1>4. m \in To(e)' <=> v # NULL /\ v.to = e
  BY <1>1, <1>2
<1>5. To(e)' = IF v # NULL /\ v.to = e THEN To(e) \cup {m} ELSE To(e) \ {m}
  BY <1>3, <1>4
<1>6. QED
  BY <1>1, <1>2, <1>3, <1>4, <1>5

LEMMA CountsFinite ==
    ASSUME NEW e
    PROVE  /\ IsFiniteSet(From(e)) /\ IsFiniteSet(To(e))
           /\ Cardinality(From(e)) \in Nat /\ Cardinality(To(e)) \in Nat
<1>1. From(e) \subseteq Messages /\ To(e) \subseteq Messages
  BY DEF From, To, Allocated
<1>2. QED
  BY <1>1, EndpointAssumption, FS_Subset, FS_CardinalityType

LEMMA MessageCounts ==
    ASSUME DataTyped, NEW m \in Messages, NEW v, Becomes(m, v), NEW e \in Endpoints
    PROVE  /\ Cardinality(From(e)) \in Nat /\ Cardinality(To(e)) \in Nat
           /\ Cardinality(From(e)') \in Nat /\ Cardinality(To(e)') \in Nat
           /\ Cardinality(From(e)') = Cardinality(From(e))
                  + (IF v # NULL /\ v.from = e THEN 1 ELSE 0)
                  - (IF message[m] # NULL /\ message[m].from = e THEN 1 ELSE 0)
           /\ Cardinality(To(e)') = Cardinality(To(e))
                  + (IF v # NULL /\ v.to = e THEN 1 ELSE 0)
                  - (IF message[m] # NULL /\ message[m].to = e THEN 1 ELSE 0)
<1> DEFINE F == From(e)
           G == From(e)'
           T == To(e)
           U == To(e)'
<1>1. IsFiniteSet(F) /\ IsFiniteSet(T)
  BY CountsFinite
<1>2. /\ G \ {m} = F \ {m} /\ U \ {m} = T \ {m}
      /\ m \in F <=> message[m] # NULL /\ message[m].from = e
      /\ m \in G <=> v # NULL /\ v.from = e
      /\ m \in T <=> message[m] # NULL /\ message[m].to = e
      /\ m \in U <=> v # NULL /\ v.to = e
  BY MessageSets
<1> HIDE DEF F, G, T, U
<1>3. /\ Cardinality(F) \in Nat /\ Cardinality(G) \in Nat
      /\ Cardinality(G) = Cardinality(F) + (IF m \in G THEN 1 ELSE 0) - (IF m \in F THEN 1 ELSE 0)
  <2>1. G \ {m} = F \ {m} /\ IsFiniteSet(F)
    BY <1>1, <1>2
  <2>2. QED
    BY <2>1, CountChange
<1>4. /\ Cardinality(T) \in Nat /\ Cardinality(U) \in Nat
      /\ Cardinality(U) = Cardinality(T) + (IF m \in U THEN 1 ELSE 0) - (IF m \in T THEN 1 ELSE 0)
  <2>1. U \ {m} = T \ {m} /\ IsFiniteSet(T)
    BY <1>1, <1>2
  <2>2. QED
    BY <2>1, CountChange
<1>5. /\ Cardinality(G) = Cardinality(F)
             + (IF v # NULL /\ v.from = e THEN 1 ELSE 0)
             - (IF message[m] # NULL /\ message[m].from = e THEN 1 ELSE 0)
      /\ Cardinality(U) = Cardinality(T)
             + (IF v # NULL /\ v.to = e THEN 1 ELSE 0)
             - (IF message[m] # NULL /\ message[m].to = e THEN 1 ELSE 0)
  BY <1>2, <1>3, <1>4
<1>6. QED
  BY <1>3, <1>4, <1>5 DEF F, G, T, U

\* A message is in the queue of its recipient.
LEMMA QueuedTo ==
    ASSUME Data, NEW e \in Endpoints, NEW m
    PROVE  m \in Elems(e_queue[e]) <=> m \in Allocated /\ message[m].to = e
  BY DEF Data, Queued, To

LEMMA MessageFields ==
    ASSUME DataTyped, NEW m \in Allocated
    PROVE  /\ m \in Messages /\ message[m] # NULL
           /\ message[m].from \in Endpoints /\ message[m].to \in Endpoints
           /\ message[m].type \in Types /\ message[m].wack \in BOOLEAN
  BY DEF DataTyped, Allocated, Message

-----------------------------------------------------------------------------
(* The data, operation by operation.                                        *)

\* Only a message that is free is sent, so that it is in no queue.
LEMMA SendData ==
    ASSUME Data, NEW from \in Endpoints, NEW to \in Endpoints, NEW type \in Types, Send(from, to, type)
    PROVE  Data'
<1>1. DataTyped /\ Queued /\ Counted /\ Proper /\ Flagged /\ Linked
  BY DEF Data
<1>2. PICK m \in Messages \ Allocated :
          /\ message' = [message EXCEPT ![m] =
                            [from |-> from, to |-> to, type |-> type, wack |-> type = "request"]]
          /\ e_queue' = [e_queue EXCEPT ![to] = Append(@, m)]
  BY DEF Send
<1> DEFINE v == [from |-> from, to |-> to, type |-> type, wack |-> type = "request"]
<1>3. /\ m \in Messages /\ message[m] = NULL /\ message' = [message EXCEPT ![m] = v]
      /\ v \in Message /\ v # NULL
      /\ v.from = from /\ v.to = to /\ v.type = type /\ v.wack = (type = "request")
  <2>1. v \in Message
    BY DEF Message
  <2>2. v # NULL
    BY <2>1, NullAssumption
  <2>3. QED
    BY <1>2, <2>1, <2>2 DEF Allocated
<1> HIDE DEF v
<1>b. Becomes(m, v)
  BY <1>1, <1>3 DEF DataTyped, Becomes
<1>4. from # to /\ Up(from) /\ Up(to) /\ to \in Wakes /\ Receiving(to) /\ from \in Listed /\ to \in Listed
  BY <1>1 DEF Send, Sender, Flagged, Linked
<1>5. /\ UNCHANGED <<s_endpoints, e_state, held>>
      /\ e_refcount' = [e_refcount EXCEPT ![from] = @ + 1, ![to] = @ + 1]
      /\ e_precedence' = IF type = "reply" THEN [e_precedence EXCEPT ![from] = "LOW"] ELSE e_precedence
  BY DEF Send
<1>6. m \notin Elems(e_queue[to])
  BY <1>2, QueuedTo
<1>7. /\ e_refcount' \in [Endpoints -> Nat]
      /\ \A e \in Endpoints :
            e_refcount'[e] = e_refcount[e] + (IF from = e THEN 1 ELSE 0) + (IF to = e THEN 1 ELSE 0)
  <2>1. e_refcount \in [Endpoints -> Nat]
    BY <1>1 DEF DataTyped
  <2>2. e_refcount'[from] = e_refcount[from] + 1 /\ e_refcount'[to] = e_refcount[to] + 1
    BY <1>4, <1>5, <2>1
  <2>3. \A e \in Endpoints \ {from, to} : e_refcount'[e] = e_refcount[e]
    BY <1>4, <1>5, <2>1
  <2>4. e_refcount' \in [Endpoints -> Nat]
    BY <1>4, <1>5, <2>1
  <2>5. QED
    BY <1>4, <2>1, <2>2, <2>3, <2>4
<1>8. DataTyped'
  <2>1. e_queue' \in [Endpoints -> Seq(Messages)]
    BY <1>1, <1>2, <1>3, AppendProperties DEF DataTyped
  <2>2. message' \in [Messages -> Message \cup {NULL}]
    BY <1>1, <1>3 DEF DataTyped
  <2>3. e_refcount' \in [Endpoints -> Nat]
    BY <1>7
  <2>4. e_precedence' \in [Endpoints -> {"LOW", "HIGH"}]
    BY <1>1, <1>5 DEF DataTyped
  <2>5. QED
    BY <1>1, <1>5, <2>1, <2>2, <2>3, <2>4 DEF DataTyped
<1>9. Queued'
  <2>1. ASSUME NEW e \in Endpoints
        PROVE  Inj(e_queue'[e]) /\ Elems(e_queue'[e]) = To(e)' /\ (e_queue'[e] # << >> => Up(e)')
    <3>1. To(e)' = IF to = e THEN To(e) \cup {m} ELSE To(e) \ {m}
      BY <1>1, <1>3, <1>b, MessageSets
    <3>2. m \notin To(e)
      BY <1>2 DEF To
    <3>3. Up(e)' <=> Up(e)
      BY <1>5 DEF Up
    <3>4. CASE e = to
      <4>1. e_queue'[e] = Append(e_queue[e], m) /\ e_queue[e] \in Seq(Messages)
        BY <1>1, <1>2, <3>4 DEF DataTyped
      <4>2. Inj(e_queue[e]) /\ Elems(e_queue[e]) = To(e)
        BY <1>1 DEF Queued
      <4>3. QED
        BY <1>3, <1>4, <1>6, <3>1, <3>3, <3>4, <4>1, <4>2, ElemsAppend
    <3>5. CASE e # to
      <4>1. e_queue'[e] = e_queue[e]
        BY <1>1, <1>2, <3>5 DEF DataTyped
      <4>2. QED
        BY <1>1, <3>1, <3>2, <3>3, <3>5, <4>1 DEF Queued
    <3>6. QED
      BY <3>4, <3>5
  <2>2. QED
    BY <2>1 DEF Queued
<1>10. Counted'
  <2>1. ASSUME NEW e \in Endpoints
        PROVE  e_refcount'[e] = held'[e] + Cardinality(From(e)') + Cardinality(To(e)')
    <3>1. /\ Cardinality(From(e)) \in Nat /\ Cardinality(To(e)) \in Nat
          /\ Cardinality(From(e)') = Cardinality(From(e)) + (IF from = e THEN 1 ELSE 0)
          /\ Cardinality(To(e)') = Cardinality(To(e)) + (IF to = e THEN 1 ELSE 0)
      <4>1. /\ Cardinality(From(e)) \in Nat /\ Cardinality(To(e)) \in Nat
            /\ Cardinality(From(e)') = Cardinality(From(e))
                  + (IF v # NULL /\ v.from = e THEN 1 ELSE 0)
                  - (IF message[m] # NULL /\ message[m].from = e THEN 1 ELSE 0)
            /\ Cardinality(To(e)') = Cardinality(To(e))
                  + (IF v # NULL /\ v.to = e THEN 1 ELSE 0)
                  - (IF message[m] # NULL /\ message[m].to = e THEN 1 ELSE 0)
        BY <1>1, <1>3, <1>b, MessageCounts
      <4>2. QED
        BY <1>3, <4>1
    <3>2. /\ e_refcount[e] \in Nat /\ held[e] \in Nat /\ held'[e] = held[e]
          /\ e_refcount'[e] = e_refcount[e] + (IF from = e THEN 1 ELSE 0) + (IF to = e THEN 1 ELSE 0)
      <4>1. e_refcount[e] \in Nat /\ held[e] \in 0 .. MaxHeld /\ held'[e] = held[e]
        BY <1>1, <1>5 DEF DataTyped
      <4>2. QED
        BY <1>7, <4>1, EndpointAssumption
    <3>3. e_refcount[e] = held[e] + Cardinality(From(e)) + Cardinality(To(e))
      BY <1>1 DEF Counted
    <3>4. QED
      BY <3>1, <3>2, <3>3
  <2>2. QED
    BY <2>1 DEF Counted
<1>11. Proper'
  <2>1. message'[m] = v /\ \A x \in Messages \ {m} : message'[x] = message[x]
    BY <1>1, <1>3 DEF DataTyped
  <2>2. \A x \in Allocated' : x = m \/ (x \in Allocated /\ message'[x] = message[x])
    BY <2>1 DEF Allocated
  <2>3. Listed' = Listed
    BY <1>5 DEF Listed
  <2>4. ASSUME NEW x \in Allocated'
        PROVE  /\ message'[x].from \in Listed /\ message'[x].to \in Listed
               /\ message'[x].from # message'[x].to
               /\ message'[x].to \in Wakes
               /\ message'[x].wack => message'[x].type = "request"
    <3>1. CASE x = m
      BY <1>3, <1>4, <2>1, <3>1
    <3>2. CASE x # m
      BY <1>1, <2>2, <3>2 DEF Proper
    <3>3. QED
      BY <3>1, <3>2
  <2>5. QED
    BY <2>3, <2>4 DEF Proper
<1>12. Flagged' /\ Linked'
  BY <1>1, <1>5 DEF Flagged, Linked, Receiving, Up, Listed
<1>13. QED
  BY <1>8, <1>9, <1>10, <1>11, <1>12 DEF Data

\* The queue of e without m.
Left(e, m, rest) == rest \in Seq(Messages) /\ Inj(rest) /\ Elems(rest) = Elems(e_queue[e]) \ {m}

LEMMA DestroyKeeps ==
    ASSUME Data, NEW e \in Endpoints, NEW m \in Elems(e_queue[e]), NEW rest, Left(e, m, rest),
           DestroyMessage(e, m, rest), UNCHANGED <<s_endpoints, e_state, held>>,
           e_precedence' \in [Endpoints -> {"LOW", "HIGH"}]
    PROVE  Data'
<1>1. DataTyped /\ Queued /\ Counted /\ Proper /\ Flagged /\ Linked
  BY DEF Data
<1>2. m \in Allocated /\ message[m].to = e
  BY QueuedTo
<1>3. m \in Messages /\ message[m] # NULL /\ message[m].from \in Endpoints
  BY <1>1, <1>2, MessageFields
<1>4. /\ message' = [message EXCEPT ![m] = NULL]
      /\ e_refcount' = Destroyed(e_refcount, m)
      /\ e_queue' = [e_queue EXCEPT ![e] = rest]
  BY DEF DestroyMessage
<1>b. Becomes(m, NULL)
  BY <1>1, <1>3, <1>4 DEF DataTyped, Becomes
<1>5. \A f \in Endpoints : To(f)' = To(f) \ {m}
  BY <1>1, <1>3, <1>b, MessageSets
<1>6. ASSUME NEW f \in Endpoints
      PROVE  e_refcount'[f] = held'[f] + Cardinality(From(f)') + Cardinality(To(f)') /\ e_refcount'[f] \in Nat
  <2>1. /\ Cardinality(From(f)) \in Nat /\ Cardinality(To(f)) \in Nat
        /\ Cardinality(From(f)') \in Nat /\ Cardinality(To(f)') \in Nat
        /\ Cardinality(From(f)') = Cardinality(From(f))
               + (IF NULL # NULL /\ NULL.from = f THEN 1 ELSE 0)
               - (IF message[m] # NULL /\ message[m].from = f THEN 1 ELSE 0)
        /\ Cardinality(To(f)') = Cardinality(To(f))
               + (IF NULL # NULL /\ NULL.to = f THEN 1 ELSE 0)
               - (IF message[m] # NULL /\ message[m].to = f THEN 1 ELSE 0)
    BY <1>1, <1>3, <1>b, MessageCounts
  <2>2. e_refcount[f] \in Nat /\ held[f] \in 0 .. MaxHeld /\ held'[f] = held[f]
    BY <1>1 DEF DataTyped
  <2>3. e_refcount[f] = held[f] + Cardinality(From(f)) + Cardinality(To(f))
    BY <1>1 DEF Counted
  <2>4. e_refcount'[f] = e_refcount[f] - (IF message[m].from = f THEN 1 ELSE 0)
                                       - (IF message[m].to = f THEN 1 ELSE 0)
    BY <1>4 DEF Destroyed
  <2>5. QED
    BY <1>3, <2>1, <2>2, <2>3, <2>4, EndpointAssumption
<1>7. DataTyped'
  <2>1. e_queue' \in [Endpoints -> Seq(Messages)]
    BY <1>1, <1>4 DEF DataTyped, Left
  <2>2. message' \in [Messages -> Message \cup {NULL}]
    BY <1>1, <1>3, <1>4 DEF DataTyped
  <2>3. e_refcount' \in [Endpoints -> Nat]
    BY <1>4, <1>6 DEF Destroyed
  <2>4. QED
    BY <1>1, <2>1, <2>2, <2>3 DEF DataTyped
<1>8. Queued'
  <2>1. ASSUME NEW f \in Endpoints
        PROVE  Inj(e_queue'[f]) /\ Elems(e_queue'[f]) = To(f)' /\ (e_queue'[f] # << >> => Up(f)')
    <3>1. /\ Inj(e_queue[f]) /\ Elems(e_queue[f]) = To(f) /\ (e_queue[f] # << >> => Up(f))
          /\ e_queue[f] \in Seq(Messages) /\ (Up(f)' <=> Up(f))
      BY <1>1 DEF Queued, Up, DataTyped
    <3>2. CASE f = e
      <4>1. e_queue'[f] = rest
        BY <1>1, <1>4, <3>2 DEF DataTyped
      <4>2. Elems(rest) = To(f)'
        BY <1>5, <3>1, <3>2 DEF Left
      <4>3. Up(f)
        BY <3>1, <3>2, ElemsNone
      <4>4. QED
        BY <3>1, <4>1, <4>2, <4>3 DEF Left
    <3>3. CASE f # e
      <4>1. e_queue'[f] = e_queue[f]
        BY <1>1, <1>4, <3>3 DEF DataTyped
      <4>2. m \notin To(f)
        BY <1>2, <3>3 DEF To
      <4>3. QED
        BY <1>5, <3>1, <4>1, <4>2
    <3>4. QED
      BY <3>2, <3>3
  <2>2. QED
    BY <2>1 DEF Queued
<1>9. Counted'
  BY <1>6 DEF Counted
<1>10. Proper'
  <2>1. \A x \in Allocated' : x \in Allocated /\ message'[x] = message[x]
    BY <1>1, <1>3, <1>4 DEF DataTyped, Allocated
  <2>2. Listed' = Listed
    BY DEF Listed
  <2>3. QED
    BY <1>1, <2>1, <2>2 DEF Proper
<1>11. Flagged' /\ Linked'
  BY <1>1 DEF Flagged, Linked, Receiving, Up, Listed
<1>12. QED
  BY <1>7, <1>8, <1>9, <1>10, <1>11 DEF Data

\* A request that is turned around keeps its two references.
LEMMA TurnKeeps ==
    ASSUME Data, NEW e \in Endpoints, NEW m \in Elems(e_queue[e]), NEW rest, Left(e, m, rest),
           NEW s, s = message[m].from, Receiving(s),
           NEW v, v \in Message, v.from = e, v.to = s, v.wack = FALSE,
           message' = [message EXCEPT ![m] = v],
           e_queue' = [e_queue EXCEPT ![e] = rest, ![s] = Append(@, m)],
           UNCHANGED <<s_endpoints, e_state, held, e_refcount>>,
           e_precedence' \in [Endpoints -> {"LOW", "HIGH"}]
    PROVE  Data'
<1>1. DataTyped /\ Queued /\ Counted /\ Proper /\ Flagged /\ Linked
  BY DEF Data
<1>2. m \in Allocated /\ message[m].to = e
  BY QueuedTo
<1>3. m \in Messages /\ message[m] # NULL /\ s \in Endpoints
  BY <1>1, <1>2, MessageFields
<1>4. s # e /\ s \in Listed /\ e \in Listed
  BY <1>1, <1>2 DEF Proper
<1>5. s \in Wakes /\ Up(s)
  BY <1>1, <1>3 DEF Flagged
<1>6. v # NULL
  BY NullAssumption
<1>7. Becomes(m, v)
  BY <1>1, <1>3 DEF DataTyped, Becomes
<1>8. e_queue' = [e_queue EXCEPT ![e] = rest, ![s] = Append(e_queue[s], m)]
  BY <1>4
<1>9. /\ e_queue'[e] = rest /\ e_queue'[s] = Append(e_queue[s], m)
      /\ \A f \in Endpoints \ {e, s} : e_queue'[f] = e_queue[f]
  BY <1>1, <1>3, <1>4, <1>8 DEF DataTyped
<1>10. \A f \in Endpoints : To(f)' = IF s = f THEN To(f) \cup {m} ELSE To(f) \ {m}
  BY <1>1, <1>3, <1>6, <1>7, MessageSets
<1>11. m \in To(e) /\ \A f \in Endpoints \ {e} : m \notin To(f)
  BY <1>2 DEF To
<1>12. DataTyped'
  <2>1. e_queue' \in [Endpoints -> Seq(Messages)]
    <3>1. rest \in Seq(Messages) /\ Append(e_queue[s], m) \in Seq(Messages)
      BY <1>1, <1>3, AppendProperties DEF DataTyped, Left
    <3>2. QED
      BY <1>1, <1>8, <3>1 DEF DataTyped
  <2>2. message' \in [Messages -> Message \cup {NULL}]
    BY <1>1, <1>3 DEF DataTyped
  <2>3. QED
    BY <1>1, <2>1, <2>2 DEF DataTyped
<1>13. Queued'
  <2>1. ASSUME NEW f \in Endpoints
        PROVE  Inj(e_queue'[f]) /\ Elems(e_queue'[f]) = To(f)' /\ (e_queue'[f] # << >> => Up(f)')
    <3>1. /\ Inj(e_queue[f]) /\ Elems(e_queue[f]) = To(f) /\ (e_queue[f] # << >> => Up(f))
          /\ e_queue[f] \in Seq(Messages) /\ (Up(f)' <=> Up(f))
      BY <1>1 DEF Queued, Up, DataTyped
    <3>2. CASE f = e
      <4>1. Elems(rest) = To(f)'
        BY <1>4, <1>10, <3>1, <3>2 DEF Left
      <4>2. Up(f)
        BY <3>1, <3>2, ElemsNone
      <4>3. QED
        BY <1>9, <3>1, <3>2, <4>1, <4>2 DEF Left
    <3>3. CASE f = s
      <4>1. m \notin Elems(e_queue[f])
        BY <1>4, <1>11, <3>1, <3>3
      <4>2. Inj(Append(e_queue[f], m)) /\ Elems(Append(e_queue[f], m)) = Elems(e_queue[f]) \cup {m}
        BY <1>3, <3>1, <4>1, ElemsAppend
      <4>3. Elems(e_queue'[f]) = To(f)'
        BY <1>9, <1>10, <3>1, <3>3, <4>2
      <4>4. Inj(e_queue'[f]) /\ Up(f)'
        BY <1>5, <1>9, <3>1, <3>3, <4>2
      <4>5. QED
        BY <4>3, <4>4
    <3>4. CASE f # e /\ f # s
      <4>1. e_queue'[f] = e_queue[f] /\ To(f)' = To(f) \ {m} /\ m \notin To(f)
        BY <1>9, <1>10, <1>11, <3>4
      <4>2. To(f)' = To(f)
        BY <4>1
      <4>3. QED
        BY <3>1, <4>1, <4>2
    <3>5. QED
      BY <3>2, <3>3, <3>4
  <2>2. QED
    BY <2>1 DEF Queued
<1>14. Counted'
  <2>1. ASSUME NEW f \in Endpoints
        PROVE  e_refcount'[f] = held'[f] + Cardinality(From(f)') + Cardinality(To(f)')
    <3>1. /\ Cardinality(From(f)) \in Nat /\ Cardinality(To(f)) \in Nat
          /\ Cardinality(From(f)') = Cardinality(From(f))
                 + (IF v # NULL /\ v.from = f THEN 1 ELSE 0)
                 - (IF message[m] # NULL /\ message[m].from = f THEN 1 ELSE 0)
          /\ Cardinality(To(f)') = Cardinality(To(f))
                 + (IF v # NULL /\ v.to = f THEN 1 ELSE 0)
                 - (IF message[m] # NULL /\ message[m].to = f THEN 1 ELSE 0)
      BY <1>1, <1>3, <1>7, MessageCounts
    <3>2. held[f] \in 0 .. MaxHeld
      BY <1>1 DEF DataTyped
    <3>3. e_refcount[f] = held[f] + Cardinality(From(f)) + Cardinality(To(f))
      BY <1>1 DEF Counted
    <3>4. message[m].from = s /\ message[m].to = e
      BY <1>2
    <3>5. /\ Cardinality(From(f)') = Cardinality(From(f)) + (IF e = f THEN 1 ELSE 0) - (IF s = f THEN 1 ELSE 0)
          /\ Cardinality(To(f)') = Cardinality(To(f)) + (IF s = f THEN 1 ELSE 0) - (IF e = f THEN 1 ELSE 0)
      BY <1>3, <1>6, <3>1, <3>4
    <3>6. e_refcount'[f] = e_refcount[f] /\ held'[f] = held[f]
      OBVIOUS
    <3>7. held[f] \in Nat
      BY <3>2, EndpointAssumption
    <3>8. QED
      BY <3>1, <3>3, <3>5, <3>6, <3>7
  <2>2. QED
    BY <2>1 DEF Counted
<1>15. Proper'
  <2>1. message'[m] = v /\ \A x \in Messages \ {m} : message'[x] = message[x]
    BY <1>7 DEF Becomes
  <2>2. \A x \in Allocated' : x = m \/ (x \in Allocated /\ message'[x] = message[x])
    BY <2>1 DEF Allocated
  <2>3. Listed' = Listed
    BY DEF Listed
  <2>4. ASSUME NEW x \in Allocated'
        PROVE  /\ message'[x].from \in Listed /\ message'[x].to \in Listed
               /\ message'[x].from # message'[x].to
               /\ message'[x].to \in Wakes
               /\ message'[x].wack => message'[x].type = "request"
    <3>1. CASE x = m
      BY <1>4, <1>5, <1>6, <2>1, <3>1
    <3>2. CASE x # m
      BY <1>1, <2>2, <3>2 DEF Proper
    <3>3. QED
      BY <3>1, <3>2
  <2>5. QED
    BY <2>3, <2>4 DEF Proper
<1>16. Flagged' /\ Linked'
  BY <1>1 DEF Flagged, Linked, Receiving, Up, Listed
<1>17. QED
  BY <1>12, <1>13, <1>14, <1>15, <1>16 DEF Data

LEMMA DisposeKeeps ==
    ASSUME Data, NEW e \in Endpoints, NEW m \in Elems(e_queue[e]), NEW rest, Left(e, m, rest),
           Dispose(e, m, rest), UNCHANGED <<s_endpoints, e_state, held>>,
           e_precedence' \in [Endpoints -> {"LOW", "HIGH"}]
    PROVE  Data'
<1>1. CASE message[m].type = "request" /\ message[m].wack /\ Receiving(message[m].from)
  <2>1. Turnaround(e, m, rest)
    BY <1>1 DEF Dispose
  <2> DEFINE v == [from |-> e, to |-> message[m].from, type |-> "reply", wack |-> FALSE]
  <2>2. /\ message' = [message EXCEPT ![m] = v]
        /\ e_queue' = [e_queue EXCEPT ![e] = rest, ![message[m].from] = Append(@, m)]
        /\ UNCHANGED e_refcount
    BY <1>1, <2>1 DEF Turnaround
  <2>3. /\ v \in Message /\ v.from = e /\ v.to = message[m].from /\ v.wack = FALSE
    <3>1. message[m].from \in Endpoints
      BY QueuedTo, MessageFields DEF Data
    <3>2. QED
      BY <3>1 DEF Message, Types
  <2> HIDE DEF v
  <2>4. QED
    BY <1>1, <2>2, <2>3, TurnKeeps
<1>2. CASE ~(message[m].type = "request" /\ message[m].wack /\ Receiving(message[m].from))
  <2>1. DestroyMessage(e, m, rest)
    BY <1>2 DEF Dispose, Turnaround
  <2>2. QED
    BY <2>1, DestroyKeeps
<1>3. QED
  BY <1>1, <1>2

LEMMA DataSame ==
    ASSUME Data, UNCHANGED <<s_endpoints, e_state, e_refcount, e_queue, message, held>>,
           e_precedence' \in [Endpoints -> {"LOW", "HIGH"}]
    PROVE  Data'
<1>1. DataTyped' /\ Queued' /\ Counted'
  BY DEF Data, DataTyped, Queued, Counted, From, To, Allocated, Up
<1>2. Proper' /\ Flagged' /\ Linked'
  BY DEF Data, Proper, Flagged, Linked, Allocated, Listed, Receiving, Up
<1>3. QED
  BY <1>1, <1>2 DEF Data

\* Only the flags of an endpoint, or the list, or the references of clients
\* change: what is to be shown of each.
LEMMA DataFlags ==
    ASSUME Data, UNCHANGED <<e_refcount, e_queue, e_precedence, message, held>>,
           e_state' \in [Endpoints -> SUBSET {"UP", "RX", "TX"}], s_endpoints' \in Seq(Endpoints),
           \A e \in Endpoints : e_queue[e] # << >> => Up(e)',
           \A m \in Allocated : message[m].from \in Listed' /\ message[m].to \in Listed',
           Flagged', Linked'
    PROVE  Data'
<1>1. DataTyped'
  BY DEF Data, DataTyped
<1>2. Queued' /\ Counted'
  BY DEF Data, Queued, Counted, From, To, Allocated
<1>3. Proper'
  BY DEF Data, Proper, Allocated
<1>4. QED
  BY <1>1, <1>2, <1>3 DEF Data

LEMMA LoopOutside ==
    ASSUME Loop, Outside, UNCHANGED <<at, ep, msg>>, s_busy' \in BOOLEAN,
           \A e \in Listed : e \in Listed',
           at = "call" => \A m \in Elems(e_queue[ep]) : m \in Elems(e_queue'[ep])
    PROVE  Loop'
  BY DEF Loop, Outside, SleepsOnlyIdle

LEMMA CreateKeeps ==
    ASSUME EndpointInv, NEW e \in Endpoints, CreateEndpoint(e)
    PROVE  EndpointInv'
<1>1. Data /\ DataTyped /\ Queued /\ Proper /\ Flagged /\ Linked /\ Loop
  BY DEF EndpointInv, Data
<1>2. /\ Outside /\ e \notin Elems(s_endpoints)
      /\ s_endpoints' = <<e>> \o s_endpoints
      /\ e_state' = [e_state EXCEPT ![e] = {"UP", "TX"} \cup (IF e \in Wakes THEN {"RX"} ELSE {})]
      /\ UNCHANGED <<e_refcount, e_queue, e_precedence, message, held, s_busy, at, ep, msg>>
  BY DEF CreateEndpoint, Listed, Elems
<1>3. s_endpoints' \in Seq(Endpoints) /\ Inj(s_endpoints') /\ Elems(s_endpoints') = Elems(s_endpoints) \cup {e}
  BY <1>1, <1>2, ElemsFront DEF DataTyped, Linked
<1>4. Listed' = Listed \cup {e}
  BY <1>3 DEF Listed, Elems
<1>5. /\ e_state' \in [Endpoints -> SUBSET {"UP", "RX", "TX"}]
      /\ \A f \in Endpoints \ {e} : e_state'[f] = e_state[f]
      /\ "UP" \in e_state'[e] /\ ("RX" \in e_state'[e] => e \in Wakes)
  BY <1>1, <1>2 DEF DataTyped
<1>6. Flagged'
  BY <1>1, <1>5 DEF Flagged, Receiving, Up
<1>7. Linked'
  BY <1>1, <1>2, <1>3, <1>4, <1>5 DEF Linked, Up
<1>8. Data'
  <2>1. \A f \in Endpoints : e_queue[f] # << >> => Up(f)'
    BY <1>1, <1>5 DEF Queued, Up
  <2>2. \A m \in Allocated : message[m].from \in Listed' /\ message[m].to \in Listed'
    BY <1>1, <1>4 DEF Proper
  <2>3. QED
    BY <1>1, <1>2, <1>3, <1>5, <1>6, <1>7, <2>1, <2>2, DataFlags
<1>9. Loop'
  BY <1>1, <1>2, <1>4, LoopOutside DEF Loop
<1>10. QED
  BY <1>8, <1>9 DEF EndpointInv

LEMMA SendKeeps ==
    ASSUME EndpointInv, NEW from \in Endpoints, NEW to \in Endpoints, NEW type \in Types, Send(from, to, type)
    PROVE  EndpointInv'
<1>1. Data /\ DataTyped /\ Queued /\ Loop
  BY DEF EndpointInv, Data
<1>2. Data'
  BY <1>1, SendData
<1>3. PICK m \in Messages \ Allocated : e_queue' = [e_queue EXCEPT ![to] = Append(@, m)]
  BY DEF Send
<1>4. ASSUME at = "call"
      PROVE  \A x \in Elems(e_queue[ep]) : x \in Elems(e_queue'[ep])
  <2>1. ep \in Endpoints
    BY <1>1, <1>4 DEF Loop
  <2>2. CASE ep = to
    <3>1. e_queue'[ep] = Append(e_queue[ep], m) /\ e_queue[ep] \in Seq(Messages) /\ Inj(e_queue[ep])
      BY <1>1, <1>3, <2>1, <2>2 DEF DataTyped, Queued
    <3>2. m \notin Elems(e_queue[ep])
      BY <1>1, <2>1, QueuedTo
    <3>3. QED
      BY <3>1, <3>2, ElemsAppend
  <2>3. CASE ep # to
    BY <1>1, <1>3, <2>1, <2>3 DEF DataTyped
  <2>4. QED
    BY <2>2, <2>3
<1>5. Loop'
  <2>1. Outside /\ UNCHANGED <<s_endpoints, at, ep, msg>> /\ s_busy' = TRUE
    BY DEF Send
  <2>2. Listed' = Listed
    BY <2>1 DEF Listed
  <2>3. QED
    BY <1>1, <1>4, <2>1, <2>2, LoopOutside
<1>6. QED
  BY <1>2, <1>5 DEF EndpointInv

\* A client keeps a reference to an endpoint that it has a pointer to.
LEMMA KnownListed ==
    ASSUME EndpointInv, NEW e \in Endpoints, Known(e)
    PROVE  e \in Listed
<1>1. Queued /\ Proper /\ Linked /\ Loop /\ Data
  BY DEF EndpointInv, Data
<1>2. CASE at = "call" /\ message[msg].from = e
  <2>1. msg \in Allocated
    BY <1>1, <1>2, QueuedTo DEF Loop
  <2>2. QED
    BY <1>1, <1>2, <2>1 DEF Proper
<1>3. QED
  BY <1>1, <1>2 DEF Known, Linked

LEMMA ReferencesKeep ==
    ASSUME EndpointInv, NEW e \in Endpoints, Reference(e) \/ Forget(e)
    PROVE  EndpointInv'
<1>1. Data /\ DataTyped /\ Queued /\ Counted /\ Proper /\ Flagged /\ Linked /\ Loop
  BY DEF EndpointInv, Data
<1>2. UNCHANGED <<s_endpoints, e_precedence, e_state, e_queue, message, s_busy, at, ep, msg>> /\ Outside
  BY DEF Reference, Forget
<1>3. e \in Listed
  BY <1>1, KnownListed DEF Reference, Forget, Linked
<1>4. PICK d \in {1, -1} :
         /\ held' = [held EXCEPT ![e] = @ + d]
         /\ e_refcount' = [e_refcount EXCEPT ![e] = @ + d]
         /\ held[e] + d \in 0 .. MaxHeld
  <2>1. held[e] \in 0 .. MaxHeld
    BY <1>1 DEF DataTyped
  <2>2. CASE Reference(e)
    BY <2>1, <2>2, EndpointAssumption DEF Reference
  <2>3. CASE Forget(e)
    <3>1. held[e] > 0 /\ held' = [held EXCEPT ![e] = @ - 1] /\ e_refcount' = [e_refcount EXCEPT ![e] = @ - 1]
      BY <2>3 DEF Forget
    <3>2. held[e] - 1 = held[e] + (-1) /\ held[e] + (-1) \in 0 .. MaxHeld
      BY <2>1, <3>1, EndpointAssumption
    <3>3. e_refcount[e] - 1 = e_refcount[e] + (-1)
      BY <1>1 DEF DataTyped
    <3>4. QED
      BY <3>1, <3>2, <3>3
  <2>4. QED
    BY <2>2, <2>3
<1>5. /\ held' \in [Endpoints -> 0 .. MaxHeld]
      /\ held'[e] = held[e] + d /\ e_refcount'[e] = e_refcount[e] + d
      /\ \A f \in Endpoints \ {e} : held'[f] = held[f] /\ e_refcount'[f] = e_refcount[f]
  BY <1>1, <1>4 DEF DataTyped
<1>6. Counted' /\ \A f \in Endpoints : e_refcount'[f] \in Nat
  <2>1. ASSUME NEW f \in Endpoints
        PROVE  /\ e_refcount'[f] = held'[f] + Cardinality(From(f)') + Cardinality(To(f)')
               /\ e_refcount'[f] \in Nat
    <3>1. From(f)' = From(f) /\ To(f)' = To(f)
      BY <1>2 DEF From, To, Allocated
    <3>2. Cardinality(From(f)) \in Nat /\ Cardinality(To(f)) \in Nat
      BY CountsFinite
    <3>3. held[f] \in 0 .. MaxHeld /\ held'[f] \in 0 .. MaxHeld
      BY <1>1, <1>5 DEF DataTyped
    <3>4. e_refcount[f] = held[f] + Cardinality(From(f)) + Cardinality(To(f))
      BY <1>1 DEF Counted
    <3>5. CASE f = e
      <4>1. e_refcount'[f] = held'[f] + Cardinality(From(f)) + Cardinality(To(f))
        BY <1>5, <3>2, <3>3, <3>4, <3>5, EndpointAssumption
      <4>2. QED
        BY <3>1, <3>2, <3>3, <4>1, EndpointAssumption
    <3>6. CASE f # e
      <4>1. e_refcount'[f] = held'[f] + Cardinality(From(f)) + Cardinality(To(f))
        BY <1>5, <3>4, <3>6
      <4>2. QED
        BY <3>1, <3>2, <3>3, <4>1, EndpointAssumption
    <3>7. QED
      BY <3>5, <3>6
  <2>2. QED
    BY <2>1 DEF Counted
<1>7. DataTyped'
  <2>1. e_refcount' \in [Endpoints -> Nat]
    <3>1. e_refcount' = [e_refcount EXCEPT ![e] = e_refcount[e] + d] /\ e_refcount \in [Endpoints -> Nat]
      BY <1>1, <1>4 DEF DataTyped
    <3>2. QED
      BY <1>6, <3>1
  <2>2. QED
    BY <1>1, <1>2, <1>5, <2>1 DEF DataTyped
<1>8. Queued' /\ Proper' /\ Flagged'
  BY <1>1, <1>2 DEF Queued, Proper, Flagged, To, Allocated, Listed, Up, Receiving
<1>9. Linked'
  BY <1>1, <1>2, <1>3, <1>5 DEF Linked, Listed, Up
<1>10. Loop'
  BY <1>1, <1>2, LoopOutside DEF Loop, Listed
<1>11. QED
  BY <1>6, <1>7, <1>8, <1>9, <1>10 DEF EndpointInv, Data

LEMMA CloseKeeps ==
    ASSUME EndpointInv, NEW e \in Endpoints, CloseReceiving(e)
    PROVE  EndpointInv'
<1>1. Data /\ DataTyped /\ Queued /\ Proper /\ Flagged /\ Linked /\ Loop
  BY DEF EndpointInv, Data
<1>2. /\ e_state' = [e_state EXCEPT ![e] = @ \ {"RX"}] /\ at = "load"
      /\ UNCHANGED <<s_endpoints, e_precedence, e_refcount, e_queue, message, held, s_busy, at, ep, msg>>
  BY DEF CloseReceiving
<1>3. /\ e_state' \in [Endpoints -> SUBSET {"UP", "RX", "TX"}]
      /\ \A f \in Endpoints : /\ "UP" \in e_state'[f] <=> "UP" \in e_state[f]
                              /\ e_state'[f] \subseteq e_state[f]
  BY <1>1, <1>2 DEF DataTyped
<1>4. Flagged' /\ Linked' /\ Listed' = Listed
  BY <1>1, <1>2, <1>3 DEF Flagged, Linked, Receiving, Up, Listed
<1>5. Data'
  <2>1. \A f \in Endpoints : e_queue[f] # << >> => Up(f)'
    BY <1>1, <1>3 DEF Queued, Up
  <2>2. \A m \in Allocated : message[m].from \in Listed' /\ message[m].to \in Listed'
    BY <1>1, <1>4 DEF Proper
  <2>3. s_endpoints' \in Seq(Endpoints)
    BY <1>1, <1>2 DEF DataTyped
  <2>4. QED
    BY <1>1, <1>2, <1>3, <1>4, <2>1, <2>2, <2>3, DataFlags
<1>6. Loop'
  BY <1>1, <1>2, <1>4, LoopOutside DEF Loop, Outside
<1>7. QED
  BY <1>5, <1>6 DEF EndpointInv

LEMMA DownKeeps ==
    ASSUME Data, NEW e \in Endpoints, e_queue[e] = << >>, e_state' = [e_state EXCEPT ![e] = {}],
           UNCHANGED <<s_endpoints, e_refcount, e_queue, e_precedence, message, held>>
    PROVE  Data'
<1>1. DataTyped /\ Queued /\ Proper /\ Flagged /\ Linked
  BY DEF Data
<1>2. /\ e_state' \in [Endpoints -> SUBSET {"UP", "RX", "TX"}]
      /\ \A f \in Endpoints : e_state'[f] = IF f = e THEN {} ELSE e_state[f]
  BY <1>1 DEF DataTyped
<1>3. Flagged' /\ Linked' /\ Listed' = Listed
  BY <1>1, <1>2 DEF Flagged, Linked, Receiving, Up, Listed
<1>4. \A f \in Endpoints : e_queue[f] # << >> => Up(f)'
  BY <1>1, <1>2 DEF Queued, Up
<1>5. s_endpoints' \in Seq(Endpoints)
  BY <1>1 DEF DataTyped
<1>6. \A m \in Allocated : message[m].from \in Listed' /\ message[m].to \in Listed'
  BY <1>1, <1>3 DEF Proper
<1>7. QED
  BY <1>2, <1>3, <1>4, <1>5, <1>6, DataFlags

\* What has no wake function has no message, so that it is never flushed from
\* within a callback.
LEMMA ReleaseKeeps ==
    ASSUME EndpointInv, NEW e \in Endpoints, Release(e)
    PROVE  EndpointInv'
<1>1. Data /\ DataTyped /\ Queued /\ Proper /\ Linked /\ Loop
  BY DEF EndpointInv, Data
<1>2. /\ at = "load" \/ (Outside /\ e \notin Wakes)
      /\ Up(e)
      /\ UNCHANGED <<s_endpoints, e_precedence, e_refcount, e_queue, message, held, s_busy, msg>>
  BY DEF Release
<1>3. CASE e_queue[e] = << >>
  <2>1. e_state' = [e_state EXCEPT ![e] = {}] /\ UNCHANGED <<at, ep>>
    BY <1>3 DEF Release
  <2>2. Data'
    BY <1>1, <1>2, <1>3, <2>1, DownKeeps
  <2>3. Loop'
    BY <1>1, <1>2, <2>1, LoopOutside DEF Loop, Outside, Listed
  <2>4. QED
    BY <2>2, <2>3 DEF EndpointInv
<1>4. CASE e_queue[e] # << >>
  <2>1. at' = "flush" /\ ep' = e /\ UNCHANGED e_state
    BY <1>4 DEF Release
  <2>2. e \in Wakes
    <3>1. PICK m : m \in Elems(e_queue[e])
      BY <1>1, <1>4, ElemsNone DEF DataTyped
    <3>2. m \in Allocated /\ message[m].to = e
      BY <1>1, <3>1, QueuedTo
    <3>3. QED
      BY <1>1, <3>2 DEF Proper
  <2>3. Data'
    BY <1>1, <1>2, <2>1, DataSame DEF DataTyped
  <2>4. Loop'
    <3>1. at = "load" /\ e \in Listed'
      BY <1>1, <1>2, <2>2 DEF Linked, Listed
    <3>2. msg' = NULL /\ s_busy' \in BOOLEAN
      BY <1>1, <1>2, <3>1 DEF Loop
    <3>3. Up(ep)'
      BY <1>2, <2>1 DEF Up
    <3>4. QED
      BY <2>1, <3>1, <3>2, <3>3 DEF Loop, SleepsOnlyIdle
  <2>5. QED
    BY <2>3, <2>4 DEF EndpointInv
<1>5. QED
  BY <1>3, <1>4

LEMMA FlushKeeps ==
    ASSUME EndpointInv, Flush
    PROVE  EndpointInv'
<1>1. Data /\ DataTyped /\ Queued /\ Loop
  BY DEF EndpointInv, Data
<1>2. /\ at = "flush" /\ ep \in Endpoints /\ e_queue[ep] # << >>
      /\ Dispose(ep, Head(e_queue[ep]), Tail(e_queue[ep]))
      /\ UNCHANGED <<s_endpoints, e_precedence, e_state, held, s_busy, at, ep, msg>>
  BY <1>1 DEF Flush, Loop
<1>3. Head(e_queue[ep]) \in Elems(e_queue[ep]) /\ Left(ep, Head(e_queue[ep]), Tail(e_queue[ep]))
  BY <1>1, <1>2, ElemsTail DEF Left, DataTyped, Queued
<1>4. Data'
  BY <1>1, <1>2, <1>3, DisposeKeeps DEF DataTyped
<1>5. Loop'
  BY <1>1, <1>2 DEF Loop, Listed, Up, SleepsOnlyIdle
<1>6. QED
  BY <1>4, <1>5 DEF EndpointInv

LEMMA FlushedKeeps ==
    ASSUME EndpointInv, Flushed
    PROVE  EndpointInv'
<1>1. Data /\ Loop /\ at = "flush"
  BY DEF EndpointInv, Flushed
<1>2. Data'
  BY <1>1, DownKeeps DEF Flushed, Loop
<1>3. Loop'
  BY <1>1 DEF Flushed, Loop, SleepsOnlyIdle
<1>4. QED
  BY <1>2, <1>3 DEF EndpointInv

\* The precedence of an endpoint makes no difference.
LEMMA WorkQueued ==
    ASSUME DataTyped, NEW e \in Endpoints
    PROVE  /\ HasWork(e) <=> e_queue[e] # << >>
           /\ HasWork(e) => NextMessage(e) \in Elems(e_queue[e])
<1>1. e_queue[e] \in Seq(Messages)
  BY DEF DataTyped
<1>2. Candidates(e) = 1 .. Len(e_queue[e])
  BY DEF Candidates, Value
<1>3. HasWork(e) <=> e_queue[e] # << >>
  <2>1. e_queue[e] = << >> => 1 .. Len(e_queue[e]) = {}
    BY <1>1
  <2>2. e_queue[e] # << >> => 1 \in 1 .. Len(e_queue[e])
    BY <1>1
  <2>3. QED
    BY <1>2, <2>1, <2>2 DEF HasWork
<1>4. ASSUME HasWork(e)
      PROVE  NextMessage(e) \in Elems(e_queue[e])
  <2>1. 1 \in Candidates(e) /\ \A j \in Candidates(e) : 1 <= j
    BY <1>1, <1>2, <1>3, <1>4
  <2>2. (CHOOSE i \in Candidates(e) : \A j \in Candidates(e) : i <= j) \in Candidates(e)
    BY <2>1
  <2>3. QED
    BY <1>2, <2>2 DEF NextMessage, Elems
<1>5. QED
  BY <1>3, <1>4

\* load_endpoints_katcp looks at every endpoint that could have a message.
LEMMA LoadKeeps ==
    ASSUME EndpointInv, LoadEndpoints
    PROVE  EndpointInv'
<1>1. Data /\ DataTyped /\ Queued /\ Linked /\ Loop
  BY DEF EndpointInv, Data
<1>2. /\ at = "load" /\ at' = "select"
      /\ s_busy' = (s_busy \/ \E e \in Listed : HasWork(e))
      /\ UNCHANGED <<s_endpoints, e_precedence, e_state, e_refcount, e_queue, message, held, ep, msg>>
  BY DEF LoadEndpoints
<1>3. Data'
  BY <1>1, <1>2, DataSame DEF DataTyped
<1>4. SleepsOnlyIdle'
  <2>1. ASSUME NEW e \in Endpoints, e_queue[e] # << >>
        PROVE  e \in Listed /\ HasWork(e)
    BY <1>1, <2>1, WorkQueued DEF Queued, Linked
  <2>2. QED
    BY <1>2, <2>1 DEF SleepsOnlyIdle
<1>5. Loop'
  BY <1>1, <1>2, <1>4 DEF Loop
<1>6. QED
  BY <1>3, <1>5 DEF EndpointInv

LEMMA ControlKeeps ==
    ASSUME EndpointInv, Select \/ SelectEvent \/ RunEndpoints \/ Wake \/ Idle \/ ReturnLater
    PROVE  EndpointInv'
<1>1. Data /\ DataTyped /\ Queued /\ Loop
  BY DEF EndpointInv, Data
<1>2. UNCHANGED <<s_endpoints, e_state, e_refcount, e_queue, message, held>>
  BY DEF Select, SelectEvent, RunEndpoints, Wake, Idle, ReturnLater
<1>3. Data'
  <2>1. e_precedence' \in [Endpoints -> {"LOW", "HIGH"}]
    BY <1>1 DEF Select, SelectEvent, RunEndpoints, Wake, Idle, ReturnLater, DataTyped
  <2>2. QED
    BY <1>1, <1>2, <2>1, DataSame
<1>4. Listed' = Listed
  BY <1>2 DEF Listed
<1> SUFFICES Loop'
  BY <1>3 DEF EndpointInv
<1>5. CASE Select \/ SelectEvent
  BY <1>1, <1>4, <1>5 DEF Select, SelectEvent, Loop, SleepsOnlyIdle
<1>6. CASE RunEndpoints
  <2>1. s_endpoints \in Seq(Endpoints)
    BY <1>1 DEF DataTyped
  <2>2. CASE s_endpoints = << >>
    BY <1>1, <1>4, <1>6, <2>2 DEF RunEndpoints, Loop, SleepsOnlyIdle
  <2>3. CASE s_endpoints # << >>
    <3>1. Head(s_endpoints) = s_endpoints[1] /\ 1 \in 1 .. Len(s_endpoints) /\ Head(s_endpoints) \in Endpoints
      BY <2>1, <2>3
    <3>2. Head(s_endpoints) \in Listed
      BY <3>1 DEF Listed
    <3>3. QED
      BY <1>1, <1>4, <1>6, <2>3, <3>1, <3>2 DEF RunEndpoints, Loop, SleepsOnlyIdle
  <2>4. QED
    BY <2>2, <2>3
<1>7. CASE Wake
  <2>1. ep \in Endpoints /\ HasWork(ep) /\ msg' = NextMessage(ep) /\ UNCHANGED <<e_queue, ep, s_busy>> /\ at = "visit" /\ at' = "call"
    BY <1>1, <1>7 DEF Wake, Loop
  <2>2. msg' \in Elems(e_queue'[ep'])
    BY <1>1, <2>1, WorkQueued
  <2>3. QED
    BY <1>1, <1>4, <2>1, <2>2 DEF Loop, SleepsOnlyIdle
<1>8. CASE Idle \/ ReturnLater
  BY <1>1, <1>4, <1>8 DEF Idle, ReturnLater, Loop, SleepsOnlyIdle
<1>9. QED
  BY <1>5, <1>6, <1>7, <1>8

LEMMA RemainingLeft ==
    ASSUME DataTyped, Queued, NEW e \in Endpoints, NEW m \in Elems(e_queue[e])
    PROVE  Left(e, m, Remaining(e, m))
<1> DEFINE q == e_queue[e]
           K(k) == q[k] = m /\ \A j \in 1 .. k - 1 : q[j] # m
           k == CHOOSE k \in 1 .. Len(q) : K(k)
<1>1. q \in Seq(Messages) /\ Inj(q)
  BY DEF DataTyped, Queued
<1>2. PICK i \in 1 .. Len(q) : q[i] = m
  BY DEF Elems
<1>3. \A j \in 1 .. i - 1 : j \in 1 .. Len(q) /\ j # i
  BY <1>1, <1>2
<1>4. K(i)
  BY <1>2, <1>3, <1>1 DEF Inj
<1>5. k \in 1 .. Len(q) /\ q[k] = m
  BY <1>2, <1>4
<1>6. Remaining(e, m) = [j \in 1 .. Len(q) - 1 |-> IF j < k THEN q[j] ELSE q[j + 1]]
  BY DEF Remaining
<1> HIDE DEF k, q
<1>7. Remaining(e, m) \in Seq(Messages) /\ Inj(Remaining(e, m)) /\ Elems(Remaining(e, m)) = Elems(q) \ {q[k]}
  BY <1>1, <1>5, <1>6, ElemsWithout
<1>8. QED
  BY <1>5, <1>7 DEF Left, q

LEMMA ReturnKeeps ==
    ASSUME EndpointInv, ReturnOwn \/ ReturnResult
    PROVE  EndpointInv'
<1>1. Data /\ DataTyped /\ Queued /\ Loop
  BY DEF EndpointInv, Data
<1>2. /\ at = "call" /\ ep \in Endpoints /\ ep \in Listed /\ msg \in Elems(e_queue[ep])
      /\ UNCHANGED <<s_endpoints, e_state, held, s_busy, ep>> /\ Proceed
  BY <1>1 DEF ReturnOwn, ReturnResult, Loop
<1>3. Left(ep, msg, Remaining(ep, msg))
  BY <1>1, <1>2, RemainingLeft
<1>4. Data'
  <2>1. CASE ReturnOwn
    BY <1>1, <1>2, <1>3, <2>1, DestroyKeeps DEF ReturnOwn, DataTyped
  <2>2. CASE ReturnResult
    BY <1>1, <1>2, <1>3, <2>2, DisposeKeeps DEF ReturnResult, DataTyped
  <2>3. QED
    BY <2>1, <2>2
<1>5. Loop'
  <2>1. at' \in {"visit", "leave"} /\ msg' = NULL /\ Listed' = Listed
    BY <1>2 DEF Proceed, Listed
  <2>2. QED
    BY <1>1, <1>2, <2>1 DEF Loop, SleepsOnlyIdle
<1>6. QED
  BY <1>4, <1>5 DEF EndpointInv

LEMMA PositionFound ==
    ASSUME DataTyped, NEW e \in Listed
    PROVE  PositionOf(e) \in 1 .. Len(s_endpoints) /\ s_endpoints[PositionOf(e)] = e
<1>1. PICK i \in 1 .. Len(s_endpoints) : s_endpoints[i] = e
  BY DEF Listed
<1>2. QED
  BY <1>1 DEF PositionOf

\* run_endpoints_katcp goes on to an endpoint that is still in the list.
LEMMA SuccessorListed ==
    ASSUME DataTyped, Linked, NEW e \in Listed
    PROVE  \/ Successor(e) = NULL
           \/ Successor(e) \in Endpoints /\ Successor(e) \in Listed /\ Successor(e) # e
<1> DEFINE k == PositionOf(e)
           n == Len(s_endpoints)
<1>1. /\ k \in 1 .. n /\ s_endpoints[k] = e /\ n \in Nat
      /\ \A i \in 1 .. n : s_endpoints[i] \in Endpoints
      /\ \A i, j \in 1 .. n : s_endpoints[i] = s_endpoints[j] => i = j
  BY PositionFound DEF DataTyped, Linked, Inj
<1>2. CASE k = n
  BY <1>2 DEF Successor
<1>3. CASE k # n
  <2>1. Successor(e) = s_endpoints[k + 1]
    BY <1>3 DEF Successor
  <2>2. k + 1 \in 1 .. n /\ k + 1 # k
    BY <1>1, <1>3
  <2> HIDE DEF k
  <2>3. s_endpoints[k + 1] \in Endpoints /\ s_endpoints[k + 1] # e
    BY <1>1, <2>2
  <2>4. s_endpoints[k + 1] \in Listed
    BY <2>2 DEF Listed
  <2>5. QED
    BY <2>1, <2>3, <2>4
<1>4. QED
  BY <1>2, <1>3

\* An endpoint that is freed is one that nothing refers to.
LEMMA LeaveKeeps ==
    ASSUME EndpointInv, Leave
    PROVE  EndpointInv'
<1>1. Data /\ DataTyped /\ Queued /\ Counted /\ Proper /\ Flagged /\ Linked /\ Loop
  BY DEF EndpointInv, Data
<1>2. /\ at = "leave" /\ ep \in Endpoints /\ ep \in Listed /\ msg = NULL
      /\ s_busy' \in BOOLEAN
      /\ ep' = Successor(ep) /\ at' = IF Successor(ep) = NULL THEN "load" ELSE "visit"
      /\ UNCHANGED <<e_state, e_refcount, e_queue, message, held, msg>>
  BY <1>1 DEF Leave, Loop
<1>3. Data' /\ \A e \in Listed : e = ep \/ e \in Listed'
  <2>1. CASE Collectible(ep)
    <3>1. /\ s_endpoints' = Unlinked(ep) /\ e_precedence' = [e_precedence EXCEPT ![ep] = "LOW"]
          /\ e_state[ep] = {} /\ e_refcount[ep] = 0
      BY <2>1 DEF Leave, Collectible, Gone
    <3>2. held[ep] = 0 /\ From(ep) = {} /\ To(ep) = {}
      <4>1. IsFiniteSet(From(ep)) /\ IsFiniteSet(To(ep)) /\ Cardinality(From(ep)) \in Nat /\ Cardinality(To(ep)) \in Nat
        BY CountsFinite
      <4>2. held[ep] \in 0 .. MaxHeld /\ 0 = held[ep] + Cardinality(From(ep)) + Cardinality(To(ep))
        BY <1>1, <1>2, <3>1 DEF DataTyped, Counted
      <4>3. held[ep] = 0 /\ Cardinality(From(ep)) = 0 /\ Cardinality(To(ep)) = 0
        BY <4>1, <4>2, EndpointAssumption
      <4>4. QED
        BY <4>1, <4>3, FS_EmptySet
    <3>3. s_endpoints' \in Seq(Endpoints) /\ Inj(s_endpoints') /\ Elems(s_endpoints') = Elems(s_endpoints) \ {ep}
      <4> DEFINE k == PositionOf(ep)
                 r == [i \in 1 .. Len(s_endpoints) - 1 |-> IF i < k THEN s_endpoints[i] ELSE s_endpoints[i + 1]]
      <4>1. k \in 1 .. Len(s_endpoints) /\ s_endpoints[k] = ep
        BY <1>1, <1>2, PositionFound
      <4>2. s_endpoints' = r
        BY <3>1 DEF Unlinked
      <4>3. s_endpoints \in Seq(Endpoints) /\ Inj(s_endpoints)
        BY <1>1 DEF DataTyped, Linked
      <4> HIDE DEF k
      <4>4. r \in Seq(Endpoints) /\ Inj(r) /\ Elems(r) = Elems(s_endpoints) \ {s_endpoints[k]}
        BY <4>1, <4>3, ElemsWithout
      <4>5. QED
        BY <4>1, <4>2, <4>4
    <3>4. Listed' = Listed \ {ep}
      BY <3>3 DEF Listed, Elems
    <3>5. ASSUME NEW m \in Allocated
          PROVE  message[m].from # ep /\ message[m].to # ep
      BY <3>2 DEF From, To
    <3>6. DataTyped'
      BY <1>1, <1>2, <3>1, <3>3 DEF DataTyped
    <3>7. Queued' /\ Counted' /\ Flagged'
      BY <1>1, <1>2 DEF Queued, Counted, Flagged, From, To, Allocated, Up, Receiving
    <3>8. Proper'
      BY <1>1, <1>2, <3>4, <3>5 DEF Proper, Allocated
    <3>9. Linked'
      BY <1>1, <1>2, <3>1, <3>2, <3>3, <3>4 DEF Linked, Up
    <3>10. QED
      BY <3>4, <3>6, <3>7, <3>8, <3>9 DEF Data
  <2>2. CASE ~Collectible(ep)
    <3>1. UNCHANGED <<s_endpoints, e_precedence>>
      BY <2>2 DEF Leave
    <3>2. QED
      BY <1>1, <1>2, <3>1, DataSame DEF DataTyped, Listed
  <2>3. QED
    BY <2>1, <2>2
<1>4. Loop'
  <2>1. CASE Successor(ep) = NULL
    BY <1>2, <2>1 DEF Loop, SleepsOnlyIdle
  <2>2. CASE Successor(ep) # NULL
    <3>1. ep' \in Endpoints /\ ep' \in Listed'
      BY <1>1, <1>2, <1>3, <2>2, SuccessorListed
    <3>2. QED
      BY <1>2, <2>2, <3>1 DEF Loop, SleepsOnlyIdle
  <2>3. QED
    BY <2>1, <2>2
<1>5. QED
  BY <1>3, <1>4 DEF EndpointInv

LEMMA EndpointStart == Init => EndpointInv
<1> SUFFICES ASSUME Init
             PROVE  EndpointInv
  OBVIOUS
<1>1. Allocated = {} /\ \A e : From(e) = {} /\ To(e) = {}
  BY DEF Init, Allocated, From, To
<1>2. DataTyped
  BY EndpointAssumption DEF Init, DataTyped
<1>3. Queued
  BY <1>1 DEF Init, Queued, Elems, Inj
<1>4. Counted
  <2>1. Cardinality({}) = 0
    BY FS_EmptySet
  <2>2. ASSUME NEW e \in Endpoints
        PROVE  e_refcount[e] = held[e] + Cardinality(From(e)) + Cardinality(To(e))
    <3>1. e_refcount[e] = 0 /\ held[e] = 0
      BY DEF Init
    <3>2. Cardinality(From(e)) = 0 /\ Cardinality(To(e)) = 0
      BY <1>1, <2>1
    <3>3. QED
      BY <3>1, <3>2
  <2>3. QED
    BY <2>2 DEF Counted
<1>5. Proper /\ Flagged /\ Linked
  BY <1>1 DEF Init, Proper, Flagged, Linked, Inj, Receiving, Up
<1>6. Loop
  BY DEF Init, Loop, SleepsOnlyIdle
<1>7. QED
  BY <1>2, <1>3, <1>4, <1>5, <1>6 DEF EndpointInv, Data

LEMMA EndpointNextKeeps ==
    ASSUME EndpointInv, [Next]_vars
    PROVE  EndpointInv'
<1>1. CASE ClientNext
  BY <1>1, CreateKeeps, ReferencesKeep, CloseKeeps, ReleaseKeeps, SendKeeps DEF ClientNext
<1>2. CASE LoopNext
  BY <1>2, FlushKeeps, FlushedKeeps, LoadKeeps, ControlKeeps, LeaveKeeps, ReturnKeeps DEF LoopNext
<1>3. CASE UNCHANGED vars
  <2>1. Data'
    BY <1>3, DataSame DEF vars, EndpointInv, Data, DataTyped
  <2>2. Loop'
    BY <1>3 DEF vars, EndpointInv, Loop, Listed, Up, SleepsOnlyIdle
  <2>3. QED
    BY <2>1, <2>2 DEF EndpointInv
<1>4. QED
  BY <1>1, <1>2, <1>3 DEF Next

-----------------------------------------------------------------------------
(* The theorems.                                                            *)

LEMMA EndpointInvariant == Spec => []EndpointInv
  BY EndpointStart, EndpointNextKeeps, PTL DEF Spec

LEMMA InvTypeOK == EndpointInv => TypeOK
<1> SUFFICES ASSUME EndpointInv
             PROVE  TypeOK
  OBVIOUS
<1>1. DataTyped /\ Loop /\ Data
  BY DEF EndpointInv, Data
<1>2. at = "call" => msg \in Messages
  BY <1>1, QueuedTo DEF Loop, Allocated
<1>3. QED
  BY <1>1, <1>2 DEF TypeOK, DataTyped, Loop

LEMMA InvNoDangling == EndpointInv => NoDangling
<1> SUFFICES ASSUME EndpointInv
             PROVE  NoDangling
  OBVIOUS
<1>1. Counted /\ Proper /\ Linked /\ Loop
  BY DEF EndpointInv, Data
<1>2. \A e \in Endpoints : ep = e => e \in Listed
  BY <1>1, EndpointAssumption DEF Loop
<1>3. QED
  BY <1>1, <1>2 DEF NoDangling, Counted, Proper, Linked, From, To

LEMMA InvQueuesExact == EndpointInv => QueuesExact
<1> SUFFICES ASSUME EndpointInv
             PROVE  QueuesExact
  OBVIOUS
<1>1. Data /\ DataTyped /\ Queued
  BY DEF EndpointInv, Data
<1>2. ASSUME NEW e \in Endpoints, NEW i \in 1 .. Len(e_queue[e])
      PROVE  /\ Up(e) /\ message[e_queue[e][i]] # NULL /\ message[e_queue[e][i]].to = e
             /\ \A j \in 1 .. Len(e_queue[e]) : e_queue[e][i] = e_queue[e][j] => i = j
  <2>1. e_queue[e][i] \in Elems(e_queue[e])
    BY DEF Elems
  <2>2. e_queue[e][i] \in Allocated /\ message[e_queue[e][i]].to = e
    BY <1>1, <2>1, QueuedTo
  <2>3. e_queue[e] \in Seq(Messages) /\ e_queue[e] # << >>
    BY <1>1, <2>1, ElemsNone DEF DataTyped
  <2>4. QED
    BY <1>1, <2>2, <2>3 DEF Queued, Inj, Allocated
<1>3. ASSUME NEW m \in Allocated
      PROVE  \E i \in 1 .. Len(e_queue[message[m].to]) : e_queue[message[m].to][i] = m
  <2>1. message[m].to \in Endpoints
    BY <1>1, MessageFields
  <2>2. m \in Elems(e_queue[message[m].to])
    BY <1>1, <2>1, QueuedTo
  <2>3. QED
    BY <2>2 DEF Elems
<1>4. QED
  BY <1>2, <1>3, InvTypeOK DEF QueuesExact

\* What a step may do to a request that wants an acknowledgement.
AnswerStep(m) ==
    LET from == message[m].from
        to   == message[m].to
    IN  message[m].wack =>
            \/ message'[m] = message[m]
            \/ /\ message'[m] = [from |-> to, to |-> from, type |-> "reply", wack |-> FALSE]
               /\ e_queue'[from] = Append(e_queue[from], m)
            \/ ~Receiving(from)
            \/ m = msg /\ ReturnOwn

LEMMA DisposeAnswers ==
    ASSUME Data, NEW e \in Endpoints, NEW x \in Elems(e_queue[e]), NEW rest, Dispose(e, x, rest),
           NEW m \in Allocated
    PROVE  AnswerStep(m)
<1>1. DataTyped /\ Proper
  BY DEF Data
<1>2. x \in Allocated /\ message[x].to = e
  BY QueuedTo
<1>3. CASE m # x
  <2>1. message'[m] = message[m]
    BY <1>1, <1>3 DEF Dispose, Turnaround, DestroyMessage, DataTyped, Allocated
  <2>2. QED
    BY <2>1 DEF AnswerStep
<1>4. CASE m = x
  <2>1. SUFFICES ASSUME message[m].wack, Receiving(message[m].from)
                 PROVE  /\ message'[m] = [from |-> message[m].to, to |-> message[m].from, type |-> "reply", wack |-> FALSE]
                        /\ e_queue'[message[m].from] = Append(e_queue[message[m].from], m)
    BY DEF AnswerStep
  <2>2. message[m].type = "request" /\ message[m].from # message[m].to
    BY <1>1, <2>1 DEF Proper
  <2>3. Turnaround(e, m, rest)
    BY <1>4, <2>2 DEF Dispose
  <2>4. /\ message' = [message EXCEPT ![m] = [from |-> e, to |-> message[m].from, type |-> "reply", wack |-> FALSE]]
        /\ e_queue' = [e_queue EXCEPT ![e] = rest, ![message[m].from] = Append(@, m)]
    BY <2>1, <2>3 DEF Turnaround
  <2>5. message[m].from \in Endpoints /\ m \in Messages
    BY <1>1, MessageFields
  <2>6. QED
    BY <1>1, <1>2, <1>4, <2>2, <2>4, <2>5 DEF DataTyped
<1>5. QED
  BY <1>3, <1>4

LEMMA StepAnswers ==
    ASSUME EndpointInv, [Next]_vars, NEW m \in Allocated
    PROVE  AnswerStep(m)
<1>1. Data /\ DataTyped /\ Queued /\ Loop
  BY DEF EndpointInv, Data
<1>2. ASSUME message'[m] = message[m]
      PROVE  AnswerStep(m)
  BY <1>2 DEF AnswerStep
<1>3. CASE \E from, to \in Endpoints, type \in Types : Send(from, to, type)
  <2>1. message'[m] = message[m]
    BY <1>1, <1>3 DEF Send, DataTyped, Allocated
  <2>2. QED
    BY <1>2, <2>1
<1>4. CASE Flush
  <2>1. ep \in Endpoints /\ e_queue[ep] # << >> /\ Dispose(ep, Head(e_queue[ep]), Tail(e_queue[ep]))
    BY <1>1, <1>4 DEF Flush, Loop
  <2>2. Head(e_queue[ep]) \in Elems(e_queue[ep])
    BY <1>1, <2>1, ElemsTail DEF DataTyped, Queued
  <2>3. QED
    BY <1>1, <2>1, <2>2, DisposeAnswers
<1>5. CASE ReturnResult
  <2>1. ep \in Endpoints /\ msg \in Elems(e_queue[ep]) /\ Dispose(ep, msg, Remaining(ep, msg))
    BY <1>1, <1>5 DEF ReturnResult, Loop
  <2>2. QED
    BY <1>1, <2>1, DisposeAnswers
<1>6. CASE ReturnOwn
  <2>1. m = msg \/ message'[m] = message[m]
    BY <1>1, <1>6 DEF ReturnOwn, DestroyMessage, DataTyped, Allocated
  <2>2. QED
    BY <1>2, <1>6, <2>1 DEF AnswerStep
<1>7. CASE UNCHANGED message
  BY <1>2, <1>7
<1>8. QED
  BY <1>3, <1>4, <1>5, <1>6, <1>7
     DEF Next, ClientNext, LoopNext, vars, CreateEndpoint, Reference, Forget, CloseReceiving, Release,
         Flushed, LoadEndpoints, Select, SelectEvent, RunEndpoints, Wake, Idle, Leave, ReturnLater

\* The types of endpoints, messages and the place in the main loop.
THEOREM EndpointTypeCorrect == Spec => []TypeOK
  BY EndpointInvariant, InvTypeOK, PTL

\* No message, no client and not the loop refers to an endpoint that has been
\* freed (forget_endpoint_katcp, clear_endpoint_katcp, run_endpoints_katcp).
THEOREM EndpointNotFreed == Spec => []NoDangling
  BY EndpointInvariant, InvNoDangling, PTL

\* Each message is in one queue, that of its recipient, once (turnaround and
\* flush_endpoint_katcp, remove_datum_gueue_katcl).
THEOREM EndpointQueues == Spec => []QueuesExact
  BY EndpointInvariant, InvQueuesExact, PTL

\* The loop does not wait in pselect() while there is a message to handle
\* (load_endpoints_katcp).
THEOREM EndpointSleeps == Spec => []SleepsOnlyIdle
<1>1. EndpointInv => SleepsOnlyIdle
  BY DEF EndpointInv, Loop
<1>2. QED
  BY <1>1, EndpointInvariant, PTL

\* A request is turned around, unless its handler owns the reply or its sender
\* receives no longer (vturnaround_endpoint_katcp).
THEOREM EndpointAnswers == Spec => RequestAnswered
<1>1. EndpointInv /\ [Next]_vars => [\A m \in Allocated : AnswerStep(m)]_vars
  BY StepAnswers
<1>2. QED
  BY <1>1, EndpointInvariant, PTL DEF Spec, RequestAnswered, AnswerStep

=============================================================================
