----------------------------- MODULE DuplexProofs -----------------------------
(***************************************************************************)
(* However many clients there are, whatever they ask for and whenever they *)
(* or the upstream server go: a request of a client is in one place at a   *)
(* time and is answered once.                                              *)
(***************************************************************************)
EXTENDS Duplex, FiniteSetTheorems, TLAPS

U == Upstream

-----------------------------------------------------------------------------
(* Which messages are where.                                                *)

\* What is queued for an endpoint, by where it comes from.
ToClient(c) ==
  {m \in Queued : IF m.type = "request" THEN m.from = Remote(c) /\ m.name = named[c] /\ m.of[1] = c
                  ELSE m.from = Peer(U) /\ m.name = "relay"}

FromClient(c) == {m \in Queued : m.type # "request" /\ m.from = Peer(c)}

ToUpstream ==
  {m \in Queued : IF m.type = "request" THEN m.from = Peer(m.of[1]) /\ m.name = "relay"
                  ELSE m.from = Remote(U) /\ m.name = named[m.of[1]]}

FromUpstream == {m \in Queued : m.type = "request" /\ m.from = Peer(U) /\ m.name = named[m.of[1]]}

\* Response handlers.
ClientSlots(c) ==
  {h \in Handler : h.issuer = Remote(c) /\ h.recipient = Peer(U) /\ h.message = "relay"}

UpstreamSlots ==
  {h \in Handler : /\ h.issuer = Peer(h.initial.of[1]) /\ h.recipient = Remote(U)
                   /\ h.message = named[h.initial.of[1]] /\ h.initial.name = "relay"}

Written == {m \in Message : m.type # "request"}
Deferred(c) == {m \in Message : m.type = "request" /\ m.name = named[c] /\ m.of[1] = c}
Relayed == {m \in Message : m.type = "request" /\ m.name = named[m.of[1]]}
Questions == {m \in [name : Names, of : Requests, informed : BOOLEAN] : m.name = named[m.of[1]]}

Received == [type : {"reply", "inform"}, of : Requests]

\* By endpoint, and by flat.
Kind(e) ==
  IF e = Peer(U) THEN ToUpstream ELSE IF e = Remote(U) THEN FromUpstream
  ELSE IF e = Peer(e[1]) THEN ToClient(e[1]) ELSE FromClient(e[1])
SlotKind(f) == IF f = U THEN UpstreamSlots ELSE ClientSlots(f)
LineKind(f) == IF f = U THEN Relayed ELSE Written
DeferKind(f) == IF f = U THEN {} ELSE Deferred(f)

QueuesOK == queue \in [Endpoints -> Seq(Queued)] /\ \A e \in Endpoints : queue[e] \in Seq(Kind(e))

SlotsOK ==
  /\ f_replies \in [Flats -> [1 .. size -> Handler \cup {NULL}]]
  /\ \A f \in Flats : f_replies[f] \in [1 .. size -> SlotKind(f) \cup {NULL}]

LinesOK == f_line \in [Flats -> Seq(Message)] /\ \A f \in Flats : f_line[f] \in Seq(LineKind(f))

DefersOK == f_defer \in [Flats -> Seq(Message)] /\ \A f \in Flats : f_defer[f] \in Seq(DeferKind(f))

SetupOK == size \in Nat \ {0} /\ [size |-> size, flush |-> flush, named |-> named] \in Setups

StatesOK ==
  /\ f_state \in [Flats -> States] /\ closed \in [Flats -> BOOLEAN]
  /\ f_deferring \in [Flats -> SUBSET {"own", "outside"}]

TalksOK ==
  /\ sent \in [Clients -> 0 .. MaxSent] /\ got \in [Clients -> Seq(Received)]
  /\ asked \in Seq(Questions)

\* What TypeOK says, and where which messages may be.
Places == SetupOK /\ StatesOK /\ QueuesOK /\ SlotsOK /\ LinesOK /\ DefersOK /\ TalksOK

Ends ==
  /\ \A f \in Flats : closed[f] => f_state[f] \in {"ending", "crashing", "gone"}
  /\ \A c \in Clients :
       /\ f_state[c] # "connecting"
       /\ "outside" \notin f_deferring[c] => f_defer[c] = << >>

-----------------------------------------------------------------------------
(* Where a request of a client is.                                          *)

\* How many messages of s are in S.
Num(s, S) == Cardinality({i \in 1 .. Len(s) : s[i] \in S})

Asks == {m \in Queued : m.type = "request"}
AsksFrom(e) == {m \in Queued : m.type = "request" /\ m.from = e}
Replies == {m \in Queued : m.type = "reply"}
WrittenReplies == {m \in Message : m.type = "reply"}
ReceivedReplies == {m \in Received : m.type = "reply"}

\* At the first hop: to be handled, awaited, answered.
Asking(c) == Num(queue[Peer(c)], Asks)
Awaiting(c) == Cardinality(Awaited(c, Remote(c)))
Answering(c) == Num(queue[Remote(c)], Replies)

\* At the second.
Relaying(c) == Num(queue[Peer(U)], AsksFrom(Peer(c)))
Upstreaming(c) == Cardinality(Awaited(U, Peer(c)))
Returning(c) == Num(queue[Peer(c)], Replies)

Outside(c) == IF "outside" \in f_deferring[c] THEN 1 ELSE 0

\* One place at a time, and nothing at the second hop that is not awaited.
Hop(c) ==
  /\ Asking(c) + Awaiting(c) + Answering(c) = Outside(c)
  /\ Relaying(c) + Upstreaming(c) + Returning(c) <= Awaiting(c)
  /\ ~closed[c] /\ Alive(U) => Relaying(c) + Upstreaming(c) + Returning(c) = Awaiting(c)

\* All that a client has sent.
Ledger(c) ==
  Num(got[c], ReceivedReplies) + Num(f_line[c], WrittenReplies) + Len(f_defer[c]) + Outside(c) = sent[c]

Client(c) ==
  /\ Relaying(c) + Upstreaming(c) <= 1
  /\ Alive(c) => Hop(c) /\ Ledger(c)

DuplexInv == Places /\ Ends /\ \A c \in Clients : Client(c)

-----------------------------------------------------------------------------
(* Flats, endpoints and numbers.                                            *)

LEMMA Constants ==
    /\ IsFiniteSet(Clients) /\ Upstream \notin Clients /\ "relay" \notin Names
    /\ MaxSent \in Nat /\ MaxEnded \in Nat /\ NULL \notin Handler
    /\ Setups \subseteq [size : Nat \ {0}, flush : Nat, named : [Clients -> Names]]
BY DuplexAssumption, NullAssumption

LEMMA Addresses ==
    /\ \A f \in Flats : Peer(f) \in Endpoints /\ Remote(f) \in Endpoints
    /\ \A f, g : Peer(f) # Remote(g)
    /\ \A f, g : Peer(f) = Peer(g) <=> f = g
    /\ \A f, g : Remote(f) = Remote(g) <=> f = g
    /\ \A e \in Endpoints : \E f \in Flats : e = Peer(f) \/ e = Remote(f)
    /\ \A f : Peer(f)[1] = f /\ Remote(f)[1] = f
    /\ U \in Flats /\ U \notin Clients /\ Clients \subseteq Flats /\ Flats = Clients \cup {U}
<1>1. \A f \in Flats : Peer(f) \in Endpoints /\ Remote(f) \in Endpoints
  BY DEF Peer, Remote, Endpoints
<1>2. \A e \in Endpoints : \E f \in Flats : e = Peer(f) \/ e = Remote(f)
  BY DEF Peer, Remote, Endpoints
<1>3. \A f, g : Peer(f) # Remote(g) /\ (Peer(f) = Peer(g) <=> f = g) /\ (Remote(f) = Remote(g) <=> f = g)
  BY DEF Peer, Remote
<1>4. \A f : Peer(f)[1] = f /\ Remote(f)[1] = f
  BY DEF Peer, Remote
<1>5. U \in Flats /\ U \notin Clients /\ Clients \subseteq Flats /\ Flats = Clients \cup {U}
  BY Constants DEF U, Flats
<1>6. QED
  BY <1>1, <1>2, <1>3, <1>4, <1>5

\* Positions in a sequence.
LEMMA PositionsCounted ==
    ASSUME NEW n \in Nat, NEW A \in SUBSET (1 .. n)
    PROVE  IsFiniteSet(A) /\ Cardinality(A) \in Nat /\ (Cardinality(A) = 0 <=> A = {})
<1>1. IsFiniteSet(1 .. n)
  BY FS_Interval
<1>2. IsFiniteSet(A)
  BY <1>1, FS_Subset
<1>3. QED
  BY <1>2, FS_CardinalityType, FS_EmptySet

\* A set of positions, one of which is new.
LEMMA LastPosition ==
    ASSUME NEW n \in Nat, NEW A \in SUBSET (1 .. n), NEW B \in SUBSET (1 .. n + 1),
           \A i \in 1 .. n : i \in B <=> i \in A
    PROVE  /\ Cardinality(A) \in Nat
           /\ Cardinality(B) = Cardinality(A) + (IF n + 1 \in B THEN 1 ELSE 0)
<1>1. IsFiniteSet(A) /\ Cardinality(A) \in Nat
  BY PositionsCounted
<1>2. n + 1 \notin A
  OBVIOUS
<1>3. \A i \in B : i = n + 1 \/ i \in A
  <2> TAKE i \in B
  <2>1. i \in 1 .. n + 1
    OBVIOUS
  <2>2. i = n + 1 \/ i \in 1 .. n
    BY <2>1
  <2>3. QED
    BY <2>2
<1>4. A \subseteq B
  OBVIOUS
<1>5. CASE n + 1 \in B
  <2> DEFINE last == n + 1
  <2> HIDE DEF last
  <2>1. B = A \cup {last}
    BY <1>3, <1>4, <1>5, Zenon DEF last
  <2>2. last \notin A
    BY <1>2 DEF last
  <2>3. Cardinality(A \cup {last}) = Cardinality(A) + 1
    BY <1>1, <2>2, FS_AddElement
  <2>4. QED
    BY <1>1, <1>5, <2>1, <2>3
<1>6. CASE n + 1 \notin B
  <2>1. B = A
    BY <1>3, <1>4, <1>6, Zenon
  <2>2. QED
    BY <1>1, <1>6, <2>1
<1>7. QED
  BY <1>5, <1>6

\* The positions of A between n and n + k, from there.
Moved(A, n, k) == {i \in 1 .. k : n + i \in A}

LEMMA MovedPositions ==
    ASSUME NEW n \in Nat, NEW k \in Nat, NEW A \in SUBSET (n + 1 .. n + k)
    PROVE  IsFiniteSet(A) /\ Cardinality(A) \in Nat /\ Cardinality(A) = Cardinality(Moved(A, n, k))
<1> DEFINE B == Moved(A, n, k)
<1>1. B \in SUBSET (1 .. k) /\ \A i \in 1 .. k : i \in B <=> n + i \in A
  BY DEF Moved
<1> HIDE DEF B
<1>2. IsFiniteSet(B) /\ Cardinality(B) \in Nat
  BY <1>1, PositionsCounted
<1> DEFINE up == [i \in B |-> n + i]
<1>3. up \in [B -> A]
  BY <1>1
<1>4. \A i, j \in B : up[i] = up[j] => i = j
  BY <1>1
<1>5. \A j \in A : \E i \in B : up[i] = j
  <2> SUFFICES ASSUME NEW j \in A PROVE \E i \in B : up[i] = j
    OBVIOUS
  <2>1. j - n \in 1 .. k /\ n + (j - n) = j
    OBVIOUS
  <2>2. j - n \in B
    BY <1>1, <2>1
  <2>3. QED
    BY <2>1, <2>2
<1>6. up \in Bijection(B, A)
  BY <1>3, <1>4, <1>5 DEF Bijection, Injection, Surjection, IsInjective
<1>7. IsFiniteSet(A) /\ Cardinality(A) = Cardinality(B)
  BY <1>2, <1>6, FS_Bijection DEF ExistsBijection
<1>8. QED
  BY <1>2, <1>7 DEF B

LEMMA JoinedPositions ==
    ASSUME NEW n \in Nat, NEW k \in Nat, NEW C \in SUBSET (1 .. n + k)
    PROVE  /\ Cardinality(Moved(C, 0, n)) \in Nat /\ Cardinality(Moved(C, n, k)) \in Nat
           /\ Cardinality(C) = Cardinality(Moved(C, 0, n)) + Cardinality(Moved(C, n, k))
<1> DEFINE A == Moved(C, 0, n)
           D == {i \in C : i \notin 1 .. n}
           B == Moved(C, n, k)
<1>1. D \in SUBSET (n + 1 .. n + k)
  <2> SUFFICES ASSUME NEW i \in C, i \notin 1 .. n PROVE i \in n + 1 .. n + k
    OBVIOUS
  <2>1. i \in 1 .. n + k
    OBVIOUS
  <2>2. QED
    BY <2>1
<1>2. A \in SUBSET (1 .. n) /\ \A i \in 1 .. n : i \in A <=> i \in C
  BY DEF Moved
<1>3. C = A \cup D
  <2>1. A \subseteq C /\ D \subseteq C
    BY <1>2
  <2>2. \A i \in C : i \in A \/ i \in D
    BY <1>2
  <2> HIDE DEF A, D
  <2>3. QED
    BY <2>1, <2>2, Zenon
<1>4. A \cap D = {}
  BY <1>2
<1>5. Moved(D, n, k) = B
  BY DEF Moved
<1> HIDE DEF A, B, D
<1>6. IsFiniteSet(D) /\ Cardinality(D) = Cardinality(B) /\ Cardinality(D) \in Nat
  BY <1>1, <1>5, MovedPositions
<1>7. IsFiniteSet(A) /\ Cardinality(A) \in Nat
  BY <1>2, PositionsCounted
<1>8. Cardinality(A \cap D) = 0
  BY <1>4, FS_EmptySet
<1>9. Cardinality(A \cup D) = Cardinality(A) + Cardinality(D)
  <2>1. Cardinality(A \cup D) = Cardinality(A) + Cardinality(D) - Cardinality(A \cap D)
    BY <1>6, <1>7, FS_Union, Zenon
  <2>2. QED
    BY <1>6, <1>7, <1>8, <2>1
<1>10. QED
  BY <1>3, <1>6, <1>7, <1>9 DEF A, B

LEMMA FirstPosition ==
    ASSUME NEW n \in Nat \ {0}, NEW A \in SUBSET (1 .. n)
    PROVE  /\ Cardinality(Moved(A, 1, n - 1)) \in Nat
           /\ Cardinality(A) = Cardinality(Moved(A, 1, n - 1)) + (IF 1 \in A THEN 1 ELSE 0)
<1> DEFINE d == 1
           k == n - 1
           B == Moved(A, d, k)
           C == Moved(A, 0, d)
<1>1. d \in Nat /\ k \in Nat /\ A \in SUBSET (1 .. d + k)
  OBVIOUS
<1>2. Cardinality(B) \in Nat /\ Cardinality(A) = Cardinality(C) + Cardinality(B)
  <2> HIDE DEF d, k
  <2>1. QED
    BY <1>1, JoinedPositions
<1>3. C = IF 1 \in A THEN {1} ELSE {}
  BY DEF Moved
<1>4. Cardinality(C) = IF 1 \in A THEN 1 ELSE 0
  <2> HIDE DEF C
  <2>1. QED
    BY <1>3, FS_EmptySet, FS_Singleton
<1> HIDE DEF C
<1>5. QED
  BY <1>2, <1>4

-----------------------------------------------------------------------------
(* Counting messages.                                                       *)

LEMMA NumIs ==
    ASSUME NEW T, NEW s \in Seq(T), NEW S
    PROVE  Num(s, S) \in Nat /\ (Num(s, S) = 0 <=> \A i \in 1 .. Len(s) : s[i] \notin S)
<1> DEFINE C == {i \in 1 .. Len(s) : s[i] \in S}
<1>1. Len(s) \in Nat /\ C \in SUBSET (1 .. Len(s))
  OBVIOUS
<1>2. C = {} <=> \A i \in 1 .. Len(s) : s[i] \notin S
  OBVIOUS
<1>3. Num(s, S) = Cardinality(C)
  BY DEF Num
<1> HIDE DEF C
<1>4. Cardinality(C) \in Nat /\ (Cardinality(C) = 0 <=> C = {})
  BY <1>1, PositionsCounted
<1>5. QED
  BY <1>2, <1>3, <1>4

One(x, S) == IF x \in S THEN 1 ELSE 0

LEMMA NumAppend ==
    ASSUME NEW T, NEW s \in Seq(T), NEW x \in T, NEW S
    PROVE  Num(s, S) \in Nat /\ Num(Append(s, x), S) = Num(s, S) + One(x, S)
<1> DEFINE n == Len(s)
           t == Append(s, x)
           C == {i \in 1 .. Len(s) : s[i] \in S}
           C2 == {i \in 1 .. Len(t) : t[i] \in S}
<1>1. n \in Nat /\ Len(t) = n + 1 /\ t[n + 1] = x /\ \A i \in 1 .. n : t[i] = s[i]
  OBVIOUS
<1> HIDE DEF t
<1>2. /\ C \in SUBSET (1 .. n) /\ C2 \in SUBSET (1 .. n + 1) /\ \A i \in 1 .. n : i \in C2 <=> i \in C
      /\ n + 1 \in C2 <=> x \in S
  BY <1>1
<1>3. Num(s, S) = Cardinality(C) /\ Num(t, S) = Cardinality(C2)
  BY DEF Num
<1> HIDE DEF n, C, C2
<1>4. Cardinality(C) \in Nat /\ Cardinality(C2) = Cardinality(C) + (IF n + 1 \in C2 THEN 1 ELSE 0)
  BY <1>1, <1>2, LastPosition
<1>5. QED
  BY <1>2, <1>3, <1>4 DEF t, One

LEMMA NumTail ==
    ASSUME NEW T, NEW s \in Seq(T), s # << >>, NEW S
    PROVE  Num(s, S) \in Nat /\ Num(Tail(s), S) \in Nat /\ Num(Tail(s), S) = Num(s, S) - One(Head(s), S)
<1> DEFINE n == Len(s)
           t == Tail(s)
           C == {i \in 1 .. Len(s) : s[i] \in S}
           C2 == {i \in 1 .. Len(t) : t[i] \in S}
<1>1. n \in Nat \ {0} /\ Len(t) = n - 1 /\ Head(s) = s[1] /\ 1 \in 1 .. n /\ \A i \in 1 .. n - 1 : t[i] = s[1 + i]
  OBVIOUS
<1> HIDE DEF t
<1>2. C \in SUBSET (1 .. n) /\ C2 = Moved(C, 1, n - 1) /\ (1 \in C <=> Head(s) \in S)
  BY <1>1 DEF Moved
<1>3. Num(s, S) = Cardinality(C) /\ Num(t, S) = Cardinality(C2)
  BY DEF Num
<1> HIDE DEF n, C, C2
<1>4. Cardinality(C2) \in Nat /\ Cardinality(C) = Cardinality(C2) + (IF 1 \in C THEN 1 ELSE 0)
  BY <1>1, <1>2, FirstPosition
<1>5. QED
  BY <1>2, <1>3, <1>4 DEF t, One

LEMMA NumJoined ==
    ASSUME NEW T, NEW s \in Seq(T), NEW t \in Seq(T), NEW S
    PROVE  Num(s \o t, S) = Num(s, S) + Num(t, S)
<1> DEFINE n == Len(s)
           k == Len(t)
           u == s \o t
           A == {i \in 1 .. Len(s) : s[i] \in S}
           B == {i \in 1 .. Len(t) : t[i] \in S}
           C == {i \in 1 .. Len(u) : u[i] \in S}
<1>1. n \in Nat /\ k \in Nat /\ Len(u) = n + k
  OBVIOUS
<1>2. \A i \in 1 .. n : u[i] = s[i]
  OBVIOUS
<1>3. \A i \in 1 .. k : u[n + i] = t[i]
  <2> SUFFICES ASSUME NEW i \in 1 .. k PROVE u[n + i] = t[i]
    OBVIOUS
  <2>1. n + i \in 1 .. Len(s) + Len(t) /\ n + i > Len(s) /\ n + i - Len(s) = i
    OBVIOUS
  <2>2. QED
    BY <2>1
<1> HIDE DEF u
<1>4. C \in SUBSET (1 .. n + k)
  BY <1>1
<1>5. A = Moved(C, 0, n)
  BY <1>1, <1>2 DEF Moved
<1>6. B = Moved(C, n, k)
  BY <1>1, <1>3 DEF Moved
<1>7. Num(s, S) = Cardinality(A) /\ Num(t, S) = Cardinality(B) /\ Num(u, S) = Cardinality(C)
  BY DEF Num
<1> HIDE DEF A, B, C, n, k
<1>8. Cardinality(C) = Cardinality(A) + Cardinality(B)
  BY <1>1, <1>4, <1>5, <1>6, JoinedPositions
<1>9. QED
  BY <1>7, <1>8 DEF u

\* Where all are of a kind, or nothing is.
LEMMA NumAll ==
    ASSUME NEW T, NEW s \in Seq(T), NEW S, \A i \in 1 .. Len(s) : s[i] \in S
    PROVE  Num(s, S) = Len(s)
<1> DEFINE n == Len(s)
           A == {i \in 1 .. Len(s) : s[i] \in S}
<1>1. A = 1 .. n /\ n \in Nat
  OBVIOUS
<1>2. Num(s, S) = Cardinality(A)
  BY DEF Num
<1> HIDE DEF A, n
<1>3. Cardinality(1 .. n) = n
  BY <1>1, FS_Interval
<1>4. QED
  BY <1>1, <1>2, <1>3 DEF n

LEMMA NumNothing == \A S : Num(<< >>, S) = 0
<1> SUFFICES ASSUME NEW S PROVE Num(<< >>, S) = 0
  OBVIOUS
<1> DEFINE s == << >>
<1>1. s \in Seq({}) /\ Len(s) = 0
  OBVIOUS
<1> HIDE DEF s
<1>2. \A i \in 1 .. Len(s) : s[i] \notin S
  BY <1>1
<1>3. Num(s, S) = 0
  BY <1>1, <1>2, NumIs
<1>4. QED
  BY <1>3 DEF s

\* The counts of the properties.
LEMMA CountIsNum ==
    ASSUME NEW T, NEW s \in Seq(T), NEW type, NEW S, \A m \in T : m \in S <=> m.type = type
    PROVE  Count(s, type) = Num(s, S)
<1>1. \A i \in 1 .. Len(s) : s[i].type = type <=> s[i] \in S
  OBVIOUS
<1>2. QED
  BY <1>1 DEF Count, Num

LEMMA CountFromIsNum ==
    ASSUME NEW T, NEW s \in Seq(T), NEW type, NEW e, NEW S, \A m \in T : m \in S <=> m.type = type /\ m.from = e
    PROVE  CountFrom(s, type, e) = Num(s, S)
<1>1. \A i \in 1 .. Len(s) : s[i].type = type /\ s[i].from = e <=> s[i] \in S
  OBVIOUS
<1>2. QED
  BY <1>1 DEF CountFrom, Num

-----------------------------------------------------------------------------
(* Queues.                                                                  *)

\* Queues q once the first messages for A have been taken, and x been sent to B.
Passed(q, A, B, x) ==
  [z \in Endpoints |-> IF z \in A THEN Tail(q[z]) ELSE IF z \in B THEN Append(q[z], x) ELSE q[z]]

\* There are messages to take, where none is sent.
Fits(q, A, B) == A \cap B = {} /\ \A z \in A : q[z] # << >>

\* An endpoint, if it receives.
Open(e) == {z \in {e} : Receiving(z)}

\* What that changes for the messages of S that are queued for z.
Gone(z, q, A, S) == IF z \in A /\ Head(q[z]) \in S THEN 1 ELSE 0
Came(z, B, x, S) == IF z \in B /\ x \in S THEN 1 ELSE 0

LEMMA NumPassed ==
    ASSUME NEW q \in [Endpoints -> Seq(Queued)], NEW A, NEW B, Fits(q, A, B),
           NEW x \in Queued, NEW z \in Endpoints, NEW S
    PROVE  Num(Passed(q, A, B, x)[z], S) = Num(q[z], S) - Gone(z, q, A, S) + Came(z, B, x, S)
<1> DEFINE s == q[z]
           r == Passed(q, A, B, x)[z]
<1>1. s \in Seq(Queued) /\ (z \in A => s # << >> /\ z \notin B)
  BY DEF Fits
<1>2. r = IF z \in A THEN Tail(s) ELSE IF z \in B THEN Append(s, x) ELSE s
  BY DEF Passed
<1>3. Gone(z, q, A, S) = IF z \in A THEN One(Head(s), S) ELSE 0
  BY DEF Gone, One
<1>4. Came(z, B, x, S) = IF z \in B THEN One(x, S) ELSE 0
  BY DEF Came, One
<1>5. One(Head(s), S) \in Nat /\ One(x, S) \in Nat
  BY DEF One
<1> HIDE DEF s, r
<1>6. Num(s, S) \in Nat
  BY <1>1, NumIs
<1>7. CASE z \in A
  <2>1. s # << >> /\ z \notin B /\ r = Tail(s)
    BY <1>1, <1>2, <1>7
  <2>2. Num(r, S) = Num(s, S) - One(Head(s), S)
    BY <1>1, <2>1, NumTail
  <2>3. Gone(z, q, A, S) = One(Head(s), S) /\ Came(z, B, x, S) = 0
    BY <1>3, <1>4, <1>7, <2>1
  <2>4. QED
    BY <1>5, <1>6, <2>2, <2>3 DEF r, s
<1>8. CASE z \notin A /\ z \in B
  <2>1. r = Append(s, x)
    BY <1>2, <1>8
  <2>2. Num(r, S) = Num(s, S) + One(x, S)
    BY <1>1, <2>1, NumAppend
  <2>3. Gone(z, q, A, S) = 0 /\ Came(z, B, x, S) = One(x, S)
    BY <1>3, <1>4, <1>8
  <2>4. QED
    BY <1>5, <1>6, <2>2, <2>3 DEF r, s
<1>9. CASE z \notin A /\ z \notin B
  <2>1. r = s
    BY <1>2, <1>9
  <2>2. Gone(z, q, A, S) = 0 /\ Came(z, B, x, S) = 0
    BY <1>3, <1>4, <1>9
  <2>3. QED
    BY <1>6, <2>1, <2>2 DEF r, s
<1>10. QED
  BY <1>7, <1>8, <1>9

\* The kinds of messages.
LEMMA Kinds ==
    /\ Kind(Peer(U)) = ToUpstream /\ Kind(Remote(U)) = FromUpstream
    /\ \A c \in Clients : Kind(Peer(c)) = ToClient(c) /\ Kind(Remote(c)) = FromClient(c)
    /\ \A e \in Endpoints : Kind(e) \subseteq Queued
    /\ \A c \in Clients : /\ SlotKind(c) = ClientSlots(c) /\ LineKind(c) = Written /\ DeferKind(c) = Deferred(c)
    /\ SlotKind(U) = UpstreamSlots /\ LineKind(U) = Relayed /\ DeferKind(U) = {}
    /\ \A f \in Flats : SlotKind(f) \subseteq Handler
<1>1. Kind(Peer(U)) = ToUpstream /\ Kind(Remote(U)) = FromUpstream
  BY Addresses DEF Kind
<1>2. ASSUME NEW c \in Clients PROVE Kind(Peer(c)) = ToClient(c) /\ Kind(Remote(c)) = FromClient(c)
  <2>1. c # U
    BY Addresses
  <2>2. Peer(c) # Peer(U) /\ Peer(c) # Remote(U) /\ Remote(c) # Peer(U) /\ Remote(c) # Remote(U) /\ Peer(c) # Remote(c)
        /\ Peer(c)[1] = c /\ Remote(c)[1] = c
    BY <2>1, Addresses
  <2>3. QED
    BY <2>2 DEF Kind
<1>3. \A e \in Endpoints : Kind(e) \subseteq Queued
  BY DEF Kind, ToUpstream, FromUpstream, ToClient, FromClient
<1>4. \A c \in Clients : /\ SlotKind(c) = ClientSlots(c) /\ LineKind(c) = Written /\ DeferKind(c) = Deferred(c)
  BY Addresses DEF SlotKind, LineKind, DeferKind
<1>5. SlotKind(U) = UpstreamSlots /\ LineKind(U) = Relayed /\ DeferKind(U) = {}
  BY DEF SlotKind, LineKind, DeferKind
<1>6. \A f \in Flats : SlotKind(f) \subseteq Handler
  BY DEF SlotKind, UpstreamSlots, ClientSlots
<1>7. QED
  BY <1>1, <1>2, <1>3, <1>4, <1>5, <1>6

\* Messages stay where they belong.
Proper(q) == q \in [Endpoints -> Seq(Queued)] /\ \A z \in Endpoints : q[z] \in Seq(Kind(z))

\* A message may be sent to B.
Belongs(x, B) == \A z \in B : x \in Kind(z)

LEMMA PassedKinds ==
    ASSUME NEW q, Proper(q), NEW A, NEW B, Fits(q, A, B), NEW x, Belongs(x, B)
    PROVE  Proper(Passed(q, A, B, x))
<1>1. ASSUME NEW z \in Endpoints
      PROVE  LET r == Passed(q, A, B, x)[z] IN r \in Seq(Kind(z)) /\ r \in Seq(Queued)
  <2> DEFINE s == q[z]
             K == Kind(z)
             r == IF z \in A THEN Tail(s) ELSE IF z \in B THEN Append(s, x) ELSE s
  <2>1. s \in Seq(K) /\ s \in Seq(Queued) /\ K \subseteq Queued /\ (z \in A => s # << >>) /\ (z \in B => x \in K)
    BY Kinds DEF Proper, Fits, Belongs
  <2>2. Passed(q, A, B, x)[z] = r
    BY DEF Passed
  <2> HIDE DEF s, K
  <2>3. r \in Seq(K) /\ r \in Seq(Queued)
    BY <2>1
  <2>4. QED
    BY <2>2, <2>3 DEF K
<1>2. QED
  BY <1>1 DEF Passed, Proper

\* A message that is sent, and one that is taken before.
Letter(type, name, of) == [type |-> type, name |-> name, of |-> of]
Mail(type, name, of, from) == [type |-> type, name |-> name, of |-> of, from |-> from]
Taken(q, e) == [q EXCEPT ![e] = Tail(@)]

LEMMA SentDoes ==
    ASSUME NEW q \in [Endpoints -> Seq(Queued)], NEW to \in Endpoints, NEW from, NEW type, NEW name, NEW of
    PROVE  Sent(q, from, to, Letter(type, name, of)) = Passed(q, {}, Open(to), Mail(type, name, of, from))
<1> DEFINE m == Letter(type, name, of)
           x == Mail(type, name, of, from)
<1>1. x = [type |-> m.type, name |-> m.name, of |-> m.of, from |-> from]
  BY DEF Letter, Mail
<1> HIDE DEF x, m
<1>2. Sent(q, from, to, m) = IF Receiving(to) THEN [q EXCEPT ![to] = Append(@, x)] ELSE q
  BY <1>1 DEF Sent
<1>3. \A z : z \in Open(to) <=> z = to /\ Receiving(to)
  BY DEF Open
<1>4. Sent(q, from, to, m) = Passed(q, {}, Open(to), x)
  BY <1>2, <1>3 DEF Passed
<1>5. QED
  BY <1>4 DEF x, m

LEMMA TakenSentDoes ==
    ASSUME NEW q \in [Endpoints -> Seq(Queued)], NEW e \in Endpoints, q[e] # << >>,
           NEW to \in Endpoints, NEW from, e # to, NEW type, NEW name, NEW of
    PROVE  Sent(Taken(q, e), from, to, Letter(type, name, of)) = Passed(q, {e}, Open(to), Mail(type, name, of, from))
<1> DEFINE m == Letter(type, name, of)
           x == Mail(type, name, of, from)
           taken == Taken(q, e)
<1>1. taken \in [Endpoints -> Seq(Queued)] /\ taken[to] = q[to] /\ taken[e] = Tail(q[e])
      /\ \A z \in Endpoints \ {e} : taken[z] = q[z]
  BY DEF Taken
<1>2. x = [type |-> m.type, name |-> m.name, of |-> m.of, from |-> from]
  BY DEF Letter, Mail
<1> HIDE DEF x, m, taken
<1>3. Sent(taken, from, to, m) = IF Receiving(to) THEN [taken EXCEPT ![to] = Append(@, x)] ELSE taken
  BY <1>2 DEF Sent
<1>4. \A z : z \in Open(to) <=> z = to /\ Receiving(to)
  BY DEF Open
<1>5. Sent(taken, from, to, m) = Passed(q, {e}, Open(to), x)
  BY <1>1, <1>3, <1>4 DEF Passed
<1>6. QED
  BY <1>5 DEF x, m, taken

LEMMA TakenDoes ==
    ASSUME NEW q \in [Endpoints -> Seq(Queued)], NEW e \in Endpoints, NEW x
    PROVE  Taken(q, e) = Passed(q, {e}, {}, x)
BY DEF Passed, Taken

-----------------------------------------------------------------------------
(* The state of flats.                                                      *)

LEMMA Flat ==
    ASSUME Places
    PROVE  /\ size \in Nat \ {0} /\ flush \in Nat /\ named \in [Clients -> Names]
           /\ queue \in [Endpoints -> Seq(Queued)] /\ \A e \in Endpoints : queue[e] \in Seq(Kind(e))
           /\ f_replies \in [Flats -> [1 .. size -> Handler \cup {NULL}]]
           /\ \A f \in Flats : f_replies[f] \in [1 .. size -> SlotKind(f) \cup {NULL}]
<1>1. [size |-> size, flush |-> flush, named |-> named] \in [size : Nat \ {0}, flush : Nat, named : [Clients -> Names]]
  BY Constants DEF Places, SetupOK
<1>2. size \in Nat \ {0} /\ flush \in Nat /\ named \in [Clients -> Names]
  BY <1>1
<1>3. QED
  BY <1>2 DEF Places, QueuesOK, SlotsOK

\* A set that one element may have entered or left.
SameBut(k, A, B) == \A i : i # k => (i \in B <=> i \in A)

LEMMA OneMoreOrLess ==
    ASSUME NEW k, NEW A, NEW B, IsFiniteSet(A), SameBut(k, A, B)
    PROVE  Cardinality(B) = Cardinality(A) - (IF k \in A THEN 1 ELSE 0) + (IF k \in B THEN 1 ELSE 0)
<1>1. Cardinality(A) \in Nat
  BY FS_CardinalityType
<1>2. CASE k \in A /\ k \in B
  <2>1. \A i : i \in A <=> i \in B
    BY <1>2, Zenon DEF SameBut
  <2>2. A = B
    BY <2>1
  <2>3. QED
    BY <1>1, <1>2, <2>2
<1>3. CASE k \notin A /\ k \notin B
  <2>1. \A i : i \in A <=> i \in B
    BY <1>3, Zenon DEF SameBut
  <2>2. A = B
    BY <2>1
  <2>3. QED
    BY <1>1, <1>3, <2>2
<1>4. CASE k \notin A /\ k \in B
  <2>1. B = A \cup {k}
    BY <1>4, Zenon DEF SameBut
  <2>2. Cardinality(A \cup {k}) = Cardinality(A) + 1
    BY <1>4, FS_AddElement
  <2>3. QED
    BY <1>1, <1>4, <2>1, <2>2
<1>5. CASE k \in A /\ k \notin B
  <2>1. B = A \ {k}
    BY <1>5, Zenon DEF SameBut
  <2>2. Cardinality(A \ {k}) = Cardinality(A) - 1
    BY <1>5, FS_RemoveElement
  <2>3. QED
    BY <1>1, <1>5, <2>1, <2>2
<1>6. QED
  BY <1>2, <1>3, <1>4, <1>5

LEMMA AwaitedIs ==
    ASSUME Places, NEW f \in Flats, NEW e
    PROVE  /\ Cardinality(Awaited(f, e)) \in Nat
           /\ Cardinality(Awaited(f, e)) = 0 <=>
                \A i \in 1 .. size : ~(f_replies[f][i] # NULL /\ f_replies[f][i].issuer = e)
<1> DEFINE A == Awaited(f, e)
<1>1. A \in SUBSET (1 .. size) /\ size \in Nat
  BY Flat DEF Awaited
<1>2. A = {} <=> \A i \in 1 .. size : ~(f_replies[f][i] # NULL /\ f_replies[f][i].issuer = e)
  BY DEF Awaited
<1> HIDE DEF A
<1>3. Cardinality(A) \in Nat /\ (Cardinality(A) = 0 <=> A = {})
  BY <1>1, PositionsCounted
<1>4. QED
  BY <1>2, <1>3 DEF A

\* When a slot is taken or freed.
Waits(v, e) == IF v # NULL /\ v.issuer = e THEN 1 ELSE 0

LEMMA AwaitedStays ==
    ASSUME Places, NEW f \in Flats, NEW k \in 1 .. size, NEW v,
           f_replies' = [f_replies EXCEPT ![f][k] = v], size' = size
    PROVE  \A e : \A g \in Flats \ {f} : Awaited(g, e)' = Awaited(g, e)
<1>1. \A g \in Flats \ {f} : f_replies'[g] = f_replies[g]
  BY Flat
<1>2. QED
  BY <1>1 DEF Awaited

LEMMA AwaitedChanges ==
    ASSUME Places, NEW f \in Flats, NEW k \in 1 .. size, NEW v \in Handler \cup {NULL},
           f_replies' = [f_replies EXCEPT ![f][k] = v], size' = size, NEW e
    PROVE  Cardinality(Awaited(f, e)') = Cardinality(Awaited(f, e)) - Waits(f_replies[f][k], e) + Waits(v, e)
<1>1. /\ size \in Nat /\ f_replies[f] \in [1 .. size -> Handler \cup {NULL}]
      /\ f_replies \in [Flats -> [1 .. size -> Handler \cup {NULL}]]
  BY Flat
<1>2. f_replies'[f][k] = v /\ \A i \in 1 .. size : i # k => f_replies'[f][i] = f_replies[f][i]
  BY <1>1
<1> DEFINE A == Awaited(f, e)
           B == Awaited(f, e)'
<1>3. /\ k \in A <=> f_replies[f][k] # NULL /\ f_replies[f][k].issuer = e
      /\ k \in B <=> v # NULL /\ v.issuer = e
  BY <1>2 DEF Awaited
<1>4. SameBut(k, A, B)
  BY <1>2 DEF Awaited, SameBut
<1>5. A \in SUBSET (1 .. size)
  BY DEF Awaited
<1> HIDE DEF A, B
<1>6. IsFiniteSet(A)
  BY <1>1, <1>5, PositionsCounted
<1>7. Cardinality(B) = Cardinality(A) - (IF k \in A THEN 1 ELSE 0) + (IF k \in B THEN 1 ELSE 0)
  BY <1>4, <1>6, OneMoreOrLess
<1>8. Cardinality(B) = Cardinality(A) - Waits(f_replies[f][k], e) + Waits(v, e)
  BY <1>3, <1>7 DEF Waits
<1>9. QED
  BY <1>8 DEF A, B

\* The numbers of messages for clients.
LEMMA NumbersAre ==
    ASSUME Places, NEW c \in Clients
    PROVE  /\ Asking(c) \in Nat /\ Awaiting(c) \in Nat /\ Answering(c) \in Nat
           /\ Relaying(c) \in Nat /\ Upstreaming(c) \in Nat /\ Returning(c) \in Nat
<1>1. c \in Flats /\ U \in Flats /\ Peer(c) \in Endpoints /\ Remote(c) \in Endpoints /\ Peer(U) \in Endpoints
  BY Addresses
<1>2. /\ queue[Peer(c)] \in Seq(Queued) /\ queue[Remote(c)] \in Seq(Queued) /\ queue[Peer(U)] \in Seq(Queued)
  BY <1>1, Flat
<1>3. Asking(c) \in Nat /\ Answering(c) \in Nat /\ Relaying(c) \in Nat /\ Returning(c) \in Nat
  BY <1>2, NumIs DEF Asking, Answering, Relaying, Returning
<1>4. Awaiting(c) \in Nat /\ Upstreaming(c) \in Nat
  BY <1>1, AwaitedIs DEF Awaiting, Upstreaming
<1>5. QED
  BY <1>3, <1>4

\* Queues other than that of the upstream server's network.
Elsewhere(A, B, x) == \A z \in Endpoints \ {Remote(U)} : queue'[z] = Passed(queue, A, B, x)[z]

\* Messages change them by one.
LEMMA NumbersChange ==
    ASSUME Places, NEW A, NEW B, Fits(queue, A, B), NEW x \in Queued,
           Elsewhere(A, B, x), NEW c \in Clients
    PROVE  /\ Asking(c)' = Asking(c) - Gone(Peer(c), queue, A, Asks) + Came(Peer(c), B, x, Asks)
           /\ Answering(c)' = Answering(c) - Gone(Remote(c), queue, A, Replies) + Came(Remote(c), B, x, Replies)
           /\ Relaying(c)' =
                Relaying(c) - Gone(Peer(U), queue, A, AsksFrom(Peer(c))) + Came(Peer(U), B, x, AsksFrom(Peer(c)))
           /\ Returning(c)' = Returning(c) - Gone(Peer(c), queue, A, Replies) + Came(Peer(c), B, x, Replies)
<1>1. /\ Peer(c) \in Endpoints /\ Remote(c) \in Endpoints /\ Peer(U) \in Endpoints
      /\ Peer(c) # Remote(U) /\ Remote(c) # Remote(U) /\ Peer(U) # Remote(U)
  BY Addresses
<1>2. queue \in [Endpoints -> Seq(Queued)]
  BY Flat
<1>3. /\ queue'[Peer(c)] = Passed(queue, A, B, x)[Peer(c)] /\ queue'[Remote(c)] = Passed(queue, A, B, x)[Remote(c)]
      /\ queue'[Peer(U)] = Passed(queue, A, B, x)[Peer(U)]
  BY <1>1 DEF Elsewhere
<1>4. Asking(c)' = Asking(c) - Gone(Peer(c), queue, A, Asks) + Came(Peer(c), B, x, Asks)
  <2>1. Num(Passed(queue, A, B, x)[Peer(c)], Asks) =
            Num(queue[Peer(c)], Asks) - Gone(Peer(c), queue, A, Asks) + Came(Peer(c), B, x, Asks)
    BY <1>1, <1>2, NumPassed
  <2>2. Asking(c) = Num(queue[Peer(c)], Asks) /\ Asking(c)' = Num(queue'[Peer(c)], Asks)
    BY DEF Asking
  <2>3. QED
    BY <1>3, <2>1, <2>2
<1>5. Answering(c)' = Answering(c) - Gone(Remote(c), queue, A, Replies) + Came(Remote(c), B, x, Replies)
  <2>1. Num(Passed(queue, A, B, x)[Remote(c)], Replies) =
            Num(queue[Remote(c)], Replies) - Gone(Remote(c), queue, A, Replies) + Came(Remote(c), B, x, Replies)
    BY <1>1, <1>2, NumPassed
  <2>2. Answering(c) = Num(queue[Remote(c)], Replies) /\ Answering(c)' = Num(queue'[Remote(c)], Replies)
    BY DEF Answering
  <2>3. QED
    BY <1>3, <2>1, <2>2
<1>6. Relaying(c)' = Relaying(c) - Gone(Peer(U), queue, A, AsksFrom(Peer(c))) + Came(Peer(U), B, x, AsksFrom(Peer(c)))
  <2>1. Num(Passed(queue, A, B, x)[Peer(U)], AsksFrom(Peer(c))) =
            Num(queue[Peer(U)], AsksFrom(Peer(c))) - Gone(Peer(U), queue, A, AsksFrom(Peer(c))) + Came(Peer(U), B, x, AsksFrom(Peer(c)))
    BY <1>1, <1>2, NumPassed
  <2>2. Relaying(c) = Num(queue[Peer(U)], AsksFrom(Peer(c))) /\ Relaying(c)' = Num(queue'[Peer(U)], AsksFrom(Peer(c)))
    BY DEF Relaying
  <2>3. QED
    BY <1>3, <2>1, <2>2
<1>7. Returning(c)' = Returning(c) - Gone(Peer(c), queue, A, Replies) + Came(Peer(c), B, x, Replies)
  <2>1. Num(Passed(queue, A, B, x)[Peer(c)], Replies) =
            Num(queue[Peer(c)], Replies) - Gone(Peer(c), queue, A, Replies) + Came(Peer(c), B, x, Replies)
    BY <1>1, <1>2, NumPassed
  <2>2. Returning(c) = Num(queue[Peer(c)], Replies) /\ Returning(c)' = Num(queue'[Peer(c)], Replies)
    BY DEF Returning
  <2>3. QED
    BY <1>3, <2>1, <2>2
<1>8. QED
  BY <1>4, <1>5, <1>6, <1>7

-----------------------------------------------------------------------------
(* What stays.                                                              *)

Settled == UNCHANGED <<size, flush, named>>

LEMMA KindsStay ==
    ASSUME UNCHANGED named
    PROVE  /\ \A e : Kind(e)' = Kind(e)
           /\ \A f : SlotKind(f)' = SlotKind(f) /\ LineKind(f)' = LineKind(f) /\ DeferKind(f)' = DeferKind(f)
           /\ Questions' = Questions
<1>1. /\ ToUpstream' = ToUpstream /\ FromUpstream' = FromUpstream
      /\ \A c : ToClient(c)' = ToClient(c) /\ FromClient(c)' = FromClient(c)
  BY DEF ToUpstream, FromUpstream, ToClient, FromClient
<1>2. /\ UpstreamSlots' = UpstreamSlots /\ Relayed' = Relayed /\ Written' = Written
      /\ \A c : ClientSlots(c)' = ClientSlots(c) /\ Deferred(c)' = Deferred(c)
  BY DEF UpstreamSlots, ClientSlots, Relayed, Written, Deferred
<1>3. \A e : Kind(e)' = Kind(e)
  BY <1>1 DEF Kind
<1>4. \A f : SlotKind(f)' = SlotKind(f) /\ LineKind(f)' = LineKind(f) /\ DeferKind(f)' = DeferKind(f)
  BY <1>2 DEF SlotKind, LineKind, DeferKind
<1>5. Questions' = Questions
  BY DEF Questions
<1>6. QED
  BY <1>3, <1>4, <1>5

LEMMA PlacesStay ==
    ASSUME Places, Settled
    PROVE  /\ SetupOK'
           /\ UNCHANGED queue => QueuesOK'
           /\ UNCHANGED f_replies => SlotsOK'
           /\ UNCHANGED f_line => LinesOK'
           /\ UNCHANGED f_defer => DefersOK'
           /\ UNCHANGED <<f_state, closed, f_deferring>> => StatesOK'
           /\ UNCHANGED <<sent, got, asked>> => TalksOK'
<1>1. UNCHANGED named /\ size' = size /\ flush' = flush
  BY DEF Settled
<1>2. SetupOK'
  BY <1>1 DEF Places, SetupOK
<1>3. UNCHANGED queue => QueuesOK'
  BY <1>1, KindsStay DEF Places, QueuesOK
<1>4. UNCHANGED f_replies => SlotsOK'
  BY <1>1, KindsStay DEF Places, SlotsOK
<1>5. UNCHANGED f_line => LinesOK'
  BY <1>1, KindsStay DEF Places, LinesOK
<1>6. UNCHANGED f_defer => DefersOK'
  BY <1>1, KindsStay DEF Places, DefersOK
<1>7. UNCHANGED <<f_state, closed, f_deferring>> => StatesOK'
  BY DEF Places, StatesOK
<1>8. UNCHANGED <<sent, got, asked>> => TalksOK'
  BY <1>1, KindsStay DEF Places, TalksOK
<1>9. QED
  BY <1>2, <1>3, <1>4, <1>5, <1>6, <1>7, <1>8

LEMMA QueuesPassed ==
    ASSUME Places, Settled, NEW A, NEW B, Fits(queue, A, B), NEW x, Belongs(x, B),
           queue' = Passed(queue, A, B, x)
    PROVE  QueuesOK'
<1>1. Proper(queue)
  BY Flat DEF Proper
<1>2. Proper(queue')
  BY <1>1, PassedKinds
<1>3. \A z : Kind(z)' = Kind(z)
  BY KindsStay DEF Settled
<1>4. QED
  BY <1>2, <1>3 DEF QueuesOK, Proper

LEMMA SlotsSet ==
    ASSUME Places, Settled, NEW f \in Flats, NEW k \in 1 .. size, NEW v \in SlotKind(f) \cup {NULL},
           f_replies' = [f_replies EXCEPT ![f][k] = v]
    PROVE  SlotsOK'
<1>1. /\ f_replies \in [Flats -> [1 .. size -> Handler \cup {NULL}]]
      /\ \A g \in Flats : f_replies[g] \in [1 .. size -> SlotKind(g) \cup {NULL}]
  BY Flat
<1>2. v \in Handler \cup {NULL}
  BY Kinds
<1>3. f_replies' \in [Flats -> [1 .. size -> Handler \cup {NULL}]]
  BY <1>1, <1>2
<1>4. ASSUME NEW g \in Flats PROVE f_replies'[g] \in [1 .. size -> SlotKind(g) \cup {NULL}]
  BY <1>1
<1>5. size' = size /\ \A g : SlotKind(g)' = SlotKind(g)
  BY KindsStay DEF Settled
<1>6. QED
  BY <1>3, <1>4, <1>5 DEF SlotsOK

\* A client that is not concerned.
Still(d) ==
  /\ Asking(d)' = Asking(d) /\ Awaiting(d)' = Awaiting(d) /\ Answering(d)' = Answering(d)
  /\ Relaying(d)' = Relaying(d) /\ Upstreaming(d)' = Upstreaming(d) /\ Returning(d)' = Returning(d)
  /\ f_deferring'[d] = f_deferring[d] /\ f_defer'[d] = f_defer[d] /\ f_line'[d] = f_line[d]
  /\ sent'[d] = sent[d] /\ got'[d] = got[d]
  /\ Alive(d)' => Alive(d)
  /\ closed[d] => closed'[d]
  /\ Alive(U)' => Alive(U)

LEMMA StillClient ==
    ASSUME NEW d \in Clients, Client(d), Still(d)
    PROVE  Client(d)'
<1>1. Relaying(d)' + Upstreaming(d)' <= 1
  BY DEF Client, Still
<1>2. ASSUME Alive(d)' PROVE Hop(d)' /\ Ledger(d)'
  <2>1. Alive(d) /\ Hop(d) /\ Ledger(d)
    BY <1>2 DEF Client, Still
  <2>2. Outside(d)' = Outside(d)
    BY DEF Outside, Still
  <2>3. Hop(d)'
    BY <2>1, <2>2 DEF Hop, Still
  <2>4. Ledger(d)'
    BY <2>1, <2>2 DEF Ledger, Still
  <2>5. QED
    BY <2>3, <2>4
<1>3. QED
  BY <1>1, <1>2 DEF Client

LEMMA SlotsStay ==
    ASSUME UNCHANGED <<size, f_replies>>
    PROVE  \A d : Awaiting(d)' = Awaiting(d) /\ Upstreaming(d)' = Upstreaming(d)
BY DEF Awaiting, Upstreaming, Awaited

LEMMA QueuesStay ==
    ASSUME UNCHANGED queue
    PROVE  \A d : /\ Asking(d)' = Asking(d) /\ Answering(d)' = Answering(d)
                  /\ Relaying(d)' = Relaying(d) /\ Returning(d)' = Returning(d)
BY DEF Asking, Answering, Relaying, Returning

\* The first and the last of some slots.
LEMMA Least ==
    ASSUME NEW S \in SUBSET Nat, S # {}
    PROVE  \E m \in S : \A n \in S : m <= n
<1>1. PICK N \in S : TRUE
  OBVIOUS
<1> DEFINE below == {n \in S : n <= N}
           I == {0 .. n : n \in below}
<1>2. IsFiniteSet(0 .. N)
  BY FS_Interval
<1>3. I \subseteq SUBSET (0 .. N) /\ I # {}
  BY <1>1
<1>4. I \subseteq FiniteSubsetsOf(0 .. N)
  BY <1>2, <1>3, FS_FiniteSubsetsOfFinite
<1>5. IsWellFoundedOn(StrictSubsetOrdering(0 .. N), FiniteSubsetsOf(0 .. N))
  BY FS_StrictSubsetOrderingWellFounded
<1>6. PICK x \in I : \A y \in I : ~ (<<y, x>> \in StrictSubsetOrdering(0 .. N))
  BY <1>3, <1>4, <1>5, WFMin
<1>7. PICK m \in below : x = 0 .. m
  BY <1>6
<1>8. ASSUME NEW n \in S PROVE m <= n
  <2> SUFFICES ASSUME n < m PROVE FALSE
    BY <1>7
  <2>1. n \in below /\ 0 .. n \in I
    BY <1>7
  <2>2. 0 .. n \subseteq 0 .. m /\ m \notin 0 .. n /\ m \in 0 .. m
    BY <1>7
  <2>3. <<0 .. n, 0 .. m>> \in StrictSubsetOrdering(0 .. N)
    BY <1>3, <1>6, <1>7, <2>1, <2>2 DEF StrictSubsetOrdering
  <2>4. QED
    BY <1>6, <1>7, <2>1, <2>3
<1>9. QED
  BY <1>7, <1>8

LEMMA Chosen ==
    ASSUME NEW n \in Nat, NEW S \in SUBSET (1 .. n), S # {}
    PROVE  /\ (CHOOSE i \in S : \A j \in S : i <= j) \in S
           /\ (CHOOSE i \in S : \A j \in S : j <= i) \in S
<1>1. \E i \in S : \A j \in S : i <= j
  <2>1. S \in SUBSET Nat
    OBVIOUS
  <2>2. QED
    BY <2>1, Least
<1>2. \E i \in S : \A j \in S : j <= i
  <2> DEFINE R == {n - i : i \in S}
  <2>1. R \in SUBSET Nat /\ R # {}
    <3>1. \A i \in S : n - i \in Nat
      OBVIOUS
    <3>2. PICK i \in S : TRUE
      OBVIOUS
    <3>3. n - i \in R
      OBVIOUS
    <3>4. QED
      BY <3>1, <3>3
  <2> HIDE DEF R
  <2>2. PICK m \in R : \A k \in R : m <= k
    BY <2>1, Least
  <2>3. PICK i \in S : m = n - i
    BY <2>2 DEF R
  <2>4. ASSUME NEW j \in S PROVE j <= i
    <3>1. m <= n - j
      BY <2>2 DEF R
    <3>2. i \in Nat /\ j \in Nat
      OBVIOUS
    <3>3. QED
      BY <2>3, <3>1, <3>2
  <2>5. QED
    BY <2>4
<1>3. QED
  BY <1>1, <1>2

-----------------------------------------------------------------------------
(* A turn of the peer of a client.                                          *)

Talk == UNCHANGED <<size, flush, named, f_state, f_deferring, f_defer, f_line, closed, sent, got, asked>>

\* The numbers of a client after a step.
Counted(d, asking, awaiting, answering, relaying, upstreaming, returning) ==
  /\ Asking(d)' = asking /\ Awaiting(d)' = awaiting /\ Answering(d)' = answering
  /\ Relaying(d)' = relaying /\ Upstreaming(d)' = upstreaming /\ Returning(d)' = returning

CountedSame(d) == Counted(d, Asking(d), Awaiting(d), Answering(d), Relaying(d), Upstreaming(d), Returning(d))

LEMMA TalkKeeps ==
    ASSUME DuplexInv, Talk, QueuesOK', SlotsOK', \A d \in Clients : Client(d)'
    PROVE  DuplexInv'
<1>1. Places /\ Settled
  BY DEF DuplexInv, Talk, Settled
<1>2. SetupOK' /\ LinesOK' /\ DefersOK' /\ StatesOK' /\ TalksOK'
  BY <1>1, PlacesStay DEF Talk
<1>3. Ends'
  BY DEF DuplexInv, Ends, Talk
<1>4. QED
  BY <1>2, <1>3 DEF DuplexInv, Places

LEMMA SameTalk ==
    ASSUME NEW d \in Clients, Client(d), Talk, CountedSame(d)
    PROVE  Client(d)'
<1>1. Still(d)
  BY DEF CountedSame, Counted, Still, Talk, Alive
<1>2. QED
  BY <1>1, StillClient

LEMMA HopTalk ==
    ASSUME NEW d \in Clients, Client(d), Talk, Relaying(d)' + Upstreaming(d)' <= 1, Alive(d) => Hop(d)'
    PROVE  Client(d)'
<1>1. Alive(d)' = Alive(d)
  BY DEF Talk, Alive
<1>2. Ledger(d)' = Ledger(d)
  BY DEF Ledger, Outside, Talk
<1>3. QED
  BY <1>1, <1>2 DEF Client

\* Hop, in a step that leaves alone all but the numbers.
LEMMA HopAfter ==
    ASSUME NEW d \in Clients, Talk, NEW a, NEW w, NEW n, NEW r, NEW s, NEW t,
           Counted(d, a, w, n, r, s, t)
    PROVE  Hop(d)' <=> /\ a + w + n = Outside(d)
                       /\ r + s + t <= w
                       /\ ~closed[d] /\ Alive(U) => r + s + t = w
<1>1. Outside(d)' = Outside(d) /\ closed'[d] = closed[d] /\ Alive(U)' = Alive(U)
  BY DEF Talk, Outside, Alive
<1>2. QED
  BY <1>1 DEF Counted, Hop

\* What messages there are for the peer of a client.
LEMMA ToClientIs ==
    ASSUME NEW c \in Clients, NEW m \in ToClient(c)
    PROVE  /\ m \in Queued /\ m.type \in {"request", "reply", "inform"} /\ m.of \in Requests
           /\ m \in Asks <=> m.type = "request"
           /\ m \in Replies <=> m.type = "reply"
           /\ m.type = "request" => m.from = Remote(c) /\ m.name = named[c] /\ m.of[1] = c
           /\ m.type # "request" => m.from = Peer(U) /\ m.name = "relay"
BY DEF ToClient, Asks, Replies, Queued

LEMMA FirstOf ==
    ASSUME Places, NEW e \in Endpoints, queue[e] # << >>
    PROVE  Head(queue[e]) \in Kind(e)
<1>1. queue[e] \in Seq(Kind(e))
  BY Flat
<1>2. QED
  BY <1>1

LEMMA TakenByClient ==
    ASSUME Places, NEW c \in Clients, queue[Peer(c)] # << >>, NEW B, B \subseteq {Remote(c), Peer(U)},
           NEW x \in Queued, queue' = Passed(queue, {Peer(c)}, B, x), x.from = Peer(c)
    PROVE  LET m == Head(queue[Peer(c)])
           IN  /\ \A d \in Clients \ {c} :
                     /\ Asking(d)' = Asking(d) /\ Answering(d)' = Answering(d)
                     /\ Relaying(d)' = Relaying(d) /\ Returning(d)' = Returning(d)
               /\ m.type = "request" => Asking(c)' = Asking(c) - 1 /\ Returning(c)' = Returning(c)
               /\ m.type = "reply" => Asking(c)' = Asking(c) /\ Returning(c)' = Returning(c) - 1
               /\ m.type = "inform" => Asking(c)' = Asking(c) /\ Returning(c)' = Returning(c)
               /\ Answering(c)' = Answering(c) + Came(Remote(c), B, x, Replies)
               /\ Relaying(c)' = Relaying(c) + Came(Peer(U), B, x, AsksFrom(Peer(c)))
<1> DEFINE m == Head(queue[Peer(c)])
           A == {Peer(c)}
<1>1. c # U /\ Peer(c) \in Endpoints /\ c \in Flats
  BY Addresses
<1>2. Fits(queue, A, B)
  BY Addresses DEF Fits
<1>3. m \in ToClient(c)
  BY <1>1, FirstOf, Kinds
<1>4. /\ m \in Asks <=> m.type = "request"
      /\ m \in Replies <=> m.type = "reply"
  BY <1>3, ToClientIs
<1> HIDE DEF m
<1>5. ASSUME NEW d \in Clients
      PROVE  /\ Asking(d)' = Asking(d) - Gone(Peer(d), queue, A, Asks) + Came(Peer(d), B, x, Asks)
             /\ Answering(d)' = Answering(d) - Gone(Remote(d), queue, A, Replies) + Came(Remote(d), B, x, Replies)
             /\ Relaying(d)' =
                  Relaying(d) - Gone(Peer(U), queue, A, AsksFrom(Peer(d))) + Came(Peer(U), B, x, AsksFrom(Peer(d)))
             /\ Returning(d)' = Returning(d) - Gone(Peer(d), queue, A, Replies) + Came(Peer(d), B, x, Replies)
  <2>1. Elsewhere(A, B, x)
    BY DEF Elsewhere
  <2> HIDE DEF A
  <2>2. QED
    BY <1>2, <2>1, NumbersChange
<1>6. \A d \in Clients : /\ Came(Peer(d), B, x, Asks) = 0 /\ Came(Peer(d), B, x, Replies) = 0
                         /\ Gone(Remote(d), queue, A, Replies) = 0
                         /\ Gone(Peer(U), queue, A, AsksFrom(Peer(d))) = 0
  BY <1>1, Addresses DEF Came, Gone
<1>7. \A d \in Clients \ {c} : /\ Gone(Peer(d), queue, A, Asks) = 0 /\ Gone(Peer(d), queue, A, Replies) = 0
                               /\ Came(Remote(d), B, x, Replies) = 0
                               /\ Came(Peer(U), B, x, AsksFrom(Peer(d))) = 0
  BY <1>1, Addresses DEF Came, Gone, AsksFrom
<1>8. /\ m.type = "request" => Gone(Peer(c), queue, A, Asks) = 1 /\ Gone(Peer(c), queue, A, Replies) = 0
      /\ m.type = "reply" => Gone(Peer(c), queue, A, Asks) = 0 /\ Gone(Peer(c), queue, A, Replies) = 1
      /\ m.type = "inform" => Gone(Peer(c), queue, A, Asks) = 0 /\ Gone(Peer(c), queue, A, Replies) = 0
  BY <1>4 DEF Gone, m
<1>9. \A d \in Clients : Asking(d) \in Nat /\ Answering(d) \in Nat /\ Relaying(d) \in Nat /\ Returning(d) \in Nat
  BY NumbersAre
<1>10. Came(Remote(c), B, x, Replies) \in Nat /\ Came(Peer(U), B, x, AsksFrom(Peer(c))) \in Nat
  BY DEF Came
<1> HIDE DEF A
<1>11. \A d \in Clients \ {c} : /\ Asking(d)' = Asking(d) /\ Answering(d)' = Answering(d)
                                /\ Relaying(d)' = Relaying(d) /\ Returning(d)' = Returning(d)
  BY <1>5, <1>6, <1>7, <1>9
<1>12. /\ m.type = "request" => Asking(c)' = Asking(c) - 1 /\ Returning(c)' = Returning(c)
       /\ m.type = "reply" => Asking(c)' = Asking(c) /\ Returning(c)' = Returning(c) - 1
       /\ m.type = "inform" => Asking(c)' = Asking(c) /\ Returning(c)' = Returning(c)
  BY <1>5, <1>6, <1>8, <1>9
<1>13. /\ Answering(c)' = Answering(c) + Came(Remote(c), B, x, Replies)
       /\ Relaying(c)' = Relaying(c) + Came(Peer(U), B, x, AsksFrom(Peer(c)))
  BY <1>5, <1>6, <1>9, <1>10
<1>14. QED
  BY <1>11, <1>12, <1>13 DEF m

\* The request is turned round.
LEMMA ClientFails ==
    ASSUME DuplexInv, NEW c \in Clients, queue[Peer(c)] # << >>, Talk,
           Fails(c, Head(queue[Peer(c)]), Taken(queue, Peer(c))),
           Alive(c) => Head(queue[Peer(c)]).type = "request"
    PROVE  DuplexInv'
<1> DEFINE m == Head(queue[Peer(c)])
           q == Taken(queue, Peer(c))
           x == Mail("reply", m.name, m.of, Peer(c))
<1>1. /\ Places /\ Settled /\ UNCHANGED f_replies /\ queue' = Turned(q, Peer(c), m)
      /\ queue \in [Endpoints -> Seq(Queued)] /\ \A d \in Clients : Client(d)
  BY Flat DEF DuplexInv, Fails, Talk, Settled
<1>2. /\ c # U /\ c \in Flats /\ U \in Flats
      /\ Peer(c) \in Endpoints /\ Remote(c) \in Endpoints /\ Peer(c) # Remote(c)
  BY Addresses
<1>3. m \in ToClient(c)
  BY <1>1, <1>2, FirstOf, Kinds
<1>4. /\ m \in Queued /\ m.type \in {"request", "reply", "inform"} /\ m.of \in Requests
      /\ m.type = "request" => m.from = Remote(c)
  BY <1>3, ToClientIs
<1>5. x \in FromClient(c) /\ x \in Queued /\ x.from = Peer(c) /\ x \in Replies
  BY <1>2, <1>4 DEF FromClient, Queued, Replies, Mail
<1> DEFINE B == IF m.type = "request" THEN Open(Remote(c)) ELSE {}
<1>6. queue' = Passed(queue, {Peer(c)}, B, x)
  <2> HIDE DEF m
  <2>1. CASE m.type = "request"
    <3>1. queue' = Sent(q, Peer(c), Remote(c), Letter("reply", m.name, m.of))
      BY <1>1, <1>4, <2>1 DEF Turned, Letter
    <3>2. Sent(q, Peer(c), Remote(c), Letter("reply", m.name, m.of)) = Passed(queue, {Peer(c)}, Open(Remote(c)), x)
      BY <1>1, <1>2, TakenSentDoes
    <3>3. QED
      BY <2>1, <3>1, <3>2
  <2>2. CASE m.type # "request"
    <3>1. queue' = q
      BY <1>1, <2>2 DEF Turned
    <3>2. QED
      BY <1>1, <1>2, <2>2, <3>1, TakenDoes
  <2>3. QED
    BY <2>1, <2>2
<1>7. B \subseteq {Remote(c)} /\ (Alive(c) => B = {Remote(c)})
  BY DEF Open, Receiving, Alive, Remote
<1> HIDE DEF B, m, x, q
<1>8. Fits(queue, {Peer(c)}, B)
  BY <1>2, <1>7 DEF Fits
<1>9. QueuesOK'
  <2>1. Belongs(x, B)
    BY <1>5, <1>7, Kinds DEF Belongs
  <2>2. QED
    BY <1>1, <1>6, <1>8, <2>1, QueuesPassed
<1>10. SlotsOK'
  BY <1>1, PlacesStay
<1>11. \A d \in Clients : Awaiting(d)' = Awaiting(d) /\ Upstreaming(d)' = Upstreaming(d)
  BY <1>1, SlotsStay DEF Settled
<1>12. /\ \A d \in Clients \ {c} : /\ Asking(d)' = Asking(d) /\ Answering(d)' = Answering(d)
                                   /\ Relaying(d)' = Relaying(d) /\ Returning(d)' = Returning(d)
       /\ m.type = "request" => Asking(c)' = Asking(c) - 1 /\ Returning(c)' = Returning(c)
       /\ Answering(c)' = Answering(c) + Came(Remote(c), B, x, Replies)
       /\ Relaying(c)' = Relaying(c) + Came(Peer(U), B, x, AsksFrom(Peer(c)))
  <2>1. B \subseteq {Remote(c), Peer(U)}
    BY <1>7
  <2>2. QED
    BY <1>1, <1>5, <1>6, <2>1, TakenByClient DEF m
<1>13. Came(Peer(U), B, x, AsksFrom(Peer(c))) = 0 /\ (Alive(c) => Came(Remote(c), B, x, Replies) = 1)
  BY <1>5, <1>7, Addresses DEF Came
<1>14. ASSUME NEW d \in Clients \ {c} PROVE Client(d)'
  <2>1. CountedSame(d)
    BY <1>11, <1>12 DEF CountedSame, Counted
  <2>2. QED
    BY <1>1, <2>1, SameTalk
<1>15. Client(c)'
  <2>1. /\ Asking(c) \in Nat /\ Awaiting(c) \in Nat /\ Answering(c) \in Nat
        /\ Relaying(c) \in Nat /\ Upstreaming(c) \in Nat /\ Returning(c) \in Nat
    BY <1>1, NumbersAre
  <2>2. Relaying(c)' + Upstreaming(c)' <= 1
    BY <1>1, <1>11, <1>12, <1>13, <2>1 DEF Client
  <2>3. ASSUME Alive(c) PROVE Hop(c)'
    <3>1. Hop(c)
      BY <1>1, <2>3 DEF Client
    <3>2. Counted(c, Asking(c) - 1, Awaiting(c), Answering(c) + 1, Relaying(c), Upstreaming(c), Returning(c))
      BY <1>11, <1>12, <1>13, <2>1, <2>3 DEF Counted, m
    <3>3. Outside(c) \in Nat
      BY DEF Outside
    <3>4. QED
      BY <2>1, <3>1, <3>2, <3>3, HopAfter DEF Hop
  <2>4. QED
    BY <1>1, <2>2, <2>3, HopTalk
<1>16. QED
  BY <1>9, <1>10, <1>14, <1>15, TalkKeeps

\* There is a slot for the handler of a request that nothing precedes.
LEMMA ClientFree ==
    ASSUME Places, NEW c \in Clients, queue[Peer(c)] # << >>, Head(queue[Peer(c)]).type = "request", Hop(c)
    PROVE  /\ Free(c) # {} /\ Free(c) \in SUBSET (1 .. size)
           /\ Awaiting(c) = 0 /\ Asking(c) = 1 /\ Answering(c) = 0 /\ Outside(c) = 1
           /\ Relaying(c) = 0 /\ Upstreaming(c) = 0 /\ Returning(c) = 0
<1>1. c \in Flats /\ Peer(c) \in Endpoints
  BY Addresses
<1>2. queue[Peer(c)] \in Seq(Queued) /\ Head(queue[Peer(c)]) \in Asks
  <2>1. Head(queue[Peer(c)]) \in ToClient(c)
    BY <1>1, FirstOf, Kinds
  <2>2. QED
    BY <1>1, <2>1, Flat, ToClientIs
<1>3. Asking(c) # 0
  <2> DEFINE s == queue[Peer(c)]
  <2>1. 1 \in 1 .. Len(s) /\ s[1] \in Asks
    BY <1>2
  <2> HIDE DEF s
  <2>2. s \in Seq(Queued)
    BY <1>2 DEF s
  <2>3. Num(s, Asks) # 0
    BY <2>1, <2>2, NumIs
  <2>4. QED
    BY <2>3 DEF Asking, s
<1>4. /\ Asking(c) \in Nat /\ Awaiting(c) \in Nat /\ Answering(c) \in Nat
      /\ Relaying(c) \in Nat /\ Upstreaming(c) \in Nat /\ Returning(c) \in Nat
  BY NumbersAre
<1>5. Outside(c) \in 0 .. 1
  BY DEF Outside
<1>6. /\ Awaiting(c) = 0 /\ Asking(c) = 1 /\ Answering(c) = 0 /\ Outside(c) = 1
      /\ Relaying(c) = 0 /\ Upstreaming(c) = 0 /\ Returning(c) = 0
  BY <1>3, <1>4, <1>5 DEF Hop
<1>7. \A i \in 1 .. size : f_replies[c][i] = NULL
  <2>1. \A i \in 1 .. size : ~(f_replies[c][i] # NULL /\ f_replies[c][i].issuer = Remote(c))
    BY <1>1, <1>6, AwaitedIs DEF Awaiting
  <2>2. \A i \in 1 .. size : f_replies[c][i] \in ClientSlots(c) \cup {NULL}
    BY <1>1, Flat, Kinds
  <2>3. \A i \in 1 .. size : f_replies[c][i] \in ClientSlots(c) => f_replies[c][i].issuer = Remote(c)
    BY DEF ClientSlots
  <2>4. QED
    BY <2>1, <2>2, <2>3
<1>8. 1 \in 1 .. size
  BY Flat
<1>9. QED
  BY <1>6, <1>7, <1>8 DEF Free

\* The request is relayed.
LEMMA ClientRelays ==
    ASSUME DuplexInv, NEW c \in Clients, queue[Peer(c)] # << >>, Talk, Alive(c),
           Head(queue[Peer(c)]).type = "request",
           Forward(c, Head(queue[Peer(c)]), Taken(queue, Peer(c)), Peer(U), "relay")
    PROVE  DuplexInv'
<1> DEFINE m == Head(queue[Peer(c)])
           q == Taken(queue, Peer(c))
           x == Mail("request", "relay", m.of, Peer(c))
           slot == CHOOSE i \in Free(c) : \A j \in Free(c) : j <= i
           v == [issuer |-> m.from, recipient |-> Peer(U), message |-> "relay",
                 initial |-> [type |-> m.type, name |-> m.name, of |-> m.of]]
<1>1. /\ Places /\ Settled /\ size' = size
      /\ queue \in [Endpoints -> Seq(Queued)] /\ \A d \in Clients : Client(d)
  BY Flat DEF DuplexInv, Talk, Settled
<1>2. /\ c # U /\ c \in Flats /\ U \in Flats
      /\ Peer(c) \in Endpoints /\ Peer(U) \in Endpoints /\ Remote(c) \in Endpoints /\ Peer(c) # Peer(U)
  BY Addresses
<1>3. m \in ToClient(c)
  BY <1>1, <1>2, FirstOf, Kinds
<1>4. /\ m \in Queued /\ m.type = "request" /\ m.of \in Requests /\ m.of[1] = c
      /\ m.from = Remote(c) /\ m.name \in Names \cup {"relay"}
  <2>1. m.name \in Names \cup {"relay"}
    BY <1>3 DEF ToClient, Queued
  <2>2. QED
    BY <1>3, <2>1, ToClientIs
<1>5. Hop(c)
  BY <1>1 DEF Client
<1>6. /\ Free(c) # {} /\ Free(c) \in SUBSET (1 .. size)
      /\ Awaiting(c) = 0 /\ Asking(c) = 1 /\ Answering(c) = 0 /\ Outside(c) = 1
      /\ Relaying(c) = 0 /\ Upstreaming(c) = 0 /\ Returning(c) = 0
  BY <1>1, <1>5, ClientFree
<1>7. CASE ~Receiving(Peer(U))
  BY <1>7, ClientFails DEF Forward
<1>8. CASE Receiving(Peer(U))
  <2>1. /\ queue' = Sent(q, Peer(c), Peer(U), Letter("request", "relay", m.of))
        /\ f_replies' = [f_replies EXCEPT ![c][slot] = v]
    BY <1>6, <1>8 DEF Forward, Callback, Letter
  <2>2. x \in Queued /\ x \in ToUpstream /\ x.from = Peer(c) /\ x \in AsksFrom(Peer(c)) /\ x \notin Replies
    BY <1>2, <1>4 DEF ToUpstream, Queued, AsksFrom, Replies, Mail
  <2>3. v \in ClientSlots(c) /\ v \in Handler /\ v # NULL /\ v.issuer = Remote(c)
    BY <1>2, <1>4, Constants DEF ClientSlots, Handler, Message
  <2>4. slot \in Free(c)
    <3>1. size \in Nat
      BY <1>1, Flat
    <3>2. QED
      BY <1>6, <3>1, Chosen
  <2>5. slot \in 1 .. size /\ f_replies[c][slot] = NULL
    BY <2>4 DEF Free
  <2> HIDE DEF m, q, x, v, slot
  <2>6. queue' = Passed(queue, {Peer(c)}, {Peer(U)}, x)
    <3>1. Sent(q, Peer(c), Peer(U), Letter("request", "relay", m.of))
            = Passed(queue, {Peer(c)}, Open(Peer(U)), Mail("request", "relay", m.of, Peer(c)))
      BY <1>1, <1>2, TakenSentDoes DEF q
    <3>2. Open(Peer(U)) = {Peer(U)}
      BY <1>8 DEF Open
    <3>3. QED
      BY <2>1, <3>1, <3>2 DEF x
  <2>7. Fits(queue, {Peer(c)}, {Peer(U)})
    BY <1>2 DEF Fits
  <2>8. QueuesOK'
    <3>1. Belongs(x, {Peer(U)})
      BY <2>2, Kinds DEF Belongs
    <3>2. QED
      BY <1>1, <2>6, <2>7, <3>1, QueuesPassed
  <2>9. SlotsOK'
    <3>1. v \in SlotKind(c) \cup {NULL}
      BY <2>3, Kinds
    <3>2. QED
      BY <1>1, <1>2, <2>1, <2>5, <3>1, SlotsSet
  <2>10. /\ \A d \in Clients \ {c} : /\ Asking(d)' = Asking(d) /\ Answering(d)' = Answering(d)
                                     /\ Relaying(d)' = Relaying(d) /\ Returning(d)' = Returning(d)
         /\ Asking(c)' = Asking(c) - 1 /\ Returning(c)' = Returning(c)
         /\ Answering(c)' = Answering(c) + Came(Remote(c), {Peer(U)}, x, Replies)
         /\ Relaying(c)' = Relaying(c) + Came(Peer(U), {Peer(U)}, x, AsksFrom(Peer(c)))
    BY <1>1, <1>4, <2>2, <2>6, TakenByClient DEF m
  <2>11. Came(Remote(c), {Peer(U)}, x, Replies) = 0 /\ Came(Peer(U), {Peer(U)}, x, AsksFrom(Peer(c))) = 1
    BY <2>2 DEF Came
  <2>12. /\ Cardinality(Awaited(c, Remote(c))') =
               Cardinality(Awaited(c, Remote(c))) - Waits(f_replies[c][slot], Remote(c)) + Waits(v, Remote(c))
         /\ \A e : \A g \in Flats \ {c} : Awaited(g, e)' = Awaited(g, e)
         /\ Waits(f_replies[c][slot], Remote(c)) = 0 /\ Waits(v, Remote(c)) = 1
    <3>1. v \in Handler \cup {NULL}
      BY <2>3
    <3>2. Waits(f_replies[c][slot], Remote(c)) = 0 /\ Waits(v, Remote(c)) = 1
      BY <2>3, <2>5 DEF Waits
    <3>3. QED
      BY <1>1, <1>2, <2>1, <2>5, <3>1, <3>2, AwaitedChanges, AwaitedStays
  <2>13. /\ Awaiting(c)' = 1
         /\ \A d \in Clients : Upstreaming(d)' = Upstreaming(d)
         /\ \A d \in Clients \ {c} : Awaiting(d)' = Awaiting(d)
    <3>2. Awaiting(c)' = 1
      BY <1>6, <2>12 DEF Awaiting
    <3>3. \A d \in Clients : Upstreaming(d)' = Upstreaming(d)
      BY <1>2, <2>12 DEF Upstreaming
    <3>4. \A d \in Clients \ {c} : Awaiting(d)' = Awaiting(d)
      BY <2>12, Addresses DEF Awaiting
    <3>5. QED
      BY <3>2, <3>3, <3>4
  <2>14. ASSUME NEW d \in Clients \ {c} PROVE Client(d)'
    <3>1. CountedSame(d)
      BY <2>10, <2>13 DEF CountedSame, Counted
    <3>2. QED
      BY <1>1, <3>1, SameTalk
  <2>15. Client(c)'
    <3>1. Counted(c, 0, 1, 0, 1, 0, 0)
      BY <1>6, <2>10, <2>11, <2>13 DEF Counted
    <3>2. Hop(c)'
      BY <1>6, <3>1, HopAfter
    <3>3. QED
      BY <1>1, <3>1, <3>2, HopTalk DEF Counted
  <2>16. QED
    BY <2>8, <2>9, <2>14, <2>15, TalkKeeps
<1>9. QED
  BY <1>7, <1>8

\* A reply that has come back is awaited.
LEMMA ClientAwaits ==
    ASSUME Places, NEW c \in Clients, queue[Peer(c)] # << >>, Head(queue[Peer(c)]).type = "reply", Hop(c)
    PROVE  /\ Awaiting(c) = 1 /\ Asking(c) = 0 /\ Answering(c) = 0 /\ Outside(c) = 1
           /\ Relaying(c) = 0 /\ Upstreaming(c) = 0 /\ Returning(c) = 1
           /\ Handlers(c, Head(queue[Peer(c)])) # {}
<1> DEFINE m == Head(queue[Peer(c)])
<1>1. c \in Flats /\ Peer(c) \in Endpoints
  BY Addresses
<1>2. queue[Peer(c)] \in Seq(Queued) /\ m \in Replies /\ m.from = Peer(U) /\ m.name = "relay"
  <2>1. m \in ToClient(c)
    BY <1>1, FirstOf, Kinds
  <2>2. QED
    BY <1>1, <2>1, Flat, ToClientIs
<1>3. Returning(c) # 0
  <2> DEFINE s == queue[Peer(c)]
  <2>1. 1 \in 1 .. Len(s) /\ s[1] \in Replies
    BY <1>2
  <2> HIDE DEF s
  <2>2. s \in Seq(Queued)
    BY <1>2 DEF s
  <2>3. Num(s, Replies) # 0
    BY <2>1, <2>2, NumIs
  <2>4. QED
    BY <2>3 DEF Returning, s
<1>4. /\ Asking(c) \in Nat /\ Awaiting(c) \in Nat /\ Answering(c) \in Nat
      /\ Relaying(c) \in Nat /\ Upstreaming(c) \in Nat /\ Returning(c) \in Nat
  BY NumbersAre
<1>5. Outside(c) \in 0 .. 1
  BY DEF Outside
<1>6. /\ Awaiting(c) = 1 /\ Asking(c) = 0 /\ Answering(c) = 0 /\ Outside(c) = 1
      /\ Relaying(c) = 0 /\ Upstreaming(c) = 0 /\ Returning(c) = 1
  BY <1>3, <1>4, <1>5 DEF Hop
<1>7. PICK i \in 1 .. size : f_replies[c][i] # NULL
  BY <1>1, <1>6, AwaitedIs DEF Awaiting
<1>8. f_replies[c][i] \in ClientSlots(c)
  BY <1>1, <1>7, Flat, Kinds
<1>9. i \in Handlers(c, m)
  BY <1>2, <1>7, <1>8 DEF Handlers, ClientSlots
<1>10. QED
  BY <1>6, <1>9

\* What comes back goes to the network.
LEMMA ClientResponds ==
    ASSUME DuplexInv, NEW c \in Clients, queue[Peer(c)] # << >>, Talk, Alive(c),
           Head(queue[Peer(c)]).type # "request",
           HandleResponse(c, Head(queue[Peer(c)]), Taken(queue, Peer(c)))
    PROVE  DuplexInv'
<1> DEFINE m == Head(queue[Peer(c)])
           q == Taken(queue, Peer(c))
           slot == CHOOSE i \in Handlers(c, m) : \A j \in Handlers(c, m) : i <= j
           rh == f_replies[c][slot]
           x == Mail(m.type, rh.initial.name, m.of, Peer(c))
<1>1. /\ Places /\ Settled /\ size' = size /\ size \in Nat
      /\ queue \in [Endpoints -> Seq(Queued)] /\ \A d \in Clients : Client(d)
  BY Flat DEF DuplexInv, Talk, Settled
<1>2. /\ c # U /\ c \in Flats /\ U \in Flats
      /\ Peer(c) \in Endpoints /\ Remote(c) \in Endpoints /\ Peer(c) # Remote(c) /\ Remote(c) # Peer(U)
  BY Addresses
<1>3. m \in ToClient(c)
  BY <1>1, <1>2, FirstOf, Kinds
<1>4. m \in Queued /\ m.type \in {"reply", "inform"} /\ m.of \in Requests
  BY <1>3, ToClientIs
<1>5. Hop(c)
  BY <1>1 DEF Client
<1>6. m.type = "reply" =>
          /\ Awaiting(c) = 1 /\ Asking(c) = 0 /\ Answering(c) = 0 /\ Outside(c) = 1
          /\ Relaying(c) = 0 /\ Upstreaming(c) = 0 /\ Returning(c) = 1
          /\ Handlers(c, m) # {}
  BY <1>1, <1>5, ClientAwaits
<1>7. \A d \in Clients : /\ Asking(d) \in Nat /\ Awaiting(d) \in Nat /\ Answering(d) \in Nat
                         /\ Relaying(d) \in Nat /\ Upstreaming(d) \in Nat /\ Returning(d) \in Nat
  BY <1>1, NumbersAre
<1>8. CASE Handlers(c, m) = {}
  <2> DEFINE y == Mail("inform", "relay", m.of, Peer(c))
  <2>1. m.type = "inform" /\ queue' = q /\ UNCHANGED f_replies
    BY <1>4, <1>6, <1>8 DEF HandleResponse
  <2>2. y \in Queued /\ y.from = Peer(c)
    BY <1>2, <1>4 DEF Queued, Mail
  <2> HIDE DEF m, q, x, y, slot, rh
  <2>3. queue' = Passed(queue, {Peer(c)}, {}, y)
    BY <1>1, <1>2, <2>1, TakenDoes DEF q
  <2>4. Fits(queue, {Peer(c)}, {}) /\ Belongs(y, {})
    BY DEF Fits, Belongs
  <2>5. QueuesOK' /\ SlotsOK'
    BY <1>1, <2>1, <2>3, <2>4, QueuesPassed, PlacesStay
  <2>6. \A d \in Clients : Awaiting(d)' = Awaiting(d) /\ Upstreaming(d)' = Upstreaming(d)
    BY <1>1, <2>1, SlotsStay
  <2>7. /\ \A d \in Clients \ {c} : /\ Asking(d)' = Asking(d) /\ Answering(d)' = Answering(d)
                                    /\ Relaying(d)' = Relaying(d) /\ Returning(d)' = Returning(d)
        /\ Asking(c)' = Asking(c) /\ Returning(c)' = Returning(c)
        /\ Answering(c)' = Answering(c) + Came(Remote(c), {}, y, Replies)
        /\ Relaying(c)' = Relaying(c) + Came(Peer(U), {}, y, AsksFrom(Peer(c)))
    BY <1>1, <2>1, <2>2, <2>3, TakenByClient DEF m
  <2>8. Came(Remote(c), {}, y, Replies) = 0 /\ Came(Peer(U), {}, y, AsksFrom(Peer(c))) = 0
    BY DEF Came
  <2>9. ASSUME NEW d \in Clients PROVE CountedSame(d)
    <3>1. Asking(d)' = Asking(d) /\ Returning(d)' = Returning(d)
      BY <2>7
    <3>2. Answering(d)' = Answering(d) /\ Relaying(d)' = Relaying(d)
      BY <1>7, <2>7, <2>8
    <3>3. QED
      BY <2>6, <3>1, <3>2 DEF CountedSame, Counted
  <2>10. QED
    BY <1>1, <2>5, <2>9, SameTalk, TalkKeeps
<1>9. CASE Handlers(c, m) # {}
  <2>1. /\ queue' = Sent(q, Peer(c), rh.issuer, Letter(m.type, rh.initial.name, m.of))
        /\ f_replies' = IF m.type = "reply" THEN [f_replies EXCEPT ![c][slot] = NULL] ELSE f_replies
    BY <1>9 DEF HandleResponse, Letter
  <2>2. slot \in 1 .. size /\ rh \in ClientSlots(c)
    <3> DEFINE H == Handlers(c, m)
    <3>1. H \in SUBSET (1 .. size)
      BY DEF Handlers
    <3>2. slot \in H
      <4> HIDE DEF H
      <4>1. (CHOOSE i \in H : \A j \in H : i <= j) \in H
        BY <1>1, <1>9, <3>1, Chosen DEF H
      <4>2. QED
        BY <4>1 DEF H
    <3>3. slot \in 1 .. size /\ rh # NULL
      BY <3>2 DEF Handlers
    <3> HIDE DEF slot
    <3>4. rh \in ClientSlots(c)
      BY <1>1, <1>2, <3>3, Flat, Kinds
    <3>5. QED
      BY <3>3, <3>4
  <2> HIDE DEF slot
  <2>3. rh.issuer = Remote(c) /\ rh # NULL /\ rh.initial.name \in Names \cup {"relay"} /\ f_replies[c][slot] = rh
    BY <2>2, Constants DEF ClientSlots, Handler, Message
  <2> HIDE DEF rh
  <2>4. x \in Queued /\ x \in FromClient(c) /\ x.from = Peer(c) /\ (x \in Replies <=> m.type = "reply")
    BY <1>2, <1>4, <2>3 DEF FromClient, Queued, Replies, Mail
  <2>5. queue' = Passed(queue, {Peer(c)}, {Remote(c)}, x)
    <3> HIDE DEF m, q
    <3>1. Sent(q, Peer(c), Remote(c), Letter(m.type, rh.initial.name, m.of))
            = Passed(queue, {Peer(c)}, Open(Remote(c)), Mail(m.type, rh.initial.name, m.of, Peer(c)))
      BY <1>1, <1>2, TakenSentDoes DEF q
    <3>2. Open(Remote(c)) = {Remote(c)}
      BY DEF Open, Receiving, Alive, Remote
    <3>3. QED
      BY <2>1, <2>3, <3>1, <3>2
  <2> HIDE DEF m, q, x
  <2>6. Fits(queue, {Peer(c)}, {Remote(c)}) /\ Belongs(x, {Remote(c)})
    BY <1>2, <2>4, Kinds DEF Fits, Belongs
  <2>7. QueuesOK'
    BY <1>1, <2>5, <2>6, QueuesPassed
  <2>8. /\ \A d \in Clients \ {c} : /\ Asking(d)' = Asking(d) /\ Answering(d)' = Answering(d)
                                    /\ Relaying(d)' = Relaying(d) /\ Returning(d)' = Returning(d)
        /\ m.type = "reply" => Asking(c)' = Asking(c) /\ Returning(c)' = Returning(c) - 1
        /\ m.type = "inform" => Asking(c)' = Asking(c) /\ Returning(c)' = Returning(c)
        /\ Answering(c)' = Answering(c) + Came(Remote(c), {Remote(c)}, x, Replies)
        /\ Relaying(c)' = Relaying(c) + Came(Peer(U), {Remote(c)}, x, AsksFrom(Peer(c)))
    BY <1>1, <2>4, <2>5, TakenByClient DEF m
  <2>9. /\ Came(Remote(c), {Remote(c)}, x, Replies) = IF m.type = "reply" THEN 1 ELSE 0
        /\ Came(Peer(U), {Remote(c)}, x, AsksFrom(Peer(c))) = 0
    BY <1>2, <2>4 DEF Came
  <2>10. CASE m.type = "inform"
    <3>1. UNCHANGED f_replies
      BY <2>1, <2>10
    <3>2. SlotsOK'
      BY <1>1, <3>1, PlacesStay
    <3>3. \A d \in Clients : Awaiting(d)' = Awaiting(d) /\ Upstreaming(d)' = Upstreaming(d)
      BY <1>1, <3>1, SlotsStay
    <3>4. ASSUME NEW d \in Clients PROVE CountedSame(d)
      <4>1. Asking(d)' = Asking(d) /\ Returning(d)' = Returning(d)
        BY <2>8, <2>10
      <4>2. Answering(d)' = Answering(d) /\ Relaying(d)' = Relaying(d)
        BY <1>7, <2>8, <2>9, <2>10
      <4>3. QED
        BY <3>3, <4>1, <4>2 DEF CountedSame, Counted
    <3>5. QED
      BY <1>1, <2>7, <3>2, <3>4, SameTalk, TalkKeeps
  <2>11. CASE m.type = "reply"
    <3>1. f_replies' = [f_replies EXCEPT ![c][slot] = NULL]
      BY <2>1, <2>11
    <3>2. SlotsOK'
      BY <1>1, <1>2, <2>2, <3>1, SlotsSet
    <3>3. /\ Cardinality(Awaited(c, Remote(c))') =
               Cardinality(Awaited(c, Remote(c))) - Waits(f_replies[c][slot], Remote(c)) + Waits(NULL, Remote(c))
          /\ \A e : \A g \in Flats \ {c} : Awaited(g, e)' = Awaited(g, e)
          /\ Waits(f_replies[c][slot], Remote(c)) = 1 /\ Waits(NULL, Remote(c)) = 0
      <4>1. Waits(f_replies[c][slot], Remote(c)) = 1 /\ Waits(NULL, Remote(c)) = 0
        BY <2>3 DEF Waits
      <4>2. NULL \in Handler \cup {NULL}
        OBVIOUS
      <4>3. QED
        BY <1>1, <1>2, <2>2, <3>1, <4>1, <4>2, AwaitedChanges, AwaitedStays
    <3>4. /\ Awaiting(c)' = 0
          /\ \A d \in Clients : Upstreaming(d)' = Upstreaming(d)
          /\ \A d \in Clients \ {c} : Awaiting(d)' = Awaiting(d)
      <4>1. Awaiting(c)' = 0
        BY <1>6, <2>11, <3>3 DEF Awaiting
      <4>2. \A d \in Clients : Upstreaming(d)' = Upstreaming(d)
        BY <1>2, <3>3 DEF Upstreaming
      <4>3. \A d \in Clients \ {c} : Awaiting(d)' = Awaiting(d)
        BY <3>3, Addresses DEF Awaiting
      <4>4. QED
        BY <4>1, <4>2, <4>3
    <3>5. ASSUME NEW d \in Clients \ {c} PROVE Client(d)'
      <4>1. CountedSame(d)
        BY <2>8, <3>4 DEF CountedSame, Counted
      <4>2. QED
        BY <1>1, <4>1, SameTalk
    <3>6. Client(c)'
      <4>1. Counted(c, 0, 0, 1, 0, 0, 0)
        BY <1>6, <2>8, <2>9, <2>11, <3>4 DEF Counted
      <4>2. Hop(c)'
        BY <1>6, <2>11, <4>1, HopAfter
      <4>3. QED
        BY <1>1, <4>1, <4>2, HopTalk DEF Counted
    <3>7. QED
      BY <2>7, <3>2, <3>5, <3>6, TalkKeeps
  <2>12. QED
    BY <1>4, <2>10, <2>11 DEF m
<1>10. QED
  BY <1>8, <1>9

LEMMA RunPeerClient ==
    ASSUME DuplexInv, NEW c \in Clients, RunPeer(c)
    PROVE  DuplexInv'
<1> DEFINE m == Head(queue[Peer(c)])
           q == Taken(queue, Peer(c))
<1>1. /\ queue[Peer(c)] # << >> /\ Talk
      /\ IF f_state[c] \notin Operational THEN Fails(c, m, q)
         ELSE IF m.type = "request" THEN HandleRequest(c, m, q)
         ELSE HandleResponse(c, m, q)
  BY DEF RunPeer, Talk, Taken
<1>2. c # U /\ c \in Flats
  BY Addresses
<1>3. f_state[c] \in Operational <=> Alive(c)
  BY <1>2 DEF DuplexInv, Places, StatesOK, Ends, States, Operational, Alive
<1> HIDE DEF m, q
<1>4. CASE ~Alive(c)
  BY <1>1, <1>3, <1>4, ClientFails DEF m, q
<1>5. CASE Alive(c) /\ m.type # "request"
  BY <1>1, <1>3, <1>5, ClientResponds DEF m, q
<1>6. CASE Alive(c) /\ m.type = "request" /\ f_state[U] = "gone"
  BY <1>1, <1>2, <1>3, <1>6, ClientFails DEF m, q, HandleRequest, U
<1>7. CASE Alive(c) /\ m.type = "request" /\ f_state[U] # "gone"
  BY <1>1, <1>2, <1>3, <1>7, ClientRelays DEF m, q, HandleRequest, U
<1>8. QED
  BY <1>4, <1>5, <1>6, <1>7

-----------------------------------------------------------------------------
(* A turn of the peer of the upstream server.                               *)

LEMMA ToUpstreamIs ==
    ASSUME NEW m \in ToUpstream
    PROVE  /\ m \in Queued /\ m.type \in {"request", "reply", "inform"} /\ m.of \in Requests /\ m.of[1] \in Clients
           /\ m.type = "request" => m.from = Peer(m.of[1]) /\ m.name = "relay" /\ m \in AsksFrom(Peer(m.of[1]))
           /\ \A d \in Clients : m \in AsksFrom(Peer(d)) => m.type = "request" /\ m.of[1] = d
<1>1. /\ m \in Queued /\ m.type \in {"request", "reply", "inform"} /\ m.of \in Requests
      /\ m.type = "request" => m.from = Peer(m.of[1]) /\ m.name = "relay"
  BY DEF ToUpstream, Queued
<1>2. m.of[1] \in Clients
  BY <1>1 DEF Requests
<1>3. m.type = "request" => m \in AsksFrom(Peer(m.of[1]))
  BY <1>1 DEF AsksFrom
<1>4. \A d \in Clients : m \in AsksFrom(Peer(d)) => m.type = "request" /\ m.of[1] = d
  BY <1>1, Addresses DEF AsksFrom
<1>5. QED
  BY <1>1, <1>2, <1>3, <1>4

LEMMA TakenUpstream ==
    ASSUME Places, NEW c \in Clients, queue[Peer(U)] # << >>, NEW B, B \subseteq {Peer(c)},
           NEW x \in Queued, x.type # "request",
           Elsewhere({Peer(U)}, B, x)
    PROVE  LET m == Head(queue[Peer(U)])
           IN  /\ \A d \in Clients : Asking(d)' = Asking(d) /\ Answering(d)' = Answering(d)
               /\ \A d \in Clients \ {c} : Returning(d)' = Returning(d)
               /\ Returning(c)' = Returning(c) + Came(Peer(c), B, x, Replies)
               /\ \A d \in Clients : m \notin AsksFrom(Peer(d)) => Relaying(d)' = Relaying(d)
               /\ \A d \in Clients : m \in AsksFrom(Peer(d)) => Relaying(d)' = Relaying(d) - 1
<1> DEFINE m == Head(queue[Peer(U)])
           A == {Peer(U)}
<1>1. c # U /\ Peer(U) \in Endpoints /\ c \in Flats
  BY Addresses
<1>2. Fits(queue, A, B)
  BY <1>1, Addresses DEF Fits
<1>3. ASSUME NEW d \in Clients
      PROVE  /\ Asking(d)' = Asking(d) - Gone(Peer(d), queue, A, Asks) + Came(Peer(d), B, x, Asks)
             /\ Answering(d)' = Answering(d) - Gone(Remote(d), queue, A, Replies) + Came(Remote(d), B, x, Replies)
             /\ Relaying(d)' =
                  Relaying(d) - Gone(Peer(U), queue, A, AsksFrom(Peer(d))) + Came(Peer(U), B, x, AsksFrom(Peer(d)))
             /\ Returning(d)' = Returning(d) - Gone(Peer(d), queue, A, Replies) + Came(Peer(d), B, x, Replies)
  <2>1. Elsewhere(A, B, x)
    OBVIOUS
  <2> HIDE DEF A
  <2>2. QED
    BY <1>2, <2>1, NumbersChange
<1>4. \A d \in Clients : /\ Gone(Peer(d), queue, A, Asks) = 0 /\ Gone(Peer(d), queue, A, Replies) = 0
                         /\ Gone(Remote(d), queue, A, Replies) = 0
  BY Addresses DEF Gone
<1>5. \A d \in Clients : /\ Came(Peer(d), B, x, Asks) = 0 /\ Came(Remote(d), B, x, Replies) = 0
                         /\ Came(Peer(U), B, x, AsksFrom(Peer(d))) = 0
  BY <1>1, Addresses DEF Came, Asks, AsksFrom
<1>6. \A d \in Clients \ {c} : Came(Peer(d), B, x, Replies) = 0
  BY Addresses DEF Came
<1>7. \A d \in Clients : /\ m \in AsksFrom(Peer(d)) => Gone(Peer(U), queue, A, AsksFrom(Peer(d))) = 1
                         /\ m \notin AsksFrom(Peer(d)) => Gone(Peer(U), queue, A, AsksFrom(Peer(d))) = 0
  BY DEF Gone
<1>8. \A d \in Clients : Asking(d) \in Nat /\ Answering(d) \in Nat /\ Relaying(d) \in Nat /\ Returning(d) \in Nat
  BY NumbersAre
<1>9. Came(Peer(c), B, x, Replies) \in Nat
  BY DEF Came
<1> HIDE DEF A, m
<1>10. \A d \in Clients : Asking(d)' = Asking(d) /\ Answering(d)' = Answering(d)
  BY <1>3, <1>4, <1>5, <1>8
<1>11. \A d \in Clients \ {c} : Returning(d)' = Returning(d)
  BY <1>3, <1>4, <1>6, <1>8
<1>12. Returning(c)' = Returning(c) + Came(Peer(c), B, x, Replies)
  BY <1>3, <1>4, <1>8, <1>9
<1>13. \A d \in Clients : /\ m \in AsksFrom(Peer(d)) => Relaying(d)' = Relaying(d) - 1
                          /\ m \notin AsksFrom(Peer(d)) => Relaying(d)' = Relaying(d)
  BY <1>3, <1>5, <1>7, <1>8
<1>14. QED
  BY <1>10, <1>11, <1>12, <1>13 DEF m

\* A request is turned round, whether or not it has been sent on.
LEMMA UpstreamTurns ==
    ASSUME DuplexInv, queue[Peer(U)] # << >>, Talk, UNCHANGED f_replies, QueuesOK',
           NEW m, m = Head(queue[Peer(U)]), m.type = "request", NEW c, c = m.of[1],
           Elsewhere({Peer(U)}, Open(Peer(c)), Mail("reply", "relay", m.of, Peer(U)))
    PROVE  DuplexInv'
<1> DEFINE x == Mail("reply", "relay", m.of, Peer(U))
           B == Open(Peer(c))
<1>1. /\ Places /\ Settled /\ size' = size
      /\ queue \in [Endpoints -> Seq(Queued)] /\ \A d \in Clients : Client(d)
  BY Flat DEF DuplexInv, Talk, Settled
<1>2. Peer(U) \in Endpoints
  BY Addresses
<1>3. m \in ToUpstream
  BY <1>1, <1>2, FirstOf, Kinds
<1>4. c \in Clients /\ m.of \in Requests /\ \A d \in Clients : m \in AsksFrom(Peer(d)) <=> d = c
  BY <1>3, ToUpstreamIs
<1>5. x \in Queued /\ x.type # "request" /\ x \in Replies
  BY <1>2, <1>4 DEF Queued, Mail, Replies
<1>6. B \subseteq {Peer(c)} /\ (Alive(c) /\ ~closed[c] => Peer(c) \in B)
  BY DEF Open, Receiving, Alive, Peer
<1>7. SlotsOK'
  BY <1>1, PlacesStay
<1> HIDE DEF x, B
<1>8. /\ \A d \in Clients : Asking(d)' = Asking(d) /\ Answering(d)' = Answering(d)
      /\ \A d \in Clients \ {c} : Returning(d)' = Returning(d)
      /\ Returning(c)' = Returning(c) + Came(Peer(c), B, x, Replies)
      /\ \A d \in Clients \ {c} : Relaying(d)' = Relaying(d)
      /\ Relaying(c)' = Relaying(c) - 1
  <2>1. Elsewhere({Peer(U)}, B, x)
    BY DEF x, B
  <2>2. /\ \A d \in Clients : Asking(d)' = Asking(d) /\ Answering(d)' = Answering(d)
        /\ \A d \in Clients \ {c} : Returning(d)' = Returning(d)
        /\ Returning(c)' = Returning(c) + Came(Peer(c), B, x, Replies)
        /\ \A d \in Clients : m \notin AsksFrom(Peer(d)) => Relaying(d)' = Relaying(d)
        /\ \A d \in Clients : m \in AsksFrom(Peer(d)) => Relaying(d)' = Relaying(d) - 1
    BY <1>1, <1>4, <1>5, <1>6, <2>1, TakenUpstream
  <2>3. QED
    BY <1>4, <2>2
<1>9. \A d \in Clients : Awaiting(d)' = Awaiting(d) /\ Upstreaming(d)' = Upstreaming(d)
  BY <1>1, SlotsStay
<1>10. Came(Peer(c), B, x, Replies) \in 0 .. 1 /\ (Alive(c) /\ ~closed[c] => Came(Peer(c), B, x, Replies) = 1)
  BY <1>5, <1>6 DEF Came
<1>11. ASSUME NEW d \in Clients \ {c} PROVE Client(d)'
  <2>1. CountedSame(d)
    BY <1>8, <1>9 DEF CountedSame, Counted
  <2>2. QED
    BY <1>1, <2>1, SameTalk
<1>12. Client(c)'
  <2>1. /\ Asking(c) \in Nat /\ Awaiting(c) \in Nat /\ Answering(c) \in Nat
        /\ Relaying(c) \in Nat /\ Upstreaming(c) \in Nat /\ Returning(c) \in Nat
    BY <1>1, <1>4, NumbersAre
  <2>2. Relaying(c)' + Upstreaming(c)' <= 1
    BY <1>1, <1>4, <1>8, <1>9, <2>1 DEF Client
  <2> DEFINE t == Returning(c) + Came(Peer(c), B, x, Replies)
  <2>3. ASSUME Alive(c) PROVE Hop(c)'
    <3>1. Hop(c)
      BY <1>1, <1>4, <2>3 DEF Client
    <3>2. Counted(c, Asking(c), Awaiting(c), Answering(c), Relaying(c) - 1, Upstreaming(c), t)
      BY <1>4, <1>8, <1>9, <2>1 DEF Counted
    <3>3. t \in Nat /\ t <= Returning(c) + 1 /\ (~closed[c] => t = Returning(c) + 1)
      BY <1>10, <2>1, <2>3
    <3> HIDE DEF t
    <3>4. Hop(c)' <=> /\ Asking(c) + Awaiting(c) + Answering(c) = Outside(c)
                      /\ Relaying(c) - 1 + Upstreaming(c) + t <= Awaiting(c)
                      /\ ~closed[c] /\ Alive(U) => Relaying(c) - 1 + Upstreaming(c) + t = Awaiting(c)
      BY <1>4, <3>2, HopAfter
    <3>5. QED
      BY <2>1, <3>1, <3>3, <3>4 DEF Hop
  <2>4. QED
    BY <1>1, <1>4, <2>2, <2>3, HopTalk
<1>13. QED
  BY <1>7, <1>11, <1>12, TalkKeeps

\* What is neither a request nor awaited is dropped.
LEMMA UpstreamDrops ==
    ASSUME DuplexInv, queue[Peer(U)] # << >>, Talk, UNCHANGED f_replies,
           NEW m, m = Head(queue[Peer(U)]), m.type # "request", queue' = Taken(queue, Peer(U))
    PROVE  DuplexInv'
<1> DEFINE c == m.of[1]
           y == Mail("inform", "relay", m.of, Peer(U))
<1>1. /\ Places /\ Settled /\ size' = size
      /\ queue \in [Endpoints -> Seq(Queued)] /\ \A d \in Clients : Client(d)
  BY Flat DEF DuplexInv, Talk, Settled
<1>2. Peer(U) \in Endpoints
  BY Addresses
<1>3. m \in ToUpstream
  BY <1>1, <1>2, FirstOf, Kinds
<1>4. c \in Clients /\ m.of \in Requests /\ \A d \in Clients : m \notin AsksFrom(Peer(d))
  BY <1>3, ToUpstreamIs
<1>5. y \in Queued /\ y.type # "request"
  BY <1>2, <1>4 DEF Queued, Mail
<1> HIDE DEF c, y
<1>6. queue' = Passed(queue, {Peer(U)}, {}, y)
  BY <1>1, <1>2, TakenDoes
<1>7. Fits(queue, {Peer(U)}, {}) /\ Belongs(y, {}) /\ Elsewhere({Peer(U)}, {}, y)
  BY <1>6 DEF Fits, Belongs, Elsewhere
<1>8. QueuesOK' /\ SlotsOK'
  BY <1>1, <1>6, <1>7, QueuesPassed, PlacesStay
<1>9. \A d \in Clients : Awaiting(d)' = Awaiting(d) /\ Upstreaming(d)' = Upstreaming(d)
  BY <1>1, SlotsStay
<1>10. /\ \A d \in Clients : Asking(d)' = Asking(d) /\ Answering(d)' = Answering(d)
       /\ \A d \in Clients \ {c} : Returning(d)' = Returning(d)
       /\ Returning(c)' = Returning(c) + Came(Peer(c), {}, y, Replies)
       /\ \A d \in Clients : Relaying(d)' = Relaying(d)
  <2> DEFINE B == {}
  <2>1. B \subseteq {Peer(c)} /\ Elsewhere({Peer(U)}, B, y)
    BY <1>7
  <2> HIDE DEF B
  <2>2. /\ \A d \in Clients : Asking(d)' = Asking(d) /\ Answering(d)' = Answering(d)
        /\ \A d \in Clients \ {c} : Returning(d)' = Returning(d)
        /\ Returning(c)' = Returning(c) + Came(Peer(c), B, y, Replies)
        /\ \A d \in Clients : m \notin AsksFrom(Peer(d)) => Relaying(d)' = Relaying(d)
    BY <1>1, <1>4, <1>5, <2>1, TakenUpstream
  <2>3. QED
    BY <1>4, <2>2 DEF B
<1>11. Came(Peer(c), {}, y, Replies) = 0 /\ Returning(c) \in Nat
  BY <1>1, <1>4, NumbersAre DEF Came
<1>12. ASSUME NEW d \in Clients PROVE CountedSame(d)
  <2>1. Returning(d)' = Returning(d)
    BY <1>10, <1>11
  <2>2. QED
    BY <1>9, <1>10, <2>1 DEF CountedSame, Counted
<1>13. QED
  BY <1>1, <1>8, <1>12, SameTalk, TalkKeeps

LEMMA UpstreamFails ==
    ASSUME DuplexInv, queue[Peer(U)] # << >>, Talk, Fails(U, Head(queue[Peer(U)]), Taken(queue, Peer(U)))
    PROVE  DuplexInv'
<1> DEFINE m == Head(queue[Peer(U)])
           c == m.of[1]
           q == Taken(queue, Peer(U))
           x == Mail("reply", "relay", m.of, Peer(U))
<1>1. /\ Places /\ Settled /\ UNCHANGED f_replies /\ queue' = Turned(q, Peer(U), m)
      /\ queue \in [Endpoints -> Seq(Queued)]
  BY Flat DEF DuplexInv, Fails, Talk, Settled
<1>2. Peer(U) \in Endpoints /\ U \in Flats
  BY Addresses
<1>3. m \in ToUpstream
  BY <1>1, <1>2, FirstOf, Kinds
<1>4. c \in Clients /\ m.of \in Requests /\ (m.type = "request" => m.from = Peer(c) /\ m.name = "relay")
  BY <1>3, ToUpstreamIs
<1>5. c # U /\ c \in Flats /\ Peer(c) \in Endpoints /\ Peer(c) # Peer(U) /\ Peer(c) # Remote(U)
  BY <1>4, Addresses
<1>6. x \in Queued /\ x \in ToClient(c)
  BY <1>2, <1>4 DEF ToClient, Queued, Mail
<1> HIDE DEF m, c, q
<1>7. CASE m.type # "request"
  <2>1. queue' = q
    BY <1>1, <1>7 DEF Turned
  <2>2. QED
    BY <1>1, <1>7, <2>1, UpstreamDrops DEF m, q
<1>8. CASE m.type = "request"
  <2>1. queue' = Sent(q, Peer(U), Peer(c), Letter("reply", "relay", m.of))
    BY <1>1, <1>4, <1>8 DEF Turned, Letter
  <2>2. queue' = Passed(queue, {Peer(U)}, Open(Peer(c)), x)
    <3>1. Sent(q, Peer(U), Peer(c), Letter("reply", "relay", m.of))
            = Passed(queue, {Peer(U)}, Open(Peer(c)), Mail("reply", "relay", m.of, Peer(U)))
      BY <1>1, <1>2, <1>5, TakenSentDoes DEF q
    <3>2. QED
      BY <2>1, <3>1
  <2>3. Fits(queue, {Peer(U)}, Open(Peer(c)))
    BY <1>5 DEF Fits, Open
  <2>4. Belongs(x, Open(Peer(c)))
    BY <1>4, <1>6, Kinds DEF Belongs, Open
  <2> HIDE DEF x
  <2>5. QueuesOK'
    BY <1>1, <2>2, <2>3, <2>4, QueuesPassed
  <2>6. Elsewhere({Peer(U)}, Open(Peer(c)), x)
    BY <2>2 DEF Elsewhere
  <2>7. QED
    BY <1>1, <1>8, <2>5, <2>6, UpstreamTurns DEF m, c, x
<1>9. QED
  BY <1>7, <1>8

\* The relayed request is sent to the network, and there is no slot.
LEMMA UpstreamFull ==
    ASSUME DuplexInv, queue[Peer(U)] # << >>, Talk, UNCHANGED f_replies,
           NEW m, m = Head(queue[Peer(U)]), m.type = "request", NEW c, c = m.of[1], NEW q,
           q = Sent(Taken(queue, Peer(U)), Peer(U), Remote(U), Letter("request", named[c], m.of)),
           queue' = Turned(q, Peer(U), m)
    PROVE  DuplexInv'
<1> DEFINE x == Mail("reply", "relay", m.of, Peer(U))
           y == Mail("request", named[c], m.of, Peer(U))
<1>1. /\ Places /\ Settled /\ named \in [Clients -> Names]
      /\ queue \in [Endpoints -> Seq(Queued)] /\ \A z \in Endpoints : queue[z] \in Seq(Kind(z))
  BY Flat DEF DuplexInv, Talk, Settled
<1>2. Peer(U) \in Endpoints /\ Remote(U) \in Endpoints /\ Peer(U) # Remote(U) /\ U \in Flats
  BY Addresses
<1>3. m \in ToUpstream
  BY <1>1, <1>2, FirstOf, Kinds
<1>4. c \in Clients /\ m.of \in Requests /\ m.from = Peer(c) /\ m.name = "relay"
  BY <1>3, ToUpstreamIs
<1>5. c # U /\ c \in Flats /\ Peer(c) \in Endpoints /\ Peer(c) # Peer(U) /\ Peer(c) # Remote(U)
  BY <1>4, Addresses
<1>6. x \in Queued /\ x \in ToClient(c)
  BY <1>2, <1>4 DEF ToClient, Queued, Mail
<1>7. y \in Queued /\ y \in FromUpstream
  BY <1>1, <1>2, <1>4 DEF FromUpstream, Queued, Mail
<1> HIDE DEF x, y
<1>8. q = Passed(queue, {Peer(U)}, Open(Remote(U)), y)
  <2>1. Sent(Taken(queue, Peer(U)), Peer(U), Remote(U), Letter("request", named[c], m.of))
          = Passed(queue, {Peer(U)}, Open(Remote(U)), Mail("request", named[c], m.of, Peer(U)))
    BY <1>1, <1>2, TakenSentDoes
  <2>2. QED
    BY <2>1 DEF y
<1>9. q \in [Endpoints -> Seq(Queued)] /\ Proper(q)
  <2>1. Fits(queue, {Peer(U)}, Open(Remote(U)))
    BY <1>2 DEF Fits, Open
  <2>2. Belongs(y, Open(Remote(U)))
    BY <1>7, Kinds DEF Belongs, Open
  <2>3. Proper(queue)
    BY <1>1 DEF Proper
  <2>4. Proper(q)
    BY <1>8, <2>1, <2>2, <2>3, PassedKinds
  <2>5. QED
    BY <2>4 DEF Proper
<1>10. queue' = Passed(q, {}, Open(Peer(c)), x)
  <2>1. queue' = Sent(q, Peer(U), Peer(c), Letter("reply", "relay", m.of))
    BY <1>4 DEF Turned, Letter
  <2>2. Sent(q, Peer(U), Peer(c), Letter("reply", "relay", m.of))
          = Passed(q, {}, Open(Peer(c)), Mail("reply", "relay", m.of, Peer(U)))
    BY <1>5, <1>9, SentDoes
  <2>3. QED
    BY <2>1, <2>2 DEF x
<1>11. QueuesOK'
  <2>1. Fits(q, {}, Open(Peer(c)))
    BY DEF Fits
  <2>2. Belongs(x, Open(Peer(c)))
    BY <1>4, <1>6, Kinds DEF Belongs, Open
  <2>3. Proper(queue')
    BY <1>9, <1>10, <2>1, <2>2, PassedKinds
  <2>4. QED
    BY <1>1, <2>3, KindsStay DEF QueuesOK, Proper, Settled
<1>12. Elsewhere({Peer(U)}, Open(Peer(c)), x)
  <2> SUFFICES ASSUME NEW z \in Endpoints \ {Remote(U)}
               PROVE  queue'[z] = Passed(queue, {Peer(U)}, Open(Peer(c)), x)[z]
    BY DEF Elsewhere
  <2>1. z \notin Open(Remote(U)) /\ ~(z = Peer(U) /\ z \in Open(Peer(c)))
    BY <1>5 DEF Open
  <2>2. q[z] = IF z \in {Peer(U)} THEN Tail(queue[z]) ELSE queue[z]
    BY <1>8, <2>1 DEF Passed
  <2>3. queue'[z] = IF z \in Open(Peer(c)) THEN Append(q[z], x) ELSE q[z]
    BY <1>10 DEF Passed
  <2>4. QED
    BY <2>1, <2>2, <2>3 DEF Passed
<1>13. QED
  BY <1>11, <1>12, UpstreamTurns DEF x

\* The relayed request is sent to the network.
LEMMA UpstreamForwards ==
    ASSUME DuplexInv, queue[Peer(U)] # << >>, Talk, Head(queue[Peer(U)]).type = "request",
           Forward(U, Head(queue[Peer(U)]), Taken(queue, Peer(U)), Remote(U), named[Head(queue[Peer(U)]).of[1]])
    PROVE  DuplexInv'
<1>. PICK m : m = Head(queue[Peer(U)])
  OBVIOUS
<1>. PICK c : c = m.of[1]
  OBVIOUS
<1> DEFINE q == Taken(queue, Peer(U))
           on == Sent(q, Peer(U), Remote(U), Letter("request", named[c], m.of))
           y == Mail("request", named[c], m.of, Peer(U))
           z == Mail("reply", "relay", m.of, Peer(U))
           slot == CHOOSE i \in Free(U) : \A j \in Free(U) : j <= i
           v == [issuer |-> m.from, recipient |-> Remote(U), message |-> named[c],
                 initial |-> [type |-> m.type, name |-> m.name, of |-> m.of]]
<1>1. /\ Places /\ Settled /\ size' = size /\ size \in Nat /\ named \in [Clients -> Names]
      /\ queue \in [Endpoints -> Seq(Queued)] /\ \A d \in Clients : Client(d)
  BY Flat DEF DuplexInv, Talk, Settled
<1>2. Peer(U) \in Endpoints /\ Remote(U) \in Endpoints /\ Peer(U) # Remote(U) /\ U \in Flats
  BY Addresses
<1>3. m \in ToUpstream
  BY <1>1, <1>2, FirstOf, Kinds
<1>4. /\ c \in Clients /\ m.of \in Requests /\ m.type = "request" /\ m.from = Peer(c) /\ m.name = "relay"
      /\ \A d \in Clients : m \in AsksFrom(Peer(d)) <=> d = c
  BY <1>3, ToUpstreamIs
<1>5. c # U /\ c \in Flats /\ Peer(c) \in Endpoints /\ named[c] \in Names
  BY <1>1, <1>4, Addresses
<1>6. CASE ~Receiving(Remote(U))
  <2>1. Fails(U, m, q)
    BY <1>6 DEF Forward
  <2>2. QED
    BY <2>1, UpstreamFails
<1>7. CASE Receiving(Remote(U)) /\ Free(U) = {}
  <2>1. UNCHANGED f_replies /\ queue' = Turned(on, Peer(U), m)
    BY <1>7 DEF Forward, Fails, Letter
  <2> HIDE DEF on
  <2>2. QED
    BY <1>4, <2>1, UpstreamFull DEF on, q
<1>8. CASE Receiving(Remote(U)) /\ Free(U) # {}
  <2>1. queue' = on /\ f_replies' = [f_replies EXCEPT ![U][slot] = v]
    BY <1>8 DEF Forward, Callback, Letter
  <2>2. y \in Queued /\ y \in FromUpstream
    BY <1>2, <1>4, <1>5 DEF FromUpstream, Queued, Mail
  <2>3. z \in Queued /\ z.type # "request"
    BY <1>2, <1>4 DEF Queued, Mail
  <2>4. v \in UpstreamSlots /\ v \in Handler /\ v # NULL /\ v.issuer = Peer(c)
    <3>1. /\ v.issuer = Peer(c) /\ v.recipient = Remote(U) /\ v.message = named[c]
          /\ v.initial.of[1] = c /\ v.initial.name = "relay"
      BY <1>4
    <3>2. v \in Handler
      BY <1>2, <1>4, <1>5 DEF Handler, Message
    <3> HIDE DEF v
    <3>3. v \in UpstreamSlots
      BY <3>1, <3>2 DEF UpstreamSlots
    <3>4. QED
      BY <3>1, <3>2, <3>3, Constants
  <2>5. slot \in 1 .. size /\ f_replies[U][slot] = NULL
    <3>1. Free(U) \in SUBSET (1 .. size)
      BY DEF Free
    <3>2. slot \in Free(U)
      BY <1>1, <1>8, <3>1, Chosen
    <3>3. QED
      BY <3>2 DEF Free
  <2> HIDE DEF q, on, y, z, v, slot
  <2>6. queue' = Passed(queue, {Peer(U)}, {Remote(U)}, y)
    <3>1. Sent(q, Peer(U), Remote(U), Letter("request", named[c], m.of))
            = Passed(queue, {Peer(U)}, Open(Remote(U)), Mail("request", named[c], m.of, Peer(U)))
      BY <1>1, <1>2, TakenSentDoes DEF q
    <3>2. Open(Remote(U)) = {Remote(U)}
      BY <1>8 DEF Open
    <3>3. QED
      BY <2>1, <3>1, <3>2 DEF y, on
  <2>7. QueuesOK'
    <3>1. Fits(queue, {Peer(U)}, {Remote(U)}) /\ Belongs(y, {Remote(U)})
      BY <1>2, <2>2, Kinds DEF Fits, Belongs
    <3>2. QED
      BY <1>1, <2>6, <3>1, QueuesPassed
  <2>8. SlotsOK'
    <3>1. v \in SlotKind(U) \cup {NULL}
      BY <2>4, Kinds
    <3>2. QED
      BY <1>1, <1>2, <2>1, <2>5, <3>1, SlotsSet
  <2>9. /\ \A d \in Clients : Asking(d)' = Asking(d) /\ Answering(d)' = Answering(d)
        /\ \A d \in Clients \ {c} : Returning(d)' = Returning(d)
        /\ Returning(c)' = Returning(c) + Came(Peer(c), {}, z, Replies)
        /\ \A d \in Clients : m \notin AsksFrom(Peer(d)) => Relaying(d)' = Relaying(d)
        /\ \A d \in Clients : m \in AsksFrom(Peer(d)) => Relaying(d)' = Relaying(d) - 1
    <3> DEFINE B == {}
    <3>1. B \subseteq {Peer(c)} /\ Elsewhere({Peer(U)}, B, z)
      BY <2>6 DEF Elsewhere, Passed
    <3> HIDE DEF B
    <3>2. /\ \A d \in Clients : Asking(d)' = Asking(d) /\ Answering(d)' = Answering(d)
          /\ \A d \in Clients \ {c} : Returning(d)' = Returning(d)
          /\ Returning(c)' = Returning(c) + Came(Peer(c), B, z, Replies)
          /\ \A d \in Clients : m \notin AsksFrom(Peer(d)) => Relaying(d)' = Relaying(d)
          /\ \A d \in Clients : m \in AsksFrom(Peer(d)) => Relaying(d)' = Relaying(d) - 1
      BY <1>1, <1>4, <2>3, <3>1, TakenUpstream
    <3>3. QED
      BY <3>2 DEF B
  <2>10. Came(Peer(c), {}, z, Replies) = 0
    BY DEF Came
  <2>11. \A d \in Clients : /\ Asking(d) \in Nat /\ Awaiting(d) \in Nat /\ Answering(d) \in Nat
                            /\ Relaying(d) \in Nat /\ Upstreaming(d) \in Nat /\ Returning(d) \in Nat
    BY <1>1, NumbersAre
  <2>12. /\ \A d \in Clients : Awaiting(d)' = Awaiting(d)
         /\ \A d \in Clients : Upstreaming(d)' = Upstreaming(d) + Waits(v, Peer(d))
    <3>1. \A e : \A g \in Flats \ {U} : Awaited(g, e)' = Awaited(g, e)
      BY <1>1, <1>2, <2>1, <2>5, AwaitedStays
    <3>2. v \in Handler \cup {NULL}
      BY <2>4
    <3>3. \A e : Cardinality(Awaited(U, e)') =
                    Cardinality(Awaited(U, e)) - Waits(f_replies[U][slot], e) + Waits(v, e)
      BY <1>1, <1>2, <2>1, <2>5, <3>2, AwaitedChanges
    <3>4. \A e : Waits(f_replies[U][slot], e) = 0
      BY <2>5 DEF Waits
    <3>5. \A d \in Clients : Awaiting(d)' = Awaiting(d)
      BY <3>1, Addresses DEF Awaiting
    <3>6. ASSUME NEW d \in Clients PROVE Upstreaming(d)' = Upstreaming(d) + Waits(v, Peer(d))
      <4>1. Upstreaming(d)' = Upstreaming(d) - 0 + Waits(v, Peer(d))
        BY <3>3, <3>4 DEF Upstreaming
      <4>2. Waits(v, Peer(d)) \in Nat
        BY DEF Waits
      <4>3. QED
        BY <2>11, <4>1, <4>2
    <3>7. QED
      BY <3>5, <3>6
  <2>13. Waits(v, Peer(c)) = 1 /\ \A d \in Clients \ {c} : Waits(v, Peer(d)) = 0
    BY <2>4, Addresses DEF Waits
  <2>14. ASSUME NEW d \in Clients \ {c} PROVE Client(d)'
    <3>1. Upstreaming(d)' = Upstreaming(d)
      BY <2>11, <2>12, <2>13
    <3>2. CountedSame(d)
      BY <1>4, <2>9, <2>12, <3>1 DEF CountedSame, Counted
    <3>3. QED
      BY <1>1, <3>2, SameTalk
  <2>15. Client(c)'
    <3>1. /\ Asking(c) \in Nat /\ Awaiting(c) \in Nat /\ Answering(c) \in Nat
          /\ Relaying(c) \in Nat /\ Upstreaming(c) \in Nat /\ Returning(c) \in Nat /\ Client(c)
      BY <1>1, <1>4, <2>11
    <3>2. Counted(c, Asking(c), Awaiting(c), Answering(c), Relaying(c) - 1, Upstreaming(c) + 1, Returning(c))
      BY <1>4, <2>9, <2>10, <2>12, <2>13, <3>1 DEF Counted
    <3>3. Relaying(c)' + Upstreaming(c)' <= 1
      BY <3>1, <3>2 DEF Client, Counted
    <3>4. ASSUME Alive(c) PROVE Hop(c)'
      <4>1. Hop(c)
        BY <3>1, <3>4 DEF Client
      <4>2. Hop(c)' <=> /\ Asking(c) + Awaiting(c) + Answering(c) = Outside(c)
                        /\ Relaying(c) - 1 + (Upstreaming(c) + 1) + Returning(c) <= Awaiting(c)
                        /\ ~closed[c] /\ Alive(U) => Relaying(c) - 1 + (Upstreaming(c) + 1) + Returning(c) = Awaiting(c)
        BY <1>4, <3>2, HopAfter
      <4>3. QED
        BY <3>1, <4>1, <4>2 DEF Hop
    <3>5. QED
      BY <1>4, <3>1, <3>3, <3>4, HopTalk
  <2>16. QED
    BY <2>7, <2>8, <2>14, <2>15, TalkKeeps
<1>9. QED
  BY <1>6, <1>7, <1>8

\* A reply of the network, or an inform, is passed on.
LEMMA UpstreamResponds ==
    ASSUME DuplexInv, queue[Peer(U)] # << >>, Talk, Head(queue[Peer(U)]).type # "request",
           HandleResponse(U, Head(queue[Peer(U)]), Taken(queue, Peer(U)))
    PROVE  DuplexInv'
<1>. PICK m : m = Head(queue[Peer(U)])
  OBVIOUS
<1> DEFINE q == Taken(queue, Peer(U))
           slot == CHOOSE i \in Handlers(U, m) : \A j \in Handlers(U, m) : i <= j
           rh == f_replies[U][slot]
           x == Mail(m.type, "relay", m.of, Peer(U))
<1>1. /\ Places /\ Settled /\ size' = size /\ size \in Nat
      /\ queue \in [Endpoints -> Seq(Queued)] /\ \A d \in Clients : Client(d)
  BY Flat DEF DuplexInv, Talk, Settled
<1>2. Peer(U) \in Endpoints /\ Remote(U) \in Endpoints /\ Peer(U) # Remote(U) /\ U \in Flats
  BY Addresses
<1>3. m \in ToUpstream
  BY <1>1, <1>2, FirstOf, Kinds
<1>4. m \in Queued /\ m.type \in {"reply", "inform"} /\ m.of \in Requests /\ \A d \in Clients : m \notin AsksFrom(Peer(d))
  BY <1>3, ToUpstreamIs
<1>5. \A d \in Clients : /\ Asking(d) \in Nat /\ Awaiting(d) \in Nat /\ Answering(d) \in Nat
                         /\ Relaying(d) \in Nat /\ Upstreaming(d) \in Nat /\ Returning(d) \in Nat
  BY <1>1, NumbersAre
<1>6. CASE Handlers(U, m) = {}
  <2>1. queue' = q /\ UNCHANGED f_replies
    BY <1>6 DEF HandleResponse
  <2>2. QED
    BY <2>1, UpstreamDrops
<1>7. CASE Handlers(U, m) # {}
  <2>1. /\ queue' = Sent(q, Peer(U), rh.issuer, Letter(m.type, rh.initial.name, m.of))
        /\ f_replies' = IF m.type = "reply" THEN [f_replies EXCEPT ![U][slot] = NULL] ELSE f_replies
    BY <1>7 DEF HandleResponse, Letter
  <2>2. slot \in 1 .. size /\ rh \in UpstreamSlots
    <3> DEFINE H == Handlers(U, m)
    <3>1. H \in SUBSET (1 .. size)
      BY DEF Handlers
    <3>2. slot \in H
      <4> HIDE DEF H
      <4>1. (CHOOSE i \in H : \A j \in H : i <= j) \in H
        BY <1>1, <1>7, <3>1, Chosen DEF H
      <4>2. QED
        BY <4>1 DEF H
    <3>3. slot \in 1 .. size /\ rh # NULL
      BY <3>2 DEF Handlers
    <3> HIDE DEF slot
    <3>4. rh \in UpstreamSlots
      BY <1>1, <1>2, <3>3, Flat, Kinds
    <3>5. QED
      BY <3>3, <3>4
  <2> HIDE DEF slot
  <2>. PICK c : c = rh.initial.of[1]
    OBVIOUS
  <2>3. /\ rh.issuer = Peer(c) /\ rh # NULL /\ rh.initial.name = "relay" /\ f_replies[U][slot] = rh
        /\ c \in Clients
    BY <2>2, Constants DEF UpstreamSlots, Handler, Message, Requests
  <2> HIDE DEF rh
  <2>4. c # U /\ c \in Flats /\ Peer(c) \in Endpoints /\ Peer(c) # Peer(U) /\ Peer(c) # Remote(U)
    BY <2>3, Addresses
  <2>5. x \in Queued /\ x \in ToClient(c) /\ x.type # "request" /\ (x \in Replies <=> m.type = "reply")
    BY <1>2, <1>4 DEF ToClient, Queued, Replies, Mail
  <2> DEFINE B == Open(Peer(c))
  <2>6. queue' = Passed(queue, {Peer(U)}, B, x)
    <3> HIDE DEF q
    <3>1. Sent(q, Peer(U), Peer(c), Letter(m.type, "relay", m.of))
            = Passed(queue, {Peer(U)}, Open(Peer(c)), Mail(m.type, "relay", m.of, Peer(U)))
      BY <1>1, <1>2, <2>4, TakenSentDoes DEF q
    <3>2. QED
      BY <2>1, <2>3, <3>1
  <2>7. B \subseteq {Peer(c)} /\ (Alive(c) /\ ~closed[c] => Peer(c) \in B)
    BY DEF Open, Receiving, Alive, Peer
  <2> HIDE DEF q, x, B
  <2>8. QueuesOK'
    <3>1. Fits(queue, {Peer(U)}, B) /\ Belongs(x, B)
      BY <2>3, <2>4, <2>5, <2>7, Kinds DEF Fits, Belongs
    <3>2. QED
      BY <1>1, <2>6, <3>1, QueuesPassed
  <2>9. /\ \A d \in Clients : Asking(d)' = Asking(d) /\ Answering(d)' = Answering(d)
        /\ \A d \in Clients \ {c} : Returning(d)' = Returning(d)
        /\ Returning(c)' = Returning(c) + Came(Peer(c), B, x, Replies)
        /\ \A d \in Clients : Relaying(d)' = Relaying(d)
    <3>1. Elsewhere({Peer(U)}, B, x)
      BY <2>6 DEF Elsewhere
    <3>2. /\ \A d \in Clients : Asking(d)' = Asking(d) /\ Answering(d)' = Answering(d)
          /\ \A d \in Clients \ {c} : Returning(d)' = Returning(d)
          /\ Returning(c)' = Returning(c) + Came(Peer(c), B, x, Replies)
          /\ \A d \in Clients : m \notin AsksFrom(Peer(d)) => Relaying(d)' = Relaying(d)
      BY <1>1, <2>3, <2>5, <2>7, <3>1, TakenUpstream
    <3>3. QED
      BY <1>4, <3>2
  <2>10. CASE m.type = "inform"
    <3>1. UNCHANGED f_replies
      BY <2>1, <2>10
    <3>2. SlotsOK'
      BY <1>1, <3>1, PlacesStay
    <3>3. \A d \in Clients : Awaiting(d)' = Awaiting(d) /\ Upstreaming(d)' = Upstreaming(d)
      BY <1>1, <3>1, SlotsStay
    <3>4. Came(Peer(c), B, x, Replies) = 0
      BY <2>5, <2>10 DEF Came
    <3>5. ASSUME NEW d \in Clients PROVE CountedSame(d)
      <4>1. Returning(d)' = Returning(d)
        BY <1>5, <2>3, <2>9, <3>4
      <4>2. QED
        BY <2>9, <3>3, <4>1 DEF CountedSame, Counted
    <3>6. QED
      BY <1>1, <2>8, <3>2, <3>5, SameTalk, TalkKeeps
  <2>11. CASE m.type = "reply"
    <3>1. f_replies' = [f_replies EXCEPT ![U][slot] = NULL]
      BY <2>1, <2>11
    <3>2. SlotsOK'
      BY <1>1, <1>2, <2>2, <3>1, SlotsSet
    <3>3. /\ \A d \in Clients : Awaiting(d)' = Awaiting(d)
          /\ \A d \in Clients \ {c} : Upstreaming(d)' = Upstreaming(d)
          /\ Upstreaming(c)' = Upstreaming(c) - 1
      <4>1. \A e : \A g \in Flats \ {U} : Awaited(g, e)' = Awaited(g, e)
        BY <1>1, <1>2, <2>2, <3>1, AwaitedStays
      <4>2. NULL \in Handler \cup {NULL}
        OBVIOUS
      <4>3. \A e : Cardinality(Awaited(U, e)') =
                      Cardinality(Awaited(U, e)) - Waits(f_replies[U][slot], e) + Waits(NULL, e)
        BY <1>1, <1>2, <2>2, <3>1, <4>2, AwaitedChanges
      <4>4. /\ \A e : Waits(NULL, e) = 0
            /\ Waits(f_replies[U][slot], Peer(c)) = 1
            /\ \A d \in Clients \ {c} : Waits(f_replies[U][slot], Peer(d)) = 0
        BY <2>3, Addresses DEF Waits
      <4>5. \A d \in Clients : Awaiting(d)' = Awaiting(d)
        BY <4>1, Addresses DEF Awaiting
      <4>6. \A d \in Clients \ {c} : Upstreaming(d)' = Upstreaming(d)
        <5>1. \A d \in Clients \ {c} : Upstreaming(d)' = Upstreaming(d) - 0 + 0
          BY <4>3, <4>4 DEF Upstreaming
        <5>2. QED
          BY <1>5, <5>1
      <4>7. Upstreaming(c)' = Upstreaming(c) - 1
        <5>1. Upstreaming(c)' = Upstreaming(c) - 1 + 0
          BY <4>3, <4>4 DEF Upstreaming
        <5>2. QED
          BY <1>5, <2>3, <5>1
      <4>8. QED
        BY <4>5, <4>6, <4>7
    <3>4. Came(Peer(c), B, x, Replies) \in 0 .. 1 /\ (Alive(c) /\ ~closed[c] => Came(Peer(c), B, x, Replies) = 1)
      BY <2>5, <2>7, <2>11 DEF Came
    <3>5. ASSUME NEW d \in Clients \ {c} PROVE Client(d)'
      <4>1. CountedSame(d)
        BY <2>9, <3>3 DEF CountedSame, Counted
      <4>2. QED
        BY <1>1, <4>1, SameTalk
    <3>6. Client(c)'
      <4>1. /\ Asking(c) \in Nat /\ Awaiting(c) \in Nat /\ Answering(c) \in Nat
            /\ Relaying(c) \in Nat /\ Upstreaming(c) \in Nat /\ Returning(c) \in Nat /\ Client(c)
        BY <1>1, <1>5, <2>3
      <4> DEFINE t == Returning(c) + Came(Peer(c), B, x, Replies)
      <4>2. Counted(c, Asking(c), Awaiting(c), Answering(c), Relaying(c), Upstreaming(c) - 1, t)
        BY <2>3, <2>9, <3>3 DEF Counted
      <4>3. t \in Nat /\ t <= Returning(c) + 1 /\ (Alive(c) /\ ~closed[c] => t = Returning(c) + 1)
        BY <3>4, <4>1
      <4> HIDE DEF t
      <4>4. Relaying(c)' + Upstreaming(c)' <= 1
        BY <4>1, <4>2 DEF Client, Counted
      <4>5. ASSUME Alive(c) PROVE Hop(c)'
        <5>1. Hop(c)
          BY <4>1, <4>5 DEF Client
        <5>2. Hop(c)' <=> /\ Asking(c) + Awaiting(c) + Answering(c) = Outside(c)
                          /\ Relaying(c) + (Upstreaming(c) - 1) + t <= Awaiting(c)
                          /\ ~closed[c] /\ Alive(U) => Relaying(c) + (Upstreaming(c) - 1) + t = Awaiting(c)
          BY <2>3, <4>2, HopAfter
        <5>3. QED
          BY <4>1, <4>3, <4>5, <5>1, <5>2 DEF Hop
      <4>6. QED
        BY <2>3, <4>1, <4>4, <4>5, HopTalk
    <3>7. QED
      BY <2>8, <3>2, <3>5, <3>6, TalkKeeps
  <2>12. QED
    BY <1>4, <2>10, <2>11
<1>8. QED
  BY <1>6, <1>7

LEMMA RunPeerUpstream ==
    ASSUME DuplexInv, RunPeer(U)
    PROVE  DuplexInv'
<1> DEFINE m == Head(queue[Peer(U)])
           q == Taken(queue, Peer(U))
<1>1. /\ queue[Peer(U)] # << >> /\ Talk
      /\ IF f_state[U] \notin Operational THEN Fails(U, m, q)
         ELSE IF m.type = "request" THEN HandleRequest(U, m, q)
         ELSE HandleResponse(U, m, q)
  BY DEF RunPeer, Talk, Taken
<1>2. HandleRequest(U, m, q) => Forward(U, m, q, Remote(U), named[m.of[1]])
  BY DEF HandleRequest, U
<1> HIDE DEF m, q
<1>3. QED
  BY <1>1, <1>2, UpstreamFails, UpstreamForwards, UpstreamResponds DEF m, q

-----------------------------------------------------------------------------
(* A turn of a remote.                                                      *)

\* What changes of a client that is still alive.
LEMMA ClientAfter ==
    ASSUME NEW d \in Clients, Relaying(d)' + Upstreaming(d)' <= 1, Alive(d)' => Hop(d)' /\ Ledger(d)'
    PROVE  Client(d)'
BY DEF Client

\* A step that leaves the hops alone, and perhaps the ledger.
HopStill(d) ==
  /\ Asking(d)' = Asking(d) /\ Awaiting(d)' = Awaiting(d) /\ Answering(d)' = Answering(d)
  /\ Relaying(d)' = Relaying(d) /\ Upstreaming(d)' = Upstreaming(d) /\ Returning(d)' = Returning(d)

LEMMA StillIs ==
    ASSUME NEW d \in Clients, HopStill(d),
           f_deferring'[d] = f_deferring[d], f_defer'[d] = f_defer[d], f_line'[d] = f_line[d],
           sent'[d] = sent[d], got'[d] = got[d],
           f_state'[d] = f_state[d], closed'[d] = closed[d], f_state'[U] = f_state[U]
    PROVE  Still(d)
BY DEF HopStill, Still, Alive

LEMMA TakenByRemote ==
    ASSUME Places, NEW c \in Clients, queue[Remote(c)] # << >>, NEW B, B \subseteq {Peer(c)},
           NEW x \in Queued, x.type = "request", x.from = Remote(c),
           queue' = Passed(queue, {Remote(c)}, B, x), UNCHANGED <<size, f_replies>>
    PROVE  /\ \A d \in Clients \ {c} : HopStill(d)
           /\ Awaiting(c)' = Awaiting(c) /\ Relaying(c)' = Relaying(c)
           /\ Upstreaming(c)' = Upstreaming(c) /\ Returning(c)' = Returning(c)
           /\ Asking(c)' = Asking(c) + Came(Peer(c), B, x, Asks)
           /\ Answering(c)' = Answering(c) - One(Head(queue[Remote(c)]), Replies)
<1> DEFINE A == {Remote(c)}
           m == Head(queue[Remote(c)])
<1>1. c # U /\ c \in Flats
  BY Addresses
<1>2. Fits(queue, A, B)
  BY Addresses DEF Fits
<1>3. ASSUME NEW d \in Clients
      PROVE  /\ Asking(d)' = Asking(d) - Gone(Peer(d), queue, A, Asks) + Came(Peer(d), B, x, Asks)
             /\ Answering(d)' = Answering(d) - Gone(Remote(d), queue, A, Replies) + Came(Remote(d), B, x, Replies)
             /\ Relaying(d)' =
                  Relaying(d) - Gone(Peer(U), queue, A, AsksFrom(Peer(d))) + Came(Peer(U), B, x, AsksFrom(Peer(d)))
             /\ Returning(d)' = Returning(d) - Gone(Peer(d), queue, A, Replies) + Came(Peer(d), B, x, Replies)
  <2>1. Elsewhere(A, B, x)
    BY DEF Elsewhere
  <2> HIDE DEF A
  <2>2. QED
    BY <1>2, <2>1, NumbersChange
<1>4. \A d \in Clients : /\ Gone(Peer(d), queue, A, Asks) = 0 /\ Gone(Peer(d), queue, A, Replies) = 0
                         /\ Gone(Peer(U), queue, A, AsksFrom(Peer(d))) = 0
                         /\ Came(Remote(d), B, x, Replies) = 0 /\ Came(Peer(d), B, x, Replies) = 0
                         /\ Came(Peer(U), B, x, AsksFrom(Peer(d))) = 0
  BY <1>1, Addresses DEF Came, Gone, Replies
<1>5. \A d \in Clients \ {c} : Gone(Remote(d), queue, A, Replies) = 0 /\ Came(Peer(d), B, x, Asks) = 0
  BY <1>1, Addresses DEF Came, Gone
<1>6. Gone(Remote(c), queue, A, Replies) = One(m, Replies) /\ One(m, Replies) \in Nat
  BY DEF Gone, One
<1>7. \A d \in Clients : Asking(d) \in Nat /\ Answering(d) \in Nat /\ Relaying(d) \in Nat /\ Returning(d) \in Nat
  BY NumbersAre
<1>8. \A d \in Clients : Awaiting(d)' = Awaiting(d) /\ Upstreaming(d)' = Upstreaming(d)
  BY SlotsStay
<1>9. Came(Peer(c), B, x, Asks) \in Nat
  BY DEF Came
<1> HIDE DEF A, m
<1>10. ASSUME NEW d \in Clients \ {c} PROVE HopStill(d)
  BY <1>3, <1>4, <1>5, <1>7, <1>8 DEF HopStill
<1>11. Relaying(c)' = Relaying(c) /\ Returning(c)' = Returning(c)
  BY <1>3, <1>4, <1>7
<1>12. Asking(c)' = Asking(c) + Came(Peer(c), B, x, Asks)
  BY <1>3, <1>4, <1>7, <1>9
<1>13. Answering(c)' = Answering(c) - One(m, Replies)
  BY <1>3, <1>4, <1>6, <1>7
<1>14. QED
  BY <1>8, <1>10, <1>11, <1>12, <1>13 DEF m

\* A reply is the only one, and nothing else of its request is left.
LEMMA ClientAnswered ==
    ASSUME Places, NEW c \in Clients, queue[Remote(c)] # << >>, Head(queue[Remote(c)]) \in Replies, Hop(c)
    PROVE  /\ Awaiting(c) = 0 /\ Asking(c) = 0 /\ Answering(c) = 1 /\ Outside(c) = 1
           /\ Relaying(c) = 0 /\ Upstreaming(c) = 0 /\ Returning(c) = 0
<1>1. Remote(c) \in Endpoints
  BY Addresses
<1>2. Answering(c) # 0
  <2> DEFINE s == queue[Remote(c)]
  <2>1. s \in Seq(Queued)
    BY <1>1, Flat
  <2>2. 1 \in 1 .. Len(s) /\ s[1] \in Replies
    BY <2>1
  <2> HIDE DEF s
  <2>3. Num(s, Replies) # 0
    BY <2>1, <2>2, NumIs
  <2>4. QED
    BY <2>3 DEF Answering, s
<1>3. /\ Asking(c) \in Nat /\ Awaiting(c) \in Nat /\ Answering(c) \in Nat
      /\ Relaying(c) \in Nat /\ Upstreaming(c) \in Nat /\ Returning(c) \in Nat
  BY NumbersAre
<1>4. Outside(c) \in 0 .. 1
  BY DEF Outside
<1>5. QED
  BY <1>2, <1>3, <1>4 DEF Hop

\* Lines and what is deferred.
LEMMA LinesSet ==
    ASSUME Places, Settled, NEW f \in Flats, NEW line, line \in Seq(LineKind(f)), line \in Seq(Message),
           f_line' = [f_line EXCEPT ![f] = line]
    PROVE  LinesOK' /\ f_line'[f] = line /\ \A g \in Flats \ {f} : f_line'[g] = f_line[g]
<1>1. f_line \in [Flats -> Seq(Message)] /\ \A g \in Flats : f_line[g] \in Seq(LineKind(g))
  BY DEF Places, LinesOK
<1>2. f_line' \in [Flats -> Seq(Message)] /\ f_line'[f] = line /\ \A g \in Flats \ {f} : f_line'[g] = f_line[g]
  BY <1>1
<1>3. \A g \in Flats : f_line'[g] \in Seq(LineKind(g))
  BY <1>1, <1>2
<1>4. \A g : LineKind(g)' = LineKind(g)
  BY KindsStay DEF Settled
<1>5. QED
  BY <1>2, <1>3, <1>4 DEF LinesOK

LEMMA DefersSet ==
    ASSUME Places, Settled, NEW f \in Flats, NEW d, d \in Seq(DeferKind(f)), d \in Seq(Message),
           f_defer' = [f_defer EXCEPT ![f] = d]
    PROVE  DefersOK' /\ f_defer'[f] = d /\ \A g \in Flats \ {f} : f_defer'[g] = f_defer[g]
<1>1. f_defer \in [Flats -> Seq(Message)] /\ \A g \in Flats : f_defer[g] \in Seq(DeferKind(g))
  BY DEF Places, DefersOK
<1>2. f_defer' \in [Flats -> Seq(Message)] /\ f_defer'[f] = d /\ \A g \in Flats \ {f} : f_defer'[g] = f_defer[g]
  BY <1>1
<1>3. \A g \in Flats : f_defer'[g] \in Seq(DeferKind(g))
  BY <1>1, <1>2
<1>4. \A g : DeferKind(g)' = DeferKind(g)
  BY KindsStay DEF Settled
<1>5. QED
  BY <1>2, <1>3, <1>4 DEF DefersOK

\* What a turn of the remote of c leaves alone.
RemoteTurn(c) ==
  /\ UNCHANGED <<size, flush, named, f_replies, closed, sent, got, asked>>
  /\ \A d \in Flats \ {c} : /\ f_state'[d] = f_state[d] /\ f_deferring'[d] = f_deferring[d]
                            /\ f_defer'[d] = f_defer[d] /\ f_line'[d] = f_line[d]

LEMMA RemoteKeeps ==
    ASSUME DuplexInv, NEW c \in Clients, RemoteTurn(c), QueuesOK', LinesOK', DefersOK', StatesOK',
           \A d \in Clients \ {c} : HopStill(d), Client(c)',
           f_state'[c] # f_state[c] => f_state'[c] = "crashing",
           "outside" \notin f_deferring'[c] => f_defer'[c] = << >>
    PROVE  DuplexInv'
<1>1. Places /\ Settled /\ UNCHANGED f_replies /\ UNCHANGED <<sent, got, asked>> /\ closed' = closed
  BY DEF DuplexInv, RemoteTurn, Settled
<1>2. SetupOK' /\ SlotsOK' /\ TalksOK'
  BY <1>1, PlacesStay
<1>3. Places'
  BY <1>2 DEF Places
<1>4. Ends'
  <2>1. Ends
    BY DEF DuplexInv
  <2>2. \A f \in Flats : closed'[f] => f_state'[f] \in {"ending", "crashing", "gone"}
    BY <1>1, <2>1 DEF Ends, RemoteTurn
  <2>3. ASSUME NEW d \in Clients PROVE f_state'[d] # "connecting" /\ ("outside" \notin f_deferring'[d] => f_defer'[d] = << >>)
    BY <2>1, Addresses DEF Ends, RemoteTurn
  <2>4. QED
    BY <2>2, <2>3 DEF Ends
<1>5. ASSUME NEW d \in Clients \ {c} PROVE Client(d)'
  <2>1. d \in Flats \ {c} /\ U \in Flats \ {c} /\ Client(d) /\ HopStill(d)
    BY Addresses DEF DuplexInv
  <2>2. Still(d)
    BY <1>1, <2>1, StillIs DEF RemoteTurn
  <2>3. QED
    BY <2>1, <2>2, StillClient
<1>6. QED
  BY <1>3, <1>4, <1>5 DEF DuplexInv

LEMMA RemoteTakes ==
    ASSUME DuplexInv, NEW c \in Clients, RemoteTurn(c), queue[Remote(c)] # << >>,
           NEW B, B \subseteq {Peer(c)}, NEW x \in Queued, Belongs(x, B), x.type = "request", x.from = Remote(c),
           queue' = Passed(queue, {Remote(c)}, B, x)
    PROVE  /\ QueuesOK'
           /\ \A d \in Clients \ {c} : HopStill(d)
           /\ Awaiting(c)' = Awaiting(c) /\ Relaying(c)' = Relaying(c)
           /\ Upstreaming(c)' = Upstreaming(c) /\ Returning(c)' = Returning(c)
           /\ Asking(c)' = Asking(c) + Came(Peer(c), B, x, Asks)
           /\ Answering(c)' = Answering(c) - One(Head(queue[Remote(c)]), Replies)
           /\ Relaying(c)' + Upstreaming(c)' <= 1
<1>1. Places /\ Settled /\ UNCHANGED <<size, f_replies>> /\ Client(c)
  BY DEF DuplexInv, RemoteTurn, Settled
<1>2. Fits(queue, {Remote(c)}, B)
  BY Addresses DEF Fits
<1>3. QueuesOK'
  BY <1>1, <1>2, QueuesPassed
<1>4. /\ \A d \in Clients \ {c} : HopStill(d)
      /\ Awaiting(c)' = Awaiting(c) /\ Relaying(c)' = Relaying(c)
      /\ Upstreaming(c)' = Upstreaming(c) /\ Returning(c)' = Returning(c)
      /\ Asking(c)' = Asking(c) + Came(Peer(c), B, x, Asks)
      /\ Answering(c)' = Answering(c) - One(Head(queue[Remote(c)]), Replies)
  BY <1>1, TakenByRemote
<1>5. Relaying(c) + Upstreaming(c) <= 1
  BY <1>1 DEF Client
<1>6. QED
  BY <1>3, <1>4, <1>5

\* What it handles.
LEMMA FromClientIs ==
    ASSUME Places, NEW c \in Clients, queue[Remote(c)] # << >>
    PROVE  LET m == Head(queue[Remote(c)])
           IN  /\ m \in Queued /\ m.type \in {"reply", "inform"} /\ m.of \in Requests
               /\ m \in Replies <=> m.type = "reply"
               /\ Letter(m.type, m.name, m.of) \in Written
               /\ Letter(m.type, m.name, m.of) \in WrittenReplies <=> m.type = "reply"
<1>. PICK m : m = Head(queue[Remote(c)])
  OBVIOUS
<1>1. Remote(c) \in Endpoints
  BY Addresses
<1>2. m \in FromClient(c)
  BY <1>1, FirstOf, Kinds
<1>3. m \in Queued /\ m.type \in {"reply", "inform"} /\ m.of \in Requests /\ m.name \in Names \cup {"relay"}
  BY <1>2 DEF FromClient, Queued
<1>4. /\ Letter(m.type, m.name, m.of) \in Message
      /\ Letter(m.type, m.name, m.of).type = m.type
  BY <1>3 DEF Letter, Message
<1>5. QED
  BY <1>3, <1>4 DEF Written, WrittenReplies, Replies

\* Hop, in such a turn.
LEMMA HopRemote ==
    ASSUME NEW d \in Clients, RemoteTurn(d), NEW a, NEW w, NEW n, NEW r, NEW s, NEW t, NEW o,
           Counted(d, a, w, n, r, s, t), Outside(d)' = o
    PROVE  Hop(d)' <=> /\ a + w + n = o
                       /\ r + s + t <= w
                       /\ ~closed[d] /\ Alive(U) => r + s + t = w
<1>1. closed'[d] = closed[d] /\ Alive(U)' = Alive(U)
  BY Addresses DEF RemoteTurn, Alive
<1>2. QED
  BY <1>1 DEF Counted, Hop

\* What is written is not a reply, or is the answer, or the flat has failed.
LEMMA RemoteInform ==
    ASSUME DuplexInv, NEW c \in Clients, RemoteTurn(c), queue[Remote(c)] # << >>,
           queue' = Taken(queue, Remote(c)), UNCHANGED <<f_state, f_deferring, f_defer>>,
           \/ f_state[c] = "crashing" /\ UNCHANGED f_line
           \/ LET m == Head(queue[Remote(c)])
              IN  /\ m.type # "reply"
                  /\ f_line' = [f_line EXCEPT ![c] = Append(f_line[c], Letter(m.type, m.name, m.of))]
    PROVE  DuplexInv'
<1>. PICK m : m = Head(queue[Remote(c)])
  OBVIOUS
<1>. PICK y : y = Letter(m.type, m.name, m.of)
  OBVIOUS
<1> DEFINE x == Mail("request", "relay", m.of, Remote(c))
           line == Append(f_line[c], y)
<1>1. /\ Places /\ Settled /\ UNCHANGED <<f_state, closed, f_deferring>> /\ UNCHANGED f_defer
      /\ queue \in [Endpoints -> Seq(Queued)] /\ Client(c) /\ Ends
  BY Flat DEF DuplexInv, RemoteTurn, Settled
<1>2. Remote(c) \in Endpoints /\ c \in Flats
  BY Addresses
<1>3. /\ m.type \in {"reply", "inform"} /\ m.of \in Requests /\ (m \in Replies <=> m.type = "reply")
      /\ y \in Written /\ (y \in WrittenReplies <=> m.type = "reply")
  BY <1>1, FromClientIs
<1>4. x \in Queued /\ x.type = "request" /\ x.from = Remote(c)
  BY <1>2, <1>3 DEF Queued, Mail
<1> HIDE DEF x
<1>5. queue' = Passed(queue, {Remote(c)}, {}, x)
  BY <1>1, <1>2, TakenDoes
<1>6. /\ QueuesOK'
      /\ \A d \in Clients \ {c} : HopStill(d)
      /\ Awaiting(c)' = Awaiting(c) /\ Relaying(c)' = Relaying(c)
      /\ Upstreaming(c)' = Upstreaming(c) /\ Returning(c)' = Returning(c)
      /\ Asking(c)' = Asking(c) + Came(Peer(c), {}, x, Asks)
      /\ Answering(c)' = Answering(c) - One(m, Replies)
      /\ Relaying(c)' + Upstreaming(c)' <= 1
  <2> DEFINE B == {}
  <2>1. B \subseteq {Peer(c)} /\ Belongs(x, B) /\ queue' = Passed(queue, {Remote(c)}, B, x)
    BY <1>5 DEF Belongs
  <2> HIDE DEF B
  <2>2. /\ QueuesOK'
        /\ \A d \in Clients \ {c} : HopStill(d)
        /\ Awaiting(c)' = Awaiting(c) /\ Relaying(c)' = Relaying(c)
        /\ Upstreaming(c)' = Upstreaming(c) /\ Returning(c)' = Returning(c)
        /\ Asking(c)' = Asking(c) + Came(Peer(c), B, x, Asks)
        /\ Answering(c)' = Answering(c) - One(m, Replies)
        /\ Relaying(c)' + Upstreaming(c)' <= 1
    BY <1>1, <1>4, <2>1, RemoteTakes
  <2>3. QED
    BY <2>2 DEF B
<1>7. DefersOK' /\ StatesOK'
  BY <1>1, PlacesStay
<1>8. "outside" \notin f_deferring'[c] => f_defer'[c] = << >>
  BY <1>1 DEF Ends
<1>9. CASE f_state[c] = "crashing" /\ UNCHANGED f_line
  <2>1. LinesOK'
    BY <1>1, <1>9, PlacesStay
  <2>2. Client(c)'
    BY <1>1, <1>6, <1>9, ClientAfter DEF Alive
  <2>3. QED
    BY <1>1, <1>6, <1>7, <1>8, <2>1, <2>2, RemoteKeeps
<1>10. CASE m.type # "reply" /\ f_line' = [f_line EXCEPT ![c] = line]
  <2>1. f_line[c] \in Seq(Written) /\ f_line[c] \in Seq(Message)
    BY <1>1, <1>2, Kinds DEF Places, LinesOK
  <2>2. y \in Message
    BY <1>3 DEF Written
  <2>3. line \in Seq(Written) /\ line \in Seq(Message)
    BY <1>3, <2>1, <2>2
  <2>4. Num(line, WrittenReplies) = Num(f_line[c], WrittenReplies)
    <3>1. /\ Num(f_line[c], WrittenReplies) \in Nat
          /\ Num(line, WrittenReplies) = Num(f_line[c], WrittenReplies) + One(y, WrittenReplies)
      BY <1>3, <2>1, NumAppend
    <3>2. One(y, WrittenReplies) = 0
      BY <1>3, <1>10 DEF One
    <3>3. QED
      BY <3>1, <3>2
  <2> HIDE DEF line
  <2>5. LinesOK' /\ f_line'[c] = line
    BY <1>1, <1>2, <1>10, <2>3, Kinds, LinesSet
  <2>6. Counted(c, Asking(c), Awaiting(c), Answering(c), Relaying(c), Upstreaming(c), Returning(c))
    <3>1. Came(Peer(c), {}, x, Asks) = 0 /\ One(m, Replies) = 0 /\ Asking(c) \in Nat /\ Answering(c) \in Nat
      BY <1>1, <1>3, <1>10, NumbersAre DEF Came, One
    <3>2. Asking(c)' = Asking(c) /\ Answering(c)' = Answering(c)
      BY <1>6, <3>1
    <3>3. QED
      BY <1>6, <3>2 DEF Counted
  <2>7. Outside(c)' = Outside(c)
    BY <1>1 DEF Outside
  <2>8. ASSUME Alive(c)' PROVE Hop(c)' /\ Ledger(c)'
    <3>1. Hop(c) /\ Ledger(c)
      BY <1>1, <2>8 DEF Client, Alive
    <3>2. Hop(c)'
      BY <2>6, <2>7, <3>1, HopRemote DEF Hop
    <3>3. Ledger(c)'
      BY <1>1, <2>4, <2>5, <2>7, <3>1 DEF Ledger, RemoteTurn
    <3>4. QED
      BY <3>2, <3>3
  <2>9. Client(c)'
    BY <1>6, <2>8, ClientAfter
  <2>10. QED
    BY <1>1, <1>6, <1>7, <1>8, <2>5, <2>9, RemoteKeeps
<1>11. QED
  BY <1>9, <1>10

\* The answer is written, and the way is free; z are the requests cancelled.
LEMMA RemoteFrees ==
    ASSUME DuplexInv, NEW c \in Clients, RemoteTurn(c), queue[Remote(c)] # << >>,
           queue' = Taken(queue, Remote(c)), UNCHANGED f_state, NEW z \in Seq(WrittenReplies), Len(z) = Len(f_defer[c]),
           f_deferring' = [f_deferring EXCEPT ![c] = @ \ {"outside"}],
           f_defer' = [f_defer EXCEPT ![c] = << >>],
           LET m == Head(queue[Remote(c)])
           IN  /\ m.type = "reply"
               /\ f_line' = [f_line EXCEPT ![c] = Append(f_line[c], Letter(m.type, m.name, m.of)) \o z]
    PROVE  DuplexInv'
<1>. PICK m : m = Head(queue[Remote(c)])
  OBVIOUS
<1>. PICK y : y = Letter(m.type, m.name, m.of)
  OBVIOUS
<1> DEFINE x == Mail("request", "relay", m.of, Remote(c))
           s == Append(f_line[c], y)
           line == s \o z
<1>1. /\ Places /\ Settled /\ queue \in [Endpoints -> Seq(Queued)] /\ Client(c)
  BY Flat DEF DuplexInv, RemoteTurn, Settled
<1>2. Remote(c) \in Endpoints /\ c \in Flats
  BY Addresses
<1>3. /\ m.type = "reply" /\ m.of \in Requests /\ m \in Replies
      /\ y \in Written /\ y \in WrittenReplies
  BY <1>1, FromClientIs
<1>4. x \in Queued /\ x.type = "request" /\ x.from = Remote(c)
  BY <1>2, <1>3 DEF Queued, Mail
<1> HIDE DEF x
<1>5. queue' = Passed(queue, {Remote(c)}, {}, x)
  BY <1>1, <1>2, TakenDoes
<1>6. /\ QueuesOK'
      /\ \A d \in Clients \ {c} : HopStill(d)
      /\ Awaiting(c)' = Awaiting(c) /\ Relaying(c)' = Relaying(c)
      /\ Upstreaming(c)' = Upstreaming(c) /\ Returning(c)' = Returning(c)
      /\ Asking(c)' = Asking(c) + Came(Peer(c), {}, x, Asks)
      /\ Answering(c)' = Answering(c) - One(m, Replies)
      /\ Relaying(c)' + Upstreaming(c)' <= 1
  <2> DEFINE B == {}
  <2>1. B \subseteq {Peer(c)} /\ Belongs(x, B) /\ queue' = Passed(queue, {Remote(c)}, B, x)
    BY <1>5 DEF Belongs
  <2> HIDE DEF B
  <2>2. /\ QueuesOK'
        /\ \A d \in Clients \ {c} : HopStill(d)
        /\ Awaiting(c)' = Awaiting(c) /\ Relaying(c)' = Relaying(c)
        /\ Upstreaming(c)' = Upstreaming(c) /\ Returning(c)' = Returning(c)
        /\ Asking(c)' = Asking(c) + Came(Peer(c), B, x, Asks)
        /\ Answering(c)' = Answering(c) - One(m, Replies)
        /\ Relaying(c)' + Upstreaming(c)' <= 1
    BY <1>1, <1>4, <2>1, RemoteTakes
  <2>3. QED
    BY <2>2 DEF B
<1>7. f_line[c] \in Seq(Written) /\ f_line[c] \in Seq(Message)
  BY <1>1, <1>2, Kinds DEF Places, LinesOK
<1>8. s \in Seq(Written) /\ s \in Seq(Message) /\ line \in Seq(Written) /\ line \in Seq(Message)
  <2>1. y \in Message /\ Written \subseteq Message /\ WrittenReplies \subseteq Written
    BY <1>3 DEF Written, WrittenReplies
  <2>2. z \in Seq(Written) /\ z \in Seq(Message)
    BY <2>1
  <2>3. s \in Seq(Written) /\ s \in Seq(Message)
    BY <1>3, <1>7, <2>1
  <2> HIDE DEF s
  <2>4. QED
    BY <2>2, <2>3
<1>9. /\ Num(f_line[c], WrittenReplies) \in Nat /\ Len(f_defer[c]) \in Nat
      /\ Num(line, WrittenReplies) = Num(f_line[c], WrittenReplies) + 1 + Len(f_defer[c])
  <2>1. /\ Num(f_line[c], WrittenReplies) \in Nat
        /\ Num(s, WrittenReplies) = Num(f_line[c], WrittenReplies) + One(y, WrittenReplies)
    BY <1>3, <1>7, NumAppend
  <2>2. One(y, WrittenReplies) = 1
    BY <1>3 DEF One
  <2>3. Num(z, WrittenReplies) = Len(z)
    <3>1. \A i \in 1 .. Len(z) : z[i] \in WrittenReplies
      OBVIOUS
    <3>2. QED
      BY <3>1, NumAll
  <2> HIDE DEF s
  <2>4. Num(s \o z, WrittenReplies) = Num(s, WrittenReplies) + Num(z, WrittenReplies)
    <3>1. z \in Seq(Written)
      BY DEF Written, WrittenReplies
    <3>2. QED
      BY <1>8, <3>1, NumJoined
  <2>5. Len(z) \in Nat
    OBVIOUS
  <2>6. QED
    BY <2>1, <2>2, <2>3, <2>4, <2>5
<1> HIDE DEF s, line
<1>10. LinesOK' /\ f_line'[c] = line /\ \A d \in Flats \ {c} : f_line'[d] = f_line[d]
  <2>1. f_line' = [f_line EXCEPT ![c] = line]
    BY DEF line, s
  <2>2. line \in Seq(LineKind(c))
    BY <1>8, Kinds
  <2>3. QED
    BY <1>1, <1>2, <1>8, <2>1, <2>2, LinesSet
<1>11. DefersOK' /\ f_defer'[c] = << >>
  <2> DEFINE e == << >>
  <2>1. e \in Seq(DeferKind(c)) /\ e \in Seq(Message) /\ f_defer' = [f_defer EXCEPT ![c] = e]
    OBVIOUS
  <2> HIDE DEF e
  <2>2. DefersOK' /\ f_defer'[c] = e
    BY <1>1, <1>2, <2>1, DefersSet
  <2>3. QED
    BY <2>2 DEF e
<1>12. StatesOK' /\ Outside(c)' = 0
  BY <1>1, <1>2 DEF Places, StatesOK, RemoteTurn, Outside
<1>13. ASSUME Alive(c)' PROVE Hop(c)' /\ Ledger(c)'
  <2>1. Hop(c) /\ Ledger(c)
    BY <1>1, <1>13 DEF Client, Alive
  <2>2. /\ Awaiting(c) = 0 /\ Asking(c) = 0 /\ Answering(c) = 1 /\ Outside(c) = 1
        /\ Relaying(c) = 0 /\ Upstreaming(c) = 0 /\ Returning(c) = 0
    BY <1>1, <1>3, <2>1, ClientAnswered
  <2>3. Came(Peer(c), {}, x, Asks) = 0 /\ One(m, Replies) = 1
    BY <1>3 DEF Came, One
  <2>4. Counted(c, 0, 0, 0, 0, 0, 0)
    BY <1>6, <2>2, <2>3 DEF Counted
  <2>5. Hop(c)'
    BY <1>12, <2>4, HopRemote
  <2>6. Ledger(c)'
    <3>1. Num(got[c], ReceivedReplies) + Num(f_line[c], WrittenReplies) + Len(f_defer[c]) + 1 = sent[c]
      BY <2>1, <2>2 DEF Ledger
    <3>2. Num(got[c], ReceivedReplies) \in Nat /\ sent[c] \in Nat
      <4>1. got[c] \in Seq(Received)
        BY <1>1 DEF Places, TalksOK
      <4>2. Num(got[c], ReceivedReplies) \in Nat
        BY <4>1, NumIs
      <4>3. sent[c] \in Nat
        BY <1>1 DEF Places, TalksOK
      <4>4. QED
        BY <4>2, <4>3
    <3>3. Num(got[c], ReceivedReplies) + Num(line, WrittenReplies) + 0 + 0 = sent[c]
      <4> DEFINE g == Num(got[c], ReceivedReplies)
                 l == Num(f_line[c], WrittenReplies)
                 n == Len(f_defer[c])
                 k == Num(line, WrittenReplies)
      <4>1. g \in Nat /\ l \in Nat /\ n \in Nat /\ sent[c] \in Nat /\ k = l + 1 + n /\ g + l + n + 1 = sent[c]
        BY <1>9, <3>1, <3>2
      <4> HIDE DEF g, l, n, k
      <4>2. g + k + 0 + 0 = sent[c]
        BY <4>1
      <4>3. QED
        BY <4>2 DEF g, k
    <3>4. Len(f_defer'[c]) = 0
      BY <1>11
    <3>5. got' = got /\ sent' = sent
      BY DEF RemoteTurn
    <3>6. QED
      BY <1>10, <1>12, <3>3, <3>4, <3>5 DEF Ledger
  <2>7. QED
    BY <2>5, <2>6
<1>14. Client(c)'
  BY <1>6, <1>13, ClientAfter
<1>15. QED
  BY <1>6, <1>10, <1>11, <1>12, <1>14, RemoteKeeps

\* The answer is written, and the next request is to be handled.
LEMMA RemoteNext ==
    ASSUME DuplexInv, NEW c \in Clients, RemoteTurn(c), queue[Remote(c)] # << >>, f_defer[c] # << >>,
           queue' = Sent(Taken(queue, Remote(c)), Remote(c), Peer(c), Head(f_defer[c])),
           f_state' = IF Receiving(Peer(c)) THEN f_state ELSE [f_state EXCEPT ![c] = "crashing"],
           UNCHANGED f_deferring, f_defer' = [f_defer EXCEPT ![c] = Tail(@)],
           LET m == Head(queue[Remote(c)])
           IN  /\ m.type = "reply"
               /\ f_line' = [f_line EXCEPT ![c] = Append(f_line[c], Letter(m.type, m.name, m.of))]
    PROVE  DuplexInv'
<1>. PICK m : m = Head(queue[Remote(c)])
  OBVIOUS
<1>. PICK y : y = Letter(m.type, m.name, m.of)
  OBVIOUS
<1>. PICK h : h = Head(f_defer[c])
  OBVIOUS
<1> DEFINE x == Mail("request", h.name, h.of, Remote(c))
           line == Append(f_line[c], y)
           B == Open(Peer(c))
<1>1. /\ Places /\ Settled /\ queue \in [Endpoints -> Seq(Queued)] /\ Client(c)
  BY Flat DEF DuplexInv, RemoteTurn, Settled
<1>2. Remote(c) \in Endpoints /\ Peer(c) \in Endpoints /\ Peer(c) # Remote(c) /\ c \in Flats
  BY Addresses
<1>3. /\ m.type = "reply" /\ m.of \in Requests /\ m \in Replies
      /\ y \in Written /\ y \in WrittenReplies
  BY <1>1, FromClientIs
<1>4. f_defer[c] \in Seq(Deferred(c)) /\ f_defer[c] \in Seq(Message)
  BY <1>1, <1>2, Kinds DEF Places, DefersOK
<1>5. h \in Deferred(c)
  BY <1>4
<1>6. /\ h.type = "request" /\ h.name = named[c] /\ h.of[1] = c /\ h.of \in Requests /\ h \in Message
      /\ h = Letter("request", h.name, h.of)
  <2>1. h \in Message /\ h.type = "request" /\ h.name = named[c] /\ h.of[1] = c
    BY <1>5 DEF Deferred
  <2>2. h = Letter(h.type, h.name, h.of) /\ h.of \in Requests
    BY <2>1 DEF Message, Letter
  <2>3. QED
    BY <2>1, <2>2
<1>7. x \in Queued /\ x \in ToClient(c) /\ x.type = "request" /\ x.from = Remote(c) /\ x \in Asks
  <2>1. h.name \in Names \cup {"relay"}
    BY <1>6 DEF Message
  <2>2. QED
    BY <1>2, <1>6, <2>1 DEF ToClient, Queued, Asks, Mail
<1>8. queue' = Passed(queue, {Remote(c)}, B, x)
  <2>1. queue' = Sent(Taken(queue, Remote(c)), Remote(c), Peer(c), Letter("request", h.name, h.of))
    BY <1>6
  <2>2. Sent(Taken(queue, Remote(c)), Remote(c), Peer(c), Letter("request", h.name, h.of))
          = Passed(queue, {Remote(c)}, Open(Peer(c)), Mail("request", h.name, h.of, Remote(c)))
    BY <1>1, <1>2, TakenSentDoes
  <2>3. QED
    BY <2>1, <2>2
<1>9. B \subseteq {Peer(c)} /\ (Receiving(Peer(c)) => B = {Peer(c)})
  BY DEF Open
<1> HIDE DEF x, B
<1>10. /\ QueuesOK'
       /\ \A d \in Clients \ {c} : HopStill(d)
       /\ Awaiting(c)' = Awaiting(c) /\ Relaying(c)' = Relaying(c)
       /\ Upstreaming(c)' = Upstreaming(c) /\ Returning(c)' = Returning(c)
       /\ Asking(c)' = Asking(c) + Came(Peer(c), B, x, Asks)
       /\ Answering(c)' = Answering(c) - One(m, Replies)
       /\ Relaying(c)' + Upstreaming(c)' <= 1
  <2>1. Belongs(x, B)
    BY <1>7, <1>9, Kinds DEF Belongs
  <2>2. QED
    BY <1>7, <1>8, <1>9, <2>1, RemoteTakes
<1>11. f_line[c] \in Seq(Written) /\ f_line[c] \in Seq(Message)
  BY <1>1, <1>2, Kinds DEF Places, LinesOK
<1>12. y \in Message /\ line \in Seq(Written) /\ line \in Seq(Message)
  <2>1. y \in Message
    BY <1>3 DEF Written
  <2>2. QED
    BY <1>3, <1>11, <2>1
<1>13. /\ Num(f_line[c], WrittenReplies) \in Nat
       /\ Num(line, WrittenReplies) = Num(f_line[c], WrittenReplies) + 1
  <2>1. /\ Num(f_line[c], WrittenReplies) \in Nat
        /\ Num(line, WrittenReplies) = Num(f_line[c], WrittenReplies) + One(y, WrittenReplies)
    BY <1>3, <1>11, NumAppend
  <2>2. One(y, WrittenReplies) = 1
    BY <1>3 DEF One
  <2>3. QED
    BY <2>1, <2>2
<1>14. LinesOK' /\ f_line'[c] = line
  <2>1. f_line' = [f_line EXCEPT ![c] = line]
    OBVIOUS
  <2> HIDE DEF line
  <2>2. line \in Seq(LineKind(c))
    BY <1>12, Kinds
  <2>3. QED
    BY <1>1, <1>2, <1>12, <2>1, <2>2, LinesSet
<1> HIDE DEF line
<1>15. DefersOK' /\ f_defer'[c] = Tail(f_defer[c]) /\ Len(f_defer[c]) \in Nat /\ Len(f_defer'[c]) = Len(f_defer[c]) - 1
  <2> DEFINE e == Tail(f_defer[c])
  <2>1. e \in Seq(Deferred(c)) /\ e \in Seq(Message) /\ Len(f_defer[c]) \in Nat /\ Len(e) = Len(f_defer[c]) - 1
    BY <1>4
  <2>2. f_defer' = [f_defer EXCEPT ![c] = e]
    OBVIOUS
  <2> HIDE DEF e
  <2>3. e \in Seq(DeferKind(c))
    BY <2>1, Kinds
  <2>4. DefersOK' /\ f_defer'[c] = e
    BY <1>1, <1>2, <2>1, <2>2, <2>3, DefersSet
  <2>5. QED
    BY <2>1, <2>4 DEF e
<1>16. StatesOK' /\ Outside(c)' = Outside(c) /\ (f_state'[c] # f_state[c] => f_state'[c] = "crashing")
       /\ (Alive(c)' => Alive(c) /\ Receiving(Peer(c)))
  <2>1. f_state \in [Flats -> States]
    BY <1>1 DEF Places, StatesOK
  <2>2. f_state' \in [Flats -> States]
    BY <2>1 DEF States
  <2>3. StatesOK' /\ Outside(c)' = Outside(c)
    BY <1>1, <2>2 DEF Places, StatesOK, RemoteTurn, Outside
  <2>4. Receiving(Peer(c)) => f_state' = f_state
    OBVIOUS
  <2>5. ~Receiving(Peer(c)) => f_state'[c] = "crashing"
    BY <1>2, <2>1
  <2>6. QED
    BY <2>3, <2>4, <2>5 DEF Alive
<1>17. "outside" \notin f_deferring'[c] => f_defer'[c] = << >>
  BY DEF DuplexInv, Ends
<1>18. ASSUME Alive(c)' PROVE Hop(c)' /\ Ledger(c)'
  <2>1. Hop(c) /\ Ledger(c)
    BY <1>1, <1>16, <1>18 DEF Client
  <2>2. /\ Awaiting(c) = 0 /\ Asking(c) = 0 /\ Answering(c) = 1 /\ Outside(c) = 1
        /\ Relaying(c) = 0 /\ Upstreaming(c) = 0 /\ Returning(c) = 0
    BY <1>1, <1>3, <2>1, ClientAnswered
  <2>3. Came(Peer(c), B, x, Asks) = 1 /\ One(m, Replies) = 1
    BY <1>3, <1>7, <1>9, <1>16, <1>18 DEF Came, One
  <2>4. Counted(c, 1, 0, 0, 0, 0, 0)
    BY <1>10, <2>2, <2>3 DEF Counted
  <2>5. Hop(c)'
    <3>1. Outside(c)' = 1
      BY <1>16, <2>2
    <3>2. QED
      BY <2>4, <3>1, HopRemote
  <2>6. Ledger(c)'
    <3>1. Num(got[c], ReceivedReplies) + Num(f_line[c], WrittenReplies) + Len(f_defer[c]) + 1 = sent[c]
      BY <2>1, <2>2 DEF Ledger
    <3>2. Num(got[c], ReceivedReplies) \in Nat /\ sent[c] \in Nat
      <4>1. got[c] \in Seq(Received)
        BY <1>1 DEF Places, TalksOK
      <4>2. Num(got[c], ReceivedReplies) \in Nat
        BY <4>1, NumIs
      <4>3. sent[c] \in Nat
        BY <1>1 DEF Places, TalksOK
      <4>4. QED
        BY <4>2, <4>3
    <3>3. Num(got[c], ReceivedReplies) + Num(line, WrittenReplies) + Len(f_defer'[c]) + 1 = sent[c]
      BY <1>13, <1>15, <3>1, <3>2
    <3>4. got' = got /\ sent' = sent
      BY DEF RemoteTurn
    <3>5. QED
      BY <1>14, <1>16, <2>2, <3>3, <3>4 DEF Ledger
  <2>7. QED
    BY <2>5, <2>6
<1>19. Client(c)'
  BY <1>10, <1>18, ClientAfter
<1>20. QED
  BY <1>10, <1>14, <1>15, <1>16, <1>17, <1>19, RemoteKeeps

LEMMA RunRemoteClient ==
    ASSUME DuplexInv, NEW c \in Clients, RunRemote(c)
    PROVE  DuplexInv'
<1>. PICK m : m = Head(queue[Remote(c)])
  OBVIOUS
<1>. PICK y : y = Letter(m.type, m.name, m.of)
  OBVIOUS
<1> DEFINE q == Taken(queue, Remote(c))
           line == Append(f_line[c], y)
<1>1. /\ queue[Remote(c)] # << >> /\ UNCHANGED <<size, flush, named, f_replies, closed, sent, got, asked>>
      /\ IF f_state[c] = "crashing"
         THEN queue' = q /\ UNCHANGED <<f_line, f_deferring, f_defer, f_state>>
         ELSE IF m.type = "reply"
         THEN ReplyWritten(c, q, line)
         ELSE /\ queue' = q
              /\ f_line' = [f_line EXCEPT ![c] = line]
              /\ f_deferring' = IF m.type = "request" THEN [f_deferring EXCEPT ![c] = @ \cup {"own"}] ELSE f_deferring
              /\ UNCHANGED <<f_defer, f_state>>
  BY DEF RunRemote, Taken, Letter
<1>2. /\ Places /\ c \in Flats /\ f_state \in [Flats -> States] /\ f_deferring \in [Flats -> SUBSET {"own", "outside"}]
      /\ f_line \in [Flats -> Seq(Message)] /\ f_defer \in [Flats -> Seq(Message)] /\ f_defer[c] \in Seq(Deferred(c))
  BY Addresses, Kinds DEF DuplexInv, Places, StatesOK, LinesOK, DefersOK
<1>3. m.type \in {"reply", "inform"} /\ line \in Seq(Message)
  <2>1. m.type \in {"reply", "inform"} /\ y \in Written
    BY <1>1, <1>2, FromClientIs
  <2>2. y \in Message
    BY <2>1 DEF Written
  <2>3. QED
    BY <1>2, <2>1, <2>2
<1>4. CASE f_state[c] = "crashing"
  <2>1. RemoteTurn(c)
    BY <1>1, <1>4 DEF RemoteTurn
  <2> HIDE DEF line
  <2>2. QED
    BY <1>1, <1>4, <2>1, RemoteInform
<1>5. CASE f_state[c] # "crashing" /\ m.type # "reply"
  <2>1. queue' = q /\ f_line' = [f_line EXCEPT ![c] = line] /\ UNCHANGED <<f_deferring, f_defer, f_state>>
    BY <1>1, <1>3, <1>5
  <2>2. RemoteTurn(c)
    BY <1>1, <1>2, <2>1 DEF RemoteTurn
  <2>3. QED
    BY <1>1, <1>5, <2>1, <2>2, RemoteInform
<1>6. CASE f_state[c] # "crashing" /\ m.type = "reply" /\ f_defer[c] = << >>
  <2> DEFINE z == << >>
  <2>1. queue' = q /\ f_line' = [f_line EXCEPT ![c] = line] /\ UNCHANGED <<f_defer, f_state>>
        /\ f_deferring' = [f_deferring EXCEPT ![c] = @ \ {"outside"}]
    BY <1>1, <1>6 DEF ReplyWritten
  <2>2. line \o z = line /\ z \in Seq(WrittenReplies) /\ Len(z) = Len(f_defer[c]) /\ z = f_defer[c]
    BY <1>3, <1>6
  <2> HIDE DEF z
  <2>3. f_defer' = [f_defer EXCEPT ![c] = z] /\ f_line' = [f_line EXCEPT ![c] = line \o z]
    BY <1>2, <2>1, <2>2
  <2>4. f_defer' = [f_defer EXCEPT ![c] = << >>]
    BY <2>3 DEF z
  <2>5. RemoteTurn(c)
    BY <1>1, <1>2, <2>1 DEF RemoteTurn
  <2>6. QED
    BY <1>1, <1>6, <2>1, <2>2, <2>3, <2>4, <2>5, RemoteFrees
<1>7. CASE f_state[c] # "crashing" /\ m.type = "reply" /\ f_defer[c] # << >> /\ Len(f_defer[c]) > flush
  <2> DEFINE z == [i \in 1 .. Len(f_defer[c]) |-> [f_defer[c][i] EXCEPT !.type = "reply"]]
  <2>1. queue' = q /\ f_line' = [f_line EXCEPT ![c] = line \o z] /\ UNCHANGED f_state
        /\ f_defer' = [f_defer EXCEPT ![c] = << >>]
        /\ f_deferring' = [f_deferring EXCEPT ![c] = @ \ {"outside"}]
    BY <1>1, <1>7 DEF ReplyWritten, NextDeferred
  <2>2. z \in Seq(WrittenReplies) /\ Len(z) = Len(f_defer[c])
    <3> DEFINE n == Len(f_defer[c])
    <3>1. n \in Nat
      BY <1>2
    <3>2. \A i \in 1 .. n : [f_defer[c][i] EXCEPT !.type = "reply"] \in WrittenReplies
      <4> SUFFICES ASSUME NEW i \in 1 .. n PROVE [f_defer[c][i] EXCEPT !.type = "reply"] \in WrittenReplies
        OBVIOUS
      <4>1. f_defer[c][i] \in Message
        BY <1>2
      <4>2. QED
        BY <4>1 DEF WrittenReplies, Message
    <3> HIDE DEF n
    <3>3. z \in [1 .. n -> WrittenReplies]
      BY <3>2 DEF n
    <3> HIDE DEF z
    <3>4. z \in Seq(WrittenReplies) /\ Len(z) = n
      BY <3>1, <3>3
    <3>5. QED
      BY <3>4 DEF n
  <2> HIDE DEF z
  <2>3. RemoteTurn(c)
    BY <1>1, <1>2, <2>1 DEF RemoteTurn
  <2>4. QED
    BY <1>1, <1>7, <2>1, <2>2, <2>3, RemoteFrees
<1>8. CASE f_state[c] # "crashing" /\ m.type = "reply" /\ f_defer[c] # << >> /\ ~(Len(f_defer[c]) > flush)
  <2> HIDE DEF q, line
  <2>1. NextDeferred(c, q, line)
    BY <1>1, <1>8 DEF ReplyWritten
  <2>2. /\ f_line' = [f_line EXCEPT ![c] = line]
        /\ f_defer' = [f_defer EXCEPT ![c] = Tail(@)]
        /\ queue' = Sent(q, Remote(c), Peer(c), Head(f_defer[c]))
        /\ f_state' = IF Receiving(Peer(c)) THEN f_state ELSE [f_state EXCEPT ![c] = "crashing"]
        /\ UNCHANGED f_deferring
    BY <1>8, <2>1, Zenon DEF NextDeferred
  <2>3. \A d \in Flats \ {c} : f_state'[d] = f_state[d]
    BY <1>2, <2>2
  <2>4. RemoteTurn(c)
    BY <1>1, <1>2, <2>2, <2>3 DEF RemoteTurn
  <2>5. QED
    BY <1>1, <1>8, <2>2, <2>4, RemoteNext DEF q, line
<1>9. QED
  BY <1>4, <1>5, <1>6, <1>7, <1>8

-----------------------------------------------------------------------------
(* What the upstream server does.                                           *)

\* Queues other than those of the upstream server stay, and no request comes
\* to it or goes.
LEMMA QueuesSame ==
    ASSUME \A z \in Endpoints \ {Remote(U), Peer(U)} : queue'[z] = queue[z],
           \A d \in Clients : Relaying(d)' = Relaying(d), UNCHANGED <<size, f_replies>>
    PROVE  \A d \in Clients : HopStill(d)
<1> SUFFICES ASSUME NEW d \in Clients PROVE HopStill(d)
  OBVIOUS
<1>1. /\ Peer(d) \in Endpoints \ {Remote(U), Peer(U)} /\ Remote(d) \in Endpoints \ {Remote(U), Peer(U)}
  BY Addresses
<1>2. queue'[Peer(d)] = queue[Peer(d)] /\ queue'[Remote(d)] = queue[Remote(d)]
  BY <1>1
<1>3. Asking(d)' = Asking(d) /\ Answering(d)' = Answering(d) /\ Returning(d)' = Returning(d)
  BY <1>2 DEF Asking, Answering, Returning
<1>4. QED
  BY <1>3, SlotsStay DEF HopStill

\* A step of the upstream server.
UpstreamTurn ==
  /\ UNCHANGED <<size, flush, named, f_state, f_defer, f_replies, closed, sent, got>>
  /\ \A d \in Flats \ {U} : f_deferring'[d] = f_deferring[d] /\ f_line'[d] = f_line[d]

LEMMA UpstreamKeeps ==
    ASSUME DuplexInv, UpstreamTurn, QueuesOK', LinesOK', StatesOK', TalksOK', \A d \in Clients : HopStill(d)
    PROVE  DuplexInv'
<1>1. Places /\ Settled /\ UNCHANGED f_replies /\ UNCHANGED f_defer /\ Ends
  BY DEF DuplexInv, UpstreamTurn, Settled
<1>2. SetupOK' /\ SlotsOK' /\ DefersOK'
  BY <1>1, PlacesStay
<1>3. \A d \in Clients : d \in Flats \ {U}
  BY Addresses
<1>4. Ends'
  BY <1>1, <1>3 DEF Ends, UpstreamTurn
<1>5. ASSUME NEW d \in Clients PROVE Client(d)'
  <2>1. Client(d) /\ HopStill(d)
    BY DEF DuplexInv
  <2>2. Still(d)
    BY <1>3, <2>1, StillIs DEF UpstreamTurn
  <2>3. QED
    BY <2>1, <2>2, StillClient
<1>6. QED
  BY <1>2, <1>4, <1>5 DEF DuplexInv, Places

LEMMA RunRemoteUpstream ==
    ASSUME DuplexInv, RunRemote(U)
    PROVE  DuplexInv'
<1>. PICK m : m = Head(queue[Remote(U)])
  OBVIOUS
<1>. PICK y : y = Letter(m.type, m.name, m.of)
  OBVIOUS
<1> DEFINE q == Taken(queue, Remote(U))
           line == Append(f_line[U], y)
           x == Mail("inform", "relay", m.of, Remote(U))
<1>1. /\ queue[Remote(U)] # << >> /\ UNCHANGED <<size, flush, named, f_replies, closed, sent, got, asked>>
      /\ IF f_state[U] = "crashing"
         THEN queue' = q /\ UNCHANGED <<f_line, f_deferring, f_defer, f_state>>
         ELSE IF m.type = "reply"
         THEN ReplyWritten(U, q, line)
         ELSE /\ queue' = q
              /\ f_line' = [f_line EXCEPT ![U] = line]
              /\ f_deferring' = IF m.type = "request" THEN [f_deferring EXCEPT ![U] = @ \cup {"own"}] ELSE f_deferring
              /\ UNCHANGED <<f_defer, f_state>>
  BY DEF RunRemote, Taken, Letter
<1>2. /\ Places /\ Settled /\ U \in Flats /\ Remote(U) \in Endpoints /\ queue \in [Endpoints -> Seq(Queued)]
      /\ f_deferring \in [Flats -> SUBSET {"own", "outside"}] /\ f_line[U] \in Seq(Relayed) /\ f_line[U] \in Seq(Message)
      /\ f_line \in [Flats -> Seq(Message)] /\ StatesOK
  BY <1>1, Flat, Addresses, Kinds DEF DuplexInv, Places, StatesOK, LinesOK, Settled
<1>3. m \in FromUpstream
  BY <1>2, <1>1, FirstOf, Kinds
<1>4. m.type = "request" /\ y \in Relayed /\ y \in Message
  <2>1. m \in Queued /\ m.type = "request" /\ m.name = named[m.of[1]]
    BY <1>3 DEF FromUpstream
  <2>2. y \in Message /\ y.type = "request" /\ y.name = m.name /\ y.of = m.of
    BY <2>1 DEF Message, Queued, Letter
  <2>3. QED
    BY <2>1, <2>2 DEF Relayed
<1>5. queue' = q /\ UNCHANGED <<f_defer, f_state>>
  BY <1>1, <1>4
<1>6. queue' = Passed(queue, {Remote(U)}, {}, x)
  BY <1>2, <1>5, TakenDoes
<1>7. QueuesOK'
  <2>1. Fits(queue, {Remote(U)}, {}) /\ Belongs(x, {})
    BY <1>1 DEF Fits, Belongs
  <2> HIDE DEF x
  <2>2. QED
    BY <1>2, <1>6, <2>1, QueuesPassed
<1>8. \A d \in Clients : HopStill(d)
  <2>1. \A z \in Endpoints \ {Remote(U)} : queue'[z] = queue[z]
    BY <1>2, <1>5 DEF Taken
  <2>2. Peer(U) \in Endpoints \ {Remote(U)}
    BY Addresses
  <2>3. \A d \in Clients : Relaying(d)' = Relaying(d)
    BY <2>1, <2>2 DEF Relaying
  <2>4. QED
    BY <1>1, <2>1, <2>3, QueuesSame
<1>9. line \in Seq(Relayed) /\ line \in Seq(Message)
  BY <1>2, <1>4
<1> HIDE DEF line
<1>10. LinesOK' /\ \A d \in Flats \ {U} : f_line'[d] = f_line[d]
  <2>1. CASE UNCHANGED f_line
    BY <1>2, <2>1, PlacesStay
  <2>2. CASE f_line' = [f_line EXCEPT ![U] = line]
    <3>1. line \in Seq(LineKind(U))
      BY <1>9, Kinds
    <3>2. QED
      BY <1>2, <1>9, <2>2, <3>1, LinesSet
  <2>3. QED
    BY <1>1, <1>4, <2>1, <2>2
<1>11. f_deferring' \in [Flats -> SUBSET {"own", "outside"}] /\ \A d \in Flats \ {U} : f_deferring'[d] = f_deferring[d]
  BY <1>1, <1>2, <1>4
<1>12. StatesOK'
  BY <1>1, <1>2, <1>5, <1>11 DEF StatesOK
<1>13. TalksOK'
  <2>1. UNCHANGED <<sent, got, asked>>
    BY <1>1
  <2>2. QED
    BY <1>2, <2>1, PlacesStay
<1>14. UpstreamTurn
  BY <1>1, <1>5, <1>10, <1>11 DEF UpstreamTurn
<1>15. QED
  BY <1>7, <1>8, <1>10, <1>12, <1>13, <1>14, UpstreamKeeps

LEMMA ReadResponseKeeps ==
    ASSUME DuplexInv, NEW type \in {"reply", "inform"}, ReadResponse(type)
    PROVE  DuplexInv'
<1>. PICK m : m = Head(asked)
  OBVIOUS
<1> DEFINE x == Mail(type, m.name, m.of, Remote(U))
<1>1. /\ asked # << >>
      /\ queue' = Sent(queue, Remote(U), Peer(U), Letter(type, m.name, m.of))
      /\ IF type = "reply"
         THEN /\ asked' = Tail(asked)
              /\ f_deferring' = [f_deferring EXCEPT ![U] = @ \ {"own"}]
         ELSE /\ asked' = [asked EXCEPT ![1].informed = TRUE]
              /\ UNCHANGED f_deferring
      /\ UNCHANGED <<size, flush, named, f_state, f_defer, f_replies, f_line, closed, sent, got>>
  BY DEF ReadResponse, U, Letter
<1>2. /\ Places /\ Settled /\ U \in Flats /\ Remote(U) \in Endpoints /\ Peer(U) \in Endpoints /\ Peer(U) # Remote(U)
      /\ f_deferring \in [Flats -> SUBSET {"own", "outside"}] /\ asked \in Seq(Questions) /\ StatesOK /\ TalksOK
      /\ queue \in [Endpoints -> Seq(Queued)] /\ named \in [Clients -> Names]
  BY <1>1, Flat, Addresses DEF DuplexInv, Places, StatesOK, TalksOK, Settled
<1>3. m \in Questions
  BY <1>1, <1>2
<1>4. m.of \in Requests /\ m.name \in Names /\ m.name = named[m.of[1]] /\ m.informed \in BOOLEAN
  BY <1>3 DEF Questions
<1>5. x \in Queued /\ x \in ToUpstream /\ x.type # "request"
  BY <1>2, <1>4 DEF ToUpstream, Queued, Mail
<1>6. queue' = Passed(queue, {}, Open(Peer(U)), x)
  <2>1. Sent(queue, Remote(U), Peer(U), Letter(type, m.name, m.of))
          = Passed(queue, {}, Open(Peer(U)), Mail(type, m.name, m.of, Remote(U)))
    BY <1>2, SentDoes
  <2>2. QED
    BY <1>1, <2>1
<1> HIDE DEF x
<1>7. QueuesOK'
  <2>1. Fits(queue, {}, Open(Peer(U))) /\ Belongs(x, Open(Peer(U)))
    BY <1>5, Kinds DEF Fits, Belongs, Open
  <2>2. QED
    BY <1>2, <1>6, <2>1, QueuesPassed
<1>8. \A d \in Clients : HopStill(d)
  <2> DEFINE A == {}
             B == Open(Peer(U))
  <2>1. /\ Fits(queue, A, B) /\ Elsewhere(A, B, x)
        /\ \A d \in Clients : /\ Gone(Peer(U), queue, A, AsksFrom(Peer(d))) = 0
                              /\ Came(Peer(U), B, x, AsksFrom(Peer(d))) = 0
        /\ B \subseteq {Peer(U)}
    BY <1>5, <1>6 DEF Fits, Elsewhere, Gone, Came, AsksFrom, Open
  <2>2. \A z \in Endpoints \ {Peer(U)} : queue'[z] = queue[z]
    BY <1>6, <2>1 DEF Passed
  <2> HIDE DEF A, B
  <2>3. \A d \in Clients : Relaying(d)' =
               Relaying(d) - Gone(Peer(U), queue, A, AsksFrom(Peer(d))) + Came(Peer(U), B, x, AsksFrom(Peer(d)))
    BY <1>2, <1>5, <2>1, NumbersChange
  <2>4. \A d \in Clients : Relaying(d)' = Relaying(d)
    <3>1. \A d \in Clients : Relaying(d)' = Relaying(d) - 0 + 0 /\ Relaying(d) \in Nat
      BY <1>2, <2>1, <2>3, NumbersAre
    <3>2. QED
      BY <3>1
  <2>5. QED
    BY <1>1, <2>2, <2>4, QueuesSame
<1>9. asked' \in Seq(Questions)
  <2>1. Questions' = Questions
    BY <1>2, KindsStay DEF Settled
  <2>2. [m EXCEPT !.informed = TRUE] \in Questions
    BY <1>3 DEF Questions
  <2>3. asked' = Tail(asked) \/ asked' = [asked EXCEPT ![1] = [m EXCEPT !.informed = TRUE]]
    BY <1>1, <1>2
  <2>4. QED
    <3> DEFINE n == Len(asked)
               v == [m EXCEPT !.informed = TRUE]
    <3>1. n \in Nat /\ asked \in [1 .. n -> Questions] /\ Tail(asked) \in Seq(Questions)
      BY <1>1, <1>2
    <3>2. v \in Questions
      BY <2>2
    <3> HIDE DEF v
    <3>3. ASSUME asked' = [asked EXCEPT ![1] = v] PROVE asked' \in Seq(Questions)
      <4> HIDE DEF n
      <4>1. asked' \in [1 .. n -> Questions]
        BY <3>1, <3>2, <3>3
      <4>2. QED
        BY <3>1, <4>1
    <3>4. QED
      BY <2>3, <3>1, <3>3 DEF v
<1>10. TalksOK'
  <2>1. Questions' = Questions
    BY <1>2, KindsStay DEF Settled
  <2>2. QED
    BY <1>1, <1>2, <1>9, <2>1 DEF TalksOK
<1>11. f_deferring' \in [Flats -> SUBSET {"own", "outside"}] /\ \A d \in Flats \ {U} : f_deferring'[d] = f_deferring[d]
  BY <1>1, <1>2
<1>12. StatesOK'
  BY <1>1, <1>2, <1>11 DEF StatesOK
<1>13. LinesOK'
  <2>1. UNCHANGED f_line
    BY <1>1
  <2>2. QED
    BY <1>2, <2>1, PlacesStay
<1>14. UpstreamTurn
  BY <1>1, <1>11 DEF UpstreamTurn
<1>15. QED
  BY <1>7, <1>8, <1>10, <1>12, <1>13, <1>14, UpstreamKeeps

-----------------------------------------------------------------------------
(* Lines, and requests.                                                     *)

LEMMA AllStill ==
    ASSUME UNCHANGED queue, UNCHANGED <<size, f_replies>>
    PROVE  \A d \in Clients : HopStill(d)
BY QueuesStay, SlotsStay DEF HopStill

LEMMA WriteLineUpstream ==
    ASSUME DuplexInv, WriteLine(U)
    PROVE  DuplexInv'
<1>. PICK m : m = Head(f_line[U])
  OBVIOUS
<1> DEFINE y == [name |-> m.name, of |-> m.of, informed |-> FALSE]
           line == Tail(f_line[U])
<1>1. /\ f_line[U] # << >> /\ f_line' = [f_line EXCEPT ![U] = line] /\ asked' = Append(asked, y) /\ UNCHANGED got
      /\ UNCHANGED <<size, flush, named, f_state, f_deferring, f_defer, f_replies, closed, queue, sent>>
  BY DEF WriteLine, U
<1>2. /\ Places /\ Settled /\ U \in Flats /\ f_line[U] \in Seq(Relayed) /\ f_line[U] \in Seq(Message)
      /\ TalksOK /\ named \in [Clients -> Names]
  BY <1>1, Flat, Addresses, Kinds DEF DuplexInv, Places, LinesOK, Settled
<1>3. m \in Relayed
  BY <1>1, <1>2
<1>4. y \in Questions
  <2>1. m \in Message /\ m.name = named[m.of[1]]
    BY <1>3 DEF Relayed
  <2>2. m.of \in Requests /\ m.of[1] \in Clients
    BY <2>1 DEF Message, Requests
  <2>3. m.name \in Names
    BY <1>2, <2>1, <2>2
  <2>4. QED
    BY <2>1, <2>2, <2>3 DEF Questions
<1>5. line \in Seq(Relayed) /\ line \in Seq(Message)
  BY <1>1, <1>2
<1> HIDE DEF y, line
<1>6. LinesOK' /\ \A d \in Flats \ {U} : f_line'[d] = f_line[d]
  <2>1. line \in Seq(LineKind(U))
    BY <1>5, Kinds
  <2>2. QED
    BY <1>1, <1>2, <1>5, <2>1, LinesSet
<1>7. TalksOK'
  <2>1. Questions' = Questions
    BY <1>2, KindsStay DEF Settled
  <2>2. Append(asked, y) \in Seq(Questions)
    BY <1>2, <1>4 DEF TalksOK
  <2>3. QED
    BY <1>1, <1>2, <2>1, <2>2 DEF TalksOK
<1>8. QueuesOK' /\ StatesOK'
  <2>1. UNCHANGED queue /\ UNCHANGED <<f_state, closed, f_deferring>>
    BY <1>1
  <2>2. QED
    BY <1>2, <2>1, PlacesStay
<1>9. \A d \in Clients : HopStill(d)
  BY <1>1, AllStill
<1>10. UpstreamTurn
  BY <1>1, <1>6 DEF UpstreamTurn
<1>11. QED
  BY <1>6, <1>7, <1>8, <1>9, <1>10, UpstreamKeeps

LEMMA WriteLineClient ==
    ASSUME DuplexInv, NEW c \in Clients, WriteLine(c)
    PROVE  DuplexInv'
<1>. PICK m : m = Head(f_line[c])
  OBVIOUS
<1> DEFINE y == [type |-> m.type, of |-> m.of]
           line == Tail(f_line[c])
           given == Append(got[c], y)
<1>1. /\ f_line[c] # << >> /\ f_line' = [f_line EXCEPT ![c] = line] /\ got' = [got EXCEPT ![c] = given] /\ UNCHANGED asked
      /\ UNCHANGED <<size, flush, named, f_state, f_deferring, f_defer, f_replies, closed, queue, sent>>
  BY Addresses DEF WriteLine, U
<1>2. /\ Places /\ Settled /\ c \in Flats /\ f_line[c] \in Seq(Written) /\ f_line[c] \in Seq(Message)
      /\ TalksOK /\ got[c] \in Seq(Received) /\ got \in [Clients -> Seq(Received)] /\ Ends /\ Client(c)
  BY <1>1, Addresses, Kinds DEF DuplexInv, Places, LinesOK, Settled, TalksOK
<1>3. m \in Written
  BY <1>1, <1>2
<1>4. y \in Received /\ (y \in ReceivedReplies <=> m \in WrittenReplies)
  <2>1. m \in Message /\ m.type # "request"
    BY <1>3 DEF Written
  <2>2. m.type \in {"reply", "inform"} /\ m.of \in Requests
    BY <2>1 DEF Message
  <2>3. QED
    BY <2>1, <2>2 DEF Received, ReceivedReplies, WrittenReplies
<1>5. line \in Seq(Written) /\ line \in Seq(Message) /\ given \in Seq(Received)
  BY <1>1, <1>2, <1>4
<1>6. /\ Num(f_line[c], WrittenReplies) \in Nat /\ Num(line, WrittenReplies) \in Nat
      /\ Num(line, WrittenReplies) = Num(f_line[c], WrittenReplies) - One(m, WrittenReplies)
  BY <1>1, <1>2, NumTail
<1>7. Num(got[c], ReceivedReplies) \in Nat /\ Num(given, ReceivedReplies) = Num(got[c], ReceivedReplies) + One(y, ReceivedReplies)
  BY <1>2, <1>4, NumAppend
<1>8. One(m, WrittenReplies) = One(y, ReceivedReplies) /\ One(y, ReceivedReplies) \in Nat
  BY <1>4 DEF One
<1> HIDE DEF y, line, given
<1>9. LinesOK' /\ f_line'[c] = line /\ \A d \in Flats \ {c} : f_line'[d] = f_line[d]
  <2>1. line \in Seq(LineKind(c))
    BY <1>5, Kinds
  <2>2. QED
    BY <1>1, <1>2, <1>5, <2>1, LinesSet
<1>10. TalksOK' /\ got'[c] = given
  <2>1. UNCHANGED named
    BY <1>1
  <2>2. Questions' = Questions
    BY <2>1, KindsStay
  <2>3. got' \in [Clients -> Seq(Received)] /\ got'[c] = given
    BY <1>1, <1>2, <1>5
  <2>4. QED
    BY <1>1, <1>2, <2>2, <2>3 DEF TalksOK
<1>11. SetupOK' /\ QueuesOK' /\ SlotsOK' /\ DefersOK' /\ StatesOK'
  <2>1. UNCHANGED queue /\ UNCHANGED f_replies /\ UNCHANGED f_defer /\ UNCHANGED <<f_state, closed, f_deferring>>
    BY <1>1
  <2>2. QED
    BY <1>2, <2>1, PlacesStay
<1>12. Ends'
  BY <1>1, <1>2 DEF Ends
<1>13. \A d \in Clients : HopStill(d)
  BY <1>1, AllStill
<1>14. ASSUME NEW d \in Clients \ {c} PROVE Client(d)'
  <2>1. Client(d) /\ HopStill(d) /\ f_line'[d] = f_line[d] /\ got'[d] = got[d]
    BY <1>1, <1>2, <1>9, <1>13, Addresses DEF DuplexInv
  <2>2. Still(d)
    BY <1>1, <2>1, StillIs
  <2>3. QED
    BY <2>1, <2>2, StillClient
<1>15. Client(c)'
  <2>1. HopStill(c) /\ Alive(c)' = Alive(c) /\ Alive(U)' = Alive(U) /\ Outside(c)' = Outside(c) /\ closed' = closed
    BY <1>1, <1>13 DEF Alive, Outside
  <2>2. Relaying(c)' + Upstreaming(c)' <= 1
    BY <1>2, <2>1 DEF Client, HopStill
  <2>3. ASSUME Alive(c) PROVE Hop(c)' /\ Ledger(c)'
    <3>1. Hop(c) /\ Ledger(c)
      BY <1>2, <2>3 DEF Client
    <3>2. Hop(c)'
      BY <2>1, <3>1 DEF Hop, HopStill
    <3>3. Num(given, ReceivedReplies) + Num(line, WrittenReplies) = Num(got[c], ReceivedReplies) + Num(f_line[c], WrittenReplies)
      BY <1>6, <1>7, <1>8
    <3>4. Num(given, ReceivedReplies) + Num(line, WrittenReplies) + Len(f_defer[c]) + Outside(c) = sent[c]
      BY <3>1, <3>3 DEF Ledger
    <3>5. Ledger(c)'
      BY <1>1, <1>9, <1>10, <2>1, <3>4 DEF Ledger
    <3>6. QED
      BY <3>2, <3>5
  <2>4. QED
    BY <2>1, <2>2, <2>3, ClientAfter
<1>16. QED
  BY <1>9, <1>10, <1>11, <1>12, <1>14, <1>15 DEF DuplexInv, Places

\* Whoever sends a request has sent fewer than all may.
LEMMA Fewer ==
    ASSUME Places, NEW c \in Clients, MaySend
    PROVE  sent[c] + 1 \in 1 .. MaxSent
<1> DEFINE R == {r \in Requests : r[2] <= sent[r[1]]}
           S == {c} \X (1 .. MaxSent)
<1>1. sent \in [Clients -> 0 .. MaxSent] /\ MaxSent \in Nat
  BY Constants DEF Places, TalksOK
<1>2. SUFFICES ASSUME sent[c] = MaxSent PROVE FALSE
  BY <1>1
<1>3. IsFiniteSet(1 .. MaxSent) /\ Cardinality(1 .. MaxSent) = MaxSent
  BY <1>1, FS_Interval
<1>4. IsFiniteSet({c}) /\ Cardinality({c}) = 1
  BY FS_Singleton
<1>5. Cardinality(S) = MaxSent
  <2>1. Cardinality(S) = Cardinality({c}) * Cardinality(1 .. MaxSent)
    BY <1>3, <1>4, FS_Product
  <2>2. QED
    BY <1>1, <1>3, <1>4, <2>1
<1>6. IsFiniteSet(R)
  <2>1. IsFiniteSet(Requests)
    BY <1>3, Constants, FS_Product DEF Requests
  <2>2. QED
    BY <2>1, FS_Subset
<1>7. S \subseteq R
  BY <1>1, <1>2 DEF Requests
<1>8. Cardinality(R) < MaxSent
  BY DEF MaySend
<1> HIDE DEF R, S
<1>9. Cardinality(S) <= Cardinality(R)
  BY <1>6, <1>7, FS_Subset
<1>10. Cardinality(R) \in Nat
  BY <1>6, FS_CardinalityType
<1>11. QED
  BY <1>1, <1>5, <1>8, <1>9, <1>10

LEMMA ReadRequestKeeps ==
    ASSUME DuplexInv, NEW c \in Clients, ReadRequest(c)
    PROVE  DuplexInv'
<1>. PICK k : k = sent[c] + 1
  OBVIOUS
<1> DEFINE m == Letter("request", named[c], <<c, k>>)
           x == Mail("request", named[c], <<c, k>>, Remote(c))
<1>1. /\ f_state[c] = "up" /\ MaySend /\ sent' = [sent EXCEPT ![c] = @ + 1]
      /\ IF "outside" \in f_deferring[c]
         THEN f_defer' = [f_defer EXCEPT ![c] = Append(@, m)] /\ UNCHANGED queue
         ELSE queue' = Sent(queue, Remote(c), Peer(c), m) /\ UNCHANGED f_defer
      /\ f_deferring' = [f_deferring EXCEPT ![c] = @ \cup {"outside"}]
      /\ UNCHANGED <<size, flush, named, f_state, f_replies, f_line, closed, got, asked>>
  BY DEF ReadRequest, Letter
<1>2. /\ Places /\ Settled /\ c \in Flats /\ c # U /\ Ends /\ Client(c) /\ StatesOK /\ TalksOK
      /\ Peer(c) \in Endpoints /\ Remote(c) \in Endpoints /\ Peer(c) # Remote(c)
      /\ queue \in [Endpoints -> Seq(Queued)] /\ named[c] \in Names
      /\ f_defer[c] \in Seq(Deferred(c)) /\ f_defer[c] \in Seq(Message)
      /\ sent \in [Clients -> 0 .. MaxSent] /\ MaxSent \in Nat
  <2>1. Places /\ Settled /\ Ends /\ Client(c)
    BY <1>1 DEF DuplexInv, Settled
  <2>2. StatesOK /\ TalksOK /\ DefersOK
    BY <2>1 DEF Places
  <2>3. /\ c \in Flats /\ c # U /\ Peer(c) \in Endpoints /\ Remote(c) \in Endpoints /\ Peer(c) # Remote(c)
        /\ queue \in [Endpoints -> Seq(Queued)] /\ named[c] \in Names
    BY <2>1, Flat, Addresses
  <2>4. f_defer[c] \in Seq(Deferred(c)) /\ f_defer[c] \in Seq(Message)
    BY <2>2, <2>3, Kinds DEF DefersOK
  <2>5. sent \in [Clients -> 0 .. MaxSent] /\ MaxSent \in Nat
    BY <2>2, Constants DEF TalksOK
  <2>6. QED
    BY <2>1, <2>2, <2>3, <2>4, <2>5
<1>3. k \in 1 .. MaxSent /\ sent'[c] = k /\ sent' \in [Clients -> 0 .. MaxSent] /\ sent[c] = k - 1 /\ k \in Nat
  <2>1. k \in 1 .. MaxSent
    BY <1>1, <1>2, Fewer
  <2>2. QED
    BY <1>1, <1>2, <2>1
<1>4. <<c, k>> \in Requests
  BY <1>3 DEF Requests
<1>5. m \in Deferred(c) /\ m \in Message
  BY <1>2, <1>4 DEF Deferred, Message, Letter
<1>6. x \in Queued /\ x \in ToClient(c) /\ x \in Asks /\ x \notin Replies /\ x.from = Remote(c)
  BY <1>2, <1>4 DEF ToClient, Queued, Asks, Replies, Mail
<1>7. StatesOK' /\ f_deferring'[c] = f_deferring[c] \cup {"outside"} /\ \A d \in Flats \ {c} : f_deferring'[d] = f_deferring[d]
  BY <1>1, <1>2 DEF StatesOK
<1>8. Outside(c)' = 1 /\ Alive(c) /\ Alive(c)' /\ ~closed[c] /\ (Alive(U)' <=> Alive(U))
  BY <1>1, <1>2, <1>7 DEF Outside, Alive, Ends
<1>9. TalksOK'
  <2>1. Questions' = Questions
    BY <1>2, KindsStay DEF Settled
  <2>2. QED
    BY <1>1, <1>2, <1>3, <2>1 DEF TalksOK
<1>10. SetupOK' /\ SlotsOK' /\ LinesOK'
  <2>1. UNCHANGED f_replies /\ UNCHANGED f_line
    BY <1>1
  <2>2. QED
    BY <1>2, <2>1, PlacesStay
<1>11. Hop(c) /\ Ledger(c)
  BY <1>2, <1>8 DEF Client
<1>12. /\ Asking(c) \in Nat /\ Awaiting(c) \in Nat /\ Answering(c) \in Nat
       /\ Relaying(c) \in Nat /\ Upstreaming(c) \in Nat /\ Returning(c) \in Nat
  BY <1>2, NumbersAre
<1> HIDE DEF m, x
<1>13. CASE "outside" \in f_deferring[c]
  <2> DEFINE e == Append(f_defer[c], m)
  <2>1. UNCHANGED queue /\ f_defer' = [f_defer EXCEPT ![c] = e] /\ Outside(c) = 1
    BY <1>1, <1>13 DEF Outside
  <2>2. e \in Seq(Deferred(c)) /\ e \in Seq(Message) /\ Len(e) = Len(f_defer[c]) + 1 /\ Len(f_defer[c]) \in Nat
    BY <1>2, <1>5
  <2> HIDE DEF e
  <2>3. DefersOK' /\ f_defer'[c] = e /\ \A d \in Flats \ {c} : f_defer'[d] = f_defer[d]
    <3>1. e \in Seq(DeferKind(c))
      BY <2>2, Kinds
    <3>2. QED
      BY <1>2, <2>1, <2>2, <3>1, DefersSet
  <2>4. QueuesOK'
    BY <1>2, <2>1, PlacesStay
  <2>5. \A d \in Clients : HopStill(d)
    BY <1>1, <2>1, AllStill
  <2>6. Ends'
    <3>1. \A d \in Clients \ {c} : f_defer'[d] = f_defer[d] /\ f_deferring'[d] = f_deferring[d]
      BY <1>7, <2>3, Addresses
    <3>2. "outside" \in f_deferring'[c]
      BY <1>7
    <3>3. QED
      BY <1>1, <1>2, <3>1, <3>2 DEF Ends
  <2>7. ASSUME NEW d \in Clients \ {c} PROVE Client(d)'
    <3>1. /\ Client(d) /\ HopStill(d) /\ f_defer'[d] = f_defer[d] /\ f_deferring'[d] = f_deferring[d]
          /\ sent'[d] = sent[d]
      BY <1>1, <1>2, <1>7, <2>3, <2>5, Addresses DEF DuplexInv
    <3>2. Still(d)
      BY <1>1, <3>1, StillIs
    <3>3. QED
      BY <3>1, <3>2, StillClient
  <2>8. Client(c)'
    <3>1. Relaying(c)' + Upstreaming(c)' <= 1
      BY <1>2, <2>5 DEF Client, HopStill
    <3>2. Hop(c)'
      BY <1>1, <1>8, <1>11, <2>1, <2>5 DEF Hop, HopStill
    <3>3. Num(got[c], ReceivedReplies) + Num(f_line[c], WrittenReplies) + Len(f_defer[c]) + 1 = k - 1
      BY <1>3, <1>11, <2>1 DEF Ledger
    <3>4. Num(got[c], ReceivedReplies) \in Nat /\ Num(f_line[c], WrittenReplies) \in Nat
      <4>1. got[c] \in Seq(Received) /\ f_line[c] \in Seq(Message)
        BY <1>2 DEF Places, TalksOK, LinesOK
      <4>2. QED
        BY <4>1, NumIs
    <3>5. Num(got[c], ReceivedReplies) + Num(f_line[c], WrittenReplies) + Len(e) + 1 = k
      BY <1>3, <2>2, <3>3, <3>4
    <3>6. Ledger(c)'
      BY <1>1, <1>3, <1>8, <2>3, <3>5 DEF Ledger
    <3>7. QED
      BY <3>1, <3>2, <3>6, ClientAfter
  <2>9. QED
    BY <1>7, <1>9, <1>10, <2>3, <2>4, <2>6, <2>7, <2>8 DEF DuplexInv, Places
<1>14. CASE "outside" \notin f_deferring[c]
  <2>1. queue' = Sent(queue, Remote(c), Peer(c), m) /\ UNCHANGED f_defer /\ Outside(c) = 0
    BY <1>1, <1>14 DEF Outside
  <2>2. queue' = Passed(queue, {}, {Peer(c)}, x)
    <3>1. Sent(queue, Remote(c), Peer(c), Letter("request", named[c], <<c, k>>))
            = Passed(queue, {}, Open(Peer(c)), Mail("request", named[c], <<c, k>>, Remote(c)))
      BY <1>2, SentDoes
    <3>2. Open(Peer(c)) = {Peer(c)}
      BY <1>1, <1>8 DEF Open, Receiving, Peer
    <3>3. QED
      BY <2>1, <3>1, <3>2 DEF m, x
  <2> DEFINE A == {}
             B == {Peer(c)}
  <2>3. Fits(queue, A, B) /\ Belongs(x, B) /\ Elsewhere(A, B, x)
    BY <1>6, <2>2, Kinds DEF Fits, Belongs, Elsewhere
  <2>4. \A d \in Clients :
           /\ Gone(Peer(d), queue, A, Asks) = 0 /\ Gone(Remote(d), queue, A, Replies) = 0
           /\ Gone(Peer(U), queue, A, AsksFrom(Peer(d))) = 0 /\ Gone(Peer(d), queue, A, Replies) = 0
           /\ Came(Remote(d), B, x, Replies) = 0 /\ Came(Peer(U), B, x, AsksFrom(Peer(d))) = 0
           /\ Came(Peer(d), B, x, Replies) = 0
           /\ Came(Peer(d), B, x, Asks) = IF d = c THEN 1 ELSE 0
    BY <1>2, <1>6, Addresses DEF Gone, Came
  <2>5. queue' = Passed(queue, A, B, x)
    BY <2>2
  <2> HIDE DEF A, B
  <2>6. QueuesOK'
    BY <1>2, <2>3, <2>5, QueuesPassed
  <2>7. ASSUME NEW d \in Clients
        PROVE  /\ Asking(d)' = Asking(d) + (IF d = c THEN 1 ELSE 0) /\ Answering(d)' = Answering(d)
               /\ Relaying(d)' = Relaying(d) /\ Returning(d)' = Returning(d)
    <3>1. Asking(d) \in Nat /\ Answering(d) \in Nat /\ Relaying(d) \in Nat /\ Returning(d) \in Nat
      BY <1>2, NumbersAre
    <3>2. /\ Asking(d)' = Asking(d) - Gone(Peer(d), queue, A, Asks) + Came(Peer(d), B, x, Asks)
          /\ Answering(d)' = Answering(d) - Gone(Remote(d), queue, A, Replies) + Came(Remote(d), B, x, Replies)
          /\ Relaying(d)' =
               Relaying(d) - Gone(Peer(U), queue, A, AsksFrom(Peer(d))) + Came(Peer(U), B, x, AsksFrom(Peer(d)))
          /\ Returning(d)' = Returning(d) - Gone(Peer(d), queue, A, Replies) + Came(Peer(d), B, x, Replies)
      BY <1>2, <1>6, <2>3, NumbersChange
    <3>3. QED
      BY <2>4, <3>1, <3>2
  <2>8. \A d \in Clients : Awaiting(d)' = Awaiting(d) /\ Upstreaming(d)' = Upstreaming(d)
    BY <1>1, SlotsStay
  <2>9. DefersOK'
    BY <1>2, <2>1, PlacesStay
  <2>10. Ends'
    <3>1. \A d \in Clients \ {c} : f_deferring'[d] = f_deferring[d]
      BY <1>7, Addresses
    <3>2. "outside" \in f_deferring'[c]
      BY <1>7
    <3>3. QED
      BY <1>1, <1>2, <2>1, <3>1, <3>2 DEF Ends
  <2>11. ASSUME NEW d \in Clients \ {c} PROVE Client(d)'
    <3>1. Asking(d) \in Nat
      BY <1>2, NumbersAre
    <3>2. HopStill(d)
      BY <2>7, <2>8, <3>1 DEF HopStill
    <3>3. Client(d) /\ f_deferring'[d] = f_deferring[d] /\ sent'[d] = sent[d]
      BY <1>1, <1>2, <1>7, Addresses DEF DuplexInv
    <3>4. Still(d)
      BY <1>1, <2>1, <3>2, <3>3, StillIs
    <3>5. QED
      BY <3>3, <3>4, StillClient
  <2>12. Client(c)'
    <3>1. Asking(c) = 0 /\ Awaiting(c) = 0 /\ Answering(c) = 0
      BY <1>11, <1>12, <2>1 DEF Hop
    <3>2. Counted(c, 1, 0, 0, Relaying(c), Upstreaming(c), Returning(c))
      BY <2>7, <2>8, <3>1 DEF Counted
    <3>3. Relaying(c)' + Upstreaming(c)' <= 1
      BY <1>2, <3>2 DEF Client, Counted
    <3>4. Relaying(c) + Upstreaming(c) + Returning(c) <= 0 /\ (~closed[c] /\ Alive(U) => Relaying(c) + Upstreaming(c) + Returning(c) = 0)
      BY <1>11, <3>1 DEF Hop
    <3>5. Hop(c)'
      BY <1>1, <1>8, <3>2, <3>4 DEF Hop, Counted
    <3>6. Len(f_defer[c]) + Outside(c) = 0 + 0 + Outside(c)
      BY <1>2, <1>14 DEF Ends
    <3>7. Num(got[c], ReceivedReplies) + Num(f_line[c], WrittenReplies) + Len(f_defer[c]) + 0 = k - 1
      BY <1>3, <1>11, <2>1 DEF Ledger
    <3>8. Num(got[c], ReceivedReplies) \in Nat /\ Num(f_line[c], WrittenReplies) \in Nat /\ Len(f_defer[c]) \in Nat
      <4>1. got[c] \in Seq(Received) /\ f_line[c] \in Seq(Message)
        BY <1>2 DEF Places, TalksOK, LinesOK
      <4>2. QED
        BY <1>2, <4>1, NumIs
    <3>9. Num(got[c], ReceivedReplies) + Num(f_line[c], WrittenReplies) + Len(f_defer[c]) + 1 = k
      BY <1>3, <3>7, <3>8
    <3>10. Ledger(c)'
      BY <1>1, <1>3, <1>8, <2>1, <3>9 DEF Ledger
    <3>11. QED
      BY <3>3, <3>5, <3>10, ClientAfter
  <2>13. QED
    BY <1>7, <1>9, <1>10, <2>6, <2>9, <2>10, <2>11, <2>12 DEF DuplexInv, Places
<1>15. QED
  BY <1>13, <1>14

-----------------------------------------------------------------------------
(* Flats fail, finish and go.                                               *)

LEMMA EventKeeps ==
    ASSUME DuplexInv, StatesOK',
           UNCHANGED <<size, flush, named, f_deferring, f_defer, f_replies, f_line, queue, sent, got, asked>>,
           \A f \in Flats : /\ closed[f] => closed'[f]
                            /\ closed'[f] => f_state'[f] \in {"ending", "crashing", "gone"}
                            /\ Alive(f)' => Alive(f)
                            /\ f_state'[f] = "connecting" => f_state[f] = "connecting"
    PROVE  DuplexInv'
<1>1. Places /\ Settled /\ Ends
  BY DEF DuplexInv, Settled
<1>2. SetupOK' /\ QueuesOK' /\ SlotsOK' /\ LinesOK' /\ DefersOK' /\ TalksOK'
  <2>1. UNCHANGED queue /\ UNCHANGED f_replies /\ UNCHANGED f_line /\ UNCHANGED f_defer /\ UNCHANGED <<sent, got, asked>>
    OBVIOUS
  <2>2. QED
    BY <1>1, <2>1, PlacesStay
<1>3. Ends'
  BY <1>1, Addresses DEF Ends
<1>4. ASSUME NEW d \in Clients PROVE Client(d)'
  <2>1. HopStill(d) /\ Client(d)
    BY AllStill DEF DuplexInv
  <2>2. d \in Flats /\ U \in Flats
    BY Addresses
  <2>3. (Alive(d)' => Alive(d)) /\ (closed[d] => closed'[d]) /\ (Alive(U)' => Alive(U))
    BY <2>2
  <2>4. Still(d)
    BY <2>1, <2>3 DEF Still, HopStill
  <2>5. QED
    BY <2>1, <2>4, StillClient
<1>5. QED
  BY <1>2, <1>3, <1>4 DEF DuplexInv, Places

LEMMA EventsKeep ==
    ASSUME DuplexInv, NEW f \in Flats, Connected \/ Broken(f) \/ Terminate(f) \/ Close(f)
    PROVE  DuplexInv'
<1>1. StatesOK /\ Ends
  BY DEF DuplexInv, Places
<1>2. f_state \in [Flats -> States] /\ closed \in [Flats -> BOOLEAN] /\ U \in Flats
  BY <1>1, Addresses DEF StatesOK
<1>3. UNCHANGED <<size, flush, named, f_deferring, f_defer, f_replies, f_line, queue, sent, got, asked>>
  BY DEF Connected, Broken, Terminate, Close
<1>4. CASE Connected
  <2>1. f_state[U] = "connecting" /\ f_state' = [f_state EXCEPT ![U] = "up"] /\ UNCHANGED closed
    BY <1>4 DEF Connected, U
  <2>2. StatesOK'
    BY <1>1, <1>2, <1>3, <2>1 DEF StatesOK, States
  <2>3. ASSUME NEW g \in Flats
        PROVE  /\ closed[g] => closed'[g]
               /\ closed'[g] => f_state'[g] \in {"ending", "crashing", "gone"}
               /\ Alive(g)' => Alive(g)
               /\ f_state'[g] = "connecting" => f_state[g] = "connecting"
    BY <1>1, <1>2, <2>1 DEF Ends, Alive
  <2>4. QED
    BY <1>3, <2>2, <2>3, EventKeeps
<1>5. CASE Broken(f) \/ Terminate(f)
  <2>1. /\ f_state[f] \in {"connecting", "up", "ending"} /\ UNCHANGED closed
        /\ \/ f_state' = [f_state EXCEPT ![f] = "crashing"]
           \/ f_state[f] # "ending" /\ f_state' = [f_state EXCEPT ![f] = "finishing"]
    BY <1>2, <1>5 DEF Broken, Terminate
  <2>2. StatesOK'
    BY <1>1, <1>2, <1>3, <2>1 DEF StatesOK, States
  <2>3. ASSUME NEW g \in Flats
        PROVE  /\ closed[g] => closed'[g]
               /\ closed'[g] => f_state'[g] \in {"ending", "crashing", "gone"}
               /\ Alive(g)' => Alive(g)
               /\ f_state'[g] = "connecting" => f_state[g] = "connecting"
    BY <1>1, <1>2, <2>1 DEF Ends, Alive
  <2>4. QED
    BY <1>3, <2>2, <2>3, EventKeeps
<1>6. CASE Close(f)
  <2>1. /\ f_state[f] = "finishing" /\ f_state' = [f_state EXCEPT ![f] = "ending"]
        /\ closed' = [closed EXCEPT ![f] = TRUE]
    BY <1>6 DEF Close
  <2>2. StatesOK'
    BY <1>1, <1>2, <1>3, <2>1 DEF StatesOK, States
  <2>3. ASSUME NEW g \in Flats
        PROVE  /\ closed[g] => closed'[g]
               /\ closed'[g] => f_state'[g] \in {"ending", "crashing", "gone"}
               /\ Alive(g)' => Alive(g)
               /\ f_state'[g] = "connecting" => f_state[g] = "connecting"
    BY <1>1, <1>2, <2>1 DEF Ends, Alive
  <2>4. QED
    BY <1>3, <2>2, <2>3, EventKeeps
<1>7. QED
  BY <1>4, <1>5, <1>6

\* What all flats that go have in common.
LEMMA Going ==
    ASSUME DuplexInv, NEW f \in Flats, Teardown(f)
    PROVE  /\ SetupOK' /\ StatesOK' /\ SlotsOK' /\ LinesOK' /\ DefersOK' /\ TalksOK' /\ Ends'
           /\ f_state'[f] = "gone" /\ closed'[f]
           /\ \A i \in 1 .. size : f_replies'[f][i] = NULL
           /\ \A g \in Flats \ {f} : /\ f_state'[g] = f_state[g] /\ closed'[g] = closed[g]
                                     /\ f_deferring'[g] = f_deferring[g] /\ f_defer'[g] = f_defer[g]
                                     /\ f_line'[g] = f_line[g] /\ f_replies'[g] = f_replies[g]
           /\ UNCHANGED <<size, flush, named, sent, got>>
           /\ queue' = Released(f)
<1>1. /\ f_state' = [f_state EXCEPT ![f] = "gone"]
      /\ closed' = [closed EXCEPT ![f] = TRUE]
      /\ f_deferring' = [f_deferring EXCEPT ![f] = {"own", "outside"}]
      /\ f_defer' = [f_defer EXCEPT ![f] = << >>]
      /\ f_replies' = [f_replies EXCEPT ![f] = [i \in 1 .. size |-> NULL]]
      /\ f_line' = [f_line EXCEPT ![f] = << >>]
      /\ queue' = Released(f)
      /\ (asked' = << >> \/ asked' = asked)
      /\ UNCHANGED <<size, flush, named, sent, got>>
  BY DEF Teardown
<1>2. /\ Places /\ Settled /\ Ends /\ StatesOK /\ SlotsOK /\ LinesOK /\ DefersOK /\ TalksOK
  BY <1>1 DEF DuplexInv, Places, Settled
<1>3. SetupOK'
  BY <1>2, PlacesStay
<1>4. StatesOK'
  BY <1>1, <1>2 DEF StatesOK, States
<1>5. /\ f_state'[f] = "gone" /\ closed'[f] /\ f_deferring'[f] = {"own", "outside"} /\ f_defer'[f] = << >>
      /\ f_line'[f] = << >> /\ f_replies'[f] = [i \in 1 .. size |-> NULL]
  BY <1>1, <1>2 DEF StatesOK, SlotsOK, LinesOK, DefersOK
<1>6. \A g \in Flats \ {f} : /\ f_state'[g] = f_state[g] /\ closed'[g] = closed[g]
                             /\ f_deferring'[g] = f_deferring[g] /\ f_defer'[g] = f_defer[g]
                             /\ f_line'[g] = f_line[g] /\ f_replies'[g] = f_replies[g]
  BY <1>1, <1>2 DEF StatesOK, SlotsOK, LinesOK, DefersOK
<1>7. /\ \A g : SlotKind(g)' = SlotKind(g) /\ LineKind(g)' = LineKind(g) /\ DeferKind(g)' = DeferKind(g)
      /\ Questions' = Questions
  BY <1>2, KindsStay DEF Settled
<1>8. SlotsOK'
  <2>1. f_replies' \in [Flats -> [1 .. size -> Handler \cup {NULL}]]
    BY <1>1, <1>2 DEF SlotsOK
  <2>2. \A g \in Flats : f_replies'[g] \in [1 .. size -> SlotKind(g) \cup {NULL}]
    BY <1>2, <1>5, <1>6 DEF SlotsOK
  <2>3. QED
    BY <1>1, <1>7, <2>1, <2>2 DEF SlotsOK
<1>9. LinesOK'
  <2>1. f_line' \in [Flats -> Seq(Message)]
    BY <1>1, <1>2 DEF LinesOK
  <2>2. ASSUME NEW g \in Flats PROVE f_line'[g] \in Seq(LineKind(g))
    <3>1. \A K : << >> \in Seq(K)
      OBVIOUS
    <3>2. CASE g = f
      BY <1>5, <3>1, <3>2
    <3>3. CASE g # f
      BY <1>2, <1>6, <3>3 DEF LinesOK
    <3>4. QED
      BY <3>2, <3>3
  <2>3. QED
    BY <1>7, <2>1, <2>2 DEF LinesOK
<1>10. DefersOK'
  <2>1. f_defer' \in [Flats -> Seq(Message)]
    BY <1>1, <1>2 DEF DefersOK
  <2>2. ASSUME NEW g \in Flats PROVE f_defer'[g] \in Seq(DeferKind(g))
    <3>1. \A K : << >> \in Seq(K)
      OBVIOUS
    <3>2. CASE g = f
      BY <1>5, <3>1, <3>2
    <3>3. CASE g # f
      BY <1>2, <1>6, <3>3 DEF DefersOK
    <3>4. QED
      BY <3>2, <3>3
  <2>3. QED
    BY <1>7, <2>1, <2>2 DEF DefersOK
<1>11. TalksOK'
  <2>1. asked' \in Seq(Questions)
    <3>1. \A K : << >> \in Seq(K)
      OBVIOUS
    <3>2. asked \in Seq(Questions) /\ (asked' = << >> \/ asked' = asked)
      BY <1>1, <1>2 DEF TalksOK
    <3>3. QED
      BY <3>1, <3>2
  <2>2. QED
    BY <1>1, <1>2, <1>7, <2>1 DEF TalksOK
<1>12. Ends'
  <2>1. \A g \in Flats : closed'[g] => f_state'[g] \in {"ending", "crashing", "gone"}
    BY <1>2, <1>5, <1>6 DEF Ends
  <2>2. ASSUME NEW d \in Clients PROVE f_state'[d] # "connecting" /\ ("outside" \notin f_deferring'[d] => f_defer'[d] = << >>)
    <3>1. d \in Flats
      BY Addresses
    <3>2. QED
      BY <1>2, <1>5, <1>6, <3>1 DEF Ends
  <2>3. QED
    BY <2>1, <2>2 DEF Ends
<1>13. \A i \in 1 .. size : f_replies'[f][i] = NULL
  BY <1>5
<1>14. UNCHANGED <<size, flush, named, sent, got>> /\ queue' = Released(f)
  BY <1>1
<1>15. QED
  BY <1>3, <1>4, <1>5, <1>6, <1>8, <1>9, <1>10, <1>11, <1>12, <1>13, <1>14

\* Requests of x which are to be turned round, and the answers.
Back(f, x) == {i \in 1 .. Len(queue[Peer(f)]) : queue[Peer(f)][i].type = "request" /\ queue[Peer(f)][i].from = x}
Nth(f, x, k) == queue[Peer(f)][CHOOSE i \in Back(f, x) : Cardinality({j \in Back(f, x) : j <= i}) = k]
Answer(f, m) == Mail("reply", m.name, m.of, Peer(f))
Answers(f, x) == [k \in 1 .. Cardinality(Back(f, x)) |-> Answer(f, Nth(f, x, k))]

LEMMA ReleasedIs ==
    ASSUME NEW f
    PROVE  /\ DOMAIN Released(f) = Endpoints
           /\ \A x \in Endpoints : Released(f)[x] = IF x[1] = f THEN << >>
                                                    ELSE IF Receiving(x) THEN queue[x] \o Answers(f, x)
                                                    ELSE queue[x]
BY Zenon DEF Released, Back, Nth, Answer, Answers, Mail

\* There is at most one.
LEMMA AnswersAre ==
    ASSUME NEW f, NEW x, NEW T, queue[Peer(f)] \in Seq(Queued), Num(queue[Peer(f)], AsksFrom(x)) <= 1,
           \A m \in Queued : m \in AsksFrom(x) /\ (\E i \in 1 .. Len(queue[Peer(f)]) : queue[Peer(f)][i] = m) => Answer(f, m) \in T
    PROVE  Answers(f, x) \in Seq(T) /\ Len(Answers(f, x)) = Num(queue[Peer(f)], AsksFrom(x))
<1> DEFINE s == queue[Peer(f)]
           n == Len(s)
           back == Back(f, x)
           a == Cardinality(back)
<1>1. s \in Seq(Queued) /\ n \in Nat
  OBVIOUS
<1>2. back = {i \in 1 .. n : s[i] \in AsksFrom(x)}
  BY <1>1 DEF Back, AsksFrom
<1>3. a = Num(s, AsksFrom(x))
  BY <1>2 DEF Num
<1>4. IsFiniteSet(back) /\ a \in Nat /\ (a = 0 <=> back = {}) /\ a <= 1
  <2>1. back \in SUBSET (1 .. n)
    BY <1>2
  <2> HIDE DEF back
  <2>2. IsFiniteSet(back) /\ Cardinality(back) \in Nat /\ (Cardinality(back) = 0 <=> back = {})
    BY <1>1, <2>1, PositionsCounted
  <2>3. QED
    BY <1>3, <2>2
<1>5. ASSUME NEW k \in 1 .. a PROVE Answer(f, Nth(f, x, k)) \in T
  <2>1. k = 1 /\ a = 1
    BY <1>4
  <2>2. PICK i : back = {i}
    BY <1>4, <2>1, FS_Singleton
  <2>3. i \in 1 .. n /\ s[i] \in AsksFrom(x) /\ s[i] \in Queued
    <3>1. i \in back
      BY <2>2
    <3> HIDE DEF back, s
    <3>2. i \in 1 .. n /\ s[i] \in AsksFrom(x)
      BY <1>2, <3>1
    <3>3. QED
      BY <1>1, <3>2
  <2>4. {j \in back : j <= i} = {i}
    BY <1>1, <2>2, <2>3
  <2>5. Cardinality({j \in back : j <= i}) = k
    BY <2>1, <2>4, FS_Singleton
  <2>6. (CHOOSE j \in back : Cardinality({l \in back : l <= j}) = k) = i
    <3> DEFINE P(j) == Cardinality({l \in back : l <= j}) = k
    <3>1. i \in back /\ P(i) /\ \A j \in back : j = i
      BY <2>2, <2>5
    <3> HIDE DEF back, P
    <3>2. (CHOOSE j \in back : P(j)) \in back
      BY <3>1
    <3>3. (CHOOSE j \in back : P(j)) = i
      BY <3>1, <3>2
    <3>4. QED
      BY <3>3 DEF P
  <2>7. Nth(f, x, k) = s[i]
    BY <2>6 DEF Nth
  <2>8. QED
    BY <2>3, <2>7
<1>6. Answers(f, x) = [k \in 1 .. a |-> Answer(f, Nth(f, x, k))]
  BY DEF Answers
<1> HIDE DEF a, back
<1>7. Answers(f, x) \in Seq(T) /\ Len(Answers(f, x)) = a
  BY <1>4, <1>5, <1>6
<1>8. QED
  BY <1>3, <1>7

\* A client goes: nobody's requests are with it.
LEMMA TeardownClient ==
    ASSUME DuplexInv, NEW c \in Clients, Teardown(c)
    PROVE  DuplexInv'
<1>1. /\ Places /\ c \in Flats /\ c # U /\ Peer(c) \in Endpoints /\ queue \in [Endpoints -> Seq(Queued)]
      /\ queue[Peer(c)] \in Seq(ToClient(c)) /\ queue[Peer(c)] \in Seq(Queued) /\ QueuesOK
      /\ \A d \in Clients : Client(d)
  BY Flat, Addresses, Kinds DEF DuplexInv, Places
<1>2. /\ SetupOK' /\ StatesOK' /\ SlotsOK' /\ LinesOK' /\ DefersOK' /\ TalksOK' /\ Ends'
      /\ f_state'[c] = "gone"
      /\ \A g \in Flats \ {c} : /\ f_state'[g] = f_state[g] /\ closed'[g] = closed[g]
                                /\ f_deferring'[g] = f_deferring[g] /\ f_defer'[g] = f_defer[g]
                                /\ f_line'[g] = f_line[g] /\ f_replies'[g] = f_replies[g]
      /\ UNCHANGED <<size, flush, named, sent, got>>
      /\ queue' = Released(c)
  BY <1>1, Going
<1>3. ASSUME NEW x \in Endpoints, x[1] # c PROVE Answers(c, x) = << >>
  <2>1. x # Remote(c)
    BY <1>3, Addresses
  <2>2. \A i \in 1 .. Len(queue[Peer(c)]) : queue[Peer(c)][i] \in ToClient(c)
    BY <1>1
  <2>3. Back(c, x) = {}
    BY <2>1, <2>2, ToClientIs DEF Back
  <2>4. Cardinality(Back(c, x)) = 0
    BY <2>3, FS_EmptySet
  <2>5. QED
    BY <2>4 DEF Answers
<1>4. /\ DOMAIN queue' = Endpoints
      /\ \A x \in Endpoints : queue'[x] = IF x[1] = c THEN << >> ELSE queue[x]
  <2>1. /\ DOMAIN queue' = Endpoints
        /\ \A x \in Endpoints : queue'[x] = IF x[1] = c THEN << >>
                                            ELSE IF Receiving(x) THEN queue[x] \o Answers(c, x)
                                            ELSE queue[x]
    BY <1>2, ReleasedIs
  <2>2. ASSUME NEW x \in Endpoints, x[1] # c PROVE queue[x] \o Answers(c, x) = queue[x]
    <3>1. queue[x] \in Seq(Queued)
      BY <1>1
    <3>2. QED
      BY <1>3, <2>2, <3>1
  <2>3. QED
    BY <2>1, <2>2
<1>5. QueuesOK'
  <2>1. UNCHANGED named
    BY <1>2
  <2>2. \A z : Kind(z)' = Kind(z)
    BY <2>1, KindsStay
  <2>3. \A K : << >> \in Seq(K)
    OBVIOUS
  <2>4. \A x \in Endpoints : queue'[x] \in Seq(Queued) /\ queue'[x] \in Seq(Kind(x))
    BY <1>1, <1>4, <2>3 DEF QueuesOK
  <2>5. queue' = [x \in Endpoints |-> queue'[x]]
    BY <1>2 DEF Released
  <2>6. queue' \in [Endpoints -> Seq(Queued)]
    BY <2>4, <2>5
  <2>7. QED
    BY <2>2, <2>4, <2>6 DEF QueuesOK
<1>6. \A d \in Clients : Relaying(d)' = Relaying(d) /\ Upstreaming(d)' = Upstreaming(d)
  <2>1. Peer(U) \in Endpoints /\ Peer(U)[1] # c /\ U \in Flats \ {c}
    BY <1>1, Addresses
  <2>2. queue'[Peer(U)] = queue[Peer(U)] /\ f_replies'[U] = f_replies[U] /\ size' = size
    BY <1>2, <1>4, <2>1
  <2>3. QED
    BY <2>2 DEF Relaying, Upstreaming, Awaited
<1>7. ASSUME NEW d \in Clients \ {c} PROVE Client(d)'
  <2>1. /\ d \in Flats \ {c} /\ U \in Flats \ {c} /\ Peer(d) \in Endpoints /\ Peer(d)[1] # c
        /\ Remote(d) \in Endpoints /\ Remote(d)[1] # c
    BY <1>1, Addresses
  <2>2. queue'[Peer(d)] = queue[Peer(d)] /\ queue'[Remote(d)] = queue[Remote(d)] /\ f_replies'[d] = f_replies[d] /\ size' = size
    BY <1>2, <1>4, <2>1
  <2>3. HopStill(d)
    BY <1>6, <2>2 DEF HopStill, Asking, Answering, Returning, Awaiting, Awaited
  <2>4. Still(d)
    BY <1>2, <2>1, <2>3, StillIs
  <2>5. QED
    BY <1>1, <2>4, StillClient
<1>8. Client(c)'
  <2>1. Relaying(c)' + Upstreaming(c)' <= 1
    BY <1>1, <1>6 DEF Client
  <2>2. ~Alive(c)'
    BY <1>2 DEF Alive
  <2>3. QED
    BY <2>1, <2>2, ClientAfter
<1>9. QED
  BY <1>2, <1>5, <1>7, <1>8 DEF DuplexInv, Places

\* The upstream server goes: what it has not passed on is turned round.
LEMMA TeardownUpstream ==
    ASSUME DuplexInv, Teardown(U)
    PROVE  DuplexInv'
<1>1. /\ Places /\ U \in Flats /\ Peer(U) \in Endpoints /\ queue \in [Endpoints -> Seq(Queued)]
      /\ queue[Peer(U)] \in Seq(ToUpstream) /\ queue[Peer(U)] \in Seq(Queued) /\ QueuesOK
      /\ \A d \in Clients : Client(d)
  BY Flat, Addresses, Kinds DEF DuplexInv, Places
<1>2. /\ SetupOK' /\ StatesOK' /\ SlotsOK' /\ LinesOK' /\ DefersOK' /\ TalksOK' /\ Ends'
      /\ f_state'[U] = "gone"
      /\ \A i \in 1 .. size : f_replies'[U][i] = NULL
      /\ \A g \in Flats \ {U} : /\ f_state'[g] = f_state[g] /\ closed'[g] = closed[g]
                                /\ f_deferring'[g] = f_deferring[g] /\ f_defer'[g] = f_defer[g]
                                /\ f_line'[g] = f_line[g] /\ f_replies'[g] = f_replies[g]
      /\ UNCHANGED <<size, flush, named, sent, got>>
      /\ queue' = Released(U)
  BY <1>1, Going
<1>3. /\ DOMAIN queue' = Endpoints
      /\ \A x \in Endpoints : queue'[x] = IF x[1] = U THEN << >>
                                          ELSE IF Receiving(x) THEN queue[x] \o Answers(U, x)
                                          ELSE queue[x]
  BY <1>2, ReleasedIs
<1>4. ASSUME NEW m \in ToUpstream, NEW d \in Clients, m \in AsksFrom(Peer(d))
      PROVE  Answer(U, m) \in ToClient(d) /\ Answer(U, m) \in Replies /\ Answer(U, m) \in Queued
  <2>1. m.of \in Requests /\ m.of[1] \in Clients /\ m.type = "request" /\ m.name = "relay"
    BY <1>4, ToUpstreamIs
  <2>2. QED
    BY <1>1, <2>1 DEF Answer, Mail, ToClient, Replies, Queued
<1>5. \A i \in 1 .. Len(queue[Peer(U)]) : queue[Peer(U)][i] \in ToUpstream
  BY <1>1
<1>6. ASSUME NEW d \in Clients
      PROVE  /\ Answers(U, Peer(d)) \in Seq(ToClient(d)) /\ Answers(U, Peer(d)) \in Seq(Replies)
             /\ Answers(U, Peer(d)) \in Seq(Queued) /\ Len(Answers(U, Peer(d))) = Relaying(d)
             /\ Answers(U, Remote(d)) = << >>
  <2>1. Num(queue[Peer(U)], AsksFrom(Peer(d))) <= 1
    <3>1. Relaying(d) + Upstreaming(d) <= 1 /\ Relaying(d) \in Nat /\ Upstreaming(d) \in Nat
      BY <1>1, NumbersAre DEF Client
    <3>2. QED
      BY <3>1 DEF Relaying
  <2> DEFINE T == ToClient(d) \cap Replies \cap Queued
  <2>2. \A m \in Queued : m \in AsksFrom(Peer(d)) /\ (\E i \in 1 .. Len(queue[Peer(U)]) : queue[Peer(U)][i] = m) => Answer(U, m) \in T
    BY <1>4, <1>5
  <2>3. T \subseteq ToClient(d) /\ T \subseteq Replies /\ T \subseteq Queued
    OBVIOUS
  <2> HIDE DEF T
  <2>4. Answers(U, Peer(d)) \in Seq(T) /\ Len(Answers(U, Peer(d))) = Num(queue[Peer(U)], AsksFrom(Peer(d)))
    BY <1>1, <2>1, <2>2, AnswersAre
  <2>5. Back(U, Remote(d)) = {}
    <3>1. \A i \in 1 .. Len(queue[Peer(U)]) :
              ~(queue[Peer(U)][i].type = "request" /\ queue[Peer(U)][i].from = Remote(d))
      BY <1>5, ToUpstreamIs, Addresses
    <3>2. QED
      BY <3>1 DEF Back
  <2>6. Answers(U, Remote(d)) = << >>
    <3>1. Cardinality(Back(U, Remote(d))) = 0
      BY <2>5, FS_EmptySet
    <3>2. QED
      BY <3>1 DEF Answers
  <2>7. QED
    BY <2>3, <2>4, <2>6 DEF Relaying
<1>7. ASSUME NEW d \in Clients
      PROVE  /\ queue'[Remote(d)] = queue[Remote(d)]
             /\ queue'[Peer(d)] = IF Receiving(Peer(d)) THEN queue[Peer(d)] \o Answers(U, Peer(d)) ELSE queue[Peer(d)]
  <2>1. /\ Peer(d) \in Endpoints /\ Remote(d) \in Endpoints /\ Peer(d)[1] # U /\ Remote(d)[1] # U
        /\ queue[Remote(d)] \in Seq(Queued)
    BY <1>1, Addresses
  <2>2. queue[Remote(d)] \o << >> = queue[Remote(d)]
    BY <2>1
  <2>3. QED
    BY <1>3, <1>6, <2>1, <2>2
<1>8. QueuesOK'
  <2>1. UNCHANGED named
    BY <1>2
  <2>2. \A z : Kind(z)' = Kind(z)
    BY <2>1, KindsStay
  <2>3. ASSUME NEW x \in Endpoints PROVE queue'[x] \in Seq(Queued) /\ queue'[x] \in Seq(Kind(x))
    <3>1. PICK f \in Flats : x = Peer(f) \/ x = Remote(f)
      BY Addresses
    <3>2. CASE f = U
      <4>1. queue'[x] = << >>
        BY <1>3, <3>1, <3>2, Addresses
      <4>2. \A K : << >> \in Seq(K)
        OBVIOUS
      <4>3. QED
        BY <4>1, <4>2
    <3>3. CASE f \in Clients /\ x = Remote(f)
      BY <1>1, <1>7, <3>3 DEF QueuesOK
    <3>4. CASE f \in Clients /\ x = Peer(f)
      <4>1. Kind(x) = ToClient(f) /\ queue[x] \in Seq(Kind(x)) /\ queue[x] \in Seq(Queued)
        BY <1>1, <3>4, Kinds DEF QueuesOK
      <4>2. Answers(U, x) \in Seq(ToClient(f)) /\ Answers(U, x) \in Seq(Queued)
        BY <1>6, <3>4
      <4>3. queue[x] \o Answers(U, x) \in Seq(Queued) /\ queue[x] \o Answers(U, x) \in Seq(Kind(x))
        BY <4>1, <4>2
      <4>4. QED
        BY <1>7, <3>4, <4>1, <4>3
    <3>5. QED
      BY <3>1, <3>2, <3>3, <3>4, Addresses
  <2>4. queue' = [x \in Endpoints |-> queue'[x]]
    BY <1>2 DEF Released
  <2>5. queue' \in [Endpoints -> Seq(Queued)]
    BY <2>3, <2>4
  <2>6. QED
    BY <2>2, <2>3, <2>5 DEF QueuesOK
<1>9. ASSUME NEW d \in Clients PROVE Client(d)'
  <2>1. /\ Asking(d) \in Nat /\ Awaiting(d) \in Nat /\ Answering(d) \in Nat
        /\ Relaying(d) \in Nat /\ Upstreaming(d) \in Nat /\ Returning(d) \in Nat
    BY <1>1, NumbersAre
  <2>2. d \in Flats \ {U} /\ Peer(d) \in Endpoints /\ queue[Peer(d)] \in Seq(Queued)
    BY <1>1, Addresses
  <2>3. Relaying(d)' = 0
    <3>1. queue'[Peer(U)] = << >>
      BY <1>1, <1>3, Addresses
    <3>2. AsksFrom(Peer(d))' = AsksFrom(Peer(d))
      BY DEF AsksFrom
    <3>3. QED
      BY <3>1, <3>2, NumNothing DEF Relaying
  <2>4. Upstreaming(d)' = 0
    <3>1. Awaited(U, Peer(d))' = {}
      BY <1>2 DEF Awaited
    <3>2. QED
      BY <3>1, FS_EmptySet DEF Upstreaming
  <2>5. Answering(d)' = Answering(d) /\ Awaiting(d)' = Awaiting(d)
    <3>1. queue'[Remote(d)] = queue[Remote(d)] /\ f_replies'[d] = f_replies[d] /\ size' = size
      BY <1>2, <1>7, <2>2
    <3>2. QED
      BY <3>1 DEF Answering, Awaiting, Awaited
  <2>6. Asking(d)' = Asking(d) /\ Returning(d)' \in Nat /\ Returning(d)' <= Returning(d) + Relaying(d)
    <3> DEFINE s == queue[Peer(d)]
               t == Answers(U, Peer(d))
    <3>1. s \in Seq(Queued) /\ t \in Seq(Queued) /\ t \in Seq(Replies) /\ Len(t) = Relaying(d)
      BY <1>6, <2>2
    <3>2. Num(s \o t, Asks) = Num(s, Asks) + Num(t, Asks) /\ Num(s \o t, Replies) = Num(s, Replies) + Num(t, Replies)
      <4> HIDE DEF s, t
      <4>1. QED
        BY <3>1, NumJoined
    <3>3. Num(t, Replies) = Len(t) /\ Num(t, Asks) = 0
      <4> HIDE DEF t
      <4>1. \A i \in 1 .. Len(t) : t[i] \in Replies /\ t[i] \notin Asks
        BY <3>1 DEF Replies, Asks
      <4>2. QED
        BY <3>1, <4>1, NumAll, NumIs
    <3>4. queue'[Peer(d)] = s \/ queue'[Peer(d)] = s \o t
      BY <1>7
    <3>5. Asking(d) = Num(s, Asks) /\ Returning(d) = Num(s, Replies)
      BY DEF Asking, Returning
    <3>6. Asking(d)' = Num(queue'[Peer(d)], Asks) /\ Returning(d)' = Num(queue'[Peer(d)], Replies)
      BY DEF Asking, Returning, Asks, Replies
    <3> HIDE DEF s, t
    <3>7. /\ Num(s \o t, Asks) = Num(s, Asks) + 0 /\ Num(s \o t, Replies) = Num(s, Replies) + Relaying(d)
          /\ Num(s, Asks) = Asking(d) /\ Num(s, Replies) = Returning(d)
      BY <3>1, <3>2, <3>3, <3>5
    <3>8. CASE queue'[Peer(d)] = s
      <4>1. Asking(d)' = Asking(d) /\ Returning(d)' = Returning(d)
        BY <3>6, <3>7, <3>8
      <4>2. QED
        BY <2>1, <4>1
    <3>9. CASE queue'[Peer(d)] = s \o t
      <4>1. Asking(d)' = Asking(d) + 0 /\ Returning(d)' = Returning(d) + Relaying(d)
        BY <3>6, <3>7, <3>9
      <4>2. QED
        BY <2>1, <4>1
    <3>10. QED
      BY <3>4, <3>8, <3>9
  <2>7. ASSUME Alive(d)' PROVE Hop(d)' /\ Ledger(d)'
    <3>1. Alive(d) /\ Outside(d)' = Outside(d)
      BY <1>2, <2>2, <2>7 DEF Alive, Outside
    <3>2. Hop(d) /\ Ledger(d)
      BY <1>1, <3>1 DEF Client
    <3>3. ~Alive(U)'
      BY <1>2 DEF Alive, U
    <3>4. Relaying(d)' + Upstreaming(d)' + Returning(d)' <= Awaiting(d)
      BY <2>1, <2>3, <2>4, <2>6, <3>2 DEF Hop
    <3>5. Hop(d)'
      BY <2>5, <2>6, <3>1, <3>2, <3>3, <3>4 DEF Hop
    <3>6. Ledger(d)'
      BY <1>2, <2>2, <3>1, <3>2 DEF Ledger
    <3>7. QED
      BY <3>5, <3>6
  <2>8. QED
    BY <2>3, <2>4, <2>7, ClientAfter
<1>10. QED
  BY <1>2, <1>8, <1>9 DEF DuplexInv, Places

-----------------------------------------------------------------------------
(* The invariant.                                                           *)

LEMMA DuplexInit == Init => DuplexInv
<1> SUFFICES ASSUME Init PROVE DuplexInv
  OBVIOUS
<1>1. PICK s \in Setups : size = s.size /\ flush = s.flush /\ named = s.named
  BY DEF Init
<1>2. /\ f_state = [f \in Flats |-> IF f = Upstream THEN "connecting" ELSE "up"]
      /\ f_deferring = [f \in Flats |-> {}]
      /\ f_defer = [f \in Flats |-> << >>]
      /\ f_replies = [f \in Flats |-> [i \in 1 .. size |-> NULL]]
      /\ f_line = [f \in Flats |-> << >>]
      /\ closed = [f \in Flats |-> FALSE]
      /\ queue = [e \in Endpoints |-> << >>]
      /\ sent = [c \in Clients |-> 0]
      /\ got = [c \in Clients |-> << >>]
      /\ asked = << >>
  BY DEF Init
<1>3. \A K : << >> \in Seq(K)
  OBVIOUS
<1>4. SetupOK
  <2>1. s \in [size : Nat \ {0}, flush : Nat, named : [Clients -> Names]]
    BY Constants
  <2>2. [size |-> size, flush |-> flush, named |-> named] = s /\ size \in Nat \ {0}
    BY <1>1, <2>1
  <2>3. QED
    BY <2>2 DEF SetupOK
<1>5. StatesOK
  BY <1>2 DEF StatesOK, States
<1>6. QueuesOK
  BY <1>2, <1>3 DEF QueuesOK
<1>7. SlotsOK
  BY <1>2 DEF SlotsOK
<1>8. LinesOK /\ DefersOK
  BY <1>2, <1>3 DEF LinesOK, DefersOK
<1>9. TalksOK
  <2>1. MaxSent \in Nat
    BY Constants
  <2>2. sent \in [Clients -> 0 .. MaxSent]
    BY <1>2, <2>1
  <2>3. got \in [Clients -> Seq(Received)] /\ asked \in Seq(Questions)
    BY <1>2, <1>3
  <2>4. QED
    BY <2>2, <2>3 DEF TalksOK
<1>10. Ends
  BY <1>2, Addresses DEF Ends, U
<1>11. ASSUME NEW c \in Clients PROVE Client(c)
  <2>1. /\ Peer(c) \in Endpoints /\ Remote(c) \in Endpoints /\ Peer(U) \in Endpoints /\ c \in Flats /\ U \in Flats
    BY Addresses
  <2>2. queue[Peer(c)] = << >> /\ queue[Remote(c)] = << >> /\ queue[Peer(U)] = << >>
    BY <1>2, <2>1
  <2>3. Asking(c) = 0 /\ Answering(c) = 0 /\ Relaying(c) = 0 /\ Returning(c) = 0
    BY <2>2, NumNothing DEF Asking, Answering, Relaying, Returning
  <2>4. Awaited(c, Remote(c)) = {} /\ Awaited(U, Peer(c)) = {}
    BY <1>2, <2>1 DEF Awaited
  <2>5. Awaiting(c) = 0 /\ Upstreaming(c) = 0
    BY <2>4, FS_EmptySet DEF Awaiting, Upstreaming
  <2>6. Outside(c) = 0
    BY <1>2, <2>1 DEF Outside
  <2>7. Hop(c)
    BY <2>3, <2>5, <2>6 DEF Hop
  <2>8. Ledger(c)
    <3>1. got[c] = << >> /\ f_line[c] = << >> /\ f_defer[c] = << >> /\ sent[c] = 0
      BY <1>2, <2>1
    <3>2. Num(got[c], ReceivedReplies) = 0 /\ Num(f_line[c], WrittenReplies) = 0 /\ Len(f_defer[c]) = 0
      BY <3>1, NumNothing
    <3>3. QED
      BY <2>6, <3>1, <3>2 DEF Ledger
  <2>9. QED
    BY <2>3, <2>5, <2>7, <2>8 DEF Client
<1>12. QED
  BY <1>4, <1>5, <1>6, <1>7, <1>8, <1>9, <1>10, <1>11 DEF DuplexInv, Places

LEMMA DuplexStutters ==
    ASSUME DuplexInv, UNCHANGED vars
    PROVE  DuplexInv'
<1>1. UNCHANGED <<size, flush, named, f_deferring, f_defer, f_replies, f_line, queue, sent, got, asked>>
      /\ f_state' = f_state /\ closed' = closed
  BY DEF vars
<1>2. Places /\ Settled /\ Ends /\ UNCHANGED <<f_state, closed, f_deferring>>
  BY <1>1 DEF DuplexInv, Settled
<1>3. StatesOK'
  BY <1>2, PlacesStay
<1>4. \A f \in Flats : /\ closed[f] => closed'[f]
                       /\ closed'[f] => f_state'[f] \in {"ending", "crashing", "gone"}
                       /\ Alive(f)' => Alive(f)
                       /\ f_state'[f] = "connecting" => f_state[f] = "connecting"
  BY <1>1, <1>2 DEF Ends, Alive
<1>5. QED
  BY <1>1, <1>3, <1>4, EventKeeps

LEMMA DuplexStep == DuplexInv /\ [Next]_vars => DuplexInv'
<1> SUFFICES ASSUME DuplexInv, [Next]_vars PROVE DuplexInv'
  OBVIOUS
<1>1. \A f : f \in Flats <=> f \in Clients \/ f = U
  BY Addresses
<1>2. CASE UNCHANGED vars
  BY <1>2, DuplexStutters
<1>3. ASSUME NEW c \in Clients, ReadRequest(c) PROVE DuplexInv'
  BY <1>3, ReadRequestKeeps
<1>4. CASE ReadResponse("reply") \/ ReadResponse("inform")
  BY <1>4, ReadResponseKeeps
<1>5. ASSUME NEW f \in Flats, WriteLine(f) PROVE DuplexInv'
  BY <1>1, <1>5, WriteLineClient, WriteLineUpstream
<1>6. ASSUME NEW f \in Flats, Connected \/ Broken(f) \/ Terminate(f) \/ Close(f) PROVE DuplexInv'
  BY <1>6, EventsKeep
<1>7. ASSUME NEW f \in Flats, RunPeer(f) PROVE DuplexInv'
  BY <1>1, <1>7, RunPeerClient, RunPeerUpstream
<1>8. ASSUME NEW f \in Flats, RunRemote(f) PROVE DuplexInv'
  BY <1>1, <1>8, RunRemoteClient, RunRemoteUpstream
<1>9. ASSUME NEW f \in Flats, Teardown(f) PROVE DuplexInv'
  BY <1>1, <1>9, TeardownClient, TeardownUpstream
<1>10. U \in Flats
  BY <1>1
<1>11. QED
  BY <1>2, <1>3, <1>4, <1>5, <1>6, <1>7, <1>8, <1>9, <1>10 DEF Next, Network, Loop

\* The counts of the properties.
LEMMA Tallies ==
    ASSUME Places, NEW c \in Clients
    PROVE  /\ CountFrom(queue[Peer(c)], "request", Remote(c)) = Asking(c)
           /\ Count(queue[Remote(c)], "reply") = Answering(c)
           /\ CountFrom(queue[Peer(U)], "request", Peer(c)) = Relaying(c)
           /\ CountFrom(queue[Peer(c)], "reply", Peer(U)) = Returning(c)
           /\ Count(got[c], "reply") = Num(got[c], ReceivedReplies)
           /\ Count(f_line[c], "reply") = Num(f_line[c], WrittenReplies)
<1>1. /\ c \in Flats /\ queue[Peer(c)] \in Seq(ToClient(c)) /\ queue[Remote(c)] \in Seq(Queued)
      /\ queue[Peer(U)] \in Seq(Queued)
  BY Flat, Addresses, Kinds
<1>2. got[c] \in Seq(Received) /\ f_line[c] \in Seq(Message)
  BY <1>1 DEF Places, TalksOK, LinesOK
<1>3. CountFrom(queue[Peer(c)], "request", Remote(c)) = Asking(c)
  <2>1. \A m \in ToClient(c) : m \in Asks <=> m.type = "request" /\ m.from = Remote(c)
    BY ToClientIs
  <2>2. CountFrom(queue[Peer(c)], "request", Remote(c)) = Num(queue[Peer(c)], Asks)
    BY <1>1, <2>1, CountFromIsNum
  <2>3. QED
    BY <2>2 DEF Asking
<1>4. Count(queue[Remote(c)], "reply") = Answering(c)
  <2>1. \A m \in Queued : m \in Replies <=> m.type = "reply"
    BY DEF Replies
  <2>2. Count(queue[Remote(c)], "reply") = Num(queue[Remote(c)], Replies)
    BY <1>1, <2>1, CountIsNum
  <2>3. QED
    BY <2>2 DEF Answering
<1>5. CountFrom(queue[Peer(U)], "request", Peer(c)) = Relaying(c)
  <2>1. \A m \in Queued : m \in AsksFrom(Peer(c)) <=> m.type = "request" /\ m.from = Peer(c)
    BY DEF AsksFrom
  <2>2. CountFrom(queue[Peer(U)], "request", Peer(c)) = Num(queue[Peer(U)], AsksFrom(Peer(c)))
    BY <1>1, <2>1, CountFromIsNum
  <2>3. QED
    BY <2>2 DEF Relaying
<1>6. CountFrom(queue[Peer(c)], "reply", Peer(U)) = Returning(c)
  <2>1. \A m \in ToClient(c) : m \in Replies <=> m.type = "reply" /\ m.from = Peer(U)
    BY ToClientIs
  <2>2. CountFrom(queue[Peer(c)], "reply", Peer(U)) = Num(queue[Peer(c)], Replies)
    BY <1>1, <2>1, CountFromIsNum
  <2>3. QED
    BY <2>2 DEF Returning
<1>7. Count(got[c], "reply") = Num(got[c], ReceivedReplies)
  <2>1. \A m \in Received : m \in ReceivedReplies <=> m.type = "reply"
    BY DEF ReceivedReplies
  <2>2. QED
    BY <1>2, <2>1, CountIsNum
<1>8. Count(f_line[c], "reply") = Num(f_line[c], WrittenReplies)
  <2>1. \A m \in Message : m \in WrittenReplies <=> m.type = "reply"
    BY DEF WrittenReplies
  <2>2. QED
    BY <1>2, <2>1, CountIsNum
<1>9. QED
  BY <1>3, <1>4, <1>5, <1>6, <1>7, <1>8

LEMMA PlacesTypeOK == DuplexInv => TypeOK
<1> SUFFICES ASSUME DuplexInv PROVE TypeOK
  OBVIOUS
<1>1. SetupOK /\ StatesOK /\ QueuesOK /\ SlotsOK /\ LinesOK /\ DefersOK /\ TalksOK
  BY DEF DuplexInv, Places
<1>2. asked \in Seq([name : Names, of : Requests, informed : BOOLEAN])
  <2> DEFINE T == [name : Names, of : Requests, informed : BOOLEAN]
  <2>1. Questions \subseteq T /\ asked \in Seq(Questions)
    BY <1>1 DEF TalksOK, Questions
  <2> HIDE DEF T
  <2>2. asked \in Seq(T)
    BY <2>1
  <2>3. QED
    BY <2>2 DEF T
<1>3. got \in [Clients -> Seq([type : {"reply", "inform"}, of : Requests])]
  BY <1>1 DEF TalksOK, Received
<1>4. QED
  BY <1>1, <1>2, <1>3 DEF TypeOK, SetupOK, StatesOK, QueuesOK, SlotsOK, LinesOK, DefersOK, TalksOK

LEMMA InvOneOutside == DuplexInv => OneOutside
<1> SUFFICES ASSUME DuplexInv, NEW c \in Clients, Alive(c)
             PROVE  /\ CountFrom(queue[Peer(c)], "request", Remote(c)) + Cardinality(Awaited(c, Remote(c)))
                         + Count(queue[Remote(c)], "reply")
                       = IF "outside" \in f_deferring[c] THEN 1 ELSE 0
                    /\ ~closed[c] /\ Alive(Upstream) =>
                          CountFrom(queue[Peer(Upstream)], "request", Peer(c)) + Cardinality(Awaited(Upstream, Peer(c)))
                             + CountFrom(queue[Peer(c)], "reply", Peer(Upstream))
                          = Cardinality(Awaited(c, Remote(c)))
  BY DEF OneOutside
<1>1. Places /\ Hop(c)
  BY DEF DuplexInv, Client
<1>2. /\ Asking(c) + Awaiting(c) + Answering(c) = Outside(c)
      /\ ~closed[c] /\ Alive(U) => Relaying(c) + Upstreaming(c) + Returning(c) = Awaiting(c)
  BY <1>1 DEF Hop
<1>3. /\ CountFrom(queue[Peer(c)], "request", Remote(c)) = Asking(c)
      /\ Count(queue[Remote(c)], "reply") = Answering(c)
      /\ CountFrom(queue[Peer(U)], "request", Peer(c)) = Relaying(c)
      /\ CountFrom(queue[Peer(c)], "reply", Peer(U)) = Returning(c)
  BY <1>1, Tallies
<1>4. QED
  BY <1>2, <1>3 DEF Awaiting, Upstreaming, Outside, U

LEMMA InvConserved == DuplexInv => Conserved
<1> SUFFICES ASSUME DuplexInv, NEW c \in Clients, Alive(c)
             PROVE  Count(got[c], "reply") + Count(f_line[c], "reply") + Len(f_defer[c])
                       + (IF "outside" \in f_deferring[c] THEN 1 ELSE 0) = sent[c]
  BY PlacesTypeOK DEF Conserved
<1>1. Places /\ Ledger(c)
  BY DEF DuplexInv, Client
<1>2. QED
  BY <1>1, Tallies DEF Ledger, Outside

LEMMA DuplexAlways == Spec => []DuplexInv
BY DuplexInit, DuplexStep, PTL DEF Spec

-----------------------------------------------------------------------------
(* OneOutside: a request of a client is in exactly one place, at the first  *)
(* hop and at the second, so neither the check for a reply to nothing nor   *)
(* the one for a second callback aborts the server (dpx-core.c).  Proved    *)
(* from DuplexInv: which messages may be where, and how many there are of   *)
(* each client.                                                             *)
THEOREM RequestInOnePlace == Spec => []OneOutside
BY DuplexAlways, InvOneOutside, PTL

(* Conserved: what a client has been given, what is on its way and what is  *)
(* still to be answered add up to what it has sent, whoever goes in the     *)
(* meantime: no request is answered twice and none is forgotten             *)
(* (wake_endpoint_remote_flat_katcp and what it leads to).                  *)
THEOREM RequestsAnsweredOnce == Spec => []Conserved
BY DuplexAlways, InvConserved, PTL

=============================================================================
