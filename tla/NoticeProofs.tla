----------------------------- MODULE NoticeProofs ----------------------------
(***************************************************************************)
(* Whatever the number of clients, names and jobs: a notice is freed when  *)
(* nobody refers to it any more, and not before; both directions of a      *)
(* subscription agree; every subscriber is called once for a message; and  *)
(* the loop does not sleep while somebody could be served.                 *)
(***************************************************************************)
EXTENDS Notice, FiniteSetTheorems, TLAPS

-----------------------------------------------------------------------------
(* Induction over natural numbers, as a fact about sets: the library's own  *)
(* theorems take the predicate as a parameter.                              *)

\* Every set of natural numbers has a least one, as sets of intervals have a
\* smallest one.
LEMMA Least ==
    ASSUME NEW S \in SUBSET Nat, S # {}
    PROVE  \E m \in S : \A n \in S : m <= n
<1>1. PICK N \in S : TRUE
  OBVIOUS
<1> DEFINE B == {n \in S : n <= N}
           I == {0 .. n : n \in B}
<1>2. IsFiniteSet(0 .. N)
  BY FS_Interval
<1>3. I \subseteq SUBSET (0 .. N) /\ I # {}
  BY <1>1
<1>4. I \subseteq FiniteSubsetsOf(0 .. N)
  BY <1>2, <1>3, FS_FiniteSubsetsOfFinite
<1>5. IsWellFoundedOn(StrictSubsetOrdering(0 .. N), FiniteSubsetsOf(0 .. N))
  BY FS_StrictSubsetOrderingWellFounded
<1>6. PICK x \in I : \A y \in I : ~ (<<y, x>> \in StrictSubsetOrdering(0 .. N))
  BY <1>3, <1>4, <1>5, WFMin
<1>7. PICK m \in B : x = 0 .. m
  BY <1>6
<1>8. ASSUME NEW n \in S PROVE m <= n
  <2> SUFFICES ASSUME n < m PROVE FALSE
    BY <1>7
  <2>1. n \in B /\ 0 .. n \in I
    BY <1>7
  <2>2. 0 .. n \subseteq 0 .. m /\ m \notin 0 .. n /\ m \in 0 .. m
    BY <1>7
  <2>3. <<0 .. n, 0 .. m>> \in StrictSubsetOrdering(0 .. N)
    BY <1>3, <1>6, <1>7, <2>1, <2>2 DEF StrictSubsetOrdering
  <2>4. QED
    BY <1>6, <1>7, <2>1, <2>3
<1>9. QED
  BY <1>7, <1>8

\* What holds of 0, and of i + 1 when it holds of i, holds up to n.
LEMMA UpTo ==
    ASSUME NEW n \in Nat, NEW Good \in SUBSET (0 .. n),
           0 \in Good,
           \A i \in Good : i < n => i + 1 \in Good
    PROVE  Good = 0 .. n
<1> DEFINE Bad == (0 .. n) \ Good
<1> SUFFICES ASSUME Bad # {} PROVE FALSE
  OBVIOUS
<1>1. PICK m \in Bad : \A i \in Bad : m <= i
  <2>1. Bad \in SUBSET Nat
    OBVIOUS
  <2> HIDE DEF Bad
  <2>2. QED
    BY <2>1, Least
<1>2. m \in Nat /\ m # 0 /\ m <= n
  BY <1>1
<1>3. m - 1 \in 0 .. n /\ m - 1 \notin Bad
  BY <1>1, <1>2
<1>4. m \in Good
  BY <1>2, <1>3
<1>5. QED
  BY <1>1, <1>4

-----------------------------------------------------------------------------
(* Vectors.                                                                 *)

\* An entry is in a vector.
Has(v, e) == \E i \in 1 .. Len(v) : v[i] = e

\* A callback is in a vector once.
Distinct(v) == \A i, l \in 1 .. Len(v) : v[i].call = v[l].call => i = l

\* The last entry takes the place of the one that is removed.
LEMMA SwapRemoves ==
    ASSUME NEW S, NEW v \in Seq(S), NEW i \in 1 .. Len(v)
    PROVE  /\ SwapRemove(v, i) \in Seq(S)
           /\ Len(SwapRemove(v, i)) = Len(v) - 1
           /\ \A x \in 1 .. Len(v) - 1 : SwapRemove(v, i)[x] = IF x = i THEN v[Len(v)] ELSE v[x]
<1>1. Len(v) \in Nat /\ Len(v) >= 1 /\ \A x \in 1 .. Len(v) : v[x] \in S
  OBVIOUS
<1>2. \A x \in 1 .. Len(v) - 1 : (IF x = i THEN v[Len(v)] ELSE v[x]) \in S
  BY <1>1
<1>3. QED
  BY <1>1, <1>2 DEF SwapRemove

\* Whose values are different loses exactly the one that is removed.
LEMMA SwapKeeps ==
    ASSUME NEW S, NEW v \in Seq(S), NEW i \in 1 .. Len(v),
           \A x, y \in 1 .. Len(v) : v[x] = v[y] => x = y
    PROVE  \A e : Has(SwapRemove(v, i), e) <=> Has(v, e) /\ e # v[i]
<1> DEFINE w == SwapRemove(v, i)
           n == Len(v)
<1>1. /\ Len(w) = n - 1 /\ n \in Nat /\ n >= 1
      /\ \A x \in 1 .. n - 1 : w[x] = IF x = i THEN v[n] ELSE v[x]
  <2>1. Len(v) \in Nat /\ Len(v) >= 1
    OBVIOUS
  <2>2. QED
    BY <2>1, SwapRemoves, Zenon
<1> HIDE DEF w
<1>2. ASSUME NEW e, NEW x \in 1 .. n - 1, w[x] = e
      PROVE  Has(v, e) /\ e # v[i]
  BY <1>1, <1>2 DEF Has
<1>3. ASSUME NEW e, NEW x \in 1 .. n, v[x] = e, e # v[i]
      PROVE  \E y \in 1 .. n - 1 : w[y] = e
  <2>1. CASE x = n
    <3>1. i \in 1 .. n - 1 /\ w[i] = e
      BY <1>1, <1>3, <2>1
    <3>2. QED
      BY <3>1
  <2>2. CASE x # n
    <3>1. x \in 1 .. n - 1 /\ w[x] = e
      BY <1>1, <1>3, <2>2
    <3>2. QED
      BY <3>1
  <2>3. QED
    BY <2>1, <2>2
<1>4. QED
  BY <1>1, <1>2, <1>3 DEF Has, w

\* Of the client whose entry is removed there is one less, the others have as
\* many as before.
LEMMA SwapCounts ==
    ASSUME NEW v \in Seq(Entries), NEW i \in 1 .. Len(v), NEW u
    PROVE  /\ IsFiniteSet(EntriesOf(v, u)) /\ Cardinality(EntriesOf(v, u)) \in Nat
           /\ IsFiniteSet(EntriesOf(SwapRemove(v, i), u))
           /\ Cardinality(EntriesOf(SwapRemove(v, i), u))
                = Cardinality(EntriesOf(v, u)) - (IF v[i].client = u THEN 1 ELSE 0)
<1> DEFINE w == SwapRemove(v, i)
           n == Len(v)
           A == EntriesOf(v, u)
           B == EntriesOf(w, u)
<1>1. /\ Len(w) = n - 1 /\ n \in Nat /\ n >= 1
      /\ \A x \in 1 .. n - 1 : w[x] = IF x = i THEN v[n] ELSE v[x]
  <2>1. Len(v) \in Nat /\ Len(v) >= 1
    OBVIOUS
  <2>2. QED
    BY <2>1, SwapRemoves, Zenon
<1> HIDE DEF w, n
<1>2. /\ \A x : x \in A <=> x \in 1 .. n /\ v[x].client = u
      /\ \A x : x \in B <=> x \in 1 .. n - 1 /\ w[x].client = u
  BY <1>1 DEF EntriesOf, n
<1> HIDE DEF A, B
<1>3. i \in 1 .. n /\ IsFiniteSet(1 .. n)
  BY <1>1, FS_Interval DEF n
<1>4. A \in SUBSET (1 .. n)
  BY <1>2
<1>5. IsFiniteSet(A) /\ Cardinality(A) \in Nat
  BY <1>3, <1>4, FS_Subset, FS_CardinalityType
<1>6. CASE v[i].client = u /\ v[n].client = u
  <2>1. n \in A /\ \A x : x \in B <=> x \in A \ {n}
    <3>1. \A x \in 1 .. n - 1 : w[x].client = u <=> v[x].client = u
      BY <1>1, <1>6
    <3>2. n \in 1 .. n /\ \A x : x \in 1 .. n - 1 <=> x \in 1 .. n /\ x # n
      BY <1>1
    <3>3. QED
      BY <1>2, <1>6, <3>1, <3>2
  <2>2. B = A \ {n}
    BY <2>1, Zenon
  <2>3. QED
    BY <1>5, <1>6, <2>1, <2>2, FS_RemoveElement DEF A, B, w
<1>7. CASE v[i].client = u /\ v[n].client # u
  <2>1. i \in A /\ \A x : x \in B <=> x \in A \ {i}
    BY <1>1, <1>2, <1>3, <1>7
  <2>2. B = A \ {i}
    BY <2>1, Zenon
  <2>3. QED
    BY <1>5, <1>7, <2>1, <2>2, FS_RemoveElement DEF A, B, w
<1>8. CASE v[i].client # u /\ v[n].client = u
  <2>1. n \in A /\ i \notin A \ {n} /\ \A x : x \in B <=> x \in (A \ {n}) \cup {i}
    <3>1. n \in A /\ i \notin A /\ i # n
      BY <1>1, <1>2, <1>8
    <3>2. i \in 1 .. n - 1 /\ w[i] = v[n]
      BY <1>1, <1>3, <3>1
    <3>3. i \in B
      BY <1>2, <1>8, <3>2
    <3>4. ASSUME NEW x, x # i PROVE x \in B <=> x \in A /\ x # n
      <4>1. x \in 1 .. n - 1 => w[x] = v[x]
        BY <1>1, <3>4
      <4>2. x \in 1 .. n - 1 <=> x \in 1 .. n /\ x # n
        BY <1>1
      <4>3. QED
        BY <1>2, <4>1, <4>2
    <3>5. QED
      BY <3>1, <3>3, <3>4, Zenon
  <2>2. B = (A \ {n}) \cup {i}
    BY <2>1, Zenon
  <2>3. IsFiniteSet(A \ {n}) /\ Cardinality(A \ {n}) = Cardinality(A) - 1
    BY <1>5, <2>1, FS_RemoveElement
  <2>4. IsFiniteSet(B) /\ Cardinality(B) = Cardinality(A)
    <3> DEFINE C == A \ {n}
    <3> HIDE DEF C
    <3>1. IsFiniteSet(C) /\ Cardinality(C) = Cardinality(A) - 1 /\ i \notin C
      BY <2>1, <2>3 DEF C
    <3>2. IsFiniteSet(C \cup {i}) /\ Cardinality(C \cup {i}) = Cardinality(C) + 1
      BY <3>1, FS_AddElement
    <3>3. B = C \cup {i}
      BY <2>2 DEF C
    <3>4. QED
      BY <1>5, <3>1, <3>2, <3>3
  <2>5. QED
    BY <1>5, <1>8, <2>4 DEF A, B, w
<1>9. CASE v[i].client # u /\ v[n].client # u
  <2>1. \A x : x \in B <=> x \in A
    BY <1>1, <1>2, <1>3, <1>9
  <2>2. B = A
    BY <2>1, Zenon
  <2>3. QED
    BY <1>5, <1>9, <2>2 DEF A, B, w
<1>10. QED
  BY <1>6, <1>7, <1>8, <1>9

\* Callbacks stay different.
LEMMA SwapDistinct ==
    ASSUME NEW v \in Seq(Entries), NEW i \in 1 .. Len(v), Distinct(v)
    PROVE  /\ Distinct(SwapRemove(v, i))
           /\ \A e : Has(SwapRemove(v, i), e) <=> Has(v, e) /\ e # v[i]
<1> DEFINE w == SwapRemove(v, i)
           n == Len(v)
<1>1. /\ Len(w) = n - 1 /\ n \in Nat /\ n >= 1
      /\ \A x \in 1 .. n - 1 : w[x] = IF x = i THEN v[n] ELSE v[x]
  <2>1. Len(v) \in Nat /\ Len(v) >= 1
    OBVIOUS
  <2>2. QED
    BY <2>1, SwapRemoves, Zenon
<1> HIDE DEF w
<1>2. \A x, y \in 1 .. n : v[x].call = v[y].call => x = y
  BY DEF Distinct
<1>3. ASSUME NEW x \in 1 .. n - 1, NEW y \in 1 .. n - 1, w[x].call = w[y].call
      PROVE  x = y
  <2>1. x \in 1 .. n /\ y \in 1 .. n /\ n \in 1 .. n /\ x # n /\ y # n
    BY <1>1
  <2>2. QED
    BY <1>1, <1>2, <1>3, <2>1
<1>4. Distinct(w)
  BY <1>1, <1>3 DEF Distinct
<1>5. \A x, y \in 1 .. Len(v) : v[x] = v[y] => x = y
  BY <1>2
<1>6. QED
  BY <1>4, <1>5, SwapKeeps DEF w

\* One turn of notice_compact_notice_katcp, and what any number of them leave.
Step(w, u) ==
    IF EntriesOf(w, u) = {} THEN w ELSE SwapRemove(w, Min(EntriesOf(w, u)))

Steps(rest, v, u, n) ==
    rest = [i \in 0 .. n |-> IF i = 0 THEN v ELSE Step(rest[i - 1], u)]

Kept(v, w, u) ==
    /\ w \in Seq(Entries)
    /\ \A x : x # u => Cardinality(EntriesOf(w, x)) = Cardinality(EntriesOf(v, x))
    /\ Distinct(v) =>
          /\ Distinct(w)
          /\ \A e : (Has(w, e) => Has(v, e)) /\ (Has(v, e) /\ e.client # u => Has(w, e))

LEMMA StepsExist ==
    ASSUME NEW v, NEW u, NEW N \in Nat
    PROVE  \E rest : Steps(rest, v, u, N)
<1> DEFINE Good == {n \in 0 .. N : \E rest : Steps(rest, v, u, n)}
<1>1. 0 \in Good
  <2> DEFINE r == [i \in 0 .. 0 |-> v]
  <2>1. Steps(r, v, u, 0)
    <3>1. \A i \in 0 .. 0 : i = 0
      OBVIOUS
    <3>2. r = [i \in 0 .. 0 |-> IF i = 0 THEN v ELSE Step(r[i - 1], u)]
      BY <3>1
    <3>3. QED
      BY <3>2 DEF Steps
  <2>2. QED
    BY <2>1
<1>2. ASSUME NEW n \in Good, n < N
      PROVE  n + 1 \in Good
  <2>1. PICK g : Steps(g, v, u, n)
    OBVIOUS
  <2> DEFINE h == [i \in 0 .. n + 1 |-> IF i = n + 1 THEN Step(g[n], u) ELSE g[i]]
  <2>2. \A i \in 0 .. n : g[i] = IF i = 0 THEN v ELSE Step(g[i - 1], u)
    BY <2>1 DEF Steps
  <2>3. \A i \in 0 .. n + 1 : h[i] = IF i = 0 THEN v ELSE Step(h[i - 1], u)
    <3> SUFFICES ASSUME NEW i \in 0 .. n + 1
                 PROVE  h[i] = IF i = 0 THEN v ELSE Step(h[i - 1], u)
      OBVIOUS
    <3>1. CASE i = n + 1
      <4>1. i # 0 /\ i - 1 = n /\ n \in 0 .. n + 1 /\ n # n + 1
        BY <3>1
      <4>2. h[i] = Step(g[n], u) /\ h[n] = g[n]
        BY <3>1, <4>1
      <4>3. QED
        BY <4>1, <4>2
    <3>2. CASE i # n + 1 /\ i # 0
      <4>1. i \in 0 .. n /\ i - 1 \in 0 .. n + 1 /\ i - 1 # n + 1
        BY <3>2
      <4>2. h[i] = g[i] /\ h[i - 1] = g[i - 1]
        BY <3>2, <4>1
      <4>3. QED
        BY <2>2, <3>2, <4>1, <4>2
    <3>3. CASE i = 0
      <4>1. 0 \in 0 .. n /\ 0 # n + 1
        OBVIOUS
      <4>2. QED
        BY <2>2, <3>3, <4>1
    <3>4. QED
      BY <3>1, <3>2, <3>3
  <2>4. h = [i \in 0 .. n + 1 |-> h[i]]
    OBVIOUS
  <2> HIDE DEF h
  <2>5. h = [i \in 0 .. n + 1 |-> IF i = 0 THEN v ELSE Step(h[i - 1], u)]
    BY <2>3, <2>4
  <2>6. Steps(h, v, u, n + 1)
    BY <2>5 DEF Steps
  <2>7. QED
    BY <1>2, <2>6
<1>3. Good \in SUBSET (0 .. N)
  OBVIOUS
<1> HIDE DEF Good
<1>4. Good = 0 .. N
  BY <1>1, <1>2, <1>3, UpTo
<1>5. N \in Good
  BY <1>4
<1>6. QED
  BY <1>5 DEF Good

LEMMA CompactedSteps ==
    ASSUME NEW v \in Seq(Entries), NEW u
    PROVE  \E rest : Steps(rest, v, u, Len(v)) /\ Compacted(v, u) = rest[Len(v)]
<1> DEFINE r == CHOOSE rest : Steps(rest, v, u, Len(v))
<1>1. Compacted(v, u) = r[Len(v)]
  BY Zenon DEF Compacted, Steps, Step
<1>2. Steps(r, v, u, Len(v))
  BY StepsExist
<1>3. QED
  BY <1>1, <1>2

LEMMA StepKeeps ==
    ASSUME NEW v \in Seq(Entries), NEW w, NEW u, Kept(v, w, u)
    PROVE  /\ Kept(v, Step(w, u), u)
           /\ EntriesOf(w, u) = {} => Step(w, u) = w
           /\ EntriesOf(w, u) # {} => Len(Step(w, u)) = Len(w) - 1
<1>1. w \in Seq(Entries)
  BY DEF Kept
<1>2. CASE EntriesOf(w, u) = {}
  BY <1>2 DEF Step
<1>3. CASE EntriesOf(w, u) # {}
  <2> DEFINE i == Min(EntriesOf(w, u))
             x == SwapRemove(w, i)
  <2>1. i \in EntriesOf(w, u)
    <3>1. EntriesOf(w, u) \in SUBSET Nat
      BY <1>1 DEF EntriesOf
    <3>2. \E m \in EntriesOf(w, u) : \A n \in EntriesOf(w, u) : m <= n
      BY <1>3, <3>1, Least
    <3>3. QED
      BY <3>2 DEF Min
  <2> HIDE DEF i
  <2>2. i \in 1 .. Len(w) /\ w[i].client = u
    BY <2>1 DEF EntriesOf
  <2>3. x \in Seq(Entries) /\ Len(x) = Len(w) - 1
    BY <1>1, <2>2, SwapRemoves
  <2>4. \A c : c # u => Cardinality(EntriesOf(x, c)) = Cardinality(EntriesOf(v, c))
    <3> SUFFICES ASSUME NEW c, c # u
                 PROVE  Cardinality(EntriesOf(x, c)) = Cardinality(EntriesOf(v, c))
      OBVIOUS
    <3>1. /\ Cardinality(EntriesOf(w, c)) \in Nat
          /\ Cardinality(EntriesOf(x, c)) = Cardinality(EntriesOf(w, c)) - (IF w[i].client = c THEN 1 ELSE 0)
      BY <1>1, <2>2, SwapCounts
    <3>2. QED
      BY <2>2, <3>1 DEF Kept
  <2>5. ASSUME Distinct(v)
        PROVE  /\ Distinct(x)
               /\ \A e : (Has(x, e) => Has(v, e)) /\ (Has(v, e) /\ e.client # u => Has(x, e))
    <3>1. Distinct(w) /\ \A e : (Has(w, e) => Has(v, e)) /\ (Has(v, e) /\ e.client # u => Has(w, e))
      BY <2>5 DEF Kept
    <3>2. Distinct(x) /\ \A e : Has(x, e) <=> Has(w, e) /\ e # w[i]
      BY <1>1, <2>2, <3>1, SwapDistinct
    <3>3. QED
      BY <2>2, <3>1, <3>2
  <2>6. Step(w, u) = x
    BY <1>3 DEF Step, i
  <2> HIDE DEF x
  <2>7. QED
    BY <1>3, <2>3, <2>4, <2>5, <2>6 DEF Kept
<1>4. QED
  BY <1>2, <1>3

\* notice_compact_notice_katcp takes out all entries of a client, and no other.
LEMMA Compacts ==
    ASSUME NEW v \in Seq(Entries), NEW u
    PROVE  Kept(v, Compacted(v, u), u) /\ EntriesOf(Compacted(v, u), u) = {}
<1> DEFINE N == Len(v)
<1>1. PICK rest : Steps(rest, v, u, N) /\ Compacted(v, u) = rest[N]
  BY CompactedSteps
<1>2. N \in Nat
  OBVIOUS
<1>3. \A i \in 0 .. N : rest[i] = IF i = 0 THEN v ELSE Step(rest[i - 1], u)
  BY <1>1 DEF Steps
<1> DEFINE Good == {i \in 0 .. N : /\ Kept(v, rest[i], u)
                                   /\ EntriesOf(rest[i], u) = {} \/ Len(rest[i]) = N - i}
<1>4. 0 \in Good
  <2>1. Kept(v, v, u)
    BY DEF Kept
  <2>2. 0 \in 0 .. N /\ rest[0] = v
    BY <1>2, <1>3
  <2>3. QED
    BY <2>1, <2>2
<1>5. ASSUME NEW i \in Good, i < N
      PROVE  i + 1 \in Good
  <2>1. i \in 0 .. N /\ i + 1 \in 0 .. N /\ i + 1 # 0 /\ (i + 1) - 1 = i
    BY <1>2, <1>5
  <2>2. rest[i + 1] = Step(rest[i], u)
    BY <1>3, <2>1
  <2>3. Kept(v, rest[i], u) /\ (EntriesOf(rest[i], u) = {} \/ Len(rest[i]) = N - i)
    OBVIOUS
  <2>4. /\ Kept(v, rest[i + 1], u)
        /\ EntriesOf(rest[i], u) = {} => rest[i + 1] = rest[i]
        /\ EntriesOf(rest[i], u) # {} => Len(rest[i + 1]) = Len(rest[i]) - 1
    BY <2>2, <2>3, StepKeeps
  <2>5. EntriesOf(rest[i + 1], u) = {} \/ Len(rest[i + 1]) = N - (i + 1)
    BY <1>2, <2>1, <2>3, <2>4
  <2>6. QED
    BY <2>1, <2>4, <2>5
<1>6. Good \in SUBSET (0 .. N)
  OBVIOUS
<1>7. N \in Good
  <2> HIDE DEF Good, N
  <2>1. Good = 0 .. N
    BY <1>2, <1>4, <1>5, <1>6, UpTo
  <2>2. QED
    BY <1>2, <2>1
<1>8. Kept(v, rest[N], u) /\ (EntriesOf(rest[N], u) = {} \/ Len(rest[N]) = 0)
  BY <1>2, <1>7
<1>9. Len(rest[N]) = 0 => EntriesOf(rest[N], u) = {}
  BY DEF EntriesOf
<1>10. QED
  BY <1>1, <1>8, <1>9

\* An entry is added.
LEMMA AppendCounts ==
    ASSUME NEW v \in Seq(Entries), NEW e \in Entries, NEW u
    PROVE  /\ IsFiniteSet(EntriesOf(v, u)) /\ Cardinality(EntriesOf(v, u)) \in Nat
           /\ Cardinality(EntriesOf(Append(v, e), u))
                = Cardinality(EntriesOf(v, u)) + (IF e.client = u THEN 1 ELSE 0)
<1> DEFINE w == Append(v, e)
           n == Len(v)
           A == EntriesOf(v, u)
           B == EntriesOf(w, u)
<1>1. /\ n \in Nat /\ Len(w) = n + 1 /\ w[n + 1] = e
      /\ \A x \in 1 .. n : w[x] = v[x]
  OBVIOUS
<1> HIDE DEF w, n
<1>2. /\ \A x : x \in A <=> x \in 1 .. n /\ v[x].client = u
      /\ \A x : x \in B <=> x \in 1 .. n + 1 /\ w[x].client = u
  BY <1>1 DEF EntriesOf, n
<1> HIDE DEF A, B
<1>3. IsFiniteSet(1 .. n)
  <2>1. 1 \in Int /\ n \in Int
    BY <1>1
  <2>2. QED
    BY <2>1, FS_Interval
<1>4. A \in SUBSET (1 .. n) /\ n + 1 \notin A
  BY <1>1, <1>2
<1>5. IsFiniteSet(A) /\ Cardinality(A) \in Nat
  BY <1>3, <1>4, FS_Subset, FS_CardinalityType
<1>6. \A x : x \in 1 .. n + 1 <=> x \in 1 .. n \/ x = n + 1
  BY <1>1
<1>7. CASE e.client = u
  <2>1. \A x : x \in B <=> x \in A \cup {n + 1}
    BY <1>1, <1>2, <1>6, <1>7
  <2>2. B = A \cup {n + 1}
    BY <2>1, Zenon
  <2>3. Cardinality(B) = Cardinality(A) + 1
    BY <1>4, <1>5, <2>2, FS_AddElement
  <2>4. QED
    BY <1>5, <1>7, <2>3 DEF A, B, w
<1>8. CASE e.client # u
  <2>1. \A x : x \in B <=> x \in A
    BY <1>1, <1>2, <1>6, <1>8
  <2>2. B = A
    BY <2>1, Zenon
  <2>3. QED
    BY <1>5, <1>8, <2>2 DEF A, B, w
<1>9. QED
  BY <1>7, <1>8

LEMMA AppendHas ==
    ASSUME NEW S, NEW v \in Seq(S), NEW e \in S
    PROVE  \A f : Has(Append(v, e), f) <=> Has(v, f) \/ f = e
<1> DEFINE w == Append(v, e)
           n == Len(v)
<1>1. /\ n \in Nat /\ Len(w) = n + 1 /\ w[n + 1] = e
      /\ \A x \in 1 .. n : w[x] = v[x]
  OBVIOUS
<1> HIDE DEF w, n
<1>2. \A x : x \in 1 .. n + 1 <=> x \in 1 .. n \/ x = n + 1
  BY <1>1
<1>3. \A f : (\E x \in 1 .. n + 1 : w[x] = f) <=> (\E x \in 1 .. n : v[x] = f) \/ f = e
  BY <1>1, <1>2
<1>4. QED
  BY <1>1, <1>3 DEF Has, w, n

LEMMA AppendDistinct ==
    ASSUME NEW v \in Seq(Entries), NEW e \in Entries, Distinct(v), ~Duplicate(v, e.call)
    PROVE  Distinct(Append(v, e))
<1> DEFINE w == Append(v, e)
           n == Len(v)
<1>1. /\ n \in Nat /\ Len(w) = n + 1 /\ w[n + 1] = e
      /\ \A x \in 1 .. n : w[x] = v[x] /\ v[x].call # e.call
  BY DEF Duplicate
<1>2. \A x, y \in 1 .. n : v[x].call = v[y].call => x = y
  BY DEF Distinct
<1> HIDE DEF w, n
<1>3. \A x : x \in 1 .. n + 1 <=> x \in 1 .. n \/ x = n + 1
  BY <1>1
<1>4. QED
  BY <1>1, <1>2, <1>3 DEF Distinct, w

\* A vector without entries.
LEMMA EmptyVector ==
    /\ <<>> \in Seq(Entries) /\ Distinct(<<>>)
    /\ \A e : ~Has(<<>>, e)
    /\ \A u : EntriesOf(<<>>, u) = {} /\ Cardinality(EntriesOf(<<>>, u)) = 0
BY FS_EmptySet DEF Distinct, Has, EntriesOf

\* A client without entries.
LEMMA NoEntries ==
    ASSUME NEW v \in Seq(Entries), NEW u
    PROVE  /\ Cardinality(EntriesOf(v, u)) = 0 <=> EntriesOf(v, u) = {}
           /\ EntriesOf(v, u) = {} <=> \A e : Has(v, e) => e.client # u
<1>1. IsFiniteSet(EntriesOf(v, u))
  <2>1. EntriesOf(v, u) \in SUBSET (1 .. Len(v)) /\ IsFiniteSet(1 .. Len(v))
    BY FS_Interval DEF EntriesOf
  <2>2. QED
    BY <2>1, FS_Subset
<1>2. Cardinality(EntriesOf(v, u)) = 0 <=> EntriesOf(v, u) = {}
  BY <1>1, FS_EmptySet
<1>3. EntriesOf(v, u) = {} <=> \A e : Has(v, e) => e.client # u
  BY DEF EntriesOf, Has
<1>4. QED
  BY <1>2, <1>3

\* Being in a sequence.
LEMMA RangeHas ==
    ASSUME NEW S, NEW s \in Seq(S)
    PROVE  \A x : x \in Range(s) <=> Has(s, x)
BY DEF Range, Has

LEMMA Joined ==
    ASSUME NEW S, NEW s \in Seq(S), NEW t \in Seq(S)
    PROVE  s \o t \in Seq(S) /\ Len(s \o t) = Len(s) + Len(t)
OBVIOUS

\* A notice is taken out of the list.
LEMMA Removes ==
    ASSUME NEW S, NEW s \in Seq(S), NEW i \in 1 .. Len(s), IsInjective(s)
    PROVE  /\ RemoveAt(s, i) \in Seq(S) /\ Len(RemoveAt(s, i)) = Len(s) - 1
           /\ \A x \in 1 .. Len(s) - 1 : RemoveAt(s, i)[x] = IF x < i THEN s[x] ELSE s[x + 1]
           /\ IsInjective(RemoveAt(s, i))
           /\ \A x : Has(RemoveAt(s, i), x) <=> Has(s, x) /\ x # s[i]
<1> DEFINE a == SubSeq(s, 1, i - 1)
           b == SubSeq(s, i + 1, Len(s))
           t == RemoveAt(s, i)
           n == Len(s)
<1>1. n \in Nat /\ i \in Nat /\ i >= 1 /\ i <= n
  OBVIOUS
<1>2. a \in Seq(S) /\ Len(a) = i - 1 /\ \A x \in 1 .. i - 1 : a[x] = s[x]
  OBVIOUS
<1>3. b \in Seq(S) /\ Len(b) = n - i /\ \A x \in 1 .. n - i : b[x] = s[x + i]
  OBVIOUS
<1>4. t = a \o b
  BY DEF RemoveAt
<1> HIDE DEF a, b, t, n
<1>5. /\ t \in Seq(S) /\ Len(t) = n - 1
      /\ \A x \in 1 .. n - 1 : t[x] = IF x < i THEN s[x] ELSE s[x + 1]
  <2>1. t \in Seq(S) /\ Len(t) = n - 1
    <3>1. a \o b \in Seq(S) /\ Len(a \o b) = Len(a) + Len(b)
      BY <1>2, <1>3, Joined
    <3>2. (i - 1) + (n - i) = n - 1
      BY <1>1
    <3>3. QED
      BY <1>2, <1>3, <1>4, <3>1, <3>2
  <2>2. ASSUME NEW x \in 1 .. n - 1 PROVE t[x] = IF x < i THEN s[x] ELSE s[x + 1]
    <3>1. CASE x < i
      <4>1. x \in 1 .. i - 1 /\ t[x] = a[x]
        BY <1>1, <1>2, <1>3, <1>4, <3>1
      <4>2. QED
        BY <1>2, <3>1, <4>1
    <3>2. CASE ~(x < i)
      <4>1. x - (i - 1) \in 1 .. n - i /\ t[x] = b[x - (i - 1)] /\ (x - (i - 1)) + i = x + 1
        BY <1>1, <1>2, <1>3, <1>4, <3>2
      <4>2. QED
        BY <1>3, <3>2, <4>1
    <3>3. QED
      BY <3>1, <3>2
  <2>3. QED
    BY <2>1, <2>2
<1>6. \A x, y \in 1 .. n : s[x] = s[y] => x = y
  BY DEF IsInjective, n
<1>7. IsInjective(t)
  <2>1. ASSUME NEW x \in 1 .. n - 1, NEW y \in 1 .. n - 1, t[x] = t[y] PROVE x = y
    <3>1. x \in 1 .. n /\ y \in 1 .. n /\ x + 1 \in 1 .. n /\ y + 1 \in 1 .. n
      BY <1>1
    <3>2. QED
      BY <1>1, <1>5, <1>6, <2>1, <3>1
  <2>2. DOMAIN t = 1 .. n - 1
    BY <1>5
  <2>3. QED
    BY <2>1, <2>2 DEF IsInjective
<1>8. ASSUME NEW y \in 1 .. n - 1 PROVE Has(s, t[y]) /\ t[y] # s[i]
  <2>1. y \in 1 .. n /\ y + 1 \in 1 .. n /\ i \in 1 .. n
    BY <1>1
  <2>2. PICK z \in 1 .. n : t[y] = s[z] /\ z # i
    BY <1>1, <1>5, <2>1
  <2>3. QED
    BY <1>6, <2>1, <2>2 DEF Has, n
<1>9. ASSUME NEW z \in 1 .. n, s[z] # s[i] PROVE \E y \in 1 .. n - 1 : t[y] = s[z]
  <2>1. z # i
    BY <1>9
  <2>2. CASE z < i
    <3>1. z \in 1 .. n - 1 /\ t[z] = s[z]
      BY <1>1, <1>5, <2>2
    <3>2. QED
      BY <3>1
  <2>3. CASE z > i
    <3>1. z - 1 \in 1 .. n - 1 /\ ~(z - 1 < i) /\ (z - 1) + 1 = z
      BY <1>1, <2>3
    <3>2. t[z - 1] = s[z]
      BY <1>5, <3>1
    <3>3. QED
      BY <3>1, <3>2
  <2>4. QED
    BY <1>1, <2>1, <2>2, <2>3
<1>10. \A x : Has(t, x) <=> Has(s, x) /\ x # s[i]
  BY <1>5, <1>8, <1>9 DEF Has, n
<1>11. QED
  BY <1>5, <1>7, <1>10 DEF t, n

-----------------------------------------------------------------------------
(* The inductive invariant.                                                 *)

Entry(u, call) == [client |-> u, call |-> call]

\* Clients and jobs: a client is in the table once, what it has sent is within
\* the bound, a job has both its notices or none, and they are its own or, to
\* be woken at the end, one that has a name.
Placed ==
  /\ IsInjective(table)
  /\ \A c \in Clients : inbox[c] + budget <= Budget
  /\ \A j \in Jobs :
       /\ map[j] \in {Null, MapOf(j)}
       /\ halt[j] \in Names \cup {Null, HaltOf(j)}
       /\ map[j] = Null <=> halt[j] = Null

\* The template is called for log messages only, everybody else is a client
\* that the server has.
Shaped ==
  \A n \in Ids :
    /\ Distinct(vector[n])
    /\ \A e \in Entries : Has(vector[n], e) =>
         /\ e.client = Template <=> e.call = "log"
         /\ e.client \in Range(table) \cup {Template}

\* Who may ask to be called again has no other entry in the vector, so that
\* dispatch_compact_notice_katcp does not take its reference away.
Again(e) == e.call \in {"relay", "log"}

Alone ==
  \A n \in Ids : \A e, f \in Entries :
    Has(vector[n], e) /\ Has(vector[n], f) /\ Again(e) /\ e.client = f.client => e = f

\* A client waits for one notice at a time, paused.
Resumes(c, n) == Has(vector[n], Entry(c, "resume"))

Waiting ==
  \A c \in Clients, n \in Ids :
    Resumes(c, n) => pause[c] /\ \A m \in Ids : Resumes(c, m) => m = n

\* Nobody but the job wakes the halt notice of a command run as a subprocess,
\* and when it does it lets go of it.
Halting ==
  \A j \in Jobs :
    /\ timers[HaltOf(j)] = 0
    /\ halt[j] = HaltOf(j) =>
         ~trigger[HaltOf(j)] /\ ~(pc = "call" /\ notices[at] = HaltOf(j))

EndsIn(q, m) == q # <<>> /\ q[Len(q)] = m

\* The last message of a job is on its way to the subscribers of its map
\* notice: queued, or, while the notice is run, the current one or still to
\* come.  No client is handled before it has been.
Returning(j) ==
  /\ map[j] = Null
  /\ \/ /\ trigger[MapOf(j)] /\ EndsIn(queue[MapOf(j)], "return")
        /\ pc \in {"jobs", "notice", "call", "leave"}
     \/ /\ pc = "call" /\ notices[at] = MapOf(j)
        /\ \/ EndsIn(queue[MapOf(j)], "return")
           \/ parse[MapOf(j)] = "return" /\ queue[MapOf(j)] = <<>>

\* A client has the informs of a job relayed to it while it waits for the end
\* of the job, or until it is called with the last message.
Relayed ==
  \A c \in Users, n \in Ids :
    Has(vector[n], Entry(c, "relay")) =>
      \E j \in Jobs :
        /\ n = MapOf(j)
        /\ (halt[j] = HaltOf(j) /\ c \in Clients /\ Resumes(c, HaltOf(j))) \/ Returning(j)

\* The run of a notice: how many messages are left; who has been called and is
\* still there is to be called again, which nobody is with the last message or
\* without one; a client may have lost its references if all its entries are
\* yet to be called and go then.
Fetched(n) ==
  \/ limit = Len(queue[n]) + 1 /\ parse[n] # None
  \/ limit = 0 /\ queue[n] = <<>> /\ parse[n] = None

Linked(n) ==
  \A u \in Users :
    \/ links[u][n] = Cardinality(EntriesOf(vector[n], u))
    \/ /\ links[u][n] = 0
       /\ \A i \in EntriesOf(vector[n], u) : i >= k /\ ~Again(vector[n][i])

InCall ==
  /\ \A n \in Ids : parse[n] # None => pc = "call" /\ n = notices[at]
  /\ pc = "call" =>
       /\ Fetched(notices[at])
       /\ Message(notices[at]) \in {None, "return"} => k = 1
       /\ k <= Len(vector[notices[at]]) + 1
       /\ \A i \in 1 .. k - 1 : Again(vector[notices[at]][i])
       /\ Linked(notices[at])

\* What has been visited in this turn is not triggered again.
Untriggered ==
  /\ pc \in {"notice", "call", "leave"} =>
       \A i \in 1 .. Len(notices) : i < at => ~trigger[notices[i]]
  /\ pc \in {"call", "leave"} => ~trigger[notices[at]]
  /\ pc \in {"accept", "select"} => \A n \in Ids : ~trigger[n]

\* A client with requests left is paused, has output, or is being visited.
Reminded ==
  \A i \in 1 .. Len(table) :
    \/ pc \in {"read", "dispatch"} /\ i = at
    \/ inbox[table[i]] > 0 => pause[table[i]] \/ out[table[i]] \/ exiting[table[i]]

NoticeInv ==
  /\ TypeOK /\ NoDangling /\ LinksExact /\ EachOnce
  /\ Placed /\ Shaped /\ Alone /\ Waiting /\ Halting /\ Relayed /\ InCall
  /\ Untriggered /\ Reminded

-----------------------------------------------------------------------------
(* The actions.                                                             *)

\* The ways to go on with a client that stays, and to let go of one.
Lingers(c) ==
  /\ pc = "read" /\ Visiting(c) /\ exiting[c] /\ out[c]
  /\ NextClient /\ UNCHANGED <<core, links, pause, conns, holders, budget>>

Departs(c) ==
  /\ pc \in {"visit", "read", "dispatch"} /\ Visiting(c)
  /\ Disconnect(c)

LoopStep ==
  Select \/ TimersDone \/ VisitsDone \/ JobsDone \/ NoticesDone \/ AcceptNobody

NoticeStep(n) == TimerFires(n) \/ Begin(n) \/ Call(n) \/ NextMessage(n) \/ Leave(n)

ClientStep(c) ==
  \/ Write(c) \/ WriteNothing(c) \/ Lingers(c) \/ Departs(c) \/ Read(c) \/ DispatchDone(c)
  \/ OtherRequest(c) \/ Connect(c) \/ Perforate(c)

RequestStep(c, n) == Watch(c, n) \/ Wake(c, n) \/ WakeLater(c, n)

StartStep(c, j) ==
  (\E n \in Names : StartProcess(c, j, n)) \/ StartSubprocess(c, j) \/ Match(c, j)

LEMMA Cases ==
    ASSUME Next
    PROVE  \/ LoopStep
           \/ \E n \in Ids : NoticeStep(n)
           \/ \E c \in Clients : ClientStep(c)
           \/ \E c \in Clients, n \in Ids : RequestStep(c, n)
           \/ \E c \in Clients, j \in Jobs : StartStep(c, j)
           \/ \E j \in Jobs : JobInform(j) \/ JobFinish(j)
<1>1. ASSUME NEW c \in Clients, Visit(c) PROVE ClientStep(c)
  <2>1. CASE WriteFails(c)
    BY <2>1 DEF WriteFails, ClientStep, Departs
  <2>2. CASE Exited(c)
    BY <2>2 DEF Exited, ClientStep, Departs, Lingers
  <2>3. CASE ReadEnd(c) \/ DispatchFails(c)
    BY <2>3 DEF ReadEnd, DispatchFails, ClientStep, Departs
  <2>4. QED
    BY <1>1, <2>1, <2>2, <2>3 DEF Visit, ClientStep
<1>2. ASSUME NEW c \in Clients, Handle(c)
      PROVE  \/ ClientStep(c)
             \/ \E n \in Ids : RequestStep(c, n)
             \/ \E j \in Jobs : StartStep(c, j)
  BY <1>2 DEF Handle, ClientStep, RequestStep, StartStep
<1>3. QED
  BY <1>1, <1>2 DEF Next, Run, LoopStep, NoticeStep, ClientStep

\* The notices of names and of jobs are all different.
LEMMA IdsDiffer ==
    /\ Null \notin Ids /\ Names \subseteq Ids
    /\ \A j \in Jobs : /\ HaltOf(j) \in Ids /\ MapOf(j) \in Ids
                       /\ HaltOf(j) \notin Names /\ MapOf(j) \notin Names
    /\ \A i, j \in Jobs : /\ HaltOf(i) # MapOf(j)
                          /\ HaltOf(i) = HaltOf(j) => i = j
                          /\ MapOf(i) = MapOf(j) => i = j
<1>1. \A j \in Jobs : Null \notin Names /\ HaltOf(j) \notin Names /\ MapOf(j) \notin Names
  BY NamesAssumption
<1>2. \A i, j : /\ HaltOf(i) # MapOf(j) /\ HaltOf(i) # Null /\ MapOf(i) # Null
                /\ HaltOf(i) = HaltOf(j) => i = j
                /\ MapOf(i) = MapOf(j) => i = j
  BY DEF HaltOf, MapOf, Null
<1>3. Null \notin Ids
  BY <1>1, <1>2, NamesAssumption DEF Ids
<1>4. QED
  BY <1>1, <1>2, <1>3 DEF Ids

\* A client that goes is disowned by the notices it refers to.
LEMMA Departure ==
    ASSUME TypeOK, NEW c \in Clients, Visiting(c), Release(c)
    PROVE  /\ at \in 1 .. Len(table) /\ c = table[at]
           /\ vector' \in [Ids -> Seq(Entries)]
           /\ \A n \in Ids : vector'[n] = IF links[c][n] > 0 THEN Compacted(vector[n], c) ELSE vector[n]
           /\ \A n \in Ids : Kept(vector[n], vector'[n], c)
           /\ \A n \in Ids : links[c][n] > 0 => EntriesOf(vector'[n], c) = {}
           /\ \A n \in Ids : links'[c][n] = 0
           /\ \A u \in Users : u # c => links'[u] = links[u]
           /\ \A x \in Clients : x # c => pause'[x] = pause[x]
<1>1. /\ vector \in [Ids -> Seq(Entries)] /\ links \in [Users -> [Ids -> Nat]]
      /\ pause \in [Clients -> BOOLEAN] /\ c \in Users
      /\ table \in Seq(Clients) /\ at \in Nat \ {0}
  BY DEF TypeOK, Users
<1>2. \A n \in Ids : Kept(vector[n], vector[n], c)
  BY <1>1 DEF Kept
<1>3. \A n \in Ids : /\ Kept(vector[n], Compacted(vector[n], c), c)
                     /\ EntriesOf(Compacted(vector[n], c), c) = {}
  BY <1>1, Compacts
<1>4. vector' = [n \in Ids |-> IF links[c][n] > 0 THEN Compacted(vector[n], c) ELSE vector[n]]
  BY DEF Release, Disowned
<1>5. \A n \in Ids : vector'[n] = IF links[c][n] > 0 THEN Compacted(vector[n], c) ELSE vector[n]
  BY <1>4
<1>6. \A n \in Ids : Kept(vector[n], vector'[n], c)
  BY <1>2, <1>3, <1>5
<1>7. vector' \in [Ids -> Seq(Entries)]
  <2>1. \A n \in Ids : vector'[n] \in Seq(Entries)
    BY <1>6 DEF Kept
  <2>2. vector' = [n \in Ids |-> vector'[n]]
    BY <1>4
  <2>3. QED
    BY <2>1, <2>2
<1>8. \A n \in Ids : links[c][n] > 0 => EntriesOf(vector'[n], c) = {}
  BY <1>3, <1>5
<1>9. /\ \A n \in Ids : links'[c][n] = 0
      /\ \A u \in Users : u # c => links'[u] = links[u]
      /\ \A x \in Clients : x # c => pause'[x] = pause[x]
  BY <1>1 DEF Release
<1>10. at \in 1 .. Len(table) /\ c = table[at]
  BY <1>1 DEF Visiting
<1>11. QED
  BY <1>5, <1>6, <1>7, <1>8, <1>9, <1>10

\* The table without a client.
LEMMA DepartureTable ==
    ASSUME TypeOK, IsInjective(table), NEW c \in Clients, Visiting(c), Release(c)
    PROVE  /\ table' \in Seq(Clients) /\ Len(table') = Len(table) - 1 /\ IsInjective(table')
           /\ \A i \in 1 .. Len(table) - 1 : table'[i] = IF i = at THEN table[Len(table)] ELSE table[i]
           /\ \A x : x \in Range(table') <=> x \in Range(table) /\ x # c
<1>1. /\ table \in Seq(Clients) /\ at \in 1 .. Len(table) /\ table[at] = c
      /\ table' = SwapRemove(table, at)
  BY Departure DEF TypeOK, Release
<1>2. \A x, y \in 1 .. Len(table) : table[x] = table[y] => x = y
  BY <1>1 DEF IsInjective
<1>3. /\ table' \in Seq(Clients) /\ Len(table') = Len(table) - 1
      /\ \A i \in 1 .. Len(table) - 1 : table'[i] = IF i = at THEN table[Len(table)] ELSE table[i]
  BY <1>1, SwapRemoves
<1>4. \A x : Has(table', x) <=> Has(table, x) /\ x # c
  BY <1>1, <1>2, SwapKeeps
<1>5. IsInjective(table')
  <2>1. DOMAIN table' = 1 .. Len(table) - 1 /\ Len(table) \in Nat
    BY <1>1, <1>3
  <2>2. ASSUME NEW x \in 1 .. Len(table) - 1, NEW y \in 1 .. Len(table) - 1, table'[x] = table'[y]
        PROVE  x = y
    <3>1. x \in 1 .. Len(table) /\ y \in 1 .. Len(table) /\ Len(table) \in 1 .. Len(table)
          /\ x # Len(table) /\ y # Len(table)
      BY <2>1
    <3>2. QED
      BY <1>2, <1>3, <2>2, <3>1
  <2>3. QED
    BY <2>1, <2>2 DEF IsInjective
<1>6. \A x : x \in Range(table') <=> x \in Range(table) /\ x # c
  BY <1>1, <1>3, <1>4, RangeHas
<1>7. QED
  BY <1>3, <1>5, <1>6

\* A subscription.
LEMMA Subscribes ==
    ASSUME vector \in [Ids -> Seq(Entries)], links \in [Users -> [Ids -> Nat]],
           NEW u \in Users, NEW n \in Ids, NEW call \in Calls, AddNotice(u, n, call)
    PROVE  /\ vector' \in [Ids -> Seq(Entries)] /\ links' \in [Users -> [Ids -> Nat]]
           /\ \A m \in Ids : m # n => vector'[m] = vector[m] /\ \A x \in Users : links'[x][m] = links[x][m]
           /\ \A x \in Users : x # u => links'[x] = links[x]
           /\ \/ vector'[n] = vector[n] /\ links'[u][n] = links[u][n] /\ Duplicate(vector[n], call)
              \/ /\ vector'[n] = Append(vector[n], Entry(u, call)) /\ links'[u][n] = links[u][n] + 1
                 /\ ~Duplicate(vector[n], call)
<1>1. Entry(u, call) \in Entries
  BY DEF Entry, Entries
<1>2. CASE Duplicate(vector[n], call)
  BY <1>2 DEF AddNotice
<1>3. CASE ~Duplicate(vector[n], call)
  <2>1. /\ vector' = [vector EXCEPT ![n] = Append(@, Entry(u, call))]
        /\ links' = [links EXCEPT ![u][n] = @ + 1]
    BY <1>3 DEF AddNotice, Entry
  <2>2. Append(vector[n], Entry(u, call)) \in Seq(Entries)
    BY <1>1
  <2>3. QED
    BY <1>3, <2>1, <2>2
<1>4. QED
  BY <1>2, <1>3

-----------------------------------------------------------------------------
(* What the actions do, value by value.                                     *)

LEMMA Put ==
    ASSUME NEW S, NEW T, NEW f \in [S -> T], NEW x \in S, NEW v \in T
    PROVE  /\ [f EXCEPT ![x] = v] \in [S -> T]
           /\ [f EXCEPT ![x] = v][x] = v
           /\ \A y \in S : y # x => [f EXCEPT ![x] = v][y] = f[y]
  OBVIOUS

LEMMA TypeParts ==
    ASSUME TypeOK
    PROVE  /\ notices \in Seq(Ids) /\ vector \in [Ids -> Seq(Entries)] /\ use \in [Ids -> Nat]
           /\ trigger \in [Ids -> BOOLEAN] /\ queue \in [Ids -> Seq(Messages)]
           /\ parse \in [Ids -> Messages \cup {None}] /\ links \in [Users -> [Ids -> Nat]]
           /\ pause \in [Clients -> BOOLEAN] /\ table \in Seq(Clients)
           /\ inbox \in [Clients -> 0 .. Budget] /\ out \in [Clients -> BOOLEAN]
           /\ exiting \in [Clients -> BOOLEAN] /\ timers \in [Ids -> Nat]
           /\ halt \in [Jobs -> Ids \cup {Null}] /\ map \in [Jobs -> Ids \cup {Null}]
           /\ at \in Nat \ {0} /\ k \in Nat \ {0} /\ limit \in Int /\ budget \in 0 .. Budget
           /\ called \subseteq Entries
  BY DEF TypeOK

LEMMA Known ==
    /\ Clients \subseteq Users /\ Template \in Users
    /\ "inform" \in Messages /\ "return" \in Messages /\ "timeout" \in Messages
    /\ None \notin Messages
    /\ <<"return">> \in Seq(Messages) /\ <<"timeout">> \in Seq(Messages) /\ <<>> \in Seq(Messages)
    /\ \A call \in Calls, u \in Users : Entry(u, call) \in Entries
    /\ "resume" \in Calls /\ "match" \in Calls /\ "relay" \in Calls /\ "log" \in Calls
    /\ \A e \in Entries : e.client \in Users /\ e.call \in Calls
    /\ \A u, call : Entry(u, call).client = u /\ Entry(u, call).call = call
  BY DEF Users, Messages, None, Calls, Entries, Entry

LEMMA TimerFiresDoes ==
    ASSUME TypeOK, NEW n \in Ids, TimerFires(n)
    PROVE  /\ pc = "timers" /\ timers[n] > 0
           /\ timers' \in [Ids -> Nat] /\ use' \in [Ids -> Nat]
           /\ queue' \in [Ids -> Seq(Messages)] /\ trigger' \in [Ids -> BOOLEAN]
           /\ timers'[n] = timers[n] - 1 /\ use'[n] = (IF use[n] > 0 THEN use[n] - 1 ELSE use[n])
           /\ \A m \in Ids : m # n => /\ timers'[m] = timers[m] /\ use'[m] = use[m]
                                      /\ queue'[m] = queue[m] /\ trigger'[m] = trigger[m]
           /\ UNCHANGED <<notices, vector, parse, links, pause, table, inbox, out, exiting, halt, map,
                          pc, at, k, limit, called, budget>>
<1>1. /\ timers' = [timers EXCEPT ![n] = timers[n] - 1] /\ pc = "timers" /\ timers[n] > 0
      /\ queue' = [queue EXCEPT ![n] = <<"timeout">>]
      /\ trigger' = [trigger EXCEPT ![n] = TRUE]
      /\ use' = [use EXCEPT ![n] = IF use[n] > 0 THEN use[n] - 1 ELSE use[n]]
  BY DEF TimerFires, SetParse, Triggered, LetGo
<1>2. UNCHANGED <<notices, vector, parse, links, pause, table, inbox, out, exiting, halt, map,
                  pc, at, k, limit, called, budget>>
  BY DEF TimerFires, conns, loop
<1>3. timers[n] - 1 \in Nat /\ (IF use[n] > 0 THEN use[n] - 1 ELSE use[n]) \in Nat
  BY <1>1, TypeParts
<1>4. /\ timers' \in [Ids -> Nat] /\ timers'[n] = timers[n] - 1
      /\ \A m \in Ids : m # n => timers'[m] = timers[m]
  BY <1>1, <1>3, TypeParts, Put
<1>5. /\ use' \in [Ids -> Nat] /\ use'[n] = (IF use[n] > 0 THEN use[n] - 1 ELSE use[n])
      /\ \A m \in Ids : m # n => use'[m] = use[m]
  BY <1>1, <1>3, TypeParts, Put
<1>6. queue' \in [Ids -> Seq(Messages)] /\ \A m \in Ids : m # n => queue'[m] = queue[m]
  BY <1>1, TypeParts, Put, Known
<1>7. trigger' \in [Ids -> BOOLEAN] /\ \A m \in Ids : m # n => trigger'[m] = trigger[m]
  BY <1>1, TypeParts, Put
<1>8. QED
  BY <1>1, <1>2, <1>4, <1>5, <1>6, <1>7

LEMMA BeginDoes ==
    ASSUME TypeOK, NEW n \in Ids, Begin(n)
    PROVE  /\ pc = "notice" /\ pc' = "call" /\ k' = 1 /\ called' = {}
           /\ at \in 1 .. Len(notices) /\ n = notices[at] /\ trigger[n] /\ ~trigger'[n]
           /\ trigger' \in [Ids -> BOOLEAN] /\ limit' = Len(queue[n])
           /\ parse' \in [Ids -> Messages \cup {None}] /\ queue' \in [Ids -> Seq(Messages)]
           /\ IF queue[n] = <<>> THEN parse'[n] = None /\ queue'[n] = <<>>
              ELSE parse'[n] = Head(queue[n]) /\ queue'[n] = Tail(queue[n])
           /\ \A m \in Ids : m # n => /\ trigger'[m] = trigger[m] /\ parse'[m] = parse[m]
                                      /\ queue'[m] = queue[m]
           /\ UNCHANGED <<notices, vector, use, links, pause, table, inbox, out, exiting, timers, halt,
                          map, at, budget>>
<1>1. /\ trigger' = [trigger EXCEPT ![n] = FALSE] /\ limit' = Len(queue[n])
      /\ parse' = [parse EXCEPT ![n] = HeadOf(queue[n])]
      /\ queue' = [queue EXCEPT ![n] = TailOf(queue[n])]
      /\ pc = "notice" /\ pc' = "call" /\ k' = 1 /\ called' = {} /\ trigger[n]
      /\ at <= Len(notices) /\ n = notices[at]
  BY DEF Begin, Running
<1>2. UNCHANGED <<notices, vector, use, links, pause, table, inbox, out, exiting, timers, halt,
                  map, at, budget>>
  BY DEF Begin, conns, holders
<1>3. at \in 1 .. Len(notices)
  BY <1>1, TypeParts
<1>4. HeadOf(queue[n]) \in Messages \cup {None} /\ TailOf(queue[n]) \in Seq(Messages)
  <2>1. queue[n] \in Seq(Messages)
    BY TypeParts
  <2>2. QED
    BY <2>1, Known DEF HeadOf, TailOf
<1>5. /\ parse' \in [Ids -> Messages \cup {None}] /\ parse'[n] = HeadOf(queue[n])
      /\ \A m \in Ids : m # n => parse'[m] = parse[m]
  BY <1>1, <1>4, TypeParts, Put
<1>6. /\ queue' \in [Ids -> Seq(Messages)] /\ queue'[n] = TailOf(queue[n])
      /\ \A m \in Ids : m # n => queue'[m] = queue[m]
  BY <1>1, <1>4, TypeParts, Put
<1>7. trigger' \in [Ids -> BOOLEAN] /\ ~trigger'[n] /\ \A m \in Ids : m # n => trigger'[m] = trigger[m]
  BY <1>1, TypeParts
<1>8. QED
  BY <1>1, <1>2, <1>3, <1>5, <1>6, <1>7 DEF HeadOf, TailOf

\* A callback that is to be called again leaves everything as it is but what it
\* does to its client.
LEMMA CallDoes ==
    ASSUME TypeOK, NEW n \in Ids, Call(n)
    PROVE  /\ pc = "call" /\ at \in 1 .. Len(notices) /\ n = notices[at]
           /\ k \in 1 .. Len(vector[n]) /\ vector[n][k] \in Entries
           /\ called' = called \cup {vector[n][k]} /\ called' \subseteq Entries
           /\ out' \in [Clients -> BOOLEAN] /\ pause' \in [Clients -> BOOLEAN]
           /\ \A c \in Clients : out[c] => out'[c]
           /\ \A c \in Clients : pause'[c] # pause[c] =>
                 c = vector[n][k].client /\ vector[n][k].call = "resume" /\ out'[c]
           /\ IF Stays(vector[n][k], Message(n))
              THEN k' = k + 1 /\ UNCHANGED <<vector, links>>
              ELSE /\ k' = k
                   /\ vector' \in [Ids -> Seq(Entries)] /\ links' \in [Users -> [Ids -> Nat]]
                   /\ vector'[n] = SwapRemove(vector[n], k)
                   /\ \A m \in Ids : m # n => vector'[m] = vector[m]
                   /\ links'[vector[n][k].client][n] = 0
                   /\ \A u \in Users, m \in Ids :
                        u # vector[n][k].client \/ m # n => links'[u][m] = links[u][m]
           /\ UNCHANGED <<notices, use, trigger, queue, parse, table, inbox, exiting, timers, halt, map,
                          pc, at, limit, budget>>
<1>1. /\ pc = "call" /\ at <= Len(notices) /\ n = notices[at] /\ k <= Len(vector[n])
      /\ Called(vector[n][k], Message(n))
  BY DEF Call, Running
<1>2. /\ at \in 1 .. Len(notices) /\ vector[n] \in Seq(Entries) /\ k \in 1 .. Len(vector[n])
      /\ vector[n][k] \in Entries
  <2>1. at \in Nat \ {0} /\ k \in Nat \ {0} /\ vector[n] \in Seq(Entries) /\ notices \in Seq(Ids)
    BY TypeParts
  <2>2. at <= Len(notices) /\ k <= Len(vector[n])
    BY <1>1
  <2>3. QED
    BY <2>1, <2>2
<1> DEFINE e == vector[n][k]
<1>3. e \in Entries /\ e.client \in Users
  BY <1>2, Known
<1>4. UNCHANGED <<notices, use, trigger, queue, parse, table, inbox, exiting, timers, halt, map,
                  pc, at, limit, budget>>
  BY DEF Call, holders
<1>5. /\ IF Stays(e, Message(n)) THEN k' = k + 1 /\ UNCHANGED <<vector, links>>
         ELSE /\ k' = k /\ vector' = [vector EXCEPT ![n] = SwapRemove(vector[n], k)]
              /\ links' = [links EXCEPT ![e.client][n] = 0]
      /\ Called(e, Message(n))
  BY DEF Call, DispatchCompact
<1> HIDE DEF e
<1>6. called' = called \cup {e} /\ called' \subseteq Entries
  <2>1. called' = called \cup {e}
    BY <1>5 DEF Called
  <2>2. QED
    BY <1>3, <2>1, TypeParts
<1>7. Stays(e, Message(n)) => k' = k + 1 /\ UNCHANGED <<vector, links>>
  BY <1>5
<1>8. ASSUME ~Stays(e, Message(n))
      PROVE  /\ k' = k
             /\ vector' \in [Ids -> Seq(Entries)] /\ links' \in [Users -> [Ids -> Nat]]
             /\ vector'[n] = SwapRemove(vector[n], k)
             /\ \A m \in Ids : m # n => vector'[m] = vector[m]
             /\ links'[e.client][n] = 0
             /\ \A u \in Users, m \in Ids : u # e.client \/ m # n => links'[u][m] = links[u][m]
  <2>1. SwapRemove(vector[n], k) \in Seq(Entries)
    BY <1>2, SwapRemoves
  <2>2. /\ k' = k /\ vector' = [vector EXCEPT ![n] = SwapRemove(vector[n], k)]
        /\ links' = [links EXCEPT ![e.client][n] = 0]
    BY <1>5, <1>8
  <2>3. /\ vector' \in [Ids -> Seq(Entries)] /\ vector'[n] = SwapRemove(vector[n], k)
        /\ \A m \in Ids : m # n => vector'[m] = vector[m]
    BY <2>1, <2>2, TypeParts, Put
  <2>4. /\ links' \in [Users -> [Ids -> Nat]] /\ links'[e.client][n] = 0
        /\ \A u \in Users, m \in Ids : u # e.client \/ m # n => links'[u][m] = links[u][m]
    BY <1>3, <2>2, TypeParts
  <2>5. QED
    BY <2>2, <2>3, <2>4
<1>9. /\ out' \in [Clients -> BOOLEAN] /\ pause' \in [Clients -> BOOLEAN]
      /\ \A c \in Clients : out[c] => out'[c]
      /\ \A c \in Clients : pause'[c] # pause[c] => c = e.client /\ e.call = "resume" /\ out'[c]
  <2>1. /\ out' = [out EXCEPT ![e.client] = TRUE] \/ (out' = out /\ e.call # "resume")
        /\ pause' = IF e.call = "resume" THEN [pause EXCEPT ![e.client] = FALSE] ELSE pause
    BY <1>5 DEF Called
  <2>2. out \in [Clients -> BOOLEAN] /\ pause \in [Clients -> BOOLEAN]
    BY TypeParts
  <2>3. CASE out' = [out EXCEPT ![e.client] = TRUE]
    BY <2>1, <2>2, <2>3
  <2>4. CASE out' = out /\ e.call # "resume"
    BY <2>1, <2>2, <2>4
  <2>5. QED
    BY <2>1, <2>3, <2>4
<1>10. QED
  BY <1>1, <1>2, <1>4, <1>6, <1>7, <1>8, <1>9 DEF e

LEMMA NextMessageDoes ==
    ASSUME TypeOK, NEW n \in Ids, NextMessage(n)
    PROVE  /\ pc = "call" /\ at \in 1 .. Len(notices) /\ n = notices[at]
           /\ k > Len(vector[n]) /\ limit' = limit - 1
           /\ parse' \in [Ids -> Messages \cup {None}] /\ queue' \in [Ids -> Seq(Messages)]
           /\ \A m \in Ids : m # n => parse'[m] = parse[m] /\ queue'[m] = queue[m]
           /\ IF limit - 1 > 0 /\ queue[n] # <<>>
              THEN /\ parse'[n] = Head(queue[n]) /\ queue'[n] = Tail(queue[n])
                   /\ k' = 1 /\ called' = {} /\ pc' = "call"
              ELSE parse'[n] = None /\ pc' = "leave" /\ UNCHANGED <<queue, k, called>>
           /\ UNCHANGED <<notices, vector, use, trigger, links, pause, table, inbox, out, exiting,
                          timers, halt, map, at, budget>>
<1>1. /\ pc = "call" /\ at <= Len(notices) /\ n = notices[at] /\ k > Len(vector[n])
      /\ limit' = limit - 1
      /\ IF limit - 1 > 0 /\ queue[n] # <<>>
         THEN /\ parse' = [parse EXCEPT ![n] = Head(queue[n])]
              /\ queue' = [queue EXCEPT ![n] = Tail(queue[n])]
              /\ k' = 1 /\ called' = {} /\ pc' = pc
         ELSE /\ parse' = [parse EXCEPT ![n] = None]
              /\ pc' = "leave" /\ UNCHANGED <<queue, k, called>>
  BY DEF NextMessage, Running
<1>2. UNCHANGED <<notices, vector, use, trigger, links, pause, table, inbox, out, exiting,
                  timers, halt, map, at, budget>>
  BY DEF NextMessage, conns, holders
<1>3. at \in 1 .. Len(notices) /\ queue[n] \in Seq(Messages)
  BY <1>1, TypeParts
<1>4. CASE limit - 1 > 0 /\ queue[n] # <<>>
  <2>1. Head(queue[n]) \in Messages \cup {None} /\ Tail(queue[n]) \in Seq(Messages)
    BY <1>3, <1>4
  <2>2. /\ parse' = [parse EXCEPT ![n] = Head(queue[n])]
        /\ queue' = [queue EXCEPT ![n] = Tail(queue[n])]
        /\ k' = 1 /\ called' = {} /\ pc' = pc
    BY <1>1, <1>4
  <2>3. /\ parse' \in [Ids -> Messages \cup {None}] /\ parse'[n] = Head(queue[n])
        /\ \A m \in Ids : m # n => parse'[m] = parse[m]
    BY <2>1, <2>2, TypeParts, Put
  <2>4. /\ queue' \in [Ids -> Seq(Messages)] /\ queue'[n] = Tail(queue[n])
        /\ \A m \in Ids : m # n => queue'[m] = queue[m]
    BY <2>1, <2>2, TypeParts, Put
  <2>5. QED
    BY <1>1, <1>2, <1>3, <1>4, <2>2, <2>3, <2>4
<1>5. CASE ~(limit - 1 > 0 /\ queue[n] # <<>>)
  <2>1. parse' = [parse EXCEPT ![n] = None] /\ pc' = "leave" /\ UNCHANGED <<queue, k, called>>
    BY <1>1, <1>5
  <2>2. /\ parse' \in [Ids -> Messages \cup {None}] /\ parse'[n] = None
        /\ \A m \in Ids : m # n => parse'[m] = parse[m]
    BY <2>1, TypeParts, Put
  <2>3. queue' \in [Ids -> Seq(Messages)]
    BY <2>1, TypeParts
  <2>4. QED
    BY <1>1, <1>2, <1>3, <1>5, <2>1, <2>2, <2>3
<1>6. QED
  BY <1>4, <1>5

\* A notice is collected, or stays and the walk goes on.
LEMMA LeaveDoes ==
    ASSUME TypeOK, NEW n \in Ids, Leave(n)
    PROVE  /\ pc = "leave" \/ (pc = "notice" /\ ~trigger[n])
           /\ pc' = "notice" /\ at \in 1 .. Len(notices) /\ n = notices[at]
           /\ queue' \in [Ids -> Seq(Messages)] /\ trigger' \in [Ids -> BOOLEAN]
           /\ \A m \in Ids : m # n => queue'[m] = queue[m] /\ trigger'[m] = trigger[m]
           /\ IF Collectible(n)
              THEN /\ notices' = RemoveAt(notices, at) /\ at' = at
                   /\ queue'[n] = <<>> /\ ~trigger'[n]
              ELSE at' = at + 1 /\ UNCHANGED <<notices, queue, trigger>>
           /\ UNCHANGED <<vector, use, parse, links, pause, table, inbox, out, exiting, timers, halt,
                          map, k, limit, called, budget>>
<1>1. /\ pc = "leave" \/ (pc = "notice" /\ ~trigger[n])
      /\ pc' = "notice" /\ at <= Len(notices) /\ n = notices[at]
      /\ IF Collectible(n)
         THEN /\ notices' = RemoveAt(notices, at) /\ at' = at
              /\ queue' = [queue EXCEPT ![n] = <<>>] /\ trigger' = [trigger EXCEPT ![n] = FALSE]
         ELSE at' = at + 1 /\ UNCHANGED <<notices, queue, trigger>>
  BY DEF Leave, Running
<1>2. UNCHANGED <<vector, use, parse, links, pause, table, inbox, out, exiting, timers, halt,
                  map, k, limit, called, budget>>
  BY DEF Leave, conns, holders
<1>3. at \in 1 .. Len(notices)
  BY <1>1, TypeParts
<1>4. CASE Collectible(n)
  <2>1. /\ notices' = RemoveAt(notices, at) /\ at' = at
        /\ queue' = [queue EXCEPT ![n] = <<>>] /\ trigger' = [trigger EXCEPT ![n] = FALSE]
    BY <1>1, <1>4
  <2>2. /\ queue' \in [Ids -> Seq(Messages)] /\ queue'[n] = <<>>
        /\ \A m \in Ids : m # n => queue'[m] = queue[m]
    BY <2>1, TypeParts, Put, Known
  <2>3. trigger' \in [Ids -> BOOLEAN] /\ ~trigger'[n] /\ \A m \in Ids : m # n => trigger'[m] = trigger[m]
    BY <2>1, TypeParts
  <2>4. QED
    BY <1>1, <1>2, <1>3, <1>4, <2>1, <2>2, <2>3
<1>5. CASE ~Collectible(n)
  <2>1. at' = at + 1 /\ UNCHANGED <<notices, queue, trigger>>
    BY <1>1, <1>5
  <2>2. queue' \in [Ids -> Seq(Messages)] /\ trigger' \in [Ids -> BOOLEAN]
    BY <2>1, TypeParts
  <2>3. QED
    BY <1>1, <1>2, <1>3, <1>5, <2>1, <2>2
<1>6. QED
  BY <1>4, <1>5

\* A notice is added to the list, if it is not there.
LEMMA Adds ==
    ASSUME NEW s \in Seq(Ids), NEW n \in Ids
    PROVE  /\ Append(s, n) \in Seq(Ids) /\ Len(Append(s, n)) = Len(s) + 1
           /\ \A i \in 1 .. Len(s) : Append(s, n)[i] = s[i]
           /\ \A m : m \in Range(Append(s, n)) <=> m \in Range(s) \/ m = n
           /\ IsInjective(s) /\ n \notin Range(s) => IsInjective(Append(s, n))
<1> DEFINE t == Append(s, n)
<1>1. t \in Seq(Ids) /\ Len(t) = Len(s) + 1 /\ Len(s) \in Nat /\ t[Len(s) + 1] = n
      /\ \A i \in 1 .. Len(s) : t[i] = s[i]
  OBVIOUS
<1>2. \A m : m \in Range(t) <=> m \in Range(s) \/ m = n
  <2>1. \A m : Has(t, m) <=> Has(s, m) \/ m = n
    BY AppendHas
  <2>2. QED
    BY <1>1, <2>1, RangeHas
<1> HIDE DEF t
<1>3. ASSUME IsInjective(s), n \notin Range(s) PROVE IsInjective(t)
  <2>1. /\ \A i, l \in 1 .. Len(s) : s[i] = s[l] => i = l
        /\ \A i \in 1 .. Len(s) : s[i] # n
    BY <1>3 DEF IsInjective, Range
  <2>2. \A i \in 1 .. Len(s) + 1 : i \in 1 .. Len(s) \/ i = Len(s) + 1
    BY <1>1
  <2>3. \A i, l \in 1 .. Len(s) + 1 : t[i] = t[l] => i = l
    BY <1>1, <2>1, <2>2
  <2>4. DOMAIN t = 1 .. Len(s) + 1
    BY <1>1
  <2>5. QED
    BY <2>3, <2>4 DEF IsInjective
<1>4. QED
  BY <1>1, <1>2, <1>3 DEF t

LEMMA Creates ==
    ASSUME TypeOK, NEW n \in Ids
    PROVE  /\ CreateNotice(n) \in Seq(Ids)
           /\ \A m : m \in Range(CreateNotice(n)) <=> m \in Range(notices) \/ m = n
           /\ IsInjective(notices) => IsInjective(CreateNotice(n))
<1>1. notices \in Seq(Ids)
  BY TypeParts
<1>2. CASE Exists(n)
  BY <1>1, <1>2 DEF CreateNotice, Exists
<1>3. CASE ~Exists(n)
  <2>1. CreateNotice(n) = Append(notices, n) /\ n \notin Range(notices)
    BY <1>3 DEF CreateNotice, Exists
  <2>2. QED
    BY <1>1, <2>1, Adds
<1>4. QED
  BY <1>2, <1>3

\* Any request.
LEMMA RequestDoes ==
    ASSUME TypeOK, NEW c \in Clients, Request(c)
    PROVE  /\ pc = "dispatch" /\ at \in 1 .. Len(table) /\ c = table[at]
           /\ ~pause[c] /\ inbox[c] > 0
           /\ inbox' \in [Clients -> 0 .. Budget] /\ inbox'[c] = inbox[c] - 1
           /\ \A x \in Clients : x # c => inbox'[x] = inbox[x]
           /\ Reply(c) => /\ out' \in [Clients -> BOOLEAN] /\ pause' = pause /\ out'[c]
                          /\ \A x \in Clients : x # c => out'[x] = out[x]
           /\ Paused(c) => /\ pause' \in [Clients -> BOOLEAN] /\ out' = out /\ pause'[c]
                           /\ \A x \in Clients : x # c => pause'[x] = pause[x]
           /\ UNCHANGED <<table, exiting, pc, at, k, limit, called, budget>>
<1>1. /\ pc = "dispatch" /\ at <= Len(table) /\ c = table[at] /\ ~pause[c] /\ inbox[c] > 0
      /\ inbox' = [inbox EXCEPT ![c] = inbox[c] - 1]
  BY DEF Request, Visiting
<1>2. UNCHANGED <<table, exiting, pc, at, k, limit, called, budget>>
  BY DEF Request, loop
<1>3. at \in 1 .. Len(table) /\ inbox[c] \in 0 .. Budget /\ inbox[c] - 1 \in 0 .. Budget
  <2>1. at \in Nat \ {0} /\ table \in Seq(Clients) /\ inbox[c] \in 0 .. Budget
    BY TypeParts
  <2>2. QED
    BY <1>1, <2>1, BudgetAssumption
<1>4. /\ inbox' \in [Clients -> 0 .. Budget] /\ inbox'[c] = inbox[c] - 1
      /\ \A x \in Clients : x # c => inbox'[x] = inbox[x]
  BY <1>1, <1>3, TypeParts, Put
<1>5. ASSUME Reply(c)
      PROVE  /\ out' \in [Clients -> BOOLEAN] /\ pause' = pause /\ out'[c]
             /\ \A x \in Clients : x # c => out'[x] = out[x]
  BY <1>5, TypeParts DEF Reply
<1>6. ASSUME Paused(c)
      PROVE  /\ pause' \in [Clients -> BOOLEAN] /\ out' = out /\ pause'[c]
             /\ \A x \in Clients : x # c => pause'[x] = pause[x]
  BY <1>6, TypeParts DEF Paused
<1>7. QED
  BY <1>1, <1>2, <1>3, <1>4, <1>5, <1>6

LEMMA WatchDoes ==
    ASSUME TypeOK, NEW c \in Clients, NEW n \in Ids, Watch(c, n)
    PROVE  /\ Request(c) /\ Paused(c) /\ notices' = CreateNotice(n)
           /\ n \in Names \/ n \notin {HaltOf(j) : j \in Jobs}
           /\ AddNotice(c, n, "resume")
           /\ UNCHANGED <<use, trigger, queue, parse, timers, halt, map>>
  BY DEF Watch, holders, Findable

LEMMA WakeDoes ==
    ASSUME TypeOK, NEW c \in Clients, NEW n \in Ids, Wake(c, n)
    PROVE  /\ Request(c) /\ Reply(c) /\ n \in Range(notices) /\ n \notin {HaltOf(j) : j \in Jobs}
           /\ queue' \in [Ids -> Seq(Messages)] /\ trigger' \in [Ids -> BOOLEAN]
           /\ \A m \in Ids : m # n => queue'[m] = queue[m] /\ trigger'[m] = trigger[m]
           /\ UNCHANGED <<notices, vector, use, parse, links, timers, halt, map>>
<1>1. /\ Request(c) /\ Reply(c) /\ n \in Range(notices) /\ n \notin {HaltOf(j) : j \in Jobs}
      /\ queue' = [queue EXCEPT ![n] = <<>>] /\ trigger' = [trigger EXCEPT ![n] = TRUE]
      /\ UNCHANGED <<notices, vector, use, parse, links, timers, halt, map>>
  BY DEF Wake, holders, Findable, Exists, SetParse, Triggered
<1>2. queue' \in [Ids -> Seq(Messages)] /\ \A m \in Ids : m # n => queue'[m] = queue[m]
  BY <1>1, TypeParts, Put, Known
<1>3. trigger' \in [Ids -> BOOLEAN] /\ \A m \in Ids : m # n => trigger'[m] = trigger[m]
  BY <1>1, TypeParts, Put
<1>4. QED
  BY <1>1, <1>2, <1>3

LEMMA WakeLaterDoes ==
    ASSUME TypeOK, NEW c \in Clients, NEW n \in Ids, WakeLater(c, n)
    PROVE  /\ Request(c) /\ Reply(c) /\ n \in Range(notices) /\ n \notin {HaltOf(j) : j \in Jobs}
           /\ use' \in [Ids -> Nat] /\ timers' \in [Ids -> Nat]
           /\ use'[n] = use[n] + 1 /\ timers'[n] = timers[n] + 1
           /\ \A m \in Ids : m # n => use'[m] = use[m] /\ timers'[m] = timers[m]
           /\ UNCHANGED <<notices, vector, trigger, queue, parse, links, halt, map>>
<1>1. /\ Request(c) /\ Reply(c) /\ n \in Range(notices) /\ n \notin {HaltOf(j) : j \in Jobs}
      /\ use' = [use EXCEPT ![n] = use[n] + 1] /\ timers' = [timers EXCEPT ![n] = timers[n] + 1]
      /\ UNCHANGED <<notices, vector, trigger, queue, parse, links, halt, map>>
  BY DEF WakeLater, Findable, Exists, Held
<1>2. use[n] + 1 \in Nat /\ timers[n] + 1 \in Nat
  BY TypeParts
<1>3. use' \in [Ids -> Nat] /\ use'[n] = use[n] + 1 /\ \A m \in Ids : m # n => use'[m] = use[m]
  BY <1>1, <1>2, TypeParts, Put
<1>4. /\ timers' \in [Ids -> Nat] /\ timers'[n] = timers[n] + 1
      /\ \A m \in Ids : m # n => timers'[m] = timers[m]
  BY <1>1, <1>2, TypeParts, Put
<1>5. QED
  BY <1>1, <1>3, <1>4

\* Two different notices get a holder.
LEMMA TwoHeld ==
    ASSUME TypeOK, NEW a \in Ids, NEW b \in Ids, a # b
    PROVE  /\ Held(Held(use, a), b) \in [Ids -> Nat]
           /\ \A m \in Ids : Held(Held(use, a), b)[m] = use[m] + (IF m \in {a, b} THEN 1 ELSE 0)
<1> DEFINE f == [use EXCEPT ![a] = use[a] + 1]
<1>1. use \in [Ids -> Nat]
  BY TypeParts
<1>2. use[a] + 1 \in Nat
  BY <1>1
<1>3. f \in [Ids -> Nat] /\ f[a] = use[a] + 1 /\ \A m \in Ids : m # a => f[m] = use[m]
  BY <1>1, <1>2, Put
<1>4. Held(Held(use, a), b) = [f EXCEPT ![b] = f[b] + 1]
  BY DEF Held
<1> HIDE DEF f
<1>5. f[b] + 1 \in Nat
  BY <1>3
<1>6. /\ [f EXCEPT ![b] = f[b] + 1] \in [Ids -> Nat]
      /\ [f EXCEPT ![b] = f[b] + 1][b] = f[b] + 1
      /\ \A m \in Ids : m # b => [f EXCEPT ![b] = f[b] + 1][m] = f[m]
  BY <1>3, <1>5, Put
<1>7. \A m \in Ids : [f EXCEPT ![b] = f[b] + 1][m] = use[m] + (IF m \in {a, b} THEN 1 ELSE 0)
  BY <1>1, <1>3, <1>6
<1>8. QED
  BY <1>4, <1>6, <1>7

LEMMA StartProcessDoes ==
    ASSUME TypeOK, NEW c \in Clients, NEW j \in Jobs, NEW n \in Names, StartProcess(c, j, n)
    PROVE  /\ Request(c) /\ Reply(c) /\ map[j] = Null
           /\ MapOf(j) \notin Range(notices) /\ HaltOf(j) \notin Range(notices)
           /\ n \in Ids /\ MapOf(j) \in Ids /\ n # MapOf(j)
           /\ notices' = Append(CreateNotice(n), MapOf(j))
           /\ AddNotice(Template, MapOf(j), "log")
           /\ use' \in [Ids -> Nat]
           /\ \A m \in Ids : use'[m] = use[m] + (IF m \in {MapOf(j), n} THEN 1 ELSE 0)
           /\ halt' \in [Jobs -> Ids \cup {Null}] /\ map' \in [Jobs -> Ids \cup {Null}]
           /\ halt'[j] = n /\ map'[j] = MapOf(j)
           /\ \A i \in Jobs : i # j => halt'[i] = halt[i] /\ map'[i] = map[i]
           /\ UNCHANGED <<trigger, queue, parse, timers>>
<1>1. /\ Request(c) /\ Reply(c) /\ map[j] = Null
      /\ MapOf(j) \notin Range(notices) /\ HaltOf(j) \notin Range(notices)
      /\ notices' = Append(CreateNotice(n), MapOf(j))
      /\ AddNotice(Template, MapOf(j), "log")
      /\ use' = Held(Held(use, MapOf(j)), n)
      /\ halt' = [halt EXCEPT ![j] = n]
      /\ map' = [map EXCEPT ![j] = MapOf(j)]
      /\ UNCHANGED <<trigger, queue, parse, timers>>
  BY DEF StartProcess, Startable, Exists
<1>2. n \in Ids /\ MapOf(j) \in Ids /\ n # MapOf(j)
  BY IdsDiffer
<1>3. /\ use' \in [Ids -> Nat]
      /\ \A m \in Ids : use'[m] = use[m] + (IF m \in {MapOf(j), n} THEN 1 ELSE 0)
  BY <1>1, <1>2, TwoHeld
<1>4. n \in Ids \cup {Null} /\ MapOf(j) \in Ids \cup {Null}
  BY <1>2
<1>5. halt' \in [Jobs -> Ids \cup {Null}] /\ halt'[j] = n /\ \A i \in Jobs : i # j => halt'[i] = halt[i]
  BY <1>1, <1>4, TypeParts, Put
<1>6. /\ map' \in [Jobs -> Ids \cup {Null}] /\ map'[j] = MapOf(j)
      /\ \A i \in Jobs : i # j => map'[i] = map[i]
  BY <1>1, <1>4, TypeParts, Put
<1>7. QED
  BY <1>1, <1>2, <1>3, <1>5, <1>6

LEMMA StartSubprocessDoes ==
    ASSUME TypeOK, NEW c \in Clients, NEW j \in Jobs, StartSubprocess(c, j)
    PROVE  /\ Request(c) /\ Paused(c) /\ map[j] = Null
           /\ MapOf(j) \notin Range(notices) /\ HaltOf(j) \notin Range(notices)
           /\ HaltOf(j) \in Ids /\ MapOf(j) \in Ids /\ HaltOf(j) # MapOf(j)
           /\ notices' = Append(Append(notices, HaltOf(j)), MapOf(j))
           /\ vector' \in [Ids -> Seq(Entries)] /\ links' \in [Users -> [Ids -> Nat]]
           /\ vector'[MapOf(j)] = <<Entry(c, "relay")>> /\ vector'[HaltOf(j)] = <<Entry(c, "resume")>>
           /\ \A m \in Ids : m \notin {HaltOf(j), MapOf(j)} => vector'[m] = vector[m]
           /\ links'[c][MapOf(j)] = 1 /\ links'[c][HaltOf(j)] = 1
           /\ \A u \in Users, m \in Ids :
                u # c \/ m \notin {HaltOf(j), MapOf(j)} => links'[u][m] = links[u][m]
           /\ use' \in [Ids -> Nat]
           /\ \A m \in Ids : use'[m] = use[m] + (IF m \in {HaltOf(j), MapOf(j)} THEN 1 ELSE 0)
           /\ halt' \in [Jobs -> Ids \cup {Null}] /\ map' \in [Jobs -> Ids \cup {Null}]
           /\ halt'[j] = HaltOf(j) /\ map'[j] = MapOf(j)
           /\ \A i \in Jobs : i # j => halt'[i] = halt[i] /\ map'[i] = map[i]
           /\ UNCHANGED <<trigger, queue, parse, timers>>
<1> DEFINE a == HaltOf(j)
           b == MapOf(j)
<1>1. /\ Request(c) /\ Paused(c) /\ map[j] = Null /\ b \notin Range(notices) /\ a \notin Range(notices)
      /\ notices' = notices \o <<a, b>>
      /\ vector' = [vector EXCEPT ![b] = <<Entry(c, "relay")>>, ![a] = <<Entry(c, "resume")>>]
      /\ links' = [links EXCEPT ![c][b] = 1, ![c][a] = 1]
      /\ use' = Held(Held(use, a), b)
      /\ halt' = [halt EXCEPT ![j] = a]
      /\ map' = [map EXCEPT ![j] = b]
      /\ UNCHANGED <<trigger, queue, parse, timers>>
  BY DEF StartSubprocess, Startable, Exists, Entry
<1>2. a \in Ids /\ b \in Ids /\ a # b
  BY IdsDiffer
<1> HIDE DEF a, b
<1>3. use' \in [Ids -> Nat] /\ \A m \in Ids : use'[m] = use[m] + (IF m \in {a, b} THEN 1 ELSE 0)
  BY <1>1, <1>2, TwoHeld
<1>4. a \in Ids \cup {Null} /\ b \in Ids \cup {Null}
  BY <1>2
<1>5. halt' \in [Jobs -> Ids \cup {Null}] /\ halt'[j] = a /\ \A i \in Jobs : i # j => halt'[i] = halt[i]
  BY <1>1, <1>4, TypeParts, Put
<1>6. map' \in [Jobs -> Ids \cup {Null}] /\ map'[j] = b /\ \A i \in Jobs : i # j => map'[i] = map[i]
  BY <1>1, <1>4, TypeParts, Put
<1>7. notices' = Append(Append(notices, a), b)
  <2>1. notices \in Seq(Ids)
    BY TypeParts
  <2>2. \A x, y : x \in Ids /\ y \in Ids => notices \o <<x, y>> = Append(Append(notices, x), y)
    BY <2>1
  <2>3. QED
    BY <1>1, <1>2, <2>2
<1>8. /\ vector' \in [Ids -> Seq(Entries)]
      /\ vector'[b] = <<Entry(c, "relay")>> /\ vector'[a] = <<Entry(c, "resume")>>
      /\ \A m \in Ids : m \notin {a, b} => vector'[m] = vector[m]
  <2> DEFINE f == [vector EXCEPT ![b] = <<Entry(c, "relay")>>]
  <2>1. <<Entry(c, "relay")>> \in Seq(Entries) /\ <<Entry(c, "resume")>> \in Seq(Entries)
    <3>1. Entry(c, "relay") \in Entries /\ Entry(c, "resume") \in Entries
      BY Known
    <3>2. \A e \in Entries : <<e>> \in Seq(Entries)
      OBVIOUS
    <3>3. QED
      BY <3>1, <3>2
  <2>2. /\ f \in [Ids -> Seq(Entries)] /\ f[b] = <<Entry(c, "relay")>>
        /\ \A m \in Ids : m # b => f[m] = vector[m]
    BY <1>2, <2>1, TypeParts, Put
  <2>3. vector' = [f EXCEPT ![a] = <<Entry(c, "resume")>>]
    BY <1>1
  <2> HIDE DEF f
  <2>4. /\ vector' \in [Ids -> Seq(Entries)] /\ vector'[a] = <<Entry(c, "resume")>>
        /\ \A m \in Ids : m # a => vector'[m] = f[m]
    BY <1>2, <2>1, <2>2, <2>3, Put
  <2>5. QED
    BY <1>2, <2>2, <2>4
<1>9. /\ links' \in [Users -> [Ids -> Nat]] /\ links'[c][b] = 1 /\ links'[c][a] = 1
      /\ \A u \in Users, m \in Ids : u # c \/ m \notin {a, b} => links'[u][m] = links[u][m]
  <2>1. c \in Users /\ links \in [Users -> [Ids -> Nat]]
    BY TypeParts, Known
  <2>2. QED
    BY <1>1, <1>2, <2>1
<1>10. QED
  BY <1>1, <1>2, <1>3, <1>5, <1>6, <1>7, <1>8, <1>9 DEF a, b

LEMMA MatchDoes ==
    ASSUME TypeOK, NEW c \in Clients, NEW j \in Jobs, Match(c, j)
    PROVE  /\ Request(c) /\ Reply(c) /\ map[j] # Null /\ map[j] \in Ids
           /\ AddNotice(c, map[j], "match")
           /\ UNCHANGED <<notices, use, trigger, queue, parse, timers, halt, map>>
<1>1. /\ Request(c) /\ Reply(c) /\ map[j] # Null
      /\ AddNotice(c, map[j], "match")
      /\ UNCHANGED <<notices, use, trigger, queue, parse, timers, halt, map>>
  BY DEF Match, holders
<1>2. QED
  BY <1>1, TypeParts

LEMMA JobInformDoes ==
    ASSUME TypeOK, NEW j \in Jobs, JobInform(j)
    PROVE  /\ pc = "jobs" /\ map[j] # Null /\ map[j] \in Ids
           /\ budget > 0 /\ budget' = budget - 1 /\ budget' \in 0 .. Budget
           /\ queue' \in [Ids -> Seq(Messages)] /\ trigger' \in [Ids -> BOOLEAN]
           /\ queue'[map[j]] = Append(queue[map[j]], "inform") /\ trigger'[map[j]]
           /\ \A m \in Ids : m # map[j] => queue'[m] = queue[m] /\ trigger'[m] = trigger[m]
           /\ UNCHANGED <<notices, vector, use, parse, links, pause, table, inbox, out, exiting, timers,
                          halt, map, pc, at, k, limit, called>>
<1>1. /\ pc = "jobs" /\ map[j] # Null /\ budget > 0 /\ budget' = budget - 1
      /\ queue' = [queue EXCEPT ![map[j]] = Append(queue[map[j]], "inform")]
      /\ trigger' = [trigger EXCEPT ![map[j]] = TRUE]
      /\ UNCHANGED <<notices, vector, use, parse, links, pause, table, inbox, out, exiting, timers,
                     halt, map, pc, at, k, limit, called>>
  BY DEF JobInform, AddParse, Triggered, conns, holders, loop
<1>2. map[j] \in Ids
  BY <1>1, TypeParts
<1>3. Append(queue[map[j]], "inform") \in Seq(Messages)
  <2>1. queue[map[j]] \in Seq(Messages) /\ "inform" \in Messages
    BY <1>2, TypeParts, Known
  <2>2. QED
    BY <2>1
<1>4. /\ queue' \in [Ids -> Seq(Messages)] /\ queue'[map[j]] = Append(queue[map[j]], "inform")
      /\ \A m \in Ids : m # map[j] => queue'[m] = queue[m]
  BY <1>1, <1>2, <1>3, TypeParts, Put
<1>5. trigger' \in [Ids -> BOOLEAN] /\ trigger'[map[j]] /\ \A m \in Ids : m # map[j] => trigger'[m] = trigger[m]
  BY <1>1, <1>2, TypeParts, Put
<1>6. budget' \in 0 .. Budget
  BY <1>1, TypeParts, BudgetAssumption
<1>7. QED
  BY <1>1, <1>2, <1>4, <1>5, <1>6

\* Both notices of a job are woken and let go of.
LEMMA JobFinishDoes ==
    ASSUME TypeOK, Placed, NEW j \in Jobs, JobFinish(j)
    PROVE  /\ pc = "jobs" /\ map[j] = MapOf(j) /\ halt[j] \in Names \cup {HaltOf(j)}
           /\ map[j] \in Ids /\ halt[j] \in Ids /\ map[j] # halt[j]
           /\ queue' \in [Ids -> Seq(Messages)] /\ trigger' \in [Ids -> BOOLEAN]
           /\ queue'[halt[j]] = <<"return">> /\ queue'[map[j]] = Append(queue[map[j]], "return")
           /\ trigger'[halt[j]] /\ trigger'[map[j]]
           /\ \A m \in Ids : m # map[j] /\ m # halt[j] => queue'[m] = queue[m] /\ trigger'[m] = trigger[m]
           /\ use' \in [Ids -> Nat]
           /\ \A m \in Ids : use'[m] = IF m \in {map[j], halt[j]} /\ use[m] > 0 THEN use[m] - 1 ELSE use[m]
           /\ halt' \in [Jobs -> Ids \cup {Null}] /\ map' \in [Jobs -> Ids \cup {Null}]
           /\ halt'[j] = Null /\ map'[j] = Null
           /\ \A i \in Jobs : i # j => halt'[i] = halt[i] /\ map'[i] = map[i]
           /\ UNCHANGED <<notices, vector, parse, links, pause, table, inbox, out, exiting, timers, pc, at,
                          k, limit, called, budget>>
<1> DEFINE a == halt[j]
           b == map[j]
<1>1. /\ pc = "jobs" /\ b # Null
      /\ queue' = AddParse(SetParse(queue, a, <<"return">>), b, "return")
      /\ trigger' = [[trigger EXCEPT ![a] = TRUE] EXCEPT ![b] = TRUE]
      /\ use' = LetGo(LetGo(use, a), b)
      /\ halt' = [halt EXCEPT ![j] = Null]
      /\ map' = [map EXCEPT ![j] = Null]
      /\ UNCHANGED <<notices, vector, parse, links, pause, table, inbox, out, exiting, timers, pc, at,
                     k, limit, called, budget>>
  BY DEF JobFinish, Triggered, conns, loop
<1>2. /\ b = MapOf(j) /\ a \in Names \cup {HaltOf(j)}
      /\ b \in Ids /\ a \in Ids /\ a # b
  BY <1>1, IdsDiffer DEF Placed
<1> HIDE DEF a, b
<1>3. /\ queue' \in [Ids -> Seq(Messages)]
      /\ queue'[a] = <<"return">> /\ queue'[b] = Append(queue[b], "return")
      /\ \A m \in Ids : m # b /\ m # a => queue'[m] = queue[m]
  <2> DEFINE f == [queue EXCEPT ![a] = <<"return">>]
  <2>1. /\ f \in [Ids -> Seq(Messages)] /\ f[a] = <<"return">>
        /\ \A m \in Ids : m # a => f[m] = queue[m]
    BY <1>2, TypeParts, Known, Put
  <2>2. queue' = [f EXCEPT ![b] = Append(f[b], "return")]
    BY <1>1 DEF AddParse, SetParse
  <2> HIDE DEF f
  <2>3. Append(f[b], "return") \in Seq(Messages)
    <3>1. f[b] \in Seq(Messages) /\ "return" \in Messages
      BY <1>2, <2>1, Known
    <3>2. QED
      BY <3>1
  <2>4. /\ queue' \in [Ids -> Seq(Messages)] /\ queue'[b] = Append(f[b], "return")
        /\ \A m \in Ids : m # b => queue'[m] = f[m]
    BY <1>2, <2>1, <2>2, <2>3, Put
  <2>5. QED
    BY <1>2, <2>1, <2>4
<1>4. /\ trigger' \in [Ids -> BOOLEAN] /\ trigger'[a] /\ trigger'[b]
      /\ \A m \in Ids : m # b /\ m # a => trigger'[m] = trigger[m]
  BY <1>1, <1>2, TypeParts
<1>5. /\ use' \in [Ids -> Nat]
      /\ \A m \in Ids : use'[m] = IF m \in {b, a} /\ use[m] > 0 THEN use[m] - 1 ELSE use[m]
  <2> DEFINE x == IF use[a] > 0 THEN use[a] - 1 ELSE use[a]
             f == [use EXCEPT ![a] = x]
             y == IF f[b] > 0 THEN f[b] - 1 ELSE f[b]
  <2>1. use \in [Ids -> Nat]
    BY TypeParts
  <2>2. x \in Nat
    BY <1>2, <2>1
  <2>3. use' = [f EXCEPT ![b] = y]
    BY <1>1 DEF LetGo
  <2>4. f \in [Ids -> Nat] /\ f[a] = x /\ \A m \in Ids : m # a => f[m] = use[m]
    <3> HIDE DEF x
    <3>1. QED
      BY <1>2, <2>1, <2>2, Put
  <2> HIDE DEF f
  <2>5. y \in Nat
    BY <1>2, <2>4
  <2>6. use' \in [Ids -> Nat] /\ use'[b] = y /\ \A m \in Ids : m # b => use'[m] = f[m]
    <3> HIDE DEF y
    <3>1. QED
      BY <1>2, <2>3, <2>4, <2>5, Put
  <2>7. QED
    BY <1>2, <2>1, <2>4, <2>6
<1>6. Null \in Ids \cup {Null}
  OBVIOUS
<1>7. halt' \in [Jobs -> Ids \cup {Null}] /\ halt'[j] = Null /\ \A i \in Jobs : i # j => halt'[i] = halt[i]
  BY <1>1, <1>6, TypeParts, Put
<1>8. map' \in [Jobs -> Ids \cup {Null}] /\ map'[j] = Null /\ \A i \in Jobs : i # j => map'[i] = map[i]
  BY <1>1, <1>6, TypeParts, Put
<1>9. QED
  BY <1>1, <1>2, <1>3, <1>4, <1>5, <1>7, <1>8 DEF a, b

\* The loop itself, and visits that leave the client and its entries alone.
Still == UNCHANGED <<notices, vector, use, trigger, queue, parse, links, pause, timers, halt, map>>

LEMMA LoopDoes ==
    ASSUME LoopStep
    PROVE  /\ Still /\ UNCHANGED <<table, inbox, out, exiting, budget>>
           /\ \/ pc = "select" /\ pc' = "timers" /\ UNCHANGED <<at, k, limit, called>>
              \/ pc = "timers" /\ pc' = "visit" /\ at' = 1 /\ UNCHANGED <<k, limit, called>>
              \/ pc = "visit" /\ pc' = "jobs" /\ at > Len(table) /\ at' = 1 /\ UNCHANGED <<k, limit, called>>
              \/ pc = "jobs" /\ pc' = "notice" /\ at' = 1 /\ UNCHANGED <<k, limit, called>>
              \/ /\ pc = "notice" /\ pc' = "accept" /\ at > Len(notices)
                 /\ at' = 1 /\ k' = 1 /\ limit' = 0 /\ called' = {}
              \/ pc = "accept" /\ pc' = "select" /\ UNCHANGED <<at, k, limit, called>>
<1>1. CASE Select
  BY <1>1 DEF Select, Still, core, conns, holders
<1>2. CASE TimersDone
  BY <1>2 DEF TimersDone, Still, core, conns, holders
<1>3. CASE VisitsDone
  BY <1>3 DEF VisitsDone, Still, core, conns, holders
<1>4. CASE JobsDone
  BY <1>4 DEF JobsDone, Still, core, conns, holders
<1>5. CASE NoticesDone
  BY <1>5 DEF NoticesDone, Still, core, conns, holders
<1>6. CASE AcceptNobody
  BY <1>6 DEF AcceptNobody, Accepted, Still, core, conns, holders
<1>7. QED
  BY <1>1, <1>2, <1>3, <1>4, <1>5, <1>6 DEF LoopStep

\* Visits of a client that stays, without its requests.
Visits(c) == Write(c) \/ WriteNothing(c) \/ Lingers(c) \/ DispatchDone(c)

LEMMA VisitDoes ==
    ASSUME TypeOK, NEW c \in Clients, Visits(c)
    PROVE  /\ Still /\ UNCHANGED <<table, inbox, exiting, budget, k, limit, called>>
           /\ at \in 1 .. Len(table) /\ c = table[at] /\ out' \in [Clients -> BOOLEAN]
           /\ \A x \in Clients : x # c => out'[x] = out[x]
           /\ \/ pc = "visit" /\ pc' = "read" /\ at' = at
              \/ /\ pc \in {"read", "dispatch"} /\ pc' = "visit" /\ at' = at + 1 /\ out' = out
                 /\ inbox[c] > 0 => pause[c] \/ out[c] \/ exiting[c]
<1>1. at \in Nat \ {0} /\ table \in Seq(Clients) /\ out \in [Clients -> BOOLEAN]
      /\ inbox \in [Clients -> 0 .. Budget]
  BY TypeParts
<1>2. CASE Write(c)
  <2>1. /\ pc = "visit" /\ Visiting(c) /\ pc' = "read" /\ at' = at /\ out' = [out EXCEPT ![c] = FALSE]
        /\ Still /\ UNCHANGED <<table, inbox, exiting, budget, k, limit, called>>
    BY <1>2 DEF Write, Still, core, holders
  <2>2. out' \in [Clients -> BOOLEAN] /\ \A x \in Clients : x # c => out'[x] = out[x]
    BY <1>1, <2>1
  <2>3. QED
    BY <1>1, <2>1, <2>2 DEF Visiting
<1>3. CASE WriteNothing(c)
  BY <1>1, <1>3 DEF WriteNothing, Still, core, holders, conns, Visiting
<1>4. CASE Lingers(c)
  BY <1>1, <1>4 DEF Lingers, Still, core, holders, conns, Visiting, NextClient
<1>5. CASE DispatchDone(c)
  <2>1. /\ pc = "dispatch" /\ Visiting(c) /\ pc' = "visit" /\ at' = at + 1 /\ (pause[c] \/ inbox[c] = 0)
        /\ Still /\ UNCHANGED <<table, inbox, out, exiting, budget, k, limit, called>>
    BY <1>5 DEF DispatchDone, Still, core, holders, conns, NextClient
  <2>2. QED
    BY <1>1, <2>1 DEF Visiting
<1>6. QED
  BY <1>2, <1>3, <1>4, <1>5 DEF Visits

LEMMA ReadDoes ==
    ASSUME TypeOK, Placed, NEW c \in Clients, Read(c)
    PROVE  /\ Still /\ UNCHANGED <<table, out, exiting, at, k, limit, called>>
           /\ pc = "read" /\ pc' = "dispatch" /\ at \in 1 .. Len(table) /\ c = table[at]
           /\ inbox' \in [Clients -> 0 .. Budget] /\ budget' \in 0 .. Budget /\ budget' <= budget
           /\ inbox'[c] + budget' = inbox[c] + budget
           /\ \A x \in Clients : x # c => inbox'[x] = inbox[x]
<1>1. PICK n \in 0 .. budget : inbox' = [inbox EXCEPT ![c] = inbox[c] + n] /\ budget' = budget - n
  BY DEF Read
<1>2. /\ pc = "read" /\ pc' = "dispatch" /\ Visiting(c)
      /\ Still /\ UNCHANGED <<table, out, exiting, at, k, limit, called>>
  BY DEF Read, Still, core, holders
<1>3. /\ inbox \in [Clients -> 0 .. Budget] /\ inbox[c] \in 0 .. Budget /\ budget \in 0 .. Budget
      /\ inbox[c] + budget <= Budget
      /\ at \in Nat \ {0} /\ table \in Seq(Clients)
  BY TypeParts DEF Placed
<1>4. inbox[c] + n \in 0 .. Budget /\ budget - n \in 0 .. Budget /\ budget - n <= budget
  BY <1>1, <1>3, BudgetAssumption
<1>5. /\ inbox' \in [Clients -> 0 .. Budget] /\ inbox'[c] = inbox[c] + n
      /\ \A x \in Clients : x # c => inbox'[x] = inbox[x]
  BY <1>1, <1>3, <1>4, Put
<1>6. inbox'[c] + budget' = inbox[c] + budget
  BY <1>1, <1>3, <1>5
<1>7. at \in 1 .. Len(table) /\ c = table[at]
  BY <1>2, <1>3 DEF Visiting
<1>8. QED
  BY <1>1, <1>2, <1>4, <1>5, <1>6, <1>7

\* A client comes, or somebody is told to go.
LEMMA ComesDoes ==
    ASSUME TypeOK, NEW c \in Clients, Connect(c) \/ Perforate(c)
    PROVE  /\ Still /\ UNCHANGED <<inbox, budget, at, k, limit, called>>
           /\ pc = "accept" /\ pc' = "select"
           /\ out' \in [Clients -> BOOLEAN] /\ exiting' \in [Clients -> BOOLEAN]
           /\ out'[c] /\ \A x \in Clients : (out[x] => out'[x]) /\ (exiting[x] => exiting'[x])
           /\ table' = table \/ (c \notin Range(table) /\ table' = Append(table, c))
<1>1. out \in [Clients -> BOOLEAN] /\ exiting \in [Clients -> BOOLEAN]
  BY TypeParts
<1>2. CASE Connect(c)
  <2>1. /\ pc = "accept" /\ pc' = "select" /\ UNCHANGED <<inbox, exiting, budget, at, k, limit, called>>
        /\ Still /\ c \notin Range(table) /\ table' = Append(table, c)
        /\ out' = [Informed(c) EXCEPT ![c] = TRUE]
    BY <1>2 DEF Connect, Accepted, Still, core, holders
  <2>2. Informed(c) \in [Clients -> BOOLEAN] /\ \A x \in Clients : out[x] => Informed(c)[x]
    BY <1>1 DEF Informed
  <2>3. out' \in [Clients -> BOOLEAN] /\ out'[c] /\ \A x \in Clients : out[x] => out'[x]
    BY <2>1, <2>2
  <2>4. QED
    BY <1>1, <2>1, <2>3
<1>3. CASE Perforate(c)
  <2>1. /\ pc = "accept" /\ pc' = "select" /\ UNCHANGED <<table, inbox, budget, at, k, limit, called>>
        /\ Still /\ exiting' = [exiting EXCEPT ![c] = TRUE] /\ out' = [out EXCEPT ![c] = TRUE]
    BY <1>3 DEF Perforate, Accepted, Still, core, holders
  <2>2. QED
    BY <1>1, <2>1
<1>4. QED
  BY <1>2, <1>3

LEMMA DepartsDoes ==
    ASSUME TypeOK, NEW c \in Clients, Departs(c)
    PROVE  /\ pc \in {"visit", "read", "dispatch"} /\ pc' = "visit" /\ at' = at + 1
           /\ Visiting(c) /\ Release(c)
           /\ links' \in [Users -> [Ids -> Nat]] /\ pause' \in [Clients -> BOOLEAN]
           /\ inbox' \in [Clients -> 0 .. Budget] /\ out' \in [Clients -> BOOLEAN]
           /\ exiting' \in [Clients -> BOOLEAN]
           /\ inbox'[c] = 0
           /\ \A x \in Clients : x # c => /\ inbox'[x] = inbox[x] /\ exiting'[x] = exiting[x]
                                          /\ out[x] => out'[x]
           /\ UNCHANGED <<notices, use, trigger, queue, parse, timers, halt, map, budget, k, limit, called>>
<1>1. /\ pc \in {"visit", "read", "dispatch"} /\ pc' = "visit" /\ at' = at + 1
      /\ Visiting(c) /\ Release(c) /\ UNCHANGED <<k, limit, called>>
  BY DEF Departs, Disconnect, NextClient
<1>2. /\ links' = [links EXCEPT ![c] = [n \in Ids |-> 0]]
      /\ pause' = [pause EXCEPT ![c] = FALSE]
      /\ inbox' = [inbox EXCEPT ![c] = 0]
      /\ out' = [Informed(c) EXCEPT ![c] = FALSE]
      /\ exiting' = [exiting EXCEPT ![c] = FALSE]
      /\ UNCHANGED <<notices, use, trigger, queue, parse, timers, halt, map, budget>>
  BY <1>1 DEF Release, holders
<1>3. [n \in Ids |-> 0] \in [Ids -> Nat] /\ c \in Users /\ 0 \in 0 .. Budget
  BY Known, BudgetAssumption
<1>4. links' \in [Users -> [Ids -> Nat]]
  BY <1>2, <1>3, TypeParts, Put
<1>5. /\ inbox' \in [Clients -> 0 .. Budget] /\ inbox'[c] = 0
      /\ \A x \in Clients : x # c => inbox'[x] = inbox[x]
  BY <1>2, <1>3, TypeParts, Put
<1>6. /\ pause' \in [Clients -> BOOLEAN] /\ exiting' \in [Clients -> BOOLEAN]
      /\ \A x \in Clients : x # c => exiting'[x] = exiting[x]
  BY <1>2, TypeParts
<1>7. out' \in [Clients -> BOOLEAN] /\ \A x \in Clients : x # c => (out[x] => out'[x])
  <2>1. Informed(c) \in [Clients -> BOOLEAN] /\ \A x \in Clients : out[x] => Informed(c)[x]
    BY TypeParts DEF Informed
  <2>2. QED
    BY <1>2, <2>1
<1>8. QED
  BY <1>1, <1>2, <1>4, <1>5, <1>6, <1>7

-----------------------------------------------------------------------------
(* Values of the variables.                                                 *)

LEMMA Subscribed ==
    ASSUME TypeOK, NEW u \in Users, NEW n \in Ids, NEW call \in Calls, AddNotice(u, n, call)
    PROVE  /\ vector' \in [Ids -> Seq(Entries)] /\ links' \in [Users -> [Ids -> Nat]]
           /\ \A m \in Ids : m # n => vector'[m] = vector[m] /\ \A x \in Users : links'[x][m] = links[x][m]
           /\ \A x \in Users : x # u => links'[x] = links[x]
           /\ \/ vector'[n] = vector[n] /\ links'[u][n] = links[u][n] /\ Duplicate(vector[n], call)
              \/ /\ vector'[n] = Append(vector[n], Entry(u, call)) /\ links'[u][n] = links[u][n] + 1
                 /\ ~Duplicate(vector[n], call)
  BY TypeParts, Subscribes

LEMMA TypeStep ==
    ASSUME TypeOK, Placed, Next
    PROVE  TypeOK'
<1>1. CASE LoopStep
  BY <1>1, LoopDoes DEF TypeOK, Still
<1>2. ASSUME NEW n \in Ids, TimerFires(n) PROVE TypeOK'
  BY <1>2, TimerFiresDoes DEF TypeOK
<1>3. ASSUME NEW n \in Ids, Begin(n) PROVE TypeOK'
  <2>1. limit' \in Int
    <3>1. Len(queue[n]) \in Int /\ limit' = Len(queue[n])
      BY <1>3, BeginDoes, TypeParts
    <3>2. QED
      BY <3>1
  <2>2. /\ pc' = "call" /\ k' = 1 /\ called' = {} /\ at \in 1 .. Len(notices)
        /\ trigger' \in [Ids -> BOOLEAN]
        /\ parse' \in [Ids -> Messages \cup {None}] /\ queue' \in [Ids -> Seq(Messages)]
        /\ UNCHANGED <<notices, vector, use, links, pause, table, inbox, out, exiting, timers, halt,
                       map, at, budget>>
    BY <1>3, BeginDoes
  <2>3. at' <= Len(notices') /\ k' \in Nat \ {0} /\ called' \subseteq Entries
    BY <2>2, TypeParts
  <2>4. /\ pc' = "call" /\ trigger' \in [Ids -> BOOLEAN]
        /\ parse' \in [Ids -> Messages \cup {None}] /\ queue' \in [Ids -> Seq(Messages)]
        /\ UNCHANGED <<notices, vector, use, links, pause, table, inbox, out, exiting, timers, halt,
                       map, at, budget>>
    BY <2>2
  <2>5. QED
    BY <2>1, <2>3, <2>4 DEF TypeOK
<1>4. ASSUME NEW n \in Ids, Call(n) PROVE TypeOK'
  <2>1. vector' \in [Ids -> Seq(Entries)] /\ links' \in [Users -> [Ids -> Nat]] /\ k' \in Nat \ {0}
    <3>1. k \in Nat \ {0} /\ vector \in [Ids -> Seq(Entries)] /\ links \in [Users -> [Ids -> Nat]]
      BY TypeParts
    <3>2. CASE Stays(vector[n][k], Message(n))
      <4>1. k' = k + 1 /\ UNCHANGED <<vector, links>>
        BY <1>4, <3>2, CallDoes
      <4>2. QED
        BY <3>1, <4>1
    <3>3. CASE ~Stays(vector[n][k], Message(n))
      <4>1. k' = k /\ vector' \in [Ids -> Seq(Entries)] /\ links' \in [Users -> [Ids -> Nat]]
        BY <1>4, <3>3, CallDoes
      <4>2. QED
        BY <3>1, <4>1
    <3>4. QED
      BY <3>2, <3>3
  <2>2. /\ called' \subseteq Entries /\ out' \in [Clients -> BOOLEAN] /\ pause' \in [Clients -> BOOLEAN]
        /\ UNCHANGED <<notices, use, trigger, queue, parse, table, inbox, exiting, timers, halt, map,
                       pc, at, limit, budget>>
    BY <1>4, CallDoes
  <2>3. QED
    BY <2>1, <2>2 DEF TypeOK
<1>5. ASSUME NEW n \in Ids, NextMessage(n) PROVE TypeOK'
  <2>1. /\ k' \in Nat \ {0} /\ called' \subseteq Entries /\ limit' \in Int
        /\ pc' \in {"call", "leave"}
    <3>1. k \in Nat \ {0} /\ called \subseteq Entries /\ limit \in Int
      BY TypeParts
    <3>2. /\ limit' = limit - 1
          /\ \/ k' = 1 /\ called' = {} /\ pc' = "call"
             \/ k' = k /\ called' = called /\ pc' = "leave"
      BY <1>5, NextMessageDoes
    <3>3. QED
      BY <3>1, <3>2
  <2>2. /\ parse' \in [Ids -> Messages \cup {None}] /\ queue' \in [Ids -> Seq(Messages)]
        /\ at \in 1 .. Len(notices)
        /\ UNCHANGED <<notices, vector, use, trigger, links, pause, table, inbox, out, exiting,
                       timers, halt, map, at, budget>>
    BY <1>5, NextMessageDoes
  <2>3. at' <= Len(notices')
    BY <2>2, TypeParts
  <2>4. QED
    BY <2>1, <2>2, <2>3 DEF TypeOK
<1>6. ASSUME NEW n \in Ids, Leave(n) PROVE TypeOK'
  <2>1. notices' \in Seq(Ids) /\ at' \in Nat \ {0}
    <3>1. CASE Collectible(n)
      <4>1. at \in 1 .. Len(notices) /\ notices \in Seq(Ids) /\ notices' = RemoveAt(notices, at) /\ at' = at
        BY <1>6, <3>1, LeaveDoes, TypeParts
      <4>2. RemoveAt(notices, at) \in Seq(Ids)
        <5>1. SubSeq(notices, 1, at - 1) \in Seq(Ids) /\ SubSeq(notices, at + 1, Len(notices)) \in Seq(Ids)
          BY <4>1
        <5>2. QED
          BY <5>1, Joined DEF RemoveAt
      <4>3. QED
        BY <4>1, <4>2
    <3>2. CASE ~Collectible(n)
      <4>1. at' = at + 1 /\ notices' = notices
        BY <1>6, <3>2, LeaveDoes
      <4>2. QED
        BY <4>1, TypeParts
    <3>3. QED
      BY <3>1, <3>2
  <2>2. /\ pc' = "notice" /\ queue' \in [Ids -> Seq(Messages)] /\ trigger' \in [Ids -> BOOLEAN]
        /\ UNCHANGED <<vector, use, parse, links, pause, table, inbox, out, exiting, timers, halt,
                       map, k, limit, called, budget>>
    BY <1>6, LeaveDoes
  <2>3. QED
    BY <2>1, <2>2 DEF TypeOK
<1>7. ASSUME NEW c \in Clients, Visits(c) PROVE TypeOK'
  <2>1. /\ at' \in Nat \ {0} /\ pc' \in {"visit", "read"} /\ (pc' = "read" => at' \in 1 .. Len(table))
    <3>1. at \in 1 .. Len(table) /\ table \in Seq(Clients)
      BY <1>7, VisitDoes, TypeParts
    <3>2. (pc' = "read" /\ at' = at) \/ (pc' = "visit" /\ at' = at + 1)
      BY <1>7, VisitDoes
    <3>3. QED
      BY <3>1, <3>2
  <2>2. /\ Still /\ UNCHANGED <<table, inbox, exiting, budget, k, limit, called>>
        /\ out' \in [Clients -> BOOLEAN]
    BY <1>7, VisitDoes
  <2>3. QED
    BY <2>1, <2>2 DEF TypeOK, Still
<1>8. ASSUME NEW c \in Clients, Departs(c) PROVE TypeOK'
  <2>1. Visiting(c) /\ Release(c) /\ IsInjective(table)
    BY <1>8, DepartsDoes DEF Placed
  <2>2. vector' \in [Ids -> Seq(Entries)] /\ table' \in Seq(Clients)
    BY <2>1, Departure, DepartureTable
  <2>3. /\ pc' = "visit" /\ at' = at + 1
        /\ links' \in [Users -> [Ids -> Nat]] /\ pause' \in [Clients -> BOOLEAN]
        /\ inbox' \in [Clients -> 0 .. Budget] /\ out' \in [Clients -> BOOLEAN]
        /\ exiting' \in [Clients -> BOOLEAN]
        /\ UNCHANGED <<notices, use, trigger, queue, parse, timers, halt, map, budget, k, limit, called>>
    BY <1>8, DepartsDoes
  <2>4. QED
    BY <2>2, <2>3 DEF TypeOK
<1>9. ASSUME NEW c \in Clients, Read(c) PROVE TypeOK'
  <2>1. /\ pc' = "dispatch" /\ at \in 1 .. Len(table)
        /\ inbox' \in [Clients -> 0 .. Budget] /\ budget' \in 0 .. Budget
        /\ Still /\ UNCHANGED <<table, out, exiting, at, k, limit, called>>
    BY <1>9, ReadDoes
  <2>2. QED
    BY <2>1 DEF TypeOK, Still
<1>10. ASSUME NEW c \in Clients, Connect(c) \/ Perforate(c) PROVE TypeOK'
  <2>1. table' = table \/ table' = Append(table, c)
    BY <1>10, ComesDoes
  <2>2. table' \in Seq(Clients)
    <3>1. table \in Seq(Clients)
      BY TypeParts
    <3>2. QED
      BY <2>1, <3>1
  <2>3. /\ pc' = "select" /\ out' \in [Clients -> BOOLEAN] /\ exiting' \in [Clients -> BOOLEAN]
        /\ Still /\ UNCHANGED <<inbox, budget, at, k, limit, called>>
    BY <1>10, ComesDoes
  <2>4. QED
    BY <2>2, <2>3 DEF TypeOK, Still
<1>11. ASSUME NEW c \in Clients, Request(c), Reply(c) \/ Paused(c),
              notices' \in Seq(Ids), vector' \in [Ids -> Seq(Entries)], use' \in [Ids -> Nat],
              trigger' \in [Ids -> BOOLEAN], queue' \in [Ids -> Seq(Messages)], parse' = parse,
              links' \in [Users -> [Ids -> Nat]], timers' \in [Ids -> Nat],
              halt' \in [Jobs -> Ids \cup {Null}], map' \in [Jobs -> Ids \cup {Null}]
       PROVE  TypeOK'
  <2>1. out' \in [Clients -> BOOLEAN] /\ pause' \in [Clients -> BOOLEAN]
    BY <1>11, RequestDoes, TypeParts
  <2>2. /\ inbox' \in [Clients -> 0 .. Budget] /\ pc = "dispatch"
        /\ UNCHANGED <<table, exiting, pc, at, k, limit, called, budget>>
    BY <1>11, RequestDoes
  <2>3. QED
    BY <1>11, <2>1, <2>2 DEF TypeOK
<1>12. ASSUME NEW c \in Clients, OtherRequest(c) PROVE TypeOK'
  <2>1. /\ Request(c) /\ Reply(c)
        /\ UNCHANGED <<notices, vector, use, trigger, queue, parse, links, timers, halt, map>>
    BY <1>12 DEF OtherRequest, core, holders
  <2>2. QED
    BY <1>11, <2>1, TypeParts
<1>13. ASSUME NEW c \in Clients, NEW n \in Ids, Watch(c, n) PROVE TypeOK'
  <2>1. /\ Request(c) /\ Paused(c) /\ notices' = CreateNotice(n) /\ AddNotice(c, n, "resume")
        /\ UNCHANGED <<use, trigger, queue, parse, timers, halt, map>>
    BY <1>13, WatchDoes
  <2>2. notices' \in Seq(Ids)
    BY <2>1, Creates
  <2>3. vector' \in [Ids -> Seq(Entries)] /\ links' \in [Users -> [Ids -> Nat]]
    BY <2>1, Known, Subscribed
  <2>4. QED
    BY <1>11, <2>1, <2>2, <2>3, TypeParts
<1>14. ASSUME NEW c \in Clients, NEW n \in Ids, Wake(c, n) \/ WakeLater(c, n) PROVE TypeOK'
  BY <1>11, <1>14, WakeDoes, WakeLaterDoes, TypeParts
<1>15. ASSUME NEW c \in Clients, NEW j \in Jobs, NEW n \in Names, StartProcess(c, j, n) PROVE TypeOK'
  <2>1. /\ Request(c) /\ Reply(c) /\ n \in Ids /\ MapOf(j) \in Ids
        /\ notices' = Append(CreateNotice(n), MapOf(j)) /\ AddNotice(Template, MapOf(j), "log")
        /\ use' \in [Ids -> Nat] /\ halt' \in [Jobs -> Ids \cup {Null}] /\ map' \in [Jobs -> Ids \cup {Null}]
        /\ UNCHANGED <<trigger, queue, parse, timers>>
    BY <1>15, StartProcessDoes
  <2>2. notices' \in Seq(Ids)
    BY <2>1, Creates, Adds
  <2>3. vector' \in [Ids -> Seq(Entries)] /\ links' \in [Users -> [Ids -> Nat]]
    BY <2>1, Known, Subscribed
  <2>4. QED
    BY <1>11, <2>1, <2>2, <2>3, TypeParts
<1>16. ASSUME NEW c \in Clients, NEW j \in Jobs, StartSubprocess(c, j) PROVE TypeOK'
  <2>1. /\ Request(c) /\ Paused(c) /\ HaltOf(j) \in Ids /\ MapOf(j) \in Ids
        /\ notices' = Append(Append(notices, HaltOf(j)), MapOf(j))
        /\ vector' \in [Ids -> Seq(Entries)] /\ links' \in [Users -> [Ids -> Nat]]
        /\ use' \in [Ids -> Nat] /\ halt' \in [Jobs -> Ids \cup {Null}] /\ map' \in [Jobs -> Ids \cup {Null}]
        /\ UNCHANGED <<trigger, queue, parse, timers>>
    BY <1>16, StartSubprocessDoes
  <2>2. notices' \in Seq(Ids)
    BY <2>1, Adds, TypeParts
  <2>3. QED
    BY <1>11, <2>1, <2>2, TypeParts
<1>17. ASSUME NEW c \in Clients, NEW j \in Jobs, Match(c, j) PROVE TypeOK'
  <2>1. /\ Request(c) /\ Reply(c) /\ map[j] \in Ids /\ AddNotice(c, map[j], "match")
        /\ UNCHANGED <<notices, use, trigger, queue, parse, timers, halt, map>>
    BY <1>17, MatchDoes
  <2>2. vector' \in [Ids -> Seq(Entries)] /\ links' \in [Users -> [Ids -> Nat]]
    BY <2>1, Known, Subscribed
  <2>3. QED
    BY <1>11, <2>1, <2>2, TypeParts
<1>18. ASSUME NEW j \in Jobs, JobInform(j) PROVE TypeOK'
  <2>1. /\ budget' \in 0 .. Budget
        /\ queue' \in [Ids -> Seq(Messages)] /\ trigger' \in [Ids -> BOOLEAN]
        /\ UNCHANGED <<notices, vector, use, parse, links, pause, table, inbox, out, exiting, timers,
                       halt, map, pc, at, k, limit, called>>
    BY <1>18, JobInformDoes
  <2>2. QED
    BY <2>1 DEF TypeOK
<1>19. ASSUME NEW j \in Jobs, JobFinish(j) PROVE TypeOK'
  <2>1. /\ queue' \in [Ids -> Seq(Messages)] /\ trigger' \in [Ids -> BOOLEAN]
        /\ use' \in [Ids -> Nat] /\ halt' \in [Jobs -> Ids \cup {Null}] /\ map' \in [Jobs -> Ids \cup {Null}]
        /\ UNCHANGED <<notices, vector, parse, links, pause, table, inbox, out, exiting, timers, pc, at,
                       k, limit, called, budget>>
    BY <1>19, JobFinishDoes
  <2>2. QED
    BY <2>1 DEF TypeOK
<1>20. QED
  <2>1. ASSUME NEW c \in Clients, ClientStep(c) PROVE TypeOK'
    BY <1>7, <1>8, <1>9, <1>10, <1>12, <2>1 DEF ClientStep, Visits
  <2>2. ASSUME NEW c \in Clients, NEW j \in Jobs, StartStep(c, j) PROVE TypeOK'
    BY <1>15, <1>16, <1>17, <2>2 DEF StartStep
  <2>3. ASSUME NEW n \in Ids, NoticeStep(n) PROVE TypeOK'
    BY <1>2, <1>3, <1>4, <1>5, <1>6, <2>3 DEF NoticeStep
  <2>4. ASSUME NEW c \in Clients, NEW n \in Ids, RequestStep(c, n) PROVE TypeOK'
    BY <1>13, <1>14, <2>4 DEF RequestStep
  <2>5. QED
    BY Cases, <1>1, <1>18, <1>19, <2>1, <2>2, <2>3, <2>4

-----------------------------------------------------------------------------
(* Which actions change what.                                               *)

Moves ==
  /\ table' = table \/ \E c \in Clients : Departs(c) \/ Connect(c) \/ Perforate(c)
  /\ UNCHANGED <<inbox, budget>>
       \/ (\E c \in Clients : Read(c) \/ Departs(c) \/ Request(c)) \/ \E j \in Jobs : JobInform(j)
  /\ UNCHANGED <<use, timers>>
       \/ (\E n \in Ids : TimerFires(n) \/ \E c \in Clients : WakeLater(c, n))
       \/ (\E c \in Clients, j \in Jobs : StartSubprocess(c, j) \/ \E n \in Names : StartProcess(c, j, n))
       \/ \E j \in Jobs : JobFinish(j)
  /\ UNCHANGED <<halt, map>>
       \/ (\E c \in Clients, j \in Jobs : StartSubprocess(c, j) \/ \E n \in Names : StartProcess(c, j, n))
       \/ \E j \in Jobs : JobFinish(j)
  /\ UNCHANGED <<vector, links>>
       \/ (\E n \in Ids : Call(n)) \/ (\E c \in Clients : Departs(c))
       \/ (\E c \in Clients, n \in Ids : Watch(c, n))
       \/ \E c \in Clients, j \in Jobs :
            StartSubprocess(c, j) \/ Match(c, j) \/ \E n \in Names : StartProcess(c, j, n)
  /\ UNCHANGED pause
       \/ (\E n \in Ids : Call(n)) \/ (\E c \in Clients : Departs(c))
       \/ (\E c \in Clients, n \in Ids : Watch(c, n))
       \/ \E c \in Clients, j \in Jobs : StartSubprocess(c, j)
  /\ UNCHANGED notices
       \/ (\E n \in Ids : Leave(n)) \/ (\E c \in Clients, n \in Ids : Watch(c, n))
       \/ (\E c \in Clients, j \in Jobs : StartSubprocess(c, j) \/ \E n \in Names : StartProcess(c, j, n))
  /\ UNCHANGED <<trigger, queue, parse>>
       \/ (\E n \in Ids : TimerFires(n) \/ Begin(n) \/ NextMessage(n) \/ Leave(n))
       \/ (\E c \in Clients, n \in Ids : Wake(c, n))
       \/ \E j \in Jobs : JobInform(j) \/ JobFinish(j)

LEMMA NextMoves ==
    ASSUME TypeOK, Placed, Next
    PROVE  Moves
<1>1. CASE LoopStep
  BY <1>1, LoopDoes DEF Moves, Still
<1>2. ASSUME NEW n \in Ids, TimerFires(n) PROVE Moves
  BY <1>2, TimerFiresDoes DEF Moves
<1>3. ASSUME NEW n \in Ids, Begin(n) PROVE Moves
  BY <1>3, BeginDoes DEF Moves
<1>4. ASSUME NEW n \in Ids, Call(n) PROVE Moves
  BY <1>4, CallDoes DEF Moves
<1>5. ASSUME NEW n \in Ids, NextMessage(n) PROVE Moves
  BY <1>5, NextMessageDoes DEF Moves
<1>6. ASSUME NEW n \in Ids, Leave(n) PROVE Moves
  BY <1>6, LeaveDoes DEF Moves
<1>7. ASSUME NEW c \in Clients, Visits(c) PROVE Moves
  BY <1>7, VisitDoes DEF Moves, Still
<1>8. ASSUME NEW c \in Clients, Departs(c) PROVE Moves
  BY <1>8, DepartsDoes DEF Moves
<1>9. ASSUME NEW c \in Clients, Read(c) PROVE Moves
  BY <1>9, ReadDoes DEF Moves, Still
<1>10. ASSUME NEW c \in Clients, Connect(c) \/ Perforate(c) PROVE Moves
  BY <1>10, ComesDoes DEF Moves, Still
<1>11. ASSUME NEW c \in Clients, Request(c) PROVE table' = table
  BY <1>11, RequestDoes
<1>12. ASSUME NEW c \in Clients, OtherRequest(c) PROVE Moves
  <2>1. /\ Request(c) /\ pause' = pause
        /\ UNCHANGED <<notices, vector, use, trigger, queue, parse, links, timers, halt, map>>
    BY <1>12 DEF OtherRequest, core, holders, Reply
  <2>2. QED
    BY <1>11, <2>1 DEF Moves
<1>13. ASSUME NEW c \in Clients, NEW n \in Ids, Watch(c, n) PROVE Moves
  BY <1>11, <1>13, WatchDoes DEF Moves
<1>14. ASSUME NEW c \in Clients, NEW n \in Ids, Wake(c, n) PROVE Moves
  <2>1. /\ Request(c) /\ pause' = pause
        /\ UNCHANGED <<notices, vector, use, parse, links, timers, halt, map>>
    BY <1>14, WakeDoes DEF Reply
  <2>2. QED
    BY <1>11, <1>14, <2>1 DEF Moves
<1>15. ASSUME NEW c \in Clients, NEW n \in Ids, WakeLater(c, n) PROVE Moves
  <2>1. /\ Request(c) /\ pause' = pause
        /\ UNCHANGED <<notices, vector, trigger, queue, parse, links, halt, map>>
    BY <1>15, WakeLaterDoes DEF Reply
  <2>2. QED
    BY <1>11, <1>15, <2>1 DEF Moves
<1>16. ASSUME NEW c \in Clients, NEW j \in Jobs, NEW n \in Names, StartProcess(c, j, n) PROVE Moves
  <2>1. /\ Request(c) /\ pause' = pause
        /\ UNCHANGED <<trigger, queue, parse>>
    BY <1>16, StartProcessDoes DEF Reply
  <2>2. QED
    BY <1>11, <1>16, <2>1 DEF Moves
<1>17. ASSUME NEW c \in Clients, NEW j \in Jobs, StartSubprocess(c, j) PROVE Moves
  <2>1. /\ Request(c) /\ UNCHANGED <<trigger, queue, parse>>
    BY <1>17, StartSubprocessDoes
  <2>2. QED
    BY <1>11, <1>17, <2>1 DEF Moves
<1>18. ASSUME NEW c \in Clients, NEW j \in Jobs, Match(c, j) PROVE Moves
  <2>1. /\ Request(c) /\ pause' = pause
        /\ UNCHANGED <<notices, use, trigger, queue, parse, timers, halt, map>>
    BY <1>18, MatchDoes DEF Reply
  <2>2. QED
    BY <1>11, <1>18, <2>1 DEF Moves
<1>19. ASSUME NEW j \in Jobs, JobInform(j) PROVE Moves
  BY <1>19, JobInformDoes DEF Moves
<1>20. ASSUME NEW j \in Jobs, JobFinish(j) PROVE Moves
  BY <1>20, JobFinishDoes DEF Moves
<1>21. QED
  <2>1. ASSUME NEW c \in Clients, ClientStep(c) PROVE Moves
    BY <1>7, <1>8, <1>9, <1>10, <1>12, <2>1 DEF ClientStep, Visits
  <2>2. ASSUME NEW c \in Clients, NEW j \in Jobs, StartStep(c, j) PROVE Moves
    BY <1>16, <1>17, <1>18, <2>2 DEF StartStep
  <2>3. ASSUME NEW n \in Ids, NoticeStep(n) PROVE Moves
    BY <1>2, <1>3, <1>4, <1>5, <1>6, <2>3 DEF NoticeStep
  <2>4. ASSUME NEW c \in Clients, NEW n \in Ids, RequestStep(c, n) PROVE Moves
    BY <1>13, <1>14, <1>15, <2>4 DEF RequestStep
  <2>5. QED
    BY Cases, <1>1, <1>19, <1>20, <2>1, <2>2, <2>3, <2>4

-----------------------------------------------------------------------------
(* Clients and jobs.                                                        *)

LEMMA PlacedStep ==
    ASSUME TypeOK, Placed, Next
    PROVE  Placed'
<1>1. Moves
  BY NextMoves
<1>2. IsInjective(table')
  <2>1. IsInjective(table) /\ table \in Seq(Clients)
    BY TypeParts DEF Placed
  <2>2. ASSUME NEW c \in Clients, Departs(c) PROVE IsInjective(table')
    BY <2>1, <2>2, DepartsDoes, DepartureTable
  <2>3. ASSUME NEW c \in Clients, Connect(c) \/ Perforate(c) PROVE IsInjective(table')
    <3>1. table' = table \/ (c \notin Range(table) /\ table' = Append(table, c))
      BY <2>3, ComesDoes
    <3>2. ASSUME c \notin Range(table), table' = Append(table, c) PROVE IsInjective(table')
      <4>1. /\ \A i, l \in 1 .. Len(table) : table[i] = table[l] => i = l
            /\ \A i \in 1 .. Len(table) : table[i] # c
        BY <2>1, <3>2 DEF IsInjective, Range
      <4>2. /\ DOMAIN table' = 1 .. Len(table) + 1 /\ Len(table) \in Nat
            /\ table'[Len(table) + 1] = c /\ \A i \in 1 .. Len(table) : table'[i] = table[i]
        BY <2>1, <3>2
      <4>3. \A i \in 1 .. Len(table) + 1 : i \in 1 .. Len(table) \/ i = Len(table) + 1
        BY <4>2
      <4>4. \A i, l \in 1 .. Len(table) + 1 : table'[i] = table'[l] => i = l
        BY <4>1, <4>2, <4>3
      <4>5. QED
        BY <4>2, <4>4 DEF IsInjective
    <3>3. QED
      BY <2>1, <3>1, <3>2
  <2>4. QED
    BY <1>1, <2>1, <2>2, <2>3 DEF Moves
<1>3. ASSUME NEW x \in Clients PROVE inbox'[x] + budget' <= Budget
  <2>1. inbox[x] \in Nat /\ budget \in Nat /\ inbox[x] + budget <= Budget /\ Budget \in Nat
    BY TypeParts, BudgetAssumption DEF Placed
  <2>2. ASSUME NEW c \in Clients, Read(c) PROVE inbox'[x] + budget' <= Budget
    <3>1. /\ inbox'[c] + budget' = inbox[c] + budget /\ (x # c => inbox'[x] = inbox[x])
          /\ budget' <= budget /\ budget' \in 0 .. Budget
      BY <2>2, ReadDoes
    <3>2. QED
      BY <2>1, <3>1
  <2>3. ASSUME NEW c \in Clients, Departs(c) PROVE inbox'[x] + budget' <= Budget
    <3>1. inbox'[c] = 0 /\ (x # c => inbox'[x] = inbox[x]) /\ budget' = budget
      BY <2>3, DepartsDoes
    <3>2. QED
      BY <2>1, <3>1
  <2>4. ASSUME NEW c \in Clients, Request(c) PROVE inbox'[x] + budget' <= Budget
    <3>1. inbox'[c] = inbox[c] - 1 /\ (x # c => inbox'[x] = inbox[x]) /\ budget' = budget
      BY <2>4, RequestDoes
    <3>2. QED
      BY <2>1, <3>1
  <2>5. ASSUME NEW j \in Jobs, JobInform(j) PROVE inbox'[x] + budget' <= Budget
    <3>1. inbox' = inbox /\ budget' = budget - 1
      BY <2>5, JobInformDoes
    <3>2. QED
      BY <2>1, <3>1
  <2>6. QED
    BY <1>1, <2>1, <2>2, <2>3, <2>4, <2>5 DEF Moves
<1>4. ASSUME NEW i \in Jobs
      PROVE  /\ map'[i] \in {Null, MapOf(i)}
             /\ halt'[i] \in Names \cup {Null, HaltOf(i)}
             /\ map'[i] = Null <=> halt'[i] = Null
  <2>1. /\ map[i] \in {Null, MapOf(i)}
        /\ halt[i] \in Names \cup {Null, HaltOf(i)}
        /\ map[i] = Null <=> halt[i] = Null
    BY DEF Placed
  <2>2. MapOf(i) # Null /\ HaltOf(i) # Null /\ Null \notin Names
    BY IdsDiffer
  <2>3. ASSUME NEW c \in Clients, NEW j \in Jobs, StartSubprocess(c, j)
        PROVE  /\ i = j => map'[i] = MapOf(i) /\ halt'[i] = HaltOf(i)
               /\ i # j => map'[i] = map[i] /\ halt'[i] = halt[i]
    BY <2>3, StartSubprocessDoes
  <2>4. ASSUME NEW c \in Clients, NEW j \in Jobs, NEW n \in Names, StartProcess(c, j, n)
        PROVE  /\ i = j => map'[i] = MapOf(i) /\ halt'[i] \in Names
               /\ i # j => map'[i] = map[i] /\ halt'[i] = halt[i]
    BY <2>4, StartProcessDoes
  <2>5. ASSUME NEW j \in Jobs, JobFinish(j)
        PROVE  /\ i = j => map'[i] = Null /\ halt'[i] = Null
               /\ i # j => map'[i] = map[i] /\ halt'[i] = halt[i]
    BY <2>5, JobFinishDoes
  <2>6. \/ map'[i] = map[i] /\ halt'[i] = halt[i]
        \/ map'[i] = MapOf(i) /\ halt'[i] = HaltOf(i)
        \/ map'[i] = MapOf(i) /\ halt'[i] \in Names
        \/ map'[i] = Null /\ halt'[i] = Null
    BY <1>1, <2>3, <2>4, <2>5 DEF Moves
  <2>7. QED
    BY <2>1, <2>2, <2>6
<1>5. QED
  BY <1>2, <1>3, <1>4 DEF Placed

-----------------------------------------------------------------------------
(* Holders.                                                                 *)

Holders(f, n) == {j \in Jobs : f[j] = n}

Counted == \A n \in Ids : use[n] = timers[n] + Cardinality(Holders(halt, n)) + Cardinality(Holders(map, n))

\* A notice as it is when it does not exist.
Clean(n) ==
  /\ timers[n] = 0 /\ use[n] = 0
  /\ \A j \in Jobs : halt[j] # n /\ map[j] # n
  /\ \A u \in Users : links[u][n] = 0
  /\ vector[n] = <<>> /\ queue[n] = <<>> /\ ~trigger[n] /\ parse[n] = None

LEMMA DanglingParts ==
    NoDangling <=> /\ Counted /\ IsInjective(notices)
                   /\ \A n \in Ids : n \notin Range(notices) => Clean(n)
BY DEF NoDangling, Counted, Holders, Clean, Exists

\* One job lets go of a notice, or takes one.
LEMMA HoldersChange ==
    ASSUME NEW f, NEW g, NEW n, NEW j \in Jobs, \A i \in Jobs : i # j => g[i] = f[i]
    PROVE  /\ Cardinality(Holders(f, n)) \in Nat /\ Cardinality(Holders(g, n)) \in Nat
           /\ Cardinality(Holders(g, n)) = Cardinality(Holders(f, n))
                + (IF g[j] = n THEN 1 ELSE 0) - (IF f[j] = n THEN 1 ELSE 0)
<1> DEFINE F == Holders(f, n)
           G == Holders(g, n)
           R == {i \in Jobs : i # j /\ f[i] = n}
<1>1. /\ F \in SUBSET Jobs /\ G \in SUBSET Jobs /\ R \in SUBSET Jobs /\ j \notin R
      /\ F = (IF f[j] = n THEN R \cup {j} ELSE R)
      /\ G = (IF g[j] = n THEN R \cup {j} ELSE R)
  BY DEF Holders
<1> HIDE DEF F, G, R
<1>2. IsFiniteSet(R) /\ Cardinality(R) \in Nat
  BY <1>1, FiniteAssumption, FS_Subset, FS_CardinalityType
<1>3. Cardinality(R \cup {j}) = Cardinality(R) + 1
  BY <1>1, <1>2, FS_AddElement
<1>4. Cardinality(F) = Cardinality(R) + (IF f[j] = n THEN 1 ELSE 0)
  BY <1>1, <1>2, <1>3
<1>5. Cardinality(G) = Cardinality(R) + (IF g[j] = n THEN 1 ELSE 0)
  BY <1>1, <1>2, <1>3
<1>6. QED
  BY <1>2, <1>4, <1>5 DEF F, G

LEMMA CountedStep ==
    ASSUME TypeOK, Placed, Counted, Next
    PROVE  Counted'
<1> SUFFICES ASSUME NEW m \in Ids
             PROVE  use'[m] = timers'[m] + Cardinality(Holders(halt', m)) + Cardinality(Holders(map', m))
  BY DEF Counted, Holders
<1>1. /\ use[m] = timers[m] + Cardinality(Holders(halt, m)) + Cardinality(Holders(map, m))
      /\ use[m] \in Nat /\ timers[m] \in Nat
  BY TypeParts DEF Counted
<1>2. Cardinality(Holders(halt, m)) \in Nat /\ Cardinality(Holders(map, m)) \in Nat
  <2>1. IsFiniteSet(Holders(halt, m)) /\ IsFiniteSet(Holders(map, m))
    <3>1. Holders(halt, m) \in SUBSET Jobs /\ Holders(map, m) \in SUBSET Jobs
      BY DEF Holders
    <3>2. QED
      BY <3>1, FiniteAssumption, FS_Subset
  <2>2. QED
    BY <2>1, FS_CardinalityType
<1>3. Moves /\ Null \notin Ids
  BY NextMoves, IdsDiffer
<1>4. CASE UNCHANGED <<use, timers, halt, map>>
  BY <1>1, <1>4
<1>5. ASSUME NEW n \in Ids, TimerFires(n)
      PROVE  use'[m] = timers'[m] + Cardinality(Holders(halt', m)) + Cardinality(Holders(map', m))
  <2>1. /\ halt' = halt /\ map' = map /\ timers[n] > 0
        /\ timers'[n] = timers[n] - 1 /\ use'[n] = (IF use[n] > 0 THEN use[n] - 1 ELSE use[n])
        /\ m # n => timers'[m] = timers[m] /\ use'[m] = use[m]
    BY <1>5, TimerFiresDoes
  <2>2. QED
    BY <1>1, <1>2, <2>1
<1>6. ASSUME NEW n \in Ids, NEW c \in Clients, WakeLater(c, n)
      PROVE  use'[m] = timers'[m] + Cardinality(Holders(halt', m)) + Cardinality(Holders(map', m))
  <2>1. /\ halt' = halt /\ map' = map
        /\ use'[n] = use[n] + 1 /\ timers'[n] = timers[n] + 1
        /\ m # n => timers'[m] = timers[m] /\ use'[m] = use[m]
    BY <1>6, WakeLaterDoes
  <2>2. QED
    BY <1>1, <1>2, <2>1
<1>7. ASSUME NEW j \in Jobs, NEW a \in Ids, halt[j] = Null, map[j] = Null, a # MapOf(j), MapOf(j) \in Ids,
             timers' = timers, use'[m] = use[m] + (IF m \in {MapOf(j), a} THEN 1 ELSE 0),
             halt'[j] = a, map'[j] = MapOf(j),
             \A i \in Jobs : i # j => halt'[i] = halt[i] /\ map'[i] = map[i]
      PROVE  use'[m] = timers'[m] + Cardinality(Holders(halt', m)) + Cardinality(Holders(map', m))
  <2>1. Null # m
    BY <1>3
  <2>2. \A i \in Jobs : i # j => halt'[i] = halt[i]
    BY <1>7
  <2>3. \A i \in Jobs : i # j => map'[i] = map[i]
    BY <1>7
  <2>4. Cardinality(Holders(halt', m)) = Cardinality(Holders(halt, m))
                + (IF halt'[j] = m THEN 1 ELSE 0) - (IF halt[j] = m THEN 1 ELSE 0)
    BY <2>2, HoldersChange
  <2>5. Cardinality(Holders(map', m)) = Cardinality(Holders(map, m))
                + (IF map'[j] = m THEN 1 ELSE 0) - (IF map[j] = m THEN 1 ELSE 0)
    BY <2>3, HoldersChange
  <2>6. QED
    BY <1>1, <1>2, <1>7, <2>1, <2>4, <2>5
<1>8. ASSUME NEW c \in Clients, NEW j \in Jobs, StartSubprocess(c, j)
      PROVE  use'[m] = timers'[m] + Cardinality(Holders(halt', m)) + Cardinality(Holders(map', m))
  <2>1. map[j] = Null /\ halt[j] = Null
    BY <1>8, StartSubprocessDoes DEF Placed
  <2>2. /\ HaltOf(j) \in Ids /\ MapOf(j) \in Ids /\ HaltOf(j) # MapOf(j) /\ timers' = timers
        /\ use'[m] = use[m] + (IF m \in {HaltOf(j), MapOf(j)} THEN 1 ELSE 0)
        /\ halt'[j] = HaltOf(j) /\ map'[j] = MapOf(j)
        /\ \A i \in Jobs : i # j => halt'[i] = halt[i] /\ map'[i] = map[i]
    BY <1>8, StartSubprocessDoes
  <2>3. QED
    BY <1>7, <2>1, <2>2
<1>9. ASSUME NEW c \in Clients, NEW j \in Jobs, NEW n \in Names, StartProcess(c, j, n)
      PROVE  use'[m] = timers'[m] + Cardinality(Holders(halt', m)) + Cardinality(Holders(map', m))
  <2>1. map[j] = Null /\ halt[j] = Null
    BY <1>9, StartProcessDoes DEF Placed
  <2>2. /\ n \in Ids /\ MapOf(j) \in Ids /\ n # MapOf(j) /\ timers' = timers
        /\ use'[m] = use[m] + (IF m \in {MapOf(j), n} THEN 1 ELSE 0)
        /\ halt'[j] = n /\ map'[j] = MapOf(j)
        /\ \A i \in Jobs : i # j => halt'[i] = halt[i] /\ map'[i] = map[i]
    BY <1>9, StartProcessDoes
  <2>3. QED
    BY <1>7, <2>1, <2>2
<1>10. ASSUME NEW j \in Jobs, JobFinish(j)
       PROVE  use'[m] = timers'[m] + Cardinality(Holders(halt', m)) + Cardinality(Holders(map', m))
  <2>1. /\ map[j] \in Ids /\ halt[j] \in Ids /\ map[j] # halt[j] /\ timers' = timers
        /\ use'[m] = (IF m \in {map[j], halt[j]} /\ use[m] > 0 THEN use[m] - 1 ELSE use[m])
        /\ halt'[j] = Null /\ map'[j] = Null
        /\ \A i \in Jobs : i # j => halt'[i] = halt[i] /\ map'[i] = map[i]
    BY <1>10, JobFinishDoes
  <2>2. Null # m
    BY <1>3
  <2>3. \A i \in Jobs : i # j => halt'[i] = halt[i]
    BY <2>1
  <2>4. \A i \in Jobs : i # j => map'[i] = map[i]
    BY <2>1
  <2>5. Cardinality(Holders(halt', m)) = Cardinality(Holders(halt, m))
                + (IF halt'[j] = m THEN 1 ELSE 0) - (IF halt[j] = m THEN 1 ELSE 0)
    BY <2>3, HoldersChange
  <2>6. Cardinality(Holders(map', m)) = Cardinality(Holders(map, m))
                + (IF map'[j] = m THEN 1 ELSE 0) - (IF map[j] = m THEN 1 ELSE 0)
    BY <2>4, HoldersChange
  <2>7. Cardinality(Holders(halt', m)) \in Nat
    BY <2>3, HoldersChange
  <2>8. Cardinality(Holders(map', m)) \in Nat
    BY <2>4, HoldersChange
  <2>9. QED
    BY <1>1, <1>2, <2>1, <2>2, <2>5, <2>6, <2>7, <2>8
<1>11. QED
  BY <1>3, <1>4, <1>5, <1>6, <1>8, <1>9, <1>10 DEF Moves

-----------------------------------------------------------------------------
(* The list of notices.                                                     *)

LEMMA AtExists ==
    ASSUME TypeOK, at \in 1 .. Len(notices)
    PROVE  notices[at] \in Range(notices)
<1>1. notices \in Seq(Ids)
  BY TypeParts
<1>2. QED
  BY <1>1 DEF Range

\* Notices are listed once; only what is collected leaves the list.
LEMMA ListedStep ==
    ASSUME TypeOK, Placed, IsInjective(notices), Next
    PROVE  /\ IsInjective(notices')
           /\ \A m \in Ids : m \in Range(notices) /\ m \notin Range(notices') => Leave(m) /\ Collectible(m)
<1> DEFINE Goal == /\ IsInjective(notices')
                   /\ \A m \in Ids : m \in Range(notices) /\ m \notin Range(notices')
                                       => Leave(m) /\ Collectible(m)
<1>1. Moves /\ notices \in Seq(Ids)
  BY NextMoves, TypeParts
<1>2. CASE notices' = notices
  BY <1>2
<1>3. ASSUME NEW n \in Ids, Leave(n) PROVE Goal
  <2>1. at \in 1 .. Len(notices) /\ n = notices[at]
    BY <1>3, LeaveDoes
  <2>2. CASE Collectible(n)
    <3>1. notices' = RemoveAt(notices, at)
      BY <1>3, <2>2, LeaveDoes
    <3>2. /\ IsInjective(RemoveAt(notices, at)) /\ RemoveAt(notices, at) \in Seq(Ids)
          /\ \A x : Has(RemoveAt(notices, at), x) <=> Has(notices, x) /\ x # n
      BY <1>1, <2>1, Removes
    <3>3. \A x : x \in Range(notices') <=> x \in Range(notices) /\ x # n
      BY <1>1, <3>1, <3>2, RangeHas
    <3>4. QED
      BY <1>3, <2>2, <3>1, <3>2, <3>3
  <2>3. CASE ~Collectible(n)
    <3>1. notices' = notices
      BY <1>3, <2>3, LeaveDoes
    <3>2. QED
      BY <3>1
  <2>4. QED
    BY <2>2, <2>3
<1>4. ASSUME NEW c \in Clients, NEW n \in Ids, Watch(c, n) PROVE Goal
  <2>1. notices' = CreateNotice(n)
    BY <1>4, WatchDoes
  <2>2. QED
    BY <2>1, Creates
<1>5. ASSUME NEW c \in Clients, NEW j \in Jobs, StartSubprocess(c, j) PROVE Goal
  <2>1. /\ notices' = Append(Append(notices, HaltOf(j)), MapOf(j))
        /\ MapOf(j) \notin Range(notices) /\ HaltOf(j) \notin Range(notices)
        /\ HaltOf(j) \in Ids /\ MapOf(j) \in Ids /\ HaltOf(j) # MapOf(j)
    BY <1>5, StartSubprocessDoes
  <2> DEFINE s == Append(notices, HaltOf(j))
  <2>2. /\ s \in Seq(Ids) /\ IsInjective(s)
        /\ \A m : m \in Range(s) <=> m \in Range(notices) \/ m = HaltOf(j)
    BY <1>1, <2>1, Adds
  <2> HIDE DEF s
  <2>3. /\ IsInjective(Append(s, MapOf(j)))
        /\ \A m : m \in Range(Append(s, MapOf(j))) <=> m \in Range(s) \/ m = MapOf(j)
    BY <2>1, <2>2, Adds
  <2>4. notices' = Append(s, MapOf(j))
    BY <2>1 DEF s
  <2>5. QED
    BY <2>2, <2>3, <2>4
<1>6. ASSUME NEW c \in Clients, NEW j \in Jobs, NEW n \in Names, StartProcess(c, j, n) PROVE Goal
  <2>1. /\ notices' = Append(CreateNotice(n), MapOf(j)) /\ MapOf(j) \notin Range(notices)
        /\ n \in Ids /\ MapOf(j) \in Ids /\ n # MapOf(j)
    BY <1>6, StartProcessDoes
  <2> DEFINE s == CreateNotice(n)
  <2>2. /\ s \in Seq(Ids) /\ IsInjective(s)
        /\ \A m : m \in Range(s) <=> m \in Range(notices) \/ m = n
    BY <2>1, Creates
  <2> HIDE DEF s
  <2>3. /\ IsInjective(Append(s, MapOf(j)))
        /\ \A m : m \in Range(Append(s, MapOf(j))) <=> m \in Range(s) \/ m = MapOf(j)
    BY <2>1, <2>2, Adds
  <2>4. notices' = Append(s, MapOf(j))
    BY <2>1 DEF s
  <2>5. QED
    BY <2>2, <2>3, <2>4
<1> HIDE DEF Goal
<1>7. Goal
  BY <1>1, <1>2, <1>3, <1>4, <1>5, <1>6 DEF Moves, Goal
<1>8. QED
  BY <1>7 DEF Goal

\* What a job is given exists.
LEMMA StartedExist ==
    ASSUME TypeOK, NEW c \in Clients, NEW j \in Jobs
    PROVE  /\ StartSubprocess(c, j) => HaltOf(j) \in Range(notices') /\ MapOf(j) \in Range(notices')
           /\ \A n \in Names : StartProcess(c, j, n) => n \in Range(notices') /\ MapOf(j) \in Range(notices')
<1>1. notices \in Seq(Ids)
  BY TypeParts
<1>2. ASSUME StartSubprocess(c, j)
      PROVE  HaltOf(j) \in Range(notices') /\ MapOf(j) \in Range(notices')
  <2> DEFINE s == Append(notices, HaltOf(j))
  <2>1. notices' = Append(s, MapOf(j)) /\ HaltOf(j) \in Ids /\ MapOf(j) \in Ids
    BY <1>2, StartSubprocessDoes
  <2>2. s \in Seq(Ids) /\ HaltOf(j) \in Range(s)
    BY <1>1, <2>1, Adds
  <2> HIDE DEF s
  <2>3. QED
    BY <2>1, <2>2, Adds
<1>3. ASSUME NEW n \in Names, StartProcess(c, j, n)
      PROVE  n \in Range(notices') /\ MapOf(j) \in Range(notices')
  <2> DEFINE s == CreateNotice(n)
  <2>1. notices' = Append(s, MapOf(j)) /\ n \in Ids /\ MapOf(j) \in Ids
    BY <1>3, StartProcessDoes
  <2>2. s \in Seq(Ids) /\ n \in Range(s)
    BY <2>1, Creates
  <2> HIDE DEF s
  <2>3. QED
    BY <2>1, <2>2, Adds
<1>4. QED
  BY <1>2, <1>3

\* A notice that is not in the list, and does not come into it, is left alone.
LEMMA CleanKeeps ==
    ASSUME TypeOK, Placed, Counted', Next, NEW m \in Ids, Clean(m),
           m \notin Range(notices), m \notin Range(notices')
    PROVE  Clean(m)'
<1>1. /\ timers[m] = 0 /\ use[m] = 0
      /\ \A j \in Jobs : halt[j] # m /\ map[j] # m
      /\ \A u \in Users : links[u][m] = 0
      /\ vector[m] = <<>> /\ queue[m] = <<>> /\ ~trigger[m] /\ parse[m] = None
  BY DEF Clean
<1>2. Moves /\ m # Null
  <2>1. Moves
    BY NextMoves
  <2>2. m # Null
    BY IdsDiffer
  <2>3. QED
    BY <2>1, <2>2
<1>3. timers'[m] = 0
  <2>1. ASSUME NEW n \in Ids, TimerFires(n) PROVE timers'[m] = 0
    <3>1. timers[n] > 0 /\ \A l \in Ids : l # n => timers'[l] = timers[l]
      BY <2>1, TimerFiresDoes
    <3>2. QED
      BY <1>1, <3>1
  <2>2. ASSUME NEW n \in Ids, NEW c \in Clients, WakeLater(c, n) PROVE timers'[m] = 0
    <3>1. n \in Range(notices) /\ \A l \in Ids : l # n => timers'[l] = timers[l]
      BY <2>2, WakeLaterDoes
    <3>2. QED
      BY <1>1, <3>1
  <2>3. ASSUME NEW c \in Clients, NEW j \in Jobs, StartSubprocess(c, j) PROVE timers' = timers
    BY <2>3, StartSubprocessDoes
  <2>4. ASSUME NEW c \in Clients, NEW j \in Jobs, NEW n \in Names, StartProcess(c, j, n) PROVE timers' = timers
    BY <2>4, StartProcessDoes
  <2>5. ASSUME NEW j \in Jobs, JobFinish(j) PROVE timers' = timers
    BY <2>5, JobFinishDoes
  <2>6. QED
    BY <1>1, <1>2, <2>1, <2>2, <2>3, <2>4, <2>5 DEF Moves
<1>4. ASSUME NEW i \in Jobs PROVE halt'[i] # m /\ map'[i] # m
  <2>1. ASSUME NEW c \in Clients, NEW j \in Jobs, StartSubprocess(c, j) PROVE halt'[i] # m /\ map'[i] # m
    <3>1. /\ halt'[j] \in Range(notices') /\ map'[j] \in Range(notices')
          /\ i # j => halt'[i] = halt[i] /\ map'[i] = map[i]
      BY <2>1, StartSubprocessDoes, StartedExist
    <3>2. QED
      BY <1>1, <3>1
  <2>2. ASSUME NEW c \in Clients, NEW j \in Jobs, NEW n \in Names, StartProcess(c, j, n)
        PROVE  halt'[i] # m /\ map'[i] # m
    <3>1. /\ halt'[j] \in Range(notices') /\ map'[j] \in Range(notices')
          /\ i # j => halt'[i] = halt[i] /\ map'[i] = map[i]
      BY <2>2, StartProcessDoes, StartedExist
    <3>2. QED
      BY <1>1, <3>1
  <2>3. ASSUME NEW j \in Jobs, JobFinish(j) PROVE halt'[i] # m /\ map'[i] # m
    <3>1. /\ halt'[j] = Null /\ map'[j] = Null
          /\ i # j => halt'[i] = halt[i] /\ map'[i] = map[i]
      BY <2>3, JobFinishDoes
    <3>2. QED
      BY <1>1, <1>2, <3>1
  <2>4. QED
    BY <1>1, <1>2, <2>1, <2>2, <2>3 DEF Moves
<1>5. use'[m] = 0
  <2>1. Holders(halt', m) = {} /\ Holders(map', m) = {}
    BY <1>4 DEF Holders
  <2>2. use'[m] = timers'[m] + Cardinality(Holders(halt', m)) + Cardinality(Holders(map', m))
    BY DEF Counted, Holders
  <2>3. QED
    BY <1>3, <2>1, <2>2, FS_EmptySet
<1>6. vector'[m] = <<>> /\ \A u \in Users : links'[u][m] = 0
  <2>1. ASSUME vector'[m] = vector[m], \A u \in Users : links'[u][m] = links[u][m]
        PROVE  vector'[m] = <<>> /\ \A u \in Users : links'[u][m] = 0
    BY <1>1, <2>1
  <2>2. ASSUME NEW n \in Ids, Call(n) PROVE vector'[m] = <<>> /\ \A u \in Users : links'[u][m] = 0
    <3>1. n \in Range(notices)
      BY <2>2, CallDoes, AtExists
    <3>2. \/ UNCHANGED <<vector, links>>
          \/ /\ \A l \in Ids : l # n => vector'[l] = vector[l]
             /\ \A u \in Users, l \in Ids :
                  u # vector[n][k].client \/ l # n => links'[u][l] = links[u][l]
      BY <2>2, CallDoes
    <3>3. QED
      BY <2>1, <3>1, <3>2
  <2>3. ASSUME NEW c \in Clients, Departs(c) PROVE vector'[m] = <<>> /\ \A u \in Users : links'[u][m] = 0
    <3>1. Visiting(c) /\ Release(c) /\ c \in Users
      BY <2>3, DepartsDoes, Known
    <3>2. /\ vector'[m] = IF links[c][m] > 0 THEN Compacted(vector[m], c) ELSE vector[m]
          /\ links'[c][m] = 0
          /\ \A u \in Users : u # c => links'[u] = links[u]
      BY <3>1, Departure
    <3>3. ~(links[c][m] > 0)
      BY <1>1, <3>1
    <3>4. QED
      BY <1>1, <3>2, <3>3
  <2>4. ASSUME NEW u \in Users, NEW n \in Ids, NEW call \in Calls, AddNotice(u, n, call), n # m
        PROVE  vector'[m] = <<>> /\ \A x \in Users : links'[x][m] = 0
    BY <1>1, <2>4, Subscribed
  <2>5. ASSUME NEW c \in Clients, NEW n \in Ids, Watch(c, n)
        PROVE  vector'[m] = <<>> /\ \A u \in Users : links'[u][m] = 0
    <3>1. AddNotice(c, n, "resume") /\ notices' = CreateNotice(n) /\ c \in Users /\ "resume" \in Calls
      BY <2>5, WatchDoes, Known
    <3>2. n # m
      BY <3>1, Creates
    <3>3. QED
      BY <2>4, <3>1, <3>2
  <2>6. ASSUME NEW c \in Clients, NEW j \in Jobs, StartSubprocess(c, j)
        PROVE  vector'[m] = <<>> /\ \A u \in Users : links'[u][m] = 0
    <3>1. m \notin {HaltOf(j), MapOf(j)}
      BY <2>6, StartedExist
    <3>2. /\ \A l \in Ids : l \notin {HaltOf(j), MapOf(j)} => vector'[l] = vector[l]
          /\ \A u \in Users, l \in Ids :
                u # c \/ l \notin {HaltOf(j), MapOf(j)} => links'[u][l] = links[u][l]
      BY <2>6, StartSubprocessDoes
    <3>3. QED
      BY <2>1, <3>1, <3>2
  <2>7. ASSUME NEW c \in Clients, NEW j \in Jobs, Match(c, j)
        PROVE  vector'[m] = <<>> /\ \A u \in Users : links'[u][m] = 0
    <3>1. AddNotice(c, map[j], "match") /\ map[j] \in Ids /\ c \in Users /\ "match" \in Calls
      BY <2>7, MatchDoes, Known
    <3>2. map[j] # m
      BY <1>1
    <3>3. QED
      BY <2>4, <3>1, <3>2
  <2>8. ASSUME NEW c \in Clients, NEW j \in Jobs, NEW n \in Names, StartProcess(c, j, n)
        PROVE  vector'[m] = <<>> /\ \A u \in Users : links'[u][m] = 0
    <3>1. AddNotice(Template, MapOf(j), "log") /\ MapOf(j) \in Ids /\ Template \in Users /\ "log" \in Calls
      BY <2>8, StartProcessDoes, Known
    <3>2. MapOf(j) # m
      BY <2>8, StartedExist
    <3>3. QED
      BY <2>4, <3>1, <3>2
  <2>9. QED
    BY <1>1, <1>2, <2>2, <2>3, <2>5, <2>6, <2>7, <2>8 DEF Moves
<1>7. queue'[m] = <<>> /\ ~trigger'[m] /\ parse'[m] = None
  <2>1. ASSUME queue'[m] = queue[m], trigger'[m] = trigger[m], parse'[m] = parse[m]
        PROVE  queue'[m] = <<>> /\ ~trigger'[m] /\ parse'[m] = None
    BY <1>1, <2>1
  <2>2. ASSUME NEW n \in Ids, TimerFires(n)
        PROVE  queue'[m] = queue[m] /\ trigger'[m] = trigger[m] /\ parse'[m] = parse[m]
    BY <1>1, <2>2, TimerFiresDoes
  <2>3. ASSUME NEW n \in Ids, Begin(n)
        PROVE  queue'[m] = queue[m] /\ trigger'[m] = trigger[m] /\ parse'[m] = parse[m]
    <3>1. n # m
      BY <2>3, BeginDoes, AtExists
    <3>2. QED
      BY <2>3, <3>1, BeginDoes
  <2>4. ASSUME NEW n \in Ids, NextMessage(n)
        PROVE  queue'[m] = queue[m] /\ trigger'[m] = trigger[m] /\ parse'[m] = parse[m]
    <3>1. n # m
      BY <2>4, NextMessageDoes, AtExists
    <3>2. QED
      BY <2>4, <3>1, NextMessageDoes
  <2>5. ASSUME NEW n \in Ids, Leave(n)
        PROVE  queue'[m] = queue[m] /\ trigger'[m] = trigger[m] /\ parse'[m] = parse[m]
    <3>1. n # m
      BY <2>5, LeaveDoes, AtExists
    <3>2. QED
      BY <2>5, <3>1, LeaveDoes
  <2>6. ASSUME NEW c \in Clients, NEW n \in Ids, Wake(c, n)
        PROVE  queue'[m] = queue[m] /\ trigger'[m] = trigger[m] /\ parse'[m] = parse[m]
    BY <2>6, WakeDoes
  <2>7. ASSUME NEW j \in Jobs, JobInform(j)
        PROVE  queue'[m] = queue[m] /\ trigger'[m] = trigger[m] /\ parse'[m] = parse[m]
    BY <1>1, <2>7, JobInformDoes
  <2>8. ASSUME NEW j \in Jobs, JobFinish(j)
        PROVE  queue'[m] = queue[m] /\ trigger'[m] = trigger[m] /\ parse'[m] = parse[m]
    BY <1>1, <2>8, JobFinishDoes
  <2>9. QED
    BY <1>1, <1>2, <2>1, <2>2, <2>3, <2>4, <2>5, <2>6, <2>7, <2>8 DEF Moves
<1>8. QED
  BY <1>3, <1>4, <1>5, <1>6, <1>7 DEF Clean


\* What is collected was let go of by everybody: holders, subscribers, and the
\* clients' references.
LEMMA LeavesClean ==
    ASSUME TypeOK, Counted, LinksExact, InCall, NEW m \in Ids, Leave(m), Collectible(m)
    PROVE  Clean(m)'
<1>1. /\ pc # "call" /\ vector' = vector /\ parse' = parse /\ links' = links /\ use' = use
      /\ timers' = timers /\ halt' = halt /\ map' = map
      /\ queue'[m] = <<>> /\ ~trigger'[m]
  BY LeaveDoes
<1>2. vector[m] = <<>> /\ use[m] = 0
  <2>1. use[m] \in Nat
    BY TypeParts
  <2>2. vector[m] = <<>> /\ use[m] <= 0
    BY DEF Collectible
  <2>3. QED
    BY <2>1, <2>2
<1>3. \A u \in Users : links[u][m] = 0
  <2>1. \A u \in Users : links[u][m] = Cardinality(EntriesOf(<<>>, u))
    BY <1>1, <1>2 DEF LinksExact
  <2>2. QED
    BY <2>1, EmptyVector
<1>4. parse[m] = None
  BY <1>1 DEF InCall
<1>5. timers[m] = 0 /\ \A j \in Jobs : halt[j] # m /\ map[j] # m
  <2>1. /\ Holders(halt, m) \in SUBSET Jobs /\ Holders(map, m) \in SUBSET Jobs
        /\ timers[m] \in Nat
        /\ use[m] = timers[m] + Cardinality(Holders(halt, m)) + Cardinality(Holders(map, m))
    BY TypeParts DEF Holders, Counted
  <2>2. IsFiniteSet(Holders(halt, m)) /\ IsFiniteSet(Holders(map, m))
    BY <2>1, FiniteAssumption, FS_Subset
  <2>3. Cardinality(Holders(halt, m)) \in Nat /\ Cardinality(Holders(map, m)) \in Nat
    BY <2>2, FS_CardinalityType
  <2>4. timers[m] = 0 /\ Cardinality(Holders(halt, m)) = 0 /\ Cardinality(Holders(map, m)) = 0
    BY <1>2, <2>1, <2>3
  <2>5. Holders(halt, m) = {} /\ Holders(map, m) = {}
    BY <2>2, <2>4, FS_EmptySet
  <2>6. QED
    BY <2>4, <2>5 DEF Holders
<1>6. QED
  BY <1>1, <1>2, <1>3, <1>4, <1>5 DEF Clean

LEMMA DanglingStep ==
    ASSUME TypeOK, NoDangling, LinksExact, Placed, InCall, Next
    PROVE  NoDangling'
<1>1. /\ Counted /\ IsInjective(notices)
      /\ \A n \in Ids : n \notin Range(notices) => Clean(n)
  BY DanglingParts
<1>2. Counted'
  BY <1>1, CountedStep
<1>3. /\ IsInjective(notices')
      /\ \A m \in Ids : m \in Range(notices) /\ m \notin Range(notices') => Leave(m) /\ Collectible(m)
  BY <1>1, ListedStep
<1>4. ASSUME NEW m \in Ids, m \notin Range(notices') PROVE Clean(m)'
  <2>1. CASE m \in Range(notices)
    BY <1>1, <1>3, <1>4, <2>1, LeavesClean
  <2>2. CASE m \notin Range(notices)
    BY <1>1, <1>2, <1>4, <2>2, CleanKeeps
  <2>3. QED
    BY <2>1, <2>2
<1>5. (NoDangling <=> /\ Counted /\ IsInjective(notices)
                      /\ \A n \in Ids : n \notin Range(notices) => Clean(n))'
  BY DanglingParts, PTL
<1>6. QED
  BY <1>2, <1>3, <1>4, <1>5

-----------------------------------------------------------------------------
(* The vectors.                                                             *)

\* Who subscribes to a notice, as what.
Subscribing(u, m, call) ==
  \/ call = "resume" /\ u \in Clients /\ Watch(u, m)
  \/ call = "match" /\ u \in Clients /\ \E j \in Jobs : map[j] = m /\ Match(u, j)
  \/ /\ call = "log" /\ u = Template
     /\ \E c \in Clients, j \in Jobs, n \in Names : MapOf(j) = m /\ StartProcess(c, j, n)

LEMMA SubscribingDoes ==
    ASSUME TypeOK, NEW u, NEW m \in Ids, NEW call, Subscribing(u, m, call)
    PROVE  /\ u \in Users /\ call \in Calls /\ AddNotice(u, m, call) /\ Entry(u, call) \in Entries
           /\ u = Template <=> call = "log"
           /\ call # "relay"
           /\ u \in Clients => u \in Range(table) /\ ~pause[u]
           /\ pc = "dispatch" /\ UNCHANGED <<table, pc, at, k, called>>
<1>1. Template \notin Clients /\ table \in Seq(Clients)
  BY TypeParts, NamesAssumption
<1>2. /\ u \in Users /\ call \in Calls /\ AddNotice(u, m, call)
      /\ u = Template <=> call = "log"
      /\ call # "relay"
      /\ u \in Clients => Request(u)
      /\ \E c \in Clients : Request(c)
  <2>1. CASE call = "resume" /\ u \in Clients /\ Watch(u, m)
    BY <1>1, <2>1, WatchDoes, Known
  <2>2. ASSUME call = "match", u \in Clients, NEW j \in Jobs, map[j] = m, Match(u, j)
        PROVE  Request(u) /\ AddNotice(u, m, call)
    BY <2>2, MatchDoes
  <2>3. CASE call = "match" /\ u \in Clients /\ \E j \in Jobs : map[j] = m /\ Match(u, j)
    BY <1>1, <2>2, <2>3, Known
  <2>4. ASSUME call = "log", u = Template,
               NEW c \in Clients, NEW j \in Jobs, NEW n \in Names, MapOf(j) = m, StartProcess(c, j, n)
        PROVE  Request(c) /\ AddNotice(u, m, call)
    BY <2>4, StartProcessDoes
  <2>5. CASE /\ call = "log" /\ u = Template
             /\ \E c \in Clients, j \in Jobs, n \in Names : MapOf(j) = m /\ StartProcess(c, j, n)
    BY <1>1, <2>4, <2>5, Known
  <2>6. QED
    BY <2>1, <2>3, <2>5 DEF Subscribing
<1>3. /\ pc = "dispatch" /\ UNCHANGED <<table, pc, at, k, called>>
      /\ u \in Clients => at \in 1 .. Len(table) /\ u = table[at] /\ ~pause[u]
  BY <1>2, RequestDoes
<1>4. u \in Clients => u \in Range(table)
  BY <1>1, <1>3 DEF Range
<1>5. QED
  BY <1>2, <1>3, <1>4, Known

\* The ways in which the subscribers of a notice change.
LEMMA VectorMoves ==
    ASSUME TypeOK, Placed, Next, NEW m \in Ids
    PROVE  \/ vector'[m] = vector[m] /\ \A u \in Users : links'[u][m] = links[u][m]
           \/ Call(m) /\ ~Stays(vector[m][k], Message(m))
           \/ \E c \in Clients : Departs(c)
           \/ \E u \in Users, call \in Calls : Subscribing(u, m, call)
           \/ \E c \in Clients, j \in Jobs : StartSubprocess(c, j) /\ m \in {HaltOf(j), MapOf(j)}
<1> DEFINE Same == vector'[m] = vector[m] /\ \A u \in Users : links'[u][m] = links[u][m]
           Subscribed1 == \E u \in Users, call \in Calls : Subscribing(u, m, call)
           Started == \E c \in Clients, j \in Jobs : StartSubprocess(c, j) /\ m \in {HaltOf(j), MapOf(j)}
<1>1. Moves
  BY NextMoves
<1>2. CASE UNCHANGED <<vector, links>>
  BY <1>2
<1>3. ASSUME NEW n \in Ids, Call(n) PROVE Same \/ (Call(m) /\ ~Stays(vector[m][k], Message(m)))
  <2>1. CASE Stays(vector[n][k], Message(n))
    <3>1. UNCHANGED <<vector, links>>
      BY <1>3, <2>1, CallDoes
    <3>2. QED
      BY <3>1
  <2>2. CASE ~Stays(vector[n][k], Message(n))
    <3>1. /\ \A l \in Ids : l # n => vector'[l] = vector[l]
          /\ \A u \in Users, l \in Ids : u # vector[n][k].client \/ l # n => links'[u][l] = links[u][l]
      BY <1>3, <2>2, CallDoes
    <3>2. QED
      BY <1>3, <2>2, <3>1
  <2>3. QED
    BY <2>1, <2>2
<1>4. ASSUME NEW u \in Users, NEW n \in Ids, NEW call \in Calls, AddNotice(u, n, call), n # m
      PROVE  Same
  BY <1>4, Subscribed
<1>5. ASSUME NEW c \in Clients, NEW n \in Ids, Watch(c, n) PROVE Same \/ Subscribed1
  <2>1. c \in Users /\ "resume" \in Calls
    BY Known
  <2>2. CASE n = m
    BY <1>5, <2>1, <2>2 DEF Subscribing
  <2>3. CASE n # m
    BY <1>4, <1>5, <2>1, <2>3, WatchDoes
  <2>4. QED
    BY <2>2, <2>3
<1>6. ASSUME NEW c \in Clients, NEW j \in Jobs, Match(c, j) PROVE Same \/ Subscribed1
  <2>1. c \in Users /\ "match" \in Calls
    BY Known
  <2>2. CASE map[j] = m
    BY <1>6, <2>1, <2>2 DEF Subscribing
  <2>3. CASE map[j] # m
    BY <1>4, <1>6, <2>1, <2>3, MatchDoes
  <2>4. QED
    BY <2>2, <2>3
<1>7. ASSUME NEW c \in Clients, NEW j \in Jobs, NEW n \in Names, StartProcess(c, j, n)
      PROVE  Same \/ Subscribed1
  <2>1. Template \in Users /\ "log" \in Calls
    BY Known
  <2>2. CASE MapOf(j) = m
    BY <1>7, <2>1, <2>2 DEF Subscribing
  <2>3. CASE MapOf(j) # m
    BY <1>4, <1>7, <2>1, <2>3, StartProcessDoes
  <2>4. QED
    BY <2>2, <2>3
<1>8. ASSUME NEW c \in Clients, NEW j \in Jobs, StartSubprocess(c, j) PROVE Same \/ Started
  <2>1. CASE m \in {HaltOf(j), MapOf(j)}
    BY <1>8, <2>1
  <2>2. CASE m \notin {HaltOf(j), MapOf(j)}
    <3>1. /\ vector'[m] = vector[m]
          /\ \A u \in Users : links'[u][m] = links[u][m]
      BY <1>8, <2>2, StartSubprocessDoes
    <3>2. QED
      BY <3>1
  <2>3. QED
    BY <2>1, <2>2
<1> HIDE DEF Same, Subscribed1, Started
<1>9. \/ Same
      \/ Call(m) /\ ~Stays(vector[m][k], Message(m))
      \/ \E c \in Clients : Departs(c)
      \/ Subscribed1
      \/ Started
  <2>1. CASE UNCHANGED <<vector, links>>
    BY <1>2, <2>1 DEF Same
  <2>2. QED
    BY <1>1, <2>1, <1>3, <1>5, <1>6, <1>7, <1>8 DEF Moves
<1>10. QED
  BY <1>9 DEF Same, Subscribed1, Started

\* A client that goes has no entries left.
LEMMA Disowns ==
    ASSUME TypeOK, LinksExact, NEW c \in Clients, Departs(c), NEW m \in Ids
    PROVE  /\ Kept(vector[m], vector'[m], c)
           /\ EntriesOf(vector'[m], c) = {}
           /\ \A e : Has(vector'[m], e) => e.client # c
           /\ links'[c][m] = 0
           /\ \A u \in Users : u # c => links'[u][m] = links[u][m]
<1>1. pc # "call" /\ Visiting(c) /\ Release(c)
  BY DepartsDoes
<1>2. c \in Users /\ vector[m] \in Seq(Entries) /\ links[c][m] \in Nat
  BY Known, TypeParts
<1>3. links[c][m] = Cardinality(EntriesOf(vector[m], c))
  BY <1>1, <1>2 DEF LinksExact
<1>4. /\ Kept(vector[m], vector'[m], c)
      /\ vector'[m] = IF links[c][m] > 0 THEN Compacted(vector[m], c) ELSE vector[m]
      /\ links[c][m] > 0 => EntriesOf(vector'[m], c) = {}
      /\ links'[c][m] = 0
      /\ \A u \in Users : u # c => links'[u][m] = links[u][m]
  BY <1>1, Departure
<1>5. vector'[m] \in Seq(Entries)
  BY <1>4 DEF Kept
<1>6. EntriesOf(vector'[m], c) = {}
  <2>1. CASE links[c][m] > 0
    BY <1>4, <2>1
  <2>2. CASE ~(links[c][m] > 0)
    <3>1. vector'[m] = vector[m] /\ Cardinality(EntriesOf(vector[m], c)) = 0
      BY <1>2, <1>3, <1>4, <2>2
    <3>2. QED
      BY <1>2, <3>1, NoEntries
  <2>3. QED
    BY <2>1, <2>2
<1>7. \A e : Has(vector'[m], e) => e.client # c
  BY <1>5, <1>6, NoEntries
<1>8. QED
  BY <1>4, <1>6, <1>7

\* Callbacks stay different; entries go, or one comes.
LEMMA EntriesMove ==
    ASSUME TypeOK, LinksExact, Placed, Shaped, Next, NEW m \in Ids
    PROVE  /\ Distinct(vector'[m]) /\ vector'[m] \in Seq(Entries)
           /\ \/ \A e : Has(vector'[m], e) => Has(vector[m], e)
              \/ \E u \in Users, call \in Calls :
                   /\ Subscribing(u, m, call) /\ ~Duplicate(vector[m], call)
                   /\ vector'[m] = Append(vector[m], Entry(u, call))
                   /\ \A e : Has(vector'[m], e) <=> Has(vector[m], e) \/ e = Entry(u, call)
              \/ \E c \in Clients, j \in Jobs :
                   /\ StartSubprocess(c, j)
                   /\ \/ m = HaltOf(j) /\ \A e : Has(vector'[m], e) <=> e = Entry(c, "resume")
                      \/ m = MapOf(j) /\ \A e : Has(vector'[m], e) <=> e = Entry(c, "relay")
<1> DEFINE Less == \A e : Has(vector'[m], e) => Has(vector[m], e)
           One == \E u \in Users, call \in Calls :
                   /\ Subscribing(u, m, call) /\ ~Duplicate(vector[m], call)
                   /\ vector'[m] = Append(vector[m], Entry(u, call))
                   /\ \A e : Has(vector'[m], e) <=> Has(vector[m], e) \/ e = Entry(u, call)
           New == \E c \in Clients, j \in Jobs :
                   /\ StartSubprocess(c, j)
                   /\ \/ m = HaltOf(j) /\ \A e : Has(vector'[m], e) <=> e = Entry(c, "resume")
                      \/ m = MapOf(j) /\ \A e : Has(vector'[m], e) <=> e = Entry(c, "relay")
           Goal == Distinct(vector'[m]) /\ (Less \/ One \/ New)
<1>1. vector[m] \in Seq(Entries) /\ Distinct(vector[m])
  BY TypeParts DEF Shaped
<1>2. ASSUME vector'[m] = vector[m] PROVE Goal
  BY <1>1, <1>2
<1>3. ASSUME Call(m), ~Stays(vector[m][k], Message(m)) PROVE Goal
  <2>1. k \in 1 .. Len(vector[m]) /\ vector'[m] = SwapRemove(vector[m], k)
    BY <1>3, CallDoes
  <2>2. /\ Distinct(SwapRemove(vector[m], k))
        /\ \A e : Has(SwapRemove(vector[m], k), e) <=> Has(vector[m], e) /\ e # vector[m][k]
    BY <1>1, <2>1, SwapDistinct
  <2>3. Distinct(vector'[m]) /\ \A e : Has(vector'[m], e) => Has(vector[m], e)
    BY <2>1, <2>2, Zenon
  <2>4. QED
    BY <2>3
<1>4. ASSUME NEW c \in Clients, Departs(c) PROVE Goal
  <2>1. Kept(vector[m], vector'[m], c)
    BY <1>4, Disowns
  <2>2. QED
    BY <1>1, <2>1 DEF Kept
<1>5. ASSUME NEW u \in Users, NEW call \in Calls, Subscribing(u, m, call) PROVE Goal
  <2>1. AddNotice(u, m, call) /\ Entry(u, call) \in Entries
    BY <1>5, SubscribingDoes
  <2>2. \/ vector'[m] = vector[m]
        \/ vector'[m] = Append(vector[m], Entry(u, call)) /\ ~Duplicate(vector[m], call)
    BY <2>1, Subscribed
  <2>3. CASE vector'[m] = Append(vector[m], Entry(u, call)) /\ ~Duplicate(vector[m], call)
    <3>1. \A e : Has(Append(vector[m], Entry(u, call)), e) <=> Has(vector[m], e) \/ e = Entry(u, call)
      BY <1>1, <2>1, AppendHas
    <3>2. ~Duplicate(vector[m], Entry(u, call).call)
      BY <2>3, Known
    <3>3. Distinct(Append(vector[m], Entry(u, call)))
      BY <1>1, <2>1, <3>2, AppendDistinct
    <3>4. One
      BY <1>5, <2>3, <3>1
    <3>5. QED
      BY <2>3, <3>3, <3>4
  <2>4. QED
    BY <1>2, <2>2, <2>3
<1>6. ASSUME NEW c \in Clients, NEW j \in Jobs, StartSubprocess(c, j), m \in {HaltOf(j), MapOf(j)}
      PROVE  Goal
  <2>1. vector'[MapOf(j)] = <<Entry(c, "relay")>> /\ vector'[HaltOf(j)] = <<Entry(c, "resume")>>
    BY <1>6, StartSubprocessDoes
  <2>2. \A x : Distinct(<<x>>) /\ \A e : Has(<<x>>, e) <=> e = x
    BY DEF Distinct, Has
  <2>3. CASE m = HaltOf(j)
    <3>1. Distinct(vector'[m]) /\ \A e : Has(vector'[m], e) <=> e = Entry(c, "resume")
      BY <2>1, <2>2, <2>3
    <3>2. QED
      BY <1>6, <2>3, <3>1
  <2>4. CASE m = MapOf(j)
    <3>1. Distinct(vector'[m]) /\ \A e : Has(vector'[m], e) <=> e = Entry(c, "relay")
      BY <2>1, <2>2, <2>4
    <3>2. QED
      BY <1>6, <2>4, <3>1
  <2>5. QED
    BY <1>6, <2>3, <2>4
<1>7. vector'[m] \in Seq(Entries)
  <2>1. TypeOK'
    BY TypeStep
  <2>2. QED
    BY <2>1 DEF TypeOK
<1> HIDE DEF Goal
<1>8. Goal
  <2>1. \/ vector'[m] = vector[m]
        \/ Call(m) /\ ~Stays(vector[m][k], Message(m))
        \/ \E c \in Clients : Departs(c)
        \/ \E u \in Users, call \in Calls : Subscribing(u, m, call)
        \/ \E c \in Clients, j \in Jobs : StartSubprocess(c, j) /\ m \in {HaltOf(j), MapOf(j)}
    BY VectorMoves
  <2>2. QED
    BY <1>2, <1>3, <1>4, <1>5, <1>6, <2>1
<1>9. QED
  BY <1>7, <1>8 DEF Goal

\* One entry.
LEMMA EntryMoves ==
    ASSUME TypeOK, LinksExact, Placed, Shaped, Next, NEW m \in Ids, NEW e, Has(vector'[m], e)
    PROVE  \/ Has(vector[m], e)
           \/ \E u \in Users, call \in Calls : Subscribing(u, m, call) /\ e = Entry(u, call)
           \/ \E c \in Clients, j \in Jobs :
                /\ StartSubprocess(c, j)
                /\ \/ m = HaltOf(j) /\ e = Entry(c, "resume")
                   \/ m = MapOf(j) /\ e = Entry(c, "relay")
<1>1. CASE \A x : Has(vector'[m], x) => Has(vector[m], x)
  BY <1>1
<1>2. ASSUME NEW u \in Users, NEW call \in Calls, Subscribing(u, m, call),
             \A x : Has(vector'[m], x) <=> Has(vector[m], x) \/ x = Entry(u, call)
      PROVE  Has(vector[m], e) \/ (Subscribing(u, m, call) /\ e = Entry(u, call))
  BY <1>2
<1>3. ASSUME NEW c \in Clients, NEW j \in Jobs, StartSubprocess(c, j),
             \/ m = HaltOf(j) /\ \A x : Has(vector'[m], x) <=> x = Entry(c, "resume")
             \/ m = MapOf(j) /\ \A x : Has(vector'[m], x) <=> x = Entry(c, "relay")
      PROVE  \/ m = HaltOf(j) /\ e = Entry(c, "resume")
             \/ m = MapOf(j) /\ e = Entry(c, "relay")
  BY <1>3
<1>4. QED
  BY EntriesMove, <1>1, <1>2, <1>3

LEMMA TableKeeps ==
    ASSUME TypeOK, Placed, Next, NEW x \in Range(table), x \notin Range(table')
    PROVE  x \in Clients /\ Departs(x)
<1>1. Moves /\ table \in Seq(Clients) /\ IsInjective(table)
  BY NextMoves, TypeParts DEF Placed
<1>2. x \in Clients
  BY <1>1 DEF Range
<1>3. ASSUME NEW c \in Clients, Departs(c) PROVE x = c
  <2>1. Visiting(c) /\ Release(c)
    BY <1>3, DepartsDoes
  <2>2. \A y : y \in Range(table') <=> y \in Range(table) /\ y # c
    BY <1>1, <2>1, DepartureTable
  <2>3. QED
    BY <2>2
<1>4. ASSUME NEW c \in Clients, Connect(c) \/ Perforate(c) PROVE FALSE
  <2>1. table' = table \/ (c \notin Range(table) /\ table' = Append(table, c))
    BY <1>4, ComesDoes
  <2>2. x \in Range(Append(table, c))
    <3>1. Has(table, x)
      BY <1>1, RangeHas
    <3>2. Has(Append(table, c), x) /\ Append(table, c) \in Seq(Clients)
      BY <1>1, <3>1, AppendHas
    <3>3. QED
      BY <3>2, RangeHas
  <2>3. QED
    BY <2>1, <2>2
<1>5. QED
  BY <1>1, <1>2, <1>3, <1>4 DEF Moves

LEMMA ShapedStep ==
    ASSUME TypeOK, LinksExact, Placed, Shaped, Next
    PROVE  Shaped'
<1> DEFINE Fits(e) == /\ e.client = Template <=> e.call = "log"
                      /\ e.client \in Range(table) \cup {Template}
           Fits1(e) == /\ e.client = Template <=> e.call = "log"
                       /\ e.client \in Range(table') \cup {Template}
<1> SUFFICES ASSUME NEW m \in Ids
             PROVE  Distinct(vector'[m]) /\ \A e \in Entries : Has(vector'[m], e) => Fits1(e)
  BY DEF Shaped, Has, Distinct
<1>1. Distinct(vector'[m])
  BY EntriesMove
<1>2. \A e \in Entries : Has(vector[m], e) => Fits(e)
  BY DEF Shaped
<1>3. ASSUME NEW e \in Entries, Has(vector'[m], e), Fits(e)
      PROVE  Fits1(e)
  <2>1. CASE e.client = Template
    BY <1>3, <2>1
  <2>2. CASE e.client # Template /\ e.client \notin Range(table')
    <3>1. e.client \in Clients /\ Departs(e.client)
      BY <1>3, <2>2, TableKeeps
    <3>2. FALSE
      BY <1>3, <3>1, Disowns
    <3>3. QED
      BY <3>2
  <2>3. QED
    BY <1>3, <2>1, <2>2
<1>4. ASSUME NEW u \in Users, NEW call \in Calls, Subscribing(u, m, call)
      PROVE  Fits(Entry(u, call))
  <2>1. /\ u \in Users /\ (u = Template <=> call = "log")
        /\ u \in Clients => u \in Range(table)
    BY <1>4, SubscribingDoes
  <2>2. Entry(u, call).client = u /\ Entry(u, call).call = call
    BY Known
  <2>3. QED
    BY <2>1, <2>2 DEF Users
<1>5. ASSUME NEW c \in Clients, NEW j \in Jobs, StartSubprocess(c, j)
      PROVE  Fits(Entry(c, "resume")) /\ Fits(Entry(c, "relay"))
  <2>1. /\ c # Template /\ table \in Seq(Clients)
        /\ at \in 1 .. Len(table) /\ c = table[at]
    BY <1>5, StartSubprocessDoes, RequestDoes, NamesAssumption, TypeParts
  <2>2. c \in Range(table)
    BY <2>1 DEF Range
  <2>3. /\ Entry(c, "resume").client = c /\ Entry(c, "resume").call = "resume"
        /\ Entry(c, "relay").client = c /\ Entry(c, "relay").call = "relay"
    BY Known
  <2>4. QED
    BY <2>1, <2>2, <2>3
<1> HIDE DEF Fits, Fits1
<1>6. ASSUME NEW e \in Entries, Has(vector'[m], e) PROVE Fits(e)
  <2>1. \/ Has(vector[m], e)
        \/ \E u \in Users, call \in Calls : Subscribing(u, m, call) /\ e = Entry(u, call)
        \/ \E c \in Clients, j \in Jobs :
             StartSubprocess(c, j) /\ e \in {Entry(c, "resume"), Entry(c, "relay")}
    BY <1>6, EntryMoves
  <2>2. CASE Has(vector[m], e)
    BY <1>2, <2>2
  <2>3. CASE \E u \in Users, call \in Calls : Subscribing(u, m, call) /\ e = Entry(u, call)
    BY <1>4, <2>3
  <2>4. CASE \E c \in Clients, j \in Jobs :
               StartSubprocess(c, j) /\ e \in {Entry(c, "resume"), Entry(c, "relay")}
    BY <1>5, <2>4
  <2>5. QED
    BY <2>1, <2>2, <2>3, <2>4
<1>7. \A e \in Entries : Has(vector'[m], e) => Fits1(e)
  BY <1>3, <1>6
<1>8. QED
  BY <1>1, <1>7

\* Who handles requests is not called any more: the informs of a job are relayed
\* to a client that is paused, or before the clients are visited.
LEMMA NoRelay ==
    ASSUME TypeOK, Waiting, Relayed, NEW u \in Users, NEW m \in Ids,
           pc = "dispatch", u \in Clients => ~pause[u]
    PROVE  ~Has(vector[m], Entry(u, "relay"))
<1>1. SUFFICES ASSUME Has(vector[m], Entry(u, "relay")) PROVE FALSE
  OBVIOUS
<1>2. PICK j \in Jobs : /\ m = MapOf(j)
                        /\ (halt[j] = HaltOf(j) /\ u \in Clients /\ Resumes(u, HaltOf(j))) \/ Returning(j)
  BY <1>1 DEF Relayed
<1>3. ~Returning(j)
  BY DEF Returning
<1>4. u \in Clients /\ Resumes(u, HaltOf(j)) /\ HaltOf(j) \in Ids
  BY <1>2, <1>3, IdsDiffer
<1>5. pause[u]
  BY <1>4 DEF Waiting
<1>6. QED
  BY <1>4, <1>5

LEMMA AloneStep ==
    ASSUME TypeOK, LinksExact, Placed, Shaped, Alone, Waiting, Relayed, Next
    PROVE  Alone'
<1> SUFFICES ASSUME NEW m \in Ids, NEW e \in Entries, NEW f \in Entries,
                    Has(vector'[m], e), Has(vector'[m], f), Again(e), e.client = f.client
             PROVE  e = f
  BY DEF Alone, Has, Again
<1>1. CASE \A x : Has(vector'[m], x) => Has(vector[m], x)
  BY <1>1 DEF Alone
<1>2. ASSUME NEW u \in Users, NEW call \in Calls,
             Subscribing(u, m, call), ~Duplicate(vector[m], call),
             \A x : Has(vector'[m], x) <=> Has(vector[m], x) \/ x = Entry(u, call)
      PROVE  e = f
  <2>1. /\ u = Template <=> call = "log"
        /\ call # "relay" /\ pc = "dispatch"
        /\ u \in Clients => ~pause[u]
    BY <1>2, SubscribingDoes
  <2>2. Entry(u, call).client = u /\ Entry(u, call).call = call
    BY Known
  <2>3. \A x \in Entries : Has(vector[m], x) => (x.client = Template <=> x.call = "log")
    BY DEF Shaped
  <2>4. \A x : Has(vector[m], x) => x.call # call
    BY <1>2 DEF Has, Duplicate
  <2>5. CASE Has(vector[m], e) /\ Has(vector[m], f)
    BY <2>5 DEF Alone
  <2>6. CASE e = Entry(u, call) /\ Has(vector[m], f)
    <3>1. call = "log" /\ f.client = Template
      BY <2>1, <2>2, <2>6 DEF Again
    <3>2. f.call = "log"
      BY <2>3, <2>6, <3>1
    <3>3. QED
      BY <2>4, <2>6, <3>1, <3>2
  <2>7. CASE Has(vector[m], e) /\ f = Entry(u, call)
    <3>1. e.client = u
      BY <2>2, <2>7
    <3>2. CASE e.call = "log"
      <4>1. u = Template
        BY <2>3, <2>7, <3>1, <3>2
      <4>2. QED
        BY <2>1, <2>4, <2>7, <3>2, <4>1
    <3>3. CASE e.call = "relay"
      <4>1. e = Entry(u, "relay")
        BY <3>1, <3>3 DEF Entry, Entries
      <4>2. ~Has(vector[m], Entry(u, "relay"))
        BY <2>1, NoRelay
      <4>3. QED
        BY <2>7, <4>1, <4>2
    <3>4. QED
      BY <3>2, <3>3 DEF Again
  <2>8. QED
    BY <1>2, <2>5, <2>6, <2>7
<1>3. ASSUME NEW x, \A y : Has(vector'[m], y) <=> y = x PROVE e = f
  BY <1>3
<1>4. QED
  BY EntriesMove, <1>1, <1>2, <1>3

-----------------------------------------------------------------------------
(* Who waits.                                                               *)

\* A client that does not wait has no entry to be resumed.
LEMMA WaitingStep ==
    ASSUME TypeOK, LinksExact, Placed, Shaped, Waiting, Next
    PROVE  Waiting'
<1> SUFFICES ASSUME NEW c \in Clients, NEW n \in Ids, Has(vector'[n], Entry(c, "resume"))
             PROVE  pause'[c] /\ \A m \in Ids : Has(vector'[m], Entry(c, "resume")) => m = n
  BY DEF Waiting, Resumes, Has, Entry
<1>1. Moves
  BY NextMoves
<1>2. \A x \in Clients, m \in Ids :
        Has(vector[m], Entry(x, "resume")) =>
          pause[x] /\ \A l \in Ids : Has(vector[l], Entry(x, "resume")) => l = m
  BY DEF Waiting, Resumes
\* A notice takes up the entry, or has it already.
<1>3. ASSUME NEW m \in Ids, Has(vector'[m], Entry(c, "resume"))
      PROVE  \/ Has(vector[m], Entry(c, "resume"))
             \/ Watch(c, m)
             \/ \E j \in Jobs : StartSubprocess(c, j) /\ m = HaltOf(j)
  <2>1. ASSUME NEW u \in Users, NEW call \in Calls, Subscribing(u, m, call),
               Entry(c, "resume") = Entry(u, call)
        PROVE  Watch(c, m)
    <3>1. u = c /\ call = "resume"
      BY <2>1, Known
    <3>2. QED
      BY <2>1, <3>1 DEF Subscribing
  <2>2. ASSUME NEW x \in Clients, NEW j \in Jobs, StartSubprocess(x, j), m = HaltOf(j),
               Entry(c, "resume") = Entry(x, "resume")
        PROVE  \E i \in Jobs : StartSubprocess(c, i) /\ m = HaltOf(i)
    <3>1. x = c
      BY <2>2, Known
    <3>2. QED
      BY <2>2, <3>1
  <2>3. \A x : Entry(c, "resume") # Entry(x, "relay")
    BY Known
  <2>4. \/ Has(vector[m], Entry(c, "resume"))
        \/ \E u \in Users, call \in Calls : Subscribing(u, m, call) /\ Entry(c, "resume") = Entry(u, call)
        \/ \E x \in Clients, j \in Jobs :
             /\ StartSubprocess(x, j)
             /\ \/ m = HaltOf(j) /\ Entry(c, "resume") = Entry(x, "resume")
                \/ Entry(c, "resume") = Entry(x, "relay")
    BY <1>3, EntryMoves
  <2>5. QED
    BY <2>1, <2>2, <2>3, <2>4
<1>4. ASSUME NEW m \in Ids, Watch(c, m)
      PROVE  pause'[c] /\ \A l \in Ids : Has(vector'[l], Entry(c, "resume")) => l = m
  <2>1. pause'[c] /\ ~pause[c]
    BY <1>4, WatchDoes, RequestDoes
  <2>2. AddNotice(c, m, "resume") /\ c \in Users /\ "resume" \in Calls
    BY <1>4, WatchDoes, Known
  <2>3. \A l \in Ids : l # m => vector'[l] = vector[l]
    BY <2>2, Subscribed
  <2>4. QED
    BY <1>2, <2>1, <2>3
<1>5. ASSUME NEW j \in Jobs, StartSubprocess(c, j)
      PROVE  pause'[c] /\ \A l \in Ids : Has(vector'[l], Entry(c, "resume")) => l = HaltOf(j)
  <2>1. pause'[c] /\ ~pause[c]
    BY <1>5, StartSubprocessDoes, RequestDoes
  <2>2. /\ \A l \in Ids : l \notin {HaltOf(j), MapOf(j)} => vector'[l] = vector[l]
        /\ vector'[MapOf(j)] = <<Entry(c, "relay")>>
    BY <1>5, StartSubprocessDoes
  <2>3. ~Has(<<Entry(c, "relay")>>, Entry(c, "resume"))
    <3>1. Entry(c, "relay") # Entry(c, "resume")
      BY Known
    <3>2. QED
      BY <3>1 DEF Has
  <2>4. QED
    BY <1>2, <2>1, <2>2, <2>3
<1>6. CASE Has(vector[n], Entry(c, "resume"))
  <2>1. pause[c] /\ \A l \in Ids : Has(vector[l], Entry(c, "resume")) => l = n
    BY <1>2, <1>6
  <2>2. ASSUME NEW m \in Ids, Watch(c, m) PROVE FALSE
    BY <2>1, <2>2, WatchDoes, RequestDoes
  <2>3. ASSUME NEW j \in Jobs, StartSubprocess(c, j) PROVE FALSE
    BY <2>1, <2>3, StartSubprocessDoes, RequestDoes
  <2>4. \A l \in Ids : Has(vector'[l], Entry(c, "resume")) => l = n
    BY <1>3, <2>1, <2>2, <2>3
  <2>5. pause'[c]
    <3>1. ASSUME NEW m \in Ids, Call(m) PROVE pause'[c]
      <4>1. SUFFICES ASSUME pause'[c] # pause[c] PROVE FALSE
        BY <2>1
      <4>2. /\ c = vector[m][k].client /\ vector[m][k].call = "resume"
            /\ k \in 1 .. Len(vector[m]) /\ vector[m][k] \in Entries
        BY <3>1, <4>1, CallDoes
      <4>3. vector[m][k] = Entry(c, "resume")
        BY <4>2 DEF Entry, Entries
      <4>4. Has(vector[m], Entry(c, "resume"))
        BY <4>2, <4>3 DEF Has
      <4>5. m = n
        BY <2>1, <4>4
      <4>6. ~Stays(vector[m][k], Message(m))
        BY <4>2 DEF Stays
      <4>7. vector'[n] = SwapRemove(vector[n], k)
        BY <3>1, <4>5, <4>6, CallDoes
      <4>8. vector[n] \in Seq(Entries) /\ Distinct(vector[n]) /\ k \in 1 .. Len(vector[n])
        BY <4>2, <4>5, TypeParts DEF Shaped
      <4>9. ~Has(SwapRemove(vector[n], k), vector[n][k])
        BY <4>8, SwapDistinct
      <4>10. QED
        BY <4>3, <4>5, <4>7, <4>9
    <3>2. ASSUME NEW x \in Clients, Departs(x) PROVE pause'[c]
      <4>1. Visiting(x) /\ Release(x)
        BY <3>2, DepartsDoes
      <4>2. x # c
        <5>1. Entry(c, "resume").client # x
          BY <3>2, Disowns
        <5>2. QED
          BY <5>1, Known
      <4>3. QED
        BY <2>1, <4>1, <4>2, Departure
    <3>3. ASSUME NEW x \in Clients, NEW m \in Ids, Watch(x, m) PROVE pause'[c]
      BY <2>1, <2>2, <3>3, WatchDoes, RequestDoes
    <3>4. ASSUME NEW x \in Clients, NEW j \in Jobs, StartSubprocess(x, j) PROVE pause'[c]
      <4>1. Request(x) /\ Paused(x)
        BY <3>4, StartSubprocessDoes
      <4>2. \A y \in Clients : y # x => pause'[y] = pause[y]
        BY <4>1, RequestDoes
      <4>3. x # c
        BY <2>3, <3>4
      <4>4. QED
        BY <2>1, <4>2, <4>3
    <3>5. QED
      BY <1>1, <2>1, <3>1, <3>2, <3>3, <3>4 DEF Moves
  <2>6. QED
    BY <2>4, <2>5
<1>7. QED
  BY <1>3, <1>4, <1>5, <1>6

-----------------------------------------------------------------------------
(* The loop over the subscribers.                                           *)

\* Where the main loop is.
PcMoves ==
  \/ LoopStep
  \/ \E n \in Ids : TimerFires(n) /\ pc = "timers" /\ pc' = "timers"
  \/ \E n \in Ids : Begin(n) \/ Call(n) \/ NextMessage(n) \/ Leave(n)
  \/ pc \in {"visit", "read", "dispatch"} /\ pc' \in {"visit", "read", "dispatch"}
  \/ pc = "accept" /\ pc' = "select" /\ Still
  \/ (\E j \in Jobs : JobInform(j) \/ JobFinish(j)) /\ pc = "jobs" /\ pc' = "jobs" /\ at' = at

LEMMA NextPcMoves ==
    ASSUME TypeOK, Placed, Next
    PROVE  PcMoves
<1>1. ASSUME NEW c \in Clients, Request(c) PROVE PcMoves
  <2>1. pc = "dispatch" /\ pc' = pc
    BY <1>1, RequestDoes
  <2>2. QED
    BY <2>1 DEF PcMoves
<1>2. ASSUME NEW n \in Ids, TimerFires(n) PROVE PcMoves
  BY <1>2, TimerFiresDoes DEF PcMoves
<1>3. ASSUME NEW c \in Clients, ClientStep(c) PROVE PcMoves
  <2>1. ASSUME Visits(c) PROVE pc \in {"visit", "read", "dispatch"} /\ pc' \in {"visit", "read", "dispatch"}
    BY <2>1, VisitDoes
  <2>2. ASSUME Departs(c) PROVE pc \in {"visit", "read", "dispatch"} /\ pc' \in {"visit", "read", "dispatch"}
    BY <2>2, DepartsDoes
  <2>3. ASSUME Read(c) PROVE pc \in {"visit", "read", "dispatch"} /\ pc' \in {"visit", "read", "dispatch"}
    BY <2>3, ReadDoes
  <2>4. ASSUME OtherRequest(c) PROVE PcMoves
    BY <1>1, <2>4 DEF OtherRequest
  <2>5. ASSUME Connect(c) \/ Perforate(c) PROVE pc = "accept" /\ pc' = "select" /\ Still
    BY <2>5, ComesDoes
  <2>6. QED
    BY <1>3, <2>1, <2>2, <2>3, <2>4, <2>5 DEF ClientStep, Visits, PcMoves
<1>4. ASSUME NEW c \in Clients, NEW n \in Ids, RequestStep(c, n) PROVE PcMoves
  BY <1>1, <1>4, WatchDoes, WakeDoes, WakeLaterDoes DEF RequestStep
<1>5. ASSUME NEW c \in Clients, NEW j \in Jobs, StartStep(c, j) PROVE PcMoves
  <2>1. Request(c)
    BY <1>5, StartProcessDoes, StartSubprocessDoes, MatchDoes DEF StartStep
  <2>2. QED
    BY <1>1, <2>1
<1>6. ASSUME NEW j \in Jobs, JobInform(j) \/ JobFinish(j) PROVE PcMoves
  <2>1. pc = "jobs" /\ pc' = pc /\ at' = at
    BY <1>6, JobInformDoes, JobFinishDoes
  <2>2. QED
    BY <1>6, <2>1 DEF PcMoves
<1>7. ASSUME NEW n \in Ids, NoticeStep(n) PROVE PcMoves
  BY <1>2, <1>7 DEF NoticeStep, PcMoves
<1>8. CASE LoopStep
  BY <1>8 DEF PcMoves
<1>9. QED
  BY Cases, <1>3, <1>4, <1>5, <1>6, <1>7, <1>8

\* A run of a notice goes on until everybody was called.
LEMMA CallSteps ==
    ASSUME TypeOK, Placed, Next
    PROVE  /\ pc = "call" => /\ notices[at] \in Ids /\ at \in 1 .. Len(notices)
                             /\ Call(notices[at]) \/ NextMessage(notices[at])
           /\ pc' = "call" => \E n \in Ids : Begin(n) \/ Call(n) \/ NextMessage(n)
<1>1. PcMoves
  BY NextPcMoves
<1>2. ASSUME LoopStep PROVE pc # "call" /\ pc' # "call"
  BY <1>2, LoopDoes
<1>3. ASSUME NEW n \in Ids, Leave(n) PROVE pc # "call" /\ pc' # "call"
  BY <1>3, LeaveDoes
<1>4. ASSUME NEW n \in Ids, Begin(n) PROVE pc # "call"
  BY <1>4, BeginDoes
<1>5. ASSUME NEW n \in Ids, Call(n) \/ NextMessage(n) PROVE n = notices[at] /\ at \in 1 .. Len(notices)
  BY <1>5, CallDoes, NextMessageDoes
<1>6. QED
  BY <1>1, <1>2, <1>3, <1>4, <1>5 DEF PcMoves

\* A callback that is to be called again.
LEMMA CallStays ==
    ASSUME TypeOK, NEW n \in Ids, Call(n), Stays(vector[n][k], Message(n))
    PROVE  /\ k' = k + 1 /\ UNCHANGED <<vector, links, parse, queue, limit>>
           /\ pc = "call" /\ pc' = "call" /\ at' = at /\ notices' = notices /\ n = notices[at]
           /\ vector[n] \in Seq(Entries) /\ k \in 1 .. Len(vector[n])
           /\ Again(vector[n][k]) /\ Message(n) \notin {None, "return"}
           /\ called' = called \cup {vector[n][k]}
<1>1. /\ k' = k + 1 /\ UNCHANGED <<vector, links, parse, queue, limit>>
      /\ pc = "call" /\ pc' = "call" /\ at' = at /\ notices' = notices /\ n = notices[at]
      /\ k \in 1 .. Len(vector[n]) /\ called' = called \cup {vector[n][k]}
  BY CallDoes
<1>2. vector[n] \in Seq(Entries)
  BY TypeParts
<1>3. Again(vector[n][k]) /\ Message(n) \notin {None, "return"}
  BY DEF Stays, Again
<1>4. QED
  BY <1>1, <1>2, <1>3

\* One that is done: the last entry takes its place.
LEMMA CallGoes ==
    ASSUME TypeOK, NEW n \in Ids, Call(n), ~Stays(vector[n][k], Message(n))
    PROVE  /\ k' = k /\ UNCHANGED <<parse, queue, limit>>
           /\ pc = "call" /\ pc' = "call" /\ at' = at /\ notices' = notices /\ n = notices[at]
           /\ vector[n] \in Seq(Entries) /\ k \in 1 .. Len(vector[n]) /\ Len(vector[n]) \in Nat
           /\ vector'[n] = SwapRemove(vector[n], k)
           /\ vector'[n] \in Seq(Entries) /\ Len(vector'[n]) = Len(vector[n]) - 1
           /\ \A x \in 1 .. Len(vector[n]) - 1 :
                vector'[n][x] = IF x = k THEN vector[n][Len(vector[n])] ELSE vector[n][x]
           /\ \A m \in Ids : m # n => vector'[m] = vector[m]
           /\ links'[vector[n][k].client][n] = 0
           /\ \A u \in Users, m \in Ids : u # vector[n][k].client \/ m # n => links'[u][m] = links[u][m]
           /\ called' = called \cup {vector[n][k]}
<1>1. /\ k' = k /\ UNCHANGED <<parse, queue, limit>>
      /\ pc = "call" /\ pc' = "call" /\ at' = at /\ notices' = notices /\ n = notices[at]
      /\ k \in 1 .. Len(vector[n]) /\ called' = called \cup {vector[n][k]}
      /\ vector'[n] = SwapRemove(vector[n], k)
      /\ \A m \in Ids : m # n => vector'[m] = vector[m]
      /\ links'[vector[n][k].client][n] = 0
      /\ \A u \in Users, m \in Ids : u # vector[n][k].client \/ m # n => links'[u][m] = links[u][m]
  BY CallDoes
<1>2. vector[n] \in Seq(Entries)
  BY TypeParts
<1> DEFINE v == vector[n]
<1> HIDE DEF v
<1>3. /\ SwapRemove(v, k) \in Seq(Entries)
      /\ Len(SwapRemove(v, k)) = Len(v) - 1
      /\ \A x \in 1 .. Len(v) - 1 : SwapRemove(v, k)[x] = IF x = k THEN v[Len(v)] ELSE v[x]
      /\ Len(v) \in Nat
  <2>1. v \in Seq(Entries) /\ k \in 1 .. Len(v)
    BY <1>1, <1>2 DEF v
  <2>2. Len(v) \in Nat
    BY <2>1
  <2>3. QED
    BY <2>1, <2>2, SwapRemoves, Zenon
<1>4. QED
  BY <1>1, <1>2, <1>3 DEF v

\* Every subscriber is called once.
LEMMA EachOnceStep ==
    ASSUME TypeOK, EachOnce, Placed, Shaped, Shaped', Next
    PROVE  EachOnce'
<1> SUFFICES ASSUME pc' = "call" PROVE EachOnce'
  BY DEF EachOnce
<1>1. ASSUME NEW n \in Ids, pc' = "call", n = notices'[at'],
             \A i \in 1 .. Len(vector'[n]) : vector'[n][i] \in called' <=> i < k'
      PROVE  EachOnce'
  <2>1. Distinct(vector'[n])
    BY DEF Shaped, Distinct
  <2>2. \A i, l \in 1 .. Len(vector'[n]) : vector'[n][i] = vector'[n][l] => i = l
    BY <2>1 DEF Distinct
  <2>3. QED
    BY <1>1, <2>2 DEF EachOnce
<1>2. ASSUME NEW n \in Ids, Begin(n) PROVE EachOnce'
  <2>1. k' = 1 /\ called' = {} /\ n = notices'[at'] /\ vector' = vector
    BY <1>2, BeginDoes
  <2>2. QED
    BY <1>1, <2>1
<1>3. ASSUME NEW n \in Ids, NextMessage(n) PROVE EachOnce'
  <2>1. k' = 1 /\ called' = {} /\ n = notices'[at'] /\ vector' = vector
    BY <1>3, NextMessageDoes
  <2>2. QED
    BY <1>1, <2>1
<1>4. ASSUME NEW n \in Ids, Call(n) PROVE EachOnce'
  <2> DEFINE v == vector[n]
             N == Len(v)
  <2>1. /\ n = notices[at] /\ n = notices'[at'] /\ pc = "call" /\ k \in 1 .. N /\ N \in Nat
        /\ called' = called \cup {v[k]}
    <3>1. n = notices[at] /\ n = notices'[at'] /\ pc = "call" /\ k \in 1 .. N /\ called' = called \cup {v[k]}
      BY <1>4, CallDoes
    <3>2. vector[n] \in Seq(Entries)
      BY TypeParts
    <3>3. QED
      BY <3>1, <3>2
  <2>2. /\ \A i \in 1 .. N : v[i] \in called <=> i < k
        /\ \A i, l \in 1 .. N : v[i] = v[l] => i = l
    BY <2>1 DEF EachOnce
  <2>3. CASE Stays(vector[n][k], Message(n))
    <3>1. k' = k + 1 /\ vector' = vector
      BY <1>4, <2>3, CallStays
    <3> HIDE DEF v, N
    <3>2. \A i \in 1 .. N : v[i] \in called' <=> i < k'
      BY <2>1, <2>2, <3>1
    <3>3. QED
      BY <1>1, <2>1, <3>1, <3>2 DEF v, N
  <2>4. CASE ~Stays(vector[n][k], Message(n))
    <3> DEFINE w == vector'[n]
    <3>1. /\ k' = k /\ Len(w) = N - 1
          /\ \A x \in 1 .. N - 1 : w[x] = IF x = k THEN v[N] ELSE v[x]
      BY <1>4, <2>4, CallGoes
    <3> HIDE DEF v, N, w
    <3>2. ASSUME NEW i \in 1 .. N - 1 PROVE w[i] \in called' <=> i < k'
      <4>1. i \in 1 .. N /\ N \in 1 .. N /\ i # N
        BY <2>1
      <4>2. QED
        BY <2>1, <2>2, <3>1, <4>1
    <3>3. \A i \in 1 .. Len(w) : w[i] \in called' <=> i < k'
      BY <3>1, <3>2
    <3>4. QED
      BY <1>1, <2>1, <3>3 DEF w
  <2>5. QED
    BY <2>3, <2>4
<1>5. QED
  BY CallSteps, <1>2, <1>3, <1>4

\* Links of the notice that is run, while its subscribers are called.
LEMMA LinkedCall ==
    ASSUME TypeOK, Shaped, Alone, InCall, NEW n \in Ids, Call(n)
    PROVE  Linked(n)'
<1> DEFINE v == vector[n]
           w == vector'[n]
           N == Len(v)
           e == v[k]
<1>1. pc = "call" /\ n = notices[at] /\ k \in 1 .. N /\ e \in Entries /\ v \in Seq(Entries)
  BY CallDoes, TypeParts
<1>2. /\ \A u \in Users :
           \/ links[u][n] = Cardinality(EntriesOf(v, u))
           \/ links[u][n] = 0 /\ \A i \in EntriesOf(v, u) : i >= k /\ ~Again(v[i])
      /\ \A i \in 1 .. k - 1 : Again(v[i])
  BY <1>1 DEF InCall, Linked
<1>3. SUFFICES ASSUME NEW u \in Users
               PROVE  \/ links'[u][n] = Cardinality(EntriesOf(w, u))
                      \/ links'[u][n] = 0 /\ \A i \in EntriesOf(w, u) : i >= k' /\ ~Again(w[i])
  BY DEF Linked, Again, EntriesOf
<1>4. CASE Stays(vector[n][k], Message(n))
  <2>1. k' = k + 1 /\ w = v /\ links' = links /\ Again(e)
    BY <1>4, CallStays
  <2> HIDE DEF v, w, e
  <2>2. CASE links[u][n] = Cardinality(EntriesOf(v, u))
    BY <2>1, <2>2
  <2>3. CASE links[u][n] = 0 /\ \A i \in EntriesOf(v, u) : i >= k /\ ~Again(v[i])
    <3>1. \A i \in EntriesOf(v, u) : i # k
      BY <2>1, <2>3 DEF e
    <3>2. \A i \in EntriesOf(v, u) : i >= k + 1
      <4>1. \A i \in EntriesOf(v, u) : i \in Nat
        BY <1>1 DEF EntriesOf, v
      <4>2. k \in Nat
        BY <1>1 DEF v
      <4>3. QED
        BY <2>3, <3>1, <4>1, <4>2
    <3>3. QED
      BY <2>1, <2>3, <3>2
  <2>4. QED
    BY <1>2, <2>2, <2>3
<1>5. CASE ~Stays(vector[n][k], Message(n))
  <2>1. /\ k' = k /\ w = SwapRemove(v, k) /\ w \in Seq(Entries) /\ Len(w) = N - 1 /\ N \in Nat
        /\ \A x \in 1 .. N - 1 : w[x] = IF x = k THEN v[N] ELSE v[x]
        /\ links'[e.client][n] = 0
        /\ u # e.client => links'[u][n] = links[u][n]
    BY <1>5, CallGoes
  <2>2. CASE u # e.client
    <3>1. Cardinality(EntriesOf(w, u)) = Cardinality(EntriesOf(v, u))
      <4>1. /\ Cardinality(EntriesOf(v, u)) \in Nat
            /\ Cardinality(EntriesOf(SwapRemove(v, k), u))
                 = Cardinality(EntriesOf(v, u)) - (IF v[k].client = u THEN 1 ELSE 0)
        BY <1>1, SwapCounts
      <4>2. QED
        BY <2>1, <2>2, <4>1
    <3>2. CASE links[u][n] = Cardinality(EntriesOf(v, u))
      BY <2>1, <2>2, <3>1, <3>2
    <3>3. CASE links[u][n] = 0 /\ \A i \in EntriesOf(v, u) : i >= k /\ ~Again(v[i])
      <4>1. ASSUME NEW i \in EntriesOf(w, u) PROVE i >= k' /\ ~Again(w[i])
        <5>1. i \in 1 .. N - 1 /\ w[i].client = u
          BY <2>1 DEF EntriesOf
        <5>2. CASE i = k
          <6>1. w[i] = v[N] /\ N \in EntriesOf(v, u)
            BY <2>1, <5>1, <5>2 DEF EntriesOf
          <6>2. QED
            BY <2>1, <3>3, <5>1, <5>2, <6>1
        <5>3. CASE i # k
          <6>1. w[i] = v[i] /\ i \in EntriesOf(v, u)
            BY <2>1, <5>1, <5>3 DEF EntriesOf
          <6>2. QED
            BY <2>1, <3>3, <6>1
        <5>4. QED
          BY <5>2, <5>3
      <4>2. QED
        BY <2>1, <2>2, <3>3, <4>1
    <3>4. QED
      BY <1>2, <3>2, <3>3
  <2>3. CASE u = e.client
    <3>1. \A f : Has(w, f) <=> Has(v, f) /\ f # e
      <4>1. Distinct(v)
        BY DEF Shaped
      <4>2. QED
        BY <1>1, <2>1, <4>1, SwapDistinct
    <3>2. ASSUME NEW i \in EntriesOf(w, u) PROVE i >= k' /\ ~Again(w[i])
      <4>1. i \in 1 .. N - 1 /\ w[i].client = u /\ w[i] \in Entries
        BY <2>1 DEF EntriesOf
      <4>2. Has(w, w[i]) /\ Has(v, e)
        BY <1>1, <2>1, <4>1 DEF Has
      <4>3. ~Again(w[i])
        BY <1>1, <2>3, <3>1, <4>1, <4>2 DEF Alone
      <4>4. CASE i < k
        <5>1. w[i] = v[i] /\ Again(v[i])
          BY <1>1, <1>2, <2>1, <4>1, <4>4
        <5>2. QED
          BY <4>3, <5>1
      <4>5. QED
        BY <1>1, <2>1, <4>1, <4>3, <4>4
    <3>3. QED
      BY <2>1, <2>3, <3>2
  <2>4. QED
    BY <2>2, <2>3
<1>6. QED
  BY <1>4, <1>5

\* When everybody was called the links are exact again.
LEMMA LinkedDone ==
    ASSUME TypeOK, InCall, NEW n \in Ids, NextMessage(n), NEW u \in Users
    PROVE  links[u][n] = Cardinality(EntriesOf(vector[n], u))
<1>1. /\ pc = "call" /\ n = notices[at] /\ k > Len(vector[n])
      /\ vector[n] \in Seq(Entries) /\ k \in Nat
  BY NextMessageDoes, TypeParts
<1>2. \/ links[u][n] = Cardinality(EntriesOf(vector[n], u))
      \/ /\ links[u][n] = 0
         /\ \A i \in EntriesOf(vector[n], u) : i >= k
  BY <1>1 DEF InCall, Linked
<1>3. CASE /\ links[u][n] = 0
           /\ \A i \in EntriesOf(vector[n], u) : i >= k
  <2>1. \A i \in EntriesOf(vector[n], u) : i \in Nat /\ i <= Len(vector[n])
    BY <1>1 DEF EntriesOf
  <2>2. EntriesOf(vector[n], u) = {}
    BY <1>1, <1>3, <2>1
  <2>3. Cardinality(EntriesOf(vector[n], u)) = 0
    BY <2>2, FS_EmptySet
  <2>4. QED
    BY <1>3, <2>3
<1>4. QED
  BY <1>2, <1>3

\* Messages come one after the other.
LEMMA InCallStep ==
    ASSUME TypeOK, LinksExact, Placed, Shaped, Alone, InCall, Next
    PROVE  InCall'
<1> DEFINE Runs(n) == /\ Fetched(n)'
                      /\ Message(n)' \in {None, "return"} => k' = 1
                      /\ k' <= Len(vector'[n]) + 1
                      /\ \A i \in 1 .. k' - 1 : Again(vector'[n][i])
                      /\ Linked(n)'
           Parsed == \A m \in Ids : parse'[m] # None => pc' = "call" /\ m = notices'[at']
<1>1. ASSUME Parsed, NEW n \in Ids, pc' = "call", n = notices'[at'], Runs(n)
      PROVE  InCall'
  BY <1>1 DEF InCall, Again, Fetched, Message, Linked
<1>2. ASSUME NEW n \in Ids, Begin(n) PROVE InCall'
  <2>1. /\ pc = "notice" /\ pc' = "call" /\ k' = 1 /\ n = notices'[at']
        /\ vector' = vector /\ links' = links /\ limit' = Len(queue[n])
        /\ IF queue[n] = <<>> THEN parse'[n] = None /\ queue'[n] = <<>>
           ELSE parse'[n] = Head(queue[n]) /\ queue'[n] = Tail(queue[n])
        /\ \A m \in Ids : m # n => parse'[m] = parse[m]
    BY <1>2, BeginDoes
  <2>2. vector[n] \in Seq(Entries) /\ queue[n] \in Seq(Messages)
    BY TypeParts
  <2>3. Parsed
    BY <2>1 DEF InCall
  <2>4. Fetched(n)'
    <3>1. CASE queue[n] = <<>>
      BY <2>1, <3>1 DEF Fetched
    <3>2. CASE queue[n] # <<>>
      <4>1. Head(queue[n]) \in Messages /\ Len(Tail(queue[n])) = Len(queue[n]) - 1 /\ Len(queue[n]) \in Nat
        BY <2>2, <3>2
      <4>2. parse'[n] # None
        BY <2>1, <3>2, <4>1, Known
      <4>3. limit' = Len(queue'[n]) + 1
        <5>1. limit' = Len(queue[n]) /\ queue'[n] = Tail(queue[n])
          BY <2>1, <3>2
        <5>2. QED
          BY <4>1, <5>1
      <4>4. QED
        BY <4>2, <4>3 DEF Fetched
    <3>3. QED
      BY <3>1, <3>2
  <2>5. k' <= Len(vector'[n]) + 1 /\ \A i \in 1 .. k' - 1 : Again(vector'[n][i])
    BY <2>1, <2>2
  <2>6. Linked(n)'
    <3>1. \A u \in Users : links[u][n] = Cardinality(EntriesOf(vector[n], u))
      BY <2>1 DEF LinksExact
    <3>2. QED
      BY <2>1, <3>1 DEF Linked, EntriesOf
  <2>7. QED
    BY <1>1, <2>1, <2>3, <2>4, <2>5, <2>6
<1>3. ASSUME NEW n \in Ids, Call(n) PROVE InCall'
  <2> DEFINE v == vector[n]
             w == vector'[n]
             N == Len(v)
  <2>1. /\ pc = "call" /\ pc' = "call" /\ n = notices[at] /\ n = notices'[at'] /\ k \in 1 .. N
        /\ parse' = parse /\ queue' = queue /\ limit' = limit
    BY <1>3, CallDoes
  <2>2. v \in Seq(Entries)
    BY TypeParts
  <2>3. /\ Parsed /\ Fetched(n)
        /\ Message(n) \in {None, "return"} => k = 1
        /\ \A i \in 1 .. k - 1 : Again(v[i])
    BY <2>1 DEF InCall
  <2>4. Fetched(n)' /\ Message(n)' = Message(n)
    BY <2>1, <2>3 DEF Fetched, Message
  <2>5. Linked(n)'
    BY <1>3, LinkedCall
  <2>6. CASE Stays(vector[n][k], Message(n))
    <3>1. k' = k + 1 /\ w = v /\ Again(v[k]) /\ Message(n) \notin {None, "return"}
      BY <1>3, <2>6, CallStays
    <3> HIDE DEF v, w
    <3>2. k' <= Len(w) + 1 /\ \A i \in 1 .. k' - 1 : Again(w[i])
      <4>1. \A i \in 1 .. k : i \in 1 .. k - 1 \/ i = k
        BY <2>1
      <4>2. k' - 1 = k /\ k <= N /\ N \in Nat
        BY <2>1, <2>2, <3>1 DEF v
      <4>3. \A i \in 1 .. k : Again(v[i])
        BY <2>3, <3>1, <4>1 DEF v
      <4>4. QED
        BY <3>1, <4>2, <4>3
    <3>3. QED
      BY <1>1, <2>1, <2>3, <2>4, <2>5, <3>1, <3>2 DEF w
  <2>7. CASE ~Stays(vector[n][k], Message(n))
    <3>1. /\ k' = k /\ Len(w) = N - 1 /\ N \in Nat
          /\ \A x \in 1 .. N - 1 : w[x] = IF x = k THEN v[N] ELSE v[x]
      BY <1>3, <2>7, CallGoes
    <3> HIDE DEF v, w, N
    <3>2. k' <= Len(w) + 1 /\ \A i \in 1 .. k' - 1 : Again(w[i])
      <4>1. \A i \in 1 .. k - 1 : i \in 1 .. N - 1 /\ i # k
        BY <2>1, <3>1
      <4>2. \A i \in 1 .. k - 1 : w[i] = v[i]
        BY <3>1, <4>1
      <4>3. \A i \in 1 .. k - 1 : Again(w[i])
        BY <2>3, <4>2 DEF v
      <4>4. QED
        BY <2>1, <3>1, <4>3
    <3>3. QED
      BY <1>1, <2>1, <2>3, <2>4, <2>5, <3>1, <3>2 DEF w
  <2>8. QED
    BY <2>6, <2>7
<1>4. ASSUME NEW n \in Ids, NextMessage(n) PROVE InCall'
  <2>1. /\ pc = "call" /\ n = notices[at] /\ n = notices'[at'] /\ limit' = limit - 1
        /\ vector' = vector /\ links' = links
        /\ \A m \in Ids : m # n => parse'[m] = parse[m]
        /\ IF limit - 1 > 0 /\ queue[n] # <<>>
           THEN parse'[n] = Head(queue[n]) /\ queue'[n] = Tail(queue[n]) /\ k' = 1 /\ pc' = "call"
           ELSE parse'[n] = None /\ pc' = "leave"
    BY <1>4, NextMessageDoes
  <2>2. vector[n] \in Seq(Entries) /\ queue[n] \in Seq(Messages) /\ limit \in Int
    BY TypeParts
  <2>3. \A m \in Ids : m # n => parse'[m] = None
    BY <2>1 DEF InCall
  <2>4. CASE limit - 1 > 0 /\ queue[n] # <<>>
    <3>1. parse'[n] = Head(queue[n]) /\ queue'[n] = Tail(queue[n]) /\ k' = 1 /\ pc' = "call"
      BY <2>1, <2>4
    <3>2. Parsed
      BY <2>1, <2>3, <3>1
    <3>3. Fetched(n)'
      <4>1. Head(queue[n]) \in Messages /\ Len(Tail(queue[n])) = Len(queue[n]) - 1 /\ Len(queue[n]) \in Nat
        BY <2>2, <2>4
      <4>2. parse'[n] # None
        BY <3>1, <4>1, Known
      <4>3. limit = Len(queue[n]) + 1
        BY <2>1, <2>2, <2>4 DEF InCall, Fetched
      <4>4. limit' = Len(queue'[n]) + 1
        BY <2>1, <3>1, <4>1, <4>3
      <4>5. QED
        BY <4>2, <4>4 DEF Fetched
    <3>4. k' <= Len(vector'[n]) + 1 /\ \A i \in 1 .. k' - 1 : Again(vector'[n][i])
      BY <2>1, <2>2, <3>1
    <3>5. Linked(n)'
      <4>1. \A u \in Users : links[u][n] = Cardinality(EntriesOf(vector[n], u))
        BY <1>4, LinkedDone
      <4>2. QED
        BY <2>1, <4>1 DEF Linked, EntriesOf
    <3>6. QED
      BY <1>1, <2>1, <3>1, <3>2, <3>3, <3>4, <3>5
  <2>5. CASE ~(limit - 1 > 0 /\ queue[n] # <<>>)
    <3>1. parse'[n] = None /\ pc' = "leave"
      BY <2>1, <2>5
    <3>2. QED
      BY <2>3, <3>1 DEF InCall
  <2>6. QED
    BY <2>4, <2>5
<1>5. CASE ~ \E n \in Ids : Begin(n) \/ Call(n) \/ NextMessage(n)
  <2>1. pc # "call" /\ pc' # "call"
    BY <1>5, CallSteps
  <2>2. \A m \in Ids : parse[m] = None
    BY <2>1 DEF InCall
  <2>3. \A m \in Ids : parse'[m] = None
    <3>1. Moves
      BY NextMoves
    <3>2. ASSUME NEW n \in Ids, TimerFires(n) \/ Leave(n) PROVE parse' = parse
      BY <3>2, TimerFiresDoes, LeaveDoes
    <3>3. ASSUME NEW c \in Clients, NEW n \in Ids, Wake(c, n) PROVE parse' = parse
      BY <3>3, WakeDoes
    <3>4. ASSUME NEW j \in Jobs, JobInform(j) \/ JobFinish(j) PROVE parse' = parse
      BY <3>4, JobInformDoes, JobFinishDoes
    <3>5. parse' = parse
      BY <1>5, <3>1, <3>2, <3>3, <3>4 DEF Moves
    <3>6. QED
      BY <2>2, <3>5
  <2>4. QED
    BY <2>1, <2>3 DEF InCall
<1>6. QED
  BY <1>2, <1>3, <1>4, <1>5

\* Both directions of a subscription agree.
LEMMA LinksStep ==
    ASSUME TypeOK, TypeOK', NoDangling, LinksExact, Placed, Shaped, Shaped', InCall, InCall', Next
    PROVE  LinksExact'
<1> DEFINE Exact1(m, u) == links'[u][m] = Cardinality(EntriesOf(vector'[m], u))
<1>1. ASSUME NEW m \in Ids, NEW u \in Users, ~(pc' = "call" /\ m = notices'[at'])
      PROVE  Exact1(m, u)
  <2>1. CASE pc = "call" /\ m = notices[at]
    <3>1. Call(m) \/ NextMessage(m)
      BY <2>1, CallSteps
    <3>2. ~Call(m)
      BY <1>1, <2>1, CallDoes
    <3>3. NextMessage(m)
      BY <3>1, <3>2
    <3>4. links' = links /\ vector' = vector
      BY <3>3, NextMessageDoes
    <3>5. links[u][m] = Cardinality(EntriesOf(vector[m], u))
      BY <3>3, LinkedDone
    <3>6. QED
      BY <3>4, <3>5
  <2>2. CASE ~(pc = "call" /\ m = notices[at])
    <3>1. links[u][m] = Cardinality(EntriesOf(vector[m], u))
      BY <2>2 DEF LinksExact
    <3>2. vector[m] \in Seq(Entries)
      BY TypeParts
    <3>3. ASSUME vector'[m] = vector[m], links'[u][m] = links[u][m] PROVE Exact1(m, u)
      BY <3>1, <3>3
    <3>4. ~Call(m)
      BY <2>2, CallDoes
    <3>5. ASSUME NEW c \in Clients, Departs(c) PROVE Exact1(m, u)
      <4>1. /\ Kept(vector[m], vector'[m], c) /\ EntriesOf(vector'[m], c) = {}
            /\ links'[c][m] = 0
            /\ u # c => links'[u][m] = links[u][m]
        BY <3>5, Disowns
      <4>2. CASE u = c
        BY <4>1, <4>2, FS_EmptySet
      <4>3. CASE u # c
        <5>1. Cardinality(EntriesOf(vector'[m], u)) = Cardinality(EntriesOf(vector[m], u))
          BY <4>1, <4>3 DEF Kept
        <5>2. QED
          BY <3>1, <4>1, <4>3, <5>1
      <4>4. QED
        BY <4>2, <4>3
    <3>6. ASSUME NEW x \in Users, NEW call \in Calls, Subscribing(x, m, call) PROVE Exact1(m, u)
      <4>1. AddNotice(x, m, call) /\ Entry(x, call) \in Entries /\ Entry(x, call).client = x
        BY <3>6, SubscribingDoes, Known
      <4>2. /\ \A y \in Users : y # x => links'[y] = links[y]
            /\ \/ vector'[m] = vector[m] /\ links'[x][m] = links[x][m]
               \/ vector'[m] = Append(vector[m], Entry(x, call)) /\ links'[x][m] = links[x][m] + 1
        BY <4>1, Subscribed
      <4>3. Cardinality(EntriesOf(Append(vector[m], Entry(x, call)), u))
              = Cardinality(EntriesOf(vector[m], u)) + (IF Entry(x, call).client = u THEN 1 ELSE 0)
        BY <3>2, <4>1, AppendCounts
      <4>4. Cardinality(EntriesOf(vector[m], u)) \in Nat
        BY <3>2, <4>1, AppendCounts
      <4>5. CASE u = x
        BY <3>1, <4>1, <4>2, <4>3, <4>5
      <4>6. CASE u # x
        <5>1. links'[u][m] = links[u][m]
          BY <4>2, <4>6
        <5>2. Cardinality(EntriesOf(Append(vector[m], Entry(x, call)), u)) = Cardinality(EntriesOf(vector[m], u))
          BY <4>1, <4>3, <4>4, <4>6
        <5>3. QED
          BY <3>1, <4>2, <5>1, <5>2
      <4>7. QED
        BY <4>5, <4>6
    <3>7. ASSUME NEW c \in Clients, NEW j \in Jobs, StartSubprocess(c, j), m \in {HaltOf(j), MapOf(j)}
          PROVE  Exact1(m, u)
      <4>1. /\ MapOf(j) \notin Range(notices) /\ HaltOf(j) \notin Range(notices)
            /\ vector'[MapOf(j)] = <<Entry(c, "relay")>> /\ vector'[HaltOf(j)] = <<Entry(c, "resume")>>
            /\ links'[c][MapOf(j)] = 1 /\ links'[c][HaltOf(j)] = 1
            /\ u # c => links'[u][m] = links[u][m]
        BY <3>7, StartSubprocessDoes
      <4>2. links[u][m] = 0
        BY <3>7, <4>1, DanglingParts DEF Clean
      <4>3. \A e : EntriesOf(<<e>>, u) = IF e.client = u THEN {1} ELSE {}
        BY DEF EntriesOf
      <4>4. Entry(c, "relay").client = c /\ Entry(c, "resume").client = c
        BY Known
      <4>5. Cardinality({1}) = 1 /\ Cardinality({}) = 0
        <5>1. Cardinality({}) = 0
          BY FS_EmptySet
        <5>2. Cardinality({1}) = 1
          BY FS_Singleton
        <5>3. QED
          BY <5>1, <5>2
      <4>6. CASE u = c
        BY <3>7, <4>1, <4>3, <4>4, <4>5, <4>6
      <4>7. CASE u # c
        BY <3>7, <4>1, <4>2, <4>3, <4>4, <4>5, <4>7
      <4>8. QED
        BY <4>6, <4>7
    <3> HIDE DEF Exact1
    <3>8. QED
      BY VectorMoves, <3>3, <3>4, <3>5, <3>6, <3>7
  <2>3. QED
    BY <2>1, <2>2
<1>2. ASSUME NEW m \in Ids, NEW i \in 1 .. Len(vector'[m])
      PROVE  vector'[m][i].client \in Range(table') \cup {Template}
  <2>1. vector'[m] \in Seq(Entries)
    BY DEF TypeOK
  <2>2. vector'[m][i] \in Entries /\ Has(vector'[m], vector'[m][i])
    BY <2>1 DEF Has
  <2>3. QED
    BY <2>2 DEF Shaped, Has
<1>3. QED
  BY <1>1, <1>2 DEF LinksExact, EntriesOf

-----------------------------------------------------------------------------
(* The ends of jobs.                                                        *)

\* A trigger that is set was set before, or is pulled by a timer, a client or a job.
LEMMA TriggerMoves ==
    ASSUME TypeOK, Placed, Next, NEW m \in Ids, trigger'[m]
    PROVE  \/ trigger[m]
           \/ TimerFires(m)
           \/ \E c \in Clients : Wake(c, m)
           \/ \E j \in Jobs : JobInform(j) /\ m = map[j]
           \/ \E j \in Jobs : JobFinish(j) /\ m \in {map[j], halt[j]}
<1>1. Moves
  BY NextMoves
<1>2. CASE trigger' = trigger
  BY <1>2
<1>3. ASSUME NEW n \in Ids, TimerFires(n) PROVE trigger[m] \/ m = n
  <2>1. m # n => trigger'[m] = trigger[m]
    BY <1>3, TimerFiresDoes
  <2>2. QED
    BY <2>1
<1>4. ASSUME NEW n \in Ids, Begin(n) PROVE trigger[m]
  <2>1. trigger[n] /\ (m # n => trigger'[m] = trigger[m])
    BY <1>4, BeginDoes
  <2>2. QED
    BY <2>1
<1>5. ASSUME NEW n \in Ids, NextMessage(n) PROVE trigger' = trigger
  BY <1>5, NextMessageDoes
<1>6. ASSUME NEW n \in Ids, Leave(n) PROVE trigger[m]
  <2>1. /\ m # n => trigger'[m] = trigger[m]
        /\ IF Collectible(n) THEN ~trigger'[n] ELSE trigger' = trigger
    BY <1>6, LeaveDoes
  <2>2. QED
    BY <2>1
<1>7. ASSUME NEW c \in Clients, NEW n \in Ids, Wake(c, n) PROVE trigger[m] \/ m = n
  <2>1. m # n => trigger'[m] = trigger[m]
    BY <1>7, WakeDoes
  <2>2. QED
    BY <2>1
<1>8. ASSUME NEW j \in Jobs, JobInform(j) PROVE trigger[m] \/ m = map[j]
  <2>1. m # map[j] => trigger'[m] = trigger[m]
    BY <1>8, JobInformDoes
  <2>2. QED
    BY <2>1
<1>9. ASSUME NEW j \in Jobs, JobFinish(j) PROVE trigger[m] \/ m \in {map[j], halt[j]}
  <2>1. m # map[j] /\ m # halt[j] => trigger'[m] = trigger[m]
    BY <1>9, JobFinishDoes
  <2>2. QED
    BY <2>1
<1>10. QED
  BY <1>1, <1>2, <1>3, <1>4, <1>5, <1>6, <1>7, <1>8, <1>9 DEF Moves

\* The notices of a job are taken up by a start and let go of by the end.
LEMMA HolderMoves ==
    ASSUME TypeOK, Placed, Next, NEW i \in Jobs
    PROVE  \/ halt'[i] = halt[i] /\ map'[i] = map[i]
           \/ map[i] = Null /\ halt[i] = Null /\ \E c \in Clients : StartSubprocess(c, i)
           \/ map[i] = Null /\ halt[i] = Null /\ halt'[i] \in Names
              /\ \E c \in Clients, n \in Names : StartProcess(c, i, n)
           \/ JobFinish(i)
<1>1. Moves
  BY NextMoves
<1>2. map[i] = Null <=> halt[i] = Null
  BY DEF Placed
<1>3. CASE UNCHANGED <<halt, map>>
  BY <1>3
<1>4. ASSUME NEW c \in Clients, NEW j \in Jobs, StartSubprocess(c, j)
      PROVE  /\ map[j] = Null
             /\ i # j => halt'[i] = halt[i] /\ map'[i] = map[i]
  BY <1>4, StartSubprocessDoes
<1>5. ASSUME NEW c \in Clients, NEW j \in Jobs, NEW n \in Names, StartProcess(c, j, n)
      PROVE  /\ map[j] = Null /\ halt'[j] \in Names
             /\ i # j => halt'[i] = halt[i] /\ map'[i] = map[i]
  BY <1>5, StartProcessDoes
<1>6. ASSUME NEW j \in Jobs, JobFinish(j)
      PROVE  i # j => halt'[i] = halt[i] /\ map'[i] = map[i]
  BY <1>6, JobFinishDoes
<1>7. QED
  BY <1>1, <1>2, <1>3, <1>4, <1>5, <1>6 DEF Moves

LEMMA HaltingStep ==
    ASSUME TypeOK, NoDangling, Placed, Halting, Next
    PROVE  Halting'
<1> SUFFICES ASSUME NEW i \in Jobs
             PROVE  /\ timers'[HaltOf(i)] = 0
                    /\ halt'[i] = HaltOf(i) =>
                         ~trigger'[HaltOf(i)] /\ ~(pc' = "call" /\ notices'[at'] = HaltOf(i))
  BY DEF Halting, HaltOf
<1> DEFINE h == HaltOf(i)
<1>1. /\ timers[h] = 0
      /\ halt[i] = h => ~trigger[h] /\ ~(pc = "call" /\ notices[at] = h)
  BY DEF Halting
<1>2. h \in Ids /\ h # Null /\ h \notin Names /\ Moves
  BY IdsDiffer, NextMoves
<1>3. \A n \in Ids : ~TimerFires(h)
  <2>1. TimerFires(h) => timers[h] > 0
    BY <1>2, TimerFiresDoes
  <2>2. QED
    BY <1>1, <2>1
<1>4. timers'[h] = 0
  <2>1. ASSUME NEW n \in Ids, TimerFires(n) PROVE timers'[h] = 0
    <3>1. n # h /\ \A m \in Ids : m # n => timers'[m] = timers[m]
      BY <1>3, <2>1, TimerFiresDoes
    <3>2. QED
      BY <1>1, <1>2, <3>1
  <2>2. ASSUME NEW c \in Clients, NEW n \in Ids, WakeLater(c, n) PROVE timers'[h] = 0
    <3>1. n # h /\ \A m \in Ids : m # n => timers'[m] = timers[m]
      BY <2>2, WakeLaterDoes
    <3>2. QED
      BY <1>1, <1>2, <3>1
  <2>3. ASSUME NEW c \in Clients, NEW j \in Jobs, StartSubprocess(c, j) PROVE timers' = timers
    BY <2>3, StartSubprocessDoes
  <2>4. ASSUME NEW c \in Clients, NEW j \in Jobs, NEW n \in Names, StartProcess(c, j, n) PROVE timers' = timers
    BY <2>4, StartProcessDoes
  <2>5. ASSUME NEW j \in Jobs, JobFinish(j) PROVE timers' = timers
    BY <2>5, JobFinishDoes
  <2>6. QED
    BY <1>1, <1>2, <2>1, <2>2, <2>3, <2>4, <2>5 DEF Moves
<1>5. ASSUME halt'[i] = h PROVE ~trigger'[h] /\ ~(pc' = "call" /\ notices'[at'] = h)
  <2>1. CASE halt'[i] = halt[i]
    <3>1. ~trigger[h] /\ ~(pc = "call" /\ notices[at] = h)
      BY <1>1, <1>5, <2>1
    <3>2. \A c \in Clients : ~Wake(c, h)
      BY <1>2, WakeDoes
    <3>3. ASSUME NEW j \in Jobs, JobInform(j) PROVE h # map[j]
      <4>1. map[j] # Null /\ map[j] \in {Null, MapOf(j)}
        BY <3>3, JobInformDoes DEF Placed
      <4>2. QED
        BY <4>1, IdsDiffer
    <3>4. ASSUME NEW j \in Jobs, JobFinish(j) PROVE h \notin {map[j], halt[j]}
      <4>1. /\ map[j] = MapOf(j) /\ halt[j] \in Names \cup {HaltOf(j)}
            /\ halt'[j] = Null
        BY <3>4, JobFinishDoes
      <4>2. i # j
        BY <1>2, <1>5, <4>1
      <4>3. QED
        BY <1>2, <4>1, <4>2, IdsDiffer
    <3>5. ~trigger'[h]
      BY <1>2, <1>3, <3>1, <3>2, <3>3, <3>4, TriggerMoves
    <3>6. ~(pc' = "call" /\ notices'[at'] = h)
      <4>1. ASSUME NEW n \in Ids, Begin(n) PROVE notices'[at'] # h
        <5>1. n = notices'[at'] /\ trigger[n]
          BY <4>1, BeginDoes
        <5>2. QED
          BY <3>1, <5>1
      <4>2. ASSUME NEW n \in Ids, Call(n) \/ NextMessage(n) PROVE notices'[at'] # h
        <5>1. notices'[at'] = notices[at] /\ pc = "call"
          BY <4>2, CallDoes, NextMessageDoes
        <5>2. QED
          BY <3>1, <5>1
      <4>3. QED
        BY <4>1, <4>2, CallSteps
    <3>7. QED
      BY <3>5, <3>6
  <2>2. CASE halt'[i] # halt[i]
    <3>1. ASSUME JobFinish(i) PROVE FALSE
      BY <1>2, <1>5, <3>1, JobFinishDoes
    <3>2. PICK c \in Clients : StartSubprocess(c, i)
      BY <1>2, <1>5, <2>2, <3>1, HolderMoves
    <3>3. h \notin Range(notices) /\ Request(c) /\ trigger' = trigger
      BY <3>2, StartSubprocessDoes
    <3>4. ~trigger[h]
      BY <1>2, <3>3, DanglingParts DEF Clean
    <3>5. pc' # "call"
      BY <3>3, RequestDoes
    <3>6. QED
      BY <3>3, <3>4, <3>5
  <2>3. QED
    BY <2>1, <2>2
<1>6. QED
  BY <1>4, <1>5

\* The last message of a job stays on its way while anybody is still to get it.
LEMMA LastTaken ==
    ASSUME NEW q \in Seq(Messages), EndsIn(q, "return")
    PROVE  /\ q # <<>> /\ Len(q) \in Nat /\ Len(q) >= 1
           /\ Tail(q) = <<>> => Head(q) = "return"
           /\ Tail(q) # <<>> => EndsIn(Tail(q), "return")
<1>1. q # <<>> /\ q[Len(q)] = "return" /\ Len(q) \in Nat /\ Len(q) >= 1
  BY DEF EndsIn
<1>2. Len(Tail(q)) = Len(q) - 1 /\ \A i \in 1 .. Len(q) - 1 : Tail(q)[i] = q[i + 1]
  BY <1>1
<1>3. ASSUME Tail(q) = <<>> PROVE Head(q) = "return"
  <2>1. Len(q) = 1
    <3>1. Len(Tail(q)) = 0
      <4>1. Len(<<>>) = 0
        OBVIOUS
      <4>2. QED
        BY <1>3, <4>1, Zenon
    <3>2. Len(Tail(q)) = Len(q) - 1 /\ Len(q) \in Nat
      BY <1>1, <1>2
    <3>3. QED
      BY <3>1, <3>2
  <2>2. QED
    BY <1>1, <2>1
<1>4. ASSUME Tail(q) # <<>> PROVE EndsIn(Tail(q), "return")
  <2>1. Tail(q) \in Seq(Messages)
    BY <1>1
  <2>2. Len(q) - 1 \in 1 .. Len(q) - 1
    BY <1>1, <1>2, <1>4, <2>1
  <2>3. Tail(q)[Len(q) - 1] = q[(Len(q) - 1) + 1]
    BY <1>2, <2>2
  <2>4. (Len(q) - 1) + 1 = Len(q)
    BY <1>1
  <2>5. QED
    BY <1>1, <1>2, <1>4, <2>3, <2>4 DEF EndsIn
<1>5. QED
  BY <1>1, <1>3, <1>4

LEMMA ReturningStep ==
    ASSUME TypeOK, NoDangling, Placed, InCall, Untriggered, Next,
           NEW j \in Jobs, Returning(j), NEW e, Has(vector'[MapOf(j)], e)
    PROVE  Returning(j)'
<1> DEFINE n == MapOf(j)
           Queued == /\ trigger'[n] /\ EndsIn(queue'[n], "return")
                     /\ pc' \in {"jobs", "notice", "call", "leave"}
           Running1 == /\ pc' = "call" /\ notices'[at'] = n
                       /\ \/ EndsIn(queue'[n], "return")
                          \/ parse'[n] = "return" /\ queue'[n] = <<>>
<1>1. n \in Ids /\ n # Null /\ queue[n] \in Seq(Messages) /\ notices \in Seq(Ids)
  BY IdsDiffer, TypeParts
<1>2. map[j] = Null /\ pc \in {"jobs", "notice", "call", "leave"}
  BY DEF Returning
<1>3. map'[j] = Null
  <2>1. ~JobFinish(j)
    BY <1>1, <1>2, JobFinishDoes
  <2>2. \A c \in Clients : Request(c) => pc = "dispatch"
    BY RequestDoes
  <2>3. \A c \in Clients : ~StartSubprocess(c, j) /\ \A m \in Names : ~StartProcess(c, j, m)
    BY <1>2, <2>2, StartSubprocessDoes, StartProcessDoes
  <2>4. QED
    BY <1>2, <2>1, <2>3, HolderMoves
<1>4. SUFFICES Queued \/ Running1
  BY <1>3 DEF Returning, EndsIn, MapOf
\* The next message is taken.
<1>5. ASSUME parse'[n] = Head(queue[n]), queue'[n] = Tail(queue[n]), EndsIn(queue[n], "return"),
             pc' = "call", notices'[at'] = n
      PROVE  Running1
  <2>1. /\ Tail(queue[n]) = <<>> => Head(queue[n]) = "return"
        /\ Tail(queue[n]) # <<>> => EndsIn(Tail(queue[n]), "return")
    BY <1>1, <1>5, LastTaken
  <2>2. QED
    BY <1>5, <2>1
<1>6. CASE trigger[n] /\ EndsIn(queue[n], "return")
  <2>1. n \in Range(notices)
    BY <1>1, <1>6, DanglingParts DEF Clean
  <2>2. ASSUME queue'[n] = queue[n], trigger'[n] = trigger[n], pc' \in {"jobs", "notice", "call", "leave"}
        PROVE  Queued
    BY <1>6, <2>2
  <2>3. ASSUME LoopStep PROVE Queued
    <3>1. Still
      BY <2>3, LoopDoes
    <3>2. \/ pc = "jobs" /\ pc' = "notice"
          \/ pc = "notice" /\ pc' = "accept" /\ at > Len(notices)
      BY <1>2, <2>3, LoopDoes
    <3>3. ~(pc = "notice" /\ at > Len(notices))
      <4>1. SUFFICES ASSUME pc = "notice", at > Len(notices) PROVE FALSE
        OBVIOUS
      <4>2. PICK i \in 1 .. Len(notices) : notices[i] = n
        BY <1>1, <2>1 DEF Range
      <4>3. i < at
        BY <1>1, <4>1, <4>2, TypeParts
      <4>4. QED
        BY <1>6, <4>1, <4>2, <4>3 DEF Untriggered
    <3>4. QED
      BY <1>6, <3>1, <3>2, <3>3 DEF Still
  <2>4. ASSUME NEW m \in Ids, Begin(m) PROVE Queued \/ Running1
    <3>1. /\ pc' = "call" /\ m = notices'[at']
          /\ m # n => queue'[n] = queue[n] /\ trigger'[n] = trigger[n]
          /\ IF queue[m] = <<>> THEN parse'[m] = None /\ queue'[m] = <<>>
             ELSE parse'[m] = Head(queue[m]) /\ queue'[m] = Tail(queue[m])
      BY <1>1, <2>4, BeginDoes
    <3>2. CASE m # n
      BY <2>2, <3>1, <3>2
    <3>3. CASE m = n
      <4>1. queue[n] # <<>>
        BY <1>6 DEF EndsIn
      <4>2. QED
        BY <1>5, <1>6, <3>1, <3>3, <4>1
    <3>4. QED
      BY <3>2, <3>3
  <2>5. ASSUME NEW m \in Ids, Call(m) PROVE Queued
    <3>1. pc' = "call" /\ queue' = queue /\ trigger' = trigger
      BY <2>5, CallDoes
    <3>2. QED
      BY <2>2, <3>1
  <2>6. ASSUME NEW m \in Ids, NextMessage(m) PROVE Queued
    <3>1. /\ pc = "call" /\ m = notices[at] /\ trigger' = trigger
          /\ m # n => queue'[n] = queue[n]
          /\ pc' \in {"call", "leave"}
      BY <1>1, <2>6, NextMessageDoes
    <3>2. ~trigger[m]
      BY <3>1 DEF Untriggered
    <3>3. QED
      BY <1>6, <2>2, <3>1, <3>2
  <2>7. ASSUME NEW m \in Ids, Leave(m) PROVE Queued
    <3>1. /\ pc = "leave" \/ (pc = "notice" /\ ~trigger[m])
          /\ pc' = "notice" /\ m = notices[at]
          /\ m # n => queue'[n] = queue[n] /\ trigger'[n] = trigger[n]
      BY <1>1, <2>7, LeaveDoes
    <3>2. ~trigger[m]
      BY <3>1 DEF Untriggered
    <3>3. QED
      BY <1>6, <2>2, <3>1, <3>2
  <2>8. ASSUME NEW i \in Jobs, JobInform(i) PROVE Queued
    <3>1. /\ map[i] # Null /\ map[i] \in {Null, MapOf(i)} /\ pc' = pc
          /\ n # map[i] => queue'[n] = queue[n] /\ trigger'[n] = trigger[n]
      BY <1>1, <2>8, JobInformDoes DEF Placed
    <3>2. n # map[i]
      <4>1. i # j
        BY <1>2, <3>1
      <4>2. QED
        BY <1>1, <3>1, <4>1, IdsDiffer
    <3>3. QED
      BY <1>2, <2>2, <3>1, <3>2
  <2>9. ASSUME NEW i \in Jobs, JobFinish(i) PROVE Queued
    <3>1. /\ map[i] = MapOf(i) /\ halt[i] \in Names \cup {HaltOf(i)} /\ pc' = pc
          /\ n # map[i] /\ n # halt[i] => queue'[n] = queue[n] /\ trigger'[n] = trigger[n]
      BY <1>1, <2>9, JobFinishDoes
    <3>2. n # map[i] /\ n # halt[i]
      <4>1. i # j
        BY <1>1, <1>2, <3>1, IdsDiffer
      <4>2. QED
        BY <1>1, <3>1, <4>1, IdsDiffer
    <3>3. QED
      BY <1>2, <2>2, <3>1, <3>2
  <2> HIDE DEF Queued, Running1
  <2>10. QED
    BY <1>2, <2>3, <2>4, <2>5, <2>6, <2>7, <2>8, <2>9, NextPcMoves DEF PcMoves
<1>7. CASE /\ pc = "call" /\ notices[at] = n
           /\ EndsIn(queue[n], "return") \/ (parse[n] = "return" /\ queue[n] = <<>>)
  <2>1. Call(n) \/ NextMessage(n)
    BY <1>7, CallSteps
  <2>2. CASE Call(n)
    <3>1. /\ pc' = "call" /\ queue' = queue /\ parse' = parse /\ notices' = notices /\ at' = at
      BY <1>1, <2>2, CallDoes
    <3>2. QED
      BY <1>7, <3>1
  <2>3. CASE NextMessage(n)
    <3>1. /\ k > Len(vector[n]) /\ vector' = vector /\ notices' = notices /\ at' = at
          /\ limit - 1 > 0 /\ queue[n] # <<>> =>
               parse'[n] = Head(queue[n]) /\ queue'[n] = Tail(queue[n]) /\ pc' = "call"
      BY <1>1, <2>3, NextMessageDoes
    <3>2. vector[n] \in Seq(Entries) /\ limit \in Int
      BY <1>1, TypeParts
    <3>3. CASE EndsIn(queue[n], "return")
      <4>1. queue[n] # <<>> /\ Len(queue[n]) \in Nat /\ Len(queue[n]) >= 1
        BY <1>1, <3>3, LastTaken
      <4>2. limit = Len(queue[n]) + 1
        BY <1>7, <4>1 DEF InCall, Fetched
      <4>3. limit - 1 > 0
        BY <4>1, <4>2
      <4>4. QED
        BY <1>5, <1>7, <3>1, <3>3, <4>1, <4>3
    <3>4. CASE parse[n] = "return" /\ queue[n] = <<>>
      <4>1. Message(n) = "return"
        BY <3>4 DEF Message, None
      <4>2. k = 1
        BY <1>7, <4>1 DEF InCall
      <4>3. Len(vector'[n]) = 0
        BY <3>1, <3>2, <4>2
      <4>4. QED
        BY <4>3 DEF Has
    <3>5. QED
      BY <1>7, <3>3, <3>4
  <2>4. QED
    BY <2>1, <2>2, <2>3
<1>8. QED
  BY <1>6, <1>7 DEF Returning

\* The entry by which a client waits for a job stays until the job has ended.
LEMMA KeepsWaiting ==
    ASSUME TypeOK, LinksExact, Placed, Shaped, Halting, Next,
           NEW c \in Clients, NEW j \in Jobs, halt[j] = HaltOf(j), Resumes(c, HaltOf(j)),
           \A x \in Clients : Departs(x) => x # c
    PROVE  Has(vector'[HaltOf(j)], Entry(c, "resume"))
<1> DEFINE h == HaltOf(j)
           e == Entry(c, "resume")
<1>1. h \in Ids /\ Has(vector[h], e) /\ vector[h] \in Seq(Entries) /\ Distinct(vector[h])
  BY IdsDiffer, TypeParts DEF Resumes, Shaped
<1>2. CASE vector'[h] = vector[h]
  BY <1>1, <1>2
<1>3. ~Call(h)
  BY <1>1, CallDoes DEF Halting
<1>4. ASSUME NEW x \in Clients, Departs(x) PROVE Has(vector'[h], e)
  <2>1. Kept(vector[h], vector'[h], x)
    BY <1>1, <1>4, Disowns
  <2>2. e.client # x
    <3>1. x # c
      BY <1>4
    <3>2. QED
      BY <3>1, Known
  <2>3. QED
    BY <1>1, <2>1, <2>2 DEF Kept
<1>5. ASSUME NEW u \in Users, NEW call \in Calls, Subscribing(u, h, call) PROVE Has(vector'[h], e)
  <2>1. AddNotice(u, h, call) /\ Entry(u, call) \in Entries
    BY <1>1, <1>5, SubscribingDoes
  <2>2. vector'[h] = vector[h] \/ vector'[h] = Append(vector[h], Entry(u, call))
    BY <1>1, <2>1, Subscribed
  <2>3. Has(Append(vector[h], Entry(u, call)), e)
    BY <1>1, <2>1, AppendHas
  <2>4. QED
    BY <1>1, <2>2, <2>3
<1>6. ASSUME NEW x \in Clients, NEW i \in Jobs, StartSubprocess(x, i), h \in {HaltOf(i), MapOf(i)}
      PROVE  FALSE
  <2>1. i = j
    BY <1>6, IdsDiffer
  <2>2. map[j] = Null
    BY <1>6, <2>1, StartSubprocessDoes
  <2>3. halt[j] # Null
    BY <1>1, IdsDiffer
  <2>4. QED
    BY <2>2, <2>3 DEF Placed
<1> HIDE DEF h, e
<1>7. Has(vector'[h], e)
  <2>1. ASSUME vector'[h] = vector[h] PROVE Has(vector'[h], e)
    BY <1>1, <2>1
  <2>2. QED
    BY VectorMoves, <1>1, <1>3, <1>4, <1>5, <1>6, <2>1
<1>8. QED
  BY <1>7 DEF h, e

LEMMA RelayedStep ==
    ASSUME TypeOK, NoDangling, LinksExact, Placed, Shaped, Halting, Relayed, InCall, Untriggered, Next
    PROVE  Relayed'
<1> SUFFICES ASSUME NEW c \in Users, NEW n \in Ids, Has(vector'[n], Entry(c, "relay"))
             PROVE  \E j \in Jobs :
                      /\ n = MapOf(j)
                      /\ \/ /\ halt'[j] = HaltOf(j) /\ c \in Clients
                            /\ Has(vector'[HaltOf(j)], Entry(c, "resume"))
                         \/ Returning(j)'
  BY DEF Relayed, Resumes, Has, Entry, MapOf, HaltOf
\* The command is started.
<1>1. ASSUME NEW x \in Clients, NEW j \in Jobs, StartSubprocess(x, j), n = MapOf(j),
             Entry(c, "relay") = Entry(x, "relay")
      PROVE  /\ halt'[j] = HaltOf(j) /\ c \in Clients
             /\ Has(vector'[HaltOf(j)], Entry(c, "resume"))
  <2>1. halt'[j] = HaltOf(j) /\ vector'[HaltOf(j)] = <<Entry(x, "resume")>>
    BY <1>1, StartSubprocessDoes
  <2>2. c = x
    BY <1>1, Known
  <2>3. Has(<<Entry(x, "resume")>>, Entry(x, "resume"))
    BY DEF Has
  <2>4. QED
    BY <2>1, <2>2, <2>3
\* The command runs.
<1>2. CASE Has(vector[n], Entry(c, "relay"))
  <2>1. PICK j \in Jobs : /\ n = MapOf(j)
                          /\ (halt[j] = HaltOf(j) /\ c \in Clients /\ Resumes(c, HaltOf(j))) \/ Returning(j)
    BY <1>2 DEF Relayed
  <2>2. CASE Returning(j)
    <3>1. Returning(j)'
      BY <2>1, <2>2, ReturningStep
    <3>2. QED
      BY <2>1, <3>1
  <2>3. CASE halt[j] = HaltOf(j) /\ c \in Clients /\ Resumes(c, HaltOf(j))
    <3>1. CASE JobFinish(j)
      <4>1. /\ pc = "jobs" /\ pc' = pc /\ map[j] = MapOf(j) /\ map'[j] = Null
            /\ queue'[map[j]] = Append(queue[map[j]], "return") /\ trigger'[map[j]]
        BY <3>1, JobFinishDoes
      <4>2. queue[n] \in Seq(Messages)
        BY TypeParts
      <4>3. EndsIn(Append(queue[n], "return"), "return")
        BY <4>2 DEF EndsIn
      <4>4. queue'[n] = Append(queue[n], "return")
        BY <2>1, <4>1
      <4>5. EndsIn(queue'[n], "return")
        BY <4>3, <4>4
      <4>6. Returning(j)'
        <5>1. trigger'[MapOf(j)] /\ EndsIn(queue'[MapOf(j)], "return") /\ pc' = "jobs" /\ map'[j] = Null
          BY <2>1, <4>1, <4>5
        <5>2. QED
          BY <5>1 DEF Returning, EndsIn, MapOf
      <4>7. QED
        BY <2>1, <4>6
    <3>2. CASE ~JobFinish(j)
      <4>1. halt[j] # Null
        BY <2>3, IdsDiffer
      <4>2. halt'[j] = halt[j]
        BY <3>2, <4>1, HolderMoves
      <4>3. ASSUME NEW x \in Clients, Departs(x) PROVE x # c
        <5>1. Entry(c, "relay").client # x
          BY <4>3, Disowns
        <5>2. QED
          BY <5>1, Known
      <4>4. Has(vector'[HaltOf(j)], Entry(c, "resume"))
        BY <2>3, <4>3, KeepsWaiting
      <4>5. QED
        BY <2>1, <2>3, <4>2, <4>4
    <3>3. QED
      BY <3>1, <3>2
  <2>4. QED
    BY <2>1, <2>2, <2>3
<1>3. ASSUME NEW u \in Users, NEW call \in Calls, Subscribing(u, n, call) PROVE Entry(c, "relay") # Entry(u, call)
  <2>1. call # "relay"
    BY <1>3, SubscribingDoes
  <2>2. QED
    BY <2>1, Known
<1>4. \A x : Entry(c, "relay") # Entry(x, "resume")
  BY Known
<1>5. \/ Has(vector[n], Entry(c, "relay"))
      \/ \E x \in Clients, j \in Jobs :
           StartSubprocess(x, j) /\ n = MapOf(j) /\ Entry(c, "relay") = Entry(x, "relay")
  BY EntryMoves, <1>3, <1>4
<1>6. QED
  BY <1>1, <1>2, <1>5

-----------------------------------------------------------------------------
(* Sleep.                                                                   *)

\* No trigger is pulled while the notices are run.
LEMMA QuietRun ==
    ASSUME TypeOK, Placed, Next, pc \in {"notice", "call", "leave", "accept"},
           NEW m \in Ids, trigger'[m]
    PROVE  trigger[m]
<1>1. \A c \in Clients : ~Wake(c, m)
  <2>1. \A c \in Clients : Request(c) => pc = "dispatch"
    BY RequestDoes
  <2>2. QED
    BY <2>1, WakeDoes
<1>2. ~TimerFires(m) /\ \A j \in Jobs : ~JobInform(j) /\ ~JobFinish(j)
  BY TimerFiresDoes, JobInformDoes, JobFinishDoes
<1>3. QED
  BY <1>1, <1>2, TriggerMoves

\* The notices before the one removed stay where they are.
LEMMA RemovesAfter ==
    ASSUME NEW S, NEW s \in Seq(S), NEW i \in 1 .. Len(s), IsInjective(s)
    PROVE  /\ Len(RemoveAt(s, i)) = Len(s) - 1
           /\ \A x \in 1 .. Len(s) - 1 : x < i => RemoveAt(s, i)[x] = s[x]
<1>1. /\ Len(RemoveAt(s, i)) = Len(s) - 1
      /\ \A x \in 1 .. Len(s) - 1 : RemoveAt(s, i)[x] = IF x < i THEN s[x] ELSE s[x + 1]
  BY Removes
<1>2. QED
  BY <1>1

LEMMA UntriggeredStep ==
    ASSUME TypeOK, TypeOK', NoDangling, Placed, Untriggered, Next
    PROVE  Untriggered'
<1> DEFINE Behind == \A i \in 1 .. Len(notices') : i < at' => ~trigger'[notices'[i]]
<1>1. notices \in Seq(Ids) /\ notices' \in Seq(Ids) /\ at \in Nat \ {0} /\ at' \in Nat \ {0}
  BY DEF TypeOK
<1>2. \A i \in 1 .. Len(notices) : notices[i] \in Ids
  BY <1>1
<1>3. ASSUME NEW n \in Ids, Begin(n) \/ Call(n) \/ NextMessage(n) PROVE Untriggered'
  <2>1. /\ pc \in {"notice", "call"} /\ pc' \in {"call", "leave"} /\ notices' = notices /\ at' = at
        /\ ~trigger'[notices'[at']]
    <3>1. CASE Begin(n)
      BY <3>1, BeginDoes
    <3>2. CASE Call(n)
      <4>1. /\ pc = "call" /\ pc' = "call" /\ notices' = notices /\ at' = at /\ trigger' = trigger
        BY <3>2, CallDoes
      <4>2. QED
        BY <4>1 DEF Untriggered
    <3>3. CASE NextMessage(n)
      <4>1. /\ pc = "call" /\ pc' \in {"call", "leave"} /\ notices' = notices /\ at' = at /\ trigger' = trigger
        BY <3>3, NextMessageDoes
      <4>2. QED
        BY <4>1 DEF Untriggered
    <3>4. QED
      BY <1>3, <3>1, <3>2, <3>3
  <2>2. ASSUME NEW i \in 1 .. Len(notices), i < at PROVE ~trigger'[notices[i]]
    <3>1. ~trigger[notices[i]]
      BY <2>1, <2>2 DEF Untriggered
    <3>2. QED
      BY <1>2, <2>1, <3>1, QuietRun
  <2>3. QED
    BY <2>1, <2>2 DEF Untriggered
<1>4. ASSUME NEW n \in Ids, Leave(n) PROVE Untriggered'
  <2>1. /\ pc = "leave" \/ (pc = "notice" /\ ~trigger[n])
        /\ pc' = "notice" /\ at \in 1 .. Len(notices) /\ n = notices[at]
        /\ IF Collectible(n) THEN notices' = RemoveAt(notices, at) /\ at' = at
           ELSE at' = at + 1 /\ notices' = notices
    BY <1>4, LeaveDoes
  <2>2. ~trigger[n]
    BY <2>1 DEF Untriggered
  <2>3. \A i \in 1 .. Len(notices) : i < at => ~trigger[notices[i]]
    BY <2>1 DEF Untriggered
  <2>4. \A i \in 1 .. Len(notices) : i <= at => ~trigger'[notices[i]]
    <3>1. ASSUME NEW i \in 1 .. Len(notices), i <= at PROVE ~trigger'[notices[i]]
      <4>1. ~trigger[notices[i]]
        <5>1. i < at \/ i = at
          BY <1>1, <3>1
        <5>2. QED
          BY <2>1, <2>2, <2>3, <5>1
      <4>2. pc \in {"notice", "call", "leave", "accept"}
        BY <2>1
      <4>3. QED
        BY <1>2, <4>1, <4>2, QuietRun
    <3>2. QED
      BY <3>1
  <2>5. CASE Collectible(n)
    <3>1. notices' = RemoveAt(notices, at) /\ at' = at
      BY <2>1, <2>5
    <3>2. IsInjective(notices)
      BY DEF NoDangling
    <3>3. /\ Len(RemoveAt(notices, at)) = Len(notices) - 1
          /\ \A x \in 1 .. Len(notices) - 1 : x < at => RemoveAt(notices, at)[x] = notices[x]
      <4>1. notices \in Seq(Ids) /\ at \in 1 .. Len(notices)
        BY <1>1, <2>1
      <4>2. QED
        BY <3>2, <4>1, RemovesAfter
    <3>4. ASSUME NEW i \in 1 .. Len(notices'), i < at' PROVE ~trigger'[notices'[i]]
      <4>1. i \in 1 .. Len(notices) - 1 /\ i \in 1 .. Len(notices) /\ i <= at /\ i < at
        BY <1>1, <3>1, <3>3, <3>4
      <4>2. notices'[i] = notices[i]
        BY <3>1, <3>3, <4>1
      <4>3. QED
        BY <2>4, <4>1, <4>2
    <3>5. QED
      BY <2>1, <3>4 DEF Untriggered
  <2>6. CASE ~Collectible(n)
    <3>1. notices' = notices /\ at' = at + 1
      BY <2>1, <2>6
    <3>2. ASSUME NEW i \in 1 .. Len(notices'), i < at' PROVE ~trigger'[notices'[i]]
      <4>1. i \in 1 .. Len(notices) /\ i <= at
        BY <1>1, <3>1, <3>2
      <4>2. QED
        BY <2>4, <3>1, <4>1
    <3>3. QED
      BY <2>1, <3>2 DEF Untriggered
  <2>7. QED
    BY <2>5, <2>6
<1>5. CASE LoopStep
  <2>1. trigger' = trigger
    BY <1>5, LoopDoes DEF Still
  <2>2. \/ pc' \in {"timers", "visit", "jobs"}
        \/ pc' = "notice" /\ at' = 1
        \/ pc = "notice" /\ pc' = "accept" /\ at > Len(notices)
        \/ pc = "accept" /\ pc' = "select"
    BY <1>5, LoopDoes
  <2>3. CASE pc' \in {"timers", "visit", "jobs"}
    BY <2>3 DEF Untriggered
  <2>4. CASE pc' = "notice" /\ at' = 1
    <3>1. \A i \in 1 .. Len(notices') : ~(i < at')
      BY <1>1, <2>4
    <3>2. QED
      BY <2>4, <3>1 DEF Untriggered
  <2>5. CASE pc = "notice" /\ pc' = "accept" /\ at > Len(notices)
    <3>1. ASSUME NEW m \in Ids PROVE ~trigger[m]
      <4>1. CASE m \in Range(notices)
        <5>1. PICK i \in 1 .. Len(notices) : notices[i] = m
          BY <1>1, <4>1 DEF Range
        <5>2. i < at
          BY <1>1, <2>5, <5>1
        <5>3. QED
          BY <2>5, <5>1, <5>2 DEF Untriggered
      <4>2. CASE m \notin Range(notices)
        BY <4>2, DanglingParts DEF Clean
      <4>3. QED
        BY <4>1, <4>2
    <3>2. QED
      BY <2>1, <2>5, <3>1 DEF Untriggered
  <2>6. CASE pc = "accept" /\ pc' = "select"
    BY <2>1, <2>6 DEF Untriggered
  <2>7. QED
    BY <2>2, <2>3, <2>4, <2>5, <2>6
<1>6. CASE pc' \in {"timers", "visit", "read", "dispatch", "jobs"}
  BY <1>6 DEF Untriggered
<1>7. CASE pc = "accept" /\ pc' = "select" /\ Still
  BY <1>7 DEF Untriggered, Still
<1>8. QED
  BY NextPcMoves, <1>3, <1>4, <1>5, <1>6, <1>7 DEF PcMoves

\* Whatever a request does, its client gets a reply or is paused.
LEMMA Handled ==
    ASSUME TypeOK, NEW c \in Clients,
           \/ OtherRequest(c)
           \/ \E n \in Ids : RequestStep(c, n)
           \/ \E j \in Jobs : StartStep(c, j)
    PROVE  Request(c) /\ (Reply(c) \/ Paused(c))
<1>1. ASSUME NEW n \in Ids, RequestStep(c, n) PROVE Request(c) /\ (Reply(c) \/ Paused(c))
  BY <1>1, WatchDoes, WakeDoes, WakeLaterDoes DEF RequestStep
<1>2. ASSUME NEW j \in Jobs, StartStep(c, j) PROVE Request(c) /\ (Reply(c) \/ Paused(c))
  BY <1>2, StartProcessDoes, StartSubprocessDoes, MatchDoes DEF StartStep
<1>3. CASE OtherRequest(c)
  BY <1>3 DEF OtherRequest
<1>4. QED
  BY <1>1, <1>2, <1>3

\* A client in the table that has requests left is paused, has output to be
\* written, or is told to go.
Safe(x) == inbox[x] > 0 => pause[x] \/ out[x] \/ exiting[x]

LEMMA RemindedStep ==
    ASSUME TypeOK, TypeOK', Placed, Reminded, Next
    PROVE  Reminded'
<1> DEFINE Safe1(x) == inbox'[x] > 0 => pause'[x] \/ out'[x] \/ exiting'[x]
           Goal == \A i \in 1 .. Len(table') :
                     (pc' \in {"read", "dispatch"} /\ i = at') \/ Safe1(table'[i])
<1> SUFFICES Goal
  BY DEF Reminded
<1>1. /\ table \in Seq(Clients) /\ table' \in Seq(Clients) /\ at \in Nat \ {0}
      /\ \A i \in 1 .. Len(table) : table[i] \in Clients
      /\ \A i \in 1 .. Len(table') : table'[i] \in Clients
  <2>1. table \in Seq(Clients) /\ table' \in Seq(Clients) /\ at \in Nat \ {0}
    BY DEF TypeOK
  <2>2. QED
    BY <2>1
<1>2. \A i \in 1 .. Len(table) : (pc \in {"read", "dispatch"} /\ i = at) \/ Safe(table[i])
  BY DEF Reminded, Safe
<1>3. \A i, l \in 1 .. Len(table) : table[i] = table[l] => i = l
  BY <1>1 DEF Placed, IsInjective
\* Nothing that matters changes.
<1>4. ASSUME UNCHANGED <<table, inbox, pause, out, exiting>>,
             pc \notin {"read", "dispatch"}
      PROVE  Goal
  BY <1>2, <1>4 DEF Safe
\* Only the client that is visited is touched.
<1>5. ASSUME table' = table, at' = at, pc' \in {"read", "dispatch"}, at \in 1 .. Len(table),
             pc \in {"read", "dispatch", "visit"},
             \A x \in Clients : x # table[at] =>
                inbox'[x] = inbox[x] /\ pause'[x] = pause[x] /\ out'[x] = out[x] /\ exiting'[x] = exiting[x]
      PROVE  Goal
  <2>1. ASSUME NEW i \in 1 .. Len(table), i # at PROVE Safe1(table[i])
    <3>1. Safe(table[i])
      BY <1>2, <2>1
    <3>2. table[i] \in Clients /\ table[i] # table[at]
      BY <1>1, <1>3, <1>5, <2>1
    <3>3. QED
      BY <1>5, <3>1, <3>2 DEF Safe
  <2> HIDE DEF Safe1
  <2>2. QED
    BY <1>5, <2>1
<1>6. ASSUME LoopStep PROVE Goal
  BY <1>4, <1>6, LoopDoes DEF Still
<1>7. ASSUME NEW n \in Ids, TimerFires(n) \/ Begin(n) \/ NextMessage(n) \/ Leave(n) PROVE Goal
  <2>1. UNCHANGED <<table, inbox, pause, out, exiting>> /\ pc \notin {"read", "dispatch"}
    BY <1>7, TimerFiresDoes, BeginDoes, NextMessageDoes, LeaveDoes
  <2>2. QED
    BY <1>4, <2>1
<1>8. ASSUME NEW n \in Ids, Call(n) PROVE Goal
  <2>1. /\ UNCHANGED <<table, inbox, exiting>> /\ pc = "call"
        /\ \A c \in Clients : out[c] => out'[c]
        /\ \A c \in Clients : pause'[c] # pause[c] => out'[c]
    BY <1>8, CallDoes
  <2>2. ASSUME NEW i \in 1 .. Len(table) PROVE Safe1(table[i])
    <3>1. Safe(table[i]) /\ table[i] \in Clients
      BY <1>1, <1>2, <2>1, <2>2
    <3>2. QED
      BY <2>1, <3>1 DEF Safe
  <2> HIDE DEF Safe1
  <2>3. QED
    BY <2>1, <2>2
<1>9. ASSUME NEW j \in Jobs, JobInform(j) \/ JobFinish(j) PROVE Goal
  <2>1. UNCHANGED <<table, inbox, pause, out, exiting>> /\ pc = "jobs"
    BY <1>9, JobInformDoes, JobFinishDoes
  <2>2. QED
    BY <1>4, <2>1
<1>10. ASSUME NEW c \in Clients, Connect(c) \/ Perforate(c) PROVE Goal
  <2>1. /\ inbox' = inbox /\ pause' = pause /\ pc = "accept"
        /\ out'[c] /\ \A x \in Clients : (out[x] => out'[x]) /\ (exiting[x] => exiting'[x])
        /\ table' = table \/ (c \notin Range(table) /\ table' = Append(table, c))
    BY <1>10, ComesDoes DEF Still
  <2>2. ASSUME NEW x \in Clients, x = c \/ Safe(x) PROVE Safe1(x)
    BY <2>1, <2>2 DEF Safe
  <2>3. ASSUME NEW i \in 1 .. Len(table') PROVE table'[i] = c \/ Safe(table'[i])
    <3>1. CASE table' = table
      BY <1>2, <2>1, <2>3, <3>1
    <3>2. CASE table' = Append(table, c)
      <4>1. /\ Len(Append(table, c)) = Len(table) + 1 /\ Append(table, c)[Len(table) + 1] = c
            /\ \A l \in 1 .. Len(table) : Append(table, c)[l] = table[l]
        BY <1>1
      <4>2. Len(table) \in Nat
        BY <1>1
      <4>3. i \in 1 .. Len(table) \/ i = Len(table) + 1
        BY <2>3, <3>2, <4>1, <4>2
      <4>4. QED
        BY <1>2, <2>1, <3>2, <4>1, <4>3
    <3>3. QED
      BY <2>1, <3>1, <3>2
  <2> HIDE DEF Safe1
  <2>4. QED
    BY <1>1, <2>2, <2>3
<1>11. ASSUME NEW c \in Clients, Visits(c) PROVE Goal
  <2>1. /\ Still /\ UNCHANGED <<table, inbox, exiting>>
        /\ at \in 1 .. Len(table) /\ c = table[at]
        /\ \A x \in Clients : x # c => out'[x] = out[x]
    BY <1>11, VisitDoes
  <2>2. \/ pc = "visit" /\ pc' = "read" /\ at' = at
        \/ /\ pc \in {"read", "dispatch"} /\ out' = out
           /\ inbox[c] > 0 => pause[c] \/ out[c] \/ exiting[c]
    BY <1>11, VisitDoes
  <2>3. CASE pc = "visit" /\ pc' = "read" /\ at' = at
    BY <1>5, <2>1, <2>3 DEF Still
  <2>4. CASE out' = out /\ Safe(c)
    <3>1. \A i \in 1 .. Len(table) : Safe(table[i])
      BY <1>2, <2>1, <2>4
    <3>2. \A i \in 1 .. Len(table) : Safe1(table[i])
      BY <2>1, <2>4, <3>1 DEF Still, Safe
    <3> HIDE DEF Safe1
    <3>3. QED
      BY <2>1, <3>2
  <2>5. QED
    BY <2>2, <2>3, <2>4 DEF Safe
<1>12. ASSUME NEW c \in Clients, Departs(c) PROVE Goal
  <2>1. /\ Visiting(c) /\ Release(c)
        /\ \A x \in Clients : x # c => inbox'[x] = inbox[x] /\ exiting'[x] = exiting[x] /\ (out[x] => out'[x])
    BY <1>12, DepartsDoes
  <2>2. \A x \in Clients : x # c => pause'[x] = pause[x]
    BY <2>1, Departure
  <2>3. at \in 1 .. Len(table) /\ c = table[at]
    BY <2>1, Departure
  <2>4. \A x : x \in Range(table') <=> x \in Range(table) /\ x # c
    BY <2>1, DepartureTable DEF Placed
  <2>5. ASSUME NEW i \in 1 .. Len(table') PROVE Safe1(table'[i])
    <3>1. table'[i] \in Range(table')
      BY <1>1, <2>5 DEF Range
    <3>2. table'[i] \in Range(table) /\ table'[i] # c
      BY <2>4, <3>1
    <3>3. PICK l \in 1 .. Len(table) : table[l] = table'[i]
      BY <1>1, <3>2 DEF Range
    <3>4. l # at
      BY <2>3, <3>2, <3>3
    <3>5. Safe(table[l])
      BY <1>2, <3>4
    <3>6. table'[i] \in Clients
      BY <1>1, <2>5
    <3>7. QED
      BY <2>1, <2>2, <3>2, <3>3, <3>5, <3>6 DEF Safe
  <2> HIDE DEF Safe1
  <2>6. QED
    BY <2>5
<1>13. ASSUME NEW c \in Clients, Read(c) PROVE Goal
  <2>1. /\ Still /\ UNCHANGED <<table, out, exiting, at>>
        /\ pc = "read" /\ pc' = "dispatch" /\ at \in 1 .. Len(table) /\ c = table[at]
        /\ \A x \in Clients : x # c => inbox'[x] = inbox[x]
    BY <1>13, ReadDoes
  <2>2. QED
    BY <1>5, <2>1 DEF Still
<1>14. ASSUME NEW c \in Clients, Request(c), Reply(c) \/ Paused(c) PROVE Goal
  <2>1. /\ pc = "dispatch" /\ at \in 1 .. Len(table) /\ c = table[at]
        /\ \A x \in Clients : x # c => inbox'[x] = inbox[x]
        /\ UNCHANGED <<table, exiting, pc, at>>
    BY <1>14, RequestDoes
  <2>2. \A x \in Clients : x # c => pause'[x] = pause[x] /\ out'[x] = out[x]
    BY <1>14, RequestDoes
  <2>3. QED
    BY <1>5, <2>1, <2>2
<1> HIDE DEF Goal
<1>15. ASSUME NEW c \in Clients, ClientStep(c) PROVE Goal
  BY <1>10, <1>11, <1>12, <1>13, <1>14, <1>15, Handled DEF ClientStep, Visits
<1>16. ASSUME NEW n \in Ids, NoticeStep(n) PROVE Goal
  BY <1>7, <1>8, <1>16 DEF NoticeStep
<1>17. ASSUME NEW c \in Clients, NEW n \in Ids, RequestStep(c, n) PROVE Goal
  BY <1>14, <1>17, Handled
<1>18. ASSUME NEW c \in Clients, NEW j \in Jobs, StartStep(c, j) PROVE Goal
  BY <1>14, <1>18, Handled
<1>19. QED
  BY Cases, <1>6, <1>9, <1>15, <1>16, <1>17, <1>18

-----------------------------------------------------------------------------
(* The invariant and what follows from it.                                  *)

LEMMA NoticeInit ==
    ASSUME Init
    PROVE  NoticeInv
<1> DEFINE zero == [n \in Ids |-> 0]
<1>1. /\ notices = <<>> /\ table = <<>> /\ pc = "select" /\ at = 1 /\ k = 1 /\ limit = 0
      /\ called = {} /\ budget = Budget
      /\ vector = [n \in Ids |-> <<>>] /\ use = zero
      /\ trigger = [n \in Ids |-> FALSE] /\ queue = [n \in Ids |-> <<>>]
      /\ parse = [n \in Ids |-> None] /\ links = [u \in Users |-> zero]
      /\ pause = [c \in Clients |-> FALSE] /\ inbox = [c \in Clients |-> 0]
      /\ out = [c \in Clients |-> FALSE] /\ exiting = [c \in Clients |-> FALSE]
      /\ timers = zero
      /\ halt = [j \in Jobs |-> Null] /\ map = [j \in Jobs |-> Null]
  BY DEF Init
<1>2. <<>> \in Seq(Ids) /\ <<>> \in Seq(Clients) /\ <<>> \in Seq(Entries) /\ <<>> \in Seq(Messages)
  OBVIOUS
<1>3. /\ notices \in Seq(Ids) /\ table \in Seq(Clients)
      /\ vector \in [Ids -> Seq(Entries)] /\ queue \in [Ids -> Seq(Messages)]
      /\ parse \in [Ids -> Messages \cup {None}]
      /\ halt \in [Jobs -> Ids \cup {Null}] /\ map \in [Jobs -> Ids \cup {Null}]
  BY <1>1, <1>2
<1>4. /\ use \in [Ids -> Nat] /\ timers \in [Ids -> Nat] /\ trigger \in [Ids -> BOOLEAN]
      /\ links \in [Users -> [Ids -> Nat]]
      /\ pause \in [Clients -> BOOLEAN] /\ out \in [Clients -> BOOLEAN] /\ exiting \in [Clients -> BOOLEAN]
  BY <1>1
<1>5. /\ inbox \in [Clients -> 0 .. Budget] /\ budget \in 0 .. Budget
      /\ at \in Nat \ {0} /\ k \in Nat \ {0} /\ limit \in Int /\ called \subseteq Entries
  BY <1>1, BudgetAssumption
<1>6. TypeOK
  BY <1>1, <1>3, <1>4, <1>5 DEF TypeOK
<1>7. \A x : x \notin Range(notices) /\ x \notin Range(table)
  BY <1>1 DEF Range
<1>8. \A n \in Ids : /\ vector[n] = <<>> /\ queue[n] = <<>> /\ ~trigger[n] /\ parse[n] = None
                     /\ use[n] = 0 /\ timers[n] = 0 /\ \A u \in Users : links[u][n] = 0
                     /\ \A j \in Jobs : halt[j] # n /\ map[j] # n
  BY <1>1, IdsDiffer
<1>9. IsInjective(notices) /\ IsInjective(table)
  BY <1>1 DEF IsInjective
<1>10. NoDangling
  <2>1. ASSUME NEW n \in Ids PROVE use[n] = timers[n] + Cardinality(Holders(halt, n)) + Cardinality(Holders(map, n))
    <3>1. Holders(halt, n) = {} /\ Holders(map, n) = {}
      BY <1>8 DEF Holders
    <3>2. QED
      BY <1>8, <3>1, FS_EmptySet
  <2>2. Counted
    BY <2>1 DEF Counted
  <2>3. \A n \in Ids : Clean(n)
    BY <1>8 DEF Clean
  <2>4. QED
    BY <1>9, <2>2, <2>3, DanglingParts
<1>11. LinksExact
  <2>1. \A n \in Ids, u \in Users : links[u][n] = Cardinality(EntriesOf(vector[n], u))
    BY <1>8, EmptyVector
  <2>2. \A n \in Ids : \A i \in 1 .. Len(vector[n]) : FALSE
    BY <1>8
  <2>3. QED
    BY <1>6, <2>1, <2>2 DEF LinksExact
<1>12. EachOnce
  BY <1>1 DEF EachOnce
<1>13. Placed
  BY <1>1, <1>9, BudgetAssumption DEF Placed
<1>14. \A n \in Ids : Distinct(vector[n]) /\ \A e : ~Has(vector[n], e)
  BY <1>8, EmptyVector
<1>15. Shaped /\ Alone /\ Waiting /\ Relayed
  BY <1>14 DEF Shaped, Alone, Waiting, Relayed, Resumes
<1>16. Halting
  BY <1>1, <1>8, IdsDiffer DEF Halting
<1>17. InCall
  BY <1>1, <1>8 DEF InCall
<1>18. Untriggered
  BY <1>1, <1>8 DEF Untriggered
<1>19. Reminded
  BY <1>1 DEF Reminded
<1>20. QED
  BY <1>6, <1>10, <1>11, <1>12, <1>13, <1>15, <1>16, <1>17, <1>18, <1>19 DEF NoticeInv

LEMMA NoticeStepInv ==
    ASSUME NoticeInv, Next
    PROVE  NoticeInv'
<1>1. /\ TypeOK /\ NoDangling /\ LinksExact /\ EachOnce
      /\ Placed /\ Shaped /\ Alone /\ Waiting /\ Halting /\ Relayed /\ InCall
      /\ Untriggered /\ Reminded
  BY DEF NoticeInv
<1>2. TypeOK' /\ Placed'
  BY <1>1, TypeStep, PlacedStep
<1>3. NoDangling'
  BY <1>1, DanglingStep
<1>4. Shaped'
  BY <1>1, ShapedStep
<1>5. Alone'
  BY <1>1, AloneStep
<1>6. InCall'
  BY <1>1, InCallStep
<1>7. LinksExact'
  BY <1>1, <1>2, <1>4, <1>6, LinksStep
<1>8. EachOnce'
  BY <1>1, <1>4, EachOnceStep
<1>9. Waiting' /\ Halting' /\ Relayed'
  BY <1>1, WaitingStep, HaltingStep, RelayedStep
<1>10. Untriggered' /\ Reminded'
  BY <1>1, <1>2, UntriggeredStep, RemindedStep
<1>11. QED
  BY <1>2, <1>3, <1>4, <1>5, <1>6, <1>7, <1>8, <1>9, <1>10 DEF NoticeInv

LEMMA NoticeStutter ==
    ASSUME NoticeInv, UNCHANGED vars
    PROVE  NoticeInv'
<1>1. UNCHANGED <<notices, vector, use, trigger, queue, parse, links, pause, table, inbox, out, exiting,
                  timers, halt, map, pc, at, k, limit, called, budget>>
  BY DEF vars, core, conns, holders, loop
<1>2. TypeOK' /\ EachOnce'
  <2>1. TypeOK'
    BY <1>1 DEF NoticeInv, TypeOK
  <2>2. EachOnce'
    BY <1>1 DEF NoticeInv, EachOnce
  <2>3. QED
    BY <2>1, <2>2
<1>3. NoDangling'
  BY <1>1 DEF NoticeInv, NoDangling, Exists
<1>4. LinksExact'
  BY <1>1, <1>2 DEF NoticeInv, LinksExact, EntriesOf
<1>5. Placed' /\ Shaped' /\ Alone'
  BY <1>1 DEF NoticeInv, Placed, Shaped, Alone, Has, Distinct, Again
<1>6. Waiting' /\ Halting' /\ Reminded' /\ Untriggered'
  BY <1>1 DEF NoticeInv, Waiting, Resumes, Has, Halting, Reminded, Untriggered
<1>7. Relayed'
  BY <1>1 DEF NoticeInv, Relayed, Resumes, Returning, EndsIn, Has
<1>8. InCall'
  BY <1>1 DEF NoticeInv, InCall, Fetched, Message, HeadOf, Linked, EntriesOf, Again
<1>9. QED
  BY <1>2, <1>4, <1>3, <1>5, <1>6, <1>7, <1>8 DEF NoticeInv

\* The invariant: what the data structures of notice.c, the clients' back links,
\* the jobs' and timers' holds and the main loop's turn owe one another.
THEOREM NoticeInvariant == Spec => []NoticeInv
<1>1. Init => NoticeInv
  BY NoticeInit
<1>2. NoticeInv /\ [Next]_vars => NoticeInv'
  BY NoticeStepInv, NoticeStutter
<1>3. QED
  BY <1>1, <1>2, PTL DEF Spec

\* Values of the variables: what run_core_loop_katcp and run_notices_katcp are
\* at exists.
THEOREM NoticeTypeCorrect == Spec => []TypeOK
<1>1. NoticeInv => TypeOK
  BY DEF NoticeInv
<1>2. QED
  BY <1>1, NoticeInvariant, PTL

\* hold_notice_katcp and release_notice_katcp are in balance, whoever wakes or
\* ends, and deallocate_notice_katcp frees a notice only when no timer, job,
\* client or message refers to it.
THEOREM NoticeNotDangling == Spec => []NoDangling
<1>1. NoticeInv => NoDangling
  BY DEF NoticeInv
<1>2. QED
  BY <1>1, NoticeInvariant, PTL

\* A client refers to a notice as often as the notice calls it, although
\* dispatch_compact_notice_katcp drops all references of the client at once and
\* notice_compact_notice_katcp all its entries: disown_notices_katcp leaves
\* nobody in a vector who is gone.
THEOREM NoticeLinksExact == Spec => []LinksExact
<1>1. NoticeInv => LinksExact
  BY DEF NoticeInv
<1>2. QED
  BY <1>1, NoticeInvariant, PTL

\* run_notice_katcp calls every subscriber once for a message, although entries
\* are replaced by the last one under its loop.
THEOREM NoticeEachOnce == Spec => []EachOnce
<1>1. NoticeInv => EachOnce
  BY DEF NoticeInv
<1>2. QED
  BY <1>1, NoticeInvariant, PTL

\* The loop does not enter pselect() with a notice triggered, nor with requests
\* of a client that it could handle and nothing will remind it of.
THEOREM NoticeSleeps == Spec => []SleepsOnlyIdle
<1>1. NoticeInv => SleepsOnlyIdle
  <2>1. SUFFICES ASSUME TypeOK, Untriggered, Reminded, pc = "select"
                 PROVE  /\ \A n \in Ids : ~trigger[n]
                        /\ \A c \in Range(table) : inbox[c] > 0 => pause[c] \/ out[c] \/ exiting[c]
    BY DEF NoticeInv, SleepsOnlyIdle
  <2>2. \A n \in Ids : ~trigger[n]
    BY <2>1 DEF Untriggered
  <2>3. ASSUME NEW c \in Range(table) PROVE inbox[c] > 0 => pause[c] \/ out[c] \/ exiting[c]
    <3>1. table \in Seq(Clients)
      BY <2>1 DEF TypeOK
    <3>2. PICK i \in 1 .. Len(table) : table[i] = c
      BY <3>1 DEF Range
    <3>3. QED
      BY <2>1, <3>2 DEF Reminded
  <2>4. QED
    BY <2>2, <2>3
<1>2. QED
  BY <1>1, NoticeInvariant, PTL
=============================================================================
