----------------------------- MODULE SensorProofs ----------------------------
(***************************************************************************)
(* Whatever is sampled, and however timers come and go: the heap of timers *)
(* is ordered, a timer that is armed has something to run, an acquire is   *)
(* polled at the shortest period its clients need, who waits for changes   *)
(* is told of them, and the loop does not sleep past a timer.              *)
(***************************************************************************)
EXTENDS Sensors, FiniteSetTheorems, TLAPS

-----------------------------------------------------------------------------
(* Induction over natural numbers, as a fact about sets, and what is        *)
(* computed step by step.                                                   *)

\* Every set of natural numbers has a least one, as sets of intervals have a
\* smallest one.
LEMMA Least ==
    ASSUME NEW S \in SUBSET Nat, S # {}
    PROVE  \E m \in S : \A n \in S : m <= n
<1>1. PICK N \in S : TRUE
  OBVIOUS
<1> DEFINE B == {n \in S : n <= N}
           I == {0 .. n : n \in B}
<1>2. IsFiniteSet(0 .. N)
  BY FS_Interval
<1>3. I \subseteq SUBSET (0 .. N) /\ I # {}
  BY <1>1
<1>4. I \subseteq FiniteSubsetsOf(0 .. N)
  BY <1>2, <1>3, FS_FiniteSubsetsOfFinite
<1>5. IsWellFoundedOn(StrictSubsetOrdering(0 .. N), FiniteSubsetsOf(0 .. N))
  BY FS_StrictSubsetOrderingWellFounded
<1>6. PICK J \in I : \A y \in I : ~ (<<y, J>> \in StrictSubsetOrdering(0 .. N))
  BY <1>3, <1>4, <1>5, WFMin
<1>7. PICK m \in B : J = 0 .. m
  BY <1>6
<1>8. ASSUME NEW n \in S PROVE m <= n
  <2> SUFFICES ASSUME n < m PROVE FALSE
    BY <1>7
  <2>1. n \in B /\ 0 .. n \in I
    BY <1>7
  <2>2. 0 .. n \subseteq 0 .. m /\ m \notin 0 .. n /\ m \in 0 .. m
    BY <1>7
  <2>3. <<0 .. n, 0 .. m>> \in StrictSubsetOrdering(0 .. N)
    BY <1>3, <1>6, <1>7, <2>1, <2>2 DEF StrictSubsetOrdering
  <2>4. QED
    BY <1>6, <1>7, <2>1, <2>3
<1>9. QED
  BY <1>7, <1>8

\* What holds of 0, and of i + 1 when it holds of i, holds up to n.
LEMMA UpTo ==
    ASSUME NEW n \in Nat, NEW Good \in SUBSET (0 .. n),
           0 \in Good,
           \A i \in Good : i < n => i + 1 \in Good
    PROVE  Good = 0 .. n
<1> DEFINE Bad == (0 .. n) \ Good
<1> SUFFICES ASSUME Bad # {} PROVE FALSE
  OBVIOUS
<1>1. PICK m \in Bad : \A i \in Bad : m <= i
  <2>1. Bad \in SUBSET Nat
    OBVIOUS
  <2> HIDE DEF Bad
  <2>2. QED
    BY <2>1, Least
<1>2. m \in Nat /\ m # 0 /\ m <= n
  BY <1>1
<1>3. m - 1 \in 0 .. n /\ m - 1 \notin Bad
  BY <1>1, <1>2
<1>4. m \in Good
  BY <1>2, <1>3
<1>5. QED
  BY <1>1, <1>4

\* A step that can be taken anywhere can be taken any number of times.
Steps(r, s, step, N) == r[0] = s /\ \A i \in 1 .. N : r[i] = step[r[i - 1]]

LEMMA Iterates ==
    ASSUME NEW S, NEW step \in [S -> S], NEW s \in S, NEW N \in Nat
    PROVE  \E r \in [0 .. N -> S] : Steps(r, s, step, N)
<1> DEFINE Good == {n \in 0 .. N : \E r \in [0 .. n -> S] : r[0] = s /\ \A i \in 1 .. n : r[i] = step[r[i - 1]]}
<1>1. 0 \in Good
  <2> DEFINE r == [i \in 0 .. 0 |-> s]
  <2>1. r \in [0 .. 0 -> S] /\ r[0] = s /\ \A i \in 1 .. 0 : r[i] = step[r[i - 1]]
    OBVIOUS
  <2> HIDE DEF r
  <2>2. QED
    BY <2>1
<1>2. ASSUME NEW n \in Good, n < N PROVE n + 1 \in Good
  <2>1. PICK r \in [0 .. n -> S] : r[0] = s /\ \A i \in 1 .. n : r[i] = step[r[i - 1]]
    OBVIOUS
  <2> DEFINE t == [i \in 0 .. n + 1 |-> IF i = n + 1 THEN step[r[n]] ELSE r[i]]
  <2>2. n \in Nat /\ n + 1 \in 0 .. N /\ r[n] \in S
    BY <1>2
  <2>3. t \in [0 .. n + 1 -> S] /\ t[0] = s
    <3>1. ASSUME NEW i \in 0 .. n + 1, i # n + 1 PROVE r[i] \in S
      BY <2>2, <3>1
    <3>2. step[r[n]] \in S
      BY <2>2
    <3>3. QED
      BY <2>1, <2>2, <3>1, <3>2
  <2>4. ASSUME NEW i \in 1 .. n + 1 PROVE t[i] = step[t[i - 1]]
    <3>1. i \in 0 .. n + 1 /\ i - 1 \in 0 .. n /\ i - 1 \in 0 .. n + 1 /\ i - 1 # n + 1
      BY <2>2
    <3>2. t[i - 1] = r[i - 1]
      BY <3>1
    <3>3. CASE i = n + 1
      <4>1. t[i] = step[r[n]] /\ i - 1 = n
        BY <2>2, <3>1, <3>3
      <4>2. QED
        BY <3>2, <4>1
    <3>4. CASE i # n + 1
      <4>1. i \in 1 .. n /\ t[i] = r[i]
        BY <2>2, <3>1, <3>4
      <4>2. QED
        BY <2>1, <3>2, <4>1
    <3>5. QED
      BY <3>3, <3>4
  <2> HIDE DEF t
  <2>5. QED
    BY <2>2, <2>3, <2>4
<1>3. Good \in SUBSET (0 .. N)
  OBVIOUS
<1> HIDE DEF Good
<1>4. N \in Good
  BY <1>1, <1>2, <1>3, UpTo
<1>5. QED
  BY <1>4 DEF Good, Steps

-----------------------------------------------------------------------------
(* The heap.                                                                *)

Distinct(h) == \A i, j \in 1 .. Len(h) : h[i] = h[j] => i = j
Entries(h) == {h[i] : i \in 1 .. Len(h)}

\* Entries have been moved about, none is lost and none is there twice.
Same(h, g) == Len(g) = Len(h) /\ Entries(g) = Entries(h) /\ (Distinct(h) => Distinct(g))

LEMMA SameTwice == \A h, g, f : Same(h, g) /\ Same(g, f) => Same(h, f)
BY DEF Same

Parent(i) == i \div 2

LEMMA Half ==
    \A i \in Nat : i >= 2 => Parent(i) \in Nat /\ 1 <= Parent(i) /\ Parent(i) < i
BY DEF Parent

LEMMA Halved ==
    \A i, j \in Nat : i >= 1 /\ j >= 2 => (Parent(j) = i <=> j = 2 * i \/ j = 2 * i + 1)
BY DEF Parent

LEMMA Swaps ==
    ASSUME NEW D, NEW h \in Seq(D), NEW i \in 1 .. Len(h), NEW j \in 1 .. Len(h)
    PROVE  /\ Swapped(h, i, j) \in Seq(D) /\ Same(h, Swapped(h, i, j))
           /\ \A k \in 1 .. Len(h) : Swapped(h, i, j)[k] = IF k = j THEN h[i] ELSE IF k = i THEN h[j] ELSE h[k]
<1> DEFINE g == Swapped(h, i, j)
<1>1. /\ g \in Seq(D) /\ Len(g) = Len(h)
      /\ \A k \in 1 .. Len(h) : g[k] = IF k = j THEN h[i] ELSE IF k = i THEN h[j] ELSE h[k]
  BY DEF Swapped
<1> HIDE DEF g
<1>2. Entries(g) = Entries(h)
  <2>1. ASSUME NEW k \in 1 .. Len(h) PROVE g[k] \in Entries(h)
    BY <1>1 DEF Entries
  <2>2. ASSUME NEW k \in 1 .. Len(h) PROVE h[k] \in Entries(g)
    <3>1. h[k] = g[IF k = j THEN i ELSE IF k = i THEN j ELSE k]
      BY <1>1
    <3>2. QED
      BY <1>1, <3>1 DEF Entries
  <2>3. QED
    BY <1>1, <2>1, <2>2 DEF Entries
<1>3. Distinct(h) => Distinct(g)
  BY <1>1 DEF Distinct
<1>4. QED
  BY <1>1, <1>2, <1>3 DEF Same, g

\* A place in a heap.
Spots(D) == {s \in [heap : Seq(D), at : Nat] : s.at \in 1 .. Len(s.heap)}

\* All is in order but the entry at i, which may be less than its parent; or
\* which may be greater than a child.
UpOK(key, h, i) ==
  \A j \in 2 .. Len(h) :
     /\ j # i => key[h[Parent(j)]] <= key[h[j]]
     /\ Parent(j) = i /\ i > 1 => key[h[Parent(i)]] <= key[h[j]]

DownOK(key, h, i) ==
  \A j \in 2 .. Len(h) :
     /\ Parent(j) # i => key[h[Parent(j)]] <= key[h[j]]
     /\ Parent(j) = i /\ i > 1 => key[h[Parent(i)]] <= key[h[j]]

InOrder(key, h) == \A j \in 2 .. Len(h) : key[h[Parent(j)]] <= key[h[j]]

LEMMA OrderedIs ==
    ASSUME NEW D, NEW key \in [D -> Int], NEW h \in Seq(D)
    PROVE  HeapOrdered(key, h) <=> InOrder(key, h)
<1>1. ASSUME NEW j \in 2 .. Len(h) PROVE Less(key, h[j], h[j \div 2]) <=> ~(key[h[Parent(j)]] <= key[h[j]])
  <2>1. j \in 1 .. Len(h) /\ Parent(j) \in 1 .. Len(h) /\ Parent(j) = j \div 2
    BY Half DEF Parent
  <2>2. key[h[j]] \in Int /\ key[h[Parent(j)]] \in Int
    BY <2>1
  <2>3. QED
    BY <2>1, <2>2 DEF Less
<1>2. QED
  BY <1>1 DEF HeapOrdered, InOrder

LEMMA SwapUp ==
    ASSUME NEW D, NEW key \in [D -> Int], NEW h \in Seq(D), NEW i \in 2 .. Len(h),
           UpOK(key, h, i), key[h[i]] < key[h[Parent(i)]]
    PROVE  UpOK(key, Swapped(h, i, Parent(i)), Parent(i))
<1> DEFINE p == Parent(i)
           g == Swapped(h, i, p)
<1>1. p \in 1 .. Len(h) /\ p < i /\ i \in 1 .. Len(h) /\ i \in Nat /\ p \in Nat
  BY Half
<1> HIDE DEF p
<1>2. /\ g \in Seq(D) /\ Len(g) = Len(h)
      /\ \A k \in 1 .. Len(h) : g[k] = IF k = p THEN h[i] ELSE IF k = i THEN h[p] ELSE h[k]
  <2>1. i \in 1 .. Len(h)
    BY <1>1
  <2>2. QED
    BY <1>1, <2>1, Swaps DEF Same
<1>3. \A j \in 2 .. Len(h) : Parent(j) \in 1 .. Len(h) /\ Parent(j) < j /\ j \in 1 .. Len(h)
  BY Half
<1>4. \A j \in 1 .. Len(h) : key[h[j]] \in Int
  OBVIOUS
<1>5. key[h[i]] < key[h[p]]
  BY DEF p
<1>6. \A j \in 2 .. Len(h) :
        /\ j # i => key[h[Parent(j)]] <= key[h[j]]
        /\ Parent(j) = i => key[h[p]] <= key[h[j]]
  BY DEF UpOK, p
<1> HIDE DEF g
<1>7. ASSUME NEW j \in 2 .. Len(h), j # p PROVE key[g[Parent(j)]] <= key[g[j]]
  <2> DEFINE q == Parent(j)
  <2>1a. q \in 1 .. Len(h) /\ q < j /\ j \in 1 .. Len(h)
    BY <1>3
  <2>1b. (j # i => key[h[q]] <= key[h[j]]) /\ (q = i => key[h[p]] <= key[h[j]])
    BY <1>6
  <2>1c. j = i => q = p
    BY DEF p
  <2> HIDE DEF q
  <2>1. q \in 1 .. Len(h) /\ q < j /\ j \in 1 .. Len(h) /\ (j # i => key[h[q]] <= key[h[j]]) /\ (q = i => key[h[p]] <= key[h[j]])
        /\ (j = i => q = p)
    BY <2>1a, <2>1b, <2>1c
  <2>2. key[h[j]] \in Int /\ key[h[q]] \in Int /\ key[h[i]] \in Int /\ key[h[p]] \in Int
    BY <1>1, <1>4, <2>1
  <2>3. CASE j = i
    <3>1. g[j] = h[p] /\ g[q] = h[i]
      BY <1>1, <1>2, <2>1, <2>3
    <3>2. QED
      BY <1>5, <2>2, <3>1 DEF q
  <2>4. CASE j # i
    <3>1. g[j] = h[j] /\ g[q] = IF q = p THEN h[i] ELSE IF q = i THEN h[p] ELSE h[q]
      BY <1>2, <1>7, <2>1, <2>4
    <3>2. key[g[q]] <= key[g[j]]
      BY <1>5, <2>1, <2>2, <2>4, <3>1
    <3>3. QED
      BY <3>2 DEF q
  <2>5. QED
    BY <2>3, <2>4
<1>8. ASSUME NEW j \in 2 .. Len(h), Parent(j) = p, p > 1 PROVE key[g[Parent(p)]] <= key[g[j]]
  <2> DEFINE r == Parent(p)
  <2>0. Parent(j) < j /\ j \in 1 .. Len(h)
    BY <1>3
  <2>1. p \in 2 .. Len(h) /\ p # i /\ j # p /\ j \in 1 .. Len(h)
    BY <1>1, <1>8, <2>0
  <2>2a. r \in 1 .. Len(h) /\ r < p
    BY <1>3, <2>1
  <2>2b. key[h[r]] <= key[h[p]]
    BY <1>6, <2>1
  <2>2. r \in 1 .. Len(h) /\ r < p /\ key[h[r]] <= key[h[p]]
    BY <2>2a, <2>2b
  <2>3. j # i => key[h[p]] <= key[h[j]]
    BY <1>6, <1>8
  <2> HIDE DEF r
  <2>4. r # i /\ r # p
    BY <1>1, <2>2
  <2>5. g[r] = h[r] /\ g[j] = IF j = i THEN h[p] ELSE h[j]
    BY <1>2, <2>1, <2>2, <2>4
  <2>6. key[h[p]] \in Int /\ key[h[j]] \in Int /\ key[h[r]] \in Int
    BY <1>1, <1>4, <2>1, <2>2
  <2>7. key[g[r]] <= key[g[j]]
    BY <2>2, <2>3, <2>5, <2>6
  <2>8. QED
    BY <2>7 DEF r
<1>9. UpOK(key, g, p)
  BY <1>2, <1>7, <1>8 DEF UpOK
<1>10. QED
  BY <1>9 DEF g, p

LEMMA SwapDown ==
    ASSUME NEW D, NEW key \in [D -> Int], NEW h \in Seq(D), NEW i \in 1 .. Len(h),
           NEW c \in 2 .. Len(h), Parent(c) = i,
           \A j \in 2 .. Len(h) : Parent(j) = i => key[h[c]] <= key[h[j]],
           DownOK(key, h, i), key[h[c]] < key[h[i]]
    PROVE  DownOK(key, Swapped(h, c, i), c)
<1> DEFINE g == Swapped(h, c, i)
<1>1. c \in 1 .. Len(h) /\ i < c
  BY Half
<1>2. /\ g \in Seq(D) /\ Len(g) = Len(h)
      /\ \A k \in 1 .. Len(h) : g[k] = IF k = i THEN h[c] ELSE IF k = c THEN h[i] ELSE h[k]
  BY <1>1, Swaps DEF Same
<1>3. \A j \in 2 .. Len(h) : Parent(j) \in 1 .. Len(h) /\ Parent(j) < j /\ j \in 1 .. Len(h)
  BY Half
<1>4. \A j \in 1 .. Len(h) : key[h[j]] \in Int
  OBVIOUS
<1>5. \A j \in 2 .. Len(h) :
        /\ Parent(j) # i => key[h[Parent(j)]] <= key[h[j]]
        /\ Parent(j) = i /\ i > 1 => key[h[Parent(i)]] <= key[h[j]]
  BY DEF DownOK
<1> HIDE DEF g
<1>6. ASSUME NEW j \in 2 .. Len(h), Parent(j) # c PROVE key[g[Parent(j)]] <= key[g[j]]
  <2> DEFINE q == Parent(j)
  <2>1. q \in 1 .. Len(h) /\ q < j /\ j \in 1 .. Len(h) /\ q # c
    BY <1>3, <1>6
  <2>2. /\ q # i => key[h[q]] <= key[h[j]]
        /\ q = i => key[h[c]] <= key[h[j]]
        /\ j = c => q = i
        /\ j = i => key[h[q]] <= key[h[c]]
    <3>1. (q # i => key[h[q]] <= key[h[j]]) /\ (q = i => key[h[c]] <= key[h[j]])
      BY <1>5
    <3>2. j = c => q = i
      OBVIOUS
    <3>3. ASSUME j = i PROVE key[h[q]] <= key[h[c]]
      <4>1. i > 1 => key[h[Parent(i)]] <= key[h[c]]
        BY <1>5
      <4>2. i > 1
        BY <3>3
      <4>3. QED
        BY <3>3, <4>1, <4>2
    <3>4. QED
      BY <3>1, <3>2, <3>3
  <2> HIDE DEF q
  <2>3. key[h[j]] \in Int /\ key[h[q]] \in Int /\ key[h[i]] \in Int /\ key[h[c]] \in Int
    BY <1>1, <1>4, <2>1
  <2>4. /\ g[q] = IF q = i THEN h[c] ELSE h[q]
        /\ g[j] = IF j = i THEN h[c] ELSE IF j = c THEN h[i] ELSE h[j]
    BY <1>2, <2>1
  <2>5. key[g[q]] <= key[g[j]]
    BY <2>1, <2>2, <2>3, <2>4
  <2>6. QED
    BY <2>5 DEF q
<1>7. ASSUME NEW j \in 2 .. Len(h), Parent(j) = c PROVE key[g[Parent(c)]] <= key[g[j]]
  <2>0. Parent(j) < j /\ j \in 1 .. Len(h)
    BY <1>3
  <2>1. j \in 1 .. Len(h) /\ j # c /\ j # i /\ c # i
    BY <1>1, <1>7, <2>0
  <2>2. key[h[c]] <= key[h[j]]
    BY <1>5, <1>7, <2>1
  <2>3. g[i] = h[c] /\ g[j] = h[j]
    BY <1>2, <2>1
  <2>4. QED
    BY <2>2, <2>3
<1>8. DownOK(key, g, c)
  BY <1>2, <1>6, <1>7 DEF DownOK
<1>9. QED
  BY <1>8 DEF g

\* One turn of either loop.
LEMMA RisenStep ==
    ASSUME NEW D, NEW key \in [D -> Int], NEW s \in Spots(D)
    PROVE  LET t == Risen(key, s)
           IN  /\ t \in Spots(D) /\ Same(s.heap, t.heap)
               /\ UpOK(key, s.heap, s.at) => UpOK(key, t.heap, t.at)
               /\ t.at < s.at \/ (t = s /\ ~(s.at > 1 /\ key[s.heap[s.at]] < key[s.heap[Parent(s.at)]]))
<1> DEFINE h == s.heap
           i == s.at
           p == Parent(i)
           g == Swapped(h, i, p)
<1>1. h \in Seq(D) /\ i \in 1 .. Len(h) /\ Len(h) \in Nat
  BY DEF Spots
<1>2. Risen(key, s) = IF i > 1 /\ key[h[i]] < key[h[p]] THEN [heap |-> g, at |-> p] ELSE s
  BY DEF Risen, Less, Parent
<1> HIDE DEF h, i
<1>3. CASE i > 1 /\ key[h[i]] < key[h[p]]
  <2>1. p \in 1 .. Len(h) /\ p < i /\ i \in 2 .. Len(h) /\ p \in Nat
    BY <1>1, <1>3, Half
  <2> HIDE DEF p
  <2>2. g \in Seq(D) /\ Same(h, g) /\ Len(g) = Len(h)
    BY <1>1, <2>1, Swaps DEF Same
  <2>3. UpOK(key, h, i) => UpOK(key, g, p)
    BY <1>1, <1>3, <2>1, SwapUp DEF p
  <2> HIDE DEF g
  <2>4. Risen(key, s) = [heap |-> g, at |-> p]
    BY <1>2, <1>3
  <2>5. [heap |-> g, at |-> p] \in Spots(D)
    BY <2>1, <2>2 DEF Spots
  <2>6. QED
    BY <2>1, <2>2, <2>3, <2>4, <2>5 DEF h, i
<1>4. CASE ~(i > 1 /\ key[h[i]] < key[h[p]])
  <2>1. Risen(key, s) = s
    BY <1>2, <1>4
  <2>2. Same(h, h)
    BY DEF Same
  <2>3. QED
    BY <1>4, <2>1, <2>2 DEF h, i, p
<1>5. QED
  BY <1>3, <1>4

\* The lesser child is a child, if there is one.
LEMMA LesserIs ==
    ASSUME NEW D, NEW key \in [D -> Int], NEW h \in Seq(D), NEW i \in 1 .. Len(h), 2 * i <= Len(h)
    PROVE  LET c == LesserChild(key, h, i)
           IN  /\ c \in 2 .. Len(h) /\ Parent(c) = i
               /\ \A j \in 2 .. Len(h) : Parent(j) = i => key[h[c]] <= key[h[j]]
<1> DEFINE c == LesserChild(key, h, i)
<1>1. 2 * i \in 1 .. Len(h) /\ 2 * i \in 2 .. Len(h) /\ 2 * i \in Nat /\ 2 * i + 1 \in Nat /\ i \in Nat /\ Len(h) \in Nat
  OBVIOUS
<1>2. Parent(2 * i) = i /\ Parent(2 * i + 1) = i
  BY DEF Parent
<1>3. \A j \in 1 .. Len(h) : key[h[j]] \in Int
  OBVIOUS
<1>4. \A j \in 2 .. Len(h) : Parent(j) = i => j = 2 * i \/ j = 2 * i + 1
  <2>1. i >= 1 /\ \A j \in 2 .. Len(h) : j \in Nat /\ j >= 2
    BY <1>1
  <2>2. QED
    BY <1>1, <2>1, Halved
<1>5. c = IF 2 * i + 1 > Len(h) \/ key[h[2 * i]] < key[h[2 * i + 1]] THEN 2 * i ELSE 2 * i + 1
  BY DEF LesserChild, Less
<1> DEFINE a == 2 * i
           b == 2 * i + 1
<1> HIDE DEF c, a, b
<1>6. /\ a \in 1 .. Len(h) /\ a \in 2 .. Len(h) /\ Parent(a) = i /\ Parent(b) = i /\ b \in Nat /\ b > a
      /\ c = IF b > Len(h) \/ key[h[a]] < key[h[b]] THEN a ELSE b
      /\ \A j \in 2 .. Len(h) : Parent(j) = i => j = a \/ j = b
  BY <1>1, <1>2, <1>4, <1>5 DEF a, b
<1>7. CASE b > Len(h)
  <2>1. c = a /\ \A j \in 2 .. Len(h) : Parent(j) = i => j = a
    BY <1>6, <1>7
  <2>2. key[h[a]] <= key[h[a]]
    BY <1>3, <1>6
  <2>3. QED
    BY <1>6, <2>1, <2>2 DEF c
<1>8. CASE ~(b > Len(h))
  <2>1. b \in 1 .. Len(h) /\ b \in 2 .. Len(h)
    BY <1>1, <1>6, <1>8
  <2>2. key[h[a]] \in Int /\ key[h[b]] \in Int
    BY <1>3, <1>6, <2>1
  <2>3. key[h[c]] <= key[h[a]] /\ key[h[c]] <= key[h[b]] /\ (c = a \/ c = b)
    BY <1>6, <1>8, <2>2
  <2>4. ASSUME NEW j \in 2 .. Len(h), Parent(j) = i PROVE key[h[c]] <= key[h[j]]
    <3>1. j = a \/ j = b
      BY <1>6, <2>4
    <3>2. QED
      BY <2>3, <3>1
  <2>5. c \in 2 .. Len(h) /\ Parent(c) = i
    BY <1>6, <2>1, <2>3
  <2>6. QED
    BY <2>4, <2>5 DEF c
<1>9. QED
  BY <1>7, <1>8

LEMMA SunkStep ==
    ASSUME NEW D, NEW key \in [D -> Int], NEW s \in Spots(D)
    PROVE  LET t == Sunk(key, s)
           IN  /\ t \in Spots(D) /\ Same(s.heap, t.heap)
               /\ DownOK(key, s.heap, s.at) => DownOK(key, t.heap, t.at)
               /\ t.at > s.at \/ (t = s /\ (DownOK(key, s.heap, s.at) => InOrder(key, s.heap)))
<1> DEFINE h == s.heap
           i == s.at
           c == LesserChild(key, h, i)
           g == Swapped(h, c, i)
<1>1. h \in Seq(D) /\ i \in 1 .. Len(h) /\ Len(h) \in Nat
  BY DEF Spots
<1>2. Sunk(key, s) = IF 2 * i <= Len(h) /\ key[h[c]] < key[h[i]] THEN [heap |-> g, at |-> c] ELSE s
  BY DEF Sunk, Less
<1> HIDE DEF h, i
<1>3. CASE 2 * i <= Len(h) /\ key[h[c]] < key[h[i]]
  <2>1. /\ c \in 2 .. Len(h) /\ Parent(c) = i
        /\ \A j \in 2 .. Len(h) : Parent(j) = i => key[h[c]] <= key[h[j]]
    BY <1>1, <1>3, LesserIs
  <2> HIDE DEF c
  <2>2. c \in 1 .. Len(h) /\ i < c /\ c \in Nat
    BY <1>1, <2>1, Half
  <2>3. g \in Seq(D) /\ Same(h, g) /\ Len(g) = Len(h)
    BY <1>1, <2>2, Swaps DEF Same
  <2>4. DownOK(key, h, i) => DownOK(key, g, c)
    BY <1>1, <1>3, <2>1, SwapDown
  <2> HIDE DEF g
  <2>5. Sunk(key, s) = [heap |-> g, at |-> c]
    BY <1>2, <1>3
  <2>6. [heap |-> g, at |-> c] \in Spots(D)
    BY <2>2, <2>3 DEF Spots
  <2>7. QED
    BY <2>2, <2>3, <2>4, <2>5, <2>6 DEF h, i
<1>4. CASE ~(2 * i <= Len(h) /\ key[h[c]] < key[h[i]])
  <2>1. Sunk(key, s) = s
    BY <1>2, <1>4
  <2>2. Same(h, h)
    BY DEF Same
  <2>3. ASSUME DownOK(key, h, i) PROVE InOrder(key, h)
    <3>1. ASSUME NEW j \in 2 .. Len(h) PROVE key[h[Parent(j)]] <= key[h[j]]
      <4>1. CASE Parent(j) # i
        BY <2>3, <4>1 DEF DownOK
      <4>2. CASE Parent(j) = i
        <5>1. 2 * i <= Len(h)
          <6>1. j \in Nat /\ j >= 2 /\ i \in Nat /\ i >= 1 /\ j <= Len(h)
            BY <1>1
          <6>2. j = 2 * i \/ j = 2 * i + 1
            BY <4>2, <6>1, Halved
          <6>3. QED
            BY <1>1, <6>1, <6>2
        <5>2. c \in 2 .. Len(h) /\ key[h[c]] <= key[h[j]]
          BY <1>1, <4>2, <5>1, LesserIs
        <5> HIDE DEF c
        <5>3. c \in 1 .. Len(h) /\ j \in 1 .. Len(h)
          BY <1>1, <5>2
        <5>4. key[h[c]] \in Int /\ key[h[i]] \in Int /\ key[h[j]] \in Int
          BY <1>1, <5>3
        <5>5. ~(key[h[c]] < key[h[i]])
          BY <1>4, <5>1
        <5>6. QED
          BY <4>2, <5>2, <5>4, <5>5
      <4>3. QED
        BY <4>1, <4>2
    <3>2. QED
      BY <3>1 DEF InOrder
  <2>4. QED
    BY <2>1, <2>2, <2>3 DEF h, i
<1>5. QED
  BY <1>3, <1>4

\* An entry that may be less than its parent is put right.
LEMMA CascadesUp ==
    ASSUME NEW D, NEW key \in [D -> Int], NEW h \in Seq(D), NEW i \in 1 .. Len(h)
    PROVE  LET g == CascadeUp(key, h, i)
           IN  /\ g \in Seq(D) /\ Same(h, g)
               /\ UpOK(key, h, i) => InOrder(key, g)
               /\ ~(i > 1 /\ key[h[i]] < key[h[Parent(i)]]) => g = h
<1> DEFINE N == Len(h)
           s == [heap |-> h, at |-> i]
           IsUp(r) == r = [n \in 0 .. N |-> IF n = 0 THEN s ELSE Risen(key, r[n - 1])]
           rises(t) == t.at > 1 /\ key[t.heap[t.at]] < key[t.heap[Parent(t.at)]]
<1>1. s \in Spots(D) /\ N \in Nat
  BY DEF Spots
<1>2. \E r \in [0 .. N -> Spots(D)] : IsUp(r)
  <2> DEFINE step == [t \in Spots(D) |-> Risen(key, t)]
  <2>1. step \in [Spots(D) -> Spots(D)]
    <3>1. \A t \in Spots(D) : Risen(key, t) \in Spots(D)
      BY RisenStep
    <3>2. QED
      BY <3>1
  <2> HIDE DEF s, N
  <2>2. \A t \in Spots(D) : step[t] = Risen(key, t)
    OBVIOUS
  <2> HIDE DEF step
  <2>3a. PICK r \in [0 .. N -> Spots(D)] : Steps(r, s, step, N)
    BY <1>1, <2>1, Iterates
  <2>3. r[0] = s /\ \A n \in 1 .. N : r[n] = step[r[n - 1]]
    BY <2>3a DEF Steps
  <2>4. ASSUME NEW n \in 0 .. N PROVE r[n] = IF n = 0 THEN s ELSE Risen(key, r[n - 1])
    <3>1. CASE n = 0
      BY <2>3, <3>1
    <3>2. CASE n # 0
      <4>1. n \in 1 .. N /\ n - 1 \in 0 .. N
        BY <1>1, <3>2
      <4>2. r[n] = step[r[n - 1]] /\ r[n - 1] \in Spots(D)
        BY <2>3, <2>3a, <4>1
      <4>3. QED
        BY <2>2, <3>2, <4>2
    <3>3. QED
      BY <3>1, <3>2
  <2>5. IsUp(r)
    BY <2>3a, <2>4
  <2>6. QED
    BY <2>3a, <2>5
<1> DEFINE r == CHOOSE f : IsUp(f)
<1>3. CascadeUp(key, h, i) = r[N].heap
  BY Zenon DEF CascadeUp
<1>4. IsUp(r)
  BY <1>2
<1> HIDE DEF r
<1>5. \A n \in 0 .. N : r[n] = IF n = 0 THEN s ELSE Risen(key, r[n - 1])
  BY <1>4
<1> DEFINE Good == {n \in 0 .. N :
              /\ r[n] \in Spots(D) /\ Same(h, r[n].heap)
              /\ UpOK(key, h, i) => UpOK(key, r[n].heap, r[n].at)
              /\ r[n].at <= i - n \/ ~rises(r[n])
              /\ ~rises(s) => r[n] = s}
<1> HIDE DEF IsUp
<1>6. 0 \in Good
  <2>1. r[0] = s /\ 0 \in 0 .. N
    BY <1>1, <1>5
  <2>2. Same(h, h)
    BY DEF Same
  <2>3. s.at = i /\ s.heap = h /\ i <= i - 0
    OBVIOUS
  <2> HIDE DEF s, rises
  <2>4. QED
    BY <1>1, <2>1, <2>2, <2>3
<1>7. ASSUME NEW n \in Good, n < N PROVE n + 1 \in Good
  <2>range. n \in 0 .. N /\ i \in 1 .. N
    OBVIOUS
  <2>0. n \in 0 .. N /\ n + 1 \in 0 .. N /\ n + 1 # 0 /\ (n + 1) - 1 = n /\ n \in Nat /\ i \in Nat
    <3> HIDE DEF Good, N
    <3>1. QED
      BY <1>1, <1>7, <2>range
  <2>1. /\ r[n] \in Spots(D) /\ Same(h, r[n].heap)
        /\ UpOK(key, h, i) => UpOK(key, r[n].heap, r[n].at)
        /\ r[n].at <= i - n \/ ~rises(r[n])
        /\ ~rises(s) => r[n] = s
    OBVIOUS
  <2>2. r[n + 1] = Risen(key, r[n])
    BY <1>5, <2>0
  <2> DEFINE t == r[n]
             u == r[n + 1]
  <2>3. /\ u \in Spots(D) /\ Same(t.heap, u.heap)
        /\ UpOK(key, t.heap, t.at) => UpOK(key, u.heap, u.at)
        /\ u.at < t.at \/ (u = t /\ ~rises(t))
    BY <2>1, <2>2, RisenStep
  <2>4. t.at \in Nat /\ u.at \in Nat
    BY <2>1, <2>3 DEF Spots
  <2>5. Same(h, u.heap)
    BY <2>1, <2>3, SameTwice
  <2>6. ~rises(t) => u = t
    BY <2>2 DEF Risen, Less, Parent
  <2> HIDE DEF rises, t, u, s
  <2>7. r[n] = t /\ r[n + 1] = u
    BY DEF t, u
  <2>8. u.at <= i - (n + 1) \/ ~rises(u)
    <3>1. CASE u = t /\ ~rises(t)
      BY <3>1
    <3>2. CASE u.at < t.at /\ ~(u = t)
      <4>1. t.at <= i - n
        BY <2>1, <2>6, <2>7, <3>2
      <4>2. QED
        BY <2>0, <2>4, <3>2, <4>1
    <3>3. QED
      BY <2>3, <2>4, <3>1, <3>2
  <2>9. QED
    BY <2>0, <2>1, <2>3, <2>5, <2>6, <2>7, <2>8
<1>8. N \in Good
  <2>1. Good \in SUBSET (0 .. N)
    OBVIOUS
  <2> HIDE DEF Good
  <2>2. QED
    BY <1>1, <1>6, <1>7, <2>1, UpTo
<1> DEFINE g == r[N].heap
           j == r[N].at
<1>9. /\ r[N] \in Spots(D) /\ Same(h, g)
      /\ UpOK(key, h, i) => UpOK(key, g, j)
      /\ j <= i - N \/ ~rises(r[N])
      /\ ~rises(s) => r[N] = s
  BY <1>8
<1>10. g \in Seq(D) /\ j \in 1 .. Len(g) /\ i <= N /\ i \in Nat /\ Len(g) \in Nat
  BY <1>1, <1>9 DEF Spots
<1>11. ~(j > 1 /\ key[g[j]] < key[g[Parent(j)]])
  BY <1>1, <1>9, <1>10
<1>12. ASSUME UpOK(key, h, i) PROVE InOrder(key, g)
  <2> HIDE DEF g, j
  <2>1. ASSUME NEW k \in 2 .. Len(g) PROVE key[g[Parent(k)]] <= key[g[k]]
    <3>1. UpOK(key, g, j)
      BY <1>9, <1>12 DEF g, j
    <3>2. CASE k # j
      BY <3>1, <3>2 DEF UpOK
    <3>3. CASE k = j
      <4>1. Parent(j) \in 1 .. Len(g) /\ j > 1
        BY <1>10, <3>3, Half
      <4>2. key[g[j]] \in Int /\ key[g[Parent(j)]] \in Int
        BY <1>10, <4>1
      <4>3. QED
        BY <1>11, <3>3, <4>1, <4>2
    <3>4. QED
      BY <3>2, <3>3
  <2>2. QED
    BY <2>1 DEF InOrder
<1>13. ASSUME ~(i > 1 /\ key[h[i]] < key[h[Parent(i)]]) PROVE g = h
  <2>1. ~rises(s)
    BY <1>13
  <2>2. r[N] = s
    BY <1>9, <2>1
  <2>3. QED
    BY <2>2
<1>14. QED
  BY <1>3, <1>9, <1>10, <1>12, <1>13

\* An entry that may be greater than a child is put right.
LEMMA CascadesDown ==
    ASSUME NEW D, NEW key \in [D -> Int], NEW h \in Seq(D), NEW i \in 1 .. Len(h)
    PROVE  LET g == CascadeDown(key, h, i)
           IN  /\ g \in Seq(D) /\ Same(h, g)
               /\ DownOK(key, h, i) => InOrder(key, g)
<1> DEFINE N == Len(h)
           s == [heap |-> h, at |-> i]
           IsUp(r) == r = [n \in 0 .. N |-> IF n = 0 THEN s ELSE Sunk(key, r[n - 1])]
           rests(t) == Sunk(key, t) = t /\ (DownOK(key, t.heap, t.at) => InOrder(key, t.heap))
<1>1. s \in Spots(D) /\ N \in Nat
  BY DEF Spots
<1>2. \E r \in [0 .. N -> Spots(D)] : IsUp(r)
  <2> DEFINE step == [t \in Spots(D) |-> Sunk(key, t)]
  <2>1. step \in [Spots(D) -> Spots(D)]
    <3>1. \A t \in Spots(D) : Sunk(key, t) \in Spots(D)
      BY SunkStep
    <3>2. QED
      BY <3>1
  <2> HIDE DEF s, N
  <2>2. \A t \in Spots(D) : step[t] = Sunk(key, t)
    OBVIOUS
  <2> HIDE DEF step
  <2>3a. PICK r \in [0 .. N -> Spots(D)] : Steps(r, s, step, N)
    BY <1>1, <2>1, Iterates
  <2>3. r[0] = s /\ \A n \in 1 .. N : r[n] = step[r[n - 1]]
    BY <2>3a DEF Steps
  <2>4. ASSUME NEW n \in 0 .. N PROVE r[n] = IF n = 0 THEN s ELSE Sunk(key, r[n - 1])
    <3>1. CASE n = 0
      BY <2>3, <3>1
    <3>2. CASE n # 0
      <4>1. n \in 1 .. N /\ n - 1 \in 0 .. N
        BY <1>1, <3>2
      <4>2. r[n] = step[r[n - 1]] /\ r[n - 1] \in Spots(D)
        BY <2>3, <2>3a, <4>1
      <4>3. QED
        BY <2>2, <3>2, <4>2
    <3>3. QED
      BY <3>1, <3>2
  <2>5. IsUp(r)
    BY <2>3a, <2>4
  <2>6. QED
    BY <2>3a, <2>5
<1> DEFINE r == CHOOSE f : IsUp(f)
<1>3. CascadeDown(key, h, i) = r[N].heap
  BY Zenon DEF CascadeDown
<1>4. IsUp(r)
  BY <1>2
<1> HIDE DEF r
<1>5. \A n \in 0 .. N : r[n] = IF n = 0 THEN s ELSE Sunk(key, r[n - 1])
  BY <1>4
<1> DEFINE Good == {n \in 0 .. N :
              /\ r[n] \in Spots(D) /\ Same(h, r[n].heap)
              /\ DownOK(key, h, i) => DownOK(key, r[n].heap, r[n].at)
              /\ r[n].at >= i + n \/ rests(r[n])}
<1> HIDE DEF IsUp
<1>6. 0 \in Good
  <2>1. r[0] = s /\ 0 \in 0 .. N
    BY <1>1, <1>5
  <2>2. Same(h, h)
    BY DEF Same
  <2>3. s.at = i /\ s.heap = h /\ i >= i + 0
    OBVIOUS
  <2> HIDE DEF s, rests
  <2>4. QED
    BY <1>1, <2>1, <2>2, <2>3
<1>7. ASSUME NEW n \in Good, n < N PROVE n + 1 \in Good
  <2>range. n \in 0 .. N
    OBVIOUS
  <2>0. n \in 0 .. N /\ n + 1 \in 0 .. N /\ n + 1 # 0 /\ (n + 1) - 1 = n /\ n \in Nat /\ i \in Nat
    <3> HIDE DEF Good
    <3>1. QED
      BY <1>1, <1>7, <2>range
  <2>1. /\ r[n] \in Spots(D) /\ Same(h, r[n].heap)
        /\ DownOK(key, h, i) => DownOK(key, r[n].heap, r[n].at)
        /\ r[n].at >= i + n \/ rests(r[n])
    OBVIOUS
  <2>2. r[n + 1] = Sunk(key, r[n])
    BY <1>5, <2>0
  <2> DEFINE t == r[n]
             u == r[n + 1]
  <2>3. /\ u \in Spots(D) /\ Same(t.heap, u.heap)
        /\ DownOK(key, t.heap, t.at) => DownOK(key, u.heap, u.at)
        /\ u.at > t.at \/ (u = t /\ rests(t))
    BY <2>1, <2>2, SunkStep
  <2>4. t.at \in Nat /\ u.at \in Nat
    BY <2>1, <2>3 DEF Spots
  <2>5. Same(h, u.heap)
    BY <2>1, <2>3, SameTwice
  <2>6. rests(t) => u = t
    BY <2>2
  <2> HIDE DEF rests, t, u, s
  <2>7. r[n] = t /\ r[n + 1] = u
    BY DEF t, u
  <2>8. u.at >= i + (n + 1) \/ rests(u)
    <3>1. CASE u = t /\ rests(t)
      BY <3>1
    <3>2. CASE u.at > t.at /\ ~(u = t)
      <4>1. t.at >= i + n
        BY <2>1, <2>6, <2>7, <3>2
      <4>2. QED
        BY <2>0, <2>4, <3>2, <4>1
    <3>3. QED
      BY <2>3, <2>4, <3>1, <3>2
  <2>9. QED
    BY <2>0, <2>1, <2>3, <2>5, <2>7, <2>8
<1>8. N \in Good
  <2>1. Good \in SUBSET (0 .. N)
    OBVIOUS
  <2> HIDE DEF Good
  <2>2. QED
    BY <1>1, <1>6, <1>7, <2>1, UpTo
<1> DEFINE g == r[N].heap
           j == r[N].at
<1>9. /\ r[N] \in Spots(D) /\ Same(h, g)
      /\ DownOK(key, h, i) => DownOK(key, g, j)
      /\ j >= i + N \/ rests(r[N])
  BY <1>8
<1>10. g \in Seq(D) /\ j \in 1 .. Len(g) /\ i \in Nat /\ i >= 1 /\ Len(g) = N
  BY <1>1, <1>9 DEF Spots, Same
<1>11. rests(r[N])
  BY <1>1, <1>9, <1>10
<1>12. DownOK(key, h, i) => InOrder(key, g)
  BY <1>9, <1>11
<1>13. QED
  BY <1>3, <1>9, <1>10, <1>12

\* add_to_heap, remove_top_of_heap and update_node_on_heap.
LEMMA Adds ==
    ASSUME NEW D, NEW key \in [D -> Int], NEW h \in Seq(D), NEW t \in D,
           InOrder(key, h), Distinct(h), t \notin Entries(h)
    PROVE  LET g == AddToHeap(key, h, t)
           IN  /\ g \in Seq(D) /\ Distinct(g) /\ InOrder(key, g)
               /\ Entries(g) = Entries(h) \cup {t}
<1> DEFINE N == Len(h)
           a == Append(h, t)
<1>1. /\ a \in Seq(D) /\ Len(a) = N + 1 /\ N \in Nat /\ a[N + 1] = t
      /\ \A i \in 1 .. N : a[i] = h[i]
  OBVIOUS
<1> HIDE DEF a
<1>2. UpOK(key, a, N + 1)
  <2>1. ASSUME NEW j \in 2 .. Len(a), j # N + 1 PROVE key[a[Parent(j)]] <= key[a[j]]
    <3>0. j \in 2 .. N /\ j \in 1 .. N /\ j \in Nat /\ j >= 2 /\ j <= N
      BY <1>1, <2>1
    <3>1. j \in 2 .. N /\ j \in 1 .. N /\ Parent(j) \in 1 .. N
      BY <1>1, <3>0, Half
    <3>2. a[j] = h[j] /\ a[Parent(j)] = h[Parent(j)]
      BY <1>1, <3>1
    <3>3. QED
      BY <3>1, <3>2 DEF InOrder
  <2>2. ASSUME NEW j \in 2 .. Len(a) PROVE Parent(j) # N + 1
    BY <1>1, Half
  <2>3. QED
    BY <2>1, <2>2 DEF UpOK
<1>3. Distinct(a)
  <2>1. ASSUME NEW i \in 1 .. N PROVE a[i] = h[i] /\ h[i] # t
    BY <1>1 DEF Entries
  <2>2. \A i \in 1 .. Len(a) : i \in 1 .. N \/ (i = N + 1 /\ a[i] = t)
    BY <1>1
  <2>3. ASSUME NEW i \in 1 .. Len(a), NEW j \in 1 .. Len(a), a[i] = a[j] PROVE i = j
    <3>1. CASE i \in 1 .. N /\ j \in 1 .. N
      BY <2>1, <2>3, <3>1 DEF Distinct
    <3>2. CASE ~(i \in 1 .. N /\ j \in 1 .. N)
      BY <2>1, <2>2, <2>3, <3>2
    <3>3. QED
      BY <3>1, <3>2
  <2>4. QED
    BY <2>3 DEF Distinct
<1>4. Entries(a) = Entries(h) \cup {t}
  <2>1. \A i \in 1 .. N : i \in 1 .. N + 1
    BY <1>1
  <2>2. \A i \in 1 .. N + 1 : i \in 1 .. N \/ i = N + 1
    BY <1>1
  <2>3. N + 1 \in 1 .. N + 1
    BY <1>1
  <2>4. QED
    BY <1>1, <2>1, <2>2, <2>3 DEF Entries
<1>5. N + 1 \in 1 .. Len(a)
  BY <1>1
<1> DEFINE g == CascadeUp(key, a, N + 1)
<1>6. g \in Seq(D) /\ Same(a, g) /\ InOrder(key, g)
  BY <1>1, <1>2, <1>5, CascadesUp
<1>7. AddToHeap(key, h, t) = g
  BY DEF AddToHeap, a
<1> HIDE DEF g
<1>8. QED
  BY <1>3, <1>4, <1>6, <1>7 DEF Same

LEMMA RemovesTop ==
    ASSUME NEW D, NEW key \in [D -> Int], NEW h \in Seq(D),
           InOrder(key, h), Distinct(h), h # << >>
    PROVE  LET g == RemoveTopOfHeap(key, h)
           IN  /\ g \in Seq(D) /\ Distinct(g) /\ InOrder(key, g) /\ Len(g) = Len(h) - 1
               /\ Entries(g) = Entries(h) \ {h[1]}
<1> DEFINE N == Len(h)
<1>1. N \in Nat /\ N >= 1
  OBVIOUS
<1>2. CASE N = 1
  <2>1. RemoveTopOfHeap(key, h) = << >>
    BY <1>2 DEF RemoveTopOfHeap
  <2>2. Entries(h) = {h[1]} /\ Entries(<< >>) = {}
    BY <1>2 DEF Entries
  <2>3. << >> \in Seq(D) /\ Len(<< >>) = 0 /\ Distinct(<< >>) /\ InOrder(key, << >>)
    BY DEF Distinct, InOrder
  <2>4. QED
    BY <1>2, <2>1, <2>2, <2>3
<1>3. CASE N # 1
  <2>0. N > 1
    <3> HIDE DEF N
    <3>1. QED
      BY <1>1, <1>3
  <2> DEFINE s == Swapped(h, 1, N)
             a == SubSeq(s, 1, N - 1)
  <2>1. s \in Seq(D) /\ Len(s) = N /\ Same(h, s)
        /\ \A k \in 1 .. N : s[k] = IF k = N THEN h[1] ELSE IF k = 1 THEN h[N] ELSE h[k]
    <3>1. 1 \in 1 .. Len(h) /\ Len(h) \in 1 .. Len(h)
      BY <1>1
    <3>2. /\ Swapped(h, 1, Len(h)) \in Seq(D) /\ Same(h, Swapped(h, 1, Len(h)))
          /\ \A k \in 1 .. Len(h) : Swapped(h, 1, Len(h))[k] = IF k = Len(h) THEN h[1] ELSE IF k = 1 THEN h[Len(h)] ELSE h[k]
      BY <3>1, Swaps
    <3>3. Len(s) = N
      BY <3>2 DEF Same
    <3> HIDE DEF s
    <3>4. QED
      BY <3>2, <3>3 DEF s
  <2> HIDE DEF s
  <2>2. a \in Seq(D) /\ Len(a) = N - 1 /\ \A k \in 1 .. N - 1 : a[k] = s[k]
    BY <1>1, <2>0, <2>1
  <2> HIDE DEF a
  <2>3. \A k \in 1 .. N - 1 : a[k] = IF k = 1 THEN h[N] ELSE h[k]
    <3>1. \A k \in 1 .. N - 1 : k \in 1 .. N /\ k # N
      BY <1>1
    <3>2. QED
      BY <2>1, <2>2, <3>1
  <2>4. Distinct(a)
    <3>1. \A i, j \in 1 .. N : s[i] = s[j] => i = j
      BY <2>1 DEF Same, Distinct
    <3>2. \A k \in 1 .. N - 1 : k \in 1 .. N
      BY <1>1
    <3>3. QED
      BY <2>2, <3>1, <3>2 DEF Distinct
  <2>5. Entries(a) = Entries(h) \ {h[1]}
    <3>1. Entries(s) = Entries(h) /\ \A i, j \in 1 .. N : s[i] = s[j] => i = j
      BY <2>1 DEF Same, Distinct
    <3>2. s[N] = h[1] /\ N \in 1 .. N
      BY <1>1, <2>1
    <3>3. \A k \in 1 .. N : k \in 1 .. N - 1 \/ k = N
      BY <1>1
    <3>4. \A k \in 1 .. N - 1 : k \in 1 .. N /\ k # N
      BY <1>1
    <3>5. Entries(a) = Entries(s) \ {s[N]}
      <4>1. ASSUME NEW k \in 1 .. N - 1 PROVE a[k] \in Entries(s) \ {s[N]}
        <5>1. k \in 1 .. N /\ k # N /\ a[k] = s[k]
          BY <2>2, <3>4
        <5>2. s[k] \in Entries(s)
          BY <2>1, <5>1 DEF Entries
        <5>3. s[k] # s[N]
          BY <3>1, <3>2, <5>1
        <5>4. QED
          BY <5>1, <5>2, <5>3
      <4>2. ASSUME NEW k \in 1 .. N, s[k] # s[N] PROVE s[k] \in Entries(a)
        <5>1. k \in 1 .. N - 1
          BY <3>3, <4>2
        <5>2. QED
          BY <2>2, <5>1 DEF Entries
      <4>3. Entries(a) \subseteq Entries(s) \ {s[N]}
        BY <2>2, <4>1 DEF Entries
      <4>4. ASSUME NEW e \in Entries(s), e # s[N] PROVE e \in Entries(a)
        <5>1. PICK k \in 1 .. N : e = s[k]
          BY <2>1 DEF Entries
        <5>2. QED
          BY <4>2, <4>4, <5>1
      <4>5. QED
        BY <4>3, <4>4
    <3>6. QED
      BY <3>1, <3>2, <3>5
  <2>6. DownOK(key, a, 1)
    <3>1. ASSUME NEW j \in 2 .. Len(a), Parent(j) # 1 PROVE key[a[Parent(j)]] <= key[a[j]]
      <4>0. j \in 2 .. N /\ j \in 1 .. N - 1 /\ j # 1 /\ j \in Nat /\ j >= 2 /\ j <= N - 1
        BY <1>1, <2>2
      <4>1. j \in 2 .. N /\ j \in 1 .. N - 1 /\ Parent(j) \in 1 .. N - 1 /\ j # 1
        BY <1>1, <4>0, Half
      <4>2. a[j] = h[j] /\ a[Parent(j)] = h[Parent(j)]
        BY <2>3, <3>1, <4>1
      <4>3. QED
        BY <4>1, <4>2 DEF InOrder
    <3>2. QED
      BY <3>1 DEF DownOK
  <2>7. 1 \in 1 .. Len(a)
    BY <1>1, <2>0, <2>2
  <2> DEFINE g == CascadeDown(key, a, 1)
  <2>8. g \in Seq(D) /\ Same(a, g) /\ InOrder(key, g)
    BY <2>2, <2>6, <2>7, CascadesDown
  <2>9. RemoveTopOfHeap(key, h) = g
    BY <1>1, <2>0 DEF RemoveTopOfHeap, a, s
  <2> HIDE DEF g
  <2>10. QED
    BY <2>2, <2>4, <2>5, <2>8, <2>9 DEF Same
<1>4. QED
  BY <1>2, <1>3

LEMMA OrderedDown ==
    ASSUME NEW D, NEW key \in [D -> Int], NEW h \in Seq(D), NEW i \in 1 .. Len(h), InOrder(key, h)
    PROVE  DownOK(key, h, i)
<1>1. ASSUME NEW j \in 2 .. Len(h), Parent(j) = i, i > 1 PROVE key[h[Parent(i)]] <= key[h[j]]
  <2>1. i \in 2 .. Len(h) /\ j \in 1 .. Len(h) /\ i \in Nat /\ i >= 2
    BY <1>1
  <2>2. Parent(i) \in 1 .. Len(h)
    BY <2>1, Half
  <2>3. key[h[Parent(j)]] <= key[h[j]] /\ key[h[Parent(i)]] <= key[h[i]]
    BY <2>1 DEF InOrder
  <2>4. h[i] \in D /\ h[j] \in D /\ h[Parent(i)] \in D
    BY <2>1, <2>2
  <2>5. QED
    BY <1>1, <2>3, <2>4
<1>2. QED
  BY <1>1 DEF DownOK, InOrder

\* The key of one entry has changed.
LEMMA Updates ==
    ASSUME NEW D, NEW old \in [D -> Int], NEW key \in [D -> Int], NEW h \in Seq(D), NEW i \in 1 .. Len(h),
           InOrder(old, h), Distinct(h), \A t \in D \ {h[i]} : key[t] = old[t]
    PROVE  LET g == UpdateNodeOnHeap(key, h, i)
           IN  g \in Seq(D) /\ Same(h, g) /\ InOrder(key, g)
<1>1. \A j \in 2 .. Len(h) : Parent(j) \in 1 .. Len(h) /\ Parent(j) < j /\ j \in 1 .. Len(h)
  BY Half
<1>2. \A j \in 1 .. Len(h) : h[j] \in D /\ key[h[j]] \in Int /\ old[h[j]] \in Int
  OBVIOUS
<1>3. \A j \in 1 .. Len(h) : j # i => key[h[j]] = old[h[j]]
  BY <1>2 DEF Distinct
<1>4. \A j \in 2 .. Len(h) : j # i /\ Parent(j) # i => key[h[Parent(j)]] <= key[h[j]]
  <2>1. ASSUME NEW j \in 2 .. Len(h), j # i, Parent(j) # i PROVE key[h[Parent(j)]] <= key[h[j]]
    <3>1. old[h[Parent(j)]] <= old[h[j]]
      BY DEF InOrder
    <3>2. key[h[j]] = old[h[j]] /\ key[h[Parent(j)]] = old[h[Parent(j)]]
      BY <1>1, <1>3, <2>1
    <3>3. QED
      BY <3>1, <3>2
  <2>2. QED
    BY <2>1
<1>5. \A j \in 2 .. Len(h) : Parent(j) = i /\ i > 1 => key[h[Parent(i)]] <= key[h[j]]
  <2>1. ASSUME NEW j \in 2 .. Len(h), Parent(j) = i, i > 1 PROVE key[h[Parent(i)]] <= key[h[j]]
    <3>1. i \in 2 .. Len(h) /\ j # i /\ j \in 1 .. Len(h)
      BY <1>1, <2>1
    <3>2. Parent(i) \in 1 .. Len(h) /\ Parent(i) # i
      BY <1>1, <3>1
    <3>3. old[h[i]] <= old[h[j]] /\ old[h[Parent(i)]] <= old[h[i]]
      BY <2>1, <3>1 DEF InOrder
    <3>4. old[h[i]] \in Int /\ old[h[j]] \in Int /\ old[h[Parent(i)]] \in Int
      BY <1>2, <3>1, <3>2
    <3>5. old[h[Parent(i)]] <= old[h[j]]
      BY <3>3, <3>4
    <3>6. key[h[j]] = old[h[j]] /\ key[h[Parent(i)]] = old[h[Parent(i)]]
      BY <1>3, <3>1, <3>2
    <3>7. QED
      BY <3>5, <3>6
  <2>2. QED
    BY <2>1
<1> DEFINE u == CascadeUp(key, h, i)
           g == CascadeDown(key, u, i)
<1>6. /\ u \in Seq(D) /\ Same(h, u)
      /\ UpOK(key, h, i) => InOrder(key, u)
      /\ ~(i > 1 /\ key[h[i]] < key[h[Parent(i)]]) => u = h
  BY CascadesUp
<1>7. DownOK(key, u, i)
  <2>1. CASE i > 1 /\ key[h[i]] < key[h[Parent(i)]]
    <3>1. UpOK(key, h, i)
      <4>1. ASSUME NEW j \in 2 .. Len(h), j # i PROVE key[h[Parent(j)]] <= key[h[j]]
        <5>1. CASE Parent(j) # i
          BY <1>4, <4>1, <5>1
        <5>2. CASE Parent(j) = i
          <6>1. key[h[Parent(i)]] <= key[h[j]]
            BY <1>5, <2>1, <5>2
          <6>2. i \in 2 .. Len(h)
            BY <2>1
          <6>3. Parent(i) \in 1 .. Len(h) /\ j \in 1 .. Len(h)
            BY <1>1, <6>2
          <6>4. key[h[i]] \in Int /\ key[h[Parent(i)]] \in Int /\ key[h[j]] \in Int
            BY <1>2, <6>3
          <6>5. QED
            BY <2>1, <5>2, <6>1, <6>4
        <5>3. QED
          BY <5>1, <5>2
      <4>2. QED
        BY <1>5, <4>1 DEF UpOK
    <3>2. InOrder(key, u)
      BY <1>6, <3>1
    <3>3. u \in Seq(D) /\ i \in 1 .. Len(u)
      BY <1>6 DEF Same
    <3> HIDE DEF u
    <3>4. QED
      BY <3>2, <3>3, OrderedDown
  <2>2. CASE ~(i > 1 /\ key[h[i]] < key[h[Parent(i)]])
    <3>1. u = h
      BY <1>6, <2>2
    <3>2. ASSUME NEW j \in 2 .. Len(h), Parent(j) # i PROVE key[h[Parent(j)]] <= key[h[j]]
      <4>1. CASE j # i
        BY <1>4, <3>2, <4>1
      <4>2. CASE j = i
        <5>1. Parent(i) \in 1 .. Len(h) /\ i > 1
          BY <1>1, <4>2
        <5>2. key[h[i]] \in Int /\ key[h[Parent(i)]] \in Int
          BY <1>2, <5>1
        <5>3. QED
          BY <2>2, <4>2, <5>1, <5>2
      <4>3. QED
        BY <4>1, <4>2
    <3>3. QED
      BY <1>5, <3>1, <3>2 DEF DownOK
  <2>3. QED
    BY <2>1, <2>2
<1>8. i \in 1 .. Len(u)
  BY <1>6 DEF Same
<1>9. g \in Seq(D) /\ Same(u, g) /\ InOrder(key, g)
  <2> HIDE DEF u
  <2>1. QED
    BY <1>6, <1>7, <1>8, CascadesDown
<1>10. UpdateNodeOnHeap(key, h, i) = g
  BY DEF UpdateNodeOnHeap
<1> HIDE DEF g, u
<1>11. QED
  BY <1>6, <1>9, <1>10, SameTwice

\* Nothing is less than the first.
LEMMA TopLeast ==
    ASSUME NEW D, NEW key \in [D -> Int], NEW h \in Seq(D), InOrder(key, h), NEW i \in 1 .. Len(h)
    PROVE  key[h[1]] <= key[h[i]]
<1> DEFINE S == {j \in 1 .. Len(h) : ~(key[h[1]] <= key[h[j]])}
<1>1. CASE S = {}
  BY <1>1
<1>2. CASE S # {}
  <2>1. S \in SUBSET Nat
    OBVIOUS
  <2>2. PICK m \in S : \A n \in S : m <= n
    <3> HIDE DEF S
    <3>1. QED
      BY <1>2, <2>1, Least
  <2>3. m \in 1 .. Len(h) /\ 1 \in 1 .. Len(h) /\ m \in Nat
    OBVIOUS
  <2>4. key[h[1]] \in Int /\ key[h[m]] \in Int
    BY <2>3
  <2>5. m # 1 /\ m \in 2 .. Len(h)
    BY <2>3, <2>4
  <2>6. Parent(m) \in 1 .. Len(h) /\ Parent(m) < m /\ Parent(m) \in Nat
    BY <2>5, Half
  <2>7. key[h[Parent(m)]] <= key[h[m]] /\ key[h[Parent(m)]] \in Int
    BY <2>5, <2>6 DEF InOrder
  <2>8. ~(key[h[1]] <= key[h[Parent(m)]])
    BY <2>4, <2>7
  <2>9. Parent(m) \in S
    BY <2>6, <2>8
  <2>10. QED
    BY <2>2, <2>3, <2>6, <2>9
<1>3. QED
  BY <1>1, <1>2

-----------------------------------------------------------------------------
(* The timers.                                                              *)

Used(y) == {t \in TimerIds : y.timer[t] # Nothing}

\* Timers that are not an acquire's.
Others(y) == {t \in Used(y) : y.timer[t].data \in Alarms}

\* No acquire has two timers.
OneEach(y) ==
  \A t, u \in Used(y) : y.timer[t].data \in Acquires /\ y.timer[t].data = y.timer[u].data => t = u

Few(y) == Cardinality(Others(y)) <= MaxAlarms

\* What is in the heap is what is allocated, and there are not too many.
TimersOK(y) ==
  /\ y \in [heap : Seq(TimerIds), timer : [TimerIds -> Timer \cup {Nothing}]]
  /\ Distinct(y.heap) /\ Entries(y.heap) = Used(y)
  /\ InOrder(Keys(y.timer), y.heap)
  /\ OneEach(y) /\ Few(y)

LEMMA NothingElse ==
    /\ Nothing \notin Timer /\ Nothing \notin Acquire /\ Nothing \notin Sensor
    /\ Nothing \notin Nonsense /\ Nothing \notin Int
BY SensorsAssumption

LEMMA TimerIs ==
    ASSUME NEW y, TimersOK(y), NEW t \in Used(y)
    PROVE  /\ t \in TimerIds /\ y.timer[t] \in Timer /\ y.timer[t] # Nothing
           /\ y.timer[t].when \in Int /\ y.timer[t].interval \in Nat /\ y.timer[t].armed \in BOOLEAN
           /\ y.timer[t].data \in Acquires \cup Alarms
<1>1. t \in TimerIds /\ y.timer[t] # Nothing /\ y.timer[t] \in Timer
  BY DEF TimersOK, Used
<1>2. QED
  BY <1>1 DEF Timer

LEMMA OthersIs ==
    ASSUME NEW y
    PROVE  /\ Others(y) \subseteq TimerIds /\ IsFiniteSet(Others(y)) /\ Cardinality(Others(y)) \in Nat
           /\ MaxAlarms \in Nat
<1>1. Others(y) \in SUBSET TimerIds /\ IsFiniteSet(TimerIds) /\ MaxAlarms \in Nat
  BY SensorsAssumption, TimersAssumption DEF Others, Used
<1>2. IsFiniteSet(Others(y))
  BY <1>1, FS_Subset
<1>3. QED
  BY <1>1, <1>2, FS_CardinalityType

\* Timers that stay, and keep their data, or that are freed.
LEMMA DataKept ==
    ASSUME NEW y, TimersOK(y), NEW z, Used(z) \subseteq Used(y),
           \A t \in Used(z) : z.timer[t].data = y.timer[t].data
    PROVE  OneEach(z) /\ Few(z)
<1>1. OneEach(z)
  BY DEF OneEach, TimersOK
<1>2. Others(z) \in SUBSET Others(y)
  BY DEF Others
<1>3. Cardinality(Others(z)) <= Cardinality(Others(y))
  BY <1>2, OthersIs, FS_Subset
<1>4. Cardinality(Others(y)) <= MaxAlarms
  BY DEF TimersOK, Few
<1>5. /\ Cardinality(Others(z)) \in Nat /\ Cardinality(Others(y)) \in Nat /\ MaxAlarms \in Nat
  BY OthersIs
<1>6. QED
  BY <1>1, <1>3, <1>4, <1>5 DEF Few

LEMMA KeysIs ==
    ASSUME NEW timer \in [TimerIds -> Timer \cup {Nothing}]
    PROVE  Keys(timer) \in [TimerIds -> Int]
<1>1. ASSUME NEW t \in TimerIds PROVE (IF timer[t] = Nothing THEN 0 ELSE timer[t].when) \in Int
  <2>1. CASE timer[t] = Nothing
    BY <2>1
  <2>2. CASE timer[t] # Nothing
    <3>1. timer[t] \in Timer
      BY <2>2
    <3>2. QED
      BY <2>2, <3>1 DEF Timer
  <2>3. QED
    BY <2>1, <2>2
<1>2. QED
  BY <1>1 DEF Keys

LEMMA InHeapIs == \A y : InHeap(y) = Entries(y.heap)
BY DEF InHeap, Entries

LEMMA UnusedIs == \A y : Unused(y) = TimerIds \ Used(y)
BY DEF Unused, Used

\* A reference is looked up.
LEMMA PlacesAre ==
    ASSUME NEW y, TimersOK(y), NEW d
    PROVE  /\ Places(y, d) = {} <=> \A t \in Used(y) : y.timer[t].data # d
           /\ \A i \in Places(y, d) : /\ i \in 1 .. Len(y.heap) /\ y.heap[i] \in Used(y)
                                      /\ y.timer[y.heap[i]].data = d
                                      /\ d \in Acquires => Places(y, d) = {i} /\ FirstPlace(y, d) = i
<1> DEFINE h == y.heap
<1>1. h \in Seq(TimerIds) /\ Entries(h) = Used(y) /\ Distinct(h)
  BY DEF TimersOK
<1>2. \A i \in 1 .. Len(h) : h[i] \in Used(y)
  BY <1>1 DEF Entries
<1>3. \A t \in Used(y) : \E i \in 1 .. Len(h) : t = h[i]
  BY <1>1 DEF Entries
<1>4. \A i : i \in Places(y, d) <=> i \in 1 .. Len(h) /\ y.timer[h[i]].data = d
  BY DEF Places
<1> HIDE DEF h
<1>5. Places(y, d) = {} <=> \A t \in Used(y) : y.timer[t].data # d
  <2>1. ASSUME Places(y, d) # {} PROVE \E t \in Used(y) : y.timer[t].data = d
    BY <1>2, <1>4, <2>1
  <2>2. ASSUME NEW t \in Used(y), y.timer[t].data = d PROVE Places(y, d) # {}
    BY <1>3, <1>4, <2>2
  <2>3. QED
    BY <2>1, <2>2
<1>6. ASSUME NEW i \in Places(y, d)
      PROVE  /\ i \in 1 .. Len(h) /\ h[i] \in Used(y) /\ y.timer[h[i]].data = d
             /\ d \in Acquires => Places(y, d) = {i} /\ FirstPlace(y, d) = i
  <2>1. i \in 1 .. Len(h) /\ h[i] \in Used(y) /\ y.timer[h[i]].data = d
    BY <1>2, <1>4
  <2>2. ASSUME d \in Acquires, NEW j \in Places(y, d) PROVE j = i
    <3>1. j \in 1 .. Len(h) /\ h[j] \in Used(y) /\ y.timer[h[j]].data = d
      BY <1>2, <1>4
    <3>2. h[j] = h[i]
      BY <2>1, <2>2, <3>1 DEF TimersOK, OneEach
    <3>3. QED
      BY <1>1, <2>1, <3>1, <3>2 DEF Distinct
  <2>3. d \in Acquires => Places(y, d) = {i}
    BY <2>2
  <2>4. ASSUME d \in Acquires PROVE FirstPlace(y, d) = i
    <3>1. i \in Places(y, d) /\ \A j \in Places(y, d) : i <= j
      BY <2>1, <2>2, <2>4
    <3>2. QED
      BY <2>3, <2>4, <3>1 DEF FirstPlace
  <2>5. QED
    BY <2>1, <2>3, <2>4
<1>7. QED
  BY <1>5, <1>6 DEF h

\* Who may be given a timer: an acquire that has none, and another while the
\* bound on those allows it.
Fits(y, d) ==
  \/ d \in Acquires /\ Places(y, d) = {}
  \/ d \in Alarms /\ Cardinality(Others(y)) < MaxAlarms

\* There is a timer for them.
LEMMA Room ==
    ASSUME NEW y, TimersOK(y), NEW d \in Acquires \cup Alarms, Fits(y, d)
    PROVE  Unused(y) # {}
<1> SUFFICES ASSUME Unused(y) = {} PROVE FALSE
  OBVIOUS
<1> DEFINE Own == TimerIds \ Others(y)
           f == [t \in Own |-> y.timer[t].data]
<1>1. Used(y) = TimerIds
  BY UnusedIs DEF Used
<1>2. /\ IsFiniteSet(Acquires) /\ IsFiniteSet(TimerIds)
      /\ Cardinality(Acquires) + MaxAlarms <= Cardinality(TimerIds)
  BY SensorsAssumption, TimersAssumption
<1>3. TimerIds \cap Others(y) = Others(y)
  BY OthersIs
<1>4. Cardinality(Own) = Cardinality(TimerIds) - Cardinality(Others(y))
  <2>1. Cardinality(TimerIds \ Others(y)) = Cardinality(TimerIds) - Cardinality(TimerIds \cap Others(y))
    BY <1>2, FS_Difference
  <2>2. QED
    BY <1>3, <2>1
<1>5. /\ Cardinality(Acquires) \in Nat /\ Cardinality(TimerIds) \in Nat
      /\ Cardinality(Others(y)) \in Nat /\ MaxAlarms \in Nat
  BY <1>2, OthersIs, FS_CardinalityType
<1>6. Cardinality(Others(y)) <= MaxAlarms
  BY DEF TimersOK, Few
<1>7. \A t \in Own : t \in Used(y) /\ f[t] = y.timer[t].data /\ f[t] \in Acquires
  BY <1>1, TimerIs DEF Others
<1>8. \A t, u \in Own : f[t] = f[u] => t = u
  BY <1>7 DEF TimersOK, OneEach
<1>9. ASSUME NEW D, IsFiniteSet(D), \A t \in Own : f[t] \in D
      PROVE  Cardinality(Own) <= Cardinality(D)
  <2>1. f \in [Own -> D]
    BY <1>9
  <2> HIDE DEF f, Own
  <2>2. f \in Injection(Own, D)
    BY <1>8, <2>1 DEF Injection, IsInjective
  <2>3. QED
    BY <1>9, <2>2, FS_Injection
<1>10. CASE d \in Acquires /\ Places(y, d) = {}
  <2>1. IsFiniteSet(Acquires \ {d}) /\ Cardinality(Acquires \ {d}) = Cardinality(Acquires) - 1
    BY <1>2, <1>10, FS_RemoveElement
  <2>2. \A t \in Own : f[t] \in Acquires \ {d}
    BY <1>7, <1>10, PlacesAre
  <2> HIDE DEF f, Own
  <2>3. Cardinality(Own) <= Cardinality(Acquires) - 1
    BY <1>9, <2>1, <2>2
  <2>4. QED
    BY <1>2, <1>4, <1>5, <1>6, <2>3
<1>11. CASE d \in Alarms /\ Cardinality(Others(y)) < MaxAlarms
  <2> HIDE DEF f, Own
  <2>1. Cardinality(Own) <= Cardinality(Acquires)
    BY <1>2, <1>7, <1>9
  <2>2. QED
    BY <1>2, <1>4, <1>5, <1>11, <2>1
<1>12. QED
  BY <1>10, <1>11 DEF Fits

Timed(when, interval, d) == [when |-> when, interval |-> interval, armed |-> TRUE, data |-> d]

\* A timer that was not allocated is.
Gains(y, z, b) == \E t \in TimerIds : y.timer[t] = Nothing /\ z.timer = [y.timer EXCEPT ![t] = b]

\* register_heap_timer_in_tv_katcp and the like.
LEMMA Registers ==
    ASSUME NEW y, TimersOK(y), NEW d \in Acquires \cup Alarms, Fits(y, d),
           NEW when \in Int, NEW interval \in Nat
    PROVE  LET z == Registered(y, d, when, interval)
           IN  TimersOK(z) /\ Gains(y, z, Timed(when, interval, d))
<1> DEFINE t == CHOOSE u \in Unused(y) : TRUE
           timer == [y.timer EXCEPT ![t] = Timed(when, interval, d)]
           key == Keys(timer)
           g == AddToHeap(key, y.heap, t)
           z == Registered(y, d, when, interval)
<1>1. t \in TimerIds /\ y.timer[t] = Nothing
  <2>1. t \in Unused(y)
    BY Room
  <2>2. QED
    BY <2>1 DEF Unused
<1>2. z = [y EXCEPT !.timer = timer, !.heap = g]
  BY DEF Registered, Timed
<1> HIDE DEF t
<1>3. y.timer \in [TimerIds -> Timer \cup {Nothing}] /\ y.heap \in Seq(TimerIds)
      /\ y \in [heap : Seq(TimerIds), timer : [TimerIds -> Timer \cup {Nothing}]]
  BY DEF TimersOK
<1>4. Timed(when, interval, d) \in Timer
  BY DEF Timed, Timer, Fits
<1>5. /\ timer \in [TimerIds -> Timer \cup {Nothing}]
      /\ timer[t] = Timed(when, interval, d)
      /\ \A u \in TimerIds : u # t => timer[u] = y.timer[u]
  BY <1>1, <1>3, <1>4
<1>6. key \in [TimerIds -> Int]
  BY <1>5, KeysIs
<1>7. \A u \in Used(y) : key[u] = Keys(y.timer)[u] /\ u # t
  BY <1>1, <1>5 DEF Keys, Used
<1> HIDE DEF timer, key, g, z
<1>8. InOrder(key, y.heap)
  <2>1. ASSUME NEW j \in 2 .. Len(y.heap) PROVE key[y.heap[Parent(j)]] <= key[y.heap[j]]
    <3>1. j \in 1 .. Len(y.heap) /\ Parent(j) \in 1 .. Len(y.heap)
      BY <1>3, Half
    <3>2. y.heap[j] \in Used(y) /\ y.heap[Parent(j)] \in Used(y)
      BY <3>1 DEF TimersOK, Entries
    <3>3. Keys(y.timer)[y.heap[Parent(j)]] <= Keys(y.timer)[y.heap[j]]
      BY DEF TimersOK, InOrder
    <3>4. QED
      BY <1>7, <3>2, <3>3
  <2>2. QED
    BY <2>1 DEF InOrder
<1>9. Distinct(y.heap) /\ Entries(y.heap) = Used(y) /\ t \notin Entries(y.heap)
  BY <1>1 DEF TimersOK, Used
<1>10. g \in Seq(TimerIds) /\ Distinct(g) /\ InOrder(key, g) /\ Entries(g) = Used(y) \cup {t}
  BY <1>1, <1>3, <1>6, <1>8, <1>9, Adds DEF g
<1>11. z.timer = timer /\ z.heap = g /\ z \in [heap : Seq(TimerIds), timer : [TimerIds -> Timer \cup {Nothing}]]
  BY <1>2, <1>3, <1>5, <1>10
<1>12. Used(z) = Used(y) \cup {t}
  BY <1>1, <1>4, <1>5, <1>11, NothingElse DEF Used
<1>13. OneEach(z) /\ Few(z)
  <2>1. z.timer[t].data = d /\ t \in Used(z) /\ t \notin Used(y)
    BY <1>1, <1>5, <1>11, <1>12 DEF Timed, Used
  <2>2. \A w \in Used(y) : z.timer[w].data = y.timer[w].data /\ w \in Used(z)
    BY <1>5, <1>7, <1>11, <1>12 DEF Used
  <2>3. OneEach(y) /\ Cardinality(Others(y)) <= MaxAlarms
    BY DEF TimersOK, Few
  <2>4. \A w \in Used(z) : w = t \/ w \in Used(y)
    BY <1>12
  <2>5. CASE d \in Acquires /\ Places(y, d) = {}
    <3>1. \A w \in Used(y) : y.timer[w].data # d
      BY <2>5, PlacesAre
    <3>2. d \notin Alarms
      BY <2>5, SensorsAssumption
    <3>3. OneEach(z)
      BY <2>1, <2>2, <2>3, <2>4, <3>1 DEF OneEach
    <3>4. Others(z) = Others(y)
      BY <2>1, <2>2, <2>4, <3>2 DEF Others
    <3>5. QED
      BY <2>3, <3>3, <3>4 DEF Few
  <2>6. CASE d \in Alarms /\ Cardinality(Others(y)) < MaxAlarms
    <3>1. d \notin Acquires
      BY <2>6, SensorsAssumption
    <3>2. OneEach(z)
      BY <2>1, <2>2, <2>3, <2>4, <3>1 DEF OneEach
    <3>3. Others(z) = Others(y) \cup {t} /\ t \notin Others(y)
      BY <2>1, <2>2, <2>4, <2>6 DEF Others
    <3>4. Cardinality(Others(z)) = Cardinality(Others(y)) + 1
      BY <3>3, OthersIs, FS_AddElement
    <3>5. Cardinality(Others(y)) \in Nat /\ MaxAlarms \in Nat
      BY OthersIs
    <3>6. QED
      BY <2>6, <3>2, <3>4, <3>5 DEF Few
  <2>7. QED
    BY <2>5, <2>6 DEF Fits
<1>14. TimersOK(z)
  BY <1>10, <1>11, <1>12, <1>13 DEF TimersOK, key
<1>15. z.timer = [y.timer EXCEPT ![t] = Timed(when, interval, d)]
  BY <1>11 DEF timer
<1>16. Gains(y, z, Timed(when, interval, d))
  BY <1>1, <1>15 DEF Gains
<1>17. QED
  BY <1>14, <1>16 DEF z

\* A timer that is changed stays allocated and keeps its data.
Retimed(a, b) == a = b \/ (a # Nothing /\ b # Nothing /\ b.data = a.data)

LEMMA RetimedUsed ==
    ASSUME NEW y, NEW z, \A t \in TimerIds : Retimed(y.timer[t], z.timer[t])
    PROVE  /\ Used(z) = Used(y)
           /\ \A t \in Used(y) : z.timer[t].data = y.timer[t].data
BY DEF Used, Retimed

\* disarm_by_ref_heap_timer
LEMMA Disarms ==
    ASSUME NEW y, TimersOK(y), NEW d \in Acquires
    PROVE  LET z == Disarmed(y, d)
           IN  /\ TimersOK(z)
               /\ \A t \in TimerIds : z.timer[t] = IF t \in Used(y) /\ y.timer[t].data = d
                                                   THEN [y.timer[t] EXCEPT !.armed = FALSE] ELSE y.timer[t]
<1> DEFINE z == Disarmed(y, d)
<1>1. CASE Places(y, d) = {}
  <2>1. z = y
    BY <1>1 DEF Disarmed
  <2>2. \A t \in Used(y) : y.timer[t].data # d
    BY <1>1, PlacesAre
  <2>3. QED
    BY <2>1, <2>2
<1>2. CASE Places(y, d) # {}
  <2>1. PICK i : i \in Places(y, d)
    BY <1>2
  <2> DEFINE u == y.heap[i]
             timer == [y.timer EXCEPT ![u].armed = FALSE]
  <2>2. i \in 1 .. Len(y.heap) /\ u \in Used(y) /\ y.timer[u].data = d /\ FirstPlace(y, d) = i
    BY <2>1, PlacesAre
  <2>3. z = [y EXCEPT !.timer = timer]
    BY <1>2, <2>2 DEF Disarmed
  <2> HIDE DEF u
  <2>4. y.timer \in [TimerIds -> Timer \cup {Nothing}] /\ y.heap \in Seq(TimerIds)
        /\ y \in [heap : Seq(TimerIds), timer : [TimerIds -> Timer \cup {Nothing}]]
    BY DEF TimersOK
  <2>5. u \in TimerIds /\ y.timer[u] \in Timer /\ y.timer[u] # Nothing
    BY <2>2, TimerIs
  <2>6. [y.timer[u] EXCEPT !.armed = FALSE] \in Timer
    BY <2>5 DEF Timer
  <2>7. /\ timer \in [TimerIds -> Timer \cup {Nothing}]
        /\ timer[u] = [y.timer[u] EXCEPT !.armed = FALSE]
        /\ \A t \in TimerIds : t # u => timer[t] = y.timer[t]
    BY <2>4, <2>5, <2>6
  <2> HIDE DEF timer, z
  <2>8. z.timer = timer /\ z.heap = y.heap /\ z \in [heap : Seq(TimerIds), timer : [TimerIds -> Timer \cup {Nothing}]]
    BY <2>3, <2>4, <2>7
  <2>9. timer[u].data = y.timer[u].data /\ timer[u].when = y.timer[u].when /\ timer[u] # Nothing
    BY <2>5, <2>6, <2>7, NothingElse DEF Timer
  <2>10. \A t \in TimerIds : Retimed(y.timer[t], z.timer[t])
    BY <2>5, <2>7, <2>8, <2>9 DEF Retimed
  <2>11. Used(z) = Used(y) /\ \A t \in Used(y) : z.timer[t].data = y.timer[t].data
    BY <2>10, RetimedUsed
  <2>12. Keys(z.timer) = Keys(y.timer)
    <3>1. ASSUME NEW t \in TimerIds
          PROVE  (IF timer[t] = Nothing THEN 0 ELSE timer[t].when) = (IF y.timer[t] = Nothing THEN 0 ELSE y.timer[t].when)
      BY <2>5, <2>7, <2>9
    <3>2. QED
      BY <2>8, <3>1 DEF Keys
  <2>13. TimersOK(z)
    BY <2>8, <2>11, <2>12, DataKept DEF TimersOK
  <2>14. \A t \in Used(y) : y.timer[t].data = d => t = u
    BY <2>2 DEF TimersOK, OneEach
  <2>15. QED
    BY <2>2, <2>7, <2>8, <2>13, <2>14 DEF z
<1>3. QED
  BY <1>1, <1>2

\* The time of a timer changes, and the heap is told.
LEMMA Reschedules ==
    ASSUME NEW y, TimersOK(y), NEW i \in 1 .. Len(y.heap),
           NEW b \in Timer, b.data = y.timer[y.heap[i]].data
    PROVE  LET timer == [y.timer EXCEPT ![y.heap[i]] = b]
           IN  TimersOK([y EXCEPT !.timer = timer, !.heap = UpdateNodeOnHeap(Keys(timer), y.heap, i)])
<1> DEFINE u == y.heap[i]
           timer == [y.timer EXCEPT ![u] = b]
           old == Keys(y.timer)
           key == Keys(timer)
           g == UpdateNodeOnHeap(key, y.heap, i)
           z == [y EXCEPT !.timer = timer, !.heap = g]
<1>1. y.timer \in [TimerIds -> Timer \cup {Nothing}] /\ y.heap \in Seq(TimerIds)
      /\ y \in [heap : Seq(TimerIds), timer : [TimerIds -> Timer \cup {Nothing}]]
  BY DEF TimersOK
<1>2. u \in Used(y)
  BY DEF TimersOK, Entries
<1>3. u \in TimerIds /\ y.timer[u] \in Timer /\ y.timer[u] # Nothing
  BY <1>2, TimerIs
<1> HIDE DEF u
<1>4. /\ timer \in [TimerIds -> Timer \cup {Nothing}]
      /\ timer[u] = b
      /\ \A t \in TimerIds : t # u => timer[t] = y.timer[t]
  BY <1>1, <1>3
<1>5. b # Nothing /\ b.data = y.timer[u].data
  BY NothingElse DEF u
<1> HIDE DEF timer
<1>6. key \in [TimerIds -> Int] /\ old \in [TimerIds -> Int]
  BY <1>1, <1>4, KeysIs
<1>7. \A t \in TimerIds \ {u} : key[t] = old[t]
  BY <1>4 DEF Keys
<1> HIDE DEF key, old
<1>8. InOrder(old, y.heap) /\ Distinct(y.heap) /\ Entries(y.heap) = Used(y)
  BY DEF TimersOK, old
<1>9. g \in Seq(TimerIds) /\ Same(y.heap, g) /\ InOrder(key, g)
  BY <1>1, <1>6, <1>7, <1>8, Updates DEF u
<1> HIDE DEF g
<1>10. z.timer = timer /\ z.heap = g /\ z \in [heap : Seq(TimerIds), timer : [TimerIds -> Timer \cup {Nothing}]]
  BY <1>1, <1>4, <1>9
<1> HIDE DEF z
<1>11. \A t \in TimerIds : Retimed(y.timer[t], z.timer[t])
  BY <1>3, <1>4, <1>5, <1>10 DEF Retimed
<1>12. Used(z) = Used(y) /\ \A t \in Used(y) : z.timer[t].data = y.timer[t].data
  BY <1>11, RetimedUsed
<1>13. TimersOK(z)
  BY <1>8, <1>9, <1>10, <1>12, DataKept DEF TimersOK, Same, key
<1>14. QED
  BY <1>13 DEF z, g, key, timer, u

Restarted(b, tv) == [b EXCEPT !.interval = tv, !.when = tv]

\* adjust_interval_anonymous_heap_timer_katcp
LEMMA Adjusts ==
    ASSUME NEW y, TimersOK(y), NEW d \in Acquires, NEW tv \in Nat
    PROVE  LET z == Adjusted(y, d, tv)
           IN  /\ TimersOK(z)
               /\ \A t \in TimerIds : z.timer[t] = IF t \in Used(y) /\ y.timer[t].data = d
                                                   THEN Restarted(y.timer[t], tv) ELSE y.timer[t]
<1> DEFINE z == Adjusted(y, d, tv)
<1>1. CASE Places(y, d) = {}
  <2>1. z = y
    BY <1>1 DEF Adjusted
  <2>2. \A t \in Used(y) : y.timer[t].data # d
    BY <1>1, PlacesAre
  <2>3. QED
    BY <2>1, <2>2
<1>2. CASE Places(y, d) # {}
  <2>1. PICK i : i \in Places(y, d)
    BY <1>2
  <2> DEFINE u == y.heap[i]
             b == [y.timer[u] EXCEPT !.interval = tv, !.when = tv]
             timer == [y.timer EXCEPT ![u] = b]
  <2>2. i \in 1 .. Len(y.heap) /\ u \in Used(y) /\ y.timer[u].data = d /\ FirstPlace(y, d) = i
    BY <2>1, PlacesAre
  <2>3. u \in TimerIds /\ y.timer[u] \in Timer
    BY <2>2, TimerIs
  <2>4. b \in Timer /\ b.data = y.timer[u].data
    <3>1. tv \in Int
      OBVIOUS
    <3> HIDE DEF u
    <3>2. QED
      BY <2>3, <3>1 DEF Timer
  <2>5. y.timer \in [TimerIds -> Timer \cup {Nothing}]
        /\ y \in [heap : Seq(TimerIds), timer : [TimerIds -> Timer \cup {Nothing}]]
    BY DEF TimersOK
  <2>6. [y.timer EXCEPT ![u].interval = tv, ![u].when = tv] = timer
    <3> HIDE DEF u
    <3>1. QED
      BY <2>3, <2>5
  <2>7. z = [y EXCEPT !.timer = timer, !.heap = UpdateNodeOnHeap(Keys(timer), y.heap, i)]
    BY <1>2, <2>2, <2>6 DEF Adjusted
  <2>8. TimersOK(z)
    <3> HIDE DEF b, z
    <3>1. QED
      BY <2>2, <2>4, <2>7, Reschedules
  <2>9. \A t \in Used(y) : y.timer[t].data = d => t = u
    BY <2>2 DEF TimersOK, OneEach
  <2> HIDE DEF u, b
  <2>10. /\ timer[u] = b
         /\ \A t \in TimerIds : t # u => timer[t] = y.timer[t]
    BY <2>3, <2>5
  <2>11. z.timer = timer
    BY <2>5, <2>7
  <2> HIDE DEF timer, z
  <2>12. QED
    BY <2>2, <2>8, <2>9, <2>10, <2>11 DEF b, u, z, Restarted
<1>3. QED
  BY <1>1, <1>2

\* A timer is taken off the top.
LEMMA Drops ==
    ASSUME NEW y, TimersOK(y), y.heap # << >>
    PROVE  LET z == Dropped(y)
           IN  /\ TimersOK(z) /\ Len(z.heap) = Len(y.heap) - 1
               /\ z.timer = [y.timer EXCEPT ![Head(y.heap)] = Nothing]
<1> DEFINE u == Head(y.heap)
           timer == [y.timer EXCEPT ![u] = Nothing]
           old == Keys(y.timer)
           key == Keys(timer)
           g == RemoveTopOfHeap(old, y.heap)
           z == Dropped(y)
<1>1. y.timer \in [TimerIds -> Timer \cup {Nothing}] /\ y.heap \in Seq(TimerIds)
      /\ y \in [heap : Seq(TimerIds), timer : [TimerIds -> Timer \cup {Nothing}]]
  BY DEF TimersOK
<1>2. 1 \in 1 .. Len(y.heap) /\ u = y.heap[1]
  BY <1>1
<1>3. u \in Used(y) /\ u \in TimerIds
  BY <1>2 DEF TimersOK, Entries, Used
<1>4. z = [y EXCEPT !.heap = g, !.timer = timer]
  BY DEF Dropped
<1>5. InOrder(old, y.heap) /\ Distinct(y.heap) /\ Entries(y.heap) = Used(y) /\ old \in [TimerIds -> Int]
  BY <1>1, KeysIs DEF TimersOK
<1>6. /\ g \in Seq(TimerIds) /\ Distinct(g) /\ InOrder(old, g) /\ Len(g) = Len(y.heap) - 1
      /\ Entries(g) = Used(y) \ {u}
  <2> HIDE DEF old, u
  <2>1. QED
    BY <1>1, <1>2, <1>5, RemovesTop
<1> HIDE DEF u, g
<1>7. /\ timer \in [TimerIds -> Timer \cup {Nothing}]
      /\ timer[u] = Nothing
      /\ \A t \in TimerIds : t # u => timer[t] = y.timer[t]
  BY <1>1, <1>3
<1> HIDE DEF timer, z
<1>8. z.timer = timer /\ z.heap = g /\ z \in [heap : Seq(TimerIds), timer : [TimerIds -> Timer \cup {Nothing}]]
  BY <1>1, <1>4, <1>6, <1>7
<1>9. Used(z) = Used(y) \ {u} /\ \A t \in Used(z) : z.timer[t] = y.timer[t]
  BY <1>7, <1>8 DEF Used
<1>10. \A t \in TimerIds \ {u} : key[t] = old[t]
  BY <1>7 DEF Keys
<1> HIDE DEF key, old
<1>11. InOrder(key, g)
  <2>1. ASSUME NEW j \in 2 .. Len(g) PROVE key[g[Parent(j)]] <= key[g[j]]
    <3>1. j \in 1 .. Len(g) /\ Parent(j) \in 1 .. Len(g)
      BY <1>6, Half
    <3>2. g[j] \in Entries(g) /\ g[Parent(j)] \in Entries(g)
      BY <3>1 DEF Entries
    <3>3. g[j] \in TimerIds \ {u} /\ g[Parent(j)] \in TimerIds \ {u}
      BY <1>6, <3>2 DEF Used
    <3>4. old[g[Parent(j)]] <= old[g[j]]
      BY <1>6 DEF InOrder
    <3>5. QED
      BY <1>10, <3>3, <3>4
  <2>2. QED
    BY <2>1 DEF InOrder
<1>12. TimersOK(z)
  <2>1. OneEach(z) /\ Few(z)
    BY <1>9, DataKept
  <2>2. QED
    BY <1>6, <1>8, <1>9, <1>11, <2>1 DEF TimersOK, key
<1>13. QED
  BY <1>6, <1>8, <1>12 DEF z, timer, u

\* Timers that have been disarmed are taken off the top, and only those.
OnlyDisarmed(y, z) ==
  \A t \in TimerIds : z.timer[t] = y.timer[t] \/ (t \in Used(y) /\ z.timer[t] = Nothing /\ ~y.timer[t].armed)

LEMMA Collects ==
    ASSUME NEW y, TimersOK(y)
    PROVE  LET z == Collected(y)
           IN  /\ TimersOK(z) /\ OnlyDisarmed(y, z)
               /\ IF y.heap # << >> /\ ~y.timer[Head(y.heap)].armed THEN Len(z.heap) = Len(y.heap) - 1 ELSE z = y
<1>1. y.timer \in [TimerIds -> Timer \cup {Nothing}] /\ y.heap \in Seq(TimerIds)
  BY DEF TimersOK
<1>2. CASE y.heap # << >> /\ ~y.timer[Head(y.heap)].armed
  <2> DEFINE u == Head(y.heap)
             z == Dropped(y)
  <2>1. 1 \in 1 .. Len(y.heap) /\ u = y.heap[1]
    BY <1>1, <1>2
  <2>2. u \in Used(y) /\ u \in TimerIds
    BY <2>1 DEF TimersOK, Entries, Used
  <2>3. Collected(y) = z
    BY <1>2 DEF Collected
  <2> HIDE DEF u
  <2>4. TimersOK(z) /\ Len(z.heap) = Len(y.heap) - 1 /\ z.timer = [y.timer EXCEPT ![u] = Nothing]
    BY <1>2, Drops DEF u
  <2>5. ~y.timer[u].armed
    BY <1>2 DEF u
  <2> HIDE DEF z
  <2>6. OnlyDisarmed(y, z)
    BY <1>1, <2>2, <2>4, <2>5 DEF OnlyDisarmed
  <2>7. QED
    BY <1>2, <2>3, <2>4, <2>6
<1>3. CASE ~(y.heap # << >> /\ ~y.timer[Head(y.heap)].armed)
  BY <1>3 DEF Collected, OnlyDisarmed
<1>4. QED
  BY <1>2, <1>3

LEMMA OnlyDisarmedTwice ==
    ASSUME NEW y, NEW z, NEW w, OnlyDisarmed(y, z), OnlyDisarmed(z, w)
    PROVE  OnlyDisarmed(y, w)
BY DEF OnlyDisarmed, Used

\* load_heap_timers_katcp
LEMMA Loads ==
    ASSUME NEW y, TimersOK(y)
    PROVE  LET z == Loaded(y)
           IN  /\ TimersOK(z) /\ OnlyDisarmed(y, z)
               /\ z.heap # << >> => z.timer[Head(z.heap)].armed
<1> DEFINE S == {z \in [heap : Seq(TimerIds), timer : [TimerIds -> Timer \cup {Nothing}]] : TimersOK(z)}
           N == Len(y.heap)
           IsLoad(r) == r = [n \in 0 .. N |-> IF n = 0 THEN y ELSE Collected(r[n - 1])]
           rests(z) == z.heap # << >> => z.timer[Head(z.heap)].armed
<1>1. y \in S /\ N \in Nat
  BY DEF TimersOK
<1>2. \A z \in S : Collected(z) \in S
  <2>1. ASSUME NEW z \in S PROVE TimersOK(Collected(z))
    BY Collects
  <2>2. QED
    BY <2>1 DEF TimersOK
<1> HIDE DEF S
<1>3. \E r \in [0 .. N -> S] : IsLoad(r)
  <2> DEFINE step == [t \in S |-> Collected(t)]
  <2>1. step \in [S -> S]
    BY <1>2
  <2> HIDE DEF N
  <2>2. \A t \in S : step[t] = Collected(t)
    OBVIOUS
  <2> HIDE DEF step
  <2>3a. PICK r \in [0 .. N -> S] : Steps(r, y, step, N)
    BY <1>1, <2>1, Iterates
  <2>3. r[0] = y /\ \A n \in 1 .. N : r[n] = step[r[n - 1]]
    BY <2>3a DEF Steps
  <2>4. ASSUME NEW n \in 0 .. N PROVE r[n] = IF n = 0 THEN y ELSE Collected(r[n - 1])
    <3>1. CASE n = 0
      BY <2>3, <3>1
    <3>2. CASE n # 0
      <4>1. n \in 1 .. N /\ n - 1 \in 0 .. N
        BY <1>1, <3>2
      <4>2. r[n] = step[r[n - 1]] /\ r[n - 1] \in S
        BY <2>3, <2>3a, <4>1
      <4>3. QED
        BY <2>2, <3>2, <4>2
    <3>3. QED
      BY <3>1, <3>2
  <2>5. IsLoad(r)
    BY <2>3a, <2>4
  <2>6. QED
    BY <2>3a, <2>5
<1> DEFINE r == CHOOSE f : IsLoad(f)
<1>4. Loaded(y) = r[N]
  BY Zenon DEF Loaded
<1>5. IsLoad(r)
  BY <1>3
<1> HIDE DEF r
<1>6. \A n \in 0 .. N : r[n] = IF n = 0 THEN y ELSE Collected(r[n - 1])
  BY <1>5
<1> DEFINE Good == {n \in 0 .. N : TimersOK(r[n]) /\ OnlyDisarmed(y, r[n]) /\ (rests(r[n]) \/ Len(r[n].heap) = N - n)}
<1> HIDE DEF IsLoad, rests
<1>7. 0 \in Good
  <2>1. r[0] = y /\ 0 \in 0 .. N
    BY <1>1, <1>6
  <2>2. OnlyDisarmed(y, y) /\ Len(y.heap) = N - 0
    BY <1>1 DEF OnlyDisarmed
  <2>3. QED
    BY <2>1, <2>2
<1>8. ASSUME NEW n \in Good, n < N PROVE n + 1 \in Good
  <2>range. n \in 0 .. N
    OBVIOUS
  <2>0. n \in 0 .. N /\ n + 1 \in 0 .. N /\ n + 1 # 0 /\ (n + 1) - 1 = n /\ n \in Nat
    <3> HIDE DEF Good
    <3>1. QED
      BY <1>1, <1>8, <2>range
  <2> DEFINE t == r[n]
             u == r[n + 1]
  <2>1. TimersOK(t) /\ OnlyDisarmed(y, t) /\ (rests(t) \/ Len(t.heap) = N - n)
    OBVIOUS
  <2>2. u = Collected(t)
    BY <1>6, <2>0
  <2> HIDE DEF t, u
  <2>3. /\ TimersOK(u) /\ OnlyDisarmed(t, u)
        /\ IF t.heap # << >> /\ ~t.timer[Head(t.heap)].armed THEN Len(u.heap) = Len(t.heap) - 1 ELSE u = t
    BY <2>1, <2>2, Collects
  <2>4. OnlyDisarmed(y, u)
    BY <2>1, <2>3, OnlyDisarmedTwice
  <2>5. rests(u) \/ Len(u.heap) = N - (n + 1)
    <3>1. CASE rests(t)
      BY <2>3, <3>1 DEF rests
    <3>2. CASE ~rests(t)
      <4>1. Len(u.heap) = Len(t.heap) - 1 /\ Len(t.heap) = N - n
        BY <2>1, <2>3, <3>2 DEF rests
      <4>2. QED
        BY <1>1, <2>0, <4>1
    <3>3. QED
      BY <3>1, <3>2
  <2>6. QED
    BY <2>0, <2>3, <2>4, <2>5 DEF u
<1>9. N \in Good
  <2>1. Good \in SUBSET (0 .. N)
    OBVIOUS
  <2> HIDE DEF Good
  <2>2. QED
    BY <1>1, <1>7, <1>8, <2>1, UpTo
<1>10. TimersOK(r[N]) /\ OnlyDisarmed(y, r[N]) /\ (rests(r[N]) \/ Len(r[N].heap) = 0)
  BY <1>1, <1>9
<1>11. Len(r[N].heap) = 0 => r[N].heap = << >>
  BY <1>10 DEF TimersOK
<1>12. rests(r[N])
  BY <1>10, <1>11 DEF rests
<1>13. QED
  BY <1>4, <1>10, <1>12 DEF rests

\* After a call: run_heap_timers_katcp.
LEMMA Finishes ==
    ASSUME NEW y, TimersOK(y), y.heap # << >>, y.timer[Head(y.heap)].when <= 0
    PROVE  LET z == Finished(y)
               u == Head(y.heap)
           IN  /\ TimersOK(z) /\ u \in Used(y)
               /\ \A t \in TimerIds \ {u} : z.timer[t] = y.timer[t]
               /\ IF y.timer[u].interval = 0 THEN z.timer[u] = Nothing
                  ELSE \E w \in Int : w <= y.timer[u].interval /\ z.timer[u] = [y.timer[u] EXCEPT !.when = w]
<1> DEFINE u == Head(y.heap)
           a == y.timer[u]
           next == a.when + a.interval
           w == IF next <= 0 THEN a.interval ELSE next
           b == [a EXCEPT !.when = w]
           timer == [y.timer EXCEPT ![u] = b]
           z == Finished(y)
<1>1. y.timer \in [TimerIds -> Timer \cup {Nothing}] /\ y.heap \in Seq(TimerIds)
      /\ y \in [heap : Seq(TimerIds), timer : [TimerIds -> Timer \cup {Nothing}]]
  BY DEF TimersOK
<1>2. 1 \in 1 .. Len(y.heap) /\ u = y.heap[1]
  BY <1>1
<1>3. u \in Used(y) /\ u \in TimerIds
  BY <1>2 DEF TimersOK, Entries, Used
<1>4. a \in Timer /\ a.when \in Int /\ a.interval \in Nat /\ a.when <= 0
  BY <1>3, TimerIs
<1>5. z = IF a.interval = 0 THEN Dropped(y)
          ELSE [y EXCEPT !.timer = [y.timer EXCEPT ![u].when = w],
                         !.heap = UpdateNodeOnHeap(Keys([y.timer EXCEPT ![u].when = w]), y.heap, 1)]
  BY DEF Finished
<1> HIDE DEF u
<1>6. CASE a.interval = 0
  <2>1. z = Dropped(y)
    BY <1>5, <1>6
  <2>2. TimersOK(z) /\ z.timer = [y.timer EXCEPT ![u] = Nothing]
    BY <2>1, Drops DEF u
  <2> HIDE DEF z
  <2>3. z.timer[u] = Nothing /\ \A t \in TimerIds \ {u} : z.timer[t] = y.timer[t]
    BY <1>1, <1>3, <2>2
  <2>4. QED
    BY <1>3, <1>6, <2>2, <2>3 DEF z, u
<1>7. CASE a.interval # 0
  <2>1. w \in Int /\ w <= a.interval
    <3> HIDE DEF a
    <3>1. QED
      BY <1>4
  <2> HIDE DEF w
  <2>2. b \in Timer /\ b.data = a.data
    BY <1>4, <2>1 DEF Timer
  <2>3. [y.timer EXCEPT ![u].when = w] = timer
    BY <1>1, <1>3
  <2>4. z = [y EXCEPT !.timer = timer, !.heap = UpdateNodeOnHeap(Keys(timer), y.heap, 1)]
    BY <1>5, <1>7, <2>3
  <2>5. TimersOK(z)
    <3>1. b.data = y.timer[y.heap[1]].data /\ timer = [y.timer EXCEPT ![y.heap[1]] = b]
      BY <1>2, <2>2
    <3> HIDE DEF b, z, timer
    <3>2. QED
      BY <1>2, <2>2, <2>4, <3>1, Reschedules
  <2>6. z.timer = timer
    BY <1>1, <2>4
  <2>7. timer[u] = b /\ \A t \in TimerIds \ {u} : timer[t] = y.timer[t]
    BY <1>1, <1>3
  <2> HIDE DEF z, timer
  <2>8. QED
    BY <1>3, <1>7, <2>1, <2>5, <2>6, <2>7 DEF z, u
<1>8. QED
  BY <1>6, <1>7

\* Time passes.
LEMMA Passes ==
    ASSUME NEW y, TimersOK(y)
    PROVE  LET z == [y EXCEPT !.timer = Later(@)]
           IN  /\ TimersOK(z) /\ Used(z) = Used(y)
               /\ \A t \in Used(y) : z.timer[t] = [y.timer[t] EXCEPT !.when = @ - 1]
<1> DEFINE timer == Later(y.timer)
           z == [y EXCEPT !.timer = Later(@)]
<1>1. y.timer \in [TimerIds -> Timer \cup {Nothing}] /\ y.heap \in Seq(TimerIds)
      /\ y \in [heap : Seq(TimerIds), timer : [TimerIds -> Timer \cup {Nothing}]]
  BY DEF TimersOK
<1>2. ASSUME NEW t \in Used(y)
      PROVE  /\ timer[t] = [y.timer[t] EXCEPT !.when = @ - 1] /\ timer[t] \in Timer /\ timer[t] # Nothing
             /\ timer[t].data = y.timer[t].data /\ timer[t].when = y.timer[t].when - 1 /\ t \in TimerIds
  <2>1. t \in TimerIds /\ y.timer[t] \in Timer /\ y.timer[t] # Nothing
    BY TimerIs
  <2>2. timer[t] = [y.timer[t] EXCEPT !.when = @ - 1]
    BY <2>1 DEF Later
  <2>3. timer[t] \in Timer
    BY <2>1, <2>2 DEF Timer
  <2>4. timer[t].data = y.timer[t].data /\ timer[t].when = y.timer[t].when - 1
    BY <2>1, <2>2 DEF Timer
  <2>5. QED
    BY <2>1, <2>2, <2>3, <2>4, NothingElse
<1>3. \A t \in TimerIds \ Used(y) : timer[t] = Nothing
  BY DEF Later, Used
<1>4. timer \in [TimerIds -> Timer \cup {Nothing}]
  <2>1. \A t \in TimerIds : timer[t] \in Timer \cup {Nothing}
    BY <1>2, <1>3
  <2>2. timer = [t \in TimerIds |-> timer[t]]
    BY DEF Later
  <2> HIDE DEF timer
  <2>3. QED
    BY <2>1, <2>2
<1> HIDE DEF timer
<1>5. z.timer = timer /\ z.heap = y.heap /\ z \in [heap : Seq(TimerIds), timer : [TimerIds -> Timer \cup {Nothing}]]
  BY <1>1, <1>4 DEF timer
<1> HIDE DEF z
<1>6. Used(z) = Used(y)
  BY <1>2, <1>3, <1>5 DEF Used
<1>7. InOrder(Keys(timer), y.heap)
  <2>1. ASSUME NEW t \in Used(y)
        PROVE  Keys(timer)[t] = Keys(y.timer)[t] - 1 /\ Keys(y.timer)[t] \in Int
    <3>1. t \in TimerIds /\ y.timer[t] # Nothing /\ y.timer[t].when \in Int
      BY TimerIs
    <3>2. Keys(timer)[t] = timer[t].when /\ Keys(y.timer)[t] = y.timer[t].when
      BY <1>2, <3>1 DEF Keys
    <3>3. QED
      BY <1>2, <3>1, <3>2
  <2>2. ASSUME NEW j \in 2 .. Len(y.heap) PROVE Keys(timer)[y.heap[Parent(j)]] <= Keys(timer)[y.heap[j]]
    <3>1. j \in 1 .. Len(y.heap) /\ Parent(j) \in 1 .. Len(y.heap)
      BY <1>1, Half
    <3>2. y.heap[j] \in Used(y) /\ y.heap[Parent(j)] \in Used(y)
      BY <3>1 DEF TimersOK, Entries
    <3>3. Keys(y.timer)[y.heap[Parent(j)]] <= Keys(y.timer)[y.heap[j]]
      BY DEF TimersOK, InOrder
    <3>4. QED
      BY <2>1, <3>2, <3>3
  <2>3. QED
    BY <2>2 DEF InOrder
<1>8. OneEach(z) /\ Few(z)
  <2>1. Used(z) \subseteq Used(y) /\ \A t \in Used(z) : z.timer[t].data = y.timer[t].data
    BY <1>2, <1>5, <1>6
  <2>2. QED
    BY <2>1, DataKept
<1>9. TimersOK(z)
  BY <1>5, <1>6, <1>7, <1>8 DEF TimersOK
<1>10. QED
  BY <1>2, <1>5, <1>6, <1>9 DEF z

-----------------------------------------------------------------------------
(* What the handlers keep.                                                  *)

Worlds ==
  [x : [heap : Seq(TimerIds), timer : [TimerIds -> Timer \cup {Nothing}]],
   acquire : [Acquires -> Acquire \cup {Nothing}], sensor : [Sensors -> Sensor \cup {Nothing}],
   nonsense : [Samplers -> [Sensors -> Nonsense \cup {Nothing}]]]

\* Sensors have an acquire, shadows a sensor and, if they need one, a period.
Shape(w) ==
  /\ w \in Worlds /\ TimersOK(w.x)
  /\ \A s \in Sensors : w.sensor[s] # Nothing => w.acquire[w.sensor[s].acquire] # Nothing
  /\ \A c \in Samplers, s \in Sensors : w.nonsense[c][s] # Nothing => w.sensor[s] # Nothing

NotForced(w) ==
  \A c \in Samplers, s \in Sensors : w.nonsense[c][s] # Nothing => w.nonsense[c][s].strategy # "forced"

TimersOf(w, a) == {t \in Used(w.x) : w.x.timer[t].data = a}

\* A timer of an acquire is not further away than its interval, and it runs
\* only for somebody.
TimersSound(w, a) ==
  \A t \in TimersOf(w, a) :
     /\ w.x.timer[t].when <= w.x.timer[t].interval
     /\ w.x.timer[t].armed => w.acquire[a] # Nothing /\ w.acquire[a].periodics > 0

\* Pollers are counted, and the timer follows the fastest.
Paced(w, a) ==
  /\ w.acquire[a].periodics = Cardinality(Pollers(w, a))
  /\ w.acquire[a].periodics > 0 => \A t \in TimersOf(w, a) : w.x.timer[t].interval = Shortest(w, a)

\* If nothing polls, those who wait for changes know the value.
Told(w, a) ==
  w.acquire[a].periodics = 0 /\ ~w.acquire[a].polls =>
     \A c \in Samplers, s \in LinkedTo(w, a) :
        w.nonsense[c][s] # Nothing /\ w.nonsense[c][s].strategy = "event" => w.nonsense[c][s].previous = w.acquire[a].value

AcquireOK(w, a) == TimersSound(w, a) /\ (w.acquire[a] # Nothing => Paced(w, a) /\ Told(w, a))

WorldOK(w) == Shape(w) /\ \A a \in Acquires : AcquireOK(w, a)

LEMMA ShapeIs ==
    ASSUME NEW w, Shape(w)
    PROVE  /\ w \in Worlds /\ TimersOK(w.x)
           /\ w.acquire \in [Acquires -> Acquire \cup {Nothing}]
           /\ w.sensor \in [Sensors -> Sensor \cup {Nothing}]
           /\ w.nonsense \in [Samplers -> [Sensors -> Nonsense \cup {Nothing}]]
           /\ \A a \in Acquires : w.acquire[a] # Nothing => w.acquire[a] \in Acquire
           /\ \A s \in Sensors : w.sensor[s] # Nothing =>
                 /\ w.sensor[s] \in Sensor /\ w.sensor[s].acquire \in Acquires
                 /\ w.acquire[w.sensor[s].acquire] # Nothing
           /\ \A c \in Samplers, s \in Sensors : w.nonsense[c][s] # Nothing =>
                 /\ w.nonsense[c][s] \in Nonsense /\ w.sensor[s] # Nothing
<1>1. w \in Worlds /\ TimersOK(w.x)
  BY DEF Shape
<1>2. /\ w.acquire \in [Acquires -> Acquire \cup {Nothing}]
      /\ w.sensor \in [Sensors -> Sensor \cup {Nothing}]
      /\ w.nonsense \in [Samplers -> [Sensors -> Nonsense \cup {Nothing}]]
  BY <1>1 DEF Worlds
<1>3. \A s \in Sensors : w.sensor[s] # Nothing => w.sensor[s] \in Sensor /\ w.sensor[s].acquire \in Acquires
  BY <1>2 DEF Sensor
<1>4. \A c \in Samplers, s \in Sensors : w.nonsense[c][s] # Nothing => w.nonsense[c][s] \in Nonsense
  BY <1>2
<1>5. QED
  BY <1>1, <1>2, <1>3, <1>4 DEF Shape

\* Strategies and links are the same in both.
SameShadows(w, z) ==
  /\ \A s \in Sensors : /\ z.sensor[s] = Nothing <=> w.sensor[s] = Nothing
                        /\ w.sensor[s] # Nothing => z.sensor[s].acquire = w.sensor[s].acquire
  /\ \A c \in Samplers, s \in Sensors :
        /\ z.nonsense[c][s] = Nothing <=> w.nonsense[c][s] = Nothing
        /\ w.nonsense[c][s] # Nothing => /\ z.nonsense[c][s].strategy = w.nonsense[c][s].strategy
                                         /\ z.nonsense[c][s].period = w.nonsense[c][s].period

LEMMA SameLinks ==
    ASSUME NEW w, NEW z, SameShadows(w, z), NEW a
    PROVE  LinkedTo(z, a) = LinkedTo(w, a)
BY DEF SameShadows, LinkedTo

LEMMA SamePollers ==
    ASSUME NEW w, NEW z, NEW a, LinkedTo(z, a) = LinkedTo(w, a), z.acquire[a].polls = w.acquire[a].polls,
           \A c \in Samplers, s \in LinkedTo(w, a) :
              /\ z.nonsense[c][s] = Nothing <=> w.nonsense[c][s] = Nothing
              /\ w.nonsense[c][s] # Nothing => /\ z.nonsense[c][s].strategy = w.nonsense[c][s].strategy
                                               /\ z.nonsense[c][s].period = w.nonsense[c][s].period
    PROVE  Pollers(z, a) = Pollers(w, a) /\ Shortest(z, a) = Shortest(w, a)
<1> DEFINE polls(v, p) ==
             LET ns == v.nonsense[p[1]][p[2]]
             IN  ns # Nothing /\ (ns.strategy = "period" \/ (ns.strategy = "event" /\ v.acquire[a].polls))
           periods(v) == {v.nonsense[p[1]][p[2]].period : p \in Pollers(v, a)}
<1>1. \A p \in Samplers \X LinkedTo(w, a) : polls(z, p) <=> polls(w, p)
  BY Zenon
<1>2. Pollers(z, a) = Pollers(w, a)
  <2>1. Pollers(z, a) = {p \in Samplers \X LinkedTo(w, a) : polls(z, p)}
    BY DEF Pollers
  <2>2. Pollers(w, a) = {p \in Samplers \X LinkedTo(w, a) : polls(w, p)}
    BY DEF Pollers
  <2> HIDE DEF polls
  <2>3. QED
    BY <1>1, <2>1, <2>2
<1>3. \A p \in Pollers(w, a) : z.nonsense[p[1]][p[2]].period = w.nonsense[p[1]][p[2]].period
  BY Zenon DEF Pollers
<1>4. periods(z) = periods(w)
  BY <1>2, <1>3
<1>5. Shortest(z, a) = Shortest(w, a)
  BY <1>4 DEF Shortest
<1>6. QED
  BY <1>2, <1>5

LEMMA PollersAre ==
    ASSUME NEW w, Shape(w), NEW a \in Acquires
    PROVE  /\ Cardinality(Pollers(w, a)) \in Nat
           /\ Cardinality(Pollers(w, a)) > 0 <=> Pollers(w, a) # {}
           /\ \A p \in Pollers(w, a) : p \in Samplers \X LinkedTo(w, a) /\ w.nonsense[p[1]][p[2]] \in Nonsense
           /\ Pollers(w, a) # {} => /\ Shortest(w, a) \in Nat
                                    /\ \E p \in Pollers(w, a) : Shortest(w, a) = w.nonsense[p[1]][p[2]].period
                                    /\ \A p \in Pollers(w, a) : Shortest(w, a) <= w.nonsense[p[1]][p[2]].period
<1>1. LinkedTo(w, a) \subseteq Sensors
  BY DEF LinkedTo
<1>2. IsFiniteSet(Samplers \X Sensors)
  BY SensorsAssumption, FS_Product
<1>3. Pollers(w, a) \subseteq Samplers \X Sensors /\ \A p \in Pollers(w, a) : p \in Samplers \X LinkedTo(w, a) /\ w.nonsense[p[1]][p[2]] # Nothing
  BY <1>1 DEF Pollers
<1>4. IsFiniteSet(Pollers(w, a))
  BY <1>2, <1>3, FS_Subset
<1>5. Cardinality(Pollers(w, a)) \in Nat /\ (Cardinality(Pollers(w, a)) = 0 <=> Pollers(w, a) = {})
  BY <1>4, FS_CardinalityType, FS_EmptySet
<1>6. \A p \in Pollers(w, a) : w.nonsense[p[1]][p[2]] \in Nonsense
  <2>1. ASSUME NEW p \in Pollers(w, a) PROVE w.nonsense[p[1]][p[2]] \in Nonsense
    <3>1. p[1] \in Samplers /\ p[2] \in Sensors /\ w.nonsense[p[1]][p[2]] # Nothing
      BY <1>1, <1>3
    <3>2. QED
      BY <3>1, ShapeIs
  <2>2. QED
    BY <2>1
<1> DEFINE periods == {w.nonsense[p[1]][p[2]].period : p \in Pollers(w, a)}
<1>7. ASSUME Pollers(w, a) # {}
      PROVE  /\ Shortest(w, a) \in Nat
             /\ \E p \in Pollers(w, a) : Shortest(w, a) = w.nonsense[p[1]][p[2]].period
             /\ \A p \in Pollers(w, a) : Shortest(w, a) <= w.nonsense[p[1]][p[2]].period
  <2>1. periods \in SUBSET Nat /\ periods # {}
    BY <1>6, <1>7 DEF Nonsense
  <2>2. Shortest(w, a) = CHOOSE t \in periods : \A u \in periods : t <= u
    BY DEF Shortest
  <2> HIDE DEF periods
  <2>3. \E t \in periods : \A u \in periods : t <= u
    BY <2>1, Least
  <2>4. Shortest(w, a) \in periods /\ \A u \in periods : Shortest(w, a) <= u
    BY <2>2, <2>3
  <2>5. QED
    BY <2>1, <2>4 DEF periods
<1>8. QED
  BY <1>3, <1>5, <1>6, <1>7

-----------------------------------------------------------------------------
(* An acquire that keeps what it has counted.                               *)

SameShadow(n, m) ==
  /\ m = Nothing <=> n = Nothing
  /\ n # Nothing => m.strategy = n.strategy /\ m.period = n.period

\* To acquire b the two worlds are the same, but for values.
SameFor(w, z, b) ==
  /\ LinkedTo(z, b) = LinkedTo(w, b)
  /\ z.acquire[b] = Nothing <=> w.acquire[b] = Nothing
  /\ w.acquire[b] # Nothing => /\ z.acquire[b].polls = w.acquire[b].polls
                               /\ z.acquire[b].periodics = w.acquire[b].periodics
  /\ \A c \in Samplers, s \in LinkedTo(w, b) : SameShadow(w.nonsense[c][s], z.nonsense[c][s])

\* Its timer was there, and has not been armed or put off.
Slower(y, z, b) ==
  \A t \in Used(z) : z.timer[t].data = b =>
     /\ t \in Used(y) /\ y.timer[t].data = b
     /\ z.timer[t].interval = y.timer[t].interval
     /\ z.timer[t].armed => y.timer[t].armed
     /\ y.timer[t].when <= y.timer[t].interval => z.timer[t].when <= z.timer[t].interval

\* Who waits for changes is told, unless there is none.
Retold(w, z, b) ==
  \A c \in Samplers, s \in LinkedTo(w, b) :
     w.nonsense[c][s] # Nothing /\ w.nonsense[c][s].strategy = "event" =>
        \/ z.nonsense[c][s].previous = z.acquire[b].value
        \/ /\ z.nonsense[c][s].previous = w.nonsense[c][s].previous
           /\ z.acquire[b].value = w.acquire[b].value \/ z.acquire[b].polls

LEMMA SlowerSelf == \A y, b : Slower(y, y, b)
BY DEF Slower

LEMMA Keeps ==
    ASSUME NEW w, NEW z, NEW b, SameFor(w, z, b), Slower(w.x, z.x, b)
    PROVE  /\ TimersSound(w, b) => TimersSound(z, b)
           /\ w.acquire[b] # Nothing /\ Paced(w, b) => Paced(z, b)
           /\ w.acquire[b] # Nothing /\ Told(w, b) /\ Retold(w, z, b) => Told(z, b)
<1>1. \A t \in TimersOf(z, b) :
        /\ t \in TimersOf(w, b)
        /\ z.x.timer[t].interval = w.x.timer[t].interval
        /\ z.x.timer[t].armed => w.x.timer[t].armed
        /\ w.x.timer[t].when <= w.x.timer[t].interval => z.x.timer[t].when <= z.x.timer[t].interval
  BY DEF TimersOf, Slower
<1>2. TimersSound(w, b) => TimersSound(z, b)
  <2>1. SUFFICES ASSUME TimersSound(w, b), NEW t \in TimersOf(z, b)
                 PROVE  /\ z.x.timer[t].when <= z.x.timer[t].interval
                        /\ z.x.timer[t].armed => z.acquire[b] # Nothing /\ z.acquire[b].periodics > 0
    BY DEF TimersSound
  <2>2. /\ w.x.timer[t].when <= w.x.timer[t].interval
        /\ w.x.timer[t].armed => w.acquire[b] # Nothing /\ w.acquire[b].periodics > 0
    BY <1>1, <2>1 DEF TimersSound
  <2>3. w.acquire[b] # Nothing => z.acquire[b] # Nothing /\ z.acquire[b].periodics = w.acquire[b].periodics
    BY DEF SameFor
  <2>4. QED
    BY <1>1, <2>2, <2>3
<1>3. ASSUME w.acquire[b] # Nothing, Paced(w, b) PROVE Paced(z, b)
  <2>1. \A c \in Samplers, s \in LinkedTo(w, b) :
           /\ z.nonsense[c][s] = Nothing <=> w.nonsense[c][s] = Nothing
           /\ w.nonsense[c][s] # Nothing => /\ z.nonsense[c][s].strategy = w.nonsense[c][s].strategy
                                            /\ z.nonsense[c][s].period = w.nonsense[c][s].period
    BY DEF SameFor, SameShadow
  <2>2. z.acquire[b].polls = w.acquire[b].polls /\ z.acquire[b].periodics = w.acquire[b].periodics
        /\ LinkedTo(z, b) = LinkedTo(w, b)
    BY <1>3 DEF SameFor
  <2>3. Pollers(z, b) = Pollers(w, b) /\ Shortest(z, b) = Shortest(w, b)
    BY <2>1, <2>2, SamePollers
  <2>4. QED
    BY <1>1, <1>3, <2>2, <2>3 DEF Paced
<1>4. ASSUME w.acquire[b] # Nothing, Told(w, b), Retold(w, z, b) PROVE Told(z, b)
  <2>1. SUFFICES ASSUME z.acquire[b].periodics = 0, ~z.acquire[b].polls,
                        NEW c \in Samplers, NEW s \in LinkedTo(z, b),
                        z.nonsense[c][s] # Nothing, z.nonsense[c][s].strategy = "event"
                 PROVE  z.nonsense[c][s].previous = z.acquire[b].value
    BY DEF Told
  <2>2. s \in LinkedTo(w, b) /\ w.acquire[b].periodics = 0 /\ ~w.acquire[b].polls
    BY <1>4, <2>1 DEF SameFor
  <2>3. SameShadow(w.nonsense[c][s], z.nonsense[c][s])
    BY <2>2 DEF SameFor
  <2>4. w.nonsense[c][s] # Nothing /\ w.nonsense[c][s].strategy = "event"
    BY <2>1, <2>3 DEF SameShadow
  <2>5. w.nonsense[c][s].previous = w.acquire[b].value
    BY <1>4, <2>2, <2>4 DEF Told
  <2>6. \/ z.nonsense[c][s].previous = z.acquire[b].value
        \/ /\ z.nonsense[c][s].previous = w.nonsense[c][s].previous
           /\ z.acquire[b].value = w.acquire[b].value \/ z.acquire[b].polls
    BY <1>4, <2>2, <2>4 DEF Retold
  <2>7. QED
    BY <2>1, <2>5, <2>6
<1>5. QED
  BY <1>2, <1>3, <1>4

LEMMA KeepsOK ==
    ASSUME NEW w, NEW z, NEW b, SameFor(w, z, b), Slower(w.x, z.x, b), Retold(w, z, b), AcquireOK(w, b)
    PROVE  AcquireOK(z, b)
BY Keeps DEF AcquireOK, SameFor

\* Nothing that b sees has changed but, at most, its timer.
Unseen(w, z, b) ==
  /\ LinkedTo(z, b) = LinkedTo(w, b) /\ z.acquire[b] = w.acquire[b]
  /\ \A c \in Samplers, s \in LinkedTo(w, b) : z.nonsense[c][s] = w.nonsense[c][s]

LEMMA KeepsUnseen ==
    ASSUME NEW w, NEW z, NEW b, Unseen(w, z, b), Slower(w.x, z.x, b)
    PROVE  /\ SameFor(w, z, b) /\ Retold(w, z, b)
           /\ AcquireOK(w, b) => AcquireOK(z, b)
           /\ Paced(w, b) /\ w.acquire[b] # Nothing => Paced(z, b)
<1>1. SameFor(w, z, b)
  BY DEF Unseen, SameFor, SameShadow
<1>2. Retold(w, z, b)
  BY DEF Unseen, Retold
<1>3. QED
  BY <1>1, <1>2, Keeps, KeepsOK

-----------------------------------------------------------------------------
(* Values on their way to the clients.                                      *)

\* Shadows that wait for changes have been told the value of a, others are
\* left alone.
Passed(w, z, a) ==
  /\ z.x = w.x /\ z.acquire = w.acquire /\ SameShadows(w, z)
  /\ \A c \in Samplers, s \in Sensors :
        w.nonsense[c][s] # Nothing =>
           IF s \in LinkedTo(w, a) /\ w.nonsense[c][s].strategy = "event"
           THEN z.nonsense[c][s].previous = w.acquire[a].value ELSE z.nonsense[c][s] = w.nonsense[c][s]

LEMMA Propagates ==
    ASSUME NEW w, Shape(w), NEW a \in Acquires, w.acquire[a] # Nothing
    PROVE  LET z == Propagated(w, a) IN Shape(z) /\ Passed(w, z, a)
<1> DEFINE v == w.acquire[a].value
           sensors == [s \in Sensors |-> IF s \in LinkedTo(w, a) THEN Extracted(w.sensor[s], v) ELSE w.sensor[s]]
           shadows == [c \in Samplers |-> [s \in Sensors |->
                          IF s \in LinkedTo(w, a) /\ w.nonsense[c][s] # Nothing
                          THEN Checked(w.nonsense[c][s], sensors[s]) ELSE w.nonsense[c][s]]]
           z == Propagated(w, a)
<1>1. z = [w EXCEPT !.sensor = sensors, !.nonsense = shadows]
  BY DEF Propagated
<1>2. /\ w \in Worlds /\ TimersOK(w.x)
      /\ w.acquire[a] \in Acquire
      /\ w.sensor \in [Sensors -> Sensor \cup {Nothing}]
      /\ w.nonsense \in [Samplers -> [Sensors -> Nonsense \cup {Nothing}]]
  BY ShapeIs
<1>3. v \in Values
  BY <1>2 DEF Acquire
<1> HIDE DEF v
<1>4. ASSUME NEW s \in LinkedTo(w, a)
      PROVE  /\ s \in Sensors /\ w.sensor[s] # Nothing /\ sensors[s] \in Sensor
             /\ sensors[s].acquire = w.sensor[s].acquire /\ sensors[s].current = v
             /\ sensors[s] # Nothing
  <2>1. s \in Sensors /\ w.sensor[s] # Nothing
    BY DEF LinkedTo
  <2>2. w.sensor[s] \in Sensor
    BY <2>1, ShapeIs
  <2>3. sensors[s] = [w.sensor[s] EXCEPT !.current = v]
    BY <2>1 DEF Extracted
  <2> HIDE DEF sensors
  <2>4. sensors[s] \in Sensor
    BY <1>3, <2>2, <2>3 DEF Sensor
  <2>5. sensors[s].acquire = w.sensor[s].acquire /\ sensors[s].current = v
    BY <2>2, <2>3 DEF Sensor
  <2>6. QED
    BY <2>1, <2>4, <2>5, NothingElse
<1>5. \A s \in Sensors : s \notin LinkedTo(w, a) => sensors[s] = w.sensor[s]
  OBVIOUS
<1>6. sensors \in [Sensors -> Sensor \cup {Nothing}]
  <2>1. \A s \in Sensors : sensors[s] \in Sensor \cup {Nothing}
    BY <1>2, <1>4, <1>5
  <2>2. sensors = [s \in Sensors |-> sensors[s]]
    OBVIOUS
  <2> HIDE DEF sensors
  <2>3. QED
    BY <2>1, <2>2
<1>7. ASSUME NEW c \in Samplers, NEW s \in Sensors, w.nonsense[c][s] # Nothing
      PROVE  /\ shadows[c][s] \in Nonsense /\ shadows[c][s] # Nothing
             /\ shadows[c][s].strategy = w.nonsense[c][s].strategy /\ shadows[c][s].period = w.nonsense[c][s].period
             /\ IF s \in LinkedTo(w, a) /\ w.nonsense[c][s].strategy = "event"
                THEN shadows[c][s].previous = v ELSE shadows[c][s] = w.nonsense[c][s]
  <2> DEFINE ns == w.nonsense[c][s]
             ms == shadows[c][s]
  <2>1. ns \in Nonsense /\ ns # Nothing
    BY <1>7, ShapeIs
  <2>2. ms = IF s \in LinkedTo(w, a) THEN Checked(ns, sensors[s]) ELSE ns
    BY <1>7
  <2>3. s \in LinkedTo(w, a) => sensors[s].current = v
    BY <1>4
  <2> HIDE DEF ns, ms, sensors, shadows
  <2>4. ms = IF s \in LinkedTo(w, a) /\ ns.strategy = "event" THEN [ns EXCEPT !.previous = v] ELSE ns
    BY <2>2, <2>3 DEF Checked
  <2>5. [ns EXCEPT !.previous = v] \in Nonsense /\ [ns EXCEPT !.previous = v].previous = v
        /\ [ns EXCEPT !.previous = v].strategy = ns.strategy /\ [ns EXCEPT !.previous = v].period = ns.period
    BY <1>3, <2>1 DEF Nonsense
  <2>6. QED
    BY <2>1, <2>4, <2>5, NothingElse DEF ns, ms
<1>8. ASSUME NEW c \in Samplers, NEW s \in Sensors, w.nonsense[c][s] = Nothing PROVE shadows[c][s] = Nothing
  BY <1>8
<1>9. shadows \in [Samplers -> [Sensors -> Nonsense \cup {Nothing}]]
  <2>1. \A c \in Samplers, s \in Sensors : shadows[c][s] \in Nonsense \cup {Nothing}
    BY <1>7, <1>8
  <2>2. shadows = [c \in Samplers |-> [s \in Sensors |-> shadows[c][s]]]
    OBVIOUS
  <2> HIDE DEF shadows
  <2>3. QED
    BY <2>1, <2>2
<1> HIDE DEF sensors, shadows, z
<1>10. z.x = w.x /\ z.acquire = w.acquire /\ z.sensor = sensors /\ z.nonsense = shadows /\ z \in Worlds
  BY <1>1, <1>2, <1>6, <1>9 DEF Worlds
<1>11. SameShadows(w, z)
  BY <1>4, <1>5, <1>7, <1>8, <1>10 DEF SameShadows
<1>12. Passed(w, z, a)
  BY <1>7, <1>10, <1>11 DEF Passed, v
<1>13. Shape(z)
  <2>1. ASSUME NEW s \in Sensors, z.sensor[s] # Nothing PROVE z.acquire[z.sensor[s].acquire] # Nothing
    BY <1>10, <1>11, <2>1 DEF Shape, SameShadows
  <2>2. ASSUME NEW c \in Samplers, NEW s \in Sensors, z.nonsense[c][s] # Nothing PROVE z.sensor[s] # Nothing
    BY <1>10, <1>11, <2>2 DEF Shape, SameShadows
  <2>3. QED
    BY <1>2, <1>10, <2>1, <2>2 DEF Shape
<1>14. QED
  BY <1>12, <1>13 DEF z

LEMMA PassedKeeps ==
    ASSUME NEW w, NEW z, NEW a \in Acquires, Passed(w, z, a), NEW b \in Acquires, Shape(w)
    PROVE  /\ SameFor(w, z, b) /\ Slower(w.x, z.x, b)
           /\ Retold(w, z, b)
           /\ Told(z, a)
<1>1. LinkedTo(z, b) = LinkedTo(w, b) /\ LinkedTo(z, a) = LinkedTo(w, a)
  BY SameLinks DEF Passed
<1>2. LinkedTo(w, b) \subseteq Sensors /\ LinkedTo(w, a) \subseteq Sensors
  BY DEF LinkedTo
<1>3. \A c \in Samplers, s \in Sensors : SameShadow(w.nonsense[c][s], z.nonsense[c][s])
  BY DEF Passed, SameShadows, SameShadow
<1>4. SameFor(w, z, b)
  BY <1>1, <1>2, <1>3 DEF SameFor, Passed
<1>5. Slower(w.x, z.x, b)
  BY SlowerSelf DEF Passed
<1>6. \A c \in Samplers, s \in LinkedTo(w, a) : w.nonsense[c][s] # Nothing /\ w.nonsense[c][s].strategy = "event" =>
         z.nonsense[c][s].previous = z.acquire[a].value
  BY <1>2 DEF Passed
<1>7. Told(z, a)
  <2>1. ASSUME NEW c \in Samplers, NEW s \in LinkedTo(z, a), z.nonsense[c][s] # Nothing, z.nonsense[c][s].strategy = "event"
        PROVE  z.nonsense[c][s].previous = z.acquire[a].value
    <3>1. w.nonsense[c][s] # Nothing /\ w.nonsense[c][s].strategy = "event" /\ s \in LinkedTo(w, a)
      BY <1>1, <1>2, <1>3, <2>1 DEF SameShadow
    <3>2. QED
      BY <1>6, <3>1
  <2>2. QED
    BY <2>1 DEF Told
<1>8. Retold(w, z, b)
  <2>1. SUFFICES ASSUME NEW c \in Samplers, NEW s \in LinkedTo(w, b), w.nonsense[c][s] # Nothing, w.nonsense[c][s].strategy = "event"
                 PROVE  \/ z.nonsense[c][s].previous = z.acquire[b].value
                        \/ /\ z.nonsense[c][s].previous = w.nonsense[c][s].previous
                           /\ z.acquire[b].value = w.acquire[b].value \/ z.acquire[b].polls
    BY DEF Retold
  <2>2. CASE s \in LinkedTo(w, a)
    <3>1. a = b
      BY <2>2 DEF LinkedTo
    <3>2. QED
      BY <1>6, <2>1, <2>2, <3>1
  <2>3. CASE s \notin LinkedTo(w, a)
    <3>1. s \in Sensors
      BY <1>2
    <3>2. z.nonsense[c][s] = w.nonsense[c][s] /\ z.acquire = w.acquire
      BY <2>1, <2>3, <3>1 DEF Passed
    <3>3. QED
      BY <3>2
  <2>4. QED
    BY <2>2, <2>3
<1>9. QED
  BY <1>4, <1>5, <1>7, <1>8

\* An acquire is updated, and timers change.
With(w, a, b, y) == [w EXCEPT !.x = y, !.acquire = [w.acquire EXCEPT ![a] = b]]

LEMMA Withs ==
    ASSUME NEW w, Shape(w), NEW a \in Acquires, NEW b \in Acquire, NEW y, TimersOK(y)
    PROVE  LET z == With(w, a, b, y)
           IN  /\ Shape(z) /\ z.x = y /\ z.sensor = w.sensor /\ z.nonsense = w.nonsense
               /\ z.acquire[a] = b /\ b # Nothing
               /\ \A c \in Acquires : c # a => z.acquire[c] = w.acquire[c]
               /\ \A c \in Acquires : LinkedTo(z, c) = LinkedTo(w, c)
               /\ SameShadows(w, z)
               /\ \A c \in Acquires : c # a => Unseen(w, z, c)
<1> DEFINE acq == [w.acquire EXCEPT ![a] = b]
           z == With(w, a, b, y)
<1>1. w \in Worlds /\ w.acquire \in [Acquires -> Acquire \cup {Nothing}] /\ b # Nothing
  BY ShapeIs, NothingElse
<1>2. acq \in [Acquires -> Acquire \cup {Nothing}] /\ acq[a] = b /\ \A c \in Acquires : c # a => acq[c] = w.acquire[c]
  BY <1>1
<1>3. y \in [heap : Seq(TimerIds), timer : [TimerIds -> Timer \cup {Nothing}]]
  BY DEF TimersOK
<1> HIDE DEF acq
<1>4. z \in Worlds /\ z.x = y /\ z.acquire = acq /\ z.sensor = w.sensor /\ z.nonsense = w.nonsense
  BY <1>1, <1>2, <1>3 DEF Worlds, With, acq
<1> HIDE DEF z
<1>5. \A c \in Acquires : w.acquire[c] # Nothing => z.acquire[c] # Nothing
  BY <1>1, <1>2, <1>4
<1>6. Shape(z)
  <2>1. ASSUME NEW s \in Sensors, z.sensor[s] # Nothing PROVE z.acquire[z.sensor[s].acquire] # Nothing
    <3>1. w.sensor[s] # Nothing /\ w.sensor[s].acquire \in Acquires /\ w.acquire[w.sensor[s].acquire] # Nothing
      BY <1>4, <2>1, ShapeIs
    <3>2. QED
      BY <1>4, <1>5, <3>1
  <2>2. \A c \in Samplers, s \in Sensors : z.nonsense[c][s] # Nothing => z.sensor[s] # Nothing
    BY <1>4, ShapeIs
  <2>3. QED
    BY <1>4, <2>1, <2>2 DEF Shape
<1>7. \A c \in Acquires : LinkedTo(z, c) = LinkedTo(w, c)
  BY <1>4 DEF LinkedTo
<1>8. SameShadows(w, z)
  BY <1>4 DEF SameShadows
<1>9. \A c \in Acquires : c # a => Unseen(w, z, c)
  BY <1>2, <1>4, <1>7 DEF Unseen
<1>10. QED
  BY <1>1, <1>2, <1>4, <1>6, <1>7, <1>8, <1>9 DEF z

\* An acquire has run: its value may have changed, if it is one that polls.
Ran(w, z) ==
  \A b \in Acquires :
     /\ SameFor(w, z, b)
     /\ w.acquire[b] # Nothing => z.acquire[b].value = w.acquire[b].value \/ z.acquire[b].polls

LEMMA Runs ==
    ASSUME NEW w, Shape(w), NEW a \in Acquires, w.acquire[a] # Nothing, NEW value \in Values
    PROVE  LET z == RunAcquire(w, a, value)
           IN  /\ Shape(z) /\ z.x = w.x /\ SameShadows(w, z) /\ Ran(w, z)
               /\ \A b \in Acquires : w.acquire[b] # Nothing => Retold(w, z, b)
               /\ \A c \in Samplers, s \in Sensors :
                     w.nonsense[c][s] # Nothing /\ w.nonsense[c][s].strategy # "event" => z.nonsense[c][s] = w.nonsense[c][s]
<1> DEFINE ac == w.acquire[a]
           polls == ac.polls /\ ~ac.recent
           b == [ac EXCEPT !.value = IF polls THEN value ELSE @, !.recent = TRUE]
           u == With(w, a, b, w.x)
           z == RunAcquire(w, a, value)
<1>1. ac \in Acquire /\ w.acquire \in [Acquires -> Acquire \cup {Nothing}] /\ w \in Worlds /\ TimersOK(w.x)
  BY ShapeIs
<1>2. [w EXCEPT !.acquire[a].value = IF polls THEN value ELSE @, !.acquire[a].recent = TRUE] = u
  <2> HIDE DEF polls
  <2>1. QED
    BY <1>1 DEF With, Worlds
<1>3. z = Propagated(u, a)
  BY <1>2 DEF RunAcquire
<1>4. b \in Acquire /\ b.polls = ac.polls /\ b.periodics = ac.periodics /\ (b.value = ac.value \/ b.polls)
  <2> HIDE DEF ac
  <2>1. CASE polls
    <3>1. b = [ac EXCEPT !.value = value, !.recent = TRUE]
      BY <1>1, <2>1 DEF Acquire
    <3>2. QED
      BY <1>1, <2>1, <3>1 DEF Acquire
  <2>2. CASE ~polls
    <3>1. b = [ac EXCEPT !.recent = TRUE]
      BY <1>1, <2>2 DEF Acquire
    <3>2. QED
      BY <1>1, <2>2, <3>1 DEF Acquire
  <2>3. QED
    BY <2>1, <2>2
<1> HIDE DEF b, u, z
<1>5. /\ Shape(u) /\ u.x = w.x /\ u.sensor = w.sensor /\ u.nonsense = w.nonsense
      /\ u.acquire[a] = b /\ b # Nothing
      /\ \A c \in Acquires : c # a => u.acquire[c] = w.acquire[c]
      /\ \A c \in Acquires : LinkedTo(u, c) = LinkedTo(w, c)
  BY <1>1, <1>4, Withs DEF u
<1>6. Shape(z) /\ Passed(u, z, a)
  BY <1>3, <1>5, Propagates
<1>7. z.x = u.x /\ z.acquire = u.acquire /\ SameShadows(u, z)
  BY <1>6 DEF Passed
<1>8. \A c \in Acquires : LinkedTo(z, c) = LinkedTo(u, c)
  BY <1>7, SameLinks
<1>9. SameShadows(w, z)
  BY <1>5, <1>7 DEF SameShadows
<1>10. ASSUME NEW c \in Acquires
       PROVE  /\ SameFor(w, z, c)
              /\ w.acquire[c] # Nothing => z.acquire[c].value = w.acquire[c].value \/ z.acquire[c].polls
  <2>1. SameFor(u, z, c)
    BY <1>5, <1>6, PassedKeeps
  <2>2. CASE c = a
    <3>1. z.acquire[c] = b
      BY <1>5, <1>7, <2>2
    <3>2. QED
      BY <1>4, <1>5, <2>1, <2>2, <3>1 DEF SameFor
  <2>3. CASE c # a
    <3>1. z.acquire[c] = w.acquire[c]
      BY <1>5, <1>7, <2>3
    <3>2. QED
      BY <1>5, <2>1, <3>1 DEF SameFor
  <2>4. QED
    BY <2>2, <2>3
<1>11. ASSUME NEW c \in Acquires, w.acquire[c] # Nothing PROVE Retold(w, z, c)
  <2>1. Retold(u, z, c)
    BY <1>5, <1>6, PassedKeeps
  <2>2. ASSUME NEW d \in Samplers, NEW s \in LinkedTo(w, c), w.nonsense[d][s] # Nothing, w.nonsense[d][s].strategy = "event"
        PROVE  \/ z.nonsense[d][s].previous = z.acquire[c].value
               \/ /\ z.nonsense[d][s].previous = w.nonsense[d][s].previous
                  /\ z.acquire[c].value = w.acquire[c].value \/ z.acquire[c].polls
    <3>1. z.nonsense[d][s].previous = z.acquire[c].value \/ z.nonsense[d][s].previous = u.nonsense[d][s].previous
      BY <1>5, <2>1, <2>2 DEF Retold
    <3>2. z.acquire[c].value = w.acquire[c].value \/ z.acquire[c].polls
      BY <1>10, <1>11
    <3>3. QED
      BY <1>5, <3>1, <3>2
  <2>3. QED
    BY <2>2 DEF Retold
<1>12. ASSUME NEW c \in Samplers, NEW s \in Sensors, w.nonsense[c][s] # Nothing, w.nonsense[c][s].strategy # "event"
       PROVE  z.nonsense[c][s] = w.nonsense[c][s]
  BY <1>5, <1>6, <1>12 DEF Passed
<1>13. Ran(w, z)
  BY <1>10 DEF Ran
<1>14. QED
  BY <1>5, <1>6, <1>7, <1>9, <1>11, <1>12, <1>13 DEF z

\* An acquire that runs leaves all as it should be.
LEMMA RunsOK ==
    ASSUME NEW w, WorldOK(w), NEW a \in Acquires, w.acquire[a] # Nothing, NEW value \in Values
    PROVE  LET z == RunAcquire(w, a, value) IN WorldOK(z) /\ z.x = w.x /\ SameShadows(w, z)
<1> DEFINE z == RunAcquire(w, a, value)
<1>1. Shape(w)
  BY DEF WorldOK
<1>2. /\ Shape(z) /\ z.x = w.x /\ SameShadows(w, z) /\ Ran(w, z)
      /\ \A b \in Acquires : w.acquire[b] # Nothing => Retold(w, z, b)
  BY <1>1, Runs
<1> HIDE DEF z
<1>3. ASSUME NEW b \in Acquires PROVE AcquireOK(z, b)
  <2>1. SameFor(w, z, b) /\ Slower(w.x, z.x, b) /\ AcquireOK(w, b)
    BY <1>2, SlowerSelf DEF Ran, WorldOK
  <2>2. w.acquire[b] # Nothing => Retold(w, z, b)
    BY <1>2
  <2>3. QED
    BY <2>1, <2>2, Keeps DEF AcquireOK, SameFor
<1>4. QED
  BY <1>2, <1>3 DEF WorldOK, z

-----------------------------------------------------------------------------
(* reload_sensor_katcp.                                                     *)

\* What it does to the timers: those that are armed were, and are due when
\* they were, but for the one of the acquire.
Renewed(w, y, a) ==
  \A t \in Used(y) : y.timer[t].armed =>
     \/ t \in Used(w.x) /\ w.x.timer[t].armed /\ y.timer[t].when = w.x.timer[t].when
     \/ /\ Pollers(w, a) # {} /\ y.timer[t].when = Shortest(w, a)
        /\ Places(w.x, a) = {} \/ (t \in Used(w.x) /\ w.x.timer[t].armed /\ w.x.timer[t].data = a)

\* The timer of an acquire that polls.
LEMMA ReloadsTimer ==
    ASSUME NEW w, Shape(w), NEW a \in Acquires, Pollers(w, a) # {}
    PROVE  LET S == Shortest(w, a)
               y == IF Places(w.x, a) = {} THEN RegisterEvery(w.x, a, S) ELSE Adjusted(w.x, a, S)
           IN  /\ TimersOK(y) /\ Renewed(w, y, a)
               /\ \A t \in Used(y) : y.timer[t].data = a => y.timer[t].when = S /\ y.timer[t].interval = S
               /\ \A b \in Acquires : b # a => Slower(w.x, y, b)
<1> DEFINE S == Shortest(w, a)
           y == IF Places(w.x, a) = {} THEN RegisterEvery(w.x, a, S) ELSE Adjusted(w.x, a, S)
<1>1. S \in Nat /\ S \in Int /\ TimersOK(w.x)
  <2>1. S \in Nat
    BY PollersAre
  <2> HIDE DEF S
  <2>2. QED
    BY <2>1, ShapeIs
<1>2. CASE Places(w.x, a) = {}
  <2>1. y = Registered(w.x, a, S, S)
    BY <1>2 DEF RegisterEvery
  <2> HIDE DEF S, y
  <2>fits. Fits(w.x, a)
    BY <1>2 DEF Fits
  <2>2. TimersOK(y) /\ Gains(w.x, y, Timed(S, S, a))
    BY <1>1, <2>fits, <2>1, Registers
  <2>3. PICK t \in TimerIds : w.x.timer[t] = Nothing /\ y.timer = [w.x.timer EXCEPT ![t] = Timed(S, S, a)]
    BY <2>2 DEF Gains
  <2>4. w.x.timer \in [TimerIds -> Timer \cup {Nothing}]
    BY <1>1 DEF TimersOK
  <2>5. y.timer[t] = Timed(S, S, a) /\ \A u \in TimerIds : u # t => y.timer[u] = w.x.timer[u]
    BY <2>3, <2>4
  <2>6. y.timer[t].when = S /\ y.timer[t].interval = S /\ y.timer[t].data = a
    BY <2>5 DEF Timed
  <2>7. ASSUME NEW u \in Used(y), u # t PROVE u \in Used(w.x) /\ y.timer[u] = w.x.timer[u] /\ w.x.timer[u].data # a
    <3>1. u \in Used(w.x) /\ y.timer[u] = w.x.timer[u]
      BY <2>5, <2>7 DEF Used
    <3>2. QED
      BY <1>1, <1>2, <3>1, PlacesAre
  <2>8. Renewed(w, y, a)
    <3>1. ASSUME NEW u \in Used(y), y.timer[u].armed
          PROVE  \/ u \in Used(w.x) /\ w.x.timer[u].armed /\ y.timer[u].when = w.x.timer[u].when
                 \/ Pollers(w, a) # {} /\ y.timer[u].when = S /\ Places(w.x, a) = {}
      <4>1. CASE u = t
        BY <1>2, <2>6, <4>1
      <4>2. CASE u # t
        BY <2>7, <3>1, <4>2
      <4>3. QED
        BY <4>1, <4>2
    <3>2. QED
      BY <3>1 DEF Renewed, S
  <2>9. \A u \in Used(y) : y.timer[u].data = a => y.timer[u].when = S /\ y.timer[u].interval = S
    BY <2>6, <2>7
  <2>10. \A b \in Acquires : b # a => Slower(w.x, y, b)
    BY <2>6, <2>7 DEF Slower
  <2>11. QED
    BY <2>2, <2>8, <2>9, <2>10 DEF S, y
<1>3. CASE Places(w.x, a) # {}
  <2>1. y = Adjusted(w.x, a, S)
    BY <1>3
  <2> HIDE DEF S, y
  <2>2. /\ TimersOK(y)
        /\ \A t \in TimerIds : y.timer[t] = IF t \in Used(w.x) /\ w.x.timer[t].data = a
                                            THEN Restarted(w.x.timer[t], S) ELSE w.x.timer[t]
    <3>1. S \in Nat /\ TimersOK(w.x)
      BY <1>1
    <3>2. QED
      BY <2>1, <3>1, Adjusts
  <2>3. ASSUME NEW t \in Used(y)
        PROVE  /\ t \in Used(w.x) /\ y.timer[t].data = w.x.timer[t].data
               /\ y.timer[t].armed = w.x.timer[t].armed
               /\ IF w.x.timer[t].data = a THEN y.timer[t].when = S /\ y.timer[t].interval = S ELSE y.timer[t] = w.x.timer[t]
    <3>1. t \in TimerIds /\ y.timer[t] # Nothing
      BY DEF Used
    <3>2. t \in Used(w.x)
      BY <2>2, <3>1 DEF Used
    <3>3. w.x.timer[t] \in Timer
      BY <1>1, <3>2, TimerIs
    <3>4. CASE w.x.timer[t].data = a
      <4>1. y.timer[t] = Restarted(w.x.timer[t], S)
        BY <2>2, <3>1, <3>2, <3>4
      <4>2. QED
        BY <1>1, <3>2, <3>3, <3>4, <4>1 DEF Timer, Restarted
    <3>5. CASE w.x.timer[t].data # a
      BY <2>2, <3>1, <3>2, <3>5
    <3>6. QED
      BY <3>4, <3>5
  <2>4. Renewed(w, y, a)
    <3>1. ASSUME NEW u \in Used(y), y.timer[u].armed
          PROVE  \/ u \in Used(w.x) /\ w.x.timer[u].armed /\ y.timer[u].when = w.x.timer[u].when
                 \/ /\ Pollers(w, a) # {} /\ y.timer[u].when = S
                    /\ u \in Used(w.x) /\ w.x.timer[u].armed /\ w.x.timer[u].data = a
      BY <2>3, <3>1
    <3>2. QED
      BY <3>1 DEF Renewed, S
  <2>5. \A u \in Used(y) : y.timer[u].data = a => y.timer[u].when = S /\ y.timer[u].interval = S
    BY <2>3
  <2>6. \A b \in Acquires : b # a => Slower(w.x, y, b)
    BY <2>3 DEF Slower
  <2>7. QED
    BY <2>2, <2>4, <2>5, <2>6 DEF S, y
<1>4. QED
  BY <1>2, <1>3

\* The timer of an acquire that does not poll.
LEMMA StopsTimer ==
    ASSUME NEW w, Shape(w), NEW a \in Acquires, w.acquire[a] # Nothing, TimersSound(w, a)
    PROVE  LET y == IF w.acquire[a].periodics > 0 THEN Disarmed(w.x, a) ELSE w.x
           IN  /\ TimersOK(y) /\ Renewed(w, y, a)
               /\ \A t \in Used(y) : y.timer[t].data = a => ~y.timer[t].armed /\ y.timer[t].when <= y.timer[t].interval
               /\ \A b \in Acquires : Slower(w.x, y, b)
<1> DEFINE y == IF w.acquire[a].periodics > 0 THEN Disarmed(w.x, a) ELSE w.x
<1>1. TimersOK(w.x)
  BY ShapeIs
<1>2. /\ TimersOK(y)
      /\ \A t \in Used(y) : /\ t \in Used(w.x) /\ y.timer[t].data = w.x.timer[t].data
                            /\ y.timer[t].interval = w.x.timer[t].interval /\ y.timer[t].when = w.x.timer[t].when
                            /\ y.timer[t].armed => w.x.timer[t].armed
                            /\ w.x.timer[t].data = a => ~y.timer[t].armed
  <2>1. CASE w.acquire[a].periodics > 0
    <3>1. y = Disarmed(w.x, a)
      BY <2>1
    <3> HIDE DEF y
    <3>2. /\ TimersOK(y)
          /\ \A t \in TimerIds : y.timer[t] = IF t \in Used(w.x) /\ w.x.timer[t].data = a
                                              THEN [w.x.timer[t] EXCEPT !.armed = FALSE] ELSE w.x.timer[t]
      BY <1>1, <3>1, Disarms
    <3>3. ASSUME NEW t \in Used(y)
          PROVE  /\ t \in Used(w.x) /\ y.timer[t].data = w.x.timer[t].data
                 /\ y.timer[t].interval = w.x.timer[t].interval /\ y.timer[t].when = w.x.timer[t].when
                 /\ y.timer[t].armed => w.x.timer[t].armed
                 /\ w.x.timer[t].data = a => ~y.timer[t].armed
      <4>1. t \in TimerIds /\ y.timer[t] # Nothing
        BY DEF Used
      <4>2. t \in Used(w.x)
        BY <3>2, <4>1 DEF Used
      <4>3. w.x.timer[t] \in Timer
        BY <1>1, <4>2, TimerIs
      <4>4. CASE w.x.timer[t].data = a
        <5>1. y.timer[t] = [w.x.timer[t] EXCEPT !.armed = FALSE]
          BY <3>2, <4>1, <4>2, <4>4
        <5>2. QED
          BY <4>2, <4>3, <5>1 DEF Timer
      <4>5. CASE w.x.timer[t].data # a
        BY <3>2, <4>1, <4>2, <4>5
      <4>6. QED
        BY <4>4, <4>5
    <3>4. QED
      BY <3>2, <3>3
  <2>2. CASE ~(w.acquire[a].periodics > 0)
    <3>1. y = w.x
      BY <2>2
    <3>2. \A t \in Used(w.x) : w.x.timer[t].data = a => ~w.x.timer[t].armed
      BY <2>2 DEF TimersSound, TimersOf
    <3>3. QED
      BY <1>1, <3>1, <3>2
  <2>3. QED
    BY <2>1, <2>2
<1> HIDE DEF y
<1>3. Renewed(w, y, a)
  BY <1>2 DEF Renewed
<1>4. \A b \in Acquires : Slower(w.x, y, b)
  BY <1>2 DEF Slower
<1>5. \A t \in Used(y) : y.timer[t].data = a => ~y.timer[t].armed /\ y.timer[t].when <= y.timer[t].interval
  BY <1>2 DEF TimersSound, TimersOf
<1>6. QED
  BY <1>2, <1>3, <1>4, <1>5 DEF y

\* An acquire as it is when it polls, and when it stops to.
Polling(ac, n, S) == [ac EXCEPT !.periodics = n, !.current = S]
Stopped(ac, n) == [ac EXCEPT !.periodics = n]

Counted(w, a, n) == [w EXCEPT !.acquire[a].periodics = n]
Counts(w, a, n, S, y) == [Counted(w, a, n) EXCEPT !.acquire[a].current = S, !.x = y]
CountsNone(w, a, n, y) == [Counted(w, a, n) EXCEPT !.x = y]

LEMMA CountedIs ==
    ASSUME NEW w, Shape(w), NEW a \in Acquires, w.acquire[a] # Nothing, NEW n \in Nat, NEW S \in Nat, NEW y
    PROVE  /\ Polling(w.acquire[a], n, S) \in Acquire
           /\ Polling(w.acquire[a], n, S).polls = w.acquire[a].polls
           /\ Polling(w.acquire[a], n, S).periodics = n
           /\ Counts(w, a, n, S, y) = With(w, a, Polling(w.acquire[a], n, S), y)
           /\ Stopped(w.acquire[a], n) \in Acquire
           /\ Stopped(w.acquire[a], n).polls = w.acquire[a].polls
           /\ Stopped(w.acquire[a], n).periodics = n
           /\ CountsNone(w, a, n, y) = With(w, a, Stopped(w.acquire[a], n), y)
<1>1. w \in Worlds /\ w.acquire[a] \in Acquire /\ w.acquire \in [Acquires -> Acquire \cup {Nothing}]
  BY ShapeIs
<1>2. /\ Polling(w.acquire[a], n, S) \in Acquire
      /\ Polling(w.acquire[a], n, S).polls = w.acquire[a].polls /\ Polling(w.acquire[a], n, S).periodics = n
  BY <1>1 DEF Acquire, Polling
<1>3. /\ Stopped(w.acquire[a], n) \in Acquire
      /\ Stopped(w.acquire[a], n).polls = w.acquire[a].polls /\ Stopped(w.acquire[a], n).periodics = n
  BY <1>1 DEF Acquire, Stopped
<1>4. Counts(w, a, n, S, y) = With(w, a, Polling(w.acquire[a], n, S), y)
  BY <1>1 DEF With, Worlds, Counts, Counted, Polling
<1>5. CountsNone(w, a, n, y) = With(w, a, Stopped(w.acquire[a], n), y)
  BY <1>1 DEF With, Worlds, CountsNone, Counted, Stopped
<1>6. QED
  BY <1>2, <1>3, <1>4, <1>5

\* reload_sensor_katcp puts right the acquire whose shadows have changed.
LEMMA Reloads ==
    ASSUME NEW w, Shape(w), NEW a \in Acquires, w.acquire[a] # Nothing, TimersSound(w, a),
           \A b \in Acquires : b # a => AcquireOK(w, b)
    PROVE  LET z == Reload(w, a)
           IN  WorldOK(z) /\ SameShadows(w, z) /\ Renewed(w, z.x, a)
<1> DEFINE n == Cardinality(Pollers(w, a))
           ac == w.acquire[a]
           S == Shortest(w, a)
           z == Reload(w, a)
<1>1. n \in Nat /\ (n > 0 <=> Pollers(w, a) # {})
  BY PollersAre
<1>2. CASE n > 0
  <2> DEFINE y == IF Places(w.x, a) = {} THEN RegisterEvery(w.x, a, S) ELSE Adjusted(w.x, a, S)
             b == Polling(ac, n, S)
             u == With(w, a, b, y)
  <2>1. Pollers(w, a) # {} /\ S \in Nat
    BY <1>1, <1>2, PollersAre
  <2>2. z = Counts(w, a, n, S, y)
    BY <1>2 DEF Reload, Counts, Counted
  <2>3. /\ TimersOK(y) /\ Renewed(w, y, a)
        /\ \A t \in Used(y) : y.timer[t].data = a => y.timer[t].when = S /\ y.timer[t].interval = S
        /\ \A c \in Acquires : c # a => Slower(w.x, y, c)
    BY <2>1, ReloadsTimer
  <2> HIDE DEF y, n, S
  <2>4. b \in Acquire /\ b.polls = ac.polls /\ b.periodics = n /\ z = u
    BY <1>1, <2>1, <2>2, CountedIs
  <2> HIDE DEF b, z, u
  <2>5. /\ Shape(u) /\ u.x = y /\ u.sensor = w.sensor /\ u.nonsense = w.nonsense
        /\ u.acquire[a] = b /\ b # Nothing
        /\ \A c \in Acquires : LinkedTo(u, c) = LinkedTo(w, c)
        /\ SameShadows(w, u)
        /\ \A c \in Acquires : c # a => Unseen(w, u, c)
    BY <2>3, <2>4, Withs DEF u
  <2>6. Pollers(u, a) = Pollers(w, a) /\ Shortest(u, a) = S
    <3>1. LinkedTo(u, a) = LinkedTo(w, a) /\ u.acquire[a].polls = w.acquire[a].polls /\ u.nonsense = w.nonsense
      BY <2>4, <2>5
    <3>2. QED
      BY <3>1, SamePollers DEF S
  <2>7. \A t \in TimersOf(u, a) : u.x.timer[t].when = S /\ u.x.timer[t].interval = S
    BY <2>3, <2>5 DEF TimersOf
  <2>8. TimersSound(u, a)
    BY <1>2, <2>1, <2>4, <2>5, <2>7 DEF TimersSound
  <2>9. Paced(u, a)
    BY <2>4, <2>5, <2>6, <2>7 DEF Paced, n
  <2>10. Told(u, a)
    BY <1>2, <2>4, <2>5 DEF Told
  <2>11. \A c \in Acquires : c # a => AcquireOK(u, c)
    BY <2>3, <2>5, KeepsUnseen
  <2>12. WorldOK(u)
    BY <2>5, <2>8, <2>9, <2>10, <2>11 DEF WorldOK, AcquireOK
  <2>13. QED
    BY <2>3, <2>4, <2>5, <2>12 DEF z
<1>3. CASE ~(n > 0)
  <2> DEFINE y == IF ac.periodics > 0 THEN Disarmed(w.x, a) ELSE w.x
             b == Stopped(ac, n)
             u == With(w, a, b, y)
  <2>1. Pollers(w, a) = {} /\ n = 0
    BY <1>1, <1>3
  <2>2. z = IF Shadows(w, a) # Forced(w, a) THEN Propagated(CountsNone(w, a, n, y), a) ELSE CountsNone(w, a, n, y)
    BY <1>3 DEF Reload, CountsNone, Counted
  <2>3. /\ TimersOK(y) /\ Renewed(w, y, a)
        /\ \A t \in Used(y) : y.timer[t].data = a => ~y.timer[t].armed /\ y.timer[t].when <= y.timer[t].interval
        /\ \A c \in Acquires : Slower(w.x, y, c)
    BY StopsTimer
  <2> HIDE DEF y, n
  <2>4. b \in Acquire /\ b.polls = ac.polls /\ b.periodics = n /\ CountsNone(w, a, n, y) = u
    BY <1>1, CountedIs
  <2>5. z = IF Shadows(w, a) # Forced(w, a) THEN Propagated(u, a) ELSE u
    BY <2>2, <2>4
  <2> HIDE DEF b, z, u
  <2>6. /\ Shape(u) /\ u.x = y /\ u.sensor = w.sensor /\ u.nonsense = w.nonsense
        /\ u.acquire[a] = b /\ b # Nothing
        /\ \A c \in Acquires : LinkedTo(u, c) = LinkedTo(w, c)
        /\ SameShadows(w, u)
        /\ \A c \in Acquires : c # a => Unseen(w, u, c)
    BY <2>3, <2>4, Withs DEF u
  <2>7. Pollers(u, a) = Pollers(w, a)
    <3>1. LinkedTo(u, a) = LinkedTo(w, a) /\ u.acquire[a].polls = w.acquire[a].polls /\ u.nonsense = w.nonsense
      BY <2>4, <2>6
    <3>2. QED
      BY <3>1, SamePollers
  <2>8. TimersSound(u, a)
    BY <2>3, <2>6 DEF TimersSound, TimersOf
  <2>9. Paced(u, a)
    BY <1>3, <2>1, <2>4, <2>6, <2>7 DEF Paced, n
  <2>10. \A c \in Acquires : c # a => AcquireOK(u, c)
    BY <2>3, <2>6, KeepsUnseen
  <2>11. CASE Shadows(w, a) = Forced(w, a)
    <3>1. z = u
      BY <2>5, <2>11
    <3>2. Told(u, a)
      <4>1. ASSUME NEW c \in Samplers, NEW s \in LinkedTo(u, a), u.nonsense[c][s] # Nothing, u.nonsense[c][s].strategy = "event"
            PROVE  FALSE
        <5>1. s \in LinkedTo(w, a) /\ w.nonsense[c][s] # Nothing /\ w.nonsense[c][s].strategy = "event"
          BY <2>6, <4>1
        <5>2. <<c, s>> \in Shadows(w, a)
          BY <5>1 DEF Shadows
        <5>3. <<c, s>> \notin Forced(w, a)
          BY <5>1 DEF Forced
        <5>4. QED
          BY <2>11, <5>2, <5>3
      <4>2. QED
        BY <4>1 DEF Told
    <3>3. WorldOK(u)
      BY <2>6, <2>8, <2>9, <2>10, <3>2 DEF WorldOK, AcquireOK
    <3>4. QED
      BY <2>3, <2>6, <3>1, <3>3 DEF z
  <2>12. CASE Shadows(w, a) # Forced(w, a)
    <3>1. z = Propagated(u, a)
      BY <2>5, <2>12
    <3>2. Shape(z) /\ Passed(u, z, a)
      BY <2>6, <3>1, Propagates
    <3>3. z.x = y /\ SameShadows(w, z)
      BY <2>6, <3>2 DEF Passed, SameShadows
    <3>4. z.acquire[a] # Nothing
      BY <2>6, <3>2 DEF Passed
    <3>5. ASSUME NEW c \in Acquires PROVE SameFor(u, z, c) /\ Slower(u.x, z.x, c) /\ Retold(u, z, c) /\ Told(z, a)
      BY <2>6, <3>2, PassedKeeps
    <3>6. AcquireOK(z, a)
      BY <2>6, <2>8, <2>9, <3>5, Keeps DEF AcquireOK
    <3>7. \A c \in Acquires : c # a => AcquireOK(z, c)
      BY <2>10, <3>5, KeepsOK
    <3>8. WorldOK(z)
      BY <3>2, <3>6, <3>7 DEF WorldOK
    <3>9. QED
      BY <2>3, <3>3, <3>8 DEF z
  <2>13. QED
    BY <2>11, <2>12
<1>4. QED
  BY <1>2, <1>3

-----------------------------------------------------------------------------
(* Clients.                                                                 *)

Put(w, c, s, m) == [w EXCEPT !.nonsense = [w.nonsense EXCEPT ![c] = [w.nonsense[c] EXCEPT ![s] = m]]]

LEMMA PutsShape ==
    ASSUME NEW w, Shape(w), NEW c \in Samplers, NEW s \in Sensors, w.sensor[s] # Nothing,
           NEW m \in Nonsense \cup {Nothing}
    PROVE  LET u == Put(w, c, s, m)
               a == w.sensor[s].acquire
           IN  /\ Shape(u) /\ u.x = w.x /\ u.acquire = w.acquire /\ u.sensor = w.sensor
               /\ u.nonsense[c][s] = m
               /\ \A d \in Samplers, r \in Sensors : d # c \/ r # s => u.nonsense[d][r] = w.nonsense[d][r]
               /\ \A b : LinkedTo(u, b) = LinkedTo(w, b)
               /\ a \in Acquires /\ u.acquire[a] # Nothing /\ s \in LinkedTo(w, a)
<1> DEFINE u == Put(w, c, s, m)
           a == w.sensor[s].acquire
           shadows == [w.nonsense EXCEPT ![c] = [w.nonsense[c] EXCEPT ![s] = m]]
<1>1. /\ w \in Worlds /\ TimersOK(w.x)
      /\ w.nonsense \in [Samplers -> [Sensors -> Nonsense \cup {Nothing}]]
      /\ a \in Acquires /\ w.acquire[a] # Nothing /\ s \in LinkedTo(w, a)
  BY ShapeIs DEF LinkedTo
<1>2. /\ shadows \in [Samplers -> [Sensors -> Nonsense \cup {Nothing}]]
      /\ shadows[c][s] = m
      /\ \A d \in Samplers, r \in Sensors : d # c \/ r # s => shadows[d][r] = w.nonsense[d][r]
  <2>1. [w.nonsense[c] EXCEPT ![s] = m] \in [Sensors -> Nonsense \cup {Nothing}]
    BY <1>1
  <2>2. QED
    BY <1>1, <2>1
<1> HIDE DEF shadows
<1>3. u \in Worlds /\ u.x = w.x /\ u.acquire = w.acquire /\ u.sensor = w.sensor /\ u.nonsense = shadows
  BY <1>1, <1>2 DEF Put, Worlds, shadows
<1> HIDE DEF u
<1>4. \A d \in Samplers, r \in Sensors : u.nonsense[d][r] # Nothing => u.sensor[r] # Nothing
  BY <1>1, <1>2, <1>3 DEF Shape
<1>5. Shape(u)
  BY <1>1, <1>3, <1>4 DEF Shape
<1>6. \A b : LinkedTo(u, b) = LinkedTo(w, b)
  BY <1>3 DEF LinkedTo
<1>7. QED
  BY <1>1, <1>2, <1>3, <1>5, <1>6 DEF u

\* One shadow changes: the acquire of its sensor is all that is concerned.
LEMMA Puts ==
    ASSUME NEW w, WorldOK(w), NEW c \in Samplers, NEW s \in Sensors, w.sensor[s] # Nothing,
           NEW m \in Nonsense \cup {Nothing}
    PROVE  LET u == Put(w, c, s, m)
               a == w.sensor[s].acquire
           IN  \A b \in Acquires : TimersSound(u, b) /\ (b # a => AcquireOK(u, b))
<1> DEFINE u == Put(w, c, s, m)
           a == w.sensor[s].acquire
<1>1. /\ u.x = w.x /\ u.acquire = w.acquire /\ s \in LinkedTo(w, a)
      /\ \A d \in Samplers, r \in Sensors : d # c \/ r # s => u.nonsense[d][r] = w.nonsense[d][r]
      /\ \A b : LinkedTo(u, b) = LinkedTo(w, b)
  BY PutsShape DEF WorldOK
<1> HIDE DEF u
<1>2. ASSUME NEW b \in Acquires, b # a PROVE AcquireOK(u, b)
  <2>1. \A d \in Samplers, r \in LinkedTo(w, b) : u.nonsense[d][r] = w.nonsense[d][r]
    BY <1>1, <1>2 DEF LinkedTo
  <2>2. Unseen(w, u, b) /\ Slower(w.x, u.x, b)
    BY <1>1, <2>1, SlowerSelf DEF Unseen
  <2>3. QED
    BY <2>2, KeepsUnseen DEF WorldOK
<1>3. \A b \in Acquires : TimersSound(u, b)
  BY <1>1 DEF TimersSound, TimersOf, WorldOK, AcquireOK
<1>4. QED
  BY <1>2, <1>3 DEF u

LEMMA PutsReload ==
    ASSUME NEW w, WorldOK(w), NEW c \in Samplers, NEW s \in Sensors, w.sensor[s] # Nothing,
           NEW m \in Nonsense \cup {Nothing}
    PROVE  LET u == Put(w, c, s, m)
               z == Reload(u, w.sensor[s].acquire)
           IN  /\ WorldOK(z) /\ Renewed(u, z.x, w.sensor[s].acquire)
               /\ \A r \in Sensors : /\ z.sensor[r] = Nothing <=> w.sensor[r] = Nothing
                                     /\ w.sensor[r] # Nothing => z.sensor[r].acquire = w.sensor[r].acquire
               /\ \A d \in Samplers, r \in Sensors : d # c \/ r # s => SameShadow(w.nonsense[d][r], z.nonsense[d][r])
               /\ SameShadow(m, z.nonsense[c][s])
<1> DEFINE u == Put(w, c, s, m)
           a == w.sensor[s].acquire
           z == Reload(u, a)
<1>1. /\ Shape(u) /\ u.x = w.x /\ u.acquire = w.acquire /\ u.sensor = w.sensor
      /\ u.nonsense[c][s] = m
      /\ \A d \in Samplers, r \in Sensors : d # c \/ r # s => u.nonsense[d][r] = w.nonsense[d][r]
      /\ a \in Acquires /\ u.acquire[a] # Nothing /\ s \in LinkedTo(w, a)
      /\ \A b \in Acquires : TimersSound(u, b) /\ (b # a => AcquireOK(u, b))
  BY Puts, PutsShape DEF WorldOK
<1> HIDE DEF u, a
<1>2. WorldOK(z) /\ SameShadows(u, z) /\ Renewed(u, z.x, a)
  BY <1>1, Reloads
<1> HIDE DEF z
<1>3. \A r \in Sensors : /\ z.sensor[r] = Nothing <=> w.sensor[r] = Nothing
                         /\ w.sensor[r] # Nothing => z.sensor[r].acquire = w.sensor[r].acquire
  BY <1>1, <1>2 DEF SameShadows
<1>4. \A d \in Samplers, r \in Sensors : SameShadow(u.nonsense[d][r], z.nonsense[d][r])
  BY <1>2 DEF SameShadows, SameShadow
<1>5. SameShadow(m, z.nonsense[c][s])
  BY <1>1, <1>4
<1>6. \A d \in Samplers, r \in Sensors : d # c \/ r # s => SameShadow(w.nonsense[d][r], z.nonsense[d][r])
  BY <1>1, <1>4
<1>7. QED
  BY <1>2, <1>3, <1>5, <1>6 DEF z, u, a

LEMMA PutIs ==
    ASSUME NEW w, NEW c, NEW s, NEW m
    PROVE  [w EXCEPT !.nonsense[c][s] = m] = Put(w, c, s, m)
BY DEF Put

LEMMA PutTwice ==
    ASSUME NEW w \in Worlds, NEW c \in Samplers, NEW s \in Sensors, NEW m, NEW n
    PROVE  Put(Put(w, c, s, m), c, s, n) = Put(w, c, s, n)
BY DEF Put, Worlds

\* A shadow as it is made.
Fresh(w, s) ==
  [strategy |-> "off", period |-> w.acquire[w.sensor[s].acquire].current, previous |-> w.sensor[s].current]

LEMMA FreshIs ==
    ASSUME NEW w, Shape(w), NEW s \in Sensors, w.sensor[s] # Nothing
    PROVE  Fresh(w, s) \in Nonsense /\ Fresh(w, s).strategy = "off" /\ Fresh(w, s) # Nothing
<1>1. w.sensor[s] \in Sensor /\ w.acquire[w.sensor[s].acquire] \in Acquire
  BY ShapeIs
<1>2. w.sensor[s].current \in Values /\ w.acquire[w.sensor[s].acquire].current \in Nat
  BY <1>1 DEF Sensor, Acquire
<1>3. Fresh(w, s) \in Nonsense
  BY <1>2 DEF Fresh, Nonsense, Strategies
<1>4. QED
  BY <1>3, NothingElse DEF Fresh

LEMMA ShadowedIs ==
    ASSUME NEW w, NEW c, NEW s
    PROVE  Shadowed(w, c, s) = IF w.nonsense[c][s] # Nothing THEN w ELSE Put(w, c, s, Fresh(w, s))
BY PutIs DEF Shadowed, Fresh

\* destroy_nonsense_katcp
LEMMA Unshadows ==
    ASSUME NEW w, WorldOK(w), NEW c \in Samplers, NEW s \in Sensors, w.sensor[s] # Nothing
    PROVE  LET z == Unshadowed(w, c, s)
           IN  /\ WorldOK(z) /\ Renewed(Put(w, c, s, Nothing), z.x, w.sensor[s].acquire)
               /\ \A r \in Sensors : /\ z.sensor[r] = Nothing <=> w.sensor[r] = Nothing
                                     /\ w.sensor[r] # Nothing => z.sensor[r].acquire = w.sensor[r].acquire
               /\ \A d \in Samplers, r \in Sensors : d # c \/ r # s => SameShadow(w.nonsense[d][r], z.nonsense[d][r])
               /\ z.nonsense[c][s] = Nothing
<1>1. Unshadowed(w, c, s) = Reload(Put(w, c, s, Nothing), w.sensor[s].acquire)
  BY PutIs DEF Unshadowed
<1>2. Nothing \in Nonsense \cup {Nothing}
  OBVIOUS
<1>3. SameShadow(Nothing, Unshadowed(w, c, s).nonsense[c][s])
  BY <1>1, <1>2, PutsReload
<1>4. Unshadowed(w, c, s).nonsense[c][s] = Nothing
  BY <1>3 DEF SameShadow
<1>5. QED
  BY <1>1, <1>2, <1>4, PutsReload

\* configure_sensor_katcp
LEMMA Configures ==
    ASSUME NEW w, WorldOK(w), NEW c \in Samplers, NEW s \in Sensors, w.sensor[s] # Nothing,
           NEW strategy \in Strategies, NEW period \in Nat
    PROVE  LET z == Configured(w, c, s, strategy, period)
           IN  /\ WorldOK(z)
               /\ \A r \in Sensors : /\ z.sensor[r] = Nothing <=> w.sensor[r] = Nothing
                                     /\ w.sensor[r] # Nothing => z.sensor[r].acquire = w.sensor[r].acquire
               /\ \A d \in Samplers, r \in Sensors : d # c \/ r # s => SameShadow(w.nonsense[d][r], z.nonsense[d][r])
               /\ IF strategy = "off" THEN z.nonsense[c][s] = Nothing ELSE z.nonsense[c][s].strategy = strategy
<1> DEFINE a == w.sensor[s].acquire
           v == Shadowed(w, c, s)
           ns == v.nonsense[c][s]
           p == CASE strategy = "period" -> period
                  [] strategy = "event" -> Poll
                  [] OTHER -> ns.period
           m == [ns EXCEPT !.strategy = strategy, !.period = p]
           z == Configured(w, c, s, strategy, period)
<1>1. Shape(w) /\ w \in Worlds
  BY DEF WorldOK, Shape
<1>2. CASE strategy = "off"
  <2>1. CASE w.nonsense[c][s] = Nothing
    <3>1. z = w
      BY <1>2, <2>1 DEF Configured
    <3>2. QED
      BY <1>2, <2>1, <3>1 DEF SameShadow
  <2>2. CASE w.nonsense[c][s] # Nothing
    <3>1. z = Unshadowed(w, c, s)
      BY <1>2, <2>2 DEF Configured
    <3>2. QED
      BY <1>2, <3>1, Unshadows
  <2>3. QED
    BY <2>1, <2>2
<1>3. CASE strategy # "off"
  <2>1. z = Reload([v EXCEPT !.nonsense[c][s] = [ns EXCEPT !.strategy = strategy,
                                                           !.period = CASE strategy = "period" -> period
                                                                        [] strategy = "event" -> Poll
                                                                        [] OTHER -> @]], a)
    BY <1>3 DEF Configured
  <2>2. ns \in Nonsense /\ (v = w \/ v = Put(w, c, s, Fresh(w, s)))
    <3>1. CASE w.nonsense[c][s] # Nothing
      BY <1>1, <3>1, ShadowedIs, ShapeIs
    <3>2. CASE w.nonsense[c][s] = Nothing
      <4>1. v = Put(w, c, s, Fresh(w, s))
        BY <3>2, ShadowedIs
      <4>2. Fresh(w, s) \in Nonsense
        BY <1>1, FreshIs
      <4> HIDE DEF v
      <4>3. ns = Fresh(w, s)
        BY <1>1, <4>1, <4>2, PutsShape
      <4>4. QED
        BY <4>1, <4>2, <4>3
    <3>3. QED
      BY <3>1, <3>2
  <2> HIDE DEF ns, v
  <2>3. ns.period \in Nat /\ Poll \in Nat
    BY <2>2, SensorsAssumption DEF Nonsense
  <2>4. p \in Nat
    BY <2>3
  <2>5. [ns EXCEPT !.strategy = strategy, !.period = CASE strategy = "period" -> period
                                                       [] strategy = "event" -> Poll
                                                       [] OTHER -> @] = m
    BY <2>2 DEF Nonsense
  <2> HIDE DEF p
  <2>6. m \in Nonsense /\ m.strategy = strategy
    BY <2>2, <2>4 DEF Nonsense
  <2>7. z = Reload(Put(v, c, s, m), a)
    BY <2>1, <2>5, PutIs
  <2> HIDE DEF m
  <2>8. Put(v, c, s, m) = Put(w, c, s, m)
    BY <1>1, <2>2, PutTwice
  <2>9. z = Reload(Put(w, c, s, m), a)
    BY <2>7, <2>8
  <2> HIDE DEF z
  <2>10. m # Nothing
    BY <2>6, NothingElse
  <2>11. m \in Nonsense \cup {Nothing}
    BY <2>6
  <2>12. /\ WorldOK(z) /\ SameShadow(m, z.nonsense[c][s])
         /\ \A r \in Sensors : /\ z.sensor[r] = Nothing <=> w.sensor[r] = Nothing
                               /\ w.sensor[r] # Nothing => z.sensor[r].acquire = w.sensor[r].acquire
         /\ \A d \in Samplers, r \in Sensors : d # c \/ r # s => SameShadow(w.nonsense[d][r], z.nonsense[d][r])
    BY <2>9, <2>11, PutsReload
  <2>13. z.nonsense[c][s].strategy = strategy
    BY <2>6, <2>10, <2>12 DEF SameShadow
  <2>14. QED
    BY <1>3, <2>12, <2>13 DEF z
<1>4. QED
  BY <1>2, <1>3

\* create_nonsense_katcp: a shadow without a strategy asks for nothing.
LEMMA ShadowsOK ==
    ASSUME NEW w, WorldOK(w), NEW c \in Samplers, NEW s \in Sensors, w.sensor[s] # Nothing
    PROVE  LET z == Shadowed(w, c, s)
           IN  /\ WorldOK(z)
               /\ \A d \in Samplers, r \in Sensors : z.nonsense[d][r] = w.nonsense[d][r] \/ z.nonsense[d][r].strategy = "off"
<1> DEFINE m == Fresh(w, s)
           a == w.sensor[s].acquire
           u == Put(w, c, s, m)
<1>1. CASE w.nonsense[c][s] # Nothing
  BY <1>1, ShadowedIs
<1>2. CASE w.nonsense[c][s] = Nothing
  <2>1. Shadowed(w, c, s) = u
    BY <1>2, ShadowedIs
  <2>2. m \in Nonsense /\ m.strategy = "off" /\ m # Nothing /\ m \in Nonsense \cup {Nothing}
    BY FreshIs DEF WorldOK
  <2> HIDE DEF m
  <2>3. /\ Shape(u) /\ u.x = w.x /\ u.acquire = w.acquire
        /\ u.nonsense[c][s] = m
        /\ \A d \in Samplers, r \in Sensors : d # c \/ r # s => u.nonsense[d][r] = w.nonsense[d][r]
        /\ \A b : LinkedTo(u, b) = LinkedTo(w, b)
        /\ a \in Acquires /\ u.acquire[a] # Nothing
    BY <2>2, PutsShape DEF WorldOK
  <2>4. \A b \in Acquires : TimersSound(u, b) /\ (b # a => AcquireOK(u, b))
    BY <2>2, Puts
  <2> HIDE DEF u, a
  <2> DEFINE polls(t, q) == LET ns == t.nonsense[q[1]][q[2]]
                            IN  ns # Nothing /\ (ns.strategy = "period" \/ (ns.strategy = "event" /\ t.acquire[a].polls))
             periods(t) == {t.nonsense[q[1]][q[2]].period : q \in Pollers(t, a)}
  <2>5. ASSUME NEW q \in Samplers \X LinkedTo(w, a)
        PROVE  (polls(u, q) <=> polls(w, q)) /\ (polls(w, q) => u.nonsense[q[1]][q[2]] = w.nonsense[q[1]][q[2]])
    <3>1. q[1] \in Samplers /\ q[2] \in Sensors
      BY DEF LinkedTo
    <3>2. CASE q[1] = c /\ q[2] = s
      <4>1. u.nonsense[q[1]][q[2]] = m /\ w.nonsense[q[1]][q[2]] = Nothing
        BY <1>2, <2>3, <3>2
      <4>2. QED
        BY <2>2, <4>1
    <3>3. CASE ~(q[1] = c /\ q[2] = s)
      <4>1. u.nonsense[q[1]][q[2]] = w.nonsense[q[1]][q[2]]
        BY <2>3, <3>1, <3>3
      <4>2. QED
        BY <2>3, <4>1
    <3>4. QED
      BY <3>2, <3>3
  <2>6. Pollers(u, a) = {q \in Samplers \X LinkedTo(w, a) : polls(u, q)}
        /\ Pollers(w, a) = {q \in Samplers \X LinkedTo(w, a) : polls(w, q)}
    BY <2>3 DEF Pollers
  <2> HIDE DEF polls
  <2>7. Pollers(u, a) = Pollers(w, a) /\ \A q \in Pollers(w, a) : u.nonsense[q[1]][q[2]] = w.nonsense[q[1]][q[2]]
    BY <2>5, <2>6
  <2>8. periods(u) = periods(w)
    BY <2>7
  <2>9. Shortest(u, a) = Shortest(w, a)
    BY <2>8 DEF Shortest
  <2>10. Paced(w, a) /\ Told(w, a)
    BY <2>3 DEF WorldOK, AcquireOK
  <2>11. Paced(u, a)
    BY <2>3, <2>7, <2>9, <2>10 DEF Paced, TimersOf
  <2>12. Told(u, a)
    <3>1. ASSUME u.acquire[a].periodics = 0, ~u.acquire[a].polls, NEW d \in Samplers, NEW r \in LinkedTo(u, a),
                 u.nonsense[d][r] # Nothing, u.nonsense[d][r].strategy = "event"
          PROVE  u.nonsense[d][r].previous = u.acquire[a].value
      <4>1. r \in LinkedTo(w, a) /\ r \in Sensors
        BY <2>3, <3>1 DEF LinkedTo
      <4>2. u.nonsense[d][r] = w.nonsense[d][r]
        BY <2>2, <2>3, <3>1, <4>1
      <4>3. QED
        BY <2>3, <2>10, <3>1, <4>1, <4>2 DEF Told
    <3>2. QED
      BY <3>1 DEF Told
  <2>13. WorldOK(u)
    BY <2>3, <2>4, <2>11, <2>12 DEF WorldOK, AcquireOK
  <2>14. QED
    BY <2>1, <2>2, <2>3, <2>13
<1>3. QED
  BY <1>1, <1>2

\* sensor_value_cmd_katcp, for a client that samples the sensor.
LEMMA ForcesShadow ==
    ASSUME NEW w, WorldOK(w), NEW c \in Samplers, NEW s \in Sensors, w.sensor[s] # Nothing,
           w.nonsense[c][s] # Nothing, NEW value \in Values
    PROVE  LET ns == w.nonsense[c][s]
               forced == RunAcquire([w EXCEPT !.nonsense[c][s].strategy = "forced"], w.sensor[s].acquire, value)
               z == [forced EXCEPT !.nonsense[c][s].strategy = ns.strategy]
           IN  /\ WorldOK(z)
               /\ \A d \in Samplers, r \in Sensors : SameShadow(w.nonsense[d][r], z.nonsense[d][r])
<1> DEFINE a == w.sensor[s].acquire
           ns == w.nonsense[c][s]
           ms == [ns EXCEPT !.strategy = "forced"]
           u == Put(w, c, s, ms)
           v == RunAcquire(u, a, value)
           z == Put(v, c, s, ns)
<1>1. Shape(w) /\ ns \in Nonsense /\ ns # Nothing
  BY ShapeIs DEF WorldOK
<1>2. ms \in Nonsense /\ ms.strategy = "forced" /\ [ms EXCEPT !.strategy = ns.strategy] = ns /\ ms # Nothing
  <2>1. ms \in Nonsense /\ ms.strategy = "forced" /\ [ms EXCEPT !.strategy = ns.strategy] = ns
    BY <1>1 DEF Nonsense, Strategies
  <2>2. QED
    BY <2>1, NothingElse
<1>3. [w EXCEPT !.nonsense[c][s].strategy = "forced"] = u
  BY DEF Put
<1> HIDE DEF ns, ms
<1>4. ns \in Nonsense \cup {Nothing} /\ ms \in Nonsense \cup {Nothing}
  BY <1>1, <1>2
<1>5. /\ Shape(u) /\ u.x = w.x /\ u.acquire = w.acquire /\ u.sensor = w.sensor
      /\ u.nonsense[c][s] = ms
      /\ \A d \in Samplers, r \in Sensors : d # c \/ r # s => u.nonsense[d][r] = w.nonsense[d][r]
      /\ \A b : LinkedTo(u, b) = LinkedTo(w, b)
      /\ a \in Acquires /\ u.acquire[a] # Nothing
  BY <1>1, <1>4, PutsShape
<1> HIDE DEF u, a
<1>6. /\ Shape(v) /\ v.x = u.x /\ SameShadows(u, v) /\ Ran(u, v)
      /\ \A b \in Acquires : u.acquire[b] # Nothing => Retold(u, v, b)
      /\ \A d \in Samplers, r \in Sensors :
            u.nonsense[d][r] # Nothing /\ u.nonsense[d][r].strategy # "event" => v.nonsense[d][r] = u.nonsense[d][r]
  BY <1>5, Runs
<1> HIDE DEF v
<1>7. v.nonsense[c][s] = ms /\ v.sensor[s] # Nothing
  BY <1>2, <1>5, <1>6 DEF SameShadows
<1>8. [v EXCEPT !.nonsense[c][s].strategy = ns.strategy] = Put(v, c, s, [v.nonsense[c][s] EXCEPT !.strategy = ns.strategy])
  BY DEF Put
<1>9. [v EXCEPT !.nonsense[c][s].strategy = ns.strategy] = z
  BY <1>2, <1>7, <1>8
<1>10. /\ Shape(z) /\ z.x = v.x /\ z.acquire = v.acquire /\ z.sensor = v.sensor
       /\ z.nonsense[c][s] = ns
       /\ \A d \in Samplers, r \in Sensors : d # c \/ r # s => z.nonsense[d][r] = v.nonsense[d][r]
       /\ \A b : LinkedTo(z, b) = LinkedTo(v, b)
  BY <1>4, <1>6, <1>7, PutsShape
<1> HIDE DEF z
<1>11. ASSUME NEW d \in Samplers, NEW r \in Sensors PROVE SameShadow(w.nonsense[d][r], z.nonsense[d][r])
  <2>1. CASE d = c /\ r = s
    BY <1>10, <2>1 DEF SameShadow, ns
  <2>2. CASE ~(d = c /\ r = s)
    <3>1. u.nonsense[d][r] = w.nonsense[d][r] /\ z.nonsense[d][r] = v.nonsense[d][r]
      BY <1>5, <1>10, <2>2
    <3>2. QED
      BY <1>6, <3>1 DEF SameShadows, SameShadow
  <2>3. QED
    BY <2>1, <2>2
<1>12. ASSUME NEW b \in Acquires PROVE AcquireOK(z, b)
  <2>1. SameFor(u, v, b) /\ (u.acquire[b] # Nothing => v.acquire[b].value = u.acquire[b].value \/ v.acquire[b].polls)
    BY <1>6 DEF Ran
  <2>2. LinkedTo(z, b) = LinkedTo(w, b) /\ LinkedTo(w, b) \subseteq Sensors /\ LinkedTo(u, b) = LinkedTo(w, b)
    BY <1>5, <1>10, <2>1 DEF SameFor, LinkedTo
  <2>3. SameFor(w, z, b)
    BY <1>5, <1>10, <1>11, <2>1, <2>2 DEF SameFor
  <2>4. Slower(w.x, z.x, b)
    BY <1>5, <1>6, <1>10, SlowerSelf
  <2>5. ASSUME w.acquire[b] # Nothing PROVE Retold(w, z, b)
    <3>1. SUFFICES ASSUME NEW d \in Samplers, NEW r \in LinkedTo(w, b),
                          w.nonsense[d][r] # Nothing, w.nonsense[d][r].strategy = "event"
                   PROVE  \/ z.nonsense[d][r].previous = z.acquire[b].value
                          \/ /\ z.nonsense[d][r].previous = w.nonsense[d][r].previous
                             /\ z.acquire[b].value = w.acquire[b].value \/ z.acquire[b].polls
      BY DEF Retold
    <3>2. CASE d = c /\ r = s
      BY <1>5, <1>10, <2>1, <2>5, <3>2 DEF ns
    <3>3. CASE ~(d = c /\ r = s)
      <4>1. r \in Sensors
        BY <2>2
      <4>2. u.nonsense[d][r] = w.nonsense[d][r] /\ z.nonsense[d][r] = v.nonsense[d][r]
        BY <1>5, <1>10, <3>3, <4>1
      <4>3. Retold(u, v, b)
        BY <1>5, <1>6, <2>5
      <4>4. \/ v.nonsense[d][r].previous = v.acquire[b].value
            \/ /\ v.nonsense[d][r].previous = u.nonsense[d][r].previous
               /\ v.acquire[b].value = u.acquire[b].value \/ v.acquire[b].polls
        BY <2>2, <3>1, <4>2, <4>3 DEF Retold
      <4>5. QED
        BY <1>5, <1>10, <4>2, <4>4
    <3>4. QED
      BY <3>2, <3>3
  <2>6. AcquireOK(w, b)
    BY DEF WorldOK
  <2>7. QED
    BY <2>3, <2>4, <2>5, <2>6, Keeps DEF AcquireOK, SameFor
<1>13. WorldOK(z)
  BY <1>10, <1>12 DEF WorldOK
<1>14. QED
  BY <1>3, <1>9, <1>11, <1>13 DEF z, v, a, ns

\* The same, for a client that does not.
LEMMA ForcesNone ==
    ASSUME NEW w, WorldOK(w), NEW c \in Samplers, NEW s \in Sensors, w.sensor[s] # Nothing, NEW value \in Values
    PROVE  LET begun == Configured(w, c, s, "forced", 0)
               z == Configured(RunAcquire(begun, w.sensor[s].acquire, value), c, s, "off", 0)
           IN  /\ WorldOK(z) /\ z.nonsense[c][s] = Nothing
               /\ \A d \in Samplers, r \in Sensors : d # c \/ r # s => SameShadow(w.nonsense[d][r], z.nonsense[d][r])
<1> DEFINE a == w.sensor[s].acquire
           u == Configured(w, c, s, "forced", 0)
           v == RunAcquire(u, a, value)
           z == Configured(v, c, s, "off", 0)
<1>1. "forced" \in Strategies /\ "off" \in Strategies /\ 0 \in Nat
  BY DEF Strategies
<1>2. /\ WorldOK(u) /\ u.sensor[s] # Nothing /\ u.sensor[s].acquire = a
      /\ \A d \in Samplers, r \in Sensors : d # c \/ r # s => SameShadow(w.nonsense[d][r], u.nonsense[d][r])
  BY <1>1, Configures
<1> HIDE DEF u, a
<1>3. a \in Acquires /\ u.acquire[a] # Nothing
  BY <1>2, ShapeIs DEF WorldOK
<1>4. WorldOK(v) /\ SameShadows(u, v)
  BY <1>2, <1>3, RunsOK
<1> HIDE DEF v
<1>5. v.sensor[s] # Nothing
  BY <1>2, <1>4 DEF SameShadows
<1>6. /\ WorldOK(z) /\ z.nonsense[c][s] = Nothing
      /\ \A d \in Samplers, r \in Sensors : d # c \/ r # s => SameShadow(v.nonsense[d][r], z.nonsense[d][r])
  BY <1>1, <1>4, <1>5, Configures
<1> HIDE DEF z
<1>7. \A d \in Samplers, r \in Sensors : d # c \/ r # s => SameShadow(w.nonsense[d][r], z.nonsense[d][r])
  BY <1>2, <1>4, <1>6 DEF SameShadow, SameShadows
<1>8. QED
  BY <1>6, <1>7 DEF z, v, u, a

\* The timers change, none is armed or put off.
LEMMA SlowsOK ==
    ASSUME NEW w, WorldOK(w), NEW y, TimersOK(y), \A b \in Acquires : Slower(w.x, y, b)
    PROVE  WorldOK([w EXCEPT !.x = y])
<1> DEFINE z == [w EXCEPT !.x = y]
<1>1. w \in Worlds /\ y \in [heap : Seq(TimerIds), timer : [TimerIds -> Timer \cup {Nothing}]]
  BY DEF WorldOK, Shape, TimersOK
<1>2. z \in Worlds /\ z.x = y /\ z.acquire = w.acquire /\ z.sensor = w.sensor /\ z.nonsense = w.nonsense
  BY <1>1 DEF Worlds
<1> HIDE DEF z
<1>3. Shape(z)
  BY <1>2 DEF WorldOK, Shape
<1>4. ASSUME NEW b \in Acquires PROVE AcquireOK(z, b)
  <2>1. Unseen(w, z, b) /\ Slower(w.x, z.x, b)
    BY <1>2 DEF Unseen, LinkedTo
  <2>2. QED
    BY <2>1, KeepsUnseen DEF WorldOK
<1>5. QED
  BY <1>3, <1>4 DEF WorldOK, z

\* set_integer_acquire_katcp
LEMMA SetsValue ==
    ASSUME NEW w, WorldOK(w), NEW a \in Acquires, w.acquire[a] # Nothing, NEW value \in Values
    PROVE  LET z == Propagated([w EXCEPT !.acquire[a].value = value], a)
           IN  WorldOK(z) /\ SameShadows(w, z)
<1> DEFINE ac == w.acquire[a]
           b == [ac EXCEPT !.value = value]
           u == With(w, a, b, w.x)
           z == Propagated(u, a)
<1>1. Shape(w) /\ ac \in Acquire /\ w.acquire \in [Acquires -> Acquire \cup {Nothing}] /\ w \in Worlds /\ TimersOK(w.x)
  BY ShapeIs DEF WorldOK
<1>2. [w EXCEPT !.acquire[a].value = value] = u
  BY <1>1 DEF With, Worlds
<1>3. b \in Acquire /\ b.polls = ac.polls /\ b.periodics = ac.periodics
  BY <1>1 DEF Acquire
<1> HIDE DEF b, u
<1>4. /\ Shape(u) /\ u.x = w.x /\ u.sensor = w.sensor /\ u.nonsense = w.nonsense
      /\ u.acquire[a] = b /\ b # Nothing
      /\ \A c \in Acquires : LinkedTo(u, c) = LinkedTo(w, c)
      /\ SameShadows(w, u)
      /\ \A c \in Acquires : c # a => Unseen(w, u, c)
  BY <1>1, <1>3, Withs DEF u
<1>5. Shape(z) /\ Passed(u, z, a)
  BY <1>4, Propagates
<1> HIDE DEF z
<1>6. ASSUME NEW c \in Acquires PROVE SameFor(u, z, c) /\ Slower(u.x, z.x, c) /\ Retold(u, z, c) /\ Told(z, a)
  BY <1>4, <1>5, PassedKeeps
<1>7. ASSUME NEW c \in Acquires, c # a PROVE AcquireOK(z, c)
  <2>1. Slower(w.x, u.x, c)
    BY <1>4, SlowerSelf
  <2>2. AcquireOK(u, c)
    BY <1>4, <1>7, <2>1, KeepsUnseen DEF WorldOK
  <2>3. QED
    BY <1>6, <2>2, KeepsOK
<1>8. AcquireOK(z, a)
  <2>1. SameFor(w, u, a)
    BY <1>3, <1>4 DEF SameFor, SameShadow
  <2>2. Slower(w.x, u.x, a)
    BY <1>4, SlowerSelf
  <2>3. TimersSound(u, a) /\ Paced(u, a)
    BY <2>1, <2>2, Keeps DEF WorldOK, AcquireOK
  <2>4. QED
    BY <1>4, <1>6, <2>3, Keeps DEF AcquireOK
<1>9. WorldOK(z)
  BY <1>5, <1>7, <1>8 DEF WorldOK
<1>10. SameShadows(w, z)
  BY <1>4, <1>5 DEF Passed, SameShadows
<1>11. QED
  BY <1>2, <1>9, <1>10 DEF z

-----------------------------------------------------------------------------
(* The invariant.                                                           *)

Loop == phase \in {"load", "wait", "serve"} /\ timeout \in Int \cup {Nothing}

SensorsInv == WorldOK(World) /\ NotForced(World) /\ Loop

LEMMA WorldIs ==
    /\ World.x = x /\ World.acquire = acquire /\ World.sensor = sensor /\ World.nonsense = nonsense
    /\ World'.x = x' /\ World'.acquire = acquire' /\ World'.sensor = sensor' /\ World'.nonsense = nonsense'
BY DEF World

LEMMA Became ==
    \A z : Becomes(z) /\ WorldOK(z) => World' = z
<1>1. ASSUME NEW z, Becomes(z), WorldOK(z) PROVE World' = z
  <2>1. z \in Worlds
    BY <1>1 DEF WorldOK, Shape
  <2>2. z = [x |-> z.x, acquire |-> z.acquire, sensor |-> z.sensor, nonsense |-> z.nonsense]
    BY <2>1 DEF Worlds
  <2>3. QED
    BY <1>1, <2>2 DEF Becomes, World
<1>2. QED
  BY <1>1

LEMMA BecameOK ==
    ASSUME Loop, UNCHANGED <<phase, timeout>>
    PROVE  \A z : Becomes(z) /\ WorldOK(z) /\ NotForced(z) => SensorsInv'
<1>1. Loop'
  BY DEF Loop
<1>2. ASSUME NEW z, Becomes(z), WorldOK(z), NotForced(z) PROVE SensorsInv'
  <2>1. World' = z
    BY <1>2, Became
  <2>2. QED
    BY <1>1, <1>2, <2>1 DEF SensorsInv
<1>3. QED
  BY <1>2

\* The strategies of other shadows do not matter.
LEMMA StillNotForced ==
    ASSUME NEW w, NEW z, NotForced(w), NEW c, NEW s,
           \A d \in Samplers, r \in Sensors : d # c \/ r # s => SameShadow(w.nonsense[d][r], z.nonsense[d][r]),
           z.nonsense[c][s] # Nothing => z.nonsense[c][s].strategy # "forced"
    PROVE  NotForced(z)
<1>1. ASSUME NEW d \in Samplers, NEW r \in Sensors, z.nonsense[d][r] # Nothing PROVE z.nonsense[d][r].strategy # "forced"
  <2>1. CASE d = c /\ r = s
    BY <1>1, <2>1
  <2>2. CASE ~(d = c /\ r = s)
    <3>1. SameShadow(w.nonsense[d][r], z.nonsense[d][r])
      BY <2>2
    <3>2. w.nonsense[d][r] # Nothing /\ z.nonsense[d][r].strategy = w.nonsense[d][r].strategy
      BY <1>1, <3>1 DEF SameShadow
    <3>3. QED
      BY <3>2 DEF NotForced
  <2>3. QED
    BY <2>1, <2>2
<1>2. QED
  BY <1>1 DEF NotForced

LEMMA SameNotForced ==
    ASSUME NEW w, NEW z, NotForced(w), SameShadows(w, z)
    PROVE  NotForced(z)
BY DEF NotForced, SameShadows

LEMMA SamplingKeeps ==
    ASSUME SensorsInv, NEW c \in Samplers, NEW s \in Sensors, Sampling(c, s)
    PROVE  SensorsInv'
<1>1. /\ WorldOK(World) /\ NotForced(World) /\ Loop /\ World.sensor[s] # Nothing /\ UNCHANGED <<phase, timeout>>
  BY WorldIs DEF SensorsInv, Sampling
<1>2. PICK strategy \in {"period", "off", "event"}, period \in Nat : Becomes(Configured(World, c, s, strategy, period))
  <2>1. CASE \E period \in Periods : Becomes(Configured(World, c, s, "period", period))
    BY <2>1, SensorsAssumption
  <2>2. CASE \E strategy \in {"off", "event"} : Becomes(Configured(World, c, s, strategy, 0))
    BY <2>2
  <2>3. QED
    BY <2>1, <2>2 DEF Sampling
<1> DEFINE z == Configured(World, c, s, strategy, period)
<1>3. strategy \in Strategies /\ strategy # "forced"
  BY DEF Strategies
<1>4. /\ WorldOK(z)
      /\ \A d \in Samplers, r \in Sensors : d # c \/ r # s => SameShadow(World.nonsense[d][r], z.nonsense[d][r])
      /\ IF strategy = "off" THEN z.nonsense[c][s] = Nothing ELSE z.nonsense[c][s].strategy = strategy
  BY <1>1, <1>3, Configures
<1>5. Becomes(z)
  BY <1>2
<1> HIDE DEF z
<1>6. NotForced(z)
  BY <1>1, <1>3, <1>4, StillNotForced
<1>7. QED
  BY <1>1, <1>4, <1>5, <1>6, BecameOK

LEMMA SamplingFailsKeeps ==
    ASSUME SensorsInv, NEW c \in Samplers, NEW s \in Sensors, SamplingFails(c, s)
    PROVE  SensorsInv'
<1> DEFINE z == Shadowed(World, c, s)
<1>1. /\ WorldOK(World) /\ NotForced(World) /\ Loop /\ World.sensor[s] # Nothing /\ UNCHANGED <<phase, timeout>>
      /\ Becomes(z)
  BY WorldIs DEF SensorsInv, SamplingFails
<1>2. /\ WorldOK(z)
      /\ \A d \in Samplers, r \in Sensors : z.nonsense[d][r] = World.nonsense[d][r] \/ z.nonsense[d][r].strategy = "off"
  BY <1>1, ShadowsOK
<1> HIDE DEF z
<1>3. NotForced(z)
  BY <1>1, <1>2 DEF NotForced
<1>4. QED
  BY <1>1, <1>2, <1>3, BecameOK

LEMMA SensorValueKeeps ==
    ASSUME SensorsInv, NEW c \in Samplers, NEW s \in Sensors, SensorValue(c, s)
    PROVE  SensorsInv'
<1> DEFINE a == World.sensor[s].acquire
           ns == World.nonsense[c][s]
           forced(value) == RunAcquire([World EXCEPT !.nonsense[c][s].strategy = "forced"], a, value)
           whole(value) == [forced(value) EXCEPT !.nonsense[c][s].strategy = ns.strategy]
           begun == Configured(World, c, s, "forced", 0)
           none(value) == Configured(RunAcquire(begun, a, value), c, s, "off", 0)
<1>1. /\ WorldOK(World) /\ NotForced(World) /\ Loop /\ World.sensor[s] # Nothing /\ UNCHANGED <<phase, timeout>>
  BY WorldIs DEF SensorsInv, SensorValue
<1>2. PICK value \in Values : IF ns # Nothing THEN Becomes(whole(value)) ELSE Becomes(none(value))
  BY WorldIs DEF SensorValue
<1>3. CASE ns # Nothing
  <2>1. /\ WorldOK(whole(value))
        /\ \A d \in Samplers, r \in Sensors : SameShadow(World.nonsense[d][r], whole(value).nonsense[d][r])
    BY <1>1, <1>3, ForcesShadow
  <2>2. Becomes(whole(value))
    BY <1>2, <1>3
  <2> HIDE DEF whole
  <2>3. NotForced(whole(value))
    BY <1>1, <2>1 DEF NotForced, SameShadow
  <2>4. QED
    BY <1>1, <2>1, <2>2, <2>3, BecameOK
<1>4. CASE ns = Nothing
  <2>1. /\ WorldOK(none(value)) /\ none(value).nonsense[c][s] = Nothing
        /\ \A d \in Samplers, r \in Sensors : d # c \/ r # s => SameShadow(World.nonsense[d][r], none(value).nonsense[d][r])
    BY <1>1, ForcesNone
  <2>2. Becomes(none(value))
    BY <1>2, <1>4
  <2> HIDE DEF none
  <2>3. NotForced(none(value))
    BY <1>1, <2>1, StillNotForced
  <2>4. QED
    BY <1>1, <2>1, <2>2, <2>3, BecameOK
<1>5. QED
  BY <1>3, <1>4

LEMMA SamplerLeavesKeeps ==
    ASSUME SensorsInv, NEW c \in Samplers, NEW s \in Sensors, SamplerLeaves(c, s)
    PROVE  SensorsInv'
<1> DEFINE z == Unshadowed(World, c, s)
<1>1. /\ WorldOK(World) /\ NotForced(World) /\ Loop /\ UNCHANGED <<phase, timeout>>
      /\ Becomes(z) /\ World.nonsense[c][s] # Nothing
  BY WorldIs DEF SensorsInv, SamplerLeaves
<1>2. World.sensor[s] # Nothing
  BY <1>1 DEF WorldOK, Shape
<1>3. /\ WorldOK(z) /\ z.nonsense[c][s] = Nothing
      /\ \A d \in Samplers, r \in Sensors : d # c \/ r # s => SameShadow(World.nonsense[d][r], z.nonsense[d][r])
  BY <1>1, <1>2, Unshadows
<1> HIDE DEF z
<1>4. NotForced(z)
  BY <1>1, <1>3, StillNotForced
<1>5. QED
  BY <1>1, <1>3, <1>4, BecameOK

LEMMA SetAcquireKeeps ==
    ASSUME SensorsInv, NEW a \in Acquires, SetAcquire(a)
    PROVE  SensorsInv'
<1>1. /\ WorldOK(World) /\ NotForced(World) /\ Loop /\ UNCHANGED <<phase, timeout>> /\ World.acquire[a] # Nothing
  BY WorldIs DEF SensorsInv, SetAcquire
<1>2. PICK value \in Values : Becomes(Propagated([World EXCEPT !.acquire[a].value = value], a))
  BY DEF SetAcquire
<1> DEFINE z == Propagated([World EXCEPT !.acquire[a].value = value], a)
<1>3. WorldOK(z) /\ SameShadows(World, z)
  BY <1>1, SetsValue
<1>4. Becomes(z)
  BY <1>2
<1> HIDE DEF z
<1>5. NotForced(z)
  BY <1>1, <1>3, SameNotForced
<1>6. QED
  BY <1>1, <1>3, <1>4, <1>5, BecameOK

-----------------------------------------------------------------------------
(* The owners of sensors.                                                   *)

LEMMA WithIs ==
    ASSUME NEW w \in Worlds, NEW a \in Acquires, NEW b \in Acquire, NEW y, TimersOK(y)
    PROVE  With(w, a, b, y) = [x |-> y, acquire |-> [w.acquire EXCEPT ![a] = b], sensor |-> w.sensor, nonsense |-> w.nonsense]
<1> DEFINE acq == [w.acquire EXCEPT ![a] = b]
           z == With(w, a, b, y)
<1>1. acq \in [Acquires -> Acquire \cup {Nothing}]
  BY DEF Worlds
<1>2. y \in [heap : Seq(TimerIds), timer : [TimerIds -> Timer \cup {Nothing}]]
  BY DEF TimersOK
<1> HIDE DEF acq
<1>3. z \in Worlds /\ z.x = y /\ z.acquire = acq /\ z.sensor = w.sensor /\ z.nonsense = w.nonsense
  BY <1>1, <1>2 DEF Worlds, With, acq
<1> HIDE DEF z
<1>4. z = [x |-> z.x, acquire |-> z.acquire, sensor |-> z.sensor, nonsense |-> z.nonsense]
  BY <1>3 DEF Worlds
<1>5. QED
  BY <1>3, <1>4 DEF z, acq

LEMMA SetupAcquireKeeps ==
    ASSUME SensorsInv, NEW a \in Acquires, SetupAcquire(a)
    PROVE  SensorsInv'
<1> DEFINE w == World
           b(polls) == [polls |-> polls, recent |-> FALSE, value |-> 0, periodics |-> 0, current |-> 0]
<1>1. /\ WorldOK(w) /\ NotForced(w) /\ Loop /\ Loop' /\ Shape(w) /\ w \in Worlds /\ TimersOK(w.x)
      /\ w.acquire[a] = Nothing
  BY WorldIs DEF SensorsInv, SetupAcquire, Loop, WorldOK, Shape
<1>2. PICK polls \in BOOLEAN : acquire' = [acquire EXCEPT ![a] = b(polls)]
  BY DEF SetupAcquire
<1> DEFINE m == b(polls)
           z == With(w, a, m, w.x)
<1>3. m \in Acquire /\ m.periodics = 0
  BY <1>2 DEF Acquire, Values
<1>4. acquire' = [acquire EXCEPT ![a] = m] /\ UNCHANGED <<x, sensor, nonsense>>
  BY <1>2 DEF SetupAcquire
<1> HIDE DEF m
<1> HIDE DEF w, z
<1>5. /\ Shape(z) /\ z.x = w.x /\ z.sensor = w.sensor /\ z.nonsense = w.nonsense
      /\ z.acquire[a] = m /\ m # Nothing
      /\ \A c \in Acquires : LinkedTo(z, c) = LinkedTo(w, c)
      /\ SameShadows(w, z)
      /\ \A c \in Acquires : c # a => Unseen(w, z, c)
  BY <1>1, <1>3, Withs DEF z
<1>51. World' = z
  <2>1. z = [x |-> w.x, acquire |-> [w.acquire EXCEPT ![a] = m], sensor |-> w.sensor, nonsense |-> w.nonsense]
    BY <1>1, <1>3, WithIs DEF z
  <2>3. x' = x /\ sensor' = sensor /\ nonsense' = nonsense
    BY <1>4
  <2>4. World' = [x |-> x, acquire |-> [acquire EXCEPT ![a] = m], sensor |-> sensor, nonsense |-> nonsense]
    BY <1>4, <2>3 DEF World
  <2>5. w.x = x /\ w.acquire = acquire /\ w.sensor = sensor /\ w.nonsense = nonsense
    BY WorldIs DEF w
  <2>6. QED
    BY <2>1, <2>4, <2>5
<1>6. \A c \in Acquires : c # a => AcquireOK(z, c)
  BY <1>1, <1>5, SlowerSelf, KeepsUnseen DEF WorldOK
<1>7. AcquireOK(z, a)
  <2>1. LinkedTo(z, a) = {}
    BY <1>1, <1>5, ShapeIs DEF LinkedTo
  <2>2. Pollers(z, a) = {}
    BY <2>1 DEF Pollers
  <2>3. z.acquire[a].periodics = Cardinality(Pollers(z, a)) /\ ~(z.acquire[a].periodics > 0)
    BY <1>3, <1>5, <2>2, FS_EmptySet
  <2>4. TimersSound(w, a)
    BY <1>1 DEF WorldOK, AcquireOK
  <2>5. TimersSound(z, a)
    BY <1>1, <1>5, <2>4 DEF TimersSound, TimersOf
  <2>6. QED
    BY <2>1, <2>3, <2>5 DEF AcquireOK, Paced, Told
<1>8. WorldOK(z) /\ NotForced(z)
  BY <1>1, <1>5, <1>6, <1>7, SameNotForced DEF WorldOK
<1>9. QED
  BY <1>1, <1>51, <1>8 DEF SensorsInv

\* A sensor is linked or unlinked; it has no shadows.
LEMMA Links ==
    ASSUME NEW w, WorldOK(w), NEW s \in Sensors, \A c \in Samplers : w.nonsense[c][s] = Nothing,
           NEW sn \in Sensor \cup {Nothing}, sn # Nothing => w.acquire[sn.acquire] # Nothing
    PROVE  LET z == [w EXCEPT !.sensor = [w.sensor EXCEPT ![s] = sn]]
           IN  WorldOK(z) /\ z.nonsense = w.nonsense /\ z.x = w.x /\ z.acquire = w.acquire
               /\ z.sensor[s] = sn /\ \A r \in Sensors : r # s => z.sensor[r] = w.sensor[r]
<1> DEFINE sensors == [w.sensor EXCEPT ![s] = sn]
           z == [w EXCEPT !.sensor = sensors]
<1>1. Shape(w) /\ w \in Worlds /\ w.sensor \in [Sensors -> Sensor \cup {Nothing}] /\ TimersOK(w.x)
  BY ShapeIs DEF WorldOK
<1>2. /\ sensors \in [Sensors -> Sensor \cup {Nothing}] /\ sensors[s] = sn
      /\ \A r \in Sensors : r # s => sensors[r] = w.sensor[r]
  BY <1>1
<1> HIDE DEF sensors
<1>3. z \in Worlds /\ z.x = w.x /\ z.acquire = w.acquire /\ z.nonsense = w.nonsense /\ z.sensor = sensors
  BY <1>1, <1>2 DEF Worlds
<1> HIDE DEF z
<1>4. Shape(z)
  <2>1. \A r \in Sensors : z.sensor[r] # Nothing => z.acquire[z.sensor[r].acquire] # Nothing
    BY <1>1, <1>2, <1>3, ShapeIs
  <2>2. \A c \in Samplers, r \in Sensors : z.nonsense[c][r] # Nothing => z.sensor[r] # Nothing
    BY <1>1, <1>2, <1>3, ShapeIs
  <2>3. QED
    BY <1>1, <1>3, <2>1, <2>2 DEF Shape
<1>5. ASSUME NEW b \in Acquires PROVE AcquireOK(z, b)
  <2> DEFINE polls(t, q) == LET ns == t.nonsense[q[1]][q[2]]
                            IN  ns # Nothing /\ (ns.strategy = "period" \/ (ns.strategy = "event" /\ t.acquire[b].polls))
             periods(t) == {t.nonsense[q[1]][q[2]].period : q \in Pollers(t, b)}
  <2>1. \A r : r # s => (r \in LinkedTo(z, b) <=> r \in LinkedTo(w, b))
    BY <1>2, <1>3 DEF LinkedTo
  <2>2. Pollers(z, b) = {q \in Samplers \X LinkedTo(z, b) : polls(w, q)}
        /\ Pollers(w, b) = {q \in Samplers \X LinkedTo(w, b) : polls(w, q)}
    BY <1>3 DEF Pollers
  <2>3. \A q : q[1] \in Samplers /\ q[2] = s => ~polls(w, q)
    OBVIOUS
  <2> HIDE DEF polls
  <2>4. Pollers(z, b) = Pollers(w, b)
    <3>1. ASSUME NEW q \in Pollers(z, b) PROVE q \in Pollers(w, b)
      <4>1. q \in Samplers \X LinkedTo(z, b) /\ polls(w, q)
        BY <2>2
      <4>2. q[2] # s /\ q[2] \in LinkedTo(w, b) /\ q \in Samplers \X LinkedTo(w, b)
        BY <2>1, <2>3, <4>1
      <4>3. QED
        BY <2>2, <4>1, <4>2
    <3>2. ASSUME NEW q \in Pollers(w, b) PROVE q \in Pollers(z, b)
      <4>1. q \in Samplers \X LinkedTo(w, b) /\ polls(w, q)
        BY <2>2
      <4>2. q[2] # s /\ q[2] \in LinkedTo(z, b) /\ q \in Samplers \X LinkedTo(z, b)
        BY <2>1, <2>3, <4>1
      <4>3. QED
        BY <2>2, <4>1, <4>2
    <3>3. QED
      BY <3>1, <3>2
  <2>5. Shortest(z, b) = Shortest(w, b)
    <3>1. periods(z) = periods(w)
      BY <1>3, <2>4
    <3>2. QED
      BY <3>1 DEF Shortest
  <2>6. AcquireOK(w, b)
    BY DEF WorldOK
  <2>7. TimersSound(z, b)
    BY <1>3, <2>6 DEF TimersSound, TimersOf, AcquireOK
  <2>8. w.acquire[b] # Nothing => Paced(z, b)
    BY <1>3, <2>4, <2>5, <2>6 DEF Paced, TimersOf, AcquireOK
  <2>9. ASSUME w.acquire[b] # Nothing PROVE Told(z, b)
    <3>1. Told(w, b)
      BY <2>6, <2>9 DEF AcquireOK
    <3>2. ASSUME z.acquire[b].periodics = 0, ~z.acquire[b].polls, NEW c \in Samplers, NEW r \in LinkedTo(z, b),
                 z.nonsense[c][r] # Nothing, z.nonsense[c][r].strategy = "event"
          PROVE  z.nonsense[c][r].previous = z.acquire[b].value
      <4>1. r \in LinkedTo(w, b)
        BY <1>3, <2>1, <3>2
      <4>2. QED
        BY <1>3, <3>1, <3>2, <4>1 DEF Told
    <3>3. QED
      BY <3>2 DEF Told
  <2>10. QED
    BY <1>3, <2>7, <2>8, <2>9 DEF AcquireOK
<1>6. QED
  BY <1>2, <1>3, <1>4, <1>5 DEF WorldOK, z, sensors

LEMMA DeclareSensorKeeps ==
    ASSUME SensorsInv, NEW s \in Sensors, NEW a \in Acquires, DeclareSensor(s, a)
    PROVE  SensorsInv'
<1> DEFINE w == World
           sn == [acquire |-> a, current |-> 0]
           z == [w EXCEPT !.sensor = [w.sensor EXCEPT ![s] = sn]]
<1>1. /\ WorldOK(w) /\ NotForced(w) /\ Loop' /\ Shape(w)
      /\ w.sensor[s] = Nothing /\ w.acquire[a] # Nothing
  BY WorldIs DEF SensorsInv, DeclareSensor, Loop, WorldOK
<1>2. World' = z
  BY DEF DeclareSensor, World
<1>3. sn \in Sensor /\ sn.acquire = a /\ sn \in Sensor \cup {Nothing}
  BY DEF Sensor, Values
<1> HIDE DEF w, sn, z
<1>4. \A c \in Samplers : w.nonsense[c][s] = Nothing
  BY <1>1 DEF Shape
<1>5. WorldOK(z) /\ z.nonsense = w.nonsense
  BY <1>1, <1>3, <1>4, Links DEF z
<1>6. NotForced(z)
  BY <1>1, <1>5 DEF NotForced
<1>7. QED
  BY <1>1, <1>2, <1>5, <1>6 DEF SensorsInv

LEMMA DestroySensorKeeps ==
    ASSUME SensorsInv, NEW s \in Sensors, DestroySensor(s)
    PROVE  SensorsInv'
<1> DEFINE w == World
           a == w.sensor[s].acquire
           v == [w EXCEPT !.sensor = [w.sensor EXCEPT ![s] = Nothing]]
           y == IF w.acquire[a].periodics > 0 THEN Disarmed(w.x, a) ELSE w.x
           z == [v EXCEPT !.x = y, !.acquire = [w.acquire EXCEPT ![a] = Nothing]]
<1>1. /\ WorldOK(w) /\ NotForced(w) /\ Loop' /\ Shape(w)
      /\ w.sensor[s] # Nothing /\ \A c \in Samplers : w.nonsense[c][s] = Nothing
  BY WorldIs DEF SensorsInv, DestroySensor, Loop, WorldOK
<1>2. World' = IF LinkedTo(w, a) = {s} THEN z ELSE v
  <2>1. CASE LinkedTo(w, a) = {s}
    BY <2>1, WorldIs DEF DestroySensor, World
  <2>2. CASE LinkedTo(w, a) # {s}
    BY <2>2, WorldIs DEF DestroySensor, World
  <2>3. QED
    BY <2>1, <2>2
<1> HIDE DEF w, v, y, z
<1>3. /\ WorldOK(v) /\ v.nonsense = w.nonsense /\ v.x = w.x /\ v.acquire = w.acquire
      /\ v.sensor[s] = Nothing /\ \A r \in Sensors : r # s => v.sensor[r] = w.sensor[r]
  BY <1>1, Links DEF v
<1>4. NotForced(v)
  BY <1>1, <1>3 DEF NotForced
<1>5. ASSUME LinkedTo(w, a) = {s} PROVE WorldOK(z) /\ NotForced(z)
  <2>1. /\ Shape(v) /\ v \in Worlds /\ v.acquire \in [Acquires -> Acquire \cup {Nothing}]
        /\ a \in Acquires /\ v.acquire[a] # Nothing
    BY <1>1, <1>3, ShapeIs DEF WorldOK
  <2> HIDE DEF a
  <2>2. TimersSound(v, a)
    BY <1>3, <2>1 DEF WorldOK, AcquireOK
  <2>3. /\ TimersOK(y)
        /\ \A t \in Used(y) : y.timer[t].data = a => ~y.timer[t].armed /\ y.timer[t].when <= y.timer[t].interval
        /\ \A b \in Acquires : Slower(v.x, y, b)
    BY <1>3, <2>1, <2>2, StopsTimer DEF y
  <2>4. z \in Worlds /\ z.x = y /\ z.nonsense = v.nonsense /\ z.sensor = v.sensor
        /\ z.acquire[a] = Nothing /\ \A b \in Acquires : b # a => z.acquire[b] = v.acquire[b]
    <3>1. y \in [heap : Seq(TimerIds), timer : [TimerIds -> Timer \cup {Nothing}]]
      BY <2>3 DEF TimersOK
    <3>2. [w.acquire EXCEPT ![a] = Nothing] \in [Acquires -> Acquire \cup {Nothing}]
      BY <1>3, <2>1
    <3>3. z \in Worlds /\ z.x = y /\ z.nonsense = v.nonsense /\ z.sensor = v.sensor
          /\ z.acquire = [w.acquire EXCEPT ![a] = Nothing]
      BY <2>1, <3>1, <3>2 DEF z, Worlds
    <3>4. QED
      BY <1>3, <2>1, <3>3
  <2>5. LinkedTo(v, a) = {}
    BY <1>3, <1>5 DEF LinkedTo
  <2>6. ASSUME NEW r \in Sensors, z.sensor[r] # Nothing PROVE z.acquire[z.sensor[r].acquire] # Nothing
    <3>1. v.sensor[r] # Nothing /\ v.sensor[r].acquire \in Acquires /\ v.acquire[v.sensor[r].acquire] # Nothing
      BY <2>1, <2>4, <2>6, ShapeIs
    <3>2. v.sensor[r].acquire # a
      BY <2>5, <3>1 DEF LinkedTo
    <3>3. QED
      BY <2>4, <3>1, <3>2
  <2>7. Shape(z)
    BY <2>1, <2>3, <2>4, <2>6 DEF Shape
  <2>8. ASSUME NEW b \in Acquires, b # a PROVE AcquireOK(z, b)
    <3>1. Unseen(v, z, b) /\ Slower(v.x, z.x, b)
      BY <2>3, <2>4, <2>8 DEF Unseen, LinkedTo
    <3>2. QED
      BY <1>3, <3>1, KeepsUnseen DEF WorldOK
  <2>9. AcquireOK(z, a)
    BY <2>3, <2>4 DEF AcquireOK, TimersSound, TimersOf
  <2>10. NotForced(z)
    BY <1>4, <2>4 DEF NotForced
  <2>11. QED
    BY <2>7, <2>8, <2>9, <2>10 DEF WorldOK
<1>6. QED
  BY <1>1, <1>2, <1>3, <1>4, <1>5 DEF SensorsInv

\* wake_notice_in_tv_katcp and other one-shot timers.
LEMMA SetAlarmKeeps ==
    ASSUME SensorsInv, NEW alarm \in Alarms, SetAlarm(alarm)
    PROVE  SensorsInv'
<1> DEFINE w == World
<1>1. WorldOK(w) /\ NotForced(w) /\ Loop /\ UNCHANGED <<phase, timeout>> /\ TimersOK(w.x) /\ Fits(w.x, alarm)
  <2>1. WorldOK(w) /\ NotForced(w) /\ Loop /\ UNCHANGED <<phase, timeout>> /\ TimersOK(w.x) /\ w.x = x
    BY WorldIs DEF SensorsInv, SetAlarm, WorldOK, Shape
  <2>2. Ringing(x) = Others(x)
    BY <2>1, InHeapIs DEF Ringing, Others, TimersOK
  <2>3. QED
    BY <2>1, <2>2 DEF SetAlarm, Fits
<1>2. PICK tv \in Nat : x' = RegisterIn(w.x, alarm, tv)
  BY WorldIs, SensorsAssumption DEF SetAlarm
<1> DEFINE y == RegisterIn(w.x, alarm, tv)
           z == [w EXCEPT !.x = y]
<1>3. World' = z
  BY <1>2 DEF SetAlarm, World
<1>4. tv \in Int /\ 0 \in Nat /\ alarm \in Acquires \cup Alarms /\ alarm \notin Acquires
  BY SensorsAssumption
<1> HIDE DEF w
<1>registered. y = Registered(w.x, alarm, tv, 0)
  BY DEF RegisterIn
<1> HIDE DEF y
<1>5. TimersOK(y) /\ Gains(w.x, y, Timed(tv, 0, alarm))
  BY <1>1, <1>4, <1>registered, Registers
<1>6. PICK t \in TimerIds : w.x.timer[t] = Nothing /\ y.timer = [w.x.timer EXCEPT ![t] = Timed(tv, 0, alarm)]
  BY <1>5 DEF Gains
<1>7. y.timer[t] = Timed(tv, 0, alarm) /\ \A u \in TimerIds : u # t => y.timer[u] = w.x.timer[u]
  BY <1>1, <1>6 DEF TimersOK
<1>8. y.timer[t].data = alarm
  BY <1>7 DEF Timed
<1>9. \A b \in Acquires : Slower(w.x, y, b)
  BY <1>4, <1>7, <1>8 DEF Slower, Used
<1>10. WorldOK(z)
  BY <1>1, <1>5, <1>9, SlowsOK
<1>11. NotForced(z)
  <2>1. z.nonsense = w.nonsense
    BY <1>1 DEF WorldOK, Shape, Worlds
  <2>2. QED
    BY <1>1, <2>1 DEF NotForced
<1>12. QED
  BY <1>1, <1>3, <1>10, <1>11 DEF SensorsInv, Loop

-----------------------------------------------------------------------------
(* The main loop.                                                           *)

\* The first timer is due first, whatever the heap holds.
LEMMA FirstIsFirst ==
    ASSUME NEW y, TimersOK(y), y.heap # << >>
    PROVE  /\ Head(y.heap) \in Used(y)
           /\ \A t \in Used(y) : y.timer[Head(y.heap)].when <= y.timer[t].when
<1>1. y.timer \in [TimerIds -> Timer \cup {Nothing}] /\ y.heap \in Seq(TimerIds)
  BY DEF TimersOK
<1>2. 1 \in 1 .. Len(y.heap) /\ Head(y.heap) = y.heap[1]
  BY <1>1
<1>3. Head(y.heap) \in Used(y)
  BY <1>2 DEF TimersOK, Entries
<1>4. Keys(y.timer) \in [TimerIds -> Int]
  BY <1>1, KeysIs
<1>5. ASSUME NEW t \in Used(y) PROVE y.timer[Head(y.heap)].when <= y.timer[t].when
  <2>1. PICK i \in 1 .. Len(y.heap) : t = y.heap[i]
    BY DEF TimersOK, Entries
  <2>2. Keys(y.timer)[y.heap[1]] <= Keys(y.timer)[y.heap[i]]
    BY <1>1, <1>4, TopLeast DEF TimersOK
  <2>3. QED
    BY <1>2, <1>3, <2>1, <2>2 DEF Keys, Used
<1>6. QED
  BY <1>3, <1>5

LEMMA TimeoutIs ==
    ASSUME NEW y, TimersOK(y)
    PROVE  /\ Timeout(y) \in Int \cup {Nothing}
           /\ \A t \in Used(y) : Timeout(y) # Nothing /\ Timeout(y) <= y.timer[t].when
<1>1. CASE y.heap = << >>
  <2>1. Used(y) = {}
    BY <1>1 DEF TimersOK, Entries
  <2>2. QED
    BY <1>1, <2>1 DEF Timeout
<1>2. CASE y.heap # << >>
  <2>1. Timeout(y) = y.timer[Head(y.heap)].when
    BY <1>2 DEF Timeout
  <2>2. Head(y.heap) \in Used(y) /\ \A t \in Used(y) : y.timer[Head(y.heap)].when <= y.timer[t].when
    BY <1>2, FirstIsFirst
  <2>3. Timeout(y) \in Int
    BY <2>1, <2>2, TimerIs
  <2>4. QED
    BY <2>1, <2>2, <2>3, NothingElse
<1>3. QED
  BY <1>1, <1>2

LEMMA DisarmedSlower ==
    ASSUME NEW y, TimersOK(y), NEW z, OnlyDisarmed(y, z)
    PROVE  /\ \A b : Slower(y, z, b)
           /\ \A t \in Used(z) : t \in Used(y) /\ z.timer[t] = y.timer[t]
<1>1. \A t \in Used(z) : t \in Used(y) /\ z.timer[t] = y.timer[t]
  BY DEF OnlyDisarmed, Used
<1>2. QED
  BY <1>1 DEF Slower

\* A world in which only timers have changed.
LEMMA OnlyTimers ==
    ASSUME NEW w, WorldOK(w), NotForced(w), NEW y, TimersOK(y), \A b \in Acquires : Slower(w.x, y, b)
    PROVE  /\ WorldOK([w EXCEPT !.x = y]) /\ NotForced([w EXCEPT !.x = y])
           /\ [w EXCEPT !.x = y] = [x |-> y, acquire |-> w.acquire, sensor |-> w.sensor, nonsense |-> w.nonsense]
<1>1. w \in Worlds
  BY DEF WorldOK, Shape
<1>2. WorldOK([w EXCEPT !.x = y])
  BY SlowsOK
<1>3. [w EXCEPT !.x = y] = [x |-> y, acquire |-> w.acquire, sensor |-> w.sensor, nonsense |-> w.nonsense]
  BY <1>1 DEF Worlds
<1>4. NotForced([w EXCEPT !.x = y])
  BY <1>3 DEF NotForced
<1>5. QED
  BY <1>2, <1>3, <1>4

LEMMA LoadKeeps ==
    ASSUME SensorsInv, Load
    PROVE  SensorsInv'
<1> DEFINE w == World
           y == Loaded(w.x)
<1>1. /\ WorldOK(w) /\ NotForced(w) /\ TimersOK(w.x)
      /\ phase' = "load" /\ timeout' = Timeout(y)
      /\ x' = y /\ acquire' = w.acquire /\ sensor' = w.sensor /\ nonsense' = w.nonsense
  BY WorldIs DEF SensorsInv, Load, svars, WorldOK, Shape
<1>2. World' = [x |-> y, acquire |-> w.acquire, sensor |-> w.sensor, nonsense |-> w.nonsense]
  BY <1>1 DEF World
<1> HIDE DEF w
<1>3. TimersOK(y) /\ OnlyDisarmed(w.x, y)
  BY <1>1, Loads
<1> HIDE DEF y
<1>4. \A b \in Acquires : Slower(w.x, y, b)
  BY <1>1, <1>3, DisarmedSlower
<1>5. WorldOK(World') /\ NotForced(World')
  BY <1>1, <1>2, <1>3, <1>4, OnlyTimers
<1>6. Loop'
  BY <1>1, <1>3, TimeoutIs DEF Loop
<1>7. QED
  BY <1>5, <1>6 DEF SensorsInv

LEMMA WaitKeeps ==
    ASSUME SensorsInv, Wait
    PROVE  SensorsInv'
<1>1. World' = World
  BY DEF Wait, World
<1>2. Loop'
  BY DEF SensorsInv, Loop, Wait
<1>3. QED
  BY <1>1, <1>2 DEF SensorsInv

\* A timer has been run.
LEMMA FinishedSlower ==
    ASSUME NEW y, TimersOK(y), TopDue(y)
    PROVE  TimersOK(Finished(y)) /\ \A b : Slower(y, Finished(y), b)
<1> DEFINE z == Finished(y)
           u == Head(y.heap)
<1>1. y.heap # << >> /\ y.timer[u].when <= 0
  BY DEF TopDue
<1>2. /\ TimersOK(z) /\ u \in Used(y)
      /\ \A t \in TimerIds \ {u} : z.timer[t] = y.timer[t]
      /\ IF y.timer[u].interval = 0 THEN z.timer[u] = Nothing
         ELSE \E v \in Int : v <= y.timer[u].interval /\ z.timer[u] = [y.timer[u] EXCEPT !.when = v]
  BY <1>1, Finishes
<1> HIDE DEF z, u
<1>3. ASSUME NEW t \in Used(z), t # u PROVE t \in Used(y) /\ z.timer[t] = y.timer[t]
  BY <1>2, <1>3 DEF Used
<1>4. ASSUME u \in Used(z)
      PROVE  /\ z.timer[u].data = y.timer[u].data /\ z.timer[u].interval = y.timer[u].interval
             /\ z.timer[u].armed = y.timer[u].armed /\ z.timer[u].when <= z.timer[u].interval
  <2>1. y.timer[u] \in Timer
    BY <1>2, TimerIs
  <2>2. PICK v \in Int : v <= y.timer[u].interval /\ z.timer[u] = [y.timer[u] EXCEPT !.when = v]
    BY <1>2, <1>4 DEF Used
  <2>3. QED
    BY <2>1, <2>2 DEF Timer
<1>5. \A b : Slower(y, z, b)
  BY <1>2, <1>3, <1>4 DEF Slower
<1>6. QED
  BY <1>2, <1>5 DEF z

LEMMA EventKeeps ==
    ASSUME SensorsInv, Event
    PROVE  SensorsInv'
<1> DEFINE w == World
           ts == w.x.timer[Head(w.x.heap)]
<1>1. /\ WorldOK(w) /\ NotForced(w) /\ TimersOK(w.x) /\ w \in Worlds
      /\ phase' = "serve" /\ timeout' = Nothing
      /\ IF TopDue(w.x)
         THEN \E value \in Values :
                 Becomes([(IF ts.data \in Alarms THEN w ELSE RunAcquire(w, ts.data, value)) EXCEPT !.x = Finished(w.x)])
         ELSE x' = Collected(w.x) /\ acquire' = w.acquire /\ sensor' = w.sensor /\ nonsense' = w.nonsense
  BY WorldIs DEF SensorsInv, Event, svars, WorldOK, Shape
<1>2. Loop'
  BY <1>1 DEF Loop
<1>3. x' = Collected(w.x) /\ acquire' = w.acquire /\ sensor' = w.sensor /\ nonsense' = w.nonsense =>
        World' = [x |-> Collected(w.x), acquire |-> w.acquire, sensor |-> w.sensor, nonsense |-> w.nonsense]
  BY DEF World
<1> HIDE DEF w
<1>4. CASE TopDue(w.x)
  <2>1. PICK value \in Values :
           Becomes([(IF ts.data \in Alarms THEN w ELSE RunAcquire(w, ts.data, value)) EXCEPT !.x = Finished(w.x)])
    BY <1>1, <1>4
  <2> DEFINE v == IF ts.data \in Alarms THEN w ELSE RunAcquire(w, ts.data, value)
             z == [v EXCEPT !.x = Finished(w.x)]
  <2>2. TimersOK(Finished(w.x)) /\ \A b : Slower(w.x, Finished(w.x), b)
    BY <1>1, <1>4, FinishedSlower
  <2>3. WorldOK(v) /\ NotForced(v) /\ v.x = w.x
    <3>1. CASE ts.data \in Alarms
      BY <1>1, <3>1
    <3>2. CASE ts.data \notin Alarms
      <4>1. Head(w.x.heap) \in Used(w.x) /\ ts.armed
        BY <1>1, <1>4, FirstIsFirst DEF TopDue
      <4>2. ts.data \in Acquires
        BY <1>1, <3>2, <4>1, TimerIs
      <4>3. w.acquire[ts.data] # Nothing
        BY <1>1, <4>1, <4>2 DEF WorldOK, AcquireOK, TimersSound, TimersOf
      <4>4. v = RunAcquire(w, ts.data, value)
        BY <3>2
      <4> HIDE DEF ts, v
      <4>5. WorldOK(v) /\ v.x = w.x /\ SameShadows(w, v)
        BY <1>1, <2>1, <4>2, <4>3, <4>4, RunsOK
      <4>6. QED
        BY <1>1, <4>5, SameNotForced
    <3>3. QED
      BY <3>1, <3>2
  <2>4. Becomes(z)
    BY <2>1
  <2> HIDE DEF v
  <2>5. WorldOK(z) /\ NotForced(z)
    BY <2>2, <2>3, OnlyTimers
  <2>6. World' = z
    BY <2>4, <2>5, Became
  <2>7. QED
    BY <1>2, <2>5, <2>6 DEF SensorsInv
<1>5. CASE ~TopDue(w.x)
  <2> DEFINE y == Collected(w.x)
  <2>1. World' = [x |-> y, acquire |-> w.acquire, sensor |-> w.sensor, nonsense |-> w.nonsense]
    BY <1>1, <1>3, <1>5
  <2>2. TimersOK(y) /\ OnlyDisarmed(w.x, y)
    BY <1>1, Collects
  <2> HIDE DEF y
  <2>3. \A b \in Acquires : Slower(w.x, y, b)
    BY <1>1, <2>2, DisarmedSlower
  <2>4. WorldOK(World') /\ NotForced(World')
    BY <1>1, <2>1, <2>2, <2>3, OnlyTimers
  <2>5. QED
    BY <1>2, <2>4 DEF SensorsInv
<1>6. QED
  BY <1>4, <1>5

\* Time passes, and functions may be called again.
LEMMA TickKeeps ==
    ASSUME SensorsInv, Tick
    PROVE  SensorsInv'
<1> DEFINE w == World
           y == [w.x EXCEPT !.timer = Later(@)]
           acq == [a \in Acquires |-> IF w.acquire[a] # Nothing THEN [w.acquire[a] EXCEPT !.recent = FALSE] ELSE Nothing]
           z == [x |-> y, acquire |-> acq, sensor |-> w.sensor, nonsense |-> w.nonsense]
<1>1. /\ WorldOK(w) /\ NotForced(w) /\ Shape(w) /\ TimersOK(w.x) /\ w \in Worlds /\ Loop'
  <2>1. Loop'
    <3>1. timeout \in Int \cup {Nothing} /\ timeout' = IF timeout = Nothing THEN Nothing ELSE timeout - 1
      BY DEF SensorsInv, Loop, Tick
    <3>2. timeout' \in Int \cup {Nothing}
      BY <3>1
    <3>3. QED
      BY <3>2 DEF SensorsInv, Loop, Tick
  <2>2. QED
    BY <2>1 DEF SensorsInv, WorldOK, Shape
<1>2. World' = z
  <2>1. x' = y /\ sensor' = w.sensor /\ nonsense' = w.nonsense
    BY WorldIs DEF Tick
  <2>2. acquire' = acq
    BY WorldIs DEF Tick, Live
  <2> HIDE DEF y, acq, w
  <2>3. QED
    BY <2>1, <2>2 DEF World
<1> HIDE DEF w
<1>3. /\ TimersOK(y) /\ Used(y) = Used(w.x)
      /\ \A t \in Used(w.x) : y.timer[t] = [w.x.timer[t] EXCEPT !.when = @ - 1]
  BY <1>1, Passes
<1>4. ASSUME NEW a \in Acquires
      PROVE  /\ acq[a] = Nothing <=> w.acquire[a] = Nothing
             /\ w.acquire[a] # Nothing => /\ acq[a] \in Acquire /\ acq[a].polls = w.acquire[a].polls
                                          /\ acq[a].periodics = w.acquire[a].periodics
                                          /\ acq[a].value = w.acquire[a].value
  <2>1. CASE w.acquire[a] = Nothing
    BY <2>1
  <2>2. CASE w.acquire[a] # Nothing
    <3>1. w.acquire[a] \in Acquire /\ acq[a] = [w.acquire[a] EXCEPT !.recent = FALSE]
      BY <1>1, <2>2, ShapeIs
    <3> HIDE DEF acq
    <3>2. acq[a] \in Acquire /\ acq[a].polls = w.acquire[a].polls /\ acq[a].periodics = w.acquire[a].periodics
          /\ acq[a].value = w.acquire[a].value
      BY <3>1 DEF Acquire
    <3>3. QED
      BY <2>2, <3>2, NothingElse
  <2>3. QED
    BY <2>1, <2>2
<1>5. acq \in [Acquires -> Acquire \cup {Nothing}]
  <2>1. \A a \in Acquires : acq[a] \in Acquire \cup {Nothing}
    BY <1>4
  <2>2. acq = [a \in Acquires |-> acq[a]]
    OBVIOUS
  <2> HIDE DEF acq
  <2>3. QED
    BY <2>1, <2>2
<1> HIDE DEF acq, y
<1>6. z.x = y /\ z.acquire = acq /\ z.sensor = w.sensor /\ z.nonsense = w.nonsense /\ z \in Worlds
  BY <1>1, <1>3, <1>5 DEF Worlds, TimersOK
<1> HIDE DEF z
<1>7. Shape(z)
  <2>1. \A s \in Sensors : z.sensor[s] # Nothing => z.acquire[z.sensor[s].acquire] # Nothing
    BY <1>1, <1>4, <1>6, ShapeIs
  <2>2. QED
    BY <1>1, <1>3, <1>6, <2>1 DEF Shape
<1>8. ASSUME NEW t \in Used(w.x)
      PROVE  /\ y.timer[t].data = w.x.timer[t].data /\ y.timer[t].interval = w.x.timer[t].interval
             /\ y.timer[t].armed = w.x.timer[t].armed /\ y.timer[t].when = w.x.timer[t].when - 1
             /\ w.x.timer[t].when \in Int /\ w.x.timer[t].interval \in Int
  <2>1. w.x.timer[t] \in Timer /\ y.timer[t] = [w.x.timer[t] EXCEPT !.when = @ - 1]
    BY <1>1, <1>3, TimerIs
  <2>2. QED
    BY <2>1 DEF Timer
<1>9. ASSUME NEW b \in Acquires PROVE AcquireOK(z, b)
  <2>1. Slower(w.x, z.x, b)
    BY <1>3, <1>6, <1>8 DEF Slower
  <2>2. SameFor(w, z, b) /\ (w.acquire[b] # Nothing => Retold(w, z, b))
    BY <1>4, <1>6 DEF SameFor, SameShadow, Retold, LinkedTo
  <2>3. AcquireOK(w, b)
    BY <1>1 DEF WorldOK
  <2>4. QED
    BY <2>1, <2>2, <2>3, Keeps DEF AcquireOK, SameFor
<1>10. NotForced(z)
  BY <1>1, <1>6 DEF NotForced
<1>11. QED
  BY <1>1, <1>2, <1>7, <1>9, <1>10 DEF SensorsInv, WorldOK

-----------------------------------------------------------------------------
(* The theorems.                                                            *)

LEMMA SensorsStart ==
    ASSUME SensorsInit
    PROVE  SensorsInv
<1> DEFINE w == World
<1>1. /\ w.x = NoTimers /\ w.acquire = [a \in Acquires |-> Nothing] /\ w.sensor = [s \in Sensors |-> Nothing]
      /\ w.nonsense = [c \in Samplers |-> [s \in Sensors |-> Nothing]]
      /\ w = [x |-> w.x, acquire |-> w.acquire, sensor |-> w.sensor, nonsense |-> w.nonsense]
  BY WorldIs DEF SensorsInit, World
<1>2. Loop
  BY DEF SensorsInit, Loop
<1> HIDE DEF w
<1>3. /\ w.x.heap = << >> /\ w.x.timer = [t \in TimerIds |-> Nothing]
      /\ w.x \in [heap : Seq(TimerIds), timer : [TimerIds -> Timer \cup {Nothing}]]
  <2>1. << >> \in Seq(TimerIds) /\ [t \in TimerIds |-> Nothing] \in [TimerIds -> Timer \cup {Nothing}]
    OBVIOUS
  <2>2. QED
    BY <1>1, <2>1 DEF NoTimers
<1>4. Used(w.x) = {}
  BY <1>3 DEF Used
<1>5. TimersOK(w.x)
  <2>1. Others(w.x) = {} /\ MaxAlarms \in Nat
    BY <1>4, SensorsAssumption DEF Others
  <2>2. OneEach(w.x) /\ Few(w.x)
    BY <1>4, <2>1, FS_EmptySet DEF OneEach, Few
  <2>3. QED
    BY <1>3, <1>4, <2>2 DEF TimersOK, Distinct, Entries, InOrder
<1>6. w \in Worlds
  <2>1. /\ w.acquire \in [Acquires -> Acquire \cup {Nothing}]
        /\ w.sensor \in [Sensors -> Sensor \cup {Nothing}]
        /\ w.nonsense \in [Samplers -> [Sensors -> Nonsense \cup {Nothing}]]
    BY <1>1
  <2>2. QED
    BY <1>1, <1>3, <2>1 DEF Worlds
<1>7. Shape(w) /\ NotForced(w)
  BY <1>1, <1>5, <1>6 DEF Shape, NotForced
<1>8. \A a \in Acquires : AcquireOK(w, a)
  BY <1>1, <1>4 DEF AcquireOK, TimersSound, TimersOf
<1>9. QED
  BY <1>2, <1>7, <1>8 DEF SensorsInv, WorldOK, w

LEMMA SensorsStep ==
    ASSUME SensorsInv, [SensorsNext]_sensorvars
    PROVE  SensorsInv'
<1>1. CASE UNCHANGED sensorvars
  <2>1. World' = World /\ phase' = phase /\ timeout' = timeout
    BY <1>1 DEF sensorvars, World
  <2>2. QED
    BY <2>1 DEF SensorsInv, Loop
<1>2. ASSUME NEW c \in Samplers, NEW s \in Sensors,
             Sampling(c, s) \/ SamplingFails(c, s) \/ SensorValue(c, s) \/ SamplerLeaves(c, s)
      PROVE  SensorsInv'
  BY <1>2, SamplingKeeps, SamplingFailsKeeps, SensorValueKeeps, SamplerLeavesKeeps
<1>3. ASSUME NEW a \in Acquires, SetupAcquire(a) \/ SetAcquire(a) PROVE SensorsInv'
  BY <1>3, SetupAcquireKeeps, SetAcquireKeeps
<1>4. ASSUME NEW s \in Sensors, DestroySensor(s) \/ \E a \in Acquires : DeclareSensor(s, a) PROVE SensorsInv'
  BY <1>4, DestroySensorKeeps, DeclareSensorKeeps
<1>5. ASSUME NEW alarm \in Alarms, SetAlarm(alarm) PROVE SensorsInv'
  BY <1>5, SetAlarmKeeps
<1>6. CASE Load \/ Wait \/ Event \/ Tick
  BY <1>6, LoadKeeps, WaitKeeps, EventKeeps, TickKeeps
<1>7. QED
  BY <1>1, <1>2, <1>3, <1>4, <1>5, <1>6 DEF SensorsNext

LEMMA SensorsAlways == SensorsSpec => []SensorsInv
<1>1. SensorsInit => SensorsInv
  BY SensorsStart
<1>2. SensorsInv /\ [SensorsNext]_sensorvars => SensorsInv'
  BY SensorsStep
<1>3. QED
  BY <1>1, <1>2, PTL DEF SensorsSpec

LEMMA InvShape == SensorsInv => /\ WorldOK(World) /\ Shape(World) /\ TimersOK(x) /\ Used(x) = InHeap(x)
                                /\ \A a \in Acquires : AcquireOK(World, a)
<1>1. SensorsInv => WorldOK(World) /\ Shape(World) /\ TimersOK(x) /\ \A a \in Acquires : AcquireOK(World, a)
  BY WorldIs DEF SensorsInv, WorldOK, Shape
<1>2. TimersOK(x) => Used(x) = InHeap(x)
  BY InHeapIs DEF TimersOK
<1>3. QED
  BY <1>1, <1>2

LEMMA InvOrdered == SensorsInv => Ordered
<1> SUFFICES ASSUME SensorsInv PROVE Ordered
  OBVIOUS
<1>1. TimersOK(x)
  BY InvShape
<1>2. x.heap \in Seq(TimerIds) /\ Keys(x.timer) \in [TimerIds -> Int] /\ InOrder(Keys(x.timer), x.heap)
  BY <1>1, KeysIs DEF TimersOK
<1>3. QED
  BY <1>2, OrderedIs DEF Ordered

\* As many entries as there are places.
LEMMA HeldOnce ==
    ASSUME NEW D, NEW h \in Seq(D), Distinct(h)
    PROVE  Len(h) = Cardinality(Entries(h))
<1> DEFINE f == [i \in 1 .. Len(h) |-> h[i]]
<1>1. f \in [1 .. Len(h) -> Entries(h)] /\ Len(h) \in Nat
  BY DEF Entries
<1>2. \A i, j \in 1 .. Len(h) : f[i] = f[j] => i = j
  BY DEF Distinct
<1>3. \A t \in Entries(h) : \E i \in 1 .. Len(h) : f[i] = t
  BY DEF Entries
<1> HIDE DEF f
<1>4. f \in Bijection(1 .. Len(h), Entries(h))
  BY <1>1, <1>2, <1>3 DEF Bijection, Injection, IsInjective, Surjection
<1>5. QED
  BY <1>1, <1>4, FS_CountingElements DEF ExistsBijection

LEMMA InvType == SensorsInv => SensorsTypeOK
<1> SUFFICES ASSUME SensorsInv PROVE SensorsTypeOK
  OBVIOUS
<1>1. TimersOK(x) /\ Shape(World) /\ Used(x) = InHeap(x)
  BY InvShape
<1>2. x.heap \in Seq(TimerIds) /\ Len(x.heap) = Cardinality(InHeap(x))
  BY <1>1, HeldOnce, InHeapIs DEF TimersOK
<1>3. InHeap(x) = TimerIds \ Unused(x)
  BY <1>1, UnusedIs DEF Used
<1>4. ASSUME NEW c \in Samplers, NEW s \in Sensors, nonsense[c][s] # Nothing
      PROVE  sensor[s] # Nothing /\ nonsense[c][s].strategy \in Strategies \ {"forced"}
  <2>1. World.nonsense[c][s] \in Nonsense /\ World.sensor[s] # Nothing
    BY <1>1, <1>4, ShapeIs, WorldIs
  <2>2. World.nonsense[c][s].strategy # "forced"
    BY <1>4, WorldIs DEF SensorsInv, NotForced
  <2>3. QED
    BY <2>1, <2>2, WorldIs DEF Nonsense
<1>5. phase \in {"load", "wait", "serve"}
  BY DEF SensorsInv, Loop
<1>6. QED
  BY <1>2, <1>3, <1>4, <1>5 DEF SensorsTypeOK

LEMMA InvArmedLive == SensorsInv => ArmedLive
<1> SUFFICES ASSUME SensorsInv PROVE ArmedLive
  OBVIOUS
<1>1. TimersOK(x) /\ Used(x) = InHeap(x) /\ \A a \in Acquires : AcquireOK(World, a)
  BY InvShape
<1>2. ASSUME NEW t \in InHeap(x) \ Ringing(x)
      PROVE  /\ x.timer[t].armed => x.timer[t].data \in Live
             /\ Cardinality(Places(x, x.timer[t].data)) = 1
  <2> DEFINE d == x.timer[t].data
  <2>1. t \in Used(x) /\ d \in Acquires
    BY <1>1, TimerIs DEF Ringing
  <2>2. ASSUME x.timer[t].armed PROVE d \in Live
    <3>1. t \in TimersOf(World, d)
      BY <2>1, WorldIs DEF TimersOf
    <3>2. World.acquire[d] # Nothing
      BY <1>1, <2>1, <2>2, <3>1, WorldIs DEF AcquireOK, TimersSound
    <3>3. QED
      BY <2>1, <3>2, WorldIs DEF Live
  <2> HIDE DEF d
  <2>3. Places(x, d) # {}
    BY <1>1, <2>1, PlacesAre DEF d
  <2>4. PICK i : Places(x, d) = {i}
    BY <1>1, <2>1, <2>3, PlacesAre
  <2>5. Cardinality(Places(x, d)) = 1
    BY <2>4, FS_Singleton
  <2>6. QED
    BY <2>2, <2>5 DEF d
<1>3. QED
  BY <1>2, InvType DEF ArmedLive

LEMMA InvPollsFastest == SensorsInv => PollsFastest
<1> SUFFICES ASSUME SensorsInv, NEW a \in Live
             PROVE  /\ acquire[a].periodics = Cardinality(Pollers(World, a))
                    /\ \A i \in Places(x, a) :
                          acquire[a].periodics > 0 => x.timer[x.heap[i]].interval = Shortest(World, a)
  BY DEF PollsFastest
<1>1. TimersOK(x) /\ \A b \in Acquires : AcquireOK(World, b)
  BY InvShape
<1>2. a \in Acquires /\ World.acquire[a] # Nothing
  BY WorldIs DEF Live
<1>3. Paced(World, a)
  BY <1>1, <1>2 DEF AcquireOK
<1>4. ASSUME NEW i \in Places(x, a) PROVE x.heap[i] \in TimersOf(World, a)
  BY <1>1, PlacesAre, WorldIs DEF TimersOf
<1>5. QED
  BY <1>3, <1>4, WorldIs DEF Paced

LEMMA InvChangesChecked == SensorsInv => ChangesChecked
<1> SUFFICES ASSUME SensorsInv, NEW c \in Samplers, NEW s \in Sensors,
                    nonsense[c][s] # Nothing, nonsense[c][s].strategy = "event",
                    acquire[sensor[s].acquire].periodics = 0, ~acquire[sensor[s].acquire].polls
             PROVE  nonsense[c][s].previous = acquire[sensor[s].acquire].value
  BY DEF ChangesChecked
<1> DEFINE a == World.sensor[s].acquire
<1>1. Shape(World) /\ \A b \in Acquires : AcquireOK(World, b)
  BY InvShape
<1>2. World.sensor[s] # Nothing /\ a \in Acquires /\ World.acquire[a] # Nothing /\ s \in LinkedTo(World, a)
  BY <1>1, ShapeIs, WorldIs DEF LinkedTo
<1>3. Told(World, a)
  BY <1>1, <1>2 DEF AcquireOK
<1>4. QED
  BY <1>2, <1>3, WorldIs DEF Told

\* A client that goes away while the loop is about to wait.
LEMMA LeavingWakes ==
    ASSUME SensorsInv, NEW c \in Samplers, NEW s \in Sensors, SamplerLeaves(c, s), PolledArmed, SleepsEnough
    PROVE  SleepsEnough'
<1> DEFINE w == World
           a == w.sensor[s].acquire
           u == Put(w, c, s, Nothing)
           z == Unshadowed(w, c, s)
<1>1. /\ WorldOK(w) /\ Shape(w) /\ TimersOK(x) /\ Used(x) = InHeap(x)
      /\ Becomes(z) /\ w.nonsense[c][s] # Nothing /\ timeout' = timeout /\ w.x = x
  BY InvShape, WorldIs DEF SamplerLeaves
<1>2. /\ w.sensor[s] # Nothing /\ a \in Acquires /\ w.acquire[a] # Nothing
  BY <1>1, ShapeIs
<1>3. WorldOK(z) /\ Renewed(u, z.x, a) /\ x' = z.x
  BY <1>1, <1>2, Unshadows DEF Becomes
<1>4. /\ Shape(u) /\ u.x = w.x /\ u.acquire = w.acquire
      /\ u.nonsense[c][s] = Nothing
      /\ \A d \in Samplers, r \in Sensors : d # c \/ r # s => u.nonsense[d][r] = w.nonsense[d][r]
      /\ \A b : LinkedTo(u, b) = LinkedTo(w, b)
  BY <1>1, <1>2, PutsShape
<1>5. /\ \A i \in Places(x, a) : i \in 1 .. Len(x.heap) /\ x.heap[i] \in Used(x) /\ x.timer[x.heap[i]].data = a
      /\ w.acquire[a].periodics > 0 => Places(x, a) # {}
  <2>1. a \in Live
    BY <1>2, WorldIs DEF Live
  <2>2. w.acquire[a].periodics > 0 => Places(x, a) # {}
    BY <2>1, WorldIs DEF PolledArmed
  <2>3. QED
    BY <1>1, <2>2, PlacesAre
<1>6. timeout \in Int \cup {Nothing}
  BY DEF SensorsInv, Loop
<1>7. \A t \in Used(x) : x.timer[t].armed => timeout # Nothing /\ timeout <= x.timer[t].when
  BY <1>1 DEF SleepsEnough
<1> HIDE DEF w, a, u, z
<1>8. ASSUME NEW p \in Pollers(u, a) PROVE p \in Pollers(w, a) /\ w.nonsense[p[1]][p[2]] = u.nonsense[p[1]][p[2]]
  <2>1. /\ p \in Samplers \X LinkedTo(w, a) /\ u.nonsense[p[1]][p[2]] # Nothing
        /\ \/ u.nonsense[p[1]][p[2]].strategy = "period"
           \/ u.nonsense[p[1]][p[2]].strategy = "event" /\ w.acquire[a].polls
    BY <1>4 DEF Pollers
  <2>2. p[1] \in Samplers /\ p[2] \in Sensors
    BY <2>1 DEF LinkedTo
  <2>3. w.nonsense[p[1]][p[2]] = u.nonsense[p[1]][p[2]]
    BY <1>4, <2>1, <2>2
  <2>4. QED
    BY <2>1, <2>3 DEF Pollers
<1>9. ASSUME NEW t \in Used(z.x), z.x.timer[t].armed
      PROVE  timeout # Nothing /\ timeout <= z.x.timer[t].when
  <2>1. CASE t \in Used(x) /\ x.timer[t].armed /\ z.x.timer[t].when = x.timer[t].when
    BY <1>7, <2>1
  <2>2. CASE /\ Pollers(u, a) # {} /\ z.x.timer[t].when = Shortest(u, a)
             /\ Places(x, a) = {} \/ (t \in Used(x) /\ x.timer[t].armed /\ x.timer[t].data = a)
    <3>1. PICK p \in Pollers(u, a) : Shortest(u, a) = u.nonsense[p[1]][p[2]].period
      BY <1>2, <1>4, <2>2, PollersAre
    <3>2. p \in Pollers(w, a) /\ Shortest(u, a) = w.nonsense[p[1]][p[2]].period
      BY <1>8, <3>1
    <3>3. /\ Shortest(w, a) \in Nat /\ Shortest(u, a) \in Nat /\ Shortest(w, a) <= Shortest(u, a)
          /\ Cardinality(Pollers(w, a)) > 0
      BY <1>1, <1>2, <1>4, <2>2, <3>2, PollersAre
    <3>4. TimersSound(w, a) /\ Paced(w, a)
      BY <1>1, <1>2 DEF WorldOK, AcquireOK
    <3>5. w.acquire[a].periodics > 0
      BY <3>3, <3>4 DEF Paced
    <3>6. t \in Used(x) /\ x.timer[t].armed /\ x.timer[t].data = a
      BY <1>5, <2>2, <3>5
    <3>7. x.timer[t].when <= x.timer[t].interval /\ x.timer[t].interval = Shortest(w, a)
      BY <1>1, <3>4, <3>5, <3>6 DEF TimersSound, Paced, TimersOf
    <3>8. timeout # Nothing /\ timeout <= x.timer[t].when /\ x.timer[t].when \in Int
      BY <1>1, <1>7, <3>6, TimerIs
    <3>9. QED
      BY <1>6, <2>2, <3>3, <3>7, <3>8
  <2>3. QED
    BY <1>1, <1>3, <1>4, <1>9, <2>1, <2>2 DEF Renewed
<1>10. InHeap(x') = Used(z.x)
  BY <1>3, InHeapIs DEF WorldOK, Shape, TimersOK
<1>11. QED
  BY <1>1, <1>3, <1>9, <1>10 DEF SleepsEnough

\* What a step does to how long the loop waits.
Sleeping ==
  phase' \in {"load", "wait"} /\ (phase = "serve" \/ (PolledArmed /\ SleepsEnough)) => SleepsEnough'

LEMMA LoadWakes ==
    ASSUME SensorsInv, Load
    PROVE  SleepsEnough'
<1> DEFINE y == Loaded(x)
<1>1. TimersOK(x) /\ x' = y /\ timeout' = Timeout(y)
  BY InvShape DEF Load
<1> HIDE DEF y
<1>2. TimersOK(y)
  BY <1>1, Loads DEF y
<1>3. InHeap(x') = Used(y)
  BY <1>1, <1>2, InHeapIs DEF TimersOK
<1>4. QED
  BY <1>1, <1>2, <1>3, TimeoutIs DEF SleepsEnough

LEMMA TickWakes ==
    ASSUME SensorsInv, Tick, SleepsEnough
    PROVE  SleepsEnough'
<1> DEFINE y == [x EXCEPT !.timer = Later(@)]
<1>1. TimersOK(x) /\ Used(x) = InHeap(x) /\ x' = y
  BY InvShape DEF Tick
<1>2. timeout \in Int \cup {Nothing} /\ timeout' = IF timeout = Nothing THEN Nothing ELSE timeout - 1
  BY DEF SensorsInv, Loop, Tick
<1>3. /\ TimersOK(y) /\ Used(y) = Used(x)
      /\ \A t \in Used(x) : y.timer[t] = [x.timer[t] EXCEPT !.when = @ - 1]
  BY <1>1, Passes
<1> HIDE DEF y
<1>4. InHeap(x') = Used(x)
  BY <1>1, <1>3, InHeapIs DEF TimersOK
<1>5. ASSUME NEW t \in Used(x), y.timer[t].armed PROVE timeout' # Nothing /\ timeout' <= y.timer[t].when
  <2>1. x.timer[t] \in Timer
    BY <1>1, TimerIs
  <2>2. y.timer[t].when = x.timer[t].when - 1 /\ y.timer[t].armed = x.timer[t].armed /\ x.timer[t].when \in Int
    BY <1>3, <2>1 DEF Timer
  <2>3. timeout # Nothing /\ timeout <= x.timer[t].when
    BY <1>1, <1>5, <2>2 DEF SleepsEnough
  <2>4. timeout - 1 \in Int /\ timeout - 1 <= y.timer[t].when
    BY <1>2, <2>2, <2>3
  <2>5. QED
    BY <1>2, <2>3, <2>4, NothingElse
<1>6. QED
  BY <1>1, <1>4, <1>5 DEF SleepsEnough

LEMMA StepSleeps ==
    ASSUME SensorsInv, [SensorsNext]_sensorvars
    PROVE  [Sleeping]_sensorvars
<1> SUFFICES ASSUME SensorsNext, phase' \in {"load", "wait"}, phase = "serve" \/ (PolledArmed /\ SleepsEnough)
             PROVE  SleepsEnough'
  BY DEF Sleeping
<1>1. ASSUME NEW c \in Samplers, NEW s \in Sensors,
             Sampling(c, s) \/ SamplingFails(c, s) \/ SensorValue(c, s) \/ SamplerLeaves(c, s)
      PROVE  SleepsEnough'
  <2>1. ~Sampling(c, s) /\ ~SamplingFails(c, s) /\ ~SensorValue(c, s)
    BY DEF Sampling, SamplingFails, SensorValue
  <2>2. SamplerLeaves(c, s) /\ phase # "serve"
    BY <1>1, <2>1 DEF SamplerLeaves
  <2>3. QED
    BY <2>2, LeavingWakes
<1>2. ASSUME NEW a \in Acquires, SetupAcquire(a) \/ SetAcquire(a) PROVE SleepsEnough'
  BY <1>2 DEF SetupAcquire, SetAcquire
<1>3. ASSUME NEW s \in Sensors, DestroySensor(s) \/ \E a \in Acquires : DeclareSensor(s, a) PROVE SleepsEnough'
  BY <1>3 DEF DestroySensor, DeclareSensor
<1>4. ASSUME NEW alarm \in Alarms, SetAlarm(alarm) PROVE SleepsEnough'
  BY <1>4 DEF SetAlarm
<1>5. CASE Load
  BY <1>5, LoadWakes
<1>6. CASE Wait
  <2>1. SleepsEnough /\ x' = x /\ timeout' = timeout
    BY <1>6 DEF Wait
  <2>2. QED
    BY <2>1 DEF SleepsEnough, InHeap
<1>7. CASE Event
  BY <1>7 DEF Event
<1>8. CASE Tick
  <2>1. phase' = phase
    BY <1>8 DEF Tick
  <2>2. SleepsEnough
    BY <2>1
  <2>3. QED
    BY <1>8, <2>2, TickWakes
<1>9. QED
  BY <1>1, <1>2, <1>3, <1>4, <1>5, <1>6, <1>7, <1>8 DEF SensorsNext

(* Ordered: however timers are registered, adjusted, disarmed, collected    *)
(* and rescheduled, the heap of them stays ordered (cascade_up_heap and     *)
(* cascade_down_heap), so that the timer at the top is due first.           *)
THEOREM FirstTimerFirst == SensorsSpec => []Ordered
BY SensorsAlways, InvOrdered, PTL

(* ArmedLive: a timer of an acquire that is armed has one that exists to    *)
(* run, and no acquire has two timers (destroy_acquire_katcp,               *)
(* reload_sensor_katcp), however many timers notices have meanwhile.        *)
THEOREM ArmedTimersLive == SensorsSpec => []ArmedLive
BY SensorsAlways, InvArmedLive, PTL

(* PollsFastest: reload_sensor_katcp counts the clients that need an        *)
(* acquire to be polled, and its timer runs at the shortest of their        *)
(* periods.                                                                 *)
THEOREM PolledAtShortest == SensorsSpec => []PollsFastest
BY SensorsAlways, InvPollsFastest, PTL

(* ChangesChecked: who asked for changes of a sensor that is set, not       *)
(* polled, has been told its value (set_integer_acquire_katcp,              *)
(* propagate_acquire_katcp), also when it was set while nobody listened.    *)
THEOREM ChangesReachClients == SensorsSpec => []ChangesChecked
BY SensorsAlways, InvChangesChecked, PTL

(* SleepsInTime: the timeout computed by load_heap_timers_katcp is not past *)
(* any timer that is armed, and stays so although clients go away before    *)
(* the loop waits, if whatever is polled had a timer.                       *)
THEOREM LoopWakesInTime == SensorsSpec => SleepsInTime
<1>1. SensorsInv /\ [SensorsNext]_sensorvars => [Sleeping]_sensorvars
  BY StepSleeps
<1>2. SensorsSpec => [][Sleeping]_sensorvars
  BY <1>1, SensorsAlways, PTL DEF SensorsSpec
<1>3. QED
  BY <1>2 DEF SleepsInTime, Sleeping

=============================================================================
