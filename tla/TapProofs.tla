------------------------------ MODULE TapProofs ------------------------------
(***************************************************************************)
(* Whatever the size of the address table, the rates and the range of the  *)
(* counter: every neighbour is asked for in time.  Whatever the times of   *)
(* the DHCP client, the clients that ask and the messages that are lost or *)
(* late: a lease is timed from its last renewal, and who waits for one is  *)
(* told the truth.                                                         *)
(***************************************************************************)
EXTENDS Arp, Dhcp, TLAPS

-----------------------------------------------------------------------------
(* The counter that wraps.                                                  *)

Counts == 0 .. Wrap - 1

\* By how much the counter is beyond the time at which something was due; what
\* is ahead is late by almost Wrap.
Late(now, due) == (now - due) % Wrap

LEMMA ArpConstants ==
    /\ ArpCache \in Nat /\ TableSize \in Nat /\ TableSize >= 4 /\ TableSize <= ArpCache
    /\ Self \in 1 .. TableSize - 2
    /\ Wrap \in Nat /\ Wrap > 2 * ArpCache /\ Wrap > 2 * TableSize + ArpCache
BY ArpAssumption DEF Ahead, Entries

LEMMA Lateness ==
    ASSUME NEW now \in Counts, NEW due \in Counts
    PROVE  /\ Late(now, due) = IF now >= due THEN now - due ELSE now - due + Wrap
           /\ Late(now, due) \in Counts
<1>1. Wrap \in Nat /\ Wrap > 0
  BY ArpConstants
<1>2. CASE now >= due
  <2>1. now - due \in 0 .. Wrap - 1
    BY <1>1, <1>2 DEF Counts
  <2>2. QED
    BY <1>1, <1>2, <2>1 DEF Late, Counts
<1>3. CASE now < due
  <2>1. now - due + Wrap \in 0 .. Wrap - 1
    BY <1>1, <1>3 DEF Counts
  <2>2. (now - due) % Wrap = now - due + Wrap
    BY <1>1, <1>3, <2>1 DEF Counts
  <2>3. QED
    BY <1>3, <2>1, <2>2 DEF Late, Counts
<1>4. QED
  BY <1>2, <1>3 DEF Counts

\* The counter is advanced.
LEMMA AfterIs ==
    ASSUME s_iteration \in Counts, NEW d \in 0 .. Wrap - 1
    PROVE  /\ After(d) = IF s_iteration + d < Wrap THEN s_iteration + d ELSE s_iteration + d - Wrap
           /\ After(d) \in Counts
<1> DEFINE t == s_iteration + d
<1>1. Wrap \in Nat /\ Wrap > 0 /\ s_iteration \in Nat /\ s_iteration < Wrap /\ d \in Nat /\ d < Wrap
  BY ArpConstants DEF Counts
<1>2. t \in Nat /\ After(d) = t % Wrap
  BY <1>1 DEF After
<1>3. t < 2 * Wrap
  BY <1>1
<1> HIDE DEF t
<1>4. CASE t < Wrap
  <2>1. t % Wrap = t
    BY <1>1, <1>2, <1>4
  <2>2. QED
    BY <1>1, <1>2, <1>4, <2>1 DEF t, Counts
<1>5. CASE t >= Wrap
  <2>1. t % Wrap = t - Wrap
    BY <1>1, <1>2, <1>3, <1>5
  <2>2. t - Wrap \in Counts
    BY <1>1, <1>2, <1>3, <1>5 DEF Counts
  <2>3. QED
    BY <1>1, <1>2, <1>5, <2>1, <2>2 DEF t
<1>6. QED
  BY <1>1, <1>2, <1>4, <1>5

\* What is made due ahead is not late.
LEMMA MadeDue ==
    ASSUME s_iteration \in Counts, NEW d \in Nat, Ahead(d)
    PROVE  After(d) \in Counts /\ Late(s_iteration, After(d)) = Wrap - d
<1>1. Wrap \in Nat /\ ArpCache \in Nat /\ d \in 0 .. Wrap - 1 /\ d >= 1
  BY ArpConstants DEF Ahead
<1>2. After(d) \in Counts /\ After(d) = IF s_iteration + d < Wrap THEN s_iteration + d ELSE s_iteration + d - Wrap
  BY <1>1, AfterIs
<1>3. Late(s_iteration, After(d)) = IF s_iteration >= After(d) THEN s_iteration - After(d) ELSE s_iteration - After(d) + Wrap
  BY <1>2, Lateness
<1>4. QED
  BY <1>1, <1>2, <1>3 DEF Counts

\* Everything is one later when the counter has advanced.
LEMMA OneLater ==
    ASSUME s_iteration \in Counts, NEW due \in Counts
    PROVE  /\ After(1) \in Counts
           /\ Late(After(1), due) = IF Late(s_iteration, due) = Wrap - 1 THEN 0 ELSE Late(s_iteration, due) + 1
<1>1. Wrap \in Nat /\ 1 \in 0 .. Wrap - 1
  BY ArpConstants
<1>2. After(1) \in Counts /\ After(1) = IF s_iteration + 1 < Wrap THEN s_iteration + 1 ELSE s_iteration + 1 - Wrap
  BY <1>1, AfterIs
<1>3. /\ Late(s_iteration, due) = IF s_iteration >= due THEN s_iteration - due ELSE s_iteration - due + Wrap
      /\ Late(After(1), due) = IF After(1) >= due THEN After(1) - due ELSE After(1) - due + Wrap
  BY <1>2, Lateness
<1>4. QED
  BY <1>1, <1>2, <1>3 DEF Counts

\* spam_arp takes an entry for due unless that is ahead, though what it works out
\* is one too little once the counter has wrapped.
LEMMA DueOrAhead ==
    ASSUME s_iteration \in Counts, NEW i \in Entries, s_arp_fresh[i] \in Counts
    PROVE  /\ Late(s_iteration, s_arp_fresh[i]) < 2 * ArpCache => Due(i)
           /\ Ahead(Wrap - Late(s_iteration, s_arp_fresh[i])) => ~Due(i)
<1> DEFINE due == s_arp_fresh[i]
<1>1. Wrap \in Nat /\ ArpCache \in Nat
  BY ArpConstants
<1>2. Late(s_iteration, due) = IF s_iteration >= due THEN s_iteration - due ELSE s_iteration - due + Wrap
  BY Lateness
<1>3. Due(i) <=> Overdue(due) < 2 * ArpCache
  BY DEF Due
<1> HIDE DEF due
<1>4. due \in Nat /\ s_iteration \in Nat
  BY DEF Counts, due
<1>5. QED
  BY <1>1, <1>2, <1>3, <1>4 DEF Overdue, Ahead, due

-----------------------------------------------------------------------------
(* The address table.                                                       *)

Last == TableSize - 2

\* How late an entry may be: behind the place of the sweep no more than the
\* sweep has gone on since; ahead of it also what the sweep before went on
\* for, or, if the sweep has been started afresh, all it can have gone on for.
MayBeLate(i) ==
  IF i < s_index THEN s_index - i - 1
  ELSE IF restarted THEN Last + s_index - 1
  ELSE Last - i + s_index

InTime(i) ==
  \/ Late(s_iteration, s_arp_fresh[i]) <= MayBeLate(i)
  \/ Ahead(Wrap - Late(s_iteration, s_arp_fresh[i]))

ArpTypeOK ==
  /\ s_iteration \in Counts /\ s_arp_fresh \in [Entries -> Counts]
  /\ s_index \in 1 .. Last + 1 /\ restarted \in BOOLEAN

ArpInv == ArpTypeOK /\ \A i \in Entries : InTime(i)

LEMMA ArpEntries ==
    ASSUME ArpTypeOK, NEW i \in Entries
    PROVE  /\ i \in Nat /\ i >= 1 /\ i <= Last /\ Last \in Nat /\ Last >= 2
           /\ s_index \in Nat /\ s_index >= 1 /\ s_index <= Last + 1
           /\ s_iteration \in Counts /\ s_arp_fresh[i] \in Counts
           /\ Late(s_iteration, s_arp_fresh[i]) \in Nat
           /\ Late(s_iteration, s_arp_fresh[i]) < Wrap
           /\ MayBeLate(i) \in Nat /\ MayBeLate(i) < 2 * TableSize
<1>1. /\ i \in Nat /\ i >= 1 /\ i <= Last /\ Last \in Nat /\ Last >= 2 /\ Last = TableSize - 2
      /\ s_index \in Nat /\ s_index >= 1 /\ s_index <= Last + 1
  BY ArpConstants DEF ArpTypeOK, Entries, Last
<1>2. s_iteration \in Counts /\ s_arp_fresh[i] \in Counts
  BY DEF ArpTypeOK
<1>3. Late(s_iteration, s_arp_fresh[i]) \in Nat /\ Late(s_iteration, s_arp_fresh[i]) < Wrap
  <2>1. Late(s_iteration, s_arp_fresh[i]) \in Counts
    BY <1>2, Lateness
  <2>2. QED
    BY <2>1, ArpConstants DEF Counts
<1>4. MayBeLate(i) \in Nat /\ MayBeLate(i) < 2 * TableSize
  BY <1>1, ArpConstants DEF MayBeLate
<1>5. QED
  BY <1>1, <1>2, <1>3, <1>4

\* An entry that is not overdue for long is found to be due.
LEMMA FoundDue ==
    ASSUME ArpInv, NEW i \in Entries
    PROVE  Due(i) <=> ~Ahead(Wrap - Late(s_iteration, s_arp_fresh[i]))
<1>1. /\ MayBeLate(i) \in Nat /\ MayBeLate(i) < 2 * TableSize
      /\ s_iteration \in Counts /\ s_arp_fresh[i] \in Counts
      /\ Late(s_iteration, s_arp_fresh[i]) \in Nat
  BY ArpEntries DEF ArpInv
<1>2. InTime(i)
  BY DEF ArpInv
<1>3. CASE Ahead(Wrap - Late(s_iteration, s_arp_fresh[i]))
  BY <1>1, <1>3, DueOrAhead
<1>4. CASE ~Ahead(Wrap - Late(s_iteration, s_arp_fresh[i]))
  <2>1. Late(s_iteration, s_arp_fresh[i]) <= MayBeLate(i)
    BY <1>2, <1>4 DEF InTime
  <2>2. Late(s_iteration, s_arp_fresh[i]) < 2 * ArpCache
    BY <1>1, <2>1, ArpConstants
  <2>3. QED
    BY <1>1, <1>4, <2>2, DueOrAhead
<1>5. QED
  BY <1>3, <1>4

\* Whatever is due at a time ahead is in time.
LEMMA DueAhead ==
    ASSUME ArpTypeOK, NEW i \in Entries, NEW d \in Nat, Ahead(d),
           s_iteration' = s_iteration, s_arp_fresh'[i] = After(d)
    PROVE  s_arp_fresh'[i] \in Counts /\ InTime(i)'
<1>1. After(d) \in Counts /\ Late(s_iteration, After(d)) = Wrap - d
  BY MadeDue DEF ArpTypeOK
<1>2. Wrap - (Wrap - d) = d
  BY ArpConstants
<1>3. QED
  BY <1>1, <1>2 DEF InTime

LEMMA ArpStays ==
    ASSUME NEW i \in Entries, InTime(i), s_iteration' = s_iteration, s_arp_fresh'[i] = s_arp_fresh[i],
           s_index' = s_index, restarted' = restarted
    PROVE  InTime(i)'
BY DEF InTime, MayBeLate

\* How late an entry is that has not been asked for, when the counter has
\* advanced.
LEMMA OnWard ==
    ASSUME ArpInv, NEW i \in Entries, s_iteration' = After(1), s_arp_fresh'[i] = s_arp_fresh[i]
    PROVE  \/ Ahead(Wrap - Late(s_iteration', s_arp_fresh'[i]))
           \/ Late(s_iteration', s_arp_fresh'[i]) = 0
           \/ /\ Due(i)
              /\ Late(s_iteration', s_arp_fresh'[i]) <= MayBeLate(i) + 1
<1> DEFINE late == Late(s_iteration, s_arp_fresh[i])
           then == Late(s_iteration', s_arp_fresh'[i])
<1>1. /\ s_iteration \in Counts /\ s_arp_fresh[i] \in Counts /\ late \in Nat /\ late < Wrap
      /\ MayBeLate(i) \in Nat /\ Wrap \in Nat /\ ArpCache \in Nat /\ Wrap > 2 * ArpCache
  BY ArpEntries, ArpConstants DEF ArpInv
<1>2. then = IF late = Wrap - 1 THEN 0 ELSE late + 1
  BY <1>1, OneLater
<1>3. InTime(i) /\ (Due(i) <=> ~Ahead(Wrap - late))
  BY FoundDue DEF ArpInv
<1>4. Ahead(Wrap - late) \/ late <= MayBeLate(i)
  BY <1>3 DEF InTime
<1> HIDE DEF late, then
<1>5. CASE Ahead(Wrap - late)
  <2>1. CASE late = Wrap - 1
    BY <1>2, <2>1 DEF then
  <2>2. CASE late # Wrap - 1
    <3>1. then = late + 1
      BY <1>2, <2>2
    <3>2. Ahead(Wrap - then)
      BY <1>1, <1>5, <2>2, <3>1 DEF Ahead
    <3>3. QED
      BY <3>2 DEF then
  <2>3. QED
    BY <2>1, <2>2
<1>6. CASE ~Ahead(Wrap - late)
  <2>1. Due(i) /\ late <= MayBeLate(i)
    BY <1>3, <1>4, <1>6
  <2>2. then = 0 \/ then <= MayBeLate(i) + 1
    BY <1>1, <1>2, <2>1
  <2>3. QED
    BY <2>1, <2>2 DEF then
<1>7. QED
  BY <1>5, <1>6

LEMMA SweepsOn ==
    ASSUME ArpInv, SpamArp
    PROVE  ArpInv'
<1> DEFINE due == {i \in Entries : i >= s_index /\ Due(i)}
<1>1. /\ s_iteration' = After(1)
      /\ \/ \E i \in due : /\ \A j \in due : i <= j
                           /\ Sent(i) /\ s_index' = i + 1 /\ restarted' = restarted
         \/ due = {} /\ s_index' = 1 /\ restarted' = FALSE /\ s_arp_fresh' = s_arp_fresh
  BY DEF SpamArp
<1>2. /\ s_iteration \in Counts /\ s_arp_fresh \in [Entries -> Counts]
      /\ s_index \in 1 .. Last + 1 /\ restarted \in BOOLEAN
  BY DEF ArpInv, ArpTypeOK
<1>3. s_iteration' \in Counts
  <2>1. Self \in Entries /\ 1 \in 0 .. Wrap - 1
    BY ArpConstants DEF Entries
  <2>2. QED
    BY <1>1, <1>2, <2>1, AfterIs
<1>4. CASE due = {} /\ s_index' = 1 /\ restarted' = FALSE /\ s_arp_fresh' = s_arp_fresh
  <2>1. ArpTypeOK'
    <3>1. 1 \in 1 .. Last + 1
      BY ArpConstants DEF Last
    <3>2. QED
      BY <1>2, <1>3, <1>4, <3>1 DEF ArpTypeOK
  <2>2. ASSUME NEW i \in Entries PROVE InTime(i)'
    <3>1. /\ i \in Nat /\ i >= 1 /\ i <= Last /\ Last \in Nat
          /\ s_index \in Nat /\ s_index >= 1 /\ s_index <= Last + 1
      BY ArpEntries DEF ArpInv
    <3>2. MayBeLate(i)' = Last - i + 1
      BY <1>4, <3>1 DEF MayBeLate
    <3>3. Late(s_iteration', s_arp_fresh'[i]) <= Last - i + 1 \/ Ahead(Wrap - Late(s_iteration', s_arp_fresh'[i]))
      <4>1. CASE Late(s_iteration', s_arp_fresh'[i]) = 0
        BY <3>1, <4>1
      <4>2. CASE Due(i) /\ Late(s_iteration', s_arp_fresh'[i]) <= MayBeLate(i) + 1
        <5>1. i < s_index
          BY <1>4, <3>1, <4>2
        <5>2. MayBeLate(i) = s_index - i - 1
          BY <5>1 DEF MayBeLate
        <5>3. Late(s_iteration', s_arp_fresh'[i]) \in Nat
          BY <1>3, <2>1, ArpConstants, Lateness DEF ArpTypeOK, Counts
        <5>4. QED
          BY <3>1, <4>2, <5>2, <5>3
      <4>3. QED
        BY <1>1, <1>4, <4>1, <4>2, OnWard
    <3>4. QED
      BY <3>2, <3>3 DEF InTime
  <2>3. QED
    BY <2>1, <2>2 DEF ArpInv
<1>5. ASSUME NEW i \in due, \A j \in due : i <= j, Sent(i), s_index' = i + 1, restarted' = restarted
      PROVE  ArpInv'
  <2>1. i \in Entries /\ i >= s_index
    OBVIOUS
  <2>2. PICK d \in Rates : s_arp_fresh' = [s_arp_fresh EXCEPT ![i] = After(d)]
    BY <1>5 DEF Sent
  <2>3. d \in Nat /\ Ahead(d)
    BY <2>2, ArpAssumption
  <2>4. After(d) \in Counts /\ Late(s_iteration, After(d)) = Wrap - d
    BY <1>2, <2>3, MadeDue
  <2>5. /\ i \in Nat /\ i >= 1 /\ i <= Last /\ Last \in Nat
        /\ s_index \in Nat /\ s_index >= 1 /\ s_index <= Last + 1
    BY <2>1, ArpEntries DEF ArpInv
  <2>6. ArpTypeOK'
    <3>1. s_arp_fresh' \in [Entries -> Counts]
      BY <1>2, <2>2, <2>4
    <3>2. i + 1 \in 1 .. Last + 1
      BY <2>5
    <3>3. QED
      BY <1>2, <1>3, <1>5, <3>1, <3>2 DEF ArpTypeOK
  <2>7. InTime(i)'
    <3>1. s_arp_fresh'[i] = After(d)
      BY <1>2, <2>1, <2>2
    <3>2. Late(s_iteration', s_arp_fresh'[i]) = IF Wrap - d = Wrap - 1 THEN 0 ELSE Wrap - d + 1
      BY <1>1, <1>2, <2>4, <3>1, OneLater
    <3>3. MayBeLate(i)' = 0
      BY <1>5, <2>5 DEF MayBeLate
    <3>4. CASE d = 1
      BY <3>2, <3>3, <3>4, ArpConstants DEF InTime
    <3>5. CASE d # 1
      <4>1. Late(s_iteration', s_arp_fresh'[i]) = Wrap - d + 1
        BY <2>3, <3>2, <3>5, ArpConstants
      <4>2. Ahead(Wrap - (Wrap - d + 1))
        BY <2>3, <3>5, ArpConstants DEF Ahead
      <4>3. QED
        BY <4>1, <4>2 DEF InTime
    <3>6. QED
      BY <3>4, <3>5
  <2>8. ASSUME NEW j \in Entries, j # i PROVE InTime(j)'
    <3>1. j \in Nat /\ j >= 1 /\ j <= Last
      BY ArpEntries DEF ArpInv
    <3>2. s_arp_fresh'[j] = s_arp_fresh[j]
      BY <1>2, <2>2, <2>8
    <3>3. Late(s_iteration', s_arp_fresh'[j]) \in Nat /\ MayBeLate(j)' \in Nat
      <4>1. s_arp_fresh'[j] \in Counts
        BY <2>6 DEF ArpTypeOK
      <4>2. Late(s_iteration', s_arp_fresh'[j]) \in Nat
        BY <1>3, <4>1, Lateness DEF Counts
      <4>3. MayBeLate(j)' \in Nat
        BY <1>2, <1>5, <2>5, <3>1 DEF MayBeLate
      <4>4. QED
        BY <4>2, <4>3
    <3>4. \/ Ahead(Wrap - Late(s_iteration', s_arp_fresh'[j]))
          \/ Late(s_iteration', s_arp_fresh'[j]) = 0
          \/ Due(j) /\ Late(s_iteration', s_arp_fresh'[j]) <= MayBeLate(j) + 1
      BY <1>1, <3>2, OnWard
    <3>5. CASE Due(j) /\ Late(s_iteration', s_arp_fresh'[j]) <= MayBeLate(j) + 1
      <4>1. j < s_index \/ j > i
        BY <1>5, <2>5, <2>8, <3>1, <3>5
      <4>2. MayBeLate(j) + 1 <= MayBeLate(j)'
        BY <1>2, <1>5, <2>5, <3>1, <4>1 DEF MayBeLate
      <4>3. MayBeLate(j) \in Nat
        BY ArpEntries DEF ArpInv
      <4>4. Late(s_iteration', s_arp_fresh'[j]) <= MayBeLate(j)'
        BY <3>3, <3>5, <4>2, <4>3
      <4>5. QED
        BY <4>4 DEF InTime
    <3>6. CASE Late(s_iteration', s_arp_fresh'[j]) = 0
      BY <3>3, <3>6 DEF InTime
    <3>7. CASE Ahead(Wrap - Late(s_iteration', s_arp_fresh'[j]))
      BY <3>7 DEF InTime
    <3>8. QED
      BY <3>4, <3>5, <3>6, <3>7
  <2>9. QED
    BY <2>6, <2>7, <2>8 DEF ArpInv
<1>6. QED
  BY <1>1, <1>4, <1>5

LEMMA ArpKeeps ==
    ASSUME ArpInv, ArpNext
    PROVE  ArpInv'
<1>1. /\ s_iteration \in Counts /\ s_arp_fresh \in [Entries -> Counts]
      /\ s_index \in 1 .. Last + 1 /\ restarted \in BOOLEAN
      /\ \A i \in Entries : InTime(i)
  BY DEF ArpInv, ArpTypeOK
<1>2. CASE SpamArp
  BY <1>2, SweepsOn
<1>3. CASE FlushArp
  <2>1. /\ s_iteration' = s_iteration /\ s_index' = s_index /\ s_arp_fresh' = s_arp_fresh
        /\ restarted' = restarted
    BY <1>3 DEF FlushArp
  <2>2. \A i \in Entries : InTime(i)'
    BY <1>1, <2>1, ArpStays
  <2>3. QED
    BY <1>1, <2>1, <2>2 DEF ArpInv, ArpTypeOK
<1>4. ASSUME s_iteration' = s_iteration, s_index' = s_index, restarted' = restarted,
             NEW i \in Entries, NEW d \in Nat, Ahead(d), s_arp_fresh' = [s_arp_fresh EXCEPT ![i] = After(d)]
      PROVE  ArpInv'
  <2>1. s_arp_fresh'[i] = After(d) /\ \A j \in Entries : j # i => s_arp_fresh'[j] = s_arp_fresh[j]
    BY <1>1, <1>4
  <2>2. s_arp_fresh'[i] \in Counts /\ InTime(i)'
    BY <1>1, <1>4, <2>1, DueAhead DEF ArpTypeOK
  <2>3. ASSUME NEW j \in Entries, j # i PROVE InTime(j)'
    BY <1>1, <1>4, <2>1, <2>3, ArpStays
  <2>4. s_arp_fresh' \in [Entries -> Counts]
    BY <1>1, <1>4, <2>1, <2>2
  <2>5. QED
    BY <1>1, <1>4, <2>2, <2>3, <2>4 DEF ArpInv, ArpTypeOK
<1>5. ASSUME NEW i \in Entries, Glean(i) PROVE ArpInv'
  <2> DEFINE d == ValidPeriod + TableSize - Apart(i, Self)
  <2>1. i \in Nat /\ i >= 1 /\ i <= TableSize - 2 /\ Self \in Nat /\ Self >= 1 /\ Self <= TableSize - 2
    BY ArpConstants DEF Entries
  <2>2. Apart(i, Self) \in Nat /\ Apart(i, Self) < TableSize
    BY <2>1, ArpConstants DEF Apart
  <2>3. Ahead(ValidPeriod + TableSize) /\ ValidPeriod \in Nat
    BY ArpAssumption
  <2>4. d \in Nat /\ Ahead(d)
    BY <2>2, <2>3, ArpConstants DEF Ahead
  <2>5. /\ s_iteration' = s_iteration /\ s_index' = s_index /\ restarted' = restarted
        /\ s_arp_fresh' = [s_arp_fresh EXCEPT ![i] = After(d)]
    BY <1>5 DEF Glean
  <2> HIDE DEF d
  <2>6. QED
    BY <1>4, <2>4, <2>5
<1>6. CASE ReplyArp
  <2>1. Self \in Entries /\ SmallDelay \in Nat /\ Ahead(SmallDelay)
    BY ArpAssumption
  <2>2. /\ s_iteration' = s_iteration /\ s_index' = s_index /\ restarted' = restarted
        /\ s_arp_fresh' = [s_arp_fresh EXCEPT ![Self] = After(SmallDelay)]
    BY <1>6 DEF ReplyArp
  <2>3. QED
    BY <1>4, <2>1, <2>2
<1>7. CASE ReloadArp
  <2>1. PICK soon \in [Entries -> 2 .. 1 + ArpCache \div 4] :
              s_arp_fresh' = [i \in Entries |-> After(IF i = Self THEN 1 ELSE soon[i])]
    BY <1>7 DEF ReloadArp
  <2>2. s_iteration' = s_iteration /\ s_index' = s_index /\ restarted' = restarted
    BY <1>7 DEF ReloadArp
  <2>3. ASSUME NEW i \in Entries PROVE s_arp_fresh'[i] \in Counts /\ InTime(i)'
    <3> DEFINE d == IF i = Self THEN 1 ELSE soon[i]
    <3>1. Ahead(TableSize + ArpCache)
      BY ArpAssumption
    <3>2. d \in Nat /\ d >= 1 /\ d <= 1 + ArpCache
      BY <2>1, ArpConstants
    <3>3. s_arp_fresh'[i] = After(d)
      BY <2>1
    <3> HIDE DEF d
    <3>4. Ahead(d)
      BY <3>1, <3>2, ArpConstants DEF Ahead
    <3>5. QED
      BY <1>1, <2>2, <3>2, <3>3, <3>4, DueAhead DEF ArpTypeOK
  <2>4. s_arp_fresh' \in [Entries -> Counts]
    BY <2>1, <2>3
  <2>5. QED
    BY <1>1, <2>2, <2>3, <2>4 DEF ArpInv, ArpTypeOK
<1>8. ASSUME NEW mode \in {-1, 0, 1}, ConfigureArp(mode) PROVE ArpInv'
  <2>1. s_iteration' = s_iteration /\ s_arp_fresh' = s_arp_fresh
    BY <1>8 DEF ConfigureArp
  <2>2. \/ s_index' = s_index /\ restarted' = restarted
        \/ s_index' = 1 /\ ~restarted /\ restarted' = TRUE
    BY <1>8 DEF ConfigureArp
  <2>3. CASE s_index' = s_index /\ restarted' = restarted
    <3>1. \A i \in Entries : InTime(i)'
      BY <1>1, <2>1, <2>3, ArpStays
    <3>2. QED
      BY <1>1, <2>1, <2>3, <3>1 DEF ArpInv, ArpTypeOK
  <2>4. CASE s_index' = 1 /\ ~restarted /\ restarted' = TRUE
    <3>1. ASSUME NEW i \in Entries PROVE InTime(i)'
      <4>1. /\ i \in Nat /\ i >= 1 /\ i <= Last /\ Last \in Nat
            /\ s_index \in Nat /\ s_index >= 1 /\ s_index <= Last + 1
            /\ Late(s_iteration, s_arp_fresh[i]) \in Nat /\ MayBeLate(i) \in Nat
        BY ArpEntries DEF ArpInv
      <4>2. MayBeLate(i)' = Last
        BY <2>4, <4>1 DEF MayBeLate
      <4>3. MayBeLate(i) <= Last
        BY <2>4, <4>1 DEF MayBeLate
      <4>4. InTime(i)
        BY <1>1
      <4>5. Late(s_iteration, s_arp_fresh[i]) <= Last \/ Ahead(Wrap - Late(s_iteration, s_arp_fresh[i]))
        BY <4>1, <4>3, <4>4 DEF InTime
      <4>6. QED
        BY <2>1, <4>2, <4>5 DEF InTime
    <3>2. 1 \in 1 .. Last + 1
      BY ArpConstants DEF Last
    <3>3. QED
      BY <1>1, <2>1, <2>4, <3>1, <3>2 DEF ArpInv, ArpTypeOK
  <2>5. QED
    BY <2>2, <2>3, <2>4
<1>9. QED
  BY <1>2, <1>3, <1>5, <1>6, <1>7, <1>8 DEF ArpNext

LEMMA ArpStarts ==
    ASSUME ArpInit
    PROVE  ArpInv
<1>1. s_iteration = 0 /\ s_index = 1 /\ s_arp_fresh = [i \in Entries |-> i] /\ restarted = FALSE
  BY DEF ArpInit
<1>2. ArpTypeOK
  <2>1. 0 \in Counts /\ 1 \in 1 .. Last + 1
    BY ArpConstants DEF Counts, Last
  <2>2. \A i \in Entries : i \in Counts
    BY ArpConstants DEF Counts, Entries
  <2>3. QED
    BY <1>1, <2>1, <2>2 DEF ArpTypeOK
<1>3. ASSUME NEW i \in Entries PROVE InTime(i)
  <2>1. s_arp_fresh[i] = i /\ i \in Nat /\ i >= 1 /\ i <= TableSize - 2
    BY <1>1, ArpConstants DEF Entries
  <2>2. i \in Counts /\ s_iteration \in Counts
    BY <1>1, <2>1, ArpConstants DEF Counts
  <2>3. Late(0, i) = Wrap - i
    BY <1>1, <2>1, <2>2, Lateness, ArpConstants
  <2>4. Ahead(Wrap - (Wrap - i))
    <3>1. Ahead(TableSize + ArpCache)
      BY ArpAssumption
    <3>2. Wrap - (Wrap - i) = i
      BY <2>1, ArpConstants
    <3>3. QED
      BY <2>1, <3>1, <3>2, ArpConstants DEF Ahead
  <2>5. QED
    BY <1>1, <2>1, <2>3, <2>4 DEF InTime
<1>4. QED
  BY <1>2, <1>3 DEF ArpInv

\* spam_arp comes to every entry in time, however often entries are heard of,
\* announced or reloaded in between, and across the wrap of the counter.
THEOREM ArpNeverMissed == ArpSpec => []NeverMissed
<1>1. ArpInit => ArpInv
  BY ArpStarts
<1>2. ArpInv /\ [ArpNext]_tapvars => ArpInv'
  <2>1. ASSUME ArpInv, UNCHANGED tapvars PROVE ArpInv'
    <3>1. /\ s_iteration' = s_iteration /\ s_index' = s_index /\ s_arp_fresh' = s_arp_fresh
          /\ restarted' = restarted
      BY <2>1 DEF tapvars
    <3>2. \A i \in Entries : InTime(i)'
      BY <2>1, <3>1, ArpStays DEF ArpInv
    <3>3. QED
      BY <2>1, <3>1, <3>2 DEF ArpInv, ArpTypeOK
  <2>2. QED
    BY <2>1, ArpKeeps
<1>3. ArpInv => NeverMissed
  <2>1. ASSUME ArpInv, NEW i \in Entries
        PROVE  Late(s_iteration, s_arp_fresh[i]) < 2 * TableSize \/ Ahead(Wrap - Late(s_iteration, s_arp_fresh[i]))
    <3>1. InTime(i) /\ ArpTypeOK
      BY <2>1 DEF ArpInv
    <3>2. /\ MayBeLate(i) \in Nat /\ MayBeLate(i) < 2 * TableSize
          /\ Late(s_iteration, s_arp_fresh[i]) \in Nat
      BY <3>1, ArpEntries
    <3>3. QED
      BY <3>1, <3>2, ArpConstants DEF InTime
  <2>2. QED
    BY <2>1 DEF NeverMissed, Late
<1>4. QED
  BY <1>1, <1>2, <1>3, PTL DEF ArpSpec

-----------------------------------------------------------------------------
(* The DHCP client.                                                         *)

DhcpTypeOK ==
  /\ gs \in Taps \cup {Nobody}
  /\ waiting \in [Askers -> Pauses]
  /\ told \in [Askers -> {"nothing", "ok", "fail"}]
  /\ granted \in [Askers -> BOOLEAN]
  /\ held \in Nat
  /\ place \in {"timers", "frames", "clients", "notices"}

\* Without a lease, and once started, nothing is left of the last lease, or the
\* machine has been running for so long that it starts over at the next poll.
Renewing(g) ==
  g.state \notin Leased \cup {"init"} =>
      \/ g.timer = 0 /\ ~g.errors
      \/ g.state = "select" /\ g.count = Interval

\* The times for renewal are those of the first lease.
FirstLease(g) ==
  \/ g.t1 = 0 /\ g.t2 = 0
  \/ \E l \in Leases : g.t1 = l \div 2 /\ g.t2 = (l * 7) \div 8

\* A lease is timed, and before its end the machine has gone on to renew it;
\* a timer beyond the polls counted has seen all that are.
Timed(g) ==
  g.state \in Leased =>
      /\ g.timer = held /\ g.lease \in Leases /\ g.t1 > 0
      /\ g.count = Interval \/ g.timer <= g.count
      /\ g.state = "bound" => g.timer < g.t1
      /\ g.state = "renew" => g.timer < g.t2 \/ g.timer = g.t1
      /\ g.state = "rebind" /\ g.t1 <= g.lease \div 2 => g.timer <= g.lease

\* A client is called in the turn in which it has been woken, and was granted a
\* lease if the device has no errors.
Truly ==
  \A c \in Askers :
    /\ waiting[c] = "woken" => gs # Nobody /\ place # "timers" /\ granted[c] = ~gs.errors
    /\ waiting[c] \in {"none", "idle", "lost"} => ~granted[c]

DhcpInv ==
  /\ DhcpTypeOK /\ Truly
  /\ gs # Nobody => Renewing(gs) /\ FirstLease(gs) /\ Timed(gs)

\* A tap is its fields.
LEMMA TapFields ==
    ASSUME NEW g \in Taps
    PROVE  /\ g.state \in Unbound \cup Leased /\ g.enable \in BOOLEAN
           /\ g.buffer \in {"empty", "old", "offer", "ack", "nak"}
           /\ g.count \in Nat /\ g.count <= Interval /\ g.retries \in Nat /\ g.retries <= Retries
           /\ g.wait \in Nat /\ g.lease \in Nat
           /\ g.t1 \in Nat /\ g.t2 \in Nat /\ g.timer \in Nat /\ g.errors \in BOOLEAN
           /\ g.notice \in Askers \cup {Nobody}
           /\ g # Nobody
<1>1. /\ g.count \in 0 .. Interval /\ g.retries \in 0 .. Retries /\ g.lease \in Leases \cup {0}
      /\ g.state \in Unbound \cup Leased /\ g.enable \in BOOLEAN
      /\ g.buffer \in {"empty", "old", "offer", "ack", "nak"}
      /\ g.wait \in Nat /\ g.t1 \in Nat /\ g.t2 \in Nat /\ g.timer \in Nat /\ g.errors \in BOOLEAN
      /\ g.notice \in Askers \cup {Nobody}
  BY DEF Taps
<1>2. Interval \in Nat /\ Retries \in Nat /\ Leases \subseteq Nat
  BY DhcpAssumption
<1>3. g # Nobody
  BY NobodyAssumption
<1>4. QED
  BY <1>1, <1>2, <1>3

\* The times for renewal are within the lease, unless that has become shorter.
LEMMA RenewalTimes ==
    ASSUME NEW g \in Taps, FirstLease(g), g.t1 > 0, NEW lease \in Nat, g.t1 <= lease \div 2
    PROVE  g.t1 + 1 <= lease /\ g.t2 <= lease
<1>1. PICK l \in Leases : g.t1 = l \div 2 /\ g.t2 = (l * 7) \div 8
  <2>1. g.t1 # 0
    BY TapFields
  <2>2. QED
    BY <2>1 DEF FirstLease
<1>2. l \in Nat
  BY DhcpAssumption
<1> DEFINE t1 == g.t1
           t2 == g.t2
<1>3. t1 \in Nat /\ t2 \in Nat /\ t1 > 0 /\ t1 = l \div 2 /\ t2 = (l * 7) \div 8 /\ t1 <= lease \div 2
  BY <1>1, TapFields
<1> HIDE DEF t1, t2
<1>4. 2 * t1 <= l /\ l <= 2 * t1 + 1 /\ 2 * t1 <= lease
  BY <1>2, <1>3
<1>5. 8 * t2 <= 7 * l
  BY <1>2, <1>3
<1>6. t1 + 1 <= lease /\ t2 <= lease
  BY <1>2, <1>3, <1>4, <1>5
<1>7. QED
  BY <1>6 DEF t1, t2

\* What a state function finds: the poll has been counted, or things start over.
Ready(g) ==
  /\ g \in Taps /\ FirstLease(g)
  /\ g.state \in {"randomize", "select", "wait", "request"} => g.timer = 0 /\ ~g.errors
  /\ g.state \in Leased =>
       /\ g.timer = held + 1 /\ g.lease \in Leases /\ g.t1 > 0
       /\ g.count = Interval \/ g.timer <= g.count
       /\ g.state = "bound" => g.timer <= g.t1
       /\ g.state = "renew" => g.timer <= g.t2 \/ g.timer = g.t1 + 1

\* What it leaves.
Left == gs' \in Taps /\ held' \in Nat /\ Renewing(gs') /\ FirstLease(gs') /\ Timed(gs)'

LEMMA StartsOver ==
    ASSUME DhcpInv, gs # Nobody
    PROVE  Ready([gs EXCEPT !.count = 0, !.state = "init"])
<1> DEFINE g == [gs EXCEPT !.count = 0, !.state = "init"]
<1>1. gs \in Taps /\ FirstLease(gs)
  BY DEF DhcpInv, DhcpTypeOK
<1>2. 0 \in 0 .. Interval /\ "init" \in Unbound \cup Leased
  BY DhcpAssumption DEF Unbound
<1>3. g \in Taps /\ g.state = "init" /\ g.t1 = gs.t1 /\ g.t2 = gs.t2
  BY <1>1, <1>2 DEF Taps
<1> HIDE DEF g
<1>4. FirstLease(g)
  BY <1>1, <1>3 DEF FirstLease
<1>5. Ready(g)
  BY <1>3, <1>4 DEF Ready, Leased
<1>6. QED
  BY <1>5 DEF g

LEMMA PollCounts ==
    ASSUME DhcpInv, gs # Nobody, gs.state \in Unbound => gs.count + 1 < Interval
    PROVE  Ready(Counted(gs)) /\ Counted(gs).notice = gs.notice
<1> DEFINE g == Counted(gs)
           n == AtMost(gs.count + 1, Interval)
           t == IF gs.state \in Leased THEN gs.timer + 1 ELSE gs.timer
<1>1. gs \in Taps /\ FirstLease(gs) /\ Renewing(gs) /\ Timed(gs) /\ held \in Nat
  BY DEF DhcpInv, DhcpTypeOK
<1>2. /\ gs.count \in Nat /\ gs.count <= Interval /\ gs.timer \in Nat /\ gs.t1 \in Nat /\ gs.t2 \in Nat
      /\ Interval \in Nat
  BY <1>1, TapFields, DhcpAssumption
<1>3. n \in 0 .. Interval /\ t \in Nat /\ (n = Interval \/ n = gs.count + 1)
  BY <1>2 DEF AtMost
<1> HIDE DEF n, t
<1>4. g = [gs EXCEPT !.count = n, !.timer = t]
  BY <1>1 DEF Counted, Taps, n, t
<1> HIDE DEF g
<1>5. /\ g \in Taps /\ g.state = gs.state /\ g.t1 = gs.t1 /\ g.t2 = gs.t2 /\ g.errors = gs.errors
      /\ g.lease = gs.lease /\ g.count = n /\ g.timer = t /\ g.notice = gs.notice
  BY <1>1, <1>3, <1>4 DEF Taps
<1>6. FirstLease(g)
  BY <1>1, <1>5 DEF FirstLease
<1>7. ASSUME g.state \in {"randomize", "select", "wait", "request"} PROVE g.timer = 0 /\ ~g.errors
  <2>1. gs.state \in Unbound /\ gs.state \notin Leased \cup {"init"}
    BY <1>5, <1>7 DEF Unbound, Leased
  <2>2. gs.count # Interval
    BY <1>2, <2>1
  <2>3. gs.timer = 0 /\ ~gs.errors
    BY <1>1, <2>1, <2>2 DEF Renewing
  <2>4. QED
    BY <1>5, <2>1, <2>3 DEF t
<1>8. ASSUME g.state \in Leased
      PROVE  /\ g.timer = held + 1 /\ g.lease \in Leases /\ g.t1 > 0
             /\ g.count = Interval \/ g.timer <= g.count
             /\ g.state = "bound" => g.timer <= g.t1
             /\ g.state = "renew" => g.timer <= g.t2 \/ g.timer = g.t1 + 1
  <2>1. /\ gs.timer = held /\ gs.lease \in Leases /\ gs.t1 > 0
        /\ gs.count = Interval \/ gs.timer <= gs.count
        /\ gs.state = "bound" => gs.timer < gs.t1
        /\ gs.state = "renew" => gs.timer < gs.t2 \/ gs.timer = gs.t1
    BY <1>1, <1>5, <1>8 DEF Timed
  <2>2. t = gs.timer + 1
    BY <1>5, <1>8 DEF t
  <2>3. n = Interval \/ t <= n
    BY <1>2, <1>3, <2>1, <2>2 DEF n, AtMost
  <2>4. QED
    BY <1>2, <1>5, <2>1, <2>2, <2>3
<1>9. QED
  BY <1>5, <1>6, <1>7, <1>8 DEF Ready, g

\* Who waits: nobody is woken, or whoever waits for this tap is, and was granted
\* a lease if the device has no errors.
Answers(g) ==
  /\ waiting' \in {waiting, Woken(g)}
  /\ granted' \in [Askers -> BOOLEAN]
  /\ \A c \in Askers : granted'[c] = IF waiting'[c] # waiting[c] THEN ~gs'.errors ELSE granted[c]

LEMMA NobodyWoken ==
    ASSUME NEW g, DhcpTypeOK, UNCHANGED <<waiting, granted>>
    PROVE  Answers(g)
BY DEF Answers, DhcpTypeOK

\* A buffer that is aged or processed is all of a tap that changes.
LEMMA BufferAged ==
    ASSUME NEW g \in Taps
    PROVE  \E b \in {"empty", "old", "offer", "ack", "nak"} : Aged(g) = [g EXCEPT !.buffer = b]
<1>1. g.buffer \in {"empty", "old", "offer", "ack", "nak"} /\ g = [g EXCEPT !.buffer = g.buffer]
  BY DEF Taps
<1>2. QED
  BY <1>1 DEF Aged

LEMMA InitStateLeaves ==
    ASSUME NEW g, Ready(g), DhcpTypeOK, InitState(g)
    PROVE  Left /\ Answers(g)
<1>1. g \in Taps /\ FirstLease(g) /\ held \in Nat
  BY DEF Ready, DhcpTypeOK
<1>2. PICK wait \in Delays :
        gs' = [g EXCEPT !.state = "randomize", !.buffer = "empty", !.errors = FALSE, !.timer = 0, !.wait = wait]
  BY DEF InitState
<1>3. wait \in Nat /\ "randomize" \in Unbound \cup Leased
  BY DhcpAssumption DEF Unbound
<1>4. /\ gs' \in Taps /\ gs'.state = "randomize" /\ gs'.timer = 0 /\ gs'.errors = FALSE
      /\ gs'.t1 = g.t1 /\ gs'.t2 = g.t2
  BY <1>1, <1>2, <1>3 DEF Taps
<1>5. Renewing(gs') /\ FirstLease(gs') /\ Timed(gs)' /\ held' \in Nat
  BY <1>1, <1>4 DEF Renewing, FirstLease, Timed, Leased, InitState
<1>6. QED
  BY <1>4, <1>5, NobodyWoken DEF Left, InitState

\* Without a lease, a tap that goes on without one.
LEMMA GoesOn ==
    ASSUME NEW g, Ready(g), held' = held, held \in Nat,
           g.state \in {"randomize", "select", "wait", "request"},
           NEW b \in {"empty", "old", "offer", "ack", "nak"}, NEW wait \in Nat, NEW n \in 0 .. Retries,
           NEW s \in {"randomize", "select", "wait", "request"},
           gs' = [g EXCEPT !.buffer = b, !.state = s, !.wait = wait, !.retries = n]
    PROVE  Left
<1>1. g \in Taps /\ FirstLease(g) /\ g.timer = 0 /\ ~g.errors
  BY DEF Ready
<1>2. s \in Unbound \cup Leased /\ s \notin Leased
  BY DEF Unbound, Leased
<1>3. /\ gs' \in Taps /\ gs'.state = s /\ gs'.timer = g.timer /\ gs'.errors = g.errors
      /\ gs'.t1 = g.t1 /\ gs'.t2 = g.t2
  BY <1>1, <1>2 DEF Taps
<1>4. Renewing(gs') /\ FirstLease(gs')
  BY <1>1, <1>3 DEF Renewing, FirstLease
<1>5. Timed(gs)'
  BY <1>2, <1>3 DEF Timed
<1>6. QED
  BY <1>3, <1>4, <1>5 DEF Left

LEMMA RandomizeStateLeaves ==
    ASSUME NEW g, Ready(g), DhcpTypeOK, RandomizeState(g)
    PROVE  Left /\ Answers(g)
<1>1. g \in Taps /\ held \in Nat /\ held' = held /\ g.state = "randomize"
  BY DEF Ready, DhcpTypeOK, RandomizeState
<1>2. /\ g.wait \in Nat /\ g.retries \in 0 .. Retries /\ Retries \in Nat
      /\ g.buffer \in {"empty", "old", "offer", "ack", "nak"}
  BY <1>1, DhcpAssumption DEF Taps
<1>3. CASE g.wait > 0
  <2>1. gs' = [g EXCEPT !.wait = g.wait - 1]
    BY <1>3 DEF RandomizeState
  <2>2. gs' = [g EXCEPT !.buffer = g.buffer, !.state = "randomize", !.wait = g.wait - 1, !.retries = g.retries]
    BY <1>1, <2>1 DEF Taps
  <2>3. g.wait - 1 \in Nat
    BY <1>2, <1>3
  <2>4. Left
    BY <1>1, <1>2, <2>2, <2>3, GoesOn
  <2>5. QED
    BY <2>4, NobodyWoken DEF RandomizeState
<1>4. CASE ~(g.wait > 0)
  <2>1. gs' = [Aged(g) EXCEPT !.state = "select", !.retries = AtMost(@ + 1, Retries)]
    BY <1>4 DEF RandomizeState
  <2>2. PICK b \in {"empty", "old", "offer", "ack", "nak"} : Aged(g) = [g EXCEPT !.buffer = b]
    BY <1>1, BufferAged
  <2>3. AtMost(g.retries + 1, Retries) \in 0 .. Retries
    BY <1>2 DEF AtMost
  <2>4. gs' = [g EXCEPT !.buffer = b, !.state = "select", !.wait = g.wait,
                        !.retries = AtMost(g.retries + 1, Retries)]
    BY <1>1, <2>1, <2>2 DEF Taps
  <2>5. Left
    BY <1>1, <1>2, <2>3, <2>4, GoesOn
  <2>6. QED
    BY <2>5, NobodyWoken DEF RandomizeState
<1>5. QED
  BY <1>3, <1>4

LEMMA SelectStateLeaves ==
    ASSUME NEW g, Ready(g), DhcpTypeOK, SelectState(g)
    PROVE  Left /\ Answers(g)
<1>1. g \in Taps /\ held \in Nat /\ held' = held /\ g.state = "select"
  BY DEF Ready, DhcpTypeOK, SelectState
<1>2. g.wait \in Nat /\ g.retries \in 0 .. Retries /\ Delays \subseteq Nat
  BY <1>1, DhcpAssumption DEF Taps
<1>3. \E wait \in Nat, s \in {"select", "wait"} :
        gs' = [g EXCEPT !.buffer = "empty", !.state = s, !.wait = wait, !.retries = g.retries]
  <2>1. CASE g.buffer = "offer"
    <3>1. PICK wait \in Delays : gs' = [Processed(g) EXCEPT !.state = "wait", !.wait = wait]
      BY <2>1 DEF SelectState
    <3>2. gs' = [g EXCEPT !.buffer = "empty", !.state = "wait", !.wait = wait, !.retries = g.retries]
      BY <1>1, <3>1 DEF Processed, Taps
    <3>3. QED
      BY <1>2, <3>2
  <2>2. CASE g.buffer # "offer"
    <3>1. gs' = [g EXCEPT !.buffer = "empty"]
      BY <2>2 DEF SelectState, Processed
    <3>2. gs' = [g EXCEPT !.buffer = "empty", !.state = "select", !.wait = g.wait, !.retries = g.retries]
      BY <1>1, <3>1 DEF Taps
    <3>3. QED
      BY <1>2, <3>2
  <2>3. QED
    BY <2>1, <2>2
<1>4. PICK wait \in Nat, s \in {"select", "wait"} :
        gs' = [g EXCEPT !.buffer = "empty", !.state = s, !.wait = wait, !.retries = g.retries]
  BY <1>3
<1>5. "empty" \in {"empty", "old", "offer", "ack", "nak"} /\ s \in {"randomize", "select", "wait", "request"}
      /\ g.state \in {"randomize", "select", "wait", "request"}
  BY <1>1, <1>4
<1>6. Left
  BY <1>1, <1>2, <1>4, <1>5, GoesOn
<1>7. QED
  BY <1>6, NobodyWoken DEF SelectState

LEMMA WaitStateLeaves ==
    ASSUME NEW g, Ready(g), DhcpTypeOK, WaitState(g)
    PROVE  Left /\ Answers(g)
<1>1. g \in Taps /\ held \in Nat /\ held' = held /\ g.state = "wait"
  BY DEF Ready, DhcpTypeOK, WaitState
<1>2. /\ g.wait \in Nat /\ g.retries \in 0 .. Retries
      /\ g.buffer \in {"empty", "old", "offer", "ack", "nak"}
  BY <1>1 DEF Taps
<1>3. \E wait \in Nat, s \in {"wait", "request"} :
        gs' = [g EXCEPT !.buffer = g.buffer, !.state = s, !.wait = wait, !.retries = g.retries]
  <2>1. CASE g.wait > 0
    <3>1. gs' = [g EXCEPT !.wait = g.wait - 1] /\ g.wait - 1 \in Nat
      BY <1>2, <2>1 DEF WaitState
    <3>2. gs' = [g EXCEPT !.buffer = g.buffer, !.state = "wait", !.wait = g.wait - 1, !.retries = g.retries]
      BY <1>1, <3>1 DEF Taps
    <3>3. QED
      BY <3>1, <3>2
  <2>2. CASE ~(g.wait > 0)
    <3>1. gs' = g \/ gs' = [g EXCEPT !.state = "request"]
      BY <2>2 DEF WaitState
    <3>2. \E s \in {"wait", "request"} :
            gs' = [g EXCEPT !.buffer = g.buffer, !.state = s, !.wait = g.wait, !.retries = g.retries]
      <4>1. CASE gs' = g
        <5>1. gs' = [g EXCEPT !.buffer = g.buffer, !.state = "wait", !.wait = g.wait, !.retries = g.retries]
          BY <1>1, <4>1 DEF Taps
        <5>2. QED
          BY <5>1
      <4>2. CASE gs' = [g EXCEPT !.state = "request"]
        <5>1. gs' = [g EXCEPT !.buffer = g.buffer, !.state = "request", !.wait = g.wait, !.retries = g.retries]
          BY <1>1, <4>2 DEF Taps
        <5>2. QED
          BY <5>1
      <4>3. QED
        BY <3>1, <4>1, <4>2
    <3>3. QED
      BY <1>2, <3>2
  <2>3. QED
    BY <2>1, <2>2
<1>4. PICK wait \in Nat, s \in {"wait", "request"} :
        gs' = [g EXCEPT !.buffer = g.buffer, !.state = s, !.wait = wait, !.retries = g.retries]
  BY <1>3
<1>5. s \in {"randomize", "select", "wait", "request"} /\ g.state \in {"randomize", "select", "wait", "request"}
  BY <1>1, <1>4
<1>6. Left
  BY <1>1, <1>2, <1>4, <1>5, GoesOn
<1>7. QED
  BY <1>6, NobodyWoken DEF WaitState

\* The times for renewal of a lease are not zero: they are set once.
LEMMA LeaseHalves ==
    ASSUME NEW l \in Leases
    PROVE  l \in Nat /\ l \div 2 \in Nat /\ l \div 2 > 0 /\ (l * 7) \div 8 \in Nat /\ (l * 7) \div 8 > 0
<1>1. l \in Nat /\ l > Interval /\ Interval \in Nat /\ Interval # 0
  BY DhcpAssumption
<1>2. l >= 2
  BY <1>1
<1>3. QED
  BY <1>1, <1>2

LEMMA RequestStateLeaves ==
    ASSUME NEW g, Ready(g), DhcpTypeOK, RequestState(g)
    PROVE  Left /\ Answers(g)
<1>1. g \in Taps /\ FirstLease(g) /\ held \in Nat /\ g.state = "request" /\ g.timer = 0 /\ ~g.errors
  BY DEF Ready, DhcpTypeOK, RequestState
<1>2. /\ g.wait \in Nat /\ g.retries \in 0 .. Retries /\ g.t1 \in Nat /\ g.t2 \in Nat /\ g.errors = FALSE
      /\ g.count \in Nat
  BY <1>1, TapFields DEF Taps
<1>3. CASE g.buffer = "ack"
  <2>1. PICK lease \in Leases, errors \in BOOLEAN :
          /\ gs' = Obtained(g, lease, errors)
          /\ granted' = [c \in Askers |-> IF Woken(g)[c] # waiting[c] THEN ~errors ELSE granted[c]]
          /\ waiting' = Woken(g) /\ held' = 0
    BY <1>3 DEF RequestState
  <2> DEFINE t1 == IF g.t1 = 0 THEN lease \div 2 ELSE g.t1
             t2 == IF g.t2 = 0 THEN (lease * 7) \div 8 ELSE g.t2
  <2>2. t1 \in Nat /\ t2 \in Nat /\ t1 > 0
    BY <1>2, LeaseHalves
  <2>3. \E l \in Leases : t1 = l \div 2 /\ t2 = (l * 7) \div 8
    BY <1>1, LeaseHalves DEF FirstLease
  <2>4. lease \in Leases \cup {0} /\ "bound" \in Unbound \cup Leased
    BY DEF Leased
  <2>5. gs' = [g EXCEPT !.buffer = "empty", !.state = "bound", !.lease = lease, !.errors = errors,
                        !.notice = Nobody, !.t1 = t1, !.t2 = t2]
    BY <1>1, <1>2, <2>1 DEF Obtained, Processed, Taps
  <2> HIDE DEF t1, t2
  <2>6. /\ gs' \in Taps /\ gs'.state = "bound" /\ gs'.timer = 0 /\ gs'.errors = errors /\ gs'.lease = lease
        /\ gs'.t1 = t1 /\ gs'.t2 = t2 /\ gs'.count = g.count
    BY <1>1, <2>2, <2>4, <2>5 DEF Taps
  <2>7. Renewing(gs') /\ FirstLease(gs')
    BY <2>3, <2>6 DEF Renewing, FirstLease, Leased
  <2>8. Timed(gs)'
    BY <1>2, <2>1, <2>2, <2>6 DEF Timed
  <2>9. Answers(g)
    BY <2>1, <2>6 DEF Answers, DhcpTypeOK
  <2>10. QED
    BY <2>1, <2>6, <2>7, <2>8, <2>9 DEF Left
<1>4. CASE g.buffer # "ack"
  <2>1. gs' = [g EXCEPT !.buffer = "empty"] /\ held' = held /\ UNCHANGED <<waiting, granted>>
    BY <1>4 DEF RequestState, Processed
  <2>2. gs' = [g EXCEPT !.buffer = "empty", !.state = "request", !.wait = g.wait, !.retries = g.retries]
    BY <1>1, <2>1 DEF Taps
  <2>3. PICK wait \in Nat, n \in 0 .. Retries, b \in {"empty", "old", "offer", "ack", "nak"},
             s \in {"randomize", "select", "wait", "request"} :
          s = g.state /\ gs' = [g EXCEPT !.buffer = b, !.state = s, !.wait = wait, !.retries = n]
    BY <1>1, <1>2, <2>2
  <2>4. Left
    <3>1. held' = held /\ held \in Nat /\ g.state \in {"randomize", "select", "wait", "request"}
      BY <1>1, <2>1
    <3>2. QED
      BY <2>3, <3>1, GoesOn
  <2>5. QED
    BY <2>1, <2>4, NobodyWoken
<1>5. QED
  BY <1>3, <1>4

\* With a lease, a tap whose times are what they were.
LEMMA KeepsTimes ==
    ASSUME NEW g, Ready(g), NEW b \in {"empty", "old", "offer", "ack", "nak"},
           NEW s \in Unbound \cup Leased, NEW n \in 0 .. Retries,
           gs' = [g EXCEPT !.buffer = b, !.state = s, !.retries = n]
    PROVE  /\ gs' \in Taps /\ FirstLease(gs') /\ gs'.state = s /\ gs'.timer = g.timer /\ gs'.count = g.count
           /\ gs'.t1 = g.t1 /\ gs'.t2 = g.t2 /\ gs'.lease = g.lease
<1>1. g \in Taps /\ FirstLease(g)
  BY DEF Ready
<1>2. /\ gs' \in Taps /\ gs'.state = s /\ gs'.timer = g.timer /\ gs'.count = g.count
      /\ gs'.t1 = g.t1 /\ gs'.t2 = g.t2 /\ gs'.lease = g.lease
  BY <1>1 DEF Taps
<1>3. QED
  BY <1>1, <1>2 DEF FirstLease

LEMMA BoundStateLeaves ==
    ASSUME NEW g, Ready(g), DhcpTypeOK, BoundState(g)
    PROVE  Left /\ Answers(g)
<1>1. g \in Taps /\ held \in Nat /\ g.state = "bound" /\ held' = held + 1 /\ UNCHANGED <<waiting, granted>>
  BY DEF Ready, DhcpTypeOK, BoundState
<1>2. /\ g.timer = held + 1 /\ g.lease \in Leases /\ g.t1 > 0
      /\ g.count = Interval \/ g.timer <= g.count
      /\ g.timer <= g.t1
  BY <1>1 DEF Ready, Leased
<1>3. /\ g.retries \in 0 .. Retries /\ g.t1 \in Nat /\ g.buffer \in {"empty", "old", "offer", "ack", "nak"}
  BY <1>1 DEF Taps
<1>4. CASE g.timer >= g.t1
  <2>1. gs' = [Aged(g) EXCEPT !.state = "renew"]
    BY <1>4 DEF BoundState
  <2>2. PICK b \in {"empty", "old", "offer", "ack", "nak"} : Aged(g) = [g EXCEPT !.buffer = b]
    BY <1>1, BufferAged
  <2>3. gs' = [g EXCEPT !.buffer = b, !.state = "renew", !.retries = g.retries]
    BY <1>1, <2>1, <2>2 DEF Taps
  <2>4. "renew" \in Unbound \cup Leased /\ "renew" \in Leased
    BY DEF Leased
  <2>5. /\ gs' \in Taps /\ FirstLease(gs') /\ gs'.state = "renew" /\ gs'.timer = g.timer /\ gs'.count = g.count
        /\ gs'.t1 = g.t1 /\ gs'.t2 = g.t2 /\ gs'.lease = g.lease
    BY <1>3, <2>3, <2>4, KeepsTimes
  <2>6. gs'.timer = gs'.t1
    BY <1>1, <1>2, <1>3, <1>4, <2>5
  <2>7. Timed(gs)'
    BY <1>1, <1>2, <2>5, <2>6 DEF Timed
  <2>8. Renewing(gs')
    BY <2>4, <2>5 DEF Renewing
  <2>9. QED
    BY <1>1, <2>5, <2>7, <2>8, NobodyWoken DEF Left
<1>5. CASE ~(g.timer >= g.t1)
  <2>1. gs' = g
    BY <1>5 DEF BoundState
  <2>2. gs' = [g EXCEPT !.buffer = g.buffer, !.state = "bound", !.retries = g.retries]
    BY <1>1, <2>1 DEF Taps
  <2>3. "bound" \in Unbound \cup Leased /\ "bound" \in Leased
    BY DEF Leased
  <2>4. /\ gs' \in Taps /\ FirstLease(gs') /\ gs'.state = "bound" /\ gs'.timer = g.timer /\ gs'.count = g.count
        /\ gs'.t1 = g.t1 /\ gs'.t2 = g.t2 /\ gs'.lease = g.lease
    BY <1>3, <2>2, <2>3, KeepsTimes
  <2>5. gs'.timer < gs'.t1
    BY <1>1, <1>2, <1>3, <1>5, <2>4
  <2>6. Timed(gs)'
    BY <1>1, <1>2, <2>4, <2>5 DEF Timed
  <2>7. Renewing(gs')
    BY <2>3, <2>4 DEF Renewing
  <2>8. QED
    BY <1>1, <2>4, <2>6, <2>7, NobodyWoken DEF Left
<1>6. QED
  BY <1>4, <1>5

\* A lease is renewed: it is timed from now, until the time that was set.
LEMMA RenewedLeaves ==
    ASSUME NEW g, Ready(g), g.state \in Leased, NEW lease \in Leases, gs' = Renewed(g, lease), held' = 0
    PROVE  Left
<1>1. g \in Taps /\ FirstLease(g) /\ g.t1 > 0 /\ g.t1 \in Nat /\ g.count \in Nat
  BY TapFields DEF Ready
<1> DEFINE none == 0
           bound == "bound"
<1>2. lease \in Leases \cup {0} /\ "bound" \in Unbound \cup Leased /\ "bound" \in Leased
  BY DEF Leased
<1>3. gs' = [g EXCEPT !.buffer = "empty", !.state = "bound", !.lease = lease, !.timer = 0]
  BY <1>1 DEF Renewed, Processed, Taps
<1>4. gs' \in Taps
  <2>1. lease \in Leases \cup {0} /\ bound \in Unbound \cup Leased /\ none \in Nat
    BY <1>2
  <2>2. gs' = [g EXCEPT !.buffer = "empty", !.state = bound, !.lease = lease, !.timer = none]
    BY <1>3
  <2> HIDE DEF bound, none
  <2>3. QED
    BY <1>1, <2>1, <2>2 DEF Taps
<1>5. /\ gs'.state = "bound" /\ gs'.timer = 0 /\ gs'.lease = lease /\ gs'.count = g.count
      /\ gs'.t1 = g.t1 /\ gs'.t2 = g.t2
  BY <1>1, <1>3 DEF Taps
<1>6. Renewing(gs') /\ FirstLease(gs')
  BY <1>1, <1>2, <1>5 DEF Renewing, FirstLease
<1>7. Timed(gs)'
  BY <1>1, <1>5 DEF Timed
<1>8. QED
  BY <1>4, <1>6, <1>7 DEF Left

LEMMA RenewStateLeaves ==
    ASSUME NEW g, Ready(g), DhcpTypeOK, RenewState(g)
    PROVE  Left /\ Answers(g)
<1>1. g \in Taps /\ FirstLease(g) /\ held \in Nat /\ g.state = "renew" /\ UNCHANGED <<waiting, granted>>
  BY DEF Ready, DhcpTypeOK, RenewState, RenewStates
<1>2. /\ g.timer = held + 1 /\ g.lease \in Leases /\ g.t1 > 0 /\ g.state \in Leased
      /\ g.count = Interval \/ g.timer <= g.count
      /\ g.timer <= g.t2 \/ g.timer = g.t1 + 1
  BY <1>1 DEF Ready, Leased
<1>3. /\ g.retries \in 0 .. Retries /\ g.t1 \in Nat /\ g.t2 \in Nat /\ g.lease \in Nat /\ g.timer \in Nat
  BY <1>1, TapFields DEF Taps
<1>4. CASE g.buffer = "ack"
  <2>1. held' = 0 /\ \E lease \in Leases : gs' = Renewed(g, lease)
    BY <1>4 DEF RenewState, RenewStates
  <2>2. Left
    BY <1>2, <2>1, RenewedLeaves
  <2>3. QED
    BY <1>1, <2>2, NobodyWoken
<1>5. CASE g.buffer # "ack"
  <2> DEFINE s == IF g.timer >= g.t2 THEN "rebind" ELSE "renew"
  <2>1. held' = held + 1 /\ gs' = IF g.timer >= g.t2 THEN [Processed(g) EXCEPT !.state = "rebind"] ELSE Processed(g)
    BY <1>5 DEF RenewState, RenewStates
  <2>2. gs' = [g EXCEPT !.buffer = "empty", !.state = s, !.retries = g.retries]
    BY <1>1, <2>1 DEF Processed, Taps
  <2>3. s \in Unbound \cup Leased /\ s \in Leased
    BY DEF Leased
  <2>4. (s = "rebind" /\ g.timer >= g.t2) \/ (s = "renew" /\ g.timer < g.t2)
    BY <1>3
  <2> HIDE DEF s
  <2>5. /\ gs' \in Taps /\ FirstLease(gs') /\ gs'.state = s /\ gs'.timer = g.timer /\ gs'.count = g.count
        /\ gs'.t1 = g.t1 /\ gs'.t2 = g.t2 /\ gs'.lease = g.lease
    BY <1>3, <2>2, <2>3, KeepsTimes
  <2>6. ASSUME g.t1 <= g.lease \div 2 PROVE g.timer <= g.lease
    BY <1>1, <1>2, <1>3, <2>6, RenewalTimes
  <2>7. Timed(gs)'
    BY <1>2, <2>1, <2>4, <2>5, <2>6 DEF Timed
  <2>8. Renewing(gs')
    BY <2>3, <2>5 DEF Renewing
  <2>9. QED
    BY <1>1, <2>1, <2>5, <2>7, <2>8, NobodyWoken DEF Left
<1>6. QED
  BY <1>4, <1>5

LEMMA RebindStateLeaves ==
    ASSUME NEW g, Ready(g), DhcpTypeOK, RebindState(g)
    PROVE  Left /\ Answers(g)
<1>1. g \in Taps /\ FirstLease(g) /\ held \in Nat /\ g.state = "rebind" /\ UNCHANGED <<waiting, granted>>
  BY DEF Ready, DhcpTypeOK, RebindState, RenewStates
<1>2. /\ g.timer = held + 1 /\ g.lease \in Leases /\ g.t1 > 0 /\ g.state \in Leased
      /\ g.count = Interval \/ g.timer <= g.count
  BY <1>1 DEF Ready, Leased
<1>3. /\ g.retries \in 0 .. Retries /\ g.lease \in Nat /\ g.timer \in Nat /\ g.count \in Nat /\ g.count <= Interval
      /\ Retries \in Nat /\ Interval \in Nat /\ g.lease > Interval
  BY <1>1, <1>2, TapFields, DhcpAssumption DEF Taps
<1>4. CASE g.buffer = "ack"
  <2>1. held' = 0 /\ \E lease \in Leases : gs' = Renewed(g, lease)
    BY <1>4 DEF RebindState, RenewStates
  <2>2. Left
    BY <1>2, <2>1, RenewedLeaves
  <2>3. QED
    BY <1>1, <2>2, NobodyWoken
<1>5. CASE g.buffer # "ack" /\ g.timer >= g.lease
  <2>1. held' = held + 1 /\ gs' = [Processed(g) EXCEPT !.state = "select", !.retries = AtMost(@ + 1, Retries)]
    BY <1>5 DEF RebindState, RenewStates
  <2>2. AtMost(g.retries + 1, Retries) \in 0 .. Retries /\ "select" \in Unbound \cup Leased /\ "select" \notin Leased
    BY <1>3 DEF AtMost, Unbound, Leased
  <2>3. gs' = [g EXCEPT !.buffer = "empty", !.state = "select", !.retries = AtMost(g.retries + 1, Retries)]
    BY <1>1, <2>1 DEF Processed, Taps
  <2>4. gs' \in Taps /\ FirstLease(gs') /\ gs'.state = "select" /\ gs'.count = g.count
    BY <2>2, <2>3, KeepsTimes
  <2>5. g.count = Interval
    BY <1>2, <1>3, <1>5
  <2>6. Renewing(gs') /\ Timed(gs)'
    BY <2>2, <2>4, <2>5 DEF Renewing, Timed
  <2>7. QED
    BY <1>1, <2>1, <2>4, <2>6, NobodyWoken DEF Left
<1>6. CASE g.buffer # "ack" /\ ~(g.timer >= g.lease)
  <2>1. held' = held + 1 /\ gs' = Processed(g)
    BY <1>6 DEF RebindState, RenewStates
  <2>2. gs' = [g EXCEPT !.buffer = "empty", !.state = "rebind", !.retries = g.retries]
    BY <1>1, <2>1 DEF Processed, Taps
  <2>3. "rebind" \in Unbound \cup Leased /\ "rebind" \in Leased
    BY DEF Leased
  <2>4. /\ gs' \in Taps /\ FirstLease(gs') /\ gs'.state = "rebind" /\ gs'.timer = g.timer /\ gs'.count = g.count
        /\ gs'.t1 = g.t1 /\ gs'.t2 = g.t2 /\ gs'.lease = g.lease
    BY <1>3, <2>2, <2>3, KeepsTimes
  <2>5. gs'.timer <= gs'.lease
    BY <1>3, <1>6, <2>4
  <2>6. Timed(gs)'
    BY <1>2, <2>1, <2>4, <2>5 DEF Timed
  <2>7. Renewing(gs')
    BY <2>3, <2>4 DEF Renewing
  <2>8. QED
    BY <1>1, <2>1, <2>4, <2>6, <2>7, NobodyWoken DEF Left
<1>7. QED
  BY <1>4, <1>5, <1>6

\* Whatever its state.
LEMMA StateFunctionLeaves ==
    ASSUME NEW g, Ready(g), DhcpTypeOK, StateFunction(g)
    PROVE  Left /\ Answers(g)
BY InitStateLeaves, RandomizeStateLeaves, SelectStateLeaves, WaitStateLeaves, RequestStateLeaves,
   BoundStateLeaves, RenewStateLeaves, RebindStateLeaves DEF StateFunction

LEMMA StatemachineLeaves ==
    ASSUME DhcpInv, gs # Nobody, Statemachine
    PROVE  Left /\ Answers(gs)
<1>1. DhcpTypeOK /\ gs \in Taps /\ FirstLease(gs) /\ held \in Nat
  BY DEF DhcpInv, DhcpTypeOK
<1>2. ASSUME NEW g, g.notice = gs.notice, Answers(g) PROVE Answers(gs)
  BY <1>2 DEF Answers, Woken
<1> DEFINE late == gs.state \in Unbound /\ gs.count + 1 >= Interval
<1>3. CASE late /\ gs.retries >= Retries /\ gs' = GivenUp(gs) /\ waiting' = Woken(gs)
           /\ UNCHANGED <<queried, granted, held>>
  <2>1. 0 \in 0 .. Interval /\ 0 \in 0 .. Retries /\ "init" \in Unbound \cup Leased /\ "init" \notin Leased
    BY DhcpAssumption DEF Unbound, Leased
  <2>2. gs' \in Taps
    BY <1>1, <1>3, <2>1 DEF GivenUp, Taps
  <2>3. gs'.state = "init" /\ gs'.errors = TRUE /\ gs'.t1 = gs.t1 /\ gs'.t2 = gs.t2
    BY <1>1, <1>3 DEF GivenUp, Taps
  <2>4. Left
    BY <1>1, <1>3, <2>1, <2>2, <2>3 DEF Left, Renewing, Timed, FirstLease
  <2>5. Answers(gs)
    <3>1. /\ waiting' = Woken(gs) /\ granted' = granted /\ granted \in [Askers -> BOOLEAN]
          /\ waiting \in [Askers -> Pauses]
      BY <1>1, <1>3 DEF DhcpTypeOK
    <3>2. ASSUME NEW c \in Askers, waiting'[c] # waiting[c] PROVE granted[c] = ~gs'.errors
      <4>1. waiting[c] = "idle"
        BY <3>1, <3>2 DEF Woken
      <4>2. ~granted[c] /\ granted[c] \in BOOLEAN
        BY <3>1, <4>1 DEF DhcpInv, Truly
      <4>3. QED
        BY <2>3, <4>2
    <3>3. QED
      BY <3>1, <3>2 DEF Answers
  <2>6. QED
    BY <2>4, <2>5
<1>4. CASE late /\ StateFunction([gs EXCEPT !.count = 0, !.state = "init"])
  <2> DEFINE g == [gs EXCEPT !.count = 0, !.state = "init"]
  <2>1. Ready(g)
    BY StartsOver
  <2>2. Left /\ Answers(g)
    BY <1>1, <1>4, <2>1, StateFunctionLeaves
  <2>3. g.notice = gs.notice
    BY <1>1 DEF Taps
  <2>4. QED
    BY <1>2, <2>2, <2>3
<1>5. CASE ~late /\ StateFunction(Counted(gs))
  <2>1. gs.state \in Unbound => gs.count + 1 < Interval
    BY <1>1, <1>5, TapFields, DhcpAssumption
  <2>2. Ready(Counted(gs)) /\ Counted(gs).notice = gs.notice
    BY <2>1, PollCounts
  <2>3. Left /\ Answers(Counted(gs))
    BY <1>1, <1>5, <2>2, StateFunctionLeaves
  <2>4. QED
    BY <1>2, <2>2, <2>3
<1>6. QED
  BY <1>3, <1>4, <1>5 DEF Statemachine

LEMMA PollKeeps ==
    ASSUME DhcpInv, Poll
    PROVE  DhcpInv'
<1>1. /\ DhcpTypeOK /\ Truly /\ gs \in Taps /\ gs # Nobody /\ place = "timers" /\ place' = "frames" /\ told' = told
      /\ Renewing(gs) /\ FirstLease(gs) /\ Timed(gs)
  BY DEF DhcpInv, DhcpTypeOK, Poll
<1>2. Left /\ Answers(gs)
  <2>1. CASE gs.enable
    BY <1>1, <2>1, StatemachineLeaves DEF Poll
  <2>2. CASE ~gs.enable
    <3>1. UNCHANGED <<gs, waiting, granted, held>>
      BY <2>2 DEF Poll
    <3>2. Renewing(gs') /\ FirstLease(gs')
      BY <1>1, <3>1
    <3>3. Timed(gs)'
      BY <1>1, <3>1 DEF Timed
    <3>4. QED
      BY <1>1, <3>1, <3>2, <3>3, NobodyWoken DEF Left, DhcpTypeOK
  <2>3. QED
    BY <2>1, <2>2
<1>3. waiting' \in [Askers -> Pauses]
  BY <1>1, <1>2 DEF Answers, DhcpTypeOK, Woken, Pauses
<1>4. gs' # Nobody
  BY <1>2, NobodyAssumption DEF Left
<1>5. DhcpTypeOK'
  BY <1>1, <1>2, <1>3 DEF DhcpTypeOK, Left, Answers
<1>6. Truly'
  <2> SUFFICES ASSUME NEW c \in Askers
               PROVE  /\ waiting'[c] = "woken" => granted'[c] = ~gs'.errors
                      /\ waiting'[c] \in {"none", "idle", "lost"} => ~granted'[c]
    BY <1>1, <1>4 DEF Truly
  <2>1. waiting[c] # "woken" /\ (waiting[c] \in {"none", "idle", "lost"} => ~granted[c])
    BY <1>1 DEF Truly
  <2>2. waiting'[c] = waiting[c] \/ waiting'[c] = "woken"
    BY <1>1, <1>2 DEF Answers, Woken, DhcpTypeOK
  <2>3. granted'[c] = IF waiting'[c] # waiting[c] THEN ~gs'.errors ELSE granted[c]
    BY <1>2 DEF Answers
  <2>4. QED
    BY <2>1, <2>2, <2>3
<1>7. QED
  BY <1>2, <1>5, <1>6 DEF DhcpInv, Left

LEMMA FrameKeeps ==
    ASSUME DhcpInv, NEW reply \in Replies, Frame(reply)
    PROVE  DhcpInv'
<1>1. /\ DhcpTypeOK /\ Truly /\ gs \in Taps /\ gs # Nobody
      /\ Renewing(gs) /\ FirstLease(gs) /\ Timed(gs)
      /\ UNCHANGED <<queried, waiting, told, granted, held, place>>
  BY DEF DhcpInv, DhcpTypeOK, Frame
<1>2. PICK b \in {"empty", "old", "offer", "ack", "nak"} : gs' = [gs EXCEPT !.buffer = b]
  <2>1. gs.buffer \in {"empty", "old", "offer", "ack", "nak"} /\ gs = [gs EXCEPT !.buffer = gs.buffer]
    BY <1>1 DEF Taps
  <2>2. reply \in {"empty", "old", "offer", "ack", "nak"}
    BY DEF Replies
  <2>3. QED
    BY <2>1, <2>2 DEF Frame
<1>3. /\ gs' \in Taps /\ gs'.state = gs.state /\ gs'.timer = gs.timer /\ gs'.count = gs.count /\ gs'.lease = gs.lease
      /\ gs'.t1 = gs.t1 /\ gs'.t2 = gs.t2 /\ gs'.errors = gs.errors
  BY <1>1, <1>2 DEF Taps
<1>4. DhcpTypeOK'
  BY <1>1, <1>3 DEF DhcpTypeOK
<1>5. Truly'
  BY <1>1, <1>3, NobodyAssumption DEF Truly
<1>6. Renewing(gs') /\ FirstLease(gs')
  BY <1>1, <1>3 DEF Renewing, FirstLease
<1>7. Timed(gs)'
  BY <1>1, <1>3 DEF Timed
<1>8. QED
  BY <1>4, <1>5, <1>6, <1>7 DEF DhcpInv

\* Steps that leave the machine alone.
LEMMA MachineKept ==
    ASSUME DhcpInv, UNCHANGED <<gs, held>>, gs # Nobody
    PROVE  Renewing(gs') /\ FirstLease(gs') /\ Timed(gs)'
<1>1. Renewing(gs) /\ FirstLease(gs) /\ Timed(gs)
  BY DEF DhcpInv
<1>2. Timed(gs)'
  BY <1>1 DEF Timed
<1>3. QED
  BY <1>1, <1>2

LEMMA TurnKeeps ==
    ASSUME DhcpInv, Turn
    PROVE  DhcpInv'
<1>1. DhcpTypeOK /\ Truly /\ UNCHANGED <<gs, queried, waiting, granted, held>>
  BY DEF DhcpInv, Turn
<1>2. place' \in {"timers", "frames", "clients", "notices"} /\ (place' = "timers" => place = "notices")
  BY <1>1 DEF DhcpTypeOK, Turn
<1>3. told' \in [Askers -> {"nothing", "ok", "fail"}]
  BY <1>1 DEF DhcpTypeOK, Turn
<1>4. DhcpTypeOK'
  BY <1>1, <1>2, <1>3 DEF DhcpTypeOK
<1>5. ASSUME NEW c \in Askers, waiting[c] = "woken" PROVE place' # "timers"
  BY <1>2, <1>5 DEF Turn
<1>6. Truly'
  BY <1>1, <1>5 DEF Truly
<1>7. QED
  BY <1>1, <1>4, <1>6, MachineKept DEF DhcpInv

LEMMA TapDhcpKeeps ==
    ASSUME DhcpInv, NEW c \in Askers, TapDhcp(c)
    PROVE  DhcpInv'
<1>1. /\ DhcpTypeOK /\ Truly /\ gs \in Taps /\ gs # Nobody /\ FirstLease(gs) /\ waiting[c] = "none"
      /\ gs' = [gs EXCEPT !.notice = c, !.state = "init", !.enable = TRUE]
      /\ waiting' = [waiting EXCEPT ![c] = "idle"]
      /\ UNCHANGED <<queried, told, granted, held, place>>
  BY DEF DhcpInv, DhcpTypeOK, TapDhcp
<1>2. "init" \in Unbound \cup Leased /\ "init" \notin Leased
  BY DEF Unbound, Leased
<1>3. gs' \in Taps
  BY <1>1, <1>2 DEF Taps
<1>4. gs'.state = "init" /\ gs'.t1 = gs.t1 /\ gs'.t2 = gs.t2 /\ gs'.errors = gs.errors
  BY <1>1 DEF Taps
<1>5. DhcpTypeOK'
  BY <1>1, <1>3 DEF DhcpTypeOK, Pauses
<1>6. Truly'
  BY <1>1, <1>3, <1>4, NobodyAssumption DEF Truly, DhcpTypeOK
<1>7. Renewing(gs') /\ FirstLease(gs')
  BY <1>1, <1>4 DEF Renewing, FirstLease
<1>8. Timed(gs)'
  BY <1>2, <1>4 DEF Timed
<1>9. QED
  BY <1>5, <1>6, <1>7, <1>8 DEF DhcpInv

LEMMA AnsweredKeeps ==
    ASSUME DhcpInv, NEW c \in Askers, Resume(c) \/ Leave(c)
    PROVE  DhcpInv'
<1>1. /\ DhcpTypeOK /\ Truly
      /\ waiting' = [waiting EXCEPT ![c] = "none"] /\ granted' = [granted EXCEPT ![c] = FALSE]
      /\ UNCHANGED <<gs, queried, held, place>>
  BY DEF DhcpInv, Resume, Leave
<1>2. told' \in [Askers -> {"nothing", "ok", "fail"}]
  BY <1>1 DEF DhcpTypeOK, Resume, Leave
<1>3. DhcpTypeOK'
  BY <1>1, <1>2 DEF DhcpTypeOK, Pauses
<1>4. Truly'
  BY <1>1 DEF Truly, DhcpTypeOK
<1>5. QED
  BY <1>1, <1>3, <1>4, MachineKept DEF DhcpInv

LEMMA TapStopKeeps ==
    ASSUME DhcpInv, TapStop
    PROVE  DhcpInv'
<1>1. DhcpTypeOK /\ Truly /\ gs' = Nobody /\ held' = 0 /\ UNCHANGED <<told, granted, place>>
  BY DEF DhcpInv, TapStop
<1>2. waiting' \in [Askers -> Pauses]
  BY <1>1 DEF DhcpTypeOK, TapStop, Pauses
<1>3. DhcpTypeOK'
  BY <1>1, <1>2 DEF DhcpTypeOK
<1>4. ASSUME NEW c \in Askers
      PROVE  waiting'[c] # "woken" /\ (waiting'[c] \in {"none", "idle", "lost"} => waiting[c] \in {"none", "idle", "lost"})
  BY <1>1 DEF TapStop, DhcpTypeOK, Pauses
<1>5. Truly'
  BY <1>1, <1>4 DEF Truly
<1>6. QED
  BY <1>1, <1>3, <1>5 DEF DhcpInv

LEMMA CreatedTap ==
    Created \in Taps /\ Renewing(Created) /\ FirstLease(Created) /\ Created.state \notin Leased
<1>1. 0 \in 0 .. Interval /\ 0 \in 0 .. Retries /\ "init" \in Unbound \cup Leased /\ "init" \notin Leased
  BY DhcpAssumption DEF Unbound, Leased
<1>2. QED
  BY <1>1 DEF Created, Taps, Renewing, FirstLease

LEMMA TapStartKeeps ==
    ASSUME DhcpInv, TapStart
    PROVE  DhcpInv'
<1>1. DhcpTypeOK /\ Truly /\ gs = Nobody /\ gs' = Created /\ UNCHANGED <<queried, waiting, told, granted, held, place>>
  BY DEF DhcpInv, TapStart
<1>2. DhcpTypeOK'
  BY <1>1, CreatedTap DEF DhcpTypeOK
<1>3. Truly'
  BY <1>1 DEF Truly
<1>4. Timed(gs)'
  BY <1>1, CreatedTap DEF Timed
<1>5. QED
  BY <1>1, <1>2, <1>3, <1>4, CreatedTap DEF DhcpInv

LEMMA DhcpInitInv == DhcpInit => DhcpInv
<1> SUFFICES ASSUME DhcpInit PROVE DhcpInv
  OBVIOUS
<1>1. DhcpTypeOK
  BY CreatedTap DEF DhcpInit, DhcpTypeOK, Pauses
<1>2. Truly
  BY DEF DhcpInit, Truly
<1>3. gs = Created
  BY DEF DhcpInit
<1>4. Timed(gs)
  BY <1>3, CreatedTap DEF Timed
<1>5. QED
  BY <1>1, <1>2, <1>3, <1>4, CreatedTap DEF DhcpInv

LEMMA DhcpStepInv == DhcpInv /\ [DhcpNext]_dvars => DhcpInv'
<1> SUFFICES ASSUME DhcpInv, [DhcpNext]_dvars PROVE DhcpInv'
  OBVIOUS
<1>1. CASE UNCHANGED dvars
  <2>1. UNCHANGED <<gs, waiting, told, granted, held, place>>
    BY <1>1 DEF dvars
  <2>2. DhcpTypeOK' /\ Truly'
    BY <2>1 DEF DhcpInv, DhcpTypeOK, Truly
  <2>3. QED
    BY <2>1, <2>2, MachineKept DEF DhcpInv
<1>2. QED
  BY <1>1, PollKeeps, TurnKeeps, FrameKeeps, TapDhcpKeeps, AnsweredKeeps, TapStopKeeps, TapStartKeeps DEF DhcpNext

\* However a lease is renewed, a machine that holds one has timed it since, and
\* renews it or starts over before its end (dhcp_statemachine, dhcp_bound,
\* dhcp_renew and dhcp_rebind).
THEOREM DhcpLeaseTimed == DhcpSpec => []LeaseTimed
<1>1. DhcpInv => LeaseTimed
  <2> SUFFICES ASSUME DhcpInv, gs # Nobody, gs.state \in Leased, gs.t1 <= gs.lease \div 2
               PROVE  held <= gs.lease
    BY DEF LeaseTimed, DhcpInv, Timed
  <2>1. gs \in Taps /\ FirstLease(gs) /\ Timed(gs) /\ held \in Nat
    BY DEF DhcpInv, DhcpTypeOK
  <2>2. gs.timer = held /\ gs.t1 > 0 /\ gs.lease \in Nat /\ gs.t1 \in Nat /\ gs.t2 \in Nat
    BY <2>1, TapFields DEF Timed
  <2>3. gs.t1 + 1 <= gs.lease /\ gs.t2 <= gs.lease
    BY <2>1, <2>2, RenewalTimes
  <2>4. gs.timer < gs.t1 \/ gs.timer < gs.t2 \/ gs.timer = gs.t1 \/ gs.timer <= gs.lease
    BY <2>1 DEF Timed, Leased
  <2>5. QED
    BY <2>1, <2>2, <2>3, <2>4
<1>2. QED
  BY <1>1, DhcpInitInv, DhcpStepInv, PTL DEF DhcpSpec

\* A client that waited for a lease is told ok only if it was woken by one, with
\* the gateware and the kernel configured, whoever has asked since
\* (dhcp_resume_callback).
THEOREM DhcpToldTruly == DhcpSpec => ToldTruly
<1> DEFINE Told ==
      \A c \in Askers :
          waiting[c] = "woken" /\ waiting'[c] = "none" /\ place = "notices"
              => told'[c] = IF granted[c] THEN "ok" ELSE "fail"
<1>1. DhcpInv /\ [DhcpNext]_dvars => [Told]_dvars
  <2> SUFFICES ASSUME DhcpInv, DhcpNext, NEW c \in Askers,
                      waiting[c] = "woken", waiting'[c] = "none", place = "notices"
               PROVE  told'[c] = IF granted[c] THEN "ok" ELSE "fail"
    BY DEF Told
  <2>1. DhcpTypeOK /\ granted[c] = ~gs.errors /\ granted[c] \in BOOLEAN
    BY DEF DhcpInv, Truly, DhcpTypeOK
  <2>2. waiting' # waiting /\ waiting[c] # waiting'[c]
    OBVIOUS
  <2>3. PICK d \in Askers : Resume(d)
    BY <2>2 DEF DhcpNext, Poll, Frame, Turn, TapDhcp, Leave, TapStop, TapStart
  <2>4. waiting' = [waiting EXCEPT ![d] = "none"]
    BY <2>3 DEF Resume
  <2>5. d = c
    BY <2>1, <2>2, <2>4 DEF DhcpTypeOK
  <2>6. PICK reply \in {"ok", "fail"} :
          /\ waiting[c] = "woken" => reply = IF gs.errors THEN "fail" ELSE "ok"
          /\ told' = [told EXCEPT ![c] = reply]
    BY <2>3, <2>5 DEF Resume
  <2>7. told'[c] = IF gs.errors THEN "fail" ELSE "ok"
    BY <2>1, <2>6 DEF DhcpTypeOK
  <2>8. QED
    BY <2>1, <2>7
<1>2. DhcpSpec => [][Told]_dvars
  BY <1>1, DhcpInitInv, DhcpStepInv, PTL DEF DhcpSpec
<1>3. QED
  BY <1>2 DEF ToldTruly
=============================================================================
