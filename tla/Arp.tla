-------------------------------- MODULE Arp ---------------------------------
(***************************************************************************)
(* The address table of a tap device, tcpborphserver3/tg.c: the gateware   *)
(* needs to know its neighbours in advance, so the device asks for each    *)
(* of them and announces itself, time and again.                           *)
(*                                                                         *)
(* When that is due is kept in terms of a counter that only a sweep        *)
(* through the table advances, and that wraps.  Per poll the device tries  *)
(* to write what is left in its buffer, receives frames, and unless there  *)
(* were many sends at most one message; an action is one of these.         *)
(***************************************************************************)
EXTENDS Integers

CONSTANTS
    ArpCache,     \* GETAP_ARP_CACHE
    TableSize,    \* s_table_size
    Self,         \* s_self, our own place in the table
    Wrap,         \* the counter is below, 2^32 in the code
    Rates,        \* compute_spam_rate, compute_announce_rate
    SmallDelay,   \* SMALL_DELAY
    ValidPeriod,  \* s_valid_period
    Sweeps        \* ARP_MODE_DEFAULT

Entries == 1 .. TableSize - 2

Apart(i, j) == IF i > j THEN i - j ELSE j - i

\* How far ahead an entry may be due: further, and the counter could not tell
\* it from one that is overdue.
Ahead(d) == d >= 1 /\ d + 2 * ArpCache < Wrap

ASSUME ArpAssumption ==
    /\ ArpCache \in Nat /\ Wrap \in Nat
    /\ Rates \subseteq Nat /\ SmallDelay \in Nat /\ ValidPeriod \in Nat
    /\ TableSize \in 4 .. ArpCache /\ Self \in Entries
    /\ \A d \in Rates \cup {SmallDelay, ValidPeriod + TableSize, TableSize + ArpCache} : Ahead(d)
    /\ Sweeps \in Nat

VARIABLES
    s_iteration,
    s_index,
    s_arp_fresh,    \* when each entry is due
    s_arp_mode,     \* sweeps to go, -1 for ever
    s_arp_len,      \* there is a message to be written
    restarted       \* the sweep has been started afresh (history)

tapvars == <<s_iteration, s_index, s_arp_fresh, s_arp_mode, s_arp_len, restarted>>

\* create_getap
ArpInit ==
    /\ s_iteration = 0 /\ s_index = 1
    /\ s_arp_fresh = [i \in Entries |-> i]
    /\ s_arp_mode = Sweeps
    /\ s_arp_len = FALSE /\ restarted = FALSE

-----------------------------------------------------------------------------

After(d) == (s_iteration + d) % Wrap

\* run_timer_tap, before frames are received.
FlushArp ==
    /\ s_arp_len
    /\ s_arp_len' = FALSE
    /\ UNCHANGED <<s_iteration, s_index, s_arp_fresh, s_arp_mode, restarted>>

\* glean_arp: somebody has said who is at place i.
Glean(i) ==
    /\ s_arp_fresh' = [s_arp_fresh EXCEPT ![i] = After(ValidPeriod + TableSize - Apart(i, Self))]
    /\ UNCHANGED <<s_iteration, s_index, s_arp_mode, s_arp_len, restarted>>

\* reply_arp: a reply that cannot be written replaces what is in the buffer.
ReplyArp ==
    /\ s_arp_fresh' = [s_arp_fresh EXCEPT ![Self] = After(SmallDelay)]
    /\ s_arp_len' \in {s_arp_len, TRUE}
    /\ UNCHANGED <<s_iteration, s_index, s_arp_mode, restarted>>

\* Mutant: a counter that has wrapped is before, not after.
OverdueUnwrapped(consider) ==
    IF s_iteration >= consider THEN s_iteration - consider ELSE Wrap - 1

\* As spam_arp works it out.
Overdue(consider) ==
    IF s_iteration >= consider THEN s_iteration - consider ELSE (Wrap - 1) - (consider - s_iteration)

Due(i) == Overdue(s_arp_fresh[i]) < 2 * ArpCache

\* announce_arp, request_arp: the message may stay in the buffer.
Sent(i) ==
    /\ \E d \in Rates : s_arp_fresh' = [s_arp_fresh EXCEPT ![i] = After(d)]
    /\ s_arp_len' \in BOOLEAN

\* spam_arp: the next entry that is due, or the end of a sweep.
SpamArp ==
    LET due == {i \in Entries : i >= s_index /\ Due(i)}
    IN  /\ s_arp_mode # 0 /\ ~s_arp_len
        /\ \/ \E i \in due :
                 /\ \A j \in due : i <= j
                 /\ Sent(i)
                 /\ s_index' = i + 1
                 /\ UNCHANGED <<s_arp_mode, restarted>>
           \/ /\ due = {}
              /\ s_index' = 1
              /\ s_arp_mode' = IF s_arp_mode > 0 THEN s_arp_mode - 1 ELSE s_arp_mode
              /\ restarted' = FALSE
              /\ UNCHANGED <<s_arp_fresh, s_arp_len>>
        /\ s_iteration' = After(1)

\* configure_fpga, tap_reload_arp: everything is to be acquired again, soon
\* but not at once.
ReloadArp ==
    /\ \E soon \in [Entries -> 2 .. 1 + ArpCache \div 4] :
          s_arp_fresh' = [i \in Entries |-> After(IF i = Self THEN 1 ELSE soon[i])]
    /\ UNCHANGED <<s_iteration, s_index, s_arp_mode, s_arp_len, restarted>>

\* tap_runtime_configure: off, once or for ever.  A sweep is started afresh at
\* most once: over and over, and it would not get to the end of the table.
ConfigureArp(mode) ==
    /\ s_arp_mode' = mode
    /\ IF mode > 0
       THEN ~restarted /\ restarted' = TRUE /\ s_index' = 1
       ELSE UNCHANGED <<restarted, s_index>>
    /\ UNCHANGED <<s_iteration, s_arp_fresh, s_arp_len>>

ArpNext ==
    \/ FlushArp \/ ReplyArp \/ SpamArp \/ ReloadArp
    \/ \E i \in Entries : Glean(i)
    \/ \E mode \in {-1, 0, 1} : ConfigureArp(mode)

ArpSpec == ArpInit /\ [][ArpNext]_tapvars

-----------------------------------------------------------------------------

\* Every neighbour is asked for, and we announce ourselves, time and again,
\* also when the counter has wrapped: an entry is not overdue for longer than
\* two sweeps take, nor taken for one that is due in the distant future.  "If
\* integers never wrapped" this would be plain.
NeverMissed ==
    \A i \in Entries :
        LET late == (s_iteration - s_arp_fresh[i]) % Wrap
        IN  late < 2 * TableSize \/ Ahead(Wrap - late)

=============================================================================
