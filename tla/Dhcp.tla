-------------------------------- MODULE Dhcp --------------------------------
(***************************************************************************)
(* The DHCP client of a tap device, tcpborphserver3/tg.c, and the request  *)
(* ?tap-dhcp that waits for it.                                            *)
(*                                                                         *)
(* The state machine takes a step each time the device is polled.  In a    *)
(* turn of the main loop timers come first, then the requests of clients,  *)
(* then the notices that timers have woken.  Whoever asks for a lease is   *)
(* paused until the machine wakes its notice.                              *)
(*                                                                         *)
(* Of a transaction id only matters whether it is the one sent last, which *)
(* is random and taken to be new.  So messages may be lost, delayed and    *)
(* duplicated: a server may answer at any time what has been sent.         *)
(* Servers are taken not to send times for renewal (options 58 and 59).    *)
(***************************************************************************)
EXTENDS Integers

CONSTANTS
    Askers,     \* clients that may ask for a lease
    Interval,   \* DHCP_SM_INTERVAL, in polls
    Retries,    \* DHCP_SM_RETRIES
    Delays,     \* random waits, in polls
    Leases,     \* times for which leases are granted, in polls
    Nobody

ASSUME DhcpAssumption ==
    /\ Interval \in Nat \ {0} /\ Retries \in Nat \ {0}
    /\ Delays \subseteq Nat
    /\ Leases \subseteq Nat /\ \A t \in Leases : t > Interval
    /\ Nobody \notin Askers

VARIABLES
    gs,         \* struct getap_state, as far as DHCP needs it, or Nobody
    queried,    \* what has been sent with the latest transaction id
    waiting,    \* the notice a client waits for, see Pauses
    told,       \* what a client that has waited is told in this turn
    granted,    \* a client's notice was woken by a lease (history)
    held,       \* polls since the lease was granted (history)
    place       \* place in the main loop: timers, frames, clients or notices

dvars == <<gs, queried, waiting, told, granted, held, place>>

\* A notice that is idle will be woken, one that is lost is not known to the
\* device any more; once woken it calls dhcp_resume_callback, which looks at
\* the device, for one that is stale after it has been freed.
Pauses == {"none", "idle", "lost", "woken", "stale"}

Unbound == {"init", "randomize", "select", "wait", "request"}
Leased == {"bound", "renew", "rebind"}

AtMost(n, bound) == IF n < bound THEN n ELSE bound

\* struct getap_state, as far as DHCP is concerned.
Taps ==
    [state : Unbound \cup Leased, enable : BOOLEAN, buffer : {"empty", "old", "offer", "ack", "nak"},
     count : 0 .. Interval, retries : 0 .. Retries, wait : Nat, lease : Leases \cup {0},
     t1 : Nat, t2 : Nat, timer : Nat, errors : BOOLEAN, notice : Askers \cup {Nobody}]

ASSUME NobodyAssumption == Nobody \notin Taps

\* create_getap.  An empty receive buffer has no type.
Created ==
    [state |-> "init", enable |-> FALSE, buffer |-> "empty", count |-> 0, retries |-> 0, wait |-> 1,
     lease |-> 0, t1 |-> 0, t2 |-> 0, timer |-> 0, errors |-> FALSE, notice |-> Nobody]

DhcpInit ==
    /\ gs = Created
    /\ queried = {}
    /\ waiting = [c \in Askers |-> "none"]
    /\ told = [c \in Askers |-> "nothing"]
    /\ granted = [c \in Askers |-> FALSE]
    /\ held = 0
    /\ place = "timers"

-----------------------------------------------------------------------------
(* Messages.                                                                *)

\* dhcp_msg with DHCP_NEW_XID: what is in the buffer answers an older one.  The
\* message may not get out, because the gateware is busy (which is not noticed)
\* or because it fails.
Aged(g) == IF g.buffer = "empty" THEN g ELSE [g EXCEPT !.buffer = "old"]

SendNew(type) == queried' \in {{type}, {}}

\* dhcp_msg with the transaction id of before.
SendMore(type) == queried' = queried \cup {type}

\* The replies a server may send to what was sent last.
Replies ==
    {r \in {"offer", "ack", "nak"} : IF r = "offer" THEN "discover" \in queried ELSE "request" \in queried}

\* process_dhcp.  Of the times it takes over from a message those of an ack
\* replace those of an offer before they are looked at.
Processed(g) == [g EXCEPT !.buffer = "empty"]

-----------------------------------------------------------------------------
(* The functions of the states; each but the first is given the state with  *)
(* the poll counted.                                                        *)

InitState(g) ==
    /\ g.state = "init"
    /\ \E wait \in Delays :
          gs' = [g EXCEPT !.state = "randomize", !.buffer = "empty", !.errors = FALSE, !.timer = 0, !.wait = wait]
    /\ UNCHANGED <<queried, waiting, granted, held>>

RandomizeState(g) ==
    /\ g.state = "randomize"
    /\ IF g.wait > 0
       THEN gs' = [g EXCEPT !.wait = @ - 1] /\ UNCHANGED queried
       ELSE /\ gs' = [Aged(g) EXCEPT !.state = "select", !.retries = AtMost(@ + 1, Retries)]
            /\ SendNew("discover")
    /\ UNCHANGED <<waiting, granted, held>>

SelectState(g) ==
    /\ g.state = "select"
    /\ IF g.buffer = "offer"
       THEN \E wait \in Delays : gs' = [Processed(g) EXCEPT !.state = "wait", !.wait = wait]
       ELSE gs' = Processed(g)
    /\ UNCHANGED <<queried, waiting, granted, held>>

\* A request that cannot be sent is tried again; one for which the gateware
\* is busy is not.
WaitState(g) ==
    /\ g.state = "wait"
    /\ IF g.wait > 0
       THEN gs' = [g EXCEPT !.wait = @ - 1] /\ UNCHANGED queried
       ELSE \/ gs' = g /\ UNCHANGED queried
            \/ gs' = [g EXCEPT !.state = "request"] /\ (SendMore("request") \/ UNCHANGED queried)
    /\ UNCHANGED <<waiting, granted, held>>

\* Mutant: the notice is forgotten.
WokenNot(g) == waiting

\* wake_notice_katcp and release_notice_katcp
Woken(g) == [c \in Askers |-> IF c = g.notice /\ waiting[c] = "idle" THEN "woken" ELSE waiting[c]]

\* The times for renewal are worked out unless there are some already, and
\* configuring gateware and kernel may fail, each of them.
Obtained(g, lease, errors) ==
    [Processed(g) EXCEPT !.state = "bound", !.lease = lease, !.errors = @ \/ errors, !.notice = Nobody,
                         !.t1 = IF @ = 0 THEN lease \div 2 ELSE @,
                         !.t2 = IF @ = 0 THEN (lease * 7) \div 8 ELSE @]

RequestState(g) ==
    /\ g.state = "request"
    /\ IF g.buffer = "ack"
       THEN \E lease \in Leases, errors \in BOOLEAN :
               /\ gs' = Obtained(g, lease, errors)
               /\ granted' = [c \in Askers |-> IF Woken(g)[c] # waiting[c] THEN ~errors ELSE granted[c]]
               /\ waiting' = Woken(g)
               /\ held' = 0
       ELSE gs' = Processed(g) /\ UNCHANGED <<waiting, granted, held>>
    /\ UNCHANGED queried

BoundState(g) ==
    /\ g.state = "bound"
    /\ IF g.timer >= g.t1
       THEN gs' = [Aged(g) EXCEPT !.state = "renew"] /\ SendNew("request")
       ELSE gs' = g /\ UNCHANGED queried
    /\ held' = held + 1
    /\ UNCHANGED <<waiting, granted>>

Renewed(g, lease) == [Processed(g) EXCEPT !.state = "bound", !.lease = lease, !.timer = 0]

\* The lease is renewed, or at the end of the period the next step taken.
RenewStates(g, from, end, to) ==
    /\ g.state = from
    /\ IF g.buffer = "ack"
       THEN /\ \E lease \in Leases : gs' = Renewed(g, lease)
            /\ held' = 0
            /\ UNCHANGED queried
       ELSE /\ held' = held + 1
            /\ IF g.timer >= end
               THEN to
               ELSE gs' = Processed(g) /\ UNCHANGED queried
    /\ UNCHANGED <<waiting, granted>>

RenewState(g) ==
    RenewStates(g, "renew", g.t2,
        gs' = [Processed(g) EXCEPT !.state = "rebind"] /\ SendNew("request"))

RebindState(g) ==
    RenewStates(g, "rebind", g.lease,
        gs' = [Processed(g) EXCEPT !.state = "select", !.retries = AtMost(@ + 1, Retries)] /\ SendNew("discover"))

-----------------------------------------------------------------------------
(* run_timer_tap                                                            *)

\* Mutant: to give up is no error.
GivenUpQuietly(g) ==
    [g EXCEPT !.count = 0, !.state = "init", !.retries = 0, !.enable = FALSE, !.notice = Nobody]

GivenUp(g) ==
    [g EXCEPT !.count = 0, !.state = "init", !.retries = 0, !.enable = FALSE, !.notice = Nobody,
              !.errors = TRUE]

StateFunction(g) ==
    \/ InitState(g) \/ RandomizeState(g) \/ SelectState(g) \/ WaitState(g) \/ RequestState(g)
    \/ BoundState(g) \/ RenewState(g) \/ RebindState(g)

\* Mutant: polls are counted from the end of the lease.
CountedAnew(g) ==
    IF g.state \in Leased THEN [g EXCEPT !.count = 0, !.timer = @ + 1] ELSE [g EXCEPT !.count = AtMost(@ + 1, Interval)]

\* All polls are counted, though never more than matter.
Counted(g) ==
    [g EXCEPT !.count = AtMost(@ + 1, Interval), !.timer = IF g.state \in Leased THEN @ + 1 ELSE @]

\* dhcp_statemachine: without a lease, things start over every Interval polls,
\* and are given up after a number of attempts.
Statemachine ==
    LET late == gs.state \in Unbound /\ gs.count + 1 >= Interval
    IN  \/ /\ late /\ gs.retries >= Retries
           /\ gs' = GivenUp(gs)
           /\ waiting' = Woken(gs)
           /\ UNCHANGED <<queried, granted, held>>
        \/ /\ late /\ gs.retries < Retries
           /\ StateFunction([gs EXCEPT !.count = 0, !.state = "init"])
        \/ ~late /\ StateFunction(Counted(gs))

Poll ==
    /\ place = "timers"
    /\ gs # Nobody
    /\ IF gs.enable THEN Statemachine ELSE UNCHANGED <<gs, queried, waiting, granted, held>>
    /\ place' = "frames"
    /\ UNCHANGED told

\* validate_dhcp_reply: a reply that finds the buffer in use is dropped.  An
\* answer to an older message is passed on to the kernel and changes nothing.
Frame(reply) ==
    /\ place = "frames"
    /\ gs # Nobody
    /\ gs' = IF gs.buffer = "empty" THEN [gs EXCEPT !.buffer = reply] ELSE gs
    /\ UNCHANGED <<queried, waiting, told, granted, held, place>>

\* No more frames, or no timer was due; then clients and notices are run.
Turn ==
    /\ place' = CASE place \in {"timers", "frames"} -> "clients"
                  [] place = "clients" -> "notices"
                  [] place = "notices" -> "timers"
    /\ place = "notices" => \A c \in Askers : waiting[c] \notin {"woken", "stale"}
    /\ told' = IF place = "notices" THEN [c \in Askers |-> "nothing"] ELSE told
    /\ UNCHANGED <<gs, queried, waiting, granted, held>>

-----------------------------------------------------------------------------
(* Commands.                                                                *)

\* tap_dhcp_cmd, which fails at once while somebody else waits.
TapDhcp(c) ==
    /\ place = "clients"
    /\ gs # Nobody
    /\ waiting[c] = "none" /\ gs.notice = Nobody
    /\ gs' = [gs EXCEPT !.notice = c, !.state = "init", !.enable = TRUE]
    /\ waiting' = [waiting EXCEPT ![c] = "idle"]
    /\ UNCHANGED <<queried, told, granted, held, place>>

\* dhcp_resume_callback: of a device that has been freed anything may be read.
Resume(c) ==
    /\ place = "notices"
    /\ waiting[c] \in {"woken", "stale"}
    /\ \E reply \in {"ok", "fail"} :
          /\ waiting[c] = "woken" => reply = IF gs.errors THEN "fail" ELSE "ok"
          /\ told' = [told EXCEPT ![c] = reply]
    /\ waiting' = [waiting EXCEPT ![c] = "none"]
    /\ granted' = [granted EXCEPT ![c] = FALSE]
    /\ UNCHANGED <<gs, queried, held, place>>

\* A client disconnects.
Leave(c) ==
    /\ place = "clients"
    /\ waiting[c] # "none"
    /\ waiting' = [waiting EXCEPT ![c] = "none"]
    /\ granted' = [granted EXCEPT ![c] = FALSE]
    /\ UNCHANGED <<gs, queried, told, held, place>>

\* tap_stop_cmd, stop_all_getap: destroy_getap frees the device, and neither
\* wakes nor releases its notice.
TapStop ==
    /\ place = "clients"
    /\ gs # Nobody
    /\ gs' = Nobody
    /\ waiting' = [c \in Askers |-> CASE waiting[c] = "idle" -> "lost"
                                      [] waiting[c] = "woken" -> "stale"
                                      [] OTHER -> waiting[c]]
    /\ queried' = {} /\ held' = 0
    /\ UNCHANGED <<told, granted, place>>

\* tap_start_cmd
TapStart ==
    /\ place = "clients"
    /\ gs = Nobody
    /\ gs' = Created
    /\ UNCHANGED <<queried, waiting, told, granted, held, place>>

DhcpNext ==
    \/ Poll \/ Turn
    \/ \E reply \in Replies : Frame(reply)
    \/ \E c \in Askers : TapDhcp(c) \/ Resume(c) \/ Leave(c)
    \/ TapStop \/ TapStart

\* The loop turns, and the timer of a device runs out time and again.
DhcpFairness ==
    /\ WF_dvars(Turn) /\ SF_dvars(Poll)
    /\ \A c \in Askers : WF_dvars(Resume(c))

DhcpSpec == DhcpInit /\ [][DhcpNext]_dvars /\ DhcpFairness

-----------------------------------------------------------------------------
(* Properties.                                                              *)

\* Whoever waits for a lease is answered, by a lease or when attempts run out,
\* unless the device is stopped or the client goes: no state of the machine,
\* nor a late or lost message, keeps a client for ever.
DhcpAnswered ==
    \A c \in Askers : waiting[c] \in {"idle", "woken"} ~> waiting[c] \in {"none", "lost"}

\* A client is told ok if its notice was woken by a lease, with gateware and
\* kernel configured, although the errors it is told from are those of the
\* device, and another client may have asked before it is called.
ToldTruly ==
    [][\A c \in Askers :
          waiting[c] = "woken" /\ waiting'[c] = "none" /\ place = "notices"
              => told'[c] = IF granted[c] THEN "ok" ELSE "fail"]_dvars

\* A lease is timed from when it was granted or renewed last: one that expires
\* leaves its timer behind, but the machine has then been running long enough
\* to start over.  So a lease is not held beyond its end, unless a server has
\* replaced it by a shorter one: the times for renewal are worked out once.
LeaseTimed ==
    gs # Nobody /\ gs.state \in Leased =>
        gs.timer = held /\ (gs.t1 <= gs.lease \div 2 => held <= gs.lease)

=============================================================================
