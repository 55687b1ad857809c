------------------------------- MODULE Notice -------------------------------
(***************************************************************************)
(* Notices (src/katcp/notice.c): named or anonymous entities that clients, *)
(* and the template of the server, subscribe to with a callback, and that  *)
(* jobs and timers hold until they wake them.  The module has the notices  *)
(* together with everybody who touches them in one turn of the main loop   *)
(* (run_core_loop_katcp, server.c): the timers that wake notices (ts.c),   *)
(* the clients with their requests ?notice, ?job process, ?job match and   *)
(* the commands run as subprocesses (shared.c, dispatch.c, job.c), the     *)
(* jobs that pass on informs and end (job.c, map.c), run_notices_katcp     *)
(* itself, and the arrival of clients.                                     *)
(*                                                                         *)
(* A job has one halt notice and one notice in its map.  The map notice is *)
(* given a name, so that clients find it; the halt notice is the one named *)
(* by ?job process, or anonymous for a command run as a subprocess.  What  *)
(* a client has read and not handled is counted, and so is whether there   *)
(* is output for it; logging counts as no output.  Nothing runs out of     *)
(* memory, and processes can be created.                                   *)
(***************************************************************************)
EXTENDS Integers, FiniteSets, SequencesExt

CONSTANTS Clients,   \* the clients the server has room for
          Names,     \* names given to notices by clients
          Jobs,      \* jobs
          Budget     \* bound: requests read and informs of jobs

ASSUME BudgetAssumption == Budget \in Nat
ASSUME FiniteAssumption == IsFiniteSet(Clients) /\ IsFiniteSet(Jobs)

Template == "template"
None == "none"      \* no message
Null == <<>>        \* no notice
Users == Clients \cup {Template}
HaltOf(j) == <<"halt", j>>
MapOf(j) == <<"map", j>>
Ids == Names \cup {HaltOf(j) : j \in Jobs} \cup {MapOf(j) : j \in Jobs}

(* The template is none of the clients, NULL is no notice, and the notices   *)
(* of a job are not among those that clients name.                           *)
ASSUME NamesAssumption ==
  /\ Template \notin Clients
  /\ Null \notin Names
  /\ \A j \in Jobs : HaltOf(j) \notin Names /\ MapOf(j) \notin Names

Messages == {"inform", "return", "timeout"}
Calls == {"resume", "match", "relay", "log"}
Entries == [client : Users, call : Calls]

VARIABLES
  notices,   \* s_notices: the notices that exist, in order
  vector,    \* n_vector: who is to be called
  use,       \* n_use
  trigger,   \* n_trigger
  queue,     \* n_queue: messages for the next run
  parse,     \* n_parse: the message being run
  links,     \* d_notices: how often a client refers to a notice
  pause,     \* d_pause
  table,     \* s_clients[0 .. s_used - 1]
  inbox,     \* requests read and not handled
  out,       \* is there output to be written
  exiting,   \* d_run: terminated, waits for its output to be written
  timers,    \* timers that will wake the notice
  halt,      \* j_halt
  map,       \* the notice in j_map
  pc,        \* place in the main loop
  at,        \* i: the client or the notice being visited
  k,         \* the entry of n_vector to be called next
  limit,     \* messages the notice had when its run began
  called,    \* history: entries called for the current message
  budget

core == <<notices, vector, use, trigger, queue, parse>>
conns == <<table, inbox, out, exiting>>
holders == <<timers, halt, map>>
loop == <<pc, at, k, limit, called>>
vars == <<core, links, pause, conns, holders, loop, budget>>

Exists(n) == n \in Range(notices)

Init ==
  /\ notices = <<>>
  /\ vector = [n \in Ids |-> <<>>]
  /\ use = [n \in Ids |-> 0]
  /\ trigger = [n \in Ids |-> FALSE]
  /\ queue = [n \in Ids |-> <<>>]
  /\ parse = [n \in Ids |-> None]
  /\ links = [u \in Users |-> [n \in Ids |-> 0]]
  /\ pause = [c \in Clients |-> FALSE]
  /\ table = <<>>
  /\ inbox = [c \in Clients |-> 0]
  /\ out = [c \in Clients |-> FALSE]
  /\ exiting = [c \in Clients |-> FALSE]
  /\ timers = [n \in Ids |-> 0]
  /\ halt = [j \in Jobs |-> Null]
  /\ map = [j \in Jobs |-> Null]
  /\ pc = "select" /\ at = 1 /\ k = 1 /\ limit = 0 /\ called = {}
  /\ budget = Budget

-----------------------------------------------------------------------------
(* Vectors.  The last entry takes the place of the one that is removed.     *)

SwapRemove(v, i) == [x \in 1 .. Len(v) - 1 |-> IF x = i THEN v[Len(v)] ELSE v[x]]

EntriesOf(v, u) == {i \in 1 .. Len(v) : v[i].client = u}

(* Mutant: stops at the first entry.                                        *)
CompactedOnce(v, u) ==
  IF EntriesOf(v, u) = {} THEN v ELSE SwapRemove(v, Min(EntriesOf(v, u)))

(* notice_compact_notice_katcp: every entry of a client, the first one first. *)
Compacted(v, u) ==
  LET rest[i \in 0 .. Len(v)] ==
        IF i = 0 THEN v
        ELSE IF EntriesOf(rest[i - 1], u) = {} THEN rest[i - 1]
        ELSE SwapRemove(rest[i - 1], Min(EntriesOf(rest[i - 1], u)))
  IN  rest[Len(v)]

(* dispatch_compact_notice_katcp: every reference of a client to a notice.  *)
DispatchCompact(u, n) == links' = [links EXCEPT ![u][n] = 0]

(* add_notice_katcp: a callback that is there already, with the same data,  *)
(* is a duplicate, whoever it is for; the data is NULL throughout.          *)
Duplicate(v, call) == \E i \in 1 .. Len(v) : v[i].call = call

AddNotice(u, n, call) ==
  IF Duplicate(vector[n], call)
  THEN UNCHANGED <<vector, links>>
  ELSE /\ vector' = [vector EXCEPT ![n] = Append(@, [client |-> u, call |-> call])]
       /\ links' = [links EXCEPT ![u][n] = @ + 1]

(* create_parse_notice_katcp, without a message: finds or creates.          *)
CreateNotice(n) == IF Exists(n) THEN notices ELSE Append(notices, n)

-----------------------------------------------------------------------------
(* Waking: messages, triggers and holders.                                   *)

(* set_parse_notice_katcp drops what is queued, add_parse_notice_katcp adds. *)
SetParse(q, n, ms) == [q EXCEPT ![n] = ms]
AddParse(q, n, m) == [q EXCEPT ![n] = Append(@, m)]

(* trigger_notice_katcp                                                      *)
Triggered(t, n) == [t EXCEPT ![n] = TRUE]

(* hold_notice_katcp, release_notice_katcp                                   *)
Held(u, n) == [u EXCEPT ![n] = @ + 1]
LetGo(u, n) == [u EXCEPT ![n] = IF @ > 0 THEN @ - 1 ELSE @]

-----------------------------------------------------------------------------
(* The main loop sleeps in pselect() until something happens, then goes      *)
(* through timers, clients, jobs, notices and new connections.               *)

Select ==
  /\ pc = "select"
  /\ pc' = "timers"
  /\ UNCHANGED <<core, links, pause, conns, holders, at, k, limit, called, budget>>

(* trigger_time_katcp: the timer of ?notice wake with a delay.              *)
TimerFires(n) ==
  /\ pc = "timers"
  /\ timers[n] > 0
  /\ timers' = [timers EXCEPT ![n] = @ - 1]
  /\ queue' = SetParse(queue, n, <<"timeout">>)
  /\ trigger' = Triggered(trigger, n)
  /\ use' = LetGo(use, n)
  /\ UNCHANGED <<notices, vector, parse, links, pause, conns, halt, map, loop, budget>>

TimersDone ==
  /\ pc = "timers"
  /\ pc' = "visit" /\ at' = 1
  /\ UNCHANGED <<core, links, pause, conns, holders, k, limit, called, budget>>

-----------------------------------------------------------------------------
(* run_shared_katcp: one client after the other.                             *)

Visiting(c) == at <= Len(table) /\ c = table[at]

NextClient == pc' = "visit" /\ at' = at + 1 /\ UNCHANGED <<k, limit, called>>

(* disown_notices_katcp: takes the client out of the notices it refers to.   *)
Disowned(c) ==
  [n \in Ids |-> IF links[c][n] > 0 THEN Compacted(vector[n], c) ELSE vector[n]]

(* inform_client_connections_katcp: tells the others.                        *)
Informed(c) == [x \in Clients |-> out[x] \/ (x # c /\ x \in Range(table))]

(* release_clone and reset_katcp.                                            *)
Release(c) ==
  /\ vector' = Disowned(c)
  /\ links' = [links EXCEPT ![c] = [n \in Ids |-> 0]]
  /\ pause' = [pause EXCEPT ![c] = FALSE]
  /\ table' = SwapRemove(table, at)
  /\ inbox' = [inbox EXCEPT ![c] = 0]
  /\ out' = [Informed(c) EXCEPT ![c] = FALSE]
  /\ exiting' = [exiting EXCEPT ![c] = FALSE]
  /\ UNCHANGED <<notices, use, trigger, queue, parse, holders, budget>>

(* The last client has moved to the place of the one that goes, and is not   *)
(* visited in this turn.                                                     *)
Disconnect(c) == Release(c) /\ NextClient

(* write_katcp, if pselect() reported the client.                            *)
Write(c) ==
  /\ pc = "visit" /\ Visiting(c) /\ out[c]
  /\ out' = [out EXCEPT ![c] = FALSE]
  /\ pc' = "read"
  /\ UNCHANGED <<core, links, pause, table, inbox, exiting, holders, at, k,
                 limit, called, budget>>

WriteNothing(c) ==
  /\ pc = "visit" /\ Visiting(c)
  /\ pc' = "read"
  /\ UNCHANGED <<core, links, pause, conns, holders, at, k, limit, called, budget>>

WriteFails(c) == pc = "visit" /\ Visiting(c) /\ out[c] /\ Disconnect(c)

(* A client that has been told to go is released when its output is written. *)
Exited(c) ==
  /\ pc = "read" /\ Visiting(c) /\ exiting[c]
  /\ IF out[c]
     THEN NextClient /\ UNCHANGED <<core, links, pause, conns, holders, budget>>
     ELSE Disconnect(c)

(* read_katcp: some requests, or none if pselect() did not report the client. *)
Read(c) ==
  /\ pc = "read" /\ Visiting(c) /\ ~exiting[c]
  /\ \E n \in 0 .. budget :
       /\ inbox' = [inbox EXCEPT ![c] = @ + n]
       /\ budget' = budget - n
  /\ pc' = "dispatch"
  /\ UNCHANGED <<core, links, pause, table, out, exiting, holders, at, k, limit, called>>

(* read_katcp: end of file, or an error.                                     *)
ReadEnd(c) == pc = "read" /\ Visiting(c) /\ ~exiting[c] /\ Disconnect(c)

(* dispatch_katcp: handles requests until there are none, or one pauses.     *)
Request(c) ==
  /\ pc = "dispatch" /\ Visiting(c)
  /\ ~pause[c] /\ inbox[c] > 0
  /\ inbox' = [inbox EXCEPT ![c] = @ - 1]
  /\ UNCHANGED <<table, exiting, loop, budget>>

Reply(c) == out' = [out EXCEPT ![c] = TRUE] /\ UNCHANGED pause

Paused(c) == pause' = [pause EXCEPT ![c] = TRUE] /\ UNCHANGED out

DispatchDone(c) ==
  /\ pc = "dispatch" /\ Visiting(c)
  /\ pause[c] \/ inbox[c] = 0
  /\ NextClient
  /\ UNCHANGED <<core, links, pause, conns, holders, budget>>

(* What was read is not a message.                                           *)
DispatchFails(c) == pc = "dispatch" /\ Visiting(c) /\ ~pause[c] /\ Disconnect(c)

VisitsDone ==
  /\ pc = "visit" /\ at > Len(table)
  /\ pc' = "jobs" /\ at' = 1
  /\ UNCHANGED <<core, links, pause, conns, holders, k, limit, called, budget>>

-----------------------------------------------------------------------------
(* Requests.                                                                 *)

(* Any request that has nothing to do with notices, or fails.                *)
OtherRequest(c) ==
  /\ Request(c) /\ Reply(c)
  /\ UNCHANGED <<core, links, holders>>

(* Only notices with a name are found.                                       *)
Findable(n) == Exists(n) /\ n \notin {HaltOf(j) : j \in Jobs}

(* ?notice watch: subscribes, creating the notice if need be, and waits.     *)
Watch(c, n) ==
  /\ Request(c) /\ Paused(c)
  /\ n \in Names \/ Findable(n)
  /\ notices' = CreateNotice(n)
  /\ AddNotice(c, n, "resume")
  /\ UNCHANGED <<use, trigger, queue, parse, holders>>

(* ?notice wake: wake_notice_katcp without a message drops those queued.     *)
Wake(c, n) ==
  /\ Request(c) /\ Reply(c)
  /\ Findable(n)
  /\ queue' = SetParse(queue, n, <<>>)
  /\ trigger' = Triggered(trigger, n)
  /\ UNCHANGED <<notices, vector, use, parse, links, holders>>

(* ?notice wake with a delay: the timer holds the notice.                    *)
WakeLater(c, n) ==
  /\ Request(c) /\ Reply(c)
  /\ Findable(n)
  /\ use' = Held(use, n)
  /\ timers' = [timers EXCEPT ![n] = @ + 1]
  /\ UNCHANGED <<notices, vector, trigger, queue, parse, links, halt, map>>

Startable(j) ==
  map[j] = Null /\ ~Exists(MapOf(j)) /\ ~Exists(HaltOf(j))

(* ?job process: the job holds the notice that was named; the template takes *)
(* up the job's log messages.                                                *)
StartProcess(c, j, n) ==
  /\ Request(c) /\ Reply(c)
  /\ Startable(j)
  /\ notices' = Append(CreateNotice(n), MapOf(j))
  /\ AddNotice(Template, MapOf(j), "log")
  /\ use' = Held(Held(use, MapOf(j)), n)
  /\ halt' = [halt EXCEPT ![j] = n]
  /\ map' = [map EXCEPT ![j] = MapOf(j)]
  /\ UNCHANGED <<trigger, queue, parse, timers>>

(* subprocess_start_job_katcp: the client waits for the end of the job, and  *)
(* has the informs named after the command passed on to it.                  *)
StartSubprocess(c, j) ==
  /\ Request(c) /\ Paused(c)
  /\ Startable(j)
  /\ notices' = notices \o <<HaltOf(j), MapOf(j)>>
  /\ vector' = [vector EXCEPT ![MapOf(j)] = <<[client |-> c, call |-> "relay"]>>,
                              ![HaltOf(j)] = <<[client |-> c, call |-> "resume"]>>]
  /\ links' = [links EXCEPT ![c][MapOf(j)] = 1, ![c][HaltOf(j)] = 1]
  /\ use' = Held(Held(use, HaltOf(j)), MapOf(j))
  /\ halt' = [halt EXCEPT ![j] = HaltOf(j)]
  /\ map' = [map EXCEPT ![j] = MapOf(j)]
  /\ UNCHANGED <<trigger, queue, parse, timers>>

(* ?job match: match_inform_job_katcp, for an inform that has a notice.      *)
Match(c, j) ==
  /\ Request(c) /\ Reply(c)
  /\ map[j] # Null
  /\ AddNotice(c, map[j], "match")
  /\ UNCHANGED <<notices, use, trigger, queue, parse, holders>>

-----------------------------------------------------------------------------
(* run_jobs_katcp, as far as notices are concerned.                          *)

(* field_job_katcp: an inform for which there is a notice in the map.        *)
JobInform(j) ==
  /\ pc = "jobs" /\ map[j] # Null /\ budget > 0
  /\ budget' = budget - 1
  /\ queue' = AddParse(queue, map[j], "inform")
  /\ trigger' = Triggered(trigger, map[j])
  /\ UNCHANGED <<notices, vector, use, parse, links, pause, conns, holders, loop>>

(* Mutant: lets the halt notice go without waking it.                        *)
JobFinishSilent(j) ==
  /\ pc = "jobs" /\ map[j] # Null
  /\ queue' = AddParse(SetParse(queue, halt[j], <<"return">>), map[j], "return")
  /\ trigger' = Triggered(trigger, map[j])
  /\ use' = LetGo(LetGo(use, halt[j]), map[j])
  /\ halt' = [halt EXCEPT ![j] = Null]
  /\ map' = [map EXCEPT ![j] = Null]
  /\ UNCHANGED <<notices, vector, parse, links, pause, conns, timers, loop, budget>>

(* The job has ended: the halt notice gets the result in place of what it    *)
(* had, the one in the map (destroy_trap_katcp) in addition; both are let go. *)
JobFinish(j) ==
  /\ pc = "jobs" /\ map[j] # Null
  /\ queue' = AddParse(SetParse(queue, halt[j], <<"return">>), map[j], "return")
  /\ trigger' = Triggered(Triggered(trigger, halt[j]), map[j])
  /\ use' = LetGo(LetGo(use, halt[j]), map[j])
  /\ halt' = [halt EXCEPT ![j] = Null]
  /\ map' = [map EXCEPT ![j] = Null]
  /\ UNCHANGED <<notices, vector, parse, links, pause, conns, timers, loop, budget>>

JobsDone ==
  /\ pc = "jobs"
  /\ pc' = "notice" /\ at' = 1
  /\ UNCHANGED <<core, links, pause, conns, holders, k, limit, called, budget>>

-----------------------------------------------------------------------------
(* run_notices_katcp.                                                        *)

Running(n) == at <= Len(notices) /\ n = notices[at]

HeadOf(q) == IF q = <<>> THEN None ELSE Head(q)
TailOf(q) == IF q = <<>> THEN <<>> ELSE Tail(q)

(* The notice was triggered: its first message is taken, if it has any.      *)
Begin(n) ==
  /\ pc = "notice" /\ Running(n) /\ trigger[n]
  /\ trigger' = [trigger EXCEPT ![n] = FALSE]
  /\ limit' = Len(queue[n])
  /\ parse' = [parse EXCEPT ![n] = HeadOf(queue[n])]
  /\ queue' = [queue EXCEPT ![n] = TailOf(@)]
  /\ pc' = "call" /\ k' = 1 /\ called' = {}
  /\ UNCHANGED <<notices, vector, use, links, pause, conns, holders, at, budget>>

(* get_parse_notice_katcp.                                                   *)
Message(n) == IF parse[n] # None THEN parse[n] ELSE HeadOf(queue[n])

(* relay_cmd_job_katcp and relay_log_job_katcp ask to be called again,       *)
(* unless the message is the end of the job or missing.                      *)
Stays(e, m) == e.call \in {"relay", "log"} /\ m \notin {None, "return"}

(* Mutant: resumes without a reply.                                          *)
CalledSilent(e, m) ==
  /\ out' = IF \/ e.call = "match" /\ m # None
               \/ e.call = "relay" /\ Stays(e, m)
            THEN [out EXCEPT ![e.client] = TRUE] ELSE out
  /\ pause' = IF e.call = "resume" THEN [pause EXCEPT ![e.client] = FALSE] ELSE pause
  /\ called' = called \cup {e}

(* resume_notice and subprocess_resume_job_katcp send the reply and resume;  *)
(* match_job and relay_cmd_job_katcp pass the message on.                    *)
Called(e, m) ==
  /\ out' = IF \/ e.call = "resume"
               \/ e.call = "match" /\ m # None
               \/ e.call = "relay" /\ Stays(e, m)
            THEN [out EXCEPT ![e.client] = TRUE] ELSE out
  /\ pause' = IF e.call = "resume" THEN [pause EXCEPT ![e.client] = FALSE] ELSE pause
  /\ called' = called \cup {e}

(* Mutant: moves on over the entry that has taken the place of one removed.  *)
CallSkips(n) ==
  /\ pc = "call" /\ Running(n) /\ k <= Len(vector[n])
  /\ Called(vector[n][k], Message(n))
  /\ k' = k + 1
  /\ IF Stays(vector[n][k], Message(n))
     THEN UNCHANGED <<vector, links>>
     ELSE /\ vector' = [vector EXCEPT ![n] = SwapRemove(@, k)]
          /\ DispatchCompact(vector[n][k].client, n)
  /\ UNCHANGED <<notices, use, trigger, queue, parse, table, inbox, exiting,
                 holders, pc, at, limit, budget>>

(* One callback; an entry that is done is replaced by the last one.          *)
Call(n) ==
  /\ pc = "call" /\ Running(n) /\ k <= Len(vector[n])
  /\ Called(vector[n][k], Message(n))
  /\ IF Stays(vector[n][k], Message(n))
     THEN k' = k + 1 /\ UNCHANGED <<vector, links>>
     ELSE /\ vector' = [vector EXCEPT ![n] = SwapRemove(@, k)]
          /\ DispatchCompact(vector[n][k].client, n)
          /\ UNCHANGED k
  /\ UNCHANGED <<notices, use, trigger, queue, parse, table, inbox, exiting,
                 holders, pc, at, limit, budget>>

(* Everybody was called: the next message, if it was there from the start.   *)
NextMessage(n) ==
  /\ pc = "call" /\ Running(n) /\ k > Len(vector[n])
  /\ limit' = limit - 1
  /\ IF limit - 1 > 0 /\ queue[n] # <<>>
     THEN /\ parse' = [parse EXCEPT ![n] = Head(queue[n])]
          /\ queue' = [queue EXCEPT ![n] = Tail(@)]
          /\ k' = 1 /\ called' = {} /\ UNCHANGED pc
     ELSE /\ parse' = [parse EXCEPT ![n] = None]
          /\ pc' = "leave" /\ UNCHANGED <<queue, k, called>>
  /\ UNCHANGED <<notices, vector, use, trigger, links, pause, conns, holders, at, budget>>

(* Mutant: holders do not count.                                             *)
CollectibleHeld(n) == vector[n] = <<>>

Collectible(n) == vector[n] = <<>> /\ use[n] <= 0

(* A notice that has no subscribers and no holders is removed and freed.     *)
Leave(n) ==
  /\ Running(n)
  /\ pc = "leave" \/ (pc = "notice" /\ ~trigger[n])
  /\ pc' = "notice"
  /\ IF Collectible(n)
     THEN /\ notices' = RemoveAt(notices, at)
          /\ queue' = [queue EXCEPT ![n] = <<>>]
          /\ trigger' = [trigger EXCEPT ![n] = FALSE]
          /\ UNCHANGED at
     ELSE at' = at + 1 /\ UNCHANGED <<notices, queue, trigger>>
  /\ UNCHANGED <<vector, use, parse, links, pause, conns, holders, k, limit, called, budget>>

NoticesDone ==
  /\ pc = "notice" /\ at > Len(notices)
  /\ pc' = "accept" /\ at' = 1 /\ k' = 1 /\ limit' = 0 /\ called' = {}
  /\ UNCHANGED <<core, links, pause, conns, holders, budget>>

-----------------------------------------------------------------------------
(* New connections.                                                          *)

Accepted == pc = "accept" /\ pc' = "select" /\ UNCHANGED <<at, k, limit, called>>

(* add_client_server_katcp: tells the others, and the versions to the client. *)
Connect(c) ==
  /\ Accepted
  /\ c \notin Range(table)
  /\ table' = Append(table, c)
  /\ out' = [Informed(c) EXCEPT ![c] = TRUE]
  /\ UNCHANGED <<core, links, pause, inbox, exiting, holders, budget>>

(* perforate_client_server_katcp: there is no room, somebody has to go.      *)
Perforate(c) ==
  /\ Accepted
  /\ Clients \subseteq Range(table) /\ c \in Clients
  /\ exiting' = [exiting EXCEPT ![c] = TRUE]
  /\ out' = [out EXCEPT ![c] = TRUE]
  /\ UNCHANGED <<core, links, pause, table, inbox, holders, budget>>

AcceptNobody ==
  Accepted /\ UNCHANGED <<core, links, pause, conns, holders, budget>>

-----------------------------------------------------------------------------

Visit(c) == \/ Write(c) \/ WriteNothing(c) \/ WriteFails(c) \/ Exited(c)
            \/ Read(c) \/ ReadEnd(c) \/ DispatchDone(c) \/ DispatchFails(c)

Handle(c) ==
  \/ OtherRequest(c)
  \/ \E n \in Ids : Watch(c, n) \/ Wake(c, n) \/ WakeLater(c, n)
  \/ \E j \in Jobs : \/ \E n \in Names : StartProcess(c, j, n)
                     \/ StartSubprocess(c, j)
                     \/ Match(c, j)

Run(n) == Begin(n) \/ Call(n) \/ NextMessage(n) \/ Leave(n)

Next ==
  \/ Select \/ TimersDone \/ VisitsDone \/ JobsDone \/ NoticesDone \/ AcceptNobody
  \/ \E n \in Ids : TimerFires(n) \/ Run(n)
  \/ \E c \in Clients : Visit(c) \/ Handle(c) \/ Connect(c) \/ Perforate(c)
  \/ \E j \in Jobs : JobInform(j) \/ JobFinish(j)

Spec == Init /\ [][Next]_vars

(* pselect() returns if there is output, a timer or a job: sockets of        *)
(* clients become writable, timers run out and jobs end.  Nothing else wakes *)
(* the loop for sure.                                                        *)
Due == \/ \E c \in Range(table) : out[c]
       \/ \E n \in Ids : timers[n] > 0
       \/ \E j \in Jobs : map[j] # Null

Fairness ==
  /\ WF_vars(Due /\ Select)
  /\ WF_vars(Next /\ pc # "select")
  /\ \A c \in Clients : SF_vars(Write(c))
  /\ \A n \in Ids : SF_vars(TimerFires(n))
  /\ \A j \in Jobs : SF_vars(JobFinish(j))

FairSpec == Spec /\ Fairness

-----------------------------------------------------------------------------
(* Properties.                                                               *)

(* Values of the variables: places in the loop are within the tables they    *)
(* index, and what the loop is at exists.                                    *)
TypeOK ==
  /\ notices \in Seq(Ids)
  /\ vector \in [Ids -> Seq(Entries)]
  /\ use \in [Ids -> Nat]
  /\ trigger \in [Ids -> BOOLEAN]
  /\ queue \in [Ids -> Seq(Messages)]
  /\ parse \in [Ids -> Messages \cup {None}]
  /\ links \in [Users -> [Ids -> Nat]]
  /\ pause \in [Clients -> BOOLEAN]
  /\ table \in Seq(Clients)
  /\ inbox \in [Clients -> 0 .. Budget]
  /\ out \in [Clients -> BOOLEAN]
  /\ exiting \in [Clients -> BOOLEAN]
  /\ timers \in [Ids -> Nat]
  /\ halt \in [Jobs -> Ids \cup {Null}]
  /\ map \in [Jobs -> Ids \cup {Null}]
  /\ pc \in {"select", "timers", "visit", "read", "dispatch", "jobs", "notice",
             "call", "leave", "accept"}
  /\ at \in Nat \ {0} /\ k \in Nat \ {0} /\ limit \in Int
  /\ pc \in {"read", "dispatch"} => at <= Len(table)
  /\ pc \in {"call", "leave"} => at <= Len(notices)
  /\ called \subseteq Entries
  /\ budget \in 0 .. Budget

(* A notice is held exactly by its timers and the jobs that will wake it:    *)
(* hold_notice_katcp and release_notice_katcp are in balance through every   *)
(* way to let go of a notice.                                                *)
(* Nobody refers to a notice that deallocate_notice_katcp has freed, neither *)
(* a timer nor a job nor a client, and a notice is listed once and comes     *)
(* into existence clean.                                                     *)
NoDangling ==
  /\ \A n \in Ids : use[n] = timers[n] + Cardinality({j \in Jobs : halt[j] = n})
                                       + Cardinality({j \in Jobs : map[j] = n})
  /\ IsInjective(notices)
  /\ \A n \in Ids : ~Exists(n) =>
       /\ timers[n] = 0 /\ use[n] = 0
       /\ \A j \in Jobs : halt[j] # n /\ map[j] # n
       /\ \A u \in Users : links[u][n] = 0
       /\ vector[n] = <<>> /\ queue[n] = <<>> /\ ~trigger[n] /\ parse[n] = None

(* The two directions of a subscription agree: a client refers to a notice   *)
(* as often as it is in its vector, so that disown_notices_katcp finds all   *)
(* of them; while a notice is run the entries still to be called may have    *)
(* lost their back link.  No subscription is for a client that is gone.      *)
LinksExact ==
  /\ TypeOK
  /\ \A n \in Ids, u \in Users :
       (pc = "call" /\ n = notices[at]) \/ links[u][n] = Cardinality(EntriesOf(vector[n], u))
  /\ \A n \in Ids : \A i \in 1 .. Len(vector[n]) :
       vector[n][i].client \in Range(table) \cup {Template}

(* Each subscriber is called exactly once for a message, although entries    *)
(* are removed, and replaced by the last one, under the loop: who has been   *)
(* called stands before k or is gone, who has not stands at k or behind.     *)
EachOnce ==
  pc = "call" =>
    LET v == vector[notices[at]]
    IN  /\ \A i \in 1 .. Len(v) : v[i] \in called <=> i < k
        /\ \A i, l \in 1 .. Len(v) : v[i] = v[l] => i = l

(* The loop does not go to sleep in pselect() with a triggered notice, nor   *)
(* with requests of a client that it could handle but that nothing will      *)
(* remind it of: resuming a client always leaves output to be written.       *)
SleepsOnlyIdle ==
  pc = "select" =>
    /\ \A n \in Ids : ~trigger[n]
    /\ \A c \in Range(table) : inbox[c] > 0 => pause[c] \/ out[c] \/ exiting[c]

Waits(c, n) == \E i \in 1 .. Len(vector[n]) : vector[n][i] = [client |-> c, call |-> "resume"]

(* A client that waits for a notice which is triggered, or held by somebody  *)
(* who has yet to wake it, is resumed in the end, unless it goes before.     *)
Resumed ==
  \A c \in Clients, n \in Ids :
    (Waits(c, n) /\ (trigger[n] \/ use[n] > 0)) ~> (~pause[c] \/ c \notin Range(table))

(* What a client has sent while it was paused is handled once it is resumed, *)
(* although its socket announces nothing new.                                *)
Dispatched ==
  \A c \in Clients : (inbox[c] > 0 /\ ~pause[c]) ~> (inbox[c] = 0 \/ pause[c])

(* katpriv.h, of d_pause: "waiting for a notice".  A paused client is        *)
(* subscribed to some notice.                                                *)
PausedWaits ==
  \A c \in Clients : pause[c] => \E n \in Ids : links[c][n] > 0

=============================================================================
