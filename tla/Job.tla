-------------------------------- MODULE Job ---------------------------------
(***************************************************************************)
(* A job of katcp/job.c: a subprocess or a remote server the main loop      *)
(* (katcp/server.c) speaks katcp to, from its creation to its deletion.     *)
(*                                                                         *)
(* Other code submits requests, each with a notice to be woken.  They are   *)
(* queued and sent one at a time; the reply wakes the notice of the first   *)
(* in the queue.  The peer sends requests of its own, which are handled one *)
(* at a time too.  When the job ends every notice left is woken with a      *)
(* failure, and so is the halt notice given at creation.                    *)
(*                                                                         *)
(* There is one thread, pc says where in the main loop it is; the peer and  *)
(* the kernel are the other actors.  Messages are whole: a line is a        *)
(* sequence of messages, of which a read() or a write() moves at least one, *)
(* and the kernel has room for what is written.  Left out: informs (they    *)
(* only wake notices registered for them), the result code j_code that is   *)
(* given to the halt notice, and failures to allocate.                      *)
(***************************************************************************)
EXTENDS Integers, Sequences

CONSTANTS
    Requests,  \* requests that other code submits, each once
    NULL,
    Halts,     \* "held" if jobs may be given a halt notice, "none" if not
    Budget     \* bound on the requests, stray replies and returns of the peer

ASSUME JobAssumption ==
    /\ NULL \notin Requests
    /\ Requests \cap {"idle", "waiting", "disconnected", "stray"} = {}
    /\ Halts \subseteq {"none", "held"}
    /\ Budget \in Nat

VARIABLES
    j_state,   \* PRE, UP, POST, DRAIN, WAIT, DONE; DELETED when it is freed
    j_pid,     \* there is a subprocess that has not been waited for
    j_queue,   \* the requests whose notices wait
    j_sendr, j_recvr,
    j_halt,    \* the halt notice: none, held, or woken
    line_out,  \* j_line: appended, not yet written
    line_in,   \* j_line: read, not yet handled; the first may be parsed
    readset, writeset,
    pc,
    outcome,   \* what the notice of a request was woken with
    peer,      \* connecting, open, closed or failed
    child,     \* the subprocess: none, running, exited or reaped
    peer_in, peer_out,  \* what the kernel holds for the peer and from it
    budget,
    strayed    \* the peer has sent a reply nobody waits for

job == <<j_state, j_pid, j_queue, j_sendr, j_recvr, j_halt>>
line == <<line_out, line_in>>
sets == <<readset, writeset>>
remote == <<peer, child, peer_in, peer_out, budget, strayed>>
vars == <<job, line, sets, pc, outcome, remote>>

Request(r) == [type |-> "request", of |-> r]
Answer == [type |-> "answer", of |-> NULL]
Reply(r) == [type |-> "reply", of |-> r]
Asks == {"known", "unknown"}       \* requests of the peer: in j_map, or not
Ask(k) == [type |-> k, of |-> NULL]
Return == [type |-> "return", of |-> NULL]

Queued == {j_queue[i] : i \in 1 .. Len(j_queue)}

OutMessage == [type : {"request", "answer"}, of : Requests \cup {NULL}]
InMessage == [type : {"reply", "return"} \cup Asks, of : Requests \cup {NULL}]

\* create_job_katcp: a subprocess is up from the start, a network connection
\* is still being made.
Init ==
    /\ \/ j_state = "UP" /\ j_pid = TRUE /\ peer = "open" /\ child = "running"
       \/ j_state = "PRE" /\ j_pid = FALSE /\ peer = "connecting" /\ child = "none"
    /\ j_halt \in Halts
    /\ j_queue = << >> /\ j_sendr = 0 /\ j_recvr = 0
    /\ line_out = << >> /\ line_in = << >>
    /\ readset = FALSE /\ writeset = FALSE
    /\ pc = "load"
    /\ outcome = [r \in Requests |-> "idle"]
    /\ peer_in = << >> /\ peer_out = << >>
    /\ budget = Budget /\ strayed = FALSE

-----------------------------------------------------------------------------
(* The peer.                                                               *)

PeerConnect ==
    /\ peer = "connecting"
    /\ peer' \in {"open", "failed"}
    /\ UNCHANGED <<job, line, sets, pc, outcome, child, peer_in, peer_out, budget, strayed>>

\* The peer handles what it was sent in order, replying to requests.
PeerHandle ==
    /\ peer = "open" /\ peer_in # << >>
    /\ peer_in' = Tail(peer_in)
    /\ peer_out' = IF Head(peer_in).type = "request"
                   THEN Append(peer_out, Reply(Head(peer_in).of)) ELSE peer_out
    /\ UNCHANGED <<job, line, sets, pc, outcome, peer, child, budget, strayed>>

\* What the peer sends unasked.
Unasked == {Ask("known"), Ask("unknown"), Reply(NULL), Return}

PeerSend(m) ==
    /\ peer = "open" /\ budget > 0
    /\ budget' = budget - 1
    /\ peer_out' = Append(peer_out, m)
    /\ strayed' = (strayed \/ m.type = "reply")
    /\ UNCHANGED <<job, line, sets, pc, outcome, peer, child, peer_in>>

PeerClose ==
    /\ peer = "open"
    /\ peer' \in {"closed"} \cup (IF child = "none" THEN {"failed"} ELSE {})
    /\ UNCHANGED <<job, line, sets, pc, outcome, child, peer_in, peer_out, budget, strayed>>

ChildExit ==
    /\ child = "running"
    /\ child' = "exited" /\ peer' = "closed"
    /\ UNCHANGED <<job, line, sets, pc, outcome, peer_in, peer_out, budget, strayed>>

-----------------------------------------------------------------------------
(* Functions other code calls: commands of clients and timers before        *)
(* run_jobs_katcp (ready), callbacks of notices after it (load).            *)

Outside == j_state # "DELETED" /\ pc \in {"ready", "load"}

\* Mutant: does not count the request it sends.
IssueRequestUncounted(q, n) ==
    IF q # << >> /\ n = 0
    THEN /\ line_out' = Append(line_out, Request(Head(q)))
         /\ j_sendr' = 0
    ELSE j_sendr' = n /\ UNCHANGED line_out

\* issue_request_job_katcp, where the queue is q and n requests are sent and
\* not replied to.  The test of j_state in it has no effect but a log message.
IssueRequest(q, n) ==
    IF q # << >> /\ n = 0
    THEN /\ line_out' = Append(line_out, Request(Head(q)))
         /\ j_sendr' = 1
    ELSE j_sendr' = n /\ UNCHANGED line_out

\* submit_to_job_katcp and notice_to_job_katcp.
Submit(r) ==
    /\ Outside
    /\ outcome[r] = "idle"
    /\ outcome' = [outcome EXCEPT ![r] = "waiting"]
    /\ j_queue' = Append(j_queue, r)
    /\ IssueRequest(Append(j_queue, r), j_sendr)
    /\ UNCHANGED <<j_state, j_pid, j_recvr, j_halt, line_in, sets, pc, remote>>

\* zap_job_katcp, called by the command "?job stop".
Zap ==
    /\ Outside /\ pc = "ready"
    /\ j_state' = "DRAIN"
    /\ UNCHANGED <<j_pid, j_queue, j_sendr, j_recvr, j_halt, line, sets, pc, outcome, remote>>

-----------------------------------------------------------------------------
(* The main loop.                                                          *)

\* Mutant: no answer is sent.
AcknowledgeSilent ==
    /\ pc = "load" /\ j_recvr > 0
    /\ j_recvr' = j_recvr - 1
    /\ UNCHANGED <<j_state, j_pid, j_queue, j_sendr, j_halt, line, sets, pc, outcome, remote>>

\* run_notices_katcp, before the loop starts over: the handler of a request
\* of the peer answers it.
Acknowledge ==
    /\ pc = "load" /\ j_recvr > 0
    /\ line_out' = Append(line_out, Answer)
    /\ j_recvr' = j_recvr - 1
    /\ UNCHANGED <<j_state, j_pid, j_queue, j_sendr, j_halt, line_in, sets, pc, outcome, remote>>

Flushing == line_out # << >>

\* Mutant: does not wait for a chance to write what is left when draining.
LoadJobsNoDrain ==
    /\ j_state # "DELETED" /\ pc = "load" /\ j_recvr = 0
    /\ pc' = "select"
    /\ readset' = (j_state = "UP")
    /\ writeset' = \/ j_state = "PRE"
                   \/ j_state \in {"UP", "POST"} /\ Flushing
    /\ UNCHANGED <<job, line, outcome, remote>>

LoadJobs ==
    /\ j_state # "DELETED" /\ pc = "load" /\ j_recvr = 0
    /\ pc' = "select"
    /\ readset' = (j_state = "UP")
    /\ writeset' = \/ j_state = "PRE"
                   \/ j_state \in {"UP", "POST", "DRAIN"} /\ Flushing
    /\ UNCHANGED <<job, line, outcome, remote>>

Readable == peer_out # << >> \/ peer \in {"closed", "failed"}
Writable == peer # "connecting"

\* pselect() returns because of the job.
Select ==
    /\ pc = "select"
    /\ readset' = (readset /\ Readable)
    /\ writeset' = (writeset /\ Writable)
    /\ readset' \/ writeset'
    /\ pc' = "ready"
    /\ UNCHANGED <<job, line, outcome, remote>>

\* pselect() returns because of something else, or is skipped.
SelectOther ==
    /\ pc = "select"
    /\ readset' = FALSE /\ writeset' = FALSE
    /\ pc' = "ready"
    /\ UNCHANGED <<job, line, outcome, remote>>

\* pselect() is interrupted by a SIGCHLD: wait_jobs_katcp.
WaitJobs ==
    /\ pc = "select" /\ child = "exited"
    /\ readset' = FALSE /\ writeset' = FALSE
    /\ child' = "reaped"
    /\ j_state' = "DONE" /\ j_pid' = FALSE
    /\ pc' = "ready"
    /\ UNCHANGED <<j_queue, j_sendr, j_recvr, j_halt, line, outcome, peer, peer_in, peer_out, budget, strayed>>

\* The server shuts down: ended_jobs_katcp, and a pselect() with a timeout.
EndedJobs ==
    /\ pc = "select"
    /\ j_state' = "DONE"
    /\ readset' = FALSE
    /\ writeset' \in {FALSE, writeset /\ Writable}
    /\ pc' = "ready"
    /\ UNCHANGED <<j_pid, j_queue, j_sendr, j_recvr, j_halt, line, outcome, remote>>

-----------------------------------------------------------------------------
(* run_jobs_katcp, in the order of its stages.                             *)

Connect ==
    /\ pc = "ready" /\ j_state # "DELETED"
    /\ pc' = "read"
    /\ j_state' = IF j_state = "PRE" /\ writeset
                  THEN IF peer = "failed" THEN "DONE" ELSE "UP"
                  ELSE j_state
    /\ UNCHANGED <<j_pid, j_queue, j_sendr, j_recvr, j_halt, line, sets, outcome, remote>>

ReadSkip ==
    /\ pc = "read" /\ ~(j_state = "UP" /\ readset)
    /\ pc' = "field"
    /\ UNCHANGED <<job, line, sets, outcome, remote>>

ReadData ==
    /\ pc = "read" /\ j_state = "UP" /\ readset
    /\ \E n \in 1 .. Len(peer_out) :
          /\ line_in' = line_in \o SubSeq(peer_out, 1, n)
          /\ peer_out' = SubSeq(peer_out, n + 1, Len(peer_out))
    /\ pc' = "field"
    /\ UNCHANGED <<job, line_out, sets, outcome, peer, child, peer_in, budget, strayed>>

\* End of file, or a connection reset, which drops what was not yet read.
ReadEnd ==
    /\ pc = "read" /\ j_state = "UP" /\ readset
    /\ peer = "closed"
    /\ peer_out = << >> \/ child = "none"
    /\ peer_out' = << >>
    /\ j_state' = IF j_pid THEN "WAIT" ELSE "POST"
    /\ pc' = "field"
    /\ UNCHANGED <<j_pid, j_queue, j_sendr, j_recvr, j_halt, line, sets, outcome, peer, child, peer_in, budget, strayed>>

ReadError ==
    /\ pc = "read" /\ j_state = "UP" /\ readset
    /\ peer = "failed"
    /\ j_state' = "DONE"
    /\ pc' = "field"
    /\ UNCHANGED <<j_pid, j_queue, j_sendr, j_recvr, j_halt, line, sets, outcome, remote>>

\* field_job_katcp handles the messages there are, in order.
Fielding == pc = "field" /\ j_state \in {"UP", "WAIT", "POST"} /\ line_in # << >>
Type == Head(line_in).type

\* Mutant: wakes the notice that was added last.
FieldReplyLast ==
    /\ Fielding /\ Type = "reply"
    /\ j_sendr > 0 /\ j_queue # << >>
    /\ outcome' = [outcome EXCEPT ![j_queue[Len(j_queue)]] =
                      IF Head(line_in).of = NULL THEN "stray" ELSE Head(line_in).of]
    /\ j_queue' = SubSeq(j_queue, 1, Len(j_queue) - 1)
    /\ IssueRequest(j_queue', j_sendr - 1)
    /\ line_in' = Tail(line_in)
    /\ UNCHANGED <<j_state, j_pid, j_recvr, j_halt, sets, pc, remote>>

\* Mutant: leaves the notice it wakes in the queue.
FieldReplyKept ==
    /\ Fielding /\ Type = "reply"
    /\ j_sendr > 0 /\ j_queue # << >>
    /\ outcome' = [outcome EXCEPT ![Head(j_queue)] =
                      IF Head(line_in).of = NULL THEN "stray" ELSE Head(line_in).of]
    /\ IssueRequest(j_queue, j_sendr - 1)
    /\ line_in' = Tail(line_in)
    /\ UNCHANGED <<j_state, j_pid, j_queue, j_recvr, j_halt, sets, pc, remote>>

\* A reply wakes the first notice in the queue, whatever it is a reply to.
FieldReply ==
    /\ Fielding /\ Type = "reply"
    /\ j_sendr > 0 /\ j_queue # << >>
    /\ outcome' = [outcome EXCEPT ![Head(j_queue)] =
                      IF Head(line_in).of = NULL THEN "stray" ELSE Head(line_in).of]
    /\ j_queue' = Tail(j_queue)
    /\ IssueRequest(Tail(j_queue), j_sendr - 1)
    /\ line_in' = Tail(line_in)
    /\ UNCHANGED <<j_state, j_pid, j_recvr, j_halt, sets, pc, remote>>

FieldSpurious ==
    /\ Fielding /\ Type = "reply"
    /\ j_sendr = 0 \/ j_queue = << >>
    /\ j_state' = "DONE"
    /\ line_in' = Tail(line_in)
    /\ pc' = "write"
    /\ UNCHANGED <<j_pid, j_queue, j_sendr, j_recvr, j_halt, line_out, sets, outcome, remote>>

\* A request for which no handler is registered is failed on the spot.
FieldRequest ==
    /\ Fielding /\ Type \in Asks
    /\ j_recvr = 0
    /\ IF Type = "known"
       THEN j_recvr' = 1 /\ UNCHANGED line_out
       ELSE line_out' = Append(line_out, Answer) /\ UNCHANGED j_recvr
    /\ line_in' = Tail(line_in)
    /\ UNCHANGED <<j_state, j_pid, j_queue, j_sendr, j_halt, sets, pc, outcome, remote>>

FieldReturn ==
    /\ Fielding /\ Type = "return"
    /\ j_halt' = IF j_halt = "held" THEN "woken" ELSE j_halt
    /\ j_state' = "DONE"
    /\ pc' = "write"
    /\ UNCHANGED <<j_pid, j_queue, j_sendr, j_recvr, line, sets, outcome, remote>>

\* Nothing more to handle; or a request has to wait until the one before is
\* answered, and with it all that was received after it.
FieldEnd ==
    /\ pc = "field"
    /\ Fielding => Type \in Asks /\ j_recvr > 0
    /\ j_state' = IF j_state = "POST" THEN "DRAIN" ELSE j_state
    /\ pc' = "write"
    /\ UNCHANGED <<j_pid, j_queue, j_sendr, j_recvr, j_halt, line, sets, outcome, remote>>

MayWrite == j_state \in {"UP", "POST", "DRAIN"}

\* What is left unwritten decides whether draining is over.
Drained(rest) == IF j_state = "DRAIN" /\ rest = << >> THEN "DONE" ELSE j_state

WriteSkip ==
    /\ pc = "write" /\ ~(MayWrite /\ writeset)
    /\ j_state' = Drained(line_out)
    /\ pc' = "finish"
    /\ UNCHANGED <<j_pid, j_queue, j_sendr, j_recvr, j_halt, line, sets, outcome, remote>>

\* A write to a network connection the other side has closed may seem to work.
WriteData ==
    /\ pc = "write" /\ MayWrite /\ writeset
    /\ peer = "open" \/ (peer = "closed" /\ child = "none") \/ ~Flushing
    /\ \E n \in (IF Flushing THEN 1 ELSE 0) .. Len(line_out) :
          /\ line_out' = SubSeq(line_out, n + 1, Len(line_out))
          /\ peer_in' = IF peer = "open" THEN peer_in \o SubSeq(line_out, 1, n) ELSE peer_in
    /\ j_state' = Drained(line_out')
    /\ pc' = "finish"
    /\ UNCHANGED <<j_pid, j_queue, j_sendr, j_recvr, j_halt, line_in, sets, outcome, peer, child, peer_out, budget, strayed>>

WriteError ==
    /\ pc = "write" /\ MayWrite /\ writeset
    /\ peer \in {"closed", "failed"} /\ Flushing
    /\ j_state' = "DONE"
    /\ pc' = "finish"
    /\ UNCHANGED <<j_pid, j_queue, j_sendr, j_recvr, j_halt, line, sets, outcome, remote>>

\* Mutant: only the request that was sent is failed.
FinishHead ==
    /\ pc = "finish"
    /\ pc' = "load"
    /\ IF j_state = "DONE"
       THEN /\ outcome' = [r \in Requests |-> IF j_queue # << >> /\ r = Head(j_queue) THEN "disconnected" ELSE outcome[r]]
            /\ j_halt' = IF j_halt = "held" THEN "woken" ELSE j_halt
            /\ j_queue' = << >> /\ j_sendr' = 0 /\ j_recvr' = 0
            /\ line_in' = << >> /\ line_out' = << >>
            /\ j_state' = "DELETED"
            /\ UNCHANGED j_pid
       ELSE UNCHANGED <<job, line, outcome>>
    /\ UNCHANGED <<sets, remote>>

\* A job which is done fails the requests it has left, wakes the halt notice
\* and is deleted.
Finish ==
    /\ pc = "finish"
    /\ pc' = "load"
    /\ IF j_state = "DONE"
       THEN /\ outcome' = [r \in Requests |-> IF r \in Queued THEN "disconnected" ELSE outcome[r]]
            /\ j_halt' = IF j_halt = "held" THEN "woken" ELSE j_halt
            /\ j_queue' = << >> /\ j_sendr' = 0 /\ j_recvr' = 0
            /\ line_in' = << >> /\ line_out' = << >>
            /\ j_state' = "DELETED"
            /\ UNCHANGED j_pid
       ELSE UNCHANGED <<job, line, outcome>>
    /\ UNCHANGED <<sets, remote>>

-----------------------------------------------------------------------------

RunNext ==
    \/ Connect
    \/ ReadSkip \/ ReadData \/ ReadEnd \/ ReadError
    \/ FieldReply \/ FieldSpurious \/ FieldRequest \/ FieldReturn \/ FieldEnd
    \/ WriteSkip \/ WriteData \/ WriteError
    \/ Finish

PeerNext ==
    \/ PeerConnect \/ PeerHandle \/ PeerClose \/ ChildExit
    \/ \E m \in Unasked : PeerSend(m)

Next ==
    \/ PeerNext
    \/ \E r \in Requests : Submit(r)
    \/ Zap \/ Acknowledge \/ LoadJobs
    \/ Select \/ SelectOther \/ WaitJobs \/ EndedJobs
    \/ RunNext

Spec == Init /\ [][Next]_vars

\* The loop keeps going.  pselect() returns when it has a reason to, nothing
\* else needs to wake it.  When there is other work all the time, pselect() is
\* skipped or interrupted time and again, but not forever (only the first
\* iteration of a busy run skips it).  The peer completes or refuses
\* connections, handles what it is sent, and a subprocess that closed its side
\* exits.
FairSpec ==
    /\ Spec
    /\ WF_vars(Acknowledge \/ LoadJobs \/ RunNext)
    /\ SF_vars(Select) /\ SF_vars(WaitJobs)
    /\ WF_vars(PeerConnect)
    /\ WF_vars(PeerHandle)
    /\ WF_vars(ChildExit /\ peer = "closed")

-----------------------------------------------------------------------------
(* Properties.                                                             *)

\* The states and counters a job can have.
TypeOK ==
    /\ j_state \in {"PRE", "UP", "POST", "DRAIN", "WAIT", "DONE", "DELETED"}
    /\ j_pid \in BOOLEAN
    /\ j_queue \in Seq(Requests)
    /\ j_sendr \in 0 .. 1 /\ j_recvr \in 0 .. 1
    /\ j_halt \in {"none", "held", "woken"}
    /\ line_out \in Seq(OutMessage) /\ line_in \in Seq(InMessage)
    /\ readset \in BOOLEAN /\ writeset \in BOOLEAN
    /\ pc \in {"load", "select", "ready", "read", "field", "write", "finish"}
    /\ outcome \in [Requests -> {"idle", "waiting", "disconnected", "stray"} \cup Requests]
    /\ peer \in {"connecting", "open", "closed", "failed"}
    /\ child \in {"none", "running", "exited", "reaped"}
    /\ peer_in \in Seq(OutMessage) /\ peer_out \in Seq(InMessage)
    /\ budget \in 0 .. Budget
    /\ strayed \in BOOLEAN

\* A request of ours or the reply to one.
Ours(m) == m.type \in {"request", "reply"}

\* None of the messages in s, or exactly one, is the request r or a reply to it.
Without(s) == \A i \in 1 .. Len(s) : ~Ours(s[i])
WithOne(s, r) ==
    \E k \in 1 .. Len(s) :
        /\ Ours(s[k]) /\ s[k].of = r
        /\ \A i \in 1 .. Len(s) : i # k => ~Ours(s[i])

\* At most one request is on its way, to the peer or as a reply back from it.
\* It is the first of the queue and j_sendr accounts for it, unless the peer
\* sent a reply nobody asked for.  (issue_request_job_katcp sends when j_sendr
\* is zero, field_job_katcp takes the head of the queue for the request that
\* a reply is to.)
OneOutstanding ==
    ~strayed =>
        \/ Without(line_out) /\ Without(peer_in) /\ Without(peer_out) /\ Without(line_in)
        \/ j_state = "DELETED" /\ Without(line_out) /\ Without(line_in)
        \/ /\ j_sendr = 1 /\ j_queue # << >>
           /\ \/ WithOne(line_out, Head(j_queue)) /\ Without(peer_in) /\ Without(peer_out) /\ Without(line_in)
              \/ Without(line_out) /\ WithOne(peer_in, Head(j_queue)) /\ Without(peer_out) /\ Without(line_in)
              \/ Without(line_out) /\ Without(peer_in) /\ WithOne(peer_out, Head(j_queue)) /\ Without(line_in)
              \/ Without(line_out) /\ Without(peer_in) /\ Without(peer_out) /\ WithOne(line_in, Head(j_queue))

\* A requester gets the reply to its own request, although replies are not
\* compared with requests, unless the peer sent a reply nobody asked for.
OwnReply ==
    \A r \in Requests :
        /\ outcome[r] \in Requests /\ ~strayed => outcome[r] = r
        /\ outcome[r] = "stray" => strayed

\* A requester waits exactly as long as its notice is in the queue; nobody,
\* not the holder of the halt notice either, waits for a job that is deleted.
\* (The loop that fails pending notices when the job is done.)
NobodyForgotten ==
    /\ \A r \in Requests : outcome[r] = "waiting" <=> r \in Queued
    /\ \A i, k \in 1 .. Len(j_queue) : j_queue[i] = j_queue[k] => i = k
    /\ j_state = "DELETED" => j_queue = << >> /\ j_halt # "held"

\* The loop does not wait in pselect() for something other than the job to
\* happen while the job could go on: messages left unhandled behind a request
\* that has been answered since, a queued request that could be sent because no
\* other is outstanding, output of a job that drains, or a job done.
\* Only a subprocess that closed its side is left alone until it exits.
SleepsOnlyIdle ==
    pc = "select" =>
        /\ j_state \in {"PRE", "UP", "DRAIN", "WAIT"}
        /\ j_state = "UP" => readset /\ (line_in # << >> => writeset)
        /\ j_state \in {"PRE", "UP"} /\ j_queue # << >> => j_sendr = 1
        /\ j_state \in {"PRE", "DRAIN"} => writeset
        /\ j_state = "WAIT" => j_pid /\ child \in {"running", "exited"}

\* A notice is woken once: what it was told never changes.
WokenOnce ==
    [][/\ \A r \in Requests : outcome[r] \notin {"idle", "waiting"} => outcome'[r] = outcome[r]
       /\ j_halt = "woken" => j_halt' = "woken"]_vars

\* Every requester is told something in the end.
Told == \A r \in Requests : outcome[r] = "waiting" ~> outcome[r] # "waiting"

\* What was received is handled, also behind a request that had to wait.
Handled == line_in # << >> ~> line_in = << >>

\* "not sending request, job is terminating" (issue_request_job_katcp): in
\* states POST, DRAIN and DONE no request is sent.
NoSendTerminating ==
    [][(j_state \in {"POST", "DRAIN", "DONE"})
          => ~ \E r \in Requests : line_out' = Append(line_out, Request(r))]_vars

=============================================================================
