------------------------------ MODULE Endpoint ------------------------------
(***************************************************************************)
(* The message endpoints of katcp/endpoint.c and the part of the server's  *)
(* main loop (katcp/server.c) that runs them.                              *)
(*                                                                         *)
(* Parts of the server (network connections, sensors) own endpoints and    *)
(* send each other messages.  A message refers to the endpoint that sent   *)
(* it and to the one whose queue it is in, and keeps both from being freed *)
(* with a reference count.  A request is sent acknowledged: whatever       *)
(* happens to its recipient, it is turned around into a reply.             *)
(*                                                                         *)
(* There is one thread.  Variable at says where in the main loop it is;    *)
(* the owners and clients of endpoints act from the other functions the    *)
(* loop runs and from the wake callback of an endpoint (at = "call").      *)
(* Memory does not run out: a message or a queue slot can be allocated.    *)
(***************************************************************************)
EXTENDS Integers, Sequences, FiniteSets

CONSTANTS
    Endpoints,  \* addresses of endpoints
    Messages,   \* addresses of messages
    Wakes,      \* endpoints created with a wake function
    Fast,       \* endpoints created with fast set
    NULL,
    MaxHeld     \* bound on the references a client keeps to an endpoint

ASSUME EndpointAssumption ==
    /\ Wakes \subseteq Endpoints /\ Fast \subseteq Endpoints
    /\ NULL \notin Endpoints \cup Messages
    /\ IsFiniteSet(Messages)
    /\ MaxHeld \in Nat

VARIABLES
    s_endpoints,  \* the list of all endpoints, newest first
    e_state,      \* flags; none of them set: GONE
    e_refcount,
    e_queue,      \* the messages for an endpoint, see module Gueue
    e_precedence, \* "LOW" (also before it is created) or "HIGH", see Value
    message,      \* what is at the address of a message
    held,         \* references clients keep: subscriptions, response handlers
    s_busy,       \* there is more to do: the loop must not wait in pselect()
    at,           \* where the main loop is
    ep, msg       \* the locals of run_endpoints_katcp

vars == <<s_endpoints, e_state, e_refcount, e_queue, e_precedence, message, held, s_busy, at, ep, msg>>

Types == {"request", "reply", "inform"}

Message == [from : Endpoints, to : Endpoints, type : Types, wack : BOOLEAN]

ASSUME NullAssumption == NULL \notin Message

Allocated == {m \in Messages : message[m] # NULL}

Listed == {s_endpoints[i] : i \in 1 .. Len(s_endpoints)}

Up(e) == "UP" \in e_state[e]
Gone(e) == e \in Listed /\ e_state[e] = {}
Receiving(e) == "RX" \in e_state[e]

Init ==
    /\ s_endpoints = << >>
    /\ e_state = [e \in Endpoints |-> {}]
    /\ e_refcount = [e \in Endpoints |-> 0]
    /\ e_queue = [e \in Endpoints |-> << >>]
    /\ e_precedence = [e \in Endpoints |-> "LOW"]
    /\ message = [m \in Messages |-> NULL]
    /\ held = [e \in Endpoints |-> 0]
    /\ s_busy = FALSE
    /\ at = "load" /\ ep = NULL /\ msg = NULL

-----------------------------------------------------------------------------
(* Owners and clients of endpoints.  They run before pselect() (load: job,  *)
(* flat and notice code), after it (run: timers, run_flat_katcp) and in     *)
(* the wake callback.                                                       *)

Outside == at \in {"load", "run", "call"}

\* Endpoints a client has a valid pointer to: it finds the ones that are up
\* by name, it holds a reference or it is handling a message from there.
Known(e) ==
    \/ Up(e)
    \/ held[e] > 0
    \/ at = "call" /\ message[msg].from = e

CreateEndpoint(e) ==
    /\ Outside
    /\ e \notin Listed
    /\ s_endpoints' = <<e>> \o s_endpoints
    /\ e_state' = [e_state EXCEPT ![e] =
                      {"UP", "TX"} \cup (IF e \in Wakes THEN {"RX"} ELSE {})]
    /\ UNCHANGED <<e_refcount, e_queue, e_precedence, message, held, s_busy, at, ep, msg>>

\* Who sends what: in its callback an endpoint replies and sends on, else any
\* endpoint which is up sends; a sensor only sends informs.
Sender(e, type) ==
    /\ "TX" \in e_state[e]
    /\ at = "call" => e = ep
    /\ e \notin Wakes => type = "inform"

\* send_message_endpoint_katcp.  Its callers ask for an acknowledgement of
\* requests and only of requests.  Nothing changes if the recipient does not
\* receive: the new message is destroyed again.
Send(from, to, type) ==
    /\ Outside
    /\ Sender(from, type) /\ Known(to) /\ from # to /\ Receiving(to)
    /\ \E m \in Messages \ Allocated :
          /\ message' = [message EXCEPT ![m] =
                            [from |-> from, to |-> to, type |-> type, wack |-> type = "request"]]
          /\ e_queue' = [e_queue EXCEPT ![to] = Append(@, m)]
    /\ e_refcount' = [e_refcount EXCEPT ![from] = @ + 1, ![to] = @ + 1]
    /\ e_precedence' = IF type = "reply" THEN [e_precedence EXCEPT ![from] = "LOW"] ELSE e_precedence
    /\ s_busy' = TRUE
    /\ UNCHANGED <<s_endpoints, e_state, held, at, ep, msg>>

Reference(e) ==
    /\ Outside
    /\ Known(e)
    /\ held[e] < MaxHeld
    /\ held' = [held EXCEPT ![e] = @ + 1]
    /\ e_refcount' = [e_refcount EXCEPT ![e] = @ + 1]
    /\ UNCHANGED <<s_endpoints, e_precedence, e_state, e_queue, message, s_busy, at, ep, msg>>

Forget(e) ==
    /\ Outside
    /\ held[e] > 0
    /\ held' = [held EXCEPT ![e] = @ - 1]
    /\ e_refcount' = [e_refcount EXCEPT ![e] = @ - 1]
    /\ UNCHANGED <<s_endpoints, e_precedence, e_state, e_queue, message, s_busy, at, ep, msg>>

\* load_flat_katcp, for a connection that is finishing.
CloseReceiving(e) ==
    /\ at = "load"
    /\ Up(e) /\ e \in Wakes
    /\ e_state' = [e_state EXCEPT ![e] = @ \ {"RX"}]
    /\ UNCHANGED <<s_endpoints, e_precedence, e_refcount, e_queue, message, held, s_busy, at, ep, msg>>

-----------------------------------------------------------------------------
(* Getting rid of a message that has been taken off the queue of e.         *)

\* destroy_message_katcp: the references to both ends are dropped.
Destroyed(refs, m) ==
    [e \in Endpoints |-> refs[e] - (IF message[m].from = e THEN 1 ELSE 0)
                                 - (IF message[m].to = e THEN 1 ELSE 0)]

DestroyMessage(e, m, rest) ==
    /\ message' = [message EXCEPT ![m] = NULL]
    /\ e_refcount' = Destroyed(e_refcount, m)
    /\ e_queue' = [e_queue EXCEPT ![e] = rest]

\* vturnaround_endpoint_katcp: a message that wants an acknowledgement goes
\* back to its sender as a reply, with the references it already has.  If
\* the sender receives no longer it is destroyed, as are all others.
Turnaround(e, m, rest) ==
    LET sender == message[m].from
    IN  IF message[m].wack /\ Receiving(sender)
        THEN /\ message' = [message EXCEPT ![m] =
                               [from |-> e, to |-> sender, type |-> "reply", wack |-> FALSE]]
             /\ e_queue' = [e_queue EXCEPT ![e] = rest, ![sender] = Append(@, m)]
             /\ UNCHANGED e_refcount
        ELSE DestroyMessage(e, m, rest)

\* Mutant: requests are destroyed like everything else.
DisposeSilently(e, m, rest) == DestroyMessage(e, m, rest)

\* Requests are turned around, everything else is destroyed.
Dispose(e, m, rest) ==
    IF message[m].type = "request" THEN Turnaround(e, m, rest) ELSE DestroyMessage(e, m, rest)

\* release_endpoint_katcp.  Connections are released by load_flat_katcp, the
\* endpoints of sensors, which receive nothing, whenever the sensor goes.
Release(e) ==
    /\ at = "load" \/ (Outside /\ e \notin Wakes)
    /\ Up(e)
    /\ IF e_queue[e] = << >>
       THEN e_state' = [e_state EXCEPT ![e] = {}] /\ UNCHANGED <<at, ep>>
       ELSE at' = "flush" /\ ep' = e /\ UNCHANGED e_state
    /\ UNCHANGED <<s_endpoints, e_precedence, e_refcount, e_queue, message, held, s_busy, msg>>

\* flush_endpoint_katcp, one message at a time; nothing else runs meanwhile.
Flush ==
    /\ at = "flush"
    /\ e_queue[ep] # << >>
    /\ Dispose(ep, Head(e_queue[ep]), Tail(e_queue[ep]))
    /\ UNCHANGED <<s_endpoints, e_precedence, e_state, held, s_busy, at, ep, msg>>

Flushed ==
    /\ at = "flush"
    /\ e_queue[ep] = << >>
    /\ e_state' = [e_state EXCEPT ![ep] = {}]
    /\ at' = "load" /\ ep' = NULL
    /\ UNCHANGED <<s_endpoints, e_precedence, e_refcount, e_queue, message, held, s_busy, msg>>

-----------------------------------------------------------------------------
(* The main loop.                                                           *)

\* Mutant: the two precedences differ.
ValueRanked(precedence) == IF precedence = "LOW" THEN 0 ELSE 1

\* ENDPOINT_PRECEDENCE_LOW and ENDPOINT_PRECEDENCE_HIGH.
Value(precedence) == 0

\* compute_precedence_endpoint
Precedence(m) == IF message[m].type = "request" THEN "LOW" ELSE "HIGH"

\* get_precedence_head_gueue_katcl: the first entry of at least the current
\* precedence of the endpoint.
Candidates(e) ==
    {i \in 1 .. Len(e_queue[e]) : Value(Precedence(e_queue[e][i])) >= Value(e_precedence[e])}

HasWork(e) == Candidates(e) # {}

NextMessage(e) == e_queue[e][CHOOSE i \in Candidates(e) : \A j \in Candidates(e) : i <= j]

\* Mutant: load_endpoints_katcp is not called.
LoadForgotten ==
    /\ at = "load"
    /\ at' = "select"
    /\ UNCHANGED <<s_endpoints, e_precedence, e_state, e_refcount, e_queue, message, held, s_busy, ep, msg>>

LoadEndpoints ==
    /\ at = "load"
    /\ at' = "select"
    /\ s_busy' = (s_busy \/ \E e \in Listed : HasWork(e))
    /\ UNCHANGED <<s_endpoints, e_precedence, e_state, e_refcount, e_queue, message, held, ep, msg>>

\* pselect() returns at once if the loop is busy.  Otherwise it waits for
\* input, a timer or a signal, which may never come.
Select ==
    /\ at = "select" /\ s_busy
    /\ at' = "run" /\ s_busy' = FALSE
    /\ UNCHANGED <<s_endpoints, e_precedence, e_state, e_refcount, e_queue, message, held, ep, msg>>

SelectEvent ==
    /\ at = "select" /\ ~s_busy
    /\ at' = "run"
    /\ UNCHANGED <<s_endpoints, e_precedence, e_state, e_refcount, e_queue, message, held, s_busy, ep, msg>>

\* run_endpoints_katcp visits one endpoint after the other, each one until
\* it has no more messages if it is fast, else for one message.
RunEndpoints ==
    /\ at = "run"
    /\ IF s_endpoints = << >>
       THEN at' = "load" /\ UNCHANGED ep
       ELSE at' = "visit" /\ ep' = Head(s_endpoints)
    /\ UNCHANGED <<s_endpoints, e_precedence, e_state, e_refcount, e_queue, message, held, s_busy, msg>>

Wake ==
    /\ at = "visit"
    /\ Up(ep) /\ HasWork(ep)
    /\ at' = "call" /\ msg' = NextMessage(ep)
    /\ UNCHANGED <<s_endpoints, e_precedence, e_state, e_refcount, e_queue, message, held, s_busy, ep>>

Idle ==
    /\ at = "visit"
    /\ ~(Up(ep) /\ HasWork(ep))
    /\ at' = "leave"
    /\ UNCHANGED <<s_endpoints, e_precedence, e_state, e_refcount, e_queue, message, held, s_busy, ep, msg>>

\* remove_datum_gueue_katcl
Remaining(e, m) ==
    LET q == e_queue[e]
        k == CHOOSE k \in 1 .. Len(q) : q[k] = m /\ \A j \in 1 .. k - 1 : q[j] # m
    IN  [i \in 1 .. Len(q) - 1 |-> IF i < k THEN q[i] ELSE q[i + 1]]

\* After a message has been handled.
Proceed == at' = (IF ep \in Fast THEN "visit" ELSE "leave") /\ msg' = NULL

\* Mutant: the message is freed, but stays in the queue.
ReturnOwnKept ==
    /\ at = "call"
    /\ DestroyMessage(ep, msg, e_queue[ep])
    /\ e_precedence' = [e_precedence EXCEPT ![ep] = "HIGH"]
    /\ Proceed
    /\ UNCHANGED <<s_endpoints, e_state, held, s_busy, ep>>

\* The callback returns KATCP_RESULT_OWN: it has replied or will reply.
ReturnOwn ==
    /\ at = "call"
    /\ DestroyMessage(ep, msg, Remaining(ep, msg))
    /\ e_precedence' = [e_precedence EXCEPT ![ep] = "HIGH"]
    /\ Proceed
    /\ UNCHANGED <<s_endpoints, e_state, held, s_busy, ep>>

\* The callback returns KATCP_RESULT_OK, FAIL or INVALID: a request is
\* answered with that result.
ReturnResult ==
    /\ at = "call"
    /\ Dispose(ep, msg, Remaining(ep, msg))
    /\ Proceed
    /\ UNCHANGED <<s_endpoints, e_precedence, e_state, held, s_busy, ep>>

\* KATCP_RESULT_YIELD or PAUSE: the message stays where it is.
ReturnLater ==
    /\ at = "call"
    /\ \/ UNCHANGED e_precedence
       \/ e_precedence' = [e_precedence EXCEPT ![ep] = "HIGH"]
    /\ at' = "leave" /\ msg' = NULL
    /\ UNCHANGED <<s_endpoints, e_state, e_refcount, e_queue, message, held, s_busy, ep>>

PositionOf(e) == CHOOSE i \in 1 .. Len(s_endpoints) : s_endpoints[i] = e

Successor(e) ==
    IF PositionOf(e) = Len(s_endpoints) THEN NULL ELSE s_endpoints[PositionOf(e) + 1]

Unlinked(e) ==
    [i \in 1 .. Len(s_endpoints) - 1 |->
        IF i < PositionOf(e) THEN s_endpoints[i] ELSE s_endpoints[i + 1]]

\* Mutant: an endpoint that is gone is freed although it is referred to.
CollectibleAlways(e) == Gone(e)

Collectible(e) == Gone(e) /\ e_refcount[e] = 0

\* The end of a visit: an endpoint that is gone and which nobody refers to
\* is unlinked and freed.
Leave ==
    /\ at = "leave"
    /\ s_busy' = (s_busy \/ (Up(ep) /\ HasWork(ep)))
    /\ IF Collectible(ep)
       THEN s_endpoints' = Unlinked(ep) /\ e_precedence' = [e_precedence EXCEPT ![ep] = "LOW"]
       ELSE UNCHANGED <<s_endpoints, e_precedence>>
    /\ ep' = Successor(ep)
    /\ at' = IF Successor(ep) = NULL THEN "load" ELSE "visit"
    /\ UNCHANGED <<e_state, e_refcount, e_queue, message, held, msg>>

ClientNext ==
    \/ \E e \in Endpoints : CreateEndpoint(e) \/ Reference(e) \/ Forget(e)
    \/ \E e \in Endpoints : CloseReceiving(e) \/ Release(e)
    \/ \E from, to \in Endpoints, type \in Types : Send(from, to, type)

LoopNext ==
    \/ Flush \/ Flushed
    \/ LoadEndpoints \/ Select \/ SelectEvent
    \/ RunEndpoints \/ Wake \/ Idle \/ Leave
    \/ ReturnOwn \/ ReturnResult \/ ReturnLater

Next == ClientNext \/ LoopNext

Spec == Init /\ [][Next]_vars

\* The loop runs on while it does not wait in pselect(), and the callback of
\* an endpoint does not pause the same message forever.
FairLoop ==
    \/ Flush \/ Flushed \/ LoadEndpoints \/ Select
    \/ RunEndpoints \/ Wake \/ Idle \/ Leave
    \/ ReturnOwn \/ ReturnResult \/ ReturnLater

Handle(e) == ep = e /\ (ReturnOwn \/ ReturnResult)

FairSpec ==
    /\ Spec
    /\ WF_vars(FairLoop)
    /\ \A e \in Endpoints : SF_vars(Handle(e))

-----------------------------------------------------------------------------
(* Properties *)

TypeOK ==
    /\ s_endpoints \in Seq(Endpoints)
    /\ e_state \in [Endpoints -> SUBSET {"UP", "RX", "TX"}]
    /\ e_refcount \in [Endpoints -> Nat]
    /\ e_queue \in [Endpoints -> Seq(Messages)]
    /\ e_precedence \in [Endpoints -> {"LOW", "HIGH"}]
    /\ message \in [Messages -> Message \cup {NULL}]
    /\ held \in [Endpoints -> 0 .. MaxHeld]
    /\ s_busy \in BOOLEAN
    /\ at \in {"load", "select", "run", "visit", "call", "leave", "flush"}
    /\ IF at \in {"visit", "call", "leave", "flush"} THEN ep \in Endpoints ELSE ep = NULL
    /\ IF at = "call" THEN msg \in Messages ELSE msg = NULL

\* e_refcount counts the messages that name the endpoint and the references
\* of clients, through every turnaround, flush and collection: so the checks
\* in forget_endpoint_katcp and clear_endpoint_katcp never abort the server,
\* and nothing refers to an endpoint run_endpoints_katcp has freed, no
\* message, no client, and not the loop itself.
NoDangling ==
    /\ \A e \in Endpoints :
          e_refcount[e] = held[e] + Cardinality({m \in Allocated : message[m].from = e})
                                  + Cardinality({m \in Allocated : message[m].to = e})
    /\ \A m \in Allocated : message[m].from \in Listed /\ message[m].to \in Listed
    /\ \A e \in Endpoints : held[e] > 0 \/ Up(e) \/ ep = e => e \in Listed

\* Every message is in the queue of the endpoint it is for, once, and in no
\* other; and only endpoints that are up have any (turnaround and
\* run_endpoints_katcp abort on the first, clear_endpoint_katcp on the last).
QueuesExact ==
    /\ TypeOK
    /\ \A e \in Endpoints : \A i \in 1 .. Len(e_queue[e]) :
          /\ Up(e)
          /\ message[e_queue[e][i]] # NULL
          /\ message[e_queue[e][i]].to = e
          /\ \A j \in 1 .. Len(e_queue[e]) : e_queue[e][i] = e_queue[e][j] => i = j
    /\ \A m \in Allocated : \E i \in 1 .. Len(e_queue[message[m].to]) :
          e_queue[message[m].to][i] = m

\* KATCP_MESSAGE_WACK: a request that leaves a queue comes back to its sender
\* as a reply, as the newest message of its queue, whether it was handled or
\* its recipient was released.  Only a handler that takes the reply upon
\* itself, or a sender that does not receive, ends it otherwise.
RequestAnswered ==
    [][\A m \in Allocated :
          LET from == message[m].from
              to   == message[m].to
          IN  message[m].wack =>
                  \/ message'[m] = message[m]
                  \/ /\ message'[m] = [from |-> to, to |-> from, type |-> "reply", wack |-> FALSE]
                     /\ e_queue'[from] = Append(e_queue[from], m)
                  \/ ~Receiving(from)
                  \/ m = msg /\ ReturnOwn]_vars

\* The loop never waits in pselect() with a message in a queue: not even for
\* a reply turned around to an endpoint that has already had its turn, which
\* nothing but load_endpoints_katcp notices.
SleepsOnlyIdle ==
    at = "select" /\ ~s_busy => \A e \in Endpoints : e_queue[e] = << >>

\* Every message is dealt with: no endpoint starves, whatever the others do.
Delivered == \A m \in Messages : message[m] # NULL ~> message[m] = NULL

\* "requests are low priority, handle existing work before attempting new":
\* an endpoint that has put a request off is not given a request while there
\* is something else in its queue.
RequestsLast ==
    [][at = "visit" /\ at' = "call" /\ e_precedence[ep] = "HIGH"
          /\ message[msg'].type = "request"
       => \A i \in 1 .. Len(e_queue[ep]) : message[e_queue[ep][i]].type = "request"]_vars

=============================================================================
