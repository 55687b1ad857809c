------------------------------- MODULE Duplex -------------------------------
(***************************************************************************)
(* Duplex connections ("flats") and the requests they relay: dpx-core.c    *)
(* and dpx-forward.c.                                                      *)
(*                                                                         *)
(* A flat has two endpoints, peer, which handles messages, and remote,     *)
(* which writes them to its line.  What its network sends goes from remote *)
(* to peer.  The peer of a client passes a request on, as a "relay"        *)
(* request, to the peer of the flat of an upstream server, which sends it  *)
(* to its remote; the reply comes back the same way.  At each hop the flat *)
(* keeps in a slot of f_replies whom to answer.                            *)
(*                                                                         *)
(* There is one thread; an action is one turn of an endpoint or one event  *)
(* of one flat.  Module Endpoint justifies what is assumed of endpoints:   *)
(* each handles its messages in order, a request whose handler fails or    *)
(* whose recipient is released comes back as a reply, and nothing can be   *)
(* sent to an endpoint that has been closed.  Module Line justifies that   *)
(* messages cross a connection whole.  Memory does not run out.            *)
(***************************************************************************)
EXTENDS Integers, Sequences, FiniteSets

CONSTANTS
    Clients,     \* flats of clients
    Upstream,    \* the flat of the server requests are relayed to
    Names,       \* names of requests
    Setups,      \* the configurations to start in
    MaxSent,     \* bound on the requests all clients make
    MaxEnded,    \* bound on the flats that end
    NULL

ASSUME DuplexAssumption ==
    /\ IsFiniteSet(Clients) /\ Upstream \notin Clients
    /\ "relay" \notin Names
    /\ Setups \subseteq [size : Nat \ {0}, flush : Nat, named : [Clients -> Names]]
    /\ MaxSent \in Nat /\ MaxEnded \in Nat

Flats == Clients \cup {Upstream}

VARIABLES
    size,        \* KATCP_SIZE_REPLY
    flush,       \* g_flushdefer
    named,       \* the request each client makes
    f_state,
    f_deferring, \* "own": we have asked the network, "outside": it has asked us
    f_defer,     \* requests received while another is handled
    f_replies,   \* response handlers, see Callback
    f_line,      \* messages to be written
    closed,      \* peer receives no more
    queue,       \* of each endpoint
    sent,        \* number of requests a client has sent
    got,         \* messages a client has received
    asked        \* requests the upstream server has yet to answer

vars == <<size, flush, named, f_state, f_deferring, f_defer, f_replies, f_line, closed, queue, sent, got, asked>>

\* The bounds count over all clients and flats.
MayEnd == Cardinality({f \in Flats : f_state[f] \notin {"connecting", "up"}}) < MaxEnded

Peer(f) == <<f, "peer">>
Remote(f) == <<f, "remote">>
Endpoints == Flats \X {"peer", "remote"}

\* The n-th request of client c; a message says which request it makes or
\* which one it answers.
Requests == Clients \X (1 .. MaxSent)
MaySend == Cardinality({r \in Requests : r[2] <= sent[r[1]]}) < MaxSent
Message == [type : {"request", "reply", "inform"}, name : Names \cup {"relay"}, of : Requests]
Queued == [type : {"request", "reply", "inform"}, name : Names \cup {"relay"}, of : Requests, from : Endpoints]
Handler == [issuer : Endpoints, recipient : Endpoints, message : Names \cup {"relay"}, initial : Message]

ASSUME NullAssumption == NULL \notin Handler

States == {"connecting", "up", "finishing", "ending", "crashing", "gone"}

Operational == {"up", "finishing", "ending"}

\* create_flat_katcp: a client has connected, the upstream server is still to
\* accept our connection.
Init ==
    /\ \E s \in Setups : size = s.size /\ flush = s.flush /\ named = s.named
    /\ f_state = [f \in Flats |-> IF f = Upstream THEN "connecting" ELSE "up"]
    /\ f_deferring = [f \in Flats |-> {}]
    /\ f_defer = [f \in Flats |-> << >>]
    /\ f_replies = [f \in Flats |-> [i \in 1 .. size |-> NULL]]
    /\ f_line = [f \in Flats |-> << >>]
    /\ closed = [f \in Flats |-> FALSE]
    /\ queue = [e \in Endpoints |-> << >>]
    /\ sent = [c \in Clients |-> 0]
    /\ got = [c \in Clients |-> << >>]
    /\ asked = << >>

-----------------------------------------------------------------------------
(* Endpoints, as module Endpoint has them.                                  *)

Receiving(e) == f_state[e[1]] # "gone" /\ (e[2] = "peer" => ~closed[e[1]])

\* send_message_endpoint_katcp, from whose queue q is what is left to handle.
Sent(q, from, to, m) ==
    IF Receiving(to)
    THEN [q EXCEPT ![to] = Append(@, [type |-> m.type, name |-> m.name, of |-> m.of, from |-> from])]
    ELSE q

\* Mutant: a request that fails is forgotten.
TurnedNot(q, e, m) == q

\* A request that fails goes back to where it came from.
Turned(q, e, m) ==
    IF m.type = "request"
    THEN Sent(q, e, m.from, [type |-> "reply", name |-> m.name, of |-> m.of])
    ELSE q

-----------------------------------------------------------------------------
(* wake_endpoint_peer_flat_katcp                                            *)

Free(f) == {i \in 1 .. size : f_replies[f][i] = NULL}

\* callback_flat_katcp with a slot to spare: the last one is taken.
Callback(f, issuer, m, recipient, name) ==
    LET slot == CHOOSE i \in Free(f) : \A j \in Free(f) : j <= i
    IN  f_replies' = [f_replies EXCEPT ![f][slot] =
            [issuer |-> issuer, recipient |-> recipient, message |-> name,
             initial |-> [type |-> m.type, name |-> m.name, of |-> m.of]]]

\* Mutant: whatever the name of the message.
HandlersUnnamed(f, m) ==
    {i \in 1 .. size : f_replies[f][i] # NULL /\ f_replies[f][i].recipient = m.from}

\* find_handler_peer_flat_katcp
Handlers(f, m) ==
    {i \in 1 .. size : /\ f_replies[f][i] # NULL
                       /\ f_replies[f][i].recipient = m.from
                       /\ f_replies[f][i].message = m.name}

Fails(f, m, q) ==
    /\ queue' = Turned(q, Peer(f), m)
    /\ UNCHANGED f_replies

\* The request is sent on and its reply awaited.  That there is no slot for
\* the handler is found out once the request has gone.
Forward(f, m, q, target, name) ==
    LET on == Sent(q, Peer(f), target, [type |-> "request", name |-> name, of |-> m.of])
    IN  IF ~Receiving(target) THEN Fails(f, m, q)
        ELSE IF Free(f) = {} THEN Fails(f, m, on)
        ELSE queue' = on /\ Callback(f, m.from, m, target, name)

\* perform_forward_symbolic_group_cmd_katcp for a request of a client,
\* relay_generic_group_cmd_katcp for the request to relay it.
HandleRequest(f, m, q) ==
    IF f = Upstream
    THEN Forward(f, m, q, Remote(f), named[m.of[1]])
    ELSE IF f_state[Upstream] = "gone"
    THEN Fails(f, m, q)
    ELSE Forward(f, m, q, Peer(Upstream), "relay")

\* Mutant: an inform uses up the handler.
HandleResponseOnce(f, m, q) ==
    IF Handlers(f, m) = {}
    THEN queue' = q /\ UNCHANGED f_replies
    ELSE LET slot == CHOOSE i \in Handlers(f, m) : \A j \in Handlers(f, m) : i <= j
             rh == f_replies[f][slot]
         IN  /\ queue' = Sent(q, Peer(f), rh.issuer, [type |-> m.type, name |-> rh.initial.name, of |-> m.of])
             /\ f_replies' = [f_replies EXCEPT ![f][slot] = NULL]

\* complete_relay_generic_group_cmd_katcp and process_outstanding_flat_katcp:
\* what was received goes to the issuer under the name of its own request.
HandleResponse(f, m, q) ==
    IF Handlers(f, m) = {}
    THEN queue' = q /\ UNCHANGED f_replies
    ELSE LET slot == CHOOSE i \in Handlers(f, m) : \A j \in Handlers(f, m) : i <= j
             rh == f_replies[f][slot]
         IN  /\ queue' = Sent(q, Peer(f), rh.issuer, [type |-> m.type, name |-> rh.initial.name, of |-> m.of])
             /\ f_replies' = IF m.type = "reply" THEN [f_replies EXCEPT ![f][slot] = NULL] ELSE f_replies

RunPeer(f) ==
    /\ queue[Peer(f)] # << >>
    /\ LET m == Head(queue[Peer(f)])
           q == [queue EXCEPT ![Peer(f)] = Tail(@)]
       IN  IF f_state[f] \notin Operational THEN Fails(f, m, q)
           ELSE IF m.type = "request" THEN HandleRequest(f, m, q)
           ELSE HandleResponse(f, m, q)
    /\ UNCHANGED <<size, flush, named, f_state, f_deferring, f_defer, f_line, closed, sent, got, asked>>

-----------------------------------------------------------------------------
(* wake_endpoint_remote_flat_katcp                                          *)

\* Mutant: what is cancelled is not answered.
NextDeferredSilent(f, q, line) ==
    IF Len(f_defer[f]) > flush
    THEN /\ f_line' = [f_line EXCEPT ![f] = line]
         /\ f_defer' = [f_defer EXCEPT ![f] = << >>]
         /\ f_deferring' = [f_deferring EXCEPT ![f] = @ \ {"outside"}]
         /\ queue' = q
         /\ UNCHANGED f_state
    ELSE /\ f_line' = [f_line EXCEPT ![f] = line]
         /\ f_defer' = [f_defer EXCEPT ![f] = Tail(@)]
         /\ queue' = Sent(q, Remote(f), Peer(f), Head(f_defer[f]))
         /\ f_state' = IF Receiving(Peer(f)) THEN f_state ELSE [f_state EXCEPT ![f] = "crashing"]
         /\ UNCHANGED f_deferring

\* A reply frees the way for a request that has been deferred.  If too many
\* are waiting all of them are cancelled; q and line are as the reply left
\* them.
NextDeferred(f, q, line) ==
    IF Len(f_defer[f]) > flush
    THEN /\ f_line' = [f_line EXCEPT ![f] = line \o
                          [i \in 1 .. Len(f_defer[f]) |-> [f_defer[f][i] EXCEPT !.type = "reply"]]]
         /\ f_defer' = [f_defer EXCEPT ![f] = << >>]
         /\ f_deferring' = [f_deferring EXCEPT ![f] = @ \ {"outside"}]
         /\ queue' = q
         /\ UNCHANGED f_state
    ELSE /\ f_line' = [f_line EXCEPT ![f] = line]
         /\ f_defer' = [f_defer EXCEPT ![f] = Tail(@)]
         /\ queue' = Sent(q, Remote(f), Peer(f), Head(f_defer[f]))
         /\ f_state' = IF Receiving(Peer(f)) THEN f_state ELSE [f_state EXCEPT ![f] = "crashing"]
         /\ UNCHANGED f_deferring

ReplyWritten(f, q, line) ==
    IF f_defer[f] # << >>
    THEN NextDeferred(f, q, line)
    ELSE /\ f_line' = [f_line EXCEPT ![f] = line]
         /\ f_deferring' = [f_deferring EXCEPT ![f] = @ \ {"outside"}]
         /\ queue' = q
         /\ UNCHANGED <<f_defer, f_state>>

RunRemote(f) ==
    /\ queue[Remote(f)] # << >>
    /\ LET m == Head(queue[Remote(f)])
           q == [queue EXCEPT ![Remote(f)] = Tail(@)]
           line == Append(f_line[f], [type |-> m.type, name |-> m.name, of |-> m.of])
       IN  IF f_state[f] = "crashing"
           THEN queue' = q /\ UNCHANGED <<f_line, f_deferring, f_defer, f_state>>
           ELSE IF m.type = "reply"
           THEN ReplyWritten(f, q, line)
           ELSE /\ queue' = q
                /\ f_line' = [f_line EXCEPT ![f] = line]
                /\ f_deferring' = IF m.type = "request" THEN [f_deferring EXCEPT ![f] = @ \cup {"own"}] ELSE f_deferring
                /\ UNCHANGED <<f_defer, f_state>>
    /\ UNCHANGED <<size, flush, named, f_replies, closed, sent, got, asked>>

-----------------------------------------------------------------------------
(* run_flat_katcp and the other side of the connections.                    *)

\* A client sends a request: it is handled now, or deferred until the ones
\* before it have been answered.
ReadRequest(c) ==
    /\ f_state[c] = "up"
    /\ MaySend
    /\ sent' = [sent EXCEPT ![c] = @ + 1]
    /\ LET m == [type |-> "request", name |-> named[c], of |-> <<c, sent[c] + 1>>]
       IN  IF "outside" \in f_deferring[c]
           THEN f_defer' = [f_defer EXCEPT ![c] = Append(@, m)] /\ UNCHANGED queue
           ELSE queue' = Sent(queue, Remote(c), Peer(c), m) /\ UNCHANGED f_defer
    /\ f_deferring' = [f_deferring EXCEPT ![c] = @ \cup {"outside"}]
    /\ UNCHANGED <<size, flush, named, f_state, f_replies, f_line, closed, got, asked>>

\* The upstream server answers its requests one after the other; it may send
\* an inform first.
ReadResponse(type) ==
    /\ f_state[Upstream] = "up"
    /\ asked # << >>
    /\ LET m == Head(asked)
       IN  /\ type = "inform" => ~m.informed
           /\ queue' = Sent(queue, Remote(Upstream), Peer(Upstream), [type |-> type, name |-> m.name, of |-> m.of])
    /\ IF type = "reply"
       THEN /\ asked' = Tail(asked)
            /\ f_deferring' = [f_deferring EXCEPT ![Upstream] = @ \ {"own"}]
       ELSE /\ asked' = [asked EXCEPT ![1].informed = TRUE]
            /\ UNCHANGED f_deferring
    /\ UNCHANGED <<size, flush, named, f_state, f_defer, f_replies, f_line, closed, sent, got>>

\* write_katcl
WriteLine(f) ==
    /\ f_state[f] \in {"up", "ending"}
    /\ f_line[f] # << >>
    /\ f_line' = [f_line EXCEPT ![f] = Tail(@)]
    /\ LET m == Head(f_line[f])
       IN  IF f = Upstream
           THEN asked' = Append(asked, [name |-> m.name, of |-> m.of, informed |-> FALSE]) /\ UNCHANGED got
           ELSE got' = [got EXCEPT ![f] = Append(@, [type |-> m.type, of |-> m.of])] /\ UNCHANGED asked
    /\ UNCHANGED <<size, flush, named, f_state, f_deferring, f_defer, f_replies, closed, queue, sent>>

Connected ==
    /\ f_state[Upstream] = "connecting"
    /\ f_state' = [f_state EXCEPT ![Upstream] = "up"]
    /\ UNCHANGED <<size, flush, named, f_deferring, f_defer, f_replies, f_line, closed, queue, sent, got, asked>>

\* The connection cannot be made, is closed or reset, or does not drain.
Broken(f) ==
    /\ (f_state[f] \in {"connecting", "up"} /\ MayEnd) \/ (f_state[f] = "ending" /\ f_line[f] # << >>)
    /\ f_state' = [f_state EXCEPT ![f] = "crashing"]
    /\ UNCHANGED <<size, flush, named, f_deferring, f_defer, f_replies, f_line, closed, queue, sent, got, asked>>

\* terminate_flat_katcp, asked for by another client.
Terminate(f) ==
    /\ f_state[f] \in {"connecting", "up"} /\ MayEnd
    /\ f_state' = [f_state EXCEPT ![f] = IF @ = "up" THEN "finishing" ELSE "crashing"]
    /\ UNCHANGED <<size, flush, named, f_deferring, f_defer, f_replies, f_line, closed, queue, sent, got, asked>>

-----------------------------------------------------------------------------
(* load_flat_katcp                                                          *)

\* The queues once both endpoints of f have been released: the requests of
\* others are turned around, everything else is destroyed.
Released(f) ==
    LET back(x) == {i \in 1 .. Len(queue[Peer(f)]) : queue[Peer(f)][i].type = "request" /\ queue[Peer(f)][i].from = x}
        nth(x, k) == queue[Peer(f)][CHOOSE i \in back(x) : Cardinality({j \in back(x) : j <= i}) = k]
        reply(m) == [type |-> "reply", name |-> m.name, of |-> m.of, from |-> Peer(f)]
    IN  [x \in Endpoints |->
            IF x[1] = f THEN << >>
            ELSE IF Receiving(x) THEN queue[x] \o [k \in 1 .. Cardinality(back(x)) |-> reply(nth(x, k))]
            ELSE queue[x]]

Drained(f) == f_line[f] = << >> /\ queue[Peer(f)] = << >> /\ queue[Remote(f)] = << >>

\* The first time it is loaded a flat that is finishing stops receiving.
Close(f) ==
    /\ f_state[f] = "finishing"
    /\ ~Drained(f)
    /\ f_state' = [f_state EXCEPT ![f] = "ending"]
    /\ closed' = [closed EXCEPT ![f] = TRUE]
    /\ UNCHANGED <<size, flush, named, f_deferring, f_defer, f_replies, f_line, queue, sent, got, asked>>

\* A flat that has failed, or has nothing more to do, goes.  cancel_flat_katcp
\* and deallocate_flat_katcp drop its handlers without calling them.
Teardown(f) ==
    /\ \/ f_state[f] = "crashing"
       \/ f_state[f] \in {"finishing", "ending"} /\ Drained(f)
    /\ f_state' = [f_state EXCEPT ![f] = "gone"]
    /\ closed' = [closed EXCEPT ![f] = TRUE]
    /\ f_deferring' = [f_deferring EXCEPT ![f] = {"own", "outside"}]
    /\ f_defer' = [f_defer EXCEPT ![f] = << >>]
    /\ f_replies' = [f_replies EXCEPT ![f] = [i \in 1 .. size |-> NULL]]
    /\ f_line' = [f_line EXCEPT ![f] = << >>]
    /\ queue' = Released(f)
    /\ asked' = IF f = Upstream THEN << >> ELSE asked
    /\ UNCHANGED <<size, flush, named, sent, got>>

Loop(f) == RunPeer(f) \/ RunRemote(f) \/ Close(f) \/ Teardown(f)

Network ==
    \/ \E c \in Clients : ReadRequest(c)
    \/ ReadResponse("reply") \/ ReadResponse("inform")
    \/ \E f \in Flats : WriteLine(f) \/ Broken(f) \/ Terminate(f)
    \/ Connected

Next == Network \/ \E f \in Flats : Loop(f)

Spec == Init /\ [][Next]_vars

\* The main loop runs on while there is work, what is written is taken, and
\* the upstream server answers.  Nobody needs to connect, to ask or to go.
LoopFairness ==
    /\ WF_vars(\E f \in Flats : Loop(f))
    /\ \A f \in Flats : WF_vars(WriteLine(f))
    /\ WF_vars(ReadResponse("reply"))

FairSpec == Spec /\ LoopFairness

-----------------------------------------------------------------------------
(* Properties *)

TypeOK ==
    /\ [size |-> size, flush |-> flush, named |-> named] \in Setups
    /\ f_state \in [Flats -> States]
    /\ f_deferring \in [Flats -> SUBSET {"own", "outside"}]
    /\ f_defer \in [Flats -> Seq(Message)]
    /\ f_replies \in [Flats -> [1 .. size -> Handler \cup {NULL}]]
    /\ f_line \in [Flats -> Seq(Message)]
    /\ closed \in [Flats -> BOOLEAN]
    /\ queue \in [Endpoints -> Seq(Queued)]
    /\ sent \in [Clients -> 0 .. MaxSent]
    /\ got \in [Clients -> Seq([type : {"reply", "inform"}, of : Requests])]
    /\ asked \in Seq([name : Names, of : Requests, informed : BOOLEAN])

\* How many messages of sequence s are of a type, and from e.
Count(s, type) == Cardinality({i \in 1 .. Len(s) : s[i].type = type})
CountFrom(s, type, e) == Cardinality({i \in 1 .. Len(s) : s[i].type = type /\ s[i].from = e})

\* The slots of f which wait for an answer to a request of e.
Awaited(f, e) == {i \in 1 .. size : f_replies[f][i] # NULL /\ f_replies[f][i].issuer = e}

Alive(f) == f_state[f] \notin {"crashing", "gone"}

\* A request of a client is in exactly one place: it waits for its peer, in a
\* slot for an answer from elsewhere, or the answer waits to be written.  So
\* there is at most one, KATCP_DEFER_OUTSIDE_REQUEST says whether there is,
\* and neither the check for a reply to nothing in
\* wake_endpoint_remote_flat_katcp nor the one for a second callback in
\* callback_flat_katcp aborts the server.
\*
\* The same for the second hop: while a client waits, its request waits for
\* the peer of the upstream flat or in one of its slots, or it has been
\* answered; and nothing of a request that has been answered stays behind.
OneOutside ==
    \A c \in Clients : Alive(c) =>
        /\ CountFrom(queue[Peer(c)], "request", Remote(c)) + Cardinality(Awaited(c, Remote(c)))
             + Count(queue[Remote(c)], "reply")
           = IF "outside" \in f_deferring[c] THEN 1 ELSE 0
        /\ ~closed[c] /\ Alive(Upstream) =>
              CountFrom(queue[Peer(Upstream)], "request", Peer(c)) + Cardinality(Awaited(Upstream, Peer(c)))
                 + CountFrom(queue[Peer(c)], "reply", Peer(Upstream))
              = Cardinality(Awaited(c, Remote(c)))

\* Every request is answered once: the answers a client has got, the ones on
\* their way and the requests to be answered are as many as it has sent.
Conserved ==
    /\ TypeOK
    /\ \A c \in Clients : Alive(c) =>
          Count(got[c], "reply") + Count(f_line[c], "reply") + Len(f_defer[c])
              + (IF "outside" \in f_deferring[c] THEN 1 ELSE 0) = sent[c]

\* If no two clients make requests of the same name, and there are slots for
\* all, clients are given the answers to their own requests, in order, and
\* the informs that belong to a request before its reply.
Undisturbed ==
    /\ size >= Cardinality(Clients)
    /\ \A c, d \in Clients : named[c] = named[d] => c = d

OwnAnswers ==
    Undisturbed =>
        \A c \in Clients : \A i \in 1 .. Len(got[c]) :
            got[c][i].of = <<c, Count(SubSeq(got[c], 1, i - 1), "reply") + 1>>

\* A request is answered unless its connection or the upstream server goes.
Answered ==
    \A c \in Clients :
        sent[c] > Count(got[c], "reply") ~> \/ sent[c] = Count(got[c], "reply")
                                            \/ f_state[c] = "gone"
                                            \/ f_state[Upstream] = "gone"

=============================================================================
