------------------------------- MODULE MCLive -------------------------------
(* What must happen in the end to a message for an endpoint, and to an       *)
(* upload to tcpborphserver3, side by side.  They share nothing, so that a   *)
(* behaviour uses one of them and leaves the other as it is at the start.    *)
EXTENDS MCEndpoint, Gateware

CONSTANTS c1, c2

MCRequesters == {c1, c2}

\* One of the initial states of uploads is enough to leave alone.
NoFiles == GatewareInit /\ \A f \in Files : stored[f] = "absent"

LiveNext ==
    \/ NoFiles /\ Next /\ UNCHANGED gatevars
    \/ Init /\ GatewareNext /\ UNCHANGED vars

\* The loop of endpoints runs all the time, unless it is uploads that are used.
LiveSpec ==
    /\ Init /\ GatewareInit
    /\ [][LiveNext]_<<vars, gatevars>>
    /\ WF_vars(NoFiles /\ FairLoop)
    /\ \A e \in Endpoints : SF_vars(NoFiles /\ Handle(e))
    /\ GatewareFairness

=============================================================================
