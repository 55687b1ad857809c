------------------------------- MODULE MCJob --------------------------------
(* Instances of module Job for TLC.                                          *)
EXTENDS Job, FiniteSets, TLC

CONSTANTS r1, r2

MCRequests2 == {r1, r2}

MCHalts == {"none", "held"}

\* A joint bound: two requests and one message the peer sends unasked, or one
\* request and two of those.
MCEffort == Cardinality({r \in Requests : outcome[r] # "idle"}) + (Budget - budget) <= 3

=============================================================================
