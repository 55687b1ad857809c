----------------------------- MODULE MCEndpoint -----------------------------
(* Instances of module Endpoint for TLC.                                     *)
EXTENDS Endpoint, TLC

CONSTANTS a, b, w, m1, m2, m3

\* A connection's peer endpoint (slow), another one's remote endpoint (fast)
\* and the endpoint of a sensor (no wake function).
MCEndpoints == {a, b, w}
MCWakes == {a, b}
MCFast == {b}

MCMessages == {m1, m2, m3}
MCMessages2 == {m1, m2}

MessageSymmetry2 == Permutations(MCMessages2)

\* Two connections.
MCEndpoints2 == {a, b}

=============================================================================
