----------------------------- MODULE MCSensors ------------------------------
(* One acquire, two clients and two timers of a notice.                    *)
EXTENDS Sensors, TLC

CONSTANTS a1, s1, c1, c2, t1, t2, t3, n1

\* Clients are alike; timers are not, since they are allocated in an order.
Symmetric == Permutations({c1, c2})

=============================================================================
