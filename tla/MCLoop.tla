------------------------------- MODULE MCLoop -------------------------------
(* Notices, and timers with sensors, side by side: the parts of the main     *)
(* loop that call back.  They share nothing here but the names of clients,   *)
(* so that a behaviour uses one of them and leaves the other as it is at the *)
(* start.                                                                    *)
EXTENDS Notice, Sensors, TLC

CONSTANTS c1, c2, watched, j1, a1, s1, t1, t2, t3, n1

MCClients == {c1, c2}

\* Clients are alike; timers are not, since they are allocated in an order.
Symmetric == Permutations(MCClients)

\* A joint bound: two clients that sample the sensor and one timer of the
\* notice, or one client and two timers.
Effort ==
    Cardinality({p \in Samplers \X Sensors : nonsense[p[1]][p[2]] # Nothing})
        + Cardinality({t \in InHeap(x) : x.timer[t].data \in Alarms}) <= 3

LoopInit == Init /\ SensorsInit

LoopNext ==
    \/ Init /\ SensorsNext /\ UNCHANGED vars
    \/ SensorsInit /\ Next /\ UNCHANGED sensorvars

LoopSpec == LoopInit /\ [][LoopNext]_<<vars, sensorvars>>

=============================================================================
