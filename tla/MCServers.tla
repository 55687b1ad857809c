----------------------------- MODULE MCServers ------------------------------
(* Duplex connections, and the DHCP client and the registers of              *)
(* tcpborphserver3, side by side.  They share nothing, so that a behaviour   *)
(* uses one of them and leaves the others as they are at the start.          *)
EXTENDS Duplex, Dhcp, MCRegisters, TLC

CONSTANTS c1, c2, u, a, b

MCClients == {c1, c2}
MCNames == {"read", "write"}

\* Requests of different names, with slots for all of them; requests of the
\* same name, where deferred ones are cancelled; and too few slots.
MCSetups ==
    {[size |-> 2, flush |-> 1, named |-> c1 :> "read" @@ c2 :> "write"],
     [size |-> 2, flush |-> 0, named |-> c1 :> "read" @@ c2 :> "read"],
     [size |-> 1, flush |-> 1, named |-> c1 :> "read" @@ c2 :> "read"]}

\* One configuration of flats, untouched, is enough to leave alone.
DhcpOnly ==
    /\ size = 1
    /\ f_state = [f \in Flats |-> IF f = Upstream THEN "connecting" ELSE "up"]
    /\ \A c \in Clients : sent[c] = 0

ServersInit == Init /\ DhcpInit /\ RegistersInit

ServersNext ==
    \/ DhcpInit /\ RegistersInit /\ Next /\ UNCHANGED <<dvars, rvars>>
    \/ DhcpOnly /\ RegistersInit /\ DhcpNext /\ UNCHANGED <<vars, rvars>>
    \/ DhcpOnly /\ DhcpInit /\ RegistersNext /\ UNCHANGED <<vars, dvars>>

\* Fair to the one that is used.
ServersSpec ==
    /\ ServersInit
    /\ [][ServersNext]_<<vars, dvars, rvars>>
    /\ LoopFairness
    /\ WF_dvars(DhcpOnly /\ Turn) /\ SF_dvars(DhcpOnly /\ Poll)
    /\ \A c \in Askers : WF_dvars(Resume(c))

=============================================================================
