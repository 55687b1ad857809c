------------------------------ MODULE MCNotice ------------------------------
(* Instances of module Notice for TLC.                                       *)
EXTENDS Notice, TLC

CONSTANTS c1, c2, w, j1

MCClients == {c1, c2}
MCNames == {w}
MCJobs == {j1}
MCNoJobs == {}

ClientSymmetry == Permutations(MCClients)

=============================================================================
