--------------------------- MODULE MCHealthEndpoint ---------------------------
(* Small instances of HealthEndpoint for TLC.                              *)
EXTENDS MCActionEndpoint, HealthEndpoint

CONSTANTS p1, p2

TwoProbes == {p1, p2}
Symmetric == Permutations(Requests) \cup Permutations(Probes)
=============================================================================
