--------------------------- MODULE MCDaemonSpawn ---------------------------
(* Instances of DaemonSpawn for TLC.                                       *)
EXTENDS DaemonSpawn, TLC

CONSTANTS c1, c2, d1, d2, d3

Processes == Permutations({c1, c2}) \cup Permutations({d1, d2, d3})
=============================================================================
