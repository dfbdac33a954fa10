-------------------------- MODULE MCDaemonServer ---------------------------
(* Instances of DaemonServer for TLC.                                      *)
EXTENDS DaemonServer, TLC

CONSTANTS s1, s2, k1, k2, k3

RequestIds == Permutations({k1, k2, k3})
=============================================================================
