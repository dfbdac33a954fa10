--------------------------- MODULE MCPendingWork ---------------------------
(* Instances of PendingWork for TLC.                                       *)
EXTENDS PendingWork, TLC

CONSTANTS r1, r2, f1, f2, c1, c2, c3

(* Two rows of one session and work type: a session that was resumed and   *)
(* ended twice.                                                            *)
SameKey == r1 :> 1 @@ r2 :> 1
OneKey   == r1 :> 1
OneOrder == r1 :> 1
Order    == r1 :> 1 @@ r2 :> 2

Calls == Permutations({f1, f2}) \cup Permutations({c1, c2, c3})
=============================================================================
