---------------------------- MODULE MCManagedStore ----------------------------
(* An instance of ManagedStore for TLC, and for the proofs about it: the   *)
(* store of a daemon, with names that DaemonSpawn does not use.            *)
EXTENDS Naturals

CONSTANTS
  q1, q2, p1, h1, h2,
  Queries, Pings, Handlers, MaxRestarts, MaxAttempts, MinTimeouts, MinHeals, MaxBreaks

(* A supervisor may restart, a reconnect may try, a detector needs to see  *)
(* something.                                                              *)
ASSUME StoreAssumption ==
  /\ Pings \subseteq Queries
  /\ MaxRestarts \in Nat \ {0} /\ MaxAttempts \in Nat \ {0}
  /\ MinTimeouts \in Nat \ {0} /\ MinHeals \in Nat \ {0} /\ MaxBreaks \in Nat

VARIABLES children, events, exits, degraded, respawning, hpc, missed, conn, schema, suspect,
          rec, attempt, qpc, old, poisoned, timeouts, heals, streak, gone, breaks

S == INSTANCE ManagedStore WITH MaxFaults <- MaxBreaks, faults <- breaks

StoreSpec == S!FairSpec

(* The variables of the store have their types.                            *)
StoreTypeOK == S!TypeOK

(* OneChild of ManagedStore: one SurrealDB process at a time has the data  *)
(* directory and the port (bootstrap.ts:273-335).                          *)
OneChild == S!OneChild

(* StoreHeals of ManagedStore: neither a dead database nor a broken        *)
(* connection is kept for good (bootstrap.ts:280, surreal.ts:257-720).     *)
StoreHeals == S!StoreHeals
=============================================================================
