-------------------------- MODULE MCSessionCleanup --------------------------
(* An instance of SessionCleanup for TLC, and for the proofs about it: the *)
(* ends of sessions, with names that PendingWork does not use.             *)
EXTENDS Naturals, TLC

CONSTANTS
  c1, c2, w1, w2, s1, s2, grad,
  Conversations, Workers, SessionRows, GradTypes, OrphanLimit, MaxSlips, None

ASSUME SessionAssumption ==
  /\ OrphanLimit \in Nat \ {0} /\ MaxSlips \in Nat
  /\ None \notin Conversations \cup Workers \cup SessionRows
  /\ "extract" \notin GradTypes

VARIABLES conv, closed, claim, bound, heard, pending, grads, raced, at, client, said, rest,
          todo, ops, oks, fails, queued, slips

E == INSTANCE SessionCleanup
       WITH Rows <- SessionRows, MaxFaults <- MaxSlips, token <- claim, pc <- at, faults <- slips

EndsSpec == E!Spec

(* The variables have their types.                                         *)
EndsTypeOK == E!TypeOK

(* EndedOnce of SessionCleanup: the end of a session has one winner and    *)
(* queues its work once (session-end.ts, deferred-cleanup.ts).             *)
EndedOnce == E!EndedOnce

Sym == Permutations(Workers) \cup Permutations(Conversations) \cup Permutations(SessionRows)
=============================================================================
