---------------------------- MODULE MCGraduation ----------------------------
(* An instance of Graduation for TLC: items about the soul, or about       *)
(* causal chains, which do not meet.                                       *)
EXTENDS Graduation, TLC

SoulOrChains == [Items -> {"generate", "evolve"}] \cup [Items -> {"chains"}]
Sym == Permutations(Runs) \cup Permutations(Items)
=============================================================================
