CONSTANTS
  l1 = l1  l2 = l2  k1 = k1  k2 = k2  x = x  t = t  Nothing = Nothing
  Learners = {l1, l2}
  Content <- ContentOf
  Correctors = {k1, k2}
  Wrong <- WrongOf
  Said <- SaidOf
  Alike = {}
  Worn = {16}
  Reborn = 1
  MaxBusy = 2
  MaxMem = 2
  MaxSignals = 1
  MaxFaults = 1
  MaxTurns = 2
  MaxStops = 2
  Kinds = {"plain", "filler", "bypass"}
  Files = {f1}
  destroy = destroy
  Commands = {c1, c2}
  MaxPrompts = 2
  MaxNamed = 1
  Spawns = {s1, s2}
  Edits = {u1}
  MaxSlips = 1
SPECIFICATION ConversationSpec
SYMMETRY Actors
INVARIANTS ConversationTypeOK ConceptsFold TurnsKept NoSelfAuthorisation AgentsClosed
PROPERTIES DecayedOnce StagedKept
CHECK_DEADLOCK FALSE
