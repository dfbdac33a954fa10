CONSTANTS
  c1 = c1  c2 = c2
  w1 = w1  w2 = w2
  s1 = s1  s2 = s2
  grad = grad
  None = None
  Conversations = {c1, c2}
  Workers = {w1, w2}
  SessionRows = {s1, s2}
  GradTypes = {grad}
  OrphanLimit = 2
  MaxSlips = 1
SPECIFICATION EndsSpec
INVARIANTS EndsTypeOK EndedOnce
SYMMETRY Sym
CHECK_DEADLOCK FALSE
