CONSTANTS
  i1 = i1  i2 = i2
  r1 = r1  r2 = r2  r3 = r3
  s1 = s1
  h1 = h1  h2 = h2
  None = None
  Items = {i1, i2}
  Kinds <- SoulOrChains
  Runs = {r1, r2, r3}
  Sections = {s1}
  SectionCap = 3
  Chains = {h1, h2}
  MinChains = 1
  MaxAttempts = 2
  MaxFaults = 1
SPECIFICATION Spec
SYMMETRY Sym
INVARIANTS TypeOK TierZeroFollows DoneOnce
PROPERTY NothingUnseenLost
CHECK_DEADLOCK FALSE
