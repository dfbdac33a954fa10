CONSTANTS
  r1 = r1  r2 = r2
  f1 = f1  f2 = f2
  c1 = c1  c2 = c2  c3 = c3
  NoRow = NoRow
  NoToken = NoToken
  Rows = {r1}
  KeyOf <- OneKey
  Rank <- OneOrder
  Fetchers = {f1, f2}
  Commits = {c1, c2}
  MaxFaults = 2
SPECIFICATION Spec
SYMMETRY Calls
INVARIANT StaleClaimDiscarded
