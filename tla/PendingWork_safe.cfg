CONSTANTS
  r1 = r1  r2 = r2
  f1 = f1  f2 = f2
  c1 = c1  c2 = c2  c3 = c3
  NoRow = NoRow
  NoToken = NoToken
  Rows = {r1, r2}
  KeyOf <- SameKey
  Rank <- Order
  Fetchers = {f1, f2}
  Commits = {c1, c2}
  MaxFaults = 1
SPECIFICATION Spec
SYMMETRY Calls
INVARIANTS WriteBudget RowsConsistent
PROPERTY ImplementsLedger
