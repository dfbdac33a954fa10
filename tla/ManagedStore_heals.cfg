SPECIFICATION StoreSpec
CONSTANTS
  q1 = q1
  q2 = q2
  p1 = p1
  h1 = h1
  h2 = h2
  Queries = {q1, q2, p1}
  Pings = {p1}
  Handlers = {h1, h2}
  MaxRestarts = 2
  MaxAttempts = 2
  MinTimeouts = 2
  MinHeals = 2
  MaxBreaks = 2
INVARIANTS StoreTypeOK OneChild
PROPERTY StoreHeals
CHECK_DEADLOCK FALSE
