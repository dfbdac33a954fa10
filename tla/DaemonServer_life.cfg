CONSTANTS
  s1 = s1  s2 = s2
  k1 = k1  k2 = k2  k3 = k3
  Free = Free
  Sockets = {s1, s2}
  Owners = {s1}
  Requests = {k1, k2, k3}
  MaxInFlight = 2
  MaxPerSocket = 1
  MaxPhantoms = 1
  DrainMayExpire = TRUE
SPECIFICATION FairSpec
INVARIANTS Admission Maps
PROPERTIES Endings SupersedeLands
\* The daemon is a process that exits.
CHECK_DEADLOCK FALSE
