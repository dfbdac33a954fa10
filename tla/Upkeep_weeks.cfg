CONSTANTS
  d1 = d1  d2 = d2
  None = None
  Daemons = {d1, d2}
  Rows = {1, 2, 3}
  Id <- IdOrder
  Family <- Families
  Late = {3}
  Ranks <- SomeRanks
  Week = 1
  MaxFaults = 1
  s1 = s1  n1 = n1  m1 = m1  m2 = m2
  Skills = {s1}
  Order <- FileOrder
  Twins = {}
  Calls = {m1, m2}
  MaxSlips = 2
SPECIFICATION UpkeepSpec
INVARIANTS UpkeepTypeOK FamilyStands NothingLost
PROPERTIES BigIsConsolidated MigratesOnce
CHECK_DEADLOCK FALSE
