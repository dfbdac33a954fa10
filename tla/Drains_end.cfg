CONSTANTS
  d1 = d1  d2 = d2
  t1 = t1  t2 = t2
  k1 = k1  k2 = k2 
  None = None
  Daemons = {d1, d2}
  Triggers = {t1, t2}
  Kids = {k1, k2}
  MaxDaily = 2
  MaxFast = 1
  MaxFaults = 1
  r1 = r1  r2 = r2  f1 = f1  c1 = c1  c2 = c2  c3 = c3
  NoRow = NoRow  NoToken = NoToken
  MaxSlips = 1
SPECIFICATION DrainsSpec
INVARIANTS TypeOK OneDrainer SpendCapped
PROPERTY WorkDrains
CHECK_DEADLOCK FALSE
