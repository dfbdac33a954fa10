CONSTANTS
  c1 = c1  c2 = c2
  Calls = {c1, c2}
  MaxClients = 3
  MaxSockets = 3
  Enforcing = {TRUE, FALSE}
  MaxFaults = 1
  Callers = {e1, e2, e3}
  Others = {e3}
  x = x  y = y  Nobody = Nobody
  CacheSize = 1
  QueueMax = 1
  MaxTimeouts = 2
  MaxSlips = 2
SPECIFICATION CallsSpec
INVARIANTS CallsTypeOK RetryIsSafe EmbedsFit
PROPERTIES CloseIsOwn CallsEnd
CHECK_DEADLOCK FALSE
