CONSTANTS
  c1 = c1  c2 = c2
  d1 = d1  d2 = d2  d3 = d3
  None = None
  Clients = {c1, c2}
  Daemons = {d1, d2, d3}
  Transports = {"uds", "tcp"}
  Timings = {FALSE}
  MaxFaults = 1
SPECIFICATION Spec
SYMMETRY Processes
INVARIANTS SingletonUnlessOverlap ServerReachable
