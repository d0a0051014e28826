SPECIFICATION ServiceSpec
CONSTANTS
  va = va
  vb = vb
  Conns = {c1}
  Replicator = r1
  Threads <- MCThreads
  Keys = {k1}
  Values <- MCValues
  Seconds <- MCSeconds
  Empty = Empty
  U64 = 16
  MaxClock = 2
  MaxOps = 2
  MaxDbFaults = 0
INVARIANTS
  ReplicaReadOnly
