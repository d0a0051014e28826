SPECIFICATION BlpSpec
CONSTANTS
  va = va
  junk = junk
  Blank = Blank
  Conns = {c1}
  Replicator = r1
  Threads <- MCThreads
  Keys = {k1}
  Values <- MCValues
  Seconds = {1}
  Empty = Empty
  U64 = 16
  ConfigFiles <- MCFiles
  MaxClock = 2
  MaxOps = 2
  MaxDbFaults = 0
  MaxRestarts = 1
  MaxFaults = 1
CHECK_DEADLOCK FALSE
INVARIANTS
  BlpTypeOK
  SessionRequired
  ReadYourWrites
  ClientWritesLogged
  ReplayAfterRestart
  ReplicaPortAsWritten
