SPECIFICATION FairSpec
CONSTANTS
  Threads = {t1, t2}
  Keys = {k1}
  va = va
  vb = vb
  Values <- MCValues
  Seconds <- MCSeconds
  Empty = Empty
  U64 = 16
  MaxClock = 2
  MaxOps = 3
  MaxDbFaults = 1
INVARIANTS
  TypeOK
  ReplayAgrees
  LogAheadOfReaders
PROPERTIES
  ExpiredReaped
