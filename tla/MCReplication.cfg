SPECIFICATION ReplicationSpec
CONSTANTS
  Appenders = {p1, p2}
  MaxAppends = 2
  Commands <- MCCommands
  Replicas = {r1}
  Descriptors = {3}
  MaxConns = 1
  MaxLosses = 0
  MaxAcceptFaults = 0
  MaxReadFaults = 1
INVARIANTS
  ReplicationTypeOK
  StreamInStep
  AppliesOnlyLogged
SYMMETRY AppenderSymmetry
