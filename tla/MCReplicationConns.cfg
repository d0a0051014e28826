SPECIFICATION ReplicationFairSpec
CONSTANTS
  Appenders = {p1}
  MaxAppends = 1
  Commands <- MCCommands
  Replicas = {r1}
  Descriptors = {3, 4}
  MaxConns = 2
  MaxLosses = 1
  MaxAcceptFaults = 1
  MaxReadFaults = 0
INVARIANTS
  HandlerOwnsDescriptor
PROPERTIES
  AppendReturns
  ClosesBroken
