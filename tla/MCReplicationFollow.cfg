SPECIFICATION ReplicationFairSpec
CONSTANTS
  Appenders = {p1}
  MaxAppends = 1
  Commands <- MCCommands
  Replicas = {r1}
  Descriptors = {3}
  MaxConns = 1
  MaxLosses = 0
  MaxAcceptFaults = 0
  MaxReadFaults = 0
CHECK_DEADLOCK FALSE
PROPERTIES
  ListenerForwards
