SPECIFICATION Spec
CONSTANTS
  Appenders = {a1, a2, a3}
  max_queue_entries = 2
  max_batch_entries = 2
  durability_mode = 2
  MaxAppends = 4
  MaxWriteFaults = 1
  MaxRestarts = 1
SYMMETRY AppenderSymmetry
INVARIANTS
  TypeOK
  FileInAppendOrder
  NothingVanishes
  TornOnlyInProgress
  QueueBounded
  FlowInv
  StopSyncs
  UnjoinedOnlyAfterFault
PROPERTIES
  BelowOffsetFinal
  ImplementsAppendLog
