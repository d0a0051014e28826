SPECIFICATION FairSpec
CONSTANTS
  Appenders = {a1, a2}
  max_queue_entries = 2
  max_batch_entries = 2
  durability_mode = 1
  MaxAppends = 4
  MaxWriteFaults = 1
  MaxRestarts = 0
PROPERTIES
  BlockedAppendReturns
  StopReturns
  AcceptedSettles
