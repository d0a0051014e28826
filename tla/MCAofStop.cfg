SPECIFICATION Spec
CONSTANTS
  Appenders = {a1}
  max_queue_entries = 2
  max_batch_entries = 1
  durability_mode = 1
  MaxAppends = 1
  MaxWriteFaults = 0
  MaxRestarts = 0
INVARIANTS
  StopFlushes
