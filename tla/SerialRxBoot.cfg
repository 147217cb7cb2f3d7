SPECIFICATION Spec
CONSTANTS
  BufSize = 3
  Blocks = {b1, b2}
  NoBlock = NoBlock
  Early = TRUE
  Burst = 2
  MaxBytes = 6
INVARIANTS EntryCounts
CHECK_DEADLOCK FALSE
