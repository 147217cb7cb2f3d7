SPECIFICATION FairSpec
CONSTANTS
  BufSize = 3
  Blocks = {b1, b2}
  NoBlock = NoBlock
  Early = FALSE
  Burst = 2
  MaxBytes = 7
INVARIANTS PacedLossless
PROPERTIES ImplementsLine StaysBehind QueuedDelivered
CHECK_DEADLOCK FALSE
