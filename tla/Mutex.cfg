SPECIFICATION FairSpec
CONSTANTS
  a = a
  b = b
  c = c
  d = d
  Threads <- MCThreads
  NoThread = NoThread
  Base <- MCBase
  Flags = {"fifo", "prio"}
  Waits = {"forever", "timed"}
  MaxHold = 2
INVARIANTS TypeOK HoldersAgree WaitersSuspended PriorityRestored Inherited
PROPERTIES Served
