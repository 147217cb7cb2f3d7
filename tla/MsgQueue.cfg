SPECIFICATION FairSpec
CONSTANTS
  Senders = {s1, s2}
  Receivers = {r1, r2}
  Blocks = {b1, b2}
  NoBlock = NoBlock
  Msgs = {m1, m2}
  NoMsg = NoMsg
  Entrances = {"send", "urgent"}
  Waits = {"timed", "forever"}
  MaxSends = 2
  MaxResets = 1
INVARIANTS TypeOK BlocksConserved NoLostWakeup SuspendedWait
PROPERTIES ImplementsChannel Served
CHECK_DEADLOCK FALSE
