SPECIFICATION Spec
CONSTANTS
  H = 32768
  Want = 80
  Readings <- MCStalled
  Writers = {"master"}
  Commands = {"forward"}
  MaxCalls = 1
  HoldMod = 256
INVARIANTS PushesForward
