SPECIFICATION FairSpec
CONSTANTS
  H = 2
  Want = 1
  Readings <- MCStalled
  Writers = {"master", "finsh"}
  Commands = {"forward", "left", "stop"}
  MaxCalls = 1
  HoldMod = 2
INVARIANTS TypeOK DriveMatchesPwm FollowsLastCommand PositionForm
PROPERTIES Settles
