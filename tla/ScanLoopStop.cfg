SPECIFICATION Spec
CONSTANTS
  Kinds = {"nearRight"}
  MaxPts = 1
  PktMax = 1
  LastSector = 1
  Cap = 2
  NearLimit = 1
  SwingInit = {0}
  TurnMod = 1
  MaxWire = 1
  UserCmds = {"60", "65"}
  MaxUser = 2
  MaxFaults = 0
PROPERTIES StopHolds
CHECK_DEADLOCK FALSE
