SPECIFICATION Spec
CONSTANTS
  Kinds = {"clear"}
  MaxPts = 2
  PktMax = 2
  LastSector = 2
  Cap = 2
  NearLimit = 1
  SwingInit = {0}
  TurnMod = 6
  MaxWire = 1
  UserCmds = {"60"}
  MaxUser = 1
  MaxFaults = 0
INVARIANTS SectorIsOneTurn
CHECK_DEADLOCK FALSE
