SPECIFICATION FairSpec
CONSTANTS
  Kinds = {"none", "nearLeft", "nearRight"}
  MaxPts = 1
  PktMax = 1
  LastSector = 2
  Cap = 1
  NearLimit = 1
  SwingInit <- MCSwingInit
  TurnMod = 1
  MaxWire = 1
  UserCmds = {"60"}
  MaxUser = 1
  MaxFaults = 0
INVARIANTS SwingCounts NeverForwardIntoObstacle
PROPERTIES KeepsAvoiding SectorIsWholeTurn
CHECK_DEADLOCK FALSE
