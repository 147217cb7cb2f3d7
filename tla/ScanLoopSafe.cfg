SPECIFICATION Spec
CONSTANTS
  Kinds = {"nearRight"}
  MaxPts = 1
  PktMax = 1
  LastSector = 2
  Cap = 2
  NearLimit = 1
  SwingInit = {3}
  TurnMod = 1
  MaxWire = 1
  UserCmds = {"60", "65"}
  MaxUser = 2
  MaxFaults = 1
INVARIANTS TypeOK Fresh 
PROPERTIES StableWhileRead NoEventMerged
CHECK_DEADLOCK FALSE
