CONSTANTS
  Mib = 4
  EfiSize = 8
  MinInstall = 20
  Reserve = 1
  DiskSizes = {8, 24, 25, 27, 28, 32, 35}
  Lengths = {1, 3}
  MaxExternal = 2
SPECIFICATION Spec
INVARIANTS PlanIsFeasible MadeAsPromised RefusalJustified
CHECK_DEADLOCK FALSE
