SPECIFICATION Spec
CONSTANTS
  Slots = {1, 2, 3}
  Protected = TRUE
  MaxFaults = 3
INVARIANTS ForeignUntouched OthersKeepTheirOrder FailureRemovesEntry HandedOverBootable
CHECK_DEADLOCK FALSE
