CONSTANTS
  MaxSlot = 5
  External = {{"add", "relabel"}, {"remove", "relabel"}}
  MaxExternal = 2
SPECIFICATION Spec
INVARIANTS TheirsUntouched ClaimsOnlyOurs NoOrphans HandOffComplete
CHECK_DEADLOCK FALSE
