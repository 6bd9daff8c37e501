CONSTANTS
  MaxSlot = 3
  External = {{"add", "remove"}}
  MaxExternal = 2
SPECIFICATION Spec
INVARIANTS ClaimsOnlyOurs
CHECK_DEADLOCK FALSE
