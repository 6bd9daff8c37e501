SPECIFICATION SessionSpec
CONSTANTS
  Personal = {"name"}
  Extras = {"keys"}
  MaxAttempts = 2
INVARIANT AllInputsFresh
CHECK_DEADLOCK FALSE
