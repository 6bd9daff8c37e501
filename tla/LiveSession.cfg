SPECIFICATION SessionSpec
CONSTANTS
  Personal = {"name"}
  Extras = {"keys"}
  MaxAttempts = 2
INVARIANTS
  SessionTypeOK InputsOfThisAttempt HandoverAccepted ScreensAgree
PROPERTIES AutoEnds
CHECK_DEADLOCK FALSE
