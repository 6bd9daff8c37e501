SPECIFICATION Spec
CONSTANTS
  StartSec = 3
  StopSec = 1
  Margin = 3
  CallSec = 2
  UnansweredLimit = 2
  InactiveLimit = 3
  MaxCalls = 3
INVARIANTS NoWriteWithoutVerdict
PROPERTIES GivesUpAfterTheUnit GoodVerdictStands CallReturns
CHECK_DEADLOCK FALSE
