CONSTANTS
  Hooks = {h1, h2}
  Roots = {"live", "target"}
  Signals = {"INT", "TERM", "KILL"}
  MaxFaults = 3
  MaxRuns = 3
SPECIFICATION Spec
INVARIANTS HookNeverLost CommandRunsMasked CleanExitRestores HandedOverUnmasked
SYMMETRY Perms
CHECK_DEADLOCK FALSE
