SPECIFICATION Spec
CONSTANTS
  Package <- MCPackage
  Needs <- MCNeeds
  Baseline <- MCBaseline
  Preinstalls <- MCPreinstalls
  Bootstrap <- MCBootstrap
  Other <- MCOther
  Tailscale = "tailscale"
  Choices <- MCChoices
  Modes = {TRUE}
  Deferred = FALSE
  Interrupts = FALSE
  Kills = TRUE
  Debug = FALSE
  MaxFaults = 0
INVARIANT StoppedIsRolledBack
CHECK_DEADLOCK FALSE
