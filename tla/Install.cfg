SPECIFICATION Spec
CONSTANTS
  Package <- MCPackage
  Needs <- MCNeeds
  Baseline <- MCBaseline
  Preinstalls <- MCPreinstalls
  Bootstrap <- MCBootstrap
  Other <- MCOther
  Tailscale = "tailscale"
  Choices <- MCChoices
  Modes = {TRUE, FALSE}
  Deferred = FALSE
  Interrupts = TRUE
  Kills = TRUE
  Debug = FALSE
  MaxFaults = 3
INVARIANTS ArchivesAtHand AsChosen FstabClean NothingLeftMounted ExitTellsTruth
PROPERTIES KeepsContract
CHECK_DEADLOCK FALSE
