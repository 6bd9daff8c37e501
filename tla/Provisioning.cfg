SPECIFICATION Spec
CONSTANTS
    KeyFiles = {"absent", "empty", "some"}
    TailscaleFiles = {"absent", "bad", "one"}
    Keyboards = {"us", "other", "unknown"}
INVARIANTS
    ReadyForItsOwner
    OpensUnattended
    BootsItsConfiguration
    ReachableAsAsked
    FactoryHoldsNoSecrets
    FactoryStandsAlone
CHECK_DEADLOCK FALSE
