SPECIFICATION Spec
CONSTANTS
    Dirs <- MCDirs
    Names <- MCNames
    Mounts <- MCMounts
    Standard <- MCStandard
    Disks <- EveryDisk
INVARIANTS
    NothingLost
    NeverMountedAsTemplate
    NamesTheRoot
PROPERTIES
    WritesOnlyDisposable
CHECK_DEADLOCK FALSE
