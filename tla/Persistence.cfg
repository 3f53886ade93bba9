\* Two operations, one failing file operation, one crash.
SPECIFICATION FairSpec
CONSTANTS
    MaxWork = 2
    MaxVersion = 1
    MaxFault = 1
    MaxCrash = 1
INVARIANTS TargetWhole StoppedIsIdle WorkspaceDurable
PROPERTIES NoSilentOverwrite SavesAtomically StopReturns
CHECK_DEADLOCK FALSE
