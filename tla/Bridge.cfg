\* Two aircraft, one AI object at most, one failing call, one restart.
SPECIFICATION Spec
CONSTANTS
    Aircraft <- MCAircraft
    Requested = 0
    Home <- MCHome
    MaxAi = 1
    MaxRequest = 2
    MaxFault = 1
    MaxQuit = 1
INVARIANTS AiAccounted FreezeRestored
CHECK_DEADLOCK FALSE
