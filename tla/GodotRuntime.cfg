\* Four streams, so that an old frame, a reset and a new frame can meet.
SPECIFICATION FairSpec
CONSTANTS
    MaxStream = 4
    MaxOps = 2
    MaxEvents = 3
INVARIANTS OperationsKept
PROPERTIES ShutdownReturns CatchesUp
