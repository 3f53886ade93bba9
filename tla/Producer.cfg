\* Three calls, two heartbeats, one failing send.
SPECIFICATION FairSpec
CONSTANTS
    MaxCalls = 3
    MaxBeats = 2
    MaxFaults = 1
INVARIANTS SentInOrder ClosedDelivered
PROPERTY ClientEnds
CHECK_DEADLOCK FALSE
