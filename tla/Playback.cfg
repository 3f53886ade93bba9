\* Two callers, one of which polls; two speeds; a recording to load.
SPECIFICATION FairSpec
CONSTANTS
    Sample <- MCSample
    Event <- MCEvent
    Recordings <- MCRecordings
    Callers = {poller, console}
    Poller = poller
    Speeds = {1, 2}
    DefaultSpeed = 1
    Targets = {9}
    MaxCount = 2
    MaxAge = 1
    MaxRevision = 3
INVARIANTS OnTime
PROPERTIES BackwardIsAnnounced PlaybackEnds
CHECK_DEADLOCK FALSE
