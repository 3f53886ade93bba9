\* Replay of a recording over a network that loses but does not overtake.
SPECIFICATION Spec
CONSTANTS
    Sample <- MCSample
    Event <- MCEvent
    Recordings <- MCShort
    FeedSamples <- MCNothing
    FeedEvents <- MCNothing
    PageSize = 1
    RetryLimit = 2
    Reorder = FALSE
    Expiry = FALSE
    MaxRevision = 1
    MaxFrames = 1
    MaxInFlight = 2
    MaxPages = 0
INVARIANTS AckedIsGiven StopAndWait FrameAfterEvents GivenOnce ViewComplete
