\* Liveness of stop-and-wait when the network may lose everything.
SPECIFICATION FairSpec
CONSTANTS
    Sample <- MCSample
    Event <- MCEvent
    Recordings <- MCEmpty
    FeedSamples <- MCFeedSamples
    FeedEvents <- MCFeedEvents
    PageSize = 1
    RetryLimit = 2
    Reorder = TRUE
    Expiry = TRUE
    MaxRevision = 0
    MaxFrames = 2
    MaxInFlight = 2
    MaxPages = 4
PROPERTY PageResolves
