\* What the documentation promises of new events, with a live producer.
SPECIFICATION FairSpec
CONSTANTS
    Sample <- MCSample
    Event <- MCEvent
    Recordings <- MCEmpty
    FeedSamples <- MCFeedSamples
    FeedEvents <- MCFeedSpawn
    PageSize = 1
    RetryLimit = 2
    Reorder = FALSE
    Expiry = FALSE
    MaxRevision = 0
    MaxFrames = 0
    MaxInFlight = 2
    MaxPages = 0
PROPERTY EventsDelivered
