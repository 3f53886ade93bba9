\* A subscriber and a producer on two addresses; requests overtake and repeat.
SPECIFICATION FairSpec
CONSTANTS
    s1 = s1
    p1 = p1
    a1 = a1
    a2 = a2
    Clients <- MCClients
    Subscribers <- MCSubscribers
    Addrs <- MCAddrs
    MaxInFlight = 2
INVARIANTS Indexed ReadyIsSubscribed OnlyProducersUpload
PROPERTIES Expires
