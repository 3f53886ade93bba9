\* Two receive loops and two maintainers around one store.
SPECIFICATION FairSpec
CONSTANTS
    i1 = i1
    i2 = i2
    m1 = m1
    m2 = m2
    a1 = a1
    a2 = a2
    Ingesters <- MCIngesters
    Maintainers <- MCMaintainers
    Aircraft <- MCAircraft
    Recordings <- MCRecordings
INVARIANTS Exclusive GateOwned SnapshotWhole Coherent
PROPERTIES Drains Reopens
