\* One aircraft, two instants, three messages; a query of three or four points.
SPECIFICATION Spec
CONSTANTS
    Times = {1, 2}
    States <- MCStates
    Spawns <- MCSpawns
    Frames <- MCFrames
    Recordings <- MCRecordings
    Requests <- MCRequests
    MinPoints = 3
    MaxPoints = 4
    MaxLimit = 2
    MaxMessages = 3
INVARIANTS SampledFaithfully RoundTrip 
CHECK_DEADLOCK FALSE
