\* One aircraft, three instants, two samples in the buffer.
SPECIFICATION Spec
CONSTANTS
    Contents <- MCContents
    MaxTime = 3
    Smooth = TRUE
    Delay = 1
    Reach = 1
    MaxSamples = 2
    MaxBufferAge = 1
    MaxArrivals = 3
    MaxRevision = 2
PROPERTIES GearInStep InStep FrameCovered
