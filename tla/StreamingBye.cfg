SPECIFICATION Spec
CONSTANTS
    Consumers = {s1}
    SerialModulus = 16
    Live = FALSE
    FirstLiveSeq = 0
    MaxPuts = 3
    MaxQueueSerial = 4
    BufferedFrames = 3
    MediaLength = 3
    MaxFragments = 2
    MaxJobs = 2
INVARIANTS ByeAfterLast
CHECK_DEADLOCK FALSE
