SPECIFICATION FairSpec
CONSTANTS
    Consumers = {s1}
    SerialModulus = 16
    Live = FALSE
    FirstLiveSeq = 0
    MaxPuts = 3
    MaxQueueSerial = 4
    BufferedFrames = 2
    MediaLength = 2
    MaxFragments = 2
    MaxJobs = 2
PROPERTIES PauseReturns
CHECK_DEADLOCK FALSE
