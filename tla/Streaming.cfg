SPECIFICATION FairSpec
CONSTANTS
    Consumers = {s1, s2}
    SerialModulus = 16
    Live = FALSE
    FirstLiveSeq = 0
    MaxPuts = 4
    MaxQueueSerial = 3
    BufferedFrames = 2
    MediaLength = 3
    MaxFragments = 2
    MaxJobs = 1
INVARIANTS TypeOK FillConsumerAlive BufferHeld SentInOrder QueueBounded
PROPERTIES KeepsStreaming
CHECK_DEADLOCK FALSE
