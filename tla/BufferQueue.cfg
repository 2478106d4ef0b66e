SPECIFICATION FairSpec
CONSTANTS
    Consumers = {c1, c2, c3}
    SerialModulus = 16
    Live = FALSE
    FirstLiveSeq = 0
    MaxPuts = 4
    MaxQueueSerial = 3
INVARIANTS TypeOK SeenExact NoCountFault NothingLeaks UnseenCoversWaiting PointerReliable BookkeepingInv
PROPERTIES ImplementsLog QueueDrains
CHECK_DEADLOCK FALSE
