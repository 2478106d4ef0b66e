SPECIFICATION FairSpec
CONSTANTS
    Consumers = {c1, c2, c3}
    SerialModulus = 16
    Live = TRUE
    FirstLiveSeq = 3
    MaxPuts = 2
    MaxQueueSerial = 5
INVARIANTS TypeOK CountExact ResetAlone FedWhileUsed
PROPERTIES CloseReturns
CHECK_DEADLOCK FALSE
