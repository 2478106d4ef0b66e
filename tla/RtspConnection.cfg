SPECIFICATION FairSpec
CONSTANTS
    Messages <- AllMessages
    BufferSize = 7
    MaxMessages = 2
    MaxPackets = 1
INVARIANTS TypeOK AnsweredAsSent
PROPERTIES DeliveredInOrder HandlerReturns QueueGoesOut
CHECK_DEADLOCK FALSE
