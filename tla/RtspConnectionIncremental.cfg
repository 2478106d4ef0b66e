SPECIFICATION Spec
CONSTANTS
    Messages <- GoodMessages
    BufferSize = 7
    MaxMessages = 2
    MaxPackets = 0
INVARIANTS AnsweredIncrementally
CHECK_DEADLOCK FALSE
