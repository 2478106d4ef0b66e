SPECIFICATION Spec
CONSTANTS
    RtpSessions = {s1}
    Duration = 2
    StreamTimeout = 2
    ClockRate = 2
    RtpModulus = 8
    StartTimes = {5}
    NptHeaders <- MCNptHeaders
    MaxTime = 4
    MaxRanges = 2
INVARIANTS TimerHasSession
CHECK_DEADLOCK FALSE
