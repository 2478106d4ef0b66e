SPECIFICATION Spec
CONSTANTS
    RtpSessions = {s1}
    Duration = 3
    StreamTimeout = 2
    ClockRate = 2
    RtpModulus = 8
    StartTimes = {5}
    NptHeaders <- MCNptHeaders
    MaxTime = 5
    MaxRanges = 2
PROPERTIES PausePointRecorded
CHECK_DEADLOCK FALSE
