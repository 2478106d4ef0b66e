SPECIFICATION Spec
CONSTANTS
    RtpSessions = {s1, s2}
    Duration = 2
    StreamTimeout = 2
    ClockRate = 2
    RtpModulus = 8
    StartTimes = {5}
    NptHeaders <- MCNptHeaders
    MaxTime = 5
    MaxRanges = 3
SYMMETRY RtpSymmetry
INVARIANTS TypeOK RangeAlive PlayingHasRange RtpTimesAgree
CHECK_DEADLOCK FALSE
