SPECIFICATION Spec
CONSTANTS
    Conns = {c1, c2}
    OfferLists <- MCOfferLists
    MaxFd = 6
    MaxPort = 4
    ChannelLimit = 5
    MaxSetups = 2
    MaxFailures = 2
SYMMETRY Symmetry
INVARIANTS TypeOK SocketsAccounted SocketsOwn PortsAnnounced ChannelsGiven CrashExplained
CHECK_DEADLOCK FALSE
