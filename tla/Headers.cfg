CONSTANTS
    Numbers = {3, 70000}
    TimeNumbers = {7, 625}
    MaxOffers = 2
    MaxNpt = 2
    MaxSeparators = 6
SPECIFICATION Spec
INVARIANTS TypeOK OffersKept TransportSet RangeUnderstood UriSplit
CHECK_DEADLOCK FALSE
