\* A HEAD that leaves a commit and comes back to it.
SPECIFICATION HistSpec
CONSTANTS
    Caller = {c1, c2}
    BeadSet = {b1, b2}
    MaxHead = 2
    MaxMoves = 2
    HeadReturns = TRUE
    MaxEntries = 1
CHECK_DEADLOCK FALSE
INVARIANT
    CachedHistoryMatchesKey
