\* One recovery, or two writes of the file; in both one request of the user.  Two
\* views, windows or inputs open at a time for the keys.
SPECIFICATION ScopesSpec
CONSTANTS
    Goroutine = {1, 2, 3}
    Content = {a, b, bad}
    Unreadable = bad
    Recipe = {r, s}
    MaxChanges = 2
    MaxRequests = 1
    MaxTimeouts = 1
    maxRecoveries = 1
    WatcherFaults = TRUE
    Resignals = FALSE
    Phase2Pending = {TRUE, FALSE}
    Waiter = {1, 2}
    FirstWaiter = 1
    BrUpdates = TRUE
    MaxOn = 2
    MaxEscs = 5
SYMMETRY Symmetry
\* The bounds run out and the program may have ended.
CHECK_DEADLOCK FALSE
INVARIANTS
    UITypeOK
    WaiterChainAlive
    OneBuilder
    NoRefreshLost
    StoppedStaysDown
    LatestShownUnlessOvertakenOrFenced
    KeysAreRouted
    EscLeadsOut
PROPERTIES
    ShownNeverOlder
    SnapshotNeverOlder
