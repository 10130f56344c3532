\* Three runs of bv for the lock; two runs of the watcher in either mode; an older
\* and a newer bv on AGENTS.md; three updates and rollbacks with four faults; two
\* calls on the history caches.
SPECIFICATION FilesFairSpec
CONSTANTS
    Proc = {p1, p2, p3}
    NoProc = NoProc
    IOFaults = TRUE
    Modes = {"fsnotify", "poll"}
    MaxWrites = 2
    MaxRemoves = 1
    MaxStarts = 2
    Writers = {"old", "new"}
    Version <- Versions
    Edits = {"e1"}
    MaxInodes = 5
    MaxFaults = 4
    MaxRuns = 3
    Caller = {c1, c2}
    BeadSet = {b1, b2}
    MaxHead = 2
    MaxMoves = 2
    HeadReturns = FALSE
    MaxEntries = 1
\* Every part ends when its bounds run out or its processes have ended.
CHECK_DEADLOCK FALSE
INVARIANTS
    FilesTypeOK
    OnePrimaryUntilTakeover
    CleanExitLeavesNoLock
    AgentsFileSurvives
    UpdatesKeepTheirWord
    HistoryIsCachedTruly
PROPERTIES
    StaleLockRecovered
    Contract
    ChangeIsSignalled
    NoDowngrade
    CallsEnd
