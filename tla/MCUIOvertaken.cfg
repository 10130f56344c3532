CONSTANTS
  Goroutine = {1, 2}
  Content = {a, b, bad}
  Unreadable = bad
  Recipe = {r}
  MaxChanges = 1
  MaxRequests = 1
  MaxTimeouts = 0
  maxRecoveries = 1
  WatcherFaults = FALSE
  Resignals = FALSE
  Phase2Pending = {FALSE}
  Waiter = {1}
  FirstWaiter = 1
  BrUpdates = FALSE
SPECIFICATION UISpec
INVARIANTS RefreshReachesScreen
SYMMETRY Symmetry
CHECK_DEADLOCK FALSE
