CONSTANTS
  Goroutine = {1, 2}
  Content = {a, b, bad}
  Unreadable = bad
  Recipe = {r}
  MaxChanges = 2
  MaxRequests = 0
  MaxTimeouts = 1
  maxRecoveries = 1
  WatcherFaults = FALSE
  Resignals = FALSE
  Phase2Pending = {FALSE}
  Waiter = {1}
  FirstWaiter = 1
  BrUpdates = FALSE
SPECIFICATION UISpec
INVARIANTS RecoverableErrorRecovers
SYMMETRY Symmetry
CHECK_DEADLOCK FALSE
