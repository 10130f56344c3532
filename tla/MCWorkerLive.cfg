\* The worker with one stall and one write; under the UI with two stalls.
CONSTANTS
  Goroutine = {1, 2}
  Content = {a, bad}
  Unreadable = bad
  Recipe = {r}
  MaxChanges = 1
  MaxRequests = 0
  MaxTimeouts = 2
  maxRecoveries = 1
  WatcherFaults = TRUE
  Resignals = FALSE
  Phase2Pending = {TRUE}
  Waiter = {1}
  FirstWaiter = 1
  BrUpdates = FALSE
SPECIFICATION LiveSpec
CHECK_DEADLOCK FALSE
PROPERTIES AloneCatchesUp AloneStopCompletes GivingUpIsSeen
