\* Three datasets and one press of ctrl+s.
SPECIFICATION IndexSpec
CONSTANTS
    Issues = {c1, c2}
    MaxDatasets = 3
    MaxToggles = 1
    MaxFailures = 0
CHECK_DEADLOCK FALSE
INVARIANT
    FileIsNewestAccepted
