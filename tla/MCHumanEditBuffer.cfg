\* One session on one issue whose br update fails.
SPECIFICATION EditSpec
CONSTANTS
    NoIssue = NoIssue
    NoFile = NoFile
    NoSession = NoSession
    Garbled = Garbled
    Issues = {"a"}
    Existing = {"a"}
    Fields = {"title", "repo"}
    Values = {0, 1}
    Empty = 0
    MaxSaves = 2
    MaxAgentWrites = 0
    MaxBrFailures = 1
    MaxSessions = 1
\* The bounds run out and every session may have ended.
CHECK_DEADLOCK FALSE
INVARIANT
    FailedBufferIsSaved
