\* One issue that exists and one created here; two sessions, so that one replaces the other.
\* Three issues to plan with two blockers and two parents each, parked or not, candidates or
\* not; four in a graph.
SPECIFICATION IssuesSpec
CONSTANTS
    NoIssue = NoIssue
    NoFile = NoFile
    NoSession = NoSession
    Garbled = Garbled
    Issues = {"a", "n"}
    Existing = {"a"}
    Fields = {"title", "labels"}
    Values = {0, 1}
    Empty = 0
    MaxSaves = 2
    MaxAgentWrites = 1
    MaxBrFailures = 1
    MaxSessions = 2
    MaxId = 3
    MaxPerKind = 2
    MaxDependencies = 4
    MaxNode = 4
    MaxTreeId = 4
    Forests <- Shapes
    Heights = {2, 3}
    MaxRebuilds = 1
\* The bounds run out, every session may have ended, and an analysis is done once.
CHECK_DEADLOCK FALSE
INVARIANTS
    IssuesTypeOK
    EditsAreTheHumans
    PlansAreTrue
    MetricsAreExact
    TreeIsSound
PROPERTIES
    DeletesOnlyUnchangedStub
    SavesAreApplied
    SelectionIsKept
