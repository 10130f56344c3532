\* Two more revisions of the file and one key of the user for the reload; two lookups
\* of two issues with one expired health result; three datasets, three presses of
\* ctrl+s and one failure for the index; one tab, which reconnects once or is there
\* for a second change of the bundle.
SPECIFICATION ServicesFairSpec
CONSTANTS
    MaxWrites = 2
    MaxSpurious = 0
    MaxKeys = 1
    Bead = {b1, b2}
    Request = {r1, r2}
    MaxData = 2
    MaxExpiries = 1
    Strategies = 1
    Issues = {c1, c2}
    MaxDatasets = 3
    MaxToggles = 3
    MaxFailures = 1
    Stopper = {s1, s2}
    Page = {t1}
    MaxChanges = 2
    MaxConnects = 2
\* Every service ends when its bounds run out.
CHECK_DEADLOCK FALSE
INVARIANTS
    ServicesTypeOK
    IndexIsOfLoadedIssues
    NoSendOnClosed
    ShownTogether
PROPERTIES
    LookupsAnswerTheirBead
    NothingGoesBack
    DataArrive
    PreviewsEnd
