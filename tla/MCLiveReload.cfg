\* One tab, a burst of two changes.
SPECIFICATION LiveReloadSpec
CONSTANTS
    Page = {t1}
    MaxChanges = 2
    MaxConnects = 2
\* The preview ends when it is stopped.
CHECK_DEADLOCK FALSE
INVARIANT
    ConnectedPagesAreCurrent
