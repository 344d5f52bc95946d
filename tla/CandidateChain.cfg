\* Two attempts at three files, one more than may change: the second changes a file
\* back, again, or another one.  A third text is neither read nor proposed.
CONSTANTS
    MAX_REPAIR_ATTEMPTS = 2
    MAX_FILES_CHANGED = 2
    NFiles = 3
    NTexts = 3
    Editable = {1, 2, 3}
    MaxEdits = 1
    MaxCrashes = 1
SPECIFICATION Spec
INVARIANT TypeOK
INVARIANT CumulativeIsAggregate
INVARIANT CumulativeFromFirst
INVARIANT CumulativeIsListed
INVARIANT ShownIsApplied
PROPERTY NothingUnreadIsLost
\* A Run really ends.
CHECK_DEADLOCK FALSE
