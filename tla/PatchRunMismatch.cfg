\* A crash and an edit after a patch was applied.
CONSTANTS
    MAX_REPAIR_ATTEMPTS = 2
    MaxLag = 1
    Failures = FALSE
    MaxCrashes = 1
    MaxEdits = 1
SPECIFICATION Spec
INVARIANT MismatchIsReported
\* A Run that is over, or that no command can resume, stops.
CHECK_DEADLOCK FALSE
