\* A crash after an approval, nothing else goes wrong.
CONSTANTS
    MAX_REPAIR_ATTEMPTS = 2
    MaxLag = 1
    Failures = FALSE
    MaxCrashes = 1
    MaxEdits = 0
SPECIFICATION Spec
PROPERTY RejectLeavesWorkspace
\* A Run that is over, or that no command can resume, stops.
CHECK_DEADLOCK FALSE
