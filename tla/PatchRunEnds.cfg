\* A node may run while one checkpoint is in flight, storage fails, the process crashes twice.
CONSTANTS
    MAX_REPAIR_ATTEMPTS = 2
    MaxLag = 1
    Failures = TRUE
    MaxCrashes = 2
    MaxEdits = 0
SPECIFICATION Spec
PROPERTY CommandsEnd
\* A Run that is over, or that no command can resume, stops.
CHECK_DEADLOCK FALSE
