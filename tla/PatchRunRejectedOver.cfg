\* Checkpoints lag behind, and the process crashes once.
CONSTANTS
    MAX_REPAIR_ATTEMPTS = 2
    MaxLag = 2
    Failures = FALSE
    MaxCrashes = 1
    MaxEdits = 0
SPECIFICATION Spec
PROPERTY RejectedIsOver
\* A Run that is over, or that no command can resume, stops.
CHECK_DEADLOCK FALSE
