\* Edits and crashes, but every system call succeeds.
CONSTANTS
    N = 3
    MaxCalls = 3
    MaxEdits = 2
    MaxCrashes = 2
    IoFaults = {}
SPECIFICATION Spec
INVARIANT TypeOK
INVARIANT ChangedMeansRolledBack
INVARIANT ChangedMeansEdited
INVARIANT ReplayAgrees
\* The environment may stop calling.
CHECK_DEADLOCK FALSE
