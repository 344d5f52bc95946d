\* The fsync of a directory may fail, nothing else goes wrong.
CONSTANTS
    N = 2
    MaxCalls = 3
    MaxEdits = 0
    MaxCrashes = 0
    IoFaults = {"sync"}
SPECIFICATION Spec
INVARIANT ChangedMeansRolledBack
\* The environment may stop calling.
CHECK_DEADLOCK FALSE
