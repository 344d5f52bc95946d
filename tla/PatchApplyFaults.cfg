\* Any system call may fail.
CONSTANTS
    N = 2
    MaxCalls = 3
    MaxEdits = 2
    MaxCrashes = 1
    IoFaults = {"write", "sync", "ledger"}
SPECIFICATION Spec
INVARIANT PreimagesBeforeWrites
INVARIANT SuccessMeansAllAfter
PROPERTY CompletedLedgerIsFinal
PROPERTY EditsLostOnlyInWindow
PROPERTY CallsEnd
PROPERTY CallsAdvance
PROPERTY KeepsContract
\* The environment may stop calling.
CHECK_DEADLOCK FALSE
