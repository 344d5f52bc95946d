\* A crash between the two halves of the ledger, nothing else goes wrong.
CONSTANTS
    N = 2
    MaxCalls = 3
    MaxEdits = 0
    MaxCrashes = 1
    IoFaults = {}
SPECIFICATION Spec
INVARIANT AllAfterProceeds
\* The environment may stop calling.
CHECK_DEADLOCK FALSE
