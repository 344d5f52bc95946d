\* Checkpoints lag behind, storage fails, the process crashes, the workspace is edited.
CONSTANTS
    MAX_REPAIR_ATTEMPTS = 2
    MaxLag = 3
    Failures = TRUE
    MaxCrashes = 1
    MaxEdits = 1
SPECIFICATION Spec
INVARIANT TypeOK
INVARIANT SideEffectsOnce
INVARIANT RequestsAreEarned
INVARIANT SucceededIsEarned
INVARIANT CommandsSettle
INVARIANT EndedMeansReported
INVARIANT ReplaysAgree
PROPERTY WritesNeedApproval
PROPERTY AttemptsInTurn
PROPERTY RejectionStands
PROPERTY TornLogStops
PROPERTY FollowsLifecycle
PROPERTY CommandsAdvance
\* A Run that is over, or that no command can resume, stops.
CHECK_DEADLOCK FALSE
