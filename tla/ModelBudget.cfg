\* The budgets are small enough to run out in every layer: two schema attempts,
\* four phases, and fewer files than the workspace holds.
CONSTANTS
    MAX_MODEL_REQUESTS = 6
    MAX_TOOL_EXECUTIONS = 4
    MAX_FILES_READ = 2
    MaxPhases = 4
    NFiles = 3
    MaxCalls = 2
SPECIFICATION Spec
INVARIANT TypeOK
INVARIANT LimitsKept
INVARIANT RequestsAccounted
INVARIANT InspectionAccounted
INVARIANT LimitMeansSpent
INVARIANT TranscriptsNumbered
PROPERTY PhaseEnds
PROPERTY PhasesAdvance
PROPERTY KeepsBudget
\* A Run really stops: it ends, or nobody resumes it.
CHECK_DEADLOCK FALSE
