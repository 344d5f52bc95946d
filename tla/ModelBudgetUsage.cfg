\* A tool turn, then a failure of the operating system below a tool.
CONSTANTS
    MAX_MODEL_REQUESTS = 4
    MAX_TOOL_EXECUTIONS = 2
    MAX_FILES_READ = 1
    MaxPhases = 2
    NFiles = 2
    MaxCalls = 1
SPECIFICATION Spec
INVARIANT ModelFailureCarriesUsage
\* A Run really stops: it ends, or nobody resumes it.
CHECK_DEADLOCK FALSE
