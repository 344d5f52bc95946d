---------------------------- MODULE ModelBudget ----------------------------
(***************************************************************************)
(* What the model phases of one Patch Run spend, and what the Run records  *)
(* of it.  A phase (create_plan, create_candidate, create_diagnosis) asks  *)
(* for a typed output (model_output.py) at most twice; each time the Gemini*)
(* gateway (gemini.py) sends requests until the model stops calling tools, *)
(* retrying transient failures; the tools (inspection.py) claim their      *)
(* executions and the files they read.  Three budgets are shared by all    *)
(* the layers and all the phases, and each layer adds what it has consumed *)
(* to the error or the result it hands to the layer above.                 *)
(*                                                                         *)
(* The phases follow one another; between two of them the Run does other   *)
(* things (PatchRun), none of which touches these counters.                *)
(***************************************************************************)
EXTENDS Integers, Sequences, FiniteSets

CONSTANTS
    MAX_MODEL_REQUESTS, MAX_TOOL_EXECUTIONS, MAX_FILES_READ,
    MaxPhases,  \* phases of a Run: a Plan, and a Candidate and a Diagnosis per attempt
    NFiles,     \* visible files of the Run Workspace, numbered in path order
    MaxCalls    \* bound: tool calls in one turn of the model

ASSUME LimitsAssumption ==
    /\ MAX_MODEL_REQUESTS \in Nat \ {0}
    /\ MAX_TOOL_EXECUTIONS \in Nat /\ MAX_FILES_READ \in Nat
ASSUME SizesAssumption == MaxPhases \in Nat /\ NFiles \in Nat /\ MaxCalls \in Nat \ {0}

VARIABLES
    \* The checkpointed state of the Run
    used, toolsUsed, filesRead,     \* model_requests, tool_executions, files_read
    phase,                          \* phases entered so far
    cause,                          \* why the Run ended, "none" while it goes on
    \* The phase in progress
    pc,
    reqs,       \* request_typed_output: requests of the earlier schema attempts
    schema,     \* request_typed_output: schema attempts that were invalid
    requests,   \* _run: requests of the earlier turns of this schema attempt
    consumed,   \* _request_with_retry: requests of this turn
    answer,     \* what the last request came back with
    calls,      \* tool calls of this turn still to execute
    tools, files,                   \* the phase's WorkspaceInspector
    result,     \* what the node is about to record
    \* Observability, read by no guard
    sent,       \* requests that reached the provider
    log,        \* request numbers of the transcripts written
    ran,        \* tool executions
    shown       \* files whose content was given to the model

recorded == <<used, toolsUsed, filesRead, phase, cause>>
layers   == <<reqs, schema, requests, consumed, answer, calls>>
inspect  == <<tools, files>>
seen     == <<sent, log, ran, shown>>
vars     == <<recorded, pc, layers, inspect, result, seen>>

-----------------------------------------------------------------------------
Files   == 1 .. NFiles
Answers == {"none", "calls", "output", "neither", "transient", "permanent"}

\* How an error names what ended the phase.  "escaped" stands for an exception
\* that no layer below request_typed_output knows.
Limits  == {"limit_requests", "limit_tools", "limit_files"}
Causes  == Limits \cup {"invalid", "provider", "transcript", "escaped", "storage"}

Usages  == [why : Causes \cup {"none"}, model_requests : 0 .. MAX_MODEL_REQUESTS,
            tool_executions : 0 .. MAX_TOOL_EXECUTIONS, files_read : SUBSET Files]
NoUsage == [why |-> "none", model_requests |-> 0, tool_executions |-> 0, files_read |-> {}]

Working == {"schema", "turn", "send", "record", "tools", "validate", "persist"}
Points  == Working \cup {"ready", "persisted", "failed", "died", "ended"}

TypeOK ==
    /\ used \in 0 .. MAX_MODEL_REQUESTS
    /\ toolsUsed \in 0 .. MAX_TOOL_EXECUTIONS
    /\ filesRead \subseteq Files /\ files \subseteq Files /\ shown \subseteq Files
    /\ phase \in 0 .. MaxPhases
    /\ cause \in Causes \cup {"none"}
    /\ pc \in Points
    /\ reqs \in 0 .. MAX_MODEL_REQUESTS /\ requests \in 0 .. MAX_MODEL_REQUESTS
    /\ schema \in 0 .. 1
    /\ consumed \in 0 .. 3
    /\ answer \in Answers
    /\ calls \in 0 .. MaxCalls
    /\ tools \in 0 .. MAX_TOOL_EXECUTIONS
    /\ result \in Usages
    /\ sent \in Nat /\ ran \in Nat
    /\ log \in Seq(Nat)

Init ==
    /\ used = 0 /\ toolsUsed = 0 /\ filesRead = {} /\ phase = 0 /\ cause = "none"
    /\ pc = "ready"
    /\ reqs = 0 /\ schema = 0 /\ requests = 0 /\ consumed = 0 /\ answer = "none" /\ calls = 0
    /\ tools = 0 /\ files = {}
    /\ result = NoUsage
    /\ sent = 0 /\ log = <<>> /\ ran = 0 /\ shown = {}

-----------------------------------------------------------------------------
(* The budgets, as the layers compute what is left of them. *)

\* Mutants: the requests of the earlier schema attempts are forgotten, or one
\* request is kept in reserve.
AllowanceOfPhase    == MAX_MODEL_REQUESTS - used
AllowanceReserved   == IF used + reqs >= MAX_MODEL_REQUESTS - 1 THEN 0
                       ELSE MAX_MODEL_REQUESTS - 1 - used - reqs

\* request_typed_output: remaining, the allowance of _run.
Allowance == MAX_MODEL_REQUESTS - used - reqs

\* Mutant: four requests a turn, whatever the Run may still spend.
MaxTriesUnbounded == 4

\* _request_with_retry: requests it may send for one turn.
MaxTries == IF Allowance - requests < 3 THEN Allowance - requests ELSE 3

\* Mutant: the numbers start again with each schema attempt.
RequestNumberOfAttempt == requests + consumed

\* _request_with_retry: request_offset + consumed.
RequestNumber == MAX_MODEL_REQUESTS - Allowance + requests + consumed

ToolBudgetLeft == toolsUsed + tools < MAX_TOOL_EXECUTIONS

\* Files claimed in this phase or an earlier one are free.
Known == filesRead \cup files

\* _claim_file_read for each file of S: all of them fit in the budget.
Fits(S)    == Cardinality(Known \cup S) <= MAX_FILES_READ
\* The files of S fit and use it up; the claim of f after them is refused.
Refuses(S, f) == Cardinality(Known \cup S) = MAX_FILES_READ /\ f \notin Known \cup S

-----------------------------------------------------------------------------
(* How a phase ends: what the node hands to the checkpoint. *)

NoLayers ==
    /\ reqs' = 0 /\ schema' = 0 /\ requests' = 0 /\ consumed' = 0
    /\ answer' = "none" /\ calls' = 0
    /\ tools' = 0 /\ files' = {}

\* The error reached the node with n requests; record_inspection has added
\* what the phase's inspector had counted: t executions and the files fs.
Stop(why, n, t, fs) ==
    /\ pc' = "failed"
    /\ result' = [why |-> why, model_requests |-> n, tool_executions |-> t, files_read |-> fs]
    /\ NoLayers
    /\ UNCHANGED recorded

\* Mutant: an error leaves the inspector's counters behind.
FailUncounted(why, n) == Stop(why, n, 0, {})

Fail(why, n) == Stop(why, n, tools, files)

\* except (OSError, RuntimeError): _infrastructure_failure has no counters.
FailStorage == Stop("storage", 0, 0, {})

-----------------------------------------------------------------------------
(* create_once and the graph nodes around it *)

StartPhase ==
    /\ pc = "ready" /\ phase < MaxPhases
    /\ phase' = phase + 1
    /\ pc' = "schema"
    /\ UNCHANGED <<used, toolsUsed, filesRead, cause, layers, inspect, result, seen>>

\* The ledger cannot be claimed, or an artifact the phase builds on not loaded.
RefusePhase == pc = "schema" /\ reqs = 0 /\ schema = 0 /\ FailStorage /\ UNCHANGED seen

\* The artifact carries the phase's counters and its ledger is completed last.
Persist ==
    /\ pc = "persist"
    /\ pc' = "persisted"
    /\ result' = [why |-> "none", model_requests |-> reqs, tool_executions |-> tools,
                  files_read |-> files]
    /\ NoLayers
    /\ UNCHANGED <<recorded, seen>>

PersistFails == pc = "persist" /\ FailStorage /\ UNCHANGED seen

\* _validate_and_diff refuses the patch with an error no node handles: the
\* command fails, and with it what it knew of the phase.
RefuseOutput ==
    /\ pc = "persist" /\ phase > 1
    /\ pc' = "died"
    /\ NoLayers
    /\ UNCHANGED <<recorded, result, seen>>

\* Mutant: a later phase overwrites the counter, as the first one may.
RecordPhaseAssigning == used' = result.model_requests

\* create_plan assigns what the later phases add to.
RecordPhase ==
    IF phase = 1 /\ result.why = "none"
    THEN used' = result.model_requests
    ELSE used' = used + result.model_requests

RecordInspection ==
    IF phase = 1 /\ result.why = "none"
    THEN toolsUsed' = result.tool_executions /\ filesRead' = result.files_read
    ELSE /\ toolsUsed' = toolsUsed + result.tool_executions
         /\ filesRead' = filesRead \cup result.files_read

Checkpoint ==
    /\ pc \in {"persisted", "failed"}
    /\ RecordPhase /\ RecordInspection
    /\ cause' = result.why
    /\ pc' = IF result.why = "none" THEN "ready" ELSE "ended"
    /\ result' = NoUsage
    /\ UNCHANGED <<phase, layers, inspect, seen>>

\* The process dies.  A completed ledger still has the phase's counters; of
\* everything else only the claimed ledger is left.
Crash ==
    /\ pc \in Working \cup {"failed"}
    /\ pc' = "died"
    /\ NoLayers
    /\ result' = NoUsage
    /\ UNCHANGED <<recorded, seen>>

\* The next command finds the ledger claimed and incomplete, and does not ask
\* the model again.
Resume == pc = "died" /\ FailStorage /\ UNCHANGED seen

-----------------------------------------------------------------------------
(* request_typed_output *)

Ask ==
    /\ pc = "schema" /\ Allowance > 0
    /\ pc' = "turn"
    /\ UNCHANGED <<recorded, layers, inspect, result, seen>>

AskRefused == pc = "schema" /\ Allowance <= 0 /\ Fail("limit_requests", reqs) /\ UNCHANGED seen

Accept ==
    /\ pc = "validate"
    /\ pc' = "persist"
    /\ UNCHANGED <<recorded, layers, inspect, result, seen>>

Correct ==
    /\ pc = "validate" /\ schema = 0
    /\ schema' = 1
    /\ pc' = "schema"
    /\ UNCHANGED <<recorded, reqs, requests, consumed, answer, calls, inspect, result, seen>>

GiveUp == pc = "validate" /\ schema = 1 /\ Fail("invalid", reqs) /\ UNCHANGED seen

-----------------------------------------------------------------------------
(* GeminiModelGateway._run *)

BeginTurn ==
    /\ pc = "turn" /\ requests < Allowance
    /\ pc' = "send"
    /\ UNCHANGED <<recorded, layers, inspect, result, seen>>

OutOfTurns ==
    /\ pc = "turn" /\ requests >= Allowance
    /\ Fail("limit_requests", reqs + requests)
    /\ UNCHANGED seen

\* _request_with_retry: the request is counted before it is sent.
Send ==
    /\ pc = "send"
    /\ consumed' = consumed + 1
    /\ sent' = sent + 1
    /\ answer' \in Answers \ {"none"}
    /\ pc' = "record"
    /\ UNCHANGED <<recorded, reqs, schema, requests, calls, inspect, result, log, ran, shown>>

\* generate raises something else than a provider error: no layer has put its
\* count on it, and request_typed_output takes it for one request.
SendEscapes ==
    /\ pc = "send"
    /\ sent' = sent + 1
    /\ Fail("escaped", reqs + 1)
    /\ UNCHANGED <<log, ran, shown>>

\* Mutant: a transcript that fails reports the requests of its own turn only.
RecordFailsShort ==
    pc = "record" /\ Fail("transcript", reqs + consumed) /\ UNCHANGED seen

RecordFails ==
    pc = "record" /\ Fail("transcript", reqs + requests + consumed) /\ UNCHANGED seen

WriteTranscript ==
    /\ pc = "record"
    /\ log' = Append(log, RequestNumber)
    /\ UNCHANGED <<sent, ran, shown>>

\* Backoff, then the same request again.
Retry ==
    /\ WriteTranscript
    /\ answer = "transient" /\ consumed < MaxTries
    /\ answer' = "none"
    /\ pc' = "send"
    /\ UNCHANGED <<recorded, reqs, schema, requests, consumed, calls, inspect, result>>

\* Mutant: the last failure neither raises nor may be followed by a retry.
ExhaustedLate == consumed > MaxTries

Exhausted == consumed >= MaxTries

\* The provider stays unavailable, refuses, or answers nothing usable.
Unavailable ==
    /\ WriteTranscript
    /\ \/ answer \in {"permanent", "neither"}
       \/ answer = "transient" /\ Exhausted
    /\ Fail("provider", reqs + requests + consumed)

CallsArrive ==
    /\ WriteTranscript
    /\ answer = "calls"
    /\ requests' = requests + consumed
    /\ consumed' = 0 /\ answer' = "none"
    /\ calls' \in 1 .. MaxCalls
    /\ pc' = "tools"
    /\ UNCHANGED <<recorded, reqs, schema, inspect, result>>

OutputArrives ==
    /\ WriteTranscript
    /\ answer = "output"
    /\ reqs' = reqs + requests + consumed
    /\ requests' = 0 /\ consumed' = 0 /\ answer' = "none"
    /\ pc' = "validate"
    /\ UNCHANGED <<recorded, schema, calls, inspect, result>>

EndTurn ==
    /\ pc = "tools" /\ calls = 0
    /\ pc' = "turn"
    /\ UNCHANGED <<recorded, layers, inspect, result, seen>>

-----------------------------------------------------------------------------
(* _execute_tool and the WorkspaceInspector *)

\* One call ends, its claims made: t executions and the files S, of which D
\* were given to the model.
Executed(t, S, D) ==
    /\ pc = "tools" /\ calls > 0
    /\ calls' = calls - 1
    /\ tools' = tools + t /\ ran' = ran + t
    /\ files' = files \cup (S \ filesRead)
    /\ shown' = shown \cup D
    /\ UNCHANGED <<recorded, pc, reqs, schema, requests, consumed, answer, result, sent, log>>

\* One call breaks the phase off, its claims made.
Broken(why, n, t, S) ==
    /\ pc = "tools" /\ calls > 0
    /\ Stop(why, n, tools + t, files \cup (S \ filesRead))
    /\ ran' = ran + t
    /\ UNCHANGED <<sent, log, shown>>

\* A tool that does not exist counts for nothing, and the model is told.
UnknownTool == Executed(0, {}, {})

\* Every other call claims an execution before anything else.
ToolRefused == ~ToolBudgetLeft /\ Broken("limit_tools", reqs + requests, 0, {})

\* A listing, or a call whose arguments are refused before any file is claimed.
NoFileCall == ToolBudgetLeft /\ Executed(1, {}, {})

\* read_file claims the file, then reads it; it may turn out not to be text.
ReadFile ==
    /\ ToolBudgetLeft
    /\ \E f \in Files :
          \/ /\ Fits({f})
             /\ Executed(1, {f}, {f}) \/ Executed(1, {f}, {})
          \/ Refuses({}, f) /\ Broken("limit_files", reqs + requests, 1, {})

\* search_code claims the visible files in path order, skips those that are
\* not text, and stops early when its output is full.
SearchCode ==
    /\ ToolBudgetLeft
    /\ \E k \in 0 .. NFiles :
          \/ Fits(1 .. k) /\ \E D \in SUBSET (1 .. k) : Executed(1, 1 .. k, D)
          \/ /\ k < NFiles /\ Refuses(1 .. k, k + 1)
             /\ Broken("limit_files", reqs + requests, 1, 1 .. k)

\* The operating system fails below a tool: _run hands only the run limits and
\* the provider errors its own count.
ToolEscapes ==
    /\ ToolBudgetLeft
    /\ \E k \in 0 .. NFiles, f \in Files :
          \E S \in {{}, {f}, 1 .. k} : Fits(S) /\ Broken("escaped", reqs + 1, 1, S)

-----------------------------------------------------------------------------
Host  == Persist \/ RefuseOutput \/ Checkpoint
Typed == Ask \/ AskRefused \/ Accept \/ Correct \/ GiveUp
Turn  == BeginTurn \/ OutOfTurns \/ Send \/ Retry \/ Unavailable \/ CallsArrive
         \/ OutputArrives \/ EndTurn
Tool  == UnknownTool \/ ToolRefused \/ NoFileCall \/ ReadFile \/ SearchCode
Work  == Host \/ Typed \/ Turn \/ Tool
Fault == RefusePhase \/ PersistFails \/ SendEscapes \/ RecordFails \/ ToolEscapes \/ Crash
Next  == StartPhase \/ Work \/ Fault \/ Resume

\* A command works its phase off: the provider answers or fails, and no layer
\* waits for anything else.  No fault is owed, and nobody has to resume a Run.
Spec == Init /\ [][Next]_vars /\ WF_vars(Work)

-----------------------------------------------------------------------------
(* Properties *)

\* The Run as it is recorded between phases and at its end.
Settled    == pc \in {"ready", "ended"}
Accounted  == cause \notin {"escaped", "storage"}

\* However phases, corrections, tool turns and retries share what is left, the
\* Run never sends more requests than its limit allows (limits.py
\* MAX_MODEL_REQUESTS; design.md: each retry counts).  The tool and file limits
\* hold for the Run as a whole too, across the inspectors of its phases, and so
\* the model is given the content of no more files.
LimitsKept ==
    /\ sent <= MAX_MODEL_REQUESTS
    /\ ran <= MAX_TOOL_EXECUTIONS
    /\ Cardinality(filesRead \cup files \cup result.files_read) <= MAX_FILES_READ
    /\ Cardinality(shown) <= MAX_FILES_READ

\* "Carry actual usage": whatever layer a phase ended in, the Run records
\* exactly the requests that were sent, and only a failure that reaches the
\* node without its counters (storage, a crash, an unknown exception) may
\* record fewer.
RequestsAccounted ==
    /\ Settled /\ Accounted => used = sent
    /\ Settled => used <= sent

\* The same for the inspector's counters, which even an unknown exception
\* carries: executions are recorded as they ran, and every file whose content
\* the model was given is in files_read.
InspectionAccounted ==
    Settled /\ cause # "storage" => toolsUsed = ran /\ shown \subseteq filesRead

\* A Run that is ended for a limit has really used that limit up.
LimitMeansSpent ==
    pc = "ended" =>
        /\ cause = "limit_requests" => sent = MAX_MODEL_REQUESTS
        /\ cause = "limit_tools" => ran = MAX_TOOL_EXECUTIONS
        /\ cause = "limit_files" => Cardinality(filesRead) = MAX_FILES_READ

\* The transcripts of a Run number its requests one after the other, across
\* retries, turns, corrections and phases, and miss at most the last one.
TranscriptsNumbered ==
    /\ \A n \in DOMAIN log : log[n] = n
    /\ sent \in Len(log) .. Len(log) + 1

\* Every phase ends: the model cannot keep a command busy by calling tools,
\* answering nonsense or failing, and the retry loop "must return or raise"
\* (gemini.py:439).  A process that dies ends the phase too.
PhaseEnds == (pc \in Working) ~> (pc \notin Working)

\* The requests the Run may still send, and a bound on what a phase does before the
\* next one.
RequestsLeft == MAX_MODEL_REQUESTS - used - reqs - requests - consumed
StepsLeft ==
    CASE pc = "persist"  -> 0
      [] pc = "send"     -> 1
      [] pc = "turn"     -> 2
      [] pc = "schema"   -> 3
      [] pc = "validate" -> 4
      [] pc = "tools"    -> 3 + calls
      [] pc = "record"   -> 4 + MaxCalls

Fewer(n, m) == n \in 0 .. m - 1

\* Only what a phase has left of the requests keeps it going: each of its steps
\* ends it, uses up a request, or comes nearer to one, whatever the model answers
\* and the tools return.
PhasesAdvance ==
    [][(pc \in Working /\ pc' \in Working) =>
         \/ Fewer(RequestsLeft', RequestsLeft)
         \/ UNCHANGED RequestsLeft /\ Fewer(StepsLeft', StepsLeft)]_vars

\* The Run implements the request budget it promises.
Budget == INSTANCE RequestBudget WITH
    Ceiling <- MAX_MODEL_REQUESTS, spent <- sent, billed <- used, closed <- pc = "ended"
KeepsBudget == Budget!Spec

\* model_output.py:33 "Carry actual usage when model infrastructure fails
\* before typed output exists": a Run that ends with ModelInvocationError has
\* recorded the requests it sent.
ModelFailureCarriesUsage ==
    pc = "ended" /\ cause \in {"provider", "transcript", "escaped"} => used = sent
=============================================================================
