# PatchCodeAgent: models, checks and proofs

PatchCodeAgent repairs a fixture repository in an isolated Run Workspace: it
reproduces an Issue, asks a language model for a Plan and a Candidate Patch,
waits at an Approval Gate for a human, applies the approved patch, verifies it,
and retries with a Diagnosis up to three times. Its own difficulty is not the
repair but the promise that a Patch Run survives the end, or the crash, of every
process that works on it: "resumable" (`docs/adr/0002`), "replay-safe"
(`docs/adr/0012`). That promise is what these modules are about. Paths below
are relative to `src/src/patch_code_agent/` unless they start with `docs/`.

## The system

| Component | State it keeps | Operations | Interacts through |
|---|---|---|---|
| Patch Run graph (`graph.py`, `state.py`) | the checkpointed `RunState`: status, attempt, decision, usage, references | ten nodes, six conditional routes | calls every component below; its update goes to LangGraph's checkpointer |
| Commands (`application.py`, `cli.py`) | none; reads the latest checkpoint | `run`, `approve`, `reject`, `status` | start or resume the graph, flush and close the database |
| Patch application (`patching.py`) | the Run Workspace; `apply.json`, `.apply-complete`, `preimages.json`, `.preimages-complete` | `apply_once`, `persist_cumulative_diff` | called by `apply_candidate`, `repair_verification`; shares the workspace with whoever edits it |
| Replay ledgers of the model phases (`planning.py`, `candidate.py`, `diagnosis.py`) | an artifact and a claim or completion file per phase and attempt | `create_once` | ask the model through `model_output.py` |
| Verification (`verification.py`) | result, log, claim and completion files | `BaselineVerifier.verify`, `RepairVerifier.verify` | runs a subprocess in the workspace |
| Run Events and Run Report (`reporting.py`) | `events.jsonl`, `report.json`, `.report-complete` | `append_event`, `finalize` | called around every node, and by `finalize_report` |
| Typed output and request budget (`model_output.py`, `limits.py`) | counters passed in and out | `request_typed_output` | the three model phases |
| Gemini gateway (`gemini.py`) | transcripts | `_run`, `_request_with_retry` | `request_typed_output`, the inspector |
| Inspection (`inspection.py`) | tools and files claimed | `list_files`, `read_file`, `search_code` | model turns, `apply_once`'s reads |
| Workspaces, sources, fixtures, data types | none after start-up | creation, validation | `run` |

What is hard in it, and what makes each part correct:

* **Crashes between two writes.** Each node writes a ledger, an event and a
  checkpoint, in this order, each durable at another time, and several ledgers
  are pairs of files. A replay must neither repeat a side effect nor contradict
  what is on disk; a report must agree with the checkpoint and with the log.
* **A checkpoint older than the disk.** LangGraph's default durability writes
  checkpoints while the next nodes run, so a new process may start several
  nodes behind the artifacts, even before a decision that was carried out.
  A decision should be final, and no patch be written that was not approved.
* **Somebody else's edits** (a person's, or of a process that a Verification left
  behind) between classification, hash check and rename. An
  approved patch must apply to what was approved, success must be true of the
  disk, and what was replaced must be rolled back if the patch is given up.
* **Steps that fail one by one:** a rename, an fsync, a ledger write, and the
  rollback itself.
* **Limits shared by layers:** a Run has 8 requests, 20 tool executions and 12
  files to read, spent by three phases, a schema correction, tool turns and
  provider retries; each layer adds its own count to the error it passes on. A
  limit must hold for the Run as a whole, and what the Run records must be what
  it spent.
* **Texts handed from attempt to attempt:** the diff a human approves is rendered
  from reads made earlier, and the diff of the whole Run from preimages written
  by several attempts. Both must be true of the workspace.

`PROJECT.json` lists these hazards one by one, at the line where they bite.

## The modules

| Module | What it is |
|---|---|
| `PatchApply` | `apply_once`, one step per read, check, rename, fsync and ledger write; implements `ApplyContract` |
| `ApplyContract` | the abstract promise of `apply_once` to the graph |
| `PatchApplyProofs`, `PatchApplyAnswers` | its theorems: what is written and when; what the answers are worth |
| `PatchApplyRefinement` | the proof that it implements `ApplyContract` |
| `PatchLifecycle` | the abstract lifecycle of a Patch Run |
| `PatchRun` | the whole Run: commands, nodes, ledgers, events, report, checkpoints; implements `PatchLifecycle` |
| `PatchRunProofs`, `PatchRunOutcomes` | its theorems: side effects and approvals; what a Run says of itself |
| `PatchRunRefinement` | the proof that `PatchRun` implements `PatchLifecycle`; the order of its attempts, the steps a command has left, and what a durable rejection rules out |
| `ModelBudget` | the three model phases' use of the request, tool and file budgets: `request_typed_output`, the Gemini gateway and the inspector; implements `RequestBudget` |
| `RequestBudget` | the abstract promise about paid requests |
| `ModelBudgetProofs` | its theorems, the refinement among them |
| `CandidateChain` | the texts of a Run: reads, candidates, diffs, preimages and the cumulative diff over its attempts |
| `CandidateChainProofs` | its theorems |

`PatchRun` says when a phase is requested and when a candidate is applied;
`ModelBudget`, `CandidateChain` and `PatchApply` each open one of its steps:
what happens inside a request (`AskModel`, `ModelFails`, `PolicyViolated`), what
a candidate says and does to the files (`Persist`, `ApplyAll`, `CumulativeRest`),
and how its files are replaced (`ApplyObserve` to `PersistApplyMark`).

### PatchApply

`ws` is the workspace. A file's content is what `apply_once` can tell apart: the
hash the candidate expects (`before`), the hash of the new content (`after`),
anything else (`other`), or not readable as bounded text (`gone`). `before` and
`after` differ because `_validate_and_diff` refuses a replacement that changes
nothing. The ledger and the preimages have three stages: absent, written without
a valid marker, complete. A marker that was created and not filled fails its
checksum, so it counts as not complete.

One call is a sequence of steps at `pc`: `Call` reads the ledger; `ReadNext`
classifies a file; the `Decide...` actions are the branches after the loop;
`PreimageArtifact` and `PreimageMark` write the preimages; `CheckHash`,
`ReplaceFile`, `SyncDirectory` are `_atomic_replace_text` for one file; the
`Undo...` actions are its use in the rollback; `FinishReplay`, `PersistSummary`,
`PersistMark` are `_finish_apply_check`. `ReplaceFault`, `SyncFault`,
`UndoFault`, `LedgerFault` are failing system calls, enabled by `IoFaults`.
`Edit` changes a file at any moment; `Crash` ends the call at any moment; the
call may then be made again. `touched`, `late`, `written` observe and guard
nothing.

The branch of `_replay_apply_summary` that answers `partial_apply` is not in the
model: the function is called only when every file is `before`.

### ApplyContract

What a caller of `apply_once` may rely on, without hashes, renames and preimages:
while nobody else writes to the workspace, only a call that finds no file replaced and
nothing recorded replaces any; what it records names the files as they are, is
recorded once, and is what every later call answers; half a ledger is
refused. Its actions are those of `PatchRun`'s `Applying` in that case: `Refuse` is
`ApplyRefused`, `Replay` is `ApplyReplay`, `Start` and the two observations are
`ApplyObserve` (with `PersistApply`), `Replace` is `ApplySome` and `ApplyAll`, `Seal`
is `PersistApplyMark`; and those of `CandidateChain`: `Start` is `PersistPreimages`,
`Replace` and `Restore` are `ReplaceFile` and `UndoReplace`. System calls may fail in it: a failing write or fsync turns the call
to restoring (`GiveUp`, `Restore`), any error ends it with what it has done so far
(`Fail`), and a summary may stay half written (`Record`). After somebody's edit
(`disturbed`, which is `edits > 0`) it promises only that a complete ledger is final;
what else holds then is said by the other properties of `PatchApply`.

### PatchRun

A checkpoint is the next node, the status, the attempt, the decision and whether
the last node added to the usage counters. `ckpt` is the last durable one,
`pend` those handed to the checkpointer and not yet durable. `slot` has the
stage of the ledger of every phase and attempt, `found` what a complete one
holds, `effects` counts the requests and verifications started (observation
only). `ws[n]` is how the workspace looks to the candidate of attempt `n`:
`PatchApply` has the file by file account that this summarises.

A node starts at `pc = "node"`, works (`Ledgers`, `Applying`, `Diffs`, `Gate`),
appends its event (`AppendEvent`, or `FinalizeEvent` and the report's actions)
and ends with `Commit`, which hands over the checkpoint. `Flush` makes the
oldest one durable; `Exit` waits for all of them. `RunCommand` and
`ResumeCommand` are the three commands. `Crash` loses the process and what is in
`pend`. Of an application, `ApplySome` and `ApplyAll` replace files, `ApplyRollback`
is one that was given up, and `ApplyUnsynced` one given up because the directory's
`fsync` failed after a rename (`patching.py:299-303`): the file stays replaced, and the
call answers `workspace_changed`, or fails where its rollback meets that file.

`"torn"` is the stage of a file written in place and not yet filled: the
completion files of the baseline and the candidate, the cumulative diff, the
report and its marker. The other ledgers are completed by a rename.
`PolicyViolated` and `ReplayTorn` are the `ValueError`s that no node catches:
they end the command with the ledger as it is.

LangGraph is not part of the source and is modelled from its use: supersteps run
one node; their checkpoints become durable in order, at the latest when the
command returns or raises; a resume value is spent by the first superstep, and
ignored if that is not the gate. The writes of a finished task that LangGraph
saves ahead of the next checkpoint put a later process where that checkpoint
would: saving them is a `Flush`. How many checkpoints may be in flight while a node
runs is not bounded by that durability. `MaxLag` bounds it for TLC and is no
assumption about the code: no passing property rests on a small one, the theorems hold
for every value, and 0 would be the durability `sync`.

One `write` and `fsync` of a line in `events.jsonl` is one step. When it fails, the
line is not there, is there after all, or is there by half (`torn`); a crash may
leave half a line too. `append_event` reads the whole log first, so after that it
fails (`LogUnreadable`). Half a line is one that does not parse: the corner in which
only its final newline is missing, so that the line still parses and the next append
continues it, is not modelled.

Abstractions: error kinds, notes, artifacts' contents and counters' values are left
out. A timeout is one of the `error` verdicts. The
candidate, its checksum and references are taken as unchanged on disk; a
candidate that cannot be loaded is `ApplyRefused`. Commands of one Run are
sequential, as `docs/design.md:199-200` assumes.

### PatchLifecycle

The statuses with the decision of the gate, the attempts, and whether the Run
Report is done: each step is one that a node and its route allow. `PatchRun`
implements it through the durable checkpoint: however many nodes are replayed,
whatever is lost in flight, what `status` shows moves along the lifecycle and
never back.

### ModelBudget and RequestBudget

The checkpointed counters are `used`, `toolsUsed`, `filesRead`. Within a phase
three layers count requests, and each has its variable: `reqs`
(`request_typed_output`: earlier schema attempts), `requests` (`_run`: earlier
turns), `consumed` (`_request_with_retry`: this turn). `tools` and `files` are
what the phase's `WorkspaceInspector` has counted. `sent`, `log`, `ran` and
`shown` observe what really happened: requests that reached the provider, the
numbers of the transcripts, executions, files whose content the model was given.

`StartPhase` enters a node. `Ask`/`AskRefused`, `Accept`, `Correct`, `GiveUp` are
`request_typed_output`; `BeginTurn` to `EndTurn` are `_run` and
`_request_with_retry`; the tool actions are `_execute_tool` with the claims of
`inspection.py`. A phase ends in `Persist` or in `Fail` with the usage the error
carries; `Checkpoint` is the node's update (`_model_failure`,
`_run_limit_reached`, `_invalid_model_output`, or success). Faults: a ledger or
artifact that cannot be written, an exception no layer knows (`SendEscapes`,
`ToolEscapes`), a transcript that cannot be written, a crash. A phase that died is
found claimed by the next command, which refuses it without counters (`Resume`).

Abstractions: the phases follow each other directly; prompts, schemas and the
conversation are data; whether an output is valid is a free choice; a read that
fails is told apart from one that succeeds only by `shown`. A `ValueError` of
`_validate_and_diff` (`RefuseOutput`) comes after the counters were returned, so
it leaves no usage behind. `ScriptedModel` makes at most as many calls and counts
one request per schema attempt; it is the case without turns and retries. The
property text of `files_read` (`inspection.py:109`, "successfully read paths") is
not what it holds: a file is claimed before it is read, and one that turns out to
be binary stays in. `InspectionAccounted` states the direction that matters for
a budget: whatever was shown is in.

`RequestBudget` has three variables: spent, billed, closed. A Run sends while
there is allowance, bills what it has sent, and may bill less only when it
closes.

### CandidateChain

`ws` is the workspace as texts, `source` its first copy. One attempt reads files
(`ReadFile`), proposes replacements (`Propose`: any texts, any claimed hashes),
validates them file by file in path order against the workspace as it then is
(`ValidateFile`, `RefuseFile`, `RefuseContent`), and waits. After the approval
the files are read and classified one by one (`Classify`), the preimages are persisted
(`PersistPreimages`), and each file in turn has its hash checked (`CheckFile`) and is
renamed over (`ReplaceFile`, with the directory's `fsync` that may fail after it); or all
are found replaced (`AlreadyApplied`). A mismatch or a failing system call turns the
call to its rollback, last file first, again a check and a rename each (`UndoCheck`,
`UndoReplace`). `Record` is the completed ledger with the node's update. A passing
Verification leads to `PersistCumulative`; `NextAttempt` is a failing one with
its Diagnosis. `Edit` changes a file between any two of these steps, `Crash` ends the
process in any of them. `first`, `byHand`, `was`, `touched` and `late` observe.

So an edit that falls between the hash check of a file and the rename over it is lost
here as in the code and in `PatchApply`, and what remains on disk then is not what was
shown. `NothingUnreadIsLost` says that this window, of that very file, is the only one;
`ShownIsApplied` speaks of the files that nobody edited in the attempt, at every step: a
rollback, half a rollback, a replay after a crash and an edit of a neighbouring file
leave each of them at what it was or at what was shown.

Abstractions: a SHA-256 stands for the text it was taken of; a hash the model made up
is one text, whichever it is, since every wrong one is refused alike (`Claims`). Files
that are deleted, symbolic links and undecodable texts are left to `PatchApply`'s
`gone`; half a ledger, which every later call refuses, is the end of the Run
(`RecordFails`). A crash resumes at
`apply_candidate`, with `files_changed` of the checkpoint at the gate (`listed`):
only a Run that is pending approval can be resumed; crashes before the gate end
the Run and so say nothing here.

When a candidate was found applied that this program never began to write
(`byHand`, an edit that makes just those changes), the attempt has no preimages
and its files are missing from the cumulative diff. That is what the code does;
`CumulativeFromFirst` excludes it by name, and without edits it cannot happen
(`Untouched` in the proofs).

## The runs

| Run | Instance | Question and answer |
|---|---|---|
| `patch_apply` | 3 files, 3 calls, 2 edits, 2 crashes, no fault | Do summaries agree with what was done, and with each other across calls? Yes (`ChangedMeansRolledBack`, `ChangedMeansEdited`, `ReplayAgrees`) |
| `patch_apply_faults` | 2 files, 3 calls, 2 edits, 1 crash, every fault | Are preimages first, success true, a completed ledger final, edits lost only in the unavoidable window, does every call end, leaving fewer steps with each it takes (`CallsAdvance`), and is `ApplyContract` kept? Yes |
| `patch_apply_sync_fault` | 2 files, only directory fsync fails | Is what was written rolled back? No: the finding below |
| `patch_apply_half_ledger` | 2 files, 1 crash | Does all-after always proceed? No |
| `patch_run` | 2 attempts, lag 3, failures, 1 crash, 1 edit | Is a side effect started once, is every patch, request and success earned, do attempts go in turn, does a durable rejection stand, does a replayed node log what it logged before, does a torn log stop the Run, does each step of a command leave fewer, and is `PatchLifecycle` implemented? Yes |
| `patch_run_ends` | 2 attempts, lag 1, failures, 2 crashes | Does every command end? Yes |
| `patch_run_reject` | 2 attempts, lag 1, 1 crash | Does `reject` leave the workspace alone? No |
| `patch_run_mismatch` | 2 attempts, lag 1, 1 crash, 1 edit | Is a mismatch reported as Workspace Changed? No |
| `patch_run_rejected_over` | 2 attempts, lag 2, 1 crash | Is a rejection final once it is reported? No: it is once its checkpoint is durable (`RejectionStands`) |
| `model_budget` | 4 phases, limits 6/4/2, 3 files, 2 calls a turn, every fault | Does no layer overspend, is what is recorded what was spent, are the transcripts' numbers consecutive, does every phase end, leaving fewer steps with each it takes, and is `RequestBudget` kept? Yes |
| `model_budget_usage` | 2 phases, the same faults | Does a model failure carry the requests it used? No |
| `candidate_chain` | 2 attempts, 3 files of 3 texts, at most 2 changed, 1 edit, 1 crash | Does an unedited file hold what it held or what was shown, is nothing unread overwritten outside the window of one file, and is the cumulative diff that of the whole Run and of `files_changed`? Yes |

**Bounds.** Three files are the code's own maximum per patch (`MAX_FILES_CHANGED`)
and the least for a rollback with a file before, at and after the failing one; two
are enough for a mixture. Three calls let a call find the ledger of one that found
a ledger. Two edits make and unmake a change. Two attempts include one retry, so
the ledgers and artifacts of an earlier attempt are on disk. Lag 2 is the least that
loses a decision and its effect, lag 3 the least that resumes an approval after the
next candidate was begun. In `model_budget` each limit runs out in each layer: six
requests are two turns with a retry each and a correction, or two phases with three;
two files are fewer than a search claims. In `candidate_chain` two attempts can
change a file and change it back or again, a third text is one that was neither read
nor proposed, and three files with two allowed exceed the limit across attempts only
and leave a rollback a file before, at and after the failing one. (The theorems about it
hold for any number of attempts.)

One crash needs two processes; `patch_run_ends` has two crashes and no lag beyond 1,
because no lag adds a step to a command: `CommandsAdvance` is checked with 3 and proved
for every lag. A failing append that
writes the event or half of it is counted as a crash, which it resembles: the event is
on disk and its checkpoint is not, or nothing can follow. The bounds are in the guards
of `Call`, `Edit`, `Crash`, `EventFails`, `Ready`, `StartPhase` (a Run has 7 phases at
most) and `CallsArrive`, and nowhere else. Deadlock is not checked because a Run that
is over, or that no command accepts, is meant to stop.

**Fairness.** `WF_vars(Step)` only (`WF_vars(Work)` in `ModelBudget`, whose faults
are not among the fair actions): a sequential process that has begun a call or a
command keeps executing it. Nothing is assumed of users, edits, crashes or
commands. `Step` offers more than one alternative (a fault, a flush), and fairness
chooses none: a run of `Step`s must end whatever they are.

Each property has a mutant in `PROJECT.json`: a plausible mistake in one mapped
definition under which TLC finds the property violated in the same run.

## What the runs found

Six sentences of the documentation are not true of the code. Each has a run that
shows how.

1. *A write error is rolled back* (`docs/design.md:198`). If the directory's
   `fsync` fails after the rename, the file just replaced is not in the list the
   rollback visits (`patching.py:146-157`, `299-303`).
2. *All after: the earlier execution is complete, proceed* (`docs/design.md:194`,
   `docs/adr/0012`). A crash between `apply.json` and `.apply-complete` makes every
   later call refuse before it looks at the files (`patching.py:81-85`).
3. *Reject does not modify the workspace* (`cli.py:426`, `README.md:39`). After a
   crash in `apply_candidate` the status is still `pending_approval`; `reject`
   resumes there and writes the patch (`application.py:313-320`).
4. *A mismatch is Workspace Changed* (`docs/design.md:195`, `CONTEXT.md:128`). If
   the apply event of a lost checkpoint says `testing`, the replay's event is
   refused and the command raises at every retry (`reporting.py:166-167`).
5. *A rejected Run has ended* (`CONTEXT.md:115`). When the checkpoints after a
   rejection are lost, the Run is at the gate again although its report says
   rejected, and an approval is carried out (`graph.py:322-330`). LangGraph's default
   durability allows it; only from the durable checkpoint of the decision on does the
   rejection stand.
6. *Carry actual usage when model infrastructure fails* (`model_output.py:33`). An
   exception that carries no count of its own is taken for one request
   (`model_output.py:82`); the requests of earlier turns are lost, because `_run`
   adds them only to an exception that has a count (`gemini.py:331-332`).

## What is proved

All theorems hold for every value of the constants that satisfies the modules'
assumptions: at least one file or attempt, natural bounds, any set of faults.

`PatchApplyProofs` (from `NAssumption`, `BoundAssumption`, `FaultAssumption`):

* `TypeCorrect`: `Spec => []TypeOK`
* `WriteAhead`: `Spec => []PreimagesBeforeWrites`
* `SuccessIsTrue`: `Spec => []SuccessMeansAllAfter`
* `AppliedAtMostOnce`: `Spec => CompletedLedgerIsFinal`

The inductive invariant is `IInv`, five parts proved by one lemma each with a step
for every action. `IndexInv` keeps `i` within the files except at the rollback's
end, which the typing of `ws[i]` needs. `LogInv` says that the points before the
preimages have written nothing and the points after them have complete ones.
`AfterInv` carries success: the files before `i` are `after` unless touched, and
so is every file once a success is drafted. `LedgerInv` ties the call's
`persisted` to the ledger: a call that found none still sees none, and a call at a
writing step found none, so a completed ledger and a write exclude each other.

`PatchApplyAnswers` (same assumptions, and what each theorem says of `IoFaults`):

* `EditsSeen`: `Spec => EditsLostOnlyInWindow`, under every fault
* `RepeatedCallsAgree`: `Spec => []ReplayAgrees`, under every fault
* `BlameIsEarned`: `Spec => []ChangedMeansEdited`, if at most ledger writes fail
* `RollbackIsComplete`: `Spec => []ChangedMeansRolledBack`, if no directory fsync
  fails (with such a failure it is false: finding 1)
* `CallsGoForward`: `Spec => CallsAdvance`, under every fault

The first four strengthen `IInv` by an invariant each. `AgreeInv` says that a complete
ledger of a success speaks of the files as they are, and so does what a call that
found it has classified, which is what makes two calls agree. `QuietInv` describes a
workspace nobody edited at every point of the call, the rollback included: `i` says
which files are `after`, and a rollback leaves at most the one whose fsync failed
(`Stray`). `BlameInv` excludes with it the branches that blame an edit. `UndoInv`
bounds the replaced files by `i` on the way up and on the way down, so none is left
when the rollback ends.

`CallsAdvance` is what `CallsEnd` rests on, and the part of it that the prover can
check: a number, `StepsLeft`, that every step of the call makes smaller, so that a loop
that goes back once too often would break it.

`PatchApplyRefinement` (same assumptions, no condition on `IoFaults`):

* `ContractIsKept`: `Spec => KeepsContract`

The earlier invariants settle all of the contract but what is recorded. `DraftInv`
adds that a summary about to be recorded is true: it names the files as they are, or
it blames an edit and at most one file is left replaced. A step with an edit behind
it needs only `LedgerInv`; every other step of the program, the rollback's and the
failing ones among them, is shown to be one step of the contract or a stutter.

`PatchRunProofs` (from `AttemptsAssumption`, `BoundAssumption`,
`FailuresAssumption`):

* `SideEffectsAtMostOnce`: `Spec => []SideEffectsOnce`
* `ApprovedBeforeWritten`: `Spec => WritesNeedApproval`

Neither property is inductive: a command may start from any checkpoint that ever
became durable. `CheckpointInv` therefore says of the durable checkpoint, of every
one in flight and of the current state that it is `Sound`: its node may be run
from it, an attempt is left, and if it is `apply_candidate` the log holds the
approval (events are never removed). `EffectInv` says that an unclaimed ledger has
no side effect and that work goes on only under a claim made for it. `PointInv`
gives each point its nodes, `TypingInv` the types this needs. TLC checked each
`IInv` before it was proved.

`PatchRunOutcomes` (same assumptions):

* `RunTyped`, `RequestsEarned`, `SucceededEarned`, `CommandsSettled`, `EndReported`,
  `ReplaysAgreed`: the invariants `TypeOK`, `RequestsAreEarned`, `SucceededIsEarned`,
  `CommandsSettle`, `EndedMeansReported` and `ReplaysAgree` of the run `patch_run`
* `TornLogStopped`: `Spec => TornLogStops`

A process may start from any checkpoint that was ever in flight, so it is not
enough that the current state is justified. `EarnedInv` says that each of them is:
the durable one, those in flight, the one in memory and the one a node has just
produced. `Grow` is why that survives: complete ledgers keep their result and no
event is removed, so what justified a checkpoint once still does (`EarnedStays`).
`FoundInv` gives a complete ledger the results its phase can have, `SettledInv`
relates the exit of a command to the last checkpoint handed over, `EndInv` the
final checkpoint to the report and the number of events.

`ReplaysAgreed` says what a replayed node may tell the log. An event is determined by
its key and the ledgers alone (`Determined`): a node that is run again finds its ledger
complete, and what a complete ledger holds does not change. `EventInv` keeps this for
every event in the log and for the one about to be appended; `ApplyLedgerInv` and
`PlacedInv` supply what the ledgers and the nodes' own states contribute. The exceptions
the property names are real: a node that failed once may succeed when it is run again,
and all rejections of a Run share one key (`graph.py:612`), so that of a second
candidate contradicts a first one whose checkpoint was lost.

`TornInv` is the argument for a log with half a line: no node gets past it, so the
decision a command gave stays unspent, and no command ends at the gate.

`PatchRunRefinement` (same assumptions):

* `ImplementsLifecycle`: `Spec => FollowsLifecycle`
* `AttemptsGoInTurn`: `Spec => AttemptsInTurn`
* `CommandsGoForward`: `Spec => CommandsAdvance`
* `RejectionIsDurable`: `Spec => RejectionStands`, for any number of checkpoints in
  flight

The durable checkpoint moves when the oldest one in flight is flushed, long after
the node that produced it. `ChainInv` therefore says that any two neighbours among
the durable one, those in flight, the current state and the state just produced
are one step of the lifecycle apart (`Follows`); `PhaseInv` says that each is at a
phase the lifecycle knows.

The other three theorems use that chain. `TurnInv` says of each checkpoint that all
attempts before its own were approved, failed and were diagnosed; a step of the
lifecycle hands this on, and what is on disk cannot be taken back. `CommandsAdvance`
bounds the steps of a command by the nodes that the lifecycle still has ahead
(`Ahead`) and the points of a node (`Place`), so the cycle through `create_diagnosis`
cannot go on for ever. `RejectionStands` needs two facts. Only the gate records a
decision and a rejection routes past it, so a checkpoint that carries one is late: at
`reject_candidate` or beyond (`RejectInv`). What follows a late checkpoint is late
(`LateStep`), so once the durable one is, so are those in flight and the node that runs
(`OnwardInv`), and no late node writes. The property is about the durable checkpoint
because a report is not enough: it may be on disk while every checkpoint behind it is
still in flight.

`ModelBudgetProofs` (from `LimitsAssumption`, `SizesAssumption`):

* `BudgetTyped`, `LimitsAreKept`, `UsageIsActual`,
  `InspectionIsActual`, `LimitsAreReal`, `NumbersAreOrdinals`: the invariants of the
  run `model_budget`, for every limit
* `BudgetIsKept`: `Spec => KeepsBudget`, the refinement of `RequestBudget`
* `PhasesGoForward`: `Spec => PhasesAdvance`, what `PhaseEnds` rests on: within a phase
  only a request leaves more to do, and it is one of those the Run had left

Its `IInv` is one bookkeeping equation with its cases: while a phase works, `sent
= used + reqs + requests + consumed`; at every other point the result about to be
recorded takes the place of the layers. `Layers` says which of them are zero
where, and what the guards of the loops leave of the allowance. `StopStep` proves
once, for whatever layer ended a phase, that it is enough that the error's counters
are right; each failing action then only shows that they are.

`CandidateChainProofs` (from `ChainAssumption`):

* `ChainTyped`, `DiffIsAggregate`, `DiffStartsFromFirst`, `DiffIsListed`:
  `Spec => []Inv` of the run `candidate_chain`
* `ApprovedDiffIsDone`, `ReadBeforeReplaced`: `Spec => ShownIsApplied` and
  `Spec => NothingUnreadIsLost`

The crux is `Firsts`: of each file, the text recorded first is the preimage of the
first attempt that has one, which is what `setdefault` selects
(`PreimageIsFirst`). `Listing` follows files from preimages to `files_changed`
through a crash that forgets them, and `Untouched` says that without edits a file
nobody set out to replace is the one that was copied.

`Kept` carries `ShownIsApplied`: at each point, what every file that nobody edited in the
attempt holds, by what was classified and by which files the call has replaced so far
(`Calling` says that these are files of the candidate, and none outside a call). `Window` carries `NothingUnreadIsLost`: between a check and its rename
the file is what the check found, unless it was edited since (`late`).

**Only model-checked:** `CallsEnd`, `CommandsEnd` and `PhaseEnds`: liveness is out of
the prover's reach here. That each step leaves fewer is a theorem for each of the
three; what stays with TLC is that, until the end, some step is always enabled, and
that fairness then takes it. Every safety property of a passing run is also a theorem.

## Not modelled

* The provider's transport and SDK, prompts, and the JSON of transcripts: I/O.
* How `inspection.py` resolves, hides and decodes files, and how a diff is laid out
  as text: file system and formatting; a model of them would restate the library.
* Manifests, path syntax and fixtures (`sources.py`, `fixtures/`), and copying and
  hashing a tree (`workspace.py`): stateless validation or I/O at start-up.
* The data types of `model.py` and its `ScriptedModel`, a deterministic substitute
  used by tests and the offline demo.
* The status view and everything printed; the subprocess of a Verification.

## Plan

Done: `PatchApply` with `ApplyContract` under every fault, `PatchRun` with
`PatchLifecycle` and half-written events, `ModelBudget` with `RequestBudget` and the
inspection budget, `CandidateChain`, and the theorems above. What could be added next:
a proof that a command that has begun always has a step it can take, in the form of an
invariant that names it, and the composition of `PatchApply` with `PatchRun` proved
from `ApplyContract` rather than by the correspondence of their actions given above.
