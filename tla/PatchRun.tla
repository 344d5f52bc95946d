------------------------------ MODULE PatchRun ------------------------------
(***************************************************************************)
(* One Patch Run: the graph of graph.py executed node by node by the       *)
(* commands run, approve and reject (application.py), its Run Artifacts,   *)
(* its Run Events and Run Report (reporting.py), and the checkpoints that  *)
(* let a later process continue where an earlier one stopped or crashed.   *)
(*                                                                         *)
(* A node claims its replay ledger, does its side effect, completes the    *)
(* ledger, appends its Run Event, and only then hands its update to the    *)
(* checkpointer, which makes it durable some time later.  A crash may fall *)
(* between any two of these steps, and the commands of the next process    *)
(* start again from the last durable checkpoint.                           *)
(*                                                                         *)
(* Applying a candidate is abstracted to what one workspace looks like to  *)
(* one candidate: PatchApply has the file by file account.                 *)
(***************************************************************************)
EXTENDS Naturals, Sequences, FiniteSets

CONSTANTS
    MAX_REPAIR_ATTEMPTS,
    MaxLag,     \* bound: checkpoints in flight while a node runs; the code has none
    Failures,   \* whether storage may fail and run limits may refuse a patch
    MaxCrashes, \* bound: crashes of the process and appends that fail half way
    MaxEdits    \* bound: edits made behind the program's back

ASSUME AttemptsAssumption == MAX_REPAIR_ATTEMPTS \in Nat \ {0}
ASSUME FailuresAssumption == Failures \in BOOLEAN
ASSUME BoundAssumption == MaxLag \in Nat /\ MaxCrashes \in Nat /\ MaxEdits \in Nat

VARIABLES
    \* Durable state
    ckpt,       \* the last durable checkpoint: next node and control state
    slot,       \* replay ledgers: <<phase, attempt>> -> stage
    found,      \* what a complete ledger holds
    cumulative, \* cumulative.diff
    ws,         \* how the workspace looks to the candidate of each attempt
    events,     \* events.jsonl
    torn,       \* whether its last line is only half there
    report,     \* report.json / .report-complete
    \* The process
    pc,         \* where the process is within a node
    mem,        \* the state the current node was given
    upd,        \* the state it is about to produce
    got,        \* the result it is about to persist
    pend,       \* checkpoints handed to the checkpointer, not yet durable
    command,    \* the command being executed
    resume,     \* the decision it gave, until the first node ends
    exit,       \* how the last command ended
    crashes, edits,
    \* Observability, read by no guard
    effects     \* model requests and verifications started, by slot

durable == <<ckpt, slot, found, cumulative, ws, events, torn, report>>
process == <<pc, mem, upd, got, pend, command, resume, exit>>
vars    == <<durable, process, crashes, edits, effects>>

-----------------------------------------------------------------------------
Attempts == 1 .. MAX_REPAIR_ATTEMPTS
Slots    == ({"baseline", "plan"} \X {0})
            \cup ({"candidate", "apply", "verification", "diagnosis"} \X Attempts)
Stages   == {"none", "claimed", "torn", "complete"}
Views    == {"before", "mixed", "after", "other"}

Nodes    == {"validate_input", "baseline_verification", "create_plan", "create_candidate",
             "approval_gate", "reject_candidate", "apply_candidate", "repair_verification",
             "create_diagnosis", "finalize_report", "END"}
Terminal == {"succeeded", "rejected", "issue_not_reproduced", "attempts_exhausted",
             "workspace_changed", "error"}
Statuses == Terminal \cup {"none", "created", "validated", "baseline_failed", "planned",
             "pending_approval", "testing", "diagnosing", "diagnosed"}
Decisions == {"none", "approve", "reject"}
Usages    == {"same", "added"}

\* The usage counters are abstracted to whether the last node added to them:
\* append_event compares them when a node is replayed.
Checkpoints == [node : Nodes, status : Statuses, attempt : 0 .. MAX_REPAIR_ATTEMPTS,
                decision : Decisions, usage : Usages]

Verdicts == {"passed", "failed", "error"}
Applied  == {"applied", "already_applied"}
Results  == Verdicts \cup Applied \cup {"workspace_changed", "partial_apply", "typed", "none"}

\* No checkpoint has been written for the Run yet.
Fresh == [node |-> "validate_input", status |-> "none", attempt |-> 0, decision |-> "none",
          usage |-> "same"]
NoReport == [stage |-> "none", status |-> "none", attempt |-> 0, events |-> 0]

Init ==
    /\ ckpt = Fresh
    /\ slot = [s \in Slots |-> "none"] /\ found = [s \in Slots |-> "none"]
    /\ cumulative = "none" /\ ws = [n \in Attempts |-> "before"]
    /\ events = {} /\ torn = FALSE /\ report = NoReport
    /\ pc = "idle" /\ mem = Fresh /\ upd = Fresh /\ got = "none" /\ pend = << >>
    /\ command = "none" /\ resume = "none" /\ exit = "none"
    /\ crashes = 0 /\ edits = 0
    /\ effects = [s \in Slots |-> 0]

-----------------------------------------------------------------------------
(* The state a node produces, and the node graph.py routes it to *)

Moved(node, status) == [mem EXCEPT !.node = node, !.status = status, !.usage = "same"]
Using(c, u)    == [c EXCEPT !.usage = u]
Ended(status)  == Moved("finalize_report", status)
Errored        == Ended("error")    \* _infrastructure_failure, _model_failure and the like

\* Mutant: planning starts whatever the baseline says.
AfterBaselineIgnored(o) == Moved("create_plan", "baseline_failed")
AfterBaseline(o) ==
    CASE o = "failed" -> Moved("create_plan", "baseline_failed")
      [] o = "passed" -> Ended("issue_not_reproduced")
      [] OTHER        -> Errored

AfterPlan == [Moved("create_candidate", "planned") EXCEPT !.attempt = 0]
AfterCandidate == Moved("approval_gate", "pending_approval")

\* Mutant: a changed workspace is tried again.
AfterApplyRetries(o) ==
    IF o \in Applied THEN Moved("repair_verification", "testing")
                     ELSE Moved("apply_candidate", "pending_approval")
AfterApply(o) ==
    CASE o \in Applied           -> Moved("repair_verification", "testing")
      [] o = "workspace_changed" -> Ended("workspace_changed")
      [] OTHER                   -> Errored

Verified(c) == [c EXCEPT !.attempt = mem.attempt + 1]
\* Mutant: whatever is not a failing test counts as a pass.
AfterVerificationLenient(o) ==
    Verified(IF o = "failed" THEN Moved("create_diagnosis", "diagnosing")
                             ELSE Ended("succeeded"))
\* Mutant: an execution that gave no verdict counts as a failing test.
AfterVerificationAny(o) ==
    Verified(IF o = "passed" THEN Ended("succeeded")
                             ELSE Moved("create_diagnosis", "diagnosing"))
AfterVerification(o) ==
    Verified(CASE o = "failed" -> Moved("create_diagnosis", "diagnosing")
               [] o = "passed" -> Ended("succeeded")
               [] OTHER        -> Errored)

\* Mutant: one Repair Attempt too few.
AfterDiagnosisEarly ==
    IF mem.attempt + 1 >= MAX_REPAIR_ATTEMPTS
    THEN Ended("attempts_exhausted")
    ELSE Moved("create_candidate", "diagnosed")
AfterDiagnosis ==
    IF mem.attempt >= MAX_REPAIR_ATTEMPTS
    THEN Ended("attempts_exhausted")
    ELSE Moved("create_candidate", "diagnosed")

\* The update of the current node once its ledger holds o.
After(o) ==
    CASE mem.node = "baseline_verification" -> AfterBaseline(o)
      [] mem.node = "create_plan"           -> Using(AfterPlan, "added")
      [] mem.node = "create_candidate"      -> Using(AfterCandidate, "added")
      [] mem.node = "repair_verification"   -> AfterVerification(o)
      [] OTHER                              -> Using(AfterDiagnosis, "added")

\* The attempt the current node works on, and the ledger it claims.
Attempt == IF mem.node = "create_diagnosis" THEN mem.attempt ELSE mem.attempt + 1
Slot ==
    CASE mem.node = "baseline_verification" -> <<"baseline", 0>>
      [] mem.node = "create_plan"           -> <<"plan", 0>>
      [] mem.node = "create_candidate"      -> <<"candidate", Attempt>>
      [] mem.node = "apply_candidate"       -> <<"apply", Attempt>>
      [] mem.node = "repair_verification"   -> <<"verification", Attempt>>
      [] OTHER                              -> <<"diagnosis", Attempt>>

Verifying == {"baseline_verification", "repair_verification"}
Modelling == {"create_plan", "create_candidate", "create_diagnosis"}
Claiming  == Verifying \cup Modelling

\* Nodes that complete their ledger by writing its last file in place, which a
\* crash can leave created and empty; the others rename it into place.
InPlace   == {"baseline_verification", "create_candidate"}

-----------------------------------------------------------------------------
(* Steps shared by the nodes *)

\* The process is about to run its node, or the node n.
Ready     == pc = "node" /\ Len(pend) <= MaxLag
AtNode(n) == Ready /\ mem.node = n

\* The node's work is done: its event comes next.
Produce(c) == pc' = "event" /\ upd' = c /\ UNCHANGED <<mem, got, pend, command, resume, exit>>
Goto(p)    == pc' = p /\ UNCHANGED <<mem, upd, got, pend, command, resume, exit>>
Hold(p, o) == pc' = p /\ got' = o /\ UNCHANGED <<mem, upd, pend, command, resume, exit>>

\* The command ends: the checkpoints in flight are flushed first.
Leave(how) == pc' = "exit" /\ exit' = how /\ UNCHANGED <<mem, upd, got, pend, command, resume>>

\* What Run Events are identified by (build_graph's keys, and finalize's).
EventKey ==
    LET after == mem.attempt + 1 IN
    CASE mem.node = "approval_gate"    -> <<"approval", after, upd.decision>>
      [] mem.node = "finalize_report"  -> <<"finalized", 0, mem.status>>
      [] mem.node = "create_diagnosis" -> <<mem.node, mem.attempt, "">>
      [] mem.node \in {"create_candidate", "apply_candidate", "repair_verification"}
                                       -> <<mem.node, after, "">>
      [] OTHER                         -> <<mem.node, 0, "">>

Event(c) == [key |-> EventKey, status |-> c.status, attempt |-> c.attempt, usage |-> c.usage]
Keys == {e.key : e \in events}

\* append_event: an event already there must be this very event.
Refused(e) == e.key \in Keys /\ e \notin events
Append1(e) == events' = IF e.key \in Keys THEN events ELSE events \cup {e}

NoWork == UNCHANGED <<slot, found, cumulative, ws, events, torn, report, effects>>
NoEnv  == UNCHANGED <<crashes, edits>>

-----------------------------------------------------------------------------
(* Nodes without a ledger *)

ValidateInput ==
    /\ AtNode("validate_input")
    /\ Produce(Moved("baseline_verification", "validated"))
    /\ NoWork /\ NoEnv /\ UNCHANGED ckpt

\* Without a decision the gate interrupts and the command ends.
Interrupt ==
    /\ AtNode("approval_gate") /\ resume = "none"
    /\ Leave("ok")
    /\ NoWork /\ NoEnv /\ UNCHANGED ckpt

\* Mutant: both decisions lead to the same node.
AfterApprovalAny(d) == "apply_candidate"
AfterApproval(d) == IF d = "approve" THEN "apply_candidate" ELSE "reject_candidate"

AwaitApproval ==
    /\ AtNode("approval_gate") /\ resume # "none"
    /\ Produce([mem EXCEPT !.decision = resume, !.node = AfterApproval(resume)])
    /\ NoWork /\ NoEnv /\ UNCHANGED ckpt

RejectCandidate ==
    /\ AtNode("reject_candidate")
    /\ Produce(Ended("rejected"))
    /\ NoWork /\ NoEnv /\ UNCHANGED ckpt

-----------------------------------------------------------------------------
(* create_once and verify: claim the ledger, do the side effect, complete it *)

\* Mutant: an incomplete ledger is claimed again.
ClaimableAgain(stage) == stage # "complete"
Claimable(stage) == stage = "none"

Claim ==
    /\ Ready /\ mem.node \in Claiming
    /\ Claimable(slot[Slot])
    /\ slot' = [slot EXCEPT ![Slot] = "claimed"]
    /\ Goto("work")
    /\ NoEnv /\ UNCHANGED <<ckpt, found, cumulative, ws, events, torn, report, effects>>

\* "... incomplete replay ledger; refusing": the side effect is not repeated,
\* and its usage is not known any more.
RefuseClaimed ==
    /\ Ready /\ mem.node \in Claiming
    /\ slot[Slot] = "claimed"
    /\ Produce(Errored)
    /\ NoWork /\ NoEnv /\ UNCHANGED ckpt

\* The half-written file does not parse: a ValueError, which no node catches.
ReplayTorn ==
    /\ Ready /\ mem.node \in Claiming
    /\ slot[Slot] = "torn"
    /\ Leave("raised")
    /\ NoWork /\ NoEnv /\ UNCHANGED ckpt

\* A passing Repair Attempt has its cumulative diff written before the node ends.
Conclude(o) ==
    IF mem.node = "repair_verification" /\ o = "passed" THEN Goto("cumulative")
                                                        ELSE Produce(After(o))

ReplayComplete ==
    /\ Ready /\ mem.node \in Claiming
    /\ slot[Slot] = "complete"
    /\ Conclude(found[Slot])
    /\ NoWork /\ NoEnv /\ UNCHANGED ckpt

Started == effects' = [effects EXCEPT ![Slot] = @ + 1]

Verify ==
    /\ pc = "work" /\ mem.node \in Verifying
    /\ \E o \in Verdicts : Hold("persist", o)
    /\ Started
    /\ NoEnv /\ UNCHANGED durable

\* The model answers with valid typed output.
AskModel ==
    /\ pc = "work" /\ mem.node \in Modelling
    /\ Hold("persist", "typed")
    /\ Started
    /\ NoEnv /\ UNCHANGED durable

\* Provider failure, invalid output twice, or a run limit, which may refuse the
\* first request already: the ledger stays claimed, the usage is recorded.
ModelFails ==
    /\ pc = "work" /\ mem.node \in Modelling
    /\ \E u \in Usages : Produce(Using(Errored, u))
    /\ Started
    /\ NoEnv /\ UNCHANGED durable

\* The inspection policy, or _validate_and_diff, raises a ValueError, which no
\* node catches.
PolicyViolated ==
    /\ pc = "work" /\ mem.node \in Modelling
    /\ Leave("raised")
    /\ Started
    /\ NoEnv /\ UNCHANGED durable

PersistStart ==
    /\ pc = "persist" /\ mem.node \in InPlace
    /\ slot' = [slot EXCEPT ![Slot] = "torn"]
    /\ Goto("persist_rest")
    /\ NoEnv /\ UNCHANGED <<ckpt, found, cumulative, ws, events, torn, report, effects>>

\* A new candidate is written against the workspace as it is.
Persist ==
    /\ \/ pc = "persist_rest"
       \/ pc = "persist" /\ mem.node \in Claiming \ InPlace
    /\ slot' = [slot EXCEPT ![Slot] = "complete"]
    /\ found' = [found EXCEPT ![Slot] = got]
    /\ ws' = IF mem.node = "create_candidate" THEN [ws EXCEPT ![Attempt] = "before"] ELSE ws
    /\ Conclude(got)
    /\ NoEnv /\ UNCHANGED <<ckpt, cumulative, events, torn, report, effects>>

\* The artifact or its marker cannot be written.
PersistFails ==
    /\ Failures /\ pc \in {"persist", "persist_rest", "persist_apply", "persist_mark"}
    /\ Produce(Errored)
    /\ NoWork /\ NoEnv /\ UNCHANGED ckpt

\* persist_cumulative_diff: an existing diff must be this one; a new one is not
\* written atomically.
CumulativeWrite ==
    /\ pc = "cumulative" /\ cumulative = "none"
    /\ cumulative' = "torn"
    /\ Goto("cumulative_rest")
    /\ NoEnv /\ UNCHANGED <<ckpt, slot, found, ws, events, torn, report, effects>>

CumulativeRest ==
    /\ pc = "cumulative_rest"
    /\ cumulative' = ws[Attempt]
    /\ Produce(After("passed"))
    /\ NoEnv /\ UNCHANGED <<ckpt, slot, found, ws, events, torn, report, effects>>

CumulativeReplay ==
    /\ pc = "cumulative" /\ cumulative # "none"
    /\ Produce(IF cumulative = ws[Attempt] THEN After("passed") ELSE Verified(Errored))
    /\ NoWork /\ NoEnv /\ UNCHANGED ckpt

CumulativeFails ==
    /\ Failures /\ pc \in {"cumulative", "cumulative_rest"}
    /\ Produce(Verified(Errored))
    /\ NoWork /\ NoEnv /\ UNCHANGED ckpt

-----------------------------------------------------------------------------
(* apply_candidate; PatchApply has apply_once in full *)

View == ws[Attempt]
Look(v) == ws' = [ws EXCEPT ![Attempt] = v]

\* Mutant: the summary names the state, not the outcome.
ObservationRaw == View
Observation ==
    CASE View = "other" -> "workspace_changed"
      [] View = "mixed" -> "partial_apply"
      [] View = "after" -> "already_applied"
      [] OTHER          -> "none"

\* What a call answers that finds the summary p in a complete ledger.
\* Mutant: the files are compared with the hashes from before the candidate.
ReconciledBlames(p) == IF View = "before" THEN p ELSE "workspace_changed"
Reconciled(p) ==
    CASE p \notin Applied \/ View = "after" -> p
      [] p \in Applied /\ View = "mixed"      -> "partial_apply"
      [] OTHER                                -> "workspace_changed"

\* The ledger has only one of its halves; or, counted among the Failures, the
\* preimages have, the candidate cannot be loaded or changes too many files.
ApplyRefused ==
    /\ AtNode("apply_candidate") /\ (Failures \/ slot[Slot] = "claimed")
    /\ Produce(Errored)
    /\ NoWork /\ NoEnv /\ UNCHANGED ckpt

ApplyReplay ==
    /\ AtNode("apply_candidate") /\ slot[Slot] = "complete"
    /\ Produce(AfterApply(Reconciled(found[Slot])))
    /\ NoWork /\ NoEnv /\ UNCHANGED ckpt

ApplyObserve ==
    /\ AtNode("apply_candidate") /\ slot[Slot] = "none"
    /\ IF View = "before" THEN Goto("write") ELSE Hold("persist_apply", Observation)
    /\ NoWork /\ NoEnv /\ UNCHANGED ckpt

\* One file is replaced, others are not yet.
ApplySome ==
    /\ pc = "write" /\ View = "before"
    /\ Look("mixed")
    /\ Goto("write_rest")
    /\ NoEnv /\ UNCHANGED <<ckpt, slot, found, cumulative, events, torn, report, effects>>

ApplyAll ==
    /\ \/ pc = "write" /\ View = "before"
       \/ pc = "write_rest" /\ View = "mixed"
    /\ Look("after")
    /\ Hold("persist_apply", "applied")
    /\ NoEnv /\ UNCHANGED <<ckpt, slot, found, cumulative, events, torn, report, effects>>

\* A file changed since it was read, or a write failed: what was replaced is
\* rolled back, and the call answers workspace_changed unless that fails too.
ApplyRollback ==
    /\ \/ pc \in {"write", "write_rest"} /\ Failures
       \/ pc = "write" /\ View # "before"
       \/ pc = "write_rest" /\ View # "mixed"
    /\ ws' \in {ws, [ws EXCEPT ![Attempt] = IF @ = "mixed" THEN "before" ELSE @]}
    /\ Hold("persist_apply", "workspace_changed") \/ Produce(Errored)
    /\ NoEnv /\ UNCHANGED <<ckpt, slot, found, cumulative, events, torn, report, effects>>

\* The directory's fsync fails after a rename: the file replaced is not in the list a
\* rollback visits, and stays.
ApplyUnsynced ==
    /\ Failures
    /\ \/ /\ pc = "write" /\ View = "before"
          /\ Look("mixed") \/ Look("after")
          /\ Hold("persist_apply", "workspace_changed")
       \/ /\ pc = "write_rest" /\ View = "mixed"
          /\ Look("after") /\ Produce(Errored)
    /\ NoEnv /\ UNCHANGED <<ckpt, slot, found, cumulative, events, torn, report, effects>>

PersistApply ==
    /\ pc = "persist_apply"
    /\ slot' = [slot EXCEPT ![Slot] = "claimed"]
    /\ Goto("persist_mark")
    /\ NoEnv /\ UNCHANGED <<ckpt, found, cumulative, ws, events, torn, report, effects>>

PersistApplyMark ==
    /\ pc = "persist_mark"
    /\ slot' = [slot EXCEPT ![Slot] = "complete"]
    /\ found' = [found EXCEPT ![Slot] = got]
    /\ Produce(AfterApply(got))
    /\ NoEnv /\ UNCHANGED <<ckpt, cumulative, ws, events, torn, report, effects>>

-----------------------------------------------------------------------------
(* _audit_transition, finalize_report and the checkpointer *)

\* append_event reads every line before it appends.
\* Mutant: it skips a line it cannot parse.
SkipsTorn == TRUE
Readable == ~torn

\* Where an event is appended, and the state it is taken from.
Appending == pc = "event" \/ AtNode("finalize_report")
Appended  == IF pc = "event" THEN upd ELSE mem

\* The event of a finished node; one that contradicts the log is not caught.
AppendEvent ==
    /\ pc = "event" /\ Readable
    /\ IF Refused(Event(upd))
       THEN Leave("contradicted") /\ UNCHANGED events
       ELSE Goto("commit") /\ Append1(Event(upd))
    /\ NoEnv /\ UNCHANGED <<ckpt, slot, found, cumulative, ws, torn, report, effects>>

FinalizeEvent ==
    /\ AtNode("finalize_report") /\ Readable
    /\ IF Refused(Event(mem))
       THEN Leave("contradicted") /\ UNCHANGED events
       ELSE Goto("report") /\ Append1(Event(mem))
    /\ NoEnv /\ UNCHANGED <<ckpt, slot, found, cumulative, ws, torn, report, effects>>

\* A half-written line does not parse: a ValueError, which no node catches.
LogUnreadable ==
    /\ Appending /\ ~Readable
    /\ Leave("raised")
    /\ NoWork /\ NoEnv /\ UNCHANGED ckpt

\* events.jsonl cannot be written, and no node catches the OSError: the line is not
\* there, or it is and only its fsync failed, or half of it is there.
EventFails ==
    /\ Failures /\ Appending /\ Readable
    /\ Leave("raised")
    /\ \/ UNCHANGED <<events, torn, crashes>>
       \/ /\ EventKey \notin Keys
          /\ crashes < MaxCrashes /\ crashes' = crashes + 1
          /\ \/ events' = events \cup {Event(Appended)} /\ UNCHANGED torn
             \/ torn' = TRUE /\ UNCHANGED events
    /\ UNCHANGED <<edits, ckpt, slot, found, cumulative, ws, report, effects>>

\* The report's content: the state, and the events it was built from.
Report(stage) == [stage |-> stage, status |-> mem.status, attempt |-> mem.attempt,
                  events |-> Cardinality(events)]

\* report.json and its marker are written in place, one after the other.
WriteReport ==
    /\ pc = "report" /\ report.stage = "none"
    /\ report' = Report("torn")
    /\ Goto("report_rest")
    /\ NoEnv /\ UNCHANGED <<ckpt, slot, found, cumulative, ws, events, torn, effects>>

ReportRest ==
    /\ pc = "report_rest"
    /\ report' = Report("written")
    /\ Goto("report_mark")
    /\ NoEnv /\ UNCHANGED <<ckpt, slot, found, cumulative, ws, events, torn, effects>>

\* An existing report must be equal to the byte, and so must its marker.
\* Mutant: it is believed as it is.
SameReportAlways == TRUE
SameReport == report.stage # "torn" /\ report = Report(report.stage)

Reported == pc' = "commit" /\ upd' = Moved("END", mem.status)
            /\ UNCHANGED <<mem, got, pend, command, resume, exit>>

ReplayReport ==
    /\ pc = "report" /\ report.stage # "none"
    /\ \/ ~SameReport /\ Leave("contradicted")
       \/ SameReport /\ report.stage = "complete" /\ Reported
       \/ SameReport /\ report.stage # "complete" /\ Goto("report_mark")
    /\ NoWork /\ NoEnv /\ UNCHANGED ckpt

MarkReport ==
    /\ pc = "report_mark"
    /\ report' = Report("torn")
    /\ Goto("report_mark_rest")
    /\ NoEnv /\ UNCHANGED <<ckpt, slot, found, cumulative, ws, events, torn, effects>>

MarkRest ==
    /\ pc = "report_mark_rest"
    /\ report' = Report("complete")
    /\ Reported
    /\ NoEnv /\ UNCHANGED <<ckpt, slot, found, cumulative, ws, events, torn, effects>>

ReportFails ==
    /\ Failures /\ pc \in {"report", "report_rest", "report_mark", "report_mark_rest"}
    /\ Leave("raised")
    /\ NoWork /\ NoEnv /\ UNCHANGED ckpt

\* The superstep ends: its checkpoint is handed over, and the resume value
\* given by the command is spent.
Commit ==
    /\ pc = "commit"
    /\ mem' = upd /\ pend' = Append(pend, upd) /\ resume' = "none"
    /\ IF upd.node = "END" THEN pc' = "exit" /\ exit' = "ok"
                           ELSE pc' = "node" /\ UNCHANGED exit
    /\ NoWork /\ NoEnv /\ UNCHANGED <<ckpt, upd, got, command>>

Flush ==
    /\ pend # << >>
    /\ ckpt' = Head(pend) /\ pend' = Tail(pend)
    /\ NoWork /\ NoEnv /\ UNCHANGED <<pc, mem, upd, got, command, resume, exit>>

\* Mutant: the process ends with checkpoints in flight.
FlushedUnchecked == TRUE
Flushed == pend = << >>

Exit ==
    /\ pc = "exit" /\ Flushed
    /\ pc' = "idle" /\ mem' = Fresh /\ upd' = Fresh /\ got' = "none"
    /\ command' = "none" /\ resume' = "none"
    /\ NoWork /\ NoEnv /\ UNCHANGED <<ckpt, pend, exit>>

-----------------------------------------------------------------------------
(* Commands and the environment *)

Begin(name, c, in) ==
    /\ pc' = "node" /\ mem' = c /\ pend' = in /\ exit' = "none"
    /\ command' = name /\ resume' = IF name = "run" THEN "none" ELSE name
    /\ NoWork /\ NoEnv /\ UNCHANGED <<ckpt, upd, got>>

\* _start_patch_run: the input is the first checkpoint.  RunWorkspaceStore.create
\* refuses a Run Identifier that has a workspace.
RunCommand ==
    /\ pc = "idle" /\ exit = "none" /\ ckpt = Fresh
    /\ LET input == [Fresh EXCEPT !.status = "created"] IN Begin("run", input, <<input>>)

\* A command goes on where the last durable checkpoint stands.
\* Mutant: it asks for the decision again.
ResumedAtGate == [ckpt EXCEPT !.node = "approval_gate"]
Resumed == ckpt

\* approve_patch_run and reject_patch_run.
ResumeCommand(d) ==
    /\ pc = "idle" /\ ckpt.status = "pending_approval"
    /\ Begin(d, Resumed, << >>)

\* A crash may leave half of the line that was being appended.
Crash ==
    /\ pc # "idle" /\ crashes < MaxCrashes
    /\ crashes' = crashes + 1
    /\ pc' = "idle" /\ mem' = Fresh /\ upd' = Fresh /\ got' = "none"
    /\ pend' = << >> /\ command' = "none" /\ resume' = "none" /\ exit' = "crashed"
    /\ UNCHANGED torn \/ (Appending /\ EventKey \notin Keys /\ torn' = TRUE)
    /\ UNCHANGED <<ckpt, slot, found, cumulative, ws, events, report, effects, edits>>

\* Somebody edits files that the candidates of the attempts in S replace.
Edit(S, v) ==
    /\ edits < MaxEdits
    /\ edits' = edits + 1
    /\ ws' = [n \in Attempts |-> IF n \in S THEN v ELSE ws[n]]
    /\ UNCHANGED <<ckpt, slot, found, cumulative, events, torn, report, process, crashes, effects>>

Ledgers  == Claim \/ RefuseClaimed \/ ReplayTorn \/ ReplayComplete \/ Verify \/ AskModel
            \/ ModelFails \/ PolicyViolated \/ PersistStart \/ Persist \/ PersistFails
Diffs    == CumulativeWrite \/ CumulativeRest \/ CumulativeReplay \/ CumulativeFails
Gate     == Interrupt \/ AwaitApproval \/ RejectCandidate
Applying == ApplyRefused \/ ApplyReplay \/ ApplyObserve \/ ApplySome \/ ApplyAll
            \/ ApplyRollback \/ ApplyUnsynced \/ PersistApply \/ PersistApplyMark
Audit    == AppendEvent \/ FinalizeEvent \/ LogUnreadable \/ EventFails \/ WriteReport
            \/ ReportRest \/ ReplayReport \/ MarkReport \/ MarkRest \/ ReportFails
Ending   == Commit \/ Flush \/ Exit

\* One step of a command that has begun.
Step == ValidateInput \/ Ledgers \/ Diffs \/ Gate \/ Applying \/ Audit \/ Ending

Next ==
    \/ Step
    \/ RunCommand
    \/ \E d \in {"approve", "reject"} : ResumeCommand(d)
    \/ Crash
    \/ \E S \in SUBSET Attempts \ {{}}, v \in Views : Edit(S, v)

Spec == Init /\ [][Next]_vars /\ WF_vars(Step)
-----------------------------------------------------------------------------
(* Properties *)

Points == {"idle", "node", "work", "persist", "persist_rest", "cumulative",
           "cumulative_rest", "write", "write_rest", "persist_apply", "persist_mark", "event",
           "report", "report_rest", "report_mark", "report_mark_rest", "commit", "exit"}
Commands == {"none", "run", "approve", "reject"}
Exits    == {"none", "ok", "raised", "contradicted", "crashed"}
EventKeys == (Nodes \cup {"approval", "finalized"}) \X Nat \X (Statuses \cup Decisions \cup {""})

\* Every variable keeps its type.
TypeOK ==
    /\ ckpt \in Checkpoints /\ mem \in Checkpoints /\ upd \in Checkpoints
    /\ slot \in [Slots -> Stages] /\ found \in [Slots -> Results]
    /\ cumulative \in Views \cup {"none", "torn"} /\ ws \in [Attempts -> Views]
    /\ events \subseteq [key : EventKeys, status : Statuses, attempt : Nat, usage : Usages]
    /\ torn \in BOOLEAN
    /\ report \in [stage : {"none", "torn", "written", "complete"}, status : Statuses,
                   attempt : Nat, events : Nat]
    /\ pc \in Points /\ got \in Results /\ pend \in Seq(Checkpoints)
    /\ command \in Commands /\ resume \in Decisions /\ exit \in Exits
    /\ crashes \in Nat /\ edits \in Nat /\ effects \in [Slots -> Nat]

\* No Verification is executed twice and no model phase is requested twice,
\* whatever crashed and whichever command replays the node.
SideEffectsOnce == \A s \in Slots : effects[s] <= 1

Approved(n) == <<"approval", n, "approve">> \in Keys

\* The program writes a candidate into the workspace only when the log already
\* holds the approval of that very attempt.
WritesNeedApproval ==
    [][\A n \in Attempts :
          (edits' = edits /\ ws'[n] # ws[n] /\ ws'[n] # "before") => Approved(n)]_vars

\* The candidate of attempt m was approved, failed and was diagnosed.
Diagnosed(m) ==
    /\ Approved(m)
    /\ found[<<"verification", m>>] = "failed" /\ found[<<"diagnosis", m>>] = "typed"

\* It writes the candidate of a later attempt only when the candidate of every earlier
\* one was approved, failed its Verification and was diagnosed: no replay and no
\* stale checkpoint lets an attempt overtake another.
AttemptsInTurn ==
    [][\A n \in Attempts :
          (edits' = edits /\ ws'[n] # ws[n] /\ ws'[n] # "before") =>
             \A m \in 1 .. n - 1 : Diagnosed(m)]_vars

\* Once the checkpoint of a rejection is durable the program writes nothing more to
\* the workspace, whichever command resumes the Run and whatever is replayed, also
\* where the candidate was approved before or is approved later.
RejectionStands ==
    [][(ckpt.decision = "reject" /\ edits' = edits) => UNCHANGED ws]_vars

\* The model is asked for a Plan after a failing baseline, for a Diagnosis after
\* a failing Verification, and for the next candidate after that Diagnosis.
RequestsAreEarned ==
    /\ effects[<<"plan", 0>>] > 0 => found[<<"baseline", 0>>] = "failed"
    /\ \A n \in Attempts :
          /\ effects[<<"diagnosis", n>>] > 0 => found[<<"verification", n>>] = "failed"
          /\ (n > 1 /\ effects[<<"candidate", n>>] > 0) =>
                found[<<"diagnosis", n - 1>>] = "typed"

\* A Run Report says succeeded only of an approved attempt whose Verification
\* passed after a failing baseline, and whose cumulative diff is on disk; when
\* nobody edited the workspace it holds the candidate that was verified.
SucceededIsEarned ==
    report.status = "succeeded" =>
        LET n == report.attempt IN
        /\ n \in Attempts /\ Approved(n)
        /\ found[<<"baseline", 0>>] = "failed" /\ found[<<"verification", n>>] = "passed"
        /\ cumulative \in Views
        /\ edits = 0 => ws[n] = "after" /\ cumulative = "after"

\* A command that ends normally leaves the Run at the Approval Gate or over.
CommandsSettle == (pc = "idle" /\ exit = "ok") => ckpt.node \in {"approval_gate", "END"}

\* A node that is run again appends the Run Event it appended before.  When
\* nobody edited the workspace the log is contradicted only where the node failed,
\* now or then, or where a candidate is rejected after the rejection of another
\* one was lost: both decisions to reject are one event.
ReplaysAgree ==
    (pc = "event" /\ edits = 0 /\ Refused(Event(upd))) =>
        \/ upd.status = "error"
        \/ \E e \in events : e.key = EventKey /\ e.status = "error"
        \/ /\ mem.node = "reject_candidate"
           /\ \E n \in Attempts \ {mem.attempt + 1} : <<"approval", n, "reject">> \in Keys

\* While a line of events.jsonl is only half there the Run gets nowhere: no Run
\* Event and no report is written, no node hands its checkpoint over, and no command
\* ends normally.
TornLogStops ==
    [][torn => /\ UNCHANGED <<events, report>>
               /\ Len(pend') <= Len(pend) /\ exit' # "ok"]_vars

\* A Run that is over has one complete report, which agrees with the checkpoint
\* and was built from every Run Event, in a log that can be read.
EndedMeansReported ==
    ckpt.node = "END" =>
        /\ ~torn
        /\ ckpt.status \in Terminal
        /\ report = [stage |-> "complete", status |-> ckpt.status,
                     attempt |-> ckpt.attempt, events |-> Cardinality(events)]

\* Every command ends, normally, with an exception or by a crash.
CommandsEnd == pc # "idle" ~> pc = "idle"

\* How many nodes a Run at checkpoint c may still have ahead: six for each attempt
\* that is left.
Ahead(c) ==
    LET left == 6 * (MAX_REPAIR_ATTEMPTS - c.attempt) IN
    CASE c.node = "END"                   -> 0
      [] c.node = "finalize_report"       -> 1
      [] c.node = "reject_candidate"      -> 2
      [] c.node = "repair_verification"   -> left
      [] c.node = "apply_candidate"       -> left + 1
      [] c.node = "approval_gate"         -> left + 2
      [] c.node = "create_candidate"      -> left + 3
      [] c.node = "create_diagnosis"      -> left + 4
      [] c.node = "create_plan"           -> 6 * MAX_REPAIR_ATTEMPTS + 4
      [] c.node = "baseline_verification" -> 6 * MAX_REPAIR_ATTEMPTS + 5
      [] c.node = "validate_input"        -> 6 * MAX_REPAIR_ATTEMPTS + 6

\* How many steps the node in progress may still take.
Place ==
    CASE pc = "exit"             -> 1
      [] pc = "commit"           -> 2
      [] pc = "event"            -> 3
      [] pc = "report_mark_rest" -> 4
      [] pc = "report_mark"      -> 5
      [] pc = "report_rest"      -> 6
      [] pc = "report"           -> 7
      [] pc = "persist_mark"     -> 8
      [] pc = "persist_apply"    -> 9
      [] pc = "write_rest"       -> 10
      [] pc = "write"            -> 11
      [] pc = "cumulative_rest"  -> 12
      [] pc = "cumulative"       -> 13
      [] pc = "persist_rest"     -> 14
      [] pc = "persist"          -> 15
      [] pc = "work"             -> 16
      [] pc = "node"             -> 17

StepsLeft == IF pc = "idle" THEN 0 ELSE 17 * Ahead(mem) + Place + Len(pend)

\* No loop of the graph goes on for ever: each step of a command, of a node or of
\* the checkpointer, leaves fewer to take, whatever the ledgers of earlier
\* processes hold, whatever fails or is edited meanwhile, and however many
\* checkpoints are in flight.
CommandsAdvance ==
    [][(pc # "idle" /\ edits' = edits) => StepsLeft' \in 0 .. StepsLeft - 1]_vars

\* What the durable checkpoint shows follows the lifecycle of a Patch Run.
Lifecycle == INSTANCE PatchLifecycle WITH
    phase <- CASE ckpt.node = "apply_candidate"  -> "approved"
               [] ckpt.node = "reject_candidate" -> "refused"
               [] OTHER                          -> ckpt.status,
    attempt <- ckpt.attempt,
    reported <- ckpt.node = "END"

FollowsLifecycle == Lifecycle!Spec

-----------------------------------------------------------------------------
(* What the documentation says, and the code does not do *)

\* cli.py, reject: "Reject a pending Candidate Patch without modifying its Run
\* Workspace."
RejectLeavesWorkspace ==
    [][(command = "reject" /\ edits' = edits) => UNCHANGED ws]_vars

\* docs/design.md, the table of apply: a file that matches neither hash gives
\* Workspace Changed.
MismatchIsReported ==
    ~(exit = "contradicted" /\ mem.node = "apply_candidate" /\ upd.status = "workspace_changed")

\* CONTEXT.md, Rejected: a Patch Run ended because a human rejected its
\* candidate; README.md: "Leave the Workspace unchanged, End Patch Run".
RejectedIsOver ==
    [][(report.stage = "complete" /\ report.status = "rejected" /\ edits' = edits)
          => UNCHANGED ws]_vars
=============================================================================
