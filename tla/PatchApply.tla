----------------------------- MODULE PatchApply -----------------------------
(***************************************************************************)
(* PatchApplier.apply_once (patching.py): the host-owned operation that    *)
(* writes one approved Candidate Patch into a Run Workspace, file by file, *)
(* behind a replay ledger kept in the attempt directory.                   *)
(*                                                                         *)
(* Three actors share the workspace and the ledger: the call in progress   *)
(* (one step per read, check, rename, fsync and ledger write), whoever     *)
(* edits the workspace behind the program's back, and the crash that ends  *)
(* the process between two steps.  The call is repeated after a crash.     *)
(*                                                                         *)
(* The contents of a file are abstracted to what apply_once can tell       *)
(* apart: the hash the candidate expects, the hash of the new content,     *)
(* anything else, and a file that cannot be read as bounded UTF-8 text.    *)
(***************************************************************************)
EXTENDS Naturals, FiniteSets

CONSTANTS
    N,          \* replacements in the candidate (the code allows 1 to 3)
    MaxCalls,   \* bound: calls of apply_once
    MaxEdits,   \* bound: edits made behind the program's back
    MaxCrashes, \* bound: crashes of the process
    IoFaults    \* the system calls that may fail: a subset of FaultKinds

FaultKinds == {"write", "sync", "ledger"}

ASSUME NAssumption == N \in Nat \ {0}
ASSUME BoundAssumption == MaxCalls \in Nat /\ MaxEdits \in Nat /\ MaxCrashes \in Nat
ASSUME FaultAssumption == IoFaults \subseteq FaultKinds

VARIABLES
    ws,         \* the workspace: file -> content
    preimages,  \* preimages.json / .preimages-complete
    ledger,     \* apply.json / .apply-complete
    recorded,   \* the summary in apply.json
    pc,         \* where the call in progress is
    i,          \* the replacement the call is at
    states,     \* the call's classification of the files it has read
    persisted,  \* the summary the call found in the ledger
    draft,      \* the summary the call is about to return
    result,     \* what the last call returned or raised
    calls, edits, crashes,
    \* Observability, read by no guard:
    touched,    \* files edited since the current call began
    late,       \* files edited since the last hash check
    written     \* files the current call replaced and has not restored

disk   == <<ws, preimages, ledger, recorded>>
local  == <<pc, i, states, persisted, draft, result>>
counts == <<calls, edits, crashes>>
ghosts == <<touched, late, written>>
vars   == <<disk, local, counts, ghosts>>

-----------------------------------------------------------------------------
Files    == 1 .. N
Contents == {"before", "after", "other", "gone"}
Ledger   == {"none", "written", "complete"}
Success  == {"applied", "already_applied"}
Outcomes == Success \cup {"workspace_changed", "partial_apply"}

Summaries == [outcome : Outcomes \cup {"none", "failure"}, files : SUBSET Files]
Summary(o, fs)   == [outcome |-> o, files |-> fs]
NoSummary        == Summary("none", {})
Failure          == Summary("failure", {})    \* OSError or RuntimeError
WorkspaceChanged == Summary("workspace_changed", {})

Replacing == {"check", "replace", "sync"}
Undoing   == {"undo", "undo_replace", "undo_sync"}
Finishing == {"finish", "persist_mark"}
Points    == {"idle", "read", "decide", "preimages", "preimages_mark"}
             \cup Replacing \cup Undoing \cup Finishing

Unread == [f \in Files |-> "unread"]
Observed == {states[f] : f \in Files}

\* The candidate was validated against this workspace when it was created.
Init ==
    /\ ws = [f \in Files |-> "before"]
    /\ preimages = "none" /\ ledger = "none" /\ recorded = NoSummary
    /\ pc = "idle" /\ i = 1 /\ states = Unread
    /\ persisted = NoSummary /\ draft = NoSummary /\ result = NoSummary
    /\ calls = 0 /\ edits = 0 /\ crashes = 0
    /\ touched = {} /\ late = {} /\ written = {}

Goto(p) == pc' = p

\* The call ends with summary s; its locals die with it.
Return(s) ==
    /\ pc' = "idle" /\ result' = s
    /\ i' = 1 /\ states' = Unread /\ persisted' = NoSummary /\ draft' = NoSummary

Finish(s) ==
    /\ pc' = "finish" /\ draft' = s
    /\ UNCHANGED <<i, states, persisted, result>>

-----------------------------------------------------------------------------
(* Entry and classification *)

\* What an earlier call left in a complete ledger.
\* Mutant: a call that ignores the ledger.
LoadedIgnored == NoSummary
Loaded == IF ledger = "complete" THEN recorded ELSE NoSummary

\* The replay ledger is read first; one half of it alone is an error.
Call ==
    /\ pc = "idle" /\ calls < MaxCalls
    /\ calls' = calls + 1
    /\ touched' = {} /\ late' = {} /\ written' = {}
    /\ \/ /\ ledger = "written"
          /\ Return(Failure)
       \/ /\ ledger # "written"
          /\ pc' = "read" /\ result' = NoSummary
          /\ persisted' = Loaded
          /\ UNCHANGED <<i, states, draft>>
    /\ UNCHANGED <<disk, edits, crashes>>

\* Mutant: unexpected contents are kept as they are.
ClassifyRaw(c) == c
Classify(c) == IF c \in {"before", "after"} THEN c ELSE "unknown"

ReadNext ==
    /\ pc = "read" /\ ws[i] # "gone"
    /\ states' = [states EXCEPT ![i] = Classify(ws[i])]
    /\ IF i = N THEN Goto("decide") /\ i' = 1 ELSE Goto("read") /\ i' = i + 1
    /\ UNCHANGED <<disk, persisted, draft, result, counts, ghosts>>

\* An unreadable file ends the classification at once.
ReadFails ==
    /\ pc = "read" /\ ws[i] = "gone"
    /\ Finish(WorkspaceChanged)
    /\ UNCHANGED <<disk, counts, ghosts>>

DecideUnknown ==
    /\ pc = "decide" /\ "unknown" \in Observed
    /\ Finish(WorkspaceChanged)
    /\ UNCHANGED <<disk, counts, ghosts>>

\* Mutant: a mixed workspace is taken for an edited one.
MixedSummaryAsEdit == WorkspaceChanged
MixedSummary == Summary("partial_apply", {f \in Files : states[f] = "after"})

DecideMixed ==
    /\ pc = "decide" /\ Observed = {"before", "after"}
    /\ Finish(MixedSummary)
    /\ UNCHANGED <<disk, counts, ghosts>>

DecideAllAfter ==
    /\ pc = "decide" /\ Observed = {"after"}
    /\ Finish(Summary("already_applied", Files))
    /\ UNCHANGED <<disk, counts, ghosts>>

\* _replay_apply_summary: it is only reached when every file is "before".
ReplaySummary(p) == IF p.outcome \in Success THEN WorkspaceChanged ELSE p

DecideReplay ==
    /\ pc = "decide" /\ Observed = {"before"} /\ persisted # NoSummary
    /\ Return(ReplaySummary(persisted))
    /\ UNCHANGED <<disk, counts, ghosts>>

\* _persist_initial_preimages: complete preimages of these files equal what the
\* call has just read, because both hash to what the candidate expects.
\* Mutant: the files are replaced without their preimages on disk.
PreimageStepSkipped == "check"
PreimageStep == IF preimages = "none" THEN "preimages" ELSE "check"

DecideApply ==
    /\ pc = "decide" /\ Observed = {"before"} /\ persisted = NoSummary
    /\ IF preimages = "written"
       THEN Return(Failure)
       ELSE Goto(PreimageStep) /\ UNCHANGED <<i, states, persisted, draft, result>>
    /\ UNCHANGED <<disk, counts, ghosts>>

PreimageArtifact ==
    /\ pc = "preimages" /\ Goto("preimages_mark")
    /\ preimages' = "written"
    /\ UNCHANGED <<ws, ledger, recorded, i, states, persisted, draft, result, counts, ghosts>>

PreimageMark ==
    /\ pc = "preimages_mark" /\ Goto("check")
    /\ preimages' = "complete"
    /\ UNCHANGED <<ws, ledger, recorded, i, states, persisted, draft, result, counts, ghosts>>

-----------------------------------------------------------------------------
(* _atomic_replace_text: hash check, then a temporary file renamed over the  *)
(* target, then an fsync of the directory.                                   *)

\* Mutant: the contents on disk are not compared with the expected hash.
HashMatchesUnchecked(c) == TRUE
HashMatches(c) == ws[i] = c

\* The rollback visits the files before the one that failed, last one first.
\* Mutant: it skips the last of them.
StartUndoShort == Goto("undo") /\ i' = IF i > 1 THEN i - 2 ELSE 0
StartUndo == Goto("undo") /\ i' = i - 1

CheckHash ==
    /\ pc = "check" /\ late' = {}
    /\ IF HashMatches("before") THEN Goto("replace") /\ UNCHANGED i ELSE StartUndo
    /\ UNCHANGED <<disk, states, persisted, draft, result, counts, touched, written>>

ReplaceFile ==
    /\ pc = "replace" /\ Goto("sync")
    /\ ws' = [ws EXCEPT ![i] = "after"]
    /\ written' = written \cup {i}
    /\ UNCHANGED <<preimages, ledger, recorded, i, states, persisted, draft, result,
                   counts, touched, late>>

SyncDirectory ==
    /\ pc = "sync"
    /\ IF i = N
       THEN Finish(Summary("applied", Files))
       ELSE Goto("check") /\ i' = i + 1 /\ UNCHANGED <<states, persisted, draft, result>>
    /\ UNCHANGED <<disk, counts, ghosts>>

\* The temporary file cannot be created, written or renamed.
ReplaceFault ==
    /\ pc = "replace" /\ "write" \in IoFaults
    /\ StartUndo
    /\ UNCHANGED <<disk, states, persisted, draft, result, counts, ghosts>>

\* The rename is done but the directory's fsync fails: the file is not in the
\* list of changed files, so the rollback does not visit it.
SyncFault ==
    /\ pc = "sync" /\ "sync" \in IoFaults
    /\ StartUndo
    /\ UNCHANGED <<disk, states, persisted, draft, result, counts, ghosts>>

UndoDone ==
    /\ pc = "undo" /\ i = 0
    /\ pc' = "finish" /\ draft' = WorkspaceChanged /\ i' = 1
    /\ UNCHANGED <<disk, states, persisted, result, counts, ghosts>>

\* The rollback checks the hash too; its own failure escapes apply_once.
\* Mutant: it waits for the file to become what it expects.
UndoMismatchWaits == UNCHANGED local
UndoMismatch == Return(Failure)

UndoCheck ==
    /\ pc = "undo" /\ i > 0 /\ late' = {}
    /\ IF HashMatches("after")
       THEN Goto("undo_replace") /\ UNCHANGED <<i, states, persisted, draft, result>>
       ELSE UndoMismatch
    /\ UNCHANGED <<disk, counts, touched, written>>

UndoReplace ==
    /\ pc = "undo_replace" /\ Goto("undo_sync")
    /\ ws' = [ws EXCEPT ![i] = "before"]
    /\ written' = written \ {i}
    /\ UNCHANGED <<preimages, ledger, recorded, i, states, persisted, draft, result,
                   counts, touched, late>>

UndoSync ==
    /\ pc = "undo_sync" /\ Goto("undo") /\ i' = i - 1
    /\ UNCHANGED <<disk, states, persisted, draft, result, counts, ghosts>>

UndoFault ==
    /\ \/ pc = "undo_replace" /\ "write" \in IoFaults
       \/ pc = "undo_sync" /\ "sync" \in IoFaults
    /\ Return(Failure)
    /\ UNCHANGED <<disk, counts, ghosts>>

-----------------------------------------------------------------------------
(* _finish_apply_check and the ledger *)

\* Mutants: the ledger is believed, or ignored, whatever the workspace says.
ReconcileTrusting(p, s) == p
ReconcileFresh(p, s) == s
Reconcile(p, s) ==
    IF p.outcome \in Success /\ s.outcome # "already_applied" THEN s ELSE p

FinishReplay ==
    /\ pc = "finish" /\ persisted # NoSummary
    /\ Return(Reconcile(persisted, draft))
    /\ UNCHANGED <<disk, counts, ghosts>>

PersistSummary ==
    /\ pc = "finish" /\ persisted = NoSummary
    /\ Goto("persist_mark")
    /\ ledger' = "written" /\ recorded' = draft
    /\ UNCHANGED <<ws, preimages, i, states, persisted, draft, result, counts, ghosts>>

PersistMark ==
    /\ pc = "persist_mark" /\ Return(draft)
    /\ ledger' = "complete"
    /\ UNCHANGED <<ws, preimages, recorded, counts, ghosts>>

\* A ledger file cannot be created, or is created and cannot be filled.
LedgerFault ==
    /\ "ledger" \in IoFaults
    /\ \/ /\ pc \in {"preimages", "preimages_mark"}
          /\ preimages' \in {preimages, "written"}
          /\ UNCHANGED <<ledger, recorded>>
       \/ /\ pc \in Finishing /\ persisted = NoSummary
          /\ ledger' \in {ledger, "written"} /\ recorded' = draft
          /\ UNCHANGED preimages
    /\ Return(Failure)
    /\ UNCHANGED <<ws, counts, ghosts>>

-----------------------------------------------------------------------------
(* The environment *)

Crash ==
    /\ pc # "idle" /\ crashes < MaxCrashes
    /\ crashes' = crashes + 1
    /\ Return(NoSummary)
    /\ UNCHANGED <<disk, calls, edits, ghosts>>

Edit(f, c) ==
    /\ edits < MaxEdits /\ ws[f] # c
    /\ edits' = edits + 1
    /\ ws' = [ws EXCEPT ![f] = c]
    /\ touched' = touched \cup {f} /\ late' = late \cup {f}
    /\ UNCHANGED <<preimages, ledger, recorded, local, calls, crashes, written>>

Classification == ReadNext \/ ReadFails \/ DecideUnknown \/ DecideMixed \/ DecideAllAfter
                  \/ DecideReplay \/ DecideApply \/ PreimageArtifact \/ PreimageMark
Application    == CheckHash \/ ReplaceFile \/ SyncDirectory \/ ReplaceFault \/ SyncFault
Rollback       == UndoDone \/ UndoCheck \/ UndoReplace \/ UndoSync \/ UndoFault
Conclusion     == FinishReplay \/ PersistSummary \/ PersistMark \/ LedgerFault

\* One step of the program, once called.
Step == Classification \/ Application \/ Rollback \/ Conclusion

Next == Call \/ Step \/ Crash \/ \E f \in Files, c \in Contents : Edit(f, c)

Spec == Init /\ [][Next]_vars /\ WF_vars(Step)

-----------------------------------------------------------------------------
(* Properties *)

\* Every variable keeps its type.
TypeOK ==
    /\ ws \in [Files -> Contents]
    /\ preimages \in Ledger /\ ledger \in Ledger /\ recorded \in Summaries
    /\ pc \in Points /\ i \in 0 .. N
    /\ states \in [Files -> {"unread", "before", "after", "unknown"}]
    /\ persisted \in Summaries /\ draft \in Summaries /\ result \in Summaries
    /\ calls \in Nat /\ edits \in Nat /\ crashes \in Nat
    /\ touched \subseteq Files /\ late \subseteq Files /\ written \subseteq Files

\* apply_once writes no file before the preimages of every file are complete on
\* disk, whatever crashed before (patching.py, _persist_initial_preimages).
PreimagesBeforeWrites == written # {} => preimages = "complete"

\* A call that answers applied or already_applied leaves every file at the
\* approved content, but for those edited while it ran; also when it answers
\* from the ledger of an earlier call.
SuccessMeansAllAfter ==
    result.outcome \in Success => \A f \in Files \ touched : ws[f] = "after"

\* Once the ledger is complete its summary never changes and no call writes to
\* the workspace again: an approved patch is applied at most once.
CompletedLedgerIsFinal ==
    [][ledger = "complete" =>
         /\ UNCHANGED <<ledger, recorded>>
         /\ edits' = edits => UNCHANGED ws]_vars

\* A call loses an edit only if it was made between the hash check of that file
\* and the rename over it (_atomic_replace_text): any earlier edit is seen.
EditsLostOnlyInWindow ==
    [][edits' = edits =>
         \A f \in Files : ws'[f] # ws[f] => ws[f] \in {"before", "after"} \/ f \in late]_vars

\* workspace_changed with no files changed means what it says: the call has
\* rolled back every file it had replaced.
ChangedMeansRolledBack == result.outcome = "workspace_changed" => written = {}

\* Crashes and retries alone never make a call blame somebody else: without an
\* edit or a failed system call, a workspace that started all-before is never
\* reported as changed by others.
ChangedMeansEdited ==
    (result.outcome = "workspace_changed" \/ recorded.outcome = "workspace_changed")
        => edits > 0

\* While nobody edits, a completed ledger and the call that answers agree.
ReplayAgrees ==
    (edits = 0 /\ ledger = "complete" /\ result.outcome \in Outcomes) => result = recorded

\* The call as its caller sees it.
Done == {f \in Files : ws[f] = "after"}
Stage == IF ledger = "written" THEN "half" ELSE ledger
At == CASE pc = "persist_mark" -> "seal"
        [] pc \in {"preimages", "preimages_mark"} \cup Replacing -> "write"
        [] pc = "finish" /\ draft.outcome = "applied" -> "write"
        [] pc \in Undoing -> "restore"
        [] pc = "finish" /\ draft.outcome = "workspace_changed" -> "restore"
        [] OTHER -> "idle"
Verdict == IF ledger = "none" THEN NoSummary ELSE recorded

Contract == INSTANCE ApplyContract WITH
    done <- Done, stage <- Stage, verdict <- Verdict, at <- At, answer <- result,
    disturbed <- edits > 0

\* apply_once keeps its contract with the graph through every crash and whichever
\* system call fails: files are replaced by one call only, what it records is true
\* of the files, final, and what every later call answers.
KeepsContract == Contract!Spec

\* Every call ends, with an answer, an error or a crash.
CallsEnd == pc # "idle" ~> pc = "idle"

\* A bound on what the call in progress can still do: what is left to read, to
\* replace and, if that fails, to restore.
StepsLeft ==
    CASE pc = "idle"           -> 0
      [] pc = "persist_mark"   -> 1
      [] pc = "finish"         -> 2
      [] pc = "undo_sync"      -> 3 * i + 1
      [] pc = "undo_replace"   -> 3 * i + 2
      [] pc = "undo"           -> 3 * i + 3
      [] pc = "sync"           -> 3 * (2 * N - i) + 4
      [] pc = "replace"        -> 3 * (2 * N - i) + 5
      [] pc = "check"          -> 3 * (2 * N - i) + 6
      [] pc = "preimages_mark" -> 6 * N + 4
      [] pc = "preimages"      -> 6 * N + 5
      [] pc = "decide"         -> 6 * N + 6
      [] pc = "read"           -> 7 * N + 7 - i

\* No loop of apply_once starts over: whatever is edited or fails meanwhile, each
\* of its steps leaves fewer to take, so a call is over after 7 * N + 6 of them.
CallsAdvance == [][(pc # "idle" /\ edits' = edits) => StepsLeft' \in 0 .. StepsLeft - 1]_vars

-----------------------------------------------------------------------------
(* What the documentation says, and the code does not do *)

\* docs/design.md, the table of apply: when all files match their after hashes
\* the earlier execution is complete and the Run proceeds to Verification.  A
\* ledger with one of its halves makes the call fail before it looks.
AllAfterProceeds ==
    (result = Failure /\ edits = 0) => \E f \in Files : ws[f] # "after"
=============================================================================
