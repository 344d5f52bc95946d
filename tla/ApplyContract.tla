---------------------------- MODULE ApplyContract ----------------------------
(***************************************************************************)
(* What apply_once promises its caller about one approved candidate, with  *)
(* hashes, renames, preimages and the order of files left out: as long as  *)
(* nobody else writes to the workspace, the files are replaced by one call *)
(* only or restored by it, the first summary is recorded once and for all, *)
(* and every answer is the recorded one or an error.  Each system call     *)
(* that may fail adds something a call may do, and says what it leaves.    *)
(* PatchApply implements it; apply_candidate in PatchRun and in            *)
(* CandidateChain takes apply_once at this word.                           *)
(***************************************************************************)
CONSTANTS Files, IoFaults

VARIABLES
    done,       \* the files at the approved content
    stage,      \* the ledger: none, one half of it, complete
    verdict,    \* the summary it records
    at,         \* the call: not writing, replacing, restoring, sealing the ledger
    answer,     \* what the last call returned or raised
    disturbed   \* somebody else has written to the workspace

vars == <<done, stage, verdict, at, answer, disturbed>>

Summary(o, fs) == [outcome |-> o, files |-> fs]
NoSummary == Summary("none", {})
Failure   == Summary("failure", {})

Init ==
    /\ done = {} /\ stage = "none" /\ verdict = NoSummary
    /\ at = "idle" /\ answer = NoSummary /\ disturbed = FALSE

Answer(s) == answer' = s /\ at' = "idle"

\* A call begins, or a crash ends one.
Anew == Answer(NoSummary) /\ UNCHANGED <<done, stage, verdict>>

\* Half a ledger is never interpreted, and half of the preimages neither.
Refuse ==
    /\ at = "idle"
    /\ stage = "half" \/ (stage = "none" /\ done = {})
    /\ Answer(Failure) /\ UNCHANGED <<done, stage, verdict>>

Replay ==
    /\ at = "idle" /\ stage = "complete"
    /\ Answer(verdict) /\ UNCHANGED <<done, stage, verdict>>

\* Only a call that finds no file replaced and nothing recorded replaces any.
Start ==
    /\ at = "idle" /\ stage = "none" /\ done = {}
    /\ at' = "write" /\ UNCHANGED <<done, stage, verdict, answer>>

Replace(f) ==
    /\ at = "write" /\ stage = "none" /\ f \notin done
    /\ done' = done \cup {f} /\ UNCHANGED <<stage, verdict, at, answer>>

\* A write, or the fsync that follows it, fails: the call turns to restoring.
GiveUp ==
    /\ at = "write" /\ stage = "none" /\ IoFaults \cap {"write", "sync"} # {}
    /\ at' = "restore" /\ UNCHANGED <<done, stage, verdict, answer>>

Restore(f) ==
    /\ at = "restore" /\ stage = "none" /\ f \in done
    /\ done' = done \ {f} /\ UNCHANGED <<stage, verdict, at, answer>>

\* An error ends the call: what it has done stays, and nothing complete is lost.
Fail ==
    /\ \/ at = "restore" /\ IoFaults \cap {"write", "sync"} # {}
       \/ stage # "complete" /\ "ledger" \in IoFaults
    /\ Answer(Failure) /\ UNCHANGED <<done, stage, verdict>>

\* The summary is written, unless writing it fails half way.
Record(s) ==
    /\ stage = "none" /\ stage' = "half" /\ verdict' = s /\ UNCHANGED done
    /\ \/ at' = "seal" /\ UNCHANGED answer
       \/ "ledger" \in IoFaults /\ Answer(Failure)

Applied        == at = "write" /\ done = Files /\ Record(Summary("applied", Files))
AlreadyApplied == at = "idle" /\ done = Files /\ Record(Summary("already_applied", Files))
Partial        == at = "idle" /\ done \notin {{}, Files} /\ Record(Summary("partial_apply", done))

\* Every file is restored, but for the one whose fsync failed.
Restored  == done = {} \/ ("sync" \in IoFaults /\ \E f \in Files : done = {f})
RolledBack == at = "restore" /\ Restored /\ Record(Summary("workspace_changed", {}))

Seal ==
    /\ at = "seal" /\ stage = "half"
    /\ stage' = "complete" /\ Answer(verdict) /\ UNCHANGED <<done, verdict>>

Alone == Anew \/ Refuse \/ Replay \/ Start \/ (\E f \in Files : Replace(f) \/ Restore(f))
         \/ GiveUp \/ Fail \/ Applied \/ AlreadyApplied \/ Partial \/ RolledBack \/ Seal

\* Once disturbed, what is left is that a complete ledger is final.
Disturbed == disturbed' /\ (stage = "complete" => UNCHANGED <<stage, verdict>>)

Next == (~disturbed /\ ~disturbed' /\ Alone) \/ Disturbed

Spec == Init /\ [][Next]_vars
=============================================================================
