--------------------------- MODULE PatchLifecycle ---------------------------
(***************************************************************************)
(* The lifecycle of a Patch Run as its durable checkpoint shows it: what   *)
(* graph.py's nodes and routes promise to whoever reads a Run's status,    *)
(* whatever crashes, replays and commands happen underneath.  PatchRun is  *)
(* shown to implement it.                                                  *)
(***************************************************************************)
EXTENDS Naturals

CONSTANT MAX_REPAIR_ATTEMPTS

VARIABLES
    phase,      \* the status, with the decision taken at an Approval Gate
    attempt,    \* verified Repair Attempts
    reported    \* the Run Report is the last thing a Run produces

vars == <<phase, attempt, reported>>

Terminal == {"succeeded", "rejected", "issue_not_reproduced", "attempts_exhausted",
             "workspace_changed", "error"}

Init == phase = "none" /\ attempt = 0 /\ reported = FALSE

From(p) == phase = p /\ UNCHANGED reported
To(ps)  == phase' \in ps /\ UNCHANGED attempt

Create    == From("none") /\ To({"created"})
Validate  == From("created") /\ To({"validated"})
Reproduce == From("validated") /\ To({"baseline_failed", "issue_not_reproduced", "error"})
Plan      == From("baseline_failed") /\ To({"planned", "error"})
Propose   == (From("planned") \/ From("diagnosed")) /\ To({"pending_approval", "error"})
Decide    == From("pending_approval") /\ To({"approved", "refused"})
Reject    == From("refused") /\ To({"rejected"})
Apply     == From("approved") /\ To({"testing", "workspace_changed", "error"})

\* A Repair Attempt counts once its Verification has a result.
Verify ==
    /\ From("testing")
    /\ \/ /\ attempt < MAX_REPAIR_ATTEMPTS /\ attempt' = attempt + 1
          /\ phase' \in {"succeeded", "diagnosing", "error"}
       \/ To({"error"})

Diagnose ==
    /\ From("diagnosing")
    /\ \/ To({"error"})
       \/ attempt < MAX_REPAIR_ATTEMPTS /\ To({"diagnosed"})
       \/ attempt = MAX_REPAIR_ATTEMPTS /\ To({"attempts_exhausted"})

Report ==
    /\ phase \in Terminal /\ ~reported
    /\ reported' = TRUE /\ UNCHANGED <<phase, attempt>>

Next == Create \/ Validate \/ Reproduce \/ Plan \/ Propose \/ Decide \/ Reject \/ Apply
        \/ Verify \/ Diagnose \/ Report

Spec == Init /\ [][Next]_vars
=============================================================================
