-------------------------- MODULE PatchRunOutcomes --------------------------
(***************************************************************************)
(* What a Patch Run says of itself is true: for any number of Repair       *)
(* Attempts, crashes and edits, and however far its checkpoints lag.  The  *)
(* ledgers are never rewritten, so whatever justified a checkpoint still   *)
(* holds when a later process starts from it.                              *)
(***************************************************************************)
EXTENDS PatchRunProofs, FiniteSetTheorems

(***************************************************************************)
(* Types of what PatchRunProofs had no need to type.                       *)
(***************************************************************************)
EventRecords == [key : EventKeys, status : Statuses, attempt : Nat, usage : Usages]
Reports == [stage : {"none", "torn", "written", "complete"}, status : Statuses,
            attempt : Nat, events : Nat]

RestInv ==
    /\ upd \in Checkpoints
    /\ found \in [Slots -> Results] /\ got \in Results
    /\ cumulative \in Views \cup {"none", "torn"}
    /\ events \subseteq EventRecords /\ IsFiniteSet(events) /\ torn \in BOOLEAN
    /\ report \in Reports
    /\ pc \in Points /\ command \in Commands /\ exit \in Exits /\ crashes \in Nat

LEMMA TypesTogether == IInv /\ RestInv => TypeOK
  BY DEF IInv, CheckpointInv, Sound, Bounded, TypingInv, EffectInv, RestInv, TypeOK,
         EventRecords, Reports

\* A Run Event is added to a finite log.
LEMMA EventType ==
    ASSUME RestInv, mem \in Checkpoints, NEW c \in Checkpoints, Append1(Event(c))
    PROVE  events' \subseteq EventRecords /\ IsFiniteSet(events')
<1>1. EventKey \in EventKeys
  <2>1. mem.node \in Nodes /\ mem.status \in Statuses /\ upd.decision \in Decisions
    BY DEF RestInv, Checkpoints
  <2>2. mem.attempt \in Nat /\ mem.attempt + 1 \in Nat
    BY DEF Checkpoints
  <2> QED
    BY <2>1, <2>2 DEF EventKey, EventKeys
<1>2. Event(c) \in EventRecords
  BY <1>1 DEF Event, EventRecords, Checkpoints
<1>3. IsFiniteSet(events \cup {Event(c)})
  BY FS_AddElement DEF RestInv
<1> HIDE DEF Event
<1> QED
  BY <1>2, <1>3 DEF Append1, RestInv

LEMMA ReportType ==
    ASSUME RestInv, mem \in Checkpoints, NEW s \in {"torn", "written", "complete"}
    PROVE  Report(s) \in Reports
  BY FS_CardinalityType DEF RestInv, Report, Reports, Checkpoints

\* What a node produces is a checkpoint; elsewhere upd is kept or forgotten.
LEMMA UpdType == IInv /\ IInv' /\ RestInv /\ [Next]_vars => upd' \in Checkpoints
<1> SUFFICES ASSUME IInv, IInv', RestInv, [Next]_vars PROVE upd' \in Checkpoints
  OBVIOUS
<1>1. pc' \in {"event", "commit"} => upd' \in Checkpoints
  BY DEF IInv, CheckpointInv, Sound, Bounded
<1>2. pc' \in {"event", "commit"} \/ upd' = upd \/ upd' = Fresh
  <2> USE DEF process, Produce, Goto, Hold, Leave
  <2>1. CASE Ledgers
    BY <2>1
       DEF Ledgers, Claim, RefuseClaimed, ReplayTorn, ReplayComplete, Conclude, Verify,
           AskModel, ModelFails, PolicyViolated, PersistStart, Persist, PersistFails
  <2>2. CASE Diffs
    BY <2>2 DEF Diffs, CumulativeWrite, CumulativeRest, CumulativeReplay, CumulativeFails
  <2>3. CASE Gate \/ ValidateInput
    BY <2>3 DEF Gate, ValidateInput, Interrupt, AwaitApproval, RejectCandidate
  <2>4. CASE Applying
    BY <2>4 DEF Applying, ApplyRefused, ApplyReplay, ApplyObserve, ApplySome, ApplyAll,
                ApplyRollback, ApplyUnsynced, PersistApply, PersistApplyMark
  <2>5. CASE Audit
    BY <2>5
       DEF Audit, AppendEvent, FinalizeEvent, LogUnreadable, EventFails, WriteReport, ReportRest,
           ReplayReport, MarkReport, MarkRest, Reported, ReportFails
  <2>6. CASE Ending \/ Crash
    BY <2>6 DEF Ending, Commit, Flush, Exit, Crash
  <2>7. CASE RunCommand \/ \E d \in {"approve", "reject"} : ResumeCommand(d)
    BY <2>7 DEF RunCommand, ResumeCommand, Resumed, Begin
  <2>8. CASE (\E S \in SUBSET Attempts \ {{}}, v \in Views : Edit(S, v)) \/ UNCHANGED vars
    BY <2>8 DEF Edit, vars
  <2> QED
    BY <2>1, <2>2, <2>3, <2>4, <2>5, <2>6, <2>7, <2>8 DEF Next, Step
<1> QED
  BY <1>1, <1>2, FreshSound DEF RestInv, Bounded

LEMMA RestStep == IInv /\ IInv' /\ RestInv /\ [Next]_vars => RestInv'
<1> SUFFICES ASSUME IInv, IInv', RestInv, [Next]_vars PROVE RestInv'
  OBVIOUS
<1>0. upd' \in Checkpoints
  BY UpdType
<1>m. mem \in Checkpoints /\ ws \in [Attempts -> Views]
  BY DEF IInv, CheckpointInv, Sound, Bounded, TypingInv
<1>s. mem.node \in Claiming \cup {"apply_candidate"} => Slot \in Slots
  BY SlotExists DEF IInv, CheckpointInv, Sound
<1> USE DEF process, durable, NoWork, NoEnv, Produce, Goto, Hold, Leave
<1>1. CASE Ledgers
  <2>1. CASE Persist
    <3>1. found' \in [Slots -> Results]
      BY <2>1, <1>s DEF Persist, RestInv
    <3> QED
      BY <2>1, <3>1, <1>0 DEF Persist, Conclude, RestInv, Points
  <2>2. CASE ~Persist
    BY <1>1, <2>2, <1>0
       DEF Ledgers, Claim, RefuseClaimed, ReplayTorn, ReplayComplete, Conclude, Verify,
           AskModel, ModelFails, PolicyViolated, PersistStart, PersistFails, RestInv, Points,
           Exits, Results, Verdicts
  <2> QED
    BY <2>1, <2>2
<1>2. CASE Diffs
  <2>1. cumulative' \in Views \cup {"none", "torn"}
    <3>1. CASE CumulativeRest
      <4>1. mem.node = "repair_verification" /\ Attempt \in Attempts
        BY <3>1, <1>m, AttemptsAssumption
           DEF CumulativeRest, IInv, PointInv, CheckpointInv, Sound, Bounded, Attempting,
               Checkpoints, Attempt, Attempts
      <4> QED
        BY <3>1, <4>1, <1>m DEF CumulativeRest
    <3>2. CASE ~CumulativeRest
      BY <1>2, <3>2
         DEF Diffs, CumulativeWrite, CumulativeReplay, CumulativeFails, RestInv
    <3> QED
      BY <3>1, <3>2
  <2> QED
    BY <1>2, <2>1, <1>0
       DEF Diffs, CumulativeWrite, CumulativeRest, CumulativeReplay, CumulativeFails, RestInv,
           Points
<1>3. CASE Gate \/ ValidateInput
  BY <1>3, <1>0
     DEF Gate, ValidateInput, Interrupt, AwaitApproval, RejectCandidate, RestInv, Points, Exits
<1>4. CASE Applying
  <2>1. CASE PersistApplyMark
    <3>1. found' \in [Slots -> Results]
      BY <2>1, <1>s DEF PersistApplyMark, RestInv, IInv, PointInv
    <3> QED
      BY <2>1, <3>1, <1>0 DEF PersistApplyMark, RestInv, Points
  <2>2. CASE ~PersistApplyMark
    BY <1>4, <2>2, <1>0
       DEF Applying, ApplyRefused, ApplyReplay, ApplyObserve, ApplySome, ApplyAll,
           ApplyRollback, ApplyUnsynced, PersistApply, RestInv, Points, Observation, Results,
           Applied, Look
  <2> QED
    BY <2>1, <2>2
<1>5. CASE Audit
  <2>1. CASE AppendEvent \/ FinalizeEvent \/ EventFails
    <3>1. events' \subseteq EventRecords /\ IsFiniteSet(events')
      <4>1. CASE UNCHANGED events
        BY <4>1 DEF RestInv
      <4>2. CASE \E c \in {mem, upd} : Append1(Event(c))
        BY <4>2, <1>m, EventType DEF RestInv
      <4> QED
        BY <2>1, <4>1, <4>2
           DEF AppendEvent, FinalizeEvent, EventFails, Append1, Appended, Event
    <3> QED
      <4>1. CASE AppendEvent \/ FinalizeEvent
        BY <4>1, <3>1, <1>0 DEF AppendEvent, FinalizeEvent, RestInv, Points, Exits
      <4>2. CASE EventFails
        <5>1. crashes' = crashes \/ crashes' = crashes + 1
          BY <4>2 DEF EventFails
        <5>2. torn' = torn \/ torn' = TRUE
          BY <4>2 DEF EventFails
        <5>3. crashes' \in Nat
          BY <5>1 DEF RestInv
        <5>4. torn' \in BOOLEAN
          BY <5>2, Zenon DEF RestInv
        <5> QED
          BY <4>2, <3>1, <5>3, <5>4, <1>0 DEF EventFails, RestInv, Points, Exits
      <4> QED
        BY <2>1, <4>1, <4>2
  <2>2. CASE WriteReport \/ ReportRest \/ MarkReport \/ MarkRest
    <3>1. report' \in Reports
      BY <2>2, <1>m, ReportType DEF WriteReport, ReportRest, MarkReport, MarkRest
    <3> QED
      BY <2>2, <3>1, <1>0
         DEF WriteReport, ReportRest, MarkReport, MarkRest, Reported, RestInv, Points
  <2>3. CASE LogUnreadable \/ ReplayReport \/ ReportFails
    BY <2>3, <1>0
       DEF LogUnreadable, ReplayReport, Reported, ReportFails, RestInv, Points, Exits
  <2> QED
    BY <1>5, <2>1, <2>2, <2>3 DEF Audit
<1>6. CASE Ending
  BY <1>6, <1>0 DEF Ending, Commit, Flush, Exit, RestInv, Points, Exits, Results, Commands
<1>9. CASE Crash
  <2>1. torn' \in BOOLEAN
    BY <1>9 DEF Crash, RestInv
  <2> QED
    BY <1>9, <1>0, <2>1 DEF Crash, RestInv, Points, Exits, Results, Commands
<1>7. CASE RunCommand \/ \E d \in {"approve", "reject"} : ResumeCommand(d)
  BY <1>7, <1>0 DEF RunCommand, ResumeCommand, Resumed, Begin, RestInv, Points, Exits, Commands
<1>8. CASE (\E S \in SUBSET Attempts \ {{}}, v \in Views : Edit(S, v)) \/ UNCHANGED vars
  BY <1>8, <1>0 DEF Edit, vars, RestInv
<1> QED
  BY <1>1, <1>2, <1>3, <1>4, <1>5, <1>6, <1>7, <1>8, <1>9 DEF Next, Step

-----------------------------------------------------------------------------
(***************************************************************************)
(* Ledgers.  What a complete one holds is of its kind and is never written *)
(* again; a call at a persisting step owns an incomplete one.              *)
(***************************************************************************)
Kept == {s \in Slots : s[1] # "apply"}

Kind(s) == IF s[1] \in {"baseline", "verification"} THEN Verdicts ELSE {"typed"}

FoundInv ==
    /\ \A s \in Kept : slot[s] = "complete" => found[s] \in Kind(s)
    /\ \A s \in Kept : slot[s] # "complete" => found[s] = "none"
    /\ pc \in {"persist", "persist_rest"} =>
          slot[Slot] \in {"claimed", "torn"} /\ got \in Kind(Slot)
    /\ pc \in {"cumulative", "cumulative_rest"} => found[Slot] = "passed"
    /\ pc = "cumulative_rest" => cumulative = "torn"
    /\ (pc \in {"persist_apply", "persist_mark"} /\ got \in Applied /\ edits = 0) => View = "after"

(***************************************************************************)
(* What must have happened for a checkpoint to be there.                   *)
(***************************************************************************)
Repairing == {"create_plan", "create_candidate", "approval_gate", "reject_candidate",
              "apply_candidate", "repair_verification", "create_diagnosis"}

\* The facts behind a success in the attempt n.
Won(n) ==
    /\ n \in Attempts /\ Approved(n)
    /\ found[<<"baseline", 0>>] = "failed" /\ found[<<"verification", n>>] = "passed"
    /\ slot[<<"candidate", n>>] = "complete"
    /\ cumulative \in Views
    /\ edits = 0 => ws[n] = "after" /\ cumulative = "after"

Earned(c) ==
    /\ c.node \in Repairing => found[<<"baseline", 0>>] = "failed"
    /\ c.node = "create_candidate" /\ c.attempt >= 1 => found[<<"diagnosis", c.attempt>>] = "typed"
    /\ c.node \in {"approval_gate", "apply_candidate", "repair_verification"} =>
          slot[<<"candidate", c.attempt + 1>>] = "complete"
    /\ c.node = "repair_verification" =>
          Approved(c.attempt + 1) /\ (edits = 0 => ws[c.attempt + 1] = "after")
    /\ c.node = "create_diagnosis" => found[<<"verification", c.attempt>>] = "failed"
    /\ c.node = "finalize_report" => c.status \in Terminal
    /\ c.status = "succeeded" => Won(c.attempt)

EarnedInv ==
    /\ Earned(ckpt) /\ Earned(mem)
    /\ \A k \in 1 .. Len(pend) : Earned(pend[k])
    /\ pc \in {"event", "commit"} => Earned(upd)
    /\ report.status = "succeeded" => Won(report.attempt)

Latest == IF pend = << >> THEN ckpt ELSE pend[Len(pend)]

SettledInv ==
    /\ pc = "idle" => pend = << >>
    /\ pc # "idle" => Latest = mem
    /\ exit = "ok" => pc \in {"exit", "idle"}
    /\ pc = "exit" /\ exit = "ok" => mem.node \in {"approval_gate", "END"}
    /\ CommandsSettle

Reporting == {"report", "report_rest", "report_mark", "report_mark_rest"}

Complete(c) ==
    /\ c.status \in Terminal /\ ~torn
    /\ report = [stage |-> "complete", status |-> c.status, attempt |-> c.attempt,
                 events |-> Cardinality(events)]

EndInv ==
    /\ pc \in Reporting => mem.node = "finalize_report"
    /\ pc \in Reporting \cup {"commit"} => ~torn
    /\ \A c \in {ckpt, mem} : c.node = "END" => Complete(c) /\ pc \in {"exit", "idle"}
    /\ \A k \in 1 .. Len(pend) : pend[k].node = "END" => Complete(pend[k]) /\ pc = "exit"
    /\ pc = "event" => upd.node # "END"
    /\ pc = "commit" /\ upd.node = "END" => Complete(upd)

-----------------------------------------------------------------------------
(* Ledgers *)

LEMMA SlotKept == ASSUME IInv, mem.node \in Claiming PROVE Slot \in Kept
<1>1. Slot \in Slots
  BY SlotExists DEF IInv, CheckpointInv, Sound
<1>2. Slot[1] # "apply"
  BY DEF Slot, Claiming, Verifying, Modelling
<1> QED
  BY <1>1, <1>2 DEF Kept

\* Steps that touch no ledger and reach no point where a result is held.
Still ==
    /\ UNCHANGED <<slot, found>>
    /\ cumulative' = cumulative
    /\ \/ pc' \notin {"persist", "persist_rest", "cumulative", "cumulative_rest", "persist_apply",
                      "persist_mark"}
       \/ UNCHANGED <<pc, mem, got, ws, edits>>

LEMMA StillStep == FoundInv /\ Still => FoundInv'
  BY DEF FoundInv, Still, Slot, Attempt, View

LEMMA FoundStep == IInv /\ RestInv /\ FoundInv /\ [Next]_vars => FoundInv'
<1> SUFFICES ASSUME IInv, RestInv, FoundInv, [Next]_vars PROVE FoundInv'
  OBVIOUS
<1>0. mem.node \in Claiming => Slot \in Kept /\ Slot \in Slots
  BY SlotKept DEF Kept
<1>a. UNCHANGED mem => Slot' = Slot /\ Attempt' = Attempt
  BY DEF Slot, Attempt
<1>b. slot \in [Slots -> Stages] /\ found \in [Slots -> Results]
  BY DEF IInv, EffectInv, RestInv
<1> USE DEF process, durable, NoWork, NoEnv, Produce, Goto, Hold, Leave
<1>1. CASE Claim
  <2>1. Slot \in Kept /\ slot[Slot] = "none" /\ slot' = [slot EXCEPT ![Slot] = "claimed"]
        /\ UNCHANGED <<found, cumulative>> /\ pc' = "work"
    BY <1>0, <1>1 DEF Claim, Claimable, Ready
  <2> HIDE DEF Slot
  <2> QED
    BY <2>1, <1>b DEF FoundInv, Kept, Stages
<1>2. CASE Verify \/ AskModel
  <2>1. Slot \in Kept /\ slot[Slot] = "claimed" /\ UNCHANGED <<slot, found, cumulative, mem>>
        /\ pc' = "persist"
    BY <1>0, <1>2 DEF Verify, AskModel, Claiming, IInv, EffectInv
  <2>2. got' \in Kind(Slot)
    <3>1. CASE Verify
      BY <3>1 DEF Verify, Verifying, Slot, Kind
    <3>2. CASE AskModel
      BY <3>2 DEF AskModel, Modelling, Slot, Kind
    <3> QED
      BY <1>2, <3>1, <3>2
  <2>3. Kind(Slot)' = Kind(Slot)
    BY <1>a, <2>1 DEF Kind
  <2> HIDE DEF Slot, Kind
  <2> QED
    BY <1>a, <2>1, <2>2, <2>3 DEF FoundInv, Kind
<1>3. CASE PersistStart
  <2>1. Slot \in Kept /\ slot[Slot] # "complete" /\ slot' = [slot EXCEPT ![Slot] = "torn"]
        /\ got \in Kind(Slot) /\ UNCHANGED <<found, cumulative, mem, got>> /\ pc' = "persist_rest"
    BY <1>0, <1>3 DEF PersistStart, InPlace, Claiming, Verifying, Modelling, FoundInv
  <2> HIDE DEF Slot
  <2> QED
    BY <1>a, <1>b, <2>1 DEF FoundInv, Kept, Stages, Kind
<1>4. CASE Persist
  <2>1. /\ Slot \in Kept /\ got \in Kind(Slot) /\ UNCHANGED <<cumulative, mem, got>>
        /\ slot' = [slot EXCEPT ![Slot] = "complete"] /\ found' = [found EXCEPT ![Slot] = got]
        /\ pc' = "event" \/ (pc' = "cumulative" /\ got = "passed")
    BY <1>0, <1>4 DEF Persist, Conclude, FoundInv, IInv, PointInv
  <2> HIDE DEF Slot
  <2>2. /\ \A s \in Kept : slot'[s] = "complete" => found'[s] \in Kind(s)
        /\ \A s \in Kept : slot'[s] # "complete" => found'[s] = "none"
    BY <1>b, <2>1 DEF FoundInv, Kept, Stages
  <2> QED
    BY <1>a, <1>b, <2>1, <2>2 DEF FoundInv, Kept, Kind
<1>5. CASE RefuseClaimed \/ ReplayTorn \/ ModelFails \/ PolicyViolated \/ PersistFails
  BY <1>5, StillStep
     DEF RefuseClaimed, ReplayTorn, ModelFails, PolicyViolated, PersistFails, Still
<1>6. CASE ReplayComplete
  BY <1>6, <1>a DEF ReplayComplete, Conclude, FoundInv, Kind
<1>7. CASE Diffs
  BY <1>7, <1>a
     DEF Diffs, CumulativeWrite, CumulativeRest, CumulativeReplay, CumulativeFails, FoundInv, Kind
<1>8. CASE Gate \/ ValidateInput
  BY <1>8, StillStep
     DEF Gate, ValidateInput, Interrupt, AwaitApproval, RejectCandidate, Still
<1>9. CASE ApplyRefused \/ ApplyReplay \/ ApplySome
  BY <1>9, StillStep DEF ApplyRefused, ApplyReplay, ApplySome, Still
<1>10. CASE ApplyObserve \/ ApplyAll \/ ApplyRollback \/ ApplyUnsynced
  <2>1. /\ UNCHANGED <<slot, found, cumulative, mem>>
        /\ pc' \in {"write", "persist_apply", "event"}
    BY <1>10 DEF ApplyObserve, ApplyAll, ApplyRollback, ApplyUnsynced
  <2>2. pc' = "persist_apply" /\ got' \in Applied => View' = "after"
    <3>1. CASE ApplyObserve
      BY <3>1, <1>a DEF ApplyObserve, Observation, Applied, View
    <3>2. CASE ApplyAll
      <4>1. Attempt \in Attempts /\ ws \in [Attempts -> Views]
        BY <3>2, AttemptsAssumption
           DEF ApplyAll, IInv, PointInv, CheckpointInv, Sound, Bounded, Attempting, TypingInv,
               Checkpoints, Attempt, Attempts
      <4> QED
        BY <3>2, <4>1, <1>a DEF ApplyAll, Look, View
    <3>3. CASE ApplyRollback \/ ApplyUnsynced
      BY <3>3 DEF ApplyRollback, ApplyUnsynced, Applied
    <3> QED
      BY <1>10, <3>1, <3>2, <3>3
  <2> QED
    BY <2>1, <2>2, <1>a DEF FoundInv, Kind
<1>11. CASE PersistApply \/ PersistApplyMark
  <2>1. /\ \A s \in Kept : slot'[s] = slot[s] /\ found'[s] = found[s]
        /\ UNCHANGED <<cumulative, mem, ws, edits>>
        /\ pc' = "event" \/ (pc' = "persist_mark" /\ pc = "persist_apply" /\ UNCHANGED got)
    <3>1. mem.node = "apply_candidate"
      BY <1>11 DEF PersistApply, PersistApplyMark, IInv, PointInv
    <3>2. Slot[1] = "apply"
      BY <3>1 DEF Slot
    <3> HIDE DEF Slot
    <3> QED
      BY <1>11, <3>2, <1>b DEF PersistApply, PersistApplyMark, Kept
  <2> QED
    BY <2>1, <1>a DEF FoundInv, View, Kind
<1>12. CASE Audit
  BY <1>12, StillStep
     DEF Audit, AppendEvent, FinalizeEvent, LogUnreadable, EventFails, WriteReport, ReportRest,
         ReplayReport, MarkReport, MarkRest, Reported, ReportFails, Still
<1>13. CASE Ending
  BY <1>13, StillStep DEF Ending, Commit, Flush, Exit, Still
<1>14. CASE RunCommand \/ (\E d \in {"approve", "reject"} : ResumeCommand(d)) \/ Crash
  BY <1>14, StillStep DEF RunCommand, ResumeCommand, Resumed, Begin, Crash, Still
<1>15. CASE \E S \in SUBSET Attempts \ {{}}, v \in Views : Edit(S, v)
  BY <1>15, <1>a DEF Edit, FoundInv, IInv, TypingInv, Kind
<1>16. CASE UNCHANGED vars
  BY <1>16, StillStep DEF vars, Still
<1> QED
  BY <1>1, <1>2, <1>3, <1>4, <1>5, <1>6, <1>7, <1>8, <1>9, <1>10, <1>11, <1>12, <1>13,
     <1>14, <1>15, <1>16
     DEF Next, Step, Ledgers, Applying

-----------------------------------------------------------------------------
(* How commands end *)

\* Steps of a node: the checkpoints stay, and the command does not end normally.
Working ==
    /\ UNCHANGED <<ckpt, mem, pend>>
    /\ pc \notin {"idle", "exit"} /\ pc' # "idle"
    /\ IF pc' = "exit" THEN exit' \notin {"ok", "none"} ELSE UNCHANGED exit

LEMMA WorkingStep == SettledInv /\ Working => SettledInv'
  BY DEF SettledInv, Working, Latest, CommandsSettle

LEMMA WorkingSteps ==
    ValidateInput \/ Ledgers \/ Diffs \/ AwaitApproval \/ RejectCandidate \/ Applying \/ Audit
        => Working
<1> USE DEF Working, process, durable, NoWork, Produce, Goto, Hold, Leave, AtNode, Ready,
            Appending
<1>1. CASE Ledgers
  BY <1>1
     DEF Ledgers, Claim, RefuseClaimed, ReplayTorn, ReplayComplete, Conclude, Verify,
         AskModel, ModelFails, PolicyViolated, PersistStart, Persist, PersistFails
<1>2. CASE Diffs
  BY <1>2 DEF Diffs, CumulativeWrite, CumulativeRest, CumulativeReplay, CumulativeFails
<1>3. CASE ValidateInput \/ AwaitApproval \/ RejectCandidate
  BY <1>3 DEF ValidateInput, AwaitApproval, RejectCandidate
<1>4. CASE Applying
  BY <1>4 DEF Applying, ApplyRefused, ApplyReplay, ApplyObserve, ApplySome, ApplyAll,
              ApplyRollback, ApplyUnsynced, PersistApply, PersistApplyMark
<1>5. CASE Audit
  BY <1>5
     DEF Audit, AppendEvent, FinalizeEvent, LogUnreadable, EventFails, WriteReport, ReportRest,
         ReplayReport, MarkReport, MarkRest, Reported, ReportFails
<1> QED
  BY <1>1, <1>2, <1>3, <1>4, <1>5

LEMMA SettledStep == IInv /\ SettledInv /\ [Next]_vars => SettledInv'
<1> SUFFICES ASSUME IInv, SettledInv, [Next]_vars PROVE SettledInv'
  OBVIOUS
<1>0. pend \in Seq(Checkpoints)
  BY DEF IInv, CheckpointInv
<1> USE DEF process, durable, NoWork, NoEnv
<1>1. CASE Interrupt
  BY <1>1 DEF Interrupt, Leave, AtNode, Ready, SettledInv, Latest, CommandsSettle
<1>2. CASE Commit
  <2>1. upd \in Checkpoints
    BY <1>2 DEF Commit, IInv, CheckpointInv, Sound, Bounded
  <2>2. pend' # << >> /\ pend'[Len(pend')] = upd
    BY <1>0, <1>2, <2>1 DEF Commit
  <2> QED
    BY <1>2, <2>2 DEF Commit, SettledInv, Latest, CommandsSettle
<1>3. CASE Flush
  <2>1. Latest' = Latest
    <3>1. /\ Len(pend) \in Nat \ {0} /\ Len(Tail(pend)) = Len(pend) - 1
          /\ \A k \in 1 .. Len(pend) - 1 : Tail(pend)[k] = pend[k + 1]
      BY <1>0, <1>3 DEF Flush
    <3>2. CASE Len(pend) = 1
      BY <1>0, <1>3, <3>1, <3>2 DEF Flush, Latest
    <3>3. CASE Len(pend) > 1
      <4>1. Tail(pend) # << >>
        <5>1. Len(Tail(pend)) # 0
          BY <3>1, <3>3
        <5>2. Len(<< >>) = 0
          OBVIOUS
        <5> QED
          BY <5>1, <5>2, Zenon
      <4>2. Tail(pend)[Len(pend) - 1] = pend[Len(pend)]
        BY <3>1, <3>3
      <4> QED
        BY <1>3, <3>1, <4>1, <4>2 DEF Flush, Latest
    <3> QED
      BY <3>1, <3>2, <3>3
  <2>2. pc # "idle"
    BY <1>3 DEF Flush, SettledInv
  <2> QED
    BY <1>3, <2>1, <2>2 DEF Flush, SettledInv, CommandsSettle
<1>4. CASE Exit
  BY <1>4 DEF Exit, Flushed, SettledInv, Latest, CommandsSettle
<1>5. CASE RunCommand
  <2> DEFINE c == [Fresh EXCEPT !.status = "created"]
  <2> HIDE DEF c
  <2>1. mem' = c /\ pend' = <<c>> /\ pc' = "node" /\ exit' = "none"
    BY <1>5 DEF RunCommand, Begin, c
  <2> QED
    BY <2>1 DEF SettledInv, Latest, CommandsSettle
<1>6. CASE \E d \in {"approve", "reject"} : ResumeCommand(d)
  BY <1>6 DEF ResumeCommand, Resumed, Begin, SettledInv, Latest, CommandsSettle
<1>7. CASE Crash
  BY <1>7 DEF Crash, SettledInv, CommandsSettle
<1>8. CASE (\E S \in SUBSET Attempts \ {{}}, v \in Views : Edit(S, v)) \/ UNCHANGED vars
  BY <1>8 DEF Edit, vars, SettledInv, Latest, CommandsSettle
<1> QED
  BY <1>1, <1>2, <1>3, <1>4, <1>5, <1>6, <1>7, <1>8, WorkingStep, WorkingSteps
     DEF Next, Step, Gate, Ending

-----------------------------------------------------------------------------
(***************************************************************************)
(* What justified a checkpoint is never undone: results and events stay,   *)
(* and so does a candidate in the workspace unless somebody edits it.      *)
(***************************************************************************)
Grow ==
    /\ \A s \in Kept : found[s] # "none" => found'[s] = found[s]
    /\ \A n \in Attempts : slot[<<"candidate", n>>] = "complete" =>
          /\ slot'[<<"candidate", n>>] = "complete"
          /\ edits' = 0 => edits = 0 /\ (ws[n] = "after" => ws'[n] = "after")
    /\ events \subseteq events'
    /\ cumulative \in Views => cumulative' = cumulative

LEMMA KeptSlots ==
    /\ <<"baseline", 0>> \in Kept
    /\ \A n \in Attempts : /\ <<"candidate", n>> \in Kept /\ <<"verification", n>> \in Kept
                           /\ <<"diagnosis", n>> \in Kept
  BY DEF Kept, Slots

LEMMA GrowStep == IInv /\ RestInv /\ FoundInv /\ [Next]_vars => Grow
<1> SUFFICES ASSUME IInv, RestInv, FoundInv, [Next]_vars PROVE Grow
  OBVIOUS
<1>0. mem.node \in Claiming => Slot \in Kept /\ Slot \in Slots
  BY SlotKept DEF Kept
<1>a. /\ slot \in [Slots -> Stages] /\ found \in [Slots -> Results]
      /\ ws \in [Attempts -> Views] /\ edits \in Nat
  BY DEF IInv, EffectInv, TypingInv, RestInv
<1> USE DEF process, durable, NoWork, NoEnv, Produce, Goto, Hold, Leave, Grow
<1>1. CASE Claim
  <2>1. slot[Slot] = "none" /\ slot' = [slot EXCEPT ![Slot] = "claimed"]
        /\ UNCHANGED <<found, cumulative, events, ws, edits>>
    BY <1>1 DEF Claim, Claimable
  <2> HIDE DEF Slot
  <2> QED
    BY <2>1, <1>a, KeptSlots DEF Kept
<1>2. CASE PersistStart
  <2>1. slot[Slot] # "complete" /\ slot' = [slot EXCEPT ![Slot] = "torn"]
        /\ UNCHANGED <<found, cumulative, events, ws, edits>>
    BY <1>2 DEF PersistStart, FoundInv
  <2> HIDE DEF Slot
  <2> QED
    BY <2>1, <1>a, KeptSlots DEF Kept
<1>3. CASE Persist
  <2>1. /\ Slot \in Kept /\ slot[Slot] # "complete" /\ found[Slot] = "none"
        /\ slot' = [slot EXCEPT ![Slot] = "complete"] /\ found' = [found EXCEPT ![Slot] = got]
        /\ UNCHANGED <<cumulative, events, edits>>
    BY <1>0, <1>3 DEF Persist, FoundInv, IInv, PointInv
  <2>2. \A n \in Attempts : slot[<<"candidate", n>>] = "complete" => ws'[n] = ws[n]
    <3>1. CASE mem.node = "create_candidate"
      <4>1. Slot = <<"candidate", Attempt>> /\ ws' = [ws EXCEPT ![Attempt] = "before"]
        BY <1>3, <3>1 DEF Persist, Slot
      <4> HIDE DEF Slot
      <4> QED
        BY <2>1, <4>1, <1>a
    <3>2. CASE mem.node # "create_candidate"
      BY <1>3, <3>2 DEF Persist
    <3> QED
      BY <3>1, <3>2
  <2> HIDE DEF Slot
  <2> QED
    BY <2>1, <2>2, <1>a, KeptSlots DEF Kept
<1>4. CASE RefuseClaimed \/ ReplayTorn \/ ReplayComplete \/ Verify \/ AskModel \/ ModelFails
           \/ PolicyViolated \/ PersistFails
  BY <1>4
     DEF RefuseClaimed, ReplayTorn, ReplayComplete, Conclude, Verify, AskModel, ModelFails,
         PolicyViolated, PersistFails
<1>5. CASE Diffs
  BY <1>5
     DEF Diffs, CumulativeWrite, CumulativeRest, CumulativeReplay, CumulativeFails, FoundInv,
         Views
<1>6. CASE Gate \/ ValidateInput
  BY <1>6 DEF Gate, ValidateInput, Interrupt, AwaitApproval, RejectCandidate
<1>7. CASE ApplySome \/ ApplyAll \/ ApplyRollback \/ ApplyUnsynced
  <2>1. UNCHANGED <<slot, found, cumulative, events, edits>>
    BY <1>7 DEF ApplySome, ApplyAll, ApplyRollback, ApplyUnsynced
  <2>2. \A n \in Attempts : ws[n] = "after" => ws'[n] = "after"
    BY <1>7, <1>a DEF ApplySome, ApplyAll, ApplyRollback, ApplyUnsynced, Look, View
  <2> QED
    BY <2>1, <2>2
<1>8. CASE PersistApply \/ PersistApplyMark
  <2>1. Slot[1] = "apply"
    BY <1>8 DEF PersistApply, PersistApplyMark, IInv, PointInv, Slot
  <2> HIDE DEF Slot
  <2>2. UNCHANGED <<cumulative, events, ws, edits>>
        /\ \A s \in Kept : slot'[s] = slot[s] /\ found'[s] = found[s]
    BY <1>8, <2>1, <1>a DEF PersistApply, PersistApplyMark, Kept
  <2> QED
    BY <2>2, KeptSlots
<1>9. CASE ApplyRefused \/ ApplyReplay \/ ApplyObserve
  BY <1>9 DEF ApplyRefused, ApplyReplay, ApplyObserve
<1>10. CASE Audit
  BY <1>10
     DEF Audit, AppendEvent, FinalizeEvent, LogUnreadable, EventFails, WriteReport,
         ReportRest, Append1, ReplayReport, MarkReport, MarkRest, Reported, ReportFails
<1>11. CASE Ending
  BY <1>11 DEF Ending, Commit, Flush, Exit
<1>12. CASE RunCommand \/ (\E d \in {"approve", "reject"} : ResumeCommand(d)) \/ Crash
  BY <1>12 DEF RunCommand, ResumeCommand, Resumed, Begin, Crash
<1>13. CASE \E S \in SUBSET Attempts \ {{}}, v \in Views : Edit(S, v)
  BY <1>13, <1>a DEF Edit
<1>14. CASE UNCHANGED vars
  BY <1>14 DEF vars
<1> QED
  BY <1>1, <1>2, <1>3, <1>4, <1>5, <1>6, <1>7, <1>8, <1>9, <1>10, <1>11, <1>12, <1>13, <1>14
     DEF Next, Step, Ledgers, Applying

\* So a checkpoint that is earned stays so.
LEMMA WonStays ==
    ASSUME Grow, NEW n, Won(n)
    PROVE  Won(n)'
  BY KeptSlots DEF Grow, Won, Approved, Keys, Kind, Verdicts

LEMMA EarnedStays ==
    ASSUME Grow, RestInv, NEW c, Bounded(c), Earned(c)
    PROVE  Earned(c)'
<1>1. c.status = "succeeded" => Won(c.attempt)'
  BY WonStays DEF Earned
<1>2. c.node \in Attempting => c.attempt + 1 \in Attempts
  BY AttemptsAssumption DEF Bounded, Checkpoints, Attempts
<1>3. c.node = "create_diagnosis" => c.attempt \in Attempts
  BY AttemptsAssumption DEF Bounded, Checkpoints, Attempts
<1>4. c.node = "create_candidate" /\ c.attempt >= 1 => c.attempt \in Attempts
  BY AttemptsAssumption DEF Bounded, Checkpoints, Attempts
<1> QED
  BY <1>1, <1>2, <1>3, <1>4, KeptSlots
     DEF Grow, Earned, Approved, Keys, Attempting

-----------------------------------------------------------------------------
(* What a node produces is earned *)

\* An end other than success, and a node outside the repair, need no more.
LEMMA EndEarned ==
    ASSUME NEW c, c.node = "finalize_report", c.status \in Terminal \ {"succeeded"}
    PROVE  Earned(c)'
  BY DEF Earned, Repairing

LEMMA OutsideEarned ==
    ASSUME NEW c, c.node \notin Repairing \cup {"finalize_report"}, c.status # "succeeded"
    PROVE  Earned(c)'
  BY DEF Earned, Repairing

LEMMA ErroredEarned ==
    ASSUME mem \in Checkpoints,
           NEW c, c \in {Errored, Verified(Errored)} \cup {Using(Errored, u) : u \in Usages}
    PROVE  Earned(c)'
<1>1. c.node = "finalize_report" /\ c.status = "error"
  BY DEF Errored, Ended, Moved, Verified, Using, Checkpoints
<1> QED
  BY <1>1, EndEarned DEF Terminal

\* create_once, verify: the update of a node whose ledger holds o.
LEMMA ConcludedEarned ==
    ASSUME IInv, mem.node \in Claiming, Earned(mem)', UNCHANGED mem, NEW o, o \in Kind(Slot),
           slot'[Slot] = "complete", found'[Slot] = o,
           ~(mem.node = "repair_verification" /\ o = "passed"), upd' = After(o)
    PROVE  Earned(upd)'
<1>0. mem \in Checkpoints
  BY DEF IInv, CheckpointInv, Sound, Bounded
<1>1. CASE mem.node = "baseline_verification"
  <2>1. Slot = <<"baseline", 0>> /\ o \in Verdicts
    BY <1>1 DEF Slot, Kind
  <2>2. CASE o = "failed"
    <3>1. upd'.node = "create_plan" /\ upd'.status = "baseline_failed"
      BY <1>0, <1>1, <2>2 DEF After, AfterBaseline, Moved, Checkpoints
    <3> QED
      BY <2>1, <2>2, <3>1 DEF Earned
  <2>3. CASE o # "failed"
    BY <1>0, <1>1, <2>1, <2>3, EndEarned
       DEF After, AfterBaseline, Errored, Ended, Moved, Checkpoints, Terminal
  <2> QED
    BY <2>2, <2>3
<1>2. CASE mem.node = "create_plan"
  <2>1. upd'.node = "create_candidate" /\ upd'.status = "planned" /\ upd'.attempt = 0
    BY <1>0, <1>2 DEF After, AfterPlan, Using, Moved, Checkpoints
  <2>2. (found[<<"baseline", 0>>] = "failed")'
    BY <1>2 DEF Earned, Repairing
  <2> QED
    BY <2>1, <2>2 DEF Earned
<1>3. CASE mem.node = "create_candidate"
  <2>1. /\ upd'.node = "approval_gate" /\ upd'.status = "pending_approval"
        /\ upd'.attempt = mem.attempt
    BY <1>0, <1>3 DEF After, AfterCandidate, Using, Moved, Checkpoints
  <2>2. (found[<<"baseline", 0>>] = "failed")'
    BY <1>3 DEF Earned, Repairing
  <2>3. Slot = <<"candidate", mem.attempt + 1>>
    BY <1>3 DEF Slot, Attempt
  <2> HIDE DEF Slot
  <2> QED
    BY <2>1, <2>2, <2>3 DEF Earned
<1>4. CASE mem.node = "repair_verification"
  <2>1. Slot = <<"verification", mem.attempt + 1>> /\ o \in Verdicts
    BY <1>4 DEF Slot, Attempt, Kind
  <2>2. (found[<<"baseline", 0>>] = "failed")'
    BY <1>4 DEF Earned, Repairing
  <2>3. CASE o = "failed"
    <3>1. /\ upd'.node = "create_diagnosis" /\ upd'.status = "diagnosing"
          /\ upd'.attempt = mem.attempt + 1
      BY <1>0, <1>4, <2>3 DEF After, AfterVerification, Verified, Moved, Checkpoints
    <3> HIDE DEF Slot
    <3> QED
      BY <2>1, <2>2, <2>3, <3>1 DEF Earned
  <2>4. CASE o # "failed"
    <3>1. upd' = Verified(Errored)
      BY <1>4, <2>1, <2>4 DEF After, AfterVerification, Verdicts, Verified
    <3> QED
      BY <1>0, <3>1, ErroredEarned
  <2> QED
    BY <2>3, <2>4
<1>5. CASE mem.node = "create_diagnosis"
  <2>1. Slot = <<"diagnosis", mem.attempt>> /\ o = "typed"
    BY <1>5 DEF Slot, Attempt, Kind
  <2>2. (found[<<"baseline", 0>>] = "failed")'
    BY <1>5 DEF Earned, Repairing
  <2>3. upd' = Using(AfterDiagnosis, "added")
    BY <1>5 DEF After
  <2>4. CASE mem.attempt >= MAX_REPAIR_ATTEMPTS
    BY <1>0, <2>3, <2>4, EndEarned DEF AfterDiagnosis, Using, Ended, Moved, Checkpoints, Terminal
  <2>5. CASE ~(mem.attempt >= MAX_REPAIR_ATTEMPTS)
    <3>1. /\ upd'.node = "create_candidate" /\ upd'.status = "diagnosed"
          /\ upd'.attempt = mem.attempt
      BY <1>0, <2>3, <2>5 DEF AfterDiagnosis, Using, Moved, Checkpoints
    <3> HIDE DEF Slot
    <3> QED
      BY <2>1, <2>2, <3>1 DEF Earned
  <2> QED
    BY <2>4, <2>5
<1> QED
  BY <1>1, <1>2, <1>3, <1>4, <1>5 DEF Claiming, Verifying, Modelling

\* repair_verification: success is produced once the cumulative diff shows the
\* workspace, in which the approved candidate was found.
LEMMA SuccessEarned ==
    ASSUME RestInv, IInv, mem.node = "repair_verification", Earned(mem)', UNCHANGED mem,
           found'[Slot] = "passed", cumulative' = ws[Attempt], UNCHANGED <<ws, edits>>,
           upd' = After("passed")
    PROVE  Earned(upd)'
<1>1. mem \in Checkpoints /\ Attempt = mem.attempt + 1 /\ Attempt \in Attempts
  BY AttemptsAssumption
     DEF IInv, CheckpointInv, Sound, Bounded, Attempting, Checkpoints, Attempt, Attempts
<1>2. Slot = <<"verification", mem.attempt + 1>>
  BY DEF Slot, Attempt
<1> HIDE DEF Slot
<1>3. upd'.node = "finalize_report" /\ upd'.status = "succeeded" /\ upd'.attempt = mem.attempt + 1
  BY <1>1 DEF After, AfterVerification, Verified, Ended, Moved, Checkpoints
<1>4. ws[Attempt] \in Views
  BY <1>1 DEF IInv, TypingInv
<1>5. Won(mem.attempt + 1)'
  BY <1>1, <1>2, <1>4 DEF Earned, Won, Repairing
<1>6. Won(upd.attempt)'
  BY <1>3, <1>5
<1> QED
  BY <1>3, <1>6 DEF Earned, Repairing, Terminal

\* apply_candidate: a candidate that is found applied is in the workspace.
LEMMA AppliedEarned ==
    ASSUME IInv, mem.node = "apply_candidate", Earned(mem)', UNCHANGED mem,
           events \subseteq events',
           NEW o, upd' = AfterApply(o),
           (o \in Applied /\ edits = 0) => View = "after", UNCHANGED <<ws, edits>>
    PROVE  Earned(upd)'
<1>1. mem \in Checkpoints /\ Attempt = mem.attempt + 1 /\ Approved(mem.attempt + 1)'
  BY DEF IInv, CheckpointInv, Sound, Bounded, Attempt, Approved, Keys
<1>2. CASE o \in Applied
  <2>1. /\ upd'.node = "repair_verification" /\ upd'.status = "testing"
        /\ upd'.attempt = mem.attempt
    BY <1>1, <1>2 DEF AfterApply, Applied, Moved, Checkpoints
  <2>2. /\ (found[<<"baseline", 0>>] = "failed")'
        /\ (slot[<<"candidate", mem.attempt + 1>>] = "complete")'
    BY DEF Earned, Repairing
  <2>3. Approved(upd.attempt + 1)'
    BY <1>1, <2>1
  <2> QED
    BY <1>1, <1>2, <2>1, <2>2, <2>3 DEF Earned, View
<1>3. CASE o \notin Applied
  <2>1. upd' \in {Ended("workspace_changed"), Errored}
    BY <1>3 DEF AfterApply
  <2> QED
    BY <1>1, <2>1, EndEarned DEF Errored, Ended, Moved, Checkpoints, Terminal
<1> QED
  BY <1>2, <1>3

LEMMA HeldEarned ==
    ASSUME IInv, RestInv, EarnedInv, Grow, UNCHANGED <<ckpt, mem, pend>>
    PROVE  Earned(ckpt)' /\ Earned(mem)' /\ (\A k \in 1 .. Len(pend) : Earned(pend[k]))'
<1>1. Earned(ckpt)' /\ Earned(mem)'
  BY EarnedStays DEF EarnedInv, IInv, CheckpointInv, Sound
<1>2. \A k \in 1 .. Len(pend) : Bounded(pend[k]) /\ Earned(pend[k])
  BY DEF EarnedInv, IInv, CheckpointInv, Sound
<1> HIDE DEF Earned, Bounded
<1>3. \A k \in 1 .. Len(pend) : Earned(pend[k])'
  <2> SUFFICES ASSUME NEW k \in 1 .. Len(pend) PROVE Earned(pend[k])'
    OBVIOUS
  <2>1. \A c : Bounded(c) /\ Earned(c) => Earned(c)'
    BY EarnedStays
  <2> QED
    BY <1>2, <2>1
<1> QED
  BY <1>1, <1>3

LEMMA ReportEarned ==
    ASSUME RestInv, EarnedInv, Grow, Earned(mem)', UNCHANGED mem,
           UNCHANGED report \/ \E s : report' = Report(s)
    PROVE  (report.status = "succeeded" => Won(report.attempt))'
<1>1. CASE UNCHANGED report
  BY <1>1, WonStays DEF EarnedInv
<1>2. CASE \E s : report' = Report(s)
  <2>1. report'.status = mem.status /\ report'.attempt = mem.attempt
    BY <1>2 DEF Report
  <2>2. mem.status = "succeeded" => Won(mem.attempt)'
    BY DEF Earned
  <2> QED
    BY <2>1, <2>2
<1> QED
  BY <1>1, <1>2

\* Every step of a node that holds or produces a state.
Producer ==
    ValidateInput \/ Ledgers \/ Diffs \/ Gate \/ Applying

LEMMA ProducerEarned ==
    ASSUME IInv, RestInv, FoundInv, EarnedInv, Grow, Producer
    PROVE  /\ UNCHANGED <<ckpt, mem, pend, report>>
           /\ pc' \notin {"event", "commit"} \/ Earned(upd)'
<1> USE DEF process, durable, NoWork, NoEnv, Produce, Goto, Hold, Leave
<1>0. mem \in Checkpoints /\ Bounded(mem) /\ Earned(mem)
  BY DEF IInv, CheckpointInv, Sound, Bounded, EarnedInv
<1>1. UNCHANGED <<ckpt, mem, pend, report>>
  <2>1. CASE Ledgers
    BY <2>1
       DEF Ledgers, Claim, RefuseClaimed, ReplayTorn, ReplayComplete, Conclude, Verify,
           AskModel, ModelFails, PolicyViolated, PersistStart, Persist, PersistFails
  <2>2. CASE Diffs
    BY <2>2 DEF Diffs, CumulativeWrite, CumulativeRest, CumulativeReplay, CumulativeFails
  <2>3. CASE Gate \/ ValidateInput
    BY <2>3 DEF Gate, ValidateInput, Interrupt, AwaitApproval, RejectCandidate
  <2>4. CASE Applying
    BY <2>4 DEF Applying, ApplyRefused, ApplyReplay, ApplyObserve, ApplySome, ApplyAll,
                ApplyRollback, ApplyUnsynced, PersistApply, PersistApplyMark
  <2> QED
    BY <2>1, <2>2, <2>3, <2>4 DEF Producer
<1>2. Earned(mem)'
  BY <1>0, <1>1, EarnedStays
<1>3. upd' \in {Errored, Verified(Errored)} \cup {Using(Errored, u) : u \in Usages} => Earned(upd)'
  BY <1>0, ErroredEarned
<1>4. CASE ValidateInput
  BY <1>0, <1>4, OutsideEarned DEF ValidateInput, Moved, Checkpoints, Repairing
<1>5. CASE Claim \/ ReplayTorn \/ Verify \/ AskModel \/ PolicyViolated \/ PersistStart
  BY <1>5 DEF Claim, ReplayTorn, Verify, AskModel, PolicyViolated, PersistStart
<1>6. CASE RefuseClaimed \/ ModelFails \/ PersistFails
  BY <1>3, <1>6 DEF RefuseClaimed, ModelFails, PersistFails
<1>7. CASE ReplayComplete
  <2>1. found[Slot] \in Kind(Slot)
    BY <1>7, SlotKept DEF ReplayComplete, FoundInv
  <2> HIDE DEF Slot, Kind
  <2> QED
    BY <1>1, <1>2, <1>7, <2>1, ConcludedEarned DEF ReplayComplete, Conclude
<1>8. CASE Persist
  <2>1. /\ Slot \in Slots /\ got \in Kind(Slot)
        /\ slot \in [Slots -> Stages] /\ found \in [Slots -> Results]
    BY <1>8, SlotKept DEF Persist, FoundInv, IInv, PointInv, InPlace, Claiming, Verifying,
                          Modelling, Kept, EffectInv, RestInv
  <2>2. mem.node \in Claiming
    BY <1>8 DEF Persist, IInv, PointInv
  <2> HIDE DEF Slot, Kind
  <2>3. slot'[Slot] = "complete" /\ found'[Slot] = got
    BY <1>8, <2>1 DEF Persist
  <2> QED
    BY <1>1, <1>2, <1>8, <2>1, <2>2, <2>3, ConcludedEarned DEF Persist, Conclude
<1>9. CASE CumulativeWrite
  BY <1>9 DEF CumulativeWrite
<1>10. CASE CumulativeRest
  <2>1. mem.node = "repair_verification" /\ found'[Slot] = "passed"
    BY <1>10 DEF CumulativeRest, IInv, PointInv, FoundInv
  <2> QED
    BY <1>1, <1>2, <1>10, <2>1, SuccessEarned DEF CumulativeRest
<1>11. CASE CumulativeReplay
  <2>1. mem.node = "repair_verification" /\ found'[Slot] = "passed"
    BY <1>11 DEF CumulativeReplay, IInv, PointInv, FoundInv
  <2> QED
    BY <1>1, <1>2, <1>3, <1>11, <2>1, SuccessEarned DEF CumulativeReplay
<1>12. CASE CumulativeFails
  BY <1>3, <1>12 DEF CumulativeFails
<1>13. CASE Interrupt
  BY <1>13 DEF Interrupt
<1>14. CASE AwaitApproval
  <2>1. /\ upd'.node \in {"apply_candidate", "reject_candidate"}
        /\ upd'.status = mem.status /\ upd'.attempt = mem.attempt
    BY <1>0, <1>14 DEF AwaitApproval, AfterApproval, Checkpoints
  <2>2. mem.node = "approval_gate"
    BY <1>14 DEF AwaitApproval, AtNode
  <2>3. /\ (found[<<"baseline", 0>>] = "failed")'
        /\ (slot[<<"candidate", mem.attempt + 1>>] = "complete")'
        /\ mem.status = "succeeded" => Won(mem.attempt)'
    BY <1>1, <1>2, <2>2 DEF Earned, Repairing
  <2>4. upd'.status = "succeeded" => Won(upd.attempt)'
    BY <1>1, <2>1, <2>3
  <2> QED
    BY <1>1, <2>1, <2>3, <2>4 DEF Earned
<1>15. CASE RejectCandidate
  BY <1>0, <1>15, EndEarned DEF RejectCandidate, Ended, Moved, Checkpoints, Terminal
<1>16. CASE ApplyRefused
  BY <1>3, <1>16 DEF ApplyRefused
<1>17. CASE ApplyReplay
  <2>1. Reconciled(found[Slot]) \in Applied => View = "after"
    BY DEF Reconciled, Applied
  <2> HIDE DEF Slot
  <2> QED
    BY <1>1, <1>2, <1>17, <2>1, AppliedEarned DEF ApplyReplay, AtNode
<1>18. CASE ApplyObserve \/ ApplySome \/ ApplyAll \/ PersistApply
  BY <1>18 DEF ApplyObserve, ApplySome, ApplyAll, PersistApply
<1>19. CASE ApplyRollback \/ ApplyUnsynced
  BY <1>3, <1>19 DEF ApplyRollback, ApplyUnsynced
<1>20. CASE PersistApplyMark
  <2>1. mem.node = "apply_candidate" /\ (got \in Applied /\ edits = 0 => View = "after")
    BY <1>20 DEF PersistApplyMark, IInv, PointInv, FoundInv
  <2> QED
    BY <1>1, <1>2, <1>20, <2>1, AppliedEarned DEF PersistApplyMark
<1> QED
  BY <1>1, <1>4, <1>5, <1>6, <1>7, <1>8, <1>9, <1>10, <1>11, <1>12, <1>13, <1>14, <1>15,
     <1>16, <1>17, <1>18, <1>19, <1>20
     DEF Producer, Ledgers, Diffs, Gate, Applying

LEMMA EarnedStep == IInv /\ RestInv /\ FoundInv /\ EarnedInv /\ [Next]_vars => EarnedInv'
<1> SUFFICES ASSUME IInv, RestInv, FoundInv, EarnedInv, [Next]_vars PROVE EarnedInv'
  OBVIOUS
<1>0. Grow
  BY GrowStep
<1>a. UNCHANGED <<ckpt, mem, pend>> =>
        Earned(ckpt)' /\ Earned(mem)' /\ (\A k \in 1 .. Len(pend) : Earned(pend[k]))'
  BY <1>0, HeldEarned
<1>b. UNCHANGED report => (report.status = "succeeded" => Won(report.attempt))'
  BY <1>0, WonStays DEF EarnedInv
<1>c. pc \in {"event", "commit"} /\ UNCHANGED upd => Earned(upd)'
  BY <1>0, EarnedStays DEF EarnedInv, IInv, CheckpointInv, Sound
<1>f. Earned(Fresh)'
  BY OutsideEarned DEF Fresh, Repairing
<1>g. Earned(ckpt) /\ Bounded(ckpt) /\ Earned(mem) /\ Bounded(mem)
  BY DEF EarnedInv, IInv, CheckpointInv, Sound
<1>d. \A c : Bounded(c) /\ Earned(c) => Earned(c)'
  BY <1>0, EarnedStays
<1> USE DEF process, durable, NoWork, NoEnv, Produce, Goto, Hold, Leave
<1>1. CASE Producer
  BY <1>0, <1>1, <1>a, <1>b, ProducerEarned DEF EarnedInv
<1>2. CASE AppendEvent \/ FinalizeEvent \/ LogUnreadable \/ EventFails \/ ReportFails
  BY <1>2, <1>a, <1>b, <1>c
     DEF AppendEvent, FinalizeEvent, LogUnreadable, EventFails, ReportFails, EarnedInv
<1>3. CASE WriteReport \/ ReportRest \/ MarkReport \/ MarkRest \/ ReplayReport
  <2>1. UNCHANGED <<ckpt, mem, pend>> /\ (UNCHANGED report \/ \E s : report' = Report(s))
    BY <1>3 DEF WriteReport, ReportRest, MarkReport, MarkRest, ReplayReport, Reported
  <2>2. (report.status = "succeeded" => Won(report.attempt))'
    BY <1>0, <1>a, <2>1, ReportEarned
  <2>3. pc' \in {"event", "commit"} => Earned(upd)'
    <3>1. pc' \in {"event", "commit"} => upd' = Moved("END", mem.status)
      BY <1>3 DEF WriteReport, ReportRest, MarkReport, MarkRest, ReplayReport, Reported
    <3>2. SUFFICES ASSUME upd' = Moved("END", mem.status) PROVE Earned(upd)'
      BY <3>1
    <3>3. upd'.node = "END" /\ upd'.status = mem.status /\ upd'.attempt = mem.attempt
      BY <1>g, <3>2 DEF Moved, Bounded, Checkpoints
    <3>4. mem.status = "succeeded" => Won(mem.attempt)'
      BY <1>a, <2>1 DEF Earned
    <3>5. upd'.status = "succeeded" => Won(upd.attempt)'
      BY <2>1, <3>3, <3>4
    <3> QED
      BY <3>3, <3>5 DEF Earned, Repairing
  <2> QED
    BY <1>a, <2>1, <2>2, <2>3 DEF EarnedInv
<1>4. CASE Commit
  <2>1. /\ Earned(upd) /\ Bounded(upd) /\ upd \in Checkpoints /\ pend \in Seq(Checkpoints)
        /\ \A k \in 1 .. Len(pend) : Earned(pend[k]) /\ Bounded(pend[k])
    BY <1>4 DEF Commit, EarnedInv, IInv, CheckpointInv, Sound, Bounded
  <2>2. /\ mem' = upd /\ pend' = Append(pend, upd) /\ UNCHANGED <<ckpt, report>>
        /\ pc' \notin {"event", "commit"}
    BY <1>4 DEF Commit
  <2>3. \A k \in 1 .. Len(pend') : Earned(pend'[k]) /\ Bounded(pend'[k])
    BY <2>1, <2>2
  <2>4. (\A k \in 1 .. Len(pend) : Earned(pend[k]))'
    BY <1>d, <2>3
  <2>5. Earned(mem)' /\ Earned(ckpt)'
    BY <1>d, <1>g, <2>1, <2>2
  <2> QED
    BY <1>b, <2>2, <2>4, <2>5 DEF EarnedInv
<1>5. CASE Flush
  <2>1. /\ pend \in Seq(Checkpoints)
        /\ \A k \in 1 .. Len(pend) : Earned(pend[k]) /\ Bounded(pend[k])
    BY DEF EarnedInv, IInv, CheckpointInv, Sound
  <2>2. /\ ckpt' = pend[1] /\ 1 \in 1 .. Len(pend) /\ UNCHANGED <<pc, mem, upd, report>>
        /\ \A k \in 1 .. Len(pend') : pend'[k] = pend[k + 1] /\ k + 1 \in 1 .. Len(pend)
    BY <1>5, <2>1 DEF Flush
  <2>3. \A k \in 1 .. Len(pend') : Earned(pend'[k]) /\ Bounded(pend'[k])
    BY <2>1, <2>2
  <2>4. (\A k \in 1 .. Len(pend) : Earned(pend[k]))'
    BY <1>d, <2>3
  <2>5. Earned(mem)' /\ Earned(ckpt)'
    BY <1>d, <1>g, <2>1, <2>2
  <2> QED
    BY <1>b, <1>c, <2>2, <2>4, <2>5 DEF EarnedInv
<1>6. CASE Exit
  BY <1>6, <1>b, <1>d, <1>f, <1>g DEF Exit, Flushed, EarnedInv
<1>7. CASE RunCommand
  <2> DEFINE c == [Fresh EXCEPT !.status = "created"]
  <2>1. c.node = "validate_input" /\ c.status = "created"
    BY DEF Fresh
  <2>2. mem' = c /\ pend' = <<c>> /\ pc' = "node" /\ UNCHANGED <<ckpt, report>>
    BY <1>7 DEF RunCommand, Begin
  <2> HIDE DEF c
  <2>3. Earned(mem)'
    BY <2>1, <2>2, OutsideEarned DEF Repairing
  <2>4. (\A k \in 1 .. Len(pend) : Earned(pend[k]))'
    <3>1. Len(pend') = 1 /\ pend'[1] = mem'
      BY <2>2
    <3> QED
      BY <2>3, <3>1
  <2>5. Earned(ckpt)'
    BY <1>d, <1>g, <2>2
  <2> QED
    BY <1>b, <2>2, <2>3, <2>4, <2>5 DEF EarnedInv
<1>8. CASE \E d \in {"approve", "reject"} : ResumeCommand(d)
  BY <1>8, <1>b, <1>d, <1>g DEF ResumeCommand, Resumed, Begin, EarnedInv
<1>9. CASE Crash
  BY <1>9, <1>b, <1>d, <1>f, <1>g DEF Crash, EarnedInv
<1>10. CASE (\E S \in SUBSET Attempts \ {{}}, v \in Views : Edit(S, v)) \/ UNCHANGED vars
  BY <1>10, <1>a, <1>b, <1>c DEF Edit, vars, EarnedInv
<1> QED
  BY <1>1, <1>2, <1>3, <1>4, <1>5, <1>6, <1>7, <1>8, <1>9, <1>10
     DEF Next, Step, Producer, Audit, Ending

-----------------------------------------------------------------------------
(* How a Run ends *)

LEMMA NodeMoved ==
    ASSUME mem \in Checkpoints
    PROVE  /\ \A n, st : Moved(n, st).node = n
           /\ \A c \in Checkpoints : \A u : Using(c, u).node = c.node
           /\ \A c \in Checkpoints : Verified(c).node = c.node
  BY DEF Moved, Using, Verified, Checkpoints

\* No node leads past its report.
LEMMA AfterNotEnd ==
    ASSUME mem \in Checkpoints, NEW o
    PROVE  /\ After(o).node # "END" /\ AfterApply(o).node # "END" /\ Errored.node # "END"
           /\ Verified(Errored).node # "END" /\ \A u \in Usages : Using(Errored, u).node # "END"
<1>1. AfterApply(o).node # "END" /\ Errored.node # "END"
  BY NodeMoved DEF AfterApply, Errored, Ended
<1>2. Verified(Errored).node # "END" /\ \A u \in Usages : Using(Errored, u).node # "END"
  BY DEF Verified, Using, Errored, Ended, Moved, Checkpoints
<1>3. After(o).node # "END"
  BY DEF After, AfterBaseline, AfterPlan, AfterCandidate, AfterVerification, AfterDiagnosis,
         Using, Verified, Errored, Ended, Moved, Checkpoints
<1> QED
  BY <1>1, <1>2, <1>3

LEMMA ProducerGoes ==
    ASSUME IInv, Producer
    PROVE  /\ UNCHANGED <<ckpt, mem, pend, report, events, torn, resume>>
           /\ pc \notin {"idle", "exit"} /\ pc' \notin Reporting \cup {"commit"}
           /\ pc' = "event" => upd'.node # "END"
<1> USE DEF process, durable, NoWork, Produce, Goto, Hold, Leave, Ready, AtNode, Reporting
<1>0. mem \in Checkpoints
  BY DEF IInv, CheckpointInv, Sound, Bounded
<1>1. CASE Ledgers
  BY <1>0, <1>1, AfterNotEnd
     DEF Ledgers, Claim, RefuseClaimed, ReplayTorn, ReplayComplete, Conclude, Verify,
         AskModel, ModelFails, PolicyViolated, PersistStart, Persist, PersistFails
<1>2. CASE Diffs
  BY <1>0, <1>2, AfterNotEnd
     DEF Diffs, CumulativeWrite, CumulativeRest, CumulativeReplay, CumulativeFails
<1>3. CASE AwaitApproval
  BY <1>0, <1>3 DEF AwaitApproval, AfterApproval, Checkpoints
<1>4. CASE Interrupt \/ RejectCandidate \/ ValidateInput
  BY <1>0, <1>4, NodeMoved DEF Interrupt, RejectCandidate, ValidateInput, Ended
<1>5. CASE Applying
  BY <1>0, <1>5, AfterNotEnd
     DEF Applying, ApplyRefused, ApplyReplay, ApplyObserve, ApplySome, ApplyAll,
         ApplyRollback, ApplyUnsynced, PersistApply, PersistApplyMark
<1> QED
  BY <1>1, <1>2, <1>3, <1>4, <1>5 DEF Producer, Gate

LEMMA EndStep == IInv /\ EarnedInv /\ EndInv /\ [Next]_vars => EndInv'
<1> SUFFICES ASSUME IInv, EarnedInv, EndInv, [Next]_vars PROVE EndInv'
  OBVIOUS
<1>0. mem \in Checkpoints /\ pend \in Seq(Checkpoints)
  BY DEF IInv, CheckpointInv, Sound, Bounded
<1> USE DEF process, durable, NoWork, NoEnv, Goto, Leave
<1>1. CASE Producer
  BY <1>1, ProducerGoes DEF EndInv
<1>2. CASE Audit
  <2>1. /\ UNCHANGED <<ckpt, mem, pend>> /\ pc \notin {"idle", "exit"}
        /\ pc' # "event"
    BY <1>2
       DEF Audit, AppendEvent, FinalizeEvent, LogUnreadable, EventFails, WriteReport, ReportRest,
           ReplayReport, MarkReport, MarkRest, Reported, ReportFails, AtNode, Ready, Appending
  <2>2. ckpt.node # "END" /\ mem.node # "END" /\ \A k \in 1 .. Len(pend) : pend[k].node # "END"
    BY <2>1 DEF EndInv
  <2>3. pc' \in Reporting => mem.node = "finalize_report"
    BY <1>2
       DEF Audit, AppendEvent, FinalizeEvent, LogUnreadable, EventFails, WriteReport,
           ReportRest, ReplayReport, MarkReport, MarkRest, Reported, ReportFails, AtNode,
           EndInv, Reporting
  <2>5. pc' \in Reporting \cup {"commit"} => ~torn'
    BY <1>2
       DEF Audit, AppendEvent, FinalizeEvent, Readable, LogUnreadable, EventFails, WriteReport,
           ReportRest, ReplayReport, MarkReport, MarkRest, Reported, ReportFails, EndInv,
           Reporting
  <2>4. pc' = "commit" /\ upd'.node = "END" => Complete(upd)'
    <3>1. CASE MarkRest \/ (ReplayReport /\ Reported)
      <4>1. /\ upd' = Moved("END", mem.status) /\ report' = Report("complete")
            /\ UNCHANGED events /\ mem.node = "finalize_report" /\ ~torn'
        BY <2>5, <3>1 DEF MarkRest, ReplayReport, Reported, SameReport, EndInv, Reporting
      <4>2. mem.status \in Terminal
        BY <4>1 DEF EarnedInv, Earned
      <4>3. upd'.status = mem.status /\ upd'.attempt = mem.attempt
        BY <1>0, <4>1 DEF Moved, Checkpoints
      <4> QED
        BY <4>1, <4>2, <4>3 DEF Complete, Report
    <3>2. CASE ~(MarkRest \/ (ReplayReport /\ Reported))
      BY <1>2, <3>2
         DEF Audit, AppendEvent, FinalizeEvent, LogUnreadable, EventFails, WriteReport, ReportRest,
             ReplayReport, MarkReport, ReportFails, EndInv
    <3> QED
      BY <3>1, <3>2
  <2> QED
    BY <2>1, <2>2, <2>3, <2>4, <2>5 DEF EndInv
<1>3. CASE Commit
  <2>1. /\ ckpt.node # "END" /\ \A k \in 1 .. Len(pend) : pend[k].node # "END"
        /\ upd.node = "END" => Complete(upd)
    BY <1>3 DEF Commit, EndInv
  <2>2. upd \in Checkpoints
    BY <1>3 DEF Commit, IInv, CheckpointInv, Sound, Bounded
  <2>3. \A k \in 1 .. Len(pend') : pend'[k].node = "END" => pend'[k] = upd
    BY <1>0, <1>3, <2>1, <2>2 DEF Commit
  <2>4. /\ mem' = upd /\ UNCHANGED <<ckpt, upd, report, events, torn>>
        /\ IF upd.node = "END" THEN pc' = "exit" ELSE pc' = "node"
    BY <1>3 DEF Commit
  <2> QED
    BY <2>1, <2>3, <2>4 DEF EndInv, Complete, Reporting
<1>4. CASE Flush
  <2>1. /\ ckpt' = pend[1] /\ 1 \in 1 .. Len(pend)
        /\ UNCHANGED <<pc, mem, upd, report, events, torn>>
        /\ \A k \in 1 .. Len(pend') : pend'[k] = pend[k + 1] /\ k + 1 \in 1 .. Len(pend)
    BY <1>0, <1>4 DEF Flush
  <2> QED
    BY <2>1 DEF EndInv, Complete
<1>5. CASE Exit
  BY <1>5 DEF Exit, Flushed, EndInv, Complete, Reporting, Fresh
<1>6. CASE RunCommand
  <2> DEFINE c == [Fresh EXCEPT !.status = "created"]
  <2>1. c.node # "END" /\ ckpt.node # "END"
    BY <1>6 DEF RunCommand, Fresh
  <2>2. mem' = c /\ pend' = <<c>> /\ pc' = "node" /\ UNCHANGED ckpt
    BY <1>6 DEF RunCommand, Begin
  <2> HIDE DEF c
  <2>3. Len(pend') = 1 /\ pend'[1] = c
    BY <2>2
  <2> QED
    BY <2>1, <2>2, <2>3 DEF EndInv, Reporting
<1>7. CASE \E d \in {"approve", "reject"} : ResumeCommand(d)
  <2>1. ckpt.status = "pending_approval"
    BY <1>7 DEF ResumeCommand
  <2>2. ckpt.node # "END"
    BY <2>1 DEF EndInv, Complete, Terminal
  <2> QED
    BY <1>7, <2>2 DEF ResumeCommand, Resumed, Begin, EndInv, Reporting
<1>8. CASE Crash
  <2>1. ckpt.node = "END" => pc = "exit" /\ Complete(ckpt)
    BY <1>8 DEF Crash, EndInv
  <2>2. pc = "exit" => torn' = torn
    BY <1>8 DEF Crash, Appending, AtNode, Ready
  <2>3. ckpt'.node = "END" => Complete(ckpt)'
    BY <1>8, <2>1, <2>2 DEF Crash, Complete
  <2>4. /\ pend' = << >> /\ pc' = "idle" /\ mem'.node # "END"
    BY <1>8 DEF Crash, Fresh
  <2> QED
    BY <2>3, <2>4 DEF EndInv, Reporting
<1>9. CASE (\E S \in SUBSET Attempts \ {{}}, v \in Views : Edit(S, v)) \/ UNCHANGED vars
  BY <1>9 DEF Edit, vars, EndInv, Complete
<1> QED
  BY <1>1, <1>2, <1>3, <1>4, <1>5, <1>6, <1>7, <1>8, <1>9
     DEF Next, Step, Producer, Ending

-----------------------------------------------------------------------------
(***************************************************************************)
(* A log with half a line.  No node gets past it, so the decision a        *)
(* command gave is never spent, and no command ends at the next gate.      *)
(***************************************************************************)
TornInv ==
    torn => /\ exit # "ok"
            /\ IF pc \in {"idle", "exit"} THEN exit # "none" ELSE resume # "none"

LEMMA TornStep == IInv /\ SettledInv /\ EndInv /\ TornInv /\ [Next]_vars => TornInv'
<1> SUFFICES ASSUME IInv, SettledInv, EndInv, TornInv, [Next]_vars, torn'
             PROVE  /\ exit' # "ok"
                    /\ IF pc' \in {"idle", "exit"} THEN exit' # "none" ELSE resume' # "none"
  BY DEF TornInv
<1> USE DEF process, durable, NoWork, Leave
<1>1. CASE Interrupt
  BY <1>1 DEF Interrupt, AtNode, Ready, TornInv
<1>2. CASE Producer /\ ~Interrupt
  <2>1. UNCHANGED <<torn, resume>> /\ pc \notin {"idle", "exit"}
    BY <1>2, ProducerGoes
  <2>2. Working
    BY <1>2, WorkingSteps DEF Producer, Gate
  <2> QED
    BY <2>1, <2>2 DEF Working, TornInv
<1>3. CASE Audit
  <2>1. CASE pc' = "exit"
    <3>1. exit' \notin {"ok", "none"}
      BY <1>3, <2>1, WorkingSteps DEF Working
    <3> QED
      BY <2>1, <3>1
  <2>2. CASE pc' # "exit"
    BY <1>3, <2>2
       DEF Audit, AppendEvent, FinalizeEvent, Readable, LogUnreadable, EventFails, WriteReport,
           ReportRest, ReplayReport, MarkReport, MarkRest, Reported, ReportFails, EndInv,
           Reporting
  <2> QED
    BY <2>1, <2>2
<1>4. CASE Commit
  BY <1>4 DEF Commit, EndInv
<1>5. CASE Flush
  BY <1>5 DEF Flush, TornInv
<1>6. CASE Exit
  BY <1>6 DEF Exit, TornInv
<1>7. CASE RunCommand
  BY <1>7 DEF RunCommand, Begin, TornInv
<1>8. CASE \E d \in {"approve", "reject"} : ResumeCommand(d)
  BY <1>8 DEF ResumeCommand, Resumed, Begin
<1>9. CASE Crash
  BY <1>9 DEF Crash
<1>10. CASE (\E S \in SUBSET Attempts \ {{}}, v \in Views : Edit(S, v)) \/ UNCHANGED vars
  BY <1>10 DEF Edit, vars, TornInv
<1> QED
  BY <1>1, <1>2, <1>3, <1>4, <1>5, <1>6, <1>7, <1>8, <1>9, <1>10
     DEF Next, Step, Producer, Ending

-----------------------------------------------------------------------------
(* Requests *)

LEMMA RequestStep ==
    IInv /\ RestInv /\ FoundInv /\ EarnedInv /\ RequestsAreEarned /\ [Next]_vars
        => RequestsAreEarned'
<1> SUFFICES ASSUME IInv, RestInv, FoundInv, EarnedInv, RequestsAreEarned, [Next]_vars
             PROVE  RequestsAreEarned'
  OBVIOUS
<1>0. /\ found[<<"baseline", 0>>] = "failed" => found'[<<"baseline", 0>>] = "failed"
      /\ \A n \in Attempts :
            /\ found[<<"verification", n>>] = "failed" => found'[<<"verification", n>>] = "failed"
            /\ found[<<"diagnosis", n>>] = "typed" => found'[<<"diagnosis", n>>] = "typed"
  BY GrowStep, KeptSlots DEF Grow
<1>n. \A n \in Attempts : n > 1 => n - 1 \in Attempts
  BY AttemptsAssumption DEF Attempts
<1> USE DEF process, durable, NoWork, NoEnv, Produce, Goto, Hold, Leave
<1>1. CASE Verify \/ AskModel \/ ModelFails \/ PolicyViolated
  <2>1. /\ pc = "work" /\ UNCHANGED found /\ Started /\ mem.node \in Claiming
        /\ effects \in [Slots -> Nat]
    BY <1>1 DEF Verify, AskModel, ModelFails, PolicyViolated, IInv, PointInv, EffectInv
  <2>2. Earned(mem) /\ mem.attempt \in Nat
    BY DEF EarnedInv, IInv, CheckpointInv, Sound, Bounded, Checkpoints
  <2>3. effects'[<<"plan", 0>>] > 0 => effects[<<"plan", 0>>] > 0 \/ Slot = <<"plan", 0>>
    BY <2>1 DEF Started, Slots
  <2>4. Slot = <<"plan", 0>> => mem.node = "create_plan"
    BY <2>1 DEF Slot, Claiming, Verifying, Modelling
  <2>5. effects'[<<"plan", 0>>] > 0 => found[<<"baseline", 0>>] = "failed"
    BY <2>2, <2>3, <2>4 DEF RequestsAreEarned, Earned, Repairing
  <2>6. ASSUME NEW n \in Attempts, effects'[<<"diagnosis", n>>] > 0
        PROVE  found[<<"verification", n>>] = "failed"
    <3>1. effects[<<"diagnosis", n>>] > 0 \/ Slot = <<"diagnosis", n>>
      BY <2>1, <2>6 DEF Started, Slots
    <3>2. Slot = <<"diagnosis", n>> => mem.node = "create_diagnosis" /\ mem.attempt = n
      BY <2>1 DEF Slot, Attempt, Claiming, Verifying, Modelling
    <3> QED
      BY <2>2, <3>1, <3>2 DEF RequestsAreEarned, Earned
  <2>7. ASSUME NEW n \in Attempts, n > 1, effects'[<<"candidate", n>>] > 0
        PROVE  found[<<"diagnosis", n - 1>>] = "typed"
    <3>1. effects[<<"candidate", n>>] > 0 \/ Slot = <<"candidate", n>>
      BY <2>1, <2>7 DEF Started, Slots
    <3>2. Slot = <<"candidate", n>> => mem.node = "create_candidate" /\ mem.attempt + 1 = n
      BY <2>1 DEF Slot, Attempt, Claiming, Verifying, Modelling
    <3>3. n \in Nat
      BY DEF Attempts
    <3>4. CASE effects[<<"candidate", n>>] > 0
      BY <2>7, <3>4 DEF RequestsAreEarned
    <3>5. CASE Slot = <<"candidate", n>>
      <4>1. mem.attempt >= 1 /\ n - 1 = mem.attempt
        BY <2>2, <2>7, <3>2, <3>3, <3>5
      <4> QED
        BY <2>2, <3>2, <3>5, <4>1 DEF Earned
    <3> QED
      BY <3>1, <3>4, <3>5
  <2> QED
    BY <2>1, <2>5, <2>6, <2>7 DEF RequestsAreEarned
<1>2. CASE UNCHANGED effects
  BY <1>0, <1>n, <1>2 DEF RequestsAreEarned
<1>3. Ledgers => Verify \/ AskModel \/ ModelFails \/ PolicyViolated \/ UNCHANGED effects
  BY DEF Ledgers, Claim, RefuseClaimed, ReplayTorn, ReplayComplete, PersistStart, Persist,
         PersistFails
<1>4. Diffs \/ Gate \/ ValidateInput \/ Ending => UNCHANGED effects
  BY DEF Diffs, CumulativeWrite, CumulativeRest, CumulativeReplay, CumulativeFails, Gate,
         ValidateInput, Interrupt, AwaitApproval, RejectCandidate, Ending, Commit, Flush, Exit
<1>5. Applying => UNCHANGED effects
  BY DEF Applying, ApplyRefused, ApplyReplay, ApplyObserve, ApplySome, ApplyAll,
         ApplyRollback, ApplyUnsynced, PersistApply, PersistApplyMark
<1>6. Audit => UNCHANGED effects
  BY DEF Audit, AppendEvent, FinalizeEvent, LogUnreadable, EventFails, WriteReport, ReportRest,
         ReplayReport, MarkReport, MarkRest, ReportFails
<1>7. RunCommand \/ (\E d \in {"approve", "reject"} : ResumeCommand(d)) \/ Crash
        \/ (\E S \in SUBSET Attempts \ {{}}, v \in Views : Edit(S, v)) \/ UNCHANGED vars
          => UNCHANGED effects
  BY DEF RunCommand, ResumeCommand, Resumed, Begin, Crash, Edit, vars
<1> QED
  BY <1>1, <1>2, <1>3, <1>4, <1>5, <1>6, <1>7 DEF Next, Step

-----------------------------------------------------------------------------
(***************************************************************************)
(* Replays.  What a node records in events.jsonl follows from the key of   *)
(* the event and from its ledger, so a node that is run again by a later   *)
(* process has the same to say.  Two kinds of event are not determined     *)
(* so: a failure, and a rejection, of which a Run has one key for all of   *)
(* its candidates.                                                         *)
(***************************************************************************)
Reading == {"baseline_verification", "apply_candidate", "repair_verification"}

LedgerOf(k) ==
    CASE k[1] = "baseline_verification" -> <<"baseline", 0>>
      [] k[1] = "apply_candidate"       -> <<"apply", k[2]>>
      [] OTHER                          -> <<"verification", k[2]>>

StatusOf(k) ==
    LET o == found[LedgerOf(k)] IN
    CASE k[1] = "validate_input"        -> "validated"
      [] k[1] = "baseline_verification" ->
            IF o = "failed" THEN "baseline_failed" ELSE "issue_not_reproduced"
      [] k[1] = "create_plan"           -> "planned"
      [] k[1] \in {"create_candidate", "approval"} -> "pending_approval"
      [] k[1] = "apply_candidate"       ->
            IF o \in Applied THEN "testing" ELSE "workspace_changed"
      [] k[1] = "repair_verification"   -> IF o = "failed" THEN "diagnosing" ELSE "succeeded"
      [] OTHER                          ->
            IF k[2] >= MAX_REPAIR_ATTEMPTS THEN "attempts_exhausted" ELSE "diagnosed"

AttemptOf(k) ==
    CASE k[1] \in {"create_candidate", "approval", "apply_candidate"} -> k[2] - 1
      [] k[1] \in {"repair_verification", "create_diagnosis"}         -> k[2]
      [] OTHER                                                        -> 0

UsageOf(k) ==
    IF k[1] \in {"create_plan", "create_candidate", "approval", "create_diagnosis"}
    THEN "added" ELSE "same"

Recorded(k) == [key |-> k, status |-> StatusOf(k), attempt |-> AttemptOf(k), usage |-> UsageOf(k)]

Determined(e) ==
    /\ e.key[1] \in Reading => LedgerOf(e.key) \in Slots /\ slot[LedgerOf(e.key)] = "complete"
    /\ e = Recorded(e.key)

RejectedAt(n) == n \in Attempts /\ <<"approval", n, "reject">> \in Keys

Rejection(e) ==
    /\ e.key = <<"reject_candidate", 0, "">> /\ e.status = "rejected" /\ e.usage = "same"
    /\ e.attempt \in Nat /\ RejectedAt(e.attempt + 1)

Explained(e) ==
    \/ e.status = "error" \/ e.key[1] = "finalized"
    \/ e.key[1] = "reject_candidate" /\ Rejection(e)
    \/ e.key[1] # "reject_candidate" /\ Determined(e)

EventInv ==
    edits = 0 =>
        /\ \A e \in events : Explained(e)
        /\ (pc = "event" /\ upd.status # "error" /\ mem.node # "reject_candidate") =>
              Determined(Event(upd))
        /\ (pc = "event" /\ mem.node = "reject_candidate") =>
              upd.status = "rejected" /\ upd.attempt = mem.attempt /\ upd.usage = "same"

\* What else of a checkpoint its next event tells.
Plain(c) ==
    /\ c.node \in {"validate_input", "baseline_verification", "create_plan"} => c.attempt = 0
    /\ c.node = "approval_gate" => c.status = "pending_approval" /\ c.usage = "added"

Placed(c) == Plain(c) /\ (c.node = "reject_candidate" => RejectedAt(c.attempt + 1))

PlacedInv ==
    /\ Placed(ckpt) /\ Placed(mem)
    /\ \A k \in 1 .. Len(pend) : Placed(pend[k])
    /\ pc = "event" =>
          /\ Plain(upd) /\ mem.node \notin {"finalize_report", "END"}
          /\ upd.node = "reject_candidate" => /\ mem.node = "approval_gate"
                                              /\ upd.decision = "reject"
                                              /\ upd.attempt = mem.attempt
    /\ pc = "commit" => Placed(upd)

\* The ledger of an application is written once, by a call that found none.
ApplyLedgerInv ==
    /\ pc \in {"write", "write_rest", "persist_apply"} => slot[Slot] = "none"
    /\ pc = "persist_mark" => slot[Slot] = "claimed"
    /\ \A n \in Attempts : slot[<<"apply", n>>] = "complete" =>
          /\ slot[<<"candidate", n>>] = "complete"
          /\ (edits = 0 /\ found[<<"apply", n>>] \in Applied) => ws[n] = "after"

\* A complete ledger is final, those of applications included.
LedgersKept ==
    \A s \in Slots : slot[s] = "complete" => slot'[s] = "complete" /\ found'[s] = found[s]

LEMMA LedgersStay ==
    IInv /\ RestInv /\ FoundInv /\ ApplyLedgerInv /\ [Next]_vars => LedgersKept
<1> SUFFICES ASSUME IInv, RestInv, FoundInv, ApplyLedgerInv, [Next]_vars PROVE LedgersKept
  OBVIOUS
<1>a. slot \in [Slots -> Stages] /\ found \in [Slots -> Results]
  BY DEF IInv, EffectInv, RestInv
<1> USE DEF process, durable, NoWork, NoEnv, LedgersKept
<1>1. CASE Claim \/ PersistStart \/ Persist \/ PersistApply \/ PersistApplyMark
  <2>1. slot[Slot] # "complete"
    BY <1>1 DEF Claim, Claimable, PersistStart, Persist, PersistApply, PersistApplyMark,
                FoundInv, ApplyLedgerInv
  <2>2. /\ \A s \in Slots \ {Slot} : slot'[s] = slot[s]
        /\ \A s \in Slots \ {Slot} : found'[s] = found[s]
    <3> HIDE DEF Slot
    <3> QED
      BY <1>1, <1>a DEF Claim, PersistStart, Persist, PersistApply, PersistApplyMark
  <2> HIDE DEF Slot
  <2> QED
    BY <2>1, <2>2
<1>2. CASE UNCHANGED <<slot, found>>
  BY <1>2
<1>3. Ledgers => \/ Claim \/ PersistStart \/ Persist \/ UNCHANGED <<slot, found>>
  BY DEF Ledgers, RefuseClaimed, ReplayTorn, ReplayComplete, Verify, AskModel, ModelFails,
         PolicyViolated, PersistFails
<1>4. Diffs \/ Gate \/ ValidateInput \/ Ending => UNCHANGED <<slot, found>>
  BY DEF Diffs, CumulativeWrite, CumulativeRest, CumulativeReplay, CumulativeFails, Gate,
         ValidateInput, Interrupt, AwaitApproval, RejectCandidate, Ending, Commit, Flush, Exit
<1>5. Applying => \/ PersistApply \/ PersistApplyMark \/ UNCHANGED <<slot, found>>
  BY DEF Applying, ApplyRefused, ApplyReplay, ApplyObserve, ApplySome, ApplyAll, ApplyRollback,
         ApplyUnsynced
<1>6. Audit => UNCHANGED <<slot, found>>
  BY DEF Audit, AppendEvent, FinalizeEvent, LogUnreadable, EventFails, WriteReport, ReportRest,
         ReplayReport, MarkReport, MarkRest, ReportFails
<1>7. RunCommand \/ (\E d \in {"approve", "reject"} : ResumeCommand(d)) \/ Crash
        \/ (\E S \in SUBSET Attempts \ {{}}, v \in Views : Edit(S, v)) \/ UNCHANGED vars
          => UNCHANGED <<slot, found>>
  BY DEF RunCommand, ResumeCommand, Resumed, Begin, Crash, Edit, vars
<1> QED
  BY <1>1, <1>2, <1>3, <1>4, <1>5, <1>6, <1>7 DEF Next, Step

LEMMA ApplySlots == \A n \in Attempts : <<"apply", n>> \in Slots /\ <<"candidate", n>> \in Slots
  BY DEF Slots

\* The last step of an application is the only one that completes its ledger.
LEMMA ApplyLedgerStep ==
    IInv /\ RestInv /\ FoundInv /\ EarnedInv /\ ApplyLedgerInv /\ [Next]_vars => ApplyLedgerInv'
<1> SUFFICES ASSUME IInv, RestInv, FoundInv, EarnedInv, ApplyLedgerInv, [Next]_vars
             PROVE  ApplyLedgerInv'
  OBVIOUS
<1>0. Grow /\ LedgersKept
  BY GrowStep, LedgersStay
<1>a. /\ slot \in [Slots -> Stages] /\ found \in [Slots -> Results]
      /\ mem.node = "apply_candidate" => Slot \in Slots /\ Slot = <<"apply", Attempt>>
  BY SlotExists DEF IInv, EffectInv, RestInv, CheckpointInv, Sound, Slot
<1>b. UNCHANGED mem => Slot' = Slot
  BY DEF Slot, Attempt
<1>c. ASSUME NEW n \in Attempts, slot'[<<"apply", n>>] = "complete",
             slot[<<"apply", n>>] = "complete"
      PROVE  /\ slot'[<<"candidate", n>>] = "complete"
             /\ (edits' = 0 /\ found'[<<"apply", n>>] \in Applied) => ws'[n] = "after"
  BY <1>0, <1>c, ApplySlots DEF Grow, LedgersKept, ApplyLedgerInv
<1> USE DEF process, durable, NoWork, NoEnv, Produce, Goto, Hold, Leave
<1>1. CASE PersistApply
  <2>1. mem.node = "apply_candidate" /\ slot' = [slot EXCEPT ![Slot] = "claimed"]
        /\ pc' = "persist_mark" /\ UNCHANGED mem
    BY <1>1 DEF PersistApply, IInv, PointInv
  <2>2. slot'[Slot] = "claimed" /\ \A n \in Attempts :
          slot'[<<"apply", n>>] = "complete" => slot[<<"apply", n>>] = "complete"
    <3> HIDE DEF Slot
    <3> QED
      BY <1>a, <2>1, ApplySlots
  <2> HIDE DEF Slot
  <2> QED
    BY <1>b, <1>c, <2>1, <2>2 DEF ApplyLedgerInv
<1>2. CASE PersistApplyMark
  <2>1. /\ mem.node = "apply_candidate" /\ slot' = [slot EXCEPT ![Slot] = "complete"]
        /\ found' = [found EXCEPT ![Slot] = got] /\ pc' = "event" /\ UNCHANGED <<ws, edits>>
        /\ (got \in Applied /\ edits = 0) => View = "after"
    BY <1>2 DEF PersistApplyMark, IInv, PointInv, FoundInv
  <2>2. slot[<<"candidate", Attempt>>] = "complete"
    BY <2>1 DEF EarnedInv, Earned, Attempt
  <2>3. ASSUME NEW n \in Attempts, slot'[<<"apply", n>>] = "complete"
        PROVE  /\ slot'[<<"candidate", n>>] = "complete"
               /\ (edits' = 0 /\ found'[<<"apply", n>>] \in Applied) => ws'[n] = "after"
    <3> HIDE DEF Slot
    <3>1. CASE n = Attempt
      <4>1. Slot = <<"apply", n>> /\ Slot \in Slots
        BY <1>a, <2>1, <3>1
      <4>2. found'[<<"apply", n>>] = got
        BY <1>a, <2>1, <4>1
      <4>3. slot'[<<"candidate", n>>] = "complete"
        BY <1>0, <2>2, <3>1 DEF Grow
      <4> QED
        BY <2>1, <3>1, <4>2, <4>3 DEF View
    <3>2. CASE n # Attempt
      <4>1. slot[<<"apply", n>>] = "complete"
        BY <1>a, <2>1, <2>3, <3>2, ApplySlots
      <4> QED
        BY <1>c, <2>3, <4>1
    <3> QED
      BY <3>1, <3>2
  <2> QED
    BY <2>1, <2>3 DEF ApplyLedgerInv
<1>3. CASE Claim \/ PersistStart \/ Persist
  <2>1. /\ Slot \in Kept /\ \A s \in Slots \ {Slot} : slot'[s] = slot[s]
        /\ pc' \notin {"write", "write_rest", "persist_apply", "persist_mark"}
    <3>1. Slot \in Kept
      BY <1>3, SlotKept DEF Claim, PersistStart, Persist, IInv, PointInv
    <3> HIDE DEF Slot
    <3> QED
      BY <1>3, <1>a, <3>1 DEF Claim, PersistStart, Persist, Conclude
  <2>2. \A n \in Attempts : slot'[<<"apply", n>>] = slot[<<"apply", n>>]
    <3> HIDE DEF Slot
    <3>1. \A n \in Attempts : <<"apply", n>> # Slot
      BY <2>1 DEF Kept
    <3> QED
      BY <2>1, <3>1, ApplySlots
  <2> QED
    BY <1>c, <2>1, <2>2 DEF ApplyLedgerInv
<1>4. CASE UNCHANGED slot /\ ~(PersistApply \/ PersistApplyMark \/ Claim \/ PersistStart \/ Persist)
  <2>1. \A n \in Attempts : slot'[<<"apply", n>>] = "complete" =>
          /\ slot'[<<"candidate", n>>] = "complete"
          /\ (edits' = 0 /\ found'[<<"apply", n>>] \in Applied) => ws'[n] = "after"
    BY <1>c, <1>4
  <2>2. \/ pc' \notin {"write", "write_rest", "persist_apply", "persist_mark"}
        \/ UNCHANGED mem /\ slot[Slot] = "none" /\ pc' # "persist_mark"
        \/ UNCHANGED mem /\ UNCHANGED pc
    <3>1. CASE Ledgers
      BY <1>4, <3>1
         DEF Ledgers, RefuseClaimed, ReplayTorn, ReplayComplete, Conclude, Verify, AskModel,
             ModelFails, PolicyViolated, PersistFails
    <3>2. CASE Diffs
      BY <3>2 DEF Diffs, CumulativeWrite, CumulativeRest, CumulativeReplay, CumulativeFails
    <3>3. CASE Gate \/ ValidateInput
      BY <3>3 DEF Gate, ValidateInput, Interrupt, AwaitApproval, RejectCandidate
    <3>4. CASE Applying
      BY <1>4, <3>4
         DEF Applying, ApplyRefused, ApplyReplay, ApplyObserve, ApplySome, ApplyAll,
             ApplyRollback, ApplyUnsynced, ApplyLedgerInv
    <3>5. CASE Audit
      BY <3>5
         DEF Audit, AppendEvent, FinalizeEvent, LogUnreadable, EventFails, WriteReport, ReportRest,
             ReplayReport, MarkReport, MarkRest, Reported, ReportFails
    <3>6. CASE Ending \/ Crash
      BY <3>6 DEF Ending, Commit, Flush, Exit, Crash
    <3>7. CASE RunCommand \/ \E d \in {"approve", "reject"} : ResumeCommand(d)
      BY <3>7 DEF RunCommand, ResumeCommand, Resumed, Begin
    <3>8. CASE (\E S \in SUBSET Attempts \ {{}}, v \in Views : Edit(S, v)) \/ UNCHANGED vars
      BY <3>8 DEF Edit, vars
    <3> QED
      BY <3>1, <3>2, <3>3, <3>4, <3>5, <3>6, <3>7, <3>8 DEF Next, Step
  <2> HIDE DEF Slot
  <2> QED
    BY <1>4, <1>b, <2>1, <2>2 DEF ApplyLedgerInv
<1>5. UNCHANGED slot \/ PersistApply \/ PersistApplyMark \/ Claim \/ PersistStart \/ Persist
  <2>1. Ledgers \/ Diffs \/ Gate \/ ValidateInput \/ Ending
          => Claim \/ PersistStart \/ Persist \/ UNCHANGED slot
    BY DEF Ledgers, RefuseClaimed, ReplayTorn, ReplayComplete, Verify, AskModel, ModelFails,
           PolicyViolated, PersistFails, Diffs, CumulativeWrite, CumulativeRest,
           CumulativeReplay, CumulativeFails, Gate, ValidateInput, Interrupt, AwaitApproval,
           RejectCandidate, Ending, Commit, Flush, Exit
  <2>2. Applying \/ Audit => PersistApply \/ PersistApplyMark \/ UNCHANGED slot
    BY DEF Applying, ApplyRefused, ApplyReplay, ApplyObserve, ApplySome, ApplyAll, ApplyRollback,
           ApplyUnsynced, Audit, AppendEvent, FinalizeEvent, LogUnreadable, EventFails,
           WriteReport, ReportRest, ReplayReport, MarkReport, MarkRest, ReportFails
  <2>3. RunCommand \/ (\E d \in {"approve", "reject"} : ResumeCommand(d)) \/ Crash
          \/ (\E S \in SUBSET Attempts \ {{}}, v \in Views : Edit(S, v)) \/ UNCHANGED vars
            => UNCHANGED slot
    BY DEF RunCommand, ResumeCommand, Resumed, Begin, Crash, Edit, vars
  <2> QED
    BY <2>1, <2>2, <2>3 DEF Next, Step
<1> QED
  BY <1>1, <1>2, <1>3, <1>4, <1>5

LEMMA PlacedStays ==
    ASSUME events \subseteq events', NEW c, Placed(c)
    PROVE  Placed(c)'
  BY DEF Placed, Plain, RejectedAt, Keys

LEMMA AfterPlain ==
    ASSUME mem \in Checkpoints, Plain(mem), mem.node \in Claiming, NEW o
    PROVE  Plain(After(o)) /\ After(o).node # "reject_candidate"
<1>1. CASE mem.node = "baseline_verification"
  BY <1>1 DEF After, AfterBaseline, Plain, Errored, Ended, Moved, Checkpoints
<1>2. CASE mem.node = "create_plan"
  BY <1>2 DEF After, AfterPlan, Using, Plain, Moved, Checkpoints
<1>3. CASE mem.node = "create_candidate"
  BY <1>3 DEF After, AfterCandidate, Using, Plain, Moved, Checkpoints
<1>4. CASE mem.node = "repair_verification"
  <2>1. After(o).node \in {"create_diagnosis", "finalize_report"}
    BY <1>4 DEF After, AfterVerification, Verified, Errored, Ended, Moved, Checkpoints
  <2> QED
    BY <2>1 DEF Plain
<1>5. CASE mem.node = "create_diagnosis"
  <2>1. After(o).node \in {"create_candidate", "finalize_report"}
    BY <1>5 DEF After, AfterDiagnosis, Using, Ended, Moved, Checkpoints
  <2> QED
    BY <2>1 DEF Plain
<1> QED
  BY <1>1, <1>2, <1>3, <1>4, <1>5 DEF Claiming, Verifying, Modelling

\* A failure, and every other end, leads to the report.
LEMMA EndPlain ==
    ASSUME mem \in Checkpoints
    PROVE  /\ \A s : Ended(s).node = "finalize_report"
           /\ Errored.node = "finalize_report" /\ Verified(Errored).node = "finalize_report"
           /\ \A u : Using(Errored, u).node = "finalize_report"
           /\ Errored.status = "error" /\ Verified(Errored).status = "error"
           /\ \A u : Using(Errored, u).status = "error"
  BY DEF Ended, Errored, Verified, Using, Moved, Checkpoints

LEMMA ProducerPlaced ==
    ASSUME IInv, PlacedInv, Producer, pc' = "event"
    PROVE  /\ Plain(upd)' /\ mem.node \notin {"finalize_report", "END"}
           /\ upd'.node = "reject_candidate" => /\ mem.node = "approval_gate"
                                                /\ upd'.decision = "reject"
                                                /\ upd'.attempt = mem.attempt
<1>0. mem \in Checkpoints /\ Plain(mem)
  BY DEF IInv, CheckpointInv, Sound, Bounded, PlacedInv, Placed
<1> USE DEF process, Produce, Goto, Hold, Leave
<1>1. CASE ValidateInput
  BY <1>0, <1>1 DEF ValidateInput, AtNode, Plain, Moved, Checkpoints
<1>2. CASE ReplayComplete \/ Persist
  <2>1. mem.node \in Claiming /\ \E o : upd' = After(o)
    BY <1>2 DEF ReplayComplete, Persist, Conclude, IInv, PointInv
  <2>2. Plain(upd') /\ upd'.node # "reject_candidate"
    BY <1>0, <2>1, AfterPlain
  <2> QED
    BY <2>1, <2>2 DEF Plain, Claiming, Verifying, Modelling
<1>3. CASE CumulativeRest \/ CumulativeReplay \/ CumulativeFails
  <2>1. mem.node = "repair_verification" /\ upd' \in {After("passed"), Verified(Errored)}
    BY <1>3 DEF CumulativeRest, CumulativeReplay, CumulativeFails, IInv, PointInv
  <2>2. After("passed").node = "finalize_report"
    BY <1>0, <2>1 DEF After, AfterVerification, Verified, Ended, Moved, Checkpoints
  <2> QED
    BY <1>0, <2>1, <2>2, EndPlain DEF Plain
<1>4. CASE RefuseClaimed \/ ModelFails \/ PersistFails \/ ApplyRefused \/ ApplyRollback
           \/ ApplyUnsynced
  <2>1. upd' = Errored \/ \E u : upd' = Using(Errored, u)
    BY <1>4
       DEF RefuseClaimed, ModelFails, PersistFails, ApplyRefused, ApplyRollback, ApplyUnsynced
  <2>2. mem.node \in Claiming \cup {"apply_candidate"}
    BY <1>4
       DEF RefuseClaimed, ModelFails, PersistFails, ApplyRefused, ApplyRollback, ApplyUnsynced,
           IInv, PointInv, AtNode, Claiming
  <2>3. upd'.node = "finalize_report"
    BY <1>0, <2>1, EndPlain
  <2> QED
    BY <2>2, <2>3 DEF Plain, Claiming, Verifying, Modelling
<1>5. CASE AwaitApproval
  <2>1. /\ mem.node = "approval_gate" /\ resume \in {"approve", "reject"}
        /\ upd' = [mem EXCEPT !.decision = resume, !.node = AfterApproval(resume)]
    BY <1>5 DEF AwaitApproval, AtNode, IInv, TypingInv, Decisions
  <2>2. /\ upd'.node \in {"apply_candidate", "reject_candidate"}
        /\ upd'.attempt = mem.attempt
        /\ upd'.node = "reject_candidate" => upd'.decision = "reject"
    BY <1>0, <2>1 DEF AfterApproval, Checkpoints
  <2> QED
    BY <2>1, <2>2 DEF Plain
<1>6. CASE RejectCandidate
  <2>1. mem.node = "reject_candidate" /\ upd'.node = "finalize_report"
    BY <1>0, <1>6, EndPlain DEF RejectCandidate, AtNode
  <2> QED
    BY <2>1 DEF Plain
<1>7. CASE ApplyReplay \/ PersistApplyMark
  <2>1. mem.node = "apply_candidate" /\ \E o : upd' = AfterApply(o)
    BY <1>7 DEF ApplyReplay, PersistApplyMark, AtNode, IInv, PointInv
  <2>2. upd'.node \in {"repair_verification", "finalize_report"}
    BY <1>0, <2>1, EndPlain DEF AfterApply, Moved, Checkpoints
  <2> QED
    BY <2>1, <2>2 DEF Plain
<1> QED
  BY <1>1, <1>2, <1>3, <1>4, <1>5, <1>6, <1>7
     DEF Producer, Ledgers, Claim, ReplayTorn, Verify, AskModel, PolicyViolated, PersistStart,
         Diffs, CumulativeWrite, Gate, Interrupt, Applying, ApplyObserve, ApplySome, ApplyAll,
         PersistApply

LEMMA PlacedStep == IInv /\ RestInv /\ FoundInv /\ PlacedInv /\ [Next]_vars => PlacedInv'
<1> SUFFICES ASSUME IInv, RestInv, FoundInv, PlacedInv, [Next]_vars PROVE PlacedInv'
  OBVIOUS
<1>a. \A c : Placed(c) => Placed(c)'
  BY GrowStep, PlacedStays DEF Grow
<1>b. UNCHANGED <<ckpt, mem, pend>> =>
        Placed(ckpt)' /\ Placed(mem)' /\ (\A k \in 1 .. Len(pend) : Placed(pend[k]))'
  BY <1>a DEF PlacedInv
<1>c. UNCHANGED upd /\ Plain(upd) => Plain(upd)'
  BY DEF Plain
<1>f. Placed(Fresh) /\ Placed(Fresh)'
  BY <1>a DEF Placed, Plain, Fresh
<1> USE DEF process, durable, NoWork, NoEnv, Produce, Goto, Hold, Leave
<1>1. CASE Producer
  <2>1. UNCHANGED <<ckpt, mem, pend>> /\ pc' # "commit"
    BY <1>1, ProducerGoes
  <2> QED
    BY <1>1, <1>b, <2>1, ProducerPlaced DEF PlacedInv
<1>2. CASE AppendEvent
  <2>1. CASE pc' = "commit"
    <3>1. /\ pc = "event" /\ UNCHANGED <<ckpt, mem, upd, pend>> /\ Plain(upd)
          /\ EventKey \in Keys'
      BY <1>2, <2>1, EventsGrow DEF AppendEvent, PlacedInv, Event
    <3>2. ASSUME upd.node = "reject_candidate" PROVE RejectedAt(upd.attempt + 1)'
      <4>1. /\ mem.node = "approval_gate" /\ upd.decision = "reject" /\ upd.attempt = mem.attempt
        BY <3>1, <3>2 DEF PlacedInv
      <4>2. EventKey = <<"approval", upd.attempt + 1, "reject">>
        BY <4>1 DEF EventKey
      <4>3. upd.attempt + 1 \in Attempts
        BY <4>1, AttemptsAssumption
           DEF IInv, CheckpointInv, Sound, Bounded, Attempting, Checkpoints, Attempts
      <4> QED
        BY <3>1, <4>2, <4>3 DEF RejectedAt
    <3>3. Placed(upd)'
      BY <1>c, <3>1, <3>2 DEF Placed
    <3> QED
      BY <1>b, <2>1, <3>1, <3>3 DEF PlacedInv
  <2>2. CASE pc' # "commit"
    BY <1>2, <1>b, <2>2 DEF AppendEvent, PlacedInv
  <2> QED
    BY <2>1, <2>2
<1>3. CASE Audit /\ ~AppendEvent
  <2>1. UNCHANGED <<ckpt, mem, pend>> /\ pc' # "event"
        /\ (pc' = "commit" => upd' = Moved("END", mem.status))
    BY <1>3
       DEF Audit, FinalizeEvent, LogUnreadable, EventFails, WriteReport, ReportRest,
           ReplayReport, MarkReport, MarkRest, Reported, ReportFails
  <2>2. Moved("END", mem.status).node = "END"
    BY DEF Moved, IInv, CheckpointInv, Sound, Bounded, Checkpoints
  <2> QED
    BY <1>b, <2>1, <2>2 DEF PlacedInv, Placed, Plain
<1>4. CASE Commit
  <2>1. /\ upd \in Checkpoints /\ pend \in Seq(Checkpoints) /\ Placed(upd)
        /\ \A k \in 1 .. Len(pend) : Placed(pend[k])
    BY <1>4 DEF Commit, IInv, CheckpointInv, Sound, Bounded, PlacedInv
  <2>2. /\ mem' = upd /\ pend' = Append(pend, upd) /\ UNCHANGED ckpt
        /\ pc' \notin {"event", "commit"}
    BY <1>4 DEF Commit
  <2> HIDE DEF Placed
  <2>3. \A k \in 1 .. Len(pend') : Placed(pend'[k])
    BY <2>1, <2>2
  <2>4. (\A k \in 1 .. Len(pend) : Placed(pend[k]))'
    BY <1>a, <2>3
  <2>5. Placed(mem)' /\ Placed(ckpt)'
    BY <1>a, <2>1, <2>2 DEF PlacedInv
  <2> QED
    BY <2>2, <2>4, <2>5 DEF PlacedInv
<1>5. CASE Flush
  <2>1. pend \in Seq(Checkpoints) /\ \A k \in 1 .. Len(pend) : Placed(pend[k])
    BY DEF IInv, CheckpointInv, PlacedInv
  <2>2. /\ ckpt' = pend[1] /\ 1 \in 1 .. Len(pend) /\ UNCHANGED <<pc, mem, upd>>
        /\ \A k \in 1 .. Len(pend') : pend'[k] = pend[k + 1] /\ k + 1 \in 1 .. Len(pend)
    BY <1>5, <2>1 DEF Flush
  <2> HIDE DEF Placed
  <2>3. \A k \in 1 .. Len(pend') : Placed(pend'[k])
    BY <2>1, <2>2
  <2>4. (\A k \in 1 .. Len(pend) : Placed(pend[k]))'
    BY <1>a, <2>3
  <2>5. Placed(mem)' /\ Placed(ckpt)' /\ (Placed(upd) => Placed(upd)')
    BY <1>a, <2>1, <2>2 DEF PlacedInv
  <2> QED
    BY <1>c, <2>2, <2>4, <2>5 DEF PlacedInv
<1>6. CASE Exit \/ Crash
  BY <1>6, <1>a, <1>f DEF Exit, Flushed, Crash, PlacedInv
<1>7. CASE RunCommand
  <2> DEFINE c == [Fresh EXCEPT !.status = "created"]
  <2>1. Placed(c)'
    BY DEF Placed, Plain, Fresh
  <2>2. mem' = c /\ pend' = <<c>> /\ pc' = "node" /\ UNCHANGED ckpt
    BY <1>7 DEF RunCommand, Begin
  <2> HIDE DEF c, Placed
  <2>3. (\A k \in 1 .. Len(pend) : Placed(pend[k]))'
    <3>1. Len(pend') = 1 /\ pend'[1] = c
      BY <2>2
    <3> QED
      BY <2>1, <3>1
  <2>4. Placed(mem)' /\ Placed(ckpt)'
    BY <1>a, <2>1, <2>2 DEF PlacedInv
  <2> QED
    BY <2>2, <2>3, <2>4 DEF PlacedInv
<1>8. CASE \E d \in {"approve", "reject"} : ResumeCommand(d)
  BY <1>8, <1>a DEF ResumeCommand, Resumed, Begin, PlacedInv
<1>9. CASE (\E S \in SUBSET Attempts \ {{}}, v \in Views : Edit(S, v)) \/ UNCHANGED vars
  <2>1. UNCHANGED <<ckpt, mem, upd, pend, pc>>
    BY <1>9 DEF Edit, vars
  <2> QED
    BY <1>a, <1>b, <1>c, <2>1 DEF PlacedInv
<1> QED
  BY <1>1, <1>2, <1>3, <1>4, <1>5, <1>6, <1>7, <1>8, <1>9
     DEF Next, Step, Producer, Ending

\* What a ledger or an approval determines, it determines for good.
LEMMA DeterminedStays ==
    ASSUME LedgersKept, NEW e, Determined(e)
    PROVE  Determined(e)'
<1>1. e.key[1] \in Reading =>
        /\ slot'[LedgerOf(e.key)] = "complete"
        /\ found'[LedgerOf(e.key)] = found[LedgerOf(e.key)]
  BY DEF LedgersKept, Determined
<1>2. StatusOf(e.key)' = StatusOf(e.key)
  <2>1. CASE e.key[1] \in Reading
    BY <1>1, <2>1 DEF StatusOf, LedgerOf
  <2>2. CASE e.key[1] \notin Reading
    BY <2>2 DEF StatusOf, Reading
  <2> QED
    BY <2>1, <2>2
<1> QED
  BY <1>1, <1>2 DEF Determined, Recorded, LedgerOf, AttemptOf, UsageOf

LEMMA ExplainedStays ==
    ASSUME LedgersKept, events \subseteq events', NEW e, Explained(e)
    PROVE  Explained(e)'
<1>1. Rejection(e) => Rejection(e)'
  BY DEF Rejection, RejectedAt, Keys
<1> QED
  BY <1>1, DeterminedStays DEF Explained

\* The event of a node that concludes from its ledger o.
LEMMA ConcludedDetermined ==
    ASSUME Bounded(mem), Plain(mem), mem.node \in Claiming, UNCHANGED mem,
           NEW o, o \in Kind(Slot), slot'[Slot] = "complete", found'[Slot] = o,
           upd' = After(o), upd'.status # "error"
    PROVE  Determined(Event(upd))'
<1>0. mem \in Checkpoints /\ Slot \in Slots /\ mem.attempt \in Nat
  BY SlotExists DEF Bounded, Checkpoints
<1>1. CASE mem.node = "baseline_verification"
  <2>1. /\ Slot = <<"baseline", 0>> /\ EventKey' = <<"baseline_verification", 0, "">>
        /\ o \in Verdicts /\ mem.attempt = 0
    BY <1>1 DEF Slot, EventKey, Kind, Plain
  <2>2. /\ upd'.status = IF o = "failed" THEN "baseline_failed" ELSE "issue_not_reproduced"
        /\ upd'.attempt = 0 /\ upd'.usage = "same"
    BY <1>0, <1>1, <2>1
       DEF After, AfterBaseline, Verdicts, Errored, Ended, Moved, Checkpoints
  <2> HIDE DEF Slot, EventKey
  <2>3. Event(upd)'.key = <<"baseline_verification", 0, "">>
    BY <2>1 DEF Event
  <2>4. Event(upd)' = Recorded(Event(upd).key)'
    BY <1>0, <2>1, <2>2, <2>3 DEF Recorded, StatusOf, AttemptOf, UsageOf, LedgerOf, Event
  <2> QED
    BY <1>0, <2>1, <2>3, <2>4 DEF Determined, LedgerOf, Event
<1>2. CASE mem.node = "create_plan"
  <2>1. EventKey' = <<"create_plan", 0, "">>
    BY <1>2 DEF EventKey
  <2>2. upd'.status = "planned" /\ upd'.attempt = 0 /\ upd'.usage = "added"
    BY <1>0, <1>2 DEF After, AfterPlan, Using, Moved, Checkpoints
  <2> HIDE DEF Slot, EventKey
  <2>3. Event(upd)'.key = <<"create_plan", 0, "">>
    BY <2>1 DEF Event
  <2> QED
    BY <2>1, <2>2, <2>3
       DEF Determined, Reading, Recorded, StatusOf, AttemptOf, UsageOf, LedgerOf, Event
<1>3. CASE mem.node = "create_candidate"
  <2>1. EventKey' = <<"create_candidate", mem.attempt + 1, "">>
    BY <1>3 DEF EventKey
  <2>2. /\ upd'.status = "pending_approval" /\ upd'.attempt = mem.attempt
        /\ upd'.usage = "added"
    BY <1>0, <1>3 DEF After, AfterCandidate, Using, Moved, Checkpoints
  <2> HIDE DEF Slot, EventKey
  <2>3. Event(upd)'.key = <<"create_candidate", mem.attempt + 1, "">>
    BY <2>1 DEF Event
  <2>4. AttemptOf(Event(upd).key)' = mem.attempt
    <3>1. EventKey'[1] = "create_candidate" /\ EventKey'[2] = mem.attempt + 1
      BY <2>1
    <3>2. Event(upd)'.key = EventKey'
      BY DEF Event
    <3> QED
      BY <1>0, <3>1, <3>2 DEF AttemptOf, Event
  <2> QED
    BY <2>1, <2>2, <2>4 DEF Determined, Reading, Recorded, StatusOf, UsageOf, LedgerOf, Event
<1>4. CASE mem.node = "repair_verification"
  <2>1. /\ Slot = <<"verification", mem.attempt + 1>> /\ o \in Verdicts
        /\ EventKey' = <<"repair_verification", mem.attempt + 1, "">>
    BY <1>4 DEF Slot, Attempt, EventKey, Kind
  <2>2. /\ upd'.status = IF o = "failed" THEN "diagnosing" ELSE "succeeded"
        /\ upd'.attempt = mem.attempt + 1 /\ upd'.usage = "same"
    BY <1>0, <1>4, <2>1
       DEF After, AfterVerification, Verified, Verdicts, Errored, Ended, Moved, Checkpoints
  <2> HIDE DEF Slot, EventKey
  <2>3. Event(upd)'.key = <<"repair_verification", mem.attempt + 1, "">>
    BY <2>1 DEF Event
  <2>4. Event(upd)' = Recorded(Event(upd).key)'
    BY <1>0, <2>1, <2>2, <2>3 DEF Recorded, StatusOf, AttemptOf, UsageOf, LedgerOf, Event
  <2> QED
    BY <1>0, <2>1, <2>3, <2>4 DEF Determined, LedgerOf, Event
<1>5. CASE mem.node = "create_diagnosis"
  <2>1. EventKey' = <<"create_diagnosis", mem.attempt, "">>
    BY <1>5 DEF EventKey
  <2>2. /\ upd'.status = IF mem.attempt >= MAX_REPAIR_ATTEMPTS THEN "attempts_exhausted"
                                                              ELSE "diagnosed"
        /\ upd'.attempt = mem.attempt /\ upd'.usage = "added"
    BY <1>0, <1>5 DEF After, AfterDiagnosis, Using, Ended, Moved, Checkpoints
  <2> HIDE DEF Slot, EventKey
  <2>3. Event(upd)'.key = <<"create_diagnosis", mem.attempt, "">>
    BY <2>1 DEF Event
  <2> QED
    BY <1>0, <2>1, <2>2, <2>3
       DEF Determined, Reading, Recorded, StatusOf, AttemptOf, UsageOf, LedgerOf, Event
<1> QED
  BY <1>1, <1>2, <1>3, <1>4, <1>5 DEF Claiming, Verifying, Modelling

\* And of an application whose ledger holds o, when the files show it too.
LEMMA AppliedDetermined ==
    ASSUME Bounded(mem), mem.node = "apply_candidate", UNCHANGED mem,
           NEW o, slot'[Slot] = "complete", found'[Slot] = o,
           upd' = AfterApply(o), upd'.status # "error"
    PROVE  Determined(Event(upd))'
<1>0. mem \in Checkpoints /\ Slot \in Slots /\ mem.attempt \in Nat
  BY SlotExists DEF Bounded, Checkpoints
<1>1. /\ Slot = <<"apply", mem.attempt + 1>>
      /\ EventKey' = <<"apply_candidate", mem.attempt + 1, "">>
  BY DEF Slot, Attempt, EventKey
<1>2. /\ upd'.status = IF o \in Applied THEN "testing" ELSE "workspace_changed"
      /\ upd'.attempt = mem.attempt /\ upd'.usage = "same"
  BY <1>0 DEF AfterApply, Applied, Errored, Ended, Moved, Checkpoints
<1> HIDE DEF Slot, EventKey
<1>3. Event(upd)'.key = <<"apply_candidate", mem.attempt + 1, "">>
  BY <1>1 DEF Event
<1>4. Event(upd)' = Recorded(Event(upd).key)'
  <2>1. AttemptOf(Event(upd).key)' = mem.attempt /\ UsageOf(Event(upd).key)' = "same"
    <3>1. EventKey'[1] = "apply_candidate" /\ EventKey'[2] = mem.attempt + 1
      BY <1>1
    <3>2. Event(upd)'.key = EventKey'
      BY DEF Event
    <3> QED
      BY <1>0, <3>1, <3>2 DEF AttemptOf, UsageOf, Event
  <2>2. StatusOf(Event(upd).key)' = upd'.status
    BY <1>1, <1>2, <1>3 DEF StatusOf, LedgerOf, Event
  <2> QED
    BY <1>2, <2>1, <2>2 DEF Recorded, Event
<1> QED
  BY <1>0, <1>1, <1>3, <1>4 DEF Determined, LedgerOf, Event

LEMMA ProducerDetermined ==
    ASSUME IInv, RestInv, FoundInv, ApplyLedgerInv, PlacedInv, Producer, pc' = "event", edits = 0
    PROVE  /\ upd'.status # "error" /\ mem.node # "reject_candidate" => Determined(Event(upd))'
           /\ mem.node = "reject_candidate" =>
                 upd'.status = "rejected" /\ upd'.attempt = mem.attempt /\ upd'.usage = "same"
<1>0. /\ mem \in Checkpoints /\ Bounded(mem) /\ Plain(mem) /\ UNCHANGED mem
      /\ slot \in [Slots -> Stages] /\ found \in [Slots -> Results]
  BY ProducerGoes
     DEF IInv, CheckpointInv, Sound, Bounded, PlacedInv, Placed, EffectInv, RestInv
<1>k. ASSUME NEW o, mem.node \in Claiming, o \in Kind(Slot), slot'[Slot] = "complete",
             found'[Slot] = o, upd' = After(o), upd'.status # "error"
      PROVE  Determined(Event(upd))'
  BY <1>0, <1>k, ConcludedDetermined
<1>j. ASSUME NEW o, mem.node = "apply_candidate", slot'[Slot] = "complete",
             found'[Slot] = o, upd' = AfterApply(o), upd'.status # "error"
      PROVE  Determined(Event(upd))'
  BY <1>0, <1>j, AppliedDetermined
<1> USE DEF process, durable, NoWork, Produce, Goto, Hold, Leave
<1>1. CASE ValidateInput
  <2>1. /\ mem.node = "validate_input" /\ mem.attempt = 0
        /\ upd' = Moved("baseline_verification", "validated")
    BY <1>0, <1>1 DEF ValidateInput, AtNode, Plain
  <2>2. EventKey' = <<"validate_input", 0, "">>
    BY <1>0, <2>1 DEF EventKey
  <2>3. upd'.status = "validated" /\ upd'.attempt = 0 /\ upd'.usage = "same"
    BY <1>0, <2>1 DEF Moved, Checkpoints
  <2> HIDE DEF EventKey
  <2>4. Event(upd)'.key = <<"validate_input", 0, "">>
    BY <2>2 DEF Event
  <2> QED
    BY <2>1, <2>2, <2>3, <2>4
       DEF Determined, Reading, Recorded, StatusOf, AttemptOf, UsageOf, LedgerOf, Event
<1>2. CASE ReplayComplete
  <2>1. /\ mem.node \in Claiming /\ slot'[Slot] = "complete" /\ UNCHANGED <<slot, found>>
        /\ upd' = After(found[Slot])
    BY <1>2 DEF ReplayComplete, Conclude
  <2>2. found[Slot] \in Kind(Slot)
    BY <1>2, SlotKept DEF ReplayComplete, FoundInv
  <2> HIDE DEF Slot, Kind
  <2> QED
    BY <1>k, <2>1, <2>2 DEF Claiming, Verifying, Modelling
<1>3. CASE Persist
  <2>1. /\ mem.node \in Claiming /\ Slot \in Slots /\ got \in Kind(Slot) /\ upd' = After(got)
    BY <1>0, <1>3, SlotExists DEF Persist, Conclude, FoundInv, IInv, PointInv
  <2> HIDE DEF Slot, Kind
  <2>2. slot'[Slot] = "complete" /\ found'[Slot] = got
    BY <1>0, <1>3, <2>1 DEF Persist
  <2> QED
    BY <1>k, <2>1, <2>2 DEF Claiming, Verifying, Modelling
<1>4. CASE CumulativeRest \/ CumulativeReplay \/ CumulativeFails
  <2>1. /\ mem.node = "repair_verification" /\ UNCHANGED <<slot, found>>
        /\ found[Slot] = "passed" /\ upd' \in {After("passed"), Verified(Errored)}
    BY <1>4 DEF CumulativeRest, CumulativeReplay, CumulativeFails, IInv, PointInv, FoundInv
  <2>2. Slot \in Kept /\ "passed" \in Kind(Slot)
    BY <2>1, SlotKept DEF Claiming, Verifying, Slot, Kind, Verdicts
  <2>3. slot[Slot] = "complete"
    <3> HIDE DEF Slot, Kind
    <3> QED
      BY <2>1, <2>2 DEF FoundInv
  <2> HIDE DEF Slot, Kind
  <2> QED
    BY <1>0, <1>k, <2>1, <2>2, <2>3, EndPlain DEF Claiming, Verifying
<1>5. CASE RefuseClaimed \/ ModelFails \/ PersistFails \/ ApplyRefused
           \/ ((ApplyRollback \/ ApplyUnsynced) /\ Produce(Errored))
  <2>1. upd' = Errored \/ \E u : upd' = Using(Errored, u)
    BY <1>5 DEF RefuseClaimed, ModelFails, PersistFails, ApplyRefused
  <2>2. mem.node # "reject_candidate"
    BY <1>5
       DEF RefuseClaimed, ModelFails, PersistFails, ApplyRefused, ApplyRollback, ApplyUnsynced,
           IInv, PointInv, AtNode, Claiming, Verifying, Modelling
  <2> QED
    BY <1>0, <2>1, <2>2, EndPlain
<1>6. CASE AwaitApproval
  <2>1. /\ mem.node = "approval_gate" /\ mem.status = "pending_approval" /\ mem.usage = "added"
        /\ upd' = [mem EXCEPT !.decision = resume, !.node = AfterApproval(resume)]
    BY <1>0, <1>6 DEF AwaitApproval, AtNode, Plain
  <2>2. /\ upd'.status = "pending_approval" /\ upd'.usage = "added"
        /\ upd'.attempt = mem.attempt /\ mem.attempt \in Nat
    BY <1>0, <2>1 DEF Checkpoints
  <2>3. EventKey' = <<"approval", mem.attempt + 1, upd'.decision>>
    BY <1>0, <2>1 DEF EventKey
  <2> HIDE DEF EventKey
  <2>4. Event(upd)'.key = <<"approval", mem.attempt + 1, upd'.decision>>
    BY <2>3 DEF Event
  <2> QED
    BY <2>1, <2>2, <2>3, <2>4
       DEF Determined, Reading, Recorded, StatusOf, AttemptOf, UsageOf, LedgerOf, Event
<1>7. CASE RejectCandidate
  BY <1>0, <1>7 DEF RejectCandidate, AtNode, Ended, Moved, Checkpoints
<1>8. CASE ApplyReplay
  <2>1. /\ mem.node = "apply_candidate" /\ slot[Slot] = "complete" /\ UNCHANGED <<slot, found>>
        /\ upd' = AfterApply(Reconciled(found[Slot]))
    BY <1>8 DEF ApplyReplay, AtNode
  <2>2. Attempt \in Attempts /\ Slot = <<"apply", Attempt>>
    BY <1>0, <2>1, AttemptsAssumption
       DEF Bounded, Attempting, Checkpoints, Attempt, Attempts, Slot
  <2>3. found[Slot] \in Applied => View = "after"
    <3> HIDE DEF Slot
    <3>1. slot[<<"apply", Attempt>>] = "complete" /\ found[Slot] = found[<<"apply", Attempt>>]
      BY <2>1, <2>2
    <3> QED
      BY <2>2, <3>1 DEF ApplyLedgerInv, View
  <2>4. Reconciled(found[Slot]) = found[Slot]
    BY <2>3 DEF Reconciled
  <2> HIDE DEF Slot
  <2> QED
    BY <1>j, <2>1, <2>4
<1>9. CASE PersistApplyMark
  <2>1. mem.node = "apply_candidate" /\ Slot \in Slots /\ upd' = AfterApply(got)
    BY <1>0, <1>9, SlotExists DEF PersistApplyMark, IInv, PointInv
  <2> HIDE DEF Slot
  <2>2. slot'[Slot] = "complete" /\ found'[Slot] = got
    BY <1>0, <1>9, <2>1 DEF PersistApplyMark
  <2> QED
    BY <1>j, <2>1, <2>2
<1> QED
  BY <1>1, <1>2, <1>3, <1>4, <1>5, <1>6, <1>7, <1>8, <1>9
     DEF Producer, Ledgers, Claim, ReplayTorn, Verify, AskModel, PolicyViolated, PersistStart,
         Diffs, CumulativeWrite, Gate, Interrupt, Applying, ApplyObserve, ApplySome, ApplyAll,
         ApplyRollback, ApplyUnsynced, PersistApply

\* A node's event is the one its key and its ledger determine, so appending it
\* leaves the log as it should be; edits end what can be said.
LEMMA EventStep ==
    IInv /\ RestInv /\ FoundInv /\ ApplyLedgerInv /\ PlacedInv /\ EventInv /\ [Next]_vars
        => EventInv'
<1> SUFFICES ASSUME IInv, RestInv, FoundInv, ApplyLedgerInv, PlacedInv, EventInv, [Next]_vars,
                    edits' = 0
             PROVE  EventInv'
  BY DEF EventInv
<1>0. LedgersKept /\ events \subseteq events'
  BY LedgersStay, GrowStep DEF Grow
<1>e. edits = 0
  <2>1. edits \in Nat /\ (edits' = edits \/ edits' = edits + 1)
    <3> USE DEF NoEnv
    <3>1. CASE Ledgers \/ Diffs \/ Gate \/ ValidateInput \/ Ending
      BY <3>1
         DEF Ledgers, Claim, RefuseClaimed, ReplayTorn, ReplayComplete, Verify, AskModel,
             ModelFails, PolicyViolated, PersistStart, Persist, PersistFails, Diffs,
             CumulativeWrite, CumulativeRest, CumulativeReplay, CumulativeFails, Gate,
             ValidateInput, Interrupt, AwaitApproval, RejectCandidate, Ending, Commit, Flush,
             Exit, IInv, TypingInv
    <3>2. CASE Applying \/ Audit
      BY <3>2
         DEF Applying, ApplyRefused, ApplyReplay, ApplyObserve, ApplySome, ApplyAll,
             ApplyRollback, ApplyUnsynced, PersistApply, PersistApplyMark, Audit, AppendEvent,
             FinalizeEvent, LogUnreadable, EventFails, WriteReport, ReportRest, ReplayReport,
             MarkReport, MarkRest, ReportFails, IInv, TypingInv
    <3>3. CASE RunCommand \/ (\E d \in {"approve", "reject"} : ResumeCommand(d)) \/ Crash
               \/ (\E S \in SUBSET Attempts \ {{}}, v \in Views : Edit(S, v)) \/ UNCHANGED vars
      BY <3>3 DEF RunCommand, ResumeCommand, Resumed, Begin, Crash, Edit, vars, IInv, TypingInv
    <3> QED
      BY <3>1, <3>2, <3>3 DEF Next, Step
  <2> QED
    BY <2>1
<1>a. \A e \in events : Explained(e)'
  BY <1>0, <1>e, ExplainedStays DEF EventInv
<1>b. ASSUME UNCHANGED events, pc' # "event" \/ (pc' = pc /\ UNCHANGED <<mem, upd>>)
      PROVE  EventInv'
  <2>1. Event(upd)' = Event(upd) \/ pc' # "event"
    BY <1>b DEF Event, EventKey
  <2>2. (pc = "event" /\ upd.status # "error" /\ mem.node # "reject_candidate") =>
           \A e : e = Event(upd) => Determined(e)'
    BY <1>0, <1>e, DeterminedStays DEF EventInv
  <2>3. (pc' = "event" /\ upd'.status # "error" /\ mem'.node # "reject_candidate") =>
           Determined(Event(upd))'
    BY <1>b, <2>1, <2>2 DEF Event
  <2> QED
    BY <1>a, <1>b, <1>e, <2>3 DEF EventInv
<1> USE DEF process, durable, NoWork, NoEnv, Produce, Goto, Hold, Leave
<1>1. CASE Producer
  <2>1. UNCHANGED <<mem, events>>
    BY <1>1, ProducerGoes
  <2> QED
    BY <1>1, <1>a, <1>b, <1>e, <2>1, ProducerDetermined DEF EventInv
<1>2. CASE AppendEvent \/ (EventFails /\ pc = "event")
  <2>1. pc = "event" /\ pc' # "event" /\ events' \subseteq events \cup {Event(upd)}
        /\ UNCHANGED <<slot, found>>
    BY <1>2 DEF AppendEvent, EventFails, Append1, Appended, Event
  <2>2. Event(upd) \in events' => Explained(Event(upd))
    <3>1. CASE mem.node = "reject_candidate"
      <4>1. /\ EventKey = <<"reject_candidate", 0, "">>
            /\ upd.status = "rejected" /\ upd.attempt = mem.attempt /\ upd.usage = "same"
            /\ RejectedAt(mem.attempt + 1) /\ mem.attempt \in Nat
        <5>1. mem \in Checkpoints
          BY DEF IInv, CheckpointInv, Sound, Bounded
        <5>2. upd.status = "rejected" /\ upd.attempt = mem.attempt /\ upd.usage = "same"
          BY <1>e, <2>1, <3>1 DEF EventInv
        <5>3. RejectedAt(mem.attempt + 1)
          BY <3>1 DEF PlacedInv, Placed
        <5>4. EventKey = <<"reject_candidate", 0, "">>
          BY <3>1 DEF EventKey
        <5>5. mem.attempt \in Nat
          BY <5>1 DEF Checkpoints
        <5> QED
          BY <5>2, <5>3, <5>4, <5>5
      <4> HIDE DEF EventKey
      <4> QED
        BY <4>1 DEF Explained, Rejection, Event
    <3>2. CASE mem.node # "reject_candidate"
      <4>1. upd.status = "error" \/ Determined(Event(upd))
        BY <1>e, <2>1, <3>2 DEF EventInv
      <4>2. EventKey[1] # "reject_candidate"
        BY <3>2 DEF EventKey
      <4> HIDE DEF EventKey
      <4>3. Event(upd).key = EventKey /\ Event(upd).status = upd.status
        BY DEF Event
      <4> QED
        BY <4>1, <4>2, <4>3 DEF Explained
    <3> QED
      BY <3>1, <3>2
  <2>3. \A e : e = Event(upd) /\ Explained(e) => Explained(e)'
    BY <1>0, ExplainedStays
  <2>4. \A e \in events' : Explained(e)'
    BY <1>a, <2>1, <2>2, <2>3
  <2> QED
    BY <2>1, <2>4 DEF EventInv
<1>3. CASE FinalizeEvent \/ (EventFails /\ pc # "event")
  <2>1. pc' # "event" /\ events' \subseteq events \cup {Event(mem)} /\ mem.node = "finalize_report"
    BY <1>3 DEF FinalizeEvent, EventFails, Appending, Append1, Appended, Event, AtNode
  <2>2. Event(mem).key[1] = "finalized"
    BY <2>1 DEF Event, EventKey
  <2>3. \A e : e.key[1] = "finalized" => Explained(e)'
    BY DEF Explained
  <2>4. \A e \in events' : Explained(e)'
    BY <1>a, <2>1, <2>2, <2>3
  <2> QED
    BY <2>1, <2>4 DEF EventInv
<1>4. CASE Audit /\ ~AppendEvent /\ ~FinalizeEvent /\ ~EventFails
  <2>1. UNCHANGED events /\ pc' # "event"
    BY <1>4
       DEF Audit, LogUnreadable, WriteReport, ReportRest, ReplayReport, MarkReport, MarkRest,
           Reported, ReportFails
  <2> QED
    BY <1>b, <2>1
<1>5. CASE Ending \/ Crash
  BY <1>5, <1>b DEF Ending, Commit, Flush, Exit, Crash
<1>6. CASE RunCommand \/ \E d \in {"approve", "reject"} : ResumeCommand(d)
  BY <1>6, <1>b DEF RunCommand, ResumeCommand, Resumed, Begin
<1>7. CASE (\E S \in SUBSET Attempts \ {{}}, v \in Views : Edit(S, v)) \/ UNCHANGED vars
  BY <1>7, <1>b DEF Edit, vars
<1> QED
  BY <1>1, <1>2, <1>3, <1>4, <1>5, <1>6, <1>7 DEF Next, Step, Producer

\* Two events that one key and one ledger determine are the same.
LEMMA EventsAgree == IInv /\ RestInv /\ PlacedInv /\ EventInv => ReplaysAgree
<1> SUFFICES ASSUME IInv, RestInv, PlacedInv, EventInv,
                    pc = "event", edits = 0, Refused(Event(upd)), upd.status # "error",
                    \A e \in events : e.key = EventKey => e.status # "error"
             PROVE  /\ mem.node = "reject_candidate"
                    /\ \E n \in Attempts \ {mem.attempt + 1} : <<"approval", n, "reject">> \in Keys
  BY DEF ReplaysAgree
<1>1. PICK e \in events : e.key = EventKey
  BY DEF Refused, Keys, Event
<1>2. e # Event(upd) /\ e.status # "error"
  BY <1>1 DEF Refused
<1>3. mem.node \in Nodes \ {"finalize_report", "END"}
  BY DEF PlacedInv, IInv, CheckpointInv, Sound, Bounded, Checkpoints
<1>4. /\ EventKey[1] # "finalized"
      /\ EventKey[1] = "reject_candidate" <=> mem.node = "reject_candidate"
  BY <1>3 DEF EventKey, Nodes
<1>5. Explained(e)
  BY DEF EventInv
<1>6. mem.node = "reject_candidate"
  <2> SUFFICES ASSUME mem.node # "reject_candidate" PROVE FALSE
    OBVIOUS
  <2>1. Determined(e) /\ Determined(Event(upd))
    BY <1>1, <1>2, <1>4, <1>5 DEF Explained, EventInv
  <2>2. Event(upd).key = EventKey
    BY DEF Event
  <2> QED
    BY <1>1, <1>2, <2>1, <2>2 DEF Determined
<1>7. Rejection(e) /\ e.attempt # mem.attempt
  <2>1. Rejection(e)
    BY <1>1, <1>2, <1>4, <1>5, <1>6 DEF Explained
  <2>2. upd.status = "rejected" /\ upd.attempt = mem.attempt /\ upd.usage = "same"
    BY <1>6 DEF EventInv
  <2>3. e = [key |-> e.key, status |-> e.status, attempt |-> e.attempt, usage |-> e.usage]
    BY DEF RestInv, EventRecords
  <2> HIDE DEF EventKey
  <2> QED
    BY <1>1, <1>2, <2>1, <2>2, <2>3 DEF Rejection, Event
<1>8. mem.attempt \in Nat
  BY DEF IInv, CheckpointInv, Sound, Bounded, Checkpoints
<1> DEFINE n == e.attempt + 1
<1>9. n \in Attempts /\ <<"approval", n, "reject">> \in Keys /\ n # mem.attempt + 1
  <2>1. e.attempt \in Nat /\ RejectedAt(n)
    BY <1>7 DEF Rejection
  <2>2. n # mem.attempt + 1
    BY <1>7, <1>8, <2>1
  <2> QED
    BY <2>1, <2>2 DEF RejectedAt
<1> HIDE DEF n
<1> QED
  BY <1>6, <1>9

-----------------------------------------------------------------------------
(* Theorems *)

ReplayInv == ApplyLedgerInv /\ PlacedInv /\ EventInv

OutcomeInv ==
    IInv /\ RestInv /\ FoundInv /\ EarnedInv /\ SettledInv /\ EndInv /\ RequestsAreEarned
    /\ ReplayInv /\ TornInv

LEMMA InitOutcome == Init => OutcomeInv
<1> SUFFICES ASSUME Init PROVE OutcomeInv
  OBVIOUS
<1>1. IInv
  BY InitInv
<1>2. RestInv
  <2>1. NoReport \in Reports
    BY DEF NoReport, Reports, Statuses
  <2> QED
    BY <2>1, FreshSound, FS_EmptySet
       DEF Init, RestInv, Bounded, Results, Points, Commands, Exits
<1>3. FoundInv
  BY DEF Init, FoundInv, Kept
<1>4. EarnedInv /\ SettledInv /\ EndInv
  BY DEF Init, EarnedInv, Earned, Fresh, NoReport, Repairing, SettledInv, CommandsSettle,
         EndInv, Reporting
<1>5. RequestsAreEarned
  <2>1. /\ <<"plan", 0>> \in Slots
        /\ \A n \in Attempts : <<"diagnosis", n>> \in Slots /\ <<"candidate", n>> \in Slots
    BY DEF Slots
  <2> QED
    BY <2>1 DEF Init, RequestsAreEarned
<1>6. ReplayInv
  <2>1. ApplyLedgerInv
    BY ApplySlots DEF Init, ApplyLedgerInv
  <2>2. PlacedInv
    BY DEF Init, PlacedInv, Placed, Plain, Fresh
  <2>3. EventInv
    BY DEF Init, EventInv
  <2> QED
    BY <2>1, <2>2, <2>3 DEF ReplayInv
<1>7. TornInv
  BY DEF Init, TornInv
<1> QED
  BY <1>1, <1>2, <1>3, <1>4, <1>5, <1>6, <1>7 DEF OutcomeInv

LEMMA OutcomeStep == OutcomeInv /\ [Next]_vars => OutcomeInv'
<1> SUFFICES ASSUME OutcomeInv, [Next]_vars PROVE OutcomeInv'
  OBVIOUS
<1>1. IInv'
  BY CheckpointStep, PointStep, TypingStep, EffectStep DEF OutcomeInv, IInv
<1>2. ReplayInv'
  BY ApplyLedgerStep, PlacedStep, EventStep DEF OutcomeInv, ReplayInv
<1> QED
  BY <1>1, <1>2, RestStep, FoundStep, EarnedStep, SettledStep, EndStep, RequestStep, TornStep
     DEF OutcomeInv

\* The inductive invariant: what a ledger, an event, a report or a checkpoint in
\* flight says of the Run is justified by what is on disk.
THEOREM Outcomes == Spec => []OutcomeInv
  BY InitOutcome, OutcomeStep, PTL DEF Spec

\* Whatever crashes and however far the checkpoints lag, every file and every
\* checkpoint of a Patch Run keeps its type.
THEOREM RunTyped == Spec => []TypeOK
<1>1. OutcomeInv => TypeOK
  BY TypesTogether DEF OutcomeInv
<1> QED
  BY <1>1, Outcomes, PTL

\* route_baseline, route_verification and route_diagnosis: a model phase is
\* started only on a recorded result that calls for it, in this process or in
\* one that a crash has ended since.
THEOREM RequestsEarned == Spec => []RequestsAreEarned
<1>1. OutcomeInv => RequestsAreEarned
  BY DEF OutcomeInv
<1> QED
  BY <1>1, Outcomes, PTL

\* finalize_report writes succeeded only when the approval, the failing baseline,
\* the passing Verification and the cumulative diff are all on disk.
THEOREM SucceededEarned == Spec => []SucceededIsEarned
<1>1. OutcomeInv => SucceededIsEarned
  BY DEF OutcomeInv, EarnedInv, Won, SucceededIsEarned
<1> QED
  BY <1>1, Outcomes, PTL

\* run, approve and reject return normally only when the last durable checkpoint
\* is the Approval Gate or the end.
THEOREM CommandsSettled == Spec => []CommandsSettle
<1>1. OutcomeInv => CommandsSettle
  BY DEF OutcomeInv, SettledInv
<1> QED
  BY <1>1, Outcomes, PTL

\* finalize_report: the checkpoint that ends a Run never becomes durable before
\* the complete report it agrees with.
THEOREM EndReported == Spec => []EndedMeansReported
<1>1. OutcomeInv => EndedMeansReported
  BY DEF OutcomeInv, EndInv, Complete, EndedMeansReported
<1> QED
  BY <1>1, Outcomes, PTL

\* append_event: the replay of a node, by whichever process and after whatever
\* crash, tells the log what the log already holds; only failures, and the
\* rejections of two candidates, which share one event, can contradict it.
THEOREM ReplaysAgreed == Spec => []ReplaysAgree
<1>1. OutcomeInv => ReplaysAgree
  BY EventsAgree DEF OutcomeInv, ReplayInv
<1> QED
  BY <1>1, Outcomes, PTL

\* append_event reads the whole log first: on one that a full disk or a crash left
\* with half a line, every command fails and nothing is added or handed over.
THEOREM TornLogStopped == Spec => TornLogStops
<1> DEFINE Stops == torn => /\ UNCHANGED <<events, report>>
                            /\ Len(pend') <= Len(pend) /\ exit' # "ok"
<1>1. OutcomeInv /\ OutcomeInv' /\ [Next]_vars => [Stops]_vars
  <2> SUFFICES ASSUME OutcomeInv, OutcomeInv', Next, torn
               PROVE  /\ UNCHANGED <<events, report>>
                      /\ Len(pend') <= Len(pend) /\ exit' # "ok"
    OBVIOUS
  <2>0. /\ IInv /\ EndInv /\ TornInv /\ TornInv' /\ pend \in Seq(Checkpoints)
        /\ Len(pend) \in Nat /\ pc \notin Reporting \cup {"commit"}
    BY DEF OutcomeInv, IInv, CheckpointInv, EndInv
  <2>1. /\ UNCHANGED <<events, report>> /\ torn'
        /\ UNCHANGED pend \/ pend' = << >> \/ (pend # << >> /\ pend' = Tail(pend))
    <3> USE DEF process, durable, NoWork, Leave
    <3>1. CASE Producer
      BY <2>0, <3>1, ProducerGoes
    <3>2. CASE Audit
      BY <2>0, <3>2
         DEF Audit, AppendEvent, FinalizeEvent, Readable, LogUnreadable, EventFails,
             WriteReport, ReportRest, ReplayReport, MarkReport, MarkRest, ReportFails,
             Reporting
    <3>3. CASE Ending
      BY <2>0, <3>3 DEF Ending, Commit, Flush, Exit
    <3>4. CASE RunCommand
      BY <2>0, <3>4 DEF RunCommand, TornInv
    <3>5. CASE \E d \in {"approve", "reject"} : ResumeCommand(d)
      BY <3>5 DEF ResumeCommand, Resumed, Begin
    <3>6. CASE Crash
      BY <3>6 DEF Crash
    <3>7. CASE \E S \in SUBSET Attempts \ {{}}, v \in Views : Edit(S, v)
      BY <3>7 DEF Edit
    <3> QED
      BY <3>1, <3>2, <3>3, <3>4, <3>5, <3>6, <3>7 DEF Next, Step, Producer
  <2>2. Len(pend') <= Len(pend)
    <3>1. pend # << >> => Len(Tail(pend)) = Len(pend) - 1 /\ Len(pend) >= 1
      BY <2>0
    <3>2. Len(<< >>) = 0
      OBVIOUS
    <3> QED
      BY <2>0, <2>1, <3>1, <3>2
  <2>3. exit' # "ok"
    BY <2>0, <2>1 DEF TornInv
  <2> QED
    BY <2>1, <2>2, <2>3
<1> QED
  BY <1>1, Outcomes, PTL DEF Spec, TornLogStops
=============================================================================
