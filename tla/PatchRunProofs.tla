--------------------------- MODULE PatchRunProofs ---------------------------
(***************************************************************************)
(* What a Patch Run guarantees for any number of Repair Attempts, crashes  *)
(* and edits, and however far its checkpoints lag behind.                  *)
(***************************************************************************)
EXTENDS PatchRun, TLAPS

(***************************************************************************)
(* The inductive invariant.  A checkpoint is sound when its node can be    *)
(* run from it: an attempt is left, and an application is approved.  A     *)
(* command may start from any checkpoint that became durable, so all those *)
(* the process has handed over must be sound, not only the current state.  *)
(***************************************************************************)

\* Nodes that work on the attempt after the last verified one.
Attempting == {"create_candidate", "approval_gate", "apply_candidate", "repair_verification"}

Bounded(c) ==
    /\ c \in Checkpoints
    /\ c.node \in Attempting => c.attempt < MAX_REPAIR_ATTEMPTS
    /\ c.node = "create_diagnosis" => c.attempt >= 1

Sound(c) == Bounded(c) /\ (c.node = "apply_candidate" => Approved(c.attempt + 1))

CheckpointInv ==
    /\ Sound(ckpt) /\ Sound(mem)
    /\ pend \in Seq(Checkpoints) /\ \A k \in 1 .. Len(pend) : Sound(pend[k])
    /\ pc = "event" => Bounded(upd) /\ (upd.node = "apply_candidate" =>
                         /\ mem.node = "approval_gate"
                         /\ upd.decision = "approve" /\ upd.attempt = mem.attempt)
    /\ pc = "commit" => Sound(upd)

\* Each point within a node belongs to the nodes that have it.
PointInv ==
    /\ pc \in {"work", "persist", "persist_rest"} => mem.node \in Claiming
    /\ pc = "persist_rest" => mem.node \in InPlace
    /\ pc \in {"cumulative", "cumulative_rest"} => mem.node = "repair_verification"
    /\ pc \in {"write", "write_rest", "persist_apply", "persist_mark"} =>
          mem.node = "apply_candidate"

\* A side effect is started under a claim made for it alone.
EffectInv ==
    /\ slot \in [Slots -> Stages] /\ effects \in [Slots -> Nat]
    /\ \A s \in Slots : effects[s] <= 1 /\ (slot[s] = "none" => effects[s] = 0)
    /\ pc = "work" => slot[Slot] = "claimed" /\ effects[Slot] = 0

TypingInv == resume \in Decisions /\ ws \in [Attempts -> Views] /\ edits \in Nat

IInv == CheckpointInv /\ PointInv /\ TypingInv /\ EffectInv

-----------------------------------------------------------------------------
(* Lemmas *)

LEMMA FreshSound == Bounded(Fresh) /\ Sound(Fresh)
  BY AttemptsAssumption
     DEF Fresh, Bounded, Sound, Checkpoints, Nodes, Statuses, Terminal, Decisions, Usages,
         Attempting

\* Moving on changes the node and the status only.
LEMMA MovedType ==
    ASSUME mem \in Checkpoints, NEW n \in Nodes, NEW st \in Statuses
    PROVE  /\ Moved(n, st) \in Checkpoints
           /\ Moved(n, st).node = n /\ Moved(n, st).attempt = mem.attempt
  BY DEF Moved, Checkpoints, Usages

LEMMA AttemptType ==
    ASSUME NEW c \in Checkpoints, NEW n \in 0 .. MAX_REPAIR_ATTEMPTS
    PROVE  /\ [c EXCEPT !.attempt = n] \in Checkpoints
           /\ [c EXCEPT !.attempt = n].node = c.node /\ [c EXCEPT !.attempt = n].attempt = n
  BY DEF Checkpoints

LEMMA UsingBounded ==
    ASSUME NEW c, Bounded(c), NEW u \in Usages
    PROVE  Bounded(Using(c, u)) /\ Using(c, u).node = c.node
  BY DEF Using, Bounded, Checkpoints

\* What the current node may produce, whatever its ledger holds.
LEMMA ErrorProduced ==
    ASSUME Bounded(mem)
    PROVE  Bounded(Errored) /\ Errored.node = "finalize_report" /\ Errored.attempt = mem.attempt
  BY MovedType DEF Bounded, Attempting, Errored, Ended, Nodes, Statuses, Terminal

LEMMA VerifiedProduced ==
    ASSUME Bounded(mem), mem.node = "repair_verification", NEW o
    PROVE  /\ Bounded(AfterVerification(o)) /\ Bounded(Verified(Errored))
           /\ AfterVerification(o).node # "apply_candidate"
           /\ Verified(Errored).node # "apply_candidate"
<1> DEFINE c == CASE o = "failed" -> Moved("create_diagnosis", "diagnosing")
                  [] o = "passed" -> Ended("succeeded")
                  [] OTHER        -> Errored
<1>1. /\ c \in Checkpoints /\ c.node \in {"create_diagnosis", "finalize_report"}
      /\ Errored \in Checkpoints /\ Errored.node = "finalize_report"
  BY MovedType DEF Bounded, Ended, Errored, Nodes, Statuses, Terminal
<1>2. mem.attempt + 1 \in 1 .. MAX_REPAIR_ATTEMPTS
  BY AttemptsAssumption DEF Bounded, Checkpoints, Attempting
<1>3. ASSUME NEW d \in Checkpoints, d.node \in {"create_diagnosis", "finalize_report"}
      PROVE  Bounded(Verified(d)) /\ Verified(d).node # "apply_candidate"
  BY <1>2, <1>3 DEF Verified, Bounded, Attempting, Checkpoints
<1> HIDE DEF c
<1>4. AfterVerification(o) = Verified(c)
  BY DEF AfterVerification, c
<1> QED
  BY <1>1, <1>3, <1>4

LEMMA Produced ==
    ASSUME Bounded(mem), mem.node \in Claiming, NEW o
    PROVE  Bounded(After(o)) /\ After(o).node # "apply_candidate"
<1> USE MovedType DEF Bounded, Ended, Errored, Nodes, Statuses, Terminal, Attempting
<1>1. CASE mem.node = "baseline_verification"
  BY <1>1, AttemptsAssumption DEF After, AfterBaseline
<1>0. "added" \in Usages
  BY DEF Usages
<1>2. CASE mem.node = "create_plan"
  <2>1. After(o) = Using(AfterPlan, "added")
    BY <1>2 DEF After
  <2>2. Moved("create_candidate", "planned") \in Checkpoints
    BY MovedType
  <2>3. /\ AfterPlan \in Checkpoints
        /\ AfterPlan.node = "create_candidate" /\ AfterPlan.attempt = 0
    <3>1. 0 \in 0 .. MAX_REPAIR_ATTEMPTS
      BY AttemptsAssumption
    <3> QED
      BY <2>2, <3>1, AttemptType, MovedType DEF AfterPlan
  <2> QED
    <3>1. Bounded(AfterPlan)
      BY <2>3, AttemptsAssumption
    <3> HIDE DEF Bounded
    <3> QED
      BY <1>0, <2>1, <2>3, <3>1, UsingBounded
<1>3. CASE mem.node = "create_candidate"
  <2>1. After(o) = Using(AfterCandidate, "added")
    BY <1>3 DEF After
  <2>2. Bounded(AfterCandidate) /\ AfterCandidate.node = "approval_gate"
    BY <1>3 DEF AfterCandidate
  <2> HIDE DEF Bounded
  <2> QED
    BY <1>0, <2>1, <2>2, UsingBounded
<1>4. CASE mem.node = "repair_verification"
  BY <1>4, VerifiedProduced DEF After
<1>5. CASE mem.node = "create_diagnosis"
  <2>1. After(o) = Using(AfterDiagnosis, "added")
    BY <1>5 DEF After, Claiming
  <2>2. Bounded(AfterDiagnosis) /\ AfterDiagnosis.node # "apply_candidate"
    BY <1>5, AttemptsAssumption, SMTT(30) DEF AfterDiagnosis, Checkpoints
  <2> HIDE DEF Bounded
  <2> QED
    BY <1>0, <2>1, <2>2, UsingBounded
<1> QED
  BY <1>1, <1>2, <1>3, <1>4, <1>5 DEF Claiming, Verifying, Modelling

LEMMA ApplyProduced ==
    ASSUME Bounded(mem), mem.node = "apply_candidate", NEW o
    PROVE  Bounded(AfterApply(o)) /\ AfterApply(o).node # "apply_candidate"
  BY MovedType
     DEF AfterApply, Bounded, Ended, Errored, Nodes, Statuses, Terminal, Attempting

\* The ledger a node claims exists.
LEMMA SlotExists ==
    ASSUME Bounded(mem), mem.node \in Claiming \cup {"apply_candidate"}
    PROVE  Slot \in Slots
  BY AttemptsAssumption
     DEF Bounded, Checkpoints, Attempting, Claiming, Verifying, Modelling, Slot, Slots,
         Attempt, Attempts

-----------------------------------------------------------------------------
(* The shapes a step can have *)

Quiet ==
    /\ UNCHANGED <<ckpt, mem, pend>> /\ events \subseteq events'
    /\ pc' \notin {"event", "commit"} \/ (pc' = pc /\ UNCHANGED upd)

Producing ==
    /\ UNCHANGED <<ckpt, mem, pend, events>>
    /\ pc' = "event" /\ Bounded(upd') /\ upd'.node # "apply_candidate"

\* Run Events are never removed, so approvals stay and checkpoints stay sound.
LEMMA QuietStep == CheckpointInv /\ Quiet => CheckpointInv'
<1> SUFFICES ASSUME CheckpointInv, Quiet PROVE CheckpointInv'
  OBVIOUS
<1>1. \A n : Approved(n) => Approved(n)'
  BY DEF Quiet, Approved, Keys
<1>2. /\ Sound(ckpt)' /\ Sound(mem)'
      /\ (pend \in Seq(Checkpoints))' /\ (\A k \in 1 .. Len(pend) : Sound(pend[k]))'
  BY <1>1 DEF CheckpointInv, Quiet, Sound, Bounded
<1>3. CASE pc' \notin {"event", "commit"}
  BY <1>2, <1>3 DEF CheckpointInv
<1>4. CASE pc' = pc /\ UNCHANGED upd
  BY <1>1, <1>2, <1>4 DEF CheckpointInv, Quiet, Sound, Bounded
<1> QED
  BY <1>3, <1>4 DEF Quiet

LEMMA ProducingStep == CheckpointInv /\ Producing => CheckpointInv'
  BY DEF CheckpointInv, Producing, Sound, Bounded, Approved, Keys

LEMMA EventsGrow == ASSUME NEW e, Append1(e) PROVE events \subseteq events' /\ e.key \in Keys'
  BY DEF Append1, Keys

-----------------------------------------------------------------------------
(* Checkpoints *)

LEMMA CheckpointStep == CheckpointInv /\ PointInv /\ TypingInv /\ [Next]_vars => CheckpointInv'
<1> SUFFICES ASSUME CheckpointInv, PointInv, TypingInv, [Next]_vars PROVE CheckpointInv'
  OBVIOUS
<1>0. Bounded(mem) /\ mem \in Checkpoints
  BY DEF CheckpointInv, Sound, Bounded
<1> USE DEF NoWork, NoEnv, durable, process, Produce, Goto, Hold, Leave, AtNode, Ready
<1>1. CASE ValidateInput
  BY <1>0, <1>1, MovedType, ProducingStep
     DEF ValidateInput, Producing, Bounded, Attempting, Nodes, Statuses
<1>2. CASE Claim
  BY <1>2, QuietStep DEF Claim, Quiet
<1>3. CASE RefuseClaimed
  BY <1>0, <1>3, ErrorProduced, ProducingStep DEF RefuseClaimed, Producing
<1>4. CASE ReplayTorn
  BY <1>4, QuietStep DEF ReplayTorn, Quiet
<1>5. CASE PersistStart
  BY <1>5, QuietStep DEF PersistStart, Quiet
<1>6. CASE ReplayComplete
  <2>1. CASE mem.node = "repair_verification" /\ found[Slot] = "passed"
    BY <1>6, <2>1, QuietStep DEF ReplayComplete, Conclude, Quiet
  <2>2. CASE ~(mem.node = "repair_verification" /\ found[Slot] = "passed")
    BY <1>0, <1>6, <2>2, Produced, ProducingStep DEF ReplayComplete, Conclude, Producing
  <2> QED
    BY <2>1, <2>2
<1>7. CASE Verify
  BY <1>7, QuietStep DEF Verify, Quiet
<1>8. CASE AskModel
  BY <1>8, QuietStep DEF AskModel, Quiet
<1>9. CASE ModelFails
  <2>1. \A u \in Usages : /\ Bounded(Using(Errored, u))
                          /\ Using(Errored, u).node = "finalize_report"
    BY <1>0, ErrorProduced, UsingBounded
  <2> QED
    BY <1>9, <2>1, ProducingStep DEF ModelFails, Producing
<1>10. CASE PolicyViolated
  BY <1>10, QuietStep DEF PolicyViolated, Quiet
<1>11. CASE Persist
  <2>1. CASE mem.node = "repair_verification" /\ got = "passed"
    BY <1>11, <2>1, QuietStep DEF Persist, Conclude, Quiet
  <2>2. CASE ~(mem.node = "repair_verification" /\ got = "passed")
    BY <1>0, <1>11, <2>2, Produced, ProducingStep DEF Persist, Conclude, Producing, PointInv
  <2> QED
    BY <2>1, <2>2
<1>12. CASE PersistFails
  BY <1>0, <1>12, ErrorProduced, ProducingStep DEF PersistFails, Producing
<1>13. CASE CumulativeWrite
  BY <1>13, QuietStep DEF CumulativeWrite, Quiet
<1>14. CASE CumulativeRest
  BY <1>0, <1>14, Produced, ProducingStep
     DEF CumulativeRest, Producing, PointInv, Claiming, Verifying
<1>15. CASE CumulativeReplay
  BY <1>0, <1>15, Produced, VerifiedProduced, ProducingStep
     DEF CumulativeReplay, Producing, PointInv, Claiming, Verifying
<1>16. CASE CumulativeFails
  BY <1>0, <1>16, VerifiedProduced, ProducingStep DEF CumulativeFails, Producing, PointInv
<1>17. CASE Interrupt
  BY <1>17, QuietStep DEF Interrupt, Quiet
<1>18. CASE AwaitApproval
  <2> DEFINE c == [mem EXCEPT !.decision = resume, !.node = AfterApproval(resume)]
  <2>1. resume \in Decisions /\ mem.attempt < MAX_REPAIR_ATTEMPTS
    BY <1>0, <1>18 DEF AwaitApproval, Bounded, Attempting, TypingInv
  <2>2. /\ Bounded(c) /\ c.decision = resume /\ c.attempt = mem.attempt
        /\ c.node = "apply_candidate" => resume = "approve"
    BY <1>0, <2>1 DEF AfterApproval, Bounded, Checkpoints, Nodes, Decisions, Attempting
  <2> QED
    BY <1>18, <2>2 DEF AwaitApproval, CheckpointInv, Sound, Bounded, Approved, Keys
<1>19. CASE RejectCandidate
  BY <1>0, <1>19, MovedType, ProducingStep
     DEF RejectCandidate, Producing, Ended, Bounded, Attempting, Nodes, Statuses,
         Terminal
<1>20. CASE ApplyRefused
  BY <1>0, <1>20, ErrorProduced, ProducingStep DEF ApplyRefused, Producing
<1>21. CASE ApplyReplay
  BY <1>0, <1>21, ApplyProduced, ProducingStep DEF ApplyReplay, Producing
<1>22. CASE ApplyObserve
  BY <1>22, QuietStep DEF ApplyObserve, Quiet
<1>23. CASE ApplySome
  BY <1>23, QuietStep DEF ApplySome, Quiet
<1>24. CASE ApplyAll
  BY <1>24, QuietStep DEF ApplyAll, Quiet
<1>25. CASE ApplyRollback
  <2>1. CASE Hold("persist_apply", "workspace_changed")
    BY <1>25, <2>1, QuietStep DEF ApplyRollback, Quiet
  <2>2. CASE Produce(Errored)
    BY <1>0, <1>25, <2>2, ErrorProduced, ProducingStep DEF ApplyRollback, Producing
  <2> QED
    BY <1>25, <2>1, <2>2 DEF ApplyRollback
<1>26. CASE PersistApply
  BY <1>26, QuietStep DEF PersistApply, Quiet
<1>27. CASE PersistApplyMark
  BY <1>0, <1>27, ApplyProduced, ProducingStep DEF PersistApplyMark, Producing, PointInv
<1>28. CASE AppendEvent
  <2>1. CASE Refused(Event(upd))
    BY <1>28, <2>1, QuietStep DEF AppendEvent, Quiet
  <2>2. CASE ~Refused(Event(upd))
    <3>1. /\ pc = "event" /\ pc' = "commit" /\ UNCHANGED <<ckpt, mem, upd, pend>>
          /\ events \subseteq events' /\ EventKey \in Keys'
      BY <1>28, <2>2, EventsGrow DEF AppendEvent, Event
    <3>2. upd.node = "apply_candidate" => EventKey = <<"approval", upd.attempt + 1, "approve">>
      BY <3>1 DEF EventKey, CheckpointInv
    <3>3. Sound(upd)'
      BY <3>1, <3>2 DEF CheckpointInv, Sound, Bounded, Approved
    <3> QED
      BY <3>1, <3>3 DEF CheckpointInv, Sound, Bounded, Approved, Keys
  <2> QED
    BY <2>1, <2>2
<1>29. CASE FinalizeEvent
  BY <1>29, EventsGrow, QuietStep DEF FinalizeEvent, Quiet
<1>30. CASE LogUnreadable \/ EventFails
  BY <1>30, QuietStep DEF LogUnreadable, EventFails, Quiet
<1>31. CASE WriteReport
  BY <1>31, QuietStep DEF WriteReport, Quiet
<1>32. CASE ReportRest
  BY <1>32, QuietStep DEF ReportRest, Quiet
<1>33. CASE MarkReport
  BY <1>33, QuietStep DEF MarkReport, Quiet
<1>34. ASSUME Reported, UNCHANGED <<ckpt, events>> PROVE CheckpointInv'
  <2>1. Bounded(Moved("END", mem.status)) /\ Moved("END", mem.status).node = "END"
    BY <1>0, MovedType DEF Bounded, Attempting, Nodes, Checkpoints
  <2> QED
    BY <1>34, <2>1 DEF Reported, CheckpointInv, Sound, Bounded, Approved, Keys
<1>35. CASE ReplayReport
  <2>1. CASE Reported
    BY <1>35, <1>34, <2>1 DEF ReplayReport
  <2>2. CASE ~Reported
    BY <1>35, <2>2, QuietStep DEF ReplayReport, Quiet
  <2> QED
    BY <2>1, <2>2
<1>36. CASE MarkRest
  BY <1>36, <1>34 DEF MarkRest
<1>37. CASE ReportFails
  BY <1>37, QuietStep DEF ReportFails, Quiet
<1>38. CASE Commit
  <2>1. Sound(upd) /\ upd \in Checkpoints
    BY <1>38 DEF Commit, CheckpointInv, Sound, Bounded
  <2>2. pend' \in Seq(Checkpoints) /\ \A k \in 1 .. Len(pend') : Sound(pend'[k])
    BY <1>38, <2>1 DEF Commit, CheckpointInv
  <2> QED
    BY <1>38, <2>1, <2>2 DEF Commit, CheckpointInv, Sound, Bounded, Approved, Keys
<1>39. CASE Flush
  <2>1. /\ ckpt' \in Checkpoints /\ Sound(ckpt')
        /\ pend' \in Seq(Checkpoints) /\ \A k \in 1 .. Len(pend') : Sound(pend'[k])
    BY <1>39 DEF Flush, CheckpointInv, Sound, Bounded
  <2> QED
    BY <1>39, <2>1 DEF Flush, CheckpointInv, Sound, Bounded, Approved, Keys
<1>40. CASE Exit
  BY <1>40, FreshSound DEF Exit, Flushed, CheckpointInv, Sound, Bounded, Approved, Keys
<1>41. CASE RunCommand
  <2> DEFINE c == [Fresh EXCEPT !.status = "created"]
  <2>1. Bounded(c) /\ c.node = "validate_input"
    BY AttemptsAssumption
       DEF Fresh, Bounded, Checkpoints, Nodes, Statuses, Terminal, Decisions, Usages,
           Attempting
  <2>2. <<c>> \in Seq(Checkpoints) /\ \A k \in 1 .. Len(<<c>>) : <<c>>[k] = c
    BY <2>1 DEF Bounded
  <2> HIDE DEF c
  <2>3. mem' = c /\ pend' = <<c>> /\ pc' = "node" /\ UNCHANGED <<ckpt, events>>
    BY <1>41 DEF RunCommand, Begin, c
  <2> QED
    BY <2>1, <2>2, <2>3 DEF CheckpointInv, Sound, Bounded, Approved, Keys
<1>42. CASE \E d \in {"approve", "reject"} : ResumeCommand(d)
  <2>1. mem' = ckpt /\ pend' = << >> /\ pc' = "node" /\ UNCHANGED <<ckpt, events>>
    BY <1>42 DEF ResumeCommand, Resumed, Begin
  <2> QED
    BY <2>1 DEF CheckpointInv, Sound, Bounded, Approved, Keys
<1>43. CASE Crash
  BY <1>43, FreshSound DEF Crash, CheckpointInv, Sound, Bounded, Approved, Keys
<1>44. CASE \E S \in SUBSET Attempts \ {{}}, v \in Views : Edit(S, v)
  BY <1>44, QuietStep DEF Edit, Quiet
<1>45. CASE UNCHANGED vars
  BY <1>45, QuietStep DEF vars, Quiet
<1>46. CASE ApplyUnsynced
  <2>1. CASE Hold("persist_apply", "workspace_changed")
    BY <1>46, <2>1, QuietStep DEF ApplyUnsynced, Quiet
  <2>2. CASE Produce(Errored)
    BY <1>0, <1>46, <2>2, ErrorProduced, ProducingStep DEF ApplyUnsynced, Producing
  <2> QED
    BY <1>46, <2>1, <2>2 DEF ApplyUnsynced
<1> QED
  BY <1>1, <1>2, <1>3, <1>4, <1>5, <1>6, <1>7, <1>8, <1>9, <1>10, <1>11, <1>12, <1>13,
     <1>14, <1>15, <1>16, <1>17, <1>18, <1>19, <1>20, <1>21, <1>22, <1>23, <1>24,
     <1>25, <1>26, <1>27, <1>28, <1>29, <1>30, <1>31, <1>32, <1>33, <1>35, <1>36,
     <1>37, <1>38, <1>39, <1>40, <1>41, <1>42, <1>43, <1>44, <1>45, <1>46
     DEF Next, Step, Ledgers, Diffs, Gate, Applying, Audit, Ending

-----------------------------------------------------------------------------
(* Points, typing and side effects *)

LEMMA PointStep == PointInv /\ [Next]_vars => PointInv'
<1> SUFFICES ASSUME PointInv, [Next]_vars PROVE PointInv'
  OBVIOUS
<1> USE DEF PointInv, process, Produce, Goto, Hold, Leave, AtNode, Ready,
            Claiming, Verifying, Modelling
<1>1. CASE Ledgers
  BY <1>1
     DEF Ledgers, Claim, RefuseClaimed, ReplayTorn, ReplayComplete, Conclude, Verify,
         AskModel, ModelFails, PolicyViolated, PersistStart, Persist, PersistFails,
         InPlace, NoWork, durable
<1>2. CASE Diffs
  BY <1>2 DEF Diffs, CumulativeWrite, CumulativeRest, CumulativeReplay, CumulativeFails
<1>3. CASE Gate \/ ValidateInput
  BY <1>3 DEF Gate, ValidateInput, Interrupt, AwaitApproval, RejectCandidate
<1>4. CASE Applying
  BY <1>4 DEF Applying, ApplyRefused, ApplyReplay, ApplyObserve, ApplySome, ApplyAll,
              ApplyRollback, ApplyUnsynced, PersistApply, PersistApplyMark
<1>5. CASE Audit
  BY <1>5
     DEF Audit, AppendEvent, FinalizeEvent, LogUnreadable, EventFails, WriteReport, ReportRest,
         ReplayReport, MarkReport, MarkRest, Reported, ReportFails
<1>6. CASE Ending
  BY <1>6 DEF Ending, Commit, Flush, Exit
<1>7. CASE RunCommand \/ \E d \in {"approve", "reject"} : ResumeCommand(d)
  BY <1>7 DEF RunCommand, ResumeCommand, Resumed, Begin
<1>8. CASE Crash \/ (\E S \in SUBSET Attempts \ {{}}, v \in Views : Edit(S, v)) \/ UNCHANGED vars
  BY <1>8 DEF Crash, Edit, vars
<1> QED
  BY <1>1, <1>2, <1>3, <1>4, <1>5, <1>6, <1>7, <1>8 DEF Next, Step

LEMMA TypingStep == TypingInv /\ [Next]_vars => TypingInv'
<1> SUFFICES ASSUME TypingInv, [Next]_vars PROVE TypingInv'
  OBVIOUS
<1> USE DEF TypingInv, Views, process, durable, NoWork, NoEnv, Produce, Goto, Hold, Leave,
            Look
<1>1. CASE Ledgers
  BY <1>1
     DEF Ledgers, Claim, RefuseClaimed, ReplayTorn, ReplayComplete, Conclude, Verify,
         AskModel, ModelFails, PolicyViolated, PersistStart, Persist, PersistFails,
         InPlace
<1>2. CASE Diffs
  BY <1>2 DEF Diffs, CumulativeWrite, CumulativeRest, CumulativeReplay, CumulativeFails
<1>3. CASE Gate \/ ValidateInput
  BY <1>3 DEF Gate, ValidateInput, Interrupt, AwaitApproval, RejectCandidate
<1>4. CASE Applying
  BY <1>4 DEF Applying, ApplyRefused, ApplyReplay, ApplyObserve, ApplySome, ApplyAll,
              ApplyRollback, ApplyUnsynced, PersistApply, PersistApplyMark
<1>5. CASE Audit
  BY <1>5
     DEF Audit, AppendEvent, FinalizeEvent, LogUnreadable, EventFails, WriteReport, ReportRest,
         ReplayReport, MarkReport, MarkRest, Reported, ReportFails
<1>6. CASE Ending
  BY <1>6 DEF Ending, Commit, Flush, Exit, Decisions
<1>7. CASE RunCommand \/ \E d \in {"approve", "reject"} : ResumeCommand(d)
  BY <1>7 DEF RunCommand, ResumeCommand, Resumed, Begin, Decisions
<1>8. CASE Crash
  BY <1>8 DEF Crash, Decisions
<1>9. CASE \E S \in SUBSET Attempts \ {{}}, v \in Views : Edit(S, v)
  <2>1. PICK S \in SUBSET Attempts, v \in Views : Edit(S, v)
    BY <1>9
  <2>2. ws' \in [Attempts -> Views]
    BY <2>1 DEF Edit
  <2> QED
    BY <2>1, <2>2 DEF Edit
<1>10. CASE UNCHANGED vars
  BY <1>10 DEF vars
<1> QED
  BY <1>1, <1>2, <1>3, <1>4, <1>5, <1>6, <1>7, <1>8, <1>9, <1>10 DEF Next, Step

\* Steps that claim nothing and start nothing.
Effectless ==
    /\ UNCHANGED <<slot, effects>>
    /\ pc' = "work" => pc = "work" /\ UNCHANGED mem

LEMMA EffectlessStep == EffectInv /\ Effectless => EffectInv'
  BY DEF EffectInv, Effectless, Slot, Attempt

\* A side effect is started at the point work, and the node is left at once.
LEMMA StartedStep ==
    ASSUME EffectInv, Slot \in Slots, pc = "work", Started, UNCHANGED slot, pc' # "work"
    PROVE  EffectInv'
<1>1. effects' = [effects EXCEPT ![Slot] = 1]
  BY DEF EffectInv, Started
<1> HIDE DEF Slot
<1> QED
  BY <1>1 DEF EffectInv

\* A ledger that moves on is not claimed twice.
LEMMA StoredStep ==
    ASSUME EffectInv, Slot \in Slots, UNCHANGED effects, pc' # "work",
           NEW stage \in {"claimed", "torn", "complete"}, slot' = [slot EXCEPT ![Slot] = stage]
    PROVE  EffectInv'
  BY DEF EffectInv, Stages

LEMMA EffectStep == CheckpointInv /\ PointInv /\ EffectInv /\ [Next]_vars => EffectInv'
<1> SUFFICES ASSUME CheckpointInv, PointInv, EffectInv, [Next]_vars PROVE EffectInv'
  OBVIOUS
<1>0. mem.node \in Claiming \cup {"apply_candidate"} => Slot \in Slots
  BY SlotExists DEF CheckpointInv, Sound
<1> USE DEF process, durable, NoWork, NoEnv, Produce, Goto, Hold, Leave
<1>1. CASE Claim
  <2>1. Slot' = Slot /\ Slot \in Slots /\ slot[Slot] = "none"
    BY <1>0, <1>1 DEF Claim, Claimable, Slot, Attempt
  <2>2. slot' = [slot EXCEPT ![Slot] = "claimed"] /\ UNCHANGED effects
    BY <1>1 DEF Claim
  <2> HIDE DEF Slot
  <2> QED
    BY <2>1, <2>2 DEF EffectInv, Stages
<1>2. CASE Verify \/ AskModel \/ ModelFails \/ PolicyViolated
  BY <1>0, <1>2, StartedStep
     DEF Verify, AskModel, ModelFails, PolicyViolated, Claiming, Verifying, Modelling
<1>3. CASE PersistStart \/ Persist
  BY <1>0, <1>3, StoredStep
     DEF PersistStart, Persist, Conclude, PointInv, InPlace, Claiming, Verifying,
         Modelling
<1>4. CASE PersistApply \/ PersistApplyMark
  BY <1>0, <1>4, StoredStep DEF PersistApply, PersistApplyMark, PointInv
<1>5. CASE RefuseClaimed \/ ReplayTorn \/ ReplayComplete \/ PersistFails
  BY <1>5, EffectlessStep
     DEF RefuseClaimed, ReplayTorn, ReplayComplete, PersistFails, Conclude, Effectless
<1>6. CASE Diffs
  BY <1>6, EffectlessStep
     DEF Diffs, CumulativeWrite, CumulativeRest, CumulativeReplay, CumulativeFails,
         Effectless
<1>7. CASE Gate \/ ValidateInput
  BY <1>7, EffectlessStep
     DEF Gate, ValidateInput, Interrupt, AwaitApproval, RejectCandidate, Effectless
<1>8. CASE ApplyRefused \/ ApplyReplay \/ ApplyObserve \/ ApplySome \/ ApplyAll \/ ApplyRollback
           \/ ApplyUnsynced
  BY <1>8, EffectlessStep
     DEF ApplyRefused, ApplyReplay, ApplyObserve, ApplySome, ApplyAll, ApplyRollback,
         ApplyUnsynced, Effectless
<1>9. CASE Audit
  BY <1>9, EffectlessStep
     DEF Audit, AppendEvent, FinalizeEvent, LogUnreadable, EventFails, WriteReport, ReportRest,
         ReplayReport, MarkReport, MarkRest, Reported, ReportFails, Effectless
<1>10. CASE Ending
  BY <1>10, EffectlessStep DEF Ending, Commit, Flush, Exit, Effectless
<1>11. CASE RunCommand \/ \E d \in {"approve", "reject"} : ResumeCommand(d)
  BY <1>11, EffectlessStep DEF RunCommand, ResumeCommand, Resumed, Begin, Effectless
<1>12. CASE Crash \/ (\E S \in SUBSET Attempts \ {{}}, v \in Views : Edit(S, v)) \/ UNCHANGED vars
  BY <1>12, EffectlessStep DEF Crash, Edit, vars, Effectless
<1> QED
  BY <1>1, <1>2, <1>3, <1>4, <1>5, <1>6, <1>7, <1>8, <1>9, <1>10, <1>11, <1>12
     DEF Next, Step, Ledgers, Applying

-----------------------------------------------------------------------------
(* Theorems *)

LEMMA InitInv == Init => IInv
<1> SUFFICES ASSUME Init PROVE IInv
  OBVIOUS
<1>1. CheckpointInv
  BY FreshSound DEF Init, CheckpointInv
<1>2. PointInv /\ TypingInv /\ EffectInv
  BY DEF Init, PointInv, TypingInv, EffectInv, Stages, Views, Decisions
<1> QED
  BY <1>1, <1>2 DEF IInv

THEOREM Invariance == Spec => []IInv
<1>1. IInv /\ [Next]_vars => IInv'
  BY CheckpointStep, PointStep, TypingStep, EffectStep DEF IInv
<1> QED
  BY <1>1, InitInv, PTL DEF Spec

\* verify and create_once: the ledger claimed before a side effect keeps every
\* replay of the node, in whatever process, from starting it again.
THEOREM SideEffectsAtMostOnce == Spec => []SideEffectsOnce
<1>1. IInv => SideEffectsOnce
  BY DEF IInv, EffectInv, SideEffectsOnce
<1> QED
  BY <1>1, Invariance, PTL

\* Whoever writes a candidate, but for an edit: apply_candidate, that of its attempt.
LEMMA OnlyApplyWrites ==
    ASSUME IInv, [Next]_vars, edits' = edits,
           NEW n \in Attempts, ws'[n] # ws[n], ws'[n] # "before"
    PROVE  mem.node = "apply_candidate" /\ n = mem.attempt + 1
<1> USE DEF process, durable, NoWork, NoEnv, Produce, Goto, Hold, Leave
<1>1. CASE ApplySome \/ ApplyAll \/ ApplyUnsynced
  <2>1. mem.node = "apply_candidate" /\ Attempt = mem.attempt + 1
    BY <1>1 DEF ApplySome, ApplyAll, ApplyUnsynced, IInv, PointInv, Attempt
  <2>2. ws \in [Attempts -> Views] /\ \E v : ws' = [ws EXCEPT ![Attempt] = v]
    BY <1>1 DEF ApplySome, ApplyAll, ApplyUnsynced, Look, IInv, TypingInv
  <2> QED
    BY <2>1, <2>2
<1>2. CASE Persist
  BY <1>2 DEF Persist, IInv, TypingInv
<1>3. CASE ApplyRollback
  BY <1>3 DEF ApplyRollback, IInv, TypingInv
<1>4. CASE \E S \in SUBSET Attempts \ {{}}, v \in Views : Edit(S, v)
  BY <1>4 DEF Edit, IInv, TypingInv
<1>5. CASE UNCHANGED ws
  BY <1>5
<1>6. CASE UNCHANGED vars
  BY <1>6 DEF vars
<1>7. Ledgers => Persist \/ UNCHANGED ws
  BY DEF Ledgers, Claim, RefuseClaimed, ReplayTorn, ReplayComplete, Conclude, Verify,
         AskModel, ModelFails, PolicyViolated, PersistStart, PersistFails
<1>8. Diffs \/ Gate \/ ValidateInput \/ Ending => UNCHANGED ws
  BY DEF Diffs, CumulativeWrite, CumulativeRest, CumulativeReplay, CumulativeFails, Gate,
         ValidateInput, Interrupt, AwaitApproval, RejectCandidate, Ending, Commit, Flush, Exit
<1>9. Applying => ApplySome \/ ApplyAll \/ ApplyRollback \/ ApplyUnsynced \/ UNCHANGED ws
  BY DEF Applying, ApplyRefused, ApplyReplay, ApplyObserve, PersistApply, PersistApplyMark
<1>10. Audit => UNCHANGED ws
  BY DEF Audit, AppendEvent, FinalizeEvent, LogUnreadable, EventFails, WriteReport, ReportRest,
         ReplayReport, MarkReport, MarkRest, Reported, ReportFails
<1>11. RunCommand \/ (\E d \in {"approve", "reject"} : ResumeCommand(d)) \/ Crash
         => UNCHANGED ws
  BY DEF RunCommand, ResumeCommand, Resumed, Begin, Crash
<1> QED
  BY <1>1, <1>2, <1>3, <1>4, <1>5, <1>6, <1>7, <1>8, <1>9, <1>10, <1>11 DEF Next, Step

\* apply_candidate writes a candidate only when events.jsonl already holds the
\* approval of that very attempt, through any crash, lost checkpoint or replay.
THEOREM ApprovedBeforeWritten == Spec => WritesNeedApproval
<1> DEFINE Writes == \A n \in Attempts :
              (edits' = edits /\ ws'[n] # ws[n] /\ ws'[n] # "before") => Approved(n)
<1>1. IInv /\ [Next]_vars => [Writes]_vars
  BY OnlyApplyWrites DEF IInv, CheckpointInv, Sound
<1> QED
  BY <1>1, Invariance, PTL DEF Spec, WritesNeedApproval
=============================================================================
