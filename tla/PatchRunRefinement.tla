------------------------- MODULE PatchRunRefinement -------------------------
(***************************************************************************)
(* A Patch Run implements its lifecycle (PatchLifecycle).  The durable     *)
(* checkpoint moves only when the checkpointer flushes the oldest one in   *)
(* flight, long after its node ended: so every two neighbours among the    *)
(* durable checkpoint, those in flight, the state of the current node and  *)
(* the state it has produced must be one step of the lifecycle apart.      *)
(***************************************************************************)
EXTENDS PatchRunOutcomes

\* The phase the lifecycle sees in a checkpoint.
Phase(c) ==
    CASE c.node = "apply_candidate"  -> "approved"
      [] c.node = "reject_candidate" -> "refused"
      [] OTHER                       -> c.status

\* Where a phase may lead without a change of the attempt.
Leads(p) ==
    CASE p = "none"             -> {"created"}
      [] p = "created"          -> {"validated"}
      [] p = "validated"        -> {"baseline_failed", "issue_not_reproduced", "error"}
      [] p = "baseline_failed"  -> {"planned", "error"}
      [] p \in {"planned", "diagnosed"} -> {"pending_approval", "error"}
      [] p = "pending_approval" -> {"approved", "refused"}
      [] p = "refused"          -> {"rejected"}
      [] p = "approved"         -> {"testing", "workspace_changed", "error"}
      [] p = "testing"          -> {"error"}
      [] p = "diagnosing"       -> {"error"}
      [] OTHER                  -> {}

\* The checkpoint d is one step of the lifecycle after c.
Follows(c, d) ==
    LET p == Phase(c) q == Phase(d) IN
    \/ /\ c.node = "finalize_report" /\ d.node = "END"
       /\ p \in Terminal /\ q = p /\ d.attempt = c.attempt
    \/ /\ "END" \notin {c.node, d.node}
       /\ \/ q \in Leads(p) /\ d.attempt = c.attempt
          \/ /\ p = "testing" /\ q \in {"succeeded", "diagnosing", "error"}
             /\ c.attempt < MAX_REPAIR_ATTEMPTS /\ d.attempt = c.attempt + 1
          \/ /\ p = "diagnosing" /\ d.attempt = c.attempt
             /\ IF c.attempt = MAX_REPAIR_ATTEMPTS THEN q = "attempts_exhausted"
                                                   ELSE q = "diagnosed"

\* The status each node starts from, and no attempt is counted before the first
\* candidate.
Before ==
    [validate_input |-> {"created"}, baseline_verification |-> {"validated"},
     create_plan |-> {"baseline_failed"}, create_candidate |-> {"planned", "diagnosed"},
     approval_gate |-> {"pending_approval"}, reject_candidate |-> {"pending_approval"},
     apply_candidate |-> {"pending_approval"}, repair_verification |-> {"testing"},
     create_diagnosis |-> {"diagnosing"}, finalize_report |-> Terminal, END |-> Terminal]

Phased(c) ==
    /\ c.status \in Before[c.node]
    /\ c.node \in {"validate_input", "baseline_verification", "create_plan"} => c.attempt = 0

PhaseInv ==
    /\ ckpt = Fresh \/ Phased(ckpt)
    /\ pc # "idle" => Phased(mem)
    /\ \A k \in 1 .. Len(pend) : Phased(pend[k])
    /\ pc \in {"event", "commit"} => Phased(upd)

ChainInv ==
    /\ pend # << >> => Follows(ckpt, pend[1])
    /\ \A k \in 1 .. Len(pend) - 1 : Follows(pend[k], pend[k + 1])
    /\ pc \in {"event", "commit"} => Follows(mem, upd)

-----------------------------------------------------------------------------
(* Lemmas *)

\* A step of the relation is a step of the lifecycle.
LEMMA FollowsIsStep ==
    ASSUME ckpt \in Checkpoints, ckpt' \in Checkpoints, Follows(ckpt, ckpt')
    PROVE  Lifecycle!Next
<1> DEFINE p == Phase(ckpt)
           q == Phase(ckpt')
<1> USE DEF Lifecycle!From, Lifecycle!To, Lifecycle!Terminal, Terminal
<1>1. CASE ckpt.node = "finalize_report" /\ ckpt'.node = "END"
  BY <1>1 DEF Follows, Phase, Lifecycle!Next, Lifecycle!Report
<1>2. CASE "END" \notin {ckpt.node, ckpt'.node}
  <2>1. CASE q \in Leads(p) /\ ckpt'.attempt = ckpt.attempt
    BY <1>2, <2>1
       DEF Leads, Phase, Lifecycle!Next, Lifecycle!Create, Lifecycle!Validate,
           Lifecycle!Reproduce, Lifecycle!Plan, Lifecycle!Propose, Lifecycle!Decide,
           Lifecycle!Reject, Lifecycle!Apply, Lifecycle!Verify, Lifecycle!Diagnose
  <2>2. CASE p = "testing" /\ ~(q \in Leads(p) /\ ckpt'.attempt = ckpt.attempt)
    BY <1>2, <2>2 DEF Follows, Phase, Lifecycle!Next, Lifecycle!Verify
  <2>3. CASE p = "diagnosing" /\ ~(q \in Leads(p) /\ ckpt'.attempt = ckpt.attempt)
    BY <1>2, <2>3, AttemptsAssumption
       DEF Follows, Phase, Lifecycle!Next, Lifecycle!Diagnose, Checkpoints
  <2> QED
    BY <1>2, <2>1, <2>2, <2>3 DEF Follows
<1> QED
  BY <1>1, <1>2 DEF Follows

\* What a node that has been given mem may produce.
Produces(c) == Phased(c) /\ Follows(mem, c)

LEMMA Fields ==
    ASSUME mem \in Checkpoints
    PROVE  /\ \A n, st : /\ Moved(n, st).node = n /\ Moved(n, st).status = st
                         /\ Moved(n, st).attempt = mem.attempt
           /\ \A c \in Checkpoints : \A u : /\ Using(c, u).node = c.node
                                            /\ Using(c, u).status = c.status
                                            /\ Using(c, u).attempt = c.attempt
           /\ \A c \in Checkpoints : /\ Verified(c).node = c.node
                                     /\ Verified(c).status = c.status
                                     /\ Verified(c).attempt = mem.attempt + 1
  BY DEF Moved, Using, Verified, Checkpoints

\* A failure ends the Run from any node that can have one.
LEMMA ErrorProduces ==
    ASSUME mem \in Checkpoints, Phased(mem), mem.node \in Claiming \cup {"apply_candidate"},
           NEW c, c.node = "finalize_report", c.status = "error", c.attempt = mem.attempt
    PROVE  Produces(c)
  BY DEF Produces, Phased, Before, Follows, Phase, Leads, Terminal, Claiming, Verifying, Modelling

LEMMA AfterProduces ==
    ASSUME IInv, Phased(mem), mem.node \in Claiming, NEW o
    PROVE  Produces(After(o))
<1> DEFINE c == After(o)
<1> SUFFICES Produces(c)
  OBVIOUS
<1>0. mem \in Checkpoints /\ Bounded(mem)
  BY DEF IInv, CheckpointInv, Sound, Bounded
<1>1. CASE mem.node = "baseline_verification"
  <2>1. /\ \/ c.node = "create_plan" /\ c.status = "baseline_failed"
           \/ c.node = "finalize_report" /\ c.status \in {"issue_not_reproduced", "error"}
        /\ c.attempt = mem.attempt
    BY <1>0, <1>1, Fields DEF After, AfterBaseline, Ended, Errored
  <2> HIDE DEF c
  <2> QED
    BY <1>1, <2>1 DEF Produces, Phased, Before, Follows, Phase, Leads, Terminal
<1>2. CASE mem.node = "create_plan"
  <2>1. c.node = "create_candidate" /\ c.status = "planned" /\ c.attempt = 0
    BY <1>0, <1>2 DEF After, AfterPlan, Using, Moved, Checkpoints
  <2> HIDE DEF c
  <2> QED
    BY <1>2, <2>1 DEF Produces, Phased, Before, Follows, Phase, Leads
<1>3. CASE mem.node = "create_candidate"
  <2>1. c.node = "approval_gate" /\ c.status = "pending_approval" /\ c.attempt = mem.attempt
    BY <1>0, <1>3 DEF After, AfterCandidate, Using, Moved, Checkpoints
  <2> HIDE DEF c
  <2> QED
    BY <1>3, <2>1 DEF Produces, Phased, Before, Follows, Phase, Leads
<1>4. CASE mem.node = "repair_verification"
  <2>1. /\ \/ c.node = "create_diagnosis" /\ c.status = "diagnosing"
           \/ c.node = "finalize_report" /\ c.status \in {"succeeded", "error"}
        /\ c.attempt = mem.attempt + 1 /\ mem.attempt < MAX_REPAIR_ATTEMPTS
    BY <1>0, <1>4
       DEF After, AfterVerification, Verified, Ended, Errored, Moved, Checkpoints, Bounded,
           Attempting
  <2> HIDE DEF c
  <2> QED
    BY <1>4, <2>1 DEF Produces, Phased, Before, Follows, Phase, Leads, Terminal
<1>5. CASE mem.node = "create_diagnosis"
  <2>1. /\ IF mem.attempt = MAX_REPAIR_ATTEMPTS
           THEN c.node = "finalize_report" /\ c.status = "attempts_exhausted"
           ELSE c.node = "create_candidate" /\ c.status = "diagnosed"
        /\ c.attempt = mem.attempt
    <3>1. c = Using(AfterDiagnosis, "added")
      BY <1>5 DEF After
    <3>2. mem.attempt >= MAX_REPAIR_ATTEMPTS <=> mem.attempt = MAX_REPAIR_ATTEMPTS
      BY <1>0, AttemptsAssumption DEF Checkpoints
    <3> HIDE DEF c
    <3> QED
      BY <1>0, <3>1, <3>2 DEF AfterDiagnosis, Using, Ended, Moved, Checkpoints
  <2> HIDE DEF c
  <2> QED
    BY <1>5, <2>1 DEF Produces, Phased, Before, Follows, Phase, Leads, Terminal
<1> QED
  BY <1>1, <1>2, <1>3, <1>4, <1>5 DEF Claiming, Verifying, Modelling

LEMMA ApplyProduces ==
    ASSUME mem \in Checkpoints, Phased(mem), mem.node = "apply_candidate", NEW o
    PROVE  Produces(AfterApply(o))
<1> DEFINE c == AfterApply(o)
<1> SUFFICES Produces(c)
  OBVIOUS
<1>1. /\ \/ c.node = "repair_verification" /\ c.status = "testing"
         \/ c.node = "finalize_report" /\ c.status \in {"workspace_changed", "error"}
      /\ c.attempt = mem.attempt
  BY Fields DEF AfterApply, Ended, Errored
<1> HIDE DEF c
<1> QED
  BY <1>1 DEF Produces, Phased, Before, Follows, Phase, Leads, Terminal

\* Also when repair_verification fails with the attempt counted.
LEMMA FailureProduces ==
    ASSUME IInv, Phased(mem), mem.node \in Claiming \cup {"apply_candidate"}
    PROVE  /\ Produces(Errored) /\ \A u \in Usages : Produces(Using(Errored, u))
           /\ mem.node = "repair_verification" => Produces(Verified(Errored))
<1>0. mem \in Checkpoints /\ Bounded(mem)
  BY DEF IInv, CheckpointInv, Sound, Bounded
<1>1. Produces(Errored) /\ \A u \in Usages : Produces(Using(Errored, u))
  BY <1>0, ErrorProduces DEF Errored, Ended, Moved, Using, Checkpoints
<1>2. CASE mem.node = "repair_verification"
  <2> DEFINE c == Verified(Errored)
  <2>1. /\ c.node = "finalize_report" /\ c.status = "error"
        /\ c.attempt = mem.attempt + 1 /\ mem.attempt < MAX_REPAIR_ATTEMPTS
    BY <1>0, <1>2 DEF Verified, Errored, Ended, Moved, Checkpoints, Bounded, Attempting
  <2> HIDE DEF c
  <2>2. Produces(c)
    BY <1>2, <2>1 DEF Produces, Phased, Before, Follows, Phase, Leads, Terminal
  <2> QED
    BY <1>1, <2>2 DEF c
<1> QED
  BY <1>1, <1>2

LEMMA ProducerFollows ==
    ASSUME IInv, PhaseInv, Producer, pc' = "event", resume \in {"none", "approve", "reject"}
    PROVE  Produces(upd')
<1> USE DEF process, Produce, Goto, Hold, Leave, Ready, AtNode
<1>0. mem \in Checkpoints /\ (pc # "idle" => Phased(mem))
  BY DEF IInv, CheckpointInv, Sound, Bounded, PhaseInv
<1>1. CASE ValidateInput
  <2>1. /\ Phased(mem) /\ mem.node = "validate_input"
        /\ upd'.node = "baseline_verification" /\ upd'.status = "validated"
        /\ upd'.attempt = mem.attempt
    BY <1>0, <1>1, Fields DEF ValidateInput
  <2> QED
    BY <2>1 DEF Produces, Phased, Before, Follows, Phase, Leads
<1>2. CASE Ledgers
  <2>1. (Phased(mem) /\ mem.node \in Claiming) \/ PersistFails
    BY <1>0, <1>2
       DEF Ledgers, Claim, RefuseClaimed, ReplayTorn, ReplayComplete, Verify, AskModel,
           ModelFails, PolicyViolated, PersistStart, Persist, IInv, PointInv
  <2>2. CASE PersistFails
    BY <1>0, <2>2, FailureProduces DEF PersistFails, IInv, PointInv
  <2>3. CASE ~PersistFails
    BY <1>2, <2>1, <2>3, AfterProduces, FailureProduces
       DEF Ledgers, Claim, RefuseClaimed, ReplayTorn, ReplayComplete, Conclude, Verify,
           AskModel, ModelFails, PolicyViolated, PersistStart, Persist
  <2> QED
    BY <2>2, <2>3
<1>3. CASE Diffs
  <2>1. Phased(mem) /\ mem.node = "repair_verification" /\ mem.node \in Claiming
    BY <1>0, <1>3
       DEF Diffs, CumulativeWrite, CumulativeRest, CumulativeReplay, CumulativeFails, IInv,
           PointInv, Claiming, Verifying
  <2> QED
    BY <1>3, <2>1, AfterProduces, FailureProduces
       DEF Diffs, CumulativeWrite, CumulativeRest, CumulativeReplay, CumulativeFails
<1>4. CASE Gate
  <2>1. CASE AwaitApproval
    <3>1. /\ Phased(mem) /\ mem.node = "approval_gate"
          /\ upd'.node \in {"apply_candidate", "reject_candidate"}
          /\ upd'.status = mem.status /\ upd'.attempt = mem.attempt
      BY <1>0, <2>1 DEF AwaitApproval, AfterApproval, Checkpoints
    <3> QED
      BY <3>1 DEF Produces, Phased, Before, Follows, Phase, Leads
  <2>2. CASE RejectCandidate
    <3>1. /\ Phased(mem) /\ mem.node = "reject_candidate"
          /\ upd'.node = "finalize_report" /\ upd'.status = "rejected"
          /\ upd'.attempt = mem.attempt
      BY <1>0, <2>2, Fields DEF RejectCandidate, Ended
    <3> QED
      BY <3>1 DEF Produces, Phased, Before, Follows, Phase, Leads, Terminal
  <2> QED
    BY <1>4, <2>1, <2>2 DEF Gate, Interrupt
<1>5. CASE Applying
  <2>1. Phased(mem) /\ mem.node = "apply_candidate"
    BY <1>0, <1>5
       DEF Applying, ApplyRefused, ApplyReplay, ApplyObserve, ApplySome, ApplyAll,
           ApplyRollback, ApplyUnsynced, PersistApply, PersistApplyMark, IInv, PointInv
  <2> QED
    BY <1>0, <1>5, <2>1, ApplyProduces, FailureProduces
       DEF Applying, ApplyRefused, ApplyReplay, ApplyObserve, ApplySome, ApplyAll,
           ApplyRollback, ApplyUnsynced, PersistApply, PersistApplyMark
<1> QED
  BY <1>1, <1>2, <1>3, <1>4, <1>5 DEF Producer

-----------------------------------------------------------------------------
(* Neighbours *)

LEMMA ReportFollows ==
    ASSUME mem \in Checkpoints, Phased(mem), mem.node = "finalize_report",
           NEW c, c = Moved("END", mem.status)
    PROVE  Produces(c)
<1>1. c.node = "END" /\ c.status = mem.status /\ c.attempt = mem.attempt
  BY Fields
<1> QED
  BY <1>1 DEF Produces, Phased, Before, Follows, Phase, Terminal

RefinementInv == OutcomeInv /\ PhaseInv /\ ChainInv

LEMMA ChainStep == RefinementInv /\ [Next]_vars => PhaseInv' /\ ChainInv'
<1> SUFFICES ASSUME RefinementInv, [Next]_vars PROVE PhaseInv' /\ ChainInv'
  OBVIOUS
<1>0. /\ IInv /\ SettledInv /\ EndInv /\ PhaseInv /\ ChainInv
      /\ mem \in Checkpoints /\ pend \in Seq(Checkpoints) /\ ckpt \in Checkpoints
  BY DEF RefinementInv, OutcomeInv, IInv, CheckpointInv, Sound, Bounded
<1> USE DEF process, durable, NoWork, NoEnv, Goto, Leave
<1>1. CASE Producer
  <2>1. /\ UNCHANGED <<ckpt, mem, pend>> /\ pc # "idle" /\ pc' # "commit"
        /\ resume \in Decisions
    BY <1>0, <1>1, ProducerGoes DEF Reporting, IInv, TypingInv
  <2>2. pc' = "event" => Phased(upd') /\ Follows(mem, upd')
    BY <1>0, <1>1, <2>1, ProducerFollows DEF Produces, Decisions
  <2> QED
    BY <1>0, <2>1, <2>2 DEF PhaseInv, ChainInv
<1>2. CASE Audit
  <2>1. /\ UNCHANGED <<ckpt, mem, pend>> /\ pc # "idle" /\ pc' # "event"
        /\ pc' = "commit" => \/ pc = "event" /\ UNCHANGED upd
                             \/ pc \in Reporting /\ upd' = Moved("END", mem.status)
    BY <1>2
       DEF Audit, AppendEvent, FinalizeEvent, LogUnreadable, EventFails, WriteReport,
           ReportRest, ReplayReport, MarkReport, MarkRest, Reported, ReportFails, Appending,
           AtNode, Ready, Reporting
  <2>2. pc' = "commit" => Phased(upd') /\ Follows(mem, upd')
    BY <1>0, <2>1, ReportFollows DEF Produces, PhaseInv, ChainInv, EndInv
  <2> QED
    BY <1>0, <2>1, <2>2 DEF PhaseInv, ChainInv
<1>3. CASE Commit
  <2>1. /\ upd \in Checkpoints /\ Phased(upd) /\ Follows(mem, upd) /\ Latest = mem
        /\ mem' = upd /\ pend' = Append(pend, upd) /\ UNCHANGED ckpt
        /\ pc' \notin {"event", "commit", "idle"}
    BY <1>0, <1>3
       DEF Commit, IInv, CheckpointInv, Sound, Bounded, PhaseInv, ChainInv, SettledInv
  <2>2. /\ Len(pend') = Len(pend) + 1 /\ pend'[Len(pend) + 1] = upd /\ Len(pend) \in Nat
        /\ \A k \in 1 .. Len(pend) : pend'[k] = pend[k]
    BY <1>0, <2>1
  <2>3. \A k \in 1 .. Len(pend') : Phased(pend'[k])
    BY <1>0, <2>1, <2>2 DEF PhaseInv
  <2>4. CASE pend = << >>
    <3>1. Len(pend) = 0 /\ ckpt = mem
      BY <2>1, <2>4 DEF Latest
    <3> QED
      BY <1>0, <2>1, <2>2, <2>3, <3>1 DEF PhaseInv, ChainInv
  <2>5. CASE pend # << >>
    <3>1. Len(pend) > 0 /\ pend[Len(pend)] = mem
      BY <1>0, <2>1, <2>5 DEF Latest
    <3>2. \A k \in 1 .. Len(pend') - 1 : Follows(pend'[k], pend'[k + 1])
      <4> TAKE k \in 1 .. Len(pend') - 1
      <4>1. CASE k = Len(pend)
        BY <2>1, <2>2, <3>1, <4>1
      <4>2. CASE k # Len(pend)
        BY <1>0, <2>2, <4>2 DEF ChainInv
      <4> QED
        BY <4>1, <4>2
    <3>3. pend'[1] = pend[1]
      BY <2>2, <3>1
    <3> QED
      BY <1>0, <2>1, <2>3, <2>5, <3>2, <3>3 DEF PhaseInv, ChainInv
  <2> QED
    BY <2>4, <2>5
<1>4. CASE Flush
  <2>1. /\ ckpt' = pend[1] /\ 1 \in 1 .. Len(pend) /\ UNCHANGED <<pc, mem, upd>>
        /\ Len(pend') = Len(pend) - 1
        /\ \A k \in 1 .. Len(pend') : pend'[k] = pend[k + 1] /\ k + 1 \in 1 .. Len(pend)
        /\ pend' # << >> => 1 \in 1 .. Len(pend')
    BY <1>0, <1>4 DEF Flush
  <2>2. Phased(ckpt') /\ \A k \in 1 .. Len(pend') : Phased(pend'[k])
    BY <1>0, <2>1 DEF PhaseInv
  <2>3. pend' # << >> => Follows(ckpt', pend'[1])
    <3> HAVE pend' # << >>
    <3>1. 1 \in 1 .. Len(pend) - 1 /\ pend'[1] = pend[1 + 1]
      BY <1>0, <2>1
    <3> QED
      BY <1>0, <2>1, <3>1 DEF ChainInv
  <2>4. \A k \in 1 .. Len(pend') - 1 : Follows(pend'[k], pend'[k + 1])
    <3> TAKE k \in 1 .. Len(pend') - 1
    <3>1. /\ k + 1 \in 1 .. Len(pend) - 1
          /\ pend'[k] = pend[k + 1] /\ pend'[k + 1] = pend[(k + 1) + 1]
      BY <1>0, <2>1
    <3> QED
      BY <1>0, <3>1 DEF ChainInv
  <2> QED
    BY <1>0, <2>1, <2>2, <2>3, <2>4 DEF PhaseInv, ChainInv
<1>5. CASE Exit \/ Crash
  BY <1>0, <1>5 DEF Exit, Crash, Flushed, PhaseInv, ChainInv
<1>6. CASE RunCommand
  <2> DEFINE c == [Fresh EXCEPT !.status = "created"]
  <2>1. c.node = "validate_input" /\ c.status = "created" /\ c.attempt = 0
    BY DEF Fresh
  <2>2. mem' = c /\ pend' = <<c>> /\ pc' = "node" /\ UNCHANGED ckpt /\ ckpt = Fresh
    BY <1>6 DEF RunCommand, Begin
  <2> HIDE DEF c
  <2>3. Phased(c) /\ Follows(ckpt, c)
    BY <2>1, <2>2 DEF Phased, Before, Follows, Phase, Leads, Fresh
  <2>4. Len(pend') = 1 /\ pend'[1] = c
    BY <2>2
  <2> QED
    BY <1>0, <2>2, <2>3, <2>4 DEF PhaseInv, ChainInv
<1>7. CASE \E d \in {"approve", "reject"} : ResumeCommand(d)
  <2>1. mem' = ckpt /\ pend' = << >> /\ pc' = "node" /\ UNCHANGED ckpt /\ ckpt # Fresh
    BY <1>7 DEF ResumeCommand, Resumed, Begin, Fresh
  <2> QED
    BY <1>0, <2>1 DEF PhaseInv, ChainInv
<1>8. CASE (\E S \in SUBSET Attempts \ {{}}, v \in Views : Edit(S, v)) \/ UNCHANGED vars
  BY <1>0, <1>8 DEF Edit, vars, PhaseInv, ChainInv
<1> QED
  BY <1>1, <1>2, <1>3, <1>4, <1>5, <1>6, <1>7, <1>8
     DEF Next, Step, Producer, Ending

-----------------------------------------------------------------------------
(* Theorems *)

LEMMA InitRefinement == Init => RefinementInv /\ Lifecycle!Init
<1> SUFFICES ASSUME Init PROVE RefinementInv /\ Lifecycle!Init
  OBVIOUS
<1>1. OutcomeInv
  BY InitOutcome
<1>2. PhaseInv /\ ChainInv
  BY DEF Init, PhaseInv, ChainInv
<1>3. Lifecycle!Init
  BY DEF Init, Fresh, Lifecycle!Init
<1> QED
  BY <1>1, <1>2, <1>3 DEF RefinementInv

LEMMA RefinementStep == RefinementInv /\ [Next]_vars => RefinementInv'
  BY ChainStep, OutcomeStep DEF RefinementInv

\* Only the checkpointer moves the durable checkpoint.
LEMMA DurableStep == RefinementInv /\ [Next]_vars => [Lifecycle!Next]_(Lifecycle!vars)
<1> SUFFICES ASSUME RefinementInv, [Next]_vars PROVE [Lifecycle!Next]_(Lifecycle!vars)
  OBVIOUS
<1> USE DEF process, durable, NoWork
<1>1. CASE Flush
  <2>1. /\ pend \in Seq(Checkpoints) /\ pend # << >> /\ ckpt' = pend[1]
        /\ 1 \in 1 .. Len(pend) /\ Follows(ckpt, pend[1]) /\ ckpt \in Checkpoints
    BY <1>1 DEF Flush, RefinementInv, OutcomeInv, IInv, CheckpointInv, Sound, Bounded, ChainInv
  <2>2. ckpt' \in Checkpoints
    BY <2>1 DEF RefinementInv, OutcomeInv, IInv, CheckpointInv, Sound, Bounded
  <2> QED
    BY <2>1, <2>2, FollowsIsStep
<1>2. CASE UNCHANGED ckpt
  BY <1>2 DEF Lifecycle!vars
<1>3. Producer => UNCHANGED ckpt
  BY ProducerGoes DEF RefinementInv, OutcomeInv
<1>4. Audit => UNCHANGED ckpt
  BY DEF Audit, AppendEvent, FinalizeEvent, LogUnreadable, EventFails, WriteReport, ReportRest,
         ReplayReport, MarkReport, MarkRest, ReportFails
<1>5. Commit \/ Exit \/ Crash \/ RunCommand \/ (\E d \in {"approve", "reject"} : ResumeCommand(d))
          => UNCHANGED ckpt
  BY DEF Commit, Exit, Crash, RunCommand, ResumeCommand, Resumed, Begin
<1>6. (\E S \in SUBSET Attempts \ {{}}, v \in Views : Edit(S, v)) \/ UNCHANGED vars
          => UNCHANGED ckpt
  BY DEF Edit, vars
<1> QED
  BY <1>1, <1>2, <1>3, <1>4, <1>5, <1>6 DEF Next, Step, Producer, Ending

\* What a reader of the durable checkpoint sees is a run of the lifecycle: no
\* crash, lost checkpoint or replayed node makes a Patch Run skip a phase, go back
\* or count an attempt twice.
THEOREM ImplementsLifecycle == Spec => FollowsLifecycle
  BY InitRefinement, RefinementStep, DurableStep, PTL
     DEF Spec, FollowsLifecycle, Lifecycle!Spec
-----------------------------------------------------------------------------
(***************************************************************************)
(* Every step of a command brings it nearer to its end: within a node it   *)
(* leaves the node fewer points to pass, and the checkpoint a node hands   *)
(* over has fewer nodes ahead of it, because it follows in the lifecycle.  *)
(***************************************************************************)

\* The bound at each point, before and after a step.
LEMMA PlaceAt ==
    /\ pc = "exit" => Place = 1
    /\ pc = "commit" => Place = 2
    /\ pc = "event" => Place = 3
    /\ pc = "report_mark_rest" => Place = 4
    /\ pc = "report_mark" => Place = 5
    /\ pc = "report_rest" => Place = 6
    /\ pc = "report" => Place = 7
    /\ pc = "persist_mark" => Place = 8
    /\ pc = "persist_apply" => Place = 9
    /\ pc = "write_rest" => Place = 10
    /\ pc = "write" => Place = 11
    /\ pc = "cumulative_rest" => Place = 12
    /\ pc = "cumulative" => Place = 13
    /\ pc = "persist_rest" => Place = 14
    /\ pc = "persist" => Place = 15
    /\ pc = "work" => Place = 16
    /\ pc = "node" => Place = 17
    /\ pc' = "exit" => Place' = 1
    /\ pc' = "commit" => Place' = 2
    /\ pc' = "event" => Place' = 3
    /\ pc' = "report_mark_rest" => Place' = 4
    /\ pc' = "report_mark" => Place' = 5
    /\ pc' = "report_rest" => Place' = 6
    /\ pc' = "report" => Place' = 7
    /\ pc' = "persist_mark" => Place' = 8
    /\ pc' = "persist_apply" => Place' = 9
    /\ pc' = "write_rest" => Place' = 10
    /\ pc' = "write" => Place' = 11
    /\ pc' = "cumulative_rest" => Place' = 12
    /\ pc' = "cumulative" => Place' = 13
    /\ pc' = "persist_rest" => Place' = 14
    /\ pc' = "persist" => Place' = 15
    /\ pc' = "work" => Place' = 16
    /\ pc' = "node" => Place' = 17
  BY DEF Place

LEMMA PlaceType == pc \in Points /\ pc # "idle" => Place \in 1 .. 17
  BY PlaceAt DEF Points

LEMMA AheadType == ASSUME NEW c \in Checkpoints PROVE Ahead(c) \in Nat
<1>1. c.node \in Nodes /\ MAX_REPAIR_ATTEMPTS - c.attempt \in Nat /\ MAX_REPAIR_ATTEMPTS \in Nat
  BY AttemptsAssumption DEF Checkpoints
<1> DEFINE left == 6 * (MAX_REPAIR_ATTEMPTS - c.attempt)
<1>2. left \in Nat
  BY <1>1
<1>3. 6 * MAX_REPAIR_ATTEMPTS \in Nat
  BY <1>1
<1> HIDE DEF left
<1> QED
  BY <1>1, <1>2, <1>3 DEF Ahead, Nodes, left

\* A checkpoint that follows another in the lifecycle is nearer to the end.
LEMMA FollowsIsNearer ==
    ASSUME NEW c, NEW d, Bounded(c), Bounded(d), Phased(c), Phased(d), Follows(c, d)
    PROVE  Ahead(d) < Ahead(c)
<1>1. /\ c.node \in Nodes /\ d.node \in Nodes
      /\ c.attempt \in 0 .. MAX_REPAIR_ATTEMPTS /\ d.attempt \in 0 .. MAX_REPAIR_ATTEMPTS
      /\ c.node \in Attempting => c.attempt < MAX_REPAIR_ATTEMPTS
      /\ MAX_REPAIR_ATTEMPTS \in Nat
  BY AttemptsAssumption DEF Bounded, Checkpoints
<1> USE <1>1
<1>2. CASE c.node = "finalize_report"
  BY <1>2 DEF Phased, Before, Follows, Phase, Leads, Terminal, Ahead
<1>3. CASE c.node \in {"validate_input", "baseline_verification", "create_plan"}
  BY <1>3 DEF Phased, Before, Follows, Phase, Leads, Terminal, Ahead, Nodes
<1>4. CASE c.node \in {"create_candidate", "approval_gate"}
  BY <1>4 DEF Phased, Before, Follows, Phase, Leads, Terminal, Ahead, Nodes, Attempting
<1>5. CASE c.node = "reject_candidate"
  <2>1. d.node = "finalize_report"
    BY <1>5 DEF Phased, Before, Follows, Phase, Leads, Terminal, Nodes
  <2> QED
    BY <1>5, <2>1 DEF Ahead
<1>9. CASE c.node = "apply_candidate"
  <2>1. d.attempt = c.attempt /\ d.node \in {"repair_verification", "finalize_report"}
    BY <1>9 DEF Phased, Before, Follows, Phase, Leads, Terminal, Nodes
  <2> QED
    BY <1>9, <2>1 DEF Ahead, Attempting
<1>6. CASE c.node = "repair_verification"
  BY <1>6 DEF Phased, Before, Follows, Phase, Leads, Terminal, Ahead, Nodes, Attempting
<1>7. CASE c.node = "create_diagnosis"
  <2>1. d.attempt = c.attempt /\ d.node \in {"create_candidate", "finalize_report"}
    BY <1>7 DEF Phased, Before, Follows, Phase, Leads, Terminal, Nodes
  <2> QED
    BY <1>7, <2>1 DEF Ahead
<1>8. c.node # "END"
  BY DEF Phased, Before, Follows
<1> QED
  BY <1>2, <1>3, <1>4, <1>5, <1>6, <1>7, <1>8, <1>9 DEF Nodes

\* Within a node each step passes a point for good.
LEMMA NodeGoesOn ==
    ASSUME IInv, Producer \/ Audit
    PROVE  UNCHANGED <<mem, pend>> /\ pc # "idle" /\ pc' # "idle" /\ Place' \in 1 .. Place - 1
<1> USE PlaceAt DEF process, durable, NoWork, Produce, Goto, Hold, Leave, Ready, AtNode
<1>1. CASE Ledgers
  <2>1. CASE Persist
    BY <2>1 DEF Persist, Conclude
  <2>2. CASE ~Persist
    BY <1>1, <2>2
       DEF Ledgers, Claim, RefuseClaimed, ReplayTorn, ReplayComplete, Conclude, Verify, AskModel,
           ModelFails, PolicyViolated, PersistStart, PersistFails
  <2> QED
    BY <2>1, <2>2
<1>2. CASE Diffs
  BY <1>2 DEF Diffs, CumulativeWrite, CumulativeRest, CumulativeReplay, CumulativeFails
<1>3. CASE Gate \/ ValidateInput
  BY <1>3 DEF Gate, ValidateInput, Interrupt, AwaitApproval, RejectCandidate
<1>4. CASE Applying
  BY <1>4 DEF Applying, ApplyRefused, ApplyReplay, ApplyObserve, ApplySome, ApplyAll,
              ApplyRollback, ApplyUnsynced, PersistApply, PersistApplyMark
<1>5. CASE Audit
  BY <1>5 DEF Audit, AppendEvent, FinalizeEvent, LogUnreadable, EventFails, WriteReport,
              ReportRest, ReplayReport, MarkReport, MarkRest, Reported, ReportFails, Appending
<1> QED
  BY <1>1, <1>2, <1>3, <1>4, <1>5 DEF Producer

\* The commands' loop over the nodes: each step of a command but somebody's edit
\* leaves fewer steps to take, whatever was on disk, for any number of attempts
\* and any lag of the checkpoints, which is what CommandsEnd rests on.
THEOREM CommandsGoForward == Spec => CommandsAdvance
<1> DEFINE Forward == (pc # "idle" /\ edits' = edits) => StepsLeft' \in 0 .. StepsLeft - 1
<1>1. RefinementInv /\ RefinementInv' /\ [Next]_vars => [Forward]_vars
  <2> SUFFICES ASSUME RefinementInv, RefinementInv', Next, pc # "idle", edits' = edits
               PROVE  StepsLeft' \in 0 .. StepsLeft - 1
    OBVIOUS
  <2>0. /\ IInv /\ PhaseInv /\ ChainInv /\ pend \in Seq(Checkpoints) /\ Len(pend) \in Nat
        /\ mem \in Checkpoints /\ pc \in Points /\ edits \in Nat
    BY DEF RefinementInv, OutcomeInv, IInv, CheckpointInv, RestInv, Sound, Bounded, TypingInv
  <2>1. StepsLeft = 17 * Ahead(mem) + Place + Len(pend) /\ Ahead(mem) \in Nat /\ Place \in 1 .. 17
    BY <2>0, AheadType, PlaceType DEF StepsLeft
  <2>2. CASE Producer \/ Audit
    <3>1. /\ UNCHANGED <<mem, pend>> /\ pc' # "idle" /\ Place' \in 1 .. Place - 1
      BY <2>0, <2>2, NodeGoesOn
    <3>2. StepsLeft' = 17 * Ahead(mem) + Place' + Len(pend)
      BY <3>1 DEF StepsLeft, Ahead
    <3> QED
      BY <2>0, <2>1, <3>1, <3>2
  <2>3. CASE Commit
    <3>1. /\ mem' = upd /\ pend' = Append(pend, upd) /\ pc = "commit" /\ pc' \in {"node", "exit"}
          /\ Bounded(mem) /\ Bounded(upd) /\ Phased(mem) /\ Phased(upd) /\ Follows(mem, upd)
      BY <2>0, <2>3 DEF Commit, PhaseInv, ChainInv, IInv, CheckpointInv, Sound
    <3>2. Ahead(upd) \in Nat /\ Ahead(upd) < Ahead(mem)
      BY <3>1, FollowsIsNearer, AheadType DEF Bounded
    <3>3. Place = 2 /\ Place' \in {1, 17} /\ Len(pend') = Len(pend) + 1
      BY <2>0, <3>1, PlaceAt
    <3>4. StepsLeft' = 17 * Ahead(upd) + Place' + Len(pend')
      BY <3>1 DEF StepsLeft, Ahead
    <3>5. \A a, b, l \in Nat, q \in {1, 17} :
            b < a => 17 * b + q + (l + 1) \in 0 .. 17 * a + 2 + l - 1
      OBVIOUS
    <3>6. StepsLeft = 17 * Ahead(mem) + 2 + Len(pend)
      BY <2>1, <3>3
    <3>7. StepsLeft' = 17 * Ahead(upd) + Place' + (Len(pend) + 1)
      BY <3>3, <3>4
    <3>8. 17 * Ahead(upd) + Place' + (Len(pend) + 1) \in 0 .. 17 * Ahead(mem) + 2 + Len(pend) - 1
      <4>1. Len(pend) \in Nat /\ Ahead(mem) \in Nat
        BY <2>0, <2>1
      <4>2. Ahead(upd) \in Nat /\ Ahead(upd) < Ahead(mem) /\ Place' \in {1, 17}
        BY <3>2, <3>3
      <4> QED
        BY <3>5, <4>1, <4>2
    <3>9. StepsLeft - 1 = 17 * Ahead(mem) + 2 + Len(pend) - 1
      BY <2>0, <2>1, <3>6, SMTT(30)
    <3> QED
      BY <3>7, <3>8, <3>9, Zenon
  <2>4. CASE Flush
    <3>1. UNCHANGED <<mem, pc>> /\ Len(pend') = Len(pend) - 1 /\ Len(pend) \in Nat \ {0}
      BY <2>0, <2>4 DEF Flush
    <3>2. StepsLeft' = 17 * Ahead(mem) + Place + Len(pend')
      BY <3>1 DEF StepsLeft, Ahead, Place
    <3> QED
      BY <2>0, <2>1, <3>1, <3>2, SMTT(30)
  <2>5. CASE Exit \/ Crash
    <3>1. StepsLeft' = 0
      BY <2>5 DEF Exit, Crash, StepsLeft
    <3> QED
      BY <2>0, <2>1, <3>1
  <2>6. CASE RunCommand \/ \E d \in {"approve", "reject"} : ResumeCommand(d)
    BY <2>6 DEF RunCommand, ResumeCommand
  <2>7. CASE \E S \in SUBSET Attempts \ {{}}, v \in Views : Edit(S, v)
    BY <2>0, <2>7 DEF Edit
  <2> QED
    BY <2>2, <2>3, <2>4, <2>5, <2>6, <2>7 DEF Next, Step, Producer, Ending
<1> QED
  BY <1>1, InitRefinement, RefinementStep, PTL DEF Spec, CommandsAdvance
-----------------------------------------------------------------------------
(***************************************************************************)
(* Attempts in turn.  The attempts a checkpoint counts were each approved, *)
(* verified as failing and diagnosed.  It need not be said of the state a  *)
(* node produces: that follows from the lifecycle (Follows) and from what  *)
(* earned it (Earned).                                                     *)
(***************************************************************************)
InTurn(c) ==
    /\ c.node \in Attempting => \A m \in 1 .. c.attempt : Diagnosed(m)
    /\ c.node = "create_diagnosis" =>
          Approved(c.attempt) /\ \A m \in 1 .. c.attempt - 1 : Diagnosed(m)

TurnInv == InTurn(ckpt) /\ InTurn(mem) /\ \A k \in 1 .. Len(pend) : InTurn(pend[k])

\* The lifecycle hands the attempts on.
LEMMA TurnGoesOn ==
    ASSUME NEW c, NEW d, Bounded(c), Bounded(d), Phased(c), Phased(d), Follows(c, d),
           Earned(c), Earned(d), InTurn(c)
    PROVE  InTurn(d)
<1>1. c.node \in Nodes /\ d.node \in Nodes /\ c.attempt \in Nat /\ d.attempt \in Nat
  BY DEF Bounded, Checkpoints
<1>2. CASE d.node = "create_diagnosis"
  <2>1. c.node = "repair_verification" /\ d.attempt = c.attempt + 1
    BY <1>1, <1>2 DEF Phased, Before, Follows, Phase, Leads, Terminal, Nodes
  <2> QED
    BY <1>1, <1>2, <2>1 DEF InTurn, Earned, Attempting
<1>3. CASE d.node = "create_candidate" /\ c.node = "create_diagnosis"
  <2>1. d.attempt = c.attempt /\ c.attempt >= 1
    BY <1>1, <1>3 DEF Phased, Before, Follows, Phase, Leads, Terminal, Bounded
  <2>2. Diagnosed(c.attempt)
    BY <1>3, <2>1 DEF InTurn, Earned, Diagnosed
  <2>3. \A m \in 1 .. c.attempt : m = c.attempt \/ m \in 1 .. c.attempt - 1
    BY <1>1
  <2> QED
    BY <1>3, <2>1, <2>2, <2>3 DEF InTurn
<1>4. CASE d.node = "create_candidate" /\ c.node # "create_diagnosis"
  <2>1. d.attempt = 0
    BY <1>1, <1>4 DEF Phased, Before, Follows, Phase, Leads, Terminal, Nodes
  <2> QED
    BY <1>4, <2>1 DEF InTurn
<1>5. CASE d.node \in Attempting \ {"create_candidate"}
  <2>1. d.attempt = c.attempt /\ c.node \in Attempting
    BY <1>1, <1>5 DEF Phased, Before, Follows, Phase, Leads, Terminal, Nodes, Attempting
  <2> QED
    BY <1>5, <2>1 DEF InTurn, Attempting
<1>6. CASE d.node \notin Attempting \cup {"create_diagnosis"}
  BY <1>6 DEF InTurn
<1> QED
  BY <1>2, <1>3, <1>4, <1>5, <1>6

LEMMA TurnStays ==
    ASSUME Grow, NEW c, Bounded(c), InTurn(c)
    PROVE  InTurn(c)'
<1>1. \A m \in Attempts : Diagnosed(m) => Diagnosed(m)'
  BY KeptSlots DEF Grow, Diagnosed, Approved, Keys
<1>2. c.attempt \in 0 .. MAX_REPAIR_ATTEMPTS /\ MAX_REPAIR_ATTEMPTS \in Nat
  BY AttemptsAssumption DEF Bounded, Checkpoints
<1>3. /\ \A m \in 1 .. c.attempt : m \in Attempts
      /\ \A m \in 1 .. c.attempt - 1 : m \in Attempts
  BY <1>2 DEF Attempts
<1>4. Approved(c.attempt) => Approved(c.attempt)'
  BY DEF Grow, Approved, Keys
<1> QED
  BY <1>1, <1>3, <1>4 DEF InTurn

LEMMA TurnStep == RefinementInv /\ TurnInv /\ [Next]_vars => TurnInv'
<1> SUFFICES ASSUME RefinementInv, TurnInv, [Next]_vars PROVE TurnInv'
  OBVIOUS
<1>0. IInv /\ RestInv /\ FoundInv /\ EarnedInv /\ PhaseInv /\ ChainInv /\ pend \in Seq(Checkpoints)
  BY DEF RefinementInv, OutcomeInv, IInv, CheckpointInv
<1>1. Grow
  BY <1>0, GrowStep
<1>2. \A c : Bounded(c) /\ InTurn(c) => InTurn(c)'
  BY <1>1, TurnStays
<1>3. /\ Bounded(ckpt) /\ InTurn(ckpt) /\ Bounded(mem) /\ InTurn(mem)
      /\ \A k \in 1 .. Len(pend) : Bounded(pend[k]) /\ InTurn(pend[k])
  BY <1>0 DEF IInv, CheckpointInv, Sound, TurnInv
<1>4. InTurn(Fresh)'
  BY DEF InTurn, Fresh, Attempting
<1>5. ASSUME UNCHANGED <<ckpt, mem, pend>>
      PROVE  TurnInv'
  BY <1>2, <1>3, <1>5 DEF TurnInv
<1> USE DEF process, durable, NoWork, NoEnv, Produce, Goto, Hold, Leave
<1>6. CASE Producer
  BY <1>0, <1>5, <1>6, ProducerGoes
<1>7. CASE Audit
  BY <1>5, <1>7
     DEF Audit, AppendEvent, FinalizeEvent, LogUnreadable, EventFails, WriteReport, ReportRest,
         ReplayReport, MarkReport, MarkRest, Reported, ReportFails
<1>8. CASE Commit
  <2>1. /\ mem' = upd /\ pend' = Append(pend, upd) /\ UNCHANGED ckpt /\ upd \in Checkpoints
        /\ Bounded(upd) /\ Phased(mem) /\ Phased(upd) /\ Follows(mem, upd)
        /\ Earned(mem) /\ Earned(upd)
    BY <1>0, <1>8 DEF Commit, PhaseInv, ChainInv, EarnedInv, IInv, CheckpointInv, Sound, Bounded
  <2>2. InTurn(upd)
    BY <1>3, <2>1, TurnGoesOn
  <2>3. \A k \in 1 .. Len(pend') : Bounded(pend'[k]) /\ InTurn(pend'[k])
    BY <1>0, <1>3, <2>1, <2>2
  <2> QED
    BY <1>2, <1>3, <2>1, <2>2, <2>3 DEF TurnInv
<1>9. CASE Flush
  <2>1. /\ ckpt' = pend[1] /\ 1 \in 1 .. Len(pend) /\ UNCHANGED mem
        /\ \A k \in 1 .. Len(pend') : pend'[k] = pend[k + 1] /\ k + 1 \in 1 .. Len(pend)
    BY <1>0, <1>9 DEF Flush
  <2> QED
    BY <1>2, <1>3, <2>1 DEF TurnInv
<1>10. CASE Exit \/ Crash
  BY <1>2, <1>3, <1>4, <1>10 DEF Exit, Flushed, Crash, TurnInv
<1>11. CASE RunCommand
  <2> DEFINE c == [Fresh EXCEPT !.status = "created"]
  <2>1. mem' = c /\ pend' = <<c>> /\ UNCHANGED ckpt
    BY <1>11 DEF RunCommand, Begin
  <2>2. InTurn(c)'
    BY DEF InTurn, Fresh, Attempting
  <2> HIDE DEF c
  <2>3. \A k \in 1 .. Len(pend') : pend'[k] = c
    BY <2>1
  <2> QED
    BY <1>2, <1>3, <2>1, <2>2, <2>3 DEF TurnInv
<1>12. CASE \E d \in {"approve", "reject"} : ResumeCommand(d)
  BY <1>2, <1>3, <1>12 DEF ResumeCommand, Resumed, Begin, TurnInv
<1>13. CASE (\E S \in SUBSET Attempts \ {{}}, v \in Views : Edit(S, v)) \/ UNCHANGED vars
  BY <1>5, <1>13 DEF Edit, vars
<1> QED
  BY <1>6, <1>7, <1>8, <1>9, <1>10, <1>11, <1>12, <1>13 DEF Next, Step, Producer, Ending

\* The candidate of an attempt is written only when every earlier attempt was
\* approved, failed its Verification and was diagnosed: whatever checkpoint a command
\* resumes from and whatever it replays, the repair loop never skips a step back.
THEOREM AttemptsGoInTurn == Spec => AttemptsInTurn
<1> DEFINE Turn == \A n \in Attempts :
              (edits' = edits /\ ws'[n] # ws[n] /\ ws'[n] # "before") =>
                 \A m \in 1 .. n - 1 : Diagnosed(m)
<1>1. RefinementInv /\ TurnInv /\ [Next]_vars => [Turn]_vars
  <2> SUFFICES ASSUME RefinementInv, TurnInv, [Next]_vars, edits' = edits,
                      NEW n \in Attempts, ws'[n] # ws[n], ws'[n] # "before"
               PROVE  \A m \in 1 .. n - 1 : Diagnosed(m)
    OBVIOUS
  <2>1. mem.node = "apply_candidate" /\ n = mem.attempt + 1
    BY OnlyApplyWrites DEF RefinementInv, OutcomeInv
  <2>2. mem.attempt \in Nat
    BY DEF RefinementInv, OutcomeInv, IInv, CheckpointInv, Sound, Bounded, Checkpoints
  <2>3. n - 1 = mem.attempt
    BY <2>1, <2>2
  <2> QED
    BY <2>1, <2>3 DEF TurnInv, InTurn, Attempting
<1>2. Init => TurnInv
  BY DEF Init, TurnInv, InTurn, Fresh, Attempting
<1>3. RefinementInv /\ TurnInv /\ [Next]_vars => TurnInv'
  BY TurnStep
<1> QED
  BY <1>1, <1>2, <1>3, InitRefinement, RefinementStep, PTL DEF Spec, AttemptsInTurn
-----------------------------------------------------------------------------
(***************************************************************************)
(* Rejections.  Only the Approval Gate records a decision, and a rejection *)
(* routes past it: a checkpoint that carries one is late.  What follows a  *)
(* late checkpoint is late, so once the durable one is, so are those in    *)
(* flight and the node that runs, however many checkpoints it is ahead.    *)
(***************************************************************************)
Late == {"reject_candidate", "finalize_report", "END"}

Onward(c, d) == c.node \in Late => d.node \in Late
Heeded(c)    == c.decision = "reject" => c.node \in Late

RejectInv ==
    /\ Heeded(ckpt) /\ Heeded(mem) /\ Heeded(upd)
    /\ \A k \in 1 .. Len(pend) : Heeded(pend[k])

OnwardInv ==
    /\ pc # "idle" => Onward(ckpt, mem)
    /\ \A k \in 1 .. Len(pend) :
          /\ Onward(ckpt, pend[k])
          /\ pc # "idle" => Onward(pend[k], mem)
          /\ \A l \in k .. Len(pend) : Onward(pend[k], pend[l])

LEMMA LateStep ==
    ASSUME NEW c, NEW d, Phased(c), Phased(d), c.node \in Nodes, d.node \in Nodes,
           Follows(c, d)
    PROVE  Onward(c, d)
  BY DEF Phased, Before, Follows, Phase, Leads, Terminal, Late, Nodes, Onward

\* A node hands on the decision it was given.
LEMMA DecisionCarried ==
    ASSUME mem \in Checkpoints
    PROVE  /\ \A n, st : Moved(n, st).decision = mem.decision
           /\ \A o : After(o).decision = mem.decision
           /\ \A o : AfterApply(o).decision = mem.decision
           /\ Errored.decision = mem.decision /\ Verified(Errored).decision = mem.decision
           /\ \A u : Using(Errored, u).decision = mem.decision
<1>1. /\ \A n, st : Moved(n, st).decision = mem.decision
      /\ AfterPlan.decision = mem.decision
  BY DEF Moved, AfterPlan, Checkpoints
<1>2. \A o : AfterBaseline(o).decision = mem.decision /\ AfterApply(o).decision = mem.decision
  BY <1>1 DEF AfterBaseline, AfterApply, Ended, Errored
<1>3. AfterCandidate.decision = mem.decision /\ AfterDiagnosis.decision = mem.decision
      /\ Errored.decision = mem.decision
  BY <1>1 DEF AfterCandidate, AfterDiagnosis, Ended, Errored
<1>4. \A o : AfterVerification(o).decision = mem.decision
  BY DEF AfterVerification, Verified, Ended, Errored, Moved, Checkpoints
<1>5. Verified(Errored).decision = mem.decision
      /\ \A u : Using(Errored, u).decision = mem.decision
  BY DEF Verified, Using, Ended, Errored, Moved, Checkpoints
<1>6. /\ Using(AfterPlan, "added").decision = AfterPlan.decision
      /\ Using(AfterCandidate, "added").decision = AfterCandidate.decision
      /\ Using(AfterDiagnosis, "added").decision = AfterDiagnosis.decision
  BY DEF Using, AfterPlan, AfterCandidate, AfterDiagnosis, Ended, Moved, Checkpoints
<1>7. \A o : After(o).decision = mem.decision
  BY <1>1, <1>2, <1>3, <1>4, <1>6 DEF After
<1> QED
  BY <1>1, <1>2, <1>3, <1>5, <1>7

\* So what it produces heeds a rejection where what it was given does.
LEMMA ProducerHeeds ==
    ASSUME RefinementInv, Heeded(mem), Heeded(upd), Producer
    PROVE  Heeded(upd')
<1>0. /\ mem \in Checkpoints /\ IInv /\ PhaseInv /\ pc # "idle"
      /\ UNCHANGED <<ckpt, mem, pend>> /\ resume \in Decisions
  BY ProducerGoes
     DEF RefinementInv, OutcomeInv, IInv, CheckpointInv, Sound, Bounded, TypingInv
<1> USE DEF process, Produce, Goto, Hold, Leave
<1>1. CASE UNCHANGED upd
  BY <1>1
<1>2. CASE AwaitApproval
  BY <1>0, <1>2 DEF AwaitApproval, AfterApproval, Decisions, Checkpoints, Heeded, Late
<1>3. ASSUME ~UNCHANGED upd, ~AwaitApproval
      PROVE  pc' = "event" /\ upd'.decision = mem.decision
  <2>1. CASE ValidateInput
    BY <1>0, <2>1, DecisionCarried DEF ValidateInput
  <2>2. CASE Ledgers
    BY <1>0, <1>3, <2>2, DecisionCarried
       DEF Ledgers, Claim, RefuseClaimed, ReplayTorn, ReplayComplete, Conclude, Verify, AskModel,
           ModelFails, PolicyViolated, PersistStart, Persist, PersistFails
  <2>3. CASE Diffs
    BY <1>0, <1>3, <2>3, DecisionCarried
       DEF Diffs, CumulativeWrite, CumulativeRest, CumulativeReplay, CumulativeFails
  <2>4. CASE Gate
    BY <1>0, <1>3, <2>4, DecisionCarried DEF Gate, Interrupt, RejectCandidate, Ended
  <2>5. CASE Applying
    BY <1>0, <1>3, <2>5, DecisionCarried
       DEF Applying, ApplyRefused, ApplyReplay, ApplyObserve, ApplySome, ApplyAll,
           ApplyRollback, ApplyUnsynced, PersistApply, PersistApplyMark
  <2> QED
    BY <2>1, <2>2, <2>3, <2>4, <2>5 DEF Producer
<1>4. CASE ~UNCHANGED upd /\ ~AwaitApproval
  <2>1. pc' = "event" /\ upd'.decision = mem.decision
    BY <1>3, <1>4
  <2>2. Produces(upd')
    BY <1>0, <2>1, ProducerFollows DEF Decisions
  <2>3. Phased(mem) /\ Phased(upd') /\ Follows(mem, upd')
    BY <1>0, <2>2 DEF Produces, PhaseInv
  <2>4. upd'.node \in Nodes /\ mem.node \in Nodes
    <3>1. CheckpointInv'
      BY <1>0, CheckpointStep DEF IInv, Producer, Next, Step
    <3> QED
      BY <1>0, <2>1, <3>1 DEF CheckpointInv, Sound, Bounded, Checkpoints
  <2>5. Onward(mem, upd')
    BY <2>3, <2>4, LateStep
  <2> QED
    BY <2>1, <2>5 DEF Heeded, Onward
<1> QED
  BY <1>1, <1>2, <1>4

LEMMA RejectStep == RefinementInv /\ RejectInv /\ [Next]_vars => RejectInv'
<1> SUFFICES ASSUME RefinementInv, RejectInv, [Next]_vars PROVE RejectInv'
  OBVIOUS
<1>0. pend \in Seq(Checkpoints) /\ Heeded(Fresh) /\ mem \in Checkpoints /\ IInv
  BY DEF RefinementInv, OutcomeInv, IInv, CheckpointInv, Sound, Bounded, Heeded, Fresh
<1> USE DEF process, durable, NoWork, NoEnv, Goto, Leave
<1>1. CASE Producer
  <2>1. UNCHANGED <<ckpt, mem, pend>> /\ Heeded(upd')
    BY <1>0, <1>1, ProducerGoes, ProducerHeeds DEF RejectInv
  <2> QED
    BY <2>1 DEF RejectInv
<1>2. CASE Audit
  <2>1. UNCHANGED <<ckpt, mem, pend>> /\ (UNCHANGED upd \/ upd' = Moved("END", mem.status))
    BY <1>2
       DEF Audit, AppendEvent, FinalizeEvent, LogUnreadable, EventFails, WriteReport, ReportRest,
           ReplayReport, MarkReport, MarkRest, Reported, ReportFails
  <2>2. Moved("END", mem.status).node = "END"
    BY <1>0, Fields
  <2> QED
    BY <2>1, <2>2 DEF RejectInv, Heeded, Late
<1>3. CASE Commit
  <2>1. mem' = upd /\ pend' = Append(pend, upd) /\ UNCHANGED <<ckpt, upd>>
    BY <1>3 DEF Commit
  <2>2. \A k \in 1 .. Len(pend') : pend'[k] = upd \/ (k \in 1 .. Len(pend) /\ pend'[k] = pend[k])
    BY <1>0, <2>1, <1>3 DEF Commit, RefinementInv, OutcomeInv, IInv, CheckpointInv, Sound, Bounded
  <2> QED
    BY <2>1, <2>2 DEF RejectInv
<1>4. CASE Flush
  <2>1. /\ ckpt' = pend[1] /\ UNCHANGED <<upd, mem>> /\ 1 \in 1 .. Len(pend)
        /\ \A k \in 1 .. Len(pend') : pend'[k] = pend[k + 1] /\ k + 1 \in 1 .. Len(pend)
    BY <1>0, <1>4 DEF Flush
  <2> QED
    BY <2>1 DEF RejectInv
<1>5. CASE Exit \/ Crash
  BY <1>0, <1>5 DEF Exit, Crash, RejectInv
<1>6. CASE RunCommand
  <2> DEFINE c == [Fresh EXCEPT !.status = "created"]
  <2>1. mem' = c /\ pend' = <<c>> /\ UNCHANGED <<ckpt, upd>>
    BY <1>6 DEF RunCommand, Begin
  <2>2. Heeded(c)
    BY DEF Heeded, Fresh
  <2> HIDE DEF c
  <2>3. \A k \in 1 .. Len(pend') : pend'[k] = c
    BY <2>1
  <2> QED
    BY <2>1, <2>2, <2>3 DEF RejectInv
<1>7. CASE \E d \in {"approve", "reject"} : ResumeCommand(d)
  BY <1>7 DEF ResumeCommand, Resumed, Begin, RejectInv
<1>8. CASE (\E S \in SUBSET Attempts \ {{}}, v \in Views : Edit(S, v)) \/ UNCHANGED vars
  BY <1>8 DEF Edit, vars, RejectInv
<1> QED
  BY <1>1, <1>2, <1>3, <1>4, <1>5, <1>6, <1>7, <1>8 DEF Next, Step, Producer, Ending

LEMMA OnwardStep == RefinementInv /\ OnwardInv /\ [Next]_vars => OnwardInv'
<1> SUFFICES ASSUME RefinementInv, OnwardInv, [Next]_vars PROVE OnwardInv'
  OBVIOUS
<1>0. pend \in Seq(Checkpoints) /\ PhaseInv /\ ChainInv /\ IInv
  BY DEF RefinementInv, OutcomeInv, IInv, CheckpointInv
<1> USE DEF process, durable, NoWork, NoEnv, Goto, Leave
<1>1. ASSUME UNCHANGED <<ckpt, mem, pend>>, pc' # "idle" => pc # "idle"
      PROVE  OnwardInv'
  BY <1>1 DEF OnwardInv
<1>2. CASE Producer
  BY <1>0, <1>1, <1>2, ProducerGoes
<1>3. CASE Audit
  <2>1. UNCHANGED <<ckpt, pend, mem>> /\ pc # "idle"
    BY <1>3
       DEF Audit, AppendEvent, FinalizeEvent, LogUnreadable, EventFails, WriteReport, ReportRest,
           ReplayReport, MarkReport, MarkRest, Reported, ReportFails, Appending, AtNode, Ready
  <2> QED
    BY <1>1, <2>1
<1>4. CASE Commit
  <2>1. /\ mem' = upd /\ pend' = Append(pend, upd) /\ UNCHANGED ckpt /\ pc = "commit"
        /\ Phased(mem) /\ Phased(upd) /\ Follows(mem, upd)
        /\ mem \in Checkpoints /\ upd \in Checkpoints
    BY <1>0, <1>4
       DEF Commit, PhaseInv, ChainInv, RefinementInv, OutcomeInv, IInv, CheckpointInv, Sound,
           Bounded
  <2>2. Onward(mem, upd)
    BY <2>1, LateStep DEF Checkpoints
  <2>3. /\ Onward(ckpt, upd) /\ Onward(upd, upd)
        /\ \A k \in 1 .. Len(pend) : Onward(pend[k], upd)
    BY <2>1, <2>2 DEF OnwardInv, Onward
  <2>4. /\ Len(pend) \in Nat /\ Len(pend') = Len(pend) + 1 /\ pend'[Len(pend) + 1] = upd
        /\ \A k \in 1 .. Len(pend) : pend'[k] = pend[k]
    BY <1>0, <2>1
  <2>5. \A k \in 1 .. Len(pend') : \/ k = Len(pend) + 1 /\ pend'[k] = upd
                                   \/ k \in 1 .. Len(pend) /\ pend'[k] = pend[k]
    BY <2>4
  <2>6. \A k \in 1 .. Len(pend) : \A l \in k .. Len(pend') :
           pend'[l] = upd \/ (l \in k .. Len(pend) /\ pend'[l] = pend[l])
    BY <2>4
  <2>7. ASSUME NEW k \in 1 .. Len(pend')
        PROVE  /\ Onward(ckpt, pend'[k]) /\ Onward(pend'[k], upd)
               /\ \A l \in k .. Len(pend') : Onward(pend'[k], pend'[l])
    <3>1. CASE k \in 1 .. Len(pend) /\ pend'[k] = pend[k]
      BY <2>3, <2>6, <3>1 DEF OnwardInv
    <3>2. CASE k = Len(pend) + 1 /\ pend'[k] = upd
      <4>1. \A l \in k .. Len(pend') : l = k
        BY <2>4, <3>2
      <4> QED
        BY <2>3, <3>2, <4>1
    <3> QED
      BY <2>5, <3>1, <3>2
  <2> QED
    BY <2>1, <2>3, <2>7 DEF OnwardInv
<1>5. CASE Flush
  <2>1. /\ ckpt' = pend[1] /\ UNCHANGED <<pc, mem>> /\ Len(pend) \in Nat \ {0}
        /\ Len(pend') = Len(pend) - 1
        /\ \A k \in 1 .. Len(pend') : pend'[k] = pend[k + 1] /\ k + 1 \in 1 .. Len(pend)
    BY <1>0, <1>5 DEF Flush
  <2>2. 1 \in 1 .. Len(pend) /\ \A k \in 1 .. Len(pend') : k + 1 \in 1 .. Len(pend)
    BY <2>1
  <2>3. pc # "idle" => Onward(pend[1], mem)
    BY <2>2 DEF OnwardInv
  <2>4. ASSUME NEW k \in 1 .. Len(pend')
        PROVE  /\ Onward(pend[1], pend[k + 1]) /\ (pc # "idle" => Onward(pend[k + 1], mem))
               /\ \A l \in k .. Len(pend') : Onward(pend[k + 1], pend[l + 1])
    <3>1. /\ k + 1 \in 1 .. Len(pend) /\ 1 \in 1 .. Len(pend)
          /\ \A l \in k .. Len(pend') : l + 1 \in k + 1 .. Len(pend)
      BY <2>1, <2>2
    <3> QED
      BY <3>1 DEF OnwardInv
  <2>5. \A k \in 1 .. Len(pend') : \A l \in k .. Len(pend') : pend'[l] = pend[l + 1]
    BY <2>1
  <2> QED
    BY <2>1, <2>3, <2>4, <2>5 DEF OnwardInv
<1>6. CASE Exit \/ Crash
  <2>1. pc' = "idle" /\ pend' = << >>
    BY <1>6 DEF Exit, Flushed, Crash
  <2> QED
    BY <2>1 DEF OnwardInv
<1>7. CASE RunCommand
  <2>1. ckpt' = Fresh /\ \A k \in 1 .. Len(pend') : pend'[k].node = "validate_input"
    BY <1>7 DEF RunCommand, Begin, Fresh
  <2>2. mem'.node = "validate_input"
    BY <1>7 DEF RunCommand, Begin, Fresh
  <2>3. \A k \in 1 .. Len(pend') : \A l \in k .. Len(pend') : l \in 1 .. Len(pend')
    BY <1>7 DEF RunCommand, Begin
  <2> QED
    BY <2>1, <2>2, <2>3 DEF OnwardInv, Onward, Late, Fresh
<1>8. CASE \E d \in {"approve", "reject"} : ResumeCommand(d)
  BY <1>8 DEF ResumeCommand, Resumed, Begin, OnwardInv, Onward
<1>9. CASE (\E S \in SUBSET Attempts \ {{}}, v \in Views : Edit(S, v)) \/ UNCHANGED vars
  BY <1>1, <1>9 DEF Edit, vars
<1> QED
  BY <1>2, <1>3, <1>4, <1>5, <1>6, <1>7, <1>8, <1>9 DEF Next, Step, Producer, Ending

\* Once a rejection is durable no step of the program touches the workspace again,
\* whatever is resumed, approved, replayed or lost in a crash, and however many
\* checkpoints a node may be ahead of the durable one.
THEOREM RejectionIsDurable == Spec => RejectionStands
<1> DEFINE Stands == (ckpt.decision = "reject" /\ edits' = edits) => UNCHANGED ws
<1>1. RefinementInv /\ RejectInv /\ OnwardInv /\ [Next]_vars => [Stands]_vars
  <2> SUFFICES ASSUME RefinementInv, RejectInv, OnwardInv, [Next]_vars,
                      ckpt.decision = "reject", edits' = edits
               PROVE  UNCHANGED ws
    OBVIOUS
  <2>0. IInv
    BY DEF RefinementInv, OutcomeInv
  <2>1. pc # "idle" => mem.node \notin {"create_candidate", "apply_candidate"}
    BY DEF RejectInv, Heeded, OnwardInv, Onward, Late
  <2> USE DEF durable, NoWork, NoEnv
  <2>2. CASE Persist \/ ApplySome \/ ApplyAll \/ ApplyRollback \/ ApplyUnsynced
    BY <2>0, <2>1, <2>2
       DEF Persist, ApplySome, ApplyAll, ApplyRollback, ApplyUnsynced, IInv, PointInv
  <2>3. CASE \E S \in SUBSET Attempts \ {{}}, v \in Views : Edit(S, v)
    BY <2>0, <2>3 DEF Edit, IInv, TypingInv
  <2>4. CASE UNCHANGED vars
    BY <2>4 DEF vars
  <2>5. Ledgers => Persist \/ UNCHANGED ws
    BY DEF Ledgers, Claim, RefuseClaimed, ReplayTorn, ReplayComplete, Verify, AskModel,
           ModelFails, PolicyViolated, PersistStart, PersistFails
  <2>6. Diffs \/ Gate \/ ValidateInput \/ Ending => UNCHANGED ws
    BY DEF Diffs, CumulativeWrite, CumulativeRest, CumulativeReplay, CumulativeFails, Gate,
           ValidateInput, Interrupt, AwaitApproval, RejectCandidate, Ending, Commit, Flush, Exit
  <2>7. Applying => ApplySome \/ ApplyAll \/ ApplyRollback \/ ApplyUnsynced \/ UNCHANGED ws
    BY DEF Applying, ApplyRefused, ApplyReplay, ApplyObserve, PersistApply, PersistApplyMark
  <2>8. Audit => UNCHANGED ws
    BY DEF Audit, AppendEvent, FinalizeEvent, LogUnreadable, EventFails, WriteReport, ReportRest,
           ReplayReport, MarkReport, MarkRest, ReportFails
  <2>9. RunCommand \/ (\E d \in {"approve", "reject"} : ResumeCommand(d)) \/ Crash
           => UNCHANGED ws
    BY DEF RunCommand, ResumeCommand, Begin, Crash
  <2> QED
    BY <2>2, <2>3, <2>4, <2>5, <2>6, <2>7, <2>8, <2>9 DEF Next, Step
<1>2. Init => RejectInv /\ OnwardInv
  BY DEF Init, RejectInv, OnwardInv, Heeded, Fresh
<1>3. RefinementInv /\ RejectInv /\ OnwardInv /\ [Next]_vars => RejectInv' /\ OnwardInv'
  BY RejectStep, OnwardStep
<1> QED
  BY <1>1, <1>2, <1>3, InitRefinement, RefinementStep, PTL DEF Spec, RejectionStands
=============================================================================
