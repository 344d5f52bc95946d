------------------------ MODULE PatchApplyRefinement ------------------------
(***************************************************************************)
(* apply_once implements its contract with the graph (ApplyContract) for   *)
(* any number of files, calls and crashes, whichever system calls fail.    *)
(* Of what the contract says only the recorded summary is not settled by   *)
(* the earlier invariants: it must name the files as they are.             *)
(***************************************************************************)
EXTENDS PatchApplyAnswers

\* What a call is about to record is true of the workspace.
Truthful(s) ==
    \/ s = Summary("applied", Files) /\ Done = Files
    \/ s = Summary("already_applied", Files) /\ Done = Files
    \/ s = Summary("partial_apply", Done) /\ Done \notin {{}, Files}
    \/ s = WorkspaceChanged /\ Stray(0)

DraftInv ==
    /\ pc = "finish" /\ draft.outcome = "applied" => persisted = NoSummary
    /\ (Unedited /\ pc = "finish" /\ persisted = NoSummary) => Truthful(draft)

ContractInv == IInv /\ AgreeInv /\ QuietInv /\ DraftInv

-----------------------------------------------------------------------------
(* Lemmas *)

LEMMA ContractSummaries ==
    /\ \A o, fs : Contract!Summary(o, fs) = Summary(o, fs)
    /\ Contract!NoSummary = NoSummary /\ Contract!Failure = Failure
  BY DEF Contract!Summary, Contract!NoSummary, Contract!Failure, Summary, NoSummary, Failure

LEMMA EditsCount == IInv /\ [Next]_vars => edits' \in Nat /\ edits <= edits'
<1> SUFFICES ASSUME IInv, [Next]_vars PROVE edits' \in Nat /\ edits <= edits'
  OBVIOUS
<1>1. CASE UNCHANGED edits
  BY <1>1 DEF IInv, TypeOK
<1>2. CASE edits' = edits + 1
  BY <1>2 DEF IInv, TypeOK
<1>3. UNCHANGED edits \/ edits' = edits + 1
  BY NextCases
     DEF vars, counts, Call, ReadNext, ReadFails, DecideUnknown, DecideMixed, DecideAllAfter,
         DecideReplay, DecideApply, PreimageArtifact, PreimageMark, CheckHash, ReplaceFile,
         SyncDirectory, ReplaceFault, SyncFault, UndoDone, UndoCheck, UndoReplace, UndoSync,
         UndoFault, FinishReplay, PersistSummary, PersistMark, LedgerFault, Crash, Edit
<1> QED
  BY <1>1, <1>2, <1>3

\* What a call has classified is what the files are, while nobody edits.
LEMMA Classified ==
    ASSUME ContractInv, Unedited, pc \in {"read", "decide"}, NEW f \in Files
    PROVE  /\ states[f] = "before" => ws[f] = "before"
           /\ states[f] = "after" => ws[f] = "after"
  BY DEF ContractInv, IInv, AfterInv, AgreeInv, QuietInv

\* The steps that draft a summary are the ends of the classification, the last
\* fsync and the end of a rollback; all others leave the files and the draft alone,
\* or end the drafting.
LEMMA DraftStep == ContractInv /\ [Next]_vars => DraftInv'
<1> SUFFICES ASSUME ContractInv, [Next]_vars PROVE DraftInv'
  OBVIOUS
<1> USE NAssumption, Constants DEF ContractInv, DraftInv
<1>1. CASE UNCHANGED vars
  BY <1>1 DEF vars, disk, local, counts, Truthful, Stray, Done, Unedited
<1>2. CASE Call \/ ReadNext \/ DecideReplay \/ DecideApply
  BY <1>2 DEF Call, ReadNext, DecideReplay, DecideApply, PreimageStep, Return, Goto
<1>3. CASE ReadFails \/ DecideUnknown
  <2>1. edits > 0
    BY <1>3 DEF ReadFails, DecideUnknown, QuietInv, Unedited, Observed, IInv, TypeOK, IndexInv
  <2>2. draft'.outcome # "applied" /\ edits' = edits
    BY <1>3 DEF ReadFails, DecideUnknown, Finish, counts
  <2> QED
    BY <2>1, <2>2 DEF Unedited
<1>4. CASE DecideMixed
  <2>1. /\ pc = "decide" /\ draft' = MixedSummary /\ UNCHANGED <<ws, edits, persisted>>
        /\ draft'.outcome # "applied"
    BY <1>4 DEF DecideMixed, Finish, disk, counts
  <2>2. ASSUME Unedited PROVE Truthful(MixedSummary)
    <3>1. \A f \in Files : states[f] \in {"before", "after"}
      BY <1>4 DEF DecideMixed, Observed
    <3>2. \A f \in Files : states[f] = "after" <=> ws[f] = "after"
      BY <2>1, <2>2, <3>1, Classified
    <3>3. Done = {f \in Files : states[f] = "after"}
      BY <3>2 DEF Done
    <3>4. Done \notin {{}, Files}
      <4>1. PICK f \in Files, g \in Files : states[f] = "before" /\ states[g] = "after"
        BY <1>4 DEF DecideMixed, Observed
      <4> QED
        BY <4>1, <3>3
    <3> QED
      BY <3>3, <3>4 DEF Truthful, MixedSummary
  <2> QED
    BY <2>1, <2>2 DEF Truthful, Done, Unedited
<1>5. CASE DecideAllAfter
  <2>1. /\ pc = "decide" /\ draft' = Summary("already_applied", Files)
        /\ UNCHANGED <<ws, edits, persisted>>
    BY <1>5 DEF DecideAllAfter, Finish, disk, counts
  <2>2. Unedited => Done = Files
    BY <1>5, <2>1, ObservedAll, Classified DEF DecideAllAfter, Done
  <2> QED
    BY <2>1, <2>2 DEF Truthful, Done, Unedited, Summary
<1>6. CASE PreimageArtifact \/ PreimageMark \/ CheckHash \/ ReplaceFile
  BY <1>6 DEF PreimageArtifact, PreimageMark, CheckHash, ReplaceFile, StartUndo, Goto
<1>7. CASE SyncDirectory
  <2>1. CASE i = N
    <3>1. /\ pc = "sync" /\ pc' = "finish" /\ draft' = Summary("applied", Files)
          /\ UNCHANGED <<ws, edits, persisted>>
      BY <1>7, <2>1 DEF SyncDirectory, Finish, disk, counts
    <3>2. persisted = NoSummary
      BY <3>1 DEF IInv, LedgerInv, Replacing
    <3>3. Unedited => Done = Files
      BY <2>1, <3>1 DEF IInv, AfterInv, AgreeInv, Done, Files
    <3> QED
      BY <3>1, <3>2, <3>3 DEF Truthful, Done, Unedited
  <2>2. CASE i # N
    BY <1>7, <2>2 DEF SyncDirectory, Goto
  <2> QED
    BY <2>1, <2>2
<1>8. CASE UndoDone
  <2>1. /\ pc = "undo" /\ i = 0 /\ draft' = WorkspaceChanged /\ UNCHANGED <<ws, edits>>
        /\ WorkspaceChanged.outcome # "applied"
    BY <1>8 DEF UndoDone, disk, counts
  <2>2. Unedited => Stray(0)
    BY <2>1 DEF QuietInv, Undoing
  <2>3. Stray(0)' <=> Stray(0)
    BY <2>1 DEF Stray, Files
  <2> QED
    BY <2>1, <2>2, <2>3 DEF Truthful, Unedited
<1>9. CASE UndoCheck \/ UndoReplace \/ UndoSync \/ FinishReplay \/ PersistSummary \/ PersistMark
           \/ Crash
  BY <1>9 DEF UndoCheck, UndoMismatch, UndoReplace, UndoSync, FinishReplay, PersistSummary,
              PersistMark, Crash, Return, Goto
<1>10. CASE ReplaceFault \/ SyncFault \/ UndoFault \/ LedgerFault
  BY <1>10 DEF ReplaceFault, SyncFault, StartUndo, UndoFault, LedgerFault, Return, Goto
<1>11. CASE \E f \in Files, c \in Contents : Edit(f, c)
  <2>1. edits' = edits + 1 /\ UNCHANGED <<pc, draft, persisted>>
    BY <1>11 DEF Edit, local
  <2>2. ~(edits' = 0)
    BY <2>1 DEF IInv, TypeOK
  <2> QED
    BY <2>1, <2>2 DEF Unedited
<1> QED
  BY NextCases, <1>1, <1>2, <1>3, <1>4, <1>5, <1>6, <1>7, <1>8, <1>9, <1>10, <1>11

\* Points of a call at which its caller sees nothing happen.
LEMMA Stutter ==
    ASSUME UNCHANGED <<ws, ledger, recorded, result, edits>>, At' = At
    PROVE  UNCHANGED Contract!vars
  BY DEF Contract!vars, Done, Stage, Verdict

\* A rollback that has ended left at most the file whose fsync failed.
LEMMA StrayRestored == Stray(0) => Contract!Restored
<1> SUFFICES ASSUME Stray(0), Done # {} PROVE Contract!Restored
  BY DEF Contract!Restored
<1>1. PICK f \in Files : ws[f] = "after"
  BY DEF Done
<1>2. \A g \in Files : ws[g] = "after" => g = f /\ "sync" \in IoFaults
  BY <1>1 DEF Stray, Files
<1>3. Done = {f} /\ "sync" \in IoFaults
  BY <1>1, <1>2 DEF Done
<1> QED
  BY <1>3 DEF Contract!Restored

LEMMA DisturbedStep ==
    ASSUME ContractInv, [Next]_vars, edits' > 0
    PROVE  Contract!Next
<1>1. ledger = "complete" => UNCHANGED <<ledger, recorded>>
  <2> SUFFICES ASSUME ledger = "complete" PROVE UNCHANGED <<ledger, recorded>>
    OBVIOUS
  <2>1. persisted # NoSummary \/ pc = "idle"
    BY DEF ContractInv, IInv, LedgerInv
  <2>2. pc \notin Replacing \cup Undoing \cup {"persist_mark"}
    BY <2>1 DEF ContractInv, IInv, LedgerInv, Replacing, Undoing
  <2> QED
    BY <2>1, <2>2, NextCases
       DEF vars, Call, ReadNext, ReadFails, DecideUnknown, DecideMixed, DecideAllAfter,
           DecideReplay, DecideApply, PreimageArtifact, PreimageMark, CheckHash,
           ReplaceFile, SyncDirectory, ReplaceFault, SyncFault, UndoDone, UndoCheck,
           UndoReplace, UndoSync, UndoFault, FinishReplay, PersistSummary, PersistMark,
           LedgerFault, Crash, Edit, disk, Replacing, Undoing, Finishing
<1>2. Stage = "complete" => ledger = "complete"
  BY DEF Stage
<1> QED
  BY <1>1, <1>2 DEF Contract!Next, Contract!Disturbed, Stage, Verdict

\* A truthful summary is one the contract lets the call record where it is, whether
\* the ledger is then sealed or cannot be filled.
LEMMA Recording ==
    ASSUME Truthful(draft), pc = "finish", ledger = "none", ledger' = "written",
           recorded' = draft, UNCHANGED ws,
           \/ At' = "seal" /\ UNCHANGED result
           \/ "ledger" \in IoFaults /\ At' = "idle" /\ result' = Failure
    PROVE  Contract!Applied \/ Contract!AlreadyApplied \/ Contract!Partial \/ Contract!RolledBack
<1> USE ContractSummaries
<1>1. Contract!Record(draft)
  BY DEF Contract!Record, Contract!Answer, Stage, Verdict, Done
<1>2. At = IF draft.outcome = "applied" THEN "write"
           ELSE IF draft.outcome = "workspace_changed" THEN "restore" ELSE "idle"
  BY DEF At, Replacing, Undoing
<1>3. \A o, fs : Summary(o, fs).outcome = o
  BY DEF Summary
<1>4. CASE draft = WorkspaceChanged /\ Stray(0)
  BY <1>1, <1>2, <1>3, <1>4, StrayRestored DEF Contract!RolledBack, WorkspaceChanged
<1>5. CASE ~(draft = WorkspaceChanged /\ Stray(0))
  BY <1>1, <1>2, <1>3, <1>5
     DEF Truthful, Contract!Applied, Contract!AlreadyApplied, Contract!Partial
<1> QED
  BY <1>4, <1>5

\* A step of the program, while nobody edits.
LEMMA AloneStep ==
    ASSUME ContractInv, [Next]_vars, edits' = 0, edits = 0
    PROVE  Contract!Alone \/ UNCHANGED Contract!vars
<1>0. /\ Unedited /\ touched = {} /\ UNCHANGED edits
      /\ pc # "idle" => result = NoSummary
  BY DEF Unedited, ContractInv, AgreeInv
<1> USE NAssumption, <1>0, ContractSummaries
<1>1. CASE UNCHANGED vars
  BY <1>1 DEF vars, disk, local, counts, Contract!vars, Done, Stage, Verdict, At
<1>2. CASE Call
  <2>1. pc = "idle" /\ pc' \in {"idle", "read"} /\ UNCHANGED <<ws, ledger, recorded>>
    BY <1>2 DEF Call, Return, disk
  <2>2. At = "idle" /\ At' = "idle" /\ UNCHANGED <<Done, Stage, Verdict>>
    BY <2>1 DEF At, Done, Stage, Verdict, Replacing, Undoing
  <2>3. result' = NoSummary \/ (result' = Failure /\ Stage = "half")
    BY <1>2 DEF Call, Return, Stage
  <2> QED
    BY <2>1, <2>2, <2>3
       DEF Contract!Alone, Contract!Anew, Contract!Refuse, Contract!Answer
<1>3. CASE ReadNext
  <2>1. UNCHANGED <<ws, ledger, recorded, result>> /\ At = "idle" /\ At' = "idle"
    BY <1>3 DEF ReadNext, disk, Goto, At, Replacing, Undoing
  <2> QED
    BY <2>1, Stutter
<1>4. CASE ReadFails \/ DecideUnknown
  BY <1>4 DEF ReadFails, DecideUnknown, Observed, ContractInv, QuietInv, IInv, TypeOK, IndexInv
<1>5. CASE DecideMixed \/ DecideAllAfter
  <2>1. /\ UNCHANGED <<ws, ledger, recorded, result>> /\ pc = "decide" /\ pc' = "finish"
        /\ draft'.outcome \in {"partial_apply", "already_applied"}
    BY <1>5, Constants DEF DecideMixed, DecideAllAfter, Finish, disk
  <2> QED
    BY <2>1, Stutter DEF At, Replacing, Undoing
<1>6. CASE DecideReplay
  <2>1. /\ pc = "decide" /\ persisted = recorded /\ ledger = "complete"
        /\ \A f \in Files : states[f] = "before"
    BY <1>6, ObservedAll DEF DecideReplay, ContractInv, IInv, LedgerInv
  <2>2. persisted.outcome \notin Success
    <3>1. 1 \in Files /\ ws[1] = "before"
      BY <2>1, Classified DEF Files
    <3> QED
      BY <2>1, <3>1 DEF ContractInv, AgreeInv
  <2>3. pc' = "idle" /\ result' = recorded /\ UNCHANGED <<ws, ledger, recorded>>
    BY <1>6, <2>1, <2>2 DEF DecideReplay, ReplaySummary, Return, disk
  <2> QED
    BY <2>1, <2>3 DEF Contract!Alone, Contract!Replay, Contract!Answer, At, Stage, Verdict, Done,
                      Replacing, Undoing
<1>7. CASE DecideApply
  <2>1. /\ pc = "decide" /\ ledger = "none" /\ UNCHANGED <<ws, ledger, recorded>>
        /\ \A f \in Files : states[f] = "before"
    BY <1>7, ObservedAll DEF DecideApply, disk, ContractInv, IInv, LedgerInv
  <2>2. Done = {} /\ At = "idle" /\ Stage = "none" /\ UNCHANGED <<Done, Stage, Verdict>>
    BY <2>1, Classified DEF Done, At, Stage, Verdict, Replacing, Undoing
  <2>3. \/ pc' = "idle" /\ result' = Failure
        \/ pc' \in {"preimages", "check"} /\ result' = result
    BY <1>7 DEF DecideApply, Return, Goto, PreimageStep
  <2> QED
    BY <2>1, <2>2, <2>3
       DEF Contract!Alone, Contract!Refuse, Contract!Start, Contract!Answer, At, Replacing, Undoing
<1>8. CASE PreimageArtifact \/ PreimageMark \/ CheckHash \/ SyncDirectory
  <2>1. /\ UNCHANGED <<ws, ledger, recorded, result>>
        /\ pc \in {"preimages", "preimages_mark", "check", "sync"}
    BY <1>8 DEF PreimageArtifact, PreimageMark, CheckHash, StartUndo, SyncDirectory, Goto, Finish,
                disk
  <2>2. CASE PreimageArtifact \/ PreimageMark
    BY <2>1, <2>2, Stutter DEF PreimageArtifact, PreimageMark, Goto, At, Replacing, Undoing
  <2>3. CASE CheckHash
    <3>1. HashMatches("before")
      BY <2>3 DEF CheckHash, HashMatches, ContractInv, QuietInv, IInv, TypeOK, IndexInv, Files
    <3> QED
      BY <2>1, <2>3, <3>1, Stutter DEF CheckHash, Goto, At, Replacing, Undoing
  <2>4. CASE SyncDirectory
    <3>1. pc' = "check" \/ (pc' = "finish" /\ draft' = Summary("applied", Files))
      BY <2>4 DEF SyncDirectory, Goto, Finish
    <3>2. pc = "sync"
      BY <2>4 DEF SyncDirectory
    <3>3. At = "write" /\ At' = "write"
      BY <3>1, <3>2, Constants DEF At, Replacing, Undoing, Summary
    <3> QED
      BY <2>1, <3>3, Stutter
  <2> QED
    BY <1>8, <2>2, <2>3, <2>4
<1>9. CASE ReplaceFile
  <2>1. /\ i \in Files /\ ws[i] = "before" /\ ws \in [Files -> Contents]
        /\ pc = "replace" /\ pc' = "sync" /\ ws' = [ws EXCEPT ![i] = "after"]
        /\ ledger = "none" /\ UNCHANGED <<ledger, recorded, result>>
    BY <1>9 DEF ReplaceFile, Goto, ContractInv, QuietInv, IInv, TypeOK, IndexInv, LedgerInv,
                Replacing, Files
  <2>2. Done' = Done \cup {i} /\ i \notin Done
    BY <2>1 DEF Done
  <2> QED
    BY <2>1, <2>2 DEF Contract!Alone, Contract!Replace, At, Stage, Verdict, Replacing, Undoing
<1>10. CASE ReplaceFault \/ SyncFault
  <2>1. /\ pc \in Replacing /\ pc' = "undo" /\ ledger = "none"
        /\ IoFaults \cap {"write", "sync"} # {} /\ UNCHANGED <<ws, ledger, recorded, result>>
    BY <1>10 DEF ReplaceFault, SyncFault, StartUndo, Goto, disk, Replacing, ContractInv, IInv,
                 LedgerInv
  <2>2. At = "write" /\ At' = "restore" /\ Stage = "none" /\ UNCHANGED <<Done, Stage, Verdict>>
    BY <2>1 DEF At, Replacing, Undoing, Stage, Done, Verdict
  <2> QED
    BY <2>1, <2>2 DEF Contract!Alone, Contract!GiveUp
<1>11. CASE UndoDone \/ UndoCheck \/ UndoSync
  <2>1. /\ pc \in Undoing /\ UNCHANGED <<ws, ledger, recorded>>
        /\ pc' \in Undoing \/ (pc' = "finish" /\ draft' = WorkspaceChanged)
        /\ UNCHANGED result
    <3>1. CASE UndoCheck
      <4>1. HashMatches("after")
        BY <3>1 DEF UndoCheck, HashMatches, ContractInv, QuietInv, IInv, TypeOK, Files
      <4> QED
        BY <3>1, <4>1 DEF UndoCheck, Goto, disk, Undoing
    <3>2. CASE UndoDone \/ UndoSync
      BY <3>2 DEF UndoDone, UndoSync, Goto, disk, Undoing
    <3> QED
      BY <1>11, <3>1, <3>2
  <2>2. At = "restore" /\ At' = "restore"
    BY <2>1, Constants DEF At, Replacing, Undoing
  <2> QED
    BY <2>1, <2>2, Stutter
<1>12. CASE UndoReplace
  <2>1. /\ i \in Files /\ ws[i] = "after" /\ ws \in [Files -> Contents]
        /\ pc = "undo_replace" /\ pc' = "undo_sync" /\ ws' = [ws EXCEPT ![i] = "before"]
        /\ ledger = "none" /\ UNCHANGED <<ledger, recorded, result>>
    BY <1>12 DEF UndoReplace, Goto, ContractInv, QuietInv, IInv, TypeOK, IndexInv, LedgerInv,
                 Undoing, Files
  <2>2. Done' = Done \ {i} /\ i \in Done
    BY <2>1 DEF Done
  <2> QED
    BY <2>1, <2>2 DEF Contract!Alone, Contract!Restore, At, Stage, Verdict, Replacing, Undoing
<1>13. CASE UndoFault
  <2>1. /\ pc \in Undoing /\ pc' = "idle" /\ result' = Failure
        /\ IoFaults \cap {"write", "sync"} # {} /\ UNCHANGED <<ws, ledger, recorded>>
    BY <1>13 DEF UndoFault, Return, disk, Undoing
  <2>2. At = "restore" /\ At' = "idle" /\ UNCHANGED <<Done, Stage, Verdict>>
    BY <2>1 DEF At, Replacing, Undoing, Stage, Done, Verdict
  <2> QED
    BY <2>1, <2>2 DEF Contract!Alone, Contract!Fail, Contract!Answer
<1>14. CASE FinishReplay
  <2>1. /\ pc = "finish" /\ persisted = recorded /\ ledger = "complete"
        /\ persisted.outcome \in Success => draft.outcome = "already_applied"
        /\ draft.outcome \notin {"applied", "workspace_changed"}
    BY <1>14 DEF FinishReplay, ContractInv, IInv, LedgerInv, AgreeInv, DraftInv, QuietInv
  <2>2. pc' = "idle" /\ result' = recorded /\ UNCHANGED <<ws, ledger, recorded>>
    BY <1>14, <2>1 DEF FinishReplay, Reconcile, Return, disk
  <2> QED
    BY <2>1, <2>2 DEF Contract!Alone, Contract!Replay, Contract!Answer, At, Stage, Verdict, Done,
                      Replacing, Undoing
<1>15. CASE PersistSummary
  <2>1. /\ pc = "finish" /\ ledger = "none" /\ Truthful(draft)
        /\ pc' = "persist_mark" /\ ledger' = "written" /\ recorded' = draft
        /\ UNCHANGED <<ws, result>>
    BY <1>15 DEF PersistSummary, Goto, ContractInv, IInv, LedgerInv, DraftInv
  <2>2. At' = "seal"
    BY <2>1 DEF At, Replacing, Undoing
  <2> QED
    BY <2>1, <2>2, Recording DEF Contract!Alone
<1>16. CASE PersistMark
  <2>1. /\ pc = "persist_mark" /\ ledger = "written" /\ recorded = draft
        /\ pc' = "idle" /\ ledger' = "complete" /\ result' = draft /\ UNCHANGED <<ws, recorded>>
    BY <1>16 DEF PersistMark, Return, ContractInv, IInv, LedgerInv, AgreeInv
  <2> QED
    BY <2>1 DEF Contract!Alone, Contract!Seal, Contract!Answer, At, Stage, Verdict, Done,
                Replacing, Undoing
<1>17. CASE LedgerFault
  <2>1. /\ "ledger" \in IoFaults /\ pc' = "idle" /\ result' = Failure /\ UNCHANGED ws
        /\ ledger # "complete"
    BY <1>17 DEF LedgerFault, Return, ContractInv, IInv, LedgerInv, Finishing
  <2>2. At' = "idle" /\ Stage # "complete" /\ UNCHANGED Done
    BY <2>1 DEF At, Stage, Done, Replacing, Undoing
  <2>3. CASE UNCHANGED <<Stage, Verdict>>
    BY <2>1, <2>2, <2>3 DEF Contract!Alone, Contract!Fail, Contract!Answer
  <2>4. CASE ~UNCHANGED <<Stage, Verdict>>
    <3>1. /\ pc = "finish" /\ ledger = "none" /\ ledger' = "written" /\ recorded' = draft
          /\ persisted = NoSummary
      BY <1>17, <2>4 DEF LedgerFault, Stage, Verdict, Finishing, ContractInv, IInv, LedgerInv,
                         AgreeInv
    <3>2. Truthful(draft)
      BY <3>1 DEF ContractInv, DraftInv
    <3> QED
      BY <2>1, <2>2, <3>1, <3>2, Recording DEF Contract!Alone
  <2> QED
    BY <2>3, <2>4
<1>18. CASE Crash
  <2>1. pc' = "idle" /\ result' = NoSummary /\ UNCHANGED <<ws, ledger, recorded>>
    BY <1>18 DEF Crash, Return, disk
  <2> QED
    BY <2>1 DEF Contract!Alone, Contract!Anew, Contract!Answer, At, Stage, Verdict, Done,
                Replacing, Undoing
<1>19. CASE \E f \in Files, c \in Contents : Edit(f, c)
  BY <1>19 DEF Edit
<1> QED
  BY NextCases, <1>1, <1>2, <1>3, <1>4, <1>5, <1>6, <1>7, <1>8, <1>9, <1>10, <1>11, <1>12,
     <1>13, <1>14, <1>15, <1>16, <1>17, <1>18, <1>19

-----------------------------------------------------------------------------
\* apply_once keeps its contract with the graph through any number of calls and
\* crashes and whichever system calls fail, until somebody else edits a file; and
\* even then the first complete summary stays.
THEOREM ContractIsKept == Spec => KeepsContract
<1>1. Init => ContractInv /\ Contract!Init
  <2> SUFFICES ASSUME Init PROVE ContractInv /\ Contract!Init
    OBVIOUS
  <2>1. ContractInv
    BY InitInv, InitAnswers DEF ContractInv, DraftInv, Init
  <2>2. Contract!Init
    BY ContractSummaries DEF Init, Contract!Init, Done, Stage, Verdict, At, Replacing, Undoing
  <2> QED
    BY <2>1, <2>2
<1>2. ContractInv /\ [Next]_vars => ContractInv'
  BY StepInv, AgreeStep, QuietStep, DraftStep DEF ContractInv
<1>3. ContractInv /\ [Next]_vars => [Contract!Next]_(Contract!vars)
  <2> SUFFICES ASSUME ContractInv, [Next]_vars PROVE [Contract!Next]_(Contract!vars)
    OBVIOUS
  <2>1. edits \in Nat /\ edits' \in Nat /\ edits <= edits'
    BY EditsCount DEF ContractInv, IInv, TypeOK
  <2>2. CASE edits' > 0
    BY <2>2, DisturbedStep
  <2>3. CASE edits' = 0 /\ edits = 0
    <3>1. ~(edits > 0) /\ ~(edits' > 0)
      BY <2>3
    <3> QED
      BY <2>3, <3>1, AloneStep DEF Contract!Next
  <2> QED
    BY <2>1, <2>2, <2>3
<1> QED
  BY <1>1, <1>2, <1>3, PTL DEF Spec, KeepsContract, Contract!Spec
=============================================================================
