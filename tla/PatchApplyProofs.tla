-------------------------- MODULE PatchApplyProofs --------------------------
(***************************************************************************)
(* What apply_once guarantees for any number of files, calls, edits and    *)
(* crashes and for every combination of failing system calls.              *)
(***************************************************************************)
EXTENDS PatchApply, TLAPS

(***************************************************************************)
(* The inductive invariant.  SuccessMeansAllAfter speaks of the end of a   *)
(* call; what makes it true is what holds at each point within one.        *)
(***************************************************************************)

\* The index is that of a file, but for a rollback that has visited them all.
IndexInv == pc # "undo" => i \in Files

\* Until the preimages are complete nothing is written, and nothing has been.
LogInv ==
    /\ pc \in {"read", "decide", "preimages", "preimages_mark"} => written = {}
    /\ (written # {} \/ pc \in Replacing \cup Undoing) => preimages = "complete"

\* A file that was seen or made "after" still is, unless somebody edited it.
AfterInv ==
    /\ pc = "idle" => \A f \in Files : states[f] = "unread"
    /\ pc \in {"preimages", "preimages_mark"} \cup Replacing \cup Undoing =>
          \A f \in Files : states[f] = "before"
    /\ pc \in {"decide", "preimages", "preimages_mark"} => i = 1
    /\ \A f \in Files \ touched : states[f] = "after" => ws[f] = "after"
    /\ pc \in {"check", "replace"} =>
          \A f \in Files \ touched : f < i => ws[f] = "after"
    /\ pc = "sync" => \A f \in Files \ touched : f <= i => ws[f] = "after"
    /\ (pc \in Finishing /\ draft.outcome \in Success) =>
          \A f \in Files \ touched : ws[f] = "after"
    /\ result.outcome \in Success => pc = "idle"
    /\ SuccessMeansAllAfter

\* What a call in progress knows of the ledger is what the ledger holds, and a
\* call that can write found none.
LedgerInv ==
    /\ pc # "idle" /\ persisted = NoSummary /\ pc # "persist_mark" => ledger = "none"
    /\ pc = "persist_mark" => ledger = "written"
    /\ pc # "idle" /\ persisted # NoSummary => ledger = "complete" /\ persisted = recorded
    /\ pc \in {"preimages", "preimages_mark", "persist_mark"} \cup Replacing \cup Undoing =>
          persisted = NoSummary
    /\ pc \in Finishing => draft # NoSummary
    /\ ledger = "complete" \/ pc = "persist_mark" => recorded # NoSummary

IInv == TypeOK /\ IndexInv /\ LogInv /\ AfterInv /\ LedgerInv
-----------------------------------------------------------------------------
(* Lemmas *)

LEMMA SummaryType == ASSUME NEW o \in Outcomes \cup {"none", "failure"}, NEW fs \in SUBSET Files
                     PROVE  Summary(o, fs) \in Summaries
  BY DEF Summary, Summaries

LEMMA Constants ==
    /\ NoSummary \in Summaries /\ Failure \in Summaries /\ WorkspaceChanged \in Summaries
    /\ MixedSummary \in Summaries
    /\ Summary("applied", Files) \in Summaries /\ Summary("already_applied", Files) \in Summaries
    /\ NoSummary.outcome = "none" /\ Failure.outcome = "failure"
    /\ WorkspaceChanged.outcome = "workspace_changed"
    /\ MixedSummary.outcome = "partial_apply"
    /\ Summary("applied", Files).outcome = "applied"
    /\ Summary("already_applied", Files).outcome = "already_applied"
  BY DEF Summary, Summaries, NoSummary, Failure, WorkspaceChanged, MixedSummary, Outcomes, Success

LEMMA UnreadType ==
    /\ Unread \in [Files -> {"unread", "before", "after", "unknown"}]
    /\ \A f \in Files : Unread[f] = "unread"
  BY DEF Unread

\* When one state was observed it is that of every file.
LEMMA ObservedAll ==
    ASSUME NEW v, Observed = {v}
    PROVE  \A f \in Files : states[f] = v
  BY DEF Observed

\* The steps of the program and its environment, one by one.
LEMMA NextCases ==
    ASSUME [Next]_vars
    PROVE  \/ UNCHANGED vars
           \/ Call
           \/ ReadNext
           \/ ReadFails
           \/ DecideUnknown
           \/ DecideMixed
           \/ DecideAllAfter
           \/ DecideReplay
           \/ DecideApply
           \/ PreimageArtifact
           \/ PreimageMark
           \/ CheckHash
           \/ ReplaceFile
           \/ SyncDirectory
           \/ ReplaceFault
           \/ SyncFault
           \/ UndoDone
           \/ UndoCheck
           \/ UndoReplace
           \/ UndoSync
           \/ UndoFault
           \/ FinishReplay
           \/ PersistSummary
           \/ PersistMark
           \/ LedgerFault
           \/ Crash
           \/ \E f \in Files, c \in Contents : Edit(f, c)
  BY DEF Next, Step, Classification, Application, Rollback, Conclusion

\* Typing is inductive.
LEMMA Typing == TypeOK /\ IndexInv /\ [Next]_vars => TypeOK' /\ IndexInv'
<1> SUFFICES ASSUME TypeOK, IndexInv, [Next]_vars PROVE TypeOK' /\ IndexInv'
  OBVIOUS
<1> USE NAssumption, Constants, UnreadType
        DEF TypeOK, IndexInv, Files, Replacing, Undoing, Finishing, Points, Ledger, Contents,
            disk, local, counts, ghosts, Return, Finish, Goto
<1>1. CASE Call
  BY <1>1 DEF Call, Loaded
<1>2. CASE ReadNext
  BY <1>2 DEF ReadNext, Classify
<1>3. CASE ReadFails
  BY <1>3 DEF ReadFails
<1>4. CASE DecideUnknown
  BY <1>4 DEF DecideUnknown
<1>5. CASE DecideMixed
  BY <1>5 DEF DecideMixed
<1>6. CASE DecideAllAfter
  BY <1>6 DEF DecideAllAfter
<1>7. CASE DecideReplay
  BY <1>7 DEF DecideReplay, ReplaySummary
<1>8. CASE DecideApply
  BY <1>8 DEF DecideApply, PreimageStep
<1>9. CASE PreimageArtifact
  BY <1>9 DEF PreimageArtifact
<1>10. CASE PreimageMark
  BY <1>10 DEF PreimageMark
<1>11. CASE CheckHash
  BY <1>11 DEF CheckHash, HashMatches, StartUndo
<1>12. CASE ReplaceFile
  BY <1>12 DEF ReplaceFile
<1>13. CASE SyncDirectory
  BY <1>13 DEF SyncDirectory
<1>14. CASE ReplaceFault
  BY <1>14 DEF ReplaceFault, StartUndo
<1>15. CASE SyncFault
  BY <1>15 DEF SyncFault, StartUndo
<1>16. CASE UndoDone
  BY <1>16 DEF UndoDone
<1>17. CASE UndoCheck
  BY <1>17 DEF UndoCheck, HashMatches, UndoMismatch
<1>18. CASE UndoReplace
  BY <1>18 DEF UndoReplace
<1>19. CASE UndoSync
  BY <1>19 DEF UndoSync
<1>20. CASE UndoFault
  BY <1>20 DEF UndoFault
<1>21. CASE FinishReplay
  BY <1>21 DEF FinishReplay, Reconcile
<1>22. CASE PersistSummary
  BY <1>22 DEF PersistSummary
<1>23. CASE PersistMark
  BY <1>23 DEF PersistMark
<1>24. CASE LedgerFault
  BY <1>24 DEF LedgerFault
<1>25. CASE Crash
  BY <1>25 DEF Crash
<1>26. CASE \E f \in Files, c \in Contents : Edit(f, c)
  BY <1>26 DEF Edit
<1>27. CASE UNCHANGED vars
  BY <1>27 DEF vars
<1> QED
  BY NextCases, <1>1, <1>2, <1>3, <1>4, <1>5, <1>6, <1>7, <1>8, <1>9, <1>10, <1>11, <1>12,
     <1>13, <1>14, <1>15, <1>16, <1>17, <1>18, <1>19, <1>20, <1>21, <1>22, <1>23, <1>24, <1>25,
     <1>26, <1>27
\* The write-ahead of the preimages is inductive.
LEMMA LogStep == TypeOK /\ IndexInv /\ LogInv /\ [Next]_vars => LogInv'
<1> SUFFICES ASSUME TypeOK, IndexInv, LogInv, [Next]_vars PROVE LogInv'
  OBVIOUS
<1> USE NAssumption, Constants, UnreadType
        DEF TypeOK, IndexInv, LogInv, Files, Replacing, Undoing, Finishing, Ledger,
            disk, local, counts, ghosts, Return, Finish, Goto
<1>1. CASE Call
  BY <1>1 DEF Call, Loaded
<1>2. CASE ReadNext
  BY <1>2 DEF ReadNext, Classify
<1>3. CASE ReadFails
  BY <1>3 DEF ReadFails
<1>4. CASE DecideUnknown
  BY <1>4 DEF DecideUnknown
<1>5. CASE DecideMixed
  BY <1>5 DEF DecideMixed, Observed
<1>6. CASE DecideAllAfter
  BY <1>6 DEF DecideAllAfter, Observed
<1>7. CASE DecideReplay
  BY <1>7 DEF DecideReplay, ReplaySummary
<1>8. CASE DecideApply
  BY <1>8 DEF DecideApply, PreimageStep
<1>9. CASE PreimageArtifact
  BY <1>9 DEF PreimageArtifact
<1>10. CASE PreimageMark
  BY <1>10 DEF PreimageMark
<1>11. CASE CheckHash
  BY <1>11 DEF CheckHash, HashMatches, StartUndo
<1>12. CASE ReplaceFile
  BY <1>12 DEF ReplaceFile
<1>13. CASE SyncDirectory
  BY <1>13 DEF SyncDirectory
<1>14. CASE ReplaceFault
  BY <1>14 DEF ReplaceFault, StartUndo
<1>15. CASE SyncFault
  BY <1>15 DEF SyncFault, StartUndo
<1>16. CASE UndoDone
  BY <1>16 DEF UndoDone
<1>17. CASE UndoCheck
  BY <1>17 DEF UndoCheck, HashMatches, UndoMismatch
<1>18. CASE UndoReplace
  BY <1>18 DEF UndoReplace
<1>19. CASE UndoSync
  BY <1>19 DEF UndoSync
<1>20. CASE UndoFault
  BY <1>20 DEF UndoFault
<1>21. CASE FinishReplay
  BY <1>21 DEF FinishReplay, Reconcile
<1>22. CASE PersistSummary
  BY <1>22 DEF PersistSummary
<1>23. CASE PersistMark
  BY <1>23 DEF PersistMark
<1>24. CASE LedgerFault
  BY <1>24 DEF LedgerFault
<1>25. CASE Crash
  BY <1>25 DEF Crash
<1>26. CASE \E f \in Files, c \in Contents : Edit(f, c)
  BY <1>26 DEF Edit
<1>27. CASE UNCHANGED vars
  BY <1>27 DEF vars
<1> QED
  BY NextCases, <1>1, <1>2, <1>3, <1>4, <1>5, <1>6, <1>7, <1>8, <1>9, <1>10, <1>11, <1>12,
     <1>13, <1>14, <1>15, <1>16, <1>17, <1>18, <1>19, <1>20, <1>21, <1>22, <1>23, <1>24, <1>25,
     <1>26, <1>27

\* What a successful answer rests on is inductive.
LEMMA AfterStep == TypeOK /\ IndexInv /\ AfterInv /\ [Next]_vars => AfterInv'
<1> SUFFICES ASSUME TypeOK, IndexInv, AfterInv, [Next]_vars PROVE AfterInv'
  OBVIOUS
<1> USE NAssumption, Constants, UnreadType
        DEF TypeOK, IndexInv, AfterInv, SuccessMeansAllAfter, Success, Files, Replacing, Undoing,
            Finishing, Ledger,
            disk, local, counts, ghosts, Return, Finish, Goto
<1>1. CASE Call
  BY <1>1 DEF Call, Loaded
<1>2. CASE ReadNext
  BY <1>2 DEF ReadNext, Classify
<1>3. CASE ReadFails
  BY <1>3 DEF ReadFails
<1>4. CASE DecideUnknown
  BY <1>4 DEF DecideUnknown
<1>5. CASE DecideMixed
  BY <1>5 DEF DecideMixed
<1>6. CASE DecideAllAfter
  BY <1>6, ObservedAll DEF DecideAllAfter
<1>7. CASE DecideReplay
  BY <1>7 DEF DecideReplay, ReplaySummary
<1>8. CASE DecideApply
  <2>1. \A f \in Files : states[f] = "before"
    BY <1>8, ObservedAll DEF DecideApply
  <2>2. CASE preimages = "written"
    BY <1>8, <2>2 DEF DecideApply
  <2>3. CASE preimages # "written"
    <3>1. pc' \in {"preimages", "check"} /\ i' = 1
      BY <1>8, <2>3 DEF DecideApply, PreimageStep
    <3>2. UNCHANGED <<ws, states, draft, result, touched>>
      BY <1>8, <2>3 DEF DecideApply
    <3> QED
      BY <2>1, <3>1, <3>2
  <2> QED
    BY <2>2, <2>3
<1>9. CASE PreimageArtifact
  BY <1>9 DEF PreimageArtifact
<1>10. CASE PreimageMark
  BY <1>10 DEF PreimageMark
<1>11. CASE CheckHash
  BY <1>11 DEF CheckHash, HashMatches, StartUndo
<1>12. CASE ReplaceFile
  BY <1>12 DEF ReplaceFile
<1>13. CASE SyncDirectory
  BY <1>13 DEF SyncDirectory
<1>14. CASE ReplaceFault
  BY <1>14 DEF ReplaceFault, StartUndo
<1>15. CASE SyncFault
  BY <1>15 DEF SyncFault, StartUndo
<1>16. CASE UndoDone
  BY <1>16 DEF UndoDone
<1>17. CASE UndoCheck
  BY <1>17 DEF UndoCheck, HashMatches, UndoMismatch
<1>18. CASE UndoReplace
  BY <1>18 DEF UndoReplace
<1>19. CASE UndoSync
  BY <1>19 DEF UndoSync
<1>20. CASE UndoFault
  BY <1>20 DEF UndoFault
<1>21. CASE FinishReplay
  BY <1>21 DEF FinishReplay, Reconcile
<1>22. CASE PersistSummary
  BY <1>22 DEF PersistSummary
<1>23. CASE PersistMark
  BY <1>23 DEF PersistMark
<1>24. CASE LedgerFault
  BY <1>24 DEF LedgerFault
<1>25. CASE Crash
  BY <1>25 DEF Crash
<1>26. CASE \E f \in Files, c \in Contents : Edit(f, c)
  BY <1>26 DEF Edit
<1>27. CASE UNCHANGED vars
  BY <1>27 DEF vars
<1> QED
  BY NextCases, <1>1, <1>2, <1>3, <1>4, <1>5, <1>6, <1>7, <1>8, <1>9, <1>10, <1>11, <1>12,
     <1>13, <1>14, <1>15, <1>16, <1>17, <1>18, <1>19, <1>20, <1>21, <1>22, <1>23, <1>24, <1>25,
     <1>26, <1>27

\* The call's knowledge of the ledger is inductive.
LEMMA LedgerStep == TypeOK /\ IndexInv /\ LedgerInv /\ [Next]_vars => LedgerInv'
<1> SUFFICES ASSUME TypeOK, IndexInv, LedgerInv, [Next]_vars PROVE LedgerInv'
  OBVIOUS
<1> USE NAssumption, Constants, UnreadType
        DEF TypeOK, IndexInv, LedgerInv, Success, Files, Replacing, Undoing,
            Finishing, Ledger,
            disk, local, counts, ghosts, Return, Finish, Goto
<1>1. CASE Call
  BY <1>1 DEF Call, Loaded
<1>2. CASE ReadNext
  BY <1>2 DEF ReadNext, Classify
<1>3. CASE ReadFails
  BY <1>3 DEF ReadFails
<1>4. CASE DecideUnknown
  BY <1>4 DEF DecideUnknown
<1>5. CASE DecideMixed
  BY <1>5 DEF DecideMixed, Observed
<1>6. CASE DecideAllAfter
  BY <1>6 DEF DecideAllAfter, Observed
<1>7. CASE DecideReplay
  BY <1>7 DEF DecideReplay, ReplaySummary
<1>8. CASE DecideApply
  BY <1>8 DEF DecideApply, PreimageStep
<1>9. CASE PreimageArtifact
  BY <1>9 DEF PreimageArtifact
<1>10. CASE PreimageMark
  BY <1>10 DEF PreimageMark
<1>11. CASE CheckHash
  BY <1>11 DEF CheckHash, HashMatches, StartUndo
<1>12. CASE ReplaceFile
  BY <1>12 DEF ReplaceFile
<1>13. CASE SyncDirectory
  BY <1>13 DEF SyncDirectory
<1>14. CASE ReplaceFault
  BY <1>14 DEF ReplaceFault, StartUndo
<1>15. CASE SyncFault
  BY <1>15 DEF SyncFault, StartUndo
<1>16. CASE UndoDone
  BY <1>16 DEF UndoDone
<1>17. CASE UndoCheck
  BY <1>17 DEF UndoCheck, HashMatches, UndoMismatch
<1>18. CASE UndoReplace
  BY <1>18 DEF UndoReplace
<1>19. CASE UndoSync
  BY <1>19 DEF UndoSync
<1>20. CASE UndoFault
  BY <1>20 DEF UndoFault
<1>21. CASE FinishReplay
  BY <1>21 DEF FinishReplay, Reconcile
<1>22. CASE PersistSummary
  BY <1>22 DEF PersistSummary
<1>23. CASE PersistMark
  BY <1>23 DEF PersistMark
<1>24. CASE LedgerFault
  BY <1>24 DEF LedgerFault
<1>25. CASE Crash
  BY <1>25 DEF Crash
<1>26. CASE \E f \in Files, c \in Contents : Edit(f, c)
  BY <1>26 DEF Edit
<1>27. CASE UNCHANGED vars
  BY <1>27 DEF vars
<1> QED
  BY NextCases, <1>1, <1>2, <1>3, <1>4, <1>5, <1>6, <1>7, <1>8, <1>9, <1>10, <1>11, <1>12,
     <1>13, <1>14, <1>15, <1>16, <1>17, <1>18, <1>19, <1>20, <1>21, <1>22, <1>23, <1>24, <1>25,
     <1>26, <1>27
-----------------------------------------------------------------------------
(* Theorems *)

LEMMA InitInv == Init => IInv
  BY NAssumption, Constants, UnreadType
     DEF Init, IInv, TypeOK, IndexInv, LogInv, AfterInv, LedgerInv, SuccessMeansAllAfter,
         Success, Files, Contents, Ledger, Points, Replacing, Undoing, Finishing

LEMMA StepInv == IInv /\ [Next]_vars => IInv'
  BY Typing, LogStep, AfterStep, LedgerStep DEF IInv

THEOREM Invariance == Spec => []IInv
  BY InitInv, StepInv, PTL DEF Spec

\* Every variable keeps its type, for every candidate and every bound.
THEOREM TypeCorrect == Spec => []TypeOK
<1>1. IInv => TypeOK
  BY DEF IInv
<1> QED
  BY <1>1, Invariance, PTL

\* However calls, edits, crashes and failures fall, no file is written before
\* the preimages of all of them are on disk.
THEOREM WriteAhead == Spec => []PreimagesBeforeWrites
<1>1. IInv => PreimagesBeforeWrites
  BY DEF IInv, LogInv, PreimagesBeforeWrites
<1> QED
  BY <1>1, Invariance, PTL

\* A call that answers applied or already_applied leaves every file that nobody
\* edited meanwhile at the approved content.
THEOREM SuccessIsTrue == Spec => []SuccessMeansAllAfter
<1>1. IInv => SuccessMeansAllAfter
  BY DEF IInv, AfterInv
<1> QED
  BY <1>1, Invariance, PTL

\* A complete ledger is final, and so is the workspace it was completed for.
THEOREM AppliedAtMostOnce == Spec => CompletedLedgerIsFinal
<1>1. IInv /\ [Next]_vars =>
        [ledger = "complete" =>
           /\ UNCHANGED <<ledger, recorded>>
           /\ edits' = edits => UNCHANGED ws]_vars
  <2> SUFFICES ASSUME IInv, [Next]_vars, ledger = "complete"
               PROVE  UNCHANGED <<ledger, recorded>> /\ (edits' = edits => UNCHANGED ws)
    OBVIOUS
  <2>1. persisted # NoSummary \/ pc = "idle"
    BY DEF IInv, LedgerInv
  <2>2. pc \notin Replacing \cup Undoing \cup {"persist_mark"}
    BY <2>1 DEF IInv, LedgerInv, Replacing, Undoing
  <2>3. CASE \E f \in Files, c \in Contents : Edit(f, c)
    BY <2>3 DEF Edit, IInv, TypeOK
  <2>4. CASE UNCHANGED vars
    BY <2>4 DEF vars, disk
  <2>5. CASE ~(\E f \in Files, c \in Contents : Edit(f, c)) /\ ~UNCHANGED vars
    BY <2>1, <2>2, <2>5, NextCases
       DEF Call, ReadNext, ReadFails, DecideUnknown, DecideMixed, DecideAllAfter,
           DecideReplay, DecideApply, PreimageArtifact, PreimageMark, CheckHash,
           ReplaceFile, SyncDirectory, ReplaceFault, SyncFault, UndoDone, UndoCheck,
           UndoReplace, UndoSync, UndoFault, FinishReplay, PersistSummary, PersistMark,
           LedgerFault, Crash, disk, Replacing, Undoing, Finishing
  <2> QED
    BY <2>3, <2>4, <2>5
<1> QED
  BY <1>1, Invariance, PTL DEF Spec, CompletedLedgerIsFinal
=============================================================================
