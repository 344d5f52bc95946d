-------------------------- MODULE PatchApplyAnswers --------------------------
(***************************************************************************)
(* What the answers of apply_once are worth, for any number of files,      *)
(* calls, edits and crashes: a repeated call agrees with the ledger, and   *)
(* workspace_changed blames somebody only when somebody edited, under the  *)
(* system calls each claim needs to succeed; and that every step of a call *)
(* brings it nearer to its end.                                            *)
(***************************************************************************)
EXTENDS PatchApplyProofs

\* Between a hash check and the rename over the file, only an edit that the
\* check could not see changes the file.
WindowInv ==
    /\ pc = "replace" => i \in late \/ ws[i] = "before"
    /\ pc = "undo_replace" => i \in late \/ ws[i] = "after"

\* While nobody edits, a complete ledger speaks of the workspace as it is, and
\* so does what a call that found it has read.
Unedited == edits = 0
AgreeInv ==
    /\ Unedited => touched = {}
    /\ pc # "idle" => result = NoSummary
    /\ pc = "idle" => persisted = NoSummary /\ i = 1
    /\ pc = "persist_mark" => recorded = draft
    /\ pc = "read" => \A f \in Files : f < i => states[f] # "unread"
    /\ pc = "decide" => \A f \in Files : states[f] # "unread"
    /\ (Unedited /\ recorded.outcome \in Success /\ (ledger = "complete" \/ pc = "persist_mark"))
          => \A f \in Files : ws[f] = "after"
    /\ (Unedited /\ persisted # NoSummary)
          => \A f \in Files : states[f] # "unread" => states[f] = Classify(ws[f])
    /\ (Unedited /\ persisted.outcome \in Success /\ pc = "finish")
          => draft.outcome = "already_applied"
    /\ ReplayAgrees

\* While nobody edits, the files are at one of two contents, and the index of the
\* call says which; a rollback leaves at most the file whose fsync failed.
Stray(from) ==
    \A f, g \in Files : (f > from /\ g > from /\ ws[f] = "after" /\ ws[g] = "after")
                            => f = g /\ "sync" \in IoFaults

QuietInv ==
    Unedited =>
        /\ \A f \in Files : /\ ws[f] \in {"before", "after"}
                            /\ states[f] # "unknown"
                            /\ pc \in {"read", "decide", "preimages", "preimages_mark"} =>
                                  (states[f] = "before" => ws[f] = "before")
                            /\ pc \in {"check", "replace"} /\ f >= i => ws[f] = "before"
                            /\ pc = "sync" /\ f > i => ws[f] = "before"
                            /\ pc \in {"undo", "undo_replace"} /\ f <= i => ws[f] = "after"
                            /\ pc = "undo_sync" /\ f < i => ws[f] = "after"
                            /\ pc = "undo_sync" /\ f = i => ws[f] = "before"
        /\ pc \in Undoing => Stray(i)
        /\ (pc = "finish" /\ draft.outcome = "workspace_changed")
              => Stray(0) /\ persisted = NoSummary

\* When writes succeed too, nothing has to be undone and nobody is blamed.
BlameInv ==
    Unedited =>
        /\ pc \notin Undoing
        /\ \A s \in {draft, persisted, recorded, result} : s.outcome # "workspace_changed"

\* The rollback visits every file that was replaced.
UndoInv ==
    /\ pc \in {"check", "replace", "undo_sync"} => \A f \in written : f < i
    /\ pc \in {"sync", "undo", "undo_replace"} => \A f \in written : f <= i
    /\ persisted # NoSummary => written = {}
    /\ pc \in Finishing /\ draft.outcome = "workspace_changed" => written = {}
    /\ ChangedMeansRolledBack

-----------------------------------------------------------------------------
(* Lemmas *)

LEMMA WindowStep == TypeOK /\ IndexInv /\ WindowInv /\ [Next]_vars => WindowInv'
<1> SUFFICES ASSUME TypeOK, IndexInv, WindowInv, [Next]_vars PROVE WindowInv'
  OBVIOUS
<1> USE NAssumption
        DEF TypeOK, IndexInv, WindowInv, Files, disk, local, counts, ghosts, Return, Finish, Goto
<1>1. CASE Call \/ ReadNext \/ ReadFails
  BY <1>1 DEF Call, ReadNext, ReadFails
<1>2. CASE DecideUnknown \/ DecideMixed \/ DecideAllAfter \/ DecideReplay \/ DecideApply
  BY <1>2
     DEF DecideUnknown, DecideMixed, DecideAllAfter, DecideReplay, DecideApply, PreimageStep
<1>3. CASE PreimageArtifact \/ PreimageMark
  BY <1>3 DEF PreimageArtifact, PreimageMark
<1>4. CASE CheckHash
  BY <1>4 DEF CheckHash, HashMatches, StartUndo
<1>5. CASE ReplaceFile \/ SyncDirectory \/ ReplaceFault \/ SyncFault
  BY <1>5 DEF ReplaceFile, SyncDirectory, ReplaceFault, SyncFault, StartUndo
<1>6. CASE UndoDone \/ UndoCheck \/ UndoReplace \/ UndoSync \/ UndoFault
  BY <1>6 DEF UndoDone, UndoCheck, HashMatches, UndoMismatch, UndoReplace, UndoSync, UndoFault
<1>7. CASE FinishReplay \/ PersistSummary \/ PersistMark \/ LedgerFault \/ Crash
  BY <1>7 DEF FinishReplay, PersistSummary, PersistMark, LedgerFault, Crash
<1>8. CASE \E f \in Files, c \in Contents : Edit(f, c)
  BY <1>8 DEF Edit
<1>9. CASE UNCHANGED vars
  BY <1>9 DEF vars
<1> QED
  BY NextCases, <1>1, <1>2, <1>3, <1>4, <1>5, <1>6, <1>7, <1>8, <1>9

\* A call answers what the ledger says, or what it writes there.
LEMMA AgreeStep == IInv /\ AgreeInv /\ [Next]_vars => AgreeInv'
<1> SUFFICES ASSUME IInv, AgreeInv, [Next]_vars PROVE AgreeInv'
  OBVIOUS
<1> USE NAssumption, Constants, UnreadType
        DEF IInv, TypeOK, IndexInv, LedgerInv, AgreeInv, ReplayAgrees, Unedited, Success, Files,
            Replacing, Undoing, Finishing, Classify, Outcomes,
            disk, local, counts, ghosts, Return, Finish, Goto
<1>1. CASE Call
  BY <1>1 DEF Call, Loaded, AfterInv
<1>2. CASE ReadNext
  BY <1>2 DEF ReadNext
<1>3. CASE ReadFails
  BY <1>3 DEF ReadFails
<1>4. CASE DecideUnknown
  BY <1>4 DEF DecideUnknown, Observed
<1>5. CASE DecideMixed
  BY <1>5 DEF DecideMixed, Observed
<1>6. CASE DecideAllAfter
  BY <1>6 DEF DecideAllAfter
<1>7. CASE DecideReplay
  BY <1>7, ObservedAll DEF DecideReplay, ReplaySummary
<1>8. CASE DecideApply
  BY <1>8 DEF DecideApply, PreimageStep
<1>9. CASE PreimageArtifact \/ PreimageMark
  BY <1>9 DEF PreimageArtifact, PreimageMark
<1>10. CASE CheckHash
  BY <1>10 DEF CheckHash, HashMatches, StartUndo
<1>11. CASE ReplaceFile
  BY <1>11 DEF ReplaceFile
<1>12. CASE SyncDirectory
  BY <1>12 DEF SyncDirectory
<1>13. CASE ReplaceFault \/ SyncFault
  BY <1>13 DEF ReplaceFault, SyncFault, StartUndo
<1>14. CASE UndoDone \/ UndoCheck \/ UndoSync \/ UndoFault
  BY <1>14 DEF UndoDone, UndoCheck, HashMatches, UndoMismatch, UndoSync, UndoFault
<1>15. CASE UndoReplace
  BY <1>15 DEF UndoReplace
<1>16. CASE FinishReplay
  BY <1>16 DEF FinishReplay, Reconcile
<1>17. CASE PersistSummary
  BY <1>17 DEF PersistSummary, AfterInv
<1>18. CASE PersistMark
  BY <1>18 DEF PersistMark
<1>19. CASE LedgerFault
  BY <1>19 DEF LedgerFault
<1>20. CASE Crash
  BY <1>20 DEF Crash
<1>21. CASE \E f \in Files, c \in Contents : Edit(f, c)
  BY <1>21 DEF Edit
<1>22. CASE UNCHANGED vars
  BY <1>22 DEF vars
<1> QED
  BY NextCases, <1>1, <1>2, <1>3, <1>4, <1>5, <1>6, <1>7, <1>8, <1>9, <1>10, <1>11, <1>12,
     <1>13, <1>14, <1>15, <1>16, <1>17, <1>18, <1>19, <1>20, <1>21, <1>22

\* A rename, its fsync and their undoing move the index over one file each.
LEMMA QuietStep == IInv /\ AgreeInv /\ QuietInv /\ [Next]_vars => QuietInv'
<1> SUFFICES ASSUME IInv, AgreeInv, QuietInv, [Next]_vars PROVE QuietInv'
  OBVIOUS
<1> USE NAssumption, Constants, UnreadType
        DEF IInv, TypeOK, IndexInv, AgreeInv, QuietInv, Unedited, Files, Stray,
            Replacing, Undoing, Classify, disk, local, counts, ghosts, Return, Finish, Goto
<1>1. CASE Call
  BY <1>1 DEF Call, Loaded, AfterInv
<1>2. CASE ReadNext
  BY <1>2 DEF ReadNext
<1>3. CASE ReadFails
  BY <1>3 DEF ReadFails
<1>4. CASE DecideUnknown \/ DecideMixed
  BY <1>4 DEF DecideUnknown, DecideMixed, Observed
<1>5. CASE DecideAllAfter
  BY <1>5 DEF DecideAllAfter
<1>6. CASE DecideReplay
  BY <1>6 DEF DecideReplay
<1>7. CASE DecideApply
  <2>1. \A f \in Files : states[f] = "before"
    BY <1>7, ObservedAll DEF DecideApply
  <2>2. CASE preimages = "written"
    BY <1>7, <2>2 DEF DecideApply
  <2>3. CASE preimages # "written"
    <3>1. /\ pc = "decide" /\ pc' \in {"preimages", "check"}
          /\ UNCHANGED <<ws, i, states, edits>>
      BY <1>7, <2>3 DEF DecideApply, PreimageStep
    <3> QED
      BY <2>1, <3>1
  <2> QED
    BY <2>2, <2>3
<1>8. CASE PreimageArtifact \/ PreimageMark
  BY <1>8 DEF PreimageArtifact, PreimageMark, AfterInv
<1>9. CASE CheckHash
  BY <1>9 DEF CheckHash, HashMatches, StartUndo
<1>10. CASE ReplaceFile
  BY <1>10 DEF ReplaceFile
<1>11. CASE SyncDirectory
  BY <1>11 DEF SyncDirectory
<1>12. CASE ReplaceFault
  BY <1>12 DEF ReplaceFault, StartUndo, AfterInv
<1>13. CASE SyncFault
  BY <1>13 DEF SyncFault, StartUndo, AfterInv
<1>14. CASE UndoDone
  BY <1>14 DEF UndoDone, LedgerInv
<1>15. CASE UndoCheck
  BY <1>15 DEF UndoCheck, HashMatches, UndoMismatch
<1>16. CASE UndoReplace
  BY <1>16 DEF UndoReplace
<1>17. CASE UndoSync \/ UndoFault
  BY <1>17 DEF UndoSync, UndoFault
<1>18. CASE FinishReplay \/ PersistSummary \/ PersistMark
  BY <1>18 DEF FinishReplay, PersistSummary, PersistMark
<1>19. CASE LedgerFault \/ Crash
  BY <1>19 DEF LedgerFault, Crash
<1>20. CASE \E f \in Files, c \in Contents : Edit(f, c)
  BY <1>20 DEF Edit
<1>21. CASE UNCHANGED vars
  BY <1>21 DEF vars
<1> QED
  BY NextCases, <1>1, <1>2, <1>3, <1>4, <1>5, <1>6, <1>7, <1>8, <1>9, <1>10, <1>11, <1>12,
     <1>13, <1>14, <1>15, <1>16, <1>17, <1>18, <1>19, <1>20, <1>21

\* A call turns to its rollback only at a mismatch, which takes an edit, or when a
\* write or an fsync fails.
LEMMA BlameStep ==
    ASSUME IoFaults \subseteq {"ledger"}
    PROVE  IInv /\ AgreeInv /\ QuietInv /\ BlameInv /\ [Next]_vars => BlameInv'
<1> SUFFICES ASSUME IInv, AgreeInv, QuietInv, BlameInv, [Next]_vars PROVE BlameInv'
  OBVIOUS
<1> USE NAssumption, Constants
        DEF IInv, TypeOK, IndexInv, BlameInv, Unedited, Success, Undoing,
            disk, local, counts, ghosts, Return, Finish, Goto
<1>1. CASE Call \/ ReadNext
  BY <1>1 DEF Call, Loaded, ReadNext
<1>2. CASE ReadFails \/ DecideUnknown
  <2>1. ~Unedited
    BY <1>2 DEF ReadFails, DecideUnknown, Observed, QuietInv
  <2> QED
    BY <1>2, <2>1 DEF ReadFails, DecideUnknown
<1>3. CASE DecideMixed \/ DecideAllAfter
  BY <1>3 DEF DecideMixed, DecideAllAfter
<1>4. CASE DecideReplay
  <2>1. /\ pc = "decide" /\ persisted = recorded /\ ledger = "complete"
        /\ \A f \in Files : states[f] = "before"
    BY <1>4, ObservedAll DEF DecideReplay, LedgerInv
  <2>2. Unedited => persisted.outcome \notin Success
    <3>1. 1 \in Files /\ (Unedited => ws[1] = "before")
      BY <2>1 DEF Files, QuietInv
    <3> QED
      BY <2>1, <3>1 DEF AgreeInv
  <2> QED
    BY <1>4, <2>2 DEF DecideReplay, ReplaySummary
<1>5. CASE DecideApply \/ PreimageArtifact \/ PreimageMark
  BY <1>5 DEF DecideApply, PreimageStep, PreimageArtifact, PreimageMark
<1>6. CASE CheckHash
  <2>1. Unedited => HashMatches("before")
    BY <1>6 DEF CheckHash, HashMatches, QuietInv, Files
  <2> QED
    BY <1>6, <2>1 DEF CheckHash, StartUndo
<1>7. CASE ReplaceFile \/ SyncDirectory
  BY <1>7 DEF ReplaceFile, SyncDirectory
<1>8. CASE ReplaceFault \/ SyncFault \/ UndoFault
  BY <1>8 DEF ReplaceFault, SyncFault, UndoFault
<1>9. CASE UndoDone \/ UndoCheck \/ UndoSync \/ UndoReplace
  BY <1>9 DEF UndoDone, UndoCheck, UndoMismatch, UndoSync, UndoReplace
<1>10. CASE FinishReplay
  BY <1>10 DEF FinishReplay, Reconcile
<1>11. CASE PersistSummary \/ PersistMark
  BY <1>11 DEF PersistSummary, PersistMark
<1>12. CASE LedgerFault \/ Crash
  BY <1>12 DEF LedgerFault, Crash
<1>13. CASE \E f \in Files, c \in Contents : Edit(f, c)
  BY <1>13 DEF Edit
<1>14. CASE UNCHANGED vars
  BY <1>14 DEF vars
<1> QED
  BY NextCases, <1>1, <1>2, <1>3, <1>4, <1>5, <1>6, <1>7, <1>8, <1>9, <1>10, <1>11, <1>12,
     <1>13, <1>14

LEMMA UndoStep ==
    ASSUME "sync" \notin IoFaults
    PROVE  IInv /\ AgreeInv /\ UndoInv /\ [Next]_vars => UndoInv'
<1> SUFFICES ASSUME IInv, AgreeInv, UndoInv, [Next]_vars PROVE UndoInv'
  OBVIOUS
<1> USE NAssumption, Constants, UnreadType
        DEF IInv, TypeOK, IndexInv, LogInv, UndoInv, ChangedMeansRolledBack, Files,
            Replacing, Undoing, Finishing,
            disk, local, counts, ghosts, Return, Finish, Goto
<1>1. CASE Call
  BY <1>1 DEF Call, Loaded
<1>2. CASE ReadNext \/ ReadFails
  BY <1>2 DEF ReadNext, ReadFails
<1>3. CASE DecideUnknown \/ DecideMixed \/ DecideAllAfter
  BY <1>3 DEF DecideUnknown, DecideMixed, DecideAllAfter
<1>4. CASE DecideReplay \/ DecideApply
  BY <1>4 DEF DecideReplay, ReplaySummary, DecideApply, PreimageStep
<1>5. CASE PreimageArtifact \/ PreimageMark
  BY <1>5 DEF PreimageArtifact, PreimageMark
<1>6. CASE CheckHash
  BY <1>6 DEF CheckHash, HashMatches, StartUndo
<1>7. CASE ReplaceFile
  BY <1>7 DEF ReplaceFile, LedgerInv, AgreeInv
<1>8. CASE SyncDirectory
  BY <1>8 DEF SyncDirectory
<1>9. CASE ReplaceFault \/ SyncFault
  <2>1. CASE ReplaceFault
    BY <2>1 DEF ReplaceFault, StartUndo
  <2>2. CASE SyncFault
    BY <2>2 DEF SyncFault
  <2> QED
    BY <1>9, <2>1, <2>2
<1>10. CASE UndoDone
  BY <1>10 DEF UndoDone
<1>11. CASE UndoCheck \/ UndoSync \/ UndoFault
  <2>1. CASE UndoCheck
    BY <2>1 DEF UndoCheck, HashMatches, UndoMismatch
  <2>2. CASE UndoSync
    BY <2>2 DEF UndoSync
  <2>3. CASE UndoFault
    BY <2>3 DEF UndoFault
  <2> QED
    BY <1>11, <2>1, <2>2, <2>3
<1>12. CASE UndoReplace
  BY <1>12 DEF UndoReplace
<1>13. CASE FinishReplay
  BY <1>13 DEF FinishReplay, Reconcile
<1>14. CASE PersistSummary \/ PersistMark
  BY <1>14 DEF PersistSummary, PersistMark
<1>15. CASE LedgerFault \/ Crash
  BY <1>15 DEF LedgerFault, Crash
<1>16. CASE \E f \in Files, c \in Contents : Edit(f, c)
  BY <1>16 DEF Edit
<1>17. CASE UNCHANGED vars
  BY <1>17 DEF vars
<1> QED
  BY NextCases, <1>1, <1>2, <1>3, <1>4, <1>5, <1>6, <1>7, <1>8, <1>9, <1>10, <1>11, <1>12,
     <1>13, <1>14, <1>15, <1>16, <1>17

\* The bound at each point, before and after a step.
LEMMA StepsLeftAt ==
    /\ pc = "idle" => StepsLeft = 0
    /\ pc = "persist_mark" => StepsLeft = 1
    /\ pc = "finish" => StepsLeft = 2
    /\ pc = "undo_sync" => StepsLeft = 3 * i + 1
    /\ pc = "undo_replace" => StepsLeft = 3 * i + 2
    /\ pc = "undo" => StepsLeft = 3 * i + 3
    /\ pc = "sync" => StepsLeft = 3 * (2 * N - i) + 4
    /\ pc = "replace" => StepsLeft = 3 * (2 * N - i) + 5
    /\ pc = "check" => StepsLeft = 3 * (2 * N - i) + 6
    /\ pc = "preimages_mark" => StepsLeft = 6 * N + 4
    /\ pc = "preimages" => StepsLeft = 6 * N + 5
    /\ pc = "decide" => StepsLeft = 6 * N + 6
    /\ pc = "read" => StepsLeft = 7 * N + 7 - i
    /\ pc' = "idle" => StepsLeft' = 0
    /\ pc' = "persist_mark" => StepsLeft' = 1
    /\ pc' = "finish" => StepsLeft' = 2
    /\ pc' = "undo_sync" => StepsLeft' = 3 * i' + 1
    /\ pc' = "undo_replace" => StepsLeft' = 3 * i' + 2
    /\ pc' = "undo" => StepsLeft' = 3 * i' + 3
    /\ pc' = "sync" => StepsLeft' = 3 * (2 * N - i') + 4
    /\ pc' = "replace" => StepsLeft' = 3 * (2 * N - i') + 5
    /\ pc' = "check" => StepsLeft' = 3 * (2 * N - i') + 6
    /\ pc' = "preimages_mark" => StepsLeft' = 6 * N + 4
    /\ pc' = "preimages" => StepsLeft' = 6 * N + 5
    /\ pc' = "decide" => StepsLeft' = 6 * N + 6
    /\ pc' = "read" => StepsLeft' = 7 * N + 7 - i'
  BY DEF StepsLeft

-----------------------------------------------------------------------------
(* Theorems *)

LEMMA InitAnswers == Init => WindowInv /\ AgreeInv /\ QuietInv /\ BlameInv /\ UndoInv
<1> SUFFICES ASSUME Init PROVE WindowInv /\ AgreeInv /\ QuietInv /\ BlameInv /\ UndoInv
  OBVIOUS
<1> USE NAssumption, Constants, UnreadType DEF Init, Files, Success, Undoing, Finishing
<1>1. WindowInv /\ AgreeInv
  BY DEF WindowInv, AgreeInv, ReplayAgrees, Outcomes
<1>2. QuietInv
  BY DEF QuietInv
<1>3. BlameInv /\ UndoInv
  BY DEF BlameInv, UndoInv, ChangedMeansRolledBack
<1> QED
  BY <1>1, <1>2, <1>3

\* _atomic_replace_text: an edit is lost only when it falls between the hash
\* check of that very file and the rename over it, whatever else fails.
THEOREM EditsSeen == Spec => EditsLostOnlyInWindow
<1> DEFINE Seen == edits' = edits =>
                     \A f \in Files : ws'[f] # ws[f] => ws[f] \in {"before", "after"} \/ f \in late
<1>1. IInv /\ WindowInv /\ [Next]_vars => [Seen]_vars
  <2> SUFFICES ASSUME IInv, WindowInv, [Next]_vars PROVE [Seen]_vars
    OBVIOUS
  <2>1. CASE ReplaceFile \/ UndoReplace
    BY <2>1 DEF ReplaceFile, UndoReplace, WindowInv, IInv, TypeOK, IndexInv
  <2>2. CASE \E f \in Files, c \in Contents : Edit(f, c)
    BY <2>2 DEF Edit, IInv, TypeOK
  <2>3. CASE UNCHANGED ws
    BY <2>3
  <2>4. CASE UNCHANGED vars
    BY <2>4 DEF vars, disk
  <2> QED
    BY <2>1, <2>2, <2>3, <2>4, NextCases
       DEF Call, ReadNext, ReadFails, DecideUnknown, DecideMixed, DecideAllAfter,
           DecideReplay, DecideApply, PreimageArtifact, PreimageMark, CheckHash,
           SyncDirectory, ReplaceFault, SyncFault, UndoDone, UndoCheck, UndoSync,
           UndoFault, FinishReplay, PersistSummary, PersistMark, LedgerFault, Crash, disk
<1>2. IInv /\ WindowInv /\ [Next]_vars => WindowInv'
  BY WindowStep DEF IInv
<1> QED
  BY <1>1, <1>2, InitAnswers, Invariance, PTL DEF Spec, EditsLostOnlyInWindow

\* _persist_apply_summary, _replay_apply_summary: while nobody edits, a complete
\* ledger of a success speaks of files that are all at the approved content.
THEOREM Agreement == Spec => []AgreeInv
  BY InitAnswers, AgreeStep, Invariance, PTL DEF Spec

\* _replay_apply_summary, _finish_apply_check: while nobody edits, every call that
\* answers agrees with the summary in the complete ledger, also after crashes and
\* when system calls fail.
THEOREM RepeatedCallsAgree == Spec => []ReplayAgrees
<1>1. AgreeInv => ReplayAgrees
  BY DEF AgreeInv
<1> QED
  BY <1>1, Agreement, PTL

\* apply_once's index: while nobody edits, the replacements before the one a call
\* is at are done, those after it are not, and a rollback that ends leaves none
\* of them but one whose fsync failed, under every set of faults.
THEOREM Progress == Spec => []QuietInv
  BY InitAnswers, QuietStep, Agreement, Invariance, PTL DEF Spec

\* Crashes and retries never make apply_once answer workspace_changed by
\* themselves: when replacing and syncing files succeed, somebody has edited.
\* The files of the ledger may even fail to be written.
THEOREM BlameIsEarned ==
    ASSUME IoFaults \subseteq {"ledger"}
    PROVE  Spec => []ChangedMeansEdited
<1>1. BlameInv /\ IInv => ChangedMeansEdited
  BY DEF BlameInv, Unedited, ChangedMeansEdited, IInv, TypeOK
<1>2. IInv /\ AgreeInv /\ QuietInv /\ BlameInv /\ [Next]_vars => BlameInv'
  BY BlameStep
<1> QED
  BY <1>1, <1>2, InitAnswers, Agreement, Progress, Invariance, PTL DEF Spec

\* apply_once's rollback: workspace_changed means that no replaced file is left,
\* through failing writes and ledgers, as long as no fsync of a directory fails.
THEOREM RollbackIsComplete ==
    ASSUME "sync" \notin IoFaults
    PROVE  Spec => []ChangedMeansRolledBack
<1>1. UndoInv => ChangedMeansRolledBack
  BY DEF UndoInv
<1>2. IInv /\ AgreeInv /\ UndoInv /\ [Next]_vars => UndoInv'
  BY UndoStep
<1> QED
  BY <1>1, <1>2, InitAnswers, Agreement, Invariance, PTL DEF Spec

\* apply_once's loops, over the files and back: each step of a call but somebody's
\* edit leaves fewer steps to take, under every set of faults, which is what
\* CallsEnd rests on.
THEOREM CallsGoForward == Spec => CallsAdvance
<1> DEFINE Forward == (pc # "idle" /\ edits' = edits) => StepsLeft' \in 0 .. StepsLeft - 1
<1>1. IInv /\ [Next]_vars => [Forward]_vars
  <2> SUFFICES ASSUME IInv, Next PROVE Forward
    OBVIOUS
  <2> USE NAssumption, StepsLeftAt DEF IInv, TypeOK, IndexInv, Files, Return, Finish, Goto
  <2>1. CASE Call
    BY <2>1 DEF Call
  <2>2. CASE ReadNext \/ ReadFails
    BY <2>2 DEF ReadNext, ReadFails
  <2>3. CASE DecideUnknown \/ DecideMixed \/ DecideAllAfter \/ DecideReplay
    BY <2>3 DEF DecideUnknown, DecideMixed, DecideAllAfter, DecideReplay
  <2>4. CASE DecideApply
    BY <2>4 DEF DecideApply, PreimageStep
  <2>5. CASE PreimageArtifact \/ PreimageMark
    BY <2>5 DEF PreimageArtifact, PreimageMark
  <2>6. CASE CheckHash
    BY <2>6 DEF CheckHash, StartUndo
  <2>7. CASE ReplaceFile \/ SyncDirectory
    BY <2>7 DEF ReplaceFile, SyncDirectory
  <2>8. CASE ReplaceFault \/ SyncFault
    BY <2>8 DEF ReplaceFault, SyncFault, StartUndo
  <2>9. CASE UndoDone \/ UndoReplace \/ UndoSync
    BY <2>9 DEF UndoDone, UndoReplace, UndoSync
  <2>10. CASE UndoCheck \/ UndoFault
    BY <2>10 DEF UndoCheck, UndoMismatch, UndoFault
  <2>11. CASE FinishReplay \/ PersistSummary \/ PersistMark
    BY <2>11 DEF FinishReplay, PersistSummary, PersistMark
  <2>12. CASE LedgerFault \/ Crash
    <3>1. StepsLeft \in Nat \ {0}
      <4>1. i \in 0 .. N /\ pc \in Points /\ pc # "idle"
        BY <2>12 DEF LedgerFault, Crash, Finishing
      <4> QED
        BY <4>1 DEF Points, Replacing, Undoing, Finishing
    <3>2. StepsLeft' = 0
      BY <2>12 DEF LedgerFault, Crash
    <3> QED
      BY <3>1, <3>2
  <2>13. CASE \E f \in Files, c \in Contents : Edit(f, c)
    BY <2>13 DEF Edit
  <2> QED
    BY NextCases, <2>1, <2>2, <2>3, <2>4, <2>5, <2>6, <2>7, <2>8, <2>9, <2>10, <2>11, <2>12,
       <2>13 DEF Next, Step, Classification, Application, Rollback, Conclusion
<1> QED
  BY <1>1, Invariance, PTL DEF Spec, CallsAdvance
=============================================================================
