------------------------ MODULE CandidateChainProofs ------------------------
(***************************************************************************)
(* What a Run hands on from attempt to attempt, for any number of files,   *)
(* texts and attempts, any limits, and any edits and crashes.              *)
(***************************************************************************)
EXTENDS CandidateChain, FiniteSetTheorems, TLAPS

(***************************************************************************)
(* The inductive invariant, part by part.                                  *)
(***************************************************************************)

Persisted  == {"gate"} \cup Applying \cup Finished
Validating == {"validate"} \cup Persisted
Swapping   == {"check", "replace", "undo", "undo_replace"}

\* A file is in the diff only when it was acceptable, and its hash is that of
\* the text the model read.
Shown(f) ==
    shown[f] # Same =>
        /\ f \in paths /\ f \in Editable
        /\ shown[f] = <<expected[f], proposed[f]>>
        /\ readHashes[f] = expected[f] /\ expected[f] # proposed[f]

Candidates ==
    /\ \A f \in Files : Shown(f)
    /\ pc = "model" => shown = NoDiff
    /\ pc \in Validating =>
          /\ paths # {}
          /\ \A f \in paths : expected[f] # None /\ proposed[f] # None
          /\ \A f \in Files \ paths : expected[f] = None
    /\ pc \in Persisted => paths = Validated

\* What a call of apply_once has read and replaced; whatever it goes on to do is
\* within the limit.
Calling ==
    /\ pc \notin {"apply", "ended"} => states = Unseen
    /\ pc = "apply" => WithinLimit \/ states = Unseen
    /\ pc \in {"check", "replace", "record"} => WithinLimit
    /\ changed \subseteq paths
    /\ pc \notin Swapping \cup {"record", "ended"} => changed = {}

\* Whatever has a preimage, or is in the diff, was listed before the attempt or
\* is of its candidate, and is listed again as soon as that is applied.
Listing ==
    /\ listed \subseteq filesChanged
    /\ pc = "model" => paths = {}
    /\ \A a \in Attempts, f \in Files : preimages[a][f] # None => f \in listed \cup paths
    /\ \A d \in cumulative, f \in Files : d[f] # Same => f \in listed \cup paths
    /\ pc \in Finished => paths \subseteq filesChanged
    /\ Cardinality(filesChanged) <= MAX_FILES_CHANGED /\ Cardinality(listed) <= MAX_FILES_CHANGED

\* The preimages of the attempt in progress are what its candidate expects.
Preimages ==
    /\ \A a \in Attempts : a > attempt => preimages[a] = Unread
    /\ pc \in {"model", "validate", "gate"} => preimages[attempt] = Unread
    /\ pc \in Persisted => preimages[attempt] \in {Unread, expected}
    /\ pc \in Swapping => preimages[attempt] = expected
    /\ pc \in {"record"} \cup Finished /\ ~byHand => preimages[attempt] # Unread

\* The first text recorded of a file is the preimage of its first attempt.
IsFirst(f, a) ==
    /\ preimages[a][f] # None /\ first[f] = preimages[a][f]
    /\ \A b \in 1 .. attempt : preimages[b][f] # None => a <= b

Firsts ==
    /\ \A f \in Files :
          \/ first[f] = None /\ \A a \in 1 .. attempt : preimages[a][f] = None
          \/ \E a \in 1 .. attempt : IsFirst(f, a)
    /\ (cumulative # {} => passed) /\ (passed => applied)
    /\ (pc \in Finished => applied) /\ (pc \in {"cumulative", "succeeded"} => passed)
    /\ ~byHand => \A d \in cumulative, f \in Files : d[f] # Same => d[f][1] = first[f]

\* A file that nobody edited in this attempt is as it was, or as it is proposed.
Undisturbed(f) ==
    /\ ws[f] # was[f] => f \in Validated /\ ws[f] = proposed[f]
    /\ f \in Validated => expected[f] = was[f]
    /\ preimages[attempt] = Unread => ws[f] = was[f]
    /\ pc = "apply" => states[f] \in {"unread", Seen(f)}
    /\ pc \in Swapping /\ f \in changed => ws[f] = proposed[f]
    /\ pc \in {"record"} \cup Finished /\ f \in paths => ws[f] = proposed[f]

Kept == \A f \in Files \ touched : Undisturbed(f)

\* While nobody edits, a file the program has not set out to replace is as it
\* was copied.
Untouched ==
    edits = 0 =>
        /\ ~byHand /\ touched = {}
        /\ \A f \in Files : first[f] = None => ws[f] = source[f]
        /\ \A f \in Files : first[f] # None => first[f] = source[f]

\* A file about to be replaced is what it was found to be, or was edited since.
Window ==
    \A f \in Files \ late :
        /\ pc = "replace" /\ NextFile(f) => ws[f] = expected[f]
        /\ pc = "undo_replace" /\ LastFile(f) => ws[f] = proposed[f]

IInv ==
    /\ TypeOK /\ Candidates /\ Calling /\ Listing /\ Preimages /\ Firsts /\ Kept /\ Untouched
    /\ Window /\ CumulativeIsAggregate

-----------------------------------------------------------------------------
\* The steps of a Run: whatever gives it up does nothing but that.
LEMMA Steps ==
    ASSUME [Next]_vars
    PROVE  \/ \E f \in Files : \/ ReadFile(f) \/ ValidateFile(f) \/ Classify(f) \/ Edit(f)
                               \/ CheckFile(f) \/ UndoCheck(f) \/ ReplaceFile(f) \/ UndoReplace(f)
           \/ Propose \/ PersistCandidate \/ Approve \/ PersistPreimages \/ AlreadyApplied
           \/ ReplaceFails \/ Record \/ NextAttempt \/ Passed \/ PersistCumulative \/ Crash
           \/ End \/ UNCHANGED vars
  BY DEF Next, Model, Validation, Apply, Replacing, RollBack, Outcome, RefuseFile, RefuseContent,
         Reject, RefuseApply, UndoFails, Undone, RecordFails, Exhausted, CumulativeMismatch

\* setdefault keeps the text of the first attempt: what Preimage chooses.
LEMMA PreimageIsFirst ==
    ASSUME TypeOK, Firsts, NEW f \in Files
    PROVE  Preimage(f) = first[f]
  <1> USE ChainAssumption DEF Attempts
  <1>1. CASE first[f] = None /\ \A a \in 1 .. attempt : preimages[a][f] = None
    BY <1>1 DEF Preimage, HasPreimage
  <1>2. ASSUME NEW a \in 1 .. attempt, IsFirst(f, a)
        PROVE  Preimage(f) = first[f]
    <2>1. a \in HasPreimage(f) /\ \A b \in HasPreimage(f) : a <= b
      BY <1>2 DEF HasPreimage, IsFirst
    <2>2. \A c \in HasPreimage(f) : (\A b \in HasPreimage(f) : c <= b) => c = a
      BY <2>1 DEF HasPreimage, TypeOK
    <2>3. (CHOOSE c \in HasPreimage(f) : \A b \in HasPreimage(f) : c <= b) = a
      BY <2>1, <2>2
    <2> QED
      BY <1>2, <2>1, <2>3 DEF Preimage, IsFirst
  <1> QED
    BY <1>1, <1>2 DEF Firsts

\* What is persisted, in terms of the texts recorded.
LEMMA DiffFromFirst ==
    ASSUME TypeOK, Firsts,
           \E f \in Files : first[f] # None
    PROVE  CumulativeDiff = [f \in Files |-> IF first[f] \in {None, ws[f]} THEN Same
                                             ELSE <<first[f], ws[f]>>]
  BY PreimageIsFirst DEF CumulativeDiff

\* A Run that applied its candidate itself has recorded a text.
LEMMA SomeFirst ==
    ASSUME TypeOK, Preimages, Firsts, pc \in Finished, ~byHand
    PROVE  \E f \in Files : first[f] # None
  <1> USE ChainAssumption DEF Attempts
  <1>1. preimages[attempt] # Unread /\ preimages[attempt] \in [Files -> Maybe]
    BY DEF Preimages, TypeOK
  <1>2. PICK f \in Files : preimages[attempt][f] # None
    BY <1>1 DEF Unread
  <1>3. attempt \in 1 .. attempt
    BY DEF TypeOK
  <1> QED
    BY <1>2, <1>3 DEF Firsts, IsFirst

\* Every file of an application that has been decided on was read, within the limit.
LEMMA Decided ==
    ASSUME IInv, pc = "apply", AllBefore \/ AllAfter
    PROVE  /\ WithinLimit /\ paths = Validated /\ paths # {} /\ expected # Unread
           /\ \A f \in paths : f \in Files /\ states[f] # "unread" /\ expected[f] # None
  <1>1. /\ paths = Validated /\ paths # {} /\ paths \subseteq Files
        /\ \A f \in paths : expected[f] # None
    BY DEF IInv, TypeOK, Candidates, Persisted, Validating, Applying
  <1>2. \A f \in paths : states[f] # "unread"
    BY DEF AllBefore, AllAfter
  <1>3. states # Unseen /\ expected # Unread
    BY <1>1, <1>2 DEF Unseen, Unread
  <1> QED
    BY <1>1, <1>2, <1>3 DEF IInv, Calling

\* Every step keeps the types.
LEMMA TypeStep == IInv /\ [Next]_vars => TypeOK'
  <1> SUFFICES ASSUME IInv, [Next]_vars PROVE TypeOK'
    OBVIOUS
  <1> USE ChainAssumption DEF Files, Texts, Attempts, Maybe, None
  <1>1. ASSUME NEW f \in Files, ReadFile(f) PROVE TypeOK'
    BY <1>1 DEF ReadFile, NoEnv, edited, durable, call, seen, TypeOK, IInv, Points, Applying,
       Finished
  <1>2. CASE Propose
    BY <1>2 DEF Propose, Goto, NoEnv, edited, durable, call, seen, TypeOK, IInv, Points, Applying,
       Finished
  <1>3. ASSUME NEW f \in Files, ValidateFile(f) PROVE TypeOK'
    <2>1. <<ws[f], proposed[f]>> \in Maybe \X Maybe
      BY DEF IInv, TypeOK
    <2> QED
      BY <1>3, <2>1 DEF ValidateFile, NoEnv, edited, durable, call, seen, TypeOK, IInv, Points,
         Diffs
  <1>4. CASE PersistCandidate
    BY <1>4 DEF PersistCandidate, Goto, NoEnv, edited, candidate, durable, call, seen, TypeOK,
       IInv, Points, Applying, Finished
  <1>5. CASE Approve
    BY <1>5 DEF Approve, Goto, NoEnv, edited, candidate, durable, call, seen, TypeOK, IInv,
       Points, Applying, Finished
  <1>6. ASSUME NEW f \in Files, Classify(f) PROVE TypeOK'
    BY <1>6 DEF Classify, NoEnv, edited, candidate, durable, seen, TypeOK, IInv, Points, Applying,
       Finished, Seen
  <1>7. CASE PersistPreimages
    BY <1>7 DEF PersistPreimages, Goto, NoEnv, edited, candidate, TypeOK, IInv, Points, Applying,
       Finished, Unseen
  <1>8. CASE AlreadyApplied
    BY <1>8 DEF AlreadyApplied, Goto, NoEnv, edited, candidate, durable, TypeOK, IInv, Points,
       Applying, Finished, Unseen
  <1>9. ASSUME NEW f \in Files, CheckFile(f) PROVE TypeOK'
    BY <1>9 DEF CheckFile, Checked, Goto, candidate, durable, call, seen, TypeOK, IInv, Points,
       Applying, Finished
  <1>10. ASSUME NEW f \in Files, UndoCheck(f) PROVE TypeOK'
    BY <1>10 DEF UndoCheck, Checked, Goto, candidate, durable, call, seen, TypeOK, IInv, Points,
       Applying, Finished
  <1>11. ASSUME NEW f \in Files, ReplaceFile(f) PROVE TypeOK'
    <2>1. f \in paths /\ proposed[f] \in Texts
      BY <1>11 DEF ReplaceFile, NextFile, IInv, TypeOK, Candidates, Validating, Persisted, Applying
    <2>2. ws' \in [Files -> Texts] /\ changed' \subseteq Files
      BY <1>11, <2>1 DEF ReplaceFile, Renamed, IInv, TypeOK
    <2> QED
      BY <1>11, <2>2 DEF ReplaceFile, Renamed, Goto, NoEnv, edited, candidate, durable, seen,
         TypeOK, IInv, Points, Applying
  <1>12. ASSUME NEW f \in Files, UndoReplace(f) PROVE TypeOK'
    <2>1. expected[f] \in Texts
      BY <1>12 DEF UndoReplace, LastFile, IInv, TypeOK, Candidates, Validating, Persisted,
         Applying, Calling
    <2>2. ws' \in [Files -> Texts] /\ changed' \subseteq Files
      BY <1>12, <2>1 DEF UndoReplace, Renamed, IInv, TypeOK
    <2> QED
      BY <1>12, <2>2 DEF UndoReplace, Renamed, Goto, NoEnv, edited, candidate, durable, seen,
         TypeOK, IInv, Points, Applying
  <1>13. CASE ReplaceFails
    BY <1>13 DEF ReplaceFails, Goto, NoEnv, edited, candidate, durable, call, seen, TypeOK, IInv,
       Points, Applying, Finished
  <1>14. CASE Record
    BY <1>14 DEF Record, Goto, NoEnv, edited, candidate, seen, TypeOK, IInv, Points, Applying,
       Finished
  <1>15. CASE NextAttempt
    <2>1. attempt' \in 1 .. MAX_REPAIR_ATTEMPTS
      BY <1>15 DEF NextAttempt, MoreAttempts, IInv, TypeOK
    <2>2. Unread \in [Files -> Maybe] /\ NoDiff \in Diffs
      BY DEF Unread, NoDiff, Same, Diffs
    <2> QED
      BY <1>15, <2>1, <2>2 DEF NextAttempt, Goto, call, TypeOK, IInv, Points
  <1>16. CASE Passed
    BY <1>16 DEF Passed, Goto, NoEnv, edited, candidate, call, seen, TypeOK, IInv, Points,
       Applying, Finished
  <1>17. CASE PersistCumulative
    <2>1. \A f \in Files : Preimage(f) \in Maybe
      BY PreimageIsFirst DEF IInv, TypeOK
    <2>2. CumulativeDiff \in Diffs
      BY <2>1 DEF CumulativeDiff, Diffs, Same, IInv, TypeOK
    <2> QED
      BY <1>17, <2>2 DEF PersistCumulative, Goto, NoEnv, edited, candidate, call, seen, TypeOK,
         IInv, Points, Finished
  <1>18. CASE Crash
    <2>1. crashes' \in 0 .. MaxCrashes
      BY <1>18 DEF Crash, IInv, TypeOK
    <2>2. Unseen \in [Files -> {"unread", "before", "after", "unknown"}]
      BY DEF Unseen
    <2> QED
      BY <1>18, <2>1, <2>2 DEF Crash, Goto, candidate, edited, seen, TypeOK, IInv, Points, Applying
  <1>19. ASSUME NEW f \in Files, Edit(f) PROVE TypeOK'
    <2>1. PICK t \in Texts : ws' = [ws EXCEPT ![f] = t]
      BY <1>19 DEF Edit
    <2>2. ws' \in [Files -> Texts]
      BY <2>1 DEF IInv, TypeOK
    <2>3. edits' \in 0 .. MaxEdits
      BY <1>19 DEF Edit, IInv, TypeOK
    <2> QED
      BY <1>19, <2>2, <2>3 DEF Edit, candidate, durable, call, seen, TypeOK, IInv
  <1>20. CASE End
    BY <1>20 DEF End, Goto, NoEnv, edited, candidate, durable, call, seen, TypeOK, IInv, Points,
       Applying, Finished
  <1>21. CASE UNCHANGED vars
    BY <1>21 DEF vars, edited, candidate, durable, call, seen, TypeOK, IInv, Points, Applying,
       Finished
  <1> QED
    BY Steps, <1>1, <1>2, <1>3, <1>4, <1>5, <1>6, <1>7, <1>8, <1>9, <1>10, <1>11, <1>12, <1>13,
       <1>14, <1>15, <1>16, <1>17, <1>18, <1>19, <1>20, <1>21

\* What is shown is what will be written, and was read.
LEMMA CandidatesStep == IInv /\ [Next]_vars => Candidates'
  <1> SUFFICES ASSUME IInv, [Next]_vars PROVE Candidates'
    OBVIOUS
  <1> USE ChainAssumption DEF Files, Texts, Attempts, Maybe, None
  <1>1. ASSUME NEW f \in Files, ReadFile(f) PROVE Candidates'
    BY <1>1 DEF ReadFile, NoEnv, edited, durable, call, seen, IInv, Candidates, Shown, Validating,
       Persisted, Applying, Finished, Validated, NoDiff
  <1>2. CASE Propose
    <2>1. shown' = NoDiff /\ pc' = "validate"
      BY <1>2 DEF Propose, Goto, IInv, Candidates
    <2>2. \A f \in Files : Shown(f)'
      BY <2>1 DEF Shown, NoDiff
    <2>3. \A f \in Files : f \in paths' => expected'[f] # None /\ proposed'[f] # None
      BY <1>2 DEF Propose, Claims
    <2>4. \A f \in Files : f \notin paths' => expected'[f] = None
      BY <1>2 DEF Propose
    <2>5. paths' # {} /\ paths' \subseteq Files
      BY <1>2 DEF Propose
    <2> QED
      BY <2>1, <2>2, <2>3, <2>4, <2>5 DEF Candidates, Validating, Persisted, Applying, Finished
  <1>3. ASSUME NEW f \in Files, ValidateFile(f) PROVE Candidates'
    <2>1. \A g \in Files \ {f} : shown'[g] = shown[g]
      BY <1>3 DEF ValidateFile, IInv, TypeOK, Diffs
    <2>2. shown'[f] = <<ws[f], proposed[f]>>
      BY <1>3 DEF ValidateFile, IInv, TypeOK, Diffs
    <2>3. f \in paths /\ Acceptable(f)
      BY <1>3 DEF ValidateFile, IsNext
    <2>4. Shown(f)'
      BY <1>3, <2>2, <2>3 DEF ValidateFile, Acceptable, Shown
    <2>5. \A g \in Files \ {f} : Shown(g)'
      BY <1>3, <2>1 DEF ValidateFile, IInv, Candidates, Shown
    <2>6. \A g \in Files : Shown(g)'
      BY <2>4, <2>5
    <2> QED
      BY <1>3, <2>6 DEF ValidateFile, IInv, Candidates, Validating, Persisted, Applying, Finished
  <1>4. CASE PersistCandidate
    BY <1>4 DEF PersistCandidate, Goto, NoEnv, edited, candidate, durable, call, seen, IInv,
       Candidates, Shown, Validating, Persisted, Applying, Finished, Validated
  <1>5. CASE Approve
    BY <1>5 DEF Approve, Goto, NoEnv, edited, candidate, durable, call, seen, IInv, Candidates,
       Shown, Validating, Persisted, Applying, Finished, Validated
  <1>6. ASSUME NEW f \in Files, Classify(f) PROVE Candidates'
    BY <1>6 DEF Classify, NoEnv, edited, candidate, durable, seen, IInv, Candidates, Shown,
       Validating, Persisted, Applying, Finished, Validated
  <1>7. CASE PersistPreimages
    BY <1>7 DEF PersistPreimages, Goto, NoEnv, edited, candidate, IInv, Candidates, Shown,
       Validating, Persisted, Applying, Finished, Validated
  <1>8. CASE AlreadyApplied
    BY <1>8 DEF AlreadyApplied, Goto, NoEnv, edited, candidate, durable, IInv, Candidates, Shown,
       Validating, Persisted, Applying, Finished, Validated
  <1>9. ASSUME NEW f \in Files, CheckFile(f) PROVE Candidates'
    BY <1>9 DEF CheckFile, Checked, Goto, candidate, durable, call, seen, IInv, Candidates, Shown,
       Validating, Persisted, Applying, Finished, Validated
  <1>10. ASSUME NEW f \in Files, UndoCheck(f) PROVE Candidates'
    BY <1>10 DEF UndoCheck, Checked, Goto, candidate, durable, call, seen, IInv, Candidates,
       Shown, Validating, Persisted, Applying, Finished, Validated
  <1>11. ASSUME NEW f \in Files, ReplaceFile(f) PROVE Candidates'
    BY <1>11 DEF ReplaceFile, Renamed, Goto, NoEnv, edited, candidate, durable, seen, IInv,
       Candidates, Shown, Validating, Persisted, Applying, Finished, Validated
  <1>12. ASSUME NEW f \in Files, UndoReplace(f) PROVE Candidates'
    BY <1>12 DEF UndoReplace, Renamed, Goto, NoEnv, edited, candidate, durable, seen, IInv,
       Candidates, Shown, Validating, Persisted, Applying, Finished, Validated
  <1>13. CASE ReplaceFails
    BY <1>13 DEF ReplaceFails, Goto, NoEnv, edited, candidate, durable, call, seen, IInv,
       Candidates, Shown, Validating, Persisted, Applying, Finished, Validated
  <1>14. CASE Record
    BY <1>14 DEF Record, Goto, NoEnv, edited, candidate, seen, IInv, Candidates, Shown,
       Validating, Persisted, Applying, Finished, Validated
  <1>15. CASE NextAttempt
    BY <1>15 DEF NextAttempt, Goto, call, IInv, Candidates, Shown, Validating, Persisted,
       Applying, Finished, Validated, NoDiff
  <1>16. CASE Passed
    BY <1>16 DEF Passed, Goto, NoEnv, edited, candidate, call, seen, IInv, Candidates, Shown,
       Validating, Persisted, Applying, Finished, Validated
  <1>17. CASE PersistCumulative
    BY <1>17 DEF PersistCumulative, Goto, NoEnv, edited, candidate, call, seen, IInv, Candidates,
       Shown, Validating, Persisted, Applying, Finished, Validated
  <1>18. CASE Crash
    BY <1>18 DEF Crash, Goto, candidate, edited, seen, IInv, Candidates, Shown, Validating,
       Persisted, Applying, Finished, Validated
  <1>19. ASSUME NEW f \in Files, Edit(f) PROVE Candidates'
    BY <1>19 DEF Edit, candidate, durable, call, seen, IInv, Candidates, Shown, Validating,
       Persisted, Applying, Finished, Validated
  <1>20. CASE End
    BY <1>20 DEF End, Goto, NoEnv, edited, candidate, durable, call, seen, IInv, Candidates,
       Shown, Validating, Persisted, Applying, Finished, Validated
  <1>21. CASE UNCHANGED vars
    BY <1>21 DEF vars, edited, candidate, durable, call, seen, IInv, Candidates, Shown,
       Validating, Persisted, Applying, Finished, Validated
  <1> QED
    BY Steps, <1>1, <1>2, <1>3, <1>4, <1>5, <1>6, <1>7, <1>8, <1>9, <1>10, <1>11, <1>12, <1>13,
       <1>14, <1>15, <1>16, <1>17, <1>18, <1>19, <1>20, <1>21

\* A call keeps to what it has read and to the limit.
LEMMA CallingStep == IInv /\ [Next]_vars => Calling'
  <1> SUFFICES ASSUME IInv, [Next]_vars PROVE Calling'
    OBVIOUS
  <1> USE ChainAssumption DEF Files, Texts, Attempts, Maybe, None
  <1>1. ASSUME NEW f \in Files, ReadFile(f) PROVE Calling'
    BY <1>1 DEF ReadFile, NoEnv, edited, durable, call, seen, IInv, Calling, WithinLimit,
       Swapping, Applying, Finished
  <1>2. CASE Propose
    <2>1. changed = {}
      BY <1>2 DEF Propose, IInv, Calling, Swapping
    <2> QED
      BY <1>2, <2>1 DEF Propose, Goto, NoEnv, edited, durable, call, seen, IInv, Calling
  <1>3. ASSUME NEW f \in Files, ValidateFile(f) PROVE Calling'
    BY <1>3 DEF ValidateFile, NoEnv, edited, durable, call, seen, IInv, Calling, WithinLimit,
       Swapping, Applying, Finished
  <1>4. CASE PersistCandidate
    BY <1>4 DEF PersistCandidate, Goto, NoEnv, edited, candidate, durable, call, seen, IInv,
       Calling, WithinLimit, Swapping, Applying, Finished
  <1>5. CASE Approve
    BY <1>5 DEF Approve, Goto, NoEnv, edited, candidate, durable, call, seen, IInv, Calling,
       WithinLimit, Swapping, Applying, Finished
  <1>6. ASSUME NEW f \in Files, Classify(f) PROVE Calling'
    BY <1>6 DEF Classify, NoEnv, edited, candidate, durable, seen, IInv, Calling, WithinLimit,
       Swapping, Applying, Finished
  <1>7. CASE PersistPreimages
    BY <1>7, Decided DEF PersistPreimages, Goto, NoEnv, edited, candidate, IInv, Calling,
       WithinLimit, Swapping, Applying, Finished
  <1>8. CASE AlreadyApplied
    BY <1>8, Decided DEF AlreadyApplied, Goto, NoEnv, edited, candidate, durable, IInv, Calling,
       WithinLimit, Swapping, Applying, Finished
  <1>9. ASSUME NEW f \in Files, CheckFile(f) PROVE Calling'
    BY <1>9 DEF CheckFile, Checked, Goto, candidate, durable, call, seen, IInv, Calling,
       WithinLimit, Swapping, Applying, Finished
  <1>10. ASSUME NEW f \in Files, UndoCheck(f) PROVE Calling'
    BY <1>10 DEF UndoCheck, Checked, Goto, candidate, durable, call, seen, IInv, Calling,
       WithinLimit, Swapping, Applying, Finished
  <1>11. ASSUME NEW f \in Files, ReplaceFile(f) PROVE Calling'
    BY <1>11 DEF ReplaceFile, Renamed, Goto, NoEnv, edited, candidate, durable, seen, IInv,
       Calling, WithinLimit, Swapping, Applying, Finished, NextFile
  <1>12. ASSUME NEW f \in Files, UndoReplace(f) PROVE Calling'
    BY <1>12 DEF UndoReplace, Renamed, Goto, NoEnv, edited, candidate, durable, seen, IInv,
       Calling, WithinLimit, Swapping, Applying, Finished, LastFile
  <1>13. CASE ReplaceFails
    BY <1>13 DEF ReplaceFails, Goto, NoEnv, edited, candidate, durable, call, seen, IInv, Calling,
       WithinLimit, Swapping, Applying, Finished
  <1>14. CASE Record
    BY <1>14 DEF Record, Goto, NoEnv, edited, candidate, seen, IInv, Calling, WithinLimit,
       Swapping, Applying, Finished
  <1>15. CASE NextAttempt
    <2>1. changed = {}
      BY <1>15 DEF NextAttempt, IInv, Calling, Swapping
    <2> QED
      BY <1>15, <2>1 DEF NextAttempt, Goto, call, IInv, Calling
  <1>16. CASE Passed
    BY <1>16 DEF Passed, Goto, NoEnv, edited, candidate, call, seen, IInv, Calling, WithinLimit,
       Swapping, Applying, Finished
  <1>17. CASE PersistCumulative
    BY <1>17 DEF PersistCumulative, Goto, NoEnv, edited, candidate, call, seen, IInv, Calling,
       WithinLimit, Swapping, Applying, Finished
  <1>18. CASE Crash
    BY <1>18 DEF Crash, Goto, candidate, edited, seen, IInv, Calling, WithinLimit, Swapping,
       Applying, Finished
  <1>19. ASSUME NEW f \in Files, Edit(f) PROVE Calling'
    BY <1>19 DEF Edit, candidate, durable, call, seen, IInv, Calling, WithinLimit, Swapping,
       Applying, Finished
  <1>20. CASE End
    BY <1>20 DEF End, Goto, NoEnv, edited, candidate, durable, call, seen, IInv, Calling,
       WithinLimit, Swapping, Applying, Finished
  <1>21. CASE UNCHANGED vars
    BY <1>21 DEF vars, edited, candidate, durable, call, seen, IInv, Calling, WithinLimit,
       Swapping, Applying, Finished
  <1> QED
    BY Steps, <1>1, <1>2, <1>3, <1>4, <1>5, <1>6, <1>7, <1>8, <1>9, <1>10, <1>11, <1>12, <1>13,
       <1>14, <1>15, <1>16, <1>17, <1>18, <1>19, <1>20, <1>21

\* The preimages of an attempt are recorded once, before any file is replaced.
LEMMA PreimagesStep == IInv /\ [Next]_vars => Preimages'
  <1> SUFFICES ASSUME IInv, [Next]_vars PROVE Preimages'
    OBVIOUS
  <1> USE ChainAssumption DEF Files, Texts, Attempts, Maybe, None
  <1>1. ASSUME NEW f \in Files, ReadFile(f) PROVE Preimages'
    BY <1>1 DEF ReadFile, NoEnv, edited, durable, call, seen, IInv, Preimages, Persisted,
       Swapping, Applying, Finished
  <1>2. CASE Propose
    BY <1>2 DEF Propose, Goto, NoEnv, edited, durable, call, seen, IInv, Preimages, Persisted,
       Swapping, Applying, Finished
  <1>3. ASSUME NEW f \in Files, ValidateFile(f) PROVE Preimages'
    BY <1>3 DEF ValidateFile, NoEnv, edited, durable, call, seen, IInv, Preimages, Persisted,
       Swapping, Applying, Finished
  <1>4. CASE PersistCandidate
    BY <1>4 DEF PersistCandidate, Goto, NoEnv, edited, candidate, durable, call, seen, IInv,
       Preimages, Persisted, Swapping, Applying, Finished
  <1>5. CASE Approve
    BY <1>5 DEF Approve, Goto, NoEnv, edited, candidate, durable, call, seen, IInv, Preimages,
       Persisted, Swapping, Applying, Finished
  <1>6. ASSUME NEW f \in Files, Classify(f) PROVE Preimages'
    BY <1>6 DEF Classify, NoEnv, edited, candidate, durable, seen, IInv, Preimages, Persisted,
       Swapping, Applying, Finished
  <1>7. CASE PersistPreimages
    <2>1. preimages' = [preimages EXCEPT ![attempt] = expected] /\ UNCHANGED <<attempt, expected>>
      BY <1>7 DEF PersistPreimages, NoEnv, candidate
    <2>2. preimages'[attempt] = expected /\ \A a \in Attempts : a > attempt => preimages'[a] =
       Unread
      BY <2>1 DEF IInv, TypeOK, Preimages
    <2>3. expected # Unread /\ pc' = "check"
      BY <1>7, Decided DEF PersistPreimages, Goto
    <2> QED
      BY <2>1, <2>2, <2>3 DEF Preimages, Persisted, Swapping, Applying, Finished
  <1>8. CASE AlreadyApplied
    BY <1>8 DEF AlreadyApplied, Goto, NoEnv, edited, candidate, durable, IInv, Preimages,
       Persisted, Swapping, Applying, Finished
  <1>9. ASSUME NEW f \in Files, CheckFile(f) PROVE Preimages'
    BY <1>9 DEF CheckFile, Checked, Goto, candidate, durable, call, seen, IInv, Preimages,
       Persisted, Swapping, Applying, Finished
  <1>10. ASSUME NEW f \in Files, UndoCheck(f) PROVE Preimages'
    BY <1>10 DEF UndoCheck, Checked, Goto, candidate, durable, call, seen, IInv, Preimages,
       Persisted, Swapping, Applying, Finished
  <1>11. ASSUME NEW f \in Files, ReplaceFile(f) PROVE Preimages'
    <2>1. expected # Unread
      BY <1>11 DEF ReplaceFile, NextFile, IInv, Candidates, Validating, Persisted, Applying, Unread
    <2> QED
      BY <1>11, <2>1 DEF ReplaceFile, Renamed, Goto, NoEnv, edited, candidate, durable, seen,
         IInv, Preimages, Persisted, Swapping, Applying, Finished
  <1>12. ASSUME NEW f \in Files, UndoReplace(f) PROVE Preimages'
    BY <1>12 DEF UndoReplace, Renamed, Goto, NoEnv, edited, candidate, durable, seen, IInv,
       Preimages, Persisted, Swapping, Applying, Finished
  <1>13. CASE ReplaceFails
    BY <1>13 DEF ReplaceFails, Goto, NoEnv, edited, candidate, durable, call, seen, IInv,
       Preimages, Persisted, Swapping, Applying, Finished
  <1>14. CASE Record
    BY <1>14 DEF Record, Goto, NoEnv, edited, candidate, seen, IInv, Preimages, Persisted,
       Swapping, Applying, Finished
  <1>15. CASE NextAttempt
    <2>1. attempt' = attempt + 1 /\ attempt' \in Attempts /\ attempt \in Nat
      BY <1>15 DEF NextAttempt, MoreAttempts, IInv, TypeOK
    <2> QED
      BY <1>15, <2>1 DEF NextAttempt, Goto, call, IInv, Preimages, Persisted, Swapping, Applying,
         Finished
  <1>16. CASE Passed
    BY <1>16 DEF Passed, Goto, NoEnv, edited, candidate, call, seen, IInv, Preimages, Persisted,
       Swapping, Applying, Finished
  <1>17. CASE PersistCumulative
    BY <1>17 DEF PersistCumulative, Goto, NoEnv, edited, candidate, call, seen, IInv, Preimages,
       Persisted, Swapping, Applying, Finished
  <1>18. CASE Crash
    BY <1>18 DEF Crash, Goto, candidate, edited, seen, IInv, Preimages, Persisted, Swapping,
       Applying, Finished
  <1>19. ASSUME NEW f \in Files, Edit(f) PROVE Preimages'
    BY <1>19 DEF Edit, candidate, durable, call, seen, IInv, Preimages, Persisted, Swapping,
       Applying, Finished
  <1>20. CASE End
    BY <1>20 DEF End, Goto, NoEnv, edited, candidate, durable, call, seen, IInv, Preimages,
       Persisted, Swapping, Applying, Finished
  <1>21. CASE UNCHANGED vars
    BY <1>21 DEF vars, edited, candidate, durable, call, seen, IInv, Preimages, Persisted,
       Swapping, Applying, Finished
  <1> QED
    BY Steps, <1>1, <1>2, <1>3, <1>4, <1>5, <1>6, <1>7, <1>8, <1>9, <1>10, <1>11, <1>12, <1>13,
       <1>14, <1>15, <1>16, <1>17, <1>18, <1>19, <1>20, <1>21

\* What is replaced is listed, and the limit is that of the Run.
LEMMA ListingStep == IInv /\ [Next]_vars => Listing'
  <1> SUFFICES ASSUME IInv, [Next]_vars PROVE Listing'
    OBVIOUS
  <1> USE ChainAssumption DEF Files, Texts, Attempts, Maybe, None
  <1>1. ASSUME NEW f \in Files, ReadFile(f) PROVE Listing'
    BY <1>1 DEF ReadFile, NoEnv, edited, durable, call, seen, IInv, Listing, Finished, Applying
  <1>2. CASE Propose
    <2>1. paths = {}
      BY <1>2 DEF Propose, IInv, Listing
    <2> QED
      BY <1>2, <2>1 DEF Propose, Goto, NoEnv, edited, durable, call, seen, IInv, Listing, Finished
  <1>3. ASSUME NEW f \in Files, ValidateFile(f) PROVE Listing'
    BY <1>3 DEF ValidateFile, NoEnv, edited, durable, call, seen, IInv, Listing, Finished,
       Applying
  <1>4. CASE PersistCandidate
    BY <1>4 DEF PersistCandidate, Goto, NoEnv, edited, candidate, durable, call, seen, IInv,
       Listing, Finished, Applying
  <1>5. CASE Approve
    BY <1>5 DEF Approve, Goto, NoEnv, edited, candidate, durable, call, seen, IInv, Listing,
       Finished, Applying
  <1>6. ASSUME NEW f \in Files, Classify(f) PROVE Listing'
    BY <1>6 DEF Classify, NoEnv, edited, candidate, durable, seen, IInv, Listing, Finished,
       Applying
  <1>7. CASE PersistPreimages
    <2>1. \A f \in Files : expected[f] # None => f \in paths
      BY <1>7 DEF PersistPreimages, IInv, Candidates, Validating, Persisted, Applying
    <2>2. \A a \in Attempts, f \in Files : preimages'[a][f] # None =>
              preimages[a][f] # None \/ f \in paths
      BY <1>7, <2>1 DEF PersistPreimages, IInv, TypeOK
    <2> QED
      BY <1>7, <2>2 DEF PersistPreimages, Goto, NoEnv, edited, candidate, IInv, Listing, Finished
  <1>8. CASE AlreadyApplied
    BY <1>8 DEF AlreadyApplied, Goto, NoEnv, edited, candidate, durable, IInv, Listing, Finished,
       Applying
  <1>9. ASSUME NEW f \in Files, CheckFile(f) PROVE Listing'
    BY <1>9 DEF CheckFile, Checked, Goto, candidate, durable, call, seen, IInv, Listing, Finished,
       Applying
  <1>10. ASSUME NEW f \in Files, UndoCheck(f) PROVE Listing'
    BY <1>10 DEF UndoCheck, Checked, Goto, candidate, durable, call, seen, IInv, Listing,
       Finished, Applying
  <1>11. ASSUME NEW f \in Files, ReplaceFile(f) PROVE Listing'
    BY <1>11 DEF ReplaceFile, Renamed, Goto, NoEnv, edited, candidate, durable, seen, IInv,
       Listing, Finished, Applying
  <1>12. ASSUME NEW f \in Files, UndoReplace(f) PROVE Listing'
    BY <1>12 DEF UndoReplace, Renamed, Goto, NoEnv, edited, candidate, durable, seen, IInv,
       Listing, Finished, Applying
  <1>13. CASE ReplaceFails
    BY <1>13 DEF ReplaceFails, Goto, NoEnv, edited, candidate, durable, call, seen, IInv, Listing,
       Finished, Applying
  <1>14. CASE Record
    BY <1>14 DEF Record, Goto, NoEnv, edited, candidate, seen, IInv, Listing, Finished, Applying,
       Calling, WithinLimit
  <1>15. CASE NextAttempt
    <2>1. listed \cup paths \subseteq filesChanged
      BY <1>15 DEF NextAttempt, IInv, Listing, Finished
    <2> QED
      BY <1>15, <2>1 DEF NextAttempt, Goto, call, IInv, Listing, Finished
  <1>16. CASE Passed
    BY <1>16 DEF Passed, Goto, NoEnv, edited, candidate, call, seen, IInv, Listing, Finished,
       Applying
  <1>17. CASE PersistCumulative
    <2>1. \A f \in Files : Preimage(f) # None => f \in listed \cup paths
      <3>1. SUFFICES ASSUME NEW f \in Files, Preimage(f) # None PROVE f \in listed \cup paths
        OBVIOUS
      <3>2. first[f] # None
        BY <3>1, PreimageIsFirst DEF IInv
      <3>3. PICK a \in 1 .. attempt : preimages[a][f] # None
        BY <3>2 DEF IInv, Firsts, IsFirst
      <3> QED
        BY <1>17, <3>3 DEF PersistCumulative, IInv, TypeOK, Listing
    <2>2. \A f \in Files : shown[f] # Same => f \in paths
      BY DEF IInv, Candidates, Shown
    <2>3. \A f \in Files : CumulativeDiff[f] # Same => f \in listed \cup paths
      BY <2>1, <2>2 DEF CumulativeDiff
    <2> QED
      BY <1>17, <2>3 DEF PersistCumulative, Goto, NoEnv, edited, candidate, call, seen, IInv,
         Listing, Finished
  <1>18. CASE Crash
    BY <1>18 DEF Crash, Goto, candidate, edited, seen, IInv, Listing, Finished, Applying
  <1>19. ASSUME NEW f \in Files, Edit(f) PROVE Listing'
    BY <1>19 DEF Edit, candidate, durable, call, seen, IInv, Listing, Finished, Applying
  <1>20. CASE End
    BY <1>20 DEF End, Goto, NoEnv, edited, candidate, durable, call, seen, IInv, Listing,
       Finished, Applying
  <1>21. CASE UNCHANGED vars
    BY <1>21 DEF vars, edited, candidate, durable, call, seen, IInv, Listing, Finished, Applying
  <1> QED
    BY Steps, <1>1, <1>2, <1>3, <1>4, <1>5, <1>6, <1>7, <1>8, <1>9, <1>10, <1>11, <1>12, <1>13,
       <1>14, <1>15, <1>16, <1>17, <1>18, <1>19, <1>20, <1>21

\* Nothing but the preimages and the diff of a Run disturbs the first texts.
LEMMA FirstsKept ==
    ASSUME Firsts, UNCHANGED <<first, preimages, attempt, cumulative>>, byHand => byHand',
           (passed => passed') /\ (passed' => applied'), pc' \in Finished => applied',
           pc' \in {"cumulative", "succeeded"} => passed'
    PROVE  Firsts'
  BY DEF Firsts, IsFirst

\* The first text of a file is recorded in the first attempt at it and never again.
LEMMA FirstsStep == IInv /\ [Next]_vars => Firsts'
  <1> SUFFICES ASSUME IInv, [Next]_vars PROVE Firsts'
    OBVIOUS
  <1> USE ChainAssumption DEF Files, Texts, Attempts, Maybe, None
  <1>1. ASSUME NEW f \in Files, ReadFile(f) PROVE Firsts'
    BY <1>1, FirstsKept DEF ReadFile, NoEnv, edited, durable, call, seen, IInv, Firsts, Finished
  <1>2. CASE Propose
    BY <1>2, FirstsKept DEF Propose, Goto, NoEnv, edited, durable, call, seen, IInv, Firsts,
       Finished
  <1>3. ASSUME NEW f \in Files, ValidateFile(f) PROVE Firsts'
    BY <1>3, FirstsKept DEF ValidateFile, NoEnv, edited, durable, call, seen, IInv, Firsts,
       Finished
  <1>4. CASE PersistCandidate
    BY <1>4, FirstsKept DEF PersistCandidate, Goto, NoEnv, edited, candidate, durable, call, seen,
       IInv, Firsts, Finished
  <1>5. CASE Approve
    BY <1>5, FirstsKept DEF Approve, Goto, NoEnv, edited, candidate, durable, call, seen, IInv,
       Firsts, Finished
  <1>6. ASSUME NEW f \in Files, Classify(f) PROVE Firsts'
    BY <1>6, FirstsKept DEF Classify, NoEnv, edited, candidate, durable, seen, IInv, Firsts,
       Finished
  <1>7. CASE PersistPreimages
    <2>1. /\ preimages'[attempt] = expected
          /\ \A a \in Attempts \ {attempt} : preimages'[a] = preimages[a]
          /\ \A f \in Files : first'[f] = IF first[f] = None THEN expected[f] ELSE first[f]
          /\ UNCHANGED <<attempt, cumulative, byHand, passed, applied>>
          /\ cumulative = {} /\ ~passed /\ pc = "apply" /\ pc' = "check"
      BY <1>7 DEF PersistPreimages, Goto, IInv, TypeOK, Firsts
    <2>2. preimages[attempt] \in {Unread, expected}
      BY <2>1 DEF IInv, Preimages, Persisted, Applying
    <2>3. attempt \in 1 .. attempt /\ 1 .. attempt \subseteq Attempts
      BY DEF IInv, TypeOK
    <2>4. \A f \in Files, b \in 1 .. attempt : preimages[b][f] # None =>
              preimages'[b][f] = preimages[b][f]
      BY <2>1, <2>2, <2>3 DEF Unread
    <2>5. \A f \in Files, b \in 1 .. attempt : preimages'[b][f] # None =>
              b = attempt \/ preimages[b][f] # None
      BY <2>1, <2>3
    <2>6. ASSUME NEW f \in Files
          PROVE  \/ first'[f] = None /\ \A a \in 1 .. attempt : preimages'[a][f] = None
                 \/ \E a \in 1 .. attempt : IsFirst(f, a)'
      <3>1. CASE first[f] = None /\ \A a \in 1 .. attempt : preimages[a][f] = None
        <4>1. CASE expected[f] = None
          BY <2>1, <2>3, <2>5, <3>1, <4>1
        <4>2. CASE expected[f] # None
          <5>1. \A b \in 1 .. attempt : preimages'[b][f] # None => attempt <= b
            BY <2>3, <2>5, <3>1
          <5> QED
            BY <2>1, <2>3, <3>1, <4>2, <5>1 DEF IsFirst
        <4> QED
          BY <4>1, <4>2
      <3>2. ASSUME NEW a \in 1 .. attempt, IsFirst(f, a)
            PROVE  IsFirst(f, a)'
        <4>1. first'[f] = first[f] /\ preimages'[a][f] = preimages[a][f]
          BY <2>1, <2>4, <3>2 DEF IsFirst
        <4>2. \A b \in 1 .. attempt : preimages'[b][f] # None => a <= b
          BY <2>3, <2>5, <3>2 DEF IsFirst
        <4> QED
          BY <2>1, <3>2, <4>1, <4>2 DEF IsFirst
      <3> QED
        BY <2>1, <3>1, <3>2 DEF IInv, Firsts
    <2> QED
      BY <2>1, <2>6 DEF Firsts, Finished
  <1>8. CASE AlreadyApplied
    BY <1>8, FirstsKept DEF AlreadyApplied, Goto, NoEnv, edited, candidate, durable, IInv, Firsts,
       Finished
  <1>9. ASSUME NEW f \in Files, CheckFile(f) PROVE Firsts'
    BY <1>9, FirstsKept DEF CheckFile, Checked, Goto, candidate, durable, call, seen, IInv,
       Firsts, Finished
  <1>10. ASSUME NEW f \in Files, UndoCheck(f) PROVE Firsts'
    BY <1>10, FirstsKept DEF UndoCheck, Checked, Goto, candidate, durable, call, seen, IInv,
       Firsts, Finished
  <1>11. ASSUME NEW f \in Files, ReplaceFile(f) PROVE Firsts'
    BY <1>11, FirstsKept DEF ReplaceFile, Renamed, Goto, NoEnv, edited, candidate, durable, seen,
       IInv, Firsts, Finished
  <1>12. ASSUME NEW f \in Files, UndoReplace(f) PROVE Firsts'
    BY <1>12, FirstsKept DEF UndoReplace, Renamed, Goto, NoEnv, edited, candidate, durable, seen,
       IInv, Firsts, Finished
  <1>13. CASE ReplaceFails
    BY <1>13, FirstsKept DEF ReplaceFails, Goto, NoEnv, edited, candidate, durable, call, seen,
       IInv, Firsts, Finished
  <1>14. CASE Record
    BY <1>14, FirstsKept DEF Record, Goto, NoEnv, edited, candidate, seen, IInv, Firsts, Finished
  <1>15. CASE NextAttempt
    <2>1. attempt' = attempt + 1 /\ attempt' \in Attempts /\ attempt \in Nat
          /\ UNCHANGED <<first, preimages, cumulative, passed>>
          /\ pc = "verify" /\ pc' = "model" /\ ~passed
      BY <1>15 DEF NextAttempt, MoreAttempts, Goto, IInv, TypeOK
    <2>2. preimages[attempt + 1] = Unread
      BY <2>1 DEF IInv, Preimages
    <2>3. \A f \in Files, b \in 1 .. attempt' : preimages[b][f] # None => b \in 1 .. attempt
      BY <2>1, <2>2 DEF Unread
    <2>4. ASSUME NEW f \in Files, NEW a \in 1 .. attempt, IsFirst(f, a)
          PROVE  a \in 1 .. attempt' /\ IsFirst(f, a)'
      BY <2>1, <2>3, <2>4 DEF IsFirst
    <2>5. cumulative = {}
      BY <2>1 DEF IInv, Firsts
    <2> QED
      BY <2>1, <2>3, <2>4, <2>5 DEF IInv, Firsts, Finished
  <1>16. CASE Passed
    BY <1>16, FirstsKept DEF Passed, Goto, NoEnv, edited, candidate, call, seen, IInv, Firsts,
       Finished
  <1>17. CASE PersistCumulative
    <2>1. /\ UNCHANGED <<first, preimages, attempt, byHand, passed, applied>> /\ pc = "cumulative"
          /\ pc' = "succeeded" /\ cumulative' = {CumulativeDiff}
      BY <1>17 DEF PersistCumulative, Goto, seen
    <2>2. ASSUME ~byHand, NEW f \in Files, CumulativeDiff[f] # Same
          PROVE  CumulativeDiff[f][1] = first[f]
      <3>1. \E g \in Files : first[g] # None
        BY <2>1, <2>2, SomeFirst DEF IInv, Finished
      <3> QED
        BY <2>2, <3>1, DiffFromFirst DEF IInv
    <2> QED
      BY <2>1, <2>2 DEF IInv, Firsts, IsFirst, Finished
  <1>18. CASE Crash
    BY <1>18, FirstsKept DEF Crash, Goto, candidate, edited, seen, IInv, Firsts, Finished
  <1>19. ASSUME NEW f \in Files, Edit(f) PROVE Firsts'
    BY <1>19, FirstsKept DEF Edit, candidate, durable, call, seen, IInv, Firsts, Finished
  <1>20. CASE End
    BY <1>20, FirstsKept DEF End, Goto, NoEnv, edited, candidate, durable, call, seen, IInv,
       Firsts, Finished
  <1>21. CASE UNCHANGED vars
    BY <1>21, FirstsKept DEF vars, edited, candidate, durable, call, seen, IInv, Firsts, Finished
  <1> QED
    BY Steps, <1>1, <1>2, <1>3, <1>4, <1>5, <1>6, <1>7, <1>8, <1>9, <1>10, <1>11, <1>12, <1>13,
       <1>14, <1>15, <1>16, <1>17, <1>18, <1>19, <1>20, <1>21

\* A file that a step does not write stays undisturbed, whatever else is noted of it.
LEMMA Resting ==
    ASSUME NEW g \in Files, Undisturbed(g), ws'[g] = ws[g],
           UNCHANGED <<was, paths, expected, proposed, shown>>,
           preimages'[attempt'] = Unread => preimages[attempt] = Unread,
           pc' = "apply" => states'[g] \in {"unread", Seen(g)},
           pc' \in Swapping /\ g \in changed' => ws[g] = proposed[g],
           pc' \in {"record"} \cup Finished /\ g \in paths => ws[g] = proposed[g]
    PROVE  Undisturbed(g)'
  BY DEF Undisturbed, Seen, Validated

\* A file that nobody edits is as it was, or as it is proposed.
LEMMA KeptStep == IInv /\ [Next]_vars => Kept'
  <1> SUFFICES ASSUME IInv, [Next]_vars, NEW g \in Files, g \notin touched'
               PROVE  Undisturbed(g)'
    BY DEF Kept
  <1> USE ChainAssumption DEF Files, Texts, Attempts, Maybe, None
  <1>a. g \notin touched => Undisturbed(g)
    BY DEF IInv, Kept
  <1>1. ASSUME NEW f \in Files, ReadFile(f) PROVE Undisturbed(g)'
    BY <1>1, <1>a, Resting DEF ReadFile, NoEnv, edited, durable, call, seen, Undisturbed,
       Swapping, Applying, Finished
  <1>2. CASE Propose
    <2>1. g \notin Validated /\ g \notin Validated' /\ Undisturbed(g)
      BY <1>2, <1>a DEF Propose, NoEnv, edited, IInv, Candidates, Validated, NoDiff
    <2> QED
      BY <1>2, <2>1 DEF Propose, Goto, NoEnv, edited, durable, call, seen, Undisturbed, Swapping,
         Finished
  <1>3. ASSUME NEW f \in Files, ValidateFile(f) PROVE Undisturbed(g)'
    <2>1. /\ pc = "validate" /\ f \in paths /\ f \notin Validated /\ ws[f] = expected[f]
          /\ Undisturbed(g) /\ UNCHANGED <<ws, was, expected, proposed, preimages, attempt, pc>>
      BY <1>3, <1>a DEF ValidateFile, NoEnv, edited, durable, call, seen, IsNext, Acceptable
    <2>2. g \in Validated' => g = f \/ g \in Validated
      BY <1>3 DEF ValidateFile, Validated, IInv, TypeOK, Diffs
    <2>3. g \in Validated => g \in Validated'
      BY <1>3, <2>1 DEF ValidateFile, Validated, IInv, TypeOK, Diffs
    <2> QED
      BY <2>1, <2>2, <2>3 DEF Undisturbed, Swapping, Finished
  <1>4. CASE PersistCandidate
    BY <1>4, <1>a, Resting DEF PersistCandidate, Goto, NoEnv, edited, candidate, durable, call,
       seen, Undisturbed, Swapping, Applying, Finished
  <1>5. CASE Approve
    <2>1. states[g] = "unread"
      BY <1>5 DEF Approve, IInv, Calling, Unseen
    <2> QED
      BY <1>5, <1>a, <2>1, Resting DEF Approve, Goto, NoEnv, edited, candidate, durable, call,
         seen, Swapping, Finished
  <1>6. ASSUME NEW f \in Files, Classify(f) PROVE Undisturbed(g)'
    <2>1. states'[g] \in {"unread", Seen(g)}
      BY <1>6, <1>a DEF Classify, NoEnv, edited, candidate, durable, seen, IInv, TypeOK, Undisturbed
    <2> QED
      BY <1>6, <1>a, <2>1, Resting DEF Classify, NoEnv, edited, candidate, durable, seen,
         Swapping, Finished
  <1>7. CASE PersistPreimages
    <2>1. preimages'[attempt] # Unread /\ changed = {}
      BY <1>7, Decided DEF PersistPreimages, IInv, TypeOK, Calling, Swapping
    <2> QED
      BY <1>7, <1>a, <2>1, Resting DEF PersistPreimages, Goto, NoEnv, edited, candidate, seen,
         Swapping, Finished
  <1>8. CASE AlreadyApplied
    <2>1. g \in paths /\ g \notin touched => ws[g] = proposed[g]
      BY <1>8, <1>a DEF AlreadyApplied, AllAfter, Undisturbed, Seen
    <2> QED
      BY <1>8, <1>a, <2>1, Resting DEF AlreadyApplied, Goto, NoEnv, edited, candidate, durable,
         Swapping, Finished
  <1>9. ASSUME NEW f \in Files, CheckFile(f) PROVE Undisturbed(g)'
    BY <1>9, <1>a, Resting DEF CheckFile, Checked, Goto, candidate, durable, call, seen,
       Undisturbed, Swapping, Applying, Finished
  <1>10. ASSUME NEW f \in Files, UndoCheck(f) PROVE Undisturbed(g)'
    BY <1>10, <1>a, Resting DEF UndoCheck, Checked, Goto, candidate, durable, call, seen,
       Undisturbed, Swapping, Applying, Finished
  <1>11. ASSUME NEW f \in Files, ReplaceFile(f) PROVE Undisturbed(g)'
    <2>1. /\ pc = "replace" /\ f \in Validated /\ paths = Validated /\ Undisturbed(g)
          /\ UNCHANGED <<was, paths, expected, proposed, shown, preimages, attempt>>
          /\ pc' \in {"record", "check", "undo"} /\ changed' \subseteq changed \cup {f}
          /\ pc' = "record" => paths = changed \cup {f}
      BY <1>11, <1>a DEF ReplaceFile, Renamed, Goto, NoEnv, edited, candidate, durable, seen,
         NextFile, IInv, Candidates, Persisted, Applying
    <2>2. ws'[f] = proposed[f] /\ (g # f => ws'[g] = ws[g])
      BY <1>11 DEF ReplaceFile, Renamed, IInv, TypeOK
    <2>3. preimages[attempt] # Unread
      BY <2>1 DEF IInv, Preimages, Swapping, Candidates, Validating, Persisted, Applying, Unread
    <2>4. CASE g = f
      BY <2>1, <2>2, <2>3, <2>4 DEF Undisturbed, Validated, Finished
    <2>5. CASE g # f
      BY <2>1, <2>2, <2>5, Resting DEF Undisturbed, Swapping, Finished
    <2> QED
      BY <2>4, <2>5
  <1>12. ASSUME NEW f \in Files, UndoReplace(f) PROVE Undisturbed(g)'
    <2>1. /\ pc = "undo_replace" /\ f \in Validated /\ Undisturbed(g)
          /\ UNCHANGED <<was, paths, expected, proposed, shown, preimages, attempt>>
          /\ \/ pc' = "undo" /\ changed' = changed \ {f}
             \/ pc' = "ended" /\ changed' = changed
      BY <1>12, <1>a DEF UndoReplace, Renamed, Goto, NoEnv, edited, candidate, durable, seen,
         LastFile, IInv, Candidates, Calling, Persisted, Applying
    <2>2. ws'[f] = expected[f] /\ (g # f => ws'[g] = ws[g])
      BY <1>12, <2>1 DEF UndoReplace, Renamed, IInv, TypeOK, Validated
    <2>3. preimages[attempt] # Unread
      BY <2>1 DEF IInv, Preimages, Swapping, Candidates, Validating, Persisted, Applying, Unread,
         Validated
    <2>4. CASE g = f
      BY <2>1, <2>2, <2>3, <2>4 DEF Undisturbed, Validated, Swapping, Finished
    <2>5. CASE g # f
      BY <2>1, <2>2, <2>5, Resting DEF Undisturbed, Swapping, Finished
    <2> QED
      BY <2>4, <2>5
  <1>13. CASE ReplaceFails
    BY <1>13, <1>a, Resting DEF ReplaceFails, Goto, NoEnv, edited, candidate, durable, call, seen,
       Undisturbed, Swapping, Applying, Finished
  <1>14. CASE Record
    BY <1>14, <1>a, Resting DEF Record, Goto, NoEnv, edited, candidate, seen, Undisturbed,
       Swapping, Applying, Finished
  <1>15. CASE NextAttempt
    <2>1. ws' = was' /\ g \notin Validated' /\ pc' = "model"
      BY <1>15 DEF NextAttempt, Goto, Validated, NoDiff
    <2> QED
      BY <2>1 DEF Undisturbed, Swapping, Finished
  <1>16. CASE Passed
    BY <1>16, <1>a, Resting DEF Passed, Goto, NoEnv, edited, candidate, call, seen, Undisturbed,
       Swapping, Applying, Finished
  <1>17. CASE PersistCumulative
    BY <1>17, <1>a, Resting DEF PersistCumulative, Goto, NoEnv, edited, candidate, call, seen,
       Undisturbed, Swapping, Applying, Finished
  <1>18. CASE Crash
    <2>1. states'[g] = "unread"
      BY <1>18 DEF Crash, Unseen
    <2> QED
      BY <1>18, <1>a, <2>1, Resting DEF Crash, Goto, candidate, edited, seen, Swapping, Finished
  <1>19. ASSUME NEW f \in Files, Edit(f) PROVE Undisturbed(g)'
    <2>1. g \notin touched /\ g # f
      BY <1>19 DEF Edit
    <2>2. ws'[g] = ws[g]
      BY <1>19, <2>1 DEF Edit, IInv, TypeOK
    <2>3. Undisturbed(g) /\ UNCHANGED <<pc, was, paths, expected, proposed, shown, preimages,
       attempt, states, changed>>
      BY <1>19, <1>a, <2>1 DEF Edit, candidate, durable, call, seen
    <2> QED
      BY <2>2, <2>3, Resting DEF Undisturbed
  <1>20. CASE End
    BY <1>20, <1>a, Resting DEF End, Goto, NoEnv, edited, candidate, durable, call, seen,
       Undisturbed, Swapping, Applying, Finished
  <1>21. CASE UNCHANGED vars
    BY <1>21, <1>a, Resting DEF vars, edited, candidate, durable, call, seen, Undisturbed
  <1> QED
    BY Steps, <1>1, <1>2, <1>3, <1>4, <1>5, <1>6, <1>7, <1>8, <1>9, <1>10, <1>11, <1>12, <1>13,
       <1>14, <1>15, <1>16, <1>17, <1>18, <1>19, <1>20, <1>21

\* What the program sets out to replace is recorded.
LEMMA Begun ==
    ASSUME IInv, pc \in Swapping, NEW f \in paths
    PROVE  first[f] # None
  <1>1. /\ f \in Files /\ preimages[attempt] = expected /\ expected[f] # None
        /\ attempt \in 1 .. attempt
    BY ChainAssumption DEF IInv, TypeOK, Preimages, Swapping, Candidates, Validating, Persisted,
                           Applying, Attempts
  <1> QED
    BY <1>1 DEF IInv, Firsts, IsFirst

\* Without edits, the program finds what it left.
LEMMA UntouchedStep == IInv /\ [Next]_vars => Untouched'
  <1> SUFFICES ASSUME IInv, [Next]_vars PROVE Untouched'
    OBVIOUS
  <1> USE ChainAssumption DEF Files, Texts, Attempts, Maybe, None
  <1>1. ASSUME NEW f \in Files, ReadFile(f) PROVE Untouched'
    BY <1>1 DEF ReadFile, NoEnv, edited, durable, call, seen, IInv, Untouched
  <1>2. CASE Propose
    BY <1>2 DEF Propose, Goto, NoEnv, edited, durable, call, seen, IInv, Untouched
  <1>3. ASSUME NEW f \in Files, ValidateFile(f) PROVE Untouched'
    BY <1>3 DEF ValidateFile, NoEnv, edited, durable, call, seen, IInv, Untouched
  <1>4. CASE PersistCandidate
    BY <1>4 DEF PersistCandidate, Goto, NoEnv, edited, candidate, durable, call, seen, IInv,
       Untouched
  <1>5. CASE Approve
    BY <1>5 DEF Approve, Goto, NoEnv, edited, candidate, durable, call, seen, IInv, Untouched
  <1>6. ASSUME NEW f \in Files, Classify(f) PROVE Untouched'
    BY <1>6 DEF Classify, NoEnv, edited, candidate, durable, seen, IInv, Untouched
  <1>7. CASE PersistPreimages
    <2>1. \A f \in Files : first'[f] = IF first[f] = None THEN expected[f] ELSE first[f]
      BY <1>7 DEF PersistPreimages
    <2>2. \A f \in paths : edits = 0 => ws[f] = expected[f]
      <3>1. SUFFICES ASSUME edits = 0, NEW f \in paths PROVE ws[f] = expected[f]
        OBVIOUS
      <3>2. f \in Files \ touched /\ states[f] = "before"
        BY <1>7, <3>1, Decided DEF PersistPreimages, AllBefore, IInv, Untouched
      <3> QED
        BY <1>7, <3>2 DEF PersistPreimages, IInv, Kept, Undisturbed, Seen
    <2>3. \A f \in Files \ paths : expected[f] = None
      BY <1>7 DEF PersistPreimages, IInv, Candidates, Validating, Persisted, Applying
    <2>4. \A f \in Files : ws[f] # None
      BY DEF IInv, TypeOK
    <2>5. \A f \in paths : expected[f] # None
      BY <1>7, Decided DEF PersistPreimages
    <2> QED
      BY <1>7, <2>1, <2>2, <2>3, <2>4, <2>5 DEF PersistPreimages, Goto, NoEnv, edited, candidate,
         IInv, Untouched
  <1>8. CASE AlreadyApplied
    <2>1. edits = 0 => preimages[attempt] # Unread
      <3>1. SUFFICES ASSUME edits = 0, preimages[attempt] = Unread PROVE FALSE
        OBVIOUS
      <3>2. PICK f \in Validated : f \in paths
        BY <1>8, Decided DEF AlreadyApplied
      <3>3. Undisturbed(f) /\ states[f] = "after"
        BY <1>8, <3>1, <3>2 DEF AlreadyApplied, AllAfter, IInv, Untouched, Kept, Validated
      <3>4. Seen(f) = "after" /\ ws[f] = expected[f]
        BY <1>8, <3>1, <3>2, <3>3 DEF AlreadyApplied, Undisturbed
      <3>5. expected[f] # proposed[f]
        BY <3>2 DEF IInv, Candidates, Shown, Validated
      <3> QED
        BY <3>4, <3>5 DEF Seen
    <2> QED
      BY <1>8, <2>1 DEF AlreadyApplied, Goto, NoEnv, edited, candidate, durable, IInv, Untouched
  <1>9. ASSUME NEW f \in Files, CheckFile(f) PROVE Untouched'
    BY <1>9 DEF CheckFile, Checked, Goto, candidate, durable, call, seen, IInv, Untouched
  <1>10. ASSUME NEW f \in Files, UndoCheck(f) PROVE Untouched'
    BY <1>10 DEF UndoCheck, Checked, Goto, candidate, durable, call, seen, IInv, Untouched
  <1>11. ASSUME NEW f \in Files, ReplaceFile(f) PROVE Untouched'
    <2>1. first[f] # None /\ \A g \in Files \ {f} : ws'[g] = ws[g]
      BY <1>11, Begun DEF ReplaceFile, NextFile, Renamed, Swapping, IInv, TypeOK
    <2> QED
      BY <1>11, <2>1 DEF ReplaceFile, Renamed, Goto, NoEnv, edited, candidate, durable, seen,
         IInv, Untouched
  <1>12. ASSUME NEW f \in Files, UndoReplace(f) PROVE Untouched'
    <2>1. first[f] # None /\ \A g \in Files \ {f} : ws'[g] = ws[g]
      BY <1>12, Begun DEF UndoReplace, LastFile, Renamed, Swapping, IInv, Calling, TypeOK
    <2> QED
      BY <1>12, <2>1 DEF UndoReplace, Renamed, Goto, NoEnv, edited, candidate, durable, seen,
         IInv, Untouched
  <1>13. CASE ReplaceFails
    BY <1>13 DEF ReplaceFails, Goto, NoEnv, edited, candidate, durable, call, seen, IInv,
       Untouched
  <1>14. CASE Record
    BY <1>14 DEF Record, Goto, NoEnv, edited, candidate, seen, IInv, Untouched
  <1>15. CASE NextAttempt
    BY <1>15 DEF NextAttempt, Goto, call, IInv, Untouched
  <1>16. CASE Passed
    BY <1>16 DEF Passed, Goto, NoEnv, edited, candidate, call, seen, IInv, Untouched
  <1>17. CASE PersistCumulative
    BY <1>17 DEF PersistCumulative, Goto, NoEnv, edited, candidate, call, seen, IInv, Untouched
  <1>18. CASE Crash
    BY <1>18 DEF Crash, Goto, candidate, edited, seen, IInv, Untouched
  <1>19. ASSUME NEW f \in Files, Edit(f) PROVE Untouched'
    <2>1. edits' # 0
      BY <1>19 DEF Edit, IInv, TypeOK
    <2> QED
      BY <2>1 DEF Untouched
  <1>20. CASE End
    BY <1>20 DEF End, Goto, NoEnv, edited, candidate, durable, call, seen, IInv, Untouched
  <1>21. CASE UNCHANGED vars
    BY <1>21 DEF vars, edited, candidate, durable, call, seen, IInv, Untouched
  <1> QED
    BY Steps, <1>1, <1>2, <1>3, <1>4, <1>5, <1>6, <1>7, <1>8, <1>9, <1>10, <1>11, <1>12, <1>13,
       <1>14, <1>15, <1>16, <1>17, <1>18, <1>19, <1>20, <1>21

\* Between the check of a file and its replacement only an edit changes it.
LEMMA WindowStep == IInv /\ [Next]_vars => Window'
  <1> SUFFICES ASSUME IInv, [Next]_vars PROVE Window'
    OBVIOUS
  <1> USE ChainAssumption DEF Files, Texts, Attempts, Maybe, None
  <1>1. ASSUME NEW f \in Files, ReadFile(f) PROVE Window'
    BY <1>1 DEF ReadFile, NoEnv, edited, durable, call, seen, IInv, Window
  <1>2. CASE Propose
    BY <1>2 DEF Propose, Goto, NoEnv, edited, durable, call, seen, IInv, Window
  <1>3. ASSUME NEW f \in Files, ValidateFile(f) PROVE Window'
    BY <1>3 DEF ValidateFile, NoEnv, edited, durable, call, seen, IInv, Window
  <1>4. CASE PersistCandidate
    BY <1>4 DEF PersistCandidate, Goto, NoEnv, edited, candidate, durable, call, seen, IInv,
       Window
  <1>5. CASE Approve
    BY <1>5 DEF Approve, Goto, NoEnv, edited, candidate, durable, call, seen, IInv, Window
  <1>6. ASSUME NEW f \in Files, Classify(f) PROVE Window'
    BY <1>6 DEF Classify, NoEnv, edited, candidate, durable, seen, IInv, Window
  <1>7. CASE PersistPreimages
    BY <1>7 DEF PersistPreimages, Goto, NoEnv, edited, candidate, IInv, Window
  <1>8. CASE AlreadyApplied
    BY <1>8 DEF AlreadyApplied, Goto, NoEnv, edited, candidate, durable, IInv, Window
  <1>9. ASSUME NEW f \in Files, CheckFile(f) PROVE Window'
    <2>1. pc' = "replace" => ws[f] = expected[f] /\ \A h \in Files : NextFile(h)' => h = f
      BY <1>9 DEF CheckFile, Checked, Goto, candidate, durable, call, seen, Holds, NextFile
    <2>2. UNCHANGED <<ws, expected>> /\ pc' # "undo_replace"
      BY <1>9 DEF CheckFile, Checked, Goto, candidate, durable, call, seen
    <2> QED
      BY <2>1, <2>2 DEF Window
  <1>10. ASSUME NEW f \in Files, UndoCheck(f) PROVE Window'
    <2>1. pc' = "undo_replace" => ws[f] = proposed[f] /\ \A h \in Files : LastFile(h)' => h = f
      BY <1>10 DEF UndoCheck, Checked, Goto, candidate, durable, call, seen, Holds, LastFile
    <2>2. UNCHANGED <<ws, proposed>> /\ pc' # "replace"
      BY <1>10 DEF UndoCheck, Checked, Goto, candidate, durable, call, seen
    <2> QED
      BY <2>1, <2>2 DEF Window
  <1>11. ASSUME NEW f \in Files, ReplaceFile(f) PROVE Window'
    BY <1>11 DEF ReplaceFile, Renamed, Goto, NoEnv, edited, candidate, durable, seen, IInv, Window
  <1>12. ASSUME NEW f \in Files, UndoReplace(f) PROVE Window'
    BY <1>12 DEF UndoReplace, Renamed, Goto, NoEnv, edited, candidate, durable, seen, IInv, Window
  <1>13. CASE ReplaceFails
    BY <1>13 DEF ReplaceFails, Goto, NoEnv, edited, candidate, durable, call, seen, IInv, Window
  <1>14. CASE Record
    BY <1>14 DEF Record, Goto, NoEnv, edited, candidate, seen, IInv, Window
  <1>15. CASE NextAttempt
    BY <1>15 DEF NextAttempt, Goto, call, IInv, Window
  <1>16. CASE Passed
    BY <1>16 DEF Passed, Goto, NoEnv, edited, candidate, call, seen, IInv, Window
  <1>17. CASE PersistCumulative
    BY <1>17 DEF PersistCumulative, Goto, NoEnv, edited, candidate, call, seen, IInv, Window
  <1>18. CASE Crash
    BY <1>18 DEF Crash, Goto, candidate, edited, seen, IInv, Window
  <1>19. ASSUME NEW f \in Files, Edit(f) PROVE Window'
    <2>1. \A h \in Files \ late' : h \notin late /\ ws'[h] = ws[h]
      BY <1>19 DEF Edit, IInv, TypeOK
    <2> QED
      BY <1>19, <2>1 DEF Edit, candidate, durable, call, seen, IInv, Window, NextFile, LastFile
  <1>20. CASE End
    BY <1>20 DEF End, Goto, NoEnv, edited, candidate, durable, call, seen, IInv, Window
  <1>21. CASE UNCHANGED vars
    BY <1>21 DEF vars, edited, candidate, durable, call, seen, IInv, Window, NextFile, LastFile
  <1> QED
    BY Steps, <1>1, <1>2, <1>3, <1>4, <1>5, <1>6, <1>7, <1>8, <1>9, <1>10, <1>11, <1>12, <1>13,
       <1>14, <1>15, <1>16, <1>17, <1>18, <1>19, <1>20, <1>21

\* The diff persisted is that from the texts first recorded to the workspace.
LEMMA AggregateStep == IInv /\ [Next]_vars => CumulativeIsAggregate'
  <1> SUFFICES ASSUME IInv, [Next]_vars PROVE CumulativeIsAggregate'
    OBVIOUS
  <1> USE ChainAssumption DEF Files, Texts, Attempts, Maybe, None
  <1>1. ASSUME NEW f \in Files, ReadFile(f) PROVE CumulativeIsAggregate'
    BY <1>1 DEF ReadFile, NoEnv, edited, durable, call, seen, IInv, CumulativeIsAggregate
  <1>2. CASE Propose
    BY <1>2 DEF Propose, Goto, NoEnv, edited, durable, call, seen, IInv, CumulativeIsAggregate
  <1>3. ASSUME NEW f \in Files, ValidateFile(f) PROVE CumulativeIsAggregate'
    BY <1>3 DEF ValidateFile, NoEnv, edited, durable, call, seen, IInv, CumulativeIsAggregate
  <1>4. CASE PersistCandidate
    BY <1>4 DEF PersistCandidate, Goto, NoEnv, edited, candidate, durable, call, seen, IInv,
       CumulativeIsAggregate
  <1>5. CASE Approve
    BY <1>5 DEF Approve, Goto, NoEnv, edited, candidate, durable, call, seen, IInv,
       CumulativeIsAggregate
  <1>6. ASSUME NEW f \in Files, Classify(f) PROVE CumulativeIsAggregate'
    BY <1>6 DEF Classify, NoEnv, edited, candidate, durable, seen, IInv, CumulativeIsAggregate
  <1>7. CASE PersistPreimages
    BY <1>7 DEF PersistPreimages, Goto, NoEnv, edited, candidate, IInv, CumulativeIsAggregate
  <1>8. CASE AlreadyApplied
    BY <1>8 DEF AlreadyApplied, Goto, NoEnv, edited, candidate, durable, IInv,
       CumulativeIsAggregate
  <1>9. ASSUME NEW f \in Files, CheckFile(f) PROVE CumulativeIsAggregate'
    BY <1>9 DEF CheckFile, Checked, Goto, candidate, durable, call, seen, IInv,
       CumulativeIsAggregate
  <1>10. ASSUME NEW f \in Files, UndoCheck(f) PROVE CumulativeIsAggregate'
    BY <1>10 DEF UndoCheck, Checked, Goto, candidate, durable, call, seen, IInv,
       CumulativeIsAggregate
  <1>11. ASSUME NEW f \in Files, ReplaceFile(f) PROVE CumulativeIsAggregate'
    BY <1>11 DEF ReplaceFile, Renamed, Goto, NoEnv, edited, candidate, durable, seen, IInv,
       CumulativeIsAggregate
  <1>12. ASSUME NEW f \in Files, UndoReplace(f) PROVE CumulativeIsAggregate'
    BY <1>12 DEF UndoReplace, Renamed, Goto, NoEnv, edited, candidate, durable, seen, IInv,
       CumulativeIsAggregate
  <1>13. CASE ReplaceFails
    BY <1>13 DEF ReplaceFails, Goto, NoEnv, edited, candidate, durable, call, seen, IInv,
       CumulativeIsAggregate
  <1>14. CASE Record
    BY <1>14 DEF Record, Goto, NoEnv, edited, candidate, seen, IInv, CumulativeIsAggregate
  <1>15. CASE NextAttempt
    BY <1>15 DEF NextAttempt, Goto, call, IInv, CumulativeIsAggregate
  <1>16. CASE Passed
    BY <1>16 DEF Passed, Goto, NoEnv, edited, candidate, call, seen, IInv, CumulativeIsAggregate
  <1>17. CASE PersistCumulative
    <2>1. /\ pc = "cumulative" /\ cumulative' = {CumulativeDiff} /\ UNCHANGED <<ws, source, edits>>
      BY <1>17 DEF PersistCumulative, NoEnv, seen
    <2>2. ASSUME edits = 0
          PROVE  CumulativeDiff = [f \in Files |-> IF source[f] = ws[f] THEN Same
                                                   ELSE <<source[f], ws[f]>>]
      <3>1. \E f \in Files : first[f] # None
        BY <2>1, <2>2, SomeFirst DEF IInv, Untouched, Finished
      <3>2. \A f \in Files : IF first[f] = None THEN ws[f] = source[f] ELSE first[f] = source[f]
        BY <2>2 DEF IInv, Untouched
      <3> QED
        BY <3>1, <3>2, DiffFromFirst DEF IInv
    <2> QED
      BY <2>1, <2>2 DEF CumulativeIsAggregate
  <1>18. CASE Crash
    BY <1>18 DEF Crash, Goto, candidate, edited, seen, IInv, CumulativeIsAggregate
  <1>19. ASSUME NEW f \in Files, Edit(f) PROVE CumulativeIsAggregate'
    <2>1. edits' # 0
      BY <1>19 DEF Edit, IInv, TypeOK
    <2> QED
      BY <2>1 DEF CumulativeIsAggregate
  <1>20. CASE End
    BY <1>20 DEF End, Goto, NoEnv, edited, candidate, durable, call, seen, IInv,
       CumulativeIsAggregate
  <1>21. CASE UNCHANGED vars
    BY <1>21 DEF vars, edited, candidate, durable, call, seen, IInv, CumulativeIsAggregate
  <1> QED
    BY Steps, <1>1, <1>2, <1>3, <1>4, <1>5, <1>6, <1>7, <1>8, <1>9, <1>10, <1>11, <1>12, <1>13,
       <1>14, <1>15, <1>16, <1>17, <1>18, <1>19, <1>20, <1>21

-----------------------------------------------------------------------------
THEOREM Invariance == Spec => []IInv
  <1>1. Init => IInv
    <2> SUFFICES ASSUME Init PROVE IInv
      OBVIOUS
    <2> USE ChainAssumption DEF Files, Texts, Attempts, Maybe, None, Init
    <2>1. TypeOK
      <3>1. 1 \in Texts /\ 1 \in Attempts /\ Unread \in [Files -> Maybe] /\ NoDiff \in Diffs
            /\ Unseen \in [Files -> {"unread", "before", "after", "unknown"}]
        BY DEF Unread, NoDiff, Same, Diffs, Unseen
      <3>2. ws \in [Files -> Texts] /\ preimages \in [Attempts -> [Files -> Maybe]]
        BY <3>1
      <3>3. edits \in 0 .. MaxEdits /\ crashes \in 0 .. MaxCrashes
        OBVIOUS
      <3> QED
        BY <3>1, <3>2, <3>3 DEF TypeOK, Points
    <2>2. Candidates
      BY DEF Candidates, Shown, NoDiff, Validating, Persisted, Applying, Finished
    <2>3. Calling
      BY DEF Calling
    <2>4. Listing
      BY FS_EmptySet DEF Listing, Unread, Finished
    <2>5. Preimages
      BY DEF Preimages, Persisted, Swapping, Applying, Finished
    <2>6. Firsts
      BY DEF Firsts, Unread, Finished
    <2>7. Kept
      BY DEF Kept, Undisturbed, Validated, NoDiff, Swapping, Finished
    <2>8. Untouched /\ Window /\ CumulativeIsAggregate
      BY DEF Untouched, Window, Unread, CumulativeIsAggregate
    <2> QED
      BY <2>1, <2>2, <2>3, <2>4, <2>5, <2>6, <2>7, <2>8 DEF IInv
  <1>2. IInv /\ [Next]_vars => IInv'
    BY TypeStep, CandidatesStep, CallingStep, PreimagesStep, ListingStep, FirstsStep, KeptStep,
       UntouchedStep, WindowStep, AggregateStep DEF IInv
  <1> QED
    BY <1>1, <1>2, PTL DEF Spec

\* Every variable keeps its type.
THEOREM ChainTyped == Spec => []TypeOK
  BY Invariance, PTL DEF IInv

\* cumulative.diff starts from each file as it was before the program first
\* set out to replace it.
THEOREM DiffStartsFromFirst == Spec => []CumulativeFromFirst
  <1>1. IInv => CumulativeFromFirst
    BY DEF IInv, Firsts, CumulativeFromFirst
  <1> QED
    BY <1>1, Invariance, PTL

\* Without interference it takes the Repository Source to what was verified.
THEOREM DiffIsAggregate == Spec => []CumulativeIsAggregate
  BY Invariance, PTL DEF IInv

\* It changes only files that are listed, and they stay within the limit.
THEOREM DiffIsListed == Spec => []CumulativeIsListed
  <1>1. IInv => CumulativeIsListed
    BY DEF IInv, TypeOK, Listing, CumulativeIsListed, Finished
  <1> QED
    BY <1>1, Invariance, PTL

\* The approved diff is what becomes of the files that nobody edits, whatever is
\* interrupted, replayed or rolled back: done to the end before a Verification.
THEOREM ApprovedDiffIsDone == Spec => []ShownIsApplied
  <1>1. IInv => ShownIsApplied
    <2> SUFFICES ASSUME IInv, NEW f \in Files \ touched
                 PROVE  /\ ws[f] # was[f] => f \in paths /\ shown[f] = <<was[f], ws[f]>>
                        /\ f \in paths /\ pc \in Finished => shown[f] = <<was[f], ws[f]>>
      BY DEF ShownIsApplied
    <2>1. Undisturbed(f) /\ Shown(f) /\ (pc \in Finished => paths = Validated)
      BY DEF IInv, Kept, Candidates, Persisted
    <2>2. f \in Validated => shown[f] = <<was[f], proposed[f]>> /\ f \in paths
      BY <2>1 DEF Undisturbed, Shown, Validated
    <2> QED
      BY <2>1, <2>2 DEF Undisturbed
  <1> QED
    BY <1>1, Invariance, PTL

-----------------------------------------------------------------------------
\* Only a rename changes the workspace without an edit.
LEMMA WhoWrites ==
    ASSUME IInv, [Next]_vars, ProgramWrites
    PROVE  \E f \in Files : ReplaceFile(f) \/ UndoReplace(f)
  <1> SUFFICES ASSUME NEW f \in Files, Edit(f) PROVE FALSE
    BY Steps DEF ReadFile, Propose, ValidateFile, PersistCandidate, Approve, Classify,
       PersistPreimages, AlreadyApplied, CheckFile, UndoCheck, Checked, ReplaceFails, Record,
       NextAttempt, Passed, PersistCumulative, Crash, End, vars, ProgramWrites
  <1> QED
    BY DEF Edit, ProgramWrites, IInv, TypeOK

\* What is replaced was read or proposed in this attempt, or edited since the
\* check of that file: for any number of edits at any moment.
THEOREM ReadBeforeReplaced == Spec => NothingUnreadIsLost
  <1>1. ASSUME IInv, [Next]_vars, ProgramWrites, NEW g \in Files, ws'[g] # ws[g]
        PROVE  /\ g \in Editable /\ ws'[g] \in {readHashes[g], proposed[g]}
               /\ ws[g] \in {readHashes[g], proposed[g]} \/ g \in late
    <2>1. ASSUME g \in Validated
          PROVE  g \in Editable /\ readHashes[g] = expected[g]
      BY <1>1, <2>1 DEF IInv, Candidates, Shown, Validated
    <2>2. ASSUME NEW f \in Files, ReplaceFile(f)
          PROVE  /\ g \in Validated /\ ws'[g] = proposed[g]
                 /\ ws[g] = expected[g] \/ g \in late
      <3>1. g = f /\ ws'[g] = proposed[g]
        BY <1>1, <2>2 DEF ReplaceFile, Renamed, IInv, TypeOK
      <3> QED
        BY <1>1, <2>2, <3>1 DEF ReplaceFile, NextFile, IInv, Candidates, Persisted, Applying, Window
    <2>3. ASSUME NEW f \in Files, UndoReplace(f)
          PROVE  /\ g \in Validated /\ ws'[g] = expected[g]
                 /\ ws[g] = proposed[g] \/ g \in late
      <3>1. g = f /\ ws'[g] = expected[g]
        BY <1>1, <2>3 DEF UndoReplace, Renamed, IInv, TypeOK
      <3> QED
        BY <1>1, <2>3, <3>1 DEF UndoReplace, LastFile, IInv, Candidates, Calling, Persisted,
                                Applying, Window
    <2> QED
      BY <1>1, <2>1, <2>2, <2>3, WhoWrites
  <1>2. IInv /\ [Next]_vars =>
          [ProgramWrites => \A f \in Files : ws'[f] # ws[f] =>
              /\ f \in Editable /\ ws'[f] \in {readHashes[f], proposed[f]}
              /\ ws[f] \in {readHashes[f], proposed[f]} \/ f \in late]_vars
    BY <1>1
  <1> QED
    BY <1>2, Invariance, PTL DEF Spec, NothingUnreadIsLost
=============================================================================
