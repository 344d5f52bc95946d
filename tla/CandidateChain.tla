--------------------------- MODULE CandidateChain ---------------------------
(***************************************************************************)
(* The texts a Run hands on from one Repair Attempt to the next: what the  *)
(* model reads (inspection.py), the replacements it proposes from that and *)
(* the diff rendered for the Approval Gate (candidate.py), what is written *)
(* once it is approved, and the cumulative diff of a Run that succeeded    *)
(* (patching.py).  Somebody else may edit the workspace between any two of *)
(* these steps: while the files are read and classified, between the hash  *)
(* check of a file and the rename over it, and while an application that   *)
(* was given up is rolled back.  A SHA-256 stands for the text it was      *)
(* taken of.                                                               *)
(***************************************************************************)
EXTENDS Naturals, FiniteSets

CONSTANTS
    MAX_REPAIR_ATTEMPTS, MAX_FILES_CHANGED,
    NFiles,     \* text files of the workspace, numbered in path order
    NTexts,     \* distinct contents of a file
    Editable,   \* declared editable, neither protected nor a test
    MaxEdits,   \* bound: edits made behind the program's back
    MaxCrashes  \* bound: crashes of the process

Files == 1 .. NFiles
Texts == 1 .. NTexts

ASSUME ChainAssumption ==
    /\ MAX_REPAIR_ATTEMPTS \in Nat \ {0} /\ MAX_FILES_CHANGED \in Nat
    /\ NFiles \in Nat \ {0} /\ NTexts \in Nat \ {0}
    /\ Editable \subseteq Files
    /\ MaxEdits \in Nat /\ MaxCrashes \in Nat

VARIABLES
    ws,             \* the Run Workspace
    attempt,        \* the attempt in progress
    pc,
    readHashes,     \* read_hashes of the attempt's inspector
    paths, expected, proposed,      \* the replacements of the candidate
    shown,          \* candidate.diff: before and after of each file
    preimages,      \* preimages.json of each attempt
    applied,        \* the attempt has a completed, successful apply ledger
    passed,         \* its Verification has a completed ledger, which says passed
    filesChanged,   \* files_changed
    listed,         \* files_changed at the attempt's Approval Gate
    cumulative,     \* cumulative.diff: a set of one diff once it is written
    states,         \* how apply_once has classified the files it has read
    changed,        \* the files the call has replaced, which a rollback visits
    edits, crashes,
    \* Observability, read by no guard
    source,         \* the workspace as it was copied
    was,            \* the workspace when the attempt began
    touched,        \* files edited since then
    late,           \* files edited since the hash of the file at hand was checked
    first,          \* each file before the program first set out to replace it
    byHand          \* a patch was found applied that the program had not begun

candidate == <<readHashes, paths, expected, proposed, shown>>
durable   == <<preimages, applied, passed, filesChanged, listed, cumulative>>
call      == <<states, changed>>
edited    == <<touched, late>>
seen      == <<source, was, first, byHand>>
vars      == <<ws, attempt, pc, candidate, durable, call, edits, crashes, edited, seen>>

-----------------------------------------------------------------------------
Attempts == 1 .. MAX_REPAIR_ATTEMPTS
Applying == {"apply", "check", "replace", "undo", "undo_replace", "record"}
Finished == {"verify", "cumulative", "succeeded"}
Points   == {"model", "validate", "gate", "ended"} \cup Applying \cup Finished

\* No text; the difference of a file that does not change.
None     == 0
Same     == <<None, None>>
Unread   == [f \in Files |-> None]
Unseen   == [f \in Files |-> "unread"]
NoDiff   == [f \in Files |-> Same]
Maybe    == Texts \cup {None}
Diffs    == [Files -> Maybe \X Maybe]

TypeOK ==
    /\ ws \in [Files -> Texts] /\ source \in [Files -> Texts] /\ was \in [Files -> Texts]
    /\ attempt \in Attempts
    /\ pc \in Points
    /\ readHashes \in [Files -> Maybe] /\ first \in [Files -> Maybe]
    /\ paths \subseteq Files /\ filesChanged \subseteq Files /\ listed \subseteq Files
    /\ expected \in [Files -> Maybe] /\ proposed \in [Files -> Maybe]
    /\ shown \in Diffs
    /\ preimages \in [Attempts -> [Files -> Maybe]]
    /\ applied \in BOOLEAN /\ passed \in BOOLEAN /\ byHand \in BOOLEAN
    /\ cumulative \in SUBSET Diffs
    /\ states \in [Files -> {"unread", "before", "after", "unknown"}] /\ changed \subseteq Files
    /\ touched \subseteq Files /\ late \subseteq Files
    /\ edits \in 0 .. MaxEdits /\ crashes \in 0 .. MaxCrashes

\* Texts are only compared with texts of the same file: 1 is the copied one.
Init ==
    /\ ws = [f \in Files |-> 1] /\ source = ws /\ was = ws
    /\ attempt = 1 /\ pc = "model"
    /\ readHashes = Unread /\ paths = {} /\ expected = Unread /\ proposed = Unread
    /\ shown = NoDiff
    /\ preimages = [a \in Attempts |-> Unread]
    /\ applied = FALSE /\ passed = FALSE /\ filesChanged = {} /\ listed = {} /\ cumulative = {}
    /\ states = Unseen /\ changed = {}
    /\ edits = 0 /\ crashes = 0 /\ touched = {} /\ late = {}
    /\ first = Unread /\ byHand = FALSE

Goto(p) == pc' = p
NoEnv   == UNCHANGED <<edits, crashes, edited>>
End     == Goto("ended") /\ NoEnv /\ UNCHANGED <<ws, attempt, candidate, durable, call, seen>>

-----------------------------------------------------------------------------
(* WorkspaceInspector.read_file and the model's answer *)

ReadFile(f) ==
    /\ pc = "model"
    /\ readHashes' = [readHashes EXCEPT ![f] = ws[f]]
    /\ NoEnv /\ UNCHANGED <<ws, attempt, pc, paths, expected, proposed, shown, durable, call, seen>>

\* What the model claims to have read of a file: what it has read, or something else;
\* a hash of anything else is refused, whichever it is.
Claims(f) == {t \in Texts : t = readHashes[f] \/ \A u \in Texts \ {readHashes[f]} : t <= u}

\* The model may propose any texts for one to three files.
Propose ==
    /\ pc = "model"
    /\ paths' \in SUBSET Files /\ paths' # {} /\ Cardinality(paths') <= 3
    /\ expected' \in {g \in [Files -> Maybe] :
                        \A f \in Files : g[f] \in IF f \in paths' THEN Claims(f) ELSE {None}}
    /\ proposed' \in {g \in [Files -> Maybe] : \A f \in Files : g[f] = None <=> f \notin paths'}
    /\ Goto("validate")
    /\ NoEnv /\ UNCHANGED <<ws, attempt, readHashes, shown, durable, call, seen>>

-----------------------------------------------------------------------------
(* _validate_and_diff: file by file, in path order *)

Validated == {f \in Files : shown[f] # Same}
IsNext(f) == f \in paths \ Validated /\ \A g \in paths \ Validated : f <= g

Acceptable(f) ==
    /\ f \in Editable
    /\ readHashes[f] # None /\ expected[f] = readHashes[f]
    /\ ws[f] = expected[f]
    /\ proposed[f] # ws[f]

ValidateFile(f) ==
    /\ pc = "validate" /\ IsNext(f) /\ Acceptable(f)
    /\ shown' = [shown EXCEPT ![f] = <<ws[f], proposed[f]>>]
    /\ NoEnv
    /\ UNCHANGED <<ws, attempt, pc, readHashes, paths, expected, proposed, durable, call, seen>>

RefuseFile(f) == pc = "validate" /\ IsNext(f) /\ ~Acceptable(f) /\ End

\* A path proposed twice, a text that is empty, too long or has a NUL.
RefuseContent == pc = "validate" /\ paths # Validated /\ End

PersistCandidate ==
    /\ pc = "validate" /\ paths = Validated
    /\ Goto("gate")
    /\ NoEnv /\ UNCHANGED <<ws, attempt, candidate, durable, call, seen>>

-----------------------------------------------------------------------------
(* The Approval Gate and apply_candidate *)

Approve ==
    /\ pc = "gate"
    /\ Goto("apply")
    /\ NoEnv /\ UNCHANGED <<ws, attempt, candidate, durable, call, seen>>

Reject == pc = "gate" /\ End

\* Mutant: the limit is that of one patch.
WithinLimitOfPatch == Cardinality(paths) <= MAX_FILES_CHANGED
WithinLimit == Cardinality(filesChanged \cup paths) <= MAX_FILES_CHANGED

\* apply_once reads the files one after the other.
Seen(f) ==
    CASE ws[f] = expected[f] -> "before"
      [] ws[f] = proposed[f] -> "after"
      [] OTHER               -> "unknown"

Classify(f) ==
    /\ pc = "apply" /\ WithinLimit
    /\ f \in paths /\ \A g \in paths : states[g] = "unread" <=> f <= g
    /\ states' = [states EXCEPT ![f] = Seen(f)]
    /\ NoEnv /\ UNCHANGED <<ws, attempt, pc, candidate, durable, changed, seen>>

\* Mutant: a mixture counts as applied.
AllAfterSome == \E f \in paths : states[f] = "after"
AllBefore == \A f \in paths : states[f] = "before"
AllAfter  == \A f \in paths : states[f] = "after"

RefuseApply ==
    /\ pc = "apply"
    /\ \/ ~WithinLimit
       \/ (\A f \in paths : states[f] # "unread") /\ ~AllBefore /\ ~AllAfter
       \/ AllBefore /\ applied
    /\ End

\* What the first call of apply_once has read is what a rollback would restore.
PersistPreimages ==
    /\ pc = "apply" /\ AllBefore /\ ~applied
    /\ preimages' = [preimages EXCEPT ![attempt] = expected]
    /\ first' = [f \in Files |-> IF first[f] = None THEN expected[f] ELSE first[f]]
    /\ Goto("check") /\ states' = Unseen
    /\ NoEnv
    /\ UNCHANGED <<ws, attempt, candidate, applied, passed, filesChanged, listed, cumulative,
                   changed, source, was, byHand>>

AlreadyApplied ==
    /\ pc = "apply" /\ AllAfter
    /\ byHand' = (byHand \/ preimages[attempt] = Unread)
    /\ Goto("record") /\ states' = Unseen
    /\ NoEnv
    /\ UNCHANGED <<ws, attempt, candidate, durable, changed, source, was, first>>

-----------------------------------------------------------------------------
(* _atomic_replace_text for each file, and for each file of a rollback *)

NextFile(f) == f \in paths \ changed /\ \A g \in paths \ changed : f <= g
LastFile(f) == f \in changed /\ \A g \in changed : g <= f

\* Mutant: the text on disk is not compared with what it replaces.
HoldsUnchecked(f, text) == TRUE
Holds(f, text) == ws[f] = text

Checked(f, text, next, otherwise) ==
    /\ IF Holds(f, text) THEN Goto(next) ELSE Goto(otherwise)
    /\ late' = {}
    /\ UNCHANGED <<ws, attempt, candidate, durable, call, edits, crashes, touched, seen>>

CheckFile(f) == pc = "check" /\ NextFile(f) /\ Checked(f, expected[f], "replace", "undo")
UndoCheck(f) == pc = "undo" /\ LastFile(f) /\ Checked(f, proposed[f], "undo_replace", "ended")

Renamed(f, text) ==
    /\ ws' = [ws EXCEPT ![f] = text]
    /\ NoEnv /\ UNCHANGED <<attempt, candidate, durable, states, seen>>

\* When the directory's fsync fails the file is replaced and not in the list.
ReplaceFile(f) ==
    /\ pc = "replace" /\ NextFile(f) /\ Renamed(f, proposed[f])
    /\ \/ changed' = changed \cup {f} /\ Goto(IF changed' = paths THEN "record" ELSE "check")
       \/ changed' = changed /\ Goto("undo")

\* The rollback has no rollback: its errors escape, and the Run ends.
UndoReplace(f) ==
    /\ pc = "undo_replace" /\ LastFile(f) /\ Renamed(f, expected[f])
    /\ \/ changed' = changed \ {f} /\ Goto("undo")
       \/ changed' = changed /\ Goto("ended")

\* The temporary file cannot be written or renamed.
ReplaceFails ==
    /\ pc = "replace"
    /\ Goto("undo")
    /\ NoEnv /\ UNCHANGED <<ws, attempt, candidate, durable, call, seen>>

UndoFails == pc = "undo_replace" /\ End
Undone    == pc = "undo" /\ changed = {} /\ End

\* The ledger says applied or already_applied.
Record ==
    /\ pc = "record"
    /\ applied' = TRUE
    /\ filesChanged' = filesChanged \cup paths
    /\ changed' = {} /\ Goto("verify")
    /\ NoEnv
    /\ UNCHANGED <<ws, attempt, candidate, preimages, passed, listed, cumulative, states, seen>>

\* It cannot be written, or is left by half, which every later call refuses.
RecordFails == pc = "record" /\ End

-----------------------------------------------------------------------------
(* Verification and what follows it *)

\* Mutant: one attempt too many.
MoreAttemptsThanMax == attempt <= MAX_REPAIR_ATTEMPTS

MoreAttempts == attempt < MAX_REPAIR_ATTEMPTS

NextAttempt ==
    /\ pc = "verify" /\ ~passed /\ MoreAttempts
    /\ attempt' = attempt + 1
    /\ Goto("model")
    /\ readHashes' = Unread /\ paths' = {} /\ expected' = Unread /\ proposed' = Unread
    /\ shown' = NoDiff
    /\ applied' = FALSE /\ listed' = filesChanged
    /\ was' = ws /\ touched' = {}
    /\ UNCHANGED <<ws, preimages, passed, filesChanged, cumulative, call, edits, crashes, late,
                   source, first, byHand>>

Exhausted == pc = "verify" /\ ~passed /\ ~MoreAttempts /\ End

Passed ==
    /\ pc = "verify"
    /\ passed' = TRUE
    /\ Goto("cumulative")
    /\ NoEnv
    /\ UNCHANGED <<ws, attempt, candidate, preimages, applied, filesChanged, listed, cumulative,
                   call, seen>>

HasPreimage(f) == {a \in 1 .. attempt : preimages[a][f] # None}

\* Mutant: each attempt overwrites the preimages of the earlier ones.
LatestPreimage(f) ==
    IF HasPreimage(f) = {} THEN None
    ELSE preimages[CHOOSE a \in HasPreimage(f) : \A b \in HasPreimage(f) : a >= b][f]

\* preimages.setdefault, attempt by attempt.
Preimage(f) ==
    IF HasPreimage(f) = {} THEN None
    ELSE preimages[CHOOSE a \in HasPreimage(f) : \A b \in HasPreimage(f) : a <= b][f]

\* Mutant: only the files of the last candidate are compared.
CumulativeOfLast ==
    [f \in Files |-> IF f \notin paths \/ Preimage(f) \in {None, ws[f]} THEN Same
                     ELSE <<Preimage(f), ws[f]>>]

CumulativeDiff ==
    IF \A f \in Files : Preimage(f) = None
    THEN shown
    ELSE [f \in Files |-> IF Preimage(f) \in {None, ws[f]} THEN Same ELSE <<Preimage(f), ws[f]>>]

PersistCumulative ==
    /\ pc = "cumulative" /\ cumulative \subseteq {CumulativeDiff}
    /\ cumulative' = {CumulativeDiff}
    /\ Goto("succeeded")
    /\ NoEnv
    /\ UNCHANGED <<ws, attempt, candidate, preimages, applied, passed, filesChanged, listed, call,
                   seen>>

CumulativeMismatch == pc = "cumulative" /\ ~(cumulative \subseteq {CumulativeDiff}) /\ End

-----------------------------------------------------------------------------
(* The environment *)

\* Only a Run at its Approval Gate can be resumed: it is approved again, and
\* what followed is replayed from there.
Crash ==
    /\ pc \in Applying \cup Finished /\ crashes < MaxCrashes
    /\ crashes' = crashes + 1
    /\ filesChanged' = listed
    /\ states' = Unseen /\ changed' = {}
    /\ Goto("apply")
    /\ UNCHANGED <<ws, attempt, candidate, preimages, applied, passed, listed, cumulative, edits,
                   edited, seen>>

Edit(f) ==
    /\ edits < MaxEdits
    /\ edits' = edits + 1
    /\ ws' \in {[ws EXCEPT ![f] = t] : t \in Texts \ {ws[f]}}
    /\ touched' = touched \cup {f} /\ late' = late \cup {f}
    /\ UNCHANGED <<attempt, pc, candidate, durable, call, crashes, seen>>

-----------------------------------------------------------------------------
Model      == (\E f \in Files : ReadFile(f)) \/ Propose
Validation == (\E f \in Files : ValidateFile(f) \/ RefuseFile(f)) \/ RefuseContent
              \/ PersistCandidate
Apply      == Approve \/ Reject \/ (\E f \in Files : Classify(f)) \/ RefuseApply
              \/ PersistPreimages \/ AlreadyApplied \/ Record \/ RecordFails
Replacing  == (\E f \in Files : CheckFile(f) \/ ReplaceFile(f)) \/ ReplaceFails
RollBack   == (\E f \in Files : UndoCheck(f) \/ UndoReplace(f)) \/ UndoFails \/ Undone
Outcome    == NextAttempt \/ Exhausted \/ Passed \/ PersistCumulative \/ CumulativeMismatch
Next       == Model \/ Validation \/ Apply \/ Replacing \/ RollBack \/ Outcome \/ Crash
              \/ \E f \in Files : Edit(f)

Spec == Init /\ [][Next]_vars

-----------------------------------------------------------------------------
(* Properties *)

ProgramWrites == ws' # ws /\ edits' = edits

\* The diff a user approved is what is done to the workspace, although it was
\* rendered from reads made one after the other and long before, and whatever was
\* interrupted, replayed or rolled back: a file that nobody edited in this attempt is
\* as it was or as the diff says, and when the attempt goes on to its Verification
\* the whole diff is applied.
ShownIsApplied ==
    \A f \in Files \ touched :
        /\ ws[f] # was[f] => f \in paths /\ shown[f] = <<was[f], ws[f]>>
        /\ f \in paths /\ pc \in Finished => shown[f] = <<was[f], ws[f]>>

\* What the program replaces is a text the model was given by an explicit read in the
\* same attempt, or in a rollback the text it proposed, in a file it may edit; the
\* only edits it loses unread are those made after the hash of that very file was
\* checked and before it is replaced.
NothingUnreadIsLost ==
    [][ProgramWrites => \A f \in Files : ws'[f] # ws[f] =>
          /\ f \in Editable /\ ws'[f] \in {readHashes[f], proposed[f]}
          /\ ws[f] \in {readHashes[f], proposed[f]} \/ f \in late]_vars

\* A Run that succeeded and that nobody interfered with has a cumulative.diff
\* that takes the Repository Source to the workspace that was verified,
\* whatever its attempts changed, changed again or changed back.
CumulativeIsAggregate ==
    pc = "succeeded" /\ edits = 0 =>
        cumulative = {[f \in Files |-> IF source[f] = ws[f] THEN Same ELSE <<source[f], ws[f]>>]}

\* Whoever edits in between, it starts from each file as it was before the
\* program first set out to replace it, and shows no other file, unless a patch
\* was found that somebody else had applied.
CumulativeFromFirst ==
    pc = "succeeded" /\ ~byHand =>
        \A d \in cumulative, f \in Files : d[f] # Same => d[f][1] = first[f]

\* The Run Report agrees with itself: every file cumulative.diff changes is in
\* files_changed, which stays within MAX_FILES_CHANGED.
CumulativeIsListed ==
    pc = "succeeded" =>
        /\ \A d \in cumulative : {f \in Files : d[f] # Same} \subseteq filesChanged
        /\ Cardinality(filesChanged) <= MAX_FILES_CHANGED
=============================================================================
