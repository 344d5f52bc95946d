--------------------------- MODULE RequestBudget ---------------------------
(***************************************************************************)
(* What a Run promises about the model requests it pays for: there is a    *)
(* ceiling for the whole Run, whatever is billed was sent, and while the   *)
(* Run goes on everything that was sent is billed in the end.  Nothing is  *)
(* said of phases, corrections, tool turns or retries: ModelBudget is      *)
(* shown to implement it.                                                  *)
(***************************************************************************)
EXTENDS Naturals

CONSTANT Ceiling

VARIABLES
    spent,      \* requests sent to the provider
    billed,     \* requests the Run accounts for
    closed      \* the Run is over

vars == <<spent, billed, closed>>

Init == spent = 0 /\ billed = 0 /\ closed = FALSE

Send ==
    /\ ~closed /\ spent < Ceiling
    /\ spent' = spent + 1
    /\ UNCHANGED <<billed, closed>>

\* A Run that goes on has billed all it sent.
Bill ==
    /\ ~closed
    /\ billed' = spent
    /\ UNCHANGED <<spent, closed>>

\* A Run that breaks off may bill less than it sent, never more.
Close ==
    /\ ~closed
    /\ closed' = TRUE
    /\ billed' \in billed .. spent
    /\ UNCHANGED spent

Next == Send \/ Bill \/ Close

Spec == Init /\ [][Next]_vars
=============================================================================
