------------------------------- MODULE MCApi -------------------------------
(***************************************************************************)
(* Instances of Access and Journal for TLC, in one run. The two share no   *)
(* state: a stream is authenticated when it opens and never again. `focus` *)
(* picks the one whose behaviours are explored from an initial state, so   *)
(* that TLC explores their sum and not their product.                      *)
(***************************************************************************)
EXTENDS Access, Journal

VARIABLE focus

vars == <<focus, accessVars, journalVars>>

\* A drill that fails before its first event, and one with a check between
\* two steps.
MCScripts == {<<>>, <<"step", "check", "step">>}

Init ==
  /\ AccessInit /\ JournalInit /\ focus \in {"access", "journal"}
  /\ focus = "access" => script = <<>> /\ leased

OfAccess(A) == focus = "access" /\ A /\ UNCHANGED <<focus, journalVars>>
OfJournal(A) == focus = "journal" /\ A /\ UNCHANGED <<focus, accessVars>>

Next == OfAccess(AccessNext) \/ OfJournal(JournalNext)

\* The drill's goroutine and the reconciling worker run; the stream's handler
\* is never kept from its next pass.
Fairness ==
  /\ WF_vars(OfJournal(Record)) /\ WF_vars(OfJournal(Reconcile)) /\ WF_vars(OfJournal(Follow))

Spec == Init /\ [][Next]_vars /\ Fairness

=============================================================================
