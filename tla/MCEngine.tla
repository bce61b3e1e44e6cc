------------------------------ MODULE MCEngine ------------------------------
(* Instances of Engine for TLC.                                            *)
EXTENDS Engine

\* A critical service check, then an optional data check.
MCProves == <<2, 3>>

\* Every valid combination that reaches the checks' side of the workflow: the
\* cleanup policy, the startup options and the network are all free.
MCPlans == {p \in PlanTypes : p.skip => p.checks = 0}

=============================================================================
