--------------------------- MODULE DrillLifecycle ---------------------------
(***************************************************************************)
(* What the queue promises about one drill, whatever processes, sweeps and *)
(* statements bring it about: it is submitted once, taken by at most one   *)
(* process once, driven by that process alone, and settled once - never    *)
(* while it is still being driven, and for good.                           *)
(***************************************************************************)
CONSTANT Runs

VARIABLES
  phase,   \* phase[r]: "absent", "waiting", "taken" or "settled"
  driven   \* the runs some process is driving at this moment

Init ==
  /\ phase = [r \in Runs |-> "absent"]
  /\ driven = {}

Submit(r) ==
  /\ phase[r] = "absent"
  /\ phase' = [phase EXCEPT ![r] = "waiting"]
  /\ UNCHANGED driven

\* A drill nobody has taken is cancelled on the spot.
Withdraw(r) ==
  /\ phase[r] = "waiting"
  /\ phase' = [phase EXCEPT ![r] = "settled"]
  /\ UNCHANGED driven

\* The one way a run comes to be driven; the process that took it may never
\* learn that it did.
Take(r) ==
  /\ phase[r] = "waiting"
  /\ phase' = [phase EXCEPT ![r] = "taken"]
  /\ driven' \in {driven, driven \cup {r}}

\* Its process dies, or gives up without being able to say so.
Abandon(S) ==
  /\ S \subseteq driven
  /\ driven' = driven \ S
  /\ UNCHANGED phase

\* The driver reports its result, or somebody settles an abandoned run.
Settle(r) ==
  /\ phase[r] = "taken"
  /\ phase' = [phase EXCEPT ![r] = "settled"]
  /\ driven' = driven \ {r}

Next ==
  \/ \E r \in Runs : Submit(r) \/ Withdraw(r) \/ Take(r) \/ Settle(r)
  \/ \E S \in SUBSET driven : Abandon(S)

Spec == Init /\ [][Next]_<<phase, driven>>

=============================================================================
