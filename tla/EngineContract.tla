--------------------------- MODULE EngineContract ---------------------------
(***************************************************************************)
(* One drill as the queue sees it: what module DrillQueue assumes of the   *)
(* engine between EngineBegin and Finish.  The engine reserves an id, may  *)
(* create a workload under it, grades the drill once, and cleans up before *)
(* it hands the run back.                                                  *)
(***************************************************************************)
VARIABLES
  phase,   \* "discover", "reserved", "restored", "cleaning" or "finish"
  halted,  \* the drill's context is cancelled
  alive,   \* something exists on the cluster under the drill's id
  grade    \* the state the run is handed back with; "none" before grading

vars == <<phase, halted, alive, grade>>

Init ==
  /\ phase = "discover" /\ halted \in BOOLEAN
  /\ alive = FALSE /\ grade = "none"

Halt == halted' = TRUE /\ UNCHANGED <<phase, alive, grade>>

Reserve ==
  /\ phase = "discover" /\ ~halted
  /\ phase' = "reserved"
  /\ UNCHANGED <<halted, alive, grade>>

Restore ==
  /\ phase = "reserved" /\ ~halted /\ ~alive
  /\ phase' = "restored" /\ alive' = TRUE
  /\ UNCHANGED <<halted, grade>>

\* A restore whose answer was lost: the cluster has it, the engine does not.
LostRestore ==
  /\ phase = "reserved" /\ ~alive
  /\ alive' = TRUE
  /\ UNCHANGED <<phase, halted, grade>>

\* The cluster drops what a failed restore task had begun.
Vanish ==
  /\ alive /\ alive' = FALSE
  /\ UNCHANGED <<phase, halted, grade>>

Unsuccessful == IF halted THEN {"CANCELLED", "FAILED"} ELSE {"FAILED"}

\* Nothing was created as far as the engine knows.
AbortEarly ==
  /\ phase \in {"discover", "reserved"}
  /\ grade' \in Unsuccessful
  /\ phase' = "finish"
  /\ UNCHANGED <<halted, alive>>

\* A dry run ends before it has reserved anything.
Rehearse ==
  /\ phase = "discover"
  /\ grade' = "SUCCESS" /\ phase' = "finish"
  /\ UNCHANGED <<halted, alive>>

\* The grade is decided before the cleanup, which the plan may waive.
GradeDrill ==
  /\ phase = "restored"
  /\ grade' \in Unsuccessful \cup {"SUCCESS"} \cup (IF halted THEN {} ELSE {"INCONCLUSIVE"})
  /\ phase' \in {"cleaning", "finish"}
  /\ UNCHANGED <<halted, alive>>

\* The one attempt to delete: only its success leaves the grade standing.
CleanupDrill ==
  /\ phase = "cleaning"
  /\ \/ alive /\ alive' = FALSE /\ UNCHANGED grade
     \/ alive' \in {alive, FALSE} /\ grade' = "CLEANUP_FAILED"
  /\ phase' = "finish"
  /\ UNCHANGED halted

Next ==
  \/ Halt \/ Reserve \/ Restore \/ LostRestore \/ Vanish \/ AbortEarly
  \/ Rehearse \/ GradeDrill \/ CleanupDrill

Spec == Init /\ [][Next]_vars

=============================================================================
