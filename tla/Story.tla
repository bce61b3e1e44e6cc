------------------------------- MODULE Story -------------------------------
(***************************************************************************)
(* What a finished drill is worth saying (internal/notify, story.go and    *)
(* collapse.go): pure decisions on what one run established against what   *)
(* the workload established before it.                                     *)
(***************************************************************************)
EXTENDS Integers, FiniteSets

Terminal == {"SUCCESS", "FAILED", "CANCELLED", "CLEANUP_FAILED", "INCONCLUSIVE"}
Verdicts == {"SUCCESS", "DEGRADED", "FAILED"}
NoVerdict == ""          \* an empty result, NULL in the database
Unrecorded == -1         \* core.ProofUnknown; the recorded levels are 0 .. 3

\* What a run asserts; NoStory is Go's nil.
Stories == [result : Verdicts \cup {NoVerdict}, proof : Unrecorded .. 3]
NoStory == [result |-> "nil", proof |-> Unrecorded]

Kinds == {"first_verdict", "verdict_changed", "proof_dropped", "became_unevaluable",
          "became_evaluable_again", "value_collapsed"}
Silence == "silence"

\* A level is compared only when both ends were recorded.
ProofDropped(current, previous) ==
  /\ current.proof # Unrecorded /\ previous.proof # Unrecorded
  /\ current.proof < previous.proof

\* A slip Decide could make: coming back from an unevaluable run is no news.
DecideForgetting(state, current, previous, previousUnevaluable) ==
  IF state \notin Terminal \/ state = "CANCELLED" THEN Silence
  ELSE IF state = "INCONCLUSIVE"
         THEN IF previousUnevaluable THEN Silence ELSE "became_unevaluable"
  ELSE IF previous = NoStory THEN "first_verdict"
  ELSE IF current.result # previous.result THEN "verdict_changed"
  ELSE IF ProofDropped(current, previous) THEN "proof_dropped"
  ELSE Silence

\* Decide: is a terminal run worth a message, and why.
Decide(state, current, previous, previousUnevaluable) ==
  IF state \notin Terminal \/ state = "CANCELLED" THEN Silence
  ELSE IF state = "INCONCLUSIVE"
         THEN IF previousUnevaluable THEN Silence ELSE "became_unevaluable"
  ELSE IF previous = NoStory THEN "first_verdict"
  ELSE IF current.result # previous.result THEN "verdict_changed"
  ELSE IF previousUnevaluable THEN "became_evaluable_again"
  ELSE IF ProofDropped(current, previous) THEN "proof_dropped"
  ELSE Silence

-----------------------------------------------------------------------------
(* Captured values.  A reading is [check, name, value]: what one check of  *)
(* a run captured under a name.                                            *)

\* valuesByName: a name that two checks measured is dropped.
ValuesByName(readings) ==
  {r \in readings : \A q \in readings : q.name = r.name => q = r}

\* Zeroed: only a zero can be a collapse.
Zeroed(values) == \E v \in values : v.value = 0

\* collapsed: a value at zero now whose earlier reading was positive.
Collapsed(values, earlier) ==
  \E v \in values : /\ v.value = 0
                    /\ \E w \in earlier : w.name = v.name /\ w.value > 0

\* DecideCollapse: the second question, asked of a run with a verdict.
DecideCollapse(state, current, values, earlier) ==
  IF state \in Terminal /\ current.result # NoVerdict /\ Collapsed(values, earlier)
    THEN "value_collapsed"
    ELSE Silence

=============================================================================
