------------------------------ MODULE MCNotify ------------------------------
(* Instances of Notify for TLC.                                            *)
EXTENDS Notify

Ends(state, result, proof, readings) ==
  [state |-> state, story |-> [result |-> result, proof |-> proof], readings |-> readings,
   completed |-> TRUE]
Dies(state) == [Ends(state, NoVerdict, Unrecorded, {}) EXCEPT !.completed = FALSE]
Reads(check, value) == [check |-> check, name |-> "rows", value |-> value]

\* Every way to end that Decide and DecideCollapse tell apart: a verdict at
\* two levels and at none recorded, a value that is positive or zero, another
\* verdict, and the ways to reach none.
MCOutcomes == {Ends("SUCCESS", "SUCCESS", 3, {Reads(1, 5)}),
               Ends("SUCCESS", "SUCCESS", Unrecorded, {Reads(1, 0)}),
               Ends("SUCCESS", "SUCCESS", 1, {}),
               Ends("CLEANUP_FAILED", "FAILED", 0, {Reads(1, 5), Reads(2, 0)}),
               Ends("CANCELLED", NoVerdict, Unrecorded, {}),
               Ends("INCONCLUSIVE", NoVerdict, 1, {}),
               Ends("CLEANUP_FAILED", NoVerdict, Unrecorded, {}),
               Dies("FAILED")}
MCOne == {Ends("SUCCESS", "SUCCESS", 3, {})}

=============================================================================
