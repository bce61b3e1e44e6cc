---------------------------- MODULE MCDrillQueue ----------------------------
(* Instances of DrillQueue for TLC.                                        *)
EXTENDS DrillQueue, TLC

\* Workers and ids are interchangeable; runs differ by their plans' policies.
WorkersAndIds == Permutations(Workers) \cup Permutations(VMIDs)

=============================================================================
