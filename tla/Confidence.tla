----------------------------- MODULE Confidence -----------------------------
(***************************************************************************)
(* The recovery confidence of a workload: report.Score over the runs       *)
(* ListRuns answers with. The runs of the workload are a sequence, oldest   *)
(* first; a page of them is a set of positions in it. A run is its state,   *)
(* its result ("none" when it reached no verdict), its proof level, whether *)
(* it missed its RTO, and the day it ended.                                 *)
(***************************************************************************)
EXTENDS PlanRules, FiniteSetsExt

CONSTANT HistoryDepth  \* confidenceHistoryDepth, the runs the score reads

ASSUME DepthAssumption == HistoryDepth \in Nat \ {0}

\* DefaultWeights.
Weights ==
  [ageGraceDays |-> 7, agePerDay |-> 2, ageMax |-> 40, noSuccess |-> 35, lastFailed |-> 30,
   lastDegraded |-> 15, rtoExceeded |-> 10, cleanupFailed |-> 15, noBackup |-> 50,
   backupStale |-> 20, failureRateMax |-> 30]

\* ProofCap: no ceiling for DATA, nor for a level that was never recorded.
ProofCap(level) ==
  CASE level = "NONE" -> 40 [] level = "BOOT" -> 60 [] level = "SERVICE" -> 85 [] OTHER -> 100

Reached(run) == run.result # "none"

\* The newest of some runs, 0 when there is none.
Newest(runs) == IF runs = {} THEN 0 ELSE Max(runs)

MostRecentSuccess(all, page) == Newest({i \in page : all[i].result = "SUCCESS"})

\* provenLevel: of the newest run that reached a verdict and recorded one.
LatestProof(all, page) ==
  LET run == Newest({i \in page : Reached(all[i]) /\ all[i].level \in Levels})
  IN  IF run = 0 THEN "" ELSE all[run].level

\* What a success this many days old costs.
Aged(days) ==
  LET over == days - Weights.ageGraceDays
  IN  IF over <= 0 THEN 0
      ELSE IF over * Weights.agePerDay > Weights.ageMax THEN Weights.ageMax
      ELSE over * Weights.agePerDay

AgePenalty(all, page, today) ==
  LET success == MostRecentSuccess(all, page)
  IN  IF success = 0 THEN Weights.noSuccess ELSE Aged(today - all[success].day)

\* The last run: its result, its RTO when it reached a verdict, its cleanup.
LastRunPenalty(last) ==
  (CASE last.result = "FAILED" -> Weights.lastFailed
     [] last.result = "DEGRADED" -> Weights.lastDegraded [] OTHER -> 0)
  + (IF Reached(last) /\ last.slow THEN Weights.rtoExceeded ELSE 0)
  + (IF last.state = "CLEANUP_FAILED" THEN Weights.cleanupFailed ELSE 0)

\* The latest backup: none (or a cluster that cannot be asked), stale, fresh.
BackupPenalty(backup) ==
  CASE backup = "none" -> Weights.noBackup [] backup = "stale" -> Weights.backupStale [] OTHER -> 0

\* The share of these runs that failed, in points, rounded.
Rate(failed, counted) ==
  IF counted = 0 THEN 0
  ELSE (2 * failed * Weights.failureRateMax + counted) \div (2 * counted)

\* A slip the failure rate could make: a run without a verdict counts.
FailureRateOfAll(all, history) ==
  Rate(Cardinality({i \in history : all[i].result # "SUCCESS"}), Cardinality(history))

\* The failure rate over the runs before the last one; a run that reached no
\* verdict is not in the denominator.
FailureRatePenalty(all, history) ==
  LET counted == {i \in history : Reached(all[i])}
  IN  Rate(Cardinality({i \in counted : all[i].result # "SUCCESS"}), Cardinality(counted))

\* The penalties alone.
Penalty(all, page, backup, today) ==
  LET last == Newest(page)
  IN  AgePenalty(all, page, today) + LastRunPenalty(all[last]) + BackupPenalty(backup)
        + FailureRatePenalty(all, page \ {last})

\* What is left of 100, no more than was proven and never below 0; Nil is
\* "never tested".
Score(all, page, backup, today) ==
  LET earned == 100 - Penalty(all, page, backup, today)
      ceiling == ProofCap(LatestProof(all, page))
      capped == IF earned > ceiling THEN ceiling ELSE earned
  IN  IF page = {} THEN Nil ELSE IF capped < 0 THEN 0 ELSE capped

\* ListRuns of the first n runs: one page, the newest.
ListRuns(n) == {i \in 1 .. n : i + HistoryDepth > n}

\* handleWorkloadConfidence, when there were n runs: scored when it is asked
\* for, never stored.
WorkloadConfidence(all, n, backup, today) == Score(all, ListRuns(n), backup, today)

=============================================================================
