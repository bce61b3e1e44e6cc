------------------------------ MODULE Assurance ------------------------------
(***************************************************************************)
(* The drills of one workload over time, each running the one check of its *)
(* plan: what the restored data really holds, the history the drills       *)
(* leave, the verdict and the proof each one earns, and the confidence     *)
(* read from them.                                                         *)
(***************************************************************************)
EXTENDS CheckTypes, Confidence

CONSTANTS
  Checks,       \* the checks a plan may consist of, as parsed
  Contents,     \* what the restored data may hold: the number a capture prints
  Situations,   \* the circumstances explored
  DriftWindow,  \* the readings a baseline is the median of
  MaxDrills,    \* bound on the drills
  Period,       \* the days from one drill to the next
  Waits,        \* the days after the newest drill on which the score is read
  Backups       \* what the score may find of the latest backup

ASSUME AssuranceAssumption ==
  /\ DriftWindow \in Nat \ {0} /\ Period \in Nat
  /\ Situations \subseteq Circumstances
  /\ Contents \subseteq Int /\ Nil \notin Int /\ Waits \subseteq Nat
  /\ \A c \in Checks :
       /\ c.type \in CheckTypeNames
       /\ "name" \notin DOMAIN c.params  \* a parsed check: CheckSpec keeps the key
       /\ c.drift # Nil => c.drift.maxDrop \in Nat \ {0} /\ c.drift.percent \in BOOLEAN

VARIABLES
  check,    \* the plan's check
  drills,   \* the workload's runs, oldest first
  silent    \* ghost: the last drill ended on a check nobody answered

assuranceVars == <<check, drills, silent>>

Results == {"SUCCESS", "DEGRADED", "FAILED", "none"}

AssuranceTypeOK ==
  /\ check \in Checks /\ silent \in BOOLEAN
  /\ Len(drills) <= MaxDrills
  /\ \A i \in DOMAIN drills :
       /\ drills[i].state \in {"RUNNING", "SUCCESS", "FAILED", "INCONCLUSIVE", "CANCELLED", "CLEANUP_FAILED"}
       /\ drills[i].result \in Results /\ drills[i].level \in Levels \cup {""}
       /\ drills[i].value \in Contents \cup {Nil}
       /\ drills[i].judged \in BOOLEAN /\ drills[i].slow \in BOOLEAN /\ drills[i].day \in Nat

AssuranceInit ==
  /\ check \in Checks
  /\ drills = <<>> /\ silent = FALSE

\* The newest n of some runs.
NewestOf(runs, n) == {i \in runs : Cardinality({j \in runs : j > i}) < n}

\* CapturedValues: the last readings of runs that reached a verdict.
CapturedValues(runs) ==
  [i \in NewestOf({j \in DOMAIN runs : Reached(runs[j]) /\ runs[j].value # Nil}, DriftWindow)
     |-> runs[i].value]

\* The state and result a drill ends in: runChecks, markInconclusive,
\* markCancelled, gradeSuccess, and a cleanup that fails. A check skipped by
\* a cancellation is not a failure of its own.
Graded(critical, status, cancelled, slow) ==
  LET bad == critical /\ status # "pass"
  IN  IF bad /\ cancelled THEN <<"CANCELLED", "none">>
      ELSE IF bad /\ status = "error" THEN <<"INCONCLUSIVE", "none">>
      ELSE IF bad THEN <<"FAILED", "FAILED">>
      ELSE <<"SUCCESS", IF slow \/ status = "fail" THEN "DEGRADED" ELSE "SUCCESS">>

\* A slip ProvenBy could make: what the check would prove, passed or not.
EarnedAnyway(c, status, up) == Raise(IF up THEN "BOOT" ELSE "NONE", ProvenLevel(c))

\* waitForGuest, then ProvenBy: the boot when the guest agent answered, and
\* what the check proves when it passed.
Earned(c, status, up) ==
  LET boot == IF up THEN "BOOT" ELSE "NONE"
  IN  IF status = "pass" THEN Raise(boot, ProvenLevel(c)) ELSE boot

\* Nobody answered the attempt: the network was silent or the operator
\* stopped it, the guest agent did not run it, or it was never made.
Unanswered(c, e) ==
  \/ e.params = "bad"
  \/ e.dial \in {"timeout", "deadline", "unreachable", "resolver_silent", "cancelled"}
  \/ c.type \in {"command", "ping"} /\ e.dial # "connected"

\* The run is in the list, without a verdict or a level, from the moment it
\* is queued.
Start ==
  /\ Len(drills) < MaxDrills
  /\ drills # <<>> => drills[Len(drills)].state # "RUNNING"
  /\ drills' = Append(drills,
       [state |-> "RUNNING", result |-> "none", level |-> "", value |-> Nil,
        judged |-> FALSE, slow |-> FALSE, day |-> Period * Len(drills)])
  /\ silent' = FALSE
  /\ UNCHANGED check

\* A cleanup that fails replaces the state and keeps the result.
Record(state, result, level, value, judged, slow, cleaned) ==
  /\ drills # <<>> /\ drills[Len(drills)].state = "RUNNING"
  /\ drills' = [drills EXCEPT ![Len(drills)] =
       [state |-> IF cleaned THEN state ELSE "CLEANUP_FAILED", result |-> result, level |-> level,
        value |-> value, judged |-> judged, slow |-> slow, day |-> @.day]]
  /\ UNCHANGED check

\* A drill that ended without a word from its check: the restore, the boot or
\* the agent failed or ran out of time, or the engine panicked.
FailEarly(level, cleaned) ==
  /\ Record("FAILED", "FAILED", level, Nil, FALSE, FALSE, cleaned)
  /\ silent' = FALSE

\* A drill that reached its check, from the check to the record.
Drill(e, printed, slow, cleaned) ==
  LET result == RunOne(check, e, printed, CapturedValues(drills))
      ending == Graded(IsCritical(check), result.status, e.dial = "cancelled", slow)
  IN  /\ Record(ending[1], ending[2], Earned(check, result.status, e.up), result.value, result.judged,
                slow, cleaned)
      /\ silent' = Unanswered(check, e)

AssuranceNext ==
  \/ Start
  \/ \E level \in {"NONE", "BOOT"}, cleaned \in BOOLEAN : FailEarly(level, cleaned)
  \/ \E e \in Situations, v \in Contents, slow, cleaned \in BOOLEAN : Drill(e, v, slow, cleaned)

AssuranceSpec == AssuranceInit /\ [][AssuranceNext]_assuranceVars

-----------------------------------------------------------------------------
(***************************************************************************)
(* Silence decides nothing: a drill that reached its check and was         *)
(* answered by nobody is not FAILED, claims no more than the boot, and     *)
(* leaves the readings the next drill is judged against as they were; when *)
(* the check is critical the proof on record stands too, for the drill     *)
(* reached no verdict (reachability.go, markInconclusive, markCancelled).  *)
(***************************************************************************)
SilenceDecidesNothing ==
  [][silent' =>
       LET run == drills'[Len(drills')]
       IN  /\ run.result # "FAILED" /\ Rank(run.level) <= Rank("BOOT")
           /\ CapturedValues(drills') = CapturedValues(drills)
           /\ IsCritical(check) =>
                LatestProof(drills', DOMAIN drills') = LatestProof(drills, DOMAIN drills)
    ]_assuranceVars

(***************************************************************************)
(* A collapse is not the new normal on the second night: when a drill      *)
(* whose drift was judged passes, its value was beyond the tolerance of    *)
(* at most half of the readings it was judged against, and those are the   *)
(* last DriftWindow readings of drills that reached a verdict (values.go,  *)
(* Baseline; the reading that failed stays in the window).                 *)
(***************************************************************************)
CollapseIsOutvoted ==
  \A n \in DOMAIN drills :
    LET run == drills[n]
        window == NewestOf({i \in 1 .. n - 1 : Reached(drills[i]) /\ drills[i].value # Nil}, DriftWindow)
        Tolerated(value) == IF check.drift.percent THEN check.drift.maxDrop * Abs(value)
                            ELSE 100 * check.drift.maxDrop
        beyond == {i \in window : (drills[i].value - run.value) * 100 > Tolerated(drills[i].value)}
    IN  run.judged /\ run.result = "SUCCESS" =>
          window # {} /\ 2 * Cardinality(beyond) <= Cardinality(window)

(***************************************************************************)
(* A drill claims the data only when it read a value out of the workload   *)
(* and that value is within the bounds its plan states, unless the plan    *)
(* itself declares what the check proves (proof.go, ProvenLevel).          *)
(***************************************************************************)
DataWasRead ==
  \A n \in DOMAIN drills :
    drills[n].level = "DATA" /\ check.proves = "" =>
      /\ drills[n].value # Nil
      /\ check.assert.min # Nil => drills[n].value >= check.assert.min
      /\ check.assert.max # Nil => drills[n].value <= check.assert.max
      /\ check.assert.equals # Nil => drills[n].value = check.assert.equals

\* The newest drill ended with this result, and cleaned up.
EndedWith(result) ==
  /\ Len(drills) > 1
  /\ drills[Len(drills)].result = result
  /\ drills[Len(drills)].state \notin {"RUNNING", "CLEANUP_FAILED"}

\* The score beside what it would be without the newest drill, so many days
\* after that drill ended.
NotLowered(w) ==
  LET today == drills[Len(drills)].day + w IN
  \A b \in Backups :
    WorkloadConfidence(drills, Len(drills), b, today)
      >= WorkloadConfidence(drills, Len(drills) - 1, b, today)

\* The days a success is worth more than none at all: later the penalty for
\* its age outgrows the one for having no success, less what a degraded last
\* run gains by becoming history.
Headroom ==
  Weights.ageGraceDays
    + (Weights.noSuccess + Weights.lastDegraded - Weights.failureRateMax) \div Weights.agePerDay

(***************************************************************************)
(* A drill that succeeds and proves no less than the last verdict did      *)
(* never lowers the score for the next Headroom days, whatever the history *)
(* it joins: the bad runs it leaves behind weigh no more than when one of  *)
(* them was the last word (confidence.go, Score and its DefaultWeights).   *)
(* The exception is a success it pushes off the page the score reads.      *)
(***************************************************************************)
SuccessNeverLowers ==
  LET n == Len(drills)
      before == LatestProof(drills, ListRuns(n - 1))
  IN  /\ EndedWith("SUCCESS") /\ before # "" /\ Rank(drills[n].level) >= Rank(before)
      /\ n > HistoryDepth => drills[n - HistoryDepth].result # "SUCCESS"
      => \A w \in Waits : w <= Headroom => NotLowered(w)

(***************************************************************************)
(* What the comment in Score says a run without a verdict must not do:     *)
(* "let stopping a drill lower the very score that says whether recovery   *)
(* works". It does: the stopped run takes the place of the last run, and   *)
(* the one before moves into the history, where a degraded run weighs up   *)
(* to 30 points instead of 15.                                             *)
(***************************************************************************)
StoppingNeverLowers ==
  EndedWith("none") => \A w \in Waits : NotLowered(w)

=============================================================================
