---------------------------- MODULE EngineProofs ----------------------------
(***************************************************************************)
(* Proofs about Engine for every plan, any number of checks and retries,   *)
(* any startup timeout, with and without lost answers.                     *)
(***************************************************************************)
EXTENDS Engine, TLAPS

Before == {"discover_backup", "prepare_environment", "restore"}
Restored == {"job", "finalize", "start", "wait_for_guest", "run_checks"}

\* Where Run stands, what it has reserved and what it owes agree.
Placement ==
  /\ at \in Before => ~needsCleanup
  /\ at \in Restored \cup {"stop", "delete"} => needsCleanup
  /\ at \in {"discover_backup", "prepare_environment"} => ~reserved
  /\ at = "restore" \/ needsCleanup => reserved
  /\ reserved => plan.network \in {"unverified", "verified"} /\ ~plan.dryRun
  /\ at = "unwind" /\ failure \in {"none", "unevaluated"} =>
       needsCleanup \/ (failure = "none" /\ ~reserved)
  /\ at \in Workflow => failure = "none"
  /\ at \in Workflow \cup {"unwind"} => grade = "none"
  /\ at # "done" => final = "none"
  /\ at \in {"stop", "delete"} => grade # "none"

\* What is on the cluster at each point.
OnCluster ==
  /\ ~reserved \/ at = "restore" => wl = "absent" /\ task = "none"
  /\ (task = "running") <=> (wl = "building")
  /\ at = "job" => task # "none" /\ wl \in {"building", "raw", "absent"}
  /\ at = "job" /\ task = "ok" => wl = "raw"
  /\ at = "finalize" => wl = "raw" /\ task = "ok"
  /\ at = "start" => wl \in {"hardened", "running"}
  /\ wl # "exposed"

IInv == TypeOK /\ Placement /\ OnCluster

-----------------------------------------------------------------------------
USE DEF Levels, Steps, Workflow, Graded

\* The CHOOSE of ProvenBy has a witness, the highest of four levels: it bounds
\* what the passing checks establish and one of them establishes it.
LEMMA ProvenByLevel ==
  ASSUME NEW res
  PROVE  /\ ProvenBy(res) \in Levels
         /\ \A i \in 1 .. NumChecks : res[i] = "pass" => Proves[i] <= ProvenBy(res)
         /\ \/ ProvenBy(res) = 0
            \/ \E i \in 1 .. NumChecks : res[i] = "pass" /\ Proves[i] = ProvenBy(res)
<1> DEFINE P(l) == /\ \A i \in 1 .. NumChecks : res[i] = "pass" => Proves[i] <= l
                   /\ l = 0 \/ \E i \in 1 .. NumChecks : res[i] = "pass" /\ Proves[i] = l
<1>1. \E l \in Levels : P(l)
  <2>1. \A i \in 1 .. NumChecks : Proves[i] \in {0, 1, 2, 3}
    BY ChecksAssumption
  <2>2. CASE \E i \in 1 .. NumChecks : res[i] = "pass" /\ Proves[i] = 3
    <3>1. P(3) BY <2>1, <2>2
    <3> QED BY <3>1
  <2>3. CASE /\ ~ \E i \in 1 .. NumChecks : res[i] = "pass" /\ Proves[i] = 3
             /\ \E i \in 1 .. NumChecks : res[i] = "pass" /\ Proves[i] = 2
    <3>1. P(2) BY <2>1, <2>3
    <3> QED BY <3>1
  <2>4. CASE /\ ~ \E i \in 1 .. NumChecks : res[i] = "pass" /\ Proves[i] \in {2, 3}
             /\ \E i \in 1 .. NumChecks : res[i] = "pass" /\ Proves[i] = 1
    <3>1. P(1) BY <2>1, <2>4
    <3> QED BY <3>1
  <2>5. CASE ~ \E i \in 1 .. NumChecks : res[i] = "pass" /\ Proves[i] \in {1, 2, 3}
    <3>1. P(0) BY <2>1, <2>5
    <3> QED BY <3>1
  <2> QED BY <2>2, <2>3, <2>4, <2>5
<1> HIDE DEF P
<1>2. (CHOOSE l \in Levels : P(l)) \in Levels /\ P(CHOOSE l \in Levels : P(l))
  BY <1>1
<1>3. ProvenBy(res) \in Levels /\ P(ProvenBy(res))
  BY <1>2 DEF ProvenBy, P
<1> QED BY <1>3 DEF P

LEMMA TypeInit == Init => TypeOK
<1> SUFFICES ASSUME Init PROVE TypeOK
  OBVIOUS
<1>1. /\ cancelled \in BOOLEAN /\ reserved \in BOOLEAN /\ needsCleanup \in BOOLEAN
      /\ slow \in BOOLEAN /\ cleanupDone \in BOOLEAN
  BY Zenon DEF Init
<1> QED BY <1>1, ChecksAssumption, PollsAssumption DEF Init, TypeOK

\* Every action keeps the types; the contract and the verdict build on it.
LEMMA TypeStep == TypeOK /\ [Next]_vars => TypeOK'
<1> SUFFICES ASSUME TypeOK, [Next]_vars PROVE TypeOK'
  OBVIOUS
<1> USE ChecksAssumption, PollsAssumption, PlansAssumption DEF TypeOK
<1> USE DEF args, cluster, checking, ending
<1>1. CASE DiscoverBackup BY <1>1 DEF DiscoverBackup, Move, Abort
<1>2. CASE PrepareEnvironment
  <2>1. reserved' \in BOOLEAN BY <1>2, Zenon DEF PrepareEnvironment
  <2> QED BY <1>2, <2>1 DEF PrepareEnvironment, Move, Abort, Complete
<1>3. CASE SubmitRestore
  <2>1. needsCleanup' \in BOOLEAN BY <1>3, Zenon DEF SubmitRestore
  <2> QED BY <1>3, <2>1 DEF SubmitRestore, Abort
<1>4. CASE AwaitJob BY <1>4 DEF AwaitJob, Abort, Retry
<1>5. CASE FinalizeRestore BY <1>5 DEF FinalizeRestore, Move, Abort
<1>6. CASE StartWorkload BY <1>6 DEF StartWorkload, Move, Abort, Retry, Powered
<1>7. CASE WaitForGuest
  BY <1>7 DEF WaitForGuest, GuestIsUp, Move, Abort, Retry, Complete, Raise
<1>8. CASE BeginCheck
  <2>1. next \in 1 .. NumChecks
    BY <1>8 DEF BeginCheck, PlanTypes
  <2> QED BY <1>8, <2>1 DEF BeginCheck, Record
<1>9. CASE EndAttempt
  <2>1. next \in 1 .. NumChecks
    BY <1>9 DEF EndAttempt, PlanTypes
  <2> QED BY <1>9, <2>1 DEF EndAttempt, Record
<1>10. CASE FinishChecks
  BY <1>10, ProvenByLevel DEF FinishChecks, Abort, Complete, Raise
<1>11. CASE Unwind
  <2>1. cleanupDone' \in BOOLEAN BY <1>11, Zenon DEF Unwind
  <2>2. /\ Verdict[1] \in Graded
        /\ Verdict[2] \in {"SUCCESS", "DEGRADED", "FAILED", "none"}
    BY DEF Verdict
  <2> QED BY <1>11, <2>1, <2>2 DEF Unwind
<1>12. CASE StopWorkload BY <1>12 DEF StopWorkload, Retry
<1>13. CASE DeleteWorkload
  <2>1. cleanupDone' \in BOOLEAN BY <1>13, Zenon DEF DeleteWorkload
  <2> QED BY <1>13, <2>1 DEF DeleteWorkload
<1>14. CASE Panic BY <1>14 DEF Panic
<1>15. CASE TaskEnds BY <1>15 DEF TaskEnds
<1>16. CASE Cancel BY <1>16 DEF Cancel
<1>17. CASE UNCHANGED vars BY <1>17 DEF vars
<1> QED BY <1>1, <1>2, <1>3, <1>4, <1>5, <1>6, <1>7, <1>8, <1>9, <1>10, <1>11, <1>12,
           <1>13, <1>14, <1>15, <1>16, <1>17 DEF Next, Run

\* Engine.Run's bookkeeping stays within its types: in particular no retry
\* loop makes a fourth attempt.
THEOREM TypeCorrect == Spec => []TypeOK
  BY TypeInit, TypeStep, PTL DEF Spec

-----------------------------------------------------------------------------
LEMMA InvInit == Init => IInv
<1> SUFFICES ASSUME Init PROVE IInv
  OBVIOUS
<1>1. TypeOK BY TypeInit
<1>2. Placement BY DEF Init, Placement, Before, Restored
<1>3. OnCluster BY DEF Init, OnCluster
<1> QED BY <1>1, <1>2, <1>3 DEF IInv

LEMMA InvStep == IInv /\ [Next]_vars => IInv'
<1> SUFFICES ASSUME IInv, [Next]_vars PROVE IInv'
  OBVIOUS
<1>0. TypeOK' BY TypeStep DEF IInv
<1> SUFFICES Placement' /\ OnCluster'
  BY <1>0 DEF IInv
<1> USE PlansAssumption DEF IInv, TypeOK, Placement, OnCluster, Before, Restored
<1> USE DEF args, cluster, checking, ending
<1>1. CASE DiscoverBackup BY <1>1 DEF DiscoverBackup, Move, Abort
<1>2. CASE PrepareEnvironment BY <1>2 DEF PrepareEnvironment, Move, Abort, Complete
<1>3. CASE SubmitRestore BY <1>3 DEF SubmitRestore, Abort
<1>4. CASE AwaitJob BY <1>4 DEF AwaitJob, Abort, Retry
<1>5. CASE FinalizeRestore BY <1>5 DEF FinalizeRestore, Move, Abort
<1>6. CASE StartWorkload BY <1>6 DEF StartWorkload, Move, Abort, Retry, Powered
<1>7. CASE WaitForGuest
  BY <1>7 DEF WaitForGuest, GuestIsUp, Move, Abort, Retry, Complete
<1>8. CASE BeginCheck BY <1>8 DEF BeginCheck
<1>9. CASE EndAttempt BY <1>9 DEF EndAttempt
<1>10. CASE FinishChecks BY <1>10 DEF FinishChecks, Abort, Complete
<1>11. CASE Unwind BY <1>11 DEF Unwind, Verdict
<1>12. CASE StopWorkload BY <1>12 DEF StopWorkload, Retry
<1>13. CASE DeleteWorkload BY <1>13 DEF DeleteWorkload
<1>14. CASE Panic BY <1>14 DEF Panic
<1>15. CASE TaskEnds BY <1>15 DEF TaskEnds
<1>16. CASE Cancel BY <1>16 DEF Cancel
<1>17. CASE UNCHANGED vars BY <1>17 DEF vars
<1> QED BY <1>1, <1>2, <1>3, <1>4, <1>5, <1>6, <1>7, <1>8, <1>9, <1>10, <1>11, <1>12,
           <1>13, <1>14, <1>15, <1>16, <1>17 DEF Next, Run

LEMMA Invariance == Spec => []IInv
  BY InvInit, InvStep, PTL DEF Spec

\* No workload is powered on before FinalizeRestore has hardened it, nor on a
\* network checkNetworkIsolation refused, however calls fail and answers get
\* lost.
THEOREM NeverExposes == Spec => []NeverExposed
<1>1. IInv => NeverExposed
  BY DEF IInv, TypeOK, Placement, OnCluster, NeverExposed
<1> QED BY <1>1, Invariance, PTL

-----------------------------------------------------------------------------
(* The engine is what DrillQueue takes it for: every step of Run is a step *)
(* of EngineContract or leaves its view of the drill alone.                *)

LEMMA ContractInit == Init => Contract!Init
  BY DEF Init, Contract!Init, ContractPhase

LEMMA ContractStep == IInv /\ [Next]_vars => [Contract!Next]_(Contract!vars)
<1> SUFFICES ASSUME IInv, [Next]_vars
             PROVE Contract!Next \/ UNCHANGED Contract!vars
  OBVIOUS
<1> USE DEF IInv, TypeOK, Placement, OnCluster, Before, Restored, ContractPhase
<1> USE DEF args, cluster, checking, ending, Contract!vars
<1>1. CASE DiscoverBackup BY <1>1 DEF DiscoverBackup, Move, Abort
<1>2. CASE PrepareEnvironment
  BY <1>2 DEF PrepareEnvironment, Move, Abort, Complete, Contract!Next, Contract!Reserve
<1>3. CASE SubmitRestore
  BY <1>3 DEF SubmitRestore, Abort, Contract!Next, Contract!Restore, Contract!LostRestore
<1>4. CASE AwaitJob BY <1>4 DEF AwaitJob, Abort, Retry
<1>5. CASE FinalizeRestore BY <1>5 DEF FinalizeRestore, Move, Abort
<1>6. CASE StartWorkload BY <1>6 DEF StartWorkload, Move, Abort, Retry, Powered
<1>7. CASE WaitForGuest
  BY <1>7 DEF WaitForGuest, GuestIsUp, Move, Abort, Retry, Complete
<1>8. CASE BeginCheck BY <1>8 DEF BeginCheck
<1>9. CASE EndAttempt BY <1>9 DEF EndAttempt
<1>10. CASE FinishChecks BY <1>10 DEF FinishChecks, Abort, Complete
<1>11. CASE Unwind
  <2>1. CASE ~needsCleanup
    <3>1. CASE failure = "none"
      BY <1>11, <2>1, <3>1 DEF Unwind, Verdict, Contract!Next, Contract!Rehearse
    <3>2. CASE failure # "none"
      BY <1>11, <2>1, <3>2
      DEF Unwind, Verdict, Contract!Next, Contract!AbortEarly, Contract!Unsuccessful
    <3> QED BY <3>1, <3>2
  <2>2. CASE needsCleanup
    <3>1. Contract!GradeDrill
      BY <1>11, <2>2 DEF Unwind, Verdict, Contract!GradeDrill, Contract!Unsuccessful
    <3> QED BY <3>1 DEF Contract!Next
  <2> QED BY <2>1, <2>2
<1>12. CASE StopWorkload BY <1>12 DEF StopWorkload, Retry
<1>13. CASE DeleteWorkload
  <2>1. Contract!CleanupDrill BY <1>13 DEF DeleteWorkload, Contract!CleanupDrill
  <2> QED BY <2>1 DEF Contract!Next
<1>14. CASE Panic BY <1>14 DEF Panic
<1>15. CASE TaskEnds BY <1>15 DEF TaskEnds, Contract!Next, Contract!Vanish
<1>16. CASE Cancel BY <1>16 DEF Cancel, Contract!Next, Contract!Halt
<1>17. CASE UNCHANGED vars BY <1>17 DEF vars
<1> QED BY <1>1, <1>2, <1>3, <1>4, <1>5, <1>6, <1>7, <1>8, <1>9, <1>10, <1>11, <1>12,
           <1>13, <1>14, <1>15, <1>16, <1>17 DEF Next, Run

\* Engine.Run implements the contract DrillQueue is written against: reserved
\* before restored, graded once, cleaned up after the grade and before the run
\* is handed back, CLEANUP_FAILED when and only when the delete failed.
THEOREM EngineImplementsContract == Spec => ImplementsContract
  BY ContractInit, ContractStep, Invariance, PTL DEF Spec, ImplementsContract, Contract!Spec

-----------------------------------------------------------------------------
(* The cleanup, once the restore has been answered.                        *)

\* Nothing exists that Run does not know it owes; a run that has ended removed
\* it, was told to keep it, or raised the alarm.
Accounted ==
  /\ Known /\ ~needsCleanup => wl = "absent" /\ task = "none"
  /\ at # "done" => ~cleanupDone
  /\ Known /\ cleanupDone => wl = "absent" /\ task # "running"
  /\ Known /\ at = "done" =>
       \/ wl = "absent" /\ task # "running"
       \/ final = "CLEANUP_FAILED"
       \/ final \in Graded /\ steps["cleanup"] = "skipped" /\ Keeps(final)

LEMMA AccountedInit == Init => Accounted
  BY DEF Init, Accounted

LEMMA AccountedStep == IInv /\ Accounted /\ [Next]_vars => Accounted'
<1> SUFFICES ASSUME IInv, Accounted, [Next]_vars PROVE Accounted'
  OBVIOUS
<1> USE DEF IInv, TypeOK, Placement, OnCluster, Before, Restored, Accounted, Known, Keeps
<1> USE DEF args, cluster, checking, ending
<1>1. CASE DiscoverBackup BY <1>1 DEF DiscoverBackup, Move, Abort
<1>2. CASE PrepareEnvironment BY <1>2 DEF PrepareEnvironment, Move, Abort, Complete
<1>3. CASE SubmitRestore BY <1>3 DEF SubmitRestore, Abort
<1>4. CASE AwaitJob BY <1>4 DEF AwaitJob, Abort, Retry
<1>5. CASE FinalizeRestore BY <1>5 DEF FinalizeRestore, Move, Abort
<1>6. CASE StartWorkload BY <1>6 DEF StartWorkload, Move, Abort, Retry, Powered
<1>7. CASE WaitForGuest
  BY <1>7 DEF WaitForGuest, GuestIsUp, Move, Abort, Retry, Complete
<1>8. CASE BeginCheck BY <1>8 DEF BeginCheck
<1>9. CASE EndAttempt BY <1>9 DEF EndAttempt
<1>10. CASE FinishChecks BY <1>10 DEF FinishChecks, Abort, Complete
<1>11. CASE Unwind
  <2>1. Verdict[1] \in Graded BY DEF Verdict
  <2> QED BY <1>11, <2>1 DEF Unwind
<1>12. CASE StopWorkload BY <1>12 DEF StopWorkload, Retry
<1>13. CASE DeleteWorkload BY <1>13 DEF DeleteWorkload
<1>14. CASE Panic BY <1>14 DEF Panic
<1>15. CASE TaskEnds BY <1>15 DEF TaskEnds
<1>16. CASE Cancel BY <1>16 DEF Cancel
<1>17. CASE UNCHANGED vars BY <1>17 DEF vars
<1> QED BY <1>1, <1>2, <1>3, <1>4, <1>5, <1>6, <1>7, <1>8, <1>9, <1>10, <1>11, <1>12,
           <1>13, <1>14, <1>15, <1>16, <1>17 DEF Next, Run

\* Whatever answers are lost after that of the restore, what a drill leaves on
\* the cluster was asked for by the plan or the caller, or is announced as
\* CLEANUP_FAILED.
THEOREM LeftoversAccounted == Spec => []LeftoversAreAskedFor
<1>1. IInv /\ Accounted => LeftoversAreAskedFor
  BY DEF IInv, TypeOK, Accounted, LeftoversAreAskedFor, Keeps
<1>2. IInv /\ Accounted /\ [Next]_vars => Accounted'
  BY AccountedStep
<1> QED BY <1>1, <1>2, AccountedInit, Invariance, PTL DEF Spec

\* Once the restore has been answered, cleanup_done is never set over a
\* workload that exists.
THEOREM CleanupDoneSound == Spec => []CleanupDoneIsTrue
<1>1. Accounted => CleanupDoneIsTrue
  BY DEF Accounted, CleanupDoneIsTrue
<1>2. IInv /\ Accounted /\ [Next]_vars => Accounted'
  BY AccountedStep
<1> QED BY <1>1, <1>2, AccountedInit, Invariance, PTL DEF Spec

-----------------------------------------------------------------------------
(* The verdict.                                                            *)

Started == steps["run_checks"] # "none"

\* How the results of the checks and the way the workflow ended hang together.
\* A check is only skipped in a cancelled run, which is why a skipped critical
\* check never turns into a FAILED result.
Judged ==
  /\ \A i \in 1 .. NumChecks : results[i] = "skipped" => cancelled
  /\ \A i \in 1 .. NumChecks : results[i] = "none" <=> i >= next
  /\ next <= plan.checks + 1
  /\ at \in Workflow /\ at # "run_checks" => ~Started /\ next = 1 /\ ~slow
  /\ at = "run_checks" => Started
  /\ ~Started => next = 1
  /\ at \notin Workflow /\ failure = "step" /\ Started =>
       next = plan.checks + 1 /\ FailedCritical
  /\ at \notin Workflow /\ failure = "none" /\ ~needsCleanup =>
       plan.dryRun /\ next = 1 /\ ~slow
  /\ at \notin Workflow /\ failure = "none" /\ needsCleanup =>
       next = plan.checks + 1 /\ ~FailedCritical /\ ~Unevaluated

\* What grading made of it.
Sentenced ==
  /\ at = "done" => grade # "none"
  /\ grade # "none" => at \notin Workflow \cup {"unwind"}
  /\ grade # "none" =>
       \/ failure = "none" /\ result = IF Degraded THEN "DEGRADED" ELSE "SUCCESS"
       \/ failure = "panic" /\ result = "FAILED"
       \/ /\ failure = "step" /\ result = "FAILED"
          /\ Started => \E i \in Critical : results[i] = "fail"
       \/ result = "none"

LEMMA JudgedInit == Init => Judged /\ Sentenced
  BY ChecksAssumption, PlansAssumption
  DEF Init, Judged, Sentenced, Started, PlanTypes

\* Recording one result, in either action that does.
LEMMA RecordKeepsJudged ==
  ASSUME IInv, Judged, at = "run_checks", next <= plan.checks,
         NEW o \in {"pass", "fail", "error", "skipped"}, o = "skipped" => cancelled,
         Record(o), UNCHANGED <<args, at, failure, needsCleanup, steps, slow>>
  PROVE  Judged'
<1>0. plan.checks \in 0 .. NumChecks /\ NumChecks \in Nat /\ next \in 1 .. NumChecks
  BY PlansAssumption, ChecksAssumption DEF IInv, TypeOK, PlanTypes
<1>1. /\ results' = [results EXCEPT ![next] = o] /\ next' = next + 1
      /\ results \in [1 .. NumChecks -> {"none", "pass", "fail", "error", "skipped"}]
  BY DEF Record, IInv, TypeOK
<1>2. Started /\ Started'
  BY DEF Judged, Started
<1>3. \A i \in 1 .. NumChecks : results'[i] = IF i = next THEN o ELSE results[i]
  BY <1>0, <1>1
<1> QED BY <1>0, <1>1, <1>2, <1>3 DEF Judged, Started, Workflow, args

LEMMA JudgedStep == IInv /\ Judged /\ [Next]_vars => Judged'
<1> SUFFICES ASSUME IInv, Judged, [Next]_vars PROVE Judged'
  OBVIOUS
<1>0. plan.checks \in 0 .. NumChecks
  BY PlansAssumption DEF IInv, TypeOK, PlanTypes
<1> USE <1>0, ChecksAssumption
<1> USE DEF IInv, TypeOK, Placement, Before, Restored, Judged, Started, FailedCritical,
            Unevaluated, args, cluster, checking, ending
<1>1. CASE DiscoverBackup BY <1>1 DEF DiscoverBackup, Move, Abort
<1>2. CASE PrepareEnvironment BY <1>2 DEF PrepareEnvironment, Move, Abort, Complete
<1>3. CASE SubmitRestore BY <1>3 DEF SubmitRestore, Abort
<1>4. CASE AwaitJob BY <1>4 DEF AwaitJob, Abort, Retry
<1>5. CASE FinalizeRestore BY <1>5 DEF FinalizeRestore, Move, Abort
<1>6. CASE StartWorkload BY <1>6 DEF StartWorkload, Move, Abort, Retry, Powered
<1>7. CASE WaitForGuest
  BY <1>7 DEF WaitForGuest, GuestIsUp, Move, Abort, Retry, Complete
<1>8. CASE BeginCheck
  <2>1. CASE cancelled /\ Record("skipped")
    BY <1>8, <2>1, RecordKeepsJudged DEF BeginCheck
  <2>2. CASE UNCHANGED <<next, results>>
    BY <1>8, <2>2 DEF BeginCheck
  <2> QED BY <1>8, <2>1, <2>2 DEF BeginCheck
<1>9. CASE EndAttempt
  <2>1. CASE \E o \in {"pass", "fail", "error"} : Record(o)
    BY <1>9, <2>1, RecordKeepsJudged DEF EndAttempt
  <2>2. CASE UNCHANGED <<next, results>>
    BY <1>9, <2>2 DEF EndAttempt
  <2> QED BY <1>9, <2>1, <2>2 DEF EndAttempt
<1>10. CASE FinishChecks BY <1>10 DEF FinishChecks, Abort, Complete
<1>11. CASE Unwind BY <1>11 DEF Unwind
<1>12. CASE StopWorkload BY <1>12 DEF StopWorkload, Retry
<1>13. CASE DeleteWorkload BY <1>13 DEF DeleteWorkload
<1>14. CASE Panic BY <1>14 DEF Panic
<1>15. CASE TaskEnds BY <1>15 DEF TaskEnds
<1>16. CASE Cancel BY <1>16 DEF Cancel
<1>17. CASE UNCHANGED vars BY <1>17 DEF vars
<1> QED BY <1>1, <1>2, <1>3, <1>4, <1>5, <1>6, <1>7, <1>8, <1>9, <1>10, <1>11, <1>12,
           <1>13, <1>14, <1>15, <1>16, <1>17 DEF Next, Run

LEMMA SentencedStep == IInv /\ Judged /\ Sentenced /\ [Next]_vars => Sentenced'
<1> SUFFICES ASSUME IInv, Judged, Sentenced, [Next]_vars PROVE Sentenced'
  OBVIOUS
<1> USE DEF IInv, TypeOK, Placement, Before, Restored, Sentenced, Started, Degraded,
            args, cluster, checking, ending
<1>1. CASE DiscoverBackup BY <1>1 DEF DiscoverBackup, Move, Abort
<1>2. CASE PrepareEnvironment BY <1>2 DEF PrepareEnvironment, Move, Abort, Complete
<1>3. CASE SubmitRestore BY <1>3 DEF SubmitRestore, Abort
<1>4. CASE AwaitJob BY <1>4 DEF AwaitJob, Abort, Retry
<1>5. CASE FinalizeRestore BY <1>5 DEF FinalizeRestore, Move, Abort
<1>6. CASE StartWorkload BY <1>6 DEF StartWorkload, Move, Abort, Retry, Powered
<1>7. CASE WaitForGuest
  BY <1>7 DEF WaitForGuest, GuestIsUp, Move, Abort, Retry, Complete
<1>8. CASE BeginCheck BY <1>8 DEF BeginCheck, Record
<1>9. CASE EndAttempt BY <1>9 DEF EndAttempt, Record
<1>10. CASE FinishChecks BY <1>10 DEF FinishChecks, Abort, Complete
<1>11. CASE Unwind
  <2>1. Verdict[1] \in Graded BY DEF Verdict
  <2>2. UNCHANGED <<failure, results, slow, plan, cancelled>> /\ Started' = Started
    BY <1>11 DEF Unwind
  <2>3. result' = Verdict[2] /\ grade' = Verdict[1] /\ at' \notin Workflow \cup {"unwind"}
    BY <1>11 DEF Unwind
  <2>4. CASE failure = "step" /\ ~cancelled
    <3>1. Started => \E i \in Critical : results[i] = "fail"
      BY <1>11, <2>4, PlansAssumption, ChecksAssumption
      DEF Unwind, Judged, FailedCritical, PlanTypes
    <3> QED BY <2>1, <2>2, <2>3, <2>4, <3>1 DEF Verdict
  <2>5. CASE ~(failure = "step" /\ ~cancelled)
    BY <2>1, <2>2, <2>3, <2>5 DEF Verdict
  <2> QED BY <2>4, <2>5
<1>12. CASE StopWorkload BY <1>12 DEF StopWorkload, Retry
<1>13. CASE DeleteWorkload BY <1>13 DEF DeleteWorkload
<1>14. CASE Panic BY <1>14 DEF Panic
<1>15. CASE TaskEnds BY <1>15 DEF TaskEnds
<1>16. CASE Cancel BY <1>16 DEF Cancel
<1>17. CASE UNCHANGED vars BY <1>17 DEF vars
<1> QED BY <1>1, <1>2, <1>3, <1>4, <1>5, <1>6, <1>7, <1>8, <1>9, <1>10, <1>11, <1>12,
           <1>13, <1>14, <1>15, <1>16, <1>17 DEF Next, Run

\* A FAILED result past the checks rests on a critical check that answered
\* badly, SUCCESS and DEGRADED on every critical check having passed; whenever
\* the run was stopped, and however many retries the checks have.
THEOREM VerdictsAreEvidence == Spec => []VerdictIsEvidence
<1>1. IInv /\ Judged /\ Sentenced => VerdictIsEvidence
  <2> SUFFICES ASSUME IInv, Judged, Sentenced, at = "done" PROVE VerdictIsEvidence
    BY DEF VerdictIsEvidence
  <2>0. plan.checks \in 0 .. NumChecks
    BY PlansAssumption DEF IInv, TypeOK, PlanTypes
  <2>1. result = "FAILED" /\ failure # "panic" /\ Started =>
          \E i \in Critical : results[i] = "fail"
    BY DEF Sentenced, Started
  <2>2. result \in {"SUCCESS", "DEGRADED"} => failure = "none"
    BY DEF Sentenced
  <2>3. failure = "none" /\ ~plan.dryRun =>
          \A i \in 1 .. plan.checks : i \in Critical => results[i] = "pass"
    BY <2>0 DEF IInv, TypeOK, Judged, FailedCritical, Unevaluated
  <2>4. result = "SUCCESS" => ~Degraded
    BY <2>2 DEF Sentenced
  <2>5. result = "SUCCESS" => ~slow /\ \A i \in 1 .. NumChecks : results[i] # "fail"
    BY <2>0, <2>2, <2>4, ChecksAssumption
    DEF IInv, TypeOK, Judged, FailedCritical, Unevaluated, Degraded
  <2> QED BY <2>1, <2>2, <2>3, <2>5 DEF VerdictIsEvidence, Started
<1> QED BY <1>1, JudgedInit, JudgedStep, SentencedStep, Invariance, PTL DEF Spec

-----------------------------------------------------------------------------
(* The proof level.                                                        *)

Passing(level) == \E i \in 1 .. NumChecks : results[i] = "pass" /\ Proves[i] = level

\* Nothing is proved before the guest answers, at most BOOT before the checks
\* are summed up, and once they are the level covers every one that passed.
Earned ==
  /\ at \in Workflow /\ at # "run_checks" => proof = 0
  /\ at = "run_checks" => proof = 0 \/ (proof = 1 /\ steps["wait_for_guest"] = "done")
  /\ proof = 1 => steps["wait_for_guest"] = "done" \/ Passing(1)
  /\ proof >= 2 => Passing(proof)
  /\ at \notin Workflow /\ failure # "panic" =>
       \A i \in 1 .. NumChecks : results[i] = "pass" => proof >= Proves[i]

LEMMA EarnedInit == Init => Earned
  BY DEF Init, Earned

\* A run that has not come to its checks has no result to answer for.
LEMMA NothingPassed ==
  ASSUME IInv, Judged, next = 1
  PROVE  \A i \in 1 .. NumChecks : results[i] # "pass"
BY ChecksAssumption DEF Judged, IInv, TypeOK

LEMMA EarnedStep == IInv /\ Judged /\ Earned /\ [Next]_vars => Earned'
<1> SUFFICES ASSUME IInv, Judged, Earned, [Next]_vars PROVE Earned'
  OBVIOUS
<1>0. at \in Workflow /\ at # "run_checks" => \A i \in 1 .. NumChecks : results[i] # "pass"
  BY NothingPassed DEF Judged
<1> USE <1>0, ChecksAssumption
<1> USE DEF IInv, TypeOK, Placement, Before, Restored, Earned, Passing,
            args, cluster, checking, ending
<1>1. CASE DiscoverBackup BY <1>1 DEF DiscoverBackup, Move, Abort
<1>2. CASE PrepareEnvironment BY <1>2 DEF PrepareEnvironment, Move, Abort, Complete
<1>3. CASE SubmitRestore BY <1>3 DEF SubmitRestore, Abort
<1>4. CASE AwaitJob BY <1>4 DEF AwaitJob, Abort, Retry
<1>5. CASE FinalizeRestore BY <1>5 DEF FinalizeRestore, Move, Abort
<1>6. CASE StartWorkload BY <1>6 DEF StartWorkload, Move, Abort, Retry, Powered
<1>7. CASE WaitForGuest
  BY <1>7 DEF WaitForGuest, GuestIsUp, Move, Abort, Retry, Complete, Raise
<1>8. CASE BeginCheck \/ EndAttempt
  BY <1>8 DEF BeginCheck, EndAttempt
<1>9. CASE FinishChecks
  <2>1. steps'["wait_for_guest"] = steps["wait_for_guest"] /\ at' = "unwind" /\ results' = results
    BY <1>9 DEF FinishChecks, Abort, Complete
  <2> DEFINE level == ProvenBy(results)
  <2>2. level \in Levels /\ proof' = Raise(proof, level)
    BY <1>9, ProvenByLevel DEF FinishChecks
  <2>3. \A i \in 1 .. NumChecks : results[i] = "pass" => Proves[i] <= level
    BY ProvenByLevel
  <2>4. level = 0 \/ Passing(level)
    BY ProvenByLevel DEF Passing
  <2>5. proof = 0 \/ (proof = 1 /\ steps["wait_for_guest"] = "done")
    BY <1>9 DEF FinishChecks
  <2> HIDE DEF level
  <2> QED BY <2>1, <2>2, <2>3, <2>4, <2>5 DEF Raise
<1>10. CASE Unwind BY <1>10 DEF Unwind
<1>11. CASE StopWorkload BY <1>11 DEF StopWorkload, Retry
<1>12. CASE DeleteWorkload BY <1>12 DEF DeleteWorkload
<1>13. CASE Panic BY <1>13 DEF Panic
<1>14. CASE TaskEnds BY <1>14 DEF TaskEnds
<1>15. CASE Cancel BY <1>15 DEF Cancel
<1>16. CASE UNCHANGED vars BY <1>16 DEF vars
<1> QED BY <1>1, <1>2, <1>3, <1>4, <1>5, <1>6, <1>7, <1>8, <1>9, <1>10, <1>11, <1>12,
           <1>13, <1>14, <1>15, <1>16 DEF Next, Run

\* The level a finished run claims was established by the guest agent or by a
\* check that passed, and no passing check established more - for any number of
\* checks, retries and polls, and wherever the run was stopped.
THEOREM ProofsAreEarned == Spec => []ProofIsEarned
<1>1. IInv /\ Judged /\ Earned => ProofIsEarned
  BY DEF IInv, TypeOK, Earned, Passing, ProofIsEarned
<1> QED BY <1>1, JudgedInit, JudgedStep, EarnedInit, EarnedStep, Invariance, PTL DEF Spec

=============================================================================
