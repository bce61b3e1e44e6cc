------------------------------- MODULE Engine -------------------------------
(***************************************************************************)
(* One drill inside the recovery engine (internal/recovery): the workflow  *)
(* of Engine.Run from discover_backup to the checks, its deferred block    *)
(* that grades the run and cleans up, the check loop of internal/checks,   *)
(* and the cluster task a restore leaves running behind the engine's back. *)
(*                                                                         *)
(* Each action is one provider call or one check attempt, with everything  *)
(* the engine does on its return.  A call made on a cancelled context      *)
(* fails.  The provider is Proxmox, the only one there is: it implements   *)
(* the optional FinalizeRestore and ValidateIsolation.                     *)
(***************************************************************************)
EXTENDS Integers

CONSTANTS
  NumChecks,     \* the plan's checks are 1 .. NumChecks, in order
  Critical,      \* the checks the plan marks critical
  Proves,        \* Proves[i]: the level check i establishes when it passes
  CheckRetries,  \* retries of a check, as configured
  MaxPolls,      \* polls of the guest before startup.timeout has run out
  Plans,         \* the plans and options the engine may be given
  LostReplies    \* TRUE: a call may take effect although its answer is lost

\* core.ProofLevel by its Rank: NONE, BOOT, SERVICE, DATA.
Levels == 0 .. 3

(***************************************************************************)
(* What a plan, the options and the target network tell apart.             *)
(*   checks      how many of the checks the plan holds                     *)
(*   network     what checkNetworkIsolation makes of the network           *)
(*   needsAgent  startup waits for the guest agent                         *)
(*   needsIP     startup waits for an address, and none is pinned          *)
(***************************************************************************)
PlanTypes == [dryRun : BOOLEAN, keepWorkload : BOOLEAN, keepOnFailure : BOOLEAN,
              always : BOOLEAN, skip : BOOLEAN, checks : 0 .. NumChecks,
              network : {"undeclared", "refused", "unverified", "verified"},
              needsAgent : BOOLEAN, needsIP : BOOLEAN]

ASSUME ChecksAssumption ==
  /\ NumChecks \in Nat
  /\ Critical \subseteq 1 .. NumChecks
  /\ Proves \in [1 .. NumChecks -> Levels]
  /\ CheckRetries \in Int
ASSUME PollsAssumption == MaxPolls \in Nat
\* Validation refuses checks on a guest that is never started.
ASSUME PlansAssumption ==
  Plans \subseteq {p \in PlanTypes : p.skip => p.checks = 0}
ASSUME RepliesAssumption == LostReplies \in BOOLEAN

Workflow == {"discover_backup", "prepare_environment", "restore", "job", "finalize",
             "start", "wait_for_guest", "run_checks"}
Steps == {"discover_backup", "prepare_environment", "restore", "start",
          "wait_for_guest", "run_checks", "cleanup"}
Graded == {"SUCCESS", "FAILED", "CANCELLED", "INCONCLUSIVE"}

VARIABLES
  plan, cancelled,   \* the arguments of Run: the plan and options, the context
  wl,        \* the temporary workload on the cluster
  task,      \* the cluster's restore task
  at,        \* where Run stands
  tries,     \* failed attempts of the retry loop Run is in
  polls,     \* polls that found the guest not ready
  failure,   \* workflowErr
  reserved,  \* run.TempWorkloadID is set
  needsCleanup,
  steps,     \* run.Steps, by name
  proof,     \* run.ProofLevel
  slow,      \* run.RTOExceeded()
  next, attempts,  \* the check RunAll is at, and the attempts RunOne began
  results,   \* run.Checks
  grade,     \* gradedState: run.State when cleanup was entered
  result, final, cleanupDone  \* run.Result, run.State and run.CleanupDone

args == <<plan, cancelled>>
cluster == <<wl, task>>
checking == <<next, attempts, results>>
ending == <<grade, result, final, cleanupDone>>
vars == <<args, cluster, at, tries, polls, failure, reserved, needsCleanup,
          steps, proof, slow, checking, ending>>

\* wl: "building" while the task runs, "raw" as restored, "exposed" when
\* powered on before it was hardened.
TypeOK ==
  /\ plan \in Plans /\ cancelled \in BOOLEAN
  /\ wl \in {"absent", "building", "raw", "hardened", "running", "exposed"}
  /\ task \in {"none", "running", "ok", "failed"}
  /\ at \in Workflow \cup {"unwind", "stop", "delete", "done"}
  /\ tries \in 0 .. 2 /\ polls \in 0 .. MaxPolls
  /\ failure \in {"none", "step", "unevaluated", "panic"}
  /\ reserved \in BOOLEAN /\ needsCleanup \in BOOLEAN
  /\ steps \in [Steps -> {"none", "running", "done", "failed", "skipped"}]
  /\ proof \in Levels /\ slow \in BOOLEAN
  /\ next \in 1 .. NumChecks + 1 /\ attempts \in Nat
  /\ results \in [1 .. NumChecks -> {"none", "pass", "fail", "error", "skipped"}]
  /\ grade \in Graded \cup {"none"}
  /\ result \in {"SUCCESS", "DEGRADED", "FAILED", "none"}
  /\ final \in Graded \cup {"CLEANUP_FAILED", "none"}
  /\ cleanupDone \in BOOLEAN

Init ==
  /\ plan \in Plans /\ cancelled = FALSE
  /\ wl = "absent" /\ task = "none"
  /\ at = "discover_backup" /\ tries = 0 /\ polls = 0 /\ failure = "none"
  /\ reserved = FALSE /\ needsCleanup = FALSE
  /\ steps = [s \in Steps |-> IF s = "discover_backup" THEN "running" ELSE "none"]
  /\ proof = 0 /\ slow = FALSE
  /\ next = 1 /\ attempts = 0
  /\ results = [i \in 1 .. NumChecks |-> "none"]
  /\ grade = "none" /\ result = "none" /\ final = "none" /\ cleanupDone = FALSE

-----------------------------------------------------------------------------
(* endStep and beginStep.                                                  *)

\* The step ends well and the next one begins.
Move(from, status, to) ==
  /\ steps' = [steps EXCEPT ![from] = status, ![to] = "running"]
  /\ at' = to /\ tries' = 0
  /\ UNCHANGED failure

\* The step fails the run: Run returns into its deferred block.
Abort(from, why) ==
  /\ steps' = [steps EXCEPT ![from] = "failed"]
  /\ at' = "unwind" /\ tries' = 0 /\ failure' = why

\* The workflow is over and nothing failed it.
Complete(from, status) ==
  /\ steps' = [steps EXCEPT ![from] = status]
  /\ at' = "unwind" /\ tries' = 0
  /\ UNCHANGED failure

\* retry: a retryable error is tried again after a backoff, three times in all.
Retry ==
  /\ tries < 2
  /\ tries' = tries + 1
  /\ UNCHANGED <<at, failure, steps>>

Raise(level, other) == IF other > level THEN other ELSE level

\* Mutant of ProvenBy: what the plan's checks would prove, passed or not.
ProvenByPlan(res) ==
  CHOOSE l \in Levels :
    /\ \A i \in 1 .. NumChecks : res[i] # "none" => Proves[i] <= l
    /\ l = 0 \/ \E i \in 1 .. NumChecks : res[i] # "none" /\ Proves[i] = l

\* The highest level among the checks that passed.
ProvenBy(res) ==
  CHOOSE l \in Levels :
    /\ \A i \in 1 .. NumChecks : res[i] = "pass" => Proves[i] <= l
    /\ l = 0 \/ \E i \in 1 .. NumChecks : res[i] = "pass" /\ Proves[i] = l

-----------------------------------------------------------------------------
(* The workflow.                                                           *)

\* discoverBackup: fails on no backup, a stale one, or a lookup error.
DiscoverBackup ==
  /\ at = "discover_backup"
  /\ \/ ~cancelled /\ Move("discover_backup", "done", "prepare_environment")
     \/ Abort("discover_backup", "step")
  /\ UNCHANGED <<args, cluster, polls, reserved, needsCleanup, proof, slow, checking, ending>>

\* prepareEnvironment, or the part of it a dry run does.  An undeclared or
\* refused network fails it, an unverified one only warns.
PrepareEnvironment ==
  /\ at = "prepare_environment"
  /\ \/ /\ ~cancelled /\ plan.network \in {"unverified", "verified"}
        /\ IF plan.dryRun
             THEN Complete("prepare_environment", "done") /\ UNCHANGED reserved
             ELSE Move("prepare_environment", "done", "restore") /\ reserved' = TRUE
     \/ Abort("prepare_environment", "step") /\ UNCHANGED reserved
  /\ UNCHANGED <<args, cluster, polls, needsCleanup, proof, slow, checking, ending>>

\* Restore only submits the task, once; cleanup is owed from its answer on.
SubmitRestore ==
  /\ at = "restore"
  /\ \/ /\ ~cancelled
        /\ wl' = "building" /\ task' = "running" /\ needsCleanup' = TRUE
        /\ at' = "job" /\ UNCHANGED <<tries, failure, steps>>
     \/ /\ Abort("restore", "step")
        /\ \/ UNCHANGED cluster
           \/ LostReplies /\ wl' = "building" /\ task' = "running"
        /\ UNCHANGED needsCleanup
  /\ UNCHANGED <<args, polls, reserved, proof, slow, checking, ending>>

\* The cluster finishes the task in its own time; a failed one may leave
\* nothing behind.
TaskEnds ==
  /\ task = "running"
  /\ \/ task' = "ok" /\ wl' = "raw"
     \/ task' = "failed" /\ wl' \in {"raw", "absent"}
  /\ UNCHANGED <<args, at, tries, polls, failure, reserved, needsCleanup,
                 steps, proof, slow, checking, ending>>

\* WaitForJob polls the task for as long as it runs.
AwaitJob ==
  /\ at = "job"
  /\ \/ /\ ~cancelled /\ task = "ok"
        /\ at' = "finalize" /\ tries' = 0 /\ UNCHANGED <<failure, steps>>
     \/ ~cancelled /\ Retry
     \/ Abort("restore", "step")
  /\ UNCHANGED <<args, cluster, polls, reserved, needsCleanup, proof, slow, checking, ending>>

\* Mutant of FinalizeRestore: a failed hardening is only logged.
FinalizeRestoreTolerant ==
  /\ at = "finalize"
  /\ Move("restore", "done", "start")
  /\ wl' \in {wl, "hardened"}
  /\ UNCHANGED <<args, task, polls, reserved, needsCleanup, proof, slow, checking, ending>>

\* FinalizeRestore rewrites the network and stamps the metadata in one call;
\* its failure is fatal.
FinalizeRestore ==
  /\ at = "finalize"
  /\ \/ ~cancelled /\ Move("restore", "done", "start") /\ wl' = "hardened"
     \/ Abort("restore", "step") /\ wl' \in IF LostReplies THEN {wl, "hardened"} ELSE {wl}
  /\ UNCHANGED <<args, task, polls, reserved, needsCleanup, proof, slow, checking, ending>>

Powered == IF wl = "hardened" THEN "running" ELSE IF wl = "raw" THEN "exposed" ELSE wl

StartWorkload ==
  /\ at = "start"
  /\ \/ plan.skip /\ Move("start", "skipped", "wait_for_guest") /\ UNCHANGED wl
     \/ /\ ~plan.skip /\ ~cancelled
        /\ Move("start", "done", "wait_for_guest") /\ wl' = Powered
     \/ /\ ~plan.skip
        /\ \/ ~cancelled /\ Retry
           \/ Abort("start", "step")
        /\ wl' \in IF LostReplies THEN {wl, Powered} ELSE {wl}
  /\ UNCHANGED <<args, task, polls, reserved, needsCleanup, proof, slow, checking, ending>>

\* The guest is as ready as the plan asks, or was never to be started: with
\* no checks the run is graded now, on the recovery time so far.
GuestIsUp(status) ==
  IF plan.checks = 0
    THEN Complete("wait_for_guest", status) /\ slow' \in BOOLEAN
    ELSE Move("wait_for_guest", status, "run_checks") /\ UNCHANGED slow

\* waitForGuest: one GetStatus.  Only an agent that answered raises the proof
\* to BOOT; the deadline is looked at after each poll.
WaitForGuest ==
  /\ at = "wait_for_guest"
  /\ \/ /\ plan.skip
        /\ GuestIsUp("skipped") /\ UNCHANGED <<polls, proof>>
     \/ /\ ~plan.skip /\ ~cancelled /\ wl = "running"
        /\ \E agent, ip \in BOOLEAN :
             /\ plan.needsAgent => agent
             /\ plan.needsIP => ip
             /\ proof' = Raise(proof, IF agent THEN 1 ELSE 0)
        /\ GuestIsUp("done") /\ UNCHANGED polls
     \/ /\ ~plan.skip /\ ~cancelled /\ polls < MaxPolls
        /\ polls' = polls + 1 /\ tries' = 0
        /\ UNCHANGED <<at, failure, steps, proof, slow>>
     \/ /\ ~plan.skip
        /\ \/ ~cancelled /\ Retry
           \/ Abort("wait_for_guest", "step")
        /\ UNCHANGED <<polls, proof, slow>>
  /\ UNCHANGED <<args, cluster, reserved, needsCleanup, checking, ending>>

-----------------------------------------------------------------------------
(* RunAll, RunOne and the verdict of runChecks.                            *)

MaxAttempts == IF CheckRetries + 1 < 1 THEN 1 ELSE CheckRetries + 1

Record(outcome) ==
  /\ results' = [results EXCEPT ![next] = outcome]
  /\ next' = next + 1 /\ attempts' = 0

\* RunAll reaches the next check; RunOne begins it unless the run is cancelled.
BeginCheck ==
  /\ at = "run_checks" /\ next <= plan.checks /\ attempts = 0
  /\ \/ cancelled /\ Record("skipped")
     \/ ~cancelled /\ attempts' = 1 /\ UNCHANGED <<next, results>>
  /\ UNCHANGED <<args, cluster, at, tries, polls, failure, reserved, needsCleanup,
                 steps, proof, slow, ending>>

\* An attempt ends.  The last one stands, whatever came before; a run that is
\* cancelled between two attempts records an error.  A panic of the check is
\* an error too (runAttempt).
EndAttempt ==
  /\ at = "run_checks" /\ next <= plan.checks /\ attempts > 0
  /\ \E o \in {"pass", "fail", "error"} :
       /\ \/ (o = "pass" \/ attempts >= MaxAttempts) /\ Record(o)
          \/ o # "pass" /\ attempts < MaxAttempts /\ cancelled /\ Record("error")
          \/ /\ o # "pass" /\ attempts < MaxAttempts /\ ~cancelled
             /\ attempts' = attempts + 1 /\ UNCHANGED <<next, results>>
  /\ UNCHANGED <<args, cluster, at, tries, polls, failure, reserved, needsCleanup,
                 steps, proof, slow, ending>>

\* Mutant of FailedCritical: a check that could not run counts as failed.
FailedOrUnevaluated ==
  \E i \in 1 .. plan.checks : i \in Critical /\ results[i] # "pass"

\* A critical check that did not pass, and did more than fail to run.
FailedCritical ==
  \E i \in 1 .. plan.checks : i \in Critical /\ results[i] \notin {"pass", "error"}

Unevaluated == \E i \in 1 .. plan.checks : i \in Critical /\ results[i] = "error"

\* Every check has a result: what they prove, how long the recovery took, and
\* the verdict.  A bad answer outranks a missing one.
FinishChecks ==
  /\ at = "run_checks" /\ next = plan.checks + 1
  /\ proof' = Raise(proof, ProvenBy(results))
  /\ slow' \in BOOLEAN
  /\ \/ FailedCritical /\ Abort("run_checks", "step")
     \/ ~FailedCritical /\ Unevaluated /\ Abort("run_checks", "unevaluated")
     \/ ~FailedCritical /\ ~Unevaluated /\ Complete("run_checks", "done")
  /\ UNCHANGED <<args, cluster, polls, reserved, needsCleanup, checking, ending>>

-----------------------------------------------------------------------------
(* The deferred block.                                                     *)

\* A panic anywhere in the workflow leaves its step open.
Panic ==
  /\ at \in Workflow
  /\ at' = "unwind" /\ tries' = 0 /\ failure' = "panic"
  /\ UNCHANGED <<args, cluster, polls, reserved, needsCleanup, steps, proof, slow,
                 checking, ending>>

\* gradeSuccess: only a check that ran and came back bad degrades.
Degraded == slow \/ \E i \in 1 .. plan.checks : i \notin Critical /\ results[i] = "fail"

\* markFailed, markInconclusive, markCancelled and gradeSuccess: run.State and
\* run.Result.  Cancellation is read from the context, and a panic outranks it.
Verdict ==
  CASE failure = "none" -> <<"SUCCESS", IF Degraded THEN "DEGRADED" ELSE "SUCCESS">>
    [] failure = "panic" -> <<"FAILED", "FAILED">>
    [] failure # "none" /\ failure # "panic" /\ cancelled -> <<"CANCELLED", "none">>
    [] failure = "step" /\ ~cancelled -> <<"FAILED", "FAILED">>
    [] failure = "unevaluated" /\ ~cancelled -> <<"INCONCLUSIVE", "none">>

\* Mutant of Keeps: a cancelled run counts as complete.
KeepsUnlessFailed(state) ==
  \/ plan.keepWorkload
  \/ state = "FAILED" /\ plan.keepOnFailure
  \/ state # "FAILED" /\ ~plan.always

\* The cleanup policy, on the graded state.
Keeps(state) ==
  \/ plan.keepWorkload
  \/ state # "SUCCESS" /\ plan.keepOnFailure
  \/ state = "SUCCESS" /\ ~plan.always

\* The run is graded; cleanup has nothing to do, is waived, or begins.
Unwind ==
  /\ at = "unwind"
  /\ grade' = Verdict[1] /\ result' = Verdict[2]
  /\ \/ /\ ~needsCleanup
        /\ at' = "done" /\ final' = Verdict[1] /\ cleanupDone' = TRUE
        /\ UNCHANGED steps
     \/ /\ needsCleanup /\ Keeps(Verdict[1])
        /\ at' = "done" /\ final' = Verdict[1]
        /\ steps' = [steps EXCEPT !["cleanup"] = "skipped"]
        /\ UNCHANGED cleanupDone
     \/ /\ needsCleanup /\ ~Keeps(Verdict[1])
        /\ at' = "stop"
        /\ steps' = [steps EXCEPT !["cleanup"] = "running"]
        /\ UNCHANGED <<final, cleanupDone>>
  /\ UNCHANGED <<args, cluster, tries, polls, failure, reserved, needsCleanup, proof,
                 slow, checking>>

\* Mutant of StopWorkload: nothing is deleted before a stop has succeeded.
StopWorkloadFirst ==
  /\ at = "stop"
  /\ \/ Retry /\ UNCHANGED wl
     \/ /\ wl \notin {"absent", "building"} /\ wl' = "hardened"
        /\ at' = "delete" /\ tries' = 0 /\ UNCHANGED <<failure, steps>>
  /\ UNCHANGED <<args, task, polls, reserved, needsCleanup, proof, slow, checking, ending>>

\* Stop is retried on the detached context, and is best effort.
StopWorkload ==
  /\ at = "stop"
  /\ wl' \in {wl} \cup (IF wl = "running" THEN {"hardened"} ELSE {})
  /\ \/ Retry
     \/ at' = "delete" /\ tries' = 0 /\ UNCHANGED <<failure, steps>>
  /\ UNCHANGED <<args, task, polls, reserved, needsCleanup, proof, slow, checking, ending>>

\* Mutant of DeleteWorkload: a failed delete leaves the graded state.
DeleteWorkloadQuietly ==
  /\ at = "delete"
  /\ at' = "done" /\ final' = grade
  /\ \/ wl \in {"raw", "hardened", "running"} /\ wl' = "absent" /\ cleanupDone' = TRUE
     \/ UNCHANGED <<wl, cleanupDone>>
  /\ steps' = [steps EXCEPT !["cleanup"] = "done"]
  /\ UNCHANGED <<args, task, tries, polls, failure, reserved, needsCleanup, proof, slow,
                 checking, grade, result>>

\* Delete is called once.  It fails on an id that is gone and on a workload
\* the cluster is still building; it stops a running one itself.
DeleteWorkload ==
  /\ at = "delete"
  /\ LET there == wl \notin {"absent", "building"}
     IN  \/ /\ there /\ wl' = "absent"
            /\ final' = grade /\ cleanupDone' = TRUE
            /\ steps' = [steps EXCEPT !["cleanup"] = "done"]
         \/ /\ wl' \in {wl} \cup (IF LostReplies /\ there THEN {"absent"} ELSE {})
            /\ final' = "CLEANUP_FAILED" /\ cleanupDone' = FALSE
            /\ steps' = [steps EXCEPT !["cleanup"] = "failed"]
  /\ at' = "done"
  /\ UNCHANGED <<args, task, tries, polls, failure, reserved, needsCleanup, proof, slow,
                 checking, grade, result>>

-----------------------------------------------------------------------------
\* The worker, or Ctrl-C, cancels the run's context.
Cancel ==
  /\ ~cancelled /\ at # "done"
  /\ cancelled' = TRUE
  /\ UNCHANGED <<plan, cluster, at, tries, polls, failure, reserved, needsCleanup,
                 steps, proof, slow, checking, ending>>

\* The steps of the goroutine inside Run.
Run ==
  \/ DiscoverBackup \/ PrepareEnvironment \/ SubmitRestore \/ AwaitJob
  \/ FinalizeRestore \/ StartWorkload \/ WaitForGuest
  \/ BeginCheck \/ EndAttempt \/ FinishChecks
  \/ Unwind \/ StopWorkload \/ DeleteWorkload

Next == Run \/ Panic \/ TaskEnds \/ Cancel

Spec == Init /\ [][Next]_vars

\* Run is scheduled and its calls return; the cluster finishes its tasks.
\* Nobody has to cancel, and nothing has to panic.
FairSpec == Spec /\ WF_vars(Run) /\ WF_vars(TaskEnds)

-----------------------------------------------------------------------------
(* The contract module DrillQueue relies on.                               *)

ContractPhase ==
  CASE at \in {"discover_backup", "prepare_environment"} -> "discover"
    [] at = "restore" -> "reserved"
    [] at \in {"job", "finalize", "start", "wait_for_guest", "run_checks"} -> "restored"
    [] at = "unwind" -> IF needsCleanup THEN "restored"
                        ELSE IF reserved THEN "reserved" ELSE "discover"
    [] at \in {"stop", "delete"} -> "cleaning"
    [] at = "done" -> "finish"

Contract == INSTANCE EngineContract WITH
  phase <- ContractPhase, halted <- cancelled, alive <- (wl # "absent"),
  grade <- (IF final = "CLEANUP_FAILED" THEN final ELSE grade)

-----------------------------------------------------------------------------
(* What must hold.                                                         *)

\* A workload is powered on only after FinalizeRestore rewrote its network
\* ("an un-hardened workload must never be started", restoreWorkload), and
\* only on a network that was declared isolated and not refused.
NeverExposed ==
  /\ wl # "exposed"
  /\ wl = "running" => plan.network \in {"unverified", "verified"}

\* Run knows whether it has made something: where answers can be lost, the
\* answer to its restore was not.
Known == LostReplies => needsCleanup

\* What a drill leaves on the cluster is announced or was asked for: an
\* explicit keep, keep_on_failure for a run that did not complete, always:
\* false for one that did.  A Ctrl-C never turns always: false into a leak,
\* and neither does the lost answer of any call but the restore itself.
LeftoversAreAskedFor ==
  Known /\ at = "done" /\ wl # "absent" =>
    \/ final = "CLEANUP_FAILED"
    \/ /\ steps["cleanup"] = "skipped"
       /\ \/ plan.keepWorkload
          \/ final = "SUCCESS" /\ ~plan.always
          \/ final # "SUCCESS" /\ plan.keepOnFailure

\* "cleanup_done says whether the temporary workload was actually removed"
\* (docs/api.md): it is never set while something exists.
CleanupDoneIsTrue == Known /\ cleanupDone => wl = "absent"

\* A drill accuses a backup only on an answer: when the checks were reached, a
\* FAILED result means a critical check ran and came back bad - not that it
\* could not be evaluated, and not that the run was stopped (markInconclusive,
\* markCancelled); SUCCESS means every critical check passed in time.
VerdictIsEvidence ==
  at = "done" =>
    /\ result = "FAILED" /\ failure # "panic" /\ steps["run_checks"] # "none" =>
         \E i \in Critical : results[i] = "fail"
    /\ result \in {"SUCCESS", "DEGRADED"} =>
         \A i \in 1 .. plan.checks : i \in Critical /\ ~plan.dryRun => results[i] = "pass"
    /\ result = "SUCCESS" =>
         ~slow /\ \A i \in 1 .. NumChecks : results[i] # "fail"

\* The level a run claims is the highest one something established: a passing
\* check, or the guest agent for BOOT (ProvenBy, waitForGuest).
ProofIsEarned ==
  at = "done" =>
    /\ proof >= 2 => \E i \in 1 .. NumChecks : results[i] = "pass" /\ Proves[i] = proof
    /\ proof = 1 => \/ steps["wait_for_guest"] = "done"
                    \/ \E i \in 1 .. NumChecks : results[i] = "pass" /\ Proves[i] = 1
    /\ failure # "panic" =>
         \A i \in 1 .. NumChecks : results[i] = "pass" => proof >= Proves[i]

\* The engine is what DrillQueue takes it for.
ImplementsContract == Contract!Spec

\* A drill always ends: retries, polls and attempts are bounded and the
\* cleanup is tried once.
DrillEnds == <>(at = "done")

=============================================================================
