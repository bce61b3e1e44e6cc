----------------------------- MODULE DrillQueue -----------------------------
(***************************************************************************)
(* The life of a queued drill: the run rows of internal/store/queue.go and *)
(* runs.go, the worker processes of internal/worker that claim, execute,   *)
(* renew and reconcile them, the terminal write of internal/journal, and   *)
(* the temporary workloads those drills leave on the cluster.              *)
(*                                                                         *)
(* A row is one entry of each of state, owner, lease, asked, temp and err. *)
(* Time is abstracted to whether a lease has run out.  The engine appears  *)
(* here through the calls that touch the row or the cluster; its workflow  *)
(* and its grading are module Engine.                                      *)
(***************************************************************************)
EXTENDS Naturals, FiniteSets

CONSTANTS
  Runs,           \* run ids
  Workers,        \* worker processes sharing the database (lease owners)
  VMIDs,          \* the reserved temporary id range of the provider
  None,           \* SQL NULL, and "no value" of the Go side
  Concurrency,    \* limits.max_concurrent_restores, per worker
  Faults,         \* which of FaultKinds the environment may show
  MaxOutages,     \* bound on shutdowns and crashes together
  KeepOnFailure,  \* runs whose plan says cleanup.keep_on_failure: true
  KeepOnSuccess   \* runs whose plan says cleanup.always: false

(***************************************************************************)
(* What the environment may do beyond scheduling:                          *)
(*   crash        a process dies without running any deferred code         *)
(*   freeze       a live process misses its renewals (suspended machine)   *)
(*   slowcleanup  a cancelled drill, which no longer renews, is still      *)
(*                cleaning up when its lease runs out                      *)
(*   store        a database statement fails                               *)
(*   lostreply    a call took effect and its answer was lost               *)
(*   provider     the hypervisor client cannot be built                    *)
(*   operator     DELETE /cleanup/{vmid} is called while drills run        *)
(***************************************************************************)
FaultKinds == {"crash", "freeze", "slowcleanup", "store", "lostreply",
               "provider", "operator"}

Terminal == {"SUCCESS", "FAILED", "CANCELLED", "CLEANUP_FAILED", "INCONCLUSIVE"}

\* What a run's error may say: the engine's own word on a failed drill, or one
\* of the three reasons of settleInterrupted.
Messages == {"drill", "interrupted", "unreached", "orphaned"}

ASSUME ConcurrencyAssumption == Concurrency \in Nat \ {0}
ASSUME FaultsAssumption == Faults \subseteq FaultKinds
ASSUME OutagesAssumption == MaxOutages \in Nat
ASSUME NoneAssumption == None \notin Runs \cup Workers \cup VMIDs \cup Terminal \cup Messages

\* ABSENT: not enqueued yet.  RUNNING stands for the mirrored states from
\* DISCOVERING_BACKUP to RUNNING_CHECKS.
States == {"ABSENT", "QUEUED", "RUNNING", "CLEANING_UP"} \cup Terminal

VARIABLES
  state, owner, lease, asked, temp, err,  \* columns of the runs table
  vm,        \* vm[id]: the run whose workload exists under that id
  up,        \* up[w]: "down", "running" or "stopping"
  outages,   \* how many shutdowns and crashes have happened
  pc,        \* pc[r]: where the goroutine executing r stands
  halted,    \* halted[r]: the run's context is cancelled
  tmp,       \* tmp[r]: the id the engine reserved, in memory
  grade,     \* grade[r]: the state the engine will hand to Finish
  sweep      \* sweep[w]: the reconciliation loop of worker w

row == <<state, owner, lease, asked, temp, err>>
exec == <<pc, halted, tmp, grade>>
proc == <<up, outages>>
vars == <<row, vm, proc, exec, sweep>>

\* pc values in which the process holds the run in its inFlight map.
InFlightPoints == {"starting", "failing", "discover", "reserved", "restored",
                   "cleaning", "finish", "release"}
Executing == {"claimed"} \cup InFlightPoints

\* The points of execute at which the goroutine of holdLease exists.
Holding == {"discover", "reserved", "restored", "cleaning", "finish", "release"}

IdleSweep == [at |-> "idle", todo |-> {}, run |-> None, target |-> None,
              verdict |-> None, note |-> None]

SweepTypes == [at : {"idle", "loop", "clean", "settle", "note", "release"},
               todo : SUBSET Runs, run : Runs \cup {None},
               target : VMIDs \cup {None},
               verdict : {"FAILED", "CLEANUP_FAILED", None},
               note : {"interrupted", "unreached", "orphaned", None}]

TypeOK ==
  /\ state \in [Runs -> States]
  /\ owner \in [Runs -> Workers \cup {None}]
  /\ lease \in [Runs -> {"null", "valid", "expired"}]
  /\ asked \in [Runs -> BOOLEAN]
  /\ temp \in [Runs -> VMIDs \cup {None}]
  /\ err \in [Runs -> Messages \cup {None}]
  /\ vm \in [VMIDs -> Runs \cup {None}]
  /\ up \in [Workers -> {"down", "running", "stopping"}]
  /\ outages \in 0 .. MaxOutages
  /\ pc \in [Runs -> Executing \cup {"off"}]
  /\ halted \in [Runs -> BOOLEAN]
  /\ tmp \in [Runs -> VMIDs \cup {None}]
  /\ grade \in [Runs -> Terminal \cup {None}]
  /\ sweep \in [Workers -> SweepTypes]

Init ==
  /\ state = [r \in Runs |-> "ABSENT"]
  /\ owner = [r \in Runs |-> None]
  /\ lease = [r \in Runs |-> "null"]
  /\ asked = [r \in Runs |-> FALSE]
  /\ temp = [r \in Runs |-> None]
  /\ err = [r \in Runs |-> None]
  /\ vm = [id \in VMIDs |-> None]
  /\ up = [w \in Workers |-> "running"]
  /\ outages = 0
  /\ pc = [r \in Runs |-> "off"]
  /\ halted = [r \in Runs |-> FALSE]
  /\ tmp = [r \in Runs |-> None]
  /\ grade = [r \in Runs |-> None]
  /\ sweep = [w \in Workers |-> IdleSweep]

-----------------------------------------------------------------------------
(* Statements of the store.                                                *)

\* The values a column may take after a statement that wants to write new.
Written(new, old) == {new} \cup (IF "store" \in Faults THEN {old} ELSE {})

\* Mutant of SetState: without the guard on settled states.
SetStateUnguarded(r, s) == [state EXCEPT ![r] = s]

\* SetState: the WHERE clause keeps a settled run settled.
SetState(r, s) == [state EXCEPT ![r] = IF @ \in Terminal THEN @ ELSE s]

\* SetTempWorkload: no guard, and no row is no error.
SetTempWorkload(r, id) == [temp EXCEPT ![r] = id]

\* FinishLease: clears the expiry and keeps the owner.
FinishLease(r) == [lease EXCEPT ![r] = "null"]

\* Mutant of StaleRuns: a claim that died before its first event is not seen.
StaleStartedRuns == {r \in Runs : /\ owner[r] # None
                                  /\ state[r] \notin Terminal \cup {"QUEUED"}
                                  /\ lease[r] = "expired"}

\* StaleRuns: claimed, not settled, lease run out.
StaleRuns == {r \in Runs : /\ owner[r] # None
                           /\ state[r] \notin Terminal
                           /\ lease[r] = "expired"}

-----------------------------------------------------------------------------
(* The queue as its clients see it.                                        *)

Enqueue(r) ==
  /\ state[r] = "ABSENT"
  /\ state' = [state EXCEPT ![r] = "QUEUED"]
  /\ UNCHANGED <<owner, lease, asked, temp, err, vm, proc, exec, sweep>>

\* A run nobody claimed is settled on the spot, any other is only asked.  The
\* code's two statements act as one: a claimed run never becomes unclaimed.
RequestCancel(r) ==
  \/ /\ state[r] = "QUEUED" /\ owner[r] = None
     /\ state' = [state EXCEPT ![r] = "CANCELLED"]
     /\ asked' = [asked EXCEPT ![r] = TRUE]
     /\ UNCHANGED <<owner, lease, temp, err, vm, proc, exec, sweep>>
  \/ /\ owner[r] # None /\ state[r] \notin Terminal /\ ~asked[r]
     /\ asked' = [asked EXCEPT ![r] = TRUE]
     /\ UNCHANGED <<state, owner, lease, temp, err, vm, proc, exec, sweep>>

\* handleCleanup: an operator removes a workload of the reserved range.
OperatorCleanup(id) ==
  /\ "operator" \in Faults
  /\ vm[id] # None
  /\ vm' = [vm EXCEPT ![id] = None]
  /\ UNCHANGED <<row, proc, exec, sweep>>

-----------------------------------------------------------------------------
(* Worker.Run and execute.                                                 *)

\* Mutant of ClaimRun: the WHERE clause forgets lease_owner IS NULL.
ClaimQueuedRun(w, r) ==
  /\ up[w] = "running"
  /\ Cardinality({q \in Runs : owner[q] = w /\ pc[q] \in Executing}) < Concurrency
  /\ state[r] = "QUEUED"
  /\ owner' = [owner EXCEPT ![r] = w]
  /\ lease' = [lease EXCEPT ![r] = "valid"]
  /\ pc' = [pc EXCEPT ![r] = "claimed"]
  /\ UNCHANGED <<state, asked, temp, err, vm, proc, halted, tmp, grade, sweep>>

\* ClaimRun takes a queued, unclaimed run while the worker has a free slot.
\* Which one is left open: SKIP LOCKED may pass over the oldest.  When the
\* commit's answer is lost the row is claimed and no goroutine knows it.
ClaimRun(w, r) ==
  /\ up[w] = "running"
  /\ Cardinality({q \in Runs : owner[q] = w /\ pc[q] \in Executing}) < Concurrency
  /\ state[r] = "QUEUED" /\ owner[r] = None
  /\ owner' = [owner EXCEPT ![r] = w]
  /\ lease' = [lease EXCEPT ![r] = "valid"]
  /\ \/ pc' = [pc EXCEPT ![r] = "claimed"]
     \/ "lostreply" \in Faults /\ UNCHANGED pc
  /\ UNCHANGED <<state, asked, temp, err, vm, proc, halted, tmp, grade, sweep>>

\* markInFlight, then the goroutine of execute.
MarkInFlight(r) ==
  /\ pc[r] = "claimed"
  /\ pc' = [pc EXCEPT ![r] = "starting"]
  /\ UNCHANGED <<row, vm, proc, halted, tmp, grade, sweep>>

\* Mutant of Fail: releases the lease without recording the failure.
FailSilently(r) ==
  /\ pc[r] = "starting"
  /\ pc' = [pc EXCEPT ![r] = "failing"]
  /\ UNCHANGED <<row, vm, proc, halted, tmp, grade, sweep>>

\* fail(): the plan, a provider or the network could not be resolved.
Fail(r) ==
  /\ pc[r] = "starting"
  /\ state' \in Written(SetState(r, "FAILED"), state)
  /\ pc' = [pc EXCEPT ![r] = "failing"]
  /\ UNCHANGED <<owner, lease, asked, temp, err, vm, proc, halted, tmp, grade, sweep>>

\* Mutant of FailRelease: this early return never frees the slot.
FailReleaseLeaks(r) ==
  /\ pc[r] = "failing"
  /\ lease' \in Written(FinishLease(r), lease)
  /\ UNCHANGED <<state, owner, asked, temp, err, vm, proc, exec, sweep>>

\* fail() ends with FinishLease, and the deferred clearInFlight.
FailRelease(r) ==
  /\ pc[r] = "failing"
  /\ lease' \in Written(FinishLease(r), lease)
  /\ pc' = [pc EXCEPT ![r] = "off"]
  /\ halted' = [halted EXCEPT ![r] = FALSE]
  /\ UNCHANGED <<state, owner, asked, temp, err, vm, proc, tmp, grade, sweep>>

\* The engine opens discover_backup, and mirrorState writes its state.
EngineBegin(r) ==
  /\ pc[r] = "starting"
  /\ state' \in Written(SetState(r, "RUNNING"), state)
  /\ pc' = [pc EXCEPT ![r] = "discover"]
  /\ UNCHANGED <<owner, lease, asked, temp, err, vm, proc, halted, tmp, grade, sweep>>

\* Mutant of Reserve: the id is recorded by the next event only.
ReserveUnrecorded(r, id) ==
  /\ pc[r] = "discover" /\ ~halted[r]
  /\ vm[id] = None
  /\ tmp' = [tmp EXCEPT ![r] = id]
  /\ pc' = [pc EXCEPT ![r] = "reserved"]
  /\ UNCHANGED <<row, vm, proc, halted, grade, sweep>>

\* prepare_environment allocates an id that is free now, which reserves
\* nothing on the cluster; the event that closes the step records it
\* (SetTempWorkload, attempted once) before Restore is called.
Reserve(r, id) ==
  /\ pc[r] = "discover" /\ ~halted[r]
  /\ vm[id] = None
  /\ tmp' = [tmp EXCEPT ![r] = id]
  /\ temp' \in Written(SetTempWorkload(r, id), temp)
  /\ pc' = [pc EXCEPT ![r] = "reserved"]
  /\ UNCHANGED <<state, owner, lease, asked, err, vm, proc, halted, grade, sweep>>

\* Restore is accepted; the provider never forces it over an id in use.
Restore(r) ==
  /\ pc[r] = "reserved" /\ ~halted[r]
  /\ vm[tmp[r]] = None
  /\ vm' = [vm EXCEPT ![tmp[r]] = r]
  /\ pc' = [pc EXCEPT ![r] = "restored"]
  /\ UNCHANGED <<row, proc, halted, tmp, grade, sweep>>

\* What the deferred block of Engine.Run grades an unsuccessful workflow.  A
\* recovered panic stays FAILED even in a cancelled run.
Unsuccessful(r) == IF halted[r] THEN {"CANCELLED", "FAILED"} ELSE {"FAILED"}

\* A step before Restore failed, or Restore returned an error: needsCleanup is
\* false and cleanup is a no-op.  A lost answer leaves a workload behind.
AbortEarly(r) ==
  /\ pc[r] \in {"discover", "reserved"}
  /\ \E g \in Unsuccessful(r) : grade' = [grade EXCEPT ![r] = g]
  /\ pc' = [pc EXCEPT ![r] = "finish"]
  /\ \/ UNCHANGED vm
     \/ /\ "lostreply" \in Faults
        /\ pc[r] = "reserved" /\ vm[tmp[r]] = None
        /\ vm' = [vm EXCEPT ![tmp[r]] = r]
  /\ UNCHANGED <<row, proc, halted, tmp, sweep>>

Incomplete == {"FAILED", "CANCELLED", "INCONCLUSIVE"}

\* cleanup leaves the workload where the plan's policy says so.
Keeps(r, g) ==
  \/ g \in Incomplete /\ r \in KeepOnFailure
  \/ g \notin Incomplete /\ r \in KeepOnSuccess

\* Mutant of GradeDrill: the graded state is mirrored before the cleanup.
GradeDrillMirrored(r) ==
  /\ pc[r] = "restored"
  /\ \E g \in Unsuccessful(r) \cup {"SUCCESS"} :
       /\ grade' = [grade EXCEPT ![r] = g]
       /\ state' \in Written(SetState(r, g), state)
  /\ pc' = [pc EXCEPT ![r] = "cleaning"]
  /\ UNCHANGED <<owner, lease, asked, temp, err, vm, proc, halted, tmp, sweep>>

\* From the end of restore_workload to the grade.  cleanup then either records
\* a skipped step or opens its own, which mirrorState shows as CLEANING_UP:
\* the graded state is not written yet.
GradeDrill(r) ==
  /\ pc[r] = "restored"
  /\ \E g \in Unsuccessful(r) \cup {"SUCCESS"}
              \cup (IF halted[r] THEN {} ELSE {"INCONCLUSIVE"}) :
       /\ grade' = [grade EXCEPT ![r] = g]
       /\ pc' = [pc EXCEPT ![r] = IF Keeps(r, g) THEN "finish" ELSE "cleaning"]
  /\ state' \in Written(SetState(r, "CLEANING_UP"), state)
  /\ UNCHANGED <<owner, lease, asked, temp, err, vm, proc, halted, tmp, sweep>>

\* hv.Delete(id): it looks at the reserved range and at the ownership mark,
\* never at which run the workload belongs to, and an id that is gone is an
\* error.  An outcome is what is left on the cluster and what the call said.
DeleteOutcomes(id) ==
  {<<vm, "error">>} \cup
    (IF id = None \/ vm[id] = None THEN {}
     ELSE {<<[vm EXCEPT ![id] = None], "ok">>} \cup
          (IF "lostreply" \in Faults THEN {<<[vm EXCEPT ![id] = None], "error">>} ELSE {}))

\* Stop and Delete on the detached context, once.
CleanupDrill(r) ==
  /\ pc[r] = "cleaning"
  /\ \E d \in DeleteOutcomes(tmp[r]) :
       /\ vm' = d[1]
       /\ grade' = IF d[2] = "ok" THEN grade ELSE [grade EXCEPT ![r] = "CLEANUP_FAILED"]
  /\ pc' = [pc EXCEPT ![r] = "finish"]
  /\ UNCHANGED <<row, proc, halted, tmp, sweep>>

\* run.Err as the engine leaves it.
ErrOf(g) == CASE g = "SUCCESS" -> None
              [] g = "CLEANUP_FAILED" -> "orphaned"
              [] OTHER -> "drill"

\* UpdateRun: the run as the engine left it, with no guard on the state.
UpdateRun(r) ==
  /\ state' = [state EXCEPT ![r] = grade[r]]
  /\ temp' = [temp EXCEPT ![r] = tmp[r]]
  /\ err' = [err EXCEPT ![r] = ErrOf(grade[r])]

\* Recorder.Finish ends with UpdateRun; a failed write is only a warning.
Finish(r) ==
  /\ pc[r] = "finish"
  /\ \/ UpdateRun(r)
     \/ "store" \in Faults /\ UNCHANGED <<state, temp, err>>
  /\ pc' = [pc EXCEPT ![r] = "release"]
  /\ UNCHANGED <<owner, lease, asked, vm, proc, halted, tmp, grade, sweep>>

\* FinishLease whatever Finish wrote, then clearInFlight and the slot.
Release(r) ==
  /\ pc[r] = "release"
  /\ lease' \in Written(FinishLease(r), lease)
  /\ pc' = [pc EXCEPT ![r] = "off"]
  /\ halted' = [halted EXCEPT ![r] = FALSE]
  /\ tmp' = [tmp EXCEPT ![r] = None]
  /\ grade' = [grade EXCEPT ![r] = None]
  /\ UNCHANGED <<state, owner, asked, temp, err, vm, proc, sweep>>

-----------------------------------------------------------------------------
(* The lease.                                                              *)

\* One tick of holdLease.  RenewLease only asks that the owner is still this
\* worker, and nothing ever changes an owner, so it succeeds unless the
\* database does not answer - which cancels the drill.
Tick(r) ==
  /\ pc[r] \in Holding /\ ~halted[r]
  /\ \/ /\ lease' = [lease EXCEPT ![r] = "valid"]
        /\ \/ halted' = [halted EXCEPT ![r] = asked[r]]
           \/ "store" \in Faults /\ UNCHANGED halted
     \/ /\ "store" \in Faults
        /\ halted' = [halted EXCEPT ![r] = TRUE]
        /\ UNCHANGED lease
  /\ UNCHANGED <<state, owner, asked, temp, err, vm, proc, pc, tmp, grade, sweep>>

\* Nobody renews the lease of r any more, or it is assumed to come too late.
RenewalsEnded(r) ==
  \/ pc[r] = "off"
  \/ "freeze" \in Faults
  \/ "slowcleanup" \in Faults /\ halted[r] /\ pc[r] = "cleaning"

LeaseExpires(r) ==
  /\ lease[r] = "valid"
  /\ RenewalsEnded(r)
  /\ lease' = [lease EXCEPT ![r] = "expired"]
  /\ UNCHANGED <<state, owner, asked, temp, err, vm, proc, exec, sweep>>

-----------------------------------------------------------------------------
(* reconcile: at startup and one lease apart, in every live worker.        *)

Alive(w) == up[w] # "down"

\* A statement of the sweep runs on the worker's own context: it fails once the
\* worker is stopping.
SweptWrite(w, new, old) ==
  IF up[w] = "running" THEN Written(new, old) ELSE {old}

SweepScan(w) ==
  /\ up[w] = "running" /\ sweep[w].at = "idle"
  /\ StaleRuns # {}
  /\ sweep' = [sweep EXCEPT ![w] = [IdleSweep EXCEPT !.at = "loop", !.todo = StaleRuns]]
  /\ UNCHANGED <<row, vm, proc, exec>>

InFlight(w, r) == owner[r] = w /\ pc[r] \in InFlightPoints

\* The next stale run: skipped when this process is executing it, otherwise
\* read (GetRun).  A failed read leaves it for the next sweep.
SweepNext(w) ==
  /\ Alive(w) /\ sweep[w].at = "loop"
  /\ \E r \in sweep[w].todo :
       LET rest == sweep[w].todo \ {r}
           skip == [IdleSweep EXCEPT !.at = "loop", !.todo = rest]
           read == [skip EXCEPT !.at = "clean", !.run = r, !.target = temp[r]]
           fails == up[w] = "stopping" \/ "store" \in Faults
       IN  \/ /\ ~InFlight(w, r) /\ up[w] = "running"
              /\ sweep' = [sweep EXCEPT ![w] = read]
           \/ /\ InFlight(w, r) \/ fails
              /\ sweep' = [sweep EXCEPT ![w] = skip]
  /\ UNCHANGED <<row, vm, proc, exec>>

SweepDone(w) ==
  /\ Alive(w) /\ sweep[w].at = "loop" /\ sweep[w].todo = {}
  /\ sweep' = [sweep EXCEPT ![w] = IdleSweep]
  /\ UNCHANGED <<row, vm, proc, exec>>

\* Mutant of SweepClean: a refused cleanup is only logged.
SweepCleanQuietly(w) ==
  /\ Alive(w) /\ sweep[w].at = "clean"
  /\ \E d \in DeleteOutcomes(sweep[w].target) :
       /\ up[w] = "running" \/ d[2] = "error"
       /\ vm' = d[1]
  /\ sweep' = [sweep EXCEPT ![w].at = "settle", ![w].verdict = "FAILED",
                            ![w].note = "interrupted"]
  /\ UNCHANGED <<row, proc, exec>>

\* settleInterrupted up to its verdict: nothing to remove, a provider that
\* cannot be reached, or Cleanup on the id the row named.
SweepClean(w) ==
  /\ Alive(w) /\ sweep[w].at = "clean"
  /\ LET decide(v, n) == sweep' = [sweep EXCEPT ![w].at = "settle",
                                     ![w].verdict = v, ![w].note = n]
     IN  \/ /\ sweep[w].target = None
            /\ decide("FAILED", "interrupted")
            /\ UNCHANGED vm
         \/ /\ sweep[w].target # None /\ "provider" \in Faults
            /\ decide("FAILED", "unreached")
            /\ UNCHANGED vm
         \/ /\ sweep[w].target # None
            /\ \E d \in DeleteOutcomes(sweep[w].target) :
                 /\ up[w] = "running" \/ d[2] = "error"
                 /\ vm' = d[1]
                 /\ IF d[2] = "ok" THEN decide("FAILED", "interrupted")
                            ELSE decide("CLEANUP_FAILED", "orphaned")
  /\ UNCHANGED <<row, proc, exec>>

\* settle, one statement per step: SetState, SetRunError, FinishLease.
SweepSettle(w) ==
  /\ Alive(w) /\ sweep[w].at = "settle"
  /\ state' \in SweptWrite(w, SetState(sweep[w].run, sweep[w].verdict), state)
  /\ sweep' = [sweep EXCEPT ![w].at = "note"]
  /\ UNCHANGED <<owner, lease, asked, temp, err, vm, proc, exec>>

\* Mutant of SweepNote: the message of a clean recovery, whatever was found.
SweepNoteInterrupted(w) ==
  /\ Alive(w) /\ sweep[w].at = "note"
  /\ err' \in SweptWrite(w, [err EXCEPT ![sweep[w].run] = "interrupted"], err)
  /\ sweep' = [sweep EXCEPT ![w].at = "release"]
  /\ UNCHANGED <<state, owner, lease, asked, temp, vm, proc, exec>>

SweepNote(w) ==
  /\ Alive(w) /\ sweep[w].at = "note"
  /\ err' \in SweptWrite(w, [err EXCEPT ![sweep[w].run] = sweep[w].note], err)
  /\ sweep' = [sweep EXCEPT ![w].at = "release"]
  /\ UNCHANGED <<state, owner, lease, asked, temp, vm, proc, exec>>

SweepRelease(w) ==
  /\ Alive(w) /\ sweep[w].at = "release"
  /\ lease' \in SweptWrite(w, FinishLease(sweep[w].run), lease)
  /\ sweep' = [sweep EXCEPT ![w] = [IdleSweep EXCEPT !.at = "loop", !.todo = sweep[w].todo]]
  /\ UNCHANGED <<state, owner, asked, temp, err, vm, proc, exec>>

-----------------------------------------------------------------------------
(* Processes.                                                              *)

Mine(w) == {r \in Runs : owner[r] = w /\ pc[r] \in Executing}

\* The worker's context is cancelled: no more claims, every drill is asked to
\* stop.
Shutdown(w) ==
  /\ up[w] = "running" /\ outages < MaxOutages
  /\ up' = [up EXCEPT ![w] = "stopping"]
  /\ outages' = outages + 1
  /\ halted' = [r \in Runs |-> halted[r] \/ r \in Mine(w)]
  /\ UNCHANGED <<row, vm, pc, tmp, grade, sweep>>

\* Run waits for the drills and the sweep before it returns.
Exit(w) ==
  /\ up[w] = "stopping" /\ Mine(w) = {} /\ sweep[w].at = "idle"
  /\ up' = [up EXCEPT ![w] = "down"]
  /\ UNCHANGED <<row, vm, outages, exec, sweep>>

\* kill -9 or a power cut: everything in memory is gone.
Crash(w) ==
  /\ "crash" \in Faults /\ Alive(w) /\ outages < MaxOutages
  /\ up' = [up EXCEPT ![w] = "down"]
  /\ outages' = outages + 1
  /\ pc' = [r \in Runs |-> IF r \in Mine(w) THEN "off" ELSE pc[r]]
  /\ halted' = [r \in Runs |-> halted[r] /\ r \notin Mine(w)]
  /\ tmp' = [r \in Runs |-> IF r \in Mine(w) THEN None ELSE tmp[r]]
  /\ grade' = [r \in Runs |-> IF r \in Mine(w) THEN None ELSE grade[r]]
  /\ sweep' = [sweep EXCEPT ![w] = IdleSweep]
  /\ UNCHANGED <<row, vm>>

Start(w) ==
  /\ up[w] = "down"
  /\ up' = [up EXCEPT ![w] = "running"]
  /\ UNCHANGED <<row, vm, outages, exec, sweep>>

-----------------------------------------------------------------------------
\* The steps of the goroutine executing r.
Execute(r) ==
  \/ MarkInFlight(r) \/ Fail(r) \/ FailRelease(r) \/ EngineBegin(r)
  \/ \E id \in VMIDs : Reserve(r, id)
  \/ Restore(r) \/ AbortEarly(r) \/ GradeDrill(r) \/ CleanupDrill(r)
  \/ Finish(r) \/ Release(r)

Reconcile(w) ==
  \/ SweepScan(w) \/ SweepNext(w) \/ SweepDone(w) \/ SweepClean(w)
  \/ SweepSettle(w) \/ SweepNote(w) \/ SweepRelease(w)

Next ==
  \/ \E r \in Runs : Enqueue(r) \/ RequestCancel(r) \/ Execute(r)
                     \/ Tick(r) \/ LeaseExpires(r)
  \/ \E w \in Workers : \/ \E r \in Runs : ClaimRun(w, r)
                        \/ Reconcile(w) \/ Shutdown(w) \/ Exit(w)
                        \/ Crash(w) \/ Start(w)
  \/ \E id \in VMIDs : OperatorCleanup(id)

Spec == Init /\ [][Next]_vars

\* Goroutines are scheduled, calls return (every one has a timeout), tickers
\* tick, time passes, and a process that is down is started again.  Clients,
\* shutdowns and faults owe nothing.
Fairness ==
  /\ \A r \in Runs : /\ WF_vars(Execute(r)) /\ WF_vars(Tick(r))
                     /\ WF_vars(LeaseExpires(r))
  /\ \A w \in Workers : /\ WF_vars(\E r \in Runs : ClaimRun(w, r))
                        /\ WF_vars(Reconcile(w))
                        /\ WF_vars(Exit(w)) /\ WF_vars(Start(w))

FairSpec == Spec /\ Fairness

-----------------------------------------------------------------------------
(* The lifecycle this implements.                                          *)

LifecyclePhase == [r \in Runs |->
  IF state[r] \in Terminal THEN "settled"
  ELSE IF owner[r] # None THEN "taken"
  ELSE IF state[r] = "ABSENT" THEN "absent" ELSE "waiting"]

\* A goroutine past its last write of the state no longer drives the drill.
Driven == {r \in Runs : pc[r] \in Executing \ {"failing", "release"}}

Lifecycle == INSTANCE DrillLifecycle WITH phase <- LifecyclePhase, driven <- Driven

-----------------------------------------------------------------------------
(* What must hold.                                                         *)

\* A run is executed at most once, whatever dies: a claim keeps its owner for
\* ever, and a claimed run that nobody executes is never picked up again
\* (ClaimRun's WHERE clause, FinishLease keeping the owner, reconcile failing
\* instead of replaying).
NeverReplayed ==
  [][\A r \in Runs : owner[r] # None =>
        owner'[r] = owner[r] /\ (pc[r] = "off" => pc'[r] = "off")]_vars

\* Nothing exists on the cluster that the database cannot name: the row holds
\* the id before Restore is called (journal Emit, SetTempWorkload).
RecordedBeforeCreated ==
  \A id \in VMIDs : \A r \in Runs : vm[id] = r => temp[r] = id

\* A settled run is over: no goroutine is still driving a drill whose row
\* already carries a final state, so the state a reader waits for (SSE, the
\* dispatcher, the one-drill-per-workload check) really is the end.
SettledMeansOver ==
  \A r \in Runs : state[r] \in Terminal => pc[r] \in {"off", "failing", "release"}

\* "The first writer decides": terminalStates are states a run never leaves,
\* by mirrorState, by a sweep or by the final UpdateRun.
FirstWriterDecides ==
  [][\A r \in Runs : state[r] \in Terminal => state'[r] = state[r]]_vars

\* A workload that outlives its run is announced: the run is CLEANUP_FAILED,
\* or the plan's policy kept it (cleanup, settleInterrupted).
NoSilentOrphan ==
  \A id \in VMIDs : \A r \in Runs :
    vm[id] = r /\ state[r] \in Terminal /\ pc[r] = "off" =>
      state[r] = "CLEANUP_FAILED" \/ Keeps(r, state[r])

\* The workload of a drill in progress is removed by nobody but its own
\* cleanup, although ids are not reserved and Delete never asks whose they are.
LiveWorkloadIsSafe ==
  [][\A id \in VMIDs : \A r \in Runs :
        vm[id] = r /\ vm'[id] # r /\ pc[r] \in Executing => pc[r] = "cleaning"]_vars

\* fail, settle and execute never leave a claimed run unsettled with its
\* lease released: StaleRuns could not see it and ClaimRun would refuse it.
NeverStranded ==
  \A r \in Runs : owner[r] # None /\ pc[r] = "off" /\ lease[r] = "null" =>
    state[r] \in Terminal

\* A workload that outlives a CLEANUP_FAILED run is named by the run's message,
\* through two sweeps whose statements interleave with each other's and with the
\* drill's own Finish (settle writes state and message in two statements, and
\* SetRunError has no guard).  The message is missing only between the two, or
\* for good once a second process stopped: the first loss made the run stale.
LeftoverIsNamed ==
  \A id \in VMIDs : \A r \in Runs :
    vm[id] = r /\ state[r] = "CLEANUP_FAILED" =>
      \/ err[r] = "orphaned"
      \/ /\ err[r] = None
         /\ (\E w \in Workers : sweep[w].at = "note" /\ sweep[w].run = r) \/ outages > 1

\* The converse holds for one worker only and is checked by no run: of two
\* sweeps the one that removed the workload may settle the state as FAILED and
\* the one that found it gone write its ORPHANED WORKLOAD beside it.
OrphanMessageIsState ==
  \A r \in Runs : err[r] = "orphaned" => state[r] = "CLEANUP_FAILED"

\* The queue implements DrillLifecycle: one submission, one taker, one driver,
\* one final state, through crashes, failed statements and lost answers.
ImplementsLifecycle == Lifecycle!Spec

\* Every queued run settles: claimed, executed and finished, cancelled, or
\* failed by reconciliation once its worker is gone.
QueuedRunsSettle ==
  \A r \in Runs : state[r] = "QUEUED" ~> state[r] \in Terminal

\* A worker asked to stop does: Run waits for its drills and its sweep, and
\* none of them waits for ever.
WorkerStops ==
  \A w \in Workers : up[w] = "stopping" ~> up[w] = "down"

=============================================================================
