-------------------------- MODULE DrillQueueProofs --------------------------
(***************************************************************************)
(* Theorems about DrillQueue, for every number of runs, workers and ids.   *)
(***************************************************************************)
EXTENDS DrillQueue, TLAPS

USE NoneAssumption

\* What Finish and settle are about to write is known: the engine has graded
\* the run, the sweep has reached its verdict.
VerdictsKnown ==
  /\ \A r \in Runs : pc[r] \in {"cleaning", "finish"} => grade[r] # None
  /\ \A w \in Workers :
       /\ sweep[w].at = "settle" => sweep[w].verdict # None
       /\ sweep[w].at \notin {"idle", "loop"} => sweep[w].run \in Runs

TypeInv == TypeOK /\ VerdictsKnown

LEMMA SetStateType ==
  ASSUME TypeOK, NEW r \in Runs, NEW s \in States,
         NEW new \in Written(SetState(r, s), state)
  PROVE  new \in [Runs -> States]
<1>1. SetState(r, s) \in [Runs -> States]
  BY DEF SetState, TypeOK
<1>2. new = SetState(r, s) \/ new = state
  BY DEF Written
<1> QED BY <1>1, <1>2 DEF TypeOK

LEMMA FinishLeaseType ==
  ASSUME TypeOK, NEW r
  PROVE  Written(FinishLease(r), lease) \subseteq [Runs -> {"null", "valid", "expired"}]
BY DEF FinishLease, Written, TypeOK

LEMMA DeleteType ==
  ASSUME TypeOK, NEW id \in VMIDs \cup {None}, NEW d \in DeleteOutcomes(id)
  PROVE  d[1] \in [VMIDs -> Runs \cup {None}]
<1>1. CASE id = None \/ vm[id] = None
  BY <1>1 DEF DeleteOutcomes, TypeOK
<1>2. CASE id # None /\ vm[id] # None
  <2>1. id \in VMIDs
    BY <1>2
  <2>2. d[1] = vm \/ d[1] = [vm EXCEPT ![id] = None]
    BY <1>2 DEF DeleteOutcomes
  <2> QED BY <2>1, <2>2 DEF TypeOK
<1> QED BY <1>1, <1>2

LEMMA IdleSweepType ==
  /\ IdleSweep \in SweepTypes
  /\ \A S \in SUBSET Runs : [IdleSweep EXCEPT !.at = "loop", !.todo = S] \in SweepTypes
BY DEF IdleSweep, SweepTypes

LEMMA ExecuteType ==
  ASSUME TypeInv, NEW r \in Runs, Execute(r)
  PROVE  TypeInv'
<1> USE DEF TypeInv, VerdictsKnown
<1>1. CASE MarkInFlight(r)
  BY <1>1 DEF MarkInFlight, TypeOK, Executing, InFlightPoints, row, proc
<1>2. CASE Fail(r)
  <2>1. state' \in [Runs -> States]
    BY <1>2, SetStateType DEF Fail, States, Terminal
  <2> QED BY <1>2, <2>1 DEF Fail, TypeOK, Executing, InFlightPoints, proc
<1>3. CASE FailRelease(r)
  <2>1. lease' \in [Runs -> {"null", "valid", "expired"}]
    BY <1>3, FinishLeaseType DEF FailRelease
  <2> QED BY <1>3, <2>1 DEF FailRelease, TypeOK, proc
<1>4. CASE EngineBegin(r)
  <2>1. state' \in [Runs -> States]
    BY <1>4, SetStateType DEF EngineBegin, States
  <2> QED BY <1>4, <2>1 DEF EngineBegin, TypeOK, Executing, InFlightPoints, proc
<1>5. ASSUME NEW id \in VMIDs, Reserve(r, id) PROVE TypeInv'
  BY <1>5 DEF Reserve, SetTempWorkload, Written, TypeOK, Executing, InFlightPoints, proc
<1>6. CASE Restore(r)
  BY <1>6 DEF Restore, TypeOK, Executing, InFlightPoints, row, proc
<1>7. CASE AbortEarly(r)
  <2>1. PICK g \in Unsuccessful(r) : grade' = [grade EXCEPT ![r] = g]
    BY <1>7 DEF AbortEarly
  <2>2. g \in Terminal /\ g # None
    BY DEF Unsuccessful, Terminal
  <2>3. grade' \in [Runs -> Terminal \cup {None}] /\ grade'[r] # None
    BY <2>1, <2>2 DEF TypeOK
  <2>4. vm' \in [VMIDs -> Runs \cup {None}]
    BY <1>7 DEF AbortEarly, TypeOK
  <2> QED
    BY <1>7, <2>1, <2>3, <2>4 DEF AbortEarly, TypeOK, Executing, InFlightPoints, row, proc
<1>8. CASE GradeDrill(r)
  <2>1. state' \in [Runs -> States]
    BY <1>8, SetStateType DEF GradeDrill, States
  <2>2. PICK g \in Unsuccessful(r) \cup {"SUCCESS", "INCONCLUSIVE"} :
          /\ grade' = [grade EXCEPT ![r] = g]
          /\ pc' = [pc EXCEPT ![r] = IF Keeps(r, g) THEN "finish" ELSE "cleaning"]
    BY <1>8 DEF GradeDrill
  <2>3. g \in Terminal /\ g # None
    BY DEF Unsuccessful, Terminal
  <2> QED
    BY <1>8, <2>1, <2>2, <2>3 DEF GradeDrill, TypeOK, Executing, InFlightPoints, proc
<1>9. CASE CleanupDrill(r)
  <2>1. vm' \in [VMIDs -> Runs \cup {None}]
    BY <1>9, DeleteType, tmp[r] \in VMIDs \cup {None} DEF CleanupDrill, TypeOK
  <2>2. grade' \in [Runs -> Terminal \cup {None}] /\ grade'[r] # None
    BY <1>9 DEF CleanupDrill, TypeOK, Terminal
  <2> QED
    BY <1>9, <2>1, <2>2 DEF CleanupDrill, TypeOK, Executing, InFlightPoints, row, proc
<1>10. CASE Finish(r)
  BY <1>10 DEF Finish, UpdateRun, ErrOf, Messages, States, TypeOK, Executing, InFlightPoints, proc
<1>11. CASE Release(r)
  <2>1. lease' \in [Runs -> {"null", "valid", "expired"}]
    BY <1>11, FinishLeaseType DEF Release
  <2> QED BY <1>11, <2>1 DEF Release, TypeOK, proc
<1> QED
  BY <1>1, <1>2, <1>3, <1>4, <1>5, <1>6, <1>7, <1>8, <1>9, <1>10, <1>11 DEF Execute


LEMMA ReconcileType ==
  ASSUME TypeInv, NEW w \in Workers, Reconcile(w)
  PROVE  TypeInv'
<1> USE DEF TypeInv, VerdictsKnown
<1>0. sweep[w] \in SweepTypes
  BY DEF TypeOK
<1>1. CASE SweepScan(w)
  <2>1. StaleRuns \in SUBSET Runs
    BY DEF StaleRuns
  <2> DEFINE s == [IdleSweep EXCEPT !.at = "loop", !.todo = StaleRuns]
  <2>2. s \in SweepTypes /\ s.at = "loop"
    BY <2>1, IdleSweepType DEF IdleSweep
  <2> HIDE DEF s
  <2>3. sweep' = [sweep EXCEPT ![w] = s]
    BY <1>1 DEF SweepScan, s
  <2> QED BY <1>1, <2>2, <2>3 DEF SweepScan, TypeOK, row, proc, exec
<1>2. CASE SweepNext(w)
  <2>1. PICK r \in sweep[w].todo :
          LET skip == [IdleSweep EXCEPT !.at = "loop", !.todo = sweep[w].todo \ {r}]
              read == [skip EXCEPT !.at = "clean", !.run = r, !.target = temp[r]]
          IN  sweep' = [sweep EXCEPT ![w] = read] \/ sweep' = [sweep EXCEPT ![w] = skip]
    BY <1>2 DEF SweepNext
  <2>2. r \in Runs /\ sweep[w].todo \ {r} \in SUBSET Runs
    BY <1>0 DEF SweepTypes
  <2> DEFINE skip == [IdleSweep EXCEPT !.at = "loop", !.todo = sweep[w].todo \ {r}]
             read == [skip EXCEPT !.at = "clean", !.run = r, !.target = temp[r]]
  <2>3. skip \in SweepTypes /\ skip.at = "loop"
    BY <2>2, IdleSweepType DEF IdleSweep
  <2>4. read \in SweepTypes /\ read.at = "clean" /\ read.run \in Runs
    BY <2>2, <2>3 DEF SweepTypes, TypeOK
  <2>5. sweep' = [sweep EXCEPT ![w] = read] \/ sweep' = [sweep EXCEPT ![w] = skip]
    BY <2>1
  <2> HIDE DEF skip, read
  <2> QED BY <1>2, <2>3, <2>4, <2>5 DEF SweepNext, TypeOK, row, proc, exec
<1>3. CASE SweepDone(w)
  <2>1. IdleSweep \in SweepTypes /\ IdleSweep.at = "idle"
    BY IdleSweepType DEF IdleSweep
  <2> QED BY <1>3, <2>1 DEF SweepDone, TypeOK, row, proc, exec
<1>4. CASE SweepClean(w)
  <2>1. PICK v \in {"FAILED", "CLEANUP_FAILED"}, n \in {"interrupted", "unreached", "orphaned"} :
          sweep' = [sweep EXCEPT ![w].at = "settle", ![w].verdict = v, ![w].note = n]
    BY <1>4 DEF SweepClean
  <2>2. vm' \in [VMIDs -> Runs \cup {None}]
    BY <1>4, DeleteType, <1>0 DEF SweepClean, SweepTypes, TypeOK
  <2>3. v # None
    BY DEF Terminal
  <2>4. sweep' \in [Workers -> SweepTypes]
    BY <2>1, <1>0 DEF SweepTypes, TypeOK
  <2>5. sweep'[w].verdict = v /\ sweep'[w].run = sweep[w].run /\ sweep[w].run \in Runs
    BY <2>1, <1>4, <1>0 DEF SweepClean, SweepTypes, TypeOK
  <2>6. \A x \in Workers \ {w} : sweep'[x] = sweep[x]
    BY <2>1 DEF TypeOK
  <2> QED BY <1>4, <2>2, <2>3, <2>4, <2>5, <2>6 DEF SweepClean, TypeOK, row, proc, exec
<1>5. CASE SweepSettle(w)
  <2>1. sweep[w].run \in Runs /\ sweep[w].verdict \in States
    BY <1>5, <1>0 DEF SweepSettle, SweepTypes, States, Terminal
  <2>2. state' \in [Runs -> States]
    BY <1>5, <2>1, SetStateType DEF SweepSettle, SweptWrite, TypeOK
  <2>3. sweep' \in [Workers -> SweepTypes] /\ sweep'[w].at = "note" /\ sweep'[w].run \in Runs
    BY <1>5, <2>1, <1>0 DEF SweepSettle, SweepTypes, TypeOK
  <2>4. \A x \in Workers \ {w} : sweep'[x] = sweep[x]
    BY <1>5 DEF SweepSettle, TypeOK
  <2> QED BY <1>5, <2>2, <2>3, <2>4 DEF SweepSettle, TypeOK, proc, exec
<1>6. CASE SweepNote(w)
  <2>1. sweep[w].run \in Runs
    BY <1>6 DEF SweepNote
  <2>2. err' \in [Runs -> Messages \cup {None}]
    BY <1>6, <2>1, <1>0 DEF SweepNote, SweptWrite, Written, SweepTypes, TypeOK, Messages
  <2>3. sweep' \in [Workers -> SweepTypes] /\ sweep'[w].at = "release" /\ sweep'[w].run \in Runs
    BY <1>6, <2>1, <1>0 DEF SweepNote, SweepTypes, TypeOK
  <2>4. \A x \in Workers \ {w} : sweep'[x] = sweep[x]
    BY <1>6 DEF SweepNote, TypeOK
  <2> QED BY <1>6, <2>2, <2>3, <2>4 DEF SweepNote, TypeOK, proc, exec
<1>7. CASE SweepRelease(w)
  <2>1. lease' \in [Runs -> {"null", "valid", "expired"}]
    BY <1>7, FinishLeaseType DEF SweepRelease, SweptWrite, TypeOK
  <2> DEFINE s == [IdleSweep EXCEPT !.at = "loop", !.todo = sweep[w].todo]
  <2>2. s \in SweepTypes /\ s.at = "loop"
    BY <1>0, IdleSweepType DEF IdleSweep, SweepTypes
  <2> HIDE DEF s
  <2>3. sweep' = [sweep EXCEPT ![w] = s]
    BY <1>7 DEF SweepRelease, s
  <2> QED BY <1>7, <2>1, <2>2, <2>3 DEF SweepRelease, TypeOK, proc, exec
<1> QED
  BY <1>1, <1>2, <1>3, <1>4, <1>5, <1>6, <1>7 DEF Reconcile

LEMMA ProcessType ==
  ASSUME TypeInv, NEW w \in Workers, Shutdown(w) \/ Exit(w) \/ Crash(w) \/ Start(w)
  PROVE  TypeInv'
<1> USE DEF TypeInv, VerdictsKnown
<1>1. CASE Shutdown(w)
  BY <1>1, OutagesAssumption DEF Shutdown, TypeOK, row
<1>2. CASE Exit(w)
  BY <1>2 DEF Exit, TypeOK, row, exec
<1>3. CASE Crash(w)
  <2>1. IdleSweep \in SweepTypes /\ IdleSweep.at = "idle"
    BY IdleSweepType DEF IdleSweep
  <2>2. sweep' \in [Workers -> SweepTypes] /\ outages' \in 0 .. MaxOutages
    BY <1>3, <2>1, OutagesAssumption DEF Crash, TypeOK
  <2> QED BY <1>3, <2>1, <2>2 DEF Crash, TypeOK, row
<1>4. CASE Start(w)
  BY <1>4 DEF Start, TypeOK, row, exec
<1> QED BY <1>1, <1>2, <1>3, <1>4

LEMMA TypeStep == TypeInv /\ [Next]_vars => TypeInv'
<1> SUFFICES ASSUME TypeInv, [Next]_vars PROVE TypeInv'
  OBVIOUS
<1>1. ASSUME NEW r \in Runs, Enqueue(r) PROVE TypeInv'
  BY <1>1 DEF Enqueue, TypeInv, VerdictsKnown, TypeOK, States, proc, exec
<1>2. ASSUME NEW r \in Runs, RequestCancel(r) PROVE TypeInv'
  BY <1>2 DEF RequestCancel, TypeInv, VerdictsKnown, TypeOK, States, Terminal, proc, exec
<1>3. ASSUME NEW r \in Runs, Tick(r) PROVE TypeInv'
  <2>1. lease' \in [Runs -> {"null", "valid", "expired"}]
    BY <1>3 DEF Tick, TypeInv, TypeOK
  <2>2. halted' \in [Runs -> BOOLEAN]
    <3>1. asked[r] \in BOOLEAN /\ halted \in [Runs -> BOOLEAN]
      BY DEF TypeInv, TypeOK
    <3>2. \/ halted' = [halted EXCEPT ![r] = asked[r]]
          \/ halted' = [halted EXCEPT ![r] = TRUE]
          \/ halted' = halted
      BY <1>3, Zenon DEF Tick
    <3> QED BY <3>1, <3>2
  <2> QED BY <1>3, <2>1, <2>2 DEF Tick, TypeInv, VerdictsKnown, TypeOK, proc
<1>4. ASSUME NEW r \in Runs, LeaseExpires(r) PROVE TypeInv'
  BY <1>4 DEF LeaseExpires, TypeInv, VerdictsKnown, TypeOK, proc, exec
<1>5. ASSUME NEW w \in Workers, NEW r \in Runs, ClaimRun(w, r) PROVE TypeInv'
  BY <1>5 DEF ClaimRun, TypeInv, VerdictsKnown, TypeOK, Executing, proc
<1>6. ASSUME NEW id \in VMIDs, OperatorCleanup(id) PROVE TypeInv'
  BY <1>6 DEF OperatorCleanup, TypeInv, VerdictsKnown, TypeOK, row, proc, exec
<1>7. CASE UNCHANGED vars
  BY <1>7 DEF vars, TypeInv, VerdictsKnown, TypeOK, row, proc, exec
<1> QED
  BY <1>1, <1>2, <1>3, <1>4, <1>5, <1>6, <1>7, ExecuteType, ReconcileType, ProcessType DEF Next

LEMMA InitType == Init => TypeInv
<1> SUFFICES ASSUME Init PROVE TypeInv
  OBVIOUS
<1>1. IdleSweep \in SweepTypes /\ IdleSweep.at = "idle"
  BY IdleSweepType DEF IdleSweep
<1>2. TypeOK
  BY <1>1, OutagesAssumption DEF Init, TypeOK, States
<1>3. VerdictsKnown
  BY <1>1 DEF Init, VerdictsKnown
<1> QED BY <1>2, <1>3 DEF TypeInv

\* Type correctness of the rows, the processes and the sweeps, for every
\* instance and every mix of faults.
THEOREM TypeCorrect == Spec => []TypeOK
<1>1. Init => TypeInv
  BY InitType
<1> QED BY <1>1, TypeStep, PTL DEF Spec, TypeInv

-----------------------------------------------------------------------------
(* A claim is for ever.                                                    *)

\* The only step that gives a run an owner, or starts its execution, is a
\* claim, and a claim wants a run without an owner.
LEMMA ClaimIsForEver ==
  ASSUME TypeInv, [Next]_vars, NEW r \in Runs, owner[r] # None
  PROVE  owner'[r] = owner[r] /\ (pc[r] = "off" => pc'[r] = "off")
<1> USE DEF TypeInv, TypeOK
<1>1. ASSUME NEW q \in Runs, Execute(q) PROVE owner' = owner /\ (pc[r] = "off" => pc'[r] = "off")
  BY <1>1 DEF Execute, MarkInFlight, Fail, FailRelease, EngineBegin, Reserve, Restore,
     AbortEarly, GradeDrill, CleanupDrill, Finish, Release, row
<1>2. ASSUME NEW w \in Workers, Reconcile(w) PROVE owner' = owner /\ pc' = pc
  BY <1>2 DEF Reconcile, SweepScan, SweepNext, SweepDone, SweepClean, SweepSettle,
     SweepNote, SweepRelease, row, exec
<1>3. ASSUME NEW w \in Workers, Shutdown(w) \/ Exit(w) \/ Crash(w) \/ Start(w)
      PROVE  owner' = owner /\ (pc[r] = "off" => pc'[r] = "off")
  BY <1>3 DEF Shutdown, Exit, Crash, Start, row, exec
<1>4. ASSUME NEW q \in Runs, Enqueue(q) \/ RequestCancel(q) \/ Tick(q) \/ LeaseExpires(q)
      PROVE  owner' = owner /\ pc' = pc
  BY <1>4 DEF Enqueue, RequestCancel, Tick, LeaseExpires, exec
<1>5. ASSUME NEW w \in Workers, NEW q \in Runs, ClaimRun(w, q)
      PROVE  owner'[r] = owner[r] /\ pc'[r] = pc[r]
  BY <1>5 DEF ClaimRun
<1>6. ASSUME NEW id \in VMIDs, OperatorCleanup(id) PROVE owner' = owner /\ pc' = pc
  BY <1>6 DEF OperatorCleanup, row, exec
<1>7. CASE UNCHANGED vars
  BY <1>7 DEF vars, row, exec
<1> QED BY <1>1, <1>2, <1>3, <1>4, <1>5, <1>6, <1>7 DEF Next

\* A run is executed at most once, under every mix of faults: no crash, sweep,
\* lost answer or failed statement makes a claimed run claimable again.
THEOREM ReplayNever == Spec => NeverReplayed
<1>1. TypeInv /\ [Next]_vars =>
        [\A r \in Runs : owner[r] # None =>
           owner'[r] = owner[r] /\ (pc[r] = "off" => pc'[r] = "off")]_vars
  BY ClaimIsForEver
<1>2. Init => TypeInv
  BY InitType
<1> QED BY <1>1, <1>2, TypeStep, PTL DEF Spec, NeverReplayed

-----------------------------------------------------------------------------
(* Settled means over.                                                     *)

ClaimedIsKnown ==
  \A r \in Runs : pc[r] # "off" \/ lease[r] # "null" => owner[r] # None

\* As long as live drills keep their leases, an expired lease is a dead drill.
ExpiredIsOver == \A r \in Runs : lease[r] = "expired" => pc[r] = "off"

\* Everything a sweep has in hand was abandoned before the sweep saw it, and
\* nobody picks it up while the sweep works on what it read.
SweepsAreOver ==
  \A w \in Workers : \A r \in Runs :
    r \in sweep[w].todo \/ sweep[w].run = r => owner[r] # None /\ pc[r] = "off"

SettledInv == SettledMeansOver /\ ClaimedIsKnown /\ ExpiredIsOver /\ SweepsAreOver

LEMMA ClaimedIsKnownStep ==
  ASSUME TypeInv, ClaimedIsKnown, [Next]_vars
  PROVE  ClaimedIsKnown'
<1> USE DEF TypeInv, TypeOK, ClaimedIsKnown
<1>1. ASSUME NEW q \in Runs, Execute(q) PROVE ClaimedIsKnown'
  <2>1. owner' = owner /\ owner[q] # None
    BY <1>1 DEF Execute, MarkInFlight, Fail, FailRelease, EngineBegin, Reserve, Restore,
       AbortEarly, GradeDrill, CleanupDrill, Finish, Release, row
  <2>2. \A r \in Runs \ {q} : pc'[r] = pc[r] /\ lease'[r] = lease[r]
    BY <1>1 DEF Execute, MarkInFlight, Fail, FailRelease, EngineBegin, Reserve, Restore,
       AbortEarly, GradeDrill, CleanupDrill, Finish, Release, FinishLease, Written, row
  <2> QED BY <2>1, <2>2
<1>2. ASSUME NEW w \in Workers, Reconcile(w) PROVE ClaimedIsKnown'
  <2>1. owner' = owner /\ pc' = pc
    BY <1>2 DEF Reconcile, SweepScan, SweepNext, SweepDone, SweepClean, SweepSettle,
       SweepNote, SweepRelease, row, exec
  <2>2. \A r \in Runs : lease'[r] = lease[r] \/ lease'[r] = "null"
    BY <1>2 DEF Reconcile, SweepScan, SweepNext, SweepDone, SweepClean, SweepSettle,
       SweepNote, SweepRelease, SweptWrite, FinishLease, Written, row
  <2> QED BY <2>1, <2>2
<1>3. ASSUME NEW w \in Workers, Shutdown(w) \/ Exit(w) \/ Crash(w) \/ Start(w)
      PROVE  ClaimedIsKnown'
  BY <1>3 DEF Shutdown, Exit, Crash, Start, row, exec
<1>4. ASSUME NEW q \in Runs, Enqueue(q) \/ RequestCancel(q) PROVE ClaimedIsKnown'
  BY <1>4 DEF Enqueue, RequestCancel, exec
<1>5. ASSUME NEW q \in Runs, Tick(q) PROVE ClaimedIsKnown'
  BY <1>5 DEF Tick, Holding
<1>6. ASSUME NEW q \in Runs, LeaseExpires(q) PROVE ClaimedIsKnown'
  BY <1>6 DEF LeaseExpires, exec
<1>7. ASSUME NEW w \in Workers, NEW q \in Runs, ClaimRun(w, q) PROVE ClaimedIsKnown'
  BY <1>7 DEF ClaimRun
<1>8. ASSUME NEW id \in VMIDs, OperatorCleanup(id) PROVE ClaimedIsKnown'
  BY <1>8 DEF OperatorCleanup, row, exec
<1>9. CASE UNCHANGED vars
  BY <1>9 DEF vars, row, exec
<1> QED BY <1>1, <1>2, <1>3, <1>4, <1>5, <1>6, <1>7, <1>8, <1>9 DEF Next

LEMMA ExpiredIsOverStep ==
  ASSUME "freeze" \notin Faults, "slowcleanup" \notin Faults,
         TypeInv, ClaimedIsKnown, ExpiredIsOver, [Next]_vars
  PROVE  ExpiredIsOver'
<1>0. SUFFICES ASSUME NEW r \in Runs, lease'[r] = "expired" PROVE pc'[r] = "off"
  BY DEF ExpiredIsOver
<1> USE DEF TypeInv, TypeOK
<1>1. lease[r] # "expired" => pc[r] = "off" /\ pc' = pc
  <2>1. ASSUME NEW q \in Runs, Execute(q) PROVE lease'[r] \in {lease[r], "null"}
    BY <2>1 DEF Execute, MarkInFlight, Fail, FailRelease, EngineBegin, Reserve, Restore,
       AbortEarly, GradeDrill, CleanupDrill, Finish, Release, FinishLease, Written, row
  <2>2. ASSUME NEW w \in Workers, Reconcile(w) PROVE lease'[r] \in {lease[r], "null"}
    BY <2>2 DEF Reconcile, SweepScan, SweepNext, SweepDone, SweepClean, SweepSettle,
       SweepNote, SweepRelease, SweptWrite, FinishLease, Written, row
  <2>3. ASSUME NEW w \in Workers, Shutdown(w) \/ Exit(w) \/ Crash(w) \/ Start(w)
        PROVE  lease' = lease
    BY <2>3 DEF Shutdown, Exit, Crash, Start, row
  <2>4. ASSUME NEW q \in Runs, Enqueue(q) \/ RequestCancel(q) \/ Tick(q)
        PROVE  lease'[r] \in {lease[r], "valid"}
    BY <2>4 DEF Enqueue, RequestCancel, Tick
  <2>5. ASSUME NEW q \in Runs, LeaseExpires(q)
        PROVE  pc' = pc /\ (lease'[r] = lease[r] \/ pc[r] = "off")
    BY <2>5 DEF LeaseExpires, RenewalsEnded, exec
  <2>6. ASSUME NEW w \in Workers, NEW q \in Runs, ClaimRun(w, q)
        PROVE  lease'[r] \in {lease[r], "valid"}
    BY <2>6 DEF ClaimRun
  <2>7. ASSUME NEW id \in VMIDs, OperatorCleanup(id) PROVE lease' = lease
    BY <2>7 DEF OperatorCleanup, row
  <2>8. CASE UNCHANGED vars
    BY <2>8, <1>0 DEF vars, row
  <2> QED BY <1>0, <2>1, <2>2, <2>3, <2>4, <2>5, <2>6, <2>7, <2>8 DEF Next
<1>2. CASE lease[r] = "expired"
  <2>1. pc[r] = "off" /\ owner[r] # None
    BY <1>2 DEF ExpiredIsOver, ClaimedIsKnown
  <2> QED BY <2>1, ClaimIsForEver
<1> QED BY <1>1, <1>2

\* What a sweep has in hand it had before, or has just found stale.
LEMMA InHandStep ==
  ASSUME TypeInv, [Next]_vars, NEW x \in Workers, NEW r \in Runs,
         r \in sweep'[x].todo \/ sweep'[x].run = r
  PROVE  r \in sweep[x].todo \/ sweep[x].run = r \/ r \in StaleRuns
<1> USE DEF TypeInv, TypeOK
<1> DEFINE InHand == r \in sweep[x].todo \/ sweep[x].run = r
<1>0. ASSUME sweep'[x] = IdleSweep PROVE FALSE
  BY <1>0 DEF IdleSweep
<1>1. ASSUME NEW w \in Workers, Reconcile(w) PROVE InHand \/ r \in StaleRuns
  <2>1. CASE SweepScan(w)
    BY <2>1 DEF SweepScan, IdleSweep
  <2>2. CASE SweepNext(w)
    <3>1. PICK q \in sweep[w].todo :
            LET skip == [IdleSweep EXCEPT !.at = "loop", !.todo = sweep[w].todo \ {q}]
                read == [skip EXCEPT !.at = "clean", !.run = q, !.target = temp[q]]
            IN  sweep' = [sweep EXCEPT ![w] = read] \/ sweep' = [sweep EXCEPT ![w] = skip]
      BY <2>2 DEF SweepNext
    <3> DEFINE skip == [IdleSweep EXCEPT !.at = "loop", !.todo = sweep[w].todo \ {q}]
               read == [skip EXCEPT !.at = "clean", !.run = q, !.target = temp[q]]
    <3>2. /\ skip.todo \subseteq sweep[w].todo /\ skip.run = None
          /\ read.todo \subseteq sweep[w].todo /\ read.run = q
      BY DEF IdleSweep
    <3>3. sweep' = [sweep EXCEPT ![w] = read] \/ sweep' = [sweep EXCEPT ![w] = skip]
      BY <3>1
    <3> HIDE DEF skip, read
    <3> QED BY <3>1, <3>2, <3>3
  <2>3. CASE SweepDone(w)
    BY <2>3, <1>0 DEF SweepDone
  <2>4. CASE SweepClean(w)
    <3>1. PICK v, n : sweep' = [sweep EXCEPT ![w].at = "settle", ![w].verdict = v, ![w].note = n]
      BY <2>4 DEF SweepClean
    <3>2. sweep[w] \in SweepTypes
      OBVIOUS
    <3>3. sweep'[w].todo = sweep[w].todo /\ sweep'[w].run = sweep[w].run
      BY <3>1, <3>2 DEF SweepTypes
    <3> QED BY <3>1, <3>3
  <2>5. CASE SweepSettle(w) \/ SweepNote(w)
    <3>1. PICK a : sweep' = [sweep EXCEPT ![w].at = a]
      BY <2>5 DEF SweepSettle, SweepNote
    <3>2. sweep[w] \in SweepTypes
      OBVIOUS
    <3>3. sweep'[w].todo = sweep[w].todo /\ sweep'[w].run = sweep[w].run
      BY <3>1, <3>2 DEF SweepTypes
    <3> QED BY <3>1, <3>3
  <2>6. CASE SweepRelease(w)
    BY <2>6 DEF SweepRelease, IdleSweep
  <2> QED BY <1>1, <2>1, <2>2, <2>3, <2>4, <2>5, <2>6 DEF Reconcile
<1>2. ASSUME NEW w \in Workers, Crash(w) PROVE InHand
  BY <1>2, <1>0 DEF Crash
<1>3. ASSUME NEW w \in Workers, Shutdown(w) \/ Exit(w) \/ Start(w) PROVE sweep' = sweep
  BY <1>3 DEF Shutdown, Exit, Start
<1>4. ASSUME NEW q \in Runs, Execute(q) PROVE sweep' = sweep
  BY <1>4 DEF Execute, MarkInFlight, Fail, FailRelease, EngineBegin, Reserve, Restore,
     AbortEarly, GradeDrill, CleanupDrill, Finish, Release
<1>5. ASSUME NEW q \in Runs, Enqueue(q) \/ RequestCancel(q) \/ Tick(q) \/ LeaseExpires(q)
      PROVE  sweep' = sweep
  BY <1>5 DEF Enqueue, RequestCancel, Tick, LeaseExpires
<1>6. ASSUME NEW w \in Workers, NEW q \in Runs, ClaimRun(w, q) PROVE sweep' = sweep
  BY <1>6 DEF ClaimRun
<1>7. ASSUME NEW id \in VMIDs, OperatorCleanup(id) PROVE sweep' = sweep
  BY <1>7 DEF OperatorCleanup
<1>8. CASE UNCHANGED vars
  BY <1>8 DEF vars
<1> QED BY <1>1, <1>2, <1>3, <1>4, <1>5, <1>6, <1>7, <1>8 DEF Next

LEMMA SweepsAreOverStep ==
  ASSUME TypeInv, ExpiredIsOver, SweepsAreOver, [Next]_vars
  PROVE  SweepsAreOver'
<1>0. SUFFICES ASSUME NEW x \in Workers, NEW r \in Runs,
                      r \in sweep'[x].todo \/ sweep'[x].run = r
               PROVE  owner'[r] # None /\ pc'[r] = "off"
  BY DEF SweepsAreOver
<1>1. owner[r] # None /\ pc[r] = "off"
  BY <1>0, InHandStep DEF StaleRuns, ExpiredIsOver, SweepsAreOver
<1> QED BY <1>1, ClaimIsForEver

\* What a step may do to the state of one run, while settled runs are over.
LEMMA StateStep ==
  ASSUME TypeInv, SettledInv, [Next]_vars, NEW r \in Runs
  PROVE  /\ state[r] \in Terminal => state'[r] = state[r]
         /\ state'[r] \in Terminal => state[r] \in Terminal \/ pc'[r] \in {"off", "failing", "release"}
<1> USE DEF TypeInv, TypeOK
<1> DEFINE Goal == /\ state[r] \in Terminal => state'[r] = state[r]
                   /\ state'[r] \in Terminal =>
                        state[r] \in Terminal \/ pc'[r] \in {"off", "failing", "release"}
<1>1. ASSUME NEW q \in Runs, Execute(q) PROVE Goal
  <2>1. CASE MarkInFlight(q) \/ FailRelease(q) \/ (\E id \in VMIDs : Reserve(q, id))
             \/ Restore(q) \/ AbortEarly(q) \/ CleanupDrill(q) \/ Release(q)
    <3>1. state' = state
      BY <2>1 DEF MarkInFlight, FailRelease, Reserve, Restore, AbortEarly, CleanupDrill,
         Release, row
    <3> QED BY <3>1
  <2>2. CASE Fail(q)
    BY <2>2 DEF Fail, SetState, Written
  <2>3. CASE EngineBegin(q)
    BY <2>3 DEF EngineBegin, SetState, Written, Terminal
  <2>4. CASE GradeDrill(q)
    BY <2>4 DEF GradeDrill, SetState, Written, Terminal
  <2>5. CASE Finish(q)
    <3>1. state[q] \notin Terminal
      BY <2>5 DEF Finish, UpdateRun, SettledInv, SettledMeansOver
    <3>2. pc'[q] = "release" /\ (q # r => state'[r] = state[r])
      BY <2>5 DEF Finish, UpdateRun
    <3> QED BY <3>1, <3>2
  <2> QED BY <1>1, <2>1, <2>2, <2>3, <2>4, <2>5 DEF Execute
<1>2. ASSUME NEW w \in Workers, Reconcile(w) PROVE Goal
  <2>1. CASE SweepSettle(w)
    <3>1. sweep[w].run \in Runs /\ pc[sweep[w].run] = "off"
      BY <2>1 DEF SweepSettle, VerdictsKnown, SettledInv, SweepsAreOver
    <3>2. pc' = pc
      BY <2>1 DEF SweepSettle, exec
    <3>3. state' = SetState(sweep[w].run, sweep[w].verdict) \/ state' = state
      BY <2>1 DEF SweepSettle, SweptWrite, Written
    <3> QED BY <3>1, <3>2, <3>3 DEF SetState
  <2>2. CASE SweepScan(w) \/ SweepNext(w) \/ SweepDone(w) \/ SweepClean(w) \/ SweepNote(w)
             \/ SweepRelease(w)
    <3>1. state' = state
      BY <2>2 DEF SweepScan, SweepNext, SweepDone, SweepClean, SweepNote, SweepRelease, row
    <3> QED BY <3>1
  <2> QED BY <1>2, <2>1, <2>2 DEF Reconcile
<1>3. ASSUME NEW w \in Workers, Shutdown(w) \/ Exit(w) \/ Crash(w) \/ Start(w) PROVE Goal
  BY <1>3 DEF Shutdown, Exit, Crash, Start, row
<1>4. ASSUME NEW q \in Runs, Enqueue(q) PROVE Goal
  BY <1>4 DEF Enqueue, Terminal
<1>5. ASSUME NEW q \in Runs, RequestCancel(q) PROVE Goal
  BY <1>5 DEF RequestCancel, Terminal, exec, SettledInv, ClaimedIsKnown
<1>6. ASSUME NEW q \in Runs, Tick(q) \/ LeaseExpires(q) PROVE Goal
  BY <1>6 DEF Tick, LeaseExpires
<1>7. ASSUME NEW w \in Workers, NEW q \in Runs, ClaimRun(w, q) PROVE Goal
  BY <1>7 DEF ClaimRun
<1>8. ASSUME NEW id \in VMIDs, OperatorCleanup(id) PROVE Goal
  BY <1>8 DEF OperatorCleanup, row
<1>9. CASE UNCHANGED vars
  BY <1>9 DEF vars, row
<1> QED BY <1>1, <1>2, <1>3, <1>4, <1>5, <1>6, <1>7, <1>8, <1>9 DEF Next

\* A goroutine past its last write only ends.
LEMMA PastLastWrite ==
  ASSUME TypeInv, [Next]_vars, NEW r \in Runs, owner[r] # None \/ state[r] \in Terminal,
         pc[r] \in {"off", "failing", "release"}
  PROVE  pc'[r] \in {"off", "failing", "release"}
<1> USE DEF TypeInv, TypeOK
<1>1. ASSUME NEW q \in Runs, Execute(q) PROVE pc'[r] \in {pc[r], "off"}
  BY <1>1 DEF Execute, MarkInFlight, Fail, FailRelease, EngineBegin, Reserve, Restore,
     AbortEarly, GradeDrill, CleanupDrill, Finish, Release
<1>2. ASSUME NEW w \in Workers, Reconcile(w) PROVE pc' = pc
  BY <1>2 DEF Reconcile, SweepScan, SweepNext, SweepDone, SweepClean, SweepSettle,
     SweepNote, SweepRelease, exec
<1>3. ASSUME NEW w \in Workers, Shutdown(w) \/ Exit(w) \/ Crash(w) \/ Start(w)
      PROVE  pc'[r] \in {pc[r], "off"}
  BY <1>3 DEF Shutdown, Exit, Crash, Start, exec
<1>4. ASSUME NEW q \in Runs, Enqueue(q) \/ RequestCancel(q) \/ Tick(q) \/ LeaseExpires(q)
      PROVE  pc' = pc
  BY <1>4 DEF Enqueue, RequestCancel, Tick, LeaseExpires, exec
<1>5. ASSUME NEW w \in Workers, NEW q \in Runs, ClaimRun(w, q) PROVE pc'[r] = pc[r]
  BY <1>5 DEF ClaimRun, Terminal
<1>6. ASSUME NEW id \in VMIDs, OperatorCleanup(id) PROVE pc' = pc
  BY <1>6 DEF OperatorCleanup, exec
<1>7. CASE UNCHANGED vars
  BY <1>7 DEF vars, exec
<1> QED BY <1>1, <1>2, <1>3, <1>4, <1>5, <1>6, <1>7 DEF Next

LEMMA SettledStep ==
  ASSUME "freeze" \notin Faults, "slowcleanup" \notin Faults,
         TypeInv, SettledInv, [Next]_vars
  PROVE  SettledInv'
<1>1. SettledMeansOver'
  BY StateStep, PastLastWrite DEF SettledInv, SettledMeansOver
<1>2. ClaimedIsKnown' /\ ExpiredIsOver' /\ SweepsAreOver'
  BY ClaimedIsKnownStep, ExpiredIsOverStep, SweepsAreOverStep DEF SettledInv
<1> QED BY <1>1, <1>2 DEF SettledInv

LEMMA InitSettled == Init => SettledInv
<1> SUFFICES ASSUME Init PROVE SettledInv
  OBVIOUS
<1>1. IdleSweep.todo = {} /\ IdleSweep.run = None
  BY DEF IdleSweep
<1> QED
  BY <1>1 DEF Init, SettledInv, SettledMeansOver, ClaimedIsKnown, ExpiredIsOver, SweepsAreOver

\* Where live drills keep their leases, a run whose row is settled is not being
\* executed any more - whatever crashes, fails or is lost.
THEOREM SettledIsOver ==
  ASSUME "freeze" \notin Faults, "slowcleanup" \notin Faults
  PROVE  Spec => []SettledMeansOver
<1>1. TypeInv /\ SettledInv /\ [Next]_vars => SettledInv'
  BY SettledStep
<1> QED BY <1>1, InitType, InitSettled, TypeStep, PTL DEF Spec, SettledInv

\* Under the same assumption a final state is final: the unguarded UpdateRun
\* of Finish never meets a run somebody else has settled.
THEOREM FirstWriter ==
  ASSUME "freeze" \notin Faults, "slowcleanup" \notin Faults
  PROVE  Spec => FirstWriterDecides
<1>1. TypeInv /\ SettledInv /\ [Next]_vars => SettledInv'
  BY SettledStep
<1>2. TypeInv /\ SettledInv /\ [Next]_vars =>
        [\A r \in Runs : state[r] \in Terminal => state'[r] = state[r]]_vars
  BY StateStep
<1> QED BY <1>1, <1>2, InitType, InitSettled, TypeStep, PTL DEF Spec, FirstWriterDecides

-----------------------------------------------------------------------------
(* The lifecycle.                                                          *)

\* Two more facts the refinement needs: a row that does not exist yet has no
\* owner, and what the phase of a run is made of.
AbsentIsUnowned == \A r \in Runs : state[r] = "ABSENT" => owner[r] = None

SamePhase(r) ==
  /\ state'[r] \in Terminal <=> state[r] \in Terminal
  /\ owner'[r] = None <=> owner[r] = None
  /\ state'[r] = "ABSENT" <=> state[r] = "ABSENT"

LEMMA PhaseKept ==
  ASSUME \A r \in Runs : SamePhase(r)
  PROVE  LifecyclePhase' = LifecyclePhase
BY DEF SamePhase, LifecyclePhase

LEMMA PhaseMoves ==
  ASSUME NEW q \in Runs, \A r \in Runs \ {q} : SamePhase(r),
         NEW p, LifecyclePhase'[q] = p
  PROVE  LifecyclePhase' = [LifecyclePhase EXCEPT ![q] = p]
BY DEF SamePhase, LifecyclePhase

LEMMA AbsentStep ==
  ASSUME TypeInv, ClaimedIsKnown, AbsentIsUnowned, [Next]_vars
  PROVE  AbsentIsUnowned'
<1> USE DEF TypeInv, TypeOK, AbsentIsUnowned
<1>1. ASSUME NEW q \in Runs, Execute(q) PROVE AbsentIsUnowned'
  <2>1. owner' = owner
    BY <1>1 DEF Execute, MarkInFlight, Fail, FailRelease, EngineBegin, Reserve, Restore,
       AbortEarly, GradeDrill, CleanupDrill, Finish, Release, row
  <2>2. \A r \in Runs : state'[r] = "ABSENT" => state[r] = "ABSENT"
    <3>1. CASE Finish(q)
      BY <3>1 DEF Finish, UpdateRun, VerdictsKnown, Terminal
    <3> QED
      BY <1>1, <3>1 DEF Execute, MarkInFlight, Fail, FailRelease, EngineBegin, Reserve, Restore,
         AbortEarly, GradeDrill, CleanupDrill, Release, SetState, Written, row
  <2> QED BY <2>1, <2>2
<1>2. ASSUME NEW w \in Workers, Reconcile(w) PROVE AbsentIsUnowned'
  <2>1. owner' = owner
    BY <1>2 DEF Reconcile, SweepScan, SweepNext, SweepDone, SweepClean, SweepSettle,
       SweepNote, SweepRelease, row
  <2>2. \A r \in Runs : state'[r] = "ABSENT" => state[r] = "ABSENT"
    <3>1. CASE SweepSettle(w)
      <4>1. sweep[w].verdict # "ABSENT"
        BY <3>1 DEF SweepSettle, VerdictsKnown, SweepTypes
      <4> QED BY <3>1, <4>1 DEF SweepSettle, SweptWrite, SetState, Written
    <3> QED
      BY <1>2, <3>1 DEF Reconcile, SweepScan, SweepNext, SweepDone, SweepClean,
         SweepNote, SweepRelease, row
  <2> QED BY <2>1, <2>2
<1>3. ASSUME NEW w \in Workers, Shutdown(w) \/ Exit(w) \/ Crash(w) \/ Start(w)
      PROVE  AbsentIsUnowned'
  BY <1>3 DEF Shutdown, Exit, Crash, Start, row
<1>4. ASSUME NEW q \in Runs, Enqueue(q) \/ RequestCancel(q) \/ Tick(q) \/ LeaseExpires(q)
      PROVE  AbsentIsUnowned'
  BY <1>4 DEF Enqueue, RequestCancel, Tick, LeaseExpires
<1>5. ASSUME NEW w \in Workers, NEW q \in Runs, ClaimRun(w, q) PROVE AbsentIsUnowned'
  BY <1>5 DEF ClaimRun
<1>6. ASSUME NEW id \in VMIDs, OperatorCleanup(id) PROVE AbsentIsUnowned'
  BY <1>6 DEF OperatorCleanup, row
<1>7. CASE UNCHANGED vars
  BY <1>7 DEF vars, row
<1> QED BY <1>1, <1>2, <1>3, <1>4, <1>5, <1>6, <1>7 DEF Next

LEMMA ExecuteRefines ==
  ASSUME TypeInv, SettledInv, AbsentIsUnowned, NEW q \in Runs, Execute(q)
  PROVE  Lifecycle!Next \/ UNCHANGED <<LifecyclePhase, Driven>>
<1> USE DEF TypeInv, TypeOK
<1>0. owner[q] # None /\ (q \in Driven => state[q] \notin Terminal) /\ state[q] # "ABSENT"
  <2>1. pc[q] # "off"
    BY DEF Execute, MarkInFlight, Fail, FailRelease, EngineBegin, Reserve, Restore,
       AbortEarly, GradeDrill, CleanupDrill, Finish, Release, Executing, InFlightPoints
  <2> QED
    BY <2>1 DEF SettledInv, ClaimedIsKnown, SettledMeansOver, AbsentIsUnowned, Driven,
       Executing, InFlightPoints
<1>1. CASE MarkInFlight(q) \/ FailRelease(q) \/ (\E id \in VMIDs : Reserve(q, id))
           \/ Restore(q) \/ AbortEarly(q) \/ CleanupDrill(q) \/ Release(q)
  <2>1. state' = state /\ owner' = owner
    BY <1>1 DEF MarkInFlight, FailRelease, Reserve, Restore, AbortEarly, CleanupDrill,
       Release, row
  <2>2. LifecyclePhase' = LifecyclePhase
    BY <2>1, PhaseKept DEF SamePhase
  <2>3. \A r \in Runs : pc'[r] = pc[r] \/ (pc[r] \in Executing \ {"failing", "release"}
                                             /\ pc'[r] \in Executing \ {"failing", "release"})
                          \/ (pc[r] \in {"failing", "release"} /\ pc'[r] = "off")
    BY <1>1 DEF MarkInFlight, FailRelease, Reserve, Restore, AbortEarly, CleanupDrill,
       Release, Executing, InFlightPoints
  <2>4. Driven' = Driven
    BY <2>3 DEF Driven, Executing, InFlightPoints
  <2> QED BY <2>2, <2>4
<1>2. CASE EngineBegin(q) \/ GradeDrill(q)
  <2>1. q \in Driven
    BY <1>2 DEF EngineBegin, GradeDrill, Driven, Executing, InFlightPoints
  <2>2. \A r \in Runs : SamePhase(r)
    BY <1>2, <1>0, <2>1 DEF EngineBegin, GradeDrill, SamePhase, SetState, Written, Terminal
  <2>3. \A r \in Runs : pc'[r] = pc[r] \/ (pc[r] \in Executing \ {"failing", "release"}
                                             /\ pc'[r] \in Executing \ {"failing", "release"})
    BY <1>2 DEF EngineBegin, GradeDrill, Executing, InFlightPoints
  <2>4. Driven' = Driven
    BY <2>3 DEF Driven
  <2> QED BY <2>2, <2>4, PhaseKept
<1>3. CASE Fail(q) \/ Finish(q)
  <2>1. q \in Driven /\ Driven' = Driven \ {q}
    BY <1>3 DEF Fail, Finish, Driven, Executing, InFlightPoints
  <2>2. owner' = owner /\ \A r \in Runs \ {q} : SamePhase(r)
    BY <1>3 DEF Fail, Finish, UpdateRun, SamePhase, SetState, Written
  <2>3. CASE state'[q] \in Terminal
    <3>1. LifecyclePhase[q] = "taken" /\ LifecyclePhase'[q] = "settled"
      BY <1>0, <2>1, <2>3 DEF LifecyclePhase
    <3>2. LifecyclePhase' = [LifecyclePhase EXCEPT ![q] = "settled"]
      BY <2>2, <3>1, PhaseMoves
    <3> QED BY <2>1, <3>1, <3>2 DEF Lifecycle!Next, Lifecycle!Settle
  <2>4. CASE state'[q] \notin Terminal
    <3>1. state'[q] = state[q]
      BY <1>3, <2>4 DEF Fail, Finish, UpdateRun, SetState, Written, VerdictsKnown, Terminal
    <3>2. LifecyclePhase' = LifecyclePhase
      BY <2>2, <3>1, PhaseKept DEF SamePhase
    <3>3. {q} \in SUBSET Driven /\ Driven' = Driven \ {q}
      BY <2>1
    <3>4. Lifecycle!Abandon({q})
      BY <3>2, <3>3 DEF Lifecycle!Abandon
    <3> QED BY <3>3, <3>4 DEF Lifecycle!Next
  <2> QED BY <2>3, <2>4
<1> QED BY <1>1, <1>2, <1>3 DEF Execute

LEMMA ReconcileRefines ==
  ASSUME TypeInv, SettledInv, AbsentIsUnowned, NEW w \in Workers, Reconcile(w)
  PROVE  Lifecycle!Next \/ UNCHANGED <<LifecyclePhase, Driven>>
<1> USE DEF TypeInv, TypeOK
<1>0. owner' = owner /\ pc' = pc
  BY DEF Reconcile, SweepScan, SweepNext, SweepDone, SweepClean, SweepSettle,
     SweepNote, SweepRelease, row, exec
<1>1. Driven' = Driven
  BY <1>0 DEF Driven
<1>2. CASE state' = state
  BY <1>0, <1>1, <1>2, PhaseKept DEF SamePhase
<1>3. CASE state' # state
  <2>1. SweepSettle(w)
    BY <1>3 DEF Reconcile, SweepScan, SweepNext, SweepDone, SweepClean, SweepNote,
       SweepRelease, row
  <2> DEFINE q == sweep[w].run
  <2>2. q \in Runs /\ sweep[w].verdict \in Terminal /\ pc[q] = "off" /\ owner[q] # None
    BY <2>1 DEF SweepSettle, VerdictsKnown, SweepTypes, SettledInv, SweepsAreOver, Terminal
  <2>3. state' = SetState(q, sweep[w].verdict)
    BY <2>1, <1>3 DEF SweepSettle, SweptWrite, Written
  <2> HIDE DEF q
  <2>4. state[q] \notin Terminal /\ state'[q] \in Terminal
    BY <2>2, <2>3, <1>3 DEF SetState
  <2>5. \A r \in Runs \ {q} : SamePhase(r)
    BY <2>2, <2>3, <1>0 DEF SetState, SamePhase
  <2>6. LifecyclePhase[q] = "taken" /\ LifecyclePhase'[q] = "settled"
    BY <2>2, <2>4 DEF LifecyclePhase
  <2>7. LifecyclePhase' = [LifecyclePhase EXCEPT ![q] = "settled"]
    BY <2>2, <2>5, <2>6, PhaseMoves
  <2>8. Driven' = Driven \ {q}
    BY <1>1, <2>2 DEF Driven, Executing, InFlightPoints
  <2> QED BY <2>2, <2>6, <2>7, <2>8 DEF Lifecycle!Next, Lifecycle!Settle
<1> QED BY <1>2, <1>3

LEMMA ClientRefines ==
  ASSUME TypeInv, SettledInv, AbsentIsUnowned, NEW q \in Runs,
         Enqueue(q) \/ RequestCancel(q) \/ \E w \in Workers : ClaimRun(w, q)
  PROVE  Lifecycle!Next \/ UNCHANGED <<LifecyclePhase, Driven>>
<1> USE DEF TypeInv, TypeOK
<1>1. CASE Enqueue(q)
  <2>1. LifecyclePhase[q] = "absent" /\ LifecyclePhase'[q] = "waiting"
    BY <1>1 DEF Enqueue, LifecyclePhase, AbsentIsUnowned, Terminal
  <2>2. LifecyclePhase' = [LifecyclePhase EXCEPT ![q] = "waiting"]
    BY <1>1, <2>1, PhaseMoves DEF Enqueue, SamePhase
  <2>3. Driven' = Driven
    BY <1>1 DEF Enqueue, exec, Driven
  <2> QED BY <2>1, <2>2, <2>3 DEF Lifecycle!Next, Lifecycle!Submit
<1>2. CASE RequestCancel(q) /\ state' # state
  <2>1. state[q] = "QUEUED" /\ owner[q] = None /\ owner' = owner
        /\ state' = [state EXCEPT ![q] = "CANCELLED"] /\ pc' = pc
    BY <1>2 DEF RequestCancel, exec
  <2>2. LifecyclePhase[q] = "waiting" /\ LifecyclePhase'[q] = "settled"
    BY <2>1 DEF LifecyclePhase, Terminal
  <2>3. LifecyclePhase' = [LifecyclePhase EXCEPT ![q] = "settled"]
    BY <2>1, <2>2, PhaseMoves DEF SamePhase
  <2>4. Driven' = Driven
    BY <2>1 DEF Driven
  <2> QED BY <2>2, <2>3, <2>4 DEF Lifecycle!Next, Lifecycle!Withdraw
<1>3. CASE RequestCancel(q) /\ state' = state
  <2>1. owner' = owner /\ pc' = pc
    BY <1>3 DEF RequestCancel, exec
  <2> QED BY <1>3, <2>1, PhaseKept DEF SamePhase, Driven
<1>4. ASSUME NEW w \in Workers, ClaimRun(w, q)
      PROVE  Lifecycle!Next
  <2>1. LifecyclePhase[q] = "waiting" /\ LifecyclePhase'[q] = "taken"
    BY <1>4 DEF ClaimRun, LifecyclePhase, Terminal
  <2>2. LifecyclePhase' = [LifecyclePhase EXCEPT ![q] = "taken"]
    BY <1>4, <2>1, PhaseMoves DEF ClaimRun, SamePhase
  <2>3. pc' = pc \/ pc' = [pc EXCEPT ![q] = "claimed"]
    BY <1>4 DEF ClaimRun
  <2>4. Driven' \in {Driven, Driven \cup {q}}
    BY <2>3 DEF Driven, Executing
  <2> QED BY <2>1, <2>2, <2>4 DEF Lifecycle!Next, Lifecycle!Take
<1> QED BY <1>1, <1>2, <1>3, <1>4

LEMMA LifecycleStep ==
  ASSUME TypeInv, SettledInv, AbsentIsUnowned, [Next]_vars
  PROVE  [Lifecycle!Next]_<<LifecyclePhase, Driven>>
<1> USE DEF TypeInv, TypeOK
<1>1. ASSUME state' = state, owner' = owner, pc' = pc
      PROVE  UNCHANGED <<LifecyclePhase, Driven>>
  BY <1>1, PhaseKept DEF SamePhase, Driven
<1>2. ASSUME NEW w \in Workers, Crash(w) PROVE Lifecycle!Next
  <2>1. LifecyclePhase' = LifecyclePhase
    BY <1>2, PhaseKept DEF Crash, row, SamePhase
  <2>2. Driven' = Driven \ Mine(w)
    BY <1>2 DEF Crash, Driven, Mine, Executing, InFlightPoints
  <2>3. Driven \cap Mine(w) \in SUBSET Driven /\ Driven' = Driven \ (Driven \cap Mine(w))
    BY <2>2
  <2> QED BY <2>1, <2>3 DEF Lifecycle!Next, Lifecycle!Abandon
<1>3. ASSUME NEW w \in Workers, Shutdown(w) \/ Exit(w) \/ Start(w)
      PROVE  UNCHANGED <<LifecyclePhase, Driven>>
  BY <1>1, <1>3 DEF Shutdown, Exit, Start, row, exec
<1>4. ASSUME NEW q \in Runs, Tick(q) \/ LeaseExpires(q)
      PROVE  UNCHANGED <<LifecyclePhase, Driven>>
  BY <1>1, <1>4 DEF Tick, LeaseExpires, exec
<1>5. ASSUME NEW id \in VMIDs, OperatorCleanup(id)
      PROVE  UNCHANGED <<LifecyclePhase, Driven>>
  BY <1>1, <1>5 DEF OperatorCleanup, row, exec
<1>6. CASE UNCHANGED vars
  BY <1>1, <1>6 DEF vars, row, exec
<1> QED
  BY <1>2, <1>3, <1>4, <1>5, <1>6, ExecuteRefines, ReconcileRefines, ClientRefines DEF Next

\* Where live drills keep their leases the queue implements DrillLifecycle:
\* every statement, sweep, crash and lost answer is one step of the lifecycle
\* of one run, or none.
THEOREM QueueImplementsLifecycle ==
  ASSUME "freeze" \notin Faults, "slowcleanup" \notin Faults
  PROVE  Spec => ImplementsLifecycle
<1>1. Init => Lifecycle!Init /\ AbsentIsUnowned
  BY DEF Init, Lifecycle!Init, LifecyclePhase, Driven, AbsentIsUnowned, Terminal, Executing,
     InFlightPoints
<1>2. TypeInv /\ SettledInv /\ [Next]_vars => SettledInv'
  BY SettledStep
<1>3. TypeInv /\ SettledInv /\ AbsentIsUnowned /\ [Next]_vars => AbsentIsUnowned'
  BY AbsentStep DEF SettledInv
<1>4. TypeInv /\ SettledInv /\ AbsentIsUnowned /\ [Next]_vars
        => [Lifecycle!Next]_<<LifecyclePhase, Driven>>
  BY LifecycleStep
<1> QED
  BY <1>1, <1>2, <1>3, <1>4, InitType, InitSettled, TypeStep, PTL
     DEF Spec, ImplementsLifecycle, Lifecycle!Spec

-----------------------------------------------------------------------------
(* What the database knows of the cluster.                                 *)

\* As long as no statement is lost, the row of a drill in progress names the
\* id its engine holds in memory, from before the restore to the final write.
RecordKept ==
  \A r \in Runs :
    /\ owner[r] = None => temp[r] = None
    /\ pc[r] = "off" => tmp[r] = None
    /\ pc[r] \in {"claimed", "starting", "failing", "discover"} =>
         temp[r] = None /\ tmp[r] = None
    /\ pc[r] \in {"reserved", "restored", "cleaning"} => tmp[r] # None
    /\ pc[r] \in {"reserved", "restored", "cleaning", "finish"} => temp[r] = tmp[r]

RecordInv == ClaimedIsKnown /\ RecordKept /\ RecordedBeforeCreated

\* The calls that delete never give a workload to a run.
LEMMA DeleteOnlyRemoves ==
  ASSUME TypeOK, NEW id \in VMIDs \cup {None}, NEW d \in DeleteOutcomes(id)
  PROVE  \A i \in VMIDs : d[1][i] \in {vm[i], None}
<1>1. CASE id = None \/ vm[id] = None
  BY <1>1 DEF DeleteOutcomes
<1>2. CASE id # None /\ vm[id] # None
  <2>1. d[1] = vm \/ d[1] = [vm EXCEPT ![id] = None]
    BY <1>2 DEF DeleteOutcomes
  <2> QED BY <2>1 DEF TypeOK
<1> QED BY <1>1, <1>2

LEMMA ExecuteRecord ==
  ASSUME "store" \notin Faults, TypeInv, RecordInv, NEW q \in Runs, Execute(q)
  PROVE  RecordKept' /\ RecordedBeforeCreated'
<1> USE DEF TypeInv, TypeOK, RecordInv, RecordKept
<1>0. owner' = owner /\ owner[q] # None
  BY DEF Execute, MarkInFlight, Fail, FailRelease, EngineBegin, Reserve, Restore,
     AbortEarly, GradeDrill, CleanupDrill, Finish, Release, row, ClaimedIsKnown
<1>1. CASE MarkInFlight(q) \/ Fail(q) \/ FailRelease(q) \/ EngineBegin(q) \/ Release(q)
           \/ GradeDrill(q)
  <2>1. temp' = temp /\ vm' = vm
    BY <1>1 DEF MarkInFlight, Fail, FailRelease, EngineBegin, Release, GradeDrill, row
  <2>2. RecordKept'
    BY <1>0, <1>1, <2>1 DEF MarkInFlight, Fail, FailRelease, EngineBegin, Release, GradeDrill
  <2> QED BY <2>1, <2>2 DEF RecordedBeforeCreated
<1>2. ASSUME NEW id \in VMIDs, Reserve(q, id) PROVE RecordKept' /\ RecordedBeforeCreated'
  <2>1. temp' = [temp EXCEPT ![q] = id] /\ tmp' = [tmp EXCEPT ![q] = id] /\ vm' = vm
        /\ pc' = [pc EXCEPT ![q] = "reserved"]
    BY <1>2 DEF Reserve, SetTempWorkload, Written
  <2>2. \A i \in VMIDs : vm[i] # q
    BY <1>2 DEF Reserve, RecordedBeforeCreated
  <2> QED BY <1>0, <2>1, <2>2 DEF RecordedBeforeCreated
<1>3. CASE Restore(q) \/ AbortEarly(q)
  <2>1. temp' = temp /\ tmp' = tmp
        /\ (pc[q] \in {"discover", "reserved"} /\ pc'[q] \in {"restored", "finish"})
        /\ (pc'[q] = "restored" => pc[q] = "reserved")
        /\ \A r \in Runs \ {q} : pc'[r] = pc[r]
    BY <1>3 DEF Restore, AbortEarly, row
  <2>2. RecordKept'
    BY <1>0, <2>1
  <2>3. vm' = vm \/ (pc[q] = "reserved" /\ vm' = [vm EXCEPT ![tmp[q]] = q])
    BY <1>3 DEF Restore, AbortEarly
  <2>4. RecordedBeforeCreated'
    BY <2>1, <2>3 DEF RecordedBeforeCreated
  <2> QED BY <2>2, <2>4
<1>4. CASE CleanupDrill(q)
  <2>1. \A i \in VMIDs : vm'[i] \in {vm[i], None}
    BY <1>4, DeleteOnlyRemoves, tmp[q] \in VMIDs \cup {None} DEF CleanupDrill
  <2>2. RecordKept' /\ temp' = temp
    BY <1>0, <1>4 DEF CleanupDrill, row
  <2> QED BY <2>1, <2>2 DEF RecordedBeforeCreated
<1>5. CASE Finish(q)
  <2>1. temp' = temp /\ vm' = vm /\ tmp' = tmp
    BY <1>5 DEF Finish, UpdateRun
  <2>2. RecordKept'
    BY <1>0, <1>5, <2>1 DEF Finish
  <2> QED BY <2>1, <2>2 DEF RecordedBeforeCreated
<1> QED BY <1>1, <1>2, <1>3, <1>4, <1>5 DEF Execute

LEMMA RecordStep ==
  ASSUME "store" \notin Faults, TypeInv, RecordInv, [Next]_vars
  PROVE  RecordInv'
<1> USE DEF TypeInv, TypeOK
<1>0. ClaimedIsKnown'
  BY ClaimedIsKnownStep DEF RecordInv
<1> DEFINE Goal == RecordKept' /\ RecordedBeforeCreated'
<1>1. ASSUME NEW w \in Workers, Reconcile(w) PROVE Goal
  <2>1. owner' = owner /\ temp' = temp /\ pc' = pc /\ tmp' = tmp
    BY <1>1 DEF Reconcile, SweepScan, SweepNext, SweepDone, SweepClean, SweepSettle,
       SweepNote, SweepRelease, row, exec
  <2>2. \A i \in VMIDs : vm'[i] \in {vm[i], None}
    <3>1. CASE SweepClean(w)
      <4>1. sweep[w].target \in VMIDs \cup {None}
        BY DEF SweepTypes
      <4> QED BY <3>1, <4>1, DeleteOnlyRemoves DEF SweepClean
    <3> QED BY <1>1, <3>1 DEF Reconcile, SweepScan, SweepNext, SweepDone, SweepSettle,
              SweepNote, SweepRelease
  <2> QED BY <2>1, <2>2 DEF RecordInv, RecordKept, RecordedBeforeCreated
<1>2. ASSUME NEW w \in Workers, Shutdown(w) \/ Exit(w) \/ Start(w) PROVE Goal
  BY <1>2 DEF Shutdown, Exit, Start, row, exec, RecordInv, RecordKept, RecordedBeforeCreated
<1>3. ASSUME NEW w \in Workers, Crash(w) PROVE Goal
  <2>1. owner' = owner /\ temp' = temp /\ vm' = vm
    BY <1>3 DEF Crash, row
  <2>2. \A r \in Runs : \/ pc'[r] = pc[r] /\ tmp'[r] = tmp[r]
                        \/ pc'[r] = "off" /\ tmp'[r] = None
    BY <1>3 DEF Crash
  <2> QED BY <2>1, <2>2 DEF RecordInv, RecordKept, RecordedBeforeCreated
<1>4. ASSUME NEW q \in Runs, Enqueue(q) \/ RequestCancel(q) \/ Tick(q) \/ LeaseExpires(q)
      PROVE  Goal
  BY <1>4 DEF Enqueue, RequestCancel, Tick, LeaseExpires, exec, RecordInv, RecordKept,
     RecordedBeforeCreated
<1>5. ASSUME NEW w \in Workers, NEW q \in Runs, ClaimRun(w, q) PROVE Goal
  <2>1. temp' = temp /\ tmp' = tmp /\ vm' = vm /\ owner[q] = None /\ pc[q] = "off"
        /\ owner' = [owner EXCEPT ![q] = w]
        /\ (pc' = pc \/ pc' = [pc EXCEPT ![q] = "claimed"])
    BY <1>5 DEF ClaimRun, RecordInv, ClaimedIsKnown
  <2> QED BY <2>1 DEF RecordInv, RecordKept, RecordedBeforeCreated
<1>6. ASSUME NEW id \in VMIDs, OperatorCleanup(id) PROVE Goal
  <2>1. owner' = owner /\ temp' = temp /\ pc' = pc /\ tmp' = tmp
        /\ vm' = [vm EXCEPT ![id] = None]
    BY <1>6 DEF OperatorCleanup, row, exec
  <2> QED BY <2>1 DEF RecordInv, RecordKept, RecordedBeforeCreated
<1>7. ASSUME UNCHANGED vars PROVE Goal
  <2>1. owner' = owner /\ temp' = temp /\ pc' = pc /\ tmp' = tmp /\ vm' = vm
    BY <1>7 DEF vars, row, exec
  <2> QED BY <2>1 DEF RecordInv, RecordKept, RecordedBeforeCreated
<1>8. Goal
  BY <1>1, <1>2, <1>3, <1>4, <1>5, <1>6, <1>7, ExecuteRecord DEF Next
<1> QED BY <1>0, <1>8 DEF RecordInv

LEMMA InitRecord == Init => RecordInv
BY DEF Init, RecordInv, ClaimedIsKnown, RecordKept, RecordedBeforeCreated

\* As long as no statement of the store fails, nothing exists on the cluster
\* that the database cannot name - whatever crashes, freezes or loses answers.
THEOREM RecordedFirst ==
  ASSUME "store" \notin Faults
  PROVE  Spec => []RecordedBeforeCreated
<1>1. TypeInv /\ RecordInv /\ [Next]_vars => RecordInv'
  BY RecordStep
<1> QED BY <1>1, InitType, InitRecord, TypeStep, PTL DEF Spec, RecordInv

-----------------------------------------------------------------------------
(* Nothing is stranded.                                                    *)

\* As long as no statement is lost, a lease is given back only after the final
\* state was written: by fail, by Finish, and by a sweep that is still allowed
\* to write (a worker that is stopping writes neither).
ReleasedIsSettled ==
  /\ \A r \in Runs :
       /\ owner[r] # None /\ lease[r] = "null" => state[r] \in Terminal
       /\ pc[r] \in {"failing", "release"} => state[r] \in Terminal
  /\ \A w \in Workers :
       sweep[w].at \in {"note", "release"} /\ up[w] = "running" =>
         state[sweep[w].run] \in Terminal
  /\ \A w \in Workers : up[w] = "down" => sweep[w].at = "idle"

\* No step takes a run out of the final states, although UpdateRun may replace
\* one by another when leases are lost.
LEMMA FinalStays ==
  ASSUME TypeInv, [Next]_vars, NEW r \in Runs, state[r] \in Terminal
  PROVE  state'[r] \in Terminal
<1> USE DEF TypeInv, TypeOK
<1>1. ASSUME NEW q \in Runs, Execute(q) PROVE state'[r] \in Terminal
  <2>1. CASE Finish(q)
    BY <2>1 DEF Finish, UpdateRun, VerdictsKnown
  <2> QED
    BY <1>1, <2>1 DEF Execute, MarkInFlight, Fail, FailRelease, EngineBegin, Reserve, Restore,
       AbortEarly, GradeDrill, CleanupDrill, Release, SetState, Written, row
<1>2. ASSUME NEW w \in Workers, Reconcile(w) PROVE state'[r] = state[r]
  BY <1>2 DEF Reconcile, SweepScan, SweepNext, SweepDone, SweepClean, SweepSettle,
     SweepNote, SweepRelease, SweptWrite, SetState, Written, row
<1>3. ASSUME NEW w \in Workers, Shutdown(w) \/ Exit(w) \/ Crash(w) \/ Start(w)
      PROVE  state' = state
  BY <1>3 DEF Shutdown, Exit, Crash, Start, row
<1>4. ASSUME NEW q \in Runs, Enqueue(q) \/ RequestCancel(q) \/ Tick(q) \/ LeaseExpires(q)
      PROVE  state'[r] = state[r]
  BY <1>4 DEF Enqueue, RequestCancel, Tick, LeaseExpires, Terminal
<1>5. ASSUME NEW w \in Workers, NEW q \in Runs, ClaimRun(w, q) PROVE state' = state
  BY <1>5 DEF ClaimRun
<1>6. ASSUME NEW id \in VMIDs, OperatorCleanup(id) PROVE state' = state
  BY <1>6 DEF OperatorCleanup, row
<1>7. CASE UNCHANGED vars
  BY <1>7 DEF vars, row
<1> QED BY <1>1, <1>2, <1>3, <1>4, <1>5, <1>6, <1>7 DEF Next

\* What the steps of a sweep that only move it do to its record.
LEMMA SweepTurns ==
  ASSUME TypeInv, NEW w \in Workers, SweepScan(w) \/ SweepDone(w) \/ SweepRelease(w)
  PROVE  /\ sweep'[w].at \in {"idle", "loop"} /\ sweep'[w].run = None
         /\ sweep'[w].todo \subseteq sweep[w].todo \cup StaleRuns
<1>0. \A S : LET s == [IdleSweep EXCEPT !.at = "loop", !.todo = S]
             IN  s.at = "loop" /\ s.run = None /\ s.todo = S
  BY DEF IdleSweep
<1>1. CASE SweepScan(w)
  <2>1. sweep'[w] = [IdleSweep EXCEPT !.at = "loop", !.todo = StaleRuns]
    BY <1>1 DEF SweepScan, TypeInv, TypeOK
  <2> QED BY <1>0, <2>1
<1>2. CASE SweepDone(w)
  <2>1. sweep'[w] = IdleSweep
    BY <1>2 DEF SweepDone, TypeInv, TypeOK
  <2> QED BY <2>1 DEF IdleSweep
<1>3. CASE SweepRelease(w)
  <2>1. sweep'[w] = [IdleSweep EXCEPT !.at = "loop", !.todo = sweep[w].todo]
    BY <1>3 DEF SweepRelease, TypeInv, TypeOK
  <2> QED BY <1>0, <2>1
<1> QED BY <1>1, <1>2, <1>3

LEMMA SweepReads ==
  ASSUME TypeInv, NEW w \in Workers, SweepNext(w)
  PROVE  \E r \in sweep[w].todo :
           /\ sweep'[w].todo = sweep[w].todo \ {r}
           /\ \/ sweep'[w].at = "loop" /\ sweep'[w].run = None
              \/ /\ sweep'[w].at = "clean" /\ sweep'[w].run = r /\ sweep'[w].target = temp[r]
                 /\ up[w] = "running"
<1>1. PICK r \in sweep[w].todo :
        LET skip == [IdleSweep EXCEPT !.at = "loop", !.todo = sweep[w].todo \ {r}]
            read == [skip EXCEPT !.at = "clean", !.run = r, !.target = temp[r]]
        IN  (sweep' = [sweep EXCEPT ![w] = read] /\ up[w] = "running")
            \/ sweep' = [sweep EXCEPT ![w] = skip]
  BY DEF SweepNext
<1> DEFINE skip == [IdleSweep EXCEPT !.at = "loop", !.todo = sweep[w].todo \ {r}]
           read == [skip EXCEPT !.at = "clean", !.run = r, !.target = temp[r]]
<1>2. (sweep'[w] = read /\ up[w] = "running") \/ sweep'[w] = skip
  BY <1>1 DEF TypeInv, TypeOK
<1>3. skip.todo = sweep[w].todo \ {r} /\ skip.at = "loop" /\ skip.run = None
  BY DEF IdleSweep
<1>4. /\ read.todo = sweep[w].todo \ {r} /\ read.at = "clean" /\ read.run = r
      /\ read.target = temp[r]
  BY DEF IdleSweep
<1> HIDE DEF skip, read
<1> QED BY <1>2, <1>3, <1>4

\* Who gives a lease back, and who reaches the points where one is given back.
LEMMA ExecuteReleases ==
  ASSUME "store" \notin Faults, TypeInv, ReleasedIsSettled, NEW q \in Runs, Execute(q),
         NEW r \in Runs
  PROVE  /\ owner'[r] # None /\ lease'[r] = "null" => state'[r] \in Terminal
         /\ pc'[r] \in {"failing", "release"} => state'[r] \in Terminal
<1> USE DEF TypeInv, TypeOK
<1>0. owner' = owner /\ (state[r] \in Terminal => state'[r] \in Terminal)
  <2>1. [Next]_vars
    BY DEF Next
  <2> QED
    BY <2>1, FinalStays DEF Execute, MarkInFlight, Fail, FailRelease, EngineBegin, Reserve,
       Restore, AbortEarly, GradeDrill, CleanupDrill, Finish, Release, row
<1>1. lease'[r] = lease[r] \/ (pc[r] \in {"failing", "release"} /\ state'[r] = state[r])
  BY DEF Execute, MarkInFlight, Fail, FailRelease, EngineBegin, Reserve, Restore, AbortEarly,
     GradeDrill, CleanupDrill, Finish, Release, FinishLease, Written, row
<1>2. pc'[r] \in {"failing", "release"} => pc[r] = pc'[r] \/ state'[r] \in Terminal
  <2>1. CASE Fail(q)
    BY <2>1 DEF Fail, SetState, Written, Terminal
  <2>2. CASE Finish(q)
    BY <2>2 DEF Finish, UpdateRun, VerdictsKnown
  <2>3. CASE GradeDrill(q)
    BY <2>3 DEF GradeDrill
  <2> QED
    BY <2>1, <2>2, <2>3 DEF Execute, MarkInFlight, FailRelease, EngineBegin, Reserve, Restore,
       AbortEarly, CleanupDrill, Release
<1> QED BY <1>0, <1>1, <1>2 DEF ReleasedIsSettled

LEMMA SweepReleases ==
  ASSUME "store" \notin Faults, TypeInv, ReleasedIsSettled, NEW w \in Workers, Reconcile(w)
  PROVE  ReleasedIsSettled'
<1> USE DEF TypeInv, TypeOK
<1>0. owner' = owner /\ pc' = pc /\ up' = up
  BY DEF Reconcile, SweepScan, SweepNext, SweepDone, SweepClean, SweepSettle,
     SweepNote, SweepRelease, row, exec, proc
<1>1. \A r \in Runs : state[r] \in Terminal => state'[r] \in Terminal
  <2>1. [Next]_vars
    BY DEF Next
  <2> QED BY <2>1, FinalStays
<1>2. \A r \in Runs : lease'[r] = "null" =>
        lease[r] = "null" \/ (up[w] = "running" /\ sweep[w].at = "release" /\ sweep[w].run = r)
  BY DEF Reconcile, SweepScan, SweepNext, SweepDone, SweepClean, SweepSettle,
     SweepNote, SweepRelease, SweptWrite, FinishLease, Written, row
<1>3. \A x \in Workers \ {w} : sweep'[x] = sweep[x]
  BY DEF Reconcile, SweepScan, SweepNext, SweepDone, SweepClean, SweepSettle,
     SweepNote, SweepRelease
<1>4. ASSUME sweep'[w].at \in {"note", "release"}, up[w] = "running"
      PROVE  state'[sweep'[w].run] \in Terminal
  <2>0. sweep[w] \in SweepTypes
    OBVIOUS
  <2>1. CASE SweepSettle(w)
    <3>1. sweep'[w].run = sweep[w].run /\ sweep[w].run \in Runs /\ sweep[w].verdict \in Terminal
      BY <2>0, <2>1 DEF SweepSettle, SweepTypes, VerdictsKnown, Terminal
    <3>2. state' = SetState(sweep[w].run, sweep[w].verdict)
      BY <1>4, <2>1 DEF SweepSettle, SweptWrite, Written
    <3> QED BY <3>1, <3>2 DEF SetState
  <2>2. CASE SweepNote(w)
    <3>1. sweep'[w].run = sweep[w].run /\ sweep[w].run \in Runs /\ state' = state
      BY <2>0, <2>2 DEF SweepNote, SweepTypes, VerdictsKnown
    <3> QED BY <1>4, <2>2, <3>1 DEF SweepNote, ReleasedIsSettled
  <2>3. CASE SweepScan(w) \/ SweepDone(w) \/ SweepRelease(w)
    BY <1>4, <2>3, SweepTurns
  <2>4. CASE SweepNext(w)
    BY <1>4, <2>4, SweepReads
  <2>5. CASE SweepClean(w)
    <3>1. PICK v, n : sweep' = [sweep EXCEPT ![w].at = "settle", ![w].verdict = v, ![w].note = n]
      BY <2>5 DEF SweepClean
    <3>2. sweep'[w].at = "settle"
      BY <2>0, <3>1 DEF SweepTypes
    <3> QED BY <1>4, <3>2
  <2> QED BY <2>1, <2>2, <2>3, <2>4, <2>5 DEF Reconcile
<1>5. ASSUME NEW x \in Workers \ {w}, sweep[x].at \in {"note", "release"}, up[x] = "running"
      PROVE  state'[sweep[x].run] \in Terminal
  BY <1>1, <1>5 DEF ReleasedIsSettled, VerdictsKnown
<1>6. ASSUME sweep[w].at = "release", up[w] = "running" PROVE state[sweep[w].run] \in Terminal
  BY <1>6 DEF ReleasedIsSettled
<1>7. \A x \in Workers : up[x] = "down" => sweep'[x].at = "idle"
  <2>1. up[w] # "down"
    BY DEF Reconcile, SweepScan, SweepNext, SweepDone, SweepClean, SweepSettle,
       SweepNote, SweepRelease, Alive
  <2> QED BY <1>3, <2>1 DEF ReleasedIsSettled
<1> QED BY <1>0, <1>1, <1>2, <1>3, <1>4, <1>5, <1>6, <1>7 DEF ReleasedIsSettled

LEMMA ReleaseStep ==
  ASSUME "store" \notin Faults, TypeInv, ClaimedIsKnown, ReleasedIsSettled, [Next]_vars
  PROVE  ReleasedIsSettled'
<1> USE DEF TypeInv, TypeOK
<1>0. \A r \in Runs : state[r] \in Terminal => state'[r] \in Terminal
  BY FinalStays
<1>1. ASSUME NEW q \in Runs, Execute(q) PROVE ReleasedIsSettled'
  <2>1. up' = up /\ sweep' = sweep
    BY <1>1 DEF Execute, MarkInFlight, Fail, FailRelease, EngineBegin, Reserve, Restore,
       AbortEarly, GradeDrill, CleanupDrill, Finish, Release, proc
  <2>2. \A w \in Workers : sweep[w].at \in {"note", "release"} => sweep[w].run \in Runs
    BY DEF VerdictsKnown
  <2> QED BY <1>0, <1>1, <2>1, <2>2, ExecuteReleases DEF ReleasedIsSettled
<1>2. ASSUME NEW w \in Workers, Shutdown(w) \/ Exit(w) \/ Start(w) PROVE ReleasedIsSettled'
  <2>1. state' = state /\ owner' = owner /\ lease' = lease /\ pc' = pc /\ sweep' = sweep
    BY <1>2 DEF Shutdown, Exit, Start, row, exec
  <2>2. \A x \in Workers : /\ up'[x] = "running" => up[x] = "running" \/ sweep[x].at = "idle"
                           /\ up'[x] = "down" => sweep[x].at = "idle"
    BY <1>2 DEF Shutdown, Exit, Start, ReleasedIsSettled
  <2> QED BY <2>1, <2>2 DEF ReleasedIsSettled
<1>3. ASSUME NEW w \in Workers, Crash(w) PROVE ReleasedIsSettled'
  <2>1. state' = state /\ owner' = owner /\ lease' = lease
        /\ \A r \in Runs : pc'[r] \in {pc[r], "off"}
    BY <1>3 DEF Crash, row
  <2>2. up' = [up EXCEPT ![w] = "down"] /\ sweep' = [sweep EXCEPT ![w] = IdleSweep]
    BY <1>3 DEF Crash
  <2>3. IdleSweep.at = "idle"
    BY DEF IdleSweep
  <2> QED BY <2>1, <2>2, <2>3 DEF ReleasedIsSettled
<1>4. ASSUME NEW q \in Runs, Enqueue(q) \/ RequestCancel(q) \/ Tick(q) \/ LeaseExpires(q)
      PROVE  ReleasedIsSettled'
  <2>1. owner' = owner /\ pc' = pc /\ up' = up /\ sweep' = sweep
    BY <1>4 DEF Enqueue, RequestCancel, Tick, LeaseExpires, exec, proc
  <2>2. \A r \in Runs : lease'[r] = "null" => lease[r] = "null"
    BY <1>4 DEF Enqueue, RequestCancel, Tick, LeaseExpires
  <2>3. \A w \in Workers : sweep[w].at \in {"note", "release"} => sweep[w].run \in Runs
    BY DEF VerdictsKnown
  <2> QED BY <1>0, <2>1, <2>2, <2>3 DEF ReleasedIsSettled
<1>5. ASSUME NEW w \in Workers, NEW q \in Runs, ClaimRun(w, q) PROVE ReleasedIsSettled'
  <2>1. state' = state /\ up' = up /\ sweep' = sweep
        /\ \A r \in Runs \ {q} : owner'[r] = owner[r] /\ lease'[r] = lease[r] /\ pc'[r] = pc[r]
    BY <1>5 DEF ClaimRun, proc
  <2>2. lease'[q] = "valid" /\ pc'[q] \notin {"failing", "release"}
    BY <1>5 DEF ClaimRun, ClaimedIsKnown
  <2> QED BY <2>1, <2>2 DEF ReleasedIsSettled
<1>6. ASSUME NEW id \in VMIDs, OperatorCleanup(id) PROVE ReleasedIsSettled'
  BY <1>6 DEF OperatorCleanup, row, proc, exec, ReleasedIsSettled
<1>7. CASE UNCHANGED vars
  BY <1>7 DEF vars, row, proc, exec, ReleasedIsSettled
<1> QED BY <1>1, <1>2, <1>3, <1>4, <1>5, <1>6, <1>7, SweepReleases DEF Next

LEMMA InitRelease == Init => ClaimedIsKnown /\ ReleasedIsSettled
<1>1. IdleSweep.at = "idle"
  BY DEF IdleSweep
<1> QED BY <1>1 DEF Init, ClaimedIsKnown, ReleasedIsSettled

\* As long as no statement of the store fails, no claimed run is left where
\* neither StaleRuns nor ClaimRun would ever see it again.
THEOREM StrandedNever ==
  ASSUME "store" \notin Faults
  PROVE  Spec => []NeverStranded
<1>1. TypeInv /\ ClaimedIsKnown /\ [Next]_vars => ClaimedIsKnown'
  BY ClaimedIsKnownStep
<1>2. TypeInv /\ ClaimedIsKnown /\ ReleasedIsSettled /\ [Next]_vars => ReleasedIsSettled'
  BY ReleaseStep
<1>3. ReleasedIsSettled => NeverStranded
  BY DEF ReleasedIsSettled, NeverStranded
<1> QED BY <1>1, <1>2, <1>3, InitType, InitRelease, TypeStep, PTL DEF Spec

-----------------------------------------------------------------------------
(* No workload outlives its run in silence.                                *)

Leaves(r) == \E id \in VMIDs : vm[id] = r

Announced(r, s) == s = "CLEANUP_FAILED" \/ Keeps(r, s)

\* A drill has no workload before its restore; what it leaves once it is
\* graded is announced by the grade it is about to write; and a sweep that
\* settles for FAILED has seen the workload its row named removed.
DrillsAnnounce ==
  \A r \in Runs :
    /\ pc[r] \in {"claimed", "starting", "failing", "discover", "reserved"} => ~Leaves(r)
    /\ pc[r] = "finish" /\ Leaves(r) => Announced(r, grade[r])
    /\ state[r] \in Terminal /\ Leaves(r) => Announced(r, state[r])

\* What takes the place of SettledMeansOver when a cancelled drill may lose its
\* lease while it cleans up: whoever is swept or settled is past its grade.
PastGrade == {"off", "cleaning", "finish", "release"}

ExpiredIsLate == \A r \in Runs : lease[r] = "expired" => pc[r] \in PastGrade

SweepsAreLate ==
  \A w \in Workers : \A r \in Runs :
    r \in sweep[w].todo \/ sweep[w].run = r => owner[r] # None /\ pc[r] \in PastGrade

SettledIsLate == \A r \in Runs : state[r] \in Terminal => pc[r] \in PastGrade \cup {"failing"}

LateInv == ClaimedIsKnown /\ ExpiredIsLate /\ SweepsAreLate /\ SettledIsLate

SweepsAnnounce ==
  \A w \in Workers :
    /\ sweep[w].at \notin {"idle", "loop"} => sweep[w].target = temp[sweep[w].run]
    /\ sweep[w].at = "settle" /\ sweep[w].verdict = "FAILED" => ~Leaves(sweep[w].run)

OrphanInv == LateInv /\ RecordInv /\ DrillsAnnounce /\ SweepsAnnounce

LEMMA LeavesStep ==
  ASSUME "lostreply" \notin Faults, TypeInv, [Next]_vars, NEW r \in Runs, Leaves(r)'
  PROVE  Leaves(r) \/ Restore(r)
<1> USE DEF TypeInv, TypeOK
<1>0. ASSUME \A i \in VMIDs : vm'[i] \in {vm[i], None} PROVE Leaves(r)
  BY <1>0 DEF Leaves
<1>1. ASSUME NEW q \in Runs, Execute(q) PROVE Leaves(r) \/ Restore(r)
  <2>1. CASE Restore(q)
    BY <2>1 DEF Restore, Leaves
  <2>2. CASE CleanupDrill(q)
    BY <1>0, <2>2, DeleteOnlyRemoves, tmp[q] \in VMIDs \cup {None} DEF CleanupDrill
  <2>3. CASE MarkInFlight(q) \/ Fail(q) \/ FailRelease(q) \/ EngineBegin(q) \/ GradeDrill(q)
             \/ Finish(q) \/ Release(q) \/ AbortEarly(q) \/ \E id \in VMIDs : Reserve(q, id)
    <3>1. vm' = vm
      BY <2>3 DEF MarkInFlight, Fail, FailRelease, EngineBegin, GradeDrill, Finish, Release,
         AbortEarly, Reserve
    <3> QED BY <1>0, <3>1
  <2> QED BY <1>1, <2>1, <2>2, <2>3 DEF Execute
<1>2. ASSUME NEW w \in Workers, Reconcile(w) PROVE Leaves(r)
  <2>1. CASE SweepClean(w)
    <3>1. sweep[w].target \in VMIDs \cup {None}
      BY DEF SweepTypes
    <3> QED BY <1>0, <2>1, <3>1, DeleteOnlyRemoves DEF SweepClean
  <2>2. CASE SweepScan(w) \/ SweepNext(w) \/ SweepDone(w) \/ SweepSettle(w) \/ SweepNote(w)
             \/ SweepRelease(w)
    <3>1. vm' = vm
      BY <2>2 DEF SweepScan, SweepNext, SweepDone, SweepSettle, SweepNote, SweepRelease
    <3> QED BY <1>0, <3>1
  <2> QED BY <1>2, <2>1, <2>2 DEF Reconcile
<1>3. ASSUME NEW w \in Workers, Shutdown(w) \/ Exit(w) \/ Crash(w) \/ Start(w) PROVE Leaves(r)
  BY <1>0, <1>3 DEF Shutdown, Exit, Crash, Start
<1>4. ASSUME NEW q \in Runs, Enqueue(q) \/ RequestCancel(q) \/ Tick(q) \/ LeaseExpires(q)
      PROVE  Leaves(r)
  BY <1>0, <1>4 DEF Enqueue, RequestCancel, Tick, LeaseExpires
<1>5. ASSUME NEW w \in Workers, NEW q \in Runs, ClaimRun(w, q) PROVE Leaves(r)
  BY <1>0, <1>5 DEF ClaimRun
<1>6. ASSUME NEW id \in VMIDs, OperatorCleanup(id) PROVE Leaves(r)
  BY <1>0, <1>6 DEF OperatorCleanup
<1>7. CASE UNCHANGED vars
  BY <1>0, <1>7 DEF vars
<1> QED BY <1>1, <1>2, <1>3, <1>4, <1>5, <1>6, <1>7 DEF Next

LEMMA UnclaimedLeavesNothing ==
  ASSUME TypeOK, RecordInv, NEW r \in Runs, temp[r] = None PROVE ~Leaves(r)
BY DEF TypeOK, RecordInv, RecordedBeforeCreated, Leaves

\* A run past its grade keeps the id its row names.
LEMMA RecordIsStill ==
  ASSUME TypeInv, RecordKept, [Next]_vars, NEW r \in Runs, pc[r] \in PastGrade
  PROVE  temp'[r] = temp[r]
<1> USE DEF TypeInv, TypeOK, RecordKept, PastGrade
<1>1. ASSUME NEW q \in Runs, Execute(q) PROVE temp'[r] = temp[r]
  BY <1>1 DEF Execute, MarkInFlight, Fail, FailRelease, EngineBegin, Reserve, Restore,
     AbortEarly, GradeDrill, CleanupDrill, Finish, Release, UpdateRun, SetTempWorkload,
     Written, row
<1>2. ASSUME NEW w \in Workers, Reconcile(w) PROVE temp' = temp
  BY <1>2 DEF Reconcile, SweepScan, SweepNext, SweepDone, SweepClean, SweepSettle,
     SweepNote, SweepRelease, row
<1>3. ASSUME NEW w \in Workers, Shutdown(w) \/ Exit(w) \/ Crash(w) \/ Start(w)
      PROVE  temp' = temp
  BY <1>3 DEF Shutdown, Exit, Crash, Start, row
<1>4. ASSUME NEW q \in Runs, Enqueue(q) \/ RequestCancel(q) \/ Tick(q) \/ LeaseExpires(q)
      PROVE  temp' = temp
  BY <1>4 DEF Enqueue, RequestCancel, Tick, LeaseExpires
<1>5. ASSUME NEW w \in Workers, NEW q \in Runs, ClaimRun(w, q) PROVE temp' = temp
  BY <1>5 DEF ClaimRun
<1>6. ASSUME NEW id \in VMIDs, OperatorCleanup(id) PROVE temp' = temp
  BY <1>6 DEF OperatorCleanup, row
<1>7. CASE UNCHANGED vars
  BY <1>7 DEF vars, row
<1> QED BY <1>1, <1>2, <1>3, <1>4, <1>5, <1>6, <1>7 DEF Next

\* A deletion that says it worked leaves nothing of the run whose row named
\* the id it was given - also when the id had meanwhile gone to another run.
LEMMA DeletedLeavesNothing ==
  ASSUME "lostreply" \notin Faults, TypeOK, RecordedBeforeCreated, NEW r \in Runs,
         NEW d \in DeleteOutcomes(temp[r]), d[2] = "ok"
  PROVE  \A i \in VMIDs : d[1][i] # r
<1>1. temp[r] # None /\ vm[temp[r]] # None /\ d[1] = [vm EXCEPT ![temp[r]] = None]
  BY DEF DeleteOutcomes
<1>2. \A i \in VMIDs : vm[i] = r => temp[r] = i
  BY DEF RecordedBeforeCreated
<1> QED BY <1>1, <1>2 DEF TypeOK

\* Where a goroutine that has not restored anything comes from, who hands a
\* grade to Finish, and who settles a run.
LEMMA ProgressStep ==
  ASSUME TypeInv, [Next]_vars, NEW r \in Runs
  PROVE  /\ pc'[r] \in {"claimed", "starting", "failing", "discover", "reserved"} =>
              \/ pc[r] \in {"claimed", "starting", "failing", "discover", "reserved"}
              \/ owner[r] = None
         /\ pc'[r] = "finish" =>
              \/ pc[r] = "finish" /\ grade'[r] = grade[r]
              \/ AbortEarly(r) \/ GradeDrill(r) \/ CleanupDrill(r)
         /\ state'[r] \in Terminal /\ state[r] \notin Terminal =>
              \/ Fail(r) \/ Finish(r) \/ (owner[r] = None /\ pc' = pc)
              \/ \E w \in Workers : /\ SweepSettle(w) /\ sweep[w].run = r
                                    /\ state'[r] = sweep[w].verdict
         /\ state[r] \in Terminal => state'[r] = state[r] \/ Finish(r)
<1> USE DEF TypeInv, TypeOK
<1> DEFINE Early == {"claimed", "starting", "failing", "discover", "reserved"}
           Goal == /\ pc'[r] \in Early => pc[r] \in Early \/ owner[r] = None
                   /\ pc'[r] = "finish" =>
                        \/ pc[r] = "finish" /\ grade'[r] = grade[r]
                        \/ AbortEarly(r) \/ GradeDrill(r) \/ CleanupDrill(r)
                   /\ state'[r] \in Terminal /\ state[r] \notin Terminal =>
                        \/ Fail(r) \/ Finish(r) \/ (owner[r] = None /\ pc' = pc)
                        \/ \E w \in Workers : /\ SweepSettle(w) /\ sweep[w].run = r
                                              /\ state'[r] = sweep[w].verdict
                   /\ state[r] \in Terminal => state'[r] = state[r] \/ Finish(r)
<1>1. ASSUME NEW q \in Runs, Execute(q) PROVE Goal
  <2>1. CASE q # r
    <3>1. pc'[r] = pc[r] /\ grade'[r] = grade[r] /\ state'[r] = state[r]
      BY <1>1, <2>1 DEF Execute, MarkInFlight, Fail, FailRelease, EngineBegin, Reserve, Restore,
         AbortEarly, GradeDrill, CleanupDrill, Finish, Release, UpdateRun, SetState, Written, row
    <3> QED BY <3>1
  <2>2. CASE q = r
    <3>1. CASE AbortEarly(r) \/ CleanupDrill(r)
      BY <3>1 DEF AbortEarly, CleanupDrill, row
    <3>2. CASE GradeDrill(r)
      <4>1. pc'[r] \in {"finish", "cleaning"}
        BY <3>2 DEF GradeDrill
      <4>2. /\ state'[r] \in Terminal => state[r] \in Terminal
            /\ state[r] \in Terminal => state'[r] = state[r]
        BY <3>2 DEF GradeDrill, SetState, Written, Terminal
      <4> QED BY <3>2, <4>1, <4>2
    <3>3. CASE Fail(r) \/ Finish(r)
      BY <3>3 DEF Fail, Finish, SetState, Written
    <3>4. CASE MarkInFlight(r) \/ FailRelease(r) \/ Restore(r) \/ Release(r)
               \/ \E id \in VMIDs : Reserve(r, id)
      BY <3>4 DEF MarkInFlight, FailRelease, Restore, Release, Reserve, row
    <3>5. CASE EngineBegin(r)
      BY <3>5 DEF EngineBegin, SetState, Written, Terminal
    <3> QED BY <1>1, <2>2, <3>1, <3>2, <3>3, <3>4, <3>5 DEF Execute
  <2> QED BY <2>1, <2>2
<1>2. ASSUME NEW w \in Workers, Reconcile(w) PROVE Goal
  <2>1. pc' = pc /\ grade' = grade
    BY <1>2 DEF Reconcile, SweepScan, SweepNext, SweepDone, SweepClean, SweepSettle,
       SweepNote, SweepRelease, exec
  <2>2. CASE SweepSettle(w)
    <3>1. state' = SetState(sweep[w].run, sweep[w].verdict) \/ state' = state
      BY <2>2 DEF SweepSettle, SweptWrite, Written
    <3>2. \/ state'[r] = state[r]
          \/ sweep[w].run = r /\ state'[r] = sweep[w].verdict /\ state[r] \notin Terminal
      BY <3>1 DEF SetState
    <3> QED BY <2>1, <2>2, <3>2
  <2>3. CASE SweepScan(w) \/ SweepNext(w) \/ SweepDone(w) \/ SweepClean(w) \/ SweepNote(w)
             \/ SweepRelease(w)
    <3>1. state' = state
      BY <2>3 DEF SweepScan, SweepNext, SweepDone, SweepClean, SweepNote, SweepRelease, row
    <3> QED BY <2>1, <3>1
  <2> QED BY <1>2, <2>2, <2>3 DEF Reconcile
<1>3. ASSUME NEW w \in Workers, Shutdown(w) \/ Exit(w) \/ Crash(w) \/ Start(w) PROVE Goal
  BY <1>3 DEF Shutdown, Exit, Crash, Start, row, exec
<1>4. ASSUME NEW q \in Runs, Enqueue(q) \/ RequestCancel(q) \/ Tick(q) \/ LeaseExpires(q)
      PROVE  Goal
  BY <1>4 DEF Enqueue, RequestCancel, Tick, LeaseExpires, exec, Terminal
<1>5. ASSUME NEW w \in Workers, NEW q \in Runs, ClaimRun(w, q) PROVE Goal
  BY <1>5 DEF ClaimRun
<1>6. ASSUME NEW id \in VMIDs, OperatorCleanup(id) PROVE Goal
  BY <1>6 DEF OperatorCleanup, row, exec
<1>7. CASE UNCHANGED vars
  BY <1>7 DEF vars, row, exec
<1> QED BY <1>1, <1>2, <1>3, <1>4, <1>5, <1>6, <1>7 DEF Next

\* Who is past its grade only ends.
LEMMA LateStays ==
  ASSUME TypeInv, [Next]_vars, NEW r \in Runs, owner[r] # None \/ state[r] \in Terminal
  PROVE  /\ pc[r] \in PastGrade => pc'[r] \in PastGrade
         /\ pc[r] = "failing" => pc'[r] \in {"failing", "off"}
<1> USE DEF TypeInv, TypeOK, PastGrade
<1> DEFINE Goal == /\ pc[r] \in PastGrade => pc'[r] \in PastGrade
                   /\ pc[r] = "failing" => pc'[r] \in {"failing", "off"}
<1>1. ASSUME NEW q \in Runs, Execute(q) PROVE Goal
  BY <1>1 DEF Execute, MarkInFlight, Fail, FailRelease, EngineBegin, Reserve, Restore,
     AbortEarly, GradeDrill, CleanupDrill, Finish, Release
<1>2. ASSUME NEW w \in Workers, Reconcile(w) PROVE pc' = pc
  BY <1>2 DEF Reconcile, SweepScan, SweepNext, SweepDone, SweepClean, SweepSettle,
     SweepNote, SweepRelease, exec
<1>3. ASSUME NEW w \in Workers, Shutdown(w) \/ Exit(w) \/ Crash(w) \/ Start(w)
      PROVE  pc'[r] \in {pc[r], "off"}
  BY <1>3 DEF Shutdown, Exit, Crash, Start, exec
<1>4. ASSUME NEW q \in Runs, Enqueue(q) \/ RequestCancel(q) \/ Tick(q) \/ LeaseExpires(q)
      PROVE  pc' = pc
  BY <1>4 DEF Enqueue, RequestCancel, Tick, LeaseExpires, exec
<1>5. ASSUME NEW w \in Workers, NEW q \in Runs, ClaimRun(w, q) PROVE pc'[r] = pc[r]
  BY <1>5 DEF ClaimRun, Terminal
<1>6. ASSUME NEW id \in VMIDs, OperatorCleanup(id) PROVE pc' = pc
  BY <1>6 DEF OperatorCleanup, exec
<1>7. CASE UNCHANGED vars
  BY <1>7 DEF vars, exec
<1> QED BY <1>1, <1>2, <1>3, <1>4, <1>5, <1>6, <1>7 DEF Next

\* A lease that runs out is one whose holder is gone, or is cleaning up.
LEMMA ExpiryStep ==
  ASSUME "freeze" \notin Faults, TypeInv, [Next]_vars, NEW r \in Runs,
         lease'[r] = "expired", lease[r] # "expired"
  PROVE  pc' = pc /\ pc[r] \in {"off", "cleaning"}
<1> USE DEF TypeInv, TypeOK
<1>1. ASSUME NEW q \in Runs, Execute(q) PROVE lease'[r] \in {lease[r], "null"}
  BY <1>1 DEF Execute, MarkInFlight, Fail, FailRelease, EngineBegin, Reserve, Restore,
     AbortEarly, GradeDrill, CleanupDrill, Finish, Release, FinishLease, Written, row
<1>2. ASSUME NEW w \in Workers, Reconcile(w) PROVE lease'[r] \in {lease[r], "null"}
  BY <1>2 DEF Reconcile, SweepScan, SweepNext, SweepDone, SweepClean, SweepSettle,
     SweepNote, SweepRelease, SweptWrite, FinishLease, Written, row
<1>3. ASSUME NEW w \in Workers, Shutdown(w) \/ Exit(w) \/ Crash(w) \/ Start(w)
      PROVE  lease' = lease
  BY <1>3 DEF Shutdown, Exit, Crash, Start, row
<1>4. ASSUME NEW q \in Runs, Enqueue(q) \/ RequestCancel(q) \/ Tick(q)
      PROVE  lease'[r] \in {lease[r], "valid"}
  BY <1>4 DEF Enqueue, RequestCancel, Tick
<1>5. ASSUME NEW q \in Runs, LeaseExpires(q)
      PROVE  pc' = pc /\ (lease'[r] = lease[r] \/ pc[r] \in {"off", "cleaning"})
  BY <1>5 DEF LeaseExpires, RenewalsEnded, exec
<1>6. ASSUME NEW w \in Workers, NEW q \in Runs, ClaimRun(w, q)
      PROVE  lease'[r] \in {lease[r], "valid"}
  BY <1>6 DEF ClaimRun
<1>7. ASSUME NEW id \in VMIDs, OperatorCleanup(id) PROVE lease' = lease
  BY <1>7 DEF OperatorCleanup, row
<1>8. CASE UNCHANGED vars
  BY <1>8 DEF vars, row
<1> QED BY <1>1, <1>2, <1>3, <1>4, <1>5, <1>6, <1>7, <1>8 DEF Next

LEMMA LateStep ==
  ASSUME "freeze" \notin Faults, TypeInv, LateInv, [Next]_vars
  PROVE  LateInv'
<1> USE DEF LateInv
<1>1. ClaimedIsKnown'
  BY ClaimedIsKnownStep
<1>2. ExpiredIsLate'
  <2>1. SUFFICES ASSUME NEW r \in Runs, lease'[r] = "expired" PROVE pc'[r] \in PastGrade
    BY DEF ExpiredIsLate
  <2>2. CASE lease[r] = "expired"
    BY <2>2, LateStays DEF ExpiredIsLate, ClaimedIsKnown
  <2>3. CASE lease[r] # "expired"
    BY <2>1, <2>3, ExpiryStep DEF PastGrade
  <2> QED BY <2>2, <2>3
<1>3. SweepsAreLate'
  <2>1. SUFFICES ASSUME NEW x \in Workers, NEW r \in Runs,
                        r \in sweep'[x].todo \/ sweep'[x].run = r
                 PROVE  owner'[r] # None /\ pc'[r] \in PastGrade
    BY DEF SweepsAreLate
  <2>2. owner[r] # None /\ pc[r] \in PastGrade
    BY <2>1, InHandStep DEF StaleRuns, ExpiredIsLate, SweepsAreLate
  <2> QED BY <2>2, ClaimIsForEver, LateStays
<1>4. SettledIsLate'
  <2>1. SUFFICES ASSUME NEW r \in Runs, state'[r] \in Terminal
                 PROVE  pc'[r] \in PastGrade \cup {"failing"}
    BY DEF SettledIsLate
  <2>2. CASE state[r] \in Terminal
    BY <2>2, LateStays DEF SettledIsLate, PastGrade
  <2>3. CASE Fail(r) \/ Finish(r)
    BY <2>3 DEF Fail, Finish, PastGrade, TypeInv, TypeOK
  <2>4. CASE owner[r] = None /\ pc' = pc
    BY <2>4 DEF ClaimedIsKnown, PastGrade
  <2>5. ASSUME NEW w \in Workers, SweepSettle(w), sweep[w].run = r
        PROVE  pc'[r] \in PastGrade
    BY <2>5 DEF SweepSettle, exec, SweepsAreLate
  <2> QED BY <2>1, <2>2, <2>3, <2>4, <2>5, ProgressStep
<1> QED BY <1>1, <1>2, <1>3, <1>4

LEMMA DrillsAnnounceStep ==
  ASSUME "lostreply" \notin Faults, "store" \notin Faults, TypeInv, OrphanInv, [Next]_vars
  PROVE  DrillsAnnounce'
<1>0. SUFFICES ASSUME NEW r \in Runs, Leaves(r)'
               PROVE  /\ pc'[r] \notin {"claimed", "starting", "failing", "discover", "reserved"}
                      /\ pc'[r] = "finish" => Announced(r, grade'[r])
                      /\ state'[r] \in Terminal => Announced(r, state'[r])
  BY DEF DrillsAnnounce, Announced, Keeps
<1> USE DEF TypeInv, TypeOK
<1>1. Leaves(r) \/ Restore(r)
  BY <1>0, LeavesStep
<1>2. owner[r] # None
  <2>1. CASE Leaves(r)
    BY <2>1, UnclaimedLeavesNothing DEF OrphanInv, RecordInv, RecordKept
  <2>2. CASE Restore(r)
    BY <2>2 DEF Restore, OrphanInv, LateInv, ClaimedIsKnown
  <2> QED BY <1>1, <2>1, <2>2
<1>3. ASSUME pc[r] \in {"claimed", "starting", "failing", "discover", "reserved"}
      PROVE  Restore(r)
  BY <1>1, <1>3 DEF OrphanInv, DrillsAnnounce
<1>4. pc'[r] \notin {"claimed", "starting", "failing", "discover", "reserved"}
  BY <1>2, <1>3, ProgressStep DEF Restore
<1>5. ASSUME pc'[r] = "finish" PROVE Announced(r, grade'[r])
  <2>1. CASE pc[r] = "finish" /\ grade'[r] = grade[r]
    BY <1>1, <2>1 DEF OrphanInv, DrillsAnnounce, Restore
  <2>2. CASE AbortEarly(r)
    BY <1>3, <2>2 DEF AbortEarly, Restore
  <2>3. CASE GradeDrill(r)
    BY <1>5, <2>3 DEF GradeDrill, Announced
  <2>4. CASE CleanupDrill(r)
    <3>1. tmp[r] = temp[r]
      BY <2>4 DEF CleanupDrill, OrphanInv, RecordInv, RecordKept
    <3>2. PICK d \in DeleteOutcomes(temp[r]) :
            vm' = d[1] /\ grade' = IF d[2] = "ok" THEN grade ELSE [grade EXCEPT ![r] = "CLEANUP_FAILED"]
      BY <2>4, <3>1 DEF CleanupDrill
    <3>3. d[2] # "ok"
      BY <1>0, <3>2, DeletedLeavesNothing DEF Leaves, OrphanInv, RecordInv
    <3> QED BY <3>2, <3>3 DEF Announced
  <2> QED BY <1>5, <2>1, <2>2, <2>3, <2>4, ProgressStep
<1>6. ASSUME state'[r] \in Terminal PROVE Announced(r, state'[r])
  <2>1. CASE state[r] \in Terminal /\ state'[r] = state[r]
    <3>1. ~Restore(r)
      BY <2>1 DEF Restore, OrphanInv, LateInv, SettledIsLate, PastGrade
    <3> QED BY <1>1, <2>1, <3>1 DEF OrphanInv, DrillsAnnounce
  <2>2. CASE Fail(r)
    BY <1>4, <2>2 DEF Fail
  <2>3. CASE Finish(r)
    <3>1. state'[r] = grade[r] /\ pc[r] = "finish"
      BY <2>3 DEF Finish, UpdateRun
    <3> QED BY <1>1, <3>1 DEF OrphanInv, DrillsAnnounce, Restore
  <2>4. ASSUME NEW w \in Workers, SweepSettle(w), sweep[w].run = r, state'[r] = sweep[w].verdict
        PROVE  Announced(r, state'[r])
    <3>1. pc[r] \in PastGrade
      BY <2>4 DEF OrphanInv, LateInv, SweepsAreLate
    <3>2. Leaves(r)
      BY <1>1, <3>1 DEF Restore, PastGrade
    <3>3. sweep[w].verdict # "FAILED"
      BY <2>4, <3>2 DEF SweepSettle, OrphanInv, SweepsAnnounce
    <3>4. sweep[w].verdict = "CLEANUP_FAILED"
      BY <2>4, <3>3 DEF SweepSettle, VerdictsKnown, SweepTypes
    <3> QED BY <2>4, <3>4 DEF Announced
  <2> QED BY <1>2, <1>6, <2>1, <2>2, <2>3, <2>4, ProgressStep
<1> QED BY <1>4, <1>5, <1>6

\* Only its own worker moves a sweep, and a crash ends it.
LEMMA SweepOwner ==
  ASSUME TypeInv, [Next]_vars, NEW x \in Workers
  PROVE  sweep'[x] = sweep[x] \/ sweep'[x] = IdleSweep \/ Reconcile(x)
<1> USE DEF TypeInv, TypeOK
<1>1. ASSUME NEW w \in Workers, Reconcile(w), w # x PROVE sweep'[x] = sweep[x]
  BY <1>1 DEF Reconcile, SweepScan, SweepNext, SweepDone, SweepClean, SweepSettle,
     SweepNote, SweepRelease
<1>2. ASSUME NEW w \in Workers, Shutdown(w) \/ Exit(w) \/ Crash(w) \/ Start(w)
      PROVE  sweep'[x] = sweep[x] \/ sweep'[x] = IdleSweep
  BY <1>2 DEF Shutdown, Exit, Crash, Start
<1>3. ASSUME NEW q \in Runs, Execute(q) PROVE sweep' = sweep
  BY <1>3 DEF Execute, MarkInFlight, Fail, FailRelease, EngineBegin, Reserve, Restore,
     AbortEarly, GradeDrill, CleanupDrill, Finish, Release
<1>4. ASSUME NEW q \in Runs, Enqueue(q) \/ RequestCancel(q) \/ Tick(q) \/ LeaseExpires(q)
      PROVE  sweep' = sweep
  BY <1>4 DEF Enqueue, RequestCancel, Tick, LeaseExpires
<1>5. ASSUME NEW w \in Workers, NEW q \in Runs, ClaimRun(w, q) PROVE sweep' = sweep
  BY <1>5 DEF ClaimRun
<1>6. ASSUME NEW id \in VMIDs, OperatorCleanup(id) PROVE sweep' = sweep
  BY <1>6 DEF OperatorCleanup
<1>7. CASE UNCHANGED vars
  BY <1>7 DEF vars
<1> QED BY <1>1, <1>2, <1>3, <1>4, <1>5, <1>6, <1>7 DEF Next

\* Who moves a sweep that holds a run, and what it keeps in hand.
LEMMA SweepMover ==
  ASSUME TypeInv, [Next]_vars, NEW x \in Workers, sweep'[x].at \notin {"idle", "loop"}
  PROVE  \/ sweep'[x] = sweep[x]
         \/ SweepNext(x) \/ SweepClean(x) \/ SweepSettle(x) \/ SweepNote(x)
<1>1. ~(SweepScan(x) \/ SweepDone(x) \/ SweepRelease(x))
  BY SweepTurns
<1>2. IdleSweep.at = "idle"
  BY DEF IdleSweep
<1> QED BY <1>1, <1>2, SweepOwner DEF Reconcile

LEMMA SweepKeepsRun ==
  ASSUME TypeInv, NEW x \in Workers, SweepClean(x) \/ SweepSettle(x) \/ SweepNote(x)
  PROVE  /\ sweep'[x].run = sweep[x].run /\ sweep'[x].todo = sweep[x].todo
         /\ sweep'[x].target = sweep[x].target /\ sweep[x].run \in Runs
         /\ SweepClean(x) => sweep'[x].at = "settle"
         /\ ~SweepClean(x) => /\ sweep'[x].verdict = sweep[x].verdict
                              /\ sweep'[x].note = sweep[x].note
         /\ SweepSettle(x) => sweep'[x].at = "note" /\ sweep[x].at = "settle"
         /\ SweepNote(x) => sweep'[x].at = "release" /\ sweep[x].at = "note"
<1> USE DEF TypeInv, TypeOK
<1>0. sweep[x] \in SweepTypes
  OBVIOUS
<1>1. sweep[x].run \in Runs
  BY DEF SweepClean, SweepSettle, SweepNote, VerdictsKnown
<1>2. CASE SweepClean(x)
  <2>1. PICK v, n : sweep' = [sweep EXCEPT ![x].at = "settle", ![x].verdict = v, ![x].note = n]
    BY <1>2 DEF SweepClean
  <2>2. sweep[x].at = "clean"
    BY <1>2 DEF SweepClean
  <2> QED BY <1>0, <1>1, <1>2, <2>1, <2>2 DEF SweepTypes, SweepSettle, SweepNote
<1>3. CASE SweepSettle(x)
  BY <1>0, <1>1, <1>3 DEF SweepTypes, SweepSettle, SweepNote, SweepClean
<1>4. CASE SweepNote(x)
  BY <1>0, <1>1, <1>4 DEF SweepTypes, SweepSettle, SweepNote, SweepClean
<1> QED BY <1>2, <1>3, <1>4

\* A sweep settles for FAILED only when the row named nothing, or when the
\* workload it named was removed before its eyes.
LEMMA VerdictIsSeen ==
  ASSUME "lostreply" \notin Faults, "provider" \notin Faults, TypeInv, OrphanInv,
         NEW x \in Workers, SweepClean(x), sweep'[x].verdict = "FAILED",
         NEW r \in Runs, r = sweep[x].run
  PROVE  \A i \in VMIDs : vm'[i] # r
<1> USE DEF TypeInv, TypeOK
<1>0. sweep[x] \in SweepTypes /\ sweep[x].target = temp[r]
  BY DEF SweepClean, OrphanInv, SweepsAnnounce
<1>1. CASE temp[r] = None
  <2>1. vm' = vm
    BY <1>0, <1>1 DEF SweepClean
  <2>2. ~Leaves(r)
    BY <1>1, UnclaimedLeavesNothing DEF OrphanInv
  <2> QED BY <2>1, <2>2 DEF Leaves
<1>2. CASE temp[r] # None
  <2>1. PICK d \in DeleteOutcomes(temp[r]) :
          /\ vm' = d[1]
          /\ d[2] # "ok" => sweep' = [sweep EXCEPT ![x].at = "settle",
                                        ![x].verdict = "CLEANUP_FAILED", ![x].note = "orphaned"]
    BY <1>0, <1>2 DEF SweepClean
  <2>2. d[2] = "ok"
    <3>1. SUFFICES ASSUME d[2] # "ok" PROVE sweep'[x].verdict = "CLEANUP_FAILED"
      OBVIOUS
    <3> QED BY <2>1, <3>1, <1>0 DEF SweepTypes
  <2> QED BY <2>1, <2>2, DeletedLeavesNothing DEF OrphanInv, RecordInv
<1> QED BY <1>1, <1>2

LEMMA SweepsAnnounceStep ==
  ASSUME "lostreply" \notin Faults, "provider" \notin Faults, TypeInv, OrphanInv, [Next]_vars
  PROVE  SweepsAnnounce'
<1> USE DEF TypeInv, TypeOK
<1>0. SUFFICES ASSUME NEW x \in Workers, sweep'[x].at \notin {"idle", "loop"}
               PROVE  /\ sweep'[x].target = temp'[sweep'[x].run]
                      /\ sweep'[x].at = "settle" /\ sweep'[x].verdict = "FAILED" =>
                           \A i \in VMIDs : vm'[i] # sweep'[x].run
  BY DEF SweepsAnnounce, Leaves
<1>1. CASE sweep'[x] = sweep[x]
  <2>1. PICK r \in Runs : r = sweep[x].run
    BY <1>0, <1>1 DEF VerdictsKnown
  <2>2. pc[r] \in PastGrade /\ ~Restore(r)
    BY <2>1 DEF OrphanInv, LateInv, SweepsAreLate, Restore, PastGrade
  <2>3. temp'[r] = temp[r]
    BY <2>2, RecordIsStill DEF OrphanInv, RecordInv
  <2>4. ~Leaves(r) => \A i \in VMIDs : vm'[i] # r
    BY <2>2, LeavesStep DEF Leaves
  <2> QED BY <1>0, <1>1, <2>1, <2>3, <2>4 DEF OrphanInv, SweepsAnnounce
<1>2. CASE SweepNext(x)
  <2>1. temp' = temp
    BY <1>2 DEF SweepNext, row
  <2> QED BY <1>0, <1>2, <2>1, SweepReads
<1>3. CASE SweepClean(x) \/ SweepSettle(x) \/ SweepNote(x)
  <2>1. temp' = temp /\ sweep[x].at \notin {"idle", "loop"}
    BY <1>3 DEF SweepClean, SweepSettle, SweepNote, row
  <2>2. sweep'[x].target = temp'[sweep'[x].run]
    BY <1>3, <2>1, SweepKeepsRun DEF OrphanInv, SweepsAnnounce
  <2>3. ASSUME sweep'[x].at = "settle", sweep'[x].verdict = "FAILED"
        PROVE  \A i \in VMIDs : vm'[i] # sweep'[x].run
    <3>1. SweepClean(x)
      BY <1>3, <2>3, SweepKeepsRun
    <3>2. PICK r \in Runs : r = sweep[x].run /\ r = sweep'[x].run
      BY <3>1, SweepKeepsRun
    <3> QED BY <2>3, <3>1, <3>2, VerdictIsSeen
  <2> QED BY <2>2, <2>3
<1> QED BY <1>0, <1>1, <1>2, <1>3, SweepMover

LEMMA InitOrphan == Init => OrphanInv
<1> SUFFICES ASSUME Init PROVE OrphanInv
  OBVIOUS
<1>1. IdleSweep.at = "idle"
  BY DEF IdleSweep
<1>2. DrillsAnnounce /\ SweepsAnnounce
  BY <1>1 DEF Init, DrillsAnnounce, SweepsAnnounce, Leaves
<1>3. LateInv
  BY InitSettled DEF LateInv, SettledInv, SettledMeansOver, ExpiredIsOver, SweepsAreOver,
     ExpiredIsLate, SweepsAreLate, SettledIsLate, PastGrade
<1> QED BY <1>2, <1>3, InitRecord DEF OrphanInv

\* Through crashes, shutdowns, operators and cancellations, a workload that
\* outlives its run is announced by the run's state or kept by its plan's
\* policy, as long as statements and calls answer - also when a cleanup takes
\* longer than the lease, and a sweep deletes the workload beside it.
THEOREM OrphansAreAnnounced ==
  ASSUME Faults \subseteq {"crash", "operator", "slowcleanup"}
  PROVE  Spec => []NoSilentOrphan
<1>1. TypeInv /\ OrphanInv /\ [Next]_vars => OrphanInv'
  BY LateStep, RecordStep, DrillsAnnounceStep, SweepsAnnounceStep DEF OrphanInv
<1>2. OrphanInv => NoSilentOrphan
  BY DEF OrphanInv, DrillsAnnounce, NoSilentOrphan, Leaves, Announced
<1> QED BY <1>1, <1>2, InitType, InitOrphan, TypeStep, PTL DEF Spec

-----------------------------------------------------------------------------
(* The message beside the state.                                           *)

\* A run is swept after one process was lost, and a sweep is stopped or killed
\* between its statements by the loss of a second one.
OutagesExplain ==
  /\ \A r \in Runs : lease[r] # "null" /\ pc[r] = "off" => outages > 0
  /\ \A w \in Workers : sweep[w].at # "idle" =>
       outages > 0 /\ (up[w] # "running" => outages > 1)

\* A sweep about to write its message knows what it found: it says orphaned, or
\* the workload is gone.
SweepsSay ==
  \A w \in Workers :
    /\ sweep[w].at \in {"settle", "note"} =>
         sweep[w].verdict = "FAILED" \/ sweep[w].note = "orphaned"
    /\ sweep[w].at = "note" /\ sweep[w].verdict = "FAILED" => ~Leaves(sweep[w].run)

MessagesFollow == \A r \in Runs : err[r] # None => state[r] \in Terminal

MessageInv ==
  /\ SettledInv /\ ReleasedIsSettled /\ OrphanInv
  /\ OutagesExplain /\ SweepsSay /\ MessagesFollow /\ LeftoverIsNamed

\* Who writes a message.
LEMMA MessageStep ==
  ASSUME TypeInv, [Next]_vars, NEW r \in Runs
  PROVE  \/ err'[r] = err[r]
         \/ Finish(r) /\ state'[r] = grade[r] /\ err'[r] = ErrOf(grade[r])
         \/ \E w \in Workers : /\ SweepNote(w) /\ up[w] = "running"
                               /\ sweep[w].run = r /\ err'[r] = sweep[w].note
<1> USE DEF TypeInv, TypeOK
<1>1. ASSUME NEW q \in Runs, Execute(q)
      PROVE  err'[r] = err[r] \/ (Finish(r) /\ state'[r] = grade[r] /\ err'[r] = ErrOf(grade[r]))
  <2>1. CASE Finish(q)
    <3>1. err' = err \/ (q = r /\ state'[r] = grade[r] /\ err'[r] = ErrOf(grade[r]))
            \/ err'[r] = err[r]
      BY <2>1 DEF Finish, UpdateRun
    <3> QED BY <2>1, <3>1
  <2> QED
    BY <1>1, <2>1 DEF Execute, MarkInFlight, Fail, FailRelease, EngineBegin, Reserve, Restore,
       AbortEarly, GradeDrill, CleanupDrill, Release, row
<1>2. ASSUME NEW w \in Workers, Reconcile(w)
      PROVE  \/ err'[r] = err[r]
             \/ /\ SweepNote(w) /\ up[w] = "running"
                /\ sweep[w].run = r /\ err'[r] = sweep[w].note
  <2>1. CASE SweepNote(w)
    <3>1. err' = err \/ (up[w] = "running" /\ err' = [err EXCEPT ![sweep[w].run] = sweep[w].note])
      BY <2>1 DEF SweepNote, SweptWrite, Written
    <3> QED BY <2>1, <3>1
  <2> QED
    BY <1>2, <2>1 DEF Reconcile, SweepScan, SweepNext, SweepDone, SweepClean, SweepSettle,
       SweepRelease, row
<1>3. ASSUME NEW w \in Workers, Shutdown(w) \/ Exit(w) \/ Crash(w) \/ Start(w)
      PROVE  err' = err
  BY <1>3 DEF Shutdown, Exit, Crash, Start, row
<1>4. ASSUME NEW q \in Runs, Enqueue(q) \/ RequestCancel(q) \/ Tick(q) \/ LeaseExpires(q)
      PROVE  err' = err
  BY <1>4 DEF Enqueue, RequestCancel, Tick, LeaseExpires
<1>5. ASSUME NEW w \in Workers, NEW q \in Runs, ClaimRun(w, q) PROVE err' = err
  BY <1>5 DEF ClaimRun
<1>6. ASSUME NEW id \in VMIDs, OperatorCleanup(id) PROVE err' = err
  BY <1>6 DEF OperatorCleanup, row
<1>7. CASE UNCHANGED vars
  BY <1>7 DEF vars, row
<1> QED BY <1>1, <1>2, <1>3, <1>4, <1>5, <1>6, <1>7 DEF Next

\* What the loss of a process does to the count, to the process and its sweep.
LEMMA OutageStep ==
  ASSUME TypeInv, [Next]_vars
  PROVE  /\ outages' = outages \/ outages' = outages + 1
         /\ \A x \in Workers :
              /\ up'[x] # "running" => up[x] # "running" \/ outages' = outages + 1
              /\ sweep'[x] # sweep[x] =>
                   \/ Reconcile(x)
                   \/ sweep'[x] = IdleSweep /\ outages' = outages + 1
<1> USE DEF TypeInv, TypeOK
<1> DEFINE Still == up' = up /\ outages' = outages
<1>1. ASSUME NEW q \in Runs, Execute(q) PROVE Still /\ sweep' = sweep
  BY <1>1 DEF Execute, MarkInFlight, Fail, FailRelease, EngineBegin, Reserve, Restore,
     AbortEarly, GradeDrill, CleanupDrill, Finish, Release, proc
<1>2. ASSUME NEW w \in Workers, Reconcile(w)
      PROVE  Still /\ \A x \in Workers : sweep'[x] = sweep[x] \/ w = x
  BY <1>2 DEF Reconcile, SweepScan, SweepNext, SweepDone, SweepClean, SweepSettle,
     SweepNote, SweepRelease, proc
<1>3. ASSUME NEW w \in Workers, Crash(w)
      PROVE  /\ outages' = outages + 1 /\ up' = [up EXCEPT ![w] = "down"]
             /\ sweep' = [sweep EXCEPT ![w] = IdleSweep]
  BY <1>3 DEF Crash
<1>4. ASSUME NEW w \in Workers, Shutdown(w)
      PROVE  outages' = outages + 1 /\ up' = [up EXCEPT ![w] = "stopping"] /\ sweep' = sweep
  BY <1>4 DEF Shutdown
<1>5. ASSUME NEW w \in Workers, Exit(w) \/ Start(w)
      PROVE  /\ outages' = outages /\ sweep' = sweep
             /\ \A x \in Workers : up'[x] # "running" => up[x] # "running"
  BY <1>5 DEF Exit, Start
<1>6. ASSUME NEW q \in Runs, Enqueue(q) \/ RequestCancel(q) \/ Tick(q) \/ LeaseExpires(q)
      PROVE  Still /\ sweep' = sweep
  BY <1>6 DEF Enqueue, RequestCancel, Tick, LeaseExpires, proc
<1>7. ASSUME NEW w \in Workers, NEW q \in Runs, ClaimRun(w, q) PROVE Still /\ sweep' = sweep
  BY <1>7 DEF ClaimRun, proc
<1>8. ASSUME NEW id \in VMIDs, OperatorCleanup(id) PROVE Still /\ sweep' = sweep
  BY <1>8 DEF OperatorCleanup, proc
<1>9. CASE UNCHANGED vars
  BY <1>9 DEF vars, proc
<1> QED BY <1>1, <1>2, <1>3, <1>4, <1>5, <1>6, <1>7, <1>8, <1>9 DEF Next

\* A drill whose goroutine vanished before it gave its lease back was lost with
\* its process.
LEMMA LostStep ==
  ASSUME "store" \notin Faults, "lostreply" \notin Faults, TypeInv, ClaimedIsKnown,
         OutagesExplain, [Next]_vars, NEW r \in Runs, lease'[r] # "null", pc'[r] = "off"
  PROVE  outages' > 0
<1> USE DEF TypeInv, TypeOK
<1>0. outages \in Nat /\ (lease[r] # "null" /\ pc[r] = "off" => outages > 0)
  BY OutagesAssumption DEF OutagesExplain
<1>1. ASSUME NEW q \in Runs, Execute(q) PROVE lease[r] # "null" /\ pc[r] = "off"
  <2>1. CASE FailRelease(q) \/ Release(q)
    BY <2>1 DEF FailRelease, Release, Written, FinishLease
  <2> QED
    BY <1>1, <2>1 DEF Execute, MarkInFlight, Fail, EngineBegin, Reserve, Restore,
       AbortEarly, GradeDrill, CleanupDrill, Finish, row
<1>2. ASSUME NEW w \in Workers, Reconcile(w) PROVE lease[r] # "null" /\ pc[r] = "off"
  BY <1>2 DEF Reconcile, SweepScan, SweepNext, SweepDone, SweepClean, SweepSettle,
     SweepNote, SweepRelease, SweptWrite, FinishLease, Written, row, exec
<1>3. ASSUME NEW w \in Workers, Shutdown(w) \/ Crash(w) PROVE outages' > 0
  BY <1>0, <1>3 DEF Shutdown, Crash
<1>4. ASSUME NEW w \in Workers, Exit(w) \/ Start(w) PROVE lease[r] # "null" /\ pc[r] = "off"
  BY <1>4 DEF Exit, Start, row, exec
<1>5. ASSUME NEW q \in Runs, Enqueue(q) \/ RequestCancel(q) \/ Tick(q) \/ LeaseExpires(q)
      PROVE  lease[r] # "null" /\ pc[r] = "off"
  BY <1>5 DEF Enqueue, RequestCancel, Tick, LeaseExpires, Holding, exec
<1>6. ASSUME NEW w \in Workers, NEW q \in Runs, ClaimRun(w, q)
      PROVE  lease[r] # "null" /\ pc[r] = "off"
  BY <1>6 DEF ClaimRun
<1>7. ASSUME NEW id \in VMIDs, OperatorCleanup(id) PROVE lease[r] # "null" /\ pc[r] = "off"
  BY <1>7 DEF OperatorCleanup, row, exec
<1>8. ASSUME UNCHANGED vars PROVE lease[r] # "null" /\ pc[r] = "off"
  BY <1>8 DEF vars, row, exec
<1>9. lease[r] # "null" /\ pc[r] = "off" => outages' > 0
  BY <1>0, OutageStep
<1> QED BY <1>1, <1>2, <1>3, <1>4, <1>5, <1>6, <1>7, <1>8, <1>9 DEF Next

LEMMA OutagesExplainStep ==
  ASSUME "store" \notin Faults, "lostreply" \notin Faults, TypeInv, SettledInv,
         ReleasedIsSettled, OutagesExplain, [Next]_vars
  PROVE  OutagesExplain'
<1> USE DEF TypeInv, TypeOK
<1>0. outages \in Nat
  BY OutagesAssumption
<1>1. SUFFICES ASSUME NEW x \in Workers, sweep'[x].at # "idle"
               PROVE  outages' > 0 /\ (up'[x] # "running" => outages' > 1)
  BY LostStep DEF OutagesExplain, SettledInv
<1>2. IdleSweep.at = "idle"
  BY DEF IdleSweep
<1>3. CASE sweep[x].at # "idle"
  <2>1. outages > 0 /\ (up[x] # "running" => outages > 1)
    BY <1>3 DEF OutagesExplain
  <2> QED BY <1>0, <2>1, OutageStep
<1>4. CASE sweep[x].at = "idle"
  <2>1. SweepScan(x)
    BY <1>1, <1>2, <1>4, OutageStep DEF Reconcile, SweepNext, SweepDone, SweepClean,
       SweepSettle, SweepNote, SweepRelease
  <2>2. PICK r \in Runs : lease[r] = "expired"
    BY <2>1 DEF SweepScan, StaleRuns
  <2>3. outages > 0
    BY <2>2 DEF OutagesExplain, SettledInv, ExpiredIsOver
  <2> QED BY <2>1, <2>3 DEF SweepScan, proc
<1> QED BY <1>3, <1>4

\* What a sweep found stays true until it has said so.
LEMMA SweepsSayStep ==
  ASSUME "lostreply" \notin Faults, "provider" \notin Faults, TypeInv, OrphanInv, SweepsSay,
         [Next]_vars
  PROVE  SweepsSay'
<1> USE DEF TypeInv, TypeOK
<1>0. SUFFICES ASSUME NEW x \in Workers, sweep'[x].at \in {"settle", "note"}
               PROVE  /\ sweep'[x].verdict = "FAILED" \/ sweep'[x].note = "orphaned"
                      /\ sweep'[x].at = "note" /\ sweep'[x].verdict = "FAILED" =>
                           \A i \in VMIDs : vm'[i] # sweep'[x].run
  BY DEF SweepsSay, Leaves
<1>1. CASE sweep'[x] = sweep[x]
  <2>1. PICK r \in Runs : r = sweep[x].run
    BY <1>0, <1>1 DEF VerdictsKnown
  <2>2. pc[r] \in PastGrade /\ ~Restore(r)
    BY <2>1 DEF OrphanInv, LateInv, SweepsAreLate, Restore, PastGrade
  <2>3. ~Leaves(r) => \A i \in VMIDs : vm'[i] # r
    BY <2>2, LeavesStep DEF Leaves
  <2> QED BY <1>0, <1>1, <2>1, <2>3 DEF SweepsSay
<1>2. CASE SweepClean(x)
  <2>1. \/ sweep' = [sweep EXCEPT ![x].at = "settle", ![x].verdict = "FAILED",
                                  ![x].note = "interrupted"]
        \/ sweep' = [sweep EXCEPT ![x].at = "settle", ![x].verdict = "FAILED",
                                  ![x].note = "unreached"]
        \/ sweep' = [sweep EXCEPT ![x].at = "settle", ![x].verdict = "CLEANUP_FAILED",
                                  ![x].note = "orphaned"]
    BY <1>2 DEF SweepClean
  <2>2. sweep[x] \in SweepTypes
    OBVIOUS
  <2> QED BY <1>2, <2>1, <2>2, SweepKeepsRun DEF SweepTypes
<1>3. CASE SweepSettle(x)
  <2>1. vm' = vm
    BY <1>3 DEF SweepSettle
  <2>2. sweep[x].verdict = "FAILED" => ~Leaves(sweep[x].run)
    BY <1>3, SweepKeepsRun DEF OrphanInv, SweepsAnnounce
  <2>3. sweep[x].verdict = "FAILED" \/ sweep[x].note = "orphaned"
    BY <1>3, SweepKeepsRun DEF SweepsSay
  <2> QED BY <1>3, <2>1, <2>2, <2>3, SweepKeepsRun DEF Leaves
<1>4. CASE SweepNext(x) \/ SweepNote(x)
  BY <1>0, <1>4, SweepReads, SweepKeepsRun
<1> QED BY <1>0, <1>1, <1>2, <1>3, <1>4, SweepMover

LEMMA MessagesFollowStep ==
  ASSUME TypeInv, ReleasedIsSettled, MessagesFollow, [Next]_vars
  PROVE  MessagesFollow'
<1>0. SUFFICES ASSUME NEW r \in Runs, err'[r] # None PROVE state'[r] \in Terminal
  BY DEF MessagesFollow
<1>1. CASE err'[r] = err[r]
  BY <1>0, <1>1, FinalStays DEF MessagesFollow
<1>2. CASE Finish(r) /\ state'[r] = grade[r]
  BY <1>2 DEF Finish, TypeInv, VerdictsKnown, TypeOK, Terminal
<1>3. ASSUME NEW w \in Workers, SweepNote(w), up[w] = "running", sweep[w].run = r
      PROVE  state'[r] \in Terminal
  BY <1>3, FinalStays DEF SweepNote, ReleasedIsSettled
<1> QED BY <1>1, <1>2, <1>3, MessageStep

\* A run that just became CLEANUP_FAILED says so, or its sweep is about to.
LEMMA AnnouncementStep ==
  ASSUME "store" \notin Faults, TypeInv, MessageInv, [Next]_vars, NEW r \in Runs, Leaves(r),
         state'[r] = "CLEANUP_FAILED", state[r] # "CLEANUP_FAILED"
  PROVE  \/ err'[r] = "orphaned"
         \/ /\ err'[r] = None
            /\ \E w \in Workers : sweep'[w].at = "note" /\ sweep'[w].run = r
<1> USE DEF TypeInv, TypeOK
<1>1. state[r] \notin Terminal
  BY StateStep DEF MessageInv, Terminal
<1>2. CASE Fail(r)
  BY <1>2 DEF Fail, SetState, Written, Terminal
<1>3. CASE Finish(r)
  BY <1>3 DEF Finish, UpdateRun, ErrOf
<1>4. CASE owner[r] = None
  BY <1>4, UnclaimedLeavesNothing DEF MessageInv, OrphanInv, RecordInv, RecordKept
<1>5. ASSUME NEW w \in Workers, SweepSettle(w), sweep[w].run = r
      PROVE  err'[r] = None /\ sweep'[w].at = "note" /\ sweep'[w].run = r
  BY <1>1, <1>5, SweepKeepsRun DEF SweepSettle, MessageInv, MessagesFollow
<1> QED BY <1>1, <1>2, <1>3, <1>4, <1>5, ProgressStep DEF Terminal

LEMMA LeftoverStep ==
  ASSUME "lostreply" \notin Faults, "store" \notin Faults, TypeInv, MessageInv, [Next]_vars
  PROVE  LeftoverIsNamed'
<1> USE DEF TypeInv, TypeOK
<1>0. SUFFICES ASSUME NEW id \in VMIDs, NEW r \in Runs, vm'[id] = r,
                      state'[r] = "CLEANUP_FAILED"
               PROVE  \/ err'[r] = "orphaned"
                      \/ /\ err'[r] = None
                         /\ \/ \E w \in Workers : sweep'[w].at = "note" /\ sweep'[w].run = r
                            \/ outages' > 1
  BY DEF LeftoverIsNamed
<1>1. Leaves(r)'
  BY <1>0 DEF Leaves
<1>2. Leaves(r)
  <2>1. Restore(r) => state' = state /\ pc[r] = "reserved"
    BY DEF Restore, row
  <2>2. ~Restore(r)
    BY <1>0, <2>1 DEF MessageInv, SettledInv, SettledMeansOver, Terminal
  <2> QED BY <1>1, <2>2, LeavesStep
<1>3. CASE state[r] # "CLEANUP_FAILED"
  BY <1>0, <1>2, <1>3, AnnouncementStep
<1>4. CASE state[r] = "CLEANUP_FAILED" /\ err'[r] = err[r]
  <2>1. CASE err[r] = "orphaned"
    BY <1>4, <2>1
  <2>2. CASE err[r] = None /\ outages > 1
    <3>1. outages \in Nat
      BY OutagesAssumption
    <3>2. outages' > 1
      BY <2>2, <3>1, OutageStep
    <3> QED BY <1>4, <2>2, <3>2
  <2>3. ASSUME NEW w \in Workers, err[r] = None, sweep[w].at = "note", sweep[w].run = r
        PROVE  (sweep'[w].at = "note" /\ sweep'[w].run = r) \/ outages' > 1
    <3>0. outages \in Nat /\ outages > 0 /\ (up[w] # "running" => outages > 1)
      BY <2>3, OutagesAssumption DEF MessageInv, OutagesExplain
    <3>1. CASE sweep'[w] = sweep[w]
      BY <2>3, <3>1
    <3>2. CASE outages' = outages + 1
      BY <3>0, <3>2
    <3>3. CASE Reconcile(w)
      <4>1. SweepNote(w)
        BY <2>3, <3>3 DEF Reconcile, SweepScan, SweepNext, SweepDone, SweepClean, SweepSettle,
           SweepRelease
      <4>2. CASE up[w] # "running"
        BY <3>0, <4>1, <4>2 DEF SweepNote, proc
      <4>3. CASE up[w] = "running"
        <5>1. err' = [err EXCEPT ![r] = sweep[w].note]
          BY <2>3, <4>1, <4>3 DEF SweepNote, SweptWrite, Written
        <5>2. sweep[w].note = "orphaned"
          BY <1>2, <2>3 DEF MessageInv, SweepsSay
        <5>3. err'[r] = "orphaned"
          BY <5>1, <5>2
        <5> QED BY <1>4, <2>3, <5>3, NoneAssumption DEF Messages
      <4> QED BY <4>2, <4>3
    <3> QED BY <3>1, <3>2, <3>3, OutageStep
  <2>4. \/ err[r] = "orphaned"
        \/ /\ err[r] = None
           /\ (\E w \in Workers : sweep[w].at = "note" /\ sweep[w].run = r) \/ outages > 1
    BY <1>2, <1>4 DEF Leaves, MessageInv, LeftoverIsNamed
  <2> QED BY <1>4, <2>1, <2>2, <2>3, <2>4
<1>5. CASE state[r] = "CLEANUP_FAILED" /\ err'[r] # err[r]
  <2>1. ~Finish(r)
    BY <1>5 DEF Finish, MessageInv, SettledInv, SettledMeansOver, Terminal
  <2>2. PICK w \in Workers : /\ SweepNote(w) /\ up[w] = "running"
                             /\ sweep[w].run = r /\ err'[r] = sweep[w].note
    BY <1>5, <2>1, MessageStep
  <2>3. sweep[w].note = "orphaned"
    BY <1>2, <2>2 DEF SweepNote, MessageInv, SweepsSay
  <2> QED BY <2>2, <2>3
<1> QED BY <1>3, <1>4, <1>5

LEMMA InitMessage == Init => MessageInv
<1> SUFFICES ASSUME Init PROVE MessageInv
  OBVIOUS
<1>1. IdleSweep.at = "idle"
  BY DEF IdleSweep
<1>2. OutagesExplain /\ SweepsSay /\ MessagesFollow
  BY <1>1 DEF Init, OutagesExplain, SweepsSay, MessagesFollow
<1>3. LeftoverIsNamed
  BY DEF Init, LeftoverIsNamed
<1> QED BY <1>2, <1>3, InitSettled, InitRelease, InitOrphan DEF MessageInv

\* With any number of workers and sweeps, a workload still standing under a
\* CLEANUP_FAILED run is named by the run's message, also when one sweep settled
\* the state and another wrote over its message: no message denies it, and it is
\* absent only between two statements or after the loss of a second process.
THEOREM LeftoversAreNamed ==
  ASSUME Faults \subseteq {"crash", "operator"}
  PROVE  Spec => []LeftoverIsNamed
<1>1. TypeInv /\ MessageInv /\ [Next]_vars => MessageInv'
  <2> SUFFICES ASSUME TypeInv, MessageInv, [Next]_vars PROVE MessageInv'
    OBVIOUS
  <2>1. SettledInv'
    BY SettledStep DEF MessageInv
  <2>2. ReleasedIsSettled'
    BY ReleaseStep DEF MessageInv, SettledInv
  <2>3. OrphanInv'
    BY LateStep, RecordStep, DrillsAnnounceStep, SweepsAnnounceStep DEF MessageInv, OrphanInv
  <2>4. OutagesExplain' /\ SweepsSay' /\ MessagesFollow'
    BY OutagesExplainStep, SweepsSayStep, MessagesFollowStep DEF MessageInv
  <2>5. LeftoverIsNamed'
    BY LeftoverStep
  <2> QED BY <2>1, <2>2, <2>3, <2>4, <2>5 DEF MessageInv
<1> QED BY <1>1, InitType, InitMessage, TypeStep, PTL DEF Spec, MessageInv

=============================================================================
