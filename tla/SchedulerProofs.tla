-------------------------- MODULE SchedulerProofs --------------------------
(* Theorems about Scheduler, for any catalogue, number of schedulers and   *)
(* requests, limits and faults.                                            *)
EXTENDS Scheduler, FiniteSetTheorems, WellFoundedInduction, TLAPS

LEMMA TimesAreNaturals == Times \subseteq Nat
  BY CatalogueAssumption DEF Times

LEMMA FreshIsTick ==
  ASSUME NEW t \in Times PROVE Fresh(t) \in Ticks /\ Fresh(t).slot = None
                               /\ Fresh(t).at = "idle" /\ Fresh(t).started = t
  BY CatalogueAssumption DEF Fresh, Ticks, Plans

\* A tick that goes on with the next plan is a tick at rest or in its loop.
LEMMA NextPlanIsTick ==
  ASSUME NEW tick \in Ticks
  PROVE  NextPlan(tick) \in Ticks /\ NextPlan(tick).at \in {"idle", "loop"}
<1>1. tick.plan \in Nat /\ tick.started \in Times
  BY CatalogueAssumption DEF Ticks, Plans
<1>2. CASE tick.plan + 1 \in Page
  BY <1>1, <1>2 DEF NextPlan, Page, Ticks
<1>3. CASE tick.plan + 1 \notin Page
  BY <1>1, <1>3, FreshIsTick DEF NextPlan
<1> QED BY <1>2, <1>3

\* Decide answers with an instant of the schedule.
LEMMA DecideIsSlot ==
  ASSUME NEW p \in Plans, NEW last, NEW started, NEW t, NEW x \in Decide(p, last, started, t)
  PROVE  x \in Times
  BY CatalogueAssumption DEF Decide

-----------------------------------------------------------------------------
LEMMA DepthIsNatural ==
  ASSUME TypeOK, NEW s \in Schedulers PROVE Counted(s) \in Nat
<1>1. sch[s].depth \in Nat
  BY DEF TypeOK, Ticks
<1> QED BY <1>1 DEF Counted

\* The depth is a number because the table is finite.
TypeInv == TypeOK /\ IsFiniteSet(runs)

LEMMA QueueDepthIsNatural ==
  ASSUME TypeInv PROVE QueueDepth \in Nat
<1>1. IsFiniteSet(Active)
  BY FS_Subset DEF TypeInv, Active
<1>2. Cardinality(Active) \in Nat
  BY <1>1, FS_CardinalityType
<1> QED BY <1>2, LimitsAssumption DEF QueueDepth

\* What a claim writes, whoever makes it.
LEMMA ClaimSlotType ==
  ASSUME TypeInv, NEW s \in Schedulers, NEW p \in Plans, NEW t \in Times,
         NEW skip \in BOOLEAN, ClaimSlot(s, p, t, skip)
  PROVE  /\ slots' \in [Plans -> [Times -> {"none", "queued", "skipped"}]]
         /\ runs' \subseteq Rows /\ runs \subseteq runs' /\ IsFiniteSet(runs')
<1> DEFINE row == [plan |-> p, slot |-> t, by |-> s]
<1>1. row \in Rows
  BY DEF Rows
<1>2. runs' = runs \/ runs' = runs \cup {row}
  BY DEF ClaimSlot
<1>3. IsFiniteSet(runs \cup {row})
  BY FS_AddElement DEF TypeInv
<1>4. slots' \in [Plans -> [Times -> {"none", "queued", "skipped"}]]
  BY DEF ClaimSlot, TypeInv, TypeOK
<1> HIDE DEF row
<1> QED BY <1>1, <1>2, <1>3, <1>4 DEF TypeInv, TypeOK

LEMMA TypeInit == Init => TypeInv
<1> SUFFICES ASSUME Init PROVE TypeInv
  OBVIOUS
<1>1. 0 \in Times
  BY CatalogueAssumption DEF Times
<1>2. IsFiniteSet(runs)
  BY FS_EmptySet DEF Init
<1> QED BY <1>1, <1>2, FreshIsTick, LimitsAssumption DEF Init, TypeInv, TypeOK

\* The schedulers' part of TypeOK follows when one tick is replaced by another.
LEMMA TickUpdate ==
  ASSUME TypeOK, NEW s \in Schedulers, NEW tick \in Ticks,
         tick.at \in {"prepare", "claim"} => tick.slot # None,
         sch' = [sch EXCEPT ![s] = tick]
  PROVE  /\ sch' \in [Schedulers -> Ticks]
         /\ \A u \in Schedulers : sch'[u].at \in {"prepare", "claim"} => sch'[u].slot # None
  BY DEF TypeOK

LEMMA TypeTick ==
  ASSUME TypeInv, NEW s \in Schedulers, Tick(s) \/ Postpone(s) \/ Crash(s) \/ Start(s)
  PROVE  TypeInv'
<1>0. sch[s] \in Ticks /\ sch[s].started \in Times /\ now \in Times /\ 0 \in Times
  BY CatalogueAssumption DEF TypeInv, TypeOK, Ticks, Times
<1>1. CASE Tick(s)
  <2> DEFINE tick == [sch[s] EXCEPT !.at = "loop", !.depth = QueueDepth]
  <2>1. tick \in Ticks /\ tick.at = "loop"
    BY <1>0, QueueDepthIsNatural DEF Ticks
  <2>2. sch' = [sch EXCEPT ![s] = tick]
    BY <1>1 DEF Tick
  <2> HIDE DEF tick
  <2> QED BY <1>1, <2>1, <2>2, TickUpdate DEF Tick, TypeInv, TypeOK, tables
<1>2. CASE Postpone(s)
  <2>1. sch' = [sch EXCEPT ![s] = Fresh(sch[s].started)]
    BY <1>2 DEF Postpone
  <2> QED BY <1>2, <1>0, <2>1, FreshIsTick, TickUpdate DEF Postpone, TypeInv, TypeOK, tables
<1>3. CASE Crash(s)
  <2> DEFINE tick == [Fresh(0) EXCEPT !.at = "down"]
  <2>1. tick \in Ticks /\ tick.at = "down"
    BY <1>0, FreshIsTick DEF Ticks
  <2>2. sch' = [sch EXCEPT ![s] = tick]
    BY <1>3 DEF Crash
  <2> HIDE DEF tick
  <2>3. outages' \in 0 .. MaxOutages
    BY <1>3, LimitsAssumption DEF Crash, TypeInv, TypeOK
  <2> QED BY <1>3, <2>1, <2>2, <2>3, TickUpdate DEF Crash, TypeInv, TypeOK, tables
<1>4. CASE Start(s)
  <2>1. sch' = [sch EXCEPT ![s] = Fresh(now)]
    BY <1>4 DEF Start
  <2> QED BY <1>4, <1>0, <2>1, FreshIsTick, TickUpdate DEF Start, TypeInv, TypeOK, tables
<1> QED BY <1>1, <1>2, <1>3, <1>4

\* The three ways considerPlan's decision leaves the tick.
LEMMA ConsiderMoves ==
  ASSUME NEW s \in Schedulers, ConsiderPlan(s)
  PROVE  \/ sch' = [sch EXCEPT ![s].at = "claim", ![s].slot = now, ![s].skip = TRUE]
         \/ \E t \in Decide(sch[s].plan, LastSlot(sch[s].plan), sch[s].started, now) :
              sch' = [sch EXCEPT ![s].at = IF Late(t, now) THEN "claim" ELSE "prepare",
                                 ![s].slot = t, ![s].skip = Late(t, now)]
         \/ sch' = [sch EXCEPT ![s] = NextPlan(sch[s])]
  BY Zenon DEF ConsiderPlan

LEMMA TypeConsider ==
  ASSUME TypeInv, NEW s \in Schedulers, ConsiderPlan(s) PROVE TypeInv'
<1> DEFINE on == NextPlan(sch[s])
           at(x, t, k) == [sch[s] EXCEPT !.at = x, !.slot = t, !.skip = k]
           Moved == \E tick \in Ticks : /\ tick.at \in {"prepare", "claim"} => tick.slot # None
                                        /\ sch' = [sch EXCEPT ![s] = tick]
<1>0. sch[s] \in Ticks /\ sch[s].plan \in Plans /\ now \in Times /\ None \notin Times
  BY ActorsAssumption DEF TypeInv, TypeOK, Ticks
<1>1. on \in Ticks /\ on.at \in {"idle", "loop"}
  BY <1>0, NextPlanIsTick
<1>2. Moved
  <2>1. CASE sch' = [sch EXCEPT ![s].at = "claim", ![s].slot = now, ![s].skip = TRUE]
    <3>1. at("claim", now, TRUE) \in Ticks /\ at("claim", now, TRUE).slot # None
      BY <1>0 DEF Ticks
    <3>2. sch' = [sch EXCEPT ![s] = at("claim", now, TRUE)]
      BY <2>1
    <3> QED BY <3>1, <3>2
  <2>2. ASSUME NEW t \in Decide(sch[s].plan, LastSlot(sch[s].plan), sch[s].started, now),
               sch' = [sch EXCEPT ![s].at = IF Late(t, now) THEN "claim" ELSE "prepare",
                                  ![s].slot = t, ![s].skip = Late(t, now)]
        PROVE  Moved
    <3> DEFINE x == IF Late(t, now) THEN "claim" ELSE "prepare"
    <3>1. t \in Times
      BY <1>0, DecideIsSlot
    <3>2. Late(t, now) \in BOOLEAN
      BY DEF Late
    <3>3. at(x, t, Late(t, now)) \in Ticks /\ at(x, t, Late(t, now)).slot # None
      BY <1>0, <3>1, <3>2 DEF Ticks
    <3>4. sch' = [sch EXCEPT ![s] = at(x, t, Late(t, now))]
      BY <2>2
    <3> HIDE DEF at, x
    <3> QED BY <3>3, <3>4
  <2>3. CASE sch' = [sch EXCEPT ![s] = on]
    BY <2>3, <1>1
  <2>4. \/ sch' = [sch EXCEPT ![s].at = "claim", ![s].slot = now, ![s].skip = TRUE]
        \/ \E t \in Decide(sch[s].plan, LastSlot(sch[s].plan), sch[s].started, now) :
             sch' = [sch EXCEPT ![s].at = IF Late(t, now) THEN "claim" ELSE "prepare",
                                ![s].slot = t, ![s].skip = Late(t, now)]
        \/ sch' = [sch EXCEPT ![s] = on]
    BY ConsiderMoves
  <2> HIDE DEF Moved, on
  <2> QED BY <2>1, <2>2, <2>3, <2>4
<1> QED BY <1>2, TickUpdate DEF ConsiderPlan, TypeInv, TypeOK, tables

LEMMA TypePrepare ==
  ASSUME TypeInv, NEW s \in Schedulers, Prepare(s) PROVE TypeInv'
<1> DEFINE on == NextPlan(sch[s])
           busy == ActiveRunForWorkload(sch[s].plan) # {}
           tick == [sch[s] EXCEPT !.at = "claim", !.skip = busy]
<1>0. sch[s] \in Ticks /\ sch[s].slot # None
  BY DEF Prepare, TypeInv, TypeOK
<1>1. on \in Ticks /\ on.at \in {"idle", "loop"}
  BY <1>0, NextPlanIsTick
<1>2. tick \in Ticks /\ tick.slot # None
  BY <1>0 DEF Ticks
<1>3. sch' = [sch EXCEPT ![s] = tick] \/ sch' = [sch EXCEPT ![s] = on]
  BY DEF Prepare
<1> HIDE DEF on, tick
<1>4. /\ sch' \in [Schedulers -> Ticks]
      /\ \A u \in Schedulers : sch'[u].at \in {"prepare", "claim"} => sch'[u].slot # None
  BY <1>1, <1>2, <1>3, TickUpdate DEF TypeInv
<1> QED BY <1>4 DEF Prepare, TypeInv, TypeOK, tables

\* A scheduler at its claim knows what it claims.
LEMMA ClaimKnown ==
  ASSUME TypeOK, NEW s \in Schedulers, sch[s].at = "claim"
  PROVE  /\ sch[s] \in Ticks /\ sch[s].plan \in Plans /\ sch[s].slot \in Times
         /\ sch[s].skip \in BOOLEAN
  BY DEF TypeOK, Ticks

LEMMA TypeClaim ==
  ASSUME TypeInv, NEW s \in Schedulers, Claim(s) PROVE TypeInv'
<1> DEFINE counted == [sch[s] EXCEPT !.depth = Counted(s)]
           on == NextPlan(sch[s])
           onCounted == NextPlan(counted)
<1>0. /\ sch[s] \in Ticks /\ sch[s].plan \in Plans /\ sch[s].slot \in Times
      /\ sch[s].skip \in BOOLEAN
  BY ClaimKnown DEF Claim, TypeInv
<1>1. counted \in Ticks
  BY <1>0, DepthIsNatural DEF Ticks, TypeInv
<1>2. /\ on \in Ticks /\ on.at \in {"idle", "loop"}
      /\ onCounted \in Ticks /\ onCounted.at \in {"idle", "loop"}
  BY <1>0, <1>1, NextPlanIsTick
<1>3. sch' = [sch EXCEPT ![s] = on] \/ sch' = [sch EXCEPT ![s] = onCounted]
  BY DEF Claim
<1>4. \/ ClaimSlot(s, sch[s].plan, sch[s].slot, sch[s].skip)
      \/ UNCHANGED <<slots, runs>>
  BY DEF Claim
<1> HIDE DEF on, onCounted
<1>5. /\ sch' \in [Schedulers -> Ticks]
      /\ \A u \in Schedulers : sch'[u].at \in {"prepare", "claim"} => sch'[u].slot # None
  BY <1>2, <1>3, TickUpdate DEF TypeInv
<1>6. /\ slots' \in [Plans -> [Times -> {"none", "queued", "skipped"}]]
      /\ runs' \subseteq Rows /\ runs \subseteq runs' /\ IsFiniteSet(runs')
  BY <1>0, <1>4, ClaimSlotType DEF TypeInv, TypeOK
<1> QED BY <1>5, <1>6 DEF Claim, TypeInv, TypeOK

LEMMA TypeRequest ==
  ASSUME TypeInv, NEW c \in Clients, AskForDrill(c) \/ Enqueue(c) PROVE TypeInv'
<1>1. CASE AskForDrill(c)
  BY <1>1 DEF AskForDrill, TypeInv, TypeOK, tables
<1>2. CASE Enqueue(c)
  <2> DEFINE row == [plan |-> Asks[c], slot |-> None, by |-> c]
  <2>1. row \in Rows
    BY ActorsAssumption DEF Rows
  <2>2. IsFiniteSet(runs \cup {row})
    BY FS_AddElement DEF TypeInv
  <2>3. runs' = runs \cup {row}
    BY <1>2 DEF Enqueue
  <2> HIDE DEF row
  <2> QED BY <1>2, <2>1, <2>2, <2>3 DEF Enqueue, TypeInv, TypeOK
<1> QED BY <1>1, <1>2

LEMMA TypeNext == TypeInv /\ [Next]_vars => TypeInv'
<1> SUFFICES ASSUME TypeInv, [Next]_vars PROVE TypeInv'
  OBVIOUS
<1>1. ASSUME NEW s \in Schedulers, Schedule(s) \/ Crash(s) \/ Start(s) PROVE TypeInv'
  BY <1>1, TypeTick, TypeConsider, TypePrepare, TypeClaim DEF Schedule
<1>2. ASSUME NEW c \in Clients, AskForDrill(c) \/ Enqueue(c) PROVE TypeInv'
  BY <1>2, TypeRequest
<1>3. ASSUME NEW r \in runs, Settle(r) PROVE TypeInv'
  BY <1>3 DEF Settle, TypeInv, TypeOK
<1>4. CASE Advance
  <2>1. now' \in Times
    BY <1>4, CatalogueAssumption DEF Advance, TypeInv, TypeOK, Times
  <2> QED BY <1>4, <2>1 DEF Advance, TypeInv, TypeOK, tables
<1>5. CASE UNCHANGED vars
  BY <1>5 DEF vars, tables, TypeInv, TypeOK
<1> QED BY <1>1, <1>2, <1>3, <1>4, <1>5 DEF Next

\* Schedulers, slots, runs and requests keep their types: a scheduler that is
\* about to claim has a slot, and its index never leaves the page.
THEOREM TypeCorrect == Spec => []TypeOK
<1>1. TypeInv => TypeOK
  BY DEF TypeInv
<1> QED BY <1>1, TypeInit, TypeNext, PTL DEF Spec

-----------------------------------------------------------------------------
(* Slots and runs.  Only a claim and a request write them.                 *)

LEMMA WhoWrites ==
  ASSUME [Next]_vars
  PROVE  \/ \E s \in Schedulers :
              /\ sch[s].at = "claim"
              /\ ClaimSlot(s, sch[s].plan, sch[s].slot, sch[s].skip)
         \/ \E c \in Clients : Enqueue(c)
         \/ UNCHANGED <<slots, runs>>
  BY DEF Next, Schedule, Tick, Postpone, ConsiderPlan, Prepare, Claim, Crash, Start,
         AskForDrill, Settle, Advance, tables, vars

LEMMA ClaimAccounted ==
  ASSUME TypeOK, RunsAreAccounted, NEW s \in Schedulers, NEW p \in Plans,
         NEW t \in Times, NEW skip \in BOOLEAN, ClaimSlot(s, p, t, skip)
  PROVE  RunsAreAccounted'
<1> DEFINE row == [plan |-> p, slot |-> t, by |-> s]
<1>1. CASE slots[p][t] # "none"
  BY <1>1 DEF ClaimSlot, RunsAreAccounted
<1>2. CASE slots[p][t] = "none" /\ skip
  <2>1. runs' = runs /\ slots' = [slots EXCEPT ![p][t] = "skipped"]
    BY <1>2 DEF ClaimSlot
  <2> QED BY <1>2, <2>1 DEF RunsAreAccounted, TypeOK, Rows
<1>3. CASE slots[p][t] = "none" /\ ~skip
  <2>1. runs' = runs \cup {row} /\ slots' = [slots EXCEPT ![p][t] = "queued"]
    BY <1>3 DEF ClaimSlot
  <2>2. row.plan = p /\ row.slot = t /\ t # None
    BY ActorsAssumption
  <2>3. \A r \in runs : ~(r.plan = p /\ r.slot = t)
    BY <1>3, <2>2 DEF RunsAreAccounted
  <2> HIDE DEF row
  <2>4. \A r \in runs' : r.slot # None => slots'[r.plan][r.slot] = "queued"
    BY <2>1, <2>2, <2>3 DEF RunsAreAccounted, TypeOK, Rows
  <2>5. \A q \in Plans : \A u \in Times :
          slots'[q][u] = "queued" => \E r \in runs' : r.plan = q /\ r.slot = u
    BY <2>1, <2>2 DEF RunsAreAccounted, TypeOK
  <2>6. \A r, q \in runs' :
          r.slot # None /\ r.plan = q.plan /\ r.slot = q.slot => r = q
    BY <2>1, <2>2, <2>3 DEF RunsAreAccounted
  <2> QED BY <2>4, <2>5, <2>6 DEF RunsAreAccounted
<1> QED BY <1>1, <1>2, <1>3

LEMMA RequestAccounted ==
  ASSUME TypeOK, RunsAreAccounted, NEW c \in Clients, Enqueue(c)
  PROVE  RunsAreAccounted'
<1> DEFINE row == [plan |-> Asks[c], slot |-> None, by |-> c]
<1>1. runs' = runs \cup {row} /\ slots' = slots /\ row.slot = None
  BY DEF Enqueue
<1> HIDE DEF row
<1> QED BY <1>1 DEF RunsAreAccounted

LEMMA AccountedNext == TypeOK /\ RunsAreAccounted /\ [Next]_vars => RunsAreAccounted'
<1> SUFFICES ASSUME TypeOK, RunsAreAccounted, [Next]_vars PROVE RunsAreAccounted'
  OBVIOUS
<1>1. ASSUME NEW s \in Schedulers, sch[s].at = "claim",
             ClaimSlot(s, sch[s].plan, sch[s].slot, sch[s].skip)
      PROVE  RunsAreAccounted'
  BY <1>1, ClaimKnown, ClaimAccounted
<1>2. CASE UNCHANGED <<slots, runs>>
  BY <1>2 DEF RunsAreAccounted
<1> QED BY <1>1, <1>2, RequestAccounted, WhoWrites

\* A slot recorded as queued has exactly one run and a scheduled run has its
\* slot, for any number of schedulers and whatever dies, fails or is lost.
THEOREM Accounted == Spec => []RunsAreAccounted
<1>1. Init => RunsAreAccounted
  BY DEF Init, RunsAreAccounted
<1> QED BY <1>1, AccountedNext, TypeCorrect, PTL DEF Spec

\* No step revises the decision taken for a slot (insertSlotSQL).
THEOREM DecisionsAreFinal == Spec => DecisionsStand
<1> DEFINE Stands == \A p \in Plans : \A t \in Times :
                       slots[p][t] # "none" => slots'[p][t] = slots[p][t]
<1>1. TypeOK /\ [Next]_vars => Stands
  <2> SUFFICES ASSUME TypeOK, [Next]_vars PROVE Stands
    OBVIOUS
  <2>1. ASSUME NEW s \in Schedulers, sch[s].at = "claim",
               ClaimSlot(s, sch[s].plan, sch[s].slot, sch[s].skip)
        PROVE  Stands
    BY <2>1, ClaimKnown DEF ClaimSlot, TypeOK
  <2>2. ASSUME NEW c \in Clients, Enqueue(c) PROVE Stands
    BY <2>2 DEF Enqueue
  <2>3. CASE UNCHANGED <<slots, runs>>
    BY <2>3
  <2> QED BY <2>1, <2>2, <2>3, WhoWrites
<1>2. TypeOK /\ [Next]_vars => [Stands]_vars
  BY <1>1
<1> QED BY <1>2, TypeCorrect, PTL DEF Spec, DecisionsStand

-----------------------------------------------------------------------------
(* Drills that overlap.  The guard and the insert are two statements, and  *)
(* other triggers come between them: what nobody does is to start a drill  *)
(* beside one of its own.                                                  *)

\* A single scheduler and no request beside it.
Alone == Clients = {} /\ \A s, u \in Schedulers : s = u

\* Between Prepare and the claim others may queue the workload, this trigger
\* does not.
Guarded ==
  \A s \in Schedulers : sch[s].at = "claim" /\ ~sch[s].skip =>
    \A r \in ActiveRunForWorkload(sch[s].plan) : r.by # s

\* A request queues one drill.
RequestsAskOnce ==
  \A r \in runs : \A c \in Clients :
    r.by = c => r = [plan |-> Asks[c], slot |-> None, by |-> c]

LEMMA ActiveShrinks ==
  ASSUME TypeOK, [Next]_vars, UNCHANGED runs PROVE Active' \subseteq Active
  BY DEF Next, Schedule, Tick, Postpone, ConsiderPlan, Prepare, Claim, Crash, Start,
         AskForDrill, Enqueue, Settle, Advance, tables, vars, Active

LEMMA ConsideredSkips ==
  ASSUME TypeOK, NEW s \in Schedulers, ConsiderPlan(s) PROVE sch'[s].at = "claim" => sch'[s].skip
<1> DEFINE on == NextPlan(sch[s])
<1>0. sch \in [Schedulers -> Ticks]
  BY DEF TypeOK
<1>1. on \in Ticks /\ on.at \in {"idle", "loop"}
  BY <1>0, NextPlanIsTick
<1>2. \/ sch' = [sch EXCEPT ![s].at = "claim", ![s].slot = now, ![s].skip = TRUE]
      \/ \E t \in Decide(sch[s].plan, LastSlot(sch[s].plan), sch[s].started, now) :
           sch' = [sch EXCEPT ![s].at = IF Late(t, now) THEN "claim" ELSE "prepare",
                              ![s].slot = t, ![s].skip = Late(t, now)]
      \/ sch' = [sch EXCEPT ![s] = on]
  BY ConsiderMoves
<1> HIDE DEF on
<1>3. CASE sch' = [sch EXCEPT ![s] = on]
  BY <1>0, <1>1, <1>3
<1>4. ASSUME NEW t, sch' = [sch EXCEPT ![s].at = IF Late(t, now) THEN "claim" ELSE "prepare",
                                       ![s].slot = t, ![s].skip = Late(t, now)]
      PROVE  sch'[s].at = "claim" => sch'[s].skip
  <2>1. sch'[s] = [sch[s] EXCEPT !.at = IF Late(t, now) THEN "claim" ELSE "prepare",
                                 !.slot = t, !.skip = Late(t, now)]
    BY <1>0, <1>4
  <2>2. sch'[s].at = (IF Late(t, now) THEN "claim" ELSE "prepare") /\ sch'[s].skip = Late(t, now)
    BY <1>0, <2>1 DEF Ticks
  <2> QED BY <2>2
<1>5. CASE sch' = [sch EXCEPT ![s].at = "claim", ![s].slot = now, ![s].skip = TRUE]
  BY <1>0, <1>5 DEF Ticks
<1> QED BY <1>2, <1>3, <1>4, <1>5

LEMMA WhoClaims ==
  ASSUME TypeOK, NEW s \in Schedulers, Claim(s)
  PROVE  /\ sch'[s].at # "claim"
         /\ sch[s].at = "claim" /\ UNCHANGED settled
         /\ \/ UNCHANGED runs
            \/ ~sch[s].skip /\ runs' = runs \cup {[plan |-> sch[s].plan, slot |-> sch[s].slot,
                                                   by |-> s]}
<1>0. sch \in [Schedulers -> Ticks]
  BY DEF TypeOK
<1> DEFINE on == NextPlan(sch[s])
           counted == [sch[s] EXCEPT !.depth = Counted(s)]
           onCounted == NextPlan(counted)
<1>1. counted \in Ticks
  BY <1>0, DepthIsNatural DEF Ticks
<1>2. on.at \in {"idle", "loop"} /\ onCounted.at \in {"idle", "loop"}
  BY <1>0, <1>1, NextPlanIsTick
<1>3. sch' = [sch EXCEPT ![s] = on] \/ sch' = [sch EXCEPT ![s] = onCounted]
  BY DEF Claim
<1> HIDE DEF on, onCounted
<1>4. sch'[s].at # "claim"
  BY <1>0, <1>2, <1>3
<1> QED BY <1>4 DEF Claim, ClaimSlot

\* Every step that leaves a scheduler at an unskipped claim is its own Prepare,
\* or leaves that scheduler where it was and writes no run of its.
LEMMA WhoPrepares ==
  ASSUME TypeOK, [Next]_vars, NEW s \in Schedulers, sch'[s].at = "claim", ~sch'[s].skip
  PROVE  \/ /\ Prepare(s) /\ UNCHANGED runs /\ sch'[s].plan = sch[s].plan
            /\ ActiveRunForWorkload(sch[s].plan) = {}
         \/ sch'[s] = sch[s] /\ \A r \in runs' : r \in runs \/ r.by # s
<1>0. sch \in [Schedulers -> Ticks]
  BY DEF TypeOK
<1>1. CASE Schedule(s)
  <2>1. CASE Tick(s) \/ Postpone(s)
    BY <1>0, <2>1 DEF Tick, Postpone, Fresh, Ticks
  <2>2. CASE ConsiderPlan(s)
    BY <2>2, ConsideredSkips
  <2>3. CASE Prepare(s)
    <3> DEFINE on == NextPlan(sch[s])
               busy == ActiveRunForWorkload(sch[s].plan) # {}
    <3>1. on.at \in {"idle", "loop"}
      BY <1>0, NextPlanIsTick
    <3>2. sch' = [sch EXCEPT ![s].at = "claim", ![s].skip = busy] \/ sch' = [sch EXCEPT ![s] = on]
      BY <2>3 DEF Prepare
    <3> HIDE DEF on, busy
    <3>3. sch' = [sch EXCEPT ![s].at = "claim", ![s].skip = busy]
      BY <1>0, <3>1, <3>2
    <3>4. sch'[s].plan = sch[s].plan /\ sch'[s].skip = busy
      BY <1>0, <3>3 DEF Ticks
    <3> QED BY <2>3, <3>4 DEF Prepare, tables, busy
  <2>4. CASE Claim(s)
    BY <2>4, WhoClaims
  <2> QED BY <1>1, <2>1, <2>2, <2>3, <2>4 DEF Schedule
<1>2. ASSUME NEW u \in Schedulers, u # s, Schedule(u)
      PROVE  sch'[s] = sch[s] /\ \A r \in runs' : r \in runs \/ r.by # s
  <2>1. sch'[s] = sch[s]
    BY <1>0, <1>2 DEF Schedule, Tick, Postpone, ConsiderPlan, Prepare, Claim
  <2>2. CASE Claim(u)
    BY <1>2, <2>1, <2>2, WhoClaims
  <2> QED BY <1>2, <2>1, <2>2 DEF Schedule, Tick, Postpone, ConsiderPlan, Prepare, tables
<1>3. ASSUME NEW u \in Schedulers, Crash(u) \/ Start(u)
      PROVE  sch'[s] = sch[s] /\ UNCHANGED runs
  BY <1>0, <1>3 DEF Crash, Start, Fresh, Ticks, tables
<1>4. ASSUME NEW c \in Clients, AskForDrill(c) \/ Enqueue(c)
      PROVE  sch'[s] = sch[s] /\ \A r \in runs' : r \in runs \/ r.by # s
  BY <1>4, ActorsAssumption DEF AskForDrill, Enqueue, tables
<1>5. CASE (\E r \in runs : Settle(r)) \/ Advance \/ UNCHANGED vars
  BY <1>5 DEF Settle, Advance, vars, tables
<1> QED BY <1>1, <1>2, <1>3, <1>4, <1>5 DEF Next

LEMMA SettledGrows ==
  ASSUME TypeOK, [Next]_vars PROVE settled \subseteq settled'
  BY DEF Next, Schedule, Tick, Postpone, ConsiderPlan, Prepare, Claim, Crash, Start,
         AskForDrill, Enqueue, Settle, Advance, tables, vars

LEMMA GuardedNext == TypeOK /\ Guarded /\ [Next]_vars => Guarded'
<1> SUFFICES ASSUME TypeOK, Guarded, [Next]_vars,
                    NEW s \in Schedulers, sch'[s].at = "claim", ~sch'[s].skip,
                    NEW r \in Active', Workload[r.plan] = Workload[sch'[s].plan]
             PROVE  r.by # s
  BY DEF Guarded, ActiveRunForWorkload
<1>1. CASE Prepare(s) /\ UNCHANGED runs /\ sch'[s].plan = sch[s].plan
           /\ ActiveRunForWorkload(sch[s].plan) = {}
  <2>1. r \in Active
    BY <1>1, ActiveShrinks
  <2> QED BY <1>1, <2>1 DEF ActiveRunForWorkload
<1>2. CASE sch'[s] = sch[s] /\ \A q \in runs' : q \in runs \/ q.by # s
  <2>1. r \in runs' /\ (r \in runs => r \in Active)
    BY SettledGrows DEF Active
  <2> QED BY <1>2, <2>1 DEF Guarded, ActiveRunForWorkload
<1> QED BY <1>1, <1>2, WhoPrepares

LEMMA AskedOnceNext ==
  ASSUME TypeOK, RequestsAskOnce, [Next]_vars PROVE RequestsAskOnce'
<1>1. ASSUME NEW s \in Schedulers, ClaimSlot(s, sch[s].plan, sch[s].slot, sch[s].skip)
      PROVE  RequestsAskOnce'
  BY <1>1, ActorsAssumption DEF ClaimSlot, RequestsAskOnce
<1>2. ASSUME NEW c \in Clients, Enqueue(c) PROVE RequestsAskOnce'
  BY <1>2 DEF Enqueue, RequestsAskOnce
<1>3. CASE UNCHANGED runs
  BY <1>3 DEF RequestsAskOnce
<1> QED BY <1>1, <1>2, <1>3, WhoWrites

\* However many schedulers and requests share the tables, and whatever crashes
\* or is lost, drills of one workload in flight at once were queued by different
\* triggers: no more of them overlap than triggers raced past the guard.
THEOREM OverlapsAreRaces == Spec => []OverlapNeedsTwoTriggers
<1>1. Init => Guarded /\ RequestsAskOnce /\ OverlapNeedsTwoTriggers
  BY DEF Init, Guarded, RequestsAskOnce, OverlapNeedsTwoTriggers, Active, Fresh
<1>2. TypeOK /\ Guarded /\ RequestsAskOnce /\ OverlapNeedsTwoTriggers /\ [Next]_vars
        => OverlapNeedsTwoTriggers'
  <2> SUFFICES ASSUME TypeOK, Guarded, RequestsAskOnce, OverlapNeedsTwoTriggers, [Next]_vars,
                      NEW r \in Active', NEW q \in Active',
                      Workload[r.plan] = Workload[q.plan], r.by = q.by
               PROVE  r = q
    BY DEF OverlapNeedsTwoTriggers
  <2>0. /\ r \in runs' /\ (r \in runs => r \in Active)
        /\ q \in runs' /\ (q \in runs => q \in Active)
    BY SettledGrows DEF Active
  <2>1. CASE UNCHANGED runs
    BY <2>0, <2>1 DEF OverlapNeedsTwoTriggers
  <2>2. ASSUME NEW s \in Schedulers, sch[s].at = "claim", ~ UNCHANGED runs,
               ClaimSlot(s, sch[s].plan, sch[s].slot, sch[s].skip)
        PROVE  r = q
    <3> DEFINE row == [plan |-> sch[s].plan, slot |-> sch[s].slot, by |-> s]
    <3>1. ~sch[s].skip /\ runs' = runs \cup {row}
      BY <2>2 DEF ClaimSlot
    <3>2. row.plan = sch[s].plan /\ row.by = s
      OBVIOUS
    <3> HIDE DEF row
    <3>3. \A x \in Active : Workload[x.plan] = Workload[row.plan] => x.by # row.by
      BY <2>2, <3>1, <3>2 DEF Guarded, ActiveRunForWorkload
    <3> QED BY <2>0, <3>1, <3>3 DEF OverlapNeedsTwoTriggers
  <2>3. ASSUME NEW c \in Clients, Enqueue(c) PROVE r = q
    <3>1. RequestsAskOnce'
      BY AskedOnceNext
    <3>2. runs' = runs \cup {[plan |-> Asks[c], slot |-> None, by |-> c]}
      BY <2>3 DEF Enqueue
    <3>3. CASE r.by = c
      BY <2>0, <3>1, <3>3 DEF RequestsAskOnce
    <3>4. CASE r.by # c
      BY <2>0, <3>2, <3>4 DEF OverlapNeedsTwoTriggers
    <3> QED BY <3>3, <3>4
  <2> QED BY <2>1, <2>2, <2>3, WhoWrites
<1> QED BY <1>1, <1>2, GuardedNext, AskedOnceNext, TypeCorrect, PTL DEF Spec

-----------------------------------------------------------------------------
(* The repeated hour.                                                      *)

\* A set of naturals has a least member, and a bounded one a greatest.
LEMMA LeastNat ==
  ASSUME NEW T \in SUBSET Nat, T # {}
  PROVE  \E n \in T : \A m \in T : n <= m
<1>1. PICK n \in T : \A m \in T : ~(<<m, n>> \in OpToRel(<, Nat))
  BY NatLessThanWellFounded, WFMin
<1>2. ASSUME NEW m \in T PROVE n <= m
  <2>1. ~(<<m, n>> \in OpToRel(<, Nat))
    BY <1>1
  <2>2. ~(m < n)
    BY <2>1 DEF OpToRel
  <2>3. m \in Nat /\ n \in Nat
    OBVIOUS
  <2> QED BY <2>2, <2>3
<1> QED BY <1>2
LEMMA GreatestNat ==
  ASSUME NEW k \in Nat, NEW T \in SUBSET (0 .. k), T # {}
  PROVE  \E n \in T : \A m \in T : m <= n
<1> DEFINE U == {x \in Nat : k - x \in T}
<1>1. U # {}
  <2>1. PICK t \in T : t \in 0 .. k
    OBVIOUS
  <2>2. k - t \in Nat /\ k - (k - t) = t
    BY <2>1
  <2> QED BY <2>2
<1>2. PICK u \in U : \A x \in U : u <= x
  BY <1>1, LeastNat
<1>3. ASSUME NEW m \in T PROVE m <= k - u
  <2>1. m \in 0 .. k /\ k - m \in Nat /\ k - (k - m) = m
    OBVIOUS
  <2>2. u <= k - m
    BY <1>2, <2>1
  <2> QED BY <2>1, <2>2
<1> QED BY <1>2, <1>3

\* The slots of a plan that show one wall clock follow each other: its
\* schedule is not denser than the clocks are put back, "the same local wall
\* clock twice in a row" (slots.go).
InARow ==
  \A p \in Plans : \A t, u, y \in Cron[p] : t < u /\ u < y => Wall[t] # Wall[y]

\* What was decided is of the schedule, and a plan that does not parse is
\* never drilled.
Scheduled ==
  \A p \in Plans, t \in Times : slots[p][t] # "none" =>
    IF p \in Broken THEN slots[p][t] # "queued" ELSE t \in Cron[p]

\* What is about to be decided shows a wall clock of its own.
NewHour(p, t) ==
  t \in Cron[p] /\ \A u \in Times : slots[p][u] # "none" => Wall[u] # Wall[t]

Pending ==
  \A s \in Schedulers : sch[s].at \in {"prepare", "claim"} =>
    IF sch[s].plan \in Broken THEN sch[s].at = "claim" /\ sch[s].skip
    ELSE NewHour(sch[s].plan, sch[s].slot)

LEMMA LastSlotIsLast ==
  ASSUME TypeOK, NEW p \in Plans, NEW u \in Times, slots[p][u] # "none"
  PROVE  \E t \in LastSlot(p) : LastSlot(p) = {t} /\ t \in Times /\ slots[p][t] # "none" /\ u <= t
<1> DEFINE D == {x \in Times : slots[p][x] # "none"}
<1>1. MaxTime \in Nat /\ D \subseteq 0 .. MaxTime /\ u \in D
  BY CatalogueAssumption DEF Times
<1>2. \E t \in D : \A x \in D : x <= t
  <2> HIDE DEF D
  <2> QED BY <1>1, GreatestNat
<1>3. PICK t \in D : \A x \in D : x <= t
  BY <1>2
<1>4. t \in LastSlot(p)
  BY <1>3 DEF LastSlot
<1>5. ASSUME NEW x \in LastSlot(p) PROVE x = t
  <2>1. x <= t /\ t <= x /\ x \in Nat /\ t \in Nat
    BY <1>3, TimesAreNaturals DEF LastSlot
  <2> QED BY <2>1
<1> QED BY <1>1, <1>3, <1>4, <1>5

\* Decide steps over the repetition of what was decided last.
LEMMA DecideIsNewHour ==
  ASSUME InARow, TypeOK, Scheduled, NEW p \in Plans \ Broken, NEW started, NEW limit,
         NEW x \in Decide(p, LastSlot(p), started, limit)
  PROVE  NewHour(p, x)
<1> DEFINE last == LastSlot(p)
           slot == Next1(p, Floor(last, started))
<1>1. x \in Cron[p] /\ Cron[p] \subseteq Times /\ Cron[p] \subseteq Nat
  BY CatalogueAssumption, TimesAreNaturals DEF Decide
<1>2. PICK f \in FirstSlot(p, last, started) : f <= x
  BY DEF Decide
<1>3. ASSUME NEW u \in Times, slots[p][u] # "none" PROVE Wall[u] # Wall[x]
  <2>1. PICK t \in last : last = {t} /\ t \in Times /\ slots[p][t] # "none" /\ u <= t
    BY <1>3, LastSlotIsLast
  <2>2. u \in Cron[p] /\ t \in Cron[p]
    BY <1>3, <2>1 DEF Scheduled
  <2>3. slot = {y \in Cron[p] : y > t /\ \A z \in Cron[p] : z > t => y <= z}
    BY <2>1 DEF Next1, Floor
  <2>4. /\ t < x
        /\ Wall[t] # Wall[x]
    <3>1. CASE \E a \in last, y \in slot : Wall[y] = Wall[a]
      <4>1. f \in Next1(p, slot)
        BY <1>2, <3>1 DEF FirstSlot
      <4>2. PICK a \in slot : f > a /\ f \in Cron[p]
        BY <4>1 DEF Next1
      <4>3. a \in Cron[p] /\ t < a /\ a < x
        BY <1>1, <1>2, <2>2, <2>3, <4>2
      <4>4. t < x
        BY <1>1, <2>2, <4>3
      <4> QED BY <1>1, <2>2, <4>3, <4>4 DEF InARow
    <3>2. CASE ~ \E a \in last, y \in slot : Wall[y] = Wall[a]
      <4>1. f \in slot
        BY <1>2, <3>2 DEF FirstSlot
      <4>2. f \in Cron[p] /\ t < f /\ Wall[f] # Wall[t]
        BY <1>1, <2>1, <2>2, <2>3, <3>2, <4>1
      <4>3. t < x
        BY <1>1, <1>2, <2>2, <4>2
      <4>4. CASE x = f
        BY <4>2, <4>3, <4>4
      <4>5. CASE x # f
        <5>1. f < x
          BY <1>1, <1>2, <4>2, <4>5
        <5> QED BY <1>1, <2>2, <4>2, <4>3, <5>1 DEF InARow
      <4> QED BY <4>4, <4>5
    <3> QED BY <3>1, <3>2
  <2>5. CASE u = t
    BY <2>4, <2>5
  <2>6. CASE u # t
    <3>1. u < t
      BY <1>1, <2>1, <2>2, <2>6
    <3> QED BY <1>1, <2>2, <2>4, <3>1 DEF InARow
  <2> QED BY <2>5, <2>6
<1> QED BY <1>1, <1>3 DEF NewHour

\* considerPlan leaves the tick with a new hour, or with the present instant
\* of a plan that cannot be read.
LEMMA ConsiderPends ==
  ASSUME InARow, TypeOK, Scheduled, NEW s \in Schedulers, ConsiderPlan(s),
         sch'[s].at \in {"prepare", "claim"}
  PROVE  IF sch'[s].plan \in Broken THEN sch'[s].at = "claim" /\ sch'[s].skip
         ELSE NewHour(sch'[s].plan, sch'[s].slot)
<1> DEFINE on == NextPlan(sch[s])
           p == sch[s].plan
<1>0. sch \in [Schedulers -> Ticks] /\ p \in Plans
  BY DEF TypeOK, Ticks
<1>1. on.at \in {"idle", "loop"}
  BY <1>0, NextPlanIsTick
<1>2. \/ p \in Broken /\ sch' = [sch EXCEPT ![s].at = "claim", ![s].slot = now, ![s].skip = TRUE]
      \/ /\ p \notin Broken
         /\ \E t \in Decide(p, LastSlot(p), sch[s].started, now) :
              sch' = [sch EXCEPT ![s].at = IF Late(t, now) THEN "claim" ELSE "prepare",
                                 ![s].slot = t, ![s].skip = Late(t, now)]
      \/ sch' = [sch EXCEPT ![s] = on]
  BY Zenon DEF ConsiderPlan
<1>3. CASE sch' = [sch EXCEPT ![s] = on]
  <2> HIDE DEF on
  <2> QED BY <1>0, <1>1, <1>3
<1>4. CASE p \in Broken /\ sch' = [sch EXCEPT ![s].at = "claim", ![s].slot = now, ![s].skip = TRUE]
  BY <1>0, <1>4 DEF Ticks
<1>5. ASSUME p \notin Broken, NEW t \in Decide(p, LastSlot(p), sch[s].started, now),
             sch' = [sch EXCEPT ![s].at = IF Late(t, now) THEN "claim" ELSE "prepare",
                                ![s].slot = t, ![s].skip = Late(t, now)]
      PROVE  sch'[s].plan \notin Broken /\ NewHour(sch'[s].plan, sch'[s].slot)
  <2>1. sch'[s] = [sch[s] EXCEPT !.at = IF Late(t, now) THEN "claim" ELSE "prepare",
                                 !.slot = t, !.skip = Late(t, now)]
    BY <1>0, <1>5
  <2>2. sch'[s].plan = p /\ sch'[s].slot = t
    BY <1>0, <2>1 DEF Ticks
  <2>3. NewHour(p, t)
    BY <1>0, <1>5, DecideIsNewHour
  <2> QED BY <1>5, <2>2, <2>3
<1> QED BY <1>2, <1>3, <1>4, <1>5

\* What is pending was just considered, or was pending already.
LEMMA WhoPends ==
  ASSUME TypeOK, Alone, [Next]_vars, NEW s \in Schedulers, sch'[s].at \in {"prepare", "claim"}
  PROVE  /\ UNCHANGED slots
         /\ \/ ConsiderPlan(s)
            \/ sch'[s] = sch[s]
            \/ /\ sch[s].at = "prepare" /\ sch'[s].at = "claim"
               /\ sch'[s].plan = sch[s].plan /\ sch'[s].slot = sch[s].slot
<1>0. sch \in [Schedulers -> Ticks]
  BY DEF TypeOK
<1>1. CASE Schedule(s)
  <2>1. CASE Tick(s) \/ Postpone(s)
    BY <1>0, <2>1 DEF Tick, Postpone, Fresh, Ticks
  <2>2. CASE ConsiderPlan(s)
    BY <2>2 DEF ConsiderPlan, tables
  <2>3. CASE Prepare(s)
    <3> DEFINE on == NextPlan(sch[s])
               busy == ActiveRunForWorkload(sch[s].plan) # {}
    <3>1. on.at \in {"idle", "loop"}
      BY <1>0, NextPlanIsTick
    <3>2. sch' = [sch EXCEPT ![s].at = "claim", ![s].skip = busy] \/ sch' = [sch EXCEPT ![s] = on]
      BY <2>3 DEF Prepare
    <3> HIDE DEF on, busy
    <3>3. sch' = [sch EXCEPT ![s].at = "claim", ![s].skip = busy]
      BY <1>0, <3>1, <3>2
    <3>4. sch'[s].plan = sch[s].plan /\ sch'[s].slot = sch[s].slot /\ sch'[s].at = "claim"
      BY <1>0, <3>3 DEF Ticks
    <3> QED BY <2>3, <3>4 DEF Prepare, tables
  <2>4. CASE Claim(s)
    <3> DEFINE on == NextPlan(sch[s])
               counted == [sch[s] EXCEPT !.depth = Counted(s)]
               onCounted == NextPlan(counted)
    <3>1. counted \in Ticks
      BY <1>0, DepthIsNatural DEF Ticks
    <3>2. on.at \in {"idle", "loop"} /\ onCounted.at \in {"idle", "loop"}
      BY <1>0, <3>1, NextPlanIsTick
    <3>3. sch' = [sch EXCEPT ![s] = on] \/ sch' = [sch EXCEPT ![s] = onCounted]
      BY <2>4 DEF Claim
    <3> HIDE DEF on, onCounted
    <3> QED BY <1>0, <3>2, <3>3
  <2> QED BY <1>1, <2>1, <2>2, <2>3, <2>4 DEF Schedule
<1>2. CASE Crash(s) \/ Start(s)
  BY <1>0, <1>2 DEF Crash, Start, Fresh, Ticks
<1>3. CASE (\E r \in runs : Settle(r)) \/ Advance \/ UNCHANGED vars
  BY <1>3 DEF Settle, Advance, vars, tables
<1> QED BY <1>1, <1>2, <1>3 DEF Alone, Next

LEMMA PendingNext ==
  InARow /\ Alone /\ TypeOK /\ Scheduled /\ Pending /\ [Next]_vars => Pending'
<1> SUFFICES ASSUME InARow, Alone, TypeOK, Scheduled, Pending, [Next]_vars,
                    NEW s \in Schedulers, sch'[s].at \in {"prepare", "claim"}
             PROVE  IF sch'[s].plan \in Broken THEN sch'[s].at = "claim" /\ sch'[s].skip
                    ELSE NewHour(sch[s].plan, sch[s].slot)'
  BY DEF Pending
<1>1. UNCHANGED slots
  BY WhoPends
<1>2. NewHour(sch'[s].plan, sch'[s].slot) => NewHour(sch[s].plan, sch[s].slot)'
  BY <1>1 DEF NewHour
<1>3. CASE ConsiderPlan(s)
  BY <1>2, <1>3, ConsiderPends
<1>4. CASE sch'[s] = sch[s]
  BY <1>2, <1>4 DEF Pending
<1>5. CASE /\ sch[s].at = "prepare" /\ sch'[s].at = "claim"
           /\ sch'[s].plan = sch[s].plan /\ sch'[s].slot = sch[s].slot
  BY <1>2, <1>5 DEF Pending
<1> QED BY <1>3, <1>4, <1>5, WhoPends

\* A claim decides a slot of the schedule that shows a wall clock of its own.
LEMMA ClaimedOnce ==
  Alone /\ TypeOK /\ Scheduled /\ Pending /\ OncePerWallClock /\ [Next]_vars
    => Scheduled' /\ OncePerWallClock'
<1> SUFFICES ASSUME Alone, TypeOK, Scheduled, Pending, OncePerWallClock, [Next]_vars
             PROVE  Scheduled' /\ OncePerWallClock'
  OBVIOUS
<1>1. CASE UNCHANGED slots
  BY <1>1 DEF Scheduled, OncePerWallClock
<1>2. ASSUME NEW s \in Schedulers, sch[s].at = "claim",
             ClaimSlot(s, sch[s].plan, sch[s].slot, sch[s].skip), ~ UNCHANGED slots
      PROVE  Scheduled' /\ OncePerWallClock'
  <2> DEFINE p == sch[s].plan
             x == sch[s].slot
             word == IF sch[s].skip THEN "skipped" ELSE "queued"
  <2>1. p \in Plans /\ x \in Times
    BY <1>2, ClaimKnown
  <2>2. slots' = [slots EXCEPT ![p][x] = word]
    BY <1>2 DEF ClaimSlot
  <2>3. IF p \in Broken THEN word = "skipped" ELSE NewHour(p, x)
    BY <1>2 DEF Pending
  <2> HIDE DEF p, x, word
  <2>4. \A q \in Plans, t \in Times : slots'[q][t] = IF q = p /\ t = x THEN word ELSE slots[q][t]
    BY <2>1, <2>2 DEF TypeOK
  <2>5. Scheduled'
    BY <2>3, <2>4 DEF Scheduled, NewHour
  <2>6. OncePerWallClock'
    <3> SUFFICES ASSUME NEW q \in Plans, NEW t \in Times, NEW u \in Times,
                        slots'[q][t] = "queued", slots'[q][u] = "queued", Wall[t] = Wall[u]
                 PROVE  t = u
      BY DEF OncePerWallClock
    <3>1. CASE slots[q][t] = "queued" /\ slots[q][u] = "queued"
      BY <3>1 DEF OncePerWallClock
    <3>2. CASE q = p /\ t = x /\ u # x
      BY <2>3, <2>4, <3>2 DEF NewHour
    <3>3. CASE q = p /\ u = x /\ t # x
      BY <2>3, <2>4, <3>3 DEF NewHour
    <3> QED BY <2>4, <3>1, <3>2, <3>3
  <2> QED BY <2>5, <2>6
<1>3. ASSUME NEW c \in Clients PROVE FALSE
  BY <1>3 DEF Alone
<1> QED BY <1>1, <1>2, <1>3, WhoWrites

(***************************************************************************)
(* A scheduled hour that happens twice drills once (slots.go, decide):     *)
(* whatever the schedule, as long as its repetitions follow each other,    *)
(* and whatever fails, while one scheduler decides the slots.  Both        *)
(* conditions are needed: a second scheduler may claim an older decision   *)
(* after the repetition, and a schedule denser than an hour comes back to  *)
(* a wall clock that is not its last one.                                  *)
(***************************************************************************)
THEOREM RepeatedHourDrillsOnce == ASSUME Alone, InARow PROVE Spec => []OncePerWallClock
<1>1. Init => Scheduled /\ Pending /\ OncePerWallClock
  BY DEF Init, Scheduled, Pending, OncePerWallClock, Fresh
<1> QED BY <1>1, PendingNext, ClaimedOnce, TypeCorrect, PTL DEF Spec

-----------------------------------------------------------------------------
(* The queue's depth, measured once a tick and counted along.              *)

\* In a tick the queue is no deeper than counted, unless it is full already.
Measured ==
  \A s \in Schedulers :
    /\ sch[s].at \in {"loop", "prepare", "claim"} =>
         Cardinality(Active) <= sch[s].depth \/ sch[s].depth >= MaxQueueDepth
    /\ sch[s].at \in {"prepare", "claim"} => sch[s].depth < MaxQueueDepth

DepthInv == TypeInv /\ Measured /\ QueueStaysShallow

LEMMA NextPlanKeepsDepth ==
  ASSUME NEW tick \in Ticks
  PROVE  NextPlan(tick).at = "idle" \/ NextPlan(tick).depth = tick.depth
  BY DEF NextPlan, Fresh, Ticks

LEMMA ActiveCardinality ==
  ASSUME TypeInv, TypeInv', [Next]_vars
  PROVE  /\ Cardinality(Active) \in Nat /\ Cardinality(Active') \in Nat
         /\ UNCHANGED runs => Cardinality(Active') <= Cardinality(Active)
<1>1. IsFiniteSet(Active) /\ IsFiniteSet(Active')
  BY FS_Subset DEF TypeInv, Active
<1> QED BY <1>1, FS_CardinalityType, FS_Subset, ActiveShrinks DEF TypeInv

\* A run added to the table makes the queue at most one deeper.
LEMMA OneMore ==
  ASSUME TypeInv, TypeInv', UNCHANGED settled, NEW row, runs' = runs \cup {row}
  PROVE  Cardinality(Active') <= Cardinality(Active) + 1
<1>1. IsFiniteSet(Active)
  BY FS_Subset DEF TypeInv, Active
<1>2. Active' \subseteq Active \cup {row}
  BY DEF Active
<1>3. /\ IsFiniteSet(Active \cup {row})
      /\ Cardinality(Active \cup {row}) <= Cardinality(Active) + 1
  BY <1>1, FS_AddElement, FS_CardinalityType
<1>4. Cardinality(Active') <= Cardinality(Active \cup {row}) /\ IsFiniteSet(Active')
  BY <1>2, <1>3, FS_Subset
<1> QED BY <1>1, <1>3, <1>4, FS_CardinalityType

\* Between the measure and the claim the depth is carried along.
LEMMA DepthCarried ==
  ASSUME TypeOK, NEW s \in Schedulers, ConsiderPlan(s) \/ Prepare(s)
  PROVE  /\ UNCHANGED runs
         /\ \/ sch'[s].at = "idle"
            \/ sch'[s].at = "loop" /\ sch'[s].depth = sch[s].depth
            \/ /\ sch'[s].depth = sch[s].depth
               /\ ConsiderPlan(s) => sch[s].depth < MaxQueueDepth
<1> DEFINE on == NextPlan(sch[s])
<1>0. sch \in [Schedulers -> Ticks]
  BY DEF TypeOK
<1>1. on.at \in {"idle", "loop"} /\ (on.at = "idle" \/ on.depth = sch[s].depth)
  BY <1>0, NextPlanIsTick, NextPlanKeepsDepth
<1>2. CASE sch' = [sch EXCEPT ![s] = on]
  <2> HIDE DEF on
  <2> QED BY <1>0, <1>1, <1>2 DEF ConsiderPlan, Prepare, tables
<1>3. CASE sch' # [sch EXCEPT ![s] = on]
  <2>1. CASE ConsiderPlan(s)
    <3>1. ASSUME NEW x, NEW t, NEW k, sch' = [sch EXCEPT ![s].at = x, ![s].slot = t, ![s].skip = k]
          PROVE  sch'[s].depth = sch[s].depth
      BY <1>0, <3>1 DEF Ticks
    <3> QED BY <1>3, <2>1, <3>1, ConsiderMoves, Zenon DEF ConsiderPlan, tables
  <2>2. CASE Prepare(s)
    <3> DEFINE busy == ActiveRunForWorkload(sch[s].plan) # {}
    <3>1. sch' = [sch EXCEPT ![s].at = "claim", ![s].skip = busy]
      BY <1>3, <2>2 DEF Prepare
    <3> HIDE DEF busy
    <3>2. sch'[s].depth = sch[s].depth
      BY <1>0, <3>1 DEF Ticks
    <3> QED BY <2>2, <3>2 DEF Prepare, ConsiderPlan, tables
  <2> QED BY <2>1, <2>2
<1> QED BY <1>2, <1>3

\* A claim counts what it adds.
LEMMA ClaimMeasured ==
  ASSUME DepthInv, TypeInv', Alone, [Next]_vars, "lostreply" \notin Faults,
         NEW s \in Schedulers, Claim(s)
  PROVE  Measured' /\ QueueStaysShallow'
<1> DEFINE n == Cardinality(Active)
           on == NextPlan(sch[s])
           counted == [sch[s] EXCEPT !.depth = Counted(s)]
           onCounted == NextPlan(counted)
           row == [plan |-> sch[s].plan, slot |-> sch[s].slot, by |-> s]
<1>0. /\ sch \in [Schedulers -> Ticks] /\ sch[s].depth \in Nat /\ MaxQueueDepth \in Nat
      /\ n \in Nat /\ n' \in Nat /\ Counted(s) \in Nat
  BY ActiveCardinality, DepthIsNatural, LimitsAssumption DEF DepthInv, TypeInv, TypeOK, Ticks
<1>1. n <= sch[s].depth /\ sch[s].depth < MaxQueueDepth
  BY <1>0 DEF Claim, DepthInv, Measured
<1>2. counted \in Ticks /\ counted.depth = Counted(s)
  BY <1>0 DEF Ticks
<1>3. /\ on.at \in {"idle", "loop"} /\ (on.at = "idle" \/ on.depth = sch[s].depth)
      /\ onCounted.at \in {"idle", "loop"} /\ (onCounted.at = "idle" \/ onCounted.depth = Counted(s))
  BY <1>0, <1>2, NextPlanIsTick, NextPlanKeepsDepth
<1>4. CASE UNCHANGED runs
  <2>1. n' <= n
    BY <1>4, ActiveCardinality DEF DepthInv
  <2>2. Counted(s) >= sch[s].depth
    BY <1>0 DEF Counted
  <2>3. sch' = [sch EXCEPT ![s] = on] \/ sch' = [sch EXCEPT ![s] = onCounted]
    BY DEF Claim
  <2> HIDE DEF on, onCounted, n
  <2>4. sch'[s].at = "idle" \/ (sch'[s].at = "loop" /\ n' <= sch'[s].depth)
    BY <1>0, <1>1, <1>3, <2>1, <2>2, <2>3
  <2> QED BY <1>0, <1>1, <2>1, <2>4 DEF Alone, Measured, QueueStaysShallow, n
<1>5. CASE ~ UNCHANGED runs
  <2>1. /\ ClaimSlot(s, sch[s].plan, sch[s].slot, sch[s].skip)
        /\ sch' = [sch EXCEPT ![s] = onCounted]
    BY <1>5 DEF Claim
  <2>2. ~sch[s].skip /\ slots[sch[s].plan][sch[s].slot] = "none" /\ runs' = runs \cup {row}
    BY <1>5, <2>1 DEF ClaimSlot
  <2>3. Counted(s) = sch[s].depth + 1
    BY <2>2 DEF Counted
  <2> HIDE DEF row
  <2>4. n' <= n + 1
    BY <2>2, OneMore DEF Claim, DepthInv
  <2> HIDE DEF onCounted, n
  <2>5. sch'[s].at = "idle" \/ (sch'[s].at = "loop" /\ n' <= sch'[s].depth)
    BY <1>0, <1>1, <1>3, <2>1, <2>3, <2>4
  <2>6. n' <= MaxQueueDepth
    BY <1>0, <1>1, <2>4
  <2> QED BY <2>5, <2>6 DEF Alone, Measured, QueueStaysShallow, n
<1> QED BY <1>4, <1>5

LEMMA MeasuredNext ==
  ASSUME Alone, "lostreply" \notin Faults, MaxQueueDepth <= ListLimit
  PROVE  DepthInv /\ [Next]_vars => DepthInv'
<1> SUFFICES ASSUME DepthInv, [Next]_vars PROVE DepthInv'
  OBVIOUS
<1> DEFINE n == Cardinality(Active)
<1>1. TypeInv'
  BY TypeNext DEF DepthInv
<1>0. /\ n \in Nat /\ n' \in Nat /\ MaxQueueDepth \in Nat /\ ListLimit \in Nat
      /\ sch \in [Schedulers -> Ticks] /\ \A s \in Schedulers : sch[s].depth \in Nat
  BY <1>1, ActiveCardinality, LimitsAssumption DEF DepthInv, TypeInv, TypeOK, Ticks
<1>2. ASSUME UNCHANGED runs PROVE n' <= n /\ QueueStaysShallow'
  BY <1>2, <1>1, <1>0, ActiveCardinality DEF DepthInv, QueueStaysShallow
<1>3. ASSUME NEW s \in Schedulers, Schedule(s) \/ Crash(s) \/ Start(s)
      PROVE  Measured' /\ QueueStaysShallow'
  <2>1. CASE Tick(s)
    <3>1. UNCHANGED <<runs, settled>> /\ n' = n
      BY <2>1 DEF Tick, tables, Active
    <3>2. sch'[s].at = "loop" /\ sch'[s].depth = QueueDepth
      BY <1>0, <2>1 DEF Tick, Ticks
    <3>3. n <= QueueDepth \/ QueueDepth >= MaxQueueDepth
      BY <1>0 DEF QueueDepth
    <3> HIDE DEF n
    <3> QED BY <1>2, <3>1, <3>2, <3>3 DEF Alone, Measured, n
  <2>2. CASE Postpone(s) \/ Crash(s) \/ Start(s)
    <3>1. sch'[s].at \in {"idle", "down"} /\ UNCHANGED runs
      BY <1>0, <2>2 DEF Postpone, Crash, Start, Fresh, tables
    <3> QED BY <1>2, <3>1 DEF Alone, Measured
  <2>3. CASE ConsiderPlan(s) \/ Prepare(s)
    <3>1. sch[s].at \in {"loop", "prepare"} /\ (Prepare(s) => sch[s].at = "prepare")
      BY <2>3 DEF ConsiderPlan, Prepare
    <3>2. /\ n <= sch[s].depth \/ sch[s].depth >= MaxQueueDepth
          /\ Prepare(s) => sch[s].depth < MaxQueueDepth
      BY <3>1 DEF DepthInv, Measured
    <3>3. n' <= n /\ QueueStaysShallow'
      BY <1>2, <2>3, DepthCarried DEF DepthInv, TypeInv
    <3>4. \/ sch'[s].at = "idle"
          \/ sch'[s].at = "loop" /\ sch'[s].depth = sch[s].depth
          \/ sch'[s].depth = sch[s].depth /\ sch[s].depth < MaxQueueDepth
      BY <2>3, <3>2, DepthCarried DEF DepthInv, TypeInv
    <3> HIDE DEF n
    <3>5. n' <= sch[s].depth \/ sch[s].depth >= MaxQueueDepth
      BY <1>0, <3>2, <3>3
    <3> QED BY <3>3, <3>4, <3>5 DEF Alone, Measured, n
  <2>4. CASE Claim(s)
    BY <1>1, <2>4, ClaimMeasured
  <2> QED BY <1>3, <2>1, <2>2, <2>3, <2>4 DEF Schedule
<1>4. CASE (\E r \in runs : Settle(r)) \/ Advance \/ UNCHANGED vars
  <2>1. UNCHANGED <<runs, sch>>
    BY <1>4 DEF Settle, Advance, vars, tables
  <2> HIDE DEF n
  <2>2. \A s \in Schedulers : n <= sch[s].depth => n' <= sch[s].depth
    BY <1>0, <1>2, <2>1
  <2> QED BY <1>1, <1>2, <2>1, <2>2 DEF DepthInv, Measured, n
<1> QED BY <1>1, <1>3, <1>4 DEF Alone, Next, DepthInv

\* A lone scheduler never makes the queue deeper than max_queue_depth, while
\* the limit fits in one page of runs and its claims are answered.
THEOREM ShallowAlone ==
  ASSUME Alone, "lostreply" \notin Faults, MaxQueueDepth <= ListLimit
  PROVE  Spec => []QueueStaysShallow
<1>1. Init => DepthInv
  <2> SUFFICES ASSUME Init PROVE DepthInv
    OBVIOUS
  <2>1. Active = {} /\ Cardinality(Active) = 0
    BY FS_EmptySet DEF Init, Active
  <2>2. Measured
    BY DEF Init, Measured, Fresh
  <2> QED BY <2>1, <2>2, TypeInit, LimitsAssumption DEF DepthInv, QueueStaysShallow
<1>2. DepthInv => QueueStaysShallow
  BY DEF DepthInv
<1> QED BY <1>1, <1>2, MeasuredNext, PTL DEF Spec

=============================================================================
