----------------------------- MODULE Scheduler -----------------------------
(***************************************************************************)
(* Who puts drills on the queue: the scheduler processes of                *)
(* internal/scheduler, which decide the slots of the stored plans, the     *)
(* requests of internal/api/trigger.go, and the guard both share           *)
(* (internal/trigger).  The tables are schedule_slots and runs; what       *)
(* becomes of a queued run is module DrillQueue, here it only settles.     *)
(*                                                                         *)
(* Time is counted in cron minutes, so the instants of one minute coincide. *)
(* The catalogue does not change while the model runs, so reading it is    *)
(* not a step.                                                             *)
(***************************************************************************)
EXTENDS Naturals, FiniteSets

CONSTANTS
  NumPlans,       \* the catalogue, in the order of the names: 1 .. NumPlans
  Workload,       \* Workload[p]: what plan p drills
  Cron,           \* Cron[p]: the instants its schedule designates; {}: none
  Broken,         \* plans whose stored document no longer parses
  Wall,           \* Wall[t]: what the plans' zone shows at instant t
  Schedulers,     \* processes running the scheduler
  Clients,        \* POST /recovery-runs requests: client c asks for ...
  Asks,           \* ... plan Asks[c]
  None,
  Grace,          \* how late a slot may be and still run
  MaxQueueDepth,
  ListLimit,      \* store.DefaultListLimit
  MaxCollapse,    \* how many missed slots one tick steps over
  Faults,         \* "crash", "store": a statement fails, "lostreply": its answer is lost
  MaxTime,        \* the model's horizon
  MaxOutages      \* bound on crashes

Plans == 1 .. NumPlans
Times == 0 .. MaxTime

ASSUME CatalogueAssumption ==
  /\ NumPlans \in Nat \ {0} /\ MaxTime \in Nat
  /\ Cron \in [Plans -> SUBSET Times] /\ Broken \subseteq Plans
  /\ DOMAIN Workload = Plans /\ DOMAIN Wall = Times
ASSUME LimitsAssumption ==
  /\ Grace \in Nat /\ MaxQueueDepth \in Nat \ {0} /\ ListLimit \in Nat \ {0}
  /\ MaxCollapse \in Nat \ {0} /\ MaxOutages \in Nat
ASSUME ActorsAssumption ==
  /\ Asks \in [Clients -> Plans] /\ Schedulers \cap Clients = {}
  /\ None \notin Times /\ Faults \subseteq {"crash", "store", "lostreply"}

VARIABLES
  now,      \* the clock
  slots,    \* slots[p][t]: the row of schedule_slots, "none" when there is none
  runs,     \* every run row ever inserted
  settled,  \* those in a terminal state
  sch,      \* sch[s]: the tick of scheduler s
  client,   \* client[c]: where the request stands
  outages

tables == <<slots, runs, settled>>
vars == <<now, tables, sch, client, outages>>

Rows == [plan : Plans, slot : Times \cup {None}, by : Schedulers \cup Clients]

\* plan, slot and skip: what the tick is about; depth: what it measured.
Ticks == [at : {"down", "idle", "loop", "prepare", "claim"}, plan : Plans,
          depth : Nat, slot : Times \cup {None}, skip : BOOLEAN, started : Times]

TypeOK ==
  /\ now \in Times
  /\ slots \in [Plans -> [Times -> {"none", "queued", "skipped"}]]
  /\ runs \subseteq Rows /\ settled \subseteq runs
  /\ sch \in [Schedulers -> Ticks]
  /\ \A s \in Schedulers : sch[s].at \in {"prepare", "claim"} => sch[s].slot # None
  /\ client \in [Clients -> {"new", "enqueue", "refused", "done"}]
  /\ outages \in 0 .. MaxOutages

Fresh(t) == [at |-> "idle", plan |-> 1, depth |-> 0, slot |-> None,
             skip |-> FALSE, started |-> t]

Init ==
  /\ now = 0
  /\ slots = [p \in Plans |-> [t \in Times |-> "none"]]
  /\ runs = {} /\ settled = {}
  /\ sch = [s \in Schedulers |-> Fresh(0)]
  /\ client = [c \in Clients |-> "new"]
  /\ outages = 0

-----------------------------------------------------------------------------
(* The queries.                                                            *)

Active == runs \ settled

\* ActiveRunForWorkload: the drills in flight for what plan p drills.
ActiveRunForWorkload(p) == {r \in Active : Workload[r.plan] = Workload[p]}

\* LastSlot: the latest decided slot; no element is ErrNotFound.
LastSlot(p) == {t \in Times : /\ slots[p][t] # "none"
                              /\ \A u \in Times : slots[p][u] # "none" => u <= t}

\* queueDepth: the length of one page of the unsettled runs.
QueueDepth == IF Cardinality(Active) < ListLimit THEN Cardinality(Active) ELSE ListLimit

\* ListPlans: one page of the catalogue.
Page == {p \in Plans : p <= ListLimit}

-----------------------------------------------------------------------------
(* decide.  A set of at most one element stands for an instant or nil.     *)

\* Schedule.Next, of the instant in after.
Next1(p, after) ==
  {x \in Cron[p] : \E a \in after : x > a /\ \A y \in Cron[p] : y > a => x <= y}

\* Mutant of Floor: the later of the last slot and the start.
FloorLater(last, started) ==
  IF \E t \in last : t > started THEN last ELSE {started}

\* Where to resume from: the start only for a plan without history.
Floor(last, started) == IF last = {} THEN {started} ELSE last

\* Mutant of FirstSlot: the repeated hour is not recognised.
FirstSlotNaive(p, last, started) == Next1(p, Floor(last, started))

\* The next slot, passing over one that shows the last one's wall clock again
\* (the autumn fall-back).
FirstSlot(p, last, started) ==
  LET slot == Next1(p, Floor(last, started))
  IN  IF \E t \in last, x \in slot : Wall[x] = Wall[t] THEN Next1(p, slot) ELSE slot

\* The most recent slot that is due, at most MaxCollapse slots on.
Decide(p, last, started, t) ==
  LET due == {x \in Cron[p] : x <= t /\ \E f \in FirstSlot(p, last, started) : f <= x}
      missed(x) == Cardinality({y \in due : y < x})
  IN  {x \in due : \/ missed(x) = MaxCollapse
                   \/ missed(x) < MaxCollapse /\ \A y \in due : y <= x}

Late(slot, t) == t > slot + Grace

-----------------------------------------------------------------------------
(* One tick.                                                               *)

\* The loop goes on with the next plan of the page, or the tick is over.
NextPlan(tick) ==
  IF tick.plan + 1 \in Page
    THEN [tick EXCEPT !.at = "loop", !.plan = tick.plan + 1, !.slot = None, !.skip = FALSE]
    ELSE Fresh(tick.started)

\* ListPlans and queueDepth; when one of them fails nothing happens.
Tick(s) ==
  /\ sch[s].at = "idle"
  /\ sch' = [sch EXCEPT ![s].at = "loop", ![s].depth = QueueDepth]
  /\ UNCHANGED <<now, tables, client, outages>>

\* A full queue ends the tick and writes nothing.
Postpone(s) ==
  /\ sch[s].at = "loop" /\ sch[s].depth >= MaxQueueDepth
  /\ sch' = [sch EXCEPT ![s] = Fresh(sch[s].started)]
  /\ UNCHANGED <<now, tables, client, outages>>

\* considerPlan up to its decision.  A plan that cannot be read is skipped at
\* the present instant; a last slot that cannot be read leaves the plan alone.
ConsiderPlan(s) ==
  /\ sch[s].at = "loop" /\ sch[s].depth < MaxQueueDepth
  /\ LET p == sch[s].plan
         decision == Decide(p, LastSlot(p), sch[s].started, now)
     IN  \/ /\ p \in Broken
            /\ sch' = [sch EXCEPT ![s].at = "claim", ![s].slot = now, ![s].skip = TRUE]
         \/ /\ p \notin Broken
            /\ \E t \in decision :
                 sch' = [sch EXCEPT ![s].at = IF Late(t, now) THEN "claim" ELSE "prepare",
                                    ![s].slot = t, ![s].skip = Late(t, now)]
         \/ /\ p \notin Broken /\ (decision = {} \/ "store" \in Faults)
            /\ sch' = [sch EXCEPT ![s] = NextPlan(sch[s])]
  /\ UNCHANGED <<now, tables, client, outages>>

\* Mutant of Prepare: a slot is claimed whether the workload is busy or not.
PrepareUnguarded(s) ==
  /\ sch[s].at = "prepare"
  /\ sch' = [sch EXCEPT ![s].at = "claim"]
  /\ UNCHANGED <<now, tables, client, outages>>

\* trigger.Prepare: a busy workload makes the slot a skipped one.
Prepare(s) ==
  /\ sch[s].at = "prepare"
  /\ \/ sch' = [sch EXCEPT ![s].at = "claim",
                           ![s].skip = ActiveRunForWorkload(sch[s].plan) # {}]
     \/ "store" \in Faults /\ sch' = [sch EXCEPT ![s] = NextPlan(sch[s])]
  /\ UNCHANGED <<now, tables, client, outages>>

\* Mutant of ClaimSlot: no transaction, the run of a refused slot stays.
ClaimSlotApart(s, p, t, skip) ==
  /\ runs' = IF skip THEN runs ELSE runs \cup {[plan |-> p, slot |-> t, by |-> s]}
  /\ slots' = IF slots[p][t] # "none" THEN slots
              ELSE [slots EXCEPT ![p][t] = IF skip THEN "skipped" ELSE "queued"]

\* ClaimSlot: the slot and its run in one transaction, or ErrDuplicate.
ClaimSlot(s, p, t, skip) ==
  \/ /\ slots[p][t] = "none"
     /\ slots' = [slots EXCEPT ![p][t] = IF skip THEN "skipped" ELSE "queued"]
     /\ runs' = IF skip THEN runs ELSE runs \cup {[plan |-> p, slot |-> t, by |-> s]}
  \/ slots[p][t] # "none" /\ UNCHANGED <<slots, runs>>

\* Mutant of Counted: the depth stays what the tick measured.
CountedOnce(s) == sch[s].depth

\* The depth after a claim that was answered.
Counted(s) ==
  IF sch[s].skip \/ slots[sch[s].plan][sch[s].slot] # "none" THEN sch[s].depth
  ELSE sch[s].depth + 1

\* claim, and on to the next plan.
Claim(s) ==
  /\ sch[s].at = "claim"
  /\ \/ /\ ClaimSlot(s, sch[s].plan, sch[s].slot, sch[s].skip)
        /\ sch' = [sch EXCEPT ![s] = NextPlan([sch[s] EXCEPT !.depth = Counted(s)])]
     \/ /\ "lostreply" \in Faults
        /\ ClaimSlot(s, sch[s].plan, sch[s].slot, sch[s].skip)
        /\ sch' = [sch EXCEPT ![s] = NextPlan(sch[s])]
     \/ /\ "store" \in Faults
        /\ UNCHANGED <<slots, runs>>
        /\ sch' = [sch EXCEPT ![s] = NextPlan(sch[s])]
  /\ UNCHANGED <<now, settled, client, outages>>

-----------------------------------------------------------------------------
(* handleTriggerRun: the same guard, then a statement of its own.          *)

AskForDrill(c) ==
  /\ client[c] = "new"
  /\ client' = [client EXCEPT ![c] =
       IF ActiveRunForWorkload(Asks[c]) = {} THEN "enqueue" ELSE "refused"]
  /\ UNCHANGED <<now, tables, sch, outages>>

Enqueue(c) ==
  /\ client[c] = "enqueue"
  /\ runs' = runs \cup {[plan |-> Asks[c], slot |-> None, by |-> c]}
  /\ client' = [client EXCEPT ![c] = "done"]
  /\ UNCHANGED <<now, slots, settled, sch, outages>>

-----------------------------------------------------------------------------
(* Around them.                                                            *)

\* A worker settles a drill.
Settle(r) ==
  /\ r \in Active
  /\ settled' = settled \cup {r}
  /\ UNCHANGED <<now, slots, runs, sch, client, outages>>

Advance ==
  /\ now < MaxTime
  /\ now' = now + 1
  /\ UNCHANGED <<tables, sch, client, outages>>

\* The process stops or dies, anywhere in a tick.
Crash(s) ==
  /\ "crash" \in Faults /\ outages < MaxOutages /\ sch[s].at # "down"
  /\ sch' = [sch EXCEPT ![s] = [Fresh(0) EXCEPT !.at = "down"]]
  /\ outages' = outages + 1
  /\ UNCHANGED <<now, tables, client>>

\* New: a plan without history begins now.
Start(s) ==
  /\ sch[s].at = "down"
  /\ sch' = [sch EXCEPT ![s] = Fresh(now)]
  /\ UNCHANGED <<now, tables, client, outages>>

Schedule(s) == Tick(s) \/ Postpone(s) \/ ConsiderPlan(s) \/ Prepare(s) \/ Claim(s)

Next ==
  \/ \E s \in Schedulers : Schedule(s) \/ Crash(s) \/ Start(s)
  \/ \E c \in Clients : AskForDrill(c) \/ Enqueue(c)
  \/ \E r \in runs : Settle(r)
  \/ Advance

Spec == Init /\ [][Next]_vars

\* The ticker ticks and its statements return, a process that is down comes
\* back, and drills settle (DrillQueue's QueuedRunsSettle).
FairSpec ==
  /\ Spec
  /\ \A s \in Schedulers : WF_vars(Schedule(s)) /\ WF_vars(Start(s))
  /\ WF_vars(\E r \in runs : Settle(r))

-----------------------------------------------------------------------------
(* What must hold.                                                         *)

\* "A run queued here either has a slot accounting for it or never existed at
\* all" (ClaimSlot): a slot recorded as queued names a run, a scheduled run has
\* its slot, and no slot is drilled twice, whoever dies or races.
RunsAreAccounted ==
  /\ \A r \in runs : r.slot # None => slots[r.plan][r.slot] = "queued"
  /\ \A p \in Plans : \A t \in Times :
       slots[p][t] = "queued" => \E r \in runs : r.plan = p /\ r.slot = t
  /\ \A r, q \in runs : r.slot # None /\ r.plan = q.plan /\ r.slot = q.slot => r = q

\* A decision is final: the second claim of a slot is refused and changes
\* nothing (insertSlotSQL).
DecisionsStand ==
  [][\A p \in Plans : \A t \in Times :
       slots[p][t] # "none" => slots'[p][t] = slots[p][t]]_vars

\* The slot or a later one that collapsed it is decided, or it repeated the
\* wall clock of a decided one.
Answered(p, t) ==
  \E u \in Times : slots[p][u] # "none" /\ (u >= t \/ Wall[u] = Wall[t])

\* A slot that came due is never silently forgotten, through restarts, full
\* queues, busy workloads and long outages, once the plan has a history
\* (decide: "That silence is the failure this table exists to prevent").
DueSlotsAreDecided ==
  \A p \in Page \ Broken : \A t \in Cron[p] :
    (now >= t /\ \E u \in Times : u < t /\ slots[p][u] # "none") ~> Answered(p, t)

\* Two drills of one workload overlap only when two triggers passed the guard
\* before either had written: nobody, scheduler or request, starts a drill beside
\* one of its own, through restarts, lost answers and plans sharing a workload
\* (Prepare reads, ClaimSlot and EnqueueRun write in a statement of their own).
OverlapNeedsTwoTriggers ==
  \A r, q \in Active : Workload[r.plan] = Workload[q.plan] /\ r.by = q.by => r = q

\* "One drill per workload at a time ... a dashboard that double-clicks must not
\* queue two of them" (Prepare): so for a scheduler alone, and false as soon as
\* two triggers race between the guard and the insert.  No run checks it.
OneDrillPerWorkload ==
  \A r, q \in Active : Workload[r.plan] = Workload[q.plan] => r = q

\* A scheduled hour that happens twice drills once (decide, sameWallClock).
OncePerWallClock ==
  \A p \in Plans : \A t, u \in Times :
    slots[p][t] = "queued" /\ slots[p][u] = "queued" /\ Wall[t] = Wall[u] => t = u

\* The scheduler alone never makes the queue deeper than it is told to.
QueueStaysShallow == Cardinality(Active) <= MaxQueueDepth

\* "A plan carrying a schedule is drilled on its own" (docs/recovery-plans.md):
\* the due slot of every plan is decided.
EveryPlanIsScheduled ==
  \A p \in Plans \ Broken : \A t \in Cron[p] : t > 0 /\ now >= t ~> Answered(p, t)

=============================================================================
