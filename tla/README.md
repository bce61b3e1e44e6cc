# RestoreLab in TLA+

RestoreLab proves that backups restore. A *drill* takes the newest backup of a
workload, restores it to a temporary workload on the hypervisor, cuts that off
from production, boots it, runs checks against it, grades what it learned and
deletes it again. A drill is not idempotent: replaying one restores a second
time, and losing track of one leaves a clone of production on the cluster. Around
it are the parts that decide which drills run, that tell people what they
established, and that hold the credentials. The specifications below are about
what is executed once, what is announced, what a verdict, an alert, a report or a
score may rest on, and what a failure half way leaves behind.

## The system and its parts

| Component (source) | State | Operations | Interacts with |
|---|---|---|---|
| Run queue and leases (`internal/store/queue.go`, `runs.go`) | one row per run: state, lease owner and expiry, cancel flag, temporary id, error | enqueue, claim, renew, finish lease, request cancel, set state, list stale, final update | every other part, through the database only |
| Worker (`internal/worker`) | semaphore, in-flight map, one context per drill | claim loop, execute, hold the lease, sweep stale runs, shut down | queue, engine, hypervisor |
| Recovery engine (`internal/recovery`) | the run in memory: steps, proof level, results, verdict, whether cleanup is owed | seven steps and a deferred block that grades and cleans up | hypervisor, checks, journal (events) |
| Check runner and types (`internal/checks`) | position and attempts; the history of a captured value | RunAll, RunOne with retries; one network or guest call each, captures, bounds and drift | engine, journal (values) |
| Journal (`internal/journal`, `store/events.go`, `steps.go`, `checks.go`, `values.go`) | what was already recorded of a run | Emit (mirrors states, names the temporary workload), Finish | engine events to rows; reports and streams read them |
| Event stream (`internal/api/sse.go`) | the last sequence number sent | poll events, end on a terminal state, drain | the journal's events, the page |
| Proof levels (`internal/core/proof.go`, `plan/proof.go`) | none | rank, raise, proven by | engine, reports, notifications |
| Reports and confidence (`internal/report`) | none | score the newest runs of a workload | the runs table |
| Proxmox provider (`internal/providers/proxmox`) | none of its own; the cluster's tasks and workloads | allocate an id, restore, wait for a task, harden, start, stop, delete | engine, sweep, operator cleanup |
| Scheduler (`internal/scheduler`, `store/schedule.go`) | decided slots per plan | tick: decide, prepare, claim a slot with its run | queue, plans |
| Trigger and cancellation API (`internal/api/trigger.go`, `internal/trigger`, `internal/adhoc`) | none | queue a drill of a plan or an ad-hoc one, cancel, clean up by hand | queue, catalogue, provider |
| Plans and catalogue (`internal/plan`, `internal/catalog`, `store/plans.go`, `api/plans.go`) | a row per plan: name, document, version | parse, validate, render; create, update, delete, apply | trigger, scheduler |
| Notifications (`internal/notify`, `store/notify.go`) | claimed runs, deliveries and their attempts | decide, queue a message, post, retry, record | queue (read), channels |
| Sessions and tokens (`internal/api/auth.go`, `session.go`, `store/tokens.go`, `sessions.go`) | tokens with scopes, sessions, the touch throttle | create, revoke, sign in and out, admit a request | every API route |
| Configuration and secrets (`internal/config`, `internal/crypto`, `cli/notify.go`, `api/notifications.go`) | the file, the master key, the copy a running server holds | load, edit, save, seal | dispatcher, provisioning |
| Provisioning and first-run setup (`cli/provision.go`, `cli/connect.go`, `cli/setup.go`, `api/setup.go`, `providers/proxmox/bootstrap.go`, `network_admin.go`) | the cluster's roles, pool, account, ACLs, token and bridge; the setup token | bootstrap, store the secret, verify, make the bridge, mint the dashboard's token | Proxmox, configuration |
| PBS provider, diagnostics, migrations, web interface, command line | see `PROJECT.json` | | |

Hard behaviours: processes that share nothing but a database, a file and a cluster
and may die between any two calls; a lease that is renewed by one goroutine while
another does the work; a cancelled context that stops the renewal but not the
cleanup; two sweeps of one run; two dispatchers on one queue of messages; provider
calls whose effect outlives the caller (a restore task) or whose answer is lost;
statements that fail one at a time; temporary ids that are picked but not
reserved; look-ups and writes that are two statements (a plan's name, a session's
token, a workload's running drill); a configuration that several processes load,
edit and write back whole; a dozen administrator's calls that stop anywhere and are
run again. `PROJECT.json` lists them as hazards, each at the line where it bites
and with the properties that cover it.

What makes each modelled part correct:

* queue and worker: a run is executed at most once; it settles once, after the
  last goroutine driving it, and for good; every queued run settles; a workload
  is named by a row before it exists, and is announced if it outlives its run;
* engine: nothing un-hardened is powered on; a verdict rests on answers; the
  proof level was earned; what is left behind was asked for or is announced;
  every drill ends;
* checks, proof and score: a check that nobody answered decides nothing; DATA means
  that the data was read; one collapsed reading does not become the baseline; a good
  drill does not lower the score;
* scheduler and trigger: a slot is decided once and drilled at most once; a due
  slot is never forgotten; drills of one workload overlap only where two triggers
  raced; the queue stays within its limit;
* catalogue: a name has one row; a guarded write replaces what its author read; a
  queued drill executes the very version of the plan that it names;
* journal and stream: a report with an outcome has the whole timeline; a page that
  follows a drill misses nothing, repeats nothing, believes it over only when it
  is, and is let go;
* notifications: every drill is considered once; a message is accepted once where
  anything can tell; every message settles; what a channel last accepted is true;
* access: nothing is served for a revoked token; the last use is known to within
  one interval, or is being written;
* configuration and provisioning: no answered edit is lost; one key opens every
  secret; no grant is wider than asked for, wherever provisioning stops; nobody is
  told that a bridge with an uplink is isolated; the stored secret fits the stored
  token; one set-up at a time.

## Modules

```
DrillLifecycle  <-- implemented by --  DrillQueue  <-- MCDrillQueue, DrillQueueProofs
EngineContract  <-- implemented by --  Engine      <-- MCEngine, EngineProofs
                          (DrillQueue's engine steps are EngineContract's actions)
Scheduler  <-- MCScheduler, SchedulerProofs   (what it queues is DrillQueue's Enqueue)
Story  <-- Notify  <-- MCNotify, NotifyProofs (the drills that end are DrillQueue's)
PlanRules  <-- Catalogue
PlanRules  <-- CheckTypes, Confidence  <-- Assurance
               Catalogue, Assurance   <-- MCPlans, PlansProofs
               Access, Journal        <-- MCApi, ApiProofs
               ConfigFile, Provision  <-- MCSetup;  ConfigProofs, ProvisionProofs
```

**DrillLifecycle** is what the queue promises: a drill is submitted, withdrawn or
taken by one driver, possibly abandoned, and settled once.

**DrillQueue** models `store/queue.go`, `store/runs.go` (`UpdateRun`), `worker/*.go`
and the writes of the journal the queue depends on. A row is one entry of
`state, owner, lease, asked, temp, err`; `vm` is the cluster; `pc, halted, tmp,
grade` are the goroutine executing a run; `sweep` is the reconciliation loop of
each process. Each database statement and each provider call is a step of its
own, because a process may die and others may run in between: `SweepSettle`,
`SweepNote` and `SweepRelease` are the three statements of `settle`, `Finish` and
`Release` the two of the end of `execute`. Time is abstracted to whether a lease
has run out; `RenewalsEnded` says when it may. The states from
`DISCOVERING_BACKUP` to `RUNNING_CHECKS` are one value, `RUNNING`: no statement of
the queue tells them apart. `Faults` names what the environment may do beyond
scheduling, so that each run states the weakest environment its properties need.

**EngineContract** is one drill as `DrillQueue` takes it: reserve, restore, grade
once, clean up once, hand back. `DrillQueue`'s actions `Reserve`, `Restore`,
`AbortEarly`, `GradeDrill` and `CleanupDrill` are this module's with the row added,
so the two detailed models meet here and are never explored together. Dry runs
(`Rehearse`) are the one action the queue never takes: the worker does not pass
the option.

**Engine** models `internal/recovery` (`Run`, every step, `retry`, the deferred
block, `cleanup`), `checks.RunAll`/`RunOne` and `core/proof.go`. One action is one
provider call or check attempt with everything the engine does on its return.
`plan` is the part of plan, options and network that control depends on; `task`
and `wl` are the cluster's restore task and the workload, which move on their own
(`TaskEnds`). Durations are abstracted to whether a target was met (`slow`), a
backup to whether discovery accepted it.

**Scheduler** models who puts drills on the queue: `internal/scheduler` (the tick,
the postponement of a full queue, `decide`, `claim`), `store/schedule.go`, the guard
of `internal/trigger` and the request of `api/trigger.go` that shares it. `slots` is
`schedule_slots`, `runs` and `settled` the run rows; `sch` is the tick of each
scheduler: the plan its loop is at, the depth it measured, the slot it decided.
Reading the last slot and deciding, `Prepare` and `ClaimSlot` are three steps,
because other schedulers and requests run in between; `ClaimSlot` is one, because
it is a transaction. A cron expression is the set of instants it designates (an
invalid schedule or none: the empty set), `Wall` what the clock on the wall shows,
so that the repeated hour of the autumn is two instants with one face. A claim's
answer may be lost, or the claim fail; a request whose insert fails is one that
never takes its second step. What becomes of a queued run is `DrillQueue`'s matter:
here it settles.

**Story** is `story.go` and `collapse.go` as operators: `Decide` compares what a run
established with what the workload established before it, `DecideCollapse` the values
it captured with the earlier ones.

**Notify** models `dispatcher.go`, `deliver.go` and `store/notify.go`: dispatchers
that share a database read a batch of finished drills (`ReadRuns`; `listed` is the
order of that list: by completion, or by the start of a drill that was interrupted
and has none), claim one (`Claim`), read what came before and
decide (`Judge`), write one row per channel (`Queue`), read what is due (`ReadDue`),
post it (`Post`) and record the outcome (`Settle`). Every read, write and POST is a
step; `mail` is what a dispatcher read and has still to post, so two of them may
hold the same row. There is no clock: a row comes due, and a drill becomes too old
to be news, by an action of its own. An operator edits the channels at any time.

A drill counts as heard where the channel accepted a message about it (`accepted`),
not where a row says so.

**PlanRules** is `internal/plan` as operators on documents: `UnmarshalCheck` (the
keys a check knows become fields, the others params), `Parse` with its defaults and
refusals, `Marshal`, which is not `Parse`'s inverse on every document, the ad-hoc
plan of a request, and the proof level a check would earn.

**Catalogue** models the plans table and the calls in flight on it (`catalog.Save`,
`api/plans.go`, `cli/plan.go`, `api/trigger.go`), each the sequence of its statements:
look the name up, then create or update; read, edit, then PUT with or without a
guard; delete; read a plan, then queue a run of it with the snapshot that a worker
will parse. `Save` looks a name up as a reference, so that a name which begins an id
finds that row (`Abbreviates` says which names begin which ids); the update then
renames it. `written` remembers every document an id has carried.

**CheckTypes** is what one attempt of each type reports, given how its call ended
(`Circumstances`): reachability, bounds, the baseline (the readings by rank, the
median of them doubled to stay an integer) and the drift from it. **Confidence** is
`report.Score` with its weights and rounding. The runs are a sequence, oldest first,
and a page of the newest is a set of positions in it. **Assurance** puts them in
sequence: the drills of one workload over time, each with a check (`silent` remembers
whether nobody answered it), what the restored data really holds, the captured
history, the verdict, the proof level and the score read some days later.

**Access** models tokens, scopes, sessions, the browser's cookie, the touch throttle
and the admission of a request. The throttle remembers a touch under its lock, and
the write that follows is a step of its own (`TouchToken`): it may fail, die with the
process or be overtaken by a later one. Looking the token up and writing the session are
two steps of a sign-in; a request is admitted and served in two, so that a
revocation may fall in between. The clock is a bounded counter.

**Journal** models one drill's history: `Recorder.Emit` and `Finish` write by write
(each may fail and is then only a warning; the process may be killed), the readers
that load a document in three queries, the stream's handler (poll, read the state,
wait, drain) and the page that folds its frames and reconnects from its last id. A
drill is a worker's (`leased`, reconciled when its process dies) or one started
from a terminal, which is not.

**ConfigFile** models who loads, edits and writes the configuration: a running
`serve`, which keeps the copy it loaded and writes it back for every edit of a
channel, and commands beside it; and the making of the master key, which is created
empty and then filled. A key is named by the command that made it, so that
"sealed under another key" is visible.

**Provision** models `cli/provision.go` and everything it calls, for `connect`, for
`network create` and for the wizard: one action per request to the cluster, each of
which may be refused, or be carried out with the answer lost (`Fault`, `Effect`); the
order of roles, grants and token in `Bootstrap`, under whatever role the call names
(`--role`: the read role and another call's included); the secret that is stored or
kept; the bridge; the setup token (compared, then compared again and spent), the
hand-over and the restart. An administrator may delete a token in Proxmox. A bridge is
absent, written and not yet applied, active, one with an uplink, or one in use without
an uplink (an address, or no bridge at all). Which nodes and storages a cluster has is
abstracted to one of each.

**MCPlans**, **MCApi** and **MCSetup** each hold two modules that share no state.
Their variable `focus` picks the one that moves, so that one run explores the sum
of the two and not the product. **MCDrillQueue**, **MCEngine**, **MCScheduler** and
**MCNotify** hold the instances of one module.

## Runs

All runs say `CHECK_DEADLOCK FALSE`: a queue whose runs have all settled, a drill
that has been handed back and a browser with nothing to ask really do stop, and the
bounds end the others.

| Run | Instance | Shows |
|---|---|---|
| `queue_settled` | 1 run, 2 workers, 2 ids, 2 outages; crashes, failing statements, lost answers, unreachable provider, manual cleanup | nobody drives a settled run; a final state stands; the queue implements `DrillLifecycle`, in which a drill is taken once |
| `queue_orphans` | 2 runs with opposite cleanup policies, 2 workers, 2 ids, 1 outage; crashes, manual cleanup | every workload is named by a row; one that outlives its run is announced or kept by policy, and the message of a run that says `CLEANUP_FAILED` names it; no claimed run is invisible to sweeps and claims |
| `queue_live` | 2 runs competing for 1 slot and 1 id, 1 worker, 2 outages; crashes | every queued run settles, a stopping worker stops |
| `engine` | every valid combination of plan, options and network, a critical and an optional check with one retry, lost answers | hardening before power, verdicts, proof levels, leftovers, `EngineContract`, termination |
| `scheduler_alone` | 1 scheduler, 5 plans: two on one workload, one that does not parse, one on the repeated hour; room for 2 drills, 1 crash, failing statements | the repeated hour is drilled once; the queue stays within its limit |
| `scheduler_once` | 2 schedulers and a request on 1 plan with 2 slots, room for 1 drill, 2 crashes, lost answers | a slot has exactly the run it queued; drills of the workload overlap only where two triggers raced; a slot that comes due after the plan's first is decided, or collapsed into a later one |
| `notify_queue` | 2 dispatchers, one drill, a channel that is edited, two attempts, 1 outage of any kind | a message is accepted twice only where nothing can tell; every drill is considered; every message settles |
| `notify_story` | 1 dispatcher, 4 drills with each of eight endings | the newest drill a channel accepted a message about still says what the last verdict is |
| `setup` | file: 2 requests and commands beside `serve`, 2 edits. Cluster: 2 callers, 2 calls of `connect` with five sets of options (one names the read role for drills), the wizard or `network create`, 2 faults and no bridge, or no fault and a bridge's name in use, a Proxmox that lacks one privilege | answered edits are kept; one key; no wide grant; the stored secret fits; one set-up at a time |
| `api` | access: tokens under one name, sessions, 3 instants, writes of the last use under way. Journal: a drill of a worker or of a terminal with two steps and a check, 2 faults among failing writes, a kill, a cut and a drain | refusal after revocation; last use; whole reports; faithful streams; streams end |
| `plans` | catalogue: 2 clients, 3 documents, 3 written in all, one under a name that begins both ids, an ad-hoc drill. Assurance: 4 drills of each of five checks, in five circumstances, a page of 3 runs, the score read at once or 17 days later | guarded writes; provenance; silence decides nothing; drift, proof and score |
| `queue_v_reuse` | 2 workers, 1 id | violated: see below |

### Bounds

`Concurrency = 1`: one slot is the default and the tightest, and what two drills
do to each other needs two runs, not two slots. Two workers are what the
interesting races need (a sweep against a drill, a sweep against a sweep); a third
would repeat one of the roles. One run is enough where the property is about
one row; the two-run instances are those where ids, slots or policies are shared.
`MaxOutages` 2 lets a process die in the drill and again in the sweep that
settles it. In `Engine`, two checks with one retry reach every combination of
verdicts, critical and optional, first attempt and last; `MaxPolls = 1` reaches
"not ready yet" and "timed out". In `Scheduler`, `MaxTime` covers a slot, its
repetition, the grace period and a slot after it; `MaxCollapse = 1` (10 000 in the
code) makes the limit of the collapse reachable; two crashes take both schedulers
across a slot, which one crash does not. A lone scheduler is what
`scheduler_alone`'s properties are about: a second one counts the queue, and picks a
slot, on its own. The race between two triggers is in `scheduler_once`.

In `Notify`, a drill and two dispatchers are the whole of the race for a row (what
several drills do to each other is `notify_story`), two attempts reach a retry and its
end (four in the code), and four drills reach a change, its repetition, an unevaluable
drill and a cancelled one in any order; `LastWordIsTrue` was also checked with two
drills under way at once (`MaxRunning = 2`), which is where its condition `InOrder`
comes from. In `Catalogue`, two clients, three documents and three writes reach every
interleaving of look-up and write, and a creation, somebody's update and a stale write
after it; a third client repeats a role; the document whose name begins both ids makes
`Save` find, and rename, a plan it does not mean, and refuse when it finds two. In
`Assurance`, the values 0 and 4 are a baseline of zero, a collapse from 4 and, with a
bound of 3, a value out of bounds; `DriftWindow = 3` (5 in the code) lets a collapse
enter, outvote and leave the window within four drills; `HistoryDepth = 3` (20 in the
code) lets the fourth drill push a run, good or bad, off the page the score reads; 0
and 17 days are the ends of the time for which `SuccessNeverLowers` promises anything
(`Headroom`), where the penalty for age is least and greatest. In `Provision`, two
calls and two faults reach a stop at every step, the re-run over what is left, and two
calls interleaved, of which one may name a role the other relies on; where the bridge's
name is in use nothing else fails, as that is one refusal more; a bridge that is
pending, active or carries the uplink is not in the run, and is in `BridgesStay`,
which is proved for all. In `Access`, `Lifetime = 1` and `TouchInterval = 2` of three
instants reach an expiry and a throttled touch.

Ids, workers, clients and callers are symmetric where the configurations say so, in runs
without liveness only.

### Fairness

`DrillQueue!Fairness`: goroutines are scheduled and every call they make has a
timeout (`Execute`, `Reconcile`, `Exit`), tickers tick (`Tick`, the claim poll),
time passes (`LeaseExpires`), and a process that is down is started again by
whatever supervises it: reconciliation at startup is written for that. Nobody has
to enqueue, cancel, stop or fail. The claim loop is fair as a whole, not per run:
`ClaimRun` orders by age, but SKIP LOCKED may pass over a row. `Engine!FairSpec`:
`Run` is scheduled and the cluster finishes its tasks. The last one is an assumption
about Proxmox that the code makes too: `WaitForTask` has no timeout of its own.
`Scheduler!FairSpec`: the ticker ticks and its statements return, a scheduler that is
down is started again, and drills settle, which is `DrillQueue`'s `QueuedRunsSettle`;
the runs that use it have no failing statements, since a database that always fails
decides nothing. `Notify!FairSpec`: a dispatcher that is up ticks (every POST has a
timeout), one that is down is started again, and a message's next attempt comes due;
nothing makes a drill end or an operator act. `MCApi!Fairness`: the drill's
goroutine, the worker that reconciles it and the stream's handler are scheduled;
nobody has to open a stream, cut it, drain it or kill anything.

## Where code and documentation disagree

`queue_v_reuse` (`LiveWorkloadIsSafe`) is a run TLC must find violated: an
interrupted drill's temporary id can belong to another live drill by the time the
sweep deletes it. The quote is in `PROJECT.json`.

The following were found in the same way; each names the instance that shows it.
The property is a checked one with a condition removed, or one that stays defined
next to the others although it does not hold.

* `FirstWriterDecides` with `Faults = {"slowcleanup"}`: a cancelled drill stops
  renewing while it still cleans up; a sweep settles it, then its own `UpdateRun`,
  which has no guard, overwrites the final state (`store/runs.go:64`;
  `store/queue.go:81`: "The first writer decides.").
* `NoSilentOrphan` with `Faults = {"lostreply"}`: a restore that took effect and
  whose answer was lost is owed no cleanup, and the run says FAILED with cleanup done
  (`recovery/steps.go:222`; `docs/architecture.md:131`: "from the moment a temporary
  workload might exist, cleanup runs").
* `Scheduler!OneDrillPerWorkload`, whenever two triggers run at once: the guard reads
  and the insert writes in two statements, so both pass (`trigger/trigger.go:92`: "a
  dashboard that double-clicks must not queue two of them").
* `DrillQueue!OrphanMessageIsState` with two workers: two sweeps settle one run, the
  one that removed the workload as FAILED, and the one that found it gone writes its
  `ORPHANED WORKLOAD` beside that state, since `SetRunError` has no guard
  (`worker/reconcile.go:85`). What does hold is `LeftoverIsNamed`.
* `Scheduler!EveryPlanIsScheduled` with `MCCronPage`, `MCWorkloadPage` and
  `ListLimit = 1`: the tick reads one page of fifty plans by name; a scheduled plan
  after it is never considered, and no slot says so (`docs/recovery-plans.md:68`).
* `Catalogue!GuardIsKept`: a PUT guarded by a version of a plan that was deleted in
  between creates it again, or replaces the same version of its successor
  (`docs/api.md:973` promises a 409).
* `Catalogue!NobodyRenames`: `Save` looks the document's name up as a reference, so a
  new plan whose name begins another's id replaces that plan and renames it
  (`catalog/catalog.go:139`; its comment says "creating it or replacing the one that
  already carries its name", and `api/plans.go` refuses a PUT that renames because
  "renaming is deleting one plan and creating another"). A guarded PUT in flight then
  no longer finds the name and creates a second row: `GuardIsKept` is false that way
  too, and `GuardedPutIsSafe` is about the row while it carries the name.
* `Provision!DrillRoleStaysNarrow`: `connect --role RestoreLabRead` makes the read role
  the drill role and grants it on every workload, with a pool asked for
  (`providers/proxmox/bootstrap.go:531` and 581; line 416: such a role "must never be
  the role backing a broad, cluster-wide grant").
* `Provision!UsedIsRefused`: a bridge with an address and no uplink is refused by
  `checkSafeToReuse` ("refusing to touch it, since that means something already relies
  on it", `network_admin.go:269`), but `ValidateIsolation` is asked first and accepts
  it (`provider.go:675`).
* `Provision!ReuseIsSafe`: after an administrator deleted the token in Proxmox and
  a call that lost its answer made a new one, the stored secret is reused for a token
  it does not open (`provision.go:126`: "reusing is only safe when the configuration
  already holds that exact token's secret").
* `Provision!SetupCanBeRunAgain`: the entry is stored before the token is verified
  and the dashboard's token minted. A set-up that fails after that has spent its setup
  token and leaves a configuration, so the next start is the real server, with no
  token to enter with (`api/setup.go:199`: "it can simply be run again").
* `Notify!RecoveryIsTold`: a drill that broke (`FAILED` or `CLEANUP_FAILED` with no
  result: its worker died, or it was stopped and its clone could not be deleted;
  `worker/reconcile.go:70`, `recovery/cleanup.go:119`) is announced as a changed
  verdict, and is no verdict to the next one: a drill that repeats the last graded
  result is silent, and the channel's last word stays the failure (`story.go:39`:
  "Recovery is reported as loudly as breakage").
* `ProvenanceIsTrue` with an ad-hoc drill whose check is `dns:NAME`: the shorthand
  puts `name` among the params (`adhoc/plan.go:172`), but `name` is a key of every
  check, so rendering the snapshot and parsing it again loses it, and the queued
  check can only be an error (`plan.go:249`: such a param "could not survive a parse
  anyway"; `docs/api.md:714` offers the shorthand). A `dns` check of a plan's text
  meets the same end at its first parse. Hence `ShorthandsSurvive` below.
* `Journal!EveryStreamEnds`: a drill from a terminal that is killed stays unsettled,
  and its streams open, for ever (`journal.go:243` says reconciliation handles it).
* `Journal!DoneIsComplete`: the stream reads events, then the run's state; the events
  written between the two, when the drill ends there, are never sent (`api/sse.go:81`;
  `docs/api.md:547`: both representations "are the same replay").
* `Assurance!StoppingNeverLowers`: a cancelled drill takes the place of the last run,
  and a degraded one before it moves into the failure rate, where it weighs up to 30
  points instead of 15 (`report/confidence.go:253`: must not "let stopping a drill lower
  the very score").

Seen while modelling, without a property of their own:

* one failed `SetState` in `fail` or `settle` is logged and the lease released anyway;
  the run is then neither stale nor claimable. `NeverStranded` holds in
  `queue_orphans` because no statement fails there;
* a message that was given up is never said again, and one that is retried may arrive
  after a newer one, with yesterday's word as the last to be read; `LastWordIsTrue` is
  about the newest drill a channel accepted a message about, and says nothing where
  something newer was given up;
* a channel's update that leaves the on/off flag out keeps the one its handler read
  before the lock, so it undoes a change answered in between
  (`api/notifications.go:227`); `EditsAreKept` excuses that flag, and no URL;
* the touch throttle remembers before it writes: a touch that fails leaves the last use
  an interval behind;
* a drill cancelled while only optional checks were left ends SUCCESS
  (`engine.go:234` needs a workflow error; `engine.go:175` promises `CANCELLED`);
* a drill cancelled during the restore deletes at once, while the task still
  writes (`docs/api.md:809` says afterwards);
* a plan whose first slot comes due while the server is down, before it has any
  history, starts from the new start and never records it (`docs/scheduling.md:99`
  says it is recorded); hence the condition in `DueSlotsAreDecided`;
* a schedule with two slots in the repeated hour drills it twice, because only the
  last slot's wall clock is compared (`docs/scheduling.md:81`: "it runs **once**");
* the queue's depth is the length of one page, so a `max_queue_depth` above fifty
  never postpones; hence the hypothesis of `ShallowAlone`;
* a queued run's `started_at` is never rewritten (`docs/api.md:733` says it is, when
  a worker picks it up);
* a bridge that was only found is reported as applied (`provision.go:277`), and a
  bridge left pending by a set-up that stopped is never applied by the next one
  (`network_admin.go:138`);
* a success can lower the score in two ways, both exceptions of `SuccessNeverLowers`:
  it pushes an older success off the page of twenty runs, and the failures that stay
  are a larger share; and read more than 17 days later its own age costs up to 40
  points, more than the 35 for having no success at all (`report/confidence.go:103`);
* a command that loaded the configuration before `serve` wrote an edit writes the
  edit away, and the other way round; `EditsAreKept` therefore stops promising once
  a process that was behind has written (`clobbered`).

## Proofs

The proof modules are checked by TLAPS for any number of runs, workers, ids, checks
and retries, plans, schedulers, requests, dispatchers, channels, clients, tokens,
sessions and callers, and for any bound. Every invariant and every action property
that a passing run checks is also a theorem; what a theorem assumes beyond the named
ASSUMEs of the constants is in its statement. The faults that the theorems of
`DrillQueueProofs` exclude are excluded for a reason: with any one of them TLC finds
the property violated in an instance of two runs and at most two workers. The one
exception is the lost answer in `LeftoversAreNamed`: TLC finds no violation with it
(two runs, two workers, two outages), but the proof's invariant contains that of
`NoSilentOrphan`, which a lost answer does break.

The ASSUMEs say only what the code's types say: `None` and `Nil` are no run, worker,
id, state, message or number, an outcome of a drill has the fields `End` copies and a
verdict where the engine gives one, a document has the keys of a plan, a check is of
a registered type and its tolerance is a positive number.

`DrillQueueProofs`

* `TypeCorrect`. `TypeOK` needs a companion, `VerdictsKnown`: a goroutine past the
  grading has a grade, a sweep past the list has a run and one about to settle a
  verdict, so that what they write is a state.
* `ReplayNever`: `NeverReplayed` under *every* fault, frozen processes included. It
  follows from the guard of `ClaimRun` and from no action clearing an owner.
* `SettledIsOver` and `FirstWriter`, for `Faults` without `freeze` and `slowcleanup`
  (the counterexample with them is above). The inductive invariant says that an
  expired lease means nobody executes the run, and so does a run that stands in some
  sweep's list, and that a claimed run is not absent: without the second, a sweep
  that scanned earlier could settle a run under its driver.
* `QueueImplementsLifecycle`, under the same hypothesis: every step is a step of
  `DrillLifecycle` or leaves a run's phase and driver alone. It takes the invariant
  above, so that no settled run is settled again or driven, and `AbsentIsUnowned`, so
  that `Enqueue` makes a run nobody has taken.
* `RecordedFirst`, when statements do not fail and under every other fault:
  `RecordKept` follows an id from the goroutine (`tmp`) to its row (`temp`): no drill
  gets past its reservation without the row having it, and only then does it restore.
* `StrandedNever`, under the same hypothesis. `ReleasedIsSettled` says that a lease is
  given back only after a final state: by `fail`, by the end of `execute`, and by a
  sweep that is still allowed to write. It needs no kept leases: `FinalStays` shows
  that even an overwriting `UpdateRun` writes a final state.
* `OrphansAreAnnounced`, for crashes, shutdowns, an operator who deletes workloads,
  and cancelled drills that lose their lease while they clean up. With those a settled
  run may still be driven, so `LateInv` takes the place of the invariant above:
  whoever is swept or settled is at least past its grade, and restores nothing any
  more. Beside it stand the record of ids, `DrillsAnnounce` (what a graded drill
  leaves is announced by the grade it is about to write) and `SweepsAnnounce` (a
  sweep's target is what the row names, and one that settles for FAILED has seen it
  gone). A lost answer breaks it (above), a failing statement loses the announcement,
  a provider that cannot be resolved makes the sweep settle for FAILED with the
  workload still there (`worker/reconcile.go:62`), and a frozen worker restores after
  the sweep. The run leaves `slowcleanup` out for its size; TLC accepts that instance
  too (6.4 million states).
* `LeftoversAreNamed`, with the hypotheses of `OrphansAreAnnounced` but for the late
  cleanups, and for any number of sweeps of one run: `SweepsSay` (a sweep between its
  two statements says orphaned, or the workload is gone), `MessagesFollow` (no message
  before a final state) and `OutagesExplain`, which counts: a run is swept only after
  one process was lost, and a message is left out only by the loss of another. Its
  converse, `OrphanMessageIsState`, is false with two sweeps (above).

`EngineProofs`

* `TypeCorrect`, with the bound of the retry loop.
* `NeverExposes`: the inductive invariant is `Placement` (which workload states go
  with which point of `Run`) and `OnCluster` (a running task has a building
  workload, only a hardened one is started).
* `EngineImplementsContract`: initial states map to initial states and every step
  to a step of `EngineContract` or a stutter, for all plans and lost answers.
* `LeftoversAccounted` and `CleanupDoneSound`, once the restore has been answered
  (`Known`; without it the lost restore above is the counterexample) and whatever
  other answers are lost: whatever exists is owed a cleanup until the run is done.
* `VerdictsAreEvidence`: the invariant follows the results from the check loop
  through the verdict (`Judged`, `Sentenced`).
* `ProofsAreEarned`: `Earned` says when the level may be what: nothing before the
  guest answered, at most BOOT until the checks are summed up, then no more than some
  passed check proves and no less than each of them does.

`SchedulerProofs`

* `TypeCorrect`, together with the finiteness of the run table: the measured depth
  is a number only because of it.
* `Accounted`: `RunsAreAccounted` is inductive over `TypeOK`. Only `ClaimSlot` and the
  request write the tables (`WhoWrites`), and a slot that is still free has no run.
* `DecisionsAreFinal`: the same two writers never touch a decided slot.
* `OverlapsAreRaces`, for any number of schedulers and requests: `Guarded` says that a
  trigger about to write may find a drill another one queued meanwhile, but none of its
  own, `RequestsAskOnce` that a request queues one.
* `RepeatedHourDrillsOnce`, for one scheduler and schedules whose slots of one wall
  clock follow each other (`InARow`; the schedule with two slots in the repeated hour,
  above, is the counterexample without it): `Scheduled` says that only slots of the
  schedule are decided, `Pending` that a slot on its way to a claim shows an hour that
  no decided slot shows. That comparing with the last slot is enough is what `InARow`
  gives.
* `ShallowAlone`, for one scheduler and no request (`Alone`), when claims are answered
  and the limit fits in a page: `Measured` says that in a tick the queue is no deeper
  than counted.

`NotifyProofs`

* `OnceOnly` and `SentForGood`. `NotTwice` is not inductive: the invariant `Clear`
  follows a message that one dispatcher at a time dealt with. Whoever has it still to
  post has not posted it, a row that says sent is in nobody's hands, and an
  acceptance is recorded or about to be (`Waiting`: only in `settle`). Every step that
  breaks one of these puts the message among the `blurred` ones.
* `LastWordTrue`, with the exceptions `LastWordIsTrue` names (drills that end in the
  order they started, none claimed in vain, none that broke, nothing newer on its way
  or given up). The verdict of a drill is a function of the drills before it, so the
  invariant `Judged` only has to remember, of every judged drill, that a channel was
  queued a message about it exactly if its `Verdict` is news; `Bearing`, `Queueing` and
  `Untold` carry that through the two halves of `consider` and the rows, one channel at
  a time. A drill judged before an earlier one was over is `Spoiled`, for ever, and then
  the condition of the property is false. What a channel accepted was queued for it
  (`AcceptedIsTold`), and with nothing newer waiting or given up the newest drill queued
  is the newest one accepted; between it and the drill in question every kind of news is
  excluded in turn.

`ConfigProofs`

* `KeyIsOne`: besides the file, the copy in memory and the copies of the commands are
  sealed under the key at rest (`Under`, `Copies`), and nobody holds anything before
  there is a key; O_EXCL is what makes the step of the second starter a refusal.
* `EditsKept` and `Served`, by one invariant, `EditInv`: a process nobody overtook
  holds what the file holds (`UpToDate`), and `serve` has a configuration only where
  there is a file (`Backed`). What is promised is kept field by field: a flag an update
  carries over from before the lock (`Stale`) excuses that flag alone. `TypeCorrect`
  underlies both.

`ApiProofs`

* `Refused`: over the types, a created token reads (`Created`) and a session is some
  token's (`Owned`), so that the token behind a session is looked up again and found
  revoked at every request.
* `UseKnown`: unless a write went wrong, what the throttle remembers is stored, or is
  among the writes under way (`Remembered`); a restart forgets and may only write more
  often.
* `ReportsAreWhole`: `Recorder` ties the recorder's counters to the script, `Written`
  says how far `Finish` has come and that, with nothing lost, what lies behind it is
  stored, `Loaded` that a document that shows the outcome was read after it. The
  order of the writes and the order of the three queries are both used.
* `StreamsAreFaithful`: the page's fold is shown to lay out exactly the frames that
  are new to it, in order (`FoldAppends`), and `Following` that an
  open stream resumes after the last frame its page folded.

`PlansProofs`

* `NamesAreUnique`: the invariant is about the table (a row holds the last document
  written under its id, `Table`) and about the calls in flight (`Knows`). The name is
  unique by the insert and the update, whatever row `Save` found: an id may well change
  its name.
* `GuardedPut` from the same invariant: what a client read is what its id carried at
  that version, and versions only grow (`Grows`); with the name unique, the row that
  carries the name is the one the look-up finds.
* `DocumentSurvives`: `Parse(Marshal(Parse(doc))) = Parse(doc)` for every document the
  rules accept, by the parts of a check: params, capture, bounds, tolerance, defaults.
* `ProvenanceKept` from it: a trigger about to queue holds a document its id carried
  at the version it names (`Traced`), and a queued run the rendering of that one
  (`RunOf`), linked to its plan while the plan is there. Both need `NilIsFresh` (a nil
  pointer is neither a boolean nor a map); the second also `ShorthandsSurvive`, for
  which `dns:NAME` above is the counterexample.
* `SilenceIsNoVerdict`, for every parsed check, circumstance and history: an attempt
  that nobody answered reports an error and no value, whatever its type (an error that
  cannot be classified is not among them: `dialFailure` calls it a failure on purpose),
  and what an error is graded as leaves the readings and the proof on record alone.
* `ClaimedDataWasRead`, for every check, circumstance and history: `ClaimsInv` keeps,
  of every drill so far, what its claim rests on.
* `CollapseOutvoted`: `RankedHolds` shows that the reading of each rank exists,
  `FewAbove` that at most half of the readings are above the median's upper member,
  `BeyondIsAbove` that a reading the new value is beyond the tolerance of is above it.
  The hypothesis `Tolerances` excludes percentages above a hundred over values that
  may be negative, where a tolerance is not monotonic in the reading.
* `SuccessIsNoLoss`: `RateDrop` and its companions bound, with the rounding, what one
  more failure in the history costs; `Balance` sets that against what the penalty of
  the last run gives back, over every pair of last run and success on record.

`ProvisionProofs`

* `DestroysInPool`: every step still to do of a plan of `Bootstrap` is `Safe` (only the
  role named for drills is given the right to destroy; what is granted outside the pool
  is another of the call's roles, or the drill role for a call that asked for no pool),
  which a lemma shows of the whole plan for every option, and the cluster's `Rights` are
  the sum of the steps carried out, answered or not. A role that is both, in one call or
  in two, is the exception the property names.
* `SecretFits`: `Good` carries what a call knows across its steps: the token step is
  the last one, a reused token's secret is the one that was stored at login, and a
  call about to store holds the secret of the token of its name. Tokens that exist
  keep their secret (`TokensStay`) unless an administrator deletes them, which puts
  their name among the `deleted`.
* `SetupIsSolo`: the setup token is there only while no request is past it, and neither
  is while the server is down (`Solo`).
* `BridgesStay`: no step but the two of the bridge touches it, and those two leave an
  uplink and an active bridge alone; whoever was told of the bridge, or is about to
  apply it, has seen one without an uplink (`Isolated`). It needs `ValidateIsolation`
  and `checkSafeToReuse` both: accept an uplink in either and it fails.

Only model-checked: liveness (`QueuedRunsSettle`, `WorkerStops`, `DrillEnds`,
`DueSlotsAreDecided`, `DrillsAreConsidered`, `MessagesSettle`, `StreamsEnd`), which
needs fairness and ENABLED and is beyond the prover. Type invariants that no theorem
states (`Notify!TypeOK`, `AccessTypeOK`, `JournalTypeOK`, `CatalogueTypeOK`,
`AssuranceTypeOK`, `ProvisionTypeOK`) are definitions a run can be given; the
invariants of the proofs contain the types they need.

## Not modelled

* The Proxmox Backup Server provider, diagnostics (`doctor`) and the listings of the
  Proxmox provider read and print; they keep nothing.
* The web interface is a client of the API; only how a page folds a stream's frames
  is in `Journal`.
* Rendering: reports in HTML, text and JSON, the messages of each kind of channel,
  tables, prompts, flags and log lines.
* Migrations and the two SQL dialects: each statement is one atomic step, and
  `ClaimRun`'s two forms are one update. The store's conformance suite is a test.
* Decoding and validating the configuration file, and the cipher: a sealed secret is
  the secret and the key it was sealed under.
* Cron expressions are the instants they designate, times of day and durations what
  they are compared with. Callers refer to a plan by its id or its name; the look-up of
  `Save` takes the beginning of an id too. That a name may be the whole id of another
  plan, which the name then answers for, is left out.
* In `DrillQueue` a plan that cannot be parsed and a provider or network that cannot
  be resolved are one action, `Fail`. Edits of the catalogue while schedulers run are
  left out of `Scheduler`, which takes the catalogue as it is; what such an edit does
  to a drill being queued is in `Catalogue`.

## Plan

What is left, in this order:

1. The type invariants no theorem states yet, from the invariants the proofs already
   carry.
2. The catalogue's edits under the scheduler, and a drill from a terminal beside the
   queue's, whose row blocks its workload.
