------------------------------- MODULE Notify -------------------------------
(***************************************************************************)
(* Notifications (internal/notify/dispatcher.go, deliver.go and the        *)
(* notification half of internal/store): dispatchers that share a database *)
(* claim each finished drill once, decide whether it is news, queue one    *)
(* message per channel and post the queue with retries.                    *)
(*                                                                         *)
(* The drills are those of one workload, numbered by the order in which    *)
(* they started; drills of other workloads share nothing with them but the *)
(* batch.  Each action is one read or write of the store, or one POST, with *)
(* what the dispatcher does on its return.  There is no clock: a message    *)
(* waits until its next attempt is due, and a drill becomes too old to be   *)
(* news, by an action of its own.                                          *)
(***************************************************************************)
EXTENDS Story

CONSTANTS
  NumRuns,       \* the workload's drills are 1 .. NumRuns
  MaxRunning,    \* drills of the workload that may be under way at once
  Outcomes,      \* how a drill may end: [state, story, readings, completed]
  Channels,      \* channel ids of the configuration
  Steady,        \* channels that stay configured, enabled and readable
  Dispatchers,   \* processes that share the database
  Batch,         \* Options.Batch
  MaxAttempts,   \* len(Attempts)
  Faults,        \* what may go wrong: "down", "store", "lostreply", "age"
  MaxOutages     \* bound on the faults of a behaviour

Runs == 1 .. NumRuns
Messages == Runs \X Channels

ASSUME NotifyAssumption ==
  /\ NumRuns \in Nat /\ Batch \in Nat \ {0} /\ MaxAttempts \in Nat \ {0}
  /\ MaxOutages \in Nat /\ MaxRunning \in Nat
  /\ Steady \subseteq Channels
  /\ \A o \in Outcomes :
       /\ o.state \in Terminal /\ o.story \in Stories /\ o.completed \in BOOLEAN
       /\ o.state = "SUCCESS" => o.story.result # NoVerdict
       /\ o.state \in {"CANCELLED", "INCONCLUSIVE"} => o.story.result = NoVerdict
       /\ ~o.completed => o.state \in {"FAILED", "CLEANUP_FAILED"} /\ o.story.result = NoVerdict

VARIABLES
  run,       \* the drills: no row yet, under way, or the outcome
  earlier,   \* for each drill, those that had ended when it started
  listed,    \* for each drill that ended, those the backlog lists before it: by
             \*   completed_at, or by started_at when there is none
  claimed,   \* drills whose notified_at is set
  old,       \* drills that ended longer than MaxAge ago
  conf,      \* the channels: in use, or off (disabled, removed, of an unknown
             \*   kind), or on with a URL that cannot be unsealed
  rows,      \* notification_deliveries, by run and channel
  pc, snap, todo, news, mail, sent,  \* each dispatcher: where it stands,
             \*   the channels it resolved, the drills and channels it has left,
             \*   the rows it has left to post, and the outcome it must record
  outages,   \* faults so far
  unsaid,    \* ghost: drills claimed by a dispatcher that lost its news
  accepted,  \* ghost: how often a channel accepted a message, up to 2
  blurred    \* ghost: messages two dispatchers held, or whose outcome was not
             \*   recorded

drills == <<run, earlier, listed, claimed, old>>
local == <<pc, snap, todo, news, mail, sent>>
ghosts == <<unsaid, accepted, blurred>>
vars == <<drills, conf, rows, local, outages, ghosts>>

\* A drill with no outcome yet: not begun, or under way.
Unsettled(state) == [state |-> state, story |-> [result |-> NoVerdict, proof |-> Unrecorded],
                     readings |-> {}, completed |-> FALSE]
Ended == {r \in Runs : run[r].state \in Terminal}
NoRow == [state |-> "none", attempts |-> 0, due |-> FALSE]
NoNews == [run |-> 0, kind |-> Silence, channels |-> {}]
NoOutcome == [message |-> <<>>, row |-> NoRow]
RowTypes == [state : {"none", "pending", "sent", "failed"},
             attempts : 0 .. MaxAttempts, due : BOOLEAN]

TypeOK ==
  /\ \A r \in Runs : run[r] \in {Unsettled("absent"), Unsettled("running")} \cup Outcomes
  /\ earlier \in [Runs -> SUBSET Ended] /\ listed \in [Runs -> SUBSET Ended]
  /\ \A q, r \in Ended : q # r => (q \in listed[r] <=> r \notin listed[q])
  /\ claimed \subseteq Ended /\ old \subseteq Ended
  /\ conf \in [Channels -> {"on", "off", "unreadable"}]
  /\ rows \in [Messages -> RowTypes]
  /\ pc \in [Dispatchers -> {"down", "idle", "decide", "consider", "judge",
                              "queue", "deliver", "attempt", "settle"}]
  /\ \A d \in Dispatchers :
       /\ DOMAIN snap[d] \subseteq Channels
       /\ todo[d] \subseteq Ended
       /\ mail[d] \in [Messages -> RowTypes]
       /\ sent[d].row \in RowTypes
  /\ outages \in 0 .. MaxOutages
  /\ unsaid \subseteq claimed
  /\ accepted \in [Messages -> 0 .. 2] /\ blurred \subseteq Messages

NoMail == [m \in Messages |-> NoRow]
Held(box) == {m \in Messages : box[m].state # "none"}

Init ==
  /\ run = [r \in Runs |-> Unsettled("absent")]
  /\ earlier = [r \in Runs |-> {}] /\ listed = [r \in Runs |-> {}]
  /\ claimed = {} /\ old = {}
  /\ conf = [c \in Channels |-> "on"]
  /\ rows = NoMail
  /\ pc = [d \in Dispatchers |-> "idle"]
  /\ snap = [d \in Dispatchers |-> <<>>]
  /\ todo = [d \in Dispatchers |-> {}]
  /\ news = [d \in Dispatchers |-> NoNews]
  /\ mail = [d \in Dispatchers |-> NoMail]
  /\ sent = [d \in Dispatchers |-> NoOutcome]
  /\ outages = 0
  /\ unsaid = {} /\ accepted = [m \in Messages |-> 0] /\ blurred = {}

Fault(kind) ==
  /\ kind \in Faults /\ outages < MaxOutages
  /\ outages' = outages + 1

-----------------------------------------------------------------------------
(* The drills and the configuration, written by the rest of the program.   *)

Start(r) ==
  /\ Cardinality({q \in Runs : run[q].state = "running"}) < MaxRunning
  /\ run[r].state = "absent" /\ (r > 1 => run[r - 1].state # "absent")
  /\ run' = [run EXCEPT ![r] = Unsettled("running")]
  /\ earlier' = [earlier EXCEPT ![r] = Ended]
  /\ UNCHANGED <<listed, claimed, old, conf, rows, local, outages, ghosts>>

\* A drill whose worker died has no result and no completed_at (reconcile's
\* SetState): the backlog lists it by its start.
Interrupted(r) == run[r].state \in Terminal /\ ~run[r].completed
ListedBefore(r) == {q \in Ended : q \in earlier[r] \/ (Interrupted(q) /\ q < r)}

End(r) ==
  /\ run[r].state = "running"
  /\ \E o \in Outcomes :
       LET before == IF o.completed THEN Ended ELSE ListedBefore(r) IN
       /\ run' = [run EXCEPT ![r] = o]
       /\ listed' = [q \in Runs |-> IF q = r THEN before
                                   ELSE IF q \in Ended \ before THEN listed[q] \cup {r}
                                   ELSE listed[q]]
  /\ UNCHANGED <<earlier, claimed, old, conf, rows, local, outages, ghosts>>

\* The service was down or quiet for longer than MaxAge.
Age(r) ==
  /\ r \in Ended \ old
  /\ Fault("age")
  /\ old' = old \cup {r}
  /\ UNCHANGED <<run, earlier, listed, claimed, conf, rows, local, ghosts>>

\* An operator edits a channel, or its URL was sealed with another key.
Reconfigure(c) ==
  /\ c \notin Steady
  /\ \E s \in {"on", "off", "unreadable"} :
       s # conf[c] /\ conf' = [conf EXCEPT ![c] = s]
  /\ UNCHANGED <<drills, rows, local, outages, ghosts>>

\* The next attempt of a pending message comes due.
ComesDue(m) ==
  /\ rows[m].state = "pending" /\ ~rows[m].due
  /\ rows' = [rows EXCEPT ![m].due = TRUE]
  /\ UNCHANGED <<drills, conf, local, outages, ghosts>>

-----------------------------------------------------------------------------
(* Tick: resolve, decide, deliver.                                         *)

\* resolve: the channels in use, read once per tick.
Resolve(d) ==
  /\ pc[d] = "idle"
  /\ snap' = [snap EXCEPT ![d] =
       [c \in {k \in Channels : conf[k] \in {"on", "unreadable"}} |-> conf[c]]]
  /\ pc' = [pc EXCEPT ![d] = "decide"]
  /\ UNCHANGED <<drills, conf, rows, todo, news, mail, sent, outages, ghosts>>

\* Mutant of UnnotifiedRuns: what is too old to be news is not read.
UnnotifiedRunsFresh ==
  {r \in Ended \ (claimed \cup old) : Cardinality(listed[r] \ (claimed \cup old)) < Batch}

\* UnnotifiedRuns: what nobody claimed yet, the first batch in the list.
UnnotifiedRuns == {r \in Ended \ claimed : Cardinality(listed[r] \ claimed) < Batch}

\* decide: read the backlog; a read that fails skips to the deliveries.
ReadRuns(d) ==
  /\ pc[d] = "decide"
  /\ \/ /\ todo' = [todo EXCEPT ![d] = UnnotifiedRuns]
        /\ pc' = [pc EXCEPT ![d] = "consider"]
        /\ UNCHANGED outages
     \/ /\ Fault("store")
        /\ pc' = [pc EXCEPT ![d] = "deliver"]
        /\ UNCHANGED todo
  /\ UNCHANGED <<drills, conf, rows, snap, news, mail, sent, ghosts>>

\* decide's loop is over.
Considered(d) ==
  /\ pc[d] = "consider" /\ todo[d] = {}
  /\ pc' = [pc EXCEPT ![d] = "deliver"]
  /\ UNCHANGED <<drills, conf, rows, snap, todo, news, mail, sent, outages, ghosts>>

\* ClaimRunForNotify: one update, one winner.
ClaimRunForNotify(r) == r \notin claimed /\ claimed' = claimed \cup {r}

TooOld(r) == r \in old

\* What is to be told about a drill, and to whom.
Message(r, kind, channels) == [run |-> r, kind |-> kind, channels |-> channels]

\* The first half of consider, for the next drill in the list.  One too old to
\* be news is claimed and left alone.
Claim(d) ==
  /\ pc[d] = "consider"
  /\ \E r \in todo[d] :
       /\ todo[d] \cap listed[r] = {}
       /\ \/ /\ ClaimRunForNotify(r)
             /\ unsaid' = IF TooOld(r) THEN unsaid \cup {r} ELSE unsaid
             /\ pc' = [pc EXCEPT ![d] = IF TooOld(r) THEN "consider" ELSE "judge"]
             /\ news' = [news EXCEPT ![d] = IF TooOld(r) THEN NoNews ELSE Message(r, Silence, {})]
             /\ UNCHANGED outages
          \/ /\ r \in claimed
             /\ UNCHANGED <<claimed, unsaid, pc, news, outages>>
          \/ /\ Fault("store")
             /\ UNCHANGED <<claimed, unsaid, pc, news>>
       /\ todo' = [todo EXCEPT ![d] = @ \ {r}]
  /\ UNCHANGED <<run, earlier, listed, old, conf, rows, snap, mail, sent, accepted, blurred>>

\* PreviousStory: the newest earlier drill with a verdict, 0 when there is
\* none, and whether the drill right before this one was INCONCLUSIVE.
PreviousGraded(r) ==
  LET graded == {q \in 1 .. r - 1 : run[q].story.result # NoVerdict}
  IN IF graded = {} THEN 0 ELSE CHOOSE q \in graded : \A p \in graded : p <= q
PrecededByUnevaluable(r) ==
  r > 1 /\ run[r - 1].state = "INCONCLUSIVE"

\* considerValues: asked when the verdict is no news, of a run with a verdict
\* and a baseline.
ConsiderValues(r, before) ==
  LET values == ValuesByName(run[r].readings)
  IN IF run[r].story.result = NoVerdict \/ before = 0 \/ ~Zeroed(values)
       THEN Silence
       ELSE DecideCollapse(run[r].state, run[r].story, values,
                           ValuesByName(run[before].readings))

Verdict(r) ==
  LET before == PreviousGraded(r)
      kind == Decide(run[r].state, run[r].story,
                     IF before = 0 THEN NoStory ELSE run[before].story,
                     PrecededByUnevaluable(r))
  IN IF kind = Silence THEN ConsiderValues(r, before) ELSE kind

\* The second half of consider, up to the messages it queues.  When the
\* history, or the values that would be the news, cannot be read the drill
\* stays claimed and nothing is said.
Judge(d) ==
  /\ pc[d] = "judge"
  /\ LET r == news[d].run IN
       \/ /\ pc' = [pc EXCEPT ![d] = IF Verdict(r) = Silence THEN "consider" ELSE "queue"]
          /\ news' = [news EXCEPT ![d] = IF Verdict(r) = Silence THEN NoNews
                      ELSE Message(r, Verdict(r), DOMAIN snap[d])]
          /\ UNCHANGED <<outages, unsaid>>
       \/ /\ Fault("store")
          /\ pc' = [pc EXCEPT ![d] = "consider"]
          /\ news' = [news EXCEPT ![d] = NoNews]
          /\ unsaid' = unsaid \cup {r}
  /\ UNCHANGED <<drills, conf, rows, snap, todo, mail, sent, accepted, blurred>>

\* CreateDelivery: a row per run and channel, refused when there is one.
CreateDelivery(m) ==
  rows' = IF rows[m].state = "none"
            THEN [rows EXCEPT ![m] = [state |-> "pending", attempts |-> 0, due |-> TRUE]]
            ELSE rows

Queue(d) ==
  /\ pc[d] = "queue"
  /\ \/ \E c \in news[d].channels :
          LET m == <<news[d].run, c>> IN
          /\ \/ /\ CreateDelivery(m)
                /\ UNCHANGED <<outages, unsaid>>
             \/ /\ Fault("store")
                /\ unsaid' = unsaid \cup {news[d].run}
                /\ UNCHANGED rows
          /\ news' = [news EXCEPT ![d].channels = @ \ {c}]
          /\ UNCHANGED pc
     \/ /\ news[d].channels = {}
        /\ pc' = [pc EXCEPT ![d] = "consider"]
        /\ news' = [news EXCEPT ![d] = NoNews]
        /\ UNCHANGED <<rows, outages, unsaid>>
  /\ UNCHANGED <<drills, conf, snap, todo, mail, sent, accepted, blurred>>

-----------------------------------------------------------------------------
(* deliver and attempt.                                                    *)

\* Mutant of DueDeliveries: a message that was sent has no next_at, and is due.
DueDeliveriesLoose == {m \in Messages : rows[m].state \in {"pending", "sent"} /\ rows[m].due}

\* DueDeliveries: pending messages with no next_at, or whose time has come.
DueDeliveries == {m \in Messages : rows[m].state = "pending" /\ rows[m].due}

\* A dispatcher has read the row and not written it back yet.
HeldBy(m) == \E e \in Dispatchers : m \in Held(mail[e]) \/ sent[e].message = m

\* deliver: one batch of copies, earliest first; the order of two due times
\* is not modelled, so any batch of them.
ReadDue(d) ==
  /\ pc[d] = "deliver"
  /\ \/ /\ \E box \in SUBSET DueDeliveries :
             /\ Cardinality(box) = IF Cardinality(DueDeliveries) < Batch
                                     THEN Cardinality(DueDeliveries) ELSE Batch
             /\ mail' = [mail EXCEPT ![d] =
                          [m \in Messages |-> IF m \in box THEN rows[m] ELSE NoRow]]
             /\ blurred' = blurred \cup {m \in box : HeldBy(m)}
        /\ pc' = [pc EXCEPT ![d] = "attempt"]
        /\ UNCHANGED outages
     \/ /\ Fault("store")
        /\ pc' = [pc EXCEPT ![d] = "idle"]
        /\ UNCHANGED <<mail, blurred>>
  /\ UNCHANGED <<drills, conf, rows, snap, todo, news, sent, unsaid, accepted>>

\* deliver's loop is over, and the tick with it.
Delivered(d) ==
  /\ pc[d] = "attempt" /\ Held(mail[d]) = {}
  /\ pc' = [pc EXCEPT ![d] = "idle"]
  /\ UNCHANGED <<drills, conf, rows, snap, todo, news, mail, sent, outages, ghosts>>

\* NextAttempt: is a retryable refusal, the attempts-th, tried again.
NextAttempt(attempts) == attempts < MaxAttempts

\* Mutant of Outcome: the attempt is not counted.
OutcomeUncounted(row, answer) ==
  [state |-> IF answer = "ok" THEN "sent"
             ELSE IF answer = "retry" /\ NextAttempt(row.attempts + 1) THEN "pending" ELSE "failed",
   attempts |-> row.attempts, due |-> answer # "retry"]

\* classify: taken, worth another try (5xx, 429, a transport error), refused.
Answers == {"ok", "retry", "no"}

\* What attempt writes after an answer; a channel that cannot be used is a "no".
Outcome(row, answer) ==
  LET tried == row.attempts + 1
      again == answer = "retry" /\ NextAttempt(tried)
  IN [state |-> IF answer = "ok" THEN "sent" ELSE IF again THEN "pending" ELSE "failed",
      attempts |-> tried, due |-> ~again]

Takes(d, m, answer) ==
  /\ mail' = [mail EXCEPT ![d][m] = NoRow]
  /\ sent' = [sent EXCEPT ![d] = [message |-> m, row |-> Outcome(mail[d][m], answer)]]
  /\ pc' = [pc EXCEPT ![d] = "settle"]

\* channelFor and Target.
Usable(d, m) == m[2] \in DOMAIN snap[d] /\ snap[d][m[2]] = "on"

\* fail: the channel left the configuration, or its URL cannot be unsealed.
Fail(d) ==
  /\ pc[d] = "attempt"
  /\ \E m \in Held(mail[d]) :
       /\ ~Usable(d, m)
       /\ Takes(d, m, "no")
  /\ UNCHANGED <<drills, conf, rows, snap, todo, news, outages, ghosts>>

\* Post and classify.  An answer may be lost after the channel took the
\* message; from here that is a transport error.
Post(d) ==
  /\ pc[d] = "attempt"
  /\ \E m \in Held(mail[d]) :
       /\ Usable(d, m)
       /\ \/ \E answer \in Answers :
               /\ Takes(d, m, answer)
               /\ accepted' = [accepted EXCEPT ![m] = IF answer = "ok" /\ @ < 2 THEN @ + 1 ELSE @]
               /\ UNCHANGED <<outages, blurred>>
          \/ /\ Fault("lostreply")
             /\ Takes(d, m, "retry")
             /\ accepted' = [accepted EXCEPT ![m] = IF @ < 2 THEN @ + 1 ELSE @]
             /\ blurred' = blurred \cup {m}
  /\ UNCHANGED <<drills, conf, rows, snap, todo, news, unsaid>>

\* SettleDelivery overwrites the row by id, whatever it holds now.
SettleDelivery(m, row) == rows' = [rows EXCEPT ![m] = row]

\* settle: an outcome that cannot be written is only complained about.
Settle(d) ==
  /\ pc[d] = "settle"
  /\ LET m == sent[d].message IN
       \/ /\ SettleDelivery(m, sent[d].row)
          /\ UNCHANGED <<outages, blurred>>
       \/ /\ Fault("store")
          /\ blurred' = blurred \cup {m}
          /\ UNCHANGED rows
  /\ sent' = [sent EXCEPT ![d] = NoOutcome]
  /\ pc' = [pc EXCEPT ![d] = "attempt"]
  /\ UNCHANGED <<drills, conf, snap, todo, news, mail, unsaid, accepted>>

\* The process dies, or its context is cancelled: every later call of the
\* tick fails without a trace, so what the store holds is what it left.
Down(d) ==
  /\ pc[d] # "down"
  /\ Fault("down")
  /\ pc' = [pc EXCEPT ![d] = "down"]
  /\ snap' = [snap EXCEPT ![d] = <<>>] /\ todo' = [todo EXCEPT ![d] = {}]
  /\ news' = [news EXCEPT ![d] = NoNews] /\ mail' = [mail EXCEPT ![d] = NoMail]
  /\ sent' = [sent EXCEPT ![d] = NoOutcome]
  /\ unsaid' = IF pc[d] \in {"judge", "queue"} THEN unsaid \cup {news[d].run} ELSE unsaid
  /\ blurred' = IF pc[d] = "settle" THEN blurred \cup {sent[d].message} ELSE blurred
  /\ UNCHANGED <<drills, conf, rows, accepted>>

Up(d) ==
  /\ pc[d] = "down"
  /\ pc' = [pc EXCEPT ![d] = "idle"]
  /\ UNCHANGED <<drills, conf, rows, snap, todo, news, mail, sent, outages, ghosts>>

-----------------------------------------------------------------------------
Tick(d) ==
  \/ Resolve(d) \/ ReadRuns(d) \/ Considered(d) \/ Claim(d) \/ Judge(d) \/ Queue(d)
  \/ ReadDue(d) \/ Delivered(d) \/ Fail(d) \/ Post(d) \/ Settle(d)

Next ==
  \/ \E r \in Runs : Start(r) \/ End(r) \/ Age(r)
  \/ \E c \in Channels : Reconfigure(c)
  \/ \E m \in Messages : ComesDue(m)
  \/ \E d \in Dispatchers : Tick(d) \/ Down(d) \/ Up(d)

Spec == Init /\ [][Next]_vars

\* A started process keeps ticking, one that died is started again, and time
\* passes.  Nothing makes a drill end or an operator edit.
FairSpec ==
  /\ Spec
  /\ \A d \in Dispatchers : WF_vars(Tick(d)) /\ WF_vars(Up(d))
  /\ \A m \in Messages : WF_vars(ComesDue(m))

-----------------------------------------------------------------------------
(* Correctness.                                                            *)

\* A channel accepts a message twice only when its first acceptance went
\* unrecorded (an answer lost, a process stopped before settle, a failed
\* write) or when two dispatchers held the row at once: nothing claims a
\* delivery (dispatcher.go:569).
NotTwice == \A m \in Messages : accepted[m] > 1 => m \in blurred

\* A message recorded as sent stays so, unless a second dispatcher held the
\* same row and writes its own outcome over it (SettleDelivery is unguarded).
SentStaysSent ==
  [][\A m \in Messages : rows[m].state = "sent" /\ m \notin blurred => rows'[m].state = "sent"]_vars

InOrder == \A r \in Ended : \A q \in listed[r] : q < r
Quiet(r) == \A d \in Dispatchers : news[d].run \notin 1 .. r
\* The drills up to r with a message for channel c, whatever became of it, and
\* those the channel accepted one about.
Queued(c, r) == {q \in 1 .. r : rows[<<q, c>>].state # "none"}
Heard(c, r) == {q \in 1 .. r : accepted[<<q, c>>] > 0}

\* The newest drill up to r that channel c accepted a message about, 0 when
\* none; and whether anything newer is still waiting, or was given up.
LastWord(c, r) ==
  IF Heard(c, r) = {} THEN 0 ELSE CHOOSE q \in Heard(c, r) : \A p \in Heard(c, r) : p <= q
UpToDate(c, r) == \A q \in Queued(c, r) : \E p \in Heard(c, r) : q <= p

StillTrue(q, r) ==
  \/ run[q].story.result = run[r].story.result
  \/ run[q].state = "INCONCLUSIVE" /\ \E p \in q + 1 .. r - 1 : run[p].state = "CANCELLED"

\* A drill that ended badly and says nothing of the backup: its worker died,
\* or it was stopped and then left its workload behind.
Broke(r) == run[r].state \in {"FAILED", "CLEANUP_FAILED"} /\ run[r].story.result = NoVerdict

\* Speaking only on changes loses nothing: once the drills up to one with a
\* verdict are considered, that verdict is what the newest drill a channel
\* accepted a message about says, though no later drill repeats it.  It needs
\* a channel that nothing newer is still on its way to, nor was given up for
\* (nothing is said again), drills that end in the order they started, no drill
\* claimed in vain and none that broke; and it has one hole, a cancelled drill
\* between an unevaluable one and the verdict that repeats the old one.
LastWordIsTrue ==
  InOrder /\ unsaid = {} =>
    \A c \in Steady, r \in Runs :
      (/\ 1 .. r \subseteq claimed /\ Quiet(r) /\ UpToDate(c, r)
       /\ run[r].story.result # NoVerdict
       /\ \A q \in 1 .. r : ~Broke(q))
        => LastWord(c, r) # 0 /\ StillTrue(LastWord(c, r), r)

\* The same without excusing drills that broke: "Recovery is reported
\* as loudly as breakage" (story.go:40).
RecoveryIsTold ==
  InOrder /\ unsaid = {} =>
    \A c \in Steady, r \in Runs :
      (1 .. r \subseteq claimed /\ Quiet(r) /\ UpToDate(c, r) /\ run[r].story.result # NoVerdict)
        => LastWord(c, r) # 0 /\ StillTrue(LastWord(c, r), r)

\* Every drill that ends is considered, and every message queued is sent or
\* given up: no retry goes on for ever, and no row is left pending.
DrillsAreConsidered == \A r \in Runs : r \in Ended ~> r \in claimed
MessagesSettle ==
  \A m \in Messages : rows[m].state = "pending" ~> rows[m].state \in {"sent", "failed"}

=============================================================================
