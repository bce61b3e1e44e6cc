---------------------------- MODULE NotifyProofs ----------------------------
(***************************************************************************)
(* Proofs about Notify, for any number of drills, channels and             *)
(* dispatchers, any batch, any number of attempts and any faults.          *)
(***************************************************************************)
EXTENDS Notify, WellFoundedInduction, TLAPS

States == {"none", "pending", "sent", "failed"}
Slots == [state : States, attempts : Nat, due : BOOLEAN]
Outbox == [message : Messages \cup {<<>>}, row : Slots]

Typed ==
  /\ rows \in [Messages -> Slots] /\ mail \in [Dispatchers -> [Messages -> Slots]]
  /\ sent \in [Dispatchers -> Outbox] /\ DOMAIN pc = Dispatchers
  /\ accepted \in [Messages -> Nat]

\* An outcome waits to be recorded only in settle.
Waiting == \A d \in Dispatchers : pc[d] # "settle" => sent[d] = NoOutcome

Holds(d, m) == mail[d][m].state # "none" \/ sent[d].message = m

\* What is known of a message that one dispatcher at a time dealt with: who
\* has it still to post has not posted it, a row that says sent is in nobody's
\* hands, and an acceptance is recorded or about to be.
Clear(m) ==
  /\ \A d, e \in Dispatchers : Holds(d, m) /\ Holds(e, m) => d = e
  /\ \A d \in Dispatchers : mail[d][m].state # "none" => sent[d].message # m /\ accepted[m] = 0
  /\ rows[m].state = "sent" => \A d \in Dispatchers : ~Holds(d, m)
  /\ \/ accepted[m] = 0
     \/ /\ accepted[m] = 1
        /\ \/ rows[m].state = "sent"
           \/ \E d \in Dispatchers : sent[d].message = m /\ sent[d].row.state = "sent"

Inv == Typed /\ Waiting /\ \A m \in Messages \ blurred : Clear(m)

-----------------------------------------------------------------------------
LEMMA NoRowType == NoRow \in Slots /\ NoRow.state = "none"
  BY DEF NoRow, Slots, States

LEMMA NoOutcomeType == NoOutcome \in Outbox /\ NoOutcome.message \notin Messages
<1>1. NoOutcome \in Outbox
  BY NoRowType DEF NoOutcome, Outbox
<1>2. <<>> \notin Messages
  BY DEF Messages
<1> QED BY <1>1, <1>2 DEF NoOutcome

LEMMA OutcomeType ==
  ASSUME NEW row \in Slots, NEW answer
  PROVE  /\ Outcome(row, answer) \in Slots
         /\ answer = "ok" => Outcome(row, answer).state = "sent"
<1>1. row.attempts + 1 \in Nat
  BY DEF Slots
<1> QED BY <1>1 DEF Outcome, Slots, States

LEMMA InvInit == Init => Inv
<1> SUFFICES ASSUME Init PROVE Inv
  OBVIOUS
<1>1. Typed
  BY NoRowType, NoOutcomeType DEF Init, Typed, NoMail
<1>2. ASSUME NEW m \in Messages PROVE Clear(m)
  <2>1. rows[m] = NoRow /\ accepted[m] = 0 /\ \A d \in Dispatchers : mail[d][m] = NoRow /\ sent[d] = NoOutcome
    BY DEF Init, NoMail
  <2>2. \A d \in Dispatchers : ~Holds(d, m)
    BY <2>1, NoRowType, NoOutcomeType DEF Holds
  <2> QED BY <2>1, <2>2, NoRowType DEF Clear, Holds
<1> QED BY <1>1, <1>2 DEF Init, Inv, Waiting

\* A step that leaves the deliveries alone and does not enter or leave settle.
LEMMA Apart ==
  ASSUME Inv, UNCHANGED <<rows, mail, sent, accepted, blurred>>, DOMAIN pc' = Dispatchers,
         \A d \in Dispatchers : pc'[d] # "settle" => pc[d] # "settle"
  PROVE  Inv'
<1>1. Typed' /\ Waiting'
  BY DEF Inv, Typed, Waiting
<1>2. ASSUME NEW m \in Messages, m \notin blurred' PROVE Clear(m)'
  BY <1>2 DEF Inv, Clear, Holds
<1> QED BY <1>1, <1>2 DEF Inv

\* A row that is not "sent", before or after, tells nothing.
LEMMA RowStep ==
  ASSUME Inv, NEW m \in Messages, NEW row \in Slots, rows' = [rows EXCEPT ![m] = row],
         rows[m].state # "sent", row.state # "sent", UNCHANGED <<mail, sent, accepted, blurred, pc>>
  PROVE  Inv'
<1>1. Typed' /\ Waiting'
  BY DEF Inv, Typed, Waiting
<1>2. \A n \in Messages : rows'[n].state = "sent" <=> rows[n].state = "sent"
  BY DEF Inv, Typed
<1>3. ASSUME NEW n \in Messages, n \notin blurred' PROVE Clear(n)'
  BY <1>2, <1>3 DEF Inv, Clear, Holds
<1> QED BY <1>1, <1>3 DEF Inv

LEMMA ReadDueStep ==
  ASSUME Inv, NEW d \in Dispatchers, ReadDue(d)
  PROVE  Inv'
<1>1. CASE UNCHANGED <<mail, blurred>> /\ pc' = [pc EXCEPT ![d] = "idle"]
  <2>1. pc[d] # "settle"
    BY DEF ReadDue
  <2> QED BY <1>1, <2>1, Apart DEF ReadDue, Inv, Typed
<1>2. ASSUME NEW box \in SUBSET DueDeliveries,
             mail' = [mail EXCEPT ![d] = [m \in Messages |-> IF m \in box THEN rows[m] ELSE NoRow]],
             blurred' = blurred \cup {m \in box : HeldBy(m)},
             pc' = [pc EXCEPT ![d] = "attempt"]
      PROVE  Inv'
  <2>1. /\ pc[d] = "deliver" /\ UNCHANGED <<rows, sent, accepted>>
        /\ \A e \in Dispatchers : e # d => mail'[e] = mail[e] /\ pc'[e] = pc[e]
        /\ \A m \in Messages : mail'[d][m] = IF m \in box THEN rows[m] ELSE NoRow
    BY <1>2 DEF ReadDue, Inv, Typed
  <2>2. Typed'
    BY <1>2, <2>1, NoRowType DEF Inv, Typed
  <2>3. Waiting' /\ sent[d].message \notin Messages
    BY <1>2, <2>1, NoOutcomeType DEF Inv, Typed, Waiting
  <2>4. ASSUME NEW m \in Messages, m \notin blurred' PROVE Clear(m)'
    <3>1. Clear(m)
      BY <1>2, <2>4 DEF Inv
    <3>2. CASE m \in box
      <4>1. /\ \A e \in Dispatchers : mail[e][m].state = "none" /\ sent[e].message # m
            /\ rows[m].state = "pending"
        BY <1>2, <2>4, <3>2 DEF HeldBy, Held, DueDeliveries
      <4>2. accepted[m] = 0
        BY <3>1, <4>1 DEF Clear
      <4> QED BY <2>1, <3>2, <4>1, <4>2 DEF Clear, Holds
    <3>3. CASE m \notin box
      <4>1. mail'[d][m].state = "none"
        BY <2>1, <3>3, NoRowType
      <4> QED BY <2>1, <3>1, <4>1 DEF Clear, Holds
    <3> QED BY <3>2, <3>3
  <2> QED BY <2>2, <2>3, <2>4 DEF Inv
<1> QED BY <1>1, <1>2 DEF ReadDue

\* A message leaves the mail with an outcome: accepted counts a "sent".
LEMMA TakesStep ==
  ASSUME Inv, NEW d \in Dispatchers, NEW m \in Held(mail[d]), NEW answer,
         pc[d] = "attempt", Takes(d, m, answer), UNCHANGED rows,
         accepted' \in [Messages -> Nat], blurred \subseteq blurred',
         \A n \in Messages : n # m => accepted'[n] = accepted[n],
         \/ m \in blurred'
         \/ answer # "ok" /\ accepted'[m] = accepted[m]
         \/ answer = "ok" /\ (accepted[m] = 0 => accepted'[m] = 1)
  PROVE  Inv'
<1>1. /\ m \in Messages /\ mail[d][m].state # "none" /\ mail[d][m] \in Slots
      /\ sent[d].message \notin Messages
  BY NoOutcomeType DEF Held, Inv, Typed, Waiting
<1> DEFINE row == Outcome(mail[d][m], answer)
           out == [message |-> m, row |-> row]
<1>2. row \in Slots /\ (answer = "ok" => row.state = "sent")
  BY <1>1, OutcomeType
<1>3. sent' = [sent EXCEPT ![d] = out]
  BY DEF Takes
<1> HIDE DEF row
<1>4. out \in Outbox /\ out.message = m /\ out.row = row
  BY <1>1, <1>2 DEF Outbox
<1> HIDE DEF out
<1>5. /\ \A e \in Dispatchers : e # d => mail'[e] = mail[e] /\ sent'[e] = sent[e]
      /\ \A n \in Messages : n # m => mail'[d][n] = mail[d][n]
      /\ mail'[d][m] = NoRow /\ sent'[d] = out
  BY <1>1, <1>3 DEF Takes, Inv, Typed
<1>6. Typed'
  BY <1>1, <1>3, <1>4, NoRowType DEF Takes, Inv, Typed
<1>7. Waiting'
  BY <1>5 DEF Takes, Inv, Typed, Waiting
<1>8. ASSUME NEW n \in Messages, n \notin blurred', n # m PROVE Clear(n)'
  <2>1. Clear(n) /\ accepted'[n] = accepted[n]
    BY <1>8 DEF Inv
  <2>2. \A e \in Dispatchers : mail'[e][n] = mail[e][n]
    BY <1>5, <1>8
  <2>3. \A e \in Dispatchers : e # d => sent'[e] = sent[e]
    BY <1>5
  <2>4. sent'[d].message # n /\ sent[d].message # n
    BY <1>1, <1>4, <1>5, <1>8
  <2> QED BY <2>1, <2>2, <2>3, <2>4 DEF Clear, Holds
<1>9. ASSUME m \notin blurred' PROVE Clear(m)'
  <2>1. Clear(m) /\ Holds(d, m)
    BY <1>1, <1>9 DEF Inv, Holds
  <2>2. /\ accepted[m] = 0 /\ rows[m].state # "sent"
        /\ \A e \in Dispatchers : e # d => ~Holds(e, m)
    BY <1>1, <2>1 DEF Clear
  <2>3. \A e \in Dispatchers : e # d => mail'[e][m].state = "none" /\ sent'[e].message # m
    BY <1>5, <2>2 DEF Holds
  <2>4. mail'[d][m].state = "none" /\ sent'[d].message = m /\ sent'[d].row = row
    BY <1>4, <1>5, NoRowType
  <2>5. accepted'[m] = 0 \/ (accepted'[m] = 1 /\ row.state = "sent")
    BY <1>2, <1>9, <2>2
  <2> QED BY <2>2, <2>3, <2>4, <2>5 DEF Clear, Holds
<1> QED BY <1>6, <1>7, <1>8, <1>9 DEF Inv

LEMMA PostStep ==
  ASSUME Inv, NEW d \in Dispatchers, Post(d)
  PROVE  Inv'
<1>1. PICK m \in Held(mail[d]) :
         \/ \E answer \in Answers :
              /\ Takes(d, m, answer)
              /\ accepted' = [accepted EXCEPT ![m] = IF answer = "ok" /\ @ < 2 THEN @ + 1 ELSE @]
              /\ UNCHANGED <<outages, blurred>>
         \/ /\ Fault("lostreply")
            /\ Takes(d, m, "retry")
            /\ accepted' = [accepted EXCEPT ![m] = IF @ < 2 THEN @ + 1 ELSE @]
            /\ blurred' = blurred \cup {m}
  BY DEF Post
<1>2. m \in Messages /\ accepted[m] \in Nat /\ pc[d] = "attempt" /\ UNCHANGED rows
  BY DEF Held, Inv, Typed, Post
<1>3. /\ accepted' \in [Messages -> Nat] /\ \A n \in Messages : n # m => accepted'[n] = accepted[n]
  BY <1>1, <1>2 DEF Inv, Typed
<1>4. ASSUME NEW answer \in Answers, Takes(d, m, answer), UNCHANGED blurred,
             accepted' = [accepted EXCEPT ![m] = IF answer = "ok" /\ @ < 2 THEN @ + 1 ELSE @]
      PROVE  Inv'
  <2>1. \/ answer # "ok" /\ accepted'[m] = accepted[m]
        \/ answer = "ok" /\ (accepted[m] = 0 => accepted'[m] = 1)
    BY <1>2, <1>4 DEF Inv, Typed
  <2> QED BY <1>2, <1>3, <1>4, <2>1, TakesStep
<1>5. ASSUME Takes(d, m, "retry"), blurred' = blurred \cup {m} PROVE Inv'
  BY <1>2, <1>3, <1>5, TakesStep
<1> QED BY <1>1, <1>4, <1>5

LEMMA SettleStep ==
  ASSUME Inv, NEW d \in Dispatchers, Settle(d)
  PROVE  Inv'
<1> DEFINE m == sent[d].message
<1>0. /\ pc[d] = "settle" /\ sent' = [sent EXCEPT ![d] = NoOutcome]
      /\ pc' = [pc EXCEPT ![d] = "attempt"] /\ UNCHANGED <<mail, accepted>>
      /\ blurred \subseteq blurred'
  BY DEF Settle
<1>1. \/ rows' = rows /\ m \in blurred'
      \/ rows' = [rows EXCEPT ![m] = sent[d].row] /\ UNCHANGED blurred
  BY DEF Settle, SettleDelivery
<1>2. sent[d].row \in Slots /\ sent[d] \in Outbox
  BY DEF Inv, Typed, Outbox
<1>3. Typed'
  BY <1>0, <1>1, <1>2, NoOutcomeType DEF Inv, Typed
<1>4. /\ \A e \in Dispatchers : e # d => sent'[e] = sent[e] /\ pc'[e] = pc[e]
      /\ sent'[d] = NoOutcome
  BY <1>0 DEF Inv, Typed
<1>5. Waiting'
  BY <1>4 DEF Inv, Waiting
<1>6. ASSUME NEW n \in Messages, n \notin blurred', n # m PROVE Clear(n)'
  <2>1. Clear(n) /\ rows'[n] = rows[n]
    BY <1>0, <1>1, <1>6 DEF Inv, Typed
  <2>2. sent'[d].message # n /\ sent[d].message # n
    BY <1>4, <1>6, NoOutcomeType
  <2> QED BY <1>0, <1>4, <2>1, <2>2 DEF Clear, Holds
<1>7. ASSUME NEW n \in Messages, n \notin blurred', n = m PROVE Clear(n)'
  <2>1. Clear(n) /\ Holds(d, n)
    BY <1>0, <1>7 DEF Inv, Holds
  <2>2. rows'[n] = sent[d].row
    BY <1>1, <1>7 DEF Inv, Typed
  <2>3. \A e \in Dispatchers : e # d => ~Holds(e, n)
    BY <2>1 DEF Clear
  <2>4. mail[d][n].state = "none" /\ rows[n].state # "sent"
    BY <1>7, <2>1 DEF Clear
  <2>5. \A e \in Dispatchers : mail'[e][n].state = "none" /\ sent'[e].message # n
    BY <1>0, <1>4, <1>7, <2>3, <2>4, NoOutcomeType DEF Holds
  <2>6. accepted[n] = 0 \/ (accepted[n] = 1 /\ sent[d].row.state = "sent")
    BY <1>7, <2>1, <2>3, <2>4 DEF Clear, Holds
  <2> QED BY <1>0, <2>2, <2>5, <2>6 DEF Clear, Holds
<1> QED BY <1>3, <1>5, <1>6, <1>7 DEF Inv

LEMMA DownStep ==
  ASSUME Inv, NEW d \in Dispatchers, Down(d)
  PROVE  Inv'
<1>0. /\ mail' = [mail EXCEPT ![d] = NoMail] /\ sent' = [sent EXCEPT ![d] = NoOutcome]
      /\ pc' = [pc EXCEPT ![d] = "down"] /\ UNCHANGED <<rows, accepted>>
      /\ blurred' = IF pc[d] = "settle" THEN blurred \cup {sent[d].message} ELSE blurred
  BY DEF Down
<1>1. /\ \A e \in Dispatchers : e # d => mail'[e] = mail[e] /\ sent'[e] = sent[e] /\ pc'[e] = pc[e]
      /\ mail'[d] = NoMail /\ sent'[d] = NoOutcome
  BY <1>0 DEF Inv, Typed
<1>2. Typed'
  BY <1>0, NoRowType, NoOutcomeType DEF Inv, Typed, NoMail
<1>3. Waiting'
  BY <1>1 DEF Inv, Waiting
<1>4. ASSUME NEW n \in Messages, n \notin blurred' PROVE Clear(n)'
  <2>1. Clear(n)
    BY <1>0, <1>4 DEF Inv
  <2>2. sent[d].message # n
    BY <1>0, <1>4, NoOutcomeType DEF Inv, Waiting
  <2>3. mail'[d][n].state = "none" /\ sent'[d].message # n
    BY <1>1, <1>4, NoRowType, NoOutcomeType DEF NoMail
  <2> QED BY <1>0, <1>1, <2>1, <2>2, <2>3 DEF Clear, Holds
<1> QED BY <1>2, <1>3, <1>4 DEF Inv

LEMMA InvStep == Inv /\ [Next]_vars => Inv'
<1> SUFFICES ASSUME Inv, [Next]_vars PROVE Inv'
  OBVIOUS
<1>0. DOMAIN pc = Dispatchers
  BY DEF Inv, Typed
<1>1. ASSUME UNCHANGED <<rows, local, accepted, blurred>> PROVE Inv'
  BY <1>0, <1>1, Apart DEF local
<1>2. ASSUME NEW m \in Messages, ComesDue(m) PROVE Inv'
  <2>1. rows[m] \in Slots /\ rows[m].state = "pending"
    BY <1>2 DEF ComesDue, Inv, Typed
  <2>2. [rows[m] EXCEPT !.due = TRUE] \in Slots /\ [rows[m] EXCEPT !.due = TRUE].state = "pending"
    BY <2>1 DEF Slots
  <2>3. rows' = [rows EXCEPT ![m] = [rows[m] EXCEPT !.due = TRUE]]
    BY <1>2 DEF ComesDue, Inv, Typed
  <2> QED BY <1>2, <2>1, <2>2, <2>3, RowStep DEF ComesDue, local, ghosts
<1>3. ASSUME NEW d \in Dispatchers,
             Resolve(d) \/ ReadRuns(d) \/ Considered(d) \/ Claim(d) \/ Judge(d) \/ Delivered(d) \/ Up(d)
      PROVE  Inv'
  <2>1. /\ pc[d] # "settle" /\ UNCHANGED <<rows, mail, sent, accepted, blurred>>
        /\ \/ pc' = pc
           \/ \E x : pc' = [pc EXCEPT ![d] = x] /\ x # "settle"
    BY <1>3 DEF Resolve, ReadRuns, Considered, Claim, Judge, Delivered, Up, ghosts
  <2> QED BY <1>0, <2>1, Apart
<1>4. ASSUME NEW d \in Dispatchers, Queue(d) PROVE Inv'
  <2>1. pc[d] = "queue" /\ UNCHANGED <<mail, sent, accepted, blurred>>
    BY <1>4 DEF Queue
  <2>2. CASE rows' = rows /\ (pc' = pc \/ pc' = [pc EXCEPT ![d] = "consider"])
    BY <1>0, <2>1, <2>2, Apart
  <2>3. ASSUME NEW m, CreateDelivery(m), pc' = pc PROVE Inv'
    <3> DEFINE row == [state |-> "pending", attempts |-> 0, due |-> TRUE]
    <3>1. row \in Slots /\ row.state = "pending"
      BY DEF Slots, States
    <3>2. CASE rows' = rows
      BY <2>1, <2>3, <3>2, Apart, <1>0
    <3>3. CASE m \in Messages /\ rows[m].state = "none" /\ rows' = [rows EXCEPT ![m] = row]
      <4> HIDE DEF row
      <4> QED BY <2>1, <2>3, <3>1, <3>3, RowStep
    <3>4. m \notin Messages => [rows EXCEPT ![m] = row] = rows
      BY DEF Inv, Typed
    <3> QED BY <2>3, <3>2, <3>3, <3>4 DEF CreateDelivery
  <2> QED BY <1>4, <2>2, <2>3 DEF Queue
<1>5. ASSUME NEW d \in Dispatchers, Fail(d) PROVE Inv'
  <2>1. PICK m \in Held(mail[d]) : Takes(d, m, "no")
    BY <1>5 DEF Fail
  <2> QED BY <1>5, <2>1, TakesStep DEF Fail, Inv, Typed, ghosts
<1> QED BY <1>1, <1>2, <1>3, <1>4, <1>5, ReadDueStep, PostStep, SettleStep, DownStep
        DEF Next, Tick, Start, End, Age, Reconfigure, vars, ghosts

-----------------------------------------------------------------------------
(***************************************************************************)
(* However many dispatchers share the database and whatever fails, a       *)
(* channel accepts a message twice only when two dispatchers held its row  *)
(* or an outcome went unrecorded (dispatcher.go, deliver and settle).      *)
(***************************************************************************)
THEOREM OnceOnly == Spec => []NotTwice
<1>1. Inv => NotTwice
  BY DEF Inv, Clear, NotTwice
<1> QED BY InvInit, InvStep, <1>1, PTL DEF Spec

(***************************************************************************)
(* A message recorded as sent is never written over, unless two            *)
(* dispatchers held its row (SettleDelivery is unguarded).                 *)
(***************************************************************************)
THEOREM SentForGood == Spec => SentStaysSent
<1> DEFINE Stays == \A m \in Messages : rows[m].state = "sent" /\ m \notin blurred => rows'[m].state = "sent"
<1>1. ASSUME Inv, [Next]_vars PROVE [Stays]_vars
  <2> SUFFICES ASSUME Next, NEW m \in Messages, rows[m].state = "sent", m \notin blurred
               PROVE  rows'[m].state = "sent"
    BY <1>1
  <2>0. Clear(m) /\ rows \in [Messages -> Slots]
    BY <1>1 DEF Inv, Typed
  <2>1. CASE UNCHANGED rows
    BY <2>1
  <2>2. ASSUME NEW n \in Messages, ComesDue(n) PROVE rows'[m].state = "sent"
    BY <2>0, <2>2 DEF ComesDue, Slots
  <2>3. ASSUME NEW n, CreateDelivery(n) PROVE rows'[m].state = "sent"
    BY <2>0, <2>3 DEF CreateDelivery
  <2>4. ASSUME NEW d \in Dispatchers, Settle(d) PROVE rows'[m].state = "sent"
    <3>1. sent[d].message # m
      BY <2>0, <2>4 DEF Clear, Holds
    <3> QED BY <2>0, <2>4, <3>1 DEF Settle, SettleDelivery
  <2> QED BY <2>1, <2>2, <2>3, <2>4
          DEF Next, Tick, Start, End, Age, Reconfigure, Resolve, ReadRuns, Considered, Claim, Judge,
              Queue, ReadDue, Delivered, Fail, Post, Down, Up
<1> QED BY InvInit, InvStep, <1>1, PTL DEF Spec, SentStaysSent

-----------------------------------------------------------------------------
(* The story the channels are told.                                        *)

Records == {Unsettled("absent"), Unsettled("running")} \cup Outcomes
NewsTypes == [run : 0 .. NumRuns, kind : Kinds \cup {Silence}, channels : SUBSET Channels]
Speaking == {"judge", "queue"}

Told(m) == rows[m].state # "none"

\* Drills before r were not over, or were not listed before it, when r was
\* judged: nothing is promised of the story then, ever.
Spoiled(r) == \E q \in 1 .. r - 1 :
  run[q].state \notin Terminal \/ Interrupted(q) \/ r \in listed[q]

Shape ==
  /\ run \in [Runs -> Records] /\ listed \in [Runs -> SUBSET Runs]
  /\ claimed \subseteq Ended
  /\ DOMAIN conf = Channels /\ \A c \in Steady : conf[c] = "on"
  /\ DOMAIN snap = Dispatchers /\ \A d \in Dispatchers : DOMAIN snap[d] \subseteq Channels
  /\ DOMAIN todo = Dispatchers /\ \A d \in Dispatchers : todo[d] \subseteq Ended
  /\ news \in [Dispatchers -> NewsTypes]

\* A dispatcher on its way to a message knows the channels that stay.
Informed ==
  \A d \in Dispatchers :
    pc[d] \in {"decide", "consider"} \cup Speaking => Steady \subseteq DOMAIN snap[d]

\* Who has news claimed the drill, and nobody else has it.
Bearing ==
  \A d \in Dispatchers :
    /\ pc[d] \in Speaking <=> news[d].run # 0
    /\ news[d].run # 0 => news[d].run \in claimed
    /\ \A e \in Dispatchers : news[d].run # 0 /\ news[d].run = news[e].run => d = e

\* Who holds a row, or its outcome, holds one that is there.
Hands ==
  \A d \in Dispatchers, m \in Messages :
    /\ mail[d][m].state # "none" => Told(m)
    /\ sent[d].message = m => Told(m) /\ sent[d].row.state # "none"

Unjudged(r) == r \notin claimed \/ \E d \in Dispatchers : pc[d] = "judge" /\ news[d].run = r

Untold == \A r \in Runs : Unjudged(r) => \A c \in Channels : ~Told(<<r, c>>)

\* What is being queued is news, and reaches every channel that stays.
Promise(d) ==
  /\ Spoiled(news[d].run) \/ Verdict(news[d].run) # Silence
  /\ \A c \in Steady : \/ news[d].run \in unsaid \/ c \in news[d].channels
                       \/ Told(<<news[d].run, c>>)
Queueing == \A d \in Dispatchers : pc[d] = "queue" => Promise(d)

\* What became of a drill that was judged.
Right(r) == Spoiled(r) \/ \A c \in Steady : Told(<<r, c>>) <=> Verdict(r) # Silence
Judged == \A r \in claimed \ unsaid : (\A d \in Dispatchers : news[d].run # r) => Right(r)

StoryInv == Shape /\ Informed /\ Bearing /\ Hands /\ Untold /\ Queueing /\ Judged

\* A set of naturals has a least member, and a bounded one a greatest.
LEMMA LeastNat ==
  ASSUME NEW T \in SUBSET Nat, T # {}
  PROVE  \E n \in T : \A m \in T : n <= m
<1>1. PICK n \in T : \A m \in T : ~(<<m, n>> \in OpToRel(<, Nat))
  BY NatLessThanWellFounded, WFMin
<1>2. ASSUME NEW m \in T PROVE n <= m
  <2>1. ~(<<m, n>> \in OpToRel(<, Nat))
    BY <1>1
  <2>2. ~(m < n)
    BY <2>1 DEF OpToRel
  <2>3. m \in Nat /\ n \in Nat
    OBVIOUS
  <2> QED BY <2>2, <2>3
<1> QED BY <1>2
LEMMA GreatestNat ==
  ASSUME NEW k \in Nat, NEW T \in SUBSET (0 .. k), T # {}
  PROVE  \E n \in T : \A m \in T : m <= n
<1> DEFINE U == {x \in Nat : k - x \in T}
<1>1. U # {}
  <2>1. PICK t \in T : t \in 0 .. k
    OBVIOUS
  <2>2. k - t \in Nat /\ k - (k - t) = t
    BY <2>1
  <2> QED BY <2>2
<1>2. PICK u \in U : \A x \in U : u <= x
  BY <1>1, LeastNat
<1>3. ASSUME NEW m \in T PROVE m <= k - u
  <2>1. m \in 0 .. k /\ k - m \in Nat /\ k - (k - m) = m
    OBVIOUS
  <2>2. u <= k - m
    BY <1>2, <2>1
  <2> QED BY <2>1, <2>2
<1> QED BY <1>2, <1>3

\* PreviousGraded is the newest earlier drill with a verdict.
LEMMA PreviousIsGraded ==
  ASSUME NEW r \in Nat
  PROVE  /\ \/ PreviousGraded(r) = 0 /\ \A q \in 1 .. r - 1 : run[q].story.result = NoVerdict
            \/ /\ PreviousGraded(r) \in 1 .. r - 1 /\ run[PreviousGraded(r)].story.result # NoVerdict
               /\ \A q \in 1 .. r - 1 : run[q].story.result # NoVerdict => q <= PreviousGraded(r)
<1> DEFINE graded == {q \in 1 .. r - 1 : run[q].story.result # NoVerdict}
<1>1. CASE graded = {}
  BY <1>1 DEF PreviousGraded
<1>2. CASE graded # {}
  <2>1. graded \subseteq 0 .. r
    OBVIOUS
  <2>2. \E n \in graded : \A m \in graded : m <= n
    BY <1>2, <2>1, GreatestNat
  <2>3. PreviousGraded(r) = CHOOSE q \in graded : \A p \in graded : p <= q
    BY <1>2 DEF PreviousGraded
  <2> HIDE DEF graded
  <2>4. PreviousGraded(r) \in graded /\ \A p \in graded : p <= PreviousGraded(r)
    BY <2>2, <2>3
  <2> QED BY <2>4 DEF graded
<1> QED BY <1>1, <1>2

LEMMA UnsettledFields ==
  ASSUME NEW state
  PROVE  Unsettled(state).state = state /\ Unsettled(state).story.result = NoVerdict
  BY DEF Unsettled

LEMMA NewsFields ==
  /\ NoNews \in NewsTypes /\ NoNews.run = 0
  /\ \A r \in Runs, k \in Kinds \cup {Silence}, s \in SUBSET Channels :
       /\ Message(r, k, s) \in NewsTypes /\ Message(r, k, s).run = r /\ Message(r, k, s).channels = s
<1>1. NumRuns \in Nat
  BY NotifyAssumption
<1> QED BY <1>1 DEF NoNews, NewsTypes, Message, Runs

LEMMA StoryInit == Init => StoryInv
<1> SUFFICES ASSUME Init PROVE StoryInv
  OBVIOUS
<1>1. /\ \A r \in Runs : run[r].state = "absent"
      /\ \A m \in Messages : rows[m].state = "none"
      /\ \A d \in Dispatchers : /\ news[d].run = 0 /\ pc[d] = "idle"
                                /\ \A m \in Messages : mail[d][m].state = "none" /\ sent[d].message # m
  BY UnsettledFields, NewsFields, NoRowType, NoOutcomeType DEF Init, NoMail
<1>2. Shape
  BY NewsFields, NotifyAssumption DEF Init, Shape, Records
<1>3. \A r \in Runs, c \in Channels : <<r, c>> \in Messages
  BY DEF Messages
<1>4. Informed /\ Bearing /\ Hands
  BY <1>1 DEF Informed, Bearing, Hands, Speaking
<1>5. Untold /\ Queueing
  BY <1>1, <1>3 DEF Untold, Queueing, Told
<1>6. Judged
  BY DEF Init, Judged
<1> QED BY <1>2, <1>4, <1>5, <1>6 DEF StoryInv

-----------------------------------------------------------------------------
(* The story up to a drill does not change once it is over.                *)

\* A drill that is over stays as it is and keeps those listed before it; one
\* that ends later is listed after it, or was interrupted.
Onward ==
  /\ \A q \in Ended : run'[q] = run[q] /\ listed[q] \subseteq listed'[q]
  /\ \A q \in Runs \ Ended : q \in Ended' => Interrupted(q)' \/ Ended \subseteq listed'[q]

LEMMA Enduring ==
  ASSUME Shape, Shape', Onward, NEW r \in Ended
  PROVE  r \in Ended' /\ (Spoiled(r)' \/ (~Spoiled(r) /\ Verdict(r)' = Verdict(r)))
<1>0. NumRuns \in Nat /\ r \in Runs /\ r \in 1 .. NumRuns
  BY NotifyAssumption DEF Ended, Runs
<1>1. r \in Ended'
  BY DEF Onward, Ended
<1>2. \A q \in 1 .. r - 1 : q \in Runs
  BY <1>0 DEF Runs
<1>3. ASSUME NEW q \in 1 .. r - 1, run[q].state \notin Terminal \/ Interrupted(q) \/ r \in listed[q]
      PROVE  run'[q].state \notin Terminal \/ Interrupted(q)' \/ r \in listed'[q]
  <2>1. CASE q \in Ended
    BY <1>3, <2>1 DEF Onward, Ended, Interrupted
  <2>2. CASE q \notin Ended
    BY <1>2, <2>2 DEF Onward, Ended
  <2> QED BY <2>1, <2>2
<1>4. Spoiled(r) => Spoiled(r)'
  BY <1>3 DEF Spoiled
<1>5. ASSUME ~Spoiled(r) PROVE Verdict(r)' = Verdict(r)
  <2>1. \A q \in 1 .. r - 1 : q \in Ended /\ run'[q] = run[q]
    BY <1>2, <1>5 DEF Spoiled, Ended, Onward
  <2>2. run'[r] = run[r]
    BY DEF Onward
  <2>3. PreviousGraded(r)' = PreviousGraded(r)
    <3> DEFINE before == {q \in 1 .. r - 1 : run[q].story.result # NoVerdict}
               after == {q \in 1 .. r - 1 : run'[q].story.result # NoVerdict}
               Newest(S) == IF S = {} THEN 0 ELSE CHOOSE q \in S : \A p \in S : p <= q
    <3>1. before = after
      BY <2>1
    <3>2. PreviousGraded(r) = Newest(before)
      BY DEF PreviousGraded
    <3>3. PreviousGraded(r)' = Newest(after)
      BY DEF PreviousGraded
    <3> HIDE DEF before, after, Newest
    <3> QED BY <3>1, <3>2, <3>3
  <2>4. PrecededByUnevaluable(r)' = PrecededByUnevaluable(r)
    <3>1. r > 1 => r - 1 \in 1 .. r - 1
      BY <1>0
    <3> QED BY <2>1, <3>1 DEF PrecededByUnevaluable
  <2>5. PreviousGraded(r) # 0 => run'[PreviousGraded(r)] = run[PreviousGraded(r)]
    BY <1>0, <2>1, PreviousIsGraded
  <2>6. \A x : x = 0 \/ run'[x] = run[x] => ConsiderValues(r, x)' = ConsiderValues(r, x)
    BY <2>2 DEF ConsiderValues
  <2> QED BY <2>2, <2>3, <2>4, <2>5, <2>6 DEF Verdict
<1> QED BY <1>1, <1>4, <1>5

LEMMA Idle == UNCHANGED <<run, listed>> => Onward
<1> SUFFICES ASSUME run' = run, listed' = listed PROVE Onward
  OBVIOUS
<1>1. Ended' = Ended
  BY DEF Ended
<1> QED BY <1>1 DEF Onward

LEMMA EndedFields ==
  ASSUME NEW q \in Outcomes
  PROVE  q.state \in Terminal
  BY NotifyAssumption

LEMMA StartOnward ==
  ASSUME Shape, NEW r \in Runs, Start(r)
  PROVE  /\ Onward /\ Ended' = Ended /\ run' \in [Runs -> Records] /\ UNCHANGED listed
<1>1. r \notin Ended
  BY DEF Start, Ended, Terminal
<1>2. \A q \in Runs : q # r => run'[q] = run[q]
  BY DEF Start, Shape
<1>3. run'[r].state = "running" /\ run' \in [Runs -> Records] /\ UNCHANGED listed
  BY UnsettledFields DEF Start, Shape, Records
<1>4. Ended' = Ended
  BY <1>1, <1>2, <1>3 DEF Ended, Terminal
<1> QED BY <1>1, <1>2, <1>3, <1>4 DEF Onward, Ended

LEMMA EndOnward ==
  ASSUME Shape, NEW r \in Runs, End(r)
  PROVE  /\ Onward /\ Ended' = Ended \cup {r} /\ run' \in [Runs -> Records]
         /\ listed' \in [Runs -> SUBSET Runs]
<1>1. r \notin Ended
  BY DEF End, Ended, Terminal
<1>2. PICK o \in Outcomes :
        /\ run' = [run EXCEPT ![r] = o]
        /\ listed' = [q \in Runs |-> IF q = r THEN (IF o.completed THEN Ended ELSE ListedBefore(r))
                         ELSE IF q \in Ended \ (IF o.completed THEN Ended ELSE ListedBefore(r))
                                THEN listed[q] \cup {r} ELSE listed[q]]
  BY DEF End
<1>3. run'[r] = o /\ \A q \in Runs : q # r => run'[q] = run[q]
  BY <1>2 DEF Shape
<1>4. run' \in [Runs -> Records]
  BY <1>2 DEF Shape, Records
<1>5. o.state \in Terminal /\ o.completed \in BOOLEAN
  BY NotifyAssumption
<1>6. Ended' = Ended \cup {r}
  BY <1>3, <1>5 DEF Ended
<1>7. Ended \subseteq Runs /\ ListedBefore(r) \subseteq Runs
  BY DEF Ended, ListedBefore
<1>8. \A q \in Runs : listed[q] \subseteq Runs
  BY DEF Shape
<1>9. listed' \in [Runs -> SUBSET Runs] /\ \A q \in Ended : listed[q] \subseteq listed'[q]
  BY <1>1, <1>2, <1>7, <1>8
<1>10. Interrupted(r)' \/ Ended \subseteq listed'[r]
  BY <1>2, <1>3, <1>5 DEF Interrupted
<1>11. \A q \in Ended : run'[q] = run[q]
  BY <1>1, <1>3, <1>7
<1>12. \A q \in Runs \ Ended : q \in Ended' => q = r
  BY <1>6
<1> QED BY <1>4, <1>6, <1>9, <1>10, <1>11, <1>12 DEF Onward

\* What a step that says nothing leaves standing.
LEMMA Standing ==
  ASSUME StoryInv, Shape', Onward, UNCHANGED <<news, unsaid, claimed>>,
         \A d \in Dispatchers : pc[d] \in Speaking \/ pc'[d] \in Speaking => pc'[d] = pc[d],
         \A m \in Messages : Told(m)' <=> Told(m)
  PROVE  Bearing' /\ Untold' /\ Queueing' /\ Judged'
<1>0. \A r \in Runs, c \in Channels : <<r, c>> \in Messages
  BY DEF Messages
<1>1. Steady \subseteq Channels /\ claimed \subseteq Runs /\ claimed \subseteq Ended
  BY NotifyAssumption DEF StoryInv, Shape, Ended
<1>2. Bearing'
  BY DEF StoryInv, Bearing, Speaking
<1>3. \A r \in Runs : Unjudged(r)' => Unjudged(r)
  BY DEF Unjudged, Speaking
<1>4. Untold'
  BY <1>0, <1>3 DEF StoryInv, Untold
<1>5. ASSUME NEW r \in claimed
      PROVE  Spoiled(r)' \/ (~Spoiled(r) /\ Verdict(r)' = Verdict(r))
  BY <1>1, Enduring DEF StoryInv
<1>6. Queueing'
  <2> SUFFICES ASSUME NEW d \in Dispatchers, pc'[d] = "queue"
               PROVE  Promise(d)'
    BY DEF Queueing
  <2>1. pc[d] = "queue"
    BY DEF Speaking
  <2>2. news[d].run \in claimed /\ news[d].run \in Runs /\ news' = news
    BY <1>1, <2>1 DEF StoryInv, Bearing, Speaking
  <2>3. /\ Spoiled(news[d].run) \/ Verdict(news[d].run) # Silence
        /\ \A c \in Steady : \/ news[d].run \in unsaid \/ c \in news[d].channels
                             \/ Told(<<news[d].run, c>>)
    BY <2>1 DEF StoryInv, Queueing, Promise
  <2>4. Spoiled(news[d].run)' \/ Verdict(news[d].run)' # Silence
    BY <1>5, <2>2, <2>3
  <2> QED BY <1>0, <1>1, <2>2, <2>3, <2>4 DEF Promise
<1>7. Judged'
  <2> SUFFICES ASSUME NEW r \in claimed, r \notin unsaid, \A d \in Dispatchers : news[d].run # r
               PROVE  Right(r)'
    BY DEF Judged
  <2>1. Right(r) /\ r \in Runs
    BY <1>1 DEF StoryInv, Judged
  <2> QED BY <1>0, <1>1, <1>5, <2>1 DEF Right
<1> QED BY <1>2, <1>4, <1>6, <1>7

LEMMA OutsideStep ==
  ASSUME StoryInv, Inv,
         \/ \E r \in Runs : Start(r) \/ End(r) \/ Age(r)
         \/ \E c \in Channels : Reconfigure(c)
  PROVE  StoryInv'
<1>1. UNCHANGED <<rows, pc, snap, todo, news, mail, sent, claimed, unsaid>>
  BY DEF Start, End, Age, Reconfigure, local, ghosts, drills
<1>2. /\ Onward /\ Ended \subseteq Ended' /\ run' \in [Runs -> Records]
      /\ listed' \in [Runs -> SUBSET Runs]
  <2>1. CASE UNCHANGED <<run, listed>>
    BY <2>1, Idle DEF Ended, StoryInv, Shape
  <2> QED BY <2>1, StartOnward, EndOnward DEF StoryInv, Shape, Age, Reconfigure, drills
<1>3. DOMAIN conf' = Channels /\ \A c \in Steady : conf'[c] = "on"
  BY NotifyAssumption DEF Start, End, Age, Reconfigure, StoryInv, Shape
<1>4. Shape'
  BY <1>1, <1>2, <1>3 DEF StoryInv, Shape
<1>5. \A m \in Messages : Told(m)' <=> Told(m)
  BY <1>1 DEF Told
<1>6. Informed' /\ Hands'
  BY <1>1, <1>5 DEF StoryInv, Informed, Hands
<1> QED BY <1>1, <1>2, <1>4, <1>5, <1>6, Standing DEF StoryInv

\* A dispatcher's step that says nothing and leaves the rows alone or there.
LEMMA SilentStep ==
  ASSUME StoryInv, NEW d \in Dispatchers, NEW x,
         UNCHANGED <<drills, conf, news, unsaid>>, pc' = [pc EXCEPT ![d] = x], DOMAIN pc = Dispatchers,
         pc[d] \notin Speaking, x \notin Speaking,
         DOMAIN snap' = Dispatchers, DOMAIN todo' = Dispatchers,
         \A e \in Dispatchers : DOMAIN snap'[e] \subseteq Channels /\ todo'[e] \subseteq Ended,
         \A e \in Dispatchers : e # d => snap'[e] = snap[e],
         x \in {"decide", "consider"} => Steady \subseteq DOMAIN snap'[d],
         \A m \in Messages : Told(m)' <=> Told(m),
         Hands'
  PROVE  StoryInv'
<1>1. UNCHANGED <<run, listed, claimed>> /\ Ended' = Ended
  BY DEF drills, Ended
<1>2. Onward
  BY <1>1, Idle
<1>3. Shape'
  BY <1>1 DEF StoryInv, Shape
<1>4. pc'[d] = x /\ \A e \in Dispatchers : e # d => pc'[e] = pc[e]
  OBVIOUS
<1>5. Informed'
  BY <1>4 DEF StoryInv, Informed
<1>6. \A e \in Dispatchers : pc[e] \in Speaking \/ pc'[e] \in Speaking => pc'[e] = pc[e]
  BY <1>4
<1> QED BY <1>1, <1>2, <1>3, <1>5, <1>6, Standing DEF StoryInv

LEMMA RoundStep ==
  ASSUME StoryInv, Inv, NEW d \in Dispatchers,
         Resolve(d) \/ ReadRuns(d) \/ Considered(d) \/ Delivered(d) \/ Up(d)
  PROVE  StoryInv'
<1>1. /\ UNCHANGED <<drills, conf, rows, news, mail, sent, unsaid>> /\ pc[d] \notin Speaking
      /\ DOMAIN pc = Dispatchers
  BY DEF Resolve, ReadRuns, Considered, Delivered, Up, ghosts, Speaking, Inv, Typed
<1>2. (\A m \in Messages : Told(m)' <=> Told(m)) /\ Hands'
  BY <1>1 DEF StoryInv, Hands, Told
<1>3. /\ DOMAIN snap = Dispatchers /\ DOMAIN todo = Dispatchers
      /\ \A e \in Dispatchers : DOMAIN snap[e] \subseteq Channels /\ todo[e] \subseteq Ended
      /\ \A c \in Steady : conf[c] = "on" /\ c \in Channels
      /\ pc[d] \in {"decide", "consider"} => Steady \subseteq DOMAIN snap[d]
  BY NotifyAssumption DEF StoryInv, Shape, Informed
<1>4. CASE Resolve(d)
  <2>1. /\ snap' = [snap EXCEPT ![d] = [c \in {k \in Channels : conf[k] \in {"on", "unreadable"}} |-> conf[c]]]
        /\ pc' = [pc EXCEPT ![d] = "decide"] /\ todo' = todo
    BY <1>4 DEF Resolve
  <2>2. /\ DOMAIN snap' = Dispatchers /\ \A e \in Dispatchers : e # d => snap'[e] = snap[e]
        /\ DOMAIN snap'[d] = {k \in Channels : conf[k] \in {"on", "unreadable"}}
    BY <1>3, <2>1
  <2>3. Steady \subseteq DOMAIN snap'[d] /\ \A e \in Dispatchers : DOMAIN snap'[e] \subseteq Channels
    BY <1>3, <2>2
  <2>4. "decide" \notin Speaking
    BY DEF Speaking
  <2> HIDE DEF Speaking
  <2> QED BY <1>1, <1>2, <1>3, <2>1, <2>2, <2>3, <2>4, SilentStep
<1>5. CASE ~Resolve(d)
  <2>1. /\ snap' = snap
        /\ \E x \in {"consider", "deliver", "idle"} :
             pc' = [pc EXCEPT ![d] = x] /\ (x = "consider" => pc[d] = "decide")
        /\ todo' = todo \/ todo' = [todo EXCEPT ![d] = UnnotifiedRuns]
    BY <1>5 DEF ReadRuns, Considered, Delivered, Up
  <2>2. UnnotifiedRuns \subseteq Ended
    BY DEF UnnotifiedRuns
  <2>3. DOMAIN todo' = Dispatchers /\ \A e \in Dispatchers : todo'[e] \subseteq Ended
    BY <1>3, <2>1, <2>2
  <2>4. PICK x \in {"consider", "deliver", "idle"} :
          pc' = [pc EXCEPT ![d] = x] /\ (x = "consider" => pc[d] = "decide")
    BY <2>1
  <2>5. x \notin Speaking /\ (x \in {"decide", "consider"} => Steady \subseteq DOMAIN snap'[d])
    BY <1>3, <2>1, <2>4 DEF Speaking
  <2> QED BY <1>1, <1>2, <1>3, <2>1, <2>3, <2>4, <2>5, SilentStep
<1> QED BY <1>4, <1>5

LEMMA ReadDueStory ==
  ASSUME StoryInv, Inv, NEW d \in Dispatchers, ReadDue(d)
  PROVE  StoryInv'
<1>1. /\ UNCHANGED <<drills, conf, rows, news, sent, unsaid, snap, todo>> /\ pc[d] \notin Speaking
      /\ DOMAIN pc = Dispatchers /\ pc[d] = "deliver" /\ mail \in [Dispatchers -> [Messages -> Slots]]
  BY DEF ReadDue, Speaking, Inv, Typed
<1>2. PICK x \in {"attempt", "idle"} : pc' = [pc EXCEPT ![d] = x]
  BY DEF ReadDue
<1>3. \A m \in Messages : Told(m)' <=> Told(m)
  BY <1>1 DEF Told
<1>4. ASSUME NEW e \in Dispatchers, NEW m \in Messages, mail'[e][m].state # "none" PROVE Told(m)'
  <2>1. CASE mail' = mail
    BY <1>3, <1>4, <2>1 DEF StoryInv, Hands
  <2>2. CASE mail' # mail
    <3>1. PICK box \in SUBSET DueDeliveries :
            mail' = [mail EXCEPT ![d] = [n \in Messages |-> IF n \in box THEN rows[n] ELSE NoRow]]
      BY <2>2 DEF ReadDue
    <3>2. CASE e = d
      <4>1. m \in box
        BY <1>1, <1>4, <3>1, <3>2, NoRowType
      <4> QED BY <1>3, <3>1, <4>1 DEF DueDeliveries, Told
    <3>3. CASE e # d
      <4>1. mail'[e] = mail[e]
        BY <1>1, <3>1, <3>3
      <4> QED BY <1>3, <1>4, <4>1 DEF StoryInv, Hands
    <3> QED BY <3>2, <3>3
  <2> QED BY <2>1, <2>2
<1>5. Hands'
  BY <1>1, <1>3, <1>4 DEF StoryInv, Hands
<1>6. x \notin Speaking /\ x \notin {"decide", "consider"}
  BY <1>2 DEF Speaking
<1>7. /\ DOMAIN snap = Dispatchers /\ DOMAIN todo = Dispatchers
      /\ \A e \in Dispatchers : DOMAIN snap[e] \subseteq Channels /\ todo[e] \subseteq Ended
  BY DEF StoryInv, Shape
<1> QED BY <1>1, <1>2, <1>3, <1>5, <1>6, <1>7, SilentStep

LEMMA OutcomeIsARow == \A row, answer : Outcome(row, answer).state # "none"
  BY DEF Outcome

LEMMA TakesStory ==
  ASSUME StoryInv, Inv, NEW d \in Dispatchers, Fail(d) \/ Post(d)
  PROVE  StoryInv'
<1>1. /\ UNCHANGED <<drills, conf, rows, news, unsaid, snap, todo>> /\ pc[d] \notin Speaking
      /\ DOMAIN pc = Dispatchers /\ pc[d] = "attempt" /\ mail \in [Dispatchers -> [Messages -> Slots]]
      /\ DOMAIN sent = Dispatchers
  BY DEF Fail, Post, ghosts, Speaking, Inv, Typed
<1>0. PICK n \in Held(mail[d]) : \E answer : Takes(d, n, answer)
  BY DEF Fail, Post
<1>2. PICK answer : Takes(d, n, answer)
  BY <1>0
<1> DEFINE out == [message |-> n, row |-> Outcome(mail[d][n], answer)]
<1>3. out.message = n /\ out.row.state # "none"
  BY OutcomeIsARow
<1>4. sent' = [sent EXCEPT ![d] = out] /\ mail' = [mail EXCEPT ![d][n] = NoRow] /\ pc' = [pc EXCEPT ![d] = "settle"]
  BY <1>2 DEF Takes
<1> HIDE DEF out
<1>5. \A m \in Messages : Told(m)' <=> Told(m)
  BY <1>1 DEF Told
<1>6. n \in Messages /\ Told(n)
  BY <1>2 DEF StoryInv, Hands, Held
<1>7. ASSUME NEW e \in Dispatchers, NEW m \in Messages
      PROVE  /\ mail'[e][m].state # "none" => Told(m)'
             /\ sent'[e].message = m => Told(m)' /\ sent'[e].row.state # "none"
  <2>1. mail'[e][m] \in {NoRow, mail[e][m]}
    BY <1>1, <1>4
  <2>2. sent'[e] = IF e = d THEN out ELSE sent[e]
    BY <1>1, <1>4
  <2>3. /\ mail[e][m].state # "none" => Told(m)
        /\ sent[e].message = m => Told(m) /\ sent[e].row.state # "none"
    BY DEF StoryInv, Hands
  <2> QED BY <1>3, <1>5, <1>6, <2>1, <2>2, <2>3, NoRowType
<1>8. Hands'
  BY <1>7 DEF Hands
<1>9. "settle" \notin Speaking
  BY DEF Speaking
<1>10. /\ DOMAIN snap = Dispatchers /\ DOMAIN todo = Dispatchers
       /\ \A e \in Dispatchers : DOMAIN snap[e] \subseteq Channels /\ todo[e] \subseteq Ended
  BY DEF StoryInv, Shape
<1> QED BY <1>1, <1>4, <1>5, <1>8, <1>9, <1>10, SilentStep

LEMMA SettleStory ==
  ASSUME StoryInv, Inv, NEW d \in Dispatchers, Settle(d)
  PROVE  StoryInv'
<1>1. /\ UNCHANGED <<drills, conf, mail, news, unsaid, snap, todo>> /\ pc[d] \notin Speaking
      /\ DOMAIN pc = Dispatchers /\ pc[d] = "settle" /\ sent' = [sent EXCEPT ![d] = NoOutcome]
      /\ DOMAIN sent = Dispatchers /\ rows \in [Messages -> Slots]
      /\ pc' = [pc EXCEPT ![d] = "attempt"]
  BY DEF Settle, Speaking, Inv, Typed
<1>2. rows' = rows \/ rows' = [rows EXCEPT ![sent[d].message] = sent[d].row]
  BY DEF Settle, SettleDelivery
<1>3. ASSUME NEW m \in Messages PROVE Told(m)' <=> Told(m)
  <2>1. sent[d].message = m => Told(m) /\ sent[d].row.state # "none"
    BY DEF StoryInv, Hands
  <2> QED BY <1>1, <1>2, <2>1 DEF Told
<1>4. \A e \in Dispatchers, m \in Messages : sent'[e].message = m => sent'[e] = sent[e]
  BY <1>1, NoOutcomeType
<1>5. Hands'
  BY <1>1, <1>3, <1>4 DEF StoryInv, Hands
<1>6. "attempt" \notin Speaking
  BY DEF Speaking
<1>7. /\ DOMAIN snap = Dispatchers /\ DOMAIN todo = Dispatchers
      /\ \A e \in Dispatchers : DOMAIN snap[e] \subseteq Channels /\ todo[e] \subseteq Ended
  BY DEF StoryInv, Shape
<1> QED BY <1>1, <1>3, <1>5, <1>6, <1>7, SilentStep

LEMMA ComesDueStory ==
  ASSUME StoryInv, Inv, NEW n \in Messages, ComesDue(n)
  PROVE  StoryInv'
<1>1. UNCHANGED <<drills, conf, pc, snap, todo, news, mail, sent, unsaid>> /\ UNCHANGED <<run, listed, claimed>>
  BY DEF ComesDue, local, ghosts, drills
<1>2. Onward /\ Ended' = Ended
  BY <1>1, Idle DEF Ended
<1>3. Shape'
  BY <1>1, <1>2 DEF StoryInv, Shape
<1>4. rows' = [rows EXCEPT ![n].due = TRUE] /\ rows \in [Messages -> Slots]
  BY DEF ComesDue, Inv, Typed
<1>5. \A m \in Messages : rows'[m].state = rows[m].state
  BY <1>4 DEF Slots
<1>6. \A m \in Messages : Told(m)' <=> Told(m)
  BY <1>5 DEF Told
<1>7. Informed' /\ Hands'
  BY <1>1, <1>6 DEF StoryInv, Informed, Hands
<1> QED BY <1>1, <1>2, <1>3, <1>6, <1>7, Standing DEF StoryInv

LEMMA SameStory ==
  ASSUME Shape, Shape', UNCHANGED <<run, listed>>
  PROVE  \A r \in Ended : /\ Spoiled(r)' <=> Spoiled(r)
                          /\ Spoiled(r) \/ Verdict(r)' = Verdict(r)
<1>1. Onward
  BY Idle
<1>2. \A r \in Ended : Spoiled(r)' <=> Spoiled(r)
  BY DEF Spoiled, Interrupted
<1> QED BY <1>1, <1>2, Enduring

\* What the steps that claim, judge and queue have in common.
LEMMA SpeakingShape ==
  ASSUME StoryInv, UNCHANGED <<run, listed, conf, snap>>, claimed' \subseteq Ended,
         NEW d \in Dispatchers, \A e \in Dispatchers : e # d => pc'[e] = pc[e],
         pc[d] \in {"consider"} \cup Speaking,
         DOMAIN todo' = Dispatchers, \A e \in Dispatchers : todo'[e] \subseteq Ended,
         news' \in [Dispatchers -> NewsTypes]
  PROVE  Shape' /\ Informed' /\ Ended' = Ended
<1>1. Ended' = Ended
  BY DEF Ended
<1>2. Shape'
  BY <1>1 DEF StoryInv, Shape
<1>3. Informed'
  BY DEF StoryInv, Informed
<1> QED BY <1>1, <1>2, <1>3

\* One dispatcher's step does not touch what the others are saying, nor what
\* was said of other drills.
LEMMA OthersStand ==
  ASSUME StoryInv, Shape', UNCHANGED <<run, listed>>, unsaid \subseteq unsaid', NEW d \in Dispatchers,
         \A e \in Dispatchers : e # d => pc'[e] = pc[e] /\ news'[e] = news[e],
         \A q \in Runs, c \in Channels : Told(<<q, c>>) => Told(<<q, c>>)',
         \A q \in Runs, c \in Channels : q # news[d].run /\ Told(<<q, c>>)' => Told(<<q, c>>)
  PROVE  /\ \A e \in Dispatchers \ {d} : pc'[e] = "queue" => Promise(e)'
         /\ \A q \in claimed : /\ q \notin unsaid' /\ q # news[d].run
                               /\ \A e \in Dispatchers : news'[e].run # q
                               => Right(q)'
<1>1. \A q \in claimed : (Spoiled(q)' <=> Spoiled(q)) /\ (Spoiled(q) \/ Verdict(q)' = Verdict(q))
  BY SameStory DEF StoryInv, Shape
<1>2. Steady \subseteq Channels /\ claimed \subseteq Runs
  BY NotifyAssumption DEF StoryInv, Shape, Ended
<1>3. ASSUME NEW e \in Dispatchers \ {d}, pc'[e] = "queue" PROVE Promise(e)'
  <2>1. Promise(e) /\ news'[e] = news[e] /\ pc[e] = "queue"
    BY <1>3 DEF StoryInv, Queueing
  <2>2. news[e].run \in claimed /\ news[e].run \in Runs
    BY <1>2, <2>1 DEF StoryInv, Bearing, Speaking
  <2>3. Spoiled(news[e].run)' \/ Verdict(news[e].run)' # Silence
    BY <1>1, <2>1, <2>2 DEF Promise
  <2> QED BY <1>2, <2>1, <2>2, <2>3 DEF Promise
<1>4. ASSUME NEW q \in claimed, q \notin unsaid', q # news[d].run, \A e \in Dispatchers : news'[e].run # q
      PROVE  Right(q)'
  <2>1. Right(q)
    BY <1>4 DEF StoryInv, Judged
  <2> QED BY <1>1, <1>2, <1>4, <2>1 DEF Right
<1> QED BY <1>3, <1>4

LEMMA ClaimStory ==
  ASSUME StoryInv, Inv, NEW d \in Dispatchers, Claim(d)
  PROVE  StoryInv'
<1>1. /\ UNCHANGED <<run, listed, conf, rows, snap, mail, sent>> /\ DOMAIN pc = Dispatchers /\ pc[d] = "consider"
  BY DEF Claim, Inv, Typed
<1>2. PICK r \in todo[d] :
        /\ todo' = [todo EXCEPT ![d] = @ \ {r}]
        /\ \/ /\ r \notin claimed /\ claimed' = claimed \cup {r} /\ r \in old /\ unsaid' = unsaid \cup {r}
              /\ pc' = [pc EXCEPT ![d] = "consider"] /\ news' = [news EXCEPT ![d] = NoNews]
           \/ /\ r \notin claimed /\ claimed' = claimed \cup {r} /\ unsaid' = unsaid
              /\ pc' = [pc EXCEPT ![d] = "judge"] /\ news' = [news EXCEPT ![d] = Message(r, Silence, {})]
           \/ UNCHANGED <<claimed, unsaid, pc, news>>
  BY DEF Claim, ClaimRunForNotify, TooOld
<1>3. /\ r \in Ended /\ r \in Runs /\ claimed \subseteq Ended /\ claimed \subseteq Runs
      /\ DOMAIN todo = Dispatchers /\ \A e \in Dispatchers : todo[e] \subseteq Ended
      /\ news \in [Dispatchers -> NewsTypes]
  BY DEF StoryInv, Shape, Ended
<1>4. /\ Message(r, Silence, {}) \in NewsTypes /\ Message(r, Silence, {}).run = r
      /\ NoNews \in NewsTypes /\ NoNews.run = 0 /\ r # 0
  BY <1>3, NewsFields, NotifyAssumption DEF Runs
<1>5. news[d].run = 0
  BY <1>1 DEF StoryInv, Bearing, Speaking
<1>6. /\ \A e \in Dispatchers : e # d => pc'[e] = pc[e]
      /\ claimed' \subseteq Ended /\ news' \in [Dispatchers -> NewsTypes]
      /\ DOMAIN todo' = Dispatchers /\ \A e \in Dispatchers : todo'[e] \subseteq Ended
  BY <1>1, <1>2, <1>3, <1>4
<1>7. Shape' /\ Informed' /\ Ended' = Ended
  BY <1>1, <1>6, SpeakingShape
<1>8. /\ \A e \in Dispatchers : e # d => pc'[e] = pc[e] /\ news'[e] = news[e]
      /\ \/ /\ claimed' = claimed \cup {r} /\ unsaid' = unsaid \cup {r} /\ pc'[d] = "consider" /\ news'[d].run = 0
         \/ /\ claimed' = claimed \cup {r} /\ unsaid' = unsaid /\ pc'[d] = "judge" /\ news'[d].run = r
            /\ r \notin claimed
         \/ claimed' = claimed /\ unsaid' = unsaid /\ pc'[d] = "consider" /\ news'[d].run = 0
  BY <1>1, <1>2, <1>3, <1>4, <1>5
<1>9. Bearing'
  <2>1. \A e \in Dispatchers : e # d /\ news[e].run # 0 => news[e].run \in claimed /\ news'[e].run = news[e].run
    BY <1>8 DEF StoryInv, Bearing
  <2>2. \A e \in Dispatchers : pc'[e] \in Speaking <=> news'[e].run # 0
    BY <1>4, <1>8 DEF StoryInv, Bearing, Speaking
  <2>3. \A e \in Dispatchers : news'[e].run # 0 => news'[e].run \in claimed'
    BY <1>8, <2>1
  <2>4. ASSUME NEW e \in Dispatchers, NEW f \in Dispatchers, news'[e].run # 0, news'[e].run = news'[f].run
        PROVE  e = f
    <3>1. CASE e # d /\ f # d
      BY <1>8, <2>4, <3>1 DEF StoryInv, Bearing
    <3>2. CASE (e = d /\ f # d) \/ (e # d /\ f = d)
      BY <1>8, <2>1, <2>4, <3>2
    <3> QED BY <3>1, <3>2
  <2> QED BY <2>2, <2>3, <2>4 DEF Bearing
<1>10. \A m \in Messages : Told(m)' <=> Told(m)
  BY <1>1 DEF Told
<1>11. Hands'
  BY <1>1, <1>10 DEF StoryInv, Hands
<1>12. \A q \in Runs : Unjudged(q)' => Unjudged(q)
  BY <1>8 DEF Unjudged
<1>13. \A q \in Runs, c \in Channels : <<q, c>> \in Messages
  BY DEF Messages
<1>14. Untold'
  BY <1>10, <1>12, <1>13 DEF StoryInv, Untold
<1>15. \A e \in Dispatchers \ {d} : pc'[e] = "queue" => Promise(e)'
  BY <1>1, <1>7, <1>8, <1>10, <1>13, OthersStand
<1>16. Queueing'
  BY <1>8, <1>15 DEF Queueing
<1>17. Judged'
  <2> SUFFICES ASSUME NEW q \in claimed', q \notin unsaid', \A e \in Dispatchers : news'[e].run # q
               PROVE  Right(q)'
    BY DEF Judged
  <2>1. q \in claimed /\ q # 0
    BY <1>3, <1>8, NotifyAssumption DEF Runs
  <2> QED BY <1>1, <1>5, <1>7, <1>8, <1>10, <1>13, <2>1, OthersStand
<1> QED BY <1>7, <1>9, <1>11, <1>14, <1>16, <1>17 DEF StoryInv

LEMMA VerdictKind == \A r : Verdict(r) \in Kinds \cup {Silence}
<1>1. \A s, cur, prev, u : Decide(s, cur, prev, u) \in Kinds \cup {Silence}
  BY DEF Decide, Kinds
<1>2. \A r, b : ConsiderValues(r, b) \in Kinds \cup {Silence}
  BY DEF ConsiderValues, DecideCollapse, Kinds
<1> QED BY <1>1, <1>2 DEF Verdict

LEMMA JudgeStory ==
  ASSUME StoryInv, Inv, NEW d \in Dispatchers, Judge(d)
  PROVE  StoryInv'
<1>0. PICK r : r = news[d].run
  OBVIOUS
<1>1. /\ UNCHANGED <<run, listed, claimed, conf, rows, snap, todo, mail, sent>> /\ DOMAIN pc = Dispatchers
      /\ pc[d] = "judge"
  BY DEF Judge, Inv, Typed, drills
<1>2. /\ r \in claimed /\ news[d].run = r /\ r \in Ended /\ r \in Runs /\ r # 0 /\ claimed \subseteq Ended /\ DOMAIN snap[d] \subseteq Channels
      /\ DOMAIN todo = Dispatchers /\ \A e \in Dispatchers : todo[e] \subseteq Ended
      /\ news \in [Dispatchers -> NewsTypes]
  BY <1>0, <1>1, NotifyAssumption DEF StoryInv, Shape, Bearing, Ended, Speaking, Runs
<1> DEFINE said == Message(r, Verdict(r), DOMAIN snap[d])
<1>3. \/ Verdict(r) = Silence /\ pc' = [pc EXCEPT ![d] = "consider"] /\ news' = [news EXCEPT ![d] = NoNews] /\ unsaid' = unsaid
      \/ Verdict(r) # Silence /\ pc' = [pc EXCEPT ![d] = "queue"] /\ news' = [news EXCEPT ![d] = said] /\ unsaid' = unsaid
      \/ pc' = [pc EXCEPT ![d] = "consider"] /\ news' = [news EXCEPT ![d] = NoNews] /\ unsaid' = unsaid \cup {r}
  BY <1>0 DEF Judge
<1>4. said \in NewsTypes /\ said.run = r /\ said.channels = DOMAIN snap[d] /\ NoNews \in NewsTypes /\ NoNews.run = 0
  BY <1>2, NewsFields, VerdictKind
<1> HIDE DEF said
<1>5. /\ \A e \in Dispatchers : e # d => pc'[e] = pc[e] /\ news'[e] = news[e]
      /\ news' \in [Dispatchers -> NewsTypes]
      /\ \/ Verdict(r) = Silence /\ pc'[d] = "consider" /\ news'[d].run = 0 /\ unsaid' = unsaid
         \/ /\ Verdict(r) # Silence /\ pc'[d] = "queue" /\ unsaid' = unsaid
            /\ news'[d].run = r /\ news'[d].channels = DOMAIN snap[d]
         \/ pc'[d] = "consider" /\ news'[d].run = 0 /\ unsaid' = unsaid \cup {r}
  BY <1>1, <1>2, <1>3, <1>4
<1>6. Shape' /\ Informed' /\ Ended' = Ended
  BY <1>1, <1>2, <1>5, SpeakingShape DEF Speaking
<1>7. Bearing'
  <2>1. \A e \in Dispatchers : pc'[e] \in Speaking <=> news'[e].run # 0
    BY <1>2, <1>5 DEF StoryInv, Bearing, Speaking
  <2>2. \A e \in Dispatchers : news'[e].run # 0 => news'[e].run = news[e].run
    BY <1>2, <1>5
  <2> QED BY <1>1, <2>1, <2>2 DEF StoryInv, Bearing
<1>8. \A m \in Messages : Told(m)' <=> Told(m)
  BY <1>1 DEF Told
<1>9. Hands'
  BY <1>1, <1>8 DEF StoryInv, Hands
<1>10. \A q \in Runs : Unjudged(q)' => Unjudged(q)
  BY <1>1, <1>5 DEF Unjudged
<1>11. \A q \in Runs, c \in Channels : <<q, c>> \in Messages
  BY DEF Messages
<1>12. Untold'
  BY <1>8, <1>10, <1>11 DEF StoryInv, Untold
<1>13. (Spoiled(r)' <=> Spoiled(r)) /\ (Spoiled(r) \/ Verdict(r)' = Verdict(r))
  BY <1>1, <1>2, <1>6, SameStory DEF StoryInv
<1>14. Steady \subseteq Channels /\ Steady \subseteq DOMAIN snap[d]
  BY <1>1, NotifyAssumption DEF StoryInv, Informed, Speaking
<1>15. \A c \in Channels : ~Told(<<r, c>>)
  BY <1>0, <1>1, <1>2 DEF StoryInv, Untold, Unjudged
<1>16. /\ \A e \in Dispatchers \ {d} : pc'[e] = "queue" => Promise(e)'
       /\ \A q \in claimed : /\ q \notin unsaid' /\ q # news[d].run
                             /\ \A e \in Dispatchers : news'[e].run # q
                             => Right(q)'
  BY <1>1, <1>5, <1>6, <1>8, <1>11, OthersStand
<1>17. ASSUME pc'[d] = "queue" PROVE Promise(d)'
  <2>1. Verdict(r) # Silence /\ news'[d].run = r /\ news'[d].channels = DOMAIN snap[d]
    BY <1>5, <1>17
  <2>2. Spoiled(r)' \/ Verdict(r)' # Silence
    BY <1>13, <2>1
  <2>3. Spoiled(news[d].run)' \/ Verdict(news[d].run)' # Silence
    BY <2>1, <2>2
  <2> QED BY <1>14, <2>1, <2>3 DEF Promise
<1>18. Queueing'
  BY <1>16, <1>17 DEF Queueing
<1>19. ASSUME r \notin unsaid', news'[d].run # r PROVE Right(r)'
  <2>1. Verdict(r) = Silence
    BY <1>5, <1>19
  <2> QED BY <1>8, <1>11, <1>13, <1>14, <1>15, <1>2, <2>1 DEF Right
<1>20. Judged'
  BY <1>1, <1>2, <1>16, <1>19 DEF Judged
<1> QED BY <1>6, <1>7, <1>9, <1>12, <1>18, <1>20 DEF StoryInv

LEMMA DownStory ==
  ASSUME StoryInv, Inv, NEW d \in Dispatchers, Down(d)
  PROVE  StoryInv'
<1>1. /\ UNCHANGED <<run, listed, claimed, conf, rows>> /\ DOMAIN pc = Dispatchers
      /\ pc' = [pc EXCEPT ![d] = "down"] /\ news' = [news EXCEPT ![d] = NoNews]
      /\ snap' = [snap EXCEPT ![d] = <<>>] /\ todo' = [todo EXCEPT ![d] = {}]
      /\ mail' = [mail EXCEPT ![d] = NoMail] /\ sent' = [sent EXCEPT ![d] = NoOutcome]
      /\ unsaid' = IF pc[d] \in Speaking THEN unsaid \cup {news[d].run} ELSE unsaid
      /\ mail \in [Dispatchers -> [Messages -> Slots]] /\ DOMAIN sent = Dispatchers
  BY DEF Down, Inv, Typed, drills, Speaking
<1>2. /\ DOMAIN todo = Dispatchers /\ \A e \in Dispatchers : todo[e] \subseteq Ended
      /\ DOMAIN snap = Dispatchers /\ \A e \in Dispatchers : DOMAIN snap[e] \subseteq Channels
      /\ news \in [Dispatchers -> NewsTypes] /\ claimed \subseteq Runs /\ 0 \notin Runs
  BY NotifyAssumption DEF StoryInv, Shape, Ended, Runs
<1>3. Ended' = Ended
  BY <1>1 DEF Ended
<1>4. Shape'
  <2>1. news' \in [Dispatchers -> NewsTypes]
    BY <1>1, <1>2, NewsFields
  <2>2. DOMAIN todo' = Dispatchers /\ \A e \in Dispatchers : todo'[e] \subseteq Ended
    BY <1>1, <1>2
  <2>3. DOMAIN snap' = Dispatchers /\ \A e \in Dispatchers : DOMAIN snap'[e] \subseteq Channels
    BY <1>1, <1>2
  <2> QED BY <1>1, <1>3, <2>1, <2>2, <2>3 DEF StoryInv, Shape
<1>5. /\ \A e \in Dispatchers : e # d => /\ pc'[e] = pc[e] /\ news'[e] = news[e] /\ snap'[e] = snap[e]
                                        /\ mail'[e] = mail[e] /\ sent'[e] = sent[e]
      /\ pc'[d] = "down" /\ news'[d].run = 0 /\ mail'[d] = NoMail /\ sent'[d] = NoOutcome
  BY <1>1, <1>2, NewsFields
<1>6. Informed'
  BY <1>5 DEF StoryInv, Informed, Speaking
<1>7. Bearing'
  <2>1. \A e \in Dispatchers : news'[e].run # 0 => news'[e].run = news[e].run
    BY <1>5
  <2>2. \A e \in Dispatchers : pc'[e] \in Speaking <=> news'[e].run # 0
    BY <1>5 DEF StoryInv, Bearing, Speaking
  <2> QED BY <1>1, <2>1, <2>2 DEF StoryInv, Bearing
<1>8. \A m \in Messages : Told(m)' <=> Told(m)
  BY <1>1 DEF Told
<1>9. ASSUME NEW e \in Dispatchers, NEW m \in Messages
      PROVE  /\ mail'[e][m].state # "none" => Told(m)'
             /\ sent'[e].message = m => Told(m)' /\ sent'[e].row.state # "none"
  <2>1. CASE e = d
    BY <1>5, <2>1, NoRowType, NoOutcomeType DEF NoMail
  <2>2. CASE e # d
    BY <1>5, <1>8, <2>2 DEF StoryInv, Hands
  <2> QED BY <2>1, <2>2
<1>10. Hands'
  BY <1>9 DEF Hands
<1>11. \A q \in Runs : Unjudged(q)' => Unjudged(q)
  BY <1>1, <1>5 DEF Unjudged
<1>12. \A q \in Runs, c \in Channels : <<q, c>> \in Messages
  BY DEF Messages
<1>13. Untold'
  BY <1>8, <1>11, <1>12 DEF StoryInv, Untold
<1>14. /\ \A e \in Dispatchers \ {d} : pc'[e] = "queue" => Promise(e)'
       /\ \A q \in claimed : /\ q \notin unsaid' /\ q # news[d].run
                             /\ \A e \in Dispatchers : news'[e].run # q
                             => Right(q)'
  BY <1>1, <1>4, <1>5, <1>8, <1>12, OthersStand
<1>15. Queueing'
  BY <1>5, <1>14 DEF Queueing
<1>16. \A q \in claimed : q = news[d].run => q \in unsaid'
  BY <1>1, <1>2 DEF StoryInv, Bearing
<1>17. Judged'
  BY <1>1, <1>14, <1>16 DEF Judged
<1> QED BY <1>4, <1>6, <1>7, <1>10, <1>13, <1>15, <1>17 DEF StoryInv

LEMMA QueueStory ==
  ASSUME StoryInv, Inv, NEW d \in Dispatchers, Queue(d)
  PROVE  StoryInv'
<1>0. PICK r : r = news[d].run
  OBVIOUS
<1>1. /\ UNCHANGED <<run, listed, claimed, conf, snap, todo, mail, sent>> /\ DOMAIN pc = Dispatchers
      /\ pc[d] = "queue" /\ rows \in [Messages -> Slots]
  BY DEF Queue, Inv, Typed, drills
<1>2. /\ r \in claimed /\ r \in Ended /\ r \in Runs /\ r # 0 /\ claimed \subseteq Ended
      /\ DOMAIN todo = Dispatchers /\ \A e \in Dispatchers : todo[e] \subseteq Ended
      /\ news \in [Dispatchers -> NewsTypes] /\ news[d].run = r
  BY <1>0, <1>1, NotifyAssumption DEF StoryInv, Shape, Bearing, Ended, Speaking, Runs
<1>3. \A q \in Runs, c \in Channels : <<q, c>> \in Messages
  BY DEF Messages
<1>4. Steady \subseteq Channels
  BY NotifyAssumption
<1>5. \A e \in Dispatchers : e # d => news[e].run # r
  BY <1>2 DEF StoryInv, Bearing
<1>6. Promise(d)
  BY <1>1 DEF StoryInv, Queueing
<1>7. ASSUME NEW c \in news[d].channels, UNCHANGED pc,
             news' = [news EXCEPT ![d].channels = @ \ {c}],
             \/ CreateDelivery(<<r, c>>) /\ UNCHANGED unsaid
             \/ UNCHANGED rows /\ unsaid' = unsaid \cup {r}
      PROVE  StoryInv'
  <2>0. c \in Channels /\ <<r, c>> \in Messages
    BY <1>2, <1>3 DEF NewsTypes
  <2>1. [news[d] EXCEPT !.channels = @ \ {c}] \in NewsTypes
    BY <1>2 DEF NewsTypes
  <2>2. /\ news' = [news EXCEPT ![d] = [news[d] EXCEPT !.channels = @ \ {c}]]
        /\ [news[d] EXCEPT !.channels = @ \ {c}].run = r
        /\ [news[d] EXCEPT !.channels = @ \ {c}].channels = news[d].channels \ {c}
    BY <1>2, <1>7 DEF NewsTypes
  <2>3. /\ news' \in [Dispatchers -> NewsTypes] /\ \A e \in Dispatchers : e # d => news'[e] = news[e]
        /\ news'[d].run = r /\ news'[d].channels = news[d].channels \ {c}
    <3> DEFINE n == [news[d] EXCEPT !.channels = @ \ {c}]
    <3>1. n \in NewsTypes /\ n.run = r /\ n.channels = news[d].channels \ {c} /\ news' = [news EXCEPT ![d] = n]
      BY <2>1, <2>2
    <3> HIDE DEF n
    <3> QED BY <1>2, <3>1
  <2>4. Shape' /\ Informed' /\ Ended' = Ended
    BY <1>1, <1>2, <1>7, <2>3, SpeakingShape DEF Speaking
  <2>5. \A e \in Dispatchers : news'[e].run = news[e].run
    BY <1>2, <2>3
  <2>6. Bearing'
    BY <1>1, <1>7, <2>5 DEF StoryInv, Bearing
  <2> DEFINE row == [state |-> "pending", attempts |-> 0, due |-> TRUE]
  <2>7. rows' = rows \/ rows' = [rows EXCEPT ![<<r, c>>] = row]
    BY <1>7 DEF CreateDelivery
  <2>8. row.state # "none"
    OBVIOUS
  <2> HIDE DEF row
  <2>9. \A m \in Messages : (Told(m) => Told(m)') /\ (Told(m)' => Told(m) \/ m = <<r, c>>)
    BY <1>1, <2>7, <2>8 DEF Told
  <2>10. CreateDelivery(<<r, c>>) => Told(<<r, c>>)'
    BY <1>1, <2>0 DEF CreateDelivery, Told
  <2>11. Hands'
    BY <1>1, <2>9 DEF StoryInv, Hands
  <2>12. \A q \in Runs, k \in Channels : Told(<<q, k>>) => Told(<<q, k>>)'
    BY <1>3, <2>9
  <2>13. \A q \in Runs, k \in Channels : q # news[d].run /\ Told(<<q, k>>)' => Told(<<q, k>>)
    BY <1>2, <1>3, <2>9
  <2>14. \A q \in Runs : Unjudged(q)' => Unjudged(q) /\ q # r
    <3>1. \A e \in Dispatchers : pc[e] = "judge" => news[e].run # r
      BY <1>1, <1>5
    <3> QED BY <1>1, <1>2, <1>7, <2>5, <3>1 DEF Unjudged
  <2>15. Untold'
    BY <1>2, <2>14, <2>13 DEF StoryInv, Untold
  <2>16. /\ \A e \in Dispatchers \ {d} : pc'[e] = "queue" => Promise(e)'
         /\ \A q \in claimed : /\ q \notin unsaid' /\ q # news[d].run
                               /\ \A e \in Dispatchers : news'[e].run # q
                               => Right(q)'
    <3>1. /\ UNCHANGED <<run, listed>> /\ unsaid \subseteq unsaid'
          /\ \A e \in Dispatchers : e # d => pc'[e] = pc[e] /\ news'[e] = news[e]
      BY <1>1, <1>7, <2>3
    <3> QED BY <2>4, <2>12, <2>13, <3>1, OthersStand
  <2>17. (Spoiled(r)' <=> Spoiled(r)) /\ (Spoiled(r) \/ Verdict(r)' = Verdict(r))
    BY <1>1, <1>2, <2>4, SameStory DEF StoryInv
  <2>18. Promise(d)'
    <3>1. Spoiled(r)' \/ Verdict(r)' # Silence
      BY <1>2, <1>6, <2>17 DEF Promise
    <3>2. Spoiled(news[d].run)' \/ Verdict(news[d].run)' # Silence
      BY <2>3, <3>1
    <3>3. ASSUME NEW k \in Steady PROVE news'[d].run \in unsaid' \/ k \in news'[d].channels \/ Told(<<r, k>>)'
      <4>1. r \in unsaid \/ k \in news[d].channels \/ Told(<<r, k>>)
        BY <1>2, <1>6 DEF Promise
      <4>2. k = c => r \in unsaid' \/ Told(<<r, k>>)'
        BY <1>7, <2>10
      <4> QED BY <1>2, <1>4, <1>7, <2>3, <2>12, <4>1, <4>2
    <3>4. \A k \in Steady : news'[d].run \in unsaid' \/ k \in news'[d].channels \/ Told(<<news[d].run, k>>)'
      BY <2>3, <3>3
    <3> QED BY <3>2, <3>4 DEF Promise
  <2>19. Queueing'
    BY <2>16, <2>18 DEF Queueing
  <2>20. Judged'
    BY <1>1, <1>2, <2>3, <2>16 DEF Judged
  <2> QED BY <2>4, <2>6, <2>11, <2>15, <2>19, <2>20 DEF StoryInv
<1>8. ASSUME news[d].channels = {}, pc' = [pc EXCEPT ![d] = "consider"], news' = [news EXCEPT ![d] = NoNews],
             UNCHANGED <<rows, unsaid>>
      PROVE  StoryInv'
  <2>1. /\ \A e \in Dispatchers : e # d => pc'[e] = pc[e] /\ news'[e] = news[e]
        /\ pc'[d] = "consider" /\ news'[d].run = 0 /\ news' \in [Dispatchers -> NewsTypes]
    BY <1>1, <1>2, <1>8, NewsFields
  <2>2. Shape' /\ Informed' /\ Ended' = Ended
    BY <1>1, <1>2, <2>1, SpeakingShape DEF Speaking
  <2>3. \A e \in Dispatchers : news'[e].run # 0 => news'[e].run = news[e].run
    BY <2>1
  <2>4. \A e \in Dispatchers : pc'[e] \in Speaking <=> news'[e].run # 0
    BY <2>1 DEF StoryInv, Bearing, Speaking
  <2>5. Bearing'
    BY <1>1, <2>3, <2>4 DEF StoryInv, Bearing
  <2>6. \A m \in Messages : Told(m)' <=> Told(m)
    BY <1>8 DEF Told
  <2>7. Hands'
    BY <1>1, <2>6 DEF StoryInv, Hands
  <2>8. \A q \in Runs : Unjudged(q)' => Unjudged(q)
    BY <1>1, <2>1 DEF Unjudged
  <2>9. Untold'
    BY <1>3, <2>6, <2>8 DEF StoryInv, Untold
  <2>10. /\ \A e \in Dispatchers \ {d} : pc'[e] = "queue" => Promise(e)'
         /\ \A q \in claimed : /\ q \notin unsaid' /\ q # news[d].run
                               /\ \A e \in Dispatchers : news'[e].run # q
                               => Right(q)'
    BY <1>1, <1>3, <1>8, <2>1, <2>2, <2>6, OthersStand
  <2>11. Queueing'
    BY <2>1, <2>10 DEF Queueing
  <2>12. (Spoiled(r)' <=> Spoiled(r)) /\ (Spoiled(r) \/ Verdict(r)' = Verdict(r))
    BY <1>1, <1>2, <2>2, SameStory DEF StoryInv
  <2>13. r \notin unsaid' => Right(r)'
    BY <1>2, <1>3, <1>4, <1>6, <1>8, <2>6, <2>12 DEF Right, Promise
  <2>14. Judged'
    BY <1>1, <1>2, <2>10, <2>13 DEF Judged
  <2> QED BY <2>2, <2>5, <2>7, <2>9, <2>11, <2>14 DEF StoryInv
<1> QED BY <1>0, <1>7, <1>8 DEF Queue

LEMMA StoryStep == Inv /\ StoryInv /\ [Next]_vars => StoryInv'
<1> SUFFICES ASSUME Inv, StoryInv, [Next]_vars PROVE StoryInv'
  OBVIOUS
<1>1. CASE UNCHANGED vars
  <2>1. UNCHANGED <<drills, conf, rows, pc, snap, todo, news, mail, sent, unsaid>> /\ UNCHANGED <<run, listed, claimed>>
    BY <1>1 DEF vars, local, ghosts, drills
  <2>2. Onward /\ Ended' = Ended
    BY <2>1, Idle DEF Ended
  <2>3. Shape' /\ Informed' /\ Hands' /\ \A m \in Messages : Told(m)' <=> Told(m)
    BY <2>1, <2>2 DEF StoryInv, Shape, Informed, Hands, Told
  <2> QED BY <2>1, <2>2, <2>3, Standing DEF StoryInv
<1>2. CASE Next
  BY <1>2, OutsideStep, ComesDueStory, RoundStep, ReadDueStory, TakesStory, SettleStory, ClaimStory,
     JudgeStory, QueueStory, DownStory DEF Next, Tick
<1> QED BY <1>1, <1>2

-----------------------------------------------------------------------------
(* From the verdict on each drill to the last word on all of them.         *)

LEMMA OverFields ==
  ASSUME Shape, NEW q \in Ended
  PROVE  /\ run[q].state \in Terminal /\ run[q].story # NoStory
         /\ run[q].state = "SUCCESS" => run[q].story.result # NoVerdict
         /\ run[q].state \in {"CANCELLED", "INCONCLUSIVE"} => run[q].story.result = NoVerdict
         /\ Interrupted(q) => Broke(q)
<1>1. run[q] \in Records /\ run[q].state \in Terminal
  BY DEF Ended, Shape
<1>2. run[q] \in Outcomes
  BY <1>1, UnsettledFields DEF Records, Terminal
<1>3. run[q].story \in Stories
  BY <1>2, NotifyAssumption
<1>4. run[q].story # NoStory
  <2>1. NoStory.result = "nil"
    BY DEF NoStory
  <2>2. run[q].story.result \in Verdicts \cup {NoVerdict}
    BY <1>3 DEF Stories
  <2>3. run[q].story.result # "nil"
    BY <2>2 DEF Verdicts, NoVerdict
  <2> QED BY <2>1, <2>3
<1> QED BY <1>1, <1>2, <1>4, NotifyAssumption DEF Interrupted, Broke

Graded(q) == run[q].story.result # NoVerdict

LEMMA WhatIsNews ==
  ASSUME Shape, NEW q \in Nat, \A p \in 1 .. q : p \in Ended, q > 0
  PROVE  /\ Graded(q) /\ PreviousGraded(q) = 0 => Verdict(q) # Silence
         /\ /\ Graded(q) /\ PreviousGraded(q) # 0
            /\ run[PreviousGraded(q)].story.result # run[q].story.result
            => Verdict(q) # Silence
         /\ Graded(q) /\ q > 1 /\ run[q - 1].state = "INCONCLUSIVE" => Verdict(q) # Silence
         /\ ~Graded(q) /\ Verdict(q) # Silence => run[q].state # "CANCELLED"
<1>1. q \in Ended
  OBVIOUS
<1>2. PreviousGraded(q) # 0 => PreviousGraded(q) \in Ended
  BY PreviousIsGraded
<1>3. PreviousGraded(q) # 0 => run[PreviousGraded(q)].story # NoStory
  BY <1>2, OverFields
<1> DEFINE kind == Decide(run[q].state, run[q].story,
                     IF PreviousGraded(q) = 0 THEN NoStory ELSE run[PreviousGraded(q)].story,
                     PrecededByUnevaluable(q))
<1>4. Verdict(q) = IF kind = Silence THEN ConsiderValues(q, PreviousGraded(q)) ELSE kind
  BY DEF Verdict
<1>5. Graded(q) => run[q].state \in Terminal /\ run[q].state # "CANCELLED" /\ run[q].state # "INCONCLUSIVE"
  BY <1>1, OverFields DEF Graded
<1>6. Graded(q) /\ PreviousGraded(q) = 0 => kind # Silence
  BY <1>5 DEF Decide, Silence
<1>7. Graded(q) /\ PreviousGraded(q) # 0 /\ run[PreviousGraded(q)].story.result # run[q].story.result => kind # Silence
  BY <1>3, <1>5 DEF Decide, Silence
<1>8. Graded(q) /\ q > 1 /\ run[q - 1].state = "INCONCLUSIVE" => kind # Silence
  <2>1. q > 1 /\ run[q - 1].state = "INCONCLUSIVE" => PrecededByUnevaluable(q)
    BY DEF PrecededByUnevaluable
  <2> QED BY <1>5, <2>1 DEF Decide, Silence
<1>9. ~Graded(q) /\ run[q].state = "CANCELLED" => Verdict(q) = Silence
  <2>1. run[q].state = "CANCELLED" => kind = Silence
    BY DEF Decide
  <2>2. ~Graded(q) => ConsiderValues(q, PreviousGraded(q)) = Silence
    BY DEF Graded, ConsiderValues
  <2> QED BY <1>4, <2>1, <2>2
<1> HIDE DEF kind
<1> QED BY <1>4, <1>6, <1>7, <1>8, <1>9

\* A channel accepts messages that were queued, and a queued message is never
\* forgotten.
AcceptedIsTold == \A m \in Messages : accepted[m] > 0 => Told(m)

LEMMA AcceptedInit == Init => AcceptedIsTold
  BY DEF Init, AcceptedIsTold

LEMMA ToldStays ==
  ASSUME Inv, StoryInv, [Next]_vars, NEW m \in Messages, Told(m)
  PROVE  Told(m)'
<1>0. rows \in [Messages -> Slots]
  BY DEF Inv, Typed
<1>1. CASE UNCHANGED rows
  BY <1>1 DEF Told
<1>2. ASSUME NEW n \in Messages, ComesDue(n) PROVE Told(m)'
  BY <1>0, <1>2 DEF ComesDue, Slots, Told
<1>3. ASSUME NEW n, CreateDelivery(n) PROVE Told(m)'
  BY <1>0, <1>3 DEF CreateDelivery, Told
<1>4. ASSUME NEW d \in Dispatchers, Settle(d) PROVE Told(m)'
  <2>1. sent[d].message = m => sent[d].row.state # "none"
    BY DEF StoryInv, Hands
  <2> QED BY <1>0, <1>4, <2>1 DEF Settle, SettleDelivery, Told
<1> QED BY <1>1, <1>2, <1>3, <1>4
        DEF Next, Tick, Start, End, Age, Reconfigure, Resolve, ReadRuns, Considered, Claim, Judge,
            Queue, ReadDue, Delivered, Fail, Post, Down, Up, vars

LEMMA AcceptedStep == Inv /\ StoryInv /\ AcceptedIsTold /\ [Next]_vars => AcceptedIsTold'
<1> SUFFICES ASSUME Inv, StoryInv, AcceptedIsTold, [Next]_vars, NEW m \in Messages,
                    accepted'[m] > 0
             PROVE  Told(m)'
  BY DEF AcceptedIsTold
<1>1. CASE accepted'[m] = accepted[m]
  BY <1>1, ToldStays DEF AcceptedIsTold
<1>2. ASSUME NEW d \in Dispatchers, Post(d), accepted'[m] # accepted[m] PROVE Told(m)
  <2>1. PICK n \in Held(mail[d]) : \A k \in Messages : k # n => accepted'[k] = accepted[k]
    BY <1>2 DEF Post, Inv, Typed
  <2>2. m \in Held(mail[d])
    BY <1>2, <2>1
  <2> QED BY <2>2 DEF Held, StoryInv, Hands
<1>3. UNCHANGED accepted \/ \E d \in Dispatchers : Post(d)
  BY DEF Next, Tick, Start, End, Age, Reconfigure, ComesDue, Resolve, ReadRuns, Considered, Claim,
         Judge, Queue, ReadDue, Delivered, Fail, Settle, Down, Up, vars, ghosts
<1> QED BY <1>1, <1>2, <1>3, ToldStays

\* The last word, when each of the drills up to r was told of exactly when it
\* is news.
LEMMA LastWordHolds ==
  ASSUME Shape, NEW c \in Channels, NEW r \in Runs, \A q \in 1 .. r : q \in Ended /\ ~Broke(q),
         Graded(r), \A q \in 1 .. r : Told(<<q, c>>) <=> Verdict(q) # Silence,
         Heard(c, r) \subseteq Queued(c, r), UpToDate(c, r)
  PROVE  LastWord(c, r) # 0 /\ StillTrue(LastWord(c, r), r)
<1>0. r \in Nat /\ r > 0
  BY NotifyAssumption DEF Runs
<1> DEFINE T == {q \in 1 .. r : rows[<<q, c>>].state # "none"}
           H == {q \in 1 .. r : accepted[<<q, c>>] > 0}
           G == {q \in 1 .. r : Graded(q)}
<1>1. T # {}
  <2>1. G \subseteq Nat /\ r \in G
    BY <1>0
  <2>2. PICK g \in G : \A q \in G : g <= q
    BY <2>1, LeastNat
  <2>3. g \in 1 .. r /\ g \in Nat /\ g > 0 /\ Graded(g)
    BY <1>0
  <2>4. PreviousGraded(g) = 0
    <3>1. ASSUME PreviousGraded(g) # 0 PROVE FALSE
      <4>1. PreviousGraded(g) \in 1 .. g - 1 /\ Graded(PreviousGraded(g))
        BY <2>3, <3>1, PreviousIsGraded DEF Graded
      <4> QED BY <1>0, <2>2, <2>3, <4>1
    <3> QED BY <3>1
  <2>5. Verdict(g) # Silence
    BY <1>0, <2>3, <2>4, WhatIsNews
  <2> QED BY <2>3, <2>5 DEF Told
<1>2. H # {} /\ H \subseteq T /\ \A q \in T : \E p \in H : q <= p
  BY <1>1 DEF Heard, Queued, UpToDate
<1>3. LastWord(c, r) = CHOOSE q \in H : \A p \in H : p <= q
  BY <1>2 DEF LastWord, Heard
<1>4. PICK last : last = LastWord(c, r)
  OBVIOUS
<1>5. last \in T /\ \A p \in T : p <= last
  <2>1. H \subseteq 0 .. r /\ T \subseteq Nat /\ H \subseteq Nat
    BY <1>0
  <2> HIDE DEF H, T
  <2>2. \E n \in H : \A p \in H : p <= n
    BY <1>0, <1>2, <2>1, GreatestNat
  <2>3. last \in H /\ \A p \in H : p <= last
    BY <1>3, <1>4, <2>2
  <2> QED BY <1>2, <2>1, <2>3
<1>6. /\ last \in 1 .. r /\ last \in Nat /\ last > 0 /\ Verdict(last) # Silence
      /\ \A q \in last + 1 .. r : Verdict(q) = Silence
  <2>1. last \in 1 .. r /\ Told(<<last, c>>)
    BY <1>5 DEF Told
  <2>2. last \in Nat /\ last > 0 /\ Verdict(last) # Silence
    BY <1>0, <2>1
  <2>3. ASSUME NEW q \in last + 1 .. r PROVE Verdict(q) = Silence
    <3>1. q \in 1 .. r /\ ~(q <= last)
      BY <1>0, <2>2
    <3>2. ~Told(<<q, c>>)
      BY <1>5, <3>1 DEF Told
    <3> QED BY <3>1, <3>2
  <2> QED BY <2>1, <2>2, <2>3
<1>7. CASE Graded(last)
  <2> DEFINE B == {q \in last + 1 .. r : Graded(q) /\ run[q].story.result # run[last].story.result}
  <2>1. ASSUME B # {} PROVE FALSE
    <3>1. B \subseteq Nat
      BY <1>6
    <3>2. PICK q \in B : \A p \in B : q <= p
      BY <2>1, <3>1, LeastNat
    <3>3. q \in last + 1 .. r /\ q \in Nat /\ q > 0 /\ Graded(q) /\ run[q].story.result # run[last].story.result
      BY <1>6
    <3>4. /\ PreviousGraded(q) \in 1 .. q - 1 /\ Graded(PreviousGraded(q)) /\ last <= PreviousGraded(q)
      <4>1. last \in 1 .. q - 1 /\ run[last].story.result # NoVerdict
        BY <1>6, <1>7, <3>3 DEF Graded
      <4> QED BY <3>3, <4>1, PreviousIsGraded DEF Graded
    <3>5. run[PreviousGraded(q)].story.result = run[last].story.result
      <4>1. CASE PreviousGraded(q) = last
        BY <4>1
      <4>2. CASE PreviousGraded(q) # last
        <5>1. PreviousGraded(q) \in last + 1 .. r
          <6>1. \A x \in 1 .. q - 1 : last <= x /\ x # last => x \in last + 1 .. r
            BY <1>0, <1>6, <3>3
          <6> QED BY <3>4, <4>2, <6>1
        <5>2. PreviousGraded(q) \notin B
          BY <3>2, <3>3, <3>4
        <5> QED BY <3>4, <5>1, <5>2
      <4> QED BY <4>1, <4>2
    <3>6. PreviousGraded(q) # 0
      BY <3>3, <3>4
    <3>7. \A p \in 1 .. q : p \in Ended
      BY <1>0, <1>6, <3>3
    <3>8. Verdict(q) # Silence
      BY <3>3, <3>5, <3>6, <3>7, WhatIsNews
    <3> QED BY <1>6, <3>3, <3>8
  <2>2. run[last].story.result = run[r].story.result
    <3>1. CASE r = last
      BY <3>1
    <3>2. CASE r # last
      <4>1. r \in last + 1 .. r
        BY <1>0, <1>6, <3>2
      <4> QED BY <2>1, <4>1
    <3> QED BY <3>1, <3>2
  <2> QED BY <1>4, <1>6, <2>2 DEF StillTrue
<1>8. CASE ~Graded(last)
  <2>1. run[last].state = "INCONCLUSIVE"
    <3>1. last \in Ended /\ ~Broke(last) /\ \A p \in 1 .. last : p \in Ended
      BY <1>0, <1>6
    <3>2. run[last].state # "CANCELLED"
      BY <1>6, <1>8, <3>1, WhatIsNews
    <3> QED BY <1>8, <3>1, <3>2, OverFields DEF Broke, Graded, Terminal
  <2> DEFINE L == {q \in last + 1 .. r : Graded(q)}
  <2>2. r \in L /\ L \subseteq Nat
    BY <1>0, <1>6, <1>8
  <2>3. PICK q \in L : \A p \in L : q <= p
    BY <2>2, LeastNat
  <2>4. q \in last + 1 .. r /\ q \in Nat /\ q > 1 /\ Graded(q) /\ \A p \in last + 1 .. q - 1 : ~Graded(p)
    <3>1. q \in last + 1 .. r /\ q \in Nat /\ q > 1 /\ Graded(q)
      BY <1>6
    <3>2. \A p \in last + 1 .. q - 1 : p \in last + 1 .. r /\ ~(q <= p)
      BY <1>0, <1>6, <3>1
    <3> QED BY <2>3, <3>1, <3>2
  <2>5. \E p \in last + 1 .. q - 1 : run[p].state = "CANCELLED"
    <3>1. SUFFICES ASSUME \A p \in last + 1 .. q - 1 : run[p].state # "CANCELLED" PROVE FALSE
      OBVIOUS
    <3>2. run[q - 1].state = "INCONCLUSIVE"
      <4>1. CASE q - 1 = last
        BY <2>1, <4>1
      <4>2. CASE q - 1 # last
        <5>1. q - 1 \in last + 1 .. q - 1 /\ q - 1 \in 1 .. r
          BY <1>0, <1>6, <2>4, <4>2
        <5>2. q - 1 \in Ended /\ ~Broke(q - 1) /\ ~Graded(q - 1) /\ run[q - 1].state # "CANCELLED"
          BY <2>4, <3>1, <5>1
        <5> QED BY <5>2, OverFields DEF Broke, Graded, Terminal
      <4> QED BY <4>1, <4>2
    <3>3. \A p \in 1 .. q : p \in Ended
      BY <1>0, <1>6, <2>4
    <3>4. Verdict(q) # Silence
      BY <2>4, <3>2, <3>3, WhatIsNews
    <3> QED BY <1>6, <2>4, <3>4
  <2>6. \E p \in last + 1 .. r - 1 : run[p].state = "CANCELLED"
    BY <1>0, <1>6, <2>4, <2>5
  <2> QED BY <1>4, <1>6, <2>1, <2>6 DEF StillTrue
<1> QED BY <1>7, <1>8

(***************************************************************************)
(* Speaking only on changes loses nothing (dispatcher.go consider, story.go *)
(* Decide): whatever fails and however many dispatchers there are, once the *)
(* drills up to one with a verdict were considered, in the order in which  *)
(* they started and none in vain, the newest drill that a channel which    *)
(* stays configured accepted a message about says that verdict - unless    *)
(* something newer is on its way to it, or was given up.                   *)
(***************************************************************************)
THEOREM LastWordTrue == Spec => []LastWordIsTrue
<1>1. ASSUME StoryInv, AcceptedIsTold PROVE LastWordIsTrue
  <2> SUFFICES ASSUME InOrder, unsaid = {}, NEW c \in Steady, NEW r \in Runs, 1 .. r \subseteq claimed, Quiet(r),
                      run[r].story.result # NoVerdict, \A q \in 1 .. r : ~Broke(q), UpToDate(c, r)
               PROVE  LastWord(c, r) # 0 /\ StillTrue(LastWord(c, r), r)
    BY DEF LastWordIsTrue
  <2>1. Shape /\ c \in Channels /\ \A q \in 1 .. r : q \in Ended
    BY <1>1, NotifyAssumption DEF StoryInv, Shape
  <2>2. r \in Nat /\ \A q \in 1 .. r : \A p \in 1 .. q - 1 : p \in 1 .. r /\ p < q
    BY NotifyAssumption DEF Runs
  <2>3. ASSUME NEW q \in 1 .. r PROVE Told(<<q, c>>) <=> Verdict(q) # Silence
    <3>1. ASSUME NEW p \in 1 .. q - 1, run[p].state \notin Terminal \/ Interrupted(p) \/ q \in listed[p] PROVE FALSE
      <4>1. p \in Ended /\ ~Interrupted(p) /\ p < q /\ p \in 1 .. r
        BY <2>1, <2>2, OverFields
      <4>2. q \in listed[p]
        BY <3>1, <4>1 DEF Ended
      <4>3. q < p
        BY <4>1, <4>2 DEF InOrder
      <4> QED BY <2>2, <4>1, <4>3
    <3>2. ~Spoiled(q)
      BY <3>1 DEF Spoiled
    <3>3. q \in claimed \ unsaid /\ \A d \in Dispatchers : news[d].run # q
      BY DEF Quiet
    <3>4. Right(q)
      BY <1>1, <3>3 DEF StoryInv, Judged
    <3> QED BY <3>2, <3>4 DEF Right
  <2>4. Heard(c, r) \subseteq Queued(c, r)
    <3>1. \A q \in 1 .. r : <<q, c>> \in Messages
      BY <2>1, NotifyAssumption DEF Runs, Messages
    <3> QED BY <1>1, <3>1 DEF AcceptedIsTold, Told, Heard, Queued
  <2> QED BY <2>1, <2>3, <2>4, LastWordHolds DEF Graded
<1> QED BY InvInit, InvStep, StoryInit, StoryStep, AcceptedInit, AcceptedStep, <1>1, PTL DEF Spec

=============================================================================
