------------------------------ MODULE Journal ------------------------------
(***************************************************************************)
(* One drill's history: the recorder that mirrors the engine's events and  *)
(* writes the timeline and the outcome, the store's rows, the readers that *)
(* load a document in three queries, and the event stream a browser        *)
(* follows across cuts, restarts of the server and the end of the drill.   *)
(***************************************************************************)
EXTENDS Integers, Sequences, FiniteSets

CONSTANTS
  Scripts,    \* what an engine may emit: sequences of "step" and "check"
  NumSteps,   \* steps of the finished run
  JournalFaults,  \* what may go wrong: "store", "kill", "cut", "drain"
  MaxFaults   \* bound on how often

ASSUME JournalAssumption ==
  /\ \A s \in Scripts : s \in Seq({"step", "check"})
  /\ NumSteps \in Nat /\ MaxFaults \in Nat
  /\ JournalFaults \subseteq {"store", "kill", "cut", "drain"}

VARIABLES
  script,    \* what this drill's engine emits
  leased,    \* a worker's drill, not one run from a terminal
  row,       \* the run's row, by state
  events, stepRows, checkRows, valueRows,  \* run_events and the tables beside it, by seq
  rec,       \* where the recorder is: pc, r.eventSeq, r.checkSeq and the loop's index
  lost,      \* ghost: the tables a write failed for
  faults,    \* faults so far
  stream,    \* streamEvents: where the handler is, its `after` and its `state`
  view,      \* the page: the frames it folded, whether it thinks the drill is over
  doc,       \* the document the page last asked for, as its reads come in
  stopping   \* Drain was called

journalVars == <<script, leased, row, events, stepRows, checkRows, valueRows, rec, lost, faults,
                 stream, view, doc, stopping>>
tables == <<events, stepRows, checkRows, valueRows>>
readers == <<stream, view, doc, stopping>>
setting == <<script, leased>>

\* "ENDED" is the state the engine graded, "FAILED" the one reconciliation
\* writes.
Terminal(state) == state \in {"ENDED", "FAILED"}

NumChecks == Cardinality({i \in DOMAIN script : script[i] = "check"})
NoDoc == [at |-> "none", state |-> "none", steps |-> {}, checks |-> {}]
NoStream == [pc |-> "closed", after |-> 0, state |-> "none"]
Unseen == [frames |-> <<>>, finished |-> FALSE]

JournalTypeOK ==
  /\ script \in Scripts /\ leased \in BOOLEAN
  /\ row \in {"none", "QUEUED", "RUNNING", "ENDED", "FAILED"}
  /\ events \subseteq DOMAIN script /\ stepRows \subseteq 0 .. NumSteps - 1
  /\ checkRows \subseteq 0 .. NumChecks - 1 /\ valueRows \subseteq checkRows
  /\ rec.pc \in {"emit", "create", "append", "check", "mirror", "finish", "steps", "checks",
                 "values", "outcome", "over", "dead"}
  /\ rec.seq \in 0 .. Len(script) /\ rec.i \in Nat /\ rec.checkSeq \in 0 .. NumChecks
  /\ lost \subseteq {"row", "event", "step", "check", "value"}
  /\ faults \in 0 .. MaxFaults
  /\ stream.pc \in {"closed", "poll", "read", "wait"} /\ stream.after \in 0 .. Len(script)
  /\ view.frames \in Seq(DOMAIN script) /\ view.finished \in BOOLEAN
  /\ doc.at \in {"none", "run", "steps", "whole"} /\ stopping \in BOOLEAN

JournalInit ==
  /\ script \in Scripts /\ leased \in BOOLEAN
  /\ row = IF leased THEN "QUEUED" ELSE "none"
  /\ events = {} /\ stepRows = {} /\ checkRows = {} /\ valueRows = {}
  /\ rec = [pc |-> "emit", seq |-> 0, checkSeq |-> 0, i |-> 0]
  /\ lost = {} /\ faults = 0
  /\ stream = NoStream /\ view = Unseen /\ doc = NoDoc /\ stopping = FALSE

Fault(kind) == kind \in JournalFaults /\ faults < MaxFaults /\ faults' = faults + 1

-----------------------------------------------------------------------------
(* Recorder. A write that fails is a warning, and the drill goes on. Every *)
(* table refers to the run's row: without it nothing else can be written.  *)

At(pc) == rec' = [rec EXCEPT !.pc = pc]

Writes(table, effect, none) ==
  \/ row # "none" /\ effect /\ UNCHANGED <<lost, faults>>
  \/ row = "none" /\ none /\ lost' = lost \cup {table} /\ UNCHANGED faults
  \/ Fault("store") /\ none /\ lost' = lost \cup {table}

\* Emit: the first event of a drill from a terminal creates the row.
Emit ==
  /\ rec.pc = "emit"
  /\ At(IF rec.seq = Len(script) THEN "finish"
        ELSE IF ~leased /\ rec.seq = 0 THEN "create" ELSE "append")
  /\ UNCHANGED <<setting, row, tables, lost, faults, readers>>

CreateRun ==
  /\ rec.pc = "create"
  /\ \/ row' = "RUNNING" /\ UNCHANGED <<lost, faults>>
     \/ Fault("store") /\ UNCHANGED row /\ lost' = lost \cup {"row"}
  /\ At("append")
  /\ UNCHANGED <<setting, tables, readers>>

\* AppendEvent under the next seq; a seq that failed is not used again.
AppendEvent ==
  /\ rec.pc = "append"
  /\ LET n == rec.seq + 1
     IN  /\ Writes("event", events' = events \cup {n}, UNCHANGED events)
         /\ rec' = [rec EXCEPT !.seq = n,
                               !.pc = IF script[n] = "check" THEN "check" ELSE "mirror"]
  /\ UNCHANGED <<setting, row, stepRows, checkRows, valueRows, readers>>

\* SaveCheck as the check ends, at the seq Finish will use again.
SaveLiveCheck ==
  /\ rec.pc = "check"
  /\ Writes("check", checkRows' = checkRows \cup {rec.checkSeq}, UNCHANGED checkRows)
  /\ rec' = [rec EXCEPT !.checkSeq = @ + 1, !.pc = "mirror"]
  /\ UNCHANGED <<setting, row, events, stepRows, valueRows, readers>>

\* mirrorState: a worker also writes the state, over one that is not final.
MirrorState ==
  /\ rec.pc = "mirror"
  /\ \/ row' = (IF leased /\ ~Terminal(row) THEN "RUNNING" ELSE row) /\ UNCHANGED faults
     \/ leased /\ Fault("store") /\ UNCHANGED row
  /\ At("emit")
  /\ UNCHANGED <<setting, tables, lost, readers>>

\* Finish: a drill from a terminal that emitted nothing has no row yet.
Finish ==
  /\ rec.pc = "finish"
  /\ IF ~leased /\ rec.seq = 0
     THEN \/ row' = "ENDED" /\ rec' = [rec EXCEPT !.pc = "steps", !.i = 0] /\ UNCHANGED <<lost, faults>>
          \/ Fault("store") /\ lost' = lost \cup {"row"} /\ At("over") /\ UNCHANGED row
     ELSE rec' = [rec EXCEPT !.pc = "steps", !.i = 0] /\ UNCHANGED <<row, lost, faults>>
  /\ UNCHANGED <<setting, tables, readers>>

\* Steps of a run that emitted nothing: it has none either.
Steps == IF script = <<>> THEN 0 ELSE NumSteps

\* The steps one by one; the first that fails ends the loop.
SaveStep ==
  /\ rec.pc = "steps"
  /\ IF rec.i = Steps
     THEN rec' = [rec EXCEPT !.pc = "checks", !.i = 0] /\ UNCHANGED <<stepRows, lost, faults>>
     ELSE Writes("step",
            stepRows' = stepRows \cup {rec.i} /\ rec' = [rec EXCEPT !.i = @ + 1],
            UNCHANGED stepRows /\ rec' = [rec EXCEPT !.pc = "checks", !.i = 0])
  /\ UNCHANGED <<setting, row, events, checkRows, valueRows, readers>>

\* Then each check with the values it captured; a failed check ends the loop,
\* a failed value only the values.
SaveCheck ==
  /\ rec.pc = "checks"
  /\ IF rec.i = NumChecks
     THEN At("outcome") /\ UNCHANGED <<checkRows, lost, faults>>
     ELSE Writes("check",
            checkRows' = checkRows \cup {rec.i} /\ At("values"),
            UNCHANGED checkRows /\ At("outcome"))
  /\ UNCHANGED <<setting, row, events, stepRows, valueRows, readers>>

SaveCheckValue ==
  /\ rec.pc = "values"
  /\ IF "value" \in lost
     THEN UNCHANGED <<valueRows, lost, faults>>
     ELSE Writes("value", valueRows' = valueRows \cup {rec.i}, UNCHANGED valueRows)
  /\ rec' = [rec EXCEPT !.pc = "checks", !.i = @ + 1]
  /\ UNCHANGED <<setting, row, events, stepRows, checkRows, readers>>

\* UpdateRun comes last, whatever failed before it.
UpdateRun ==
  /\ rec.pc = "outcome"
  /\ Writes("row", row' = "ENDED", UNCHANGED row)
  /\ At("over")
  /\ UNCHANGED <<setting, tables, readers>>

\* The process that runs the drill dies.
Kill ==
  /\ rec.pc \notin {"over", "dead"}
  /\ Fault("kill")
  /\ At("dead")
  /\ UNCHANGED <<setting, row, tables, lost, readers>>

\* Reconciliation fails a leased run whose worker is gone.
Reconcile ==
  /\ leased /\ rec.pc = "dead" /\ ~Terminal(row)
  /\ row' = "FAILED"
  /\ UNCHANGED <<setting, tables, rec, lost, faults, readers>>

-----------------------------------------------------------------------------
(* streamEvents and the page that follows it.                              *)

\* reduce: a progress frame at or below the last one folded is dropped.
Last(frames) == IF frames = <<>> THEN 0 ELSE frames[Len(frames)]

Fold(frames, seqs) ==
  LET fresh == {n \in seqs : n > Last(frames)}
      Rank(n) == Cardinality({m \in fresh : m <= n})
  IN  frames \o [k \in 1 .. Cardinality(fresh) |-> CHOOSE n \in fresh : Rank(n) = k]

\* resolveRun: a run with no row is a 404, and a browser does not come back
\* from that.
Resolved == row # "none"

\* A slip OpenStream could make.
OpenStreamTail ==
  /\ stream.pc = "closed" /\ ~view.finished /\ ~stopping
  /\ Resolved
  /\ stream' = [pc |-> "poll", after |-> rec.seq, state |-> row]
  /\ UNCHANGED <<setting, row, tables, rec, lost, faults, view, doc, stopping>>

\* EventSource opens, or reopens after a cut, with the id of the last frame.
OpenStream ==
  /\ stream.pc = "closed" /\ ~view.finished /\ ~stopping
  /\ Resolved
  /\ stream' = [pc |-> "poll", after |-> Last(view.frames), state |-> row]
  /\ UNCHANGED <<setting, row, tables, rec, lost, faults, view, doc, stopping>>

Close == stream' = NoStream

\* One pass: the events after the last one sent. The connection may break
\* with any number of them on the way.
Newer == {n \in events : n > stream.after}

Poll ==
  /\ stream.pc = "poll"
  /\ \/ /\ view' = [view EXCEPT !.frames = Fold(@, Newer)]
        /\ stream' = [stream EXCEPT !.pc = "read",
                      !.after = CHOOSE n \in Newer \cup {stream.after} :
                                  \A m \in Newer : m <= n]
        /\ UNCHANGED faults
     \/ /\ Fault("cut")
        /\ \E n \in Newer \cup {0} :
             view' = [view EXCEPT !.frames = Fold(@, {m \in Newer : m <= n})]
        /\ Close
  /\ UNCHANGED <<setting, row, tables, rec, lost, doc, stopping>>

\* A slip ReadState could make.
ReadStateOnce ==
  /\ stream.pc = "read"
  /\ IF Terminal(stream.state)
     THEN view' = [view EXCEPT !.finished = TRUE] /\ Close
     ELSE stream' = [stream EXCEPT !.pc = "wait"] /\ UNCHANGED view
  /\ UNCHANGED <<setting, row, tables, rec, lost, faults, doc, stopping>>

\* Then the run is read again, and only a final state ends the stream.
ReadState ==
  /\ stream.pc = "read"
  /\ IF Terminal(row)
     THEN /\ \/ view' = [view EXCEPT !.finished = TRUE] /\ UNCHANGED faults
             \/ Fault("cut") /\ UNCHANGED view
          /\ Close
     ELSE /\ stream' = [stream EXCEPT !.pc = "wait", !.state = row] /\ UNCHANGED <<view, faults>>
  /\ UNCHANGED <<setting, row, tables, rec, lost, doc, stopping>>

\* The wait ends with the next pass, or with the server's own end, which is
\* not the drill's.
Wait ==
  /\ stream.pc = "wait"
  /\ \/ ~stopping /\ stream' = [stream EXCEPT !.pc = "poll"] /\ UNCHANGED view
     \/ /\ stopping /\ Close
        /\ view' = [view EXCEPT !.finished = Terminal(stream.state)]
  /\ UNCHANGED <<setting, row, tables, rec, lost, faults, doc, stopping>>

Drain ==
  /\ ~stopping /\ Fault("drain")
  /\ stopping' = TRUE
  /\ UNCHANGED <<setting, row, tables, rec, lost, stream, view, doc>>

\* Shutdown has waited for the streams; a new process serves.
Resume ==
  /\ stopping /\ stream.pc = "closed"
  /\ stopping' = FALSE
  /\ UNCHANGED <<setting, row, tables, rec, lost, faults, stream, view, doc>>

LoadSteps == stepRows
LoadChecks == checkRows

\* A slip GetRun could make.
GetRunLast ==
  /\ \/ /\ doc.at \in {"none", "whole"} /\ Resolved /\ ~Terminal(doc.state)
        /\ doc' = [NoDoc EXCEPT !.at = "run", !.steps = LoadSteps]
     \/ doc.at = "run" /\ doc' = [doc EXCEPT !.at = "steps", !.checks = LoadChecks]
     \/ doc.at = "steps" /\ doc' = [doc EXCEPT !.at = "whole", !.state = row]
  /\ UNCHANGED <<setting, row, tables, rec, lost, faults, stream, view, stopping>>

\* GetRun: the run, then its steps, then its checks.
GetRun ==
  /\ \/ /\ doc.at \in {"none", "whole"} /\ Resolved /\ ~Terminal(doc.state)
        /\ doc' = [NoDoc EXCEPT !.at = "run", !.state = row]
     \/ doc.at = "run" /\ doc' = [doc EXCEPT !.at = "steps", !.steps = LoadSteps]
     \/ doc.at = "steps" /\ doc' = [doc EXCEPT !.at = "whole", !.checks = LoadChecks]
  /\ UNCHANGED <<setting, row, tables, rec, lost, faults, stream, view, stopping>>

\* A drill, run by a worker or from a terminal: events, then Finish.
Record ==
  \/ Emit \/ CreateRun \/ AppendEvent \/ SaveLiveCheck \/ MirrorState
  \/ Finish \/ SaveStep \/ SaveCheck \/ SaveCheckValue \/ UpdateRun

Follow == Poll \/ ReadState \/ Wait

JournalNext ==
  \/ Record \/ Kill \/ Reconcile
  \/ OpenStream \/ Follow \/ Drain \/ Resume
  \/ GetRun

JournalSpec == JournalInit /\ [][JournalNext]_journalVars

-----------------------------------------------------------------------------
(***************************************************************************)
(* A document that shows the drill's own outcome shows every step and      *)
(* every check: Finish writes the outcome last and GetRun reads it first   *)
(* (journal.go, runs.go), unless one of those writes failed.               *)
(***************************************************************************)
ReportIsWhole ==
  doc.at = "whole" /\ doc.state = "ENDED" /\ lost = {} =>
    doc.steps = 0 .. Steps - 1 /\ doc.checks = 0 .. NumChecks - 1

(***************************************************************************)
(* A page holds, in order and once each, every stored event up to the last *)
(* one it folded, whatever was cut and resumed in between, and one that    *)
(* believes the drill is over is right: the end of a connection is never   *)
(* taken for the end of the drill (sse.go, runStream.ts: reduce).          *)
(***************************************************************************)
StreamIsFaithful ==
  /\ \A i, j \in DOMAIN view.frames : i < j => view.frames[i] < view.frames[j]
  /\ {view.frames[i] : i \in DOMAIN view.frames} = {n \in events : n <= Last(view.frames)}
  /\ view.finished => Terminal(row)

(***************************************************************************)
(* No stream of a worker's drill stays open for ever: its handler re-reads *)
(* the run, which ends or is reconciled, unless the outcome could not be   *)
(* written (sse.go, journal.go).                                           *)
(***************************************************************************)
StreamsEnd ==
  leased /\ stream.pc # "closed" ~> stream.pc = "closed" \/ "row" \in lost

(***************************************************************************)
(* The same for every drill, one from a terminal included, as the          *)
(* journal's comment has it: a process that dies "leaves a run that is not *)
(* terminal, which is the case reconciliation already handles".            *)
(***************************************************************************)
EveryStreamEnds ==
  stream.pc # "closed" ~> stream.pc = "closed" \/ "row" \in lost

(***************************************************************************)
(* A page told that the drill is over has every event of it: the stream    *)
(* and the JSON list are, in docs/api.md, "the same replay of the same     *)
(* `seq` column".                                                          *)
(***************************************************************************)
DoneIsComplete ==
  view.finished /\ row = "ENDED" => {view.frames[i] : i \in DOMAIN view.frames} = events

=============================================================================
