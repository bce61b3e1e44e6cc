----------------------------- MODULE CheckTypes -----------------------------
(***************************************************************************)
(* The check types: what one attempt of a check reports, given what came   *)
(* back from the guest or its network. The circumstances of an attempt are *)
(* a record: `up`, whether the guest agent answered before it, which only  *)
(* a plan that waits for the agent demands; `params`, whether the check's  *)
(* params can be read; `dial`, how the connection or the guest agent's     *)
(* call ended; `reply`, whether the answer is the one the plan asked for;  *)
(* `out`, what a command printed; `past`, whether the history of a capture *)
(* can be read.                                                            *)
(***************************************************************************)
EXTENDS PlanRules, FiniteSetsExt

Circumstances ==
  [up : BOOLEAN,
   params : {"ok", "bad"},
   dial : {"connected", "refused", "no_such_host", "other", "unreachable", "timeout", "deadline",
           "resolver_silent", "cancelled"},
   reply : {"good", "bad", "cut", "unjudged"},
   out : {"one", "none", "many", "nan"},
   past : {"absent", "unread", "read"}]

\* A slip DialFailure could make.
SilentOnlyInTime(dial) == dial \in {"unreachable", "timeout", "resolver_silent"}

\* dialFailure: nothing at the far end answered. A cancelled dial is not
\* silence, and neither is a failure it cannot classify.
Silent(dial) == dial \in {"deadline", "unreachable", "timeout", "resolver_silent"}

Outcome(status, value) == [status |-> status, value |-> value, judged |-> FALSE]

\* Network checks. The params are decoded first; a silent network is an
\* error, a bad answer a failure.
\* tcp: connected, and the banner when one is expected. No banner at all is
\* a failure too: something accepted the connection.
TCPRun(e) ==
  IF e.params = "bad" \/ Silent(e.dial) THEN "error"
  ELSE IF e.dial # "connected" \/ e.reply # "good" THEN "fail" ELSE "pass"

\* http and https: the status, then the body, which may be cut short; a
\* pattern that does not compile leaves the body unjudged.
HTTPRun(e) ==
  IF e.params = "bad" \/ Silent(e.dial) THEN "error"
  ELSE IF e.dial # "connected" \/ e.reply \in {"bad", "cut"} THEN "fail"
  ELSE IF e.reply = "unjudged" THEN "error" ELSE "pass"

\* dns: a resolver that answers with no record, or with another, has failed.
\* One that cannot be reached has too: the resolver's error hides the errno.
\* The name to look up is a param, and CheckSpec keeps `name` for itself: a
\* check that was parsed has none, and is an error.
DNSRun(c, e) ==
  IF \/ "name" \notin DOMAIN c.params \/ e.params = "bad" \/ e.reply = "unjudged"
     \/ Silent(e.dial) /\ e.dial # "unreachable"
  THEN "error"
  ELSE IF e.dial # "connected" \/ e.reply # "good" THEN "fail" ELSE "pass"

\* ping: no reply is never a failure.
PingRun(e) == IF e.params = "bad" \/ e.dial # "connected" THEN "error" ELSE "pass"

-----------------------------------------------------------------------------
(* Captured values.                                                        *)

\* ParseCaptured: exactly one finite number.
ParseCaptured(e, printed) == IF e.out = "one" THEN printed ELSE Nil

\* CheckAssert, bounds inclusive.
AssertHolds(value, a) ==
  /\ a.min # Nil => value >= a.min
  /\ a.max # Nil => value <= a.max
  /\ a.equals # Nil => value = a.equals

\* A slip Baseline could make: the previous value.
PreviousValue(values) == 2 * values[Max(DOMAIN values)]

\* What the sorted slice holds at its place k, counted from 1.
Ranked(values, k) ==
  CHOOSE v \in Range(values) :
    /\ Cardinality({i \in DOMAIN values : values[i] < v}) < k
    /\ k <= Cardinality({i \in DOMAIN values : values[i] <= v})

\* Baseline, doubled to stay an integer: the median, and for an even number
\* of values the mean of the two in the middle.
Baseline(values) ==
  LET n == Cardinality(DOMAIN values)
      mid == n \div 2
  IN  IF n % 2 = 1 THEN 2 * Ranked(values, mid + 1) ELSE Ranked(values, mid) + Ranked(values, mid + 1)

\* math.Abs.
Abs(x) == IF x < 0 THEN -x ELSE x

\* CheckDrift against a doubled baseline: a floor, never a ceiling, and no
\* percentage of zero permits a fall.
DriftHolds(value, baseline, d) ==
  LET drop == baseline - 2 * value
  IN  \/ drop <= 0
      \/ ~d.percent /\ drop <= 2 * d.maxDrop
      \/ d.percent /\ baseline # 0
           /\ drop * 100 <= d.maxDrop * Abs(baseline)

\* evaluateCapture and readBaseline: the assert first, then the drift, which
\* is skipped when there is no past to compare with. `window` is what the
\* history answers: the readings by the drill they come from.
EvaluateCapture(c, e, printed, window) ==
  LET value == ParseCaptured(e, printed)
      judged == e.past = "read" /\ DOMAIN window # {}
  IN  IF value = Nil THEN Outcome("fail", Nil)
      ELSE IF c.assert # Nil /\ ~AssertHolds(value, c.assert) THEN Outcome("fail", value)
      ELSE IF c.drift = Nil \/ ~judged THEN Outcome("pass", value)
      ELSE [status |-> IF DriftHolds(value, Baseline(window), c.drift) THEN "pass" ELSE "fail",
            value |-> value, judged |-> TRUE]

\* CommandCheck.Run: what the guest agent could not run is an error; the exit
\* code and the output the plan declares come before the capture.
CommandRun(c, e, printed, window) ==
  IF e.params = "bad" \/ e.dial # "connected" THEN Outcome("error", Nil)
  ELSE IF e.reply \in {"bad", "cut"} THEN Outcome("fail", Nil)
  ELSE IF e.reply = "unjudged" THEN Outcome("error", Nil)
  ELSE IF c.capture = "" THEN Outcome("pass", Nil)
  ELSE EvaluateCapture(c, e, printed, window)

\* The types the registry holds; http stands for https too.
CheckTypeNames == {"command", "tcp", "http", "dns", "ping"}

Attempt(c, e, printed, window) ==
  CASE c.type = "command" -> CommandRun(c, e, printed, window)
    [] c.type = "tcp" -> Outcome(TCPRun(e), Nil)
    [] c.type = "http" -> Outcome(HTTPRun(e), Nil)
    [] c.type = "dns" -> Outcome(DNSRun(c, e), Nil)
    [] c.type = "ping" -> Outcome(PingRun(e), Nil)

\* RunOne: the last attempt counts, a cancelled context ends the retries with
\* an error, and unreadCapture fails a check that passed without the value
\* its plan captures.
RunOne(c, e, printed, window) ==
  LET result == Attempt(c, e, printed, window)
  IN  IF c.retries > 0 /\ e.dial = "cancelled" THEN Outcome("error", Nil)
      ELSE IF result.status = "pass" /\ c.capture # "" /\ result.value = Nil
           THEN Outcome("fail", Nil) ELSE result

=============================================================================
