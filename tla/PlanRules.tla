------------------------------ MODULE PlanRules ------------------------------
(***************************************************************************)
(* Recovery plans: the document a user writes, the plan it is parsed into, *)
(* its defaults, the refusals, the text the plan is rendered back into,    *)
(* and the proof its checks would earn. A check of a document is a map     *)
(* from keys to values; a plan's check keeps the keys it knows as typed    *)
(* fields and the others as params. A field a document leaves out and one  *)
(* it states at its zero value are the same document, except where a nil   *)
(* pointer says "not stated" (Nil).                                        *)
(***************************************************************************)
EXTENDS Integers, Sequences, Functions, TLC

CONSTANT Nil

-----------------------------------------------------------------------------
(* Proof levels.                                                           *)

Levels == {"NONE", "BOOT", "SERVICE", "DATA"}

\* ProofLevel.Rank: an unrecorded level ranks below every other.
Rank(level) ==
  CASE level = "NONE" -> 0 [] level = "BOOT" -> 1
    [] level = "SERVICE" -> 2 [] level = "DATA" -> 3 [] OTHER -> -1

\* ProofLevel.Raise: whichever of the two establishes more.
Raise(level, other) == IF Rank(other) > Rank(level) THEN other ELSE level

-----------------------------------------------------------------------------
(* One check.                                                              *)

\* The typed fields of a CheckSpec, at the value that means "not stated".
Unstated ==
  [type |-> "", name |-> "", timeout |-> 0, retries |-> 0, retry_interval |-> 0, critical |-> Nil,
   proves |-> "", capture |-> "", assert |-> Nil, drift |-> Nil]

\* reservedCheckKeys.
Reserved == DOMAIN Unstated

\* One map written over another: where both have a key, the first wins.
Over(f, g) == [k \in DOMAIN f \cup DOMAIN g |-> IF k \in DOMAIN f THEN f[k] ELSE g[k]]

\* strings.TrimSpace, on the one padded spelling the documents use.
TrimSpace(text) == IF text = " rows" THEN "rows" ELSE text

\* assertSpec.core: every bound is a pointer, and a block that is absent
\* declares nothing.
AssertOf(block) ==
  IF block = Nil THEN Nil
  ELSE [k \in {"min", "max", "equals"} |-> IF k \in DOMAIN block THEN block[k] ELSE Nil]

\* maxDrop.UnmarshalYAML: the percent sign is read once. A tolerance is
\* written as the text <<number, suffix>>, or as a bare number, suffix "".
DriftOf(block) ==
  IF block = Nil THEN Nil
  ELSE [maxDrop |-> block.max_drop[1], percent |-> block.max_drop[2] = "%"]

\* CheckSpec.UnmarshalYAML.
UnmarshalCheck(doc) ==
  LET head == [k \in Reserved |-> IF k \in DOMAIN doc THEN doc[k] ELSE Unstated[k]]
  IN  Over([head EXCEPT !.capture = TrimSpace(@), !.assert = AssertOf(@), !.drift = DriftOf(@)],
           [params |-> Restrict(doc, DOMAIN doc \ Reserved)])

\* assertYAML: the bounds nobody stated are left out.
AssertYAML(a) == IF a = Nil THEN Nil ELSE Restrict(a, {k \in DOMAIN a : a[k] # Nil})

\* driftYAML: the percent sign comes back with its number.
DriftYAML(d) ==
  IF d = Nil THEN Nil ELSE [max_drop |-> <<d.maxDrop, IF d.percent THEN "%" ELSE "">>]

\* CheckSpec.MarshalYAML: the params first, so that the typed fields win, and
\* only the fields that are stated.
MarshalCheck(c) ==
  LET out == [k \in Reserved |-> c[k]]
      text == [out EXCEPT !.assert = AssertYAML(@), !.drift = DriftYAML(@)]
  IN  Over(Restrict(text, {"type"} \cup {k \in Reserved : text[k] # Unstated[k]}), c.params)

\* CheckSpec.DisplayName: the stated name, or the type and the port.
DisplayName(c) ==
  IF c.name # "" THEN <<c.name>>
  ELSE IF "port" \in DOMAIN c.params THEN <<c.type, c.params.port>> ELSE <<c.type>>

\* CheckSpec.IsCritical: unless a plan says otherwise.
IsCritical(c) == c.critical = Nil \/ c.critical

\* isLivenessCommand: a program of the table, run on its own. A command line
\* is its program and whether it chains into something else.
LivenessCommands == {"hostname", "uname", "true", "echo"}

IsLivenessCommand(params) ==
  \E k \in {"run", "argv"} \cap DOMAIN params :
    params[k].program \in LivenessCommands /\ ~params[k].chained

\* AssertSpec.Any.
AnyBound(a) == a # Nil /\ \E k \in DOMAIN a : a[k] # Nil

\* CheckSpec.ProvenLevel and provesTheData: what the plan declares, else data
\* for a bounded capture, else the boot for a liveness probe, else a service.
ProvenLevel(c) ==
  IF c.proves \in Levels THEN c.proves
  ELSE IF c.capture # "" /\ AnyBound(c.assert) THEN "DATA"
  ELSE IF c.type = "command" /\ IsLivenessCommand(c.params) THEN "BOOT"
  ELSE IF c.type = "ping" THEN "BOOT" ELSE "SERVICE"

-----------------------------------------------------------------------------
(* The plan.                                                               *)

GuestAgentChecks == {"command"}
CapturingChecks == {"command"}

Types(p) == {p.checks[i].type : i \in DOMAIN p.checks}

\* A plan with no check still waits for an address.
NeedsNetwork(p) == p.checks = <<>> \/ Types(p) \ GuestAgentChecks # {}
NeedsGuestAgent(p) == Types(p) \cap GuestAgentChecks # {}

Or(value, unset, default) == IF value = unset THEN default ELSE value

\* A check's own defaults.
CheckDefaults(c) == [c EXCEPT !.timeout = Or(@, 0, 30), !.retry_interval = Or(@, 0, 5)]

\* Plan.ApplyDefaults: what is not stated, and only that.
ApplyDefaults(p) ==
  [p EXCEPT
     !.strategy = Or(@, "", "latest"),
     !.network = Or(@, "", "isolated"),
     !.timeout = Or(@, 0, 60),
     !.waitForIP = Or(@, Nil, ~p.skip /\ p.ip = "" /\ NeedsNetwork(p)),
     !.waitForAgent = Or(@, Nil, ~p.skip /\ NeedsGuestAgent(p)),
     !.always = Or(@, Nil, TRUE),
     !.checks = [i \in DOMAIN @ |-> CheckDefaults(@[i])]]

\* ParseSchedule: a zone with nothing to qualify is refused, like an
\* expression or a zone that cannot be read.
ScheduleOK(expr, timezone) ==
  IF expr = "" THEN timezone = "" ELSE expr # "unreadable" /\ timezone # "unknown"

\* Plan.Validate, one check: capture, assert and drift only in combinations
\* that have a reading.
CheckOK(c) ==
  /\ c.type # ""
  /\ c.proves \in Levels \cup {""}
  /\ c.capture # "" => c.type \in CapturingChecks
  /\ c.assert # Nil => AnyBound(c.assert) /\ c.capture # ""
  /\ c.drift # Nil => c.capture # "" /\ c.drift.maxDrop > 0

\* Plan.Validate.
Validate(p) ==
  /\ p.name # "" /\ p.workload # "" /\ p.provider # ""
  /\ p.strategy \in {"latest", "specific"}
  /\ p.strategy = "specific" => p.backup # ""
  /\ p.skip => p.checks = <<>>
  /\ ScheduleOK(p.schedule, p.timezone)
  /\ \A i \in DOMAIN p.checks : CheckOK(p.checks[i])
  /\ \A i, j \in DOMAIN p.checks : i # j => DisplayName(p.checks[i]) # DisplayName(p.checks[j])

\* Decoding a document: everything but the checks is a field of the struct.
Decode(doc) == [doc EXCEPT !.checks = [i \in DOMAIN @ |-> UnmarshalCheck(@[i])]]

\* Parse: decode, apply the defaults, validate. Nil is a refusal.
Parse(doc) ==
  LET p == ApplyDefaults(Decode(doc)) IN IF Validate(p) THEN p ELSE Nil

\* yaml.Marshal of a plan.
Marshal(p) == [p EXCEPT !.checks = [i \in DOMAIN @ |-> MarshalCheck(@[i])]]

-----------------------------------------------------------------------------
(* Ad-hoc drills.                                                          *)

\* What every document and every ad-hoc drill of the instances agree on.
Blank ==
  [name |-> "", workload |-> "", provider |-> "", strategy |-> "", backup |-> "",
   network |-> "", timeout |-> 0, skip |-> FALSE, ip |-> "", waitForIP |-> Nil,
   waitForAgent |-> Nil, always |-> Nil, schedule |-> "", timezone |-> "", checks |-> <<>>]

\* adhoc.DefaultCheck, "cmd:hostname".
DefaultCheck == [type |-> "command", params |-> [run |-> [program |-> "hostname", chained |-> FALSE]]]

\* ParseCheckSpec: the shorthand is the type it names, "" when it names none
\* or its argument cannot be read, and the one param it carries.
ParseCheckSpec(spec) == Over([Unstated EXCEPT !.type = spec.type], [params |-> spec.params])

\* adhoc.Plan: the checks asked for, or the default one; none when the guest
\* is not to be started. Retries are the ad-hoc budget.
AdhocPlan(o) ==
  LET specs == IF o.skip THEN <<>> ELSE IF o.checks = <<>> THEN <<DefaultCheck>> ELSE o.checks
      p == ApplyDefaults([Blank EXCEPT
             !.name = "adhoc", !.workload = o.workload, !.provider = o.provider,
             !.strategy = IF o.backup \in {"", "latest"} THEN "latest" ELSE "specific",
             !.backup = IF o.backup = "latest" THEN "" ELSE o.backup,
             !.skip = o.skip,
             !.checks = [i \in DOMAIN specs |->
                           [ParseCheckSpec(specs[i]) EXCEPT !.retries = 5, !.retry_interval = 5, !.timeout = 15]]])
  IN  IF Validate(p) THEN p ELSE Nil

=============================================================================
