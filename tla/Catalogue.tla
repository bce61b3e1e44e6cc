------------------------------ MODULE Catalogue ------------------------------
(***************************************************************************)
(* The plan catalogue and the drills triggered from it: the plans table,   *)
(* the calls in flight on it (the API's handlers and the command line),    *)
(* and the runs queued. Every call is the sequence of store statements its *)
(* handler makes, and calls interleave.                                    *)
(***************************************************************************)
EXTENDS PlanRules, FiniteSets

CONSTANTS
  Clients,     \* concurrent callers
  Documents,   \* the documents they write, by tag; one that does not parse is refused
  Adhoc,       \* the drills they describe instead of naming a plan, by tag
  Abbreviates, \* the ids each of their names is a prefix of
  MaxPlans,    \* bound on the plans ever created
  MaxWrites,   \* bound on the documents written in all
  MaxQueued    \* bound on the drills queued

ASSUME CatalogueAssumption == MaxPlans \in Nat

PlanIds == 1 .. MaxPlans
Tags == DOMAIN Documents

\* A document decodes into the fields of a plan, whatever it leaves out.
ASSUME DocumentsAssumption ==
  \A d \in Tags : Documents[d] = [k \in DOMAIN Blank |-> Documents[d][k]]

PlanNames == {Documents[d].name : d \in Tags}

\* A name may begin an id, or be one; where it is one, nobody passes that id
\* for a reference, which the name would answer.
ASSUME NamesAssumption == Abbreviates \in [PlanNames -> SUBSET PlanIds]

VARIABLES
  plans,    \* the plans table
  written,  \* ghost: every document an id has carried, by version
  calls,    \* the call each client has in flight
  queued    \* the runs table, as far as a trigger writes it

catalogueVars == <<plans, written, calls, queued>>

NoPlan == [name |-> "", doc |-> Nil, version |-> 0]
NoRow == [id |-> 0, version |-> 0, doc |-> Nil]

\* A call as it starts: what it writes, its guard, and the row it read.
NewCall(op, stage, doc, expected, row) ==
  [op |-> op, stage |-> stage, id |-> 0, doc |-> doc, expected |-> expected, row |-> row]

NoCall == NewCall("none", "idle", Nil, 0, NoRow)

CreateOnly == -1

\* The plan behind what a caller names: a document, or an ad-hoc drill.
Parsed ==
  [d \in Tags \cup DOMAIN Adhoc |-> IF d \in Tags THEN Parse(Documents[d]) ELSE AdhocPlan(Adhoc[d])]

\* The snapshots runs can carry, and the plan a worker parses out of each.
Snapshots == {Marshal(Parsed[d]) : d \in {e \in DOMAIN Parsed : Parsed[e] # Nil}}
Executed == [s \in Snapshots |-> Parse(s)]

Rows == [id : 0 .. MaxPlans, version : 0 .. MaxWrites, doc : Tags \cup {Nil}]

CatalogueTypeOK ==
  /\ plans \in [PlanIds -> [name : PlanNames \cup {""}, doc : Tags \cup {Nil}, version : 0 .. MaxWrites]]
  /\ \A i \in PlanIds :
       /\ Len(written[i]) <= MaxWrites /\ \A v \in DOMAIN written[i] : written[i][v] \in Tags
       /\ plans[i] # NoPlan => plans[i].version = Len(written[i])
  /\ \A c \in Clients :
       /\ calls[c].op \in {"none", "save", "put", "delete", "trigger"}
       /\ calls[c].row \in Rows
  /\ \A r \in DOMAIN queued :
       /\ queued[r].plan \in 0 .. MaxPlans /\ queued[r].from \in 0 .. MaxPlans
       /\ queued[r].version \in 0 .. MaxWrites
       /\ queued[r].snapshot \in Snapshots /\ queued[r].active \in BOOLEAN

CatalogueInit ==
  /\ plans = [i \in PlanIds |-> NoPlan] /\ written = [i \in PlanIds |-> <<>>]
  /\ calls = [c \in Clients |-> NoCall]
  /\ queued = <<>>

-----------------------------------------------------------------------------
(* The table.                                                              *)

Row(i) == [id |-> i, version |-> plans[i].version, doc |-> plans[i].doc]

\* resolvePlanRef of an id, and of a name: the row that carries it, else the
\* one row whose id it begins. None is ErrNotFound.
ById(i) == {j \in PlanIds : j = i /\ plans[j] # NoPlan}
Named(name) == {j \in PlanIds : plans[j] # NoPlan /\ plans[j].name = name}
Begun(name) == {j \in Abbreviates[name] : plans[j] # NoPlan}
GetPlan(name) ==
  IF Named(name) # {} THEN Named(name) ELSE {j \in Begun(name) : Begun(name) = {j}}

\* ErrAmbiguous: the name begins several ids.
Ambiguous(name) == Named(name) = {} /\ \E i, j \in Begun(name) : i # j

\* CreatePlan: a fresh id, refused when the name is taken.
CreatePlan(doc) ==
  /\ Named(Documents[doc].name) = {}
  /\ \E i \in PlanIds :
       /\ written[i] = <<>> /\ \A j \in 1 .. i - 1 : written[j] # <<>>
       /\ plans' = [plans EXCEPT ![i] = [name |-> Documents[doc].name, doc |-> doc, version |-> 1]]
       /\ written' = [written EXCEPT ![i] = <<doc>>]

\* The index on the name refuses one that another row carries.
Free(name, i) == Named(name) \subseteq {i}

\* A slip UpdatePlan could make.
UpdatePlanBlind(i, doc, expected) ==
  /\ plans[i] # NoPlan /\ Free(Documents[doc].name, i)
  /\ plans' = [plans EXCEPT ![i] = [name |-> Documents[doc].name, doc |-> doc, version |-> @.version + 1]]
  /\ written' = [written EXCEPT ![i] = Append(@, doc)]

\* UpdatePlan: the version is counted by the statement itself, a guard above
\* zero must be the version it finds, and the name becomes the document's.
Fits(i, doc, expected) ==
  /\ plans[i] # NoPlan /\ Free(Documents[doc].name, i)
  /\ expected > 0 => plans[i].version = expected

UpdatePlan(i, doc, expected) ==
  /\ Fits(i, doc, expected)
  /\ plans' = [plans EXCEPT ![i] = [name |-> Documents[doc].name, doc |-> doc, version |-> @.version + 1]]
  /\ written' = [written EXCEPT ![i] = Append(@, doc)]

\* DeletePlan: the runs' plan_id is set to null by the foreign key.
DeletePlan(i) ==
  /\ plans[i] # NoPlan
  /\ plans' = [plans EXCEPT ![i] = NoPlan]
  /\ queued' = [r \in DOMAIN queued |-> [queued[r] EXCEPT !.plan = IF @ = i THEN 0 ELSE @]]

-----------------------------------------------------------------------------
(* Reading and starting calls.                                             *)

Begin(c, call) ==
  /\ calls[c] = NoCall
  /\ calls' = [calls EXCEPT ![c] = call]
  /\ UNCHANGED <<plans, written, queued>>

\* POST /plans (CreateOnly), and `plan apply` on one file (0: whatever is
\* there). A document that does not parse is refused here.
BeginSave(c, doc, expected) ==
  /\ Parsed[doc] # Nil /\ expected \in {CreateOnly, 0}
  /\ Begin(c, NewCall("save", "look", doc, expected, NoRow))

\* GET /plans and /plans/{ref}, `plan list` and `plan show`: a client reads a
\* plan and edits it...
BeginEdit(c, i) ==
  /\ ById(i) # {}
  /\ Begin(c, NewCall("put", "edit", Nil, 0, Row(i)))

\* ... and PUTs it, under the version it read or under none. The plan the URL
\* names, by id or by name, is looked up before the body is read, and its name
\* must be the document's; then the PUT is a Save.
Put(c, doc, guarded) ==
  /\ calls[c].op = "put" /\ calls[c].stage = "edit"
  /\ \E i \in ById(calls[c].row.id) \cup GetPlan(Documents[calls[c].row.doc].name) :
       plans[i].name = Documents[doc].name
  /\ Parsed[doc] # Nil
  /\ calls' = [calls EXCEPT ![c].stage = "look", ![c].doc = doc,
                            ![c].expected = IF guarded THEN calls[c].row.version ELSE 0]
  /\ UNCHANGED <<plans, written, queued>>

\* The URL names no plan any more, the body or the version it is guarded by
\* cannot be read, or the client gives up.
Abandon(c) ==
  /\ calls[c].op = "put" /\ calls[c].stage = "edit"
  /\ calls' = [calls EXCEPT ![c] = NoCall]
  /\ UNCHANGED <<plans, written, queued>>

\* DELETE /plans/{ref} and `plan delete`: resolved first, deleted by id.
BeginDelete(c, i) ==
  /\ ById(i) # {}
  /\ Begin(c, NewCall("delete", "delete", Nil, 0, Row(i)))

\* planForTrigger, a plan by name: Resolve reads the row and parses it.
BeginTrigger(c, i) ==
  /\ ById(i) # {} /\ Parsed[plans[i].doc] # Nil
  /\ Begin(c, NewCall("trigger", "prepare", plans[i].doc, 0, Row(i)))

\* adhocPlanForTrigger: a drill described in the body has no row.
BeginAdhoc(c, o) ==
  /\ Parsed[o] # Nil
  /\ Begin(c, NewCall("trigger", "prepare", o, 0, NoRow))

-----------------------------------------------------------------------------
(* The steps of a call.                                                    *)

Stage(c, op, stage) == calls[c].op \in op /\ calls[c].stage = stage
Goes(c, stage) == calls' = [calls EXCEPT ![c].stage = stage]
Ends(c) == calls' = [calls EXCEPT ![c] = NoCall]

Saves == {"save", "put"}

MayWrite == FoldFunction(LAMBDA w, n : Len(w) + n, 0, written) < MaxWrites

\* Save looks the document's name up, as a reference like any other. What it
\* finds decides between creating, refusing and updating; a guard does not stop
\* it from creating.
Look(c) ==
  /\ Stage(c, Saves, "look")
  /\ LET name == Documents[calls[c].doc].name
         found == GetPlan(name)
     IN  \/ found = {} /\ ~Ambiguous(name) /\ Goes(c, "create")
         \/ Ambiguous(name) /\ Ends(c)
         \/ found # {} /\ calls[c].expected = CreateOnly /\ Ends(c)
         \/ /\ calls[c].expected # CreateOnly
            /\ \E i \in found : calls' = [calls EXCEPT ![c].stage = "update", ![c].id = i]
  /\ UNCHANGED <<plans, written, queued>>

\* Save's insert: the name may have been taken since the look. What Save
\* answers with is read back by id: the row of then, or a later one.
Create(c) ==
  /\ Stage(c, Saves, "create")
  /\ \/ MayWrite /\ CreatePlan(calls[c].doc)
     \/ Named(Documents[calls[c].doc].name) # {} /\ UNCHANGED <<plans, written>>
  /\ Ends(c)
  /\ UNCHANGED queued

\* Save's update: the row may be gone, or at another version, and another row
\* may carry the name by now.
Update(c) ==
  /\ Stage(c, Saves, "update")
  /\ \/ MayWrite /\ UpdatePlan(calls[c].id, calls[c].doc, calls[c].expected)
     \/ ~Fits(calls[c].id, calls[c].doc, calls[c].expected) /\ UNCHANGED <<plans, written>>
  /\ Ends(c)
  /\ UNCHANGED queued

Delete(c) ==
  /\ Stage(c, {"delete"}, "delete")
  /\ \/ DeletePlan(calls[c].row.id)
     \/ ById(calls[c].row.id) = {} /\ UNCHANGED <<plans, queued>>
  /\ Ends(c)
  /\ UNCHANGED written

\* trigger.Prepare: refused while the workload has a drill in flight.
Prepare(c) ==
  /\ Stage(c, {"trigger"}, "prepare")
  /\ IF \E r \in DOMAIN queued : queued[r].active /\ queued[r].snapshot.workload = Parsed[calls[c].doc].workload
     THEN Ends(c) ELSE Goes(c, "enqueue")
  /\ UNCHANGED <<plans, written, queued>>

\* A slip Prepare could make: the document of now under the version of then.
PreparedLate(c) ==
  LET row == calls[c].row
  IN  [plan |-> row.id, from |-> row.id, version |-> row.version, active |-> TRUE,
       snapshot |-> Marshal(Parsed[IF row.id = 0 THEN calls[c].doc ELSE plans[row.id].doc])]

\* The row a trigger writes: the parsed plan rendered back, and the id and
\* version of the row it was parsed from.
Prepared(c) ==
  LET row == calls[c].row
  IN  [plan |-> row.id, from |-> row.id, version |-> row.version, active |-> TRUE,
       snapshot |-> Marshal(Parsed[calls[c].doc])]

\* Enqueue: the foreign key refuses the id of a plan deleted meanwhile.
Enqueue(c) ==
  /\ Stage(c, {"trigger"}, "enqueue") /\ Len(queued) < MaxQueued
  /\ LET stored == calls[c].row.id # 0
     IN  \/ /\ stored => ById(calls[c].row.id) # {}
            /\ queued' = Append(queued, Prepared(c))
         \/ stored /\ ById(calls[c].row.id) = {} /\ UNCHANGED queued
  /\ Ends(c)
  /\ UNCHANGED <<plans, written>>

\* A worker executes a drill to its end: not from the catalogue, from the
\* snapshot.
Settle(r) ==
  /\ queued[r].active
  /\ queued' = [queued EXCEPT ![r].active = FALSE]
  /\ UNCHANGED <<plans, written, calls>>

CatalogueNext ==
  \/ \E c \in Clients :
       \/ \E i \in PlanIds : BeginEdit(c, i) \/ BeginDelete(c, i) \/ BeginTrigger(c, i)
       \/ \E doc \in Tags, expected \in {CreateOnly, 0} : BeginSave(c, doc, expected)
       \/ \E doc \in Tags, guarded \in BOOLEAN : Put(c, doc, guarded)
       \/ Abandon(c)
       \/ \E o \in DOMAIN Adhoc : BeginAdhoc(c, o)
       \/ Look(c) \/ Create(c) \/ Update(c) \/ Delete(c) \/ Prepare(c) \/ Enqueue(c)
  \/ \E r \in DOMAIN queued : Settle(r)

CatalogueSpec == CatalogueInit /\ [][CatalogueNext]_catalogueVars

-----------------------------------------------------------------------------
(***************************************************************************)
(* A name has one row, whatever creations, re-creations and deletions      *)
(* interleave (Save looks the name up and writes in two steps).            *)
(***************************************************************************)
OneRowPerName ==
  \A i, j \in PlanIds :
    i # j /\ plans[i] # NoPlan /\ plans[j] # NoPlan => plans[i].name # plans[j].name

(***************************************************************************)
(* `?version=N` never overwrites a document its author has not read: while *)
(* the row they read still carries the name they write, their PUT replaces *)
(* exactly that version or nothing (catalog.Save, UpdatePlan). Once it has *)
(* been deleted, or renamed by a document whose name began its id, the     *)
(* guard protects nothing: the PUT creates a plan, or replaces the version *)
(* N of another one.                                                       *)
(***************************************************************************)
GuardedPutIsSafe ==
  [][\A c \in Clients :
       calls[c].op = "put" /\ calls[c].expected > 0 /\ plans' # plans /\ calls'[c] # calls[c] =>
         LET row == calls[c].row
         IN  row.id \in Named(Documents[calls[c].doc].name) =>
               Row(row.id) = row /\ plans'[row.id].doc = calls[c].doc]_catalogueVars

(***************************************************************************)
(* What a drill executes is what the plan said at the version the run      *)
(* names: the worker parses the snapshot into the very plan the document   *)
(* of that version parses into, whatever was saved or deleted before the   *)
(* drill was queued or since. The link to the plan is there exactly while  *)
(* the plan is, and an ad-hoc drill has none (trigger.Prepare, plan.go     *)
(* MarshalYAML, the foreign key of runs.plan_id).                          *)
(***************************************************************************)
ProvenanceIsTrue ==
  \A r \in DOMAIN queued :
    LET run == queued[r]
    IN  /\ run.from = 0 =>
             /\ run.version = 0 /\ run.plan = 0
             /\ \E o \in DOMAIN Adhoc : Executed[run.snapshot] = Parsed[o]
        /\ run.from # 0 =>
             /\ Executed[run.snapshot] = Parsed[written[run.from][run.version]]
             /\ run.plan = IF plans[run.from] = NoPlan THEN 0 ELSE run.from

(***************************************************************************)
(* What docs/api.md says of the guard: "if the plan is no longer at that   *)
(* version, somebody wrote in between and the answer is a 409 rather than  *)
(* an overwrite". It does not hold of a plan deleted or renamed in between.*)
(***************************************************************************)
GuardIsKept ==
  [][\A c \in Clients :
       calls[c].op = "put" /\ calls[c].expected > 0 /\ plans' # plans /\ calls'[c] # calls[c] =>
         plans[calls[c].row.id] # NoPlan /\ Row(calls[c].row.id) = calls[c].row]_catalogueVars

(***************************************************************************)
(* What the refusal of a PUT says: "renaming is deleting one plan and      *)
(* creating another" (api/plans.go), and the comment of Save: "creating it *)
(* or replacing the one that already carries its name". A document whose   *)
(* name begins the id of a plan replaces that plan and renames it.         *)
(***************************************************************************)
NobodyRenames ==
  [][\A i \in PlanIds :
       plans[i] # NoPlan /\ plans'[i] # NoPlan => plans'[i].name = plans[i].name]_catalogueVars

=============================================================================
