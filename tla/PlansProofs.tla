----------------------------- MODULE PlansProofs -----------------------------
(***************************************************************************)
(* Proofs about Catalogue and Assurance: for any number of clients, plans  *)
(* and drills, and for any documents, whatever they parse into.            *)
(***************************************************************************)
EXTENDS Catalogue, Assurance, SequenceTheorems, FiniteSetTheorems, WellFoundedInduction, TLAPS

Words == Tags \cup DOMAIN Adhoc \cup {Nil}
Records == [name : PlanNames \cup {""}, doc : Tags \cup {Nil}, version : Nat]

Calls ==
  [op : {"none", "save", "put", "delete", "trigger"},
   stage : {"idle", "look", "edit", "create", "update", "delete", "prepare", "enqueue"},
   id : 0 .. MaxPlans, doc : Words, expected : Int,
   row : [id : 0 .. MaxPlans, version : Nat, doc : Words]]

\* A row holds the last document written under its id, and its version counts
\* them.
Holds(p, w) ==
  p # NoPlan => w # <<>> /\ p.version = Len(w) /\ p.doc = w[Len(w)]

Table ==
  /\ plans \in [PlanIds -> Records] /\ written \in [PlanIds -> Seq(Tags)]
  /\ \A i \in PlanIds : Holds(plans[i], written[i])

\* What a client read is what its id carried at that version.
Read(row, W) ==
  /\ row.id \in PlanIds /\ row.version \in 1 .. Len(W[row.id])
  /\ row.doc = W[row.id][row.version]

\* What a call in flight knows stays true: what it writes is a document, what
\* it is about to update is an id, and what its client read was written there.
Knows(k, W) ==
  /\ k \in Calls
  /\ k.stage \in {"look", "create", "update"} => k.doc \in Tags
  /\ k.stage = "update" => k.id \in PlanIds
  /\ k.op = "put" => Read(k.row, W) /\ (k.stage # "edit" => k.expected \in {0, k.row.version})

InFlight ==
  DOMAIN calls = Clients /\ \A c \in Clients : Knows(calls[c], written)

Inv == Table /\ OneRowPerName /\ InFlight

\* What a write never does to an id that was in use.
GrowsTo(p, w, p2, w2) ==
  w # <<>> =>
    /\ Len(w) <= Len(w2) /\ \A v \in 1 .. Len(w) : w2[v] = w[v]
    /\ p2 # NoPlan => p # NoPlan

Grows == \A i \in PlanIds : GrowsTo(plans[i], written[i], plans'[i], written'[i])

-----------------------------------------------------------------------------
(* The statements on the table.                                            *)

LEMMA NoPlanType == NoPlan \in Records
  BY DEF NoPlan, Records

LEMMA GrowsSelf ==
  ASSUME NEW p, NEW w \in Seq(Tags)
  PROVE  GrowsTo(p, w, p, w) /\ GrowsTo(p, w, NoPlan, w)
<1>1. Len(w) <= Len(w)
  BY LenProperties
<1> QED BY <1>1 DEF GrowsTo

LEMMA GrowsFromNothing ==
  ASSUME NEW p, NEW p2, NEW w2
  PROVE  GrowsTo(p, <<>>, p2, w2)
  BY DEF GrowsTo

LEMMA CreatePlanStep ==
  ASSUME Inv, NEW doc \in Tags, CreatePlan(doc)
  PROVE  Table' /\ OneRowPerName' /\ Grows
<1> DEFINE row == [name |-> Documents[doc].name, doc |-> doc, version |-> 1]
           w == <<doc>>
<1>1. PICK i \in PlanIds :
         /\ written[i] = <<>>
         /\ plans' = [plans EXCEPT ![i] = row]
         /\ written' = [written EXCEPT ![i] = w]
  BY DEF CreatePlan
<1>2. row \in Records
  BY DEF PlanNames, Records
<1>3. w \in Seq(Tags) /\ Holds(row, w) /\ row.name = Documents[doc].name
  BY DEF Holds
<1> HIDE DEF row, w
<1>4. /\ plans'[i] = row /\ written'[i] = w
      /\ \A j \in PlanIds : j # i => plans'[j] = plans[j] /\ written'[j] = written[j]
  BY <1>1 DEF Inv, Table
<1>5. plans' \in [PlanIds -> Records] /\ written' \in [PlanIds -> Seq(Tags)]
  BY <1>1, <1>2, <1>3 DEF Inv, Table
<1>6. Table'
  BY <1>3, <1>4, <1>5 DEF Inv, Table
<1>7. \A j \in PlanIds : plans[j] # NoPlan => plans[j].name # row.name
  BY <1>3 DEF CreatePlan, Named
<1>8. OneRowPerName'
  BY <1>4, <1>7 DEF OneRowPerName, Inv
<1>9. Grows
  BY <1>1, <1>4, GrowsSelf, GrowsFromNothing DEF Grows, Inv, Table
<1> QED BY <1>6, <1>8, <1>9

LEMMA UpdatePlanStep ==
  ASSUME Inv, NEW i \in PlanIds, NEW doc \in Tags, NEW expected, UpdatePlan(i, doc, expected)
  PROVE  Table' /\ OneRowPerName' /\ Grows
<1> DEFINE row == [name |-> Documents[doc].name, doc |-> doc, version |-> plans[i].version + 1]
           w == Append(written[i], doc)
<1>1. /\ plans[i] # NoPlan /\ Free(Documents[doc].name, i)
      /\ plans' = [plans EXCEPT ![i] = row] /\ written' = [written EXCEPT ![i] = w]
  BY DEF UpdatePlan, Fits, Inv, Table
<1>2. /\ plans[i].version = Len(written[i]) /\ written[i] # <<>>
      /\ written[i] \in Seq(Tags) /\ Len(written[i]) \in Nat
  BY <1>1, LenProperties DEF Inv, Table, Holds
<1>3. row \in Records /\ row.name = Documents[doc].name
  <2>1. Documents[doc].name \in PlanNames /\ plans[i].version + 1 \in Nat
    BY <1>2 DEF PlanNames
  <2> QED BY <1>1, <2>1 DEF Records
<1>4. /\ w \in Seq(Tags) /\ w # <<>> /\ Len(w) = Len(written[i]) + 1
      /\ w[Len(written[i]) + 1] = doc /\ \A v \in 1 .. Len(written[i]) : w[v] = written[i][v]
  BY <1>2, AppendProperties
<1>5. Holds(row, w)
  BY <1>2, <1>4 DEF Holds
<1> HIDE DEF row, w
<1>6. /\ plans'[i] = row /\ written'[i] = w
      /\ \A j \in PlanIds : j # i => plans'[j] = plans[j] /\ written'[j] = written[j]
  BY <1>1 DEF Inv, Table
<1>7. plans' \in [PlanIds -> Records] /\ written' \in [PlanIds -> Seq(Tags)]
  BY <1>1, <1>3, <1>4 DEF Inv, Table
<1>8. Table'
  BY <1>5, <1>6, <1>7 DEF Inv, Table
<1>9. OneRowPerName'
  <2>1. \A j \in PlanIds : j # i /\ plans[j] # NoPlan => plans[j].name # row.name
    BY <1>1, <1>3 DEF Free, Named
  <2> QED BY <1>6, <2>1 DEF OneRowPerName, Inv
<1>10. GrowsTo(plans[i], written[i], row, w)
  <2>1. Len(written[i]) <= Len(w)
    BY <1>2, <1>4
  <2> QED BY <1>1, <1>3, <1>4, <2>1 DEF GrowsTo
<1>11. Grows
  BY <1>6, <1>10, GrowsSelf DEF Grows, Inv, Table
<1> QED BY <1>8, <1>9, <1>11

LEMMA DeletePlanStep ==
  ASSUME Inv, NEW i \in PlanIds, DeletePlan(i), written' = written
  PROVE  Table' /\ OneRowPerName' /\ Grows
<1>1. /\ plans'[i] = NoPlan
      /\ \A j \in PlanIds : j # i => plans'[j] = plans[j]
      /\ plans' \in [PlanIds -> Records]
  BY NoPlanType DEF DeletePlan, Inv, Table
<1>2. Table'
  BY <1>1 DEF Inv, Table, Holds
<1>3. OneRowPerName'
  BY <1>1 DEF OneRowPerName, Inv
<1>4. Grows
  BY <1>1, GrowsSelf DEF Grows, Inv, Table
<1> QED BY <1>2, <1>3, <1>4

LEMMA SameTable ==
  ASSUME Inv, UNCHANGED <<plans, written>>
  PROVE  Table' /\ OneRowPerName' /\ Grows
<1>1. Grows
  BY GrowsSelf DEF Grows, Inv, Table
<1> QED BY <1>1 DEF Inv, Table, OneRowPerName

-----------------------------------------------------------------------------
(* The calls.                                                              *)

\* What a call knows survives whatever the others write.
LEMMA KnowsStays ==
  ASSUME Inv, Table', Grows, NEW k, Knows(k, written)
  PROVE  Knows(k, written')
<1>1. ASSUME NEW row, Read(row, written), row.version \in Nat PROVE Read(row, written')
  <2> DEFINE i == row.id
  <2>1. i \in PlanIds /\ written[i] \in Seq(Tags) /\ written'[i] \in Seq(Tags)
    BY <1>1 DEF Read, Inv, Table
  <2>2. written[i] # <<>>
    BY <1>1, <2>1, EmptySeq DEF Read
  <2>3. /\ Len(written[i]) \in Nat /\ Len(written'[i]) \in Nat /\ Len(written[i]) <= Len(written'[i])
        /\ \A v \in 1 .. Len(written[i]) : written'[i][v] = written[i][v]
    BY <2>1, <2>2, LenProperties DEF Grows, GrowsTo
  <2> QED BY <1>1, <2>1, <2>3 DEF Read
<1>2. k.row.version \in Nat
  BY DEF Knows, Calls
<1> QED BY <1>1, <1>2 DEF Knows

\* A step of one client that leaves its own call right.
LEMMA CallStep ==
  ASSUME Inv, Table', OneRowPerName', Grows, NEW c \in Clients,
         NEW k, calls' = [calls EXCEPT ![c] = k], Knows(k, written')
  PROVE  Inv'
<1>1. DOMAIN calls' = Clients /\ calls'[c] = k
  BY DEF Inv, InFlight
<1>2. \A d \in Clients : d # c => calls'[d] = calls[d]
  BY DEF Inv, InFlight
<1>3. \A d \in Clients : d # c => Knows(calls[d], written')
  BY KnowsStays DEF Inv, InFlight
<1>4. \A d \in Clients : Knows(calls'[d], written')
  BY <1>1, <1>2, <1>3
<1> QED BY <1>1, <1>4 DEF Inv, InFlight

LEMMA NoRowType == NoRow \in [id : 0 .. MaxPlans, version : Nat, doc : Words]
  BY CatalogueAssumption DEF NoRow, Words

LEMMA NewCallType ==
  ASSUME NEW doc \in Words, NEW expected \in Int,
         NEW row \in [id : 0 .. MaxPlans, version : Nat, doc : Words]
  PROVE  /\ NewCall("none", "idle", doc, expected, row) \in Calls
         /\ NewCall("put", "edit", doc, expected, row) \in Calls
         /\ NewCall("save", "look", doc, expected, row) \in Calls
         /\ NewCall("delete", "delete", doc, expected, row) \in Calls
         /\ NewCall("trigger", "prepare", doc, expected, row) \in Calls
<1>1. 0 \in 0 .. MaxPlans
  BY CatalogueAssumption
<1> QED BY <1>1 DEF NewCall, Calls

LEMMA NewCallFields ==
  ASSUME NEW op, NEW stage, NEW doc, NEW expected, NEW row
  PROVE  /\ NewCall(op, stage, doc, expected, row).op = op
         /\ NewCall(op, stage, doc, expected, row).stage = stage
         /\ NewCall(op, stage, doc, expected, row).doc = doc
         /\ NewCall(op, stage, doc, expected, row).row = row
  BY DEF NewCall

\* A call that has ended knows nothing.
LEMMA NoCallKnows ==
  ASSUME NEW W
  PROVE  Knows(NoCall, W)
<1>0. Nil \in Words
  BY DEF Words
<1>1. NoCall \in Calls
  BY <1>0, NewCallType, NoRowType DEF NoCall
<1>2. NoCall.op = "none" /\ NoCall.stage = "idle"
  BY DEF NoCall, NewCall
<1> QED BY <1>1, <1>2 DEF Knows

\* A call that only moves from one stage to another, on a table that stays.
LEMMA GoesStep ==
  ASSUME Inv, NEW c \in Clients, NEW stage, Goes(c, stage), UNCHANGED <<plans, written>>,
         Knows([calls[c] EXCEPT !.stage = stage], written)
  PROVE  Inv'
<1>1. calls' = [calls EXCEPT ![c] = [calls[c] EXCEPT !.stage = stage]]
  BY DEF Goes, Inv, InFlight
<1> QED BY <1>1, SameTable, CallStep

LEMMA EndsStep ==
  ASSUME Inv, Table', OneRowPerName', Grows, NEW c \in Clients, Ends(c)
  PROVE  Inv'
  BY NoCallKnows, CallStep DEF Ends

LEMMA BeginStep ==
  ASSUME Inv, NEW c \in Clients, NEW k, Begin(c, k), Knows(k, written)
  PROVE  Inv'
  BY SameTable, CallStep DEF Begin

LEMMA RowKnown ==
  ASSUME Inv, NEW i \in PlanIds, ById(i) # {}
  PROVE  /\ Row(i) \in [id : 0 .. MaxPlans, version : Nat, doc : Words]
         /\ Read(Row(i), written)
<1>1. /\ plans[i] # NoPlan /\ plans[i] \in Records /\ written[i] \in Seq(Tags)
      /\ Holds(plans[i], written[i])
  BY DEF ById, Inv, Table
<1>2. /\ plans[i].version = Len(written[i]) /\ Len(written[i]) \in Nat
      /\ Len(written[i]) # 0 /\ plans[i].doc = written[i][Len(written[i])]
      /\ plans[i].doc \in Words
  BY <1>1, EmptySeq, LenProperties DEF Holds, Records, Words
<1>3. i \in 0 .. MaxPlans
  BY CatalogueAssumption DEF PlanIds
<1> QED BY <1>2, <1>3 DEF Row, Read

\* Whatever a name refers to, it is an id.
LEMMA FoundIsId ==
  ASSUME NEW doc \in Tags
  PROVE  GetPlan(Documents[doc].name) \subseteq PlanIds
<1>1. Documents[doc].name \in PlanNames
  BY DEF PlanNames
<1>2. Abbreviates[Documents[doc].name] \subseteq PlanIds
  BY <1>1, NamesAssumption
<1> QED BY <1>2 DEF GetPlan, Named, Begun

LEMMA InvInit == CatalogueInit => Inv
<1> SUFFICES ASSUME CatalogueInit PROVE Inv
  OBVIOUS
<1>1. Table
  BY NoPlanType DEF CatalogueInit, Table, Holds
<1>2. OneRowPerName
  BY DEF CatalogueInit, OneRowPerName
<1>3. InFlight
  BY NoCallKnows DEF CatalogueInit, InFlight
<1> QED BY <1>1, <1>2, <1>3 DEF Inv

LEMMA InvStep == Inv /\ [CatalogueNext]_catalogueVars => Inv'
<1> SUFFICES ASSUME Inv, [CatalogueNext]_catalogueVars PROVE Inv'
  OBVIOUS
<1>0. \A c \in Clients : Knows(calls[c], written) /\ calls[c] \in Calls
  BY DEF Inv, InFlight, Knows
<1>1. ASSUME NEW c \in Clients, NEW i \in PlanIds, BeginEdit(c, i) PROVE Inv'
  <2> DEFINE k == NewCall("put", "edit", Nil, 0, Row(i))
  <2>1. /\ Row(i) \in [id : 0 .. MaxPlans, version : Nat, doc : Words] /\ Nil \in Words
        /\ Read(Row(i), written)
    BY <1>1, RowKnown DEF BeginEdit, Words
  <2>2. k \in Calls /\ k.op = "put" /\ k.stage = "edit" /\ k.row = Row(i)
    BY <2>1, NewCallType, NewCallFields
  <2> HIDE DEF k
  <2>3. Knows(k, written)
    BY <2>1, <2>2 DEF Knows
  <2> QED BY <1>1, <2>3, BeginStep DEF BeginEdit, k
<1>2. ASSUME NEW c \in Clients, NEW i \in PlanIds, BeginDelete(c, i) PROVE Inv'
  <2> DEFINE k == NewCall("delete", "delete", Nil, 0, Row(i))
  <2>1. Row(i) \in [id : 0 .. MaxPlans, version : Nat, doc : Words] /\ Nil \in Words
    BY <1>2, RowKnown DEF BeginDelete, Words
  <2>2. k \in Calls /\ k.op = "delete" /\ k.stage = "delete"
    BY <2>1, NewCallType, NewCallFields
  <2> HIDE DEF k
  <2>3. Knows(k, written)
    BY <2>2 DEF Knows
  <2> QED BY <1>2, <2>3, BeginStep DEF BeginDelete, k
<1>3. ASSUME NEW c \in Clients, NEW i \in PlanIds, BeginTrigger(c, i) PROVE Inv'
  <2>1. plans[i].doc \in Words
    BY DEF Inv, Table, Records, Words
  <2>2. Knows(NewCall("trigger", "prepare", plans[i].doc, 0, Row(i)), written)
    BY <1>3, <2>1, RowKnown, NewCallType, NewCallFields DEF BeginTrigger, Knows
  <2> QED BY <1>3, <2>2, BeginStep DEF BeginTrigger
<1>4. ASSUME NEW c \in Clients, NEW o \in DOMAIN Adhoc, BeginAdhoc(c, o) PROVE Inv'
  <2>1. Knows(NewCall("trigger", "prepare", o, 0, NoRow), written)
    BY NewCallType, NewCallFields, NoRowType DEF Knows, Words
  <2> QED BY <1>4, <2>1, BeginStep DEF BeginAdhoc
<1>5. ASSUME NEW c \in Clients, NEW doc \in Tags, NEW expected \in {CreateOnly, 0},
             BeginSave(c, doc, expected)
      PROVE  Inv'
  <2>1. expected \in Int
    BY DEF CreateOnly
  <2>2. Knows(NewCall("save", "look", doc, expected, NoRow), written)
    BY <2>1, NewCallType, NewCallFields, NoRowType DEF Knows, Words
  <2> QED BY <1>5, <2>2, BeginStep DEF BeginSave
<1>6. ASSUME NEW c \in Clients, NEW doc \in Tags, NEW guarded \in BOOLEAN, Put(c, doc, guarded)
      PROVE  Inv'
  <2> DEFINE e == IF guarded THEN calls[c].row.version ELSE 0
             k == [calls[c] EXCEPT !.stage = "look", !.doc = doc, !.expected = e]
  <2>1. /\ calls[c] \in Calls /\ calls[c].op = "put" /\ Read(calls[c].row, written)
        /\ e \in {0, calls[c].row.version} /\ e \in Int
    BY <1>0, <1>6 DEF Put, Knows, Calls
  <2>2. /\ k \in Calls /\ k.op = "put" /\ k.stage = "look" /\ k.doc = doc
        /\ k.row = calls[c].row /\ k.expected = e
    BY <2>1 DEF Calls, Words
  <2>3. calls' = [calls EXCEPT ![c] = k]
    BY <1>6 DEF Put, Inv, InFlight
  <2> HIDE DEF k, e
  <2>4. Knows(k, written)
    BY <2>1, <2>2 DEF Knows
  <2> QED BY <1>6, <2>3, <2>4, SameTable, CallStep DEF Put
<1>7. ASSUME NEW c \in Clients, Abandon(c) PROVE Inv'
  BY <1>7, SameTable, EndsStep DEF Abandon, Ends
<1>8. ASSUME NEW c \in Clients, Look(c) PROVE Inv'
  <2>1. /\ calls[c].op \in Saves /\ calls[c].stage = "look" /\ calls[c].doc \in Tags
        /\ UNCHANGED <<plans, written>> /\ calls[c] \in Calls
    BY <1>0, <1>8 DEF Look, Stage, Knows
  <2>2. CASE Goes(c, "create")
    <3> DEFINE k == [calls[c] EXCEPT !.stage = "create"]
    <3>1. /\ k \in Calls /\ k.stage = "create" /\ k.op = calls[c].op /\ k.doc = calls[c].doc
          /\ k.row = calls[c].row /\ k.expected = calls[c].expected
      BY <2>1 DEF Calls
    <3> HIDE DEF k
    <3>2. Knows(k, written)
      BY <1>0, <2>1, <3>1 DEF Knows
    <3> QED BY <2>1, <2>2, <3>2, GoesStep DEF k
  <2>3. CASE Ends(c)
    BY <2>1, <2>3, SameTable, EndsStep
  <2>4. ASSUME NEW i \in GetPlan(Documents[calls[c].doc].name),
               calls' = [calls EXCEPT ![c].stage = "update", ![c].id = i]
        PROVE  Inv'
    <3> DEFINE k == [calls[c] EXCEPT !.stage = "update", !.id = i]
    <3>0. i \in PlanIds /\ i \in 0 .. MaxPlans
      BY <2>1, <2>4, FoundIsId, CatalogueAssumption DEF PlanIds
    <3>1. /\ k \in Calls /\ k.stage = "update" /\ k.op = calls[c].op /\ k.doc = calls[c].doc
          /\ k.row = calls[c].row /\ k.expected = calls[c].expected /\ k.id = i
      BY <2>1, <3>0 DEF Calls
    <3>2. calls' = [calls EXCEPT ![c] = k]
      BY <2>4 DEF Inv, InFlight
    <3> HIDE DEF k
    <3>3. Knows(k, written)
      BY <1>0, <2>1, <3>0, <3>1 DEF Knows
    <3> QED BY <2>1, <3>2, <3>3, SameTable, CallStep
  <2> QED BY <1>8, <2>2, <2>3, <2>4 DEF Look
<1>9. ASSUME NEW c \in Clients, Create(c) PROVE Inv'
  <2>1. calls[c].doc \in Tags
    BY <1>0, <1>9 DEF Create, Stage, Knows
  <2> QED BY <1>9, <2>1, CreatePlanStep, SameTable, EndsStep DEF Create
<1>10. ASSUME NEW c \in Clients, Update(c) PROVE Inv'
  <2>1. calls[c].doc \in Tags /\ calls[c].id \in PlanIds
    BY <1>0, <1>10 DEF Update, Stage, Knows
  <2> QED BY <1>10, <2>1, UpdatePlanStep, SameTable, EndsStep DEF Update
<1>11. ASSUME NEW c \in Clients, Delete(c) PROVE Inv'
  <2>1. CASE DeletePlan(calls[c].row.id) /\ written' = written
    <3>1. plans[calls[c].row.id] # NoPlan /\ plans' = [plans EXCEPT ![calls[c].row.id] = NoPlan]
      BY <2>1 DEF DeletePlan
    <3>2. calls[c].row.id \notin PlanIds => UNCHANGED <<plans, written>>
      BY <2>1, <3>1 DEF Inv, Table
    <3> QED BY <1>11, <2>1, <3>2, DeletePlanStep, SameTable, EndsStep DEF Delete
  <2>2. CASE UNCHANGED <<plans, written>>
    BY <1>11, <2>2, SameTable, EndsStep DEF Delete
  <2> QED BY <1>11, <2>1, <2>2 DEF Delete
<1>12. ASSUME NEW c \in Clients, Prepare(c) PROVE Inv'
  <2>1. calls[c] \in Calls /\ calls[c].op = "trigger" /\ UNCHANGED <<plans, written>>
    BY <1>0, <1>12 DEF Prepare, Stage
  <2>2. CASE Ends(c)
    BY <2>1, <2>2, SameTable, EndsStep
  <2>3. CASE Goes(c, "enqueue")
    <3> DEFINE k == [calls[c] EXCEPT !.stage = "enqueue"]
    <3>1. k \in Calls /\ k.stage = "enqueue" /\ k.op = "trigger"
      BY <2>1 DEF Calls
    <3> HIDE DEF k
    <3>2. Knows(k, written)
      BY <3>1 DEF Knows
    <3> QED BY <2>1, <2>3, <3>2, GoesStep DEF k
  <2> QED BY <1>12, <2>2, <2>3 DEF Prepare
<1>13. ASSUME NEW c \in Clients, Enqueue(c) PROVE Inv'
  BY <1>13, SameTable, EndsStep DEF Enqueue
<1>14. ASSUME UNCHANGED <<plans, written, calls>> PROVE Inv'
  BY <1>14 DEF Inv, Table, OneRowPerName, InFlight
<1> QED BY <1>1, <1>2, <1>3, <1>4, <1>5, <1>6, <1>7, <1>8, <1>9, <1>10, <1>11, <1>12, <1>13, <1>14
        DEF CatalogueNext, Settle, catalogueVars

-----------------------------------------------------------------------------
(***************************************************************************)
(* A name never has two rows, for any number of clients that create,       *)
(* re-create, rename, update and delete plans (catalog.Save).              *)
(***************************************************************************)
THEOREM NamesAreUnique == CatalogueSpec => []OneRowPerName
<1>1. Inv => OneRowPerName
  BY DEF Inv
<1> QED BY InvInit, InvStep, <1>1, PTL DEF CatalogueSpec

(***************************************************************************)
(* A PUT guarded by a version replaces that version of the row its author  *)
(* read or nothing, as long as that row carries the name it writes         *)
(* (catalog.Save and UpdatePlan): however many others write at the same    *)
(* time, and whatever ids the names of their documents begin.              *)
(***************************************************************************)
THEOREM GuardedPut == CatalogueSpec => GuardedPutIsSafe
<1> DEFINE Safe ==
      \A c \in Clients :
        calls[c].op = "put" /\ calls[c].expected > 0 /\ plans' # plans /\ calls'[c] # calls[c] =>
          LET row == calls[c].row
          IN  row.id \in Named(Documents[calls[c].doc].name) =>
                Row(row.id) = row /\ plans'[row.id].doc = calls[c].doc
<1>1. ASSUME Inv, [CatalogueNext]_catalogueVars PROVE [Safe]_catalogueVars
  <2> SUFFICES ASSUME CatalogueNext, NEW c \in Clients, calls[c].op = "put", calls[c].expected > 0,
                      plans' # plans, calls'[c] # calls[c],
                      calls[c].row.id \in Named(Documents[calls[c].doc].name)
               PROVE  /\ Row(calls[c].row.id) = calls[c].row
                      /\ plans'[calls[c].row.id].doc = calls[c].doc
    BY <1>1 DEF catalogueVars
  <2> DEFINE k == calls[c]
             i == k.row.id
  <2>1. Knows(k, written) /\ DOMAIN calls = Clients
    BY <1>1 DEF Inv, InFlight
  <2>2. \E d \in Clients : Create(d) \/ Update(d) \/ Delete(d)
    BY DEF CatalogueNext, BeginEdit, BeginDelete, BeginTrigger, BeginSave, Put, Abandon, BeginAdhoc,
           Begin, Look, Prepare, Enqueue, Settle
  <2>3. \A d \in Clients : Ends(d) => d = c
    BY <2>1 DEF Ends
  <2>4. Create(c) \/ Update(c)
    BY <2>2, <2>3 DEF Create, Update, Delete, Stage
  <2>5. /\ k.stage \in {"create", "update"} /\ Read(k.row, written) /\ k.doc \in Tags
        /\ k.expected = k.row.version /\ k \in Calls
    BY <2>1, <2>4 DEF Create, Update, Stage, Knows
  <2>6. k.stage = "update" /\ UpdatePlan(k.id, k.doc, k.expected)
    BY <2>4 DEF Create, CreatePlan, Update, Stage
  <2>7. k.id = i
    BY <2>6 DEF UpdatePlan, Fits, Free
  <2>8. i \in PlanIds /\ plans[i] # NoPlan /\ plans[i].version = k.row.version
    BY <2>5, <2>6, <2>7 DEF UpdatePlan, Fits, Named
  <2>9. plans[i].doc = k.row.doc /\ plans'[i].doc = k.doc
    BY <1>1, <2>5, <2>6, <2>7, <2>8 DEF UpdatePlan, Read, Inv, Table, Holds
  <2>10. k.row = [id |-> i, version |-> k.row.version, doc |-> k.row.doc]
    BY <2>5 DEF Calls
  <2> QED BY <2>8, <2>9, <2>10 DEF Row
<1> QED BY InvInit, InvStep, <1>1, PTL DEF CatalogueSpec, GuardedPutIsSafe

-----------------------------------------------------------------------------
(* What is parsed, rendered and parsed again.                              *)

\* Nil, which stands for a nil pointer, is neither a truth value nor a map.
NilIsFresh == Nil \notin BOOLEAN /\ \A f : Nil # [k \in DOMAIN f |-> f[k]]

Bounds == {"min", "max", "equals"}

\* A check as a plan holds it.
ParsedCheck(c) ==
  /\ c = [k \in Reserved \cup {"params"} |-> c[k]]
  /\ c.params = [k \in DOMAIN c.params |-> c.params[k]] /\ DOMAIN c.params \cap Reserved = {}
  /\ TrimSpace(c.capture) = c.capture
  /\ c.assert # Nil => c.assert = [k \in Bounds |-> c.assert[k]]
  /\ c.drift # Nil =>
       /\ c.drift = [maxDrop |-> c.drift.maxDrop, percent |-> c.drift.percent]
       /\ c.drift.percent \in BOOLEAN

LEMMA ReservedKeys ==
  /\ Reserved = {"type", "name", "timeout", "retries", "retry_interval", "critical", "proves",
                  "capture", "assert", "drift"}
  /\ "params" \notin Reserved
  BY DEF Reserved, Unstated

LEMMA AssertRoundTrip ==
  ASSUME NilIsFresh, NEW a, a # Nil => a = [k \in Bounds |-> a[k]]
  PROVE  AssertOf(AssertYAML(a)) = a
<1>1. CASE a = Nil
  BY <1>1 DEF AssertOf, AssertYAML
<1>2. CASE a # Nil
  <2> DEFINE stated == {k \in DOMAIN a : a[k] # Nil}
             text == [k \in stated |-> a[k]]
  <2>1. DOMAIN a = Bounds /\ AssertYAML(a) = text
    BY <1>2 DEF AssertYAML, Restrict
  <2>2. DOMAIN text = stated /\ \A k \in stated : text[k] = a[k]
    OBVIOUS
  <2>3. text = [k \in DOMAIN text |-> text[k]]
    OBVIOUS
  <2> HIDE DEF text
  <2>4. text # Nil
    BY <2>3 DEF NilIsFresh
  <2>5. AssertOf(text) = [k \in Bounds |-> IF k \in DOMAIN text THEN text[k] ELSE Nil]
    BY <2>4 DEF AssertOf, Bounds
  <2>6. \A k \in Bounds : (IF k \in DOMAIN text THEN text[k] ELSE Nil) = a[k]
    BY <2>1, <2>2
  <2> QED BY <1>2, <2>1, <2>5, <2>6
<1> QED BY <1>1, <1>2

LEMMA DriftRoundTrip ==
  ASSUME NilIsFresh, NEW d,
         d # Nil => d = [maxDrop |-> d.maxDrop, percent |-> d.percent] /\ d.percent \in BOOLEAN
  PROVE  DriftOf(DriftYAML(d)) = d
<1>1. CASE d = Nil
  BY <1>1 DEF DriftOf, DriftYAML
<1>2. CASE d # Nil
  <2> DEFINE drop == <<d.maxDrop, IF d.percent THEN "%" ELSE "">>
             text == [max_drop |-> drop]
  <2>1. DriftYAML(d) = text /\ text.max_drop = drop
    BY <1>2 DEF DriftYAML
  <2>2. text = [k \in DOMAIN text |-> text[k]]
    OBVIOUS
  <2>3. drop[1] = d.maxDrop /\ (drop[2] = "%") = d.percent
    BY <1>2
  <2> HIDE DEF text, drop
  <2>4. text # Nil
    BY <2>2 DEF NilIsFresh
  <2>5. DriftOf(text) = [maxDrop |-> drop[1], percent |-> drop[2] = "%"]
    BY <2>1, <2>4 DEF DriftOf
  <2> QED BY <1>2, <2>1, <2>3, <2>5
<1> QED BY <1>1, <1>2

\* A check survives the queue: what is rendered reads back as the same check.
LEMMA CheckRoundTrip ==
  ASSUME NilIsFresh, NEW c, ParsedCheck(c)
  PROVE  UnmarshalCheck(MarshalCheck(c)) = c
<1> DEFINE out == [k \in Reserved |-> c[k]]
           text == [out EXCEPT !.assert = AssertYAML(@), !.drift = DriftYAML(@)]
           stated == {"type"} \cup {k \in Reserved : text[k] # Unstated[k]}
           doc == Over(Restrict(text, stated), c.params)
           head == [k \in Reserved |-> IF k \in DOMAIN doc THEN doc[k] ELSE Unstated[k]]
           typed == [head EXCEPT !.capture = TrimSpace(@), !.assert = AssertOf(@), !.drift = DriftOf(@)]
           params == Restrict(doc, DOMAIN doc \ Reserved)
<1>1. MarshalCheck(c) = doc
  BY DEF MarshalCheck
<1>2. UnmarshalCheck(doc) = Over(typed, [params |-> params])
  BY DEF UnmarshalCheck
<1>3. /\ text = [k \in Reserved |-> text[k]]
      /\ text.assert = AssertYAML(c.assert) /\ text.drift = DriftYAML(c.drift)
      /\ \A k \in Reserved : k \notin {"assert", "drift"} => text[k] = c[k]
  BY ReservedKeys
<1>4. stated \subseteq Reserved /\ \A k \in Reserved \ stated : text[k] = Unstated[k]
  BY ReservedKeys
<1> HIDE DEF out, text, stated
<1>5. /\ DOMAIN doc = stated \cup DOMAIN c.params
      /\ \A k \in stated : doc[k] = text[k]
      /\ \A k \in DOMAIN c.params : k \notin stated => doc[k] = c.params[k]
  BY DEF Over, Restrict
<1> HIDE DEF doc
<1>6. DOMAIN c.params \cap Reserved = {} /\ c.params = [k \in DOMAIN c.params |-> c.params[k]]
  BY DEF ParsedCheck
<1>7. \A k \in Reserved : head[k] = text[k]
  BY <1>4, <1>5, <1>6
<1>8. DOMAIN doc \ Reserved = DOMAIN c.params
  BY <1>4, <1>5, <1>6
<1>9. params = c.params
  <2>1. \A k \in DOMAIN c.params : doc[k] = c.params[k]
    BY <1>4, <1>5, <1>6
  <2> QED BY <1>6, <1>8, <2>1 DEF Restrict
<1>10. DOMAIN head = Reserved
  OBVIOUS
<1> HIDE DEF head, params
<1>11. /\ DOMAIN typed = Reserved
       /\ typed.capture = TrimSpace(head.capture)
       /\ typed.assert = AssertOf(head.assert) /\ typed.drift = DriftOf(head.drift)
       /\ \A k \in Reserved : k \notin {"capture", "assert", "drift"} => typed[k] = head[k]
  <2> DEFINE h1 == [head EXCEPT !.capture = TrimSpace(head.capture)]
             h2 == [h1 EXCEPT !.assert = AssertOf(h1.assert)]
             h3 == [h2 EXCEPT !.drift = DriftOf(h2.drift)]
  <2>1. /\ DOMAIN h1 = Reserved /\ h1.capture = TrimSpace(head.capture)
        /\ \A k \in Reserved : k # "capture" => h1[k] = head[k]
    BY <1>10, ReservedKeys
  <2>t. typed = h3
    OBVIOUS
  <2> HIDE DEF h1, typed
  <2>2. /\ DOMAIN h2 = Reserved /\ h2.assert = AssertOf(h1.assert)
        /\ \A k \in Reserved : k # "assert" => h2[k] = h1[k]
    BY <2>1, ReservedKeys
  <2> HIDE DEF h2
  <2>3. /\ DOMAIN h3 = Reserved /\ h3.drift = DriftOf(h2.drift)
        /\ \A k \in Reserved : k # "drift" => h3[k] = h2[k]
    BY <2>2, ReservedKeys
  <2> HIDE DEF h3
  <2> QED BY <2>1, <2>2, <2>3, <2>t, ReservedKeys
<1> HIDE DEF typed
<1>12. \A k \in Reserved : typed[k] = c[k]
  <2>1. typed.assert = c.assert
    BY <1>3, <1>7, <1>11, AssertRoundTrip, ReservedKeys DEF ParsedCheck
  <2>2. typed.drift = c.drift
    BY <1>3, <1>7, <1>11, DriftRoundTrip, ReservedKeys DEF ParsedCheck
  <2>3. typed.capture = c.capture
    BY <1>3, <1>7, <1>11, ReservedKeys DEF ParsedCheck
  <2>4. \A k \in Reserved : k \notin {"capture", "assert", "drift"} => typed[k] = c[k]
    BY <1>3, <1>7, <1>11
  <2> QED BY <2>1, <2>2, <2>3, <2>4
<1>13. Over(typed, [params |-> params]) = [k \in Reserved \cup {"params"} |-> c[k]]
  BY <1>9, <1>11, <1>12, ReservedKeys DEF Over
<1> QED BY <1>1, <1>2, <1>13 DEF ParsedCheck

\* Whatever a document says, a check that was read is one a plan can hold.
LEMMA UnmarshalMakesCheck ==
  ASSUME NEW doc
  PROVE  ParsedCheck(UnmarshalCheck(doc))
<1> DEFINE head == [k \in Reserved |-> IF k \in DOMAIN doc THEN doc[k] ELSE Unstated[k]]
           h1 == [head EXCEPT !.capture = TrimSpace(head.capture)]
           h2 == [h1 EXCEPT !.assert = AssertOf(h1.assert)]
           h3 == [h2 EXCEPT !.drift = DriftOf(h2.drift)]
           params == Restrict(doc, DOMAIN doc \ Reserved)
           c == Over(h3, [params |-> params])
<1>1. UnmarshalCheck(doc) = c
  BY DEF UnmarshalCheck
<1>2. params = [k \in DOMAIN params |-> params[k]] /\ DOMAIN params \cap Reserved = {}
  BY DEF Restrict
<1>3. DOMAIN h1 = Reserved /\ h1.capture = TrimSpace(head.capture)
  BY ReservedKeys
<1> HIDE DEF h1, params, head
<1>4. DOMAIN h2 = Reserved /\ h2.assert = AssertOf(h1.assert) /\ h2.capture = h1.capture
  BY <1>3, ReservedKeys
<1> HIDE DEF h2
<1>5. /\ DOMAIN h3 = Reserved /\ h3.drift = DriftOf(h2.drift) /\ h3.capture = h2.capture
      /\ h3.assert = h2.assert
  BY <1>4, ReservedKeys
<1> HIDE DEF h3
<1>6. /\ c = [k \in Reserved \cup {"params"} |-> c[k]] /\ c.params = params
      /\ \A k \in Reserved : c[k] = h3[k]
  BY <1>5, ReservedKeys DEF Over
<1> HIDE DEF c
<1>7. c.capture = TrimSpace(head.capture) /\ c.assert = AssertOf(h1.assert) /\ c.drift = DriftOf(h2.drift)
  BY <1>3, <1>4, <1>5, <1>6, ReservedKeys
<1>8. TrimSpace(c.capture) = c.capture
  BY <1>7 DEF TrimSpace
<1>9. c.assert # Nil => c.assert = [k \in Bounds |-> c.assert[k]]
  <2> DEFINE a == h1.assert
             b == [k \in {"min", "max", "equals"} |-> IF k \in DOMAIN a THEN a[k] ELSE Nil]
  <2>1. c.assert # Nil => c.assert = b
    BY <1>7 DEF AssertOf
  <2>2. b = [k \in Bounds |-> b[k]]
    BY DEF Bounds
  <2> HIDE DEF b
  <2> QED BY <2>1, <2>2
<1>10. c.drift # Nil =>
         /\ c.drift = [maxDrop |-> c.drift.maxDrop, percent |-> c.drift.percent]
         /\ c.drift.percent \in BOOLEAN
  <2> DEFINE drop == h2.drift.max_drop[1]
             sign == h2.drift.max_drop[2] = "%"
  <2>1. c.drift # Nil => c.drift = [maxDrop |-> drop, percent |-> sign]
    BY <1>7 DEF DriftOf
  <2>2. sign \in BOOLEAN
    OBVIOUS
  <2> HIDE DEF drop, sign
  <2>3. ASSUME NEW d, d = [maxDrop |-> drop, percent |-> sign]
        PROVE  d = [maxDrop |-> d.maxDrop, percent |-> d.percent] /\ d.percent \in BOOLEAN
    BY <2>2, <2>3
  <2> QED BY <2>1, <2>3
<1> QED BY <1>1, <1>2, <1>6, <1>8, <1>9, <1>10 DEF ParsedCheck

\* The timeout and the retries are fields like any other.
LEMMA EditedCheck ==
  ASSUME NEW c, ParsedCheck(c), NEW n, NEW key \in {"timeout", "retries", "retry_interval"},
         NEW d, d = [c EXCEPT ![key] = n]
  PROVE  /\ ParsedCheck(d) /\ d[key] = n
         /\ \A k \in Reserved : k # key => d[k] = c[k]
         /\ c[key] = n => d = c
<1>0. DOMAIN c = Reserved \cup {"params"}
  BY DEF ParsedCheck
<1>1. /\ d = [k \in Reserved \cup {"params"} |-> d[k]] /\ d[key] = n
      /\ \A k \in Reserved \cup {"params"} : k # key => d[k] = c[k]
  BY <1>0, ReservedKeys
<1>2. d.params = c.params /\ d.capture = c.capture /\ d.assert = c.assert /\ d.drift = c.drift
  BY <1>1, ReservedKeys
<1>3. ParsedCheck(d)
  BY <1>1, <1>2 DEF ParsedCheck
<1>4. c[key] = n => d = c
  <2>1. c = [k \in Reserved \cup {"params"} |-> c[k]]
    BY DEF ParsedCheck
  <2> QED BY <1>1, <2>1
<1> QED BY <1>1, <1>3, <1>4

\* The defaults of a check are two such fields.
LEMMA DefaultsOfCheck ==
  ASSUME NEW c, ParsedCheck(c)
  PROVE  /\ ParsedCheck(CheckDefaults(c))
         /\ CheckDefaults(c).timeout # 0 /\ CheckDefaults(c).retry_interval # 0
         /\ c.timeout # 0 /\ c.retry_interval # 0 => CheckDefaults(c) = c
<1> DEFINE n == Or(c.timeout, 0, 30)
           m == Or(c.retry_interval, 0, 5)
           d == [c EXCEPT !["timeout"] = n]
           e == [d EXCEPT !["retry_interval"] = m]
<1>1. CheckDefaults(c) = e
  <2>1. DOMAIN c = Reserved \cup {"params"}
    BY DEF ParsedCheck
  <2>2. d.retry_interval = c.retry_interval
    BY <2>1, ReservedKeys
  <2> QED BY <2>2 DEF CheckDefaults
<1>2. /\ n # 0 /\ m # 0
      /\ c.timeout # 0 => c.timeout = n
      /\ c.retry_interval # 0 => c.retry_interval = m
  BY DEF Or
<1> HIDE DEF n, m
<1>3. /\ ParsedCheck(d) /\ d.timeout = n /\ d.retry_interval = c.retry_interval
      /\ c.timeout = n => d = c
  BY EditedCheck, ReservedKeys
<1> HIDE DEF d
<1>4. /\ ParsedCheck(e) /\ e.retry_interval = m /\ e.timeout = d.timeout
      /\ d.retry_interval = m => e = d
  BY <1>3, EditedCheck, ReservedKeys
<1> QED BY <1>1, <1>2, <1>3, <1>4

PlanKeys == DOMAIN Blank

LEMMA PlanKeysAre ==
  PlanKeys = {"name", "workload", "provider", "strategy", "backup", "network", "timeout", "skip",
              "ip", "waitForIP", "waitForAgent", "always", "schedule", "timezone", "checks"}
  BY DEF PlanKeys, Blank

Checked(p) ==
  /\ p.checks = [i \in DOMAIN p.checks |-> p.checks[i]]
  /\ \A i \in DOMAIN p.checks : ParsedCheck(p.checks[i])

\* A plan nothing is left to default in.
Complete(p) ==
  /\ p.strategy # "" /\ p.network # "" /\ p.timeout # 0
  /\ p.waitForIP # Nil /\ p.waitForAgent # Nil /\ p.always # Nil
  /\ \A i \in DOMAIN p.checks : p.checks[i].timeout # 0 /\ p.checks[i].retry_interval # 0

\* ApplyDefaults, field by field.
Defaulted == {"strategy", "network", "timeout", "waitForIP", "waitForAgent", "always", "checks"}

DefaultOf(p, q) ==
  /\ q = [k \in PlanKeys |-> q[k]]
  /\ q.strategy = Or(p.strategy, "", "latest") /\ q.network = Or(p.network, "", "isolated")
  /\ q.timeout = Or(p.timeout, 0, 60)
  /\ q.waitForIP = Or(p.waitForIP, Nil, ~p.skip /\ p.ip = "" /\ NeedsNetwork(p))
  /\ q.waitForAgent = Or(p.waitForAgent, Nil, ~p.skip /\ NeedsGuestAgent(p))
  /\ q.always = Or(p.always, Nil, TRUE)
  /\ q.checks = [i \in DOMAIN p.checks |-> CheckDefaults(p.checks[i])]
  /\ \A k \in PlanKeys \ Defaulted : q[k] = p[k]

\* One field written.
LEMMA FieldWritten ==
  ASSUME NEW p, DOMAIN p = PlanKeys, NEW key \in PlanKeys, NEW v, NEW q, q = [p EXCEPT ![key] = v]
  PROVE  /\ DOMAIN q = PlanKeys /\ q = [k \in PlanKeys |-> q[k]] /\ q[key] = v
         /\ \A k \in PlanKeys : k # key => q[k] = p[k]
  OBVIOUS

LEMMA DefaultsByField ==
  ASSUME NEW p, p = [k \in PlanKeys |-> p[k]]
  PROVE  DefaultOf(p, ApplyDefaults(p))
<1> DEFINE ip == Or(p.waitForIP, Nil, ~p.skip /\ p.ip = "" /\ NeedsNetwork(p))
           agent == Or(p.waitForAgent, Nil, ~p.skip /\ NeedsGuestAgent(p))
           checks == [i \in DOMAIN p.checks |-> CheckDefaults(p.checks[i])]
           d1 == [p EXCEPT !.strategy = Or(p.strategy, "", "latest")]
           d2 == [d1 EXCEPT !.network = Or(p.network, "", "isolated")]
           d3 == [d2 EXCEPT !.timeout = Or(p.timeout, 0, 60)]
           d4 == [d3 EXCEPT !.waitForIP = ip]
           d5 == [d4 EXCEPT !.waitForAgent = agent]
           d6 == [d5 EXCEPT !.always = Or(p.always, Nil, TRUE)]
           d7 == [d6 EXCEPT !.checks = checks]
<1>0. ApplyDefaults(p) = d7
  <2> DEFINE e2 == [d1 EXCEPT !.network = Or(@, "", "isolated")]
             e3 == [e2 EXCEPT !.timeout = Or(@, 0, 60)]
             e4 == [e3 EXCEPT !.waitForIP = Or(@, Nil, ~p.skip /\ p.ip = "" /\ NeedsNetwork(p))]
             e5 == [e4 EXCEPT !.waitForAgent = Or(@, Nil, ~p.skip /\ NeedsGuestAgent(p))]
             e6 == [e5 EXCEPT !.always = Or(@, Nil, TRUE)]
             e7 == [e6 EXCEPT !.checks = [i \in DOMAIN @ |-> CheckDefaults(@[i])]]
  <2>1. ApplyDefaults(p) = e7
    BY DEF ApplyDefaults
  <2> QED BY <2>1
<1>k. /\ "strategy" \in PlanKeys /\ "network" \in PlanKeys /\ "timeout" \in PlanKeys
      /\ "waitForIP" \in PlanKeys /\ "waitForAgent" \in PlanKeys /\ "always" \in PlanKeys
      /\ "checks" \in PlanKeys
  BY PlanKeysAre
<1> HIDE DEF ip, agent, checks
<1>1. DOMAIN d1 = PlanKeys /\ d1.strategy = Or(p.strategy, "", "latest")
      /\ \A k \in PlanKeys : k # "strategy" => d1[k] = p[k]
  BY <1>k, FieldWritten
<1> HIDE DEF d1
<1>2. DOMAIN d2 = PlanKeys /\ d2.network = Or(p.network, "", "isolated")
      /\ \A k \in PlanKeys : k # "network" => d2[k] = d1[k]
  BY <1>1, <1>k, FieldWritten
<1> HIDE DEF d2
<1>3. DOMAIN d3 = PlanKeys /\ d3.timeout = Or(p.timeout, 0, 60)
      /\ \A k \in PlanKeys : k # "timeout" => d3[k] = d2[k]
  BY <1>2, <1>k, FieldWritten
<1> HIDE DEF d3
<1>4. DOMAIN d4 = PlanKeys /\ d4.waitForIP = ip /\ \A k \in PlanKeys : k # "waitForIP" => d4[k] = d3[k]
  BY <1>3, <1>k, FieldWritten
<1> HIDE DEF d4
<1>5. DOMAIN d5 = PlanKeys /\ d5.waitForAgent = agent
      /\ \A k \in PlanKeys : k # "waitForAgent" => d5[k] = d4[k]
  BY <1>4, <1>k, FieldWritten
<1> HIDE DEF d5
<1>6. DOMAIN d6 = PlanKeys /\ d6.always = Or(p.always, Nil, TRUE)
      /\ \A k \in PlanKeys : k # "always" => d6[k] = d5[k]
  BY <1>5, <1>k, FieldWritten
<1> HIDE DEF d6
<1>7. d7 = [k \in PlanKeys |-> d7[k]] /\ d7.checks = checks
      /\ \A k \in PlanKeys : k # "checks" => d7[k] = d6[k]
  BY <1>6, <1>k, FieldWritten
<1> HIDE DEF d7
<1>c. ASSUME NEW k \in PlanKeys
      PROVE  /\ k # "strategy" => d1[k] = p[k]
             /\ k # "network" => d2[k] = d1[k]
             /\ k # "timeout" => d3[k] = d2[k]
             /\ k # "waitForIP" => d4[k] = d3[k]
             /\ k # "waitForAgent" => d5[k] = d4[k]
             /\ k # "always" => d6[k] = d5[k]
             /\ k # "checks" => d7[k] = d6[k]
  <2>1. (k # "strategy" => d1[k] = p[k]) /\ (k # "network" => d2[k] = d1[k])
    BY <1>1, <1>2
  <2>2. (k # "timeout" => d3[k] = d2[k]) /\ (k # "waitForIP" => d4[k] = d3[k])
    BY <1>3, <1>4
  <2>3. (k # "waitForAgent" => d5[k] = d4[k]) /\ (k # "always" => d6[k] = d5[k])
    BY <1>5, <1>6
  <2>4. k # "checks" => d7[k] = d6[k]
    BY <1>7
  <2> QED BY <2>1, <2>2, <2>3, <2>4
<1>8. /\ d7.strategy = d1.strategy /\ d7.network = d2.network /\ d7.timeout = d3.timeout
      /\ d7.waitForIP = d4.waitForIP /\ d7.waitForAgent = d5.waitForAgent /\ d7.always = d6.always
  <2>1. ASSUME NEW k \in PlanKeys
        PROVE  /\ k # "checks" => d7[k] = d6[k]
               /\ k \notin {"checks", "always"} => d7[k] = d5[k]
               /\ k \notin {"checks", "always", "waitForAgent"} => d7[k] = d4[k]
               /\ k \notin {"checks", "always", "waitForAgent", "waitForIP"} => d7[k] = d3[k]
               /\ k \notin {"checks", "always", "waitForAgent", "waitForIP", "timeout"} => d7[k] = d2[k]
               /\ k \notin Defaulted \ {"strategy"} => d7[k] = d1[k]
    BY <1>c DEF Defaulted
  <2>2. d7.strategy = d1.strategy
    BY <1>k, <2>1 DEF Defaulted
  <2>3. d7.network = d2.network
    BY <1>k, <2>1
  <2>4. d7.timeout = d3.timeout
    BY <1>k, <2>1
  <2>5. d7.waitForIP = d4.waitForIP /\ d7.waitForAgent = d5.waitForAgent /\ d7.always = d6.always
    BY <1>k, <2>1
  <2> QED BY <2>2, <2>3, <2>4, <2>5
<1>9. \A k \in PlanKeys \ Defaulted : d7[k] = p[k]
  <2> SUFFICES ASSUME NEW k \in PlanKeys, k \notin Defaulted PROVE d7[k] = p[k]
    OBVIOUS
  <2>1. /\ k # "strategy" /\ k # "network" /\ k # "timeout" /\ k # "waitForIP"
        /\ k # "waitForAgent" /\ k # "always" /\ k # "checks"
    BY DEF Defaulted
  <2> QED BY <1>c, <2>1
<1>10. /\ d7.strategy = Or(p.strategy, "", "latest") /\ d7.network = Or(p.network, "", "isolated")
       /\ d7.timeout = Or(p.timeout, 0, 60) /\ d7.waitForIP = ip /\ d7.waitForAgent = agent
       /\ d7.always = Or(p.always, Nil, TRUE) /\ d7.checks = checks
  BY <1>1, <1>2, <1>3, <1>4, <1>5, <1>6, <1>7, <1>8
<1>11. DefaultOf(p, d7)
  BY <1>7, <1>9, <1>10, Zenon DEF DefaultOf, ip, agent, checks
<1> QED BY <1>0, <1>11

\* Defaults complete a plan, and a complete plan has none to apply.
LEMMA DefaultsComplete ==
  ASSUME NilIsFresh, NEW p, p = [k \in PlanKeys |-> p[k]], Checked(p), NEW q, DefaultOf(p, q)
  PROVE  /\ q = [k \in PlanKeys |-> q[k]] /\ Checked(q) /\ Complete(q)
         /\ Complete(p) => q = p
<1>1. /\ q = [k \in PlanKeys |-> q[k]]
      /\ q.strategy = Or(p.strategy, "", "latest") /\ q.network = Or(p.network, "", "isolated")
      /\ q.timeout = Or(p.timeout, 0, 60)
      /\ q.waitForIP = Or(p.waitForIP, Nil, ~p.skip /\ p.ip = "" /\ NeedsNetwork(p))
      /\ q.waitForAgent = Or(p.waitForAgent, Nil, ~p.skip /\ NeedsGuestAgent(p))
      /\ q.always = Or(p.always, Nil, TRUE)
  BY DEF DefaultOf
<1>2. q.checks = [i \in DOMAIN p.checks |-> CheckDefaults(p.checks[i])]
  BY DEF DefaultOf
<1>3. \A k \in PlanKeys \ Defaulted : q[k] = p[k]
  BY DEF DefaultOf
<1>4. ASSUME NEW i \in DOMAIN p.checks
      PROVE  /\ ParsedCheck(q.checks[i])
             /\ q.checks[i].timeout # 0 /\ q.checks[i].retry_interval # 0
             /\ p.checks[i].timeout # 0 /\ p.checks[i].retry_interval # 0 => q.checks[i] = p.checks[i]
  <2>1. q.checks[i] = CheckDefaults(p.checks[i]) /\ ParsedCheck(p.checks[i])
    BY <1>2 DEF Checked
  <2> QED BY <2>1, DefaultsOfCheck
<1>5. DOMAIN q.checks = DOMAIN p.checks /\ q.checks = [i \in DOMAIN q.checks |-> q.checks[i]]
  <2>1. ASSUME NEW s, NEW t, t = [i \in DOMAIN s |-> CheckDefaults(s[i])]
        PROVE  DOMAIN t = DOMAIN s /\ t = [i \in DOMAIN t |-> t[i]]
    BY <2>1
  <2> QED BY <1>2, <2>1
<1>6. /\ Checked(q)
      /\ \A i \in DOMAIN q.checks : q.checks[i].timeout # 0 /\ q.checks[i].retry_interval # 0
  BY <1>4, <1>5 DEF Checked
<1>7. q.waitForIP # Nil /\ q.waitForAgent # Nil /\ q.always # Nil
  <2>1. /\ (~p.skip /\ p.ip = "" /\ NeedsNetwork(p)) \in BOOLEAN
        /\ (~p.skip /\ NeedsGuestAgent(p)) \in BOOLEAN
    OBVIOUS
  <2>2. Nil # TRUE /\ Nil # FALSE
    BY DEF NilIsFresh
  <2>3. ASSUME NEW v, NEW b \in BOOLEAN PROVE Or(v, Nil, b) # Nil
    BY <2>2 DEF Or
  <2>4. q.always # Nil
    BY <1>1, <2>3
  <2> QED BY <1>1, <2>1, <2>3, <2>4
<1>8. q.strategy # "" /\ q.network # "" /\ q.timeout # 0
  <2>1. "latest" # "" /\ "isolated" # "" /\ 60 # 0
    OBVIOUS
  <2> QED BY <1>1, <2>1 DEF Or
<1>9. Complete(q)
  BY <1>6, <1>7, <1>8 DEF Complete
<1>10. ASSUME Complete(p) PROVE q = p
  <2>1. q.checks = p.checks
    BY <1>4, <1>5, <1>10 DEF Complete, Checked
  <2>2. /\ q.strategy = p.strategy /\ q.network = p.network /\ q.timeout = p.timeout
        /\ q.waitForIP = p.waitForIP /\ q.waitForAgent = p.waitForAgent /\ q.always = p.always
    BY <1>1, <1>10 DEF Complete, Or
  <2>3. \A k \in PlanKeys : q[k] = p[k]
    BY <1>3, <2>1, <2>2 DEF Defaulted
  <2> QED BY <1>1, <2>3
<1> QED BY <1>1, <1>6, <1>9, <1>10

\* The text of a complete and valid plan parses into that plan.
LEMMA PlanRoundTrip ==
  ASSUME NilIsFresh, NEW p, p = [k \in PlanKeys |-> p[k]], Checked(p), Complete(p), Validate(p)
  PROVE  Parse(Marshal(p)) = p
<1> DEFINE texts == [i \in DOMAIN p.checks |-> MarshalCheck(p.checks[i])]
           doc == [p EXCEPT !.checks = texts]
           again == [i \in DOMAIN texts |-> UnmarshalCheck(texts[i])]
<1>1. Marshal(p) = doc
  BY DEF Marshal
<1>2. doc.checks = texts /\ [doc EXCEPT !.checks = again] = [p EXCEPT !.checks = again]
  BY PlanKeysAre
<1>3. again = p.checks
  <2>1. \A i \in DOMAIN p.checks : UnmarshalCheck(MarshalCheck(p.checks[i])) = p.checks[i]
    BY CheckRoundTrip DEF Checked
  <2>2. DOMAIN texts = DOMAIN p.checks /\ \A i \in DOMAIN p.checks : texts[i] = MarshalCheck(p.checks[i])
    OBVIOUS
  <2> HIDE DEF texts
  <2> QED BY <2>1, <2>2 DEF Checked
<1>4. Decode(doc) = [doc EXCEPT !.checks = [i \in DOMAIN doc.checks |-> UnmarshalCheck(doc.checks[i])]]
  BY DEF Decode
<1>5. Decode(doc) = p
  <2> HIDE DEF doc, texts
  <2>1. Decode(doc) = [p EXCEPT !.checks = p.checks]
    BY <1>2, <1>3, <1>4
  <2>2. [p EXCEPT !.checks = p.checks] = p
    OBVIOUS
  <2> QED BY <2>1, <2>2
<1>6. ApplyDefaults(p) = p
  BY DefaultsByField, DefaultsComplete
<1> QED BY <1>1, <1>5, <1>6 DEF Parse

\* The shorthands of an ad-hoc drill carry no key the text of a check keeps
\* for itself.
ShorthandsSurvive ==
  \A o \in DOMAIN Adhoc : \A i \in DOMAIN Adhoc[o].checks :
    LET params == Adhoc[o].checks[i].params
    IN  params = [k \in DOMAIN params |-> params[k]] /\ DOMAIN params \cap Reserved = {}

LEMMA SpecMakesCheck ==
  ASSUME NEW spec, spec.params = [k \in DOMAIN spec.params |-> spec.params[k]],
         DOMAIN spec.params \cap Reserved = {}
  PROVE  ParsedCheck([ParseCheckSpec(spec) EXCEPT !.retries = 5, !.retry_interval = 5, !.timeout = 15])
<1> DEFINE head == [Unstated EXCEPT !.type = spec.type]
           c == Over(head, [params |-> spec.params])
           d == [c EXCEPT !["retries"] = 5]
           f == [d EXCEPT !["retry_interval"] = 5]
           g == [f EXCEPT !["timeout"] = 15]
<1>1. /\ DOMAIN head = Reserved /\ head.capture = "" /\ head.assert = Nil /\ head.drift = Nil
  BY DEF Reserved, Unstated
<1>2. ParseCheckSpec(spec) = c
  BY DEF ParseCheckSpec
<1> HIDE DEF head
<1>3. /\ c = [k \in Reserved \cup {"params"} |-> c[k]] /\ c.params = spec.params
      /\ \A k \in Reserved : c[k] = head[k]
  BY <1>1, ReservedKeys DEF Over
<1> HIDE DEF c
<1>4. c.capture = "" /\ c.assert = Nil /\ c.drift = Nil
  BY <1>1, <1>3, ReservedKeys
<1>5. ParsedCheck(c)
  BY <1>3, <1>4 DEF ParsedCheck, TrimSpace
<1>6. [c EXCEPT !.retries = 5, !.retry_interval = 5, !.timeout = 15] = g
  OBVIOUS
<1>7. ParsedCheck(d)
  BY <1>5, EditedCheck
<1> HIDE DEF d
<1>8. ParsedCheck(f)
  BY <1>7, EditedCheck
<1> HIDE DEF f
<1>9. ParsedCheck(g)
  BY <1>8, EditedCheck
<1> QED BY <1>2, <1>6, <1>9

(***************************************************************************)
(* A plan survives the queue: what any accepted document parses into,      *)
(* rendered into a run's snapshot and parsed again by the worker, is the   *)
(* same plan, defaults, params, bounds and tolerances included (plan.Parse,*)
(* CheckSpec.MarshalYAML and UnmarshalYAML).                               *)
(***************************************************************************)
THEOREM DocumentSurvives ==
  ASSUME NilIsFresh, NEW doc, doc = [k \in PlanKeys |-> doc[k]], Parse(doc) # Nil
  PROVE  Parse(Marshal(Parse(doc))) = Parse(doc)
<1> DEFINE checks == [i \in DOMAIN doc.checks |-> UnmarshalCheck(doc.checks[i])]
           p == [doc EXCEPT !.checks = checks]
           q == ApplyDefaults(p)
<1>1. Decode(doc) = p
  BY DEF Decode
<1>2. Validate(q) /\ Parse(doc) = q
  BY <1>1 DEF Parse
<1>3. p = [k \in PlanKeys |-> p[k]] /\ p.checks = checks
  BY PlanKeysAre
<1>4. checks = [i \in DOMAIN checks |-> checks[i]] /\ \A i \in DOMAIN checks : ParsedCheck(checks[i])
  BY UnmarshalMakesCheck
<1> HIDE DEF checks, p
<1>5. Checked(p)
  BY <1>3, <1>4 DEF Checked
<1>6. q = [k \in PlanKeys |-> q[k]] /\ Checked(q) /\ Complete(q)
  BY <1>3, <1>5, DefaultsByField, DefaultsComplete
<1> HIDE DEF q
<1> QED BY <1>2, <1>6, PlanRoundTrip

LEMMA AdhocSurvives ==
  ASSUME NilIsFresh, ShorthandsSurvive, NEW t \in DOMAIN Adhoc, AdhocPlan(Adhoc[t]) # Nil
  PROVE  Parse(Marshal(AdhocPlan(Adhoc[t]))) = AdhocPlan(Adhoc[t])
<1> DEFINE o == Adhoc[t]
           specs == IF o.skip THEN <<>> ELSE IF o.checks = <<>> THEN <<DefaultCheck>> ELSE o.checks
           checks == [i \in DOMAIN specs |-> [ParseCheckSpec(specs[i]) EXCEPT !.retries = 5, !.retry_interval = 5,
                                                                        !.timeout = 15]]
           p1 == [Blank EXCEPT !.name = "adhoc"]
           p2 == [p1 EXCEPT !.workload = o.workload]
           p3 == [p2 EXCEPT !.provider = o.provider]
           p4 == [p3 EXCEPT !.strategy = IF o.backup \in {"", "latest"} THEN "latest" ELSE "specific"]
           p5 == [p4 EXCEPT !.backup = IF o.backup = "latest" THEN "" ELSE o.backup]
           p6 == [p5 EXCEPT !.skip = o.skip]
           p == [p6 EXCEPT !.checks = checks]
           q == ApplyDefaults(p)
<1>1. Validate(q) /\ AdhocPlan(o) = q
  BY DEF AdhocPlan
<1>2. \A i \in DOMAIN specs :
        /\ specs[i].params = [k \in DOMAIN specs[i].params |-> specs[i].params[k]]
        /\ DOMAIN specs[i].params \cap Reserved = {}
  <2>1. CASE specs = <<>>
    BY <2>1
  <2>2. CASE specs = <<DefaultCheck>>
    <3>1. DefaultCheck.params = [run |-> [program |-> "hostname", chained |-> FALSE]]
      BY DEF DefaultCheck
    <3>2. \A i \in DOMAIN specs : specs[i] = DefaultCheck
      BY <2>2
    <3>3. ASSUME NEW v, NEW r, r = [run |-> v]
          PROVE  r = [k \in DOMAIN r |-> r[k]] /\ DOMAIN r \cap Reserved = {}
      BY <3>3, ReservedKeys
    <3> HIDE DEF specs
    <3> QED BY <3>1, <3>2, <3>3
  <2>3. CASE specs = o.checks
    BY <2>3 DEF ShorthandsSurvive
  <2> QED BY <2>1, <2>2, <2>3
<1>3. checks = [i \in DOMAIN checks |-> checks[i]] /\ \A i \in DOMAIN checks : ParsedCheck(checks[i])
  <2> HIDE DEF specs
  <2> QED BY <1>2, SpecMakesCheck
<1> HIDE DEF specs, checks
<1>4. DOMAIN p6 = PlanKeys
  BY DEF PlanKeys
<1> HIDE DEF p6
<1>5. p = [k \in PlanKeys |-> p[k]] /\ p.checks = checks
  BY <1>4, PlanKeysAre
<1> HIDE DEF p
<1>6. Checked(p)
  BY <1>3, <1>5 DEF Checked
<1>7. q = [k \in PlanKeys |-> q[k]] /\ Checked(q) /\ Complete(q)
  BY <1>5, <1>6, DefaultsByField, DefaultsComplete
<1> HIDE DEF q
<1> QED BY <1>1, <1>7, PlanRoundTrip

\* What a worker parses out of a snapshot is the plan that was rendered.
LEMMA SnapshotIsPlan ==
  ASSUME NilIsFresh, ShorthandsSurvive, NEW d \in DOMAIN Parsed, Parsed[d] # Nil
  PROVE  Marshal(Parsed[d]) \in Snapshots /\ Executed[Marshal(Parsed[d])] = Parsed[d]
<1>1. Marshal(Parsed[d]) \in Snapshots
  BY DEF Snapshots
<1>2. Executed[Marshal(Parsed[d])] = Parse(Marshal(Parsed[d]))
  BY <1>1 DEF Executed
<1>3. CASE d \in Tags
  <2>1. Parsed[d] = Parse(Documents[d])
    BY <1>3 DEF Parsed
  <2> QED BY <1>1, <1>2, <1>3, <2>1, DocumentSurvives, DocumentsAssumption DEF PlanKeys
<1>4. CASE d \notin Tags
  <2>1. Parsed[d] = AdhocPlan(Adhoc[d]) /\ d \in DOMAIN Adhoc
    BY <1>4 DEF Parsed
  <2> QED BY <1>1, <1>2, <2>1, AdhocSurvives
<1> QED BY <1>3, <1>4

-----------------------------------------------------------------------------
(* The runs, and where they come from.                                     *)

Runs ==
  [plan : 0 .. MaxPlans, from : 0 .. MaxPlans, version : Nat, active : BOOLEAN, snapshot : Snapshots]

\* The document an id carried at a version: what is written stays.
Carried(i, v, d, W) == i \in PlanIds /\ v \in 1 .. Len(W[i]) /\ d = W[i][v]

\* What a trigger knows of the plan it is about to queue.
Traced(k, W) ==
  k.op = "trigger" =>
    /\ k.doc \in DOMAIN Parsed /\ Parsed[k.doc] # Nil
    /\ k.row.id = 0 => k.doc \in DOMAIN Adhoc /\ k.row.version = 0
    /\ k.row.id # 0 => Carried(k.row.id, k.row.version, k.doc, W)

\* A run is the rendering of the plan its row names, which it is linked to
\* while the plan is there.
RunOf(run, d, P, W) ==
  /\ d \in DOMAIN Parsed /\ Parsed[d] # Nil /\ run.snapshot = Marshal(Parsed[d])
  /\ run.from = 0 => d \in DOMAIN Adhoc /\ run.version = 0 /\ run.plan = 0
  /\ run.from # 0 =>
       /\ Carried(run.from, run.version, d, W)
       /\ run.plan = IF P[run.from] = NoPlan THEN 0 ELSE run.from

Triggers == \A c \in Clients : Traced(calls[c], written)
Queue == queued \in Seq(Runs) /\ \A r \in DOMAIN queued : \E d : RunOf(queued[r], d, plans, written)

ProvInv == Inv /\ Triggers /\ Queue

\* A plan that is there stays, and one that is gone does not come back.
Stays == \A i \in PlanIds : written[i] # <<>> => (plans'[i] = NoPlan <=> plans[i] = NoPlan)

LEMMA CarriedStays ==
  ASSUME Inv, Table', Grows, NEW i, NEW v, NEW d, Carried(i, v, d, written)
  PROVE  Carried(i, v, d, written') /\ written[i] # <<>>
<1>1. i \in PlanIds /\ written[i] \in Seq(Tags) /\ written'[i] \in Seq(Tags)
  BY DEF Carried, Inv, Table
<1>2. written[i] # <<>>
  BY <1>1, EmptySeq DEF Carried
<1>3. /\ Len(written[i]) \in Nat /\ Len(written'[i]) \in Nat /\ Len(written[i]) <= Len(written'[i])
      /\ \A w \in 1 .. Len(written[i]) : written'[i][w] = written[i][w]
  BY <1>1, <1>2, LenProperties DEF Grows, GrowsTo
<1> QED BY <1>1, <1>2, <1>3 DEF Carried

LEMMA TracedStays ==
  ASSUME Inv, Table', Grows, NEW k, Traced(k, written)
  PROVE  Traced(k, written')
  BY CarriedStays DEF Traced

\* The runs already there, when no plan goes away.
LEMMA RunStays ==
  ASSUME Inv, Table', Grows, Stays, NEW run, NEW d, RunOf(run, d, plans, written)
  PROVE  RunOf(run, d, plans', written')
<1>1. CASE run.from = 0
  BY <1>1 DEF RunOf
<1>2. CASE run.from # 0
  <2>1. Carried(run.from, run.version, d, written') /\ written[run.from] # <<>> /\ run.from \in PlanIds
    BY <1>2, CarriedStays DEF RunOf, Carried
  <2>2. plans'[run.from] = NoPlan <=> plans[run.from] = NoPlan
    BY <2>1 DEF Stays
  <2> QED BY <1>2, <2>1, <2>2 DEF RunOf
<1> QED BY <1>1, <1>2

LEMMA CreateStays == ASSUME Inv, NEW doc \in Tags, CreatePlan(doc) PROVE Stays
<1> DEFINE row == [name |-> Documents[doc].name, doc |-> doc, version |-> 1]
<1>1. PICK i \in PlanIds :
        written[i] = <<>> /\ plans' = [plans EXCEPT ![i] = row]
  BY DEF CreatePlan
<1> HIDE DEF row
<1> QED BY <1>1 DEF Stays, Inv, Table

LEMMA UpdateStays ==
  ASSUME Inv, NEW i \in PlanIds, NEW doc, NEW expected, UpdatePlan(i, doc, expected)
  PROVE  Stays
<1> DEFINE row == [name |-> Documents[doc].name, doc |-> doc, version |-> plans[i].version + 1]
<1>1. plans[i] # NoPlan /\ plans' = [plans EXCEPT ![i] = row]
  BY DEF UpdatePlan, Fits, Inv, Table
<1>2. plans[i].version \in Nat
  BY DEF Inv, Table, Records
<1>3. row.version # 0 /\ NoPlan.version = 0
  BY <1>2 DEF NoPlan
<1> HIDE DEF row
<1> QED BY <1>1, <1>3 DEF Stays, Inv, Table

\* What every step does to the table.
LEMMA TableStep ==
  ASSUME Inv, CatalogueNext
  PROVE  /\ Grows
         /\ Stays \/ \E c \in Clients : Delete(c) /\ DeletePlan(calls[c].row.id)
<1>1. UNCHANGED <<plans, written>> => Grows /\ Stays
  BY SameTable DEF Stays
<1>2. ASSUME NEW c \in Clients, Create(c) PROVE Grows /\ Stays
  <2>1. calls[c].doc \in Tags
    BY <1>2 DEF Create, Stage, Knows, Inv, InFlight
  <2> QED BY <1>1, <1>2, <2>1, CreatePlanStep, CreateStays DEF Create
<1>3. ASSUME NEW c \in Clients, Update(c) PROVE Grows /\ Stays
  <2>1. calls[c].doc \in Tags /\ calls[c].id \in PlanIds
    BY <1>3 DEF Update, Stage, Knows, Inv, InFlight
  <2> QED BY <1>1, <1>3, <2>1, UpdatePlanStep, UpdateStays DEF Update
<1>4. ASSUME NEW c \in Clients, Delete(c)
      PROVE  Grows /\ (Stays \/ DeletePlan(calls[c].row.id))
  <2>1. CASE DeletePlan(calls[c].row.id)
    <3>1. plans' = [plans EXCEPT ![calls[c].row.id] = NoPlan] /\ written' = written
      BY <1>4, <2>1 DEF DeletePlan, Delete
    <3>2. calls[c].row.id \notin PlanIds => UNCHANGED <<plans, written>>
      BY <3>1 DEF Inv, Table
    <3> QED BY <1>1, <2>1, <3>1, <3>2, DeletePlanStep
  <2>2. CASE UNCHANGED <<plans, queued>>
    BY <1>1, <1>4, <2>2 DEF Delete
  <2> QED BY <1>4, <2>1, <2>2 DEF Delete
<1>5. ASSUME ~\E c \in Clients : Create(c) \/ Update(c) \/ Delete(c)
      PROVE  UNCHANGED <<plans, written>>
  BY <1>5 DEF CatalogueNext, BeginEdit, BeginDelete, BeginTrigger, BeginSave, Put, Abandon, BeginAdhoc,
              Begin, Look, Prepare, Enqueue, Settle
<1> QED BY <1>1, <1>2, <1>3, <1>4, <1>5

\* What a step starts or moves a trigger with.
LEMMA TriggersStep ==
  ASSUME ProvInv, Inv', CatalogueNext
  PROVE  Triggers'
<1> SUFFICES ASSUME NEW c \in Clients, calls'[c].op = "trigger" PROVE Traced(calls'[c], written')
  BY DEF Triggers, Traced
<1>0. Table' /\ Grows /\ DOMAIN calls = Clients /\ calls[c] \in Calls /\ Traced(calls[c], written)
  BY TableStep DEF ProvInv, Inv, InFlight, Knows, Triggers
<1>n. NoCall.op = "none"
  BY DEF NoCall, NewCall
<1>1. CASE calls'[c] = calls[c]
  <2>1. Traced(calls[c], written')
    BY <1>0, TracedStays DEF ProvInv
  <2> QED BY <1>1, <2>1
<1>2. ASSUME NEW i \in PlanIds, BeginTrigger(c, i) PROVE Traced(calls'[c], written')
  <2> DEFINE k == NewCall("trigger", "prepare", plans[i].doc, 0, Row(i))
  <2>1. calls'[c] = k /\ Parsed[plans[i].doc] # Nil /\ ById(i) # {}
    BY <1>0, <1>2 DEF BeginTrigger, Begin
  <2>2. /\ k.doc = plans[i].doc /\ k.row.id = i /\ k.row.version = plans[i].version
        /\ Row(i).doc = plans[i].doc /\ Row(i).id = i /\ Row(i).version = plans[i].version
    <3>1. k.doc = plans[i].doc /\ k.row = Row(i)
      BY NewCallFields
    <3>2. Row(i).doc = plans[i].doc /\ Row(i).id = i /\ Row(i).version = plans[i].version
      BY DEF Row
    <3> HIDE DEF k
    <3> QED BY <3>1, <3>2
  <2>3. Carried(i, plans[i].version, plans[i].doc, written)
    BY <2>1, <2>2, RowKnown DEF Read, Carried, ProvInv
  <2>4. i # 0
    BY DEF PlanIds
  <2>5. plans[i].doc \in DOMAIN Parsed
    <3>1. written[i] \in Seq(Tags)
      BY DEF ProvInv, Inv, Table
    <3>2. written[i][plans[i].version] \in Tags
      BY <2>3, <3>1, ElementOfSeq DEF Carried
    <3> QED BY <2>3, <3>2 DEF Carried, Parsed
  <2> HIDE DEF k
  <2>6. Traced(k, written)
    BY <2>1, <2>2, <2>3, <2>4, <2>5 DEF Traced
  <2>7. Traced(k, written')
    BY <1>0, <2>6, TracedStays DEF ProvInv
  <2> QED BY <2>1, <2>7
<1>3. ASSUME NEW o \in DOMAIN Adhoc, BeginAdhoc(c, o) PROVE Traced(calls'[c], written')
  <2> DEFINE k == NewCall("trigger", "prepare", o, 0, NoRow)
  <2>1. calls'[c] = k /\ Parsed[o] # Nil
    BY <1>0, <1>3 DEF BeginAdhoc, Begin
  <2>2. k.doc = o /\ k.row.id = 0 /\ k.row.version = 0
    <3>1. k.doc = o /\ k.row = NoRow
      BY NewCallFields
    <3> HIDE DEF k
    <3> QED BY <3>1 DEF NoRow
  <2>3. o \in DOMAIN Parsed
    BY DEF Parsed
  <2> HIDE DEF k
  <2> QED BY <2>1, <2>2, <2>3 DEF Traced
<1>4. ASSUME Prepare(c) PROVE Traced(calls'[c], written')
  <2>1. CASE Ends(c)
    BY <1>0, <1>n, <2>1 DEF Ends
  <2>2. CASE Goes(c, "enqueue")
    <3>1. /\ calls'[c].op = calls[c].op /\ calls'[c].doc = calls[c].doc /\ calls'[c].row = calls[c].row
          /\ written' = written
      BY <1>0, <1>4, <2>2 DEF Goes, Prepare, Calls
    <3> QED BY <1>0, <3>1 DEF Traced
  <2> QED BY <1>4, <2>1, <2>2 DEF Prepare
<1>5. ASSUME Ends(c) \/ Abandon(c) PROVE FALSE
  BY <1>0, <1>5, <1>n DEF Ends, Abandon
<1>6. ASSUME NEW stage, NEW doc, NEW expected, NEW row, NEW op, op # "trigger",
             Begin(c, NewCall(op, stage, doc, expected, row))
      PROVE  FALSE
  <2>1. calls'[c] = NewCall(op, stage, doc, expected, row)
    BY <1>0, <1>6 DEF Begin
  <2> QED BY <1>6, <2>1, NewCallFields
<1>7. ASSUME NEW doc, NEW guarded, Put(c, doc, guarded) PROVE FALSE
  BY <1>0, <1>7 DEF Put, Calls
<1>8. ASSUME Look(c) PROVE FALSE
  <2>1. calls[c].op # "trigger"
    BY <1>8 DEF Look, Stage, Saves
  <2>2. CASE Goes(c, "create")
    BY <1>0, <2>1, <2>2 DEF Goes, Calls
  <2>3. ASSUME NEW i, calls' = [calls EXCEPT ![c].stage = "update", ![c].id = i] PROVE FALSE
    BY <1>0, <2>1, <2>3 DEF Calls
  <2> QED BY <1>5, <1>8, <2>2, <2>3 DEF Look
<1>9. ASSUME NEW e \in Clients, e # c,
             \/ \E i \in PlanIds : BeginEdit(e, i) \/ BeginDelete(e, i) \/ BeginTrigger(e, i)
             \/ \E doc \in Tags, expected \in {CreateOnly, 0} : BeginSave(e, doc, expected)
             \/ \E doc \in Tags, guarded \in BOOLEAN : Put(e, doc, guarded)
             \/ Abandon(e)
             \/ \E o \in DOMAIN Adhoc : BeginAdhoc(e, o)
             \/ Look(e) \/ Create(e) \/ Update(e) \/ Delete(e) \/ Prepare(e) \/ Enqueue(e)
      PROVE  calls'[c] = calls[c]
  BY <1>0, <1>9 DEF BeginEdit, BeginDelete, BeginTrigger, BeginSave, Put, Abandon, BeginAdhoc, Begin,
     Look, Create, Update, Delete, Prepare, Enqueue, Ends, Goes
<1>10. ASSUME NEW r \in DOMAIN queued, Settle(r) PROVE calls'[c] = calls[c]
  BY <1>10 DEF Settle
<1>11. ASSUME \/ \E i \in PlanIds : BeginEdit(c, i) \/ BeginDelete(c, i) \/ BeginTrigger(c, i)
              \/ \E doc \in Tags, expected \in {CreateOnly, 0} : BeginSave(c, doc, expected)
              \/ \E doc \in Tags, guarded \in BOOLEAN : Put(c, doc, guarded)
              \/ Abandon(c)
              \/ \E o \in DOMAIN Adhoc : BeginAdhoc(c, o)
              \/ Look(c) \/ Create(c) \/ Update(c) \/ Delete(c) \/ Prepare(c) \/ Enqueue(c)
       PROVE  Traced(calls'[c], written')
  <2>1. ASSUME NEW i \in PlanIds, BeginEdit(c, i) \/ BeginDelete(c, i) PROVE FALSE
    BY <1>6, <2>1 DEF BeginEdit, BeginDelete
  <2>2. ASSUME NEW doc, NEW expected, BeginSave(c, doc, expected) PROVE FALSE
    BY <1>6, <2>2 DEF BeginSave
  <2>3. ASSUME Create(c) \/ Update(c) \/ Delete(c) \/ Enqueue(c) PROVE FALSE
    BY <1>5, <2>3 DEF Create, Update, Delete, Enqueue
  <2> QED BY <1>2, <1>3, <1>4, <1>5, <1>7, <1>8, <1>11, <2>1, <2>2, <2>3
<1> QED BY <1>1, <1>9, <1>10, <1>11 DEF CatalogueNext

LEMMA QueueStep ==
  ASSUME ProvInv, Inv', CatalogueNext
  PROVE  Queue'
<1>0. /\ Table' /\ Grows /\ queued \in Seq(Runs) /\ Len(queued) \in Nat /\ DOMAIN queued = 1 .. Len(queued)
      /\ Inv
  BY TableStep, LenProperties DEF ProvInv, Inv, Queue
<1>d. ASSUME NEW r \in DOMAIN queued
      PROVE  queued[r] \in Runs /\ \E d : RunOf(queued[r], d, plans, written)
  BY <1>0, ElementOfSeq DEF ProvInv, Queue
<1>1. CASE Stays /\ queued' = queued
  BY <1>0, <1>1, <1>d, RunStays DEF Queue
<1>2. ASSUME NEW c \in Clients, Delete(c), DeletePlan(calls[c].row.id) PROVE Queue'
  <2> DEFINE i == calls[c].row.id
             Cut(run) == [run EXCEPT !.plan = IF run.plan = i THEN 0 ELSE run.plan]
  <2>1. /\ queued' = [r \in DOMAIN queued |-> Cut(queued[r])] /\ written' = written
        /\ plans' = [plans EXCEPT ![i] = NoPlan] /\ plans[i] # NoPlan
    BY <1>2 DEF DeletePlan, Delete
  <2>2. ASSUME NEW run \in Runs, NEW d, RunOf(run, d, plans, written)
        PROVE  Cut(run) \in Runs /\ RunOf(Cut(run), d, plans', written')
    <3> DEFINE out == Cut(run)
    <3>0. 0 \in 0 .. MaxPlans
      BY CatalogueAssumption
    <3>1. /\ out \in Runs /\ out.snapshot = run.snapshot /\ out.from = run.from
          /\ out.version = run.version /\ out.plan = IF run.plan = i THEN 0 ELSE run.plan
      <4>1. (IF run.plan = i THEN 0 ELSE run.plan) \in 0 .. MaxPlans
        BY <3>0 DEF Runs
      <4> HIDE DEF i
      <4> QED BY <4>1 DEF Runs
    <3> HIDE DEF out
    <3>2. ASSUME run.from = 0 PROVE RunOf(out, d, plans', written')
      BY <2>2, <3>1, <3>2 DEF RunOf
    <3>3. ASSUME run.from # 0 PROVE RunOf(out, d, plans', written')
      <4>1. run.from \in PlanIds /\ DOMAIN plans = PlanIds
        BY <1>0, <2>2, <3>3 DEF RunOf, Carried, Table, Inv
      <4>2. plans'[run.from] = IF run.from = i THEN NoPlan ELSE plans[run.from]
        BY <2>1, <4>1
      <4>3. run.plan = IF plans[run.from] = NoPlan THEN 0 ELSE run.from
        BY <2>2, <3>3 DEF RunOf
      <4>4. out.plan = IF plans'[run.from] = NoPlan THEN 0 ELSE run.from
        BY <2>1, <3>1, <3>3, <4>2, <4>3
      <4> QED BY <2>1, <2>2, <3>1, <3>3, <4>4 DEF RunOf
    <3> QED BY <3>1, <3>2, <3>3 DEF out
  <2> HIDE DEF Cut
  <2>3. /\ \A r \in DOMAIN queued : Cut(queued[r]) \in Runs
        /\ \A r \in DOMAIN queued : \E d : RunOf(Cut(queued[r]), d, plans', written')
    BY <1>d, <2>2
  <2>4. queued' \in Seq(Runs) /\ DOMAIN queued' = DOMAIN queued
    BY <1>0, <2>1, <2>3, SeqDef
  <2>5. \A r \in DOMAIN queued' : queued'[r] = Cut(queued[r])
    BY <2>1
  <2> QED BY <2>3, <2>4, <2>5 DEF Queue
<1>3. ASSUME NEW c \in Clients, Enqueue(c), queued' = Append(queued, Prepared(c)) PROVE Queue'
  <2> DEFINE k == calls[c]
             run == Prepared(c)
  <2>1. /\ k \in Calls /\ k.op = "trigger" /\ Traced(k, written) /\ UNCHANGED <<plans, written>>
        /\ k.row.id # 0 => ById(k.row.id) # {}
    BY <1>3 DEF Enqueue, Stage, ProvInv, Inv, InFlight, Knows, Triggers
  <2>2. /\ run.plan = k.row.id /\ run.from = k.row.id /\ run.version = k.row.version
        /\ run.snapshot = Marshal(Parsed[k.doc])
    BY DEF Prepared
  <2>3. run \in Runs
    <3>1. k.row.id \in 0 .. MaxPlans /\ k.row.version \in Nat
      BY <2>1 DEF Calls
    <3>2. Marshal(Parsed[k.doc]) \in Snapshots
      BY <2>1 DEF Traced, Snapshots
    <3> QED BY <3>1, <3>2 DEF Prepared, Runs
  <2> HIDE DEF run
  <2>4. RunOf(run, k.doc, plans, written)
    <3>1. k.row.id # 0 => plans[k.row.id] # NoPlan
      BY <2>1 DEF ById
    <3> QED BY <2>1, <2>2, <3>1 DEF RunOf, Traced
  <2>5. /\ queued' \in Seq(Runs) /\ DOMAIN queued' = 1 .. Len(queued) + 1
        /\ queued'[Len(queued) + 1] = run /\ \A r \in 1 .. Len(queued) : queued'[r] = queued[r]
    <3>1. /\ Append(queued, run) \in Seq(Runs) /\ Len(Append(queued, run)) = Len(queued) + 1
          /\ Append(queued, run)[Len(queued) + 1] = run
          /\ \A r \in 1 .. Len(queued) : Append(queued, run)[r] = queued[r]
      BY <1>0, <2>3, AppendProperties
    <3> QED BY <1>3, <3>1, LenProperties DEF run
  <2>6. ASSUME NEW r \in DOMAIN queued' PROVE \E d : RunOf(queued'[r], d, plans, written)
    <3>1. CASE r = Len(queued) + 1
      BY <2>4, <2>5, <3>1
    <3>2. CASE r \in 1 .. Len(queued)
      BY <1>0, <1>d, <2>5, <3>2
    <3> QED BY <1>0, <2>5, <3>1, <3>2
  <2> QED BY <2>1, <2>5, <2>6 DEF Queue
<1>4. ASSUME NEW s \in DOMAIN queued, Settle(s) PROVE Queue'
  <2> DEFINE out == [queued[s] EXCEPT !.active = FALSE]
  <2>1. queued' = [queued EXCEPT ![s] = out] /\ UNCHANGED <<plans, written>>
    BY <1>4 DEF Settle
  <2>2. /\ out \in Runs /\ out.snapshot = queued[s].snapshot /\ out.from = queued[s].from
        /\ out.version = queued[s].version /\ out.plan = queued[s].plan
    BY <1>d DEF Runs
  <2> HIDE DEF out
  <2>3. \E d : RunOf(out, d, plans, written)
    BY <1>d, <2>2 DEF RunOf
  <2>4. queued' \in Seq(Runs) /\ DOMAIN queued' = DOMAIN queued
    BY <1>0, <2>1, <2>2, ExceptSeq
  <2>5. \A r \in DOMAIN queued' : queued'[r] = IF r = s THEN out ELSE queued[r]
    BY <1>0, <2>1
  <2> QED BY <1>d, <2>1, <2>3, <2>4, <2>5 DEF Queue
<1>5. ASSUME ~\E c \in Clients :
               \/ Delete(c) /\ DeletePlan(calls[c].row.id)
               \/ Enqueue(c) /\ queued' = Append(queued, Prepared(c)),
             ~\E s \in DOMAIN queued : Settle(s)
      PROVE  Stays /\ queued' = queued
  <2>1. Stays
    BY <1>0, <1>5, TableStep
  <2>2. queued' = queued
    BY <1>5 DEF CatalogueNext, BeginEdit, BeginDelete, BeginTrigger, BeginSave, Put, Abandon, BeginAdhoc,
                Begin, Look, Create, Update, Delete, Prepare, Enqueue
  <2> QED BY <2>1, <2>2
<1> QED BY <1>1, <1>2, <1>3, <1>4, <1>5

(***************************************************************************)
(* What a drill executes is what its plan said at the version the run      *)
(* names, and the link to the plan is there exactly while the plan is, for *)
(* any documents and any number of clients that save, delete and trigger   *)
(* (trigger.Prepare, plan.go MarshalYAML, the foreign key of               *)
(* runs.plan_id). The drills described by shorthand are those whose        *)
(* shorthands carry no key a check's text keeps for itself: `dns:NAME`     *)
(* carries one, and loses it.                                              *)
(***************************************************************************)
THEOREM ProvenanceKept ==
  ASSUME NilIsFresh, ShorthandsSurvive
  PROVE  CatalogueSpec => []ProvenanceIsTrue
<1>1. CatalogueInit => ProvInv
  <2> SUFFICES ASSUME CatalogueInit PROVE ProvInv
    OBVIOUS
  <2>1. Triggers
    BY DEF CatalogueInit, Triggers, Traced, NoCall, NewCall
  <2>2. Queue
    BY EmptySeq DEF CatalogueInit, Queue
  <2> QED BY <2>1, <2>2, InvInit DEF ProvInv
<1>2. ProvInv /\ [CatalogueNext]_catalogueVars => ProvInv'
  <2> SUFFICES ASSUME ProvInv, [CatalogueNext]_catalogueVars PROVE ProvInv'
    OBVIOUS
  <2>1. Inv'
    BY InvStep DEF ProvInv
  <2>2. CASE CatalogueNext
    BY <2>1, <2>2, TriggersStep, QueueStep DEF ProvInv
  <2>3. CASE UNCHANGED catalogueVars
    BY <2>1, <2>3 DEF ProvInv, Triggers, Queue, catalogueVars
  <2> QED BY <2>2, <2>3
<1>3. ProvInv => ProvenanceIsTrue
  <2> SUFFICES ASSUME ProvInv, NEW r \in DOMAIN queued
               PROVE  LET run == queued[r]
                      IN  /\ run.from = 0 =>
                               /\ run.version = 0 /\ run.plan = 0
                               /\ \E o \in DOMAIN Adhoc : Executed[run.snapshot] = Parsed[o]
                          /\ run.from # 0 =>
                               /\ Executed[run.snapshot] = Parsed[written[run.from][run.version]]
                               /\ run.plan = IF plans[run.from] = NoPlan THEN 0 ELSE run.from
    BY DEF ProvenanceIsTrue
  <2> DEFINE run == queued[r]
  <2>1. PICK d : RunOf(run, d, plans, written)
    BY DEF ProvInv, Queue
  <2>2. Executed[run.snapshot] = Parsed[d]
    BY <2>1, SnapshotIsPlan DEF RunOf
  <2> HIDE DEF run
  <2>3. run.from = 0 =>
          /\ run.version = 0 /\ run.plan = 0
          /\ \E o \in DOMAIN Adhoc : Executed[run.snapshot] = Parsed[o]
    BY <2>1, <2>2 DEF RunOf
  <2>4. run.from # 0 =>
          /\ Executed[run.snapshot] = Parsed[written[run.from][run.version]]
          /\ run.plan = IF plans[run.from] = NoPlan THEN 0 ELSE run.from
    BY <2>1, <2>2 DEF RunOf, Carried
  <2> QED BY <2>3, <2>4 DEF run
<1> QED BY <1>1, <1>2, <1>3, PTL DEF CatalogueSpec

-----------------------------------------------------------------------------
(* The drills of a workload, and what they claim.                          *)

States == {"RUNNING", "SUCCESS", "FAILED", "INCONCLUSIVE", "CANCELLED", "CLEANUP_FAILED"}
Values == Contents \cup {Nil}

Drills ==
  [state : States, result : Results, level : Levels \cup {""}, value : Values, judged : BOOLEAN,
   slow : BOOLEAN, day : Nat]

\* A value the check's bounds allow.
Within(value, c) ==
  /\ value # Nil
  /\ c.assert.min # Nil => value >= c.assert.min
  /\ c.assert.max # Nil => value <= c.assert.max
  /\ c.assert.equals # Nil => value = c.assert.equals

Backed(run, c) == run.level = "DATA" /\ c.proves = "" => Within(run.value, c)

\* A success was in time, and a drill under way has no verdict.
Plain(run) ==
  /\ run.result = "SUCCESS" => ~run.slow
  /\ run.state = "RUNNING" => run.result = "none"

ClaimsInv ==
  /\ check \in Checks /\ drills \in Seq(Drills)
  /\ \A n \in DOMAIN drills :
       Backed(drills[n], check) /\ Plain(drills[n]) /\ drills[n].day = Period * (n - 1)

\* What an attempt of a network check makes of its dial.
LEMMA NetworkAnswers ==
  ASSUME NEW c, NEW e \in Circumstances,
         NEW s \in {TCPRun(e), HTTPRun(e), DNSRun(c, e), PingRun(e)}
  PROVE  /\ s \in {"pass", "fail", "error"}
         /\ s = "pass" => e.params = "ok" /\ e.dial = "connected"
  BY DEF Circumstances, TCPRun, HTTPRun, DNSRun, PingRun

\* What a check reports, and what its report rests on.
Sound(c, e, r) ==
  /\ r.status \in {"pass", "fail", "error"} /\ r.value \in Values /\ r.judged \in BOOLEAN
  /\ r.status = "pass" => e.params = "ok" /\ e.dial = "connected"
  /\ r.status = "pass" /\ r.value # Nil /\ c.assert # Nil => AssertHolds(r.value, c.assert)

LEMMA OutcomeFields ==
  ASSUME NEW status, NEW value
  PROVE  /\ Outcome(status, value).status = status /\ Outcome(status, value).value = value
         /\ Outcome(status, value).judged = FALSE
  BY DEF Outcome

LEMMA NothingRead ==
  ASSUME NEW c, NEW e, NEW s, s \in {"pass", "fail", "error"},
         s = "pass" => e.params = "ok" /\ e.dial = "connected"
  PROVE  Sound(c, e, Outcome(s, Nil))
<1>1. Nil \in Values
  BY DEF Values
<1> QED BY <1>1, OutcomeFields DEF Sound

LEMMA AnswerSound ==
  ASSUME NEW c, NEW e, e.params = "ok", e.dial = "connected", NEW s \in {"pass", "fail"},
         NEW value \in Values, NEW judged \in BOOLEAN, NEW r,
         r.status = s, r.value = value, r.judged = judged,
         s = "pass" /\ value # Nil /\ c.assert # Nil => AssertHolds(value, c.assert)
  PROVE  Sound(c, e, r)
  BY DEF Sound

LEMMA CaptureSound ==
  ASSUME NEW c, NEW e \in Circumstances, e.params = "ok", e.dial = "connected",
         NEW v \in Contents, NEW w
  PROVE  Sound(c, e, EvaluateCapture(c, e, v, w))
<1> DEFINE value == ParseCaptured(e, v)
           judged == e.past = "read" /\ DOMAIN w # {}
           s == IF DriftHolds(value, Baseline(w), c.drift) THEN "pass" ELSE "fail"
           last == [status |-> s, value |-> value, judged |-> TRUE]
<1>0. value \in Values
  BY DEF ParseCaptured, Values
<1>1. EvaluateCapture(c, e, v, w) =
        IF value = Nil THEN Outcome("fail", Nil)
        ELSE IF c.assert # Nil /\ ~AssertHolds(value, c.assert) THEN Outcome("fail", value)
        ELSE IF c.drift = Nil \/ ~judged THEN Outcome("pass", value)
        ELSE last
  BY DEF EvaluateCapture
<1>2. last.status = s /\ last.value = value /\ last.judged = TRUE /\ s \in {"pass", "fail"}
  OBVIOUS
<1> HIDE DEF value, judged, s, last
<1>3. CASE value = Nil
  BY <1>0, <1>1, <1>3, NothingRead
<1>4. CASE value # Nil /\ c.assert # Nil /\ ~AssertHolds(value, c.assert)
  <2>1. EvaluateCapture(c, e, v, w) = Outcome("fail", value)
    BY <1>1, <1>4
  <2>2. ASSUME NEW r, r = Outcome("fail", value) PROVE Sound(c, e, r)
    <3>1. r.status = "fail" /\ r.value = value /\ r.judged = FALSE
      BY <2>2 DEF Outcome
    <3> QED BY <1>0, <1>4, <3>1, AnswerSound
  <2> QED BY <2>1, <2>2
<1>5. CASE value # Nil /\ (c.assert = Nil \/ AssertHolds(value, c.assert)) /\ (c.drift = Nil \/ ~judged)
  <2>1. EvaluateCapture(c, e, v, w) = Outcome("pass", value)
    BY <1>1, <1>5
  <2>2. ASSUME NEW r, r = Outcome("pass", value) PROVE Sound(c, e, r)
    <3>1. r.status = "pass" /\ r.value = value /\ r.judged = FALSE
      BY <2>2 DEF Outcome
    <3> QED BY <1>0, <1>5, <3>1, AnswerSound
  <2> QED BY <2>1, <2>2
<1>6. CASE /\ value # Nil /\ (c.assert = Nil \/ AssertHolds(value, c.assert))
           /\ ~(c.drift = Nil \/ ~judged)
  <2>1. EvaluateCapture(c, e, v, w) = last
    BY <1>1, <1>6
  <2> QED BY <1>0, <1>2, <1>6, <2>1 DEF Sound
<1> QED BY <1>3, <1>4, <1>5, <1>6

LEMMA CommandSound ==
  ASSUME NEW c, NEW e \in Circumstances, NEW v \in Contents, NEW w
  PROVE  Sound(c, e, CommandRun(c, e, v, w))
<1>1. CASE e.params = "bad" \/ e.dial # "connected"
  <2>1. CommandRun(c, e, v, w) = Outcome("error", Nil)
    BY <1>1 DEF CommandRun
  <2> QED BY <2>1, NothingRead
<1>2. CASE ~(e.params = "bad" \/ e.dial # "connected")
  <2>0. e.params = "ok" /\ e.dial = "connected"
    BY <1>2 DEF Circumstances
  <2>1. \/ \E s \in {"pass", "fail", "error"} : CommandRun(c, e, v, w) = Outcome(s, Nil)
        \/ CommandRun(c, e, v, w) = EvaluateCapture(c, e, v, w)
    BY <1>2 DEF CommandRun
  <2> QED BY <2>0, <2>1, NothingRead, CaptureSound
<1> QED BY <1>1, <1>2

LEMMA RunOneSound ==
  ASSUME NEW c, c.type \in CheckTypeNames, NEW e \in Circumstances, NEW v \in Contents, NEW w
  PROVE  LET r == RunOne(c, e, v, w)
         IN  Sound(c, e, r) /\ (r.status = "pass" /\ c.capture # "" => r.value # Nil)
<1> DEFINE a == Attempt(c, e, v, w)
           r == RunOne(c, e, v, w)
<1>1. Sound(c, e, a)
  <2>1. c.type = "command" => a = CommandRun(c, e, v, w)
    BY DEF Attempt
  <2>2. c.type # "command" =>
          \E s \in {TCPRun(e), HTTPRun(e), DNSRun(c, e), PingRun(e)} : a = Outcome(s, Nil)
    BY DEF Attempt, CheckTypeNames
  <2> QED BY <2>1, <2>2, CommandSound, NetworkAnswers, NothingRead
<1>2. \/ r = Outcome("error", Nil)
      \/ a.status = "pass" /\ c.capture # "" /\ a.value = Nil /\ r = Outcome("fail", Nil)
      \/ ~(a.status = "pass" /\ c.capture # "" /\ a.value = Nil) /\ r = a
  BY DEF RunOne
<1> HIDE DEF a, r
<1> DEFINE Goal == Sound(c, e, r) /\ (r.status = "pass" /\ c.capture # "" => r.value # Nil)
<1>3. ASSUME r = Outcome("error", Nil) PROVE Goal
  <2>1. Sound(c, e, r)
    BY <1>3, NothingRead
  <2>2. r.status = "error"
    BY <1>3, OutcomeFields
  <2> QED BY <2>1, <2>2
<1>4. ASSUME a.status = "pass", c.capture # "", a.value = Nil, r = Outcome("fail", Nil) PROVE Goal
  <2>1. Sound(c, e, r)
    BY <1>4, NothingRead
  <2>2. r.status = "fail"
    BY <1>4, OutcomeFields
  <2> QED BY <2>1, <2>2
<1>5. ASSUME ~(a.status = "pass" /\ c.capture # "" /\ a.value = Nil), r = a PROVE Goal
  BY <1>1, <1>5
<1> QED BY <1>2, <1>3, <1>4, <1>5 DEF r

\* An attempt nobody answered reads nothing and passes nothing, and only a
\* cancelled one is a failure. A parsed check has no name to resolve.
LEMMA SilenceOutcome ==
  ASSUME NEW c, c.type \in CheckTypeNames, "name" \notin DOMAIN c.params,
         NEW e \in Circumstances, Unanswered(c, e), NEW v, NEW w
  PROVE  LET r == RunOne(c, e, v, w)
         IN  /\ r.status \in {"fail", "error"} /\ r.value = Nil
             /\ r.status = "fail" => e.dial = "cancelled"
<1> DEFINE a == Attempt(c, e, v, w)
<1>1. \E s \in {"fail", "error"} :
        a = Outcome(s, Nil) /\ (s = "fail" => e.dial = "cancelled")
  <2>1. CASE c.type = "command"
    BY <2>1 DEF Unanswered, Attempt, CommandRun
  <2>2. CASE c.type = "tcp"
    BY <2>2 DEF Unanswered, Attempt, TCPRun, Silent
  <2>3. CASE c.type = "http"
    BY <2>3 DEF Unanswered, Attempt, HTTPRun, Silent
  <2>4. CASE c.type = "dns"
    BY <2>4 DEF Attempt, DNSRun
  <2>5. CASE c.type = "ping"
    BY <2>5 DEF Unanswered, Attempt, PingRun
  <2> QED BY <2>1, <2>2, <2>3, <2>4, <2>5 DEF CheckTypeNames
<1>2. PICK s \in {"fail", "error"} :
        a = Outcome(s, Nil) /\ (s = "fail" => e.dial = "cancelled")
  BY <1>1
<1>3. \/ RunOne(c, e, v, w) = Outcome("error", Nil)
      \/ a.status = "pass" /\ c.capture # "" /\ a.value = Nil /\ RunOne(c, e, v, w) = Outcome("fail", Nil)
      \/ ~(a.status = "pass" /\ c.capture # "" /\ a.value = Nil) /\ RunOne(c, e, v, w) = a
  BY DEF RunOne
<1> HIDE DEF a
<1>4. a.status = s /\ a.value = Nil
  BY <1>2, OutcomeFields
<1>5. RunOne(c, e, v, w) = Outcome("error", Nil) \/ RunOne(c, e, v, w) = a
  BY <1>2, <1>3, <1>4
<1>6. ASSUME NEW r, r = Outcome("error", Nil) PROVE r.status = "error" /\ r.value = Nil
  BY <1>6, OutcomeFields
<1> QED BY <1>2, <1>4, <1>5, <1>6

\* A check that claims the data captures a value and bounds it.
LEMMA DataIsBounded ==
  ASSUME NEW c, NEW status, NEW up, Earned(c, status, up) = "DATA", c.proves = ""
  PROVE  status = "pass" /\ c.capture # "" /\ c.assert # Nil
<1>1. status = "pass" /\ ProvenLevel(c) = "DATA"
  BY DEF Earned, Raise
<1> QED BY <1>1 DEF ProvenLevel, AnyBound, Levels

LEMMA EarnedType ==
  ASSUME NEW c, NEW status, NEW up
  PROVE  /\ Earned(c, status, up) \in Levels
         /\ status # "pass" => Rank(Earned(c, status, up)) <= Rank("BOOT")
<1>1. ProvenLevel(c) \in Levels
  BY DEF ProvenLevel, Levels
<1>2. Rank("NONE") <= Rank("BOOT") /\ Rank("BOOT") <= Rank("BOOT")
  BY DEF Rank
<1> QED BY <1>1, <1>2 DEF Earned, Raise, Levels

LEMMA GradedEndings ==
  ASSUME NEW critical, NEW status \in {"pass", "fail", "error"}, NEW cancelled \in BOOLEAN, NEW slow \in BOOLEAN
  PROVE  /\ Graded(critical, status, cancelled, slow)[1] \in States \ {"RUNNING"}
         /\ Graded(critical, status, cancelled, slow)[2] \in Results
         /\ Graded(critical, status, cancelled, slow)[2] = "FAILED" => status = "fail" /\ ~cancelled
         /\ Graded(critical, status, cancelled, slow)[2] = "SUCCESS" => status # "fail" /\ ~slow
  BY DEF Graded, States, Results

\* What a drill nobody answered is graded.
LEMMA GradedSilence ==
  ASSUME NEW critical, NEW status \in {"fail", "error"}, NEW cancelled,
         status = "fail" => cancelled, NEW slow
  PROVE  /\ Graded(critical, status, cancelled, slow)[2] # "FAILED"
         /\ critical => Graded(critical, status, cancelled, slow)[2] = "none"
  BY DEF Graded

LEMMA LastIsOne ==
  ASSUME NEW n \in Nat \ {0}
  PROVE  n \in 1 .. n
  OBVIOUS

LEMMA EarlierOnes ==
  ASSUME NEW last \in Nat, NEW n \in 1 .. last, n # last
  PROVE  n \in Nat /\ n > 0 /\ \A i \in 1 .. n : i \in 1 .. last /\ i # last
  OBVIOUS

\* The newest drill gets its record, the others keep theirs.
Recorded(run) ==
  /\ Len(drills) \in Nat \ {0} /\ drills[Len(drills)].state = "RUNNING"
  /\ drills' \in Seq(Drills) /\ Len(drills') = Len(drills) /\ drills'[Len(drills)] = run
  /\ \A n \in 1 .. Len(drills) : n # Len(drills) => drills'[n] = drills[n]
  /\ check' = check

Ending(state, result, level, value, judged, slow, cleaned, day) ==
  [state |-> IF cleaned THEN state ELSE "CLEANUP_FAILED", result |-> result, level |-> level,
   value |-> value, judged |-> judged, slow |-> slow, day |-> day]

LEMMA RecordIs ==
  ASSUME ClaimsInv, NEW state \in States, NEW result \in Results, NEW level \in Levels,
         NEW value \in Values, NEW judged \in BOOLEAN, NEW slow \in BOOLEAN, NEW cleaned \in BOOLEAN,
         Record(state, result, level, value, judged, slow, cleaned)
  PROVE  Recorded(Ending(state, result, level, value, judged, slow, cleaned, drills[Len(drills)].day))
<1> DEFINE last == Len(drills)
           run == Ending(state, result, level, value, judged, slow, cleaned, drills[last].day)
<1>1. /\ drills \in Seq(Drills) /\ drills # <<>> /\ drills' = [drills EXCEPT ![last] = run] /\ check' = check
      /\ drills[last].state = "RUNNING"
  BY DEF ClaimsInv, Record, Ending
<1>2. last \in Nat \ {0} /\ last \in 1 .. last
  BY <1>1, EmptySeq
<1>3. drills[last] \in Drills
  BY <1>1, <1>2, ElementOfSeq
<1>4. run \in Drills
  <2>1. drills[last].day \in Nat /\ (IF cleaned THEN state ELSE "CLEANUP_FAILED") \in States
    BY <1>3 DEF Drills, States
  <2> QED BY <2>1 DEF Drills, Ending
<1> HIDE DEF run
<1>5. /\ drills' \in Seq(Drills) /\ Len(drills') = last
      /\ \A n \in 1 .. last : drills'[n] = IF n = last THEN run ELSE drills[n]
  BY <1>1, <1>2, <1>4, ExceptSeq
<1> QED BY <1>1, <1>2, <1>5 DEF Recorded, run

LEMMA RecordStep ==
  ASSUME ClaimsInv, NEW state \in States \ {"RUNNING"}, NEW result \in Results, NEW level \in Levels,
         NEW value \in Values, NEW judged \in BOOLEAN, NEW slow \in BOOLEAN, NEW cleaned \in BOOLEAN,
         Record(state, result, level, value, judged, slow, cleaned),
         level = "DATA" /\ check.proves = "" => Within(value, check),
         result = "SUCCESS" => ~slow
  PROVE  ClaimsInv'
<1> DEFINE last == Len(drills)
           run == Ending(state, result, level, value, judged, slow, cleaned, drills[last].day)
<1>1. Recorded(run)
  BY RecordIs
<1>2. /\ run.level = level /\ run.value = value /\ run.result = result /\ run.slow = slow
      /\ run.state # "RUNNING" /\ run.day = drills[last].day
  BY DEF Ending
<1> HIDE DEF run
<1>3. /\ DOMAIN drills = 1 .. last /\ DOMAIN drills' = 1 .. last /\ Len(drills') = last
      /\ last \in 1 .. last
  <2>1. drills \in Seq(Drills) /\ drills' \in Seq(Drills) /\ Len(drills') = last /\ last \in Nat \ {0}
    BY <1>1 DEF ClaimsInv, Recorded
  <2> QED BY <2>1, LastIsOne, LenProperties
<1>4. Backed(run, check) /\ Plain(run) /\ run.day = Period * (last - 1)
  BY <1>2, <1>3 DEF Backed, Plain, ClaimsInv
<1>5. ASSUME NEW n \in DOMAIN drills'
      PROVE  Backed(drills'[n], check') /\ Plain(drills'[n]) /\ drills'[n].day = Period * (n - 1)
  <2>1. CASE n = last
    BY <1>1, <1>4, <2>1 DEF Recorded
  <2>2. CASE n # last
    BY <1>1, <1>3, <2>2 DEF Recorded, ClaimsInv
  <2> QED BY <2>1, <2>2
<1> QED BY <1>1, <1>5 DEF ClaimsInv, Recorded

\* A drill is queued at the end of the list.
Queueing(run) ==
  /\ Len(drills) \in Nat /\ drills' \in Seq(Drills) /\ Len(drills') = Len(drills) + 1
  /\ drills'[Len(drills) + 1] = run /\ \A n \in 1 .. Len(drills) : drills'[n] = drills[n]
  /\ check' = check

Fresh(day) ==
  [state |-> "RUNNING", result |-> "none", level |-> "", value |-> Nil,
   judged |-> FALSE, slow |-> FALSE, day |-> day]

LEMMA StartIs ==
  ASSUME ClaimsInv, Start
  PROVE  Queueing(Fresh(Period * Len(drills)))
<1> DEFINE run == Fresh(Period * Len(drills))
<1>1. drills \in Seq(Drills) /\ Len(drills) \in Nat /\ drills' = Append(drills, run) /\ check' = check
  BY LenProperties DEF ClaimsInv, Start, Fresh
<1>2. run \in Drills
  <2>1. Period * Len(drills) \in Nat
    <3>1. ASSUME NEW a \in Nat, NEW b \in Nat PROVE a * b \in Nat
      OBVIOUS
    <3> QED BY <1>1, <3>1, AssuranceAssumption
  <2> QED BY <2>1 DEF Drills, States, Results, Levels, Values, Fresh
<1> HIDE DEF run
<1> QED BY <1>1, <1>2, AppendProperties DEF Queueing, run

LEMMA StartStep ==
  ASSUME ClaimsInv, Start
  PROVE  ClaimsInv'
<1> DEFINE last == Len(drills)
           run == Fresh(Period * last)
<1>1. Queueing(run)
  BY StartIs
<1>2. run.level = "" /\ run.result = "none" /\ run.day = Period * last
  BY DEF Fresh
<1> HIDE DEF run
<1>3. /\ last \in Nat /\ DOMAIN drills = 1 .. last /\ DOMAIN drills' = 1 .. last + 1
      /\ Len(drills') = last + 1
  BY <1>1, LenProperties DEF ClaimsInv, Queueing
<1>4. Backed(run, check) /\ Plain(run)
  BY <1>2 DEF Backed, Plain
<1>5. ASSUME NEW n \in DOMAIN drills'
      PROVE  Backed(drills'[n], check') /\ Plain(drills'[n]) /\ drills'[n].day = Period * (n - 1)
  <2>1. CASE n = last + 1
    <3>1. n - 1 = last
      BY <1>3, <2>1
    <3> QED BY <1>1, <1>2, <1>4, <2>1, <3>1 DEF Queueing
  <2>2. CASE n # last + 1
    <3>1. n \in 1 .. last
      BY <1>3, <2>2
    <3> QED BY <1>1, <1>3, <3>1 DEF Queueing, ClaimsInv
  <2> QED BY <2>1, <2>2
<1> QED BY <1>1, <1>5 DEF ClaimsInv, Queueing

LEMMA DrillStep ==
  ASSUME ClaimsInv, NEW e \in Situations, NEW v \in Contents, NEW slow \in BOOLEAN,
         NEW cleaned \in BOOLEAN, Drill(e, v, slow, cleaned)
  PROVE  ClaimsInv'
<1> DEFINE r == RunOne(check, e, v, CapturedValues(drills))
           ending == Graded(IsCritical(check), r.status, e.dial = "cancelled", slow)
           level == Earned(check, r.status, e.up)
<1>0. e \in Circumstances /\ check.type \in CheckTypeNames
  BY AssuranceAssumption DEF ClaimsInv
<1>1. Sound(check, e, r) /\ (r.status = "pass" /\ check.capture # "" => r.value # Nil)
  BY <1>0, RunOneSound
<1>2. Record(ending[1], ending[2], level, r.value, r.judged, slow, cleaned)
  BY DEF Drill
<1>t. level \in Levels
  BY EarnedType
<1>d. ASSUME level = "DATA", check.proves = ""
      PROVE  r.status = "pass" /\ check.capture # "" /\ check.assert # Nil
  BY <1>d, DataIsBounded
<1>4. /\ ending[1] \in States \ {"RUNNING"} /\ ending[2] \in Results
      /\ ending[2] = "FAILED" => r.status = "fail" /\ e.dial # "cancelled"
      /\ ending[2] = "SUCCESS" => ~slow
  <2>1. (e.dial = "cancelled") \in BOOLEAN /\ r.status \in {"pass", "fail", "error"}
    BY <1>1 DEF Sound
  <2> DEFINE critical == IsCritical(check)
             cancelled == e.dial = "cancelled"
  <2>2. cancelled \in BOOLEAN
    OBVIOUS
  <2> HIDE DEF r, critical, cancelled
  <2>3. ASSUME NEW g, g = Graded(critical, r.status, cancelled, slow)
        PROVE  /\ g[1] \in States \ {"RUNNING"} /\ g[2] \in Results
               /\ g[2] = "FAILED" => r.status = "fail" /\ ~cancelled
               /\ g[2] = "SUCCESS" => ~slow
    BY <2>1, <2>2, <2>3, GradedEndings
  <2> QED BY <2>3 DEF critical, cancelled
<1> HIDE DEF r, ending, level
<1>5. level = "DATA" /\ check.proves = "" => Within(r.value, check)
  <2> SUFFICES ASSUME level = "DATA", check.proves = "" PROVE Within(r.value, check)
    OBVIOUS
  <2>1. r.value # Nil /\ AssertHolds(r.value, check.assert)
    BY <1>1, <1>d DEF Sound
  <2> QED BY <2>1 DEF Within, AssertHolds
<1>7. r.value \in Values /\ r.judged \in BOOLEAN
  BY <1>1 DEF Sound
<1>8. ASSUME NEW state \in States \ {"RUNNING"}, NEW result \in Results, state = ending[1], result = ending[2]
      PROVE  ClaimsInv'
  <2>1. Record(state, result, level, r.value, r.judged, slow, cleaned)
    BY <1>2, <1>8
  <2>2. result = "SUCCESS" => ~slow
    BY <1>4, <1>8
  <2> HIDE DEF Drill, ClaimsInv
  <2> QED BY <1>5, <1>7, <1>t, <2>1, <2>2, RecordStep
<1> QED BY <1>4, <1>8

LEMMA ClaimsStep == ClaimsInv /\ [AssuranceNext]_assuranceVars => ClaimsInv'
<1> SUFFICES ASSUME ClaimsInv, [AssuranceNext]_assuranceVars PROVE ClaimsInv'
  OBVIOUS
<1>1. ASSUME NEW level \in {"NONE", "BOOT"}, NEW cleaned \in BOOLEAN, FailEarly(level, cleaned)
      PROVE  ClaimsInv'
  <2>1. "FAILED" \in States \ {"RUNNING"} /\ "FAILED" \in Results /\ level \in Levels /\ Nil \in Values
    BY DEF States, Results, Levels, Values
  <2>2. /\ Record("FAILED", "FAILED", level, Nil, FALSE, FALSE, cleaned) /\ level # "DATA"
    BY <1>1 DEF FailEarly
  <2> QED BY <2>1, <2>2, RecordStep
<1>2. CASE UNCHANGED assuranceVars
  BY <1>2 DEF assuranceVars, ClaimsInv
<1> QED BY <1>1, <1>2, StartStep, DrillStep DEF AssuranceNext

LEMMA ClaimsHold == AssuranceSpec => []ClaimsInv
<1>1. AssuranceInit => ClaimsInv
  BY EmptySeq DEF AssuranceInit, ClaimsInv
<1> QED BY <1>1, ClaimsStep, PTL DEF AssuranceSpec

(***************************************************************************)
(* A drill claims the data only when it read a value within its plan's     *)
(* bounds, for every check a plan can state: the claim follows from the    *)
(* capture guard of RunOne, whatever the check type does with its capture  *)
(* (proof.go ProvenLevel, registry.go unreadCapture).                      *)
(***************************************************************************)
THEOREM ClaimedDataWasRead == AssuranceSpec => []DataWasRead
<1>1. ClaimsInv => DataWasRead
  BY DEF ClaimsInv, DataWasRead, Backed, Within
<1> QED BY <1>1, ClaimsHold, PTL

-----------------------------------------------------------------------------
(* The baseline: what the sorted readings hold, and the median.            *)

LEMMA LeastNat ==
  ASSUME NEW T \in SUBSET Nat, T # {}
  PROVE  \E n \in T : \A m \in T : n <= m
<1>1. PICK n \in T : \A m \in T : ~(<<m, n>> \in OpToRel(<, Nat))
  BY NatLessThanWellFounded, WFMin
<1>2. ASSUME NEW m \in T PROVE n <= m
  <2>1. ~(<<m, n>> \in OpToRel(<, Nat))
    BY <1>1
  <2>2. ~(m < n)
    BY <2>1 DEF OpToRel
  <2>3. m \in Nat /\ n \in Nat
    OBVIOUS
  <2> QED BY <2>2, <2>3
<1> QED BY <1>2

LEMMA GreatestNat ==
  ASSUME NEW k \in Nat, NEW T \in SUBSET (0 .. k), T # {}
  PROVE  \E n \in T : \A m \in T : m <= n
<1> DEFINE U == {x \in Nat : k - x \in T}
<1>1. U # {}
  <2>1. PICK t \in T : t \in 0 .. k
    OBVIOUS
  <2>2. k - t \in Nat /\ k - (k - t) = t
    BY <2>1
  <2> QED BY <2>2
<1>2. PICK u \in U : \A x \in U : u <= x
  BY <1>1, LeastNat
<1>3. ASSUME NEW m \in T PROVE m <= k - u
  <2>1. m \in 0 .. k /\ k - m \in Nat /\ k - (k - m) = m
    OBVIOUS
  <2>2. u <= k - m
    BY <1>2, <2>1
  <2> QED BY <2>1, <2>2
<1> QED BY <1>2, <1>3

\* How many of the readings are at or below a value, and below it.
AtMost(x, v) == Cardinality({i \in DOMAIN x : x[i] <= v})
Below(x, v) == Cardinality({i \in DOMAIN x : x[i] < v})

LEMMA CountType ==
  ASSUME NEW D, IsFiniteSet(D), NEW x \in [D -> Int], NEW v \in Int
  PROVE  /\ AtMost(x, v) \in 0 .. Cardinality(D) /\ Below(x, v) \in 0 .. Cardinality(D)
         /\ IsFiniteSet({i \in D : x[i] <= v}) /\ IsFiniteSet({i \in D : x[i] < v})
         /\ Cardinality(D) \in Nat
<1>0. DOMAIN x = D
  OBVIOUS
<1>1. {i \in D : x[i] <= v} \subseteq D /\ {i \in D : x[i] < v} \subseteq D
  OBVIOUS
<1>2. Cardinality(D) \in Nat
  BY FS_CardinalityType
<1>3. ASSUME NEW S, S \subseteq D PROVE IsFiniteSet(S) /\ Cardinality(S) \in 0 .. Cardinality(D)
  <2>1. IsFiniteSet(S) /\ Cardinality(S) <= Cardinality(D)
    BY <1>3, FS_Subset
  <2>2. Cardinality(S) \in Nat
    BY <2>1, FS_CardinalityType
  <2> QED BY <1>2, <2>1, <2>2
<1>4. /\ IsFiniteSet({i \in D : x[i] <= v}) /\ Cardinality({i \in D : x[i] <= v}) \in 0 .. Cardinality(D)
  BY <1>1, <1>3
<1>5. /\ IsFiniteSet({i \in D : x[i] < v}) /\ Cardinality({i \in D : x[i] < v}) \in 0 .. Cardinality(D)
  BY <1>1, <1>3
<1> QED BY <1>0, <1>2, <1>4, <1>5 DEF AtMost, Below

LEMMA CountNat ==
  ASSUME NEW D, IsFiniteSet(D), NEW x \in [D -> Int], NEW v \in Int
  PROVE  AtMost(x, v) \in Nat /\ Below(x, v) \in Nat
<1>1. /\ AtMost(x, v) \in 0 .. Cardinality(D) /\ Below(x, v) \in 0 .. Cardinality(D)
      /\ Cardinality(D) \in Nat
  BY CountType
<1> QED BY <1>1

\* A larger value of a reading has more readings at or below it.
LEMMA HigherCount ==
  ASSUME NEW D, IsFiniteSet(D), NEW x \in [D -> Int], NEW u \in Int, NEW w \in Range(x), u < w
  PROVE  AtMost(x, u) <= Below(x, w) /\ Below(x, w) < AtMost(x, w)
<1>0. DOMAIN x = D
  OBVIOUS
<1>1. PICK k \in D : x[k] = w
  BY DEF Range
<1>w. w \in Int
  BY <1>1
<1> DEFINE A == {i \in D : x[i] <= u}
           B == {i \in D : x[i] < w}
           C == {i \in D : x[i] <= w}
<1>2. A \subseteq B /\ B \subseteq C /\ k \in C /\ k \notin B
  BY <1>1, <1>w
<1>3. IsFiniteSet(B) /\ IsFiniteSet(C)
  BY <1>w, CountType
<1>4. AtMost(x, u) = Cardinality(A) /\ Below(x, w) = Cardinality(B) /\ AtMost(x, w) = Cardinality(C)
  BY <1>0 DEF AtMost, Below
<1> HIDE DEF A, B, C
<1>5. Cardinality(A) <= Cardinality(B) /\ Cardinality(B) <= Cardinality(C) /\ Cardinality(B) # Cardinality(C)
  BY <1>2, <1>3, FS_Subset
<1>6. Cardinality(B) \in Nat /\ Cardinality(C) \in Nat
  BY <1>3, FS_CardinalityType
<1> QED BY <1>4, <1>5, <1>6

\* Some of the values of the readings have a largest one.
LEMMA LargestReading ==
  ASSUME NEW D, IsFiniteSet(D), NEW x \in [D -> Int], NEW S \in SUBSET Range(x), S # {}
  PROVE  \E u \in S : \A w \in S : w <= u
<1> DEFINE T == {AtMost(x, w) : w \in S}
           n == Cardinality(D)
<1>r. Range(x) \subseteq Int
  BY DEF Range
<1>1. n \in Nat /\ T \subseteq 0 .. n
  BY <1>r, CountType, FS_CardinalityType
<1>2. T # {}
  OBVIOUS
<1>3. PICK t \in T : \A m \in T : m <= t
  BY <1>1, <1>2, GreatestNat
<1>4. PICK u \in S : t = AtMost(x, u)
  BY <1>3
<1>5. ASSUME NEW w \in S, u < w PROVE FALSE
  <2>1. w \in Range(x) /\ w \in Int /\ u \in Int
    BY <1>r
  <2>2. AtMost(x, u) <= Below(x, w) /\ Below(x, w) < AtMost(x, w)
    BY <1>5, <2>1, HigherCount
  <2>3. AtMost(x, w) <= AtMost(x, u)
    BY <1>3, <1>4
  <2>4. AtMost(x, u) \in Int /\ AtMost(x, w) \in Int /\ Below(x, w) \in Int
    BY <2>1, CountNat
  <2> QED BY <2>2, <2>3, <2>4
<1>6. ASSUME NEW w \in S PROVE w <= u
  BY <1>5, <1>r, u \in Int, w \in Int
<1> QED BY <1>6

\* A place in the sorted readings holds one.
LEMMA RankedHolds ==
  ASSUME NEW D, IsFiniteSet(D), NEW x \in [D -> Int], NEW k \in 1 .. Cardinality(D)
  PROVE  /\ Ranked(x, k) \in Int /\ Ranked(x, k) \in Range(x)
         /\ Below(x, Ranked(x, k)) < k /\ k <= AtMost(x, Ranked(x, k))
<1> DEFINE n == Cardinality(D)
           P(v) == Below(x, v) < k /\ k <= AtMost(x, v)
<1>0. n \in Nat /\ DOMAIN x = D /\ k \in Nat /\ k >= 1 /\ k <= n
  BY FS_CardinalityType
<1>r. Range(x) \subseteq Int /\ \A i \in D : x[i] \in Range(x)
  BY DEF Range
<1>1. D # {}
  BY <1>0, FS_EmptySet
<1>2. PICK top \in Range(x) : \A w \in Range(x) : w <= top
  BY <1>1, <1>r, LargestReading
<1>3. AtMost(x, top) = n
  <2>1. {i \in D : x[i] <= top} = D
    BY <1>2, <1>r
  <2> QED BY <1>0, <2>1 DEF AtMost
<1> DEFINE T == {AtMost(x, w) : w \in {v \in Range(x) : k <= AtMost(x, v)}}
<1>4. T \subseteq Nat /\ T # {}
  <2>1. n \in T
    BY <1>0, <1>3
  <2>2. \A v \in Int : AtMost(x, v) \in Nat
    BY CountNat
  <2> QED BY <2>1, <2>2, <1>r
<1>5. PICK t \in T : \A m \in T : t <= m
  BY <1>4, LeastNat
<1>6. PICK v \in Range(x) : k <= AtMost(x, v) /\ t = AtMost(x, v)
  BY <1>5
<1>7. ASSUME k <= Below(x, v) PROVE FALSE
  <2> DEFINE lower == {u \in Range(x) : u < v}
  <2>1. v \in Int /\ Below(x, v) \in Nat
    BY <1>r, CountNat
  <2>2. lower # {}
    <3>1. {i \in D : x[i] < v} # {}
      BY <1>0, <1>7, <2>1, FS_EmptySet DEF Below
    <3> QED BY <1>r, <3>1
  <2>3. PICK u \in lower : \A w \in lower : w <= u
    BY <2>2, LargestReading
  <2>4. u \in Int /\ u < v /\ u \in Range(x)
    BY <1>r
  <2>5. AtMost(x, u) = Below(x, v)
    <3>1. {i \in D : x[i] <= u} = {i \in D : x[i] < v}
      <4>1. ASSUME NEW i \in D PROVE x[i] <= u <=> x[i] < v
        <5>1. x[i] \in Int /\ x[i] \in Range(x)
          BY <1>r
        <5>2. x[i] < v => x[i] \in lower
          BY <5>1
        <5> QED BY <2>1, <2>3, <2>4, <5>1, <5>2
      <4> QED BY <4>1
    <3> QED BY <1>0, <3>1 DEF AtMost, Below
  <2>6. Below(x, v) < AtMost(x, v)
    BY <2>4, HigherCount
  <2>7. AtMost(x, u) \in T
    BY <1>7, <2>4, <2>5
  <2>8. AtMost(x, v) <= AtMost(x, u)
    BY <1>5, <1>6, <2>7
  <2>9. AtMost(x, v) \in Nat
    BY <2>1, CountNat
  <2> QED BY <2>1, <2>5, <2>6, <2>8, <2>9
<1>8. P(v)
  <2>1. Below(x, v) \in Nat
    BY <1>6, <1>r, CountNat
  <2> QED BY <1>0, <1>6, <1>7, <2>1
<1>9. Ranked(x, k) = CHOOSE w \in Range(x) : P(w)
  BY DEF Ranked, AtMost, Below
<1> HIDE DEF P
<1>10. Ranked(x, k) \in Range(x) /\ P(Ranked(x, k))
  BY <1>6, <1>8, <1>9
<1> QED BY <1>10, <1>r DEF P

\* At most half of the readings are above the median.
LEMMA FewAbove ==
  ASSUME NEW D, IsFiniteSet(D), NEW x \in [D -> Int], D # {}
  PROVE  /\ Baseline(x) \in Int
         /\ 2 * Cardinality({i \in D : 2 * x[i] > Baseline(x)}) <= Cardinality(D)
         /\ (\A i \in D : x[i] >= 0) => Baseline(x) >= 0
<1> DEFINE n == Cardinality(D)
           mid == n \div 2
           above == {i \in D : 2 * x[i] > Baseline(x)}
           Upper(r) == {i \in D : x[i] > r}
<1>0. n \in Nat /\ n # 0 /\ DOMAIN x = D
  BY FS_CardinalityType, FS_EmptySet
<1>m. mid \in Nat /\ (n = 2 * mid \/ n = 2 * mid + 1) /\ (n % 2 = 1 <=> n = 2 * mid + 1)
  BY <1>0
<1>a. Baseline(x) = IF n % 2 = 1 THEN 2 * Ranked(x, mid + 1) ELSE Ranked(x, mid) + Ranked(x, mid + 1)
  BY <1>0 DEF Baseline
<1>1. ASSUME NEW r \in Int
      PROVE  IsFiniteSet(Upper(r)) /\ Cardinality(Upper(r)) = n - AtMost(x, r)
  <2> DEFINE A == {i \in D : x[i] <= r}
  <2>1. A \cup Upper(r) = D /\ A \cap Upper(r) = {} /\ Upper(r) \subseteq D
    OBVIOUS
  <2>2. IsFiniteSet(A) /\ IsFiniteSet(Upper(r))
    BY <2>1, CountType, FS_Subset
  <2>3. AtMost(x, r) = Cardinality(A)
    BY <1>0 DEF AtMost
  <2> HIDE DEF A
  <2>4. n = Cardinality(A) + Cardinality(Upper(r)) - 0
    BY <2>1, <2>2, FS_Union, FS_EmptySet
  <2>5. Cardinality(A) \in Nat /\ Cardinality(Upper(r)) \in Nat
    BY <2>2, FS_CardinalityType
  <2> HIDE DEF Upper
  <2> QED BY <1>0, <2>2, <2>3, <2>4, <2>5
<1>2. ASSUME NEW r \in Int, above \subseteq Upper(r), mid <= AtMost(x, r), n = 2 * mid + 1 => mid < AtMost(x, r)
      PROVE  2 * Cardinality(above) <= n
  <2>1. Cardinality(above) <= Cardinality(Upper(r)) /\ IsFiniteSet(above)
    BY <1>1, <1>2, FS_Subset
  <2>2. AtMost(x, r) \in Nat /\ Cardinality(above) \in Nat
    BY <2>1, CountNat, FS_CardinalityType
  <2>3. Cardinality(Upper(r)) = n - AtMost(x, r)
    BY <1>1
  <2> HIDE DEF above, Upper, mid, n
  <2> QED BY <1>0, <1>m, <1>2, <2>1, <2>2, <2>3
<1>n. ASSUME NEW k \in 1 .. n, \A i \in D : x[i] >= 0 PROVE Ranked(x, k) >= 0
  <2>1. Ranked(x, k) \in Int /\ k <= AtMost(x, Ranked(x, k)) /\ AtMost(x, Ranked(x, k)) \in Nat
    BY RankedHolds, CountNat
  <2>2. {i \in D : x[i] <= Ranked(x, k)} # {}
    BY <1>0, <2>1, FS_EmptySet DEF AtMost
  <2> QED BY <1>n, <2>1, <2>2
<1>3. CASE n = 2 * mid + 1
  <2>1. mid + 1 \in 1 .. n
    BY <1>0, <1>m, <1>3
  <2> DEFINE r == Ranked(x, mid + 1)
  <2>2. r \in Int /\ mid + 1 <= AtMost(x, r) /\ AtMost(x, r) \in Nat
    BY <2>1, RankedHolds, CountNat
  <2>3. Baseline(x) = 2 * r
    BY <1>a, <1>m, <1>3
  <2>4. (\A i \in D : x[i] >= 0) => r >= 0
    BY <2>1, <1>n
  <2> HIDE DEF r
  <2>5. above \subseteq Upper(r)
    BY <2>2, <2>3
  <2> QED BY <1>2, <1>m, <2>2, <2>3, <2>4, <2>5
<1>4. CASE n = 2 * mid
  <2>1. mid \in 1 .. n /\ mid + 1 \in 1 .. n
    BY <1>0, <1>m, <1>4
  <2> DEFINE r == Ranked(x, mid)
             s == Ranked(x, mid + 1)
  <2>2. /\ r \in Int /\ s \in Int /\ Below(x, r) < mid /\ mid <= AtMost(x, r) /\ mid + 1 <= AtMost(x, s)
        /\ r \in Range(x)
    <3>1. /\ r \in Int /\ s \in Int /\ Below(x, r) < mid /\ mid <= AtMost(x, r) /\ mid + 1 <= AtMost(x, s)
      BY <2>1, RankedHolds
    <3>2. r \in Range(x)
      BY <2>1, RankedHolds
    <3> QED BY <3>1, <3>2
  <2>3. Baseline(x) = r + s
    BY <1>a, <1>m, <1>4
  <2>4. (\A i \in D : x[i] >= 0) => r >= 0 /\ s >= 0
    BY <2>1, <1>n
  <2> HIDE DEF r, s
  <2>5. r <= s
    <3>1. ASSUME s < r PROVE FALSE
      <4>1. AtMost(x, s) <= Below(x, r)
        BY <2>2, <3>1, HigherCount
      <4>2. AtMost(x, s) \in Nat /\ Below(x, r) \in Nat
        BY <2>2, CountNat
      <4> QED BY <1>m, <2>2, <4>1, <4>2
    <3> QED BY <2>2, <3>1
  <2>6. above \subseteq Upper(r)
    BY <2>2, <2>3, <2>5
  <2> QED BY <1>2, <1>m, <1>4, <2>2, <2>3, <2>4, <2>6
<1> QED BY <1>m, <1>3, <1>4

\* What a reading tolerates, in hundredths.
Tolerance(drift, value) == IF drift.percent THEN drift.maxDrop * Abs(value) ELSE 100 * drift.maxDrop

LEMMA MonotoneProduct ==
  ASSUME NEW a \in Nat, NEW b \in Int, NEW c \in Int, b <= c
  PROVE  a * b <= a * c /\ a * b \in Int /\ a * c \in Int
<1>1. a * (c - b) >= 0
  OBVIOUS
<1>2. a * (c - b) = a * c - a * b
  OBVIOUS
<1> QED BY <1>1, <1>2

\* A reading the value is beyond the tolerance of lies above the baseline the
\* value is within the tolerance of.
LEMMA BeyondIsAbove ==
  ASSUME NEW value \in Int, NEW baseline \in Int, NEW reading \in Int,
         NEW drift, drift.maxDrop \in Nat, drift.percent \in BOOLEAN,
         DriftHolds(value, baseline, drift),
         (reading - value) * 100 > Tolerance(drift, reading),
         \/ drift.percent => drift.maxDrop <= 100
         \/ value >= 0 /\ reading >= 0 /\ baseline >= 0
  PROVE  2 * reading > baseline
<1> DEFINE d == drift.maxDrop
<1>0. d \in Nat
  OBVIOUS
<1>1. CASE ~drift.percent
  <2>1. (reading - value) * 100 > 100 * d
    BY <1>1 DEF Tolerance
  <2>2. baseline - 2 * value <= 0 \/ baseline - 2 * value <= 2 * d
    BY <1>1 DEF DriftHolds
  <2> HIDE DEF d
  <2> QED BY <1>0, <2>1, <2>2
<1>2. CASE drift.percent
  <2>1. (reading - value) * 100 > d * Abs(reading)
    BY <1>2 DEF Tolerance
  <2>2. \/ baseline - 2 * value <= 0
        \/ (baseline - 2 * value) * 100 <= d * Abs(baseline)
    BY <1>2 DEF DriftHolds
  <2>3. Abs(reading) \in Nat /\ Abs(baseline) \in Nat
    BY DEF Abs
  <2>4. d * Abs(reading) \in Nat
    <3>1. ASSUME NEW a \in Nat, NEW b \in Nat PROVE a * b \in Nat
      OBVIOUS
    <3> QED BY <1>0, <2>3, <3>1
  <2>5. CASE baseline - 2 * value <= 0
    <3> HIDE DEF d
    <3>1. ASSUME NEW t \in Nat, t = d * Abs(reading) PROVE 2 * reading > baseline
      BY <2>1, <2>5, <3>1
    <3> QED BY <2>4, <3>1
  <2>6. CASE (baseline - 2 * value) * 100 <= d * Abs(baseline)
    <3> SUFFICES ASSUME 2 * reading <= baseline PROVE FALSE
      OBVIOUS
    <3> HIDE DEF d
    <3>p. drift.percent = TRUE
      BY <1>2
    <3>1. CASE d <= 100 /\ baseline >= 0 /\ reading >= 0
      <4>1. PICK k \in Nat : k = 100 - d
        BY <1>0, <3>1
      <4>2. k * (2 * reading) <= k * baseline
        BY MonotoneProduct
      <4>3. Abs(reading) = reading /\ Abs(baseline) = baseline
        BY <3>1 DEF Abs
      <4>4. d = 100 - k
        BY <1>0, <4>1
      <4>5. (reading - value) * 100 > 100 * reading - k * reading
        BY <2>1, <4>3, <4>4
      <4>6. (baseline - 2 * value) * 100 <= 100 * baseline - k * baseline
        BY <2>6, <4>3, <4>4
      <4>7. k * (2 * reading) = 2 * (k * reading)
        OBVIOUS
      <4> QED BY <4>2, <4>5, <4>6, <4>7
    <3>2. CASE d <= 100 /\ baseline < 0
      <4>1. PICK k \in Nat : k = 100 + d
        BY <1>0
      <4>2. k * (2 * reading) <= k * baseline
        BY MonotoneProduct
      <4>3. Abs(reading) = -reading /\ Abs(baseline) = -baseline
        BY <3>2 DEF Abs
      <4>4. d = k - 100
        BY <1>0, <4>1
      <4>5. (reading - value) * 100 > 100 * reading - k * reading
        BY <2>1, <4>3, <4>4
      <4>6. (baseline - 2 * value) * 100 <= 100 * baseline - k * baseline
        BY <2>6, <4>3, <4>4
      <4>7. k * (2 * reading) = 2 * (k * reading)
        OBVIOUS
      <4> QED BY <4>2, <4>5, <4>6, <4>7
    <3>3. CASE d <= 100 /\ baseline >= 0 /\ reading < 0
      <4>3. Abs(reading) = -reading /\ Abs(baseline) = baseline
        BY <3>3 DEF Abs
      <4>1. d * (-reading) \in Nat
        BY <2>4, <4>3
      <4>2. (reading - value) * 100 > d * (-reading)
        BY <2>1, <4>3
      <4>4. PICK k \in Nat : k = 100 - d
        BY <1>0, <3>3
      <4>5. d = 100 - k
        BY <1>0, <4>4
      <4>6. (baseline - 2 * value) * 100 <= 100 * baseline - k * baseline
        BY <2>6, <4>3, <4>5
      <4>7. k * baseline \in Int /\ k * baseline >= 0
        <5>1. baseline \in Nat
          BY <3>3
        <5> QED BY <5>1
      <4>8. value < 0
        BY <3>3, <4>1, <4>2
      <4> QED BY <3>3, <4>1, <4>2, <4>6, <4>7, <4>8
    <3>4. CASE d > 100
      <4>1. value >= 0 /\ reading >= 0 /\ Abs(reading) = reading
        BY <3>4, <1>0, <3>p DEF Abs, d
      <4>2. 100 * reading <= d * reading
        <5>1. reading * 100 <= reading * d
          BY <1>0, <3>4, <4>1, MonotoneProduct, reading \in Nat
        <5> QED BY <1>0, <5>1
      <4>3. PICK t \in Int : t = d * reading
        BY <1>0
      <4> QED BY <2>1, <4>1, <4>2, <4>3
    <3> QED BY <1>0, <3>1, <3>2, <3>3, <3>4
  <2> QED BY <2>2, <2>5, <2>6
<1> QED BY <1>1, <1>2

-----------------------------------------------------------------------------
(* The vote of the readings on the one that is judged.                     *)

\* What a judgement of the drift rests on.
JudgedBy(c, w, r) ==
  r.judged =>
    /\ c.drift # Nil /\ DOMAIN w # {} /\ r.value \in Contents
    /\ r.status = "pass" \/ r.status = "fail"
    /\ r.status = "pass" => DriftHolds(r.value, Baseline(w), c.drift)

LEMMA UnjudgedOutcome ==
  ASSUME NEW c, NEW w, NEW status, NEW value
  PROVE  JudgedBy(c, w, Outcome(status, value))
  BY DEF JudgedBy, Outcome

LEMMA CaptureJudged ==
  ASSUME NEW c, NEW e, NEW v \in Contents, NEW w
  PROVE  JudgedBy(c, w, EvaluateCapture(c, e, v, w))
<1> DEFINE value == ParseCaptured(e, v)
           judged == e.past = "read" /\ DOMAIN w # {}
           held == DriftHolds(value, Baseline(w), c.drift)
           last == [status |-> IF held THEN "pass" ELSE "fail", value |-> value, judged |-> TRUE]
<1>1. \/ \E status : EvaluateCapture(c, e, v, w) = Outcome(status, value)
      \/ value # Nil /\ c.drift # Nil /\ judged /\ EvaluateCapture(c, e, v, w) = last
  BY DEF EvaluateCapture
<1>2. value # Nil => value \in Contents
  BY DEF ParseCaptured
<1>3. /\ last.value = value /\ last.status = (IF held THEN "pass" ELSE "fail")
  OBVIOUS
<1> HIDE DEF value, last, held
<1>4. ASSUME value # Nil, c.drift # Nil, judged, NEW r, r = last PROVE JudgedBy(c, w, r)
  BY <1>2, <1>3, <1>4 DEF JudgedBy, held
<1> QED BY <1>1, <1>4, UnjudgedOutcome

LEMMA RunOneJudged ==
  ASSUME NEW c, c.type \in CheckTypeNames, NEW e, NEW v \in Contents, NEW w
  PROVE  JudgedBy(c, w, RunOne(c, e, v, w))
<1>1. \/ \E status, value : CommandRun(c, e, v, w) = Outcome(status, value)
      \/ CommandRun(c, e, v, w) = EvaluateCapture(c, e, v, w)
  BY DEF CommandRun
<1>2. JudgedBy(c, w, CommandRun(c, e, v, w))
  BY <1>1, CaptureJudged, UnjudgedOutcome
<1>3. \/ \E status, value : Attempt(c, e, v, w) = Outcome(status, value)
      \/ Attempt(c, e, v, w) = CommandRun(c, e, v, w)
  BY DEF Attempt, CheckTypeNames
<1>4. JudgedBy(c, w, Attempt(c, e, v, w))
  BY <1>2, <1>3, UnjudgedOutcome
<1>5. \/ \E status, value : RunOne(c, e, v, w) = Outcome(status, value)
      \/ RunOne(c, e, v, w) = Attempt(c, e, v, w)
  BY DEF RunOne
<1> QED BY <1>4, <1>5, UnjudgedOutcome

\* The drills whose readings drill n is judged against, and those among them
\* whose tolerance its value is beyond.
Votes(runs, n) ==
  NewestOf({i \in 1 .. n - 1 : Reached(runs[i]) /\ runs[i].value # Nil}, DriftWindow)
Against(runs, c, n) ==
  {i \in Votes(runs, n) : (runs[i].value - runs[n].value) * 100 > Tolerance(c.drift, runs[i].value)}
Outvoted(runs, c, n) ==
  runs[n].judged /\ runs[n].result = "SUCCESS" =>
    /\ Votes(runs, n) # {}
    /\ 2 * Cardinality(Against(runs, c, n)) <= Cardinality(Votes(runs, n))

\* A percentage above a hundred is one no count can fall by.
Tolerances ==
  \A c \in Checks : c.drift # Nil /\ c.drift.percent => c.drift.maxDrop <= 100 \/ Contents \subseteq Nat

VotesInv == ClaimsInv /\ \A n \in DOMAIN drills : Outvoted(drills, check, n)

LEMMA VotesAreBefore ==
  ASSUME NEW n \in Nat, NEW runs
  PROVE  Votes(runs, n) \subseteq 1 .. n - 1 /\ \A i \in Votes(runs, n) : runs[i].value # Nil
  BY DEF Votes, NewestOf

\* Only the drills up to one decide about it.
LEMMA VotesStay ==
  ASSUME NEW n \in Nat, NEW runs, NEW more, NEW c, \A i \in 1 .. n : more[i] = runs[i],
         n > 0, Outvoted(runs, c, n)
  PROVE  Outvoted(more, c, n)
<1> DEFINE R(x) == {i \in 1 .. n - 1 : Reached(x[i]) /\ x[i].value # Nil}
<1>0. n \in 1 .. n /\ \A i \in 1 .. n - 1 : i \in 1 .. n
  OBVIOUS
<1>1. R(more) = R(runs)
  BY <1>0
<1>2. Votes(more, n) = Votes(runs, n)
  <2>1. Votes(more, n) = NewestOf(R(more), DriftWindow) /\ Votes(runs, n) = NewestOf(R(runs), DriftWindow)
    BY DEF Votes
  <2> HIDE DEF R
  <2> QED BY <1>1, <2>1
<1>3. Votes(runs, n) \subseteq 1 .. n - 1
  BY VotesAreBefore
<1>4. more[n] = runs[n] /\ \A i \in Votes(runs, n) : more[i] = runs[i]
  BY <1>0, <1>3
<1>5. Against(more, c, n) = Against(runs, c, n)
  BY <1>2, <1>4 DEF Against
<1> QED BY <1>2, <1>4, <1>5 DEF Outvoted

\* The readings a drill under way is judged against.
LEMMA WindowIsVotes ==
  ASSUME ClaimsInv, NEW run, Recorded(run)
  PROVE  LET last == Len(drills)
             w == CapturedValues(drills)
         IN  /\ IsFiniteSet(Votes(drills', last)) /\ w \in [Votes(drills', last) -> Int]
             /\ \A i \in Votes(drills', last) : w[i] = drills'[i].value /\ w[i] \in Contents
<1> DEFINE last == Len(drills)
           w == CapturedValues(drills)
           R(x) == {i \in 1 .. last - 1 : Reached(x[i]) /\ x[i].value # Nil}
           R0 == {j \in DOMAIN drills : Reached(drills[j]) /\ drills[j].value # Nil}
           D == Votes(drills', last)
<1>1. /\ last \in Nat \ {0} /\ last \in 1 .. last /\ DOMAIN drills = 1 .. last
      /\ \A i \in 1 .. last - 1 : drills'[i] = drills[i] /\ drills[i] \in Drills
  <2>1. last \in Nat \ {0} /\ DOMAIN drills = 1 .. last /\ \A i \in 1 .. last : drills[i] \in Drills
    BY LenProperties, ElementOfSeq DEF ClaimsInv, Recorded
  <2> QED BY <2>1 DEF Recorded
<1>2. ~Reached(drills[last])
  BY <1>1 DEF ClaimsInv, Plain, Recorded, Reached
<1>3. R0 = R(drills)
  <2>1. ASSUME NEW i \in 1 .. last, Reached(drills[i]) PROVE i \in 1 .. last - 1
    BY <1>1, <1>2, <2>1
  <2>2. 1 .. last - 1 \subseteq 1 .. last
    BY <1>1
  <2> QED BY <1>1, <2>1, <2>2
<1>4. R(drills) = R(drills')
  BY <1>1
<1>5. w = [i \in D |-> drills[i].value]
  <2>1. w = [i \in NewestOf(R0, DriftWindow) |-> drills[i].value]
    BY DEF CapturedValues
  <2>2. D = NewestOf(R(drills'), DriftWindow)
    BY DEF Votes
  <2> HIDE DEF R, R0, w, D
  <2> QED BY <1>3, <1>4, <2>1, <2>2
<1>6. D \subseteq 1 .. last - 1 /\ \A i \in D : drills'[i].value # Nil
  BY <1>1, VotesAreBefore
<1>7. IsFiniteSet(D)
  <2>1. IsFiniteSet(1 .. last - 1)
    BY <1>1, FS_Interval
  <2> QED BY <1>6, <2>1, FS_Subset
<1> HIDE DEF D, w
<1>8. ASSUME NEW i \in D PROVE drills[i].value = drills'[i].value /\ drills[i].value \in Contents
  <2>1. drills'[i] = drills[i] /\ drills[i] \in Drills /\ drills[i].value # Nil
    BY <1>1, <1>6
  <2> QED BY <2>1 DEF Drills, Values
<1>9. Contents \subseteq Int
  BY AssuranceAssumption
<1> QED BY <1>5, <1>7, <1>8, <1>9 DEF D, w

\* The vote on a drill whose drift held.
LEMMA HeldIsOutvoted ==
  ASSUME Tolerances, ClaimsInv, NEW run, Recorded(run), check.drift # Nil,
         DOMAIN CapturedValues(drills) # {}, run.value \in Contents,
         DriftHolds(run.value, Baseline(CapturedValues(drills)), check.drift)
  PROVE  Outvoted(drills', check, Len(drills))
<1> DEFINE last == Len(drills)
           w == CapturedValues(drills)
           D == Votes(drills', last)
           A == Against(drills', check, last)
           above == {i \in D : 2 * w[i] > Baseline(w)}
<1>1. /\ IsFiniteSet(D) /\ w \in [D -> Int]
      /\ \A i \in D : w[i] = drills'[i].value /\ w[i] \in Contents
  BY WindowIsVotes
<1>2. /\ drills'[last] = run /\ run.value \in Int /\ Contents \subseteq Int /\ check \in Checks
      /\ check.drift.maxDrop \in Nat /\ check.drift.percent \in BOOLEAN
  BY AssuranceAssumption DEF Recorded, ClaimsInv
<1>3. D # {}
  BY <1>1
<1> HIDE DEF D, w
<1>4. /\ Baseline(w) \in Int /\ 2 * Cardinality(above) <= Cardinality(D)
      /\ (\A i \in D : w[i] >= 0) => Baseline(w) >= 0
  BY <1>1, <1>3, FewAbove
<1>5. ASSUME NEW i \in A PROVE i \in above
  <2>1. i \in D /\ (w[i] - run.value) * 100 > Tolerance(check.drift, w[i]) /\ w[i] \in Int
    BY <1>1, <1>2 DEF Against, D
  <2>2. \/ check.drift.percent => check.drift.maxDrop <= 100
        \/ run.value >= 0 /\ w[i] >= 0 /\ Baseline(w) >= 0
    <3>1. CASE Contents \subseteq Nat
      <4>0. \A x \in Contents : x >= 0
        BY <3>1
      <4>1. run.value >= 0 /\ \A j \in D : w[j] >= 0
        BY <1>1, <4>0
      <4> QED BY <1>4, <2>1, <4>1
    <3>2. CASE check.drift.percent => check.drift.maxDrop <= 100
      BY <3>2
    <3> QED BY <1>2, <3>1, <3>2 DEF Tolerances
  <2>3. DriftHolds(run.value, Baseline(w), check.drift)
    BY DEF w
  <2>4. 2 * w[i] > Baseline(w)
    BY <1>2, <1>4, <2>1, <2>2, <2>3, BeyondIsAbove
  <2> QED BY <2>1, <2>4
<1>6. IsFiniteSet(above)
  BY <1>1, FS_Subset
<1> HIDE DEF A, above
<1>7. Cardinality(A) <= Cardinality(above) /\ IsFiniteSet(A)
  BY <1>5, <1>6, FS_Subset
<1>8. Cardinality(A) \in Nat /\ Cardinality(above) \in Nat /\ Cardinality(D) \in Nat
  BY <1>1, <1>6, <1>7, FS_CardinalityType
<1>9. 2 * Cardinality(A) <= Cardinality(D)
  BY <1>4, <1>7, <1>8
<1> QED BY <1>3, <1>9 DEF Outvoted, A, D

\* A record keeps the votes on the drills before it.
LEMMA RecordVotes ==
  ASSUME VotesInv, ClaimsInv', NEW run, Recorded(run),
         run.judged /\ run.result = "SUCCESS" => Outvoted(drills', check, Len(drills))
  PROVE  VotesInv'
<1> DEFINE last == Len(drills)
<1>1. /\ last \in Nat \ {0} /\ DOMAIN drills = 1 .. last /\ DOMAIN drills' = 1 .. last
      /\ check' = check /\ drills'[last] = run
      /\ \A n \in 1 .. last : n # last => drills'[n] = drills[n]
  BY LenProperties DEF VotesInv, ClaimsInv, Recorded
<1>2. Outvoted(drills', check, last)
  BY <1>1 DEF Outvoted
<1>3. ASSUME NEW n \in 1 .. last, n # last PROVE Outvoted(drills', check, n)
  <2>0. n \in Nat /\ n > 0 /\ \A i \in 1 .. n : i \in 1 .. last /\ i # last
    BY <1>1, <1>3, EarlierOnes
  <2>1. n \in Nat /\ n > 0 /\ \A i \in 1 .. n : drills'[i] = drills[i]
    BY <1>1, <2>0
  <2>2. Outvoted(drills, check, n)
    BY <1>1 DEF VotesInv
  <2> QED BY <2>1, <2>2, VotesStay
<1> QED BY <1>1, <1>2, <1>3 DEF VotesInv

LEMMA StartVotes ==
  ASSUME VotesInv, Start
  PROVE  VotesInv'
<1> DEFINE last == Len(drills)
           run == Fresh(Period * last)
<1>1. Queueing(run) /\ ClaimsInv'
  BY StartIs, StartStep DEF VotesInv
<1>2. run.judged = FALSE
  BY DEF Fresh
<1> HIDE DEF run
<1>3. /\ last \in Nat /\ DOMAIN drills = 1 .. last /\ DOMAIN drills' = 1 .. last + 1 /\ check' = check
      /\ drills'[last + 1] = run /\ \A i \in 1 .. last : drills'[i] = drills[i]
  BY <1>1, LenProperties DEF VotesInv, ClaimsInv, Queueing
<1>4. Outvoted(drills', check, last + 1)
  BY <1>2, <1>3 DEF Outvoted
<1>5. ASSUME NEW n \in 1 .. last PROVE Outvoted(drills', check, n)
  <2>1. n \in Nat /\ n > 0 /\ \A i \in 1 .. n : drills'[i] = drills[i]
    BY <1>3
  <2>2. Outvoted(drills, check, n)
    BY <1>3 DEF VotesInv
  <2> QED BY <2>1, <2>2, VotesStay
<1>6. ASSUME NEW n \in DOMAIN drills' PROVE Outvoted(drills', check', n)
  <2>1. n = last + 1 \/ n \in 1 .. last
    BY <1>3
  <2> QED BY <1>3, <1>4, <1>5, <2>1
<1> QED BY <1>1, <1>6 DEF VotesInv

LEMMA DrillVotes ==
  ASSUME Tolerances, VotesInv, NEW e \in Situations, NEW v \in Contents, NEW slow \in BOOLEAN,
         NEW cleaned \in BOOLEAN, Drill(e, v, slow, cleaned)
  PROVE  VotesInv'
<1> DEFINE r == RunOne(check, e, v, CapturedValues(drills))
           ending == Graded(IsCritical(check), r.status, e.dial = "cancelled", slow)
           level == Earned(check, r.status, e.up)
           run == Ending(ending[1], ending[2], level, r.value, r.judged, slow, cleaned,
                         drills[Len(drills)].day)
<1>0. ClaimsInv /\ ClaimsInv' /\ e \in Circumstances /\ check.type \in CheckTypeNames
  BY DrillStep, AssuranceAssumption DEF VotesInv, ClaimsInv
<1>1. JudgedBy(check, CapturedValues(drills), r)
  BY <1>0, RunOneJudged
<1>2. Sound(check, e, r)
  BY <1>0, RunOneSound
<1>3. /\ ending[1] \in States /\ ending[2] \in Results
      /\ ending[2] = "SUCCESS" => r.status # "fail"
  <2> DEFINE critical == IsCritical(check)
             cancelled == e.dial = "cancelled"
  <2>1. cancelled \in BOOLEAN /\ r.status \in {"pass", "fail", "error"}
    BY <1>2 DEF Sound
  <2> HIDE DEF r, critical, cancelled
  <2>2. ASSUME NEW g, g = Graded(critical, r.status, cancelled, slow)
        PROVE  /\ g[1] \in States /\ g[2] \in Results
               /\ g[2] = "SUCCESS" => r.status # "fail"
    BY <2>1, <2>2, GradedEndings
  <2> QED BY <2>2 DEF critical, cancelled
<1>4. Recorded(run)
  <2>1. Record(ending[1], ending[2], level, r.value, r.judged, slow, cleaned)
    BY DEF Drill
  <2>2. level \in Levels /\ r.value \in Values /\ r.judged \in BOOLEAN
    BY <1>2, EarnedType DEF Sound
  <2> HIDE DEF r, ending, level
  <2>3. ASSUME NEW state \in States, NEW result \in Results, state = ending[1], result = ending[2]
        PROVE  Recorded(run)
    BY <1>0, <2>1, <2>2, <2>3, RecordIs
  <2> QED BY <1>3, <2>3
<1>5. run.judged = r.judged /\ run.value = r.value /\ run.result = ending[2]
  BY DEF Ending
<1> HIDE DEF r, ending, level, run
<1>6. ASSUME run.judged, run.result = "SUCCESS" PROVE Outvoted(drills', check, Len(drills))
  <2>1. /\ check.drift # Nil /\ DOMAIN CapturedValues(drills) # {} /\ run.value \in Contents
        /\ DriftHolds(run.value, Baseline(CapturedValues(drills)), check.drift)
    BY <1>1, <1>3, <1>5, <1>6 DEF JudgedBy
  <2> QED BY <1>0, <1>4, <2>1, HeldIsOutvoted
<1> QED BY <1>0, <1>4, <1>6, RecordVotes

(***************************************************************************)
(* A collapse is not the new normal on the second night, for every window, *)
(* history and tolerance: when a drill whose drift was judged passes, its  *)
(* value was beyond the tolerance of at most half of the readings it was   *)
(* judged against. The hypothesis is about percentages above a hundred,    *)
(* which mean something only for values that can be negative (values.go,   *)
(* Baseline and CheckDrift).                                               *)
(***************************************************************************)
THEOREM CollapseOutvoted ==
  ASSUME Tolerances
  PROVE  AssuranceSpec => []CollapseIsOutvoted
<1>1. AssuranceInit => VotesInv
  BY EmptySeq DEF AssuranceInit, ClaimsInv, VotesInv
<1>2. VotesInv /\ [AssuranceNext]_assuranceVars => VotesInv'
  <2> SUFFICES ASSUME VotesInv, [AssuranceNext]_assuranceVars PROVE VotesInv'
    OBVIOUS
  <2>0. ClaimsInv /\ ClaimsInv'
    BY ClaimsStep DEF VotesInv
  <2>1. ASSUME NEW level \in {"NONE", "BOOT"}, NEW cleaned \in BOOLEAN, FailEarly(level, cleaned)
        PROVE  VotesInv'
    <3> DEFINE run == Ending("FAILED", "FAILED", level, Nil, FALSE, FALSE, cleaned, drills[Len(drills)].day)
    <3>1. "FAILED" \in States /\ "FAILED" \in Results /\ level \in Levels /\ Nil \in Values
      BY DEF States, Results, Levels, Values
    <3>2. Record("FAILED", "FAILED", level, Nil, FALSE, FALSE, cleaned)
      BY <2>1 DEF FailEarly
    <3>3. Recorded(run)
      BY <2>0, <3>1, <3>2, RecordIs
    <3>4. run.judged = FALSE
      BY DEF Ending
    <3> HIDE DEF run
    <3> QED BY <2>0, <3>3, <3>4, RecordVotes
  <2>2. CASE UNCHANGED assuranceVars
    BY <2>2 DEF assuranceVars, VotesInv, ClaimsInv
  <2> QED BY <2>1, <2>2, StartVotes, DrillVotes DEF AssuranceNext
<1>3. VotesInv => CollapseIsOutvoted
  <2> SUFFICES ASSUME VotesInv, NEW n \in DOMAIN drills, drills[n].judged, drills[n].result = "SUCCESS"
               PROVE  /\ Votes(drills, n) # {}
                      /\ 2 * Cardinality({i \in Votes(drills, n) :
                                            (drills[i].value - drills[n].value) * 100 >
                                              Tolerance(check.drift, drills[i].value)})
                           <= Cardinality(Votes(drills, n))
    BY DEF CollapseIsOutvoted, Votes, Tolerance
  <2> QED BY DEF VotesInv, Outvoted, Against
<1> QED BY <1>1, <1>2, <1>3, PTL DEF AssuranceSpec

-----------------------------------------------------------------------------
(* The confidence: the rounded failure rate, and the score.                *)

\* The failure rate, by its rounding.
LEMMA RateIs ==
  ASSUME NEW f \in Nat, NEW c \in Nat \ {0}
  PROVE  /\ Rate(f, c) \in Nat /\ c * Rate(f, c) \in Nat
         /\ 2 * (c * Rate(f, c)) <= 60 * f + c
         /\ 60 * f + c + 1 <= 2 * (c * Rate(f, c)) + 2 * c
<1> DEFINE t == 60 * f + c
<1>1. Rate(f, c) = t \div (2 * c)
  <2>1. 2 * f * 30 = 60 * f
    OBVIOUS
  <2> QED BY <2>1 DEF Rate, Weights
<1>2. t \in Nat /\ 2 * c \in Nat \ {0}
  OBVIOUS
<1> HIDE DEF t
<1>3. ASSUME NEW a \in Nat, NEW b \in Nat \ {0}
      PROVE  a \div b \in Nat /\ b * (a \div b) <= a /\ a + 1 <= b * (a \div b) + b
  <2>1. a = b * (a \div b) + (a % b) /\ 0 <= a % b /\ a % b < b /\ a \div b \in Int /\ a % b \in Int
    OBVIOUS
  <2>2. a \div b >= 0
    OBVIOUS
  <2>3. b * (a \div b) \in Int
    BY <2>1
  <2> QED BY <2>1, <2>2, <2>3
<1>4. /\ Rate(f, c) \in Nat /\ (2 * c) * Rate(f, c) <= t /\ t + 1 <= (2 * c) * Rate(f, c) + 2 * c
  BY <1>1, <1>2, <1>3
<1>5. ASSUME NEW q \in Nat PROVE (2 * c) * q = 2 * (c * q) /\ c * q \in Nat
  OBVIOUS
<1> QED BY <1>4, <1>5 DEF t

\* Multiplying with a count keeps the order.
LEMMA Scaled ==
  ASSUME NEW c \in Nat, NEW p \in Nat, NEW q \in Nat, NEW d \in Nat, q >= p + d
  PROVE  c * q >= c * p + c * d /\ c * q \in Nat /\ c * p \in Nat /\ c * d \in Nat
<1>1. c * (q - p - d) >= 0
  <2>1. q - p - d \in Nat
    OBVIOUS
  <2>2. ASSUME NEW x \in Nat PROVE c * x \in Nat
    OBVIOUS
  <2> QED BY <2>1, <2>2
<1>2. c * (q - p - d) = c * q - c * p - c * d
  OBVIOUS
<1> QED BY <1>1, <1>2

LEMMA RateMax ==
  ASSUME NEW f \in Nat, NEW c \in Nat, f <= c
  PROVE  Rate(f, c) \in 0 .. 30
<1>1. CASE c = 0
  BY <1>1 DEF Rate
<1>2. CASE c # 0
  <2> DEFINE q == Rate(f, c)
  <2>1. q \in Nat /\ c * q \in Nat /\ 2 * (c * q) <= 60 * f + c
    BY <1>2, RateIs
  <2> HIDE DEF q
  <2>2. ASSUME q >= 0 + 31 PROVE FALSE
    <3>1. c * q >= c * 0 + c * 31
      BY <2>1, <2>2, Scaled
    <3> QED BY <1>2, <2>1, <3>1
  <2>3. q <= 30
    BY <2>1, <2>2
  <2> QED BY <2>1, <2>3 DEF q
<1> QED BY <1>1, <1>2

\* A success among the runs counted does not raise it.
LEMMA RateSuccess ==
  ASSUME NEW f \in Nat, NEW c \in Nat, f <= c
  PROVE  Rate(f, c + 1) <= Rate(f, c)
<1>1. CASE c = 0
  BY <1>1 DEF Rate, Weights
<1>2. CASE c # 0
  <2> DEFINE q == Rate(f, c)
             p == Rate(f, c + 1)
  <2>1. q \in Nat /\ c * q \in Nat /\ 60 * f + c + 1 <= 2 * (c * q) + 2 * c
    BY <1>2, RateIs
  <2>2. p \in Nat /\ 2 * ((c + 1) * p) <= 60 * f + (c + 1)
    BY RateIs, c + 1 \in Nat \ {0}
  <2> HIDE DEF p, q
  <2>3. (c + 1) * p = c * p + p /\ c * p \in Nat
    BY <2>2
  <2>4. ASSUME p >= q + 1 PROVE FALSE
    <3>1. c * p >= c * q + c * 1
      BY <2>1, <2>2, <2>4, Scaled
    <3> QED BY <2>1, <2>2, <2>3, <2>4, <3>1
  <2> QED BY <2>1, <2>2, <2>4 DEF p, q
<1> QED BY <1>1, <1>2

\* One more bad run raises it by no more than half of the maximum.
LEMMA RateBad ==
  ASSUME NEW f \in Nat, NEW c \in Nat \ {0}, f <= c
  PROVE  Rate(f + 1, c + 1) <= Rate(f, c) + 15
<1> DEFINE q == Rate(f, c)
           p == Rate(f + 1, c + 1)
<1>1. q \in Nat /\ c * q \in Nat /\ 60 * f + c + 1 <= 2 * (c * q) + 2 * c
  BY RateIs
<1>2. p \in Nat /\ 2 * ((c + 1) * p) <= 60 * (f + 1) + (c + 1)
  BY RateIs, c + 1 \in Nat \ {0}, f + 1 \in Nat
<1> HIDE DEF p, q
<1>3. (c + 1) * p = c * p + p /\ c * p \in Nat
  BY <1>2
<1>4. ASSUME p >= q + 16 PROVE FALSE
  <2>1. c * p >= c * q + c * 16
    BY <1>1, <1>2, <1>4, Scaled
  <2> QED BY <1>1, <1>2, <1>3, <1>4, <2>1
<1> QED BY <1>1, <1>2, <1>4 DEF p, q

\* One bad run less does not raise it.
LEMMA RateDrop ==
  ASSUME NEW f \in Nat, NEW c \in Nat, f <= c
  PROVE  Rate(f, c) <= Rate(f + 1, c + 1)
<1> DEFINE q == Rate(f + 1, c + 1)
           p == Rate(f, c)
<1>0. p \in 0 .. 30
  BY RateMax
<1>1. q \in Nat /\ (c + 1) * q \in Nat /\ 60 * (f + 1) + (c + 1) + 1 <= 2 * ((c + 1) * q) + 2 * (c + 1)
  BY RateIs, c + 1 \in Nat \ {0}, f + 1 \in Nat
<1>2. CASE c = 0
  <2>1. p = 0
    BY <1>2 DEF Rate
  <2> HIDE DEF p, q
  <2> QED BY <1>1, <2>1 DEF p, q
<1>3. CASE c # 0
  <2>1. c * p \in Nat /\ 2 * (c * p) <= 60 * f + c
    BY <1>3, RateIs
  <2> HIDE DEF p, q
  <2>2. (c + 1) * q = c * q + q /\ c * q \in Nat
    BY <1>1
  <2>3. ASSUME p >= q + 1 PROVE FALSE
    <3>1. c * p >= c * q + c * 1
      BY <1>0, <1>1, <2>3, Scaled
    <3> QED BY <1>0, <1>1, <2>1, <2>2, <2>3, <3>1
  <2> QED BY <1>0, <1>1, <2>3 DEF p, q
<1> QED BY <1>2, <1>3

\* The newest of some runs is theirs, and the last.
LEMMA NewestIs ==
  ASSUME NEW n \in Nat, NEW S \in SUBSET (1 .. n)
  PROVE  /\ S = {} => Newest(S) = 0
         /\ S # {} => Newest(S) \in S
         /\ \A m \in S : (\A j \in S : j <= m) => Newest(S) = m
<1>1. ASSUME S # {} PROVE Max(S) \in S /\ \A y \in S : Max(S) >= y
  <2>1. S \subseteq 0 .. n
    OBVIOUS
  <2>2. PICK x \in S : \A y \in S : y <= x
    BY <1>1, <2>1, GreatestNat
  <2>3. \A y \in S : x >= y
    BY <2>2
  <2> QED BY <2>2, <2>3 DEF Max
<1>2. S = {} => Newest(S) = 0
  BY DEF Newest
<1>3. S # {} => Newest(S) \in S
  BY <1>1 DEF Newest
<1>4. ASSUME NEW m \in S, \A j \in S : j <= m PROVE Newest(S) = m
  <2>1. Newest(S) \in S /\ Newest(S) >= m /\ Newest(S) <= m
    BY <1>1, <1>4 DEF Newest
  <2>2. Newest(S) \in Nat /\ m \in Nat
    <3>1. S \subseteq Nat
      OBVIOUS
    <3> QED BY <2>1, <3>1
  <2> QED BY <2>1, <2>2
<1> QED BY <1>2, <1>3, <1>4

LEMMA PageEnds ==
  ASSUME NEW n \in Nat, n > 1
  PROVE  /\ n - 1 \in Nat /\ n - 1 > 0 /\ n - 1 <= n /\ n # 0 /\ n \in 1 .. n
         /\ 0 \notin 1 .. n - 1 /\ \A j \in 1 .. n : j <= n
  OBVIOUS

\* What the score makes of penalties and ceiling.
Capped(penalty, ceiling) ==
  LET capped == IF 100 - penalty > ceiling THEN ceiling ELSE 100 - penalty
  IN  IF capped < 0 THEN 0 ELSE capped

LEMMA CappedGrows ==
  ASSUME NEW x \in Int, NEW y \in Int, NEW c \in Int, NEW d \in Int, x <= y, d <= c
  PROVE  Capped(x, c) >= Capped(y, d)
  BY DEF Capped

\* The runs of a page that count for the failure rate, and the bad ones.
Counted(runs, H) == Cardinality({i \in H : Reached(runs[i])})
Bad(runs, H) == Cardinality({i \in {j \in H : Reached(runs[j])} : runs[i].result # "SUCCESS"})

LEMMA CountsOf ==
  ASSUME NEW runs, NEW H, IsFiniteSet(H)
  PROVE  /\ Counted(runs, H) \in Nat /\ Bad(runs, H) \in Nat /\ Bad(runs, H) <= Counted(runs, H)
         /\ IsFiniteSet({i \in H : Reached(runs[i])})
         /\ IsFiniteSet({i \in {j \in H : Reached(runs[j])} : runs[i].result # "SUCCESS"})
<1> DEFINE C == {i \in H : Reached(runs[i])}
           B == {i \in C : runs[i].result # "SUCCESS"}
<1>1. IsFiniteSet(C)
  BY FS_Subset, C \subseteq H
<1>2. IsFiniteSet(B) /\ Cardinality(B) <= Cardinality(C)
  BY <1>1, FS_Subset, B \subseteq C
<1>3. Cardinality(B) \in Nat /\ Cardinality(C) \in Nat
  BY <1>1, <1>2, FS_CardinalityType
<1> QED BY <1>1, <1>2, <1>3 DEF Counted, Bad

\* What one more run adds to both.
LEMMA CountsWith ==
  ASSUME NEW runs, NEW H, IsFiniteSet(H), NEW k, k \notin H
  PROVE  /\ runs[k].result = "none" =>
              Counted(runs, H \cup {k}) = Counted(runs, H) /\ Bad(runs, H \cup {k}) = Bad(runs, H)
         /\ runs[k].result = "SUCCESS" =>
              Counted(runs, H \cup {k}) = Counted(runs, H) + 1 /\ Bad(runs, H \cup {k}) = Bad(runs, H)
         /\ runs[k].result \notin {"none", "SUCCESS"} =>
              /\ Counted(runs, H \cup {k}) = Counted(runs, H) + 1
              /\ Bad(runs, H \cup {k}) = Bad(runs, H) + 1
<1> DEFINE C(X) == {i \in X : Reached(runs[i])}
           B(X) == {i \in C(X) : runs[i].result # "SUCCESS"}
           K == H \cup {k}
<1>1. IsFiniteSet(C(H)) /\ IsFiniteSet(B(H)) /\ k \notin C(H) /\ k \notin B(H)
  BY CountsOf
<1>2. /\ Counted(runs, H) = Cardinality(C(H)) /\ Bad(runs, H) = Cardinality(B(H))
      /\ Counted(runs, K) = Cardinality(C(K)) /\ Bad(runs, K) = Cardinality(B(K))
  BY DEF Counted, Bad
<1>3. runs[k].result = "none" => C(K) = C(H) /\ B(K) = B(H)
  BY DEF Reached
<1>4. runs[k].result = "SUCCESS" => C(K) = C(H) \cup {k} /\ B(K) = B(H)
  BY DEF Reached
<1>5. runs[k].result \notin {"none", "SUCCESS"} => C(K) = C(H) \cup {k} /\ B(K) = B(H) \cup {k}
  BY DEF Reached
<1> HIDE DEF B, C
<1>6. Cardinality(C(H) \cup {k}) = Cardinality(C(H)) + 1 /\ Cardinality(B(H) \cup {k}) = Cardinality(B(H)) + 1
  BY <1>1, FS_AddElement
<1> HIDE DEF K
<1> QED BY <1>2, <1>3, <1>4, <1>5, <1>6 DEF K

\* Losing a run that is no success from the page does not raise the rate.
LEMMA RateWithout ==
  ASSUME NEW runs, NEW H, IsFiniteSet(H), NEW out, out \in H => runs[out].result # "SUCCESS"
  PROVE  /\ IsFiniteSet(H \ {out})
         /\ FailureRatePenalty(runs, H \ {out}) <= FailureRatePenalty(runs, H)
<1> DEFINE M == H \ {out}
<1>1. IsFiniteSet(M)
  BY FS_Subset, M \subseteq H
<1>2. \A X : FailureRatePenalty(runs, X) = Rate(Bad(runs, X), Counted(runs, X))
  BY DEF FailureRatePenalty, Bad, Counted
<1>3. /\ Counted(runs, M) \in Nat /\ Bad(runs, M) \in Nat /\ Bad(runs, M) <= Counted(runs, M)
  BY <1>1, CountsOf
<1>4. Rate(Bad(runs, M), Counted(runs, M)) \in 0 .. 30
  BY <1>3, RateMax
<1>5. CASE out \notin H
  <2>1. M = H
    BY <1>5
  <2> QED BY <1>1, <1>2, <1>4, <2>1
<1>6. CASE out \in H
  <2>1. H = M \cup {out} /\ out \notin M /\ runs[out].result # "SUCCESS"
    BY <1>6
  <2> HIDE DEF M
  <2>2. CASE runs[out].result = "none"
    <3>1. Counted(runs, H) = Counted(runs, M) /\ Bad(runs, H) = Bad(runs, M)
      BY <1>1, <2>1, <2>2, CountsWith
    <3> QED BY <1>1, <1>2, <1>4, <3>1 DEF M
  <2>3. CASE runs[out].result # "none"
    <3>1. Counted(runs, H) = Counted(runs, M) + 1 /\ Bad(runs, H) = Bad(runs, M) + 1
      BY <1>1, <2>1, <2>3, CountsWith
    <3> QED BY <1>1, <1>2, <1>3, <3>1, RateDrop DEF M
  <2> QED BY <2>2, <2>3
<1> QED BY <1>5, <1>6

\* The runs one page before the newest is on it, and after.
LEMMA PagesAre ==
  ASSUME NEW n \in Nat, n > 1
  PROVE  LET P == ListRuns(n)
             Q == ListRuns(n - 1)
             out == n - HistoryDepth
         IN  /\ P \subseteq 1 .. n /\ Q \subseteq 1 .. n - 1 /\ n \in P /\ n - 1 \in Q
             /\ P \ {n} = Q \ {out} /\ IsFiniteSet(P) /\ IsFiniteSet(Q)
             /\ out \in Q => n > HistoryDepth
<1>0. HistoryDepth \in Nat \ {0}
  BY DepthAssumption
<1>1. /\ ListRuns(n) \subseteq 1 .. n /\ ListRuns(n - 1) \subseteq 1 .. n - 1
      /\ n \in ListRuns(n) /\ n - 1 \in ListRuns(n - 1)
  BY <1>0 DEF ListRuns
<1>2. ListRuns(n) \ {n} = ListRuns(n - 1) \ {n - HistoryDepth}
  <2>1. ASSUME NEW i \in Nat
        PROVE  i \in ListRuns(n) /\ i # n <=> i \in ListRuns(n - 1) /\ i # n - HistoryDepth
    BY <1>0 DEF ListRuns
  <2>2. ListRuns(n) \subseteq Nat /\ ListRuns(n - 1) \subseteq Nat
    BY <1>1
  <2> QED BY <2>1, <2>2
<1>3. IsFiniteSet(ListRuns(n)) /\ IsFiniteSet(ListRuns(n - 1))
  <2>1. IsFiniteSet(1 .. n) /\ IsFiniteSet(1 .. n - 1)
    <3>1. n \in Int /\ n - 1 \in Int
      OBVIOUS
    <3> QED BY <3>1, FS_Interval
  <2> QED BY <1>1, <2>1, FS_Subset
<1>4. n - HistoryDepth \in ListRuns(n - 1) => n > HistoryDepth
  BY <1>0 DEF ListRuns
<1> QED BY <1>1, <1>2, <1>3, <1>4

LEMMA AgedGrows ==
  ASSUME NEW d \in Int, NEW e \in Int, d <= e
  PROVE  /\ Aged(d) \in 0 .. 40 /\ Aged(d) <= Aged(e) /\ Aged(e) \in 0 .. 40
         /\ d <= Headroom => Aged(d) <= 20
<1>1. Headroom = 17
  BY DEF Headroom, Weights
<1> QED BY <1>1 DEF Aged, Weights

\* The gain of the last run covers the loss in the failure rate.
LEMMA Balance ==
  ASSUME NEW aged \in 0 .. 20, NEW was \in Int, NEW mid \in 0 .. 30, NEW old \in 0 .. 30, mid <= old,
         NEW new \in 0 .. 30, NEW last \in Nat,
         \/ new <= mid /\ (was = 35 \/ aged <= was)
         \/ last >= 15 /\ (was = 35 \/ (aged <= was /\ new <= mid + 15))
  PROVE  aged + new <= was + last + old
  OBVIOUS

\* The days of the runs.
Dated(runs, n) == \A i \in 1 .. n : runs[i] \in Drills /\ runs[i].day = Period * (i - 1)

LEMMA DatedRun ==
  ASSUME NEW n \in Nat, NEW runs, Dated(runs, n), NEW i \in Nat, i > 0, i <= n
  PROVE  runs[i].day \in Nat /\ runs[i].result \in Results /\ runs[i].day = Period * (i - 1)
<1>1. i \in 1 .. n
  OBVIOUS
<1> QED BY <1>1 DEF Dated, Drills

\* The penalties of the page with a new success on it, beside those of the
\* page before.
LEMMA SuccessCostsNoMore ==
  ASSUME NEW n \in Nat, n > 1, NEW runs,
         Dated(runs, n), runs[n].result = "SUCCESS", ~runs[n].slow, runs[n].state # "CLEANUP_FAILED",
         n > HistoryDepth => runs[n - HistoryDepth].result # "SUCCESS",
         NEW w \in Nat, w <= Headroom, NEW b
  PROVE  LET today == runs[n].day + w
         IN  /\ Penalty(runs, ListRuns(n), b, today) <= Penalty(runs, ListRuns(n - 1), b, today)
             /\ Penalty(runs, ListRuns(n), b, today) \in Int
             /\ Penalty(runs, ListRuns(n - 1), b, today) \in Int
<1> DEFINE P == ListRuns(n)
           Q == ListRuns(n - 1)
           out == n - HistoryDepth
           today == runs[n].day + w
           old == Q \ {n - 1}
           mid == old \ {out}
           new == P \ {n}
           wins == {i \in Q : runs[i].result = "SUCCESS"}
           FR(X) == FailureRatePenalty(runs, X)
<1>0. HistoryDepth \in Nat \ {0} /\ Period \in Nat
  BY DepthAssumption, AssuranceAssumption
<1>1. /\ P \subseteq 1 .. n /\ Q \subseteq 1 .. n - 1 /\ n \in P /\ n - 1 \in Q
      /\ new = Q \ {out} /\ IsFiniteSet(P) /\ IsFiniteSet(Q) /\ (out \in Q => n > HistoryDepth)
  BY PagesAre
<1> HIDE DEF P, Q
<1>2. Newest(P) = n /\ Newest(Q) = n - 1
  <2>1. \A j \in P : j <= n
    BY <1>1
  <2>2. \A j \in Q : j <= n - 1
    BY <1>1
  <2>3. Newest(P) = n
    BY <1>1, <2>1, NewestIs
  <2>4. n - 1 \in Nat
    OBVIOUS
  <2> QED BY <1>1, <2>2, <2>3, <2>4, NewestIs
<1>3. out \in Q => runs[out].result # "SUCCESS"
  BY <1>1
<1>4. IsFiniteSet(old) /\ IsFiniteSet(mid) /\ FR(mid) <= FR(old)
  <2>1. IsFiniteSet(old)
    BY <1>1, FS_Subset, old \subseteq Q
  <2> QED BY <1>3, <2>1, RateWithout
<1>5. \A X : FR(X) = Rate(Bad(runs, X), Counted(runs, X))
  BY DEF FailureRatePenalty, Bad, Counted
<1>6. /\ Counted(runs, mid) \in Nat /\ Bad(runs, mid) \in Nat /\ Bad(runs, mid) <= Counted(runs, mid)
      /\ FR(mid) \in 0 .. 30
  <2>1. /\ Counted(runs, mid) \in Nat /\ Bad(runs, mid) \in Nat /\ Bad(runs, mid) <= Counted(runs, mid)
    BY <1>4, CountsOf
  <2>2. Rate(Bad(runs, mid), Counted(runs, mid)) \in 0 .. 30
    BY <2>1, RateMax
  <2> QED BY <1>5, <2>1, <2>2
<1>7. FR(old) \in 0 .. 30 /\ FR(new) \in 0 .. 30
  <2>1. IsFiniteSet(new)
    BY <1>1, FS_Subset, new \subseteq P
  <2>2. ASSUME NEW X, IsFiniteSet(X) PROVE FR(X) \in 0 .. 30
    <3>1. Counted(runs, X) \in Nat /\ Bad(runs, X) \in Nat /\ Bad(runs, X) <= Counted(runs, X)
      BY <2>2, CountsOf
    <3>2. Rate(Bad(runs, X), Counted(runs, X)) \in 0 .. 30
      BY <3>1, RateMax
    <3> QED BY <1>5, <3>2
  <2> HIDE DEF FR, old, new
  <2> QED BY <1>4, <2>1, <2>2
<1>8. new = mid \/ (new = mid \cup {n - 1} /\ n - 1 \notin mid)
  BY <1>1
<1> DEFINE last == runs[n - 1]
           aged == Aged(w)
           was == AgePenalty(runs, Q, today)
<1>9. AgePenalty(runs, P, today) = aged
  <2> DEFINE S == {i \in P : runs[i].result = "SUCCESS"}
  <2>1. S \subseteq P /\ n \in S
    BY <1>1
  <2>0. S \subseteq 1 .. n /\ \A j \in 1 .. n : j <= n
    BY <1>1, <2>1, PageEnds
  <2> HIDE DEF S
  <2>2. Newest(S) = n
    BY <2>0, <2>1, NewestIs
  <2>3. runs[n].day \in Nat /\ today - runs[n].day = w /\ n # 0
    <3>1. runs[n].day \in Nat
      BY DatedRun
    <3> QED BY <3>1
  <2> QED BY <2>2, <2>3 DEF AgePenalty, MostRecentSuccess, S
<1>10. aged \in 0 .. 20
  BY AgedGrows
<1>11. IF wins = {} THEN was = 35 ELSE was \in 0 .. 40 /\ aged <= was
  <2>1. wins \subseteq 1 .. n - 1 /\ n - 1 \in Nat
    <3>1. wins \subseteq Q /\ n - 1 \in Nat
      OBVIOUS
    <3> QED BY <1>1, <3>1
  <2>2. was = IF Newest(wins) = 0 THEN 35 ELSE Aged(today - runs[Newest(wins)].day)
    BY DEF AgePenalty, MostRecentSuccess, Weights
  <2> HIDE DEF wins, was
  <2>3. CASE wins = {}
    BY <2>1, <2>2, <2>3, NewestIs
  <2>4. CASE wins # {}
    <3> DEFINE s == Newest(wins)
    <3>1. s \in wins
      BY <2>1, <2>4, NewestIs
    <3> HIDE DEF s
    <3>2. s \in 1 .. n - 1 /\ s # 0 /\ s \in 1 .. n /\ n \in 1 .. n
      BY <2>1, <3>1
    <3>3. runs[s].day = Period * (s - 1) /\ runs[n].day = Period * (n - 1)
      <4>1. s \in Nat /\ s > 0 /\ s <= n /\ n > 0 /\ n <= n
        BY <3>2
      <4> QED BY <4>1, DatedRun
    <3>4. Period * (s - 1) <= Period * (n - 1) /\ Period * (s - 1) \in Int /\ Period * (n - 1) \in Int
      BY <1>0, <3>2, MonotoneProduct
    <3>5. today - runs[s].day \in Int /\ w <= today - runs[s].day
      BY <3>3, <3>4
    <3>6. was = Aged(today - runs[s].day)
      BY <2>2, <3>2 DEF s
    <3> HIDE DEF today
    <3> QED BY <2>4, <3>5, <3>6, AgedGrows
  <2> QED BY <2>3, <2>4
<1>a. was \in Int /\ (was = 35 \/ aged <= was)
  BY <1>11
<1>12. LastRunPenalty(runs[n]) = 0
  BY DEF LastRunPenalty, Reached
<1>13. /\ LastRunPenalty(last) \in Nat
       /\ last.result \in {"FAILED", "DEGRADED"} => LastRunPenalty(last) >= 15
  BY DEF LastRunPenalty, Weights
<1>14. BackupPenalty(b) \in Nat
  BY DEF BackupPenalty, Weights
<1>15. last.result \in Results
  <2>1. n - 1 \in Nat /\ n - 1 > 0 /\ n - 1 <= n
    OBVIOUS
  <2> QED BY <2>1, DatedRun
<1>16. aged + FR(new) <= was + LastRunPenalty(last) + FR(old)
  <2> HIDE DEF aged, was, FR, new, old, mid, last, out, today
  <2>0. FR(new) = FR(mid) \/ (new = mid \cup {n - 1} /\ n - 1 \notin mid)
    BY <1>8
  <2>1. CASE FR(new) = FR(mid)
    <3>1. FR(new) <= FR(mid)
      BY <1>6, <2>1
    <3> QED BY <1>4, <1>6, <1>7, <1>10, <1>13, <1>a, <3>1, Balance
  <2>2. CASE new = mid \cup {n - 1} /\ n - 1 \notin mid
    <3>1. CASE last.result = "none"
      <4>1. FR(new) = FR(mid)
        BY <1>4, <1>5, <2>2, <3>1, CountsWith DEF last
      <4> QED BY <2>1, <4>1
    <3>2. CASE last.result = "SUCCESS"
      <4>1. FR(new) = Rate(Bad(runs, mid), Counted(runs, mid) + 1)
        BY <1>4, <1>5, <2>2, <3>2, CountsWith DEF last
      <4>2. FR(new) <= FR(mid)
        BY <1>5, <1>6, <4>1, RateSuccess
      <4> QED BY <1>4, <1>6, <1>7, <1>10, <1>13, <1>a, <4>2, Balance
    <3>3. CASE last.result \in {"FAILED", "DEGRADED"}
      <4>1. FR(new) = Rate(Bad(runs, mid) + 1, Counted(runs, mid) + 1)
        BY <1>4, <1>5, <2>2, <3>3, CountsWith DEF last
      <4>2. CASE wins = {}
        BY <1>4, <1>6, <1>7, <1>10, <1>11, <1>13, <1>a, <3>3, <4>2, Balance
      <4>3. CASE wins # {}
        <5>1. PICK i \in Q : runs[i].result = "SUCCESS"
          BY <4>3
        <5>2. i \in mid
          BY <1>3, <3>3, <5>1 DEF mid, old, last
        <5>3. Counted(runs, mid) # 0
          <6>1. {j \in mid : Reached(runs[j])} # {}
            BY <5>1, <5>2 DEF Reached
          <6>2. IsFiniteSet({j \in mid : Reached(runs[j])})
            BY <1>4, CountsOf
          <6> QED BY <6>1, <6>2, FS_EmptySet DEF Counted
        <5>4. FR(new) <= FR(mid) + 15
          BY <1>5, <1>6, <4>1, <5>3, RateBad
        <5> QED BY <1>4, <1>6, <1>7, <1>10, <1>11, <1>13, <1>a, <3>3, <4>3, <5>4, Balance
      <4> QED BY <4>2, <4>3
    <3> QED BY <1>15, <3>1, <3>2, <3>3 DEF Results
  <2> QED BY <2>0, <2>1, <2>2
<1>17. /\ Penalty(runs, P, b, today) = aged + 0 + BackupPenalty(b) + FR(new)
       /\ Penalty(runs, Q, b, today) = was + LastRunPenalty(last) + BackupPenalty(b) + FR(old)
  BY <1>2, <1>9, <1>12 DEF Penalty
<1> HIDE DEF aged, was, FR, new, old, last, today
<1> QED BY <1>7, <1>10, <1>13, <1>14, <1>16, <1>17, <1>a DEF P, Q, today

LEMMA CeilingsRise ==
  ASSUME NEW l \in Levels, NEW m, Rank(m) >= Rank(l)
  PROVE  m \in Levels /\ ProofCap(m) \in Int /\ ProofCap(l) \in Int /\ ProofCap(m) >= ProofCap(l)
  BY DEF Levels, Rank, ProofCap

\* The newest run's level is the latest proof.
LEMMA ProofOfNewest ==
  ASSUME NEW n \in Nat, n > 1, NEW runs, Reached(runs[n]),
         LatestProof(runs, ListRuns(n - 1)) # "",
         Rank(runs[n].level) >= Rank(LatestProof(runs, ListRuns(n - 1)))
  PROVE  LET old == ProofCap(LatestProof(runs, ListRuns(n - 1)))
             new == ProofCap(LatestProof(runs, ListRuns(n)))
         IN  old \in Int /\ new \in Int /\ new >= old
<1> DEFINE P == ListRuns(n)
           Q == ListRuns(n - 1)
           Z(X) == {i \in X : Reached(runs[i]) /\ runs[i].level \in Levels}
           l == LatestProof(runs, Q)
<1>1. /\ P \subseteq 1 .. n /\ Q \subseteq 1 .. n - 1 /\ n \in P
  BY PagesAre
<1>0. l # "" /\ Rank(runs[n].level) >= Rank(l)
  OBVIOUS
<1> HIDE DEF P, Q
<1>2. l = (IF Newest(Z(Q)) = 0 THEN "" ELSE runs[Newest(Z(Q))].level)
  BY DEF LatestProof
<1>3. l \in Levels
  <2>1. Z(Q) \subseteq 1 .. n - 1 /\ n - 1 \in Nat
    <3>1. Z(Q) \subseteq Q /\ n - 1 \in Nat
      BY PageEnds
    <3> QED BY <1>1, <3>1
  <2>2. Z(Q) # {}
    BY <1>0, <1>2, <2>1, NewestIs
  <2>3. Newest(Z(Q)) \in Z(Q)
    BY <2>1, <2>2, NewestIs
  <2>4. Newest(Z(Q)) # 0
    <3>1. 0 \notin 1 .. n - 1
      BY PageEnds
    <3> QED BY <2>1, <2>3, <3>1
  <2> QED BY <1>2, <2>3, <2>4
<1>4. /\ runs[n].level \in Levels /\ ProofCap(runs[n].level) \in Int /\ ProofCap(l) \in Int
      /\ ProofCap(runs[n].level) >= ProofCap(l)
  BY <1>0, <1>3, CeilingsRise
<1>5. LatestProof(runs, P) = runs[n].level
  <2>1. Z(P) \subseteq P /\ n \in Z(P)
    BY <1>1, <1>4
  <2>2. Z(P) \subseteq 1 .. n /\ n # 0 /\ \A j \in 1 .. n : j <= n
    BY <1>1, <2>1, PageEnds
  <2> HIDE DEF Z
  <2>3. Newest(Z(P)) = n /\ n # 0
    BY <2>1, <2>2, NewestIs
  <2> QED BY <2>3 DEF LatestProof, Z
<1> QED BY <1>4, <1>5 DEF P, Q

(***************************************************************************)
(* A drill that succeeds and proves no less than the last verdict did      *)
(* never lowers the score for the next Headroom days, for every history,   *)
(* page size and day: the rounded failure rate takes back at most what the *)
(* penalty for the last run gives, unless a success leaves the page        *)
(* (confidence.go, Score and DefaultWeights).                              *)
(***************************************************************************)
THEOREM SuccessIsNoLoss == AssuranceSpec => []SuccessNeverLowers
<1>1. ClaimsInv => SuccessNeverLowers
  <2> SUFFICES ASSUME ClaimsInv,
                      EndedWith("SUCCESS"),
                      LatestProof(drills, ListRuns(Len(drills) - 1)) # "",
                      Rank(drills[Len(drills)].level) >= Rank(LatestProof(drills, ListRuns(Len(drills) - 1))),
                      Len(drills) > HistoryDepth => drills[Len(drills) - HistoryDepth].result # "SUCCESS",
                      NEW w \in Waits, w <= Headroom, NEW b \in Backups
               PROVE  LET today == drills[Len(drills)].day + w
                      IN  WorkloadConfidence(drills, Len(drills), b, today)
                            >= WorkloadConfidence(drills, Len(drills) - 1, b, today)
    BY DEF SuccessNeverLowers, NotLowered
  <2> DEFINE n == Len(drills)
             today == drills[n].day + w
             p == Penalty(drills, ListRuns(n), b, today)
             q == Penalty(drills, ListRuns(n - 1), b, today)
             new == ProofCap(LatestProof(drills, ListRuns(n)))
             old == ProofCap(LatestProof(drills, ListRuns(n - 1)))
  <2>1. /\ n \in Nat /\ n > 1 /\ drills[n].result = "SUCCESS" /\ drills[n].state # "CLEANUP_FAILED"
        /\ DOMAIN drills = 1 .. n /\ w \in Nat
    BY LenProperties, AssuranceAssumption DEF ClaimsInv, EndedWith
  <2>2. Dated(drills, n)
    BY <2>1, ElementOfSeq DEF ClaimsInv, Dated
  <2>3. ~drills[n].slow
    <3>1. n \in 1 .. n
      BY <2>1, PageEnds
    <3> QED BY <2>1, <3>1 DEF ClaimsInv, Plain
  <2>4. p <= q /\ p \in Int /\ q \in Int
    BY <2>1, <2>2, <2>3, SuccessCostsNoMore
  <2>5. old \in Int /\ new \in Int /\ new >= old
    BY <2>1, ProofOfNewest DEF Reached
  <2>6. ListRuns(n) # {} /\ ListRuns(n - 1) # {}
    BY <2>1, PagesAre
  <2>7. /\ WorkloadConfidence(drills, n, b, today) = Capped(p, new)
        /\ WorkloadConfidence(drills, n - 1, b, today) = Capped(q, old)
    BY <2>6 DEF WorkloadConfidence, Score, Capped
  <2> HIDE DEF p, q, new, old
  <2>8. Capped(p, new) >= Capped(q, old)
    BY <2>4, <2>5, CappedGrows
  <2> QED BY <2>7, <2>8
<1> QED BY <1>1, ClaimsHold, PTL

-----------------------------------------------------------------------------
(* Silence.                                                                *)

\* A record that ends a drill without a reading leaves the window as it was.
LEMMA WindowStays ==
  ASSUME ClaimsInv, NEW run, Recorded(run), run.value = Nil
  PROVE  CapturedValues(drills') = CapturedValues(drills)
<1> DEFINE last == Len(drills)
           R(x) == {j \in DOMAIN x : Reached(x[j]) /\ x[j].value # Nil}
<1>1. /\ last \in Nat \ {0} /\ last \in 1 .. last
      /\ DOMAIN drills = 1 .. last /\ DOMAIN drills' = 1 .. last
  BY LenProperties DEF ClaimsInv, Recorded
<1>2. ~Reached(drills[last]) /\ drills'[last] = run
  BY <1>1 DEF ClaimsInv, Plain, Recorded, Reached
<1>3. \A j \in 1 .. last : j # last => drills'[j] = drills[j]
  BY DEF Recorded
<1>4. R(drills') = R(drills) /\ last \notin R(drills) /\ R(drills) \subseteq 1 .. last
  BY <1>1, <1>2, <1>3
<1>5. /\ CapturedValues(drills') = [i \in NewestOf(R(drills'), DriftWindow) |-> drills'[i].value]
      /\ CapturedValues(drills) = [i \in NewestOf(R(drills), DriftWindow) |-> drills[i].value]
  BY DEF CapturedValues
<1>6. NewestOf(R(drills), DriftWindow) \subseteq R(drills)
  BY DEF NewestOf
<1> HIDE DEF R
<1>7. \A i \in NewestOf(R(drills), DriftWindow) : drills'[i].value = drills[i].value
  BY <1>3, <1>4, <1>6
<1> QED BY <1>4, <1>5, <1>7

\* One that reached no verdict leaves the proof on record as it was.
LEMMA ProofStays ==
  ASSUME ClaimsInv, NEW run, Recorded(run), run.result = "none"
  PROVE  LatestProof(drills', DOMAIN drills') = LatestProof(drills, DOMAIN drills)
<1> DEFINE last == Len(drills)
           S(x) == {i \in DOMAIN x : Reached(x[i]) /\ x[i].level \in Levels}
<1>1. /\ last \in Nat \ {0} /\ last \in 1 .. last
      /\ DOMAIN drills = 1 .. last /\ DOMAIN drills' = 1 .. last
  BY LenProperties DEF ClaimsInv, Recorded
<1>2. ~Reached(drills[last]) /\ ~Reached(drills'[last])
  BY <1>1 DEF ClaimsInv, Plain, Recorded, Reached
<1>3. \A j \in 1 .. last : j # last => drills'[j] = drills[j]
  BY DEF Recorded
<1>4. S(drills') = S(drills) /\ last \notin S(drills) /\ S(drills) \subseteq 1 .. last
  BY <1>1, <1>2, <1>3
<1>5. /\ LatestProof(drills', DOMAIN drills') =
           IF Newest(S(drills')) = 0 THEN "" ELSE drills'[Newest(S(drills'))].level
      /\ LatestProof(drills, DOMAIN drills) =
           IF Newest(S(drills)) = 0 THEN "" ELSE drills[Newest(S(drills))].level
  BY DEF LatestProof
<1> HIDE DEF S
<1>6. Newest(S(drills)) = 0 \/ Newest(S(drills)) \in S(drills)
  BY <1>1, <1>4, NewestIs
<1>7. CASE Newest(S(drills)) = 0
  BY <1>4, <1>5, <1>7
<1>8. CASE Newest(S(drills)) \in S(drills)
  <2> DEFINE newest == Newest(S(drills))
  <2>1. newest \in 1 .. last /\ newest # last /\ newest # 0
    BY <1>1, <1>4, <1>8
  <2>2. drills'[newest] = drills[newest]
    BY <1>3, <2>1
  <2> QED BY <1>4, <1>5, <2>1, <2>2
<1> QED BY <1>6, <1>7, <1>8

\* What a silent drill leaves.
LEMMA SilentDrill ==
  ASSUME ClaimsInv, NEW e \in Situations, NEW v \in Contents, NEW slow \in BOOLEAN,
         NEW cleaned \in BOOLEAN, Drill(e, v, slow, cleaned), Unanswered(check, e)
  PROVE  \E run :
           /\ Recorded(run) /\ run.value = Nil
           /\ run.result # "FAILED" /\ Rank(run.level) <= Rank("BOOT")
           /\ IsCritical(check) => run.result = "none"
<1> DEFINE r == RunOne(check, e, v, CapturedValues(drills))
           critical == IsCritical(check)
           cancelled == e.dial = "cancelled"
           ending == Graded(critical, r.status, cancelled, slow)
           level == Earned(check, r.status, e.up)
           run == Ending(ending[1], ending[2], level, r.value, r.judged, slow, cleaned,
                         drills[Len(drills)].day)
<1>0. e \in Circumstances /\ check.type \in CheckTypeNames /\ "name" \notin DOMAIN check.params
  BY AssuranceAssumption DEF ClaimsInv
<1>1. Sound(check, e, r)
  BY <1>0, RunOneSound
<1>2. /\ r.status \in {"fail", "error"} /\ r.value = Nil
      /\ r.status = "fail" => cancelled
  BY <1>0, SilenceOutcome
<1>3. Record(ending[1], ending[2], level, r.value, r.judged, slow, cleaned)
  BY DEF Drill
<1>4. cancelled \in BOOLEAN
  OBVIOUS
<1>5. level \in Levels /\ Rank(level) <= Rank("BOOT")
  <2> HIDE DEF r
  <2> QED BY <1>2, EarnedType
<1> HIDE DEF r, critical, cancelled, level
<1>6. /\ ending[1] \in States /\ ending[2] \in Results
      /\ ending[2] # "FAILED"
      /\ critical => ending[2] = "none"
  <2>1. r.status \in {"pass", "fail", "error"}
    BY <1>2
  <2>2. ASSUME NEW g, g = Graded(critical, r.status, cancelled, slow)
        PROVE  g[1] \in States /\ g[2] \in Results
    BY <1>4, <2>1, <2>2, GradedEndings
  <2>3. ending[2] # "FAILED" /\ (critical => ending[2] = "none")
    BY <1>2, GradedSilence
  <2> QED BY <2>2, <2>3
<1> HIDE DEF ending
<1>7. Recorded(run)
  <2>1. r.value \in Values /\ r.judged \in BOOLEAN
    BY <1>1 DEF Sound
  <2>2. ASSUME NEW state \in States, NEW result \in Results, state = ending[1], result = ending[2]
        PROVE  Recorded(run)
    BY <1>3, <1>5, <2>1, <2>2, RecordIs
  <2> QED BY <1>6, <2>2
<1>8. run.value = r.value /\ run.result = ending[2] /\ run.level = level
  BY DEF Ending
<1> HIDE DEF run
<1> QED BY <1>2, <1>5, <1>6, <1>7, <1>8 DEF critical

(***************************************************************************)
(* Silence decides nothing, for every parsed check, history, window and    *)
(* circumstance: a drill that reached its check and was answered by nobody *)
(* is not FAILED, claims no more than the boot, leaves the readings as     *)
(* they were, and, when the check is critical, the proof on record         *)
(* (reachability.go, markInconclusive, markCancelled).                     *)
(***************************************************************************)
THEOREM SilenceIsNoVerdict == AssuranceSpec => SilenceDecidesNothing
<1> DEFINE Told ==
             silent' =>
               LET run == drills'[Len(drills')]
               IN  /\ run.result # "FAILED" /\ Rank(run.level) <= Rank("BOOT")
                   /\ CapturedValues(drills') = CapturedValues(drills)
                   /\ IsCritical(check) =>
                        LatestProof(drills', DOMAIN drills') = LatestProof(drills, DOMAIN drills)
<1>1. ClaimsInv /\ [AssuranceNext]_assuranceVars => [Told]_assuranceVars
  <2> SUFFICES ASSUME ClaimsInv, AssuranceNext, silent' PROVE Told
    OBVIOUS
  <2>1. PICK e \in Situations, v \in Contents, slow \in BOOLEAN, cleaned \in BOOLEAN :
          Drill(e, v, slow, cleaned)
    BY DEF AssuranceNext, Start, FailEarly
  <2>2. Unanswered(check, e)
    BY <2>1 DEF Drill
  <2>3. PICK run :
          /\ Recorded(run) /\ run.value = Nil
          /\ run.result # "FAILED" /\ Rank(run.level) <= Rank("BOOT")
          /\ IsCritical(check) => run.result = "none"
    BY <2>1, <2>2, SilentDrill
  <2>4. drills'[Len(drills')] = run
    BY <2>3 DEF Recorded
  <2> QED BY <2>3, <2>4, WindowStays, ProofStays
<1> HIDE DEF Told
<1>2. AssuranceSpec => [][Told]_assuranceVars
  BY <1>1, ClaimsHold, PTL DEF AssuranceSpec
<1> QED BY <1>2 DEF SilenceDecidesNothing, Told

=============================================================================
