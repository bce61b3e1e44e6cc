------------------------------- MODULE MCPlans -------------------------------
(***************************************************************************)
(* Instances of Catalogue and Assurance for TLC, in one run: what becomes  *)
(* of a plan on its way to the queue, and what the drills of one prove     *)
(* over time. `focus` picks the one whose behaviours are explored from an  *)
(* initial state, so that TLC explores their sum and not their product.    *)
(***************************************************************************)
EXTENDS Catalogue, Assurance

VARIABLE focus

vars == <<focus, catalogueVars, assuranceVars>>

Psql == [program |-> "psql", chained |-> FALSE]

\* A drifting value; one within bounds behind an optional port; and a name that
\* is short.
Count(more) == [type |-> "command", run |-> Psql, capture |-> " rows"] @@ more
Plan(name, checks) ==
  [Blank EXCEPT !.name = name, !.workload = "w", !.provider = "p", !.checks = checks]

MCDocuments ==
  [drifting |-> Plan("a", <<Count([drift |-> [max_drop |-> <<10, "%">>]])>>),
   bounded |-> [Plan("b", <<[type |-> "tcp", port |-> 22, critical |-> FALSE],
                             Count([assert |-> [min |-> 1]])>>) EXCEPT !.waitForIP = FALSE],
   short |-> Plan("ab", <<[type |-> "ping"]>>)]

\* The short name begins both ids.
MCAbbreviates == [a |-> {}, b |-> {}, ab |-> {1, 2}]

MCAdhoc ==
  [adhoc |-> [workload |-> "w", provider |-> "p", backup |-> "latest", skip |-> FALSE, checks |-> <<>>]]

\* The check of a drill: a value with a bound and a tolerance, a port, a name, a
\* ping and an optional page.
MCChecks ==
  {UnmarshalCheck(Count([assert |-> [max |-> 3], drift |-> [max_drop |-> <<30, "%">>]])),
   UnmarshalCheck([type |-> "tcp", port |-> 22]),
   UnmarshalCheck([type |-> "dns", name |-> "zone"]), UnmarshalCheck([type |-> "ping"]),
   UnmarshalCheck([type |-> "http", url |-> "u", critical |-> FALSE])}

MCSituations ==
  LET good == [up |-> TRUE, params |-> "ok", dial |-> "connected", reply |-> "good", out |-> "one",
               past |-> "read"]
  IN  {good, [good EXCEPT !.past = "unread"], [good EXCEPT !.out = "nan", !.reply = "bad"],
       [good EXCEPT !.dial = "deadline", !.up = FALSE], [good EXCEPT !.dial = "cancelled"]}

\* The callers are alike.
Symmetry == Permutations(Clients)

Init ==
  /\ CatalogueInit /\ AssuranceInit /\ focus \in {"catalogue", "assurance"}
  /\ focus = "catalogue" => check.type = "tcp"

OfCatalogue(A) == focus = "catalogue" /\ A /\ UNCHANGED <<focus, assuranceVars>>
OfAssurance(A) == focus = "assurance" /\ A /\ UNCHANGED <<focus, catalogueVars>>

Next == OfCatalogue(CatalogueNext) \/ OfAssurance(AssuranceNext)

Spec == Init /\ [][Next]_vars

=============================================================================
