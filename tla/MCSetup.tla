------------------------------ MODULE MCSetup ------------------------------
(***************************************************************************)
(* Instances of ConfigFile and Provision for TLC, in one run: what a new   *)
(* installation writes on its own disk, and what it makes on the cluster.  *)
(* `focus` picks the one whose behaviours are explored from an initial     *)
(* state, so that TLC explores their sum and not their product.  A cluster *)
(* where the bridge's name is in use is explored without faults.           *)
(***************************************************************************)
EXTENDS ConfigFile, Provision, TLC

VARIABLE focus

vars == <<focus, configVars, provisionVars>>

\* `connect` as it is documented: read-only first, widened under another
\* token name, run again, and rehearsed; and with a role of one's choice.
MCRoleNames == {"RestoreLabRead", "RestoreLabDrill"}
MCStorageRole == [RestoreLabRead |-> "ReadStorage", RestoreLabDrill |-> "DrillStorage"]
MCNetworkRole == [RestoreLabRead |-> "ReadNetwork", RestoreLabDrill |-> "DrillNetwork"]
MCRoles == MCRoleNames \cup {"ReadStorage", "DrillStorage", "ReadNetwork", "DrillNetwork"}

Drills == [name |-> "drills", role |-> "RestoreLabDrill", readOnly |-> FALSE, pool |-> TRUE, storages |-> TRUE,
           dryRun |-> FALSE, create |-> TRUE, apply |-> FALSE, wizard |-> FALSE]

Reads == [Drills EXCEPT !.role = "RestoreLabRead", !.readOnly = TRUE, !.create = FALSE]

MCAsked == {Drills, Reads, [Drills EXCEPT !.role = "RestoreLabRead"],
            [Drills EXCEPT !.name = "drills-rw", !.pool = FALSE, !.storages = FALSE],
            [Drills EXCEPT !.dryRun = TRUE]}

\* Callers are interchangeable, and so are ids.
Equals == Permutations(Ids) \cup Permutations(Callers)

Init ==
  /\ ConfigInit /\ ProvisionInit /\ focus \in {"file", "cluster", "bridge"}
  /\ cluster.bridge = IF focus = "bridge" THEN "used" ELSE "absent"

OfFile(A) == focus = "file" /\ A /\ UNCHANGED <<focus, provisionVars>>
OfCluster(A) ==
  /\ focus \in {"cluster", "bridge"} /\ A
  /\ focus = "bridge" => faults' = 0
  /\ UNCHANGED <<focus, configVars>>

Next == OfFile(ConfigNext) \/ OfCluster(ProvisionNext)

Spec == Init /\ [][Next]_vars

=============================================================================
