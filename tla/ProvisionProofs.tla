--------------------------- MODULE ProvisionProofs ---------------------------
(***************************************************************************)
(* Proofs about Provision, for any number of callers, any options, any     *)
(* version of Proxmox and any bridge, wherever a call stops.               *)
(***************************************************************************)
EXTENDS Provision, SequenceTheorems, FiniteSetTheorems, TLAPS

AllSteps == [do : Steps, role : Roles, privs : SUBSET Privileges, path : Paths]
RoleTables == [Roles -> SUBSET (Privileges \union Absent)]
Clusters == [roles : RoleTables, pool : BOOLEAN, user : BOOLEAN, acl : SUBSET (Paths \X Roles),
             tokens : [Names -> Nat], bridge : BridgeStates]
CallTypes == [pc : {"idle", "matched", "ok", "failed"} \union Working, id : Nat, opts : Options,
              todo : Seq(AllSteps), seen : RoleTables, reuse : BOOLEAN, secret : Nat,
              previous : Nat, bridge : BOOLEAN]
Servers == [mode : {"down", "wizard", "serving"}, setup : BOOLEAN, done : BOOLEAN, tokens : Nat]

\* Only the drill role is given the right to destroy, and it is granted on the
\* pool, or on every workload when no pool was asked for; what is granted
\* anywhere else is one of the call's other roles.
Safe(s, o) ==
  /\ s.do = "role" /\ "destroy" \in s.privs => ~ o.readOnly /\ s.role = o.role
  /\ s.do = "acl" /\ s.path # "/pool" =>
       \/ s.path = "/vms" /\ ~ o.pool /\ ~ o.readOnly /\ s.role = o.role
       \/ s.role \in OtherRoles(o)

SafeSteps(o) == {s \in AllSteps : Safe(s, o)}

\* What holds of a call while it goes on, given the cluster's tokens T and the
\* names D of those that were deleted. The token step is the last of todo.
Good(c, T, D) ==
  /\ c \in CallTypes
  /\ c.pc # "idle" => c.id # 0
  /\ c.pc = "bootstrap" =>
       /\ c.todo \in Seq(SafeSteps(c.opts)) /\ c.todo # <<>>
       /\ c.todo[Len(c.todo)].do = "token"
  /\ c.pc \in {"bootstrap", "store"} /\ c.reuse /\ c.opts.name \notin D =>
       c.previous # 0 /\ T[c.opts.name] = c.previous
  /\ c.pc = "store" /\ c.opts.name \notin D =>
       Stored(c) # 0 /\ T[c.opts.name] = Stored(c)

Typed ==
  /\ cluster \in Clusters /\ entry \in [set : BOOLEAN, name : Names, secret : Nat]
  /\ calls \in 0 .. MaxCalls /\ DOMAIN call = Callers

\* Whoever made a role destroy, or granted one outside the pool, is on record.
Rights ==
  /\ \A r \in Roles : "destroy" \in cluster.roles[r] => \E o \in granted : ~ o.readOnly /\ o.role = r
  /\ \A p \in Paths, r \in Roles : <<p, r>> \in cluster.acl /\ p # "/pool" =>
       \/ p = "/vms" /\ \E o \in granted : ~ o.pool /\ ~ o.readOnly /\ o.role = r
       \/ \E q \in granted : r \in OtherRoles(q)

InFlight == \A a \in Callers : Good(call[a], cluster.tokens, deleted)

Inv == Typed /\ Rights /\ InFlight /\ StoredSecretFits

-----------------------------------------------------------------------------
(* The plan of a bootstrap.                                                *)

LEMMA RolesGiven ==
  ASSUME NEW o \in Options
  PROVE  /\ ReadRole(o) \in Roles /\ o.role \in Roles /\ "RestoreLabRead" \in Roles
         /\ StorageRole[o.role] \in Roles /\ NetworkRole[o.role] \in Roles
         /\ ReadRole(o) \in OtherRoles(o)
         /\ ~ o.readOnly => StorageRole[o.role] \in OtherRoles(o) /\ NetworkRole[o.role] \in OtherRoles(o)
<1>1. o.role \in RoleNames
  BY DEF Options
<1> QED BY <1>1, RolesAssumption DEF ReadRole, OtherRoles

LEMMA PlainSafe ==
  ASSUME NEW o, NEW what \in {"list", "pool", "user", "token"}
  PROVE  Plain(what) \in SafeSteps(o)
<1>1. Plain(what) \in AllSteps
  BY RolesAssumption DEF Plain, AllSteps, Steps, Paths, Privileges
<1> QED BY <1>1 DEF Plain, SafeSteps, Safe

LEMMA RoleSafe ==
  ASSUME NEW o, NEW r \in Roles, NEW privs \in SUBSET Privileges,
         "destroy" \in privs => ~ o.readOnly /\ r = o.role
  PROVE  Role(r, privs) \in SafeSteps(o)
<1>1. Role(r, privs) \in AllSteps
  BY DEF Role, AllSteps, Steps, Paths
<1> QED BY <1>1 DEF Role, SafeSteps, Safe

LEMMA GrantSafe ==
  ASSUME NEW o, NEW r \in Roles, NEW path \in Paths,
         \/ path = "/pool"
         \/ path = "/vms" /\ ~ o.pool /\ ~ o.readOnly /\ r = o.role
         \/ r \in OtherRoles(o)
  PROVE  Grant(path, r) \in SafeSteps(o)
<1>1. Grant(path, r) \in AllSteps
  BY DEF Grant, AllSteps, Steps
<1> QED BY <1>1 DEF Grant, SafeSteps, Safe

LEMMA BootstrapSafe ==
  ASSUME NEW o \in Options
  PROVE  /\ Bootstrap(o) \in Seq(SafeSteps(o)) /\ Bootstrap(o) \in Seq(AllSteps)
         /\ Bootstrap(o) # <<>> /\ Bootstrap(o)[Len(Bootstrap(o))].do = "token"
<1> DEFINE S == SafeSteps(o)
           w == ~ o.readOnly
           p1 == <<Plain("list"), Role(ReadRole(o), ReadOnlyPrivileges)>>
           p2 == If(w, <<Role(o.role, DrillPrivileges)>>)
           p3 == If(w /\ o.pool, <<Plain("pool")>>)
           p4 == <<Plain("user"), Grant("/vms", ReadRole(o)), Grant("/nodes", ReadRole(o)),
                   Grant("/storage", ReadRole(o))>>
           p5 == If(w, <<Grant(IF o.pool THEN "/pool" ELSE "/vms", o.role)>>)
           p6 == If(w /\ o.storages,
                    <<Role(StorageRole[o.role], {"audit", "space"}),
                      Grant("/storage/target", StorageRole[o.role])>>)
           p7 == If(w, <<Role(NetworkRole[o.role], {"sdn"}), Grant("/sdn", NetworkRole[o.role])>>)
           p8 == <<Plain("token")>>
<1>1. p1 \in Seq(S)
  <2>1. ReadOnlyPrivileges \in SUBSET Privileges /\ "destroy" \notin ReadOnlyPrivileges
    BY DEF ReadOnlyPrivileges, Privileges
  <2>2. Plain("list") \in S /\ Role(ReadRole(o), ReadOnlyPrivileges) \in S
    BY <2>1, PlainSafe, RoleSafe, RolesGiven
  <2> QED BY <2>2
<1>2. p2 \in Seq(S)
  <2>1. DrillPrivileges \in SUBSET Privileges
    BY DEF ReadOnlyPrivileges, DrillPrivileges, Privileges
  <2>2. w => Role(o.role, DrillPrivileges) \in S
    BY <2>1, RoleSafe, RolesGiven
  <2> QED BY <2>2 DEF If
<1>3. p3 \in Seq(S)
  <2>1. Plain("pool") \in S
    BY PlainSafe
  <2> QED BY <2>1 DEF If
<1>4. p4 \in Seq(S)
  <2>1. {"/vms", "/nodes", "/storage"} \subseteq Paths
    BY DEF Paths
  <2>2. /\ Plain("user") \in S /\ Grant("/vms", ReadRole(o)) \in S
        /\ Grant("/nodes", ReadRole(o)) \in S /\ Grant("/storage", ReadRole(o)) \in S
    BY <2>1, PlainSafe, GrantSafe, RolesGiven
  <2> QED BY <2>2
<1>5. p5 \in Seq(S)
  <2>1. {"/vms", "/pool"} \subseteq Paths
    BY DEF Paths
  <2>2. w /\ o.pool => Grant("/pool", o.role) \in S
    BY <2>1, GrantSafe, RolesGiven
  <2>3. w /\ ~ o.pool => Grant("/vms", o.role) \in S
    BY <2>1, GrantSafe, RolesGiven
  <2> QED BY <2>2, <2>3 DEF If
<1>6. p6 \in Seq(S)
  <2>1. "/storage/target" \in Paths /\ {"audit", "space"} \in SUBSET Privileges
        /\ "destroy" \notin {"audit", "space"}
    BY DEF Privileges, Paths
  <2>2. w => /\ Role(StorageRole[o.role], {"audit", "space"}) \in S
             /\ Grant("/storage/target", StorageRole[o.role]) \in S
    BY <2>1, RoleSafe, GrantSafe, RolesGiven
  <2> QED BY <2>2 DEF If
<1>7. p7 \in Seq(S)
  <2>1. "/sdn" \in Paths /\ {"sdn"} \in SUBSET Privileges /\ "destroy" \notin {"sdn"}
    BY DEF Privileges, Paths
  <2>2. w => Role(NetworkRole[o.role], {"sdn"}) \in S /\ Grant("/sdn", NetworkRole[o.role]) \in S
    BY <2>1, RoleSafe, GrantSafe, RolesGiven
  <2> QED BY <2>2 DEF If
<1>8. p8 \in Seq(S) /\ Len(p8) = 1 /\ p8[1].do = "token"
  <2>1. Plain("token") \in S
    BY PlainSafe
  <2> QED BY <2>1 DEF Plain
<1> DEFINE q == p1 \o p2 \o p3 \o p4 \o p5 \o p6 \o p7
<1>9. Bootstrap(o) = q \o p8
  BY DEF Bootstrap
<1> HIDE DEF S, p1, p2, p3, p4, p5, p6, p7, p8
<1>10. p1 \o p2 \in Seq(S)
  BY <1>1, <1>2, ConcatProperties
<1>11. p1 \o p2 \o p3 \in Seq(S)
  BY <1>3, <1>10, ConcatProperties
<1>12. p1 \o p2 \o p3 \o p4 \in Seq(S)
  BY <1>4, <1>11, ConcatProperties
<1>13. p1 \o p2 \o p3 \o p4 \o p5 \in Seq(S)
  BY <1>5, <1>12, ConcatProperties
<1>14. p1 \o p2 \o p3 \o p4 \o p5 \o p6 \in Seq(S)
  BY <1>6, <1>13, ConcatProperties
<1>15. q \in Seq(S)
  BY <1>7, <1>14, ConcatProperties
<1> HIDE DEF q
<1>16. /\ q \o p8 \in Seq(S) /\ Len(q) \in Nat /\ Len(q \o p8) = Len(q) + 1
       /\ (q \o p8)[Len(q) + 1] = p8[1]
  <2>1. Len(q) \in Nat
    BY <1>15, LenProperties
  <2>2. /\ q \o p8 \in Seq(S) /\ Len(q \o p8) = Len(q) + Len(p8)
        /\ \A i \in 1 .. Len(q) + Len(p8) :
             (q \o p8)[i] = IF i <= Len(q) THEN q[i] ELSE p8[i - Len(q)]
    BY <1>8, <1>15, ConcatProperties
  <2>3. Len(q) + 1 \in 1 .. Len(q) + Len(p8) /\ ~ (Len(q) + 1 <= Len(q)) /\ Len(q) + 1 - Len(q) = 1
    BY <1>8, <2>1
  <2> QED BY <1>8, <2>1, <2>2, <2>3
<1>17. q \o p8 # <<>>
  BY <1>16, EmptySeq
<1>18. S \subseteq AllSteps
  BY DEF S, SafeSteps
<1>19. q \o p8 \in Seq(AllSteps)
  BY <1>16, <1>18, SeqMonotonic
<1> QED BY <1>8, <1>9, <1>16, <1>17, <1>19 DEF S

-----------------------------------------------------------------------------
(* The calls.                                                              *)

\* Tokens that exist keep their secret.
TokensStay == \A n \in Names : cluster.tokens[n] # 0 => cluster'.tokens[n] = cluster.tokens[n]

LEMMA GoodStays ==
  ASSUME NEW c, NEW D, TokensStay, Good(c, cluster.tokens, D)
  PROVE  Good(c, cluster'.tokens, D)
<1>1. c.opts.name \in Names
  BY DEF Good, CallTypes, Options
<1> QED BY <1>1 DEF Good, TokensStay

LEMMA NoOptionsType == NoOptions \in Options
<1>1. \E o : o \in Options
  <2> DEFINE o == [name |-> "drills", role |-> "RestoreLabRead", readOnly |-> TRUE, pool |-> TRUE,
                   storages |-> TRUE, dryRun |-> TRUE, create |-> TRUE, apply |-> TRUE, wizard |-> TRUE]
  <2>1. o \in Options
    BY RolesAssumption DEF Options, Names
  <2> QED BY <2>1
<1> QED BY <1>1 DEF NoOptions

LEMMA IdleType == Idle \in CallTypes /\ Idle.pc = "idle" /\ ~ Idle.bridge
<1>1. [r \in Roles |-> Absent] \in RoleTables
  BY DEF RoleTables, Absent
<1>2. <<>> \in Seq(AllSteps)
  BY EmptySeq
<1> QED BY <1>1, <1>2, NoOptionsType DEF Idle, CallTypes

LEMMA IdleGood ==
  ASSUME NEW c \in CallTypes, NEW T, NEW D, c.pc = "idle"
  PROVE  Good(c, T, D)
  BY DEF Good

\* Any call that is neither at bootstrap nor at store.
LEMMA PassingGood ==
  ASSUME NEW c \in CallTypes, NEW T, NEW D, c.pc \notin {"bootstrap", "store"}, c.id # 0
  PROVE  Good(c, T, D)
  BY DEF Good

\* A step of one call on a cluster that stays, or grows.
LEMMA CallStep ==
  ASSUME Inv, NEW a \in Callers, NEW c, call' = [call EXCEPT ![a] = c],
         Good(c, cluster'.tokens, deleted), cluster' \in Clusters, TokensStay, Rights',
         UNCHANGED deleted, calls' \in 0 .. MaxCalls,
         \/ UNCHANGED entry
         \/ entry' \in [set : BOOLEAN, name : Names, secret : Nat] /\ StoredSecretFits'
  PROVE  Inv'
<1>1. DOMAIN call' = Callers /\ call'[a] = c /\ \A b \in Callers : b # a => call'[b] = call[b]
  BY DEF Inv, Typed
<1>2. Typed'
  BY <1>1 DEF Inv, Typed
<1>3. \A b \in Callers : Good(call'[b], cluster'.tokens, deleted)
  BY <1>1, GoodStays DEF Inv, InFlight
<1>4. StoredSecretFits'
  BY DEF Inv, Typed, StoredSecretFits, Opens, TokensStay
<1> QED BY <1>2, <1>3, <1>4 DEF Inv, InFlight

\* The same, where only the call moves.
LEMMA MoveStep ==
  ASSUME Inv, NEW a \in Callers, NEW c, call' = [call EXCEPT ![a] = c],
         Good(c, cluster.tokens, deleted), UNCHANGED <<cluster, entry, deleted, granted>>,
         calls' \in 0 .. MaxCalls
  PROVE  Inv'
<1>1. TokensStay /\ cluster' \in Clusters /\ Rights'
  BY DEF TokensStay, Inv, Typed, Rights
<1> QED BY <1>1, CallStep

LEMMA CallType ==
  ASSUME Inv, NEW a \in Callers
  PROVE  call[a] \in CallTypes /\ Good(call[a], cluster.tokens, deleted)
  BY DEF Inv, InFlight, Good

-----------------------------------------------------------------------------
(* The cluster.                                                            *)

LEMMA KeptIsPart ==
  ASSUME NEW privs \in SUBSET Privileges
  PROVE  Kept(privs) \subseteq privs
  BY DEF Kept

LEMMA SameCluster ==
  ASSUME Inv, UNCHANGED cluster, granted \subseteq granted'
  PROVE  cluster' \in Clusters /\ TokensStay /\ Rights'
  BY DEF Inv, Typed, TokensStay, Rights

\* A call goes on, and may have been told of the bridge.
Moves(a, pc) ==
  \/ call' = [call EXCEPT ![a].pc = pc]
  \/ call' = [call EXCEPT ![a].pc = pc, ![a].bridge = TRUE]

\* A call that goes on, or ends, without entering bootstrap or store.
LEMMA EffectStep ==
  ASSUME Inv, NEW a \in Callers, call[a].pc # "idle",
         NEW pc \in {"matched", "ok", "failed"} \union (Working \ {"bootstrap", "store"}),
         Moves(a, pc),
         cluster' \in Clusters, TokensStay, Rights', UNCHANGED <<entry, deleted, calls>>
  PROVE  Inv'
<1> DEFINE c == call'[a]
<1>1. call[a] \in CallTypes /\ call[a].id # 0 /\ DOMAIN call = Callers
  BY CallType DEF Good, Inv, Typed
<1>2. c = [call[a] EXCEPT !.pc = pc] \/ c = [call[a] EXCEPT !.pc = pc, !.bridge = TRUE]
  BY <1>1 DEF Moves
<1>a. c \in CallTypes /\ c.pc = pc /\ c.id = call[a].id
  BY <1>1, <1>2 DEF CallTypes, Working
<1>3. call' = [call EXCEPT ![a] = c]
  BY <1>1 DEF Moves
<1>4. pc \notin {"bootstrap", "store", "idle"}
  BY DEF Working
<1> HIDE DEF c
<1>5. Good(c, cluster'.tokens, deleted)
  BY <1>1, <1>a, <1>4, PassingGood
<1> QED BY <1>3, <1>5, CallStep DEF Inv, Typed

\* The same, on a cluster that stays.
LEMMA PcStep ==
  ASSUME Inv, NEW a \in Callers, call[a].pc # "idle",
         NEW pc \in {"matched", "ok", "failed"} \union (Working \ {"bootstrap", "store"}),
         call' = [call EXCEPT ![a].pc = pc],
         UNCHANGED <<cluster, entry, deleted, granted, calls>>
  PROVE  Inv'
  BY SameCluster, EffectStep DEF Moves

LEMMA BridgeStep ==
  ASSUME Inv, NEW b \in BridgeStates, cluster' = [cluster EXCEPT !.bridge = b], granted \subseteq granted'
  PROVE  cluster' \in Clusters /\ TokensStay /\ Rights'
<1>1. /\ cluster' \in Clusters /\ cluster'.roles = cluster.roles /\ cluster'.acl = cluster.acl
      /\ cluster'.tokens = cluster.tokens
  BY DEF Inv, Typed, Clusters
<1> QED BY <1>1 DEF Inv, TokensStay, Rights

\* A request of Bootstrap that is carried out, answered or not.
LEMMA CarriedStep ==
  ASSUME Inv, NEW a \in Callers, call[a].pc = "bootstrap", ~ call[a].opts.dryRun,
         Possible(Head(call[a].todo), call[a]),
         cluster' = Carried(Head(call[a].todo), call[a]), granted' = Granted(call[a])
  PROVE  /\ cluster' \in Clusters /\ TokensStay /\ Rights'
         /\ Head(call[a].todo).do = "token" /\ cluster.tokens[call[a].opts.name] = 0 =>
              cluster'.tokens[call[a].opts.name] = call[a].id
<1> DEFINE c == call[a]
           s == Head(c.todo)
<1>0. /\ c \in CallTypes /\ cluster \in Clusters /\ s \in AllSteps /\ Safe(s, c.opts)
      /\ granted \subseteq granted'
  <2>1. c \in CallTypes /\ c.todo \in Seq(SafeSteps(c.opts)) /\ c.todo # <<>>
    BY CallType DEF Good
  <2>2. s \in SafeSteps(c.opts)
    BY <2>1, HeadTailProperties
  <2> QED BY <2>1, <2>2 DEF SafeSteps, Inv, Typed, Granted
<1>a. c.opts.name \in Names /\ c.id \in Nat
  BY <1>0 DEF CallTypes, Options
<1>1. CASE s.do = "role"
  <2> DEFINE R == EnsureRole(s, c.seen, cluster.roles)
  <2>1. cluster' = [cluster EXCEPT !.roles = R]
    BY <1>1 DEF Carried
  <2>2. cluster.roles \in RoleTables /\ s.role \in Roles /\ Kept(s.privs) \subseteq s.privs /\ s.privs \in SUBSET Privileges
    BY <1>0, KeptIsPart DEF Clusters, AllSteps
  <2>3. R = cluster.roles \/ R = [cluster.roles EXCEPT ![s.role] = Kept(s.privs)]
    BY DEF EnsureRole
  <2>a. c.opts \in granted' /\ ("destroy" \in s.privs => ~ c.opts.readOnly /\ s.role = c.opts.role)
    BY <1>0, <1>1 DEF Granted, Safe
  <2>4. /\ R \in RoleTables
        /\ \A r \in Roles : "destroy" \in R[r] => \E o \in granted' : ~ o.readOnly /\ o.role = r
    BY <1>0, <2>2, <2>3, <2>a DEF RoleTables, Inv, Rights
  <2> HIDE DEF R
  <2>5. /\ cluster' \in Clusters /\ cluster'.roles = R /\ cluster'.acl = cluster.acl
        /\ cluster'.tokens = cluster.tokens
    BY <1>0, <2>1, <2>4 DEF Clusters
  <2> QED BY <1>0, <1>1, <2>4, <2>5 DEF Inv, TokensStay, Rights
<1>2. CASE s.do \in {"list", "pool", "user"}
  <2>1. /\ cluster' \in Clusters /\ cluster'.roles = cluster.roles /\ cluster'.acl = cluster.acl
        /\ cluster'.tokens = cluster.tokens
    BY <1>0, <1>2 DEF Carried, Clusters
  <2> QED BY <1>0, <1>2, <2>1 DEF Inv, TokensStay, Rights
<1>3. CASE s.do = "acl"
  <2>1. cluster' = [cluster EXCEPT !.acl = cluster.acl \union {<<s.path, s.role>>}]
    BY <1>0, <1>3 DEF Carried, Clusters
  <2>2. cluster.acl \union {<<s.path, s.role>>} \in SUBSET (Paths \X Roles)
    BY <1>0 DEF Clusters, AllSteps
  <2>3. /\ cluster' \in Clusters /\ cluster'.roles = cluster.roles /\ cluster'.tokens = cluster.tokens
        /\ cluster'.acl = cluster.acl \union {<<s.path, s.role>>}
    BY <1>0, <2>1, <2>2 DEF Clusters
  <2>4. c.opts \in granted'
    BY <1>3 DEF Granted
  <2>5. s.path # "/pool" =>
          \/ s.path = "/vms" /\ ~ c.opts.pool /\ ~ c.opts.readOnly /\ s.role = c.opts.role
          \/ s.role \in OtherRoles(c.opts)
    BY <1>0, <1>3 DEF Safe
  <2>6. Rights'
    BY <1>0, <2>3, <2>4, <2>5 DEF Inv, Rights
  <2> QED BY <1>3, <2>3, <2>6 DEF TokensStay
<1>4. CASE s.do = "token"
  <2>1. CASE cluster.tokens[c.opts.name] # 0
    BY <1>0, <1>4, <2>1, SameCluster DEF Carried
  <2>2. CASE cluster.tokens[c.opts.name] = 0
    <3> DEFINE T == [cluster.tokens EXCEPT ![c.opts.name] = c.id]
    <3>1. cluster' = [cluster EXCEPT !.tokens = T]
      BY <1>0, <1>4, <2>2 DEF Carried, Clusters
    <3>2. /\ T \in [Names -> Nat] /\ T[c.opts.name] = c.id
          /\ \A n \in Names : n # c.opts.name => T[n] = cluster.tokens[n]
      BY <1>0, <1>a DEF Clusters
    <3> HIDE DEF T
    <3>3. /\ cluster' \in Clusters /\ cluster'.roles = cluster.roles /\ cluster'.acl = cluster.acl
          /\ cluster'.tokens = T
      BY <1>0, <3>1, <3>2 DEF Clusters
    <3> QED BY <1>0, <2>2, <3>2, <3>3 DEF Inv, TokensStay, Rights
  <2> QED BY <2>1, <2>2
<1> QED BY <1>0, <1>1, <1>2, <1>3, <1>4 DEF AllSteps, Steps

-----------------------------------------------------------------------------
(* The steps.                                                              *)

LEMMA InvInit == ProvisionInit => Inv
<1> SUFFICES ASSUME ProvisionInit PROVE Inv
  OBVIOUS
<1>1. PICK b \in Bridges :
         cluster = [roles |-> [r \in Roles |-> Absent], pool |-> FALSE, user |-> FALSE, acl |-> {},
                    tokens |-> [n \in Names |-> 0], bridge |-> b]
  BY DEF ProvisionInit
<1>2. [r \in Roles |-> Absent] \in RoleTables /\ b \in BridgeStates
  BY AskedAssumption DEF RoleTables
<1>3. cluster \in Clusters /\ cluster.roles = [r \in Roles |-> Absent] /\ cluster.acl = {}
  BY <1>1, <1>2 DEF Clusters
<1>4. Typed
  BY <1>3, BoundsAssumption DEF ProvisionInit, Typed, Names
<1>5. Rights
  <2>1. \A r \in Roles : cluster.roles[r] = Absent
    BY <1>3
  <2>2. "destroy" \notin Absent
    BY DEF Absent
  <2> QED BY <1>3, <2>1, <2>2 DEF Rights
<1>6. InFlight
  BY IdleType, IdleGood DEF ProvisionInit, InFlight
<1> QED BY <1>4, <1>5, <1>6 DEF Inv, StoredSecretFits, ProvisionInit

LEMMA LoginStep ==
  ASSUME Inv, NEW a \in Callers, Login(a)
  PROVE  Inv'
<1> DEFINE old == call[a]
           b == Bootstrap(old.opts)
           r == Reuses(old.opts)
           p == IF entry.set THEN entry.secret ELSE 0
           c == [old EXCEPT !.pc = "bootstrap", !.todo = b, !.reuse = r, !.previous = p]
<1>1. /\ old \in CallTypes /\ old.opts \in Options /\ old.id # 0
      /\ entry \in [set : BOOLEAN, name : Names, secret : Nat]
  BY CallType DEF Login, Good, CallTypes, Inv, Typed
<1>2. call' = [call EXCEPT ![a] = c]
  BY DEF Login, Inv, Typed
<1>3. /\ b \in Seq(SafeSteps(old.opts)) /\ b \in Seq(AllSteps) /\ b # <<>>
      /\ b[Len(b)].do = "token"
  BY <1>1, BootstrapSafe
<1>4. p \in Nat /\ r \in BOOLEAN
  BY <1>1 DEF Reuses
<1>5. r /\ old.opts.name \notin deleted => p # 0 /\ cluster.tokens[old.opts.name] = p
  BY <1>1 DEF Reuses, Inv, StoredSecretFits, Opens
<1> HIDE DEF b, r, p
<1>6. /\ c \in CallTypes /\ c.pc = "bootstrap" /\ c.todo = b /\ c.reuse = r /\ c.previous = p
      /\ c.opts = old.opts /\ c.id = old.id
  BY <1>1, <1>3, <1>4 DEF CallTypes, Working
<1> HIDE DEF c
<1>7. Good(c, cluster.tokens, deleted)
  BY <1>1, <1>3, <1>5, <1>6 DEF Good
<1> QED BY <1>2, <1>7, MoveStep DEF Login, Inv, Typed

LEMMA Popped ==
  ASSUME NEW S, NEW q \in Seq(S), q \in Seq(AllSteps), q # <<>>
  PROVE  /\ Head(q) \in AllSteps /\ Head(q) = q[1] /\ Len(q) \in Nat \ {0}
         /\ Tail(q) \in Seq(S) /\ Tail(q) \in Seq(AllSteps)
         /\ Len(Tail(q)) = Len(q) - 1
         /\ \A i \in 1 .. Len(Tail(q)) : Tail(q)[i] = q[i + 1]
<1>1. Head(q) \in AllSteps /\ Tail(q) \in Seq(AllSteps)
  BY HeadTailProperties
<1>2. /\ Tail(q) \in Seq(S) /\ Head(q) = q[1] /\ Len(Tail(q)) = Len(q) - 1
      /\ \A i \in 1 .. Len(Tail(q)) : Tail(q)[i] = q[i + 1]
  BY HeadTailProperties
<1>3. Len(q) \in Nat \ {0}
  BY EmptySeq, LenProperties
<1> QED BY <1>1, <1>2, <1>3

LEMMA BootstrapStepStep ==
  ASSUME Inv, NEW a \in Callers, BootstrapStep(a)
  PROVE  Inv'
<1> DEFINE old == call[a]
           s == Head(old.todo)
           x == IF s.do = "token" /\ cluster.tokens[old.opts.name] = 0 THEN old.id ELSE 0
           c == [old EXCEPT !.pc = NextPc(s, old), !.todo = Tail(old.todo), !.seen = Seen(s, old),
                            !.secret = x]
           n == old.opts.name
<1>1. /\ old \in CallTypes /\ Good(old, cluster.tokens, deleted) /\ old.pc = "bootstrap" /\ old.id # 0
      /\ old.todo \in Seq(SafeSteps(old.opts)) /\ old.todo # <<>> /\ old.todo \in Seq(AllSteps)
      /\ old.todo[Len(old.todo)].do = "token" /\ Possible(s, old)
  BY CallType DEF BootstrapStep, Good, CallTypes
<1>2. /\ s \in AllSteps /\ s = old.todo[1] /\ Len(old.todo) \in Nat \ {0}
      /\ Tail(old.todo) \in Seq(SafeSteps(old.opts)) /\ Tail(old.todo) \in Seq(AllSteps)
      /\ Len(Tail(old.todo)) = Len(old.todo) - 1
      /\ \A i \in 1 .. Len(Tail(old.todo)) : Tail(old.todo)[i] = old.todo[i + 1]
  BY <1>1, Popped
<1>3. call' = [call EXCEPT ![a] = c]
  BY DEF BootstrapStep, Inv, Typed
<1>4. /\ cluster' \in Clusters /\ TokensStay /\ Rights'
      /\ ~ old.opts.dryRun /\ s.do = "token" /\ cluster.tokens[n] = 0 => cluster'.tokens[n] = old.id
  <2>1. granted \subseteq granted' /\ granted' = Granted(old)
    BY DEF BootstrapStep, Granted
  <2>2. CASE old.opts.dryRun
    BY <2>1, <2>2, SameCluster DEF BootstrapStep
  <2>3. CASE ~ old.opts.dryRun
    BY <1>1, <2>1, <2>3, CarriedStep DEF BootstrapStep
  <2> QED BY <2>2, <2>3
<1>5. Seen(s, old) \in RoleTables
  BY <1>1, <1>2 DEF Seen, CallTypes, RoleTables, AllSteps, Inv, Typed, Clusters
<1>6. x \in Nat /\ NextPc(s, old) \in {"bootstrap", "ok", "store"}
  BY <1>1 DEF CallTypes, NextPc
<1>7. NextPc(s, old) = "bootstrap" => Len(old.todo) > 1
  BY DEF NextPc
<1>8. NextPc(s, old) = "store" => s.do = "token" /\ ~ old.opts.dryRun
  <2>1. NextPc(s, old) = "store" => ~ (Len(old.todo) > 1) /\ ~ old.opts.dryRun
    BY DEF NextPc
  <2>2. ~ (Len(old.todo) > 1) => Len(old.todo) = 1
    <3> DEFINE k == Len(old.todo)
    <3>1. k \in Nat \ {0}
      BY <1>2
    <3> HIDE DEF k
    <3>2. ~ (k > 1) => k = 1
      BY <3>1
    <3> QED BY <3>2 DEF k
  <2>3. Len(old.todo) = 1 => s = old.todo[Len(old.todo)]
    BY <1>2
  <2> QED BY <1>1, <2>1, <2>2, <2>3
<1>9. n \in Names /\ (n \notin deleted /\ old.reuse => old.previous # 0 /\ cluster.tokens[n] = old.previous)
  BY <1>1 DEF Good, CallTypes, Options
<1> DEFINE pc == NextPc(s, old)
           todo == Tail(old.todo)
           seen == Seen(s, old)
<1> HIDE DEF x, pc, todo, seen
<1>10. c = [old EXCEPT !.pc = pc, !.todo = todo, !.seen = seen, !.secret = x]
  BY DEF pc, todo, seen
<1>11. pc \in {"bootstrap", "ok", "store"} /\ todo \in Seq(AllSteps) /\ seen \in RoleTables
  BY <1>2, <1>5, <1>6 DEF pc, todo, seen
<1>12. /\ c \in CallTypes /\ c.pc = pc /\ c.todo = todo /\ c.secret = x /\ c.opts = old.opts
       /\ c.reuse = old.reuse /\ c.previous = old.previous /\ c.id = old.id
  BY <1>1, <1>6, <1>10, <1>11 DEF CallTypes, Working
<1> HIDE DEF c
<1>13. pc = "bootstrap" =>
         todo \in Seq(SafeSteps(old.opts)) /\ todo # <<>> /\ todo[Len(todo)].do = "token"
  <2> SUFFICES ASSUME pc = "bootstrap"
               PROVE  todo \in Seq(SafeSteps(old.opts)) /\ todo # <<>> /\ todo[Len(todo)].do = "token"
    OBVIOUS
  <2>1. Len(old.todo) > 1 /\ Len(todo) = Len(old.todo) - 1 /\ Len(todo) \in 1 .. Len(todo)
    BY <1>2, <1>7 DEF pc, todo
  <2>2. todo[Len(todo)] = old.todo[Len(todo) + 1] /\ Len(todo) + 1 = Len(old.todo)
    BY <1>2, <2>1 DEF todo
  <2>3. todo # <<>>
    BY <2>1, EmptySeq
  <2> QED BY <1>1, <1>2, <2>2, <2>3 DEF todo
<1>14. n \notin deleted /\ old.reuse => old.previous # 0 /\ cluster'.tokens[n] = old.previous
  BY <1>4, <1>9 DEF TokensStay
<1>15. pc = "store" /\ n \notin deleted => Stored(c) # 0 /\ cluster'.tokens[n] = Stored(c)
  <2> SUFFICES ASSUME pc = "store", n \notin deleted
               PROVE  Stored(c) # 0 /\ cluster'.tokens[n] = Stored(c)
    OBVIOUS
  <2>1. s.do = "token" /\ ~ old.opts.dryRun
    BY <1>8 DEF pc
  <2>2. CASE cluster.tokens[n] = 0
    BY <1>1, <1>4, <1>12, <2>1, <2>2 DEF x, Stored
  <2>3. CASE cluster.tokens[n] # 0
    <3>1. old.reuse /\ x = 0
      BY <1>1, <2>1, <2>3 DEF Possible, x
    <3> QED BY <1>12, <1>14, <3>1 DEF Stored
  <2> QED BY <2>2, <2>3
<1>16. Good(c, cluster'.tokens, deleted)
  BY <1>1, <1>11, <1>12, <1>13, <1>14, <1>15 DEF Good
<1> QED BY <1>3, <1>4, <1>16, CallStep DEF BootstrapStep, Inv, Typed

\* A call begins: it is given its number and its options.
LEMMA BeginStep ==
  ASSUME Inv, NEW a \in Callers, NEW pc \in {"matched", "login", "bridge"}, NEW o \in Options,
         calls < MaxCalls, calls' = calls + 1,
         call' = [call EXCEPT ![a] = [Idle EXCEPT !.pc = pc, !.id = calls + 1, !.opts = o]],
         UNCHANGED <<cluster, entry, granted, deleted>>
  PROVE  Inv'
<1> DEFINE c == [Idle EXCEPT !.pc = pc, !.id = calls + 1, !.opts = o]
<1>1. calls \in Nat /\ calls' \in 0 .. MaxCalls /\ calls + 1 \in Nat /\ calls + 1 # 0
  BY BoundsAssumption DEF Inv, Typed
<1>2. c \in CallTypes /\ c.pc = pc /\ c.id = calls + 1
  BY <1>1, IdleType DEF CallTypes, Working
<1> HIDE DEF c
<1>3. Good(c, cluster.tokens, deleted)
  BY <1>1, <1>2, PassingGood
<1> QED BY <1>1, <1>3, MoveStep DEF c

LEMMA WizardOptions ==
  ASSUME NEW k \in 1 .. 3
  PROVE  Wizards(k) \subseteq Options
<1>1. WizardNames[k] \in Names
  BY DEF Names
<1>2. \A c, p \in BOOLEAN :
        [name |-> WizardNames[k], role |-> "RestoreLabDrill", readOnly |-> FALSE, pool |-> TRUE,
         storages |-> TRUE, dryRun |-> FALSE, create |-> c, apply |-> p, wizard |-> TRUE] \in Options
  BY <1>1, RolesAssumption DEF Options
<1> QED BY <1>2 DEF Wizards

LEMMA BeginningStep ==
  ASSUME Inv, NEW a \in Callers, PostSetup(a) \/ Connect(a) \/ CreateNetwork(a)
  PROVE  Inv'
<1>1. CASE PostSetup(a)
  <2>1. calls + 1 \in 1 .. 3
    <3>1. calls \in 0 .. MaxCalls /\ calls < MaxCalls /\ MaxCalls \in 0 .. 3
      BY <1>1, BoundsAssumption DEF PostSetup, Inv, Typed
    <3> QED BY <3>1
  <2> QED BY <1>1, <2>1, WizardOptions, BeginStep DEF PostSetup
<1>2. CASE Connect(a)
  BY <1>2, AskedAssumption, BeginStep DEF Connect
<1>3. CASE CreateNetwork(a)
  <2>1. PICK apply \in BOOLEAN :
           call' = [call EXCEPT ![a] = [Idle EXCEPT !.pc = "bridge", !.id = calls + 1,
                      !.opts = [NoOptions EXCEPT !.wizard = FALSE, !.create = TRUE, !.apply = apply]]]
    BY <1>3 DEF CreateNetwork
  <2>2. [NoOptions EXCEPT !.wizard = FALSE, !.create = TRUE, !.apply = apply] \in Options
    BY NoOptionsType DEF Options
  <2> QED BY <1>3, <2>1, <2>2, BeginStep DEF CreateNetwork
<1> QED BY <1>1, <1>2, <1>3

\* A call is over: its record is idle again.
LEMMA EndStep ==
  ASSUME Inv, NEW a \in Callers, call' = [call EXCEPT ![a] = Idle],
         UNCHANGED <<cluster, entry, granted, deleted, calls>>
  PROVE  Inv'
  BY IdleType, IdleGood, MoveStep DEF Inv, Typed

LEMMA ConsumeStep ==
  ASSUME Inv, NEW a \in Callers, ConsumeSetupToken(a)
  PROVE  Inv'
<1>1. CASE server.setup
  BY <1>1, PcStep DEF ConsumeSetupToken, Working
<1>2. CASE ~ server.setup
  BY <1>2, EndStep DEF ConsumeSetupToken
<1> QED BY <1>1, <1>2

LEMMA StoreStep ==
  ASSUME Inv, NEW a \in Callers, Store(a)
  PROVE  Inv'
<1> DEFINE old == call[a]
           e == Entry(old)
           c == [old EXCEPT !.pc = "verify"]
<1>1. CASE Stored(old) = 0
  BY <1>1, PcStep DEF Store
<1>2. CASE Stored(old) # 0
  <2>1. /\ old \in CallTypes /\ old.id # 0 /\ old.opts.name \in Names /\ Stored(old) \in Nat
        /\ old.opts.name \notin deleted => cluster.tokens[old.opts.name] = Stored(old)
    BY CallType DEF Store, Good, CallTypes, Options, Stored
  <2>2. call' = [call EXCEPT ![a] = c] /\ entry' = e /\ UNCHANGED <<cluster, calls, granted, deleted>>
    BY <1>2 DEF Store, Inv, Typed
  <2>3. c \in CallTypes /\ c.pc = "verify" /\ c.id = old.id
    BY <2>1 DEF CallTypes, Working
  <2> HIDE DEF c
  <2>4. Good(c, cluster'.tokens, deleted)
    BY <2>1, <2>3, PassingGood
  <2>5. entry' \in [set : BOOLEAN, name : Names, secret : Nat]
    BY <2>1, <2>2 DEF Entry
  <2>6. StoredSecretFits'
    BY <1>2, <2>1, <2>2 DEF StoredSecretFits, Opens, Entry
  <2>7. cluster' \in Clusters /\ TokensStay /\ Rights'
    BY <2>2, SameCluster
  <2> QED BY <2>2, <2>4, <2>5, <2>6, <2>7, CallStep DEF Inv, Typed
<1> QED BY <1>1, <1>2

\* The steps that only decide where a call goes on.
LEMMA DecideStep ==
  ASSUME Inv, NEW a \in Callers, Fail(a) \/ Verify(a) \/ Mint(a) \/ Return(a)
  PROVE  Inv'
<1>1. CASE Fail(a)
  BY <1>1, PcStep DEF Fail
<1>2. CASE Verify(a)
  <2> DEFINE pc == IF ~ Opens(Entry(call[a])) THEN "failed"
                   ELSE IF call[a].opts.create THEN "bridge" ELSE AfterBridge(call[a])
  <2>1. pc \in {"matched", "ok", "failed"} \union (Working \ {"bootstrap", "store"})
    BY DEF AfterBridge, Working
  <2> HIDE DEF pc
  <2>2. call[a].pc # "idle" /\ call' = [call EXCEPT ![a].pc = pc]
    BY <1>2 DEF Verify, pc
  <2> QED BY <1>2, <2>1, <2>2, PcStep DEF Verify
<1>3. CASE Mint(a)
  BY <1>3, PcStep DEF Mint
<1>4. CASE Return(a)
  BY <1>4, EndStep DEF Return
<1> QED BY <1>1, <1>2, <1>3, <1>4

LEMMA BridgeTypes ==
  ASSUME NEW b \in BridgeStates
  PROVE  EnsureIsolatedBridge(b) \in BridgeStates /\ ApplyNetwork(b) \in BridgeStates
  BY DEF EnsureIsolatedBridge, CreateIsolatedBridge, ApplyNetwork, BridgeStates

\* The node's bridge is made, or applied.
LEMMA BridgeEffect ==
  ASSUME Inv, granted \subseteq granted',
         \/ cluster' = [cluster EXCEPT !.bridge = EnsureIsolatedBridge(@)]
         \/ cluster' = [cluster EXCEPT !.bridge = ApplyNetwork(@)]
  PROVE  cluster' \in Clusters /\ TokensStay /\ Rights'
<1>1. cluster \in Clusters /\ cluster.bridge \in BridgeStates
  BY DEF Inv, Typed, Clusters
<1>2. \/ cluster' = [cluster EXCEPT !.bridge = EnsureIsolatedBridge(cluster.bridge)]
      \/ cluster' = [cluster EXCEPT !.bridge = ApplyNetwork(cluster.bridge)]
  BY <1>1 DEF Clusters
<1> QED BY <1>1, <1>2, BridgeTypes, BridgeStep

LEMMA NetworkStep ==
  ASSUME Inv, NEW a \in Callers, Bridge(a) \/ Apply(a)
  PROVE  Inv'
<1>0. AfterBridge(call[a]) \in {"ok", "mint"} /\ {"ok", "mint", "apply", "failed"} \subseteq
        {"matched", "ok", "failed"} \union (Working \ {"bootstrap", "store"})
  BY DEF AfterBridge, Working
<1>1. CASE Apply(a)
  <2>1. cluster' \in Clusters /\ TokensStay /\ Rights'
    BY <1>1, BridgeEffect DEF Apply
  <2>2. Moves(a, AfterBridge(call[a]))
    BY <1>1 DEF Apply, Told, Moves
  <2> QED BY <1>0, <1>1, <2>1, <2>2, EffectStep DEF Apply
<1>2. ASSUME Bridge(a), call' = Told(a, call[a]), UNCHANGED cluster
      PROVE  Inv'
  <2>1. Moves(a, AfterBridge(call[a]))
    BY <1>2 DEF Told, Moves
  <2>2. cluster' \in Clusters /\ TokensStay /\ Rights'
    BY <1>2, SameCluster DEF Bridge
  <2> QED BY <1>0, <1>2, <2>1, <2>2, EffectStep DEF Bridge
<1>3. ASSUME Bridge(a), cluster' = [cluster EXCEPT !.bridge = EnsureIsolatedBridge(@)],
             call' = IF cluster.bridge = "absent" /\ call[a].opts.apply
                     THEN [call EXCEPT ![a].pc = "apply"] ELSE Told(a, call[a])
      PROVE  Inv'
  <2>1. cluster' \in Clusters /\ TokensStay /\ Rights'
    BY <1>3, BridgeEffect DEF Bridge
  <2>2. Moves(a, "apply") \/ Moves(a, AfterBridge(call[a]))
    BY <1>3 DEF Told, Moves
  <2> QED BY <1>0, <1>3, <2>1, <2>2, EffectStep DEF Bridge
<1>4. ASSUME Bridge(a), call' = [call EXCEPT ![a].pc = Failed(call[a])], UNCHANGED cluster
      PROVE  Inv'
  <2>1. Failed(call[a]) \in {"ok", "failed"}
    BY DEF Failed
  <2> QED BY <1>0, <1>4, <2>1, PcStep DEF Bridge
<1> QED BY <1>1, <1>2, <1>3, <1>4 DEF Bridge

LEMMA FaultStep ==
  ASSUME Inv, NEW a \in Callers, Fault(a)
  PROVE  Inv'
<1> DEFINE c == call[a]
<1>1. /\ c.pc # "idle" /\ Failed(c) \in {"ok", "failed"} /\ call' = [call EXCEPT ![a].pc = Failed(c)]
      /\ UNCHANGED <<entry, deleted, calls>> /\ Moves(a, Failed(c))
  BY DEF Fault, Failed, Working, Moves
<1>2. CASE UNCHANGED <<cluster, granted>>
  BY <1>1, <1>2, PcStep
<1>3. CASE cluster' = Effect(c) /\ granted' = Granted(c)
  <2>1. granted \subseteq granted'
    BY <1>3 DEF Granted
  <2>2. cluster' \in Clusters /\ TokensStay /\ Rights'
    <3>1. CASE c.pc = "bootstrap" /\ ~ c.opts.dryRun /\ Possible(Head(c.todo), c)
      BY <1>3, <3>1, CarriedStep DEF Effect
    <3>2. CASE c.pc = "bridge" /\ SafeToReuse(cluster.bridge)
      BY <1>3, <2>1, <3>2, BridgeEffect DEF Effect
    <3>3. CASE c.pc = "apply"
      BY <1>3, <2>1, <3>3, BridgeEffect DEF Effect
    <3>4. CASE /\ ~ (c.pc = "bootstrap" /\ ~ c.opts.dryRun /\ Possible(Head(c.todo), c))
               /\ ~ (c.pc = "bridge" /\ SafeToReuse(cluster.bridge)) /\ c.pc # "apply"
      BY <1>3, <2>1, <3>4, SameCluster DEF Effect
    <3> QED BY <3>1, <3>2, <3>3, <3>4
  <2> QED BY <1>1, <2>2, EffectStep
<1> QED BY <1>2, <1>3 DEF Fault

\* What changes none of the calls' guarantees: the server, and the administrator.
LEMMA ServerStep ==
  ASSUME Inv, Serve \/ HandOver \/ StopServer
  PROVE  Inv'
<1>1. UNCHANGED <<cluster, entry, calls, granted, deleted>> /\ DOMAIN call' = Callers
  BY DEF Serve, HandOver, StopServer, Inv, Typed
<1>2. \A b \in Callers : call'[b] = call[b] \/ call'[b] = Idle
  BY DEF Serve, HandOver, StopServer
<1>3. \A b \in Callers : Good(call'[b], cluster.tokens, deleted)
  BY <1>2, CallType, IdleType, IdleGood
<1> QED BY <1>1, <1>3 DEF Inv, Typed, Rights, InFlight, StoredSecretFits, Opens

LEMMA DeleteStep ==
  ASSUME Inv, DeleteToken
  PROVE  Inv'
<1>1. PICK n \in Names : cluster' = [cluster EXCEPT !.tokens[n] = 0] /\ deleted' = deleted \union {n}
  BY DEF DeleteToken
<1> DEFINE T == [cluster.tokens EXCEPT ![n] = 0]
<1>2. cluster \in Clusters /\ cluster.tokens \in [Names -> Nat]
  BY DEF Inv, Typed, Clusters
<1>3. cluster' = [cluster EXCEPT !.tokens = T]
  BY <1>1, <1>2 DEF Clusters
<1>4. T \in [Names -> Nat] /\ \A m \in Names : m # n => T[m] = cluster.tokens[m]
  BY <1>2
<1> HIDE DEF T
<1>5. /\ cluster' \in Clusters /\ cluster'.roles = cluster.roles /\ cluster'.acl = cluster.acl
      /\ cluster'.tokens = T
  BY <1>2, <1>3, <1>4 DEF Clusters
<1>6. \A b \in Callers : Good(call[b], cluster'.tokens, deleted')
  BY CallType, IdleGood DEF DeleteToken
<1>7. entry.name \in Names
  BY DEF Inv, Typed
<1>8. StoredSecretFits'
  BY <1>1, <1>4, <1>5, <1>7 DEF DeleteToken, Inv, StoredSecretFits, Opens
<1> QED BY <1>5, <1>6, <1>8 DEF DeleteToken, Inv, Typed, Rights, InFlight

LEMMA InvStep == Inv /\ [ProvisionNext]_provisionVars => Inv'
<1> SUFFICES ASSUME Inv, [ProvisionNext]_provisionVars PROVE Inv'
  OBVIOUS
<1>1. CASE UNCHANGED provisionVars
  BY <1>1 DEF provisionVars, Inv, Typed, Rights, InFlight, StoredSecretFits, Opens
<1>2. ASSUME NEW a \in Callers, PostSetup(a) \/ Connect(a) \/ CreateNetwork(a)
      PROVE  Inv'
  BY <1>2, BeginningStep
<1>3. ASSUME NEW a \in Callers, Work(a)
      PROVE  Inv'
  BY <1>3, ConsumeStep, LoginStep, BootstrapStepStep, StoreStep, DecideStep, NetworkStep DEF Work
<1> QED BY <1>1, <1>2, <1>3, FaultStep, ServerStep, DeleteStep DEF ProvisionNext

LEMMA InvImplies == Inv => DestroysOnlyInPool /\ StoredSecretFits
<1> SUFFICES ASSUME Inv, NEW p \in Paths, NEW r \in Roles, Destroys(p, r), p # "/pool"
             PROVE  \E o \in granted :
                      /\ ~ o.readOnly /\ o.role = r
                      /\ (p = "/vms" /\ ~ o.pool) \/ (\E q \in granted : r \in OtherRoles(q))
  BY DEF Inv, DestroysOnlyInPool
<1>1. PICK o \in granted : ~ o.readOnly /\ o.role = r
  BY DEF Inv, Rights, Destroys
<1>2. \/ p = "/vms" /\ \E n \in granted : ~ n.pool /\ ~ n.readOnly /\ n.role = r
      \/ \E q \in granted : r \in OtherRoles(q)
  BY DEF Inv, Rights, Destroys
<1> QED BY <1>1, <1>2

-----------------------------------------------------------------------------
(* One set-up at a time.                                                   *)

Busy(c) == c.opts.wizard /\ c.pc \in Working

\* The setup token is there only while no request is past it, and neither is
\* there while the server is down.
Solo ==
  /\ server \in Servers
  /\ \A a, b \in Callers : Busy(call[a]) /\ Busy(call[b]) => a = b
  /\ server.setup \/ server.mode = "down" => \A a \in Callers : ~ Busy(call[a])
  /\ server.mode = "down" => ~ server.setup

LEMMA SoloInit == ProvisionInit => Solo
<1> SUFFICES ASSUME ProvisionInit PROVE Solo
  OBVIOUS
<1>1. \A a \in Callers : ~ Busy(call[a])
  BY IdleType DEF ProvisionInit, Busy, Working
<1> QED BY <1>1 DEF ProvisionInit, Solo, Servers

\* A step of a call that was past the setup token, or is not past it now.
LEMMA SoloCall ==
  ASSUME Inv, Solo, NEW a \in Callers, NEW c, call' = [call EXCEPT ![a] = c],
         Busy(c) => Busy(call[a]),
         UNCHANGED server \/ server' = [server EXCEPT !.tokens = @ + 1, !.done = TRUE]
  PROVE  Solo'
<1>1. call'[a] = c /\ \A b \in Callers : b # a => call'[b] = call[b]
  BY DEF Inv, Typed
<1>2. \A b \in Callers : Busy(call'[b]) => Busy(call[b])
  BY <1>1
<1>3. server' \in Servers /\ server'.setup = server.setup /\ server'.mode = server.mode
  <2>1. server \in Servers
    BY DEF Solo
  <2>2. CASE UNCHANGED server
    BY <2>1, <2>2
  <2>3. CASE server' = [server EXCEPT !.tokens = @ + 1, !.done = TRUE]
    <3> DEFINE k == server.tokens + 1
    <3>1. k \in Nat /\ server' = [server EXCEPT !.tokens = k, !.done = TRUE]
      BY <2>1, <2>3 DEF Servers
    <3> HIDE DEF k
    <3> QED BY <2>1, <3>1 DEF Servers
  <2> QED BY <2>2, <2>3
<1> QED BY <1>2, <1>3 DEF Solo

\* The steps that move only a call's place.
LEMMA SoloPc ==
  ASSUME Inv, Solo, NEW a \in Callers, call[a].pc \in Working, NEW pc,
         Moves(a, pc),
         UNCHANGED server \/ server' = [server EXCEPT !.tokens = @ + 1, !.done = TRUE]
  PROVE  Solo'
<1> DEFINE c == call'[a]
<1>0. DOMAIN call = Callers /\ call[a] \in CallTypes
  BY CallType DEF Inv, Typed
<1>1. call' = [call EXCEPT ![a] = c]
  BY <1>0 DEF Moves
<1>2. c.opts = call[a].opts
  BY <1>0 DEF Moves, CallTypes
<1> HIDE DEF c
<1> QED BY <1>1, <1>2, SoloCall DEF Busy

LEMMA SoloEnd ==
  ASSUME Inv, Solo, NEW a \in Callers, call' = [call EXCEPT ![a] = Idle], UNCHANGED server
  PROVE  Solo'
  BY IdleType, SoloCall DEF Busy, Working

LEMMA SoloBegin ==
  ASSUME Inv, Solo, NEW a \in Callers, PostSetup(a) \/ Connect(a) \/ CreateNetwork(a)
  PROVE  Solo'
<1>1. PICK c : /\ call' = [call EXCEPT ![a] = c] /\ ~ Busy(c)
  <2>1. CASE PostSetup(a)
    <3>1. PICK o \in Wizards(calls + 1) :
             call' = [call EXCEPT ![a] = [Idle EXCEPT !.pc = "matched", !.id = calls + 1, !.opts = o]]
      BY <2>1 DEF PostSetup
    <3>2. [Idle EXCEPT !.pc = "matched", !.id = calls + 1, !.opts = o].pc = "matched"
      BY IdleType DEF CallTypes
    <3> QED BY <3>1, <3>2 DEF Busy, Working
  <2>2. CASE Connect(a)
    <3>1. PICK o \in Asked :
             call' = [call EXCEPT ![a] = [Idle EXCEPT !.pc = "login", !.id = calls + 1, !.opts = o]]
      BY <2>2 DEF Connect
    <3>2. [Idle EXCEPT !.pc = "login", !.id = calls + 1, !.opts = o].opts = o
      BY IdleType DEF CallTypes
    <3> QED BY <3>1, <3>2, AskedAssumption DEF Busy
  <2>3. CASE CreateNetwork(a)
    <3>1. PICK apply \in BOOLEAN :
             call' = [call EXCEPT ![a] = [Idle EXCEPT !.pc = "bridge", !.id = calls + 1,
                        !.opts = [NoOptions EXCEPT !.wizard = FALSE, !.create = TRUE, !.apply = apply]]]
      BY <2>3 DEF CreateNetwork
    <3> DEFINE o == [NoOptions EXCEPT !.wizard = FALSE, !.create = TRUE, !.apply = apply]
               c == [Idle EXCEPT !.pc = "bridge", !.id = calls + 1, !.opts = o]
    <3>2. ~ o.wizard
      BY NoOptionsType DEF Options
    <3> HIDE DEF o
    <3>3. c.opts = o
      BY IdleType DEF CallTypes
    <3>4. ~ Busy(c)
      BY <3>2, <3>3 DEF Busy
    <3> QED BY <3>1, <3>4 DEF o
  <2> QED BY <2>1, <2>2, <2>3
<1>2. UNCHANGED server
  BY DEF PostSetup, Connect, CreateNetwork
<1> QED BY <1>1, <1>2, SoloCall

\* Compared again and spent under one lock: whoever spends it is the only one.
LEMMA SoloConsume ==
  ASSUME Inv, Solo, NEW a \in Callers, ConsumeSetupToken(a)
  PROVE  Solo'
<1>1. CASE server.setup
  <2>1. server' = [server EXCEPT !.setup = FALSE] /\ call' = [call EXCEPT ![a].pc = "login"]
    BY <1>1 DEF ConsumeSetupToken
  <2>2. server' \in Servers /\ ~ server'.setup /\ server'.mode # "down"
    BY <1>1, <2>1 DEF Solo, Servers
  <2>3. \A b \in Callers : b # a => ~ Busy(call'[b])
    BY <1>1, <2>1 DEF Inv, Typed, Solo
  <2> QED BY <2>2, <2>3 DEF Solo
<1>2. CASE ~ server.setup
  BY <1>2, SoloEnd DEF ConsumeSetupToken
<1> QED BY <1>1, <1>2

LEMMA SoloWork ==
  ASSUME Inv, Solo, NEW a \in Callers, Work(a) \/ Fault(a)
  PROVE  Solo'
<1>1. CASE Login(a)
  <2> DEFINE c == [call[a] EXCEPT !.pc = "bootstrap", !.todo = Bootstrap(call[a].opts),
                     !.reuse = Reuses(call[a].opts), !.previous = IF entry.set THEN entry.secret ELSE 0]
  <2>1. call' = [call EXCEPT ![a] = c] /\ UNCHANGED server /\ call[a].pc \in Working
    BY <1>1 DEF Login, Inv, Typed, Working
  <2>2. c.opts = call[a].opts
    BY CallType DEF CallTypes
  <2> HIDE DEF c
  <2> QED BY <2>1, <2>2, SoloCall DEF Busy
<1>2. CASE BootstrapStep(a)
  <2> DEFINE s == Head(call[a].todo)
             x == IF s.do = "token" /\ cluster.tokens[call[a].opts.name] = 0 THEN call[a].id ELSE 0
             c == [call[a] EXCEPT !.pc = NextPc(s, call[a]), !.todo = Tail(call[a].todo),
                     !.seen = Seen(s, call[a]), !.secret = x]
  <2>1. call' = [call EXCEPT ![a] = c] /\ UNCHANGED server /\ call[a].pc \in Working
    BY <1>2 DEF BootstrapStep, Inv, Typed, Working
  <2>2. c.opts = call[a].opts
    BY CallType DEF CallTypes
  <2> HIDE DEF c
  <2> QED BY <2>1, <2>2, SoloCall DEF Busy
<1>3. CASE Fail(a) \/ Verify(a) \/ Mint(a) \/ Apply(a)
  BY <1>3, SoloPc DEF Fail, Verify, Mint, Apply, Working, Told, Moves
<1>4. CASE Store(a) \/ Bridge(a)
  BY <1>4, SoloPc DEF Store, Bridge, Working, Told, Moves
<1>5. CASE Fault(a)
  BY <1>5, SoloPc DEF Fault, Moves
<1>6. CASE Return(a)
  BY <1>6, SoloEnd DEF Return
<1> QED BY <1>1, <1>2, <1>3, <1>4, <1>5, <1>6, SoloConsume DEF Work

LEMMA SoloServer ==
  ASSUME Inv, Solo, Serve \/ HandOver \/ StopServer
  PROVE  Solo'
<1>1. CASE Serve
  <2>1. /\ server' \in Servers /\ server'.mode # "down" /\ UNCHANGED call
        /\ \A a \in Callers : ~ Busy(call[a])
    BY <1>1 DEF Serve, Solo, Servers
  <2> QED BY <2>1 DEF Solo
<1>2. CASE HandOver
  <2>1. server' \in Servers /\ server'.mode = "serving" /\ ~ server'.setup /\ UNCHANGED call
    BY <1>2 DEF HandOver, Solo, Servers
  <2> QED BY <2>1 DEF Solo
<1>3. CASE StopServer
  <2>1. server' \in Servers /\ ~ server'.setup
    BY <1>3 DEF StopServer, Solo, Servers
  <2>2. \A a \in Callers : ~ Busy(call'[a])
    BY <1>3, IdleType DEF StopServer, Busy, Working
  <2> QED BY <2>1, <2>2 DEF Solo
<1> QED BY <1>1, <1>2, <1>3

LEMMA SoloStep == Inv /\ Solo /\ [ProvisionNext]_provisionVars => Solo'
<1> SUFFICES ASSUME Inv, Solo, [ProvisionNext]_provisionVars PROVE Solo'
  OBVIOUS
<1>1. CASE UNCHANGED provisionVars \/ DeleteToken
  BY <1>1 DEF provisionVars, DeleteToken, Solo
<1>2. ASSUME NEW a \in Callers, PostSetup(a) \/ Connect(a) \/ CreateNetwork(a)
      PROVE  Solo'
  BY <1>2, SoloBegin
<1>3. ASSUME NEW a \in Callers, Work(a) \/ Fault(a)
      PROVE  Solo'
  BY <1>3, SoloWork
<1> QED BY <1>1, <1>2, <1>3, SoloServer DEF ProvisionNext

LEMMA SoloImplies == Solo => OneSetupAtATime
<1> SUFFICES ASSUME Solo PROVE OneSetupAtATime
  OBVIOUS
<1> DEFINE S == {a \in Callers : call[a].opts.wizard /\ call[a].pc \in Working}
<1>1. \A a, b \in S : a = b
  BY DEF Solo, Busy
<1>2. Cardinality(S) <= 1
  <2> HIDE DEF S
  <2>1. CASE S = {}
    BY <2>1, FS_EmptySet
  <2>2. CASE S # {}
    <3>1. PICK a : a \in S
      BY <2>2
    <3>2. S = {a}
      BY <1>1, <3>1
    <3>3. Cardinality({a}) = 1
      BY FS_Singleton
    <3> QED BY <3>2, <3>3
  <2> QED BY <2>1, <2>2
<1>3. server.setup => \A a \in Callers : call[a].opts.wizard => call[a].pc \notin Working
  BY DEF Solo, Busy
<1> QED BY <1>2, <1>3 DEF OneSetupAtATime

-----------------------------------------------------------------------------
(* The bridge.                                                             *)

LEMMA CarriedBridge ==
  ASSUME Inv, NEW s \in AllSteps, NEW c
  PROVE  Carried(s, c).bridge = cluster.bridge
<1>1. cluster \in Clusters
  BY DEF Inv, Typed
<1> QED BY <1>1 DEF Carried, Clusters

LEMMA BridgeKept ==
  ASSUME Inv, [ProvisionNext]_provisionVars
  PROVE  \/ cluster'.bridge = cluster.bridge
         \/ cluster'.bridge = EnsureIsolatedBridge(cluster.bridge)
         \/ cluster'.bridge = ApplyNetwork(cluster.bridge)
<1>0. cluster \in Clusters
  BY DEF Inv, Typed
<1>1. ASSUME NEW a \in Callers, call[a].pc = "bootstrap"
      PROVE  Head(call[a].todo) \in AllSteps
  <2>1. call[a].todo \in Seq(AllSteps) /\ call[a].todo # <<>>
    BY <1>1, CallType DEF Good, CallTypes
  <2> QED BY <2>1, HeadTailProperties
<1>2. ASSUME NEW a \in Callers, BootstrapStep(a)
      PROVE  cluster'.bridge = cluster.bridge
  BY <1>1, <1>2, CarriedBridge DEF BootstrapStep
<1>3. ASSUME NEW a \in Callers, Fault(a)
      PROVE  \/ cluster'.bridge = cluster.bridge
             \/ cluster'.bridge = EnsureIsolatedBridge(cluster.bridge)
             \/ cluster'.bridge = ApplyNetwork(cluster.bridge)
  <2> DEFINE c == call[a]
  <2>1. CASE UNCHANGED cluster
    BY <2>1
  <2>2. CASE cluster' = Effect(c)
    <3>1. CASE c.pc = "bootstrap" /\ ~ c.opts.dryRun /\ Possible(Head(c.todo), c)
      BY <1>1, <2>2, <3>1, CarriedBridge DEF Effect
    <3>2. CASE ~ (c.pc = "bootstrap" /\ ~ c.opts.dryRun /\ Possible(Head(c.todo), c))
      BY <1>0, <2>2, <3>2 DEF Effect, Clusters
    <3> QED BY <3>1, <3>2
  <2> QED BY <1>3, <2>1, <2>2 DEF Fault
<1>4. ASSUME NEW a \in Callers, Bridge(a) \/ Apply(a)
      PROVE  \/ cluster'.bridge = cluster.bridge
             \/ cluster'.bridge = EnsureIsolatedBridge(cluster.bridge)
             \/ cluster'.bridge = ApplyNetwork(cluster.bridge)
  BY <1>0, <1>4 DEF Bridge, Apply, Clusters
<1>5. ASSUME DeleteToken
      PROVE  cluster'.bridge = cluster.bridge
  BY <1>0, <1>5 DEF DeleteToken, Clusters
<1>6. ASSUME NEW a \in Callers, PostSetup(a) \/ Connect(a) \/ CreateNetwork(a)
      PROVE  UNCHANGED cluster
  BY <1>6 DEF PostSetup, Connect, CreateNetwork
<1>7. ASSUME NEW a \in Callers,
             \/ ConsumeSetupToken(a) \/ Login(a) \/ Fail(a) \/ Store(a)
             \/ Verify(a) \/ Mint(a) \/ Return(a)
      PROVE  UNCHANGED cluster
  BY <1>7 DEF ConsumeSetupToken, Login, Fail, Store, Verify, Mint, Return
<1>8. ASSUME Serve \/ HandOver \/ StopServer \/ UNCHANGED provisionVars
      PROVE  UNCHANGED cluster
  BY <1>8 DEF Serve, HandOver, StopServer, provisionVars
<1> QED BY <1>2, <1>3, <1>4, <1>5, <1>6, <1>7, <1>8 DEF ProvisionNext, Work

LEMMA BridgeAlone ==
  Inv /\ [ProvisionNext]_provisionVars =>
    [\A b \in {"uplink", "used", "active"} : cluster.bridge = b => cluster'.bridge = b]_provisionVars
  BY BridgeKept DEF EnsureIsolatedBridge, ApplyNetwork

\* Of a bridge that is isolated now, who was told so or is about to apply it.
Informed(c) == c.bridge \/ c.pc = "apply"

Isolated == \A a \in Callers : Informed(call[a]) => cluster.bridge \notin {"absent", "uplink"}

LEMMA IsolatedInit == ProvisionInit => Isolated
  BY IdleType DEF ProvisionInit, Isolated, Informed

\* The steps of a call that only moves on, or is over.
LEMMA MovesOn ==
  ASSUME Inv, NEW a \in Callers, NEW pc, call' = [call EXCEPT ![a].pc = pc], pc # "apply",
         NEW b \in Callers, Informed(call'[b])
  PROVE  Informed(call[b])
<1>1. DOMAIN call = Callers /\ call[a] \in CallTypes
  BY CallType DEF Inv, Typed
<1>2. call'[a].pc = pc /\ call'[a].bridge = call[a].bridge /\ (b # a => call'[b] = call[b])
  BY <1>1 DEF CallTypes
<1> QED BY <1>2 DEF Informed

LEMMA Restarts ==
  ASSUME Inv, NEW a \in Callers, NEW c, call' = [call EXCEPT ![a] = c], c.bridge => call[a].bridge,
         c.pc # "apply", NEW b \in Callers, Informed(call'[b])
  PROVE  Informed(call[b])
<1>1. call'[a] = c /\ (b # a => call'[b] = call[b])
  BY DEF Inv, Typed
<1> QED BY <1>1 DEF Informed

\* Nobody is told of the bridge but by Bridge, and by Apply after it.
LEMMA OnlyBridgeTells ==
  ASSUME Inv, [ProvisionNext]_provisionVars, NEW b \in Callers, Informed(call'[b])
  PROVE  Informed(call[b]) \/ Bridge(b)
<1>1. CASE UNCHANGED provisionVars \/ DeleteToken \/ Serve \/ HandOver
  BY <1>1 DEF provisionVars, DeleteToken, Serve, HandOver
<1>2. CASE StopServer
  <2>1. call'[b] = call[b] \/ call'[b] = Idle
    BY <1>2 DEF StopServer
  <2> QED BY <2>1, IdleType DEF Informed
<1>3. ASSUME NEW a \in Callers, PostSetup(a) \/ Connect(a) \/ CreateNetwork(a)
      PROVE  Informed(call[b])
  <2>1. \E pc \in {"matched", "login", "bridge"} : \E o :
           call' = [call EXCEPT ![a] = [Idle EXCEPT !.pc = pc, !.id = calls + 1, !.opts = o]]
    BY <1>3 DEF PostSetup, Connect, CreateNetwork
  <2>2. PICK pc \in {"matched", "login", "bridge"} : \E o :
           call' = [call EXCEPT ![a] = [Idle EXCEPT !.pc = pc, !.id = calls + 1, !.opts = o]]
    BY <2>1
  <2>3. PICK o :
           call' = [call EXCEPT ![a] = [Idle EXCEPT !.pc = pc, !.id = calls + 1, !.opts = o]]
    BY <2>2
  <2> DEFINE c == [Idle EXCEPT !.pc = pc, !.id = calls + 1, !.opts = o]
  <2>4. ~ c.bridge /\ c.pc # "apply"
    BY IdleType DEF CallTypes
  <2> HIDE DEF c
  <2> QED BY <2>3, <2>4, Restarts DEF c
<1>4. ASSUME NEW a \in Callers, Login(a)
      PROVE  Informed(call[b])
  <2> DEFINE c == [call[a] EXCEPT !.pc = "bootstrap", !.todo = Bootstrap(call[a].opts),
                     !.reuse = Reuses(call[a].opts), !.previous = IF entry.set THEN entry.secret ELSE 0]
  <2>1. call' = [call EXCEPT ![a] = c]
    BY <1>4 DEF Login, Inv, Typed
  <2>2. c.bridge = call[a].bridge /\ c.pc # "apply"
    BY CallType DEF CallTypes
  <2> HIDE DEF c
  <2> QED BY <2>1, <2>2, Restarts
<1>5. ASSUME NEW a \in Callers, BootstrapStep(a)
      PROVE  Informed(call[b])
  <2> DEFINE s == Head(call[a].todo)
             x == IF s.do = "token" /\ cluster.tokens[call[a].opts.name] = 0 THEN call[a].id ELSE 0
             c == [call[a] EXCEPT !.pc = NextPc(s, call[a]), !.todo = Tail(call[a].todo),
                     !.seen = Seen(s, call[a]), !.secret = x]
  <2>1. call' = [call EXCEPT ![a] = c]
    BY <1>5 DEF BootstrapStep, Inv, Typed
  <2>2. c.bridge = call[a].bridge /\ c.pc = NextPc(s, call[a])
    BY CallType DEF CallTypes
  <2>3. NextPc(s, call[a]) # "apply"
    BY DEF NextPc
  <2> HIDE DEF c
  <2> QED BY <2>1, <2>2, <2>3, Restarts
<1>6. ASSUME NEW a \in Callers, Fail(a) \/ Store(a) \/ Verify(a) \/ Mint(a)
      PROVE  Informed(call[b])
  <2>1. \E pc : call' = [call EXCEPT ![a].pc = pc] /\ pc # "apply"
    BY <1>6 DEF Fail, Store, Verify, AfterBridge, Mint
  <2> QED BY <2>1, MovesOn
<1>7. ASSUME NEW a \in Callers, Fault(a)
      PROVE  Informed(call[b])
  <2>1. call' = [call EXCEPT ![a].pc = Failed(call[a])] /\ Failed(call[a]) # "apply"
    BY <1>7 DEF Fault, Failed
  <2> QED BY <2>1, MovesOn
<1>8. ASSUME NEW a \in Callers, Return(a)
      PROVE  Informed(call[b])
  <2>1. call' = [call EXCEPT ![a] = Idle]
    BY <1>8 DEF Return
  <2> QED BY <2>1, IdleType, Restarts
<1>9. ASSUME NEW a \in Callers, ConsumeSetupToken(a)
      PROVE  Informed(call[b])
  <2>1. CASE server.setup
    <3>1. call' = [call EXCEPT ![a].pc = "login"]
      BY <1>9, <2>1 DEF ConsumeSetupToken
    <3> QED BY <3>1, MovesOn
  <2>2. CASE ~ server.setup
    <3>1. call' = [call EXCEPT ![a] = Idle]
      BY <1>9, <2>2 DEF ConsumeSetupToken
    <3> QED BY <3>1, IdleType, Restarts
  <2> QED BY <2>1, <2>2
<1>10. ASSUME NEW a \in Callers, Bridge(a) \/ Apply(a)
       PROVE  Informed(call[b]) \/ Bridge(b)
  <2>1. \E pc : Moves(a, pc)
    BY <1>10 DEF Bridge, Apply, Told, Moves
  <2>2. b # a => call'[b] = call[b]
    BY <2>1 DEF Moves, Inv, Typed
  <2>3. b = a => Bridge(b) \/ call[b].pc = "apply"
    BY <1>10 DEF Apply
  <2> QED BY <2>2, <2>3 DEF Informed
<1> QED BY <1>1, <1>2, <1>3, <1>4, <1>5, <1>6, <1>7, <1>8, <1>9, <1>10 DEF ProvisionNext, Work

\* Bridge tells of one that the service token may be shown, or that is nobody
\* else's: of none with an uplink.
LEMMA BridgeTells ==
  ASSUME Inv, NEW b \in Callers, Bridge(b), Informed(call'[b]), ~ Informed(call[b])
  PROVE  cluster'.bridge \notin {"absent", "uplink"}
<1>1. cluster \in Clusters /\ DOMAIN call = Callers /\ call[b] \in CallTypes
  BY CallType DEF Inv, Typed
<1>2. CASE Validates(cluster.bridge) /\ UNCHANGED cluster
  BY <1>2 DEF Validates
<1>3. CASE /\ SafeToReuse(cluster.bridge)
           /\ cluster' = [cluster EXCEPT !.bridge = EnsureIsolatedBridge(@)]
  BY <1>1, <1>3 DEF SafeToReuse, EnsureIsolatedBridge, CreateIsolatedBridge, Clusters
<1>4. ASSUME call' = [call EXCEPT ![b].pc = Failed(call[b])]
      PROVE  FALSE
  <2>1. Failed(call[b]) # "apply"
    BY DEF Failed
  <2> QED BY <1>4, <2>1, MovesOn
<1> QED BY <1>2, <1>3, <1>4 DEF Bridge

LEMMA IsolatedStep == Inv /\ Isolated /\ [ProvisionNext]_provisionVars => Isolated'
<1> SUFFICES ASSUME Inv, Isolated, [ProvisionNext]_provisionVars, NEW b \in Callers, Informed(call'[b])
             PROVE  cluster'.bridge \notin {"absent", "uplink"}
  BY DEF Isolated, Informed
<1>1. CASE Informed(call[b])
  <2>1. cluster.bridge \notin {"absent", "uplink"}
    BY <1>1 DEF Isolated
  <2> QED BY <2>1, BridgeKept DEF EnsureIsolatedBridge, ApplyNetwork
<1>2. CASE ~ Informed(call[b])
  BY <1>2, OnlyBridgeTells, BridgeTells
<1> QED BY <1>1, <1>2

-----------------------------------------------------------------------------
\* Wherever a provisioning stops, whatever fails, and however many calls
\* interleave, the service account destroys only in RestoreLab's pool, unless a
\* call named that very role for drills and either asked for no pool, or the
\* role is also the read, storage or network role of a call
\* (bootstrap.go:535-606).
THEOREM DestroysInPool == ProvisionSpec => []DestroysOnlyInPool
  BY InvInit, InvStep, InvImplies, PTL DEF ProvisionSpec

\* The stored secret opens the token of the stored name, unless that token was
\* deleted in Proxmox (provision.go:124-133 and 182-205).
THEOREM SecretFits == ProvisionSpec => []StoredSecretFits
  BY InvInit, InvStep, InvImplies, PTL DEF ProvisionSpec

\* However many requests present the setup token together, at most one is past
\* it, across restarts of the server (consumeSetupToken, api/setup.go:232).
THEOREM SetupIsSolo == ProvisionSpec => []OneSetupAtATime
<1>1. Inv /\ Solo /\ [ProvisionNext]_provisionVars => (Inv /\ Solo)'
  BY InvStep, SoloStep
<1> QED BY <1>1, InvInit, SoloInit, SoloImplies, PTL DEF ProvisionSpec

\* A bridge somebody uses stays as it is, and whoever was told that the
\* isolated bridge is there has one without an uplink, then and ever after
\* (checkSafeToReuse, network_admin.go:269, and ValidateIsolation).
THEOREM BridgesStay == ProvisionSpec => BridgesAreLeftAlone /\ []ToldIsIsolated
<1>1. Inv /\ Isolated /\ [ProvisionNext]_provisionVars => (Inv /\ Isolated)'
  BY InvStep, IsolatedStep
<1>2. Isolated => ToldIsIsolated
  BY DEF Isolated, Informed, ToldIsIsolated
<1> QED BY <1>1, <1>2, InvInit, IsolatedInit, BridgeAlone, PTL DEF ProvisionSpec, BridgesAreLeftAlone

=============================================================================
