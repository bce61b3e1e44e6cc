----------------------------- MODULE Provision -----------------------------
(***************************************************************************)
(* Connecting a cluster: `restorelab connect` and the first-run wizard of  *)
(* `restorelab serve`, which share cli/provision.go.  An administrator's   *)
(* password is used once to create roles, a pool, a service account, ACLs  *)
(* and an API token on the cluster; the token is sealed into the           *)
(* configuration; then it is verified, the isolated bridge is made, and    *)
(* the wizard mints the dashboard's own API token.                         *)
(*                                                                         *)
(* Every request to the cluster is one step, and it may be refused (no     *)
(* effect), or carried out with the answer lost; both are an error to the  *)
(* caller, which gives up and leaves behind what it made.  A listing that  *)
(* is used at once is part of the step it guards; the list of roles, read  *)
(* once and used for every role, is a step of its own.  Nothing of the     *)
(* configuration file but its one provider entry is modelled here          *)
(* (ConfigFile.tla models the file).                                       *)
(***************************************************************************)
EXTENDS Naturals, Sequences, FiniteSets

CONSTANTS
  Callers,      \* HTTP requests in flight and command lines running
  Asked,        \* the options `connect` may be called with
  Roles,        \* the names of the cluster's roles
  RoleNames,    \* those `connect --role` may be given, its defaults among them
  StorageRole,  \* the name with "Storage" appended, and with "Network"
  NetworkRole,
  Knows,        \* the privileges this version of Proxmox knows
  Bridges,      \* the bridges the node may start with
  MaxCalls,     \* bound: calls made in all
  MaxFaults     \* bound: refused or unanswered requests, failed saves

Steps == {"list", "role", "pool", "user", "acl", "token"}
Paths == {"/vms", "/nodes", "/storage", "/pool", "/storage/target", "/sdn"}
Privileges == {"audit", "monitor", "space", "destroy", "agent", "sdn"}
Optional == {"monitor", "agent", "sdn"}
ReadOnlyPrivileges == {"audit", "monitor", "space"}
DrillPrivileges == ReadOnlyPrivileges \union {"destroy", "agent"}
Absent == {"no such role"}

ASSUME RolesAssumption ==
  /\ {"RestoreLabRead", "RestoreLabDrill"} \subseteq RoleNames /\ RoleNames \subseteq Roles
  /\ StorageRole \in [RoleNames -> Roles] /\ NetworkRole \in [RoleNames -> Roles]
ASSUME KnowsAssumption == Knows \subseteq Privileges
ASSUME BoundsAssumption == MaxCalls \in 0..3 /\ MaxFaults \in Nat

SecretIds == 0..MaxCalls        \* 0: no secret
WizardNames == <<"drills-1", "drills-2", "drills-3">>   \* random suffixes
Names == {"drills", "drills-rw"} \union {WizardNames[k] : k \in 1..3}

\* The interface of the bridge's name: not there, one of no use to anybody that
\* is written or active, one with ports or a gateway, and one without that has
\* an address or is no bridge.
BridgeStates == {"absent", "pending", "active", "uplink", "used"}

\* What one provisioning was asked to do (provisionOptions).
Options == [name: Names, role: RoleNames, readOnly: BOOLEAN, pool: BOOLEAN, storages: BOOLEAN,
            dryRun: BOOLEAN, create: BOOLEAN, apply: BOOLEAN, wizard: BOOLEAN]

ASSUME AskedAssumption ==
  /\ Asked \subseteq Options /\ \A o \in Asked : ~ o.wizard
  /\ Bridges \subseteq BridgeStates

\* cliSetup.Connect: the wizard's fixed choices, and what the browser asks.
Wizards(k) == {[name |-> WizardNames[k], role |-> "RestoreLabDrill", readOnly |-> FALSE,
                pool |-> TRUE, storages |-> TRUE, dryRun |-> FALSE, create |-> c,
                apply |-> p, wizard |-> TRUE] : c, p \in BOOLEAN}

VARIABLES
  cluster,   \* what Proxmox holds: roles, pool, user, ACLs, tokens, bridge
  entry,     \* the configuration's provider entry: set, name, secret
  server,    \* `serve`: its mode, its setup token, its live API tokens
  call,      \* each caller: where it is, and its local variables
  calls,     \* calls made so far: names the wizard's tokens, numbers secrets
  faults,    \* faults spent
  granted,   \* history: the options of every call that reached roles or ACLs
  deleted    \* history: the tokens an administrator deleted

provisionVars == <<cluster, entry, server, call, calls, faults, granted, deleted>>

NoOptions == CHOOSE o \in Options : TRUE
Idle == [pc |-> "idle", id |-> 0, opts |-> NoOptions, todo |-> <<>>, seen |-> [r \in Roles |-> Absent],
         reuse |-> FALSE, secret |-> 0, previous |-> 0, bridge |-> FALSE]

Working == {"login", "bootstrap", "store", "verify", "bridge", "apply", "mint"}

ProvisionInit ==
  /\ \E b \in Bridges :
       cluster = [roles |-> [r \in Roles |-> Absent], pool |-> FALSE,
                  user |-> FALSE, acl |-> {}, tokens |-> [n \in Names |-> 0],
                  bridge |-> b]
  /\ entry = [set |-> FALSE, name |-> "drills", secret |-> 0]
  /\ server = [mode |-> "down", setup |-> FALSE, done |-> FALSE, tokens |-> 0]
  /\ call = [a \in Callers |-> Idle]
  /\ calls = 0
  /\ faults = 0
  /\ granted = {}
  /\ deleted = {}

----------------------------------------------------------------------------
(* The server and its wizard. *)

\* cliSetup.Configured: a provider in the file, not the file.
Configured == entry.set

\* serve: the wizard until there is a provider in the file, the real server
\* from then on.  Off loopback it refuses to listen without a live API token.
Serve ==
  /\ server.mode = "down"
  /\ \E loopback \in BOOLEAN :
       IF Configured
       THEN /\ loopback \/ server.tokens > 0
            /\ server' = [server EXCEPT !.mode = "serving"]
       ELSE server' = [server EXCEPT !.mode = "wizard", !.setup = TRUE, !.done = FALSE]
  /\ UNCHANGED <<cluster, entry, call, calls, faults, granted, deleted>>

\* serveSetup, once SetupDone is closed: the wizard's listener is stopped, and
\* serve goes on as the real server, with the configuration read again.
HandOver ==
  /\ server.mode = "wizard"
  /\ server.done
  /\ server' = [server EXCEPT !.mode = "serving", !.setup = FALSE]
  /\ UNCHANGED <<cluster, entry, call, calls, faults, granted, deleted>>

\* The process stops, and the requests it was answering with it.
StopServer ==
  /\ server.mode # "down"
  /\ faults < MaxFaults
  /\ faults' = faults + 1
  /\ server' = [server EXCEPT !.mode = "down", !.setup = FALSE]
  /\ call' = [a \in Callers |-> IF call[a].opts.wizard THEN Idle ELSE call[a]]
  /\ UNCHANGED <<cluster, entry, calls, granted, deleted>>

\* handleSetup up to the body: the token is compared, not yet spent.  A body
\* with no storage is answered with 400 and costs nothing.
PostSetup(a) ==
  /\ call[a].pc = "idle"
  /\ server.mode = "wizard"
  /\ server.setup
  /\ calls < MaxCalls
  /\ calls' = calls + 1
  /\ \E o \in Wizards(calls + 1) :
       call' = [call EXCEPT ![a] = [Idle EXCEPT !.pc = "matched", !.id = calls + 1,
                                                !.opts = o]]
  /\ UNCHANGED <<cluster, entry, server, faults, granted, deleted>>

\* Spent without being compared again.
ConsumeUnchecked(a) ==
  /\ call[a].pc = "matched"
  /\ server' = [server EXCEPT !.setup = FALSE]
  /\ call' = [call EXCEPT ![a].pc = "login"]
  /\ UNCHANGED <<cluster, entry, calls, faults, granted, deleted>>

\* consumeSetupToken: compared again and spent under one lock.
ConsumeSetupToken(a) ==
  /\ call[a].pc = "matched"
  /\ IF server.setup
     THEN /\ server' = [server EXCEPT !.setup = FALSE]
          /\ call' = [call EXCEPT ![a].pc = "login"]
     ELSE /\ call' = [call EXCEPT ![a] = Idle]
          /\ UNCHANGED server
  /\ UNCHANGED <<cluster, entry, calls, faults, granted, deleted>>

\* restorelab connect, after its confirmation.
Connect(a) ==
  /\ call[a].pc = "idle"
  /\ calls < MaxCalls
  /\ calls' = calls + 1
  /\ \E o \in Asked :
       call' = [call EXCEPT ![a] = [Idle EXCEPT !.pc = "login", !.id = calls + 1,
                                                !.opts = o]]
  /\ UNCHANGED <<cluster, entry, server, faults, granted, deleted>>

\* restorelab network create: the bridge alone, as administrator.
CreateNetwork(a) ==
  /\ call[a].pc = "idle"
  /\ calls < MaxCalls
  /\ calls' = calls + 1
  /\ \E apply \in BOOLEAN :
       call' = [call EXCEPT ![a] = [Idle EXCEPT !.pc = "bridge", !.id = calls + 1,
                  !.opts = [NoOptions EXCEPT !.wizard = FALSE, !.create = TRUE, !.apply = apply]]]
  /\ UNCHANGED <<cluster, entry, server, faults, granted, deleted>>

----------------------------------------------------------------------------
(* Bootstrap: the steps, in the order they are performed. *)

Role(r, privs) == [do |-> "role", role |-> r, privs |-> privs, path |-> "/vms"]
Grant(path, r) == [do |-> "acl", role |-> r, privs |-> {}, path |-> path]
Plain(what) == [do |-> what, role |-> "RestoreLabRead", privs |-> {}, path |-> "/vms"]

If(cond, steps) == IF cond THEN steps ELSE <<>>

\* The role behind the cluster-wide grants.
ReadRole(o) == IF o.readOnly THEN o.role ELSE "RestoreLabRead"

\* The same steps with the drill role granted where the read role is.
BootstrapWide(o) ==
  <<Plain("list"), Role(ReadRole(o), ReadOnlyPrivileges)>>
  \o If(~ o.readOnly, <<Role(o.role, DrillPrivileges), Plain("pool")>>)
  \o <<Plain("user"), Grant("/vms", ReadRole(o)), Grant("/nodes", ReadRole(o))>>
  \o If(~ o.readOnly, <<Grant("/vms", o.role)>>)
  \o <<Plain("token")>>

\* The drill role may be any, the read role's and another call's included.
Bootstrap(o) ==
  <<Plain("list"), Role(ReadRole(o), ReadOnlyPrivileges)>>
  \o If(~ o.readOnly, <<Role(o.role, DrillPrivileges)>>)
  \o If(~ o.readOnly /\ o.pool, <<Plain("pool")>>)
  \o <<Plain("user"), Grant("/vms", ReadRole(o)), Grant("/nodes", ReadRole(o)),
       Grant("/storage", ReadRole(o))>>
  \o If(~ o.readOnly, <<Grant(IF o.pool THEN "/pool" ELSE "/vms", o.role)>>)
  \o If(~ o.readOnly /\ o.storages,
        <<Role(StorageRole[o.role], {"audit", "space"}), Grant("/storage/target", StorageRole[o.role])>>)
  \o If(~ o.readOnly,
        <<Role(NetworkRole[o.role], {"sdn"}), Grant("/sdn", NetworkRole[o.role])>>)
  \o <<Plain("token")>>

\* Login, after the master key and the configuration were made to exist, and
\* the question whether the stored secret is this very token's. The endpoint it
\* was stored for is not compared; there is one cluster here.
Reuses(o) == entry.set /\ entry.name = o.name /\ entry.secret # 0

Login(a) ==
  /\ call[a].pc = "login"
  /\ call' = [call EXCEPT ![a].pc = "bootstrap",
                          ![a].todo = Bootstrap(call[a].opts),
                          ![a].reuse = Reuses(call[a].opts),
                          ![a].previous = IF entry.set THEN entry.secret ELSE 0]
  /\ UNCHANGED <<cluster, entry, server, calls, faults, granted, deleted>>

\* ensureRole with filterPrivileges and describeDropped: a privilege this
\* version does not know is dropped when RestoreLab can work without it.
Kept(privs) == IF Knows = {} THEN privs ELSE privs \intersect Knows
Workable(privs) == privs \ Kept(privs) \subseteq Optional

\* The roles after the step, given the roles as they were listed.  Creating a
\* role that another call created meanwhile is refused by the cluster.
EnsureRole(s, seen, roles) ==
  IF seen[s.role] = Kept(s.privs) THEN roles
  ELSE [roles EXCEPT ![s.role] = Kept(s.privs)]

Creatable(s, seen, roles) ==
  seen[s.role] = Absent => roles[s.role] = Absent

\* What the cluster holds after one step that was carried out.
Carried(s, c) ==
  CASE s.do = "role" -> [cluster EXCEPT !.roles = EnsureRole(s, c.seen, cluster.roles)]
    [] s.do = "pool" -> [cluster EXCEPT !.pool = TRUE]
    [] s.do = "user" -> [cluster EXCEPT !.user = TRUE]
    [] s.do = "acl" -> [cluster EXCEPT !.acl = @ \union {<<s.path, s.role>>}]
    [] s.do = "token" -> IF cluster.tokens[c.opts.name] # 0 THEN cluster
                         ELSE [cluster EXCEPT !.tokens[c.opts.name] = c.id]
    [] OTHER -> cluster

\* ensureToken: a token of that name whose secret is not held is an error.
Possible(s, c) ==
  CASE s.do = "role" -> Workable(s.privs) /\ Creatable(s, c.seen, cluster.roles)
    [] s.do = "token" -> cluster.tokens[c.opts.name] = 0 \/ c.reuse
    [] OTHER -> TRUE

Seen(s, c) ==
  CASE s.do = "list" -> cluster.roles
    [] s.do = "role" -> [c.seen EXCEPT ![s.role] = s.privs]
    [] OTHER -> c.seen

NextPc(s, c) ==
  IF Len(c.todo) > 1 THEN "bootstrap"
  ELSE IF c.opts.dryRun THEN "ok" ELSE "store"

\* The history of who reached the roles or the ACLs.
Granted(c) ==
  IF c.pc = "bootstrap" /\ Head(c.todo).do \in {"role", "acl"} /\ ~ c.opts.dryRun
  THEN granted \union {c.opts} ELSE granted

BootstrapStep(a) ==
  LET c == call[a]
      s == Head(c.todo)
  IN /\ c.pc = "bootstrap"
     /\ Possible(s, c)
     /\ cluster' = IF c.opts.dryRun THEN cluster ELSE Carried(s, c)
     /\ call' = [call EXCEPT ![a].pc = NextPc(s, c),
                             ![a].todo = Tail(c.todo),
                             ![a].seen = Seen(s, c),
                             ![a].secret = IF s.do = "token" /\ cluster.tokens[c.opts.name] = 0
                                           THEN c.id ELSE 0]
     /\ granted' = Granted(c)
     /\ UNCHANGED <<entry, server, calls, faults, deleted>>

\* The code's own refusals: a required privilege is unknown here, a role was
\* created meanwhile, the token exists and its secret is not held.
Fail(a) ==
  /\ call[a].pc = "bootstrap"
  /\ ~ Possible(Head(call[a].todo), call[a])
  /\ call' = [call EXCEPT ![a].pc = "failed"]
  /\ UNCHANGED <<cluster, entry, server, calls, faults, granted, deleted>>

----------------------------------------------------------------------------
(* What follows the cluster's part. *)

\* The secret already stored wins over the one Proxmox just gave.
StoredOld(c) == IF c.previous # 0 THEN c.previous ELSE c.secret

\* The entry is stored, sealed, before the token is verified: Proxmox shows a
\* secret once.  A reused token keeps the secret that was stored.
Stored(c) == IF c.secret # 0 THEN c.secret ELSE c.previous

Entry(c) == [set |-> TRUE, name |-> c.opts.name, secret |-> Stored(c)]

Store(a) ==
  LET c == call[a]
  IN /\ c.pc = "store"
     /\ IF Stored(c) = 0
        THEN /\ call' = [call EXCEPT ![a].pc = "failed"]
             /\ UNCHANGED entry
        ELSE /\ entry' = Entry(c)
             /\ call' = [call EXCEPT ![a].pc = "verify"]
     /\ UNCHANGED <<cluster, server, calls, faults, granted, deleted>>

\* ListNodes with the entry this process has just stored, whatever another has
\* stored since.
Opens(f) == f.set /\ f.secret # 0 /\ cluster.tokens[f.name] = f.secret

AfterBridge(c) == IF c.opts.wizard THEN "mint" ELSE "ok"

Verify(a) ==
  LET c == call[a]
  IN /\ c.pc = "verify"
     /\ call' = [call EXCEPT ![a].pc =
                   IF ~ Opens(Entry(c)) THEN "failed"
                   ELSE IF c.opts.create THEN "bridge" ELSE AfterBridge(c)]
     /\ UNCHANGED <<cluster, entry, server, calls, faults, granted, deleted>>

\* ValidateIsolation asks with the service token, which may be shown no bridge:
\* one it is shown is isolated when it has neither ports nor a gateway.
Validates(b) == b \notin {"absent", "uplink"}

\* checkSafeToReuse, as administrator: nothing is taken over that is in use.
SafeToReuse(b) == b \notin {"uplink", "used"}

CreateIsolatedBridge == "pending"

EnsureIsolatedBridge(b) == IF b = "absent" THEN CreateIsolatedBridge ELSE b

ApplyNetwork(b) == IF b = "pending" THEN "active" ELSE b

\* `network create` stores nothing, and asks as administrator alone.
Connecting(c) == Stored(c) # 0

\* A bridge that could not be made: `connect` prints it, the wizard and
\* `network create` fail.
Failed(c) ==
  IF c.pc \in {"bridge", "apply"} /\ ~ c.opts.wizard /\ Connecting(c) THEN "ok" ELSE "failed"

\* The caller is told that the isolated bridge is there.
Told(a, c) == [call EXCEPT ![a].pc = AfterBridge(c), ![a].bridge = TRUE]

\* provisionBridge, maybeCreateBridge and `network create`: what is already
\* there is a success, and a bridge is created only where there is none.
Bridge(a) ==
  LET c == call[a]
  IN /\ c.pc = "bridge"
     /\ \/ /\ Connecting(c) /\ Validates(cluster.bridge)
           /\ call' = Told(a, c) /\ UNCHANGED cluster
        \/ /\ SafeToReuse(cluster.bridge)
           /\ cluster' = [cluster EXCEPT !.bridge = EnsureIsolatedBridge(@)]
           /\ call' = IF cluster.bridge = "absent" /\ c.opts.apply
                      THEN [call EXCEPT ![a].pc = "apply"] ELSE Told(a, c)
        \/ /\ ~ SafeToReuse(cluster.bridge)
           /\ call' = [call EXCEPT ![a].pc = Failed(c)] /\ UNCHANGED cluster
     /\ UNCHANGED <<entry, server, calls, faults, granted, deleted>>

\* applyNetwork: the node reloads its pending configuration.
Apply(a) ==
  /\ call[a].pc = "apply"
  /\ cluster' = [cluster EXCEPT !.bridge = ApplyNetwork(@)]
  /\ call' = Told(a, call[a])
  /\ UNCHANGED <<entry, server, calls, faults, granted, deleted>>

\* mintDashboardToken, and handleSetup's success: SetupDone is closed.
Mint(a) ==
  /\ call[a].pc = "mint"
  /\ server' = [server EXCEPT !.tokens = @ + 1, !.done = TRUE]
  /\ call' = [call EXCEPT ![a].pc = "ok"]
  /\ UNCHANGED <<cluster, entry, calls, faults, granted, deleted>>

\* What the cluster does with the request a caller is about to make.
Effect(c) ==
  CASE c.pc = "bootstrap" /\ ~ c.opts.dryRun /\ Possible(Head(c.todo), c) ->
         Carried(Head(c.todo), c)
    [] c.pc = "bridge" /\ SafeToReuse(cluster.bridge) -> [cluster EXCEPT !.bridge = EnsureIsolatedBridge(@)]
    [] c.pc = "apply" -> [cluster EXCEPT !.bridge = ApplyNetwork(@)]
    [] OTHER -> cluster

\* A request fails: wrong password, refused, timed out.  When the answer was
\* lost the cluster has done what it was asked.
Fault(a) ==
  LET c == call[a]
  IN /\ c.pc \in Working
     /\ faults < MaxFaults
     /\ faults' = faults + 1
     /\ call' = [call EXCEPT ![a].pc = Failed(c)]
     /\ \/ UNCHANGED <<cluster, granted>>
        \/ cluster' = Effect(c) /\ granted' = Granted(c)
     /\ UNCHANGED <<entry, server, calls, deleted>>

\* The answer has been read.
Return(a) ==
  /\ call[a].pc \in {"ok", "failed"}
  /\ call' = [call EXCEPT ![a] = Idle]
  /\ UNCHANGED <<cluster, entry, server, calls, faults, granted, deleted>>

\* The administrator follows the advice to delete a token in Proxmox, at a
\* time nothing is being connected.
DeleteToken ==
  /\ \A a \in Callers : call[a].pc = "idle"
  /\ faults < MaxFaults
  /\ faults' = faults + 1
  /\ \E n \in Names :
       /\ cluster.tokens[n] # 0
       /\ cluster' = [cluster EXCEPT !.tokens[n] = 0]
       /\ deleted' = deleted \union {n}
  /\ UNCHANGED <<entry, server, call, calls, granted>>

Work(a) ==
  \/ ConsumeSetupToken(a) \/ Login(a) \/ BootstrapStep(a) \/ Fail(a)
  \/ Store(a) \/ Verify(a) \/ Bridge(a) \/ Apply(a) \/ Mint(a) \/ Return(a)

ProvisionNext ==
  \/ Serve \/ HandOver \/ StopServer \/ DeleteToken
  \/ \E a \in Callers : PostSetup(a) \/ Connect(a) \/ CreateNetwork(a) \/ Work(a) \/ Fault(a)

ProvisionSpec == ProvisionInit /\ [][ProvisionNext]_provisionVars

----------------------------------------------------------------------------
(* Properties. *)

ProvisionTypeOK ==
  /\ cluster \in [roles: [Roles -> (SUBSET Privileges) \union {Absent}], pool: BOOLEAN,
                  user: BOOLEAN, acl: SUBSET (Paths \X Roles),
                  tokens: [Names -> SecretIds], bridge: BridgeStates]
  /\ entry \in [set: BOOLEAN, name: Names, secret: SecretIds]
  /\ server \in [mode: {"down", "wizard", "serving"}, setup: BOOLEAN,
                 done: BOOLEAN, tokens: 0..MaxCalls]
  /\ \A a \in Callers :
       /\ call[a].pc \in {"idle", "matched", "ok", "failed"} \union Working
       /\ call[a].opts \in Options
       /\ call[a].pc = "bootstrap" => call[a].todo # <<>>
  /\ calls \in 0..MaxCalls
  /\ faults \in 0..MaxFaults
  /\ granted \subseteq Options
  /\ deleted \subseteq Names

\* The roles a call grants for something else than destroying.
OtherRoles(o) ==
  {ReadRole(o)} \union (IF o.readOnly THEN {} ELSE {StorageRole[o.role], NetworkRole[o.role]})

Destroys(p, r) == <<p, r>> \in cluster.acl /\ "destroy" \in cluster.roles[r]

\* Wherever provisioning stops, and however many calls interleave, the service
\* account can destroy workloads only in RestoreLab's pool: the order of roles
\* and grants in Bootstrap (bootstrap.go:535-606) never leaves a drill role on
\* a wider path, unless somebody named that very role and asked for no pool, or
\* named it where it already serves as a read, storage or network role.
DestroysOnlyInPool ==
  \A p \in Paths, r \in Roles :
    Destroys(p, r) /\ p # "/pool" =>
      \E o \in granted :
        /\ ~ o.readOnly /\ o.role = r
        /\ (p = "/vms" /\ ~ o.pool) \/ (\E q \in granted : r \in OtherRoles(q))

\* What bootstrap.go:412-420 says: the drill role "must never be the role
\* backing a broad, cluster-wide grant", "only the narrow /pool/{Pool} (or, with
\* a loud warning, /vms) grant uses the drill role itself". It does not hold
\* when `--role` names the read role, in one call or in two.
DrillRoleStaysNarrow ==
  \A p \in Paths, r \in Roles :
    Destroys(p, r) /\ p # "/pool" => p = "/vms" /\ \E o \in granted : ~ o.pool /\ ~ o.readOnly

\* The configuration never pairs a token with another token's secret: as long
\* as nobody deletes tokens in Proxmox, the stored secret is the secret of the
\* token of that name (provision.go:124-133 and 182-205).
StoredSecretFits ==
  entry.set /\ entry.name \notin deleted => Opens(entry)

\* "reusing is only safe when the configuration already holds that exact
\* token's secret" (provision.go:126-127): a call that keeps an existing token
\* keeps a secret that opens it.
ReuseIsSafe ==
  \A a \in Callers :
    call[a].pc = "store" /\ call[a].secret = 0 =>
      cluster.tokens[call[a].opts.name] = Stored(call[a])

\* A bridge somebody uses is never turned into the isolated one, and an active
\* one is never left half configured (checkSafeToReuse, network_admin.go:269).
BridgesAreLeftAlone ==
  [][\A b \in {"uplink", "used", "active"} : cluster.bridge = b => cluster'.bridge = b]_provisionVars

\* Whoever was told that the isolated bridge is there has one, then and for as
\* long as others provision beside it: nobody is told so of a bridge with an
\* uplink (ValidateIsolation and checkSafeToReuse), nor of one that was not made.
ToldIsIsolated ==
  \A a \in Callers : call[a].bridge => cluster.bridge \notin {"absent", "uplink"}

\* What checkSafeToReuse says of an interface with an address, and of one that
\* is no bridge: "refusing to touch it, since that means something already
\* relies on it". ValidateIsolation, which is asked first, accepts both.
UsedIsRefused ==
  \A a \in Callers : call[a].bridge => cluster.bridge # "used"

\* One setup token provisions once: however many requests present it together,
\* at most one of them is past it (consumeSetupToken, api/setup.go:232).
OneSetupAtATime ==
  /\ Cardinality({a \in Callers : call[a].opts.wizard /\ call[a].pc \in Working}) <= 1
  /\ server.setup => \A a \in Callers : call[a].opts.wizard => call[a].pc \notin Working

\* "the provisioning is idempotent, so it can simply be run again"
\* (api/setup.go:199): a set-up that failed leaves a way to be run again, so
\* either the wizard will come back or the dashboard's token was handed out.
SetupCanBeRunAgain ==
  \A a \in Callers :
    call[a].opts.wizard /\ call[a].pc = "failed" =>
      ~ (entry.set /\ entry.name = call[a].opts.name)
=============================================================================
