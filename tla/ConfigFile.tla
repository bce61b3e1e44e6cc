----------------------------- MODULE ConfigFile -----------------------------
(***************************************************************************)
(* The configuration file and the master key (internal/config,             *)
(* internal/crypto, and their writers in internal/cli and internal/api): a *)
(* running `serve` that edits notification channels on behalf of the       *)
(* dashboard out of a copy it loaded once, and commands that load the file, *)
(* edit their copy and write the whole of it back.                         *)
(*                                                                         *)
(* An entry of the file is a channel, or a provider, with its secret       *)
(* sealed under a key.  Loading, and a write (a temporary file renamed     *)
(* over the old one), are one step each; what a process does between its   *)
(* load and its write is not.                                              *)
(***************************************************************************)
EXTENDS Integers, FiniteSets

CONSTANTS
  Ids,        \* ids of channels and providers
  Secrets,    \* webhook URLs and token secrets
  Requests,   \* requests the API may be serving at once
  Commands,   \* restorelab commands started beside it
  MaxEdits,   \* bound on the edits of a behaviour
  None        \* no key, no configuration, no such entry

Server == "serve"

ASSUME ConfigAssumption ==
  /\ MaxEdits \in Nat
  /\ None \notin Commands \cup Secrets
  /\ "empty" \notin Commands \cup {None} /\ Server \notin Commands

\* A key is named by the command that generated it.
Sealed == [secret : Secrets, key : Commands]
Entries == [on : BOOLEAN, url : Sealed]
NoEntry == [on |-> FALSE, url |-> [secret |-> None, key |-> None]]
Configs == [Ids -> Entries \cup {NoEntry}]
Empty == [i \in Ids |-> NoEntry]      \* config.New()
NoFile == [i \in {} |-> NoEntry]
Fields == {"on", "url"}

VARIABLES
  file,      \* config.yaml, or NoFile
  keyfile,   \* master.key: None, "empty" while it is being written, or a key
  mem,       \* the configuration serve loaded, NoFile when it is down
  req,       \* each request: its edit, and the entry findChannel returned
  pc, copy, key,  \* each command: where it stands, its copy, its key
  edits,     \* edits so far
  behind,    \* ghost: processes whose copy misses a write of another
  clobbered, \* ghost: a process that was behind has written
  promised,  \* ghost: what the answers given so far add up to
  excused    \* ghost: the fields of an edit that failed after it changed mem, and
             \*   the flags kept from an entry that carries another one by now

disk == <<file, keyfile>>
cli == <<pc, copy, key>>
ghosts == <<behind, clobbered, promised, excused>>
configVars == <<disk, mem, req, cli, edits, ghosts>>

\* A request: on and secret are what it asks for, "keep" and None when absent.
NoEdit == [op |-> "none", id |-> None, on |-> "keep", secret |-> None, found |-> NoEntry]

ConfigTypeOK ==
  /\ file \in Configs \cup {NoFile} /\ mem \in Configs \cup {NoFile}
  /\ keyfile \in Commands \cup {None, "empty"}
  /\ \A c \in Requests : req[c].op \in {"none", "create", "update", "delete"}
  /\ pc \in [Commands -> {"idle", "load", "keygen", "keywrite", "init", "edit"}]
  /\ copy \in [Commands -> Configs \cup {NoFile}]
  /\ key \in [Commands -> Commands \cup {None}]
  /\ edits \in 0 .. MaxEdits
  /\ behind \subseteq Commands \cup {Server} /\ clobbered \in BOOLEAN
  /\ promised \in [Ids -> [on : BOOLEAN, url : Sealed \cup {NoEntry.url}]]
  /\ excused \subseteq Ids \X Fields

ConfigInit ==
  /\ file = NoFile /\ keyfile = None /\ mem = NoFile
  /\ req = [c \in Requests |-> NoEdit]
  /\ pc = [p \in Commands |-> "idle"]
  /\ copy = [p \in Commands |-> NoFile] /\ key = [p \in Commands |-> None]
  /\ edits = 0
  /\ behind = {} /\ clobbered = FALSE /\ promised = Empty /\ excused = {}

\* A process writes a configuration; everyone else who holds one is behind.
Write(p, config) ==
  /\ file' = config
  /\ clobbered' = (clobbered \/ p \in behind)
  /\ behind' = ({q \in Commands : pc[q] # "idle"} \cup
                (IF mem = NoFile THEN {} ELSE {Server})) \ {p}

\* A command ends, well or not.
Exit(p) ==
  /\ pc' = [pc EXCEPT ![p] = "idle"]
  /\ copy' = [copy EXCEPT ![p] = NoFile] /\ key' = [key EXCEPT ![p] = None]

-----------------------------------------------------------------------------
(* The commands.  newInitCmd creates the file; notify add and remove,      *)
(* provider add and remove, and connect edit it.                           *)

\* newInitCmd: refuses an existing file, then ensures the key.
RunInit(p) ==
  /\ pc[p] = "idle" /\ file = NoFile
  /\ pc' = [pc EXCEPT ![p] = "load"]
  /\ copy' = [copy EXCEPT ![p] = Empty]
  /\ behind' = behind \ {p}
  /\ UNCHANGED <<disk, mem, req, key, edits, clobbered, promised, excused>>

\* app.config and config.Load: the whole file, once per process.
RunEdit(p) ==
  /\ pc[p] = "idle" /\ file # NoFile /\ edits < MaxEdits
  /\ keyfile \in Commands
  /\ pc' = [pc EXCEPT ![p] = "edit"]
  /\ copy' = [copy EXCEPT ![p] = file]
  /\ key' = [key EXCEPT ![p] = keyfile]
  /\ behind' = behind \ {p}
  /\ UNCHANGED <<disk, mem, req, edits, clobbered, promised, excused>>

\* ensureMasterKey and LoadKey: the key there is, or a new one; a key file
\* that does not parse is an error.
EnsureKey(p) ==
  /\ pc[p] = "load"
  /\ \/ /\ keyfile \in Commands
        /\ pc' = [pc EXCEPT ![p] = "init"] /\ key' = [key EXCEPT ![p] = keyfile]
        /\ UNCHANGED copy
     \/ /\ keyfile = None
        /\ pc' = [pc EXCEPT ![p] = "keygen"] /\ UNCHANGED <<copy, key>>
     \/ /\ keyfile = "empty"
        /\ Exit(p)
  /\ UNCHANGED <<disk, mem, req, edits, ghosts>>

\* Mutant of CreateKey: O_TRUNC instead of O_EXCL.
CreateKeyOver(p) ==
  /\ pc[p] = "keygen"
  /\ keyfile' = "empty" /\ pc' = [pc EXCEPT ![p] = "keywrite"]
  /\ UNCHANGED <<file, mem, req, copy, key, edits, ghosts>>

\* SaveKey, first half: O_EXCL, so the first process to come creates it.
CreateKey(p) ==
  /\ pc[p] = "keygen"
  /\ \/ /\ keyfile = None
        /\ keyfile' = "empty" /\ pc' = [pc EXCEPT ![p] = "keywrite"]
        /\ UNCHANGED <<copy, key>>
     \/ /\ keyfile # None
        /\ Exit(p) /\ UNCHANGED keyfile
  /\ UNCHANGED <<file, mem, req, edits, ghosts>>

\* SaveKey, second half: the bytes.
WriteKey(p) ==
  /\ pc[p] = "keywrite"
  /\ keyfile' = p /\ key' = [key EXCEPT ![p] = p]
  /\ pc' = [pc EXCEPT ![p] = "init"]
  /\ UNCHANGED <<file, mem, req, copy, edits, ghosts>>

\* newInitCmd writes the starter configuration over whatever is there by now.
SaveInit(p) ==
  /\ pc[p] = "init"
  /\ Write(p, copy[p])
  /\ promised' = IF file = NoFile THEN Empty ELSE promised
  /\ Exit(p)
  /\ UNCHANGED <<keyfile, mem, req, edits, excused>>

\* What addNotification and addProvider upsert: on, its secret sealed.
Added(p, s) == [on |-> TRUE, url |-> [secret |-> s, key |-> key[p]]]

\* The remove commands refuse an id they do not know.
Removable(p, i) == copy[p][i] # NoEntry

\* A command edits its copy of the file and writes all of it.
SaveEdit(p) ==
  /\ pc[p] = "edit" /\ edits < MaxEdits
  /\ \E i \in Ids, s \in Secrets \cup {None} :
       LET entry == IF s = None THEN NoEntry ELSE Added(p, s) IN
       /\ s = None => Removable(p, i)
       /\ Write(p, [copy[p] EXCEPT ![i] = entry])
       /\ promised' = [promised EXCEPT ![i] = entry]
  /\ edits' = edits + 1
  /\ Exit(p)
  /\ UNCHANGED <<keyfile, mem, req, excused>>

\* The command fails, is refused by the cluster it tests, or is killed.
GiveUp(p) ==
  /\ pc[p] # "idle"
  /\ Exit(p)
  /\ UNCHANGED <<disk, mem, req, edits, ghosts>>

-----------------------------------------------------------------------------
(* serve.  cliNotifications keeps one lock around each read and each edit, *)
(* so each is a step; a handler takes it twice.                            *)

Start ==
  /\ mem = NoFile /\ file # NoFile /\ keyfile \in Commands
  /\ mem' = file
  /\ behind' = behind \ {Server}
  /\ UNCHANGED <<disk, req, cli, edits, clobbered, promised, excused>>

Stop ==
  /\ mem # NoFile
  /\ mem' = NoFile /\ req' = [c \in Requests |-> NoEdit]
  /\ UNCHANGED <<disk, cli, edits, ghosts>>

\* handleCreateNotification up to Save: the id must be free, a URL is needed.
Create(c) ==
  /\ mem # NoFile /\ req[c] = NoEdit /\ edits < MaxEdits
  /\ \E i \in Ids, s \in Secrets, on \in {"yes", "no"} :
       /\ mem[i] = NoEntry
       /\ req' = [req EXCEPT ![c] =
            [op |-> "create", id |-> i, on |-> on, secret |-> s, found |-> NoEntry]]
  /\ UNCHANGED <<disk, mem, cli, edits, ghosts>>

\* findChannel: the entry must be there when the request comes in.
FindChannel(i) == mem[i] # NoEntry

\* handleUpdateNotification up to Save: findChannel, with what it found.
Update(c) ==
  /\ mem # NoFile /\ req[c] = NoEdit /\ edits < MaxEdits
  /\ \E i \in Ids, s \in Secrets \cup {None}, on \in {"yes", "no", "keep"} :
       /\ FindChannel(i)
       /\ req' = [req EXCEPT ![c] =
            [op |-> "update", id |-> i, on |-> on, secret |-> s, found |-> mem[i]]]
  /\ UNCHANGED <<disk, mem, cli, edits, ghosts>>

\* handleDeleteNotification up to Remove.
Delete(c) ==
  /\ mem # NoFile /\ req[c] = NoEdit /\ edits < MaxEdits
  /\ \E i \in Ids :
       /\ FindChannel(i)
       /\ req' = [req EXCEPT ![c] = [NoEdit EXCEPT !.op = "delete", !.id = i, !.found = mem[i]]]
  /\ UNCHANGED <<disk, mem, cli, edits, ghosts>>

\* Mutant of Edited: a blank URL wipes the stored one.
EditedBlank(e, enabled, url) ==
  IF e.op = "delete" THEN NoEntry
  ELSE [on |-> IF e.on = "keep" THEN enabled ELSE e.on = "yes",
        url |-> [secret |-> e.secret, key |-> keyfile]]

\* The entry an edit leaves: an absent field keeps the one given for it.
Edited(e, enabled, url) ==
  IF e.op = "delete" THEN NoEntry
  ELSE [on |-> IF e.on = "keep" THEN enabled ELSE e.on = "yes",
        url |-> IF e.secret = None THEN url ELSE [secret |-> e.secret, key |-> keyfile]]

\* What the client is told: its fields over what it was told before.
Promise(e) ==
  LET was == promised[e.id]
  IN IF e.op = "delete" THEN NoEntry
     ELSE [on |-> IF e.on = "keep" THEN was.on ELSE e.on = "yes",
           url |-> IF e.secret = None THEN was.url ELSE [secret |-> e.secret, key |-> keyfile]]

\* Save and Remove refuse to edit an entry that has gone meanwhile; with a URL
\* of its own, an update or a create puts it back.
Refused(e) == mem[e.id] = NoEntry /\ e.secret = None

\* An update keeps the flag its handler found, and another is stored by now.
Stale(e) == e.op # "delete" /\ e.on = "keep" /\ mem[e.id].on # e.found.on

\* Save or Remove: under the lock, edit the loaded configuration and write it.
\* The enabled flag an update keeps is the one its handler found, the URL the
\* one stored by now.  When the write fails the edit stays in memory, and the
\* answer is an error.
Save(c) ==
  LET e == req[c]
      config == [mem EXCEPT ![e.id] = Edited(e, e.found.on, mem[e.id].url)]
  IN /\ mem # NoFile /\ e # NoEdit /\ edits < MaxEdits /\ ~Refused(e)
     /\ mem' = config
     /\ \/ /\ Write(Server, config)
           /\ promised' = [promised EXCEPT ![e.id] = Promise(e)]
           /\ excused' = excused \cup (IF Stale(e) THEN {<<e.id, "on">>} ELSE {})
        \/ /\ excused' = excused \cup {<<e.id, f>> : f \in Fields}
           /\ UNCHANGED <<file, behind, clobbered, promised>>
     /\ req' = [req EXCEPT ![c] = NoEdit]
     /\ edits' = edits + 1
     /\ UNCHANGED <<keyfile, cli>>

\* The answer is an error and nothing changed.
Refuse(c) ==
  /\ mem # NoFile /\ req[c] # NoEdit /\ Refused(req[c])
  /\ req' = [req EXCEPT ![c] = NoEdit]
  /\ UNCHANGED <<disk, mem, cli, edits, ghosts>>

-----------------------------------------------------------------------------
ConfigNext ==
  \/ \E p \in Commands : \/ RunInit(p) \/ RunEdit(p) \/ EnsureKey(p) \/ CreateKey(p)
                         \/ WriteKey(p) \/ SaveInit(p) \/ SaveEdit(p) \/ GiveUp(p)
  \/ Start \/ Stop
  \/ \E c \in Requests : Create(c) \/ Update(c) \/ Delete(c) \/ Save(c) \/ Refuse(c)

ConfigSpec == ConfigInit /\ [][ConfigNext]_configVars

-----------------------------------------------------------------------------
(* Correctness.                                                            *)

\* An edit that was answered with success is what the file holds, whatever
\* requests were served beside it: an update that leaves a field out keeps it,
\* and an edit of one id never undoes one of another (notify.go:380). Between
\* requests only the on/off flag of a channel can be lost, by an update that
\* leaves it out and whose handler read it before another request changed it;
\* a URL never is. Nothing is said of a file a process has overwritten out of a
\* copy it loaded before another wrote (clobbered), nor of an id whose edit
\* failed to reach the disk: it stays in memory for the next write to take
\* along.
EditsAreKept ==
  ~clobbered /\ file # NoFile =>
    \A i \in Ids, f \in Fields : <<i, f>> \notin excused => file[i][f] = promised[i][f]

\* What the dispatcher is given is what a restart would load, unless a command
\* wrote the file since or a write failed.
ServedIsSaved ==
  mem # NoFile /\ Server \notin behind =>
    \A i \in Ids : <<i, "url">> \notin excused => mem[i] = file[i]

\* Every secret at rest opens with the key at rest, however many processes
\* found no key and set out to make one (SaveKey's O_EXCL).
OneKey ==
  file # NoFile => \A i \in Ids : file[i] # NoEntry => file[i].url.key = keyfile

=============================================================================
