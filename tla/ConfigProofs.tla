---------------------------- MODULE ConfigProofs ----------------------------
(***************************************************************************)
(* Theorems about ConfigFile, for any ids, secrets, requests and commands. *)
(***************************************************************************)
EXTENDS ConfigFile, TLAPS

Edit == [op : {"create", "update", "delete"}, id : Ids, on : {"yes", "no", "keep"},
         secret : Secrets \cup {None}, found : Entries \cup {NoEntry}]

\* A create carries a secret, and an edit names an entry.
Asked == req \in [Requests -> Edit \cup {NoEdit}]

\* Who has a configuration has a key: the file is written after the key.
Keyed ==
  (file # NoFile \/ mem # NoFile \/ \E p \in Commands : pc[p] \in {"init", "edit"})
    => keyfile \in Commands

\* A command that edits holds that key, and at most one is writing it.
Holders ==
  \A p \in Commands :
    /\ pc[p] = "edit" => key[p] = keyfile
    /\ pc[p] = "keywrite" => keyfile = "empty" /\ \A q \in Commands : pc[q] = "keywrite" => q = p

TypeInv == ConfigTypeOK /\ Asked /\ Keyed /\ Holders

-----------------------------------------------------------------------------
(* Types.                                                                  *)

LEMMA EmptyIsConfig == Empty \in Configs
  BY DEF Empty, Configs

LEMMA NoEditIsNoEdit == NoEdit \notin Edit
  BY DEF NoEdit, Edit

LEMMA EntryFields ==
  ASSUME NEW x \in Entries \cup {NoEntry}
  PROVE  x.on \in BOOLEAN /\ (x # NoEntry => x.url \in Sealed)
<1>1. CASE x \in Entries
  BY <1>1 DEF Entries
<1>2. CASE x = NoEntry
  BY <1>2 DEF NoEntry
<1> QED BY <1>1, <1>2

LEMMA IsEntry ==
  ASSUME NEW b \in BOOLEAN, NEW url \in Sealed PROVE [on |-> b, url |-> url] \in Entries
  BY DEF Entries

LEMMA ConfigUpdate ==
  ASSUME NEW config \in Configs, NEW i \in Ids, NEW entry \in Entries \cup {NoEntry}
  PROVE  [config EXCEPT ![i] = entry] \in Configs
  BY DEF Configs

\* What an edit leaves is an entry, and takes its place in the configuration.
LEMMA EditedIsEntry ==
  ASSUME TypeInv, NEW c \in Requests, req[c] # NoEdit, mem # NoFile, ~Refused(req[c])
  PROVE  /\ req[c] \in Edit /\ req[c].id \in Ids
         /\ mem \in Configs
         /\ Edited(req[c], req[c].found.on, mem[req[c].id].url) \in Entries \cup {NoEntry}
         /\ [mem EXCEPT ![req[c].id] = Edited(req[c], req[c].found.on, mem[req[c].id].url)] \in Configs
<1> DEFINE e == req[c]
<1>1. /\ e \in Edit /\ e.id \in Ids /\ e.found \in Entries \cup {NoEntry}
      /\ e.secret \in Secrets \cup {None}
  BY DEF TypeInv, Asked, Edit
<1>2. mem \in Configs /\ mem[e.id] \in Entries \cup {NoEntry}
  BY <1>1 DEF TypeInv, ConfigTypeOK, Configs
<1>3. keyfile \in Commands
  BY DEF TypeInv, Keyed
<1>4. e.found.on \in BOOLEAN /\ (mem[e.id] # NoEntry => mem[e.id].url \in Sealed)
  BY <1>1, <1>2, EntryFields
<1>5. e.secret = None => mem[e.id].url \in Sealed
  BY <1>4 DEF Refused
<1>6. e.secret # None => [secret |-> e.secret, key |-> keyfile] \in Sealed
  BY <1>1, <1>3 DEF Sealed
<1>7. Edited(e, e.found.on, mem[e.id].url) \in Entries \cup {NoEntry}
  <2> DEFINE on == IF e.on = "keep" THEN e.found.on ELSE e.on = "yes"
             url == IF e.secret = None THEN mem[e.id].url ELSE [secret |-> e.secret, key |-> keyfile]
  <2>1. on \in BOOLEAN
    BY <1>4
  <2>2. url \in Sealed
    BY <1>5, <1>6
  <2>3. Edited(e, e.found.on, mem[e.id].url) = IF e.op = "delete" THEN NoEntry ELSE [on |-> on, url |-> url]
    BY DEF Edited
  <2> QED BY <2>1, <2>2, <2>3, IsEntry
<1>8. [mem EXCEPT ![e.id] = Edited(e, e.found.on, mem[e.id].url)] \in Configs
  BY <1>1, <1>2, <1>7, ConfigUpdate
<1> QED BY <1>1, <1>2, <1>7, <1>8

LEMMA TypeInit == ConfigInit => TypeInv
<1> SUFFICES ASSUME ConfigInit PROVE TypeInv
  OBVIOUS
<1>1. promised \in [Ids -> [on : BOOLEAN, url : Sealed \cup {NoEntry.url}]]
  BY DEF ConfigInit, Empty, NoEntry
<1>2. \A c \in Requests : req[c].op = "none"
  BY DEF ConfigInit, NoEdit
<1>3. edits \in 0 .. MaxEdits
  BY ConfigAssumption DEF ConfigInit
<1>4. clobbered \in BOOLEAN /\ behind \subseteq Commands \cup {Server} /\ excused \subseteq Ids \X Fields
  BY DEF ConfigInit
<1>5. /\ pc \in [Commands -> {"idle", "load", "keygen", "keywrite", "init", "edit"}]
      /\ copy \in [Commands -> Configs \cup {NoFile}]
      /\ key \in [Commands -> Commands \cup {None}]
  BY DEF ConfigInit
<1>6. ConfigTypeOK
  BY <1>1, <1>2, <1>3, <1>4, <1>5 DEF ConfigInit, ConfigTypeOK
<1> QED BY <1>6 DEF TypeInv, Asked, Keyed, Holders, ConfigInit

\* The writes of a command, and of serve.
LEMMA WriteType ==
  ASSUME TypeInv, NEW p \in Commands \cup {Server}, NEW config, Write(p, config)
  PROVE  behind' \subseteq Commands \cup {Server} /\ clobbered' \in BOOLEAN /\ file' = config
  BY DEF TypeInv, ConfigTypeOK, Write

LEMMA ExitType ==
  ASSUME TypeInv, NEW p \in Commands, Exit(p)
  PROVE  /\ pc' \in [Commands -> {"idle", "load", "keygen", "keywrite", "init", "edit"}]
         /\ copy' \in [Commands -> Configs \cup {NoFile}]
         /\ key' \in [Commands -> Commands \cup {None}]
         /\ \A q \in Commands : pc'[q] \in {"init", "edit"} => pc[q] \in {"init", "edit"}
  BY DEF TypeInv, ConfigTypeOK, Exit

LEMMA TypeStep == TypeInv /\ [ConfigNext]_configVars => TypeInv'
<1> SUFFICES ASSUME TypeInv, [ConfigNext]_configVars PROVE TypeInv'
  OBVIOUS
<1> USE ConfigAssumption
<1>1. ASSUME NEW p \in Commands, RunInit(p) PROVE TypeInv'
  <2>1. ConfigTypeOK' /\ Asked'
    BY <1>1, EmptyIsConfig DEF RunInit, TypeInv, ConfigTypeOK, Asked, disk
  <2>2. Keyed' /\ Holders'
    BY <1>1 DEF RunInit, TypeInv, ConfigTypeOK, Keyed, Holders, disk
  <2> QED BY <2>1, <2>2 DEF TypeInv
<1>2. ASSUME NEW p \in Commands, RunEdit(p) PROVE TypeInv'
  <2>1. ConfigTypeOK' /\ Asked'
    BY <1>2 DEF RunEdit, TypeInv, ConfigTypeOK, Asked, disk
  <2>2. Keyed' /\ Holders'
    BY <1>2 DEF RunEdit, TypeInv, ConfigTypeOK, Keyed, Holders, disk
  <2> QED BY <2>1, <2>2 DEF TypeInv
<1>3. ASSUME NEW p \in Commands, EnsureKey(p) PROVE TypeInv'
  <2>1. ConfigTypeOK' /\ Asked'
    BY <1>3 DEF EnsureKey, Exit, TypeInv, ConfigTypeOK, Asked, disk, ghosts
  <2>2. Keyed' /\ Holders'
    BY <1>3 DEF EnsureKey, Exit, TypeInv, ConfigTypeOK, Keyed, Holders, disk, ghosts
  <2> QED BY <2>1, <2>2 DEF TypeInv
<1>4. ASSUME NEW p \in Commands, CreateKey(p) PROVE TypeInv'
  <2>1. ConfigTypeOK' /\ Asked'
    BY <1>4 DEF CreateKey, Exit, TypeInv, ConfigTypeOK, Asked, ghosts
  <2>2. Keyed' /\ Holders'
    BY <1>4 DEF CreateKey, Exit, TypeInv, ConfigTypeOK, Keyed, Holders, ghosts
  <2> QED BY <2>1, <2>2 DEF TypeInv
<1>5. ASSUME NEW p \in Commands, WriteKey(p) PROVE TypeInv'
  <2>1. ConfigTypeOK' /\ Asked'
    BY <1>5 DEF WriteKey, TypeInv, ConfigTypeOK, Asked, ghosts
  <2>2. Keyed' /\ Holders'
    BY <1>5 DEF WriteKey, TypeInv, ConfigTypeOK, Keyed, Holders, ghosts
  <2> QED BY <2>1, <2>2 DEF TypeInv
<1>6. ASSUME NEW p \in Commands, SaveInit(p) PROVE TypeInv'
  <2>1. copy[p] \in Configs \cup {NoFile}
    BY DEF TypeInv, ConfigTypeOK
  <2>2. promised' \in [Ids -> [on : BOOLEAN, url : Sealed \cup {NoEntry.url}]]
    BY <1>6 DEF SaveInit, TypeInv, ConfigTypeOK, Empty, NoEntry
  <2>3. keyfile \in Commands
    BY <1>6 DEF SaveInit, TypeInv, Keyed
  <2>4. ConfigTypeOK' /\ Asked'
    BY <1>6, <2>1, <2>2, WriteType, ExitType DEF SaveInit, TypeInv, ConfigTypeOK, Asked
  <2>5. Keyed' /\ Holders'
    BY <1>6, <2>3 DEF SaveInit, Exit, TypeInv, ConfigTypeOK, Keyed, Holders
  <2> QED BY <2>4, <2>5 DEF TypeInv
<1>7. ASSUME NEW p \in Commands, SaveEdit(p) PROVE TypeInv'
  <2>1. PICK i \in Ids, s \in Secrets \cup {None} :
           LET entry == IF s = None THEN NoEntry ELSE Added(p, s) IN
           /\ s = None => Removable(p, i)
           /\ Write(p, [copy[p] EXCEPT ![i] = entry])
           /\ promised' = [promised EXCEPT ![i] = entry]
    BY <1>7 DEF SaveEdit
  <2> DEFINE entry == IF s = None THEN NoEntry ELSE Added(p, s)
  <2>2. keyfile \in Commands /\ key[p] = keyfile /\ pc[p] = "edit"
    BY <1>7 DEF SaveEdit, TypeInv, Keyed, Holders
  <2>3. copy[p] \in Configs \cup {NoFile}
    BY DEF TypeInv, ConfigTypeOK
  <2>4. entry \in Entries \cup {NoEntry}
    BY <2>2, IsEntry DEF Added, Sealed
  <2> HIDE DEF entry
  <2>5. [copy[p] EXCEPT ![i] = entry] \in Configs \cup {NoFile}
    BY <2>3, <2>4, ConfigUpdate DEF NoFile
  <2>6. NoEntry \in [on : BOOLEAN, url : Sealed \cup {NoEntry.url}]
    BY DEF NoEntry
  <2>7. entry \in [on : BOOLEAN, url : Sealed \cup {NoEntry.url}]
    BY <2>4, <2>6 DEF Entries
  <2>8. promised' \in [Ids -> [on : BOOLEAN, url : Sealed \cup {NoEntry.url}]]
    BY <2>1, <2>7 DEF TypeInv, ConfigTypeOK, entry
  <2>9. file' = [copy[p] EXCEPT ![i] = entry]
    BY <2>1 DEF Write, entry
  <2>10. Write(p, [copy[p] EXCEPT ![i] = entry])
    BY <2>1 DEF entry
  <2>11. edits' \in 0 .. MaxEdits
    BY <1>7 DEF SaveEdit, TypeInv, ConfigTypeOK
  <2>12. ConfigTypeOK' /\ Asked'
    BY <1>7, <2>5, <2>8, <2>9, <2>10, <2>11, WriteType, ExitType
    DEF SaveEdit, TypeInv, ConfigTypeOK, Asked
  <2>13. Keyed' /\ Holders'
    BY <1>7, <2>2 DEF SaveEdit, Exit, TypeInv, ConfigTypeOK, Keyed, Holders
  <2> QED BY <2>12, <2>13 DEF TypeInv
<1>8. ASSUME NEW p \in Commands, GiveUp(p) PROVE TypeInv'
  <2>1. ConfigTypeOK' /\ Asked'
    BY <1>8, ExitType DEF GiveUp, TypeInv, ConfigTypeOK, Asked, disk, ghosts
  <2>2. Keyed' /\ Holders'
    BY <1>8 DEF GiveUp, Exit, TypeInv, ConfigTypeOK, Keyed, Holders, disk, ghosts
  <2> QED BY <2>1, <2>2 DEF TypeInv
<1>9. ASSUME Start PROVE TypeInv'
  BY <1>9 DEF Start, TypeInv, ConfigTypeOK, Asked, Keyed, Holders, disk, cli
<1>10. ASSUME Stop PROVE TypeInv'
  <2>1. \A c \in Requests : req'[c].op = "none"
    BY <1>10 DEF Stop, NoEdit
  <2>2. ConfigTypeOK'
    BY <1>10, <2>1 DEF Stop, TypeInv, ConfigTypeOK, disk, cli, ghosts
  <2> QED BY <1>10, <2>2 DEF Stop, TypeInv, Asked, Keyed, Holders, disk, cli
\* A handler that sets out on an edit.
<1>11. ASSUME NEW c \in Requests, NEW e \in Edit, req' = [req EXCEPT ![c] = e],
              UNCHANGED <<disk, mem, cli, edits, ghosts>>
       PROVE  TypeInv'
  <2>1. e.op \in {"none", "create", "update", "delete"}
    BY DEF Edit
  <2>2. \A d \in Requests : req'[d].op \in {"none", "create", "update", "delete"}
    BY <1>11, <2>1 DEF TypeInv, ConfigTypeOK, Asked
  <2>3. Asked'
    BY <1>11 DEF TypeInv, Asked
  <2>4. ConfigTypeOK'
    BY <1>11, <2>2 DEF TypeInv, ConfigTypeOK, disk, cli, ghosts
  <2> QED BY <1>11, <2>3, <2>4 DEF TypeInv, Keyed, Holders, disk, cli
<1>12. ASSUME NEW c \in Requests, Create(c) PROVE TypeInv'
  <2>1. PICK i \in Ids, s \in Secrets, on \in {"yes", "no"} :
           req' = [req EXCEPT ![c] =
             [op |-> "create", id |-> i, on |-> on, secret |-> s, found |-> NoEntry]]
    BY <1>12 DEF Create
  <2>2. [op |-> "create", id |-> i, on |-> on, secret |-> s, found |-> NoEntry] \in Edit
    BY DEF Edit
  <2> QED BY <1>11, <1>12, <2>1, <2>2 DEF Create
<1>13. ASSUME NEW c \in Requests, Update(c) PROVE TypeInv'
  <2>1. PICK i \in Ids, s \in Secrets \cup {None}, on \in {"yes", "no", "keep"} :
           req' = [req EXCEPT ![c] =
             [op |-> "update", id |-> i, on |-> on, secret |-> s, found |-> mem[i]]]
    BY <1>13 DEF Update
  <2>2. mem[i] \in Entries \cup {NoEntry}
    BY <1>13 DEF Update, TypeInv, ConfigTypeOK, Configs
  <2>3. [op |-> "update", id |-> i, on |-> on, secret |-> s, found |-> mem[i]] \in Edit
    BY <2>2 DEF Edit
  <2> QED BY <1>11, <1>13, <2>1, <2>3 DEF Update
<1>14. ASSUME NEW c \in Requests, Delete(c) PROVE TypeInv'
  <2>1. PICK i \in Ids :
           req' = [req EXCEPT ![c] = [NoEdit EXCEPT !.op = "delete", !.id = i, !.found = mem[i]]]
    BY <1>14 DEF Delete
  <2>2. mem[i] \in Entries \cup {NoEntry}
    BY <1>14 DEF Delete, TypeInv, ConfigTypeOK, Configs
  <2>3. [NoEdit EXCEPT !.op = "delete", !.id = i, !.found = mem[i]] \in Edit
    BY <2>2 DEF NoEdit, Edit
  <2> QED BY <1>11, <1>14, <2>1, <2>3 DEF Delete
<1>15. ASSUME NEW c \in Requests, Save(c) PROVE TypeInv'
  <2> DEFINE e == req[c]
             entry == Edited(e, e.found.on, mem[e.id].url)
             config == [mem EXCEPT ![e.id] = entry]
  <2>1. e.id \in Ids /\ config \in Configs /\ entry \in Entries \cup {NoEntry} /\ e \in Edit
    BY <1>15, EditedIsEntry DEF Save
  <2>2. keyfile \in Commands
    BY <1>15 DEF Save, TypeInv, Keyed
  <2>3. promised' \in [Ids -> [on : BOOLEAN, url : Sealed \cup {NoEntry.url}]]
    <3>1. promised[e.id].on \in BOOLEAN /\ promised[e.id].url \in Sealed \cup {NoEntry.url}
      BY <2>1 DEF TypeInv, ConfigTypeOK
    <3>2. e.secret # None => [secret |-> e.secret, key |-> keyfile] \in Sealed
      BY <2>1, <2>2 DEF Edit, Sealed
    <3>3. NoEntry \in [on : BOOLEAN, url : Sealed \cup {NoEntry.url}]
      BY DEF NoEntry
    <3>4. Promise(e) \in [on : BOOLEAN, url : Sealed \cup {NoEntry.url}]
      BY <3>1, <3>2, <3>3 DEF Promise
    <3> HIDE DEF e
    <3> QED BY <1>15, <2>1, <3>4 DEF Save, TypeInv, ConfigTypeOK, e
  <2>4. edits' \in 0 .. MaxEdits
    BY <1>15 DEF Save, TypeInv, ConfigTypeOK
  <2>5. mem' = config
    BY <1>15 DEF Save
  <2>6. /\ file' \in Configs \cup {NoFile} /\ behind' \subseteq Commands \cup {Server}
        /\ clobbered' \in BOOLEAN
    <3>1. CASE Write(Server, config)
      BY <2>1, <3>1, WriteType
    <3>2. CASE UNCHANGED <<file, behind, clobbered, promised>>
      BY <3>2 DEF TypeInv, ConfigTypeOK
    <3> QED BY <1>15, <3>1, <3>2 DEF Save
  <2>7. excused' \subseteq Ids \X Fields
    <3>1. \A f \in Fields : <<e.id, f>> \in Ids \X Fields
      BY <2>1
    <3>2. excused \subseteq Ids \X Fields /\ "on" \in Fields
      BY DEF TypeInv, ConfigTypeOK, Fields
    <3> HIDE DEF e
    <3> QED BY <1>15, <3>1, <3>2 DEF Save, e
  <2>8. Asked' /\ \A d \in Requests : req'[d].op \in {"none", "create", "update", "delete"}
    BY <1>15 DEF Save, TypeInv, ConfigTypeOK, Asked, NoEdit
  <2> HIDE DEF config, entry, e
  <2>9. ConfigTypeOK'
    BY <1>15, <2>1, <2>3, <2>4, <2>5, <2>6, <2>7, <2>8 DEF Save, TypeInv, ConfigTypeOK, cli
  <2>10. Keyed' /\ Holders'
    BY <1>15, <2>2 DEF Save, TypeInv, Keyed, Holders, cli
  <2> QED BY <2>8, <2>9, <2>10 DEF TypeInv
<1>16. ASSUME NEW c \in Requests, Refuse(c) PROVE TypeInv'
  <2>1. Asked' /\ \A d \in Requests : req'[d].op \in {"none", "create", "update", "delete"}
    BY <1>16 DEF Refuse, TypeInv, ConfigTypeOK, Asked, NoEdit
  <2>2. ConfigTypeOK'
    BY <1>16, <2>1 DEF Refuse, TypeInv, ConfigTypeOK, disk, cli, ghosts
  <2> QED BY <1>16, <2>1, <2>2 DEF Refuse, TypeInv, Keyed, Holders, disk, cli
<1>17. CASE UNCHANGED configVars
  BY <1>17 DEF configVars, TypeInv, ConfigTypeOK, Asked, Keyed, Holders, disk, cli, ghosts
<1> QED BY <1>1, <1>2, <1>3, <1>4, <1>5, <1>6, <1>7, <1>8, <1>9, <1>10, <1>12, <1>13, <1>14,
           <1>15, <1>16, <1>17 DEF ConfigNext

(***************************************************************************)
(* The file, the copies and the requests of ConfigFile keep their types.   *)
(***************************************************************************)
THEOREM TypeCorrect == ConfigSpec => []ConfigTypeOK
<1>1. TypeInv => ConfigTypeOK
  BY DEF TypeInv
<1> QED BY TypeInit, TypeStep, <1>1, PTL DEF ConfigSpec

-----------------------------------------------------------------------------
(* The key.                                                                *)

Under(config) ==
  config # NoFile => \A i \in Ids : config[i] # NoEntry => config[i].url.key = keyfile

\* What init sets out to write is empty, and what anybody else holds is sealed
\* under the one key.
Copies ==
  \A p \in Commands :
    /\ pc[p] = "edit" => Under(copy[p])
    /\ pc[p] \in {"load", "keygen", "keywrite", "init"} => copy[p] = Empty

KeyInv == TypeInv /\ Under(file) /\ Under(mem) /\ Copies

LEMMA EmptyIsUnder == Under(Empty)
  BY DEF Under, Empty

LEMMA KeyInit == ConfigInit => KeyInv
  BY TypeInit DEF ConfigInit, KeyInv, Under, Copies

\* Nobody has anything to open before there is a key.
LEMMA NothingBefore ==
  ASSUME TypeInv, keyfile \notin Commands
  PROVE  file = NoFile /\ mem = NoFile /\ \A p \in Commands : pc[p] \notin {"edit", "init"}
  BY DEF TypeInv, Keyed

LEMMA KeyStep == KeyInv /\ [ConfigNext]_configVars => KeyInv'
<1> SUFFICES ASSUME KeyInv, [ConfigNext]_configVars PROVE KeyInv'
  OBVIOUS
<1> USE ConfigAssumption DEF KeyInv
<1>0. TypeInv'
  BY TypeStep
<1>a. /\ pc \in [Commands -> {"idle", "load", "keygen", "keywrite", "init", "edit"}]
      /\ copy \in [Commands -> Configs \cup {NoFile}]
  BY DEF TypeInv, ConfigTypeOK
<1>1. ASSUME NEW p \in Commands, RunInit(p) PROVE KeyInv'
  BY <1>0, <1>1, <1>a DEF RunInit, Under, Copies, disk
<1>2. ASSUME NEW p \in Commands, RunEdit(p) PROVE KeyInv'
  BY <1>0, <1>2, <1>a DEF RunEdit, Under, Copies, disk
<1>3. ASSUME NEW p \in Commands, EnsureKey(p) PROVE KeyInv'
  BY <1>0, <1>3, <1>a DEF EnsureKey, Exit, Under, Copies, disk
<1>4. ASSUME NEW p \in Commands, CreateKey(p) PROVE KeyInv'
  <2>1. CASE keyfile = None
    BY <1>0, <1>4, <1>a, <2>1, NothingBefore DEF CreateKey, Under, Copies
  <2>2. CASE keyfile # None
    BY <1>0, <1>4, <1>a, <2>2 DEF CreateKey, Exit, Under, Copies
  <2> QED BY <2>1, <2>2
<1>5. ASSUME NEW p \in Commands, WriteKey(p) PROVE KeyInv'
  <2>1. keyfile = "empty"
    BY <1>5 DEF WriteKey, TypeInv, Holders
  <2> QED BY <1>0, <1>5, <1>a, <2>1, NothingBefore DEF WriteKey, Under, Copies
<1>6. ASSUME NEW p \in Commands, SaveInit(p) PROVE KeyInv'
  <2>1. copy[p] = Empty /\ file' = Empty
    BY <1>6 DEF SaveInit, Write, Copies
  <2>2. Under(file)'
    BY <2>1 DEF Under, Empty
  <2>3. Under(mem)' /\ Copies'
    BY <1>6, <1>a DEF SaveInit, Exit, Under, Copies
  <2> QED BY <1>0, <2>2, <2>3
<1>7. ASSUME NEW p \in Commands, SaveEdit(p) PROVE KeyInv'
  <2>1. PICK i \in Ids, s \in Secrets \cup {None} :
           Write(p, [copy[p] EXCEPT ![i] = IF s = None THEN NoEntry ELSE Added(p, s)])
    BY <1>7 DEF SaveEdit
  <2>2. key[p] = keyfile /\ Under(copy[p]) /\ copy[p] \in Configs \cup {NoFile}
    BY <1>7, <1>a DEF SaveEdit, TypeInv, Holders, Copies
  <2>3. file' = [copy[p] EXCEPT ![i] = IF s = None THEN NoEntry ELSE Added(p, s)]
    BY <2>1 DEF Write
  <2>4. CASE copy[p] = NoFile
    <3>1. file' = NoFile
      BY <2>3, <2>4 DEF NoFile
    <3> QED BY <1>0, <1>7, <1>a, <3>1 DEF SaveEdit, Exit, Under, Copies
  <2>5. CASE copy[p] # NoFile
    <3>1. Added(p, s).url.key = keyfile
      BY <2>2 DEF Added
    <3>2. copy[p] \in Configs
      BY <2>2, <2>5
    <3>3. \A j \in Ids : file'[j] # NoEntry => file'[j].url.key = keyfile
      BY <2>2, <2>3, <2>5, <3>1, <3>2 DEF Under, Configs
    <3> QED BY <1>0, <1>7, <1>a, <3>3 DEF SaveEdit, Exit, Under, Copies
  <2> QED BY <2>4, <2>5
<1>8. ASSUME NEW p \in Commands, GiveUp(p) PROVE KeyInv'
  BY <1>0, <1>8, <1>a DEF GiveUp, Exit, Under, Copies, disk
<1>9. ASSUME Start PROVE KeyInv'
  BY <1>0, <1>9 DEF Start, Under, Copies, disk, cli
<1>10. ASSUME Stop PROVE KeyInv'
  BY <1>0, <1>10 DEF Stop, Under, Copies, disk, cli
<1>11. ASSUME UNCHANGED <<disk, mem, cli>> PROVE KeyInv'
  BY <1>0, <1>11 DEF Under, Copies, disk, cli
<1>12. ASSUME NEW c \in Requests, Save(c) PROVE KeyInv'
  <2> DEFINE e == req[c]
             entry == Edited(e, e.found.on, mem[e.id].url)
  <2>1. e.id \in Ids /\ mem \in Configs
    BY <1>12, EditedIsEntry DEF Save
  <2>2. mem' = [mem EXCEPT ![e.id] = entry] /\ (file' = mem' \/ file' = file)
    BY <1>12 DEF Save, Write
  <2>3. entry # NoEntry => entry.url.key = keyfile
    BY <1>12, <2>1 DEF Save, Edited, Refused, Under
  <2> HIDE DEF entry
  <2>4. \A i \in Ids : mem'[i] # NoEntry => mem'[i].url.key = keyfile
    BY <1>12, <2>1, <2>2, <2>3 DEF Save, Under, Configs
  <2> QED BY <1>0, <1>12, <2>2, <2>4 DEF Save, Under, Copies, cli
<1> QED BY <1>1, <1>2, <1>3, <1>4, <1>5, <1>6, <1>7, <1>8, <1>9, <1>10, <1>11, <1>12
        DEF ConfigNext, Create, Update, Delete, Refuse, configVars

(***************************************************************************)
(* However many processes start at once on an empty machine, every secret  *)
(* at rest opens with the key at rest (SaveKey's O_EXCL).                  *)
(***************************************************************************)
THEOREM KeyIsOne == ConfigSpec => []OneKey
<1>1. KeyInv => OneKey
  BY DEF KeyInv, Under, OneKey
<1> QED BY KeyInit, KeyStep, <1>1, PTL DEF ConfigSpec

-----------------------------------------------------------------------------
(* The edits.                                                              *)

\* A command that nobody overtook holds what the file holds, and an init that
\* nobody overtook found no file.
UpToDate ==
  \A p \in Commands \ behind :
    /\ pc[p] = "edit" => copy[p] = file
    /\ pc[p] \in {"load", "keygen", "keywrite", "init"} => file = NoFile

\* serve has a configuration only where there is a file, and a command edits
\* one that it read; a failed write excuses the whole entry.
Backed ==
  /\ mem # NoFile => file # NoFile
  /\ \A p \in Commands : pc[p] = "edit" => copy[p] # NoFile
  /\ \A i \in Ids : <<i, "url">> \in excused => <<i, "on">> \in excused

EditInv == KeyInv /\ Backed /\ UpToDate /\ ServedIsSaved /\ EditsAreKept

\* All configurations name the same ids, so one is NoFile only if all are.
LEMMA NoFileIsNone ==
  ASSUME NEW c \in Configs, NEW d \in Configs, c # NoFile
  PROVE  d # NoFile
<1>1. Ids # {}
  BY DEF Configs, NoFile
<1> QED BY <1>1 DEF Configs, NoFile

LEMMA EditInit == ConfigInit => EditInv
  BY KeyInit DEF ConfigInit, EditInv, Backed, UpToDate, ServedIsSaved, EditsAreKept

LEMMA EditStep == EditInv /\ [ConfigNext]_configVars => EditInv'
<1> SUFFICES ASSUME EditInv, [ConfigNext]_configVars PROVE EditInv'
  OBVIOUS
<1> USE ConfigAssumption DEF EditInv
<1>0. KeyInv'
  BY KeyStep
<1>a. /\ pc \in [Commands -> {"idle", "load", "keygen", "keywrite", "init", "edit"}]
      /\ copy \in [Commands -> Configs \cup {NoFile}]
      /\ promised \in [Ids -> [on : BOOLEAN, url : Sealed \cup {NoEntry.url}]]
  BY DEF KeyInv, TypeInv, ConfigTypeOK
<1>1. ASSUME NEW p \in Commands, RunInit(p) PROVE EditInv'
  BY <1>0, <1>1, <1>a DEF Backed, RunInit, UpToDate, ServedIsSaved, EditsAreKept, disk
<1>2. ASSUME NEW p \in Commands, RunEdit(p) PROVE EditInv'
  BY <1>0, <1>2, <1>a DEF Backed, RunEdit, UpToDate, ServedIsSaved, EditsAreKept, disk
<1>3. ASSUME NEW p \in Commands, EnsureKey(p) PROVE EditInv'
  BY <1>0, <1>3, <1>a DEF Backed, EnsureKey, Exit, UpToDate, ServedIsSaved, EditsAreKept, disk, ghosts
<1>4. ASSUME NEW p \in Commands, CreateKey(p) PROVE EditInv'
  BY <1>0, <1>4, <1>a DEF Backed, CreateKey, Exit, UpToDate, ServedIsSaved, EditsAreKept, ghosts
<1>5. ASSUME NEW p \in Commands, WriteKey(p) PROVE EditInv'
  BY <1>0, <1>5, <1>a DEF Backed, WriteKey, UpToDate, ServedIsSaved, EditsAreKept, ghosts
\* A write leaves everybody else behind.
<1>6. ASSUME NEW p \in Commands, NEW config, Write(p, config), Exit(p), mem' = mem
      PROVE  UpToDate' /\ ServedIsSaved'
  BY <1>6, <1>a DEF Write, Exit, UpToDate, ServedIsSaved
<1>b. ASSUME NEW p \in Commands, file' \in Configs, mem' = mem, excused' = excused, Exit(p)
      PROVE  Backed'
  BY <1>a, <1>b, NoFileIsNone DEF Backed, Exit, KeyInv, TypeInv, ConfigTypeOK
<1>7. ASSUME NEW p \in Commands, SaveInit(p) PROVE EditInv'
  <2>1. copy[p] = Empty /\ file' = Empty
    BY <1>7 DEF SaveInit, Write, KeyInv, Copies
  <2>2. ~clobbered' => file = NoFile /\ promised' = Empty
    BY <1>7 DEF SaveInit, Write, UpToDate
  <2>3. EditsAreKept'
    BY <2>1, <2>2 DEF EditsAreKept
  <2>4. Backed'
    BY <1>7, <1>b, <2>1, EmptyIsConfig DEF SaveInit
  <2> QED BY <1>0, <1>6, <1>7, <2>3, <2>4 DEF SaveInit
<1>8. ASSUME NEW p \in Commands, SaveEdit(p) PROVE EditInv'
  <2>0. PICK i \in Ids : \E entry :
           /\ Write(p, [copy[p] EXCEPT ![i] = entry])
           /\ promised' = [promised EXCEPT ![i] = entry]
    BY <1>8 DEF SaveEdit
  <2>1. PICK entry :
           /\ Write(p, [copy[p] EXCEPT ![i] = entry])
           /\ promised' = [promised EXCEPT ![i] = entry]
    BY <2>0
  <2>2. file' = [copy[p] EXCEPT ![i] = entry]
    BY <2>1 DEF Write
  <2>3. ~clobbered' => ~clobbered /\ copy[p] = file
    BY <1>8, <2>1 DEF Write, SaveEdit, UpToDate
  <2>4. EditsAreKept'
    <3> SUFFICES ASSUME ~clobbered', file' # NoFile, NEW j \in Ids, NEW f \in Fields,
                        <<j, f>> \notin excused
                 PROVE  file'[j][f] = promised'[j][f]
      BY <1>8 DEF EditsAreKept, SaveEdit
    <3>1. copy[p] = file /\ file # NoFile /\ file \in Configs
      BY <1>a, <2>2, <2>3 DEF NoFile
    <3>2. file[j][f] = promised[j][f]
      BY <2>3, <3>1 DEF EditsAreKept
    <3> QED BY <1>a, <2>1, <2>2, <3>1, <3>2 DEF Configs
  <2>5. Backed'
    <3>1. file' = NoFile \/ file' \in Configs
      BY <1>0 DEF KeyInv, TypeInv, ConfigTypeOK
    <3>2. Ids # {} => file' # NoFile
      BY <1>a, <1>8, <2>2 DEF SaveEdit, Backed, Configs, NoFile
    <3> QED BY <1>8, <1>b, <3>1, <3>2 DEF SaveEdit
  <2> QED BY <1>0, <1>6, <1>8, <2>1, <2>4, <2>5 DEF SaveEdit
<1>9. ASSUME NEW p \in Commands, GiveUp(p) PROVE EditInv'
  BY <1>0, <1>9, <1>a DEF Backed, GiveUp, Exit, UpToDate, ServedIsSaved, EditsAreKept, disk, ghosts
<1>10. ASSUME Start PROVE EditInv'
  BY <1>0, <1>10 DEF Backed, Start, UpToDate, ServedIsSaved, EditsAreKept, disk, cli
<1>11. ASSUME Stop PROVE EditInv'
  BY <1>0, <1>11 DEF Backed, Stop, UpToDate, ServedIsSaved, EditsAreKept, disk, cli, ghosts
<1>12. ASSUME UNCHANGED <<disk, mem, cli, ghosts>> PROVE EditInv'
  BY <1>0, <1>12 DEF Backed, UpToDate, ServedIsSaved, EditsAreKept, disk, cli, ghosts
<1>13. ASSUME NEW c \in Requests, Save(c) PROVE EditInv'
  <2> DEFINE e == req[c]
             entry == Edited(e, e.found.on, mem[e.id].url)
  <2>1. e.id \in Ids /\ mem \in Configs
    BY <1>13, EditedIsEntry DEF Save, KeyInv
  <2>2. mem' = [mem EXCEPT ![e.id] = entry] /\ UNCHANGED cli
    BY <1>13 DEF Save
  <2>3. CASE /\ Write(Server, mem')
             /\ promised' = [promised EXCEPT ![e.id] = Promise(e)]
             /\ excused' = excused \cup (IF Stale(e) THEN {<<e.id, "on">>} ELSE {})
    <3>1. file' = mem' /\ excused \subseteq excused' /\ (Stale(e) => <<e.id, "on">> \in excused')
      BY <2>3 DEF Write
    <3>2. ServedIsSaved'
      BY <3>1 DEF ServedIsSaved
    <3>3. UpToDate'
      BY <2>2, <2>3 DEF Write, UpToDate, cli
    <3>4. EditsAreKept'
      <4> SUFFICES ASSUME ~clobbered', NEW j \in Ids, NEW f \in Fields, <<j, f>> \notin excused'
                   PROVE  mem'[j][f] = promised'[j][f]
        BY <3>1 DEF EditsAreKept
      <4>1. ~clobbered /\ Server \notin behind
        BY <2>3 DEF Write
      <4>2. mem # NoFile /\ file # NoFile /\ <<j, f>> \notin excused
        BY <1>13, <3>1 DEF Save, Backed
      <4>3. f = "on" \/ f = "url"
        BY DEF Fields
      <4>a. <<j, "url">> \notin excused
        BY <4>2, <4>3 DEF Backed
      <4>4. mem[j] = file[j] /\ file[j][f] = promised[j][f]
        BY <4>1, <4>2, <4>a DEF ServedIsSaved, EditsAreKept
      <4>5. CASE j # e.id
        BY <1>a, <2>1, <2>2, <2>3, <4>4, <4>5 DEF Configs
      <4>6. CASE j = e.id
        <5>1. mem'[j] = entry /\ promised'[j] = Promise(e)
          BY <1>a, <2>1, <2>2, <2>3, <4>6 DEF Configs
        <5>2. f = "on" => ~Stale(e)
          BY <3>1, <4>6
        <5>3. entry[f] = Promise(e)[f]
          BY <4>4, <4>6, <5>2 DEF Fields, Edited, Promise, Stale
        <5> QED BY <5>1, <5>3
      <4> QED BY <4>5, <4>6
    <3>5. Backed'
      BY <2>2, <2>3, <3>1 DEF Backed, cli
    <3> QED BY <1>0, <3>2, <3>3, <3>4, <3>5
  <2>4. CASE /\ excused' = excused \cup {<<e.id, f>> : f \in Fields}
             /\ UNCHANGED <<file, behind, clobbered, promised>>
    <3>1. \A i \in Ids : i # e.id => mem'[i] = mem[i]
      BY <2>1, <2>2 DEF Configs
    <3>2. mem # NoFile
      BY <1>13 DEF Save
    <3>a. \A i \in Ids : <<i, "url">> \notin excused' => i # e.id /\ <<i, "url">> \notin excused
      BY <2>4 DEF Fields
    <3>3. ServedIsSaved'
      BY <2>4, <3>1, <3>2, <3>a DEF ServedIsSaved
    <3>4. Backed'
      <4>1. file' # NoFile /\ \A p \in Commands : pc'[p] = "edit" => copy'[p] # NoFile
        BY <2>2, <2>4, <3>2 DEF Backed, cli
      <4>2. \A i \in Ids : <<i, "url">> \in excused' => <<i, "on">> \in excused'
        <5> SUFFICES ASSUME NEW i \in Ids, <<i, "url">> \in excused' PROVE <<i, "on">> \in excused'
          OBVIOUS
        <5>1. i = e.id => <<i, "on">> \in excused'
          BY <2>4 DEF Fields
        <5>2. <<i, "url">> \in excused \/ i = e.id
          BY <2>4
        <5> HIDE DEF e
        <5> QED BY <2>4, <5>1, <5>2 DEF Backed
      <4> QED BY <4>1, <4>2 DEF Backed
    <3> QED BY <1>0, <2>2, <2>4, <3>2, <3>3, <3>4 DEF UpToDate, EditsAreKept, cli
  <2> QED BY <1>13, <2>3, <2>4 DEF Save
<1> QED BY <1>1, <1>2, <1>3, <1>4, <1>5, <1>7, <1>8, <1>9, <1>10, <1>11, <1>12, <1>13
        DEF ConfigNext, Create, Update, Delete, Refuse, configVars

(***************************************************************************)
(* While no process writes over a file it has not read, the file holds     *)
(* what the answers promised: every URL, whatever requests race, and every *)
(* on/off flag but one an update kept from an entry another request had    *)
(* changed since. Of an id whose edit failed to reach the disk nothing is  *)
(* said (cliNotifications' lock, notify.go:380).                           *)
(***************************************************************************)
THEOREM EditsKept == ConfigSpec => []EditsAreKept
<1>1. EditInv => EditsAreKept
  BY DEF EditInv
<1> QED BY EditInit, EditStep, <1>1, PTL DEF ConfigSpec

(***************************************************************************)
(* What the dispatcher is given is what a restart would load, unless a     *)
(* command wrote since or a write failed (notify.go, channels and Save).   *)
(***************************************************************************)
THEOREM Served == ConfigSpec => []ServedIsSaved
<1>1. EditInv => ServedIsSaved
  BY DEF EditInv
<1> QED BY EditInit, EditStep, <1>1, PTL DEF ConfigSpec

=============================================================================
