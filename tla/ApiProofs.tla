----------------------------- MODULE ApiProofs -----------------------------
(***************************************************************************)
(* Proofs about Access, for any number of tokens and sessions, any scopes, *)
(* any lifetime and any throttle's interval, and about Journal, for any    *)
(* drill, any number of steps and any faults.                              *)
(***************************************************************************)
EXTENDS Access, Journal, FiniteSetTheorems, SequenceTheorems, TLAPS

\* A token that was created reads, and only such a token was ever used.
Created ==
  \A t \in Tokens :
    IF tokens[t] = NoToken
    THEN lastUse[t] \in {Never, Lost} /\ throttle[t] = Never /\ \A at \in Times : <<t, at>> \notin touching
    ELSE "read" \in tokens[t].scopes

\* A session is some token's.
Owned == \A s \in Sessions : sessions[s] # NoSession => sessions[s].token \in Tokens

Inv == AccessTypeOK /\ Created /\ Owned

LEMMA TokenFields ==
  ASSUME AccessTypeOK, NEW t \in Tokens
  PROVE  /\ tokens[t].scopes \in SUBSET Scopes /\ tokens[t].live \in BOOLEAN
         /\ tokens[t].used \in Times \cup {Never}
         /\ tokens[t] = [scopes |-> tokens[t].scopes, live |-> tokens[t].live,
                         used |-> tokens[t].used]
  BY DEF AccessTypeOK

\* A token that was never created neither reads nor is live.
LEMMA NoTokenIsNone == "read" \notin NoToken.scopes /\ NoToken.live = FALSE
  BY DEF NoToken

\* Who is admitted is a token that was created and is live.
LEMMA AdmittedIsLive ==
  ASSUME Inv, NEW bearer \in Tokens \cup {None}, NEW sameOrigin, NEW route,
         Authentic(bearer, sameOrigin, route)
  PROVE  Identity(bearer) \in Tokens /\ tokens[Identity(bearer)].live
  BY AccessAssumption
  DEF Inv, Owned, AccessTypeOK, Authentic, Identity, TokenByHash, SessionByHash

LEMMA TypeInit == AccessInit => Inv
<1> SUFFICES ASSUME AccessInit PROVE Inv
  OBVIOUS
<1>1. NoToken \in [scopes : SUBSET Scopes, live : BOOLEAN, used : Times \cup {Never}]
  BY DEF NoToken
<1>2. NoSession \in [token : Tokens \cup {None}, expires : {Never} \cup 0 .. MaxTime + Lifetime]
  BY DEF NoSession
<1>3. NoRequest \in [token : Tokens \cup {None}, route : Routes]
  BY DEF NoRequest, Routes
<1>4. now \in Times
  BY AccessAssumption DEF AccessInit, Times
<1>5. AccessTypeOK
  BY <1>1, <1>2, <1>3, <1>4 DEF AccessInit, AccessTypeOK
<1> QED BY <1>5 DEF AccessInit, Inv, Created, Owned

\* What the table holds after a touch was written.
LEMMA WriteStep ==
  ASSUME Inv, NEW t \in Tokens, NEW at \in Times, TouchToken(t, at)
  PROVE  /\ tokens' \in [Tokens -> [scopes : SUBSET Scopes, live : BOOLEAN, used : Times \cup {Never}]]
         /\ \A u \in Tokens : tokens'[u].scopes = tokens[u].scopes /\ (u # t => tokens'[u] = tokens[u])
         /\ tokens' = tokens \/ tokens'[t].used = at
<1> DEFINE r == [tokens[t] EXCEPT !.used = at]
<1>1. /\ r \in [scopes : SUBSET Scopes, live : BOOLEAN, used : Times \cup {Never}]
      /\ r.scopes = tokens[t].scopes /\ r.used = at
  BY TokenFields DEF Inv, AccessTypeOK
<1>2. tokens' = tokens \/ tokens' = [tokens EXCEPT ![t] = r]
  BY DEF TouchToken
<1> HIDE DEF r
<1> QED BY <1>1, <1>2 DEF Inv, AccessTypeOK

LEMMA TypeStep == Inv /\ [AccessNext]_accessVars => Inv'
<1> SUFFICES ASSUME Inv, [AccessNext]_accessVars PROVE Inv'
  OBVIOUS
<1> USE AccessAssumption DEF Inv, touchVars, AllLost
<1>1. ASSUME NEW t \in Tokens, NEW scopes \in SUBSET Extra, CreateToken(t, scopes) PROVE Inv'
  <2>1. {"read"} \cup scopes \in SUBSET Scopes
    BY DEF Scopes
  <2>2. AccessTypeOK'
    BY <1>1, <2>1 DEF CreateToken, AccessTypeOK
  <2>3. Created'
    BY <1>1 DEF CreateToken, Created, AccessTypeOK, NoToken
  <2> QED BY <1>1, <2>2, <2>3 DEF CreateToken, Owned
<1>2. ASSUME RevokeToken PROVE Inv'
  <2>1. \A t \in Tokens : /\ tokens'[t] = [tokens[t] EXCEPT !.live = FALSE]
                          /\ tokens'[t].scopes = tokens[t].scopes
                          /\ tokens'[t] \in [scopes : SUBSET Scopes, live : BOOLEAN, used : Times \cup {Never}]
    BY <1>2 DEF RevokeToken, AccessTypeOK
  <2>2. AccessTypeOK'
    BY <1>2, <2>1 DEF RevokeToken, AccessTypeOK
  <2>3. ASSUME NEW t \in Tokens, tokens[t] = NoToken PROVE tokens'[t] = NoToken
    BY <2>1, <2>3 DEF NoToken
  <2>4. ASSUME NEW t \in Tokens, tokens[t] # NoToken PROVE tokens'[t] # NoToken
    BY <2>1, <2>4, NoTokenIsNone DEF Created
  <2>5. Created'
    BY <1>2, <2>1, <2>3, <2>4 DEF RevokeToken, Created
  <2> QED BY <1>2, <2>2, <2>5 DEF RevokeToken, Owned
<1>3. ASSUME NEW bearer \in Tokens \cup {None}, NEW sameOrigin \in BOOLEAN, NEW route \in Routes,
             Admit(bearer, sameOrigin, route)
      PROVE  Inv'
  <2> DEFINE t == Identity(bearer)
  <2>1. t \in Tokens /\ tokens[t].live /\ Touch(t) /\ now \in Times
    BY <1>3, AdmittedIsLive DEF Admit, AccessTypeOK
  <2>2. request' \in [token : Tokens \cup {None}, route : Routes]
    BY <1>3, <2>1 DEF Admit, NoRequest, Routes
  <2>3. UNCHANGED tokens
    BY <1>3 DEF Admit
  <2> HIDE DEF t
  <2>a. /\ throttle' \in [Tokens -> Times \cup {Never}] /\ touching' \subseteq Tokens \X Times
        /\ lastUse' \in [Tokens -> Times \cup {Never, Lost}]
    BY <2>1 DEF Touch, AccessTypeOK
  <2>4. AccessTypeOK'
    BY <1>3, <2>2, <2>a DEF Admit, AccessTypeOK
  <2>5. tokens[t] # NoToken
    BY <2>1, NoTokenIsNone
  <2>6. Created'
    BY <2>1, <2>3, <2>5 DEF Touch, Created, AccessTypeOK
  <2> QED BY <1>3, <2>4, <2>6 DEF Admit, Owned
<1>a. ASSUME NEW t \in Tokens, NEW at \in Times, TouchToken(t, at) PROVE Inv'
  <2>1. tokens[t] # NoToken
    BY <1>a DEF TouchToken, Created
  <2>2. AccessTypeOK'
    BY <1>a, WriteStep DEF TouchToken, AccessTypeOK
  <2>3. Created'
    BY <1>a, <2>1, WriteStep, NoTokenIsNone DEF TouchToken, Created
  <2> QED BY <1>a, <2>2, <2>3 DEF TouchToken, Owned
<1>4. ASSUME Answer PROVE Inv'
  BY <1>4 DEF Answer, AccessTypeOK, Created, Owned, NoRequest, Routes
<1>5. ASSUME NEW t \in Tokens, BeginSession(t) PROVE Inv'
  BY <1>5 DEF BeginSession, AccessTypeOK, Created, Owned
<1>6. ASSUME NEW s \in Sessions, CreateSession(s) PROVE Inv'
  <2>1. login \in Tokens /\ now + Lifetime \in 0 .. MaxTime + Lifetime
    BY <1>6 DEF CreateSession, AccessTypeOK, Times
  <2>2. sessions' \in [Sessions -> [token : Tokens \cup {None}, expires : {Never} \cup 0 .. MaxTime + Lifetime]]
    BY <1>6, <2>1 DEF CreateSession, AccessTypeOK, NoSession
  <2>3. Owned'
    <3> SUFFICES ASSUME NEW x \in Sessions, sessions'[x] # NoSession
                 PROVE  sessions'[x].token \in Tokens
      BY DEF Owned
    <3>1. \/ sessions'[x] = sessions[x]
          \/ sessions'[x] = [token |-> login, expires |-> now + Lifetime]
      BY <1>6 DEF CreateSession
    <3> QED BY <2>1, <3>1 DEF Owned
  <2>4. jar' \in Sessions \cup {None}
    BY <1>6 DEF CreateSession, AccessTypeOK
  <2> QED BY <1>6, <2>2, <2>3, <2>4 DEF CreateSession, AccessTypeOK, Created
<1>7. ASSUME DeleteSession PROVE Inv'
  <2>1. sessions' \in [Sessions -> [token : Tokens \cup {None}, expires : {Never} \cup 0 .. MaxTime + Lifetime]]
    BY <1>7 DEF DeleteSession, AccessTypeOK, NoSession
  <2> QED BY <1>7, <2>1 DEF DeleteSession, AccessTypeOK, Created, Owned, NoRequest, Routes
<1>8. ASSUME RestartServer PROVE Inv'
  BY <1>8 DEF RestartServer, AccessTypeOK, Created, Owned, NoRequest, Routes
<1>9. ASSUME Tick PROVE Inv'
  BY <1>9 DEF Tick, AccessTypeOK, Created, Owned, Times
<1>10. ASSUME UNCHANGED accessVars PROVE Inv'
  BY <1>10 DEF accessVars, AccessTypeOK, Created, Owned
<1> QED BY <1>1, <1>2, <1>3, <1>a, <1>4, <1>5, <1>6, <1>7, <1>8, <1>9, <1>10 DEF AccessNext

(***************************************************************************)
(* Nobody is admitted but a live token that holds the route's scope,       *)
(* whatever is revoked between the two steps of a sign-in or while a       *)
(* session is open (auth.go, session.go).                                  *)
(***************************************************************************)
THEOREM Refused == AccessSpec => RevokedIsRefused
<1>1. ASSUME Inv, [AccessNext]_accessVars
      PROVE  [request = NoRequest /\ request' # NoRequest =>
                /\ tokens[request'.token].live
                /\ ScopeOf(request'.route) \in tokens[request'.token].scopes]_accessVars
  <2> SUFFICES ASSUME AccessNext, request = NoRequest, request' # NoRequest
               PROVE  /\ tokens[request'.token].live
                      /\ ScopeOf(request'.route) \in tokens[request'.token].scopes
    BY <1>1 DEF accessVars
  <2>1. PICK bearer \in Tokens \cup {None}, sameOrigin \in BOOLEAN, route \in Routes :
           Admit(bearer, sameOrigin, route)
    BY DEF AccessNext, CreateToken, RevokeToken, TouchToken, Answer, BeginSession, CreateSession,
           DeleteSession, RestartServer, Tick
  <2>2. Identity(bearer) \in Tokens /\ tokens[Identity(bearer)].live
    BY <1>1, <2>1, AdmittedIsLive DEF Admit
  <2>3. /\ request'.token = Identity(bearer) /\ request'.route = route
        /\ Can(Identity(bearer), ScopeOf(route))
    BY <2>1 DEF Admit
  <2>4. "read" \in tokens[Identity(bearer)].scopes
    BY <1>1, <2>2 DEF Inv, Created, NoToken
  <2> QED BY <2>2, <2>3, <2>4 DEF Can
<1> QED BY TypeInit, TypeStep, <1>1, PTL DEF AccessSpec, RevokedIsRefused

-----------------------------------------------------------------------------
(* The throttle.                                                           *)

\* What the throttle remembers is the latest there is, and unless a write went
\* wrong it is stored, or on its way.
Remembered ==
  /\ \A t \in Tokens : throttle[t] <= now
  /\ \A t \in Tokens, at \in Times : <<t, at>> \in touching => throttle[t] # Never /\ at <= throttle[t]
  /\ lastUse = AllLost \/ \A t \in Tokens :
       /\ lastUse[t] # Lost
       /\ throttle[t] # Never => tokens[t].used = throttle[t] \/ <<t, throttle[t]>> \in touching

UseInv == Inv /\ Remembered /\ LastUseIsKnown

LEMMA UseInit == AccessInit => UseInv
  BY TypeInit DEF AccessInit, UseInv, Remembered, LastUseIsKnown, Never, Lost

LEMMA UseStep == UseInv /\ [AccessNext]_accessVars => UseInv'
<1> SUFFICES ASSUME UseInv, [AccessNext]_accessVars PROVE UseInv'
  OBVIOUS
<1> USE AccessAssumption DEF UseInv, touchVars
<1>0. Inv'
  BY TypeStep
<1>a. /\ throttle \in [Tokens -> Times \cup {Never}] /\ touching \subseteq Tokens \X Times
      /\ lastUse \in [Tokens -> Times \cup {Never, Lost}] /\ now \in Times
  BY DEF Inv, AccessTypeOK
<1>b. ASSUME lastUse' = AllLost, UNCHANGED now,
             \A t \in Tokens : throttle'[t] <= now,
             \A t \in Tokens, at \in Times : <<t, at>> \in touching' => throttle'[t] # Never /\ at <= throttle'[t]
      PROVE  UseInv'
  BY <1>0, <1>b DEF Remembered, LastUseIsKnown, AllLost
<1>1. ASSUME NEW t \in Tokens, NEW scopes \in SUBSET Extra, CreateToken(t, scopes) PROVE UseInv'
  <2>1. throttle[t] = Never /\ lastUse[t] \in {Never, Lost}
    BY <1>1 DEF CreateToken, Inv, Created
  <2>2. \A u \in Tokens : u # t => tokens'[u] = tokens[u]
    BY <1>1 DEF CreateToken, Inv, AccessTypeOK
  <2>3. Remembered'
    BY <1>1, <2>1, <2>2 DEF CreateToken, Remembered
  <2>4. LastUseIsKnown'
    BY <1>1, <2>1, <2>2 DEF CreateToken, LastUseIsKnown
  <2> QED BY <1>0, <2>3, <2>4
<1>2. ASSUME RevokeToken PROVE UseInv'
  <2>1. \A t \in Tokens : tokens'[t].used = tokens[t].used
    BY <1>2, TokenFields DEF RevokeToken, Inv, AccessTypeOK
  <2> QED BY <1>0, <1>2, <2>1 DEF RevokeToken, Remembered, LastUseIsKnown
<1>3. ASSUME NEW bearer \in Tokens \cup {None}, NEW sameOrigin \in BOOLEAN, NEW route \in Routes,
             Admit(bearer, sameOrigin, route)
      PROVE  UseInv'
  <2> DEFINE t == Identity(bearer)
  <2>1. t \in Tokens /\ Touch(t) /\ UNCHANGED <<now, tokens>>
    BY <1>3, AdmittedIsLive DEF Admit
  <2> HIDE DEF t
  <2>2. /\ throttle'[t] = IF Due(t) THEN now ELSE throttle[t]
        /\ lastUse' = [lastUse EXCEPT ![t] = IF lastUse[t] = Lost THEN Lost ELSE now]
        /\ touching \subseteq touching' /\ (Due(t) => <<t, now>> \in touching')
        /\ \A u \in Tokens : u # t => throttle'[u] = throttle[u]
        /\ \A u \in Tokens, at \in Times :
             <<u, at>> \in touching' => <<u, at>> \in touching \/ (Due(t) /\ u = t /\ at = now)
    BY <1>a, <2>1 DEF Touch
  <2>3. ~ Due(t) => throttle[t] \in Times /\ now - throttle[t] < TouchInterval
    BY <1>a, <2>1 DEF Due, Times, Never
  <2>4. \A u \in Tokens : throttle'[u] <= now
    BY <1>a, <2>1, <2>2 DEF Remembered, Times
  <2>5. \A u \in Tokens, at \in Times :
          <<u, at>> \in touching' => throttle'[u] # Never /\ at <= throttle'[u]
    <3> SUFFICES ASSUME NEW u \in Tokens, NEW at \in Times, <<u, at>> \in touching'
                 PROVE  throttle'[u] # Never /\ at <= throttle'[u]
      OBVIOUS
    <3>1. CASE <<u, at>> \in touching
      <4>1. throttle[u] # Never /\ at <= throttle[u] /\ throttle[u] <= now
        BY <3>1 DEF Remembered
      <4>2. throttle'[u] = throttle[u] \/ throttle'[u] = now
        BY <2>2
      <4> QED BY <1>a, <4>1, <4>2 DEF Times, Never
    <3>2. CASE Due(t) /\ u = t /\ at = now
      BY <1>a, <2>2, <3>2 DEF Times, Never
    <3> QED BY <2>2, <3>1, <3>2
  <2>6. CASE lastUse = AllLost
    <3>1. lastUse' = AllLost
      BY <2>1, <2>2, <2>6 DEF AllLost
    <3> QED BY <1>b, <2>1, <2>4, <2>5, <3>1
  <2>7. CASE lastUse # AllLost
    <3>1. \A u \in Tokens : lastUse[u] # Lost
      BY <2>7 DEF Remembered
    <3>2. /\ lastUse'[t] = now /\ now # Lost
          /\ \A u \in Tokens : u # t => lastUse'[u] = lastUse[u]
      BY <1>a, <2>1, <2>2, <3>1 DEF Times, Lost
    <3>3. \A u \in Tokens : throttle'[u] # Never =>
            tokens'[u].used = throttle'[u] \/ <<u, throttle'[u]>> \in touching'
      BY <2>1, <2>2, <2>7 DEF Remembered
    <3>4. \E at \in Times : /\ at = tokens'[t].used \/ <<t, at>> \in touching'
                            /\ lastUse'[t] - at < TouchInterval
      <4>1. CASE Due(t)
        <5>1. now - now < TouchInterval
          BY <1>a DEF Times
        <5> QED BY <1>a, <2>2, <3>2, <4>1, <5>1
      <4>2. CASE ~ Due(t)
        BY <2>1, <2>2, <2>3, <3>2, <3>3, <4>2 DEF Times, Never
      <4> QED BY <4>1, <4>2
    <3>5. LastUseIsKnown'
      BY <2>1, <2>2, <3>2, <3>4 DEF LastUseIsKnown
    <3>6. Remembered'
      BY <2>1, <2>4, <2>5, <3>1, <3>2, <3>3 DEF Remembered
    <3> QED BY <1>0, <3>5, <3>6
  <2> QED BY <2>6, <2>7
<1>4. ASSUME NEW t \in Tokens, NEW at \in Times, TouchToken(t, at) PROVE UseInv'
  <2>1. /\ <<t, at>> \in touching /\ touching' = touching \ {<<t, at>>}
        /\ UNCHANGED <<now, throttle>>
    BY <1>4 DEF TouchToken
  <2>2. CASE lastUse' = AllLost
    BY <1>b, <2>1, <2>2 DEF Remembered
  <2>3. CASE lastUse' # AllLost
    <3>1. tokens' = [tokens EXCEPT ![t].used = at] /\ lastUse' = lastUse /\ ~ (tokens[t].used > at)
      BY <1>4, <2>3 DEF TouchToken
    <3>2. tokens'[t].used = at /\ \A u \in Tokens : u # t => tokens'[u] = tokens[u]
      BY <3>1, TokenFields DEF Inv, AccessTypeOK
    <3>3. tokens[t].used \in Times \cup {Never}
      BY DEF Inv, AccessTypeOK
    <3>4. throttle[t] # Never /\ at <= throttle[t]
      BY <2>1 DEF Remembered
    <3>5. ASSUME NEW u \in Tokens, throttle[u] # Never
          PROVE  tokens'[u].used = throttle[u] \/ <<u, throttle[u]>> \in touching'
      <4>1. tokens[u].used = throttle[u] \/ <<u, throttle[u]>> \in touching
        BY <2>3, <3>1, <3>5 DEF Remembered
      <4>2. CASE u = t /\ tokens[t].used = throttle[t]
        BY <1>a, <3>1, <3>2, <3>3, <3>4, <4>2 DEF Times, Never
      <4>3. CASE u = t /\ <<t, throttle[t]>> \in touching
        BY <2>1, <3>2, <4>3
      <4>4. CASE u # t
        BY <2>1, <3>2, <4>1, <4>4
      <4> QED BY <4>1, <4>2, <4>3, <4>4
    <3>6. ASSUME NEW u \in Tokens, lastUse[u] \notin {Never, Lost}
          PROVE  \E w \in Times : /\ w = tokens'[u].used \/ <<u, w>> \in touching'
                                  /\ lastUse[u] - w < TouchInterval
      <4>1. PICK w \in Times : /\ w = tokens[u].used \/ <<u, w>> \in touching
                              /\ lastUse[u] - w < TouchInterval
        BY <3>6 DEF LastUseIsKnown
      <4>2. CASE u = t /\ w = tokens[t].used
        <5>1. lastUse[t] \in Times /\ at >= w
          BY <1>a, <3>1, <3>6, <4>2 DEF Times
        <5>2. lastUse[t] - at < TouchInterval
          BY <4>1, <4>2, <5>1 DEF Times
        <5> QED BY <3>2, <4>2, <5>2
      <4>3. CASE u = t /\ <<t, w>> \in touching
        BY <2>1, <3>2, <4>1, <4>3
      <4>4. CASE u # t
        BY <2>1, <3>2, <4>1, <4>4
      <4> QED BY <4>1, <4>2, <4>3, <4>4
    <3>7. Remembered'
      BY <2>1, <2>3, <3>1, <3>5 DEF Remembered
    <3>8. LastUseIsKnown'
      BY <3>1, <3>6 DEF LastUseIsKnown
    <3> QED BY <1>0, <3>7, <3>8
  <2> QED BY <2>2, <2>3
<1>5. ASSUME UNCHANGED <<now, tokens, touchVars>> PROVE UseInv'
  BY <1>0, <1>5 DEF Remembered, LastUseIsKnown
<1>6. ASSUME RestartServer PROVE UseInv'
  <2>1. /\ throttle' = [t \in Tokens |-> Never] /\ touching' = {} /\ UNCHANGED <<now, tokens>>
        /\ \A t \in Tokens : throttle'[t] <= now
    BY <1>a, <1>6 DEF RestartServer, Times, Never
  <2>2. CASE lastUse' = AllLost
    BY <1>b, <2>1, <2>2
  <2>3. CASE lastUse' # AllLost
    <3>1. touching = {} /\ lastUse' = lastUse
      BY <1>6, <2>3 DEF RestartServer
    <3>2. LastUseIsKnown'
      BY <2>1, <3>1 DEF LastUseIsKnown
    <3>3. Remembered'
      BY <2>1, <2>3, <3>1 DEF Remembered
    <3> QED BY <1>0, <3>2, <3>3
  <2> QED BY <2>2, <2>3
<1>7. ASSUME Tick PROVE UseInv'
  <2>1. \A t \in Tokens : throttle[t] <= now + 1
    BY <1>a DEF Remembered, Times, Never
  <2> QED BY <1>0, <1>7, <2>1 DEF Tick, Remembered, LastUseIsKnown
<1> QED BY <1>1, <1>2, <1>3, <1>4, <1>5, <1>6, <1>7
        DEF AccessNext, Answer, BeginSession, CreateSession, DeleteSession, accessVars

(***************************************************************************)
(* last_used_at is at most one interval late, or being brought up to date, *)
(* whatever requests use the token together and whatever restarts in       *)
(* between, unless a TouchToken failed, died with its process or was held  *)
(* up past a later one (auth.go:258-268).                                  *)
(***************************************************************************)
THEOREM UseKnown == AccessSpec => []LastUseIsKnown
<1>1. UseInv => LastUseIsKnown
  BY DEF UseInv
<1> QED BY UseInit, UseStep, <1>1, PTL DEF AccessSpec

-----------------------------------------------------------------------------
(* Journal: where the recorder is, and what it has counted.                *)

RowStates == {"none", "QUEUED", "RUNNING", "ENDED", "FAILED"}

Pcs == {"emit", "create", "append", "check", "mirror", "finish", "steps", "checks", "values",
        "outcome", "over", "dead"}

Recording == [pc : Pcs, seq : Nat, checkSeq : Nat, i : Nat]

\* The checks among the first n events of a script.
Seen(s, n) == Cardinality({i \in 1 .. n : s[i] = "check"})

\* Before its first event a drill from a terminal has no row; the live checks
\* are counted as their events are.
Recorder ==
  /\ script \in Seq({"step", "check"}) /\ leased \in BOOLEAN
  /\ row \in RowStates /\ rec \in Recording
  /\ events \subseteq 1 .. rec.seq /\ rec.seq <= Len(script)
  /\ rec.pc \in {"emit", "create"} /\ ~leased /\ rec.seq = 0 => row = "none"
  /\ rec.pc = "create" => ~leased /\ rec.seq = 0
  /\ rec.pc \in {"create", "append"} => rec.seq < Len(script)
  /\ rec.pc \in {"emit", "create", "append", "mirror"} => rec.checkSeq = Seen(script, rec.seq)
  /\ rec.pc = "check" =>
       rec.seq > 0 /\ script[rec.seq] = "check" /\ rec.checkSeq = Seen(script, rec.seq - 1)
  /\ rec.pc = "mirror" => rec.seq > 0
  /\ rec.pc = "finish" => rec.seq = Len(script)

AllSteps == 0 .. Steps - 1
AllChecks == 0 .. NumChecks - 1

\* How far Finish has come, and with nothing lost, what it has written.
Written ==
  /\ stepRows \subseteq AllSteps /\ checkRows \subseteq AllChecks
  /\ rec.pc = "steps" => rec.i <= Steps
  /\ rec.pc = "checks" => rec.i <= NumChecks
  /\ rec.pc = "values" => rec.i < NumChecks
  /\ lost = {} =>
       /\ rec.pc = "steps" => 0 .. rec.i - 1 \subseteq stepRows
       /\ rec.pc \in {"checks", "values", "outcome", "over"} => stepRows = AllSteps
       /\ rec.pc = "checks" => 0 .. rec.i - 1 \subseteq checkRows
       /\ rec.pc = "values" => 0 .. rec.i \subseteq checkRows
       /\ rec.pc \in {"outcome", "over"} => checkRows = AllChecks
       /\ row = "ENDED" => stepRows = AllSteps /\ checkRows = AllChecks

\* What the page has loaded: an outcome, once there, is there for good.
Loaded ==
  /\ doc \in [at : {"none", "run", "steps", "whole"}, state : RowStates,
              steps : SUBSET Nat, checks : SUBSET Nat]
  /\ doc.state = "ENDED" => row = "ENDED"
  /\ doc.state = "ENDED" /\ lost = {} =>
       /\ doc.at \in {"steps", "whole"} => doc.steps = AllSteps
       /\ doc.at = "whole" => doc.checks = AllChecks

\* An open stream has sent what its page folded.
Following ==
  /\ stream \in [pc : {"closed", "poll", "read", "wait"}, after : Nat, state : RowStates]
  /\ view \in [frames : Seq(1 .. Len(script)), finished : BOOLEAN]
  /\ stream.pc # "closed" => stream.after = Last(view.frames)
  /\ Terminal(stream.state) => Terminal(row)

ReportInv == Recorder /\ Written /\ Loaded
StreamInv == Recorder /\ Following /\ StreamIsFaithful

LEMMA SeenIsCounted ==
  ASSUME script \in Seq({"step", "check"}), NEW n \in 0 .. Len(script)
  PROVE  /\ Seen(script, n) \in Nat /\ NumChecks \in Nat /\ Seen(script, n) <= NumChecks
         /\ n = 0 => Seen(script, n) = 0
         /\ n = Len(script) => Seen(script, n) = NumChecks
<1> DEFINE S == {i \in 1 .. n : script[i] = "check"}
           T == {i \in DOMAIN script : script[i] = "check"}
<1>1. DOMAIN script = 1 .. Len(script) /\ Len(script) \in Nat
  BY LenProperties
<1>2. T \in SUBSET (1 .. Len(script)) /\ S \in SUBSET T
  BY <1>1
<1>f. IsFiniteSet(1 .. Len(script))
  BY <1>1, FS_Interval
<1>3. IsFiniteSet(T)
  BY <1>f, <1>2, FS_Subset
<1>4. IsFiniteSet(S) /\ Cardinality(S) <= Cardinality(T)
  BY <1>2, <1>3, FS_Subset
<1>5. Cardinality(S) \in Nat /\ Cardinality(T) \in Nat
  BY <1>3, <1>4, FS_CardinalityType
<1>6. n = 0 => S = {}
  OBVIOUS
<1>7. n = Len(script) => S = T
  BY <1>1
<1>8. Seen(script, n) = Cardinality(S) /\ NumChecks = Cardinality(T)
  BY DEF Seen, NumChecks
<1> HIDE DEF S, T
<1> QED BY <1>4, <1>5, <1>6, <1>7, <1>8, FS_EmptySet

LEMMA SeenNext ==
  ASSUME script \in Seq({"step", "check"}), NEW n \in 1 .. Len(script)
  PROVE  Seen(script, n) = Seen(script, n - 1) + (IF script[n] = "check" THEN 1 ELSE 0)
<1> DEFINE S == {i \in 1 .. n - 1 : script[i] = "check"}
           T == {i \in 1 .. n : script[i] = "check"}
<1>1. Len(script) \in Nat
  BY LenProperties
<1>2. n - 1 \in Int /\ 1 \in Int /\ S \in SUBSET (1 .. n - 1)
  BY <1>1
<1>3. IsFiniteSet(S)
  BY <1>2, FS_Interval, FS_Subset
<1>4. n \notin S /\ T = IF script[n] = "check" THEN S \cup {n} ELSE S
  BY <1>1
<1>5. Seen(script, n - 1) = Cardinality(S) /\ Seen(script, n) = Cardinality(T)
  BY DEF Seen
<1>6. Cardinality(S) \in Nat
  BY <1>3, FS_CardinalityType
<1> HIDE DEF S, T
<1>7. CASE script[n] = "check"
  BY <1>3, <1>4, <1>5, <1>7, FS_AddElement
<1>8. CASE script[n] # "check"
  BY <1>4, <1>5, <1>6, <1>8
<1> QED BY <1>7, <1>8

LEMMA StepsType ==
  ASSUME script \in Seq({"step", "check"})
  PROVE  Steps \in Nat /\ NumChecks \in Nat
  BY JournalAssumption, SeenIsCounted, LenProperties DEF Steps

\* The record after each of the recorder's assignments to it.
LEMMA RecEdits ==
  ASSUME NEW r \in Recording, NEW p \in Pcs, NEW n \in Nat
  PROVE  /\ [r EXCEPT !.pc = p] = [pc |-> p, seq |-> r.seq, checkSeq |-> r.checkSeq, i |-> r.i]
         /\ [r EXCEPT !.i = n] = [pc |-> r.pc, seq |-> r.seq, checkSeq |-> r.checkSeq, i |-> n]
         /\ [r EXCEPT !.pc = p, !.i = n] =
              [pc |-> p, seq |-> r.seq, checkSeq |-> r.checkSeq, i |-> n]
         /\ [r EXCEPT !.seq = n, !.pc = p] =
              [pc |-> p, seq |-> n, checkSeq |-> r.checkSeq, i |-> r.i]
         /\ [r EXCEPT !.checkSeq = n, !.pc = p] =
              [pc |-> p, seq |-> r.seq, checkSeq |-> n, i |-> r.i]
         /\ r.pc \in Pcs /\ r.seq \in Nat /\ r.checkSeq \in Nat /\ r.i \in Nat
<1>1. r = [pc |-> r.pc, seq |-> r.seq, checkSeq |-> r.checkSeq, i |-> r.i]
  BY DEF Recording
<1>2. r.pc \in Pcs /\ r.seq \in Nat /\ r.checkSeq \in Nat /\ r.i \in Nat
  BY DEF Recording
<1>3. [r EXCEPT !.pc = p] = [pc |-> p, seq |-> r.seq, checkSeq |-> r.checkSeq, i |-> r.i]
  BY <1>1
<1>4. [r EXCEPT !.i = n] = [pc |-> r.pc, seq |-> r.seq, checkSeq |-> r.checkSeq, i |-> n]
  BY <1>1
<1>a. [r EXCEPT !.seq = n] = [pc |-> r.pc, seq |-> n, checkSeq |-> r.checkSeq, i |-> r.i]
  BY <1>1
<1>b. [r EXCEPT !.checkSeq = n] = [pc |-> r.pc, seq |-> r.seq, checkSeq |-> n, i |-> r.i]
  BY <1>1
<1>5. [r EXCEPT !.pc = p, !.i = n] = [pc |-> p, seq |-> r.seq, checkSeq |-> r.checkSeq, i |-> n]
  <2> DEFINE q == [r EXCEPT !.pc = p]
  <2>1. q = [pc |-> p, seq |-> r.seq, checkSeq |-> r.checkSeq, i |-> r.i]
    BY <1>3
  <2> HIDE DEF q
  <2>2. [q EXCEPT !.i = n] = [pc |-> p, seq |-> r.seq, checkSeq |-> r.checkSeq, i |-> n]
    BY <2>1
  <2> QED BY <2>2 DEF q
<1>6. [r EXCEPT !.seq = n, !.pc = p] = [pc |-> p, seq |-> n, checkSeq |-> r.checkSeq, i |-> r.i]
  <2> DEFINE q == [r EXCEPT !.seq = n]
  <2>1. q = [pc |-> r.pc, seq |-> n, checkSeq |-> r.checkSeq, i |-> r.i]
    BY <1>a
  <2> HIDE DEF q
  <2>2. [q EXCEPT !.pc = p] = [pc |-> p, seq |-> n, checkSeq |-> r.checkSeq, i |-> r.i]
    BY <2>1
  <2> QED BY <2>2 DEF q
<1>7. [r EXCEPT !.checkSeq = n, !.pc = p] =
        [pc |-> p, seq |-> r.seq, checkSeq |-> n, i |-> r.i]
  <2> DEFINE q == [r EXCEPT !.checkSeq = n]
  <2>1. q = [pc |-> r.pc, seq |-> r.seq, checkSeq |-> n, i |-> r.i]
    BY <1>b
  <2> HIDE DEF q
  <2>2. [q EXCEPT !.pc = p] = [pc |-> p, seq |-> r.seq, checkSeq |-> n, i |-> r.i]
    BY <2>1
  <2> QED BY <2>2 DEF q
<1> QED BY <1>2, <1>3, <1>4, <1>5, <1>6, <1>7

\* A write has its effect on a row that is there, or is counted as lost.
LEMMA WritesOrLoses ==
  ASSUME NEW table, NEW effect, NEW none, Writes(table, effect, none)
  PROVE  \/ effect /\ lost' = lost
         \/ none /\ lost' = lost \cup {table} /\ lost' # {}
  BY DEF Writes, Fault

LEMMA RecorderInit == JournalInit => Recorder /\ Written /\ Loaded
<1> SUFFICES ASSUME JournalInit PROVE Recorder /\ Written /\ Loaded
  OBVIOUS
<1>1. script \in Seq({"step", "check"}) /\ Len(script) \in Nat
  BY JournalAssumption, LenProperties DEF JournalInit
<1>2. Seen(script, 0) = 0 /\ Steps \in Nat /\ NumChecks \in Nat
  BY <1>1, SeenIsCounted, StepsType
<1>3. Recorder
  BY <1>1, <1>2 DEF JournalInit, Recorder, Recording, Pcs, RowStates
<1>4. Written
  BY <1>2 DEF JournalInit, Written, AllSteps, AllChecks
<1>5. Loaded
  BY DEF JournalInit, Loaded, NoDoc, RowStates
<1> QED BY <1>3, <1>4, <1>5

\* What a step may do to the recorder, action by action.
LEMMA RecorderStep ==
  ASSUME Recorder, [JournalNext]_journalVars
  PROVE  Recorder'
<1> USE DEF Recorder, Recording, Pcs, RowStates, setting, tables, readers, At, Terminal
<1>0. script \in Seq({"step", "check"}) /\ Len(script) \in Nat
  BY LenProperties
<1>1. CASE Emit
  BY <1>0, <1>1 DEF Emit
<1>2. CASE CreateRun
  BY <1>0, <1>2 DEF CreateRun
<1>3. CASE AppendEvent
  <2> DEFINE n == rec.seq + 1
  <2>1. /\ n \in 1 .. Len(script) /\ n - 1 = rec.seq
        /\ Seen(script, n) = Seen(script, rec.seq) + (IF script[n] = "check" THEN 1 ELSE 0)
    BY <1>0, <1>3, SeenNext DEF AppendEvent
  <2>2. events' \subseteq events \cup {n}
    BY <1>3, WritesOrLoses DEF AppendEvent
  <2>3. Seen(script, rec.seq) \in Nat
    BY <1>0, SeenIsCounted
  <2>4. script[n] \in {"step", "check"}
    BY <2>1, <1>0, ElementOfSeq
  <2>5. /\ script' = script /\ leased' = leased /\ row' = row /\ rec.checkSeq = Seen(script, rec.seq)
        /\ rec' = [rec EXCEPT !.seq = n, !.pc = IF script[n] = "check" THEN "check" ELSE "mirror"]
    BY <1>3 DEF AppendEvent
  <2>6. rec' = [pc |-> IF script[n] = "check" THEN "check" ELSE "mirror", seq |-> n,
                checkSeq |-> rec.checkSeq, i |-> rec.i]
    BY <2>1, <2>5, RecEdits DEF Pcs
  <2> HIDE DEF n
  <2>7. /\ rec'.seq = n /\ rec'.checkSeq = Seen(script, rec.seq) /\ rec' \in Recording
        /\ rec'.pc = IF script[n] = "check" THEN "check" ELSE "mirror"
    <3>1. n \in Nat /\ rec.checkSeq \in Nat /\ rec.i \in Nat
      BY <1>0, <2>1
    <3> QED BY <2>5, <2>6, <3>1
  <2>8. events' \subseteq 1 .. rec'.seq /\ rec'.seq <= Len(script')
    BY <1>0, <2>1, <2>2, <2>5, <2>7
  <2>9. rec'.pc = "check" => rec'.checkSeq = Seen(script', rec'.seq - 1)
    BY <2>1, <2>5, <2>7
  <2>10. rec'.pc = "mirror" => rec'.checkSeq = Seen(script', rec'.seq)
    BY <2>1, <2>3, <2>5, <2>7
  <2> QED BY <1>0, <2>1, <2>5, <2>7, <2>8, <2>9, <2>10
<1>4. CASE SaveLiveCheck
  <2>1. Seen(script, rec.seq) = Seen(script, rec.seq - 1) + 1 /\ rec.seq \in 1 .. Len(script)
    BY <1>0, <1>4, SeenNext DEF SaveLiveCheck
  <2>2. /\ script' = script /\ leased' = leased /\ row' = row /\ events' = events
        /\ rec' = [rec EXCEPT !.checkSeq = rec.checkSeq + 1, !.pc = "mirror"]
        /\ rec.checkSeq = Seen(script, rec.seq - 1)
    BY <1>4 DEF SaveLiveCheck
  <2>3. rec' = [pc |-> "mirror", seq |-> rec.seq, checkSeq |-> rec.checkSeq + 1, i |-> rec.i]
    BY <2>2, RecEdits DEF Pcs
  <2> QED BY <1>0, <2>1, <2>2, <2>3 DEF Pcs
<1>5. CASE MirrorState
  <2>1. /\ script' = script /\ leased' = leased /\ row' \in RowStates /\ events' = events
        /\ rec' = [rec EXCEPT !.pc = "emit"] /\ rec.checkSeq = Seen(script, rec.seq) /\ rec.seq > 0
    BY <1>5 DEF MirrorState
  <2> QED BY <1>0, <2>1
<1>6. CASE Finish
  <2>1. /\ script' = script /\ leased' = leased /\ row' \in RowStates /\ events' = events
        /\ rec' = [rec EXCEPT !.pc = "steps", !.i = 0] \/ At("over")
    BY <1>6 DEF Finish
  <2>2. CASE rec' = [rec EXCEPT !.pc = "steps", !.i = 0]
    <3>1. rec' = [pc |-> "steps", seq |-> rec.seq, checkSeq |-> rec.checkSeq, i |-> 0]
      BY <2>2, RecEdits
    <3> QED BY <1>0, <2>1, <3>1
  <2>3. CASE At("over")
    BY <1>0, <2>1, <2>3
  <2> QED BY <2>1, <2>2, <2>3
<1>7. CASE SaveStep
  <2>1. /\ script' = script /\ leased' = leased /\ row' = row /\ events' = events
    BY <1>7 DEF SaveStep
  <2>2. rec' = [rec EXCEPT !.i = rec.i + 1] \/ rec' = [rec EXCEPT !.pc = "checks", !.i = 0]
    BY <1>7, WritesOrLoses DEF SaveStep
  <2>3. CASE rec' = [rec EXCEPT !.i = rec.i + 1]
    BY <1>0, <1>7, <2>1, <2>3 DEF SaveStep
  <2>4. CASE rec' = [rec EXCEPT !.pc = "checks", !.i = 0]
    <3>1. rec' = [pc |-> "checks", seq |-> rec.seq, checkSeq |-> rec.checkSeq, i |-> 0]
      BY <2>4, RecEdits
    <3> QED BY <1>0, <2>1, <3>1
  <2> QED BY <2>2, <2>3, <2>4
<1>8. CASE SaveCheck
  <2>1. /\ script' = script /\ leased' = leased /\ row' = row /\ events' = events
    BY <1>8 DEF SaveCheck
  <2>2. At("values") \/ At("outcome")
    BY <1>8, WritesOrLoses DEF SaveCheck
  <2>3. rec' \in Recording /\ rec'.seq = rec.seq /\ rec'.pc \in {"values", "outcome"}
    BY <2>2
  <2> QED BY <1>0, <2>1, <2>3
<1>9. CASE SaveCheckValue
  <2>1. /\ script' = script /\ leased' = leased /\ row' = row /\ events' = events
        /\ rec' = [rec EXCEPT !.pc = "checks", !.i = rec.i + 1]
    BY <1>9 DEF SaveCheckValue
  <2>2. rec' = [pc |-> "checks", seq |-> rec.seq, checkSeq |-> rec.checkSeq, i |-> rec.i + 1]
    BY <2>1, RecEdits
  <2> QED BY <1>0, <2>1, <2>2
<1>10. CASE UpdateRun
  <2>1. /\ script' = script /\ leased' = leased /\ row' \in RowStates /\ events' = events
    BY <1>10, WritesOrLoses DEF UpdateRun
  <2>2. rec' \in Recording /\ rec'.seq = rec.seq /\ rec'.pc = "over"
    BY <1>10 DEF UpdateRun
  <2> QED BY <1>0, <2>1, <2>2
<1>11. CASE Kill
  BY <1>0, <1>11 DEF Kill
<1>12. CASE Reconcile
  BY <1>0, <1>12 DEF Reconcile
<1>13. CASE UNCHANGED <<setting, row, tables, rec, lost>>
  BY <1>13
<1> QED
  BY <1>1, <1>2, <1>3, <1>4, <1>5, <1>6, <1>7, <1>8, <1>9, <1>10, <1>11, <1>12, <1>13
  DEF JournalNext, Record, Follow, OpenStream, Poll, ReadState, Wait, Drain, Resume, GetRun, journalVars

LEMMA WrittenStep ==
  ASSUME Recorder, Written, [JournalNext]_journalVars
  PROVE  Written'
<1> USE DEF Written, setting, tables, readers, At
<1>0. /\ script \in Seq({"step", "check"}) /\ Len(script) \in Nat /\ rec \in Recording
      /\ Steps \in Nat /\ NumChecks \in Nat
  BY LenProperties, StepsType DEF Recorder
<1>e. ASSUME NEW p \in {"steps", "checks"}, rec' = [rec EXCEPT !.pc = p, !.i = 0]
      PROVE  rec'.pc = p /\ rec'.i = 0
  <2>1. CASE p = "steps"
    <3>1. rec' = [pc |-> "steps", seq |-> rec.seq, checkSeq |-> rec.checkSeq, i |-> 0]
      BY <1>0, <1>e, <2>1, RecEdits DEF Pcs
    <3> QED BY <2>1, <3>1
  <2>2. CASE p = "checks"
    <3>1. rec' = [pc |-> "checks", seq |-> rec.seq, checkSeq |-> rec.checkSeq, i |-> 0]
      BY <1>0, <1>e, <2>2, RecEdits DEF Pcs
    <3> QED BY <2>2, <3>1
  <2> QED BY <2>1, <2>2
<1>i. rec.i \in Nat /\ rec.seq \in Nat
  BY <1>0 DEF Recording
<1>u. ASSUME script' = script
      PROVE  AllSteps' = AllSteps /\ AllChecks' = AllChecks /\ Steps' = Steps /\ NumChecks' = NumChecks
  BY <1>u DEF AllSteps, AllChecks, Steps, NumChecks
<1>1. CASE Emit
  BY <1>0, <1>1, <1>u DEF Emit, Recording
<1>2. CASE CreateRun
  BY <1>0, <1>2, <1>u DEF CreateRun, Recording, Fault
<1>3. CASE AppendEvent
  <2>1. rec'.pc \in {"check", "mirror"} /\ row' = row /\ lost \subseteq lost'
    BY <1>0, <1>3, WritesOrLoses DEF AppendEvent, Recording
  <2> QED BY <1>3, <1>u, <2>1 DEF AppendEvent
<1>4. CASE SaveLiveCheck
  <2>1. rec'.pc = "mirror" /\ row' = row /\ lost \subseteq lost'
    BY <1>0, <1>4, WritesOrLoses DEF SaveLiveCheck, Recording
  <2>2. rec.checkSeq \in AllChecks
    <3>1. /\ rec.seq \in 1 .. Len(script) /\ rec.checkSeq = Seen(script, rec.seq - 1)
          /\ Seen(script, rec.seq) = Seen(script, rec.seq - 1) + 1
      BY <1>0, <1>4, <1>i, SeenNext DEF SaveLiveCheck, Recorder
    <3>2. Seen(script, rec.seq) <= NumChecks /\ Seen(script, rec.seq - 1) \in Nat
      BY <1>0, <3>1, SeenIsCounted
    <3> QED BY <1>0, <3>1, <3>2 DEF AllChecks
  <2>4. checkRows' = checkRows \cup {rec.checkSeq} \/ checkRows' = checkRows
    BY <1>4, WritesOrLoses DEF SaveLiveCheck
  <2>3. checkRows \subseteq checkRows' /\ checkRows' \subseteq AllChecks
    BY <2>2, <2>4
  <2> QED BY <1>4, <1>u, <2>1, <2>3 DEF SaveLiveCheck
<1>5. CASE MirrorState
  BY <1>0, <1>5, <1>u DEF MirrorState, Recording, Terminal
<1>6. CASE Finish
  <2>1. CASE ~leased /\ rec.seq = 0
    <3>1. Len(script) = 0 /\ script = <<>>
      BY <1>0, <1>6, <2>1, EmptySeq DEF Finish, Recorder
    <3>2. Steps = 0 /\ NumChecks = 0
      BY <1>0, <3>1, SeenIsCounted DEF Steps
    <3>3. AllSteps = {} /\ AllChecks = {}
      BY <3>2 DEF AllSteps, AllChecks
    <3>4. rec' = [rec EXCEPT !.pc = "steps", !.i = 0] => rec'.pc = "steps" /\ rec'.i = 0
      BY <1>e DEF Pcs
    <3>5. At("over") => rec'.pc = "over" /\ rec'.i = rec.i
      BY <1>0 DEF Recording
    <3>6. /\ script' = script /\ stepRows' = stepRows /\ checkRows' = checkRows
          /\ stepRows = AllSteps /\ checkRows = AllChecks
      BY <1>6, <3>3 DEF Finish
    <3>7. \/ rec'.pc = "steps" /\ rec'.i = 0
          \/ rec'.pc = "over" /\ lost' # {}
      BY <1>6, <2>1, <3>4, <3>5 DEF Finish
    <3> QED BY <1>0, <1>u, <3>2, <3>6, <3>7
  <2>2. CASE ~(~leased /\ rec.seq = 0)
    <3>1. rec'.pc = "steps" /\ rec'.i = 0
      BY <1>6, <1>e, <2>2 DEF Finish, Pcs
    <3> QED BY <1>0, <1>6, <1>u, <2>2, <3>1 DEF Finish
  <2> QED BY <2>1, <2>2
<1>7. CASE SaveStep
  <2>1. CASE rec.i = Steps
    <3>1. lost = {} => stepRows = AllSteps
      BY <1>0, <1>7, <2>1 DEF SaveStep, AllSteps
    <3>2. rec'.pc = "checks" /\ rec'.i = 0
      BY <1>7, <1>e, <2>1 DEF SaveStep, Pcs
    <3> QED BY <1>0, <1>7, <1>u, <2>1, <3>1, <3>2 DEF SaveStep
  <2>2. CASE rec.i # Steps
    <3>1. rec.i \in AllSteps /\ rec.i + 1 <= Steps
      BY <1>0, <1>i, <1>7, <2>2 DEF SaveStep, AllSteps
    <3>2. CASE stepRows' = stepRows \cup {rec.i} /\ rec' = [rec EXCEPT !.i = @ + 1] /\ lost' = lost
      BY <1>0, <1>i, <1>7, <1>u, <3>1, <3>2 DEF SaveStep, Recording
    <3>3. CASE stepRows' = stepRows /\ rec' = [rec EXCEPT !.pc = "checks", !.i = 0] /\ lost' # {}
      BY <1>0, <1>7, <1>u, <3>3 DEF SaveStep, Recording
    <3> QED BY <1>7, <2>2, <3>2, <3>3, WritesOrLoses DEF SaveStep
  <2> QED BY <2>1, <2>2
<1>8. CASE SaveCheck
  <2>1. CASE rec.i = NumChecks
    <3>1. lost = {} => checkRows = AllChecks
      BY <1>0, <1>8, <2>1 DEF SaveCheck, AllChecks
    <3> QED BY <1>0, <1>8, <1>u, <2>1, <3>1 DEF SaveCheck, Recording
  <2>2. CASE rec.i # NumChecks
    <3>1. rec.i \in AllChecks /\ rec.i < NumChecks
      BY <1>0, <1>i, <1>8, <2>2 DEF SaveCheck, AllChecks
    <3>2. CASE checkRows' = checkRows \cup {rec.i} /\ At("values") /\ lost' = lost
      BY <1>0, <1>i, <1>8, <1>u, <3>1, <3>2 DEF SaveCheck, Recording
    <3>3. CASE checkRows' = checkRows /\ At("outcome") /\ lost' # {}
      BY <1>0, <1>8, <1>u, <3>3 DEF SaveCheck, Recording
    <3> QED BY <1>8, <2>2, <3>2, <3>3, WritesOrLoses DEF SaveCheck
  <2> QED BY <2>1, <2>2
<1>9. CASE SaveCheckValue
  <2>1. lost' = {} => lost = {}
    BY <1>9, WritesOrLoses DEF SaveCheckValue
  <2>2. rec'.pc = "checks" /\ rec'.i = rec.i + 1 /\ rec.i + 1 - 1 = rec.i /\ rec.pc = "values"
    BY <1>0, <1>i, <1>9 DEF SaveCheckValue, Recording
  <2> QED BY <1>0, <1>i, <1>9, <1>u, <2>1, <2>2 DEF SaveCheckValue
<1>10. CASE UpdateRun
  BY <1>0, <1>10, <1>u, WritesOrLoses DEF UpdateRun, Recording
<1>11. CASE Kill
  BY <1>0, <1>11, <1>u DEF Kill, Recording
<1>12. CASE Reconcile
  BY <1>12, <1>u DEF Reconcile
<1>13. CASE UNCHANGED <<setting, row, tables, rec, lost>>
  BY <1>13, <1>u
<1> QED
  BY <1>1, <1>2, <1>3, <1>4, <1>5, <1>6, <1>7, <1>8, <1>9, <1>10, <1>11, <1>12, <1>13
  DEF JournalNext, Record, Follow, OpenStream, Poll, ReadState, Wait, Drain, Resume, GetRun, journalVars

\* An outcome once written stands, and what was lost stays lost.
LEMMA RowStands ==
  ASSUME Recorder, [JournalNext]_journalVars
  PROVE  /\ row = "ENDED" => row' = "ENDED"
         /\ Terminal(row) => Terminal(row')
         /\ lost' = {} => lost = {}
         /\ script' = script
<1> USE DEF Recorder, setting, Terminal
<1>1. CASE CreateRun
  BY <1>1 DEF CreateRun
<1>2. CASE AppendEvent
  BY <1>2, WritesOrLoses DEF AppendEvent
<1>3. CASE SaveLiveCheck
  BY <1>3, WritesOrLoses DEF SaveLiveCheck
<1>4. CASE MirrorState
  BY <1>4 DEF MirrorState
<1>5. CASE Finish
  BY <1>5 DEF Finish
<1>6. CASE SaveStep
  BY <1>6, WritesOrLoses DEF SaveStep
<1>7. CASE SaveCheck
  BY <1>7, WritesOrLoses DEF SaveCheck
<1>8. CASE SaveCheckValue
  BY <1>8, WritesOrLoses DEF SaveCheckValue
<1>9. CASE UpdateRun
  BY <1>9, WritesOrLoses DEF UpdateRun
<1>10. CASE Reconcile
  BY <1>10 DEF Reconcile
<1>11. CASE UNCHANGED <<setting, row, lost>>
  BY <1>11
<1> QED
  BY <1>1, <1>2, <1>3, <1>4, <1>5, <1>6, <1>7, <1>8, <1>9, <1>10, <1>11
  DEF JournalNext, Record, Emit, Kill, Follow, OpenStream, Poll, ReadState, Wait, Drain, Resume,
      GetRun, journalVars

\* Who reads a document.
LEMMA WhoLoads ==
  ASSUME [JournalNext]_journalVars
  PROVE  GetRun \/ doc' = doc
  BY DEF JournalNext, Record, Emit, CreateRun, AppendEvent, SaveLiveCheck, MirrorState, Finish,
         SaveStep, SaveCheck, SaveCheckValue, UpdateRun, Kill, Reconcile, Follow, OpenStream, Poll,
         ReadState, Wait, Drain, Resume, readers, journalVars

LEMMA LoadedStep ==
  ASSUME Recorder, Written, Loaded, [JournalNext]_journalVars
  PROVE  Loaded'
<1> DEFINE Docs == [at : {"none", "run", "steps", "whole"}, state : RowStates,
                    steps : SUBSET Nat, checks : SUBSET Nat]
<1>0. AllSteps' = AllSteps /\ AllChecks' = AllChecks
  BY RowStands DEF AllSteps, AllChecks, Steps, NumChecks
<1>1. CASE doc' = doc
  BY <1>0, <1>1, RowStands DEF Loaded
<1>2. CASE GetRun
  <2>1. /\ doc \in Docs /\ row \in RowStates /\ row' = row /\ lost' = lost
        /\ stepRows \in SUBSET Nat /\ checkRows \in SUBSET Nat
    BY <1>2 DEF Loaded, Recorder, Written, AllSteps, AllChecks, GetRun, tables
  <2>2. CASE doc' = [NoDoc EXCEPT !.at = "run", !.state = row]
    <3>1. doc' = [at |-> "run", state |-> row, steps |-> {}, checks |-> {}]
      BY <2>2 DEF NoDoc
    <3> QED BY <2>1, <3>1 DEF Loaded
  <2>3. CASE doc.at = "run" /\ doc' = [doc EXCEPT !.at = "steps", !.steps = LoadSteps]
    <3>1. doc' = [at |-> "steps", state |-> doc.state, steps |-> stepRows, checks |-> doc.checks]
      BY <2>1, <2>3 DEF LoadSteps
    <3>2. doc.state = "ENDED" => row = "ENDED"
      BY DEF Loaded
    <3>3. row = "ENDED" /\ lost = {} => stepRows = AllSteps
      BY DEF Written
    <3> QED BY <1>0, <2>1, <3>1, <3>2, <3>3 DEF Loaded
  <2>4. CASE doc.at = "steps" /\ doc' = [doc EXCEPT !.at = "whole", !.checks = LoadChecks]
    <3>1. doc' = [at |-> "whole", state |-> doc.state, steps |-> doc.steps, checks |-> checkRows]
      BY <2>1, <2>4 DEF LoadChecks
    <3>2. /\ doc.state = "ENDED" => row = "ENDED"
          /\ doc.state = "ENDED" /\ lost = {} => doc.steps = AllSteps
      BY <2>4 DEF Loaded
    <3>3. row = "ENDED" /\ lost = {} => checkRows = AllChecks
      BY DEF Written
    <3> QED BY <1>0, <2>1, <3>1, <3>2, <3>3 DEF Loaded
  <2> QED BY <1>2, <2>2, <2>3, <2>4 DEF GetRun
<1> QED BY <1>1, <1>2, WhoLoads

(***************************************************************************)
(* For any scripts, any number of steps and any faults: a document read in *)
(* three queries while the recorder writes shows, when it shows the        *)
(* drill's outcome, every step and every check, unless a write failed      *)
(* (journal.go, Finish; runs.go, GetRun).                                  *)
(***************************************************************************)
THEOREM ReportsAreWhole == JournalSpec => []ReportIsWhole
<1>1. JournalInit => ReportInv
  BY RecorderInit DEF ReportInv
<1>2. ReportInv /\ [JournalNext]_journalVars => ReportInv'
  BY RecorderStep, WrittenStep, LoadedStep DEF ReportInv
<1>3. ReportInv => ReportIsWhole
  BY DEF ReportInv, Loaded, ReportIsWhole, AllSteps, AllChecks
<1> QED BY <1>1, <1>2, <1>3, PTL DEF JournalSpec

-----------------------------------------------------------------------------
(* Journal: what a page folds.                                             *)

\* A frame's place among the fresh ones; Fold lays them out by it.
Place(fresh, n) == Cardinality({m \in fresh : m <= n})

LEMMA PlacesAreRanks ==
  ASSUME NEW fresh \in SUBSET Nat, IsFiniteSet(fresh)
  PROVE  /\ Cardinality(fresh) \in Nat
         /\ \A n \in fresh : Place(fresh, n) \in 1 .. Cardinality(fresh)
         /\ \A n, m \in fresh : n < m => Place(fresh, n) < Place(fresh, m)
         /\ \A k \in 1 .. Cardinality(fresh) : \E n \in fresh : Place(fresh, n) = k
<1> DEFINE Upto(n) == {m \in fresh : m <= n}
           card == Cardinality(fresh)
<1>0. card \in Nat
  BY FS_CardinalityType
<1>1. ASSUME NEW n \in fresh
      PROVE  /\ IsFiniteSet(Upto(n)) /\ Cardinality(Upto(n)) \in Nat /\ Cardinality(Upto(n)) <= card
             /\ Cardinality(Upto(n)) # 0
  <2>1. Upto(n) \in SUBSET fresh /\ n \in Upto(n)
    OBVIOUS
  <2>2. IsFiniteSet(Upto(n)) /\ Cardinality(Upto(n)) <= card
    BY <2>1, FS_Subset
  <2> QED BY <2>1, <2>2, FS_CardinalityType, FS_EmptySet
<1>2. ASSUME NEW n \in fresh PROVE Place(fresh, n) \in 1 .. card
  BY <1>0, <1>1 DEF Place
<1>3. ASSUME NEW n \in fresh, NEW m \in fresh, n < m
      PROVE  Place(fresh, n) < Place(fresh, m)
  <2>1. n \in Nat /\ m \in Nat /\ n < m
    BY <1>3
  <2>0. \A x \in fresh : x \in Nat /\ (x <= n => x <= m)
    BY <2>1
  <2>3. Upto(n) \in SUBSET Upto(m)
    BY <2>0
  <2>4. m \in Upto(m) /\ m \notin Upto(n)
    BY <2>1
  <2>2. Cardinality(Upto(n)) <= Cardinality(Upto(m)) /\ Cardinality(Upto(n)) # Cardinality(Upto(m))
    BY <1>1, <2>3, <2>4, FS_Subset
  <2> QED BY <1>1, <2>2 DEF Place
<1>4. ASSUME NEW k \in 1 .. card PROVE \E n \in fresh : Place(fresh, n) = k
  <2> DEFINE f == [n \in fresh |-> Place(fresh, n)]
  <2>1. f \in [fresh -> 1 .. card]
    BY <1>2
  <2>2. \A n, m \in fresh : n # m => f[n] # f[m]
    <3> SUFFICES ASSUME NEW n \in fresh, NEW m \in fresh, n # m PROVE f[n] # f[m]
      OBVIOUS
    <3>1. n < m \/ m < n
      OBVIOUS
    <3>2. f[n] \in Nat /\ f[m] \in Nat
      BY <1>2
    <3> QED BY <1>3, <3>1, <3>2
  <2> HIDE DEF f
  <2>3. f \in Injection(fresh, 1 .. card)
    BY <2>1, <2>2 DEF Injection, IsInjective
  <2>4. IsFiniteSet(1 .. card) /\ Cardinality(1 .. card) = card
    BY <1>0, FS_Interval
  <2>5. f \in Surjection(fresh, 1 .. card)
    BY <2>3, <2>4, FS_Injection
  <2>6. \E n \in fresh : f[n] = k
    BY <2>5 DEF Surjection
  <2> QED BY <2>6 DEF f
<1> QED BY <1>0, <1>2, <1>3, <1>4

\* The longer sequence holds the frames and the fresh ones, once and in order.
Appended(frames, fresh, longer) ==
  /\ \A i, j \in DOMAIN longer : i < j => longer[i] < longer[j]
  /\ {longer[i] : i \in DOMAIN longer} = {frames[i] : i \in DOMAIN frames} \cup fresh
  /\ Last(longer) \in fresh \cup {Last(frames)}
  /\ \A n \in fresh \cup {Last(frames)} : n <= Last(longer)

LEMMA FoldAppends ==
  ASSUME NEW N \in Nat, NEW frames \in Seq(1 .. N), NEW seqs \in SUBSET (1 .. N),
         \A i, j \in DOMAIN frames : i < j => frames[i] < frames[j]
  PROVE  /\ Fold(frames, seqs) \in Seq(1 .. N)
         /\ Appended(frames, {n \in seqs : n > Last(frames)}, Fold(frames, seqs))
<1> DEFINE fresh == {n \in seqs : n > Last(frames)}
           len == Len(frames)
           card == Cardinality(fresh)
           Sel(k) == CHOOSE n \in fresh : Place(fresh, n) = k
           tail == [k \in 1 .. card |-> Sel(k)]
           folded == Fold(frames, seqs)
<1>1. /\ len \in Nat /\ DOMAIN frames = 1 .. len /\ \A i \in 1 .. len : frames[i] \in 1 .. N
      /\ frames = <<>> <=> len = 0
  BY LenProperties, ElementOfSeq, EmptySeq
<1>2. /\ Last(frames) \in 0 .. N
      /\ \A i \in 1 .. len : frames[i] <= Last(frames)
      /\ len # 0 => Last(frames) = frames[len]
      /\ len = 0 => Last(frames) = 0
  <2>1. CASE len = 0
    BY <1>1, <2>1 DEF Last
  <2>2. CASE len # 0
    <3>1. Last(frames) = frames[len] /\ len \in 1 .. len
      BY <1>1, <2>2 DEF Last
    <3>2. ASSUME NEW i \in 1 .. len PROVE frames[i] <= frames[len]
      <4>0. len \in Nat /\ frames[len] \in Nat
        BY <1>1, <3>1
      <4>1. i = len \/ i < len
        BY <4>0
      <4>2. i \in DOMAIN frames /\ len \in DOMAIN frames /\ frames[i] \in Nat
        BY <1>1, <3>1
      <4>3. i < len => frames[i] < frames[len]
        BY <4>2
      <4> QED BY <4>0, <4>1, <4>2, <4>3
    <3> QED BY <1>1, <2>2, <3>1, <3>2
  <2> QED BY <2>1, <2>2
<1>3. fresh \in SUBSET Nat /\ fresh \in SUBSET (1 .. N)
  <2>1. 1 .. N \subseteq Nat
    OBVIOUS
  <2> QED BY <2>1
<1>4. IsFiniteSet(fresh)
  <2>1. IsFiniteSet(1 .. N)
    BY FS_Interval
  <2> QED BY <1>3, <2>1, FS_Subset
<1>5. /\ card \in Nat
      /\ \A n \in fresh : Place(fresh, n) \in 1 .. card
      /\ \A n, m \in fresh : n < m => Place(fresh, n) < Place(fresh, m)
      /\ \A k \in 1 .. card : \E n \in fresh : Place(fresh, n) = k
  BY <1>3, <1>4, PlacesAreRanks
<1>6. ASSUME NEW k \in 1 .. card PROVE Sel(k) \in fresh /\ Place(fresh, Sel(k)) = k
  BY <1>5
<1>7. folded = frames \o tail
  BY DEF Fold, Place
<1> HIDE DEF fresh, card, Sel, folded
<1>8. tail \in Seq(1 .. N) /\ Len(tail) = card /\ \A k \in 1 .. card : tail[k] = Sel(k)
  <2>1. \A k \in 1 .. card : Sel(k) \in 1 .. N
    BY <1>3, <1>6
  <2> QED BY <1>5, <2>1
<1> HIDE DEF tail
<1>9. /\ folded \in Seq(1 .. N) /\ Len(folded) = len + card
      /\ \A i \in 1 .. len : folded[i] = frames[i]
      /\ \A i \in len + 1 .. len + card : folded[i] = Sel(i - len)
  <2>1. folded \in Seq(1 .. N) /\ Len(folded) = len + card
    BY <1>7, <1>8, ConcatProperties
  <2>2. \A i \in 1 .. len + card : folded[i] = IF i <= len THEN frames[i] ELSE tail[i - len]
    BY <1>7, <1>8, ConcatProperties
  <2>3. ASSUME NEW i \in len + 1 .. len + card PROVE folded[i] = Sel(i - len)
    <3>1. i - len \in 1 .. card /\ i \in 1 .. len + card /\ ~(i <= len)
      BY <1>1, <1>5
    <3> QED BY <1>8, <2>2, <3>1
  <2> QED BY <1>1, <1>5, <2>1, <2>2, <2>3
<1>10. DOMAIN folded = 1 .. len + card
  BY <1>9, LenProperties
<1>11. ASSUME NEW k \in 1 .. card, NEW l \in 1 .. card, k < l PROVE Sel(k) < Sel(l)
  <2>1. Sel(k) \in Nat /\ Sel(l) \in Nat /\ Sel(k) \in fresh /\ Sel(l) \in fresh
    BY <1>3, <1>6
  <2>2. Place(fresh, Sel(k)) = k /\ Place(fresh, Sel(l)) = l
    BY <1>6
  <2> QED BY <1>5, <1>11, <2>1, <2>2
<1>12. ASSUME NEW n \in fresh PROVE n \in Nat /\ n > Last(frames) /\ n \in seqs
  BY DEF fresh
<1>13. ASSUME NEW i \in DOMAIN folded, NEW j \in DOMAIN folded, i < j PROVE folded[i] < folded[j]
  <2>1. CASE j \in 1 .. len
    <3>1. i \in 1 .. len
      BY <1>1, <1>5, <1>10, <1>13, <2>1
    <3> QED BY <1>1, <1>9, <1>13, <2>1, <3>1
  <2>2. CASE i \in 1 .. len /\ j \in len + 1 .. len + card
    <3>0. j - len \in 1 .. card
      BY <1>1, <1>5, <2>2
    <3>1. folded[i] = frames[i] /\ folded[j] = Sel(j - len) /\ j - len \in 1 .. card
      BY <1>9, <2>2, <3>0
    <3>2. frames[i] <= Last(frames) /\ Sel(j - len) \in fresh /\ frames[i] \in Nat
      BY <1>1, <1>2, <1>6, <2>2, <3>1
    <3> QED BY <1>2, <1>12, <3>1, <3>2
  <2>3. CASE i \in len + 1 .. len + card /\ j \in len + 1 .. len + card
    <3>1. i - len \in 1 .. card /\ j - len \in 1 .. card /\ i - len < j - len
      BY <1>1, <1>5, <1>13, <2>3
    <3>2. folded[i] = Sel(i - len) /\ folded[j] = Sel(j - len)
      BY <1>9, <2>3
    <3> QED BY <1>11, <3>1, <3>2
  <2> QED BY <1>1, <1>5, <1>10, <1>13, <2>1, <2>2, <2>3
<1>14. {folded[i] : i \in DOMAIN folded} = {frames[i] : i \in DOMAIN frames} \cup fresh
  <2>1. ASSUME NEW i \in DOMAIN folded
        PROVE  folded[i] \in {frames[j] : j \in DOMAIN frames} \cup fresh
    <3>1. CASE i \in 1 .. len
      BY <1>1, <1>9, <3>1
    <3>2. CASE i \in len + 1 .. len + card
      <4>1. i - len \in 1 .. card
        BY <1>1, <1>5, <3>2
      <4> QED BY <1>6, <1>9, <3>2, <4>1
    <3> QED BY <1>1, <1>5, <1>10, <3>1, <3>2
  <2>2. ASSUME NEW i \in DOMAIN frames PROVE frames[i] \in {folded[j] : j \in DOMAIN folded}
    <3>1. i \in DOMAIN folded /\ folded[i] = frames[i]
      BY <1>1, <1>5, <1>9, <1>10
    <3> QED BY <3>1
  <2>3. ASSUME NEW n \in fresh PROVE n \in {folded[j] : j \in DOMAIN folded}
    <3> DEFINE k == Place(fresh, n)
    <3>1. k \in 1 .. card
      BY <1>5
    <3>2. Sel(k) \in fresh /\ Place(fresh, Sel(k)) = k
      BY <1>6, <3>1
    <3>3. n \in Nat /\ Sel(k) \in Nat
      BY <1>3, <3>2
    <3>4. ~(n < Sel(k)) /\ ~(Sel(k) < n)
      BY <1>5, <3>1, <3>2
    <3>5. Sel(k) = n
      BY <3>3, <3>4
    <3> HIDE DEF k
    <3>6. PICK i \in len + 1 .. len + card : i = len + k
      BY <1>1, <1>5, <3>1
    <3>7. i \in DOMAIN folded /\ i - len = k
      BY <1>1, <1>5, <1>10, <3>1, <3>6
    <3>8. folded[i] = n
      BY <1>9, <3>5, <3>7
    <3> QED BY <3>7, <3>8
  <2> QED BY <2>1, <2>2, <2>3
<1>15. Last(folded) \in fresh \cup {Last(frames)} /\ \A n \in fresh \cup {Last(frames)} : n <= Last(folded)
  <2>1. CASE card = 0
    <3>1. fresh = {}
      BY <1>4, <2>1, FS_EmptySet DEF card
    <3>2. len + card = len
      BY <1>1, <2>1
    <3>3. len # 0 => folded[len] = frames[len]
      BY <1>1, <1>9
    <3>4. folded = <<>> <=> len = 0
      BY <1>9, <3>2, EmptySeq, LenProperties
    <3>5. Last(folded) = Last(frames)
      BY <1>2, <1>9, <3>2, <3>3, <3>4 DEF Last
    <3> QED BY <1>2, <3>1, <3>5
  <2>2. CASE card # 0
    <3>1. card \in 1 .. card /\ len + card \in len + 1 .. len + card /\ len + card - len = card
          /\ len + card # 0
      BY <1>1, <1>5, <2>2
    <3>2. folded[len + card] = Sel(card) /\ folded # <<>>
      BY <1>9, <3>1, EmptySeq, LenProperties
    <3>3. Last(folded) = Sel(card)
      BY <1>9, <3>2 DEF Last
    <3>4. Sel(card) \in fresh /\ Place(fresh, Sel(card)) = card
      BY <1>6, <3>1
    <3>5. ASSUME NEW n \in fresh PROVE n <= Sel(card)
      <4>1. n \in Nat /\ Sel(card) \in Nat
        BY <1>3, <3>4
      <4>2. Place(fresh, n) <= card /\ Place(fresh, n) \in Nat
        BY <1>5
      <4>3. ~(Sel(card) < n)
        BY <1>5, <3>4, <4>2
      <4> QED BY <4>1, <4>3
    <3>6. Last(frames) <= Sel(card)
      BY <1>2, <1>12, <3>4
    <3> QED BY <3>3, <3>4, <3>5, <3>6
  <2> QED BY <2>1, <2>2
<1>16. Appended(frames, fresh, folded)
  BY <1>13, <1>14, <1>15 DEF Appended
<1> QED BY <1>9, <1>16 DEF fresh, folded

\* The frames of a page are in order, and are the stored events up to the last.
InStep(frames, stored) ==
  /\ \A i, j \in DOMAIN frames : i < j => frames[i] < frames[j]
  /\ {frames[i] : i \in DOMAIN frames} = {n \in stored : n <= Last(frames)}

\* Folding the stored events that are newer, up to any of them, keeps that.
LEMMA FoldKeepsStep ==
  ASSUME NEW N \in Nat, NEW frames \in Seq(1 .. N), NEW stored \in SUBSET (1 .. N),
         InStep(frames, stored), NEW n \in Nat, NEW seqs,
         seqs = {m \in stored : m > Last(frames) /\ m <= n}
  PROVE  /\ Fold(frames, seqs) \in Seq(1 .. N) /\ InStep(Fold(frames, seqs), stored)
         /\ Last(Fold(frames, seqs)) \in seqs \cup {Last(frames)}
         /\ \A m \in seqs : m <= Last(Fold(frames, seqs))
<1> DEFINE folded == Fold(frames, seqs)
<1>0. {m \in seqs : m > Last(frames)} = seqs /\ seqs \in SUBSET (1 .. N)
  OBVIOUS
<1>1. /\ folded \in Seq(1 .. N)
      /\ \A i, j \in DOMAIN folded : i < j => folded[i] < folded[j]
      /\ {folded[i] : i \in DOMAIN folded} = {frames[i] : i \in DOMAIN frames} \cup seqs
      /\ Last(folded) \in seqs \cup {Last(frames)}
      /\ \A m \in seqs \cup {Last(frames)} : m <= Last(folded)
  <2>1. \A i, j \in DOMAIN frames : i < j => frames[i] < frames[j]
    BY DEF InStep
  <2>2. seqs \in SUBSET (1 .. N)
    BY <1>0
  <2>3. folded \in Seq(1 .. N) /\ Appended(frames, {m \in seqs : m > Last(frames)}, folded)
    BY <2>1, <2>2, FoldAppends
  <2>4. Appended(frames, seqs, folded)
    BY <1>0, <2>3
  <2> QED BY <2>3, <2>4 DEF Appended
<1> HIDE DEF folded
<1>2. Last(frames) \in Nat
  <2>1. CASE frames = <<>>
    BY <2>1 DEF Last
  <2>2. CASE frames # <<>>
    <3>1. Len(frames) \in 1 .. Len(frames)
      BY <2>2, EmptySeq
    <3> QED BY <2>2, <3>1, ElementOfSeq DEF Last
  <2> QED BY <2>1, <2>2
<1>3. Last(folded) \in Nat
  BY <1>0, <1>1, <1>2
<1>4. ASSUME NEW m \in stored PROVE m <= Last(folded) <=> m <= Last(frames) \/ m \in seqs
  <2>0. m \in 1 .. N
    OBVIOUS
  <2>5. Last(frames) <= Last(folded)
    BY <1>1
  <2>1. m \in Nat /\ Last(frames) <= Last(folded)
    BY <2>0, <2>5
  <2>2. CASE m <= Last(frames)
    BY <1>2, <1>3, <2>1, <2>2
  <2>3. CASE m \in seqs
    BY <1>1, <2>3
  <2>4. CASE m > Last(frames) /\ m <= Last(folded)
    BY <1>0, <1>1, <1>2, <1>3, <2>1, <2>4
  <2> QED BY <1>2, <1>3, <2>1, <2>2, <2>3, <2>4
<1>5. {m \in stored : m <= Last(folded)} = {m \in stored : m <= Last(frames)} \cup seqs
  BY <1>4
<1>6. {frames[i] : i \in DOMAIN frames} = {m \in stored : m <= Last(frames)}
  BY DEF InStep
<1>7. InStep(folded, stored)
  BY <1>1, <1>5, <1>6 DEF InStep
<1> QED BY <1>1, <1>7 DEF folded

\* A page's last frame is an event the recorder has numbered.
LEMMA LastIsNumbered ==
  ASSUME Recorder, NEW frames \in Seq(1 .. Len(script)), InStep(frames, events)
  PROVE  Last(frames) \in 0 .. rec.seq
<1>0. rec.seq \in Nat /\ events \subseteq 1 .. rec.seq
  BY DEF Recorder, Recording
<1>1. CASE frames = <<>>
  BY <1>0, <1>1 DEF Last
<1>2. CASE frames # <<>>
  <2>1. Len(frames) \in DOMAIN frames
    BY <1>2, EmptySeq, LenProperties
  <2>2. frames[Len(frames)] \in events
    BY <2>1 DEF InStep
  <2> QED BY <1>0, <1>2, <2>2 DEF Last
<1> QED BY <1>1, <1>2

\* A page and its stream move by a step of theirs alone, and a new event is
\* past every numbered one.
LEMMA WhoFollows ==
  ASSUME Recorder, [JournalNext]_journalVars
  PROVE  \/ OpenStream \/ Poll \/ ReadState \/ Wait
         \/ /\ stream' = stream /\ view' = view
            /\ events' = events \/ events' = events \cup {rec.seq + 1}
<1>1. CASE AppendEvent
  BY <1>1, WritesOrLoses DEF AppendEvent, readers
<1> QED
  BY <1>1
  DEF JournalNext, Record, Emit, CreateRun, SaveLiveCheck, MirrorState, Finish, SaveStep, SaveCheck,
      SaveCheckValue, UpdateRun, Kill, Reconcile, Follow, Drain, Resume, GetRun, readers, tables,
      journalVars

LEMMA StreamInit == JournalInit => StreamInv
<1> SUFFICES ASSUME JournalInit PROVE StreamInv
  OBVIOUS
<1>1. Recorder
  BY RecorderInit
<1>2. view.frames = <<>> /\ view = [frames |-> <<>>, finished |-> FALSE] /\ DOMAIN view.frames = {}
  BY DEF JournalInit, Unseen
<1>3. <<>> \in Seq(1 .. Len(script))
  BY EmptySeq
<1>4. Following
  BY <1>2, <1>3 DEF JournalInit, NoStream, Following, Terminal, RowStates
<1>5. StreamIsFaithful
  BY <1>2 DEF JournalInit, StreamIsFaithful
<1> QED BY <1>1, <1>4, <1>5 DEF StreamInv

LEMMA StreamStep ==
  ASSUME StreamInv, [JournalNext]_journalVars
  PROVE  StreamInv'
<1> DEFINE N == Len(script)
           Streams == [pc : {"closed", "poll", "read", "wait"}, after : Nat, state : RowStates]
           Views == [frames : Seq(1 .. N), finished : BOOLEAN]
<1>0. Recorder /\ Following /\ InStep(view.frames, events) /\ (view.finished => Terminal(row))
  BY DEF StreamInv, StreamIsFaithful, InStep
<1>1. Recorder' /\ script' = script /\ (Terminal(row) => Terminal(row'))
  BY <1>0, RecorderStep, RowStands
<1>2. /\ stream \in Streams /\ view \in Views /\ view.frames \in Seq(1 .. N)
      /\ view.finished \in BOOLEAN /\ row \in RowStates /\ row' \in RowStates
      /\ N \in Nat /\ events \in SUBSET (1 .. N) /\ rec.seq \in Nat
  BY <1>0, <1>1, LenProperties DEF Following, Recorder, Recording
<1>a. \A m \in events : m \in Nat
  BY <1>2
<1>3. Last(view.frames) \in Nat /\ Last(view.frames) \in 0 .. rec.seq
  BY <1>0, <1>2, LastIsNumbered
<1>c. ASSUME Close, view' \in Views PROVE Following'
  <2>1. /\ stream' = [pc |-> "closed", after |-> 0, state |-> "none"]
        /\ stream'.pc = "closed" /\ stream'.state = "none"
    BY <1>c DEF Close, NoStream
  <2> QED BY <1>1, <1>c, <2>1 DEF Following, RowStates, Terminal
<1>4. SUFFICES /\ Following' /\ InStep(view'.frames, events') /\ (view'.finished => Terminal(row'))
  BY <1>1 DEF StreamInv, StreamIsFaithful, InStep
<1>5. CASE /\ stream' = stream /\ view' = view
           /\ events' = events \/ events' = events \cup {rec.seq + 1}
  <2>1. {n \in events' : n <= Last(view.frames)} = {n \in events : n <= Last(view.frames)}
    BY <1>2, <1>3, <1>5
  <2>2. InStep(view.frames, events')
    BY <1>0, <2>1 DEF InStep
  <2>3. Following'
    BY <1>0, <1>1, <1>5 DEF Following
  <2> QED BY <1>0, <1>1, <1>5, <2>2, <2>3
<1>6. CASE OpenStream
  <2>1. /\ stream' = [pc |-> "poll", after |-> Last(view.frames), state |-> row]
        /\ view' = view /\ events' = events /\ row' = row
    BY <1>6 DEF OpenStream, tables
  <2>2. Following'
    BY <1>1, <1>2, <1>3, <2>1 DEF Following
  <2> QED BY <1>0, <2>1, <2>2
<1>7. CASE Poll
  <2> DEFINE top == CHOOSE n \in Newer \cup {stream.after} : \A m \in Newer : m <= n
  <2>0. /\ events' = events /\ row' = row
        /\ Newer = {m \in events : m > Last(view.frames)} /\ stream.after = Last(view.frames)
    BY <1>0, <1>7 DEF Poll, Following, Newer, tables
  <2>1. CASE /\ view' = [view EXCEPT !.frames = Fold(view.frames, Newer)]
             /\ stream' = [stream EXCEPT !.pc = "read", !.after = top]
    <3> DEFINE folded == Fold(view.frames, Newer)
    <3>1. Newer = {m \in events : m > Last(view.frames) /\ m <= N}
      <4>1. \A m \in events : m <= N
        BY <1>2
      <4> QED BY <2>0, <4>1
    <3>2. /\ folded \in Seq(1 .. N) /\ InStep(folded, events)
          /\ Last(folded) \in Newer \cup {Last(view.frames)}
          /\ \A m \in Newer : m <= Last(folded)
      <4> HIDE DEF N
      <4>1. InStep(view.frames, events) /\ view.frames \in Seq(1 .. N) /\ N \in Nat
        BY <1>0, <1>2
      <4> QED BY <1>2, <3>1, <4>1, FoldKeepsStep
    <3> HIDE DEF folded
    <3>3. view' = [frames |-> folded, finished |-> view.finished]
      BY <1>2, <2>1 DEF folded
    <3>4. top = Last(folded)
      <4>1. Newer \subseteq Nat /\ Last(folded) \in Nat
        BY <1>3, <1>a, <2>0, <3>2
      <4>2. \A n \in Newer \cup {stream.after} : (\A m \in Newer : m <= n) => n = Last(folded)
        <5> SUFFICES ASSUME NEW n \in Newer \cup {stream.after}, \A m \in Newer : m <= n
                     PROVE  n = Last(folded)
          OBVIOUS
        <5>1. n \in Nat /\ (n \in Newer => n <= Last(folded))
          BY <1>3, <2>0, <3>2, <4>1
        <5>2. Last(folded) \in Newer => Last(folded) <= n
          OBVIOUS
        <5>3. \A m \in Newer : m > Last(view.frames)
          BY <2>0
        <5> QED BY <1>3, <2>0, <3>2, <4>1, <5>1, <5>2, <5>3
      <4>3. Last(folded) \in Newer \cup {stream.after}
        BY <2>0, <3>2
      <4> QED BY <3>2, <4>2, <4>3
    <3> HIDE DEF top
    <3>5. stream' = [pc |-> "read", after |-> Last(folded), state |-> stream.state]
      BY <1>2, <2>1, <3>4
    <3>6. Last(folded) \in Nat
      BY <1>3, <1>a, <2>0, <3>2
    <3>7. Following'
      BY <1>0, <1>1, <1>2, <2>0, <3>2, <3>3, <3>5, <3>6 DEF Following
    <3> QED BY <1>0, <2>0, <3>2, <3>3, <3>7
  <2>2. ASSUME NEW n \in Newer \cup {0}, Close,
               view' = [view EXCEPT !.frames = Fold(view.frames, {m \in Newer : m <= n})]
        PROVE  Following' /\ InStep(view'.frames, events') /\ (view'.finished => Terminal(row'))
    <3> DEFINE seqs == {m \in Newer : m <= n}
               folded == Fold(view.frames, seqs)
    <3>1. n \in Nat /\ seqs = {m \in events : m > Last(view.frames) /\ m <= n}
      BY <1>2, <2>0
    <3>2. folded \in Seq(1 .. N) /\ InStep(folded, events)
      <4> HIDE DEF seqs
      <4> QED BY <1>0, <1>2, <3>1, FoldKeepsStep
    <3> HIDE DEF folded
    <3>3. view' = [frames |-> folded, finished |-> view.finished]
      BY <1>2, <2>2 DEF folded
    <3>4. Following'
      <4>1. view' \in Views
        BY <1>2, <3>2, <3>3
      <4> QED BY <1>c, <2>2, <4>1
    <3> QED BY <1>0, <2>0, <3>2, <3>3, <3>4
  <2> QED BY <1>7, <2>1, <2>2 DEF Poll
<1>8. CASE ReadState
  <2>1. /\ events' = events /\ row' = row
        /\ \/ stream' = NoStream
           \/ stream' = [stream EXCEPT !.pc = "wait", !.state = row] /\ view' = view /\ ~Terminal(row)
        /\ view' = view \/ (view' = [view EXCEPT !.finished = TRUE] /\ Terminal(row))
        /\ stream.after = Last(view.frames)
    BY <1>0, <1>8 DEF ReadState, Close, tables, Following
  <2>2. view' \in Views /\ view'.frames = view.frames /\ (view'.finished => Terminal(row))
    BY <1>0, <1>2, <2>1
  <2>3. CASE stream' = NoStream
    BY <1>0, <1>1, <2>1, <2>2, <2>3 DEF Following, NoStream, Terminal, RowStates
  <2>4. CASE stream' = [stream EXCEPT !.pc = "wait", !.state = row] /\ ~Terminal(row)
    <3>1. stream' = [pc |-> "wait", after |-> stream.after, state |-> row]
      BY <1>2, <2>4
    <3> QED BY <1>0, <1>1, <1>2, <2>1, <2>2, <2>4, <3>1 DEF Following
  <2> QED BY <2>1, <2>3, <2>4
<1>9. CASE Wait
  <2>1. /\ events' = events /\ row' = row /\ (Terminal(stream.state) => Terminal(row))
        /\ stream.after = Last(view.frames)
    BY <1>0, <1>9 DEF Wait, tables, Following
  <2>2. CASE stream' = [stream EXCEPT !.pc = "poll"] /\ view' = view
    <3>1. stream' = [pc |-> "poll", after |-> stream.after, state |-> stream.state]
      BY <1>2, <2>2
    <3> QED BY <1>0, <1>1, <1>2, <2>1, <2>2, <3>1 DEF Following
  <2>3. CASE Close /\ view' = [view EXCEPT !.finished = Terminal(stream.state)]
    <3>1. view' = [frames |-> view.frames, finished |-> Terminal(stream.state)]
      BY <1>2, <2>3
    <3>2. Following'
      <4>1. view' \in Views
        BY <1>2, <3>1 DEF Terminal
      <4> QED BY <1>c, <2>3, <4>1
    <3> QED BY <1>0, <2>1, <3>1, <3>2
  <2> QED BY <1>9, <2>2, <2>3 DEF Wait
<1> QED BY <1>0, <1>5, <1>6, <1>7, <1>8, <1>9, WhoFollows

(***************************************************************************)
(* For any scripts and any number of cuts, drains and failing writes: a    *)
(* page holds, in order and once each, every stored event up to the last   *)
(* one it folded, and is finished only when the run is (sse.go;            *)
(* runStream.ts, reduce).                                                  *)
(***************************************************************************)
THEOREM StreamsAreFaithful == JournalSpec => []StreamIsFaithful
<1>1. StreamInv => StreamIsFaithful
  BY DEF StreamInv
<1> QED BY StreamInit, StreamStep, <1>1, PTL DEF JournalSpec

=============================================================================
