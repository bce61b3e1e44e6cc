------------------------------- MODULE Access -------------------------------
(***************************************************************************)
(* API tokens, browser sessions and the authentication of a request: the   *)
(* store's token and session tables, the server's touch throttle, one      *)
(* browser's cookie jar, and the request a handler is serving for it. A    *)
(* sign-in is two steps (the token is looked up, then the session is       *)
(* written), and a revocation may fall between them; so is a touch (the    *)
(* throttle, then the table), with other requests between.                 *)
(***************************************************************************)
EXTENDS Integers

CONSTANTS
  NumTokens,      \* tokens that may be created, all under one name
  Sessions,       \* ids of sessions
  Extra,          \* the scopes a token may be given beside read
  Lifetime,       \* SessionLifetime, in ticks
  TouchInterval,  \* the throttle's interval, in ticks
  MaxTime,        \* bound on the clock
  None

Tokens == 1 .. NumTokens

ASSUME AccessAssumption ==
  /\ NumTokens \in Nat
  /\ Lifetime \in Nat \ {0} /\ TouchInterval \in Nat \ {0} /\ MaxTime \in Nat
  /\ Extra \subseteq {"operate", "manage"}
  /\ None \notin Tokens \cup Sessions

VARIABLES
  now,
  tokens,    \* api_tokens: a token's scopes, revocation and last_used_at
  sessions,  \* api_sessions: a session's token and expiry
  throttle,  \* touchThrottle.last
  touching,  \* the TouchToken calls under way: a token and a time
  jar,       \* the session the browser's cookie names
  login,     \* the token a POST /session has looked up and not yet used
  request,   \* the request being served: its token and its route
  lastUse    \* ghost: when each token was last admitted, or Lost once a touch
             \*   failed, never ran, or was written after a later one

touchVars == <<throttle, touching, lastUse>>
accessVars == <<now, tokens, sessions, jar, login, request, touchVars>>

Times == 0 .. MaxTime
Never == -1
Lost == -2
AllLost == [t \in Tokens |-> Lost]

\* store.ScopeRead, ScopeOperate, ScopeManage: read is what every token has,
\* and neither of the other two implies the other.
Scopes == {"read"} \cup Extra

\* What routes() tells apart: the scope a route asks for, and whether its
\* method is safe. Signing out is the unsafe route that only needs to read.
Routes == {"read", "signout"} \cup Extra
ScopeOf(route) == IF route = "signout" THEN "read" ELSE route
SafeMethod(route) == route = "read"

NoRequest == [token |-> None, route |-> "read"]
NoToken == [scopes |-> {}, live |-> FALSE, used |-> Never]
NoSession == [token |-> None, expires |-> Never]

AccessTypeOK ==
  /\ now \in Times
  /\ tokens \in [Tokens -> [scopes : SUBSET Scopes, live : BOOLEAN, used : Times \cup {Never}]]
  /\ sessions \in [Sessions -> [token : Tokens \cup {None}, expires : {Never} \cup 0 .. MaxTime + Lifetime]]
  /\ throttle \in [Tokens -> Times \cup {Never}] /\ touching \subseteq Tokens \X Times
  /\ jar \in Sessions \cup {None} /\ login \in Tokens \cup {None}
  /\ request \in [token : Tokens \cup {None}, route : Routes]
  /\ lastUse \in [Tokens -> Times \cup {Never, Lost}]

AccessInit ==
  /\ now = 0
  /\ tokens = [t \in Tokens |-> NoToken] /\ sessions = [s \in Sessions |-> NoSession]
  /\ throttle = [t \in Tokens |-> Never] /\ touching = {}
  /\ jar = None /\ login = None /\ request = NoRequest
  /\ lastUse = [t \in Tokens |-> Never]

-----------------------------------------------------------------------------
(* The token commands.                                                     *)

\* `token create`: the ids are fresh, and a name may be used again.
CreateToken(t, scopes) ==
  /\ tokens[t] = NoToken /\ \A u \in 1 .. t - 1 : tokens[u] # NoToken
  /\ tokens' = [tokens EXCEPT ![t] = [scopes |-> {"read"} \cup scopes, live |-> TRUE, used |-> Never]]
  /\ UNCHANGED <<now, sessions, jar, login, request, touchVars>>

\* `token revoke`: every live token of the name, and an error when none is.
RevokeToken ==
  /\ \E t \in Tokens : tokens[t].live
  /\ tokens' = [t \in Tokens |-> [tokens[t] EXCEPT !.live = FALSE]]
  /\ UNCHANGED <<now, sessions, jar, login, request, touchVars>>

-----------------------------------------------------------------------------
(* What the store answers.                                                 *)

\* TokenByHash finds live tokens only.
TokenByHash(t) == t # None /\ tokens[t].live

\* A slip SessionByHash could make.
SessionByHashAlone(s) ==
  s # None /\ sessions[s] # NoSession /\ sessions[s].expires > now

\* SessionByHash joins the session to its token: expired sessions and
\* sessions of a revoked token are not found.
SessionByHash(s) ==
  /\ s # None /\ sessions[s] # NoSession
  /\ sessions[s].expires > now /\ tokens[sessions[s].token].live

\* APIToken.Can: a token may always read.
Can(t, scope) == scope = "read" \/ scope \in tokens[t].scopes

-----------------------------------------------------------------------------
(* Requests.                                                               *)

Due(t) == throttle[t] = Never \/ now - throttle[t] >= TouchInterval

\* A slip Touch could make.
TouchSliding(t) ==
  /\ throttle' = [throttle EXCEPT ![t] = now]
  /\ touching' = touching \cup (IF Due(t) THEN {<<t, now>>} ELSE {})
  /\ lastUse' = [lastUse EXCEPT ![t] = IF @ = Lost THEN Lost ELSE now]

\* touchThrottle.record, under its lock: the throttle remembers before anything
\* is written.
Touch(t) ==
  /\ throttle' = [throttle EXCEPT ![t] = IF Due(t) THEN now ELSE @]
  /\ touching' = touching \cup (IF Due(t) THEN {<<t, now>>} ELSE {})
  /\ lastUse' = [lastUse EXCEPT ![t] = IF @ = Lost THEN Lost ELSE now]

\* TouchToken, after the lock: it writes what it was given over whatever is
\* there; a write that fails waits for the next interval.
TouchToken(t, at) ==
  /\ <<t, at>> \in touching
  /\ touching' = touching \ {<<t, at>>}
  /\ \/ /\ tokens' = [tokens EXCEPT ![t].used = at]
        /\ lastUse' = IF tokens[t].used > at THEN AllLost ELSE lastUse
     \/ UNCHANGED tokens /\ lastUse' = AllLost
  /\ UNCHANGED <<now, sessions, jar, login, request, throttle>>

\* requireScope and authenticate: a bearer token wins over the cookie; a
\* cookie writes only from the dashboard's own origin. Every way to be
\* refused leaves no trace but the touch of a token that may not do this. The
\* touches under way may be those of other requests.
Identity(bearer) == IF bearer # None THEN bearer ELSE IF jar = None THEN None ELSE sessions[jar].token

Authentic(bearer, sameOrigin, route) ==
  IF bearer # None
  THEN TokenByHash(bearer)
  ELSE SessionByHash(jar) /\ (SafeMethod(route) \/ sameOrigin)

Admit(bearer, sameOrigin, route) ==
  /\ request = NoRequest
  /\ Authentic(bearer, sameOrigin, route)
  /\ Touch(Identity(bearer))
  /\ request' = IF Can(Identity(bearer), ScopeOf(route))
                THEN [token |-> Identity(bearer), route |-> route] ELSE NoRequest
  /\ UNCHANGED <<now, tokens, sessions, jar, login>>

\* The handler answers.
Answer ==
  /\ request # NoRequest /\ request.route # "signout"
  /\ request' = NoRequest
  /\ UNCHANGED <<now, tokens, sessions, jar, login, touchVars>>

\* POST /session over a transport the Secure cookie survives: the token is
\* looked up...
BeginSession(t) ==
  /\ login = None /\ TokenByHash(t)
  /\ login' = t
  /\ UNCHANGED <<now, tokens, sessions, jar, request, touchVars>>

\* ... and its session is written, in one transaction with the removal of
\* the expired ones. The browser may never see the answer, and the write may
\* fail.
CreateSession(s) ==
  /\ login # None /\ sessions[s] = NoSession
  /\ \/ /\ sessions' = [x \in Sessions |->
             IF x = s THEN [token |-> login, expires |-> now + Lifetime]
             ELSE IF sessions[x].expires <= now THEN NoSession ELSE sessions[x]]
        /\ jar' \in {s, jar}
     \/ UNCHANGED <<sessions, jar>>
  /\ login' = None
  /\ UNCHANGED <<now, tokens, request, touchVars>>

\* DELETE /session: the cookie's session goes, whoever authenticated the
\* request, and the cookie is cleared.
DeleteSession ==
  /\ request # NoRequest /\ request.route = "signout"
  /\ sessions' = [s \in Sessions |-> IF s = jar THEN NoSession ELSE sessions[s]]
  /\ jar' = None /\ request' = NoRequest
  /\ UNCHANGED <<now, tokens, login, touchVars>>

\* A new server process has an empty throttle, no request and no touch under
\* way.
RestartServer ==
  /\ throttle' = [t \in Tokens |-> Never]
  /\ touching' = {}
  /\ lastUse' = IF touching # {} THEN AllLost ELSE lastUse
  /\ login' = None /\ request' = NoRequest
  /\ UNCHANGED <<now, tokens, sessions, jar>>

Tick ==
  /\ now < MaxTime
  /\ now' = now + 1
  /\ UNCHANGED <<tokens, sessions, jar, login, request, touchVars>>

AccessNext ==
  \/ \E t \in Tokens : \E scopes \in SUBSET Extra : CreateToken(t, scopes)
  \/ RevokeToken
  \/ \E bearer \in Tokens \cup {None}, sameOrigin \in BOOLEAN, route \in Routes :
       Admit(bearer, sameOrigin, route)
  \/ \E t \in Tokens, at \in Times : TouchToken(t, at)
  \/ Answer
  \/ \E t \in Tokens : BeginSession(t)
  \/ \E s \in Sessions : CreateSession(s)
  \/ DeleteSession
  \/ RestartServer
  \/ Tick

AccessSpec == AccessInit /\ [][AccessNext]_accessVars

-----------------------------------------------------------------------------
(***************************************************************************)
(* A request is admitted only for a token that is live at that moment and  *)
(* that holds the route's scope, whether it came as a bearer token or      *)
(* through a session: signing in with a token that is revoked meanwhile    *)
(* (session.go: the lookup and the insert are two steps) opens nothing,    *)
(* and revoking a name ends every session of its tokens.                   *)
(***************************************************************************)
RevokedIsRefused ==
  [][request = NoRequest /\ request' # NoRequest =>
       /\ tokens[request'.token].live
       /\ ScopeOf(request'.route) \in tokens[request'.token].scopes]_accessVars

(***************************************************************************)
(* "last used" is never older than the throttle's interval, or is being    *)
(* written, across restarts of the server and whatever requests use the    *)
(* token together, unless a TouchToken failed, died with its process or    *)
(* was held up past a later one (auth.go:258-268).                         *)
(***************************************************************************)
LastUseIsKnown ==
  \A t \in Tokens : lastUse[t] \notin {Never, Lost} =>
    \E at \in Times :
      /\ at = tokens[t].used \/ <<t, at>> \in touching
      /\ lastUse[t] - at < TouchInterval

=============================================================================
