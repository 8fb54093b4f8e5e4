-------------------------------- MODULE Access --------------------------------
(***************************************************************************)
(* Who is calling: require_auth (auth/base.py) before the API's endpoints, *)
(* require_current_user (auth/session.py) before the dashboard, and the    *)
(* JWTs that a log-in gives out (auth/jwt.py).  TokenStore is the token    *)
(* list they ask.                                                          *)
(*                                                                         *)
(* Neither dependency awaits anything, and a load of the secrets blocks    *)
(* the event loop, so the process resolves one caller at a time.  Whether  *)
(* the caller's bucket then admits the request is RateLimit's matter; the  *)
(* caller's subject stands for the token_id that names the bucket.         *)
(***************************************************************************)
EXTENDS TokenStore

CONSTANTS
    Ttl,        \* jwt_expire_minutes, in ticks
    Requests    \* what clients may send

ASSUME TtlAssumption == Ttl \in Nat

(* JWTs signed with jwt_secret; sub is "user:" and the user's id.           *)
Jwt == [user : Users, exp : 0 .. Horizon + Ttl]

Statuses == {"ok", "invalid", "unauthorized", "forbidden", "error", "unavailable"}

(* subject: the user of a session, or the id of the static token.           *)
Answer == [status : Statuses, subject : Users \cup Ids \cup {Nothing}]

VARIABLES
    asked,     \* the last request, Nothing before the first
    answer,    \* what its caller was found to be, Nothing before that
    served     \* history: a bearer token has been looked up in this lifespan

callVars == <<asked, answer, served>>
vars == <<storeVars, callVars>>

(* Malformed: of another scheme, empty, or not signed by this service.  The *)
(* API does not look at X-User-Id, nor the dashboard at the cookie.         *)
Request(path, cookies, xusers) ==
    [path : {path}, cookie : cookies, header : {Nothing, Malformed} \cup Tokens \cup Jwt,
     xuser : xusers]

Asked ==
    Request("api", {Nothing, Malformed} \cup Jwt, {Nothing})
    \cup Request("me", {Nothing}, {Nothing, Malformed} \cup Users)

ASSUME RequestsAssumption == Requests \subseteq Asked

TypeOK ==
    /\ StoreTypeOK
    /\ asked \in Requests \cup {Nothing}
    /\ answer \in Answer \cup {Nothing}
    /\ served \in BOOLEAN
    /\ served => tokens # Nothing

Init ==
    /\ StoreInit
    /\ asked = Nothing /\ answer = Nothing
    /\ served = FALSE

-----------------------------------------------------------------------------
(* Clients. *)

Pending == asked # Nothing /\ answer = Nothing

(* The event loop is free.                                                  *)
Idle == phase = "up" /\ load = Nothing /\ ~Pending

(* create_jwt: what the log-ins up to now have given out, in the body and   *)
(* in the cookie of their answers, the expired ones included.               *)
Issued == {j \in Jwt : j.exp - Ttl \in 0 .. now}

Ask ==
    /\ Idle
    /\ \E q \in Requests :
         /\ {q.cookie, q.header} \cap Jwt \subseteq Issued
         /\ asked' = q
    /\ answer' = Nothing
    /\ UNCHANGED <<storeVars, served>>

-----------------------------------------------------------------------------
(* decode_jwt and _decode_user_id_from_jwt *)

Live(j) == j \in Jwt /\ now <= j.exp

Subject(u) == <<"user", u>>

ASSUME SubjectAssumption == \A u \in Users : Subject(u) \notin Users

(* uuid.UUID: the bare id of a user, nothing else.                          *)
AsUuid(text) == IF text \in Users THEN text ELSE Nothing

JwtUser(token) == IF Live(token) THEN AsUuid(Subject(token.user)) ELSE Nothing

Accept(subject) == [status |-> "ok", subject |-> subject]

Refuse(status) == [status |-> status, subject |-> Nothing]

Reply(a) == answer' = a /\ UNCHANGED asked

(* A cookie decides, good or bad; the header is not looked at.              *)
HasCookie == Pending /\ asked.cookie # Nothing

ByCookie ==
    /\ HasCookie
    /\ Reply(IF Live(asked.cookie) THEN Accept(asked.cookie.user) ELSE Refuse("unauthorized"))
    /\ UNCHANGED <<storeVars, served>>

NoBearer ==
    /\ Pending /\ ~HasCookie
    /\ asked.header \in {Nothing, Malformed}
    /\ Reply(Refuse("unauthorized"))
    /\ UNCHANGED <<storeVars, served>>

HasBearer == Pending /\ ~HasCookie /\ asked.header \notin {Nothing, Malformed}

(* The user of a JWT whose sub is a bare id: such a one needs no token      *)
(* list.                                                                    *)
Bare == IF asked.path = "me" THEN JwtUser(asked.header) ELSE Nothing

(* require_auth *)
ApiReply(found) ==
    IF found = Nothing THEN Refuse("unauthorized") ELSE Accept(found.id)

(* require_current_user without a user token                                *)
WithoutUser(found) ==
    IF config.dev /\ asked.xuser # Nothing
    THEN IF asked.xuser = Malformed THEN Refuse("invalid")
         ELSE Accept(asked.xuser)
    ELSE Refuse(IF found # Nothing /\ found.type = "service" THEN "forbidden" ELSE "unauthorized")

(* Mutant: X-User-Id is looked at first.                                    *)
MeReplyHeaderFirst(found) ==
    IF found = Nothing \/ found.user = Nothing \/ (config.dev /\ asked.xuser # Nothing)
    THEN WithoutUser(found)
    ELSE IF found.user = Malformed THEN Refuse("error")
    ELSE Accept(found.user)

MeReply(found) ==
    IF found = Nothing \/ found.user = Nothing THEN WithoutUser(found)
    ELSE IF found.user = Malformed THEN Refuse("error")
    ELSE Accept(found.user)

Find(found) ==
    IF Matches(asked.header) = {} THEN found = Nothing ELSE found \in Matches(asked.header)

ByToken ==
    /\ TokensAtHand
    /\ \E found \in TokenList \cup {Nothing} :
         /\ Find(found)
         /\ Reply(IF asked.path = "api" THEN ApiReply(found) ELSE MeReply(found))
    /\ KeepTokens
    /\ served' = TRUE

ByBareSubject ==
    /\ Reply(Accept(Bare))
    /\ UNCHANGED <<storeVars, served>>

ByBearer == HasBearer /\ IF Bare = Nothing THEN ByToken ELSE ByBareSubject

(* The token list is not there yet: the request loads it ...                *)
CallLoads ==
    /\ HasBearer /\ Bare = Nothing
    /\ ~TokensAtHand
    /\ BeginLoad
    /\ UNCHANGED callVars

(* Mutant: ... for as long as it takes ...                                  *)
CallFailsAgain ==
    /\ Pending /\ Loading
    /\ load' = [load EXCEPT !.password = Nothing, !.tokens = Nothing]
    /\ UNCHANGED <<cache, tokens, engine, phase, filled, Outside, callVars>>

(* ... or is answered 500 when a fetch fails, and the next one tries again. *)
CallFails ==
    /\ Pending /\ Loading
    /\ Reply(Refuse("unavailable"))
    /\ load' = Nothing
    /\ UNCHANGED <<cache, tokens, engine, phase, filled, Outside, served>>

-----------------------------------------------------------------------------
(* The process. *)

World == (Tick \/ Rotate) /\ UNCHANGED callVars

Forget == asked' = Nothing /\ answer' = Nothing /\ served' = FALSE

Crash == phase # "stopped" /\ Exit /\ Forget

(* The server lets the requests finish first.                               *)
Shutdown == Idle /\ Stop /\ Forget

Restart == Start /\ UNCHANGED callVars

(* What the process does by itself: a task that can run is run, and a call  *)
(* of Secrets Manager ends, if only by its timeout.                         *)
Starting == (ListTokens \/ InitEngine \/ StartLoads) /\ UNCHANGED callVars

StartAborted == StartFails /\ Forget

Loads == (Fetch \/ EndLoad) /\ UNCHANGED callVars

Calls == ByCookie \/ NoBearer \/ ByBearer \/ CallLoads \/ CallFails

Process == Starting \/ StartAborted \/ Loads \/ Calls

Next ==
    \/ World \/ Crash \/ Shutdown \/ Restart
    \/ Ask
    \/ Process

Spec == Init /\ [][Next]_vars

FairSpec == Spec /\ WF_vars(Process)

-----------------------------------------------------------------------------
(* Properties. *)

(* The token list, which is kept without an age for the rest of the         *)
(* lifespan, was made in this lifespan, of a payload younger than           *)
(* secrets_refresh_seconds: it is what the secret held at some instant of   *)
(* that load.  So a restart, and nothing else, retires a rotated token.     *)
TokensWereCurrent ==
    tokens # Nothing =>
        /\ filled >= started
        /\ IF config.secret
           THEN /\ filled - cache.at < RefreshSecs
                /\ \E t \in cache.begun .. cache.at : \E s \in past[t] : s.tokens = tokens
           ELSE tokens = EnvTokens

(* A payload is whole, although its parts come from several calls that fail *)
(* and are raced by rotations: each configured part is there, and is what   *)
(* its secret held during the load.                                         *)
PayloadIsWhole ==
    cache # Nothing =>
        /\ config.vault => \E t \in cache.begun .. cache.at : \E s \in past[t] : s.password = cache.password
        /\ config.secret => \E t \in cache.begun .. cache.at : \E s \in past[t] : s.tokens = cache.tokens

(* An outage of Secrets Manager reaches only callers of a process that has  *)
(* not looked a token up yet: afterwards no load is left to fail.           *)
OutageOnlyAtFirst == served => answer = Nothing \/ answer.status # "unavailable"

(* Whom a credential names.  To the dashboard the JWT of a log-in names     *)
(* nobody: its subject is not parsed (JwtOpensDashboard).                   *)
Named(q) ==
    IF q.path = "me" THEN {e.user : e \in Matches(q.header)} \ {Nothing}
    ELSE IF q.cookie # Nothing THEN {q.cookie.user}
    ELSE {e.id : e \in Matches(q.header)}

(* Outside development whoever is let in is the one their own credential    *)
(* names, whatever else they send: a header beside a cookie, an X-User-Id.  *)
(* In development a user's token is not overruled either, but a bearer that *)
(* names nobody, be it garbage, a partner's token or the live JWT of        *)
(* another user, lets the dashboard believe any X-User-Id (session.py:88).  *)
CredentialDecides ==
    answer # Nothing /\ answer.status = "ok" =>
        \/ answer.subject \in Named(asked)
        \/ /\ config.dev /\ asked.path = "me"
           /\ Named(asked) = {}
           /\ answer.subject = asked.xuser

(* Every caller gets an answer, and every start comes to an end, although a *)
(* load blocks the process.                                                 *)
EveryCallAnswered == Pending ~> ~Pending

EveryStartEnds == phase \in {"listing", "building"} ~> phase \in {"up", "stopped"}

-----------------------------------------------------------------------------
(* "GET /me/profile resolves user from JWT" (README.md:61): the token of a  *)
(* log-in, sent as README.md:60 says, opens the dashboard of its user, and  *)
(* of no other.                                                             *)
JwtOpensDashboard ==
    answer # Nothing /\ asked.path = "me" /\ Live(asked.header)
        => answer.subject = asked.header.user
=============================================================================
