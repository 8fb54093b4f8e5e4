----------------------------- MODULE AccessProofs -----------------------------
(***************************************************************************)
(* The safety of the token cache and of the callers' resolution, for any   *)
(* secrets, tokens, users and clocks.                                      *)
(***************************************************************************)
EXTENDS Access, TLAPS

(* A part of a payload is what its secret held between two instants.        *)
HeldPassword(p, from, to) == \E t \in from .. to : \E s \in past[t] : s.password = p

HeldTokens(list, from, to) == \E t \in from .. to : \E s \in past[t] : s.tokens = list

(* The clock and its history.                                               *)
Clock == secret \in past[now] /\ started <= now

(* The payload that is kept.                                                *)
Kept ==
    cache # Nothing =>
        /\ cache.begun <= cache.at /\ cache.at <= now
        /\ config.vault => HeldPassword(cache.password, cache.begun, cache.at)
        /\ config.secret => HeldTokens(cache.tokens, cache.begun, cache.at)

(* The load under way: there is no token list then, and what was fetched    *)
(* was held since it began.                                                 *)
UnderWay ==
    load # Nothing =>
        /\ tokens = Nothing /\ load.begun <= now
        /\ load.done => cache # Nothing /\ cache.at = now
        /\ load.password # Nothing => HeldPassword(load.password, load.begun, now)
        /\ load.tokens # Nothing => HeldTokens(load.tokens, load.begun, now)

(* The token list lives within one lifespan.                                *)
Listed ==
    tokens # Nothing =>
        /\ phase = "up"
        /\ filled >= started
        /\ config.secret => /\ cache # Nothing /\ tokens = cache.tokens
                            /\ filled - cache.at < RefreshSecs
        /\ ~config.secret => tokens = EnvTokens

StoreInv == StoreTypeOK /\ Clock /\ Kept /\ UnderWay /\ Listed

(* Who was let in by a bearer token was found in the list.                  *)
Known ==
    answer # Nothing /\ answer.status = "ok"
    => \/ asked.path = "api" /\ asked.cookie # Nothing
       \/ tokens # Nothing

CallTypes ==
    /\ asked \in Requests \cup {Nothing}
    /\ answer \in Answer \cup {Nothing}
    /\ served \in BOOLEAN
    /\ served => tokens # Nothing
    /\ asked # Nothing => phase = "up"

CallInv == CallTypes /\ OutageOnlyAtFirst /\ Known /\ CredentialDecides

IInv == StoreInv /\ CallInv

-----------------------------------------------------------------------------
(* Records. *)

LEMMA LoadFields ==
    ASSUME NEW l \in Load
    PROVE  /\ l.begun \in Ticks /\ l.done \in BOOLEAN
           /\ l.password \in Passwords \cup {Nothing} /\ l.tokens \in Contents \cup {Nothing}
BY DEF Load

LEMMA CacheFields ==
    ASSUME NEW c \in Cache
    PROVE  /\ c.begun \in Ticks /\ c.at \in Ticks
           /\ c.password \in Passwords \cup {Nothing} /\ c.tokens \in Contents \cup {Nothing}
BY DEF Cache

LEMMA SecretFields ==
    ASSUME NEW s \in Secret
    PROVE  s.password \in Passwords /\ s.tokens \in Contents
BY DEF Secret

LEMMA TickFacts ==
    /\ Ticks \subseteq Int
    /\ 0 \in Ticks
    /\ \A t \in Ticks : t >= 0 /\ t <= Horizon
    /\ \A t \in Ticks : t < Horizon => t + 1 \in Ticks
    /\ RefreshSecs \in Int /\ RefreshSecs > 0
BY TokenStoreAssumption DEF Ticks

-----------------------------------------------------------------------------
(* The world moves on: the history of the secrets grows. *)

PastGrows ==
    /\ now' \in Ticks /\ now <= now'
    /\ \A t \in Ticks : t <= now => past[t] \subseteq past'[t]

LEMMA HeldGrows ==
    ASSUME PastGrows, now \in Ticks,
           NEW from \in Ticks, NEW to \in Ticks, to <= now
    PROVE  \A t \in from .. to : t \in from .. now' /\ past[t] \subseteq past'[t]
<1>1. Horizon \in Int
  BY TokenStoreAssumption
<1>2. \A t \in from .. to : t \in Ticks /\ t <= now
  BY <1>1 DEF Ticks
<1>3. now' \in Int
  BY <1>1 DEF PastGrows, Ticks
<1> QED BY <1>1, <1>2, <1>3 DEF PastGrows, Ticks

LEMMA WorldKeeps ==
    ASSUME StoreInv, StoreTypeOK', PastGrows, UNCHANGED <<Memory, config, started>>,
           secret' \in past'[now'], Loaded => now' = now
    PROVE  StoreInv'
<1>1. /\ UNCHANGED <<cache, tokens, load, phase, filled, config, started>>
      /\ now \in Ticks /\ now' \in Ticks /\ started \in Ticks /\ now <= now'
  BY DEF Memory, StoreInv, StoreTypeOK, PastGrows
<1>2. Clock'
  BY <1>1, TickFacts DEF StoreInv, Clock
<1>3. Kept'
  <2>1. SUFFICES ASSUME cache # Nothing PROVE Kept'
    BY <1>1 DEF Kept
  <2>2. cache.begun \in Ticks /\ cache.at \in Ticks /\ cache.at <= now
    BY <2>1, CacheFields DEF StoreInv, StoreTypeOK, Kept
  <2>3. cache.at \in Int /\ now \in Int /\ now' \in Int
    BY <1>1, <2>2, TickFacts
  <2>4. cache.at <= now'
    BY <1>1, <2>2, <2>3
  <2>5. \A t \in cache.begun .. cache.at : past[t] \subseteq past'[t]
    BY <1>1, <2>2, HeldGrows
  <2> QED BY <1>1, <2>1, <2>4, <2>5 DEF StoreInv, Kept, HeldPassword, HeldTokens
<1>4. UnderWay'
  <2>1. SUFFICES ASSUME load # Nothing PROVE UnderWay'
    BY <1>1 DEF UnderWay
  <2>2. load.begun \in Ticks /\ load.begun <= now
    BY <2>1, LoadFields DEF StoreInv, StoreTypeOK, UnderWay
  <2>3. load.begun \in Int /\ now \in Int /\ now' \in Int
    BY <1>1, <2>2, TickFacts
  <2>4. load.begun <= now' /\ now <= now
    BY <1>1, <2>2, <2>3
  <2>5. \A t \in load.begun .. now : t \in load.begun .. now' /\ past[t] \subseteq past'[t]
    BY <1>1, <2>2, <2>4, HeldGrows
  <2>6. load.done => cache # Nothing /\ cache.at = now'
    BY <1>1, <2>1 DEF StoreInv, UnderWay, Loaded
  <2> QED BY <1>1, <2>1, <2>4, <2>5, <2>6 DEF StoreInv, UnderWay, HeldPassword, HeldTokens
<1>5. Listed'
  BY <1>1 DEF StoreInv, Listed
<1> QED BY <1>2, <1>3, <1>4, <1>5 DEF StoreInv

LEMMA TickKeeps ==
    ASSUME StoreInv, Tick
    PROVE  StoreInv'
<1>1. /\ now \in Ticks /\ past \in [Ticks -> SUBSET Secret] /\ secret \in Secret
      /\ now' = now + 1 /\ now + 1 \in Ticks
      /\ past' = [past EXCEPT ![now + 1] = {secret}]
      /\ UNCHANGED <<config, secret, started, rotations, Memory>>
      /\ ~Loaded
  BY TickFacts, TokenStoreAssumption DEF StoreInv, StoreTypeOK, Tick, Ticks
<1>2. past' \in [Ticks -> SUBSET Secret] /\ secret' \in past'[now']
  BY <1>1
<1>3. PastGrows
  BY <1>1, TickFacts DEF PastGrows
<1>4. StoreTypeOK'
  BY <1>1, <1>2 DEF StoreInv, StoreTypeOK, Memory
<1> QED BY <1>1, <1>2, <1>3, <1>4, WorldKeeps

LEMMA RotateKeeps ==
    ASSUME StoreInv, Rotate
    PROVE  StoreInv'
<1>1. PICK s \in Secret :
         secret' = s /\ past' = [past EXCEPT ![now] = @ \cup {s}]
  BY DEF Rotate
<1>2. /\ now \in Ticks /\ past \in [Ticks -> SUBSET Secret]
      /\ rotations' = rotations + 1 /\ rotations < MaxRotations
      /\ rotations \in 0 .. MaxRotations
      /\ UNCHANGED <<config, now, started, Memory>>
  BY DEF StoreInv, StoreTypeOK, Rotate
<1>3. past' \in [Ticks -> SUBSET Secret] /\ secret' \in past'[now']
  BY <1>1, <1>2
<1>4. PastGrows
  BY <1>1, <1>2, TickFacts DEF PastGrows
<1>5. rotations' \in 0 .. MaxRotations
  BY <1>2, TokenStoreAssumption
<1>6. StoreTypeOK'
  BY <1>1, <1>2, <1>3, <1>5 DEF StoreInv, StoreTypeOK, Memory
<1> QED BY <1>2, <1>3, <1>4, <1>6, WorldKeeps

LEMMA SameStoreKeeps ==
    ASSUME StoreInv, UNCHANGED storeVars
    PROVE  StoreInv'
BY DEF storeVars, StoreInv, StoreTypeOK, Clock, Kept, UnderWay, Listed, HeldPassword, HeldTokens

-----------------------------------------------------------------------------
(* The loads. *)

LEMMA ExitKeeps ==
    ASSUME StoreInv, Exit
    PROVE  StoreInv'
BY DEF Exit, Outside, StoreInv, StoreTypeOK, Clock, Kept, UnderWay, Listed

LEMMA BeginLoadKeeps ==
    ASSUME StoreInv, BeginLoad, tokens = Nothing
    PROVE  StoreInv'
<1>1. /\ load' = [begun |-> now, password |-> Nothing, tokens |-> Nothing, done |-> FALSE]
      /\ UNCHANGED <<cache, tokens, engine, phase, filled, Outside>>
      /\ now \in Ticks
  BY DEF BeginLoad, StoreInv, StoreTypeOK
<1>2. StoreTypeOK'
  BY <1>1 DEF StoreInv, StoreTypeOK, Load, Outside
<1>3. UnderWay'
  BY <1>1, TickFacts DEF UnderWay, Outside
<1> QED BY <1>1, <1>2, <1>3 DEF StoreInv, Clock, Kept, Listed, Outside, HeldPassword, HeldTokens

LEMMA FetchKeeps ==
    ASSUME StoreInv, Fetch
    PROVE  StoreInv'
<1>1. /\ load \in Load /\ load # Nothing /\ ~load.done
      /\ UNCHANGED <<cache, tokens, engine, phase, filled, Outside>>
      /\ \/ load' = [load EXCEPT !.password = secret.password]
         \/ load' = [load EXCEPT !.tokens = secret.tokens]
  BY DEF Fetch, Loading, StoreInv, StoreTypeOK
<1>2. load' \in Load
  BY <1>1, SecretFields DEF StoreInv, StoreTypeOK, Load
<1>3. /\ load'.begun = load.begun /\ load'.done = load.done
      /\ load'.password \in {load.password, secret.password}
      /\ load'.tokens \in {load.tokens, secret.tokens}
  BY <1>1 DEF Load
<1>4. now \in load.begun .. now /\ secret \in past[now]
  BY <1>1, LoadFields, TickFacts DEF StoreInv, StoreTypeOK, UnderWay, Clock
<1>5. UnderWay'
  BY <1>1, <1>3, <1>4
  DEF StoreInv, UnderWay, Outside, HeldPassword, HeldTokens
<1>6. StoreTypeOK'
  BY <1>1, <1>2 DEF StoreInv, StoreTypeOK, Outside
<1> QED BY <1>1, <1>5, <1>6 DEF StoreInv, Clock, Kept, Listed, Outside, HeldPassword, HeldTokens

LEMMA EndLoadKeeps ==
    ASSUME StoreInv, EndLoad
    PROVE  StoreInv'
<1>1. /\ load \in Load /\ load # Nothing /\ tokens = Nothing /\ now \in Ticks
      /\ load.begun \in Ticks
      /\ config.vault => load.password # Nothing
      /\ config.secret => load.tokens # Nothing
      /\ cache' = [begun |-> load.begun, at |-> now,
                   password |-> load.password, tokens |-> load.tokens]
      /\ load' = [load EXCEPT !.done = TRUE]
      /\ UNCHANGED <<tokens, engine, phase, filled, Outside>>
  BY LoadFields
  DEF EndLoad, Loading, PasswordDue, TokensDue, StoreInv, StoreTypeOK, UnderWay
<1>2. cache' \in Cache /\ cache' # Nothing
  BY <1>1, LoadFields, NothingAssumption DEF Cache
<1>3. /\ load' \in Load /\ load'.begun = load.begun
      /\ load'.password = load.password /\ load'.tokens = load.tokens
  BY <1>1 DEF Load
<1>4. StoreTypeOK'
  BY <1>1, <1>2, <1>3 DEF StoreInv, StoreTypeOK, Outside
<1>5. Kept'
  BY <1>1, TickFacts DEF StoreInv, UnderWay, Kept, Outside, HeldPassword, HeldTokens
<1>6. UnderWay'
  BY <1>1, <1>2, <1>3 DEF StoreInv, UnderWay, Outside, HeldPassword, HeldTokens
<1> QED BY <1>1, <1>4, <1>5, <1>6 DEF StoreInv, Clock, Listed, Outside

(* A payload that is at hand is young, and whole.                           *)
LEMMA PayloadFacts ==
    ASSUME StoreInv, Payload
    PROVE  /\ cache # Nothing /\ now - cache.at < RefreshSecs
           /\ config.vault => cache.password \in Passwords
           /\ config.secret => cache.tokens \in Contents
<1>1. cache # Nothing
  BY DEF StoreInv, Payload, Loaded, UnderWay, Stale
<1>2. cache.at \in Ticks /\ cache.begun \in Ticks /\ now \in Ticks /\ cache.at <= now
  BY <1>1, CacheFields DEF StoreInv, StoreTypeOK, Kept
<1>3. now - cache.at < RefreshSecs
  BY <1>1, <1>2, TickFacts DEF StoreInv, Payload, Loaded, UnderWay, Stale
<1>4. \A t \in cache.begun .. cache.at : past[t] \subseteq Secret
  BY <1>2, HeldGrows, TokenStoreAssumption DEF StoreInv, StoreTypeOK, Ticks
<1>5. config.vault => cache.password \in Passwords
  BY <1>1, <1>4, SecretFields DEF StoreInv, Kept, HeldPassword
<1>6. config.secret => cache.tokens \in Contents
  BY <1>1, <1>4, SecretFields DEF StoreInv, Kept, HeldTokens
<1> QED BY <1>1, <1>3, <1>5, <1>6

-----------------------------------------------------------------------------
(* The lifespan. *)

LEMMA StartKeeps ==
    ASSUME StoreInv, Start
    PROVE  StoreInv'
<1>1. tokens = Nothing /\ now \in Ticks
  BY DEF StoreInv, StoreTypeOK, Listed, Start
<1>2. now <= now
  BY <1>1, TickFacts
<1> QED BY <1>1, <1>2
        DEF Start, StoreInv, StoreTypeOK, Clock, Kept, UnderWay, Listed, HeldPassword, HeldTokens

LEMMA ListTokensKeeps ==
    ASSUME StoreInv, ListTokens
    PROVE  StoreInv'
BY DEF ListTokens, Outside, StoreInv, StoreTypeOK, Clock, Kept, UnderWay, Listed,
       HeldPassword, HeldTokens

LEMMA InitEngineKeeps ==
    ASSUME StoreInv, InitEngine
    PROVE  StoreInv'
<1>1. engine' \in Passwords \cup {"url"} /\ engine' # Nothing
  BY PayloadFacts, NothingAssumption DEF InitEngine
<1> QED BY <1>1
        DEF InitEngine, Outside, StoreInv, StoreTypeOK, Clock, Kept, UnderWay, Listed,
            HeldPassword, HeldTokens

LEMMA StopKeeps ==
    ASSUME StoreInv, Stop
    PROVE  StoreInv'
BY DEF Stop, Outside, StoreInv, StoreTypeOK, Clock, Kept, UnderWay, Listed,
       HeldPassword, HeldTokens

-----------------------------------------------------------------------------
(* The token list. *)

LEMMA TokenListFacts ==
    ASSUME StoreInv, TokensAtHand
    PROVE  /\ TokenList \in Contents \cup {EnvTokens}
           /\ TokenList # Nothing
           /\ TokenList \subseteq Entry
           /\ tokens = Nothing =>
                /\ config.secret => /\ cache # Nothing /\ TokenList = cache.tokens
                                    /\ now - cache.at < RefreshSecs
                /\ ~config.secret => TokenList = EnvTokens
<1>1. /\ TokenList \in Contents \cup {EnvTokens}
      /\ tokens = Nothing =>
           /\ config.secret => /\ cache # Nothing /\ TokenList = cache.tokens
                               /\ now - cache.at < RefreshSecs
           /\ ~config.secret => TokenList = EnvTokens
  BY PayloadFacts DEF TokensAtHand, TokenList, StoreInv, StoreTypeOK
<1> QED BY <1>1, NothingAssumption, TokenStoreAssumption

LEMMA KeepTokensKeeps ==
    ASSUME StoreInv, TokensAtHand, phase = "up", KeepTokens
    PROVE  StoreInv' /\ tokens' # Nothing
<1>1. /\ tokens' = TokenList /\ load' = Nothing
      /\ filled' = IF tokens = Nothing THEN now ELSE filled
      /\ UNCHANGED <<cache, engine, phase, Outside>>
  BY DEF KeepTokens
<1>2. tokens # Nothing => tokens' = tokens
  BY <1>1 DEF TokenList
<1>3. /\ tokens' \in Contents \cup {EnvTokens} /\ tokens' # Nothing
      /\ tokens = Nothing =>
           /\ config.secret => /\ cache # Nothing /\ tokens' = cache.tokens
                               /\ now - cache.at < RefreshSecs
           /\ ~config.secret => tokens' = EnvTokens
  BY <1>1, TokenListFacts
<1>4. StoreTypeOK'
  BY <1>1, <1>3 DEF StoreInv, StoreTypeOK, Outside
<1>5. now \in Ticks /\ started \in Ticks /\ started <= now
  BY DEF StoreInv, StoreTypeOK, Clock
<1>6. now >= started
  BY <1>5, TickFacts
<1>7. Listed'
  BY <1>1, <1>2, <1>3, <1>6 DEF StoreInv, Listed, Outside
<1> QED BY <1>1, <1>3, <1>4, <1>7
        DEF StoreInv, Clock, Kept, UnderWay, Outside, HeldPassword, HeldTokens

-----------------------------------------------------------------------------
(* The callers. *)

(* No user's id is a user: a JWT of a log-in never names one on its own.    *)
LEMMA NeverBare == Bare = Nothing
BY SubjectAssumption DEF Bare, JwtUser, AsUuid, Subject, Live, Jwt

LEMMA AskedFields ==
    ASSUME NEW q \in Requests
    PROVE  /\ q.path \in {"api", "me"}
           /\ q.path = "me" => q.cookie = Nothing
           /\ q.cookie \in {Nothing, Malformed} \cup Jwt
           /\ q.xuser \in {Nothing, Malformed} \cup Users
BY RequestsAssumption DEF Asked, Request

(* The last answer stands while the request, the deployment and a list that *)
(* was made stay.                                                           *)
LEMMA AnswerStands ==
    ASSUME CallInv, UNCHANGED callVars, UNCHANGED config,
           tokens # Nothing => tokens' = tokens,
           asked # Nothing => phase' = "up"
    PROVE  CallInv'
<1>1. CallTypes'
  BY DEF CallInv, CallTypes, callVars
<1>2. OutageOnlyAtFirst'
  BY DEF CallInv, OutageOnlyAtFirst, callVars
<1>3. Known'
  BY DEF CallInv, Known, callVars
<1>4. CredentialDecides'
  <2>1. SUFFICES ASSUME answer # Nothing, answer.status = "ok" PROVE CredentialDecides'
    BY DEF CredentialDecides, callVars
  <2>2. CASE tokens # Nothing
    <3>1. UNCHANGED Named(asked)
      BY <2>2 DEF Named, Matches, TokenList, callVars
    <3> QED BY <2>1, <3>1 DEF CallInv, CredentialDecides, callVars
  <2>3. CASE asked.path = "api" /\ asked.cookie # Nothing
    <3>1. UNCHANGED Named(asked)
      BY <2>3 DEF Named, callVars
    <3> QED BY <2>1, <2>3, <3>1 DEF CallInv, CredentialDecides, callVars
  <2> QED BY <2>1, <2>2, <2>3 DEF CallInv, Known
<1> QED BY <1>1, <1>2, <1>3, <1>4 DEF CallInv

(* Whoever has no answer has been told nothing.                             *)
LEMMA NoAnswerYet ==
    ASSUME answer = Nothing
    PROVE  OutageOnlyAtFirst /\ Known /\ CredentialDecides
BY DEF OutageOnlyAtFirst, Known, CredentialDecides

(* A refusal lets nobody act.                                               *)
LEMMA RefusalStands ==
    ASSUME CallInv, Pending, NEW st \in Statuses \ {"ok"}, Reply(Refuse(st)),
           served' \in BOOLEAN, served' => tokens' # Nothing /\ st # "unavailable",
           phase' = phase
    PROVE  CallInv'
<1>1. answer' = [status |-> st, subject |-> Nothing] /\ asked' = asked
  BY DEF Reply, Refuse
<1>2. answer' \in Answer
  BY <1>1 DEF Answer
<1> QED BY <1>1, <1>2
        DEF CallInv, CallTypes, OutageOnlyAtFirst, Known, CredentialDecides

LEMMA ForgetStands ==
    ASSUME Forget
    PROVE  CallInv'
BY DEF Forget, CallInv, CallTypes, OutageOnlyAtFirst, Known, CredentialDecides

LEMMA AskKeeps ==
    ASSUME IInv, Ask
    PROVE  IInv'
<1>1. StoreInv'
  BY SameStoreKeeps DEF IInv, Ask
<1>2. /\ asked' \in Requests /\ answer' = Nothing /\ served' = served
      /\ phase' = "up" /\ tokens' = tokens
  BY DEF Ask, Idle, storeVars
<1>3. CallTypes'
  BY <1>2 DEF IInv, CallInv, CallTypes
<1>4. (OutageOnlyAtFirst /\ Known /\ CredentialDecides)'
  BY <1>2 DEF OutageOnlyAtFirst, Known, CredentialDecides
<1> QED BY <1>1, <1>3, <1>4 DEF IInv, CallInv

LEMMA ByCookieKeeps ==
    ASSUME IInv, ByCookie
    PROVE  IInv'
<1>1. StoreInv' /\ UNCHANGED <<served, tokens, phase, config>>
  BY SameStoreKeeps DEF IInv, ByCookie, storeVars
<1>2. Pending /\ asked \in Requests /\ asked.cookie # Nothing
  BY DEF ByCookie, HasCookie, Pending, IInv, CallInv, CallTypes
<1>3. CASE Live(asked.cookie) /\ Reply(Accept(asked.cookie.user))
  <2>1. /\ asked' = asked /\ answer' = [status |-> "ok", subject |-> asked.cookie.user]
        /\ asked.cookie.user \in Users /\ asked.path = "api"
    BY <1>2, <1>3, AskedFields DEF Reply, Accept, Live, Jwt
  <2>2. answer' \in Answer
    BY <2>1 DEF Answer, Statuses
  <2>3. CallInv'
    BY <1>1, <1>2, <2>1, <2>2
    DEF IInv, CallInv, CallTypes, OutageOnlyAtFirst, Known, CredentialDecides, Named
  <2> QED BY <1>1, <2>3 DEF IInv
<1>4. CASE Reply(Refuse("unauthorized"))
  <2>1. CallInv'
    BY <1>1, <1>2, <1>4, RefusalStands DEF Statuses, IInv, CallInv, CallTypes
  <2> QED BY <1>1, <2>1 DEF IInv
<1> QED BY <1>3, <1>4 DEF ByCookie

LEMMA NoBearerKeeps ==
    ASSUME IInv, NoBearer
    PROVE  IInv'
<1>1. StoreInv' /\ UNCHANGED <<served, tokens, phase>>
  BY SameStoreKeeps DEF IInv, NoBearer, storeVars
<1>2. CallInv'
  BY <1>1, RefusalStands DEF NoBearer, Statuses, IInv, CallInv, CallTypes
<1> QED BY <1>1, <1>2 DEF IInv

LEMMA CallFailsKeeps ==
    ASSUME IInv, CallFails
    PROVE  IInv'
<1>1. StoreInv'
  BY DEF IInv, CallFails, Outside, StoreInv, StoreTypeOK, Clock, Kept, UnderWay, Listed,
         HeldPassword, HeldTokens
<1>2. served' = FALSE /\ phase' = phase
  BY DEF IInv, CallInv, CallTypes, StoreInv, UnderWay, CallFails, Loading
<1>3. CallInv'
  BY <1>2, RefusalStands DEF CallFails, Statuses, IInv
<1> QED BY <1>1, <1>3 DEF IInv

(* A bearer token is looked up in the list, and the list is kept.           *)
LEMMA ByTokenKeeps ==
    ASSUME IInv, HasBearer, ByToken
    PROVE  IInv'
<1>1. PICK found \in TokenList \cup {Nothing} :
         /\ Find(found)
         /\ Reply(IF asked.path = "api" THEN ApiReply(found) ELSE MeReply(found))
  BY DEF ByToken
<1>2. /\ Pending /\ asked \in Requests /\ phase = "up"
      /\ TokensAtHand /\ KeepTokens /\ served' = TRUE
  BY DEF ByToken, HasBearer, Pending, IInv, CallInv, CallTypes
<1>3. StoreInv' /\ tokens' # Nothing /\ tokens' = TokenList /\ phase' = phase
      /\ config' = config
  BY <1>2, KeepTokensKeeps DEF IInv, KeepTokens, Outside
<1>4. /\ asked' = asked
      /\ asked.path = "api" => asked.cookie = Nothing
      /\ Matches(asked.header)' = Matches(asked.header)
      /\ Named(asked)' = Named(asked)
  BY <1>1, <1>2, <1>3 DEF Reply, HasBearer, HasCookie, Matches, TokenList, Named
<1>5. TokenList \in Contents \cup {EnvTokens} /\ TokenList \subseteq Entry
  BY <1>2, TokenListFacts DEF IInv
<1>6. ASSUME NEW st \in Statuses \ {"ok", "unavailable"}, Reply(Refuse(st))
      PROVE  IInv'
  <2>1. CallInv'
    BY <1>2, <1>3, <1>6, RefusalStands DEF IInv
  <2> QED BY <1>3, <2>1 DEF IInv
<1>7. ASSUME NEW who \in Users \cup Ids, Reply(Accept(who)),
             \/ who \in Named(asked)
             \/ /\ config.dev /\ asked.path = "me"
                /\ Named(asked) = {} /\ who = asked.xuser
      PROVE  IInv'
  <2>1. answer' = [status |-> "ok", subject |-> who]
    BY <1>7 DEF Reply, Accept
  <2>2. answer' \in Answer
    BY <2>1 DEF Answer, Statuses
  <2>3. CredentialDecides'
    BY <1>3, <1>4, <1>7, <2>1 DEF CredentialDecides
  <2>4. CallInv'
    BY <1>2, <1>3, <1>4, <2>1, <2>2, <2>3
    DEF IInv, CallInv, CallTypes, OutageOnlyAtFirst, Known
  <2> QED BY <1>3, <2>4 DEF IInv
<1>8. CASE asked.path = "api"
  <2>1. Reply(ApiReply(found))
    BY <1>1, <1>8
  <2>2. CASE found = Nothing
    BY <1>6, <2>1, <2>2 DEF ApiReply, Statuses
  <2>3. CASE found # Nothing
    <3>1. found \in Matches(asked.header) /\ found.id \in Ids
      BY <1>1, <1>5, <2>3 DEF Find, Entry, Matches
    <3>2. asked.cookie = Nothing
      BY <1>4, <1>8
    <3> QED BY <1>7, <1>8, <2>1, <2>3, <3>1, <3>2 DEF ApiReply, Named
  <2> QED BY <2>2, <2>3
<1>9. CASE asked.path = "me"
  <2>1. Reply(MeReply(found))
    BY <1>1, <1>9
  <2>2. ASSUME found = Nothing \/ found.user = Nothing
        PROVE  Named(asked) = {}
    <3>1. \A e \in Matches(asked.header) : e = found
      BY <1>1, <1>5, UniqueAssumption DEF Find, Matches
    <3>2. \A e \in Matches(asked.header) : e.user = Nothing
      BY <1>1, <1>5, <2>2, <3>1, NothingAssumption DEF Find, Matches
    <3> QED BY <1>9, <3>2 DEF Named
  <2>3. CASE found = Nothing \/ found.user = Nothing
    <3>1. Reply(WithoutUser(found))
      BY <2>1, <2>3 DEF MeReply
    <3>2. CASE config.dev /\ asked.xuser # Nothing /\ asked.xuser # Malformed
      <4>1. asked.xuser \in Users /\ Reply(Accept(asked.xuser))
        BY <1>2, <3>1, <3>2, AskedFields DEF WithoutUser
      <4> QED BY <1>7, <1>9, <2>2, <2>3, <3>2, <4>1
    <3>3. CASE ~(config.dev /\ asked.xuser # Nothing /\ asked.xuser # Malformed)
      <4>1. \E st \in {"invalid", "forbidden", "unauthorized"} : Reply(Refuse(st))
        BY <3>1, <3>3 DEF WithoutUser
      <4> QED BY <1>6, <4>1 DEF Statuses
    <3> QED BY <3>2, <3>3
  <2>4. CASE found # Nothing /\ found.user = Malformed
    BY <1>6, <2>1, <2>4, NothingAssumption DEF MeReply, Statuses
  <2>5. CASE found # Nothing /\ found.user \notin {Nothing, Malformed}
    <3>1. found \in Matches(asked.header) /\ found.user \in Users
      BY <1>1, <1>5, <2>5 DEF Find, Entry, Matches
    <3>2. Reply(Accept(found.user))
      BY <2>1, <2>5 DEF MeReply
    <3>3. found.user \in Named(asked)
      BY <1>9, <2>5, <3>1 DEF Named
    <3> QED BY <1>7, <3>1, <3>2, <3>3
  <2> QED BY <2>3, <2>4, <2>5
<1> QED BY <1>2, <1>8, <1>9, AskedFields

LEMMA WorldStepKeeps ==
    ASSUME IInv, World
    PROVE  IInv'
<1>1. StoreInv'
  BY TickKeeps, RotateKeeps DEF IInv, World
<1>2. UNCHANGED <<tokens, phase, config>> /\ UNCHANGED callVars
  BY DEF World, Tick, Rotate, Memory
<1>3. CallInv'
  BY <1>2, AnswerStands DEF IInv, CallInv, CallTypes
<1> QED BY <1>1, <1>3 DEF IInv

LEMMA LoadsKeep ==
    ASSUME IInv, Loads \/ CallLoads
    PROVE  IInv'
<1>1. CASE Loads
  <2>1. StoreInv'
    BY <1>1, FetchKeeps, EndLoadKeeps DEF IInv, Loads
  <2>2. UNCHANGED <<tokens, phase, config>> /\ UNCHANGED callVars
    BY <1>1 DEF Loads, Fetch, EndLoad, Outside
  <2>3. CallInv'
    BY <2>2, AnswerStands DEF IInv, CallInv, CallTypes
  <2> QED BY <2>1, <2>3 DEF IInv
<1>2. CASE CallLoads
  <2>1. StoreInv'
    BY <1>2, BeginLoadKeeps DEF IInv, CallLoads, TokensAtHand
  <2>2. UNCHANGED <<tokens, phase, config>> /\ UNCHANGED callVars
    BY <1>2 DEF CallLoads, BeginLoad, Outside
  <2>3. CallInv'
    BY <2>2, AnswerStands DEF IInv, CallInv, CallTypes
  <2> QED BY <2>1, <2>3 DEF IInv
<1> QED BY <1>1, <1>2

LEMMA StartingKeeps ==
    ASSUME IInv, Starting \/ Restart
    PROVE  IInv'
<1>1. phase # "up"
  BY DEF Starting, Restart, Start, ListTokens, InitEngine, StartLoads
<1>2. asked = Nothing /\ tokens = Nothing
  BY <1>1 DEF IInv, CallInv, CallTypes, StoreInv, Listed
<1>3. StoreInv'
  BY <1>2, StartKeeps, ListTokensKeeps, InitEngineKeeps, BeginLoadKeeps
  DEF IInv, Starting, Restart, StartLoads
<1>4. UNCHANGED config /\ UNCHANGED callVars
  BY DEF Starting, Restart, Start, ListTokens, InitEngine, StartLoads, BeginLoad, Outside
<1>5. CallInv'
  BY <1>2, <1>4, AnswerStands DEF IInv
<1> QED BY <1>3, <1>5 DEF IInv

LEMMA EndsKeep ==
    ASSUME IInv, Crash \/ Shutdown \/ StartAborted
    PROVE  IInv'
<1>1. StoreInv'
  BY ExitKeeps, StopKeeps DEF IInv, Crash, Shutdown, StartAborted, StartFails
<1>2. CallInv'
  BY ForgetStands DEF Crash, Shutdown, StartAborted
<1> QED BY <1>1, <1>2 DEF IInv

LEMMA InitHolds == Init => IInv
<1> SUFFICES ASSUME Init PROVE IInv
  OBVIOUS
<1>1. 0 \in Ticks /\ 0 <= 0 /\ 0 \in 0 .. MaxRotations
  BY TickFacts, TokenStoreAssumption
<1>2. past \in [Ticks -> SUBSET Secret]
  BY DEF Init, StoreInit
<1>3. StoreTypeOK
  BY <1>1, <1>2 DEF Init, StoreInit, StoreTypeOK
<1>4. Clock /\ Kept /\ UnderWay /\ Listed
  BY <1>1 DEF Init, StoreInit, Clock, Kept, UnderWay, Listed
<1>5. CallInv
  BY NoAnswerYet DEF Init, CallInv, CallTypes
<1> QED BY <1>3, <1>4, <1>5 DEF IInv, StoreInv

(* What the caches, the load under way and the last answer say of each      *)
(* other is an inductive invariant of the process.                          *)
THEOREM Invariance == Spec => []IInv
<1>1. IInv /\ [Next]_vars => IInv'
  <2> SUFFICES ASSUME IInv, [Next]_vars PROVE IInv'
    OBVIOUS
  <2>1. CASE World
    BY <2>1, WorldStepKeeps
  <2>2. CASE Crash \/ Shutdown \/ StartAborted
    BY <2>2, EndsKeep
  <2>3. CASE Restart \/ Starting
    BY <2>3, StartingKeeps
  <2>4. CASE Ask
    BY <2>4, AskKeeps
  <2>5. CASE Loads \/ CallLoads
    BY <2>5, LoadsKeep
  <2>6. CASE ByCookie \/ NoBearer \/ CallFails
    BY <2>6, ByCookieKeeps, NoBearerKeeps, CallFailsKeeps
  <2>7. CASE ByBearer
    BY <2>7, NeverBare, ByTokenKeeps DEF ByBearer
  <2>8. CASE UNCHANGED vars
    <3>1. UNCHANGED storeVars /\ UNCHANGED callVars /\ UNCHANGED <<tokens, config, phase>>
      BY <2>8 DEF vars, storeVars
    <3> QED BY <3>1, SameStoreKeeps, AnswerStands DEF IInv, CallInv, CallTypes
  <2> QED BY <2>1, <2>2, <2>3, <2>4, <2>5, <2>6, <2>7, <2>8 DEF Next, Process, Calls
<1> QED BY <1>1, InitHolds, PTL DEF Spec

-----------------------------------------------------------------------------
(* The properties the run checks. *)

(* The caches, the lifespan and the callers keep their types, and an engine *)
(* that is up has something to connect with.                                *)
THEOREM TypeCorrect == Spec => []TypeOK
<1>1. IInv => TypeOK
  BY DEF IInv, StoreInv, CallInv, CallTypes, TypeOK
<1> QED BY <1>1, Invariance, PTL

(* The token list of a lifespan is what the secret held during the one load *)
(* it was made of.                                                          *)
THEOREM TokensAreOfThisLifespan == Spec => []TokensWereCurrent
<1>1. IInv => TokensWereCurrent
  BY DEF IInv, StoreInv, Kept, Listed, HeldTokens, TokensWereCurrent
<1> QED BY <1>1, Invariance, PTL

(* A kept payload has every configured part.                                *)
THEOREM PayloadsAreWhole == Spec => []PayloadIsWhole
<1>1. IInv => PayloadIsWhole
  BY DEF IInv, StoreInv, Kept, HeldPassword, HeldTokens, PayloadIsWhole
<1> QED BY <1>1, Invariance, PTL

(* A process that has looked a token up is out of reach of an outage.       *)
THEOREM OutagesReachTheFirst == Spec => []OutageOnlyAtFirst
<1>1. IInv => OutageOnlyAtFirst
  BY DEF IInv, CallInv
<1> QED BY <1>1, Invariance, PTL

(* Nobody is taken for somebody their own credential does not name, but, in *)
(* development, for the user of an X-User-Id sent with one that names none. *)
THEOREM CredentialsDecide == Spec => []CredentialDecides
<1>1. IInv => CredentialDecides
  BY DEF IInv, CallInv
<1> QED BY <1>1, Invariance, PTL
=============================================================================
