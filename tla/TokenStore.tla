------------------------------ MODULE TokenStore ------------------------------
(***************************************************************************)
(* The secrets and the tokens of the process: SecretsStore of              *)
(* secrets/loader.py, the token list of auth/bearer.py, and the start and  *)
(* the end of main.py's lifespan, which read and drop them.                *)
(*                                                                         *)
(* Two caches follow each other.  SecretsStore keeps a payload and fetches *)
(* it anew once it is RefreshSecs old; _store_cache keeps the token list   *)
(* made of it, without an age, until the lifespan ends.  A load is several *)
(* calls of Secrets Manager.  They block the event loop, so nothing else   *)
(* happens in the process, but the clock moves and secrets are rotated.    *)
(*                                                                         *)
(* The Google and the bypass secret are fetched in the same loop; nothing  *)
(* reads what they bring, so they are only further chances to fail.        *)
(***************************************************************************)
EXTENDS Integers, FiniteSets

CONSTANTS
    Ids, Tokens, Users,
    Passwords,     \* of the database
    Contents,      \* what the secret of the bearer tokens may hold
    EnvTokens,     \* BEARER_TOKENS_JSON
    Configs,       \* deployments
    RefreshSecs,   \* secrets_refresh_seconds, in ticks
    Horizon,       \* bound: last tick of a behaviour
    MaxRotations,  \* bound: changes of the secrets
    Nothing,       \* what is absent
    Malformed      \* what is there and cannot be used

(* user: the user_id of a session token for the dashboard.                  *)
Entry == [id : Ids, token : Tokens, user : Users \cup {Nothing, Malformed},
          type : {"service", "user"}]

(* secret: AUTH_SECRET_ARN is set, else BEARER_TOKENS_JSON.                 *)
(* vault: DATABASE_SECRET_ARN is set, else DATABASE_URL.                    *)
(* dev: X-User-Id is allowed and ENVIRONMENT is development.                *)
Config == [secret : BOOLEAN, vault : BOOLEAN, dev : BOOLEAN]

ASSUME TokenStoreAssumption ==
    /\ EnvTokens \in SUBSET Entry
    /\ Contents \subseteq SUBSET Entry
    /\ Configs \subseteq Config
    /\ RefreshSecs \in Nat \ {0}
    /\ Horizon \in Nat
    /\ MaxRotations \in Nat

Ticks == 0 .. Horizon

Secret == [password : Passwords, tokens : Contents]

(* A load under way, and the _CacheEntry it becomes.                        *)
Load == [begun : Ticks, password : Passwords \cup {Nothing}, tokens : Contents \cup {Nothing},
         done : BOOLEAN]

Cache == [begun : Ticks, at : Ticks, password : Passwords \cup {Nothing},
          tokens : Contents \cup {Nothing}]

ASSUME NothingAssumption ==
    /\ Nothing \notin {Malformed, "url"}
    /\ {Nothing, Malformed} \cap (Users \cup Tokens \cup Passwords) = {}
    /\ Nothing \notin Entry \cup Contents \cup {EnvTokens} \cup Load \cup Cache

(* A token is given to one caller; nothing in the code checks it.           *)
ASSUME UniqueAssumption ==
    \A list \in Contents \cup {EnvTokens} : \A e, f \in list : e.token = f.token => e = f

VARIABLES
    config,
    secret,     \* what Secrets Manager holds
    cache,      \* SecretsStore._cache
    tokens,     \* _store_cache
    engine,     \* the password the engine connects with
    phase,      \* of the lifespan: stopped, listing, building, up
    load,       \* the load under way
    now,        \* time.monotonic()
    started,    \* history: when the lifespan was started
    filled,     \* history: when the token list was made
    past,       \* history: what the secret held during each tick
    rotations

storeVars == <<config, secret, cache, tokens, engine, phase, load, now,
               started, filled, past, rotations>>

StoreTypeOK ==
    /\ config \in Configs
    /\ secret \in Secret
    /\ cache \in Cache \cup {Nothing}
    /\ tokens \in Contents \cup {EnvTokens, Nothing}
    /\ engine \in Passwords \cup {"url", Nothing}
    /\ phase \in {"stopped", "listing", "building", "up"}
    /\ load \in Load \cup {Nothing}
    /\ now \in Ticks /\ started \in Ticks /\ filled \in Ticks
    /\ past \in [Ticks -> SUBSET Secret]
    /\ rotations \in 0 .. MaxRotations
    /\ phase = "up" => engine # Nothing

StoreInit ==
    /\ config \in Configs
    /\ secret \in Secret
    /\ cache = Nothing
    /\ tokens = Nothing
    /\ engine = Nothing
    /\ phase = "stopped"
    /\ load = Nothing
    /\ now = 0 /\ started = 0 /\ filled = 0
    /\ past = [t \in Ticks |-> IF t = 0 THEN {secret} ELSE {}]
    /\ rotations = 0

Memory == <<cache, tokens, engine, phase, load, filled>>
Outside == <<config, secret, now, started, past, rotations>>

-----------------------------------------------------------------------------
(* The world. *)

(* A payload was just loaded, and is about to be used.                      *)
Loaded == load # Nothing /\ load.done

Loading == load # Nothing /\ ~load.done

Tick ==
    /\ now < Horizon
    /\ ~Loaded
    /\ now' = now + 1
    /\ past' = [past EXCEPT ![now + 1] = {secret}]
    /\ UNCHANGED <<config, secret, started, rotations, Memory>>

Rotate ==
    /\ rotations < MaxRotations
    /\ \E s \in Secret \ {secret} :
         /\ secret' = s
         /\ past' = [past EXCEPT ![now] = @ \cup {s}]
    /\ rotations' = rotations + 1
    /\ UNCHANGED <<config, now, started, Memory>>

(* The process is killed, or exits.                                         *)
Exit ==
    /\ cache' = Nothing /\ tokens' = Nothing /\ engine' = Nothing
    /\ phase' = "stopped" /\ load' = Nothing
    /\ UNCHANGED <<filled, Outside>>

-----------------------------------------------------------------------------
(* SecretsStore._load_payload *)

(* _should_refresh                                                          *)
Stale == cache # Nothing => now - cache.at >= RefreshSecs

BeginLoad ==
    /\ load = Nothing
    /\ Stale
    /\ load' = [begun |-> now, password |-> Nothing, tokens |-> Nothing, done |-> FALSE]
    /\ UNCHANGED <<cache, tokens, engine, phase, filled, Outside>>

PasswordDue == config.vault /\ load.password = Nothing

TokensDue == config.secret /\ load.tokens = Nothing

Fetch ==
    /\ Loading
    /\ \/ PasswordDue /\ load' = [load EXCEPT !.password = secret.password]
       \/ ~PasswordDue /\ TokensDue /\ load' = [load EXCEPT !.tokens = secret.tokens]
    /\ UNCHANGED <<cache, tokens, engine, phase, filled, Outside>>

(* Mutant: the payload is kept before it is complete.                       *)
EndLoadEarly ==
    /\ Loading
    /\ ~PasswordDue
    /\ cache' = [begun |-> load.begun, at |-> now,
                 password |-> load.password, tokens |-> load.tokens]
    /\ load' = [load EXCEPT !.done = ~TokensDue]
    /\ UNCHANGED <<tokens, engine, phase, filled, Outside>>

(* Only a load that succeeded as a whole replaces the payload.              *)
EndLoad ==
    /\ Loading
    /\ ~PasswordDue /\ ~TokensDue
    /\ cache' = [begun |-> load.begun, at |-> now,
                 password |-> load.password, tokens |-> load.tokens]
    /\ load' = [load EXCEPT !.done = TRUE]
    /\ UNCHANGED <<tokens, engine, phase, filled, Outside>>

(* A payload is at hand: one that was just loaded, or a young one.          *)
Payload == Loaded \/ (load = Nothing /\ ~Stale)

-----------------------------------------------------------------------------
(* The lifespan. *)

Start ==
    /\ phase = "stopped"
    /\ phase' = "listing"
    /\ started' = now
    /\ UNCHANGED <<cache, tokens, engine, load, filled, config, secret, now, past, rotations>>

(* get_bearer_tokens, for the log only: _store_cache is left empty.         *)
ListTokens ==
    /\ phase = "listing"
    /\ ~config.secret \/ Payload
    /\ phase' = "building"
    /\ load' = Nothing
    /\ UNCHANGED <<cache, tokens, engine, filled, Outside>>

(* init_engine: the URL is made once.                                       *)
InitEngine ==
    /\ phase = "building"
    /\ ~config.vault \/ Payload
    /\ engine' = IF config.vault THEN cache.password ELSE "url"
    /\ phase' = "up"
    /\ load' = Nothing
    /\ UNCHANGED <<cache, tokens, filled, Outside>>

StartLoads ==
    /\ \/ phase = "listing" /\ config.secret
       \/ phase = "building" /\ config.vault
    /\ BeginLoad

(* Mutant: it is tried again for as long as it fails.                       *)
StartFailsAgain ==
    /\ phase \in {"listing", "building"}
    /\ Loading
    /\ load' = [load EXCEPT !.password = Nothing, !.tokens = Nothing]
    /\ UNCHANGED <<cache, tokens, engine, phase, filled, Outside>>

(* A failed fetch ends the start, and with it the process.                  *)
StartFails == phase \in {"listing", "building"} /\ Loading /\ Exit

(* Mutant: the shutdown forgets the tokens.                                 *)
StopKeeping ==
    /\ phase' = "stopped"
    /\ engine' = Nothing
    /\ UNCHANGED <<cache, tokens, load, filled, Outside>>

(* The lifespan ends: dispose_engine and invalidate_token_cache.  The       *)
(* module's SecretsStore stays, should the process start the lifespan       *)
(* again.                                                                   *)
Stop ==
    /\ phase' = "stopped"
    /\ engine' = Nothing
    /\ tokens' = Nothing
    /\ UNCHANGED <<cache, load, filled, Outside>>

-----------------------------------------------------------------------------
(* validate_bearer_token *)

(* Mutant: the list is only good for secrets_refresh_seconds.               *)
TokensAtHandFresh == ~config.secret \/ Payload

(* _get_tokens: the list is made when it is first needed.                   *)
TokensAtHand == tokens # Nothing \/ ~config.secret \/ Payload

TokenList ==
    IF tokens # Nothing THEN tokens
    ELSE IF config.secret THEN cache.tokens ELSE EnvTokens

(* Mutant: the list is made and not kept.                                   *)
KeepTokensNot ==
    /\ filled' = IF tokens = Nothing THEN now ELSE filled
    /\ load' = Nothing
    /\ UNCHANGED <<cache, tokens, engine, phase, Outside>>

KeepTokens ==
    /\ tokens' = TokenList
    /\ filled' = IF tokens = Nothing THEN now ELSE filled
    /\ load' = Nothing
    /\ UNCHANGED <<cache, engine, phase, Outside>>

Matches(t) == {e \in TokenList : e.token = t}
=============================================================================
