# TLA+ models of FAM-Backend

FAM-Backend is a FastAPI service in one asyncio process over PostgreSQL (async
SQLAlchemy). It keeps user accounts, lawyer profiles and contracts, signs users in
by password or Google, and limits the rate of its callers. This directory holds
TLA+ modules of its stateful parts, TLC configurations that check them on small
instances, and TLAPS proofs of the most important results for every value of the
constants. Paths below are relative to the repository root.

## Inventory

| Component | State | Operations | Hard parts |
|---|---|---|---|
| Account endpoints (`app/api/routes/users.py`, `app/services/auth.py`, `app/api/routes/auth.py`) | table `users` (unique `email`, unique `idempotency_key`) | create, patch, lookup, list, get, sign-up, log-in, Google callback | look-up and insert are separate awaits; commits that are answered 504; two ways of spelling an address; what a log-in checks is a row loaded before |
| Lawyers and contracts (`app/api/routes/lawyers.py`, `subscribe` in `users.py`, `app/services/lawyer.py`) | tables `lawyers` (unique `user_id`, soft delete) and `lawyer_contracts` | promote, update, demote, contract, revise, subscribe, listings | read, decide, write without locks or versions; column-wise updates from stale objects; soft-deleted rows under a unique constraint |
| `db.query()` and the pool (`app/db/query.py`, `app/db/engine.py`) | checked-out connections, attempts, the transaction under way | one call | retries against commits; cancellation by `wait_for`; a second check-out after a commit; two awaits outside the timer |
| Rate limiter (`app/auth/rate_limit.py`) | one token bucket per `token_id`, in memory | check, bypass | bursts at the window's edge, rounding of Retry-After, restarts |
| Sessions (`app/auth/base.py`, `session.py`, `jwt.py`, `app/api/deps.py`) | none but the tokens | `require_auth`, `require_current_user` | four kinds of credentials and their order; two formats of `sub`; what development lets pass |
| Secrets and token cache (`app/secrets/loader.py`, `app/auth/bearer.py`) | two caches of different lifetime | load, refresh, validate, invalidate | a rotated token stays valid; a load is several calls that fail one by one and block the event loop |
| Dashboard and listings (`app/services/profile.py`, GET routes) | none | reads of several statements | READ COMMITTED: each statement sees another table; pages cut by offset from a list that grows and whose order has ties |
| Start and stop (`app/main.py`) | the engine, the caches | lifespan | a start that fails half-way; what survives a stop |
| Migrations, metrics, logging, schemas | — | — | output and declarations |

Interaction: a request passes `require_auth`, which asks the token cache, then
`check_rate_limit`, then its handler. The handler calls `query()` once or twice
with a function over a session. Every handler shares the tables and the pool;
nothing else is shared but the buckets and the caches. The only concurrency is at
awaits: between two awaits a task runs alone, while the database serves the other
tasks' statements.

What makes each component correct, in a sentence:

- accounts: one Idempotency-Key is one account; nobody gets an account by a
  log-in that does not match it; every request looks like one atomic step;
- lawyers: one profile per user for good; demotions stay; contracts are with
  lawyers who took clients, and never with oneself;
- `query()`: a transaction is applied at most once over all attempts, what is
  reported as written was written, connections come back, and every wait has a timer
  but for two round trips to the database, SET LOCAL and the session's close;
- rate limiter: bounds on bursts and on the rate, an honest Retry-After;
- tokens and sessions: the tokens believed are those of one load of this lifespan;
  an outage of Secrets Manager stops a start or the first look-up, never a later
  call; outside development a caller is the one their credential names; no call and
  no start hangs in a load;
- readers: what several statements tell agrees as far as a client can count on it,
  nothing committed before a request is missing from its answer, and a walk through
  the pages meets everybody but rows that share an instant, and lawyers when one
  leaves.

`PROJECT.json` lists every hazard with its line and the properties that watch it.

## Modules

| Module | What it is |
|---|---|
| `Accounts` | the account endpoints, one step per await |
| `AtomicAccounts` | the same endpoints with each request served in one step |
| `AccountsProofs` | the safety invariants of `Accounts`, proved |
| `AtomicProofs` | that `Accounts` implements `AtomicAccounts`, proved |
| `Lawyers` | profiles and contracts, a read step and a write step per handler |
| `LawyersProofs` | the safety invariants of `Lawyers`, and that its commits are those of `Reads`, proved |
| `Reads` | the GET endpoints, one step per statement, among the commits of the others |
| `ReadsProofs` | its invariants, proved |
| `TokenStore` | secrets, token list and lifespan of one process |
| `Access` | `TokenStore` with the callers: which credential decides, and the process as a whole |
| `AccessProofs` | its safety invariants, proved |
| `DbQuery` | `query()` and the pool, one step per await |
| `DbCall` | what a handler may rely on when it calls `query()` |
| `DbQueryProofs` | invariants of `DbQuery` and its refinement of `DbCall`, proved |
| `RateLimit` | the token buckets on a discrete clock |
| `TokenBucket` | what a rate limiter promises: buckets that the clock fills |
| `RateLimitProofs` | the bounds of `RateLimit` and its refinement of `TokenBucket`, proved |
| `MC*` | small instances of the above for TLC |

### Accounts

`users[u]` is the committed row of account `u`, or `NoRow`. A request inserts at
most one row, so requests double as the uuids of the rows they insert. `pc[r]` is
the await at which a request stands:

| `pc` | create | patch | sign-up | log-in | Google | lookup |
|---|---|---|---|---|---|---|
| `find` | `users.py:105` | `:220` | `auth.py:29` | `:76` | `:125` | `:181` |
| `insert` | `:122` | | `:57` | | `:153` | |
| `replay` | `:126` | | | | | |
| `update` | | `:230` | | | | |
| `verify` | | | | `:106` | | |

A constraint (`Violates`) is evaluated by the step that commits, on the rows
committed then: that is what PostgreSQL does, which makes a second insert of a
unique value wait for the first transaction to end. `Timeout` and
`CommitThenTimeout` are the two outcomes of a call that `asyncio.wait_for` cuts
off; `Retry` is `query()` starting the function over after a deadlock. Any other
database error ends a request as `Timeout` does, with 500 for 504, and has no
action of its own. `held` and `before` are history: the methods an account has
had, and the accounts committed when a request arrived.

What is abstracted: display names; hashing (a password is its hash, which
`verify_password` decides exactly); addresses are members of a set with `Lower`;
the answers are reduced to a status and the account they describe. `deleted_at`
of users is left out, no handler sets it.

The refinement: `Accounts` implements `AtomicAccounts`. Each request takes effect
in one step: an insert or an update when it commits, a refusal or a replay when
the deciding row is read. A log-in takes effect when it has *loaded* the row; the
mapping `Decided` gives it its answer there, before the hash is compared. The
abstract module is what the endpoints amount to, not what their docstrings promise.
It shows what clients must expect: a sign-up that loses a race is answered 500
(`signup_race`), a log-in for an account of another method 409 where the docstring has
401 (`login_failure`), and a patch that repeats the value it loaded may leave a
concurrent patch standing.

### Lawyers

`lawyers`, `contracts` hold the committed rows. `seen[r]` is the object the
handler loaded. A write stores the columns whose value differs from the loaded
one (`Column`): that is how SQLAlchemy flushes, and why a stale update leaves a
demotion's `deleted_at` alone. `gone` and `offered` are history: whether the lawyer
a request names was demoted when it arrived, and whether it was open to clients at
some instant while it was handled. Users are never deleted. `null` stands for the bodies that make the
write fail on NOT NULL or that are refused with 400. A date of a contract is
the request that set it, and `dated` is history: the dates that were recorded when
a revision arrived. Rating, review and the descriptive columns do
not meet any of the properties and are left out.

`SubscribeWrite` is the code as it is: the row's `lawyer_id` is a user's uuid, and
the foreign key refuses it. A title left out would be refused as well, with the
same answer.

### Reads

`pc[r]` names the statement at which a reader's request stands, `got[r]` what its
statements have returned:

| `pc` | users | lawyers | user | lawyer | engaged | engaging | dashboard |
|---|---|---|---|---|---|---|---|
| `count` | `users.py:56` | | | | | | |
| `rows` | `:58` | `lawyers.py:124` | | | | | |
| `user` | | | `users.py:270` | | | `lawyers.py:292` | `profile.py:25` |
| `lawyer` | | | `:276` | `:161`, `:176` | `:272` | | `:31` |
| `ratings` | | `lawyer.py:60` | | `lawyer.py:36` | | | `lawyer.py:36` |
| `counts` | | `:74` | | `:44` | | | `:44` |
| `contracts` | | | | | `lawyers.py:279` | `:298` | `profile.py:45` |
| `owners` | | | | | | | `profile.py:63` |

The writers are the commits of `Accounts` and `Lawyers` that add or change what
these statements look at, one step each: their reads and their refusals do not
concern a reader. Users stand for the uuids of their profiles, which are theirs for
good (`PromotedOnce`). That the writers of `Reads` do all that the lawyers' endpoints
may commit is a property of `Lawyers`, `CommitsReadersExpect`, through the mapping
`View`: a user is shown with its one profile, instants are those of the requests that
inserted the rows. It is why `Update` and `Demote` also write profiles that are
demoted already (an update that loaded the profile before a demotion writes its column
after it), and why a demotion may leave the status as it is (one that loaded
"inactive" does not write it). `known` and `walk` are history: what was committed when the
request arrived, whom a client that walks the pages has to meet and has met.

Both listings are sorted by an instant and nothing else (`users.py:61`,
`lawyers.py:123`), and nothing makes the instants differ: `created_at` and
`promoted_at` are the start of the inserting transaction (`models.py:21`, `:56`). So
rows may tie, and each `SELECT` brings tied rows in an order of its own: `UserRows`
and `LawyerRows` choose it anew (`TieBreaks`). A walk may then meet one row twice and
its twin never. `WalkFindsEveryone` says how far that goes: a row that shares its
instant with no other is met, whatever ties stand before or behind it. For tied rows,
and for lawyers when one has left the listing, it promises nothing.

What is abstracted: the filter of a lawyer's contracts by status; the statement of
`selectinload`, whose result no answer uses; ratings are reduced to whether there is
one, and an average to the set it is of; `query()`'s retries, since a transaction
that only reads is not aborted under READ COMMITTED.

### TokenStore and Access

`cache` is the payload of `SecretsStore` with the ticks at which its load began and
ended; `tokens` is `_store_cache`; `engine` is the password in the engine's URL;
`phase` is how far the lifespan is: `listing` (`main.py:28`), `building` (`:37`),
`up`. `load` is a load under way. It goes on in steps (`Fetch`, one call of Secrets
Manager each) between which the clock moves, secrets are rotated and the process
may be killed, while no other task of the process runs. `past` is history: what the
secret held at each tick. `Exit` is the end of the process, which loses all of it.
`Stop` is the end of a lifespan alone: the `SecretsStore` of the module stays.

`asked` and `answer` are the request whose caller is being resolved; there is one
at a time, since neither dependency awaits. A caller is a cookie, an Authorization
header and an X-User-Id; JWTs are those a log-in up to now may have given out
(`Issued`, more than were). A `sub` is `<<"user", id>>`, and `AsUuid` is what the
dashboard's parser makes of it: nothing. That is why `ByBareSubject` is in the model
as the code has it and why no run reaches an answer through it for such tokens.

`CredentialDecides` compares whom a caller is taken for with whom the credential they
sent names (`Named`). Outside development they agree. In development the dashboard
falls back on X-User-Id for any bearer that names no user (`session.py:88`), and the
JWT of a log-in is one of them: ada's live JWT with an X-User-Id of bob is answered
as bob. The property says so as an exception of its own; `jwt_dashboard` shows it as a
violation of what the README promises of a JWT.

What is abstracted: the Google secret and the bypass secret are fetched in the same
loop and only add chances to fail; a deployment has either `AUTH_SECRET_ARN` or
`BEARER_TOKENS_JSON`, and either `DATABASE_URL` or `DATABASE_SECRET_ARN`; a token
stands in one entry of a list (`UniqueAssumption`); log-ins themselves are in
`Accounts`, the bucket the caller is then charged to in `RateLimit`.

### DbQuery

`pc[c]` is the await: `wait` for a connection, `set` for SET LOCAL, `body` for
the handler's function up to its commit, `again` and `refresh` for the check-out
and the statement after a commit or a rollback, `close` for the ROLLBACK that leaving
`async with session_factory()` sends when the session still has a connection,
`backoff` for the sleep. `outcome` is decided before the close and told after it
(`Told`); an error of the close takes its place. A call that has just committed holds
no connection and ends without a close. Which
functions commit, roll back or refresh is the handlers' choice and left open.
Outside the repository: a statement is answered, fails or is never answered;
PostgreSQL raises 40001 and 40P01 only for transactions it aborts, and so never
for a committed one; a commit leaves nothing to roll back. After a cancellation the
driver may drop the connection instead of rolling back; the model has the close wait
there as well, which is one more place to hang and no less. The model gives
the retry the meaning of the code's `except OperationalError`; whether the driver
reports both states as that class is the driver's matter.

### RateLimit

Levels are whole: a request costs `WindowSec * Res` units and a tick brings
`MaxTokens`, which is the code's rate exactly. The code's floats round; that is
not modelled. `mark`, `spent`, `bootMark` and `owed` are history.

The code has no timer: a bucket is written by the checks of its key alone, the 429s
included, and holds what was there then. `TokenBucket` has every bucket filled by
every tick. `RateLimit` implements it with `level` mapped to what a check would find
(`Level`) and `refused` to whether a 429 is outstanding: when a caller asks, how often
it is refused and who else asks make no difference to what it is admitted.

## Runs

| Run | Instance | Shows |
|---|---|---|
| `accounts` | 3 requests of any kind, 2 spellings of one address, 2 keys, 2 passwords; 283 k states | seven invariants, and the refinement of `AtomicAccounts` |
| `lawyers` | 4 requests, 2 users; 816 k states | seven invariants, and that every commit is one `Reads` assumes |
| `reads` | 1 reader, 3 users, 2 instants, 2 contracts, pages of 1 and 2; 347 k states | six invariants |
| `access` | 2 deployments, 3 tokens, 2 users, clock to 2, refresh after 1, 1 rotation; 262 k states | five invariants, two liveness properties |
| `db_query` | 3 calls (2 that write), pool of 2, 2 attempts; 42 k states | invariants, refinement of `DbCall`, termination but for SET LOCAL and the close |
| `rate_limit` | 2 callers, limit 2 in a window of 1 s, 3 ticks a second, 4 ticks, 1 restart; 300 k states | bounds on bursts and rate, Retry-After, the refinement of `TokenBucket` |
| `signup_race`, `google_upsert`, `login_failure` | 2 requests | findings, see below |
| `subscribe`, `hang`, `jwt_dashboard` | 2 requests; 2 calls; as `access` | findings |

Why the bounds are enough. *accounts*: the properties relate two requests of a
client (an attempt and its repetition) or two rivals for one address, with a third
that patches or inserts between their steps; the proofs below cover any number.
*lawyers*: a contract needs a promotion and a creation, and two more requests
interfere with it (a demotion and an update, or two revisions); the second user
is the client. *reads*: readers do not meet each other, so one is enough; three users
make a page of two followed by another, a row that comes in above the first, and two
that tie beside one that does not; two contracts make one rated beside one that is
not. `Worthwhile` (`MCReads`), a state constraint, stops where nothing is left to
show: after the last answer, where a walk of lawyers has seen one leave, and where
tables vary that the endpoint asked does not read. The proofs cover any number, and
no constraint. *access*: two ticks hold a load that is younger than
`RefreshSecs` and one that has aged, and one rotation falls before, into, or after
each of them; the second deployment is a developer's machine, the only one where
X-User-Id counts. *db_query*: two calls fill the pool and a third waits; two
attempts have one that may be retried and one that may not. *rate_limit*: the
horizon is a window and a tick, so a window that starts full, one that starts
empty, and a restart inside one all occur; the limit of 2 makes a partial refill
differ from a whole token. `Horizon` and `MaxBoots` bound the clock and the
restarts and nothing else; in `access`, `Horizon` and `MaxRotations` bound the clock
and the rotations, while starts and crashes are unbounded.

Symmetry is used where the constants are interchangeable (requests, users, keys,
contracts)
and only in runs of invariants and of the safety properties `ImplementsAtomic`,
`ImplementsTokenBucket` and `CommitsReadersExpect`, which treat them alike: none
of them compares instants of the requests.

`CHECK_DEADLOCK FALSE`: each instance has finitely many requests and a clock that
ends, and stops when all are answered. `reads` stops when the reader is done and no
writer has anything left to write.

### Fairness

`db_query` and `hang` state fairness for timers that belong to the process: the pool's `pool_timeout`, `asyncio.wait_for` and `asyncio.sleep`. The
event loop fires a timer that is due, so each is weakly fair. Nothing is assumed
of the database: a statement may never be answered. Under that assumption
`TimersSuffice` holds: every call ends, or stands for good at SET LOCAL or at the close
of its session, the two awaits that no timer covers. `hang` grants in addition that
every close is answered (`ClosingSpec`), so that its counterexample to `EveryCallEnds`
is an unanswered SET LOCAL and nothing else.

`access` assumes that the process goes on (`WF_vars(Process)`): the event loop runs
the one task that can run, and a call of Secrets Manager ends, with an answer or
with an exception. The latter is botocore's, whose connections and reads time out by
default; nothing is assumed about which of the two it is, so a load may fail for
ever. The clock, rotations, requests, crashes and restarts are not fair.

### What the violated runs show

- `signup_race`: `services/auth.py:25` promises a 409; the loser of a race gets 500.
- `google_upsert`: the "upsert" of `services/auth.py:117` is a look-up by e-mail and
  an insert that may fail with 500 on the e-mail or on `google:<sub>`.
- `login_failure`: `services/auth.py:73` promises 401 on any failure; a log-in for an
  account of another method is answered 409 with the method's name (`:98`).
- `subscribe`: every subscription to a lawyer is answered "already subscribed".
- `hang`: SET LOCAL is outside `wait_for`. So is the close; the run leaves it out.
- `jwt_dashboard`: the JWT a log-in gives out has the subject `user:<id>`; the
  dashboard parses a bare uuid and takes the failure for a missing JWT. It answers 401,
  or in development whoever X-User-Id names, against `README.md:61` and `session.py:6`.

Two divergences have no run. `ARCHITECTURE.md:339` calls the limiter a sliding window
counter, and it is a token bucket; `BurstBound` and `RateBound` state what it keeps.
And a Google log-in for an account that `POST /users` made without a password is told
to "log in with email and password" (`services/auth.py:137`), because every method but
Google's is taken for that one.

## Proofs

Each theorem is `Spec => []P` for an invariant `P` that a run checks, or `Spec => P`
for a refinement or an action property, from the named ASSUMEs of the module, for
every value of the constants.

**AccountsProofs.** The inductive invariant is `IInv`. `Base` is the type
invariant with what every handler relies on: a request that is not done has
inserted nothing, what `verify` and `update` have loaded is still there.
`UniqueKeys` and `MethodsHeld` are the table's part. `Owes(r)` strengthens the
properties to what a handler knows where it waits: that a create at `replay` saw
a violated constraint (else its 409 might be without cause), that a sign-up at
`insert` had no account with its address in sight when it arrived, that a log-in
at `verify` holds the password of an account of its address. The argument has two
halves. Tables only grow: an account keeps address, key, password and the methods
it had (`TableGrows`), so what is owed to a request that waits stays true
(`WaitingOwes`). And the request that acts establishes what it owes
(`CreateOwes` ... `PatchOwes`). TLC checked `IInv` on the instance of `accounts`.

**AtomicProofs.** The abstract state is the table and, for each request, its call, its
answer and whether it has one. The mapping gives a log-in its answer when it has loaded
the account (`Decided`), one step before the concrete one; every other request has it
when it is done. `IInv` is not enough, since a step of the abstract module depends on
what a request is doing as well: that it has no answer before it is done, that only
operations that insert come to an insert, that a create without a key never looks for
one, and that a patch writes, or leaves standing, a method its account has had. `Paced`
says so; the last of these needs the history `held`, because the row a patch has loaded
may be out of date by now. `AInv` is `IInv` with `Paced` for every request; TLC checked
it on the instance of `accounts`. Each handler step is then an abstract step or a
stutter (`AtomicCreate` ... `AtomicLookup`, `AtomicCutOff`), and `RequestsAreAtomic` is
the refinement.

**DbQueryProofs.** `Inv` adds to types and pool that an attempt under way, or one that
is closed in order to be repeated (`Again`), has committed nothing, and that what a
call is about to report fits what it committed (`Phase`); so a retry repeats nothing,
and a commit maps to the abstract `Apply`. `QueryKeepsPromise` is the refinement: initial states map to initial
states, each step to a step of `DbCall` or to a stutter.

**RateLimitProofs.** `RateBound` is an invariant of the token bucket's kind
(admissions and level against capacity and refill) and is inductive with the types
and the monotony of the histories; `BurstBound` follows from it by arithmetic.
`RetryAfterHonoured` needs that a level does not sink between a refusal and the
next admission. `LimiterIsTokenBucket`, the refinement, rests on two facts about
`Refill`: one tick adds one tick's refill up to a full bucket, wherever the bucket was
last written (`RefillTick`), and writing back what a check found changes nothing
(`RefillTwice`, `LevelAfterPut`).

**LawyersProofs.** The properties speak of requests that overlap, so `IInv` keeps
for each request what it saw and what has become of it: that a request between its
two steps holds a row that was committed and whose immutable columns still are
(`Handled`), that what an answer announced stays true (`Told`), that profiles are
unique over demoted ones too (`Unique`), that contracts have the dates their status
asks for and that a recorded date was set by a request that found none (`Sound`,
`SetBy`). A write of stale columns cannot disturb the rest, because `Column` leaves
alone what it does not change. `CommitsAreExpected` composes the module with `Reads`:
under `IInv` each writing step shows through `View` as a `Promote`, an `Update` or a
`Demote` (`PromoteShows`, `RewriteShows`), as a `Sign` (`SignShows`) or, for a revision,
as nothing (`ReviseShows`). `Unique` makes the profile shown for a user the same before
and after, and what `KnowsClient` knows makes a contract one of two different users.

**AccessProofs.** `IInv` says of a load under way what the properties say of its
result: each part it has was in the secret at some tick since it began. `past` only
grows and the clock only advances, so this survives every step of the world; a
payload and then a token list inherit it. `OutageOnlyAtFirst` rests on `served`
implying that the list is there, after which nothing loads.

**ReadsProofs.** First a few lemmas about positions in a finite set ordered by
instants and, among equal ones, by the order a statement chose: no position is left out (`PositionsFilled`, from the pigeonhole
facts of the library), so a slice that is not full is the last (`SliceFacts`). The
inductive invariant says of each reader that what it has read is still there
(`Arrived`), that its numbers are in the right order (`Counted`, `Totalled`,
`Collected`), and where its walk stands (`Walking`): whoever was listed when it began
has been met, or stands behind the pages read so far, or ties with another row. A row
that ties with none has the same place in every order (`UntiedAhead`). Writers only let
rows grow (`Grown`) and, as long as nobody leaves, move nobody up and part no ties
(`NobodyMovesUp`).

From `UniqueAssumption`, `SubjectAssumption`, `NullAssumption` and their likes the
proofs take that distinguished values are distinct and that the sets of users and
contracts are finite; from `InstantAssumption`, that instants are numbers.
TLC evaluates each of them in the runs.

Only model-checked: `TimersSuffice`, `EveryCallAnswered`,
`EveryStartEnds` (liveness under fairness is out of the prover's reach).

## Plan

Done: all components that keep state or read it, with the safety invariants of all
of them proved. What would come next:

1. `Api` — the composition of caller, bucket, handler and `query()`. Each pair meets
   only through values (a subject, a function, a result), which is why the modules
   stand alone; a composition would have to show that a request is charged once.
2. The status of contracts in `Reads`: the session's identity map returns contracts
   loaded by an earlier statement (`lawyers.py:279`), so a filtered listing may show
   the old status.

## Not modelled

Metrics, logging, response layout and headers, the migrations (run by hand, with the
service stopped), routers and middleware, and `app/services/subscription.py`, which
nothing calls. Of accounts: the redirect to Google, whose state lives in the signed
session cookie, and logout, which only deletes a cookie. Rows are never deleted by a
handler, so `ON DELETE CASCADE` has no step.
