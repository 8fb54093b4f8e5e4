------------------------------ MODULE RateLimit ------------------------------
(***************************************************************************)
(* The rate limiter, app/auth/rate_limit.py: one token bucket per token_id *)
(* in the memory of the process, refilled lazily by the check itself.  The *)
(* check has no await in it, so it is one step.                            *)
(*                                                                         *)
(* Levels are whole numbers: a request costs Token units and a tick brings *)
(* MaxTokens of them, which is the code's refill_rate exactly.  (The code  *)
(* computes in floats; rounding is not modelled.)                          *)
(***************************************************************************)
EXTENDS Integers

CONSTANTS
    Keys,        \* token_ids of authenticated callers
    MaxTokens,   \* rate_limit_requests
    WindowSec,   \* rate_limit_window_seconds
    Res,         \* clock ticks in a second
    Bypass,      \* is rate_limit_bypass_token set
    Horizon,     \* bound: last tick of a behaviour
    MaxBoots,    \* bound: restarts of the process
    NoBucket

ASSUME ParameterAssumption ==
    /\ MaxTokens \in Nat \ {0}
    /\ WindowSec \in Nat \ {0}
    /\ Res \in Nat \ {0}
    /\ Bypass \in BOOLEAN
    /\ Horizon \in Nat
    /\ MaxBoots \in Nat

Window == WindowSec * Res      \* in ticks
Token  == WindowSec * Res      \* units of level one request costs
Cap    == MaxTokens * Token

Ticks == 0 .. Horizon

Bucket == [tokens : 0 .. Cap, last : Ticks]

ASSUME NoBucketAssumption == NoBucket \notin Bucket

VARIABLES
    bucket,     \* _buckets
    now,        \* time.monotonic()
    boots,      \* history: restarts so far
    bootMark,   \* history: bootMark[t] is boots when tick t began
    spent,      \* history: requests of k admitted so far
    mark,       \* history: mark[k][t] is spent[k] when tick t began
    owed        \* history: instants at which a 429 told k to come back, since
                \* k was last admitted

vars == <<bucket, now, boots, bootMark, spent, mark, owed>>

TypeOK ==
    /\ bucket \in [Keys -> Bucket \cup {NoBucket}]
    /\ now \in Ticks
    /\ boots \in 0 .. MaxBoots
    /\ bootMark \in [Ticks -> 0 .. MaxBoots]
    /\ spent \in [Keys -> Nat]
    /\ mark \in [Keys -> [Ticks -> Nat]]
    /\ owed \in [Keys -> SUBSET Nat]
    /\ \A k \in Keys : bucket[k] # NoBucket => bucket[k].last <= now

Init ==
    /\ bucket = [k \in Keys |-> NoBucket]
    /\ now = 0
    /\ boots = 0
    /\ bootMark = [t \in Ticks |-> 0]
    /\ spent = [k \in Keys |-> 0]
    /\ mark = [k \in Keys |-> [t \in Ticks |-> 0]]
    /\ owed = [k \in Keys |-> {}]

(* Mutant: the refill has no ceiling.                                       *)
RefillUncapped(b, t) ==
    IF b = NoBucket THEN Cap ELSE b.tokens + (t - b.last) * MaxTokens

(* What a check at tick t finds in bucket b after the refill; a first check *)
(* makes a full bucket.                                                     *)
Refill(b, t) ==
    IF b = NoBucket THEN Cap
    ELSE LET level == b.tokens + (t - b.last) * MaxTokens
         IN  IF level < Cap THEN level ELSE Cap

Level(k) == Refill(bucket[k], now)

(* Mutant: without max(1, ...).                                             *)
RetryAfterZero(k) == (Token - Level(k)) \div (Res * MaxTokens)

(* max(1, int((1.0 - tokens) / refill_rate)), in seconds.                   *)
RetryAfter(k) ==
    LET wait == (Token - Level(k)) \div (Res * MaxTokens)
    IN  IF wait < 1 THEN 1 ELSE wait

(* Mutant: last_refill stays where it was.                                  *)
PutKeepingLast(k, level) ==
    bucket' = [bucket EXCEPT ![k] = [tokens |-> level,
        last |-> IF bucket[k] = NoBucket THEN now ELSE bucket[k].last]]

Put(k, level) == bucket' = [bucket EXCEPT ![k] = [tokens |-> level, last |-> now]]

(* Mutant: nobody is refused.                                               *)
AdmitAlways(k) ==
    /\ Put(k, Level(k) - Token)
    /\ spent' = [spent EXCEPT ![k] = @ + 1]
    /\ owed' = [owed EXCEPT ![k] = {}]
    /\ UNCHANGED <<now, boots, bootMark, mark>>

Admit(k) ==
    /\ Level(k) >= Token
    /\ Put(k, Level(k) - Token)
    /\ spent' = [spent EXCEPT ![k] = @ + 1]
    /\ owed' = [owed EXCEPT ![k] = {}]
    /\ UNCHANGED <<now, boots, bootMark, mark>>

(* Mutant: a refusal moves last_refill and forgets what was refilled.       *)
RejectForgetting(k) ==
    /\ Level(k) < Token
    /\ Put(k, IF bucket[k] = NoBucket THEN Cap ELSE bucket[k].tokens)
    /\ owed' = [owed EXCEPT ![k] = @ \cup {now + RetryAfter(k) * Res}]
    /\ UNCHANGED <<now, boots, bootMark, spent, mark>>

(* 429: the refill is kept, nothing is taken.                               *)
Reject(k) ==
    /\ Level(k) < Token
    /\ Put(k, Level(k))
    /\ owed' = [owed EXCEPT ![k] = @ \cup {now + RetryAfter(k) * Res}]
    /\ UNCHANGED <<now, boots, bootMark, spent, mark>>

(* A request with the right X-RateLimit-Bypass header leaves the buckets    *)
(* alone, whatever they hold.                                               *)
PassBy(k) ==
    /\ Bypass
    /\ UNCHANGED vars

Check(k) == Admit(k) \/ Reject(k) \/ PassBy(k)

(* The process is started anew, with no bucket.                             *)
Restart ==
    /\ boots < MaxBoots
    /\ boots' = boots + 1
    /\ bucket' = [k \in Keys |-> NoBucket]
    /\ UNCHANGED <<now, bootMark, spent, mark, owed>>

Tick ==
    /\ now < Horizon
    /\ now' = now + 1
    /\ bootMark' = [bootMark EXCEPT ![now + 1] = boots]
    /\ mark' = [k \in Keys |-> [mark[k] EXCEPT ![now + 1] = spent[k]]]
    /\ UNCHANGED <<bucket, boots, spent, owed>>

Next == (\E k \in Keys : Check(k)) \/ Restart \/ Tick

Spec == Init /\ [][Next]_vars

-----------------------------------------------------------------------------
(* Properties. *)

AdmittedSince(k, t) == spent[k] - mark[k][t]

BootsSince(t) == boots - bootMark[t]

(* However its requests are placed, a key is admitted at most twice         *)
(* rate_limit_requests times in any window, and that much more for every    *)
(* restart inside the window: a full bucket, and a window's refill.         *)
BurstBound ==
    \A k \in Keys : \A t \in Ticks :
        t <= now /\ now <= t + Window
        => AdmittedSince(k, t) <= MaxTokens * (2 + BootsSince(t))

(* A client that waits as long as Retry-After said is admitted, however     *)
(* often it was refused in the meantime and across a restart, unless a      *)
(* request of the same key came in first.  This needs a rate of at least    *)
(* one request a second (the defaults are 100 in 60 s): below it int() may  *)
(* cut the wait too short.                                                  *)
RetryAfterHonoured ==
    MaxTokens >= WindowSec =>
        \A k \in Keys : \A t \in owed[k] : t <= now => Level(k) >= Token

(* Over a long time the rate is the configured one: what a key was admitted *)
(* since t and what it has left come from one full bucket a start, and the  *)
(* refill.                                                                  *)
RateBound ==
    \A k \in Keys : \A t \in Ticks :
        t <= now
        => Token * AdmittedSince(k, t) + Level(k)
             <= Cap * (1 + BootsSince(t)) + (now - t) * MaxTokens

(* The refill is lazy: only a check writes a bucket, and _Bucket remembers  *)
(* when.  No client can tell: in admissions, refusals and restarts the      *)
(* limiter is the token bucket its docstring names, filled at every tick.   *)
Eager == INSTANCE TokenBucket WITH
    Cost <- Token,
    Rate <- MaxTokens,
    level <- [k \in Keys |-> Level(k)],
    refused <- [k \in Keys |-> owed[k] # {}]

ImplementsTokenBucket == Eager!Spec
=============================================================================
