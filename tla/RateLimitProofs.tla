--------------------------- MODULE RateLimitProofs ---------------------------
(***************************************************************************)
(* The bounds of the rate limiter, for every rate, window, clock           *)
(* resolution and set of keys.                                             *)
(***************************************************************************)
EXTENDS RateLimit, TLAPS

(* A refused key finds enough in its bucket when it was told to come back,  *)
(* or now if that has passed already.                                       *)
PromiseInv ==
    MaxTokens >= WindowSec =>
        \A k \in Keys : \A t \in owed[k] :
            Refill(bucket[k], IF t < now THEN now ELSE t) >= Token

-----------------------------------------------------------------------------
(* Arithmetic. *)

(* A window is as long as the units of a request: both are WindowSec * Res. *)
LEMMA Units ==
    /\ Token \in Nat \ {0}
    /\ Cap \in Nat
    /\ Token <= Cap
    /\ Cap = MaxTokens * Token
    /\ Window = Token
    /\ MaxTokens \in Nat \ {0}
    /\ Res * WindowSec = Token
<1> USE ParameterAssumption
<1>1. Token \in Nat \ {0} /\ Window = Token /\ Res * WindowSec = Token
  BY Z3 DEF Token, Window
<1>2. Cap = MaxTokens * Token
  BY DEF Cap
<1>3. ASSUME NEW m \in Nat \ {0}, NEW n \in Nat \ {0}
      PROVE  m * n \in Nat /\ n <= m * n
  BY Z3
<1> QED BY <1>1, <1>2, <1>3

(* Multiplication distributes over the sums that occur.                     *)
LEMMA Distribute ==
    ASSUME NEW a \in Int, NEW b \in Int, NEW c \in Int
    PROVE  /\ (a + b) * c = a * c + b * c
           /\ c * (a + b) = c * a + c * b
           /\ c * 1 = c /\ 1 * c = c
OBVIOUS

LEMMA Monotone ==
    ASSUME NEW a \in Int, NEW b \in Int, NEW c \in Nat, a <= b
    PROVE  a * c <= b * c
BY Z3

-----------------------------------------------------------------------------
(* The refill. *)

(* A level is always between nothing and a full bucket.                     *)
LEMMA RefillType ==
    ASSUME NEW b \in Bucket \cup {NoBucket}, NEW t \in Nat,
           b # NoBucket => b.last <= t
    PROVE  Refill(b, t) \in 0 .. Cap
<1>1. CASE b = NoBucket
  BY <1>1, Units DEF Refill
<1>2. CASE b # NoBucket
  <2>1. b.tokens \in 0 .. Cap /\ b.last \in Nat /\ b.last <= t
    BY <1>2 DEF Bucket, Ticks
  <2>2. (t - b.last) * MaxTokens \in Nat
    <3>1. t - b.last \in Nat
      BY <2>1
    <3> QED BY <3>1, Units
  <2> QED BY <1>2, <2>1, <2>2, Units DEF Refill
<1> QED BY <1>1, <1>2

(* Waiting never takes tokens away, and one tick brings MaxTokens at most.  *)
LEMMA RefillGrows ==
    ASSUME NEW b \in Bucket \cup {NoBucket}, NEW t \in Nat, NEW u \in Nat, t <= u
    PROVE  /\ Refill(b, t) <= Refill(b, u)
           /\ Refill(b, t + 1) <= Refill(b, t) + MaxTokens
<1>1. CASE b = NoBucket
  BY <1>1, Units DEF Refill
<1>2. CASE b # NoBucket
  <2>1. b.tokens \in 0 .. Cap /\ b.last \in Nat
    BY <1>2 DEF Bucket, Ticks
  <2>2. (t - b.last) * MaxTokens <= (u - b.last) * MaxTokens
    BY <2>1, Monotone, Units
  <2>3. ((t + 1) - b.last) * MaxTokens = (t - b.last) * MaxTokens + MaxTokens
    <3>1. (t + 1) - b.last = (t - b.last) + 1
      BY <2>1
    <3> QED BY <2>1, <3>1, Distribute, Units
  <2>4. /\ (t - b.last) * MaxTokens \in Int
        /\ (u - b.last) * MaxTokens \in Int
    BY <2>1, Units
  <2> QED BY <1>2, <2>1, <2>2, <2>3, <2>4, Units DEF Refill
<1> QED BY <1>1, <1>2

(* Refilling in between changes nothing: a check that refuses leaves the    *)
(* bucket that every later check would have found.                          *)
LEMMA RefillTwice ==
    ASSUME NEW b \in Bucket \cup {NoBucket}, NEW t \in Nat, NEW u \in Nat, t <= u,
           [tokens |-> Refill(b, t), last |-> t] # NoBucket
    PROVE  Refill([tokens |-> Refill(b, t), last |-> t], u) = Refill(b, u)
<1> DEFINE n == [tokens |-> Refill(b, t), last |-> t]
<1>0. (u - t) * MaxTokens \in Nat
  <2>1. u - t \in Nat
    OBVIOUS
  <2> QED BY <2>1, Units
<1>1. CASE b = NoBucket
  BY <1>0, <1>1, Units DEF Refill
<1>2. CASE b # NoBucket
  <2>1. b.tokens \in 0 .. Cap /\ b.last \in Nat
    BY <1>2 DEF Bucket, Ticks
  <2>2. (u - b.last) * MaxTokens = (t - b.last) * MaxTokens + (u - t) * MaxTokens
    <3>1. u - b.last = (t - b.last) + (u - t)
      BY <2>1
    <3>2. t - b.last \in Int /\ u - t \in Int
      BY <2>1
    <3> QED BY <3>1, <3>2, Distribute, Units
  <2>3. (t - b.last) * MaxTokens \in Int
    BY <2>1, Units
  <2> QED BY <1>0, <1>2, <2>1, <2>2, <2>3, Units DEF Refill
<1> QED BY <1>1, <1>2

(* The bucket a check leaves is a bucket, so it is not NoBucket.            *)
LEMMA PutIsBucket ==
    ASSUME TypeOK, NEW l \in 0 .. Cap
    PROVE  /\ [tokens |-> l, last |-> now] \in Bucket
           /\ [tokens |-> l, last |-> now] # NoBucket
BY NoBucketAssumption DEF TypeOK, Bucket

LEMMA LevelType ==
    ASSUME TypeOK, NEW k \in Keys
    PROVE  /\ Level(k) \in 0 .. Cap
           /\ bucket[k] \in Bucket \cup {NoBucket}
           /\ now \in Nat
<1>1. bucket[k] \in Bucket \cup {NoBucket} /\ now \in Nat
  BY ParameterAssumption DEF TypeOK, Ticks
<1>2. bucket[k] # NoBucket => bucket[k].last <= now
  BY DEF TypeOK
<1> QED BY <1>1, <1>2, RefillType DEF Level

(* Retry-After is at least one second.                                      *)
LEMMA RetryAfterPositive ==
    ASSUME TypeOK, NEW k \in Keys
    PROVE  RetryAfter(k) \in Nat \ {0}
<1>1. Level(k) \in Int
  BY LevelType
<1>2. Res * MaxTokens \in Nat \ {0}
  BY ParameterAssumption, Z3
<1>3. (Token - Level(k)) \div (Res * MaxTokens) \in Int
  BY <1>1, <1>2, Units
<1> QED BY <1>3 DEF RetryAfter

-----------------------------------------------------------------------------
(* Type correctness. *)

LEMMA TypeInit == Init => TypeOK
BY ParameterAssumption DEF Init, TypeOK, Ticks

LEMMA TypeAdmit ==
    ASSUME TypeOK, NEW k \in Keys, Admit(k)
    PROVE  TypeOK'
<1> DEFINE b == [tokens |-> Level(k) - Token, last |-> now]
<1>1. Level(k) - Token \in 0 .. Cap
  BY LevelType, Units DEF Admit
<1>2. b \in Bucket
  BY <1>1, PutIsBucket
<1>3. bucket' = [bucket EXCEPT ![k] = b]
  BY DEF Admit, Put
<1>4. spent' \in [Keys -> Nat] /\ owed' \in [Keys -> SUBSET Nat]
  BY DEF Admit, TypeOK
<1>5. b.last = now
  OBVIOUS
<1> HIDE DEF b
<1>6. bucket' \in [Keys -> Bucket \cup {NoBucket}]
  BY <1>2, <1>3 DEF TypeOK
<1>7. \A j \in Keys : bucket'[j] # NoBucket => bucket'[j].last <= now
  BY <1>3, <1>5, LevelType DEF TypeOK
<1> QED BY <1>4, <1>6, <1>7 DEF Admit, TypeOK

LEMMA TypeReject ==
    ASSUME TypeOK, NEW k \in Keys, Reject(k)
    PROVE  TypeOK'
<1> DEFINE b == [tokens |-> Level(k), last |-> now]
           d == now + RetryAfter(k) * Res
<1>1. b \in Bucket
  BY LevelType, PutIsBucket
<1>2. bucket' = [bucket EXCEPT ![k] = b]
  BY DEF Reject, Put
<1>3. d \in Nat
  <2>1. RetryAfter(k) * Res \in Nat
    BY RetryAfterPositive, ParameterAssumption
  <2> QED BY <2>1, LevelType
<1>4. owed' = [owed EXCEPT ![k] = @ \cup {d}]
  BY DEF Reject
<1>5. b.last = now
  OBVIOUS
<1> HIDE DEF b, d
<1>6. owed' \in [Keys -> SUBSET Nat]
  BY <1>3, <1>4 DEF TypeOK
<1>7. bucket' \in [Keys -> Bucket \cup {NoBucket}]
  BY <1>1, <1>2 DEF TypeOK
<1>8. \A j \in Keys : bucket'[j] # NoBucket => bucket'[j].last <= now
  BY <1>2, <1>5, LevelType DEF TypeOK
<1> QED BY <1>6, <1>7, <1>8 DEF Reject, TypeOK

LEMMA TypeRestart == TypeOK /\ Restart => TypeOK'
BY ParameterAssumption DEF TypeOK, Restart

LEMMA TypeTick == TypeOK /\ Tick => TypeOK'
<1> SUFFICES ASSUME TypeOK, Tick PROVE TypeOK'
  OBVIOUS
<1>1. now' \in Ticks /\ now <= now'
  BY ParameterAssumption DEF TypeOK, Tick, Ticks
<1>2. bootMark' \in [Ticks -> 0 .. MaxBoots] /\ mark' \in [Keys -> [Ticks -> Nat]]
  BY DEF TypeOK, Tick
<1>3. \A k \in Keys : bucket'[k] # NoBucket => bucket'[k].last <= now'
  BY <1>1, LevelType DEF TypeOK, Tick, Bucket, Ticks
<1> QED BY <1>1, <1>2, <1>3 DEF TypeOK, Tick

(* The buckets, the clock and the histories always have their types.        *)
THEOREM TypeCorrect == Spec => []TypeOK
<1>1. TypeOK /\ [Next]_vars => TypeOK'
  <2> SUFFICES ASSUME TypeOK, [Next]_vars PROVE TypeOK'
    OBVIOUS
  <2>1. ASSUME NEW k \in Keys, Check(k) PROVE TypeOK'
    <3>1. CASE Admit(k) BY <3>1, TypeAdmit
    <3>2. CASE Reject(k) BY <3>2, TypeReject
    <3>3. CASE PassBy(k) BY <3>3 DEF PassBy, vars, TypeOK
    <3> QED BY <2>1, <3>1, <3>2, <3>3 DEF Check
  <2>2. CASE Restart BY <2>2, TypeRestart
  <2>3. CASE Tick BY <2>3, TypeTick
  <2>4. CASE UNCHANGED vars BY <2>4 DEF vars, TypeOK
  <2> QED BY <2>1, <2>2, <2>3, <2>4 DEF Next
<1> QED BY <1>1, TypeInit, PTL DEF Spec

-----------------------------------------------------------------------------
(* The long-run rate.  RateBound is inductive with the types: an admission  *)
(* moves Token units from the level to what was spent, a tick brings at     *)
(* most MaxTokens, a restart at most a full bucket.                         *)

LEMMA HistoryType ==
    ASSUME TypeOK, NEW k \in Keys, NEW t \in Ticks
    PROVE  /\ AdmittedSince(k, t) \in Int
           /\ BootsSince(t) \in Int
           /\ spent[k] \in Nat /\ mark[k][t] \in Nat
           /\ boots \in Nat /\ bootMark[t] \in Nat
           /\ now \in Nat /\ t \in Nat
BY ParameterAssumption DEF TypeOK, AdmittedSince, BootsSince, Ticks

LEMMA RateInit == Init => RateBound
<1> SUFFICES ASSUME Init, NEW k \in Keys, NEW t \in Ticks, t <= now
             PROVE  Token * AdmittedSince(k, t) + Level(k)
                      <= Cap * (1 + BootsSince(t)) + (now - t) * MaxTokens
  BY DEF RateBound
<1>1. now - t = 0 /\ AdmittedSince(k, t) = 0 /\ BootsSince(t) = 0 /\ Level(k) = Cap
  BY ParameterAssumption DEF Init, Ticks, AdmittedSince, BootsSince, Level, Refill
<1>2. Token * 0 = 0 /\ 0 * MaxTokens = 0 /\ Cap * (1 + 0) = Cap
  BY Units
<1> QED BY <1>1, <1>2, Units

LEMMA RateAdmit ==
    ASSUME TypeOK, RateBound, NEW k \in Keys, Admit(k)
    PROVE  RateBound'
<1> SUFFICES ASSUME NEW j \in Keys, NEW t \in Ticks, t <= now
             PROVE  Token * AdmittedSince(j, t)' + Level(j)'
                      <= Cap * (1 + BootsSince(t)) + (now - t) * MaxTokens
  BY DEF RateBound, Admit, BootsSince
<1>1. Token * AdmittedSince(j, t) + Level(j)
        <= Cap * (1 + BootsSince(t)) + (now - t) * MaxTokens
  BY DEF RateBound
<1>2. CASE j # k
  BY <1>1, <1>2 DEF TypeOK, Admit, Put, AdmittedSince, Level
<1>3. CASE j = k
  <2>1. AdmittedSince(k, t)' = AdmittedSince(k, t) + 1
    BY HistoryType DEF TypeOK, Admit, AdmittedSince
  <2>2. Token * (AdmittedSince(k, t) + 1) = Token * AdmittedSince(k, t) + Token
    BY HistoryType, Distribute, Units
  <2>3. Level(k)' = Level(k) - Token
    <3> DEFINE b == [tokens |-> Level(k) - Token, last |-> now]
    <3>1. Level(k) - Token \in 0 .. Cap
      BY LevelType, Units DEF Admit
    <3>2. bucket'[k] = b /\ now' = now /\ b # NoBucket
      BY <3>1, PutIsBucket DEF Admit, Put, TypeOK
    <3>3. b.tokens + (now - b.last) * MaxTokens = Level(k) - Token
      BY <3>1, LevelType, Units
    <3> QED BY <3>1, <3>2, <3>3, Units DEF Level, Refill
  <2>4. Token * AdmittedSince(k, t) \in Int
    BY HistoryType, Units
  <2> QED BY <1>1, <1>3, <2>1, <2>2, <2>3, <2>4, LevelType, Units
<1> QED BY <1>2, <1>3

(* A refusal leaves every level as it was.                                  *)
LEMMA RejectKeepsLevels ==
    ASSUME TypeOK, NEW k \in Keys, Reject(k), NEW j \in Keys, NEW t \in Nat, now <= t
    PROVE  Refill(bucket'[j], t) = Refill(bucket[j], t)
<1>1. CASE j # k
  BY <1>1 DEF TypeOK, Reject, Put
<1>2. CASE j = k
  <2>1. bucket'[k] = [tokens |-> Refill(bucket[k], now), last |-> now]
    BY DEF TypeOK, Reject, Put, Level
  <2>2. [tokens |-> Refill(bucket[k], now), last |-> now] # NoBucket
    BY LevelType, PutIsBucket DEF Level
  <2> QED BY <1>2, <2>1, <2>2, LevelType, RefillTwice
<1> QED BY <1>1, <1>2

LEMMA RateReject ==
    ASSUME TypeOK, RateBound, NEW k \in Keys, Reject(k)
    PROVE  RateBound'
<1>1. now' = now /\ now \in Nat
  BY LevelType DEF Reject
<1>2. ASSUME NEW j \in Keys PROVE Level(j)' = Level(j)
  <2>1. Refill(bucket'[j], now) = Refill(bucket[j], now)
    BY <1>1, RejectKeepsLevels
  <2> QED BY <1>1, <2>1 DEF Level
<1> QED BY <1>2 DEF RateBound, Reject, AdmittedSince, BootsSince

LEMMA RateRestart ==
    ASSUME TypeOK, RateBound, Restart
    PROVE  RateBound'
<1> SUFFICES ASSUME NEW k \in Keys, NEW t \in Ticks, t <= now
             PROVE  Token * AdmittedSince(k, t) + Level(k)'
                      <= Cap * (1 + BootsSince(t)') + (now - t) * MaxTokens
  BY DEF RateBound, Restart, AdmittedSince
<1>1. Token * AdmittedSince(k, t) + Level(k)
        <= Cap * (1 + BootsSince(t)) + (now - t) * MaxTokens
  BY DEF RateBound
<1>2. 1 + BootsSince(t)' = (1 + BootsSince(t)) + 1
  BY HistoryType DEF Restart, BootsSince
<1>3. Cap * ((1 + BootsSince(t)) + 1) = Cap * (1 + BootsSince(t)) + Cap
  BY HistoryType, Distribute, Units
<1>4. Level(k)' = Cap
  BY DEF Restart, Level, Refill
<1>5. /\ Token * AdmittedSince(k, t) \in Int
      /\ Cap * (1 + BootsSince(t)) \in Int
      /\ (now - t) * MaxTokens \in Int
  BY HistoryType, Units
<1> QED BY <1>1, <1>2, <1>3, <1>4, <1>5, LevelType, Units

LEMMA RateTick ==
    ASSUME TypeOK, RateBound, Tick
    PROVE  RateBound'
<1> SUFFICES ASSUME NEW k \in Keys, NEW t \in Ticks, t <= now'
             PROVE  Token * AdmittedSince(k, t)' + Level(k)'
                      <= Cap * (1 + BootsSince(t)') + (now' - t) * MaxTokens
  BY DEF RateBound
<1>1. now' = now + 1 /\ bucket' = bucket /\ now \in Nat
  BY LevelType DEF Tick
<1>2. CASE t = now'
  <2>1. mark'[k][t] = spent[k] /\ bootMark'[t] = boots
    BY <1>1, <1>2 DEF TypeOK, Tick, Ticks
  <2>2. AdmittedSince(k, t)' = 0 /\ BootsSince(t)' = 0 /\ now' - t = 0
    BY <1>1, <1>2, <2>1, HistoryType DEF Tick, AdmittedSince, BootsSince
  <2>3. Level(k)' \in 0 .. Cap
    <3>1. bucket[k] # NoBucket => bucket[k].last <= now
      BY DEF TypeOK
    <3>2. bucket[k] # NoBucket => bucket[k].last \in Nat
      BY LevelType DEF Bucket, Ticks
    <3>3. bucket[k] # NoBucket => bucket[k].last <= now + 1
      BY <1>1, <3>1, <3>2
    <3>4. bucket[k] \in Bucket \cup {NoBucket} /\ now + 1 \in Nat
      BY <1>1, LevelType
    <3>5. Refill(bucket[k], now + 1) \in 0 .. Cap
      BY ONLY <3>3, <3>4, RefillType
    <3> QED BY <1>1, <3>5 DEF Level
  <2>4. Token * 0 = 0 /\ 0 * MaxTokens = 0 /\ Cap * (1 + 0) = Cap
    BY Units
  <2> QED BY <2>2, <2>3, <2>4, Units
<1>3. CASE t # now'
  <2>1. t <= now
    BY <1>1, <1>3, HistoryType
  <2>2. AdmittedSince(k, t)' = AdmittedSince(k, t) /\ BootsSince(t)' = BootsSince(t)
    BY <1>1, <1>3 DEF TypeOK, Tick, AdmittedSince, BootsSince
  <2>3. Token * AdmittedSince(k, t) + Level(k)
          <= Cap * (1 + BootsSince(t)) + (now - t) * MaxTokens
    BY <2>1 DEF RateBound
  <2>4. (now' - t) * MaxTokens = (now - t) * MaxTokens + MaxTokens
    <3>1. now' - t = (now - t) + 1
      BY <1>1, HistoryType
    <3> QED BY <1>1, <3>1, HistoryType, Distribute, Units
  <2>5. Level(k)' <= Level(k) + MaxTokens /\ Level(k)' \in Int
    <3>1. Refill(bucket[k], now + 1) <= Refill(bucket[k], now) + MaxTokens
      BY <1>1, LevelType, RefillGrows
    <3>2. bucket[k] # NoBucket => bucket[k].last \in Nat /\ bucket[k].tokens \in Nat
      BY LevelType, Units DEF Bucket, Ticks
    <3>3. bucket[k] # NoBucket =>
            bucket[k].tokens + ((now + 1) - bucket[k].last) * MaxTokens \in Int
      BY <1>1, <3>2, Units
    <3>4. Refill(bucket[k], now + 1) \in Int
      BY <3>3, Units DEF Refill
    <3> QED BY <1>1, <3>1, <3>4 DEF Level
  <2>6. /\ Token * AdmittedSince(k, t) \in Int
        /\ Cap * (1 + BootsSince(t)) \in Int
        /\ (now - t) * MaxTokens \in Int
    BY HistoryType, Units
  <2> QED BY <2>2, <2>3, <2>4, <2>5, <2>6, LevelType, Units
<1> QED BY <1>2, <1>3

LEMMA RateStep == TypeOK /\ RateBound /\ [Next]_vars => RateBound'
<1> SUFFICES ASSUME TypeOK, RateBound, [Next]_vars PROVE RateBound'
  OBVIOUS
<1>1. ASSUME UNCHANGED vars PROVE RateBound'
  BY <1>1 DEF vars, RateBound, AdmittedSince, BootsSince, Level
<1>2. ASSUME NEW k \in Keys, Check(k) PROVE RateBound'
  <2>1. CASE Admit(k) BY <2>1, RateAdmit
  <2>2. CASE Reject(k) BY <2>2, RateReject
  <2>3. CASE PassBy(k) BY <1>1, <2>3 DEF PassBy
  <2> QED BY <1>2, <2>1, <2>2, <2>3 DEF Check
<1>3. CASE Restart BY <1>3, RateRestart
<1>4. CASE Tick BY <1>4, RateTick
<1> QED BY <1>1, <1>2, <1>3, <1>4 DEF Next

(* What a key was admitted since any instant, and what it has left, is      *)
(* covered by one full bucket per start of the process and the refill.      *)
THEOREM RateIsBounded == Spec => []RateBound
<1>1. TypeOK /\ RateBound /\ [Next]_vars => RateBound'
  BY RateStep
<1> QED BY <1>1, RateInit, TypeCorrect, PTL DEF Spec

-----------------------------------------------------------------------------
(* The bound on a window. *)

LEMMA Cancel ==
    ASSUME NEW a \in Int, NEW b \in Int, NEW c \in Nat \ {0}, c * a <= c * b
    PROVE  a <= b
BY Z3

LEMMA RateGivesBurst == TypeOK /\ RateBound => BurstBound
<1> SUFFICES ASSUME TypeOK, RateBound, NEW k \in Keys, NEW t \in Ticks,
                    t <= now, now <= t + Window
             PROVE  AdmittedSince(k, t) <= MaxTokens * (2 + BootsSince(t))
  BY DEF BurstBound
<1> DEFINE a == AdmittedSince(k, t)
           n == BootsSince(t)
<1>1. a \in Int /\ n \in Int /\ now \in Nat /\ t \in Nat
  BY HistoryType
<1>2. Token * a + Level(k) <= Cap * (1 + n) + (now - t) * MaxTokens
  BY DEF RateBound
<1> HIDE DEF a, n
<1>3. (now - t) * MaxTokens <= Cap
  <2>1. (now - t) * MaxTokens <= Token * MaxTokens
    BY <1>1, Monotone, Units
  <2> QED BY <2>1, Units
<1>4. Cap * (1 + n) + Cap = Token * (MaxTokens * (2 + n))
  <2>1. Cap * (1 + n) + Cap = Cap * (2 + n)
    BY <1>1, Distribute, Units
  <2>2. Cap * (2 + n) = Token * (MaxTokens * (2 + n))
    BY <1>1, Units, Z3
  <2> QED BY <2>1, <2>2
<1>5. /\ Token * a \in Int
      /\ Cap * (1 + n) \in Int
      /\ (now - t) * MaxTokens \in Int
      /\ MaxTokens * (2 + n) \in Int
      /\ Token * (MaxTokens * (2 + n)) \in Int
  BY <1>1, Units
<1>6. Token * a <= Token * (MaxTokens * (2 + n))
  BY <1>2, <1>3, <1>4, <1>5, LevelType, Units
<1>7. a <= MaxTokens * (2 + n)
  BY <1>1, <1>5, <1>6, Cancel, Units
<1> QED BY <1>7 DEF a, n

(* In any window a key gets at most twice the configured number of          *)
(* requests, and once more that number for every restart inside it.         *)
THEOREM BurstIsBounded == Spec => []BurstBound
BY RateGivesBurst, TypeCorrect, RateIsBounded, PTL

-----------------------------------------------------------------------------
(* The promise of a 429. *)

(* max(t, now), the instant at which the promise made for t is looked at.   *)
Due(t) == IF t < now THEN now ELSE t

LEMMA PromiseInit == Init => PromiseInv
BY DEF Init, PromiseInv

LEMMA PromiseAdmit ==
    ASSUME TypeOK, PromiseInv, NEW k \in Keys, Admit(k)
    PROVE  PromiseInv'
<1>1. now' = now /\ owed'[k] = {}
  BY DEF TypeOK, Admit
<1>2. \A j \in Keys \ {k} : owed'[j] = owed[j] /\ bucket'[j] = bucket[j]
  BY DEF TypeOK, Admit, Put
<1> QED BY <1>1, <1>2 DEF PromiseInv

(* A second is enough for a whole request at a request a second or more.    *)
LEMMA SecondSuffices ==
    ASSUME MaxTokens >= WindowSec, NEW n \in Nat \ {0}
    PROVE  (n * Res) * MaxTokens >= Token
<1>1. Res \in Nat \ {0} /\ WindowSec \in Nat \ {0}
  BY ParameterAssumption
<1>2. Res * WindowSec <= Res * MaxTokens
  BY <1>1, Units, Z3
<1>3. Res * MaxTokens \in Nat
  BY <1>1, Units
<1>4. Res * MaxTokens <= n * (Res * MaxTokens)
  BY <1>3, Z3
<1>5. n * (Res * MaxTokens) = (n * Res) * MaxTokens
  BY <1>1, Units, Z3
<1>6. (n * Res) * MaxTokens \in Int
  BY <1>1, Units
<1> QED BY <1>2, <1>3, <1>4, <1>5, <1>6, Units

LEMMA PromiseReject ==
    ASSUME TypeOK, PromiseInv, NEW k \in Keys, Reject(k)
    PROVE  PromiseInv'
<1> SUFFICES ASSUME MaxTokens >= WindowSec, NEW j \in Keys, NEW t \in owed'[j]
             PROVE  Refill(bucket'[j], Due(t)) >= Token
  BY DEF PromiseInv, Reject, Due
<1> DEFINE n == RetryAfter(k)
           d == now + n * Res
<1>1. now \in Nat /\ n \in Nat \ {0} /\ n * Res \in Nat
  BY LevelType, RetryAfterPositive, ParameterAssumption
<1>2. owed' = [owed EXCEPT ![k] = @ \cup {d}]
  BY DEF Reject
<1> HIDE DEF n
<1>3. CASE t \in owed[j]
  <2>1. t \in Nat /\ Due(t) \in Nat /\ now <= Due(t)
    BY <1>1, <1>3 DEF TypeOK, Due
  <2>2. Refill(bucket[j], Due(t)) >= Token
    BY <1>3 DEF PromiseInv, Due
  <2> QED BY <2>1, <2>2, RejectKeepsLevels
<1>4. CASE t \notin owed[j]
  <2>1. j = k /\ t = d
    BY <1>2, <1>4 DEF TypeOK
  <2>2. Due(t) = d /\ d - now = n * Res
    BY <1>1, <2>1 DEF Due
  <2>3. (d - now) * MaxTokens >= Token /\ (d - now) * MaxTokens \in Int
    BY <1>1, <2>2, SecondSuffices, Units
  <2>4. bucket'[k] = [tokens |-> Level(k), last |-> now]
    BY DEF TypeOK, Reject, Put
  <2>5. Level(k) \in 0 .. Cap /\ [tokens |-> Level(k), last |-> now] # NoBucket
    BY LevelType, PutIsBucket
  <2> HIDE DEF d
  <2> QED BY <2>1, <2>2, <2>3, <2>4, <2>5, Units DEF Refill
<1> QED BY <1>3, <1>4

LEMMA PromiseRestart == PromiseInv /\ Restart => PromiseInv'
BY Units DEF PromiseInv, Restart, Refill

LEMMA PromiseTick ==
    ASSUME TypeOK, PromiseInv, Tick
    PROVE  PromiseInv'
<1> SUFFICES ASSUME MaxTokens >= WindowSec, NEW k \in Keys, NEW t \in owed[k]
             PROVE  Refill(bucket[k], Due(t)') >= Token
  BY DEF PromiseInv, Tick, Due
<1>1. now \in Nat /\ now' = now + 1 /\ t \in Nat
      /\ bucket[k] \in Bucket \cup {NoBucket}
  BY LevelType DEF TypeOK, Tick
<1>2. Due(t) \in Nat /\ Due(t)' \in Nat /\ Due(t) <= Due(t)'
  BY <1>1 DEF Due
<1>3. Refill(bucket[k], Due(t)) <= Refill(bucket[k], Due(t)')
  BY <1>1, <1>2, RefillGrows
<1>4. Refill(bucket[k], Due(t)) >= Token
  BY DEF PromiseInv, Due
<1>5. \A u \in Nat : Refill(bucket[k], u) \in Int
  <2> SUFFICES ASSUME NEW u \in Nat PROVE Refill(bucket[k], u) \in Int
    OBVIOUS
  <2>1. bucket[k] # NoBucket => bucket[k].tokens \in Int /\ bucket[k].last \in Int
    BY <1>1, Units DEF Bucket, Ticks
  <2>2. bucket[k] # NoBucket => (u - bucket[k].last) * MaxTokens \in Int
    BY <2>1, Units
  <2> QED BY <2>1, <2>2, Units DEF Refill
<1> QED BY <1>2, <1>3, <1>4, <1>5, Units

LEMMA PromiseStep == TypeOK /\ PromiseInv /\ [Next]_vars => PromiseInv'
<1> SUFFICES ASSUME TypeOK, PromiseInv, [Next]_vars PROVE PromiseInv'
  OBVIOUS
<1>1. ASSUME UNCHANGED vars PROVE PromiseInv'
  BY <1>1 DEF vars, PromiseInv
<1>2. ASSUME NEW k \in Keys, Check(k) PROVE PromiseInv'
  <2>1. CASE Admit(k) BY <2>1, PromiseAdmit
  <2>2. CASE Reject(k) BY <2>2, PromiseReject
  <2>3. CASE PassBy(k) BY <1>1, <2>3 DEF PassBy
  <2> QED BY <1>2, <2>1, <2>2, <2>3 DEF Check
<1>3. CASE Restart BY <1>3, PromiseRestart
<1>4. CASE Tick BY <1>4, PromiseTick
<1> QED BY <1>1, <1>2, <1>3, <1>4 DEF Next

(* At one request a second or more, whoever waits for Retry-After is        *)
(* admitted unless the same key was in the meantime.                        *)
THEOREM RetryAfterIsHonoured == Spec => []RetryAfterHonoured
<1>1. TypeOK /\ PromiseInv /\ [Next]_vars => PromiseInv'
  BY PromiseStep
<1>2. TypeOK /\ PromiseInv => RetryAfterHonoured
  <2> SUFFICES ASSUME TypeOK, PromiseInv, MaxTokens >= WindowSec,
                      NEW k \in Keys, NEW t \in owed[k], t <= now
               PROVE  Level(k) >= Token
    BY DEF RetryAfterHonoured
  <2>1. t \in Nat /\ now \in Nat
    BY LevelType DEF TypeOK
  <2>2. Due(t) = now
    BY <2>1 DEF Due
  <2> QED BY <2>2 DEF PromiseInv, Due, Level
<1> QED BY <1>1, <1>2, PromiseInit, TypeCorrect, PTL DEF Spec

-----------------------------------------------------------------------------
(* The lazy refill is a refill at every tick. *)

(* What a check finds one tick later is what it finds now and one tick's    *)
(* refill, up to a full bucket.                                             *)
LEMMA RefillTick ==
    ASSUME NEW b \in Bucket \cup {NoBucket}, NEW t \in Nat,
           b # NoBucket => b.last <= t
    PROVE  Refill(b, t + 1)
             = IF Refill(b, t) + MaxTokens < Cap THEN Refill(b, t) + MaxTokens ELSE Cap
<1>1. CASE b = NoBucket
  BY <1>1, Units DEF Refill
<1>2. CASE b # NoBucket
  <2>1. b.tokens \in 0 .. Cap /\ b.last \in Nat
    BY <1>2 DEF Bucket, Ticks
  <2>2. ((t + 1) - b.last) * MaxTokens = (t - b.last) * MaxTokens + MaxTokens
    <3>1. (t + 1) - b.last = (t - b.last) + 1
      BY <2>1
    <3> QED BY <2>1, <3>1, Distribute, Units
  <2>3. (t - b.last) * MaxTokens \in Int
    BY <2>1, Units
  <2> QED BY <1>2, <2>1, <2>2, <2>3, Units DEF Refill
<1> QED BY <1>1, <1>2

(* A check touches one bucket, and the check that wrote it finds it so.     *)
LEMMA LevelAfterPut ==
    ASSUME TypeOK, NEW k \in Keys, NEW l \in 0 .. Cap, Put(k, l), now' = now
    PROVE  \A j \in Keys : Level(j)' = IF j = k THEN l ELSE Level(j)
<1>1. \A j \in Keys \ {k} : Level(j)' = Level(j)
  BY DEF TypeOK, Put, Level
<1>2. bucket'[k] = [tokens |-> l, last |-> now] /\ bucket'[k] # NoBucket
  BY PutIsBucket DEF TypeOK, Put
<1>3. l + (now - now) * MaxTokens = l
  BY LevelType, Units
<1>4. Level(k)' = l
  BY <1>2, <1>3, Units DEF Level, Refill
<1> QED BY <1>1, <1>4

LEMMA EagerInit == Init => Eager!Init
<1> SUFFICES ASSUME Init PROVE Eager!Init
  OBVIOUS
<1>1. \A k \in Keys : Level(k) = Cap
  BY DEF Init, Level, Refill
<1>2. \A k \in Keys : (owed[k] # {}) = FALSE
  BY DEF Init
<1> QED BY <1>1, <1>2 DEF Init, Eager!Init

LEMMA EagerAdmit ==
    ASSUME TypeOK, NEW k \in Keys, Admit(k)
    PROVE  Eager!Admit(k)
<1>1. Level(k) >= Token /\ Level(k) - Token \in 0 .. Cap
  BY LevelType, Units DEF Admit
<1>2. \A j \in Keys : Level(j)' = IF j = k THEN Level(k) - Token ELSE Level(j)
  BY <1>1, LevelAfterPut DEF Admit
<1>3. \A j \in Keys : (owed'[j] # {}) = IF j = k THEN FALSE ELSE (owed[j] # {})
  BY DEF Admit, TypeOK
<1> QED BY <1>1, <1>2, <1>3 DEF Admit, Eager!Admit

LEMMA EagerRefuse ==
    ASSUME TypeOK, NEW k \in Keys, Reject(k)
    PROVE  Eager!Refuse(k)
<1>1. \A j \in Keys : Level(j)' = Level(j)
  BY LevelType, LevelAfterPut DEF Reject
<1>2. \A j \in Keys : (owed'[j] # {}) = IF j = k THEN TRUE ELSE (owed[j] # {})
  BY DEF Reject, TypeOK
<1> QED BY <1>1, <1>2 DEF Reject, Eager!Refuse

LEMMA EagerFill ==
    ASSUME TypeOK, Tick
    PROVE  Eager!Fill
<1>1. ASSUME NEW k \in Keys
      PROVE  Level(k)' = IF Level(k) + MaxTokens < Cap THEN Level(k) + MaxTokens ELSE Cap
  <2>1. bucket[k] # NoBucket => bucket[k].last <= now
    BY DEF TypeOK
  <2>2. bucket'[k] = bucket[k] /\ now' = now + 1
    BY DEF Tick
  <2> QED BY <2>1, <2>2, LevelType, RefillTick DEF Level
<1> QED BY <1>1 DEF Tick, Eager!Fill

LEMMA EagerReset == Restart => Eager!Reset
<1> SUFFICES ASSUME Restart PROVE Eager!Reset
  OBVIOUS
<1>1. \A k \in Keys : Level(k)' = Cap
  BY DEF Restart, Level, Refill
<1> QED BY <1>1 DEF Restart, Eager!Reset

LEMMA EagerStutter == UNCHANGED vars => UNCHANGED Eager!vars
BY DEF vars, Eager!vars, Level

LEMMA EagerStep == TypeOK /\ [Next]_vars => [Eager!Next]_(Eager!vars)
<1> SUFFICES ASSUME TypeOK, [Next]_vars PROVE [Eager!Next]_(Eager!vars)
  OBVIOUS
<1>1. ASSUME NEW k \in Keys, Check(k) PROVE [Eager!Next]_(Eager!vars)
  <2>1. CASE Admit(k) BY <2>1, EagerAdmit DEF Eager!Next
  <2>2. CASE Reject(k) BY <2>2, EagerRefuse DEF Eager!Next
  <2>3. CASE PassBy(k) BY <2>3, EagerStutter DEF PassBy
  <2> QED BY <1>1, <2>1, <2>2, <2>3 DEF Check
<1>2. CASE Restart BY <1>2, EagerReset DEF Eager!Next
<1>3. CASE Tick BY <1>3, EagerFill DEF Eager!Next
<1>4. CASE UNCHANGED vars BY <1>4, EagerStutter
<1> QED BY <1>1, <1>2, <1>3, <1>4 DEF Next

(* The limiter, which refills a bucket only when it is asked, implements    *)
(* the token bucket that the clock fills at every tick: it admits and       *)
(* refuses the same requests, and a refusal costs the caller nothing.       *)
THEOREM LimiterIsTokenBucket == Spec => ImplementsTokenBucket
<1>1. TypeOK /\ [Next]_vars => [Eager!Next]_(Eager!vars)
  BY EagerStep
<1> QED BY <1>1, EagerInit, TypeCorrect, PTL DEF Spec, ImplementsTokenBucket, Eager!Spec
=============================================================================
