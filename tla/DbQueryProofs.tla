---------------------------- MODULE DbQueryProofs ----------------------------
(***************************************************************************)
(* The invariants of db.query() and its refinement of DbCall, for any      *)
(* number of calls, any pool and any number of attempts.                   *)
(***************************************************************************)
EXTENDS DbQuery, FiniteSetTheorems, TLAPS

(* To be started over: the session is being closed for it, or the call      *)
(* sleeps.                                                                  *)
Again(step, o) == step = "backoff" \/ (step = "close" /\ o = "none")

(* An attempt under way, or to be started over, has committed nothing; a    *)
(* call has its outcome when it leaves the session for good, not before,    *)
(* and "written" and "read" say what was committed.                         *)
Phase(c, step, o, n) ==
    /\ n \in {0, 1}
    /\ step \in {"idle", "wait", "set", "body"} \/ Again(step, o) => n = 0
    /\ n = 1 => c \in Writers
    /\ step \notin {"close", "done"} => o = "none"
    /\ step = "done" => o # "none"
    /\ o = "written" => n = 1
    /\ o = "read" => n = 0

Phases == \A c \in Calls : Phase(c, pc[c], outcome[c], commits[c])

(* Only an attempt that is not the last one is started over.                *)
Attempts ==
    \A c \in Calls : Again(pc[c], outcome[c]) => attempt[c] < Retries

Inv == TypeOK /\ Phases /\ Attempts /\ PoolSound

-----------------------------------------------------------------------------
LEMMA InvInit == Init => Inv
<1> SUFFICES ASSUME Init PROVE Inv
  OBVIOUS
<1>1. Cardinality(held) = 0
  BY FS_EmptySet DEF Init
<1>2. TypeOK /\ Phases /\ Attempts
  BY ParameterAssumption DEF Init, TypeOK, Steps, Outcomes, Phases, Phase, Again, Attempts
<1>3. held = {c \in Calls : pc[c] \in {"set", "body", "refresh", "close"}}
  BY DEF Init
<1> QED BY <1>1, <1>2, <1>3, ParameterAssumption DEF Inv, PoolSound

(* Only the call that acts moves.                                           *)
LEMMA OnlyOneMoves ==
    ASSUME TypeOK, NEW c \in Calls, Step(c)
    PROVE  \A d \in Calls \ {c} :
              /\ pc'[d] = pc[d] /\ outcome'[d] = outcome[d]
              /\ attempt'[d] = attempt[d] /\ commits'[d] = commits[d]
              /\ d \in held' <=> d \in held
BY DEF TypeOK, Step, Start, Acquire, PoolTimeout, SetLocal, Return, Commit, RollBack,
       Refresh, Retry, Wake, Fail, Timeout, CommitLost, Close, CommitOnce, Goto, Leave,
       End, Release

LEMMA TypeStep ==
    ASSUME Inv, NEW c \in Calls, Step(c)
    PROVE  TypeOK'
<1> USE ParameterAssumption DEF Inv, TypeOK, Steps, Outcomes, Goto, Leave, End, Release
<1>1. CASE Start(c)
  BY <1>1 DEF Start
<1>2. CASE Acquire(c)
  BY <1>2 DEF Acquire
<1>3. CASE PoolTimeout(c) \/ Timeout(c) \/ Fail(c) \/ Return(c)
  BY <1>3 DEF PoolTimeout, Timeout, Fail, Return
<1>4. CASE SetLocal(c) \/ RollBack(c) \/ Retry(c)
  BY <1>4 DEF SetLocal, RollBack, Retry
<1>5. CASE Commit(c)
  BY <1>5 DEF Commit, CommitOnce
<1>6. CASE Refresh(c)
  BY <1>6 DEF Refresh
<1>7. CASE Wake(c)
  <2>1. attempt[c] + 1 \in 0 .. Retries
    BY <1>7 DEF Wake, Attempts, Again
  <2> QED BY <1>7, <2>1 DEF Wake
<1>8. CASE CommitLost(c)
  BY <1>8 DEF CommitLost, CommitOnce
<1>9. CASE Close(c)
  BY <1>9 DEF Close
<1> QED BY <1>1, <1>2, <1>3, <1>4, <1>5, <1>6, <1>7, <1>8, <1>9 DEF Step

(* The call that acts.                                                      *)
LEMMA PhaseStep ==
    ASSUME Inv, NEW c \in Calls, Step(c)
    PROVE  /\ Phase(c, pc'[c], outcome'[c], commits'[c])
           /\ Again(pc'[c], outcome'[c]) => attempt'[c] < Retries
           /\ c \in held' <=> pc'[c] \in {"set", "body", "refresh", "close"}
<1> USE DEF Inv, TypeOK, Phases, Phase, Again, PoolSound, Attempts, Goto, Leave, End, Release
<1>1. CASE Start(c)
  BY <1>1 DEF Start
<1>2. CASE Acquire(c)
  BY <1>2 DEF Acquire
<1>3. CASE PoolTimeout(c) \/ Timeout(c) \/ Fail(c) \/ Return(c)
  BY <1>3 DEF PoolTimeout, Timeout, Fail, Return
<1>4. CASE SetLocal(c) \/ RollBack(c) \/ Retry(c)
  BY <1>4 DEF SetLocal, RollBack, Retry
<1>5. CASE Commit(c)
  BY <1>5 DEF Commit, CommitOnce
<1>6. CASE Refresh(c)
  BY <1>6 DEF Refresh
<1>7. CASE Wake(c)
  BY <1>7 DEF Wake
<1>8. CASE CommitLost(c)
  BY <1>8 DEF CommitLost, CommitOnce
<1>9. CASE Close(c)
  BY <1>9 DEF Close
<1> QED BY <1>1, <1>2, <1>3, <1>4, <1>5, <1>6, <1>7, <1>8, <1>9 DEF Step

(* The pool: a connection is taken only while there is room, and never by a *)
(* call that has one.                                                       *)
LEMMA PoolStep ==
    ASSUME Inv, NEW c \in Calls, Step(c)
    PROVE  Cardinality(held') <= PoolLimit
<1>0. IsFiniteSet(held) /\ Cardinality(held) \in Nat /\ PoolLimit \in Nat
  BY ParameterAssumption, FS_Subset, FS_CardinalityType DEF Inv, TypeOK
<1>1. CASE Acquire(c)
  <2>1. c \notin held
    BY <1>1 DEF Acquire, Inv, PoolSound
  <2>2. Cardinality(held') = Cardinality(held) + 1
    BY <1>0, <1>1, <2>1, FS_AddElement DEF Acquire
  <2> QED BY <1>0, <1>1, <2>2 DEF Acquire
<1>2. CASE held' \subseteq held
  <2>1. Cardinality(held') <= Cardinality(held) /\ Cardinality(held') \in Nat
    BY <1>0, <1>2, FS_Subset, FS_CardinalityType
  <2> QED BY <1>0, <2>1 DEF Inv, PoolSound
<1>3. Acquire(c) \/ held' \subseteq held
  BY DEF Step, Start, PoolTimeout, SetLocal, Return, Commit, RollBack, Refresh, Retry,
         Wake, Fail, Timeout, CommitLost, Close, Leave, End, Release
<1> QED BY <1>1, <1>2, <1>3

LEMMA InvStep == Inv /\ [Next]_vars => Inv'
<1> SUFFICES ASSUME Inv, [Next]_vars PROVE Inv'
  OBVIOUS
<1>1. ASSUME NEW c \in Calls, Step(c) PROVE Inv'
  <2>1. TypeOK' /\ Cardinality(held') <= PoolLimit
    BY <1>1, TypeStep, PoolStep
  <2>2. ASSUME NEW d \in Calls
        PROVE  /\ Phase(d, pc'[d], outcome'[d], commits'[d])
               /\ Again(pc'[d], outcome'[d]) => attempt'[d] < Retries
               /\ d \in held' <=> pc'[d] \in {"set", "body", "refresh", "close"}
    <3>1. CASE d = c
      BY <1>1, <3>1, PhaseStep
    <3>2. CASE d # c
      BY <1>1, <3>2, OnlyOneMoves DEF Inv, Phases, Attempts, PoolSound
    <3> QED BY <3>1, <3>2
  <2>3. held' = {d \in Calls : pc'[d] \in {"set", "body", "refresh", "close"}}
    BY <2>1, <2>2 DEF TypeOK
  <2> QED BY <2>1, <2>2, <2>3 DEF Inv, Phases, Attempts, PoolSound
<1>2. CASE UNCHANGED vars
  BY <1>2 DEF vars, Inv, TypeOK, Phases, Attempts, PoolSound
<1> QED BY <1>1, <1>2 DEF Next

LEMMA InvHolds == Spec => []Inv
BY InvInit, InvStep, PTL DEF Spec

-----------------------------------------------------------------------------
(* The theorems. *)

(* Calls, their attempts and their outcomes have their types; no call makes *)
(* more than the given number of attempts.                                  *)
THEOREM TypeCorrect == Spec => []TypeOK
<1>1. Inv => TypeOK
  BY DEF Inv
<1> QED BY <1>1, InvHolds, PTL

(* The pool is never overdrawn, and no call keeps a connection while it     *)
(* waits, sleeps or has ended.                                              *)
THEOREM PoolIsSound == Spec => []PoolSound
<1>1. Inv => PoolSound
  BY DEF Inv
<1> QED BY <1>1, InvHolds, PTL

(* No transaction is applied twice, however often it is started over.       *)
THEOREM RetriesApplyOnce == Spec => []AppliedAtMostOnce
<1>1. Inv => AppliedAtMostOnce
  BY DEF Inv, Phases, Phase, Again, AppliedAtMostOnce
<1> QED BY <1>1, InvHolds, PTL

LEMMA AbstractInit == Init => Abstract!Init
<1> SUFFICES ASSUME Init PROVE Abstract!Init
  OBVIOUS
<1>1. ASSUME NEW c \in Calls PROVE (commits[c] > 0) = FALSE
  BY <1>1 DEF Init
<1>2. Told = [c \in Calls |-> "none"]
  BY DEF Init, Told
<1> QED BY <1>1, <1>2, Zenon DEF Abstract!Init

(* The answer of the call that acts, and of nobody else, may change.        *)
LEMMA ToldStep ==
    ASSUME Inv, Inv', NEW c \in Calls, Step(c)
    PROVE  \/ UNCHANGED Told
           \/ pc'[c] = "done" /\ Told' = [Told EXCEPT ![c] = outcome'[c]]
<1>1. \A d \in Calls \ {c} : Told'[d] = Told[d]
  BY OnlyOneMoves DEF Inv, Told
<1>2. pc[c] # "done"
  BY DEF Step, Start, Acquire, PoolTimeout, SetLocal, Return, Commit, RollBack, Refresh,
         Retry, Wake, Fail, Timeout, CommitLost, Close
<1>3. CASE pc'[c] = "done"
  BY <1>1, <1>3 DEF Told
<1>4. CASE pc'[c] # "done"
  BY <1>1, <1>2, <1>4 DEF Told
<1> QED BY <1>3, <1>4

LEMMA AbstractStep ==
    ASSUME Inv, Inv', NEW c \in Calls, Step(c)
    PROVE  Abstract!Step(c) \/ UNCHANGED Abstract!vars
<1> DEFINE a == [d \in Calls |-> commits[d] > 0]
           b == [d \in Calls |-> commits'[d] > 0]
<1>0. /\ a[c] <=> commits[c] > 0
      /\ b[c] <=> commits'[c] > 0
  OBVIOUS
<1>1. Told[c] = "none"
  BY DEF Told, Step, Start, Acquire, PoolTimeout, SetLocal, Return, Commit, RollBack,
         Refresh, Retry, Wake, Fail, Timeout, CommitLost, Close
<1>2. \/ b = a
      \/ c \in Writers /\ ~a[c] /\ b[c] /\ b = [a EXCEPT ![c] = TRUE]
  <2>1. CASE Commit(c) \/ CommitLost(c)
    <3>1. /\ c \in Writers
          /\ ~(commits[c] > 0) /\ commits'[c] > 0
          /\ \A d \in Calls \ {c} : commits'[d] = commits[d]
      BY <2>1 DEF Commit, CommitLost, CommitOnce, Inv, TypeOK, Phases, Phase
    <3>2. /\ b[c] = TRUE
          /\ \A d \in Calls \ {c} : b[d] = a[d]
      BY <3>1, Zenon
    <3>3. b = [a EXCEPT ![c] = TRUE]
      BY <3>2
    <3> QED BY <1>0, <3>1, <3>3
  <2>2. CASE UNCHANGED commits
    BY <2>2
  <2>3. Commit(c) \/ CommitLost(c) \/ UNCHANGED commits
    BY DEF Step, Start, Acquire, PoolTimeout, SetLocal, Return, RollBack, Refresh,
           Retry, Wake, Fail, Timeout, Close
  <2> QED BY <2>1, <2>2, <2>3
<1>3. \/ UNCHANGED Told
      \/ b[c] /\ Told' = [Told EXCEPT ![c] = "written"]
      \/ ~b[c] /\ Told' = [Told EXCEPT ![c] = "read"]
      \/ \E o \in {"timeout", "error", "poolTimeout"} : Told' = [Told EXCEPT ![c] = o]
  <2>1. CASE pc'[c] = "done" /\ Told' = [Told EXCEPT ![c] = outcome'[c]]
    <3>1. outcome'[c] \in {"written", "read", "timeout", "error", "poolTimeout"}
      BY <2>1 DEF Inv, TypeOK, Outcomes, Phases, Phase
    <3>2. /\ outcome'[c] = "written" => b[c]
          /\ outcome'[c] = "read" => ~b[c]
      BY <1>0 DEF Inv, Phases, Phase
    <3> QED BY <2>1, <3>1, <3>2
  <2> QED BY <2>1, ToldStep
<1>4. CASE b = a /\ UNCHANGED Told
  BY <1>4 DEF Abstract!vars
<1>5. CASE b # a /\ UNCHANGED Told
  BY <1>1, <1>2, <1>5, Zenon DEF Abstract!Step, Abstract!Running, Abstract!Apply
<1>6. ASSUME \/ b[c] /\ Told' = [Told EXCEPT ![c] = "written"]
             \/ ~b[c] /\ Told' = [Told EXCEPT ![c] = "read"]
             \/ \E o \in {"timeout", "error", "poolTimeout"} : Told' = [Told EXCEPT ![c] = o]
      PROVE  Abstract!Step(c)
  BY <1>1, <1>2, <1>6, Zenon
  DEF Abstract!Step, Abstract!Running, Abstract!Apply, Abstract!End
<1> QED BY <1>3, <1>4, <1>5, <1>6

(* query() keeps the promise handlers rely on: at most one application, and *)
(* no report of a write that was not made.                                  *)
THEOREM QueryKeepsPromise == Spec => ImplementsDbCall
<1>1. Inv /\ Inv' /\ [Next]_vars => [Abstract!Next]_(Abstract!vars)
  <2> SUFFICES ASSUME Inv, Inv', [Next]_vars
               PROVE  [Abstract!Next]_(Abstract!vars)
    OBVIOUS
  <2>1. ASSUME NEW c \in Calls, Step(c) PROVE [Abstract!Next]_(Abstract!vars)
    BY <2>1, AbstractStep DEF Abstract!Next
  <2>2. CASE UNCHANGED vars
    BY <2>2 DEF vars, Abstract!vars, Told
  <2> QED BY <2>1, <2>2 DEF Next
<1> QED BY <1>1, AbstractInit, InvHolds, PTL DEF Spec, ImplementsDbCall, Abstract!Spec
=============================================================================
