------------------------------ MODULE DbQuery ------------------------------
(***************************************************************************)
(* db.query(), app/db/query.py, and the connection pool it draws on,       *)
(* app/db/engine.py.                                                       *)
(*                                                                         *)
(* A call waits for a connection, sends SET LOCAL statement_timeout, then  *)
(* runs the handler's function under asyncio.wait_for.  The function reads *)
(* and may commit; a commit gives the connection back to the pool, and the *)
(* refresh after it takes another.  A deadlock or a serialization failure  *)
(* starts the call over, up to Retries times in all.  Leaving the async    *)
(* with closes the session: if it has a connection, the transaction that   *)
(* is open on it is rolled back first, a round trip under no timer.        *)
(*                                                                         *)
(* Outside src/: PostgreSQL raises those two errors only for a transaction *)
(* it then aborts; a commit gives the connection back with nothing left to *)
(* roll back.                                                              *)
(***************************************************************************)
EXTENDS Integers, FiniteSets

CONSTANTS
    Calls,      \* calls of query(), each made once
    Writers,    \* those whose function may commit
    PoolLimit,  \* db_pool_size + db_max_overflow
    Retries     \* the parameter retries

ASSUME ParameterAssumption ==
    /\ IsFiniteSet(Calls)
    /\ Writers \subseteq Calls
    /\ PoolLimit \in Nat \ {0}
    /\ Retries \in Nat \ {0}

VARIABLES
    pc,        \* the await a call stands at
    attempt,   \* attempt
    held,      \* the calls that have a connection checked out
    commits,   \* commits[c]: how often the transaction of c was committed
    outcome    \* how the call ends, "none" until that is decided

vars == <<pc, attempt, held, commits, outcome>>

(* wait: for a connection; set: until it is open or has answered the ping,  *)
(* and for SET LOCAL; body: in fn; again: for a connection after a commit   *)
(* or a rollback; refresh: for the statement that follows; close: for the   *)
(* ROLLBACK that leaving the async with sends; backoff: asyncio.sleep.      *)
Steps == {"idle", "wait", "set", "body", "again", "refresh", "close", "backoff", "done"}

(* poolTimeout is sqlalchemy.exc.TimeoutError, which query() does not catch *)
Outcomes == {"none", "written", "read", "timeout", "error", "poolTimeout"}

TypeOK ==
    /\ pc \in [Calls -> Steps]
    /\ attempt \in [Calls -> 0 .. Retries]
    /\ held \subseteq Calls
    /\ commits \in [Calls -> Nat]
    /\ outcome \in [Calls -> Outcomes]

Init ==
    /\ pc = [c \in Calls |-> "idle"]
    /\ attempt = [c \in Calls |-> 0]
    /\ held = {}
    /\ commits = [c \in Calls |-> 0]
    /\ outcome = [c \in Calls |-> "none"]

Goto(c, step) ==
    /\ pc' = [pc EXCEPT ![c] = step]
    /\ UNCHANGED outcome

Release(c) == held' = held \ {c}

(* Out of the async with, with a connection: the call has its outcome, or   *)
(* "none" if it is to be started over.                                      *)
Leave(c, o) ==
    /\ pc' = [pc EXCEPT ![c] = "close"]
    /\ outcome' = [outcome EXCEPT ![c] = o]
    /\ UNCHANGED <<attempt, held>>

(* Out of it without one: there is nothing to wait for.                     *)
End(c, o) ==
    /\ pc' = [pc EXCEPT ![c] = "done"]
    /\ outcome' = [outcome EXCEPT ![c] = o]
    /\ Release(c)
    /\ UNCHANGED attempt

CommitOnce(c) ==
    /\ c \in Writers
    /\ commits' = [commits EXCEPT ![c] = @ + 1]

Start(c) ==
    /\ pc[c] = "idle"
    /\ Goto(c, "wait")
    /\ attempt' = [attempt EXCEPT ![c] = 1]
    /\ UNCHANGED <<held, commits>>

(* pool_size + max_overflow connections at most.                            *)
Acquire(c) ==
    /\ Cardinality(held) < PoolLimit
    /\ \/ pc[c] = "wait" /\ Goto(c, "set")
       \/ pc[c] = "again" /\ Goto(c, "refresh")
    /\ held' = held \cup {c}
    /\ UNCHANGED <<attempt, commits>>

(* pool_timeout                                                             *)
PoolTimeout(c) ==
    /\ pc[c] \in {"wait", "again"}
    /\ End(c, "poolTimeout")
    /\ UNCHANGED commits

(* Not under wait_for.                                                      *)
SetLocal(c) ==
    /\ pc[c] = "set"
    /\ Goto(c, "body")
    /\ UNCHANGED <<attempt, held, commits>>

(* The function returns without having committed.                           *)
Return(c) ==
    /\ pc[c] = "body"
    /\ Leave(c, "read")
    /\ UNCHANGED commits

(* It commits, which gives the connection back, and returns or refreshes    *)
(* what it wrote.                                                           *)
Commit(c) ==
    /\ pc[c] = "body"
    /\ CommitOnce(c)
    /\ \/ End(c, "written")
       \/ Goto(c, "again") /\ Release(c) /\ UNCHANGED attempt

(* create_user: the commit violates a constraint, the function rolls back   *)
(* and looks again.                                                         *)
RollBack(c) ==
    /\ pc[c] = "body" /\ c \in Writers
    /\ Goto(c, "again") /\ Release(c)
    /\ UNCHANGED <<attempt, commits>>

(* Mutant: what was found after a rollback is reported as written.          *)
RefreshWritten(c) ==
    pc[c] = "refresh" /\ Leave(c, "written") /\ UNCHANGED commits

Refresh(c) ==
    /\ pc[c] = "refresh"
    /\ Leave(c, IF commits[c] > 0 THEN "written" ELSE "read")
    /\ UNCHANGED commits

(* Mutants: one attempt too many, the sleep inside the session, and a retry *)
(* of what was committed.                                                   *)
RetryOnceMore(c) ==
    /\ pc[c] = "body" /\ attempt[c] <= Retries
    /\ Leave(c, "none")
    /\ UNCHANGED commits

RetryHolding(c) ==
    /\ pc[c] = "body" /\ attempt[c] < Retries
    /\ Goto(c, "backoff")
    /\ UNCHANGED <<attempt, held, commits>>

RetryAfterCommit(c) ==
    /\ pc[c] \in {"body", "refresh"} /\ attempt[c] < Retries
    /\ Leave(c, "none")
    /\ UNCHANGED commits

(* SQLSTATE 40001 or 40P01, on any attempt but the last: the session is     *)
(* closed before the sleep.                                                 *)
Retry(c) ==
    /\ pc[c] = "body" /\ attempt[c] < Retries
    /\ Leave(c, "none")
    /\ UNCHANGED commits

Wake(c) ==
    /\ pc[c] = "backoff"
    /\ Goto(c, "wait")
    /\ attempt' = [attempt EXCEPT ![c] = @ + 1]
    /\ UNCHANGED <<held, commits>>

(* Any other error of the database or of the function.                      *)
Fail(c) ==
    /\ pc[c] \in {"set", "body", "refresh"}
    /\ Leave(c, "error")
    /\ UNCHANGED commits

(* Mutant: the refresh is outside wait_for.                                 *)
TimeoutBodyOnly(c) ==
    pc[c] = "body" /\ Leave(c, "timeout") /\ UNCHANGED commits

(* wait_for cancels the function.                                           *)
Timeout(c) ==
    /\ \/ pc[c] \in {"body", "refresh"} /\ Leave(c, "timeout")
       \/ pc[c] = "again" /\ End(c, "timeout")
    /\ UNCHANGED commits

(* The commit is done but the answer to it comes too late, or never.        *)
CommitLost(c) ==
    /\ pc[c] = "body"
    /\ CommitOnce(c)
    /\ \E o \in {"timeout", "error"} : Leave(c, o)

(* The session is closed; an error of its ROLLBACK takes the place of what  *)
(* the call would have ended with.                                          *)
Close(c) ==
    /\ pc[c] = "close"
    /\ \/ outcome[c] = "none" /\ Goto(c, "backoff") /\ Release(c) /\ UNCHANGED attempt
       \/ outcome[c] # "none" /\ End(c, outcome[c])
       \/ End(c, "error")
    /\ UNCHANGED commits

Step(c) ==
    \/ Start(c) \/ Acquire(c) \/ PoolTimeout(c) \/ SetLocal(c)
    \/ Return(c) \/ Commit(c) \/ RollBack(c) \/ Refresh(c)
    \/ Retry(c) \/ Wake(c) \/ Fail(c) \/ Timeout(c) \/ CommitLost(c) \/ Close(c)

Next == \E c \in Calls : Step(c)

Spec == Init /\ [][Next]_vars

(* The timers of the process go off: pool_timeout, wait_for, asyncio.sleep. *)
(* Nothing is assumed of the database.                                      *)
TimersFire ==
    \A c \in Calls :
        WF_vars(PoolTimeout(c)) /\ WF_vars(Timeout(c)) /\ WF_vars(Wake(c))

TimerSpec == Spec /\ TimersFire

(* Even of a database that answers every ROLLBACK.                          *)
ClosingSpec == TimerSpec /\ \A c \in Calls : WF_vars(Close(c))

-----------------------------------------------------------------------------
(* Properties. *)

(* Connections: never more than the pool may open, and no call keeps one    *)
(* while it waits for one, sleeps, or after it has ended, whichever way it  *)
(* left the async with.  So no two calls can wait for each other.           *)
PoolSound ==
    /\ Cardinality(held) <= PoolLimit
    /\ held = {c \in Calls : pc[c] \in {"set", "body", "refresh", "close"}}

(* A transaction is committed at most once over all attempts: what failed   *)
(* and is started over was not committed.                                   *)
AppliedAtMostOnce ==
    \A c \in Calls :
        /\ commits[c] <= 1
        /\ pc[c] \in {"wait", "set", "body", "backoff"} => commits[c] = 0
        /\ pc[c] = "close" /\ outcome[c] = "none" => commits[c] = 0

(* query() implements DbCall: what it answers, it answers when it is done.  *)
Told == [c \in Calls |-> IF pc[c] = "done" THEN outcome[c] ELSE "none"]

Abstract == INSTANCE DbCall
    WITH applied <- [c \in Calls |-> commits[c] > 0], outcome <- Told

ImplementsDbCall == Abstract!Spec

(* Whatever the database does, the timers leave a call nowhere for good but *)
(* at the two awaits of query() that are outside wait_for (query.py:58, 59): *)
(* the connection and SET LOCAL before it, and the close of the session     *)
(* after it.  A call that waits for the pool, runs the handler's function,  *)
(* refreshes after a commit or starts over does not stay there, nor does it *)
(* start over for ever.                                                     *)
TimersSuffice ==
    \A c \in Calls : <>[](pc[c] \in {"idle", "set", "close", "done"})

-----------------------------------------------------------------------------
(* SYSTEM_PROMPT.md:319 says to "Wrap DB queries in query() helper to       *)
(* prevent hangs": every call comes back, whatever the database does.       *)
EveryCallEnds ==
    \A c \in Calls : pc[c] # "idle" ~> pc[c] = "done"
=============================================================================
