---------------------------- MODULE TokenBucket ----------------------------
(***************************************************************************)
(* What a rate limiter promises its callers: one bucket per key, filled by *)
(* the clock whether or not anybody asks.  A request takes Cost out of its *)
(* bucket; it is refused only when the bucket holds less, and a refusal    *)
(* costs nothing.  RateLimit keeps no clock running and is shown to        *)
(* behave like this all the same.                                          *)
(***************************************************************************)
EXTENDS Integers

CONSTANTS
    Keys,
    Cap,     \* what a full bucket holds
    Cost,    \* what a request takes
    Rate     \* what a tick brings

VARIABLES
    level,     \* what each bucket holds now
    spent,     \* requests of each key admitted so far
    refused    \* was the key refused since it was last admitted

vars == <<level, spent, refused>>

Init ==
    /\ level = [k \in Keys |-> Cap]
    /\ spent = [k \in Keys |-> 0]
    /\ refused = [k \in Keys |-> FALSE]

Admit(k) ==
    /\ level[k] >= Cost
    /\ level' = [level EXCEPT ![k] = @ - Cost]
    /\ spent' = [spent EXCEPT ![k] = @ + 1]
    /\ refused' = [refused EXCEPT ![k] = FALSE]

Refuse(k) ==
    /\ level[k] < Cost
    /\ refused' = [refused EXCEPT ![k] = TRUE]
    /\ UNCHANGED <<level, spent>>

(* A tick of the clock, for every bucket at once.                           *)
Fill ==
    /\ level' = [k \in Keys |-> IF level[k] + Rate < Cap THEN level[k] + Rate ELSE Cap]
    /\ UNCHANGED <<spent, refused>>

(* A new start of the process: every bucket is full again.                  *)
Reset ==
    /\ level' = [k \in Keys |-> Cap]
    /\ UNCHANGED <<spent, refused>>

Next == (\E k \in Keys : Admit(k) \/ Refuse(k)) \/ Fill \/ Reset

Spec == Init /\ [][Next]_vars
=============================================================================
