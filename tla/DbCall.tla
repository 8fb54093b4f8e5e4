------------------------------- MODULE DbCall -------------------------------
(***************************************************************************)
(* What a handler may rely on when it calls db.query(): the transaction it *)
(* hands over takes effect at most once, and an answer that reports a      *)
(* write means that it did.  Any other outcome leaves that open.  DbQuery  *)
(* implements this module.                                                 *)
(***************************************************************************)

CONSTANTS Calls, Writers

VARIABLES
    applied,   \* has the transaction of c been committed
    outcome    \* "none" while the call runs

vars == <<applied, outcome>>

Init ==
    /\ applied = [c \in Calls |-> FALSE]
    /\ outcome = [c \in Calls |-> "none"]

Running(c) == outcome[c] = "none"

Apply(c) ==
    /\ c \in Writers /\ ~applied[c]
    /\ applied' = [applied EXCEPT ![c] = TRUE]

End(c) ==
    /\ \/ applied'[c] /\ outcome' = [outcome EXCEPT ![c] = "written"]
       \/ ~applied'[c] /\ outcome' = [outcome EXCEPT ![c] = "read"]
       \/ \E o \in {"timeout", "error", "poolTimeout"} :
            outcome' = [outcome EXCEPT ![c] = o]

(* A call commits, ends, or does both at once.                             *)
Step(c) ==
    /\ Running(c)
    /\ \/ Apply(c) /\ UNCHANGED outcome
       \/ (Apply(c) \/ UNCHANGED applied) /\ End(c)

Next == \E c \in Calls : Step(c)

Spec == Init /\ [][Next]_vars
=============================================================================
