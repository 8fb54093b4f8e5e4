----------------------------- MODULE MCLawyers -----------------------------
(* Instances of Lawyers for TLC.                                            *)
EXTENDS Lawyers, TLC

CONSTANTS r1, r2, r3, r4, ada, bob

Symmetry == Permutations(Requests) \cup Permutations(Users)

(* In any order: the properties do not compare instants.  No two are the    *)
(* same, so a profile that took another's would show.                       *)
MCInstant ==
    [x \in Requests \cup Users |->
        CASE x = ada -> 1 [] x = bob -> 2
          [] x = r1 -> 3 [] x = r2 -> 4 [] x = r3 -> 5 [] x = r4 -> 6]

(* Every endpoint; where a body has many values, those the handlers treat   *)
(* differently.                                                             *)
MCCalls ==
    {c \in Call : /\ c.op \in {"update", "revise"} => (c.null <=> c.status = Unset)
                  /\ c.op \in {"contract", "subscribe"} => c.user # Nobody
                  /\ c.op = "update" => c.status # "inactive"
                  /\ c.op = "revise" => c.status # "cancelled"}
=============================================================================
