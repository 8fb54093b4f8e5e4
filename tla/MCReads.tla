------------------------------ MODULE MCReads ------------------------------
(* Instances of Reads for TLC.  Readers do not meet each other, so one is   *)
(* enough.                                                                  *)
EXTENDS Reads, TLC

CONSTANTS r1, ada, bob, cyd, c1, c2

Symmetry == Permutations(Users) \cup Permutations(Contracts)

Promoted == {u \in Users : profiles[u] # NoRow}

Asking(ops) == \A r \in Readers : ask[r] = Null \/ ask[r].op \in ops

(* The states to go on from: until the last answer, and with the tables     *)
(* full where the endpoint reads them.  GET /users sorts by created_at and  *)
(* reads no profile; GET /lawyers sorts by promoted_at, its pages read no   *)
(* contract, and a walk past a lawyer who left promises nothing.  For what  *)
(* else the endpoints answer, two users and two contracts are enough, of    *)
(* one instant, which come in every order.                                  *)
Worthwhile ==
    /\ \E r \in Readers : pc[r] # "done"
    /\ \/ Promoted = {}
       \/ /\ \A u \in Members : users[u] = 1
          /\ Signed = {} /\ Asking({"lawyers"}) /\ \A r \in Readers : walk[r].left = {}
       \/ /\ \A u \in Members : users[u] = 1
          /\ \A u \in Promoted : profiles[u].at = 1
          /\ Cardinality(Members) <= 2 /\ Asking({a.op : a \in Ask} \ {"users"})
=============================================================================
