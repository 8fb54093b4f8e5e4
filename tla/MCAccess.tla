------------------------------- MODULE MCAccess -------------------------------
(* Instances of Access for TLC: a partner's token and a user's, and the     *)
(* secret before and after the partner's is replaced.                       *)
EXTENDS Access

CONSTANTS ada, bob, partner, session, old, new, own, p1, p2

Service(t) == [id |-> partner, token |-> t, user |-> Nothing, type |-> "service"]

Session == [id |-> session, token |-> own, user |-> ada, type |-> "user"]

MCContents == {{Service(old), Session}, {Service(new)}}

MCEnvTokens == {Service(old), Session, [Session EXCEPT !.token = new, !.user = Malformed]}

(* Where a credential is not looked at, one value is enough.                *)
MCRequests ==
    {q \in Asked :
        /\ q.path = "api" /\ q.cookie # Nothing => q.header = own
        /\ q.path = "api" /\ q.header \in Jwt => q.header = [user |-> ada, exp |-> 0]
        /\ q.path = "me" /\ q.header \in Jwt => q.header.user = ada
        /\ q.xuser # ada
        /\ \A j \in {q.cookie, q.header} \cap Jwt : j.exp \in {0, 2}}

(* Production and a developer's machine (README.md).                        *)
Deployments ==
    {[secret |-> TRUE, vault |-> TRUE, dev |-> FALSE],
     [secret |-> FALSE, vault |-> FALSE, dev |-> TRUE]}
=============================================================================
