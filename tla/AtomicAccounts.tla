--------------------------- MODULE AtomicAccounts ---------------------------
(***************************************************************************)
(* The account endpoints without their statements: a table of accounts and *)
(* requests that are each served in one step.  Accounts implements this    *)
(* module, so it is what a client may count on when requests overlap.  It   *)
(* is less than the docstrings promise: SignupConflictIs409,               *)
(* GoogleUpsertNeverFails and LoginFailureIs401, which Accounts states,    *)
(* fail here as they do there.                                             *)
(***************************************************************************)

CONSTANTS Requests, Lower, Calls, NoRow, NoKey, NoPassword, Nobody, NoReply

VARIABLES users, call, reply, held

vars == <<users, call, reply, held>>

Init ==
    /\ users = [u \in Requests |-> NoRow]
    /\ call = [r \in Requests |-> NoReply]
    /\ reply = [r \in Requests |-> NoReply]
    /\ held = [u \in Requests |-> {}]

Accounts == {u \in Requests : users[u] # NoRow}

(* The address a request is about: only POST /users folds it.              *)
Address(c) == IF c.op = "create" THEN Lower[c.email] ELSE c.email

Holder(c) == {u \in Accounts : users[u].email = Address(c)}

Bearer(c) == {u \in Accounts : c.key # NoKey /\ users[u].key = c.key}

Reply(r, status, u) ==
    reply' = [reply EXCEPT ![r] = [status |-> status, user |-> u]]

Keep == UNCHANGED <<users, held>>

Open(r) ==
    LET c == call[r]
    IN  /\ Holder(c) = {} /\ Bearer(c) = {}
        /\ users' = [users EXCEPT ![r] = [email |-> Address(c), method |-> c.method,
                                          password |-> c.password, key |-> c.key]]
        /\ held' = [held EXCEPT ![r] = {c.method}]

Ask(r) ==
    /\ call[r] = NoReply
    /\ \E c \in Calls : call' = [call EXCEPT ![r] = c]
    /\ UNCHANGED <<users, reply, held>>

(* The key decides first, then the address.                                *)
Create(r) ==
    LET c == call[r]
    IN  \/ Open(r) /\ Reply(r, "created", r)
        \/ \E u \in Bearer(c) : Keep /\ Reply(r, "replayed", u)
        \/ Bearer(c) = {} /\ Holder(c) # {} /\ Keep /\ Reply(r, "conflict", Nobody)

(* The loser of a race for an address fails instead of being refused.      *)
Signup(r) ==
    \/ Open(r) /\ Reply(r, "created", r)
    \/ /\ Holder(call[r]) # {} /\ Keep
       /\ \E s \in {"conflict", "error"} : Reply(r, s, Nobody)

Google(r) ==
    LET c == call[r]
    IN  \/ Open(r) /\ Reply(r, "ok", r)
        \/ /\ Keep
           /\ \E u \in Holder(c) :
                Reply(r, IF users[u].method = "google" THEN "ok" ELSE "conflict", u)
        \/ Holder(c) \cup Bearer(c) # {} /\ Keep /\ Reply(r, "error", Nobody)

(* An account of another method, or without a password, is answered 409     *)
(* with its method, where services/auth.py:73 says 401.                    *)
Login(r) ==
    LET c == call[r]
    IN  /\ Keep
        /\ \/ Holder(c) = {} /\ Reply(r, "unauthorized", Nobody)
           \/ \E u \in Holder(c) :
                IF users[u].method # "email_password" \/ users[u].password = NoPassword
                THEN Reply(r, "conflict", u)
                ELSE IF users[u].password = c.password
                     THEN Reply(r, "ok", u)
                     ELSE Reply(r, "unauthorized", Nobody)

(* A patch that found the value it was to write may overlook that another   *)
(* one has replaced it.                                                    *)
Patch(r) ==
    LET u == call[r].user
        m == call[r].method
    IN  \/ u \notin Accounts /\ Keep /\ Reply(r, "notFound", Nobody)
        \/ /\ u \in Accounts /\ Reply(r, "ok", u)
           /\ \/ /\ users' = [users EXCEPT ![u].method = m]
                 /\ held' = [held EXCEPT ![u] = @ \cup {m}]
              \/ m \in held[u] /\ Keep

Lookup(r) ==
    LET same == {u \in Accounts : Lower[users[u].email] = Lower[call[r].email]}
    IN  Keep /\ Reply(r, IF same # {} THEN "exists" ELSE "absent", Nobody)

(* A request that is cut off had its whole effect or none.                 *)
CutOff(r) ==
    /\ Reply(r, "timeout", Nobody)
    /\ \/ Keep
       \/ call[r].op \in {"create", "signup", "google"} /\ Open(r)
       \/ /\ call[r].op = "patch" /\ call[r].user \in Accounts
          /\ users' = [users EXCEPT ![call[r].user].method = call[r].method]
          /\ held' = [held EXCEPT ![call[r].user] = @ \cup {call[r].method}]

Serve(r) ==
    /\ call[r] # NoReply /\ reply[r] = NoReply
    /\ \/ call[r].op = "create" /\ Create(r)
       \/ call[r].op = "signup" /\ Signup(r)
       \/ call[r].op = "google" /\ Google(r)
       \/ call[r].op = "login" /\ Login(r)
       \/ call[r].op = "patch" /\ Patch(r)
       \/ call[r].op = "lookup" /\ Lookup(r)
       \/ CutOff(r)
    /\ UNCHANGED call

Next == \E r \in Requests : Ask(r) \/ Serve(r)

Spec == Init /\ [][Next]_vars
=============================================================================
