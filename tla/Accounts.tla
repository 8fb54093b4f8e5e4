------------------------------ MODULE Accounts ------------------------------
(***************************************************************************)
(* The users table and the handlers that read and write it:                *)
(*                                                                         *)
(*   create   POST  /users            app/api/routes/users.py              *)
(*   patch    PATCH /users/{user_id}  app/api/routes/users.py              *)
(*   lookup   GET   /users/lookup     app/api/routes/users.py              *)
(*   signup   POST  /auth/signup      app/services/auth.py                 *)
(*   login    POST  /auth/login       app/services/auth.py                 *)
(*   google   GET   /auth/google/callback   app/services/auth.py           *)
(*                                                                         *)
(* Every handler is an asyncio task.  Each await of a statement or of a    *)
(* commit is a point where other requests run, so each is a step here.     *)
(* The table is PostgreSQL at READ COMMITTED: a step sees what is          *)
(* committed when it runs.  A call of db.query() may be cut off by its     *)
(* timeout at any of these points, during the commit included, when the    *)
(* client cannot tell whether the row was written.                         *)
(*                                                                         *)
(* A request inserts at most one row, so the request that inserted a row   *)
(* stands for the row's uuid.                                              *)
(***************************************************************************)

CONSTANTS
    Requests,    \* the requests the server handles, each of them once
    Emails,      \* spellings of e-mail addresses that pass EmailStr
    Lower,       \* Lower[e] is e in lower case
    Keys,        \* idempotency keys, those of the form google:<sub> included
    Passwords,
    Methods,     \* values of UserAuthMethod
    Calls,       \* what a client may ask for
    NoRow, NoKey, NoPassword, Nobody, NoReply

ASSUME LowerAssumption ==
    /\ Lower \in [Emails -> Emails]
    /\ \A e \in Emails : Lower[Lower[e]] = Lower[e]

ASSUME MethodsAssumption == {"email_password", "google"} \subseteq Methods

ASSUME NullAssumption ==
    /\ NoKey \notin Keys
    /\ NoPassword \notin Passwords
    /\ Nobody \notin Requests

Row == [email : Emails, method : Methods,
        password : Passwords \cup {NoPassword}, key : Keys \cup {NoKey}]

ASSUME NoRowAssumption == NoRow \notin Row

(***************************************************************************)
(* The requests, one record shape for all of them: the fields an endpoint  *)
(* does not take hold what its handler puts in the row it creates.         *)
(***************************************************************************)
CreateCall == [op : {"create"}, email : Emails, key : Keys \cup {NoKey},
               method : Methods, password : {NoPassword}, user : {Nobody}]
SignupCall == [op : {"signup"}, email : Emails, key : {NoKey},
               method : {"email_password"}, password : Passwords, user : {Nobody}]
GoogleCall == [op : {"google"}, email : Emails, key : Keys,
               method : {"google"}, password : {NoPassword}, user : {Nobody}]
LoginCall  == [op : {"login"}, email : Emails, key : {NoKey},
               method : {"email_password"}, password : Passwords, user : {Nobody}]
PatchCall  == [op : {"patch"}, email : Emails, key : {NoKey},
               method : Methods, password : {NoPassword}, user : Requests]
LookupCall == [op : {"lookup"}, email : Emails, key : {NoKey},
               method : Methods, password : {NoPassword}, user : {Nobody}]

Call == UNION {CreateCall, SignupCall, GoogleCall, LoginCall, PatchCall, LookupCall}

ASSUME CallsAssumption == Calls \subseteq Call

VARIABLES
    users,    \* users[u]: the committed row of account u, or NoRow
    pc,       \* pc[r]: the await request r stands at
    call,     \* call[r]: what request r asks for, NoReply before it arrives
    seen,     \* seen[r]: the row a login or a patch has loaded
    reply,    \* reply[r]: the answer given to r
    held,     \* history: the auth_methods account u has had
    before    \* history: the accounts committed when r arrived

vars == <<users, pc, call, seen, reply, held, before>>

Steps == {"idle", "find", "insert", "replay", "verify", "update", "done"}

(* HTTP: created 201, replayed 200, ok 200, exists and absent 200,          *)
(* conflict 409, unauthorized 401, notFound 404, timeout 504, error 500.    *)
Statuses == {"created", "replayed", "ok", "exists", "absent", "conflict",
             "unauthorized", "notFound", "timeout", "error"}

Reply == [status : Statuses, user : Requests \cup {Nobody}]

ASSUME NoReplyAssumption == NoReply \notin Call \cup Reply

TypeOK ==
    /\ users \in [Requests -> Row \cup {NoRow}]
    /\ pc \in [Requests -> Steps]
    /\ call \in [Requests -> Call \cup {NoReply}]
    /\ seen \in [Requests -> [user : Requests, row : Row] \cup {NoRow}]
    /\ reply \in [Requests -> Reply \cup {NoReply}]
    /\ held \in [Requests -> SUBSET Methods]
    /\ before \in [Requests -> SUBSET Requests]

Init ==
    /\ users = [u \in Requests |-> NoRow]
    /\ pc = [r \in Requests |-> "idle"]
    /\ call = [r \in Requests |-> NoReply]
    /\ seen = [r \in Requests |-> NoRow]
    /\ reply = [r \in Requests |-> NoReply]
    /\ held = [u \in Requests |-> {}]
    /\ before = [r \in Requests |-> {}]

-----------------------------------------------------------------------------
(* The table. *)

Accounts == {u \in Requests : users[u] # NoRow}

WithKey(k) == {u \in Accounts : users[u].key = k}

WithEmail(e) == {u \in Accounts : users[u].email = e}

(* create_user stores the address in lower case, the two sign-up paths as   *)
(* it was sent.                                                             *)
NewRow(c) ==
    [email |-> IF c.op = "create" THEN Lower[c.email] ELSE c.email,
     method |-> c.method, password |-> c.password, key |-> c.key]

(* The unique constraints on email and on idempotency_key; NULL keys never  *)
(* collide.                                                                 *)
Violates(row) ==
    \/ WithEmail(row.email) # {}
    \/ row.key # NoKey /\ WithKey(row.key) # {}

Insert(r) ==
    /\ ~Violates(NewRow(call[r]))
    /\ users' = [users EXCEPT ![r] = NewRow(call[r])]
    /\ held' = [held EXCEPT ![r] = {call[r].method}]

(* The ORM writes the column only if the value differs from the one it      *)
(* loaded.                                                                  *)
Update(r) ==
    LET u == seen[r].user
    IN  IF call[r].method = seen[r].row.method
        THEN UNCHANGED <<users, held>>
        ELSE /\ users' = [users EXCEPT ![u].method = call[r].method]
             /\ held' = [held EXCEPT ![u] = @ \cup {call[r].method}]

-----------------------------------------------------------------------------
(* Steps shared by the handlers. *)

At(r, op, step) == pc[r] = step /\ call[r].op = op

Answer(r, status, u) ==
    /\ pc' = [pc EXCEPT ![r] = "done"]
    /\ reply' = [reply EXCEPT ![r] = [status |-> status, user |-> u]]
    /\ UNCHANGED <<call, seen, before>>

Goto(r, step) ==
    /\ pc' = [pc EXCEPT ![r] = step]
    /\ UNCHANGED <<call, seen, reply, before>>

Load(r, u, step) ==
    /\ pc' = [pc EXCEPT ![r] = step]
    /\ seen' = [seen EXCEPT ![r] = [user |-> u, row |-> users[u]]]
    /\ UNCHANGED <<call, reply, before>>

ReadOnly == UNCHANGED <<users, held>>

(* A create without a key goes straight to its insert.                      *)
Receive(r) ==
    /\ pc[r] = "idle"
    /\ \E c \in Calls :
         /\ call' = [call EXCEPT ![r] = c]
         /\ pc' = [pc EXCEPT ![r] =
                     IF c.op = "create" /\ c.key = NoKey THEN "insert" ELSE "find"]
    /\ before' = [before EXCEPT ![r] = Accounts]
    /\ UNCHANGED <<users, seen, reply, held>>

-----------------------------------------------------------------------------
(* POST /users *)

CreateFind(r) ==
    /\ At(r, "create", "find")
    /\ \/ \E u \in WithKey(call[r].key) : Answer(r, "replayed", u)
       \/ WithKey(call[r].key) = {} /\ Goto(r, "insert")
    /\ ReadOnly

(* Mutant: a violated constraint is a conflict without another look.        *)
CreateInsertNoReplay(r) ==
    /\ At(r, "create", "insert")
    /\ \/ Insert(r) /\ Answer(r, "created", r)
       \/ Violates(NewRow(call[r])) /\ Answer(r, "conflict", Nobody) /\ ReadOnly

CreateInsert(r) ==
    /\ At(r, "create", "insert")
    /\ \/ Insert(r) /\ Answer(r, "created", r)
       \/ /\ Violates(NewRow(call[r]))
          /\ \/ call[r].key # NoKey /\ Goto(r, "replay")
             \/ call[r].key = NoKey /\ Answer(r, "conflict", Nobody)
          /\ ReadOnly

(* Mutant: the replay is looked up by address.                              *)
CreateReplayByEmail(r) ==
    /\ At(r, "create", "replay")
    /\ \E u \in WithEmail(Lower[call[r].email]) : Answer(r, "replayed", u)
    /\ ReadOnly

CreateReplay(r) ==
    /\ At(r, "create", "replay")
    /\ \/ \E u \in WithKey(call[r].key) : Answer(r, "replayed", u)
       \/ WithKey(call[r].key) = {} /\ Answer(r, "conflict", Nobody)
    /\ ReadOnly

(* POST /auth/signup: two calls of query(), the hashing between them.  The  *)
(* IntegrityError of the second is caught by nobody.                        *)

(* Mutant: the address is not looked up first.                              *)
SignupFindSkipped(r) == At(r, "signup", "find") /\ Goto(r, "insert") /\ ReadOnly

SignupFind(r) ==
    /\ At(r, "signup", "find")
    /\ \/ WithEmail(call[r].email) # {} /\ Answer(r, "conflict", Nobody)
       \/ WithEmail(call[r].email) = {} /\ Goto(r, "insert")
    /\ ReadOnly

(* Mutant: a violated constraint is answered with the account in the way.   *)
SignupInsertUpsert(r) ==
    /\ At(r, "signup", "insert")
    /\ \/ Insert(r) /\ Answer(r, "created", r)
       \/ ReadOnly /\ \E u \in WithEmail(call[r].email) : Answer(r, "created", u)

SignupInsert(r) ==
    /\ At(r, "signup", "insert")
    /\ \/ Insert(r) /\ Answer(r, "created", r)
       \/ /\ Violates(NewRow(call[r]))
          /\ Answer(r, "error", Nobody)
          /\ ReadOnly

(* POST /auth/login: the password is checked in a thread, on the row that   *)
(* was loaded before.                                                       *)

(* Mutant: the address is compared without regard to case.                  *)
LoginFindAnyCase(r) ==
    /\ At(r, "login", "find")
    /\ \E u \in Accounts :
         /\ Lower[users[u].email] = Lower[call[r].email]
         /\ users[u].password # NoPassword
         /\ Load(r, u, "verify")
    /\ ReadOnly

LoginFind(r) ==
    /\ At(r, "login", "find")
    /\ \/ \E u \in WithEmail(call[r].email) :
            IF users[u].method # "email_password" \/ users[u].password = NoPassword
            THEN Answer(r, "conflict", u)
            ELSE Load(r, u, "verify")
       \/ WithEmail(call[r].email) = {} /\ Answer(r, "unauthorized", Nobody)
    /\ ReadOnly

LoginVerify(r) ==
    /\ At(r, "login", "verify")
    /\ \/ /\ call[r].password = seen[r].row.password
          /\ Answer(r, "ok", seen[r].user)
       \/ /\ call[r].password # seen[r].row.password
          /\ Answer(r, "unauthorized", Nobody)
    /\ ReadOnly

(* GET /auth/google/callback: found by e-mail, created with the key         *)
(* google:<sub>.                                                            *)

(* Mutant: the method of the account found is not looked at.                *)
GoogleFindAnyMethod(r) ==
    /\ At(r, "google", "find")
    /\ \/ \E u \in WithEmail(call[r].email) : Answer(r, "ok", u)
       \/ WithEmail(call[r].email) = {} /\ Goto(r, "insert")
    /\ ReadOnly

GoogleFind(r) ==
    /\ At(r, "google", "find")
    /\ \/ \E u \in WithEmail(call[r].email) :
            Answer(r, IF users[u].method = "google" THEN "ok" ELSE "conflict", u)
       \/ WithEmail(call[r].email) = {} /\ Goto(r, "insert")
    /\ ReadOnly

GoogleInsert(r) ==
    /\ At(r, "google", "insert")
    /\ \/ Insert(r) /\ Answer(r, "ok", r)
       \/ /\ Violates(NewRow(call[r]))
          /\ Answer(r, "error", Nobody)
          /\ ReadOnly

(* PATCH /users/{user_id}; one that leaves auth_method out writes what one   *)
(* that repeats the loaded value does: nothing.                             *)

(* Mutant: the 404 is forgotten.                                            *)
PatchFindAny(r) ==
    At(r, "patch", "find") /\ Load(r, call[r].user, "update") /\ ReadOnly

PatchFind(r) ==
    /\ At(r, "patch", "find")
    /\ \/ call[r].user \in Accounts /\ Load(r, call[r].user, "update")
       \/ call[r].user \notin Accounts /\ Answer(r, "notFound", Nobody)
    /\ ReadOnly

PatchUpdate(r) ==
    /\ At(r, "patch", "update")
    /\ Update(r)
    /\ Answer(r, "ok", seen[r].user)

(* Mutant: the stored address is not folded.                                *)
LookupFindExact(r) ==
    /\ At(r, "lookup", "find")
    /\ Answer(r, IF WithEmail(Lower[call[r].email]) # {} THEN "exists" ELSE "absent", Nobody)
    /\ ReadOnly

(* GET /users/lookup: the comparison ignores case on both sides.            *)
LookupFind(r) ==
    LET same == {u \in Accounts : Lower[users[u].email] = Lower[call[r].email]}
    IN  /\ At(r, "lookup", "find")
        /\ Answer(r, IF same # {} THEN "exists" ELSE "absent", Nobody)
        /\ ReadOnly

(* asyncio.wait_for cancels the handler's database work: DbTimeoutError,    *)
(* answered 504.  Nothing was written ...                                   *)
Timeout(r) ==
    /\ pc[r] \in {"find", "insert", "replay", "update"}
    /\ Answer(r, "timeout", Nobody)
    /\ ReadOnly

(* ... or the server had the commit already (or the refresh that follows it *)
(* was what took too long).                                                 *)
CommitThenTimeout(r) ==
    /\ \/ pc[r] = "insert" /\ Insert(r)
       \/ pc[r] = "update" /\ Update(r)
    /\ Answer(r, "timeout", Nobody)

(* A deadlock or a serialization failure: nothing was written, and query()  *)
(* calls the handler's function again.  The functions of one statement are  *)
(* left as they were.                                                       *)
Retry(r) ==
    /\ \/ /\ pc[r] \in {"insert", "replay"}
          /\ call[r].op = "create" /\ call[r].key # NoKey
       \/ At(r, "patch", "update")
    /\ Goto(r, "find")
    /\ ReadOnly

Handle(r) ==
    \/ CreateFind(r) \/ CreateInsert(r) \/ CreateReplay(r)
    \/ SignupFind(r) \/ SignupInsert(r)
    \/ LoginFind(r) \/ LoginVerify(r)
    \/ GoogleFind(r) \/ GoogleInsert(r)
    \/ PatchFind(r) \/ PatchUpdate(r)
    \/ LookupFind(r)
    \/ Timeout(r) \/ CommitThenTimeout(r) \/ Retry(r)

Next == \E r \in Requests : Receive(r) \/ Handle(r)

Spec == Init /\ [][Next]_vars

-----------------------------------------------------------------------------
(* Properties. *)

Answered(r, op, statuses) ==
    pc[r] = "done" /\ call[r].op = op /\ reply[r].status \in statuses

(* Creating with one Idempotency-Key, however often, concurrently or after  *)
(* a 504 whose insert did commit, ends in one account: every success with   *)
(* the key names the same user, and that user has the key.                  *)
SameKeySameUser ==
    \A r, s \in Requests :
        /\ Answered(r, "create", {"created", "replayed"})
        /\ Answered(s, "create", {"created", "replayed"})
        /\ call[r].key # NoKey
        /\ call[r].key = call[s].key
        => /\ reply[r].user = reply[s].user
           /\ reply[r].user \in WithKey(call[r].key)

(* A create with a key is refused only because of somebody else's account:  *)
(* one with the same address that does not carry the key.  A client that    *)
(* repeats its own request is never told "already exists".                  *)
ConflictIsForeign ==
    \A r \in Requests :
        Answered(r, "create", {"conflict"})
        => \E u \in WithEmail(Lower[call[r].email]) :
             call[r].key # NoKey => users[u].key # call[r].key

(* A sign-up for an address that had an account when the request arrived is *)
(* refused with 409; it makes no second account and does not fail with 500. *)
KnownEmailConflicts ==
    \A r \in Requests :
        /\ pc[r] = "done" /\ call[r].op = "signup"
        /\ \E u \in before[r] : users[u].email = call[r].email
        => reply[r].status \in {"conflict", "timeout"}

(* A Google login is given an account only if that account was google at    *)
(* some time and has the address Google vouches for; an account made with a *)
(* password is not taken over, not even by racing its sign-up.              *)
NoSilentTakeover ==
    \A r \in Requests :
        Answered(r, "google", {"ok"})
        => LET u == reply[r].user
           IN  /\ u \in WithEmail(call[r].email)
               /\ "google" \in held[u]

(* A password login is given an account only with that account's address    *)
(* and password, and only if it once was an email_password account.         *)
LoginNeedsPassword ==
    \A r \in Requests :
        Answered(r, "login", {"ok"})
        => LET u == reply[r].user
           IN  /\ u \in WithEmail(call[r].email)
               /\ users[u].password = call[r].password
               /\ "email_password" \in held[u]

(* A lookup sees every account committed before it arrived, however its     *)
(* address or the one asked for is spelled.                                 *)
LookupSeesKnown ==
    \A r \in Requests :
        /\ Answered(r, "lookup", {"absent"})
        => \A u \in before[r] : Lower[users[u].email] # Lower[call[r].email]

(***************************************************************************)
(* Each request takes effect at one instant, however its statements and    *)
(* those of others interleave: the handlers implement AtomicAccounts.  A    *)
(* login is decided when it has loaded the row, not when the hash has been  *)
(* compared, so that is where its answer is mapped to.                      *)
(***************************************************************************)
Verdict(r) ==
    IF call[r].password = seen[r].row.password
    THEN [status |-> "ok", user |-> seen[r].user]
    ELSE [status |-> "unauthorized", user |-> Nobody]

Decided ==
    [r \in Requests |-> IF pc[r] = "verify" THEN Verdict(r) ELSE reply[r]]

Atomic == INSTANCE AtomicAccounts WITH reply <- Decided

ImplementsAtomic == Atomic!Spec

-----------------------------------------------------------------------------
(* What the repository says of these handlers and the code does not do.     *)

(* services/auth.py:25, of signup_with_email: "Raises 409 if email already  *)
(* exists."  So it never fails on the unique constraint.                    *)
SignupConflictIs409 ==
    \A r \in Requests : ~Answered(r, "signup", {"error"})

(* services/auth.py:117 calls the Google path an upsert: an identity that   *)
(* is there already is found, it does not make the login fail.              *)
GoogleUpsertNeverFails ==
    \A r \in Requests : ~Answered(r, "google", {"error"})

(* services/auth.py:73, of login_with_email: "Raises 401 on any failure (no *)
(* email enumeration)."  So a log-in that is answered and fails says        *)
(* nothing of the account: the status is 401, account or no account.        *)
LoginFailureIs401 ==
    \A r \in Requests :
        pc[r] = "done" /\ call[r].op = "login"
        => reply[r].status \in {"ok", "unauthorized", "timeout"}
=============================================================================
