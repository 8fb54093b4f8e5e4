--------------------------- MODULE AccountsProofs ---------------------------
(***************************************************************************)
(* The invariants of the account endpoints, for any number of requests,    *)
(* addresses, keys and passwords.                                          *)
(***************************************************************************)
EXTENDS Accounts, TLAPS

Seen == [user : Requests, row : Row]

(* What holds of a request besides its type: it has been asked for          *)
(* something, has no row before it is done, and has loaded a row that is    *)
(* still there; accounts do not go away.                                    *)
Standing ==
    \A r \in Requests :
        /\ pc[r] # "idle" => call[r] \in Call
        /\ pc[r] # "done" => users[r] = NoRow
        /\ pc[r] \in {"verify", "update"} =>
             seen[r] \in Seen /\ users[seen[r].user] # NoRow
        /\ \A u \in before[r] : users[u] # NoRow

Base == TypeOK /\ Standing

-----------------------------------------------------------------------------
(* The requests and their rows. *)

LEMMA CallFields ==
    ASSUME NEW c \in Call
    PROVE  /\ c.email \in Emails
           /\ c.key \in Keys \cup {NoKey}
           /\ c.method \in Methods
           /\ c.password \in Passwords \cup {NoPassword}
           /\ c.user \in Requests \cup {Nobody}
           /\ c.op = "patch" => c.user \in Requests
<1>1. CASE c \in CreateCall BY <1>1 DEF CreateCall
<1>2. CASE c \in SignupCall BY <1>2, MethodsAssumption DEF SignupCall
<1>3. CASE c \in GoogleCall BY <1>3, MethodsAssumption DEF GoogleCall
<1>4. CASE c \in LoginCall BY <1>4, MethodsAssumption DEF LoginCall
<1>5. CASE c \in PatchCall BY <1>5 DEF PatchCall
<1>6. CASE c \in LookupCall BY <1>6 DEF LookupCall
<1> QED BY <1>1, <1>2, <1>3, <1>4, <1>5, <1>6 DEF Call

(* The row a request inserts is a row, with the key it came with.           *)
LEMMA NewRowFields ==
    ASSUME NEW c \in Call
    PROVE  /\ NewRow(c) \in Row
           /\ NewRow(c) # NoRow
           /\ NewRow(c).key = c.key
           /\ NewRow(c).method = c.method
           /\ NewRow(c).password = c.password
           /\ NewRow(c).email = IF c.op = "create" THEN Lower[c.email] ELSE c.email
<1>1. c.op = "create" => Lower[c.email] \in Emails
  BY CallFields, LowerAssumption
<1>2. NewRow(c) \in Row
  BY <1>1, CallFields DEF NewRow, Row
<1> QED BY <1>2, NoRowAssumption DEF NewRow

LEMMA RowFields ==
    ASSUME NEW w \in Row
    PROVE  /\ w # NoRow
           /\ w.email \in Emails /\ w.method \in Methods
           /\ w.password \in Passwords \cup {NoPassword}
           /\ w.key \in Keys \cup {NoKey}
BY NoRowAssumption DEF Row

LEMMA StoredRow ==
    ASSUME TypeOK, NEW u \in Requests
    PROVE  /\ u \in Accounts <=> users[u] # NoRow
           /\ users[u] # NoRow => users[u] \in Row
BY DEF TypeOK, Accounts

-----------------------------------------------------------------------------
(* How a step changes the table. *)

(* Nothing, one new row for the request that acts, or the method of a row   *)
(* that is there.                                                           *)
Inserts(r) ==
    /\ users[r] = NoRow
    /\ ~Violates(NewRow(call[r]))
    /\ users' = [users EXCEPT ![r] = NewRow(call[r])]
    /\ held' = [held EXCEPT ![r] = {call[r].method}]

Patches(u, m) ==
    /\ users[u] # NoRow
    /\ users' = [users EXCEPT ![u].method = m]
    /\ held' = [held EXCEPT ![u] = @ \cup {m}]

TableStep(r) ==
    \/ UNCHANGED <<users, held>>
    \/ call[r] \in Call /\ Inserts(r)
    \/ \E u \in Requests, m \in Methods : Patches(u, m)

LEMMA InsertIsTableStep ==
    ASSUME Base, NEW r \in Requests, pc[r] = "insert", Insert(r)
    PROVE  TableStep(r)
BY DEF Base, Standing, Insert, TableStep, Inserts

LEMMA UpdateIsTableStep ==
    ASSUME Base, NEW r \in Requests, pc[r] = "update", Update(r)
    PROVE  TableStep(r)
<1>1. /\ call[r] \in Call /\ seen[r].user \in Requests
      /\ users[seen[r].user] # NoRow
  BY DEF Base, Standing, Seen
<1>2. call[r].method \in Methods
  BY <1>1, CallFields
<1>3. CASE call[r].method = seen[r].row.method
  BY <1>3 DEF Update, TableStep
<1>4. CASE call[r].method # seen[r].row.method
  BY <1>1, <1>2, <1>4 DEF Update, TableStep, Patches
<1> QED BY <1>3, <1>4

LEMMA HandleIsTableStep ==
    ASSUME Base, NEW r \in Requests, Handle(r)
    PROVE  TableStep(r)
<1>1. CASE CreateInsert(r)
  BY <1>1, InsertIsTableStep DEF CreateInsert, At, ReadOnly, TableStep
<1>2. CASE SignupInsert(r)
  BY <1>2, InsertIsTableStep DEF SignupInsert, At, ReadOnly, TableStep
<1>3. CASE GoogleInsert(r)
  BY <1>3, InsertIsTableStep DEF GoogleInsert, At, ReadOnly, TableStep
<1>4. CASE PatchUpdate(r)
  BY <1>4, UpdateIsTableStep DEF PatchUpdate, At
<1>5. CASE CommitThenTimeout(r)
  BY <1>5, InsertIsTableStep, UpdateIsTableStep DEF CommitThenTimeout
<1>6. CASE \/ CreateFind(r) \/ CreateReplay(r) \/ SignupFind(r) \/ LoginFind(r)
           \/ LoginVerify(r) \/ GoogleFind(r) \/ PatchFind(r) \/ LookupFind(r)
           \/ Timeout(r) \/ Retry(r)
  BY <1>6 DEF CreateFind, CreateReplay, SignupFind, LoginFind, LoginVerify,
              GoogleFind, PatchFind, LookupFind, Timeout, Retry, ReadOnly, TableStep
<1> QED BY <1>1, <1>2, <1>3, <1>4, <1>5, <1>6 DEF Handle

(* An account stays, with its address, key and password, and does not       *)
(* forget the methods it had.                                               *)
Kept(u) ==
    /\ users'[u] \in Row
    /\ users'[u].email = users[u].email
    /\ users'[u].key = users[u].key
    /\ users'[u].password = users[u].password
    /\ held[u] \subseteq held'[u]

LEMMA TableGrows ==
    ASSUME Base, NEW r \in Requests, TableStep(r)
    PROVE  /\ users' \in [Requests -> Row \cup {NoRow}]
           /\ held' \in [Requests -> SUBSET Methods]
           /\ \A u \in Requests : users[u] # NoRow => Kept(u)
           /\ \A u \in Requests : users[u] = NoRow /\ u # r => users'[u] = NoRow
<1>0. /\ users \in [Requests -> Row \cup {NoRow}]
      /\ held \in [Requests -> SUBSET Methods]
  BY DEF Base, TypeOK
<1>1. CASE UNCHANGED <<users, held>>
  BY <1>0, <1>1 DEF Kept
<1>2. CASE call[r] \in Call /\ Inserts(r)
  <2>1. NewRow(call[r]) \in Row /\ call[r].method \in Methods
    BY <1>2, NewRowFields, CallFields
  <2> QED BY <1>0, <1>2, <2>1 DEF Inserts, Kept
<1>3. ASSUME NEW u \in Requests, NEW m \in Methods, Patches(u, m)
      PROVE  /\ users' \in [Requests -> Row \cup {NoRow}]
             /\ held' \in [Requests -> SUBSET Methods]
             /\ \A v \in Requests : users[v] # NoRow => Kept(v)
             /\ \A v \in Requests : users[v] = NoRow /\ v # r => users'[v] = NoRow
  <2> DEFINE w == [users[u] EXCEPT !.method = m]
  <2>1. users[u] \in Row
    BY <1>0, <1>3 DEF Patches
  <2>2. /\ w \in Row /\ w.email = users[u].email /\ w.key = users[u].key
        /\ w.password = users[u].password
    BY <2>1 DEF Row
  <2>3. users' = [users EXCEPT ![u] = w]
    BY <1>3 DEF Patches
  <2> HIDE DEF w
  <2> QED BY <1>0, <1>3, <2>1, <2>2, <2>3 DEF Patches, Kept
<1> QED BY <1>1, <1>2, <1>3 DEF TableStep

-----------------------------------------------------------------------------
(* How a step changes the request that acts. *)

Moves(r) ==
    /\ \E step \in Steps \ {"idle"} : pc' = [pc EXCEPT ![r] = step]
    /\ \E s \in Seen \cup {NoRow} : seen' = [seen EXCEPT ![r] = s]
    /\ reply' = reply \/ \E a \in Reply : reply' = [reply EXCEPT ![r] = a]
    /\ UNCHANGED <<call, before>>

(* A request that goes on has written nothing, and what it goes on with is  *)
(* a row of the table.                                                      *)
Continues(r) ==
    /\ pc'[r] # "done" => UNCHANGED users
    /\ pc'[r] \in {"verify", "update"} =>
         \E u \in Requests :
            /\ users[u] # NoRow
            /\ seen'[r] = [user |-> u, row |-> users[u]]

LEMMA AnswerMoves ==
    ASSUME TypeOK, NEW r \in Requests, NEW s \in Statuses,
           NEW u \in Requests \cup {Nobody}, Answer(r, s, u)
    PROVE  Moves(r) /\ Continues(r)
<1>1. [status |-> s, user |-> u] \in Reply
  BY DEF Reply
<1>2. seen[r] \in Seen \cup {NoRow} /\ seen' = [seen EXCEPT ![r] = seen[r]]
  BY DEF TypeOK, Answer, Seen
<1>3. "done" \in Steps \ {"idle"} /\ pc' = [pc EXCEPT ![r] = "done"] /\ pc'[r] = "done"
  BY DEF TypeOK, Answer, Steps
<1> QED BY <1>1, <1>2, <1>3 DEF Answer, Moves, Continues

LEMMA GotoMoves ==
    ASSUME TypeOK, NEW r \in Requests, NEW step \in {"find", "insert", "replay"},
           Goto(r, step), ReadOnly
    PROVE  Moves(r) /\ Continues(r)
<1>1. seen[r] \in Seen \cup {NoRow} /\ seen' = [seen EXCEPT ![r] = seen[r]]
  BY DEF TypeOK, Goto, Seen
<1>2. step \in Steps \ {"idle"} /\ pc' = [pc EXCEPT ![r] = step] /\ pc'[r] = step
  BY DEF TypeOK, Goto, Steps
<1> QED BY <1>1, <1>2 DEF Goto, ReadOnly, Moves, Continues

LEMMA LoadMoves ==
    ASSUME TypeOK, NEW r \in Requests, NEW u \in Accounts,
           NEW step \in {"verify", "update"}, Load(r, u, step), ReadOnly
    PROVE  Moves(r) /\ Continues(r)
<1> DEFINE s == [user |-> u, row |-> users[u]]
<1>1. u \in Requests /\ users[u] # NoRow /\ s \in Seen
  BY StoredRow DEF Accounts, Seen
<1>2. seen' = [seen EXCEPT ![r] = s] /\ seen'[r] = s
  BY DEF TypeOK, Load
<1>3. step \in Steps \ {"idle"} /\ pc' = [pc EXCEPT ![r] = step]
  BY DEF Load, Steps
<1> QED BY <1>1, <1>2, <1>3 DEF Load, ReadOnly, Moves, Continues

LEMMA CreateMoves ==
    ASSUME Base, NEW r \in Requests,
           CreateFind(r) \/ CreateInsert(r) \/ CreateReplay(r)
    PROVE  Moves(r) /\ Continues(r)
<1> USE DEF Base, Statuses
<1>1. CASE CreateFind(r)
  BY <1>1, AnswerMoves, GotoMoves DEF CreateFind, WithKey, Accounts
<1>2. CASE CreateInsert(r)
  BY <1>2, AnswerMoves, GotoMoves DEF CreateInsert
<1>3. CASE CreateReplay(r)
  BY <1>3, AnswerMoves DEF CreateReplay, WithKey, Accounts
<1> QED BY <1>1, <1>2, <1>3

LEMMA SignupMoves ==
    ASSUME Base, NEW r \in Requests, SignupFind(r) \/ SignupInsert(r)
    PROVE  Moves(r) /\ Continues(r)
BY AnswerMoves, GotoMoves DEF Base, Statuses, SignupFind, SignupInsert

LEMMA GoogleMoves ==
    ASSUME Base, NEW r \in Requests, GoogleFind(r) \/ GoogleInsert(r)
    PROVE  Moves(r) /\ Continues(r)
<1> USE DEF Base, Statuses
<1>1. CASE GoogleFind(r)
  BY <1>1, AnswerMoves, GotoMoves DEF GoogleFind, WithEmail, Accounts
<1>2. CASE GoogleInsert(r)
  BY <1>2, AnswerMoves DEF GoogleInsert
<1> QED BY <1>1, <1>2

LEMMA LoginMoves ==
    ASSUME Base, NEW r \in Requests, LoginFind(r) \/ LoginVerify(r)
    PROVE  Moves(r) /\ Continues(r)
<1> USE DEF Base, Statuses
<1>1. CASE LoginFind(r)
  BY <1>1, AnswerMoves, LoadMoves DEF LoginFind, WithEmail, Accounts
<1>2. CASE LoginVerify(r)
  <2>1. seen[r].user \in Requests
    BY <1>2 DEF LoginVerify, At, Standing, Seen
  <2> QED BY <1>2, <2>1, AnswerMoves DEF LoginVerify
<1> QED BY <1>1, <1>2

LEMMA PatchMoves ==
    ASSUME Base, NEW r \in Requests, PatchFind(r) \/ PatchUpdate(r)
    PROVE  Moves(r) /\ Continues(r)
<1> USE DEF Base, Statuses
<1>1. CASE PatchFind(r)
  BY <1>1, AnswerMoves, LoadMoves DEF PatchFind
<1>2. CASE PatchUpdate(r)
  <2>1. seen[r].user \in Requests
    BY <1>2 DEF PatchUpdate, At, Standing, Seen
  <2> QED BY <1>2, <2>1, AnswerMoves DEF PatchUpdate
<1> QED BY <1>1, <1>2

LEMMA HandleMoves ==
    ASSUME Base, NEW r \in Requests, Handle(r)
    PROVE  /\ Moves(r) /\ Continues(r)
           /\ pc[r] \in Steps \ {"idle", "done"}
           /\ call[r] \in Call
<1>1. Moves(r) /\ Continues(r)
  <2>1. CASE LookupFind(r)
    BY <2>1, AnswerMoves DEF Base, Statuses, LookupFind
  <2>2. CASE Timeout(r) \/ CommitThenTimeout(r)
    BY <2>2, AnswerMoves DEF Base, Statuses, Timeout, CommitThenTimeout
  <2>3. CASE Retry(r)
    BY <2>3, GotoMoves DEF Base, Retry
  <2> QED BY <2>1, <2>2, <2>3, CreateMoves, SignupMoves, GoogleMoves, LoginMoves, PatchMoves
          DEF Handle
<1>2. pc[r] \in {"find", "insert", "replay", "verify", "update"}
  BY DEF Handle, At, CreateFind, CreateInsert, CreateReplay, SignupFind, SignupInsert,
         GoogleFind, GoogleInsert, LoginFind, LoginVerify, PatchFind, PatchUpdate,
         LookupFind, Timeout, CommitThenTimeout, Retry
<1> QED BY <1>1, <1>2 DEF Base, Standing, Steps

-----------------------------------------------------------------------------
(* Type correctness. *)

LEMMA BaseInit == Init => Base
BY DEF Init, Base, TypeOK, Standing, Steps

LEMMA BaseReceive ==
    ASSUME Base, NEW r \in Requests, Receive(r)
    PROVE  Base'
<1> PICK c \in Calls :
        /\ call' = [call EXCEPT ![r] = c]
        /\ pc' = [pc EXCEPT ![r] =
                    IF c.op = "create" /\ c.key = NoKey THEN "insert" ELSE "find"]
  BY DEF Receive
<1>1. c \in Call
  BY CallsAssumption
<1>2. before' = [before EXCEPT ![r] = Accounts] /\ Accounts \subseteq Requests
  BY DEF Receive, Accounts
<1>3. UNCHANGED <<users, seen, reply, held>> /\ pc[r] = "idle"
  BY DEF Receive
<1>4. TypeOK'
  BY <1>1, <1>2, <1>3 DEF Base, TypeOK, Steps
<1>5. Standing'
  BY <1>1, <1>2, <1>3 DEF Base, TypeOK, Standing, Accounts
<1> QED BY <1>4, <1>5 DEF Base

LEMMA BaseHandle ==
    ASSUME Base, NEW r \in Requests, Handle(r)
    PROVE  Base'
<1>1. Moves(r) /\ Continues(r) /\ pc[r] \in Steps \ {"idle", "done"} /\ call[r] \in Call
  BY HandleMoves
<1>2. /\ users' \in [Requests -> Row \cup {NoRow}]
      /\ held' \in [Requests -> SUBSET Methods]
      /\ \A u \in Requests : users[u] # NoRow => Kept(u)
      /\ \A u \in Requests : users[u] = NoRow /\ u # r => users'[u] = NoRow
  BY HandleIsTableStep, TableGrows
<1>3. \A u \in Requests : users[u] # NoRow => users'[u] # NoRow
  BY <1>2, NoRowAssumption DEF Kept
<1>4. TypeOK'
  <2> USE DEF Base, TypeOK
  <2>1. pc' \in [Requests -> Steps]
    BY <1>1 DEF Moves
  <2>2. seen' \in [Requests -> [user : Requests, row : Row] \cup {NoRow}]
    BY <1>1 DEF Moves, Seen
  <2>3. reply' \in [Requests -> Reply \cup {NoReply}]
    BY <1>1 DEF Moves
  <2>4. /\ call' \in [Requests -> Call \cup {NoReply}]
        /\ before' \in [Requests -> SUBSET Requests]
    BY <1>1 DEF Moves
  <2> QED BY <1>2, <2>1, <2>2, <2>3, <2>4
<1>5. ASSUME NEW q \in Requests
      PROVE  /\ pc'[q] # "idle" => call'[q] \in Call
             /\ pc'[q] # "done" => users'[q] = NoRow
             /\ pc'[q] \in {"verify", "update"} =>
                  seen'[q] \in Seen /\ users'[seen'[q].user] # NoRow
             /\ \A u \in before'[q] : users'[u] # NoRow
  <2>1. \A u \in before'[q] : users'[u] # NoRow
    BY <1>1, <1>3 DEF Base, TypeOK, Standing, Moves
  <2>2. CASE q = r
    <3>1. call'[r] \in Call
      BY <1>1 DEF Moves
    <3>2. pc'[r] # "done" => users'[r] = NoRow
      BY <1>1 DEF Base, Standing, Continues
    <3>3. pc'[r] \in {"verify", "update"} =>
            seen'[r] \in Seen /\ users'[seen'[r].user] # NoRow
      <4> SUFFICES ASSUME pc'[r] \in {"verify", "update"}
                   PROVE  seen'[r] \in Seen /\ users'[seen'[r].user] # NoRow
        OBVIOUS
      <4>1. PICK u \in Requests : /\ users[u] # NoRow
                                  /\ seen'[r] = [user |-> u, row |-> users[u]]
        BY <1>1 DEF Continues
      <4>2. users[u] \in Row
        BY <4>1, StoredRow DEF Base
      <4> QED BY <1>3, <4>1, <4>2 DEF Seen
    <3> QED BY <2>1, <2>2, <3>1, <3>2, <3>3
  <2>3. CASE q # r
    <3>1. pc'[q] = pc[q] /\ seen'[q] = seen[q] /\ call'[q] = call[q]
      BY <1>1, <2>3 DEF Base, TypeOK, Moves
    <3>2. pc[q] \in {"verify", "update"} =>
            /\ seen[q] \in Seen /\ seen[q].user \in Requests
            /\ users[seen[q].user] # NoRow
      BY DEF Base, Standing, Seen
    <3> QED BY <1>2, <1>3, <2>1, <2>3, <3>1, <3>2 DEF Base, Standing
  <2> QED BY <2>2, <2>3
<1>6. Standing'
  BY <1>5 DEF Standing
<1> QED BY <1>4, <1>6 DEF Base

LEMMA BaseStep == Base /\ [Next]_vars => Base'
<1> SUFFICES ASSUME Base, [Next]_vars PROVE Base'
  OBVIOUS
<1>1. ASSUME NEW r \in Requests, Receive(r) PROVE Base'
  BY <1>1, BaseReceive
<1>2. ASSUME NEW r \in Requests, Handle(r) PROVE Base'
  BY <1>2, BaseHandle
<1>3. CASE UNCHANGED vars
  BY <1>3 DEF vars, Base, TypeOK, Standing
<1> QED BY <1>1, <1>2, <1>3 DEF Next

LEMMA BaseHolds == Spec => []Base
BY BaseInit, BaseStep, PTL DEF Spec

(* The table and the state of every request always have their types; in     *)
(* particular no handler goes on with a row that is not there.              *)
THEOREM TypeCorrect == Spec => []TypeOK
<1>1. Base => TypeOK
  BY DEF Base
<1> QED BY <1>1, BaseHolds, PTL

-----------------------------------------------------------------------------
(* The strengthening of the safety invariants. *)

(* The unique constraint on idempotency_key.                                *)
UniqueKeys ==
    \A u, v \in Accounts :
        users[u].key = users[v].key /\ users[u].key # NoKey => u = v

MethodsHeld == \A u \in Accounts : users[u].method \in held[u]

(* What the answer to r has to be, and what its handler knows where it      *)
(* waits.                                                                   *)
OwesCreate(r) ==
    /\ Answered(r, "create", {"created", "replayed"}) /\ call[r].key # NoKey
       => reply[r].user \in WithKey(call[r].key)
    /\ pc[r] = "replay"
       => call[r].op = "create" /\ call[r].key # NoKey /\ Violates(NewRow(call[r]))
    /\ Answered(r, "create", {"conflict"})
       => \E u \in WithEmail(Lower[call[r].email]) :
            call[r].key # NoKey => users[u].key # call[r].key

OwesSignup(r) ==
    /\ pc[r] \in {"insert", "done"} /\ call[r].op = "signup"
    /\ \E u \in before[r] : users[u].email = call[r].email
    => /\ pc[r] # "insert"
       /\ pc[r] = "done" => reply[r].status \in {"conflict", "timeout"}

OwesGoogle(r) ==
    Answered(r, "google", {"ok"})
    => reply[r].user \in WithEmail(call[r].email) /\ "google" \in held[reply[r].user]

(* u may be given to a login that knows password p.                         *)
Opens(u, e, p) ==
    /\ u \in WithEmail(e)
    /\ users[u].password = p
    /\ "email_password" \in held[u]

OwesLogin(r) ==
    /\ pc[r] = "verify" => Opens(seen[r].user, call[r].email, seen[r].row.password)
    /\ Answered(r, "login", {"ok"}) => Opens(reply[r].user, call[r].email, call[r].password)

OwesLookup(r) ==
    Answered(r, "lookup", {"absent"})
    => \A u \in before[r] : Lower[users[u].email] # Lower[call[r].email]

Owes(r) ==
    OwesCreate(r) /\ OwesSignup(r) /\ OwesGoogle(r) /\ OwesLogin(r) /\ OwesLookup(r)

IInv ==
    /\ Base
    /\ UniqueKeys
    /\ MethodsHeld
    /\ \A r \in Requests : Owes(r)

-----------------------------------------------------------------------------
(* The table keeps the first two. *)

Grown == \A u \in Requests : users[u] # NoRow => Kept(u)

LEMMA GrownTable ==
    ASSUME Grown
    PROVE  /\ \A k : WithKey(k) \subseteq WithKey(k)'
           /\ \A e : WithEmail(e) \subseteq WithEmail(e)'
           /\ \A u \in Accounts : /\ u \in Accounts'
                                 /\ users'[u].email = users[u].email
                                 /\ users'[u].key = users[u].key
                                 /\ users'[u].password = users[u].password
                                 /\ held[u] \subseteq held'[u]
BY RowFields DEF Grown, Kept, WithKey, WithEmail, Accounts

LEMMA KeysStayUnique ==
    ASSUME Base, UniqueKeys, NEW r \in Requests, TableStep(r), Grown
    PROVE  UniqueKeys'
<1>1. CASE UNCHANGED <<users, held>>
  BY <1>1 DEF UniqueKeys, Accounts
<1>2. CASE call[r] \in Call /\ Inserts(r)
  <2>1. /\ users'[r].key = call[r].key
        /\ \A u \in Requests \ {r} : users'[u] = users[u]
        /\ call[r].key # NoKey => \A u \in Accounts : users[u].key # call[r].key
    BY <1>2, NewRowFields DEF Inserts, Violates, WithKey, Base, TypeOK
  <2>2. \A u \in Accounts' : u = r \/ u \in Accounts
    BY <2>1 DEF Accounts
  <2>3. r \notin Accounts
    BY <1>2 DEF Inserts, Accounts
  <2>4. \A u \in Accounts : u \in Requests \ {r}
    BY <2>3 DEF Accounts
  <2> QED BY <2>1, <2>2, <2>4 DEF UniqueKeys
<1>3. ASSUME NEW v \in Requests, NEW m \in Methods, Patches(v, m)
      PROVE  UniqueKeys'
  <2>1. Accounts' = Accounts
    <3>1. \A u \in Requests \ {v} : users'[u] = users[u]
      BY <1>3 DEF Patches, Base, TypeOK
    <3>2. users'[v] # NoRow /\ users[v] # NoRow
      BY <1>3, RowFields DEF Patches, Grown, Kept
    <3> QED BY <3>1, <3>2 DEF Accounts
  <2> QED BY <2>1, GrownTable DEF UniqueKeys
<1> QED BY <1>1, <1>2, <1>3 DEF TableStep

LEMMA MethodsStayHeld ==
    ASSUME Base, MethodsHeld, NEW r \in Requests, TableStep(r), Grown
    PROVE  MethodsHeld'
<1>1. CASE UNCHANGED <<users, held>>
  BY <1>1 DEF MethodsHeld, Accounts
<1>2. CASE call[r] \in Call /\ Inserts(r)
  <2>1. /\ users'[r].method = call[r].method /\ held'[r] = {call[r].method}
        /\ \A u \in Requests \ {r} : users'[u] = users[u] /\ held'[u] = held[u]
    BY <1>2, NewRowFields DEF Inserts, Base, TypeOK
  <2> QED BY <2>1 DEF MethodsHeld, Accounts
<1>3. ASSUME NEW v \in Requests, NEW m \in Methods, Patches(v, m)
      PROVE  MethodsHeld'
  <2>1. users[v] \in Row /\ users[v] # NoRow
    BY <1>3, StoredRow DEF Patches, Base
  <2>2. /\ users'[v].method = m /\ m \in held'[v]
        /\ \A u \in Requests \ {v} : users'[u] = users[u] /\ held'[u] = held[u]
    BY <1>3, <2>1 DEF Patches, Base, TypeOK, Row
  <2> QED BY <2>2 DEF MethodsHeld, Accounts
<1> QED BY <1>1, <1>2, <1>3 DEF TableStep

-----------------------------------------------------------------------------
(* What is owed to a request that does not act, or was just received. *)

Waits(q) ==
    /\ pc'[q] = pc[q] /\ call'[q] = call[q] /\ seen'[q] = seen[q]
    /\ reply'[q] = reply[q] /\ before'[q] = before[q]

LEMMA WaitingOwes ==
    ASSUME Base, NEW q \in Requests, Owes(q), Waits(q), Grown
    PROVE  Owes(q)'
<1> USE DEF Waits
<1>0. before[q] \subseteq Accounts
  BY DEF Base, TypeOK, Standing, Accounts
<1>1. OwesCreate(q)'
  <2>1. pc'[q] = "replay" => Violates(NewRow(call[q]))'
    BY GrownTable DEF Owes, OwesCreate, Violates, NewRow
  <2>2. Answered(q, "create", {"conflict"})'
        => \E u \in WithEmail(Lower[call[q].email])' :
             call[q].key # NoKey => users'[u].key # call[q].key
    BY GrownTable DEF Owes, OwesCreate, Answered, WithEmail
  <2>3. Answered(q, "create", {"created", "replayed"})' /\ call[q].key # NoKey
        => reply[q].user \in WithKey(call[q].key)'
    BY GrownTable DEF Owes, OwesCreate, Answered
  <2> QED BY <2>1, <2>2, <2>3 DEF Owes, OwesCreate, NewRow
<1>2. OwesSignup(q)'
  BY <1>0, GrownTable DEF Owes, OwesSignup
<1>3. OwesGoogle(q)'
  BY GrownTable DEF Owes, OwesGoogle, Answered, WithEmail
<1>4. OwesLogin(q)'
  BY GrownTable DEF Owes, OwesLogin, Opens, Answered, WithEmail
<1>5. OwesLookup(q)'
  BY <1>0, GrownTable DEF Owes, OwesLookup, Answered
<1> QED BY <1>1, <1>2, <1>3, <1>4, <1>5 DEF Owes

LEMMA ReceivedOwes ==
    ASSUME Base, NEW r \in Requests, Receive(r)
    PROVE  Owes(r)'
<1>1. PICK c \in Calls :
        /\ call' = [call EXCEPT ![r] = c]
        /\ pc' = [pc EXCEPT ![r] =
                    IF c.op = "create" /\ c.key = NoKey THEN "insert" ELSE "find"]
  BY DEF Receive
<1>2. /\ call'[r] = c
      /\ \/ pc'[r] = "insert" /\ c.op = "create"
         \/ pc'[r] = "find"
  BY <1>1 DEF Base, TypeOK
<1> QED BY <1>2 DEF Owes, OwesCreate, OwesSignup, OwesGoogle, OwesLogin, OwesLookup, Answered
-----------------------------------------------------------------------------
(* What is owed to the request that acts. *)

LEMMA AnswerAt ==
    ASSUME TypeOK, NEW r \in Requests, NEW s \in Statuses,
           NEW u \in Requests \cup {Nobody}, Answer(r, s, u)
    PROVE  /\ pc'[r] = "done" /\ reply'[r].status = s /\ reply'[r].user = u
           /\ call' = call /\ before' = before
BY DEF Answer, TypeOK

LEMMA GotoAt ==
    ASSUME TypeOK, NEW r \in Requests, NEW step \in Steps, Goto(r, step)
    PROVE  pc'[r] = step /\ call' = call /\ before' = before
BY DEF Goto, TypeOK

LEMMA LoadAt ==
    ASSUME TypeOK, NEW r \in Requests, NEW u \in Accounts, NEW step \in Steps,
           Load(r, u, step)
    PROVE  /\ pc'[r] = step /\ seen'[r] = [user |-> u, row |-> users[u]]
           /\ call' = call /\ before' = before
BY DEF Load, TypeOK

(* An insert puts the row of the call in the table.                         *)
LEMMA InsertedRow ==
    ASSUME Base, NEW r \in Requests, call[r] \in Call, call' = call, Insert(r)
    PROVE  /\ r \in WithKey(call[r].key)'
           /\ call[r].op # "create" => r \in WithEmail(call[r].email)'
           /\ held'[r] = {call[r].method}
<1>1. users'[r] = NewRow(call[r]) /\ held'[r] = {call[r].method}
  BY DEF Insert, Base, TypeOK
<1>2. /\ users'[r] # NoRow /\ users'[r].key = call[r].key
      /\ call[r].op # "create" => users'[r].email = call[r].email
  BY <1>1, NewRowFields
<1> QED BY <1>1, <1>2 DEF WithKey, WithEmail, Accounts

(* A request that is cut off is owed nothing.                               *)
LEMMA CutOffOwes ==
    ASSUME Base, NEW r \in Requests, Answer(r, "timeout", Nobody)
    PROVE  Owes(r)'
<1>1. pc'[r] = "done" /\ reply'[r].status = "timeout"
  BY AnswerAt DEF Statuses, Base
<1> QED BY <1>1 DEF Owes, OwesCreate, OwesSignup, OwesGoogle, OwesLogin, OwesLookup, Answered

LEMMA CreateOwes ==
    ASSUME Base, NEW r \in Requests, Owes(r),
           CreateFind(r) \/ CreateInsert(r) \/ CreateReplay(r)
    PROVE  Owes(r)'
<1>0. TypeOK /\ call[r] \in Call /\ call[r].op = "create"
      /\ NewRow(call[r]).email = Lower[call[r].email]
      /\ NewRow(call[r]).key = call[r].key
  BY NewRowFields
     DEF Base, Standing, CreateFind, CreateInsert, CreateReplay, At
<1> SUFFICES call' = call /\ pc'[r] # "verify" /\ OwesCreate(r)'
  BY <1>0 DEF Owes, OwesSignup, OwesGoogle, OwesLogin, OwesLookup, Answered
<1>1. ASSUME NEW u \in WithKey(call[r].key), Answer(r, "replayed", u), ReadOnly
      PROVE  call' = call /\ pc'[r] # "verify" /\ OwesCreate(r)'
  BY <1>0, <1>1, AnswerAt DEF Statuses, ReadOnly, OwesCreate, Answered, WithKey, Accounts
<1>2. ASSUME Answer(r, "conflict", Nobody), ReadOnly,
             \E u \in WithEmail(Lower[call[r].email]) :
                call[r].key # NoKey => users[u].key # call[r].key
      PROVE  call' = call /\ pc'[r] # "verify" /\ OwesCreate(r)'
  BY <1>0, <1>2, AnswerAt DEF Statuses, ReadOnly, OwesCreate, Answered, WithEmail, Accounts
<1>3. CASE CreateFind(r)
  <2>1. CASE Goto(r, "insert")
    BY <1>0, <2>1, GotoAt DEF Steps, OwesCreate, Answered
  <2> QED BY <1>1, <1>3, <2>1 DEF CreateFind
<1>4. CASE CreateInsert(r)
  <2>1. CASE Insert(r) /\ Answer(r, "created", r)
    <3>1. pc'[r] = "done" /\ call' = call /\ reply'[r].user = r /\ reply'[r].status = "created"
      BY <1>0, <2>1, AnswerAt DEF Statuses
    <3> QED BY <1>0, <2>1, <3>1, InsertedRow DEF OwesCreate, Answered
  <2>2. CASE /\ Violates(NewRow(call[r])) /\ call[r].key # NoKey
             /\ Goto(r, "replay") /\ ReadOnly
    <3>1. pc'[r] = "replay" /\ call' = call
      BY <1>0, <2>2, GotoAt DEF Steps
    <3>2. Violates(NewRow(call[r]))'
      BY <2>2, <3>1 DEF ReadOnly, Violates, WithKey, WithEmail, Accounts, NewRow
    <3> QED BY <1>0, <2>2, <3>1, <3>2 DEF OwesCreate, Answered
  <2>3. CASE /\ Violates(NewRow(call[r])) /\ call[r].key = NoKey
             /\ Answer(r, "conflict", Nobody) /\ ReadOnly
    BY <1>0, <1>2, <2>3 DEF Violates
  <2> QED BY <1>4, <2>1, <2>2, <2>3 DEF CreateInsert
<1>5. CASE CreateReplay(r)
  <2>1. CASE WithKey(call[r].key) = {} /\ Answer(r, "conflict", Nobody)
    <3>1. pc[r] = "replay" /\ Violates(NewRow(call[r]))
      BY <1>5 DEF CreateReplay, At, Owes, OwesCreate
    <3>2. PICK u \in WithEmail(Lower[call[r].email]) : TRUE
      BY <1>0, <2>1, <3>1 DEF Violates
    <3>3. users[u].key # call[r].key
      BY <2>1, <3>2 DEF WithKey, WithEmail
    <3> QED BY <1>2, <1>5, <2>1, <3>2, <3>3 DEF CreateReplay
  <2> QED BY <1>1, <1>5, <2>1 DEF CreateReplay
<1> QED BY <1>3, <1>4, <1>5

LEMMA SignupOwes ==
    ASSUME Base, NEW r \in Requests, Owes(r), SignupFind(r) \/ SignupInsert(r)
    PROVE  Owes(r)'
<1>0. TypeOK /\ call[r].op = "signup" /\ before[r] \subseteq Accounts
  BY DEF Base, TypeOK, Standing, Accounts, SignupFind, SignupInsert, At
<1> SUFFICES /\ call' = call /\ pc'[r] \notin {"verify", "replay"} /\ OwesSignup(r)'
  BY <1>0 DEF Owes, OwesCreate, OwesGoogle, OwesLogin, OwesLookup, Answered
<1>1. CASE SignupFind(r)
  <2>1. CASE Answer(r, "conflict", Nobody)
    BY <1>0, <2>1, AnswerAt DEF Statuses, OwesSignup
  <2>2. CASE WithEmail(call[r].email) = {} /\ Goto(r, "insert") /\ ReadOnly
    <3>1. pc'[r] = "insert" /\ call' = call /\ before' = before /\ users' = users
      BY <1>0, <2>2, GotoAt DEF Steps, ReadOnly
    <3>2. \A u \in before[r] : users[u].email # call[r].email
      BY <1>0, <2>2 DEF WithEmail
    <3> QED BY <3>1, <3>2 DEF OwesSignup
  <2> QED BY <1>1, <2>1, <2>2 DEF SignupFind
<1>2. CASE SignupInsert(r)
  <2>1. PICK s \in Statuses, u \in Requests \cup {Nobody} : Answer(r, s, u)
    BY <1>2 DEF SignupInsert, Statuses
  <2>2. pc'[r] = "done" /\ call' = call /\ before' = before
    BY <1>0, <2>1, AnswerAt
  <2>3. \A v \in before[r] : users[v].email # call[r].email
    BY <1>0, <1>2 DEF SignupInsert, At, Owes, OwesSignup
  <2>4. \A v \in before[r] : users'[v].email = users[v].email
    <3>1. TableStep(r)
      BY <1>2, HandleIsTableStep DEF Handle
    <3> QED BY <1>0, <3>1, TableGrows DEF Kept, Accounts
  <2> QED BY <2>2, <2>3, <2>4 DEF OwesSignup
<1> QED BY <1>1, <1>2

LEMMA GoogleOwes ==
    ASSUME Base, MethodsHeld, NEW r \in Requests, GoogleFind(r) \/ GoogleInsert(r)
    PROVE  Owes(r)'
<1>0. TypeOK /\ call[r] \in Call /\ call[r].op = "google"
  BY DEF Base, Standing, GoogleFind, GoogleInsert, At
<1>1. call[r].method = "google"
  BY <1>0 DEF Call, CreateCall, SignupCall, GoogleCall, LoginCall, PatchCall, LookupCall
<1> SUFFICES /\ call' = call /\ pc'[r] \notin {"verify", "replay"} /\ OwesGoogle(r)'
  BY <1>0 DEF Owes, OwesCreate, OwesSignup, OwesLogin, OwesLookup, Answered
<1>2. CASE GoogleFind(r)
  <2>1. ASSUME NEW u \in WithEmail(call[r].email), ReadOnly,
               Answer(r, IF users[u].method = "google" THEN "ok" ELSE "conflict", u)
        PROVE  call' = call /\ pc'[r] = "done" /\ OwesGoogle(r)'
    <3>1. users[u].method \in held[u]
      BY DEF MethodsHeld, WithEmail
    <3> QED BY <1>0, <2>1, <3>1, AnswerAt
            DEF Statuses, ReadOnly, OwesGoogle, Answered, WithEmail, Accounts
  <2>2. CASE Goto(r, "insert")
    BY <1>0, <2>2, GotoAt DEF Steps, OwesGoogle, Answered
  <2> QED BY <1>2, <2>1, <2>2 DEF GoogleFind
<1>3. CASE GoogleInsert(r)
  <2>1. CASE Insert(r) /\ Answer(r, "ok", r)
    <3>1. pc'[r] = "done" /\ call' = call /\ reply'[r].user = r
      BY <1>0, <2>1, AnswerAt DEF Statuses
    <3> QED BY <1>0, <1>1, <2>1, <3>1, InsertedRow DEF OwesGoogle, Answered
  <2>2. CASE Answer(r, "error", Nobody)
    BY <1>0, <2>2, AnswerAt DEF Statuses, OwesGoogle, Answered
  <2> QED BY <1>3, <2>1, <2>2 DEF GoogleInsert
<1> QED BY <1>2, <1>3
LEMMA LoginOwes ==
    ASSUME Base, MethodsHeld, NEW r \in Requests, Owes(r),
           LoginFind(r) \/ LoginVerify(r)
    PROVE  Owes(r)'
<1>0. TypeOK /\ call[r].op = "login" /\ UNCHANGED <<users, held>>
  BY DEF Base, LoginFind, LoginVerify, At, ReadOnly
<1> SUFFICES call' = call /\ pc'[r] \notin {"insert", "replay"} /\ OwesLogin(r)'
  BY <1>0 DEF Owes, OwesCreate, OwesSignup, OwesGoogle, OwesLookup, Answered
<1>1. ASSUME NEW s \in {"conflict", "unauthorized"},
             NEW u \in Requests \cup {Nobody}, Answer(r, s, u)
      PROVE  call' = call /\ pc'[r] = "done" /\ OwesLogin(r)'
  BY <1>0, <1>1, AnswerAt DEF Statuses, OwesLogin, Answered
<1>2. CASE LoginFind(r)
  <2>1. ASSUME NEW u \in WithEmail(call[r].email), users[u].method = "email_password",
               Load(r, u, "verify")
        PROVE  call' = call /\ pc'[r] = "verify" /\ OwesLogin(r)'
    <3>1. u \in Accounts /\ "email_password" \in held[u]
      BY <2>1 DEF WithEmail, MethodsHeld
    <3>2. /\ pc'[r] = "verify" /\ call' = call
          /\ seen'[r] = [user |-> u, row |-> users[u]]
      BY <1>0, <2>1, <3>1, LoadAt DEF Steps
    <3>3. seen'[r].user = u /\ seen'[r].row.password = users[u].password
      BY <3>2
    <3> QED BY <1>0, <3>1, <3>2, <3>3 DEF OwesLogin, Answered, Opens, WithEmail, Accounts
  <2>2. ASSUME NEW u \in WithEmail(call[r].email), Answer(r, "conflict", u)
        PROVE  call' = call /\ pc'[r] = "done" /\ OwesLogin(r)'
    BY <1>1, <2>2 DEF WithEmail, Accounts
  <2> QED BY <1>1, <1>2, <2>1, <2>2 DEF LoginFind
<1>3. CASE LoginVerify(r)
  <2>1. CASE call[r].password = seen[r].row.password /\ Answer(r, "ok", seen[r].user)
    <3>1. Opens(seen[r].user, call[r].email, call[r].password)
      BY <1>3, <2>1 DEF LoginVerify, At, Owes, OwesLogin
    <3>2. pc'[r] = "done" /\ call' = call /\ reply'[r].user = seen[r].user
      BY <1>0, <2>1, <3>1, AnswerAt DEF Statuses, Opens, WithEmail, Accounts
    <3> QED BY <1>0, <3>1, <3>2 DEF OwesLogin, Answered, Opens, WithEmail, Accounts
  <2> QED BY <1>1, <1>3, <2>1 DEF LoginVerify
<1> QED BY <1>2, <1>3

LEMMA LookupOwes ==
    ASSUME Base, NEW r \in Requests, LookupFind(r)
    PROVE  Owes(r)'
<1>0. TypeOK /\ call[r].op = "lookup" /\ UNCHANGED <<users, held>>
  BY DEF Base, LookupFind, At, ReadOnly
<1>1. PICK s \in {"exists", "absent"} :
        /\ Answer(r, s, Nobody)
        /\ s = "absent" =>
             {u \in Accounts : Lower[users[u].email] = Lower[call[r].email]} = {}
  BY DEF LookupFind
<1>2. /\ pc'[r] = "done" /\ call' = call /\ before' = before
      /\ reply'[r].status = s
  BY <1>0, <1>1, AnswerAt DEF Statuses
<1>3. before[r] \subseteq Accounts
  BY DEF Base, TypeOK, Standing, Accounts
<1> QED BY <1>0, <1>1, <1>2, <1>3
        DEF Owes, OwesCreate, OwesSignup, OwesGoogle, OwesLogin, OwesLookup, Answered

LEMMA PatchOwes ==
    ASSUME Base, NEW r \in Requests, PatchFind(r) \/ PatchUpdate(r)
    PROVE  Owes(r)'
<1>1. call[r].op = "patch"
  BY DEF PatchFind, PatchUpdate, At
<1>2. call' = call /\ pc'[r] \in {"update", "done"}
  BY DEF PatchFind, PatchUpdate, Answer, Load, Base, TypeOK
<1> QED BY <1>1, <1>2
        DEF Owes, OwesCreate, OwesSignup, OwesGoogle, OwesLogin, OwesLookup, Answered

LEMMA RetryOwes ==
    ASSUME Base, NEW r \in Requests, Retry(r)
    PROVE  Owes(r)'
<1>1. pc'[r] = "find"
  BY GotoAt DEF Retry, Base, Steps
<1> QED BY <1>1
        DEF Owes, OwesCreate, OwesSignup, OwesGoogle, OwesLogin, OwesLookup, Answered

LEMMA HandleOwes ==
    ASSUME Base, MethodsHeld, NEW r \in Requests, Owes(r), Handle(r)
    PROVE  Owes(r)'
<1>1. CASE Timeout(r) \/ CommitThenTimeout(r)
  BY <1>1, CutOffOwes DEF Timeout, CommitThenTimeout
<1> QED BY <1>1, CreateOwes, SignupOwes, GoogleOwes, LoginOwes, LookupOwes, PatchOwes,
           RetryOwes
        DEF Handle

-----------------------------------------------------------------------------
(* The invariant. *)

LEMMA IInvInit == Init => IInv
<1> SUFFICES ASSUME Init PROVE IInv
  OBVIOUS
<1>1. Base /\ Accounts = {} /\ \A r \in Requests : pc[r] = "idle"
  BY BaseInit DEF Init, Accounts
<1> QED BY <1>1 DEF IInv, UniqueKeys, MethodsHeld, Owes, OwesCreate, OwesSignup,
                    OwesGoogle, OwesLogin, OwesLookup, Answered

LEMMA IInvReceive ==
    ASSUME IInv, NEW r \in Requests, Receive(r)
    PROVE  IInv'
<1>1. Base /\ Base'
  BY BaseReceive DEF IInv
<1>2. UNCHANGED <<users, held, seen, reply>>
  BY DEF Receive
<1>3. UniqueKeys' /\ MethodsHeld'
  BY <1>2 DEF IInv, UniqueKeys, MethodsHeld, Accounts
<1>4. Grown
  BY <1>1, <1>2, StoredRow DEF Grown, Kept, Base
<1>5. ASSUME NEW q \in Requests \ {r} PROVE Waits(q)
  BY <1>1, <1>2 DEF Base, TypeOK, Receive, Waits
<1>6. ASSUME NEW q \in Requests PROVE Owes(q)'
  <2>1. CASE q = r
    BY <1>1, <2>1, ReceivedOwes
  <2>2. CASE q # r
    BY <1>1, <1>4, <1>5, <2>2, WaitingOwes DEF IInv
  <2> QED BY <2>1, <2>2
<1> QED BY <1>1, <1>3, <1>6 DEF IInv

LEMMA IInvHandle ==
    ASSUME IInv, NEW r \in Requests, Handle(r)
    PROVE  IInv'
<1>1. Base /\ Base'
  BY BaseHandle DEF IInv
<1>2. TableStep(r) /\ Grown
  BY <1>1, HandleIsTableStep, TableGrows DEF Grown
<1>3. UniqueKeys' /\ MethodsHeld'
  BY <1>1, <1>2, KeysStayUnique, MethodsStayHeld DEF IInv
<1>4. ASSUME NEW q \in Requests \ {r} PROVE Waits(q)
  <2>1. Moves(r)
    BY <1>1, HandleMoves
  <2> QED BY <1>1, <2>1 DEF Base, TypeOK, Moves, Waits
<1>5. ASSUME NEW q \in Requests PROVE Owes(q)'
  <2>1. CASE q = r
    BY <1>1, <2>1, HandleOwes DEF IInv
  <2>2. CASE q # r
    BY <1>1, <1>2, <1>4, <2>2, WaitingOwes DEF IInv
  <2> QED BY <2>1, <2>2
<1> QED BY <1>1, <1>3, <1>5 DEF IInv

LEMMA IInvStep == IInv /\ [Next]_vars => IInv'
<1> SUFFICES ASSUME IInv, [Next]_vars PROVE IInv'
  OBVIOUS
<1>1. CASE UNCHANGED vars
  <2>1. Base'
    BY <1>1, BaseStep DEF IInv
  <2>2. UniqueKeys' /\ MethodsHeld'
    BY <1>1 DEF vars, IInv, UniqueKeys, MethodsHeld, Accounts
  <2>3. ASSUME NEW q \in Requests PROVE Owes(q)'
    <3>1. Waits(q) /\ Base
      BY <1>1 DEF vars, Waits, IInv
    <3>2. Grown
      BY <1>1, <3>1, StoredRow DEF vars, Grown, Kept, Base
    <3> QED BY <3>1, <3>2, WaitingOwes DEF IInv
  <2> QED BY <2>1, <2>2, <2>3 DEF IInv
<1> QED BY <1>1, IInvReceive, IInvHandle DEF Next

LEMMA IInvHolds == Spec => []IInv
BY IInvInit, IInvStep, PTL DEF Spec

-----------------------------------------------------------------------------
(* The theorems. *)

(* An Idempotency-Key, however often it is used, names one account.         *)
THEOREM KeyNamesOneUser == Spec => []SameKeySameUser
<1>1. IInv => SameKeySameUser
  <2> SUFFICES ASSUME IInv, NEW r \in Requests, NEW s \in Requests,
                      Answered(r, "create", {"created", "replayed"}),
                      Answered(s, "create", {"created", "replayed"}),
                      call[r].key # NoKey, call[r].key = call[s].key
               PROVE  /\ reply[r].user = reply[s].user
                      /\ reply[r].user \in WithKey(call[r].key)
    BY DEF SameKeySameUser
  <2>1. reply[r].user \in WithKey(call[r].key) /\ reply[s].user \in WithKey(call[r].key)
    BY DEF IInv, Owes, OwesCreate
  <2> QED BY <2>1 DEF IInv, UniqueKeys, WithKey
<1> QED BY <1>1, IInvHolds, PTL

(* A create with a key is refused for somebody else's account only.         *)
THEOREM OnlyForeignConflicts == Spec => []ConflictIsForeign
<1>1. IInv => ConflictIsForeign
  BY DEF IInv, Owes, OwesCreate, ConflictIsForeign
<1> QED BY <1>1, IInvHolds, PTL

(* A sign-up for an address known when it arrived is answered 409 or, cut   *)
(* off, 504.                                                                *)
THEOREM KnownEmailIsRefused == Spec => []KnownEmailConflicts
<1>1. IInv => KnownEmailConflicts
  BY DEF IInv, Owes, OwesSignup, KnownEmailConflicts
<1> QED BY <1>1, IInvHolds, PTL

(* Google logins get google accounts, with the address Google vouches for.  *)
THEOREM GoogleGetsGoogleAccounts == Spec => []NoSilentTakeover
<1>1. IInv => NoSilentTakeover
  BY DEF IInv, Owes, OwesGoogle, NoSilentTakeover
<1> QED BY <1>1, IInvHolds, PTL

(* Password logins get accounts with that address and password.             *)
THEOREM LoginGetsOwnAccount == Spec => []LoginNeedsPassword
<1>1. IInv => LoginNeedsPassword
  BY DEF IInv, Owes, OwesLogin, Opens, LoginNeedsPassword
<1> QED BY <1>1, IInvHolds, PTL

(* A lookup overlooks no account that was there when it arrived.            *)
THEOREM LookupIsComplete == Spec => []LookupSeesKnown
<1>1. IInv => LookupSeesKnown
  BY DEF IInv, Owes, OwesLookup, LookupSeesKnown
<1> QED BY <1>1, IInvHolds, PTL
=============================================================================
