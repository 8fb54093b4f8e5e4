---------------------------- MODULE AtomicProofs ----------------------------
(***************************************************************************)
(* The account endpoints implement AtomicAccounts: however the statements  *)
(* of the requests interleave, each request takes effect in one step.      *)
(***************************************************************************)
EXTENDS AccountsProofs

(* What a request is doing where it stands.  Besides what Standing says:    *)
(* it is unanswered until it is done, only the operations that insert come  *)
(* to an insert, a create without a key never looks for one, and a patch    *)
(* that has loaded its account goes on with a method the account has had.   *)
Paced(r) ==
    /\ pc[r] = "idle" => call[r] = NoReply
    /\ pc[r] # "done" => reply[r] = NoReply
    /\ pc[r] = "insert" => call[r].op \in {"create", "signup", "google"}
    /\ pc[r] = "find" /\ call[r].op = "create" => call[r].key # NoKey
    /\ pc[r] = "update" =>
         /\ call[r].op = "patch"
         /\ seen[r].user = call[r].user
         /\ seen[r].row.method \in held[seen[r].user]

AInv == IInv /\ \A r \in Requests : Paced(r)

-----------------------------------------------------------------------------
(* AInv is an invariant. *)

LEMMA AnsweredIsPaced ==
    ASSUME Base, NEW r \in Requests, NEW s \in Statuses,
           NEW u \in Requests \cup {Nobody}, Answer(r, s, u)
    PROVE  Paced(r)'
<1>1. pc'[r] = "done"
  BY AnswerAt DEF Base
<1> QED BY <1>1 DEF Paced

(* Of the steps that do not answer, some write nothing and go to a          *)
(* statement, the others load a row.                                        *)
LEMMA GoingIsPaced ==
    ASSUME Base, NEW r \in Requests, Paced(r), pc[r] # "idle", pc[r] # "done",
           \/ /\ Goto(r, "insert") /\ call[r].op \in {"create", "signup", "google"}
           \/ Goto(r, "replay")
           \/ /\ Goto(r, "find")
              /\ call[r].op = "patch" \/ call[r].key # NoKey
    PROVE  Paced(r)'
<1>1. call' = call /\ reply' = reply
  BY DEF Goto
<1>2. \/ pc'[r] = "insert" /\ call[r].op \in {"create", "signup", "google"}
      \/ pc'[r] = "replay"
      \/ /\ pc'[r] = "find"
         /\ call[r].op = "patch" \/ call[r].key # NoKey
  BY GotoAt DEF Base, Steps
<1> QED BY <1>1, <1>2 DEF Paced

LEMMA LoadingIsPaced ==
    ASSUME Base, MethodsHeld, NEW r \in Requests, Paced(r), pc[r] # "done",
           NEW u \in Accounts, ReadOnly,
           \/ Load(r, u, "verify")
           \/ Load(r, u, "update") /\ call[r].op = "patch" /\ u = call[r].user
    PROVE  Paced(r)'
<1>1. call' = call /\ reply' = reply /\ held' = held
  BY DEF Load, ReadOnly
<1>2. \/ pc'[r] = "verify"
      \/ /\ pc'[r] = "update" /\ call[r].op = "patch"
         /\ seen'[r] = [user |-> call[r].user, row |-> users[u]]
         /\ u = call[r].user
  BY LoadAt DEF Base, Steps
<1>3. users[u].method \in held[u]
  BY DEF MethodsHeld
<1> QED BY <1>1, <1>2, <1>3 DEF Paced

LEMMA HandledIsPaced ==
    ASSUME IInv, NEW r \in Requests, Paced(r), Handle(r)
    PROVE  Paced(r)'
<1>0. Base /\ TypeOK /\ MethodsHeld /\ pc[r] \notin {"idle", "done"}
  BY HandleMoves DEF IInv, Base
<1> USE DEF Statuses, At
<1>1. CASE CreateFind(r) \/ CreateInsert(r) \/ CreateReplay(r)
  BY <1>0, <1>1, AnsweredIsPaced, GoingIsPaced
     DEF CreateFind, CreateInsert, CreateReplay, WithKey, Accounts
<1>2. CASE SignupFind(r) \/ SignupInsert(r)
  BY <1>0, <1>2, AnsweredIsPaced, GoingIsPaced DEF SignupFind, SignupInsert
<1>3. CASE GoogleFind(r)
  BY <1>0, <1>3, AnsweredIsPaced, GoingIsPaced DEF GoogleFind, WithEmail, Accounts
<1>4. CASE GoogleInsert(r)
  BY <1>0, <1>4, AnsweredIsPaced DEF GoogleInsert
<1>5. CASE LoginFind(r)
  BY <1>0, <1>5, AnsweredIsPaced, LoadingIsPaced DEF LoginFind, WithEmail, Accounts
<1>6. CASE LoginVerify(r) \/ PatchUpdate(r)
  <2>1. seen[r].user \in Requests
    BY <1>0, <1>6 DEF LoginVerify, PatchUpdate, Base, Standing, Seen
  <2> QED BY <1>0, <1>6, <2>1, AnsweredIsPaced DEF LoginVerify, PatchUpdate
<1>7. CASE PatchFind(r)
  BY <1>0, <1>7, AnsweredIsPaced, LoadingIsPaced DEF PatchFind
<1>8. CASE LookupFind(r)
  BY <1>0, <1>8, AnsweredIsPaced DEF LookupFind
<1>9. CASE Timeout(r) \/ CommitThenTimeout(r)
  BY <1>0, <1>9, AnsweredIsPaced DEF Timeout, CommitThenTimeout
<1>10. CASE Retry(r)
  BY <1>0, <1>10, GoingIsPaced DEF Retry
<1> QED BY <1>1, <1>2, <1>3, <1>4, <1>5, <1>6, <1>7, <1>8, <1>9, <1>10 DEF Handle

LEMMA ReceivedIsPaced ==
    ASSUME IInv, NEW r \in Requests, Paced(r), Receive(r)
    PROVE  Paced(r)'
<1>1. PICK c \in Calls :
        /\ call' = [call EXCEPT ![r] = c]
        /\ pc' = [pc EXCEPT ![r] =
                    IF c.op = "create" /\ c.key = NoKey THEN "insert" ELSE "find"]
  BY DEF Receive
<1>2. /\ call'[r] = c /\ reply' = reply /\ pc[r] = "idle"
      /\ pc'[r] = IF c.op = "create" /\ c.key = NoKey THEN "insert" ELSE "find"
  BY <1>1 DEF IInv, Base, TypeOK, Receive
<1> QED BY <1>2 DEF Paced

(* Methods are not forgotten, so a request that waits is as it was.         *)
LEMMA WaitingIsPaced ==
    ASSUME Base, NEW q \in Requests, Paced(q), Waits(q), Grown
    PROVE  Paced(q)'
<1>1. pc[q] = "update" => seen[q].user \in Accounts
  BY DEF Base, Standing, Seen, Accounts
<1>2. pc[q] = "update" => held[seen[q].user] \subseteq held'[seen[q].user]
  BY <1>1, GrownTable
<1> QED BY <1>2 DEF Paced, Waits

LEMMA AInvInit == Init => AInv
BY IInvInit DEF AInv, Paced, Init

LEMMA AInvStep == AInv /\ [Next]_vars => AInv'
<1> SUFFICES ASSUME AInv, [Next]_vars PROVE AInv'
  OBVIOUS
<1>0. IInv /\ Base /\ TypeOK /\ IInv'
  BY IInvStep DEF AInv, IInv, Base
<1>1. ASSUME NEW r \in Requests, Receive(r) \/ Handle(r), NEW q \in Requests
      PROVE  Paced(q)'
  <2>1. CASE q = r
    BY <1>0, <1>1, <2>1, ReceivedIsPaced, HandledIsPaced DEF AInv
  <2>2. CASE q # r
    <3>1. Waits(q)
      <4>1. CASE Receive(r)
        BY <1>0, <2>2, <4>1 DEF TypeOK, Receive, Waits
      <4>2. CASE Handle(r)
        BY <1>0, <2>2, <4>2, HandleMoves DEF TypeOK, Moves, Waits
      <4> QED BY <1>1, <4>1, <4>2
    <3>2. TableStep(r)
      BY <1>0, <1>1, HandleIsTableStep DEF Receive, TableStep
    <3>3. Grown
      BY <1>0, <3>2, TableGrows DEF Grown
    <3> QED BY <1>0, <3>1, <3>3, WaitingIsPaced DEF AInv
  <2> QED BY <2>1, <2>2
<1>2. ASSUME UNCHANGED vars, NEW q \in Requests PROVE Paced(q)'
  BY <1>2 DEF AInv, Paced, vars
<1> QED BY <1>0, <1>1, <1>2 DEF Next, AInv

LEMMA AInvHolds == Spec => []AInv
BY AInvInit, AInvStep, PTL DEF Spec

-----------------------------------------------------------------------------
(* What the answers look like to AtomicAccounts. *)

LEMMA DecidedWaiting ==
    ASSUME NEW r \in Requests, Paced(r), pc[r] \notin {"idle", "verify", "done"},
           call[r] \in Call
    PROVE  call[r] # NoReply /\ Decided[r] = NoReply
BY NoReplyAssumption DEF Decided, Paced

(* An answer decides a request that was waiting for it ...                  *)
LEMMA AnswerDecides ==
    ASSUME TypeOK, NEW r \in Requests, NEW s, NEW u, pc[r] # "verify", Answer(r, s, u)
    PROVE  Atomic!Reply(r, s, u) /\ UNCHANGED call
<1> DEFINE a == [status |-> s, user |-> u]
<1>1. /\ pc'[r] = "done" /\ reply'[r] = a /\ UNCHANGED <<call, seen>>
      /\ \A q \in Requests \ {r} : pc'[q] = pc[q] /\ reply'[q] = reply[q]
  BY DEF Answer, TypeOK
<1>2. Decided' = [Decided EXCEPT ![r] = a]
  BY <1>1 DEF Decided, Verdict
<1> QED BY <1>1, <1>2 DEF Atomic!Reply

(* ... so does loading the row a log-in is checked against ...              *)
LEMMA LoadDecides ==
    ASSUME TypeOK, NEW r \in Requests, NEW u \in Accounts, Load(r, u, "verify")
    PROVE  /\ UNCHANGED call
           /\ \/ call[r].password = users[u].password /\ Atomic!Reply(r, "ok", u)
              \/ /\ call[r].password # users[u].password
                 /\ Atomic!Reply(r, "unauthorized", Nobody)
<1>1. /\ pc'[r] = "verify" /\ seen'[r] = [user |-> u, row |-> users[u]]
      /\ UNCHANGED <<call, reply>>
      /\ \A q \in Requests \ {r} : pc'[q] = pc[q] /\ seen'[q] = seen[q]
  BY DEF Load, TypeOK
<1> DEFINE a == IF call[r].password = users[u].password
                THEN [status |-> "ok", user |-> u]
                ELSE [status |-> "unauthorized", user |-> Nobody]
<1>2. Verdict(r)' = a
  <2>1. seen'[r].user = u /\ seen'[r].row.password = users[u].password
    BY <1>1
  <2> QED BY <1>1, <2>1 DEF Verdict
<1>3. \A q \in Requests \ {r} : Verdict(q)' = Verdict(q)
  BY <1>1 DEF Verdict
<1>4. Decided' = [Decided EXCEPT ![r] = a]
  <2> HIDE DEF a
  <2> QED BY <1>1, <1>2, <1>3 DEF Decided
<1> QED BY <1>1, <1>4 DEF Atomic!Reply

(* ... and any other step leaves the answers as they are.                   *)
LEMMA OthersDecideNothing ==
    ASSUME TypeOK, NEW r \in Requests, pc[r] # "verify", pc'[r] # "verify",
           NEW step, pc' = [pc EXCEPT ![r] = step], UNCHANGED reply,
           \A q \in Requests \ {r} : call'[q] = call[q] /\ seen'[q] = seen[q]
    PROVE  UNCHANGED Decided
<1>1. \A q \in Requests \ {r} : pc'[q] = pc[q]
  BY DEF TypeOK
<1> QED BY <1>1 DEF Decided, Verdict

(* The comparison of the hash gives the answer that was decided.            *)
LEMMA VerifyDecidesNothing ==
    ASSUME TypeOK, NEW r \in Requests, LoginVerify(r)
    PROVE  UNCHANGED Decided
<1>1. PICK a : /\ a = Verdict(r) /\ reply' = [reply EXCEPT ![r] = a]
               /\ pc' = [pc EXCEPT ![r] = "done"] /\ UNCHANGED <<call, seen>>
  BY DEF LoginVerify, Answer, Verdict
<1>2. /\ pc[r] = "verify" /\ pc'[r] = "done" /\ reply'[r] = Verdict(r)
      /\ \A q \in Requests \ {r} : pc'[q] = pc[q] /\ reply'[q] = reply[q]
  BY <1>1 DEF TypeOK, LoginVerify, At
<1> QED BY <1>1, <1>2 DEF Decided, Verdict

-----------------------------------------------------------------------------
(* The table, as AtomicAccounts looks at it. *)

LEMMA Views ==
    ASSUME NEW r \in Requests
    PROVE  /\ Atomic!Accounts = Accounts
           /\ Atomic!Holder(call[r]) = WithEmail(NewRow(call[r]).email)
           /\ call[r].key # NoKey => Atomic!Bearer(call[r]) = WithKey(call[r].key)
           /\ call[r].key = NoKey => Atomic!Bearer(call[r]) = {}
           /\ Violates(NewRow(call[r]))
              <=> Atomic!Holder(call[r]) \cup Atomic!Bearer(call[r]) # {}
           /\ call[r].op # "create" => NewRow(call[r]).email = call[r].email
<1>1. Atomic!Accounts = Accounts
  BY DEF Atomic!Accounts, Accounts
<1>2. Atomic!Holder(call[r]) = WithEmail(NewRow(call[r]).email)
  BY <1>1 DEF Atomic!Holder, Atomic!Address, WithEmail, NewRow
<1>3. /\ call[r].key # NoKey => Atomic!Bearer(call[r]) = WithKey(call[r].key)
      /\ call[r].key = NoKey => Atomic!Bearer(call[r]) = {}
  BY <1>1 DEF Atomic!Bearer, WithKey
<1>4. NewRow(call[r]).key = call[r].key
  BY DEF NewRow
<1>5. call[r].op # "create" => NewRow(call[r]).email = call[r].email
  BY DEF NewRow
<1> QED BY <1>1, <1>2, <1>3, <1>4, <1>5 DEF Violates

LEMMA InsertOpens ==
    ASSUME NEW r \in Requests, Insert(r)
    PROVE  Atomic!Open(r)
BY Views DEF Insert, NewRow, Atomic!Open, Atomic!Address

(* The repetition of a loaded value writes nothing, which AtomicAccounts    *)
(* allows because the account had that method; another value is written     *)
(* over whatever is there.                                                  *)
LEMMA UpdatePatches ==
    ASSUME AInv, NEW r \in Requests, pc[r] = "update", Update(r)
    PROVE  /\ call[r].op = "patch" /\ call[r].user \in Accounts
           /\ seen[r].user = call[r].user
           /\ \/ /\ users' = [users EXCEPT ![call[r].user].method = call[r].method]
                 /\ held' = [held EXCEPT ![call[r].user] = @ \cup {call[r].method}]
              \/ call[r].method \in held[call[r].user] /\ Atomic!Keep
<1>1. /\ call[r].op = "patch" /\ seen[r].user = call[r].user
      /\ seen[r].row.method \in held[seen[r].user]
  BY DEF AInv, Paced
<1>2. seen[r].user \in Accounts
  BY DEF AInv, IInv, Base, Standing, Seen, Accounts
<1> QED BY <1>1, <1>2 DEF Update, Atomic!Keep

-----------------------------------------------------------------------------
(* Every step of a handler is a step of AtomicAccounts or none. *)

LEMMA AtomicReceive ==
    ASSUME AInv, NEW r \in Requests, Receive(r)
    PROVE  Atomic!Ask(r)
<1>1. PICK c \in Calls, step \in {"find", "insert"} :
        /\ call' = [call EXCEPT ![r] = c]
        /\ pc' = [pc EXCEPT ![r] = step]
  BY DEF Receive
<1>2. pc[r] = "idle" /\ call[r] = NoReply /\ UNCHANGED <<users, seen, reply, held>>
  BY DEF Receive, AInv, Paced
<1>3. TypeOK
  BY DEF AInv, IInv, Base
<1>4. UNCHANGED Decided
  <2>1. pc'[r] # "verify" /\ \A q \in Requests \ {r} : call'[q] = call[q]
    BY <1>1, <1>3 DEF TypeOK
  <2> QED BY <1>1, <1>2, <1>3, <2>1, OthersDecideNothing
<1> QED BY <1>1, <1>2, <1>4 DEF Atomic!Ask

LEMMA GotoDecidesNothing ==
    ASSUME TypeOK, NEW r \in Requests, pc[r] # "verify",
           NEW step \in {"find", "insert", "replay", "update"}, UNCHANGED <<users, held>>,
           \/ Goto(r, step)
           \/ \E u \in Requests : Load(r, u, step)
    PROVE  UNCHANGED Atomic!vars
<1>1. /\ pc' = [pc EXCEPT ![r] = step] /\ UNCHANGED <<call, reply>>
      /\ pc'[r] # "verify"
      /\ \A q \in Requests \ {r} : seen'[q] = seen[q]
  BY DEF Goto, Load, TypeOK
<1>2. UNCHANGED Decided
  BY <1>1, OthersDecideNothing
<1> QED BY <1>1, <1>2 DEF Atomic!vars

AtomicStep(r) == Atomic!Serve(r) \/ UNCHANGED Atomic!vars

LEMMA AtomicCreate ==
    ASSUME AInv, NEW r \in Requests,
           CreateFind(r) \/ CreateInsert(r) \/ CreateReplay(r)
    PROVE  AtomicStep(r)
<1>0. /\ TypeOK /\ call[r] \in Call /\ pc[r] \in {"find", "insert", "replay"}
      /\ call[r].op = "create" /\ call[r] # NoReply /\ Decided[r] = NoReply
  BY DecidedWaiting
     DEF AInv, IInv, Base, Standing, CreateFind, CreateInsert, CreateReplay, At
<1> SUFFICES \/ Atomic!Create(r) /\ UNCHANGED call
             \/ UNCHANGED Atomic!vars
  BY <1>0 DEF AtomicStep, Atomic!Serve
<1>1. CASE CreateFind(r)
  <2>1. call[r].key # NoKey
    BY <1>1 DEF CreateFind, At, AInv, Paced
  <2>2. CASE \E u \in WithKey(call[r].key) : Answer(r, "replayed", u)
    BY <1>0, <1>1, <2>1, <2>2, AnswerDecides, Views
       DEF CreateFind, ReadOnly, Atomic!Create, Atomic!Keep
  <2>3. CASE Goto(r, "insert")
    BY <1>0, <1>1, <2>3, GotoDecidesNothing DEF CreateFind, ReadOnly
  <2> QED BY <1>1, <2>2, <2>3 DEF CreateFind
<1>2. CASE CreateInsert(r)
  <2>1. CASE Insert(r) /\ Answer(r, "created", r)
    BY <1>0, <2>1, AnswerDecides, InsertOpens DEF Atomic!Create
  <2>2. CASE Goto(r, "replay") /\ ReadOnly
    BY <1>0, <2>2, GotoDecidesNothing DEF ReadOnly
  <2>3. CASE /\ Violates(NewRow(call[r])) /\ call[r].key = NoKey
             /\ Answer(r, "conflict", Nobody) /\ ReadOnly
    BY <1>0, <2>3, AnswerDecides, Views DEF ReadOnly, Atomic!Create, Atomic!Keep
  <2> QED BY <1>2, <2>1, <2>2, <2>3 DEF CreateInsert
<1>3. CASE CreateReplay(r)
  <2>1. call[r].key # NoKey /\ Violates(NewRow(call[r]))
    BY <1>3 DEF CreateReplay, At, AInv, IInv, Owes, OwesCreate
  <2>2. CASE \E u \in WithKey(call[r].key) : Answer(r, "replayed", u)
    BY <1>0, <1>3, <2>1, <2>2, AnswerDecides, Views
       DEF CreateReplay, ReadOnly, Atomic!Create, Atomic!Keep
  <2>3. CASE WithKey(call[r].key) = {} /\ Answer(r, "conflict", Nobody)
    BY <1>0, <1>3, <2>1, <2>3, AnswerDecides, Views
       DEF CreateReplay, ReadOnly, Atomic!Create, Atomic!Keep
  <2> QED BY <1>3, <2>2, <2>3 DEF CreateReplay
<1> QED BY <1>1, <1>2, <1>3

LEMMA AtomicSignup ==
    ASSUME AInv, NEW r \in Requests, SignupFind(r) \/ SignupInsert(r)
    PROVE  AtomicStep(r)
<1>0. /\ TypeOK /\ call[r] \in Call /\ pc[r] \in {"find", "insert"}
      /\ call[r].op = "signup" /\ call[r] # NoReply /\ Decided[r] = NoReply
  BY DecidedWaiting DEF AInv, IInv, Base, Standing, SignupFind, SignupInsert, At
<1>1. call[r].key = NoKey
  BY <1>0 DEF Call, CreateCall, SignupCall, GoogleCall, LoginCall, PatchCall, LookupCall
<1> SUFFICES \/ Atomic!Signup(r) /\ UNCHANGED call
             \/ UNCHANGED Atomic!vars
  BY <1>0 DEF AtomicStep, Atomic!Serve
<1>2. ASSUME ReadOnly, WithEmail(call[r].email) # {}, NEW s \in {"conflict", "error"},
             Answer(r, s, Nobody)
      PROVE  Atomic!Signup(r) /\ UNCHANGED call
  <2>1. Atomic!Reply(r, s, Nobody) /\ UNCHANGED call
    BY <1>0, <1>2, AnswerDecides
  <2>2. Atomic!Holder(call[r]) # {}
    BY <1>0, <1>2, Views
  <2> QED BY <1>2, <2>1, <2>2 DEF ReadOnly, Atomic!Signup, Atomic!Keep
<1>3. CASE SignupFind(r)
  <2>1. CASE Goto(r, "insert")
    BY <1>0, <1>3, <2>1, GotoDecidesNothing DEF SignupFind, ReadOnly
  <2> QED BY <1>2, <1>3, <2>1 DEF SignupFind
<1>4. CASE SignupInsert(r)
  <2>1. CASE Insert(r) /\ Answer(r, "created", r)
    BY <1>0, <2>1, AnswerDecides, InsertOpens DEF Atomic!Signup
  <2>2. Violates(NewRow(call[r])) => WithEmail(call[r].email) # {}
    BY <1>0, <1>1, Views
  <2> QED BY <1>2, <1>4, <2>1, <2>2 DEF SignupInsert
<1> QED BY <1>3, <1>4

LEMMA AtomicGoogle ==
    ASSUME AInv, NEW r \in Requests, GoogleFind(r) \/ GoogleInsert(r)
    PROVE  AtomicStep(r)
<1>0. /\ TypeOK /\ call[r] \in Call /\ pc[r] \in {"find", "insert"}
      /\ call[r].op = "google" /\ call[r] # NoReply /\ Decided[r] = NoReply
  BY DecidedWaiting DEF AInv, IInv, Base, Standing, GoogleFind, GoogleInsert, At
<1> SUFFICES \/ Atomic!Google(r) /\ UNCHANGED call
             \/ UNCHANGED Atomic!vars
  BY <1>0 DEF AtomicStep, Atomic!Serve
<1>1. CASE GoogleFind(r)
  <2>1. CASE Goto(r, "insert")
    BY <1>0, <1>1, <2>1, GotoDecidesNothing DEF GoogleFind, ReadOnly
  <2>2. ASSUME NEW u \in WithEmail(call[r].email),
               Answer(r, IF users[u].method = "google" THEN "ok" ELSE "conflict", u)
        PROVE  Atomic!Google(r) /\ UNCHANGED call
    <3>1. /\ Atomic!Reply(r, IF users[u].method = "google" THEN "ok" ELSE "conflict", u)
          /\ UNCHANGED call
      BY <1>0, <2>2, AnswerDecides
    <3>2. u \in Atomic!Holder(call[r])
      BY <1>0, Views
    <3> QED BY <1>1, <3>1, <3>2 DEF GoogleFind, ReadOnly, Atomic!Google, Atomic!Keep
  <2> QED BY <1>1, <2>1, <2>2 DEF GoogleFind
<1>2. CASE GoogleInsert(r)
  <2>1. CASE Insert(r) /\ Answer(r, "ok", r)
    BY <1>0, <2>1, AnswerDecides, InsertOpens DEF Atomic!Google
  <2>2. CASE Violates(NewRow(call[r])) /\ Answer(r, "error", Nobody) /\ ReadOnly
    BY <1>0, <2>2, AnswerDecides, Views DEF ReadOnly, Atomic!Google, Atomic!Keep
  <2> QED BY <1>2, <2>1, <2>2 DEF GoogleInsert
<1> QED BY <1>1, <1>2

LEMMA AtomicLogin ==
    ASSUME AInv, NEW r \in Requests, LoginFind(r) \/ LoginVerify(r)
    PROVE  AtomicStep(r)
<1>1. TypeOK
  BY DEF AInv, IInv, Base
<1>2. CASE LoginFind(r)
  <2>0. /\ call[r] \in Call /\ pc[r] = "find"
        /\ call[r].op = "login" /\ call[r] # NoReply /\ Decided[r] = NoReply
    BY <1>2, DecidedWaiting DEF AInv, IInv, Base, Standing, LoginFind, At
  <2>1. Atomic!Holder(call[r]) = WithEmail(call[r].email)
    BY <2>0, Views
  <2> SUFFICES Atomic!Login(r) /\ UNCHANGED call
    BY <2>0 DEF AtomicStep, Atomic!Serve
  <2>2. CASE WithEmail(call[r].email) = {} /\ Answer(r, "unauthorized", Nobody)
    BY <1>1, <1>2, <2>0, <2>1, <2>2, AnswerDecides
       DEF LoginFind, ReadOnly, Atomic!Login, Atomic!Keep
  <2>3. ASSUME NEW u \in WithEmail(call[r].email),
               users[u].method # "email_password" \/ users[u].password = NoPassword,
               Answer(r, "conflict", u)
        PROVE  Atomic!Login(r) /\ UNCHANGED call
    BY <1>1, <1>2, <2>0, <2>1, <2>3, AnswerDecides
       DEF LoginFind, ReadOnly, Atomic!Login, Atomic!Keep
  <2>4. ASSUME NEW u \in WithEmail(call[r].email),
               ~(users[u].method # "email_password" \/ users[u].password = NoPassword),
               Load(r, u, "verify")
        PROVE  Atomic!Login(r) /\ UNCHANGED call
    <3>1. u \in Accounts
      BY DEF WithEmail
    <3> QED BY <1>1, <1>2, <2>1, <2>4, <3>1, LoadDecides
            DEF LoginFind, ReadOnly, Atomic!Login, Atomic!Keep
  <2> QED BY <1>2, <2>2, <2>3, <2>4 DEF LoginFind
<1>3. CASE LoginVerify(r)
  BY <1>1, <1>3, VerifyDecidesNothing
     DEF LoginVerify, Answer, ReadOnly, AtomicStep, Atomic!vars
<1> QED BY <1>2, <1>3

LEMMA AtomicPatch ==
    ASSUME AInv, NEW r \in Requests, PatchFind(r) \/ PatchUpdate(r)
    PROVE  AtomicStep(r)
<1>0. /\ TypeOK /\ call[r] \in Call /\ pc[r] \in {"find", "update"}
      /\ call[r].op = "patch" /\ call[r] # NoReply /\ Decided[r] = NoReply
  BY DecidedWaiting DEF AInv, IInv, Base, Standing, PatchFind, PatchUpdate, At
<1> SUFFICES \/ Atomic!Patch(r) /\ UNCHANGED call
             \/ UNCHANGED Atomic!vars
  BY <1>0 DEF AtomicStep, Atomic!Serve
<1>1. CASE PatchFind(r)
  <2>1. CASE call[r].user \in Accounts /\ Load(r, call[r].user, "update")
    BY <1>0, <1>1, <2>1, GotoDecidesNothing DEF PatchFind, ReadOnly, Accounts
  <2>2. CASE call[r].user \notin Accounts /\ Answer(r, "notFound", Nobody)
    BY <1>0, <1>1, <2>2, AnswerDecides, Views
       DEF PatchFind, ReadOnly, Atomic!Patch, Atomic!Keep
  <2> QED BY <1>1, <2>1, <2>2 DEF PatchFind
<1>2. CASE PatchUpdate(r)
  <2>1. Update(r) /\ Answer(r, "ok", seen[r].user) /\ pc[r] = "update"
    BY <1>2 DEF PatchUpdate, At
  <2>2. Atomic!Reply(r, "ok", call[r].user) /\ UNCHANGED call
    BY <1>0, <2>1, AnswerDecides, UpdatePatches
  <2> QED BY <2>1, <2>2, UpdatePatches, Views DEF Atomic!Patch
<1> QED BY <1>1, <1>2

LEMMA AtomicLookup ==
    ASSUME AInv, NEW r \in Requests, LookupFind(r)
    PROVE  AtomicStep(r)
<1>0. /\ TypeOK /\ call[r] \in Call /\ pc[r] = "find"
      /\ call[r].op = "lookup" /\ call[r] # NoReply /\ Decided[r] = NoReply
  BY DecidedWaiting DEF AInv, IInv, Base, Standing, LookupFind, At
<1> DEFINE same == {u \in Accounts : Lower[users[u].email] = Lower[call[r].email]}
           s == IF same # {} THEN "exists" ELSE "absent"
<1>1. Answer(r, s, Nobody) /\ ReadOnly
  BY DEF LookupFind
<1>2. Atomic!Reply(r, s, Nobody) /\ UNCHANGED call
  BY <1>0, <1>1, AnswerDecides
<1>3. Atomic!Lookup(r)
  BY <1>1, <1>2, Views DEF ReadOnly, Atomic!Lookup, Atomic!Keep
<1> QED BY <1>0, <1>2, <1>3 DEF AtomicStep, Atomic!Serve

LEMMA AtomicCutOff ==
    ASSUME AInv, NEW r \in Requests, Timeout(r) \/ CommitThenTimeout(r)
    PROVE  AtomicStep(r)
<1>0. /\ TypeOK /\ call[r] \in Call /\ pc[r] \in {"find", "insert", "replay", "update"}
      /\ call[r] # NoReply /\ Decided[r] = NoReply
  BY DecidedWaiting DEF AInv, IInv, Base, Standing, Timeout, CommitThenTimeout
<1>1. Atomic!Reply(r, "timeout", Nobody) /\ UNCHANGED call
  BY <1>0, AnswerDecides DEF Timeout, CommitThenTimeout
<1> SUFFICES Atomic!CutOff(r)
  BY <1>0, <1>1 DEF AtomicStep, Atomic!Serve
<1>2. CASE ReadOnly
  BY <1>1, <1>2 DEF ReadOnly, Atomic!CutOff, Atomic!Keep
<1>3. CASE pc[r] = "insert" /\ Insert(r)
  BY <1>1, <1>3, InsertOpens DEF AInv, Paced, Atomic!CutOff
<1>4. CASE pc[r] = "update" /\ Update(r)
  BY <1>1, <1>4, UpdatePatches, Views DEF Atomic!CutOff
<1> QED BY <1>2, <1>3, <1>4 DEF Timeout, CommitThenTimeout

LEMMA AtomicHandle ==
    ASSUME AInv, NEW r \in Requests, Handle(r)
    PROVE  AtomicStep(r)
<1>1. CASE Retry(r)
  BY <1>1, GotoDecidesNothing
     DEF Retry, At, ReadOnly, AtomicStep, AInv, IInv, Base
<1> QED BY <1>1, AtomicCreate, AtomicSignup, AtomicGoogle, AtomicLogin, AtomicPatch,
           AtomicLookup, AtomicCutOff
        DEF Handle

LEMMA AtomicInit == Init => Atomic!Init
BY DEF Init, Decided, Atomic!Init

-----------------------------------------------------------------------------
(* Every request takes effect in one step, at which it decides its answer;  *)
(* a client cannot tell the server from one that handles a request at a     *)
(* time.                                                                    *)
THEOREM RequestsAreAtomic == Spec => ImplementsAtomic
<1>1. AInv /\ [Next]_vars => [Atomic!Next]_(Atomic!vars)
  <2> SUFFICES ASSUME AInv, [Next]_vars
               PROVE  [Atomic!Next]_(Atomic!vars)
    OBVIOUS
  <2>1. ASSUME NEW r \in Requests, Receive(r) \/ Handle(r)
        PROVE  [Atomic!Next]_(Atomic!vars)
    BY <2>1, AtomicReceive, AtomicHandle DEF AtomicStep, Atomic!Next
  <2>2. CASE UNCHANGED vars
    BY <2>2 DEF vars, Decided, Verdict, Atomic!vars
  <2> QED BY <2>1, <2>2 DEF Next
<1> QED BY <1>1, AtomicInit, AInvHolds, PTL DEF Spec, ImplementsAtomic, Atomic!Spec
=============================================================================
