------------------------------- MODULE Lawyers -------------------------------
(***************************************************************************)
(* Lawyer profiles and the contracts clients have with them.               *)
(*                                                                         *)
(*   promote    POST   /lawyers/promote              api/routes/lawyers.py *)
(*   update     PATCH  /lawyers/{lawyer_id}                                *)
(*   demote     DELETE /lawyers/{lawyer_id}                                *)
(*   contract   POST   /lawyers/{lawyer_id}/contracts                      *)
(*   revise     PATCH  /lawyers/contracts/{contract_id}                    *)
(*   subscribe  POST   /users/{user_id}/subscribe    api/routes/users.py   *)
(*                                                                         *)
(* Each handler reads in one transaction, decides in Python, and writes    *)
(* what it changed of the object it read: the ORM puts a column in the     *)
(* UPDATE only if its value differs from the loaded one, and no statement  *)
(* locks or compares a version.  So a read and a write are two steps here, *)
(* with other requests between them.                                       *)
(*                                                                         *)
(* Users are not deleted by any handler; the set is fixed.  The request    *)
(* that inserted a row stands for the row's uuid, which clients learn from *)
(* the answer: they name rows that exist, or nothing that does (Nobody).   *)
(***************************************************************************)
EXTENDS Naturals, FiniteSets

CONSTANTS
    Requests, Users,
    Calls,       \* what clients may ask for, targets apart
    Instant,     \* created_at of a user, promoted_at of a profile
    Nobody,      \* an id no row has
    Unset,       \* a status the body leaves out
    NoRow, NoReply

ASSUME DistinctAssumption ==
    /\ Requests \cap Users = {}
    /\ Nobody \notin Requests \cup Users

LawyerStatus   == {"active", "suspended", "inactive"}
Final          == {"completed", "cancelled"}
ContractStatus == {"pending", "active"} \cup Final

ASSUME UnsetAssumption == Unset \notin LawyerStatus \cup ContractStatus

(* user: whom to promote, the client of a contract, the subscriber.         *)
(* null: the body sets a NOT NULL column to null; in a subscribe, it has no *)
(* service_id or an unknown service_type.                                   *)
Request(op, users, statuses, nulls) ==
    [op : {op}, user : users, status : statuses, null : nulls]

AnyUser == Users \cup {Nobody}

Call == UNION {
    Request("promote", AnyUser, {Unset}, {FALSE}),
    Request("update", {Nobody}, LawyerStatus \cup {Unset}, BOOLEAN),
    Request("demote", {Nobody}, {Unset}, {FALSE}),
    Request("contract", AnyUser, {Unset}, {FALSE}),
    Request("revise", {Nobody}, ContractStatus \cup {Unset}, BOOLEAN),
    Request("subscribe", AnyUser, {Unset}, BOOLEAN)}

ASSUME CallsAssumption == Calls \subseteq Call

LawyerRow == [user : Users, status : LawyerStatus, deleted : BOOLEAN]

(* started, ended: the request whose instant is started_at, ended_at, or    *)
(* Nobody.                                                                  *)
Dates == {"started", "ended"}

ContractRow == [lawyer : Requests, client : Users, status : ContractStatus,
                started : Requests \cup {Nobody}, ended : Requests \cup {Nobody}]

Recorded(row) ==
    {d \in Dates : \/ d = "started" /\ row.started # Nobody
                   \/ d = "ended" /\ row.ended # Nobody}

ASSUME NullAssumption ==
    /\ NoRow \notin LawyerRow \cup ContractRow
    /\ NoReply \notin Call

ASSUME InstantAssumption == Instant \in [Requests \cup Users -> Nat]

VARIABLES
    lawyers,    \* the committed row with this id, or NoRow
    contracts,
    pc,         \* the await a request stands at
    call,       \* what it asks for, NoReply before it arrives
    target,     \* the lawyer, contract or (subscribe) service_id it names
    seen,       \* the row its handler loaded
    reply,      \* its answer
    gone,       \* history: the lawyer it names, if demoted when it arrived
    offered,    \* history: that lawyer, if open to clients at an instant of its
                \* handling
    dated       \* history: the dates its contract had when it arrived

vars == <<lawyers, contracts, pc, call, target, seen, reply, gone, offered, dated>>

Steps == {"idle", "read", "write", "done"}

(* created 201, ok 200, invalid 400, notFound 404, conflict 409, error 500, *)
(* timeout 504                                                              *)
Statuses == {"created", "ok", "invalid", "notFound", "conflict", "error", "timeout"}

TypeOK ==
    /\ lawyers \in [Requests -> LawyerRow \cup {NoRow}]
    /\ contracts \in [Requests -> ContractRow \cup {NoRow}]
    /\ pc \in [Requests -> Steps]
    /\ call \in [Requests -> Call \cup {NoReply}]
    /\ target \in [Requests -> Requests \cup Users \cup {Nobody}]
    /\ seen \in [Requests -> LawyerRow \cup ContractRow \cup {NoRow}]
    /\ reply \in [Requests -> Statuses \cup {NoReply}]
    /\ gone \in [Requests -> SUBSET Requests]
    /\ offered \in [Requests -> SUBSET Requests]
    /\ dated \in [Requests -> SUBSET Dates]

Init ==
    /\ lawyers = [l \in Requests |-> NoRow]
    /\ contracts = [c \in Requests |-> NoRow]
    /\ pc = [r \in Requests |-> "idle"]
    /\ call = [r \in Requests |-> NoReply]
    /\ target = [r \in Requests |-> Nobody]
    /\ seen = [r \in Requests |-> NoRow]
    /\ reply = [r \in Requests |-> NoReply]
    /\ gone = [r \in Requests |-> {}]
    /\ offered = [r \in Requests |-> {}]
    /\ dated = [r \in Requests |-> {}]

-----------------------------------------------------------------------------
(* The two tables. *)

Profiles == {l \in Requests : lawyers[l] # NoRow}

Agreements == {c \in Requests : contracts[c] # NoRow}

(* get_active_lawyer and get_active_lawyer_by_user: not demoted.            *)
Present == {l \in Profiles : ~lawyers[l].deleted}

PresentOf(u) == {l \in Present : lawyers[l].user = u}

Open == {l \in Present : lawyers[l].status = "active"}

(* The UPDATE of one column: nothing if the object's value is the loaded    *)
(* one.                                                                     *)
Column(loaded, new, stored) == IF new = loaded THEN stored ELSE new

-----------------------------------------------------------------------------
(* Steps shared by the handlers. *)

At(r, op, step) == pc[r] = step /\ call[r].op = op

Answer(r, status) ==
    /\ pc' = [pc EXCEPT ![r] = "done"]
    /\ reply' = [reply EXCEPT ![r] = status]
    /\ seen' = [seen EXCEPT ![r] = NoRow]
    /\ UNCHANGED <<call, target, gone, dated>>

Load(r, row) ==
    /\ pc' = [pc EXCEPT ![r] = "write"]
    /\ seen' = [seen EXCEPT ![r] = row]
    /\ UNCHANGED <<call, target, reply, gone, dated>>

ReadOnly == UNCHANGED <<lawyers, contracts, offered>>

(* A change of a profile is seen by the requests in hand that name it.      *)
WriteLawyer(l, row) ==
    /\ lawyers' = [lawyers EXCEPT ![l] = row]
    /\ offered' = [r \in Requests |->
         IF /\ pc[r] \in {"read", "write"} /\ target[r] = l
            /\ row.status = "active" /\ ~row.deleted
         THEN offered[r] \cup {l} ELSE offered[r]]
    /\ UNCHANGED contracts

WriteContract(c, row) ==
    /\ contracts' = [contracts EXCEPT ![c] = row]
    /\ UNCHANGED <<lawyers, offered>>

(* The rows a client may name.                                              *)
Targets(c) ==
    {Nobody} \cup
    CASE c.op \in {"update", "demote", "contract"} -> Profiles
      [] c.op = "revise"    -> Agreements
      [] c.op = "subscribe" -> IF c.null THEN {} ELSE Profiles \cup Users
      [] c.op = "promote"   -> {}

Receive(r) ==
    /\ pc[r] = "idle"
    /\ \E c \in Calls : \E t \in Targets(c) :
         /\ call' = [call EXCEPT ![r] = c]
         /\ target' = [target EXCEPT ![r] = t]
         /\ dated' = [dated EXCEPT ![r] =
              IF c.op = "revise" /\ t # Nobody THEN Recorded(contracts[t]) ELSE {}]
         /\ gone' = [gone EXCEPT ![r] = {t} \cap (Profiles \ Present)]
         /\ offered' = [offered EXCEPT ![r] = {t} \cap Open]
    /\ pc' = [pc EXCEPT ![r] = "read"]
    /\ UNCHANGED <<lawyers, contracts, seen, reply>>

-----------------------------------------------------------------------------
(* POST /lawyers/promote.  user_id is unique over all rows, the demoted     *)
(* ones included.                                                           *)

PromoteRead(r) ==
    /\ At(r, "promote", "read")
    /\ \/ call[r].user = Nobody /\ Answer(r, "notFound")
       \/ call[r].user # Nobody /\ PresentOf(call[r].user) # {} /\ Answer(r, "conflict")
       \/ call[r].user # Nobody /\ PresentOf(call[r].user) = {} /\ Load(r, NoRow)
    /\ ReadOnly

(* Mutant: the constraint leaves the demoted ones out.                      *)
TakenByPresent(u) == PresentOf(u) # {}

Taken(u) == \E l \in Profiles : lawyers[l].user = u

InsertProfile(r) ==
    /\ ~Taken(call[r].user)
    /\ WriteLawyer(r, [user |-> call[r].user, status |-> "active", deleted |-> FALSE])

PromoteWrite(r) ==
    /\ At(r, "promote", "write")
    /\ \/ InsertProfile(r) /\ Answer(r, "created")
       \/ Taken(call[r].user) /\ ReadOnly /\ Answer(r, "conflict")

(* PATCH and DELETE /lawyers/{lawyer_id}: get_active_lawyer first.          *)

LawyerRead(r) ==
    /\ pc[r] = "read" /\ call[r].op \in {"update", "demote"}
    /\ \/ target[r] \in Present /\ Load(r, lawyers[target[r]])
       \/ target[r] \notin Present /\ Answer(r, "notFound")
    /\ ReadOnly

(* Mutant: the whole row is written, not the column.                        *)
UpdateProfileWhole(r) ==
    WriteLawyer(target[r], [seen[r] EXCEPT
        !.status = IF call[r].status = Unset THEN @ ELSE call[r].status])

UpdateProfile(r) ==
    LET l == target[r]
        s == IF call[r].status = Unset THEN seen[r].status ELSE call[r].status
    IN  WriteLawyer(l, [lawyers[l] EXCEPT !.status = Column(seen[r].status, s, @)])

(* A null for a required column fails the whole UPDATE, and nobody catches  *)
(* the IntegrityError.                                                      *)
UpdateWrite(r) ==
    /\ At(r, "update", "write")
    /\ \/ ~call[r].null /\ UpdateProfile(r) /\ Answer(r, "ok")
       \/ call[r].null /\ ReadOnly /\ Answer(r, "error")

SoftDelete(r) ==
    LET l == target[r]
    IN  WriteLawyer(l, [lawyers[l] EXCEPT
            !.status = Column(seen[r].status, "inactive", @), !.deleted = TRUE])

DemoteWrite(r) ==
    /\ At(r, "demote", "write")
    /\ SoftDelete(r)
    /\ Answer(r, "ok")

(* POST /lawyers/{lawyer_id}/contracts                                      *)

(* Mutant: a suspended lawyer takes clients.                                *)
ContractReadPresent(r) ==
    LET l == target[r]
    IN  /\ At(r, "contract", "read")
        /\ \/ l \notin Present /\ Answer(r, "notFound")
           \/ l \in Present /\ call[r].user = lawyers[l].user /\ Answer(r, "invalid")
           \/ /\ l \in Present /\ call[r].user \notin {lawyers[l].user, Nobody}
              /\ Load(r, lawyers[l])
        /\ ReadOnly

ContractRead(r) ==
    LET l == target[r]
    IN  /\ At(r, "contract", "read")
        /\ \/ l \notin Open /\ Answer(r, "notFound")
           \/ l \in Open /\ call[r].user = lawyers[l].user /\ Answer(r, "invalid")
           \/ l \in Open /\ call[r].user = Nobody /\ Answer(r, "notFound")
           \/ /\ l \in Open /\ call[r].user \notin {lawyers[l].user, Nobody}
              /\ Load(r, lawyers[l])
        /\ ReadOnly

InsertContract(r) ==
    WriteContract(r, [lawyer |-> target[r], client |-> call[r].user,
                      status |-> "pending", started |-> Nobody, ended |-> Nobody])

ContractWrite(r) ==
    /\ At(r, "contract", "write")
    /\ InsertContract(r)
    /\ Answer(r, "created")

(* PATCH /lawyers/contracts/{contract_id}: any status may follow any other. *)

ReviseRead(r) ==
    /\ At(r, "revise", "read")
    /\ \/ target[r] \in Agreements /\ Load(r, contracts[target[r]])
       \/ target[r] \notin Agreements /\ Answer(r, "notFound")
    /\ ReadOnly

(* Mutants: only a pending contract is given its start; a date is set       *)
(* whether there is one or not.                                             *)
ReviseFromPending(r) ==
    LET c == target[r]
        s == IF call[r].status = Unset THEN seen[r].status ELSE call[r].status
    IN  WriteContract(c, [contracts[c] EXCEPT
            !.status = Column(seen[r].status, s, @),
            !.started = IF call[r].status = "active" /\ seen[r].status = "pending" THEN r ELSE @,
            !.ended = IF call[r].status \in Final /\ seen[r].ended = Nobody THEN r ELSE @])

ReviseAlways(r) ==
    LET c == target[r]
        s == IF call[r].status = Unset THEN seen[r].status ELSE call[r].status
    IN  WriteContract(c, [contracts[c] EXCEPT
            !.status = Column(seen[r].status, s, @),
            !.started = IF call[r].status = "active" THEN r ELSE @,
            !.ended = IF call[r].status \in Final THEN r ELSE @])

Revise(r) ==
    LET c == target[r]
        s == IF call[r].status = Unset THEN seen[r].status ELSE call[r].status
        starts == call[r].status = "active" /\ seen[r].started = Nobody
        ends == call[r].status \in Final /\ seen[r].ended = Nobody
    IN  WriteContract(c, [contracts[c] EXCEPT
            !.status = Column(seen[r].status, s, @),
            !.started = IF starts THEN r ELSE @,
            !.ended = IF ends THEN r ELSE @])

ReviseWrite(r) ==
    /\ At(r, "revise", "write")
    /\ \/ ~call[r].null /\ Revise(r) /\ Answer(r, "ok")
       \/ call[r].null /\ ReadOnly /\ Answer(r, "error")

(* POST /users/{user_id}/subscribe looks service_id up among the lawyers'   *)
(* users ...                                                                *)
SubscribeRead(r) ==
    /\ At(r, "subscribe", "read")
    /\ \/ call[r].user = Nobody /\ Answer(r, "notFound")
       \/ call[r].user # Nobody /\ call[r].null /\ Answer(r, "invalid")
       \/ /\ call[r].user # Nobody /\ ~call[r].null
          /\ \/ PresentOf(target[r]) = {} /\ Answer(r, "notFound")
             \/ \E l \in PresentOf(target[r]) : Load(r, lawyers[l])
    /\ ReadOnly

(* Mutants: without the foreign key, and with the lawyer that was looked up *)
(* in place of the service_id.                                              *)
SubscribeWriteUnchecked(r) ==
    At(r, "subscribe", "write") /\ InsertContract(r) /\ Answer(r, "ok")

SubscribeWriteLawyer(r) ==
    /\ At(r, "subscribe", "write")
    /\ \E l \in PresentOf(target[r]) :
         WriteContract(r, [lawyer |-> l, client |-> call[r].user,
                           status |-> "pending", started |-> Nobody, ended |-> Nobody])
    /\ Answer(r, "ok")

(* ... and stores it as the contract's lawyer_id.  A user's uuid is no      *)
(* lawyer's, so the foreign key refuses it.                                 *)
SubscribeWrite(r) ==
    /\ At(r, "subscribe", "write")
    /\ IF target[r] \in Profiles
       THEN InsertContract(r) /\ Answer(r, "ok")
       ELSE ReadOnly /\ Answer(r, "conflict")

(* db.query() gives up, before the commit or not knowing that it was done.  *)

Timeout(r) ==
    /\ pc[r] \in {"read", "write"}
    /\ Answer(r, "timeout")
    /\ ReadOnly

CommitThenTimeout(r) ==
    /\ \/ At(r, "promote", "write") /\ InsertProfile(r)
       \/ At(r, "update", "write") /\ ~call[r].null /\ UpdateProfile(r)
       \/ At(r, "demote", "write") /\ SoftDelete(r)
       \/ At(r, "contract", "write") /\ InsertContract(r)
       \/ At(r, "revise", "write") /\ ~call[r].null /\ Revise(r)
    /\ Answer(r, "timeout")

(* A deadlock or a serialization failure: nothing was written, and query()  *)
(* calls the handler's function again.                                      *)
Retry(r) ==
    /\ pc[r] = "write"
    /\ pc' = [pc EXCEPT ![r] = "read"]
    /\ seen' = [seen EXCEPT ![r] = NoRow]
    /\ UNCHANGED <<call, target, reply, gone, dated>>
    /\ ReadOnly

Handle(r) ==
    \/ PromoteRead(r) \/ PromoteWrite(r)
    \/ LawyerRead(r) \/ UpdateWrite(r) \/ DemoteWrite(r)
    \/ ContractRead(r) \/ ContractWrite(r)
    \/ ReviseRead(r) \/ ReviseWrite(r)
    \/ SubscribeRead(r) \/ SubscribeWrite(r)
    \/ Timeout(r) \/ CommitThenTimeout(r) \/ Retry(r)

Next == \E r \in Requests : Receive(r) \/ Handle(r)

Spec == Init /\ [][Next]_vars

-----------------------------------------------------------------------------
(* Properties. *)

Answered(r, op, statuses) ==
    pc[r] = "done" /\ call[r].op = op /\ reply[r] \in statuses

(* A profile is 1:1 with its user (ARCHITECTURE.md:83) for good: promotions *)
(* that race, are retried after a 504 or follow a demotion never make a     *)
(* second one, and the one a 201 announced is there.                        *)
PromotedOnce ==
    \A r \in Requests : Answered(r, "promote", {"created"})
        => /\ r \in Profiles /\ lawyers[r].user = call[r].user
           /\ \A l \in Profiles : lawyers[l].user = call[r].user => l = r

(* Once a demotion is committed, no request that arrives later finds the    *)
(* lawyer, changes the profile or gets a contract with it; updates that     *)
(* were under way do not bring it back.                                     *)
DemotionIsFinal ==
    /\ \A r \in Requests :
         /\ pc[r] = "done" /\ call[r].op \in {"update", "demote", "contract"}
         /\ target[r] \in gone[r]
         => reply[r] \in {"notFound", "timeout"}
    /\ \A r \in Requests : gone[r] \cap Present = {}

(* A contract is with a lawyer who took clients at some instant between the *)
(* arrival of the request and its answer.                                   *)
ContractWasOffered ==
    \A c \in Agreements : contracts[c].lawyer \in offered[c]

(* Nobody is their own lawyer, by whichever endpoint the contract came      *)
(* about.                                                                   *)
NoSelfContract ==
    \A c \in Agreements :
        /\ contracts[c].lawyer \in Profiles
        /\ lawyers[contracts[c].lawyer].user # contracts[c].client

(* Although updates overwrite each other column by column, an active        *)
(* contract has its start recorded, and a finished one its end.             *)
DatesFollowStatus ==
    \A c \in Agreements :
        /\ contracts[c].status = "active" => contracts[c].started # Nobody
        /\ contracts[c].status \in Final => contracts[c].ended # Nobody

(* A date that is recorded when a revision arrives is not that revision's   *)
(* afterwards, whatever transitions it asks for: completing a contract      *)
(* twice, or making a completed one active again, moves neither date.  Only *)
(* revisions that overlap may replace each other's.                         *)
DatesKept ==
    \A c \in Agreements :
        /\ contracts[c].started # Nobody => "started" \notin dated[contracts[c].started]
        /\ contracts[c].ended # Nobody => "ended" \notin dated[contracts[c].ended]

(* What the endpoints that read make of the two tables, in the rows of      *)
(* Reads: a user stands for its only profile, suspended and inactive are    *)
(* one, and ratings are left out.                                           *)
ShownProfile == [at : Nat, status : {"active", "other"}, deleted : BOOLEAN]
ShownContract == [lawyer : Users, client : Users, rated : {FALSE}]

ASSUME ShownAssumption == NoRow \notin Nat \cup ShownProfile \cup ShownContract

ProfileOf(u) == CHOOSE l \in Profiles : lawyers[l].user = u

ShowProfile(u) ==
    IF \A l \in Profiles : lawyers[l].user # u THEN NoRow
    ELSE LET row == lawyers[ProfileOf(u)]
         IN  [at |-> Instant[ProfileOf(u)],
              status |-> IF row.status = "active" THEN "active" ELSE "other",
              deleted |-> row.deleted]

ShowContract(c) ==
    IF contracts[c] = NoRow THEN NoRow
    ELSE [lawyer |-> lawyers[contracts[c].lawyer].user,
          client |-> contracts[c].client, rated |-> FALSE]

NoReader == [r \in {} |-> Nobody]

View == INSTANCE Reads WITH
    Readers <- {}, Contracts <- Requests, Sizes <- {1}, Null <- Nobody,
    Instants <- {Instant[x] : x \in Requests \cup Users},
    users <- [u \in Users |-> Instant[u]],
    profiles <- [u \in Users |-> ShowProfile(u)],
    contracts <- [c \in Requests |-> ShowContract(c)],
    pc <- NoReader, ask <- NoReader, page <- NoReader, got <- NoReader,
    reply <- NoReader, known <- NoReader, walk <- NoReader

(* Whatever two handlers that overlap leave in the tables, each commit is   *)
(* one the endpoints that read are prepared for: a user gets a profile once *)
(* and keeps it with its promoted_at, no demoted profile comes back, and a  *)
(* contract, once signed, stays with its lawyer's user and its client.      *)
CommitsReadersExpect ==
    [][UNCHANGED <<lawyers, contracts>> \/ [View!Write]_(View!tables)]_vars

-----------------------------------------------------------------------------
(* The 409 of subscribe says "User already subscribed to this service"      *)
(* (api/routes/users.py:359): then the user has a contract with that        *)
(* lawyer.                                                                  *)
SubscribeConflictMeansSubscribed ==
    \A r \in Requests : Answered(r, "subscribe", {"conflict"})
        => \E c \in Agreements :
             /\ contracts[c].client = call[r].user
             /\ lawyers[contracts[c].lawyer].user = target[r]
=============================================================================
