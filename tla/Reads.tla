-------------------------------- MODULE Reads --------------------------------
(***************************************************************************)
(* The endpoints that only read, one step per SQL statement.               *)
(*                                                                         *)
(*   users      GET /users                          api/routes/users.py    *)
(*   user       GET /users/{user_id}                                       *)
(*   lawyers    GET /lawyers                        api/routes/lawyers.py  *)
(*   lawyer     GET /lawyers/{lawyer_id}, /lawyers/by-user/{user_id}       *)
(*   engaged    GET /lawyers/{lawyer_id}/contracts                         *)
(*   engaging   GET /lawyers/contracts/by-client/{client_user_id}          *)
(*   dashboard  GET /me/profile                     services/profile.py    *)
(*                                                                         *)
(* An answer is put together from several statements of one READ COMMITTED *)
(* transaction: each sees the rows committed when it starts, and others    *)
(* commit between them.  The writers are the commits of Accounts and       *)
(* Lawyers, each as one step.                                              *)
(*                                                                         *)
(* A user has one profile for good (Lawyers, PromotedOnce), so the user    *)
(* stands for the profile's uuid.  A client of a paged endpoint walks: it  *)
(* asks for page 1, 2, ... until a page is shorter than page_size.         *)
(***************************************************************************)
EXTENDS Integers, FiniteSets, Functions

CONSTANTS
    Readers,     \* clients that read, each one endpoint
    Users, Contracts,
    Instants,    \* values of created_at and promoted_at
    Sizes,       \* page_size
    NoRow, Null

ASSUME ReadsAssumption ==
    /\ IsFiniteSet(Users) /\ IsFiniteSet(Contracts)
    /\ Instants \subseteq Nat
    /\ Sizes \subseteq Nat \ {0}
    /\ Null \notin Users

(* "other" is suspended or inactive: the filters compare with one status.   *)
Status == {"active", "other"}

Profile == [at : Instants, status : Status, deleted : BOOLEAN]

ContractRow == [lawyer : Users, client : Users, rated : BOOLEAN]

ASSUME NoRowAssumption == NoRow \notin Instants \cup Profile \cup ContractRow

(* id: the user, lawyer or client the path names.  all: the listing of      *)
(* lawyers without a status filter.                                         *)
Request(ops, ids, sizes, alls) == [op : ops, id : ids, size : sizes, all : alls]

Paged == {"users", "lawyers"}

Ask == UNION {
    Request({"users"}, {Null}, Sizes, {TRUE}),
    Request({"lawyers"}, {Null}, Sizes, BOOLEAN),
    Request({"user", "lawyer", "engaged", "engaging", "dashboard"}, Users, {1}, {TRUE})}

ASSUME NullAssumption == Null \notin Ask

VARIABLES
    users,      \* created_at of the committed row, or NoRow
    profiles, contracts,
    pc,         \* the statement a reader's request stands at
    ask,        \* what the reader asks for
    page,       \* the page it is at
    got,        \* what the statements of this request returned so far
    reply,
    known,      \* history: contracts and number of users committed when the
                \* request arrived
    walk        \* history: who was listed when the reader began, whom it has
                \* met, who has left the listing since

tables == <<users, profiles, contracts>>
vars == <<users, profiles, contracts, pc, ask, page, got, reply, known, walk>>

Steps == {"idle", "count", "rows", "user", "lawyer", "ratings", "counts",
          "contracts", "owners", "between", "done"}

Result == [total : Nat, items : SUBSET Users, rated : [Users -> SUBSET Contracts],
           counted : [Users -> Nat], mine : SUBSET Contracts, owners : SUBSET Users]

TypeOK ==
    /\ users \in [Users -> Instants \cup {NoRow}]
    /\ profiles \in [Users -> Profile \cup {NoRow}]
    /\ contracts \in [Contracts -> ContractRow \cup {NoRow}]
    /\ pc \in [Readers -> Steps]
    /\ ask \in [Readers -> Ask \cup {Null}]
    /\ page \in [Readers -> Nat \ {0}]
    /\ got \in [Readers -> Result]
    /\ reply \in [Readers -> {"ok", "notFound", "timeout", Null}]
    /\ known \in [Readers -> [contracts : SUBSET Contracts, users : Nat]]
    /\ walk \in [Readers -> [since : SUBSET Users, met : SUBSET Users, left : SUBSET Users]]
    /\ \A r \in Readers : pc[r] # "idle" => ask[r] # Null

Nothing ==
    [total |-> 0, items |-> {}, rated |-> [u \in Users |-> {}],
     counted |-> [u \in Users |-> 0], mine |-> {}, owners |-> {}]

Init ==
    /\ users = [u \in Users |-> NoRow]
    /\ profiles = [u \in Users |-> NoRow]
    /\ contracts = [c \in Contracts |-> NoRow]
    /\ pc = [r \in Readers |-> "idle"]
    /\ ask = [r \in Readers |-> Null]
    /\ page = [r \in Readers |-> 1]
    /\ got = [r \in Readers |-> Nothing]
    /\ reply = [r \in Readers |-> Null]
    /\ known = [r \in Readers |-> [contracts |-> {}, users |-> 0]]
    /\ walk = [r \in Readers |-> [since |-> {}, met |-> {}, left |-> {}]]

-----------------------------------------------------------------------------
(* What one statement sees. *)

Members == {u \in Users : users[u] # NoRow}

(* Not demoted.                                                             *)
Lawyers == {u \in Users : profiles[u] # NoRow /\ ~profiles[u].deleted}

Signed == {c \in Contracts : contracts[c] # NoRow}

ContractsOf(l) == {c \in Signed : contracts[c].lawyer = l}

RatedOf(l) == {c \in ContractsOf(l) : contracts[c].rated}

(* Mutant: joined with the lawyers who are still there.                     *)
ClientOfPresent(u) ==
    {c \in Signed : contracts[c].client = u /\ contracts[c].lawyer \in Lawyers}

ClientOf(u) == {c \in Signed : contracts[c].client = u}

Listed(a) ==
    IF a.op = "users" THEN Members
    ELSE {u \in Lawyers : a.all \/ profiles[u].status = "active"}

InstantOf(a, u) == IF a.op = "users" THEN users[u] ELSE profiles[u].at

(* ORDER BY created_at DESC, promoted_at DESC and nothing else: rows of one *)
(* instant come in an order that each statement chooses anew.               *)
TieBreaks == Injection(Users, 1 .. Cardinality(Users))

Ahead(a, u, tie) ==
    {v \in Listed(a) : \/ InstantOf(a, v) > InstantOf(a, u)
                       \/ InstantOf(a, v) = InstantOf(a, u) /\ tie[v] > tie[u]}

(* Mutants: pages numbered from 0; the status filter applied to the page.   *)
PageFromZero(a, p, tie) ==
    {u \in Listed(a) : Cardinality(Ahead(a, u, tie)) \in p * a.size .. (p + 1) * a.size - 1}

PageThenFilter(a, p, tie) ==
    {u \in Listed(a) : Cardinality(Ahead([a EXCEPT !.all = TRUE], u, tie))
                          \in (p - 1) * a.size .. p * a.size - 1}

(* OFFSET (page - 1) * page_size LIMIT page_size                            *)
Page(a, p, tie) ==
    {u \in Listed(a) : Cardinality(Ahead(a, u, tie)) \in (p - 1) * a.size .. p * a.size - 1}

-----------------------------------------------------------------------------
(* Readers. *)

First(op) ==
    CASE op = "users" -> "count"
      [] op = "lawyers" -> "rows"
      [] op \in {"user", "engaging", "dashboard"} -> "user"
      [] op \in {"lawyer", "engaged"} -> "lawyer"

Arrive(r, a, p) ==
    /\ pc' = [pc EXCEPT ![r] = First(a.op)]
    /\ page' = [page EXCEPT ![r] = p]
    /\ got' = [got EXCEPT ![r] = Nothing]
    /\ known' = [known EXCEPT ![r] = [contracts |-> Signed, users |-> Cardinality(Members)]]
    /\ UNCHANGED <<tables, reply>>

Begin(r) ==
    /\ pc[r] = "idle"
    /\ \E a \in Ask :
         /\ ask' = [ask EXCEPT ![r] = a]
         /\ walk' = [walk EXCEPT ![r] =
              [since |-> IF a.op \in Paged THEN Listed(a) ELSE {}, met |-> {}, left |-> {}]]
         /\ Arrive(r, a, 1)

(* The client of a full page asks for the next one.                         *)
NextPage(r) ==
    /\ pc[r] = "between"
    /\ Arrive(r, ask[r], page[r] + 1)
    /\ UNCHANGED <<ask, walk>>

At(r, ops, step) == pc[r] = step /\ ask[r].op \in ops

Go(r, step, result) ==
    /\ pc' = [pc EXCEPT ![r] = step]
    /\ got' = [got EXCEPT ![r] = result]
    /\ UNCHANGED <<tables, ask, page, reply, known>>

Answer(r, status, result) ==
    /\ pc' = [pc EXCEPT ![r] =
         IF status = "ok" /\ ask[r].op \in Paged /\ Cardinality(result.items) >= ask[r].size
         THEN "between" ELSE "done"]
    /\ got' = [got EXCEPT ![r] = result]
    /\ reply' = [reply EXCEPT ![r] = status]
    /\ UNCHANGED <<tables, ask, page, known>>

Stroll == UNCHANGED walk

Meet(r, items) == walk' = [walk EXCEPT ![r].met = @ \cup items]

(* GET /users: the total, then the rows.                                    *)

CountUsers(r) ==
    /\ At(r, {"users"}, "count")
    /\ Go(r, "rows", [got[r] EXCEPT !.total = Cardinality(Members)])
    /\ Stroll

UserRows(r) ==
    /\ At(r, {"users"}, "rows")
    /\ \E tie \in TieBreaks :
         LET rows == Page(ask[r], page[r], tie)
         IN  Meet(r, rows) /\ Answer(r, "ok", [got[r] EXCEPT !.items = rows])

(* GET /lawyers: the rows, then their statistics, unless there are no rows. *)
LawyerRows(r) ==
    /\ At(r, {"lawyers"}, "rows")
    /\ \E tie \in TieBreaks :
         LET rows == Page(ask[r], page[r], tie)
             result == [got[r] EXCEPT !.items = rows]
         IN  /\ Meet(r, rows)
             /\ \/ rows = {} /\ Answer(r, "ok", result)
                \/ rows # {} /\ Go(r, "ratings", result)

(* get_user_or_404 and its likes.                                           *)
FindUser(r) ==
    /\ At(r, {"user", "engaging", "dashboard"}, "user")
    /\ \/ ask[r].id \notin Members /\ Answer(r, "notFound", got[r])
       \/ /\ ask[r].id \in Members
          /\ Go(r, IF ask[r].op = "engaging" THEN "contracts" ELSE "lawyer", got[r])
    /\ Stroll

(* get_active_lawyer and get_active_lawyer_by_user: a lawyer that is not    *)
(* there is 404, or a part of the answer left out.                          *)
FindLawyer(r) ==
    LET u == ask[r].id
        result == [got[r] EXCEPT !.items = Lawyers \cap {u}]
    IN  /\ At(r, {"user", "lawyer", "engaged", "dashboard"}, "lawyer")
        /\ CASE ask[r].op = "user" -> Answer(r, "ok", result)
             [] ask[r].op = "dashboard" ->
                  Go(r, IF u \in Lawyers THEN "ratings" ELSE "contracts", result)
             [] ask[r].op = "lawyer" ->
                  IF u \in Lawyers THEN Go(r, "ratings", result)
                  ELSE Answer(r, "notFound", result)
             [] ask[r].op = "engaged" ->
                  IF u \in Lawyers THEN Go(r, "contracts", result)
                  ELSE Answer(r, "notFound", result)
        /\ Stroll

Stats == {"lawyers", "lawyer", "dashboard"}

AfterStats(r, result) ==
    IF ask[r].op = "dashboard" THEN Go(r, "contracts", result) ELSE Answer(r, "ok", result)

(* get_lawyer_stats and get_batch_lawyer_stats: the average, which is of    *)
(* the contracts with a rating ...                                          *)
Ratings(r) ==
    /\ At(r, Stats, "ratings")
    /\ Go(r, "counts", [got[r] EXCEPT !.rated =
         [l \in Users |-> IF l \in got[r].items THEN RatedOf(l) ELSE {}]])
    /\ Stroll

(* Mutants: a lawyer without contracts is missing from the map; count() of  *)
(* a column skips the rows where it is null.                                *)
CountsNoDefault(r) ==
    /\ At(r, Stats, "counts")
    /\ AfterStats(r, [got[r] EXCEPT !.counted =
         [l \in Users |-> IF ContractsOf(l) # {} THEN Cardinality(ContractsOf(l)) ELSE Null]])
    /\ Stroll

CountsOfRating(r) ==
    /\ At(r, Stats, "counts")
    /\ AfterStats(r, [got[r] EXCEPT !.counted =
         [l \in Users |-> IF l \in got[r].items THEN Cardinality(RatedOf(l)) ELSE 0]])
    /\ Stroll

(* ... and the number of contracts, two statements.                         *)
Counts(r) ==
    /\ At(r, Stats, "counts")
    /\ AfterStats(r, [got[r] EXCEPT !.counted =
         [l \in Users |-> IF l \in got[r].items THEN Cardinality(ContractsOf(l)) ELSE 0]])
    /\ Stroll

(* The contracts of a client; the dashboard then loads their lawyers, the   *)
(* demoted ones too.                                                        *)
ContractRows(r) ==
    LET mine == IF ask[r].op = "engaged" THEN ContractsOf(ask[r].id) ELSE ClientOf(ask[r].id)
        result == [got[r] EXCEPT !.mine = mine]
    IN  /\ At(r, {"engaged", "engaging", "dashboard"}, "contracts")
        /\ IF ask[r].op = "dashboard" /\ mine # {}
           THEN Go(r, "owners", result) ELSE Answer(r, "ok", result)
        /\ Stroll

(* Mutant: with the usual filter on deleted_at.                             *)
OwnerRowsPresent(r) ==
    /\ At(r, {"dashboard"}, "owners")
    /\ Answer(r, "ok", [got[r] EXCEPT !.owners =
         {u \in Lawyers : \E c \in got[r].mine : contracts[c].lawyer = u}])
    /\ Stroll

OwnerRows(r) ==
    /\ At(r, {"dashboard"}, "owners")
    /\ Answer(r, "ok", [got[r] EXCEPT !.owners =
         {u \in Users : profiles[u] # NoRow /\ \E c \in got[r].mine : contracts[c].lawyer = u}])
    /\ Stroll

(* 504, at any statement.                                                   *)
Timeout(r) ==
    /\ pc[r] \notin {"idle", "between", "done"}
    /\ Answer(r, "timeout", got[r])
    /\ Stroll

Read(r) ==
    \/ Begin(r) \/ NextPage(r)
    \/ CountUsers(r) \/ UserRows(r) \/ LawyerRows(r)
    \/ FindUser(r) \/ FindLawyer(r) \/ Ratings(r) \/ Counts(r)
    \/ ContractRows(r) \/ OwnerRows(r)
    \/ Timeout(r)

-----------------------------------------------------------------------------
(* Writers: what the other requests commit. *)

Commit ==
    /\ UNCHANGED <<pc, ask, page, got, reply, known>>
    /\ walk' = [r \in Readers |->
         IF ask[r] # Null /\ ask[r].op \in Paged
         THEN [walk[r] EXCEPT !.left = @ \cup (Listed(ask[r]) \ Listed(ask[r])')]
         ELSE walk[r]]

(* created_at and promoted_at are the start of the inserting transaction,   *)
(* which may be earlier than that of a row already committed, or the same.  *)
AddUser(u) ==
    /\ users[u] = NoRow
    /\ \E t \in Instants : users' = [users EXCEPT ![u] = t]
    /\ UNCHANGED <<profiles, contracts>>
    /\ Commit

Promote(u) ==
    /\ u \in Members /\ profiles[u] = NoRow
    /\ \E t \in Instants :
         profiles' = [profiles EXCEPT ![u] = [at |-> t, status |-> "active", deleted |-> FALSE]]
    /\ UNCHANGED <<users, contracts>>
    /\ Commit

(* An update or a second demotion under way when the profile is demoted     *)
(* writes its column all the same.                                          *)
Update(u) ==
    /\ profiles[u] # NoRow
    /\ \E s \in Status : profiles' = [profiles EXCEPT ![u].status = s]
    /\ UNCHANGED <<users, contracts>>
    /\ Commit

(* "inactive" is not written if the handler loaded it: the status is then   *)
(* what others have made of it.                                             *)
Demote(u) ==
    /\ profiles[u] # NoRow
    /\ \E s \in {"other", profiles[u].status} :
         profiles' = [profiles EXCEPT ![u].status = s, ![u].deleted = TRUE]
    /\ UNCHANGED <<users, contracts>>
    /\ Commit

(* The lawyer may have been demoted since the handler looked.               *)
Sign(c) ==
    /\ contracts[c] = NoRow
    /\ \E l \in Users : \E u \in Members \ {l} :
         /\ profiles[l] # NoRow
         /\ contracts' = [contracts EXCEPT ![c] = [lawyer |-> l, client |-> u, rated |-> FALSE]]
    /\ UNCHANGED <<users, profiles>>
    /\ Commit

(* A revision may set the rating, or set it to null.                        *)
Rate(c) ==
    /\ c \in Signed
    /\ \E b \in BOOLEAN : contracts' = [contracts EXCEPT ![c].rated = b]
    /\ UNCHANGED <<users, profiles>>
    /\ Commit

Write ==
    \/ \E u \in Users : AddUser(u) \/ Promote(u) \/ Update(u) \/ Demote(u)
    \/ \E c \in Contracts : Sign(c) \/ Rate(c)

Next == Write \/ \E r \in Readers : Read(r)

Spec == Init /\ [][Next]_vars

-----------------------------------------------------------------------------
(* Properties. *)

(* The statements have been executed, the answer is out.                    *)
Answered(r, ops) == reply[r] = "ok" /\ ask[r].op \in ops /\ pc[r] \in {"between", "done"}

(* A lawyer shown with an average rating is shown with the contracts it is  *)
(* the average of: no answer says "4.5 stars, 0 contracts", although the    *)
(* two numbers come from two statements and contracts are signed and rated  *)
(* between them.                                                            *)
RatedAreCounted ==
    \A r \in Readers : Answered(r, Stats)
        => \A l \in got[r].items : Cardinality(got[r].rated[l]) <= got[r].counted[l]

(* A page of users is as long as its own total promises, although the total *)
(* was counted in an earlier statement.                                     *)
PageNotShort ==
    \A r \in Readers : Answered(r, {"users"})
        => \/ Cardinality(got[r].items) >= ask[r].size
           \/ (page[r] - 1) * ask[r].size + Cardinality(got[r].items) >= got[r].total

Tied(a) == {u \in Listed(a) : \E v \in Listed(a) \ {u} : InstantOf(a, v) = InstantOf(a, u)}

(* A client that walks a listing to its first short page has met everybody  *)
(* who was listed when it began, although rows are inserted between the     *)
(* pages, with two exceptions.  Rows of one instant have no order of their  *)
(* own (users.py:61, lawyers.py:123 sort by the instant alone, which        *)
(* nothing makes unique, models.py:21 and :56): of those one page may       *)
(* repeat a row and the next leave one out.  And a lawyer who leaves the    *)
(* listing moves the others up past the client.                             *)
WalkFindsEveryone ==
    \A r \in Readers :
        /\ Answered(r, Paged) /\ pc[r] = "done"
        /\ ask[r].op = "users" \/ walk[r].left = {}
        => walk[r].since \ Tied(ask[r]) \subseteq walk[r].met

(* What was committed when a request arrived is in its answer: the total    *)
(* counts those users, the statistics those contracts, and the client's and *)
(* the lawyer's lists hold them.  So answers that follow each other never   *)
(* go back.                                                                 *)
NothingForgotten ==
    \A r \in Readers :
        /\ Answered(r, {"users"}) => got[r].total >= known[r].users
        /\ Answered(r, Stats) => \A l \in got[r].items :
             got[r].counted[l] >= Cardinality({c \in known[r].contracts : contracts[c].lawyer = l})
        /\ Answered(r, {"engaging", "dashboard"}) =>
             {c \in known[r].contracts : contracts[c].client = ask[r].id} \subseteq got[r].mine
        /\ Answered(r, {"engaged"}) =>
             {c \in known[r].contracts : contracts[c].lawyer = ask[r].id} \subseteq got[r].mine

(* The dashboard knows the lawyer of every contract it shows, demoted or    *)
(* not: it never falls back to the profile's uuid for the lawyer's user     *)
(* (services/profile.py:79).                                                *)
UsageNamesLawyer ==
    \A r \in Readers : Answered(r, {"dashboard"})
        => \A c \in got[r].mine : contracts[c].lawyer \in got[r].owners
=============================================================================
