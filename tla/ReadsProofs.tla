------------------------------ MODULE ReadsProofs ------------------------------
(***************************************************************************)
(* The invariants of the endpoints that read, for any tables, page sizes   *)
(* and readers.                                                            *)
(***************************************************************************)
EXTENDS Reads, FiniteSetTheorems, TLAPS

-----------------------------------------------------------------------------
(* Positions in a listing: a finite set ordered by f, and by t where f is   *)
(* the same.                                                                *)

Above(f, t, v, u) == f[v] > f[u] \/ (f[v] = f[u] /\ t[v] > t[u])

InFront(S, f, t, u) == {v \in S : Above(f, t, v, u)}

Position(S, f, t, u) == Cardinality(InFront(S, f, t, u))

Ordered(S, f, t) ==
    /\ IsFiniteSet(S)
    /\ f \in [S -> Nat] /\ t \in [S -> Nat]
    /\ \A u, v \in S : t[u] = t[v] => u = v

LEMMA PositionRange ==
    ASSUME NEW S, NEW f, NEW t, Ordered(S, f, t), NEW u \in S
    PROVE  /\ Position(S, f, t, u) \in Nat
           /\ Cardinality(S) \in Nat
           /\ Position(S, f, t, u) < Cardinality(S)
<1>1. InFront(S, f, t, u) \in SUBSET S /\ u \notin InFront(S, f, t, u)
  BY DEF InFront, Above, Ordered
<1>2. /\ IsFiniteSet(InFront(S, f, t, u))
      /\ Cardinality(InFront(S, f, t, u)) <= Cardinality(S)
      /\ Cardinality(S) = Cardinality(InFront(S, f, t, u)) => S = InFront(S, f, t, u)
  BY <1>1, FS_Subset DEF Ordered
<1>3. Cardinality(InFront(S, f, t, u)) \in Nat /\ Cardinality(S) \in Nat
  BY <1>2, FS_CardinalityType DEF Ordered
<1> QED BY <1>1, <1>2, <1>3 DEF Position

LEMMA PositionOrder ==
    ASSUME NEW S, NEW f, NEW t, Ordered(S, f, t), NEW u \in S, NEW v \in S, Above(f, t, u, v)
    PROVE  Position(S, f, t, u) < Position(S, f, t, v)
<1>1. InFront(S, f, t, u) \in SUBSET InFront(S, f, t, v) /\ u \in InFront(S, f, t, v) /\ u \notin InFront(S, f, t, u)
  BY DEF InFront, Above, Ordered
<1>2. InFront(S, f, t, v) \in SUBSET S
  BY DEF InFront, Above
<1>3. IsFiniteSet(InFront(S, f, t, v))
  BY <1>2, FS_Subset DEF Ordered
<1>4. /\ Cardinality(InFront(S, f, t, u)) <= Cardinality(InFront(S, f, t, v))
      /\ Cardinality(InFront(S, f, t, v)) = Cardinality(InFront(S, f, t, u))
           => InFront(S, f, t, v) = InFront(S, f, t, u)
  BY <1>1, <1>3, FS_Subset
<1>5. Position(S, f, t, u) \in Nat /\ Position(S, f, t, v) \in Nat
  BY PositionRange
<1> QED BY <1>1, <1>4, <1>5 DEF Position

(* No position is left out.                                                 *)
LEMMA PositionsFilled ==
    ASSUME NEW S, NEW f, NEW t, Ordered(S, f, t), NEW i \in Nat, i < Cardinality(S)
    PROVE  \E u \in S : Position(S, f, t, u) = i
<1> DEFINE n == Cardinality(S)
           T == 0 .. n - 1
           g == [u \in S |-> Position(S, f, t, u)]
<1>1. n \in Nat /\ IsFiniteSet(S)
  BY FS_CardinalityType DEF Ordered
<1>2. g \in [S -> T]
  BY <1>1, PositionRange
<1>3. ASSUME NEW u \in S, NEW v \in S, g[u] = g[v]
      PROVE  u = v
  <2>1. f[u] \in Nat /\ f[v] \in Nat /\ t[u] \in Nat /\ t[v] \in Nat
    BY DEF Ordered
  <2>2. ~Above(f, t, u, v) /\ ~Above(f, t, v, u)
    BY <1>3, PositionOrder, PositionRange
  <2> QED BY <2>1, <2>2 DEF Ordered, Above
<1>4. g \in Injection(S, T)
  BY <1>2, <1>3 DEF Injection, IsInjective
<1>5. IsFiniteSet(T) /\ Cardinality(T) = n
  <2> HIDE DEF n
  <2>1. 0 \in Int /\ n - 1 \in Int
    BY <1>1
  <2>2. IsFiniteSet(T) /\ Cardinality(T) = IF 0 > n - 1 THEN 0 ELSE n - 1 - 0 + 1
    BY <2>1, FS_Interval
  <2> QED BY <1>1, <2>2
<1>6. g \in Surjection(S, T)
  <2> HIDE DEF g, T, n
  <2> QED BY <1>4, <1>5, FS_Injection DEF n
<1>7. i \in T
  BY <1>1
<1> QED BY <1>6, <1>7 DEF Surjection

(* A page from position k on.                                               *)
Slice(S, f, t, k, s) == {u \in S : Position(S, f, t, u) \in k .. k + s - 1}

LEMMA SliceHolds ==
    ASSUME NEW S, NEW f, NEW t, Ordered(S, f, t), NEW k \in Nat, NEW s \in Nat,
           NEW m \in Nat, m <= s, k + m <= Cardinality(S)
    PROVE  /\ IsFiniteSet(Slice(S, f, t, k, s)) /\ Cardinality(Slice(S, f, t, k, s)) \in Nat
           /\ m <= Cardinality(Slice(S, f, t, k, s))
<1> DEFINE P == Slice(S, f, t, k, s)
           I == k .. k + m - 1
           g == [i \in I |-> CHOOSE u \in S : Position(S, f, t, u) = i]
<1>1. P \in SUBSET S
  BY DEF Slice
<1>2. IsFiniteSet(P)
  BY <1>1, FS_Subset DEF Ordered
<1>3. Cardinality(P) \in Nat /\ Cardinality(S) \in Nat
  BY <1>2, FS_CardinalityType DEF Ordered
<1>4. ASSUME NEW i \in I
      PROVE  g[i] \in S /\ Position(S, f, t, g[i]) = i
  <2>1. i \in Nat /\ i < Cardinality(S)
    BY <1>3
  <2>2. \E u \in S : Position(S, f, t, u) = i
    BY <2>1, PositionsFilled
  <2> QED BY <2>2
<1>5. g \in [I -> P]
  BY <1>4 DEF Slice
<1>6. g \in Injection(I, P)
  BY <1>4, <1>5 DEF Injection, IsInjective
<1>7. Cardinality(I) = m
  <2>1. k \in Int /\ k + m - 1 \in Int
    OBVIOUS
  <2> QED BY <2>1, FS_Interval
<1>8. Cardinality(I) <= Cardinality(P)
  <2> HIDE DEF g, I, P
  <2> QED BY <1>2, <1>6, FS_Injection
<1> QED BY <1>2, <1>3, <1>7, <1>8

(* A slice that is not full is the last: nobody stands behind it.           *)
LEMMA SliceFacts ==
    ASSUME NEW S, NEW f, NEW t, Ordered(S, f, t), NEW k \in Nat, NEW s \in Nat
    PROVE  /\ IsFiniteSet(Slice(S, f, t, k, s)) /\ Cardinality(Slice(S, f, t, k, s)) \in Nat
           /\ Cardinality(S) \in Nat
           /\ Cardinality(Slice(S, f, t, k, s)) < s =>
                /\ k + Cardinality(Slice(S, f, t, k, s)) >= Cardinality(S)
                /\ \A u \in S : Position(S, f, t, u) < k + s
<1> DEFINE c == Cardinality(Slice(S, f, t, k, s))
           n == Cardinality(S)
<1>1. n \in Nat
  BY FS_CardinalityType DEF Ordered
<1>2. Slice(S, f, t, k, s) \in SUBSET S
  BY DEF Slice
<1>3. IsFiniteSet(Slice(S, f, t, k, s)) /\ c \in Nat
  BY <1>2, FS_Subset, FS_CardinalityType DEF Ordered
<1>4. \A m \in Nat : m <= s /\ k + m <= n => m <= c
  BY SliceHolds
<1> HIDE DEF c, n
<1>5. ASSUME c < s
      PROVE  k + c >= n /\ n <= k + s
  <2>1. CASE n >= k + s
    BY <1>1, <1>3, <1>4, <1>5, <2>1
  <2>2. CASE n < k + s /\ n >= k
    <3>1. n - k \in Nat /\ n - k <= s /\ k + (n - k) <= n
      BY <1>1, <2>2
    <3>2. n - k <= c
      BY <1>4, <3>1
    <3> QED BY <1>1, <1>3, <2>2, <3>2
  <2>3. CASE n < k
    BY <1>1, <1>3, <2>3
  <2> QED BY <1>1, <2>1, <2>2, <2>3
<1>6. \A u \in S : Position(S, f, t, u) \in Nat /\ Position(S, f, t, u) < n
  BY PositionRange DEF n
<1> QED BY <1>1, <1>3, <1>5, <1>6 DEF c, n

-----------------------------------------------------------------------------
(* The tables, and what the readers know of them. *)

(* A contract's lawyer has a profile.                                       *)
LawyersKnown == \A c \in Signed : profiles[contracts[c].lawyer] # NoRow

(* What was there on arrival, and what was read, is there.                  *)
Arrived(r) ==
    /\ known[r].contracts \subseteq Signed
    /\ known[r].users <= Cardinality(Members)
    /\ \A l \in Users : got[r].rated[l] \subseteq ContractsOf(l)
    /\ got[r].mine \subseteq Signed

KnownOf(r, l) == {c \in known[r].contracts : contracts[c].lawyer = l}

KnownBy(r, u) == {c \in known[r].contracts : contracts[c].client = u}

Counted(r) ==
    /\ ask[r].op \in Stats
    /\ pc[r] \in {"contracts", "owners"} \/ (pc[r] \in {"between", "done"} /\ reply[r] = "ok")
    => \A l \in got[r].items :
         /\ Cardinality(got[r].rated[l]) <= got[r].counted[l]
         /\ Cardinality(KnownOf(r, l)) <= got[r].counted[l]

Totalled(r) ==
    ask[r].op = "users"
    => /\ pc[r] = "rows" => got[r].total <= Cardinality(Members)
       /\ pc[r] = "rows" \/ (pc[r] \in {"between", "done"} /\ reply[r] = "ok")
            => known[r].users <= got[r].total
       /\ pc[r] \in {"between", "done"} /\ reply[r] = "ok"
            => \/ Cardinality(got[r].items) >= ask[r].size
               \/ (page[r] - 1) * ask[r].size + Cardinality(got[r].items) >= got[r].total

Collected(r) ==
    /\ /\ ask[r].op \in {"engaging", "dashboard"}
       /\ pc[r] = "owners" \/ (pc[r] = "done" /\ reply[r] = "ok")
       => KnownBy(r, ask[r].id) \subseteq got[r].mine
    /\ ask[r].op = "engaged" /\ pc[r] = "done" /\ reply[r] = "ok"
       => KnownOf(r, ask[r].id) \subseteq got[r].mine
    /\ ask[r].op = "dashboard" /\ pc[r] = "done" /\ reply[r] = "ok"
       => \A c \in got[r].mine : contracts[c].lawyer \in got[r].owners

(* Where a walk stands: whoever it has to meet was met, or stands behind    *)
(* the pages it has read, or shares an instant with another row.            *)
Before(a, u) == {v \in Listed(a) : InstantOf(a, v) > InstantOf(a, u)}

Rank(a, u) == Cardinality(Before(a, u))

Behind(r, a, k) ==
    \A u \in walk[r].since :
        u \in Listed(a) /\ (u \in walk[r].met \cup Tied(a) \/ Rank(a, u) >= k * a.size)

Walking(r) ==
    \A a \in Ask :
        a = ask[r] /\ a.op \in Paged /\ (a.op = "users" \/ walk[r].left = {})
        => /\ pc[r] \in {"count", "rows"} => Behind(r, a, page[r] - 1)
           /\ pc[r] \in {"ratings", "counts", "between"} => Behind(r, a, page[r])
           /\ pc[r] \in {"ratings", "counts"} /\ Cardinality(got[r].items) < a.size
                => walk[r].since \ Tied(a) \subseteq walk[r].met
           /\ pc[r] = "done" /\ reply[r] = "ok" => walk[r].since \ Tied(a) \subseteq walk[r].met

(* Only a client of pages is between two requests.                          *)
Turned(r) == pc[r] = "between" => ask[r].op \in Paged

Informed(r) ==
    Arrived(r) /\ Counted(r) /\ Totalled(r) /\ Collected(r) /\ Walking(r) /\ Turned(r)

IInv ==
    /\ TypeOK
    /\ LawyersKnown
    /\ \A r \in Readers : Informed(r)

-----------------------------------------------------------------------------
(* Requests and listings. *)

LEMMA AskFields ==
    ASSUME NEW a \in Ask
    PROVE  /\ a.op \in {"users", "lawyers", "user", "lawyer", "engaged", "engaging", "dashboard"}
           /\ a.size \in Nat /\ a.size > 0
           /\ a.op \notin Paged => a.id \in Users
<1>1. \A z \in Sizes : z \in Nat /\ z > 0
  BY ReadsAssumption
<1>2. CASE a \in Request({"users"}, {Null}, Sizes, {TRUE})
  <2>1. a.op = "users" /\ a.size \in Sizes
    BY <1>2 DEF Request
  <2> QED BY <1>1, <2>1 DEF Paged
<1>3. CASE a \in Request({"lawyers"}, {Null}, Sizes, BOOLEAN)
  <2>1. a.op = "lawyers" /\ a.size \in Sizes
    BY <1>3 DEF Request
  <2> QED BY <1>1, <2>1 DEF Paged
<1>4. CASE a \in Request({"user", "lawyer", "engaged", "engaging", "dashboard"}, Users, {1}, {TRUE})
  <2>1. /\ a.op \in {"user", "lawyer", "engaged", "engaging", "dashboard"}
        /\ a.id \in Users /\ a.size = 1
    BY <1>4 DEF Request
  <2>2. a.size \in Nat /\ a.size > 0
    BY <2>1
  <2> QED BY <2>1, <2>2
<1> QED BY <1>2, <1>3, <1>4 DEF Ask

LEMMA SubsetsCount ==
    ASSUME TypeOK
    PROVE  /\ \A U : U \subseteq Users => IsFiniteSet(U) /\ Cardinality(U) \in Nat
           /\ \A C : C \subseteq Contracts => IsFiniteSet(C) /\ Cardinality(C) \in Nat
           /\ \A D, C : C \subseteq Contracts /\ D \subseteq C
                => Cardinality(D) <= Cardinality(C)
           /\ \A V, U : U \subseteq Users /\ V \subseteq U
                => Cardinality(V) <= Cardinality(U)
<1>1. IsFiniteSet(Users) /\ IsFiniteSet(Contracts)
  BY ReadsAssumption
<1> QED BY <1>1, FS_Subset, FS_CardinalityType

(* The instants of a listing.                                               *)
InstantsOf(a) == [u \in Listed(a) |-> InstantOf(a, u)]

TiesOf(a, tie) == [u \in Listed(a) |-> tie[u]]

LEMMA ListedOrdered ==
    ASSUME TypeOK, NEW a \in Ask, a.op \in Paged, NEW tie \in TieBreaks
    PROVE  /\ Listed(a) \subseteq Users
           /\ Ordered(Listed(a), InstantsOf(a), TiesOf(a, tie))
<1>1. a.op = "users" \/ a.op = "lawyers"
  BY DEF Paged
<1>2. Listed(a) \subseteq Users
  BY DEF Listed, Members, Lawyers
<1>3. ASSUME NEW u \in Listed(a)
      PROVE  InstantOf(a, u) \in Nat
  BY <1>1, <1>3, ReadsAssumption
  DEF TypeOK, InstantOf, Listed, Members, Lawyers, Profile
<1>4. ASSUME NEW u \in Listed(a)
      PROVE  tie[u] \in Nat /\ \A v \in Listed(a) : tie[u] = tie[v] => u = v
  <2>1. tie \in [Users -> 1 .. Cardinality(Users)] /\ IsInjective(tie)
    BY DEF TieBreaks, Injection
  <2>2. Cardinality(Users) \in Nat
    BY SubsetsCount
  <2> QED BY <1>2, <2>1, <2>2 DEF IsInjective
<1>5. IsFiniteSet(Listed(a))
  BY <1>2, SubsetsCount
<1> QED BY <1>2, <1>3, <1>4, <1>5 DEF Ordered, InstantsOf, TiesOf

(* A row that shares its instant with none has its place whatever the order *)
(* of the others.                                                           *)
LEMMA UntiedAhead ==
    ASSUME NEW a, NEW tie, NEW u \in Listed(a) \ Tied(a), tie[u] \in Nat
    PROVE  Ahead(a, u, tie) = Before(a, u)
<1>1. \A v \in Listed(a) : InstantOf(a, v) = InstantOf(a, u) => v = u
  BY DEF Tied
<1>2. ~(tie[u] > tie[u])
  OBVIOUS
<1> QED BY <1>1, <1>2 DEF Ahead, Before

LEMMA RankType ==
    ASSUME TypeOK, NEW a, NEW u
    PROVE  Rank(a, u) \in Nat
<1>1. Before(a, u) \subseteq Users
  BY DEF Before, Listed, Members, Lawyers
<1> QED BY <1>1, SubsetsCount DEF Rank

(* A page is a slice of its listing.                                        *)
LEMMA PageFacts ==
    ASSUME TypeOK, NEW a \in Ask, a.op \in Paged, NEW p \in Nat \ {0}, NEW tie \in TieBreaks
    PROVE  /\ Page(a, p, tie) \subseteq Listed(a)
           /\ Cardinality(Page(a, p, tie)) \in Nat
           /\ \A u \in Listed(a) \ Tied(a) :
                Rank(a, u) >= (p - 1) * a.size /\ u \notin Page(a, p, tie)
                   => Rank(a, u) >= p * a.size
           /\ Cardinality(Page(a, p, tie)) < a.size =>
                /\ (p - 1) * a.size + Cardinality(Page(a, p, tie)) >= Cardinality(Listed(a))
                /\ \A u \in Listed(a) \ Tied(a) : Rank(a, u) < p * a.size
<1> DEFINE S == Listed(a)
           f == InstantsOf(a)
           t == TiesOf(a, tie)
           k == (p - 1) * a.size
           s == a.size
           rows == Page(a, p, tie)
<1>1. Ordered(S, f, t)
  BY ListedOrdered
<1>2. \A u \in S : InFront(S, f, t, u) = Ahead(a, u, tie)
  BY DEF InFront, Above, Ahead, InstantsOf, TiesOf
<1>3. \A u \in S \ Tied(a) : Position(S, f, t, u) = Rank(a, u)
  <2>1. \A u \in S : tie[u] \in Nat
    BY <1>1 DEF Ordered, TiesOf
  <2> QED BY <1>2, <2>1, UntiedAhead DEF Position, Rank
<1>4. s \in Nat /\ k \in Nat /\ p * a.size = k + s
  BY AskFields
<1>5. rows = Slice(S, f, t, k, s)
  BY <1>2, <1>4 DEF Page, Slice, Position
<1>6. \A u \in S : Rank(a, u) \in Nat
  BY RankType
<1> HIDE DEF k, s, S, f, t, rows
<1>7. /\ Cardinality(rows) \in Nat
      /\ Cardinality(rows) < s =>
           /\ k + Cardinality(rows) >= Cardinality(S)
           /\ \A u \in S \ Tied(a) : Rank(a, u) < k + s
  BY <1>1, <1>3, <1>4, <1>5, SliceFacts
<1>8. \A u \in S \ Tied(a) : Rank(a, u) >= k /\ u \notin rows => Rank(a, u) >= k + s
  BY <1>3, <1>4, <1>5, <1>6 DEF Slice
<1> QED BY <1>4, <1>5, <1>6, <1>7, <1>8 DEF k, s, S, Slice, rows

-----------------------------------------------------------------------------
(* Writers: rows stay, with their instant, lawyer and client. *)

Grown ==
    /\ users' \in [Users -> Instants \cup {NoRow}]
    /\ profiles' \in [Users -> Profile \cup {NoRow}]
    /\ contracts' \in [Contracts -> ContractRow \cup {NoRow}]
    /\ LawyersKnown'
    /\ \A u \in Members : u \in Members' /\ users'[u] = users[u]
    /\ \A u \in Users : profiles[u] # NoRow
         => profiles'[u] # NoRow /\ profiles'[u].at = profiles[u].at
    /\ \A c \in Signed :
         /\ c \in Signed'
         /\ contracts'[c].lawyer = contracts[c].lawyer
         /\ contracts'[c].client = contracts[c].client

LEMMA AddUserGrows ==
    ASSUME TypeOK, LawyersKnown, NEW u \in Users, AddUser(u)
    PROVE  Grown /\ Commit
<1>1. PICK t \in Instants : users' = [users EXCEPT ![u] = t]
  BY DEF AddUser
<1>2. /\ users[u] = NoRow /\ Commit
      /\ profiles' = profiles /\ contracts' = contracts
      /\ t # NoRow /\ users \in [Users -> Instants \cup {NoRow}]
  BY NoRowAssumption DEF AddUser, TypeOK
<1>3. /\ Members' = Members \cup {u} /\ u \notin Members /\ users'[u] = t
      /\ \A v \in Members : users'[v] = users[v]
  BY <1>1, <1>2 DEF Members
<1>4. LawyersKnown'
  BY <1>1, <1>2, <1>3 DEF LawyersKnown, Signed
<1>5. users' \in [Users -> Instants \cup {NoRow}]
  BY <1>1, <1>2
<1> QED BY <1>2, <1>3, <1>4, <1>5 DEF Grown, TypeOK, Signed

LEMMA PromoteGrows ==
    ASSUME TypeOK, LawyersKnown, NEW u \in Users, Promote(u)
    PROVE  Grown /\ Commit
<1>1. PICK t \in Instants :
         profiles' = [profiles EXCEPT ![u] = [at |-> t, status |-> "active", deleted |-> FALSE]]
  BY DEF Promote
<1>2. /\ profiles[u] = NoRow /\ Commit
      /\ users' = users /\ contracts' = contracts
      /\ profiles \in [Users -> Profile \cup {NoRow}]
  BY DEF Promote, TypeOK
<1> DEFINE row == [at |-> t, status |-> "active", deleted |-> FALSE]
<1>3. row \in Profile /\ row.at = t
  BY DEF Profile, Status
<1>4. row # NoRow /\ profiles' = [profiles EXCEPT ![u] = row]
  BY <1>1, <1>3, NoRowAssumption
<1> HIDE DEF row
<1>5. /\ \A v \in Users \ {u} : profiles'[v] = profiles[v]
      /\ profiles'[u] \in Profile /\ profiles'[u] # NoRow /\ profiles'[u].at = t
  BY <1>2, <1>3, <1>4
<1>6. profiles' \in [Users -> Profile \cup {NoRow}]
  BY <1>2, <1>3, <1>4
<1>7. LawyersKnown'
  BY <1>1, <1>2, <1>5 DEF LawyersKnown, Signed, Members, TypeOK, ContractRow
<1> QED BY <1>2, <1>5, <1>6, <1>7 DEF Grown, TypeOK, Signed, Members

LEMMA ProfileGrows ==
    ASSUME TypeOK, LawyersKnown, NEW u \in Users, profiles[u] # NoRow,
           NEW row \in Profile, row.at = profiles[u].at,
           profiles' = [profiles EXCEPT ![u] = row],
           UNCHANGED <<users, contracts>>
    PROVE  Grown
<1>1. profiles \in [Users -> Profile \cup {NoRow}] /\ row # NoRow
  BY NoRowAssumption DEF TypeOK
<1>2. \A v \in Users :
         /\ profiles[v] # NoRow <=> profiles'[v] # NoRow
         /\ profiles[v] # NoRow => profiles'[v].at = profiles[v].at
  BY <1>1
<1>3. LawyersKnown'
  BY <1>2 DEF LawyersKnown, Signed, Members, TypeOK, ContractRow
<1> QED BY <1>1, <1>2, <1>3 DEF Grown, TypeOK, Signed, Members

LEMMA UpdateGrows ==
    ASSUME TypeOK, LawyersKnown, NEW u \in Users, Update(u) \/ Demote(u)
    PROVE  Grown /\ Commit
<1>1. /\ profiles[u] \in Profile /\ profiles[u] # NoRow /\ Commit
      /\ UNCHANGED <<users, contracts>>
      /\ profiles \in [Users -> Profile \cup {NoRow}]
  BY DEF Update, Demote, TypeOK
<1>2. CASE Update(u)
  <2>1. PICK s \in Status : profiles' = [profiles EXCEPT ![u].status = s]
    BY <1>2 DEF Update
  <2> DEFINE row == [profiles[u] EXCEPT !.status = s]
  <2>2. row \in Profile /\ row.at = profiles[u].at
    BY <1>1 DEF Profile
  <2>3. profiles' = [profiles EXCEPT ![u] = row]
    BY <2>1
  <2> HIDE DEF row
  <2> QED BY <1>1, <2>2, <2>3, ProfileGrows
<1>3. CASE Demote(u)
  <2>1. PICK s \in {"other", profiles[u].status} :
          profiles' = [profiles EXCEPT ![u].status = s, ![u].deleted = TRUE]
    BY <1>3 DEF Demote
  <2> DEFINE row == [profiles[u] EXCEPT !.status = s, !.deleted = TRUE]
  <2>2. row \in Profile /\ row.at = profiles[u].at
    BY <1>1 DEF Profile, Status
  <2>3. profiles' = [profiles EXCEPT ![u] = row]
    BY <1>1, <2>1
  <2> HIDE DEF row
  <2> QED BY <1>1, <2>2, <2>3, ProfileGrows
<1> QED BY <1>2, <1>3

LEMMA SignGrows ==
    ASSUME TypeOK, LawyersKnown, NEW c \in Contracts, Sign(c)
    PROVE  Grown /\ Commit
<1>1. PICK l \in Users, u \in Members :
         /\ profiles[l] # NoRow
         /\ contracts' = [contracts EXCEPT ![c] = [lawyer |-> l, client |-> u, rated |-> FALSE]]
  BY DEF Sign
<1>2. /\ contracts[c] = NoRow /\ Commit
      /\ users' = users /\ profiles' = profiles
      /\ contracts \in [Contracts -> ContractRow \cup {NoRow}]
  BY DEF Sign, TypeOK
<1> DEFINE row == [lawyer |-> l, client |-> u, rated |-> FALSE]
<1>3. row \in ContractRow /\ row.lawyer = l
  BY DEF ContractRow, Members
<1>4. row # NoRow /\ contracts' = [contracts EXCEPT ![c] = row]
  BY <1>1, <1>3, NoRowAssumption
<1> HIDE DEF row
<1>5. /\ contracts'[c] \in ContractRow /\ contracts'[c] # NoRow /\ contracts'[c].lawyer = l
      /\ \A d \in Contracts \ {c} : contracts'[d] = contracts[d]
  BY <1>2, <1>3, <1>4
<1>6. LawyersKnown'
  BY <1>1, <1>2, <1>5 DEF LawyersKnown, Signed, Members
<1>7. contracts' \in [Contracts -> ContractRow \cup {NoRow}]
  BY <1>2, <1>3, <1>4
<1> QED BY <1>2, <1>5, <1>6, <1>7 DEF Grown, TypeOK, Signed, Members

LEMMA RateGrows ==
    ASSUME TypeOK, LawyersKnown, NEW c \in Contracts, Rate(c)
    PROVE  Grown /\ Commit
<1>1. PICK b \in BOOLEAN : contracts' = [contracts EXCEPT ![c].rated = b]
  BY DEF Rate
<1>2. /\ contracts[c] \in ContractRow /\ c \in Signed /\ Commit
      /\ users' = users /\ profiles' = profiles
      /\ contracts \in [Contracts -> ContractRow \cup {NoRow}]
  BY DEF Rate, TypeOK, Signed
<1>3. /\ contracts'[c] \in ContractRow /\ contracts'[c] # NoRow
      /\ contracts'[c].lawyer = contracts[c].lawyer
      /\ contracts'[c].client = contracts[c].client
      /\ \A d \in Contracts \ {c} : contracts'[d] = contracts[d]
  BY <1>1, <1>2, NoRowAssumption DEF ContractRow
<1>4. Signed' = Signed
  BY <1>1, <1>2, <1>3 DEF Signed
<1>5. LawyersKnown'
  BY <1>2, <1>3, <1>4 DEF LawyersKnown, Signed, Members
<1>6. contracts' \in [Contracts -> ContractRow \cup {NoRow}]
  BY <1>1, <1>2, <1>3
<1> QED BY <1>2, <1>3, <1>4, <1>5, <1>6 DEF Grown, TypeOK, Signed, Members

-----------------------------------------------------------------------------
(* A commit of a writer keeps what the readers know. *)

(* As long as nobody leaves a listing, nobody moves up in it.               *)
LEMMA NobodyMovesUp ==
    ASSUME TypeOK, Grown, NEW a \in Ask, a.op \in Paged,
           Listed(a) \subseteq Listed(a)', NEW u \in Listed(a)
    PROVE  /\ Rank(a, u) <= Rank(a, u)' /\ Rank(a, u) \in Nat /\ Rank(a, u)' \in Nat
           /\ u \in Tied(a) => u \in Tied(a)'
<1>1. a.op = "users" \/ a.op = "lawyers"
  BY DEF Paged
<1>2. \A v \in Listed(a) : InstantOf(a, v)' = InstantOf(a, v)
  BY <1>1 DEF InstantOf, Listed, Members, Lawyers, Grown
<1>3. Before(a, u) \subseteq Before(a, u)'
  BY <1>2 DEF Before
<1>4. Before(a, u) \subseteq Users /\ Before(a, u)' \subseteq Users
  BY DEF Before, Listed, Members, Lawyers
<1>5. u \in Tied(a) => u \in Tied(a)'
  BY <1>2 DEF Tied
<1> QED BY <1>3, <1>4, <1>5, SubsetsCount DEF Rank

LEMMA UsersStay ==
    ASSUME Grown, NEW a \in Ask, a.op = "users"
    PROVE  Listed(a) \subseteq Listed(a)'
BY DEF Grown, Listed

(* The writers' part of a step.                                             *)
LEMMA CommitFrame ==
    ASSUME TypeOK, Commit
    PROVE  /\ UNCHANGED <<pc, ask, page, got, reply, known>>
           /\ walk' \in [Readers -> [since : SUBSET Users, met : SUBSET Users, left : SUBSET Users]]
           /\ \A r \in Readers :
                /\ walk'[r].since = walk[r].since /\ walk'[r].met = walk[r].met
                /\ walk[r].left \subseteq walk'[r].left
                /\ ask[r] # Null /\ ask[r].op \in Paged
                   => (Listed(ask[r]) \ Listed(ask[r])') \subseteq walk'[r].left
<1>1. /\ UNCHANGED <<pc, ask, page, got, reply, known>>
      /\ walk' = [r \in Readers |->
           IF ask[r] # Null /\ ask[r].op \in Paged
           THEN [walk[r] EXCEPT !.left = @ \cup (Listed(ask[r]) \ Listed(ask[r])')]
           ELSE walk[r]]
  BY DEF Commit
<1>2. ASSUME NEW r \in Readers
      PROVE  /\ walk[r] \in [since : SUBSET Users, met : SUBSET Users, left : SUBSET Users]
             /\ Listed(ask[r]) \subseteq Users
  BY DEF TypeOK, Listed, Members, Lawyers
<1> QED BY <1>1, <1>2

LEMMA WriteKeeps ==
    ASSUME IInv, Grown, Commit
    PROVE  IInv'
<1>1. /\ TypeOK /\ UNCHANGED <<pc, ask, page, got, reply, known>>
      /\ walk' \in [Readers -> [since : SUBSET Users, met : SUBSET Users, left : SUBSET Users]]
  BY CommitFrame DEF IInv
<1>2. TypeOK'
  BY <1>1 DEF TypeOK, Grown
<1>3. Members \subseteq Members' /\ Members' \subseteq Users /\ Members \subseteq Users
  BY DEF Grown, Members
<1>4. /\ Cardinality(Members) <= Cardinality(Members') /\ Cardinality(Members) \in Nat
      /\ Cardinality(Members') \in Nat
  BY <1>1, <1>3, SubsetsCount
<1>5. ASSUME NEW r \in Readers
      PROVE  Informed(r)'
  <2>1. Informed(r)
    BY DEF IInv
  <2>2. Arrived(r)'
    <3>1. \A l \in Users : ContractsOf(l) \subseteq ContractsOf(l)'
      BY DEF ContractsOf, Grown, Signed
    <3>2. known[r].users \in Nat
      BY <1>1 DEF TypeOK
    <3>3. Signed \subseteq Signed'
      BY DEF Grown
    <3> QED BY <1>1, <1>4, <2>1, <3>1, <3>2, <3>3 DEF Informed, Arrived
  <2>3. /\ \A l : KnownOf(r, l)' = KnownOf(r, l)
        /\ \A u : KnownBy(r, u)' = KnownBy(r, u)
    BY <1>1, <2>1 DEF Informed, Arrived, KnownOf, KnownBy, Grown
  <2>4. Counted(r)'
    BY <1>1, <2>1, <2>3 DEF Informed, Counted, KnownOf
  <2>5. Totalled(r)'
    <3>1. got[r].total \in Nat
      BY <1>1 DEF TypeOK, Result
    <3> QED BY <1>1, <1>4, <2>1, <3>1 DEF Informed, Totalled
  <2>6. Collected(r)'
    <3>1. \A c \in got[r].mine : contracts'[c].lawyer = contracts[c].lawyer
      BY <2>1 DEF Informed, Arrived, Grown
    <3>2. KnownBy(r, ask[r].id)' = KnownBy(r, ask[r].id)
      BY <1>1, <2>1 DEF Informed, Arrived, KnownBy, Grown
    <3>3. KnownOf(r, ask[r].id)' = KnownOf(r, ask[r].id)
      BY <1>1, <2>1 DEF Informed, Arrived, KnownOf, Grown
    <3> QED BY <1>1, <2>1, <3>1, <3>2, <3>3 DEF Informed, Collected
  <2>7. Walking(r)'
    <3> SUFFICES ASSUME NEW a \in Ask, a = ask[r], a.op \in Paged,
                        a.op = "users" \/ walk'[r].left = {}
                 PROVE  /\ pc[r] \in {"count", "rows"} => Behind(r, a, page[r] - 1)'
                        /\ pc[r] \in {"ratings", "counts", "between"} => Behind(r, a, page[r])'
                        /\ pc[r] \in {"ratings", "counts"} /\ Cardinality(got[r].items) < a.size
                             => walk'[r].since \ Tied(a)' \subseteq walk'[r].met
                        /\ pc[r] = "done" /\ reply[r] = "ok" => walk'[r].since \ Tied(a)' \subseteq walk'[r].met
      BY <1>1 DEF Walking
    <3>1. /\ walk'[r].since = walk[r].since /\ walk'[r].met = walk[r].met
          /\ a.op = "users" \/ walk[r].left = {}
      BY <1>1, CommitFrame
    <3>2. Listed(a) \subseteq Listed(a)'
      <4>1. CASE a.op = "users"
        BY <4>1, UsersStay
      <4>2. CASE a.op # "users"
        <5>1. ask[r] # Null /\ (Listed(ask[r]) \ Listed(ask[r])') \subseteq walk'[r].left
          BY <1>1, NullAssumption, CommitFrame
        <5>2. Listed(ask[r])' = Listed(a)'
          BY <1>1 DEF Listed
        <5> QED BY <4>2, <5>1, <5>2
      <4> QED BY <4>1, <4>2
    <3>3. \A u \in Listed(a) :
             /\ Rank(a, u) <= Rank(a, u)' /\ Rank(a, u) \in Nat /\ Rank(a, u)' \in Nat
             /\ u \in Tied(a) => u \in Tied(a)'
      BY <1>1, <3>2, NobodyMovesUp
    <3>4. page[r] * a.size \in Nat /\ (page[r] - 1) * a.size \in Nat
      <4>1. page[r] \in Nat /\ page[r] - 1 \in Nat
        BY <1>1 DEF TypeOK
      <4>2. a.size \in Nat
        BY AskFields
      <4> QED BY <4>1, <4>2
    <3>5. Walking(r)
      BY <2>1 DEF Informed
    <3>6. ASSUME NEW k, k * a.size \in Nat, Behind(r, a, k)
          PROVE  \A u \in walk'[r].since :
                   /\ u \in Listed(a)'
                   /\ u \in walk'[r].met \cup Tied(a)' \/ Rank(a, u)' >= k * a.size
      BY <3>1, <3>2, <3>3, <3>6 DEF Behind
    <3>7. pc[r] \in {"count", "rows"} => Behind(r, a, page[r] - 1)'
      BY <1>1, <3>1, <3>4, <3>5, <3>6 DEF Walking, Behind
    <3>8. pc[r] \in {"ratings", "counts", "between"} => Behind(r, a, page[r])'
      BY <1>1, <3>1, <3>4, <3>5, <3>6 DEF Walking, Behind
    <3>9. Tied(a) \subseteq Tied(a)'
      BY <3>3 DEF Tied
    <3> QED BY <3>1, <3>5, <3>7, <3>8, <3>9 DEF Walking
  <2>8. Turned(r)'
    BY <1>1, <2>1 DEF Informed, Turned
  <2> QED BY <2>2, <2>4, <2>5, <2>6, <2>7, <2>8 DEF Informed
<1> QED BY <1>2, <1>5 DEF IInv, Grown

LEMMA WritesKeep ==
    ASSUME IInv, Write
    PROVE  IInv'
<1>1. TypeOK /\ LawyersKnown
  BY DEF IInv
<1>2. Grown /\ Commit
  BY <1>1, AddUserGrows, PromoteGrows, UpdateGrows, SignGrows, RateGrows DEF Write
<1> QED BY <1>2, WriteKeeps

-----------------------------------------------------------------------------
(* A step of a reader: the tables and the other readers stay. *)

SameReader(s) ==
    /\ pc'[s] = pc[s] /\ ask'[s] = ask[s] /\ page'[s] = page[s] /\ got'[s] = got[s]
    /\ reply'[s] = reply[s] /\ known'[s] = known[s] /\ walk'[s] = walk[s]

LEMMA SameTables ==
    ASSUME UNCHANGED tables
    PROVE  /\ Members' = Members /\ Lawyers' = Lawyers /\ Signed' = Signed
           /\ \A l : ContractsOf(l)' = ContractsOf(l)
           /\ \A a : Listed(a)' = Listed(a)
           /\ \A a, u : Rank(a, u)' = Rank(a, u)
           /\ \A a : Tied(a)' = Tied(a)
           /\ UNCHANGED <<users, profiles, contracts>>
BY DEF tables, Members, Lawyers, Signed, ContractsOf, Listed, Rank, Before, InstantOf, Tied

LEMMA OthersInformed ==
    ASSUME UNCHANGED tables, NEW s \in Readers, Informed(s), SameReader(s)
    PROVE  Informed(s)'
<1> USE DEF SameReader
<1>1. Arrived(s)'
  BY SameTables DEF Informed, Arrived
<1>2. Counted(s)'
  BY SameTables DEF Informed, Counted, KnownOf
<1>3. Totalled(s)'
  BY SameTables DEF Informed, Totalled
<1>4. Collected(s)'
  BY SameTables DEF Informed, Collected, KnownOf, KnownBy
<1>5. Walking(s)'
  BY SameTables DEF Informed, Walking, Behind
<1>6. Turned(s)'
  BY DEF Informed, Turned
<1> QED BY <1>1, <1>2, <1>3, <1>4, <1>5, <1>6 DEF Informed

(* The request of r goes on.                                                *)
Frame(r) ==
    /\ pc[r] # "idle"
    /\ UNCHANGED <<tables, ask, page, known>>
    /\ pc' \in [Readers -> Steps]
    /\ got' \in [Readers -> Result]
    /\ reply' \in [Readers -> {"ok", "notFound", "timeout", Null}]
    /\ walk' \in [Readers -> [since : SUBSET Users, met : SUBSET Users, left : SUBSET Users]]
    /\ \A s \in Readers \ {r} : SameReader(s)

LEMMA FrameKeeps ==
    ASSUME IInv, NEW r \in Readers, Frame(r), Informed(r)'
    PROVE  IInv'
<1>1. TypeOK'
  <2>1. \A s \in Readers : pc'[s] # "idle" => ask'[s] # Null
    BY DEF IInv, TypeOK, Frame, SameReader
  <2> QED BY <2>1, SameTables DEF IInv, TypeOK, Frame
<1>2. LawyersKnown'
  BY SameTables DEF IInv, LawyersKnown, Frame
<1>3. \A s \in Readers : Informed(s)'
  BY OthersInformed DEF IInv, Frame
<1> QED BY <1>1, <1>2, <1>3 DEF IInv

(* What the walk of r becomes.                                              *)
Walks(r, items) ==
    /\ walk' \in [Readers -> [since : SUBSET Users, met : SUBSET Users, left : SUBSET Users]]
    /\ walk'[r].since = walk[r].since /\ walk'[r].left = walk[r].left
    /\ walk'[r].met = walk[r].met \cup items
    /\ \A s \in Readers \ {r} : walk'[s] = walk[s]

LEMMA StrollWalks ==
    ASSUME TypeOK, NEW r \in Readers, Stroll
    PROVE  Walks(r, {})
BY DEF TypeOK, Stroll, Walks

LEMMA MeetWalks ==
    ASSUME TypeOK, NEW r \in Readers, NEW items \in SUBSET Users, Meet(r, items)
    PROVE  Walks(r, items)
<1>1. walk[r] \in [since : SUBSET Users, met : SUBSET Users, left : SUBSET Users]
  BY DEF TypeOK
<1>2. walk' = [walk EXCEPT ![r].met = walk[r].met \cup items]
  BY DEF Meet
<1>3. walk'[r] = [walk[r] EXCEPT !.met = walk[r].met \cup items]
  BY <1>2 DEF TypeOK
<1>4. /\ walk'[r].since = walk[r].since /\ walk'[r].left = walk[r].left
      /\ walk'[r].met = walk[r].met \cup items
      /\ walk'[r] \in [since : SUBSET Users, met : SUBSET Users, left : SUBSET Users]
  BY <1>1, <1>3
<1> QED BY <1>2, <1>4 DEF TypeOK, Walks

LEMMA GoFrame ==
    ASSUME TypeOK, NEW r \in Readers, pc[r] # "idle",
           NEW step \in Steps, NEW result \in Result, Go(r, step, result),
           NEW items, Walks(r, items)
    PROVE  /\ Frame(r)
           /\ pc'[r] = step /\ got'[r] = result /\ reply'[r] = reply[r]
<1>1. /\ pc' = [pc EXCEPT ![r] = step] /\ got' = [got EXCEPT ![r] = result]
      /\ UNCHANGED <<tables, ask, page, reply, known>>
  BY DEF Go
<1> QED BY <1>1 DEF TypeOK, Frame, Walks, SameReader

LEMMA AnswerFrame ==
    ASSUME TypeOK, NEW r \in Readers, pc[r] # "idle",
           NEW status \in {"ok", "notFound", "timeout"}, NEW result \in Result,
           Answer(r, status, result), NEW items, Walks(r, items)
    PROVE  /\ Frame(r)
           /\ pc'[r] = IF status = "ok" /\ ask[r].op \in Paged
                             /\ Cardinality(result.items) >= ask[r].size
                       THEN "between" ELSE "done"
           /\ got'[r] = result /\ reply'[r] = status
<1> DEFINE next == IF status = "ok" /\ ask[r].op \in Paged
                           /\ Cardinality(result.items) >= ask[r].size
                   THEN "between" ELSE "done"
<1>1. /\ pc' = [pc EXCEPT ![r] = next] /\ got' = [got EXCEPT ![r] = result]
      /\ reply' = [reply EXCEPT ![r] = status]
      /\ UNCHANGED <<tables, ask, page, known>>
  BY DEF Answer
<1>2. next \in Steps
  BY DEF Steps
<1> HIDE DEF next
<1>3. Frame(r) /\ pc'[r] = next /\ got'[r] = result /\ reply'[r] = status
  BY <1>1, <1>2 DEF TypeOK, Frame, Walks, SameReader
<1> QED BY <1>3 DEF next

-----------------------------------------------------------------------------
(* What a step has to show of its reader. *)

(* Only a part of the invariant is about the endpoint asked.                *)
LEMMA NotAsked ==
    ASSUME NEW r \in Readers, Frame(r)
    PROVE  /\ ask[r].op \notin Paged => Walking(r)'
           /\ ask[r].op # "users" => Totalled(r)'
           /\ ask[r].op \notin Stats => Counted(r)'
           /\ ask[r].op \notin {"engaging", "dashboard", "engaged"} => Collected(r)'
<1>1. ask'[r] = ask[r]
  BY DEF Frame
<1>2. ask[r].op \notin Paged => Walking(r)'
  BY <1>1 DEF Walking
<1>3. ask[r].op # "users" => Totalled(r)'
  BY <1>1 DEF Totalled
<1>4. ask[r].op \notin Stats => Counted(r)'
  BY <1>1 DEF Counted
<1>5. ask[r].op \notin {"engaging", "dashboard", "engaged"} => Collected(r)'
  BY <1>1 DEF Collected
<1> QED BY <1>2, <1>3, <1>4, <1>5

LEMMA StillArrived ==
    ASSUME IInv, NEW r \in Readers, Frame(r),
           \A l \in Users : got'[r].rated[l] \subseteq ContractsOf(l),
           got'[r].mine \subseteq Signed
    PROVE  Arrived(r)'
<1>1. Arrived(r)
  BY DEF IInv, Informed
<1> QED BY <1>1, SameTables DEF Arrived, Frame

(* The walk after a page has met items.                                     *)
Beyond(r, a, k, items) ==
    \A u \in walk[r].since :
        u \in Listed(a) /\ (u \in walk[r].met \cup items \cup Tied(a) \/ Rank(a, u) >= k * a.size)

LEMMA WalkingNext ==
    ASSUME NEW r \in Readers, Frame(r), NEW items, Walks(r, items),
           \A a \in Ask :
             a = ask[r] /\ a.op \in Paged /\ (a.op = "users" \/ walk[r].left = {})
             => /\ pc'[r] \in {"count", "rows"} => Beyond(r, a, page[r] - 1, items)
                /\ pc'[r] \in {"ratings", "counts", "between"} => Beyond(r, a, page[r], items)
                /\ pc'[r] \in {"ratings", "counts"} /\ Cardinality(got'[r].items) < a.size
                     => walk[r].since \ Tied(a) \subseteq walk[r].met \cup items
                /\ pc'[r] = "done" /\ reply'[r] = "ok"
                     => walk[r].since \ Tied(a) \subseteq walk[r].met \cup items
    PROVE  Walking(r)'
<1>1. /\ ask' = ask /\ page' = page /\ UNCHANGED tables
      /\ walk'[r].since = walk[r].since /\ walk'[r].left = walk[r].left
      /\ walk'[r].met = walk[r].met \cup items
  BY DEF Frame, Walks
<1>2. \A a \in Ask : Beyond(r, a, page[r] - 1, items) => Behind(r, a, page[r] - 1)'
  BY <1>1, SameTables DEF Behind, Beyond
<1>3. \A a \in Ask : Beyond(r, a, page[r], items) => Behind(r, a, page[r])'
  BY <1>1, SameTables DEF Behind, Beyond
<1>4. \A a : Tied(a)' = Tied(a)
  BY <1>1, SameTables
<1> QED BY <1>1, <1>2, <1>3, <1>4 DEF Walking

(* A page takes the walk on, and a short page ends it.                      *)
LEMMA PageWalk ==
    ASSUME IInv, NEW r \in Readers, pc[r] = "rows", NEW a \in Ask, a = ask[r],
           a.op \in Paged, a.op = "users" \/ walk[r].left = {},
           NEW tie \in TieBreaks
    PROVE  /\ Beyond(r, a, page[r], Page(a, page[r], tie))
           /\ Cardinality(Page(a, page[r], tie)) < a.size
                => walk[r].since \ Tied(a) \subseteq walk[r].met \cup Page(a, page[r], tie)
<1>1. TypeOK /\ LawyersKnown /\ Walking(r) /\ page[r] \in Nat \ {0}
  BY DEF IInv, Informed, TypeOK
<1>2. Behind(r, a, page[r] - 1)
  BY <1>1 DEF Walking
<1>3. a.size \in Nat /\ page[r] * a.size \in Nat
  BY <1>1, AskFields
<1> DEFINE k == page[r] * a.size
<1>4. /\ \A u \in Listed(a) \ Tied(a) :
           Rank(a, u) >= (page[r] - 1) * a.size /\ u \notin Page(a, page[r], tie)
                => Rank(a, u) >= k
      /\ Cardinality(Page(a, page[r], tie)) < a.size
           => \A u \in Listed(a) \ Tied(a) : Rank(a, u) < k
      /\ \A u \in Listed(a) : Rank(a, u) \in Nat
  BY <1>1, PageFacts, RankType
<1>5. k \in Nat
  BY <1>3
<1> HIDE DEF k
<1>6. \A u \in walk[r].since :
        /\ u \in Listed(a)
        /\ u \in walk[r].met \cup Page(a, page[r], tie) \cup Tied(a) \/ Rank(a, u) >= k
  BY <1>2, <1>4 DEF Behind
<1>7. Beyond(r, a, page[r], Page(a, page[r], tie))
  BY <1>6 DEF Beyond, k
<1>8. Cardinality(Page(a, page[r], tie)) < a.size
        => walk[r].since \ Tied(a) \subseteq walk[r].met \cup Page(a, page[r], tie)
  BY <1>4, <1>5, <1>6
<1> QED BY <1>7, <1>8

-----------------------------------------------------------------------------
(* The steps of a reader. *)

(* 404 and 504 promise nothing.                                             *)
LEMMA RefusedKeeps ==
    ASSUME IInv, NEW r \in Readers, pc[r] # "idle", NEW status \in {"notFound", "timeout"},
           NEW result \in Result, result.rated = got[r].rated, result.mine = got[r].mine,
           Answer(r, status, result), Stroll
    PROVE  IInv'
<1>1. TypeOK /\ Arrived(r)
  BY DEF IInv, Informed
<1>2. Walks(r, {})
  BY <1>1, StrollWalks
<1>3. Frame(r) /\ pc'[r] = "done" /\ got'[r] = result /\ reply'[r] = status
  BY <1>1, <1>2, AnswerFrame
<1>4. Arrived(r)'
  BY <1>1, <1>3, StillArrived DEF Arrived
<1>5. Counted(r)' /\ Totalled(r)' /\ Collected(r)' /\ Turned(r)'
  BY <1>3 DEF Counted, Totalled, Collected, Turned
<1>6. Walking(r)'
  BY <1>2, <1>3, WalkingNext
<1> QED BY <1>3, <1>4, <1>5, <1>6, FrameKeeps DEF Informed

(* The fields of what was got, when one of them is replaced.                *)
LEMMA ResultFields ==
    ASSUME TypeOK, NEW r \in Readers
    PROVE  /\ got[r] \in Result
           /\ \A n \in Nat : [got[r] EXCEPT !.total = n] \in Result
           /\ \A U \in SUBSET Users :
                [got[r] EXCEPT !.items = U] \in Result /\ [got[r] EXCEPT !.owners = U] \in Result
           /\ \A f \in [Users -> SUBSET Contracts] : [got[r] EXCEPT !.rated = f] \in Result
           /\ \A f \in [Users -> Nat] : [got[r] EXCEPT !.counted = f] \in Result
           /\ \A C \in SUBSET Contracts : [got[r] EXCEPT !.mine = C] \in Result
<1>1. got[r] \in Result
  BY DEF TypeOK
<1>2. \A n \in Nat : [got[r] EXCEPT !.total = n] \in Result
  BY <1>1 DEF Result
<1>3. \A U \in SUBSET Users : [got[r] EXCEPT !.items = U] \in Result
  BY <1>1 DEF Result
<1>4. \A U \in SUBSET Users : [got[r] EXCEPT !.owners = U] \in Result
  BY <1>1 DEF Result
<1>5. \A f \in [Users -> SUBSET Contracts] : [got[r] EXCEPT !.rated = f] \in Result
  BY <1>1 DEF Result
<1>6. \A f \in [Users -> Nat] : [got[r] EXCEPT !.counted = f] \in Result
  BY <1>1 DEF Result
<1>7. \A C \in SUBSET Contracts : [got[r] EXCEPT !.mine = C] \in Result
  BY <1>1 DEF Result
<1> QED BY <1>1, <1>2, <1>3, <1>4, <1>5, <1>6, <1>7

LEMMA CountUsersKeeps ==
    ASSUME IInv, NEW r \in Readers, CountUsers(r)
    PROVE  IInv'
<1>1. /\ TypeOK /\ Informed(r) /\ pc[r] = "count" /\ ask[r].op = "users" /\ Stroll
      /\ Go(r, "rows", [got[r] EXCEPT !.total = Cardinality(Members)])
  BY DEF IInv, CountUsers, At
<1> DEFINE result == [got[r] EXCEPT !.total = Cardinality(Members)]
<1>2. Members \subseteq Users /\ Cardinality(Members) \in Nat
  BY <1>1, SubsetsCount DEF Members
<1>3. result \in Result /\ got[r] \in Result
  BY <1>1, <1>2, ResultFields
<1>4. /\ result.total = Cardinality(Members) /\ result.rated = got[r].rated
      /\ result.mine = got[r].mine
  BY <1>3 DEF Result
<1> HIDE DEF result
<1>5. Walks(r, {})
  BY <1>1, StrollWalks
<1>6. Frame(r) /\ pc'[r] = "rows" /\ got'[r] = result
  BY <1>1, <1>3, <1>5, GoFrame DEF result, Steps
<1>7. Arrived(r)'
  BY <1>1, <1>4, <1>6, StillArrived DEF Informed, Arrived
<1>8. Totalled(r)'
  <2>1. known'[r] = known[r] /\ Members' = Members
    BY <1>6, SameTables DEF Frame
  <2>2. known[r].users <= Cardinality(Members) /\ known[r].users \in Nat
    BY <1>1 DEF Informed, Arrived, TypeOK
  <2> QED BY <1>2, <1>4, <1>6, <2>1, <2>2 DEF Totalled
<1>9. Walking(r)'
  <2>1. \A a \in Ask : Behind(r, a, page[r] - 1) => Beyond(r, a, page[r] - 1, {})
    BY DEF Behind, Beyond
  <2> QED BY <1>1, <1>5, <1>6, <2>1, WalkingNext DEF Informed, Walking
<1>10. Counted(r)' /\ Collected(r)' /\ Turned(r)'
  BY <1>1, <1>6, NotAsked DEF Stats, Turned
<1> QED BY <1>6, <1>7, <1>8, <1>9, <1>10, FrameKeeps DEF Informed

LEMMA UserRowsKeeps ==
    ASSUME IInv, NEW r \in Readers, UserRows(r)
    PROVE  IInv'
<1>0. PICK tie \in TieBreaks :
        LET rows == Page(ask[r], page[r], tie)
            result == [got[r] EXCEPT !.items = rows]
        IN  /\ Meet(r, rows)
            /\ Answer(r, "ok", result)
  BY DEF UserRows
<1> DEFINE rows == Page(ask[r], page[r], tie)
           result == [got[r] EXCEPT !.items = rows]
<1>1. /\ TypeOK /\ LawyersKnown /\ Informed(r) /\ pc[r] = "rows" /\ ask[r].op = "users"
      /\ Meet(r, rows) /\ Answer(r, "ok", result)
      /\ ask[r] \in Ask /\ ask[r].op \in Paged /\ page[r] \in Nat \ {0}
  BY <1>0 DEF IInv, UserRows, At, Paged, TypeOK
<1>2. /\ rows \subseteq Users /\ Cardinality(rows) \in Nat
      /\ Cardinality(rows) < ask[r].size
           => (page[r] - 1) * ask[r].size + Cardinality(rows) >= Cardinality(Members)
  <2>1. Listed(ask[r]) = Members /\ Members \subseteq Users
    BY <1>1 DEF Listed, Members
  <2> QED BY <1>1, <2>1, PageFacts
<1>3. /\ ask[r].size \in Nat /\ (page[r] - 1) * ask[r].size \in Nat
      /\ Cardinality(Members) \in Nat
  <2>1. ask[r].size \in Nat /\ page[r] - 1 \in Nat
    BY <1>1, AskFields
  <2>2. Members \subseteq Users
    BY DEF Members
  <2> QED BY <1>1, <2>1, <2>2, SubsetsCount
<1>4. result \in Result /\ got[r] \in Result
  BY <1>1, <1>2, ResultFields
<1>5. /\ result.items = rows /\ result.total = got[r].total /\ result.rated = got[r].rated
      /\ result.mine = got[r].mine /\ got[r].total \in Nat
  BY <1>4 DEF Result
<1>6. Walks(r, rows)
  BY <1>1, <1>2, MeetWalks
<1> HIDE DEF result
<1>7. /\ Frame(r) /\ got'[r] = result /\ reply'[r] = "ok"
      /\ pc'[r] = IF Cardinality(rows) >= ask[r].size THEN "between" ELSE "done"
  BY <1>1, <1>4, <1>5, <1>6, AnswerFrame
<1>8. Arrived(r)'
  BY <1>1, <1>5, <1>7, StillArrived DEF Informed, Arrived
<1>9. Totalled(r)'
  <2>1. /\ known'[r] = known[r] /\ ask'[r] = ask[r] /\ page'[r] = page[r]
        /\ got'[r].items = rows /\ got'[r].total = got[r].total
    BY <1>5, <1>7 DEF Frame
  <2>2. known[r].users <= got[r].total /\ got[r].total <= Cardinality(Members)
    BY <1>1 DEF Informed, Totalled
  <2>3. \/ Cardinality(rows) >= ask[r].size
        \/ (page[r] - 1) * ask[r].size + Cardinality(rows) >= got[r].total
    <3> HIDE DEF rows
    <3> QED BY <1>2, <1>3, <1>5, <2>2
  <2> QED BY <1>7, <2>1, <2>2, <2>3 DEF Totalled
<1>10. Walking(r)'
  <2>1. ASSUME NEW a \in Ask, a = ask[r], a.op \in Paged, a.op = "users" \/ walk[r].left = {}
        PROVE  /\ Beyond(r, a, page[r], rows)
               /\ Cardinality(rows) < a.size => walk[r].since \ Tied(a) \subseteq walk[r].met \cup rows
    BY <1>1, <2>1, PageWalk
  <2>2. pc'[r] \in {"between", "done"} /\ (pc'[r] = "done" => Cardinality(rows) < ask[r].size)
    <3> HIDE DEF rows
    <3> QED BY <1>2, <1>3, <1>7
  <2> HIDE DEF rows
  <2> QED BY <1>6, <1>7, <2>1, <2>2, WalkingNext
<1>11. Counted(r)' /\ Collected(r)'
  BY <1>1, <1>7, NotAsked DEF Stats
<1>12. Turned(r)'
  BY <1>1, <1>7 DEF Turned, Frame
<1> QED BY <1>7, <1>8, <1>9, <1>10, <1>11, <1>12, FrameKeeps DEF Informed

LEMMA LawyerRowsKeeps ==
    ASSUME IInv, NEW r \in Readers, LawyerRows(r)
    PROVE  IInv'
<1>0. PICK tie \in TieBreaks :
        LET rows == Page(ask[r], page[r], tie)
            result == [got[r] EXCEPT !.items = rows]
        IN  /\ Meet(r, rows)
            /\ \/ rows = {} /\ Answer(r, "ok", result)
               \/ rows # {} /\ Go(r, "ratings", result)
  BY DEF LawyerRows
<1> DEFINE rows == Page(ask[r], page[r], tie)
           result == [got[r] EXCEPT !.items = rows]
<1>1. /\ TypeOK /\ LawyersKnown /\ Informed(r) /\ pc[r] = "rows" /\ ask[r].op = "lawyers"
      /\ Meet(r, rows)
      /\ \/ rows = {} /\ Answer(r, "ok", result)
         \/ rows # {} /\ Go(r, "ratings", result)
      /\ ask[r] \in Ask /\ ask[r].op \in Paged /\ page[r] \in Nat \ {0}
  BY <1>0 DEF IInv, LawyerRows, At, Paged, TypeOK
<1>2. rows \subseteq Users
  BY <1>1, PageFacts DEF Listed, Lawyers, Members
<1>3. result \in Result /\ got[r] \in Result
  BY <1>1, <1>2, ResultFields
<1>4. result.items = rows /\ result.rated = got[r].rated /\ result.mine = got[r].mine
  BY <1>3 DEF Result
<1>5. Walks(r, rows)
  BY <1>1, <1>2, MeetWalks
<1>6. Cardinality({}) = 0 /\ ask[r].size \in Nat /\ ask[r].size > 0
  BY <1>1, AskFields, FS_EmptySet
<1> HIDE DEF result
<1>7. /\ Frame(r) /\ got'[r] = result
      /\ \/ pc'[r] = "done" /\ rows = {}
         \/ pc'[r] = "ratings"
  <2>1. CASE rows = {} /\ Answer(r, "ok", result)
    <3>1. ~(Cardinality(result.items) >= ask[r].size)
      BY <1>4, <1>6, <2>1
    <3> HIDE DEF rows
    <3>2. /\ Frame(r) /\ got'[r] = result
          /\ pc'[r] = IF "ok" = "ok" /\ ask[r].op \in Paged
                            /\ Cardinality(result.items) >= ask[r].size
                      THEN "between" ELSE "done"
      BY <1>1, <1>3, <1>5, <2>1, AnswerFrame
    <3> QED BY <2>1, <3>1, <3>2
  <2>2. CASE Go(r, "ratings", result)
    BY <1>1, <1>3, <1>5, <2>2, GoFrame DEF Steps
  <2> QED BY <1>1, <2>1, <2>2
<1>8. Arrived(r)'
  BY <1>1, <1>4, <1>7, StillArrived DEF Informed, Arrived
<1>9. Walking(r)'
  <2>1. ASSUME NEW a \in Ask, a = ask[r], a.op \in Paged, a.op = "users" \/ walk[r].left = {}
        PROVE  /\ Beyond(r, a, page[r], rows)
               /\ Cardinality(rows) < a.size => walk[r].since \ Tied(a) \subseteq walk[r].met \cup rows
    BY <1>1, <2>1, PageWalk
  <2>2. pc'[r] = "done" => Cardinality(rows) < ask[r].size
    <3> HIDE DEF rows
    <3> QED BY <1>6, <1>7
  <2> HIDE DEF rows
  <2> QED BY <1>4, <1>5, <1>7, <2>1, <2>2, WalkingNext
<1>10. Counted(r)'
  <2> HIDE DEF rows
  <2> QED BY <1>4, <1>7 DEF Counted
<1>11. Totalled(r)' /\ Collected(r)' /\ Turned(r)'
  BY <1>1, <1>7, NotAsked DEF Turned
<1> QED BY <1>7, <1>8, <1>9, <1>10, <1>11, FrameKeeps DEF Informed

LEMMA FindUserKeeps ==
    ASSUME IInv, NEW r \in Readers, FindUser(r)
    PROVE  IInv'
<1>1. /\ TypeOK /\ Informed(r) /\ pc[r] = "user" /\ Stroll /\ got[r] \in Result
      /\ ask[r].op \in {"user", "engaging", "dashboard"}
  BY DEF IInv, FindUser, At, TypeOK
<1>2. CASE Answer(r, "notFound", got[r])
  BY <1>1, <1>2, RefusedKeeps
<1>3. CASE Go(r, IF ask[r].op = "engaging" THEN "contracts" ELSE "lawyer", got[r])
  <2>1. Walks(r, {})
    BY <1>1, StrollWalks
  <2>2. /\ Frame(r) /\ got'[r] = got[r]
        /\ pc'[r] = IF ask[r].op = "engaging" THEN "contracts" ELSE "lawyer"
    BY <1>1, <1>3, <2>1, GoFrame DEF Steps
  <2>3. Arrived(r)'
    BY <1>1, <2>2, StillArrived DEF Informed, Arrived
  <2>4. Totalled(r)' /\ Walking(r)'
    BY <1>1, <2>2, NotAsked DEF Paged
  <2>5. Counted(r)' /\ Collected(r)' /\ Turned(r)'
    BY <1>1, <2>2 DEF Counted, Collected, Turned, Frame, Stats
  <2> QED BY <2>2, <2>3, <2>4, <2>5, FrameKeeps DEF Informed
<1> QED BY <1>2, <1>3 DEF FindUser

LEMMA FindLawyerKeeps ==
    ASSUME IInv, NEW r \in Readers, FindLawyer(r)
    PROVE  IInv'
<1> DEFINE u == ask[r].id
           result == [got[r] EXCEPT !.items = Lawyers \cap {u}]
<1>1. /\ TypeOK /\ Informed(r) /\ pc[r] = "lawyer" /\ Stroll
      /\ ask[r].op \in {"user", "lawyer", "engaged", "dashboard"}
      /\ CASE ask[r].op = "user" -> Answer(r, "ok", result)
           [] ask[r].op = "dashboard" ->
                Go(r, IF u \in Lawyers THEN "ratings" ELSE "contracts", result)
           [] ask[r].op = "lawyer" ->
                IF u \in Lawyers THEN Go(r, "ratings", result)
                ELSE Answer(r, "notFound", result)
           [] ask[r].op = "engaged" ->
                IF u \in Lawyers THEN Go(r, "contracts", result)
                ELSE Answer(r, "notFound", result)
  BY DEF IInv, FindLawyer, At
<1>2. Lawyers \cap {u} \in SUBSET Users
  BY DEF Lawyers
<1>3. result \in Result /\ got[r] \in Result
  BY <1>1, <1>2, ResultFields
<1>4. /\ result.items = Lawyers \cap {u} /\ result.rated = got[r].rated
      /\ result.mine = got[r].mine
  BY <1>3 DEF Result
<1> HIDE DEF result
<1>5. CASE Answer(r, "notFound", result)
  BY <1>1, <1>3, <1>4, <1>5, RefusedKeeps
<1>6. CASE \/ ask[r].op = "user" /\ Answer(r, "ok", result)
           \/ Go(r, "ratings", result)
           \/ ask[r].op = "dashboard" /\ u \notin Lawyers /\ Go(r, "contracts", result)
           \/ ask[r].op = "engaged" /\ Go(r, "contracts", result)
  <2>1. Walks(r, {})
    BY <1>1, StrollWalks
  <2>2. /\ Frame(r) /\ got'[r] = result
        /\ \/ pc'[r] = "done" /\ ask[r].op = "user"
           \/ pc'[r] = "ratings"
           \/ pc'[r] = "contracts" /\ ask[r].op = "dashboard" /\ u \notin Lawyers
           \/ pc'[r] = "contracts" /\ ask[r].op = "engaged"
    <3>1. CASE ask[r].op = "user" /\ Answer(r, "ok", result)
      BY <1>1, <1>3, <2>1, <3>1, AnswerFrame DEF Paged
    <3>2. CASE Go(r, "ratings", result)
      BY <1>1, <1>3, <2>1, <3>2, GoFrame DEF Steps
    <3>3. CASE Go(r, "contracts", result)
      <4>1. Frame(r) /\ got'[r] = result /\ pc'[r] = "contracts"
        BY <1>1, <1>3, <2>1, <3>3, GoFrame DEF Steps
      <4> QED BY <1>6, <4>1, <3>1, <3>2
    <3> QED BY <1>6, <3>1, <3>2, <3>3
  <2>3. Arrived(r)'
    BY <1>1, <1>4, <2>2, StillArrived DEF Informed, Arrived
  <2>4. Totalled(r)' /\ Walking(r)'
    BY <1>1, <2>2, NotAsked DEF Paged
  <2>5. Counted(r)'
    BY <1>1, <1>4, <2>2 DEF Counted, Frame, Stats
  <2>6. Collected(r)' /\ Turned(r)'
    BY <1>1, <2>2 DEF Collected, Turned, Frame
  <2> QED BY <2>2, <2>3, <2>4, <2>5, <2>6, FrameKeeps DEF Informed
<1> QED BY <1>1, <1>5, <1>6

LEMMA RatingsKeeps ==
    ASSUME IInv, NEW r \in Readers, Ratings(r)
    PROVE  IInv'
<1> DEFINE rated == [l \in Users |-> IF l \in got[r].items THEN RatedOf(l) ELSE {}]
           result == [got[r] EXCEPT !.rated = rated]
<1>1. /\ TypeOK /\ Informed(r) /\ pc[r] = "ratings" /\ ask[r].op \in Stats /\ Stroll
      /\ Go(r, "counts", result)
  BY DEF IInv, Ratings, At
<1>2. /\ rated \in [Users -> SUBSET Contracts]
      /\ \A l \in Users : rated[l] \subseteq ContractsOf(l)
  BY DEF RatedOf, ContractsOf, Signed
<1> HIDE DEF rated
<1>3. result \in Result /\ got[r] \in Result
  BY <1>1, <1>2, ResultFields
<1>4. /\ result.rated = rated /\ result.items = got[r].items /\ result.mine = got[r].mine
  BY <1>3 DEF Result
<1> HIDE DEF result
<1>5. Walks(r, {})
  BY <1>1, StrollWalks
<1>6. Frame(r) /\ got'[r] = result /\ pc'[r] = "counts"
  BY <1>1, <1>3, <1>5, GoFrame DEF Steps
<1>7. Arrived(r)'
  BY <1>1, <1>2, <1>4, <1>6, StillArrived DEF Informed, Arrived
<1>8. Walking(r)'
  <2>1. \A a \in Ask : Behind(r, a, page[r]) => Beyond(r, a, page[r], {})
    BY DEF Behind, Beyond
  <2> QED BY <1>1, <1>4, <1>5, <1>6, <2>1, WalkingNext DEF Informed, Walking
<1>9. Totalled(r)' /\ Counted(r)' /\ Collected(r)' /\ Turned(r)'
  BY <1>1, <1>6, NotAsked DEF Stats, Counted, Collected, Turned
<1> QED BY <1>6, <1>7, <1>8, <1>9, FrameKeeps DEF Informed

LEMMA CountsKeeps ==
    ASSUME IInv, NEW r \in Readers, Counts(r)
    PROVE  IInv'
<1> DEFINE counted ==
             [l \in Users |-> IF l \in got[r].items THEN Cardinality(ContractsOf(l)) ELSE 0]
           result == [got[r] EXCEPT !.counted = counted]
<1>1. /\ TypeOK /\ Informed(r) /\ pc[r] = "counts" /\ ask[r].op \in Stats /\ Stroll
      /\ AfterStats(r, result)
      /\ ask[r] \in Ask
  BY DEF IInv, Counts, At, TypeOK
<1>2. \A l \in Users : ContractsOf(l) \subseteq Contracts /\ Cardinality(ContractsOf(l)) \in Nat
  BY <1>1, SubsetsCount DEF ContractsOf, Signed
<1>3. /\ counted \in [Users -> Nat]
      /\ \A l \in Users : l \in got[r].items => counted[l] = Cardinality(ContractsOf(l))
  BY <1>2
<1> HIDE DEF counted
<1>4. result \in Result /\ got[r] \in Result
  BY <1>1, <1>3, ResultFields
<1>5. /\ result.counted = counted /\ result.rated = got[r].rated
      /\ result.items = got[r].items /\ result.mine = got[r].mine
      /\ result.items \subseteq Users
  BY <1>4 DEF Result
<1> HIDE DEF result
<1>6. Walks(r, {})
  BY <1>1, StrollWalks
<1>7. /\ Frame(r) /\ got'[r] = result
      /\ \/ ask[r].op = "dashboard" /\ pc'[r] = "contracts"
         \/ /\ ask[r].op # "dashboard" /\ reply'[r] = "ok"
            /\ pc'[r] = IF ask[r].op \in Paged /\ Cardinality(result.items) >= ask[r].size
                        THEN "between" ELSE "done"
  <2>1. CASE ask[r].op = "dashboard"
    <3>1. Go(r, "contracts", result)
      BY <1>1, <2>1 DEF AfterStats
    <3> QED BY <1>1, <1>4, <1>6, <2>1, <3>1, GoFrame DEF Steps
  <2>2. CASE ask[r].op # "dashboard"
    <3>1. Answer(r, "ok", result)
      BY <1>1, <2>2 DEF AfterStats
    <3> QED BY <1>1, <1>4, <1>6, <2>2, <3>1, AnswerFrame
  <2> QED BY <2>1, <2>2
<1>8. Arrived(r)'
  BY <1>1, <1>5, <1>7, StillArrived DEF Informed, Arrived
<1>9. Counted(r)'
  <2>1. ASSUME NEW l \in result.items
        PROVE  /\ Cardinality(result.rated[l]) <= result.counted[l]
               /\ Cardinality(KnownOf(r, l)) <= result.counted[l]
    <3>1. got[r].rated[l] \subseteq ContractsOf(l) /\ KnownOf(r, l) \subseteq ContractsOf(l)
      BY <1>1, <1>5 DEF Informed, Arrived, KnownOf, ContractsOf
    <3>2. /\ Cardinality(got[r].rated[l]) <= Cardinality(ContractsOf(l))
          /\ Cardinality(KnownOf(r, l)) <= Cardinality(ContractsOf(l))
      BY <1>1, <1>2, <1>5, <3>1, SubsetsCount
    <3> QED BY <1>3, <1>5, <3>2
  <2>2. \A l : KnownOf(r, l)' = KnownOf(r, l)
    BY <1>7, SameTables DEF KnownOf, Frame
  <2> QED BY <1>7, <2>1, <2>2 DEF Counted
<1>10. Walking(r)'
  <2>1. ASSUME NEW a \in Ask, a = ask[r], a.op \in Paged, a.op = "users" \/ walk[r].left = {}
        PROVE  /\ Beyond(r, a, page[r], {})
               /\ Cardinality(result.items) < a.size => walk[r].since \ Tied(a) \subseteq walk[r].met \cup {}
    <3>1. /\ Behind(r, a, page[r])
          /\ Cardinality(got[r].items) < a.size => walk[r].since \ Tied(a) \subseteq walk[r].met
      BY <1>1, <2>1 DEF Informed, Walking
    <3> QED BY <1>5, <3>1 DEF Behind, Beyond
  <2>2. pc'[r] = "done" /\ ask[r].op \in Paged => Cardinality(result.items) < ask[r].size
    <3>1. Cardinality(result.items) \in Nat /\ ask[r].size \in Nat
      BY <1>1, <1>5, SubsetsCount, AskFields
    <3> QED BY <1>7, <3>1
  <2>3. pc'[r] \in {"contracts", "between", "done"} /\ (pc'[r] = "contracts" => ask[r].op \notin Paged)
    BY <1>7 DEF Paged
  <2> QED BY <1>6, <1>7, <2>1, <2>2, <2>3, WalkingNext
<1>11. Totalled(r)'
  BY <1>1, <1>7, NotAsked DEF Stats
<1>12. Collected(r)' /\ Turned(r)'
  BY <1>1, <1>7 DEF Stats, Collected, Turned, Frame
<1> QED BY <1>7, <1>8, <1>9, <1>10, <1>11, <1>12, FrameKeeps DEF Informed

LEMMA ContractRowsKeeps ==
    ASSUME IInv, NEW r \in Readers, ContractRows(r)
    PROVE  IInv'
<1> DEFINE mine == IF ask[r].op = "engaged" THEN ContractsOf(ask[r].id) ELSE ClientOf(ask[r].id)
           result == [got[r] EXCEPT !.mine = mine]
<1>1. /\ TypeOK /\ Informed(r) /\ pc[r] = "contracts" /\ Stroll
      /\ ask[r].op \in {"engaged", "engaging", "dashboard"}
      /\ IF ask[r].op = "dashboard" /\ mine # {}
         THEN Go(r, "owners", result) ELSE Answer(r, "ok", result)
  BY DEF IInv, ContractRows, At
<1>2. mine \subseteq Signed /\ Signed \subseteq Contracts
  BY DEF ContractsOf, ClientOf, Signed
<1>3. /\ ask[r].op = "engaged" => KnownOf(r, ask[r].id) \subseteq mine
      /\ ask[r].op # "engaged" => KnownBy(r, ask[r].id) \subseteq mine
  BY <1>1 DEF Informed, Arrived, KnownOf, KnownBy, ContractsOf, ClientOf
<1> HIDE DEF mine
<1>4. result \in Result /\ got[r] \in Result
  BY <1>1, <1>2, ResultFields
<1>5. /\ result.mine = mine /\ result.items = got[r].items /\ result.rated = got[r].rated
      /\ result.counted = got[r].counted
  BY <1>4 DEF Result
<1> HIDE DEF result
<1>6. Walks(r, {})
  BY <1>1, StrollWalks
<1>7. /\ Frame(r) /\ got'[r] = result
      /\ \/ pc'[r] = "owners" /\ ask[r].op = "dashboard"
         \/ /\ pc'[r] = "done" /\ reply'[r] = "ok"
            /\ ask[r].op = "dashboard" => mine = {}
  <2>1. CASE Go(r, "owners", result) /\ ask[r].op = "dashboard"
    BY <1>1, <1>4, <1>6, <2>1, GoFrame DEF Steps
  <2>2. CASE Answer(r, "ok", result) /\ (ask[r].op = "dashboard" => mine = {})
    BY <1>1, <1>4, <1>6, <2>2, AnswerFrame DEF Paged
  <2> QED BY <1>1, <2>1, <2>2
<1>8. Arrived(r)'
  BY <1>1, <1>2, <1>5, <1>7, StillArrived DEF Informed, Arrived
<1>9. /\ \A l : KnownOf(r, l)' = KnownOf(r, l)
      /\ \A u : KnownBy(r, u)' = KnownBy(r, u)
  BY <1>7, SameTables DEF KnownOf, KnownBy, Frame
<1>10. Counted(r)'
  BY <1>1, <1>5, <1>7, <1>9 DEF Informed, Counted, Frame, Stats
<1>11. Collected(r)'
  <2>1. ask'[r] = ask[r] /\ KnownOf(r, ask[r].id)' = KnownOf(r, ask[r].id)
                         /\ KnownBy(r, ask[r].id)' = KnownBy(r, ask[r].id)
    BY <1>7, SameTables DEF KnownOf, KnownBy, Frame
  <2> QED BY <1>3, <1>5, <1>7, <2>1 DEF Collected
<1>12. Totalled(r)' /\ Walking(r)' /\ Turned(r)'
  BY <1>1, <1>7, NotAsked DEF Paged, Turned
<1> QED BY <1>7, <1>8, <1>10, <1>11, <1>12, FrameKeeps DEF Informed

LEMMA OwnerRowsKeeps ==
    ASSUME IInv, NEW r \in Readers, OwnerRows(r)
    PROVE  IInv'
<1> DEFINE owners ==
             {u \in Users : profiles[u] # NoRow /\ \E c \in got[r].mine : contracts[c].lawyer = u}
           result == [got[r] EXCEPT !.owners = owners]
<1>1. /\ TypeOK /\ LawyersKnown /\ Informed(r) /\ pc[r] = "owners" /\ Stroll
      /\ ask[r].op = "dashboard" /\ Answer(r, "ok", result)
  BY DEF IInv, OwnerRows, At
<1>2. ASSUME NEW c \in got[r].mine
      PROVE  contracts[c].lawyer \in owners
  <2>1. c \in Signed
    BY <1>1 DEF Informed, Arrived
  <2>2. contracts[c].lawyer \in Users /\ profiles[contracts[c].lawyer] # NoRow
    BY <1>1, <2>1 DEF TypeOK, Signed, LawyersKnown, ContractRow
  <2> QED BY <2>2
<1>3. owners \in SUBSET Users
  OBVIOUS
<1> HIDE DEF owners
<1>4. result \in Result /\ got[r] \in Result
  BY <1>1, <1>3, ResultFields
<1>5. /\ result.owners = owners /\ result.mine = got[r].mine /\ result.items = got[r].items
      /\ result.rated = got[r].rated /\ result.counted = got[r].counted
  BY <1>4 DEF Result
<1> HIDE DEF result
<1>6. Walks(r, {})
  BY <1>1, StrollWalks
<1>7. Frame(r) /\ got'[r] = result /\ pc'[r] = "done" /\ reply'[r] = "ok"
  BY <1>1, <1>4, <1>6, AnswerFrame DEF Paged
<1>8. Arrived(r)'
  BY <1>1, <1>5, <1>7, StillArrived DEF Informed, Arrived
<1>9. Counted(r)'
  <2>1. \A l : KnownOf(r, l)' = KnownOf(r, l)
    BY <1>7, SameTables DEF KnownOf, Frame
  <2> QED BY <1>1, <1>5, <1>7, <2>1 DEF Informed, Counted, Frame
<1>10. Collected(r)'
  <2>1. /\ ask'[r] = ask[r] /\ KnownBy(r, ask[r].id)' = KnownBy(r, ask[r].id)
        /\ contracts' = contracts
    BY <1>7, SameTables DEF KnownBy, Frame
  <2>2. KnownBy(r, ask[r].id) \subseteq got[r].mine
    BY <1>1 DEF Informed, Collected
  <2> QED BY <1>1, <1>2, <1>5, <1>7, <2>1, <2>2 DEF Collected
<1>11. Totalled(r)' /\ Walking(r)' /\ Turned(r)'
  BY <1>1, <1>7, NotAsked DEF Paged, Turned
<1> QED BY <1>7, <1>8, <1>9, <1>10, <1>11, FrameKeeps DEF Informed

LEMMA TimeoutKeeps ==
    ASSUME IInv, NEW r \in Readers, Timeout(r)
    PROVE  IInv'
<1>1. /\ pc[r] # "idle" /\ Answer(r, "timeout", got[r]) /\ Stroll /\ got[r] \in Result
  BY DEF IInv, TypeOK, Timeout
<1> QED BY <1>1, RefusedKeeps

-----------------------------------------------------------------------------
(* A request arrives. *)

LEMMA ArriveFrame ==
    ASSUME TypeOK, NEW r \in Readers, NEW a \in Ask, NEW p \in Nat \ {0}, Arrive(r, a, p)
    PROVE  /\ UNCHANGED <<tables, reply>>
           /\ pc' \in [Readers -> Steps] /\ pc'[r] = First(a.op)
           /\ page' \in [Readers -> Nat \ {0}] /\ page'[r] = p
           /\ got' \in [Readers -> Result] /\ got'[r] = Nothing
           /\ known' \in [Readers -> [contracts : SUBSET Contracts, users : Nat]]
           /\ known'[r] = [contracts |-> Signed, users |-> Cardinality(Members)]
           /\ \A s \in Readers \ {r} :
                /\ pc'[s] = pc[s] /\ page'[s] = page[s] /\ got'[s] = got[s]
                /\ known'[s] = known[s]
<1>1. First(a.op) \in Steps
  BY AskFields DEF First, Steps
<1>2. Nothing \in Result
  BY DEF Nothing, Result
<1>3. [contracts |-> Signed, users |-> Cardinality(Members)]
        \in [contracts : SUBSET Contracts, users : Nat]
  <2>1. Signed \subseteq Contracts /\ Cardinality(Members) \in Nat
    BY SubsetsCount DEF Signed, Members
  <2> QED BY <2>1
<1>4. /\ pc' = [pc EXCEPT ![r] = First(a.op)]
      /\ page' = [page EXCEPT ![r] = p]
      /\ got' = [got EXCEPT ![r] = Nothing]
      /\ known' = [known EXCEPT ![r] = [contracts |-> Signed, users |-> Cardinality(Members)]]
      /\ UNCHANGED <<tables, reply>>
  BY DEF Arrive
<1> QED BY <1>1, <1>2, <1>3, <1>4 DEF TypeOK

(* At the first statement there is nothing to answer for but the walk.      *)
LEMMA ArrivedInformed ==
    ASSUME TypeOK, NEW r \in Readers, NEW a \in Ask, NEW p \in Nat \ {0}, Arrive(r, a, p),
           ask'[r] = a
    PROVE  /\ Arrived(r)' /\ Counted(r)' /\ Totalled(r)' /\ Collected(r)' /\ Turned(r)'
           /\ pc'[r] \in {"count", "rows", "user", "lawyer"}
<1>1. /\ UNCHANGED tables /\ pc'[r] = First(a.op) /\ got'[r] = Nothing
      /\ known'[r] = [contracts |-> Signed, users |-> Cardinality(Members)]
  BY ArriveFrame
<1>2. /\ pc'[r] \in {"count", "rows", "user", "lawyer"}
      /\ a.op = "users" => pc'[r] = "count"
  BY <1>1, AskFields DEF First
<1>3. Cardinality(Members) \in Nat
  BY SubsetsCount DEF Members
<1>4. Arrived(r)'
  BY <1>1, <1>3, SameTables DEF Arrived, Nothing
<1>5. Counted(r)' /\ Collected(r)' /\ Turned(r)'
  BY <1>2 DEF Counted, Collected, Turned
<1>6. Totalled(r)'
  BY <1>2 DEF Totalled
<1> QED BY <1>2, <1>4, <1>5, <1>6

LEMMA BeginKeeps ==
    ASSUME IInv, NEW r \in Readers, Begin(r)
    PROVE  IInv'
<1>1. PICK a \in Ask :
         /\ ask' = [ask EXCEPT ![r] = a]
         /\ walk' = [walk EXCEPT ![r] =
              [since |-> IF a.op \in Paged THEN Listed(a) ELSE {}, met |-> {}, left |-> {}]]
         /\ Arrive(r, a, 1)
  BY DEF Begin
<1>2. TypeOK /\ LawyersKnown
  BY DEF IInv
<1> DEFINE listed == IF a.op \in Paged THEN Listed(a) ELSE {}
<1>3. listed \subseteq Users
  BY DEF Listed, Members, Lawyers
<1>4. a # Null
  BY NullAssumption
<1>5. /\ ask' \in [Readers -> Ask \cup {Null}] /\ ask'[r] = a
      /\ walk' \in [Readers -> [since : SUBSET Users, met : SUBSET Users, left : SUBSET Users]]
      /\ walk'[r] = [since |-> listed, met |-> {}, left |-> {}]
      /\ \A s \in Readers \ {r} : ask'[s] = ask[s] /\ walk'[s] = walk[s]
  <2> HIDE DEF listed
  <2> QED BY <1>1, <1>2, <1>3 DEF TypeOK, listed
<1>6. /\ UNCHANGED <<tables, reply>>
      /\ pc' \in [Readers -> Steps] /\ page' \in [Readers -> Nat \ {0}] /\ page'[r] = 1
      /\ got' \in [Readers -> Result]
      /\ known' \in [Readers -> [contracts : SUBSET Contracts, users : Nat]]
      /\ \A s \in Readers \ {r} :
           /\ pc'[s] = pc[s] /\ page'[s] = page[s] /\ got'[s] = got[s]
           /\ known'[s] = known[s]
  BY <1>1, <1>2, ArriveFrame
<1>7. \A s \in Readers \ {r} : SameReader(s)
  BY <1>5, <1>6 DEF SameReader
<1>8. TypeOK'
  <2>1. \A s \in Readers : pc'[s] # "idle" => ask'[s] # Null
    BY <1>2, <1>4, <1>5, <1>6 DEF TypeOK
  <2>2. /\ users' \in [Users -> Instants \cup {NoRow}]
        /\ profiles' \in [Users -> Profile \cup {NoRow}]
        /\ contracts' \in [Contracts -> ContractRow \cup {NoRow}]
        /\ reply' \in [Readers -> {"ok", "notFound", "timeout", Null}]
    BY <1>2, <1>6, SameTables DEF TypeOK
  <2> QED BY <1>5, <1>6, <2>1, <2>2 DEF TypeOK
<1>9. LawyersKnown'
  BY <1>2, <1>6, SameTables DEF LawyersKnown
<1>10. Walking(r)'
  <2>1. pc'[r] \in {"count", "rows", "user", "lawyer"}
    BY <1>1, <1>2, <1>5, ArrivedInformed
  <2>2. ASSUME NEW b \in Ask, b = a, b.op \in Paged
        PROVE  \A u \in walk'[r].since :
                 u \in Listed(b) /\ Rank(b, u) >= (1 - 1) * b.size
    <3>1. walk'[r].since = Listed(b)
      BY <1>5, <2>2
    <3>2. \A u \in Listed(b) : Rank(b, u) \in Nat
      BY <1>2, RankType
    <3>3. b.size \in Nat
      BY AskFields
    <3> QED BY <3>1, <3>2, <3>3
  <2>3. \A b \in Ask : b = a /\ b.op \in Paged => Behind(r, b, page[r] - 1)'
    BY <1>6, <2>2, SameTables DEF Behind
  <2> QED BY <1>5, <2>1, <2>3 DEF Walking
<1>11. Informed(r)'
  BY <1>1, <1>2, <1>5, <1>10, ArrivedInformed DEF Informed
<1>12. \A s \in Readers : Informed(s)'
  BY <1>6, <1>7, <1>11, OthersInformed DEF IInv
<1> QED BY <1>8, <1>9, <1>12 DEF IInv

LEMMA NextPageKeeps ==
    ASSUME IInv, NEW r \in Readers, NextPage(r)
    PROVE  IInv'
<1>1. /\ TypeOK /\ LawyersKnown /\ Informed(r) /\ pc[r] = "between"
      /\ Arrive(r, ask[r], page[r] + 1) /\ UNCHANGED <<ask, walk>>
      /\ ask[r] \in Ask /\ page[r] \in Nat \ {0}
  BY DEF IInv, NextPage, TypeOK
<1>2. PICK a \in Ask : a = ask[r]
  BY <1>1
<1>3. PICK p \in Nat \ {0} : p = page[r] + 1
  BY <1>1
<1>4. Arrive(r, a, p)
  BY <1>1, <1>2, <1>3
<1>5. /\ UNCHANGED <<tables, reply>>
      /\ pc' \in [Readers -> Steps] /\ page' \in [Readers -> Nat \ {0}] /\ page'[r] = p
      /\ got' \in [Readers -> Result]
      /\ known' \in [Readers -> [contracts : SUBSET Contracts, users : Nat]]
      /\ \A s \in Readers \ {r} :
           /\ pc'[s] = pc[s] /\ page'[s] = page[s] /\ got'[s] = got[s]
           /\ known'[s] = known[s]
  BY <1>1, <1>4, ArriveFrame
<1>6. \A s \in Readers \ {r} : SameReader(s)
  BY <1>1, <1>5 DEF SameReader
<1>7. TypeOK'
  <2>1. \A s \in Readers : pc'[s] # "idle" => ask'[s] # Null
    BY <1>1, <1>5 DEF TypeOK
  <2>2. /\ users' \in [Users -> Instants \cup {NoRow}]
        /\ profiles' \in [Users -> Profile \cup {NoRow}]
        /\ contracts' \in [Contracts -> ContractRow \cup {NoRow}]
        /\ reply' \in [Readers -> {"ok", "notFound", "timeout", Null}]
        /\ ask' \in [Readers -> Ask \cup {Null}]
        /\ walk' \in [Readers -> [since : SUBSET Users, met : SUBSET Users, left : SUBSET Users]]
    BY <1>1, <1>5, SameTables DEF TypeOK
  <2> QED BY <1>5, <2>1, <2>2 DEF TypeOK
<1>8. LawyersKnown'
  BY <1>1, <1>5, SameTables DEF LawyersKnown
<1>9. ask'[r] = a
  BY <1>1, <1>2
<1>10. Walking(r)'
  <2>1. pc'[r] \in {"count", "rows", "user", "lawyer"}
    BY <1>1, <1>4, <1>9, ArrivedInformed
  <2>2. ASSUME NEW b \in Ask, b = ask[r], b.op \in Paged, b.op = "users" \/ walk[r].left = {}
        PROVE  \A u \in walk[r].since :
                 /\ u \in Listed(b)
                 /\ u \in walk[r].met \cup Tied(b) \/ Rank(b, u) >= (p - 1) * b.size
    <3>1. Behind(r, b, page[r])
      BY <1>1, <2>2 DEF Informed, Walking
    <3>2. p - 1 = page[r]
      BY <1>1, <1>3
    <3> QED BY <3>1, <3>2 DEF Behind
  <2>3. \A b \in Ask : b = ask[r] /\ b.op \in Paged /\ (b.op = "users" \/ walk[r].left = {})
          => Behind(r, b, page[r] - 1)'
    BY <1>1, <1>5, <2>2, SameTables DEF Behind
  <2> QED BY <1>1, <2>1, <2>3 DEF Walking
<1>11. Informed(r)'
  BY <1>1, <1>4, <1>9, <1>10, ArrivedInformed DEF Informed
<1>12. \A s \in Readers : Informed(s)'
  BY <1>5, <1>6, <1>11, OthersInformed DEF IInv
<1> QED BY <1>7, <1>8, <1>12 DEF IInv

-----------------------------------------------------------------------------
(* The theorems. *)

LEMMA InitHolds == Init => IInv
<1> SUFFICES ASSUME Init
             PROVE  IInv
  OBVIOUS
<1>1. TypeOK
  <2>1. Nothing \in Result
    BY DEF Nothing, Result
  <2> QED BY <2>1 DEF Init, TypeOK, Steps
<1>2. LawyersKnown
  BY DEF Init, LawyersKnown, Members, Signed
<1>3. ASSUME NEW r \in Readers
      PROVE  Informed(r)
  <2>1. Cardinality(Members) \in Nat
    BY <1>1, SubsetsCount DEF Members
  <2>2. Arrived(r)
    BY <2>1 DEF Init, Arrived, Nothing, Signed
  <2>3. Counted(r) /\ Totalled(r) /\ Collected(r) /\ Walking(r) /\ Turned(r)
    BY DEF Init, Counted, Totalled, Collected, Walking, Turned
  <2> QED BY <2>2, <2>3 DEF Informed
<1> QED BY <1>1, <1>2, <1>3 DEF IInv

LEMMA ReadKeeps ==
    ASSUME IInv, NEW r \in Readers, Read(r)
    PROVE  IInv'
<1>1. CASE Begin(r) \/ NextPage(r)
  BY <1>1, BeginKeeps, NextPageKeeps
<1>2. CASE CountUsers(r) \/ UserRows(r) \/ LawyerRows(r)
  BY <1>2, CountUsersKeeps, UserRowsKeeps, LawyerRowsKeeps
<1>3. CASE FindUser(r) \/ FindLawyer(r)
  BY <1>3, FindUserKeeps, FindLawyerKeeps
<1>4. CASE Ratings(r) \/ Counts(r)
  BY <1>4, RatingsKeeps, CountsKeeps
<1>5. CASE ContractRows(r) \/ OwnerRows(r) \/ Timeout(r)
  BY <1>5, ContractRowsKeeps, OwnerRowsKeeps, TimeoutKeeps
<1> QED BY <1>1, <1>2, <1>3, <1>4, <1>5 DEF Read

LEMMA StutterKeeps ==
    ASSUME IInv, UNCHANGED vars
    PROVE  IInv'
<1>1. /\ UNCHANGED tables
      /\ UNCHANGED <<users, profiles, contracts, pc, ask, page, got, reply, known, walk>>
  BY DEF vars, tables
<1>2. TypeOK' /\ LawyersKnown'
  BY <1>1, SameTables DEF IInv, TypeOK, LawyersKnown
<1>3. \A s \in Readers : Informed(s)'
  BY <1>1, OthersInformed DEF IInv, SameReader
<1> QED BY <1>2, <1>3 DEF IInv

(* Whatever is committed between two statements, what a reader has got so   *)
(* far stays within what the tables say, and its walk behind nobody it has  *)
(* not met.                                                                 *)
THEOREM Invariance == Spec => []IInv
<1>1. Init => IInv
  BY InitHolds
<1>2. IInv /\ [Next]_vars => IInv'
  <2> SUFFICES ASSUME IInv, [Next]_vars
               PROVE  IInv'
    OBVIOUS
  <2>1. CASE Write
    BY <2>1, WritesKeep
  <2>2. CASE \E r \in Readers : Read(r)
    BY <2>2, ReadKeeps
  <2>3. CASE UNCHANGED vars
    BY <2>3, StutterKeeps
  <2> QED BY <2>1, <2>2, <2>3 DEF Next
<1> QED BY <1>1, <1>2, PTL DEF Spec

(* The rows and the answers have the types of the columns and schemas.      *)
THEOREM TypeCorrect == Spec => []TypeOK
<1>1. IInv => TypeOK
  BY DEF IInv
<1> QED BY <1>1, Invariance, PTL

LEMMA AnsweredOnce ==
    ASSUME IInv, NEW r \in Readers, NEW ops, Answered(r, ops)
    PROVE  /\ Informed(r) /\ reply[r] = "ok" /\ ask[r].op \in ops
           /\ pc[r] = "between" \/ pc[r] = "done"
           /\ pc[r] = "between" => ask[r].op \in Paged
           /\ ask[r] \in Ask
<1>1. Informed(r)
  BY DEF IInv
<1>2. pc[r] = "between" \/ pc[r] = "done"
  BY DEF Answered
<1>3. ask[r] \in Ask
  BY <1>2 DEF IInv, TypeOK
<1> QED BY <1>1, <1>2, <1>3 DEF Answered, Informed, Turned

(* A rating is shown with the contracts it is the average of.               *)
THEOREM RatingsAreCounted == Spec => []RatedAreCounted
<1>1. IInv => RatedAreCounted
  <2> SUFFICES ASSUME IInv, NEW r \in Readers, Answered(r, Stats), NEW l \in got[r].items
               PROVE  Cardinality(got[r].rated[l]) <= got[r].counted[l]
    BY DEF RatedAreCounted
  <2> QED BY AnsweredOnce DEF Informed, Counted
<1> QED BY <1>1, Invariance, PTL

(* A page of users is not shorter than its total promises.                  *)
THEOREM PagesAreNotShort == Spec => []PageNotShort
<1>1. IInv => PageNotShort
  <2> SUFFICES ASSUME IInv, NEW r \in Readers, Answered(r, {"users"})
               PROVE  \/ Cardinality(got[r].items) >= ask[r].size
                      \/ (page[r] - 1) * ask[r].size + Cardinality(got[r].items) >= got[r].total
    BY DEF PageNotShort
  <2>1. /\ Informed(r) /\ reply[r] = "ok" /\ ask[r].op = "users"
        /\ pc[r] = "between" \/ pc[r] = "done"
    BY AnsweredOnce
  <2> QED BY <2>1 DEF Informed, Totalled
<1> QED BY <1>1, Invariance, PTL

(* A walk of the pages to the first short one meets all who were there, but *)
(* for those who share their instant with another, and for lawyers when one *)
(* has left.                                                                *)
THEOREM WalksFindEveryone == Spec => []WalkFindsEveryone
<1>1. IInv => WalkFindsEveryone
  <2> SUFFICES ASSUME IInv, NEW r \in Readers, Answered(r, Paged), pc[r] = "done",
                      ask[r].op = "users" \/ walk[r].left = {}
               PROVE  walk[r].since \ Tied(ask[r]) \subseteq walk[r].met
    BY DEF WalkFindsEveryone
  <2>1. /\ Informed(r) /\ reply[r] = "ok" /\ ask[r].op \in Paged /\ ask[r] \in Ask
    BY AnsweredOnce
  <2> QED BY <2>1 DEF Informed, Walking
<1> QED BY <1>1, Invariance, PTL

(* What was committed when a request arrived is in its answer.              *)
THEOREM NothingIsForgotten == Spec => []NothingForgotten
<1>1. IInv => NothingForgotten
  <2> SUFFICES ASSUME IInv, NEW r \in Readers
               PROVE  /\ Answered(r, {"users"}) => got[r].total >= known[r].users
                      /\ Answered(r, Stats) => \A l \in got[r].items :
                           got[r].counted[l] >= Cardinality(KnownOf(r, l))
                      /\ Answered(r, {"engaging", "dashboard"}) =>
                           KnownBy(r, ask[r].id) \subseteq got[r].mine
                      /\ Answered(r, {"engaged"}) => KnownOf(r, ask[r].id) \subseteq got[r].mine
    BY DEF NothingForgotten, KnownOf, KnownBy
  <2>1. /\ got[r].total \in Nat /\ known[r].users \in Nat
        /\ got[r].counted \in [Users -> Nat] /\ got[r].items \subseteq Users
    BY DEF IInv, TypeOK, Result
  <2>2. Answered(r, {"users"}) => got[r].total >= known[r].users
    BY <2>1, AnsweredOnce DEF Informed, Totalled
  <2>3. ASSUME Answered(r, Stats), NEW l \in got[r].items
        PROVE  got[r].counted[l] >= Cardinality(KnownOf(r, l))
    <3>1. Cardinality(KnownOf(r, l)) <= got[r].counted[l] /\ got[r].counted[l] \in Nat
      BY <2>1, <2>3, AnsweredOnce DEF Informed, Counted
    <3>2. Cardinality(KnownOf(r, l)) \in Nat
      <4>1. TypeOK /\ KnownOf(r, l) \subseteq Contracts
        BY DEF IInv, Informed, Arrived, KnownOf, Signed
      <4> QED BY <4>1, SubsetsCount
    <3> QED BY <3>1, <3>2
  <2>4. Answered(r, {"engaging", "dashboard"}) => KnownBy(r, ask[r].id) \subseteq got[r].mine
    BY AnsweredOnce DEF Informed, Collected, Paged
  <2>5. Answered(r, {"engaged"}) => KnownOf(r, ask[r].id) \subseteq got[r].mine
    BY AnsweredOnce DEF Informed, Collected, Paged
  <2> QED BY <2>2, <2>3, <2>4, <2>5
<1> QED BY <1>1, Invariance, PTL

(* The dashboard finds the lawyer of every contract it shows.               *)
THEOREM UsageFindsTheLawyer == Spec => []UsageNamesLawyer
<1>1. IInv => UsageNamesLawyer
  <2> SUFFICES ASSUME IInv, NEW r \in Readers, Answered(r, {"dashboard"}), NEW c \in got[r].mine
               PROVE  contracts[c].lawyer \in got[r].owners
    BY DEF UsageNamesLawyer
  <2> QED BY AnsweredOnce DEF Informed, Collected, Paged
<1> QED BY <1>1, Invariance, PTL
=============================================================================
