---------------------------- MODULE LawyersProofs ----------------------------
(***************************************************************************)
(* The invariants of profiles and contracts, for any number of requests    *)
(* and users.                                                              *)
(***************************************************************************)
EXTENDS Lawyers, TLAPS

(* A request that is being handled has been asked for something, has no row *)
(* yet, and has seen the lawyer it names open if it is now; demotions stay. *)
Standing(r) ==
    /\ pc[r] # "idle" => call[r] \in Call
    /\ pc[r] # "done" => r \notin Profiles /\ r \notin Agreements
    /\ \A l \in gone[r] : l \in Profiles /\ lawyers[l].deleted
    /\ pc[r] \in {"read", "write"} => {target[r]} \cap Open \subseteq offered[r]

(* What a handler knows at its write: the row it loaded is there, and was   *)
(* fit for the request.                                                     *)
KnowsLawyer(r) ==
    pc[r] = "write" /\ call[r].op \in {"update", "demote", "contract"}
    => target[r] \in Profiles /\ seen[r] \in LawyerRow /\ target[r] \notin gone[r]

KnowsClient(r) ==
    pc[r] = "write" /\ call[r].op = "contract"
    => /\ call[r].user \in Users /\ call[r].user # lawyers[target[r]].user
       /\ target[r] \in offered[r]

KnowsContract(r) ==
    pc[r] = "write" /\ call[r].op = "revise"
    => /\ target[r] \in Agreements /\ seen[r] \in ContractRow
       /\ dated[r] \subseteq Recorded(seen[r])
       /\ Recorded(seen[r]) \subseteq Recorded(contracts[target[r]])

KnowsUser(r) ==
    pc[r] = "write"
    => /\ call[r].op = "promote" => call[r].user \in Users
       /\ call[r].op = "subscribe" => target[r] \in Users

Knows(r) == KnowsLawyer(r) /\ KnowsClient(r) /\ KnowsContract(r) /\ KnowsUser(r)

(* The dates that were recorded on arrival are still there.                 *)
Waits(r) ==
    pc[r] = "read" /\ call[r].op = "revise"
    => \/ target[r] = Nobody
       \/ target[r] \in Agreements /\ dated[r] \subseteq Recorded(contracts[target[r]])

Told(r) ==
    pc[r] = "done"
    => /\ call[r].op = "promote" /\ reply[r] = "created"
          => r \in Profiles /\ lawyers[r].user = call[r].user
       /\ call[r].op \in {"update", "demote", "contract"} /\ target[r] \in gone[r]
          => reply[r] \in {"notFound", "timeout"}

Handled(r) == Standing(r) /\ Knows(r) /\ Waits(r) /\ Told(r)

(* A date names the request that set it, which has been answered.           *)
SetBy(d, r) == r # Nobody => r \in Requests /\ pc[r] = "done" /\ d \notin dated[r]

Sound(c) ==
    c \in Agreements
    => /\ contracts[c].lawyer \in Profiles \cap offered[c]
       /\ lawyers[contracts[c].lawyer].user # contracts[c].client
       /\ contracts[c].status = "active" => contracts[c].started # Nobody
       /\ contracts[c].status \in Final => contracts[c].ended # Nobody
       /\ SetBy("started", contracts[c].started)
       /\ SetBy("ended", contracts[c].ended)

Unique == \A l, m \in Profiles : lawyers[l].user = lawyers[m].user => l = m

IInv ==
    /\ TypeOK
    /\ Unique
    /\ \A r \in Requests : Handled(r) /\ Sound(r)

-----------------------------------------------------------------------------
(* The rows and the requests. *)

LEMMA CallFields ==
    ASSUME NEW c \in Call
    PROVE  /\ c.op \in {"promote", "update", "demote", "contract", "revise", "subscribe"}
           /\ c.user \in Users \cup {Nobody}
           /\ c.op = "update" => c.status \in LawyerStatus \cup {Unset}
           /\ c.op = "revise" => c.status \in ContractStatus \cup {Unset}
<1>1. \E op, users, statuses, nulls :
         /\ c \in Request(op, users, statuses, nulls)
         /\ op \in {"promote", "update", "demote", "contract", "revise", "subscribe"}
         /\ users \subseteq Users \cup {Nobody}
         /\ op = "update" => statuses = LawyerStatus \cup {Unset}
         /\ op = "revise" => statuses = ContractStatus \cup {Unset}
  <2>1. CASE c \in Request("promote", AnyUser, {Unset}, {FALSE}) BY <2>1 DEF AnyUser
  <2>2. CASE c \in Request("update", {Nobody}, LawyerStatus \cup {Unset}, BOOLEAN) BY <2>2
  <2>3. CASE c \in Request("demote", {Nobody}, {Unset}, {FALSE}) BY <2>3
  <2>4. CASE c \in Request("contract", AnyUser, {Unset}, {FALSE}) BY <2>4 DEF AnyUser
  <2>5. CASE c \in Request("revise", {Nobody}, ContractStatus \cup {Unset}, BOOLEAN) BY <2>5
  <2>6. CASE c \in Request("subscribe", AnyUser, {Unset}, BOOLEAN) BY <2>6 DEF AnyUser
  <2> QED BY <2>1, <2>2, <2>3, <2>4, <2>5, <2>6 DEF Call
<1> QED BY <1>1 DEF Request

LEMMA RowFields ==
    ASSUME TypeOK
    PROVE  /\ \A l \in Profiles : l \in Requests /\ lawyers[l] \in LawyerRow
           /\ \A c \in Agreements : c \in Requests /\ contracts[c] \in ContractRow
BY DEF TypeOK, Profiles, Agreements

(* The tables after a step of r: rows stay, with their user, lawyer, client *)
(* and recorded dates; a demoted lawyer stays demoted; r alone may have     *)
(* inserted rows; and who is being handled sees a lawyer who opens.         *)
KeepsProfiles ==
    \A l \in Profiles :
        /\ l \in Profiles' /\ lawyers'[l].user = lawyers[l].user
        /\ lawyers[l].deleted => lawyers'[l].deleted

KeepsAgreements ==
    \A c \in Agreements :
        /\ c \in Agreements'
        /\ contracts'[c].lawyer = contracts[c].lawyer
        /\ contracts'[c].client = contracts[c].client
        /\ Recorded(contracts[c]) \subseteq Recorded(contracts'[c])

Grows(r) ==
    /\ lawyers' \in [Requests -> LawyerRow \cup {NoRow}]
    /\ contracts' \in [Requests -> ContractRow \cup {NoRow}]
    /\ offered' \in [Requests -> SUBSET Requests]
    /\ KeepsProfiles /\ KeepsAgreements
    /\ \A s \in Requests \ {r} :
         /\ s \notin Profiles => s \notin Profiles'
         /\ s \notin Agreements => s \notin Agreements'
    /\ \A s \in Requests : offered[s] \subseteq offered'[s]
    /\ \A s \in Requests :
         pc[s] \in {"read", "write"} /\ {target[s]} \cap Open \subseteq offered[s]
         => {target[s]} \cap Open' \subseteq offered'[s]

LEMMA ReadOnlyGrows ==
    ASSUME TypeOK, NEW r \in Requests, ReadOnly
    PROVE  Grows(r)
BY DEF ReadOnly, TypeOK, Grows, KeepsProfiles, KeepsAgreements, Profiles, Agreements, Present, Open

(* A profile is written: a new one of r, or one that is there, which stays  *)
(* the same user's, and demoted if it was.                                  *)
Stores(r, l, row) ==
    /\ l \in Requests /\ row \in LawyerRow
    /\ WriteLawyer(l, row)
    /\ \/ l = r /\ r \notin Profiles
       \/ /\ l \in Profiles
          /\ row.user = lawyers[l].user
          /\ lawyers[l].deleted => row.deleted

LEMMA StoresGrows ==
    ASSUME TypeOK, NEW r \in Requests, NEW l, NEW row, Stores(r, l, row)
    PROVE  Grows(r)
<1>1. /\ lawyers' = [lawyers EXCEPT ![l] = row]
      /\ row # NoRow /\ l \in Requests /\ row \in LawyerRow
      /\ UNCHANGED contracts
  BY NullAssumption DEF Stores, WriteLawyer
<1>2. /\ lawyers' \in [Requests -> LawyerRow \cup {NoRow}]
      /\ contracts' \in [Requests -> ContractRow \cup {NoRow}]
      /\ KeepsAgreements
  BY <1>1 DEF TypeOK, KeepsAgreements, Agreements
<1>3. \A s \in Requests \ {l} : lawyers'[s] = lawyers[s]
  BY <1>1 DEF TypeOK
<1>4. lawyers'[l] = row
  BY <1>1 DEF TypeOK
<1>5. KeepsProfiles
  BY <1>1, <1>3, <1>4 DEF KeepsProfiles, Profiles, Stores
<1>6. \A s \in Requests \ {r} :
         /\ s \notin Profiles => s \notin Profiles'
         /\ s \notin Agreements => s \notin Agreements'
  BY <1>1, <1>3 DEF Profiles, Agreements, Stores
<1>7. Open' \subseteq IF row.status = "active" /\ ~row.deleted THEN Open \cup {l} ELSE Open
  BY <1>1, <1>3, <1>4 DEF Open, Present, Profiles
<1>8. offered' = [s \in Requests |->
         IF /\ pc[s] \in {"read", "write"} /\ target[s] = l
            /\ row.status = "active" /\ ~row.deleted
         THEN offered[s] \cup {l} ELSE offered[s]]
  BY DEF Stores, WriteLawyer
<1>9. /\ offered' \in [Requests -> SUBSET Requests]
      /\ \A s \in Requests : offered[s] \subseteq offered'[s]
  BY <1>1, <1>8 DEF TypeOK
<1>10. \A s \in Requests :
         pc[s] \in {"read", "write"} /\ {target[s]} \cap Open \subseteq offered[s]
         => {target[s]} \cap Open' \subseteq offered'[s]
  BY <1>7, <1>8
<1> QED BY <1>2, <1>5, <1>6, <1>9, <1>10 DEF Grows

(* A contract is written: a new one of r, or one that is there.             *)
Agrees(r, c, row) ==
    /\ c \in Requests /\ row \in ContractRow
    /\ WriteContract(c, row)
    /\ \/ c = r /\ r \notin Agreements
       \/ /\ c \in Agreements
          /\ row.lawyer = contracts[c].lawyer
          /\ row.client = contracts[c].client
          /\ Recorded(contracts[c]) \subseteq Recorded(row)

LEMMA AgreesGrows ==
    ASSUME TypeOK, NEW r \in Requests, NEW c, NEW row, Agrees(r, c, row)
    PROVE  Grows(r)
<1>1. /\ contracts' = [contracts EXCEPT ![c] = row]
      /\ row # NoRow /\ c \in Requests /\ row \in ContractRow
      /\ UNCHANGED <<lawyers, offered>>
  BY NullAssumption DEF Agrees, WriteContract
<1>2. /\ lawyers' \in [Requests -> LawyerRow \cup {NoRow}]
      /\ contracts' \in [Requests -> ContractRow \cup {NoRow}]
      /\ offered' \in [Requests -> SUBSET Requests]
      /\ KeepsProfiles
      /\ \A s \in Requests : offered[s] \subseteq offered'[s]
      /\ Open' = Open /\ Profiles' = Profiles
  BY <1>1 DEF TypeOK, KeepsProfiles, Profiles, Open, Present
<1>3. \A s \in Requests \ {c} : contracts'[s] = contracts[s]
  BY <1>1 DEF TypeOK
<1>4. contracts'[c] = row
  BY <1>1 DEF TypeOK
<1>5. KeepsAgreements
  BY <1>1, <1>3, <1>4 DEF KeepsAgreements, Agreements, Agrees
<1>6. \A s \in Requests \ {r} : s \notin Agreements => s \notin Agreements'
  BY <1>1, <1>3 DEF Agreements, Agrees
<1> QED BY <1>1, <1>2, <1>5, <1>6 DEF Grows

-----------------------------------------------------------------------------
(* What a step leaves alone. *)

SameRequest(s) ==
    /\ pc'[s] = pc[s] /\ call'[s] = call[s] /\ target'[s] = target[s]
    /\ seen'[s] = seen[s] /\ reply'[s] = reply[s]
    /\ gone'[s] = gone[s] /\ dated'[s] = dated[s]

(* A request that waits, while r takes a step.                              *)
LEMMA OthersHandled ==
    ASSUME IInv, NEW r \in Requests, Grows(r),
           NEW s \in Requests \ {r}, SameRequest(s)
    PROVE  Handled(s)'
<1> USE DEF SameRequest
<1>1. Handled(s)
  BY DEF IInv
<1>2. Standing(s)'
  BY <1>1 DEF Handled, Standing, Grows, KeepsProfiles
<1>3. KnowsLawyer(s)'
  BY <1>1 DEF Handled, Knows, KnowsLawyer, Grows, KeepsProfiles
<1>4. KnowsClient(s)'
  BY <1>1 DEF Handled, Knows, KnowsLawyer, KnowsClient, Grows, KeepsProfiles
<1>5. KnowsContract(s)'
  <2>1. SUFFICES ASSUME pc[s] = "write", call[s].op = "revise"
                 PROVE  KnowsContract(s)'
    BY DEF KnowsContract
  <2>2. /\ target[s] \in Agreements /\ seen[s] \in ContractRow
        /\ dated[s] \subseteq Recorded(seen[s])
        /\ Recorded(seen[s]) \subseteq Recorded(contracts[target[s]])
    BY <1>1, <2>1 DEF Handled, Knows, KnowsContract
  <2>3. target[s] \in Agreements' /\ Recorded(contracts[target[s]]) \subseteq Recorded(contracts'[target[s]])
    BY <2>2 DEF Grows, KeepsAgreements
  <2> QED BY <2>2, <2>3 DEF KnowsContract, Recorded
<1>6. KnowsUser(s)'
  BY <1>1 DEF Handled, Knows, KnowsUser
<1>7. Waits(s)'
  BY <1>1 DEF Handled, Waits, Grows, KeepsAgreements
<1>8. Told(s)'
  BY <1>1 DEF Handled, Told, Grows, KeepsProfiles
<1> QED BY <1>2, <1>3, <1>4, <1>5, <1>6, <1>7, <1>8 DEF Handled, Knows

(* A contract that is not written.                                          *)
LEMMA SoundKept ==
    ASSUME IInv, NEW r \in Requests, Grows(r),
           \A s \in Requests : pc[s] = "done" => pc'[s] = "done" /\ dated'[s] = dated[s],
           NEW c \in Agreements, contracts'[c] = contracts[c]
    PROVE  Sound(c)'
<1>1. c \in Requests /\ Sound(c)
  BY DEF IInv, Agreements
<1>2. /\ contracts[c].lawyer \in Profiles' \cap offered'[c]
      /\ lawyers'[contracts[c].lawyer].user # contracts[c].client
  BY <1>1 DEF Sound, Grows, KeepsProfiles
<1>3. /\ SetBy("started", contracts[c].started)'
      /\ SetBy("ended", contracts[c].ended)'
  BY <1>1 DEF Sound, SetBy
<1> QED BY <1>1, <1>2, <1>3 DEF Sound

LEMMA SoundAll ==
    ASSUME IInv, NEW r \in Requests, Grows(r), UNCHANGED contracts,
           \A s \in Requests : pc[s] = "done" => pc'[s] = "done" /\ dated'[s] = dated[s]
    PROVE  \A c \in Requests : Sound(c)'
<1>1. Agreements' = Agreements
  BY DEF Agreements
<1> QED BY <1>1, SoundKept DEF Sound

(* No profile is new, and none changes hands.                               *)
LEMMA UniqueKept ==
    ASSUME IInv, KeepsProfiles, Profiles' \subseteq Profiles
    PROVE  Unique'
BY DEF IInv, Unique, KeepsProfiles

(* The request that acts is answered.                                       *)
LEMMA AnswerFrame ==
    ASSUME TypeOK, NEW r \in Requests, NEW st \in Statuses, Answer(r, st),
           pc[r] \in {"read", "write"}
    PROVE  /\ pc' \in [Requests -> Steps] /\ reply' \in [Requests -> Statuses \cup {NoReply}]
           /\ seen' \in [Requests -> LawyerRow \cup ContractRow \cup {NoRow}]
           /\ pc'[r] = "done" /\ reply'[r] = st
           /\ UNCHANGED <<call, target, gone, dated>>
           /\ \A s \in Requests \ {r} : SameRequest(s)
           /\ \A s \in Requests : pc[s] = "done" => pc'[s] = "done" /\ dated'[s] = dated[s]
BY DEF TypeOK, Answer, Steps, SameRequest

LEMMA AnswerKeeps ==
    ASSUME IInv, NEW r \in Requests, NEW st \in Statuses, Answer(r, st),
           pc[r] \in {"read", "write"}, Grows(r), Unique',
           \A c \in Requests : Sound(c)',
           call[r].op = "promote" /\ st = "created"
             => r \in Profiles' /\ lawyers'[r].user = call[r].user,
           call[r].op \in {"update", "demote", "contract"} /\ target[r] \in gone[r]
             => st \in {"notFound", "timeout"}
    PROVE  IInv'
<1>1. TypeOK'
  BY AnswerFrame DEF IInv, TypeOK, Grows
<1>2. \A s \in Requests \ {r} : Handled(s)'
  BY AnswerFrame, OthersHandled DEF IInv
<1>3. Standing(r)'
  BY AnswerFrame DEF IInv, Handled, Standing, Grows, KeepsProfiles
<1>4. Knows(r)' /\ Waits(r)'
  BY AnswerFrame DEF IInv, Knows, KnowsLawyer, KnowsClient, KnowsContract, KnowsUser, Waits
<1>5. Told(r)'
  BY AnswerFrame DEF IInv, Told
<1> QED BY <1>1, <1>2, <1>3, <1>4, <1>5 DEF IInv, Handled

(* ... without having written anything.                                     *)
LEMMA RefusalKeeps ==
    ASSUME IInv, NEW r \in Requests, NEW st \in Statuses, Answer(r, st), ReadOnly,
           pc[r] \in {"read", "write"},
           call[r].op = "promote" => st # "created",
           call[r].op \in {"update", "demote", "contract"} /\ target[r] \in gone[r]
             => st \in {"notFound", "timeout"}
    PROVE  IInv'
<1>1. Grows(r)
  BY ReadOnlyGrows DEF IInv
<1>2. Unique'
  BY UniqueKept DEF ReadOnly, Profiles, IInv, Unique
<1>3. \A c \in Requests : Sound(c)'
  BY <1>1, AnswerFrame, SoundAll DEF IInv, ReadOnly
<1> QED BY <1>1, <1>2, <1>3, AnswerKeeps

(* The request that acts goes on with a row it loaded.                      *)
LEMMA LoadKeeps ==
    ASSUME IInv, NEW r \in Requests, pc[r] = "read",
           NEW row \in LawyerRow \cup ContractRow \cup {NoRow}, Load(r, row), ReadOnly,
           pc'[r] = "write" /\ seen'[r] = row => Knows(r)'
    PROVE  IInv'
<1>1. Grows(r)
  BY ReadOnlyGrows DEF IInv
<1>2. /\ pc' \in [Requests -> Steps]
      /\ seen' \in [Requests -> LawyerRow \cup ContractRow \cup {NoRow}]
      /\ pc'[r] = "write" /\ seen'[r] = row
      /\ UNCHANGED <<call, target, gone, dated, reply>>
      /\ \A s \in Requests \ {r} : SameRequest(s)
      /\ \A s \in Requests : pc[s] = "done" => pc'[s] = "done" /\ dated'[s] = dated[s]
  BY DEF IInv, TypeOK, Load, Steps, SameRequest
<1>3. TypeOK'
  BY <1>1, <1>2 DEF IInv, TypeOK, Grows
<1>4. Unique'
  BY DEF ReadOnly, Profiles, IInv, Unique
<1>5. \A c \in Requests : Sound(c)'
  BY <1>1, <1>2, SoundAll DEF ReadOnly
<1>6. \A s \in Requests \ {r} : Handled(s)'
  BY <1>1, <1>2, OthersHandled
<1>7. Standing(r)'
  <2>1. Profiles' = Profiles /\ Agreements' = Agreements /\ Open' = Open
    BY DEF ReadOnly, Profiles, Agreements, Open, Present
  <2>2. Standing(r)
    BY DEF IInv, Handled
  <2> QED BY <1>2, <2>1, <2>2 DEF Standing, ReadOnly
<1>8. Waits(r)' /\ Told(r)'
  BY <1>2 DEF Waits, Told
<1> QED BY <1>2, <1>3, <1>4, <1>5, <1>6, <1>7, <1>8 DEF IInv, Handled

-----------------------------------------------------------------------------
(* The steps. *)

LEMMA ReceiveKeeps ==
    ASSUME IInv, NEW r \in Requests, Receive(r)
    PROVE  IInv'
<1>0. PICK c \in Calls : \E t \in Targets(c) :
         /\ call' = [call EXCEPT ![r] = c]
         /\ target' = [target EXCEPT ![r] = t]
         /\ dated' = [dated EXCEPT ![r] =
              IF c.op = "revise" /\ t # Nobody THEN Recorded(contracts[t]) ELSE {}]
         /\ gone' = [gone EXCEPT ![r] = {t} \cap (Profiles \ Present)]
         /\ offered' = [offered EXCEPT ![r] = {t} \cap Open]
  BY DEF Receive
<1>1. PICK t \in Targets(c) :
         /\ call' = [call EXCEPT ![r] = c]
         /\ target' = [target EXCEPT ![r] = t]
         /\ dated' = [dated EXCEPT ![r] =
              IF c.op = "revise" /\ t # Nobody THEN Recorded(contracts[t]) ELSE {}]
         /\ gone' = [gone EXCEPT ![r] = {t} \cap (Profiles \ Present)]
         /\ offered' = [offered EXCEPT ![r] = {t} \cap Open]
  BY <1>0
<1>2. /\ pc[r] = "idle" /\ pc' = [pc EXCEPT ![r] = "read"]
      /\ UNCHANGED <<lawyers, contracts, seen, reply>>
  BY DEF Receive
<1>3. c \in Call
  BY CallsAssumption
<1>4. /\ t \in Requests \cup Users \cup {Nobody}
      /\ c.op = "revise" => t \in Agreements \cup {Nobody}
  <2>1. c.op \in {"promote", "update", "demote", "contract", "revise", "subscribe"}
    BY <1>3, CallFields
  <2>2. Targets(c) \subseteq Profiles \cup Agreements \cup Users \cup {Nobody}
    BY <2>1 DEF Targets
  <2>3. c.op = "revise" => Targets(c) \subseteq Agreements \cup {Nobody}
    BY DEF Targets
  <2> QED BY <2>2, <2>3 DEF Profiles, Agreements
<1>5. Profiles' = Profiles /\ Agreements' = Agreements /\ Present' = Present /\ Open' = Open
  BY <1>2 DEF Profiles, Agreements, Present, Open
<1>6. /\ pc'[r] = "read" /\ call'[r] = c /\ target'[r] = t
      /\ gone'[r] = {t} \cap (Profiles \ Present) /\ offered'[r] = {t} \cap Open
      /\ dated'[r] = IF c.op = "revise" /\ t # Nobody THEN Recorded(contracts[t]) ELSE {}
      /\ \A s \in Requests \ {r} : SameRequest(s) /\ offered'[s] = offered[s]
  BY <1>1, <1>2 DEF IInv, TypeOK, SameRequest
<1>7. TypeOK'
  <2>1. /\ Open \subseteq Requests /\ Profiles \ Present \subseteq Requests
        /\ Recorded(contracts[t]) \subseteq Dates /\ "read" \in Steps
    BY DEF Open, Present, Profiles, Recorded, Steps
  <2> QED BY <1>1, <1>2, <1>3, <1>4, <2>1 DEF IInv, TypeOK
<1>8. Unique'
  BY <1>2, <1>5 DEF IInv, Unique
<1>9. \A k \in Requests : Sound(k)'
  <2>1. SUFFICES ASSUME NEW k \in Agreements PROVE Sound(k)'
    BY <1>5 DEF Sound
  <2>2. k \in Requests /\ Sound(k) /\ k # r
    BY <1>2 DEF IInv, Handled, Standing, Agreements
  <2>3. SetBy("started", contracts[k].started)' /\ SetBy("ended", contracts[k].ended)'
    BY <1>2, <1>6, <2>2 DEF Sound, SetBy, SameRequest
  <2> QED BY <1>2, <1>5, <1>6, <2>2, <2>3 DEF Sound
<1>10. \A s \in Requests \ {r} : Handled(s)'
  <2> SUFFICES ASSUME NEW s \in Requests \ {r} PROVE Handled(s)'
    OBVIOUS
  <2>1. Handled(s) /\ SameRequest(s) /\ offered'[s] = offered[s]
    BY <1>6 DEF IInv
  <2>2. Standing(s)' /\ Waits(s)' /\ Told(s)'
    BY <1>2, <1>5, <2>1 DEF Handled, Standing, Waits, Told, SameRequest
  <2>3. Knows(s)'
    BY <1>2, <1>5, <2>1
    DEF Handled, Knows, KnowsLawyer, KnowsClient, KnowsContract, KnowsUser, SameRequest
  <2> QED BY <2>2, <2>3 DEF Handled
<1>11. Handled(r)'
  <2>1. Standing(r)'
    BY <1>2, <1>3, <1>5, <1>6 DEF IInv, Handled, Standing, Present
  <2>2. Knows(r)' /\ Told(r)'
    BY <1>6 DEF Knows, KnowsLawyer, KnowsClient, KnowsContract, KnowsUser, Told
  <2>3. Waits(r)'
    BY <1>2, <1>4, <1>5, <1>6 DEF Waits
  <2> QED BY <2>1, <2>2, <2>3 DEF Handled
<1> QED BY <1>7, <1>8, <1>9, <1>10, <1>11 DEF IInv

(* A request that starts over has written nothing.                          *)
LEMMA RetryKeeps ==
    ASSUME IInv, NEW r \in Requests, Retry(r)
    PROVE  IInv'
<1>1. Grows(r)
  BY ReadOnlyGrows DEF IInv, Retry
<1>2. /\ pc' \in [Requests -> Steps]
      /\ seen' \in [Requests -> LawyerRow \cup ContractRow \cup {NoRow}]
      /\ pc[r] = "write" /\ pc'[r] = "read"
      /\ UNCHANGED <<call, target, gone, dated, reply, lawyers, contracts, offered>>
      /\ \A s \in Requests \ {r} : SameRequest(s)
      /\ \A s \in Requests : pc[s] = "done" => pc'[s] = "done" /\ dated'[s] = dated[s]
  BY DEF IInv, TypeOK, Retry, ReadOnly, Steps, SameRequest
<1>3. TypeOK'
  BY <1>1, <1>2 DEF IInv, TypeOK, Grows
<1>4. Profiles' = Profiles /\ Agreements' = Agreements /\ Open' = Open
  BY <1>2 DEF Profiles, Agreements, Open, Present
<1>5. Unique'
  BY <1>2, <1>4 DEF IInv, Unique
<1>6. \A c \in Requests : Sound(c)'
  BY <1>1, <1>2, SoundAll
<1>7. \A s \in Requests \ {r} : Handled(s)'
  BY <1>1, <1>2, OthersHandled
<1>8. Standing(r)'
  BY <1>2, <1>4 DEF IInv, Handled, Standing
<1>9. Waits(r)'
  BY <1>2, <1>4 DEF IInv, Handled, Knows, KnowsContract, Waits
<1>10. Knows(r)' /\ Told(r)'
  BY <1>2 DEF Knows, KnowsLawyer, KnowsClient, KnowsContract, KnowsUser, Told
<1> QED BY <1>3, <1>5, <1>6, <1>7, <1>8, <1>9, <1>10 DEF IInv, Handled

LEMMA PresentIsNotGone ==
    ASSUME IInv, NEW r \in Requests
    PROVE  gone[r] \cap Present = {}
BY DEF IInv, Handled, Standing, Present

LEMMA PromoteReadKeeps ==
    ASSUME IInv, NEW r \in Requests, PromoteRead(r)
    PROVE  IInv'
<1>1. pc[r] = "read" /\ call[r].op = "promote" /\ ReadOnly /\ call[r] \in Call
  BY DEF PromoteRead, At, IInv, Handled, Standing
<1>2. CASE Answer(r, "notFound") \/ Answer(r, "conflict")
  BY <1>1, <1>2, RefusalKeeps DEF Statuses
<1>3. CASE call[r].user # Nobody /\ Load(r, NoRow)
  <2>1. call[r].user \in Users
    BY <1>1, <1>3, CallFields
  <2>2. Knows(r)'
    BY <1>1, <1>3, <2>1 DEF Load, Knows, KnowsLawyer, KnowsClient, KnowsContract, KnowsUser
  <2> QED BY <1>1, <1>3, <2>2, LoadKeeps
<1> QED BY <1>2, <1>3 DEF PromoteRead

LEMMA LawyerReadKeeps ==
    ASSUME IInv, NEW r \in Requests, LawyerRead(r)
    PROVE  IInv'
<1>1. pc[r] = "read" /\ call[r].op \in {"update", "demote"} /\ ReadOnly
  BY DEF LawyerRead
<1>2. CASE Answer(r, "notFound")
  BY <1>1, <1>2, RefusalKeeps DEF Statuses
<1>3. CASE target[r] \in Present /\ Load(r, lawyers[target[r]])
  <2>1. target[r] \in Profiles /\ lawyers[target[r]] \in LawyerRow /\ target[r] \notin gone[r]
    BY <1>3, RowFields, PresentIsNotGone DEF Present, IInv
  <2>2. UNCHANGED <<lawyers, call, target, gone>> /\ Profiles' = Profiles
    BY <1>1, <1>3 DEF Load, ReadOnly, Profiles
  <2>3. seen'[r] = lawyers[target[r]] => Knows(r)'
    BY <1>1, <2>1, <2>2 DEF Knows, KnowsLawyer, KnowsClient, KnowsContract, KnowsUser
  <2> QED BY <1>1, <1>3, <2>1, <2>3, LoadKeeps
<1> QED BY <1>2, <1>3 DEF LawyerRead

LEMMA ContractReadKeeps ==
    ASSUME IInv, NEW r \in Requests, ContractRead(r)
    PROVE  IInv'
<1>1. pc[r] = "read" /\ call[r].op = "contract" /\ ReadOnly /\ call[r] \in Call
  BY DEF ContractRead, At, IInv, Handled, Standing
<1>2. CASE Answer(r, "notFound")
  BY <1>1, <1>2, RefusalKeeps DEF Statuses
<1>3. CASE target[r] \in Open /\ Answer(r, "invalid")
  BY <1>1, <1>3, RefusalKeeps, PresentIsNotGone DEF Statuses, Open
<1>4. CASE /\ target[r] \in Open
           /\ call[r].user \notin {lawyers[target[r]].user, Nobody}
           /\ Load(r, lawyers[target[r]])
  <2>1. target[r] \in Profiles /\ lawyers[target[r]] \in LawyerRow /\ target[r] \notin gone[r]
    BY <1>4, RowFields, PresentIsNotGone DEF Open, Present, IInv
  <2>2. call[r].user \in Users /\ target[r] \in offered[r]
    BY <1>1, <1>4, CallFields DEF IInv, Handled, Standing
  <2>3. UNCHANGED <<lawyers, call, target, gone, offered>> /\ Profiles' = Profiles
    BY <1>1, <1>4 DEF Load, ReadOnly, Profiles
  <2>4. seen'[r] = lawyers[target[r]] => Knows(r)'
    BY <1>1, <1>4, <2>1, <2>2, <2>3
    DEF Knows, KnowsLawyer, KnowsClient, KnowsContract, KnowsUser
  <2> QED BY <1>1, <1>4, <2>1, <2>4, LoadKeeps
<1> QED BY <1>2, <1>3, <1>4 DEF ContractRead

LEMMA ReviseReadKeeps ==
    ASSUME IInv, NEW r \in Requests, ReviseRead(r)
    PROVE  IInv'
<1>1. pc[r] = "read" /\ call[r].op = "revise" /\ ReadOnly
  BY DEF ReviseRead, At
<1>2. CASE Answer(r, "notFound")
  BY <1>1, <1>2, RefusalKeeps DEF Statuses
<1>3. CASE target[r] \in Agreements /\ Load(r, contracts[target[r]])
  <2>1. contracts[target[r]] \in ContractRow
    BY <1>3, RowFields DEF IInv
  <2>2. dated[r] \subseteq Recorded(contracts[target[r]])
    <3>1. target[r] # Nobody
      BY <1>3, DistinctAssumption DEF Agreements
    <3> QED BY <1>1, <3>1 DEF IInv, Handled, Waits
  <2>3. UNCHANGED <<contracts, call, target, dated>> /\ Agreements' = Agreements
    BY <1>1, <1>3 DEF Load, ReadOnly, Agreements
  <2>4. seen'[r] = contracts[target[r]] => Knows(r)'
    BY <1>1, <1>3, <2>1, <2>2, <2>3
    DEF Knows, KnowsLawyer, KnowsClient, KnowsContract, KnowsUser
  <2> QED BY <1>1, <1>3, <2>1, <2>4, LoadKeeps
<1> QED BY <1>2, <1>3 DEF ReviseRead

LEMMA SubscribeReadKeeps ==
    ASSUME IInv, NEW r \in Requests, SubscribeRead(r)
    PROVE  IInv'
<1>1. pc[r] = "read" /\ call[r].op = "subscribe" /\ ReadOnly
  BY DEF SubscribeRead, At
<1>2. CASE Answer(r, "notFound") \/ Answer(r, "invalid")
  BY <1>1, <1>2, RefusalKeeps DEF Statuses
<1>3. CASE \E l \in PresentOf(target[r]) : Load(r, lawyers[l])
  <2>1. PICK l \in PresentOf(target[r]) : Load(r, lawyers[l])
    BY <1>3
  <2>2. lawyers[l] \in LawyerRow /\ target[r] \in Users
    BY RowFields DEF PresentOf, Present, IInv, LawyerRow
  <2>3. UNCHANGED <<call, target>>
    BY <2>1 DEF Load
  <2>4. Knows(r)'
    BY <1>1, <2>2, <2>3 DEF Knows, KnowsLawyer, KnowsClient, KnowsContract, KnowsUser
  <2> QED BY <1>1, <2>1, <2>2, <2>4, LoadKeeps
<1> QED BY <1>2, <1>3 DEF SubscribeRead

(* A profile is written, and the request answered.                          *)
LEMMA StoreKeeps ==
    ASSUME IInv, NEW r \in Requests, pc[r] = "write",
           NEW st \in Statuses, Answer(r, st),
           NEW l, NEW row, Stores(r, l, row), Unique',
           call[r].op = "promote" => l = r /\ row.user = call[r].user,
           call[r].op \in {"update", "demote", "contract"} => target[r] \notin gone[r]
    PROVE  IInv'
<1>1. Grows(r)
  BY StoresGrows DEF IInv
<1>2. lawyers' = [lawyers EXCEPT ![l] = row] /\ l \in Requests /\ row \in LawyerRow
      /\ UNCHANGED contracts
  BY DEF Stores, WriteLawyer
<1>3. l \in Profiles' /\ lawyers'[l] = row
  BY <1>2, NullAssumption DEF IInv, TypeOK, Profiles
<1>4. \A c \in Requests : Sound(c)'
  BY <1>1, <1>2, AnswerFrame, SoundAll DEF IInv
<1> QED BY <1>1, <1>3, <1>4, AnswerKeeps

LEMMA InsertProfileKeeps ==
    ASSUME IInv, NEW r \in Requests, At(r, "promote", "write"), InsertProfile(r),
           NEW st \in Statuses, Answer(r, st)
    PROVE  IInv'
<1> DEFINE row == [user |-> call[r].user, status |-> "active", deleted |-> FALSE]
<1>1. pc[r] = "write" /\ call[r].op = "promote"
  BY DEF At
<1>2. call[r].user \in Users /\ r \notin Profiles
  BY <1>1 DEF IInv, Handled, Standing, Knows, KnowsUser
<1>3. Stores(r, r, row)
  BY <1>2 DEF InsertProfile, Stores, LawyerRow, LawyerStatus
<1>4. lawyers' = [lawyers EXCEPT ![r] = row] /\ row # NoRow
  BY <1>3, NullAssumption DEF Stores, WriteLawyer
<1>5. /\ Profiles' = Profiles \cup {r}
      /\ lawyers'[r] = row
      /\ \A l \in Profiles : l # r /\ lawyers'[l] = lawyers[l]
  BY <1>2, <1>4 DEF IInv, TypeOK, Profiles
<1>6. \A l \in Profiles : lawyers[l].user # row.user
  BY DEF InsertProfile, Taken
<1>7. Unique'
  BY <1>5, <1>6 DEF IInv, Unique
<1>8. row.user = call[r].user
  OBVIOUS
<1> HIDE DEF row
<1> QED BY <1>1, <1>3, <1>7, <1>8, StoreKeeps

(* An update or a demotion writes the profile it loaded.                    *)
LEMMA RewriteKeeps ==
    ASSUME IInv, NEW r \in Requests, pc[r] = "write", call[r].op \in {"update", "demote"},
           NEW st \in Statuses, Answer(r, st),
           NEW row \in LawyerRow, WriteLawyer(target[r], row),
           row.user = lawyers[target[r]].user,
           lawyers[target[r]].deleted => row.deleted
    PROVE  IInv'
<1>1. target[r] \in Profiles /\ target[r] \notin gone[r]
  BY DEF IInv, Handled, Knows, KnowsLawyer
<1>2. Stores(r, target[r], row)
  BY <1>1 DEF Stores, Profiles
<1>3. Grows(r)
  BY <1>2, StoresGrows DEF IInv
<1>4. Profiles' \subseteq Profiles
  BY <1>1, NullAssumption DEF WriteLawyer, IInv, TypeOK, Profiles
<1>5. Unique'
  BY <1>3, <1>4, UniqueKept DEF Grows
<1> QED BY <1>1, <1>2, <1>5, StoreKeeps

LEMMA UpdateProfileKeeps ==
    ASSUME IInv, NEW r \in Requests, At(r, "update", "write"), UpdateProfile(r),
           NEW st \in Statuses, Answer(r, st)
    PROVE  IInv'
<1> DEFINE l == target[r]
           s == IF call[r].status = Unset THEN seen[r].status ELSE call[r].status
           row == [lawyers[l] EXCEPT !.status = Column(seen[r].status, s, @)]
<1>1. pc[r] = "write" /\ call[r].op = "update"
  BY DEF At
<1>2. l \in Profiles /\ lawyers[l] \in LawyerRow /\ seen[r] \in LawyerRow
  BY <1>1, RowFields DEF IInv, Handled, Knows, KnowsLawyer
<1>3. call[r] \in Call
  BY <1>1 DEF IInv, Handled, Standing
<1>4. s \in LawyerStatus
  BY <1>1, <1>2, <1>3, CallFields DEF LawyerRow
<1>5. /\ row \in LawyerRow /\ row.user = lawyers[l].user /\ row.deleted = lawyers[l].deleted
  BY <1>2, <1>4 DEF LawyerRow, Column
<1>6. WriteLawyer(l, row)
  BY DEF UpdateProfile
<1> HIDE DEF row
<1> QED BY <1>1, <1>5, <1>6, RewriteKeeps

LEMMA SoftDeleteKeeps ==
    ASSUME IInv, NEW r \in Requests, At(r, "demote", "write"), SoftDelete(r),
           NEW st \in Statuses, Answer(r, st)
    PROVE  IInv'
<1> DEFINE l == target[r]
           row == [lawyers[l] EXCEPT
                     !.status = Column(seen[r].status, "inactive", @), !.deleted = TRUE]
<1>1. pc[r] = "write" /\ call[r].op = "demote"
  BY DEF At
<1>2. l \in Profiles /\ lawyers[l] \in LawyerRow
  BY <1>1, RowFields DEF IInv, Handled, Knows, KnowsLawyer
<1>3. row \in LawyerRow /\ row.user = lawyers[l].user /\ row.deleted
  BY <1>2 DEF LawyerRow, LawyerStatus, Column
<1>4. WriteLawyer(l, row)
  BY DEF SoftDelete
<1> HIDE DEF row
<1> QED BY <1>1, <1>3, <1>4, RewriteKeeps

(* A contract is written, and the request answered.                         *)
LEMMA AgreeKeeps ==
    ASSUME IInv, NEW r \in Requests, pc[r] = "write", call[r].op \in {"contract", "revise"},
           NEW st \in Statuses, Answer(r, st),
           NEW c, NEW row, Agrees(r, c, row), Sound(c)'
    PROVE  IInv'
<1>1. Grows(r)
  BY AgreesGrows DEF IInv
<1>2. contracts' = [contracts EXCEPT ![c] = row] /\ UNCHANGED <<lawyers, offered>>
  BY DEF Agrees, WriteContract
<1>3. Unique'
  BY <1>2 DEF IInv, Unique, Profiles
<1>4. \A k \in Requests : Sound(k)'
  <2> SUFFICES ASSUME NEW k \in Requests, k # c PROVE Sound(k)'
    OBVIOUS
  <2>1. contracts'[k] = contracts[k]
    BY <1>2 DEF IInv, TypeOK
  <2>2. CASE k \in Agreements
    BY <1>1, <2>1, <2>2, AnswerFrame, SoundKept DEF IInv
  <2>3. CASE k \notin Agreements
    BY <2>1, <2>3 DEF Sound, Agreements
  <2> QED BY <2>2, <2>3
<1>5. call[r].op \in {"update", "demote", "contract"} => target[r] \notin gone[r]
  BY DEF IInv, Handled, Knows, KnowsLawyer
<1> QED BY <1>1, <1>3, <1>4, <1>5, AnswerKeeps

LEMMA InsertContractKeeps ==
    ASSUME IInv, NEW r \in Requests, At(r, "contract", "write"), InsertContract(r),
           NEW st \in Statuses, Answer(r, st)
    PROVE  IInv'
<1> DEFINE row == [lawyer |-> target[r], client |-> call[r].user,
                   status |-> "pending", started |-> Nobody, ended |-> Nobody]
<1>1. pc[r] = "write" /\ call[r].op = "contract" /\ r \notin Agreements
  BY DEF At, IInv, Handled, Standing
<1>2. /\ target[r] \in Profiles /\ target[r] \in offered[r]
      /\ call[r].user \in Users /\ call[r].user # lawyers[target[r]].user
  BY <1>1 DEF IInv, Handled, Knows, KnowsLawyer, KnowsClient
<1>3. row \in ContractRow
  BY <1>2 DEF ContractRow, ContractStatus, Profiles
<1>4. Agrees(r, r, row)
  BY <1>1, <1>3 DEF InsertContract, Agrees
<1>5. contracts' = [contracts EXCEPT ![r] = row] /\ UNCHANGED <<lawyers, offered>>
  BY <1>4 DEF Agrees, WriteContract
<1>6. contracts'[r] = row
  BY <1>5 DEF IInv, TypeOK
<1>7. "pending" # "active" /\ "pending" \notin Final
  BY DEF Final
<1>8. Sound(r)'
  BY <1>2, <1>5, <1>6, <1>7 DEF Sound, SetBy, Profiles
<1> HIDE DEF row
<1> QED BY <1>1, <1>4, <1>8, AgreeKeeps

(* The row a revision writes: its status is the stored one or the one asked *)
(* for, and a date is its own if it is asked for and was not loaded.        *)
Revised(r, c, row) ==
    /\ Agrees(r, c, row)
    /\ row.status = contracts[c].status \/ row.status = call[r].status
    /\ row.started = IF call[r].status = "active" /\ seen[r].started = Nobody
                     THEN r ELSE contracts[c].started
    /\ row.ended = IF call[r].status \in Final /\ seen[r].ended = Nobody
                   THEN r ELSE contracts[c].ended

LEMMA ReviseAgrees ==
    ASSUME IInv, NEW r \in Requests, At(r, "revise", "write"), Revise(r)
    PROVE  \E row : Revised(r, target[r], row)
<1>1. PICK c : c = target[r]
  OBVIOUS
<1> DEFINE s == IF call[r].status = Unset THEN seen[r].status ELSE call[r].status
           a == Column(seen[r].status, s, contracts[c].status)
           starts == call[r].status = "active" /\ seen[r].started = Nobody
           ends == call[r].status \in Final /\ seen[r].ended = Nobody
           b == IF starts THEN r ELSE contracts[c].started
           d == IF ends THEN r ELSE contracts[c].ended
<1>2. PICK row : row = [contracts[c] EXCEPT !.status = a, !.started = b, !.ended = d]
  OBVIOUS
<1>3. WriteContract(c, row)
  BY <1>1, <1>2 DEF Revise
<1>4. pc[r] = "write" /\ call[r].op = "revise" /\ call[r] \in Call
  BY DEF At, IInv, Handled, Standing
<1>5. /\ c \in Agreements /\ seen[r] \in ContractRow
      /\ dated[r] \subseteq Recorded(seen[r])
      /\ Recorded(seen[r]) \subseteq Recorded(contracts[c])
  BY <1>1, <1>4 DEF IInv, Handled, Knows, KnowsContract
<1>6. c \in Requests /\ contracts[c] \in ContractRow /\ Sound(c) /\ r # Nobody
  BY <1>5, RowFields, DistinctAssumption DEF IInv
<1>7. /\ row \in ContractRow
      /\ row.lawyer = contracts[c].lawyer /\ row.client = contracts[c].client
      /\ row.status = contracts[c].status \/ row.status = call[r].status
      /\ row.started = b /\ row.ended = d
  <2>1. s \in ContractStatus
    BY <1>4, <1>5, CallFields DEF ContractRow
  <2>2. contracts[c].status \in ContractStatus
    BY <1>6 DEF ContractRow
  <2>3. a \in ContractStatus /\ (a = contracts[c].status \/ a = call[r].status)
    BY <2>1, <2>2 DEF Column
  <2>4. b \in Requests \cup {Nobody} /\ d \in Requests \cup {Nobody}
    BY <1>6 DEF ContractRow
  <2> HIDE DEF a, b, d
  <2> QED BY <1>2, <1>6, <2>3, <2>4 DEF ContractRow
<1> HIDE DEF a
<1>8. Agrees(r, c, row)
  BY <1>3, <1>5, <1>6, <1>7 DEF Agrees, Recorded, Dates
<1> QED BY <1>1, <1>7, <1>8 DEF Revised

(* A revision writes what it changed of the contract it loaded.  A date it  *)
(* sets was missing there; one it does not set, although its status asks    *)
(* for it, was there, and still is.                                         *)
LEMMA ReviseKeeps ==
    ASSUME IInv, NEW r \in Requests, At(r, "revise", "write"), Revise(r),
           NEW st \in Statuses, Answer(r, st)
    PROVE  IInv'
<1>1. PICK c : c = target[r]
  OBVIOUS
<1>2. PICK row : Revised(r, c, row)
  BY <1>1, ReviseAgrees
<1>3. pc[r] = "write" /\ call[r].op = "revise"
  BY DEF At
<1>4. /\ c \in Agreements /\ seen[r] \in ContractRow
      /\ dated[r] \subseteq Recorded(seen[r])
      /\ Recorded(seen[r]) \subseteq Recorded(contracts[c])
  BY <1>1, <1>3 DEF IInv, Handled, Knows, KnowsContract
<1>5. c \in Requests /\ Sound(c) /\ r # Nobody
  BY <1>4, RowFields, DistinctAssumption DEF IInv
<1>6. /\ row.lawyer = contracts[c].lawyer /\ row.client = contracts[c].client
      /\ row.status = contracts[c].status \/ row.status = call[r].status
      /\ row.started = IF call[r].status = "active" /\ seen[r].started = Nobody
                       THEN r ELSE contracts[c].started
      /\ row.ended = IF call[r].status \in Final /\ seen[r].ended = Nobody
                     THEN r ELSE contracts[c].ended
  BY <1>2, <1>4, <1>5 DEF Revised, Agrees, Handled, Standing, At, IInv
<1>7. Agrees(r, c, row)
  BY <1>2 DEF Revised
<1>8. Sound(c)'
  <2>1. contracts' = [contracts EXCEPT ![c] = row] /\ UNCHANGED <<lawyers, offered>>
    BY <1>7 DEF Agrees, WriteContract
  <2>2. contracts'[c] = row /\ UNCHANGED <<target, dated>> /\ pc'[r] = "done"
        /\ \A q \in Requests : pc[q] = "done" => pc'[q] = "done"
    BY <1>3, <1>5, <2>1, AnswerFrame DEF IInv, TypeOK
  <2>3. /\ row.lawyer \in (Profiles \cap offered[c])'
        /\ lawyers'[row.lawyer].user # row.client
    BY <1>4, <1>5, <1>6, <2>1 DEF Sound, Profiles
  <2>4. /\ seen[r].started # Nobody => contracts[c].started # Nobody
        /\ seen[r].ended # Nobody => contracts[c].ended # Nobody
        /\ seen[r].started = Nobody => "started" \notin dated[r]
        /\ seen[r].ended = Nobody => "ended" \notin dated[r]
    BY <1>4 DEF Recorded, Dates
  <2>5. row.status = "active" => row.started # Nobody
    BY <1>4, <1>5, <1>6, <2>4 DEF Sound
  <2>6. row.status \in Final => row.ended # Nobody
    BY <1>4, <1>5, <1>6, <2>4 DEF Sound
  <2>7. SetBy("started", row.started)' /\ SetBy("ended", row.ended)'
    BY <1>4, <1>5, <1>6, <2>2, <2>4 DEF Sound, SetBy
  <2> QED BY <2>2, <2>3, <2>5, <2>6, <2>7 DEF Sound
<1> QED BY <1>3, <1>7, <1>8, AgreeKeeps

-----------------------------------------------------------------------------
(* The writing steps. *)

LEMMA PromoteWriteKeeps ==
    ASSUME IInv, NEW r \in Requests, PromoteWrite(r)
    PROVE  IInv'
<1>1. At(r, "promote", "write") /\ pc[r] = "write" /\ call[r].op = "promote"
  BY DEF PromoteWrite, At
<1>2. CASE InsertProfile(r) /\ Answer(r, "created")
  BY <1>1, <1>2, InsertProfileKeeps DEF Statuses
<1>3. CASE ReadOnly /\ Answer(r, "conflict")
  BY <1>1, <1>3, RefusalKeeps DEF Statuses
<1> QED BY <1>2, <1>3 DEF PromoteWrite

LEMMA UpdateWriteKeeps ==
    ASSUME IInv, NEW r \in Requests, UpdateWrite(r)
    PROVE  IInv'
<1>1. At(r, "update", "write") /\ pc[r] = "write" /\ call[r].op = "update"
  BY DEF UpdateWrite, At
<1>2. CASE UpdateProfile(r) /\ Answer(r, "ok")
  BY <1>1, <1>2, UpdateProfileKeeps DEF Statuses
<1>3. CASE ReadOnly /\ Answer(r, "error")
  BY <1>1, <1>3, RefusalKeeps DEF Statuses, IInv, Handled, Knows, KnowsLawyer
<1> QED BY <1>2, <1>3 DEF UpdateWrite

LEMMA ReviseWriteKeeps ==
    ASSUME IInv, NEW r \in Requests, ReviseWrite(r)
    PROVE  IInv'
<1>1. At(r, "revise", "write") /\ pc[r] = "write" /\ call[r].op = "revise"
  BY DEF ReviseWrite, At
<1>2. CASE Revise(r) /\ Answer(r, "ok")
  BY <1>1, <1>2, ReviseKeeps DEF Statuses
<1>3. CASE ReadOnly /\ Answer(r, "error")
  BY <1>1, <1>3, RefusalKeeps DEF Statuses
<1> QED BY <1>2, <1>3 DEF ReviseWrite

(* The service_id that was found is a user's, hence no lawyer's id.         *)
LEMMA SubscribeWriteKeeps ==
    ASSUME IInv, NEW r \in Requests, SubscribeWrite(r)
    PROVE  IInv'
<1>1. At(r, "subscribe", "write") /\ pc[r] = "write" /\ call[r].op = "subscribe"
  BY DEF SubscribeWrite, At
<1>2. target[r] \notin Profiles
  BY <1>1, DistinctAssumption DEF IInv, Handled, Knows, KnowsUser, Profiles
<1>3. ReadOnly /\ Answer(r, "conflict")
  BY <1>2 DEF SubscribeWrite
<1> QED BY <1>1, <1>3, RefusalKeeps DEF Statuses

LEMMA HandleKeeps ==
    ASSUME IInv, NEW r \in Requests, Handle(r)
    PROVE  IInv'
<1>1. CASE PromoteRead(r) \/ PromoteWrite(r)
  BY <1>1, PromoteReadKeeps, PromoteWriteKeeps
<1>2. CASE LawyerRead(r) \/ UpdateWrite(r)
  BY <1>2, LawyerReadKeeps, UpdateWriteKeeps
<1>3. CASE DemoteWrite(r)
  BY <1>3, SoftDeleteKeeps DEF DemoteWrite, Statuses
<1>4. CASE ContractRead(r)
  BY <1>4, ContractReadKeeps
<1>5. CASE ContractWrite(r)
  BY <1>5, InsertContractKeeps DEF ContractWrite, Statuses
<1>6. CASE ReviseRead(r) \/ ReviseWrite(r)
  BY <1>6, ReviseReadKeeps, ReviseWriteKeeps
<1>7. CASE SubscribeRead(r) \/ SubscribeWrite(r)
  BY <1>7, SubscribeReadKeeps, SubscribeWriteKeeps
<1>8. CASE Timeout(r)
  BY <1>8, RefusalKeeps DEF Timeout, Statuses
<1>9. CASE CommitThenTimeout(r)
  BY <1>9, InsertProfileKeeps, UpdateProfileKeeps, SoftDeleteKeeps, InsertContractKeeps,
     ReviseKeeps DEF CommitThenTimeout, Statuses
<1>10. CASE Retry(r)
  BY <1>10, RetryKeeps
<1> QED BY <1>1, <1>2, <1>3, <1>4, <1>5, <1>6, <1>7, <1>8, <1>9, <1>10 DEF Handle

LEMMA InitHolds == Init => IInv
<1> SUFFICES ASSUME Init PROVE IInv
  OBVIOUS
<1>1. TypeOK
  BY DEF Init, TypeOK, Steps
<1>2. Profiles = {} /\ Agreements = {} /\ Open = {}
  BY DEF Init, Profiles, Agreements, Open, Present
<1>3. Unique
  BY <1>2 DEF Unique
<1>4. ASSUME NEW r \in Requests
      PROVE  Handled(r) /\ Sound(r)
  <2>1. pc[r] = "idle" /\ gone[r] = {}
    BY DEF Init
  <2>2. Standing(r) /\ Waits(r) /\ Told(r) /\ Sound(r)
    BY <1>2, <2>1 DEF Standing, Waits, Told, Sound
  <2>3. Knows(r)
    BY <2>1 DEF Knows, KnowsLawyer, KnowsClient, KnowsContract, KnowsUser
  <2> QED BY <2>2, <2>3 DEF Handled
<1> QED BY <1>1, <1>3, <1>4 DEF IInv

LEMMA StutterKeeps == IInv /\ UNCHANGED vars => IInv'
<1> SUFFICES ASSUME IInv, UNCHANGED vars PROVE IInv'
  OBVIOUS
<1> USE DEF vars
<1>1. TypeOK' /\ Unique'
  BY DEF IInv, TypeOK, Unique, Profiles
<1>2. ASSUME NEW r \in Requests PROVE Handled(r)' /\ Sound(r)'
  <2>1. Handled(r) /\ Sound(r)
    BY DEF IInv
  <2>2. Standing(r)' /\ Waits(r)' /\ Told(r)'
    BY <2>1 DEF Handled, Standing, Waits, Told, Profiles, Agreements, Open, Present
  <2>3. Knows(r)'
    BY <2>1 DEF Handled, Knows, KnowsLawyer, KnowsClient, KnowsContract, KnowsUser,
                Profiles, Agreements
  <2>4. Sound(r)'
    BY <2>1 DEF Sound, SetBy, Profiles, Agreements
  <2> QED BY <2>2, <2>3, <2>4 DEF Handled
<1> QED BY <1>1, <1>2 DEF IInv

(* What the handlers know at their awaits, what they answered and what the  *)
(* tables hold is an inductive invariant of the lawyers' endpoints.         *)
THEOREM Invariance == Spec => []IInv
<1>1. IInv /\ [Next]_vars => IInv'
  BY ReceiveKeeps, HandleKeeps, StutterKeeps DEF Next
<1> QED BY <1>1, InitHolds, PTL DEF Spec

-----------------------------------------------------------------------------
(* The properties the run checks. *)

(* The two tables, the requests and their answers keep their types.         *)
THEOREM TypeCorrect == Spec => []TypeOK
<1>1. IInv => TypeOK
  BY DEF IInv
<1> QED BY <1>1, Invariance, PTL

(* The lawyer a 201 announced is there, and the only one of its user.       *)
THEOREM PromotionsAreOnce == Spec => []PromotedOnce
<1>1. IInv => PromotedOnce
  BY DEF IInv, Handled, Told, Unique, PromotedOnce, Answered
<1> QED BY <1>1, Invariance, PTL

(* A request that arrives after a demotion neither finds nor revives the    *)
(* lawyer.                                                                  *)
THEOREM DemotionsAreFinal == Spec => []DemotionIsFinal
<1>1. IInv => DemotionIsFinal
  BY PresentIsNotGone DEF IInv, Handled, Told, DemotionIsFinal
<1> QED BY <1>1, Invariance, PTL

(* The lawyer of a contract took clients while it was being made.           *)
THEOREM ContractsWereOffered == Spec => []ContractWasOffered
<1>1. IInv => ContractWasOffered
  BY DEF IInv, Sound, ContractWasOffered, Agreements
<1> QED BY <1>1, Invariance, PTL

(* No contract is between a lawyer and the same user.                       *)
THEOREM NobodysOwnLawyer == Spec => []NoSelfContract
<1>1. IInv => NoSelfContract
  BY DEF IInv, Sound, NoSelfContract, Agreements
<1> QED BY <1>1, Invariance, PTL

(* Active contracts have a start, finished ones an end, whatever revisions  *)
(* overlap.                                                                 *)
THEOREM DatesFollow == Spec => []DatesFollowStatus
<1>1. IInv => DatesFollowStatus
  BY DEF IInv, Sound, DatesFollowStatus, Agreements
<1> QED BY <1>1, Invariance, PTL

(* A revision does not move a date that was recorded when it arrived.       *)
THEOREM DatesStay == Spec => []DatesKept
<1>1. IInv => DatesKept
  BY DEF IInv, Sound, SetBy, DatesKept, Agreements
<1> QED BY <1>1, Invariance, PTL

-----------------------------------------------------------------------------
(* The commits, as the endpoints that read see them. *)

LEMMA Shown ==
    ASSUME TypeOK, Unique, NEW l \in Profiles
    PROVE  /\ lawyers[l].user \in Users
           /\ ProfileOf(lawyers[l].user) = l
           /\ ShowProfile(lawyers[l].user) =
                [at |-> Instant[l],
                 status |-> IF lawyers[l].status = "active" THEN "active" ELSE "other",
                 deleted |-> lawyers[l].deleted]
           /\ ShowProfile(lawyers[l].user) # NoRow
<1>1. lawyers[l] \in LawyerRow /\ l \in Requests
  BY RowFields
<1>2. ProfileOf(lawyers[l].user) = l
  BY DEF ProfileOf, Unique
<1>3. ShowProfile(lawyers[l].user) =
        [at |-> Instant[l],
         status |-> IF lawyers[l].status = "active" THEN "active" ELSE "other",
         deleted |-> lawyers[l].deleted]
  BY <1>2 DEF ShowProfile
<1>4. ShowProfile(lawyers[l].user) \in ShownProfile
  BY <1>1, <1>3, InstantAssumption DEF ShownProfile, LawyerRow
<1> QED BY <1>1, <1>2, <1>3, <1>4, ShownAssumption DEF LawyerRow

(* Every user of the fixed set has a row.                                   *)
LEMMA ViewMembers == View!Members = Users
BY InstantAssumption, ShownAssumption DEF View!Members

(* A write of a profile touches what is shown of its user alone, and no     *)
(* contract.                                                                *)
LEMMA StoreShows ==
    ASSUME IInv, NEW r \in Requests, NEW l, NEW row, Stores(r, l, row), Unique', TypeOK'
    PROVE  /\ ShowProfile(row.user)' =
                [at |-> Instant[l],
                 status |-> IF row.status = "active" THEN "active" ELSE "other",
                 deleted |-> row.deleted]
           /\ \A u \in Users \ {row.user} : ShowProfile(u)' = ShowProfile(u)
           /\ \A c \in Requests : ShowContract(c)' = ShowContract(c)
<1>1. /\ lawyers' = [lawyers EXCEPT ![l] = row] /\ UNCHANGED contracts
      /\ row # NoRow /\ l \in Requests /\ row \in LawyerRow
  BY NullAssumption DEF Stores, WriteLawyer
<1>2. /\ lawyers'[l] = row /\ Profiles' = Profiles \cup {l}
      /\ \A m \in Profiles \ {l} : lawyers'[m] = lawyers[m]
  BY <1>1 DEF IInv, TypeOK, Profiles
<1>3. l \in Profiles => lawyers[l].user = row.user
  BY DEF Stores
<1>4. ShowProfile(row.user)' =
        [at |-> Instant[l],
         status |-> IF row.status = "active" THEN "active" ELSE "other",
         deleted |-> row.deleted]
  <2>1. l \in Profiles' /\ lawyers'[l].user = row.user
    BY <1>2
  <2>2. (ProfileOf(row.user))' = l
    <3>1. \A m \in Profiles' : lawyers'[m].user = row.user => m = l
      BY <2>1 DEF Unique
    <3> QED BY <2>1, <3>1 DEF ProfileOf
  <2> QED BY <1>2, <2>1, <2>2 DEF ShowProfile
<1>5. ASSUME NEW u \in Users \ {row.user}
      PROVE  ShowProfile(u)' = ShowProfile(u)
  <2>1. \A m \in Requests :
          m \in Profiles' /\ lawyers'[m].user = u <=> m \in Profiles /\ lawyers[m].user = u
    BY <1>2, <1>3
  <2>2. CASE \A m \in Profiles : lawyers[m].user # u
    BY <2>1, <2>2 DEF ShowProfile, Profiles
  <2>3. CASE \E m \in Profiles : lawyers[m].user = u
    <3>1. PICK m \in Profiles : lawyers[m].user = u
      BY <2>3
    <3>2. m \in Requests /\ m # l /\ m \in Profiles' /\ lawyers'[m] = lawyers[m]
      BY <1>2, <1>3, <3>1 DEF Profiles
    <3>3. ProfileOf(u) = m
      BY <3>1 DEF IInv, Unique, ProfileOf
    <3>4. (ProfileOf(u))' = m
      <4>1. \A k \in Profiles' : lawyers'[k].user = u => k = m
        BY <3>1, <3>2 DEF Unique
      <4> QED BY <3>1, <3>2, <4>1 DEF ProfileOf
    <3> QED BY <3>1, <3>2, <3>3, <3>4 DEF ShowProfile
  <2> QED BY <2>2, <2>3
<1>6. ASSUME NEW c \in Requests
      PROVE  ShowContract(c)' = ShowContract(c)
  <2>1. CASE c \notin Agreements
    BY <1>1, <2>1 DEF ShowContract, Agreements
  <2>2. CASE c \in Agreements
    <3>1. contracts[c].lawyer \in Profiles
      BY <2>2 DEF IInv, Sound
    <3>2. lawyers'[contracts[c].lawyer].user = lawyers[contracts[c].lawyer].user
      BY <1>2, <1>3, <3>1
    <3> QED BY <1>1, <3>2 DEF ShowContract
  <2> QED BY <2>1, <2>2
<1> QED BY <1>4, <1>5, <1>6

(* Nobody walks in this view.                                               *)
LEMMA ViewCommit == View!Commit
BY DEF View!Commit, NoReader

(* A promotion: the user had no profile.                                    *)
LEMMA PromoteShows ==
    ASSUME IInv, NEW r \in Requests, r \notin Profiles, NEW u \in Users, ~Taken(u),
           Stores(r, r, [user |-> u, status |-> "active", deleted |-> FALSE]),
           Unique', TypeOK'
    PROVE  View!Promote(u)
<1> DEFINE new == [at |-> Instant[r], status |-> "active", deleted |-> FALSE]
<1>1. /\ ShowProfile(u)' = new
      /\ \A v \in Users \ {u} : ShowProfile(v)' = ShowProfile(v)
      /\ \A c \in Requests : ShowContract(c)' = ShowContract(c)
  <2>1. PICK row : row = [user |-> u, status |-> "active", deleted |-> FALSE]
    OBVIOUS
  <2>2. Stores(r, r, row) /\ row.user = u /\ row.status = "active" /\ row.deleted = FALSE
    BY <2>1
  <2>3. /\ ShowProfile(row.user)' =
             [at |-> Instant[r],
              status |-> IF row.status = "active" THEN "active" ELSE "other",
              deleted |-> row.deleted]
        /\ \A v \in Users \ {row.user} : ShowProfile(v)' = ShowProfile(v)
        /\ \A c \in Requests : ShowContract(c)' = ShowContract(c)
    BY <2>2, StoreShows
  <2> QED BY <2>2, <2>3
<1>2. ShowProfile(u) = NoRow
  BY DEF ShowProfile, Taken
<1> HIDE DEF new
<1>3. [v \in Users |-> ShowProfile(v)]'
        = [[v \in Users |-> ShowProfile(v)] EXCEPT ![u] = new]
  BY <1>1
<1>4. [c \in Requests |-> ShowContract(c)]' = [c \in Requests |-> ShowContract(c)]
  BY <1>1
<1>5. Instant[r] \in {Instant[x] : x \in Requests \cup Users}
  OBVIOUS
<1> QED BY <1>2, <1>3, <1>4, <1>5, ViewMembers, ViewCommit DEF View!Promote, new

(* What a demotion makes of a profile that is shown.                        *)
LEMMA Demoted ==
    ASSUME NEW old \in ShownProfile, NEW s \in {"active", "other"}
    PROVE  [old EXCEPT !.status = s, !.deleted = TRUE]
             = [at |-> old.at, status |-> s, deleted |-> TRUE]
<1> DEFINE p == [old EXCEPT !.status = s, !.deleted = TRUE]
           q == [at |-> old.at, status |-> s, deleted |-> TRUE]
<1>1. p \in ShownProfile /\ p.at = old.at /\ p.status = s /\ p.deleted = TRUE
  BY DEF ShownProfile
<1>2. q \in ShownProfile /\ q.at = old.at /\ q.status = s /\ q.deleted = TRUE
  BY DEF ShownProfile
<1> HIDE DEF p, q
<1>3. p = q
  BY <1>1, <1>2 DEF ShownProfile
<1> QED BY <1>3 DEF p, q

(* An update or a demotion: the profile keeps its instant, and does not     *)
(* come back.                                                               *)
LEMMA RewriteShows ==
    ASSUME IInv, NEW r \in Requests, NEW l \in Profiles, NEW row, Stores(r, l, row),
           Unique', TypeOK',
           \/ row.deleted = lawyers[l].deleted
           \/ row.deleted = TRUE /\ row.status \in {"inactive", lawyers[l].status}
    PROVE  View!Update(row.user) \/ View!Demote(row.user)
<1> DEFINE u == row.user
           old == ShowProfile(u)
           s == IF row.status = "active" THEN "active" ELSE "other"
<1>1. row \in LawyerRow /\ u = lawyers[l].user /\ u \in Users
  <2>1. row \in LawyerRow
    BY DEF Stores
  <2>2. row.user = lawyers[l].user
    BY DEF Stores
  <2> QED BY <2>1, <2>2 DEF LawyerRow
<1>2. /\ old = [at |-> Instant[l],
                status |-> IF lawyers[l].status = "active" THEN "active" ELSE "other",
                deleted |-> lawyers[l].deleted]
      /\ old # NoRow
  BY <1>1, Shown DEF IInv
<1>3. /\ ShowProfile(u)' = [at |-> Instant[l], status |-> s, deleted |-> row.deleted]
      /\ \A v \in Users \ {u} : ShowProfile(v)' = ShowProfile(v)
      /\ \A c \in Requests : ShowContract(c)' = ShowContract(c)
  BY StoreShows
<1>4. [c \in Requests |-> ShowContract(c)]' = [c \in Requests |-> ShowContract(c)]
  BY <1>3
<1>5. CASE row.deleted = lawyers[l].deleted
  <2>1. ShowProfile(u)' = [old EXCEPT !.status = s]
    BY <1>2, <1>3, <1>5
  <2>2. s \in {"active", "other"}
    OBVIOUS
  <2> HIDE DEF s, old
  <2>3. [v \in Users |-> ShowProfile(v)]'
          = [[v \in Users |-> ShowProfile(v)] EXCEPT ![u].status = s]
    BY <1>1, <1>3, <2>1 DEF old
  <2> QED BY <1>1, <1>2, <1>4, <2>2, <2>3, ViewCommit DEF View!Update, View!Status, old
<1>6. CASE row.deleted = TRUE /\ row.status \in {"inactive", lawyers[l].status}
  <2>1. s \in {"other", old.status}
    BY <1>2, <1>6
  <2>2. old \in ShownProfile /\ old.at = Instant[l] /\ s \in {"active", "other"}
    <3>1. Instant[l] \in Nat /\ lawyers[l].deleted \in BOOLEAN
      BY InstantAssumption, RowFields DEF IInv, Profiles, LawyerRow
    <3> QED BY <1>2, <3>1 DEF ShownProfile
  <2> HIDE DEF s, old
  <2>3. ShowProfile(u)' = [old EXCEPT !.status = s, !.deleted = TRUE]
    BY <1>3, <1>6, <2>2, Demoted
  <2> USE DEF old
  <2>4. [v \in Users |-> ShowProfile(v)]'
          = [[v \in Users |-> ShowProfile(v)] EXCEPT ![u].status = s, ![u].deleted = TRUE]
    BY <1>1, <1>3, <2>3
  <2> QED BY <1>1, <1>2, <1>4, <2>1, <2>4, ViewCommit DEF View!Demote
<1> QED BY <1>5, <1>6

(* Writes of contracts leave what is shown of the profiles.                 *)
LEMMA ProfilesShownSame ==
    ASSUME UNCHANGED lawyers
    PROVE  [u \in Users |-> ShowProfile(u)]' = [u \in Users |-> ShowProfile(u)]
BY DEF ShowProfile, ProfileOf, Profiles

(* A contract is signed with a lawyer who has, or had, a profile.           *)
LEMMA SignShows ==
    ASSUME IInv, NEW r \in Requests, At(r, "contract", "write"), InsertContract(r)
    PROVE  View!Sign(r)
<1> DEFINE l == lawyers[target[r]].user
           new == [lawyer |-> l, client |-> call[r].user, rated |-> FALSE]
<1>1. pc[r] = "write" /\ call[r].op = "contract" /\ r \notin Agreements
  BY DEF At, IInv, Handled, Standing
<1>2. target[r] \in Profiles /\ call[r].user \in Users /\ call[r].user # l
  BY <1>1 DEF IInv, Handled, Knows, KnowsLawyer, KnowsClient
<1>3. l \in Users /\ ShowProfile(l) # NoRow
  BY <1>2, Shown DEF IInv
<1>4. PICK row : row = [lawyer |-> target[r], client |-> call[r].user,
                        status |-> "pending", started |-> Nobody, ended |-> Nobody]
  OBVIOUS
<1>5. contracts' = [contracts EXCEPT ![r] = row] /\ UNCHANGED lawyers
  BY <1>4 DEF InsertContract, WriteContract
<1>6. row \in ContractRow
  BY <1>2, <1>4 DEF ContractRow, ContractStatus, Profiles
<1>7. /\ contracts'[r] = row /\ row # NoRow
      /\ \A c \in Requests \ {r} : contracts'[c] = contracts[c]
  BY <1>5, <1>6, NullAssumption DEF IInv, TypeOK
<1>8. ShowContract(r)' = new
  <2>1. ShowContract(r)' = [lawyer |-> lawyers[row.lawyer].user,
                            client |-> row.client, rated |-> FALSE]
    BY <1>5, <1>7 DEF ShowContract
  <2>2. row.lawyer = target[r] /\ row.client = call[r].user
    BY <1>4
  <2> QED BY <2>1, <2>2
<1>9. \A c \in Requests \ {r} : ShowContract(c)' = ShowContract(c)
  BY <1>5, <1>7 DEF ShowContract
<1>10. ShowContract(r) = NoRow
  BY <1>1 DEF ShowContract, Agreements
<1> HIDE DEF l, new
<1>11. [c \in Requests |-> ShowContract(c)]'
         = [[c \in Requests |-> ShowContract(c)] EXCEPT ![r] = new]
  BY <1>8, <1>9
<1>12. [u \in Users |-> ShowProfile(u)]' = [u \in Users |-> ShowProfile(u)]
  BY <1>5, ProfilesShownSame
<1> QED BY <1>2, <1>3, <1>10, <1>11, <1>12, ViewMembers, ViewCommit DEF View!Sign, new

(* A revision moves nothing that the reads of this view tell apart.         *)
LEMMA ReviseShows ==
    ASSUME IInv, NEW r \in Requests, At(r, "revise", "write"), Revise(r)
    PROVE  UNCHANGED View!tables
<1>1. PICK c : c = target[r]
  OBVIOUS
<1>2. c \in Agreements
  BY <1>1 DEF At, IInv, Handled, Knows, KnowsContract
<1>3. PICK row : Revised(r, c, row)
  BY <1>1, ReviseAgrees
<1>4. /\ row \in ContractRow /\ c \in Requests
      /\ contracts' = [contracts EXCEPT ![c] = row] /\ UNCHANGED lawyers
      /\ row.lawyer = contracts[c].lawyer /\ row.client = contracts[c].client
  BY <1>2, <1>3 DEF Revised, Agrees, WriteContract, IInv, Handled, Standing, At
<1>5. row # NoRow /\ contracts[c] # NoRow
  BY <1>2, <1>4, NullAssumption DEF Agreements
<1>6. ASSUME NEW k \in Requests
      PROVE  ShowContract(k)' = ShowContract(k)
  BY <1>4, <1>5 DEF ShowContract, IInv, TypeOK
<1>7. [k \in Requests |-> ShowContract(k)]' = [k \in Requests |-> ShowContract(k)]
  BY <1>6
<1>8. [u \in Users |-> ShowProfile(u)]' = [u \in Users |-> ShowProfile(u)]
  BY <1>4, ProfilesShownSame
<1> QED BY <1>7, <1>8 DEF View!tables

Expected == UNCHANGED <<lawyers, contracts>> \/ [View!Write]_(View!tables)

LEMMA WriteShows ==
    ASSUME View!Write \/ UNCHANGED View!tables
    PROVE  Expected
BY DEF Expected

(* What the writing step of a handler commits, answered or not.             *)
LEMMA CommitShows ==
    ASSUME IInv, IInv', NEW r \in Requests,
           \/ At(r, "promote", "write") /\ InsertProfile(r)
           \/ At(r, "update", "write") /\ UpdateProfile(r)
           \/ At(r, "demote", "write") /\ SoftDelete(r)
           \/ At(r, "contract", "write") /\ InsertContract(r)
           \/ At(r, "revise", "write") /\ Revise(r)
    PROVE  Expected
<1>0. TypeOK' /\ Unique'
  BY DEF IInv
<1>1. CASE At(r, "promote", "write") /\ InsertProfile(r)
  <2>1. call[r].user \in Users /\ r \notin Profiles
    BY <1>1 DEF At, IInv, Handled, Standing, Knows, KnowsUser
  <2>2. Stores(r, r, [user |-> call[r].user, status |-> "active", deleted |-> FALSE])
    BY <1>1, <2>1 DEF InsertProfile, Stores, LawyerRow, LawyerStatus
  <2>3. View!Promote(call[r].user)
    BY <1>0, <1>1, <2>1, <2>2, PromoteShows DEF InsertProfile
  <2> QED BY <2>1, <2>3, WriteShows DEF View!Write
<1>2. CASE At(r, "update", "write") /\ UpdateProfile(r)
  <2> DEFINE l == target[r]
             s == IF call[r].status = Unset THEN seen[r].status ELSE call[r].status
  <2>1. PICK row : row = [lawyers[l] EXCEPT !.status = Column(seen[r].status, s, @)]
    OBVIOUS
  <2>2. l \in Profiles /\ lawyers[l] \in LawyerRow /\ seen[r] \in LawyerRow
    BY <1>2, RowFields DEF At, IInv, Handled, Knows, KnowsLawyer
  <2>3. s \in LawyerStatus
    BY <1>2, <2>2, CallFields DEF At, IInv, Handled, Standing, LawyerRow
  <2>4. row \in LawyerRow /\ row.user = lawyers[l].user /\ row.deleted = lawyers[l].deleted
    BY <2>1, <2>2, <2>3 DEF LawyerRow, Column
  <2>5. WriteLawyer(l, row)
    BY <1>2, <2>1 DEF UpdateProfile
  <2>6. Stores(r, l, row) /\ row.user \in Users
    BY <2>2, <2>4, <2>5 DEF Stores, Profiles, LawyerRow
  <2> HIDE DEF l, s
  <2>7. View!Update(row.user) \/ View!Demote(row.user)
    BY <1>0, <2>2, <2>4, <2>6, RewriteShows
  <2> QED BY <2>6, <2>7, WriteShows DEF View!Write
<1>3. CASE At(r, "demote", "write") /\ SoftDelete(r)
  <2> DEFINE l == target[r]
  <2>1. PICK row : row = [lawyers[l] EXCEPT
                            !.status = Column(seen[r].status, "inactive", @), !.deleted = TRUE]
    OBVIOUS
  <2>2. l \in Profiles /\ lawyers[l] \in LawyerRow
    BY <1>3, RowFields DEF At, IInv, Handled, Knows, KnowsLawyer
  <2>3. /\ row \in LawyerRow /\ row.user = lawyers[l].user /\ row.deleted = TRUE
        /\ row.status \in {"inactive", lawyers[l].status}
    BY <2>1, <2>2 DEF LawyerRow, LawyerStatus, Column
  <2>4. WriteLawyer(l, row)
    BY <1>3, <2>1 DEF SoftDelete
  <2>5. Stores(r, l, row) /\ row.user \in Users
    BY <2>2, <2>3, <2>4 DEF Stores, Profiles, LawyerRow
  <2> HIDE DEF l
  <2>6. View!Update(row.user) \/ View!Demote(row.user)
    BY <1>0, <2>2, <2>3, <2>5, RewriteShows
  <2> QED BY <2>5, <2>6, WriteShows DEF View!Write
<1>4. CASE At(r, "contract", "write") /\ InsertContract(r)
  BY <1>4, SignShows, WriteShows DEF View!Write
<1>5. CASE At(r, "revise", "write") /\ Revise(r)
  BY <1>5, ReviseShows, WriteShows
<1> QED BY <1>1, <1>2, <1>3, <1>4, <1>5

LEMMA HandleShows ==
    ASSUME IInv, IInv', NEW r \in Requests, Receive(r) \/ Handle(r)
    PROVE  Expected
<1>1. CASE UNCHANGED <<lawyers, contracts>>
  BY <1>1 DEF Expected
<1>2. CASE ~UNCHANGED <<lawyers, contracts>>
  <2>1. ~ReadOnly /\ ~Receive(r)
    BY <1>2 DEF ReadOnly, Receive
  <2>2. ~(PromoteRead(r) \/ LawyerRead(r) \/ ContractRead(r) \/ ReviseRead(r)
          \/ SubscribeRead(r) \/ Timeout(r) \/ Retry(r))
    BY <2>1 DEF PromoteRead, LawyerRead, ContractRead, ReviseRead, SubscribeRead, Timeout, Retry
  <2>3. ~SubscribeWrite(r)
    <3>1. At(r, "subscribe", "write") => target[r] \notin Profiles
      BY DistinctAssumption DEF At, IInv, Handled, Knows, KnowsUser, Profiles
    <3> QED BY <2>1, <3>1 DEF SubscribeWrite
  <2>4. CASE PromoteWrite(r)
    BY <2>1, <2>4, CommitShows DEF PromoteWrite
  <2>5. CASE UpdateWrite(r)
    BY <2>1, <2>5, CommitShows DEF UpdateWrite, At
  <2>6. CASE DemoteWrite(r)
    BY <2>6, CommitShows DEF DemoteWrite
  <2>7. CASE ContractWrite(r)
    BY <2>7, CommitShows DEF ContractWrite
  <2>8. CASE ReviseWrite(r)
    BY <2>1, <2>8, CommitShows DEF ReviseWrite
  <2>9. CASE CommitThenTimeout(r)
    BY <2>9, CommitShows DEF CommitThenTimeout
  <2> QED BY <2>1, <2>2, <2>3, <2>4, <2>5, <2>6, <2>7, <2>8, <2>9 DEF Handle
<1> QED BY <1>1, <1>2

(* However requests overlap, what they commit is what Reads lets its        *)
(* writers commit: one profile per user, kept with its instant and never    *)
(* brought back, and contracts that stay with their lawyer and client.      *)
THEOREM CommitsAreExpected == Spec => CommitsReadersExpect
<1>1. IInv /\ IInv' /\ [Next]_vars => [Expected]_vars
  BY HandleShows DEF Next
<1> QED BY <1>1, Invariance, PTL DEF Spec, CommitsReadersExpect, Expected
=============================================================================
