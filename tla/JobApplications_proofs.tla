----------------------- MODULE JobApplications_proofs -----------------------
(***************************************************************************)
(* Proofs about the first-generation applications, for any set of          *)
(* requests, processes, keys, addresses and applications from before.      *)
(***************************************************************************)
EXTENDS JobApplications, TLAPS

-----------------------------------------------------------------------------
(* The inductive invariant *)

JobLabels == Ended \cup
  {"idle", "create", "list", "erase", "analyze", "submit", "analyzing",
   "updating", "flushing"}

ApplicationIds == Requests \cup {seed.id : seed \in Seeds}

Statuses == {"draft", "applied"}

Rows == [id : ApplicationIds, status : Statuses, score : Requests \cup {NoOne},
         bidx : Addresses \cup {NoOne},
         cell : [Columns -> Cell \cup {NoOne}]]

Entities == [id : ApplicationIds, status : Statuses, score : Requests \cup {NoOne},
             value : [Columns -> Addresses \cup Letters \cup {NoOne}]]

Demands == [op : {"none", "create", "list", "erase", "analyze", "submit"},
            target : ApplicationIds \cup {NoOne},
            address : Addresses \cup {NoOne},
            by : Processes \cup {NoOne}, tries : Nat]

Keyrings == [keys : SUBSET Keys, active : Keys]

\* The requests that hold an application.
Drafting(p) == pc[p] \in {"analyzing", "updating", "flushing"}

JobTypes ==
  /\ jobApplications \subseteq Rows
  /\ revision \in {"0020", "0022", "0023"}
  /\ keyring \in Keyrings
  /\ loaded \in [Processes -> Keyrings]
  /\ pc \in [Requests -> JobLabels]
  /\ demand \in [Requests -> Demands]
  /\ draft \in [Requests -> Entities \cup {NoOne}]
  /\ current \in [Requests -> Entities \cup {NoOne}]
  /\ \A p \in Requests :
       /\ InFlight(p) => demand[p].by \in Processes
       /\ Drafting(p) => draft[p] \in Entities
       /\ pc[p] = "create" => demand[p].address \in Addresses

\* Whatever a process still signs with stays configured.
KeysInv ==
  /\ keyring.active \in keyring.keys
  /\ \A by \in Processes : loaded[by].active \in keyring.keys

\* Every value is under a configured key, or plain where its migration has
\* not run; every row has an address, and its index when there is one.
CellInv(row, c) ==
  row.cell[c] # NoOne =>
    /\ row.cell[c].column = c
    /\ \/ row.cell[c].key \in keyring.keys
       \/ /\ row.cell[c].key = NoOne
          /\ revision = "0020" \/ (revision = "0022" /\ c = "tailored_cover_letter")

RowInv(row) ==
  /\ \A c \in Columns : CellInv(row, c)
  /\ row.cell["candidate_email"] \in Cell
  /\ row.cell["candidate_email"].text \in Addresses
  /\ HasBlindIndex => row.bidx = Normalized[row.cell["candidate_email"].text]

\* An application has one address all its life: in its row, in every copy a
\* request holds, and in the row such a copy brings back.
OwnedBy(owner) ==
  /\ \A row \in jobApplications : row.cell["candidate_email"].text = owner[row.id]
  /\ \A p \in Requests : Drafting(p) =>
       /\ draft[p].value["candidate_email"] = owner[draft[p].id]
       /\ draft[p].value["candidate_email"] \in Addresses

OwnerInv ==
  /\ \E owner \in [ApplicationIds -> Addresses \cup {NoOne}] : OwnedBy(owner)
  /\ \A p \in Requests : current[p] # NoOne =>
       /\ pc[p] = "flushing"
       /\ current[p].value["candidate_email"] = draft[p].value["candidate_email"]
  /\ \A row, other \in jobApplications : row.id = other.id => row = other
  /\ \A p \in Requests : pc[p] \in {"idle", "create"} =>
       /\ \A row \in jobApplications : row.id # p
       /\ \A q \in Requests : Drafting(q) => draft[q].id # p

JobsInv ==
  /\ JobTypes
  /\ KeysInv
  /\ \A row \in jobApplications : RowInv(row)
  /\ OwnerInv

-----------------------------------------------------------------------------
(* Rows and entities *)

LEMMA BoundIsCell ==
  ASSUME NEW ring \in Keyrings, NEW c \in Columns,
         NEW value \in Addresses \cup Letters \cup {NoOne}
  PROVE  /\ value = NoOne => Bound(ring, c, value) = NoOne
         /\ value # NoOne =>
              /\ Bound(ring, c, value) \in Cell /\ Bound(ring, c, value) # NoOne
              /\ Bound(ring, c, value).key = ring.active
              /\ Bound(ring, c, value).column = c
              /\ Bound(ring, c, value).text = value
  <1>1. CASE value = NoOne
    BY <1>1 DEF Bound
  <1>2. CASE value # NoOne
    <2> DEFINE cell == [key |-> ring.active, column |-> c, text |-> value]
    <2>1. cell \in Cell
      BY <1>2 DEF Cell, Keyrings
    <2>2. cell # NoOne
      BY <2>1, NullIsNoCell
    <2>3. Bound(ring, c, value) = cell
      BY <1>2 DEF Bound, Encrypted, ActiveKey
    <2> QED BY <1>2, <2>1, <2>2, <2>3
  <1> QED BY <1>1, <1>2

LEMMA ColumnsAre ==
  /\ "candidate_email" \in Columns /\ "tailored_cover_letter" \in Columns
  /\ \A c \in Columns : c = "candidate_email" \/ c = "tailored_cover_letter"
  BY DEF Columns

LEMMA EntityOfRow ==
  ASSUME NEW row \in Rows, RowInv(row)
  PROVE  /\ Entity(row) \in Entities
         /\ Entity(row).id = row.id
         /\ Entity(row).value["candidate_email"] = row.cell["candidate_email"].text
  <1> DEFINE value == [c \in Columns |-> Text(row.cell[c])]
  <1>1. \A c \in Columns : Text(row.cell[c]) \in Addresses \cup Letters \cup {NoOne}
    BY DEF Rows, Text, Cell
  <1>2. value \in [Columns -> Addresses \cup Letters \cup {NoOne}]
    BY <1>1
  <1>3. value["candidate_email"] = row.cell["candidate_email"].text
    BY ColumnsAre, NullIsNoCell DEF RowInv, Text
  <1> HIDE DEF value
  <1>4. Entity(row) = [id |-> row.id, status |-> row.status, score |-> row.score,
                       value |-> value]
    BY DEF Entity, value
  <1>5. /\ row.id \in ApplicationIds /\ row.status \in Statuses
        /\ row.score \in Requests \cup {NoOne}
    BY DEF Rows
  <1> QED BY <1>2, <1>3, <1>4, <1>5 DEF Entities

\* Saving an entity writes a row under the key of the process.
LEMMA ToModelIsRow ==
  ASSUME NEW ring \in Keyrings, NEW e \in Entities, ring.active \in keyring.keys,
         e.value["candidate_email"] \in Addresses
  PROVE  /\ ToModel(ring, e) \in Rows /\ RowInv(ToModel(ring, e))
         /\ ToModel(ring, e).id = e.id
         /\ ToModel(ring, e).cell["candidate_email"].text = e.value["candidate_email"]
  <1> DEFINE cell == [c \in Columns |-> Bound(ring, c, e.value[c])]
             index == Normalized[e.value["candidate_email"]]
             new == ToModel(ring, e)
  <1>1. \A c \in Columns : e.value[c] \in Addresses \cup Letters \cup {NoOne}
    BY DEF Entities
  <1>2. \A c \in Columns : Bound(ring, c, e.value[c]) \in Cell \cup {NoOne}
    BY <1>1, BoundIsCell
  <1>3. cell \in [Columns -> Cell \cup {NoOne}]
    BY <1>2
  <1>4. index \in Addresses
    BY NormalizedIsAnAddress
  <1>5. e.value["candidate_email"] # NoOne
    BY NormalizedIsAnAddress
  <1>6. /\ cell["candidate_email"] \in Cell
        /\ cell["candidate_email"].text = e.value["candidate_email"]
    BY <1>1, <1>5, BoundIsCell, ColumnsAre
  <1>7. \A c \in Columns : cell[c] # NoOne => cell[c].column = c /\ cell[c].key = ring.active
    BY <1>1, BoundIsCell
  <1> HIDE DEF cell, index
  <1>8. new = [id |-> e.id, status |-> e.status, score |-> e.score,
               bidx |-> index, cell |-> cell]
    BY DEF ToModel, BlindIndex, cell, index
  <1> HIDE DEF new
  <1>9. new \in Rows
    BY <1>3, <1>4, <1>8 DEF Rows, Entities
  <1>10. new.cell = cell /\ new.bidx = index /\ new.id = e.id
    BY <1>8
  <1>11. RowInv(new)
    BY <1>6, <1>7, <1>10 DEF RowInv, CellInv, index
  <1> QED BY <1>6, <1>9, <1>10, <1>11 DEF new

\* So does the update of one, which leaves the address as it is.
LEMMA ApplyEntityIsRow ==
  ASSUME NEW row \in Rows, RowInv(row), NEW ring \in Keyrings,
         ring.active \in keyring.keys, NEW read \in Entities, NEW e \in Entities,
         read.value["candidate_email"] = e.value["candidate_email"]
  PROVE  /\ ApplyEntity(ring, row, read, e) \in Rows
         /\ RowInv(ApplyEntity(ring, row, read, e))
         /\ ApplyEntity(ring, row, read, e).id = row.id
         /\ ApplyEntity(ring, row, read, e).cell["candidate_email"] = row.cell["candidate_email"]
  <1> DEFINE cell == [c \in Columns |-> IF e.value[c] = read.value[c] THEN row.cell[c]
                                        ELSE Bound(ring, c, e.value[c])]
             status == Written(row.status, read.status, e.status)
             score == Written(row.score, read.score, e.score)
             new == ApplyEntity(ring, row, read, e)
  <1>1. \A c \in Columns : e.value[c] \in Addresses \cup Letters \cup {NoOne}
    BY DEF Entities
  <1>2. \A c \in Columns : row.cell[c] \in Cell \cup {NoOne}
    BY DEF Rows
  <1>3. cell \in [Columns -> Cell \cup {NoOne}]
    BY <1>1, <1>2, BoundIsCell
  <1>4. cell["candidate_email"] = row.cell["candidate_email"]
    BY ColumnsAre
  <1>5. \A c \in Columns :
          \/ cell[c] = row.cell[c]
          \/ cell[c] # NoOne => cell[c].column = c /\ cell[c].key = ring.active
    BY <1>1, BoundIsCell
  <1>6. status \in Statuses /\ score \in Requests \cup {NoOne}
    BY DEF Written, Rows, Entities
  <1> HIDE DEF cell, status, score
  <1>7. new = [row EXCEPT !.status = status, !.score = score, !.cell = cell]
    BY DEF ApplyEntity, cell, status, score, Rows
  <1> HIDE DEF new
  <1>8. /\ status \in Statuses /\ score \in Requests \cup {NoOne}
        /\ cell \in [Columns -> Cell \cup {NoOne}]
    BY <1>3, <1>6
  <1>9. new \in Rows
    <2> DEFINE once == [row EXCEPT !.status = status]
               twice == [once EXCEPT !.score = score]
    <2>1. once \in Rows
      BY <1>8 DEF Rows
    <2> HIDE DEF once
    <2>2. twice \in Rows
      BY <1>8, <2>1 DEF Rows
    <2> HIDE DEF twice
    <2>3. [twice EXCEPT !.cell = cell] \in Rows
      BY <1>8, <2>2 DEF Rows
    <2> QED BY <1>7, <2>3 DEF twice, once
  <1>10. new.cell = cell /\ new.bidx = row.bidx /\ new.id = row.id
    BY <1>7 DEF Rows
  <1>11. RowInv(new)
    BY <1>4, <1>5, <1>10 DEF RowInv, CellInv
  <1> QED BY <1>4, <1>9, <1>10, <1>11 DEF new

-----------------------------------------------------------------------------
(* Steps that leave the rows alone *)

LEMMA InitJobs ==
  ASSUME InitServing, NEW key \in Keys, JobsInit(key, Seeds)
  PROVE  JobsInv
  <1> USE DEF JobsInit
  <1>1. \A p \in Requests : pc[p] = "idle" /\ ~Drafting(p) /\ ~InFlight(p)
    BY DEF InitServing, Drafting, InFlight
  <1>2. ASSUME NEW seed \in Seeds
        PROVE  /\ SeedRow(seed) \in Rows /\ SeedRow(seed).id = seed.id
               /\ SeedRow(seed).cell["candidate_email"].text = seed.address
               /\ RowInv(SeedRow(seed))
    <2> DEFINE email == Plain("candidate_email", seed.address)
               letter == IF seed.letter = NoOne THEN NoOne
                         ELSE Plain("tailored_cover_letter", seed.letter)
               cell == [candidate_email |-> email, tailored_cover_letter |-> letter]
    <2>1. email \in Cell /\ email.text = seed.address /\ email.key = NoOne
          /\ email.column = "candidate_email" /\ seed.address \in Addresses
      BY SeedsAreApplications DEF Plain, Cell, Columns
    <2>2. /\ letter \in Cell \cup {NoOne}
          /\ letter # NoOne => letter.key = NoOne /\ letter.column = "tailored_cover_letter"
      BY DEF Plain, Cell, Columns, Letters
    <2> HIDE DEF email, letter
    <2>3. cell \in [Columns -> Cell \cup {NoOne}]
      BY <2>1, <2>2 DEF Columns
    <2>4. cell["candidate_email"] = email /\ cell["tailored_cover_letter"] = letter
      OBVIOUS
    <2> HIDE DEF cell
    <2>5. SeedRow(seed) = [id |-> seed.id, status |-> "draft", score |-> NoOne,
                           bidx |-> NoOne, cell |-> cell]
      BY DEF SeedRow, cell, email, letter
    <2>6. SeedRow(seed) \in Rows
      BY <2>3, <2>5 DEF Rows, Statuses, ApplicationIds
    <2>7. RowInv(SeedRow(seed))
      BY <2>1, <2>2, <2>4, <2>5, ColumnsAre DEF RowInv, CellInv, HasBlindIndex
    <2> QED BY <2>1, <2>4, <2>5, <2>6, <2>7
  <1>3. JobTypes
    <2>1. jobApplications \subseteq Rows
      BY <1>2
    <2>2. keyring \in Keyrings /\ loaded \in [Processes -> Keyrings]
      BY DEF Keyrings
    <2>3. pc \in [Requests -> JobLabels]
      BY DEF InitServing, JobLabels
    <2>4. NoDemand \in Demands
      BY DEF NoDemand, Demand, Demands
    <2>5. /\ demand \in [Requests -> Demands]
          /\ draft \in [Requests -> Entities \cup {NoOne}]
          /\ current \in [Requests -> Entities \cup {NoOne}]
      BY <2>4
    <2> QED BY <1>1, <2>1, <2>2, <2>3, <2>5 DEF JobTypes
  <1>4. KeysInv
    BY DEF KeysInv
  <1>5. \A row \in jobApplications : RowInv(row)
    BY <1>2
  <1>6. OwnerInv
    <2> DEFINE owner == [id \in ApplicationIds |->
                           IF \E seed \in Seeds : seed.id = id
                           THEN (CHOOSE seed \in Seeds : seed.id = id).address
                           ELSE NoOne]
    <2>1. \A seed \in Seeds : /\ seed.id \in ApplicationIds /\ seed.address \in Addresses
                              /\ (CHOOSE other \in Seeds : other.id = seed.id) = seed
      BY SeedsAreApplications DEF ApplicationIds
    <2>2. owner \in [ApplicationIds -> Addresses \cup {NoOne}]
      BY <2>1
    <2>3. \A seed \in Seeds : owner[seed.id] = seed.address
      BY <2>1
    <2> HIDE DEF owner
    <2>4. OwnedBy(owner)
      BY <1>1, <1>2, <2>3 DEF OwnedBy
    <2> QED BY <1>1, <1>2, <2>2, <2>4, SeedsAreApplications DEF OwnerInv
  <1> QED BY <1>3, <1>4, <1>5, <1>6 DEF JobsInv

\* A step of one request that leaves rows and keys alone: what it holds
\* afterwards it held before, or took from a row.
LEMMA HoldsOn ==
  ASSUME JobsInv, JobTypes', UNCHANGED <<jobApplications, revision, keyring, loaded>>,
         NEW p \in Requests, NEW label, pc' = [pc EXCEPT ![p] = label],
         \A q \in Requests \ {p} : draft'[q] = draft[q] /\ current'[q] = current[q],
         label \in {"analyzing", "updating", "flushing"} =>
           \/ /\ Drafting(p) /\ draft'[p].id = draft[p].id
              /\ draft'[p].value["candidate_email"] = draft[p].value["candidate_email"]
           \/ \E row \in jobApplications :
                /\ draft'[p].id = row.id
                /\ draft'[p].value["candidate_email"] = row.cell["candidate_email"].text,
         current'[p] # NoOne =>
           /\ label = "flushing"
           /\ current'[p].value["candidate_email"] = draft'[p].value["candidate_email"],
         label \in {"idle", "create"} => pc[p] \in {"idle", "create"}
  PROVE  JobsInv'
  <1> USE DEF JobsInv
  <1>1. /\ pc'[p] = label
        /\ \A q \in Requests \ {p} : pc'[q] = pc[q] /\ (Drafting(q)' <=> Drafting(q))
        /\ Drafting(p)' <=> label \in {"analyzing", "updating", "flushing"}
    BY DEF JobTypes, Drafting
  <1>2. KeysInv'
    BY DEF KeysInv
  <1>3. \A row \in jobApplications : RowInv(row)'
    BY DEF RowInv, CellInv, HasBlindIndex
  <1>4. PICK owner \in [ApplicationIds -> Addresses \cup {NoOne}] : OwnedBy(owner)
    BY DEF OwnerInv
  <1>5. OwnedBy(owner)'
    <2>1. ASSUME NEW q \in Requests, Drafting(q)'
          PROVE  /\ draft'[q].value["candidate_email"] = owner[draft'[q].id]
                 /\ draft'[q].value["candidate_email"] \in Addresses
      <3>1. CASE q = p
        BY <1>1, <1>4, <2>1, <3>1 DEF OwnedBy, RowInv
      <3>2. CASE q # p
        BY <1>1, <1>4, <2>1, <3>2 DEF OwnedBy
      <3> QED BY <3>1, <3>2
    <2> QED BY <1>4, <2>1 DEF OwnedBy
  <1>6. ASSUME NEW q \in Requests, current'[q] # NoOne
        PROVE  /\ pc'[q] = "flushing"
               /\ current'[q].value["candidate_email"] = draft'[q].value["candidate_email"]
    <2>1. CASE q = p
      BY <1>1, <1>6, <2>1
    <2>2. CASE q # p
      BY <1>1, <1>6, <2>2 DEF OwnerInv
    <2> QED BY <2>1, <2>2
  <1>7. ASSUME NEW q \in Requests, pc'[q] \in {"idle", "create"}
        PROVE  /\ \A row \in jobApplications : row.id # q
               /\ \A r \in Requests : Drafting(r)' => draft'[r].id # q
    <2>1. pc[q] \in {"idle", "create"}
      BY <1>1, <1>7
    <2>2. \A row \in jobApplications : row.id # q
      BY <2>1 DEF OwnerInv
    <2>3. \A r \in Requests : Drafting(r) => draft[r].id # q
      BY <2>1 DEF OwnerInv
    <2>4. ASSUME NEW r \in Requests, Drafting(r)' PROVE draft'[r].id # q
      <3>1. CASE r = p
        BY <1>1, <2>2, <2>3, <2>4, <3>1
      <3>2. CASE r # p
        BY <1>1, <2>3, <2>4, <3>2
      <3> QED BY <3>1, <3>2
    <2> QED BY <2>2, <2>4
  <1>8. OwnerInv'
    BY <1>4, <1>5, <1>6, <1>7 DEF OwnerInv
  <1> QED BY <1>2, <1>3, <1>8

\* What is left of a request that is through.
LEMMA EndsTyped ==
  ASSUME JobTypes, NEW p \in Requests, NEW label \in Ended, Ends(p, label),
         jobApplications' \subseteq Rows, UNCHANGED <<revision, keyring, loaded>>
  PROVE  /\ JobTypes'
         /\ pc' = [pc EXCEPT ![p] = label]
         /\ \A q \in Requests \ {p} : draft'[q] = draft[q] /\ current'[q] = current[q]
         /\ current'[p] = NoOne
  <1>1. /\ pc' = [pc EXCEPT ![p] = label]
        /\ demand' = [demand EXCEPT ![p] = NoDemand]
        /\ draft' = [draft EXCEPT ![p] = NoOne]
        /\ current' = [current EXCEPT ![p] = NoOne]
    BY DEF Ends, Goto
  <1>2. NoDemand \in Demands
    BY DEF NoDemand, Demand, Demands
  <1>3. /\ pc' \in [Requests -> JobLabels]
        /\ demand' \in [Requests -> Demands]
        /\ draft' \in [Requests -> Entities \cup {NoOne}]
        /\ current' \in [Requests -> Entities \cup {NoOne}]
    BY <1>1, <1>2 DEF JobTypes, JobLabels
  <1>4. ASSUME NEW q \in Requests
        PROVE  /\ InFlight(q)' => demand'[q].by \in Processes
               /\ Drafting(q)' => draft'[q] \in Entities
               /\ pc'[q] = "create" => demand'[q].address \in Addresses
    <2>1. CASE q = p
      BY <1>1, <2>1 DEF JobTypes, InFlight, Drafting, Ended
    <2>2. CASE q # p
      BY <1>1, <2>2 DEF JobTypes, InFlight, Drafting
    <2> QED BY <2>1, <2>2
  <1> QED BY <1>1, <1>3, <1>4 DEF JobTypes

LEMMA EndsKeeps ==
  ASSUME JobsInv, NEW p \in Requests, NEW label \in Ended, Ends(p, label),
         UNCHANGED <<jobApplications, revision, keyring, loaded>>
  PROVE  JobsInv'
  <1>1. /\ JobTypes' /\ pc' = [pc EXCEPT ![p] = label]
        /\ \A q \in Requests \ {p} : draft'[q] = draft[q] /\ current'[q] = current[q]
        /\ current'[p] = NoOne
    BY EndsTyped DEF JobsInv, JobTypes
  <1>2. label \notin {"analyzing", "updating", "flushing", "idle", "create"}
    BY DEF Ended
  <1> QED BY <1>1, <1>2, HoldsOn

\* A request that goes on, with what it asks for kept by the same process.
LEMMA GoesOnTyped ==
  ASSUME JobTypes, NEW p \in Requests, NEW label \in JobLabels,
         UNCHANGED <<jobApplications, revision, keyring, loaded>>,
         pc' = [pc EXCEPT ![p] = label],
         demand' \in [Requests -> Demands],
         draft' \in [Requests -> Entities \cup {NoOne}],
         current' \in [Requests -> Entities \cup {NoOne}],
         \A q \in Requests \ {p} : demand'[q] = demand[q] /\ draft'[q] = draft[q],
         demand'[p].by \in Processes,
         label \in {"analyzing", "updating", "flushing"} => draft'[p] \in Entities,
         label = "create" => demand'[p].address \in Addresses
  PROVE  JobTypes'
  <1>1. /\ pc' \in [Requests -> JobLabels] /\ pc'[p] = label
        /\ \A q \in Requests \ {p} : pc'[q] = pc[q]
    BY DEF JobTypes
  <1>2. ASSUME NEW q \in Requests
        PROVE  /\ InFlight(q)' => demand'[q].by \in Processes
               /\ Drafting(q)' => draft'[q] \in Entities
               /\ pc'[q] = "create" => demand'[q].address \in Addresses
    <2>1. CASE q = p
      BY <1>1, <2>1 DEF Drafting
    <2>2. CASE q # p
      BY <1>1, <2>2 DEF JobTypes, InFlight, Drafting
    <2> QED BY <2>1, <2>2
  <1> QED BY <1>1, <1>2 DEF JobTypes

\* An assignment to what a request holds.
LEMMA Replaced ==
  ASSUME NEW S, NEW f \in [Requests -> S], NEW p \in Requests, NEW v \in S,
         NEW g, g = [f EXCEPT ![p] = v]
  PROVE  /\ g \in [Requests -> S] /\ g[p] = v
         /\ \A q \in Requests \ {p} : g[q] = f[q]
  OBVIOUS

LEMMA AskKeeps ==
  ASSUME JobsInv, NEW p \in Requests, AskAbout(p)
  PROVE  JobsInv'
  <1> USE DEF JobsInv
  <1>1. /\ pc[p] = "idle"
        /\ UNCHANGED <<jobApplications, revision, keyring, loaded, draft, current>>
        /\ pc' = [pc EXCEPT ![p] = demand'[p].op]
    BY DEF AskAbout, MayStart, Goto
  <1>2. Ids \subseteq ApplicationIds
    BY DEF Ids, JobTypes, Rows
  <1>3. PICK by \in Processes, d \in Demands :
          /\ demand' = [demand EXCEPT ![p] = d] /\ d.by = by
          /\ d.op \in {"create", "list", "erase", "analyze", "submit"}
          /\ d.op = "create" => d.address \in Addresses
    <2>1. PICK by \in Processes :
            \/ \E a \in Addresses, op \in {"create", "list", "erase"} :
                 demand' = [demand EXCEPT ![p] = Demand(op, NoOne, a, by)]
            \/ \E id \in Ids, op \in {"analyze", "submit"} :
                 demand' = [demand EXCEPT ![p] = Demand(op, id, NoOne, by)]
      BY DEF AskAbout
    <2>2. CASE \E a \in Addresses, op \in {"create", "list", "erase"} :
                 demand' = [demand EXCEPT ![p] = Demand(op, NoOne, a, by)]
      <3>1. PICK a \in Addresses, op \in {"create", "list", "erase"} :
              demand' = [demand EXCEPT ![p] = Demand(op, NoOne, a, by)]
        BY <2>2
      <3>2. Demand(op, NoOne, a, by) \in Demands
            /\ Demand(op, NoOne, a, by).by = by /\ Demand(op, NoOne, a, by).op = op
            /\ Demand(op, NoOne, a, by).address = a
        BY DEF Demand, Demands
      <3> QED BY <3>1, <3>2
    <2>3. CASE \E id \in Ids, op \in {"analyze", "submit"} :
                 demand' = [demand EXCEPT ![p] = Demand(op, id, NoOne, by)]
      <3>1. PICK id \in Ids, op \in {"analyze", "submit"} :
              demand' = [demand EXCEPT ![p] = Demand(op, id, NoOne, by)]
        BY <2>3
      <3>2. Demand(op, id, NoOne, by) \in Demands
            /\ Demand(op, id, NoOne, by).by = by /\ Demand(op, id, NoOne, by).op = op
        BY <1>2 DEF Demand, Demands
      <3> QED BY <3>1, <3>2
    <2> QED BY <2>1, <2>2, <2>3
  <1>4. demand' \in [Requests -> Demands] /\ demand'[p] = d
        /\ \A q \in Requests \ {p} : demand'[q] = demand[q]
    BY <1>3 DEF JobTypes
  <1>5. d.op \in JobLabels /\ d.op \notin {"analyzing", "updating", "flushing"}
    BY <1>3 DEF JobLabels
  <1>6. JobTypes'
    BY <1>1, <1>3, <1>4, <1>5, GoesOnTyped DEF JobTypes
  <1>7. current'[p] = NoOne
    BY <1>1 DEF OwnerInv
  <1> QED BY <1>1, <1>4, <1>5, <1>6, <1>7, HoldsOn

\* A failed analysis is over, or starts again with nothing in its hands.
LEMMA RaisesKeeps ==
  ASSUME JobsInv, NEW p \in Requests, Raises(p), InFlight(p)
  PROVE  JobsInv'
  <1> USE DEF JobsInv
  <1>1. UNCHANGED <<jobApplications, revision, keyring, loaded>>
    BY DEF Raises
  <1>2. CASE demand[p].by = Worker /\ demand[p].tries < MaxTries
    <2>1. /\ demand' = [demand EXCEPT ![p].tries = @ + 1]
          /\ draft' = [draft EXCEPT ![p] = NoOne]
          /\ current' = [current EXCEPT ![p] = NoOne]
          /\ pc' = [pc EXCEPT ![p] = "analyze"]
      BY <1>2 DEF Raises, Goto
    <2>2. demand[p] \in Demands /\ demand[p].by \in Processes
      BY DEF JobTypes
    <2>3. [demand[p] EXCEPT !.tries = @ + 1] \in Demands
          /\ [demand[p] EXCEPT !.tries = @ + 1].by = demand[p].by
      BY <2>2 DEF Demands
    <2>4. /\ demand' \in [Requests -> Demands] /\ demand'[p].by \in Processes
          /\ \A q \in Requests \ {p} : demand'[q] = demand[q]
      BY <2>1, <2>2, <2>3 DEF JobTypes
    <2>5. "analyze" \in JobLabels
      BY DEF JobLabels
    <2>6. /\ draft' \in [Requests -> Entities \cup {NoOne}]
          /\ current' \in [Requests -> Entities \cup {NoOne}]
          /\ \A q \in Requests \ {p} : draft'[q] = draft[q] /\ current'[q] = current[q]
          /\ current'[p] = NoOne
      BY <2>1 DEF JobTypes
    <2>7. JobTypes'
      BY <1>1, <2>1, <2>4, <2>5, <2>6, GoesOnTyped
    <2> QED BY <1>1, <2>1, <2>6, <2>7, HoldsOn
  <1>3. CASE ~(demand[p].by = Worker /\ demand[p].tries < MaxTries)
    BY <1>1, <1>3, EndsKeeps DEF Raises, Ended
  <1> QED BY <1>2, <1>3

\* What is selected is a row, as the process reads it.
LEMMA SelectedIsRow ==
  ASSUME JobsInv, NEW p \in Requests, NEW id, NEW row \in Selected(p, id)
  PROVE  /\ row \in jobApplications /\ row \in Rows /\ RowInv(row) /\ row.id = id
         /\ Entity(row) \in Entities /\ Entity(row).id = row.id
         /\ Entity(row).value["candidate_email"] = row.cell["candidate_email"].text
  <1>1. row \in jobApplications /\ row \in Rows /\ RowInv(row) /\ row.id = id
    BY DEF Selected, JobsInv, JobTypes
  <1> QED BY <1>1, EntityOfRow

LEMMA AsksOn ==
  ASSUME JobTypes, NEW p \in Requests, InFlight(p), UNCHANGED demand
  PROVE  /\ demand' \in [Requests -> Demands] /\ demand'[p].by \in Processes
         /\ \A q \in Requests \ {p} : demand'[q] = demand[q]
  BY DEF JobTypes

\* A request takes an application into its hands.
LEMMA TakesKeeps ==
  ASSUME JobsInv, NEW p \in Requests, InFlight(p),
         Goto(p, "analyzing") \/ Goto(p, "updating"),
         UNCHANGED <<jobApplications, revision, keyring, loaded, demand, current>>,
         current[p] = NoOne,
         \E e \in Entities, row \in jobApplications :
           /\ draft' = [draft EXCEPT ![p] = e] /\ e.id = row.id
           /\ e.value["candidate_email"] = row.cell["candidate_email"].text
  PROVE  JobsInv'
  <1> USE DEF JobsInv
  <1>0. PICK e \in Entities, row \in jobApplications :
          /\ draft' = [draft EXCEPT ![p] = e] /\ e.id = row.id
          /\ e.value["candidate_email"] = row.cell["candidate_email"].text
    OBVIOUS
  <1>1. PICK label \in JobLabels : pc' = [pc EXCEPT ![p] = label]
                                  /\ label \in {"analyzing", "updating"}
    BY DEF JobLabels, Goto
  <1>2. /\ draft' \in [Requests -> Entities \cup {NoOne}] /\ draft'[p] = e
        /\ \A q \in Requests \ {p} : draft'[q] = draft[q]
    BY <1>0 DEF JobTypes
  <1>3. JobTypes'
    BY <1>1, <1>2, AsksOn, GoesOnTyped DEF JobTypes
  <1> QED BY <1>0, <1>1, <1>2, <1>3, HoldsOn

LEMMA ReadToSubmitKeeps ==
  ASSUME JobsInv, NEW p \in Requests, ReadApplicationToSubmit(p)
  PROVE  JobsInv'
  <1>1. /\ pc[p] = "submit"
        /\ UNCHANGED <<jobApplications, revision, keyring, loaded>>
    BY DEF ReadApplicationToSubmit
  <1>2. CASE Ends(p, "failed")
    BY <1>1, <1>2, EndsKeeps DEF Ended
  <1>3. CASE \E row \in Selected(p, demand[p].target) :
               /\ draft' = [draft EXCEPT ![p] = [Entity(row) EXCEPT !.status = "applied"]]
               /\ Goto(p, "updating")
               /\ UNCHANGED <<demand, current>>
    <2>1. PICK row \in Selected(p, demand[p].target) :
               /\ draft' = [draft EXCEPT ![p] = [Entity(row) EXCEPT !.status = "applied"]]
               /\ Goto(p, "updating")
               /\ UNCHANGED <<demand, current>>
      BY <1>3
    <2> DEFINE e == Entity(row)
               a == [e EXCEPT !.status = "applied"]
    <2>2. /\ row \in jobApplications /\ e \in Entities /\ e.id = row.id
          /\ e.value["candidate_email"] = row.cell["candidate_email"].text
      BY SelectedIsRow
    <2> HIDE DEF e
    <2>3. a \in Entities /\ a.id = e.id /\ a.value = e.value
      BY <2>2 DEF Entities, Statuses
    <2>4. draft' = [draft EXCEPT ![p] = a]
      BY <2>1 DEF e
    <2>5. InFlight(p)
      BY <1>1 DEF InFlight, Ended
    <2> HIDE DEF a
    <2>6. \E taken \in Entities, held \in jobApplications :
            /\ draft' = [draft EXCEPT ![p] = taken] /\ taken.id = held.id
            /\ taken.value["candidate_email"] = held.cell["candidate_email"].text
      BY <2>2, <2>3, <2>4
    <2>7. current[p] = NoOne
      BY <1>1 DEF JobsInv, OwnerInv
    <2> QED BY <1>1, <2>1, <2>5, <2>6, <2>7, TakesKeeps
  <1> QED BY <1>2, <1>3 DEF ReadApplicationToSubmit

LEMMA ReadToAnalyzeKeeps ==
  ASSUME JobsInv, NEW p \in Requests, ReadApplicationToAnalyze(p)
  PROVE  JobsInv'
  <1>1. /\ InFlight(p) /\ Goto(p, "analyzing")
        /\ UNCHANGED <<jobApplications, revision, keyring, loaded, demand, current>>
    BY DEF ReadApplicationToAnalyze, InFlight, Ended
  <1>2. PICK row \in Selected(p, demand[p].target) :
               draft' = [draft EXCEPT ![p] = Entity(row)]
    BY DEF ReadApplicationToAnalyze
  <1>3. \E taken \in Entities, held \in jobApplications :
          /\ draft' = [draft EXCEPT ![p] = taken] /\ taken.id = held.id
          /\ taken.value["candidate_email"] = held.cell["candidate_email"].text
    <2> DEFINE e == Entity(row)
    <2>1. /\ row \in jobApplications /\ e \in Entities /\ e.id = row.id
          /\ e.value["candidate_email"] = row.cell["candidate_email"].text
      BY SelectedIsRow
    <2>2. draft' = [draft EXCEPT ![p] = e]
      BY <1>2
    <2> HIDE DEF e
    <2> QED BY <2>1, <2>2
  <1>4. current[p] = NoOne
    BY DEF ReadApplicationToAnalyze, JobsInv, OwnerInv
  <1> QED BY <1>1, <1>3, <1>4, TakesKeeps

LEMMA AttachKeeps ==
  ASSUME JobsInv, NEW p \in Requests, AttachAnalysis(p)
  PROVE  JobsInv'
  <1> USE DEF JobsInv
  <1>1. /\ pc[p] = "analyzing" /\ pc' = [pc EXCEPT ![p] = "updating"]
        /\ UNCHANGED <<jobApplications, revision, keyring, loaded, demand, current>>
    BY DEF AttachAnalysis, Goto
  <1>2. InFlight(p) /\ Drafting(p) /\ draft[p] \in Entities
    BY <1>1 DEF InFlight, Ended, Drafting, JobTypes
  <1>3. PICK letter \in {p, draft[p].value["tailored_cover_letter"]} :
          draft' = [draft EXCEPT ![p].score = p,
                                 ![p].value["tailored_cover_letter"] = letter]
    BY DEF AttachAnalysis
  <1> DEFINE old == draft[p]
             value == [old.value EXCEPT !["tailored_cover_letter"] = letter]
             e == [[old EXCEPT !.score = p] EXCEPT !.value = value]
  <1>4. letter \in Addresses \cup Letters \cup {NoOne}
    BY <1>2, ColumnsAre DEF Entities, Letters
  <1>5. /\ value \in [Columns -> Addresses \cup Letters \cup {NoOne}]
        /\ value["candidate_email"] = old.value["candidate_email"]
    BY <1>2, <1>4, ColumnsAre DEF Entities
  <1>6. draft' = [draft EXCEPT ![p] = e]
    BY <1>2, <1>3 DEF JobTypes, Entities
  <1> HIDE DEF value, old
  <1>7. e \in Entities /\ e.id = old.id /\ e.value = value
    BY <1>2, <1>5 DEF Entities, old
  <1> HIDE DEF e
  <1>8. "updating" \in JobLabels
    BY DEF JobLabels
  <1>9. /\ draft' \in [Requests -> Entities \cup {NoOne}] /\ draft'[p] = e
        /\ \A q \in Requests \ {p} : draft'[q] = draft[q]
    BY <1>6, <1>7 DEF JobTypes
  <1>10. JobTypes'
    BY <1>1, <1>2, <1>7, <1>8, <1>9, AsksOn, GoesOnTyped DEF JobTypes
  <1>11. current[p] = NoOne
    BY <1>1 DEF OwnerInv
  <1> QED BY <1>1, <1>2, <1>5, <1>7, <1>9, <1>10, <1>11, HoldsOn DEF old

\* `update` reads the row of the application it holds: the address is the same.
LEMMA GetKeeps ==
  ASSUME JobsInv, NEW p \in Requests, GetForUpdate(p)
  PROVE  JobsInv'
  <1> USE DEF JobsInv
  <1>1. /\ pc[p] = "updating" /\ pc' = [pc EXCEPT ![p] = "flushing"]
        /\ UNCHANGED <<jobApplications, revision, keyring, loaded, demand, draft>>
    BY DEF GetForUpdate, Goto
  <1>2. InFlight(p) /\ Drafting(p) /\ draft[p] \in Entities /\ "flushing" \in JobLabels
    BY <1>1 DEF InFlight, Ended, Drafting, JobTypes, JobLabels
  <1>3. /\ current' \in [Requests -> Entities \cup {NoOne}]
        /\ \A q \in Requests \ {p} : current'[q] = current[q]
        /\ current'[p] # NoOne =>
             current'[p].value["candidate_email"] = draft[p].value["candidate_email"]
    <2>1. CASE \E row \in Selected(p, draft[p].id) :
                 current' = [current EXCEPT ![p] = Entity(row)]
      <3>1. PICK row \in Selected(p, draft[p].id) :
                 current' = [current EXCEPT ![p] = Entity(row)]
        BY <2>1
      <3> DEFINE e == Entity(row)
      <3>2. /\ row \in jobApplications /\ row.id = draft[p].id /\ e \in Entities
            /\ e.value["candidate_email"] = row.cell["candidate_email"].text
        BY SelectedIsRow
      <3>3. current' = [current EXCEPT ![p] = e]
        BY <3>1
      <3> HIDE DEF e
      <3>4. PICK owner \in [ApplicationIds -> Addresses \cup {NoOne}] : OwnedBy(owner)
        BY DEF OwnerInv
      <3>5. row.cell["candidate_email"].text = draft[p].value["candidate_email"]
        BY <1>2, <3>2, <3>4 DEF OwnedBy
      <3> QED BY <3>2, <3>3, <3>5 DEF JobTypes
    <2>2. CASE UNCHANGED current
      BY <1>1, <2>2 DEF JobTypes, OwnerInv
    <2> QED BY <2>1, <2>2 DEF GetForUpdate
  <1>4. JobTypes'
    BY <1>1, <1>2, <1>3, AsksOn, GoesOnTyped DEF JobTypes
  <1> QED BY <1>1, <1>2, <1>3, <1>4, HoldsOn

-----------------------------------------------------------------------------
(* Steps that change the rows *)

LEMMA RowsChange ==
  ASSUME JobsInv, NEW p \in Requests, NEW label \in Ended, Ends(p, label),
         UNCHANGED <<revision, keyring, loaded>>,
         jobApplications' \subseteq Rows,
         \A row \in jobApplications' : RowInv(row),
         \A row, other \in jobApplications' : row.id = other.id => row = other,
         \A row \in jobApplications', q \in Requests \ {p} :
           pc[q] \in {"idle", "create"} => row.id # q,
         NEW owner \in [ApplicationIds -> Addresses \cup {NoOne}],
         \A row \in jobApplications' :
           row.cell["candidate_email"].text = owner[row.id],
         \A q \in Requests \ {p} : Drafting(q) =>
           draft[q].value["candidate_email"] = owner[draft[q].id]
  PROVE  JobsInv'
  <1> USE DEF JobsInv
  <1>1. /\ JobTypes' /\ pc' = [pc EXCEPT ![p] = label]
        /\ \A q \in Requests \ {p} : draft'[q] = draft[q] /\ current'[q] = current[q]
        /\ current'[p] = NoOne
    BY EndsTyped
  <1>2. /\ \A q \in Requests \ {p} : pc'[q] = pc[q] /\ (Drafting(q)' <=> Drafting(q))
        /\ ~Drafting(p)' /\ pc'[p] \notin {"idle", "create"}
    BY <1>1 DEF JobTypes, Drafting, Ended
  <1>3. KeysInv' /\ \A row \in jobApplications' : RowInv(row)'
    BY DEF KeysInv, RowInv, CellInv, HasBlindIndex
  <1>4. OwnedBy(owner)'
    <2>1. PICK before \in [ApplicationIds -> Addresses \cup {NoOne}] : OwnedBy(before)
      BY DEF OwnerInv
    <2> QED BY <1>1, <1>2, <2>1 DEF OwnedBy
  <1>5. \A q \in Requests : current'[q] # NoOne =>
          /\ pc'[q] = "flushing"
          /\ current'[q].value["candidate_email"] = draft'[q].value["candidate_email"]
    BY <1>1, <1>2 DEF OwnerInv
  <1>6. ASSUME NEW q \in Requests, pc'[q] \in {"idle", "create"}
        PROVE  /\ \A row \in jobApplications' : row.id # q
               /\ \A r \in Requests : Drafting(r)' => draft'[r].id # q
    <2>1. q # p /\ pc[q] \in {"idle", "create"}
      BY <1>2, <1>6
    <2> QED BY <1>1, <1>2, <2>1 DEF OwnerInv
  <1>7. OwnerInv'
    BY <1>4, <1>5, <1>6 DEF OwnerInv
  <1> QED BY <1>1, <1>3, <1>7

LEMMA RingIsSound ==
  ASSUME JobsInv, NEW p \in Requests, InFlight(p)
  PROVE  Ring(p) \in Keyrings /\ Ring(p).active \in keyring.keys
  BY DEF JobsInv, JobTypes, KeysInv, Ring

LEMMA CreateKeeps ==
  ASSUME JobsInv, NEW p \in Requests, CreateApplication(p)
  PROVE  JobsInv'
  <1> USE DEF JobsInv
  <1> DEFINE value == [candidate_email |-> Normalized[demand[p].address],
                       tailored_cover_letter |-> NoOne]
             e == [id |-> p, status |-> "draft", score |-> NoOne, value |-> value]
             new == ToModel(Ring(p), e)
             address == Normalized[demand[p].address]
  <1>1. /\ pc[p] = "create" /\ InFlight(p) /\ Ends(p, "ok") /\ "ok" \in Ended
        /\ jobApplications' = jobApplications \cup {new}
        /\ UNCHANGED <<revision, keyring, loaded>>
    BY DEF CreateApplication, InFlight, Ended
  <1>2. address \in Addresses
    BY <1>1, NormalizedIsAnAddress DEF JobTypes
  <1>3. /\ value \in [Columns -> Addresses \cup Letters \cup {NoOne}]
        /\ value["candidate_email"] = address
    BY <1>2 DEF Columns
  <1> HIDE DEF value, address
  <1>4. e \in Entities /\ e.id = p /\ e.value["candidate_email"] = address
    BY <1>3 DEF Entities, Statuses, ApplicationIds
  <1> HIDE DEF e
  <1>5. Ring(p) \in Keyrings /\ Ring(p).active \in keyring.keys
    BY <1>1, RingIsSound
  <1>6. /\ new \in Rows /\ RowInv(new) /\ new.id = p
        /\ new.cell["candidate_email"].text = address
    BY <1>2, <1>4, <1>5, ToModelIsRow
  <1> HIDE DEF new
  <1>7. \A row \in jobApplications : row.id # p
    BY <1>1 DEF OwnerInv
  <1>8. \A q \in Requests : Drafting(q) => draft[q].id # p /\ draft[q] \in Entities
    BY <1>1 DEF OwnerInv, JobTypes
  <1>9. PICK before \in [ApplicationIds -> Addresses \cup {NoOne}] : OwnedBy(before)
    BY DEF OwnerInv
  <1> DEFINE owner == [before EXCEPT ![p] = address]
  <1>10. owner \in [ApplicationIds -> Addresses \cup {NoOne}]
    BY <1>2
  <1>11. owner[p] = address /\ \A id \in ApplicationIds \ {p} : owner[id] = before[id]
    BY DEF ApplicationIds
  <1> HIDE DEF owner
  <1>12. \A row \in jobApplications : row.id \in ApplicationIds
    BY DEF JobTypes, Rows
  <1>13. \A row \in jobApplications' : row.cell["candidate_email"].text = owner[row.id]
    BY <1>1, <1>6, <1>7, <1>9, <1>11, <1>12 DEF OwnedBy
  <1>14. \A q \in Requests \ {p} : Drafting(q) =>
           draft[q].value["candidate_email"] = owner[draft[q].id]
    BY <1>8, <1>9, <1>11 DEF OwnedBy, Entities
  <1>15. \A row, other \in jobApplications' : row.id = other.id => row = other
    BY <1>1, <1>6, <1>7 DEF OwnerInv
  <1>16. \A row \in jobApplications', q \in Requests \ {p} :
           pc[q] \in {"idle", "create"} => row.id # q
    BY <1>1, <1>6 DEF OwnerInv
  <1>17. jobApplications' \subseteq Rows /\ \A row \in jobApplications' : RowInv(row)
    BY <1>1, <1>6 DEF JobTypes
  <1> HIDE DEF JobsInv
  <1> QED BY <1>1, <1>10, <1>13, <1>14, <1>15, <1>16, <1>17, RowsChange

\* A copy that is written back is the row's, or brings an erased row back
\* as it was found.
LEMMA CommitKeeps ==
  ASSUME JobsInv, NEW p \in Requests, CommitApplication(p)
  PROVE  JobsInv'
  <1> USE DEF JobsInv
  <1> DEFINE e == draft[p]
             address == e.value["candidate_email"]
  <1>1. /\ pc[p] = "flushing" /\ InFlight(p) /\ Ends(p, "ok") /\ "ok" \in Ended
        /\ Drafting(p) /\ UNCHANGED <<revision, keyring, loaded>>
        /\ CommitFits(p)
    BY DEF CommitApplication, InFlight, Drafting, Ended
  <1>2. e \in Entities
    BY <1>1 DEF JobTypes
  <1>3. PICK owner \in [ApplicationIds -> Addresses \cup {NoOne}] : OwnedBy(owner)
    BY DEF OwnerInv
  <1>4. /\ \A row \in jobApplications : row.cell["candidate_email"].text = owner[row.id]
        /\ \A q \in Requests : Drafting(q) =>
             draft[q].value["candidate_email"] = owner[draft[q].id]
    BY <1>3 DEF OwnedBy
  <1>5. Ring(p) \in Keyrings /\ Ring(p).active \in keyring.keys
    BY <1>1, RingIsSound
  <1>6. ASSUME NEW gone \in SUBSET jobApplications, NEW new \in Rows, RowInv(new),
               new.id = e.id, new.cell["candidate_email"].text = owner[e.id],
               jobApplications' = (jobApplications \ gone) \cup {new},
               \A row \in jobApplications \ gone : row.id # e.id
        PROVE  JobsInv'
    <2>1. \A row \in jobApplications' : row.cell["candidate_email"].text = owner[row.id]
      BY <1>4, <1>6
    <2>2. \A row, other \in jobApplications' : row.id = other.id => row = other
      BY <1>6 DEF OwnerInv
    <2>3. \A row \in jobApplications', q \in Requests \ {p} :
            pc[q] \in {"idle", "create"} => row.id # q
      BY <1>1, <1>6 DEF OwnerInv
    <2>4. jobApplications' \subseteq Rows /\ \A row \in jobApplications' : RowInv(row)
      BY <1>6 DEF JobTypes
    <2>5. JobsInv
      OBVIOUS
    <2> HIDE DEF JobsInv
    <2> QED BY <1>1, <1>4, <2>1, <2>2, <2>3, <2>4, <2>5, RowsChange
  <1>7. CASE current[p] = NoOne
    <2> DEFINE new == ToModel(Ring(p), e)
    <2>1. /\ jobApplications' = jobApplications \cup {new}
          /\ \A row \in jobApplications : row.id # e.id
      BY <1>1, <1>7 DEF CommitApplication, CommitFits, Ids
    <2>2. address \in Addresses
      BY <1>1, <1>3 DEF OwnedBy
    <2>3. /\ new \in Rows /\ RowInv(new) /\ new.id = e.id
          /\ new.cell["candidate_email"].text = address
      BY <1>2, <1>5, <2>2, ToModelIsRow
    <2> HIDE DEF new
    <2>4. address = owner[e.id]
      BY <1>1, <1>4
    <2> HIDE DEF e, address, JobsInv
    <2>5. /\ jobApplications' = (jobApplications \ {}) \cup {new}
          /\ \A row \in jobApplications \ {} : row.id # e.id
          /\ {} \in SUBSET jobApplications
      BY <2>1
    <2>6. new.cell["candidate_email"].text = owner[e.id]
      BY <2>3, <2>4
    <2> QED BY <1>6, <2>3, <2>5, <2>6
  <1>8. CASE current[p] # NoOne
    <2> DEFINE row == RowOf(e.id)
               new == ApplyEntity(Ring(p), row, current[p], e)
    <2>1. /\ jobApplications' = (jobApplications \ {row}) \cup {new}
          /\ \E other \in jobApplications : other.id = e.id
      BY <1>1, <1>8 DEF CommitApplication, CommitFits, Ids
    <2>2. row \in jobApplications /\ row.id = e.id
      BY <2>1 DEF RowOf
    <2>3. row \in Rows /\ RowInv(row)
      BY <2>2 DEF JobTypes
    <2>4. /\ current[p] \in Entities
          /\ current[p].value["candidate_email"] = e.value["candidate_email"]
      BY <1>8 DEF OwnerInv, JobTypes
    <2> HIDE DEF row
    <2>5. /\ new \in Rows /\ RowInv(new) /\ new.id = row.id
          /\ new.cell["candidate_email"] = row.cell["candidate_email"]
      BY <1>2, <1>5, <2>3, <2>4, ApplyEntityIsRow
    <2>6. row.cell["candidate_email"].text = owner[e.id]
      BY <1>4, <2>2
    <2>7. \A other \in jobApplications \ {row} : other.id # e.id
      BY <2>2 DEF OwnerInv
    <2> HIDE DEF new, e
    <2> QED BY <1>6, <2>1, <2>2, <2>5, <2>6, <2>7
  <1> QED BY <1>7, <1>8

LEMMA EraseKeeps ==
  ASSUME JobsInv, NEW p \in Requests, EraseApplications(p)
  PROVE  JobsInv'
  <1>1. /\ Ends(p, "ok") /\ "ok" \in Ended /\ UNCHANGED <<revision, keyring, loaded>>
        /\ jobApplications' \subseteq jobApplications
    BY DEF EraseApplications, Ended
  <1>2. PICK owner \in [ApplicationIds -> Addresses \cup {NoOne}] : OwnedBy(owner)
    BY DEF JobsInv, OwnerInv
  <1>3. /\ \A row \in jobApplications' : row.cell["candidate_email"].text = owner[row.id]
        /\ \A q \in Requests \ {p} : Drafting(q) =>
             draft[q].value["candidate_email"] = owner[draft[q].id]
    BY <1>1, <1>2 DEF OwnedBy
  <1>4. /\ \A row, other \in jobApplications' : row.id = other.id => row = other
        /\ \A row \in jobApplications', q \in Requests \ {p} :
             pc[q] \in {"idle", "create"} => row.id # q
        /\ jobApplications' \subseteq Rows
        /\ \A row \in jobApplications' : RowInv(row)
    BY <1>1 DEF JobsInv, OwnerInv, JobTypes
  <1> QED BY <1>1, <1>3, <1>4, RowsChange

\* Every request that is served, whatever becomes of it.
LEMMA ServeKeeps ==
  ASSUME JobsInv, NEW p \in Requests, Serve(p)
  PROVE  JobsInv'
  <1>1. ASSUME AnalysisRaises(p) \/ GetForUpdateRaises(p) \/ CommitApplicationRaises(p)
        PROVE  JobsInv'
    <2>1. Raises(p) /\ InFlight(p)
      BY <1>1 DEF AnalysisRaises, GetForUpdateRaises, CommitApplicationRaises,
                  InFlight, Ended
    <2> QED BY <2>1, RaisesKeeps
  <1>2. ASSUME ListByCandidate(p) \/ StatementFails(p) \/ RequestDies(p)
        PROVE  JobsInv'
    <2>1. UNCHANGED <<jobApplications, revision, keyring, loaded>>
      BY <1>2 DEF ListByCandidate, StatementFails, RequestDies
    <2>2. \E label \in Ended : Ends(p, label)
      BY <1>2 DEF ListByCandidate, StatementFails, RequestDies, Ended
    <2> QED BY <2>1, <2>2, EndsKeeps
  <1> QED BY <1>1, <1>2, AskKeeps, CreateKeeps, ReadToSubmitKeeps, ReadToAnalyzeKeeps,
             AttachKeeps, GetKeeps, CommitKeeps, EraseKeeps
          DEF Serve

-----------------------------------------------------------------------------
(* The operator's steps *)

\* Rotating keys leaves the requests where they are; the configured keys only
\* lose one that nothing is under and nobody signs with.
LEMMA RotationKeeps ==
  ASSUME JobsInv, NEW k \in Keys, IntroduceKey(k) \/ RetireKey(k)
  PROVE  JobsInv'
  <1> USE DEF JobsInv
  <1>1. UNCHANGED <<pc, overlapped, jobApplications, revision, loaded, demand, draft, current>>
    BY DEF IntroduceKey, RetireKey, serving, demandVars
  <1>2. keyring' \in Keyrings /\ keyring'.active \in keyring'.keys
    BY DEF IntroduceKey, RetireKey, JobTypes, KeysInv, Keyrings
  <1>3. \A by \in Processes : loaded[by].active \in keyring'.keys
    <2>1. CASE IntroduceKey(k)
      BY <2>1 DEF IntroduceKey, KeysInv
    <2>2. CASE RetireKey(k)
      <3>1. /\ k # keyring.active /\ keyring'.keys = keyring.keys \ {k}
            /\ \A by \in Processes : loaded[by] = keyring
        BY <2>2 DEF RetireKey, JobTypes, Keyrings
      <3> QED BY <3>1 DEF KeysInv
    <2> QED BY <2>1, <2>2
  <1>4. ASSUME NEW row \in jobApplications, NEW c \in Columns, row.cell[c] # NoOne,
               row.cell[c].key \in keyring.keys
        PROVE  row.cell[c].key \in keyring'.keys
    <2>1. CASE IntroduceKey(k)
      BY <1>4, <2>1 DEF IntroduceKey
    <2>2. CASE RetireKey(k)
      <3>1. keyring'.keys = keyring.keys \ {k} /\ row.cell[c].key # k
        BY <1>4, <2>2 DEF RetireKey, Stored, JobTypes, Keyrings
      <3> QED BY <1>4, <3>1
    <2> QED BY <2>1, <2>2
  <1>5. JobTypes'
    BY <1>1, <1>2 DEF JobTypes, InFlight, Drafting
  <1>6. KeysInv'
    BY <1>1, <1>2, <1>3 DEF KeysInv
  <1>7. \A row \in jobApplications : RowInv(row)'
    BY <1>1, <1>4 DEF RowInv, CellInv, HasBlindIndex
  <1>8. OwnerInv'
    <2>1. \A owner : OwnedBy(owner) => OwnedBy(owner)'
      BY <1>1 DEF OwnedBy, Drafting
    <2> QED BY <1>1, <2>1 DEF OwnerInv, Drafting
  <1> QED BY <1>1, <1>5, <1>6, <1>7, <1>8

LEMMA RestartKeeps ==
  ASSUME JobsInv, NEW by \in Processes, Restart(by)
  PROVE  JobsInv'
  <1> USE DEF JobsInv
  <1>1. /\ UNCHANGED <<pc, overlapped, jobApplications, revision, keyring, demand, draft, current>>
        /\ loaded' = [loaded EXCEPT ![by] = keyring]
    BY DEF Restart, serving, demandVars
  <1>2. JobTypes' /\ KeysInv'
    BY <1>1 DEF JobTypes, KeysInv, InFlight, Drafting
  <1>3. \A row \in jobApplications : RowInv(row)'
    BY <1>1 DEF RowInv, CellInv, HasBlindIndex
  <1>4. OwnerInv'
    <2>1. \A owner : OwnedBy(owner) => OwnedBy(owner)'
      BY <1>1 DEF OwnedBy, Drafting
    <2> QED BY <1>1, <2>1 DEF OwnerInv, Drafting
  <1> QED BY <1>1, <1>2, <1>3, <1>4

-----------------------------------------------------------------------------
(* Migrations *)

\* A migration rewrites every row: the application and its address stay.
LEMMA MigrationKeeps ==
  ASSUME JobsInv, revision' \in {"0020", "0022", "0023"},
         UNCHANGED <<pc, keyring, loaded, demand, draft, current>>,
         NEW f, jobApplications' = {f[row] : row \in jobApplications},
         \A row \in jobApplications :
           /\ f[row] \in Rows /\ f[row].id = row.id
           /\ f[row].cell["candidate_email"].text = row.cell["candidate_email"].text
           /\ RowInv(f[row])'
  PROVE  JobsInv'
  <1> USE DEF JobsInv
  <1>1. JobTypes' /\ KeysInv'
    BY DEF JobTypes, KeysInv, InFlight, Drafting
  <1>2. \A row \in jobApplications' : RowInv(row)'
    OBVIOUS
  <1>3. PICK owner \in [ApplicationIds -> Addresses \cup {NoOne}] : OwnedBy(owner)
    BY DEF OwnerInv
  <1>4. OwnedBy(owner)'
    BY <1>3 DEF OwnedBy, Drafting
  <1>5. OwnerInv'
    BY <1>4 DEF OwnerInv, Drafting
  <1> QED BY <1>1, <1>2, <1>5

LEMMA WithIsRow ==
  ASSUME NEW row \in Rows, NEW column \in Columns, NEW cell \in Cell \cup {NoOne}
  PROVE  /\ With(row, column, cell) \in Rows
         /\ With(row, column, cell).id = row.id
         /\ With(row, column, cell).bidx = row.bidx
         /\ With(row, column, cell).cell[column] = cell
         /\ \A c \in Columns \ {column} : With(row, column, cell).cell[c] = row.cell[c]
  <1> DEFINE cells == [row.cell EXCEPT ![column] = cell]
  <1>1. /\ cells \in [Columns -> Cell \cup {NoOne}] /\ cells[column] = cell
        /\ \A c \in Columns \ {column} : cells[c] = row.cell[c]
    BY DEF Rows
  <1> HIDE DEF cells
  <1>2. With(row, column, cell) = [row EXCEPT !.cell = cells]
    BY DEF With, cells, Rows
  <1> QED BY <1>1, <1>2 DEF Rows

\* A value is encrypted under the configured key, or was already.
LEMMA EncryptedSoundly ==
  ASSUME JobsInv, NEW row \in jobApplications, NEW c \in Columns,
         NEW cell, cell = EncryptExisting(row.cell[c])
  PROVE  /\ cell \in Cell \cup {NoOne}
         /\ row.cell[c] = NoOne <=> cell = NoOne
         /\ cell # NoOne => /\ cell.column = c /\ cell.key \in keyring.keys
                            /\ cell.text = row.cell[c].text
  <1> USE DEF JobsInv
  <1>1. row \in Rows /\ CellInv(row, c) /\ row.cell[c] \in Cell \cup {NoOne}
    BY DEF JobTypes, RowInv, Rows
  <1>2. CASE row.cell[c] = NoOne \/ IsEncrypted(row.cell[c])
    BY <1>1, <1>2, NullIsNoKey DEF EncryptExisting, IsEncrypted, CellInv
  <1>3. CASE row.cell[c] # NoOne /\ ~IsEncrypted(row.cell[c])
    <2> DEFINE old == row.cell[c]
    <2>1. old \in Cell /\ old.column = c
      BY <1>1, <1>3 DEF CellInv
    <2>2. cell = [key |-> keyring.active, column |-> old.column, text |-> old.text]
      BY <1>3 DEF EncryptExisting, Encrypted, ActiveKey
    <2>3. keyring.active \in Keys /\ keyring.active \in keyring.keys
      BY DEF JobTypes, Keyrings, KeysInv
    <2> HIDE DEF old
    <2>4. cell \in Cell
      BY <2>1, <2>2, <2>3 DEF Cell
    <2> QED BY <1>3, <2>1, <2>2, <2>3, <2>4, NullIsNoCell DEF old
  <1> QED BY <1>2, <1>3

\* Decrypting leaves the text.
LEMMA DecryptedSoundly ==
  ASSUME JobsInv, NEW row \in jobApplications, NEW c \in Columns,
         NEW cell, cell = DecryptExisting(row.cell[c])
  PROVE  /\ cell \in Cell \cup {NoOne}
         /\ row.cell[c] = NoOne <=> cell = NoOne
         /\ cell # NoOne => /\ cell.column = c /\ cell.key = NoOne
                            /\ cell.text = row.cell[c].text
  <1> USE DEF JobsInv
  <1>1. row \in Rows /\ CellInv(row, c) /\ row.cell[c] \in Cell \cup {NoOne}
    BY DEF JobTypes, RowInv, Rows
  <1>2. CASE row.cell[c] = NoOne \/ ~IsEncrypted(row.cell[c])
    BY <1>1, <1>2 DEF DecryptExisting, IsEncrypted, CellInv
  <1>3. CASE row.cell[c] # NoOne /\ IsEncrypted(row.cell[c])
    <2> DEFINE old == row.cell[c]
    <2>1. old \in Cell /\ old.column = c
      BY <1>1, <1>3 DEF CellInv
    <2>2. cell = [key |-> NoOne, column |-> old.column, text |-> old.text]
      BY <1>3 DEF DecryptExisting, Plain
    <2> HIDE DEF old
    <2>3. cell \in Cell
      BY <2>1, <2>2 DEF Cell
    <2> QED BY <1>3, <2>1, <2>2, <2>3, NullIsNoCell DEF old
  <1> QED BY <1>2, <1>3

LEMMA Upgrade0021Keeps ==
  ASSUME JobsInv, Upgrade0021
  PROVE  JobsInv'
  <1> USE DEF JobsInv
  <1>0. PICK f : f = [row \in jobApplications |-> AddressEncrypted(row)]
    OBVIOUS
  <1>1. /\ revision = "0020" /\ revision' = "0022"
        /\ UNCHANGED <<pc, keyring, loaded, demand, draft, current>>
        /\ jobApplications' = {f[row] : row \in jobApplications}
    BY <1>0 DEF Upgrade0021, Migrate, serving, demandVars
  <1>2. ASSUME NEW row \in jobApplications
        PROVE  /\ f[row] \in Rows /\ f[row].id = row.id
               /\ f[row].cell["candidate_email"].text = row.cell["candidate_email"].text
               /\ RowInv(f[row])'
    <2> DEFINE cell == EncryptExisting(row.cell["candidate_email"])
               index == Normalized[row.cell["candidate_email"].text]
               indexed == [row EXCEPT !.bidx = index]
    <2>0. PICK new : new = With(indexed, "candidate_email", cell)
      OBVIOUS
    <2>1. /\ row \in Rows /\ RowInv(row) /\ row.cell["candidate_email"] # NoOne
          /\ index \in Addresses
      BY NullIsNoCell, NormalizedIsAnAddress DEF JobTypes, RowInv
    <2>2. /\ cell \in Cell /\ cell # NoOne /\ cell.column = "candidate_email"
          /\ cell.key \in keyring.keys
          /\ cell.text = row.cell["candidate_email"].text
      BY <2>1, EncryptedSoundly, ColumnsAre
    <2>3. f[row] = new
      BY <1>0, <2>0 DEF AddressEncrypted, BlindIndex
    <2> HIDE DEF cell, index
    <2>4. /\ indexed \in Rows /\ indexed.id = row.id /\ indexed.bidx = index
          /\ indexed.cell = row.cell
      BY <2>1 DEF Rows
    <2> HIDE DEF indexed
    <2>5. /\ new \in Rows /\ new.id = row.id /\ new.bidx = index
          /\ new.cell["candidate_email"] = cell
          /\ new.cell["tailored_cover_letter"] = row.cell["tailored_cover_letter"]
      BY <2>0, <2>2, <2>4, WithIsRow, ColumnsAre
    <2>6. CellInv(new, "candidate_email")'
      BY <1>1, <2>2, <2>5 DEF CellInv
    <2>7. CellInv(new, "tailored_cover_letter")'
      BY <1>1, <2>1, <2>5, ColumnsAre DEF CellInv, RowInv
    <2>8. RowInv(new)'
      BY <2>1, <2>2, <2>5, <2>6, <2>7, ColumnsAre DEF RowInv, index
    <2> QED BY <2>2, <2>3, <2>5, <2>8
  <1> QED BY <1>1, <1>2, MigrationKeeps

LEMMA Downgrade0021Keeps ==
  ASSUME JobsInv, Downgrade0021
  PROVE  JobsInv'
  <1> USE DEF JobsInv
  <1>0. PICK f : f = [row \in jobApplications |->
                        With([row EXCEPT !.bidx = NoOne], "candidate_email",
                             DecryptExisting(row.cell["candidate_email"]))]
    OBVIOUS
  <1>1. /\ revision = "0022" /\ revision' = "0020"
        /\ UNCHANGED <<pc, keyring, loaded, demand, draft, current>>
        /\ jobApplications' = {f[row] : row \in jobApplications}
    BY <1>0 DEF Downgrade0021, Migrate, serving, demandVars
  <1>2. ASSUME NEW row \in jobApplications
        PROVE  /\ f[row] \in Rows /\ f[row].id = row.id
               /\ f[row].cell["candidate_email"].text = row.cell["candidate_email"].text
               /\ RowInv(f[row])'
    <2> DEFINE cell == DecryptExisting(row.cell["candidate_email"])
               indexed == [row EXCEPT !.bidx = NoOne]
    <2>0. PICK new : new = With(indexed, "candidate_email", cell)
      OBVIOUS
    <2>1. row \in Rows /\ RowInv(row) /\ row.cell["candidate_email"] # NoOne
      BY NullIsNoCell DEF JobTypes, RowInv
    <2>2. /\ cell \in Cell /\ cell # NoOne /\ cell.column = "candidate_email"
          /\ cell.key = NoOne
          /\ cell.text = row.cell["candidate_email"].text
      BY <2>1, DecryptedSoundly, ColumnsAre
    <2>3. f[row] = new
      BY <1>0, <2>0
    <2> HIDE DEF cell
    <2>4. indexed \in Rows /\ indexed.id = row.id /\ indexed.cell = row.cell
      BY <2>1 DEF Rows
    <2> HIDE DEF indexed
    <2>5. /\ new \in Rows /\ new.id = row.id
          /\ new.cell["candidate_email"] = cell
          /\ new.cell["tailored_cover_letter"] = row.cell["tailored_cover_letter"]
      BY <2>0, <2>2, <2>4, WithIsRow, ColumnsAre
    <2>6. CellInv(new, "candidate_email")'
      BY <1>1, <2>2, <2>5 DEF CellInv
    <2>7. CellInv(new, "tailored_cover_letter")'
      BY <1>1, <2>1, <2>5, ColumnsAre DEF CellInv, RowInv
    <2>8. RowInv(new)'
      BY <1>1, <2>1, <2>2, <2>5, <2>6, <2>7, ColumnsAre DEF RowInv, HasBlindIndex
    <2> QED BY <2>2, <2>3, <2>5, <2>8
  <1> QED BY <1>1, <1>2, MigrationKeeps

LEMMA LetterMigrationKeeps ==
  ASSUME JobsInv, Upgrade0023 \/ Downgrade0023
  PROVE  JobsInv'
  <1> USE DEF JobsInv
  <1> DEFINE up == Upgrade0023
             newCell(row) == IF up THEN EncryptExisting(row.cell["tailored_cover_letter"])
                             ELSE DecryptExisting(row.cell["tailored_cover_letter"])
  <1>0. PICK f : f = [row \in jobApplications |->
                        With(row, "tailored_cover_letter", newCell(row))]
    OBVIOUS
  <1>1. /\ revision \in {"0022", "0023"}
        /\ revision' = IF up THEN "0023" ELSE "0022"
        /\ up => revision = "0022"
        /\ UNCHANGED <<pc, keyring, loaded, demand, draft, current>>
    BY DEF Upgrade0023, Downgrade0023, Migrate, serving, demandVars
  <1>2. jobApplications' = {f[row] : row \in jobApplications}
    <2>1. CASE up
      BY <1>0, <2>1 DEF Upgrade0023, Migrate, LetterEncrypted
    <2>2. CASE ~up
      BY <1>0, <2>2 DEF Downgrade0023, Migrate
    <2> QED BY <2>1, <2>2
  <1>3. ASSUME NEW row \in jobApplications
        PROVE  /\ f[row] \in Rows /\ f[row].id = row.id
               /\ f[row].cell["candidate_email"].text = row.cell["candidate_email"].text
               /\ RowInv(f[row])'
    <2> DEFINE cell == newCell(row)
    <2>0. PICK new : new = With(row, "tailored_cover_letter", cell)
      OBVIOUS
    <2>1. row \in Rows /\ RowInv(row)
      BY DEF JobTypes
    <2>2. /\ cell \in Cell \cup {NoOne}
          /\ cell # NoOne => /\ cell.column = "tailored_cover_letter"
                             /\ IF up THEN cell.key \in keyring.keys ELSE cell.key = NoOne
      BY EncryptedSoundly, DecryptedSoundly, ColumnsAre
    <2>3. f[row] = new
      BY <1>0, <2>0
    <2> HIDE DEF cell
    <2>4. /\ new \in Rows /\ new.id = row.id /\ new.bidx = row.bidx
          /\ new.cell["candidate_email"] = row.cell["candidate_email"]
          /\ new.cell["tailored_cover_letter"] = cell
      BY <2>0, <2>1, <2>2, WithIsRow, ColumnsAre
    <2> HIDE DEF up
    <2>5. CellInv(new, "candidate_email")'
      BY <1>1, <2>1, <2>4, ColumnsAre DEF CellInv, RowInv
    <2>6. CellInv(new, "tailored_cover_letter")'
      BY <1>1, <2>2, <2>4 DEF CellInv
    <2>7. RowInv(new)'
      BY <1>1, <2>1, <2>4, <2>5, <2>6, ColumnsAre DEF RowInv, HasBlindIndex
    <2> QED BY <2>1, <2>3, <2>4, <2>7
  <1> QED BY <1>1, <1>2, <1>3, MigrationKeeps

-----------------------------------------------------------------------------
(* The theorem *)

LEMMA NextKeepsJobs ==
  ASSUME JobsInv, [JobsNext]_<<serving, jobVars>>
  PROVE  JobsInv'
  <1>1. CASE UNCHANGED <<serving, jobVars>>
    <2>1. UNCHANGED <<pc, overlapped, jobApplications, revision, keyring, loaded,
                      demand, draft, current>>
      BY <1>1 DEF serving, jobVars, demandVars
    <2>2. JobTypes' /\ KeysInv' /\ \A row \in jobApplications : RowInv(row)'
      BY <2>1 DEF JobsInv, JobTypes, KeysInv, InFlight, Drafting, RowInv, CellInv,
                  HasBlindIndex
    <2>3. OwnerInv'
      <3>1. \A owner : OwnedBy(owner) => OwnedBy(owner)'
        BY <2>1 DEF OwnedBy, Drafting
      <3> QED BY <2>1, <3>1 DEF JobsInv, OwnerInv, Drafting
    <2> QED BY <2>1, <2>2, <2>3 DEF JobsInv
  <1>2. CASE \E p \in Requests : Serve(p)
    BY <1>2, ServeKeeps
  <1>3. CASE Operate
    BY <1>3, RotationKeeps, RestartKeeps, Upgrade0021Keeps, Downgrade0021Keeps,
       LetterMigrationKeeps DEF Operate
  <1> QED BY <1>1, <1>2, <1>3 DEF JobsNext

LEMMA JobsInvFinds ==
  ASSUME JobsInv
  PROVE  FoundByItsCandidate
  <1>1. ASSUME revision = "0023", NEW row \in jobApplications
        PROVE  Loads(keyring, row)
    BY <1>1 DEF JobsInv, RowInv, CellInv, Loads, Decrypts
  <1>2. ASSUME HasBlindIndex, NEW row \in jobApplications
        PROVE  row \in FoundBy(row.cell["candidate_email"].text)
    BY <1>2 DEF JobsInv, RowInv, FoundBy, BlindIndex
  <1> QED BY <1>1, <1>2 DEF FoundByItsCandidate

\* However requests, kills, key rotations, restarts and migrations interleave,
\* a process started with the configured keys decrypts every stored application
\* (revision 0023), and the blind index finds it by its candidate's address in
\* any spelling: job_application_repository, keyring and the migrations.
THEOREM ApplicationsAreFound == JobsSpec => []FoundByItsCandidate
  <1>1. InitServing /\ (\E key \in Keys : JobsInit(key, Seeds)) => JobsInv
    BY InitJobs
  <1>2. JobsInv /\ [JobsNext]_<<serving, jobVars>> => JobsInv'
    BY NextKeepsJobs
  <1>3. JobsInv => FoundByItsCandidate
    BY JobsInvFinds
  <1> QED BY <1>1, <1>2, <1>3, PTL DEF JobsSpec
=============================================================================
