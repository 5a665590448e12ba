-------------------------- MODULE JobApplications --------------------------
(***************************************************************************)
(* The first-generation applications: created, analysed against a résumé,  *)
(* submitted, listed and erased by the candidate's address.  Address and   *)
(* cover letter are encrypted columns; a blind index of the address stands *)
(* in for it in queries.                                                   *)
(*                                                                         *)
(* Every stored value names the key it is under.  A process reads the      *)
(* keyring once, when it starts; the operator rotates the configured keys  *)
(* and restarts the processes one by one.  Migrations 0021 and 0023 turned *)
(* the plaintext columns of earlier revisions into encrypted ones.         *)
(***************************************************************************)
EXTENDS OrmUpdate, WebRequests

CONSTANTS
  Keys,           \* encryption keys
  Normalized,     \* [spelling of an address -> the address]
  Processes,      \* the web server and the task worker
  Worker,         \* the one that retries what fails
  Seeds,          \* applications from before the columns were encrypted
  MaxAsked,       \* bound: requests about applications
  MaxMigrations,  \* bound: migrations run
  MaxTries        \* bound, in the code: runs of one task

VARIABLES
  jobApplications,  \* job_applications
  revision,         \* the schema revision the database is at
  keyring,          \* the configured keys, and the one that signs
  loaded,           \* the keyring each process started with
  demand,           \* what each request asks for
  draft,            \* the application a request holds
  current,          \* the row as `update` read it, NoOne if it found none
  migrations        \* how many migrations were run

demandVars == <<demand, draft, current>>
jobVars == <<jobApplications, revision, keyring, loaded, demandVars, migrations>>

Addresses == DOMAIN Normalized

Columns == {"candidate_email", "tailored_cover_letter"}

\* A letter is named by the request whose analysis wrote it.
Letters == Requests \cup {seed.letter : seed \in Seeds}

\* A stored value: the key it is under, NoOne for plain text.
Cell == [key : Keys \cup {NoOne}, column : Columns, text : Addresses \cup Letters]

ASSUME NullIsNoKey == NoOne \notin Keys
ASSUME NullIsNoCell == NoOne \notin Cell
ASSUME NormalizedIsAnAddress ==
         Normalized \in [Addresses -> Addresses] /\ NoOne \notin Addresses
ASSUME SeedsAreApplications ==
         \A seed \in Seeds :
           /\ seed.id \notin Requests /\ seed.address \in Addresses
           /\ \A other \in Seeds : other.id = seed.id => other = seed

-----------------------------------------------------------------------------
(* Encrypted columns *)

\* With a bug: not the key at the front signs.
OldestKey(ring) ==
  CHOOSE k \in ring.keys : ring.keys # {ring.active} => k # ring.active

\* The key at the front of the configured list signs, whatever else is on it.
ActiveKey(ring) == ring.active

\* The column a value was encrypted for is authenticated with it.
Encrypted(ring, column, text) ==
  [key |-> ActiveKey(ring), column |-> column, text |-> text]

Plain(column, text) == [key |-> NoOne, column |-> column, text |-> text]

IsEncrypted(cell) == cell.key # NoOne

\* NULL is stored as NULL.
Bound(ring, column, value) ==
  IF value = NoOne THEN NoOne ELSE Encrypted(ring, column, value)

Decrypts(ring, column, cell) ==
  cell # NoOne => (cell.key \in ring.keys /\ cell.column = column)

Text(cell) == IF cell = NoOne THEN NoOne ELSE cell.text

BlindIndex(address) == Normalized[address]

\* Loading a row decrypts it; one value out of reach fails the whole row.
Loads(ring, row) == \A c \in Columns : Decrypts(ring, c, row.cell[c])

Entity(row) == [id |-> row.id, status |-> row.status, score |-> row.score,
                value |-> [c \in Columns |-> Text(row.cell[c])]]

ToModel(ring, e) ==
  [id |-> e.id, status |-> e.status, score |-> e.score,
   bidx |-> BlindIndex(e.value["candidate_email"]),
   cell |-> [c \in Columns |-> Bound(ring, c, e.value[c])]]

\* The flush binds a value, under the active key, only where it changed.
ApplyEntity(ring, row, read, e) ==
  [row EXCEPT
     !.status = Written(@, read.status, e.status),
     !.score = Written(@, read.score, e.score),
     !.cell = [c \in Columns |->
                 IF e.value[c] = read.value[c] THEN @[c]
                 ELSE Bound(ring, c, e.value[c])]]

-----------------------------------------------------------------------------
(* Requests *)

Demand(op, target, address, by) ==
  [op |-> op, target |-> target, address |-> address, by |-> by, tries |-> 1]

NoDemand == Demand("none", NoOne, NoOne, NoOne)

Ids == {row.id : row \in jobApplications}

RowOf(id) == CHOOSE row \in jobApplications : row.id = id

Ring(p) == loaded[demand[p].by]

\* Queries by this code need the blind index.
HasBlindIndex == revision # "0020"

AskAbout(p) ==
  /\ MayStart(p)
  /\ HasBlindIndex
  /\ Cardinality({q \in Requests : pc[q] # "idle"}) < MaxAsked
  /\ \E by \in Processes :
       \/ \E a \in Addresses, op \in {"create", "list", "erase"} :
            /\ by # Worker
            /\ demand' = [demand EXCEPT ![p] = Demand(op, NoOne, a, by)]
       \/ \E id \in Ids :
            \/ demand' = [demand EXCEPT ![p] = Demand("analyze", id, NoOne, by)]
            \/ by # Worker
               /\ demand' = [demand EXCEPT ![p] = Demand("submit", id, NoOne, by)]
  /\ Goto(p, demand'[p].op)
  /\ UNCHANGED <<jobApplications, revision, keyring, loaded, draft, current,
                 migrations>>

Ends(p, label) ==
  /\ Goto(p, label)
  /\ demand' = [demand EXCEPT ![p] = NoDemand]
  /\ draft' = [draft EXCEPT ![p] = NoOne]
  /\ current' = [current EXCEPT ![p] = NoOne]

\* The worker starts a failed analysis over, in a new session.
Raises(p) ==
  /\ IF demand[p].by = Worker /\ demand[p].tries < MaxTries
     THEN /\ demand' = [demand EXCEPT ![p].tries = @ + 1]
          /\ draft' = [draft EXCEPT ![p] = NoOne]
          /\ current' = [current EXCEPT ![p] = NoOne]
          /\ Goto(p, "analyze")
     ELSE Ends(p, "failed")
  /\ UNCHANGED <<jobApplications, revision, keyring, loaded, migrations>>

\* The address is normalised when the application is created.
CreateApplication(p) ==
  /\ pc[p] = "create"
  /\ HasBlindIndex
  /\ jobApplications' = jobApplications \cup
       {ToModel(Ring(p),
                [id |-> p, status |-> "draft", score |-> NoOne,
                 value |-> [candidate_email |-> Normalized[demand[p].address],
                            tailored_cover_letter |-> NoOne]])}
  /\ Ends(p, "ok")
  /\ UNCHANGED <<revision, keyring, loaded, migrations>>

\* Selecting a row decrypts it.
Selected(p, id) ==
  {row \in jobApplications : HasBlindIndex /\ row.id = id /\ Loads(Ring(p), row)}

\* get_by_id, and what the entity does at once.
ReadApplicationToSubmit(p) ==
  /\ pc[p] = "submit"
  /\ \/ \E row \in Selected(p, demand[p].target) :
          /\ row.status = "draft"
          /\ draft' = [draft EXCEPT ![p] = [Entity(row) EXCEPT !.status = "applied"]]
          /\ Goto(p, "updating")
          /\ UNCHANGED <<demand, current>>
     \/ /\ \A row \in Selected(p, demand[p].target) : row.status # "draft"
        /\ Ends(p, "failed")
  /\ UNCHANGED <<jobApplications, revision, keyring, loaded, migrations>>

ReadApplicationToAnalyze(p) ==
  /\ pc[p] = "analyze"
  /\ \E row \in Selected(p, demand[p].target) :
       draft' = [draft EXCEPT ![p] = Entity(row)]
  /\ Goto(p, "analyzing")
  /\ UNCHANGED <<jobApplications, revision, keyring, loaded, demand, current,
                 migrations>>

AnalysisRaises(p) ==
  /\ \/ pc[p] = "analyzing"
     \/ pc[p] = "analyze" /\ Selected(p, demand[p].target) = {}
  /\ Raises(p)

\* The model's answer: a score, and a letter or none.
AttachAnalysis(p) ==
  /\ pc[p] = "analyzing"
  /\ \E letter \in {p, draft[p].value["tailored_cover_letter"]} :
       draft' = [draft EXCEPT ![p].score = p,
                              ![p].value["tailored_cover_letter"] = letter]
  /\ Goto(p, "updating")
  /\ UNCHANGED <<jobApplications, revision, keyring, loaded, demand, current,
                 migrations>>

\* session.get: the row is loaded, and decrypted, once more.
GetForUpdate(p) ==
  /\ pc[p] = "updating"
  /\ HasBlindIndex
  /\ \/ \E row \in Selected(p, draft[p].id) :
          current' = [current EXCEPT ![p] = Entity(row)]
     \/ draft[p].id \notin Ids /\ UNCHANGED current
  /\ Goto(p, "flushing")
  /\ UNCHANGED <<jobApplications, revision, keyring, loaded, demand, draft,
                 migrations>>

GetForUpdateRaises(p) ==
  /\ pc[p] = "updating"
  /\ HasBlindIndex => draft[p].id \in Ids
  /\ Selected(p, draft[p].id) = {}
  /\ Raises(p)

\* A row that was gone is inserted, one that was there is updated.
CommitFits(p) ==
  HasBlindIndex /\ (current[p] # NoOne) = (draft[p].id \in Ids)

CommitApplication(p) ==
  /\ pc[p] = "flushing"
  /\ CommitFits(p)
  /\ jobApplications' =
       IF current[p] = NoOne
       THEN jobApplications \cup {ToModel(Ring(p), draft[p])}
       ELSE LET row == RowOf(draft[p].id) IN
            (jobApplications \ {row}) \cup
            {ApplyEntity(Ring(p), row, current[p], draft[p])}
  /\ Ends(p, "ok")
  /\ UNCHANGED <<revision, keyring, loaded, migrations>>

CommitApplicationRaises(p) ==
  /\ pc[p] = "flushing"
  /\ ~CommitFits(p)
  /\ Raises(p)

FoundBy(address) ==
  {row \in jobApplications : row.bidx = BlindIndex(address)}

\* The address comes from the token, as it is spelled there.
ListByCandidate(p) ==
  /\ pc[p] = "list"
  /\ Ends(p, IF HasBlindIndex
                /\ \A row \in FoundBy(demand[p].address) : Loads(Ring(p), row)
             THEN "ok" ELSE "failed")
  /\ UNCHANGED <<jobApplications, revision, keyring, loaded, migrations>>

\* The erasure of a candidate deletes by the same index, and reads nothing.
EraseApplications(p) ==
  /\ pc[p] = "erase"
  /\ HasBlindIndex
  /\ jobApplications' = jobApplications \ FoundBy(demand[p].address)
  /\ Ends(p, "ok")
  /\ UNCHANGED <<revision, keyring, loaded, migrations>>

\* No column to write or to look in.
StatementFails(p) ==
  /\ pc[p] \in {"create", "erase"}
  /\ ~HasBlindIndex
  /\ Ends(p, "failed")
  /\ UNCHANGED <<jobApplications, revision, keyring, loaded, migrations>>

RequestDies(p) ==
  /\ Cardinality({q \in Requests : pc[q] = "killed"}) < MaxKilled
  /\ InFlight(p)
  /\ Ends(p, "killed")
  /\ UNCHANGED <<jobApplications, revision, keyring, loaded, migrations>>

-----------------------------------------------------------------------------
(* The operator *)

\* A new key goes to the front.
IntroduceKey(k) ==
  /\ k \notin keyring.keys
  /\ keyring' = [keys |-> keyring.keys \cup {k}, active |-> k]
  /\ UNCHANGED <<serving, jobApplications, revision, loaded, demandVars,
                 migrations>>

Stored(k) ==
  \E row \in jobApplications, c \in Columns :
    row.cell[c] # NoOne /\ row.cell[c].key = k

\* A key goes once nothing decrypts under it any more, and every process
\* knows which key is active.
RetireKey(k) ==
  /\ k \in keyring.keys \ {keyring.active}
  /\ ~Stored(k)
  /\ \A by \in Processes : loaded[by] = keyring
  /\ keyring' = [keyring EXCEPT !.keys = @ \ {k}]
  /\ UNCHANGED <<serving, jobApplications, revision, loaded, demandVars,
                 migrations>>

\* A process finishes what it is serving before it is replaced.
Restart(by) ==
  /\ loaded[by] # keyring
  /\ \A p \in Requests : demand[p].by # by
  /\ loaded' = [loaded EXCEPT ![by] = keyring]
  /\ UNCHANGED <<serving, jobApplications, revision, keyring, demandVars,
                 migrations>>

-----------------------------------------------------------------------------
(* The migrations; the tables are locked while one runs, and one that raises *)
(* changes nothing                                                           *)

Migrate(from, to, rows) ==
  /\ revision = from
  /\ migrations < MaxMigrations
  /\ revision' = to
  /\ migrations' = migrations + 1
  /\ jobApplications' = rows
  /\ UNCHANGED <<serving, keyring, loaded, demandVars>>

\* What is encrypted already is passed over.
EncryptExisting(cell) ==
  IF cell = NoOne \/ IsEncrypted(cell) THEN cell
  ELSE Encrypted(keyring, cell.column, cell.text)

DecryptExisting(cell) ==
  IF cell = NoOne \/ ~IsEncrypted(cell) THEN cell
  ELSE Plain(cell.column, cell.text)

With(row, column, cell) == [row EXCEPT !.cell[column] = cell]

AddressEncrypted(row) ==
  With([row EXCEPT !.bidx = BlindIndex(row.cell["candidate_email"].text)],
       "candidate_email", EncryptExisting(row.cell["candidate_email"]))

LetterEncrypted(row) ==
  With(row, "tailored_cover_letter", EncryptExisting(row.cell["tailored_cover_letter"]))

Upgrade0021 ==
  Migrate("0020", "0022", {AddressEncrypted(row) : row \in jobApplications})

Upgrade0023 ==
  Migrate("0022", "0023", {LetterEncrypted(row) : row \in jobApplications})

\* Decrypting needs the key.
Downgrade0023 ==
  /\ \A row \in jobApplications :
       LET cell == row.cell["tailored_cover_letter"] IN
       cell # NoOne /\ IsEncrypted(cell) =>
         Decrypts(keyring, "tailored_cover_letter", cell)
  /\ Migrate("0023", "0022",
       {With(row, "tailored_cover_letter",
             DecryptExisting(row.cell["tailored_cover_letter"])) :
          row \in jobApplications})

Downgrade0021 ==
  /\ \A row \in jobApplications :
       Decrypts(keyring, "candidate_email", row.cell["candidate_email"])
  /\ Migrate("0022", "0020",
       {With([row EXCEPT !.bidx = NoOne], "candidate_email",
             DecryptExisting(row.cell["candidate_email"])) :
          row \in jobApplications})

-----------------------------------------------------------------------------

SeedRow(seed) ==
  [id |-> seed.id, status |-> "draft", score |-> NoOne, bidx |-> NoOne,
   cell |-> [candidate_email |-> Plain("candidate_email", seed.address),
             tailored_cover_letter |->
               IF seed.letter = NoOne THEN NoOne
               ELSE Plain("tailored_cover_letter", seed.letter)]]

JobsInit(key, seeds) ==
  /\ jobApplications = {SeedRow(seed) : seed \in seeds}
  /\ revision = "0020"
  /\ keyring = [keys |-> {key}, active |-> key]
  /\ loaded = [by \in Processes |-> keyring]
  /\ demand = [p \in Requests |-> NoDemand]
  /\ draft = [p \in Requests |-> NoOne]
  /\ current = [p \in Requests |-> NoOne]
  /\ migrations = 0

Serve(p) ==
  \/ AskAbout(p) \/ CreateApplication(p)
  \/ ReadApplicationToSubmit(p) \/ ReadApplicationToAnalyze(p)
  \/ AnalysisRaises(p) \/ AttachAnalysis(p)
  \/ GetForUpdate(p) \/ GetForUpdateRaises(p)
  \/ CommitApplication(p) \/ CommitApplicationRaises(p)
  \/ ListByCandidate(p) \/ EraseApplications(p)
  \/ StatementFails(p) \/ RequestDies(p)

Operate ==
  \/ \E k \in Keys : IntroduceKey(k) \/ RetireKey(k)
  \/ \E by \in Processes : Restart(by)
  \/ Upgrade0021 \/ Upgrade0023 \/ Downgrade0023 \/ Downgrade0021

\* Nothing has to happen once every request is answered.
JobsNext ==
  \/ \E p \in Requests : Serve(p)
  \/ Operate
  \/ (\A p \in Requests : ~InFlight(p)) /\ UNCHANGED <<serving, jobVars>>

JobsSpec ==
  /\ InitServing /\ \E key \in Keys : JobsInit(key, Seeds)
  /\ [][JobsNext]_<<serving, jobVars>>

-----------------------------------------------------------------------------
(* What must hold *)

\* However requests, rotations, restarts and migrations interleave, a process
\* started with the configured keys reads every application, and finds it by
\* its candidate's address in any spelling: nothing becomes unreadable, and
\* nothing escapes an erasure.
FoundByItsCandidate ==
  /\ revision = "0023" => \A row \in jobApplications : Loads(keyring, row)
  /\ HasBlindIndex =>
       \A row \in jobApplications :
         row \in FoundBy(row.cell["candidate_email"].text)
=============================================================================
