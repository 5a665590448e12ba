---------------------------- MODULE PersonalData ----------------------------
(***************************************************************************)
(* What the candidate may ask of everything stored about them: a copy of   *)
(* it (export) and its erasure.  The inventory says which categories there *)
(* are, in which tables, and what becomes of each; the store has a reader  *)
(* and an eraser for those held locally.                                   *)
(*                                                                         *)
(* An export reads one table after the other, each as committed by then.   *)
(* An erasure deletes the résumé files, which join no transaction, and     *)
(* then the rows of one category after the other in one transaction.       *)
(* Meanwhile other requests go on storing.  DataRights follows the consent *)
(* an erasure withdraws first.                                             *)
(***************************************************************************)
EXTENDS WebRequests, Sequences, Functions

CONSTANTS
  HeldBefore,   \* the rows and files there are
  Storable,     \* those other requests may store
  Subjects,     \* [user, email]: who asks, the address if the token has one
  MaxRights     \* bound: exports and erasures asked for

VARIABLES
  held,         \* every committed row, and every file
  written,      \* history: every row and file there ever was
  claim,        \* what each request asks for
  plan,         \* the statements it has still to run
  blobs,        \* the files an erasure has still to delete
  deleted,      \* the rows its open transaction has deleted
  copied,       \* what an export has read
  begun         \* history: what was held when the request began

dataLocals == <<claim, plan, blobs, deleted, copied, begun>>
dataVars == <<held, written, dataLocals>>

-----------------------------------------------------------------------------
(* The inventory *)

Category(key, store, exportable, erasure, tables) ==
  [key |-> key, store |-> store, exportable |-> exportable,
   erasure |-> erasure, tables |-> tables]

InDatabase(key, tables) ==
  Category(key, "primary_database", TRUE, "erase", tables)

Erased ==
  <<InDatabase("profile",
      <<"user_profiles", "work_history_entries", "education_entries", "skills",
        "work_authorizations", "eeo_self_identifications">>),
    InDatabase("resumes", <<"resumes">>),
    Category("resume_files", "file_storage", TRUE, "erase", <<>>),
    InDatabase("answer_memories", <<"answer_memories">>),
    InDatabase("application_documents", <<"application_documents">>),
    InDatabase("application_reviews", <<"application_reviews">>),
    InDatabase("portal_handoffs", <<"portal_handoffs">>),
    InDatabase("tracked_applications",
      <<"tracked_applications", "application_status_events">>),
    InDatabase("job_match_feedback", <<"job_match_feedback">>),
    InDatabase("legacy_applications", <<"job_applications">>)>>

NotErased ==
  <<Category("consents", "primary_database", TRUE, "retain_legal_basis",
             <<"consent_decisions">>),
    Category("application_logs", "log_sink", FALSE,
             "no_personal_data_retained", <<>>),
    Category("model_provider_processing", "processor", FALSE, "delegated", <<>>),
    Category("employer_disclosures", "third_party_controller", FALSE,
             "delegated", <<>>)>>

Inventory == Erased \o NotErased

LocallyHeld == {"primary_database", "file_storage"}

\* A category that makes no sense cannot be constructed.
CategoryIsValid(c) ==
  /\ (c.store = "primary_database") = (c.tables # <<>>)
  /\ IsInjective(c.tables)
  /\ c.exportable \/ c.erasure = "erase" => c.store \in LocallyHeld

\* Nor can an inventory that claims a table twice or erases nothing.
InventoryIsValid ==
  /\ \A c \in Range(Inventory) : CategoryIsValid(c)
  /\ \A i, j \in DOMAIN Inventory :
       i # j => /\ Inventory[i].key # Inventory[j].key
                /\ Range(Inventory[i].tables) \cap Range(Inventory[j].tables) = {}
  /\ \E c \in Range(Inventory) : c.erasure = "erase"

Erasable == {c.key : c \in {d \in Range(Inventory) : d.erasure = "erase"}}

-----------------------------------------------------------------------------
(* What is held: a row is of a user, of an address or of a parent row, and   *)
(* may cite another that must be there                                       *)

Root(key) ==
  CASE key = "profile" -> "user_profiles"
    [] key = "legacy_applications" -> "job_applications"
    [] OTHER -> key

ChildOf == [work_history_entries |-> "user_profiles",
            education_entries |-> "user_profiles",
            skills |-> "user_profiles",
            work_authorizations |-> "user_profiles",
            eeo_self_identifications |-> "user_profiles",
            application_status_events |-> "tracked_applications"]

IsParent(q, r) ==
  r.table \in DOMAIN ChildOf /\ q.table = ChildOf[r.table] /\ q.id = r.of

Children(rows) == {child \in held : \E row \in rows : IsParent(row, child)}

\* The rows of a table that are the subject's.
RowsOf(s, table) ==
  CASE table \in DOMAIN ChildOf ->
         {r \in Children({q \in held : q.of = s.user}) : r.table = table}
    [] table = "job_applications" ->
         {r \in held : r.table = table /\ s.email # NoOne /\ r.of = s.email}
    [] OTHER -> {r \in held : r.table = table /\ r.of = s.user}

\* With a bug: the files of every résumé.
FilesOfAnybody(s) ==
  {f \in held : f.table = "files" /\ \E r \in held : r.table = "resumes" /\ r.cites = f.id}

FilesOf(s) ==
  {f \in held : f.table = "files" /\ \E r \in RowsOf(s, "resumes") : r.cites = f.id}

-----------------------------------------------------------------------------
(* Other requests *)

\* What another transaction has deleted is waited for.
Unlocked(rows, p) ==
  \A q \in Requests \ {p} : deleted[q] \cap rows = {}

\* A stored row holds on to its parent and to the row it cites, which must
\* both be there.
HoldsOnTo(r) == {q \in held : q.id = r.cites \/ IsParent(q, r)}

NeedsAreMet(r) ==
  /\ r.cites # NoOne => \E q \in held : q.id = r.cites
  /\ r.table \in DOMAIN ChildOf => \E q \in held : IsParent(q, r)

\* Ids are new.
Store(p, r) ==
  /\ MayStart(p)
  /\ r \notin written
  /\ NeedsAreMet(r)
  /\ Unlocked(HoldsOnTo(r), p)
  /\ held' = held \cup {r}
  /\ written' = written \cup {r}
  /\ Goto(p, "ok")
  /\ UNCHANGED dataLocals

-----------------------------------------------------------------------------
(* Export *)

NoClaim == [op |-> "none", user |-> NoOne, email |-> NoOne]

\* The statements of a reader.
Statements(c) ==
  IF ~c.exportable THEN <<>> ELSE IF c.key = "resume_files" THEN <<"files">> ELSE c.tables

\* Those of the categories in turn.
Reads ==
  LET upTo[n \in 0 .. Len(Inventory)] ==
        IF n = 0 THEN <<>> ELSE upTo[n - 1] \o Statements(Inventory[n])
  IN upTo[Len(Inventory)]

Ask(p, op, s, statements, label) ==
  /\ MayStart(p)
  /\ claim' = [claim EXCEPT ![p] = [op |-> op, user |-> s.user, email |-> s.email]]
  /\ plan' = [plan EXCEPT ![p] = statements]
  /\ begun' = [begun EXCEPT ![p] = held]
  /\ Goto(p, label)

AskExport(p, s) ==
  /\ Ask(p, "export", s, Reads, "exporting")
  /\ UNCHANGED <<held, written, blobs, deleted, copied>>

\* The manifest lists files by the rows that name them.
ReadTable(p) ==
  /\ pc[p] = "exporting"
  /\ plan[p] # <<>>
  /\ LET table == Head(plan[p]) IN
     copied' = [copied EXCEPT ![p] = @ \cup
                  (IF table = "files" THEN FilesOf(claim[p])
                                      ELSE RowsOf(claim[p], table))]
  /\ plan' = [plan EXCEPT ![p] = Tail(@)]
  /\ UNCHANGED <<serving, held, written, claim, blobs, deleted, begun>>

Export(p) ==
  /\ pc[p] = "exporting"
  /\ plan[p] = <<>>
  /\ Goto(p, "ok")
  /\ UNCHANGED dataVars

-----------------------------------------------------------------------------
(* Erasure *)

\* What cites a row goes before it.
Erasures ==
  <<"tracked_applications", "application_documents", "application_reviews",
    "portal_handoffs", "answer_memories", "job_match_feedback", "resumes",
    "profile", "legacy_applications">>

AskErasure(p, s) ==
  /\ Ask(p, "erase", s, Erasures, "reading_keys")
  /\ UNCHANGED <<held, written, blobs, deleted, copied>>

ReadFileKeys(p) ==
  /\ pc[p] = "reading_keys"
  /\ blobs' = [blobs EXCEPT ![p] = FilesOf(claim[p])]
  /\ Goto(p, "erasing")
  /\ UNCHANGED <<held, written, claim, plan, deleted, copied, begun>>

DeleteStoredFile(p) ==
  /\ pc[p] = "erasing"
  /\ \E f \in blobs[p] :
       /\ held' = held \ {f}
       /\ blobs' = [blobs EXCEPT ![p] = @ \ {f}]
  /\ UNCHANGED <<serving, written, claim, plan, deleted, copied, begun>>

\* The rows of a category, if it is to be erased.
RowsToErase(s, key) == IF key \in Erasable THEN RowsOf(s, Root(key)) ELSE {}

\* The rows of its children go with a row.
DeletedWith(rows) == rows \cup Children(rows)

DeleteRows(p) ==
  /\ pc[p] = "erasing"
  /\ blobs[p] = {}
  /\ plan[p] # <<>>
  /\ LET rows == RowsToErase(claim[p], Head(plan[p]))
         going == deleted[p] \cup DeletedWith(rows)
         cited == {r \in held \ going : \E row \in rows : r.cites = row.id}
     IN /\ Unlocked(DeletedWith(rows), p)
        /\ IF cited = {}
           THEN /\ deleted' = [deleted EXCEPT ![p] = going]
                /\ plan' = [plan EXCEPT ![p] = Tail(@)]
                /\ UNCHANGED serving
           ELSE /\ deleted' = [deleted EXCEPT ![p] = {}]
                /\ Goto(p, "failed")
                /\ UNCHANGED plan
  /\ UNCHANGED <<held, written, claim, blobs, copied, begun>>

\* The receipt wants a count for every category that can be erased.
CommitErasure(p) ==
  /\ pc[p] = "erasing"
  /\ blobs[p] = {}
  /\ plan[p] = <<>>
  /\ held' = held \ deleted[p]
  /\ deleted' = [deleted EXCEPT ![p] = {}]
  /\ Goto(p, IF Erasable \subseteq Range(Erasures) \cup {"resume_files"}
             THEN "ok" ELSE "failed")
  /\ UNCHANGED <<written, claim, plan, blobs, copied, begun>>

\* The transaction goes, the files stay deleted.
RightsRequestDies(p) ==
  /\ CutShort(p)
  /\ deleted' = [deleted EXCEPT ![p] = {}]
  /\ UNCHANGED <<held, written, claim, plan, blobs, copied, begun>>

-----------------------------------------------------------------------------

DataInit(rows) ==
  /\ InventoryIsValid
  /\ held = rows
  /\ written = rows
  /\ claim = [p \in Requests |-> NoClaim]
  /\ plan = [p \in Requests |-> <<>>]
  /\ blobs = [p \in Requests |-> {}]
  /\ deleted = [p \in Requests |-> {}]
  /\ copied = [p \in Requests |-> {}]
  /\ begun = [p \in Requests |-> {}]

Asks(p) ==
  \/ \E r \in Storable : Store(p, r)
  \/ /\ Cardinality({q \in Requests : claim[q] # NoClaim}) < MaxRights
     /\ \E s \in Subjects : AskExport(p, s) \/ AskErasure(p, s)

DataNext ==
  \/ \E p \in Requests :
       \/ Asks(p)
       \/ ReadTable(p) \/ Export(p)
       \/ ReadFileKeys(p) \/ DeleteStoredFile(p) \/ DeleteRows(p)
       \/ CommitErasure(p) \/ RightsRequestDies(p)
  \/ (\A p \in Requests : ~InFlight(p)) /\ UNCHANGED <<serving, dataVars>>

DataSpec ==
  /\ InitServing /\ DataInit(HeldBefore)
  /\ [][DataNext]_<<serving, dataVars>>

-----------------------------------------------------------------------------
(* What the schema says of whatever is stored *)

Tables == UNION {Range(c.tables) : c \in Range(Inventory)}

Rows == HeldBefore \cup Storable

ASSUME RowsAreOfTheSchema == \A r \in Rows : r.table \in Tables \cup {"files"}
ASSUME RowsAreKeyed == \A r \in Rows : r.id # NoOne /\ \A q \in Rows : r.id = q.id => r = q
ASSUME NothingIsMissing ==
  \A r \in HeldBefore :
    /\ r.cites # NoOne => \E q \in HeldBefore : q.id = r.cites
    /\ r.table \in DOMAIN ChildOf => \E q \in HeldBefore : IsParent(q, r)

\* A résumé's file is the candidate's, and no other's.
ASSUME FilesAreNamedOnce ==
  \A r \in Rows : r.table = "resumes" =>
    \A q \in Rows : /\ q.table = "resumes" /\ q.cites = r.cites => q = r
                    /\ q.table = "files" /\ q.id = r.cites => q.of = r.of

-----------------------------------------------------------------------------
(* What must hold *)

Names(row, file) == row.table = "resumes" /\ file.table = "files" /\ row.cites = file.id

\* Whom something held is about: a file whom its résumé is about.
IsAbout(r, s, rows) ==
  CASE r.table \in DOMAIN ChildOf -> \E q \in rows : IsParent(q, r) /\ q.of = s.user
    [] r.table = "files"          -> \E q \in rows : Names(q, r) /\ q.of = s.user
    [] r.table = "job_applications" -> s.email # NoOne /\ r.of = s.email
    [] OTHER                      -> r.of = s.user

\* A file whose résumé was stored under the eyes of an erasure that had begun
\* before: it may take the row and leave the file, which nothing finds again.
LeftBehind(file, p) ==
  \E q \in Requests : /\ claim[q].op = "erase"
                      /\ \E row \in begun[p] \ begun[q] : Names(row, file)

\* Whatever is stored, exported or erased meanwhile, an answered request has
\* reached all that was held about its subject when it arrived: an erasure has
\* removed it but for the consents, an export has read it but for what was
\* erased meanwhile; neither reaches a file another erasure left behind.
\* Nothing of anybody else's is removed.
RequestsReachEverything ==
  [][\A p \in Requests :
       /\ pc[p] \notin Ended /\ pc'[p] = "ok" =>
            LET about == {r \in begun[p] : IsAbout(r, claim[p], begun[p])
                                           /\ ~LeftBehind(r, p)} IN
            CASE claim[p].op = "erase" ->
                   \A r \in about \cap held' : r.table = "consent_decisions"
              [] claim[p].op = "export" -> about \cap held' \subseteq copied[p]
              [] OTHER -> TRUE
       /\ \A r \in held \ held' :
            \E q \in Requests :
              /\ claim[q].op = "erase"
              /\ \/ IsAbout(r, claim[q], begun[q] \cup held)
                 \/ r.table = "files" /\ r.of = claim[q].user]_<<serving, dataVars>>
=============================================================================
