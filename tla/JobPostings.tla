----------------------------- MODULE JobPostings -----------------------------
(***************************************************************************)
(* Job postings and the three kinds of background task that write them:    *)
(* ingestion inserts a listing unless one like it is stored, the sweep     *)
(* takes postings out of the active set, and extraction attaches the       *)
(* requirements a language model read from the description.  Each run of a *)
(* task is one member of Tasks, with a database session of its own.  Every *)
(* update writes the whole posting back, column by column, from an entity  *)
(* read before a network call.                                             *)
(***************************************************************************)
EXTENDS OrmUpdate, Naturals, FiniteSets

CONSTANTS
  PostingIds,     \* identifiers the id generator may hand out
  Listings,       \* normalized (source, company, title, location)
  Tasks,          \* runs of a task
  DeadLinkAfter,  \* failed checks in a row that flag a dead link
  Faults,         \* whether a run may be cut short
  NoOne           \* the NULL of a nullable column

ASSUME DeadLinkAfterIsPositive == DeadLinkAfter \in Nat \ {0}
ASSUME NoOneIsNoTaskOrListing == NoOne \notin Tasks \cup Listings

VARIABLES
  postings,       \* the job_postings table
  pc,             \* where each run stands
  batch,          \* the postings a run has still to handle
  seen,           \* each posting as the run read it
  current,        \* the posting or the listing a run is working on
  want,           \* the posting it is about to store
  read,           \* the row `merge` read before assigning to it
  probe,          \* what the link check of a run's posting came back with
  streak,         \* recorded checks of each posting that failed in a row
  basis,          \* each posting as the table had it when a run read it
  outdated        \* those some run has stored over what a sweep had changed since

taskVars == <<batch, seen, current, want, read, probe>>
\* What the properties look back on; the code keeps none of it.
history == <<streak, basis, outdated>>
vars == <<postings, pc, taskVars, history>>

Statuses == {"unused", "active", "stale", "dead_link"}

Gone == {"stale", "dead_link"}

Outcomes == {"reachable", "confirmed_dead", "transient_failure"}

PostingRow == [listing : Listings \cup {NoOne},
               status : Statuses,
               checked : Tasks \cup {NoOne},
               failures : Nat,
               requirements : Tasks \cup {NoOne}]

NoPosting == [listing |-> NoOne, status |-> "unused", checked |-> NoOne,
              failures |-> 0, requirements |-> NoOne]

IngestedFrom(l) == [NoPosting EXCEPT !.listing = l, !.status = "active"]

-----------------------------------------------------------------------------
(* The entity *)

\* mark_stale_if_expired, on a posting that is too old.
Expired(r) == IF r.status = "active" THEN [r EXCEPT !.status = "stale"] ELSE r

\* With a bug: an answer from the server leaves the failures counted so far.
LinkCheckedKeepingFailures(r, outcome, t) ==
  IF outcome = "reachable"
  THEN [r EXCEPT !.checked = t]
  ELSE [r EXCEPT !.checked = t, !.failures = @ + 1,
                 !.status = IF /\ r.status = "active"
                               /\ \/ outcome = "confirmed_dead"
                                  \/ r.failures + 1 >= DeadLinkAfter
                            THEN "dead_link" ELSE @]

\* apply_link_check, which the sweep only makes on an active posting.
LinkChecked(r, outcome, t) ==
  IF outcome = "reachable"
  THEN [r EXCEPT !.checked = t, !.failures = 0]
  ELSE [r EXCEPT !.checked = t, !.failures = @ + 1,
                 !.status = IF /\ r.status = "active"
                               /\ \/ outcome = "confirmed_dead"
                                  \/ r.failures + 1 >= DeadLinkAfter
                            THEN "dead_link" ELSE @]

\* session.merge, then the flush at commit.
MergedPosting(row, before, entity) ==
  [row EXCEPT
     !.status = Written(@, before.status, entity.status),
     !.checked = Written(@, before.checked, entity.checked),
     !.failures = Written(@, before.failures, entity.failures),
     !.requirements = Written(@, before.requirements, entity.requirements)]

-----------------------------------------------------------------------------
(* Runs *)

Busy(t) == pc[t] \notin {"idle", "ended"}

\* What a sweep writes of a posting.
Swept(r) == <<r.status, r.checked, r.failures>>

\* Whatever else is going on: the workers take tasks side by side.
MayStart(t) == pc[t] = "idle"

Goto(t, label) == pc' = [pc EXCEPT ![t] = label]

\* The run has these postings before it as the table has them now.
Reads(t, some) ==
  basis' = [basis EXCEPT ![t] = [i \in PostingIds |->
              IF i \in some THEN postings[i] ELSE NoPosting]]

\* The run moves on to the next posting of its batch, or ends.
NextInBatch(t, label) ==
  /\ batch' = [batch EXCEPT ![t] = @ \ {current[t]}]
  /\ current' = [current EXCEPT ![t] = NoOne]
  /\ seen' = [seen EXCEPT ![t] = [i \in PostingIds |->
                IF i \in batch[t] \ {current[t]} THEN @[i] ELSE NoPosting]]
  /\ basis' = [basis EXCEPT ![t] = [i \in PostingIds |->
                IF i \in batch[t] \ {current[t]} THEN @[i] ELSE NoPosting]]
  /\ want' = [want EXCEPT ![t] = NoPosting]
  /\ read' = [read EXCEPT ![t] = NoPosting]
  /\ probe' = [probe EXCEPT ![t] = "none"]
  /\ Goto(t, IF batch[t] \subseteq {current[t]} THEN "ended" ELSE label)

-----------------------------------------------------------------------------
(* Ingestion: listing by listing, look for a duplicate, then insert.  No    *)
(* unique constraint stands behind the look.                                *)

\* find_duplicate
Stored(l) == \E i \in PostingIds : postings[i].listing = l

\* A bound: the identifiers of PostingIds do not run out.
IdLeft ==
  Cardinality({u \in Tasks : pc[u] = "adding"})
    < Cardinality({i \in PostingIds : postings[i].status = "unused"})

StartIngestion(t) ==
  /\ MayStart(t)
  /\ Goto(t, "ingesting")
  /\ UNCHANGED <<postings, taskVars, history>>

FindNoDuplicate(t, l) ==
  /\ pc[t] = "ingesting"
  /\ ~Stored(l)
  /\ IdLeft
  /\ current' = [current EXCEPT ![t] = l]
  /\ Goto(t, "adding")
  /\ UNCHANGED <<postings, batch, seen, want, read, probe, history>>

AddPosting(t, i) ==
  /\ pc[t] = "adding"
  /\ postings[i].status = "unused"
  /\ postings' = [postings EXCEPT ![i] = IngestedFrom(current[t])]
  /\ current' = [current EXCEPT ![t] = NoOne]
  /\ Goto(t, "ingesting")
  /\ UNCHANGED <<batch, seen, want, read, probe, history>>

\* The source has no more listings, or all that are left are duplicates or
\* cannot be resolved.
EndIngestion(t) ==
  /\ pc[t] = "ingesting"
  /\ Goto(t, "ended")
  /\ UNCHANGED <<postings, taskVars, history>>

-----------------------------------------------------------------------------
(* The sweep: read a batch of active postings that are due, then handle one *)
(* after the other, each as it was when the batch was read.                 *)

ActivePostings == {i \in PostingIds : postings[i].status = "active"}

\* Which active postings are due depends on the clock and the batch size.
Due == ActivePostings

\* With a bug: the mapping to an entity leaves the requirements out.
StartSweepWithoutRequirements(t, due) ==
  /\ MayStart(t)
  /\ due # {} /\ due \subseteq Due
  /\ batch' = [batch EXCEPT ![t] = due]
  /\ seen' = [seen EXCEPT ![t] = [i \in PostingIds |->
                IF i \in due THEN [postings[i] EXCEPT !.requirements = NoOne]
                ELSE NoPosting]]
  /\ Reads(t, due)
  /\ Goto(t, "sweeping")
  /\ UNCHANGED <<postings, current, want, read, probe, streak, outdated>>

StartSweep(t, due) ==
  /\ MayStart(t)
  /\ due # {} /\ due \subseteq Due
  /\ batch' = [batch EXCEPT ![t] = due]
  /\ seen' = [seen EXCEPT ![t] = [i \in PostingIds |->
                IF i \in due THEN postings[i] ELSE NoPosting]]
  /\ Reads(t, due)
  /\ Goto(t, "sweeping")
  /\ UNCHANGED <<postings, current, want, read, probe, streak, outdated>>

\* Too old: no request is spent on its link.
SweepExpired(t, i) ==
  /\ pc[t] = "sweeping"
  /\ i \in batch[t]
  /\ current' = [current EXCEPT ![t] = i]
  /\ want' = [want EXCEPT ![t] = Expired(seen[t][i])]
  /\ Goto(t, "sweep_reread")
  /\ UNCHANGED <<postings, batch, seen, read, probe, history>>

\* The link is probed and the outcome applied, before anything is stored.
SweepChecks(t, i, outcome) ==
  /\ pc[t] = "sweeping"
  /\ i \in batch[t]
  /\ current' = [current EXCEPT ![t] = i]
  /\ want' = [want EXCEPT ![t] = LinkChecked(seen[t][i], outcome, t)]
  /\ probe' = [probe EXCEPT ![t] = outcome]
  /\ Goto(t, "sweep_reread")
  /\ UNCHANGED <<postings, batch, seen, read, history>>

-----------------------------------------------------------------------------
(* Extraction: of the postings without requirements, one after the other is *)
(* read, handed to the model and stored.                                    *)

Missing == {i \in PostingIds : /\ postings[i].status # "unused"
                               /\ postings[i].requirements = NoOne}

StartExtraction(t, pending) ==
  /\ MayStart(t)
  /\ pending # {} /\ pending \subseteq Missing
  /\ batch' = [batch EXCEPT ![t] = pending]
  /\ Goto(t, "extracting")
  /\ UNCHANGED <<postings, seen, current, want, read, probe, history>>

\* With a bug: the mapping to an entity leaves the status at its default.
ReadToExtractAsActive(t, i) ==
  /\ pc[t] = "extracting"
  /\ i \in batch[t]
  /\ current' = [current EXCEPT ![t] = i]
  /\ want' = [want EXCEPT ![t] = [postings[i] EXCEPT !.requirements = t,
                                                    !.status = "active"]]
  /\ Reads(t, {i})
  /\ Goto(t, "extract_reread")
  /\ UNCHANGED <<postings, batch, seen, read, probe, streak, outdated>>

\* get_by_id; the model is asked about this reading.
ReadToExtract(t, i) ==
  /\ pc[t] = "extracting"
  /\ i \in batch[t]
  /\ current' = [current EXCEPT ![t] = i]
  /\ want' = [want EXCEPT ![t] = [postings[i] EXCEPT !.requirements = t]]
  /\ Reads(t, {i})
  /\ Goto(t, "extract_reread")
  /\ UNCHANGED <<postings, batch, seen, read, probe, streak, outdated>>

-----------------------------------------------------------------------------
(* repository.update, for both *)

Rereading == {"sweep_reread", "extract_reread"}
Flushing == {"sweep_flush", "extract_flush"}

MergeReads(t) ==
  /\ pc[t] \in Rereading
  /\ read' = [read EXCEPT ![t] = postings[current[t]]]
  /\ Goto(t, IF pc[t] = "sweep_reread" THEN "sweep_flush" ELSE "extract_flush")
  /\ UNCHANGED <<postings, batch, seen, current, want, probe, history>>

\* The failed checks in a row, once this one is on record too.
StreakAfter(n, outcome) ==
  CASE outcome = "none"              -> n
    [] outcome = "reachable"         -> 0
    [] outcome = "confirmed_dead"    -> DeadLinkAfter
    [] outcome = "transient_failure" -> IF n < DeadLinkAfter THEN n + 1 ELSE n

MergeFlushes(t) ==
  /\ pc[t] \in Flushing
  /\ postings' = [postings EXCEPT
                    ![current[t]] = MergedPosting(@, read[t], want[t])]
  /\ NextInBatch(t, IF pc[t] = "sweep_flush" THEN "sweeping" ELSE "extracting")
  /\ streak' = [streak EXCEPT ![current[t]] = StreakAfter(@, probe[t])]
  /\ outdated' = outdated \cup
       {i \in {current[t]} : \/ Swept(postings[i]) # Swept(basis[t][i])
                              \/ Swept(postings[i]) # Swept(read[t])}

\* The link check, the model or the store fails: the posting is counted as
\* failed and the run goes on.
ItemFails(t) ==
  /\ pc[t] \in Rereading \cup Flushing
  /\ NextInBatch(t, IF pc[t] \in {"sweep_reread", "sweep_flush"}
                    THEN "sweeping" ELSE "extracting")
  /\ UNCHANGED <<postings, streak, outdated>>

\* The worker is killed.
Die(t) ==
  /\ Faults
  /\ Busy(t)
  /\ Goto(t, "ended")
  /\ batch' = [batch EXCEPT ![t] = {}]
  /\ seen' = [seen EXCEPT ![t] = [i \in PostingIds |-> NoPosting]]
  /\ basis' = [basis EXCEPT ![t] = [i \in PostingIds |-> NoPosting]]
  /\ current' = [current EXCEPT ![t] = NoOne]
  /\ want' = [want EXCEPT ![t] = NoPosting]
  /\ read' = [read EXCEPT ![t] = NoPosting]
  /\ probe' = [probe EXCEPT ![t] = "none"]
  /\ UNCHANGED <<postings, streak, outdated>>

-----------------------------------------------------------------------------

NothingHappened ==
  /\ postings = [i \in PostingIds |-> NoPosting]
  /\ batch = [t \in Tasks |-> {}]
  /\ seen = [t \in Tasks |-> [i \in PostingIds |-> NoPosting]]
  /\ current = [t \in Tasks |-> NoOne]
  /\ want = [t \in Tasks |-> NoPosting]
  /\ read = [t \in Tasks |-> NoPosting]
  /\ probe = [t \in Tasks |-> "none"]
  /\ streak = [i \in PostingIds |-> 0]
  /\ basis = [t \in Tasks |-> [i \in PostingIds |-> NoPosting]]
  /\ outdated = {}

Init ==
  /\ NothingHappened
  /\ pc = [t \in Tasks |-> "idle"]

Ingest(t) ==
  \/ StartIngestion(t)
  \/ \E l \in Listings : FindNoDuplicate(t, l)
  \/ \E i \in PostingIds : AddPosting(t, i)
  \/ EndIngestion(t)

Sweep(t) ==
  \/ \E due \in SUBSET Due : StartSweep(t, due)
  \/ \E i \in PostingIds : SweepExpired(t, i)
  \/ \E i \in PostingIds, outcome \in Outcomes : SweepChecks(t, i, outcome)

Extract(t) ==
  \/ \E pending \in SUBSET Missing : StartExtraction(t, pending)
  \/ \E i \in PostingIds : ReadToExtract(t, i)

Store(t) == MergeReads(t) \/ MergeFlushes(t) \/ ItemFails(t)

Next ==
  \/ \E t \in Tasks : Ingest(t) \/ Sweep(t) \/ Extract(t) \/ Store(t) \/ Die(t)
  \/ (\A t \in Tasks : pc[t] = "ended") /\ UNCHANGED vars

Spec == Init /\ [][Next]_vars

-----------------------------------------------------------------------------
(* What must hold *)

Labels == {"idle", "ended", "ingesting", "adding", "sweeping", "extracting"}
          \cup Rereading \cup Flushing

TypeOK ==
  /\ postings \in [PostingIds -> PostingRow]
  /\ pc \in [Tasks -> Labels]
  /\ batch \in [Tasks -> SUBSET PostingIds]
  /\ seen \in [Tasks -> [PostingIds -> PostingRow]]
  /\ current \in [Tasks -> PostingIds \cup Listings \cup {NoOne}]
  /\ want \in [Tasks -> PostingRow]
  /\ read \in [Tasks -> PostingRow]
  /\ probe \in [Tasks -> Outcomes \cup {"none"}]
  /\ streak \in [PostingIds -> 0 .. DeadLinkAfter]
  /\ basis \in [Tasks -> [PostingIds -> PostingRow]]
  /\ outdated \subseteq PostingIds

\* Status is one-way: a posting the sweep took out of the active set is never
\* shown to a candidate again, whoever still holds an older reading of it.
LeavesActiveForGood ==
  [][\A i \in PostingIds :
       postings[i].status \in Gone => postings'[i].status \in Gone]_postings

\* However runs overlap, a posting that left the active set only returns to it
\* by a run that had read it active before, and that stores this reading
\* although its own merge has just read that the posting is gone: no run
\* brings back a posting it had read as gone, and none whose merge saw nothing.
ReturnsByAnOlderReading ==
  [][\A i \in PostingIds :
       postings[i].status \in Gone /\ postings'[i].status \notin Gone =>
         \E t \in Tasks :
           /\ pc[t] \in Flushing /\ current[t] = i
           /\ basis[t][i].status = "active" /\ read[t].status \in Gone]_postings

\* A posting is flagged as a dead link only when its server said so or its
\* last DeadLinkAfter recorded checks all failed: a blip never hides a live
\* posting.  However runs overlap, two sweeps included, this can only be lost on
\* a posting that some run stored over what a sweep had changed since the run
\* read it, or since its merge did.
DeadOnEvidence ==
  [][\A i \in PostingIds \ outdated' :
       postings[i].status = "active" /\ postings'[i].status = "dead_link"
         => streak'[i] = DeadLinkAfter]_postings

\* What the model read from a description stays: however runs overlap,
\* requirements are only lost to a sweep that read the posting before they
\* were there and whose merge then found them.
RequirementsAreKept ==
  [][\A i \in PostingIds :
       postings[i].requirements # NoOne /\ postings'[i].requirements = NoOne =>
         \E t \in Tasks :
           /\ pc[t] = "sweep_flush" /\ current[t] = i
           /\ basis[t][i].requirements = NoOne
           /\ read[t].requirements # NoOne]_postings

=============================================================================
