-------------------------- MODULE JobPostings_proofs --------------------------
(***************************************************************************)
(* Proofs about job postings, for any set of postings, listings and task   *)
(* runs and any number of failed checks that flags a dead link; and about  *)
(* the roles recommended to a candidate, for any profiles, demands and     *)
(* limit.                                                                  *)
(***************************************************************************)
EXTENDS JobPostings, JobMatching, FiniteSetTheorems,
        WellFoundedInduction, TLAPS

-----------------------------------------------------------------------------
(* Types *)

Sweeping == {"sweeping", "sweep_reread", "sweep_flush"}
Extracting == {"extracting", "extract_reread", "extract_flush"}

\* A run that stores something works on a posting, one that adds on a listing.
TypeInv ==
  /\ TypeOK
  /\ \A t \in Tasks :
       /\ pc[t] \in Rereading \cup Flushing => current[t] \in PostingIds
       /\ pc[t] = "adding" => current[t] \in Listings

LEMMA NoPostingIsRow == NoPosting \in PostingRow
  BY DEF NoPosting, PostingRow, Statuses

LEMMA IngestedIsRow ==
  ASSUME NEW l \in Listings
  PROVE  /\ IngestedFrom(l) \in PostingRow
         /\ IngestedFrom(l).status = "active" /\ IngestedFrom(l).failures = 0
         /\ IngestedFrom(l).requirements = NoOne
  BY DEF IngestedFrom, NoPosting, PostingRow, Statuses

\* What a sweep does to a posting.
LEMMA ExpiredIsRow ==
  ASSUME NEW r \in PostingRow
  PROVE  /\ Expired(r) \in PostingRow
         /\ Expired(r).listing = r.listing
         /\ Expired(r).requirements = r.requirements
         /\ Expired(r).failures = r.failures
         /\ r.status = "active" => Expired(r).status = "stale"
  BY DEF Expired, PostingRow, Statuses

LEMMA LinkCheckedIsRow ==
  ASSUME NEW r \in PostingRow, NEW outcome \in Outcomes, NEW t \in Tasks
  PROVE  /\ LinkChecked(r, outcome, t) \in PostingRow
         /\ LinkChecked(r, outcome, t).listing = r.listing
         /\ LinkChecked(r, outcome, t).requirements = r.requirements
         /\ LinkChecked(r, outcome, t).failures =
              IF outcome = "reachable" THEN 0 ELSE r.failures + 1
         /\ LinkChecked(r, outcome, t).status =
              IF /\ outcome # "reachable" /\ r.status = "active"
                 /\ outcome = "confirmed_dead" \/ r.failures + 1 >= DeadLinkAfter
              THEN "dead_link" ELSE r.status
  <1>1. CASE outcome = "reachable"
    <2> DEFINE a == [r EXCEPT !.checked = t]
    <2>1. a \in PostingRow
      BY DEF PostingRow
    <2>2. [a EXCEPT !.failures = 0] \in PostingRow
      BY <2>1 DEF PostingRow
    <2>3. LinkChecked(r, outcome, t) = [a EXCEPT !.failures = 0]
      BY <1>1 DEF LinkChecked
    <2> QED BY <1>1, <2>2, <2>3 DEF PostingRow
  <1>2. CASE outcome # "reachable"
    <2> DEFINE status == IF /\ r.status = "active"
                            /\ outcome = "confirmed_dead" \/ r.failures + 1 >= DeadLinkAfter
                         THEN "dead_link" ELSE r.status
               a == [r EXCEPT !.checked = t]
               b == [a EXCEPT !.failures = r.failures + 1]
               c == [b EXCEPT !.status = status]
    <2>1. status \in Statuses
      BY DEF PostingRow, Statuses
    <2>2. LinkChecked(r, outcome, t) = c
      BY <1>2 DEF LinkChecked, PostingRow
    <2> HIDE DEF status
    <2>3. a \in PostingRow /\ a.failures = r.failures /\ a.listing = r.listing
          /\ a.requirements = r.requirements
      BY DEF PostingRow
    <2> HIDE DEF a
    <2>4. b \in PostingRow /\ b.failures = r.failures + 1 /\ b.listing = r.listing
          /\ b.requirements = r.requirements
      BY <2>3 DEF PostingRow
    <2> HIDE DEF b
    <2>5. /\ c \in PostingRow /\ c.failures = r.failures + 1 /\ c.listing = r.listing
          /\ c.requirements = r.requirements /\ c.status = status
      BY <2>1, <2>4 DEF PostingRow
    <2> QED BY <1>2, <2>2, <2>5 DEF status
  <1> QED BY <1>1, <1>2

LEMMA ExtractedIsRow ==
  ASSUME NEW r \in PostingRow, NEW t \in Tasks
  PROVE  /\ [r EXCEPT !.requirements = t] \in PostingRow
         /\ [r EXCEPT !.requirements = t].listing = r.listing
         /\ [r EXCEPT !.requirements = t].status = r.status
         /\ [r EXCEPT !.requirements = t].failures = r.failures
         /\ [r EXCEPT !.requirements = t].requirements = t
  BY DEF PostingRow

\* The flush stores a row, and the entity itself where the row is as it was read.
LEMMA MergedIsRow ==
  ASSUME NEW row \in PostingRow, NEW before \in PostingRow, NEW entity \in PostingRow
  PROVE  /\ MergedPosting(row, before, entity) \in PostingRow
         /\ row = before /\ entity.listing = row.listing =>
              MergedPosting(row, before, entity) = entity
  <1> DEFINE status == Written(row.status, before.status, entity.status)
             checked == Written(row.checked, before.checked, entity.checked)
             failures == Written(row.failures, before.failures, entity.failures)
             requirements == Written(row.requirements, before.requirements,
                                     entity.requirements)
             merged == [listing |-> row.listing, status |-> status, checked |-> checked,
                        failures |-> failures, requirements |-> requirements]
  <1>1. /\ status \in Statuses /\ checked \in Tasks \cup {NoOne} /\ failures \in Nat
        /\ requirements \in Tasks \cup {NoOne}
    BY DEF PostingRow, Written
  <1>2. row = before => /\ status = entity.status /\ checked = entity.checked
                        /\ failures = entity.failures /\ requirements = entity.requirements
    BY DEF Written
  <1>3. MergedPosting(row, before, entity) =
          [row EXCEPT !.status = status, !.checked = checked, !.failures = failures,
                      !.requirements = requirements]
    BY DEF MergedPosting, PostingRow
  <1> HIDE DEF status, checked, failures, requirements
  <1>4. MergedPosting(row, before, entity) = merged
    BY <1>3 DEF PostingRow
  <1>5. merged \in PostingRow
    BY <1>1 DEF PostingRow
  <1>6. row = before /\ entity.listing = row.listing => merged = entity
    BY <1>2 DEF PostingRow
  <1> QED BY <1>4, <1>5, <1>6

LEMMA StreakIsBounded ==
  ASSUME NEW n \in 0 .. DeadLinkAfter, NEW outcome \in Outcomes \cup {"none"}
  PROVE  StreakAfter(n, outcome) \in 0 .. DeadLinkAfter
  BY DeadLinkAfterIsPositive DEF StreakAfter, Outcomes

LEMMA InitTyped ==
  ASSUME Init
  PROVE  TypeInv
  BY NoPostingIsRow, DeadLinkAfterIsPositive
     DEF Init, NothingHappened, TypeInv, TypeOK, Labels, Rereading, Flushing

\* A run that moves on to its next posting.
LEMMA NextInBatchTyped ==
  ASSUME TypeInv, NEW t \in Tasks, NEW label \in {"sweeping", "extracting"},
         NextInBatch(t, label),
         postings' \in [PostingIds -> PostingRow],
         streak' \in [PostingIds -> 0 .. DeadLinkAfter],
         outdated' \subseteq PostingIds
  PROVE  TypeInv'
  <1> USE DEF TypeInv, TypeOK
  <1> DEFINE rest == batch[t] \ {current[t]}
             left == [i \in PostingIds |-> IF i \in rest THEN seen[t][i] ELSE NoPosting]
             kept == [i \in PostingIds |-> IF i \in rest THEN basis[t][i] ELSE NoPosting]
             there == IF batch[t] \subseteq {current[t]} THEN "ended" ELSE label
  <1>1. /\ batch' = [batch EXCEPT ![t] = rest]
        /\ current' = [current EXCEPT ![t] = NoOne]
        /\ seen' = [seen EXCEPT ![t] = left]
        /\ basis' = [basis EXCEPT ![t] = kept]
        /\ want' = [want EXCEPT ![t] = NoPosting]
        /\ read' = [read EXCEPT ![t] = NoPosting]
        /\ probe' = [probe EXCEPT ![t] = "none"]
        /\ pc' = [pc EXCEPT ![t] = there]
    BY DEF NextInBatch, Goto
  <1>2. rest \in SUBSET PostingIds
    OBVIOUS
  <1>3. left \in [PostingIds -> PostingRow] /\ kept \in [PostingIds -> PostingRow]
    BY NoPostingIsRow
  <1>4. there \in Labels \ (Rereading \cup Flushing \cup {"adding"})
    BY DEF Labels, Rereading, Flushing
  <1> HIDE DEF rest, left, kept, there
  <1>5. TypeOK'
    BY <1>1, <1>2, <1>3, <1>4, NoPostingIsRow
  <1>6. \A u \in Tasks :
          /\ pc'[u] \in Rereading \cup Flushing => current'[u] \in PostingIds
          /\ pc'[u] = "adding" => current'[u] \in Listings
    BY <1>1, <1>4
  <1> QED BY <1>5, <1>6

LEMMA IngestTyped ==
  ASSUME TypeInv, NEW t \in Tasks, Ingest(t)
  PROVE  TypeInv'
  <1> USE DEF TypeInv, TypeOK, Goto, Labels, Rereading, Flushing
  <1>1. CASE StartIngestion(t) \/ EndIngestion(t)
    BY <1>1 DEF StartIngestion, EndIngestion, taskVars, history
  <1>2. CASE \E l \in Listings : FindNoDuplicate(t, l)
    BY <1>2 DEF FindNoDuplicate, history
  <1>3. ASSUME NEW i \in PostingIds, AddPosting(t, i)
        PROVE  TypeInv'
    <2>1. IngestedFrom(current[t]) \in PostingRow
      BY <1>3, IngestedIsRow DEF AddPosting
    <2>2. postings' \in [PostingIds -> PostingRow]
      BY <1>3, <2>1 DEF AddPosting
    <2> QED BY <1>3, <2>2 DEF AddPosting, history
  <1> QED BY <1>1, <1>2, <1>3 DEF Ingest

LEMMA SweepTyped ==
  ASSUME TypeInv, NEW t \in Tasks, Sweep(t)
  PROVE  TypeInv'
  <1> USE DEF TypeInv, TypeOK, Goto
  <1>0. {"sweeping", "sweep_reread"} \subseteq Labels /\ "sweeping" \notin Rereading \cup Flushing
        /\ "sweep_reread" # "adding" /\ "sweeping" # "adding"
    BY DEF Labels, Rereading, Flushing
  <1>1. ASSUME NEW due \in SUBSET Due, StartSweep(t, due)
        PROVE  TypeInv'
    <2> DEFINE found == [i \in PostingIds |-> IF i \in due THEN postings[i] ELSE NoPosting]
    <2>1. found \in [PostingIds -> PostingRow] /\ due \in SUBSET PostingIds
      BY NoPostingIsRow DEF Due, ActivePostings
    <2>2. /\ batch' = [batch EXCEPT ![t] = due] /\ seen' = [seen EXCEPT ![t] = found]
          /\ pc' = [pc EXCEPT ![t] = "sweeping"] /\ basis' = [basis EXCEPT ![t] = found]
          /\ UNCHANGED <<postings, current, want, read, probe, streak, outdated>>
      BY <1>1 DEF StartSweep, Reads
    <2> HIDE DEF found
    <2> QED BY <1>0, <2>1, <2>2
  <1>2. ASSUME NEW i \in PostingIds, NEW a \in PostingRow, NEW found \in Outcomes \cup {"none"},
               current' = [current EXCEPT ![t] = i], want' = [want EXCEPT ![t] = a],
               probe' \in [Tasks -> Outcomes \cup {"none"}], Goto(t, "sweep_reread"),
               UNCHANGED <<postings, batch, seen, read, streak, basis, outdated>>
        PROVE  TypeInv'
    BY <1>0, <1>2
  <1>3. ASSUME NEW i \in PostingIds, SweepExpired(t, i)
        PROVE  TypeInv'
    <2>1. Expired(seen[t][i]) \in PostingRow
      BY ExpiredIsRow
    <2>2. "none" \in Outcomes \cup {"none"}
      OBVIOUS
    <2>3. /\ current' = [current EXCEPT ![t] = i]
          /\ want' = [want EXCEPT ![t] = Expired(seen[t][i])]
          /\ probe' \in [Tasks -> Outcomes \cup {"none"}] /\ Goto(t, "sweep_reread")
          /\ UNCHANGED <<postings, batch, seen, read, streak, basis, outdated>>
      BY <1>3 DEF SweepExpired, history
    <2> QED BY <1>2, <2>1, <2>2, <2>3
  <1>4. ASSUME NEW i \in PostingIds, NEW outcome \in Outcomes, SweepChecks(t, i, outcome)
        PROVE  TypeInv'
    <2>1. LinkChecked(seen[t][i], outcome, t) \in PostingRow
      BY LinkCheckedIsRow
    <2>2. /\ current' = [current EXCEPT ![t] = i]
          /\ want' = [want EXCEPT ![t] = LinkChecked(seen[t][i], outcome, t)]
          /\ probe' \in [Tasks -> Outcomes \cup {"none"}] /\ Goto(t, "sweep_reread")
          /\ UNCHANGED <<postings, batch, seen, read, streak, basis, outdated>>
      BY <1>4 DEF SweepChecks, history
    <2> QED BY <1>2, <2>1, <2>2
  <1> QED BY <1>1, <1>3, <1>4 DEF Sweep

LEMMA ExtractTyped ==
  ASSUME TypeInv, NEW t \in Tasks, Extract(t)
  PROVE  TypeInv'
  <1> USE DEF TypeInv, TypeOK, Goto
  <1>0. {"extracting", "extract_reread"} \subseteq Labels
        /\ "extracting" \notin Rereading \cup Flushing
        /\ "extract_reread" # "adding" /\ "extracting" # "adding"
    BY DEF Labels, Rereading, Flushing
  <1>1. ASSUME NEW pending \in SUBSET Missing, StartExtraction(t, pending)
        PROVE  TypeInv'
    <2>1. pending \in SUBSET PostingIds
      BY DEF Missing
    <2> QED BY <1>0, <1>1, <2>1 DEF StartExtraction, history
  <1>2. ASSUME NEW i \in PostingIds, ReadToExtract(t, i)
        PROVE  TypeInv'
    <2> DEFINE a == [postings[i] EXCEPT !.requirements = t]
               found == [j \in PostingIds |-> IF j \in {i} THEN postings[j] ELSE NoPosting]
    <2>1. a \in PostingRow /\ found \in [PostingIds -> PostingRow]
      BY ExtractedIsRow, NoPostingIsRow
    <2>2. /\ current' = [current EXCEPT ![t] = i] /\ want' = [want EXCEPT ![t] = a]
          /\ pc' = [pc EXCEPT ![t] = "extract_reread"]
          /\ basis' = [basis EXCEPT ![t] = found]
          /\ UNCHANGED <<postings, batch, seen, read, probe, streak, outdated>>
      BY <1>2 DEF ReadToExtract, Reads
    <2> HIDE DEF a, found
    <2> QED BY <1>0, <2>1, <2>2
  <1> QED BY <1>1, <1>2 DEF Extract

LEMMA StoreTyped ==
  ASSUME TypeInv, NEW t \in Tasks, Store(t)
  PROVE  TypeInv'
  <1>1. CASE MergeReads(t)
    <2>1. /\ read' = [read EXCEPT ![t] = postings[current[t]]]
          /\ postings[current[t]] \in PostingRow /\ current[t] \in PostingIds
          /\ pc' = [pc EXCEPT ![t] = IF pc[t] = "sweep_reread" THEN "sweep_flush"
                                     ELSE "extract_flush"]
          /\ UNCHANGED <<postings, batch, seen, current, want, probe, streak, basis, outdated>>
      BY <1>1 DEF MergeReads, TypeInv, TypeOK, Goto, history
    <2> QED BY <2>1 DEF TypeInv, TypeOK, Labels, Rereading, Flushing
  <1>2. CASE MergeFlushes(t)
    <2> DEFINE c == current[t]
               row == MergedPosting(postings[c], read[t], want[t])
    <2>1. /\ c \in PostingIds /\ postings[c] \in PostingRow
          /\ read[t] \in PostingRow /\ want[t] \in PostingRow
      BY <1>2 DEF MergeFlushes, TypeInv, TypeOK
    <2>2. row \in PostingRow
      BY <2>1, MergedIsRow
    <2>3. postings' = [postings EXCEPT ![c] = row]
      BY <1>2, <2>1 DEF MergeFlushes, TypeInv, TypeOK
    <2> HIDE DEF row, c
    <2>4. postings' \in [PostingIds -> PostingRow]
      BY <2>1, <2>2, <2>3 DEF TypeInv, TypeOK
    <2>5. streak' \in [PostingIds -> 0 .. DeadLinkAfter]
      <3>1. StreakAfter(streak[c], probe[t]) \in 0 .. DeadLinkAfter
        BY <2>1, StreakIsBounded DEF TypeInv, TypeOK
      <3>2. streak' = [streak EXCEPT ![c] = StreakAfter(streak[c], probe[t])]
        BY <1>2, <2>1 DEF MergeFlushes, TypeInv, TypeOK, c
      <3> QED BY <3>1, <3>2 DEF TypeInv, TypeOK
    <2>6. \E label \in {"sweeping", "extracting"} : NextInBatch(t, label)
      BY <1>2 DEF MergeFlushes
    <2>7. outdated' \subseteq PostingIds
      BY <1>2, <2>1 DEF MergeFlushes, TypeInv, TypeOK, c
    <2> QED BY <2>4, <2>5, <2>6, <2>7, NextInBatchTyped
  <1>3. CASE ItemFails(t)
    <2>1. \E label \in {"sweeping", "extracting"} : NextInBatch(t, label)
      BY <1>3 DEF ItemFails
    <2>2. postings' \in [PostingIds -> PostingRow]
          /\ streak' \in [PostingIds -> 0 .. DeadLinkAfter] /\ outdated' \subseteq PostingIds
      BY <1>3 DEF ItemFails, TypeInv, TypeOK
    <2> QED BY <2>1, <2>2, NextInBatchTyped
  <1> QED BY <1>1, <1>2, <1>3 DEF Store

LEMMA DieTyped ==
  ASSUME TypeInv, NEW t \in Tasks, Die(t)
  PROVE  TypeInv'
  <1> DEFINE none == [i \in PostingIds |-> NoPosting]
  <1>1. none \in [PostingIds -> PostingRow]
    BY NoPostingIsRow
  <1>2. /\ pc' = [pc EXCEPT ![t] = "ended"] /\ batch' = [batch EXCEPT ![t] = {}]
        /\ seen' = [seen EXCEPT ![t] = none] /\ current' = [current EXCEPT ![t] = NoOne]
        /\ want' = [want EXCEPT ![t] = NoPosting] /\ read' = [read EXCEPT ![t] = NoPosting]
        /\ probe' = [probe EXCEPT ![t] = "none"] /\ basis' = [basis EXCEPT ![t] = none]
        /\ UNCHANGED <<postings, streak, outdated>>
    BY DEF Die, Goto
  <1> HIDE DEF none
  <1>3. "ended" \in Labels \ (Rereading \cup Flushing \cup {"adding"})
    BY DEF Labels, Rereading, Flushing
  <1> QED BY <1>1, <1>2, <1>3, NoPostingIsRow DEF TypeInv, TypeOK

LEMMA NextTyped ==
  ASSUME TypeInv, [Next]_vars
  PROVE  TypeInv'
  <1>1. CASE UNCHANGED vars
    BY <1>1 DEF vars, taskVars, history, TypeInv, TypeOK
  <1>2. CASE \E t \in Tasks : Ingest(t) \/ Sweep(t) \/ Extract(t) \/ Store(t) \/ Die(t)
    BY <1>2, IngestTyped, SweepTyped, ExtractTyped, StoreTyped, DieTyped
  <1> QED BY <1>1, <1>2 DEF Next

\* Whatever runs overlap and wherever they are cut short, rows, entities and
\* counts keep their types: no sweep or extraction ever writes to a posting
\* that is not one.
THEOREM PostingsTypeCorrect == Spec => []TypeOK
  <1>1. Init => TypeInv
    BY InitTyped
  <1>2. TypeInv /\ [Next]_vars => TypeInv'
    BY NextTyped
  <1>3. TypeInv => TypeOK
    BY DEF TypeInv
  <1> QED BY <1>1, <1>2, <1>3, PTL DEF Spec

-----------------------------------------------------------------------------
(* What overlapping runs have in hand *)

\* A number nobody uses has no posting, and a run has only postings in hand.
InUse ==
  /\ \A i \in PostingIds : postings[i].status = "unused" => postings[i] = NoPosting
  /\ \A t \in Tasks :
       /\ pc[t] \in Sweeping \cup Extracting =>
            \A i \in batch[t] : postings[i].status # "unused"
       /\ pc[t] \in Rereading \cup Flushing => current[t] \in batch[t]
       /\ pc[t] \in Flushing => read[t].status # "unused"

\* What a run is about to store is what it makes of the posting it read.
MadeOfBasis(t) ==
  LET row == basis[t][current[t]] IN
    \/ /\ pc[t] \in {"sweep_reread", "sweep_flush"} /\ row.status = "active"
       /\ \/ probe[t] = "none" /\ want[t] = Expired(row)
          \/ probe[t] \in Outcomes /\ want[t] = LinkChecked(row, probe[t], t)
    \/ /\ pc[t] \in {"extract_reread", "extract_flush"} /\ row.status # "unused"
       /\ probe[t] = "none"
       /\ want[t] = [row EXCEPT !.requirements = t]

RunInv(t) ==
  /\ pc[t] \in Sweeping => \A i \in batch[t] :
       seen[t][i] = basis[t][i] /\ basis[t][i].status = "active"
  /\ pc[t] \notin {"sweep_reread", "sweep_flush"} => probe[t] = "none"
  /\ pc[t] \in Rereading \cup Flushing => MadeOfBasis(t)

\* Where no run has stored over a sweep's change, the count of failed checks
\* is borne out by the record.
CountsHold ==
  \A i \in PostingIds \ outdated :
    streak[i] < DeadLinkAfter => postings[i].failures <= streak[i]

OverlapInv ==
  /\ TypeInv
  /\ InUse
  /\ \A t \in Tasks : RunInv(t)
  /\ CountsHold

LEMMA InitOverlaps ==
  ASSUME Init
  PROVE  OverlapInv
  <1>1. TypeInv
    BY InitTyped
  <1>2. InUse /\ \A t \in Tasks : RunInv(t)
    BY DEF Init, NothingHappened, InUse, RunInv, Sweeping, Extracting, Rereading, Flushing
  <1>3. CountsHold
    BY DeadLinkAfterIsPositive DEF Init, NothingHappened, CountsHold, NoPosting
  <1> QED BY <1>1, <1>2, <1>3 DEF OverlapInv

\* A step that leaves the table, and every run but one, as they are: it is
\* enough to look at that run.
LEMMA StepOfOne ==
  ASSUME OverlapInv, TypeInv', NEW t \in Tasks,
         UNCHANGED <<postings, streak, outdated>>,
         \A u \in Tasks \ {t} :
           /\ pc'[u] = pc[u] /\ batch'[u] = batch[u] /\ seen'[u] = seen[u]
           /\ current'[u] = current[u] /\ want'[u] = want[u] /\ read'[u] = read[u]
           /\ probe'[u] = probe[u] /\ basis'[u] = basis[u],
         pc'[t] \in Sweeping \cup Extracting =>
           \A i \in batch'[t] : postings[i].status # "unused",
         pc'[t] \in Rereading \cup Flushing => current'[t] \in batch'[t],
         pc'[t] \in Flushing => read'[t].status # "unused",
         RunInv(t)'
  PROVE  OverlapInv'
  <1>1. InUse'
    BY DEF OverlapInv, InUse
  <1>2. ASSUME NEW u \in Tasks \ {t} PROVE RunInv(u)'
    <2>1. RunInv(u)
      BY DEF OverlapInv
    <2>2. MadeOfBasis(u) => MadeOfBasis(u)'
      BY DEF MadeOfBasis
    <2> QED BY <2>1, <2>2 DEF RunInv
  <1>3. CountsHold'
    BY DEF OverlapInv, CountsHold
  <1> QED BY <1>1, <1>2, <1>3 DEF OverlapInv

\* A run that moves on in its batch, or ends, keeps what it has read.
LEMMA RestIsKept ==
  ASSUME OverlapInv, NEW t \in Tasks,
         \/ NextInBatch(t, "sweeping") /\ pc[t] \in {"sweep_reread", "sweep_flush"}
         \/ NextInBatch(t, "extracting") /\ pc[t] \in {"extract_reread", "extract_flush"}
  PROVE  /\ \A u \in Tasks \ {t} :
              /\ pc'[u] = pc[u] /\ batch'[u] = batch[u] /\ seen'[u] = seen[u]
              /\ current'[u] = current[u] /\ want'[u] = want[u] /\ read'[u] = read[u]
              /\ probe'[u] = probe[u] /\ basis'[u] = basis[u]
         /\ pc'[t] \in {"sweeping", "extracting", "ended"} /\ probe'[t] = "none"
         /\ pc'[t] = "sweeping" => pc[t] \in {"sweep_reread", "sweep_flush"}
         /\ pc'[t] = "extracting" => pc[t] \in {"extract_reread", "extract_flush"}
         /\ batch'[t] = batch[t] \ {current[t]}
         /\ \A i \in batch'[t] :
              /\ i \in PostingIds /\ i \in batch[t] /\ i # current[t]
              /\ seen'[t][i] = seen[t][i] /\ basis'[t][i] = basis[t][i]
  <1> USE DEF OverlapInv, TypeInv, TypeOK
  <1>1. batch[t] \subseteq PostingIds
    OBVIOUS
  <1> QED BY <1>1 DEF NextInBatch, Goto

LEMMA IngestOverlaps ==
  ASSUME OverlapInv, TypeInv', NEW t \in Tasks, Ingest(t)
  PROVE  OverlapInv'
  <1>1. /\ \A u \in Tasks \ {t} : pc'[u] = pc[u]
        /\ \A u \in Tasks : pc[u] \in Sweeping \cup Extracting \cup Rereading \cup Flushing =>
             u # t /\ current'[u] = current[u]
        /\ UNCHANGED <<batch, seen, want, read, probe, streak, basis, outdated>>
        /\ pc'[t] \in {"ingesting", "adding", "ended"}
        /\ pc[t] \in {"idle", "ingesting", "adding"}
    BY DEF OverlapInv, TypeInv, TypeOK, Ingest, StartIngestion, FindNoDuplicate, AddPosting,
           EndIngestion, MayStart, Goto, taskVars, history, Sweeping, Extracting, Rereading,
           Flushing
  <1>2. \/ UNCHANGED postings
        \/ \E i \in PostingIds :
             /\ postings[i].status = "unused" /\ current[t] \in Listings
             /\ postings' = [postings EXCEPT ![i] = IngestedFrom(current[t])]
    BY DEF OverlapInv, TypeInv, Ingest, StartIngestion, FindNoDuplicate, AddPosting,
           EndIngestion
  <1>3. \A i \in PostingIds :
          \/ postings'[i] = postings[i]
          \/ /\ postings[i].status = "unused"
             /\ postings'[i].status = "active" /\ postings'[i].failures = 0
    BY <1>2, IngestedIsRow DEF OverlapInv, TypeInv, TypeOK
  <1>4. \A u \in Tasks : batch[u] \subseteq PostingIds /\ probe[t] = "none"
    BY <1>1 DEF OverlapInv, TypeInv, TypeOK, RunInv
  <1>5. pc'[t] \notin Sweeping \cup Extracting \cup Rereading \cup Flushing
    BY <1>1 DEF Sweeping, Extracting, Rereading, Flushing
  <1>6. InUse'
    BY <1>1, <1>3, <1>4, <1>5 DEF OverlapInv, InUse
  <1>7. ASSUME NEW u \in Tasks PROVE RunInv(u)'
    <2>1. CASE u = t
      BY <1>1, <1>4, <1>5, <2>1 DEF RunInv
    <2>2. CASE u # t
      <3>1. RunInv(u) /\ pc'[u] = pc[u]
        BY <1>1, <2>2 DEF OverlapInv
      <3>2. pc[u] \in Rereading \cup Flushing =>
              current'[u] = current[u] /\ (MadeOfBasis(u) => MadeOfBasis(u)')
        BY <1>1, <3>1 DEF MadeOfBasis
      <3> QED BY <1>1, <3>1, <3>2 DEF RunInv
    <2> QED BY <2>1, <2>2
  <1>8. CountsHold'
    <2>1. CountsHold /\ UNCHANGED <<streak, outdated>> /\ streak \in [PostingIds -> Nat]
      BY <1>1 DEF OverlapInv, TypeInv, TypeOK
    <2>2. \A i \in PostingIds : postings'[i] = postings[i] \/ postings'[i].failures = 0
      BY <1>3
    <2> QED BY ONLY <2>1, <2>2 DEF CountsHold
  <1> QED BY <1>6, <1>7, <1>8 DEF OverlapInv

LEMMA SweepOverlaps ==
  ASSUME OverlapInv, TypeInv', NEW t \in Tasks, Sweep(t)
  PROVE  OverlapInv'
  <1> USE DEF TypeInv, TypeOK
  <1>1. /\ UNCHANGED <<postings, streak, read, outdated>>
        /\ \A u \in Tasks \ {t} :
             /\ pc'[u] = pc[u] /\ batch'[u] = batch[u] /\ seen'[u] = seen[u]
             /\ current'[u] = current[u] /\ want'[u] = want[u]
             /\ probe'[u] = probe[u] /\ basis'[u] = basis[u]
        /\ pc'[t] \in {"sweeping", "sweep_reread"}
    BY DEF OverlapInv, Sweep, StartSweep, SweepExpired, SweepChecks, Goto, Reads, history
  <1>2. ASSUME NEW due \in SUBSET Due, StartSweep(t, due)
        PROVE  OverlapInv'
    <2>1. /\ batch'[t] = due /\ pc'[t] = "sweeping" /\ pc[t] = "idle"
          /\ \A i \in due : /\ i \in PostingIds /\ postings[i].status = "active"
                            /\ seen'[t][i] = postings[i] /\ basis'[t][i] = postings[i]
          /\ UNCHANGED probe
      BY <1>2 DEF OverlapInv, StartSweep, MayStart, Goto, Reads, Due, ActivePostings
    <2>2. probe[t] = "none"
      BY <2>1 DEF OverlapInv, RunInv
    <2>3. RunInv(t)'
      BY <2>1, <2>2, <1>1 DEF RunInv, Sweeping, Rereading, Flushing
    <2>4. pc'[t] \notin Rereading \cup Flushing
      BY <2>1 DEF Rereading, Flushing
    <2> HIDE DEF TypeInv, TypeOK
    <2> QED BY <1>1, <2>1, <2>3, <2>4, StepOfOne
  <1>3. ASSUME NEW i \in PostingIds, pc[t] = "sweeping", pc'[t] = "sweep_reread",
               i \in batch[t], current'[t] = i, UNCHANGED <<batch, seen, basis>>,
               \/ probe'[t] = "none" /\ want'[t] = Expired(seen[t][i])
               \/ /\ probe'[t] \in Outcomes
                  /\ want'[t] = LinkChecked(seen[t][i], probe'[t], t)
        PROVE  OverlapInv'
    <2>1. RunInv(t)
      BY DEF OverlapInv
    <2>2. \A j \in batch[t] : /\ seen[t][j] = basis[t][j] /\ basis[t][j].status = "active"
                              /\ postings[j].status # "unused"
      BY <1>3, <2>1 DEF RunInv, Sweeping, OverlapInv, InUse
    <2>3. MadeOfBasis(t)'
      BY <1>3, <2>2 DEF MadeOfBasis
    <2>4. RunInv(t)'
      BY <1>3, <2>2, <2>3 DEF RunInv
    <2>5. pc'[t] \notin Flushing
      BY <1>3 DEF Flushing
    <2> HIDE DEF TypeInv, TypeOK
    <2> QED BY <1>1, <1>3, <2>2, <2>4, <2>5, StepOfOne
  <1>4. ASSUME NEW i \in PostingIds, SweepExpired(t, i)
        PROVE  OverlapInv'
    <2>1. probe[t] = "none"
      BY <1>4 DEF OverlapInv, RunInv, SweepExpired
    <2> QED BY <1>3, <1>4, <2>1 DEF OverlapInv, SweepExpired, Goto, history
  <1>5. ASSUME NEW i \in PostingIds, NEW outcome \in Outcomes, SweepChecks(t, i, outcome)
        PROVE  OverlapInv'
    BY <1>3, <1>5 DEF OverlapInv, SweepChecks, Goto, history
  <1> QED BY <1>2, <1>4, <1>5 DEF Sweep

LEMMA ExtractOverlaps ==
  ASSUME OverlapInv, TypeInv', NEW t \in Tasks, Extract(t)
  PROVE  OverlapInv'
  <1> USE DEF TypeInv, TypeOK
  <1>1. /\ UNCHANGED <<postings, streak, read, probe, outdated>>
        /\ \A u \in Tasks \ {t} :
             /\ pc'[u] = pc[u] /\ batch'[u] = batch[u] /\ seen'[u] = seen[u]
             /\ current'[u] = current[u] /\ want'[u] = want[u] /\ basis'[u] = basis[u]
        /\ pc'[t] \in {"extracting", "extract_reread"}
        /\ pc[t] \in {"idle", "extracting"}
    BY DEF OverlapInv, Extract, StartExtraction, ReadToExtract, MayStart, Goto, Reads, history
  <1>2. probe[t] = "none"
    BY <1>1 DEF OverlapInv, RunInv
  <1>3. pc'[t] \notin Sweeping /\ pc'[t] \notin Flushing
    BY <1>1 DEF Sweeping, Flushing
  <1>4. ASSUME NEW pending \in SUBSET Missing, StartExtraction(t, pending)
        PROVE  OverlapInv'
    <2>1. /\ batch'[t] = pending /\ pc'[t] = "extracting"
          /\ \A i \in pending : postings[i].status # "unused"
      BY <1>4 DEF OverlapInv, StartExtraction, Goto, Missing
    <2>2. pc'[t] \notin Rereading
      BY <2>1 DEF Rereading
    <2>3. RunInv(t)'
      BY <1>1, <1>2, <1>3, <2>2 DEF RunInv
    <2> HIDE DEF TypeInv, TypeOK
    <2> QED BY <1>1, <1>3, <2>1, <2>2, <2>3, StepOfOne
  <1>5. ASSUME NEW i \in PostingIds, ReadToExtract(t, i)
        PROVE  OverlapInv'
    <2>1. /\ pc[t] = "extracting" /\ pc'[t] = "extract_reread" /\ i \in batch[t]
          /\ current'[t] = i /\ want'[t] = [postings[i] EXCEPT !.requirements = t]
          /\ basis'[t][i] = postings[i] /\ UNCHANGED batch
      BY <1>5 DEF OverlapInv, ReadToExtract, Goto, Reads
    <2>2. \A j \in batch[t] : postings[j].status # "unused"
      BY <2>1 DEF OverlapInv, InUse, Extracting
    <2>3. MadeOfBasis(t)'
      BY <1>1, <1>2, <2>1, <2>2 DEF MadeOfBasis
    <2>4. RunInv(t)'
      BY <1>1, <1>2, <1>3, <2>1, <2>3 DEF RunInv
    <2> HIDE DEF TypeInv, TypeOK
    <2> QED BY <1>1, <1>3, <2>1, <2>2, <2>4, StepOfOne
  <1> QED BY <1>4, <1>5 DEF Extract

LEMMA MergeReadsOverlaps ==
  ASSUME OverlapInv, TypeInv', NEW t \in Tasks, MergeReads(t)
  PROVE  OverlapInv'
  <1> USE DEF TypeInv, TypeOK
  <1>1. /\ UNCHANGED <<postings, streak, batch, seen, current, want, probe, basis, outdated>>
        /\ \A u \in Tasks \ {t} : pc'[u] = pc[u] /\ read'[u] = read[u]
        /\ read'[t] = postings[current[t]]
        /\ \/ pc[t] = "sweep_reread" /\ pc'[t] = "sweep_flush"
           \/ pc[t] = "extract_reread" /\ pc'[t] = "extract_flush"
    BY DEF OverlapInv, MergeReads, Goto, Rereading, history
  <1>2. /\ pc[t] \in Sweeping \cup Extracting /\ current[t] \in batch[t]
        /\ current[t] \in PostingIds
        /\ \A i \in batch[t] : postings[i].status # "unused"
        /\ pc'[t] \in Sweeping => pc[t] \in Sweeping
        /\ RunInv(t) /\ MadeOfBasis(t)
    BY <1>1 DEF OverlapInv, InUse, RunInv, Sweeping, Extracting, Rereading
  <1>3. MadeOfBasis(t)'
    BY <1>1, <1>2 DEF MadeOfBasis
  <1>4. RunInv(t)'
    BY <1>1, <1>2, <1>3 DEF RunInv, Sweeping
  <1> HIDE DEF TypeInv, TypeOK
  <1> QED BY <1>1, <1>2, <1>4, StepOfOne

\* A run whose posting fails, or that is killed.
LEMMA FailingOverlaps ==
  ASSUME OverlapInv, TypeInv', NEW t \in Tasks, ItemFails(t) \/ Die(t)
  PROVE  OverlapInv'
  <1>1. CASE ItemFails(t)
    <2>1. \/ NextInBatch(t, "sweeping") /\ pc[t] \in {"sweep_reread", "sweep_flush"}
          \/ NextInBatch(t, "extracting") /\ pc[t] \in {"extract_reread", "extract_flush"}
      BY <1>1 DEF ItemFails, Rereading, Flushing
    <2>2. UNCHANGED <<postings, streak, outdated>>
      BY <1>1 DEF ItemFails
    <2>3. /\ pc'[t] = "sweeping" => pc[t] \in Sweeping
          /\ pc'[t] = "extracting" => pc[t] \in Extracting
          /\ pc'[t] \notin Rereading \cup Flushing /\ pc'[t] # "sweep_flush"
          /\ pc'[t] \in Sweeping => pc'[t] = "sweeping"
          /\ pc'[t] \in Extracting => pc'[t] = "extracting"
      BY <2>1, RestIsKept DEF Sweeping, Extracting, Rereading, Flushing
    <2>4. RunInv(t)'
      BY <2>1, <2>3, RestIsKept DEF OverlapInv, RunInv
    <2>5. pc'[t] \in Sweeping \cup Extracting =>
            \A i \in batch'[t] : postings[i].status # "unused"
      BY <2>1, <2>3, RestIsKept DEF OverlapInv, InUse
    <2> QED BY <2>1, <2>2, <2>3, <2>4, <2>5, RestIsKept, StepOfOne
  <1>2. CASE Die(t)
    <2>1. /\ pc'[t] = "ended" /\ probe'[t] = "none"
          /\ UNCHANGED <<postings, streak, outdated>>
          /\ \A u \in Tasks \ {t} :
               /\ pc'[u] = pc[u] /\ batch'[u] = batch[u] /\ seen'[u] = seen[u]
               /\ current'[u] = current[u] /\ want'[u] = want[u] /\ read'[u] = read[u]
               /\ probe'[u] = probe[u] /\ basis'[u] = basis[u]
      BY <1>2 DEF OverlapInv, TypeInv, TypeOK, Die, Goto
    <2>2. pc'[t] \notin Sweeping \cup Extracting \cup Rereading \cup Flushing
      BY <2>1 DEF Sweeping, Extracting, Rereading, Flushing
    <2>3. RunInv(t)'
      BY <2>1, <2>2 DEF RunInv
    <2> QED BY <2>1, <2>2, <2>3, StepOfOne
  <1> QED BY <1>1, <1>2

-----------------------------------------------------------------------------
(* What a flush does *)

\* The columns, one by one.
LEMMA MergedColumns ==
  ASSUME NEW row \in PostingRow, NEW before \in PostingRow, NEW entity \in PostingRow
  PROVE  LET new == MergedPosting(row, before, entity) IN
         /\ new.status = Written(row.status, before.status, entity.status)
         /\ new.checked = Written(row.checked, before.checked, entity.checked)
         /\ new.failures = Written(row.failures, before.failures, entity.failures)
         /\ new.requirements =
              Written(row.requirements, before.requirements, entity.requirements)
  <1> DEFINE status == Written(row.status, before.status, entity.status)
             checked == Written(row.checked, before.checked, entity.checked)
             failures == Written(row.failures, before.failures, entity.failures)
             requirements == Written(row.requirements, before.requirements,
                                     entity.requirements)
  <1>1. MergedPosting(row, before, entity) =
          [row EXCEPT !.status = status, !.checked = checked, !.failures = failures,
                      !.requirements = requirements]
    BY DEF MergedPosting, PostingRow
  <1> HIDE DEF status, checked, failures, requirements
  <1>2. MergedPosting(row, before, entity) =
          [listing |-> row.listing, status |-> status, checked |-> checked,
           failures |-> failures, requirements |-> requirements]
    BY <1>1 DEF PostingRow
  <1> QED BY <1>2 DEF status, checked, failures, requirements

\* What a run makes of the posting it read.
LEMMA FlushedFromBasis ==
  ASSUME OverlapInv, NEW t \in Tasks, MergeFlushes(t)
  PROVE  LET c == current[t]
             old == postings[c]
             new == postings'[c]
             row == basis[t][c] IN
         /\ c \in PostingIds /\ c \in batch[t]
         /\ old \in PostingRow /\ row \in PostingRow /\ want[t] \in PostingRow
         /\ read[t] \in PostingRow /\ read[t].status # "unused" /\ old.status # "unused"
         /\ \A i \in PostingIds \ {c} : postings'[i] = postings[i] /\ streak'[i] = streak[i]
         /\ streak'[c] = StreakAfter(streak[c], probe[t])
         /\ outdated \subseteq outdated' /\ outdated' \subseteq outdated \cup {c}
         /\ c \notin outdated' => Swept(old) = Swept(row) /\ Swept(old) = Swept(read[t])
         /\ new.status = Written(old.status, read[t].status, want[t].status)
         /\ new.checked = Written(old.checked, read[t].checked, want[t].checked)
         /\ new.failures = Written(old.failures, read[t].failures, want[t].failures)
         /\ new.requirements =
              Written(old.requirements, read[t].requirements, want[t].requirements)
         /\ MadeOfBasis(t) /\ pc[t] \in Flushing
  <1> DEFINE c == current[t]
             row == basis[t][c]
  <1>1. /\ pc[t] \in Flushing /\ c \in PostingIds /\ postings[c] \in PostingRow
        /\ want[t] \in PostingRow /\ read[t] \in PostingRow /\ row \in PostingRow
        /\ postings' = [postings EXCEPT ![c] = MergedPosting(postings[c], read[t], want[t])]
        /\ streak' = [streak EXCEPT ![c] = StreakAfter(streak[c], probe[t])]
        /\ outdated' = outdated \cup {i \in {c} : \/ Swept(postings[i]) # Swept(basis[t][i])
                                                \/ Swept(postings[i]) # Swept(read[t])}
    BY DEF MergeFlushes, OverlapInv, TypeInv, TypeOK
  <1>2. MadeOfBasis(t) /\ c \in batch[t] /\ read[t].status # "unused"
    BY <1>1 DEF OverlapInv, RunInv, InUse
  <1>3. postings[c].status # "unused"
    BY <1>1, <1>2 DEF OverlapInv, InUse, Flushing, Sweeping, Extracting
  <1>4. postings'[c] = MergedPosting(postings[c], read[t], want[t])
    BY <1>1 DEF OverlapInv, TypeInv, TypeOK
  <1>5. /\ \A i \in PostingIds \ {c} : postings'[i] = postings[i] /\ streak'[i] = streak[i]
        /\ streak'[c] = StreakAfter(streak[c], probe[t])
    BY <1>1 DEF OverlapInv, TypeInv, TypeOK
  <1>6. /\ outdated \subseteq outdated' /\ outdated' \subseteq outdated \cup {c}
        /\ c \notin outdated' =>
             Swept(postings[c]) = Swept(row) /\ Swept(postings[c]) = Swept(read[t])
    BY <1>1, Zenon
  <1>7. /\ c \in PostingIds /\ c \in batch[t]
        /\ postings[c] \in PostingRow /\ row \in PostingRow /\ want[t] \in PostingRow
        /\ read[t] \in PostingRow /\ read[t].status # "unused"
        /\ postings[c].status # "unused" /\ MadeOfBasis(t) /\ pc[t] \in Flushing
    BY <1>1, <1>2, <1>3
  <1> HIDE DEF c, row
  <1>8. LET new == postings'[c] IN
        /\ new.status = Written(postings[c].status, read[t].status, want[t].status)
        /\ new.checked = Written(postings[c].checked, read[t].checked, want[t].checked)
        /\ new.failures = Written(postings[c].failures, read[t].failures, want[t].failures)
        /\ new.requirements =
             Written(postings[c].requirements, read[t].requirements, want[t].requirements)
    BY <1>4, <1>7, MergedColumns
  <1> QED BY <1>5, <1>6, <1>7, <1>8, Zenon DEF c, row

\* What is stored has a status, and which it can be.
LEMMA WantedOfBasis ==
  ASSUME OverlapInv, NEW t \in Tasks, MadeOfBasis(t), pc[t] \in Flushing,
         current[t] \in PostingIds, basis[t][current[t]] \in PostingRow
  PROVE  LET row == basis[t][current[t]] IN
         /\ want[t].status # "unused"
         /\ want[t].status = "active" => row.status = "active"
         /\ \/ /\ pc[t] = "extract_flush" /\ probe[t] = "none"
               /\ want[t].status = row.status /\ want[t].failures = row.failures
               /\ want[t].checked = row.checked /\ want[t].requirements = t
            \/ /\ pc[t] = "sweep_flush" /\ want[t].requirements = row.requirements
               /\ \/ /\ probe[t] = "none" /\ want[t].status = "stale"
                     /\ want[t].failures = row.failures
                  \/ /\ probe[t] \in Outcomes
                     /\ want[t].failures =
                          IF probe[t] = "reachable" THEN 0 ELSE row.failures + 1
                     /\ want[t].status = "dead_link" =>
                          /\ probe[t] # "reachable"
                          /\ probe[t] = "confirmed_dead" \/ row.failures + 1 >= DeadLinkAfter
  <1> DEFINE row == basis[t][current[t]]
  <1>1. CASE /\ pc[t] = "sweep_flush" /\ row.status = "active"
             /\ probe[t] = "none" /\ want[t] = Expired(row)
    <2> HIDE DEF row
    <2> QED BY <1>1, ExpiredIsRow DEF row
  <1>2. CASE /\ pc[t] = "sweep_flush" /\ row.status = "active"
             /\ probe[t] \in Outcomes /\ want[t] = LinkChecked(row, probe[t], t)
    <2>1. row \in PostingRow
      OBVIOUS
    <2> HIDE DEF row
    <2>2. /\ want[t].requirements = row.requirements
          /\ want[t].failures = IF probe[t] = "reachable" THEN 0 ELSE row.failures + 1
          /\ want[t].status =
               IF /\ probe[t] # "reachable" /\ row.status = "active"
                  /\ probe[t] = "confirmed_dead" \/ row.failures + 1 >= DeadLinkAfter
               THEN "dead_link" ELSE row.status
      BY <1>2, <2>1, LinkCheckedIsRow
    <2> QED BY <1>2, <2>2 DEF row
  <1>3. CASE /\ pc[t] = "extract_flush" /\ row.status # "unused" /\ probe[t] = "none"
             /\ want[t] = [row EXCEPT !.requirements = t]
    <2>1. row \in PostingRow
      OBVIOUS
    <2> HIDE DEF row
    <2>2. /\ want[t].status = row.status /\ want[t].failures = row.failures
          /\ want[t].checked = row.checked /\ want[t].requirements = t
      BY <1>3, <2>1 DEF PostingRow
    <2> QED BY <1>3, <2>2 DEF row
  <1> QED BY <1>1, <1>2, <1>3 DEF MadeOfBasis, Flushing

\* An extraction that stores over nothing leaves what a sweep writes as it is.
LEMMA ExtractionKeepsSwept ==
  ASSUME OverlapInv, NEW t \in Tasks, MergeFlushes(t), pc[t] = "extract_flush",
         current[t] \notin outdated'
  PROVE  /\ Swept(postings'[current[t]]) = Swept(postings[current[t]])
         /\ streak'[current[t]] = streak[current[t]]
  <1> DEFINE c == current[t]
  <1>1. Swept(basis[t][c]) = Swept(read[t])
    BY FlushedFromBasis
  <1>2. /\ want[t].status = read[t].status /\ want[t].failures = read[t].failures
        /\ want[t].checked = read[t].checked /\ probe[t] = "none"
    BY <1>1, FlushedFromBasis, WantedOfBasis DEF Swept
  <1> QED BY <1>2, FlushedFromBasis DEF Swept, Written, StreakAfter

\* A sweep of a posting nobody stored over stores what it made of it.
LEMMA SweepStoresCount ==
  ASSUME OverlapInv, NEW t \in Tasks, MergeFlushes(t), pc[t] = "sweep_flush",
         current[t] \notin outdated'
  PROVE  LET c == current[t] IN
         /\ postings'[c].status = want[t].status
         /\ postings'[c].failures = want[t].failures
         /\ basis[t][c].failures = postings[c].failures
         /\ streak[c] < DeadLinkAfter => postings[c].failures <= streak[c]
  <1> DEFINE c == current[t]
  <1>1. c \in PostingIds \ outdated /\ c \in batch[t]
    BY FlushedFromBasis
  <1>2. /\ Swept(basis[t][c]) = Swept(postings[c]) /\ Swept(read[t]) = Swept(postings[c])
        /\ streak[c] < DeadLinkAfter => postings[c].failures <= streak[c]
    BY <1>1, FlushedFromBasis DEF OverlapInv, CountsHold
  <1> QED BY <1>2, FlushedFromBasis DEF Swept, Written

\* The count of failed checks, after a sweep that was not stored over.
LEMMA SweepCounts ==
  ASSUME OverlapInv, NEW t \in Tasks, MergeFlushes(t), pc[t] = "sweep_flush",
         current[t] \notin outdated'
  PROVE  LET c == current[t] IN
         /\ streak'[c] < DeadLinkAfter => postings'[c].failures <= streak'[c]
         /\ postings'[c].status = "dead_link" => streak'[c] = DeadLinkAfter
  <1> DEFINE c == current[t]
             f == basis[t][c].failures
  <1>1. /\ streak'[c] = StreakAfter(streak[c], probe[t]) /\ streak[c] \in 0 .. DeadLinkAfter
        /\ f \in Nat
    BY FlushedFromBasis DEF OverlapInv, TypeInv, TypeOK, PostingRow
  <1>2. /\ postings'[c].status = want[t].status
        /\ postings'[c].failures = want[t].failures
        /\ streak[c] < DeadLinkAfter => f <= streak[c]
    BY SweepStoresCount
  <1>3. \/ probe[t] = "none" /\ want[t].status = "stale" /\ want[t].failures = f
        \/ /\ probe[t] \in Outcomes
           /\ want[t].failures = IF probe[t] = "reachable" THEN 0 ELSE f + 1
           /\ want[t].status = "dead_link" =>
                /\ probe[t] # "reachable"
                /\ probe[t] = "confirmed_dead" \/ f + 1 >= DeadLinkAfter
    BY FlushedFromBasis, WantedOfBasis
  <1> HIDE DEF f
  <1> QED BY <1>1, <1>2, <1>3, DeadLinkAfterIsPositive DEF StreakAfter, Outcomes

LEMMA MergeFlushesOverlaps ==
  ASSUME OverlapInv, TypeInv', NEW t \in Tasks, MergeFlushes(t)
  PROVE  OverlapInv'
  <1> DEFINE c == current[t]
  <1>1. /\ c \in PostingIds /\ c \in batch[t] /\ pc[t] \in Flushing
        /\ postings[c].status # "unused"
        /\ \A i \in PostingIds \ {c} : postings'[i] = postings[i] /\ streak'[i] = streak[i]
        /\ outdated \subseteq outdated'
    BY FlushedFromBasis
  <1>2. postings'[c].status # "unused"
    BY FlushedFromBasis, WantedOfBasis DEF Written
  <1>3. \/ NextInBatch(t, "sweeping") /\ pc[t] = "sweep_flush"
        \/ NextInBatch(t, "extracting") /\ pc[t] = "extract_flush"
    BY DEF MergeFlushes, Flushing
  <1>4. /\ \A u \in Tasks \ {t} :
             /\ pc'[u] = pc[u] /\ batch'[u] = batch[u] /\ seen'[u] = seen[u]
             /\ current'[u] = current[u] /\ want'[u] = want[u] /\ read'[u] = read[u]
             /\ probe'[u] = probe[u] /\ basis'[u] = basis[u]
        /\ pc'[t] = "sweeping" => pc[t] = "sweep_flush"
        /\ pc'[t] = "extracting" => pc[t] = "extract_flush"
        /\ pc'[t] \in {"sweeping", "extracting", "ended"} /\ probe'[t] = "none"
        /\ \A i \in batch'[t] :
             /\ i \in PostingIds /\ i \in batch[t] /\ i # c
             /\ seen'[t][i] = seen[t][i] /\ basis'[t][i] = basis[t][i]
    BY <1>3, RestIsKept
  <1> HIDE DEF c
  <1>5. /\ pc'[t] \in Sweeping => pc'[t] = "sweeping" /\ pc[t] \in Sweeping
        /\ pc'[t] \in Extracting => pc'[t] = "extracting" /\ pc[t] \in Extracting
        /\ pc'[t] \notin Rereading \cup Flushing /\ pc'[t] # "sweep_flush"
    BY <1>4 DEF Sweeping, Extracting, Rereading, Flushing
  <1>6. InUse'
    <2>1. \A i \in PostingIds : postings[i].status # "unused" => postings'[i].status # "unused"
      BY <1>1, <1>2
    <2>2. \A i \in PostingIds : postings'[i].status = "unused" => postings'[i] = NoPosting
      BY <1>1, <1>2 DEF OverlapInv, InUse
    <2>3. \A u \in Tasks : batch'[u] \subseteq PostingIds
      BY DEF TypeInv, TypeOK
    <2>4. ASSUME NEW u \in Tasks \ {t}
          PROVE  /\ pc'[u] \in Sweeping \cup Extracting =>
                      \A i \in batch'[u] : postings'[i].status # "unused"
                 /\ pc'[u] \in Rereading \cup Flushing => current'[u] \in batch'[u]
                 /\ pc'[u] \in Flushing => read'[u].status # "unused"
      BY <1>4, <2>1, <2>3 DEF OverlapInv, InUse
    <2>5. pc'[t] \in Sweeping \cup Extracting =>
            \A i \in batch'[t] : postings'[i].status # "unused"
      BY <1>4, <1>5, <2>1 DEF OverlapInv, InUse
    <2> QED BY <1>5, <2>2, <2>4, <2>5 DEF InUse
  <1>7. ASSUME NEW u \in Tasks PROVE RunInv(u)'
    <2>1. RunInv(u)
      BY DEF OverlapInv
    <2>2. u # t => (MadeOfBasis(u) => MadeOfBasis(u)')
      BY <1>4 DEF MadeOfBasis
    <2> QED BY <1>4, <1>5, <2>1, <2>2 DEF RunInv
  <1>8. CountsHold'
    <2>1. ASSUME NEW i \in PostingIds \ outdated', i # c
          PROVE  streak'[i] < DeadLinkAfter => postings'[i].failures <= streak'[i]
      BY <1>1, <2>1 DEF OverlapInv, CountsHold
    <2>2. CASE c \notin outdated' /\ pc[t] = "sweep_flush"
      BY <1>1, <2>1, <2>2, SweepCounts DEF CountsHold, c
    <2>3. CASE c \notin outdated' /\ pc[t] = "extract_flush"
      <3>1. postings'[c].failures = postings[c].failures /\ streak'[c] = streak[c]
        BY <2>3, ExtractionKeepsSwept DEF Swept, c
      <3>2. streak[c] < DeadLinkAfter => postings[c].failures <= streak[c]
        BY <1>1, <2>3 DEF OverlapInv, CountsHold
      <3> QED BY <2>1, <3>1, <3>2 DEF CountsHold
    <2>4. CASE c \in outdated'
      BY <2>1, <2>4 DEF CountsHold
    <2> QED BY <1>1, <2>2, <2>3, <2>4 DEF Flushing
  <1> QED BY <1>6, <1>7, <1>8 DEF OverlapInv

LEMMA NextOverlaps ==
  ASSUME OverlapInv, [Next]_vars
  PROVE  OverlapInv'
  <1>1. TypeInv'
    BY NextTyped DEF OverlapInv
  <1>2. CASE UNCHANGED vars
    <2>1. UNCHANGED <<postings, pc, batch, seen, current, want, read, probe, streak, basis,
                      outdated>>
      BY <1>2 DEF vars, taskVars, history
    <2>2. InUse' /\ CountsHold'
      BY <2>1 DEF OverlapInv, InUse, CountsHold
    <2>3. \A t \in Tasks : RunInv(t)'
      BY <2>1 DEF OverlapInv, RunInv, MadeOfBasis
    <2> QED BY <1>1, <2>2, <2>3 DEF OverlapInv
  <1> QED BY <1>1, <1>2, IngestOverlaps, SweepOverlaps, ExtractOverlaps,
             MergeReadsOverlaps, MergeFlushesOverlaps, FailingOverlaps DEF Next, Store

LEMMA OverlapInvHolds == Spec => []OverlapInv
  <1>1. OverlapInv /\ [Next]_vars => OverlapInv'
    BY NextOverlaps
  <1> QED BY <1>1, InitOverlaps, PTL DEF Spec

-----------------------------------------------------------------------------
(* What overlapping runs can do to a posting *)

\* Storing is the only step that touches a posting already there.
LEMMA OnlyFlushesChange ==
  ASSUME OverlapInv, [Next]_vars, NEW i \in PostingIds,
         postings[i].status # "unused", postings'[i] # postings[i]
  PROVE  \E t \in Tasks : MergeFlushes(t) /\ i = current[t]
  <1>1. postings' # postings
    OBVIOUS
  <1>2. PICK t \in Tasks : MergeFlushes(t) \/ \E j \in PostingIds : AddPosting(t, j)
    BY <1>1 DEF Next, vars, Ingest, StartIngestion, FindNoDuplicate, EndIngestion,
                Sweep, StartSweep, SweepExpired, SweepChecks,
                Extract, StartExtraction, ReadToExtract, Store, MergeReads, ItemFails, Die
  <1>3. ~\E j \in PostingIds : AddPosting(t, j)
    BY DEF AddPosting, OverlapInv, TypeInv, TypeOK
  <1>4. i = current[t]
    BY <1>2, <1>3, FlushedFromBasis
  <1> QED BY <1>2, <1>3, <1>4

LEMMA ReturnStep ==
  ASSUME OverlapInv, [Next]_vars, NEW i \in PostingIds,
         postings[i].status \in Gone, postings'[i].status \notin Gone
  PROVE  \E t \in Tasks :
           /\ pc[t] \in Flushing /\ current[t] = i
           /\ basis[t][i].status = "active" /\ read[t].status \in Gone
  <1>1. PICK t \in Tasks : MergeFlushes(t) /\ i = current[t]
    BY OnlyFlushesChange DEF Gone
  <1>2. /\ want[t].status # read[t].status /\ want[t].status \notin Gone
        /\ want[t].status # "unused" /\ read[t].status # "unused"
        /\ want[t].status = "active" => basis[t][i].status = "active"
        /\ want[t] \in PostingRow /\ read[t] \in PostingRow /\ pc[t] \in Flushing
    BY <1>1, FlushedFromBasis, WantedOfBasis DEF Written
  <1>3. want[t].status \in Statuses /\ read[t].status \in Statuses
    BY <1>2 DEF PostingRow
  <1>4. basis[t][i].status = "active" /\ read[t].status \in Gone
    BY <1>2, <1>3 DEF Statuses, Gone
  <1> QED BY <1>1, <1>2, <1>4

LEMMA DeadStep ==
  ASSUME OverlapInv, [Next]_vars, NEW i \in PostingIds \ outdated',
         postings[i].status = "active", postings'[i].status = "dead_link"
  PROVE  streak'[i] = DeadLinkAfter
  <1>1. PICK t \in Tasks : MergeFlushes(t) /\ i = current[t]
    BY OnlyFlushesChange
  <1>2. pc[t] # "extract_flush"
    BY <1>1, ExtractionKeepsSwept DEF Swept
  <1>3. pc[t] = "sweep_flush"
    BY <1>1, <1>2 DEF MergeFlushes, Flushing
  <1> QED BY <1>1, <1>3, SweepCounts

LEMMA RequirementsStep ==
  ASSUME OverlapInv, [Next]_vars, NEW i \in PostingIds,
         postings[i].requirements # NoOne, postings'[i].requirements = NoOne
  PROVE  \E t \in Tasks :
           /\ pc[t] = "sweep_flush" /\ current[t] = i
           /\ basis[t][i].requirements = NoOne /\ read[t].requirements # NoOne
  <1>1. postings[i].status # "unused"
    BY DEF OverlapInv, InUse, NoPosting
  <1>2. PICK t \in Tasks : MergeFlushes(t) /\ i = current[t]
    BY <1>1, OnlyFlushesChange
  <1>3. want[t].requirements = NoOne /\ read[t].requirements # NoOne
    BY <1>2, FlushedFromBasis DEF Written
  <1>4. \/ want[t].requirements = t
        \/ pc[t] = "sweep_flush" /\ want[t].requirements = basis[t][i].requirements
    BY <1>2, FlushedFromBasis, WantedOfBasis
  <1> QED BY <1>2, <1>3, <1>4, NoOneIsNoTaskOrListing

\* However runs overlap, a posting that left the active set returns to it only
\* by a run that had read it active and stores that reading although its own
\* merge found it gone: Posting.mark_stale_if_expired and apply_link_check, and
\* the two background use cases that store what they make of a posting.
THEOREM GoneForGood == Spec => ReturnsByAnOlderReading
  <1>1. OverlapInv /\ [Next]_vars =>
          [\A i \in PostingIds :
             postings[i].status \in Gone /\ postings'[i].status \notin Gone =>
               \E t \in Tasks :
                 /\ pc[t] \in Flushing /\ current[t] = i
                 /\ basis[t][i].status = "active" /\ read[t].status \in Gone]_postings
    BY ReturnStep
  <1> QED BY <1>1, OverlapInvHolds, PTL DEF Spec, ReturnsByAnOlderReading

\* However runs overlap, a live posting is only flagged as a dead link when its
\* server says so, or after as many failed checks in a row as configured, all
\* of them on record, unless some run stored it over what a sweep had changed:
\* apply_link_check.
THEOREM DeadLinksAreProven == Spec => DeadOnEvidence
  <1>1. OverlapInv /\ [Next]_vars =>
          [\A i \in PostingIds \ outdated' :
             postings[i].status = "active" /\ postings'[i].status = "dead_link"
               => streak'[i] = DeadLinkAfter]_postings
    BY DeadStep
  <1> QED BY <1>1, OverlapInvHolds, PTL DEF Spec, DeadOnEvidence

\* However runs overlap, requirements that were extracted are lost only to a
\* sweep that had read the posting before they were there: an extraction never
\* loses them, nor a sweep that read them.
THEOREM ExtractedOnce == Spec => RequirementsAreKept
  <1>1. OverlapInv /\ [Next]_vars =>
          [\A i \in PostingIds :
             postings[i].requirements # NoOne /\ postings'[i].requirements = NoOne =>
               \E t \in Tasks :
                 /\ pc[t] = "sweep_flush" /\ current[t] = i
                 /\ basis[t][i].requirements = NoOne
                 /\ read[t].requirements # NoOne]_postings
    BY RequirementsStep
  <1> QED BY <1>1, OverlapInvHolds, PTL DEF Spec, RequirementsAreKept

-----------------------------------------------------------------------------
(* Recommendations: the inductive invariant *)

Stages == {"idle", "profile read", "catalogue read", "ranking", "answered"}

ListedPosting ==
  [demands : JobRequirements, identity : Identities, active : BOOLEAN]

Application == [posting : Nat, identity : Identities]

Recommendation ==
  [posting : Nat, applied : BOOLEAN, score : Int,
   rationale : {"written", "fallback"}]

\* What is asked for and recommended are postings that there are.
MatchingTypes ==
  /\ candidate \in CandidateProfile
  /\ listed \in Seq(ListedPosting)
  /\ applied \subseteq Application
  /\ appliedBefore \subseteq applied
  /\ matching \in [stage : Stages, again : BOOLEAN,
                   profile : CandidateProfile \cup {Unstated},
                   catalogue : Seq(DOMAIN listed), known : SUBSET Application,
                   next : Nat \ {0}, ranked : Seq(Recommendation)]
  /\ matching.stage # "idle" => matching.profile \in CandidateProfile

NewestFirst(roles) ==
  \A k, l \in DOMAIN roles : k < l => roles[k] > roles[l]

BestFirst(ranked) ==
  \A k, l \in DOMAIN ranked :
    k < l => \/ ranked[k].score > ranked[l].score
             \/ /\ ranked[k].score = ranked[l].score
                /\ ranked[k].posting > ranked[l].posting

\* The postings some entries recommend, and those that should be so far.
PostingsOf(ranked) == {ranked[k].posting : k \in DOMAIN ranked}

RecommendedUpTo(n) ==
  {matching.catalogue[k] : k \in
     {m \in DOMAIN matching.catalogue : m < n /\ Recommends(matching.catalogue[m])}}

\* An entry tells whether its role was applied to.
AppliedAmong(sent, roles, i) ==
  \E application \in sent : application.identity = roles[i].identity

ToldWhenApplied ==
  \A k \in DOMAIN matching.ranked :
    matching.ranked[k].applied
      = AppliedAmong(matching.known, listed, matching.ranked[k].posting)

\* What is recommended is what qualifies of the postings judged so far; until
\* they are sorted they stand in the order they were judged in.
RankedInv ==
  /\ NewestFirst(matching.catalogue)
  /\ matching.stage \notin {"ranking", "answered"} =>
       matching.next = 1 /\ matching.ranked = <<>>
  /\ matching.next <= Len(matching.catalogue) + 1
  /\ PostingsOf(matching.ranked) = RecommendedUpTo(matching.next)
  /\ ToldWhenApplied
  /\ matching.stage = "ranking" =>
       \A k, l \in DOMAIN matching.ranked :
         k < l => matching.ranked[k].posting > matching.ranked[l].posting
  /\ matching.stage \in {"ranking", "answered"} =>
       appliedBefore \subseteq matching.known
  /\ matching.stage = "answered" =>
       /\ matching.next = Len(matching.catalogue) + 1
       /\ BestFirst(matching.ranked)

MatchingInv == MatchingTypes /\ RankedInv

-----------------------------------------------------------------------------
(* Who qualifies *)

LEMMA RankIsNatural ==
  ASSUME NEW levels, DOMAIN levels \subseteq Nat \ {0}, NEW level
  PROVE  /\ RankIn(levels, level) \in Nat
         /\ level \in ToSet(levels) => RankIn(levels, level) >= 1
         /\ level \notin ToSet(levels) => RankIn(levels, level) = 0
  <1>2. CASE level \in ToSet(levels)
    <2>1. \E i \in DOMAIN levels : levels[i] = level
      BY <1>2 DEF ToSet
    <2>2. RankIn(levels, level) \in DOMAIN levels
      BY <1>2, <2>1 DEF RankIn
    <2> QED BY <1>2, <2>2
  <1>3. CASE level \notin ToSet(levels)
    BY <1>3 DEF RankIn
  <1> QED BY <1>2, <1>3

LEMMA Levels ==
  /\ DOMAIN Degrees \subseteq Nat \ {0} /\ DOMAIN Clearances \subseteq Nat \ {0}
  /\ Unstated \notin ToSet(Degrees) /\ Unstated \notin ToSet(Clearances)
  <1>1. DOMAIN Degrees = 1 .. 5
    BY DEF Degrees
  <1>2. DOMAIN Clearances = 1 .. 5
    BY DEF Clearances
  <1>3. \A i \in 1 .. 5 : Degrees[i] # Unstated
    BY DEF Degrees, Unstated
  <1>4. \A i \in 1 .. 5 : Clearances[i] # Unstated
    BY DEF Clearances, Unstated
  <1> QED BY <1>1, <1>2, <1>3, <1>4 DEF ToSet

LEMMA StudentStatusContradicts ==
  ASSUME NEW p \in CandidateProfile, NEW d \in JobRequirements, d.student # Unstated
  PROVE  StudentStatusFails(p, d) <=>
           /\ p.standing.status # Unstated
           /\ p.standing.status \notin Admits[d.student]
  <1>1. /\ p.standing.status \in {"undergraduate", "graduate", "not_enrolled", Unstated}
        /\ d.student \in StudentStatuses
    BY DEF CandidateProfile, EducationStanding, JobRequirements, Enrolled
  <1>2. /\ Admits["current_student"] = Enrolled
        /\ Admits["current_undergraduate"] = {"undergraduate"}
        /\ Admits["current_graduate_student"] = {"graduate"}
        /\ Admits["graduated"] = Enrolled \cup {"not_enrolled"}
    BY DEF Admits
  <1> QED BY <1>1, <1>2
      DEF StudentStatuses, StudentStatusFails, IsStated, Enrolled, Unstated

LEMMA DegreeContradicts ==
  ASSUME NEW p \in CandidateProfile, NEW d \in JobRequirements
  PROVE  DegreeFails(p, d) <=>
           Below(Degrees,
                 {p.completed} \cup IF d.student = "graduated" THEN {}
                                    ELSE {p.standing.in_progress},
                 d.degree)
  <1> DEFINE completed == p.completed
             begun == p.standing.in_progress
             Rank(level) == RankIn(Degrees, level)
  <1>1. /\ completed \in ToSet(Degrees) \cup {Unstated}
        /\ begun \in ToSet(Degrees) \cup {Unstated}
    BY DEF CandidateProfile, EducationStanding
  <1>2. /\ Rank(completed) \in Nat /\ Rank(begun) \in Nat /\ Rank(d.degree) \in Nat
        /\ completed # Unstated => Rank(completed) >= 1
        /\ begun # Unstated => Rank(begun) >= 1
        /\ Rank(Unstated) = 0
    BY <1>1, Levels, RankIsNatural
  <1> HIDE DEF Rank
  <1>3. CASE d.student = "graduated"
    <2>1. DegreeFails(p, d) <=> completed # Unstated /\ Rank(completed) < Rank(d.degree)
      BY <1>3 DEF DegreeFails, Rank
    <2>2. Below(Degrees, {completed}, d.degree)
            <=> completed # Unstated /\ Rank(completed) < Rank(d.degree)
      BY DEF Below, Rank
    <2> QED BY <1>3, <2>1, <2>2
  <1>4. CASE d.student # "graduated"
    <2> DEFINE level == HighestOf(completed, begun)
    <2>1. DegreeFails(p, d) <=> level # Unstated /\ Rank(level) < Rank(d.degree)
      BY <1>4 DEF DegreeFails, Rank
    <2>2. level = IF Rank(begun) > Rank(completed) THEN begun ELSE completed
      BY DEF HighestOf, Rank
    <2>3. Below(Degrees, {completed} \cup {begun}, d.degree)
            <=> /\ completed # Unstated \/ begun # Unstated
                /\ completed # Unstated => Rank(completed) < Rank(d.degree)
                /\ begun # Unstated => Rank(begun) < Rank(d.degree)
      BY DEF Below, Rank
    <2> HIDE DEF level, completed, begun
    <2>4. level # Unstated /\ Rank(level) < Rank(d.degree)
            <=> /\ completed # Unstated \/ begun # Unstated
                /\ completed # Unstated => Rank(completed) < Rank(d.degree)
                /\ begun # Unstated => Rank(begun) < Rank(d.degree)
      BY <1>2, <2>2
    <2> QED BY <1>4, <2>1, <2>3, <2>4 DEF completed, begun
  <1> QED BY <1>3, <1>4

LEMMA ClearanceContradicts ==
  ASSUME NEW p \in CandidateProfile, NEW d \in JobRequirements
  PROVE  ClearanceFails(p, d) <=> Below(Clearances, {p.clearance}, d.clearance)
  BY DEF ClearanceFails, Below

LEMMA LocationContradicts ==
  ASSUME NEW p, NEW d
  PROVE  LocationFails(p, d) <=>
           /\ Country(p.country) # Unstated
           /\ \E place \in d.locations : Country(place) # Unstated
           /\ \A place \in d.locations : Country(place) # Country(p.country)
  BY DEF LocationFails

\* Disqualified is exactly who a stated fact contradicts.
LEMMA OnlyFactsDisqualify ==
  ASSUME NEW p \in CandidateProfile, NEW d \in JobRequirements
  PROVE  Qualifies(p, d) <=> ~Contradicts(p, d)
  <1>1. ("eligibility" \in Failed(p, d)) <=>
          d.student # Unstated /\ StudentStatusFails(p, d)
    BY DEF Failed, Hard
  <1>2. ("degree" \in Failed(p, d)) <=>
          d.degree # Unstated /\ d.degree_required /\ DegreeFails(p, d)
    BY DEF Failed, Hard
  <1>3. ("clearance" \in Failed(p, d)) <=>
          d.clearance # Unstated /\ d.clearance_required /\ ClearanceFails(p, d)
    BY DEF Failed, Hard
  <1>4. ("location" \in Failed(p, d)) <=>
          d.locations # {} /\ d.remote = "on_site" /\ LocationFails(p, d)
    BY DEF Failed, Hard
  <1>5. ("work_authorization" \in Failed(p, d)) <=>
          d.authorization \in HardAuthorizations /\ AuthorizationFails(p, d)
    BY DEF Failed, Hard
  <1>6. Failed(p, d) \subseteq {"eligibility", "degree", "clearance", "location",
                                "work_authorization"}
    BY DEF Failed, Hard
  <1>7. d.authorization \in HardAuthorizations /\ AuthorizationFails(p, d)
          <=> \/ /\ d.authorization = "citizen"
                 /\ p.authorization \notin {Unstated, "citizen"}
              \/ /\ d.authorization = "permanent_resident"
                 /\ p.authorization \notin {Unstated} \cup HardAuthorizations
    BY DEF HardAuthorizations, AuthorizationFails
  <1>8. Contradicts(p, d) <=>
          \/ d.student # Unstated /\ StudentStatusFails(p, d)
          \/ d.degree # Unstated /\ d.degree_required /\ DegreeFails(p, d)
          \/ d.clearance # Unstated /\ d.clearance_required /\ ClearanceFails(p, d)
          \/ d.locations # {} /\ d.remote = "on_site" /\ LocationFails(p, d)
          \/ d.authorization \in HardAuthorizations /\ AuthorizationFails(p, d)
    BY <1>7, StudentStatusContradicts, DegreeContradicts, ClearanceContradicts,
       LocationContradicts DEF Contradicts
  <1> QED BY <1>1, <1>2, <1>3, <1>4, <1>5, <1>6, <1>8 DEF Qualifies

-----------------------------------------------------------------------------
(* The score *)

LEMMA RoundedIsNumber ==
  ASSUME NEW n \in Nat, NEW d \in Nat \ {0}
  PROVE  Rounded(n, d) \in Int
  <1>1. n \div d \in Int
    OBVIOUS
  <1> QED BY <1>1 DEF Rounded

LEMMA ScoreIsNumber ==
  ASSUME NEW p, NEW d \in JobRequirements
  PROVE  FitScore(p, d) \in Int
  <1>1. \A applies \in BOOLEAN, met \in BOOLEAN :
          Judged(applies, met)[1] \in Nat /\ Judged(applies, met)[2] \in Nat
    BY DEF Judged
  <1>2. SoftDegree(p, d)[1] \in Nat /\ SoftDegree(p, d)[2] \in Nat
    BY DEF SoftDegree, Judged
  <1>3. SoftClearance(p, d)[1] \in Nat /\ SoftClearance(p, d)[2] \in Nat
    BY DEF SoftClearance, Judged
  <1>4. SoftExperience(p, d)[1] \in Nat /\ SoftExperience(p, d)[2] \in Nat
    BY DEF SoftExperience, Judged
  <1>5. SoftSkills(p, d)[1] \in Nat /\ SoftSkills(p, d)[2] \in Nat
    <2>1. d.skills \in Seq(STRING)
      BY DEF JobRequirements
    <2>2. Len(d.skills) \in Nat /\ DOMAIN d.skills = 1 .. Len(d.skills)
      BY <2>1
    <2>3. IsFiniteSet(1 .. Len(d.skills))
      BY <2>2, FS_Interval
    <2>4. IsFiniteSet({i \in DOMAIN d.skills : d.skills[i] \in p.skills})
      BY <2>2, <2>3, FS_Subset
    <2>5. Cardinality({i \in DOMAIN d.skills : d.skills[i] \in p.skills}) \in Nat
      BY <2>4, FS_CardinalityType
    <2> QED BY <2>2, <2>5 DEF SoftSkills
  <1> DEFINE met == SoftDegree(p, d)[1] + SoftClearance(p, d)[1] + SoftSkills(p, d)[1]
                    + SoftExperience(p, d)[1]
             total == SoftDegree(p, d)[2] + SoftClearance(p, d)[2] + SoftSkills(p, d)[2]
                      + SoftExperience(p, d)[2]
  <1>6. met \in Nat /\ total \in Nat
    BY <1>2, <1>3, <1>4, <1>5
  <1>7. FitScore(p, d) = IF total = 0 THEN 100 ELSE Rounded(100 * met, total)
    BY DEF FitScore
  <1> HIDE DEF met, total
  <1>8. total # 0 => Rounded(100 * met, total) \in Int
    BY <1>6, RoundedIsNumber
  <1> QED BY <1>7, <1>8

-----------------------------------------------------------------------------
(* The sort *)

\* Every set of natural numbers has a least one.
LEMMA LeastNatural ==
  ASSUME NEW T, T \subseteq Nat, T # {}
  PROVE  \E n \in T : \A m \in T : n <= m
  <1> DEFINE R == {ss \in Nat \X Nat : ss[1] < ss[2]}
  <1>0. IsWellFoundedOn(R, Nat)
    BY NatLessThanWellFounded DEF OpToRel
  <1> HIDE DEF R
  <1>1. PICK n \in T : \A m \in T : ~(<<m, n>> \in R)
    BY <1>0, WFMin
  <1>2. ASSUME NEW m \in T PROVE n <= m
    <2>1. ~(m < n)
      BY <1>1 DEF R
    <2> QED BY <2>1
  <1> QED BY <1>2

LEMMA OneAfterTheOther ==
  ASSUME NEW s \in Seq(Recommendation), NEW t \in Seq(Recommendation)
  PROVE  /\ s \o t \in Seq(Recommendation)
         /\ Len(s \o t) = Len(s) + Len(t)
         /\ \A k \in 1 .. Len(s) + Len(t) :
              (s \o t)[k] = IF k <= Len(s) THEN s[k] ELSE t[k - Len(s)]
  OBVIOUS

\* What is put in a place moves the rest one place on.
LEMMA InsertedAt ==
  ASSUME NEW s \in Seq(Recommendation), NEW n \in 0 .. Len(s), NEW e \in Recommendation
  PROVE  /\ InsertAt(s, n + 1, e) \in Seq(Recommendation)
         /\ Len(InsertAt(s, n + 1, e)) = Len(s) + 1
         /\ \A k \in 1 .. n : InsertAt(s, n + 1, e)[k] = s[k]
         /\ InsertAt(s, n + 1, e)[n + 1] = e
         /\ \A k \in n + 2 .. Len(s) + 1 : InsertAt(s, n + 1, e)[k] = s[k - 1]
  <1>0. Len(s) \in Nat /\ n \in Nat /\ n <= Len(s)
    OBVIOUS
  <1> DEFINE front == SubSeq(s, 1, n)
             back == SubSeq(s, n + 1, Len(s))
             both == front \o <<e>>
  <1>1. /\ front \in Seq(Recommendation) /\ Len(front) = n
        /\ \A k \in 1 .. n : front[k] = s[k]
    BY <1>0
  <1>2. /\ back \in Seq(Recommendation) /\ Len(back) = Len(s) - n
        /\ \A k \in 1 .. Len(s) - n : back[k] = s[n + k]
    BY <1>0
  <1>3. InsertAt(s, n + 1, e) = both \o back
    <2>1. (n + 1) - 1 = n
      BY <1>0
    <2> QED BY <2>1 DEF InsertAt
  <1> HIDE DEF front, back
  <1>4. /\ both \in Seq(Recommendation) /\ Len(both) = n + 1
        /\ \A k \in 1 .. n : both[k] = s[k]
        /\ both[n + 1] = e
    BY <1>0, <1>1
  <1> HIDE DEF both
  <1>5. /\ both \o back \in Seq(Recommendation)
        /\ Len(both \o back) = Len(s) + 1
        /\ \A k \in 1 .. n + 1 : (both \o back)[k] = both[k]
        /\ \A k \in n + 2 .. Len(s) + 1 : (both \o back)[k] = back[k - (n + 1)]
    <2>1. /\ both \o back \in Seq(Recommendation)
          /\ Len(both \o back) = Len(both) + Len(back)
          /\ \A k \in 1 .. Len(both) + Len(back) :
               (both \o back)[k] = IF k <= Len(both) THEN both[k]
                                   ELSE back[k - Len(both)]
      <3>1. both \in Seq(Recommendation) /\ back \in Seq(Recommendation)
        BY <1>2, <1>4
      <3> QED BY ONLY <3>1, OneAfterTheOther
    <2>2. Len(both) = n + 1 /\ Len(both) + Len(back) = Len(s) + 1
      BY <1>0, <1>2, <1>4
    <2>3. /\ \A k \in 1 .. n + 1 : k \in 1 .. Len(s) + 1 /\ k <= n + 1
          /\ \A k \in n + 2 .. Len(s) + 1 : k \in 1 .. Len(s) + 1 /\ ~(k <= n + 1)
      BY <1>0
    <2> QED BY <2>1, <2>2, <2>3
  <1>6. \A k \in n + 2 .. Len(s) + 1 : back[k - (n + 1)] = s[k - 1]
    <2> TAKE k \in n + 2 .. Len(s) + 1
    <2>1. k - (n + 1) \in 1 .. Len(s) - n /\ n + (k - (n + 1)) = k - 1
      BY <1>0
    <2> QED BY <1>2, <2>1
  <1>7. \A k \in 1 .. n : (both \o back)[k] = s[k]
    BY <1>0, <1>4, <1>5
  <1>8. (both \o back)[n + 1] = e
    BY <1>0, <1>4, <1>5
  <1>9. \A k \in n + 2 .. Len(s) + 1 : (both \o back)[k] = s[k - 1]
    BY <1>5, <1>6
  <1> QED BY <1>3, <1>5, <1>7, <1>8, <1>9

\* In a list that is sorted an entry has a place behind all that score as much.
LEMMA PlaceByScore ==
  ASSUME NEW ranked \in Seq(Recommendation), BestFirst(ranked),
         NEW entry \in Recommendation
  PROVE  \E n \in 0 .. Len(ranked) :
           \A k \in DOMAIN ranked : k <= n <=> ranked[k].score >= entry.score
  <1>0. Len(ranked) \in Nat /\ DOMAIN ranked = 1 .. Len(ranked)
    OBVIOUS
  <1> DEFINE behind == {k \in Nat : \/ k = Len(ranked) + 1
                                    \/ /\ k \in DOMAIN ranked
                                       /\ ranked[k].score < entry.score}
  <1>1. PICK m \in behind : \A k \in behind : m <= k
    <2>1. Len(ranked) + 1 \in behind /\ behind \subseteq Nat
      BY <1>0
    <2> QED BY <2>1, LeastNatural
  <1>2. entry.score \in Int /\ \A k \in DOMAIN ranked : ranked[k].score \in Int
    <2>1. \A k \in DOMAIN ranked : ranked[k] \in Recommendation
      OBVIOUS
    <2> QED BY <2>1 DEF Recommendation
  <1>3. m - 1 \in 0 .. Len(ranked)
    BY <1>0, <1>1
  <1>4. ASSUME NEW k \in DOMAIN ranked
        PROVE  k <= m - 1 <=> ranked[k].score >= entry.score
    <2>1. CASE k <= m - 1
      <3>1. k \notin behind
        BY <1>0, <1>1, <2>1
      <3> QED BY <1>0, <1>2, <2>1, <3>1
    <2>2. CASE ~(k <= m - 1)
      <3>1. m \in DOMAIN ranked /\ ranked[m].score < entry.score /\ m <= k
        BY <1>0, <1>1, <2>2
      <3>2. ranked[m].score >= ranked[k].score
        BY <1>0, <1>2, <3>1 DEF BestFirst
      <3> QED BY <1>2, <2>2, <3>1, <3>2
    <2> QED BY <2>1, <2>2
  <1> QED BY <1>3, <1>4

\* Putting in an entry that comes later than all of them keeps a list sorted.
LEMMA InsertedByScore ==
  ASSUME NEW ranked \in Seq(Recommendation), BestFirst(ranked),
         NEW entry \in Recommendation,
         \A k \in DOMAIN ranked : ranked[k].posting > entry.posting
  PROVE  /\ InsertByScore(ranked, entry) \in Seq(Recommendation)
         /\ BestFirst(InsertByScore(ranked, entry))
         /\ ToSet(InsertByScore(ranked, entry)) = ToSet(ranked) \cup {entry}
  <1>0. Len(ranked) \in Nat /\ DOMAIN ranked = 1 .. Len(ranked)
    OBVIOUS
  <1> DEFINE n == CHOOSE n \in 0 .. Len(ranked) :
                    \A k \in DOMAIN ranked :
                      k <= n <=> ranked[k].score >= entry.score
             longer == InsertByScore(ranked, entry)
  <1>1. /\ n \in 0 .. Len(ranked)
        /\ \A k \in DOMAIN ranked : k <= n <=> ranked[k].score >= entry.score
    BY PlaceByScore
  <1>2. longer = InsertAt(ranked, n + 1, entry)
    BY DEF InsertByScore
  <1> HIDE DEF n, longer
  <1>3. /\ longer \in Seq(Recommendation)
        /\ Len(longer) = Len(ranked) + 1
        /\ \A k \in 1 .. n : longer[k] = ranked[k]
        /\ longer[n + 1] = entry
        /\ \A k \in n + 2 .. Len(ranked) + 1 : longer[k] = ranked[k - 1]
    BY <1>1, <1>2, InsertedAt
  <1>4. DOMAIN longer = 1 .. Len(ranked) + 1
    BY <1>3
  <1>5. /\ entry.score \in Int /\ entry.posting \in Nat
        /\ \A k \in DOMAIN ranked : ranked[k].score \in Int /\ ranked[k].posting \in Nat
    <2>1. \A k \in DOMAIN ranked : ranked[k] \in Recommendation
      OBVIOUS
    <2> QED BY <2>1 DEF Recommendation
  <1>6. BestFirst(longer)
    <2> SUFFICES ASSUME NEW k \in DOMAIN longer, NEW l \in DOMAIN longer, k < l
                 PROVE  \/ longer[k].score > longer[l].score
                        \/ /\ longer[k].score = longer[l].score
                           /\ longer[k].posting > longer[l].posting
      BY DEF BestFirst
    <2>0. k \in Nat /\ l \in Nat /\ n \in Nat /\ k <= Len(ranked) + 1 /\ l <= Len(ranked) + 1
          /\ 1 <= k
      BY <1>0, <1>1, <1>4
    <2>1. CASE l <= n
      <3>1. k \in DOMAIN ranked /\ l \in DOMAIN ranked
            /\ longer[k] = ranked[k] /\ longer[l] = ranked[l]
        BY <1>0, <1>1, <1>3, <2>0, <2>1
      <3> QED BY <3>1 DEF BestFirst
    <2>2. CASE l = n + 1
      <3>1. k \in DOMAIN ranked /\ k <= n /\ longer[k] = ranked[k] /\ longer[l] = entry
        BY <1>0, <1>1, <1>3, <2>0, <2>2
      <3>2. ranked[k].score >= entry.score /\ ranked[k].posting > entry.posting
        BY <1>1, <3>1
      <3> QED BY <1>5, <3>1, <3>2
    <2>3. CASE l > n + 1 /\ k <= n
      <3>1. k \in DOMAIN ranked /\ l - 1 \in DOMAIN ranked /\ k < l - 1
            /\ longer[k] = ranked[k] /\ longer[l] = ranked[l - 1]
        BY <1>0, <1>1, <1>3, <2>0, <2>3
      <3> QED BY <3>1 DEF BestFirst
    <2>4. CASE l > n + 1 /\ k = n + 1
      <3>1. l - 1 \in DOMAIN ranked /\ ~(l - 1 <= n)
            /\ longer[k] = entry /\ longer[l] = ranked[l - 1]
        BY <1>0, <1>1, <1>3, <2>0, <2>4
      <3>2. ~(ranked[l - 1].score >= entry.score)
        BY <1>1, <3>1
      <3> QED BY <1>5, <3>1, <3>2
    <2>5. CASE k > n + 1
      <3>1. k - 1 \in DOMAIN ranked /\ l - 1 \in DOMAIN ranked /\ k - 1 < l - 1
            /\ longer[k] = ranked[k - 1] /\ longer[l] = ranked[l - 1]
        BY <1>0, <1>1, <1>3, <2>0, <2>5
      <3> QED BY <3>1 DEF BestFirst
    <2> QED BY <2>0, <2>1, <2>2, <2>3, <2>4, <2>5
  <1>7. ToSet(longer) = ToSet(ranked) \cup {entry}
    <2>1. ASSUME NEW e \in ToSet(longer)
          PROVE  e \in ToSet(ranked) \cup {entry}
      <3>1. PICK k \in DOMAIN longer : e = longer[k]
        BY DEF ToSet
      <3>2. CASE k <= n
        BY <1>0, <1>1, <1>3, <1>4, <3>1, <3>2 DEF ToSet
      <3>3. CASE k = n + 1
        BY <1>3, <3>1, <3>3
      <3>4. CASE k > n + 1
        <4>1. k - 1 \in DOMAIN ranked /\ e = ranked[k - 1]
          BY <1>0, <1>1, <1>3, <1>4, <3>1, <3>4
        <4> QED BY <4>1 DEF ToSet
      <3> QED BY <1>0, <1>1, <1>4, <3>2, <3>3, <3>4
    <2>2. ASSUME NEW e \in ToSet(ranked)
          PROVE  e \in ToSet(longer)
      <3>1. PICK k \in DOMAIN ranked : e = ranked[k]
        BY DEF ToSet
      <3>2. CASE k <= n
        <4>1. k \in DOMAIN longer /\ longer[k] = e
          BY <1>0, <1>1, <1>3, <1>4, <3>1, <3>2
        <4> QED BY <4>1 DEF ToSet
      <3>3. CASE k > n
        <4>1. k + 1 \in n + 2 .. Len(ranked) + 1 /\ (k + 1) - 1 = k
              /\ k + 1 \in DOMAIN longer
          BY <1>0, <1>1, <1>4, <3>3
        <4>2. longer[k + 1] = e
          BY <1>3, <3>1, <4>1
        <4> QED BY <4>1, <4>2 DEF ToSet
      <3> QED BY <1>0, <1>1, <3>2, <3>3
    <2>3. entry \in ToSet(longer)
      <3>1. n + 1 \in DOMAIN longer
        BY <1>0, <1>1, <1>4
      <3> QED BY <1>3, <3>1 DEF ToSet
    <2> QED BY <2>1, <2>2, <2>3
  <1> QED BY <1>3, <1>6, <1>7 DEF longer

\* What Sorted computes on the way.
SortsUp(entries, n, sorted) ==
  sorted = [k \in 0 .. n |->
              IF k = 0 THEN <<>> ELSE InsertByScore(sorted[k - 1], entries[k])]

LEMMA SortStep ==
  ASSUME NEW entries, NEW n \in Nat, NEW sorted, SortsUp(entries, n, sorted)
  PROVE  /\ sorted[0] = <<>>
         /\ \A k \in 1 .. n : sorted[k] = InsertByScore(sorted[k - 1], entries[k])
  <1> DEFINE step == [k \in 0 .. n |->
                        IF k = 0 THEN <<>> ELSE InsertByScore(sorted[k - 1], entries[k])]
  <1>1. /\ step[0] = <<>>
        /\ \A k \in 1 .. n : step[k] = InsertByScore(sorted[k - 1], entries[k])
    OBVIOUS
  <1>2. sorted = step
    BY DEF SortsUp
  <1> HIDE DEF step
  <1> QED BY <1>1, <1>2

LEMMA SortExists ==
  ASSUME NEW entries, NEW n \in Nat
  PROVE  \E sorted : SortsUp(entries, n, sorted)
  <1> DEFINE Absent == {m \in Nat : ~\E sorted : SortsUp(entries, m, sorted)}
  <1>1. 0 \notin Absent
    <2>1. SortsUp(entries, 0, [k \in 0 .. 0 |-> <<>>])
      BY DEF SortsUp
    <2> QED BY <2>1
  <1>2. ASSUME NEW m \in Absent
        PROVE  m - 1 \in Absent
    <2>1. m \in Nat /\ m - 1 \in Nat /\ m # 0
      BY <1>1, <1>2
    <2>2. SUFFICES ASSUME NEW sorted, SortsUp(entries, m - 1, sorted)
                   PROVE  FALSE
      BY <2>1
    <2>3. /\ sorted[0] = <<>>
          /\ \A k \in 1 .. m - 1 : sorted[k] = InsertByScore(sorted[k - 1], entries[k])
      BY <2>1, <2>2, SortStep
    <2> DEFINE more == [k \in 0 .. m |->
                          IF k < m THEN sorted[k]
                          ELSE InsertByScore(sorted[m - 1], entries[m])]
    <2>4. ASSUME NEW k \in 0 .. m
          PROVE  more[k] = IF k = 0 THEN <<>> ELSE InsertByScore(more[k - 1], entries[k])
      <3>1. CASE k = 0
        BY <2>1, <2>3, <3>1
      <3>2. CASE k # 0 /\ k < m
        <4>1. k \in 1 .. m - 1 /\ k - 1 \in 0 .. m /\ k - 1 < m
          BY <2>1, <3>2
        <4>2. more[k] = sorted[k] /\ more[k - 1] = sorted[k - 1]
          BY <3>2, <4>1
        <4> QED BY <2>3, <3>2, <4>1, <4>2
      <3>3. CASE k = m
        BY <2>1, <2>3, <3>3
      <3> QED BY <2>1, <3>1, <3>2, <3>3
    <2> HIDE DEF more
    <2>5. more = [k \in 0 .. m |-> more[k]]
      BY DEF more
    <2>6. SortsUp(entries, m, more)
      BY <2>4, <2>5 DEF SortsUp
    <2> QED BY <1>2, <2>6
  <1>3. Absent = {}
    <2>1. SUFFICES ASSUME Absent # {} PROVE FALSE
      OBVIOUS
    <2>2. PICK m \in Absent : \A k \in Absent : m <= k
      BY <2>1, LeastNatural
    <2>3. m - 1 \in Absent
      BY <1>2
    <2> QED BY <2>2, <2>3
  <1> QED BY <1>3

\* Entries that come newest first are sorted into the same entries, best first
\* and newest first among equals.
LEMMA SortedByScore ==
  ASSUME NEW entries \in Seq(Recommendation),
         \A k, l \in DOMAIN entries : k < l => entries[k].posting > entries[l].posting
  PROVE  /\ Sorted(entries) \in Seq(Recommendation)
         /\ BestFirst(Sorted(entries))
         /\ ToSet(Sorted(entries)) = ToSet(entries)
  <1>0. Len(entries) \in Nat /\ DOMAIN entries = 1 .. Len(entries)
    OBVIOUS
  <1> DEFINE sorted == CHOOSE sorted : SortsUp(entries, Len(entries), sorted)
  <1>1. SortsUp(entries, Len(entries), sorted)
    BY <1>0, SortExists
  <1>2. Sorted(entries) = sorted[Len(entries)]
    BY DEF Sorted, SortsUp
  <1> HIDE DEF sorted
  <1>3. /\ sorted[0] = <<>>
        /\ \A k \in 1 .. Len(entries) :
             sorted[k] = InsertByScore(sorted[k - 1], entries[k])
    BY <1>0, <1>1, SortStep
  <1> DEFINE FirstOf(n) == {entries[i] : i \in 1 .. n}
             Right(n) == /\ sorted[n] \in Seq(Recommendation)
                         /\ BestFirst(sorted[n])
                         /\ ToSet(sorted[n]) = FirstOf(n)
             Wrong == {n \in Nat : n <= Len(entries) /\ ~Right(n)}
  <1>4. Right(0)
    BY <1>3 DEF BestFirst, ToSet
  <1>5. ASSUME NEW n \in 1 .. Len(entries), Right(n - 1)
        PROVE  Right(n)
    <2>1. entries[n] \in Recommendation /\ n \in Nat
      BY <1>0
    <2>2. ASSUME NEW k \in DOMAIN sorted[n - 1]
          PROVE  sorted[n - 1][k].posting > entries[n].posting
      <3>1. sorted[n - 1][k] \in FirstOf(n - 1)
        BY <1>5 DEF ToSet
      <3>2. PICK i \in 1 .. n - 1 : sorted[n - 1][k] = entries[i]
        BY <3>1
      <3>3. i \in DOMAIN entries /\ n \in DOMAIN entries /\ i < n
        BY <1>0, <2>1
      <3> QED BY <3>2, <3>3
    <2>3. /\ sorted[n] \in Seq(Recommendation)
          /\ BestFirst(sorted[n])
          /\ ToSet(sorted[n]) = ToSet(sorted[n - 1]) \cup {entries[n]}
      BY <1>3, <1>5, <2>1, <2>2, InsertedByScore
    <2>4. FirstOf(n) = FirstOf(n - 1) \cup {entries[n]}
      <3>1. 1 .. n = (1 .. n - 1) \cup {n}
        BY <2>1
      <3> QED BY <3>1
    <2> QED BY <1>5, <2>3, <2>4
  <1> HIDE DEF Right
  <1>6. Wrong = {}
    <2>1. SUFFICES ASSUME Wrong # {} PROVE FALSE
      OBVIOUS
    <2>2. PICK n \in Wrong : \A k \in Wrong : n <= k
      BY <2>1, LeastNatural
    <2>3. n \in 1 .. Len(entries) /\ n - 1 \in Nat /\ n - 1 <= Len(entries)
      BY <1>0, <1>4
    <2>4. Right(n - 1)
      BY <2>2, <2>3
    <2> QED BY <1>5, <2>3, <2>4
  <1>7. Right(Len(entries))
    BY <1>0, <1>6
  <1> QED BY <1>0, <1>2, <1>7 DEF Right, ToSet

-----------------------------------------------------------------------------
(* The postings a request looks at *)

\* What ActiveNewestFirst computes on the way.
CollectsUp(roles, n, active) ==
  active = [k \in 0 .. n |->
              IF k = 0 THEN <<>>
              ELSE IF roles[k].active THEN <<k>> \o active[k - 1] ELSE active[k - 1]]

LEMMA CollectStep ==
  ASSUME NEW roles, NEW n \in Nat, NEW active, CollectsUp(roles, n, active)
  PROVE  /\ active[0] = <<>>
         /\ \A k \in 1 .. n :
              active[k] = IF roles[k].active THEN <<k>> \o active[k - 1]
                          ELSE active[k - 1]
  <1> DEFINE step == [k \in 0 .. n |->
                        IF k = 0 THEN <<>>
                        ELSE IF roles[k].active THEN <<k>> \o active[k - 1]
                             ELSE active[k - 1]]
  <1>1. /\ step[0] = <<>>
        /\ \A k \in 1 .. n :
             step[k] = IF roles[k].active THEN <<k>> \o active[k - 1]
                       ELSE active[k - 1]
    OBVIOUS
  <1>2. active = step
    BY DEF CollectsUp
  <1> HIDE DEF step
  <1> QED BY <1>1, <1>2

LEMMA CollectExists ==
  ASSUME NEW roles, NEW n \in Nat
  PROVE  \E active : CollectsUp(roles, n, active)
  <1> DEFINE Absent == {m \in Nat : ~\E active : CollectsUp(roles, m, active)}
  <1>1. 0 \notin Absent
    <2>1. CollectsUp(roles, 0, [k \in 0 .. 0 |-> <<>>])
      BY DEF CollectsUp
    <2> QED BY <2>1
  <1>2. ASSUME NEW m \in Absent
        PROVE  m - 1 \in Absent
    <2>1. m \in Nat /\ m - 1 \in Nat /\ m # 0
      BY <1>1, <1>2
    <2>2. SUFFICES ASSUME NEW active, CollectsUp(roles, m - 1, active)
                   PROVE  FALSE
      BY <2>1
    <2>3. /\ active[0] = <<>>
          /\ \A k \in 1 .. m - 1 :
               active[k] = IF roles[k].active THEN <<k>> \o active[k - 1]
                           ELSE active[k - 1]
      BY <2>1, <2>2, CollectStep
    <2> DEFINE more == [k \in 0 .. m |->
                          IF k < m THEN active[k]
                          ELSE IF roles[m].active THEN <<m>> \o active[m - 1]
                               ELSE active[m - 1]]
    <2>4. ASSUME NEW k \in 0 .. m
          PROVE  more[k] = IF k = 0 THEN <<>>
                           ELSE IF roles[k].active THEN <<k>> \o more[k - 1]
                                ELSE more[k - 1]
      <3>1. CASE k = 0
        BY <2>1, <2>3, <3>1
      <3>2. CASE k # 0 /\ k < m
        <4>1. k \in 1 .. m - 1 /\ k - 1 \in 0 .. m /\ k - 1 < m
          BY <2>1, <3>2
        <4>2. more[k] = active[k] /\ more[k - 1] = active[k - 1]
          BY <3>2, <4>1
        <4> QED BY <2>3, <3>2, <4>1, <4>2
      <3>3. CASE k = m
        BY <2>1, <2>3, <3>3
      <3> QED BY <2>1, <3>1, <3>2, <3>3
    <2> HIDE DEF more
    <2>5. more = [k \in 0 .. m |-> more[k]]
      BY DEF more
    <2>6. CollectsUp(roles, m, more)
      BY <2>4, <2>5 DEF CollectsUp
    <2> QED BY <1>2, <2>6
  <1>3. Absent = {}
    <2>1. SUFFICES ASSUME Absent # {} PROVE FALSE
      OBVIOUS
    <2>2. PICK m \in Absent : \A k \in Absent : m <= k
      BY <2>1, LeastNatural
    <2>3. m - 1 \in Absent
      BY <1>2
    <2> QED BY <2>2, <2>3
  <1> QED BY <1>3

\* Among the active postings the newest come first.
LEMMA ActiveOnesNewestFirst ==
  ASSUME NEW S, listed \in Seq(S), Limit \in Nat
  PROVE  /\ ActiveNewestFirst \in Seq(DOMAIN listed)
         /\ NewestFirst(ActiveNewestFirst)
  <1>0. Len(listed) \in Nat /\ DOMAIN listed = 1 .. Len(listed)
    OBVIOUS
  <1> DEFINE active == CHOOSE active : CollectsUp(listed, Len(listed), active)
             newest == active[Len(listed)]
             shown == IF Len(newest) < Limit THEN Len(newest) ELSE Limit
  <1>1. CollectsUp(listed, Len(listed), active)
    BY <1>0, CollectExists
  <1>2. ActiveNewestFirst = SubSeq(newest, 1, shown)
    BY DEF ActiveNewestFirst, CollectsUp
  <1> HIDE DEF active
  <1>3. /\ active[0] = <<>>
        /\ \A k \in 1 .. Len(listed) :
             active[k] = IF listed[k].active THEN <<k>> \o active[k - 1]
                         ELSE active[k - 1]
    BY <1>0, <1>1, CollectStep
  <1> DEFINE Right(n) == active[n] \in Seq(1 .. n) /\ NewestFirst(active[n])
             Wrong == {n \in Nat : n <= Len(listed) /\ ~Right(n)}
  <1>4. Right(0)
    BY <1>3 DEF NewestFirst
  <1>5. ASSUME NEW n \in 1 .. Len(listed), Right(n - 1)
        PROVE  Right(n)
    <2> DEFINE older == active[n - 1]
    <2>0. n \in Nat /\ older \in Seq(1 .. n - 1) /\ NewestFirst(older)
      BY <1>0, <1>5
    <2>1. active[n] = <<n>> \o older \/ active[n] = older
      BY <1>3
    <2> HIDE DEF older
    <2>2. /\ Len(older) \in Nat /\ DOMAIN older = 1 .. Len(older)
          /\ \A k \in 1 .. Len(older) : older[k] \in 1 .. n - 1
      BY <2>0
    <2>3. CASE active[n] = older
      <3>1. older \in Seq(1 .. n)
        BY <2>0, <2>2
      <3> QED BY <2>0, <2>3, <3>1
    <2>4. CASE active[n] = <<n>> \o older
      <3> DEFINE longer == <<n>> \o older
      <3>1. older \in Seq(1 .. n) /\ <<n>> \in Seq(1 .. n)
        BY <2>0, <2>2
      <3>2. /\ longer \in Seq(1 .. n) /\ Len(longer) = Len(older) + 1
            /\ longer[1] = n
            /\ \A k \in 2 .. Len(older) + 1 : longer[k] = older[k - 1]
        BY <2>2, <3>1
      <3>3. DOMAIN longer = 1 .. Len(older) + 1
        BY <3>2
      <3> HIDE DEF longer
      <3>4. ASSUME NEW k \in DOMAIN longer, NEW l \in DOMAIN longer, k < l
            PROVE  longer[k] > longer[l]
        <4>1. l - 1 \in DOMAIN older /\ longer[l] = older[l - 1]
          BY <2>2, <3>2, <3>3, <3>4
        <4>2. CASE k = 1
          <5>1. older[l - 1] \in 1 .. n - 1
            BY <2>2, <4>1
          <5>2. n > older[l - 1]
            BY <2>0, <5>1
          <5>3. longer[k] = n
            BY <3>2, <4>2
          <5> QED BY <4>1, <5>2, <5>3
        <4>3. CASE k # 1
          <5>0. k \in 2 .. Len(older) + 1 /\ l \in 2 .. Len(older) + 1
            BY <2>2, <3>3, <3>4, <4>3
          <5>1. k - 1 \in 1 .. Len(older) /\ k - 1 < l - 1
            BY <2>2, <3>4, <5>0
          <5>2. longer[k] = older[k - 1]
            BY <3>2, <5>0
          <5> QED BY <2>0, <2>2, <4>1, <5>1, <5>2 DEF NewestFirst
        <4> QED BY <4>2, <4>3
      <3>5. NewestFirst(longer)
        BY <3>4 DEF NewestFirst
      <3> QED BY <2>4, <3>2, <3>5 DEF longer
    <2> QED BY <2>1, <2>3, <2>4
  <1> HIDE DEF Right
  <1>6. Wrong = {}
    <2>1. SUFFICES ASSUME Wrong # {} PROVE FALSE
      OBVIOUS
    <2>2. PICK n \in Wrong : \A k \in Wrong : n <= k
      BY <2>1, LeastNatural
    <2>3. n \in 1 .. Len(listed) /\ n - 1 \in Nat /\ n - 1 <= Len(listed)
      BY <1>0, <1>4
    <2>4. Right(n - 1)
      BY <2>2, <2>3
    <2> QED BY <1>5, <2>3, <2>4
  <1>7. newest \in Seq(DOMAIN listed) /\ NewestFirst(newest)
    BY <1>0, <1>6 DEF Right
  <1> HIDE DEF newest
  <1>8. shown \in Nat /\ shown <= Len(newest)
    BY <1>7
  <1> HIDE DEF shown
  <1>9. /\ SubSeq(newest, 1, shown) \in Seq(DOMAIN listed)
        /\ DOMAIN SubSeq(newest, 1, shown) = 1 .. shown
        /\ \A k \in 1 .. shown : SubSeq(newest, 1, shown)[k] = newest[k]
        /\ DOMAIN newest = 1 .. Len(newest) /\ Len(newest) \in Nat
    BY <1>7, <1>8
  <1>10. \A k \in 1 .. shown : k \in DOMAIN newest
    BY <1>8, <1>9
  <1> QED BY <1>2, <1>7, <1>9, <1>10 DEF NewestFirst

-----------------------------------------------------------------------------
(* The request, and what happens besides it *)

LEMMA MatchingStarts == MatchingInit => MatchingInv
  <1> SUFFICES ASSUME MatchingInit PROVE MatchingInv
    OBVIOUS
  <1>1. /\ candidate \in CandidateProfile
        /\ applied \subseteq Application
    BY CandidatesAreProfiles DEF MatchingInit, Application
  <1>2. listed \in Seq(ListedPosting)
    <2> DEFINE Fresh == {Posting(demands, identity) :
                           demands \in Demands, identity \in Identities}
    <2>1. \A demands \in Demands, identity \in Identities :
            Posting(demands, identity) \in ListedPosting
      BY DemandsAreRequirements DEF Posting, ListedPosting
    <2>2. Fresh \subseteq ListedPosting
      BY <2>1
    <2>3. listed \in Seq(Fresh)
      BY DEF MatchingInit
    <2> HIDE DEF Fresh
    <2> QED BY <2>2, <2>3
  <1>3. /\ matching.stage = "idle" /\ matching.again = FALSE /\ matching.known = {}
        /\ matching.next = 1 /\ matching.catalogue = <<>> /\ matching.ranked = <<>>
        /\ matching = NoMatching /\ appliedBefore = {}
    BY DEF MatchingInit, NobodyAsked, NoMatching
  <1>4. MatchingTypes
    BY <1>1, <1>2, <1>3 DEF MatchingTypes, Stages, NoMatching
  <1>5. /\ \A k \in DOMAIN matching.ranked : FALSE
        /\ \A k \in DOMAIN matching.catalogue : FALSE
        /\ Len(matching.catalogue) = 0
    BY <1>3
  <1>6. PostingsOf(matching.ranked) = {} /\ RecommendedUpTo(matching.next) = {}
    BY <1>5 DEF PostingsOf, RecommendedUpTo
  <1>7. NewestFirst(matching.catalogue)
    BY <1>5 DEF NewestFirst
  <1>8. matching.stage \notin {"ranking", "answered"}
    BY <1>3
  <1>9. matching.next = 1 /\ matching.ranked = <<>>
        /\ matching.next <= Len(matching.catalogue) + 1
    BY <1>3, <1>5
  <1>10. RankedInv
    BY ONLY <1>5, <1>6, <1>7, <1>8, <1>9 DEF RankedInv, ToldWhenApplied
  <1> QED BY <1>4, <1>10 DEF MatchingInv

\* Whatever is recommended was read, judged and found fit.
LEMMA RecommendedWasRead ==
  ASSUME RankedInv, NEW k \in DOMAIN matching.ranked
  PROVE  \E m \in DOMAIN matching.catalogue :
           /\ m < matching.next /\ Recommends(matching.catalogue[m])
           /\ matching.ranked[k].posting = matching.catalogue[m]
  <1>1. matching.ranked[k].posting \in PostingsOf(matching.ranked)
    BY DEF PostingsOf
  <1>2. matching.ranked[k].posting \in RecommendedUpTo(matching.next)
    BY <1>1 DEF RankedInv
  <1> QED BY <1>2 DEF RecommendedUpTo

\* Whatever the candidate and the employers do, a request in flight and what it
\* answered keep their sense: a posting keeps its demands and its identity.
LEMMA BesidesMatching ==
  ASSUME MatchingInv, matching' = matching, appliedBefore' = appliedBefore,
         candidate' \in CandidateProfile,
         applied \subseteq applied', applied' \subseteq Application,
         listed' \in Seq(ListedPosting), Len(listed) <= Len(listed'),
         \A i \in DOMAIN listed : /\ listed'[i].demands = listed[i].demands
                                  /\ listed'[i].identity = listed[i].identity
  PROVE  MatchingInv'
  <1>1. DOMAIN listed \subseteq DOMAIN listed'
    BY DEF MatchingInv, MatchingTypes
  <1>2. matching.catalogue \in Seq(DOMAIN listed')
    <2>1. matching.catalogue \in Seq(DOMAIN listed)
      BY DEF MatchingInv, MatchingTypes
    <2> QED BY <1>1, <2>1
  <1>3. MatchingTypes'
    BY <1>2 DEF MatchingInv, MatchingTypes
  <1>4. \A m \in DOMAIN matching.catalogue : matching.catalogue[m] \in DOMAIN listed
    BY DEF MatchingInv, MatchingTypes
  <1>5. \A i \in DOMAIN listed : /\ HasAppliedTo(i)' = HasAppliedTo(i)
                                 /\ Recommends(i)' = Recommends(i)
    BY DEF HasAppliedTo, Recommends
  <1>6. RecommendedUpTo(matching.next)' = RecommendedUpTo(matching.next)
    <2>1. \A m \in DOMAIN matching.catalogue :
            Recommends(matching.catalogue[m])' = Recommends(matching.catalogue[m])
      BY <1>4, <1>5
    <2> QED BY <2>1 DEF RecommendedUpTo
  <1>7. \A k \in DOMAIN matching.ranked : matching.ranked[k].posting \in DOMAIN listed
    BY <1>4, RecommendedWasRead DEF MatchingInv
  <1>8. \A k \in DOMAIN matching.ranked :
          AppliedAmong(matching.known, listed', matching.ranked[k].posting)
            = AppliedAmong(matching.known, listed, matching.ranked[k].posting)
    BY <1>7 DEF AppliedAmong
  <1>9. ToldWhenApplied'
    BY <1>8 DEF MatchingInv, RankedInv, ToldWhenApplied
  <1>10. RankedInv'
    BY <1>6, <1>9 DEF MatchingInv, RankedInv
  <1> QED BY <1>3, <1>10 DEF MatchingInv

LEMMA NoneInEmpty == \A k \in DOMAIN <<>> : FALSE
  OBVIOUS

LEMMA PostingsAreNumbers ==
  ASSUME NEW s \in Seq(DOMAIN listed), listed \in Seq(ListedPosting)
  PROVE  s \in Seq(Nat)
  <1>1. DOMAIN listed \subseteq Nat
    OBVIOUS
  <1> QED BY <1>1

LEMMA PlacesAreNumbers ==
  ASSUME NEW s \in Seq(Nat)
  PROVE  DOMAIN s \subseteq Nat \ {0} /\ Len(s) \in Nat /\ 1 <= Len(s) + 1
  OBVIOUS

\* While it reads, a request has recommended nothing.
LEMMA ReadingKeeps ==
  ASSUME matching'.stage \in {"profile read", "catalogue read", "ranking"},
         matching'.next = 1, matching'.ranked = <<>>,
         matching'.catalogue \in Seq(Nat), NewestFirst(matching'.catalogue),
         matching'.stage = "ranking" => appliedBefore' \subseteq matching'.known
  PROVE  RankedInv'
  <1>1. \A k \in DOMAIN matching'.ranked : FALSE
    BY NoneInEmpty
  <1>2. /\ DOMAIN matching'.catalogue \subseteq Nat \ {0}
        /\ Len(matching'.catalogue) \in Nat
        /\ matching'.next <= Len(matching'.catalogue) + 1
    BY PlacesAreNumbers
  <1>3. PostingsOf(matching'.ranked) = {}
    BY <1>1 DEF PostingsOf
  <1>4. \A m \in DOMAIN matching'.catalogue : ~(m < matching'.next)
    <2> DEFINE places == DOMAIN matching'.catalogue
    <2>1. places \subseteq Nat \ {0} /\ matching'.next = 1
      BY <1>2
    <2> HIDE DEF places
    <2>2. \A m \in places : ~(m < 1)
      BY ONLY <2>1
    <2> QED BY ONLY <2>1, <2>2 DEF places
  <1>5. RecommendedUpTo(matching.next)' = {}
    BY ONLY <1>4 DEF RecommendedUpTo
  <1>6. ToldWhenApplied'
    BY <1>1 DEF ToldWhenApplied
  <1> QED BY <1>1, <1>2, <1>3, <1>5, <1>6 DEF RankedInv

LEMMA BeginKeeps ==
  ASSUME MatchingInv, NEW again \in BOOLEAN, BeginMatching(again)
  PROVE  MatchingInv'
  <1>1. /\ matching.stage = "idle"
        /\ matching' = [matching EXCEPT !.stage = "profile read", !.again = again,
                                        !.profile = candidate]
        /\ appliedBefore' = applied
        /\ UNCHANGED <<candidate, listed, applied>>
    BY DEF BeginMatching
  <1>2. MatchingTypes'
    BY <1>1 DEF MatchingInv, MatchingTypes, Stages
  <1>3. /\ matching'.stage = "profile read" /\ matching'.next = matching.next
        /\ matching'.ranked = matching.ranked /\ matching'.catalogue = matching.catalogue
    BY <1>1 DEF MatchingInv, MatchingTypes
  <1>4. /\ matching.next = 1 /\ matching.ranked = <<>>
        /\ NewestFirst(matching.catalogue)
    BY <1>1 DEF MatchingInv, RankedInv
  <1>5. matching.catalogue \in Seq(Nat)
    BY PostingsAreNumbers DEF MatchingInv, MatchingTypes
  <1>6. RankedInv'
    BY <1>3, <1>4, <1>5, ReadingKeeps
  <1> QED BY <1>2, <1>6 DEF MatchingInv

LEMMA ReadActiveKeeps ==
  ASSUME MatchingInv, ReadActive
  PROVE  MatchingInv'
  <1>1. /\ matching.stage = "profile read"
        /\ matching' = [matching EXCEPT !.stage = "catalogue read",
                                        !.catalogue = ActiveNewestFirst]
        /\ UNCHANGED <<candidate, listed, applied, appliedBefore>>
    BY DEF ReadActive
  <1>2. /\ listed \in Seq(ListedPosting) /\ DOMAIN listed \subseteq Nat
    BY DEF MatchingInv, MatchingTypes
  <1>3. /\ ActiveNewestFirst \in Seq(DOMAIN listed)
        /\ NewestFirst(ActiveNewestFirst)
    BY <1>2, LimitIsNumber, ActiveOnesNewestFirst
  <1>4. MatchingTypes'
    BY <1>1, <1>3 DEF MatchingInv, MatchingTypes, Stages
  <1>5. /\ matching'.stage = "catalogue read" /\ matching'.next = matching.next
        /\ matching'.ranked = matching.ranked
        /\ matching'.catalogue = ActiveNewestFirst
    BY <1>1 DEF MatchingInv, MatchingTypes
  <1>6. matching.next = 1 /\ matching.ranked = <<>>
    BY <1>1 DEF MatchingInv, RankedInv
  <1>7. ActiveNewestFirst \in Seq(Nat)
    BY <1>2, <1>3, PostingsAreNumbers
  <1>8. RankedInv'
    BY <1>3, <1>5, <1>6, <1>7, ReadingKeeps
  <1> QED BY <1>4, <1>8 DEF MatchingInv

LEMMA ReadAppliedKeeps ==
  ASSUME MatchingInv, ReadApplied
  PROVE  MatchingInv'
  <1>1. /\ matching.stage = "catalogue read"
        /\ matching' = [matching EXCEPT !.stage = "ranking", !.known = applied]
        /\ UNCHANGED <<candidate, listed, applied, appliedBefore>>
    BY DEF ReadApplied
  <1>2. MatchingTypes'
    BY <1>1 DEF MatchingInv, MatchingTypes, Stages
  <1>3. /\ matching'.stage = "ranking" /\ matching'.next = matching.next
        /\ matching'.ranked = matching.ranked /\ matching'.catalogue = matching.catalogue
        /\ matching'.known = applied /\ appliedBefore \subseteq applied
    BY <1>1 DEF MatchingInv, MatchingTypes
  <1>4. /\ matching.next = 1 /\ matching.ranked = <<>>
        /\ NewestFirst(matching.catalogue)
    BY <1>1 DEF MatchingInv, RankedInv
  <1>5. matching.catalogue \in Seq(Nat)
    BY PostingsAreNumbers DEF MatchingInv, MatchingTypes
  <1>6. RankedInv'
    BY <1>1, <1>3, <1>4, <1>5, ReadingKeeps
  <1> QED BY <1>2, <1>6 DEF MatchingInv

\* Judging the next posting adds it behind the newer ones when it fits.
LEMMA JudgeKeeps ==
  ASSUME MatchingInv, NEW rationale \in {"written", "fallback"}, Judge(rationale)
  PROVE  MatchingInv'
  <1> DEFINE n == matching.next
             c == matching.catalogue
             r == matching.ranked
             i == c[n]
             entry == [posting |-> i, applied |-> HasAppliedTo(i),
                       score |-> FitScore(matching.profile, listed[i].demands),
                       rationale |-> rationale]
             more == IF Recommends(i) THEN Append(r, entry) ELSE r
  <1>1. /\ matching.stage = "ranking" /\ n <= Len(c)
        /\ matching' = [matching EXCEPT !.next = n + 1, !.ranked = more]
        /\ UNCHANGED <<candidate, listed, applied, appliedBefore>>
    BY DEF Judge
  <1>2. /\ n \in Nat \ {0} /\ c \in Seq(DOMAIN listed) /\ r \in Seq(Recommendation)
        /\ listed \in Seq(ListedPosting)
    BY DEF MatchingInv, MatchingTypes
  <1>3. /\ n \in DOMAIN c /\ DOMAIN c = 1 .. Len(c) /\ Len(c) \in Nat
        /\ i \in DOMAIN listed /\ DOMAIN listed \subseteq Nat
        /\ \A m \in DOMAIN c : c[m] \in DOMAIN listed
    BY <1>1, <1>2
  <1>4. entry \in Recommendation
    <2>0. listed[i] \in ListedPosting
      BY <1>2, <1>3
    <2>1. listed[i].demands \in JobRequirements
      BY <2>0 DEF ListedPosting
    <2>2. FitScore(matching.profile, listed[i].demands) \in Int
      BY <2>1, ScoreIsNumber
    <2>3. HasAppliedTo(i) \in BOOLEAN
      BY DEF HasAppliedTo
    <2>4. i \in Nat
      BY <1>3
    <2> HIDE DEF i
    <2> QED BY <2>2, <2>3, <2>4 DEF Recommendation
  <1>5. entry.posting = i /\ entry.applied = AppliedAmong(matching.known, listed, i)
    <2>1. HasAppliedTo(i) = AppliedAmong(matching.known, listed, i)
      BY Zenon DEF HasAppliedTo, AppliedAmong
    <2> QED BY <2>1
  <1> HIDE DEF entry
  <1>6. more \in Seq(Recommendation)
    BY <1>2, <1>4
  <1>7. MatchingTypes'
    <2>1. n + 1 \in Nat \ {0}
      BY <1>2
    <2> HIDE DEF more, i
    <2> QED BY <1>1, <1>6, <2>1 DEF MatchingInv, MatchingTypes
  <1>8. /\ matching'.stage = "ranking" /\ matching'.next = n + 1
        /\ matching'.ranked = more /\ matching'.catalogue = c
        /\ matching'.known = matching.known /\ matching'.again = matching.again
        /\ matching'.profile = matching.profile
    <2> HIDE DEF more, i
    <2> QED BY <1>1 DEF MatchingInv, MatchingTypes
  <1>9. /\ NewestFirst(c) /\ PostingsOf(r) = RecommendedUpTo(n)
        /\ \A k \in DOMAIN r :
             r[k].applied = AppliedAmong(matching.known, listed, r[k].posting)
        /\ \A k, l \in DOMAIN r : k < l => r[k].posting > r[l].posting
        /\ appliedBefore \subseteq matching.known
    BY <1>1 DEF MatchingInv, RankedInv, ToldWhenApplied
  <1>10. \A j : HasAppliedTo(j)' = HasAppliedTo(j)
    BY <1>1, <1>8 DEF HasAppliedTo
  <1>11. \A j : Recommends(j)' = Recommends(j)
    BY <1>1, <1>8, <1>10 DEF Recommends
  <1>12. RecommendedUpTo(matching.next)'
           = RecommendedUpTo(n) \cup IF Recommends(i) THEN {i} ELSE {}
    <2>1. RecommendedUpTo(matching.next)'
            = {c[k] : k \in {m \in DOMAIN c : m < n + 1 /\ Recommends(c[m])}}
      BY <1>8, <1>11 DEF RecommendedUpTo
    <2>2. RecommendedUpTo(n) = {c[k] : k \in {m \in DOMAIN c : m < n /\ Recommends(c[m])}}
      BY DEF RecommendedUpTo
    <2>3. {m \in DOMAIN c : m < n + 1 /\ Recommends(c[m])}
            = {m \in DOMAIN c : m < n /\ Recommends(c[m])}
                \cup IF Recommends(i) THEN {n} ELSE {}
      <3>1. \A m \in DOMAIN c : m < n + 1 <=> m < n \/ m = n
        BY <1>2, <1>3
      <3> QED BY <1>3, <3>1
    <2> QED BY <2>1, <2>2, <2>3
  <1>13. ASSUME NEW k \in DOMAIN r
         PROVE  r[k].posting > i
    <2>1. PICK m \in DOMAIN c : m < n /\ r[k].posting = c[m]
      BY RecommendedWasRead DEF MatchingInv
    <2> QED BY <1>3, <1>9, <2>1 DEF NewestFirst
  <1>14. CASE Recommends(i)
    <2>1. more = Append(r, entry)
      BY <1>14
    <2>2. /\ DOMAIN r = 1 .. Len(r) /\ Len(r) \in Nat
          /\ DOMAIN more = 1 .. Len(r) + 1
          /\ \A k \in DOMAIN r : more[k] = r[k]
          /\ more[Len(r) + 1] = entry
      BY <1>2, <1>4, <2>1
    <2> HIDE DEF more, i
    <2>3. DOMAIN more = DOMAIN r \cup {Len(r) + 1}
      BY <2>2
    <2>4. PostingsOf(more) = PostingsOf(r) \cup {i}
      BY <1>5, <2>2, <2>3 DEF PostingsOf
    <2>5. PostingsOf(matching.ranked)' = RecommendedUpTo(matching.next)'
      BY <1>8, <1>9, <1>12, <1>14, <2>4
    <2>6. ToldWhenApplied'
      <3>1. \A k \in DOMAIN more :
              more[k].applied = AppliedAmong(matching.known, listed, more[k].posting)
        BY <1>5, <1>9, <2>2, <2>3
      <3> QED BY <1>1, <1>8, <3>1 DEF ToldWhenApplied
    <2>7. \A k, l \in DOMAIN more : k < l => more[k].posting > more[l].posting
      <3>0. SUFFICES ASSUME NEW k \in DOMAIN more, NEW l \in DOMAIN more, k < l
                     PROVE  more[k].posting > more[l].posting
        OBVIOUS
      <3>1. CASE l \in DOMAIN r
        <4>1. k \in DOMAIN r
          BY <2>2, <3>0, <3>1
        <4> QED BY <1>9, <2>2, <3>0, <3>1, <4>1
      <3>2. CASE l = Len(r) + 1
        <4>1. k \in DOMAIN r
          BY <2>2, <3>0, <3>2
        <4> QED BY <1>5, <1>13, <2>2, <3>2, <4>1
      <3> QED BY <2>3, <3>1, <3>2
    <2>8. matching'.next <= Len(matching'.catalogue) + 1
      BY <1>1, <1>2, <1>3, <1>8
    <2> HIDE DEF r, c, n
    <2>9. RankedInv'
      BY <1>1, <1>8, <1>9, <2>5, <2>6, <2>7, <2>8 DEF RankedInv
    <2> QED BY <1>7, <2>9 DEF MatchingInv
  <1>15. CASE ~Recommends(i)
    <2>1. more = r
      BY <1>15
    <2> HIDE DEF more, i
    <2>2. PostingsOf(matching.ranked)' = RecommendedUpTo(matching.next)'
      BY <1>8, <1>9, <1>12, <1>15, <2>1
    <2>3. ToldWhenApplied'
      BY <1>1, <1>8, <1>9, <2>1 DEF ToldWhenApplied
    <2>4. matching'.next <= Len(matching'.catalogue) + 1
      BY <1>1, <1>2, <1>3, <1>8
    <2> HIDE DEF r, c, n
    <2>5. RankedInv'
      BY <1>1, <1>8, <1>9, <2>1, <2>2, <2>3, <2>4 DEF RankedInv
    <2> QED BY <1>7, <2>5 DEF MatchingInv
  <1> QED BY <1>14, <1>15

\* Sorting adds nothing and loses nothing.
LEMMA RecommendKeeps ==
  ASSUME MatchingInv, Recommend
  PROVE  MatchingInv'
  <1> DEFINE r == matching.ranked
             c == matching.catalogue
             s == Sorted(r)
  <1>1. /\ matching.stage = "ranking" /\ matching.next > Len(c)
        /\ matching' = [matching EXCEPT !.stage = "answered", !.ranked = s]
        /\ UNCHANGED <<candidate, listed, applied, appliedBefore>>
    BY DEF Recommend
  <1>2. r \in Seq(Recommendation) /\ matching.next \in Nat /\ Len(c) \in Nat
    BY DEF MatchingInv, MatchingTypes
  <1>3. /\ matching.next <= Len(c) + 1 /\ NewestFirst(c)
        /\ PostingsOf(r) = RecommendedUpTo(matching.next)
        /\ \A k \in DOMAIN r :
             r[k].applied = AppliedAmong(matching.known, listed, r[k].posting)
        /\ \A k, l \in DOMAIN r : k < l => r[k].posting > r[l].posting
        /\ appliedBefore \subseteq matching.known
    BY <1>1 DEF MatchingInv, RankedInv, ToldWhenApplied
  <1>4. s \in Seq(Recommendation) /\ BestFirst(s) /\ ToSet(s) = ToSet(r)
    BY <1>2, <1>3, SortedByScore
  <1> HIDE DEF s
  <1>5. MatchingTypes'
    BY <1>1, <1>4 DEF MatchingInv, MatchingTypes, Stages
  <1>6. /\ matching'.stage = "answered" /\ matching'.next = matching.next
        /\ matching'.ranked = s /\ matching'.catalogue = c
        /\ matching'.known = matching.known /\ matching'.again = matching.again
        /\ matching'.profile = matching.profile
    BY <1>1 DEF MatchingInv, MatchingTypes
  <1>7. \A j : HasAppliedTo(j)' = HasAppliedTo(j)
    BY <1>1, <1>6 DEF HasAppliedTo
  <1>8. \A j : Recommends(j)' = Recommends(j)
    BY <1>1, <1>6, <1>7 DEF Recommends
  <1>9. RecommendedUpTo(matching.next)' = RecommendedUpTo(matching.next)
    BY <1>6, <1>8 DEF RecommendedUpTo
  <1>10. \A k \in DOMAIN s : \E l \in DOMAIN r : s[k] = r[l]
    BY <1>4 DEF ToSet
  <1>11. \A l \in DOMAIN r : \E k \in DOMAIN s : r[l] = s[k]
    BY <1>4 DEF ToSet
  <1>12. PostingsOf(s) = PostingsOf(r)
    BY <1>10, <1>11 DEF PostingsOf
  <1>13. PostingsOf(matching.ranked)' = RecommendedUpTo(matching.next)'
    BY <1>3, <1>6, <1>9, <1>12
  <1>14. ToldWhenApplied'
    <2>1. \A k \in DOMAIN s :
            s[k].applied = AppliedAmong(matching.known, listed, s[k].posting)
      BY <1>3, <1>10
    <2> QED BY <1>1, <1>6, <2>1 DEF ToldWhenApplied
  <1>15. matching'.next = Len(matching'.catalogue) + 1
    BY <1>1, <1>2, <1>3, <1>6
  <1> HIDE DEF r, c
  <1>16. matching'.next <= Len(matching'.catalogue) + 1
    BY <1>2, <1>15, <1>6 DEF c
  <1>17. RankedInv'
    BY <1>1, <1>3, <1>4, <1>6, <1>13, <1>14, <1>15, <1>16 DEF RankedInv
  <1> QED BY <1>5, <1>17 DEF MatchingInv

\* An edit of the profile or an application touches no posting.
LEMMA EditsKeep ==
  ASSUME MatchingInv, UNCHANGED <<listed, matching, appliedBefore>>,
         candidate' \in CandidateProfile,
         applied \subseteq applied', applied' \subseteq Application
  PROVE  MatchingInv'
  <1>1. /\ listed \in Seq(ListedPosting) /\ Len(listed) <= Len(listed)
    BY DEF MatchingInv, MatchingTypes
  <1> QED BY <1>1, BesidesMatching

LEMMA CandidateKeeps ==
  ASSUME MatchingInv,
         \/ \E standing \in Standings : UpdateEducationStanding(standing)
         \/ \E wishes \in Wishes : UpdateJobSearchPreferences(wishes)
         \/ \E clearance \in {Unstated, "secret"}, completed \in {Unstated, "masters"} :
              UpdateQualifications(clearance, completed)
         \/ \E i \in DOMAIN listed : Apply(i)
         \/ \E score \in Scores, rating \in {"thumbs_up", "thumbs_down"} :
              Vote(score, rating)
  PROVE  MatchingInv'
  <1>0. /\ candidate \in CandidateProfile /\ applied \subseteq Application
        /\ listed \in Seq(ListedPosting)
    BY DEF MatchingInv, MatchingTypes
  <1>1. ASSUME NEW standing \in Standings, UpdateEducationStanding(standing)
        PROVE  MatchingInv'
    <2>1. standing \in EducationStanding
      BY <1>1, StandingsAreStandings DEF UpdateEducationStanding
    <2>2. candidate' \in CandidateProfile
      BY <1>0, <1>1, <2>1 DEF UpdateEducationStanding, CandidateProfile
    <2> QED BY <1>0, <1>1, <2>2, EditsKeep DEF UpdateEducationStanding
  <1>2. ASSUME NEW wishes \in Wishes, UpdateJobSearchPreferences(wishes)
        PROVE  MatchingInv'
    <2>1. candidate' \in CandidateProfile
      BY <1>0, <1>2, WishesArePreferences DEF UpdateJobSearchPreferences, CandidateProfile
    <2> QED BY <1>0, <1>2, <2>1, EditsKeep DEF UpdateJobSearchPreferences
  <1>3. ASSUME NEW clearance \in {Unstated, "secret"},
               NEW completed \in {Unstated, "masters"},
               UpdateQualifications(clearance, completed)
        PROVE  MatchingInv'
    <2>1. Degrees[4] = "masters" /\ 4 \in DOMAIN Degrees
          /\ Clearances[3] = "secret" /\ 3 \in DOMAIN Clearances
      BY DEF Degrees, Clearances
    <2>2. "masters" \in ToSet(Degrees) /\ "secret" \in ToSet(Clearances)
      BY <2>1 DEF ToSet
    <2>3. candidate' = [candidate EXCEPT !.clearance = clearance, !.completed = completed]
      BY <1>3 DEF UpdateQualifications
    <2>4. candidate' \in CandidateProfile
      BY <1>0, <2>2, <2>3 DEF CandidateProfile
    <2> QED BY <1>0, <1>3, <2>4, EditsKeep DEF UpdateQualifications
  <1>4. ASSUME NEW i \in DOMAIN listed, Apply(i)
        PROVE  MatchingInv'
    <2>1. listed[i] \in ListedPosting /\ i \in Nat
      BY <1>0
    <2>2. [posting |-> i, identity |-> listed[i].identity] \in Application
      BY <2>1 DEF ListedPosting, Application
    <2>3. applied' = applied \cup {[posting |-> i, identity |-> listed[i].identity]}
          /\ UNCHANGED <<candidate, listed, matching, appliedBefore>>
      BY <1>4 DEF Apply
    <2>4. applied \subseteq applied' /\ applied' \subseteq Application
      BY <1>0, <2>2, <2>3
    <2> QED BY <1>0, <2>3, <2>4, EditsKeep
  <1>5. ASSUME NEW score \in Scores, NEW rating \in {"thumbs_up", "thumbs_down"},
               Vote(score, rating)
        PROVE  MatchingInv'
    BY <1>0, <1>5, EditsKeep DEF Vote
  <1> QED BY <1>1, <1>2, <1>3, <1>4, <1>5

\* A posting is listed behind the others, or taken down where it stands.
LEMMA EmployersKeep ==
  ASSUME MatchingInv,
         \/ \E demands \in Demands, identity \in Identities :
              ListPosting(demands, identity)
         \/ \E i \in DOMAIN listed : TakeDown(i)
  PROVE  MatchingInv'
  <1>0. /\ candidate \in CandidateProfile /\ applied \subseteq Application
        /\ listed \in Seq(ListedPosting)
        /\ Len(listed) \in Nat /\ DOMAIN listed = 1 .. Len(listed)
    BY DEF MatchingInv, MatchingTypes
  <1>1. ASSUME NEW demands \in Demands, NEW identity \in Identities,
               ListPosting(demands, identity)
        PROVE  MatchingInv'
    <2>1. Posting(demands, identity) \in ListedPosting
      BY DemandsAreRequirements DEF Posting, ListedPosting
    <2>2. listed' = Append(listed, Posting(demands, identity))
          /\ UNCHANGED <<candidate, applied, matching, appliedBefore>>
      BY <1>1 DEF ListPosting
    <2>3. /\ listed' \in Seq(ListedPosting) /\ Len(listed) <= Len(listed')
          /\ \A i \in DOMAIN listed : listed'[i] = listed[i]
      BY <1>0, <2>1, <2>2
    <2> QED BY <1>0, <2>2, <2>3, BesidesMatching
  <1>2. ASSUME NEW i \in DOMAIN listed, TakeDown(i)
        PROVE  MatchingInv'
    <2>1. listed' = [listed EXCEPT ![i].active = FALSE]
          /\ UNCHANGED <<candidate, applied, matching, appliedBefore>>
      BY <1>2 DEF TakeDown
    <2> DEFINE down == [listed[i] EXCEPT !.active = FALSE]
    <2>2. listed[i] \in ListedPosting
      BY <1>0
    <2>3. /\ down \in ListedPosting /\ down.demands = listed[i].demands
          /\ down.identity = listed[i].identity
      BY <2>2 DEF ListedPosting
    <2>4. listed' = [listed EXCEPT ![i] = down]
      BY <2>1
    <2> HIDE DEF down
    <2>5. /\ listed' \in Seq(ListedPosting) /\ Len(listed') = Len(listed)
          /\ \A j \in DOMAIN listed : listed'[j] = IF j = i THEN down ELSE listed[j]
      BY <1>0, <2>3, <2>4
    <2>6. Len(listed) <= Len(listed')
      BY <1>0, <2>5
    <2>7. \A j \in DOMAIN listed : /\ listed'[j].demands = listed[j].demands
                                   /\ listed'[j].identity = listed[j].identity
      BY <2>3, <2>5
    <2> QED BY <1>0, <2>1, <2>5, <2>6, <2>7, BesidesMatching
  <1> QED BY <1>1, <1>2

LEMMA MatchingNextKeeps == MatchingInv /\ [MatchingNext]_matchingVars => MatchingInv'
  <1> SUFFICES ASSUME MatchingInv, [MatchingNext]_matchingVars PROVE MatchingInv'
    OBVIOUS
  <1>1. CASE \E again \in BOOLEAN : BeginMatching(again)
    BY <1>1, BeginKeeps
  <1>2. CASE ReadActive
    BY <1>2, ReadActiveKeeps
  <1>3. CASE ReadApplied
    BY <1>3, ReadAppliedKeeps
  <1>4. CASE \E rationale \in {"written", "fallback"} : Judge(rationale)
    BY <1>4, JudgeKeeps
  <1>5. CASE Recommend
    BY <1>5, RecommendKeeps
  <1>6. CASE \/ \E standing \in Standings : UpdateEducationStanding(standing)
             \/ \E wishes \in Wishes : UpdateJobSearchPreferences(wishes)
             \/ \E clearance \in {Unstated, "secret"}, completed \in {Unstated, "masters"} :
                  UpdateQualifications(clearance, completed)
             \/ \E i \in DOMAIN listed : Apply(i)
             \/ \E score \in Scores, rating \in {"thumbs_up", "thumbs_down"} :
                  Vote(score, rating)
    BY <1>6, CandidateKeeps
  <1>7. CASE \/ \E demands \in Demands, identity \in Identities :
                  ListPosting(demands, identity)
             \/ \E i \in DOMAIN listed : TakeDown(i)
    BY <1>7, EmployersKeep
  <1>8. CASE UNCHANGED matchingVars
    <2>1. UNCHANGED <<candidate, listed, applied, matching, appliedBefore>>
      BY <1>8 DEF matchingVars
    <2>2. candidate \in CandidateProfile /\ applied \subseteq Application
      BY DEF MatchingInv, MatchingTypes
    <2> QED BY <2>1, <2>2, EditsKeep
  <1> QED BY <1>1, <1>2, <1>3, <1>4, <1>5, <1>6, <1>7, <1>8 DEF MatchingNext

LEMMA MatchingIsInductive == MatchingSpec => []MatchingInv
  <1> QED BY MatchingStarts, MatchingNextKeeps, PTL DEF MatchingSpec

-----------------------------------------------------------------------------
(* What is recommended *)

\* RankedOnStatedFacts: of the postings a request read, those left out are
\* exactly the ones a stated fact contradicts, of a kind not looked for or of a
\* role applied to, whatever the profile, the demands and the limit are and
\* whatever happens meanwhile; the others come best score first, and the newest
\* first among equals.
THEOREM RankingFollowsFacts == MatchingSpec => []RankedOnStatedFacts
  <1>1. ASSUME MatchingInv PROVE RankedOnStatedFacts
    <2> SUFFICES ASSUME matching.stage = "answered" PROVE RankedOnStatedFacts
      BY DEF RankedOnStatedFacts
    <2> DEFINE c == matching.catalogue
               r == matching.ranked
               unfit(i) == \/ Contradicts(matching.profile, listed[i].demands)
                           \/ ~Wanted(matching.profile.wishes, listed[i].demands)
                           \/ ~matching.again /\ HasAppliedTo(i)
    <2>1. /\ matching.profile \in CandidateProfile /\ listed \in Seq(ListedPosting)
          /\ c \in Seq(DOMAIN listed)
      BY <1>1 DEF MatchingInv, MatchingTypes
    <2>2. /\ matching.next = Len(c) + 1 /\ BestFirst(r)
          /\ PostingsOf(r) = RecommendedUpTo(matching.next)
      BY <1>1 DEF MatchingInv, RankedInv
    <2>3. ASSUME NEW i \in DOMAIN listed
          PROVE  Recommends(i) <=> ~unfit(i)
      <3>1. listed[i] \in ListedPosting
        BY <2>1
      <3>2. listed[i].demands \in JobRequirements
        BY <3>1 DEF ListedPosting
      <3>3. Qualifies(matching.profile, listed[i].demands)
              <=> ~Contradicts(matching.profile, listed[i].demands)
        BY <2>1, <3>2, OnlyFactsDisqualify
      <3> QED BY <3>3 DEF Recommends
    <2>4. ToSet(c) \subseteq DOMAIN listed
      BY <2>1 DEF ToSet
    <2>5. \A m \in DOMAIN c : m < matching.next
      BY <2>1, <2>2
    <2>6. RecommendedUpTo(matching.next) = {i \in ToSet(c) : Recommends(i)}
      BY <2>5 DEF RecommendedUpTo, ToSet
    <2> HIDE DEF unfit
    <2>7. ToSet(c) \ PostingsOf(r) = {i \in ToSet(c) : unfit(i)}
      BY <2>2, <2>3, <2>4, <2>6
    <2> QED BY <2>2, <2>7 DEF RankedOnStatedFacts, PostingsOf, BestFirst, unfit
  <1> QED BY <1>1, MatchingIsInductive, PTL

\* NotRecommendedAgain: a role applied to by the time the candidate asked is
\* never recommended as a new one, under whatever posting it is listed again and
\* whatever is listed, taken down or applied to while the request works.
THEOREM NothingAppliedToIsNew == MatchingSpec => []NotRecommendedAgain
  <1>1. ASSUME MatchingInv PROVE NotRecommendedAgain
    <2>1. SUFFICES ASSUME NEW k \in DOMAIN matching.ranked,
                          listed[matching.ranked[k].posting].identity
                            \in {sent.identity : sent \in appliedBefore}
                   PROVE  matching.again /\ matching.ranked[k].applied
      BY DEF NotRecommendedAgain
    <2> DEFINE i == matching.ranked[k].posting
    <2>2. RankedInv
      BY <1>1 DEF MatchingInv
    <2>3. Recommends(i)
      BY <2>2, RecommendedWasRead
    <2>4. matching.stage \in {"ranking", "answered"}
      <3>1. matching.ranked # <<>>
        BY <2>1, NoneInEmpty
      <3> QED BY <2>2, <3>1 DEF RankedInv
    <2>5. appliedBefore \subseteq matching.known
      BY <2>2, <2>4 DEF RankedInv
    <2>6. PICK sent \in appliedBefore : listed[i].identity = sent.identity
      BY <2>1
    <2>7. AppliedAmong(matching.known, listed, i) /\ HasAppliedTo(i)
      BY <2>5, <2>6 DEF AppliedAmong, HasAppliedTo
    <2>8. matching.again
      BY <2>3, <2>7 DEF Recommends
    <2>9. matching.ranked[k].applied = AppliedAmong(matching.known, listed, i)
      BY <2>2 DEF RankedInv, ToldWhenApplied
    <2> QED BY <2>7, <2>8, <2>9
  <1> QED BY <1>1, MatchingIsInductive, PTL

-----------------------------------------------------------------------------
(* The votes *)

Ballot == [score : 0 .. 100, rating : {"thumbs_up", "thumbs_down"}]

VotesInv == votes \in Seq(Ballot)

BandStarts == {0, 20, 40, 60, 80}

Band(start) ==
  [from |-> start,
   to |-> IF start + BucketSize < 100 THEN start + BucketSize ELSE 100,
   up |-> Tally(start, "thumbs_up"), down |-> Tally(start, "thumbs_down")]

\* A score is put into the band it lies in, 100 into the last.
LEMMA BucketHoldsScore ==
  ASSUME NEW score \in 0 .. 100
  PROVE  /\ BucketOf(score) \in BandStarts
         /\ \A start \in BandStarts :
              InBand(score, Band(start)) <=> BucketOf(score) = start
  <1> DEFINE q == score \div 20
  <1>1. q \in 0 .. 5 /\ 20 * q <= score /\ score < (20 * q) + 20
    OBVIOUS
  <1>2. BucketOf(score) = IF q * 20 > 80 THEN 80 ELSE q * 20
    BY DEF BucketOf, BucketSize, MaxBucketStart
  <1> HIDE DEF q
  <1>3. q = 0 \/ q = 1 \/ q = 2 \/ q = 3 \/ q = 4 \/ q = 5
    BY <1>1
  <1>4. BucketOf(score) \in BandStarts
    BY <1>2, <1>3 DEF BandStarts
  <1>5. ASSUME NEW start \in BandStarts
        PROVE  InBand(score, Band(start)) <=> BucketOf(score) = start
    <2>1. InBand(score, Band(start)) <=>
            start <= score /\ (score < start + 20 \/ (score = 100 /\ start = 80))
      BY <1>5 DEF InBand, Band, BandStarts, BucketSize
    <2> QED BY <1>1, <1>2, <1>3, <2>1 DEF BandStarts
  <1> QED BY <1>4, <1>5

LEMMA AgreementIsBands ==
  Agreement = {Band(start) : start \in {BucketOf(votes[v].score) : v \in DOMAIN votes}}
  BY DEF Agreement, Band

LEMMA VotesStep ==
  ASSUME VotesInv, [MatchingNext]_matchingVars
  PROVE  VotesInv'
  <1>1. CASE UNCHANGED votes
    BY <1>1 DEF VotesInv
  <1>2. ASSUME NEW score, NEW rating \in {"thumbs_up", "thumbs_down"},
               Vote(score, rating)
        PROVE  VotesInv'
    <2>1. [score |-> score, rating |-> rating] \in Ballot
      BY <1>2 DEF Vote, Ballot
    <2> QED BY <1>2, <2>1 DEF Vote, VotesInv
  <1> QED BY <1>1, <1>2
          DEF MatchingNext, matchingVars, BeginMatching, ReadActive, ReadApplied,
              Judge, Recommend, UpdateEducationStanding,
              UpdateJobSearchPreferences, UpdateQualifications, ListPosting,
              TakeDown, Apply

\* VotesFallInTheirBucket: scoring_feedback_analyzer.py puts every vote into one
\* band, the one its range says, and a band's tally is of the votes in its range,
\* for any votes cast in any order; a score of 100 is in the last band.
THEOREM VotesAreTallied == MatchingSpec => []VotesFallInTheirBucket
  <1>1. MatchingInit => VotesInv
    BY DEF MatchingInit, NobodyAsked, VotesInv
  <1>2. VotesInv /\ [MatchingNext]_matchingVars => VotesInv'
    BY VotesStep
  <1>3. ASSUME VotesInv PROVE VotesFallInTheirBucket
    <2> DEFINE starts == {BucketOf(votes[v].score) : v \in DOMAIN votes}
    <2>1. \A v \in DOMAIN votes : votes[v] \in Ballot
      BY <1>3 DEF VotesInv
    <2>2. \A v \in DOMAIN votes :
            /\ votes[v].score \in 0 .. 100
            /\ BucketOf(votes[v].score) \in BandStarts
      BY <2>1, BucketHoldsScore DEF Ballot
    <2>3. starts \subseteq BandStarts
      BY <2>2
    <2>4. \A start \in starts, v \in DOMAIN votes :
            InBand(votes[v].score, Band(start))
              <=> BucketOf(votes[v].score) = start
      BY <2>2, <2>3, BucketHoldsScore
    <2>5. ASSUME NEW v \in DOMAIN votes
          PROVE  \E b \in Agreement :
                   /\ InBand(votes[v].score, b)
                   /\ \A other \in Agreement \ {b} : ~InBand(votes[v].score, other)
      <3> DEFINE start == BucketOf(votes[v].score)
      <3>1. start \in starts
        OBVIOUS
      <3>2. Band(start) \in Agreement /\ InBand(votes[v].score, Band(start))
        BY <2>4, <3>1, AgreementIsBands
      <3>3. \A other \in Agreement \ {Band(start)} : ~InBand(votes[v].score, other)
        BY <2>4, AgreementIsBands
      <3> QED BY <3>2, <3>3
    <2>6. ASSUME NEW b \in Agreement
          PROVE  /\ b.to - b.from = BucketSize
                 /\ b.up = Cardinality(VotesIn(b, "thumbs_up"))
                 /\ b.down = Cardinality(VotesIn(b, "thumbs_down"))
      <3>1. PICK start \in starts : b = Band(start)
        BY AgreementIsBands
      <3>2. b.to - b.from = BucketSize
        BY <2>3, <3>1 DEF Band, BandStarts, BucketSize
      <3>3. ASSUME NEW rating
            PROVE  VotesIn(b, rating) =
                     {v \in DOMAIN votes :
                        BucketOf(votes[v].score) = start
                          /\ votes[v].rating = rating}
        BY <2>4, <3>1 DEF VotesIn
      <3>4. /\ b.up = Tally(start, "thumbs_up")
            /\ b.down = Tally(start, "thumbs_down")
        BY <3>1 DEF Band
      <3> QED BY <3>2, <3>3, <3>4 DEF Tally
    <2> QED BY <2>5, <2>6 DEF VotesFallInTheirBucket
  <1> QED BY <1>1, <1>2, <1>3, PTL DEF MatchingSpec
=============================================================================
