--------------------------- MODULE PortalHandoffs ---------------------------
(***************************************************************************)
(* Portal hand-offs: the rows recording that automation stopped at a hard  *)
(* boundary of one application portal and waits on the candidate.          *)
(*                                                                         *)
(* The scope is one candidate and one job posting: every query the use     *)
(* cases issue is keyed on that pair, and so is the partial unique index.  *)
(* A request is one HTTP request with its own database session; every      *)
(* `await` on the database is a point where other requests may run, so     *)
(* each database round-trip is an action of its own.                       *)
(*                                                                         *)
(* A row records who wrote it rather than when: `detected` is the request  *)
(* whose inspection is stored (hard_stops, paused_url, last_detected_at)   *)
(* and `resolved` the request whose clock stamped resolved_at.             *)
(***************************************************************************)
EXTENDS OrmUpdate, WebRequests

CONSTANT
  HandoffIds    \* identifiers the id generator may hand out

VARIABLES
  handoffs,     \* the portal_handoffs table
  hTarget,      \* the hand-off a request is updating
  hWant,        \* the entity a request is about to store
  hRead         \* the row `update` read before assigning to it

handoffVars == <<handoffs, hTarget, hWant, hRead>>

HandoffStatuses == {"unused", "awaiting_user", "resumed", "abandoned"}

\* Resolution notes: blank, the candidate's words, or the fixed text of a
\* hand-off that a later inspection cleared.
Notes == {"", "candidate", "cleared"}

HandoffRow == [status : HandoffStatuses,
               detected : Requests \cup {NoOne},
               resolved : Requests \cup {NoOne},
               note : Notes]

UnusedHandoff ==
  [status |-> "unused", detected |-> NoOne, resolved |-> NoOne, note |-> ""]

-----------------------------------------------------------------------------
(* The entity *)

\* The checks a hand-off makes on itself whenever it is built: a row that
\* fails them cannot be read at all.
HandoffReadable(h) ==
  IF h.status = "awaiting_user"
  THEN h.resolved = NoOne /\ h.note = ""
  ELSE h.resolved # NoOne

RaisedBy(p) ==
  [status |-> "awaiting_user", detected |-> p, resolved |-> NoOne, note |-> ""]

Redetected(h, p) == [h EXCEPT !.detected = p]

\* With a bug: no resolved_at.
ResolvedUnstamped(h, p, status, note) ==
  [h EXCEPT !.status = status, !.note = note]

Resolved(h, p, status, note) ==
  [h EXCEPT !.status = status, !.resolved = p, !.note = note]

\* An update of the row, column by column.
MergedHandoff(row, read, entity) ==
  [status   |-> Written(row.status, read.status, entity.status),
   detected |-> Written(row.detected, read.detected, entity.detected),
   resolved |-> Written(row.resolved, read.resolved, entity.resolved),
   note     |-> Written(row.note, read.note, entity.note)]

-----------------------------------------------------------------------------
(* The table *)

IsAwaiting(i) == handoffs[i].status = "awaiting_user"

\* What get_open_for_job selects from: the unique index leaves at most one.
OpenHandoffs == {i \in HandoffIds : IsAwaiting(i)}

\* With a bug: an index that is not unique.
HandoffIndexAllowsAll(i, row) == TRUE

\* The partial unique index over rows awaiting the candidate.
HandoffIndexAllows(i, row) ==
  row.status = "awaiting_user" => OpenHandoffs \subseteq {i}

-----------------------------------------------------------------------------
(* Requests *)

ForgetHandoff(p) ==
  /\ hTarget' = [hTarget EXCEPT ![p] = NoOne]
  /\ hWant' = [hWant EXCEPT ![p] = UnusedHandoff]
  /\ hRead' = [hRead EXCEPT ![p] = UnusedHandoff]

\* Start updating hand-off i to the entity `want`.
BeginHandoffUpdate(p, i, want) ==
  /\ hTarget' = [hTarget EXCEPT ![p] = i]
  /\ hWant' = [hWant EXCEPT ![p] = want]
  /\ UNCHANGED <<handoffs, hRead>>

HandoffInit ==
  /\ handoffs = [i \in HandoffIds |-> UnusedHandoff]
  /\ hTarget = [p \in Requests |-> NoOne]
  /\ hWant = [p \in Requests |-> UnusedHandoff]
  /\ hRead = [p \in Requests |-> UnusedHandoff]

\* A request asks for the portal to be inspected, on its own or as the first
\* half of opening a review (which carries on from "inspected").
BeginInspection(p, opensReview) ==
  /\ MayStart(p)
  /\ Goto(p, IF opensReview THEN "browsing_to_open" ELSE "browsing")
  /\ UNCHANGED handoffVars

Browsing == {"browsing", "browsing_to_open"}

\* The page shows a hard stop and no hand-off is open for this job.
InspectionStops(p) ==
  /\ pc[p] \in Browsing
  /\ OpenHandoffs = {}
  /\ Goto(p, "raising")
  /\ UNCHANGED handoffVars

\* The page shows a hard stop and a hand-off is already open: the newest
\* reading replaces the evidence.
InspectionStopsAgain(p, i) ==
  /\ pc[p] \in Browsing
  /\ i \in OpenHandoffs
  /\ HandoffReadable(handoffs[i])
  /\ Goto(p, "handoff_reread")
  /\ BeginHandoffUpdate(p, i, Redetected(handoffs[i], p))

\* The page shows a form.  An open hand-off is resolved on that evidence.
InspectionClears(p, i) ==
  /\ pc[p] \in Browsing
  /\ i \in OpenHandoffs
  /\ HandoffReadable(handoffs[i])
  /\ Goto(p, IF pc[p] = "browsing" THEN "handoff_reread" ELSE "clearing_to_open")
  /\ BeginHandoffUpdate(p, i, Resolved(handoffs[i], p, "resumed", "cleared"))

\* The page shows a form and nothing is waiting on the candidate.
InspectionFindsForm(p) ==
  /\ pc[p] \in Browsing
  /\ OpenHandoffs = {}
  /\ Goto(p, IF pc[p] = "browsing" THEN "ok" ELSE "inspected")
  /\ UNCHANGED handoffVars

\* The open hand-off's row cannot be rebuilt.
InspectionFails(p) ==
  /\ pc[p] \in Browsing
  /\ \E i \in OpenHandoffs : ~HandoffReadable(handoffs[i])
  /\ Goto(p, "failed")
  /\ UNCHANGED handoffVars

\* repository.add of a fresh hand-off, under the unique index.
RaiseHandoff(p, i) ==
  /\ pc[p] = "raising"
  /\ handoffs[i].status = "unused"
  /\ HandoffIndexAllows(i, RaisedBy(p))
  /\ handoffs' = [handoffs EXCEPT ![i] = RaisedBy(p)]
  /\ Goto(p, "ok")
  /\ UNCHANGED <<hTarget, hWant, hRead>>

RaiseHandoffConflicts(p) ==
  /\ pc[p] = "raising"
  /\ OpenHandoffs # {}
  /\ Goto(p, "failed")
  /\ UNCHANGED handoffVars

\* With a bug: whether the hand-off still awaits is not looked at.
ResolveHandoffAgain(p, i, status, note) ==
  /\ MayStart(p)
  /\ handoffs[i].status # "unused"
  /\ HandoffReadable(handoffs[i])
  /\ Goto(p, "handoff_reread")
  /\ BeginHandoffUpdate(p, i, Resolved(handoffs[i], p, status, note))

\* The candidate says they did the step, or that they finish it themselves.
\* The read and the domain's decision have no await between them.
ResolveHandoff(p, i, status, note) ==
  /\ MayStart(p)
  /\ IsAwaiting(i)
  /\ HandoffReadable(handoffs[i])
  /\ Goto(p, "handoff_reread")
  /\ BeginHandoffUpdate(p, i, Resolved(handoffs[i], p, status, note))

\* The hand-off is already resolved, or cannot be rebuilt from its row.
ResolveHandoffRefused(p, i) ==
  /\ MayStart(p)
  /\ handoffs[i].status # "unused"
  /\ IsAwaiting(i) => ~HandoffReadable(handoffs[i])
  /\ Goto(p, "failed")
  /\ UNCHANGED handoffVars

\* repository.update: read the row again...
RereadHandoff(p) ==
  /\ pc[p] \in {"handoff_reread", "clearing_to_open"}
  /\ hRead' = [hRead EXCEPT ![p] = handoffs[hTarget[p]]]
  /\ Goto(p, IF pc[p] = "handoff_reread" THEN "handoff_flush" ELSE "flushing_to_open")
  /\ UNCHANGED <<handoffs, hTarget, hWant>>

HandoffAfterFlush(p) ==
  MergedHandoff(handoffs[hTarget[p]], hRead[p], hWant[p])

\* ...and commit the columns that differ from that reading.
FlushHandoff(p) ==
  /\ pc[p] \in {"handoff_flush", "flushing_to_open"}
  /\ HandoffIndexAllows(hTarget[p], HandoffAfterFlush(p))
  /\ handoffs' = [handoffs EXCEPT ![hTarget[p]] = HandoffAfterFlush(p)]
  /\ Goto(p, IF pc[p] = "handoff_flush" THEN "ok" ELSE "inspected")
  /\ ForgetHandoff(p)

FlushHandoffConflicts(p) ==
  /\ pc[p] \in {"handoff_flush", "flushing_to_open"}
  /\ ~HandoffIndexAllows(hTarget[p], HandoffAfterFlush(p))
  /\ Goto(p, "failed")
  /\ ForgetHandoff(p)
  /\ UNCHANGED handoffs

\* The steps every request serving a hand-off takes once it has started.
HandoffProgress(p) ==
  \/ InspectionStops(p)
  \/ \E i \in HandoffIds : InspectionStopsAgain(p, i)
  \/ \E i \in HandoffIds : InspectionClears(p, i)
  \/ InspectionFindsForm(p)
  \/ InspectionFails(p)
  \/ \E i \in HandoffIds : RaiseHandoff(p, i)
  \/ RaiseHandoffConflicts(p)
  \/ RereadHandoff(p)
  \/ FlushHandoff(p)
  \/ FlushHandoffConflicts(p)

HandoffStart(p) ==
  \/ BeginInspection(p, FALSE)
  \/ \E i \in HandoffIds, note \in {"", "candidate"} :
       \/ ResolveHandoff(p, i, "resumed", note)
       \/ ResolveHandoff(p, i, "abandoned", note)
  \/ \E i \in HandoffIds : ResolveHandoffRefused(p, i)

Die(p) ==
  /\ CutShort(p)
  /\ ForgetHandoff(p)
  /\ UNCHANGED handoffs

\* The hand-offs by themselves, without the reviews that depend on them.
HandoffStep(p) == HandoffStart(p) \/ HandoffProgress(p) \/ Die(p)

HandoffSpec ==
  /\ HandoffInit
  /\ InitServing
  /\ [][ \/ \E p \in Requests : HandoffStep(p)
         \/ AllAnswered /\ UNCHANGED <<handoffVars, serving>> ]_<<handoffVars, serving>>

-----------------------------------------------------------------------------
(* What must hold *)

HandoffTypeOK ==
  /\ handoffs \in [HandoffIds -> HandoffRow]
  /\ hTarget \in [Requests -> HandoffIds \cup {NoOne}]
  /\ hWant \in [Requests -> HandoffRow]
  /\ hRead \in [Requests -> HandoffRow]

\* However many inspections race, the candidate is asked to deal with one
\* portal once: at most one hand-off of the posting awaits them.
OneOpenHandoff ==
  \A i, j \in HandoffIds : IsAwaiting(i) /\ IsAwaiting(j) => i = j

\* Until requests overlap, every stored hand-off can be rebuilt: a row whose
\* status and resolution disagree would raise on each later read of it.
HandoffsReadable ==
  Serially(\A i \in HandoffIds :
             handoffs[i].status # "unused" => HandoffReadable(handoffs[i]))

\* Until requests overlap, a resolution is the record of one request: the
\* note beside an abandoned hand-off is never the text an inspection writes
\* when it clears one.
ResolutionIsOneRequests ==
  Serially(\A i \in HandoffIds :
             handoffs[i].note = "cleared" => handoffs[i].status = "resumed")

\* Until requests overlap, a resolved hand-off is never rewritten and never
\* reopened, by a second click on "continue" or by a later inspection.
ResolvedOnce ==
  [][\A i \in HandoffIds :
       ~overlapped' /\ handoffs[i].status \in {"resumed", "abandoned"}
         => handoffs'[i] = handoffs[i]]_handoffs
=============================================================================
