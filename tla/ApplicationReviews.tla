------------------------- MODULE ApplicationReviews -------------------------
(***************************************************************************)
(* Reviews of one filled application, together with the portal hand-offs   *)
(* that gate them and the tracker a submission is logged into.             *)
(*                                                                         *)
(* The scope is again one candidate and one posting.  Opening a review     *)
(* (inspect, fill, store), revising an answer and submitting are requests  *)
(* beside those of PortalHandoffs, interleaving at every await.            *)
(*                                                                         *)
(* `submitted_at` is recorded as the request whose clock it is.            *)
(***************************************************************************)
EXTENDS PortalHandoffs

CONSTANTS
  ReviewIds,    \* identifiers the id generator may hand out
  Fields,       \* the questions of the application form
  Sensitive,    \* those that are legal declarations or self-identification
  Values        \* non-blank values an answer can have

ASSUME SensitiveFields == Sensitive \subseteq Fields
ASSUME NoOneIsNoValue == NoOne \notin Values

VARIABLES
  reviews,      \* the application_reviews table
  tracked,      \* submission keys present in tracked_applications
  rTarget,      \* the review a request is working on
  rWant,        \* the entity a request read, then the one it stores
  rRead,        \* the row `update` read before assigning to it
  rNote         \* the note sent along with a submission

reviewVars == <<reviews, tracked, rTarget, rWant, rRead, rNote>>

vars == <<handoffVars, serving, reviewVars>>

Blank == NoOne

Origins == {"unanswered", "autofilled", "candidate", "declined"}

Answer == [value : Values \cup {Blank}, origin : Origins, decided : BOOLEAN]

ReviewStatuses == {"unused", "in_review", "submitted_by_user", "deleted"}

ReviewRow == [status : ReviewStatuses,
              answers : [Fields -> Answer],
              submittedAt : Requests \cup {NoOne},
              note : {"", "candidate"}]

Unanswered == [value |-> Blank, origin |-> "unanswered", decided |-> FALSE]

UnusedReview == [status |-> "unused",
                 answers |-> [f \in Fields |-> Unanswered],
                 submittedAt |-> NoOne,
                 note |-> ""]

-----------------------------------------------------------------------------
(* The entities *)

\* What one fill pass leaves in a field: a value it typed, or nothing.
FilledAnswers ==
  {Unanswered} \cup
  {[value |-> v, origin |-> "autofilled", decided |-> FALSE] : v \in Values}

Answered(a, v) ==
  [a EXCEPT !.value = v, !.origin = "candidate", !.decided = TRUE]

Declined(a) ==
  [a EXCEPT !.value = Blank, !.origin = "declined", !.decided = TRUE]

Confirmed(a) == [a EXCEPT !.decided = TRUE]

IsAnswered(a) == a.value # Blank \/ a.origin = "declined"

\* The three moves a candidate has on one answer.  An emptied value is a
\* declined one, and only an answered field can be confirmed.
Revisions(a) ==
  {Answered(a, v) : v \in Values} \cup {Declined(a)} \cup
  {b \in {Confirmed(a)} : IsAnswered(a)}

\* The checks a review makes on itself whenever it is built.
ReviewReadable(r) ==
  IF r.status = "in_review"
  THEN r.submittedAt = NoOne /\ r.note = ""
  ELSE r.submittedAt # NoOne

\* No sensitive field is still waiting for the candidate's decision.
Consented(r) == \A f \in Sensitive : r.answers[f].decided

Submitted(r, p, note) ==
  [r EXCEPT !.status = "submitted_by_user", !.submittedAt = p, !.note = note]

MergedReview(row, read, entity) ==
  [status      |-> Written(row.status, read.status, entity.status),
   answers     |-> Written(row.answers, read.answers, entity.answers),
   submittedAt |-> Written(row.submittedAt, read.submittedAt, entity.submittedAt),
   note        |-> Written(row.note, read.note, entity.note)]

-----------------------------------------------------------------------------
(* The tables *)

Stored(i) == reviews[i].status \in {"in_review", "submitted_by_user"}

InReview == {i \in ReviewIds : reviews[i].status = "in_review"}

\* With a bug: an index that is not unique.
ReviewIndexAllowsAll(i, row) == TRUE

\* The partial unique index over reviews in progress.
ReviewIndexAllows(i, row) ==
  row.status = "in_review" => InReview \subseteq {i}

\* get_open_for_job raises when the open row cannot be rebuilt.
OpenHandoffReadable == \A i \in OpenHandoffs : HandoffReadable(handoffs[i])

ForgetReview(p) ==
  /\ rTarget' = [rTarget EXCEPT ![p] = NoOne]
  /\ rWant' = [rWant EXCEPT ![p] = UnusedReview]
  /\ rRead' = [rRead EXCEPT ![p] = UnusedReview]
  /\ rNote' = [rNote EXCEPT ![p] = ""]

\* The request is over and touched nothing.
End(p, outcome) ==
  /\ Goto(p, outcome)
  /\ ForgetReview(p)
  /\ UNCHANGED <<handoffVars, reviews, tracked>>

-----------------------------------------------------------------------------
(* Opening a review: the inspection of PortalHandoffs, the fill pass, then  *)
(* OpenApplicationReview.                                                   *)

\* The fill pass came back with answers and no hand-off is open.
OpenDecide(p, answers) ==
  /\ pc[p] = "inspected"
  /\ OpenHandoffs = {}
  /\ rWant' = [rWant EXCEPT ![p] = [UnusedReview EXCEPT !.status = "in_review",
                                                        !.answers = answers]]
  /\ Goto(p, "superseding")
  /\ UNCHANGED <<handoffVars, reviews, tracked, rTarget, rRead, rNote>>

\* A hand-off was opened meanwhile: the candidate gets that instead.
OpenHandedOff(p) ==
  /\ pc[p] = "inspected"
  /\ OpenHandoffs # {}
  /\ End(p, IF OpenHandoffReadable THEN "ok" ELSE "failed")

\* With a bug: the DELETE does not look at the status.
SupersedeEverything(p) ==
  /\ pc[p] = "superseding"
  /\ reviews' = [i \in ReviewIds |->
                   IF Stored(i)
                   THEN [UnusedReview EXCEPT !.status = "deleted"]
                   ELSE reviews[i]]
  /\ Goto(p, "adding_review")
  /\ UNCHANGED <<handoffVars, tracked, rTarget, rWant, rRead, rNote>>

\* supersede_active: one DELETE, committed on its own.
Supersede(p) ==
  /\ pc[p] = "superseding"
  /\ reviews' = [i \in ReviewIds |->
                   IF i \in InReview
                   THEN [UnusedReview EXCEPT !.status = "deleted"]
                   ELSE reviews[i]]
  /\ Goto(p, "adding_review")
  /\ UNCHANGED <<handoffVars, tracked, rTarget, rWant, rRead, rNote>>

AddReview(p, i) ==
  /\ pc[p] = "adding_review"
  /\ reviews[i].status = "unused"
  /\ ReviewIndexAllows(i, rWant[p])
  /\ reviews' = [reviews EXCEPT ![i] = rWant[p]]
  /\ Goto(p, "ok")
  /\ ForgetReview(p)
  /\ UNCHANGED <<handoffVars, tracked>>

AddReviewConflicts(p) ==
  /\ pc[p] = "adding_review"
  /\ InReview # {}
  /\ End(p, "failed")

-----------------------------------------------------------------------------
(* Revising an answer: the read and the entity's decision have no await     *)
(* between them.                                                            *)

Revise(p, i, f, a) ==
  /\ MayStart(p)
  /\ reviews[i].status = "in_review"
  /\ ReviewReadable(reviews[i])
  /\ a \in Revisions(reviews[i].answers[f])
  /\ rTarget' = [rTarget EXCEPT ![p] = i]
  /\ rWant' = [rWant EXCEPT ![p] = [reviews[i] EXCEPT !.answers[f] = a]]
  /\ Goto(p, "review_reread")
  /\ UNCHANGED <<handoffVars, reviews, tracked, rRead, rNote>>

\* The review is gone, submitted, unreadable, or there is nothing to confirm.
ReviseRefused(p, i) ==
  /\ MayStart(p)
  /\ reviews[i].status # "unused"
  /\ \/ reviews[i].status # "in_review"
     \/ ~ReviewReadable(reviews[i])
     \/ \E f \in Fields : ~IsAnswered(reviews[i].answers[f])
  /\ End(p, "failed")

-----------------------------------------------------------------------------
(* Submitting *)

SubmitRead(p, i, note) ==
  /\ MayStart(p)
  /\ Stored(i)
  /\ ReviewReadable(reviews[i])
  /\ rTarget' = [rTarget EXCEPT ![p] = i]
  /\ rWant' = [rWant EXCEPT ![p] = reviews[i]]
  /\ rNote' = [rNote EXCEPT ![p] = note]
  /\ Goto(p, "submit_checking")
  /\ UNCHANGED <<handoffVars, reviews, tracked, rRead>>

SubmitAllowedHandedOff(p) ==
  Consented(rWant[p]) /\ rWant[p].status = "in_review"

\* record_submission, on the review as it was read and the hand-offs as they
\* are now.
SubmitAllowed(p) ==
  /\ OpenHandoffs = {}
  /\ Consented(rWant[p])
  /\ rWant[p].status = "in_review"

\* With a bug: the tracker hears of the submission before it is stored.
SubmitDecideLogsFirst(p) ==
  /\ pc[p] = "submit_checking"
  /\ SubmitAllowed(p)
  /\ rWant' = [rWant EXCEPT ![p] = Submitted(rWant[p], p, rNote[p])]
  /\ tracked' = tracked \cup {rTarget[p]}
  /\ Goto(p, "submit_reread")
  /\ UNCHANGED <<handoffVars, reviews, rTarget, rRead, rNote>>

SubmitDecide(p) ==
  /\ pc[p] = "submit_checking"
  /\ SubmitAllowed(p)
  /\ rWant' = [rWant EXCEPT ![p] = Submitted(rWant[p], p, rNote[p])]
  /\ Goto(p, "submit_reread")
  /\ UNCHANGED <<handoffVars, reviews, tracked, rTarget, rRead, rNote>>

SubmitRefused(p) ==
  /\ pc[p] = "submit_checking"
  /\ ~SubmitAllowed(p)
  /\ End(p, "failed")

-----------------------------------------------------------------------------
(* repository.update, for a revision and for a submission *)

Rereading == {"review_reread", "submit_reread"}
Flushing == {"review_flush", "submit_flush"}

RereadReview(p) ==
  /\ pc[p] \in Rereading
  /\ Stored(rTarget[p])
  /\ rRead' = [rRead EXCEPT ![p] = reviews[rTarget[p]]]
  /\ Goto(p, IF pc[p] = "review_reread" THEN "review_flush" ELSE "submit_flush")
  /\ UNCHANGED <<handoffVars, reviews, tracked, rTarget, rWant, rNote>>

\* Superseded before the second read: not found.
RereadFindsNothing(p) ==
  /\ pc[p] \in Rereading
  /\ ~Stored(rTarget[p])
  /\ End(p, "failed")

ReviewAfterFlush(p) ==
  MergedReview(reviews[rTarget[p]], rRead[p], rWant[p])

\* With a bug: a deleted row is written back.
FlushAllowedAfterDelete(p) ==
  ReviewIndexAllows(rTarget[p], ReviewAfterFlush(p))

\* The UPDATE matches a row only if it is still there, and must satisfy the
\* unique index.
FlushAllowed(p) ==
  Stored(rTarget[p]) /\ ReviewIndexAllows(rTarget[p], ReviewAfterFlush(p))

FlushReview(p) ==
  /\ pc[p] \in Flushing
  /\ FlushAllowed(p)
  /\ reviews' = [reviews EXCEPT ![rTarget[p]] = ReviewAfterFlush(p)]
  /\ IF pc[p] = "submit_flush"
     THEN Goto(p, "logging") /\ UNCHANGED <<rTarget, rWant, rRead, rNote>>
     ELSE Goto(p, "ok") /\ ForgetReview(p)
  /\ UNCHANGED <<handoffVars, tracked>>

FlushReviewFails(p) ==
  /\ pc[p] \in Flushing
  /\ ~FlushAllowed(p)
  /\ End(p, "failed")

\* With a bug: the projection returns without adding anything.
LogSubmissionNowhere(p) ==
  /\ pc[p] = "logging"
  /\ Goto(p, "ok")
  /\ ForgetReview(p)
  /\ UNCHANGED <<handoffVars, reviews, tracked>>

\* The submission is projected into the tracker, keyed on the review: a key
\* already there is left alone.
LogSubmission(p) ==
  /\ pc[p] = "logging"
  /\ tracked' = tracked \cup {rTarget[p]}
  /\ Goto(p, "ok")
  /\ ForgetReview(p)
  /\ UNCHANGED <<handoffVars, reviews>>

\* Whatever goes wrong in the tracker is swallowed: the candidate is told
\* the submission went through.
LogSwallowed(p) ==
  /\ MaxKilled > 0
  /\ pc[p] = "logging"
  /\ End(p, "ok")

-----------------------------------------------------------------------------

ReviewProgress(p) ==
  \/ \E answers \in [Fields -> FilledAnswers] : OpenDecide(p, answers)
  \/ OpenHandedOff(p)
  \/ Supersede(p)
  \/ \E i \in ReviewIds : AddReview(p, i)
  \/ AddReviewConflicts(p)
  \/ SubmitDecide(p)
  \/ SubmitRefused(p)
  \/ RereadReview(p)
  \/ RereadFindsNothing(p)
  \/ FlushReview(p)
  \/ FlushReviewFails(p)
  \/ LogSubmission(p)
  \/ LogSwallowed(p)

ReviewStart(p) ==
  \/ BeginInspection(p, TRUE) /\ UNCHANGED reviewVars
  \/ \E i \in ReviewIds, f \in Fields :
       \E a \in Revisions(reviews[i].answers[f]) : Revise(p, i, f, a)
  \/ \E i \in ReviewIds : ReviseRefused(p, i)
  \/ \E i \in ReviewIds, note \in {"", "candidate"} : SubmitRead(p, i, note)

ReviewInit ==
  /\ reviews = [i \in ReviewIds |-> UnusedReview]
  /\ tracked = {}
  /\ rTarget = [p \in Requests |-> NoOne]
  /\ rWant = [p \in Requests |-> UnusedReview]
  /\ rRead = [p \in Requests |-> UnusedReview]
  /\ rNote = [p \in Requests |-> ""]

Init ==
  /\ HandoffInit
  /\ InitServing
  /\ ReviewInit

DieInReview(p) ==
  /\ Die(p)
  /\ ForgetReview(p)
  /\ UNCHANGED <<reviews, tracked>>

Step(p) ==
  \/ (HandoffStart(p) \/ HandoffProgress(p)) /\ UNCHANGED reviewVars
  \/ ReviewStart(p)
  \/ ReviewProgress(p)
  \/ DieInReview(p)

Next ==
  \/ \E p \in Requests : Step(p)
  \/ AllAnswered /\ UNCHANGED vars

Spec == Init /\ [][Next]_vars

\* The event loop keeps serving a request that has started.
Serving(p) ==
  ReviewProgress(p) \/ (HandoffProgress(p) /\ UNCHANGED reviewVars)

FairSpec == Spec /\ \A p \in Requests : WF_vars(Serving(p))
-----------------------------------------------------------------------------
(* What must hold *)

Labels ==
  Ended \cup Browsing \cup Rereading \cup Flushing \cup
  {"idle", "raising", "handoff_reread", "clearing_to_open", "handoff_flush",
   "flushing_to_open", "inspected", "superseding", "adding_review",
   "submit_checking", "logging"}

TypeOK ==
  /\ HandoffTypeOK
  /\ pc \in [Requests -> Labels]
  /\ overlapped \in BOOLEAN
  /\ reviews \in [ReviewIds -> ReviewRow]
  /\ tracked \subseteq ReviewIds
  /\ rTarget \in [Requests -> ReviewIds \cup {NoOne}]
  /\ rWant \in [Requests -> ReviewRow]
  /\ rRead \in [Requests -> ReviewRow]
  /\ rNote \in [Requests -> {"", "candidate"}]

\* However opens, revisions and submissions interleave, the posting has at
\* most one review in progress: one set of answers the candidate can mean.
OneOpenReview ==
  \A i, j \in ReviewIds :
    reviews[i].status = "in_review" /\ reviews[j].status = "in_review" => i = j

\* Every submitted review has the candidate's own decision on every
\* sensitive field, as stored, not only as the submitting request saw it.
SubmittedWithConsent ==
  \A i \in ReviewIds :
    reviews[i].status = "submitted_by_user" => Consented(reviews[i])

\* Until requests overlap, what was sent is frozen: no later revision,
\* second click or fresh fill pass changes answers, time, note or status.
FrozenOnceSubmitted ==
  [][\A i \in ReviewIds :
       ~overlapped' /\ reviews[i].status = "submitted_by_user"
         => reviews'[i] = reviews[i]]_reviews

\* A draft that a fresh fill pass replaced never comes back, not even when a
\* revision or submission that had read it is still on its way to the table.
SupersededStaysGone ==
  [][\A i \in ReviewIds :
       reviews[i].status = "deleted" => reviews'[i] = reviews[i]]_reviews

\* Until requests overlap, the tracker lists nothing the candidate did not
\* send: every logged key is a review stored as submitted.
TrackedWasSent ==
  Serially(\A i \in tracked : reviews[i].status = "submitted_by_user")

\* When nothing fails, every submission reaches the tracker.
SubmittedIsTracked ==
  \A i \in ReviewIds :
    reviews[i].status = "submitted_by_user" ~> i \in tracked

\* The lifecycle the candidate is promised, read off the tables.
Lifecycle == INSTANCE ReviewLifecycle
  WITH status  <- [i \in ReviewIds |-> reviews[i].status],
       answers <- [i \in ReviewIds |-> reviews[i].answers],
       blocked <- OpenHandoffs # {},
       patient <- ~overlapped,
       Fills   <- FilledAnswers,
       Moves   <- Revisions

ImplementsLifecycle == Lifecycle!Spec
=============================================================================
