------------------------- MODULE TrackedApplications -------------------------
(***************************************************************************)
(* The tracker: one row per application sent, with its current status, and *)
(* beside it the append-only history of the statuses it has held.  A       *)
(* submission is logged once, under its submission key; afterwards the     *)
(* candidate moves the application along.                                  *)
(*                                                                         *)
(* Row and history are separate tables read by separate statements, and an *)
(* update writes the row's status from the entity but appends only the     *)
(* history entries beyond the number it finds stored.  That count runs     *)
(* after the row's UPDATE was flushed (updated_at always differs), so the  *)
(* row lock makes UPDATE, count, INSERT and COMMIT one step.               *)
(***************************************************************************)
EXTENDS OrmUpdate, WebRequests, Sequences

CONSTANTS
  ApplicationIds,   \* identifiers the id generator may hand out
  SubmissionKeys    \* reviews that get submitted

ASSUME NoOneIsNoKey == NoOne \notin SubmissionKeys
ASSUME NoOneIsNoApplication == NoOne \notin ApplicationIds

VARIABLES
  applications,     \* tracked_applications: key and current status
  events,           \* application_status_events of each, in sequence order
  tKey,             \* the submission a request logs
  tTarget,          \* the application a request moves
  tMove,            \* the status it should move to
  tStatus,          \* the row's status, as last read by the request
  tHistory          \* the history the request's entity carries

trackerVars == <<applications, events, tKey, tTarget, tMove, tStatus, tHistory>>
vars == <<serving, trackerVars>>
localVars == <<tKey, tTarget, tMove, tStatus, tHistory>>

Statuses == {"applied", "interviewing", "offer", "rejected", "withdrawn"}

Allowed ==
  [s \in Statuses |->
     CASE s = "applied"      -> {"interviewing", "rejected", "withdrawn"}
       [] s = "interviewing" -> {"offer", "rejected", "withdrawn"}
       [] s = "offer"        -> {"rejected", "withdrawn"}
       [] OTHER              -> {}]

Event == [status : Statuses, previous : Statuses \cup {NoOne}]

Sent == [status |-> "applied", previous |-> NoOne]

ApplicationRow == [key : SubmissionKeys \cup {NoOne},
                   status : Statuses \cup {"none"}]

NoApplication == [key |-> NoOne, status |-> "none"]

Exists(i) == applications[i].key # NoOne

Latest(history) == history[Len(history)].status

\* The entity's check of its history: one beginning, and every later entry
\* moves on from the one before it.
ChainHolds(history) ==
  /\ history # <<>>
  /\ history[1].previous = NoOne
  /\ \A n \in 2 .. Len(history) : history[n].previous = history[n - 1].status

\* A row and history that can be rebuilt into an application.
Consistent(status, history) ==
  ChainHolds(history) /\ Latest(history) = status

-----------------------------------------------------------------------------
(* Logging a submission *)

IsLogged(k) == \E i \in ApplicationIds : applications[i].key = k

\* get_by_submission_key finds nothing.
LogStart(p, k) ==
  /\ MayStart(p)
  /\ ~IsLogged(k)
  /\ tKey' = [tKey EXCEPT ![p] = k]
  /\ Goto(p, "adding")
  /\ UNCHANGED <<applications, events, tTarget, tMove, tStatus, tHistory>>

\* The submission is in the tracker already: a replay changes nothing.
LogReplayed(p, k) ==
  /\ MayStart(p)
  /\ IsLogged(k)
  /\ Goto(p, "ok")
  /\ UNCHANGED trackerVars

\* With a bug: no unique constraint.
KeyIsAlwaysFree(k) == TRUE

\* The unique constraint on (user_id, submission_key).
KeyIsFree(k) == ~IsLogged(k)

\* The row and its first history entry, in one transaction.
AddApplication(p, i) ==
  /\ pc[p] = "adding"
  /\ ~Exists(i)
  /\ KeyIsFree(tKey[p])
  /\ applications' =
       [applications EXCEPT ![i] = [key |-> tKey[p], status |-> "applied"]]
  /\ events' = [events EXCEPT ![i] = <<Sent>>]
  /\ Goto(p, "ok")
  /\ UNCHANGED localVars

\* Lost the race: the other request's row is read back and returned.
AddApplicationConflicts(p) ==
  /\ pc[p] = "adding"
  /\ ~KeyIsFree(tKey[p])
  /\ Goto(p, "ok")
  /\ UNCHANGED trackerVars

-----------------------------------------------------------------------------
(* Moving an application along *)

\* get_by_id reads the row first...
MoveStart(p, i, s) ==
  /\ MayStart(p)
  /\ Exists(i)
  /\ tTarget' = [tTarget EXCEPT ![p] = i]
  /\ tMove' = [tMove EXCEPT ![p] = s]
  /\ tStatus' = [tStatus EXCEPT ![p] = applications[i].status]
  /\ Goto(p, "reading_history")
  /\ UNCHANGED <<applications, events, tKey, tHistory>>

\* With a bug: any status may follow any other.
MoveAllowedAnywhere(p) == Consistent(tStatus[p], events[tTarget[p]])

MoveAllowed(p) ==
  /\ Consistent(tStatus[p], events[tTarget[p]])
  /\ tMove[p] \in Allowed[tStatus[p]]

\* ...then the history; change_status appends the move to both.
MoveDecide(p) ==
  /\ pc[p] = "reading_history"
  /\ MoveAllowed(p)
  /\ tHistory' =
       [tHistory EXCEPT ![p] =
          Append(events[tTarget[p]],
                 [status |-> tMove[p], previous |-> tStatus[p]])]
  /\ Goto(p, "tracked_reread")
  /\ UNCHANGED <<applications, events, tKey, tTarget, tMove, tStatus>>

\* The row and the history disagree, or the transition is not allowed.
MoveRefused(p) ==
  /\ pc[p] = "reading_history"
  /\ ~MoveAllowed(p)
  /\ Goto(p, "failed")
  /\ UNCHANGED trackerVars

\* repository.update: read the row again...
RereadApplication(p) ==
  /\ pc[p] = "tracked_reread"
  /\ tStatus' = [tStatus EXCEPT ![p] = applications[tTarget[p]].status]
  /\ Goto(p, "tracked_flush")
  /\ UNCHANGED <<applications, events, tKey, tTarget, tMove, tHistory>>

\* With a bug: the last entry is appended whatever is stored already, or the
\* count is off by one.
ExtendedByLast(stored, carried) == Append(stored, carried[Len(carried)])
ExtendedOffByOne(stored, carried) ==
  stored \o SubSeq(carried, Len(stored) + 2, Len(carried))

\* The stored entries stay; those beyond them come from the entity.
Extended(stored, carried) ==
  IF Len(stored) < Len(carried)
  THEN stored \o SubSeq(carried, Len(stored) + 1, Len(carried))
  ELSE stored

\* ...write the status if it differs, append what is not stored yet, commit.
FlushApplication(p) ==
  /\ pc[p] = "tracked_flush"
  /\ LET i == tTarget[p] IN
       /\ applications' =
            [applications EXCEPT
               ![i].status = Written(@, tStatus[p], tMove[p])]
       /\ events' = [events EXCEPT ![i] = Extended(@, tHistory[p])]
  /\ Goto(p, "ok")
  /\ UNCHANGED localVars

Die(p) ==
  /\ CutShort(p)
  /\ UNCHANGED trackerVars

-----------------------------------------------------------------------------

Init ==
  /\ applications = [i \in ApplicationIds |-> NoApplication]
  /\ events = [i \in ApplicationIds |-> <<>>]
  /\ InitServing
  /\ tKey = [p \in Requests |-> NoOne]
  /\ tTarget = [p \in Requests |-> NoOne]
  /\ tMove = [p \in Requests |-> "none"]
  /\ tStatus = [p \in Requests |-> "none"]
  /\ tHistory = [p \in Requests |-> <<>>]

Step(p) ==
  \/ \E k \in SubmissionKeys : LogStart(p, k) \/ LogReplayed(p, k)
  \/ \E i \in ApplicationIds : AddApplication(p, i)
  \/ AddApplicationConflicts(p)
  \/ \E i \in ApplicationIds, s \in Statuses : MoveStart(p, i, s)
  \/ MoveDecide(p)
  \/ MoveRefused(p)
  \/ RereadApplication(p)
  \/ FlushApplication(p)
  \/ Die(p)

Next ==
  \/ \E p \in Requests : Step(p)
  \/ AllAnswered /\ UNCHANGED vars

Spec == Init /\ [][Next]_vars

-----------------------------------------------------------------------------
(* What must hold *)

Labels == Ended \cup {"idle", "adding", "reading_history", "tracked_reread",
                      "tracked_flush"}

TypeOK ==
  /\ applications \in [ApplicationIds -> ApplicationRow]
  /\ events \in [ApplicationIds -> Seq(Event)]
  /\ pc \in [Requests -> Labels]
  /\ overlapped \in BOOLEAN
  /\ tKey \in [Requests -> SubmissionKeys \cup {NoOne}]
  /\ tTarget \in [Requests -> ApplicationIds \cup {NoOne}]
  /\ tMove \in [Requests -> Statuses \cup {"none"}]
  /\ tStatus \in [Requests -> Statuses \cup {"none"}]
  /\ tHistory \in [Requests -> Seq(Event)]

\* The walk of an application a candidate can take.
LegalWalk(history) ==
  /\ ChainHolds(history)
  /\ history[1] = Sent
  /\ \A n \in 2 .. Len(history) :
       history[n].status \in Allowed[history[n - 1].status]

\* Under any interleaving of moves, the stored history of an application is
\* one legal walk from the day it was sent: entries appended by a request
\* that read an older history still continue from the entry before them.
HistoryIsLegalWalk ==
  \A i \in ApplicationIds : Exists(i) => LegalWalk(events[i])

\* A submission logged twice, by a replay or by two racing requests, is one
\* tracked application.
OneRecordPerSubmission ==
  \A i, j \in ApplicationIds :
    Exists(i) /\ applications[i].key = applications[j].key => i = j

\* The status on the row is the one the history ends at; where they differ
\* the application cannot be read any more.
StatusMatchesHistory ==
  \A i \in ApplicationIds :
    Exists(i) => applications[i].status = Latest(events[i])

\* Until requests overlap, they agree.
StatusMatchesSerially == Serially(StatusMatchesHistory)

\* By its history every application takes the legal walk, even when moves
\* overlap.
Walk == INSTANCE StatusWalk
  WITH Applications <- ApplicationIds,
       status <- [i \in ApplicationIds |->
                    IF events[i] = <<>> THEN "none" ELSE Latest(events[i])]

ImplementsStatusWalk == Walk!Spec
=============================================================================
