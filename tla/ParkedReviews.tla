---------------------------- MODULE ParkedReviews ----------------------------
(***************************************************************************)
(* Filled application forms held open in live browsers, waiting for their  *)
(* candidates: the passes that fill and park them, the answers typed into  *)
(* them, the submissions that press their button, and the registry whose   *)
(* deadline, capacity and one-per-form rules may close a browser under any *)
(* of these.                                                               *)
(*                                                                         *)
(* The registry lives in one process.  Its lock covers one registry call,  *)
(* never a whole request, so between acquiring a review and finishing with *)
(* it a request may be overtaken at every await.  A browser session and    *)
(* its review are named after the request that opened it.                  *)
(***************************************************************************)
EXTENDS WebRequests, SequencesExt

CONSTANTS
  Users,
  Jobs,
  Fields,       \* the fields of a form
  Required,     \* those the portal marks required
  Sensitive,    \* those that need approving when the fill pass filled them
  MaxParked     \* how many reviews the registry holds at once

ASSUME RequiredFields == Required \subseteq Fields
ASSUME SensitiveFields == Sensitive \subseteq Fields
ASSUME MaxParkedIsPositive == MaxParked \in Nat \ {0}

VARIABLES
  parked,       \* the registry: reviews from the earliest deadline on
  overdue,      \* those whose deadline has passed
  browser,      \* the browser session each fill pass opened
  form,         \* the candidate and posting it is for
  report,       \* what the review says of each field
  presses,      \* the requests that pressed its submit control
  raised,       \* history: of these, the requests whose click() raised
  target,       \* the review a request acquired
  confirmed     \* the fields a submission names as approved

registryVars == <<parked, overdue>>
pressVars == <<presses, raised>>
sessionVars == <<browser, form, report, pressVars>>
vars == <<serving, registryVars, sessionVars, target, confirmed>>

\* A field the pass left alone or the portal refused; one it filled; one it
\* filled that the candidate has to approve; one the candidate answered.
Entries == {"open", "filled", "to_confirm", "answered"}

FilledEntry(f) == IF f \in Sensitive THEN "to_confirm" ELSE "filled"

Untouched == [f \in Fields |-> "open"]

FillReports == {r \in [Fields -> Entries] :
                  \A f \in Fields : r[f] \in {"open", FilledEntry(f)}}

NoForm == [user |-> NoOne, job |-> NoOne]

\* A queue of reviews without those in S, the others in their order.
Without(queue, S) ==
  LET kept[n \in 0 .. Len(queue)] ==
        IF n = 0 THEN <<>>
        ELSE IF queue[n] \in S THEN kept[n - 1] ELSE Append(kept[n - 1], queue[n])
  IN  kept[Len(queue)]

IsParked(s) == Contains(parked, s)

IsOpen(s) == browser[s] = "open"

-----------------------------------------------------------------------------
(* The registry *)

\* The reviews in S leave the registry and their browsers are closed.
Close(S) ==
  /\ parked' = Without(parked, S)
  /\ overdue' = overdue \ S
  /\ browser' = [s \in Requests |-> IF s \in S THEN "closed" ELSE browser[s]]

\* With a bug: the earlier review of the same form stays.
KeptOfEveryForm(for) == Without(parked, overdue)

\* What stays when a review of form `for` is about to be parked: nothing
\* overdue, nothing for the same form...
Kept(for) == Without(parked, overdue \cup {s \in Requests : form[s] = for})

\* ...and, at capacity, the newest only.
WithRoom(kept) ==
  IF Len(kept) < MaxParked
  THEN kept
  ELSE SubSeq(kept, Len(kept) - MaxParked + 2, Len(kept))

\* With a bug: only overdue reviews are closed, evicted ones are forgotten.
DisplacedWhenOverdue(for) == ToSet(parked) \cap overdue

Displaced(for) == ToSet(parked) \ ToSet(WithRoom(Kept(for)))

\* acquire: the review is there, in time, and this candidate's.
Acquirable(s, u) == IsParked(s) /\ s \notin overdue /\ form[s].user = u

\* Every acquire first closes what is overdue, whoever it belongs to.
Acquire(p, s, u, next) ==
  /\ MayStart(p)
  /\ Close(overdue)
  /\ IF Acquirable(s, u)
     THEN Goto(p, next) /\ target' = [target EXCEPT ![p] = s]
     ELSE Goto(p, "failed") /\ UNCHANGED target
  /\ UNCHANGED <<form, report, pressVars, confirmed>>

\* A deadline passes; all reviews get the same time, so in parking order.
PassDeadline(s) ==
  /\ IsParked(s)
  /\ s \notin overdue
  /\ \A n \in 1 .. Len(parked) :
       parked[n] = s => \A m \in 1 .. n - 1 : parked[m] \in overdue
  /\ overdue' = overdue \cup {s}
  /\ UNCHANGED <<serving, parked, sessionVars, target, confirmed>>

-----------------------------------------------------------------------------
(* Filling and parking a form *)

OpenForm(p, u, j) ==
  /\ MayStart(p)
  /\ browser' = [browser EXCEPT ![p] = "open"]
  /\ form' = [form EXCEPT ![p] = [user |-> u, job |-> j]]
  /\ Goto(p, "filling")
  /\ UNCHANGED <<registryVars, report, pressVars, target, confirmed>>

Park(p, entries) ==
  /\ pc[p] = "filling"
  /\ LET for == form[p] IN
       /\ parked' = Append(WithRoom(Kept(for)), p)
       /\ overdue' = overdue \ Displaced(for)
       /\ browser' = [s \in Requests |->
                        IF s \in Displaced(for) THEN "closed" ELSE browser[s]]
  /\ report' = [report EXCEPT ![p] = entries]
  /\ Goto(p, "ok")
  /\ UNCHANGED <<form, pressVars, target, confirmed>>

\* A login wall or a page without fields leaves nothing to review; any other
\* failure ends the pass as well.  Its browser is closed either way.
FillEnds(p, outcome) ==
  /\ pc[p] = "filling"
  /\ browser' = [browser EXCEPT ![p] = "closed"]
  /\ Goto(p, outcome)
  /\ UNCHANGED <<registryVars, form, report, pressVars, target, confirmed>>

-----------------------------------------------------------------------------
(* Answering a field *)

\* Nothing is awaited between the page taking the value and the report
\* recording it.  A press drops every field handle, unless click() raised.
FillAnswer(p, f) ==
  /\ pc[p] = "answering"
  /\ IsOpen(target[p])
  /\ presses[target[p]] \subseteq raised
  /\ report' = [report EXCEPT ![target[p]][f] = "answered"]
  /\ Goto(p, "ok")
  /\ UNCHANGED <<registryVars, browser, form, pressVars, target, confirmed>>

\* The session was closed, the form changed, or it does not take the value.
FillAnswerFails(p) ==
  /\ pc[p] = "answering"
  /\ Goto(p, "failed")
  /\ UNCHANGED <<registryVars, sessionVars, target, confirmed>>

-----------------------------------------------------------------------------
(* Submitting the form *)

\* Every sensitive value is approved and every required field answered.
Informed(s, approved) ==
  /\ \A f \in Fields : report[s][f] = "to_confirm" => f \in approved
  /\ \A f \in Required : report[s][f] # "open"

\* With a bug: the answers are not looked at.
PassGatesUninformed(p, approved) ==
  /\ pc[p] = "scanning"
  /\ IsOpen(target[p])
  /\ confirmed' = [confirmed EXCEPT ![p] = approved]
  /\ Goto(p, "pressing")
  /\ UNCHANGED <<registryVars, sessionVars, target>>

\* The gates, once the page was scanned again for human-only checks.
PassGates(p, approved) ==
  /\ pc[p] = "scanning"
  /\ IsOpen(target[p])
  /\ Informed(target[p], approved)
  /\ confirmed' = [confirmed EXCEPT ![p] = approved]
  /\ Goto(p, "pressing")
  /\ UNCHANGED <<registryVars, sessionVars, target>>

\* The control is read and pressed through a handle of this request's own
\* reading; a press that another request made does not invalidate it, the
\* page may.
PressSubmit(p) ==
  /\ pc[p] = "pressing"
  /\ IsOpen(target[p])
  /\ presses' = [presses EXCEPT ![target[p]] = @ \cup {p}]
  /\ Goto(p, "pressed")
  /\ UNCHANGED <<registryVars, browser, form, report, raised, target, confirmed>>

\* The page took the press, but click() raised: it waits for what the press
\* sets off.  The handles are not dropped and the review stays open.
PressRaises(p) ==
  /\ pc[p] = "pressing"
  /\ IsOpen(target[p])
  /\ Cardinality(raised) < MaxKilled
  /\ presses' = [presses EXCEPT ![target[p]] = @ \cup {p}]
  /\ raised' = raised \cup {p}
  /\ Goto(p, "failed")
  /\ UNCHANGED <<registryVars, browser, form, report, target, confirmed>>

\* A challenge on the page, a gate, no control or several, a control that
\* changed or stays covered, a session that was closed: nothing is sent.
SubmitRefused(p) ==
  /\ pc[p] \in {"scanning", "pressing"}
  /\ Goto(p, "failed")
  /\ UNCHANGED <<registryVars, sessionVars, target, confirmed>>

\* With a bug: the review stays parked after its form was sent.
ReleaseKeepingIt(p) ==
  /\ pc[p] = "pressed"
  /\ IsParked(target[p])
  /\ Goto(p, "ok")
  /\ UNCHANGED <<registryVars, sessionVars, target, confirmed>>

\* release, after the portal's answer was read back (or could not be).
Release(p) ==
  /\ pc[p] = "pressed"
  /\ IsParked(target[p])
  /\ Close({target[p]})
  /\ Goto(p, "ok")
  /\ UNCHANGED <<form, report, pressVars, target, confirmed>>

\* With a bug: release holds the deadline against a form already sent.
ReleaseFindsNothingInTime(p) ==
  /\ pc[p] = "pressed"
  /\ ~IsParked(target[p]) \/ target[p] \in overdue
  /\ Goto(p, "failed")
  /\ UNCHANGED <<registryVars, sessionVars, target, confirmed>>

\* The review is gone from the registry: release raises, and so the request.
ReleaseFindsNothing(p) ==
  /\ pc[p] = "pressed"
  /\ ~IsParked(target[p])
  /\ Goto(p, "failed")
  /\ UNCHANGED <<registryVars, sessionVars, target, confirmed>>

-----------------------------------------------------------------------------
(* Discarding a review; the process ending *)

\* release, without looking at deadlines.
Discard(p, s, u) ==
  /\ MayStart(p)
  /\ IF IsParked(s) /\ form[s].user = u
     THEN Close({s}) /\ Goto(p, "ok")
     ELSE Goto(p, "failed") /\ UNCHANGED <<registryVars, browser>>
  /\ UNCHANGED <<form, report, pressVars, target, confirmed>>

\* close_all, once the server has served its last request.
ShutDown ==
  /\ \A p \in Requests : ~InFlight(p)
  /\ parked # <<>>
  /\ Close(ToSet(parked))
  /\ UNCHANGED <<serving, form, report, pressVars, target, confirmed>>

\* The process dies, with the registry, its browsers and every request.
Crash ==
  /\ MaxKilled > 0
  /\ pc' = [p \in Requests |-> IF InFlight(p) THEN "killed" ELSE pc[p]]
  /\ Close({s \in Requests : IsOpen(s)})
  /\ UNCHANGED <<overlapped, form, report, pressVars, target, confirmed>>

-----------------------------------------------------------------------------

Init ==
  /\ InitServing
  /\ parked = <<>>
  /\ overdue = {}
  /\ browser = [p \in Requests |-> "none"]
  /\ form = [p \in Requests |-> NoForm]
  /\ report = [p \in Requests |-> Untouched]
  /\ presses = [p \in Requests |-> {}]
  /\ raised = {}
  /\ target = [p \in Requests |-> NoOne]
  /\ confirmed = [p \in Requests |-> {}]

Start(p) ==
  \/ \E u \in Users, j \in Jobs : OpenForm(p, u, j)
  \/ \E s \in Requests, u \in Users :
       \/ Acquire(p, s, u, "answering")
       \/ Acquire(p, s, u, "scanning")
       \/ Discard(p, s, u)

Progress(p) ==
  \/ \E entries \in FillReports : Park(p, entries)
  \/ \E outcome \in Ended : FillEnds(p, outcome)
  \/ \E f \in Fields : FillAnswer(p, f)
  \/ FillAnswerFails(p)
  \/ \E approved \in SUBSET Sensitive : PassGates(p, approved)
  \/ PressSubmit(p)
  \/ PressRaises(p)
  \/ SubmitRefused(p)
  \/ Release(p)
  \/ ReleaseFindsNothing(p)

Next ==
  \/ \E p \in Requests : Start(p) \/ Progress(p)
  \/ \E s \in Requests : PassDeadline(s)
  \/ ShutDown
  \/ Crash
  \/ AllAnswered /\ UNCHANGED vars

Spec == Init /\ [][Next]_vars

-----------------------------------------------------------------------------
(* What must hold *)

Labels == Ended \cup {"idle", "filling", "answering", "scanning", "pressing",
                      "pressed"}

TypeOK ==
  /\ pc \in [Requests -> Labels]
  /\ overlapped \in BOOLEAN
  /\ parked \in Seq(Requests)
  /\ overdue \subseteq ToSet(parked)
  /\ browser \in [Requests -> {"none", "open", "closed"}]
  /\ form \in [Requests -> {NoForm} \cup [user : Users, job : Jobs]]
  /\ report \in [Requests -> [Fields -> Entries]]
  /\ presses \in [Requests -> SUBSET Requests]
  /\ raised \subseteq Requests
  /\ target \in [Requests -> Requests \cup {NoOne}]
  /\ confirmed \in [Requests -> SUBSET Sensitive]

\* However passes race to park, the registry holds at most one review of one
\* candidate's form, and never more than its limit.
OneReviewPerForm ==
  /\ Len(parked) <= MaxParked
  /\ \A m, n \in 1 .. Len(parked) :
       form[parked[m]] = form[parked[n]] => m = n

\* No browser leaks and none is closed under the registry's nose: the open
\* ones are exactly those parked and those a fill pass still works in.
OpenBrowsersAreHeld ==
  \A s \in Requests : IsOpen(s) <=> IsParked(s) \/ pc[s] = "filling"

\* A button is pressed only on a form that is, at the press and not merely
\* at the check before it, complete and approved, whatever was answered,
\* evicted or parked in between.
PressesAreInformed ==
  [][\A s \in Requests : \A p \in presses'[s] \ presses[s] :
       IsParked(s) /\ Informed(s, confirmed[p])]_presses

\* Until requests overlap, one parked form is sent at most once: after a
\* press that was reported nothing can be pressed again.
PressedOnce ==
  Serially(\A s \in Requests :
             \A p, q \in presses[s] \ raised : p = q)

\* A submission whose button was pressed is never answered with a refusal,
\* unless the press itself seemed to fail.
PressIsReported ==
  \A s \in Requests : \A p \in presses[s] \ raised : pc[p] # "failed"

\* Until requests overlap, it is not: a deadline that passes after the
\* press is no reason to.
PressIsReportedSerially == Serially(PressIsReported)
=============================================================================
