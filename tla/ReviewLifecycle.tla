--------------------------- MODULE ReviewLifecycle ---------------------------
(***************************************************************************)
(* What the review of an application promises its candidate, without the   *)
(* database: a draft exists at most once, only the candidate's moves       *)
(* change it, it is sent once, with every sensitive question settled and   *)
(* no hand-off open, and what was sent is never touched again.  The promise *)
(* covers a candidate who waits for each answer before the next click.     *)
(***************************************************************************)
CONSTANTS
  ReviewIds,      \* the reviews there may ever be
  Fields,         \* the questions of the form
  Sensitive,      \* those that need the candidate's own decision
  Fills,          \* answers a fill pass can leave in one field
  Moves(_)        \* the answers a candidate can turn one answer into

VARIABLES
  status,         \* where each review stands
  answers,        \* its answer to each question
  blocked,        \* whether a portal hand-off waits on the candidate
  patient         \* whether each click waited for the answer to the last

lifecycleVars == <<status, answers, blocked, patient>>

Drafts == {i \in ReviewIds : status[i] = "in_review"}

Init ==
  /\ status = [i \in ReviewIds |-> "unused"]
  /\ \E blank \in Fills :
       answers = [i \in ReviewIds |-> [f \in Fields |-> blank]]
  /\ blocked = FALSE
  /\ patient = TRUE

Draft(i) ==
  /\ status[i] = "unused"
  /\ Drafts = {}
  /\ status' = [status EXCEPT ![i] = "in_review"]
  /\ \E filled \in [Fields -> Fills] :
       answers' = [answers EXCEPT ![i] = filled]
  /\ UNCHANGED <<blocked, patient>>

\* A fresh fill pass discards the draft it replaces, answers and all.
Discard(i) ==
  /\ status[i] = "in_review"
  /\ status' = [status EXCEPT ![i] = "deleted"]
  /\ \E blank \in Fills :
       answers' = [answers EXCEPT ![i] = [f \in Fields |-> blank]]
  /\ UNCHANGED <<blocked, patient>>

Edit(i, f) ==
  /\ status[i] = "in_review"
  /\ \E a \in Moves(answers[i][f]) : answers' = [answers EXCEPT ![i][f] = a]
  /\ UNCHANGED <<status, blocked, patient>>

Send(i, decided(_)) ==
  /\ status[i] = "in_review"
  /\ ~blocked
  /\ \A f \in Sensitive : decided(answers[i][f])
  /\ status' = [status EXCEPT ![i] = "submitted_by_user"]
  /\ UNCHANGED <<answers, blocked, patient>>

PortalChanges ==
  /\ blocked' \in BOOLEAN
  /\ UNCHANGED <<status, answers, patient>>

IsDecided(a) == a.decided

\* Nothing is promised any more once two requests overlapped.
Impatience == ~patient'

Next ==
  \/ \E i \in ReviewIds : Draft(i) \/ Discard(i) \/ Send(i, IsDecided)
  \/ \E i \in ReviewIds, f \in Fields : Edit(i, f)
  \/ PortalChanges
  \/ Impatience

Spec == Init /\ [][Next]_lifecycleVars
=============================================================================
