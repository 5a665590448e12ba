----------------------------- MODULE WebRequests -----------------------------
(***************************************************************************)
(* The HTTP requests of one scenario.  Each is served by one coroutine     *)
(* with a database session of its own; wherever it awaits, the event loop  *)
(* (or another worker process) may serve another request.  `pc` says at    *)
(* which await a request stands.                                           *)
(***************************************************************************)
EXTENDS Naturals, FiniteSets

CONSTANTS
  Requests,     \* the requests of the scenario; each is made once
  MaxKilled,    \* a bound: how many of them may be cut short
  NoOne         \* the NULL of a nullable column

ASSUME NoOneIsNoRequest == NoOne \notin Requests
ASSUME RequestsAreFinite == IsFiniteSet(Requests)
ASSUME MaxKilledIsNatural == MaxKilled \in Nat

VARIABLES
  pc,           \* where each request stands
  overlapped    \* history: a request arrived while another was served

serving == <<pc, overlapped>>

Ended == {"ok", "failed", "killed"}

InFlight(p) == pc[p] \notin Ended \cup {"idle"}

MayStart(p) == pc[p] = "idle"

\* A candidate who waits for each answer before clicking again never makes
\* requests overlap.
Goto(p, label) ==
  /\ pc' = [pc EXCEPT ![p] = label]
  /\ overlapped' = \/ overlapped
                   \/ pc[p] = "idle" /\ \E q \in Requests : InFlight(q)

\* The worker is killed or the database drops the connection: the request
\* ends where it is, unanswered, with its last commit standing.
CutShort(p) ==
  /\ Cardinality({q \in Requests : pc[q] = "killed"}) < MaxKilled
  /\ InFlight(p)
  /\ Goto(p, "killed")

AllAnswered == \A p \in Requests : pc[p] \in Ended

InitServing ==
  /\ pc = [p \in Requests |-> "idle"]
  /\ overlapped = FALSE

\* What holds for a candidate who waits for each answer.
Serially(P) == ~overlapped => P
=============================================================================
