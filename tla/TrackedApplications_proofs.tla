--------------------- MODULE TrackedApplications_proofs ---------------------
(***************************************************************************)
(* Proofs about what was applied with.  First the tracker, for any         *)
(* requests, applications, keys and whether or not requests overlap or are *)
(* cut short; then the documents stored for a posting: what is stored is   *)
(* told by a fact, is numbered without gaps, is what the tracker files and *)
(* is read whole when exported, for any drafts, profiles, answers and any  *)
(* number of requests that write at once.                                  *)
(***************************************************************************)
EXTENDS TrackedApplications, GeneratedDocuments, SequenceTheorems,
        FiniteSetTheorems, WellFoundedInduction, TLAPS

Moving == {"reading_history", "tracked_reread", "tracked_flush"}

\* What a request holds at each await.
RequestsHoldTheirData ==
  \A p \in Requests :
    /\ pc[p] = "adding" => tKey[p] \in SubmissionKeys
    /\ pc[p] \in Moving =>
         /\ tTarget[p] \in ApplicationIds
         /\ Exists(tTarget[p])
         /\ tMove[p] \in Statuses
         /\ tStatus[p] \in Statuses

\* A row that was added has a status, one that was not has none.
RowsAreWhole ==
  \A i \in ApplicationIds : Exists(i) <=> applications[i].status \in Statuses

TypeInv == TypeOK /\ RequestsHoldTheirData /\ RowsAreWhole

-----------------------------------------------------------------------------
(* Types *)

LEMMA NoneIsNoStatus == "none" \notin Statuses
  BY DEF Statuses

LEMMA InitTyped == Init => TypeInv
  <1> SUFFICES ASSUME Init PROVE TypeInv
    OBVIOUS
  <1>1. pc = [p \in Requests |-> "idle"] /\ overlapped = FALSE
    BY DEF Init, InitServing
  <1>2. NoApplication \in ApplicationRow
    BY DEF NoApplication, ApplicationRow
  <1>3. TypeOK
    <2>1. pc \in [Requests -> Labels] /\ overlapped \in BOOLEAN
      BY <1>1 DEF Labels
    <2>2. /\ events \in [ApplicationIds -> Seq(Event)]
          /\ tHistory \in [Requests -> Seq(Event)]
      BY DEF Init
    <2> QED BY <2>1, <2>2, <1>2 DEF Init, TypeOK
  <1>4. RequestsHoldTheirData /\ RowsAreWhole
    BY <1>1, NoneIsNoStatus
       DEF Init, RequestsHoldTheirData, RowsAreWhole, Exists, NoApplication, Moving
  <1> QED BY <1>3, <1>4 DEF TypeInv

LEMMA ExtendedIsHistory ==
  ASSUME NEW stored \in Seq(Event), NEW carried \in Seq(Event)
  PROVE  Extended(stored, carried) \in Seq(Event)
  <1>1. CASE Len(stored) < Len(carried)
    <2>1. SubSeq(carried, Len(stored) + 1, Len(carried)) \in Seq(Event)
      BY <1>1
    <2> QED BY <1>1, <2>1 DEF Extended
  <1>2. CASE ~(Len(stored) < Len(carried))
    BY <1>2 DEF Extended
  <1> QED BY <1>1, <1>2

LEMMA SentIsEvent == Sent \in Event
  BY DEF Sent, Event, Statuses

\* Every step keeps the types, what requests hold and the rows whole.
LEMMA StepTyped == TypeInv /\ [Next]_vars => TypeInv'
  <1> SUFFICES ASSUME TypeInv, [Next]_vars
               PROVE  TypeInv'
    OBVIOUS
  <1> USE DEF TypeInv, TypeOK, RequestsHoldTheirData, RowsAreWhole, Exists,
              Labels, Ended, Moving, Goto
  <1>1. ASSUME NEW p \in Requests, NEW k \in SubmissionKeys, LogStart(p, k)
        PROVE  TypeInv'
    BY <1>1 DEF LogStart, MayStart
  <1>2. ASSUME NEW p \in Requests, NEW k \in SubmissionKeys, LogReplayed(p, k)
        PROVE  TypeInv'
    BY <1>2 DEF LogReplayed, MayStart, trackerVars
  <1>3. ASSUME NEW p \in Requests, NEW i \in ApplicationIds, AddApplication(p, i)
        PROVE  TypeInv'
    <2> DEFINE row == [key |-> tKey[p], status |-> "applied"]
    <2>1. row \in ApplicationRow /\ row.key # NoOne /\ row.status \in Statuses
      BY <1>3, NoOneIsNoKey DEF AddApplication, ApplicationRow, Statuses
    <2>2. <<Sent>> \in Seq(Event)
      BY SentIsEvent
    <2>3. /\ applications' = [applications EXCEPT ![i] = row]
          /\ events' = [events EXCEPT ![i] = <<Sent>>]
          /\ pc' = [pc EXCEPT ![p] = "ok"]
          /\ overlapped' \in BOOLEAN
          /\ UNCHANGED localVars
      BY <1>3 DEF AddApplication
    <2> HIDE DEF row
    <2> QED BY <2>1, <2>2, <2>3 DEF localVars
  <1>4. ASSUME NEW p \in Requests, AddApplicationConflicts(p)
        PROVE  TypeInv'
    BY <1>4 DEF AddApplicationConflicts, trackerVars
  <1>5. ASSUME NEW p \in Requests, NEW i \in ApplicationIds, NEW s \in Statuses,
               MoveStart(p, i, s)
        PROVE  TypeInv'
    BY <1>5 DEF MoveStart, MayStart
  <1>6. ASSUME NEW p \in Requests, MoveDecide(p)
        PROVE  TypeInv'
    <2> DEFINE move == [status |-> tMove[p], previous |-> tStatus[p]]
               carried == Append(events[tTarget[p]], move)
    <2>1. move \in Event
      BY <1>6 DEF MoveDecide, Event
    <2>2. carried \in Seq(Event)
      BY <1>6, <2>1 DEF MoveDecide
    <2>3. /\ tHistory' = [tHistory EXCEPT ![p] = carried]
          /\ pc' = [pc EXCEPT ![p] = "tracked_reread"]
          /\ overlapped' \in BOOLEAN
          /\ UNCHANGED <<applications, events, tKey, tTarget, tMove, tStatus>>
          /\ pc[p] = "reading_history"
      BY <1>6 DEF MoveDecide
    <2> HIDE DEF carried
    <2> QED BY <2>2, <2>3
  <1>7. ASSUME NEW p \in Requests, MoveRefused(p)
        PROVE  TypeInv'
    BY <1>7 DEF MoveRefused, trackerVars
  <1>8. ASSUME NEW p \in Requests, RereadApplication(p)
        PROVE  TypeInv'
    BY <1>8 DEF RereadApplication, ApplicationRow
  <1>9. ASSUME NEW p \in Requests, FlushApplication(p)
        PROVE  TypeInv'
    <2> DEFINE i == tTarget[p]
               new == Written(applications[i].status, tStatus[p], tMove[p])
               row == [applications[i] EXCEPT !.status = new]
               history == Extended(events[i], tHistory[p])
    <2>1. i \in ApplicationIds /\ Exists(i) /\ pc[p] = "tracked_flush"
      BY <1>9 DEF FlushApplication
    <2>2. new \in Statuses
      BY <2>1 DEF Written
    <2>3. /\ row \in ApplicationRow
          /\ row.key = applications[i].key
          /\ row.status \in Statuses
      BY <2>1, <2>2 DEF ApplicationRow
    <2>4. history \in Seq(Event)
      BY <2>1, ExtendedIsHistory
    <2>5. /\ applications' = [applications EXCEPT ![i] = row]
          /\ events' = [events EXCEPT ![i] = history]
          /\ pc' = [pc EXCEPT ![p] = "ok"]
          /\ overlapped' \in BOOLEAN
          /\ UNCHANGED localVars
      BY <1>9 DEF FlushApplication
    <2> HIDE DEF i, row, history
    <2> QED BY <2>1, <2>3, <2>4, <2>5 DEF localVars
  <1>10. ASSUME NEW p \in Requests, Die(p)
         PROVE  TypeInv'
    BY <1>10 DEF Die, CutShort, trackerVars
  <1>11. CASE UNCHANGED vars
    BY <1>11 DEF vars, serving, trackerVars
  <1> QED
    BY <1>1, <1>2, <1>3, <1>4, <1>5, <1>6, <1>7, <1>8, <1>9, <1>10, <1>11
       DEF Next, Step

\* The tracker's state and the requests' keep their types.
THEOREM TypeCorrect == Spec => []TypeOK
  <1>1. TypeInv => TypeOK
    BY DEF TypeInv
  <1> QED BY InitTyped, StepTyped, <1>1, PTL DEF Spec

LEMMA TypeInvHolds == Spec => []TypeInv
  BY InitTyped, StepTyped, PTL DEF Spec

-----------------------------------------------------------------------------
(* One record per submission *)

\* The key a row has never changes, and only a free one is given to a new
\* row.
LEMMA StepKeepsRecordsUnique ==
  TypeInv /\ OneRecordPerSubmission /\ [Next]_vars => OneRecordPerSubmission'
  <1> SUFFICES ASSUME TypeInv, OneRecordPerSubmission, [Next]_vars
               PROVE  OneRecordPerSubmission'
    OBVIOUS
  <1> USE DEF TypeInv, TypeOK, OneRecordPerSubmission, Exists
  <1>1. ASSUME NEW p \in Requests, NEW i \in ApplicationIds, AddApplication(p, i)
        PROVE  OneRecordPerSubmission'
    BY <1>1 DEF AddApplication, KeyIsFree, IsLogged
  <1>2. ASSUME NEW p \in Requests, FlushApplication(p)
        PROVE  OneRecordPerSubmission'
    <2>1. tTarget[p] \in ApplicationIds
      BY <1>2 DEF FlushApplication, RequestsHoldTheirData, Moving
    <2>2. \A i \in ApplicationIds : applications'[i].key = applications[i].key
      BY <1>2, <2>1 DEF FlushApplication, ApplicationRow
    <2> QED BY <2>2
  <1>3. CASE UNCHANGED applications
    BY <1>3
  <1> QED
    BY <1>1, <1>2, <1>3
       DEF Next, Step, LogStart, LogReplayed, AddApplicationConflicts, MoveStart,
           MoveDecide, MoveRefused, RereadApplication, Die, vars, serving, trackerVars

\* A submission is one tracked application, however often and however
\* concurrently it is logged.
THEOREM RecordedOnce == Spec => []OneRecordPerSubmission
  <1>1. Init => OneRecordPerSubmission
    BY DEF Init, OneRecordPerSubmission, Exists, NoApplication
  <1> QED BY <1>1, TypeInvHolds, StepKeepsRecordsUnique, PTL DEF Spec

-----------------------------------------------------------------------------
(* The history is a legal walk *)

\* The history a moving request carries: what was stored when it read, and
\* one move on from there.
Carries(p) ==
  LET stored == events[tTarget[p]]
      carried == tHistory[p]
      read == Len(carried) - 1
  IN /\ LegalWalk(carried)
     /\ read \in 1 .. Len(stored)
     /\ \A n \in 1 .. read : carried[n] = stored[n]

WalkInv ==
  /\ TypeInv
  /\ HistoryIsLegalWalk
  /\ \A p \in Requests : pc[p] \in {"tracked_reread", "tracked_flush"} => Carries(p)
  /\ \A i \in ApplicationIds : Exists(i) <=> events[i] # <<>>

\* Appending an allowed move to a legal walk gives a legal walk.
LEMMA MoveExtendsWalk ==
  ASSUME NEW history \in Seq(Event), LegalWalk(history),
         NEW s \in Allowed[Latest(history)]
  PROVE  LegalWalk(Append(history, [status |-> s, previous |-> Latest(history)]))
  <1> DEFINE move == [status |-> s, previous |-> Latest(history)]
             longer == Append(history, move)
  <1>1. Len(history) \in Nat /\ Len(history) # 0
    BY DEF LegalWalk, ChainHolds
  <1>2. /\ Len(longer) = Len(history) + 1
        /\ \A n \in 1 .. Len(history) : longer[n] = history[n]
        /\ longer[Len(history) + 1] = move
    OBVIOUS
  <1>3. longer # <<>> /\ longer[1] = history[1]
    BY <1>1, <1>2
  <1>4. ASSUME NEW n \in 2 .. Len(longer)
        PROVE  /\ longer[n].previous = longer[n - 1].status
               /\ longer[n].status \in Allowed[longer[n - 1].status]
    <2>1. CASE n \in 2 .. Len(history)
      <3>1. longer[n] = history[n] /\ longer[n - 1] = history[n - 1]
        BY <1>2, <2>1
      <3> QED BY <3>1, <2>1 DEF LegalWalk, ChainHolds
    <2>2. CASE n = Len(history) + 1
      <3>1. longer[n] = move /\ longer[n - 1] = history[Len(history)]
        BY <1>1, <1>2, <2>2
      <3> QED BY <3>1 DEF Latest
    <2> QED BY <1>1, <1>2, <1>4, <2>1, <2>2
  <1>5. LegalWalk(longer)
    <2> HIDE DEF longer
    <2> QED BY <1>3, <1>4 DEF LegalWalk, ChainHolds
  <1> QED BY <1>5

\* What a flush leaves stored is either what was stored or, if nothing was
\* appended since the request read, what the request carries.
LEMMA FlushedHistory ==
  ASSUME NEW stored \in Seq(Event), NEW carried \in Seq(Event),
         Len(carried) - 1 \in 1 .. Len(stored),
         \A n \in 1 .. Len(carried) - 1 : carried[n] = stored[n]
  PROVE  \/ /\ Extended(stored, carried) = stored
            /\ Len(carried) <= Len(stored)
         \/ /\ Extended(stored, carried) = carried
            /\ Len(carried) = Len(stored) + 1
  <1>1. CASE Len(stored) < Len(carried)
    <2>1. Len(carried) = Len(stored) + 1
      BY <1>1
    <2> DEFINE tail == SubSeq(carried, Len(stored) + 1, Len(carried))
    <2>2. /\ tail \in Seq(Event)
          /\ Len(tail) = 1
          /\ tail[1] = carried[Len(stored) + 1]
      BY <2>1, SubSeqProperties
    <2>3. Extended(stored, carried) = stored \o tail
      BY <1>1 DEF Extended
    <2> HIDE DEF tail
    <2>4. /\ stored \o tail \in Seq(Event)
          /\ Len(stored \o tail) = Len(stored) + 1
          /\ \A n \in 1 .. Len(stored) + 1 :
               (stored \o tail)[n] =
                 IF n <= Len(stored) THEN stored[n] ELSE tail[n - Len(stored)]
      BY <2>2, ConcatProperties, SMTT(60)
    <2>5. ASSUME NEW n \in 1 .. Len(carried)
          PROVE  (stored \o tail)[n] = carried[n]
      <3>1. CASE n <= Len(stored)
        BY <2>1, <2>4, <3>1
      <3>2. CASE n = Len(stored) + 1
        BY <2>2, <2>4, <3>2
      <3>3. n <= Len(stored) \/ n = Len(stored) + 1
        BY <2>1
      <3> QED BY <3>1, <3>2, <3>3
    <2>6. stored \o tail = carried
      BY <2>1, <2>4, <2>5, SeqEqual
    <2> QED BY <2>1, <2>3, <2>6
  <1>2. CASE ~(Len(stored) < Len(carried))
    BY <1>2 DEF Extended
  <1> QED BY <1>1, <1>2

LEMMA InitWalks == Init => WalkInv
  <1> SUFFICES ASSUME Init PROVE WalkInv
    OBVIOUS
  <1>1. \A p \in Requests : pc[p] = "idle"
    BY DEF Init, InitServing
  <1>2. \A i \in ApplicationIds : ~Exists(i) /\ events[i] = <<>>
    BY DEF Init, Exists, NoApplication
  <1> QED BY <1>1, <1>2, InitTyped DEF WalkInv, HistoryIsLegalWalk

LEMMA StepWalks == WalkInv /\ [Next]_vars => WalkInv'
  <1> SUFFICES ASSUME WalkInv, [Next]_vars
               PROVE  WalkInv'
    OBVIOUS
  <1>t. TypeInv /\ TypeInv'
    BY StepTyped DEF WalkInv
  <1> DEFINE Carrying == {"tracked_reread", "tracked_flush"}
  \* The steps that touch neither rows nor histories and make no request
  \* carry a history.
  <1>1. ASSUME UNCHANGED <<applications, events>>,
               \A q \in Requests :
                 pc'[q] \in Carrying =>
                   /\ pc[q] \in Carrying
                   /\ tTarget'[q] = tTarget[q]
                   /\ tHistory'[q] = tHistory[q]
        PROVE  WalkInv'
    BY <1>1, <1>t DEF WalkInv, HistoryIsLegalWalk, Exists, Carries
  <1>2. ASSUME NEW p \in Requests, NEW i \in ApplicationIds, AddApplication(p, i)
        PROVE  WalkInv'
    <2>1. /\ ~Exists(i)
          /\ events' = [events EXCEPT ![i] = <<Sent>>]
          /\ applications' =
               [applications EXCEPT ![i] = [key |-> tKey[p], status |-> "applied"]]
          /\ UNCHANGED localVars
          /\ tKey[p] # NoOne
          /\ pc' = [pc EXCEPT ![p] = "ok"]
      BY <1>2, <1>t, NoOneIsNoKey
         DEF AddApplication, TypeInv, RequestsHoldTheirData, Goto
    <2>2. LegalWalk(<<Sent>>)
      BY DEF LegalWalk, ChainHolds, Sent
    <2>3. \A j \in ApplicationIds \ {i} :
            events'[j] = events[j] /\ (Exists(j)' <=> Exists(j))
      BY <2>1, <1>t DEF TypeInv, TypeOK, Exists
    <2>4. events'[i] = <<Sent>> /\ Exists(i)'
      BY <2>1, <1>t DEF TypeInv, TypeOK, Exists
    <2>5. ASSUME NEW q \in Requests, pc'[q] \in Carrying
          PROVE  Carries(q)'
      <3>1. pc[q] \in Carrying /\ tTarget'[q] = tTarget[q] /\ tHistory'[q] = tHistory[q]
        BY <2>1, <2>5, <1>t DEF localVars, TypeInv, TypeOK
      <3>2. tTarget[q] \in ApplicationIds /\ Exists(tTarget[q])
        BY <3>1, <1>t DEF TypeInv, RequestsHoldTheirData, Moving
      <3>3. events'[tTarget[q]] = events[tTarget[q]]
        BY <2>1, <2>3, <3>2
      <3> QED BY <3>1, <3>3 DEF WalkInv, Carries
    <2> QED BY <1>t, <2>2, <2>3, <2>4, <2>5 DEF WalkInv, HistoryIsLegalWalk
  <1>3. ASSUME NEW p \in Requests, MoveDecide(p)
        PROVE  WalkInv'
    <2> DEFINE stored == events[tTarget[p]]
               carried == Append(stored, [status |-> tMove[p],
                                          previous |-> tStatus[p]])
    <2>1. /\ pc[p] = "reading_history"
          /\ tHistory' = [tHistory EXCEPT ![p] = carried]
          /\ pc' = [pc EXCEPT ![p] = "tracked_reread"]
          /\ UNCHANGED <<applications, events, tTarget>>
          /\ Latest(stored) = tStatus[p]
          /\ tMove[p] \in Allowed[tStatus[p]]
      BY <1>3 DEF MoveDecide, MoveAllowed, Consistent, Goto
    <2>2. tTarget[p] \in ApplicationIds /\ Exists(tTarget[p]) /\ stored \in Seq(Event)
      BY <2>1, <1>t DEF TypeInv, TypeOK, RequestsHoldTheirData, Moving
    <2>3. LegalWalk(carried)
      BY <2>1, <2>2, MoveExtendsWalk DEF WalkInv, HistoryIsLegalWalk
    <2>4. stored # <<>>
      BY <2>2 DEF WalkInv
    <2>5. /\ Len(carried) - 1 \in 1 .. Len(stored)
          /\ \A n \in 1 .. Len(carried) - 1 : carried[n] = stored[n]
      BY <2>2, <2>4
    <2>6. tHistory'[p] = carried /\ events'[tTarget'[p]] = stored
      BY <2>1, <1>t DEF TypeInv, TypeOK
    <2>7. Carries(p)'
      <3> HIDE DEF carried, stored
      <3> QED BY <2>3, <2>5, <2>6 DEF Carries
    <2>8. ASSUME NEW q \in Requests, q # p, pc'[q] \in Carrying
          PROVE  Carries(q)'
      <3>1. pc[q] \in Carrying /\ tHistory'[q] = tHistory[q]
        BY <2>1, <2>8, <1>t DEF TypeInv, TypeOK
      <3> QED BY <2>1, <3>1 DEF WalkInv, Carries
    <2> QED BY <1>t, <2>1, <2>7, <2>8 DEF WalkInv, HistoryIsLegalWalk, Exists
  <1>4. ASSUME NEW p \in Requests, FlushApplication(p)
        PROVE  WalkInv'
    <2> DEFINE i == tTarget[p]
               new == Extended(events[i], tHistory[p])
    <2>1. /\ pc[p] = "tracked_flush"
          /\ events' = [events EXCEPT ![i] = new]
          /\ pc' = [pc EXCEPT ![p] = "ok"]
          /\ UNCHANGED localVars
      BY <1>4 DEF FlushApplication, Goto
    <2>2. i \in ApplicationIds /\ Exists(i) /\ events[i] \in Seq(Event)
          /\ tHistory[p] \in Seq(Event) /\ Carries(p)
      BY <2>1, <1>t DEF TypeInv, TypeOK, RequestsHoldTheirData, Moving, WalkInv
    <2>3. \/ new = events[i]
          \/ new = tHistory[p] /\ Len(tHistory[p]) = Len(events[i]) + 1
      BY <2>2, FlushedHistory DEF Carries
    <2>4. LegalWalk(new) /\ new # <<>>
      <3>1. LegalWalk(events[i]) /\ LegalWalk(tHistory[p])
        BY <2>2 DEF WalkInv, HistoryIsLegalWalk, Carries
      <3>2. LegalWalk(new)
        BY <2>3, <3>1
      <3> QED BY <3>2 DEF LegalWalk, ChainHolds
    <2>5. \A j \in ApplicationIds : Exists(j)' <=> Exists(j)
      BY <1>4, <2>2, <1>t DEF FlushApplication, TypeInv, TypeOK, ApplicationRow, Exists
    <2>6. /\ events'[i] = new
          /\ \A j \in ApplicationIds \ {i} : events'[j] = events[j]
      BY <2>1, <2>2, <1>t DEF TypeInv, TypeOK
    <2>7. ASSUME NEW q \in Requests, pc'[q] \in Carrying
          PROVE  Carries(q)'
      <3>1. pc[q] \in Carrying /\ tTarget'[q] = tTarget[q] /\ tHistory'[q] = tHistory[q]
        BY <2>1, <2>7, <1>t DEF localVars, TypeInv, TypeOK
      <3>2. tTarget[q] \in ApplicationIds /\ Carries(q)
        BY <3>1, <1>t DEF TypeInv, RequestsHoldTheirData, Moving, WalkInv
      <3>3. CASE tTarget[q] # i
        BY <2>6, <3>1, <3>2, <3>3 DEF Carries
      <3>4. CASE tTarget[q] = i /\ new = events[i]
        BY <2>6, <3>1, <3>2, <3>4 DEF Carries
      <3>5. CASE /\ tTarget[q] = i
                 /\ new = tHistory[p]
                 /\ Len(tHistory[p]) = Len(events[i]) + 1
        <4>1. /\ Len(events'[i]) = Len(events[i]) + 1
              /\ \A n \in 1 .. Len(events[i]) : events'[i][n] = events[i][n]
          BY <2>2, <2>6, <3>5 DEF Carries
        <4>2. /\ LegalWalk(tHistory[q])
              /\ Len(tHistory[q]) - 1 \in 1 .. Len(events[i])
              /\ \A n \in 1 .. Len(tHistory[q]) - 1 : tHistory[q][n] = events[i][n]
          BY <3>2, <3>5 DEF Carries
        <4>3. /\ Len(tHistory[q]) - 1 \in 1 .. Len(events'[i])
              /\ \A n \in 1 .. Len(tHistory[q]) - 1 : tHistory[q][n] = events'[i][n]
          BY <2>2, <4>1, <4>2
        <4> HIDE DEF i, new
        <4> QED BY <3>1, <3>5, <4>2, <4>3 DEF Carries
      <3> QED BY <2>3, <3>3, <3>4, <3>5
    <2> HIDE DEF i, new
    <2> QED BY <1>t, <2>2, <2>4, <2>5, <2>6, <2>7 DEF WalkInv, HistoryIsLegalWalk
  <1>5. ASSUME NEW p \in Requests, NEW k \in SubmissionKeys,
               LogStart(p, k) \/ LogReplayed(p, k)
        PROVE  WalkInv'
    BY <1>1, <1>5, <1>t DEF LogStart, LogReplayed, Goto, trackerVars, TypeInv, TypeOK
  <1>6. ASSUME NEW p \in Requests,
               AddApplicationConflicts(p) \/ MoveRefused(p) \/ Die(p)
        PROVE  WalkInv'
    BY <1>1, <1>6, <1>t
       DEF AddApplicationConflicts, MoveRefused, Die, CutShort, Goto, trackerVars,
           TypeInv, TypeOK
  <1>7. ASSUME NEW p \in Requests, NEW i \in ApplicationIds, NEW s \in Statuses,
               MoveStart(p, i, s)
        PROVE  WalkInv'
    BY <1>1, <1>7, <1>t DEF MoveStart, Goto, TypeInv, TypeOK
  <1>8. ASSUME NEW p \in Requests, RereadApplication(p)
        PROVE  WalkInv'
    BY <1>1, <1>8, <1>t DEF RereadApplication, Goto, TypeInv, TypeOK
  <1>9. CASE UNCHANGED vars
    BY <1>1, <1>9 DEF vars, serving, trackerVars
  <1> QED
    BY <1>2, <1>3, <1>4, <1>5, <1>6, <1>7, <1>8, <1>9 DEF Next, Step

\* However moves overlap, each stored history is one legal walk.
THEOREM WalkIsLegal == Spec => []HistoryIsLegalWalk
  <1>1. WalkInv => HistoryIsLegalWalk
    BY DEF WalkInv
  <1> QED BY InitWalks, StepWalks, <1>1, PTL DEF Spec

-----------------------------------------------------------------------------
(* The tracker implements the status walk *)

\* The abstract status of an application: where its history ends.
Reached == [i \in ApplicationIds |->
              IF events[i] = <<>> THEN "none" ELSE Latest(events[i])]

LEMMA LatestIsStatus ==
  ASSUME NEW history \in Seq(Event), history # <<>>
  PROVE  Latest(history) \in Statuses
  <1>1. history[Len(history)] \in Event
    OBVIOUS
  <1> QED BY <1>1 DEF Latest, Event

\* The last entry of a legal walk is an allowed move from the walk before it.
LEMMA LastMoveIsAllowed ==
  ASSUME NEW stored \in Seq(Event), stored # <<>>,
         NEW carried \in Seq(Event), LegalWalk(carried),
         Len(carried) = Len(stored) + 1,
         \A n \in 1 .. Len(carried) - 1 : carried[n] = stored[n]
  PROVE  carried # <<>> /\ Latest(carried) \in Allowed[Latest(stored)]
  <1>1. Len(stored) \in 1 .. Len(carried) - 1 /\ Len(carried) \in 2 .. Len(carried)
    OBVIOUS
  <1>2. carried[Len(carried)].status \in Allowed[carried[Len(carried) - 1].status]
    BY <1>1 DEF LegalWalk
  <1>3. carried[Len(carried) - 1] = stored[Len(stored)]
    BY <1>1
  <1> QED BY <1>1, <1>2, <1>3 DEF Latest

\* Adding an application sends it; a flush that appends moves it along; and
\* every other step leaves every history alone.
LEMMA StepImplementsWalk ==
  WalkInv /\ [Next]_vars => Walk!Next \/ UNCHANGED Reached
  <1> SUFFICES ASSUME WalkInv, [Next]_vars
               PROVE  Walk!Next \/ UNCHANGED Reached
    OBVIOUS
  <1>1. ASSUME NEW p \in Requests, NEW i \in ApplicationIds, AddApplication(p, i)
        PROVE  Walk!Next
    <2>1. events[i] = <<>> /\ events' = [events EXCEPT ![i] = <<Sent>>]
      BY <1>1 DEF AddApplication, WalkInv
    <2>2. <<Sent>> # <<>> /\ Latest(<<Sent>>) = "applied"
      BY DEF Latest, Sent
    <2>3. Reached[i] = "none" /\ Reached' = [Reached EXCEPT ![i] = "applied"]
      BY <2>1, <2>2 DEF Reached, WalkInv, TypeInv, TypeOK
    <2> QED BY <2>3 DEF Reached, Walk!Next, Walk!Send
  <1>2. ASSUME NEW p \in Requests, FlushApplication(p)
        PROVE  Walk!Next \/ UNCHANGED Reached
    <2> DEFINE i == tTarget[p]
               new == Extended(events[i], tHistory[p])
    <2>1. i \in ApplicationIds /\ events[i] \in Seq(Event) /\ events[i] # <<>>
          /\ tHistory[p] \in Seq(Event) /\ Carries(p)
      BY <1>2 DEF FlushApplication, WalkInv, TypeInv, TypeOK,
                  RequestsHoldTheirData, Moving
    <2>2. events' = [events EXCEPT ![i] = new] /\ events \in [ApplicationIds -> Seq(Event)]
      BY <1>2 DEF FlushApplication, WalkInv, TypeInv, TypeOK
    <2>3. CASE new = events[i]
      BY <2>1, <2>2, <2>3 DEF Reached
    <2>4. CASE new = tHistory[p] /\ Len(tHistory[p]) = Len(events[i]) + 1
      <3>1. new # <<>> /\ Latest(new) \in Allowed[Latest(events[i])]
        BY <2>1, <2>4, LastMoveIsAllowed DEF Carries
      <3>2. Reached[i] = Latest(events[i])
        BY <2>1 DEF Reached
      <3>3. Reached' = [Reached EXCEPT ![i] = Latest(new)]
        <4> HIDE DEF new, i
        <4> QED BY <2>1, <2>2, <3>1 DEF Reached
      <3>4. Latest(events[i]) # "none"
        BY <2>1, NoneIsNoStatus, LatestIsStatus
      <3> HIDE DEF new, i
      <3>5. Walk!Move(i)
        BY <3>1, <3>2, <3>3, <3>4 DEF Walk!Move, Reached
      <3> QED BY <2>1, <3>5 DEF Walk!Next, Walk!Move
    <2> QED BY <2>1, <2>3, <2>4, FlushedHistory DEF Carries
  <1>3. CASE UNCHANGED events
    BY <1>3 DEF Reached
  <1> QED
    BY <1>1, <1>2, <1>3
       DEF Next, Step, LogStart, LogReplayed, AddApplicationConflicts, MoveStart,
           MoveDecide, MoveRefused, RereadApplication, Die, vars, serving, trackerVars

\* By its history every application takes the abstract walk.
THEOREM WalkImplemented == Spec => ImplementsStatusWalk
  <1>1. Init => Walk!Init
    BY DEF Init, Walk!Init
  <1>2. WalkInv /\ [Next]_vars => [Walk!Next]_Reached
    BY StepImplementsWalk
  <1> QED BY <1>1, <1>2, InitWalks, StepWalks, PTL
          DEF Spec, ImplementsStatusWalk, Walk!Spec, Reached

-----------------------------------------------------------------------------
(* Status and history agree while requests do not overlap *)

\* One request at a time, and what it read is still what is stored.
SerialInv ==
  /\ WalkInv
  /\ StatusMatchesHistory
  /\ \A p, q \in Requests : InFlight(p) /\ InFlight(q) => p = q
  /\ \A p \in Requests :
       LET i == tTarget[p] IN
         /\ pc[p] = "tracked_flush" => tStatus[p] = applications[i].status
         /\ pc[p] \in {"tracked_reread", "tracked_flush"} =>
              /\ Len(tHistory[p]) = Len(events[i]) + 1
              /\ Latest(tHistory[p]) = tMove[p]

LEMMA InitSerial == Init => SerialInv
  BY InitWalks
     DEF Init, InitServing, SerialInv, StatusMatchesHistory, Exists, NoApplication,
         InFlight, Ended

LEMMA StepSerial ==
  ASSUME SerialInv, [Next]_vars, ~overlapped'
  PROVE  SerialInv'
  <1>w. WalkInv /\ WalkInv' /\ TypeInv /\ TypeInv'
    BY StepWalks, StepTyped DEF SerialInv, WalkInv
  <1> DEFINE Carrying == {"tracked_reread", "tracked_flush"}
  \* While p is being served nobody else is.
  <1>a. ASSUME NEW p \in Requests, NEW label, Goto(p, label),
               InFlight(p) \/ MayStart(p)
        PROVE  /\ \A q \in Requests : InFlight(q)' => q = p
               /\ \A q \in Requests : pc'[q] \in Carrying => q = p
    <2>1. \A q \in Requests : InFlight(q) => q = p
      BY <1>a DEF MayStart, SerialInv, Goto
    <2>2. \A q \in Requests : q # p => pc'[q] = pc[q]
      BY <1>a, <1>w DEF TypeInv, TypeOK, Goto
    <2> QED BY <2>1, <2>2 DEF InFlight, Ended
  \* The steps that store nothing and make no request carry a history.
  <1>1. ASSUME NEW p \in Requests, NEW label, Goto(p, label),
               InFlight(p) \/ MayStart(p),
               UNCHANGED <<applications, events>>, label \notin Carrying
        PROVE  SerialInv'
    <2>1. pc'[p] = label
      BY <1>1, <1>w DEF Goto, TypeInv, TypeOK
    <2> QED BY <1>1, <2>1, <1>a, <1>w DEF SerialInv, StatusMatchesHistory, Exists
  <1>2. ASSUME NEW p \in Requests, NEW i \in ApplicationIds, AddApplication(p, i)
        PROVE  SerialInv'
    <2>1. Goto(p, "ok") /\ InFlight(p)
      BY <1>2 DEF AddApplication, InFlight, Ended
    <2>2. pc'[p] = "ok"
      BY <2>1, <1>w DEF TypeInv, TypeOK, Goto
    <2>3. StatusMatchesHistory'
      <3>1. /\ applications' =
                  [applications EXCEPT ![i] = [key |-> tKey[p], status |-> "applied"]]
            /\ events' = [events EXCEPT ![i] = <<Sent>>]
        BY <1>2 DEF AddApplication
      <3>2. Latest(<<Sent>>) = "applied"
        BY DEF Latest, Sent
      <3> QED BY <3>1, <3>2, <1>w
              DEF SerialInv, StatusMatchesHistory, TypeInv, TypeOK, Exists
    <2> QED BY <2>1, <2>2, <2>3, <1>a, <1>w DEF SerialInv
  <1>3. ASSUME NEW p \in Requests, MoveDecide(p)
        PROVE  SerialInv'
    <2> DEFINE stored == events[tTarget[p]]
               move == [status |-> tMove[p], previous |-> tStatus[p]]
               carried == Append(stored, move)
    <2>1. /\ Goto(p, "tracked_reread")
          /\ tHistory' = [tHistory EXCEPT ![p] = carried]
          /\ UNCHANGED <<applications, events, tTarget, tMove, tStatus>>
          /\ InFlight(p)
          /\ pc[p] = "reading_history"
      BY <1>3 DEF MoveDecide, InFlight, Ended
    <2>2. stored \in Seq(Event)
      BY <2>1, <1>w DEF TypeInv, TypeOK, RequestsHoldTheirData, Moving
    <2>3. Len(carried) = Len(stored) + 1 /\ Latest(carried) = tMove[p]
      BY <2>2 DEF Latest
    <2>4. pc'[p] = "tracked_reread" /\ tHistory'[p] = carried
      BY <2>1, <1>w DEF TypeInv, TypeOK, Goto
    <2> HIDE DEF carried
    <2> QED BY <2>1, <2>3, <2>4, <1>a, <1>w DEF SerialInv, StatusMatchesHistory, Exists
  <1>4. ASSUME NEW p \in Requests, RereadApplication(p)
        PROVE  SerialInv'
    <2>1. /\ pc[p] = "tracked_reread"
          /\ Goto(p, "tracked_flush")
          /\ tStatus' = [tStatus EXCEPT ![p] = applications[tTarget[p]].status]
          /\ UNCHANGED <<applications, events, tTarget, tMove, tHistory>>
          /\ InFlight(p)
      BY <1>4 DEF RereadApplication, InFlight, Ended
    <2>2. pc'[p] = "tracked_flush" /\ tStatus'[p] = applications[tTarget[p]].status
      BY <2>1, <1>w DEF TypeInv, TypeOK, Goto
    <2> QED BY <2>1, <2>2, <1>a, <1>w DEF SerialInv, StatusMatchesHistory, Exists
  <1>5. ASSUME NEW p \in Requests, FlushApplication(p)
        PROVE  SerialInv'
    <2> DEFINE i == tTarget[p]
               new == Extended(events[i], tHistory[p])
    <2>1. /\ pc[p] = "tracked_flush"
          /\ Goto(p, "ok")
          /\ InFlight(p)
      BY <1>5 DEF FlushApplication, InFlight, Ended
    <2>2. pc'[p] = "ok"
      BY <2>1, <1>w DEF TypeInv, TypeOK, Goto
    <2>3. i \in ApplicationIds /\ events[i] \in Seq(Event) /\ tHistory[p] \in Seq(Event)
      BY <2>1, <1>w DEF TypeInv, TypeOK, RequestsHoldTheirData, Moving
    <2>4. /\ tStatus[p] = applications[i].status
          /\ Len(tHistory[p]) = Len(events[i]) + 1
          /\ Latest(tHistory[p]) = tMove[p]
      BY <2>1 DEF SerialInv
    <2>5. Carries(p)
      BY <2>1, <1>w DEF WalkInv
    <2>6. new = tHistory[p]
      <3>1. ~(Len(tHistory[p]) <= Len(events[i]))
        BY <2>3, <2>4
      <3> QED BY <3>1, <2>3, <2>5, FlushedHistory DEF Carries
    <2>7. /\ applications'[i].status = tMove[p]
          /\ events'[i] = tHistory[p]
          /\ \A j \in ApplicationIds :
               /\ j # i => /\ applications'[j] = applications[j]
                           /\ events'[j] = events[j]
               /\ Exists(j)' => Exists(j)
      BY <1>5, <2>3, <2>4, <2>6, <1>w
         DEF FlushApplication, Written, TypeInv, TypeOK, ApplicationRow, Exists
    <2>8. StatusMatchesHistory'
      <3> HIDE DEF i, new
      <3> QED BY <2>4, <2>7 DEF SerialInv, StatusMatchesHistory
    <2> QED BY <2>1, <2>2, <2>8, <1>a, <1>w DEF SerialInv
  <1>6. ASSUME NEW p \in Requests, NEW k \in SubmissionKeys,
               LogStart(p, k) \/ LogReplayed(p, k)
        PROVE  SerialInv'
    BY <1>1, <1>6 DEF LogStart, LogReplayed, trackerVars
  <1>7. ASSUME NEW p \in Requests,
               AddApplicationConflicts(p) \/ MoveRefused(p) \/ Die(p)
        PROVE  SerialInv'
    BY <1>1, <1>7
       DEF AddApplicationConflicts, MoveRefused, Die, CutShort, trackerVars,
           InFlight, Ended
  <1>8. ASSUME NEW p \in Requests, NEW i \in ApplicationIds, NEW s \in Statuses,
               MoveStart(p, i, s)
        PROVE  SerialInv'
    BY <1>1, <1>8 DEF MoveStart
  <1>9. CASE UNCHANGED vars
    BY <1>9, <1>w DEF vars, serving, trackerVars, SerialInv, StatusMatchesHistory, Exists, InFlight
  <1> QED
    BY <1>2, <1>3, <1>4, <1>5, <1>6, <1>7, <1>8, <1>9 DEF Next, Step

LEMMA OverlapStays ==
  ASSUME [Next]_vars, ~overlapped'
  PROVE  ~overlapped
  BY DEF Next, Step, LogStart, LogReplayed, AddApplication,
         AddApplicationConflicts, MoveStart, MoveDecide, MoveRefused,
         RereadApplication, FlushApplication, Die, CutShort, Goto, vars, serving

\* Until requests overlap, the status on every row is the one its history
\* ends at.
THEOREM StatusAgreesSerially == Spec => []StatusMatchesSerially
  <1>1. Init => Serially(SerialInv)
    BY InitSerial DEF Serially
  <1>2. Serially(SerialInv) /\ [Next]_vars => Serially(SerialInv)'
    BY StepSerial, OverlapStays DEF Serially
  <1>3. Serially(SerialInv) => StatusMatchesSerially
    BY DEF Serially, SerialInv, StatusMatchesSerially
  <1> QED BY <1>1, <1>2, <1>3, PTL DEF Spec

-----------------------------------------------------------------------------
(* The inductive invariant *)

\* What StoredIsAttested says of one text.
Attested(content, sources, facts) ==
  LET claims == UNION {Claims(content[i]) : i \in DOMAIN content} IN
    /\ \A t \in claims : Told(t, facts) \/ InCorpus(t, Index(Context))
    /\ \E t \in claims : Told(t, facts)
    /\ sources # {}

\* Every fact there is was told, and so is all that a request is about to store.
AttestedInv ==
  /\ ProfileFacts(known) \subseteq said
  /\ {AnswerFact(m) : m \in remembered} \subseteq said
  /\ \A w \in Writers : writing[w].stage \in {"counting", "adding"} =>
       Attested(writing[w].content, writing[w].sources, said)
  /\ StoredIsAttested

Stages == {"idle", "profile read", "writing", "counting", "adding", "ended"}

Origins == {f.source : f \in said}

Requested == [stage : Stages, kind : DocumentKinds \cup {"none"}, facts : SUBSET said,
              content : Seq(Lines), sources : SUBSET Origins, counted : Nat]

RequestTypes == writing \in [Writers -> Requested]

\* A request that counted found no more versions than there are, unless an
\* erasure overtook it.
CountInv ==
  /\ IsFiniteSet(documents)
  /\ ~undercut => \A w \in Writers : writing[w].stage = "adding" =>
       writing[w].counted <= Cardinality(StoredVersions(writing[w].kind))
  /\ ~undercut => \A kind \in DocumentKinds \cup {"none"} :
       {d.version : d \in StoredVersions(kind)}
         = 1 .. Cardinality(StoredVersions(kind))

\* What a field took of a kind is what the pass found of it, and that is the
\* newest of its kind until one comes or goes; nothing is filed while a form
\* is being filled.
FiledInv ==
  /\ attached = [kind \in DocumentKinds |-> attached[kind]]
  /\ DOMAIN fetched \subseteq DocumentKinds
  /\ \A kind \in DocumentKinds : \A d \in attached[kind] :
       kind \in DOMAIN fetched /\ d = fetched[kind]
  /\ form = "filling" => filed = <<>>
  /\ \A kind \in DOMAIN fetched \ changed :
       /\ fetched[kind] = LatestVersion(kind)
       /\ filed # <<>> => filed[kind] = fetched[kind]

DocumentsInv == RequestTypes /\ AttestedInv /\ CountInv /\ FiledInv

-----------------------------------------------------------------------------
(* Texts *)

\* Every set of natural numbers has a least one.
LEMMA LeastNatural ==
  ASSUME NEW T, T \subseteq Nat, T # {}
  PROVE  \E n \in T : \A m \in T : n <= m
  <1> DEFINE R == {ss \in Nat \X Nat : ss[1] < ss[2]}
  <1>0. IsWellFoundedOn(R, Nat)
    BY NatLessThanWellFounded DEF OpToRel
  <1> HIDE DEF R
  <1>1. PICK n \in T : \A m \in T : ~(<<m, n>> \in R)
    BY <1>0, WFMin
  <1>2. ASSUME NEW m \in T PROVE n <= m
    <2>1. ~(m < n)
      BY <1>1 DEF R
    <2> QED BY <2>1
  <1> QED BY <1>2

\* What KeptAt computes on the way.
KeepsAt(lines, places, n, kept) ==
  kept = [k \in 0 .. n |->
            IF k = 0 THEN <<>>
            ELSE IF k \in places THEN Append(kept[k - 1], lines[k]) ELSE kept[k - 1]]

LEMMA KeepStep ==
  ASSUME NEW lines, NEW places, NEW n \in Nat, NEW kept, KeepsAt(lines, places, n, kept)
  PROVE  /\ kept[0] = <<>>
         /\ \A k \in 1 .. n :
              kept[k] = IF k \in places THEN Append(kept[k - 1], lines[k]) ELSE kept[k - 1]
  <1> DEFINE step == [k \in 0 .. n |->
                        IF k = 0 THEN <<>>
                        ELSE IF k \in places THEN Append(kept[k - 1], lines[k])
                             ELSE kept[k - 1]]
  <1>1. /\ step[0] = <<>>
        /\ \A k \in 1 .. n :
             step[k] = IF k \in places THEN Append(kept[k - 1], lines[k]) ELSE kept[k - 1]
    OBVIOUS
  <1>2. kept = step
    BY DEF KeepsAt
  <1> HIDE DEF step
  <1> QED BY <1>1, <1>2

\* That recursion defines something.
LEMMA KeepExists ==
  ASSUME NEW lines, NEW places, NEW n \in Nat
  PROVE  \E kept : KeepsAt(lines, places, n, kept)
  <1> DEFINE Missing == {m \in Nat : ~\E kept : KeepsAt(lines, places, m, kept)}
  <1>1. 0 \notin Missing
    <2>1. KeepsAt(lines, places, 0, [k \in 0 .. 0 |-> <<>>])
      BY DEF KeepsAt
    <2> QED BY <2>1
  <1>2. ASSUME NEW m \in Missing
        PROVE  m - 1 \in Missing
    <2>1. m \in Nat /\ m - 1 \in Nat /\ m # 0
      BY <1>1, <1>2
    <2>2. SUFFICES ASSUME NEW kept, KeepsAt(lines, places, m - 1, kept)
                   PROVE  FALSE
      BY <2>1
    <2>3. kept[0] = <<>> /\ \A k \in 1 .. m - 1 :
            kept[k] = IF k \in places THEN Append(kept[k - 1], lines[k]) ELSE kept[k - 1]
      BY <2>1, <2>2, KeepStep
    <2> DEFINE more == [k \in 0 .. m |->
                          IF k < m THEN kept[k]
                          ELSE IF m \in places THEN Append(kept[m - 1], lines[m])
                               ELSE kept[m - 1]]
    <2>4. ASSUME NEW k \in 0 .. m
          PROVE  more[k] = IF k = 0 THEN <<>>
                           ELSE IF k \in places THEN Append(more[k - 1], lines[k])
                                ELSE more[k - 1]
      <3>1. CASE k = 0
        BY <2>1, <2>3, <3>1
      <3>2. CASE k # 0 /\ k < m
        <4>1. k \in 1 .. m - 1 /\ k - 1 \in 0 .. m /\ k - 1 < m
          BY <2>1, <3>2
        <4>2. more[k] = kept[k] /\ more[k - 1] = kept[k - 1]
          BY <3>2, <4>1
        <4> QED BY <2>3, <3>2, <4>1, <4>2
      <3>3. CASE k = m
        BY <2>1, <3>3
      <3> QED BY <2>1, <3>1, <3>2, <3>3
    <2> HIDE DEF more
    <2>5. more = [k \in 0 .. m |-> more[k]]
      BY DEF more
    <2>6. KeepsAt(lines, places, m, more)
      BY <2>4, <2>5 DEF KeepsAt
    <2> QED BY <1>2, <2>6
  <1>3. Missing = {}
    <2>1. SUFFICES ASSUME Missing # {} PROVE FALSE
      OBVIOUS
    <2>2. PICK m \in Missing : \A k \in Missing : m <= k
      BY <2>1, LeastNatural
    <2>3. m - 1 \in Missing
      BY <1>2
    <2> QED BY <2>2, <2>3
  <1> QED BY <1>3

\* The lines of a text, in no order.
LinesOf(text) == {text[i] : i \in DOMAIN text}

LEMMA OneLineMore ==
  ASSUME NEW S, NEW text \in Seq(S), NEW line \in S
  PROVE  /\ Append(text, line) \in Seq(S)
         /\ LinesOf(Append(text, line)) = LinesOf(text) \cup {line}
  <1>1. /\ Append(text, line) \in Seq(S)
        /\ Len(Append(text, line)) = Len(text) + 1 /\ Len(text) \in Nat
        /\ \A i \in 1 .. Len(text) : Append(text, line)[i] = text[i]
        /\ Append(text, line)[Len(text) + 1] = line
    OBVIOUS
  <1>2. /\ DOMAIN Append(text, line) = 1 .. Len(text) + 1
        /\ DOMAIN text = 1 .. Len(text)
    BY <1>1
  <1>3. ASSUME NEW l \in LinesOf(Append(text, line))
        PROVE  l \in LinesOf(text) \cup {line}
    <2>1. PICK i \in DOMAIN Append(text, line) : l = Append(text, line)[i]
      BY DEF LinesOf
    <2>2. i \in 1 .. Len(text) \/ i = Len(text) + 1
      BY <1>1, <1>2
    <2> QED BY <1>1, <1>2, <2>1, <2>2 DEF LinesOf
  <1>4. ASSUME NEW i \in 1 .. Len(text)
        PROVE  text[i] \in LinesOf(Append(text, line))
    BY <1>1, <1>2 DEF LinesOf
  <1>5. line \in LinesOf(Append(text, line))
    BY <1>1, <1>2 DEF LinesOf
  <1> QED BY <1>1, <1>2, <1>3, <1>4, <1>5 DEF LinesOf

\* The lines kept of a text are those at the places asked for.
LEMMA KeptLines ==
  ASSUME NEW S, NEW text \in Seq(S), NEW places
  PROVE  /\ KeptAt(text, places) \in Seq(S)
         /\ LinesOf(KeptAt(text, places)) = {text[i] : i \in places \cap DOMAIN text}
  <1>0. Len(text) \in Nat /\ DOMAIN text = 1 .. Len(text)
    OBVIOUS
  <1> DEFINE kept == CHOOSE kept : KeepsAt(text, places, Len(text), kept)
  <1>1. KeepsAt(text, places, Len(text), kept)
    BY <1>0, KeepExists
  <1>2. KeptAt(text, places) = kept[Len(text)]
    BY DEF KeptAt, KeepsAt
  <1> HIDE DEF kept
  <1>3. kept[0] = <<>> /\ \A k \in 1 .. Len(text) :
          kept[k] = IF k \in places THEN Append(kept[k - 1], text[k]) ELSE kept[k - 1]
    BY <1>0, <1>1, KeepStep
  <1> DEFINE Right(n) == /\ kept[n] \in Seq(S)
                         /\ LinesOf(kept[n]) = {text[i] : i \in places \cap (1 .. n)}
             Wrong == {n \in Nat : n <= Len(text) /\ ~Right(n)}
  <1>4. Right(0)
    <2>1. kept[0] \in Seq(S) /\ LinesOf(kept[0]) = {}
      BY <1>3 DEF LinesOf
    <2> QED BY <2>1
  <1>5. ASSUME NEW n \in 1 .. Len(text), Right(n - 1)
        PROVE  Right(n)
    <2>1. text[n] \in S /\ n \in Nat
      BY <1>0
    <2>2. CASE n \in places
      <3>1. kept[n] = Append(kept[n - 1], text[n])
        BY <1>3, <2>2
      <3>2. kept[n] \in Seq(S) /\ LinesOf(kept[n]) = LinesOf(kept[n - 1]) \cup {text[n]}
        BY <1>5, <2>1, <3>1, OneLineMore
      <3>3. {text[i] : i \in places \cap (1 .. n)}
              = {text[i] : i \in places \cap (1 .. n - 1)} \cup {text[n]}
        <4>1. places \cap (1 .. n) = (places \cap (1 .. n - 1)) \cup {n}
          BY <2>1, <2>2
        <4> QED BY <4>1
      <3> QED BY <1>5, <3>2, <3>3
    <2>3. CASE n \notin places
      <3>1. kept[n] = kept[n - 1]
        BY <1>3, <2>3
      <3>2. places \cap (1 .. n) = places \cap (1 .. n - 1)
        BY <2>1, <2>3
      <3> QED BY <1>5, <3>1, <3>2
    <2> QED BY <2>2, <2>3
  <1> HIDE DEF Right
  <1>6. Wrong = {}
    <2>1. SUFFICES ASSUME Wrong # {} PROVE FALSE
      OBVIOUS
    <2>2. PICK n \in Wrong : \A k \in Wrong : n <= k
      BY <2>1, LeastNatural
    <2>3. n \in 1 .. Len(text) /\ n - 1 \in Nat /\ n - 1 <= Len(text)
      BY <1>0, <1>4
    <2>4. Right(n - 1)
      BY <2>2, <2>3
    <2> QED BY <1>5, <2>3, <2>4
  <1>7. Right(Len(text))
    BY <1>0, <1>6
  <1> QED BY <1>0, <1>2, <1>7 DEF Right

-----------------------------------------------------------------------------
(* The formatter *)

LEMMA CollapsedLines ==
  ASSUME NEW S, NEW lines \in Seq(S)
  PROVE  /\ CollapseBlankRuns(lines) \in Seq(S)
         /\ LinesOf(CollapseBlankRuns(lines)) \subseteq LinesOf(lines)
         /\ \A l \in LinesOf(lines) : l # Blank => l \in LinesOf(CollapseBlankRuns(lines))
  <1> DEFINE places == {i \in DOMAIN lines :
                          \/ lines[i] # Blank
                          \/ /\ i > 1 /\ lines[i - 1] # Blank
                             /\ \E j \in i .. Len(lines) : lines[j] # Blank}
  <1>1. CollapseBlankRuns(lines) = KeptAt(lines, places)
    BY DEF CollapseBlankRuns
  <1>2. /\ KeptAt(lines, places) \in Seq(S)
        /\ LinesOf(KeptAt(lines, places)) = {lines[i] : i \in places \cap DOMAIN lines}
    <2> HIDE DEF places
    <2> QED BY KeptLines
  <1>3. \A i \in DOMAIN lines : lines[i] # Blank => i \in places
    OBVIOUS
  <1> HIDE DEF places
  <1> QED BY <1>1, <1>2, <1>3 DEF LinesOf

\* Dropping a section drops its heading and blank lines, and nothing else.
LEMMA DroppedLines ==
  ASSUME NEW S, NEW lines \in Seq(S)
  PROVE  /\ DropEmptySections(lines) \in Seq(S)
         /\ LinesOf(DropEmptySections(lines)) \subseteq LinesOf(lines)
         /\ \A l \in LinesOf(lines) :
              l # Blank /\ ~IsHeading(l) => l \in LinesOf(DropEmptySections(lines))
  <1> DEFINE places == {i \in DOMAIN lines : IsHeading(lines[i]) => HasBody(lines, i)}
             kept == KeptAt(lines, places)
  <1>1. DropEmptySections(lines) = CollapseBlankRuns(kept)
    BY DEF DropEmptySections
  <1>2. \A i \in DOMAIN lines : ~IsHeading(lines[i]) => i \in places
    OBVIOUS
  <1> HIDE DEF places
  <1>3. /\ kept \in Seq(S)
        /\ LinesOf(kept) = {lines[i] : i \in places \cap DOMAIN lines}
    BY KeptLines
  <1> HIDE DEF kept
  <1>4. /\ CollapseBlankRuns(kept) \in Seq(S)
        /\ LinesOf(CollapseBlankRuns(kept)) \subseteq LinesOf(kept)
        /\ \A l \in LinesOf(kept) : l # Blank => l \in LinesOf(CollapseBlankRuns(kept))
    BY <1>3, CollapsedLines
  <1>5. LinesOf(kept) \subseteq LinesOf(lines)
    BY <1>3 DEF LinesOf
  <1>6. \A l \in LinesOf(lines) : ~IsHeading(l) => l \in LinesOf(kept)
    BY <1>2, <1>3 DEF LinesOf
  <1> QED BY <1>1, <1>4, <1>5, <1>6

LEMMA NormalizedIsText ==
  ASSUME NEW S, NEW text \in Seq(S)
  PROVE  NormalizePlainText(text) \in Seq(S)
  <1> DEFINE kept == KeptAt(text, {i \in DOMAIN text : text[i] # Rule})
  <1>1. kept \in Seq(S)
    BY KeptLines
  <1> HIDE DEF kept
  <1>2. CollapseBlankRuns(kept) \in Seq(S)
    BY <1>1, CollapsedLines
  <1> QED BY <1>2 DEF NormalizePlainText, kept

-----------------------------------------------------------------------------
(* The guard *)

\* A heading claims nothing.
LEMMA HeadingsAreNeutral ==
  ASSUME NEW line, IsHeading(line)
  PROVE  Claims(line) = {}
  <1>1. line \subseteq Neutral
    BY DEF IsHeading, Neutral
  <1>2. \A t \in Neutral : Stem(t) \in Stems(Neutral)
    BY DEF Stems
  <1> HIDE DEF Neutral
  <1> QED BY <1>1, <1>2 DEF Claims

\* The stems of a compound's parts are the parts.
LEMMA PartsAreStems ==
  ASSUME NEW t, NEW u, NEW p \in Parts(u)
  PROVE  Stem(p) = p /\ (Stem(t) = p => t = p)
  BY DEF Stem, Parts

\* The index a term is looked up in tells it, by its stem or by its parts.
LEMMA InCorpusIsTold ==
  ASSUME NEW facts, NEW f \in facts, NEW term, InCorpus(term, Index(f.terms))
  PROVE  Told(term, facts)
  <1>1. CASE Stem(term) \in Index(f.terms)
    <2>1. CASE \E u \in f.terms : Stem(term) = Stem(u)
      BY <2>1 DEF Told
    <2>2. CASE \E u \in f.terms : \E p \in Parts(u) : Stem(term) = Stem(p)
      <3>1. PICK u \in f.terms : \E p \in Parts(u) : Stem(term) = Stem(p)
        BY <2>2
      <3>2. PICK p \in Parts(u) : Stem(term) = Stem(p)
        BY <3>1
      <3>3. term = p
        BY <3>2, PartsAreStems
      <3> QED BY <3>2, <3>3 DEF Told
    <2> QED BY <1>1, <2>1, <2>2 DEF Index, Stems
  <1>2. CASE Parts(term) # {} /\ Stems(Parts(term)) \subseteq Index(f.terms)
    <2>1. ASSUME NEW p \in Parts(term)
          PROVE  \E t \in f.terms : p = t \/ p \in Parts(t)
      <3>1. Stem(p) = p /\ p \in Index(f.terms)
        BY <1>2, PartsAreStems DEF Stems
      <3>2. CASE \E t \in f.terms : p = Stem(t)
        BY <3>2, PartsAreStems
      <3>3. CASE \E t \in f.terms : \E q \in Parts(t) : p = Stem(q)
        <4>1. PICK t \in f.terms : \E q \in Parts(t) : p = Stem(q)
          BY <3>3
        <4>2. PICK q \in Parts(t) : p = Stem(q)
          BY <4>1
        <4>3. p = q
          BY <4>2, PartsAreStems
        <4> QED BY <4>2, <4>3
      <3> QED BY <3>1, <3>2, <3>3 DEF Index, Stems
    <2> QED BY <1>2, <2>1 DEF Told
  <1> QED BY <1>1, <1>2 DEF InCorpus

\* What a fact backs, it tells.
LEMMA BackedIsTold ==
  ASSUME NEW facts, NEW term, SourcesBacking(term, facts) # {}
  PROVE  Told(term, facts)
  <1>1. PICK f \in facts : InCorpus(term, Index(f.terms))
    BY DEF SourcesBacking
  <1> QED BY <1>1, InCorpusIsTold

\* More facts tell more.
LEMMA ToldStays ==
  ASSUME NEW facts, NEW more, facts \subseteq more, NEW term, Told(term, facts)
  PROVE  Told(term, more)
  BY DEF Told

LEMMA AttestedStays ==
  ASSUME NEW content, NEW sources, NEW facts, NEW more, facts \subseteq more,
         Attested(content, sources, facts)
  PROVE  Attested(content, sources, more)
  <1> DEFINE claims == UNION {Claims(content[i]) : i \in DOMAIN content}
  <1>1. /\ \A t \in claims : Told(t, facts) \/ InCorpus(t, Index(Context))
        /\ \E t \in claims : Told(t, facts)
        /\ sources # {}
    BY DEF Attested
  <1>2. \A t : Told(t, facts) => Told(t, more)
    BY ToldStays
  <1> HIDE DEF claims
  <1>3. /\ \A t \in claims : Told(t, more) \/ InCorpus(t, Index(Context))
        /\ \E t \in claims : Told(t, more)
    BY <1>1, <1>2
  <1> USE DEF claims
  <1> QED BY <1>1, <1>3 DEF Attested

\* What passes the guard is attested, with or without its hollow sections.
LEMMA GuardAttests ==
  ASSUME NEW S, NEW text \in Seq(S), NEW facts,
         HasAttestedContent(Enforced(text, facts, Context))
  PROVE  LET guarded == Enforced(text, facts, Context) IN
           /\ guarded.lines \in Seq(S) /\ DropEmptySections(guarded.lines) \in Seq(S)
           /\ guarded.sources \subseteq {f.source : f \in facts}
           /\ Attested(guarded.lines, guarded.sources, facts)
           /\ Attested(DropEmptySections(guarded.lines), guarded.sources, facts)
  <1> DEFINE passes == {i \in DOMAIN text : Unsupported(text[i], facts, Context) = {}}
             lines == KeptAt(text, passes)
             sources == UNION {Backing(text[i], facts) : i \in passes}
  <1>1. /\ Enforced(text, facts, Context).lines = lines
        /\ Enforced(text, facts, Context).sources = sources
    BY DEF Enforced
  <1>2. PICK i \in passes : Backing(text[i], facts) # {}
    BY <1>1 DEF HasAttestedContent
  <1>3. PICK t \in Claims(text[i]) : SourcesBacking(t, facts) # {}
    BY <1>2 DEF Backing
  <1>4. sources \subseteq {f.source : f \in facts}
    BY DEF Backing, SourcesBacking
  <1>5. \A k \in passes : k \in DOMAIN text /\ Unsupported(text[k], facts, Context) = {}
    OBVIOUS
  <1>6. sources # {}
    BY <1>2
  <1> HIDE DEF passes, sources
  <1>7. lines \in Seq(S) /\ LinesOf(lines) = {text[k] : k \in passes \cap DOMAIN text}
    BY KeptLines
  <1> HIDE DEF lines
  <1>8. /\ DropEmptySections(lines) \in Seq(S)
        /\ LinesOf(DropEmptySections(lines)) \subseteq LinesOf(lines)
        /\ \A l \in LinesOf(lines) :
             l # Blank /\ ~IsHeading(l) => l \in LinesOf(DropEmptySections(lines))
    BY <1>7, DroppedLines
  <1>9. text[i] \in LinesOf(lines) /\ text[i] \in LinesOf(DropEmptySections(lines))
    <2>1. text[i] \in LinesOf(lines)
      BY <1>2, <1>5, <1>7
    <2>2. text[i] # Blank /\ ~IsHeading(text[i])
      BY <1>3, HeadingsAreNeutral DEF Claims, Blank
    <2> QED BY <1>8, <2>1, <2>2
  <1>10. ASSUME NEW content, LinesOf(content) \subseteq LinesOf(lines),
                text[i] \in LinesOf(content)
         PROVE  Attested(content, sources, facts)
    <2>1. UNION {Claims(content[k]) : k \in DOMAIN content}
            = UNION {Claims(l) : l \in LinesOf(content)}
      BY DEF LinesOf
    <2>2. ASSUME NEW l \in LinesOf(content), NEW c \in Claims(l)
          PROVE  Told(c, facts) \/ InCorpus(c, Index(Context))
      <3>1. PICK k \in passes : l = text[k]
        BY <1>7, <1>10
      <3>2. SourcesBacking(c, facts) # {} \/ InCorpus(c, Index(Context))
        BY <1>5, <2>2, <3>1 DEF Unsupported
      <3> QED BY <3>2, BackedIsTold
    <2>3. Told(t, facts)
      BY <1>3, BackedIsTold
    <2> QED BY <1>3, <1>6, <1>10, <2>1, <2>2, <2>3 DEF Attested
  <1> QED BY <1>1, <1>4, <1>7, <1>8, <1>9, <1>10

-----------------------------------------------------------------------------
(* The steps *)

LEMMA NotWritingIsRequested ==
  /\ NotWriting \in Requested /\ NotWriting.stage = "idle"
  /\ \A w \in Writers : Left(w) \in Requested /\ Left(w).stage = "ended"
  <1>1. <<>> \in Seq(Lines)
    OBVIOUS
  <1>2. NotWriting \in Requested /\ NotWriting.stage = "idle"
    BY <1>1 DEF NotWriting, Requested, Stages
  <1>3. ASSUME NEW w \in Writers PROVE Left(w) \in Requested /\ Left(w).stage = "ended"
    BY <1>1 DEF Left, NotWriting, Requested, Stages
  <1> QED BY <1>2, <1>3

LEMMA FiledStays ==
  ASSUME FiledInv, UNCHANGED <<documents, formVars, changed>>
  PROVE  FiledInv'
  <1>1. UNCHANGED <<form, fetched, attached, filed, documents, changed>>
    BY DEF formVars
  <1>2. \A kind : LatestVersion(kind)' = LatestVersion(kind)
    BY <1>1 DEF LatestVersion, StoredVersions
  <1> QED BY <1>1, <1>2 DEF FiledInv

\* A step of one request that leaves the tables alone.
LEMMA AdvanceKeeps ==
  ASSUME DocumentsInv, NEW w \in Writers, NEW entry \in Requested, Advance(w, entry),
         UNCHANGED <<known, remembered, documents, formVars, said, undercut, changed>>,
         entry.stage \in {"counting", "adding"} =>
           Attested(entry.content, entry.sources, said),
         entry.stage = "adding" /\ ~undercut =>
           entry.counted <= Cardinality(StoredVersions(entry.kind))
  PROVE  DocumentsInv'
  <1>1. /\ writing' \in [Writers -> Requested] /\ writing'[w] = entry
        /\ \A v \in Writers \ {w} : writing'[v] = writing[v]
    BY DEF DocumentsInv, RequestTypes, Advance
  <1>2. RequestTypes'
    BY <1>1 DEF RequestTypes, Requested, Origins
  <1>3. AttestedInv'
    BY <1>1 DEF DocumentsInv, AttestedInv, StoredIsAttested
  <1>4. \A kind : StoredVersions(kind)' = StoredVersions(kind)
    BY DEF StoredVersions
  <1>5. CountInv'
    <2>1. ~undercut => \A v \in Writers : writing'[v].stage = "adding" =>
            writing'[v].counted <= Cardinality(StoredVersions(writing'[v].kind))
      BY <1>1 DEF DocumentsInv, CountInv
    <2> QED BY <1>4, <2>1 DEF DocumentsInv, CountInv, StoredVersions
  <1>6. FiledInv'
    BY FiledStays DEF DocumentsInv
  <1> QED BY <1>2, <1>3, <1>5, <1>6 DEF DocumentsInv

LEMMA BeginWritingKeeps ==
  ASSUME DocumentsInv, NEW w \in Writers, NEW kind \in DocumentKinds, BeginWriting(w, kind)
  PROVE  DocumentsInv'
  <1> DEFINE facts == ProfileFacts(known)
             begun == [NotWriting EXCEPT !.stage = "profile read", !.kind = kind,
                                         !.facts = facts]
  <1>1. /\ Advance(w, IF known = NoProfileYet THEN Left(w) ELSE begun)
        /\ UNCHANGED <<known, remembered, documents, formVars, said, undercut, changed>>
    BY DEF BeginWriting
  <1>2. facts \subseteq said
    BY DEF DocumentsInv, AttestedInv
  <1> HIDE DEF facts
  <1>3. begun \in Requested /\ begun.stage = "profile read"
    BY <1>2, NotWritingIsRequested DEF NotWriting, Requested, Stages
  <1> HIDE DEF begun
  <1>4. PICK entry \in Requested :
          Advance(w, entry) /\ entry.stage \in {"ended", "profile read"}
    BY <1>1, <1>3, NotWritingIsRequested
  <1> QED BY <1>1, <1>4, AdvanceKeeps

LEMMA ReadAnswersKeeps ==
  ASSUME DocumentsInv, NEW w \in Writers, ReadAnswers(w)
  PROVE  DocumentsInv'
  <1> DEFINE facts == writing[w].facts \cup {AnswerFact(m) : m \in remembered}
             entry == [writing[w] EXCEPT !.stage = "writing", !.facts = facts]
  <1>1. writing[w] \in Requested /\ {AnswerFact(m) : m \in remembered} \subseteq said
    BY DEF DocumentsInv, RequestTypes, AttestedInv
  <1>2. facts \subseteq said
    BY <1>1 DEF Requested
  <1>3. /\ Advance(w, entry)
        /\ UNCHANGED <<known, remembered, documents, formVars, said, undercut, changed>>
    BY <1>1 DEF ReadAnswers, Requested
  <1> HIDE DEF facts
  <1>4. entry \in Requested /\ entry.stage = "writing"
    BY <1>1, <1>2 DEF Requested, Stages
  <1> HIDE DEF entry
  <1> QED BY <1>3, <1>4, AdvanceKeeps

\* What a request keeps of a draft is attested by the facts it works with.
LEMMA KeepKeeps ==
  ASSUME DocumentsInv, NEW w \in Writers, NEW draft \in Drafts, NEW content,
         Keep(w, Guarded(w, draft), content),
         content \in {Guarded(w, draft).lines, DropEmptySections(Guarded(w, draft).lines)}
  PROVE  DocumentsInv'
  <1> DEFINE facts == writing[w].facts
             text == NormalizePlainText(draft)
             guarded == Enforced(text, facts, Context)
  <1>1. writing[w] \in Requested /\ facts \subseteq said
    BY DEF DocumentsInv, RequestTypes, Requested
  <1>2. text \in Seq(Lines)
    BY DraftsAreTexts, NormalizedIsText
  <1>3. Guarded(w, draft) = guarded
    BY DEF Guarded
  <1>4. /\ Advance(w, IF HasAttestedContent(guarded)
                      THEN [writing[w] EXCEPT !.stage = "counting", !.content = content,
                                              !.sources = guarded.sources]
                      ELSE Left(w))
        /\ UNCHANGED <<known, remembered, documents, formVars, said, undercut, changed>>
    BY <1>3 DEF Keep
  <1> HIDE DEF text
  <1>5. CASE HasAttestedContent(guarded)
    <2>1. LET g == Enforced(text, facts, Context) IN
            /\ g.lines \in Seq(Lines) /\ DropEmptySections(g.lines) \in Seq(Lines)
            /\ g.sources \subseteq {f.source : f \in facts}
            /\ Attested(g.lines, g.sources, facts)
            /\ Attested(DropEmptySections(g.lines), g.sources, facts)
      BY <1>2, <1>5, GuardAttests
    <2> DEFINE sources == guarded.sources
    <2>2. content \in Seq(Lines) /\ Attested(content, sources, facts)
      BY <1>3, <2>1
    <2>3. sources \subseteq Origins
      BY <1>1, <2>1 DEF Origins
    <2>4. Attested(content, sources, said)
      BY <1>1, <2>2, AttestedStays
    <2> DEFINE entry == [writing[w] EXCEPT !.stage = "counting", !.content = content,
                                           !.sources = sources]
    <2>5. Advance(w, entry)
      BY <1>4, <1>5
    <2> HIDE DEF sources
    <2>6. /\ entry \in Requested /\ entry.stage = "counting"
          /\ entry.content = content /\ entry.sources = sources
      BY <1>1, <2>2, <2>3 DEF Requested, Stages
    <2> HIDE DEF entry
    <2> QED BY <1>4, <2>4, <2>5, <2>6, AdvanceKeeps
  <1>6. CASE ~HasAttestedContent(guarded)
    <2>1. PICK entry \in Requested : Advance(w, entry) /\ entry.stage = "ended"
      BY <1>4, <1>6, NotWritingIsRequested
    <2> QED BY <1>4, <2>1, AdvanceKeeps
  <1> QED BY <1>5, <1>6

LEMMA WritingKeeps ==
  ASSUME DocumentsInv, NEW w \in Writers, NEW draft \in Drafts,
         \/ GenerateTailoredResume(w, draft)
         \/ GenerateCoverLetter(w, draft)
         \/ ReviseGeneratedDocument(w, draft)
  PROVE  DocumentsInv'
  <1>1. PICK content \in {Guarded(w, draft).lines, DropEmptySections(Guarded(w, draft).lines)} :
          Keep(w, Guarded(w, draft), content)
    BY DEF GenerateTailoredResume, GenerateCoverLetter, ReviseGeneratedDocument
  <1> QED BY <1>1, KeepKeeps

LEMMA CountVersionsKeeps ==
  ASSUME DocumentsInv, NEW w \in Writers, CountVersions(w)
  PROVE  DocumentsInv'
  <1> DEFINE count == Cardinality(StoredVersions(writing[w].kind))
             entry == [writing[w] EXCEPT !.stage = "adding", !.counted = count]
  <1>1. /\ writing[w] \in Requested /\ writing[w].stage = "counting"
        /\ Attested(writing[w].content, writing[w].sources, said)
    BY DEF DocumentsInv, RequestTypes, AttestedInv, CountVersions, Stage
  <1>2. count \in Nat
    <2>1. StoredVersions(writing[w].kind) \subseteq documents /\ IsFiniteSet(documents)
      BY DEF DocumentsInv, CountInv, StoredVersions
    <2> QED BY <2>1, FS_Subset, FS_CardinalityType
  <1>3. /\ Advance(w, entry)
        /\ UNCHANGED <<known, remembered, documents, formVars, said, undercut, changed>>
    BY DEF CountVersions
  <1> HIDE DEF count
  <1>4. /\ entry \in Requested /\ entry.stage = "adding" /\ entry.counted = count
        /\ entry.content = writing[w].content /\ entry.sources = writing[w].sources
        /\ entry.kind = writing[w].kind
    BY <1>1, <1>2 DEF Requested, Stages
  <1> HIDE DEF entry
  <1>5. entry.counted <= Cardinality(StoredVersions(entry.kind))
    BY <1>2, <1>4 DEF count
  <1> QED BY <1>1, <1>3, <1>4, <1>5, AdvanceKeeps

LEMMA WritingFailsKeeps ==
  ASSUME DocumentsInv, NEW w \in Writers, WritingFails(w)
  PROVE  DocumentsInv'
  <1>1. /\ Advance(w, Left(w))
        /\ UNCHANGED <<known, remembered, documents, formVars, said, undercut, changed>>
    BY DEF WritingFails
  <1>2. PICK entry \in Requested : Advance(w, entry) /\ entry.stage = "ended"
    BY <1>1, NotWritingIsRequested
  <1> QED BY <1>1, <1>2, AdvanceKeeps

\* A version that was free is the next one.
LEMMA AddDocumentKeeps ==
  ASSUME DocumentsInv, NEW w \in Writers, AddDocument(w)
  PROVE  DocumentsInv'
  <1> DEFINE kind == writing[w].kind
             count == writing[w].counted
             stored == StoredVersions(kind)
             s == Snapshot(w)
  <1>1. /\ writing[w] \in Requested /\ writing[w].stage = "adding"
        /\ Attested(writing[w].content, writing[w].sources, said)
        /\ kind \in DocumentKinds \cup {"none"} /\ count \in Nat
    BY DEF DocumentsInv, RequestTypes, Requested, AttestedInv, AddDocument, Stage
  <1>2. /\ Advance(w, Left(w))
        /\ UNCHANGED <<known, remembered, formVars, said, undercut>>
    BY DEF AddDocument
  <1>3. CASE ~VersionIsFree(kind, count + 1)
    <2>1. PICK entry \in Requested : Advance(w, entry) /\ entry.stage = "ended"
      BY <1>2, NotWritingIsRequested
    <2>2. UNCHANGED <<known, remembered, documents, formVars, said, undercut, changed>>
      BY <1>2, <1>3 DEF AddDocument
    <2> QED BY <2>1, <2>2, AdvanceKeeps
  <1>4. CASE VersionIsFree(kind, count + 1)
    <2>1. documents' = documents \cup {s}
      BY <1>4 DEF AddDocument
    <2>2. /\ s.kind = kind /\ s.version = count + 1
          /\ s.content = writing[w].content /\ s.sources = writing[w].sources
      BY DEF Snapshot
    <2> HIDE DEF s
    <2>3. /\ writing' \in [Writers -> Requested] /\ writing'[w].stage = "ended"
          /\ \A v \in Writers \ {w} : writing'[v] = writing[v]
      BY <1>2, NotWritingIsRequested DEF DocumentsInv, RequestTypes, Advance
    <2>4. RequestTypes'
      BY <1>2, <2>3 DEF RequestTypes, Requested, Origins
    <2>5. AttestedInv'
      <3>1. ASSUME NEW d \in documents' PROVE Attested(d.content, d.sources, said)
        <4>1. CASE d = s
          BY <1>1, <2>2, <4>1
        <4>2. CASE d \in documents
          BY <4>2 DEF DocumentsInv, AttestedInv, StoredIsAttested, Attested
        <4> QED BY <2>1, <4>1, <4>2
      <3>2. StoredIsAttested'
        BY <1>2, <3>1 DEF StoredIsAttested, Attested
      <3>3. \A v \in Writers : writing'[v].stage \in {"counting", "adding"} =>
              Attested(writing'[v].content, writing'[v].sources, said)
        BY <2>3 DEF DocumentsInv, AttestedInv
      <3> QED BY <1>2, <3>2, <3>3 DEF DocumentsInv, AttestedInv
    <2>6. CountInv'
      <3>1. /\ {d \in documents' : d.kind = kind} = stored \cup {s}
            /\ stored \subseteq documents
            /\ \A k \in DocumentKinds \cup {"none"} :
                 k # kind => {d \in documents' : d.kind = k} = StoredVersions(k)
        BY <2>1, <2>2 DEF StoredVersions
      <3>2. IsFiniteSet(documents) /\ IsFiniteSet(documents')
        BY <2>1, FS_AddElement DEF DocumentsInv, CountInv
      <3>3. IsFiniteSet(stored) /\ Cardinality(stored) \in Nat
        BY <3>1, <3>2, FS_Subset, FS_CardinalityType
      <3>4. s \notin stored
        BY <1>4, <2>2 DEF VersionIsFree
      <3>5. Cardinality(stored \cup {s}) = Cardinality(stored) + 1
        BY <3>3, <3>4, FS_AddElement
      <3>6. CASE undercut
        BY <1>2, <3>2, <3>6 DEF CountInv
      <3>7. CASE ~undercut
        <4>1. /\ count <= Cardinality(stored)
              /\ {d.version : d \in stored} = 1 .. Cardinality(stored)
          BY <1>1, <3>7 DEF DocumentsInv, CountInv
        <4>2. count + 1 \notin 1 .. Cardinality(stored)
          BY <1>4, <4>1 DEF VersionIsFree
        <4>3. count = Cardinality(stored)
          BY <1>1, <3>3, <4>1, <4>2
        <4>4. {d.version : d \in stored \cup {s}} = {d.version : d \in stored} \cup {count + 1}
          BY <2>2
        <4>5. {d.version : d \in stored \cup {s}} = 1 .. Cardinality(stored) + 1
          <5> HIDE DEF count, stored
          <5>1. \A n \in Nat : (1 .. n) \cup {n + 1} = 1 .. n + 1
            OBVIOUS
          <5> QED BY <3>3, <4>1, <4>3, <4>4, <5>1
        <4> DEFINE now(k) == {d \in documents' : d.kind = k}
        <4>6. ASSUME NEW k \in DocumentKinds \cup {"none"}
              PROVE  /\ Cardinality(StoredVersions(k)) <= Cardinality(now(k))
                     /\ {d.version : d \in now(k)} = 1 .. Cardinality(now(k))
          <5>1. CASE k = kind
            <6>1. {d \in documents' : d.kind = k} = stored \cup {s} /\ StoredVersions(k) = stored
              BY <3>1, <5>1
            <6>2. now(k) = stored \cup {s} /\ StoredVersions(k) = stored
              BY <6>1
            <6> DEFINE n == Cardinality(stored)
            <6>3. /\ n \in Nat /\ Cardinality(stored \cup {s}) = n + 1
                  /\ {d.version : d \in stored \cup {s}} = 1 .. n + 1
              BY <3>3, <3>5, <4>5
            <6>4. n <= n + 1
              BY <6>3
            <6> HIDE DEF now, stored
            <6>5. Cardinality(StoredVersions(k)) = n /\ Cardinality(now(k)) = n + 1
              BY <6>2, <6>3
            <6>6. {d.version : d \in now(k)} = {d.version : d \in stored \cup {s}}
              BY <6>2
            <6> HIDE DEF n
            <6> QED BY <6>3, <6>4, <6>5, <6>6
          <5>2. CASE k # kind
            <6>1. {d \in documents' : d.kind = k} = StoredVersions(k)
              BY <3>1, <5>2
            <6>2. Cardinality(StoredVersions(k)) \in Nat
              <7>1. StoredVersions(k) \subseteq documents
                BY DEF StoredVersions
              <7> QED BY <3>2, <7>1, FS_Subset, FS_CardinalityType
            <6>3. {d.version : d \in StoredVersions(k)} = 1 .. Cardinality(StoredVersions(k))
              BY <3>7, Zenon DEF DocumentsInv, CountInv
            <6>4. now(k) = StoredVersions(k)
              BY <6>1
            <6> HIDE DEF now
            <6> QED BY <6>2, <6>3, <6>4
          <5> QED BY <5>1, <5>2
        <4>7. ASSUME NEW v \in Writers, writing'[v].stage = "adding"
              PROVE  writing'[v].counted
                       <= Cardinality({d \in documents' : d.kind = writing'[v].kind})
          <5>1. v # w
            BY <2>3, <4>7
          <5>2. writing'[v] = writing[v]
            BY <2>3, <5>1
          <5>3. /\ writing[v].kind \in DocumentKinds \cup {"none"} /\ writing[v].counted \in Nat
                /\ writing[v].counted <= Cardinality(StoredVersions(writing[v].kind))
            BY <3>7, <4>7, <5>2 DEF DocumentsInv, RequestTypes, Requested, CountInv
          <5>4. ASSUME NEW k \in DocumentKinds \cup {"none"}
                PROVE  /\ Cardinality(StoredVersions(k)) \in Nat
                       /\ Cardinality({d \in documents' : d.kind = k}) \in Nat
            <6>1. /\ StoredVersions(k) \subseteq documents
                  /\ {d \in documents' : d.kind = k} \subseteq documents'
              BY DEF StoredVersions
            <6> QED BY <3>2, <6>1, FS_Subset, FS_CardinalityType
          <5> DEFINE a == Cardinality(StoredVersions(writing[v].kind))
                     b == Cardinality({d \in documents' : d.kind = writing[v].kind})
          <5>5. a \in Nat /\ b \in Nat /\ a <= b
            BY <4>6, <5>3, <5>4
          <5>6. writing[v].counted <= a
            BY <5>3
          <5> HIDE DEF a, b
          <5>7. writing[v].counted <= b
            BY <5>3, <5>5, <5>6
          <5> QED BY <5>2, <5>7 DEF b
        <4>8. \A k : {d \in documents' : d.kind = k} = StoredVersions(k)'
          BY DEF StoredVersions
        <4> QED BY <3>2, <4>6, <4>7, <4>8 DEF CountInv
      <3> QED BY <3>6, <3>7
    <2>7. FiledInv'
      <3>1. ASSUME NEW k \in DOMAIN fetched, k # kind
            PROVE  LatestVersion(k)' = LatestVersion(k)
        <4>1. s.kind = kind
          BY DEF s, Snapshot
        <4>2. {d \in documents' : d.kind = k} = {d \in documents : d.kind = k}
          BY <2>1, <3>1, <4>1
        <4>3. StoredVersions(k)' = StoredVersions(k)
          BY <4>2 DEF StoredVersions
        <4> QED BY <4>3 DEF LatestVersion
      <3>2. /\ changed' = changed \cup ({kind} \cap DOMAIN fetched)
            /\ UNCHANGED <<form, fetched, attached, filed>>
        BY <1>2, <1>4 DEF AddDocument, formVars
      <3> QED BY <3>1, <3>2 DEF DocumentsInv, FiledInv
    <2> QED BY <2>4, <2>5, <2>6, <2>7 DEF DocumentsInv
  <1> QED BY <1>3, <1>4

\* More facts, and nothing else that matters.
LEMMA TellingKeeps ==
  ASSUME DocumentsInv, said \subseteq said', ProfileFacts(known)' \subseteq said',
         {AnswerFact(m) : m \in remembered'} \subseteq said',
         UNCHANGED <<documents, writing, formVars, undercut, changed>>
  PROVE  DocumentsInv'
  <1>1. RequestTypes'
    <2>1. writing \in [Writers -> Requested]
      BY DEF DocumentsInv, RequestTypes
    <2>2. \A r \in Requested : r \in Requested'
      BY DEF Requested, Origins
    <2> QED BY <2>1, <2>2 DEF RequestTypes
  <1>2. AttestedInv'
    <2>1. ASSUME NEW d \in documents' PROVE Attested(d.content, d.sources, said')
      <3>1. Attested(d.content, d.sources, said)
        BY DEF DocumentsInv, AttestedInv, StoredIsAttested, Attested
      <3> QED BY <3>1, AttestedStays
    <2>2. StoredIsAttested'
      BY <2>1 DEF StoredIsAttested, Attested
    <2>3. ASSUME NEW w \in Writers, writing'[w].stage \in {"counting", "adding"}
          PROVE  Attested(writing'[w].content, writing'[w].sources, said')
      <3>1. Attested(writing[w].content, writing[w].sources, said)
        BY <2>3 DEF DocumentsInv, AttestedInv
      <3>2. Attested(writing[w].content, writing[w].sources, said')
        BY <3>1, AttestedStays
      <3> QED BY <3>2
    <2> QED BY <2>2, <2>3 DEF AttestedInv
  <1>3. CountInv'
    BY DEF DocumentsInv, CountInv, StoredVersions
  <1>4. FiledInv'
    BY FiledStays DEF DocumentsInv
  <1> QED BY <1>1, <1>2, <1>3, <1>4 DEF DocumentsInv

LEMMA SaveFacetsKeeps ==
  ASSUME DocumentsInv, NEW facets \in Facets, SaveFacets(facets)
  PROVE  DocumentsInv'
  <1>1. /\ said' = said \cup ProfileFacts(facets) /\ known' = facets
        /\ UNCHANGED <<remembered, documents, writing, formVars, undercut, changed>>
    BY DEF SaveFacets
  <1>2. ProfileFacts(known)' = ProfileFacts(facets)
    BY <1>1 DEF ProfileFacts
  <1>3. {AnswerFact(m) : m \in remembered'} \subseteq said'
    BY <1>1 DEF DocumentsInv, AttestedInv
  <1> QED BY <1>1, <1>2, <1>3, TellingKeeps

LEMMA ResolveGapKeeps ==
  ASSUME DocumentsInv, NEW reply \in Replies, ResolveGap(reply)
  PROVE  DocumentsInv'
  <1>1. /\ UNCHANGED <<known, documents, writing, formVars, undercut, changed>>
        /\ \/ UNCHANGED <<remembered, said>>
           \/ /\ remembered' = remembered \cup {reply}
              /\ said' = said \cup {AnswerFact(reply)}
    BY DEF ResolveGap, StoreAnswer
  <1>2. ProfileFacts(known) \subseteq said /\ {AnswerFact(m) : m \in remembered} \subseteq said
    BY DEF DocumentsInv, AttestedInv
  <1>3. said \subseteq said' /\ {AnswerFact(m) : m \in remembered'} \subseteq said'
    BY <1>1, <1>2
  <1>4. ProfileFacts(known)' = ProfileFacts(known)
    BY <1>1
  <1> QED BY <1>1, <1>2, <1>3, <1>4, TellingKeeps

\* A step of the form leaves the requests and the tables alone.
LEMMA FormStepKeeps ==
  ASSUME DocumentsInv, FiledInv',
         UNCHANGED <<known, remembered, documents, writing, said, undercut>>
  PROVE  DocumentsInv'
  <1>1. RequestTypes'
    BY DEF DocumentsInv, RequestTypes, Requested, Origins
  <1>2. AttestedInv'
    BY DEF DocumentsInv, AttestedInv, StoredIsAttested
  <1>3. CountInv'
    BY DEF DocumentsInv, CountInv, StoredVersions
  <1> QED BY <1>1, <1>2, <1>3 DEF DocumentsInv

LEMMA FillFormKeeps ==
  ASSUME DocumentsInv, FillForm
  PROVE  DocumentsInv'
  <1>1. /\ fetched' = <<>> /\ attached' = NothingAttached /\ filed' = <<>>
        /\ UNCHANGED <<known, remembered, documents, writing, said, undercut>>
    BY DEF FillForm
  <1>2. FiledInv'
    BY <1>1 DEF FiledInv, NothingAttached
  <1> QED BY <1>1, <1>2, FormStepKeeps

LEMMA AskForDocumentKeeps ==
  ASSUME DocumentsInv, NEW kind \in DocumentKinds, AskForDocument(kind)
  PROVE  DocumentsInv'
  <1> DEFINE version == Asked(kind)
             found == [k \in DOMAIN fetched \cup {kind} |->
                         IF k = kind THEN version ELSE fetched[k]]
  <1>1. /\ form = "filling" /\ fetched' = found /\ attached' \in MayTake(kind, version)
        /\ UNCHANGED <<known, remembered, documents, writing, form, filed, said, undercut,
                       changed>>
    BY DEF AskForDocument
  <1>2. FiledInv
    BY DEF DocumentsInv
  <1>3. /\ kind \in DOMAIN fetched => version = fetched[kind]
        /\ kind \notin DOMAIN fetched => version = LatestVersion(kind)
    BY DEF Asked
  <1>4. \/ attached' = attached
        \/ attached' = [attached EXCEPT ![kind] = attached[kind] \cup {version}]
    BY <1>1, <1>2 DEF MayTake, FiledInv
  <1> HIDE DEF version
  <1>5. \A k : LatestVersion(k)' = LatestVersion(k)
    BY <1>1 DEF LatestVersion, StoredVersions
  <1>6. DOMAIN fetched' \subseteq DocumentKinds
    BY <1>1, <1>2 DEF FiledInv
  <1>7. ASSUME NEW k \in DocumentKinds, NEW d \in attached'[k]
        PROVE  k \in DOMAIN fetched' /\ d = fetched'[k]
    <2>1. d \in attached[k] \/ (k = kind /\ d = version)
      BY <1>2, <1>4, <1>7 DEF FiledInv
    <2>2. d \in attached[k] => k \in DOMAIN fetched /\ d = fetched[k]
      BY <1>2, <1>7 DEF FiledInv
    <2> QED BY <1>1, <1>3, <2>1, <2>2
  <1>8. \A k \in DOMAIN fetched' \ changed' : fetched'[k] = LatestVersion(k)
    BY <1>1, <1>2, <1>3 DEF FiledInv
  <1>9. attached' = [k \in DocumentKinds |-> attached'[k]]
    BY <1>2, <1>4 DEF FiledInv
  <1>10. filed' = <<>>
    BY <1>1, <1>2 DEF FiledInv
  <1>11. FiledInv'
    BY <1>5, <1>6, <1>7, <1>8, <1>9, <1>10 DEF FiledInv
  <1> QED BY <1>1, <1>11, FormStepKeeps

LEMMA FillingEnds ==
  ASSUME DocumentsInv, ParkForm \/ PassFails
  PROVE  DocumentsInv'
  <1>1. /\ UNCHANGED <<known, remembered, documents, writing, filed, said, undercut>>
        /\ \/ fetched' = <<>> /\ attached' = NothingAttached
           \/ form' = "parked" /\ UNCHANGED <<fetched, attached, changed>>
        /\ form = "filling"
    BY DEF ParkForm, PassFails
  <1>2. \A k : LatestVersion(k)' = LatestVersion(k)
    BY <1>1 DEF LatestVersion, StoredVersions
  <1>3. FiledInv'
    <2>1. CASE fetched' = <<>> /\ attached' = NothingAttached
      BY <1>1, <2>1 DEF DocumentsInv, FiledInv, NothingAttached
    <2>2. CASE form' = "parked" /\ UNCHANGED <<fetched, attached, changed>>
      BY <1>1, <1>2, <2>2 DEF DocumentsInv, FiledInv
    <2> QED BY <1>1, <2>1, <2>2
  <1> QED BY <1>1, <1>3, FormStepKeeps

LEMMA FileSubmissionKeeps ==
  ASSUME DocumentsInv, FileSubmission
  PROVE  DocumentsInv'
  <1>1. /\ form = "parked"
        /\ filed' = [kind \in DocumentKinds |-> LatestVersion(kind)]
        /\ UNCHANGED <<known, remembered, documents, writing, form, fetched, attached, said,
                       undercut, changed>>
    BY DEF FileSubmission
  <1>2. \A kind : LatestVersion(kind)' = LatestVersion(kind)
    BY <1>1 DEF LatestVersion, StoredVersions
  <1>3. FiledInv'
    BY <1>1, <1>2 DEF DocumentsInv, FiledInv
  <1> QED BY <1>1, <1>3, FormStepKeeps

\* An erasure leaves nothing to count, and is remembered by those who counted.
LEMMA EraseEverythingKeeps ==
  ASSUME DocumentsInv, EraseEverything
  PROVE  DocumentsInv'
  <1>1. /\ known' = NoProfileYet /\ remembered' = {} /\ documents' = {} /\ filed' = <<>>
        /\ undercut' = (undercut \/ \E w \in Writers : Stage(w, "adding"))
        /\ changed' = DOMAIN fetched
        /\ UNCHANGED <<writing, form, fetched, attached, said>>
    BY DEF EraseEverything
  <1>2. RequestTypes'
    BY <1>1 DEF DocumentsInv, RequestTypes, Requested, Origins
  <1>3. AttestedInv'
    <2>1. ProfileFacts(known)' = {}
      BY <1>1 DEF ProfileFacts, NoProfileYet
    <2> QED BY <1>1, <2>1 DEF DocumentsInv, AttestedInv, StoredIsAttested
  <1>4. CountInv'
    <2>1. \A kind : StoredVersions(kind)' = {}
      BY <1>1 DEF StoredVersions
    <2>2. IsFiniteSet({}) /\ Cardinality({}) = 0
      BY FS_EmptySet
    <2>3. ~undercut' => \A w \in Writers : writing'[w].stage # "adding"
      BY <1>1 DEF Stage
    <2>4. {d.version : d \in {}} = 1 .. 0
      OBVIOUS
    <2> QED BY <1>1, <2>1, <2>2, <2>3, <2>4 DEF CountInv
  <1>5. FiledInv'
    BY <1>1 DEF DocumentsInv, FiledInv
  <1> QED BY <1>2, <1>3, <1>4, <1>5 DEF DocumentsInv

LEMMA InitHolds == DocumentsInit => DocumentsInv
  <1> SUFFICES ASSUME DocumentsInit PROVE DocumentsInv
    OBVIOUS
  <1>1. RequestTypes /\ \A w \in Writers : writing[w].stage = "idle"
    BY NotWritingIsRequested DEF DocumentsInit, RequestTypes
  <1>2. AttestedInv
    BY <1>1 DEF DocumentsInit, NothingWritten, AttestedInv, StoredIsAttested
  <1>3. CountInv
    <2>1. \A kind : StoredVersions(kind) = {}
      BY DEF DocumentsInit, NothingWritten, StoredVersions
    <2>2. {d.version : d \in {}} = 1 .. 0
      OBVIOUS
    <2> QED BY <1>1, <2>1, <2>2, FS_EmptySet DEF DocumentsInit, NothingWritten, CountInv
  <1>4. FiledInv
    BY DEF DocumentsInit, NothingWritten, FiledInv, NothingAttached
  <1> QED BY <1>1, <1>2, <1>3, <1>4 DEF DocumentsInv

LEMMA NextKeeps ==
  ASSUME DocumentsInv, [DocumentsNext]_documentVars
  PROVE  DocumentsInv'
  <1>1. CASE UNCHANGED documentVars
    <2>1. /\ said \subseteq said'
          /\ UNCHANGED <<known, remembered, documents, writing, formVars, said,
                         undercut, changed>>
      BY <1>1 DEF documentVars
    <2>2. /\ ProfileFacts(known)' \subseteq said'
          /\ {AnswerFact(m) : m \in remembered'} \subseteq said'
      BY <2>1 DEF DocumentsInv, AttestedInv
    <2> QED BY <2>1, <2>2, TellingKeeps
  <1>2. ASSUME NEW w \in Writers, NEW kind \in DocumentKinds, BeginWriting(w, kind)
        PROVE  DocumentsInv'
    BY <1>2, BeginWritingKeeps
  <1>3. ASSUME NEW w \in Writers, ReadAnswers(w)
        PROVE  DocumentsInv'
    BY <1>3, ReadAnswersKeeps
  <1>4. ASSUME NEW w \in Writers, NEW draft \in Drafts,
               \/ GenerateTailoredResume(w, draft)
               \/ GenerateCoverLetter(w, draft)
               \/ ReviseGeneratedDocument(w, draft)
        PROVE  DocumentsInv'
    BY <1>4, WritingKeeps
  <1>5. ASSUME NEW w \in Writers, CountVersions(w) \/ AddDocument(w) \/ WritingFails(w)
        PROVE  DocumentsInv'
    BY <1>5, CountVersionsKeeps, AddDocumentKeeps, WritingFailsKeeps
  <1>6. ASSUME NEW facets \in Facets, SaveFacets(facets)
        PROVE  DocumentsInv'
    BY <1>6, SaveFacetsKeeps
  <1>7. ASSUME NEW reply \in Replies, ResolveGap(reply)
        PROVE  DocumentsInv'
    BY <1>7, ResolveGapKeeps
  <1>8. CASE FillForm \/ ParkForm \/ PassFails \/ FileSubmission \/ EraseEverything
    BY <1>8, FillFormKeeps, FillingEnds, FileSubmissionKeeps, EraseEverythingKeeps
  <1>9. ASSUME NEW kind \in DocumentKinds, AskForDocument(kind)
        PROVE  DocumentsInv'
    BY <1>9, AskForDocumentKeeps
  <1> QED BY <1>1, <1>2, <1>3, <1>4, <1>5, <1>6, <1>7, <1>8, <1>9 DEF DocumentsNext

LEMMA DocumentsIsInvariant == DocumentsSpec => []DocumentsInv
  <1>1. DocumentsInv /\ [DocumentsNext]_documentVars => DocumentsInv'
    BY NextKeeps
  <1> QED BY <1>1, InitHolds, PTL DEF DocumentsSpec

-----------------------------------------------------------------------------
(* The properties *)

\* Whatever a model drafts, a candidate rewrites, and however profile and
\* answers change or are erased meanwhile, what tailor, generate and revise
\* store says nothing of the candidate that no fact ever told, and something
\* that one did.
THEOREM StoredTextIsAttested == DocumentsSpec => []StoredIsAttested
  <1>1. DocumentsInv => StoredIsAttested
    BY DEF DocumentsInv, AttestedInv
  <1> QED BY <1>1, DocumentsIsInvariant, PTL

\* However many requests count the versions of a kind at once, those stored
\* are numbered without gaps, unless an erasure overtook a request that had
\* counted.
THEOREM VersionsAreCounted == DocumentsSpec => []VersionsCountUp
  <1>1. DocumentsInv => VersionsCountUp
    BY DEF DocumentsInv, CountInv, VersionsCountUp
  <1> QED BY <1>1, DocumentsIsInvariant, PTL

\* Whatever a form asks for and takes, and whatever is stored while it is being
\* filled: it never carries two versions of one document, and the tracker files
\* every version it carries, unless one of its kind was stored or everything
\* erased since the pass fetched it.
THEOREM WhatWasAttachedIsFiled == DocumentsSpec => []AttachedIsFiled
  <1>1. DocumentsInv => AttachedIsFiled
    BY DEF DocumentsInv, FiledInv, AttachedIsFiled
  <1> QED BY <1>1, DocumentsIsInvariant, PTL

-----------------------------------------------------------------------------
(* What a parser makes of a résumé *)

IsText(l) == l # Blank /\ ~IsHeading(l)

LEMMA BlankIsNoHeading == ~IsHeading(Blank)
  BY DEF Blank, IsHeading, StandardHeadings

\* The lines of a text at some of its first places, and where each stood.
PlacedBy(at, text, places, n, kept) ==
  /\ at \in [1 .. Len(kept) -> places \cap (1 .. n)]
  /\ \A k \in 1 .. Len(kept) : kept[k] = text[at[k]]
  /\ \A k, m \in 1 .. Len(kept) : k < m => at[k] < at[m]
  /\ \A i \in places \cap (1 .. n) : \E k \in 1 .. Len(kept) : at[k] = i

LEMMA NextPlace ==
  ASSUME NEW S, NEW text \in Seq(S), NEW places, NEW n \in 1 .. Len(text), n \in places,
         NEW kept \in Seq(S), NEW at, PlacedBy(at, text, places, n - 1, kept)
  PROVE  \E more : PlacedBy(more, text, places, n, Append(kept, text[n]))
  <1> DEFINE now == Append(kept, text[n])
             len == Len(kept)
             more == [k \in 1 .. len + 1 |-> IF k = len + 1 THEN n ELSE at[k]]
  <1>1. text[n] \in S /\ n \in Nat
    OBVIOUS
  <1>2. /\ now \in Seq(S) /\ Len(now) = len + 1 /\ len \in Nat
        /\ \A k \in 1 .. len : now[k] = kept[k]
        /\ now[len + 1] = text[n]
    BY <1>1
  <1>3. /\ \A k \in 1 .. len : at[k] \in places /\ at[k] \in 1 .. n - 1
        /\ \A k \in 1 .. len : kept[k] = text[at[k]]
        /\ \A k, m \in 1 .. len : k < m => at[k] < at[m]
        /\ \A i \in places \cap (1 .. n - 1) : \E k \in 1 .. len : at[k] = i
    BY DEF PlacedBy
  <1> HIDE DEF now, len
  <1>4. /\ more[len + 1] = n
        /\ \A k \in 1 .. len : more[k] = at[k] /\ more[k] < n /\ more[k] \in Nat
    BY <1>1, <1>2, <1>3
  <1>5. more \in [1 .. Len(now) -> places \cap (1 .. n)]
    BY <1>1, <1>2, <1>3
  <1> HIDE DEF more
  <1>6. \A k \in 1 .. Len(now) : k = len + 1 \/ k \in 1 .. len
    BY <1>2
  <1>7. \A k \in 1 .. Len(now) : now[k] = text[more[k]]
    BY <1>2, <1>3, <1>4, <1>6
  <1>8. ASSUME NEW k \in 1 .. Len(now), NEW m \in 1 .. Len(now), k < m
        PROVE  more[k] < more[m]
    <2>1. k \in 1 .. len
      BY <1>2, <1>8
    <2>2. CASE m \in 1 .. len
      BY <1>3, <1>4, <1>8, <2>1, <2>2
    <2>3. CASE m = len + 1
      BY <1>4, <2>1, <2>3
    <2> QED BY <1>6, <2>2, <2>3
  <1>9. ASSUME NEW i \in places \cap (1 .. n)
        PROVE  \E k \in 1 .. Len(now) : more[k] = i
    <2>1. CASE i = n
      BY <1>2, <1>4, <2>1
    <2>2. CASE i # n
      <3>1. i \in places \cap (1 .. n - 1)
        BY <1>1, <2>2
      <3>2. PICK k \in 1 .. len : at[k] = i
        BY <1>3, <3>1
      <3>3. k \in 1 .. Len(now) /\ more[k] = i
        BY <1>2, <1>4, <3>2
      <3> QED BY <3>3
    <2> QED BY <2>1, <2>2
  <1>10. PlacedBy(more, text, places, n, now)
    BY <1>5, <1>7, <1>8, <1>9 DEF PlacedBy
  <1> QED BY <1>10 DEF now

\* What is kept of a text is kept in order.
LEMMA KeptInOrder ==
  ASSUME NEW S, NEW text \in Seq(S), NEW places \in SUBSET DOMAIN text
  PROVE  LET kept == KeptAt(text, places) IN
         /\ kept \in Seq(S)
         /\ \E at \in [1 .. Len(kept) -> places] :
              /\ \A k \in 1 .. Len(kept) : kept[k] = text[at[k]]
              /\ \A k, m \in 1 .. Len(kept) : k < m => at[k] < at[m]
              /\ \A i \in places : \E k \in 1 .. Len(kept) : at[k] = i
  <1>0. Len(text) \in Nat /\ DOMAIN text = 1 .. Len(text)
    OBVIOUS
  <1> DEFINE kept == CHOOSE kept : KeepsAt(text, places, Len(text), kept)
  <1>1. KeepsAt(text, places, Len(text), kept)
    BY <1>0, KeepExists
  <1>2. KeptAt(text, places) = kept[Len(text)]
    BY DEF KeptAt, KeepsAt
  <1> HIDE DEF kept
  <1>3. kept[0] = <<>> /\ \A k \in 1 .. Len(text) :
          kept[k] = IF k \in places THEN Append(kept[k - 1], text[k]) ELSE kept[k - 1]
    BY <1>0, <1>1, KeepStep
  <1> DEFINE Right(n) == /\ kept[n] \in Seq(S)
                         /\ \E at : PlacedBy(at, text, places, n, kept[n])
             Wrong == {n \in Nat : n <= Len(text) /\ ~Right(n)}
  <1>4. Right(0)
    <2>1. <<>> \in Seq(S) /\ Len(<<>>) = 0
      OBVIOUS
    <2>2. PlacedBy([k \in 1 .. 0 |-> 0], text, places, 0, <<>>)
      BY <2>1 DEF PlacedBy
    <2> QED BY <1>3, <2>1, <2>2
  <1>5. ASSUME NEW n \in 1 .. Len(text), Right(n - 1)
        PROVE  Right(n)
    <2>1. text[n] \in S /\ n \in Nat
      BY <1>0
    <2>2. CASE n \in places
      <3>1. kept[n - 1] \in Seq(S) /\ kept[n] = Append(kept[n - 1], text[n])
        BY <1>3, <1>5, <2>2
      <3>2. \E at : PlacedBy(at, text, places, n, Append(kept[n - 1], text[n]))
        BY <1>5, <2>2, <3>1, NextPlace
      <3> QED BY <2>1, <3>1, <3>2
    <2>3. CASE n \notin places
      <3>1. kept[n] = kept[n - 1]
        BY <1>3, <2>3
      <3>2. places \cap (1 .. n) = places \cap (1 .. n - 1)
        BY <2>1, <2>3
      <3>3. ASSUME NEW at, PlacedBy(at, text, places, n - 1, kept[n - 1])
            PROVE  PlacedBy(at, text, places, n, kept[n])
        BY <3>1, <3>2, <3>3 DEF PlacedBy
      <3> QED BY <1>5, <3>1, <3>3
    <2> QED BY <2>2, <2>3
  <1> HIDE DEF Right
  <1>6. Wrong = {}
    <2>1. SUFFICES ASSUME Wrong # {} PROVE FALSE
      OBVIOUS
    <2>2. PICK n \in Wrong : \A k \in Wrong : n <= k
      BY <2>1, LeastNatural
    <2>3. n \in 1 .. Len(text) /\ n - 1 \in Nat /\ n - 1 <= Len(text)
      BY <1>0, <1>4
    <2>4. Right(n - 1)
      BY <2>2, <2>3
    <2> QED BY <1>5, <2>3, <2>4
  <1>7. Right(Len(text))
    BY <1>0, <1>6
  <1>8. places \cap (1 .. Len(text)) = places
    BY <1>0
  <1>9. KeptAt(text, places) \in Seq(S)
    BY <1>2, <1>7 DEF Right
  <1>10. PICK at : PlacedBy(at, text, places, Len(text), KeptAt(text, places))
    BY <1>2, <1>7 DEF Right
  <1> QED BY <1>8, <1>9, <1>10 DEF PlacedBy

\* Every heading of a text has a body.
HasBodies(text) == \A i \in 1 .. Len(text) : IsHeading(text[i]) => HasBody(text, i)

\* Blank lines and headings may go: a heading that stays keeps its body.
LEMMA BodiesStay ==
  ASSUME NEW S, NEW text \in Seq(S), NEW places \in SUBSET DOMAIN text,
         \A i \in DOMAIN text : IsText(text[i]) => i \in places,
         \A i \in places : IsHeading(text[i]) => HasBody(text, i)
  PROVE  HasBodies(KeptAt(text, places))
  <1> DEFINE kept == KeptAt(text, places)
  <1>0. Len(text) \in Nat /\ DOMAIN text = 1 .. Len(text)
    OBVIOUS
  <1>1. kept \in Seq(S) /\ Len(kept) \in Nat
    BY KeptInOrder
  <1>2. PICK at \in [1 .. Len(kept) -> places] :
          /\ \A k \in 1 .. Len(kept) : kept[k] = text[at[k]]
          /\ \A k, m \in 1 .. Len(kept) : k < m => at[k] < at[m]
          /\ \A i \in places : \E k \in 1 .. Len(kept) : at[k] = i
    BY KeptInOrder
  <1> HIDE DEF kept
  <1>3. SUFFICES ASSUME NEW k \in 1 .. Len(kept), IsHeading(kept[k])
                 PROVE  HasBody(kept, k)
    BY DEF HasBodies, kept
  <1>4. at[k] \in places /\ at[k] \in 1 .. Len(text) /\ IsHeading(text[at[k]])
    BY <1>0, <1>2, <1>3
  <1>5. PICK j \in FirstBelow(text, at[k]) : ~IsHeading(text[j])
    BY <1>4 DEF HasBody
  <1>6. /\ j \in at[k] + 1 .. Len(text) /\ text[j] # Blank
        /\ \A i \in at[k] + 1 .. j - 1 : text[i] = Blank
    BY DEF FirstBelow
  <1>7. j \in places
    BY <1>0, <1>4, <1>5, <1>6 DEF IsText
  <1>8. PICK m \in 1 .. Len(kept) : at[m] = j
    BY <1>2, <1>7
  <1>9. k < m
    BY <1>0, <1>1, <1>2, <1>4, <1>6, <1>8
  <1>10. ASSUME NEW i \in k + 1 .. m - 1
         PROVE  kept[i] = Blank
    <2>1. i \in 1 .. Len(kept) /\ k < i /\ i < m
      BY <1>1, <1>3, <1>8
    <2>2. at[k] < at[i] /\ at[i] < j /\ at[i] \in 1 .. Len(text)
      BY <1>0, <1>2, <1>3, <1>8, <2>1
    <2>3. at[i] \in at[k] + 1 .. j - 1
      BY <1>0, <1>4, <1>6, <2>2
    <2> QED BY <1>2, <1>6, <2>1, <2>3
  <1>11. m \in FirstBelow(kept, k) /\ ~IsHeading(kept[m])
    BY <1>1, <1>2, <1>5, <1>6, <1>8, <1>9, <1>10 DEF FirstBelow
  <1> QED BY <1>11 DEF HasBody

\* No section of a résumé that was cleared of empty ones is hollow.
LEMMA ClearedHasBodies ==
  ASSUME NEW S, NEW text \in Seq(S)
  PROVE  DropEmptySections(text) \in Seq(S) /\ HasBodies(DropEmptySections(text))
  <1> DEFINE cleared == {i \in DOMAIN text : IsHeading(text[i]) => HasBody(text, i)}
             kept == KeptAt(text, cleared)
             collapsed == {i \in DOMAIN kept :
                             \/ kept[i] # Blank
                             \/ /\ i > 1 /\ kept[i - 1] # Blank
                                /\ \E j \in i .. Len(kept) : kept[j] # Blank}
  <1>1. \A i \in DOMAIN text : IsText(text[i]) => i \in cleared
    BY DEF IsText
  <1>2. \A i \in cleared : IsHeading(text[i]) => HasBody(text, i)
    OBVIOUS
  <1>3. cleared \in SUBSET DOMAIN text
    OBVIOUS
  <1>4. DropEmptySections(text) = KeptAt(kept, collapsed)
    BY DEF DropEmptySections, CollapseBlankRuns
  <1> HIDE DEF cleared
  <1>5. kept \in Seq(S) /\ HasBodies(kept)
    BY <1>1, <1>2, <1>3, KeptInOrder, BodiesStay
  <1> HIDE DEF kept
  <1>6. \A i \in DOMAIN kept : IsText(kept[i]) => i \in collapsed
    BY DEF IsText
  <1>7. collapsed \in SUBSET DOMAIN kept
    OBVIOUS
  <1> HIDE DEF collapsed
  <1>8. \A i \in collapsed : IsHeading(kept[i]) => HasBody(kept, i)
    BY <1>5, <1>7 DEF HasBodies
  <1>9. HasBodies(KeptAt(kept, collapsed)) /\ KeptAt(kept, collapsed) \in Seq(S)
    BY <1>5, <1>6, <1>7, <1>8, KeptInOrder, BodiesStay
  <1> QED BY <1>4, <1>9
-----------------------------------------------------------------------------
(* What an export makes of a parsed résumé *)

Section(S) == [heading : S, lines : Seq(S)]

Parses(S) == [contact : Seq(S), sections : Seq(Section(S))]

\* What Exported computes on the way.
ExportsTo(parsed, n, upTo) ==
  upTo = [k \in 0 .. n |->
            IF k = 0 THEN parsed.contact
            ELSE upTo[k - 1] \o parsed.sections[k].lines]

LEMMA ExportStep ==
  ASSUME NEW parsed, NEW n \in Nat, NEW upTo, ExportsTo(parsed, n, upTo)
  PROVE  /\ upTo[0] = parsed.contact
         /\ \A k \in 1 .. n : upTo[k] = upTo[k - 1] \o parsed.sections[k].lines
  <1> DEFINE step == [k \in 0 .. n |->
                        IF k = 0 THEN parsed.contact
                        ELSE upTo[k - 1] \o parsed.sections[k].lines]
  <1>1. /\ step[0] = parsed.contact
        /\ \A k \in 1 .. n : step[k] = upTo[k - 1] \o parsed.sections[k].lines
    <2>1. 0 \in 0 .. n /\ \A k \in 1 .. n : k \in 0 .. n /\ k # 0
      OBVIOUS
    <2> QED BY <2>1, Zenon
  <1>2. upTo = step
    BY DEF ExportsTo
  <1> HIDE DEF step
  <1> QED BY <1>1, <1>2

LEMMA ExportExists ==
  ASSUME NEW parsed, NEW n \in Nat
  PROVE  \E upTo : ExportsTo(parsed, n, upTo)
  <1> DEFINE Missing == {m \in Nat : ~\E upTo : ExportsTo(parsed, m, upTo)}
  <1>1. 0 \notin Missing
    <2>1. ExportsTo(parsed, 0, [k \in 0 .. 0 |-> parsed.contact])
      BY DEF ExportsTo
    <2> QED BY <2>1
  <1>2. ASSUME NEW m \in Missing
        PROVE  m - 1 \in Missing
    <2>1. m \in Nat /\ m - 1 \in Nat /\ m # 0
      BY <1>1, <1>2
    <2>2. SUFFICES ASSUME NEW upTo, ExportsTo(parsed, m - 1, upTo)
                   PROVE  FALSE
      BY <2>1
    <2>3. upTo[0] = parsed.contact /\ \A k \in 1 .. m - 1 :
            upTo[k] = upTo[k - 1] \o parsed.sections[k].lines
      BY <2>1, <2>2, ExportStep
    <2> DEFINE more == [k \in 0 .. m |->
                          IF k < m THEN upTo[k]
                          ELSE upTo[m - 1] \o parsed.sections[m].lines]
    <2>4. ASSUME NEW k \in 0 .. m
          PROVE  more[k] = IF k = 0 THEN parsed.contact
                           ELSE more[k - 1] \o parsed.sections[k].lines
      <3>1. CASE k = 0
        BY <2>1, <2>3, <3>1
      <3>2. CASE k # 0 /\ k < m
        <4>1. k \in 1 .. m - 1 /\ k - 1 \in 0 .. m /\ k - 1 < m
          BY <2>1, <3>2
        <4>2. more[k] = upTo[k] /\ more[k - 1] = upTo[k - 1]
          BY <3>2, <4>1
        <4> QED BY <2>3, <3>2, <4>1, <4>2
      <3>3. CASE k = m
        BY <2>1, <3>3
      <3> QED BY <2>1, <3>1, <3>2, <3>3
    <2> HIDE DEF more
    <2>5. more = [k \in 0 .. m |-> more[k]]
      BY DEF more
    <2>6. ExportsTo(parsed, m, more)
      BY <2>4, <2>5 DEF ExportsTo
    <2> QED BY <1>2, <2>6
  <1>3. Missing = {}
    <2>1. SUFFICES ASSUME Missing # {} PROVE FALSE
      OBVIOUS
    <2>2. PICK m \in Missing : \A k \in Missing : m <= k
      BY <2>1, LeastNatural
    <2>3. m - 1 \in Missing
      BY <1>2
    <2> QED BY <2>2, <2>3
  <1> QED BY <1>3

\* An export from section to section.
Exports(parsed, upTo) ==
  /\ upTo[0] = parsed.contact
  /\ \A k \in 1 .. Len(parsed.sections) :
       upTo[k] = upTo[k - 1] \o parsed.sections[k].lines

LEMMA ExportedUpTo ==
  ASSUME NEW S, NEW parsed \in Parses(S)
  PROVE  \E upTo : Exports(parsed, upTo) /\ Exported(parsed) = upTo[Len(parsed.sections)]
  <1>0. Len(parsed.sections) \in Nat
    BY DEF Parses
  <1> DEFINE upTo == CHOOSE upTo : ExportsTo(parsed, Len(parsed.sections), upTo)
  <1>1. ExportsTo(parsed, Len(parsed.sections), upTo)
    BY <1>0, ExportExists
  <1>2. Exported(parsed) = upTo[Len(parsed.sections)]
    BY DEF Exported, ExportsTo
  <1> HIDE DEF upTo
  <1>3. Exports(parsed, upTo)
    BY <1>0, <1>1, ExportStep DEF Exports
  <1> QED BY <1>2, <1>3

\* Two parses with the same first lines.
Alike(p, q, n) ==
  /\ n \in Nat /\ n <= Len(p.sections) /\ n <= Len(q.sections)
  /\ p.contact = q.contact
  /\ \A k \in 1 .. n : p.sections[k].lines = q.sections[k].lines

\* What is exported of them depends on nothing else.
LEMMA ExportsAgree ==
  ASSUME NEW S, NEW p \in Parses(S), NEW q \in Parses(S),
         NEW upTo, Exports(p, upTo), NEW upQ, Exports(q, upQ), NEW n, Alike(p, q, n)
  PROVE  upTo[n] = upQ[n] /\ upTo[n] \in Seq(S)
  <1>0. /\ Len(p.sections) \in Nat /\ Len(q.sections) \in Nat /\ p.contact \in Seq(S)
        /\ n \in Nat /\ n <= Len(p.sections) /\ n <= Len(q.sections)
        /\ p.contact = q.contact
        /\ \A k \in 1 .. n : p.sections[k].lines = q.sections[k].lines
    BY DEF Parses, Alike
  <1> DEFINE Right(m) == upTo[m] = upQ[m] /\ upTo[m] \in Seq(S)
             Wrong == {m \in Nat : m <= n /\ ~Right(m)}
  <1>1. Right(0)
    BY <1>0 DEF Exports
  <1>2. ASSUME NEW m \in 1 .. n, Right(m - 1)
        PROVE  Right(m)
    <2>1. m \in 1 .. Len(p.sections) /\ m \in 1 .. Len(q.sections)
      BY <1>0
    <2>2. p.sections[m].lines \in Seq(S)
      <3>1. p.sections \in Seq(Section(S))
        BY DEF Parses
      <3>2. p.sections[m] \in Section(S)
        BY <2>1, <3>1
      <3> QED BY <3>2 DEF Section
    <2>3. /\ upTo[m] = upTo[m - 1] \o p.sections[m].lines
          /\ upQ[m] = upQ[m - 1] \o q.sections[m].lines
      BY <2>1 DEF Exports
    <2>4. p.sections[m].lines = q.sections[m].lines
      BY <1>0
    <2>5. upTo[m] = upQ[m]
      BY <1>2, <2>3, <2>4
    <2> DEFINE before == upTo[m - 1]
               lines == p.sections[m].lines
    <2>6. before \in Seq(S) /\ lines \in Seq(S) /\ upTo[m] = before \o lines
      BY <1>2, <2>2, <2>3
    <2> HIDE DEF before, lines
    <2>7. upTo[m] \in Seq(S)
      BY <2>6
    <2> QED BY <2>5, <2>7
  <1> HIDE DEF Right
  <1>3. Wrong = {}
    <2>1. SUFFICES ASSUME Wrong # {} PROVE FALSE
      OBVIOUS
    <2>2. PICK m \in Wrong : \A k \in Wrong : m <= k
      BY <2>1, LeastNatural
    <2>3. m \in 1 .. n /\ m - 1 \in Nat /\ m - 1 <= n
      BY <1>0, <1>1
    <2>4. Right(m - 1)
      BY <2>2, <2>3
    <2> QED BY <1>2, <2>3, <2>4
  <1> QED BY <1>0, <1>3 DEF Right

LEMMA ExportedIsText ==
  ASSUME NEW S, NEW p \in Parses(S)
  PROVE  Exported(p) \in Seq(S)
  <1>1. PICK upTo : Exports(p, upTo) /\ Exported(p) = upTo[Len(p.sections)]
    BY ExportedUpTo
  <1>2. Alike(p, p, Len(p.sections))
    BY DEF Parses, Alike
  <1> QED BY <1>1, <1>2, ExportsAgree

-----------------------------------------------------------------------------
(* One line more *)

\* What an empty section at the end adds to an export, and what a line does.
LEMMA HeadingExportsNothing ==
  ASSUME NEW S, NEW p \in Parses(S), NEW l \in S, IsHeading(l)
  PROVE  LET q == ParseLine(p, l) IN
         /\ q \in Parses(S)
         /\ Exported(q) = Exported(p)
         /\ Len(q.sections) = Len(p.sections) + 1
         /\ \A k \in 1 .. Len(p.sections) : q.sections[k] = p.sections[k]
         /\ q.sections[Len(p.sections) + 1].lines = <<>>
  <1> DEFINE q == ParseLine(p, l)
             s == [heading |-> l, lines |-> <<>>]
             len == Len(p.sections)
  <1>1. p.contact \in Seq(S) /\ p.sections \in Seq(Section(S)) /\ len \in Nat
    BY DEF Parses
  <1>2. s \in Section(S) /\ s.lines = <<>>
    BY DEF Section
  <1> HIDE DEF s
  <1>3. q = [p EXCEPT !.sections = Append(@, s)]
    BY BlankIsNoHeading DEF ParseLine, s
  <1> DEFINE sections == Append(p.sections, s)
  <1>4. sections \in Seq(Section(S))
    BY <1>1, <1>2
  <1>5. q.contact = p.contact /\ q.sections = sections /\ q \in Parses(S)
    <2>1. q = [p EXCEPT !.sections = sections]
      BY <1>3
    <2> HIDE DEF q, sections
    <2> QED BY <1>1, <1>4, <2>1 DEF Parses
  <1> HIDE DEF q
  <1>6. /\ Len(q.sections) = len + 1
        /\ \A k \in 1 .. len : q.sections[k] = p.sections[k]
        /\ q.sections[len + 1] = s
    BY <1>1, <1>2, <1>5
  <1>7. PICK upTo : Exports(p, upTo) /\ Exported(p) = upTo[len]
    BY ExportedUpTo
  <1>8. PICK upQ : Exports(q, upQ) /\ Exported(q) = upQ[len + 1]
    BY <1>5, <1>6, ExportedUpTo
  <1>9. upTo[len] = upQ[len] /\ upTo[len] \in Seq(S)
    <2>1. Alike(p, q, len)
      BY <1>1, <1>5, <1>6 DEF Alike
    <2> HIDE DEF len
    <2> QED BY <1>5, <1>7, <1>8, <2>1, ExportsAgree
  <1>10. upQ[len + 1] = upQ[len] \o s.lines
    <2>1. len + 1 \in 1 .. Len(q.sections) /\ (len + 1) - 1 = len
      BY <1>1, <1>6
    <2> QED BY <1>6, <1>8, <2>1 DEF Exports
  <1>11. upQ[len] \o s.lines = upQ[len]
    <2> DEFINE before == upQ[len]
    <2>1. before \in Seq(S)
      BY <1>9
    <2> HIDE DEF before
    <2>2. before \o <<>> = before
      BY <2>1
    <2> QED BY <1>2, <2>2 DEF before
  <1>12. Exported(q) = Exported(p)
    BY <1>7, <1>8, <1>9, <1>10, <1>11
  <1> QED BY <1>2, <1>5, <1>6, <1>12 DEF q

LEMMA ContactIsExported ==
  ASSUME NEW S, NEW p \in Parses(S), NEW l \in S, IsText(l), p.sections = <<>>
  PROVE  LET q == ParseLine(p, l) IN
         /\ q \in Parses(S)
         /\ Exported(q) = Append(Exported(p), l)
         /\ q.sections = <<>>
  <1> DEFINE q == ParseLine(p, l)
  <1>1. p.contact \in Seq(S) /\ Len(p.sections) = 0
    BY DEF Parses
  <1>2. q = [p EXCEPT !.contact = Append(@, l)]
    BY DEF ParseLine, IsText
  <1> DEFINE contact == Append(p.contact, l)
  <1>3. contact \in Seq(S)
    BY <1>1
  <1>4. q.contact = contact /\ q.sections = p.sections /\ q \in Parses(S)
    <2>1. q = [p EXCEPT !.contact = contact]
      BY <1>2
    <2> HIDE DEF q, contact
    <2> QED BY <1>3, <2>1 DEF Parses
  <1> HIDE DEF q
  <1>5. Exported(p) = p.contact
    BY <1>1, ExportedUpTo DEF Exports
  <1>6. Exported(q) = q.contact
    BY <1>1, <1>4, ExportedUpTo DEF Exports
  <1> QED BY <1>4, <1>5, <1>6 DEF q

LEMMA BodyIsExported ==
  ASSUME NEW S, NEW p \in Parses(S), NEW l \in S, IsText(l), p.sections # <<>>
  PROVE  LET q == ParseLine(p, l) IN
         /\ q \in Parses(S)
         /\ Exported(q) = Append(Exported(p), l)
         /\ Len(q.sections) = Len(p.sections)
         /\ \A k \in 1 .. Len(p.sections) - 1 : q.sections[k] = p.sections[k]
         /\ q.sections[Len(p.sections)].lines # <<>>
  <1> DEFINE q == ParseLine(p, l)
             len == Len(p.sections)
             last == p.sections[len]
             now == [last EXCEPT !.lines = Append(@, l)]
  <1>1. p.contact \in Seq(S) /\ p.sections \in Seq(Section(S)) /\ len \in Nat /\ len # 0
    BY DEF Parses
  <1>2. len \in 1 .. Len(p.sections) /\ last \in Section(S)
    BY <1>1
  <1>3. q = [p EXCEPT !.sections[Len(p.sections)].lines = Append(@, l)]
    BY DEF ParseLine, IsText
  <1>4. q = [p EXCEPT !.sections = [p.sections EXCEPT ![len] = now]]
    BY <1>3
  <1>5. /\ now \in Section(S) /\ now.lines = Append(last.lines, l)
        /\ now.lines # <<>> /\ last.lines \in Seq(S)
    <2>1. last.lines \in Seq(S)
      BY <1>2 DEF Section
    <2>2. Append(last.lines, l) \in Seq(S) /\ Append(last.lines, l) # <<>>
      BY <2>1
    <2> HIDE DEF last
    <2> QED BY <1>2, <2>1, <2>2 DEF Section
  <1> HIDE DEF now
  <1>6. /\ q.contact = p.contact /\ q.sections = [p.sections EXCEPT ![len] = now]
        /\ q \in Parses(S)
    <2>1. [p.sections EXCEPT ![len] = now] \in Seq(Section(S))
      BY <1>1, <1>2, <1>5
    <2> QED BY <1>1, <1>4, <2>1 DEF Parses
  <1> HIDE DEF q
  <1>7. /\ Len(q.sections) = len
        /\ \A k \in 1 .. len - 1 : q.sections[k] = p.sections[k]
        /\ q.sections[len] = now
    BY <1>1, <1>2, <1>5, <1>6
  <1>8. PICK upTo : Exports(p, upTo) /\ Exported(p) = upTo[len]
    BY ExportedUpTo
  <1>9. PICK upQ : Exports(q, upQ) /\ Exported(q) = upQ[len]
    BY <1>6, <1>7, ExportedUpTo
  <1>10. upTo[len - 1] = upQ[len - 1] /\ upTo[len - 1] \in Seq(S)
    <2>1. Alike(p, q, len - 1)
      BY <1>1, <1>6, <1>7 DEF Alike
    <2> HIDE DEF len
    <2> QED BY <1>6, <1>8, <1>9, <2>1, ExportsAgree
  <1>11. /\ upTo[len] = upTo[len - 1] \o last.lines
         /\ upQ[len] = upQ[len - 1] \o now.lines
    BY <1>1, <1>2, <1>7, <1>8, <1>9 DEF Exports
  <1>12. upQ[len] = Append(upTo[len], l)
    <2> DEFINE before == upTo[len - 1]
               old == last.lines
    <2>1. before \in Seq(S) /\ old \in Seq(S)
      BY <1>5, <1>10
    <2>2. upTo[len] = before \o old /\ upQ[len] = before \o Append(old, l)
      BY <1>5, <1>10, <1>11
    <2> HIDE DEF before, old
    <2>3. before \o Append(old, l) = Append(before \o old, l)
      BY <2>1
    <2> QED BY <2>2, <2>3
  <1> QED BY <1>5, <1>6, <1>7, <1>8, <1>9, <1>12 DEF q

-----------------------------------------------------------------------------
(* Line by line *)

\* What Structured computes on the way.
ParsesAt(lines, n, parsed) ==
  parsed = [k \in 0 .. n |->
              IF k = 0 THEN NothingParsed ELSE ParseLine(parsed[k - 1], lines[k])]

LEMMA ParseStep ==
  ASSUME NEW lines, NEW n \in Nat, NEW parsed, ParsesAt(lines, n, parsed)
  PROVE  /\ parsed[0] = NothingParsed
         /\ \A k \in 1 .. n : parsed[k] = ParseLine(parsed[k - 1], lines[k])
  <1> DEFINE step == [k \in 0 .. n |->
                        IF k = 0 THEN NothingParsed ELSE ParseLine(parsed[k - 1], lines[k])]
  <1>1. /\ step[0] = NothingParsed
        /\ \A k \in 1 .. n : step[k] = ParseLine(parsed[k - 1], lines[k])
    <2>1. 0 \in 0 .. n /\ \A k \in 1 .. n : k \in 0 .. n /\ k # 0
      OBVIOUS
    <2> QED BY <2>1, Zenon
  <1>2. parsed = step
    BY DEF ParsesAt
  <1> HIDE DEF step
  <1> QED BY <1>1, <1>2

LEMMA ParseExists ==
  ASSUME NEW lines, NEW n \in Nat
  PROVE  \E parsed : ParsesAt(lines, n, parsed)
  <1> DEFINE Missing == {m \in Nat : ~\E parsed : ParsesAt(lines, m, parsed)}
  <1>1. 0 \notin Missing
    <2>1. ParsesAt(lines, 0, [k \in 0 .. 0 |-> NothingParsed])
      BY DEF ParsesAt
    <2> QED BY <2>1
  <1>2. ASSUME NEW m \in Missing
        PROVE  m - 1 \in Missing
    <2>1. m \in Nat /\ m - 1 \in Nat /\ m # 0
      BY <1>1, <1>2
    <2>2. SUFFICES ASSUME NEW parsed, ParsesAt(lines, m - 1, parsed)
                   PROVE  FALSE
      BY <2>1
    <2>3. parsed[0] = NothingParsed /\ \A k \in 1 .. m - 1 :
            parsed[k] = ParseLine(parsed[k - 1], lines[k])
      BY <2>1, <2>2, ParseStep
    <2> DEFINE more == [k \in 0 .. m |->
                          IF k < m THEN parsed[k] ELSE ParseLine(parsed[m - 1], lines[m])]
    <2>4. ASSUME NEW k \in 0 .. m
          PROVE  more[k] = IF k = 0 THEN NothingParsed
                           ELSE ParseLine(more[k - 1], lines[k])
      <3>1. CASE k = 0
        BY <2>1, <2>3, <3>1
      <3>2. CASE k # 0 /\ k < m
        <4>1. k \in 1 .. m - 1 /\ k - 1 \in 0 .. m /\ k - 1 < m
          BY <2>1, <3>2
        <4>2. more[k] = parsed[k] /\ more[k - 1] = parsed[k - 1]
          BY <3>2, <4>1
        <4> QED BY <2>3, <3>2, <4>1, <4>2
      <3>3. CASE k = m
        BY <2>1, <3>3
      <3> QED BY <2>1, <3>1, <3>2, <3>3
    <2> HIDE DEF more
    <2>5. more = [k \in 0 .. m |-> more[k]]
      BY DEF more
    <2>6. ParsesAt(lines, m, more)
      BY <2>4, <2>5 DEF ParsesAt
    <2> QED BY <1>2, <2>6
  <1>3. Missing = {}
    <2>1. SUFFICES ASSUME Missing # {} PROVE FALSE
      OBVIOUS
    <2>2. PICK m \in Missing : \A k \in Missing : m <= k
      BY <2>1, LeastNatural
    <2>3. m - 1 \in Missing
      BY <1>2
    <2> QED BY <2>2, <2>3
  <1> QED BY <1>3

\* Nothing but blank lines stands between a heading and the end.
Open(text, n) ==
  \E h \in 1 .. n : /\ IsHeading(text[h])
                    /\ \A k \in h + 1 .. n : text[k] = Blank

\* Only the last section may be hollow, and only while it is open.
OnlyOpenIsHollow(text, n, parsed) ==
  \A i \in 1 .. Len(parsed.sections) :
    parsed.sections[i].lines = <<>> => i = Len(parsed.sections) /\ Open(text, n)

\* A text of which every heading has a body is never open before a heading or
\* at its end.
LEMMA BodiesClose ==
  ASSUME NEW S, NEW text \in Seq(S), HasBodies(text)
  PROVE  /\ ~Open(text, Len(text))
         /\ \A n \in 1 .. Len(text) : IsHeading(text[n]) => ~Open(text, n - 1)
  <1>0. Len(text) \in Nat
    OBVIOUS
  <1>1. ASSUME NEW h \in 1 .. Len(text), IsHeading(text[h]), NEW n \in h .. Len(text),
               \A k \in h + 1 .. n : text[k] = Blank
        PROVE  n < Len(text) /\ ~IsHeading(text[n + 1])
    <2>1. PICK j \in FirstBelow(text, h) : ~IsHeading(text[j])
      BY <1>1 DEF HasBodies, HasBody
    <2>2. /\ j \in h + 1 .. Len(text) /\ text[j] # Blank
          /\ \A k \in h + 1 .. j - 1 : text[k] = Blank
      BY DEF FirstBelow
    <2>3. n < j
      BY <1>0, <1>1, <2>2
    <2>4. j = n + 1 \/ text[n + 1] = Blank
      BY <1>0, <1>1, <2>2, <2>3
    <2> QED BY <1>0, <2>1, <2>2, <2>3, <2>4, BlankIsNoHeading
  <1>2. ~Open(text, Len(text))
    BY <1>0, <1>1 DEF Open
  <1>3. ASSUME NEW n \in 1 .. Len(text), IsHeading(text[n]), Open(text, n - 1)
        PROVE  FALSE
    <2>1. PICK h \in 1 .. n - 1 : /\ IsHeading(text[h])
                                  /\ \A k \in h + 1 .. n - 1 : text[k] = Blank
      BY <1>3 DEF Open
    <2>2. h \in 1 .. Len(text) /\ n - 1 \in h .. Len(text) /\ (n - 1) + 1 = n
      BY <1>0
    <2> QED BY <1>1, <1>3, <2>1, <2>2
  <1> QED BY <1>2, <1>3

LEMMA OneLineParsed ==
  ASSUME NEW S, NEW text \in Seq(S), HasBodies(text), NEW n \in 1 .. Len(text),
         NEW p \in Parses(S), OnlyOpenIsHollow(text, n - 1, p)
  PROVE  LET q == ParseLine(p, text[n]) IN
         /\ q \in Parses(S)
         /\ OnlyOpenIsHollow(text, n, q)
         /\ Exported(q) = IF IsText(text[n]) THEN Append(Exported(p), text[n])
                          ELSE Exported(p)
  <1> DEFINE l == text[n]
             q == ParseLine(p, l)
             len == Len(p.sections)
  <1>1. l \in S /\ n \in Nat /\ len \in Nat
    BY DEF Parses
  <1>2. CASE l = Blank
    <2>1. q = p /\ ~IsText(l)
      BY <1>2, BlankIsNoHeading DEF ParseLine, IsText
    <2>2. Open(text, n - 1) => Open(text, n)
      <3>1. SUFFICES ASSUME NEW h \in 1 .. n - 1, IsHeading(text[h]),
                            \A k \in h + 1 .. n - 1 : text[k] = Blank
                     PROVE  Open(text, n)
        BY DEF Open
      <3>2. h \in 1 .. n /\ \A k \in h + 1 .. n : k = n \/ k \in h + 1 .. n - 1
        BY <1>1
      <3> QED BY <1>2, <3>1, <3>2 DEF Open
    <2>3. OnlyOpenIsHollow(text, n, p)
      BY <2>2 DEF OnlyOpenIsHollow
    <2> QED BY <2>1, <2>3
  <1>3. CASE IsHeading(l)
    <2>1. /\ q \in Parses(S) /\ Exported(q) = Exported(p)
          /\ Len(q.sections) = len + 1
          /\ \A k \in 1 .. len : q.sections[k] = p.sections[k]
      BY <1>1, <1>3, HeadingExportsNothing
    <2>2. Open(text, n)
      <3>1. n \in 1 .. n /\ \A k \in n + 1 .. n : text[k] = Blank
        BY <1>1
      <3> QED BY <1>3, <3>1 DEF Open
    <2>3. ~Open(text, n - 1)
      BY <1>3, BodiesClose
    <2> HIDE DEF q
    <2>4. ASSUME NEW i \in 1 .. Len(q.sections), q.sections[i].lines = <<>>
          PROVE  i = Len(q.sections)
      <3>1. i = len + 1 \/ i \in 1 .. len
        BY <1>1, <2>1
      <3>2. i \notin 1 .. len
        BY <2>1, <2>3, <2>4 DEF OnlyOpenIsHollow
      <3> QED BY <2>1, <3>1, <3>2
    <2>5. OnlyOpenIsHollow(text, n, q)
      BY <2>2, <2>4 DEF OnlyOpenIsHollow
    <2>6. ~IsText(l)
      BY <1>3 DEF IsText
    <2> QED BY <2>1, <2>5, <2>6 DEF q
  <1>4. CASE IsText(l) /\ p.sections = <<>>
    <2>1. q \in Parses(S) /\ Exported(q) = Append(Exported(p), l) /\ q.sections = <<>>
      BY <1>1, <1>4, ContactIsExported
    <2> HIDE DEF q
    <2>2. OnlyOpenIsHollow(text, n, q)
      BY <2>1 DEF OnlyOpenIsHollow
    <2> QED BY <1>4, <2>1, <2>2 DEF q
  <1>5. CASE IsText(l) /\ p.sections # <<>>
    <2>1. /\ q \in Parses(S) /\ Exported(q) = Append(Exported(p), l)
          /\ Len(q.sections) = len
          /\ \A k \in 1 .. len - 1 : q.sections[k] = p.sections[k]
          /\ q.sections[len].lines # <<>>
      BY <1>1, <1>5, BodyIsExported
    <2> HIDE DEF q
    <2>2. ASSUME NEW i \in 1 .. Len(q.sections)
          PROVE  q.sections[i].lines # <<>>
      <3>1. i = len \/ i \in 1 .. len - 1
        BY <1>1, <2>1
      <3>2. CASE i \in 1 .. len - 1
        <4>1. i \in 1 .. len /\ i # len
          BY <1>1, <3>2
        <4> QED BY <2>1, <3>2, <4>1 DEF OnlyOpenIsHollow
      <3> QED BY <2>1, <3>1, <3>2
    <2>3. OnlyOpenIsHollow(text, n, q)
      BY <2>2 DEF OnlyOpenIsHollow
    <2> QED BY <1>5, <2>1, <2>3 DEF q
  <1> QED BY <1>2, <1>3, <1>4, <1>5 DEF IsText

\* A text of which every heading has a body is parsed into sections that all
\* have one, and exported with every line of it.
LEMMA ReadWhole ==
  ASSUME NEW S, NEW text \in Seq(S), HasBodies(text)
  PROVE  /\ EmptySections(text) = {}
         /\ \A i \in DOMAIN Structured(text).sections :
              Structured(text).sections[i].lines # <<>>
         /\ Exported(Structured(text))
              = KeptAt(text, {i \in DOMAIN text : text[i] # Blank /\ ~IsHeading(text[i])})
  <1>0. Len(text) \in Nat /\ DOMAIN text = 1 .. Len(text)
    OBVIOUS
  <1> DEFINE places == {i \in DOMAIN text : text[i] # Blank /\ ~IsHeading(text[i])}
             kept == CHOOSE kept : KeepsAt(text, places, Len(text), kept)
             parsed == CHOOSE parsed : ParsesAt(text, Len(text), parsed)
  <1>1. KeepsAt(text, places, Len(text), kept) /\ ParsesAt(text, Len(text), parsed)
    <2> HIDE DEF places
    <2> QED BY <1>0, KeepExists, ParseExists
  <1>2. KeptAt(text, places) = kept[Len(text)] /\ Structured(text) = parsed[Len(text)]
    <2>1. KeptAt(text, places) = kept[Len(text)]
      BY DEF KeptAt, KeepsAt
    <2>2. Structured(text) = parsed[Len(text)]
      BY DEF Structured, ParsesAt
    <2> QED BY <2>1, <2>2
  <1>3. \A n \in 1 .. Len(text) : n \in places <=> IsText(text[n])
    BY <1>0 DEF IsText
  <1> HIDE DEF places, kept, parsed
  <1>4. kept[0] = <<>> /\ \A k \in 1 .. Len(text) :
          kept[k] = IF IsText(text[k]) THEN Append(kept[k - 1], text[k]) ELSE kept[k - 1]
    BY <1>0, <1>1, <1>3, KeepStep
  <1>5. parsed[0] = NothingParsed /\ \A k \in 1 .. Len(text) :
          parsed[k] = ParseLine(parsed[k - 1], text[k])
    BY <1>0, <1>1, ParseStep
  <1> DEFINE Right(n) == /\ parsed[n] \in Parses(S)
                         /\ OnlyOpenIsHollow(text, n, parsed[n])
                         /\ Exported(parsed[n]) = kept[n]
             Wrong == {n \in Nat : n <= Len(text) /\ ~Right(n)}
  <1>6. Right(0)
    <2>1. /\ NothingParsed \in Parses(S) /\ NothingParsed.sections = <<>>
          /\ NothingParsed.contact = <<>> /\ Len(<<>>) = 0
      BY DEF NothingParsed, Parses
    <2>2. OnlyOpenIsHollow(text, 0, NothingParsed)
      BY <2>1 DEF OnlyOpenIsHollow
    <2>3. Exported(NothingParsed) = <<>>
      BY <2>1, ExportedUpTo DEF Exports
    <2> QED BY <1>4, <1>5, <2>1, <2>2, <2>3
  <1>7. ASSUME NEW n \in 1 .. Len(text), Right(n - 1)
        PROVE  Right(n)
    <2> DEFINE p == parsed[n - 1]
    <2>1. parsed[n] = ParseLine(p, text[n])
      BY <1>5
    <2>2. p \in Parses(S) /\ OnlyOpenIsHollow(text, n - 1, p) /\ Exported(p) = kept[n - 1]
      BY <1>7
    <2> HIDE DEF p
    <2>3. /\ ParseLine(p, text[n]) \in Parses(S)
          /\ OnlyOpenIsHollow(text, n, ParseLine(p, text[n]))
          /\ Exported(ParseLine(p, text[n]))
               = IF IsText(text[n]) THEN Append(Exported(p), text[n]) ELSE Exported(p)
      BY <2>2, OneLineParsed
    <2> QED BY <1>4, <2>1, <2>2, <2>3
  <1> HIDE DEF Right
  <1>8. Wrong = {}
    <2>1. SUFFICES ASSUME Wrong # {} PROVE FALSE
      OBVIOUS
    <2>2. PICK n \in Wrong : \A k \in Wrong : n <= k
      BY <2>1, LeastNatural
    <2>3. n \in 1 .. Len(text) /\ n - 1 \in Nat /\ n - 1 <= Len(text)
      BY <1>0, <1>6
    <2>4. Right(n - 1)
      BY <2>2, <2>3
    <2> QED BY <1>7, <2>3, <2>4
  <1>9. Right(Len(text))
    BY <1>0, <1>8
  <1>10. /\ Structured(text) \in Parses(S)
         /\ OnlyOpenIsHollow(text, Len(text), Structured(text))
         /\ Exported(Structured(text)) = KeptAt(text, places)
    BY <1>2, <1>9 DEF Right
  <1>11. \A i \in DOMAIN Structured(text).sections :
           Structured(text).sections[i].lines # <<>>
    <2>1. DOMAIN Structured(text).sections = 1 .. Len(Structured(text).sections)
      BY <1>10 DEF Parses
    <2> QED BY <1>10, <2>1, BodiesClose DEF OnlyOpenIsHollow
  <1>12. EmptySections(text) = {}
    BY <1>0 DEF EmptySections, HasBodies, HasBody
  <1> QED BY <1>10, <1>11, <1>12 DEF places

-----------------------------------------------------------------------------
(* The résumés read whole *)

\* Every heading of a résumé has a body from the moment it is guarded.
ReadableInv ==
  /\ \A w \in Writers :
       writing[w].stage \in {"counting", "adding"} /\ writing[w].kind = "tailored_resume"
         => HasBodies(writing[w].content)
  /\ \A d \in StoredVersions("tailored_resume") :
       d.content \in Seq(Lines) /\ HasBodies(d.content)

LEMMA AdvanceStaysReadable ==
  ASSUME DocumentsInv, ReadableInv, NEW w \in Writers, NEW entry, Advance(w, entry),
         UNCHANGED documents,
         entry.stage \in {"counting", "adding"} /\ entry.kind = "tailored_resume"
           => HasBodies(entry.content)
  PROVE  ReadableInv'
  <1>1. /\ writing'[w] = entry
        /\ \A v \in Writers \ {w} : writing'[v] = writing[v]
    BY DEF DocumentsInv, RequestTypes, Advance
  <1>2. \A v \in Writers :
          writing'[v].stage \in {"counting", "adding"} /\ writing'[v].kind = "tailored_resume"
            => HasBodies(writing'[v].content)
    BY <1>1 DEF ReadableInv
  <1>3. StoredVersions("tailored_resume")' = StoredVersions("tailored_resume")
    BY DEF StoredVersions
  <1> QED BY <1>2, <1>3 DEF ReadableInv

LEMMA KeepStaysReadable ==
  ASSUME DocumentsInv, ReadableInv, NEW w \in Writers, NEW draft \in Drafts, NEW content,
         Keep(w, Guarded(w, draft), content),
         writing[w].kind = "tailored_resume"
           => content = DropEmptySections(Guarded(w, draft).lines)
  PROVE  ReadableInv'
  <1> DEFINE guarded == Guarded(w, draft)
             entry == IF HasAttestedContent(guarded)
                      THEN [writing[w] EXCEPT !.stage = "counting", !.content = content,
                                              !.sources = guarded.sources]
                      ELSE Left(w)
  <1>1. Advance(w, entry) /\ UNCHANGED documents /\ writing[w] \in Requested
    BY DEF Keep, DocumentsInv, RequestTypes
  <1>2. guarded.lines \in Seq(Lines)
    <2> DEFINE text == NormalizePlainText(draft)
               passes == {i \in DOMAIN text :
                            Unsupported(text[i], writing[w].facts, Context) = {}}
    <2>1. text \in Seq(Lines)
      BY DraftsAreTexts, NormalizedIsText
    <2>2. guarded.lines = KeptAt(text, passes)
      BY DEF Guarded, Enforced
    <2> HIDE DEF text, passes, guarded
    <2> QED BY <2>1, <2>2, KeptLines
  <1> HIDE DEF guarded
  <1>3. HasBodies(DropEmptySections(guarded.lines))
    BY <1>2, ClearedHasBodies
  <1>4. CASE HasAttestedContent(guarded)
    <2>1. entry.kind = writing[w].kind /\ entry.content = content
      BY <1>1, <1>4 DEF Requested
    <2> HIDE DEF entry
    <2> QED BY <1>1, <1>3, <2>1, AdvanceStaysReadable DEF guarded
  <1>5. CASE ~HasAttestedContent(guarded)
    <2>1. entry.stage = "ended"
      BY <1>5, NotWritingIsRequested
    <2> HIDE DEF entry
    <2> QED BY <1>1, <2>1, AdvanceStaysReadable
  <1> QED BY <1>4, <1>5

LEMMA StepStaysReadable ==
  ASSUME DocumentsInv, ReadableInv, [DocumentsNext]_documentVars
  PROVE  ReadableInv'
  <1>1. CASE UNCHANGED <<writing, documents>>
    BY <1>1 DEF ReadableInv, StoredVersions
  <1>2. ASSUME NEW w \in Writers, NEW kind \in DocumentKinds, BeginWriting(w, kind)
        PROVE  ReadableInv'
    <2> DEFINE entry == IF known = NoProfileYet THEN Left(w)
                        ELSE [NotWriting EXCEPT !.stage = "profile read", !.kind = kind,
                                                !.facts = ProfileFacts(known)]
    <2>1. Advance(w, entry) /\ UNCHANGED documents
      BY <1>2 DEF BeginWriting
    <2>2. entry.stage \in {"ended", "profile read"}
      BY NotWritingIsRequested DEF NotWriting
    <2> HIDE DEF entry
    <2> QED BY <2>1, <2>2, AdvanceStaysReadable
  <1>3. ASSUME NEW w \in Writers, ReadAnswers(w)
        PROVE  ReadableInv'
    <2> DEFINE entry == [writing[w] EXCEPT
                           !.stage = "writing",
                           !.facts = @ \cup {AnswerFact(m) : m \in remembered}]
    <2>1. Advance(w, entry) /\ UNCHANGED documents /\ writing[w] \in Requested
      BY <1>3 DEF ReadAnswers, DocumentsInv, RequestTypes
    <2>2. entry.stage = "writing"
      BY <2>1 DEF Requested
    <2> HIDE DEF entry
    <2> QED BY <2>1, <2>2, AdvanceStaysReadable
  <1>4. ASSUME NEW w \in Writers, NEW draft \in Drafts, GenerateTailoredResume(w, draft)
        PROVE  ReadableInv'
    BY <1>4, KeepStaysReadable DEF GenerateTailoredResume
  <1>5. ASSUME NEW w \in Writers, NEW draft \in Drafts, GenerateCoverLetter(w, draft)
        PROVE  ReadableInv'
    BY <1>5, KeepStaysReadable DEF GenerateCoverLetter
  <1>6. ASSUME NEW w \in Writers, NEW draft \in Drafts, ReviseGeneratedDocument(w, draft)
        PROVE  ReadableInv'
    BY <1>6, KeepStaysReadable DEF ReviseGeneratedDocument
  <1>7. ASSUME NEW w \in Writers, CountVersions(w)
        PROVE  ReadableInv'
    <2> DEFINE entry == [writing[w] EXCEPT
                           !.stage = "adding",
                           !.counted = Cardinality(StoredVersions(writing[w].kind))]
    <2>1. /\ Advance(w, entry) /\ UNCHANGED documents /\ writing[w] \in Requested
          /\ writing[w].stage = "counting"
      BY <1>7 DEF CountVersions, Stage, DocumentsInv, RequestTypes
    <2>2. entry.kind = writing[w].kind /\ entry.content = writing[w].content
      BY <2>1 DEF Requested
    <2> HIDE DEF entry
    <2> QED BY <2>1, <2>2, AdvanceStaysReadable DEF ReadableInv
  <1>8. ASSUME NEW w \in Writers, AddDocument(w)
        PROVE  ReadableInv'
    <2> DEFINE s == Snapshot(w)
    <2>1. /\ Advance(w, Left(w)) /\ documents' \subseteq documents \cup {s}
          /\ writing[w] \in Requested /\ writing[w].stage = "adding"
      BY <1>8 DEF AddDocument, Stage, DocumentsInv, RequestTypes
    <2>2. /\ s.kind = writing[w].kind /\ s.content = writing[w].content
          /\ s.content \in Seq(Lines)
      BY <2>1 DEF Snapshot, Requested
    <2> HIDE DEF s
    <2>3. /\ writing'[w].stage = "ended"
          /\ \A v \in Writers \ {w} : writing'[v] = writing[v]
      BY <2>1, NotWritingIsRequested DEF DocumentsInv, RequestTypes, Advance
    <2>4. ASSUME NEW d \in documents', d.kind = "tailored_resume"
          PROVE  d.content \in Seq(Lines) /\ HasBodies(d.content)
      <3>1. CASE d = s
        BY <2>1, <2>2, <2>4, <3>1 DEF ReadableInv
      <3>2. CASE d \in documents
        BY <2>4, <3>2 DEF ReadableInv, StoredVersions
      <3> QED BY <2>1, <3>1, <3>2
    <2>5. \A v \in Writers :
            writing'[v].stage \in {"counting", "adding"}
              /\ writing'[v].kind = "tailored_resume" => HasBodies(writing'[v].content)
      BY <2>3 DEF ReadableInv
    <2> QED BY <2>4, <2>5 DEF ReadableInv, StoredVersions
  <1>9. ASSUME NEW w \in Writers, WritingFails(w)
        PROVE  ReadableInv'
    <2>1. Advance(w, Left(w)) /\ UNCHANGED documents /\ Left(w).stage = "ended"
      BY <1>9, NotWritingIsRequested DEF WritingFails
    <2> QED BY <2>1, AdvanceStaysReadable
  <1>10. CASE EraseEverything
    BY <1>10 DEF EraseEverything, ReadableInv, StoredVersions
  <1>11. CASE \/ UNCHANGED documentVars
              \/ \E facets \in Facets : SaveFacets(facets)
              \/ \E reply \in Replies : ResolveGap(reply)
              \/ FillForm
              \/ \E kind \in DocumentKinds : AskForDocument(kind)
              \/ ParkForm \/ PassFails \/ FileSubmission
    BY <1>1, <1>11 DEF documentVars, SaveFacets, ResolveGap, FillForm, AskForDocument,
           ParkForm, PassFails, FileSubmission
  <1> QED BY <1>2, <1>3, <1>4, <1>5, <1>6, <1>7, <1>8, <1>9, <1>10, <1>11 DEF DocumentsNext

\* Whatever a model drafts or a candidate rewrites, no résumé is stored with a
\* hollow section, and an export of it loses no line: what the guard and the
\* clearing of empty sections leave behind is what resume_structure_parser
\* reads as a whole.
THEOREM ResumesAreWhole == DocumentsSpec => []ResumesReadWhole
  <1>1. DocumentsInit => ReadableInv
    BY DEF DocumentsInit, NothingWritten, NotWriting, ReadableInv, StoredVersions
  <1>2. DocumentsInv /\ ReadableInv /\ [DocumentsNext]_documentVars => ReadableInv'
    BY StepStaysReadable
  <1>3. ReadableInv => ResumesReadWhole
    BY ReadWhole DEF ReadableInv, ResumesReadWhole
  <1> QED BY <1>1, <1>2, <1>3, DocumentsIsInvariant, PTL DEF DocumentsSpec
=============================================================================
