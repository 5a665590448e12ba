---------------------- MODULE ApplicationReviews_proofs ----------------------
(***************************************************************************)
(* Proofs about reviews and the hand-offs that gate them, for any          *)
(* requests, identifiers, fields and values.                               *)
(***************************************************************************)
EXTENDS ApplicationReviews, TLAPS

-----------------------------------------------------------------------------
(* The hand-offs by themselves *)

\* Where a request is updating a hand-off.
UpdatingHandoff ==
  {"handoff_reread", "clearing_to_open", "handoff_flush", "flushing_to_open"}

\* Types, and a request updating a hand-off knows which.
HandoffInv ==
  /\ HandoffTypeOK
  /\ pc = [q \in Requests |-> pc[q]]
  /\ \A p \in Requests : pc[p] \in UpdatingHandoff => hTarget[p] \in HandoffIds

HandoffNext == \/ \E p \in Requests : HandoffStep(p)
               \/ AllAnswered /\ UNCHANGED <<handoffVars, serving>>

-----------------------------------------------------------------------------
(* Types of the hand-offs *)

LEMMA UnusedIsRow == UnusedHandoff \in HandoffRow /\ UnusedHandoff.status = "unused"
  BY DEF UnusedHandoff, HandoffRow, HandoffStatuses, Notes

LEMMA HandoffInitTyped ==
  HandoffInit /\ InitServing => HandoffInv
  <1> SUFFICES ASSUME HandoffInit, InitServing
               PROVE  HandoffInv
    OBVIOUS
  <1>1. HandoffTypeOK
    BY UnusedIsRow DEF HandoffInit, HandoffTypeOK
  <1>2. \A p \in Requests : pc[p] = "idle"
    BY DEF InitServing
  <1>3. pc = [q \in Requests |-> pc[q]]
    BY DEF InitServing
  <1> QED BY <1>1, <1>2, <1>3 DEF HandoffInv, UpdatingHandoff

LEMMA RaisedIsRow ==
  ASSUME NEW p \in Requests PROVE RaisedBy(p) \in HandoffRow
  BY DEF RaisedBy, HandoffRow, HandoffStatuses, Notes

LEMMA RedetectedIsRow ==
  ASSUME NEW h \in HandoffRow, NEW p \in Requests
  PROVE  Redetected(h, p) \in HandoffRow
  BY DEF Redetected, HandoffRow

LEMMA ResolvedIsRow ==
  ASSUME NEW h \in HandoffRow, NEW p \in Requests,
         NEW status \in {"resumed", "abandoned"}, NEW note \in Notes
  PROVE  Resolved(h, p, status, note) \in HandoffRow
  BY DEF Resolved, HandoffRow, HandoffStatuses

LEMMA MergedIsRow ==
  ASSUME NEW row \in HandoffRow, NEW read \in HandoffRow, NEW entity \in HandoffRow
  PROVE  MergedHandoff(row, read, entity) \in HandoffRow
  BY DEF MergedHandoff, Written, HandoffRow

\* A request that changes nothing but where it stands, and does not start
\* an update.
LEMMA MovingOnIsTyped ==
  ASSUME HandoffInv, NEW p \in Requests, NEW label,
         label \notin UpdatingHandoff, Goto(p, label), UNCHANGED handoffVars
  PROVE  HandoffInv'
  BY DEF HandoffInv, HandoffTypeOK, Goto, handoffVars

LEMMA ForgettingIsTyped ==
  ASSUME HandoffInv, NEW p \in Requests, NEW label,
         label \notin UpdatingHandoff, Goto(p, label), ForgetHandoff(p),
         handoffs' \in [HandoffIds -> HandoffRow]
  PROVE  HandoffInv'
  BY UnusedIsRow DEF HandoffInv, HandoffTypeOK, Goto, ForgetHandoff

LEMMA BeginningIsTyped ==
  ASSUME HandoffInv, NEW p \in Requests, NEW label, Goto(p, label),
         NEW i \in HandoffIds, NEW want \in HandoffRow,
         BeginHandoffUpdate(p, i, want)
  PROVE  HandoffInv'
  BY DEF HandoffInv, HandoffTypeOK, Goto, BeginHandoffUpdate

\* Every step of a request serving a hand-off keeps the types.
LEMMA StepTyped ==
  ASSUME HandoffInv, NEW p \in Requests, HandoffStep(p)
  PROVE  HandoffInv'
  <1> USE DEF UpdatingHandoff
  <1>1. ASSUME NEW opensReview \in BOOLEAN, BeginInspection(p, opensReview)
        PROVE  HandoffInv'
    BY <1>1, MovingOnIsTyped DEF BeginInspection
  <1>2. ASSUME InspectionStops(p) \/ InspectionFindsForm(p) \/ InspectionFails(p)
        PROVE  HandoffInv'
    BY <1>2, MovingOnIsTyped DEF InspectionStops, InspectionFindsForm, InspectionFails
  <1>3. ASSUME NEW i \in HandoffIds,
               InspectionStopsAgain(p, i) \/ InspectionClears(p, i)
        PROVE  HandoffInv'
    <2>1. handoffs[i] \in HandoffRow
      BY DEF HandoffInv, HandoffTypeOK
    <2>2. /\ Redetected(handoffs[i], p) \in HandoffRow
          /\ Resolved(handoffs[i], p, "resumed", "cleared") \in HandoffRow
      BY <2>1, RedetectedIsRow, ResolvedIsRow DEF Notes
    <2> QED BY <1>3, <2>2, BeginningIsTyped DEF InspectionStopsAgain, InspectionClears
  <1>4. ASSUME NEW i \in HandoffIds, RaiseHandoff(p, i)
        PROVE  HandoffInv'
    BY <1>4, RaisedIsRow DEF RaiseHandoff, Goto, HandoffInv, HandoffTypeOK
  <1>5. ASSUME RaiseHandoffConflicts(p)
        PROVE  HandoffInv'
    BY <1>5, MovingOnIsTyped DEF RaiseHandoffConflicts
  <1>6. ASSUME RereadHandoff(p)
        PROVE  HandoffInv'
    BY <1>6 DEF RereadHandoff, Goto, HandoffInv, HandoffTypeOK
  <1>7. ASSUME FlushHandoff(p)
        PROVE  HandoffInv'
    <2>1. HandoffAfterFlush(p) \in HandoffRow
      BY <1>7, MergedIsRow
         DEF FlushHandoff, HandoffAfterFlush, HandoffInv, HandoffTypeOK
    <2> QED BY <1>7, <2>1, ForgettingIsTyped
            DEF FlushHandoff, HandoffInv, HandoffTypeOK
  <1>8. ASSUME FlushHandoffConflicts(p) \/ Die(p)
        PROVE  HandoffInv'
    BY <1>8, ForgettingIsTyped
       DEF FlushHandoffConflicts, Die, CutShort, HandoffInv, HandoffTypeOK
  <1>9. ASSUME NEW i \in HandoffIds, NEW note \in {"", "candidate"},
               NEW status \in {"resumed", "abandoned"},
               ResolveHandoff(p, i, status, note)
        PROVE  HandoffInv'
    <2>1. Resolved(handoffs[i], p, status, note) \in HandoffRow
      BY ResolvedIsRow DEF HandoffInv, HandoffTypeOK, Notes
    <2> QED BY <1>9, <2>1, BeginningIsTyped DEF ResolveHandoff
  <1>10. ASSUME NEW i \in HandoffIds, ResolveHandoffRefused(p, i)
         PROVE  HandoffInv'
    BY <1>10, MovingOnIsTyped DEF ResolveHandoffRefused
  <1> QED
    BY <1>1, <1>2, <1>3, <1>4, <1>5, <1>6, <1>7, <1>8, <1>9, <1>10
       DEF HandoffStep, HandoffStart, HandoffProgress

LEMMA NextTyped == HandoffInv /\ [HandoffNext]_<<handoffVars, serving>> => HandoffInv'
  <1>1. HandoffInv /\ UNCHANGED <<handoffVars, serving>> => HandoffInv'
    BY DEF HandoffInv, HandoffTypeOK, handoffVars, serving
  <1> QED BY <1>1, StepTyped DEF HandoffNext

LEMMA HandoffInvHolds == HandoffSpec => []HandoffInv
  BY HandoffInitTyped, NextTyped, PTL DEF HandoffSpec, HandoffNext

\* The table and the requests keep their types.
THEOREM HandoffTypeCorrect == HandoffSpec => []HandoffTypeOK
  BY HandoffInvHolds, PTL DEF HandoffInv

-----------------------------------------------------------------------------
(* One open hand-off *)

\* Only a raise and a flush change the table, and both go through the index.
LEMMA StepKeepsOneOpen ==
  ASSUME HandoffInv, OneOpenHandoff, NEW p \in Requests, HandoffStep(p)
  PROVE  OneOpenHandoff'
  <1> USE DEF HandoffInv, HandoffTypeOK
  <1>1. ASSUME NEW i \in HandoffIds, NEW row, HandoffIndexAllows(i, row),
               handoffs' = [handoffs EXCEPT ![i] = row]
        PROVE  OneOpenHandoff'
    BY <1>1 DEF HandoffIndexAllows, OpenHandoffs, IsAwaiting, OneOpenHandoff
  <1>2. ASSUME NEW i \in HandoffIds, RaiseHandoff(p, i)
        PROVE  OneOpenHandoff'
    BY <1>1, <1>2 DEF RaiseHandoff
  <1>3. ASSUME FlushHandoff(p)
        PROVE  OneOpenHandoff'
    BY <1>1, <1>3 DEF FlushHandoff, UpdatingHandoff
  <1>4. CASE UNCHANGED handoffs
    BY <1>4 DEF OneOpenHandoff, IsAwaiting
  <1> QED
    BY <1>2, <1>3, <1>4
       DEF HandoffStep, HandoffStart, HandoffProgress, BeginInspection,
           InspectionStops, InspectionStopsAgain, InspectionClears,
           InspectionFindsForm, InspectionFails, RaiseHandoffConflicts,
           RereadHandoff, FlushHandoffConflicts, ResolveHandoff,
           ResolveHandoffRefused, Die, BeginHandoffUpdate, handoffVars

LEMMA InitiallyNoneOpen == HandoffInit => OneOpenHandoff
  <1>1. HandoffInit => \A i \in HandoffIds : ~IsAwaiting(i)
    BY UnusedIsRow DEF HandoffInit, IsAwaiting
  <1> QED BY <1>1 DEF OneOpenHandoff

\* However inspections and resolutions interleave, at most one hand-off of
\* the posting awaits the candidate.
THEOREM AtMostOneOpenHandoff == HandoffSpec => []OneOpenHandoff
  <1>1. HandoffInv /\ OneOpenHandoff /\ [HandoffNext]_<<handoffVars, serving>>
          => OneOpenHandoff'
    <2>1. OneOpenHandoff /\ UNCHANGED <<handoffVars, serving>> => OneOpenHandoff'
      BY DEF OneOpenHandoff, IsAwaiting, handoffVars
    <2> QED BY <2>1, StepKeepsOneOpen DEF HandoffNext
  <1> QED BY <1>1, HandoffInvHolds, InitiallyNoneOpen, PTL
          DEF HandoffSpec, HandoffNext

-----------------------------------------------------------------------------
(* Hand-offs while requests do not overlap *)

\* What a request may be about to store: a hand-off that can be read back
\* and whose note belongs to its resolution.
Sound(h) ==
  /\ h.status # "unused"
  /\ HandoffReadable(h)
  /\ h.note = "cleared" => h.status = "resumed"

\* One request at a time, still updating the row it read.
SerialInv ==
  /\ HandoffInv
  /\ \A p, q \in Requests : InFlight(p) /\ InFlight(q) => p = q
  /\ \A i \in HandoffIds : handoffs[i].status # "unused" => Sound(handoffs[i])
  /\ \A i \in HandoffIds : handoffs[i].status = "unused" => handoffs[i].note = ""
  /\ \A p \in Requests : pc[p] \in UpdatingHandoff =>
       IsAwaiting(hTarget[p]) /\ Sound(hWant[p])
  /\ \A p \in Requests : pc[p] \in {"handoff_flush", "flushing_to_open"} =>
       hRead[p] = handoffs[hTarget[p]]

LEMMA MergeOfUnchangedRow ==
  ASSUME NEW row \in HandoffRow, NEW entity \in HandoffRow
  PROVE  MergedHandoff(row, row, entity) = entity
  BY DEF MergedHandoff, Written, HandoffRow

LEMMA RedetectedIsSound ==
  ASSUME NEW h \in HandoffRow, NEW p \in Requests,
         h.status = "awaiting_user", HandoffReadable(h)
  PROVE  Sound(Redetected(h, p))
  BY DEF Redetected, Sound, HandoffReadable, HandoffRow

LEMMA ResolvedIsSound ==
  ASSUME NEW h \in HandoffRow, NEW p \in Requests, NEW note \in Notes,
         NEW status \in {"resumed", "abandoned"},
         note = "cleared" => status = "resumed"
  PROVE  Sound(Resolved(h, p, status, note))
  BY NoOneIsNoRequest DEF Resolved, Sound, HandoffReadable, HandoffRow

LEMMA RaisedIsSound ==
  ASSUME NEW p \in Requests
  PROVE  Sound(RaisedBy(p))
  BY DEF RaisedBy, Sound, HandoffReadable

\* While p is being served nobody else is.
LEMMA OnlyOneServed ==
  ASSUME SerialInv, ~overlapped', NEW p \in Requests, NEW label,
         Goto(p, label), InFlight(p) \/ MayStart(p)
  PROVE  /\ pc'[p] = label
         /\ \A q \in Requests : InFlight(q)' => q = p
         /\ \A q \in Requests \ {p} : pc'[q] \notin UpdatingHandoff
  <1>1. \A q \in Requests : InFlight(q) => q = p
    BY DEF MayStart, SerialInv, Goto, InFlight
  <1>2. pc'[p] = label /\ \A q \in Requests : q # p => pc'[q] = pc[q]
    BY DEF SerialInv, HandoffInv, Goto
  <1> QED BY <1>1, <1>2 DEF InFlight, Ended, UpdatingHandoff

LEMMA StepSerial ==
  ASSUME SerialInv, ~overlapped', NEW p \in Requests, HandoffStep(p)
  PROVE  SerialInv' /\ \A i \in HandoffIds :
           handoffs[i].status \in {"resumed", "abandoned"}
             => handoffs'[i] = handoffs[i]
  <1>t. HandoffInv /\ HandoffInv'
    BY StepTyped DEF SerialInv
  \* A step that leaves the table alone and starts no update.
  <1>a. ASSUME NEW label, label \notin UpdatingHandoff, Goto(p, label),
               InFlight(p) \/ MayStart(p), UNCHANGED handoffs
        PROVE  SerialInv'
    <2>1. \A q \in Requests : InFlight(q)' => q = p
      BY <1>a, OnlyOneServed
    <2>2. \A q \in Requests : pc'[q] \notin UpdatingHandoff
      BY <1>a, OnlyOneServed
    <2> QED BY <1>a, <2>1, <2>2, <1>t DEF SerialInv, UpdatingHandoff
  \* A step that starts an update of an awaiting hand-off.
  <1>b. ASSUME NEW label \in {"handoff_reread", "clearing_to_open"},
               Goto(p, label), InFlight(p) \/ MayStart(p),
               NEW i \in HandoffIds, IsAwaiting(i), NEW want, Sound(want),
               BeginHandoffUpdate(p, i, want)
        PROVE  SerialInv'
    <2>1. hTarget'[p] = i /\ hWant'[p] = want /\ UNCHANGED handoffs
      BY <1>b, <1>t DEF BeginHandoffUpdate, HandoffInv, HandoffTypeOK
    <2> QED BY <1>b, <2>1, <1>t, OnlyOneServed
            DEF SerialInv, HandoffInv, IsAwaiting, UpdatingHandoff
  \* A step that writes a sound row over one that is not resolved.
  <1>c. ASSUME NEW label, label \notin UpdatingHandoff, Goto(p, label), InFlight(p),
               NEW i \in HandoffIds, NEW row, Sound(row),
               handoffs[i].status \in {"unused", "awaiting_user"},
               handoffs' = [handoffs EXCEPT ![i] = row]
        PROVE  SerialInv' /\ \A j \in HandoffIds :
                 handoffs[j].status \in {"resumed", "abandoned"}
                   => handoffs'[j] = handoffs[j]
    <2>1. /\ handoffs'[i] = row
          /\ \A j \in HandoffIds \ {i} : handoffs'[j] = handoffs[j]
      BY <1>c, <1>t DEF HandoffInv, HandoffTypeOK
    <2>2. row.status # "unused"
      BY <1>c DEF Sound
    <2>3. \A q \in Requests : InFlight(q)' => q = p
      BY <1>c, OnlyOneServed
    <2>4. \A q \in Requests : pc'[q] \notin UpdatingHandoff
      BY <1>c, OnlyOneServed
    <2>5. SerialInv'
      BY <1>c, <2>1, <2>2, <2>3, <2>4, <1>t DEF SerialInv, UpdatingHandoff
    <2> QED BY <1>c, <2>1, <2>5
  <1>1. ASSUME NEW opensReview \in BOOLEAN, BeginInspection(p, opensReview)
        PROVE  SerialInv' /\ UNCHANGED handoffs
    BY <1>1, <1>a DEF BeginInspection, UpdatingHandoff, handoffVars
  <1>2. ASSUME \/ InspectionStops(p) \/ InspectionFindsForm(p)
               \/ InspectionFails(p) \/ RaiseHandoffConflicts(p)
        PROVE  SerialInv' /\ UNCHANGED handoffs
    BY <1>2, <1>a
       DEF InspectionStops, InspectionFindsForm, InspectionFails,
           RaiseHandoffConflicts, UpdatingHandoff, handoffVars, InFlight, Ended,
           Browsing
  <1>3. ASSUME NEW i \in HandoffIds, InspectionStopsAgain(p, i)
        PROVE  SerialInv' /\ UNCHANGED handoffs
    <2>1. Sound(Redetected(handoffs[i], p)) /\ IsAwaiting(i) /\ InFlight(p)
      BY <1>3, <1>t, RedetectedIsSound
         DEF InspectionStopsAgain, OpenHandoffs, IsAwaiting, HandoffInv,
             HandoffTypeOK, InFlight, Ended, Browsing
    <2> QED BY <1>3, <2>1, <1>b DEF InspectionStopsAgain, BeginHandoffUpdate
  <1>4. ASSUME NEW i \in HandoffIds, InspectionClears(p, i)
        PROVE  SerialInv' /\ UNCHANGED handoffs
    <2>1. /\ Sound(Resolved(handoffs[i], p, "resumed", "cleared"))
          /\ IsAwaiting(i)
          /\ InFlight(p)
      BY <1>4, <1>t, ResolvedIsSound
         DEF InspectionClears, OpenHandoffs, HandoffInv, HandoffTypeOK, Notes,
             InFlight, Ended, Browsing
    <2> QED BY <1>4, <2>1, <1>b DEF InspectionClears, BeginHandoffUpdate
  <1>5. ASSUME NEW i \in HandoffIds, NEW note \in {"", "candidate"},
               NEW status \in {"resumed", "abandoned"},
               ResolveHandoff(p, i, status, note)
        PROVE  SerialInv' /\ UNCHANGED handoffs
    <2>1. Sound(Resolved(handoffs[i], p, status, note))
      BY <1>t, ResolvedIsSound DEF HandoffInv, HandoffTypeOK, Notes
    <2> QED BY <1>5, <2>1, <1>b DEF ResolveHandoff, BeginHandoffUpdate
  <1>6. ASSUME NEW i \in HandoffIds, ResolveHandoffRefused(p, i)
        PROVE  SerialInv' /\ UNCHANGED handoffs
    BY <1>6, <1>a DEF ResolveHandoffRefused, UpdatingHandoff, handoffVars
  <1>7. ASSUME FlushHandoffConflicts(p) \/ Die(p)
        PROVE  SerialInv' /\ UNCHANGED handoffs
    BY <1>7, <1>a
       DEF FlushHandoffConflicts, Die, CutShort, UpdatingHandoff, InFlight, Ended
  <1>8. ASSUME RereadHandoff(p)
        PROVE  SerialInv' /\ UNCHANGED handoffs
    <2>1. InFlight(p) /\ pc[p] \in UpdatingHandoff
      BY <1>8 DEF RereadHandoff, InFlight, Ended, UpdatingHandoff
    <2>2. /\ hRead'[p] = handoffs[hTarget[p]]
          /\ UNCHANGED <<handoffs, hTarget, hWant>>
      BY <1>8, <1>t DEF RereadHandoff, HandoffInv, HandoffTypeOK
    <2> QED BY <1>8, <2>1, <2>2, <1>t, OnlyOneServed
            DEF RereadHandoff, SerialInv, IsAwaiting, UpdatingHandoff
  <1>9. ASSUME NEW i \in HandoffIds, RaiseHandoff(p, i)
        PROVE  SerialInv' /\ \A j \in HandoffIds :
                 handoffs[j].status \in {"resumed", "abandoned"}
                   => handoffs'[j] = handoffs[j]
    <2>1. InFlight(p)
      BY <1>9 DEF RaiseHandoff, InFlight, Ended
    <2> QED BY <1>9, <2>1, <1>c, RaisedIsSound DEF RaiseHandoff, UpdatingHandoff
  <1>10. ASSUME FlushHandoff(p)
         PROVE  SerialInv' /\ \A j \in HandoffIds :
                  handoffs[j].status \in {"resumed", "abandoned"}
                    => handoffs'[j] = handoffs[j]
    <2>1. InFlight(p) /\ hTarget[p] \in HandoffIds
      BY <1>10, <1>t DEF FlushHandoff, InFlight, Ended, HandoffInv, UpdatingHandoff
    <2>2. /\ hRead[p] = handoffs[hTarget[p]]
          /\ Sound(hWant[p])
          /\ handoffs[hTarget[p]].status = "awaiting_user"
      BY <1>10 DEF FlushHandoff, SerialInv, UpdatingHandoff, IsAwaiting
    <2>3. HandoffAfterFlush(p) = hWant[p]
      BY <2>1, <2>2, <1>t, MergeOfUnchangedRow
         DEF HandoffAfterFlush, HandoffInv, HandoffTypeOK
    <2>4. handoffs' = [handoffs EXCEPT ![hTarget[p]] = hWant[p]]
      BY <1>10, <2>3 DEF FlushHandoff
    <2> QED BY <1>10, <2>1, <2>2, <2>4, <1>c DEF FlushHandoff, UpdatingHandoff
  <1>11. UNCHANGED handoffs => \A j \in HandoffIds : handoffs'[j] = handoffs[j]
    OBVIOUS
  <1> QED
    BY <1>1, <1>2, <1>3, <1>4, <1>5, <1>6, <1>7, <1>8, <1>9, <1>10, <1>11
       DEF HandoffStep, HandoffStart, HandoffProgress

LEMMA InitSerial ==
  HandoffInit /\ InitServing => SerialInv
  <1> SUFFICES ASSUME HandoffInit, InitServing
               PROVE  SerialInv
    OBVIOUS
  <1>1. \A p \in Requests : pc[p] = "idle"
    BY DEF InitServing
  <1>2. \A i \in HandoffIds : handoffs[i].status = "unused" /\ handoffs[i].note = ""
    BY DEF HandoffInit, UnusedHandoff
  <1> QED BY <1>1, <1>2, HandoffInitTyped
          DEF SerialInv, InFlight, UpdatingHandoff

LEMMA OverlapStays ==
  ASSUME NEW p \in Requests, HandoffStep(p), ~overlapped'
  PROVE  ~overlapped
  BY DEF HandoffStep, HandoffStart, HandoffProgress, BeginInspection,
         InspectionStops, InspectionStopsAgain, InspectionClears,
         InspectionFindsForm, InspectionFails, RaiseHandoff,
         RaiseHandoffConflicts, RereadHandoff, FlushHandoff,
         FlushHandoffConflicts, ResolveHandoff, ResolveHandoffRefused, Die,
         CutShort, Goto

LEMMA NextSerial ==
  Serially(SerialInv) /\ [HandoffNext]_<<handoffVars, serving>> =>
    /\ Serially(SerialInv)'
    /\ [\A i \in HandoffIds :
          ~overlapped' /\ handoffs[i].status \in {"resumed", "abandoned"}
            => handoffs'[i] = handoffs[i]]_handoffs
  <1> SUFFICES ASSUME Serially(SerialInv), [HandoffNext]_<<handoffVars, serving>>
               PROVE  /\ Serially(SerialInv)'
                      /\ [\A i \in HandoffIds :
                            /\ ~overlapped'
                            /\ handoffs[i].status \in {"resumed", "abandoned"}
                            => handoffs'[i] = handoffs[i]]_handoffs
    OBVIOUS
  <1>1. CASE UNCHANGED <<handoffVars, serving>>
    <2>1. ASSUME SerialInv PROVE SerialInv'
      <3>1. HandoffInv'
        BY <1>1, <2>1, NextTyped DEF SerialInv
      <3> QED BY <1>1, <2>1, <3>1
              DEF SerialInv, handoffVars, serving, InFlight, IsAwaiting
    <2> QED BY <1>1, <2>1 DEF Serially, serving, handoffVars
  <1>2. ASSUME NEW p \in Requests, HandoffStep(p)
        PROVE  /\ Serially(SerialInv)'
               /\ \A i \in HandoffIds :
                    ~overlapped' /\ handoffs[i].status \in {"resumed", "abandoned"}
                      => handoffs'[i] = handoffs[i]
    <2> SUFFICES ASSUME ~overlapped'
                 PROVE  /\ SerialInv'
                        /\ \A i \in HandoffIds :
                             handoffs[i].status \in {"resumed", "abandoned"}
                               => handoffs'[i] = handoffs[i]
      BY DEF Serially
    <2>1. SerialInv
      BY <1>2, OverlapStays DEF Serially
    <2> QED BY <1>2, <2>1, StepSerial
  <1> QED BY <1>1, <1>2 DEF HandoffNext, handoffVars, serving

\* Until requests overlap, a resolved hand-off is never rewritten or
\* reopened.
THEOREM ResolvedOnceSerially == HandoffSpec => ResolvedOnce
  <1>1. HandoffInit /\ InitServing => Serially(SerialInv)
    BY InitSerial DEF Serially
  <1> QED BY <1>1, NextSerial, PTL DEF HandoffSpec, HandoffNext, ResolvedOnce

\* Until then every stored hand-off can be read back, and its note is the
\* note of its own resolution.
THEOREM HandoffsSoundSerially ==
  HandoffSpec => [](HandoffsReadable /\ ResolutionIsOneRequests)
  <1>1. Serially(SerialInv) => HandoffsReadable /\ ResolutionIsOneRequests
    <2> SUFFICES ASSUME SerialInv
                 PROVE  HandoffsReadable /\ ResolutionIsOneRequests
      BY DEF Serially, HandoffsReadable, ResolutionIsOneRequests
    <2>1. ASSUME NEW i \in HandoffIds, handoffs[i].note = "cleared"
          PROVE  handoffs[i].status = "resumed"
      BY <2>1 DEF SerialInv, Sound
    <2> QED BY <2>1
            DEF SerialInv, Sound, Serially, HandoffsReadable, ResolutionIsOneRequests
  <1>2. HandoffInit /\ InitServing => Serially(SerialInv)
    BY InitSerial DEF Serially
  <1> QED BY <1>1, <1>2, NextSerial, PTL DEF HandoffSpec, HandoffNext

-----------------------------------------------------------------------------
(* Reviews and hand-offs together *)

\* Where a request works on a stored review.
Targeting == Rereading \cup Flushing \cup {"submit_checking", "logging"}

\* Types of both components, and a request working on a review knows which.
ReviewInv ==
  /\ TypeOK
  /\ HandoffInv
  /\ \A p \in Requests : pc[p] \in Targeting => rTarget[p] \in ReviewIds

-----------------------------------------------------------------------------
(* Types of the reviews *)

LEMMA UnansweredIsAnswer == Unanswered \in Answer
  BY DEF Unanswered, Answer, Origins, Blank

LEMMA UnusedReviewIsRow ==
  UnusedReview \in ReviewRow /\ UnusedReview.status = "unused"
  <1>1. [f \in Fields |-> Unanswered] \in [Fields -> Answer]
    BY UnansweredIsAnswer
  <1> QED BY <1>1 DEF UnusedReview, ReviewRow, ReviewStatuses

LEMMA FilledIsAnswer == FilledAnswers \subseteq Answer
  <1>1. \A v \in Values :
          [value |-> v, origin |-> "autofilled", decided |-> FALSE] \in Answer
    BY DEF Answer, Origins
  <1> QED BY <1>1, UnansweredIsAnswer DEF FilledAnswers

LEMMA RevisionIsAnswer ==
  ASSUME NEW a \in Answer PROVE Revisions(a) \subseteq Answer
  <1>1. Declined(a) \in Answer /\ Confirmed(a) \in Answer
    BY DEF Declined, Confirmed, Answer, Origins, Blank
  <1>2. \A v \in Values : Answered(a, v) \in Answer
    BY DEF Answered, Answer, Origins, Blank
  <1> QED BY <1>1, <1>2 DEF Revisions

LEMMA DraftIsRow ==
  ASSUME NEW answers \in [Fields -> FilledAnswers]
  PROVE  LET draft == [UnusedReview EXCEPT !.status = "in_review",
                                           !.answers = answers]
         IN /\ draft \in ReviewRow
            /\ draft.status = "in_review"
            /\ ReviewReadable(draft)
  <1>1. answers \in [Fields -> Answer]
    BY FilledIsAnswer
  <1> QED BY <1>1 DEF UnusedReview, ReviewRow, ReviewStatuses, ReviewReadable

LEMMA RevisedIsRow ==
  ASSUME NEW r \in ReviewRow, NEW f \in Fields, NEW a \in Answer
  PROVE  LET revised == [r EXCEPT !.answers[f] = a]
         IN /\ revised \in ReviewRow
            /\ revised.status = r.status
            /\ revised.submittedAt = r.submittedAt
            /\ revised.note = r.note
  BY DEF ReviewRow

LEMMA SubmittedIsRow ==
  ASSUME NEW r \in ReviewRow, NEW p \in Requests, NEW note \in {"", "candidate"}
  PROVE  LET sent == Submitted(r, p, note)
         IN /\ sent \in ReviewRow
            /\ sent.status = "submitted_by_user"
            /\ sent.answers = r.answers
            /\ ReviewReadable(sent)
  BY NoOneIsNoRequest DEF Submitted, ReviewRow, ReviewStatuses, ReviewReadable

LEMMA MergedReviewIsRow ==
  ASSUME NEW row \in ReviewRow, NEW read \in ReviewRow, NEW entity \in ReviewRow
  PROVE  MergedReview(row, read, entity) \in ReviewRow
  BY DEF MergedReview, Written, ReviewRow

LEMMA DeletedIsRow ==
  LET gone == [UnusedReview EXCEPT !.status = "deleted"]
  IN gone \in ReviewRow /\ gone.status = "deleted"
  BY UnusedReviewIsRow DEF ReviewRow, ReviewStatuses

LEMMA ReviewInitTyped == Init => ReviewInv
  <1> SUFFICES ASSUME Init PROVE ReviewInv
    OBVIOUS
  <1>1. HandoffInv
    BY HandoffInitTyped DEF Init
  <1>2. /\ pc \in [Requests -> Labels] /\ overlapped \in BOOLEAN
        /\ \A p \in Requests : pc[p] = "idle"
    BY DEF Init, InitServing, Labels
  <1>3. TypeOK
    BY <1>1, <1>2, UnusedReviewIsRow DEF Init, ReviewInit, TypeOK, HandoffInv
  <1> QED BY <1>1, <1>2, <1>3 DEF ReviewInv, Targeting, Rereading, Flushing

\* A step of a hand-off goes to a label of the hand-offs.
LEMMA HandoffStepLabels ==
  ASSUME pc \in [Requests -> Labels], NEW p \in Requests, HandoffStep(p)
  PROVE  /\ pc' \in [Requests -> Labels]
         /\ pc'[p] \notin Targeting
         /\ \A q \in Requests \ {p} : pc'[q] = pc[q]
  <1>1. ASSUME NEW label \in Labels \ Targeting, Goto(p, label)
        PROVE  /\ pc' \in [Requests -> Labels]
               /\ pc'[p] \notin Targeting
               /\ \A q \in Requests \ {p} : pc'[q] = pc[q]
    BY <1>1 DEF Goto
  <1>2. /\ Ended \cup Browsing \cup UpdatingHandoff \subseteq Labels \ Targeting
        /\ {"raising", "inspected"} \subseteq Labels \ Targeting
    BY DEF Labels, Ended, Browsing, UpdatingHandoff, Targeting, Rereading, Flushing
  <1>3. \E label \in Labels \ Targeting : Goto(p, label)
    BY <1>2 DEF HandoffStep, HandoffStart, HandoffProgress, BeginInspection,
           InspectionStops, InspectionStopsAgain, InspectionClears,
           InspectionFindsForm, InspectionFails, RaiseHandoff,
           RaiseHandoffConflicts, RereadHandoff, FlushHandoff,
           FlushHandoffConflicts, ResolveHandoff, ResolveHandoffRefused, Die,
           CutShort, Ended, Browsing, UpdatingHandoff
  <1> QED BY <1>1, <1>3

\* A step of the reviews: the hand-offs stay, one request moves on, and what
\* it wrote has its type.
LEMMA ReviewStepIsTyped ==
  ASSUME ReviewInv, NEW p \in Requests, NEW label \in Labels \ UpdatingHandoff,
         Goto(p, label), UNCHANGED handoffVars,
         reviews' \in [ReviewIds -> ReviewRow],
         tracked' \subseteq ReviewIds,
         rTarget' \in [Requests -> ReviewIds \cup {NoOne}],
         rWant' \in [Requests -> ReviewRow],
         rRead' \in [Requests -> ReviewRow],
         rNote' \in [Requests -> {"", "candidate"}],
         label \in Targeting => rTarget'[p] \in ReviewIds,
         \A q \in Requests \ {p} : rTarget'[q] = rTarget[q]
  PROVE  ReviewInv'
  <1>1. HandoffInv'
    BY MovingOnIsTyped DEF ReviewInv
  <1>2. pc' \in [Requests -> Labels] /\ pc'[p] = label
        /\ \A q \in Requests \ {p} : pc'[q] = pc[q]
    BY DEF Goto, ReviewInv, TypeOK
  <1>3. overlapped' \in BOOLEAN
    BY DEF Goto, ReviewInv, TypeOK
  <1>4. TypeOK'
    BY <1>1, <1>2, <1>3 DEF TypeOK, HandoffInv
  <1> QED BY <1>1, <1>2, <1>4 DEF ReviewInv

\* A request that is over and forgets what it held.
LEMMA ForgettingReviewIsTyped ==
  ASSUME ReviewInv, NEW p \in Requests, NEW label \in Ended, Goto(p, label),
         UNCHANGED handoffVars, ForgetReview(p),
         reviews' \in [ReviewIds -> ReviewRow],
         tracked' \subseteq ReviewIds
  PROVE  ReviewInv'
  <1>1. label \in Labels \ UpdatingHandoff /\ label \notin Targeting
    BY DEF Labels, Ended, UpdatingHandoff, Targeting, Rereading, Flushing
  <1>2. /\ rTarget' \in [Requests -> ReviewIds \cup {NoOne}]
        /\ rWant' \in [Requests -> ReviewRow]
        /\ rRead' \in [Requests -> ReviewRow]
        /\ rNote' \in [Requests -> {"", "candidate"}]
        /\ \A q \in Requests \ {p} : rTarget'[q] = rTarget[q]
    BY UnusedReviewIsRow DEF ForgetReview, ReviewInv, TypeOK
  <1> QED BY <1>1, <1>2, ReviewStepIsTyped

LEMMA EndingIsTyped ==
  ASSUME ReviewInv, NEW p \in Requests, NEW outcome \in Ended, End(p, outcome)
  PROVE  ReviewInv'
  BY ForgettingReviewIsTyped DEF End, ReviewInv, TypeOK


\* A step of the hand-offs, whatever becomes of the request's review.
LEMMA HandoffStepInReviewTyped ==
  ASSUME ReviewInv, NEW p \in Requests, HandoffStep(p),
         UNCHANGED reviewVars \/ (ForgetReview(p) /\ UNCHANGED <<reviews, tracked>>)
  PROVE  ReviewInv'
  <1>1. /\ HandoffInv'
        /\ pc' \in [Requests -> Labels]
        /\ pc'[p] \notin Targeting
        /\ \A q \in Requests \ {p} : pc'[q] = pc[q]
        /\ overlapped' \in BOOLEAN
    <2>1. overlapped' \in BOOLEAN
      BY DEF HandoffStep, HandoffStart, HandoffProgress, BeginInspection,
             InspectionStops, InspectionStopsAgain, InspectionClears,
             InspectionFindsForm, InspectionFails, RaiseHandoff,
             RaiseHandoffConflicts, RereadHandoff, FlushHandoff,
             FlushHandoffConflicts, ResolveHandoff, ResolveHandoffRefused, Die,
             CutShort, Goto, ReviewInv, TypeOK
    <2> QED BY <2>1, StepTyped, HandoffStepLabels DEF ReviewInv, TypeOK
  <1>2. /\ reviews' \in [ReviewIds -> ReviewRow]
        /\ tracked' \subseteq ReviewIds
        /\ rTarget' \in [Requests -> ReviewIds \cup {NoOne}]
        /\ rWant' \in [Requests -> ReviewRow]
        /\ rRead' \in [Requests -> ReviewRow]
        /\ rNote' \in [Requests -> {"", "candidate"}]
        /\ \A q \in Requests \ {p} : rTarget'[q] = rTarget[q]
    <2>1. CASE UNCHANGED reviewVars
      BY <2>1 DEF reviewVars, ReviewInv, TypeOK
    <2>2. CASE ForgetReview(p) /\ UNCHANGED <<reviews, tracked>>
      BY <2>2, UnusedReviewIsRow DEF ForgetReview, ReviewInv, TypeOK
    <2> QED BY <2>1, <2>2
  <1>3. TypeOK'
    BY <1>1, <1>2 DEF TypeOK, HandoffInv
  <1> QED BY <1>1, <1>2, <1>3 DEF ReviewInv

LEMMA ReviewLabels ==
  /\ {"superseding", "adding_review", "review_reread", "submit_checking",
      "submit_reread", "review_flush", "submit_flush", "logging",
      "browsing_to_open"} \cup Ended \subseteq Labels \ UpdatingHandoff
  /\ {"superseding", "adding_review", "browsing_to_open"} \cap Targeting = {}
  /\ Rereading \cup Flushing \cup {"submit_checking", "logging"} \subseteq Targeting
  BY DEF Labels, Ended, UpdatingHandoff, Targeting, Rereading, Flushing, Browsing

\* Opening a review keeps the types.
LEMMA OpeningTyped ==
  ASSUME ReviewInv, NEW p \in Requests,
         \/ BeginInspection(p, TRUE) /\ UNCHANGED reviewVars
         \/ \E answers \in [Fields -> FilledAnswers] : OpenDecide(p, answers)
         \/ OpenHandedOff(p)
         \/ Supersede(p)
         \/ \E i \in ReviewIds : AddReview(p, i)
         \/ AddReviewConflicts(p)
  PROVE  ReviewInv'
  <1>1. ASSUME BeginInspection(p, TRUE), UNCHANGED reviewVars
        PROVE  ReviewInv'
    <2>1. Goto(p, "browsing_to_open") /\ UNCHANGED handoffVars
      BY <1>1 DEF BeginInspection
    <2> QED BY <1>1, <2>1, ReviewLabels, ReviewStepIsTyped
            DEF reviewVars, ReviewInv, TypeOK
  <1>2. ASSUME NEW answers \in [Fields -> FilledAnswers], OpenDecide(p, answers)
        PROVE  ReviewInv'
    <2>1. rWant' \in [Requests -> ReviewRow]
      BY <1>2, DraftIsRow DEF OpenDecide, ReviewInv, TypeOK
    <2> QED BY <1>2, <2>1, ReviewLabels, ReviewStepIsTyped
            DEF OpenDecide, ReviewInv, TypeOK
  <1>3. ASSUME OpenHandedOff(p) \/ AddReviewConflicts(p)
        PROVE  ReviewInv'
    BY <1>3, EndingIsTyped DEF OpenHandedOff, AddReviewConflicts, Ended
  <1>4. ASSUME Supersede(p)
        PROVE  ReviewInv'
    <2>1. reviews' \in [ReviewIds -> ReviewRow]
      BY <1>4, DeletedIsRow DEF Supersede, ReviewInv, TypeOK
    <2> QED BY <1>4, <2>1, ReviewLabels, ReviewStepIsTyped
            DEF Supersede, ReviewInv, TypeOK
  <1>5. ASSUME NEW i \in ReviewIds, AddReview(p, i)
        PROVE  ReviewInv'
    <2>1. reviews' \in [ReviewIds -> ReviewRow]
      BY <1>5 DEF AddReview, ReviewInv, TypeOK
    <2>2. "ok" \in Ended
      BY DEF Ended
    <2> QED BY <1>5, <2>1, <2>2, ForgettingReviewIsTyped
            DEF AddReview, ReviewInv, TypeOK
  <1> QED BY <1>1, <1>2, <1>3, <1>4, <1>5

\* So do the decisions about a stored review, before anything is written.
LEMMA DecidingTyped ==
  ASSUME ReviewInv, NEW p \in Requests,
         \/ \E i \in ReviewIds, f \in Fields :
              \E a \in Revisions(reviews[i].answers[f]) : Revise(p, i, f, a)
         \/ \E i \in ReviewIds : ReviseRefused(p, i)
         \/ \E i \in ReviewIds, note \in {"", "candidate"} : SubmitRead(p, i, note)
         \/ SubmitDecide(p)
         \/ SubmitRefused(p)
  PROVE  ReviewInv'
  <1>1. ASSUME NEW i \in ReviewIds, NEW f \in Fields,
               NEW a \in Revisions(reviews[i].answers[f]), Revise(p, i, f, a)
        PROVE  ReviewInv'
    <2>0. reviews[i] \in ReviewRow
      BY DEF ReviewInv, TypeOK
    <2>1. reviews[i].answers[f] \in Answer
      BY <2>0 DEF ReviewRow
    <2>2. [reviews[i] EXCEPT !.answers[f] = a] \in ReviewRow
      BY <2>0, <2>1, RevisionIsAnswer, RevisedIsRow
    <2>3. rWant' \in [Requests -> ReviewRow]
      BY <1>1, <2>2 DEF Revise, ReviewInv, TypeOK
    <2>4. /\ rTarget' \in [Requests -> ReviewIds \cup {NoOne}]
          /\ rTarget'[p] \in ReviewIds
          /\ \A q \in Requests \ {p} : rTarget'[q] = rTarget[q]
      BY <1>1 DEF Revise, ReviewInv, TypeOK
    <2> QED BY <1>1, <2>3, <2>4, ReviewLabels, ReviewStepIsTyped
            DEF Revise, ReviewInv, TypeOK
  <1>2. ASSUME (\E i \in ReviewIds : ReviseRefused(p, i)) \/ SubmitRefused(p)
        PROVE  ReviewInv'
    BY <1>2, EndingIsTyped DEF ReviseRefused, SubmitRefused, Ended
  <1>3. ASSUME NEW i \in ReviewIds, NEW note \in {"", "candidate"},
               SubmitRead(p, i, note)
        PROVE  ReviewInv'
    <2>1. rWant' \in [Requests -> ReviewRow] /\ rNote' \in [Requests -> {"", "candidate"}]
      BY <1>3 DEF SubmitRead, ReviewInv, TypeOK
    <2>2. /\ rTarget' \in [Requests -> ReviewIds \cup {NoOne}]
          /\ rTarget'[p] \in ReviewIds
          /\ \A q \in Requests \ {p} : rTarget'[q] = rTarget[q]
      BY <1>3 DEF SubmitRead, ReviewInv, TypeOK
    <2> QED BY <1>3, <2>1, <2>2, ReviewLabels, ReviewStepIsTyped
            DEF SubmitRead, ReviewInv, TypeOK
  <1>4. ASSUME SubmitDecide(p)
        PROVE  ReviewInv'
    <2>1. Submitted(rWant[p], p, rNote[p]) \in ReviewRow
      BY SubmittedIsRow DEF ReviewInv, TypeOK
    <2>2. rWant' \in [Requests -> ReviewRow]
      BY <1>4, <2>1 DEF SubmitDecide, ReviewInv, TypeOK
    <2>3. rTarget[p] \in ReviewIds
      BY <1>4 DEF SubmitDecide, ReviewInv, Targeting
    <2> QED BY <1>4, <2>2, <2>3, ReviewLabels, ReviewStepIsTyped
            DEF SubmitDecide, ReviewInv, TypeOK
  <1> QED BY <1>1, <1>2, <1>3, <1>4

\* And so do the two halves of an update and the logging behind it.
LEMMA StoringTyped ==
  ASSUME ReviewInv, NEW p \in Requests,
         \/ RereadReview(p) \/ RereadFindsNothing(p)
         \/ FlushReview(p) \/ FlushReviewFails(p)
         \/ LogSubmission(p) \/ LogSwallowed(p)
  PROVE  ReviewInv'
  <1>t. pc[p] \in Targeting => rTarget[p] \in ReviewIds
    BY DEF ReviewInv
  <1>e. {"ok", "failed"} \subseteq Ended
    BY DEF Ended
  <1>1. ASSUME RereadReview(p)
        PROVE  ReviewInv'
    <2>1. rTarget[p] \in ReviewIds
      BY <1>1, <1>t, ReviewLabels DEF RereadReview
    <2>2. rRead' \in [Requests -> ReviewRow]
      BY <1>1, <2>1 DEF RereadReview, ReviewInv, TypeOK
    <2>3. \E label \in {"review_flush", "submit_flush"} : Goto(p, label)
      BY <1>1 DEF RereadReview
    <2> QED BY <1>1, <2>1, <2>2, <2>3, ReviewLabels, ReviewStepIsTyped
            DEF RereadReview, ReviewInv, TypeOK
  <1>2. ASSUME RereadFindsNothing(p) \/ FlushReviewFails(p) \/ LogSwallowed(p)
        PROVE  ReviewInv'
    BY <1>2, <1>e, EndingIsTyped DEF RereadFindsNothing, FlushReviewFails, LogSwallowed
  <1>3. ASSUME FlushReview(p)
        PROVE  ReviewInv'
    <2>1. rTarget[p] \in ReviewIds
      BY <1>3, <1>t, ReviewLabels DEF FlushReview
    <2>2. ReviewAfterFlush(p) \in ReviewRow
      BY <2>1, MergedReviewIsRow DEF ReviewAfterFlush, ReviewInv, TypeOK
    <2>3. reviews' \in [ReviewIds -> ReviewRow]
      BY <1>3, <2>1, <2>2 DEF FlushReview, ReviewInv, TypeOK
    <2>4. CASE Goto(p, "logging") /\ UNCHANGED <<rTarget, rWant, rRead, rNote>>
      BY <1>3, <2>1, <2>3, <2>4, ReviewLabels, ReviewStepIsTyped
         DEF FlushReview, ReviewInv, TypeOK
    <2>5. CASE Goto(p, "ok") /\ ForgetReview(p)
      BY <1>3, <2>3, <2>5, <1>e, ForgettingReviewIsTyped
         DEF FlushReview, ReviewInv, TypeOK
    <2> QED BY <1>3, <2>4, <2>5 DEF FlushReview
  <1>4. ASSUME LogSubmission(p)
        PROVE  ReviewInv'
    <2>1. rTarget[p] \in ReviewIds
      BY <1>4, <1>t, ReviewLabels DEF LogSubmission
    <2> QED BY <1>4, <2>1, <1>e, ForgettingReviewIsTyped
            DEF LogSubmission, ReviewInv, TypeOK
  <1> QED BY <1>1, <1>2, <1>3, <1>4

\* What one request can do, in the groups the proofs treat together.
LEMMA StepGroups ==
  ASSUME NEW p \in Requests, Step(p)
  PROVE  \/ /\ HandoffStep(p)
            /\ \/ UNCHANGED reviewVars
               \/ ForgetReview(p) /\ UNCHANGED <<reviews, tracked>>
         \/ BeginInspection(p, TRUE) /\ UNCHANGED reviewVars
         \/ \E answers \in [Fields -> FilledAnswers] : OpenDecide(p, answers)
         \/ OpenHandedOff(p)
         \/ Supersede(p)
         \/ \E i \in ReviewIds : AddReview(p, i)
         \/ AddReviewConflicts(p)
         \/ \E i \in ReviewIds, f \in Fields :
              \E a \in Revisions(reviews[i].answers[f]) : Revise(p, i, f, a)
         \/ \E i \in ReviewIds : ReviseRefused(p, i)
         \/ \E i \in ReviewIds, note \in {"", "candidate"} : SubmitRead(p, i, note)
         \/ SubmitDecide(p)
         \/ SubmitRefused(p)
         \/ RereadReview(p)
         \/ RereadFindsNothing(p)
         \/ FlushReview(p)
         \/ FlushReviewFails(p)
         \/ LogSubmission(p)
         \/ LogSwallowed(p)
  BY ZenonT(30) DEF Step, ReviewStart, ReviewProgress, DieInReview, HandoffStep

LEMMA ReviewStepTyped ==
  ASSUME ReviewInv, NEW p \in Requests, Step(p)
  PROVE  ReviewInv'
  BY StepGroups, HandoffStepInReviewTyped, OpeningTyped, DecidingTyped,
     StoringTyped, ZenonT(60)

LEMMA ReviewNextTyped == ReviewInv /\ [Next]_vars => ReviewInv'
  <1>1. ASSUME ReviewInv, UNCHANGED vars
        PROVE  ReviewInv'
    BY <1>1 DEF vars, serving, reviewVars, handoffVars, ReviewInv, HandoffInv, TypeOK,
                HandoffTypeOK
  <1> QED BY <1>1, ReviewStepTyped DEF Next

LEMMA ReviewInvHolds == Spec => []ReviewInv
  BY ReviewInitTyped, ReviewNextTyped, PTL DEF Spec

\* The tables and the requests keep their types, hand-offs included.
THEOREM TypeCorrect == Spec => []TypeOK
  BY ReviewInvHolds, PTL DEF ReviewInv

-----------------------------------------------------------------------------
(* One review in progress, one open hand-off, and drafts that stay gone *)

\* What a request may do to the reviews: nothing, replace the drafts, add one
\* under the index, or flush one that is still there under the index.
LEMMA TableSteps ==
  ASSUME ReviewInv, NEW p \in Requests, Step(p)
  PROVE  \/ UNCHANGED reviews
         \/ Supersede(p)
         \/ \E i \in ReviewIds, row \in ReviewRow :
              /\ reviews[i].status # "deleted"
              /\ ReviewIndexAllows(i, row)
              /\ reviews' = [reviews EXCEPT ![i] = row]
  <1>1. ASSUME NEW i \in ReviewIds, AddReview(p, i)
        PROVE  \E row \in ReviewRow :
                 /\ reviews[i].status # "deleted"
                 /\ ReviewIndexAllows(i, row)
                 /\ reviews' = [reviews EXCEPT ![i] = row]
    BY <1>1 DEF AddReview, ReviewInv, TypeOK
  <1>2. ASSUME FlushReview(p)
        PROVE  \E i \in ReviewIds, row \in ReviewRow :
                 /\ reviews[i].status # "deleted"
                 /\ ReviewIndexAllows(i, row)
                 /\ reviews' = [reviews EXCEPT ![i] = row]
    <2>1. rTarget[p] \in ReviewIds
      BY <1>2, ReviewLabels DEF FlushReview, ReviewInv
    <2>2. ReviewAfterFlush(p) \in ReviewRow
      BY <2>1, MergedReviewIsRow DEF ReviewAfterFlush, ReviewInv, TypeOK
    <2> QED BY <1>2, <2>1, <2>2 DEF FlushReview, FlushAllowed, Stored
  <1>3. ASSUME \/ UNCHANGED reviewVars
               \/ ForgetReview(p) /\ UNCHANGED <<reviews, tracked>>
               \/ \E answers \in [Fields -> FilledAnswers] : OpenDecide(p, answers)
               \/ OpenHandedOff(p)
               \/ AddReviewConflicts(p)
               \/ \E i \in ReviewIds, f \in Fields :
                    \E a \in Revisions(reviews[i].answers[f]) : Revise(p, i, f, a)
               \/ \E i \in ReviewIds : ReviseRefused(p, i)
               \/ \E i \in ReviewIds, note \in {"", "candidate"} : SubmitRead(p, i, note)
               \/ SubmitDecide(p)
               \/ SubmitRefused(p)
               \/ RereadReview(p)
               \/ RereadFindsNothing(p)
               \/ FlushReviewFails(p)
               \/ LogSubmission(p)
               \/ LogSwallowed(p)
        PROVE  UNCHANGED reviews
    BY <1>3 DEF reviewVars, OpenDecide, OpenHandedOff, AddReviewConflicts, Revise,
                ReviseRefused, SubmitRead, SubmitDecide, SubmitRefused,
                RereadReview, RereadFindsNothing, FlushReviewFails,
                LogSubmission, LogSwallowed, End
  <1> QED BY StepGroups, <1>1, <1>2, <1>3, ZenonT(60)

LEMMA StepKeepsOneReview ==
  ASSUME ReviewInv, OneOpenReview, NEW p \in Requests, Step(p)
  PROVE  OneOpenReview' /\ \A i \in ReviewIds :
           reviews[i].status = "deleted" => reviews'[i] = reviews[i]
  <1>t. reviews \in [ReviewIds -> ReviewRow]
    BY DEF ReviewInv, TypeOK
  <1>1. CASE UNCHANGED reviews
    BY <1>1 DEF OneOpenReview
  <1>2. CASE Supersede(p)
    <2>1. \A i \in ReviewIds : reviews'[i].status # "in_review"
      BY <1>2, DeletedIsRow DEF Supersede, InReview
    <2>2. \A i \in ReviewIds : reviews[i].status = "deleted" => reviews'[i] = reviews[i]
      BY <1>2 DEF Supersede, InReview
    <2> QED BY <2>1, <2>2 DEF OneOpenReview
  <1>3. ASSUME NEW i \in ReviewIds, NEW row \in ReviewRow,
               reviews[i].status # "deleted", ReviewIndexAllows(i, row),
               reviews' = [reviews EXCEPT ![i] = row]
        PROVE  OneOpenReview' /\ \A j \in ReviewIds :
                 reviews[j].status = "deleted" => reviews'[j] = reviews[j]
    <2>1. reviews'[i] = row /\ \A j \in ReviewIds \ {i} : reviews'[j] = reviews[j]
      BY <1>3, <1>t
    <2> QED BY <1>3, <2>1 DEF ReviewIndexAllows, InReview, OneOpenReview
  <1> QED BY TableSteps, <1>1, <1>2, <1>3

LEMMA InitiallyNoneInReview == Init => OneOpenReview
  <1>1. Init => \A i \in ReviewIds : reviews[i].status = "unused"
    BY UnusedReviewIsRow DEF Init, ReviewInit
  <1> QED BY <1>1 DEF OneOpenReview

LEMMA NextKeepsOneReview ==
  ReviewInv /\ OneOpenReview /\ [Next]_vars =>
    /\ OneOpenReview'
    /\ [\A i \in ReviewIds :
          reviews[i].status = "deleted" => reviews'[i] = reviews[i]]_reviews
  <1>1. OneOpenReview /\ UNCHANGED vars => OneOpenReview' /\ UNCHANGED reviews
    BY DEF OneOpenReview, vars, reviewVars
  <1> QED BY <1>1, StepKeepsOneReview DEF Next

\* However opens, revisions and submissions interleave, crash or fail, the
\* posting has at most one review in progress.
THEOREM AtMostOneOpenReview == Spec => []OneOpenReview
  BY ReviewInvHolds, InitiallyNoneInReview, NextKeepsOneReview, PTL DEF Spec

\* A superseded draft never comes back, whoever had read it.
THEOREM SupersededForGood == Spec => SupersededStaysGone
  BY ReviewInvHolds, InitiallyNoneInReview, NextKeepsOneReview, PTL
     DEF Spec, SupersededStaysGone

-----------------------------------------------------------------------------
(* Until requests overlap *)

IsRevision(row, entity) ==
  \E f \in Fields : \E a \in Revisions(row.answers[f]) :
    entity = [row EXCEPT !.answers[f] = a]

\* What a request that works on a stored review holds, beside its row.
Holds(p, row) ==
  /\ pc[p] \in {"review_reread", "review_flush"} =>
       row.status = "in_review" /\ IsRevision(row, rWant[p])
  /\ pc[p] = "submit_checking" => rWant[p] = row
  /\ pc[p] \in {"submit_reread", "submit_flush"} =>
       /\ OpenHandoffs = {}
       /\ row.status = "in_review"
       /\ Consented(row)
       /\ rWant[p] = Submitted(row, p, rNote[p])
  /\ pc[p] \in Flushing => rRead[p] = row
  /\ pc[p] = "logging" => row.status = "submitted_by_user"

\* Where a request holds a fresh draft.
Drafting == {"superseding", "adding_review"}

\* One request at a time, and the review it works on is still the one it read:
\* what it will store is a move of the candidate on the row as it stands.
SerialReviewInv ==
  /\ ReviewInv
  /\ SerialInv
  /\ OneOpenReview
  /\ \A i \in tracked : reviews[i].status = "submitted_by_user"
  /\ \A p \in Requests : pc[p] \in Targeting => Holds(p, reviews[rTarget[p]])
  /\ \A p \in Requests : pc[p] \in Drafting =>
       /\ rWant[p].status = "in_review"
       /\ rWant[p].answers \in [Fields -> FilledAnswers]

LEMMA InitSerialReviews == Init => SerialReviewInv
  <1> SUFFICES ASSUME Init PROVE SerialReviewInv
    OBVIOUS
  <1>1. SerialInv
    BY InitSerial DEF Init
  <1>2. tracked = {} /\ \A p \in Requests : pc[p] = "idle"
    BY DEF Init, ReviewInit, InitServing
  <1> QED BY <1>1, <1>2, ReviewInitTyped, InitiallyNoneInReview
          DEF SerialReviewInv, Targeting, Rereading, Flushing, Drafting

\* A request that leaves the hand-offs alone, while it is served alone.
LEMMA HandoffsRest ==
  ASSUME SerialInv, HandoffInv', ~overlapped', NEW p \in Requests, NEW label,
         label \notin UpdatingHandoff, Goto(p, label),
         InFlight(p) \/ MayStart(p), UNCHANGED handoffVars
  PROVE  SerialInv'
  <1>1. \A q \in Requests : InFlight(q)' => q = p
    BY OnlyOneServed
  <1>2. \A q \in Requests : pc'[q] \notin UpdatingHandoff
    BY OnlyOneServed
  <1> QED BY <1>1, <1>2 DEF SerialInv, UpdatingHandoff, handoffVars

\* It is enough to look at the request that moves.
LEMMA MovesSerially ==
  ASSUME SerialReviewInv, ReviewInv', SerialInv', OneOpenReview', ~overlapped',
         NEW p \in Requests, NEW label, Goto(p, label),
         InFlight(p) \/ MayStart(p),
         \A i \in tracked' : reviews'[i].status = "submitted_by_user",
         label \in Targeting => Holds(p, reviews[rTarget[p]])',
         label \in Drafting => /\ rWant'[p].status = "in_review"
                               /\ rWant'[p].answers \in [Fields -> FilledAnswers]
  PROVE  SerialReviewInv'
  <1>1. pc'[p] = label /\ \A q \in Requests : InFlight(q)' => q = p
    BY OnlyOneServed DEF SerialReviewInv
  <1>2. \A q \in Requests : pc'[q] \in Targeting \cup Drafting => InFlight(q)'
    BY DEF InFlight, Ended, Targeting, Rereading, Flushing, Drafting
  <1> QED BY <1>1, <1>2 DEF SerialReviewInv

\* What is sent is settled: of the rows only a draft is ever rewritten.
SentRowsStay ==
  \A i \in ReviewIds :
    reviews[i].status = "submitted_by_user" => reviews'[i] = reviews[i]

LEMMA SentStayTracked ==
  ASSUME SerialReviewInv, SentRowsStay, UNCHANGED tracked
  PROVE  \A i \in tracked' : reviews'[i].status = "submitted_by_user"
  BY DEF SerialReviewInv, SentRowsStay, ReviewInv, TypeOK

\* A step that leaves both tables of reviews alone.
LEMMA ReviewTablesRest ==
  ASSUME SerialReviewInv, ReviewInv', SerialInv', ~overlapped',
         NEW p \in Requests, NEW label, Goto(p, label),
         InFlight(p) \/ MayStart(p), UNCHANGED <<reviews, tracked>>,
         label \in Targeting => Holds(p, reviews[rTarget[p]])',
         label \in Drafting => /\ rWant'[p].status = "in_review"
                               /\ rWant'[p].answers \in [Fields -> FilledAnswers]
  PROVE  SerialReviewInv' /\ SentRowsStay
  <1>1. SentRowsStay
    BY DEF SentRowsStay
  <1>2. OneOpenReview'
    BY DEF SerialReviewInv, OneOpenReview
  <1> QED BY <1>1, <1>2, SentStayTracked, MovesSerially

\* Every step is one of a request that is served, to a place of its own.
LEMMA HandoffStepMoves ==
  ASSUME NEW p \in Requests, HandoffStep(p)
  PROVE  \E label : /\ Goto(p, label)
                    /\ label \notin Targeting \cup Drafting
                    /\ InFlight(p) \/ MayStart(p)
  <1>1. Targeting \cup Drafting =
          {"review_reread", "submit_reread", "review_flush", "submit_flush",
           "submit_checking", "logging", "superseding", "adding_review"}
    BY DEF Targeting, Drafting, Rereading, Flushing
  <1> QED BY <1>1 DEF HandoffStep, HandoffStart, HandoffProgress, BeginInspection,
           InspectionStops, InspectionStopsAgain, InspectionClears,
           InspectionFindsForm, InspectionFails, RaiseHandoff,
           RaiseHandoffConflicts, RereadHandoff, FlushHandoff,
           FlushHandoffConflicts, ResolveHandoff, ResolveHandoffRefused, Die,
           CutShort, Ended, Browsing, InFlight, MayStart

\* A hand-off's step does not touch the reviews.
LEMMA HandoffStepSerially ==
  ASSUME SerialReviewInv, ReviewInv', ~overlapped', NEW p \in Requests,
         HandoffStep(p), UNCHANGED <<reviews, tracked>>
  PROVE  SerialReviewInv' /\ SentRowsStay
  <1>1. SerialInv'
    BY StepSerial DEF SerialReviewInv
  <1>2. PICK label : /\ Goto(p, label)
                     /\ label \notin Targeting \cup Drafting
                     /\ InFlight(p) \/ MayStart(p)
    BY HandoffStepMoves
  <1> QED BY <1>1, <1>2, ReviewTablesRest

LEMMA ServedWithReview ==
  ASSUME NEW p \in Requests,
         \/ pc[p] \in Targeting \cup Drafting
         \/ pc[p] \in {"inspected", "browsing_to_open"}
  PROVE  InFlight(p)
  BY DEF InFlight, Ended, Targeting, Rereading, Flushing, Drafting

\* Opening, up to the DELETE.
LEMMA OpeningSerially ==
  ASSUME SerialReviewInv, ReviewInv', ~overlapped', NEW p \in Requests,
         \/ BeginInspection(p, TRUE) /\ UNCHANGED reviewVars
         \/ \E answers \in [Fields -> FilledAnswers] : OpenDecide(p, answers)
         \/ \E outcome \in Ended : End(p, outcome) /\ InFlight(p)
         \/ \E outcome \in Ended : End(p, outcome) /\ MayStart(p)
  PROVE  SerialReviewInv' /\ SentRowsStay
  <1>1. ASSUME BeginInspection(p, TRUE), UNCHANGED reviewVars
        PROVE  SerialReviewInv' /\ SentRowsStay
    <2>1. Goto(p, "browsing_to_open") /\ MayStart(p) /\ UNCHANGED handoffVars
      BY <1>1 DEF BeginInspection
    <2>2. "browsing_to_open" \notin UpdatingHandoff \cup Targeting \cup Drafting
      BY DEF UpdatingHandoff, Targeting, Drafting, Rereading, Flushing
    <2>3. SerialInv'
      BY <2>1, <2>2, HandoffsRest DEF SerialReviewInv, ReviewInv
    <2> QED BY <1>1, <2>1, <2>2, <2>3, ReviewTablesRest DEF reviewVars
  <1>2. ASSUME NEW answers \in [Fields -> FilledAnswers], OpenDecide(p, answers)
        PROVE  SerialReviewInv' /\ SentRowsStay
    <2>1. /\ Goto(p, "superseding") /\ InFlight(p)
          /\ UNCHANGED handoffVars /\ UNCHANGED <<reviews, tracked>>
      BY <1>2, ServedWithReview DEF OpenDecide
    <2>2. "superseding" \notin UpdatingHandoff \cup Targeting
      BY DEF UpdatingHandoff, Targeting, Rereading, Flushing
    <2>3. SerialInv'
      BY <2>1, <2>2, HandoffsRest DEF SerialReviewInv, ReviewInv
    <2>4. rWant'[p].status = "in_review" /\ rWant'[p].answers \in [Fields -> FilledAnswers]
      BY <1>2 DEF OpenDecide, SerialReviewInv, ReviewInv, TypeOK, UnusedReview
    <2> QED BY <2>1, <2>2, <2>3, <2>4, ReviewTablesRest
  <1>3. ASSUME NEW outcome \in Ended, End(p, outcome), InFlight(p) \/ MayStart(p)
        PROVE  SerialReviewInv' /\ SentRowsStay
    <2>1. outcome \notin UpdatingHandoff \cup Targeting \cup Drafting
      BY DEF Ended, UpdatingHandoff, Targeting, Drafting, Rereading, Flushing
    <2>2. SerialInv'
      BY <1>3, <2>1, HandoffsRest DEF End, SerialReviewInv, ReviewInv
    <2> QED BY <1>3, <2>1, <2>2, ReviewTablesRest DEF End
  <1> QED BY <1>1, <1>2, <1>3

\* The reviews a step writes in place of drafts.
LEMMA ReplacingSerially ==
  ASSUME SerialReviewInv, ReviewInv', ~overlapped', NEW p \in Requests,
         Step(p), Supersede(p) \/ \E i \in ReviewIds : AddReview(p, i)
  PROVE  SerialReviewInv' /\ SentRowsStay
  <1>t. reviews \in [ReviewIds -> ReviewRow] /\ OneOpenReview'
    BY StepKeepsOneReview DEF SerialReviewInv, ReviewInv, TypeOK
  <1>1. CASE Supersede(p)
    <2>1. /\ Goto(p, "adding_review") /\ InFlight(p) /\ pc[p] \in Drafting
          /\ UNCHANGED handoffVars /\ UNCHANGED <<tracked, rWant>>
      BY <1>1, ServedWithReview DEF Supersede, Drafting
    <2>2. "adding_review" \notin UpdatingHandoff \cup Targeting
      BY DEF UpdatingHandoff, Targeting, Rereading, Flushing
    <2>3. SerialInv'
      BY <2>1, <2>2, HandoffsRest DEF SerialReviewInv, ReviewInv
    <2>4. SentRowsStay
      BY <1>1, <1>t DEF Supersede, SentRowsStay, InReview
    <2>5. rWant'[p].status = "in_review" /\ rWant'[p].answers \in [Fields -> FilledAnswers]
      BY <2>1 DEF SerialReviewInv
    <2> QED BY <1>t, <2>1, <2>2, <2>3, <2>4, <2>5, SentStayTracked, MovesSerially
  <1>2. ASSUME NEW i \in ReviewIds, AddReview(p, i)
        PROVE  SerialReviewInv' /\ SentRowsStay
    <2>1. /\ Goto(p, "ok") /\ InFlight(p)
          /\ UNCHANGED handoffVars /\ UNCHANGED tracked
      BY <1>2, ServedWithReview DEF AddReview, Drafting
    <2>2. "ok" \notin UpdatingHandoff \cup Targeting \cup Drafting
      BY DEF UpdatingHandoff, Targeting, Drafting, Rereading, Flushing
    <2>3. SerialInv'
      BY <2>1, <2>2, HandoffsRest DEF SerialReviewInv, ReviewInv
    <2>4. SentRowsStay
      BY <1>2, <1>t DEF AddReview, SentRowsStay
    <2> QED BY <1>t, <2>1, <2>2, <2>3, <2>4, SentStayTracked, MovesSerially
  <1> QED BY <1>1, <1>2

\* The candidate's request has read a review, or decided on what it read.
LEMMA DecidingSerially ==
  ASSUME SerialReviewInv, ReviewInv', ~overlapped', NEW p \in Requests,
         \/ \E i \in ReviewIds, f \in Fields :
              \E a \in Revisions(reviews[i].answers[f]) : Revise(p, i, f, a)
         \/ \E i \in ReviewIds, note \in {"", "candidate"} : SubmitRead(p, i, note)
         \/ SubmitDecide(p)
         \/ RereadReview(p)
  PROVE  SerialReviewInv' /\ SentRowsStay
  <1>t. /\ rTarget \in [Requests -> ReviewIds \cup {NoOne}]
        /\ rWant \in [Requests -> ReviewRow]
        /\ rRead \in [Requests -> ReviewRow]
        /\ pc \in [Requests -> Labels]
    BY DEF SerialReviewInv, ReviewInv, TypeOK
  <1>d. /\ {"review_reread", "submit_reread", "review_flush", "submit_flush",
            "submit_checking", "logging"} = Targeting
        /\ Targeting \cap (UpdatingHandoff \cup Drafting) = {}
        /\ Rereading \subseteq Targeting
    BY DEF UpdatingHandoff, Targeting, Drafting, Rereading, Flushing
  \* What is left to show of each of them.
  <1>q. ASSUME NEW label \in Targeting, Goto(p, label), InFlight(p) \/ MayStart(p),
               UNCHANGED handoffVars, UNCHANGED <<reviews, tracked>>,
               Holds(p, reviews[rTarget[p]])'
        PROVE  SerialReviewInv' /\ SentRowsStay
    <2>1. SerialInv'
      BY <1>q, <1>d, HandoffsRest DEF SerialReviewInv, ReviewInv
    <2> QED BY <1>q, <1>d, <2>1, ReviewTablesRest
  <1>1. ASSUME NEW i \in ReviewIds, NEW f \in Fields,
               NEW a \in Revisions(reviews[i].answers[f]), Revise(p, i, f, a)
        PROVE  SerialReviewInv' /\ SentRowsStay
    <2>1. /\ pc'[p] = "review_reread" /\ rTarget'[p] = i
          /\ rWant'[p] = [reviews[i] EXCEPT !.answers[f] = a]
          /\ UNCHANGED <<reviews, tracked>> /\ UNCHANGED handoffVars
          /\ Goto(p, "review_reread") /\ MayStart(p)
          /\ reviews[i].status = "in_review"
      BY <1>1, <1>t DEF Revise, Goto
    <2>2. Holds(p, reviews[rTarget[p]])'
      BY <2>1 DEF Holds, IsRevision, Flushing
    <2> QED BY <1>d, <2>1, <2>2, <1>q
  <1>2. ASSUME NEW i \in ReviewIds, NEW note \in {"", "candidate"},
               SubmitRead(p, i, note)
        PROVE  SerialReviewInv' /\ SentRowsStay
    <2>1. /\ pc'[p] = "submit_checking" /\ rTarget'[p] = i
          /\ rWant'[p] = reviews[i]
          /\ UNCHANGED <<reviews, tracked>> /\ UNCHANGED handoffVars
          /\ Goto(p, "submit_checking") /\ MayStart(p)
      BY <1>2, <1>t DEF SubmitRead, Goto
    <2>2. Holds(p, reviews[rTarget[p]])'
      BY <2>1 DEF Holds, Flushing
    <2> QED BY <1>d, <2>1, <2>2, <1>q
  <1>3. CASE SubmitDecide(p)
    <2> DEFINE row == reviews[rTarget[p]]
    <2>1. /\ pc[p] = "submit_checking" /\ pc'[p] = "submit_reread"
          /\ rWant'[p] = Submitted(rWant[p], p, rNote[p])
          /\ UNCHANGED <<reviews, tracked>> /\ UNCHANGED handoffVars
          /\ UNCHANGED <<rTarget, rNote>>
          /\ Goto(p, "submit_reread")
          /\ SubmitAllowed(p)
      BY <1>3, <1>t DEF SubmitDecide, Goto
    <2>2. InFlight(p) /\ Holds(p, row)
      BY <1>d, <2>1, ServedWithReview DEF SerialReviewInv
    <2>3. rWant[p] = row
      BY <2>1, <2>2 DEF Holds
    <2>4. OpenHandoffs' = {}
      BY <2>1 DEF SubmitAllowed, OpenHandoffs, IsAwaiting, handoffVars
    <2>5. Holds(p, reviews[rTarget[p]])'
      BY <2>1, <2>3, <2>4 DEF Holds, Flushing, SubmitAllowed, Consented
    <2> QED BY <1>d, <2>1, <2>2, <2>5, <1>q
  <1>4. CASE RereadReview(p)
    <2> DEFINE row == reviews[rTarget[p]]
    <2>1. PICK label \in {"review_flush", "submit_flush"} :
            /\ label = IF pc[p] = "review_reread" THEN "review_flush" ELSE "submit_flush"
            /\ Goto(p, label)
      BY <1>4 DEF RereadReview
    <2>2. /\ pc[p] \in Rereading /\ pc'[p] = label
          /\ rRead'[p] = row
          /\ UNCHANGED <<reviews, tracked>> /\ UNCHANGED handoffVars
          /\ UNCHANGED <<rTarget, rWant, rNote>>
      BY <1>4, <1>t, <2>1 DEF RereadReview, Goto
    <2>3. InFlight(p) /\ Holds(p, row)
      BY <1>d, <2>2, ServedWithReview DEF SerialReviewInv
    <2>4. OpenHandoffs' = OpenHandoffs
      BY <2>2 DEF OpenHandoffs, IsAwaiting, handoffVars
    <2>5. Holds(p, reviews[rTarget[p]])'
      BY <2>1, <2>2, <2>3, <2>4
         DEF Holds, Rereading, Flushing, Consented, IsRevision
    <2> QED BY <1>d, <2>1, <2>2, <2>3, <2>5, <1>q
  <1> QED BY <1>1, <1>2, <1>3, <1>4

\* Nothing was written since a flushing request read its row again, so the
\* flush stores its entity as it is.
LEMMA FlushStoresEntity ==
  ASSUME SerialReviewInv, NEW p \in Requests, pc[p] \in Flushing
  PROVE  /\ rTarget[p] \in ReviewIds
         /\ reviews[rTarget[p]] \in ReviewRow
         /\ Holds(p, reviews[rTarget[p]])
         /\ ReviewAfterFlush(p) = rWant[p]
  <1>1. /\ rTarget[p] \in ReviewIds
        /\ reviews[rTarget[p]] \in ReviewRow
        /\ rWant[p] \in ReviewRow
        /\ Holds(p, reviews[rTarget[p]])
    BY DEF SerialReviewInv, ReviewInv, TypeOK, Targeting
  <1>2. rRead[p] = reviews[rTarget[p]]
    BY <1>1 DEF Holds
  <1>3. ASSUME NEW row \in ReviewRow, NEW entity \in ReviewRow
        PROVE  MergedReview(row, row, entity) = entity
    BY DEF MergedReview, Written, ReviewRow
  <1> QED BY <1>1, <1>2, <1>3 DEF ReviewAfterFlush

LEMMA StoringSerially ==
  ASSUME SerialReviewInv, ReviewInv', ~overlapped', NEW p \in Requests,
         Step(p), FlushReview(p) \/ LogSubmission(p)
  PROVE  SerialReviewInv' /\ SentRowsStay
  <1>t. /\ reviews \in [ReviewIds -> ReviewRow] /\ pc \in [Requests -> Labels]
        /\ OneOpenReview'
    BY StepKeepsOneReview DEF SerialReviewInv, ReviewInv, TypeOK
  <1>1. CASE FlushReview(p)
    <2> DEFINE row == reviews[rTarget[p]]
    <2>1. /\ pc[p] \in Flushing /\ UNCHANGED handoffVars /\ UNCHANGED tracked
          /\ reviews' = [reviews EXCEPT ![rTarget[p]] = rWant[p]]
      BY <1>1, FlushStoresEntity DEF FlushReview
    <2>2. /\ rTarget[p] \in ReviewIds /\ InFlight(p)
          /\ row.status = "in_review"
          /\ pc[p] = "submit_flush" => rWant[p] = Submitted(row, p, rNote[p])
      BY <2>1, FlushStoresEntity, ServedWithReview DEF Holds, Flushing, Targeting
    <2>3. SentRowsStay
      BY <1>t, <2>1, <2>2 DEF SentRowsStay
    <2>4. \A i \in tracked' : reviews'[i].status = "submitted_by_user"
      BY <2>1, <2>3, SentStayTracked
    <2>5. CASE pc[p] = "submit_flush"
      <3>1. Goto(p, "logging") /\ pc'[p] = "logging" /\ rTarget' = rTarget
        BY <1>1, <1>t, <2>5 DEF FlushReview, Goto
      <3>2. "logging" \notin UpdatingHandoff \cup Drafting
        BY DEF UpdatingHandoff, Drafting
      <3>3. SerialInv'
        BY <2>1, <2>2, <3>1, <3>2, HandoffsRest DEF SerialReviewInv, ReviewInv
      <3>4. reviews'[rTarget[p]].status = "submitted_by_user"
        BY <1>t, <2>1, <2>2, <2>5 DEF Submitted, ReviewRow
      <3>5. Holds(p, reviews[rTarget[p]])'
        BY <3>1, <3>4 DEF Holds, Flushing
      <3> QED BY <1>t, <2>2, <2>3, <2>4, <3>1, <3>2, <3>3, <3>5, MovesSerially
    <2>6. CASE pc[p] # "submit_flush"
      <3>1. Goto(p, "ok")
        BY <1>1, <2>6 DEF FlushReview
      <3>2. "ok" \notin UpdatingHandoff \cup Targeting \cup Drafting
        BY DEF UpdatingHandoff, Targeting, Drafting, Rereading, Flushing
      <3>3. SerialInv'
        BY <2>1, <2>2, <3>1, <3>2, HandoffsRest DEF SerialReviewInv, ReviewInv
      <3> QED BY <1>t, <2>2, <2>3, <2>4, <3>1, <3>2, <3>3, MovesSerially
    <2> QED BY <2>5, <2>6
  <1>2. CASE LogSubmission(p)
    <2>1. /\ pc[p] = "logging" /\ Goto(p, "ok") /\ UNCHANGED handoffVars
          /\ UNCHANGED reviews /\ tracked' = tracked \cup {rTarget[p]}
          /\ pc[p] \in Targeting
      BY <1>2 DEF LogSubmission, Targeting
    <2>2. reviews[rTarget[p]].status = "submitted_by_user" /\ InFlight(p)
      BY <2>1, ServedWithReview DEF SerialReviewInv, Holds
    <2>3. SentRowsStay /\ \A i \in tracked' : reviews'[i].status = "submitted_by_user"
      BY <2>1, <2>2 DEF SentRowsStay, SerialReviewInv
    <2>4. "ok" \notin UpdatingHandoff \cup Targeting \cup Drafting
      BY DEF UpdatingHandoff, Targeting, Drafting, Rereading, Flushing
    <2>5. SerialInv'
      BY <2>1, <2>2, <2>4, HandoffsRest DEF SerialReviewInv, ReviewInv
    <2> QED BY <1>t, <2>1, <2>2, <2>3, <2>4, <2>5, MovesSerially
  <1> QED BY <1>1, <1>2

\* The steps that end a request without touching anything.
LEMMA EndsWithoutChange ==
  ASSUME NEW p \in Requests,
         \/ OpenHandedOff(p)
         \/ AddReviewConflicts(p)
         \/ \E i \in ReviewIds : ReviseRefused(p, i)
         \/ SubmitRefused(p)
         \/ RereadFindsNothing(p)
         \/ FlushReviewFails(p)
         \/ LogSwallowed(p)
  PROVE  \E outcome \in Ended : End(p, outcome) /\ (InFlight(p) \/ MayStart(p))
  <1>1. {"ok", "failed"} \subseteq Ended
    BY DEF Ended
  <1>2. CASE OpenHandedOff(p)
    <2>1. InFlight(p)
      BY <1>2, ServedWithReview DEF OpenHandedOff
    <2> QED BY <1>1, <1>2, <2>1 DEF OpenHandedOff
  <1>3. CASE AddReviewConflicts(p)
    <2>1. InFlight(p)
      BY <1>3, ServedWithReview DEF AddReviewConflicts, Drafting
    <2> QED BY <1>1, <1>3, <2>1 DEF AddReviewConflicts
  <1>4. ASSUME NEW i \in ReviewIds, ReviseRefused(p, i)
        PROVE  \E outcome \in Ended : End(p, outcome) /\ (InFlight(p) \/ MayStart(p))
    BY <1>1, <1>4 DEF ReviseRefused
  <1>5. CASE SubmitRefused(p) \/ RereadFindsNothing(p) \/ FlushReviewFails(p)
    <2>1. InFlight(p)
      BY <1>5, ServedWithReview
         DEF SubmitRefused, RereadFindsNothing, FlushReviewFails, Targeting
    <2> QED BY <1>1, <1>5, <2>1
            DEF SubmitRefused, RereadFindsNothing, FlushReviewFails
  <1>6. CASE LogSwallowed(p)
    <2>1. InFlight(p)
      BY <1>6, ServedWithReview DEF LogSwallowed, Targeting
    <2> QED BY <1>1, <1>6, <2>1 DEF LogSwallowed
  <1> QED BY <1>2, <1>3, <1>4, <1>5, <1>6

LEMMA StepSeriallyReviewed ==
  ASSUME SerialReviewInv, ~overlapped', NEW p \in Requests, Step(p)
  PROVE  SerialReviewInv' /\ SentRowsStay
  <1>1. ReviewInv'
    BY ReviewStepTyped DEF SerialReviewInv
  <1>2. ASSUME HandoffStep(p),
               UNCHANGED reviewVars \/ UNCHANGED <<reviews, tracked>>
        PROVE  SerialReviewInv' /\ SentRowsStay
    BY <1>1, <1>2, HandoffStepSerially DEF reviewVars
  <1>3. ASSUME NEW outcome \in Ended, End(p, outcome), InFlight(p) \/ MayStart(p)
        PROVE  SerialReviewInv' /\ SentRowsStay
    BY <1>1, <1>3, OpeningSerially
  <1>4. CASE \/ OpenHandedOff(p) \/ AddReviewConflicts(p)
             \/ \E i \in ReviewIds : ReviseRefused(p, i)
             \/ SubmitRefused(p) \/ RereadFindsNothing(p)
             \/ FlushReviewFails(p) \/ LogSwallowed(p)
    BY <1>3, <1>4, EndsWithoutChange
  <1>5. CASE \/ BeginInspection(p, TRUE) /\ UNCHANGED reviewVars
             \/ \E answers \in [Fields -> FilledAnswers] : OpenDecide(p, answers)
    BY <1>1, <1>5, OpeningSerially
  <1>6. CASE Supersede(p) \/ \E i \in ReviewIds : AddReview(p, i)
    BY <1>1, <1>6, ReplacingSerially
  <1>7. CASE \/ \E i \in ReviewIds, f \in Fields :
                  \E a \in Revisions(reviews[i].answers[f]) : Revise(p, i, f, a)
             \/ \E i \in ReviewIds, note \in {"", "candidate"} : SubmitRead(p, i, note)
             \/ SubmitDecide(p)
             \/ RereadReview(p)
    BY <1>1, <1>7, DecidingSerially
  <1>8. CASE FlushReview(p) \/ LogSubmission(p)
    BY <1>1, <1>8, StoringSerially
  <1> QED BY StepGroups, <1>2, <1>4, <1>5, <1>6, <1>7, <1>8, ZenonT(60)

\* Every step of a request is a Goto, and an overlap is never forgotten.
LEMMA ReviewOverlapStays ==
  ASSUME NEW p \in Requests, Step(p), ~overlapped'
  PROVE  ~overlapped
  <1>1. HandoffStep(p) => ~overlapped
    BY OverlapStays
  <1>2. ASSUME ~HandoffStep(p)
        PROVE  \E label : Goto(p, label)
    BY <1>2, StepGroups
       DEF BeginInspection, OpenDecide, OpenHandedOff, Supersede, AddReview,
           AddReviewConflicts, Revise, ReviseRefused, SubmitRead, SubmitDecide,
           SubmitRefused, RereadReview, RereadFindsNothing, FlushReview,
           FlushReviewFails, LogSubmission, LogSwallowed, End
  <1> QED BY <1>1, <1>2 DEF Goto

LEMMA StutterSeriallyReviewed ==
  ASSUME SerialReviewInv, UNCHANGED vars
  PROVE  SerialReviewInv'
  <1>1. ReviewInv' /\ OneOpenReview'
    BY ReviewNextTyped, NextKeepsOneReview DEF SerialReviewInv
  <1>2. SerialInv'
    BY <1>1 DEF SerialReviewInv, ReviewInv, SerialInv, vars, handoffVars, serving,
                InFlight, IsAwaiting, UpdatingHandoff
  <1>3. UNCHANGED <<pc, reviews, tracked, rTarget, rWant, rRead, rNote, handoffs>>
    BY DEF vars, reviewVars, handoffVars, serving
  <1>4. OpenHandoffs' = OpenHandoffs
    BY <1>3 DEF OpenHandoffs, IsAwaiting
  <1>5. \A p \in Requests, i \in ReviewIds :
          Holds(p, reviews[i]) => Holds(p, reviews[i])'
    BY <1>3, <1>4 DEF Holds, Consented, IsRevision
  <1> QED BY <1>1, <1>2, <1>3, <1>5 DEF SerialReviewInv, ReviewInv

LEMMA NextSeriallyReviewed ==
  Serially(SerialReviewInv) /\ [Next]_vars =>
    /\ Serially(SerialReviewInv)'
    /\ [\A i \in ReviewIds :
          ~overlapped' /\ reviews[i].status = "submitted_by_user"
            => reviews'[i] = reviews[i]]_reviews
  <1> SUFFICES ASSUME Serially(SerialReviewInv), [Next]_vars
               PROVE  /\ Serially(SerialReviewInv)'
                      /\ [\A i \in ReviewIds :
                            ~overlapped' /\ reviews[i].status = "submitted_by_user"
                              => reviews'[i] = reviews[i]]_reviews
    OBVIOUS
  <1>1. CASE UNCHANGED vars
    <2>1. overlapped' = overlapped /\ reviews' = reviews
      BY <1>1 DEF vars, serving, reviewVars
    <2> QED BY <1>1, <2>1, StutterSeriallyReviewed DEF Serially
  <1>2. ASSUME NEW p \in Requests, Step(p)
        PROVE  /\ Serially(SerialReviewInv)'
               /\ \A i \in ReviewIds :
                    ~overlapped' /\ reviews[i].status = "submitted_by_user"
                      => reviews'[i] = reviews[i]
    <2>1. ASSUME ~overlapped' PROVE SerialReviewInv' /\ SentRowsStay
      BY <1>2, <2>1, ReviewOverlapStays, StepSeriallyReviewed DEF Serially
    <2> QED BY <2>1 DEF Serially, SentRowsStay
  <1> QED BY <1>1, <1>2 DEF Next

\* Until requests overlap, what was sent is frozen: no revision, second click
\* or fresh fill pass rewrites a submitted review.
THEOREM FrozenSerially == Spec => FrozenOnceSubmitted
  <1>1. Init => Serially(SerialReviewInv)
    BY InitSerialReviews DEF Serially
  <1> QED BY <1>1, NextSeriallyReviewed, PTL DEF Spec, FrozenOnceSubmitted

\* Until requests overlap, every key of the tracker is a review that is
\* stored as submitted.
THEOREM TrackedWasSentSerially == Spec => []TrackedWasSent
  <1>1. Init => Serially(SerialReviewInv)
    BY InitSerialReviews DEF Serially
  <1>2. Serially(SerialReviewInv) => TrackedWasSent
    BY DEF Serially, SerialReviewInv, TrackedWasSent
  <1> QED BY <1>1, <1>2, NextSeriallyReviewed, PTL DEF Spec

-----------------------------------------------------------------------------
(* The lifecycle the candidate is promised *)

LEMMA InitLifecycle == Init => Lifecycle!Init
  <1> SUFFICES ASSUME Init PROVE Lifecycle!Init
    OBVIOUS
  <1>1. OpenHandoffs = {}
    BY UnusedIsRow DEF Init, HandoffInit, OpenHandoffs, IsAwaiting, UnusedHandoff
  <1>2. reviews = [i \in ReviewIds |-> UnusedReview] /\ overlapped = FALSE
    BY DEF Init, ReviewInit, InitServing
  <1>3. Unanswered \in FilledAnswers
    BY DEF FilledAnswers
  <1>4. /\ [i \in ReviewIds |-> reviews[i].status] = [i \in ReviewIds |-> "unused"]
        /\ [i \in ReviewIds |-> reviews[i].answers]
             = [i \in ReviewIds |-> [f \in Fields |-> Unanswered]]
    BY <1>2 DEF UnusedReview
  <1> QED BY <1>1, <1>2, <1>3, <1>4 DEF Lifecycle!Init

\* The lifecycle's variables, as the tables show them.
StatusNow == [i \in ReviewIds |-> reviews[i].status]
AnswersNow == [i \in ReviewIds |-> reviews[i].answers]

\* A step that rewrites one review, the hand-offs and the clicks being as
\* they were.
LEMMA OneRowRewritten ==
  ASSUME reviews \in [ReviewIds -> ReviewRow], NEW i \in ReviewIds,
         NEW row \in ReviewRow, reviews' = [reviews EXCEPT ![i] = row]
  PROVE  /\ StatusNow' = [StatusNow EXCEPT ![i] = row.status]
         /\ AnswersNow' = [AnswersNow EXCEPT ![i] = row.answers]
         /\ StatusNow[i] = reviews[i].status /\ AnswersNow[i] = reviews[i].answers
  BY DEF StatusNow, AnswersNow

\* The reviews are as they were: at most the portal changed.
LEMMA PortalStep ==
  ASSUME ~overlapped, ~overlapped', UNCHANGED reviews
  PROVE  Lifecycle!PortalChanges
  BY DEF Lifecycle!PortalChanges

LEMMA DraftStep ==
  ASSUME SerialReviewInv, ~overlapped, ~overlapped', NEW p \in Requests,
         NEW i \in ReviewIds, AddReview(p, i)
  PROVE  Lifecycle!Draft(i)
  <1>1. /\ rWant[p].status = "in_review" /\ rWant[p] \in ReviewRow
        /\ rWant[p].answers \in [Fields -> FilledAnswers]
        /\ reviews \in [ReviewIds -> ReviewRow]
    BY DEF AddReview, SerialReviewInv, Drafting, ReviewInv, TypeOK
  <1>2. /\ StatusNow' = [StatusNow EXCEPT ![i] = "in_review"]
        /\ AnswersNow' = [AnswersNow EXCEPT ![i] = rWant[p].answers]
    BY <1>1, OneRowRewritten DEF AddReview
  <1>3. \A j \in ReviewIds : reviews[j].status # "in_review"
    BY <1>1 DEF AddReview, ReviewIndexAllows, InReview
  <1>4. (OpenHandoffs # {})' = (OpenHandoffs # {})
    BY DEF AddReview, handoffVars, OpenHandoffs, IsAwaiting
  <1>5. StatusNow[i] = "unused"
    BY DEF AddReview, StatusNow
  <1> QED BY <1>1, <1>2, <1>3, <1>4, <1>5
          DEF Lifecycle!Draft, Lifecycle!Drafts, StatusNow, AnswersNow

\* The one draft there can be is discarded.
LEMMA DiscardStep ==
  ASSUME SerialReviewInv, ~overlapped, ~overlapped', NEW p \in Requests,
         Supersede(p)
  PROVE  Lifecycle!PortalChanges \/ \E i \in ReviewIds : Lifecycle!Discard(i)
  <1>1. reviews \in [ReviewIds -> ReviewRow] /\ OneOpenReview
    BY DEF SerialReviewInv, ReviewInv, TypeOK
  <1>2. CASE InReview = {}
    <2>1. reviews' = reviews
      BY <1>1, <1>2 DEF Supersede
    <2> QED BY <2>1, PortalStep
  <1>3. CASE InReview # {}
    <2>1. PICK i \in ReviewIds : i \in InReview
      BY <1>3 DEF InReview
    <2>2. \A j \in ReviewIds : j \in InReview <=> j = i
      BY <1>1, <2>1 DEF OneOpenReview, InReview
    <2> DEFINE gone == [UnusedReview EXCEPT !.status = "deleted"]
    <2>3. reviews' = [reviews EXCEPT ![i] = gone]
      BY <1>1, <2>2 DEF Supersede
    <2>4. gone \in ReviewRow /\ gone.status = "deleted"
          /\ gone.answers = [f \in Fields |-> Unanswered]
      BY DeletedIsRow DEF UnusedReview
    <2> HIDE DEF gone
    <2>r. /\ StatusNow' = [StatusNow EXCEPT ![i] = gone.status]
          /\ AnswersNow' = [AnswersNow EXCEPT ![i] = gone.answers]
          /\ StatusNow[i] = reviews[i].status
      <3>1. gone \in ReviewRow
        BY <2>4
      <3> QED BY <1>1, <2>3, <3>1, OneRowRewritten
    <2>5. /\ StatusNow' = [StatusNow EXCEPT ![i] = "deleted"]
          /\ AnswersNow' = [AnswersNow EXCEPT ![i] = [f \in Fields |-> Unanswered]]
          /\ StatusNow[i] = "in_review"
      BY <2>1, <2>r, <2>4 DEF InReview
    <2>6. (OpenHandoffs # {})' = (OpenHandoffs # {})
      BY DEF Supersede, handoffVars, OpenHandoffs, IsAwaiting
    <2>7. Unanswered \in FilledAnswers
      BY DEF FilledAnswers
    <2> QED BY <2>5, <2>6, <2>7
            DEF Lifecycle!Discard, StatusNow, AnswersNow
  <1> QED BY <1>2, <1>3

LEMMA EditStep ==
  ASSUME SerialReviewInv, ~overlapped, ~overlapped', NEW p \in Requests,
         FlushReview(p), pc[p] = "review_flush"
  PROVE  \E i \in ReviewIds, f \in Fields : Lifecycle!Edit(i, f)
  <1> DEFINE i == rTarget[p]
  <1>1. /\ i \in ReviewIds /\ reviews \in [ReviewIds -> ReviewRow]
        /\ rWant[p] \in ReviewRow
        /\ reviews[i].status = "in_review"
        /\ IsRevision(reviews[i], rWant[p])
        /\ reviews' = [reviews EXCEPT ![i] = rWant[p]]
    BY FlushStoresEntity DEF FlushReview, Flushing, Holds, SerialReviewInv,
                             ReviewInv, TypeOK
  <1>2. PICK f \in Fields : \E a \in Revisions(reviews[i].answers[f]) :
          rWant[p] = [reviews[i] EXCEPT !.answers[f] = a]
    BY <1>1 DEF IsRevision
  <1>3. PICK a \in Revisions(reviews[i].answers[f]) :
          rWant[p] = [reviews[i] EXCEPT !.answers[f] = a]
    BY <1>2
  <1>4. /\ rWant[p].status = "in_review"
        /\ rWant[p].answers = [reviews[i].answers EXCEPT ![f] = a]
    BY <1>1, <1>3 DEF ReviewRow
  <1>5. /\ StatusNow' = [StatusNow EXCEPT ![i] = rWant[p].status]
        /\ AnswersNow' = [AnswersNow EXCEPT ![i] = rWant[p].answers]
        /\ StatusNow[i] = "in_review" /\ AnswersNow[i] = reviews[i].answers
    BY <1>1, OneRowRewritten
  <1>6. StatusNow' = StatusNow
    BY <1>4, <1>5 DEF StatusNow
  <1>7. AnswersNow' = [AnswersNow EXCEPT ![i][f] = a]
    BY <1>1, <1>4, <1>5 DEF AnswersNow
  <1>8. (OpenHandoffs # {})' = (OpenHandoffs # {})
    BY DEF FlushReview, handoffVars, OpenHandoffs, IsAwaiting
  <1>9. Lifecycle!Edit(i, f)
    BY <1>1, <1>3, <1>5, <1>6, <1>7, <1>8 DEF Lifecycle!Edit, StatusNow, AnswersNow
  <1> QED BY <1>1, <1>9

LEMMA SendStep ==
  ASSUME SerialReviewInv, ~overlapped, ~overlapped', NEW p \in Requests,
         FlushReview(p), pc[p] = "submit_flush"
  PROVE  \E i \in ReviewIds : Lifecycle!Send(i, Lifecycle!IsDecided)
  <1> DEFINE i == rTarget[p]
  <1>1. /\ i \in ReviewIds /\ reviews \in [ReviewIds -> ReviewRow]
        /\ rWant[p] \in ReviewRow
        /\ reviews[i].status = "in_review"
        /\ OpenHandoffs = {}
        /\ Consented(reviews[i])
        /\ rWant[p] = Submitted(reviews[i], p, rNote[p])
        /\ reviews' = [reviews EXCEPT ![i] = rWant[p]]
    BY FlushStoresEntity DEF FlushReview, Flushing, Holds, SerialReviewInv,
                             ReviewInv, TypeOK
  <1>2. /\ rWant[p].status = "submitted_by_user"
        /\ rWant[p].answers = reviews[i].answers
    BY <1>1 DEF Submitted, ReviewRow
  <1>3. /\ StatusNow' = [StatusNow EXCEPT ![i] = rWant[p].status]
        /\ AnswersNow' = [AnswersNow EXCEPT ![i] = rWant[p].answers]
        /\ StatusNow[i] = "in_review" /\ AnswersNow[i] = reviews[i].answers
    BY <1>1, OneRowRewritten
  <1>4. AnswersNow' = AnswersNow
    BY <1>2, <1>3 DEF AnswersNow
  <1>5. (OpenHandoffs # {})' = (OpenHandoffs # {}) /\ ~(OpenHandoffs # {})
    BY <1>1 DEF FlushReview, handoffVars, OpenHandoffs, IsAwaiting
  <1>6. \A f \in Sensitive : AnswersNow[i][f].decided
    BY <1>1, <1>3 DEF Consented
  <1>7. Lifecycle!Send(i, Lifecycle!IsDecided)
    BY <1>1, <1>2, <1>3, <1>4, <1>5, <1>6
       DEF Lifecycle!Send, Lifecycle!IsDecided, StatusNow, AnswersNow
  <1> QED BY <1>1, <1>7

\* What of the reviews and their hand-offs a step changes, seen from the
\* lifecycle.
LEMMA StepImplementsLifecycle ==
  ASSUME Serially(SerialReviewInv), NEW p \in Requests, Step(p)
  PROVE  Lifecycle!Next
  <1>1. CASE overlapped'
    BY <1>1 DEF Lifecycle!Next, Lifecycle!Impatience
  <1>2. CASE ~overlapped'
    <2>1. ~overlapped /\ SerialReviewInv
      BY <1>2, ReviewOverlapStays DEF Serially
    <2>2. CASE UNCHANGED reviews
      BY <1>2, <2>1, <2>2, PortalStep DEF Lifecycle!Next
    <2>3. ASSUME NEW i \in ReviewIds, AddReview(p, i)
          PROVE  Lifecycle!Next
      BY <1>2, <2>1, <2>3, DraftStep DEF Lifecycle!Next
    <2>4. CASE Supersede(p)
      BY <1>2, <2>1, <2>4, DiscardStep DEF Lifecycle!Next
    <2>5. CASE FlushReview(p)
      <3>1. CASE pc[p] = "review_flush"
        BY <1>2, <2>1, <2>5, <3>1, EditStep DEF Lifecycle!Next
      <3>2. CASE pc[p] = "submit_flush"
        BY <1>2, <2>1, <2>5, <3>2, SendStep DEF Lifecycle!Next
      <3> QED BY <2>5, <3>1, <3>2 DEF FlushReview, Flushing
    <2>6. \/ UNCHANGED reviews \/ Supersede(p) \/ FlushReview(p)
          \/ \E i \in ReviewIds : AddReview(p, i)
      BY StepGroups, ZenonT(30)
         DEF reviewVars, OpenDecide, OpenHandedOff, AddReviewConflicts, Revise,
             ReviseRefused, SubmitRead, SubmitDecide, SubmitRefused,
             RereadReview, RereadFindsNothing, FlushReviewFails,
             LogSubmission, LogSwallowed, End
    <2> QED BY <2>2, <2>3, <2>4, <2>5, <2>6
  <1> QED BY <1>1, <1>2

LEMMA NextImplementsLifecycle ==
  Serially(SerialReviewInv) /\ [Next]_vars => [Lifecycle!Next]_(Lifecycle!lifecycleVars)
  <1>1. ASSUME UNCHANGED vars
        PROVE  UNCHANGED Lifecycle!lifecycleVars
    BY <1>1 DEF Lifecycle!lifecycleVars, vars, reviewVars, handoffVars, serving,
                OpenHandoffs, IsAwaiting
  <1> QED BY <1>1, StepImplementsLifecycle DEF Next

\* The reviews, hand-offs, races and failures included, implement the
\* lifecycle: drafted at most once at a time, changed only by the candidate's
\* own moves, sent once, unblocked and with every sensitive question settled,
\* until two requests overlap.
THEOREM ReviewsImplementLifecycle == Spec => ImplementsLifecycle
  <1>1. Init => Serially(SerialReviewInv)
    BY InitSerialReviews DEF Serially
  <1> QED BY <1>1, InitLifecycle, NextSeriallyReviewed, NextImplementsLifecycle, PTL
          DEF Spec, ImplementsLifecycle, Lifecycle!Spec

-----------------------------------------------------------------------------
(* The hand-offs, with the reviews around them *)

LEMMA NextKeepsOneHandoff ==
  ReviewInv /\ OneOpenHandoff /\ [Next]_vars => OneOpenHandoff'
  <1>1. OneOpenHandoff /\ UNCHANGED handoffs => OneOpenHandoff'
    BY DEF OneOpenHandoff, IsAwaiting
  <1>2. ASSUME ReviewInv, OneOpenHandoff, NEW p \in Requests, Step(p)
        PROVE  OneOpenHandoff'
    <2>1. HandoffStep(p) \/ UNCHANGED handoffs
      BY <1>2, StepGroups, ZenonT(30)
         DEF BeginInspection, OpenDecide, OpenHandedOff, Supersede, AddReview,
             AddReviewConflicts, Revise, ReviseRefused, SubmitRead, SubmitDecide,
             SubmitRefused, RereadReview, RereadFindsNothing, FlushReview,
             FlushReviewFails, LogSubmission, LogSwallowed, End, handoffVars
    <2> QED BY <1>1, <1>2, <2>1, StepKeepsOneOpen DEF ReviewInv
  <1> QED BY <1>1, <1>2 DEF Next, vars, handoffVars

\* Opening a review inspects the portal too: with those inspections racing
\* the others, still at most one hand-off awaits the candidate, and until
\* requests overlap each one can be read back.
THEOREM HandoffsHoldBesideReviews ==
  Spec => [](OneOpenHandoff /\ HandoffsReadable)
  <1>1. Init => OneOpenHandoff /\ Serially(SerialReviewInv)
    BY InitiallyNoneOpen, InitSerialReviews DEF Init, Serially
  <1>2. Serially(SerialReviewInv) => HandoffsReadable
    BY DEF Serially, SerialReviewInv, SerialInv, Sound, HandoffsReadable
  <1> QED BY <1>1, <1>2, ReviewInvHolds, NextKeepsOneHandoff, NextSeriallyReviewed, PTL
          DEF Spec

=============================================================================
