------------------------- MODULE ParkedReviews_proofs -------------------------
(***************************************************************************)
(* Proofs about parked application forms: the registry and its browsers,   *)
(* the press of the submit button, and what a candidate is told of it, for *)
(* any requests, forms, fields and capacity.                               *)
(***************************************************************************)
EXTENDS ParkedReviews, FiniteSetTheorems, WellFoundedInduction, TLAPS

\* Where a request works on a review it acquired.
Working == {"answering", "scanning", "pressing", "pressed"}

\* What interleaving cannot break: a parked review is one whose pass has
\* ended, and so is one a request acquired or pressed; what a request is about
\* to press is still complete and approved.
ParkedInv ==
  /\ TypeOK
  /\ OneReviewPerForm
  /\ OpenBrowsersAreHeld
  /\ \A s \in Requests : IsParked(s) => pc[s] \in Ended
  /\ \A p \in Requests : pc[p] \in Working =>
       target[p] \in Requests /\ pc[target[p]] \in Ended
  /\ \A p \in Requests : pc[p] = "pressing" => Informed(target[p], confirmed[p])
  /\ \A s \in Requests : presses[s] # {} => pc[s] \in Ended

\* One request at a time.  A form that took a press keeps its browser only
\* while the request that pressed it is on its way to release it, and such a
\* request finds it in the registry.
SerialParkedInv ==
  /\ ParkedInv
  /\ \A p, q \in Requests : InFlight(p) /\ InFlight(q) => p = q
  /\ \A p \in Requests : pc[p] = "pressed" => IsParked(target[p])
  /\ \A s \in Requests : IsOpen(s) /\ ~(presses[s] \subseteq raised) =>
       \E p \in Requests : pc[p] = "pressed" /\ target[p] = s
  /\ \A s \in Requests : \A p, q \in presses[s] \ raised : p = q
  /\ \A s \in Requests : \A p \in presses[s] \ raised :
       pc[p] \in {"pressed", "ok", "killed"}

-----------------------------------------------------------------------------
(* The queue *)

\* Every set of natural numbers has a least one: induction, without an
\* operator for what is proved by it.
LEMMA LeastNatural ==
  ASSUME NEW T, T \subseteq Nat, T # {}
  PROVE  \E n \in T : \A m \in T : n <= m
  <1> DEFINE R == {ss \in Nat \X Nat : ss[1] < ss[2]}
  <1>0. IsWellFoundedOn(R, Nat)
    BY NatLessThanWellFounded DEF OpToRel
  <1> HIDE DEF R
  <1>1. \E n \in T : \A m \in T : ~(<<m, n>> \in R)
    BY <1>0, WFMin
  <1>2. PICK n \in T : \A m \in T : ~(<<m, n>> \in R)
    BY <1>1
  <1>3. ASSUME NEW m \in T PROVE n <= m
    <2>1. ~(<<m, n>> \in R)
      BY <1>2
    <2>2. ~(m < n)
      BY <2>1 DEF R
    <2> QED BY <2>2
  <1> QED BY <1>3

\* What Without computes on the way: for each n, the first n reviews of the
\* queue without those in S.
Keeps(queue, S, n, kept) ==
  kept = [k \in 0 .. n |->
            IF k = 0 THEN <<>>
            ELSE IF queue[k] \in S THEN kept[k - 1]
                 ELSE Append(kept[k - 1], queue[k])]

\* That recursion defines something.
LEMMA KeptExists ==
  ASSUME NEW queue, NEW S, NEW n \in Nat
  PROVE  \E kept : Keeps(queue, S, n, kept)
  <1> DEFINE Missing == {m \in Nat : ~\E kept : Keeps(queue, S, m, kept)}
  <1>1. 0 \notin Missing
    <2>1. Keeps(queue, S, 0, [k \in 0 .. 0 |-> <<>>])
      BY DEF Keeps
    <2> QED BY <2>1
  <1>2. ASSUME NEW m \in Missing
        PROVE  m - 1 \in Missing
    <2>1. m \in Nat /\ m - 1 \in Nat
      BY <1>1, <1>2
    <2>2. SUFFICES ASSUME NEW kept, Keeps(queue, S, m - 1, kept)
                   PROVE  FALSE
      BY <2>1
    <2> DEFINE more == [k \in 0 .. m |->
                          IF k < m THEN kept[k]
                          ELSE IF queue[m] \in S THEN kept[m - 1]
                               ELSE Append(kept[m - 1], queue[m])]
    <2>3. kept = [k \in 0 .. m - 1 |->
                    IF k = 0 THEN <<>>
                    ELSE IF queue[k] \in S THEN kept[k - 1]
                         ELSE Append(kept[k - 1], queue[k])]
      BY <2>2 DEF Keeps
    <2>4. m # 0
      BY <1>1, <1>2
    <2>5. ASSUME NEW k \in 0 .. m
          PROVE  more[k] = IF k = 0 THEN <<>>
                           ELSE IF queue[k] \in S THEN more[k - 1]
                                ELSE Append(more[k - 1], queue[k])
      <3>1. CASE k < m
        <4>1. more[k] = kept[k] /\ (k # 0 => more[k - 1] = kept[k - 1])
          BY <2>1, <3>1
        <4>2. kept[k] = IF k = 0 THEN <<>>
                        ELSE IF queue[k] \in S THEN kept[k - 1]
                             ELSE Append(kept[k - 1], queue[k])
          <5> DEFINE step == [j \in 0 .. m - 1 |->
                                IF j = 0 THEN <<>>
                                ELSE IF queue[j] \in S THEN kept[j - 1]
                                     ELSE Append(kept[j - 1], queue[j])]
          <5>1. step[k] = IF k = 0 THEN <<>>
                          ELSE IF queue[k] \in S THEN kept[k - 1]
                               ELSE Append(kept[k - 1], queue[k])
            BY <2>1, <3>1
          <5>2. kept = step
            BY <2>3
          <5> HIDE DEF step
          <5> QED BY <5>1, <5>2
        <4> QED BY <4>1, <4>2
      <3>2. CASE k = m
        BY <2>1, <2>4, <3>2
      <3> QED BY <2>1, <3>1, <3>2
    <2> HIDE DEF more
    <2>6. more = [k \in 0 .. m |-> more[k]]
      BY DEF more
    <2>7. Keeps(queue, S, m, more)
      BY <2>5, <2>6 DEF Keeps
    <2> QED BY <1>2, <2>7
  <1>3. Missing = {}
    <2>1. SUFFICES ASSUME Missing # {} PROVE FALSE
      OBVIOUS
    <2>2. PICK m \in Missing : \A k \in Missing : m <= k
      BY <2>1, LeastNatural
    <2>3. m - 1 \in Missing
      BY <1>2
    <2> QED BY <2>2, <2>3
  <1> QED BY <1>3

\* Without, in terms of that recursion.
LEMMA WithoutIsKept ==
  ASSUME NEW queue, NEW S, Len(queue) \in Nat
  PROVE  \E kept : /\ Keeps(queue, S, Len(queue), kept)
                   /\ Without(queue, S) = kept[Len(queue)]
  <1> DEFINE kept == CHOOSE kept : Keeps(queue, S, Len(queue), kept)
  <1>1. Keeps(queue, S, Len(queue), kept)
    BY KeptExists
  <1>2. Without(queue, S) = kept[Len(queue)]
    BY DEF Without, Keeps
  <1> QED BY <1>1, <1>2

NoRepeats(queue) ==
  \A m, n \in 1 .. Len(queue) : queue[m] = queue[n] => m = n

\* One more at the end.
LEMMA AppendKeeps ==
  ASSUME NEW R, NEW queue \in Seq(R), NEW s \in R
  PROVE  /\ Append(queue, s) \in Seq(R)
         /\ Len(Append(queue, s)) = Len(queue) + 1
         /\ ToSet(Append(queue, s)) = ToSet(queue) \cup {s}
         /\ NoRepeats(queue) /\ s \notin ToSet(queue) => NoRepeats(Append(queue, s))
  <1> DEFINE longer == Append(queue, s)
  <1>1. /\ longer \in Seq(R) /\ Len(longer) = Len(queue) + 1 /\ Len(queue) \in Nat
        /\ \A m \in 1 .. Len(queue) : longer[m] = queue[m]
        /\ longer[Len(queue) + 1] = s
        /\ DOMAIN longer = 1 .. Len(queue) + 1 /\ DOMAIN queue = 1 .. Len(queue)
    OBVIOUS
  <1> HIDE DEF longer
  <1>2. ToSet(longer) = ToSet(queue) \cup {s}
    <2>1. ASSUME NEW m \in 1 .. Len(queue) + 1
          PROVE  longer[m] \in ToSet(queue) \cup {s}
      BY <1>1, <2>1 DEF ToSet
    <2>2. ASSUME NEW m \in 1 .. Len(queue)
          PROVE  queue[m] \in ToSet(longer)
      <3>1. m \in 1 .. Len(queue) + 1
        BY <1>1
      <3> QED BY <1>1, <3>1 DEF ToSet
    <2>3. s \in ToSet(longer)
      <3>1. Len(queue) + 1 \in 1 .. Len(queue) + 1
        BY <1>1
      <3> QED BY <1>1, <3>1 DEF ToSet
    <2> QED BY <1>1, <2>1, <2>2, <2>3 DEF ToSet
  <1>3. ASSUME NoRepeats(queue), s \notin ToSet(queue)
        PROVE  NoRepeats(longer)
    <2>1. \A m \in 1 .. Len(queue) : queue[m] # s
      BY <1>1, <1>3 DEF ToSet
    <2> QED BY <1>1, <1>3, <2>1 DEF NoRepeats
  <1> QED BY <1>1, <1>2, <1>3 DEF longer

\* What taking reviews out of a queue leaves.
LEMMA WithoutProperties ==
  ASSUME NEW R, NEW queue \in Seq(R), NEW S
  PROVE  /\ Without(queue, S) \in Seq(R)
         /\ Len(Without(queue, S)) <= Len(queue)
         /\ ToSet(Without(queue, S)) = ToSet(queue) \ S
         /\ NoRepeats(queue) => NoRepeats(Without(queue, S))
  <1>0. Len(queue) \in Nat /\ \A n \in 1 .. Len(queue) : queue[n] \in R
    OBVIOUS
  <1>1. PICK kept : /\ Keeps(queue, S, Len(queue), kept)
                    /\ Without(queue, S) = kept[Len(queue)]
    BY <1>0, WithoutIsKept
  <1> DEFINE First(n) == {queue[m] : m \in 1 .. n}
             Right(n) == /\ kept[n] \in Seq(R)
                         /\ Len(kept[n]) <= n
                         /\ ToSet(kept[n]) = First(n) \ S
                         /\ NoRepeats(queue) => NoRepeats(kept[n])
             step == [k \in 0 .. Len(queue) |->
                        IF k = 0 THEN <<>>
                        ELSE IF queue[k] \in S THEN kept[k - 1]
                             ELSE Append(kept[k - 1], queue[k])]
  <1>2. kept[0] = <<>> /\ \A n \in 1 .. Len(queue) :
          kept[n] = IF queue[n] \in S THEN kept[n - 1]
                    ELSE Append(kept[n - 1], queue[n])
    <2>1. step[0] = <<>> /\ \A n \in 1 .. Len(queue) :
            step[n] = IF queue[n] \in S THEN kept[n - 1]
                      ELSE Append(kept[n - 1], queue[n])
      BY <1>0
    <2>2. kept = step
      BY <1>1 DEF Keeps
    <2> HIDE DEF step
    <2> QED BY <2>1, <2>2
  <1> DEFINE Wrong == {n \in Nat : n <= Len(queue) /\ ~Right(n)}
  <1>3. 0 \notin Wrong
    <2>1. kept[0] \in Seq(R) /\ Len(kept[0]) = 0
      BY <1>2
    <2>2. ToSet(kept[0]) = {} /\ First(0) = {}
      BY <1>2 DEF ToSet
    <2>3. NoRepeats(kept[0])
      BY <2>1 DEF NoRepeats
    <2>4. Right(0)
      BY <2>1, <2>2, <2>3
    <2> QED BY <2>4
  <1>4. ASSUME NEW n \in 1 .. Len(queue), Right(n - 1)
        PROVE  Right(n)
    <2>1. n \in Nat /\ n - 1 \in Nat /\ queue[n] \in R
      BY <1>0
    <2>2. First(n) = First(n - 1) \cup {queue[n]}
      BY <2>1
    <2>3. CASE queue[n] \in S
      <3>1. kept[n] = kept[n - 1]
        BY <1>2, <2>3
      <3>2. First(n) \ S = First(n - 1) \ S
        BY <2>2, <2>3
      <3> HIDE DEF First
      <3> QED BY <1>4, <2>1, <3>1, <3>2
    <2>4. CASE queue[n] \notin S
      <3>1. kept[n] = Append(kept[n - 1], queue[n])
        BY <1>2, <2>4
      <3>2. First(n) \ S = (First(n - 1) \ S) \cup {queue[n]}
        BY <2>2, <2>4
      <3>3. NoRepeats(queue) => queue[n] \notin First(n - 1)
        BY <1>0, <2>1 DEF NoRepeats
      <3> HIDE DEF First
      <3>4. kept[n - 1] \in Seq(R) /\ Len(kept[n - 1]) <= n - 1
        BY <1>4
      <3>5. kept[n] \in Seq(R) /\ Len(kept[n]) <= n
        BY <2>1, <3>1, <3>4
      <3>6. ToSet(kept[n]) = First(n) \ S
        BY <1>4, <2>1, <3>1, <3>2, AppendKeeps
      <3>7. NoRepeats(queue) => NoRepeats(kept[n])
        BY <1>4, <2>1, <3>1, <3>3, AppendKeeps
      <3> QED BY <3>5, <3>6, <3>7
    <2> QED BY <2>3, <2>4
  <1> HIDE DEF Right
  <1>5. Wrong = {}
    <2>1. SUFFICES ASSUME Wrong # {} PROVE FALSE
      OBVIOUS
    <2>2. PICK n \in Wrong : \A m \in Wrong : n <= m
      BY <2>1, LeastNatural
    <2>3. n \in 1 .. Len(queue) /\ n - 1 \in Nat /\ n - 1 <= Len(queue)
      BY <1>0, <1>3
    <2>4. Right(n - 1)
      BY <2>2, <2>3
    <2> QED BY <1>4, <2>3, <2>4
  <1>6. Right(Len(queue))
    BY <1>0, <1>5
  <1>7. First(Len(queue)) = ToSet(queue)
    BY <1>0 DEF ToSet
  <1> QED BY <1>1, <1>6, <1>7 DEF Right

\* What is kept of the registry when a form is parked: none for the same
\* form, and one place less than there is.
LEMMA RoomIsMade ==
  ASSUME NEW queue \in Seq(Requests), Len(queue) <= MaxParked, NoRepeats(queue)
  PROVE  /\ WithRoom(queue) \in Seq(Requests)
         /\ Len(WithRoom(queue)) < MaxParked
         /\ ToSet(WithRoom(queue)) \subseteq ToSet(queue)
         /\ NoRepeats(WithRoom(queue))
  <1>0. Len(queue) \in Nat /\ MaxParked \in Nat \ {0}
        /\ DOMAIN queue = 1 .. Len(queue)
    BY MaxParkedIsPositive
  <1>1. CASE Len(queue) < MaxParked
    BY <1>1 DEF WithRoom
  <1>2. CASE ~(Len(queue) < MaxParked)
    <2>1. WithRoom(queue) = SubSeq(queue, 2, Len(queue))
      <3>1. Len(queue) - MaxParked + 2 = 2
        BY <1>0, <1>2
      <3> QED BY <1>2, <3>1 DEF WithRoom
    <2> DEFINE newest == SubSeq(queue, 2, Len(queue))
    <2>2. /\ newest \in Seq(Requests) /\ Len(newest) = Len(queue) - 1
          /\ DOMAIN newest = 1 .. Len(queue) - 1
          /\ \A n \in 1 .. Len(queue) - 1 : newest[n] = queue[n + 1]
      BY <1>0, <1>2
    <2> HIDE DEF newest
    <2>3. ToSet(newest) \subseteq ToSet(queue)
      <3>1. ASSUME NEW n \in 1 .. Len(queue) - 1
            PROVE  newest[n] \in ToSet(queue)
        <4>1. n + 1 \in 1 .. Len(queue)
          BY <1>0
        <4> QED BY <1>0, <2>2, <4>1 DEF ToSet
      <3> QED BY <2>2, <3>1 DEF ToSet
    <2>4. NoRepeats(newest)
      <3>1. ASSUME NEW m \in 1 .. Len(queue) - 1, NEW n \in 1 .. Len(queue) - 1,
                   newest[m] = newest[n]
            PROVE  m = n
        <4>1. m + 1 \in 1 .. Len(queue) /\ n + 1 \in 1 .. Len(queue)
          BY <1>0
        <4>2. m + 1 = n + 1
          BY <2>2, <3>1, <4>1 DEF NoRepeats
        <4> QED BY <4>2
      <3> QED BY <2>2, <3>1 DEF NoRepeats
    <2>5. Len(newest) < MaxParked
      BY <1>0, <1>2, <2>2
    <2> QED BY <2>1, <2>2, <2>3, <2>4, <2>5 DEF newest
  <1> QED BY <1>1, <1>2

\* Being in the registry, as a set.
LEMMA ParkedSet ==
  ASSUME NEW queue \in Seq(Requests)
  PROVE  \A s : Contains(queue, s) <=> s \in ToSet(queue)
  BY DEF Contains, ToSet

-----------------------------------------------------------------------------
(* The registry and its browsers *)

\* One review per form, without positions in the queue.
LEMMA OneReviewPerFormAsSet ==
  ASSUME NEW queue \in Seq(Requests), NEW for
  PROVE  (\A m, n \in 1 .. Len(queue) : for[queue[m]] = for[queue[n]] => m = n)
           <=> /\ NoRepeats(queue)
               /\ \A s, t \in ToSet(queue) : for[s] = for[t] => s = t
  <1>0. DOMAIN queue = 1 .. Len(queue)
    OBVIOUS
  <1> QED BY <1>0 DEF NoRepeats, ToSet

LEMMA OverlapIsBoolean ==
  ASSUME overlapped \in BOOLEAN, NEW p, NEW label, Goto(p, label)
  PROVE  overlapped' \in BOOLEAN
  BY DEF Goto

LEMMA Moved ==
  ASSUME ParkedInv, NEW p \in Requests, NEW label \in Labels, Goto(p, label)
  PROVE  /\ pc' \in [Requests -> Labels] /\ overlapped' \in BOOLEAN
         /\ pc'[p] = label
         /\ \A q \in Requests \ {p} : pc'[q] = pc[q]
  <1>1. overlapped' \in BOOLEAN
    BY OverlapIsBoolean DEF ParkedInv, TypeOK
  <1> QED BY <1>1 DEF Goto, ParkedInv, TypeOK

\* Reviews that leave the registry take their browsers with them.
LEMMA Closed ==
  ASSUME ParkedInv, NEW S, Close(S), UNCHANGED form
  PROVE  /\ parked' \in Seq(Requests)
         /\ overdue' \subseteq ToSet(parked')
         /\ browser' \in [Requests -> {"none", "open", "closed"}]
         /\ OneReviewPerForm'
         /\ \A s \in Requests : IsOpen(s)' <=> IsOpen(s) /\ s \notin S
         /\ \A s \in Requests : IsParked(s)' <=> IsParked(s) /\ s \notin S
  <1>0. /\ parked \in Seq(Requests) /\ OneReviewPerForm
        /\ overdue \subseteq ToSet(parked)
        /\ browser \in [Requests -> {"none", "open", "closed"}]
    BY DEF ParkedInv, TypeOK
  <1>1. parked' = Without(parked, S)
    BY DEF Close
  <1>2. /\ parked' \in Seq(Requests) /\ Len(parked') <= Len(parked)
        /\ ToSet(parked') = ToSet(parked) \ S
        /\ NoRepeats(parked) => NoRepeats(parked')
    BY <1>0, <1>1, WithoutProperties
  <1>3. /\ Len(parked) <= MaxParked /\ NoRepeats(parked)
        /\ \A s, t \in ToSet(parked) : form[s] = form[t] => s = t
    BY <1>0, OneReviewPerFormAsSet DEF OneReviewPerForm
  <1>4. Len(parked') <= MaxParked
    BY <1>0, <1>2, <1>3, MaxParkedIsPositive
  <1>5. OneReviewPerForm'
    <2>1. NoRepeats(parked')
      BY <1>2, <1>3
    <2>2. \A s, t \in ToSet(parked') : form'[s] = form'[t] => s = t
      BY <1>2, <1>3
    <2> QED BY <1>2, <1>4, <2>1, <2>2, OneReviewPerFormAsSet DEF OneReviewPerForm
  <1>6. \A s \in Requests : IsParked(s)' <=> IsParked(s) /\ s \notin S
    BY <1>0, <1>2, ParkedSet DEF IsParked
  <1>7. \A s \in Requests : IsOpen(s)' <=> IsOpen(s) /\ s \notin S
    BY <1>0 DEF Close, IsOpen
  <1>8. overdue' \subseteq ToSet(parked')
    BY <1>0, <1>2 DEF Close
  <1>9. browser' \in [Requests -> {"none", "open", "closed"}]
    BY <1>0 DEF Close
  <1> QED BY <1>2, <1>5, <1>6, <1>7, <1>8, <1>9

LEMMA LabelsApart ==
  /\ Ended \subseteq Labels /\ Working \subseteq Labels
  /\ Working \cap Ended = {}
  /\ {"idle", "filling"} \cap (Working \cup Ended) = {}
  /\ {"answering", "scanning", "pressing", "pressed"} \subseteq Working
  /\ {"idle", "filling"} \subseteq Labels
  BY DEF Labels, Ended, Working

LEMMA InitParked == Init => ParkedInv
  <1> SUFFICES ASSUME Init PROVE ParkedInv
    OBVIOUS
  <1>1. pc = [p \in Requests |-> "idle"] /\ overlapped = FALSE
    BY DEF Init, InitServing
  <1>2. TypeOK
    <2>1. pc \in [Requests -> Labels] /\ overlapped \in BOOLEAN
      BY <1>1, LabelsApart
    <2>2. parked \in Seq(Requests) /\ overdue \subseteq ToSet(parked)
      BY DEF Init
    <2>3. report \in [Requests -> [Fields -> Entries]]
      BY DEF Init, Untouched, Entries
    <2>4. /\ browser \in [Requests -> {"none", "open", "closed"}]
          /\ form \in [Requests -> {NoForm} \cup [user : Users, job : Jobs]]
          /\ target \in [Requests -> Requests \cup {NoOne}]
      BY DEF Init
    <2>5. /\ presses \in [Requests -> SUBSET Requests]
          /\ raised \subseteq Requests
          /\ confirmed \in [Requests -> SUBSET Sensitive]
      BY DEF Init
    <2> QED BY <2>1, <2>2, <2>3, <2>4, <2>5 DEF TypeOK
  <1>3. OneReviewPerForm
    BY MaxParkedIsPositive DEF Init, OneReviewPerForm
  <1>4. \A s \in Requests : ~IsParked(s) /\ ~IsOpen(s) /\ presses[s] = {}
    BY DEF Init, IsParked, Contains, IsOpen
  <1>5. \A p \in Requests : pc[p] \notin Working /\ pc[p] # "filling"
    BY <1>1, LabelsApart
  <1> QED BY <1>2, <1>3, <1>4, <1>5, LabelsApart DEF ParkedInv, OpenBrowsersAreHeld

\* A request is over, and nothing else changed.
LEMMA EndedIsKept ==
  ASSUME ParkedInv, NEW p \in Requests, NEW label \in Ended, Goto(p, label),
         pc[p] \in Working \cup {"idle"},
         UNCHANGED <<registryVars, sessionVars, target, confirmed>>
  PROVE  ParkedInv'
  <1>1. /\ pc' \in [Requests -> Labels] /\ overlapped' \in BOOLEAN
        /\ pc'[p] = label
        /\ \A q \in Requests \ {p} : pc'[q] = pc[q]
    BY Moved, LabelsApart
  <1>2. UNCHANGED <<parked, overdue, browser, form, report, presses, raised,
                    target, confirmed>>
    BY DEF registryVars, sessionVars, pressVars
  <1>3. TypeOK' /\ OneReviewPerForm'
    BY <1>1, <1>2 DEF ParkedInv, TypeOK, OneReviewPerForm
  <1>4. \A s \in Requests : /\ IsParked(s)' <=> IsParked(s)
                            /\ IsOpen(s)' <=> IsOpen(s)
    BY <1>2 DEF IsParked, IsOpen
  <1>5. \A q \in Requests : /\ pc[q] \in Ended => pc'[q] \in Ended
                            /\ pc'[q] = "filling" <=> pc[q] = "filling"
                            /\ pc'[q] \in Working => pc'[q] = pc[q]
    BY <1>1, LabelsApart
  <1>6. OpenBrowsersAreHeld'
    BY <1>4, <1>5 DEF ParkedInv, OpenBrowsersAreHeld
  <1>7. \A q \in Requests : pc'[q] = "pressing" => Informed(target[q], confirmed[q])'
    BY <1>2, <1>5, LabelsApart DEF ParkedInv, Informed
  <1>8. \A q \in Requests : pc'[q] \in Working =>
          target'[q] \in Requests /\ pc'[target'[q]] \in Ended
    BY <1>2, <1>5 DEF ParkedInv
  <1>9. \A s \in Requests : /\ IsParked(s)' => pc'[s] \in Ended
                            /\ presses'[s] # {} => pc'[s] \in Ended
    BY <1>2, <1>4, <1>5 DEF ParkedInv
  <1> QED BY <1>3, <1>6, <1>7, <1>8, <1>9 DEF ParkedInv

\* A request starts, moves on or ends while reviews leave the registry that no
\* pass is filling.
LEMMA ClosingIsKept ==
  ASSUME ParkedInv, NEW p \in Requests, NEW label \in Working \cup Ended,
         Goto(p, label), pc[p] \in Working \cup {"idle"},
         NEW S, Close(S), \A s \in S : s \in Requests => pc[s] \in Ended,
         UNCHANGED <<form, report, pressVars, confirmed>>,
         label \in Working =>
           /\ label # "pressing"
           /\ target'[p] \in Requests /\ pc[target'[p]] \in Ended,
         target' \in [Requests -> Requests \cup {NoOne}],
         \A q \in Requests \ {p} : target'[q] = target[q]
  PROVE  ParkedInv'
  <1>1. /\ pc' \in [Requests -> Labels] /\ overlapped' \in BOOLEAN
        /\ pc'[p] = label
        /\ \A q \in Requests \ {p} : pc'[q] = pc[q]
    BY Moved, LabelsApart
  <1>2. UNCHANGED <<form, report, presses, raised, confirmed>>
    BY DEF pressVars
  <1>3. /\ parked' \in Seq(Requests) /\ overdue' \subseteq ToSet(parked')
        /\ browser' \in [Requests -> {"none", "open", "closed"}]
        /\ OneReviewPerForm'
        /\ \A s \in Requests : IsOpen(s)' <=> IsOpen(s) /\ s \notin S
        /\ \A s \in Requests : IsParked(s)' <=> IsParked(s) /\ s \notin S
    BY <1>2, Closed
  <1>4. TypeOK'
    BY <1>1, <1>2, <1>3 DEF ParkedInv, TypeOK
  <1>5. \A q \in Requests : /\ pc[q] \in Ended => pc'[q] \in Ended
                            /\ pc'[q] = "filling" <=> pc[q] = "filling"
                            /\ pc[q] = "filling" => q \notin S
    BY <1>1, LabelsApart
  <1>6. OpenBrowsersAreHeld'
    BY <1>3, <1>5 DEF ParkedInv, OpenBrowsersAreHeld
  <1>7. \A q \in Requests : pc'[q] \in Working =>
          target'[q] \in Requests /\ pc'[target'[q]] \in Ended
    BY <1>1, <1>5, LabelsApart DEF ParkedInv
  <1>8. \A q \in Requests : pc'[q] = "pressing" => Informed(target[q], confirmed[q])'
    BY <1>1, <1>2, LabelsApart DEF ParkedInv, Informed
  <1>9. \A s \in Requests : /\ IsParked(s)' => pc'[s] \in Ended
                            /\ presses'[s] # {} => pc'[s] \in Ended
    BY <1>2, <1>3, <1>5 DEF ParkedInv
  <1> QED BY <1>3, <1>4, <1>6, <1>7, <1>8, <1>9 DEF ParkedInv

LEMMA AcquireIsKept ==
  ASSUME ParkedInv, NEW p \in Requests, NEW s \in Requests, NEW u \in Users,
         NEW next \in {"answering", "scanning"}, Acquire(p, s, u, next)
  PROVE  ParkedInv'
  <1>1. /\ pc[p] = "idle" /\ Close(overdue)
        /\ UNCHANGED <<form, report, pressVars, confirmed>>
    BY DEF Acquire, MayStart
  <1>2. \A t \in overdue : t \in Requests => pc[t] \in Ended
    BY ParkedSet DEF ParkedInv, TypeOK, IsParked
  <1>t. target \in [Requests -> Requests \cup {NoOne}]
    BY DEF ParkedInv, TypeOK
  <1>3. CASE Acquirable(s, u)
    <2>1. Goto(p, next) /\ target' = [target EXCEPT ![p] = s]
      BY <1>3 DEF Acquire
    <2>2. pc[s] \in Ended
      BY <1>3 DEF ParkedInv, Acquirable
    <2>3. next \in Working /\ next # "pressing"
      BY LabelsApart
    <2> QED BY <1>1, <1>2, <1>t, <2>1, <2>2, <2>3, ClosingIsKept
  <1>4. CASE ~Acquirable(s, u)
    <2>1. Goto(p, "failed") /\ UNCHANGED target
      BY <1>4 DEF Acquire
    <2>2. "failed" \in Ended /\ "failed" \notin Working
      BY LabelsApart DEF Ended
    <2> QED BY <1>1, <1>2, <1>t, <2>1, <2>2, ClosingIsKept
  <1> QED BY <1>3, <1>4

LEMMA DiscardIsKept ==
  ASSUME ParkedInv, NEW p \in Requests, NEW s \in Requests, NEW u \in Users,
         Discard(p, s, u)
  PROVE  ParkedInv'
  <1>1. /\ pc[p] = "idle" /\ UNCHANGED <<form, report, pressVars, target, confirmed>>
        /\ {"ok", "failed"} \subseteq Ended \ Working
    BY LabelsApart DEF Discard, MayStart, Ended
  <1>2. CASE IsParked(s) /\ form[s].user = u
    <2>1. Close({s}) /\ Goto(p, "ok") /\ pc[s] \in Ended
      BY <1>2 DEF Discard, ParkedInv
    <2> QED BY <1>1, <2>1, ClosingIsKept DEF ParkedInv, TypeOK
  <1>3. CASE ~(IsParked(s) /\ form[s].user = u)
    <2>1. Goto(p, "failed") /\ UNCHANGED <<registryVars, browser>>
      BY <1>3 DEF Discard
    <2> QED BY <1>1, <2>1, EndedIsKept DEF sessionVars
  <1> QED BY <1>2, <1>3

LEMMA ReleaseIsKept ==
  ASSUME ParkedInv, NEW p \in Requests, Release(p)
  PROVE  ParkedInv'
  <1>1. /\ pc[p] \in Working /\ Close({target[p]}) /\ Goto(p, "ok")
        /\ UNCHANGED <<form, report, pressVars, target, confirmed>>
        /\ "ok" \in Ended \ Working
    BY LabelsApart DEF Release, Ended
  <1>2. \A s \in {target[p]} : s \in Requests => pc[s] \in Ended
    BY <1>1 DEF ParkedInv
  <1> QED BY <1>1, <1>2, ClosingIsKept DEF ParkedInv, TypeOK

LEMMA RefusalsAreKept ==
  ASSUME ParkedInv, NEW p \in Requests,
         FillAnswerFails(p) \/ SubmitRefused(p) \/ ReleaseFindsNothing(p)
  PROVE  ParkedInv'
  <1>1. /\ pc[p] \in Working /\ Goto(p, "failed") /\ "failed" \in Ended
        /\ UNCHANGED <<registryVars, sessionVars, target, confirmed>>
    BY LabelsApart DEF FillAnswerFails, SubmitRefused, ReleaseFindsNothing, Ended
  <1> QED BY <1>1, EndedIsKept

LEMMA DeadlineIsKept ==
  ASSUME ParkedInv, NEW s \in Requests, PassDeadline(s)
  PROVE  ParkedInv'
  <1>1. /\ UNCHANGED <<serving, parked, sessionVars, target, confirmed>>
        /\ overdue' \subseteq ToSet(parked)
    BY ParkedSet DEF PassDeadline, ParkedInv, TypeOK, IsParked
  <1>2. UNCHANGED <<pc, overlapped, parked, browser, form, report, presses,
                    raised, target, confirmed>>
    BY <1>1 DEF serving, sessionVars, pressVars
  <1> QED BY <1>1, <1>2 DEF ParkedInv, TypeOK, OneReviewPerForm,
             OpenBrowsersAreHeld, IsParked, IsOpen, Informed

\* A fill pass begins in a browser of its own.
LEMMA OpenFormIsKept ==
  ASSUME ParkedInv, NEW p \in Requests, NEW u \in Users, NEW j \in Jobs,
         OpenForm(p, u, j)
  PROVE  ParkedInv'
  <1>1. /\ pc' \in [Requests -> Labels] /\ overlapped' \in BOOLEAN
        /\ pc[p] = "idle" /\ pc'[p] = "filling"
        /\ \A q \in Requests \ {p} : pc'[q] = pc[q]
    BY Moved, LabelsApart DEF OpenForm, MayStart
  <1>2. /\ UNCHANGED <<parked, overdue, report, presses, raised, target, confirmed>>
        /\ browser' = [browser EXCEPT ![p] = "open"]
        /\ form' = [form EXCEPT ![p] = [user |-> u, job |-> j]]
    BY DEF OpenForm, registryVars, pressVars
  <1>3. TypeOK'
    BY <1>1, <1>2 DEF ParkedInv, TypeOK
  <1>4. \A s \in Requests : IsParked(s)' <=> IsParked(s)
    BY <1>2 DEF IsParked
  <1>5. ~IsParked(p)
    BY <1>1, LabelsApart DEF ParkedInv
  <1>6. OneReviewPerForm'
    <2>1. \A n \in 1 .. Len(parked) : parked[n] # p /\ parked[n] \in Requests
      BY <1>5 DEF IsParked, Contains, ParkedInv, TypeOK
    <2>2. \A n \in 1 .. Len(parked) : form'[parked[n]] = form[parked[n]]
      BY <1>2, <2>1 DEF ParkedInv, TypeOK
    <2> QED BY <1>2, <2>2 DEF ParkedInv, OneReviewPerForm
  <1>7. OpenBrowsersAreHeld'
    BY <1>1, <1>2, <1>4 DEF ParkedInv, TypeOK, OpenBrowsersAreHeld, IsOpen
  <1>8. \A q \in Requests : /\ pc[q] \in Ended => pc'[q] \in Ended
                            /\ pc'[q] \in Working => pc'[q] = pc[q]
    BY <1>1, LabelsApart
  <1>9. \A q \in Requests : pc'[q] = "pressing" => Informed(target[q], confirmed[q])'
    BY <1>2, <1>8, LabelsApart DEF ParkedInv, Informed
  <1> QED BY <1>2, <1>3, <1>4, <1>6, <1>7, <1>8, <1>9 DEF ParkedInv

\* A fill pass ends with nothing to review, its browser closed.
LEMMA FillEndsIsKept ==
  ASSUME ParkedInv, NEW p \in Requests, NEW outcome \in Ended, FillEnds(p, outcome)
  PROVE  ParkedInv'
  <1>1. /\ pc' \in [Requests -> Labels] /\ overlapped' \in BOOLEAN
        /\ pc[p] = "filling" /\ pc'[p] = outcome
        /\ \A q \in Requests \ {p} : pc'[q] = pc[q]
    BY Moved, LabelsApart DEF FillEnds
  <1>2. /\ UNCHANGED <<parked, overdue, form, report, presses, raised, target, confirmed>>
        /\ browser' = [browser EXCEPT ![p] = "closed"]
    BY DEF FillEnds, registryVars, pressVars
  <1>3. TypeOK' /\ OneReviewPerForm'
    BY <1>1, <1>2 DEF ParkedInv, TypeOK, OneReviewPerForm
  <1>4. \A s \in Requests : IsParked(s)' <=> IsParked(s)
    BY <1>2 DEF IsParked
  <1>5. ~IsParked(p)
    BY <1>1, LabelsApart DEF ParkedInv
  <1>6. OpenBrowsersAreHeld'
    BY <1>1, <1>2, <1>4, <1>5, LabelsApart
       DEF ParkedInv, TypeOK, OpenBrowsersAreHeld, IsOpen
  <1>7. \A q \in Requests : /\ pc[q] \in Ended => pc'[q] \in Ended
                            /\ pc'[q] \in Working => pc'[q] = pc[q]
    BY <1>1, LabelsApart
  <1>8. \A q \in Requests : pc'[q] = "pressing" => Informed(target[q], confirmed[q])'
    BY <1>2, <1>7, LabelsApart DEF ParkedInv, Informed
  <1> QED BY <1>2, <1>3, <1>4, <1>6, <1>7, <1>8 DEF ParkedInv

\* The registry once a review joined it.
LEMMA Joined ==
  ASSUME ParkedInv, NEW p \in Requests, pc[p] = "filling",
         parked' = Append(WithRoom(Kept(form[p])), p), UNCHANGED form
  PROVE  /\ parked' \in Seq(Requests)
         /\ ToSet(parked') = ToSet(WithRoom(Kept(form[p]))) \cup {p}
         /\ ToSet(WithRoom(Kept(form[p]))) \subseteq ToSet(parked)
         /\ OneReviewPerForm'
  <1> DEFINE same == {s \in Requests : form[s] = form[p]}
             kept == Kept(form[p])
             room == WithRoom(Kept(form[p]))
  <1>0. parked \in Seq(Requests) /\ Len(parked) <= MaxParked /\ NoRepeats(parked)
        /\ \A s, t \in ToSet(parked) : form[s] = form[t] => s = t
    BY OneReviewPerFormAsSet DEF ParkedInv, TypeOK, OneReviewPerForm
  <1>1. /\ kept \in Seq(Requests) /\ Len(kept) <= Len(parked) /\ NoRepeats(kept)
        /\ ToSet(kept) = ToSet(parked) \ (overdue \cup same)
    BY <1>0, WithoutProperties DEF Kept
  <1> HIDE DEF same, kept
  <1>2. /\ room \in Seq(Requests) /\ Len(room) < MaxParked
        /\ ToSet(room) \subseteq ToSet(kept) /\ NoRepeats(room)
    <2>1. Len(kept) <= MaxParked
      BY <1>0, <1>1, MaxParkedIsPositive
    <2> QED BY <1>1, <2>1, RoomIsMade DEF kept
  <1> HIDE DEF room
  <1>3. p \in same /\ p \notin ToSet(room)
    BY <1>1, <1>2 DEF same
  <1>4. /\ parked' \in Seq(Requests) /\ Len(parked') = Len(room) + 1
        /\ ToSet(parked') = ToSet(room) \cup {p} /\ NoRepeats(parked')
    BY <1>2, <1>3, AppendKeeps DEF room
  <1>5. \A s, t \in ToSet(parked') : form'[s] = form'[t] => s = t
    <2>0. ToSet(parked) \subseteq Requests
      BY <1>0 DEF ToSet
    <2>1. \A s \in ToSet(room) : s \in ToSet(parked) /\ s \in Requests /\ s \notin same
      BY <1>1, <1>2, <2>0
    <2>2. \A s \in ToSet(room) : form[s] # form[p]
      BY <2>1 DEF same
    <2> QED BY <1>0, <1>4, <2>1, <2>2
  <1>6. Len(parked') <= MaxParked
    BY <1>2, <1>4, MaxParkedIsPositive
  <1>7. OneReviewPerForm'
    <2>1. \A m, n \in 1 .. Len(parked') : form[parked'[m]] = form[parked'[n]] => m = n
      <3>1. \A s, t \in ToSet(parked') : form[s] = form[t] => s = t
        BY <1>5
      <3>2. \A m \in 1 .. Len(parked') : parked'[m] \in ToSet(parked')
        BY <1>4 DEF ToSet
      <3> QED BY <1>4, <3>1, <3>2 DEF NoRepeats
    <2> QED BY <1>6, <2>1 DEF OneReviewPerForm
  <1> QED BY <1>1, <1>2, <1>4, <1>7 DEF room

LEMMA ParkIsKept ==
  ASSUME ParkedInv, NEW p \in Requests, NEW entries \in FillReports, Park(p, entries)
  PROVE  ParkedInv'
  <1> DEFINE room == WithRoom(Kept(form[p]))
             displaced == Displaced(form[p])
  <1>1. /\ pc' \in [Requests -> Labels] /\ overlapped' \in BOOLEAN
        /\ pc[p] = "filling" /\ pc'[p] = "ok"
        /\ \A q \in Requests \ {p} : pc'[q] = pc[q]
    BY Moved, LabelsApart DEF Park, Ended
  <1>2. /\ UNCHANGED <<form, presses, raised, target, confirmed>>
        /\ parked' = Append(room, p)
        /\ overdue' = overdue \ displaced
        /\ browser' = [s \in Requests |->
                         IF s \in displaced THEN "closed" ELSE browser[s]]
        /\ report' = [report EXCEPT ![p] = entries]
    BY DEF Park, pressVars
  <1>3. /\ parked' \in Seq(Requests)
        /\ ToSet(parked') = ToSet(room) \cup {p}
        /\ ToSet(room) \subseteq ToSet(parked)
        /\ OneReviewPerForm'
    BY <1>1, <1>2, Joined
  <1>4. displaced = ToSet(parked) \ ToSet(room)
    BY DEF Displaced
  <1> HIDE DEF room, displaced
  <1>5. TypeOK'
    <2>1. overdue' \subseteq ToSet(parked')
      BY <1>2, <1>3, <1>4 DEF ParkedInv, TypeOK
    <2>2. entries \in [Fields -> Entries]
      BY DEF FillReports
    <2>3. /\ browser' \in [Requests -> {"none", "open", "closed"}]
          /\ report' \in [Requests -> [Fields -> Entries]]
      BY <1>2, <2>2 DEF ParkedInv, TypeOK
    <2> QED BY <1>1, <1>2, <1>3, <2>1, <2>3 DEF ParkedInv, TypeOK
  <1>6. \A s \in Requests : IsParked(s) <=> s \in ToSet(parked)
    BY ParkedSet DEF IsParked, ParkedInv, TypeOK
  <1>7. \A s \in Requests : IsParked(s)' <=> s \in ToSet(room) \cup {p}
    BY <1>3, ParkedSet DEF IsParked
  <1>8. OpenBrowsersAreHeld'
    <2>1. \A s \in Requests : IsOpen(s)' <=> IsOpen(s) /\ s \notin displaced
      BY <1>2 DEF IsOpen
    <2>2. ~IsParked(p)
      BY <1>1, LabelsApart DEF ParkedInv
    <2> QED BY <1>1, <1>3, <1>4, <1>6, <1>7, <2>1, <2>2, LabelsApart
            DEF ParkedInv, OpenBrowsersAreHeld
  <1>9. \A q \in Requests : /\ pc[q] \in Ended => pc'[q] \in Ended
                            /\ pc'[q] \in Working => pc'[q] = pc[q]
    BY <1>1, LabelsApart DEF Ended
  <1>10. \A s \in Requests : IsParked(s)' => pc'[s] \in Ended
    BY <1>1, <1>3, <1>6, <1>7, <1>9 DEF ParkedInv, Ended
  <1>11. \A q \in Requests : pc'[q] = "pressing" => Informed(target[q], confirmed[q])'
    <2>1. ASSUME NEW q \in Requests, pc'[q] = "pressing"
          PROVE  Informed(target[q], confirmed[q])'
      <3>1. pc[q] = "pressing" /\ target[q] \in Requests /\ pc[target[q]] \in Ended
        BY <1>9, <2>1, LabelsApart DEF ParkedInv
      <3>2. target[q] # p /\ report'[target[q]] = report[target[q]]
        BY <1>1, <1>2, <3>1, LabelsApart DEF ParkedInv, TypeOK
      <3> QED BY <1>2, <3>1, <3>2 DEF ParkedInv, Informed
    <2> QED BY <2>1
  <1> QED BY <1>2, <1>3, <1>5, <1>8, <1>9, <1>10, <1>11 DEF ParkedInv

\* An answered field is neither open nor waiting for approval.
LEMMA FillAnswerIsKept ==
  ASSUME ParkedInv, NEW p \in Requests, NEW f \in Fields, FillAnswer(p, f)
  PROVE  ParkedInv'
  <1>1. /\ pc' \in [Requests -> Labels] /\ overlapped' \in BOOLEAN
        /\ pc[p] = "answering" /\ pc'[p] = "ok"
        /\ \A q \in Requests \ {p} : pc'[q] = pc[q]
    BY Moved, LabelsApart DEF FillAnswer, Ended
  <1>2. /\ UNCHANGED <<parked, overdue, browser, form, presses, raised, target, confirmed>>
        /\ report' = [report EXCEPT ![target[p]][f] = "answered"]
    BY DEF FillAnswer, registryVars, pressVars
  <1>3. target[p] \in Requests
    BY <1>1, LabelsApart DEF ParkedInv
  <1>4. TypeOK'
    <2>1. report' \in [Requests -> [Fields -> Entries]]
      BY <1>2, <1>3 DEF ParkedInv, TypeOK, Entries
    <2> QED BY <1>1, <1>2, <2>1 DEF ParkedInv, TypeOK
  <1>5. OneReviewPerForm' /\ \A s \in Requests : /\ IsParked(s)' <=> IsParked(s)
                                                 /\ IsOpen(s)' <=> IsOpen(s)
    BY <1>2 DEF ParkedInv, OneReviewPerForm, IsParked, IsOpen
  <1>6. \A q \in Requests : /\ pc[q] \in Ended => pc'[q] \in Ended
                            /\ pc'[q] = "filling" <=> pc[q] = "filling"
                            /\ pc'[q] \in Working => pc'[q] = pc[q]
    BY <1>1, LabelsApart DEF Ended
  <1>7. ASSUME NEW s \in Requests, NEW approved, Informed(s, approved)
        PROVE  Informed(s, approved)'
    <2>1. \A g \in Fields : report'[s][g] = report[s][g] \/ report'[s][g] = "answered"
      BY <1>2, <1>3 DEF ParkedInv, TypeOK
    <2> QED BY <1>7, <2>1, RequiredFields DEF Informed
  <1>8. \A q \in Requests : pc'[q] = "pressing" => Informed(target[q], confirmed[q])'
    <2>1. ASSUME NEW q \in Requests, pc'[q] = "pressing"
          PROVE  Informed(target[q], confirmed[q])'
      <3>1. target[q] \in Requests /\ Informed(target[q], confirmed[q])
        BY <1>6, <2>1, LabelsApart DEF ParkedInv
      <3>2. UNCHANGED <<target[q], confirmed[q]>>
        BY <1>2
      <3> QED BY <1>7, <3>1, <3>2 DEF Informed
    <2> QED BY <2>1
  <1>9. OpenBrowsersAreHeld'
    BY <1>5, <1>6 DEF ParkedInv, OpenBrowsersAreHeld
  <1>10. \A q \in Requests : pc'[q] \in Working =>
           target'[q] \in Requests /\ pc'[target'[q]] \in Ended
    BY <1>2, <1>6 DEF ParkedInv
  <1>11. \A s \in Requests : /\ IsParked(s)' => pc'[s] \in Ended
                             /\ presses'[s] # {} => pc'[s] \in Ended
    BY <1>2, <1>5, <1>6 DEF ParkedInv
  <1> QED BY <1>4, <1>5, <1>8, <1>9, <1>10, <1>11 DEF ParkedInv

\* The gates, and the press itself.
LEMMA PressingIsKept ==
  ASSUME ParkedInv, NEW p \in Requests,
         \/ \E approved \in SUBSET Sensitive : PassGates(p, approved)
         \/ PressSubmit(p)
         \/ PressRaises(p)
  PROVE  ParkedInv'
  <1>1. PICK label \in {"pressing", "pressed", "failed"} :
          /\ Goto(p, label) /\ pc[p] \in {"scanning", "pressing"}
          /\ label = "pressing" => \E approved \in SUBSET Sensitive :
               /\ Informed(target[p], approved)
               /\ confirmed' = [confirmed EXCEPT ![p] = approved]
               /\ UNCHANGED pressVars
          /\ label # "pressing" => /\ presses' = [presses EXCEPT ![target[p]] = @ \cup {p}]
                                   /\ raised' \in {raised, raised \cup {p}}
                                   /\ UNCHANGED confirmed
    BY DEF PassGates, PressSubmit, PressRaises, pressVars, sessionVars
  <1>2. label \in Labels /\ label # "filling" /\ label # "idle"
    BY LabelsApart DEF Ended
  <1>3. /\ pc' \in [Requests -> Labels] /\ overlapped' \in BOOLEAN
        /\ pc'[p] = label
        /\ \A q \in Requests \ {p} : pc'[q] = pc[q]
    BY <1>1, <1>2, Moved
  <1>4. UNCHANGED <<parked, overdue, browser, form, report, target>>
    BY DEF PassGates, PressSubmit, PressRaises, registryVars, sessionVars
  <1>5. target[p] \in Requests /\ pc[target[p]] \in Ended
    BY <1>1, LabelsApart DEF ParkedInv
  <1>6. TypeOK'
    <2>1. confirmed' \in [Requests -> SUBSET Sensitive]
      BY <1>1 DEF ParkedInv, TypeOK
    <2>2. presses' \in [Requests -> SUBSET Requests] /\ raised' \subseteq Requests
      BY <1>1, <1>5 DEF ParkedInv, TypeOK, pressVars
    <2> QED BY <1>3, <1>4, <2>1, <2>2 DEF ParkedInv, TypeOK
  <1>7. OneReviewPerForm' /\ \A s \in Requests : /\ IsParked(s)' <=> IsParked(s)
                                                 /\ IsOpen(s)' <=> IsOpen(s)
    BY <1>4 DEF ParkedInv, OneReviewPerForm, IsParked, IsOpen
  <1>8. \A q \in Requests : /\ pc[q] \in Ended => pc'[q] \in Ended
                            /\ pc'[q] = "filling" <=> pc[q] = "filling"
                            /\ pc'[q] \in Working => pc[q] \in Working
    BY <1>1, <1>2, <1>3, LabelsApart
  <1>9. OpenBrowsersAreHeld'
    BY <1>7, <1>8 DEF ParkedInv, OpenBrowsersAreHeld
  <1>10. \A q \in Requests : pc'[q] = "pressing" => Informed(target[q], confirmed[q])'
    <2>1. ASSUME NEW q \in Requests, pc'[q] = "pressing"
          PROVE  Informed(target[q], confirmed'[q])
      <3>1. CASE q = p
        BY <1>1, <1>3, <2>1, <3>1 DEF ParkedInv, TypeOK
      <3>2. CASE q # p
        <4>1. confirmed'[q] = confirmed[q] /\ pc[q] = "pressing"
          BY <1>1, <1>3, <2>1, <3>2 DEF ParkedInv, TypeOK
        <4> QED BY <4>1 DEF ParkedInv
      <3> QED BY <3>1, <3>2
    <2> QED BY <1>4, <2>1 DEF Informed
  <1>11. \A s \in Requests : presses'[s] # {} => pc'[s] \in Ended
    <2>1. \A s \in Requests : s # target[p] => presses'[s] = presses[s]
      BY <1>1, <1>5 DEF ParkedInv, TypeOK, pressVars
    <2> QED BY <1>5, <1>8, <2>1 DEF ParkedInv
  <1>12. \A q \in Requests : pc'[q] \in Working =>
           target'[q] \in Requests /\ pc'[target'[q]] \in Ended
    BY <1>4, <1>8 DEF ParkedInv
  <1>13. \A s \in Requests : IsParked(s)' => pc'[s] \in Ended
    BY <1>7, <1>8 DEF ParkedInv
  <1> QED BY <1>6, <1>7, <1>9, <1>10, <1>11, <1>12, <1>13 DEF ParkedInv

\* The server stops in order, or dies.
LEMMA StoppingIsKept ==
  ASSUME ParkedInv, ShutDown \/ Crash
  PROVE  ParkedInv'
  <1>1. PICK S : /\ Close(S) /\ \A s \in Requests : IsParked(s) => s \in S
                 /\ \/ S = ToSet(parked) /\ pc' = pc
                    \/ S = {s \in Requests : IsOpen(s)}
                       /\ pc' = [p \in Requests |-> IF InFlight(p) THEN "killed" ELSE pc[p]]
    <2>1. CASE ShutDown
      <3>1. \A s \in Requests : IsParked(s) => s \in ToSet(parked)
        BY ParkedSet DEF IsParked, ParkedInv, TypeOK
      <3> QED BY <2>1, <3>1 DEF ShutDown, serving
    <2>2. CASE Crash
      <3>1. \A s \in Requests : IsParked(s) => s \in {t \in Requests : IsOpen(t)}
        BY DEF ParkedInv, OpenBrowsersAreHeld
      <3> QED BY <2>2, <3>1 DEF Crash
    <2> QED BY <2>1, <2>2
  <1>2. UNCHANGED <<overlapped, form, report, presses, raised, target, confirmed>>
    BY DEF ShutDown, Crash, pressVars, serving
  <1>3. /\ parked' \in Seq(Requests) /\ overdue' \subseteq ToSet(parked')
        /\ browser' \in [Requests -> {"none", "open", "closed"}]
        /\ OneReviewPerForm'
        /\ \A s \in Requests : IsOpen(s)' <=> IsOpen(s) /\ s \notin S
        /\ \A s \in Requests : ~IsParked(s)'
    BY <1>1, <1>2, Closed
  <1>4. /\ pc' \in [Requests -> Labels]
        /\ \A q \in Requests : /\ pc[q] \in Ended => pc'[q] \in Ended
                               /\ pc'[q] \notin Ended => pc'[q] = pc[q]
    <2>1. \A q \in Requests : pc[q] \in Ended => ~InFlight(q)
      BY DEF InFlight
    <2>2. "killed" \in Ended \cap Labels
      BY LabelsApart DEF Ended
    <2> QED BY <1>1, <2>1, <2>2 DEF ParkedInv, TypeOK
  <1>5. TypeOK'
    BY <1>2, <1>3, <1>4 DEF ParkedInv, TypeOK
  <1>6. \A s \in Requests : IsOpen(s)' <=> pc'[s] = "filling"
    <2>1. CASE S = ToSet(parked) /\ pc' = pc
      <3>1. \A s \in Requests : s \in S <=> IsParked(s)
        BY <2>1, ParkedSet DEF IsParked, ParkedInv, TypeOK
      <3>2. \A s \in Requests : IsParked(s) => pc[s] # "filling"
        BY LabelsApart DEF ParkedInv
      <3> QED BY <1>3, <2>1, <3>1, <3>2 DEF ParkedInv, OpenBrowsersAreHeld
    <2>2. CASE /\ S = {s \in Requests : IsOpen(s)}
               /\ pc' = [p \in Requests |-> IF InFlight(p) THEN "killed" ELSE pc[p]]
      <3>1. \A s \in Requests : pc'[s] # "filling"
        BY <2>2 DEF InFlight, Ended
      <3> QED BY <1>3, <2>2, <3>1
    <2> QED BY <1>1, <2>1, <2>2
  <1>7. \A q \in Requests : pc'[q] = "pressing" => Informed(target[q], confirmed[q])'
    BY <1>2, <1>4, LabelsApart DEF ParkedInv, Informed
  <1>8. \A q \in Requests : pc'[q] \in Working => pc'[q] = pc[q]
    BY <1>4, LabelsApart
  <1> QED BY <1>2, <1>3, <1>4, <1>5, <1>6, <1>7, <1>8 DEF ParkedInv, OpenBrowsersAreHeld

LEMMA ParkedNext == ParkedInv /\ [Next]_vars => ParkedInv'
  <1> SUFFICES ASSUME ParkedInv, [Next]_vars PROVE ParkedInv'
    OBVIOUS
  <1>1. ASSUME NEW p \in Requests, Start(p)
        PROVE  ParkedInv'
    BY <1>1, OpenFormIsKept, AcquireIsKept, DiscardIsKept DEF Start
  <1>2. ASSUME NEW p \in Requests, Progress(p)
        PROVE  ParkedInv'
    BY <1>2, ParkIsKept, FillEndsIsKept, FillAnswerIsKept, RefusalsAreKept,
       PressingIsKept, ReleaseIsKept DEF Progress
  <1>3. CASE UNCHANGED vars
    BY <1>3 DEF vars, serving, registryVars, sessionVars, pressVars, ParkedInv, TypeOK,
                OneReviewPerForm, OpenBrowsersAreHeld, IsParked, IsOpen, Informed
  <1> QED BY <1>1, <1>2, <1>3, DeadlineIsKept, StoppingIsKept DEF Next

LEMMA ParkedInvHolds == Spec => []ParkedInv
  BY InitParked, ParkedNext, PTL DEF Spec

\* The registry, the browsers and the requests keep their types.
THEOREM ParkedTypeCorrect == Spec => []TypeOK
  BY ParkedInvHolds, PTL DEF ParkedInv

\* However passes race to park, answer, expire, shut down or crash, the
\* registry never holds two reviews of one form nor more than its limit.
THEOREM RegistryIsBounded == Spec => []OneReviewPerForm
  BY ParkedInvHolds, PTL DEF ParkedInv

\* The open browsers are at all times exactly those a parked review or a
\* running pass holds: none leaks, none is closed under a parked review.
THEOREM NoBrowserLeaks == Spec => []OpenBrowsersAreHeld
  BY ParkedInvHolds, PTL DEF ParkedInv

-----------------------------------------------------------------------------
(* The press *)

\* Every step that is not a press leaves the presses alone.
LEMMA PressSteps ==
  ASSUME [Next]_vars
  PROVE  \/ UNCHANGED pressVars
         \/ \E p \in Requests : PressSubmit(p) \/ PressRaises(p)
  BY DEF Next, Start, Progress, vars, sessionVars, OpenForm, Acquire, Discard,
         Park, FillEnds, FillAnswer, FillAnswerFails, PassGates, SubmitRefused,
         Release, ReleaseFindsNothing, PassDeadline, ShutDown, Crash

LEMMA PressIsInformed ==
  ASSUME ParkedInv, NEW p \in Requests, PressSubmit(p) \/ PressRaises(p),
         NEW s \in Requests, NEW q \in presses'[s] \ presses[s]
  PROVE  IsParked(s) /\ Informed(s, confirmed[q])
  <1>1. /\ pc[p] = "pressing" /\ IsOpen(target[p])
        /\ presses' = [presses EXCEPT ![target[p]] = @ \cup {p}]
    BY DEF PressSubmit, PressRaises
  <1>2. /\ target[p] \in Requests /\ pc[target[p]] \in Ended
        /\ Informed(target[p], confirmed[p])
    BY <1>1, LabelsApart DEF ParkedInv
  <1>3. s = target[p] /\ q = p
    BY <1>1, <1>2 DEF ParkedInv, TypeOK
  <1>4. IsParked(target[p])
    BY <1>1, <1>2, LabelsApart DEF ParkedInv, OpenBrowsersAreHeld
  <1> QED BY <1>2, <1>3, <1>4

\* Whatever was answered, evicted, expired or parked since the check, a button
\* is pressed only on a form that is parked, complete and approved.
THEOREM EveryPressIsInformed == Spec => PressesAreInformed
  <1>1. ParkedInv /\ [Next]_vars =>
          [\A s \in Requests : \A p \in presses'[s] \ presses[s] :
             IsParked(s) /\ Informed(s, confirmed[p])]_presses
    BY PressSteps, PressIsInformed DEF pressVars
  <1> QED BY <1>1, ParkedInvHolds, PTL DEF Spec, PressesAreInformed

-----------------------------------------------------------------------------
(* Until requests overlap *)

LEMMA InitSerialParked == Init => SerialParkedInv
  <1> SUFFICES ASSUME Init PROVE SerialParkedInv
    OBVIOUS
  <1>1. \A p \in Requests : pc[p] = "idle" /\ presses[p] = {}
    BY DEF Init, InitServing
  <1> QED BY <1>1, InitParked DEF SerialParkedInv, InFlight

\* While a request is served, or when it starts, no other is served.
LEMMA ServedAlone ==
  ASSUME SerialParkedInv, ~overlapped', NEW p \in Requests, NEW label,
         Goto(p, label), pc[p] = "idle" \/ InFlight(p)
  PROVE  /\ pc'[p] = label
         /\ \A q \in Requests \ {p} : /\ ~InFlight(q) /\ ~InFlight(q)'
                                      /\ pc'[q] = pc[q]
  <1>1. pc'[p] = label /\ \A q \in Requests \ {p} : pc'[q] = pc[q]
    BY DEF Goto, SerialParkedInv, ParkedInv, TypeOK
  <1>2. \A q \in Requests \ {p} : ~InFlight(q)
    BY DEF Goto, SerialParkedInv, InFlight
  <1> QED BY <1>1, <1>2 DEF InFlight

\* It is enough to look at the request that moves and at what it pressed.
LEMMA SerialMoves ==
  ASSUME SerialParkedInv, ParkedInv', ~overlapped', NEW p \in Requests, NEW label,
         Goto(p, label), pc[p] = "idle" \/ InFlight(p),
         label = "pressed" => IsParked(target[p])',
         \A s \in Requests : IsOpen(s)' /\ ~(presses'[s] \subseteq raised') =>
           label = "pressed" /\ target'[p] = s,
         \A s \in Requests : \A q, r \in presses'[s] \ raised' : q = r,
         \A s \in Requests : \A q \in presses'[s] \ raised' :
           IF q = p THEN label \in {"pressed", "ok", "killed"}
                    ELSE pc[q] \in {"pressed", "ok", "killed"}
  PROVE  SerialParkedInv'
  <1>1. /\ pc'[p] = label
        /\ \A q \in Requests \ {p} : ~InFlight(q)' /\ pc'[q] = pc[q]
    BY ServedAlone
  <1>2. \A q \in Requests \ {p} : pc'[q] # "pressed"
    BY <1>1 DEF InFlight, Ended
  <1>3. \A q, r \in Requests : InFlight(q)' /\ InFlight(r)' => q = r
    BY <1>1
  <1>4. \A s \in Requests : presses'[s] \subseteq Requests
    BY DEF ParkedInv, TypeOK
  <1>5. \A q \in Requests : pc'[q] = "pressed" => IsParked(target[q])'
    BY <1>1, <1>2
  <1>6. \A s \in Requests : \A q \in presses'[s] \ raised' :
          pc'[q] \in {"pressed", "ok", "killed"}
    BY <1>1, <1>4
  <1> QED BY <1>1, <1>3, <1>5, <1>6 DEF SerialParkedInv

\* No press was made, none was on its way: no form that took one is open.
LEMMA UnpressedSerially ==
  ASSUME SerialParkedInv, ParkedInv', ~overlapped', NEW p \in Requests, NEW label,
         Goto(p, label), pc[p] = "idle" \/ InFlight(p),
         pc[p] # "pressed", label # "pressed", UNCHANGED pressVars,
         \A s \in Requests : IsOpen(s)' => IsOpen(s) \/ presses[s] = {}
  PROVE  SerialParkedInv'
  <1>1. \A q \in Requests : pc[q] # "pressed"
    BY ServedAlone DEF InFlight, Ended
  <1>2. UNCHANGED <<presses, raised>>
    BY DEF pressVars
  <1>3. \A s \in Requests : ~(IsOpen(s)' /\ ~(presses'[s] \subseteq raised'))
    BY <1>1, <1>2 DEF SerialParkedInv
  <1>4. \A s \in Requests : p \notin presses[s] \ raised
    BY DEF SerialParkedInv, InFlight, Ended
  <1>5. \A s \in Requests : \A q \in presses'[s] \ raised' :
          IF q = p THEN label \in {"pressed", "ok", "killed"}
                   ELSE pc[q] \in {"pressed", "ok", "killed"}
    BY <1>2, <1>4 DEF SerialParkedInv
  <1>6. \A s \in Requests : \A q, r \in presses'[s] \ raised' : q = r
    BY <1>2 DEF SerialParkedInv
  <1> QED BY <1>3, <1>5, <1>6, SerialMoves

\* The steps in which nothing is pressed and no press is reported.
LEMMA UnpressedStepSerial ==
  ASSUME SerialParkedInv, ParkedInv', ~overlapped', NEW p \in Requests,
         \/ Start(p)
         \/ \E entries \in FillReports : Park(p, entries)
         \/ \E outcome \in Ended : FillEnds(p, outcome)
         \/ \E f \in Fields : FillAnswer(p, f)
         \/ FillAnswerFails(p)
         \/ \E approved \in SUBSET Sensitive : PassGates(p, approved)
         \/ SubmitRefused(p)
  PROVE  SerialParkedInv'
  <1>t. browser \in [Requests -> {"none", "open", "closed"}]
    BY DEF SerialParkedInv, ParkedInv, TypeOK
  <1>c. ASSUME NEW S, Close(S)
        PROVE  \A s \in Requests : IsOpen(s)' => IsOpen(s)
    BY <1>c DEF Close, IsOpen
  <1>1. ASSUME NEW u \in Users, NEW j \in Jobs, OpenForm(p, u, j)
        PROVE  SerialParkedInv'
    <2>1. /\ Goto(p, "filling") /\ pc[p] = "idle" /\ UNCHANGED pressVars
          /\ browser' = [browser EXCEPT ![p] = "open"]
      BY <1>1 DEF OpenForm, MayStart
    <2>2. presses[p] = {}
      BY <2>1, LabelsApart DEF SerialParkedInv, ParkedInv
    <2>3. \A s \in Requests : IsOpen(s)' => IsOpen(s) \/ presses[s] = {}
      BY <1>t, <2>1, <2>2 DEF IsOpen
    <2> QED BY <2>1, <2>3, UnpressedSerially
  <1>2. ASSUME NEW s \in Requests, NEW u \in Users, NEW next \in {"answering", "scanning"},
               Acquire(p, s, u, next)
        PROVE  SerialParkedInv'
    <2>1. /\ pc[p] = "idle" /\ UNCHANGED pressVars /\ Close(overdue)
          /\ Goto(p, next) \/ Goto(p, "failed")
      BY <1>2 DEF Acquire, MayStart
    <2> QED BY <1>c, <2>1, UnpressedSerially
  <1>3. ASSUME NEW s \in Requests, NEW u \in Users, Discard(p, s, u)
        PROVE  SerialParkedInv'
    <2>1. /\ pc[p] = "idle" /\ UNCHANGED pressVars
          /\ Goto(p, "ok") \/ Goto(p, "failed")
          /\ Close({s}) \/ UNCHANGED browser
      BY <1>3 DEF Discard, MayStart
    <2>2. \A t \in Requests : IsOpen(t)' => IsOpen(t)
      BY <1>c, <2>1 DEF IsOpen
    <2> QED BY <2>1, <2>2, UnpressedSerially
  <1>4. ASSUME NEW entries \in FillReports, Park(p, entries)
        PROVE  SerialParkedInv'
    <2>1. /\ Goto(p, "ok") /\ pc[p] = "filling" /\ UNCHANGED pressVars
          /\ \A s \in Requests : IsOpen(s)' => IsOpen(s)
      BY <1>4 DEF Park, IsOpen
    <2> QED BY <2>1, UnpressedSerially DEF InFlight, Ended
  <1>5. ASSUME NEW outcome \in Ended, FillEnds(p, outcome)
        PROVE  SerialParkedInv'
    <2>1. /\ Goto(p, outcome) /\ pc[p] = "filling" /\ UNCHANGED pressVars
          /\ \A s \in Requests : IsOpen(s)' => IsOpen(s)
          /\ outcome # "pressed"
      BY <1>5, <1>t DEF FillEnds, IsOpen, Ended
    <2> QED BY <2>1, UnpressedSerially DEF InFlight, Ended
  <1>6. CASE \/ \E f \in Fields : FillAnswer(p, f)
             \/ FillAnswerFails(p)
             \/ \E approved \in SUBSET Sensitive : PassGates(p, approved)
             \/ SubmitRefused(p)
    <2>1. /\ \E label \in {"ok", "failed", "pressing"} : Goto(p, label)
          /\ pc[p] \in {"answering", "scanning", "pressing"}
          /\ UNCHANGED pressVars /\ UNCHANGED browser
      BY <1>6 DEF FillAnswer, FillAnswerFails, PassGates, SubmitRefused, sessionVars
    <2>2. \A s \in Requests : IsOpen(s)' => IsOpen(s)
      BY <2>1 DEF IsOpen
    <2> QED BY <2>1, <2>2, UnpressedSerially DEF InFlight, Ended
  <1> QED BY <1>1, <1>2, <1>3, <1>4, <1>5, <1>6 DEF Start

\* The press: the form took none before, or it would not be open.
LEMMA PressSerial ==
  ASSUME SerialParkedInv, ParkedInv', ~overlapped', NEW p \in Requests,
         PressSubmit(p) \/ PressRaises(p)
  PROVE  SerialParkedInv'
  <1>1. /\ pc[p] = "pressing" /\ IsOpen(target[p])
        /\ presses' = [presses EXCEPT ![target[p]] = @ \cup {p}]
        /\ UNCHANGED <<parked, overdue, browser, target>>
    BY DEF PressSubmit, PressRaises, registryVars
  <1>2. PICK label \in {"pressed", "failed"} :
          /\ Goto(p, label)
          /\ label = "pressed" => raised' = raised
          /\ label = "failed" => raised' = raised \cup {p}
    BY DEF PressSubmit, PressRaises
  <1>3. InFlight(p)
    BY <1>1 DEF InFlight, Ended
  <1>4. \A q \in Requests : pc[q] # "pressed"
    BY <1>1, <1>2, <1>3, ServedAlone DEF InFlight, Ended
  <1>5. /\ target[p] \in Requests /\ pc[target[p]] \in Ended
        /\ IsParked(target[p])
    BY <1>1, LabelsApart DEF SerialParkedInv, ParkedInv, OpenBrowsersAreHeld
  <1>6. presses[target[p]] \subseteq raised
    BY <1>1, <1>4, <1>5 DEF SerialParkedInv
  <1>7. /\ presses'[target[p]] = presses[target[p]] \cup {p}
        /\ \A s \in Requests \ {target[p]} : presses'[s] = presses[s]
        /\ raised \subseteq raised'
    BY <1>1, <1>2, <1>5 DEF SerialParkedInv, ParkedInv, TypeOK
  <1>8. label = "pressed" => IsParked(target[p])'
    BY <1>1, <1>5 DEF IsParked
  <1>9. \A s \in Requests : IsOpen(s)' /\ ~(presses'[s] \subseteq raised') =>
          label = "pressed" /\ target'[p] = s
    <2>1. ASSUME NEW s \in Requests, IsOpen(s)', ~(presses'[s] \subseteq raised')
          PROVE  label = "pressed" /\ target'[p] = s
      <3>1. IsOpen(s)
        BY <1>1, <2>1 DEF IsOpen
      <3>2. presses[s] \subseteq raised
        BY <1>4, <3>1 DEF SerialParkedInv
      <3> QED BY <1>1, <1>2, <1>7, <2>1, <3>2
    <2> QED BY <2>1
  <1>10. \A s \in Requests : \A q, r \in presses'[s] \ raised' : q = r
    <2>1. ASSUME NEW s \in Requests, NEW q \in presses'[s] \ raised',
                 NEW r \in presses'[s] \ raised'
          PROVE  q = r
      <3>1. CASE s = target[p]
        BY <1>6, <1>7, <2>1, <3>1
      <3>2. CASE s # target[p]
        BY <1>7, <2>1, <3>2 DEF SerialParkedInv
      <3> QED BY <3>1, <3>2
    <2> QED BY <2>1
  <1>11. \A s \in Requests : \A q \in presses'[s] \ raised' :
           IF q = p THEN label \in {"pressed", "ok", "killed"}
                    ELSE pc[q] \in {"pressed", "ok", "killed"}
    <2>1. ASSUME NEW s \in Requests, NEW q \in presses'[s] \ raised', q # p
          PROVE  pc[q] \in {"pressed", "ok", "killed"}
      <3>1. q \in presses[s] \ raised
        BY <1>7, <2>1
      <3> QED BY <3>1 DEF SerialParkedInv
    <2>2. ASSUME NEW s \in Requests, p \in presses'[s] \ raised'
          PROVE  label = "pressed"
      BY <1>2, <2>2
    <2> QED BY <2>1, <2>2
  <1> QED BY <1>2, <1>3, <1>8, <1>9, <1>10, <1>11, SerialMoves

\* The release finds the review whose form was sent.
LEMMA ReleaseSerial ==
  ASSUME SerialParkedInv, ParkedInv', ~overlapped', NEW p \in Requests,
         Release(p) \/ ReleaseFindsNothing(p)
  PROVE  SerialParkedInv'
  <1>1. pc[p] = "pressed" /\ InFlight(p) /\ IsParked(target[p])
    BY DEF Release, ReleaseFindsNothing, SerialParkedInv, InFlight, Ended
  <1>2. /\ Goto(p, "ok") /\ Close({target[p]})
        /\ UNCHANGED <<presses, raised>>
    BY <1>1 DEF Release, ReleaseFindsNothing, pressVars
  <1>3. \A q \in Requests \ {p} : pc[q] # "pressed"
    BY <1>1, <1>2, ServedAlone DEF InFlight, Ended
  <1>4. \A s \in Requests : ~(IsOpen(s)' /\ ~(presses'[s] \subseteq raised'))
    <2>1. ASSUME NEW s \in Requests, IsOpen(s)', ~(presses'[s] \subseteq raised')
          PROVE  FALSE
      <3>1. s # target[p] /\ IsOpen(s)
        BY <1>2, <2>1 DEF Close, IsOpen
      <3>2. PICK q \in Requests : pc[q] = "pressed" /\ target[q] = s
        BY <1>2, <2>1, <3>1 DEF SerialParkedInv
      <3> QED BY <1>3, <3>1, <3>2
    <2> QED BY <2>1
  <1>5. /\ \A s \in Requests : \A q, r \in presses'[s] \ raised' : q = r
        /\ \A s \in Requests : \A q \in presses'[s] \ raised' :
             IF q = p THEN "ok" \in {"pressed", "ok", "killed"}
                      ELSE pc[q] \in {"pressed", "ok", "killed"}
    BY <1>2 DEF SerialParkedInv
  <1> QED BY <1>1, <1>2, <1>4, <1>5, SerialMoves

\* A deadline passes; the server stops or dies.
LEMMA AloneSerial ==
  ASSUME SerialParkedInv, ParkedInv',
         \/ \E s \in Requests : PassDeadline(s)
         \/ ShutDown
         \/ Crash
  PROVE  SerialParkedInv'
  <1>1. UNCHANGED <<presses, raised, target>>
    BY DEF PassDeadline, ShutDown, Crash, sessionVars, pressVars
  <1>2. CASE \E s \in Requests : PassDeadline(s)
    BY <1>1, <1>2 DEF PassDeadline, SerialParkedInv, InFlight, IsParked, IsOpen,
                      serving, sessionVars
  <1>3. CASE ShutDown
    <2>1. pc' = pc /\ \A q \in Requests : ~InFlight(q) /\ pc[q] # "pressed"
      BY <1>3 DEF ShutDown, serving, InFlight, Ended
    <2>2. \A s \in Requests : IsOpen(s)' => IsOpen(s)
      BY <1>3 DEF ShutDown, Close, IsOpen
    <2> QED BY <1>1, <2>1, <2>2 DEF SerialParkedInv, InFlight
  <1>4. CASE Crash
    <2>1. \A s \in Requests : ~IsOpen(s)'
      BY <1>4 DEF Crash, Close, IsOpen
    <2>2. \A q \in Requests : /\ pc'[q] = IF InFlight(q) THEN "killed" ELSE pc[q]
                              /\ ~InFlight(q)' /\ pc'[q] # "pressed"
      BY <1>4 DEF Crash, InFlight, Ended
    <2>3. presses \in [Requests -> SUBSET Requests]
      BY DEF SerialParkedInv, ParkedInv, TypeOK
    <2>4. \A s \in Requests : \A q \in presses[s] \ raised :
            pc'[q] \in {"pressed", "ok", "killed"}
      BY <2>2, <2>3 DEF SerialParkedInv
    <2> QED BY <1>1, <2>1, <2>2, <2>4 DEF SerialParkedInv
  <1> QED BY <1>2, <1>3, <1>4

LEMMA ParkedOverlapStays ==
  ASSUME [Next]_vars, ~overlapped'
  PROVE  ~overlapped
  <1>1. UNCHANGED overlapped \/ \E p \in Requests : \E label : Goto(p, label)
    BY DEF Next, Start, Progress, vars, serving, OpenForm, Acquire, Discard,
           Park, FillEnds, FillAnswer, FillAnswerFails, PassGates, PressSubmit,
           PressRaises, SubmitRefused, Release, ReleaseFindsNothing,
           PassDeadline, ShutDown, Crash
  <1> QED BY <1>1 DEF Goto

LEMMA ParkedNextSerial ==
  Serially(SerialParkedInv) /\ [Next]_vars => Serially(SerialParkedInv)'
  <1> SUFFICES ASSUME SerialParkedInv, [Next]_vars, ~overlapped'
               PROVE  SerialParkedInv'
    BY ParkedOverlapStays DEF Serially
  <1>1. ParkedInv'
    BY ParkedNext DEF SerialParkedInv
  <1>2. ASSUME NEW p \in Requests, Start(p) \/ Progress(p)
        PROVE  SerialParkedInv'
    BY <1>1, <1>2, UnpressedStepSerial, PressSerial, ReleaseSerial DEF Progress
  <1>3. CASE UNCHANGED vars
    BY <1>1, <1>3 DEF vars, serving, registryVars, sessionVars, pressVars,
                      SerialParkedInv, InFlight, IsParked, IsOpen
  <1> QED BY <1>1, <1>2, <1>3, AloneSerial DEF Next

LEMMA SerialParkedHolds == Spec => []Serially(SerialParkedInv)
  <1>1. Init => Serially(SerialParkedInv)
    BY InitSerialParked DEF Serially
  <1> QED BY <1>1, ParkedNextSerial, PTL DEF Spec

\* Until requests overlap, one parked form is sent at most once, whatever
\* click() raised, expired, stopped or crashed on the way.
THEOREM FormsArePressedOnce == Spec => []PressedOnce
  <1>1. Serially(SerialParkedInv) => PressedOnce
    BY DEF Serially, SerialParkedInv, PressedOnce
  <1> QED BY <1>1, SerialParkedHolds, PTL

\* Until requests overlap, a submission whose button was pressed is never
\* answered with a refusal, unless click() itself raised.
THEOREM PressesAreReported == Spec => []PressIsReportedSerially
  <1>1. Serially(SerialParkedInv) => PressIsReportedSerially
    BY DEF Serially, SerialParkedInv, PressIsReportedSerially, PressIsReported
  <1> QED BY <1>1, SerialParkedHolds, PTL

=============================================================================
