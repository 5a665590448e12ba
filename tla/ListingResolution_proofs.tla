----------------------- MODULE ListingResolution_proofs -----------------------
(***************************************************************************)
(* Proofs about resolving listings under a quota of searches, for any      *)
(* pages of listings, any web results, any limits and any number of runs.  *)
(***************************************************************************)
EXTENDS ListingResolution, FiniteSetTheorems, WellFoundedInduction, TLAPS

-----------------------------------------------------------------------------
(* The inductive invariant *)

Stages == {"idle", "fetching", "listing", "looking up", "counting", "expiring",
           "searching", "saving", "reading board", "ended", "failed", "killed"}

\* A run that works on a listing, and one that found no board for it yet.
Resolving == {"looking up", "counting", "expiring", "searching", "saving",
              "reading board"}
Unresolved == {"counting", "expiring", "searching", "saving"}

\* What a web search can come to.
Findings == {FirstBoard(results) : results \in UNION {WebResults[c] : c \in Companies}}

Runs == [stage : Stages, page : Nat \ {0}, todo : Seq(Offered), attempt : Nat,
         retries : Nat, board : Findings \cup {NoBoard}, day : Days \cup {0}]

\* A run only asks for a page there is, and has a listing to resolve, and a
\* board to save.
SoundRun(r) ==
  /\ r.stage \in {"idle", "fetching"} => r.page \in DOMAIN Feed
  /\ r.stage \in Resolving => r.todo # <<>>
  /\ r.stage = "saving" => r.board # NoBoard
  /\ r.stage = "expiring" => r.day \in Days

ResolutionTypes ==
  /\ boards \in [Companies -> Findings \cup {NoBoard}]
  /\ counter \in [Days -> Nat]
  /\ today \in Days
  /\ run \in [Ingestions -> Runs]
  /\ failures \in Nat /\ sent \in Nat
  /\ lost \in [Ingestions -> Seq(Companies)]
  /\ \A i \in Ingestions : SoundRun(run[i])

\* A run that was let through and has not sent its request.
MaySend(r) == r.stage = "searching" \/ (r.stage = "expiring" /\ MaySearch(1))

Senders == {i \in Ingestions : MaySend(run[i])}

\* Requests sent and requests to come are counted, or failed.
QuotaInv ==
  /\ sent + Cardinality(Senders) <= failures + LetThrough[MaxDays]
  /\ failures = 0 =>
       \A d \in Days : counter[d] > 0 =>
         \/ d \in expiring
         \/ \E i \in Ingestions : At(i, "expiring") /\ run[i].day = d

CompanyIn(r) == Normalized(Head(r.todo).company)

\* A run that lost a company's row to another finds it from then on.
RaceInv ==
  \A i \in Ingestions : \A k \in DOMAIN lost[i] :
    /\ boards[lost[i][k]] # NoBoard
    /\ run[i].stage \in Unresolved => CompanyIn(run[i]) # lost[i][k]

ResolutionInv == ResolutionTypes /\ QuotaInv /\ RaceInv /\ RaceIsLostOnce

-----------------------------------------------------------------------------
(* The searches that were let through *)

\* Every set of natural numbers has a least one.
LEMMA LeastNatural ==
  ASSUME NEW T, T \subseteq Nat, T # {}
  PROVE  \E n \in T : \A m \in T : n <= m
  <1> DEFINE R == {ss \in Nat \X Nat : ss[1] < ss[2]}
  <1>0. IsWellFoundedOn(R, Nat)
    BY NatLessThanWellFounded DEF OpToRel
  <1> HIDE DEF R
  <1>1. PICK n \in T : \A m \in T : ~(<<m, n>> \in R)
    BY <1>0, WFMin
  <1>2. ASSUME NEW m \in T PROVE n <= m
    <2>1. ~(m < n)
      BY <1>1 DEF R
    <2> QED BY <2>1
  <1> QED BY <1>2

\* What LetThrough computes on the way.
SumsUp(counts, n, sum) ==
  sum = [d \in 0 .. n |->
           IF d = 0 THEN 0 ELSE sum[d - 1] + Smaller(counts[d], DailyLimit)]

LEMMA SumStep ==
  ASSUME NEW counts, NEW n \in Nat, NEW sum, SumsUp(counts, n, sum)
  PROVE  /\ sum[0] = 0
         /\ \A d \in 1 .. n : sum[d] = sum[d - 1] + Smaller(counts[d], DailyLimit)
  <1> DEFINE step == [d \in 0 .. n |->
                        IF d = 0 THEN 0 ELSE sum[d - 1] + Smaller(counts[d], DailyLimit)]
  <1>1. /\ step[0] = 0
        /\ \A d \in 1 .. n : step[d] = sum[d - 1] + Smaller(counts[d], DailyLimit)
    OBVIOUS
  <1>2. sum = step
    BY DEF SumsUp
  <1> HIDE DEF step
  <1> QED BY <1>1, <1>2

\* That recursion defines something.
LEMMA SumExists ==
  ASSUME NEW counts, NEW n \in Nat
  PROVE  \E sum : SumsUp(counts, n, sum)
  <1> DEFINE Missing == {m \in Nat : ~\E sum : SumsUp(counts, m, sum)}
  <1>1. 0 \notin Missing
    <2>1. SumsUp(counts, 0, [d \in 0 .. 0 |-> 0])
      BY DEF SumsUp
    <2> QED BY <2>1
  <1>2. ASSUME NEW m \in Missing
        PROVE  m - 1 \in Missing
    <2>1. m \in Nat /\ m - 1 \in Nat /\ m # 0
      BY <1>1, <1>2
    <2>2. SUFFICES ASSUME NEW sum, SumsUp(counts, m - 1, sum)
                   PROVE  FALSE
      BY <2>1
    <2>3. sum[0] = 0 /\ \A d \in 1 .. m - 1 :
            sum[d] = sum[d - 1] + Smaller(counts[d], DailyLimit)
      BY <2>1, <2>2, SumStep
    <2> DEFINE more == [d \in 0 .. m |->
                          IF d < m THEN sum[d]
                          ELSE sum[m - 1] + Smaller(counts[m], DailyLimit)]
    <2>4. ASSUME NEW d \in 0 .. m
          PROVE  more[d] = IF d = 0 THEN 0
                           ELSE more[d - 1] + Smaller(counts[d], DailyLimit)
      <3>1. CASE d = 0
        BY <2>1, <2>3, <3>1
      <3>2. CASE d # 0 /\ d < m
        <4>1. d \in 1 .. m - 1 /\ d - 1 \in 0 .. m /\ d - 1 < m
          BY <2>1, <3>2
        <4>2. more[d] = sum[d] /\ more[d - 1] = sum[d - 1]
          BY <3>2, <4>1
        <4> QED BY <2>3, <3>2, <4>1, <4>2
      <3>3. CASE d = m
        BY <2>1, <3>3
      <3> QED BY <2>1, <3>1, <3>2, <3>3
    <2> HIDE DEF more
    <2>5. more = [d \in 0 .. m |-> more[d]]
      BY DEF more
    <2>6. SumsUp(counts, m, more)
      BY <2>4, <2>5 DEF SumsUp
    <2> QED BY <1>2, <2>6
  <1>3. Missing = {}
    <2>1. SUFFICES ASSUME Missing # {} PROVE FALSE
      OBVIOUS
    <2>2. PICK m \in Missing : \A k \in Missing : m <= k
      BY <2>1, LeastNatural
    <2>3. m - 1 \in Missing
      BY <1>2
    <2> QED BY <2>2, <2>3
  <1> QED BY <1>3

LEMMA LetThroughSums == SumsUp(counter, MaxDays, LetThrough)
  <1> DEFINE sum == CHOOSE sum : SumsUp(counter, MaxDays, sum)
  <1>1. SumsUp(counter, MaxDays, sum)
    BY SumExists, BoundsAreNatural
  <1>2. LetThrough = sum
    BY DEF LetThrough, SumsUp
  <1> QED BY <1>1, <1>2

\* One more search counted on a day is let through as long as the day's
\* count, this one included, is within the limit.
LEMMA OneMoreCounted ==
  ASSUME NEW counts \in [Days -> Nat], NEW today1 \in Days, NEW more,
         \A d \in Days : more[d] = IF d = today1 THEN counts[d] + 1 ELSE counts[d],
         NEW before, SumsUp(counts, MaxDays, before),
         NEW after, SumsUp(more, MaxDays, after)
  PROVE  /\ before[MaxDays] \in Nat
         /\ after[MaxDays] = IF MaySearch(counts[today1] + 1) THEN before[MaxDays] + 1
                             ELSE before[MaxDays]
  <1>0. MaxDays \in Nat /\ DailyLimit \in Nat /\ Days = 1 .. MaxDays
    BY BoundsAreNatural DEF Days
  <1>1. /\ before[0] = 0 /\ after[0] = 0
        /\ \A d \in 1 .. MaxDays :
             /\ before[d] = before[d - 1] + Smaller(counts[d], DailyLimit)
             /\ after[d] = after[d - 1] + Smaller(more[d], DailyLimit)
    BY <1>0, SumStep
  <1> DEFINE extra(d) == IF d >= today1 /\ MaySearch(counts[today1] + 1) THEN 1 ELSE 0
             Right(d) == before[d] \in Nat /\ after[d] = before[d] + extra(d)
             Wrong == {d \in Nat : d <= MaxDays /\ ~Right(d)}
  <1>2. ASSUME NEW d \in 1 .. MaxDays, Right(d - 1)
        PROVE  Right(d)
    <2>1. CASE d = today1
      <3>1. more[d] = counts[d] + 1 /\ counts[d] \in Nat
        BY <1>0, <2>1
      <3>2. Smaller(more[d], DailyLimit) =
              Smaller(counts[d], DailyLimit) + extra(d)
        BY <1>0, <2>1, <3>1 DEF Smaller, MaySearch
      <3>3. extra(d - 1) = 0 /\ Smaller(counts[d], DailyLimit) \in Nat
        BY <1>0, <2>1, <3>1 DEF Smaller
      <3>4. extra(d) \in Nat
        OBVIOUS
      <3>5. /\ before[d] = before[d - 1] + Smaller(counts[d], DailyLimit)
            /\ after[d] = after[d - 1] + Smaller(more[d], DailyLimit)
        BY <1>1
      <3> HIDE DEF extra
      <3> QED BY <1>2, <3>2, <3>3, <3>4, <3>5
    <2>2. CASE d # today1
      <3>1. more[d] = counts[d] /\ counts[d] \in Nat
        BY <1>0, <2>2
      <3>2. extra(d - 1) = extra(d) /\ Smaller(counts[d], DailyLimit) \in Nat
        BY <1>0, <2>2, <3>1 DEF Smaller
      <3>3. extra(d) \in Nat
        OBVIOUS
      <3>4. /\ before[d] = before[d - 1] + Smaller(counts[d], DailyLimit)
            /\ after[d] = after[d - 1] + Smaller(counts[d], DailyLimit)
        BY <1>1, <3>1
      <3> HIDE DEF extra
      <3> QED BY <1>2, <3>2, <3>3, <3>4
    <2> QED BY <2>1, <2>2
  <1>3. Right(0)
    BY <1>0, <1>1
  <1> HIDE DEF Right
  <1>4. Wrong = {}
    <2>1. SUFFICES ASSUME Wrong # {} PROVE FALSE
      OBVIOUS
    <2>2. PICK d \in Wrong : \A k \in Wrong : d <= k
      BY <2>1, LeastNatural
    <2>3. d \in 1 .. MaxDays /\ d - 1 \in Nat /\ d - 1 <= MaxDays
      BY <1>0, <1>3
    <2>4. Right(d - 1)
      BY <2>2, <2>3
    <2> QED BY <1>2, <2>3, <2>4
  <1>5. Right(MaxDays)
    BY <1>0, <1>4
  <1>6. MaxDays >= today1
    BY <1>0
  <1> QED BY <1>5, <1>6 DEF Right

-----------------------------------------------------------------------------
(* Where a run goes *)

LEMMA NotStartedIsRun ==
  /\ NotStarted \in Runs /\ NotStarted.stage = "idle" /\ NotStarted.page \in DOMAIN Feed
  <1>1. <<>> \in Seq(Offered)
    OBVIOUS
  <1>2. 1 \in DOMAIN Feed
    BY FeedHasPages
  <1> QED BY <1>1, <1>2 DEF NotStarted, Runs, Stages

\* The listing at hand is done with.
LEMMA FinishedRun ==
  ASSUME ResolutionTypes, NEW i \in Ingestions, run[i].todo # <<>>
  PROVE  /\ Finished(i) \in Runs /\ SoundRun(Finished(i)) /\ Finished(i).stage = "listing"
  <1>1. run[i] \in Runs /\ run[i].todo \in Seq(Offered)
    BY DEF ResolutionTypes, Runs
  <1>2. Tail(run[i].todo) \in Seq(Offered)
    BY <1>1
  <1> DEFINE r == [run[i] EXCEPT !.stage = "listing", !.attempt = 1]
  <1>3. r \in Runs /\ r.stage = "listing"
    BY <1>1 DEF Runs, Stages
  <1>4. Finished(i) = [r EXCEPT !.todo = Tail(run[i].todo)]
    BY <1>1 DEF Finished, Runs
  <1> HIDE DEF r
  <1>5. Finished(i) \in Runs /\ Finished(i).stage = "listing"
    BY <1>2, <1>3, <1>4 DEF Runs
  <1> QED BY <1>5 DEF SoundRun, Resolving

\* The task is queued again, from the start, or given up.
LEMMA FailedRun ==
  ASSUME ResolutionTypes, NEW i \in Ingestions
  PROVE  /\ FailedTask(i) \in Runs /\ SoundRun(FailedTask(i))
         /\ FailedTask(i).stage \in {"fetching", "failed"}
  <1>1. run[i] \in Runs
    BY DEF ResolutionTypes
  <1>2. CASE run[i].retries < MaxRetries
    <2> DEFINE r == [NotStarted EXCEPT !.stage = "fetching", !.retries = run[i].retries + 1]
    <2>1. run[i].retries + 1 \in Nat
      BY <1>1 DEF Runs
    <2>2. /\ r \in Runs /\ r.stage = "fetching" /\ r.page = NotStarted.page
      BY <2>1, NotStartedIsRun DEF Runs, Stages
    <2>3. FailedTask(i) = r
      BY <1>2 DEF FailedTask
    <2> HIDE DEF r
    <2> QED BY <2>2, <2>3, NotStartedIsRun DEF SoundRun, Resolving
  <1>3. CASE ~(run[i].retries < MaxRetries)
    <2>1. FailedTask(i) = [run[i] EXCEPT !.stage = "failed"]
      BY <1>3 DEF FailedTask
    <2>2. FailedTask(i) \in Runs /\ FailedTask(i).stage = "failed"
      BY <1>1, <2>1 DEF Runs, Stages
    <2> QED BY <2>2 DEF SoundRun, Resolving
  <1> QED BY <1>2, <1>3

\* Once it knows its count a run searches, or leaves the listing out.
LEMMA CountedRun ==
  ASSUME ResolutionTypes, NEW i \in Ingestions, NEW count \in Nat, run[i].todo # <<>>
  PROVE  /\ Counted(i, count) \in Runs /\ SoundRun(Counted(i, count))
         /\ IF MaySearch(count)
            THEN /\ Counted(i, count).stage = "searching"
                 /\ Counted(i, count).todo = run[i].todo
            ELSE Counted(i, count).stage = "listing"
  <1>1. run[i] \in Runs
    BY DEF ResolutionTypes
  <1>2. CASE MaySearch(count)
    <2>1. Counted(i, count) = [run[i] EXCEPT !.stage = "searching"]
      BY <1>2 DEF Counted
    <2>2. Counted(i, count) \in Runs /\ Counted(i, count).stage = "searching"
          /\ Counted(i, count).todo = run[i].todo
      BY <1>1, <2>1 DEF Runs, Stages
    <2> QED BY <1>2, <2>2 DEF SoundRun, Resolving
  <1>3. CASE ~MaySearch(count)
    BY <1>3, FinishedRun DEF Counted
  <1> QED BY <1>2, <1>3

\* A second attempt stands where the first did.
LEMMA TriedAgain ==
  ASSUME ResolutionTypes, NEW i \in Ingestions, TryAgain(i)
  PROVE  \E r \in Runs :
           /\ run' = [run EXCEPT ![i] = r] /\ SoundRun(r)
           /\ r.stage = run[i].stage /\ r.todo = run[i].todo /\ r.day = run[i].day
  <1>1. run[i] \in Runs /\ run[i].stage \in Stages /\ run[i].attempt + 1 \in Nat
    BY DEF ResolutionTypes, Runs
  <1> DEFINE r == [run[i] EXCEPT !.stage = run[i].stage, !.attempt = run[i].attempt + 1]
  <1>2. /\ r \in Runs /\ r.stage = run[i].stage /\ r.todo = run[i].todo
        /\ r.day = run[i].day /\ r.page = run[i].page /\ r.board = run[i].board
    BY <1>1 DEF Runs
  <1>3. run' = [run EXCEPT ![i] = r]
    BY <1>1 DEF TryAgain, ResolutionTypes, Runs
  <1> HIDE DEF r
  <1>4. SoundRun(r)
    BY <1>2 DEF ResolutionTypes, SoundRun
  <1> QED BY <1>2, <1>3, <1>4

-----------------------------------------------------------------------------
(* Steps of one run *)

\* A step of one run, and what it may do to the rest: the invariant holds on
\* if the run goes where it may, as long as the quota and the race allow it.
LEMMA RunSteps ==
  ASSUME ResolutionInv, NEW i \in Ingestions, NEW r \in Runs,
         run' = [run EXCEPT ![i] = r], SoundRun(r), UNCHANGED today,
         boards' \in [Companies -> Findings \cup {NoBoard}],
         counter' \in [Days -> Nat], failures' \in Nat, sent' \in Nat,
         lost' \in [Ingestions -> Seq(Companies)],
         QuotaInv', RaceIsLostOnce',
         \A c \in Companies : boards[c] # NoBoard => boards'[c] # NoBoard,
         \A j \in Ingestions \ {i} : lost'[j] = lost[j],
         \A k \in DOMAIN lost'[i] :
           /\ boards'[lost'[i][k]] # NoBoard
           /\ r.stage \in Unresolved => CompanyIn(r) # lost'[i][k]
  PROVE  ResolutionInv'
  <1>1. /\ run' \in [Ingestions -> Runs] /\ run'[i] = r
        /\ \A j \in Ingestions \ {i} : run'[j] = run[j]
    BY DEF ResolutionInv, ResolutionTypes
  <1>2. ResolutionTypes'
    BY <1>1 DEF ResolutionInv, ResolutionTypes, SoundRun
  <1>3. \A j \in Ingestions : \A k \in DOMAIN lost[j] : lost[j][k] \in Companies
    BY DEF ResolutionInv, ResolutionTypes
  <1>4. RaceInv'
    <2>1. ASSUME NEW j \in Ingestions, NEW k \in DOMAIN lost'[j]
          PROVE  /\ boards'[lost'[j][k]] # NoBoard
                 /\ run'[j].stage \in Unresolved => CompanyIn(run'[j]) # lost'[j][k]
      <3>1. CASE j = i
        BY <1>1, <2>1, <3>1
      <3>2. CASE j # i
        <4>1. run'[j] = run[j] /\ lost'[j] = lost[j] /\ k \in DOMAIN lost[j]
          BY <1>1, <2>1, <3>2
        <4>2. /\ lost[j][k] \in Companies /\ boards[lost[j][k]] # NoBoard
              /\ run[j].stage \in Unresolved => CompanyIn(run[j]) # lost[j][k]
          BY <1>3, <4>1 DEF ResolutionInv, RaceInv
        <4> QED BY <4>1, <4>2 DEF CompanyIn
      <3> QED BY <3>1, <3>2
    <2> QED BY <2>1 DEF RaceInv, CompanyIn
  <1> QED BY <1>2, <1>4 DEF ResolutionInv

LEMMA LetThroughNext == SumsUp(counter, MaxDays, LetThrough)'
  BY LetThroughSums, PTL

LEMMA LetThroughStays ==
  ASSUME UNCHANGED counter
  PROVE  LetThrough' = LetThrough
  BY DEF LetThrough

\* Counting a search lets one more through, within the limit.
LEMMA LetThroughGrows ==
  ASSUME ResolutionTypes, counter' = [counter EXCEPT ![today] = @ + 1]
  PROVE  /\ LetThrough[MaxDays] \in Nat
         /\ LetThrough'[MaxDays] =
              IF MaySearch(counter[today] + 1) THEN LetThrough[MaxDays] + 1
              ELSE LetThrough[MaxDays]
  <1>1. SumsUp(counter, MaxDays, LetThrough)
    BY LetThroughSums
  <1>2. SumsUp(counter', MaxDays, LetThrough')
    BY LetThroughNext DEF SumsUp
  <1> HIDE DEF LetThrough
  <1>3. counter \in [Days -> Nat] /\ today \in Days
    BY DEF ResolutionTypes
  <1>4. PICK more, before, after :
          more = counter' /\ before = LetThrough /\ after = LetThrough'
    OBVIOUS
  <1>5. SumsUp(counter, MaxDays, before) /\ SumsUp(more, MaxDays, after)
    BY <1>1, <1>2, <1>4
  <1>7. \A d \in Days :
          more[d] = IF d = today THEN counter[d] + 1 ELSE counter[d]
    BY <1>3, <1>4
  <1>6. /\ before[MaxDays] \in Nat
        /\ after[MaxDays] = IF MaySearch(counter[today] + 1) THEN before[MaxDays] + 1
                            ELSE before[MaxDays]
    BY <1>3, <1>5, <1>7, OneMoreCounted
  <1> QED BY <1>4, <1>6

LEMMA LetThroughIsNatural ==
  ASSUME ResolutionTypes
  PROVE  LetThrough[MaxDays] \in Nat
  <1> DEFINE more == [counter EXCEPT ![today] = @ + 1]
  <1>1. PICK after : SumsUp(more, MaxDays, after)
    BY SumExists, BoundsAreNatural
  <1>2. counter \in [Days -> Nat] /\ today \in Days
    BY DEF ResolutionTypes
  <1>3. \A d \in Days :
          more[d] = IF d = today THEN counter[d] + 1 ELSE counter[d]
    BY <1>2
  <1> HIDE DEF more
  <1> QED BY <1>1, <1>2, <1>3, LetThroughSums, OneMoreCounted

\* The requests to come change with the one run that moves.
LEMMA SendersStep ==
  ASSUME ResolutionTypes, NEW i \in Ingestions, NEW r, run' = [run EXCEPT ![i] = r]
  PROVE  /\ Cardinality(Senders) \in Nat
         /\ Cardinality(Senders') \in Nat
         /\ MaySend(run[i]) /\ ~MaySend(r) =>
              Cardinality(Senders') = Cardinality(Senders) - 1
         /\ ~MaySend(run[i]) /\ MaySend(r) =>
              Cardinality(Senders') = Cardinality(Senders) + 1
         /\ (MaySend(run[i]) <=> MaySend(r)) =>
              Cardinality(Senders') = Cardinality(Senders)
  <1>1. IsFiniteSet(Senders) /\ IsFiniteSet(Senders')
    <2>1. Senders \subseteq Ingestions /\ Senders' \subseteq Ingestions
      BY DEF Senders
    <2> QED BY <2>1, IngestionsAreFinite, FS_Subset
  <1>2. /\ run'[i] = r /\ \A j \in Ingestions \ {i} : run'[j] = run[j]
    BY DEF ResolutionTypes
  <1>3. i \in Senders <=> MaySend(run[i])
    BY DEF Senders
  <1>4. Senders' = IF MaySend(r) THEN Senders \cup {i} ELSE Senders \ {i}
    <2>1. Senders' = {j \in Ingestions : MaySend(run'[j])}
      BY DEF Senders, MaySend
    <2>2. Senders = {j \in Ingestions : MaySend(run[j])}
      BY DEF Senders
    <2> HIDE DEF Senders
    <2> QED BY <1>2, <2>1, <2>2
  <1>5. /\ Cardinality(Senders) \in Nat /\ Cardinality(Senders') \in Nat
    BY <1>1, FS_CardinalityType
  <1>6. CASE MaySend(r)
    BY <1>1, <1>3, <1>4, <1>5, <1>6, FS_AddElement
  <1>7. CASE ~MaySend(r)
    BY <1>1, <1>3, <1>4, <1>5, <1>7, FS_RemoveElement
  <1> QED BY <1>5, <1>6, <1>7

\* A request to come, of one run.
Pending(r) == IF MaySend(r) THEN 1 ELSE 0

\* The quota holds on while no search is counted, if a request that is sent was
\* let through before, or fails.
LEMMA QuotaSteps ==
  ASSUME ResolutionInv, NEW i \in Ingestions, NEW r, run' = [run EXCEPT ![i] = r],
         UNCHANGED <<counter, expiring>>, sent' \in Nat, failures' \in Nat,
         failures' >= failures,
         sent' + Pending(r) <= sent + Pending(run[i]) + (failures' - failures),
         failures' > failures \/ run[i].stage # "expiring"
  PROVE  QuotaInv'
  <1>1. ResolutionTypes /\ QuotaInv
    BY DEF ResolutionInv
  <1>2. /\ LetThrough' = LetThrough
        /\ LetThrough[MaxDays] \in Nat
    BY <1>1, LetThroughStays, LetThroughIsNatural
  <1>3. /\ Cardinality(Senders) \in Nat /\ Cardinality(Senders') \in Nat
        /\ Cardinality(Senders') + Pending(run[i]) = Cardinality(Senders) + Pending(r)
    <2>1. /\ Cardinality(Senders) \in Nat /\ Cardinality(Senders') \in Nat
          /\ MaySend(run[i]) /\ ~MaySend(r) =>
               Cardinality(Senders') = Cardinality(Senders) - 1
          /\ ~MaySend(run[i]) /\ MaySend(r) =>
               Cardinality(Senders') = Cardinality(Senders) + 1
          /\ (MaySend(run[i]) <=> MaySend(r)) =>
               Cardinality(Senders') = Cardinality(Senders)
      BY <1>1, SendersStep, Zenon
    <2>2. CASE MaySend(r)
      BY <2>1, <2>2 DEF Pending
    <2>3. CASE ~MaySend(r)
      BY <2>1, <2>3 DEF Pending
    <2> QED BY <2>2, <2>3
  <1>4. sent \in Nat /\ failures \in Nat
    BY <1>1 DEF ResolutionTypes
  <1>5. Pending(r) \in Nat /\ Pending(run[i]) \in Nat
    BY DEF Pending
  <1>6. sent + Cardinality(Senders) <= failures + LetThrough[MaxDays]
    BY <1>1 DEF QuotaInv
  <1>7. sent' + Cardinality(Senders') <= failures' + LetThrough'[MaxDays]
    <2>1. sent' + Cardinality(Senders') <= failures' + LetThrough[MaxDays]
      BY <1>2, <1>3, <1>4, <1>5, <1>6
    <2> QED BY <1>2, <2>1
  <1>8. ASSUME failures' = 0, NEW d \in Days, counter[d] > 0, d \notin expiring
        PROVE  \E j \in Ingestions : run'[j].stage = "expiring" /\ run'[j].day = d
    <2>1. failures = 0 /\ run[i].stage # "expiring"
      BY <1>4, <1>8
    <2>2. PICK j \in Ingestions : run[j].stage = "expiring" /\ run[j].day = d
      BY <1>1, <1>8, <2>1 DEF QuotaInv, At
    <2>3. j # i /\ run'[j] = run[j]
      BY <1>1, <2>1, <2>2 DEF ResolutionTypes
    <2> QED BY <2>2, <2>3
  <1> QED BY <1>7, <1>8 DEF QuotaInv, At

\* A step that leaves the boards alone keeps the invariant, if the run looks no
\* further for a board than before, or knows that there is none yet.
LEMMA BoardsStay ==
  ASSUME ResolutionInv, NEW i \in Ingestions, NEW r \in Runs,
         run' = [run EXCEPT ![i] = r], SoundRun(r), UNCHANGED <<boards, today, lost>>,
         counter' \in [Days -> Nat], failures' \in Nat, sent' \in Nat, QuotaInv',
         r.stage \in Unresolved =>
           \/ boards[CompanyIn(r)] = NoBoard
           \/ run[i].stage \in Unresolved /\ r.todo = run[i].todo
  PROVE  ResolutionInv'
  <1>1. ResolutionTypes /\ RaceInv /\ RaceIsLostOnce
    BY DEF ResolutionInv
  <1>2. RaceIsLostOnce'
    BY <1>1 DEF RaceIsLostOnce
  <1>3. ASSUME NEW k \in DOMAIN lost[i]
        PROVE  /\ boards[lost[i][k]] # NoBoard
               /\ r.stage \in Unresolved => CompanyIn(r) # lost[i][k]
    BY <1>1, <1>3 DEF RaceInv, CompanyIn
  <1>4. boards' \in [Companies -> Findings \cup {NoBoard}]
        /\ lost' \in [Ingestions -> Seq(Companies)]
    BY <1>1 DEF ResolutionTypes
  <1> QED BY <1>2, <1>3, <1>4, RunSteps

\* So does one that counts no search and sends none but those let through.
LEMMA QuietStep ==
  ASSUME ResolutionInv, NEW i \in Ingestions, NEW r \in Runs,
         run' = [run EXCEPT ![i] = r], SoundRun(r),
         UNCHANGED <<boards, counter, expiring, today, lost>>,
         sent' \in Nat, failures' \in Nat, failures' >= failures,
         sent' + Pending(r) <= sent + Pending(run[i]) + (failures' - failures),
         failures' > failures \/ run[i].stage # "expiring",
         r.stage \in Unresolved =>
           \/ boards[CompanyIn(r)] = NoBoard
           \/ run[i].stage \in Unresolved /\ r.todo = run[i].todo
  PROVE  ResolutionInv'
  <1>1. QuotaInv'
    BY QuotaSteps
  <1>2. counter' \in [Days -> Nat]
    BY DEF ResolutionInv, ResolutionTypes
  <1> QED BY <1>1, <1>2, BoardsStay

-----------------------------------------------------------------------------
(* The steps *)

\* A run that goes on with what it has.
LEMMA GoneTo ==
  ASSUME ResolutionTypes, NEW i \in Ingestions, NEW stage \in Stages, GoTo(i, stage)
  PROVE  \E r \in Runs :
           /\ run' = [run EXCEPT ![i] = r]
           /\ r.stage = stage /\ r.todo = run[i].todo /\ r.page = run[i].page
           /\ r.board = run[i].board /\ r.day = run[i].day
  <1>1. run[i] \in Runs
    BY DEF ResolutionTypes
  <1> DEFINE r == [run[i] EXCEPT !.stage = stage, !.attempt = 1]
  <1>2. /\ r \in Runs /\ r.stage = stage /\ r.todo = run[i].todo
        /\ r.page = run[i].page /\ r.board = run[i].board /\ r.day = run[i].day
    BY <1>1 DEF Runs
  <1>3. run' = [run EXCEPT ![i] = r]
    BY <1>1 DEF GoTo, ResolutionTypes, Runs
  <1> HIDE DEF r
  <1> QED BY <1>2, <1>3

\* The listing at hand, and the company it names.
LEMMA AtHand ==
  ASSUME ResolutionTypes, NEW i \in Ingestions, run[i].todo # <<>>
  PROVE  /\ Current(i) \in Offered /\ CompanyOf(i) \in Companies
         /\ CompanyOf(i) = CompanyIn(run[i])
  <1>1. run[i].todo \in Seq(Offered)
    BY DEF ResolutionTypes, Runs
  <1>2. Current(i) \in Offered
    BY <1>1 DEF Current
  <1> QED BY <1>2, OffersNameCompanies DEF CompanyOf, CompanyIn, Current

\* A failure gives the run up, or back to the queue, or to a second attempt.
LEMMA FailureIsQuiet ==
  ASSUME ResolutionInv, NEW i \in Ingestions, failures' = failures + 1,
         UNCHANGED <<boards, counter, expiring, today, lost>>,
         sent' \in Nat, sent' <= sent + 1,
         \/ TryAgain(i)
         \/ run' = [run EXCEPT ![i] = FailedTask(i)]
         \/ run[i].todo # <<>> /\ run' = [run EXCEPT ![i] = Finished(i)]
  PROVE  ResolutionInv'
  <1>1. ResolutionTypes /\ failures \in Nat /\ failures' \in Nat /\ sent \in Nat
    BY DEF ResolutionInv, ResolutionTypes
  <1>2. Pending(run[i]) \in {0, 1}
    BY DEF Pending
  <1>0. failures' >= failures /\ (failures' > failures \/ run[i].stage # "expiring")
    BY <1>1
  <1>3. CASE TryAgain(i)
    <2>1. PICK r \in Runs :
            /\ run' = [run EXCEPT ![i] = r] /\ SoundRun(r)
            /\ r.stage = run[i].stage /\ r.todo = run[i].todo /\ r.day = run[i].day
      BY <1>1, <1>3, TriedAgain
    <2>2. Pending(r) = Pending(run[i])
      BY <2>1 DEF Pending, MaySend
    <2>3. sent' + Pending(r) <= sent + Pending(run[i]) + (failures' - failures)
      BY <1>1, <1>2, <2>2
    <2> QED BY <1>0, <1>1, <2>1, <2>3, QuietStep
  <1>4. CASE run' = [run EXCEPT ![i] = FailedTask(i)]
    <2>1. PICK r \in Runs : r = FailedTask(i) /\ SoundRun(r) /\ r.stage \in {"fetching", "failed"}
      BY <1>1, FailedRun
    <2>2. Pending(r) = 0 /\ r.stage \notin Unresolved /\ run' = [run EXCEPT ![i] = r]
      BY <1>4, <2>1 DEF Pending, MaySend, Unresolved
    <2>3. sent' + Pending(r) <= sent + Pending(run[i]) + (failures' - failures)
      BY <1>1, <1>2, <2>2
    <2> QED BY <1>0, <1>1, <2>1, <2>2, <2>3, QuietStep
  <1>5. CASE run[i].todo # <<>> /\ run' = [run EXCEPT ![i] = Finished(i)]
    <2>1. PICK r \in Runs : r = Finished(i) /\ SoundRun(r) /\ r.stage = "listing"
      BY <1>1, <1>5, FinishedRun
    <2>2. Pending(r) = 0 /\ r.stage \notin Unresolved /\ run' = [run EXCEPT ![i] = r]
      BY <1>5, <2>1 DEF Pending, MaySend, Unresolved
    <2>3. sent' + Pending(r) <= sent + Pending(run[i]) + (failures' - failures)
      BY <1>1, <1>2, <2>2
    <2> QED BY <1>0, <1>1, <2>1, <2>2, <2>3, QuietStep
  <1> QED BY <1>3, <1>4, <1>5

\* So do the steps of a run that looks for no board.
LEMMA MoveIsQuiet ==
  ASSUME ResolutionInv, NEW i \in Ingestions, NEW r \in Runs,
         run' = [run EXCEPT ![i] = r], SoundRun(r),
         r.stage \notin Unresolved \/ boards[CompanyIn(r)] = NoBoard,
         r.stage \notin {"expiring", "searching"}, run[i].stage # "expiring",
         UNCHANGED <<boards, counter, expiring, today, failures, sent, lost>>
  PROVE  ResolutionInv'
  <1>1. failures \in Nat /\ sent \in Nat
    BY DEF ResolutionInv, ResolutionTypes
  <1>2. Pending(r) = 0 /\ Pending(run[i]) \in {0, 1}
    BY DEF Pending, MaySend
  <1>3. /\ failures' \in Nat /\ sent' \in Nat /\ failures' >= failures
        /\ sent' + Pending(r) <= sent + Pending(run[i]) + (failures' - failures)
    BY <1>1, <1>2
  <1> QED BY <1>3, QuietStep

LEMMA StartIngestingKeeps ==
  ASSUME ResolutionInv, NEW i \in Ingestions, StartIngesting(i)
  PROVE  ResolutionInv'
  <1>1. /\ ResolutionTypes /\ GoTo(i, "fetching") /\ run[i].stage = "idle"
        /\ UNCHANGED <<boards, counter, expiring, today, failures, sent, lost>>
    BY DEF ResolutionInv, StartIngesting, At
  <1>4. "fetching" \in Stages
    BY DEF Stages
  <1>2. PICK r \in Runs :
          /\ run' = [run EXCEPT ![i] = r]
          /\ r.stage = "fetching" /\ r.todo = run[i].todo /\ r.page = run[i].page
          /\ r.board = run[i].board /\ r.day = run[i].day
    BY <1>1, <1>4, GoneTo, Zenon
  <1>3. SoundRun(r) /\ r.stage \notin Unresolved
    BY <1>1, <1>2 DEF ResolutionTypes, SoundRun, Resolving, Unresolved
  <1> QED BY <1>1, <1>2, <1>3, MoveIsQuiet

LEMMA FetchPageKeeps ==
  ASSUME ResolutionInv, NEW i \in Ingestions, FetchPage(i)
  PROVE  ResolutionInv'
  <1>1. /\ ResolutionTypes /\ run[i].stage = "fetching" /\ run[i] \in Runs
        /\ run[i].page \in DOMAIN Feed
        /\ sent \in Nat /\ sent' = sent
        /\ UNCHANGED <<boards, counter, expiring, today, lost>>
    BY DEF ResolutionInv, ResolutionTypes, SoundRun, FetchPage, At
  <1>2. CASE UNCHANGED failures /\
             run' = [run EXCEPT ![i].stage = "listing", ![i].attempt = 1,
                                ![i].todo = Feed[run[i].page]]
    <2> DEFINE r == [run[i] EXCEPT !.stage = "listing", !.attempt = 1,
                                   !.todo = Feed[run[i].page]]
    <2>1. Feed[run[i].page] \in Seq(Offered)
      BY <1>1, FeedHasPages
    <2>2. r \in Runs /\ r.stage = "listing"
      BY <1>1, <2>1 DEF Runs, Stages
    <2>3. run' = [run EXCEPT ![i] = r]
      BY <1>1, <1>2 DEF ResolutionTypes, Runs
    <2>4. SoundRun(r) /\ r.stage \notin Unresolved
      BY <2>2 DEF SoundRun, Resolving, Unresolved
    <2> HIDE DEF r
    <2> QED BY <1>1, <1>2, <2>2, <2>3, <2>4, MoveIsQuiet
  <1>3. CASE failures' = failures + 1 /\
             (TryAgain(i) \/ run' = [run EXCEPT ![i] = FailedTask(i)])
    BY <1>1, <1>3, FailureIsQuiet
  <1> QED BY <1>2, <1>3 DEF FetchPage

LEMMA TurnPageKeeps ==
  ASSUME ResolutionInv, NEW i \in Ingestions, TurnPage(i)
  PROVE  ResolutionInv'
  <1>1. /\ ResolutionTypes /\ run[i].stage = "listing" /\ run[i] \in Runs
        /\ UNCHANGED <<boards, counter, expiring, today, failures, sent, lost>>
    BY DEF ResolutionInv, ResolutionTypes, TurnPage, At
  <1> DEFINE more == run[i].page < Len(Feed) /\ run[i].page < MaxPages
             stage == IF more THEN "fetching" ELSE "ended"
             r == [run[i] EXCEPT !.stage = stage, !.page = run[i].page + 1]
  <1>7. stage \in Stages
    BY DEF Stages
  <1>8. run[i].page + 1 \in Nat \ {0}
    <2>1. run[i].page \in Nat
      BY <1>1 DEF Runs
    <2> QED BY <2>1
  <1>3. run' = [run EXCEPT ![i] = r]
    BY <1>1 DEF TurnPage, ResolutionTypes, Runs
  <1> HIDE DEF stage
  <1>2. r \in Runs /\ r.stage = stage /\ r.page = run[i].page + 1
    BY <1>1, <1>7, <1>8 DEF Runs
  <1> USE DEF stage
  <1>4. Len(Feed) \in Nat /\ DOMAIN Feed = 1 .. Len(Feed) /\ run[i].page \in Nat \ {0}
    <2>1. run[i].page \in Nat \ {0}
      BY <1>1 DEF Runs
    <2> QED BY <2>1, FeedHasPages
  <1> HIDE DEF r
  <1>5. SoundRun(r) /\ r.stage \notin Unresolved
    BY <1>2, <1>4 DEF SoundRun, Resolving, Unresolved
  <1> HIDE DEF more
  <1>6. r.stage \notin {"expiring", "searching"}
    BY <1>2
  <1> QED BY <1>1, <1>2, <1>3, <1>5, <1>6, MoveIsQuiet

LEMMA TakeListingKeeps ==
  ASSUME ResolutionInv, NEW i \in Ingestions, TakeListing(i)
  PROVE  ResolutionInv'
  <1>1. /\ ResolutionTypes /\ run[i].stage = "listing" /\ run[i].todo # <<>>
        /\ UNCHANGED <<boards, counter, expiring, today, failures, sent, lost>>
    BY DEF ResolutionInv, TakeListing, At
  <1>2. CASE run' = [run EXCEPT ![i] = Finished(i)]
    <2>1. PICK r \in Runs : r = Finished(i) /\ SoundRun(r) /\ r.stage = "listing"
      BY <1>1, FinishedRun
    <2>2. run' = [run EXCEPT ![i] = r] /\ r.stage \notin Unresolved
      BY <1>2, <2>1 DEF Unresolved
    <2> QED BY <1>1, <2>1, <2>2, MoveIsQuiet
  <1>3. CASE GoTo(i, "looking up")
    <2>3. "looking up" \in Stages
      BY DEF Stages
    <2>1. PICK r \in Runs :
            /\ run' = [run EXCEPT ![i] = r]
            /\ r.stage = "looking up" /\ r.todo = run[i].todo /\ r.page = run[i].page
            /\ r.board = run[i].board /\ r.day = run[i].day
      BY <1>1, <1>3, <2>3, GoneTo, Zenon
    <2>2. SoundRun(r) /\ r.stage \notin Unresolved
      BY <1>1, <2>1 DEF SoundRun, Resolving, Unresolved
    <2> QED BY <1>1, <2>1, <2>2, MoveIsQuiet
  <1> QED BY <1>2, <1>3 DEF TakeListing

\* Only a company without a board is looked for further.
LEMMA LookUpKeeps ==
  ASSUME ResolutionInv, NEW i \in Ingestions, LookUp(i)
  PROVE  ResolutionInv'
  <1>1. /\ ResolutionTypes /\ run[i].stage = "looking up" /\ run[i] \in Runs
        /\ run[i].todo # <<>>
        /\ UNCHANGED <<boards, counter, expiring, today, failures, sent, lost>>
    BY DEF ResolutionInv, ResolutionTypes, SoundRun, Resolving, LookUp, At
  <1>2. /\ CompanyOf(i) \in Companies /\ CompanyOf(i) = CompanyIn(run[i])
        /\ boards[CompanyOf(i)] \in Findings \cup {NoBoard}
    BY <1>1, AtHand DEF ResolutionTypes
  <1> DEFINE board == boards[CompanyOf(i)]
             stage == IF board = NoBoard THEN "counting" ELSE "reading board"
             r == [run[i] EXCEPT !.board = board, !.stage = stage]
  <1>3. run' = [run EXCEPT ![i] = r]
    BY <1>1 DEF LookUp, ResolutionTypes, Runs
  <1>4. stage \in Stages
    BY DEF Stages
  <1>5. /\ stage \in {"counting", "reading board"}
        /\ stage = "counting" => board = NoBoard
    OBVIOUS
  <1> HIDE DEF stage
  <1>6. r \in Runs /\ r.stage = stage /\ r.todo = run[i].todo
    BY <1>1, <1>2, <1>4 DEF Runs
  <1> HIDE DEF r
  <1>7. CompanyIn(r) = CompanyOf(i)
    BY <1>2, <1>6 DEF CompanyIn
  <1>8. SoundRun(r) /\ r.stage \notin {"expiring", "searching"}
    BY <1>1, <1>5, <1>6 DEF SoundRun
  <1>9. r.stage \notin Unresolved \/ boards[CompanyIn(r)] = NoBoard
    BY <1>5, <1>6, <1>7 DEF Unresolved
  <1> QED BY <1>1, <1>3, <1>6, <1>8, <1>9, MoveIsQuiet

\* A search that is sent was let through.
LEMMA SearchKeeps ==
  ASSUME ResolutionInv, NEW i \in Ingestions, Search(i)
  PROVE  ResolutionInv'
  <1>1. /\ ResolutionTypes /\ run[i].stage = "searching" /\ run[i] \in Runs
        /\ run[i].todo # <<>> /\ sent \in Nat /\ failures \in Nat /\ sent' = sent + 1
        /\ UNCHANGED <<boards, counter, expiring, today, lost>>
    BY DEF ResolutionInv, ResolutionTypes, SoundRun, Resolving, Search, At
  <1>2. Pending(run[i]) = 1
    BY <1>1 DEF Pending, MaySend
  <1>3. CASE failures' = failures + 1 /\
             (TryAgain(i) \/ run' = [run EXCEPT ![i] = Finished(i)])
    BY <1>1, <1>3, FailureIsQuiet
  <1>4. ASSUME UNCHANGED failures, NEW results \in WebResults[CompanyOf(i)],
               run' = [run EXCEPT ![i] =
                         IF FirstBoard(results) = NoBoard
                         THEN Finished(i)
                         ELSE [run[i] EXCEPT !.stage = "saving", !.attempt = 1,
                                             !.board = FirstBoard(results)]]
        PROVE  ResolutionInv'
    <2>1. PICK r \in Runs :
            /\ run' = [run EXCEPT ![i] = r] /\ SoundRun(r)
            /\ \/ r.stage = "listing"
               \/ r.stage = "saving" /\ r.todo = run[i].todo
      <3>1. CASE FirstBoard(results) = NoBoard
        <4>1. run' = [run EXCEPT ![i] = Finished(i)]
          BY <1>4, <3>1
        <4>2. /\ Finished(i) \in Runs /\ SoundRun(Finished(i))
              /\ Finished(i).stage = "listing"
          BY <1>1, FinishedRun
        <4> QED BY <4>1, <4>2
      <3>2. CASE FirstBoard(results) # NoBoard
        <4> DEFINE board == FirstBoard(results)
                   r == [run[i] EXCEPT !.stage = "saving", !.attempt = 1, !.board = board]
        <4>1. board \in Findings
          <5>1. CompanyOf(i) \in Companies
            BY <1>1, AtHand
          <5> QED BY <1>4, <5>1 DEF Findings
        <4>2. run' = [run EXCEPT ![i] = r] /\ board # NoBoard
          BY <1>4, <3>2
        <4> HIDE DEF board
        <4>3. /\ r \in Runs /\ r.stage = "saving" /\ r.todo = run[i].todo
              /\ r.board = board
          BY <1>1, <4>1 DEF Runs, Stages
        <4> HIDE DEF r
        <4>4. SoundRun(r)
          BY <1>1, <4>2, <4>3 DEF SoundRun
        <4> QED BY <4>2, <4>3, <4>4
      <3> QED BY <3>1, <3>2
    <2>2. Pending(r) = 0
      BY <2>1 DEF Pending, MaySend
    <2>3. /\ failures' \in Nat /\ sent' \in Nat /\ failures' >= failures
          /\ sent' + Pending(r) <= sent + Pending(run[i]) + (failures' - failures)
      BY <1>1, <1>2, <1>4, <2>2
    <2>4. /\ failures' > failures \/ run[i].stage # "expiring"
          /\ r.stage \in Unresolved =>
               \/ boards[CompanyIn(r)] = NoBoard
               \/ run[i].stage \in Unresolved /\ r.todo = run[i].todo
      BY <1>1, <2>1 DEF Unresolved
    <2> QED BY <1>1, <2>1, <2>3, <2>4, QuietStep
  <1>5. \/ failures' = failures + 1 /\
             (TryAgain(i) \/ run' = [run EXCEPT ![i] = Finished(i)])
        \/ \E results \in WebResults[CompanyOf(i)] :
             /\ run' = [run EXCEPT ![i] =
                    IF FirstBoard(results) = NoBoard
                    THEN Finished(i)
                    ELSE [run[i] EXCEPT !.stage = "saving", !.attempt = 1,
                                        !.board = FirstBoard(results)]]
             /\ UNCHANGED failures
    BY DEF Search
  <1> QED BY <1>3, <1>4, <1>5

LEMMA ReadBoardKeeps ==
  ASSUME ResolutionInv, NEW i \in Ingestions, ReadBoard(i)
  PROVE  ResolutionInv'
  <1>0. sent \in Nat /\ sent' = sent
    BY DEF ResolutionInv, ResolutionTypes, ReadBoard
  <1>1. /\ ResolutionTypes /\ run[i].stage = "reading board" /\ run[i].todo # <<>>
        /\ UNCHANGED <<boards, counter, expiring, today, sent, lost>>
    BY DEF ResolutionInv, ResolutionTypes, SoundRun, Resolving, ReadBoard, At
  <1>2. CASE UNCHANGED failures /\ run' = [run EXCEPT ![i] = Finished(i)]
    <2>1. PICK r \in Runs : r = Finished(i) /\ SoundRun(r) /\ r.stage = "listing"
      BY <1>1, FinishedRun
    <2>2. run' = [run EXCEPT ![i] = r] /\ r.stage \notin Unresolved
      BY <1>2, <2>1 DEF Unresolved
    <2> QED BY <1>1, <1>2, <2>1, <2>2, MoveIsQuiet
  <1>3. CASE failures' = failures + 1 /\
             (TryAgain(i) \/ run' = [run EXCEPT ![i] = Finished(i)])
    <2>1. sent' \in Nat /\ sent' <= sent + 1
      BY <1>0
    <2> QED BY <1>1, <1>3, <2>1, FailureIsQuiet
  <1> QED BY <1>2, <1>3 DEF ReadBoard

LEMMA LoseConnectionKeeps ==
  ASSUME ResolutionInv, NEW i \in Ingestions, LoseConnection(i)
  PROVE  ResolutionInv'
  <1>1. /\ sent \in Nat /\ sent' = sent
        /\ failures' = failures + 1 /\ run' = [run EXCEPT ![i] = FailedTask(i)]
        /\ UNCHANGED <<boards, counter, expiring, today, lost>>
    BY DEF ResolutionInv, ResolutionTypes, LoseConnection
  <1>2. sent' \in Nat /\ sent' <= sent + 1
    BY <1>1
  <1> QED BY <1>1, <1>2, FailureIsQuiet

LEMMA KillWorkerKeeps ==
  ASSUME ResolutionInv, NEW i \in Ingestions, KillWorker(i)
  PROVE  ResolutionInv'
  <1>1. /\ ResolutionTypes /\ run[i] \in Runs
        /\ sent \in Nat /\ sent' = sent /\ failures \in Nat /\ failures' = failures + 1
        /\ UNCHANGED <<boards, counter, expiring, today, lost>>
    BY DEF ResolutionInv, ResolutionTypes, KillWorker
  <1> DEFINE r == [run[i] EXCEPT !.stage = "killed"]
  <1>2. r \in Runs /\ r.stage = "killed"
    BY <1>1 DEF Runs, Stages
  <1>3. run' = [run EXCEPT ![i] = r]
    BY <1>1 DEF KillWorker, ResolutionTypes, Runs
  <1> HIDE DEF r
  <1>4. SoundRun(r) /\ r.stage \notin Unresolved /\ Pending(r) = 0
    BY <1>2 DEF SoundRun, Resolving, Unresolved, Pending, MaySend
  <1>5. Pending(run[i]) \in {0, 1}
    BY DEF Pending
  <1>6. /\ failures' \in Nat /\ sent' \in Nat /\ failures' >= failures /\ failures' > failures
        /\ sent' + Pending(r) <= sent + Pending(run[i]) + (failures' - failures)
    BY <1>1, <1>4, <1>5
  <1> QED BY <1>1, <1>2, <1>3, <1>4, <1>6, QuietStep

\* A row is written once, and stays.
LEMMA SaveBoardKeeps ==
  ASSUME ResolutionInv, NEW i \in Ingestions, SaveBoard(i)
  PROVE  ResolutionInv'
  <1>0. failures \in Nat /\ sent \in Nat /\ UNCHANGED <<failures, sent>>
    BY DEF ResolutionInv, ResolutionTypes, SaveBoard
  <1>1. /\ ResolutionTypes /\ RaceInv /\ RaceIsLostOnce
        /\ run[i].stage = "saving" /\ run[i].todo # <<>> /\ run[i].board # NoBoard
        /\ run[i].board \in Findings \cup {NoBoard}
        /\ boards' = [boards EXCEPT ![CompanyOf(i)] = run[i].board]
        /\ GoTo(i, "reading board")
        /\ UNCHANGED <<counter, expiring, today, lost>>
    BY DEF ResolutionInv, ResolutionTypes, SoundRun, Resolving, Runs, SaveBoard, At
  <1>2. CompanyOf(i) \in Companies
    BY <1>1, AtHand
  <1>3. "reading board" \in Stages
    BY DEF Stages
  <1>4. PICK r \in Runs :
          /\ run' = [run EXCEPT ![i] = r]
          /\ r.stage = "reading board" /\ r.todo = run[i].todo /\ r.page = run[i].page
          /\ r.board = run[i].board /\ r.day = run[i].day
    BY <1>1, <1>3, GoneTo, Zenon
  <1>5. SoundRun(r) /\ Pending(r) = 0 /\ Pending(run[i]) = 0 /\ r.stage \notin Unresolved
    BY <1>1, <1>4 DEF SoundRun, Pending, MaySend, Unresolved
  <1>6. QuotaInv'
    <2>1. /\ sent' \in Nat /\ failures' \in Nat /\ failures' >= failures
          /\ sent' + Pending(r) <= sent + Pending(run[i]) + (failures' - failures)
      BY <1>0, <1>5
    <2> QED BY <1>1, <1>4, <2>1, QuotaSteps
  <1>7. /\ boards' \in [Companies -> Findings \cup {NoBoard}]
        /\ \A c \in Companies : boards[c] # NoBoard => boards'[c] # NoBoard
    BY <1>1, <1>2 DEF ResolutionTypes
  <1>8. /\ RaceIsLostOnce' /\ lost' \in [Ingestions -> Seq(Companies)]
        /\ counter' \in [Days -> Nat]
    BY <1>1 DEF ResolutionTypes, RaceIsLostOnce
  <1>9. \A k \in DOMAIN lost'[i] : boards'[lost'[i][k]] # NoBoard
    <2>1. ASSUME NEW k \in DOMAIN lost[i] PROVE boards'[lost[i][k]] # NoBoard
      <3>1. lost[i] \in Seq(Companies)
        BY <1>1 DEF ResolutionTypes
      <3>2. lost[i][k] \in Companies
        BY <2>1, <3>1
      <3>3. boards[lost[i][k]] # NoBoard
        BY <1>1, <2>1 DEF RaceInv
      <3> QED BY <1>7, <3>2, <3>3
    <2> QED BY <1>1, <2>1
  <1> QED BY <1>0, <1>1, <1>4, <1>5, <1>6, <1>7, <1>8, <1>9, RunSteps

\* A run that loses a row to another has not lost it before.
LEMMA SaveBoardConflictsKeeps ==
  ASSUME ResolutionInv, NEW i \in Ingestions, SaveBoardConflicts(i)
  PROVE  ResolutionInv'
  <1>0. failures \in Nat /\ sent \in Nat /\ UNCHANGED <<failures, sent>>
    BY DEF ResolutionInv, ResolutionTypes, SaveBoardConflicts
  <1>1. /\ ResolutionTypes /\ RaceInv /\ RaceIsLostOnce
        /\ run[i].stage = "saving" /\ run[i].todo # <<>>
        /\ boards[CompanyOf(i)] # NoBoard
        /\ lost' = [lost EXCEPT ![i] = Append(lost[i], CompanyOf(i))]
        /\ run' = [run EXCEPT ![i] = FailedTask(i)]
        /\ UNCHANGED <<boards, counter, expiring, today>>
    BY DEF ResolutionInv, ResolutionTypes, SoundRun, Resolving, SaveBoardConflicts, At
  <1>2. CompanyOf(i) \in Companies /\ CompanyOf(i) = CompanyIn(run[i])
    BY <1>1, AtHand
  <1>3. PICK r \in Runs : r = FailedTask(i) /\ SoundRun(r) /\ r.stage \in {"fetching", "failed"}
    BY <1>1, FailedRun
  <1>4. /\ run' = [run EXCEPT ![i] = r]
        /\ Pending(r) = 0 /\ Pending(run[i]) = 0 /\ r.stage \notin Unresolved
    BY <1>1, <1>3 DEF Pending, MaySend, Unresolved
  <1>5. QuotaInv'
    <2>1. /\ sent' \in Nat /\ failures' \in Nat /\ failures' >= failures
          /\ sent' + Pending(r) <= sent + Pending(run[i]) + (failures' - failures)
      BY <1>0, <1>4
    <2> QED BY <1>1, <1>4, <2>1, QuotaSteps
  <1>6. /\ lost[i] \in Seq(Companies) /\ lost' \in [Ingestions -> Seq(Companies)]
        /\ lost'[i] = Append(lost[i], CompanyOf(i))
        /\ \A j \in Ingestions \ {i} : lost'[j] = lost[j]
    BY <1>1, <1>2 DEF ResolutionTypes
  <1>7. ASSUME NEW k \in DOMAIN lost'[i]
        PROVE  \/ k = Len(lost[i]) + 1 /\ lost'[i][k] = CompanyOf(i)
               \/ k \in DOMAIN lost[i] /\ lost'[i][k] = lost[i][k]
    BY <1>6, <1>7
  <1>8. ASSUME NEW k \in DOMAIN lost[i]
        PROVE  /\ boards[lost[i][k]] # NoBoard /\ lost[i][k] # CompanyOf(i)
               /\ k # Len(lost[i]) + 1
    <2>1. boards[lost[i][k]] # NoBoard /\ CompanyIn(run[i]) # lost[i][k]
      BY <1>1 DEF RaceInv, Unresolved
    <2>2. k # Len(lost[i]) + 1
      BY <1>6
    <2> QED BY <1>2, <2>1, <2>2
  <1>9. RaceIsLostOnce'
    <2>1. ASSUME NEW m \in Ingestions, NEW j \in DOMAIN lost'[m], NEW k \in DOMAIN lost'[m],
                 lost'[m][j] = lost'[m][k]
          PROVE  j = k
      <3>1. CASE m = i
        BY <1>1, <1>7, <1>8, <2>1, <3>1 DEF RaceIsLostOnce
      <3>2. CASE m # i
        BY <1>1, <1>6, <2>1, <3>2 DEF RaceIsLostOnce
      <3> QED BY <3>1, <3>2
    <2> QED BY <2>1 DEF RaceIsLostOnce
  <1>10. \A k \in DOMAIN lost'[i] : boards'[lost'[i][k]] # NoBoard
    BY <1>1, <1>7, <1>8
  <1>11. /\ boards' \in [Companies -> Findings \cup {NoBoard}]
         /\ counter' \in [Days -> Nat]
         /\ \A c \in Companies : boards[c] # NoBoard => boards'[c] # NoBoard
    BY <1>1 DEF ResolutionTypes
  <1> QED BY <1>0, <1>1, <1>3, <1>4, <1>5, <1>6, <1>9, <1>10, <1>11, RunSteps

\* The counter goes up with each search, let through or not.
LEMMA CountSearchKeeps ==
  ASSUME ResolutionInv, NEW i \in Ingestions, CountSearch(i)
  PROVE  ResolutionInv'
  <1>0. /\ failures \in Nat /\ sent \in Nat /\ UNCHANGED <<failures, sent>>
        /\ sent + Cardinality(Senders) <= failures + LetThrough[MaxDays]
    BY DEF ResolutionInv, ResolutionTypes, QuotaInv, CountSearch
  <1> DEFINE count == counter[today] + 1
  <1>1. /\ ResolutionTypes /\ QuotaInv
        /\ run[i].stage = "counting" /\ run[i].todo # <<>> /\ run[i] \in Runs
        /\ counter \in [Days -> Nat] /\ today \in Days
        /\ UNCHANGED <<boards, expiring, today, lost>>
    BY DEF ResolutionInv, ResolutionTypes, SoundRun, Resolving, CountSearch, At
  <1>2. /\ counter' = [counter EXCEPT ![today] = count]
        /\ run' = [run EXCEPT ![i] =
                     IF count = 1
                     THEN [run[i] EXCEPT !.stage = "expiring", !.day = today]
                     ELSE Counted(i, count)]
    BY DEF CountSearch
  <1>3. count \in Nat /\ counter' \in [Days -> Nat]
    BY <1>1, <1>2
  <1>4. PICK r \in Runs :
          /\ run' = [run EXCEPT ![i] = r] /\ SoundRun(r) /\ (MaySend(r) <=> MaySearch(count))
          /\ count = 1 => r.stage = "expiring" /\ r.day = today
          /\ r.stage \in Unresolved => r.todo = run[i].todo
    <2>1. CASE count = 1
      <3> DEFINE r == [run[i] EXCEPT !.stage = "expiring", !.day = today]
      <3>1. r \in Runs /\ r.stage = "expiring" /\ r.day = today /\ r.todo = run[i].todo
        BY <1>1 DEF Runs, Stages
      <3>2. run' = [run EXCEPT ![i] = r]
        BY <1>2, <2>1
      <3> HIDE DEF r
      <3>3. SoundRun(r)
        BY <1>1, <3>1 DEF SoundRun
      <3>4. MaySend(r) <=> MaySearch(count)
        BY <2>1, <3>1 DEF MaySend
      <3> QED BY <3>1, <3>2, <3>3, <3>4
    <2>2. CASE count # 1
      <3> HIDE DEF count
      <3>1. /\ Counted(i, count) \in Runs /\ SoundRun(Counted(i, count))
            /\ IF MaySearch(count)
               THEN /\ Counted(i, count).stage = "searching"
                    /\ Counted(i, count).todo = run[i].todo
               ELSE Counted(i, count).stage = "listing"
        BY <1>1, <1>3, CountedRun
      <3>2. run' = [run EXCEPT ![i] = Counted(i, count)]
        BY <1>2, <2>2
      <3>3. PICK r \in Runs : r = Counted(i, count)
        BY <3>1
      <3>4. MaySend(r) <=> MaySearch(count)
        BY <3>1, <3>3 DEF MaySend
      <3>5. r.stage \in Unresolved => r.todo = run[i].todo
        BY <3>1, <3>3 DEF Unresolved
      <3> QED BY <2>2, <3>1, <3>2, <3>3, <3>4, <3>5
    <2> QED BY <2>1, <2>2
  <1>5. ~MaySend(run[i])
    BY <1>1 DEF MaySend
  <1>6. sent' + Cardinality(Senders') <= failures' + LetThrough'[MaxDays]
    <2>1. counter' = [counter EXCEPT ![today] = @ + 1]
      BY <1>1, <1>2
    <2>2. /\ LetThrough[MaxDays] \in Nat
          /\ LetThrough'[MaxDays] =
               IF MaySearch(count) THEN LetThrough[MaxDays] + 1 ELSE LetThrough[MaxDays]
      BY <1>1, <2>1, LetThroughGrows
    <2>3. /\ Cardinality(Senders) \in Nat
          /\ MaySend(r) => Cardinality(Senders') = Cardinality(Senders) + 1
          /\ ~MaySend(r) => Cardinality(Senders') = Cardinality(Senders)
      BY <1>1, <1>4, <1>5, SendersStep
    <2> HIDE DEF count
    <2>4. CASE MaySearch(count)
      <3>1. Cardinality(Senders') = Cardinality(Senders) + 1
        BY <1>4, <2>3, <2>4
      <3>2. LetThrough'[MaxDays] = LetThrough[MaxDays] + 1
        BY <2>2, <2>4
      <3>3. sent + (Cardinality(Senders) + 1) <= failures + (LetThrough[MaxDays] + 1)
        BY <1>0, <2>2, <2>3
      <3> QED BY <1>0, <3>1, <3>2, <3>3
    <2>5. CASE ~MaySearch(count)
      <3>1. Cardinality(Senders') = Cardinality(Senders)
        BY <1>4, <2>3, <2>5
      <3>2. LetThrough'[MaxDays] = LetThrough[MaxDays]
        BY <2>2, <2>5
      <3> QED BY <1>0, <3>1, <3>2
    <2> QED BY <2>4, <2>5
  <1>7. ASSUME failures' = 0, NEW d \in Days, counter'[d] > 0, d \notin expiring
        PROVE  \E j \in Ingestions : run'[j].stage = "expiring" /\ run'[j].day = d
    <2>1. CASE d = today /\ count = 1
      BY <1>1, <1>4, <2>1 DEF ResolutionTypes
    <2>2. CASE ~(d = today /\ count = 1)
      <3>1. counter[d] > 0
        BY <1>1, <1>2, <1>7, <2>2
      <3>2. PICK j \in Ingestions : run[j].stage = "expiring" /\ run[j].day = d
        BY <1>0, <1>1, <1>7, <3>1 DEF QuotaInv, At
      <3>3. j # i /\ run'[j] = run[j]
        BY <1>1, <1>4, <3>2 DEF ResolutionTypes
      <3> QED BY <3>2, <3>3
    <2> QED BY <2>1, <2>2
  <1>8. QuotaInv'
    BY <1>1, <1>6, <1>7 DEF QuotaInv, At
  <1>9. failures' \in Nat /\ sent' \in Nat
    BY <1>0
  <1>10. run[i].stage \in Unresolved
    BY <1>1 DEF Unresolved
  <1> QED BY <1>1, <1>3, <1>4, <1>8, <1>9, <1>10, BoardsStay

\* The day's counter expires, before its first search is sent.
LEMMA ExpireCounterKeeps ==
  ASSUME ResolutionInv, NEW i \in Ingestions, ExpireCounter(i)
  PROVE  ResolutionInv'
  <1>0. /\ failures \in Nat /\ sent \in Nat /\ UNCHANGED <<failures, sent>>
        /\ sent + Cardinality(Senders) <= failures + LetThrough[MaxDays]
    BY DEF ResolutionInv, ResolutionTypes, QuotaInv, ExpireCounter
  <1>1. /\ ResolutionTypes /\ QuotaInv
        /\ run[i].stage = "expiring" /\ run[i].todo # <<>> /\ run[i] \in Runs
        /\ counter' \in [Days -> Nat] /\ counter' = counter
        /\ expiring' = expiring \cup {run[i].day}
        /\ run' = [run EXCEPT ![i] = Counted(i, 1)]
        /\ UNCHANGED <<boards, today, lost>>
    BY DEF ResolutionInv, ResolutionTypes, SoundRun, Resolving, ExpireCounter, At
  <1>2. /\ Counted(i, 1) \in Runs /\ SoundRun(Counted(i, 1))
        /\ IF MaySearch(1)
           THEN /\ Counted(i, 1).stage = "searching"
                /\ Counted(i, 1).todo = run[i].todo
           ELSE Counted(i, 1).stage = "listing"
    BY <1>1, CountedRun
  <1>3. PICK r \in Runs : r = Counted(i, 1)
    BY <1>2
  <1>4. /\ run' = [run EXCEPT ![i] = r] /\ SoundRun(r)
        /\ MaySend(r) <=> MaySend(run[i])
        /\ r.stage \in Unresolved => r.todo = run[i].todo
    BY <1>1, <1>2, <1>3 DEF MaySend, Unresolved
  <1>5. sent' + Cardinality(Senders') <= failures' + LetThrough'[MaxDays]
    <2>1. LetThrough' = LetThrough
      BY <1>1, LetThroughStays
    <2>2. Cardinality(Senders') = Cardinality(Senders)
      BY <1>1, <1>4, SendersStep
    <2> QED BY <1>0, <2>1, <2>2
  <1>6. ASSUME failures' = 0, NEW d \in Days, counter'[d] > 0, d \notin expiring'
        PROVE  \E j \in Ingestions : run'[j].stage = "expiring" /\ run'[j].day = d
    <2>1. PICK j \in Ingestions : run[j].stage = "expiring" /\ run[j].day = d
      BY <1>0, <1>1, <1>6 DEF QuotaInv, At
    <2>2. j # i /\ run'[j] = run[j]
      BY <1>1, <1>4, <1>6, <2>1 DEF ResolutionTypes
    <2> QED BY <2>1, <2>2
  <1>7. QuotaInv'
    BY <1>5, <1>6 DEF QuotaInv, At
  <1>8. failures' \in Nat /\ sent' \in Nat
    BY <1>0
  <1>9. run[i].stage \in Unresolved
    BY <1>1 DEF Unresolved
  <1> QED BY <1>1, <1>4, <1>7, <1>8, <1>9, BoardsStay

LEMMA TimeKeeps ==
  ASSUME ResolutionInv, Midnight \/ UNCHANGED resolutionVars
  PROVE  ResolutionInv'
  <1>1. /\ today' \in Days
        /\ UNCHANGED <<boards, counter, expiring, run, failures, sent, lost>>
    <2>1. CASE Midnight
      BY <2>1, BoundsAreNatural DEF ResolutionInv, ResolutionTypes, Midnight, Days
    <2>2. CASE UNCHANGED resolutionVars
      BY <2>2 DEF ResolutionInv, ResolutionTypes, resolutionVars
    <2> QED BY <2>1, <2>2
  <1>2. ResolutionTypes'
    BY <1>1 DEF ResolutionInv, ResolutionTypes, SoundRun
  <1>3. QuotaInv'
    <2>1. LetThrough' = LetThrough
      BY <1>1, LetThroughStays
    <2>2. Senders' = Senders
      BY <1>1 DEF Senders, MaySend
    <2> QED BY <1>1, <2>1, <2>2 DEF ResolutionInv, QuotaInv, At
  <1>4. RaceInv' /\ RaceIsLostOnce'
    BY <1>1 DEF ResolutionInv, RaceInv, RaceIsLostOnce, CompanyIn
  <1> QED BY <1>2, <1>3, <1>4 DEF ResolutionInv

LEMMA NextKeeps ==
  ASSUME ResolutionInv, [ResolutionNext]_resolutionVars
  PROVE  ResolutionInv'
  <1>1. ASSUME NEW i \in Ingestions,
               \/ StartIngesting(i) \/ FetchPage(i) \/ TurnPage(i) \/ TakeListing(i)
               \/ LookUp(i) \/ CountSearch(i) \/ Search(i)
               \/ ExpireCounter(i)
               \/ SaveBoard(i) \/ SaveBoardConflicts(i) \/ ReadBoard(i)
               \/ LoseConnection(i) \/ KillWorker(i)
        PROVE  ResolutionInv'
    <2>1. CASE StartIngesting(i) BY <2>1, StartIngestingKeeps
    <2>2. CASE FetchPage(i) BY <2>2, FetchPageKeeps
    <2>3. CASE TurnPage(i) BY <2>3, TurnPageKeeps
    <2>4. CASE TakeListing(i) BY <2>4, TakeListingKeeps
    <2>5. CASE LookUp(i) BY <2>5, LookUpKeeps
    <2>6. CASE CountSearch(i) BY <2>6, CountSearchKeeps
    <2>7. CASE Search(i) BY <2>7, SearchKeeps
    <2>8. CASE ExpireCounter(i) BY <2>8, ExpireCounterKeeps
    <2>9. CASE SaveBoard(i) BY <2>9, SaveBoardKeeps
    <2>10. CASE SaveBoardConflicts(i) BY <2>10, SaveBoardConflictsKeeps
    <2>11. CASE ReadBoard(i) BY <2>11, ReadBoardKeeps
    <2>12. CASE LoseConnection(i) BY <2>12, LoseConnectionKeeps
    <2>13. CASE KillWorker(i) BY <2>13, KillWorkerKeeps
    <2> QED
      BY <1>1, <2>1, <2>2, <2>3, <2>4, <2>5, <2>6, <2>7, <2>8, <2>9, <2>10,
         <2>11, <2>12, <2>13
  <1>2. CASE Midnight \/ UNCHANGED resolutionVars
    BY <1>2, TimeKeeps
  <1> QED BY <1>1, <1>2 DEF ResolutionNext

LEMMA InitHolds ==
  ASSUME ResolutionInit
  PROVE  ResolutionInv
  <1>1. ResolutionTypes
    <2>1. SoundRun(NotStarted)
      BY NotStartedIsRun DEF SoundRun, Resolving
    <2>2. today \in Days
      BY BoundsAreNatural DEF ResolutionInit, Days
    <2>3. <<>> \in Seq(Companies)
      OBVIOUS
    <2> QED
      BY <2>1, <2>2, <2>3, NotStartedIsRun
         DEF ResolutionInit, NothingResolved, ResolutionTypes
  <1>2. QuotaInv
    <2>1. Senders = {}
      BY NotStartedIsRun DEF ResolutionInit, Senders, MaySend
    <2>2. Cardinality(Senders) = 0
      BY <2>1, FS_EmptySet
    <2>3. LetThrough[MaxDays] \in Nat
      BY <1>1, LetThroughIsNatural
    <2>4. sent = 0 /\ failures = 0 /\ \A d \in Days : counter[d] = 0
      BY DEF ResolutionInit, NothingResolved
    <2>5. sent + Cardinality(Senders) <= failures + LetThrough[MaxDays]
      BY <2>2, <2>3, <2>4
    <2> QED BY <2>4, <2>5 DEF QuotaInv
  <1>3. RaceInv /\ RaceIsLostOnce
    BY DEF ResolutionInit, NothingResolved, RaceInv, RaceIsLostOnce
  <1> QED BY <1>1, <1>2, <1>3 DEF ResolutionInv

-----------------------------------------------------------------------------
(* The theorems *)

LEMMA ResolutionIsInvariant == ResolutionSpec => []ResolutionInv
  <1>1. ResolutionInit => ResolutionInv
    BY InitHolds
  <1>2. ResolutionInv /\ [ResolutionNext]_resolutionVars => ResolutionInv'
    BY NextKeeps
  <1> QED BY <1>1, <1>2, PTL DEF ResolutionSpec

\* However many ingestions count at once, fail, are killed or are tried again,
\* and over however many days: the web is searched no more often than the days'
\* counters let through, but for the attempts that failed, and only a failure
\* leaves a counter in Redis that never expires.
THEOREM QuotaHolds == ResolutionSpec => []QuotaIsKept
  <1>1. ResolutionInv => QuotaIsKept
    <2>1. SUFFICES ASSUME ResolutionInv PROVE QuotaIsKept
      OBVIOUS
    <2>2. ResolutionTypes /\ QuotaInv /\ sent \in Nat /\ failures \in Nat
      BY <2>1 DEF ResolutionInv, ResolutionTypes
    <2>3. Cardinality(Senders) \in Nat /\ LetThrough[MaxDays] \in Nat
      <3>1. Senders \subseteq Ingestions
        BY DEF Senders
      <3> QED
        BY <2>2, <3>1, IngestionsAreFinite, FS_Subset, FS_CardinalityType,
           LetThroughIsNatural
    <2>4. sent + Cardinality(Senders) <= failures + LetThrough[MaxDays]
      BY <2>2 DEF QuotaInv
    <2>5. sent <= failures + LetThrough[MaxDays]
      BY <2>2, <2>3, <2>4
    <2> QED BY <2>2, <2>5 DEF QuotaInv, QuotaIsKept
  <1> QED BY <1>1, ResolutionIsInvariant, PTL

\* A run that loses the insertion of a company's board to another run does not
\* lose it again, however its listings spell the company: its next attempt
\* finds the row.
THEOREM RacesAreLostOnce == ResolutionSpec => []RaceIsLostOnce
  <1>1. ResolutionInv => RaceIsLostOnce
    BY DEF ResolutionInv
  <1> QED BY <1>1, ResolutionIsInvariant, PTL
=============================================================================
