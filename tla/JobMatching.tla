----------------------------- MODULE JobMatching -----------------------------
(***************************************************************************)
(* The list of roles recommended to a candidate.  One request reads the    *)
(* profile, then the active postings, then the roles applied to, and judges *)
(* one posting after the other while it waits for a written rationale;     *)
(* meanwhile the candidate edits the profile and applies, and postings come *)
(* and go.  Afterwards the candidate votes on what was recommended.        *)
(*                                                                         *)
(* A profile or a posting states some of its attributes and leaves others  *)
(* Unstated; numbers that are not stated are NoYears.                      *)
(***************************************************************************)
EXTENDS Naturals, Integers, FiniteSets, SequencesExt

CONSTANTS
  Candidates,   \* profiles a candidate may have to begin with
  Demands,      \* what a posting may ask for
  Identities,   \* company, title and location, normalised
  Standings,    \* education standings a candidate may state
  Wishes,       \* job-search preferences a candidate may state
  Scores,       \* scores that a vote may quote
  Limit,        \* how many postings a request looks at
  MaxListed,    \* bounds: postings,
  MaxEvents     \* what candidate and employers do besides asking

ASSUME LimitIsNumber == Limit \in Nat

VARIABLES
  candidate,    \* the stored profile
  listed,       \* the postings, oldest first
  applied,      \* the applications sent: their posting and its identity
  votes,        \* the feedback rows
  matching,     \* the request: where it stands and what it read
  events,       \* what happened besides it
  appliedBefore \* history: applied to when the request arrived

matchingVars ==
  <<candidate, listed, applied, votes, matching, events, appliedBefore>>

Unstated == "unstated"
NoYears == -1

-----------------------------------------------------------------------------
(* What a posting demands: disqualifying or merely preferred *)

Degrees == <<"high_school", "associate", "bachelors", "masters", "doctorate">>

Clearances == <<"public_trust", "confidential", "secret", "top_secret",
                "top_secret_sci">>

\* Nothing that is not a level ranks with the levels.
RankIn(levels, level) ==
  IF level \in ToSet(levels)
  THEN CHOOSE i \in DOMAIN levels : levels[i] = level ELSE 0

HardAuthorizations == {"citizen", "permanent_resident"}

StudentStatuses == {"current_student", "current_undergraduate",
                    "current_graduate_student", "graduated"}

JobRequirements ==
  [student : StudentStatuses \cup {Unstated},
   degree : ToSet(Degrees) \cup {Unstated}, degree_required : BOOLEAN,
   clearance : ToSet(Clearances) \cup {Unstated}, clearance_required : BOOLEAN,
   remote : STRING, locations : SUBSET STRING, authorization : STRING,
   min_years : Int, max_years : Int, skills : Seq(STRING),
   type : STRING, term : [season : STRING, year : Int], function : STRING]

ASSUME DemandsAreRequirements == Demands \subseteq JobRequirements

Hard(demands) ==
  {category \in {"eligibility", "degree", "clearance", "location",
                 "work_authorization"} :
     CASE category = "eligibility" -> demands.student # Unstated
       [] category = "degree" ->
            demands.degree # Unstated /\ demands.degree_required
       [] category = "clearance" ->
            demands.clearance # Unstated /\ demands.clearance_required
       [] category = "location" ->
            demands.locations # {} /\ demands.remote = "on_site"
       [] OTHER -> demands.authorization \in HardAuthorizations}

Soft(demands) ==
  {category \in {"degree", "clearance", "experience", "skill"} :
     CASE category = "degree" ->
            demands.degree # Unstated /\ ~demands.degree_required
       [] category = "clearance" ->
            demands.clearance # Unstated /\ ~demands.clearance_required
       [] category = "experience" ->
            demands.min_years # NoYears \/ demands.max_years # NoYears
       [] OTHER -> demands.skills # <<>>}

-----------------------------------------------------------------------------
(* Disqualifiers: only a stated fact excludes *)

Enrolled == {"undergraduate", "graduate"}

IsStated(standing) == standing.status # Unstated

\* A degree in progress, or a graduation date, belongs to an enrolment.
StandingValid(standing) ==
  standing.in_progress # Unstated => standing.status \in Enrolled

EducationStanding ==
  {standing \in [status : Enrolled \cup {"not_enrolled", Unstated},
                 in_progress : ToSet(Degrees) \cup {Unstated}] :
     StandingValid(standing)}

JobSearchPreferences ==
  [types : SUBSET STRING, functions : SUBSET STRING,
   terms : SUBSET [season : STRING, year : Int]]

CandidateProfile ==
  [standing : EducationStanding, completed : ToSet(Degrees) \cup {Unstated},
   clearance : ToSet(Clearances) \cup {Unstated}, country : STRING,
   authorization : STRING, skills : SUBSET STRING, history : Seq(Nat),
   wishes : JobSearchPreferences]

ASSUME CandidatesAreProfiles == Candidates \subseteq CandidateProfile
ASSUME StandingsAreStandings ==
         \A standing \in Standings :
           StandingValid(standing) => standing \in EducationStanding
ASSUME WishesArePreferences == Wishes \subseteq JobSearchPreferences

StudentStatusFails(profiled, demands) ==
  LET status == profiled.standing.status IN
    /\ IsStated(profiled.standing)
    /\ demands.student # "graduated"
    /\ \/ status \notin Enrolled
       \/ demands.student = "current_undergraduate" /\ status # "undergraduate"
       \/ demands.student = "current_graduate_student" /\ status # "graduate"

\* With a bug: a degree that is not finished yet counts for nothing.
CompletedOnly(completed, in_progress) == completed

HighestOf(completed, in_progress) ==
  IF RankIn(Degrees, in_progress) > RankIn(Degrees, completed)
  THEN in_progress ELSE completed

DegreeFails(profiled, demands) ==
  LET level == IF demands.student = "graduated"
               THEN profiled.completed
               ELSE HighestOf(profiled.completed,
                              profiled.standing.in_progress)
  IN /\ level # Unstated
     /\ RankIn(Degrees, level) < RankIn(Degrees, demands.degree)

ClearanceFails(profiled, demands) ==
  /\ profiled.clearance # Unstated
  /\ RankIn(Clearances, profiled.clearance)
       < RankIn(Clearances, demands.clearance)

\* Names of one country, and places that may or may not name one.
UnitedStates == {"united states", "usa", "us"}
Ambiguous == {Unstated, "new york, ny"}

Country(place) ==
  CASE place \in Ambiguous -> Unstated
    [] place \in UnitedStates -> "united states"
    [] OTHER -> place

LocationFails(profiled, demands) ==
  LET countries == {Country(place) : place \in demands.locations} \ {Unstated}
  IN /\ Country(profiled.country) # Unstated
     /\ countries # {}
     /\ Country(profiled.country) \notin countries

AuthorizationFails(profiled, demands) ==
  /\ profiled.authorization # Unstated
  /\ profiled.authorization \notin
       IF demands.authorization = "citizen" THEN {"citizen"}
       ELSE HardAuthorizations

Failed(profiled, demands) ==
  {category \in Hard(demands) :
     CASE category = "eligibility" -> StudentStatusFails(profiled, demands)
       [] category = "degree" -> DegreeFails(profiled, demands)
       [] category = "clearance" -> ClearanceFails(profiled, demands)
       [] category = "location" -> LocationFails(profiled, demands)
       [] OTHER -> AuthorizationFails(profiled, demands)}

Qualifies(profiled, demands) == Failed(profiled, demands) = {}

-----------------------------------------------------------------------------
(* Preferences: an attribute the posting leaves out narrows nothing *)

TermMatches(wanted, term) ==
  /\ wanted.season = term.season
  /\ wanted.year = NoYears \/ term.year = NoYears \/ wanted.year = term.year

WantsTerm(wishes, term) ==
  wishes.terms = {} \/ \E wanted \in wishes.terms : TermMatches(wanted, term)

Wanted(wishes, demands) ==
  /\ \/ demands.type = Unstated \/ wishes.types = {}
     \/ demands.type \in wishes.types
  /\ demands.term.season = Unstated \/ WantsTerm(wishes, demands.term)
  /\ \/ demands.function = Unstated \/ wishes.functions = {}
     \/ demands.function \in wishes.functions

-----------------------------------------------------------------------------
(* The score: the share of the soft requirements that are met *)

\* Time worked is added up job by job, in days.
ExperienceYears(profiled) ==
  IF profiled.history = <<>> THEN NoYears
  ELSE FoldLeft(+, 0, profiled.history) \div 365

\* <<met, judged>> of each kind: a level or a length of time is judged only
\* when both sides state it, every skill always.
Judged(applies, met) == IF applies THEN <<IF met THEN 1 ELSE 0, 1>> ELSE <<0, 0>>

SoftDegree(profiled, demands) ==
  Judged("degree" \in Soft(demands) /\ profiled.completed # Unstated,
         RankIn(Degrees, profiled.completed) >= RankIn(Degrees, demands.degree))

SoftClearance(profiled, demands) ==
  Judged("clearance" \in Soft(demands) /\ profiled.clearance # Unstated,
         RankIn(Clearances, profiled.clearance)
           >= RankIn(Clearances, demands.clearance))

SoftExperience(profiled, demands) ==
  Judged(/\ "experience" \in Soft(demands) /\ demands.min_years # NoYears
         /\ ExperienceYears(profiled) # NoYears,
         ExperienceYears(profiled) >= demands.min_years)

SoftSkills(profiled, demands) ==
  <<Cardinality({i \in DOMAIN demands.skills :
                   demands.skills[i] \in profiled.skills}),
    Len(demands.skills)>>

\* Halves go to the even neighbour.
Rounded(n, d) ==
  LET quotient == n \div d
      twice == 2 * (n % d)
  IN IF twice > d \/ (twice = d /\ quotient % 2 = 1)
     THEN quotient + 1 ELSE quotient

FitScore(profiled, demands) ==
  LET degree == SoftDegree(profiled, demands)
      clearance == SoftClearance(profiled, demands)
      skills == SoftSkills(profiled, demands)
      years == SoftExperience(profiled, demands)
      met == degree[1] + clearance[1] + skills[1] + years[1]
      total == degree[2] + clearance[2] + skills[2] + years[2]
  IN IF total = 0 THEN 100 ELSE Rounded(100 * met, total)

\* The sort is stable: equal scores stay newest first.
InsertByScore(ranked, entry) ==
  LET ahead == CHOOSE n \in 0 .. Len(ranked) :
                 \A k \in DOMAIN ranked :
                   k <= n <=> ranked[k].score >= entry.score
  IN InsertAt(ranked, ahead + 1, entry)

Sorted(entries) ==
  LET sorted[n \in 0 .. Len(entries)] ==
        IF n = 0 THEN <<>> ELSE InsertByScore(sorted[n - 1], entries[n])
  IN sorted[Len(entries)]

-----------------------------------------------------------------------------
(* The request *)

NoMatching == [stage |-> "idle", again |-> FALSE, profile |-> Unstated,
               catalogue |-> <<>>, known |-> {}, next |-> 1, ranked |-> <<>>]

ActiveNewestFirst ==
  LET active[n \in 0 .. Len(listed)] ==
        IF n = 0 THEN <<>>
        ELSE IF listed[n].active THEN <<n>> \o active[n - 1] ELSE active[n - 1]
      newest == active[Len(listed)]
  IN SubSeq(newest, 1, IF Len(newest) < Limit THEN Len(newest) ELSE Limit)

\* "again": recommend roles already applied to as well.
BeginMatching(again) ==
  /\ matching.stage = "idle"
  /\ matching' = [matching EXCEPT !.stage = "profile read", !.again = again,
                                  !.profile = candidate]
  /\ appliedBefore' = applied
  /\ UNCHANGED <<candidate, listed, applied, votes, events>>

ReadActive ==
  /\ matching.stage = "profile read"
  /\ matching' = [matching EXCEPT !.stage = "catalogue read",
                                  !.catalogue = ActiveNewestFirst]
  /\ UNCHANGED <<candidate, listed, applied, votes, events, appliedBefore>>

ReadApplied ==
  /\ matching.stage = "catalogue read"
  /\ matching' = [matching EXCEPT !.stage = "ranking", !.known = applied]
  /\ UNCHANGED <<candidate, listed, applied, votes, events, appliedBefore>>

\* With a bug: the posting is looked up, not the role it is for.
HasAppliedToPosting(i) == \E sent \in matching.known : sent.posting = i

HasAppliedTo(i) ==
  \E sent \in matching.known : sent.identity = listed[i].identity

Recommends(i) ==
  /\ Qualifies(matching.profile, listed[i].demands)
  /\ Wanted(matching.profile.wishes, listed[i].demands)
  /\ matching.again \/ ~HasAppliedTo(i)

\* What a posting demands does not change while the request works: it was
\* read once.  Its rationale is written by a language model or, when that
\* fails, put together from what matched.
Judge(rationale) ==
  /\ matching.stage = "ranking"
  /\ matching.next <= Len(matching.catalogue)
  /\ LET i == matching.catalogue[matching.next]
         entry == [posting |-> i, applied |-> HasAppliedTo(i),
                   score |-> FitScore(matching.profile, listed[i].demands),
                   rationale |-> rationale]
     IN /\ Recommends(i) \/ rationale = "fallback"
        /\ matching' = [matching EXCEPT
                          !.next = @ + 1,
                          !.ranked = IF Recommends(i) THEN Append(@, entry)
                                     ELSE @]
  /\ UNCHANGED <<candidate, listed, applied, votes, events, appliedBefore>>

Recommend ==
  /\ matching.stage = "ranking"
  /\ matching.next > Len(matching.catalogue)
  /\ matching' = [matching EXCEPT !.stage = "answered", !.ranked = Sorted(@)]
  /\ UNCHANGED <<candidate, listed, applied, votes, events, appliedBefore>>

-----------------------------------------------------------------------------
(* What else happens meanwhile *)

Happens == events < MaxEvents /\ events' = events + 1

\* A standing that contradicts itself is refused.
UpdateEducationStanding(standing) ==
  /\ Happens
  /\ StandingValid(standing)
  /\ candidate' = [candidate EXCEPT !.standing = standing]
  /\ UNCHANGED <<listed, applied, votes, matching, appliedBefore>>

UpdateJobSearchPreferences(wishes) ==
  /\ Happens
  /\ candidate' = [candidate EXCEPT !.wishes = wishes]
  /\ UNCHANGED <<listed, applied, votes, matching, appliedBefore>>

UpdateQualifications(clearance, completed) ==
  /\ Happens
  /\ candidate' = [candidate EXCEPT !.clearance = clearance,
                                    !.completed = completed]
  /\ UNCHANGED <<listed, applied, votes, matching, appliedBefore>>

Posting(demands, identity) ==
  [demands |-> demands, identity |-> identity, active |-> TRUE]

\* A role that was taken down may be listed again as another posting.
ListPosting(demands, identity) ==
  /\ Happens
  /\ Len(listed) < MaxListed
  /\ listed' = Append(listed, Posting(demands, identity))
  /\ UNCHANGED <<candidate, applied, votes, matching, appliedBefore>>

TakeDown(i) ==
  /\ Happens
  /\ listed[i].active
  /\ listed' = [listed EXCEPT ![i].active = FALSE]
  /\ UNCHANGED <<candidate, applied, votes, matching, appliedBefore>>

Apply(i) ==
  /\ Happens
  /\ applied' = applied \cup {[posting |-> i, identity |-> listed[i].identity]}
  /\ UNCHANGED <<candidate, listed, votes, matching, appliedBefore>>

\* The score is the one the vote says it saw; 0 to 100 is all that is checked.
Vote(score, rating) ==
  /\ Happens
  /\ matching.stage = "answered"
  /\ score \in 0 .. 100
  /\ votes' = Append(votes, [score |-> score, rating |-> rating])
  /\ UNCHANGED <<candidate, listed, applied, matching, appliedBefore>>

-----------------------------------------------------------------------------
(* Agreement of the votes with the scores, by bucket *)

BucketSize == 20
MaxBucketStart == 100 - BucketSize

\* With a bug: the best score of all starts a bucket of its own.
UnboundedBucketOf(score) == (score \div BucketSize) * BucketSize

BucketOf(score) ==
  LET start == (score \div BucketSize) * BucketSize IN
    IF start > MaxBucketStart THEN MaxBucketStart ELSE start

Tally(start, rating) ==
  Cardinality({v \in DOMAIN votes :
                 BucketOf(votes[v].score) = start /\ votes[v].rating = rating})

Agreement ==
  {[from |-> start,
    to |-> IF start + BucketSize < 100 THEN start + BucketSize ELSE 100,
    up |-> Tally(start, "thumbs_up"), down |-> Tally(start, "thumbs_down")] :
     start \in {BucketOf(votes[v].score) : v \in DOMAIN votes}}

-----------------------------------------------------------------------------

NobodyAsked ==
  /\ votes = <<>>
  /\ matching = NoMatching
  /\ appliedBefore = {}

MatchingInit ==
  /\ NobodyAsked
  /\ candidate \in Candidates
  /\ listed \in Seq({Posting(demands, identity) :
                       demands \in Demands, identity \in Identities})
  /\ applied \subseteq [posting : Nat, identity : Identities]
  /\ events \in 0 .. MaxEvents

MatchingNext ==
  \/ \E again \in BOOLEAN : BeginMatching(again)
  \/ ReadActive
  \/ ReadApplied
  \/ \E rationale \in {"written", "fallback"} : Judge(rationale)
  \/ Recommend
  \/ \E standing \in Standings : UpdateEducationStanding(standing)
  \/ \E wishes \in Wishes : UpdateJobSearchPreferences(wishes)
  \/ \E clearance \in {Unstated, "secret"}, completed \in {Unstated, "masters"} :
       UpdateQualifications(clearance, completed)
  \/ \E demands \in Demands, identity \in Identities :
       ListPosting(demands, identity)
  \/ \E i \in DOMAIN listed : TakeDown(i) \/ Apply(i)
  \/ \E score \in Scores, rating \in {"thumbs_up", "thumbs_down"} :
       Vote(score, rating)

MatchingSpec == MatchingInit /\ [][MatchingNext]_matchingVars

-----------------------------------------------------------------------------
(* What must hold *)

\* The facts of a profile that contradict a demand, each taken by itself;
\* a degree in progress and a completed one speak for each other.
Admits == [current_student |-> Enrolled,
           current_undergraduate |-> {"undergraduate"},
           current_graduate_student |-> {"graduate"},
           graduated |-> Enrolled \cup {"not_enrolled"}]

Below(levels, reached, level) ==
  /\ reached \ {Unstated} # {}
  /\ \A l \in reached \ {Unstated} :
       RankIn(levels, l) < RankIn(levels, level)

Contradicts(profiled, demands) ==
  \/ /\ demands.student # Unstated /\ profiled.standing.status # Unstated
     /\ profiled.standing.status \notin Admits[demands.student]
  \/ /\ demands.degree # Unstated /\ demands.degree_required
     /\ Below(Degrees,
              {profiled.completed} \cup
                IF demands.student = "graduated" THEN {}
                ELSE {profiled.standing.in_progress},
              demands.degree)
  \/ /\ demands.clearance # Unstated /\ demands.clearance_required
     /\ Below(Clearances, {profiled.clearance}, demands.clearance)
  \/ /\ demands.remote = "on_site"
     /\ Country(profiled.country) # Unstated
     /\ \E place \in demands.locations : Country(place) # Unstated
     /\ \A place \in demands.locations :
          Country(place) # Country(profiled.country)
  \/ /\ demands.authorization = "citizen"
     /\ profiled.authorization \notin {Unstated, "citizen"}
  \/ /\ demands.authorization = "permanent_resident"
     /\ profiled.authorization \notin {Unstated} \cup HardAuthorizations

\* Of the postings the request read, exactly those are left out that a fact
\* the candidate stated contradicts, that are of no kind the candidate looks
\* for, or whose role was applied to; the rest come best score first, and
\* newest first among equals.
RankedOnStatedFacts ==
  matching.stage = "answered" =>
    LET ranked == matching.ranked IN
      /\ ToSet(matching.catalogue) \ {ranked[k].posting : k \in DOMAIN ranked}
           = {i \in ToSet(matching.catalogue) :
                \/ Contradicts(matching.profile, listed[i].demands)
                \/ ~Wanted(matching.profile.wishes, listed[i].demands)
                \/ ~matching.again /\ HasAppliedTo(i)}
      /\ \A k, l \in DOMAIN ranked :
           k < l => \/ ranked[k].score > ranked[l].score
                    \/ /\ ranked[k].score = ranked[l].score
                       /\ ranked[k].posting > ranked[l].posting

\* A role applied to by the time the candidate asked is not recommended as
\* a new one, under whatever posting it was listed again.
NotRecommendedAgain ==
  \A k \in DOMAIN matching.ranked :
    LET entry == matching.ranked[k] IN
      listed[entry.posting].identity \in {sent.identity : sent \in appliedBefore}
        => matching.again /\ entry.applied

InBand(score, b) ==
  b.from <= score /\ (score < b.to \/ (score = b.to /\ b.to = 100))

VotesIn(b, rating) ==
  {v \in DOMAIN votes : InBand(votes[v].score, b) /\ votes[v].rating = rating}

\* The bands, [0,20) to [80,100], share out the scores: every vote falls in one
\* and no other, and a band counts exactly the votes that fall in it.
VotesFallInTheirBucket ==
  /\ \A v \in DOMAIN votes :
       \E b \in Agreement :
         /\ InBand(votes[v].score, b)
         /\ \A other \in Agreement \ {b} : ~InBand(votes[v].score, other)
  /\ \A b \in Agreement :
       /\ b.to - b.from = BucketSize
       /\ b.up = Cardinality(VotesIn(b, "thumbs_up"))
       /\ b.down = Cardinality(VotesIn(b, "thumbs_down"))
=============================================================================
