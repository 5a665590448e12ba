-------------------------- MODULE ListingResolution --------------------------
(***************************************************************************)
(* An ingestion from the job aggregator completes listings that lack a     *)
(* link or a text from the company's own board.  Which board that is costs *)
(* a web search under a daily quota counted in Redis, so a board once found *)
(* is kept in a table for good.  Several ingestions run at once.           *)
(*                                                                         *)
(* Every HTTP client makes up to MaxAttempts attempts: a connection error  *)
(* or one of a few status codes is tried again, any other refusal is final. *)
(***************************************************************************)
EXTENDS Naturals, FiniteSets, Sequences

CONSTANTS
  Ingestions,   \* runs of the ingestion task
  Feed,         \* the aggregator's pages of listings
  MaxPages,     \* how many of them a run asks for
  WebResults,   \* what a web search may return for each company
  BoardJobs,    \* the jobs each company's board lists
  DailyLimit,   \* searches a day
  MaxAttempts,  \* of one HTTP call
  MaxRetries,   \* of a failed task
  MaxDays,      \* bounds: days,
  MaxFailures,  \* and what else may fail or be killed
  NoBoard       \* no board known

VARIABLES
  boards,       \* the table of resolved boards
  counter,      \* Redis: searches counted, by day
  expiring,     \* Redis: the days whose counter has a time to live
  today,
  run,          \* where each ingestion stands
  ingested,     \* the listings stored, each with where its fields are from
  failures,     \* connections lost and workers killed so far
  sent,         \* history: search requests sent
  lost          \* history: inserts each run lost, by company

resolutionVars == <<boards, counter, expiring, today, run, ingested, failures,
                    sent, lost>>

Days == 1 .. MaxDays

-----------------------------------------------------------------------------
(* Companies, titles and boards *)

\* A company is known by its normalised name, however a listing spells it.
Normalized(name) == CASE name = "ACME" -> "acme" [] OTHER -> name

Companies == DOMAIN BoardJobs

\* The listings of the aggregator's pages.
Offered == UNION {{Feed[n][k] : k \in DOMAIN Feed[n]} : n \in DOMAIN Feed}

ASSUME IngestionsAreFinite == IsFiniteSet(Ingestions)
ASSUME BoundsAreNatural ==
         /\ {DailyLimit, MaxAttempts, MaxRetries, MaxFailures, MaxPages} \subseteq Nat
         /\ MaxDays \in Nat \ {0}
ASSUME FeedHasPages == Feed \in Seq(Seq(Offered)) /\ Feed # <<>>
ASSUME OffersNameCompanies ==
         \A listing \in Offered : Normalized(listing.company) \in Companies

\* One title inside the other is a match.
Within == {<<"engineer", "senior engineer">>}

TitlesMatch(a, b) == a = b \/ <<a, b>> \in Within \/ <<b, a>> \in Within

HostProviders ==
  [greenhouse_boards |-> "greenhouse", greenhouse_job_boards |-> "greenhouse",
   lever_jobs |-> "lever", ashby_jobs |-> "ashby"]

\* Results without a link or a snippet are dropped; of the rest the first on
\* a known host, with a path, is the board.
BoardOf(result) ==
  IF result.host \in DOMAIN HostProviders /\ result.path # <<>>
  THEN [provider |-> HostProviders[result.host], token |-> Head(result.path)]
  ELSE NoBoard

FirstBoard(results) ==
  LET usable == SelectSeq(results, LAMBDA r : r.snippet)
      known == SelectSeq(usable, LAMBDA r : BoardOf(r) # NoBoard)
  IN IF known = <<>> THEN NoBoard ELSE BoardOf(Head(known))

\* The members of each board's answer that are read as the link and the text.
Greenhouse == [link |-> {"absolute_url"}, text |-> {"content"}]
Lever == [link |-> {"hostedUrl", "applyUrl"},
          text |-> {"descriptionPlain", "description"}]
Ashby == [link |-> {"jobUrl", "applyUrl"},
          text |-> {"descriptionPlain", "descriptionHtml"}]

MembersOf == [greenhouse |-> Greenhouse, lever |-> Lever, ashby |-> Ashby]

\* A job without one or the other is none to apply for.
Openings(company, provider) ==
  SelectSeq(BoardJobs[company],
            LAMBDA job : /\ job.members \cap MembersOf[provider].link # {}
                         /\ job.members \cap MembersOf[provider].text # {})

\* The first opening with a matching title, in the board's own order.
FoundJobs(company, provider, title) ==
  SelectSeq(Openings(company, provider),
            LAMBDA job : TitlesMatch(job.title, title))

-----------------------------------------------------------------------------
(* Where a run stands *)

NotStarted == [stage |-> "idle", page |-> 1, todo |-> <<>>, attempt |-> 1,
               retries |-> 0, board |-> NoBoard, day |-> 0]

Current(i) == Head(run[i].todo)
CompanyOf(i) == Normalized(Current(i).company)

At(i, stage) == run[i].stage = stage

GoTo(i, stage) ==
  run' = [run EXCEPT ![i].stage = stage, ![i].attempt = 1]

\* The listing is done with, stored or not.
Finished(i) ==
  [run[i] EXCEPT !.stage = "listing", !.todo = Tail(@), !.attempt = 1]

\* The task fails and is queued again, from its first page, a few times.
FailedTask(i) ==
  IF run[i].retries < MaxRetries
  THEN [NotStarted EXCEPT !.stage = "fetching", !.retries = run[i].retries + 1]
  ELSE [run[i] EXCEPT !.stage = "failed"]

\* A transient failure, with attempts left: after a pause, once more.
TryAgain(i) ==
  /\ run[i].attempt < MaxAttempts
  /\ run' = [run EXCEPT ![i].attempt = @ + 1]

-----------------------------------------------------------------------------
(* The ingestion *)

StartIngesting(i) ==
  /\ At(i, "idle")
  /\ GoTo(i, "fetching")
  /\ UNCHANGED <<boards, counter, expiring, today, ingested, failures, sent,
                 lost>>

FetchPage(i) ==
  /\ At(i, "fetching")
  /\ \/ /\ run' = [run EXCEPT ![i].stage = "listing", ![i].attempt = 1,
                              ![i].todo = Feed[run[i].page]]
        /\ UNCHANGED failures
     \/ /\ failures < MaxFailures
        /\ failures' = failures + 1
        /\ TryAgain(i) \/ run' = [run EXCEPT ![i] = FailedTask(i)]
  /\ UNCHANGED <<boards, counter, expiring, today, ingested, sent, lost>>

\* The next page, if there is one and it was asked for.
TurnPage(i) ==
  /\ At(i, "listing")
  /\ run[i].todo = <<>>
  /\ run' = [run EXCEPT
               ![i].stage = IF run[i].page < Len(Feed) /\ run[i].page < MaxPages
                            THEN "fetching" ELSE "ended",
               ![i].page = @ + 1]
  /\ UNCHANGED <<boards, counter, expiring, today, ingested, failures, sent,
                 lost>>

\* A listing that is a duplicate, by company and title, is passed over.
StoreListing(i, source) ==
  ingested' =
    IF \E l \in ingested :
         l.company = CompanyOf(i) /\ l.title = Current(i).title
    THEN ingested
    ELSE ingested \cup {[company |-> CompanyOf(i), title |-> Current(i).title,
                         source |-> source]}

TakeListing(i) ==
  /\ At(i, "listing")
  /\ run[i].todo # <<>>
  /\ IF Current(i).complete
     THEN /\ StoreListing(i, "listing")
          /\ run' = [run EXCEPT ![i] = Finished(i)]
     ELSE GoTo(i, "looking up") /\ UNCHANGED ingested
  /\ UNCHANGED <<boards, counter, expiring, today, failures, sent, lost>>

-----------------------------------------------------------------------------
(* Resolving a listing *)

\* With a bug: the table is asked for the company as the listing spells it.
LookUpAsSpelled(i) ==
  LET name == Current(i).company
      known == IF name \in Companies THEN boards[name] ELSE NoBoard
  IN /\ At(i, "looking up")
     /\ run' = [run EXCEPT
                  ![i].board = known,
                  ![i].stage = IF known = NoBoard
                               THEN "counting" ELSE "reading board"]
     /\ UNCHANGED <<boards, counter, expiring, today, ingested, failures, sent,
                    lost>>

LookUp(i) ==
  /\ At(i, "looking up")
  /\ run' = [run EXCEPT
               ![i].board = boards[CompanyOf(i)],
               ![i].stage = IF boards[CompanyOf(i)] = NoBoard
                            THEN "counting" ELSE "reading board"]
  /\ UNCHANGED <<boards, counter, expiring, today, ingested, failures, sent,
                 lost>>

\* With a bug: the count before this search is compared.
MaySearchOnceMore(count) == count - 1 <= DailyLimit

MaySearch(count) == count <= DailyLimit

\* What a run does once it knows its count.
Counted(i, count) ==
  IF MaySearch(count) THEN [run[i] EXCEPT !.stage = "searching"]
  ELSE Finished(i)

\* INCR counts and tells the count in one step; the first search of a day
\* goes on to EXPIRE, under the key that was named before.
CountSearch(i) ==
  /\ At(i, "counting")
  /\ LET count == counter[today] + 1 IN
       /\ counter' = [counter EXCEPT ![today] = count]
       /\ run' = [run EXCEPT ![i] =
                    IF count = 1
                    THEN [run[i] EXCEPT !.stage = "expiring", !.day = today]
                    ELSE Counted(i, count)]
  /\ UNCHANGED <<boards, expiring, today, ingested, failures, sent, lost>>

ExpireCounter(i) ==
  /\ At(i, "expiring")
  /\ expiring' = expiring \cup {run[i].day}
  /\ run' = [run EXCEPT ![i] = Counted(i, 1)]
  /\ UNCHANGED <<boards, counter, today, ingested, failures, sent, lost>>

Search(i) ==
  /\ At(i, "searching")
  /\ sent' = sent + 1
  /\ \/ \E results \in WebResults[CompanyOf(i)] :
          run' = [run EXCEPT ![i] =
                    IF FirstBoard(results) = NoBoard
                    THEN Finished(i)
                    ELSE [run[i] EXCEPT !.stage = "saving", !.attempt = 1,
                                        !.board = FirstBoard(results)]]
        /\ UNCHANGED failures
     \/ /\ failures < MaxFailures
        /\ failures' = failures + 1
        /\ TryAgain(i) \/ run' = [run EXCEPT ![i] = Finished(i)]
  /\ UNCHANGED <<boards, counter, expiring, today, ingested, lost>>

SaveBoard(i) ==
  /\ At(i, "saving")
  /\ boards[CompanyOf(i)] = NoBoard
  /\ boards' = [boards EXCEPT ![CompanyOf(i)] = run[i].board]
  /\ GoTo(i, "reading board")
  /\ UNCHANGED <<counter, expiring, today, ingested, failures, sent, lost>>

\* Another run inserted the company's row meanwhile: nobody catches it, the
\* task fails.
SaveBoardConflicts(i) ==
  /\ At(i, "saving")
  /\ boards[CompanyOf(i)] # NoBoard
  /\ lost' = [lost EXCEPT ![i] = Append(@, CompanyOf(i))]
  /\ run' = [run EXCEPT ![i] = FailedTask(i)]
  /\ UNCHANGED <<boards, counter, expiring, today, ingested, failures, sent>>

\* The board is read again for every listing; one it cannot be read for, or
\* that is not on it, is left out.
ReadBoard(i) ==
  /\ At(i, "reading board")
  /\ \/ /\ LET found == FoundJobs(CompanyOf(i), run[i].board.provider,
                                  Current(i).title)
           IN IF found = <<>>
              THEN UNCHANGED ingested
              ELSE StoreListing(i, Head(found).title)
        /\ run' = [run EXCEPT ![i] = Finished(i)]
        /\ UNCHANGED failures
     \/ /\ failures < MaxFailures
        /\ failures' = failures + 1
        /\ TryAgain(i) \/ run' = [run EXCEPT ![i] = Finished(i)]
        /\ UNCHANGED ingested
  /\ UNCHANGED <<boards, counter, expiring, today, sent, lost>>

-----------------------------------------------------------------------------
(* Failures and time *)

Working(i) == run[i].stage \notin {"idle", "ended", "failed", "killed"}

\* Database or Redis out of reach: the whole task fails.
LoseConnection(i) ==
  /\ run[i].stage \in {"looking up", "counting", "expiring", "saving"}
  /\ failures < MaxFailures
  /\ failures' = failures + 1
  /\ run' = [run EXCEPT ![i] = FailedTask(i)]
  /\ UNCHANGED <<boards, counter, expiring, today, ingested, sent, lost>>

KillWorker(i) ==
  /\ Working(i)
  /\ failures < MaxFailures
  /\ failures' = failures + 1
  /\ run' = [run EXCEPT ![i].stage = "killed"]
  /\ UNCHANGED <<boards, counter, expiring, today, ingested, sent, lost>>

Midnight ==
  /\ today < MaxDays
  /\ today' = today + 1
  /\ UNCHANGED <<boards, counter, expiring, run, ingested, failures, sent, lost>>

NothingResolved ==
  /\ boards = [c \in Companies |-> NoBoard]
  /\ counter = [d \in Days |-> 0]
  /\ expiring = {}
  /\ ingested = {}
  /\ failures = 0
  /\ sent = 0
  /\ lost = [i \in Ingestions |-> <<>>]

ResolutionInit ==
  /\ NothingResolved
  /\ today = 1
  /\ run = [i \in Ingestions |-> NotStarted]

ResolutionNext ==
  \/ \E i \in Ingestions :
       \/ StartIngesting(i) \/ FetchPage(i) \/ TurnPage(i) \/ TakeListing(i)
       \/ LookUp(i) \/ CountSearch(i) \/ Search(i)
       \/ ExpireCounter(i)
       \/ SaveBoard(i) \/ SaveBoardConflicts(i) \/ ReadBoard(i)
       \/ LoseConnection(i) \/ KillWorker(i)
  \/ Midnight

ResolutionSpec == ResolutionInit /\ [][ResolutionNext]_resolutionVars

-----------------------------------------------------------------------------
(* What must hold *)

Smaller(m, n) == IF m < n THEN m ELSE n

\* How many searches the counters of the first d days let through.
LetThrough[d \in 0 .. MaxDays] ==
  IF d = 0 THEN 0 ELSE LetThrough[d - 1] + Smaller(counter[d], DailyLimit)

\* No more search requests are sent than the days' counters let through and
\* one more for each that failed, whoever counts at once; and only a failure
\* leaves a counter that never expires.
QuotaIsKept ==
  /\ sent <= failures + LetThrough[MaxDays]
  /\ failures = 0 =>
       \A d \in Days : counter[d] > 0 =>
         \/ d \in expiring
         \/ \E i \in Ingestions : At(i, "expiring") /\ run[i].day = d

\* Losing the race for a company's row costs a run one attempt of its task:
\* the next one finds the row, under whatever spelling its listings have.
RaceIsLostOnce ==
  \A i \in Ingestions :
    \A j, k \in DOMAIN lost[i] : lost[i][j] = lost[i][k] => j = k
=============================================================================
