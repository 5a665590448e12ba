# ApplyFlow in TLA+

ApplyFlow prepares and sends job applications for a candidate: it ingests job
postings, keeps a profile and its sensitive declarations, tailors documents,
fills application forms in a live browser, lets the candidate review what was
filled, sends it on the candidate's click and tracks what became of it. It is a
FastAPI service over SQLAlchemy (async) and PostgreSQL, with Celery workers for
background tasks, Playwright for browsers and a language model behind a port.

This directory models the parts of it whose correctness depends on what happens
*between* two awaits (the rows that several requests or tasks read, keep for a
while and write back) and the rules that decide what is typed, sent, recommended
or kept. Paths below are relative to the repository
(`src/domain/...`, `src/application/...`, `src/infrastructure/...`).

## 1. The system: parts, state, interactions

| Part | State it keeps | Operations | What is hard about it | Modelled in |
|---|---|---|---|---|
| Portal hand-offs | `portal_handoffs` rows | raise, redetect, clear, resume, abandon | clicks and inspections overlap; `update` takes no lock; partial unique index | `PortalHandoffs` |
| Application reviews | `application_reviews` rows | open (inspect, fill, supersede, insert), revise, submit | three gates read at different times; a submission freezes what was consented to | `ApplicationReviews`, `ReviewLifecycle` |
| Application tracker | `tracked_applications`, `application_status_events` | log a submission once, move along | two tables that must agree; replays | `TrackedApplications`, `StatusWalk` |
| Generated documents, provenance guard, gap answers | `application_documents`, `answer_memories` | generate, revise, guard, store a version; answer a gap | the model invents; facts change while it writes; versions are counted, then inserted | `GeneratedDocuments`, `ProvenanceGuard` |
| Parked reviews, submit press | in-process registry, open browsers | fill and park, answer, submit, discard, deadline, evict, shut down | the lock covers one registry call, never a request; a press cannot be undone | `ParkedReviews` |
| Form planning and filling, boundary detection | handles on a live page | recognise, decide, locate, write | a handle is a position; the page re-renders; rules that answer legal questions | `FieldPolicies`, `PageBoundaries`, `FormFilling` |
| Job postings | `job_postings` rows | ingest, sweep, extract requirements | whole-row merges around network calls; scheduled tasks that coincide | `JobPostings` |
| Listing resolution, search quota | `resolved_company_boards`, Redis counter | look up, count, search, save, read the board | cache-miss races, INCR then EXPIRE, retries inside retries | `ListingResolution` |
| Job matching, ranking, feedback | `job_match_feedback`; reads profile, postings, applications | rank, vote | three reads at three times, then a slow loop; disqualifiers that must rest on stated facts | `JobMatching` |
| Consent, declarations, résumé files, erasure | `consent_decisions`, `user_profiles`, `resumes`, blob files | record consent, save sections, upload, erase | append by count; upsert on update; two stores | `DataRights` |
| Profile sections, résumé parsing | `user_profiles` and its lists | save, edit, remove, merge a parsed résumé | read-all/write-all update; who told what | `ProfileEdits`; matching's sections in `JobMatching` |
| Data export, inventory, erasure of all tables | every table with personal data | export, erase | one statement per table while others store | `PersonalData` |
| First-generation applications, column encryption | `job_applications`, keys inside encrypted columns | create, analyse, submit, list, erase, rotate, migrate | task retries; processes with different keyrings; a blind index | `JobApplications` |
| External clients, authentication, access log and log redaction, CLI, browser client, other migrations | none that a later step reads | I/O | | see section 6 |

`PROJECT.json` lists every component with its files and the reason where it is
not modelled.

How they interact. A review is opened by an inspection that may raise or clear
a **hand-off**, then a fill pass whose result becomes a **review** draft; an
open hand-off blocks both opening and submitting; a submitted review is
projected into the **tracker** under its own id as key. A **parked** form lives
only in the process that filled it. The profile's declarations need a granted
**consent** first; an **erasure** withdraws it and empties every table the
inventory names. Postings are only written by background tasks and the command
line; **listing resolution** completes what the aggregator left out of them. A
fill pass attaches the newest **generated documents**, where a field asks for one,
and types the profile's values as the **field policies** allow; the tracker files
the newest document of either kind when the form is sent.

What every write has in common (`OrmUpdate`, `WebRequests`):

* Each request has its own session at READ COMMITTED. The session holds rows
  weakly, so the `session.get` or SELECT inside a repository's `update` reads
  the row again; `update` then assigns every column from the entity, and the
  flush emits only the columns that differ from that second read. So a stored
  column ends as the entity's value if that differed from the second read, and
  is otherwise left as another request wrote it (`Written`). No row carries a
  version, no use case takes a lock.
* An UPDATE that matches no row raises `StaleDataError`; a unique index raises
  at the flush. Both roll back, and the request answers with an error.
* The tracker's `update` runs a count query before its INSERT; autoflush emits
  the row's UPDATE first (its `updated_at` always differs), and the row lock
  makes UPDATE, count, INSERT and COMMIT one step to everyone else.

## 2. Modules

| Module | Content |
|---|---|
| `WebRequests` | requests, where each stands (`pc`), being cut short, and the history variable `overlapped` |
| `OrmUpdate` | what one column holds after `update` |
| `PortalHandoffs` | hand-offs of one candidate and posting |
| `ApplicationReviews` | reviews over those hand-offs, with the projection into the tracker |
| `ReviewLifecycle` | abstract: what the candidate is promised about a review |
| `TrackedApplications` | tracker rows and histories |
| `StatusWalk` | abstract: the walk of one application |
| `ProvenanceGuard` | what of a generated text is kept (operators only) |
| `GeneratedDocuments` | writing, guarding, storing, filing; extends `ProvenanceGuard` |
| `ParkedReviews` | registry of open browsers, the gates and the press |
| `JobApplications` | first-generation applications, keys, restarts, migrations |
| `PersonalData` | inventory, export and erasure of every table |
| `JobPostings` | ingestion, staleness sweep, requirement extraction |
| `FieldPolicies`, `PageBoundaries` | the rules of a field and of a page (operators only) |
| `FormFilling` | one fill pass over a live page; extends both |
| `ListingResolution` | ingestions that resolve listings at once |
| `JobMatching` | one request for recommendations, and the votes |
| `DataRights` | consent ledger, declarations, résumé files, erasure |
| `ProfileEdits` | sections, lists and the merge of a parsed résumé |
| `MC*` | the small instances for TLC |
| `*_proofs` | theorems, each module extending those it is about. Some share one: hand-offs and reviews (`ApplicationReviews_proofs`); tracker and documents (`TrackedApplications_proofs`); data rights, profile edits and personal data (`DataRights_proofs`); postings, recommendations and votes (`JobPostings_proofs`) |

An `MC` module may hold several components that share no state. A behaviour is
then one *scenario*: its initial state chooses which component runs, the others
stay at rest, and every invariant and action property is checked in all of them.
`MCTrackedApplications` has the tracker and the documents, `MCParkedReviews` the
parked forms, the first-generation applications and export with erasure,
`MCJobPostings` the background tasks, the form pass, matching and listing
resolution, `MCDataRights` the data rights and the profile edits.

**Granularity.** One action is what runs between two points where the event
loop can serve someone else: a database round-trip that reads or commits, a
browser or network call. What the code does without an await in between is one
action. `pc[p]` names the await where a request stands. A request is made once;
a user who retries is another request.

**Overlap.** A FastAPI handler is not protected against another one for the
same candidate. Several of the code's promises hold when a candidate waits for
each answer before the next click, and not when two requests overlap.
`overlapped` becomes true when a request arrives while another is in flight,
and `Serially(P)` is `~overlapped => P`. Properties stated without it hold
under every interleaving. Handlers are not cancelled when a client disconnects,
so `CutShort` stands for a killed worker or a dropped connection: the last
commit stands, nothing further happens.

**PortalHandoffs ↔ code.** `handoffs[i]` is a row; `hWant[p]` the entity a
request will store, `hRead[p]` the second read. `BeginInspection`,
`InspectionStops/StopsAgain/Clears/FindsForm/Fails` are
`InspectApplicationPortal.execute` on what the detector may find;
`RaiseHandoff` and `RaiseHandoffConflicts` are `add` and its unique index;
`ResolveHandoff` is resume and abandon; `RereadHandoff`, `FlushHandoff` are
`update`. Which signals a page shows is nondeterministic.

**ApplicationReviews ↔ code.** `BeginInspection(p, TRUE)` starts the handler
that inspects, fills and then runs `OpenApplicationReview`: `OpenDecide` or
`OpenHandedOff`, `Supersede` (one committed DELETE), `AddReview`.
`Revise` is read, entity move and no await between; `SubmitRead`,
`SubmitDecide` are the two reads of `SubmitApplicationReview` with
`record_submission`; `FlushReview` commits and for a submission goes on to
`LogSubmission`, whose failure is swallowed (`LogSwallowed`).

**TrackedApplications ↔ code.** `LogStart`/`AddApplication` are
`SubmittedApplicationLog` and `add` (row and first event in one transaction);
`MoveStart`, `MoveDecide` are the two SELECTs of `get_by_id` with
`change_status` (a torn read is refused by the entity); `RereadApplication`,
`FlushApplication` are `update`. The DRAFT status, which no request reaches,
and the insert branch of `update` are left out.

**ParkedReviews ↔ code.** `parked` is the registry's order, `overdue` those
past their deadline (all deadlines have the same length, so they pass in
parking order), `browser`, `form`, `report` what each review holds. Every
registry call is one action: its lock is held throughout, and
`PlaywrightBrowserSession.close` marks the session closed before its first
await. A browser is named after the request that opened it. `presses[s]`
records who clicked the submit control. `PressRaises` is a click that raises
after the page took it: the code cannot tell it from one that did nothing,
reports that nothing was sent and leaves session and handles as they are.
`raised` remembers it, and the properties about presses say what still holds.

**JobPostings ↔ code.** A member of `Tasks` is one run of one Celery task (or
of the command line). Which active postings are due and how old they are is
nondeterministic. `ItemFails` covers every way one posting of a batch can fail.
The sweep (every six hours) and the extraction (every ten minutes) start in the
same minute, and nothing stops a run from meeting the next one of its own task:
runs of all three tasks overlap in any number and any order. Three history
variables say what they did to each other: `streak`, the recorded checks of a
posting that failed in a row; `basis`, each posting as the table had it when a
run read it; `outdated`, the postings that some run stored over what a sweep had
changed since that run read them, or since its merge did.

**DataRights ↔ code.** One candidate, the purpose of storing sensitive
attributes, one policy version. `arrived[p]` is `decided_at`: the controller
takes the time before anything is read. `CountDecisions`/`InsertDecisions` are
the two statements of `ConsentRepositoryImpl.save`. A profile is named after
the request that created it, its declarations after the request that stated
them, so that a stale copy is recognised when it comes back. `contact` stands
for every section save without declarations. Of the tables an erasure empties,
profile and résumés are followed here, with its DELETEs and COMMIT as one step;
`PersonalData` takes them apart.

**GeneratedDocuments, ProvenanceGuard ↔ code.** A text is a sequence of lines, a
line the set of its terms; `Drafts` are what the language model may write and
`Facets` what the profile may say. `BeginWriting` and `ReadAnswers` are the
reads of the fact assembler, `Generate...`/`Revise...` the use cases from the
model's answer through formatter and guard to the archive, `CountVersions` and
`AddDocument` the count and the insert under the unique key. `FillForm` begins a
pass over a form; `AskForDocument` is one field of it that wants a kind of
document: `_DocumentSource` fetches the newest version once per kind and pass, and
the document is attached or, too long or refused by the page, not (`MayTake`). A
form may ask for either kind, several times or never, and its pass may fail.
`FileSubmission` files the newest of both kinds whatever was attached. `changed`
holds the kinds of which a version came or went since the pass fetched them,
`said` is the history of every fact ever told, `undercut` of an erasure that overtook a counted version.

**FieldPolicies, PageBoundaries, FormFilling ↔ code.** A label is the set of the
phrases found in it, and rules with one outcome are one rule, since only their
order decides; `Plan` is `AtsFormFieldPlanner._plan_field`. A page is the words
in its address, elements and text, and `Boundaries` and `HardStops` are its two
readers. `ReadFields` takes the snapshot, `ScanBoundaries` decides whether to go
on, `Locate` compares the signature at a handle's position and `Write` types at
that position; `PageMoves` re-renders the form at any await. A signature is what
the code's is: tag, type, name and id, of which several controls may have the
same (`Twins`, with `SignaturesSpellMarkup`: the kind and the names of a field are
part of it, its label is not). `SameSignature` compares signatures, never the
controls themselves, so a twin that a re-rendered page puts in a control's place
passes the check. `BeginAnswer` and
`FinishAnswer` are the candidate answering a field of the parked form.

**ListingResolution ↔ code.** `run[i]` is one ingestion task between its awaits:
a listing lacking link or text goes through `LookUp`, `CountSearch` (INCR),
`ExpireCounter`, `Search`, `SaveBoard` and `ReadBoard`. Attempts of an HTTP call
and retries of the task are counted separately, as in the code. A connection may
be lost or a worker killed at each await, and midnight changes the counter's key.

**JobMatching ↔ code.** `BeginMatching`, `ReadActive`, `ReadApplied` are the
three reads of `RankMatchedJobPostings`, `Judge` one posting with its rationale,
`Recommend` the sort. The candidate and the employers act in between.
`Contradicts` states anew, from the stated facts, when a posting is out of reach.
The score counts what is met of what is judged; where the code sorts by score,
stably, `Sorted` inserts each entry behind those that score as much.

**ProfileEdits ↔ code.** Values stand for who told them, a skill or job for its
normalised key and its spelling. `ReadPerson` loads the entity and applies the
use case; `RereadPerson` and `FlushPerson` are `update`, `AddPerson` is `add` of
a parse without a profile. A row with a value and no recorded source cannot be
loaded (`Readable`).

**JobApplications ↔ code.** Every stored value names the key and column it was
encrypted for. `loaded[by]` is the keyring a process read when it started,
`keyring` the configured one; the operator introduces, retires and restarts in
any order the comment of `encryption_keyring.py` allows: a key is retired when no
stored value is under it and every process has loaded the present keyring. `GetForUpdate` and
`CommitApplication` are the two statements of the repository's `update`; a
worker's analysis is tried `MaxTries` times.

**PersonalData ↔ code.** `Inventory` is the list of categories with their tables
and what becomes of each; `ReadTable` is one SELECT of an export,
`ReadFileKeys` and `DeleteStoredFile` the files an erasure deletes first, by the
keys it read once, `DeleteRows` one category's statements with what goes with
their rows, and `CommitErasure` the COMMIT. `Store` is any other request that adds
a file or a row meanwhile: its foreign keys must be met, and it waits for what
another transaction has deleted.

Operators commented "With a bug" are plausible mistakes in the code that the
properties must notice; nothing in a specification uses them.

## 3. Runs

Distinct states are under the stated bounds and symmetry.

| Run | Asks | Bounds | Result |
|---|---|---|---|
| `reviews` | hand-offs and reviews under all interleavings and kills | 4 requests, all of which may be killed; 2 hand-off and 2 review ids; a sensitive and a plain field; 1 value | holds, 101k |
| `reviews_fair` | does every submission reach the tracker when nothing fails? | 3 requests, no kills, fairness | holds, 41k |
| `reviews_consent` | is every submitted review consented to, overlaps included? | 4 requests, 1 hand-off id, 2 review ids, kills | violated |
| `tracker` | histories, uniqueness, refinement of `StatusWalk`; what is stored, numbered and filed as a document | 4 requests, 2 ids and keys; 2 writers, 3 drafts, 2 profiles, 2 answers, 2 things the candidate does meanwhile, a form asking for any documents | holds, 50k |
| `tracker_status_split` | status and history agree under overlap? | 4 requests, no kills | violated |
| `parked` | registry and press, with a crash and a click that raises; readability under rotation; reach of export and erasure | 4 requests, 2 candidates, 1 posting, 2 fields, capacity 2; 2 keys, 2 processes, 3 migrations, 2 requests to applications and 2 to data rights, over 11 rows and files with 4 more that others store meanwhile, a résumé and its file among them | holds, 709k |
| `parked_pressed_unreported` | is a press always answered as one? | same registry, no crash | violated |
| `postings` | background tasks overlapping in any way; a form pass; a match request; ingestions that resolve at once | 4 runs of any task, killed ones included, 2 ids, 1 listing, threshold 2; 16 fields two at a time with one signature or two, 6 profiles, 1 re-rendering; 7 kinds of posting, 3 candidates, 2 events; 2 ingestions, 2 companies, 2 searches a day, 2 days, 1 failure | holds, 510k |
| `postings_resurrected` | one-way status, sweeps kept apart from each other? | 3 runs, 1 posting | violated |
| `forms_radio_inverted` | does a legal answer select the radio that says it? | 2 controls, one re-rendering | violated |
| `rights` | ledger, declarations, files, erasure; section saves and parses | 4 requests of any kind, or 3 of which one is killed; 3 edits, 3 résumés | holds, 980k |
| `rights_dropped_decision` | is a withdrawal answered as recorded in the ledger? | 4 requests, no kills | violated |

Why the bounds suffice. The races of this code need an entity read by one
request and a commit by another; the longest interesting one needs two writers
over a reader (three requests after one that created the row), so four requests
reach every shape of it, and each instance lets the row be created, updated,
resolved or deleted and created again. Two identifiers are what it takes for two
open rows to be possible. Capacity 2 lets the registry evict with a survivor;
threshold 2 separates one failure from enough failures. With one more review
inserted than there are identifiers the inserting request can only be killed,
which is why `reviews_fair` has as many identifiers as requests. The number of
kills is a bound (`MaxKilled`; positive, it also enables `Crash`, `PressRaises`
and `LogSwallowed`): a killed request behaves like one that never moves again, so
one kill already stands for most others.

Four runs over two postings hold two sweeps around an extraction, or two
ingestions that store one listing twice and two tasks over the result; with
one listing both postings come from ingestions that overlapped. The run that shows
the resurrection keeps sweeps from overlapping (`SweepsApart`), so that its trace
is the pair the schedule starts together; `postings` does not.

Two writers suffice for the documents: a lost insert needs two that counted the
same. The fields of a form are planned one by one and meet only on the page, so
two controls, told apart by the check or not, show every confusion of one with another; the shapes are chosen so
that every branch of the plan is taken, each beside a document and a legal
question. Two ingestions, a company spelled in two ways and a limit of two
searches let the cache, the quota and the unique key each be raced for, and the
second day shows what the counter's key does. A rotation needs two keys and a
process that still has the old one. Two requests to data rights are an erasure
or export with another one or a writer in between.

**Properties that hold under every interleaving.** `OneOpenHandoff`,
`OneOpenReview`, `SupersededStaysGone`, `OneRecordPerSubmission`,
`HistoryIsLegalWalk`, `ImplementsStatusWalk`, `StoredIsAttested`,
`ResumesReadWhole`, `OneReviewPerForm`, `OpenBrowsersAreHeld`,
`PressesAreInformed`, `LedgerTellsTheStory`, `FoundByItsCandidate`,
`LegalAnswersAreTrue`, `RankedOnStatedFacts`, `ReturnsByAnOlderReading`,
`NotRecommendedAgain`, `VotesFallInTheirBucket`, `QuotaIsKept`, `RaceIsLostOnce`
and, under fairness, `SubmittedIsTracked`. These are what the unique indexes, the
registry lock, the append-by-count, the guard and the atomic INCR are there for.
`LedgerTellsTheStory` is about one version of the policy: under a new one the code
records a repeated grant, which changes the version and not the answer.

**Properties with a named exception**, which the code does not close:
`RequestsReachEverything` but for a file whose résumé was stored after an erasure
began (`LeftBehind`: the erasure may take the row and leave the file, and then
neither an export nor a second erasure finds it);
`VersionsCountUp` but for an erasure that overtakes a writer who has counted;
`AttachedIsFiled` but for a version stored, or an erasure, between fetching and
filing, and in one direction only: the tracker names what the form carries, and
possibly a letter it does not; `ReportMatchesPage` and the typing part of
`HumanOnlyIsLeftAlone` but for a page that re-renders between the signature check
and the write (`slipped`), and for a control that shares its signature: a value
may land in a twin of its own control, and in a field only a human may answer when
its twin is an ordinary one; `DeadOnEvidence` but for a posting that is `outdated`,
`RequirementsAreKept` but for a sweep that read the posting before they were there;
`PressedOnce` and `PressIsReportedSerially` but for a click that raised.
`QuotaIsKept` allows one request more for each that failed.

**Properties that hold until requests overlap.** `HandoffsReadable`,
`ResolvedOnce`, `TrackedWasSent`, `FrozenOnceSubmitted`, `ImplementsLifecycle`,
`StatusMatchesSerially`, `PressedOnce`, `PressIsReportedSerially`,
`StoredUnderGrant`, `ErasedStaysErased`, `EveryFileIsNamed`, `OnlyWhatWasAsked`.
They say that no sequence of requests, kills included (but for the files), leads
to a wrong state, and nothing about two at once. Where two at once do break them
and nothing in the code stands against it, the hazard is listed in `PROJECT.json`
with that as its note and no property.

**Six disagreements** between the code and what it says of itself have a run
of their own, with the quoted line in `PROJECT.json` under "findings". Five make
a promise without a condition while the check behind it runs on what was read
before another request commits; the sixth (`forms_radio_inverted`) is a comment
on radios that the browser harness does not keep. In `postings` no radio says
"no" (`OddRadios` is empty), so `LegalAnswersAreTrue` is about what is answered,
and this run about where it lands.

**Known limits met on the way**, which no run asserts. Two are about résumé
files, and the properties state them as their exceptions. An erasure reads the
storage keys once, before it deletes the first file, and an upload that commits
before the rows are deleted ends as a file without a row (`LeftBehind`), which
is what the module comment of `personal_data_store_impl.py` (lines 25-31) has the
order chosen to rule out. And an upload killed between `storage.save` and its
commit leaves a file too, although the repository's README (lines 513-514) says a
crash never does: its cleanup is an except clause, which a killed process does
not run. An encrypted column keeps
its key until its value changes, since `update` emits only changed columns, so
a key may stay in use although its row was written, where the comment of
`encryption_keyring.py` (lines 12-13) has rows re-encrypt whenever they are next
written. A save of address or links that
overlaps a clear of the same section leaves a value without a recorded source,
which no later request can load. Two listings ingested at once are stored twice. A
label "citizenship status" is answered Yes or No by the rule on work
authorization, and one that names citizenship together with authorization to
work gets the country of citizenship: the mapper refuses two legal questions in
one label only for authorization with sponsorship, on purpose
(`ats_field_mapper.py`). `LegalAnswersAreTrue` reads both labels
as the rules do, so it neither excuses nor refutes these readings. Two more are
exceptions of the properties about a form. `_locate` of the browser harness is
there to refuse "to hand back one that is no longer the field it describes", and
cannot see that a control of the same signature has taken the place: inputs of one
type without name and id are all alike to it. And
`submitted_application_log.py`, which speaks of "the documents that were actually
sent" (lines 73-74), files the newest cover letter with every submission that has
a tailored résumé, one whose form had no field for a letter, or refused the file,
included.

**Fairness.** `FairSpec` has weak fairness of each request's own progress and
of nothing else: the event loop keeps serving a request that was started. No
fairness is assumed of arrivals, of kills, or of deadlines. `MaxKilled = 0` also
keeps the tracker from failing (`LogSwallowed`): a projection that fails is
swallowed by the code, and then nothing ever logs that submission.

## 4. What is proved

Every theorem is about the specification itself: any finite set of requests, any
identifiers, fields, values, keys, listings, drafts and bounds. Each rests on an
inductive invariant that TLC evaluated on the small instance before it was
proved. The proof module of a component has one lemma per action and one step
per conjunct an action can disturb.

**`ApplicationReviews_proofs`, hand-offs.** Types (`HandoffTypeCorrect`); at most
one open hand-off under every interleaving (`AtMostOneOpenHandoff`: every write
of an open row passes the index, so the invariant only needs the types and that
an updating request knows its row); resolved rows are never rewritten and every
row is readable until requests overlap (`ResolvedOnceSerially`,
`HandoffsSoundSerially`). `SerialInv` says that at most one request is in flight,
that what an updating request will store is sound, that its row is still open,
and that its second read is the row as stored: with it the flush writes exactly
the entity. `HandoffsHoldBesideReviews` carries both results over to the
specification in which opening a review inspects the portal too.

**`ApplicationReviews_proofs`, reviews.** Under every interleaving: types; at most
one review in progress; a superseded draft never comes back. The key fact is
that every change of the table is either the one DELETE or one row assigned
through the index over a row that is not deleted. Until requests overlap
(`SerialReviewInv`): what a request will store is one move of the candidate on
the row as it stands, a submission holds a consented review behind a portal
without open hand-off, and every tracked key is a submitted row. From it follow
`FrozenSerially`, `TrackedWasSentSerially` and the refinement
`ReviewsImplementLifecycle`: initial states map to initial states, and each
action maps to a step of `ReviewLifecycle` or to a stutter.

**`TrackedApplications_proofs`.** Types; one record per submission; every history
a legal walk; the refinement of `StatusWalk`; status and history agree until
requests overlap. Inductive for the walk: the history a moving request carries
is a legal walk whose all but last entries are a prefix of what is stored,
and stored histories only grow (`FlushedHistory` shows that a flush leaves
either what was stored or what was carried).

**`ParkedReviews_proofs`.** `ParkedInv` holds under every interleaving, crash and
deadline: no form is parked twice and the registry is within its capacity
(`RegistryIsBounded`); the open browsers are those parked and those a pass still
fills (`NoBrowserLeaks`), which needs that a parked review's pass has ended; and
a request about to press holds a form that is complete and approved, so
`EveryPressIsInformed`. `SerialParkedInv` adds that a form that took a press keeps
its browser only while its presser is on the way to release it, whence
`FormsArePressedOnce` and `PressesAreReported`.

**`DataRights_proofs`.** Types; the ledger is in the order decisions were made and
each changes the answer (`LedgerIsSound`, for the one version of the policy the
module has). Inductive: the copy a saving request
carries is one decision longer than a prefix of the ledger that it may follow,
and what it found stored is at least that prefix, so the rows it inserts are
its own decision or none. With `SerialRightsInv`, until requests overlap: nothing
erased returns (`ErasedIsGone`), every file has its row between requests, kills
aside (`FilesAreNamed`), and declarations are stored only under a grant
(`DeclaredUnderGrant`): the profile a request carries is the stored one with its
own edit, and a grant it found is the ledger's last word when it saves.

**`DataRights_proofs`, profile edits.** `EditsTypeCorrect` holds under every
interleaving. `EditsStayWithinTheirSection` needs more than the property says of
one flush, since it compares the table before and after: `SerialEdits` says that
one request at most is at work, that a stored profile has a name, that what a
request will store keeps everything it is not about, can be read again and (of a
parse) repeats no entry (`Keeps`, one lemma per kind of edit), and that its second
read is the table as it stands, so that the columns the flush leaves alone are
those it would have written.

**`DataRights_proofs`, export and erasure.** `RightsReachEverything` assumes
nothing about who overlaps whom, nor that a request survives. `DataInv` says of
each export what it has not copied yet is gone or ahead in its plan
(`ExportGoesOn`), of each erasure that what it has not deleted is under a category
ahead in its plan (`ErasureGoesOn`) or among the files still to delete
(`FilesAreRead`). For a row to be found by its parent, parents must be there
(`ParentsAreHeld`) and go together with their children (`DeletesItsOwn`); for a
file to be found, its résumé must not have gone before it, which can only be
another erasure's doing (`FilesKeepTheirRows`, with the exception `LeftBehind`);
that nobody else loses anything needs that an erasure's files and rows are its
subject's (`BlobsAreItsFiles`, `DeletesItsOwn`). The lemmas about the inventory
(`TablesAre`, `ErasuresCover`, `ReadsCover`) show that its categories name every
table, that erasers and readers cover them, and that only the consents are kept.

**`TrackedApplications_proofs`, documents.** No condition on who overlaps whom.
`StoredTextIsAttested`: the lines the guard keeps, with or without hollow
sections, are lines it checked against the facts the request had read, those
facts are among all that was ever told, and what is told stays told.
`VersionsAreCounted`: a request that counted found at most as many versions as
there are, so a number that is free at its insert is the next one; an erasure is
the only step that takes versions away. `WhatWasAttachedIsFiled`: whatever a form
carries is what its pass fetched, once per kind (`FiledInv`), and until a version
comes or goes that is the newest of its kind, which is what is filed.
`ResumesAreWhole`: from the moment it is guarded every heading of a résumé has a
body (`ReadableInv`; dropping hollow sections leaves no new one hollow), and lemma
`ReadWhole` shows of any such text that the parser's sections, put one after the
other, are its lines but for headings and blanks.

**`FormFilling_proofs`.** For any form, candidate, vocabulary and page script.
`PassInv` says where the pass stands against what it has done (`StagesInOrder`),
that what it is about to write may be written and is what it looked at
(`WritesWhereItLooked`), that every report follows from the plan for that very
field (`ReportsThePlan`) and, unless the page slipped away under a write, that
what is reported filled is there if its control is `Unmistakable`, that nothing was
typed but into a twin of a field reported so, and that nothing was typed where a
control and its twins are all for a human (`ReportIsTrue`,
`HumanOnlyFieldsAreLeft`). Nothing is assumed of signatures but that they spell the
kind and the names of a field: a page on which all inputs are alike is covered. The
lemmas behind it are about the rules: whatever only a human may answer is never
planned as a value (`HumanIsAsked`), and every such label stops the inspection of
a portal (`HumanIsHardStop`): two vocabularies that are kept in two modules.
`LegalAnswersHold` goes through the ordered rules: a question of law is recognised
as one by its label (`LabelAsks`, `SensitiveByLabel`) and answered from the
declaration alone (`DecidedByDeclaration`, `LegalPlan`).

**`JobApplications_proofs`.** `ApplicationsAreFound`, through rotations, restarts,
migrations in both directions and kills. `JobsInv`: every stored value is bound to
its column and under a configured key, or plain where its migration has not run;
whatever a process signs with is configured; and there is one address per
application that its row and every copy in flight agree on, so that a row
written back is still found by it.

**`JobPostings_proofs`.** Nothing is assumed about which runs overlap. `GoneForGood`:
a posting that left the active set only comes back by a run that read it active,
and that stores this reading over a merge which has just found it gone, the one
way the code leaves open. `DeadLinksAreProven`: a flag without evidence needs a run
that stored over a sweep's change. `ExtractedOnce`: requirements are lost only to a
sweep that read the posting before they were there. `OverlapInv`: a run only has
stored postings in hand; what it is about to store is what it makes of the posting
it read (`MadeOfBasis`), so that a column a flush changes is that column of its
reading, or the one it is there to change; and a posting that is not `outdated` has
no more failures on its row than failed checks in a row on record (`CountsHold`).

**`JobPostings_proofs`, recommendations.** `RankingFollowsFacts` and
`NothingAppliedToIsNew` hold whatever is edited, listed, taken down or applied to
while a request works. The lemma `OnlyFactsDisqualify` shows, requirement by
requirement, that who is disqualified is exactly who a stated fact contradicts
(`Contradicts` against `Qualifies`). `MatchingInv`: the catalogue is newest first;
what is recommended are the postings judged so far that qualify, with their
application told, in the order they were judged in until they are sorted; and
what was applied to at the start is among what the request read. A posting that
is listed or taken down leaves the others' demands and identity alone, so a
request in flight keeps its sense (`BesidesMatching`); inserting by score behind
equal scores keeps the order and the entries (`InsertedByScore`).
`VotesAreTallied`: the band a score is put in is the one it lies in, 100 included
(`BucketHoldsScore`), so the bands share out the votes.

**`ListingResolution_proofs`.** `QuotaHolds`: every search sent was let through by
a counter or belongs to an attempt that failed, by counting the runs that stand
between INCR and search, over any number of days. `RacesAreLostOnce`: the company
a run lost the race for has its row for good.

**Recursion.** `Without` (queue of parked forms), `LetThrough` (searches the days'
counters allow), `KeptAt` (lines of a text at some places), `Structured` and
`Exported` (a résumé parsed and put together again), `Sorted` and
`ActiveNewestFirst` (recommendations) and `Reads` (the statements of an export)
are recursive functions. What the proofs
need of them, that they are defined, keep order and type and hold exactly the
chosen members, is proved by the least counterexample:
the set of lengths where it fails has a least element (`WFMin` on `<` of the
naturals), which the recursion contradicts.

**Assumptions** are the constants' named ASSUMEs, which TLC evaluates in the runs.
`NoOneIs...`, `NullIs...`: NULL is not an identifier, key or stored value.
`RequestsAreFinite`, `IngestionsAreFinite`: what is counted is finite.
`MaxParkedIsPositive`, `DeadLinkAfterIsPositive`: the settings are 8 and 3;
nothing validates them, and a registry for no review at all could park none (its
eviction loop would look for the oldest of none). `BoundsAreNatural`: limits and
attempts are counts. `RequiredFields`, `SensitiveFields`: kinds of fields are
fields. `NormalizedIsAnAddress`, `OffersNameCompanies`: normalising yields an
address or a company. `SeedsAreApplications`, `FeedHasPages`, `DraftsAreTexts`:
the data there is to begin with has its shape. `CandidatesAreProfiles`,
`DemandsAreRequirements`, `StandingsAreStandings`, `WishesArePreferences`: profiles
and demands have the fields and levels of their classes. `LimitIsNumber`: a
request looks at a natural number of postings. `ShapesAreFormFields`,
`ProfilesAreCandidates`, `ControlsAreFinite`: fields and candidates of a form have
their shape (an education has a field of study where the profile says it has),
and a page has finitely many controls. `PersonsAreNamed`, `ThingsAreThings`,
`ReadingsAreReadings`, `NoOneIsNoSource`: earlier profiles have a name, which is a
NOT NULL column, and entries and parses have their fields. `RowsAreOfTheSchema`,
`RowsAreKeyed`: what is held is in a table of the schema or a file, under an id of
its own (fresh UUIDs). `NothingIsMissing`: foreign keys hold of the rows there are
to begin with. `FilesAreNamedOnce`: every upload draws a new storage key, so a
file is of one résumé and of its candidate. Of these, that every table with
personal data is in the inventory (`RowsAreOfTheSchema`) is what the repository's
own tests compare with the schema; the theorem does not show it.

**Only model-checked.** `SubmittedIsTracked`: liveness under fairness is beyond
the proof system. Every other property of a passing run is stated by a theorem.
The violated promises have none, of course; where the code keeps them until
requests overlap, the serial form is proved.

## 5. Plan

What could follow, in the order of what it would say about the system:

1. Ingestion composed with listing resolution, so that a resolved listing is the
   row the sweep later reads.
2. Parked reviews composed with form filling, so that what a field still needs is
   computed from the page rather than abstracted to a set of fields.

## 6. Left out, and why

* How prose is split into terms, how similar two questions are, and what the
  language model makes of a description, a résumé or a gap depend on wording and
  models; their results are nondeterministic choices or given sets.
* Clients of external services are pure I/O but for their attempts, which
  `ListingResolution` has; their failures are outcomes of the actions that call
  them. Rendering of PDFs, screenshots and the scripts run inside a page produce
  or read what the models take as given.
* Authentication is stateless. The log of accesses to sensitive values and the
  redaction of log lines are read by no later step.
* The command line starts the same use cases in a process of its own: one more
  ingestion. The browser client decides only which requests are sent and when,
  which the models leave open.
* Migrations but for 0021 and 0023 create tables and columns offline.
* The contents of the other tables are not followed through an erasure: rows are
  stored, cited, copied and deleted, and `DataRights` and `ProfileEdits` follow the
  columns of the profile.
