---------------------------- MODULE MCJobPostings ----------------------------
(***************************************************************************)
(* Small instances, for TLC, of what happens to postings and candidates    *)
(* between ingestion and the form behind a posting.  The scenarios share   *)
(* no state: an instance plays one of them with the others at rest.        *)
(***************************************************************************)
EXTENDS JobPostings, FormFilling, JobMatching, ListingResolution, TLC

CONSTANTS
  Scenarios,  \* those this instance plays
  OddRadios,  \* option labels of radios other than "yes"
  SweepsApart \* whether a sweep ends before the schedule's next one

-----------------------------------------------------------------------------
(* Fields between which every branch of the plan is taken *)

Unoffered == [exact |-> <<>>, equivalent |-> <<>>, suffix |-> <<>>,
              broader |-> <<>>]

Field(kind, label) ==
  [kind |-> kind, label |-> label, names |-> <<"none">>, autocomplete |-> <<>>,
   attributes |-> {}, required |-> FALSE, options |-> {}, own |-> "none",
   offers |-> Unoffered, short |-> FALSE]

Radio(own) == [Field("radio", {"authorized to work", "?"}) EXCEPT !.own = own]

MCFormShapes ==
  {[Field("select", {"authorized to work", "?"}) EXCEPT
      !.options = {"yes", "no"}],
   Field("text", {"authorized to work", "sponsorship", "?"}),
   Field("text", {"sponsorship", "?"}),
   Field("text", {"visa", "until"}),
   Field("text", {"gender"}),
   Field("text", {"citizenship", "authorized to work", "?"}),
   Field("text", {"citizenship status"}),
   Field("checkbox", {"sponsorship"}),
   Field("file", {"resume"}),
   [Field("textarea", {}) EXCEPT !.names = <<"none", "cover_letter">>,
                                 !.short = TRUE],
   Field("text", {"sign below", "name"}),
   [Field("text", {"name"}) EXCEPT !.attributes = {"captcha"}],
   [Field("text", {"signed by", "name"}) EXCEPT !.autocomplete =
      <<"full_name", "none">>],
   Field("password", {"password"}),
   [Field("text", {"middle name"}) EXCEPT !.required = TRUE],
   [Field("select", {"major"}) EXCEPT
      !.options = {"computing", "maths"},
      !.offers = [exact |-> [mathematics |-> "maths"],
                  equivalent |-> [cs |-> "computing"],
                  suffix |-> <<>>, broader |-> <<>>]],
   Radio("yes")}
  \cup {Radio(own) : own \in OddRadios}

\* Every field is met on a form beside one of these.
Companions == {Field("file", {"resume"}), Field("text", {"sponsorship", "?"})}

MCPages ==
  {Page({}, {}, {}, {"sign here"}),
   Page({"sessions/new"}, {}, {}, {"not a robot"})}

Declared(status, attested, sponsorship) ==
  [status |-> status, attested |-> attested, sponsorship |-> sponsorship,
   stated |-> {"citizenship_country"}]

\* Documents were generated for a job only where there was work to tell of.
ProfileOf(declared, facts, majors) ==
  [declared |-> declared, facts |-> facts \cup {"full_name", "email"},
   documents |-> IF facts = {} THEN {} ELSE DocumentSlots,
   subjects |-> [field_of_study |-> majors, minor |-> <<>>]]

MCProfiles ==
  {ProfileOf([status |-> "none"], {}, <<>>),
   ProfileOf(Declared("citizen", TRUE, "none"),
             {"education", "field_of_study"}, <<"mathematics">>),
   ProfileOf(Declared("visa_holder", TRUE, "none"),
             {"education", "field_of_study"}, <<"cs", "mathematics">>),
   ProfileOf(Declared("visa_holder", TRUE, "yes"), {"middle_name"}, <<>>),
   ProfileOf(Declared("other", TRUE, "no"), {}, <<>>),
   ProfileOf(Declared("citizen", FALSE, "none"), {}, <<>>)}

-----------------------------------------------------------------------------
(* Postings and candidates that a requirement may or may not tell apart *)

NoDemands ==
  [student |-> Unstated, degree |-> Unstated, degree_required |-> FALSE,
   clearance |-> Unstated, clearance_required |-> FALSE,
   remote |-> Unstated, locations |-> {}, authorization |-> Unstated,
   min_years |-> NoYears, max_years |-> NoYears, skills |-> <<>>,
   type |-> Unstated, term |-> [season |-> Unstated, year |-> NoYears],
   function |-> Unstated]

MCDemands ==
  {NoDemands,
   [NoDemands EXCEPT !.student = "current_undergraduate",
                     !.type = "internship",
                     !.term = [season |-> "summer", year |-> 2025]],
   [NoDemands EXCEPT !.student = "graduated", !.degree = "masters",
                     !.degree_required = TRUE],
   [NoDemands EXCEPT !.degree = "bachelors", !.degree_required = TRUE,
                     !.skills = <<"sql", "go", "sql">>,
                     !.function = "design"],
   [NoDemands EXCEPT !.clearance = "top_secret", !.clearance_required = TRUE,
                     !.degree = "masters", !.min_years = 2],
   [NoDemands EXCEPT !.remote = "on_site",
                     !.locations = {"usa", "new york, ny"},
                     !.clearance = "secret",
                     !.skills = <<"sql", "go", "sql", "ml", "c", "c", "c">>],
   [NoDemands EXCEPT !.authorization = "permanent_resident",
                     !.remote = "on_site", !.locations = {"new york, ny"},
                     !.max_years = 3]}

Unspoken ==
  [standing |-> [status |-> Unstated, in_progress |-> Unstated],
   completed |-> Unstated, clearance |-> Unstated, country |-> Unstated,
   authorization |-> Unstated, skills |-> {}, history |-> <<>>,
   wishes |-> [types |-> {}, terms |-> {}, functions |-> {}]]

MCStandings ==
  {[status |-> "not_enrolled", in_progress |-> Unstated],
   [status |-> "graduate", in_progress |-> "masters"],
   [status |-> "not_enrolled", in_progress |-> "masters"]}

MCWishes ==
  {[types |-> {"internship"}, functions |-> {"legal"},
    terms |-> {[season |-> "summer", year |-> NoYears],
               [season |-> "fall", year |-> 2025]}],
   [types |-> {}, functions |-> {},
    terms |-> {[season |-> "summer", year |-> 2026]}]}

MCCandidates ==
  {Unspoken,
   [Unspoken EXCEPT !.standing = [status |-> "graduate",
                                  in_progress |-> "masters"],
                    !.completed = "bachelors", !.skills = {"sql"},
                    !.country = "us", !.authorization = "citizen",
                    !.history = <<400, 400>>],
   [Unspoken EXCEPT !.standing = [status |-> "undergraduate",
                                  in_progress |-> "bachelors"],
                    !.completed = "high_school", !.clearance = "secret",
                    !.country = "canada", !.authorization = "visa_holder",
                    !.skills = {"go"}, !.history = <<300>>]}

MCIdentities == {"acme engineer", "acme analyst"}

-----------------------------------------------------------------------------
(* Two companies, one of them spelled in two ways *)

AggregatorListing(company, title, complete) ==
  [company |-> company, title |-> title, complete |-> complete]

MCFeed ==
  <<<<AggregatorListing("acme", "engineer", FALSE),
      AggregatorListing("beta", "analyst", TRUE)>>,
    <<AggregatorListing("ACME", "analyst", FALSE),
      AggregatorListing("beta", "engineer", FALSE)>>>>

WebResult(host, path, snippet) ==
  [host |-> host, path |-> path, snippet |-> snippet]

MCWebResults ==
  [acme |-> {<<WebResult("linkedin", <<"acme">>, TRUE),
               WebResult("lever_jobs", <<"acme">>, FALSE),
               WebResult("greenhouse_job_boards", <<"acme", "1">>, TRUE)>>},
   beta |-> {<<>>, <<WebResult("ashby_jobs", <<>>, TRUE),
                     WebResult("lever_jobs", <<"beta">>, TRUE)>>}]

Job(title, members) == [title |-> title, members |-> members]

MCBoardJobs ==
  [acme |-> <<Job("analyst", {"content"}),
              Job("senior engineer", {"absolute_url", "content"}),
              Job("engineer", {"absolute_url", "content"})>>,
   beta |-> <<Job("engineer", {"hostedUrl", "description"})>>]

-----------------------------------------------------------------------------
(* The scenarios *)

PostingsAtRest ==
  /\ NothingHappened
  /\ pc = [t \in Tasks |-> "ended"]

PassAtRest ==
  /\ shape = [c \in Controls |-> Field("text", {})]
  /\ \E s \in Signatures : signature = [c \in Controls |-> s]
  /\ shown = Page({}, {}, {}, {})
  /\ profile = ProfileOf([status |-> "none"], {}, <<>>)
  /\ page = <<>>
  /\ NothingTyped
  /\ stage = "failed"

MatchingAtRest ==
  /\ candidate = Unspoken
  /\ listed = <<>>
  /\ applied = {}
  /\ votes = <<>>
  /\ matching = [NoMatching EXCEPT !.stage = "answered"]
  /\ events = MaxEvents
  /\ appliedBefore = {}

ResolutionAtRest ==
  /\ NothingResolved
  /\ today = MaxDays
  /\ run = [i \in Ingestions |-> [NotStarted EXCEPT !.stage = "ended"]]

MatchingStart ==
  /\ \/ /\ candidate \in Candidates
        /\ \E d1, d2 \in Demands, j \in Identities :
             listed = <<Posting(d1, "acme engineer"), Posting(d2, j)>>
        /\ applied \in {{}, {[posting |-> 1, identity |-> "acme engineer"]}}
        /\ events = MaxEvents
     \/ /\ candidate = Unspoken
        /\ listed = <<Posting(NoDemands, "acme engineer")>>
        /\ applied = {}
        /\ events = 0
  /\ MatchingInit

\* Signatures and the numbers of postings are only compared.
Alike == Permutations(PostingIds) \cup Permutations(Signatures)

\* The controls are named in the order of the first reading.
InFirstOrder == SetToSeq(Controls)

\* Runs of a task are alike: it is enough that they start in one order.
InOrder == SetToSeq(Tasks)

StartInOrder ==
  \A k \in 2 .. Len(InOrder) :
    pc'[InOrder[k]] # "idle" => pc'[InOrder[k - 1]] # "idle"

OneSweepAtATime ==
  \A t, u \in Tasks :
    {pc[t], pc[u]} \subseteq {"sweeping", "sweep_reread", "sweep_flush"} => t = u

MCInit ==
  \/ /\ "background" \in Scenarios /\ Init
     /\ PassAtRest /\ MatchingAtRest /\ ResolutionAtRest
  \/ /\ "form" \in Scenarios /\ PassInit /\ page \in {<<>>, InFirstOrder}
     /\ \E c \in Controls : shape[c] \in Companions
     /\ PostingsAtRest /\ MatchingAtRest /\ ResolutionAtRest
  \/ /\ "matching" \in Scenarios /\ MatchingStart
     /\ PostingsAtRest /\ PassAtRest /\ ResolutionAtRest
  \/ /\ "resolution" \in Scenarios /\ ResolutionInit
     /\ PostingsAtRest /\ PassAtRest /\ MatchingAtRest

MCNext ==
  \/ Next /\ StartInOrder /\ (SweepsApart => OneSweepAtATime')
     /\ UNCHANGED <<passVars, matchingVars, resolutionVars>>
  \/ PassNext /\ UNCHANGED <<vars, matchingVars, resolutionVars>>
  \/ MatchingNext /\ UNCHANGED <<vars, passVars, resolutionVars>>
  \/ ResolutionNext /\ UNCHANGED <<vars, passVars, matchingVars>>

MCSpec ==
  MCInit /\ [][MCNext]_<<vars, passVars, matchingVars, resolutionVars>>
=============================================================================
