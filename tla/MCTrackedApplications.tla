----------------------- MODULE MCTrackedApplications -----------------------
(***************************************************************************)
(* Small instances for TLC of the two components that say what was applied *)
(* with: the tracker, and the documents stored for a posting.  They share  *)
(* no state, so a behaviour is one of the two scenarios.                   *)
(***************************************************************************)
EXTENDS TrackedApplications, GeneratedDocuments, TLC

CONSTANT Scenarios

VARIABLE scenario

\* The candidate tells a skill as a compound or by its parts, an experience
\* only in the résumé, and links a page nobody recorded the origin of.
Section(terms, source) == [terms |-> terms, source |-> source]

MCFacets ==
  {[contact |-> Section({"ada"}, "user_entered"),
    skills  |-> Section({"ci/cd", "engineer"}, "parsed_resume")],
   [contact |-> Section({"ada"}, "user_entered"),
    skills  |-> Section({"ci", "cd"}, "user_entered"),
    links   |-> Section({"ada.dev"}, "none")]}

MCReplies ==
  {[question |-> {"kubernetes"}, answer |-> {"2019"}],
   [question |-> {"sql"}, answer |-> {"skip"}]}

\* A résumé with a hollow section, a letter that claims what only an answer or
\* an unrecorded link told, and a text about the posting alone.
MCDrafts ==
  {<<{"ada"}, Rule, {"experience"}, {"led", "engineers"}, Blank,
     {"education"}, {"skills"}, {"ci/cd"}>>,
   <<{"dear", "acme"}, Blank, {"skills", "ada.dev"}, {"skill", "2019"}, Blank>>,
   <<{"acme"}, {"sql"}>>}

MCContext == {"acme", "engineer", "remote"}

-----------------------------------------------------------------------------

MCInit ==
  /\ scenario \in Scenarios
  /\ Init
  /\ DocumentsInit
  /\ scenario = "tracker" => known = CHOOSE facets \in Facets : TRUE

MCNext ==
  /\ UNCHANGED scenario
  /\ \/ scenario = "tracker" /\ Next /\ UNCHANGED documentVars
     \/ scenario = "documents" /\ DocumentsNext /\ UNCHANGED vars

MCSpec == MCInit /\ [][MCNext]_<<scenario, vars, documentVars>>

Symmetry ==
  Permutations(Requests) \cup Permutations(ApplicationIds) \cup
  Permutations(SubmissionKeys) \cup Permutations(Writers)
=============================================================================
