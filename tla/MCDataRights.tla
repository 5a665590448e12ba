---------------------------- MODULE MCDataRights ----------------------------
(***************************************************************************)
(* Small instances for TLC of what is held about the candidate: consent,   *)
(* declarations, files and erasure (DataRights) and the sections of the    *)
(* profile (ProfileEdits).  A behaviour is one of the two scenarios.       *)
(***************************************************************************)
EXTENDS DataRights, ProfileEdits, TLC

CONSTANT Scenarios

VARIABLE scenario

NewThing(section, key, name) == [section |-> section, key |-> key, name |-> name]

\* A job, and one skill in two spellings.
MCThings ==
  {NewThing("work_history", "acme 2020", "Acme"),
   NewThing("skills", "go", "Go"), NewThing("skills", "go", "go")}

\* A complete résumé, and one without a name that repeats itself.
MCReadings ==
  {[told |-> {"name", "phone", "address"}, link |-> "none",
    things |-> <<NewThing("work_history", "acme 2020", "ACME"), Unusable,
                 NewThing("skills", "go", "go")>>],
   [told |-> {"address"}, link |-> "host",
    things |-> <<NewThing("skills", "go", "Go"), NewThing("education", "bsc", "BSc"),
                 NewThing("skills", "go", "go")>>],
   [told |-> {"name"}, link |-> "broken", things |-> <<>>]}

\* No profile, or one typed in earlier.
MCPersons ==
  {NoPerson,
   [NoPerson EXCEPT !.id = Earlier,
                    !.told["name"] = Earlier, !.told["address"] = Earlier,
                    !.source["contact"] = "user_entered",
                    !.source["address"] = "user_entered"]}

-----------------------------------------------------------------------------

MCInit ==
  /\ scenario \in Scenarios
  /\ Init
  /\ EditsInit(IF scenario = "edits" THEN Persons ELSE {NoPerson})

\* A bound: where a request is cut short, another is never made.
CutShortAmongFewer ==
  (\E p \in Requests : pc'[p] = "killed") => \E p \in Requests : pc'[p] = "idle"

MCNext ==
  /\ UNCHANGED scenario
  /\ \/ scenario = "rights" /\ Next /\ CutShortAmongFewer /\ UNCHANGED editVars
     \/ scenario = "edits" /\ EditsNext /\ UNCHANGED <<rightsLocals, rightsStores>>

MCSpec == MCInit /\ [][MCNext]_<<scenario, vars, editVars>>

Symmetry == Permutations(Requests)
=============================================================================
