-------------------------- MODULE MCParkedReviews --------------------------
(***************************************************************************)
(* Small instances for TLC of an application handed in through a parked    *)
(* form (ParkedReviews), of the job applications of the first generation   *)
(* (JobApplications), and of the export and erasure of all that is stored  *)
(* (PersonalData).  A behaviour is one of the three scenarios.             *)
(***************************************************************************)
EXTENDS ParkedReviews, JobApplications, PersonalData, TLC

CONSTANT Scenarios

VARIABLE scenario

\* One candidate, whose token spells the address in its own way, and another.
MCNormalized == [a \in {"Ada@x", "ada@x", "bo@x"} |-> IF a = "Ada@x" THEN "ada@x" ELSE a]

MCSeeds == {[id |-> "old", address |-> "ada@x", letter |-> "dear acme"]}

FirstKey == CHOOSE k \in Keys : TRUE

Held(table, id, of, cites) == [table |-> table, id |-> id, of |-> of, cites |-> cites]

\* A profile with a skill, a sent document with its history, a résumé with its
\* file, a first-generation application; and somebody else's résumé.
MCHeld ==
  {Held("user_profiles", "p1", "ada", NoOne), Held("skills", "s1", "p1", NoOne),
   Held("application_documents", "d1", "ada", NoOne),
   Held("tracked_applications", "t1", "ada", "d1"),
   Held("application_status_events", "e1", "t1", NoOne),
   Held("files", "f1", "ada", NoOne), Held("resumes", "r1", "ada", "f1"),
   Held("job_applications", "j1", "ada@x", NoOne),
   Held("consent_decisions", "c1", "ada", NoOne),
   Held("files", "f2", "bo", NoOne), Held("resumes", "r2", "bo", "f2")}

\* A second application that sent the document, an event of the first, and
\* another résumé, whose file comes first.
MCStorable ==
  {Held("tracked_applications", "t2", "ada", "d1"),
   Held("application_status_events", "e2", "t1", NoOne),
   Held("files", "f3", "ada", NoOne), Held("resumes", "r3", "ada", "f3")}

MCSubjects == {[user |-> "ada", email |-> "ada@x"]}

-----------------------------------------------------------------------------

MCInit ==
  /\ scenario \in Scenarios
  /\ Init
  /\ JobsInit(FirstKey, IF scenario = "applications" THEN Seeds ELSE {})
  /\ DataInit(IF scenario = "rights" THEN HeldBefore ELSE {})

MCNext ==
  /\ UNCHANGED scenario
  /\ \/ scenario = "parked" /\ Next /\ UNCHANGED <<jobVars, dataVars>>
     \/ scenario = "applications" /\ JobsNext
        /\ UNCHANGED <<registryVars, sessionVars, target, confirmed, dataVars>>
     \/ scenario = "rights" /\ DataNext
        /\ UNCHANGED <<registryVars, sessionVars, target, confirmed, jobVars>>

MCSpec == MCInit /\ [][MCNext]_<<scenario, vars, jobVars, dataVars>>

Symmetry == Permutations(Requests)
=============================================================================
