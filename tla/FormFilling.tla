----------------------------- MODULE FormFilling -----------------------------
(***************************************************************************)
(* One pass over a portal's form in a live browser: the page is opened,    *)
(* its fields are read, its boundaries looked for, each field planned and  *)
(* filled in turn, and the filled form left to the candidate, who may      *)
(* answer further fields in the same browser.                              *)
(*                                                                         *)
(* The portal's script may change the page at any await.  A handle is a    *)
(* position; before each write the signature of the control found there is *)
(* compared with that of the one the handle was read for, and the write    *)
(* itself is a later call on the same position.  A signature is what the   *)
(* markup calls a control: two without a name or an id may share one.      *)
(***************************************************************************)
EXTENDS PageBoundaries

CONSTANTS
  Controls,     \* the controls the portal may show
  Signatures,   \* what their tag, type, name and id may spell
  FormShapes,   \* what the fields behind them may look like
  Pages,        \* what else the page may show
  Profiles,     \* the candidates' stored data
  MaxMoves      \* a bound: how often the portal re-renders its form

ASSUME ShapesAreFormFields == \A f \in FormShapes : IsFormField(f)
ASSUME ProfilesAreCandidates == \A c \in Profiles : IsCandidate(c)
ASSUME ControlsAreFinite == IsFiniteSet(Controls)

VARIABLES
  shape,        \* the field behind each control
  signature,    \* the signature of each control
  shown,        \* what else the page shows
  profile,      \* the candidate's data, as the pass read it
  page,         \* the controls on the page, in order
  held,         \* what was typed into, or attached to, each control
  snapshot,     \* the controls the handles were read for
  found,        \* the boundaries seen before anything was typed
  outcomes,     \* the report, one entry per handle so far
  stage,        \* where the pass stands
  handle,       \* the handle being written to
  moves,        \* how often the page changed
  slipped       \* history: it changed between a check and its write

inputs == <<shape, signature, shown, profile>>
passVars == <<inputs, page, held, snapshot, found, outcomes, stage, handle,
              moves, slipped>>

Untyped == "untyped"

PageFields == {shape[c] : c \in ToSet(snapshot)}

\* What is planned for a field depends on nothing the pass does.
Plans == [field \in FormShapes |-> [candidate \in Profiles |->
            Plan(field, candidate)]]

PlanFor(i) == Plans[shape[snapshot[i]]][profile]

Outcome(plan, result) ==
  [result |-> result, text |-> plan.text, slot |-> plan.slot,
   derived |-> plan.derived,
   confirm |-> result \in {"filled", "attached"} /\ plan.slot \in SensitiveSlots
                 /\ plan.how = "fill"]

AnsweredByCandidate(outcome, text) ==
  [outcome EXCEPT !.result = "filled", !.text = text, !.derived = FALSE,
                  !.confirm = FALSE]

-----------------------------------------------------------------------------
(* What a control does with a value *)

\* A radio takes its own label and, whatever its label, any "yes".
RadioTakes(field, text) == text \in {field.own, "yes"}

\* No value is taken that the field has no option for; a plan never names a
\* checkbox.
Takes(field, text) ==
  /\ field.kind = "select" => text \in field.options
  /\ field.kind = "radio" => RadioTakes(field, text)

TooLong(field, text) == field.short /\ text = "document"

\* What the form then says: for a radio, the option that got selected.
Shown(field, text) == IF field.kind = "radio" THEN field.own ELSE text

-----------------------------------------------------------------------------
(* Opening and reading the page *)

\* Navigation, with its retries, failed or the browser could not start.
OpenFails ==
  /\ stage = "opening"
  /\ stage' = "failed"
  /\ UNCHANGED <<inputs, page, held, snapshot, found, outcomes, handle, moves,
                 slipped>>

ReadFields ==
  /\ stage = "opening"
  /\ snapshot' = page
  /\ stage' = "scanning"
  /\ UNCHANGED <<inputs, page, held, found, outcomes, handle, moves, slipped>>

\* A login wall, or a page without fields, leaves nothing to review.
ScanBoundaries ==
  /\ stage = "scanning"
  /\ found' = Boundaries(shown, PageFields)
  /\ stage' = IF found' \cap StopsAutofill # {} \/ snapshot = <<>>
              THEN "nothing" ELSE "filling"
  /\ handle' = 1
  /\ UNCHANGED <<inputs, page, held, snapshot, outcomes, moves, slipped>>

-----------------------------------------------------------------------------
(* Filling one field after the other *)

Report(outcome) ==
  /\ outcomes' = Append(outcomes, outcome)
  /\ handle' = handle + 1
  /\ stage' = IF handle = Len(snapshot) THEN "parked" ELSE "filling"

MissingDocument(plan) ==
  plan.text = "document" /\ plan.slot \notin profile.documents

LeaveToCandidate ==
  /\ stage = "filling"
  /\ LET plan == PlanFor(handle)
         field == shape[snapshot[handle]]
     IN /\ \/ plan.how = "surface"
           \/ MissingDocument(plan)
           \/ plan.how = "fill" /\ TooLong(field, plan.text)
        /\ Report(Outcome(plan, "surfaced"))
  /\ UNCHANGED <<inputs, page, held, snapshot, found, moves, slipped>>

\* Two controls the check before a write cannot tell apart.
Twins(c, d) == signature[c] = signature[d]

\* What is at a handle's position passes for the control it was read for.
SameSignature(i) == i \in DOMAIN page /\ Twins(page[i], snapshot[i])

\* With a bug: whatever is at the position is taken for the field.
LocateAnything ==
  /\ stage = "filling"
  /\ LET plan == PlanFor(handle)
         field == shape[snapshot[handle]]
     IN /\ plan.how # "surface"
        /\ ~MissingDocument(plan)
        /\ ~(plan.how = "fill" /\ TooLong(field, plan.text))
  /\ stage' = IF handle \in DOMAIN page THEN "writing" ELSE "failed"
  /\ UNCHANGED <<inputs, page, held, snapshot, found, outcomes, handle, moves,
                 slipped>>

\* A stale handle is nobody's to catch: the pass fails and its browser closes.
Locate ==
  /\ stage = "filling"
  /\ LET plan == PlanFor(handle)
         field == shape[snapshot[handle]]
     IN /\ plan.how # "surface"
        /\ ~MissingDocument(plan)
        /\ ~(plan.how = "fill" /\ TooLong(field, plan.text))
  /\ stage' = IF SameSignature(handle) THEN "writing" ELSE "failed"
  /\ UNCHANGED <<inputs, page, held, snapshot, found, outcomes, handle, moves,
                 slipped>>

\* The value goes to whatever control is at the position by now, if any.
Write ==
  /\ stage = "writing"
  /\ handle \in DOMAIN page
  /\ LET plan == PlanFor(handle)
         field == shape[snapshot[handle]]
     IN IF plan.how = "fill" /\ ~Takes(field, plan.text)
        THEN Report(Outcome(plan, "not_accepted")) /\ UNCHANGED held
        ELSE /\ held' = [held EXCEPT ![page[handle]] = Shown(field, plan.text)]
             /\ Report(Outcome(plan, IF plan.how = "attach" THEN "attached"
                                     ELSE "filled"))
  /\ UNCHANGED <<inputs, page, snapshot, found, moves, slipped>>

\* Covered, not editable in time, or the upload refused: nothing is typed.
WriteFails ==
  /\ stage = "writing"
  /\ Report(Outcome(PlanFor(handle), "failed"))
  /\ UNCHANGED <<inputs, page, held, snapshot, found, moves, slipped>>

-----------------------------------------------------------------------------
(* The candidate answers a field of the parked form *)

\* Human-only fields and uploads are refused to the candidate as well.
BeginAnswer(i) ==
  /\ stage = "parked"
  /\ HumanOnlyBoundary(shape[snapshot[i]]) = None
  /\ shape[snapshot[i]].kind # "file"
  /\ handle' = i
  /\ stage' = IF SameSignature(i) THEN "answering" ELSE "parked"
  /\ UNCHANGED <<inputs, page, held, snapshot, found, outcomes, moves, slipped>>

FinishAnswer(text) ==
  /\ stage = "answering"
  /\ LET field == shape[snapshot[handle]] IN
       IF handle \in DOMAIN page /\ Takes(field, text)
       THEN /\ held' = [held EXCEPT ![page[handle]] = Shown(field, text)]
            /\ outcomes' = [outcomes EXCEPT
                              ![handle] = AnsweredByCandidate(@, text)]
       ELSE UNCHANGED <<held, outcomes>>
  /\ stage' = "parked"
  /\ UNCHANGED <<inputs, page, snapshot, found, handle, moves, slipped>>

-----------------------------------------------------------------------------

\* A re-rendered page shows some of the controls, in some order.
Renderings == {p \in UNION {[1 .. n -> Controls] : n \in 0 .. Cardinality(Controls)} :
                 \A i, j \in DOMAIN p : p[i] = p[j] => i = j}

PageMoves ==
  /\ stage \notin {"failed", "nothing"}
  /\ moves < MaxMoves
  /\ moves' = moves + 1
  /\ page' \in Renderings \ {page}
  /\ slipped' = (slipped \/ stage \in {"writing", "answering"})
  /\ UNCHANGED <<inputs, held, snapshot, found, outcomes, stage, handle>>

NothingTyped ==
  /\ held = [c \in Controls |-> Untyped]
  /\ snapshot = <<>>
  /\ found = {}
  /\ outcomes = <<>>
  /\ handle = 0
  /\ moves = 0
  /\ slipped = FALSE

\* The type and the names are part of the signature; the label and what else
\* the markup says are not.
SignaturesSpellMarkup ==
  \A c, d \in Controls :
    Twins(c, d) => /\ shape[c].kind = shape[d].kind
                   /\ shape[c].names = shape[d].names

PassInit ==
  /\ shape \in [Controls -> FormShapes]
  /\ signature \in [Controls -> Signatures]
  /\ SignaturesSpellMarkup
  /\ shown \in Pages
  /\ profile \in Profiles
  /\ page \in Renderings
  /\ NothingTyped
  /\ stage = "opening"

PassNext ==
  \/ OpenFails
  \/ ReadFields
  \/ ScanBoundaries
  \/ LeaveToCandidate
  \/ Locate
  \/ Write
  \/ WriteFails
  \/ \E i \in DOMAIN snapshot : BeginAnswer(i)
  \/ \E text \in {"no", "own words"} : FinishAnswer(text)
  \/ PageMoves

PassSpec == PassInit /\ [][PassNext]_passVars

-----------------------------------------------------------------------------
(* What must hold *)

Unmistakable(c) == \A d \in Controls : Twins(c, d) => d = c

\* The report and the page agree, whatever the portal re-rendered meanwhile:
\* what is reported filled is in its own control, nothing was typed anywhere
\* but for a field of that control's signature, and an option picked for the
\* candidate without a flag is their only subject in its own words.  Two
\* things get past this: a page that changes between a check and its write,
\* and, for the first part, a control that shares its signature with another,
\* which a re-rendered page may put in its place without the check noticing.
ReportMatchesPage ==
  slipped \/
    /\ \A i \in DOMAIN outcomes :
         outcomes[i].result \in {"filled", "attached"}
           /\ Unmistakable(snapshot[i]) =>
             held[snapshot[i]] = Shown(shape[snapshot[i]], outcomes[i].text)
    /\ \A c \in Controls :
         held[c] # Untyped =>
           \E i \in DOMAIN outcomes :
             Twins(c, snapshot[i]) /\ outcomes[i].result \in {"filled", "attached"}
    /\ \A i \in DOMAIN outcomes :
         LET field == shape[snapshot[i]]
             subjects == profile.subjects["field_of_study"]
         IN outcomes[i].result = "filled" /\ ~outcomes[i].derived
              /\ outcomes[i].slot = "field_of_study" /\ field.options # {}
              /\ outcomes[i].text \notin {"no", "own words"} =>
                Len(subjects) = 1
                  /\ outcomes[i].text = field.offers["exact"][subjects[1]]

\* A CAPTCHA, a signature or a password is never typed, not even for the
\* candidate, unless the page changes between a check and its write or the
\* control shares its signature with one that asks for no human, as a password
\* never does with another kind of field; nothing at all is typed where the
\* portal wants a login; and the inspection of the same page reports what the
\* pass would not touch.
AsksForHuman(field, words) ==
  \/ field.kind = "password"
  \/ words \cap (CaptchaWords \cup SignatureWords \cup CredentialWords) # {}

ForHumans(c) == AsksForHuman(shape[c], shape[c].label \cup shape[c].attributes)

HumanOnlyIsLeftAlone ==
  /\ slipped \/ \A c \in Controls :
       (\A d \in Controls : Twins(c, d) => ForHumans(d)) => held[c] = Untyped
  /\ found \cap StopsAutofill # {} => \A c \in Controls : held[c] = Untyped
  /\ \A f \in PageFields :
       AsksForHuman(f, f.label) =>
         HumanOnlyBoundary([f EXCEPT !.attributes = {}])
           \in HardStops(shown, PageFields)

\* What the candidate declared, put as the answer to the question asked.
NeedsSponsorship(declared) ==
  \/ declared.sponsorship = "yes"
  \/ declared.sponsorship = None /\ declared.status = "requires_sponsorship"

AsksAuthorization(question) ==
  question \cap {"authorized to work", "citizenship status"} # {}

HoldsFor(question, declared) ==
  /\ AsksAuthorization(question) => declared.status \in Authorized
  /\ "sponsorship" \in question =>
       IF AsksAuthorization(question)
       THEN ~NeedsSponsorship(declared)
       ELSE NeedsSponsorship(declared)

SettledBy(question, declared) ==
  /\ AsksAuthorization(question) \/ "sponsorship" \in question
  /\ AsksAuthorization(question) => declared.status # "other"
  /\ "sponsorship" \in question =>
       \/ declared.sponsorship # None
       \/ declared.status \in {"citizen", "permanent_resident",
                               "requires_sponsorship"}
  /\ "until" \notin question

\* The candidate's own words, for a question that asks for them.
Quotes(slot, question, declared) ==
  /\ slot \in declared.stated
  /\ \/ slot = "citizenship_country" /\ "citizenship" \in question
     \/ slot = "visa_type" /\ "visa" \in question /\ "until" \notin question

\* A legal question that the pass answered is answered as the candidate
\* declared it: never a compound question with half its answer, never from
\* a status that leaves it open, never from a résumé; and what is neither yes
\* nor no is the candidate's own statement of the thing asked for.
LegalAnswersAreTrue ==
  \A i \in DOMAIN outcomes :
    outcomes[i].confirm =>
      LET question == shape[snapshot[i]].label
          declared == profile.declared
          text == outcomes[i].text
      IN /\ declared # NoDeclaration /\ declared.attested
         /\ IF text \in {"yes", "no"}
            THEN /\ SettledBy(question, declared)
                 /\ text = "yes" <=> HoldsFor(question, declared)
            ELSE /\ text = "stated"
                 /\ Quotes(outcomes[i].slot, question, declared)

\* A legal answer selects a radio by the radio's own label.
RadioNamesItsAnswer ==
  \A i \in DOMAIN outcomes :
    outcomes[i].confirm /\ shape[snapshot[i]].kind = "radio" =>
      shape[snapshot[i]].own = outcomes[i].text
=============================================================================
