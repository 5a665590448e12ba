---------------------------- MODULE FieldPolicies ----------------------------
(***************************************************************************)
(* What autofill decides about one field of a portal's form before it      *)
(* types anything: which question the field asks, whether only a human may *)
(* answer it, and which of the candidate's values, if any, answers it.     *)
(*                                                                         *)
(* A label is the set of the phrases found in it.  Neighbouring rules with *)
(* the same outcome are one rule under one phrase, since only their order  *)
(* decides.  A control's name and autocomplete tokens are what the tables  *)
(* make of them: slots, or None.                                           *)
(***************************************************************************)
EXTENDS Naturals, SequencesExt

None == "none"

Kinds == {"text", "password", "email", "phone", "url", "number", "date",
          "textarea", "select", "checkbox", "radio", "file"}

LegalSlots == {"work_authorization", "sponsorship_required",
               "citizenship_country", "visa_type"}

CandidateChoiceOnly == {"eeo_self_identification"}

SensitiveSlots == LegalSlots \cup CandidateChoiceOnly

DocumentSlots == {"resume", "cover_letter"}

FirstKnown(slots) ==
  LET known == {i \in DOMAIN slots : slots[i] # None} IN
    IF known = {} THEN None ELSE slots[Min(known)]

-----------------------------------------------------------------------------
(* Which question a field asks *)

\* The slots the tables of control names and autocomplete tokens know; a
\* question of law or of choice is known by its label only.
NamedSlots ==
  {"full_name", "first_name", "last_name", "middle_name", "preferred_name",
   "email", "phone", "location", "street_address", "address_line_2", "city",
   "state_or_region", "postal_code", "country", "linkedin_url", "github_url",
   "portfolio_url", "resume", "cover_letter", "school", "degree",
   "field_of_study", "education_start_date", "education_end_date",
   "current_company", "current_title"}

\* The control's name is looked at before its id, and of the autocomplete
\* tokens the last one wins.
ByControlName(field) == FirstKnown(field.names)

ByAutocomplete(field) == FirstKnown(Reverse(field.autocomplete))

LabelRules ==
  << <<"sponsorship", "sponsorship_required">>,
     <<"citizenship status", "work_authorization">>,
     <<"citizenship", "citizenship_country">>,
     <<"authorized to work", "work_authorization">>,
     <<"visa", "visa_type">>,
     <<"gender", "eeo_self_identification">>,
     <<"cover letter", "cover_letter">>,
     <<"resume", "resume">>,
     <<"first name", "first_name">>,
     <<"last name", "last_name">>,
     <<"middle name", "middle_name">>,
     <<"preferred name", "preferred_name">>,
     <<"name", "full_name">>,
     <<"email", "email">>,
     <<"phone", "phone">>,
     <<"linkedin", "linkedin_url">>,
     <<"github", "github_url">>,
     <<"portfolio", "portfolio_url">>,
     <<"location", "location">>,
     <<"apartment", "address_line_2">>,
     <<"address", "street_address">>,
     <<"city", "city">>,
     <<"state", "state_or_region">>,
     <<"postal code", "postal_code">>,
     <<"country", "country">>,
     <<"current company", "current_company">>,
     <<"job title", "current_title">>,
     <<"school", "school">>,
     <<"degree", "degree">>,
     <<"major", "field_of_study">>,
     <<"minor", "minor">> >>

MatchingRules(label) == {r \in DOMAIN LabelRules : LabelRules[r][1] \in label}

AskedSlots(label) == {LabelRules[r][2] : r \in MatchingRules(label)}

\* With a bug: the first rule that matches decides, whatever else is asked.
AsksNothingElse(label) == FALSE

\* "Authorized to work without sponsorship" asks for a conjunction that no
\* stored declaration states.
AsksMoreThanOneLegalQuestion(label) ==
  {"work_authorization", "sponsorship_required"} \subseteq AskedSlots(label)

\* "Until when", "have you ever": about another time than the present.
AsksAnotherTime(label, slot) ==
  /\ slot \in LegalSlots \ {"citizenship_country"}
  /\ "until" \in label

ByLabel(label) ==
  IF MatchingRules(label) = {} \/ AsksMoreThanOneLegalQuestion(label)
  THEN None
  ELSE LET slot == LabelRules[Min(MatchingRules(label))][2] IN
         IF \/ "?" \in label /\ slot \notin SensitiveSlots
            \/ AsksAnotherTime(label, slot)
         THEN None
         ELSE slot

Recognized(field) ==
  FirstKnown(<<ByControlName(field), ByAutocomplete(field),
               ByLabel(field.label)>>)

-----------------------------------------------------------------------------
(* Fields only a human answers *)

CaptchaWords == {"captcha", "characters you see"}
SignatureWords == {"signature", "signed by"}
CredentialWords == {"password", "verification code"}

When(condition, value) == IF condition THEN value ELSE None

\* With a bug: a control is known by its kind only.
HumanOnlyByKind(field) == When(field.kind = "password", "account_wall")

\* The label, the control's name and its attributes are read as one text.
HumanOnlyBoundary(field) ==
  LET words == field.label \cup field.attributes IN
    FirstKnown(
      <<When(field.kind = "password", "account_wall"),
        When(words \cap CaptchaWords # {}, "captcha"),
        When(words \cap SignatureWords # {}, "electronic_signature"),
        When(words \cap CredentialWords # {}, "account_wall")>>)

\* The planner's own list; "signed by" is not on it.
IsSignatureField(label) == label \cap {"signature", "sign below"} # {}

-----------------------------------------------------------------------------
(* Legal questions: the candidate's own declaration answers, or nobody *)

Authorized == {"citizen", "permanent_resident", "visa_holder"}
Unauthorized == {"requires_sponsorship", "not_authorized"}

NoDeclaration == [status |-> None]

Declarations ==
  [status : Authorized \cup Unauthorized \cup {"other"}, attested : BOOLEAN,
   sponsorship : {"yes", "no", None},
   stated : SUBSET {"citizenship_country", "visa_type"}]

Answer(text) == [text |-> text, refusal |-> None]
Refusal(reason) == [text |-> None, refusal |-> reason]

AuthorizedAnswer(declared) ==
  CASE declared.status \in Authorized -> Answer("yes")
    [] declared.status \in Unauthorized -> Answer("no")
    [] OTHER -> Refusal("not_derivable")

\* What the candidate said of sponsorship comes before what follows from the
\* status; a visa holder's need follows from nothing.
SponsorshipAnswer(declared) ==
  CASE declared.sponsorship # None -> Answer(declared.sponsorship)
    [] declared.sponsorship = None
         /\ declared.status \in {"citizen", "permanent_resident"} ->
       Answer("no")
    [] declared.sponsorship = None
         /\ declared.status = "requires_sponsorship" -> Answer("yes")
    [] OTHER -> Refusal("not_derivable")

Stated(slot, declared) ==
  IF slot \in declared.stated THEN Answer("stated") ELSE Refusal("not_stated")

DecideSensitive(slot, declared) ==
  IF slot \in CandidateChoiceOnly THEN Refusal("candidate_choice_only")
  ELSE IF declared = NoDeclaration THEN Refusal("not_on_file")
  ELSE IF ~declared.attested THEN Refusal("not_candidate_attested")
  ELSE CASE slot = "work_authorization" -> AuthorizedAnswer(declared)
         [] slot = "sponsorship_required" -> SponsorshipAnswer(declared)
         [] OTHER -> Stated(slot, declared)

-----------------------------------------------------------------------------
(* Everything else: values taken from the profile *)

Value(text, derived) == [text |-> text, derived |-> derived]
NoValue == Value(None, FALSE)
OnFile(found, derived) == IF found THEN Value("on file", derived) ELSE NoValue

NameSlots == {"first_name", "last_name", "middle_name", "preferred_name"}

\* Only a name of two words or more is split.  A candidate without a middle
\* name has one that is blank.
NameValue(slot, facts) ==
  CASE slot = "middle_name" ->
         Value(IF slot \in facts THEN "on file" ELSE "", FALSE)
    [] slot = "preferred_name" /\ slot \in facts -> OnFile(TRUE, FALSE)
    [] OTHER -> OnFile("two_names" \in facts, TRUE)

LocationValue(facts) ==
  IF "location" \in facts
  THEN OnFile(TRUE, FALSE)
  ELSE OnFile({"city", "state_or_region", "country"} \cap facts # {}, TRUE)

RoleValue(facts) == OnFile("work_history" \in facts, FALSE)

EducationSlots == {"school", "degree", "field_of_study", "minor",
                   "education_start_date", "education_end_date"}

\* The most recent entry may leave any of these out.
EducationValue(slot, facts) == OnFile({"education", slot} \subseteq facts, FALSE)

Resolved(slot, facts) ==
  CASE slot \in NameSlots -> NameValue(slot, facts)
    [] slot = "location" -> LocationValue(facts)
    [] slot \in {"current_company", "current_title"} -> RoleValue(facts)
    [] slot \in EducationSlots -> EducationValue(slot, facts)
    [] slot = "address_line_2" -> NoValue
    [] OTHER -> OnFile(slot \in facts, FALSE)

-----------------------------------------------------------------------------
(* Subjects studied, against the subjects a portal offers *)

Tiers == <<"exact", "equivalent", "suffix", "broader">>

\* The first tier in which any subject has a match decides, and within it the
\* candidate's first such subject.  offers[tier] is a partial function from
\* subjects to the option each matches there.
SubjectOption(subjects, offers) ==
  LET matched(tier) == {k \in DOMAIN subjects : subjects[k] \in DOMAIN offers[tier]}
      reached == {t \in DOMAIN Tiers : matched(Tiers[t]) # {}}
  IN IF reached = {}
     THEN NoValue
     ELSE LET tier == Tiers[Min(reached)]
              subject == subjects[Min(matched(tier))]
          IN Value(offers[tier][subject], tier # "exact" \/ Len(subjects) > 1)

-----------------------------------------------------------------------------
(* The plan for one field *)

Fill(slot, value) ==
  [how |-> "fill", slot |-> slot, text |-> value.text,
   derived |-> value.derived, reason |-> None]

Surface(slot, reason) ==
  [how |-> "surface", slot |-> slot, text |-> None, derived |-> FALSE,
   reason |-> reason]

UseDocument(slot, how) ==
  [how |-> how, slot |-> slot, text |-> "document", derived |-> FALSE,
   reason |-> None]

PlanSensitive(field, slot, profile) ==
  LET decision == DecideSensitive(slot, profile.declared) IN
    CASE decision.refusal # None -> Surface(slot, decision.refusal)
      [] decision.refusal = None
           /\ field.kind \notin {"text", "textarea", "select", "radio"} ->
         Surface(slot, "unsupported_field_kind")
      [] OTHER -> Fill(slot, Value(decision.text, FALSE))

PlanDocument(field, slot) ==
  CASE field.kind = "file" -> UseDocument(slot, "attach")
    [] field.kind \in {"text", "textarea"} -> UseDocument(slot, "fill")
    [] OTHER -> Surface(slot, "unsupported_field_kind")

PlanSubject(field, slot, profile, resolved) ==
  LET chosen == SubjectOption(profile.subjects[slot], field.offers) IN
    IF chosen = NoValue
    THEN Surface(slot, "no_matching_option")
    ELSE Fill(slot, Value(chosen.text, resolved.derived \/ chosen.derived))

PlanValue(field, slot, profile) ==
  LET resolved == Resolved(slot, profile.facts) IN
    CASE resolved = NoValue -> Surface(slot, "no_profile_data")
      [] resolved # NoValue /\ resolved.text = "" /\ field.required ->
         Surface(slot, "required_with_no_applicable_value")
      [] resolved # NoValue /\ ~(resolved.text = "" /\ field.required)
           /\ field.kind \in {"password", "checkbox", "radio", "file"} ->
         Surface(slot, "unsupported_field_kind")
      [] OTHER ->
         IF /\ field.options # {}
            /\ slot \in {"field_of_study", "minor"}
            /\ profile.subjects[slot] # <<>>
         THEN PlanSubject(field, slot, profile, resolved)
         ELSE Fill(slot, resolved)

\* A signature is turned away before the question is even recognised, and a
\* human-only field before any value is looked up.
Plan(field, profile) ==
  LET slot == Recognized(field) IN
    IF IsSignatureField(field.label)
    THEN Surface(None, "requires_candidate_signature")
    ELSE IF slot = None THEN Surface(None, "unrecognized")
    ELSE IF HumanOnlyBoundary(field) # None
         THEN Surface(slot, "unsupported_field_kind")
    ELSE CASE slot \in SensitiveSlots -> PlanSensitive(field, slot, profile)
           [] slot \in DocumentSlots -> PlanDocument(field, slot)
           [] OTHER -> PlanValue(field, slot, profile)

-----------------------------------------------------------------------------
(* What there is to plan from *)

\* The options a tier offers are whatever the portal made of them.
IsFormField(f) ==
  f \in [kind : Kinds, label : SUBSET STRING, attributes : SUBSET STRING,
         names : Seq(NamedSlots \cup {None}),
         autocomplete : Seq(NamedSlots \cup {None}),
         required : BOOLEAN, short : BOOLEAN,
         options : SUBSET STRING, own : STRING, offers : {f.offers}]

\* An entry of education has a field of study if and only if it has a major.
IsCandidate(c) ==
  /\ c \in [declared : Declarations \cup {NoDeclaration},
            facts : SUBSET STRING, documents : SUBSET DocumentSlots,
            subjects : [{"field_of_study", "minor"} -> Seq(STRING)]]
  /\ {"education", "field_of_study"} \subseteq c.facts =>
       c.subjects["field_of_study"] # <<>>
=============================================================================
