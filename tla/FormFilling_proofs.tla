------------------------- MODULE FormFilling_proofs -------------------------
(***************************************************************************)
(* Proofs about one pass over a portal's form, for any controls, fields    *)
(* and candidates, however often the page re-renders: what the report says *)
(* of the form is so, what only a human may answer is left alone, and a    *)
(* legal question is answered as the candidate declared it.                *)
(***************************************************************************)
EXTENDS FormFilling, FiniteSetTheorems, WellFoundedInduction, TLAPS

Results == {"filled", "attached", "surfaced", "not_accepted", "failed"}

Answers == {"no", "own words"}

Stages == {"opening", "scanning", "nothing", "failed", "filling", "writing",
           "parked", "answering"}

\* The entries a report may have for a field: what the plan led to, or what
\* the candidate answered instead.
Planned(field, candidate) ==
  LET plan == Plan(field, candidate) IN
    {Outcome(plan, r) : r \in IF plan.how = "surface" THEN {"surfaced"} ELSE Results}

MayReport(field, candidate) ==
  Planned(field, candidate)
    \cup UNION {{AnsweredByCandidate(o, t) : t \in Answers} : o \in Planned(field, candidate)}

Entries == UNION {UNION {MayReport(f, c) : c \in Profiles} : f \in FormShapes}

-----------------------------------------------------------------------------
(* The inductive invariant *)

PassTypeOK ==
  /\ shape \in [Controls -> FormShapes]
  /\ signature \in [Controls -> Signatures]
  /\ profile \in Profiles
  /\ page \in Renderings
  /\ snapshot \in Renderings
  /\ held = [c \in Controls |-> held[c]]
  /\ outcomes \in Seq(Entries)
  /\ stage \in Stages
  /\ handle \in Nat
  /\ slipped \in BOOLEAN

\* Where the pass stands, against what it has done.
StagesInOrder ==
  /\ stage \in {"opening", "scanning", "nothing"} =>
       outcomes = <<>> /\ held = [c \in Controls |-> Untyped]
  /\ stage \in {"opening", "scanning"} => found = {}
  /\ found \cap StopsAutofill # {} => stage = "nothing"
  /\ stage \in {"filling", "writing"} =>
       handle = Len(outcomes) + 1 /\ handle \in DOMAIN snapshot
  /\ stage \in {"parked", "answering"} => Len(outcomes) = Len(snapshot)
  /\ Len(outcomes) <= Len(snapshot)

\* What is about to be written to is what was looked at, unless the page
\* slipped away, and may be written to.
WritesWhereItLooked ==
  /\ stage = "writing" => PlanFor(handle).how # "surface"
  /\ stage = "answering" =>
       /\ handle \in DOMAIN snapshot
       /\ HumanOnlyBoundary(shape[snapshot[handle]]) = None
  /\ stage \in {"writing", "answering"} => slipped \/ SameSignature(handle)

ReportsThePlan ==
  \A i \in DOMAIN outcomes :
    outcomes[i] \in MayReport(shape[snapshot[i]], profile)

\* Whatever is reported filled is there, and nothing is typed but into a
\* control that passes for one reported so.
FilledIsThere ==
  \A i \in DOMAIN outcomes :
    outcomes[i].result \in {"filled", "attached"} /\ Unmistakable(snapshot[i]) =>
      held[snapshot[i]] = Shown(shape[snapshot[i]], outcomes[i].text)

TypedIsReported ==
  \A c \in Controls :
    held[c] # Untyped =>
      \E i \in DOMAIN outcomes :
        Twins(c, snapshot[i]) /\ outcomes[i].result \in {"filled", "attached"}

OnlyForHumans(c) ==
  \A d \in Controls : Twins(c, d) => HumanOnlyBoundary(shape[d]) # None

HumanOnlyUntyped == \A c \in Controls : OnlyForHumans(c) => held[c] = Untyped

PassInv ==
  /\ PassTypeOK
  /\ StagesInOrder
  /\ WritesWhereItLooked
  /\ ReportsThePlan
  /\ slipped \/ (FilledIsThere /\ TypedIsReported /\ HumanOnlyUntyped)

-----------------------------------------------------------------------------
(* The first of several *)

LEMMA LeastIsMember ==
  ASSUME NEW S, S \subseteq Nat, S # {}
  PROVE  Min(S) \in S
<1>1. PICK n \in S : \A m \in S : ~(m < n)
  <2> DEFINE R == OpToRel(<, Nat)
  <2>1. IsWellFoundedOn(R, Nat)
    BY NatLessThanWellFounded
  <2>2. PICK n \in S : \A m \in S : <<m, n>> \notin R
    BY <2>1, WFMin, Zenon
  <2> QED BY <2>2 DEF OpToRel
<1>2. n \in S /\ \A m \in S : n <= m
  BY <1>1
<1> QED BY <1>2 DEF Min

\* The first known slot of several is one of them.
LEMMA FirstKnownIsOne ==
  ASSUME NEW T, NEW slots \in Seq(T)
  PROVE  /\ FirstKnown(slots) # None => \E i \in DOMAIN slots : FirstKnown(slots) = slots[i]
         /\ (\E i \in DOMAIN slots : slots[i] # None) => FirstKnown(slots) # None
<1> DEFINE known == {i \in DOMAIN slots : slots[i] # None}
<1>1. CASE known = {}
  BY <1>1 DEF FirstKnown
<1>2. CASE known # {}
  <2>1. known \subseteq Nat
    OBVIOUS
  <2>2. Min(known) \in known
    BY <1>2, <2>1, LeastIsMember
  <2>3. FirstKnown(slots) = slots[Min(known)]
    BY <1>2 DEF FirstKnown
  <2> QED BY <2>2, <2>3
<1> QED BY <1>1, <1>2

-----------------------------------------------------------------------------
(* What only a human answers *)

\* What asks for a human is recognised as such, and for what it asks for.
LEMMA HumanIsAsked ==
  ASSUME NEW field,
         AsksForHuman(field, field.label \cup field.attributes)
  PROVE  LET words == field.label \cup field.attributes
             boundary == HumanOnlyBoundary(field)
         IN \/ boundary = "captcha" /\ words \cap CaptchaWords # {}
            \/ boundary = "electronic_signature" /\ words \cap SignatureWords # {}
            \/ /\ boundary = "account_wall"
               /\ field.kind = "password" \/ words \cap CredentialWords # {}
<1> DEFINE words == field.label \cup field.attributes
           asked == <<When(field.kind = "password", "account_wall"),
                      When(words \cap CaptchaWords # {}, "captcha"),
                      When(words \cap SignatureWords # {}, "electronic_signature"),
                      When(words \cap CredentialWords # {}, "account_wall")>>
           T == {None, "account_wall", "captcha", "electronic_signature"}
<1>1. asked \in Seq(T)
  BY DEF When
<1>2. \E i \in DOMAIN asked : asked[i] # None
  <2>1. CASE field.kind = "password"
    <3>1. asked[1] # None
      BY <2>1 DEF When, None
    <3> QED BY <3>1
  <2>2. CASE words \cap CaptchaWords # {}
    <3>1. asked[2] # None
      BY <2>2 DEF When, None
    <3> QED BY <3>1
  <2>3. CASE words \cap SignatureWords # {}
    <3>1. asked[3] # None
      BY <2>3 DEF When, None
    <3> QED BY <3>1
  <2>4. CASE words \cap CredentialWords # {}
    <3>1. asked[4] # None
      BY <2>4 DEF When, None
    <3> QED BY <3>1
  <2>5. \/ field.kind = "password" \/ words \cap CaptchaWords # {}
        \/ words \cap SignatureWords # {} \/ words \cap CredentialWords # {}
    BY DEF AsksForHuman
  <2> QED BY <2>1, <2>2, <2>3, <2>4, <2>5
<1>3. HumanOnlyBoundary(field) = FirstKnown(asked)
  BY DEF HumanOnlyBoundary
<1>4. PICK i \in 1 .. 4 : FirstKnown(asked) = asked[i] /\ asked[i] # None
  <2>1. DOMAIN asked = 1 .. 4
    OBVIOUS
  <2> HIDE DEF asked, T
  <2> QED BY <1>1, <1>2, <2>1, FirstKnownIsOne
<1>5. CASE i = 1
  BY <1>3, <1>4, <1>5 DEF When
<1>6. CASE i = 2
  BY <1>3, <1>4, <1>6 DEF When
<1>7. CASE i = 3
  BY <1>3, <1>4, <1>7 DEF When
<1>8. CASE i = 4
  BY <1>3, <1>4, <1>8 DEF When
<1> QED BY <1>5, <1>6, <1>7, <1>8

\* Nothing is planned for it.
LEMMA HumanIsSurfaced ==
  ASSUME NEW field, NEW candidate, HumanOnlyBoundary(field) # None
  PROVE  Plan(field, candidate).how = "surface"
BY DEF Plan, Surface

\* What the inspection reports.

LEMMA CappedIsPositive ==
  ASSUME NEW m \in Nat, NEW n \in Nat
  PROVE  /\ Capped(m, n) \in Nat
         /\ m > 0 /\ n > 0 => Capped(m, n) > 0
<1>1. Min({m, n}) \in {m, n}
  BY LeastIsMember
<1> QED BY <1>1 DEF Capped

LEMMA NonemptyCounts ==
  ASSUME NEW S, IsFiniteSet(S)
  PROVE  /\ Cardinality(S) \in Nat
         /\ S # {} => Cardinality(S) > 0
BY FS_CardinalityType, FS_EmptySet

\* A labelled field is evidence, whatever else there is.
LEMMA LabelIsEvidence ==
  ASSUME NEW vendors, IsFiniteSet(vendors), NEW phrases, IsFiniteSet(phrases),
         NEW labelled, IsFiniteSet(labelled)
  PROVE  /\ Evidence(vendors, phrases, labelled) \in Nat
         /\ labelled # {} => Evidence(vendors, phrases, labelled) > 0
<1> DEFINE v == Capped(Cardinality(vendors), MaxVendorMatches)
           q == Capped(Cardinality(phrases), MaxPhraseMatches)
           l == Capped(Cardinality(labelled), MaxLabelMatches)
<1>1. /\ Cardinality(vendors) \in Nat /\ Cardinality(phrases) \in Nat
      /\ Cardinality(labelled) \in Nat
      /\ labelled # {} => Cardinality(labelled) > 0
  BY NonemptyCounts
<1>2. v \in Nat /\ q \in Nat /\ l \in Nat /\ (labelled # {} => l > 0)
  <2>1. v \in Nat
    BY <1>1, CappedIsPositive, Zenon, 1 \in Nat DEF MaxVendorMatches
  <2>2. q \in Nat
    BY <1>1, CappedIsPositive, Zenon, 3 \in Nat DEF MaxPhraseMatches
  <2>3. /\ l \in Nat
        /\ Cardinality(labelled) > 0 /\ 2 > 0 => l > 0
    BY <1>1, CappedIsPositive, Zenon, 2 \in Nat DEF MaxLabelMatches
  <2> HIDE DEF v, q, l
  <2> QED BY <1>1, <2>1, <2>2, <2>3
<1>3. Evidence(vendors, phrases, labelled) = Capped(v + q + l, MaxEvidenceLines)
  BY Zenon DEF Evidence
<1> HIDE DEF v, q, l
<1>4. v + q + l \in Nat /\ (labelled # {} => v + q + l > 0)
  BY <1>2
<1> QED BY <1>3, <1>4, CappedIsPositive DEF MaxEvidenceLines

LEMMA KnownWordsAreFinite ==
  ASSUME NEW words
  PROVE  /\ IsFiniteSet(words \cap CaptchaVendors)
         /\ IsFiniteSet(words \cap SignatureVendors)
         /\ IsFiniteSet(words \cap AccountWallSegments)
         /\ IsFiniteSet(words \cap CaptchaPhrases)
         /\ IsFiniteSet(words \cap SignaturePhrases)
         /\ IsFiniteSet(words \cap AccountWallPhrases)
<1>1. ASSUME NEW a, NEW b, NEW c PROVE IsFiniteSet(words \cap {a, b, c})
  <2>1. IsFiniteSet({a, b, c})
    <3>1. IsFiniteSet({a})
      BY FS_Singleton
    <3>2. IsFiniteSet({a} \cup {b})
      BY <3>1, FS_AddElement
    <3>3. IsFiniteSet(({a} \cup {b}) \cup {c})
      BY <3>2, FS_AddElement
    <3>4. {a, b, c} = ({a} \cup {b}) \cup {c}
      OBVIOUS
    <3> QED BY <3>3, <3>4
  <2> QED BY <2>1, FS_Subset
<1>2. ASSUME NEW a, NEW b PROVE IsFiniteSet(words \cap {a, b})
  <2>1. {a, b} = {a, b, b}
    OBVIOUS
  <2>2. IsFiniteSet(words \cap {a, b, b})
    BY <1>1
  <2> QED BY <2>1, <2>2
<1> QED BY <1>1, <1>2 DEF CaptchaVendors, SignatureVendors, AccountWallSegments,
              CaptchaPhrases, SignaturePhrases, AccountWallPhrases

\* The inspection of a page stops at every field whose label asks for a human.
LEMMA HumanIsHardStop ==
  ASSUME NEW field, IsFormField(field), AsksForHuman(field, field.label),
         NEW seen, NEW fields, IsFiniteSet(fields), field \in fields
  PROVE  HumanOnlyBoundary([field EXCEPT !.attributes = {}])
           \in HardStops(seen, fields)
<1> DEFINE bare == [field EXCEPT !.attributes = {}]
           boundary == HumanOnlyBoundary(bare)
<1>1. bare.kind = field.kind /\ bare.label = field.label /\ bare.attributes = {}
  BY DEF IsFormField
<1>2. /\ IsFiniteSet(LabelsWith(CaptchaWords, fields))
      /\ IsFiniteSet(LabelsWith(SignatureWords, fields))
      /\ IsFiniteSet(LabelsWith(CredentialWords, fields))
  BY FS_Subset DEF LabelsWith
<1>3. \/ boundary = "captcha" /\ field.label \cap CaptchaWords # {}
      \/ boundary = "electronic_signature" /\ field.label \cap SignatureWords # {}
      \/ /\ boundary = "account_wall"
         /\ field.kind = "password" \/ field.label \cap CredentialWords # {}
  <2>1. bare.label \cup bare.attributes = field.label
    BY <1>1
  <2>2. AsksForHuman(bare, bare.label \cup bare.attributes)
    BY <1>1, <2>1 DEF AsksForHuman
  <2> HIDE DEF bare
  <2> QED BY <1>1, <2>1, <2>2, HumanIsAsked
<1> HIDE DEF bare, boundary
<1>4. CASE boundary = "captcha" /\ field.label \cap CaptchaWords # {}
  <2>1. LabelsWith(CaptchaWords, fields) # {}
    BY <1>4 DEF LabelsWith
  <2>2. CaptchaEvidence(seen, fields) > 0
    BY <1>2, <2>1, KnownWordsAreFinite, LabelIsEvidence DEF CaptchaEvidence
  <2> QED BY <1>4, <2>2 DEF HardStops, boundary, bare
<1>5. CASE boundary = "electronic_signature" /\ field.label \cap SignatureWords # {}
  <2>1. LabelsWith(SignatureWords, fields) # {}
    BY <1>5 DEF LabelsWith
  <2>2. SignatureEvidence(seen, fields) > 0
    BY <1>2, <2>1, KnownWordsAreFinite, LabelIsEvidence DEF SignatureEvidence
  <2> QED BY <1>5, <2>2 DEF HardStops, boundary, bare
<1>6. CASE /\ boundary = "account_wall"
           /\ field.kind = "password" \/ field.label \cap CredentialWords # {}
  <2> DEFINE kinds == {"password"} \cap {f.kind : f \in fields}
             walls == Evidence(seen.address \cap AccountWallSegments,
                               ReadableText(seen, fields) \cap AccountWallPhrases,
                               LabelsWith(CredentialWords, fields))
  <2>1. IsFiniteSet(kinds)
    <3>1. IsFiniteSet({"password"})
      BY FS_Singleton
    <3> QED BY <3>1, FS_Subset
  <2>2. Cardinality(kinds) \in Nat /\ (kinds # {} => Cardinality(kinds) > 0)
    BY <2>1, NonemptyCounts
  <2>3. field.kind = "password" => kinds # {}
    OBVIOUS
  <2>4. field.label \cap CredentialWords # {} => LabelsWith(CredentialWords, fields) # {}
    BY DEF LabelsWith
  <2>5. /\ walls \in Nat
        /\ LabelsWith(CredentialWords, fields) # {} => walls > 0
    BY <1>2, KnownWordsAreFinite, LabelIsEvidence
  <2>6. AccountWallEvidence(seen, fields)
          = Capped(Cardinality(kinds) + walls, MaxEvidenceLines)
    BY Zenon DEF AccountWallEvidence
  <2> HIDE DEF kinds, walls
  <2>7. Cardinality(kinds) + walls \in Nat /\ Cardinality(kinds) + walls > 0
    BY <1>6, <2>2, <2>3, <2>4, <2>5
  <2>8. AccountWallEvidence(seen, fields) > 0
    BY <2>6, <2>7, CappedIsPositive DEF MaxEvidenceLines
  <2>9. "account_wall" \in HardStops(seen, fields)
    BY <2>8 DEF HardStops
  <2> QED BY <1>6, <2>9 DEF boundary, bare
<1> QED BY <1>3, <1>4, <1>5, <1>6

-----------------------------------------------------------------------------
(* Which of the candidate's values answers a field *)

\* A control's name says nothing of law or choice.
LEMMA SensitiveByLabel ==
  ASSUME NEW field, IsFormField(field), Recognized(field) \in SensitiveSlots
  PROVE  Recognized(field) = ByLabel(field.label)
<1> DEFINE name == ByControlName(field)
           token == ByAutocomplete(field)
           asked == ByLabel(field.label)
<1>1. name \in NamedSlots \cup {None}
  <2>1. field.names \in Seq(NamedSlots \cup {None})
    BY DEF IsFormField
  <2> QED BY <2>1, FirstKnownIsOne DEF ByControlName
<1>2. token \in NamedSlots \cup {None}
  <2>1. field.autocomplete \in Seq(NamedSlots \cup {None})
    BY DEF IsFormField
  <2>2. Reverse(field.autocomplete) \in Seq(NamedSlots \cup {None})
    BY <2>1 DEF Reverse
  <2> QED BY <2>2, FirstKnownIsOne DEF ByAutocomplete
<1>3. (NamedSlots \cup {None}) \cap SensitiveSlots = {}
  BY DEF NamedSlots, None, SensitiveSlots, LegalSlots, CandidateChoiceOnly
<1>4. Recognized(field) = FirstKnown(<<name, token, asked>>)
  BY Zenon DEF Recognized
<1>5. Recognized(field) # None
  BY <1>3
<1> HIDE DEF name, token, asked
<1>6. <<name, token, asked>> \in Seq({name, token, asked})
  OBVIOUS
<1>7. \E i \in DOMAIN <<name, token, asked>> :
        Recognized(field) = <<name, token, asked>>[i]
  BY <1>4, <1>5, <1>6, FirstKnownIsOne
<1>8. Recognized(field) \in {name, token, asked}
  BY <1>7
<1> QED BY <1>1, <1>2, <1>3, <1>8 DEF asked

LEMMA RuleNumbers ==
  /\ DOMAIN LabelRules = 1 .. 31
  /\ 1 \in 1 .. 31 /\ 2 \in 1 .. 31 /\ 4 \in 1 .. 31
BY DEF LabelRules

LEMMA LegalRules ==
  /\ LabelRules[1][1] = "sponsorship" /\ LabelRules[1][2] = "sponsorship_required"
  /\ LabelRules[2][1] = "citizenship status" /\ LabelRules[2][2] = "work_authorization"
  /\ LabelRules[3][1] = "citizenship" /\ LabelRules[3][2] = "citizenship_country"
  /\ LabelRules[4][1] = "authorized to work" /\ LabelRules[4][2] = "work_authorization"
  /\ LabelRules[5][1] = "visa" /\ LabelRules[5][2] = "visa_type"
BY DEF LabelRules

LEMMA OtherRules ==
  ASSUME NEW r \in 6 .. 31
  PROVE  LabelRules[r][2] \notin LegalSlots
<1>1. /\ LabelRules[6][2] \notin LegalSlots /\ LabelRules[7][2] \notin LegalSlots
      /\ LabelRules[8][2] \notin LegalSlots /\ LabelRules[9][2] \notin LegalSlots
      /\ LabelRules[10][2] \notin LegalSlots /\ LabelRules[11][2] \notin LegalSlots
      /\ LabelRules[12][2] \notin LegalSlots /\ LabelRules[13][2] \notin LegalSlots
      /\ LabelRules[14][2] \notin LegalSlots /\ LabelRules[15][2] \notin LegalSlots
      /\ LabelRules[16][2] \notin LegalSlots /\ LabelRules[17][2] \notin LegalSlots
      /\ LabelRules[18][2] \notin LegalSlots
  BY DEF LabelRules, LegalSlots
<1>2. /\ LabelRules[19][2] \notin LegalSlots /\ LabelRules[20][2] \notin LegalSlots
      /\ LabelRules[21][2] \notin LegalSlots /\ LabelRules[22][2] \notin LegalSlots
      /\ LabelRules[23][2] \notin LegalSlots /\ LabelRules[24][2] \notin LegalSlots
      /\ LabelRules[25][2] \notin LegalSlots /\ LabelRules[26][2] \notin LegalSlots
      /\ LabelRules[27][2] \notin LegalSlots /\ LabelRules[28][2] \notin LegalSlots
      /\ LabelRules[29][2] \notin LegalSlots /\ LabelRules[30][2] \notin LegalSlots
      /\ LabelRules[31][2] \notin LegalSlots
  BY DEF LabelRules, LegalSlots
<1> QED BY <1>1, <1>2

\* What a label asks of the law, when the planner takes it for one question.
LEMMA LabelAsks ==
  ASSUME NEW label
  PROVE  LET slot == ByLabel(label) IN
         /\ slot = "work_authorization" =>
              AsksAuthorization(label) /\ "sponsorship" \notin label /\ "until" \notin label
         /\ slot = "sponsorship_required" =>
              "sponsorship" \in label /\ ~AsksAuthorization(label) /\ "until" \notin label
         /\ slot = "citizenship_country" => "citizenship" \in label
         /\ slot = "visa_type" => "visa" \in label /\ "until" \notin label
<1> DEFINE slot == ByLabel(label)
           m == Min(MatchingRules(label))
<1>1. SUFFICES ASSUME slot \in LegalSlots
               PROVE  /\ slot = "work_authorization" =>
                           /\ AsksAuthorization(label) /\ "sponsorship" \notin label
                           /\ "until" \notin label
                      /\ slot = "sponsorship_required" =>
                           /\ "sponsorship" \in label /\ ~AsksAuthorization(label)
                           /\ "until" \notin label
                      /\ slot = "citizenship_country" => "citizenship" \in label
                      /\ slot = "visa_type" => "visa" \in label /\ "until" \notin label
  BY DEF LegalSlots
<1>2. /\ MatchingRules(label) # {}
      /\ ~AsksMoreThanOneLegalQuestion(label)
      /\ slot = LabelRules[m][2]
      /\ ~AsksAnotherTime(label, slot)
  BY <1>1 DEF ByLabel, None, LegalSlots
<1>3. m \in MatchingRules(label)
  <2>1. MatchingRules(label) \subseteq DOMAIN LabelRules
    BY DEF MatchingRules
  <2>2. MatchingRules(label) \subseteq Nat
    BY <2>1, RuleNumbers
  <2> QED BY <1>2, <2>2, LeastIsMember
<1> HIDE DEF m, slot
<1>4. m \in 1 .. 31 /\ LabelRules[m][1] \in label
  <2>1. m \in DOMAIN LabelRules /\ LabelRules[m][1] \in label
    BY <1>3 DEF MatchingRules
  <2> QED BY <2>1, RuleNumbers
<1>5. m \in 1 .. 5
  <2>1. m \notin 6 .. 31
    BY <1>1, <1>2, OtherRules
  <2> QED BY <1>4, <2>1
<1>6. ASSUME NEW r \in 1 .. 31, LabelRules[r][1] \in label
      PROVE  LabelRules[r][2] \in AskedSlots(label)
  BY <1>6, RuleNumbers, Zenon DEF AskedSlots, MatchingRules
<1>7. AsksAuthorization(label) => "work_authorization" \in AskedSlots(label)
  <2>1. LabelRules[2][1] \in label => LabelRules[2][2] \in AskedSlots(label)
    BY <1>6, RuleNumbers, Zenon
  <2>2. LabelRules[4][1] \in label => LabelRules[4][2] \in AskedSlots(label)
    BY <1>6, RuleNumbers, Zenon
  <2> QED BY <2>1, <2>2, LegalRules DEF AsksAuthorization
<1>8. "sponsorship" \in label => "sponsorship_required" \in AskedSlots(label)
  <2>1. LabelRules[1][1] \in label => LabelRules[1][2] \in AskedSlots(label)
    BY <1>6, RuleNumbers, Zenon
  <2> QED BY <2>1, LegalRules
<1>9. ~(AsksAuthorization(label) /\ "sponsorship" \in label)
  BY <1>2, <1>7, <1>8 DEF AsksMoreThanOneLegalQuestion
<1>10. slot # "citizenship_country" => "until" \notin label
  BY <1>1, <1>2 DEF AsksAnotherTime
<1>11. CASE m = 1
  <2>1. slot = "sponsorship_required" /\ "sponsorship" \in label
    BY <1>2, <1>4, <1>11, LegalRules
  <2> QED BY <1>9, <1>10, <2>1
<1>12. CASE m \in {2, 4}
  <2>1. slot = "work_authorization" /\ AsksAuthorization(label)
    BY <1>2, <1>4, <1>12, LegalRules DEF AsksAuthorization
  <2> QED BY <1>9, <1>10, <2>1
<1>13. CASE m = 3
  <2>1. slot = "citizenship_country" /\ "citizenship" \in label
    BY <1>2, <1>4, <1>13, LegalRules
  <2> QED BY <2>1
<1>14. CASE m = 5
  <2>1. slot = "visa_type" /\ "visa" \in label
    BY <1>2, <1>4, <1>14, LegalRules
  <2> QED BY <1>10, <2>1
<1> QED BY <1>5, <1>11, <1>12, <1>13, <1>14

\* What the candidate declared settles an answer, or there is none.
LEMMA DecidedByDeclaration ==
  ASSUME NEW slot \in SensitiveSlots, NEW declared \in Declarations \cup {NoDeclaration},
         DecideSensitive(slot, declared).refusal = None
  PROVE  LET text == DecideSensitive(slot, declared).text IN
         /\ slot \in LegalSlots
         /\ declared \in Declarations /\ declared # NoDeclaration /\ declared.attested
         /\ slot = "work_authorization" =>
              /\ text \in {"yes", "no"} /\ declared.status # "other"
              /\ text = "yes" <=> declared.status \in Authorized
         /\ slot = "sponsorship_required" =>
              /\ text \in {"yes", "no"}
              /\ \/ declared.sponsorship # None
                 \/ declared.status \in {"citizen", "permanent_resident",
                                         "requires_sponsorship"}
              /\ text = "yes" <=> NeedsSponsorship(declared)
         /\ slot \in {"citizenship_country", "visa_type"} =>
              text = "stated" /\ slot \in declared.stated
<1> DEFINE decision == DecideSensitive(slot, declared)
<1>1. slot \in LegalSlots /\ declared # NoDeclaration /\ declared.attested
  BY DEF DecideSensitive, Refusal, SensitiveSlots, None
<1>2. declared \in Declarations
  BY <1>1
<1>3. decision = CASE slot = "work_authorization" -> AuthorizedAnswer(declared)
                   [] slot = "sponsorship_required" -> SponsorshipAnswer(declared)
                   [] OTHER -> Stated(slot, declared)
  <2>1. slot \notin CandidateChoiceOnly
    BY <1>1 DEF LegalSlots, CandidateChoiceOnly
  <2> QED BY <1>1, <2>1 DEF DecideSensitive
<1> HIDE DEF decision
<1>4. CASE slot = "work_authorization"
  <2>1. decision = AuthorizedAnswer(declared)
    BY <1>3, <1>4
  <2>2. decision.refusal = None
    BY DEF decision
  <2>3. /\ decision.text \in {"yes", "no"} /\ declared.status # "other"
        /\ decision.text = "yes" <=> declared.status \in Authorized
    BY <1>2, <2>1, <2>2
       DEF AuthorizedAnswer, Answer, Refusal, None, Authorized, Unauthorized, Declarations
  <2> QED BY <1>1, <1>2, <1>4, <2>3 DEF decision
<1>5. CASE slot = "sponsorship_required"
  <2>1. decision = SponsorshipAnswer(declared)
    BY <1>3, <1>5
  <2>2. decision.refusal = None
    BY DEF decision
  <2>3. /\ decision.text \in {"yes", "no"}
        /\ \/ declared.sponsorship # None
           \/ declared.status \in {"citizen", "permanent_resident",
                                   "requires_sponsorship"}
        /\ decision.text = "yes" <=> NeedsSponsorship(declared)
    BY <1>2, <2>1, <2>2
       DEF SponsorshipAnswer, Answer, Refusal, None, NeedsSponsorship, Declarations
  <2> QED BY <1>1, <1>2, <1>5, <2>3 DEF decision
<1>6. CASE slot \in {"citizenship_country", "visa_type"}
  <2>1. decision = Stated(slot, declared)
    BY <1>3, <1>6
  <2>2. decision.refusal = None
    BY DEF decision
  <2>3. decision.text = "stated" /\ slot \in declared.stated
    BY <2>1, <2>2 DEF Stated, Answer, Refusal, None
  <2> QED BY <1>1, <1>2, <1>6, <2>3 DEF decision
<1> QED BY <1>1, <1>4, <1>5, <1>6 DEF LegalSlots

\* Only a declaration fills in an answer to a question of law.
LEMMA LegalPlan ==
  ASSUME NEW field, NEW candidate,
         Plan(field, candidate).how = "fill",
         Plan(field, candidate).slot \in SensitiveSlots
  PROVE  LET decision == DecideSensitive(Recognized(field), candidate.declared) IN
         /\ Plan(field, candidate).slot = Recognized(field)
         /\ decision.refusal = None
         /\ Plan(field, candidate).text = decision.text
<1> DEFINE slot == Recognized(field)
           plan == Plan(field, candidate)
           decision == DecideSensitive(slot, candidate.declared)
<1>1. /\ ~IsSignatureField(field.label) /\ slot # None
      /\ HumanOnlyBoundary(field) = None
  BY DEF Plan, Surface
<1>2. plan = CASE slot \in SensitiveSlots -> PlanSensitive(field, slot, candidate)
               [] slot \in DocumentSlots -> PlanDocument(field, slot)
               [] OTHER -> PlanValue(field, slot, candidate)
  BY <1>1, Zenon DEF Plan
<1> HIDE DEF slot, plan, decision
<1>3. PlanSensitive(field, slot, candidate).slot = slot
  BY DEF PlanSensitive, Surface, Fill
<1>4. PlanDocument(field, slot).slot = slot
  BY DEF PlanDocument, UseDocument, Surface
<1>5. PlanValue(field, slot, candidate).slot = slot
  BY DEF PlanValue, PlanSubject, Surface, Fill
<1>6. plan.slot = slot
  BY <1>2, <1>3, <1>4, <1>5
<1>7. plan = PlanSensitive(field, slot, candidate)
  <2>1. slot \in SensitiveSlots
    BY <1>6 DEF plan
  <2>2. SensitiveSlots \cap DocumentSlots = {}
    BY DEF SensitiveSlots, LegalSlots, CandidateChoiceOnly, DocumentSlots
  <2> QED BY <1>2, <2>1, <2>2
<1>8. PlanSensitive(field, slot, candidate)
        = CASE decision.refusal # None -> Surface(slot, decision.refusal)
            [] decision.refusal = None
                 /\ field.kind \notin {"text", "textarea", "select", "radio"} ->
               Surface(slot, "unsupported_field_kind")
            [] OTHER -> Fill(slot, Value(decision.text, FALSE))
  BY Zenon DEF PlanSensitive, decision
<1>9. plan.how = "fill"
  BY DEF plan
<1>10. decision.refusal = None /\ plan.text = decision.text
  BY <1>7, <1>8, <1>9 DEF Surface, Fill, Value
<1> QED BY <1>6, <1>10 DEF plan, slot, decision

\* What the report says of one field's answer to a question of law.
AnsweredTruly(field, candidate, entry) ==
  entry.confirm =>
    LET question == field.label
        declared == candidate.declared
        text == entry.text
    IN /\ declared # NoDeclaration /\ declared.attested
       /\ IF text \in {"yes", "no"}
          THEN /\ SettledBy(question, declared)
               /\ text = "yes" <=> HoldsFor(question, declared)
          ELSE /\ text = "stated"
               /\ Quotes(entry.slot, question, declared)

LEMMA PlannedIsTrue ==
  ASSUME NEW field, IsFormField(field), NEW candidate, IsCandidate(candidate),
         NEW entry \in MayReport(field, candidate)
  PROVE  AnsweredTruly(field, candidate, entry)
<1> DEFINE plan == Plan(field, candidate)
           slot == Recognized(field)
           declared == candidate.declared
           question == field.label
<1>1. ASSUME NEW o \in Planned(field, candidate), NEW t
      PROVE  ~AnsweredByCandidate(o, t).confirm
  BY DEF Planned, Outcome, AnsweredByCandidate
<1>2. SUFFICES ASSUME entry.confirm, entry \in Planned(field, candidate)
               PROVE  AnsweredTruly(field, candidate, entry)
  BY <1>1 DEF MayReport, AnsweredTruly
<1>3. /\ entry.text = plan.text /\ entry.slot = plan.slot
      /\ plan.how = "fill" /\ plan.slot \in SensitiveSlots
  <2>1. PICK r : entry = Outcome(plan, r)
    BY <1>2, Zenon DEF Planned
  <2> HIDE DEF plan
  <2>2. /\ entry.text = plan.text /\ entry.slot = plan.slot
        /\ entry.confirm = (/\ r \in {"filled", "attached"}
                            /\ plan.slot \in SensitiveSlots
                            /\ plan.how = "fill")
    BY <2>1 DEF Outcome
  <2> QED BY <1>2, <2>2, Zenon
<1>4. /\ plan.slot = slot /\ slot \in SensitiveSlots
      /\ DecideSensitive(slot, declared).refusal = None
      /\ entry.text = DecideSensitive(slot, declared).text
  BY <1>3, LegalPlan
<1>5. declared \in Declarations \cup {NoDeclaration}
  BY DEF IsCandidate
<1>6. /\ slot \in LegalSlots
      /\ declared \in Declarations /\ declared # NoDeclaration /\ declared.attested
      /\ slot = "work_authorization" =>
           /\ entry.text \in {"yes", "no"} /\ declared.status # "other"
           /\ entry.text = "yes" <=> declared.status \in Authorized
      /\ slot = "sponsorship_required" =>
           /\ entry.text \in {"yes", "no"}
           /\ \/ declared.sponsorship # None
              \/ declared.status \in {"citizen", "permanent_resident",
                                      "requires_sponsorship"}
           /\ entry.text = "yes" <=> NeedsSponsorship(declared)
      /\ slot \in {"citizenship_country", "visa_type"} =>
           entry.text = "stated" /\ slot \in declared.stated
  <2> HIDE DEF slot, declared
  <2> QED BY <1>4, <1>5, DecidedByDeclaration
<1>7. slot = ByLabel(question)
  BY <1>4, SensitiveByLabel
<1>8. entry.slot = slot
  BY <1>3, <1>4
<1> HIDE DEF slot, declared, plan, question
<1>9. /\ slot = "work_authorization" =>
           AsksAuthorization(question) /\ "sponsorship" \notin question
             /\ "until" \notin question
      /\ slot = "sponsorship_required" =>
           "sponsorship" \in question /\ ~AsksAuthorization(question)
             /\ "until" \notin question
      /\ slot = "citizenship_country" => "citizenship" \in question
      /\ slot = "visa_type" => "visa" \in question /\ "until" \notin question
  BY <1>7, LabelAsks
<1>10. /\ declared # NoDeclaration /\ declared.attested
       /\ IF entry.text \in {"yes", "no"}
          THEN /\ SettledBy(question, declared)
               /\ entry.text = "yes" <=> HoldsFor(question, declared)
          ELSE /\ entry.text = "stated"
               /\ Quotes(entry.slot, question, declared)
  <2>1. CASE slot = "work_authorization"
    BY <1>6, <1>9, <2>1 DEF SettledBy, HoldsFor
  <2>2. CASE slot = "sponsorship_required"
    BY <1>6, <1>9, <2>2 DEF SettledBy, HoldsFor
  <2>3. CASE slot \in {"citizenship_country", "visa_type"}
    BY <1>6, <1>8, <1>9, <2>3 DEF Quotes
  <2> QED BY <1>6, <2>1, <2>2, <2>3 DEF LegalSlots
<1> QED BY <1>10 DEF AnsweredTruly, declared, question

\* An option found without a flag is the only subject's own.
LEMMA UnflaggedIsOwn ==
  ASSUME NEW subjects \in Seq(STRING), NEW offers,
         SubjectOption(subjects, offers) # NoValue,
         ~SubjectOption(subjects, offers).derived
  PROVE  /\ Len(subjects) = 1
         /\ SubjectOption(subjects, offers).text = offers["exact"][subjects[1]]
<1> DEFINE matched(tier) == {k \in DOMAIN subjects : subjects[k] \in DOMAIN offers[tier]}
           reached == {t \in DOMAIN Tiers : matched(Tiers[t]) # {}}
           tier == Tiers[Min(reached)]
           k == Min(matched(tier))
           chosen == Value(offers[tier][subjects[k]], tier # "exact" \/ Len(subjects) > 1)
<1>1. reached # {}
  BY DEF SubjectOption
<1>2. SubjectOption(subjects, offers) = chosen
  BY <1>1, Zenon DEF SubjectOption
<1>3. Min(reached) \in reached
  <2>1. reached \subseteq Nat
    BY DEF Tiers
  <2> HIDE DEF reached
  <2> QED BY <1>1, <2>1, LeastIsMember
<1>4. k \in DOMAIN subjects
  <2>1. matched(tier) # {}
    BY <1>3
  <2>2. matched(tier) \subseteq DOMAIN subjects
    OBVIOUS
  <2>3. matched(tier) \subseteq Nat
    BY <2>2
  <2> HIDE DEF matched, tier
  <2> QED BY <2>1, <2>2, <2>3, LeastIsMember
<1> HIDE DEF reached, tier, k
<1>5. chosen.derived = (tier # "exact" \/ Len(subjects) > 1)
  BY Zenon DEF Value
<1>6. tier = "exact" /\ ~(Len(subjects) > 1)
  BY <1>2, <1>5, Zenon
<1>7. Len(subjects) = 1 /\ k = 1
  <2>1. Len(subjects) \in Nat /\ DOMAIN subjects = 1 .. Len(subjects)
    OBVIOUS
  <2> QED BY <1>4, <1>6, <2>1
<1>8. chosen.text = offers[tier][subjects[k]]
  BY DEF Value
<1> QED BY <1>2, <1>6, <1>7, <1>8

\* What the report says of the subject picked from a portal's list.
NamesTheSubject(field, candidate, entry) ==
  LET subjects == candidate.subjects["field_of_study"] IN
    entry.result = "filled" /\ ~entry.derived
      /\ entry.slot = "field_of_study" /\ field.options # {}
      /\ entry.text \notin {"no", "own words"} =>
        Len(subjects) = 1
          /\ entry.text = field.offers["exact"][subjects[1]]

\* A subject is planned for from the candidate's own list of them.
LEMMA SubjectPlan ==
  ASSUME NEW field, field.options # {}, NEW candidate, IsCandidate(candidate),
         Plan(field, candidate).how # "surface",
         Plan(field, candidate).slot = "field_of_study"
  PROVE  LET chosen == SubjectOption(candidate.subjects["field_of_study"], field.offers) IN
         /\ chosen # NoValue
         /\ Plan(field, candidate).text = chosen.text
         /\ ~Plan(field, candidate).derived => ~chosen.derived
<1> DEFINE slot == Recognized(field)
           plan == Plan(field, candidate)
           subjects == candidate.subjects["field_of_study"]
           chosen == SubjectOption(subjects, field.offers)
           resolved == Resolved("field_of_study", candidate.facts)
<1>1. /\ ~IsSignatureField(field.label) /\ slot # None
      /\ HumanOnlyBoundary(field) = None
  BY DEF Plan, Surface
<1>2. plan = CASE slot \in SensitiveSlots -> PlanSensitive(field, slot, candidate)
               [] slot \in DocumentSlots -> PlanDocument(field, slot)
               [] OTHER -> PlanValue(field, slot, candidate)
  BY <1>1, Zenon DEF Plan
<1>0. plan.how # "surface" /\ plan.slot = "field_of_study"
  OBVIOUS
<1> HIDE DEF slot, plan, chosen, resolved
<1>3. PlanSensitive(field, slot, candidate).slot = slot
  BY DEF PlanSensitive, Surface, Fill
<1>4. PlanDocument(field, slot).slot = slot
  BY DEF PlanDocument, UseDocument, Surface
<1>5. PlanValue(field, slot, candidate).slot = slot
  BY DEF PlanValue, PlanSubject, Surface, Fill
<1>6. slot = "field_of_study"
  BY <1>0, <1>2, <1>3, <1>4, <1>5
<1>7. plan = PlanValue(field, "field_of_study", candidate)
  BY <1>2, <1>6 DEF SensitiveSlots, LegalSlots, CandidateChoiceOnly, DocumentSlots
<1>8. resolved # NoValue
  BY <1>0, <1>7 DEF PlanValue, Surface, resolved
<1>9. subjects # <<>>
  <2>1. resolved = OnFile({"education", "field_of_study"} \subseteq candidate.facts, FALSE)
    BY DEF resolved, Resolved, NameSlots, EducationSlots, EducationValue
  <2>2. {"education", "field_of_study"} \subseteq candidate.facts
    BY <1>8, <2>1 DEF OnFile
  <2> QED BY <2>2 DEF IsCandidate
<1>10. \/ plan = PlanSubject(field, "field_of_study", candidate, resolved)
       \/ plan = Surface("field_of_study", "required_with_no_applicable_value")
       \/ plan = Surface("field_of_study", "unsupported_field_kind")
  <2> DEFINE subject == PlanSubject(field, "field_of_study", candidate, resolved)
             entered == Fill("field_of_study", resolved)
             blank == Surface("field_of_study", "required_with_no_applicable_value")
             unsupported == Surface("field_of_study", "unsupported_field_kind")
  <2>1. plan = CASE resolved = NoValue -> Surface("field_of_study", "no_profile_data")
                 [] resolved # NoValue /\ resolved.text = "" /\ field.required -> blank
                 [] resolved # NoValue /\ ~(resolved.text = "" /\ field.required)
                      /\ field.kind \in {"password", "checkbox", "radio", "file"} ->
                    unsupported
                 [] OTHER ->
                    IF /\ field.options # {}
                       /\ "field_of_study" \in {"field_of_study", "minor"}
                       /\ candidate.subjects["field_of_study"] # <<>>
                    THEN subject ELSE entered
    BY <1>7, Zenon DEF PlanValue, resolved
  <2> HIDE DEF subject, entered, blank, unsupported
  <2>2. plan \in {subject, blank, unsupported}
    BY <1>8, <1>9, <2>1
  <2> QED BY <2>2, Zenon DEF subject, blank, unsupported
<1>11. plan = PlanSubject(field, "field_of_study", candidate, resolved)
  BY <1>0, <1>10 DEF Surface
<1>12. PlanSubject(field, "field_of_study", candidate, resolved)
         = IF chosen = NoValue
           THEN Surface("field_of_study", "no_matching_option")
           ELSE Fill("field_of_study",
                     Value(chosen.text, resolved.derived \/ chosen.derived))
  BY Zenon DEF PlanSubject, chosen
<1>13. chosen # NoValue
  BY <1>0, <1>11, <1>12 DEF Surface
<1>14. plan = Fill("field_of_study",
                   Value(chosen.text, resolved.derived \/ chosen.derived))
  BY <1>11, <1>12, <1>13
<1>15. /\ plan.text = chosen.text
       /\ plan.derived = (resolved.derived \/ chosen.derived)
  BY <1>14, Zenon DEF Fill, Value
<1> QED BY <1>13, <1>15, Zenon DEF plan, chosen

LEMMA PlannedNamesSubject ==
  ASSUME NEW field, NEW candidate, IsCandidate(candidate),
         NEW entry \in MayReport(field, candidate)
  PROVE  NamesTheSubject(field, candidate, entry)
<1> DEFINE plan == Plan(field, candidate)
           subjects == candidate.subjects["field_of_study"]
<1>1. SUFFICES ASSUME entry.result = "filled", ~entry.derived,
                      entry.slot = "field_of_study", field.options # {},
                      entry.text \notin {"no", "own words"}
               PROVE  /\ Len(subjects) = 1
                      /\ entry.text = field.offers["exact"][subjects[1]]
  BY DEF NamesTheSubject
<1>2. ASSUME NEW o \in Planned(field, candidate), NEW t
      PROVE  AnsweredByCandidate(o, t).text = t
  BY DEF Planned, Outcome, AnsweredByCandidate
<1>3. entry \in Planned(field, candidate)
  <2>1. \/ entry \in Planned(field, candidate)
        \/ \E o \in Planned(field, candidate), t \in Answers :
             entry = AnsweredByCandidate(o, t)
    BY Zenon DEF MayReport
  <2> QED BY <1>1, <1>2, <2>1, Zenon DEF Answers
<1>4. PICK r \in IF plan.how = "surface" THEN {"surfaced"} ELSE Results :
        entry = Outcome(plan, r)
  BY <1>3, Zenon DEF Planned
<1> HIDE DEF plan
<1>5. /\ entry.result = r /\ entry.text = plan.text /\ entry.slot = plan.slot
      /\ entry.derived = plan.derived
  BY <1>4 DEF Outcome
<1>6. plan.how # "surface" /\ plan.slot = "field_of_study" /\ ~plan.derived
  BY <1>1, <1>4, <1>5
<1>7. LET chosen == SubjectOption(subjects, field.offers) IN
        chosen # NoValue /\ plan.text = chosen.text /\ ~chosen.derived
  BY <1>1, <1>6, SubjectPlan DEF plan
<1>8. subjects \in Seq(STRING)
  BY DEF IsCandidate
<1> QED BY <1>5, <1>7, <1>8, UnflaggedIsOwn

-----------------------------------------------------------------------------
(* Pages, plans and entries *)

LEMMA RenderingIsSequence ==
  ASSUME NEW p \in Renderings
  PROVE  /\ p \in Seq(Controls)
         /\ Len(p) \in Nat /\ DOMAIN p = 1 .. Len(p)
         /\ \A i \in DOMAIN p : p[i] \in Controls
         /\ \A i, j \in DOMAIN p : p[i] = p[j] => i = j
<1>1. PICK n \in 0 .. Cardinality(Controls) : p \in [1 .. n -> Controls]
  BY DEF Renderings
<1>2. n \in Nat
  BY ControlsAreFinite, FS_CardinalityType
<1>3. p \in Seq(Controls) /\ Len(p) = n /\ DOMAIN p = 1 .. n
  BY <1>1, <1>2
<1>4. \A i, j \in DOMAIN p : p[i] = p[j] => i = j
  BY DEF Renderings
<1> QED BY <1>1, <1>2, <1>3, <1>4

LEMMA BlankIsRendering == <<>> \in Renderings
<1>1. Cardinality(Controls) \in Nat
  BY ControlsAreFinite, FS_CardinalityType
<1>2. <<>> \in [1 .. 0 -> Controls]
  OBVIOUS
<1> QED BY <1>1, <1>2 DEF Renderings

LEMMA PlansArePlans ==
  ASSUME NEW f \in FormShapes, NEW c \in Profiles
  PROVE  Plans[f][c] = Plan(f, c)
BY DEF Plans

\* An answer given again replaces the one before.
LEMMA AnsweredAgain ==
  ASSUME NEW f, NEW c, NEW entry \in MayReport(f, c), NEW t \in Answers
  PROVE  /\ AnsweredByCandidate(entry, t) \in MayReport(f, c)
         /\ AnsweredByCandidate(entry, t).result = "filled"
         /\ AnsweredByCandidate(entry, t).text = t
<1>1. ASSUME NEW o \in Planned(f, c)
      PROVE  /\ AnsweredByCandidate(o, t) \in MayReport(f, c)
             /\ AnsweredByCandidate(o, t).result = "filled"
             /\ AnsweredByCandidate(o, t).text = t
             /\ \A s : AnsweredByCandidate(AnsweredByCandidate(o, s), t)
                         = AnsweredByCandidate(o, t)
  <2>1. AnsweredByCandidate(o, t) \in MayReport(f, c)
    BY DEF MayReport
  <2>2. PICK r : o = Outcome(Plan(f, c), r)
    BY Zenon DEF Planned
  <2> QED BY <2>1, <2>2 DEF Outcome, AnsweredByCandidate
<1>2. \/ entry \in Planned(f, c)
      \/ \E o \in Planned(f, c), s \in Answers : entry = AnsweredByCandidate(o, s)
  BY Zenon DEF MayReport
<1> QED BY <1>1, <1>2, Zenon

\* What is reported of a field is what was planned for it.
LEMMA OutcomeMayBeReported ==
  ASSUME NEW f, NEW c,
         NEW r \in IF Plan(f, c).how = "surface" THEN {"surfaced"} ELSE Results
  PROVE  /\ Outcome(Plan(f, c), r) \in MayReport(f, c)
         /\ Outcome(Plan(f, c), r).result = r
         /\ Outcome(Plan(f, c), r).text = Plan(f, c).text
<1>1. Outcome(Plan(f, c), r) \in Planned(f, c)
  BY Zenon DEF Planned
<1> QED BY <1>1 DEF MayReport, Outcome

LEMMA ReportedIsEntry ==
  ASSUME NEW f \in FormShapes, NEW c \in Profiles, NEW entry \in MayReport(f, c)
  PROVE  entry \in Entries
BY DEF Entries

LEMMA PageFieldsAreFinite ==
  ASSUME PassTypeOK
  PROVE  /\ IsFiniteSet(PageFields)
         /\ PageFields \subseteq FormShapes
<1>1. ToSet(snapshot) \subseteq Controls
  BY RenderingIsSequence DEF PassTypeOK, ToSet
<1>2. IsFiniteSet(ToSet(snapshot))
  BY <1>1, ControlsAreFinite, FS_Subset
<1>3. IsFiniteSet(PageFields)
  <2> DEFINE g == [c \in ToSet(snapshot) |-> shape[c]]
  <2>1. g \in Surjection(ToSet(snapshot), PageFields)
    BY DEF Surjection, PageFields
  <2> QED BY <1>2, <2>1, FS_Surjection
<1> QED BY <1>1, <1>3 DEF PageFields, PassTypeOK

-----------------------------------------------------------------------------
(* Every step keeps the invariant *)

LEMMA PassStarts == PassInit => PassInv
<1> SUFFICES ASSUME PassInit PROVE PassInv
  OBVIOUS
<1> USE DEF PassInit, NothingTyped
<1>1. PassTypeOK
  <2>1. held = [c \in Controls |-> held[c]]
    OBVIOUS
  <2>2. outcomes \in Seq(Entries) /\ handle \in Nat /\ slipped \in BOOLEAN
    <3>1. slipped \in BOOLEAN
      BY Zenon
    <3>2. outcomes = <<>> /\ handle = 0
      OBVIOUS
    <3>3. handle \in Nat
      BY <3>2
    <3>4. outcomes \in Seq(Entries)
      BY <3>2
    <3> QED BY <3>1, <3>3, <3>4
  <2>3. /\ shape \in [Controls -> FormShapes] /\ profile \in Profiles
        /\ signature \in [Controls -> Signatures]
        /\ page \in Renderings /\ snapshot \in Renderings /\ stage \in Stages
    BY BlankIsRendering, Zenon DEF Stages
  <2> QED BY <2>1, <2>2, <2>3, Zenon DEF PassTypeOK
<1>2. StagesInOrder
  BY DEF StagesInOrder
<1>3. WritesWhereItLooked
  BY DEF WritesWhereItLooked
<1>4. ReportsThePlan
  BY DEF ReportsThePlan
<1>5. FilledIsThere /\ TypedIsReported /\ HumanOnlyUntyped
  BY DEF FilledIsThere, TypedIsReported, HumanOnlyUntyped
<1> QED BY <1>1, <1>2, <1>3, <1>4, <1>5 DEF PassInv

\* What a step of the pass that neither types nor reports leaves as it was.
LEMMA NothingReported ==
  ASSUME PassInv, UNCHANGED <<inputs, held, outcomes, slipped>>,
         snapshot' = snapshot \/ outcomes = <<>>
  PROVE  /\ ReportsThePlan'
         /\ slipped' \/ (FilledIsThere /\ TypedIsReported /\ HumanOnlyUntyped)'
<1> USE DEF PassInv, inputs
<1>1. ReportsThePlan'
  BY DEF ReportsThePlan
<1>2. FilledIsThere => FilledIsThere'
  BY DEF FilledIsThere, Unmistakable, Twins
<1>3. TypedIsReported => TypedIsReported'
  BY DEF TypedIsReported, Twins
<1>4. HumanOnlyUntyped => HumanOnlyUntyped'
  BY DEF HumanOnlyUntyped, OnlyForHumans, Twins
<1> QED BY <1>1, <1>2, <1>3, <1>4

LEMMA PassStutters == PassInv /\ UNCHANGED passVars => PassInv'
<1> SUFFICES ASSUME PassInv, UNCHANGED passVars PROVE PassInv'
  OBVIOUS
<1> USE DEF PassInv, passVars, inputs
<1>1. PassTypeOK'
  BY DEF PassTypeOK
<1>2. StagesInOrder'
  BY DEF StagesInOrder
<1>3. WritesWhereItLooked'
  BY DEF WritesWhereItLooked, PlanFor, SameSignature, Twins
<1> QED BY <1>1, <1>2, <1>3, NothingReported

LEMMA OpenFailsKeeps == PassInv /\ OpenFails => PassInv'
<1> SUFFICES ASSUME PassInv, OpenFails PROVE PassInv'
  OBVIOUS
<1> USE DEF PassInv, OpenFails, inputs
<1>1. PassTypeOK'
  BY DEF PassTypeOK, Stages
<1>2. StagesInOrder'
  BY DEF StagesInOrder
<1>3. WritesWhereItLooked'
  BY DEF WritesWhereItLooked
<1> QED BY <1>1, <1>2, <1>3, NothingReported

LEMMA ReadFieldsKeeps == PassInv /\ ReadFields => PassInv'
<1> SUFFICES ASSUME PassInv, ReadFields PROVE PassInv'
  OBVIOUS
<1> USE DEF PassInv, ReadFields, inputs
<1>1. outcomes = <<>>
  BY DEF StagesInOrder
<1>2. PassTypeOK'
  BY DEF PassTypeOK, Stages
<1>3. StagesInOrder'
  <2>1. Len(outcomes) = 0 /\ Len(page) \in Nat
    BY <1>1, RenderingIsSequence DEF PassTypeOK
  <2> QED BY <2>1 DEF StagesInOrder
<1>4. WritesWhereItLooked'
  BY DEF WritesWhereItLooked
<1> QED BY <1>1, <1>2, <1>3, <1>4, NothingReported

LEMMA ScanBoundariesKeeps == PassInv /\ ScanBoundaries => PassInv'
<1> SUFFICES ASSUME PassInv, ScanBoundaries PROVE PassInv'
  OBVIOUS
<1> USE DEF PassInv, ScanBoundaries, inputs
<1>1. outcomes = <<>> /\ held = [c \in Controls |-> Untyped]
  BY DEF StagesInOrder
<1>2. PassTypeOK'
  BY DEF PassTypeOK, Stages
<1>3. StagesInOrder'
  <2>1. /\ Len(outcomes) = 0 /\ Len(snapshot) \in Nat
        /\ DOMAIN snapshot = 1 .. Len(snapshot) /\ snapshot \in Seq(Controls)
    BY <1>1, RenderingIsSequence DEF PassTypeOK
  <2>2. stage' = "filling" => Len(snapshot) > 0
    BY <2>1
  <2> QED BY <1>1, <2>1, <2>2 DEF StagesInOrder
<1>4. WritesWhereItLooked'
  BY DEF WritesWhereItLooked
<1> QED BY <1>2, <1>3, <1>4, NothingReported

\* The field being filled, and what is planned for it.
LEMMA FieldBeingFilled ==
  ASSUME PassInv, handle \in DOMAIN snapshot
  PROVE  /\ snapshot[handle] \in Controls
         /\ shape[snapshot[handle]] \in FormShapes
         /\ profile \in Profiles
         /\ PlanFor(handle) = Plan(shape[snapshot[handle]], profile)
<1>1. /\ snapshot[handle] \in Controls
      /\ shape[snapshot[handle]] \in FormShapes
      /\ profile \in Profiles
  BY RenderingIsSequence DEF PassInv, PassTypeOK
<1> QED BY <1>1, PlansArePlans DEF PlanFor

LEMMA OneMore ==
  ASSUME NEW T, NEW s \in Seq(T), NEW e \in T
  PROVE  /\ Append(s, e) \in Seq(T) /\ Len(Append(s, e)) = Len(s) + 1
         /\ Len(s) \in Nat
         /\ DOMAIN s = 1 .. (Len(s) + 1) - 1 /\ DOMAIN Append(s, e) = 1 .. Len(s) + 1
         /\ \A i \in 1 .. (Len(s) + 1) - 1 : Append(s, e)[i] = s[i]
         /\ Append(s, e)[Len(s) + 1] = e
OBVIOUS

LEMMA NotTheLast ==
  ASSUME NEW T, NEW s \in Seq(T), NEW n \in DOMAIN s, n # Len(s)
  PROVE  n + 1 \in DOMAIN s
OBVIOUS

\* A report on the field at hand: all that does not depend on what was typed.
LEMMA ReportKeeps ==
  ASSUME PassInv, stage \in {"filling", "writing"},
         NEW r \in IF PlanFor(handle).how = "surface" THEN {"surfaced"} ELSE Results,
         Report(Outcome(PlanFor(handle), r)),
         UNCHANGED <<inputs, page, snapshot, found, slipped>>,
         held' = [c \in Controls |-> held'[c]]
  PROVE  /\ PassTypeOK' /\ StagesInOrder' /\ WritesWhereItLooked' /\ ReportsThePlan'
         /\ handle = Len(outcomes) + 1 /\ handle \in DOMAIN snapshot
         /\ DOMAIN outcomes' = 1 .. handle
         /\ \A i \in DOMAIN outcomes : i \in 1 .. handle - 1 /\ outcomes'[i] = outcomes[i]
         /\ outcomes'[handle].result = r
         /\ outcomes'[handle].text = PlanFor(handle).text
<1> DEFINE f == shape[snapshot[handle]]
           entry == Outcome(PlanFor(handle), r)
<1>0. handle \in Nat
  BY DEF PassInv, PassTypeOK
<1>1. handle = Len(outcomes) + 1 /\ handle \in DOMAIN snapshot
  BY DEF PassInv, StagesInOrder
<1>2. f \in FormShapes /\ profile \in Profiles /\ PlanFor(handle) = Plan(f, profile)
  BY <1>1, FieldBeingFilled
<1>3. /\ entry \in MayReport(f, profile) /\ entry.result = r
      /\ entry.text = PlanFor(handle).text /\ entry \in Entries
  <2> HIDE DEF f
  <2> QED BY <1>2, OutcomeMayBeReported, ReportedIsEntry
<1> HIDE DEF entry
<1>4. /\ outcomes' = Append(outcomes, entry) /\ handle' = handle + 1
      /\ stage' = IF handle = Len(snapshot) THEN "parked" ELSE "filling"
  BY DEF Report, entry
<1>5. /\ outcomes \in Seq(Entries) /\ snapshot \in Seq(Controls)
      /\ Len(snapshot) \in Nat /\ DOMAIN snapshot = 1 .. Len(snapshot)
  BY RenderingIsSequence DEF PassInv, PassTypeOK
<1>6. /\ outcomes' \in Seq(Entries) /\ Len(outcomes') = handle
      /\ DOMAIN outcomes' = 1 .. handle
      /\ DOMAIN outcomes = 1 .. handle - 1
      /\ \A i \in 1 .. handle - 1 : outcomes'[i] = outcomes[i]
      /\ outcomes'[handle] = entry
  <2>1. outcomes \in Seq(Entries) /\ entry \in Entries
    BY <1>3, <1>5
  <2>2. /\ Append(outcomes, entry) \in Seq(Entries)
        /\ Len(Append(outcomes, entry)) = Len(outcomes) + 1
        /\ DOMAIN outcomes = 1 .. (Len(outcomes) + 1) - 1
        /\ DOMAIN Append(outcomes, entry) = 1 .. Len(outcomes) + 1
        /\ \A i \in 1 .. (Len(outcomes) + 1) - 1 : Append(outcomes, entry)[i] = outcomes[i]
        /\ Append(outcomes, entry)[Len(outcomes) + 1] = entry
    BY ONLY <2>1, OneMore
  <2>3. outcomes' = Append(outcomes, entry)
    BY <1>4
  <2>4. handle = Len(outcomes) + 1
    BY <1>1
  <2> QED BY ONLY <2>2, <2>3, <2>4, Zenon
<1>7. PassTypeOK'
  <2>1. handle' \in Nat
    BY <1>0, <1>4
  <2>0. stage' \in Stages
    BY <1>4 DEF Stages
  <2>2. /\ shape' \in [Controls -> FormShapes] /\ profile' \in Profiles
          /\ signature' \in [Controls -> Signatures]
        /\ page' \in Renderings /\ snapshot' \in Renderings /\ slipped' \in BOOLEAN
    BY DEF PassInv, PassTypeOK, inputs
  <2> QED BY <1>6, <2>0, <2>1, <2>2, Zenon DEF PassTypeOK
<1>8. StagesInOrder'
  <2>1. found \cap StopsAutofill = {}
    BY DEF PassInv, StagesInOrder
  <2>0. handle <= Len(snapshot)
    BY <1>1, <1>5
  <2>2. /\ stage' = "filling" => handle + 1 \in DOMAIN snapshot
        /\ stage' = "parked" => handle = Len(snapshot)
        /\ handle <= Len(snapshot)
    <3>1. CASE handle = Len(snapshot)
      BY <1>4, <2>0, <3>1
    <3>2. CASE handle # Len(snapshot)
      <4>1. handle + 1 \in DOMAIN snapshot
        BY ONLY <1>1, <1>5, <3>2, NotTheLast
      <4> QED BY <1>4, <2>0, <3>2, <4>1
    <3> QED BY <3>1, <3>2
  <2>3. stage' \in {"filling", "parked"} /\ handle' = handle + 1
    BY <1>4
  <2>4. Len(outcomes') = handle /\ snapshot' = snapshot /\ found' = found
    BY <1>6
  <2> QED BY ONLY <2>1, <2>2, <2>3, <2>4 DEF StagesInOrder
<1>9. WritesWhereItLooked'
  BY <1>4 DEF WritesWhereItLooked
<1>10. ReportsThePlan'
  <2> SUFFICES ASSUME NEW i \in 1 .. handle
               PROVE  outcomes'[i] \in MayReport(shape[snapshot[i]], profile)
    BY <1>6 DEF ReportsThePlan, inputs
  <2>1. CASE i = handle
    BY <1>3, <1>6, <2>1
  <2>2. CASE i \in 1 .. handle - 1
    BY <1>6, <2>2 DEF PassInv, ReportsThePlan
  <2> QED BY <1>1, <1>5, <2>1, <2>2
<1> QED BY <1>1, <1>3, <1>6, <1>7, <1>8, <1>9, <1>10

\* A report on a field that nothing was typed into.
LEMMA UntypedReportKeeps ==
  ASSUME PassInv, stage \in {"filling", "writing"},
         NEW r \in IF PlanFor(handle).how = "surface" THEN {"surfaced"} ELSE Results,
         r \notin {"filled", "attached"},
         Report(Outcome(PlanFor(handle), r)),
         UNCHANGED <<inputs, page, held, snapshot, found, slipped>>
  PROVE  PassInv'
<1>1. held' = [c \in Controls |-> held'[c]]
  BY DEF PassInv, PassTypeOK
<1>2. /\ PassTypeOK' /\ StagesInOrder' /\ WritesWhereItLooked' /\ ReportsThePlan'
      /\ DOMAIN outcomes' = 1 .. handle /\ handle = Len(outcomes) + 1
      /\ \A i \in DOMAIN outcomes : i \in 1 .. handle - 1 /\ outcomes'[i] = outcomes[i]
      /\ outcomes'[handle].result = r
  BY <1>1, ReportKeeps
<1>3. DOMAIN outcomes = 1 .. handle - 1 /\ handle \in Nat
  BY <1>2 DEF PassInv, PassTypeOK
<1>4. FilledIsThere => FilledIsThere'
  BY <1>2, <1>3 DEF FilledIsThere, Unmistakable, Twins, inputs
<1>5. TypedIsReported => TypedIsReported'
  BY <1>2, <1>3 DEF TypedIsReported, Twins, inputs
<1>6. HumanOnlyUntyped => HumanOnlyUntyped'
  BY DEF HumanOnlyUntyped, OnlyForHumans, Twins, inputs
<1> QED BY <1>2, <1>4, <1>5, <1>6 DEF PassInv

LEMMA LeaveToCandidateKeeps == PassInv /\ LeaveToCandidate => PassInv'
<1> SUFFICES ASSUME PassInv, LeaveToCandidate PROVE PassInv'
  OBVIOUS
<1>1. "surfaced" \in IF PlanFor(handle).how = "surface" THEN {"surfaced"} ELSE Results
  BY DEF Results
<1>2. /\ stage = "filling" /\ Report(Outcome(PlanFor(handle), "surfaced"))
      /\ UNCHANGED <<inputs, page, held, snapshot, found, moves, slipped>>
  BY DEF LeaveToCandidate
<1> QED BY <1>1, <1>2, UntypedReportKeeps

LEMMA WriteFailsKeeps == PassInv /\ WriteFails => PassInv'
<1> SUFFICES ASSUME PassInv, WriteFails PROVE PassInv'
  OBVIOUS
<1>1. "failed" \in IF PlanFor(handle).how = "surface" THEN {"surfaced"} ELSE Results
  BY DEF Results, WriteFails, PassInv, WritesWhereItLooked
<1>2. /\ stage = "writing" /\ Report(Outcome(PlanFor(handle), "failed"))
      /\ UNCHANGED <<inputs, page, held, snapshot, found, moves, slipped>>
  BY DEF WriteFails
<1> QED BY <1>1, <1>2, UntypedReportKeeps

LEMMA LocateKeeps == PassInv /\ Locate => PassInv'
<1> SUFFICES ASSUME PassInv, Locate PROVE PassInv'
  OBVIOUS
<1> USE DEF PassInv, Locate, inputs
<1>1. PassTypeOK'
  BY DEF PassTypeOK, Stages
<1>2. StagesInOrder'
  BY DEF StagesInOrder
<1>3. WritesWhereItLooked'
  <2>1. /\ PlanFor(handle)' = PlanFor(handle)
        /\ SameSignature(handle)' = SameSignature(handle)
    BY Zenon DEF PlanFor, SameSignature, Twins
  <2>2. PlanFor(handle).how # "surface"
    BY Zenon
  <2>3. stage' = "writing" => SameSignature(handle)
    OBVIOUS
  <2>4. stage' # "answering"
    OBVIOUS
  <2> QED BY <2>1, <2>2, <2>3, <2>4 DEF WritesWhereItLooked
<1> QED BY <1>1, <1>2, <1>3, NothingReported

\* What is typed goes where the report says, if the page stood still.
LEMMA TypedKeeps ==
  ASSUME PassInv, stage = "writing", PlanFor(handle).how # "surface",
         NEW r \in {"filled", "attached"},
         Report(Outcome(PlanFor(handle), r)),
         held' = [held EXCEPT ![page[handle]]
                    = Shown(shape[snapshot[handle]], PlanFor(handle).text)],
         UNCHANGED <<inputs, page, snapshot, found, slipped>>
  PROVE  PassInv'
<1> DEFINE c == snapshot[handle]
           f == shape[c]
           plan == PlanFor(handle)
<1>1. r \in IF plan.how = "surface" THEN {"surfaced"} ELSE Results
  BY DEF Results
<1>2. held = [d \in Controls |-> held[d]] /\ held' = [d \in Controls |-> held'[d]]
  BY DEF PassInv, PassTypeOK
<1>3. /\ PassTypeOK' /\ StagesInOrder' /\ WritesWhereItLooked' /\ ReportsThePlan'
      /\ handle = Len(outcomes) + 1 /\ handle \in DOMAIN snapshot
      /\ DOMAIN outcomes' = 1 .. handle
      /\ \A i \in DOMAIN outcomes : i \in 1 .. handle - 1 /\ outcomes'[i] = outcomes[i]
      /\ outcomes'[handle].result = r
      /\ outcomes'[handle].text = plan.text
  BY <1>1, <1>2, ReportKeeps
<1>4. DOMAIN outcomes = 1 .. handle - 1 /\ handle \in Nat
  BY <1>3 DEF PassInv, PassTypeOK
<1>5. /\ c \in Controls /\ f \in FormShapes /\ profile \in Profiles
      /\ plan = Plan(f, profile)
  BY <1>3, FieldBeingFilled
<1>6. /\ DOMAIN snapshot = 1 .. Len(snapshot)
      /\ \A i, j \in DOMAIN snapshot : snapshot[i] = snapshot[j] => i = j
      /\ \A i \in DOMAIN snapshot : snapshot[i] \in Controls
  BY RenderingIsSequence DEF PassInv, PassTypeOK
<1>7. Len(outcomes) <= Len(snapshot) /\ outcomes \in Seq(Entries)
  BY DEF PassInv, StagesInOrder, PassTypeOK
<1>8. \A i \in 1 .. handle - 1 : i \in DOMAIN snapshot /\ snapshot[i] # c
  BY <1>3, <1>4, <1>6
<1>9. CASE slipped
  BY <1>3, <1>9 DEF PassInv
<1>10. CASE ~slipped
  <2>1. FilledIsThere /\ TypedIsReported /\ HumanOnlyUntyped
    BY <1>10 DEF PassInv
  <2> DEFINE e == page[handle]
  <2>2. e \in Controls /\ Twins(e, c)
    BY <1>10, RenderingIsSequence
       DEF PassInv, PassTypeOK, WritesWhereItLooked, SameSignature
  <2>3. /\ held'[e] = Shown(f, plan.text)
        /\ \A d \in Controls \ {e} : held'[d] = held[d]
    BY <1>2, <1>5, <2>2
  <2> HIDE DEF c, f, plan, e
  <2>4. FilledIsThere'
    <3> SUFFICES ASSUME NEW i \in 1 .. handle,
                        outcomes'[i].result \in {"filled", "attached"},
                        Unmistakable(snapshot[i])
                 PROVE  held'[snapshot[i]] = Shown(shape[snapshot[i]], outcomes'[i].text)
      BY <1>3 DEF FilledIsThere, Unmistakable, Twins, inputs
    <3>1. CASE i = handle
      <4>1. e = c
        BY <2>2, <3>1 DEF Unmistakable, Twins, c
      <4> QED BY <1>3, <2>3, <3>1, <4>1 DEF c, f
    <3>2. CASE i \in 1 .. handle - 1
      <4>1. held[snapshot[i]] = Shown(shape[snapshot[i]], outcomes[i].text)
        BY <1>3, <1>4, <2>1, <3>2 DEF FilledIsThere
      <4>2. held'[snapshot[i]] = held[snapshot[i]]
        <5>1. snapshot[i] \in Controls /\ snapshot[i] # c
          BY <1>6, <1>8, <3>2
        <5>2. e # snapshot[i]
          BY <1>5, <2>2, <5>1 DEF Unmistakable, Twins
        <5> QED BY <2>3, <5>1, <5>2
      <4> QED BY <1>3, <1>4, <3>2, <4>1, <4>2
    <3> QED BY <1>4, <3>1, <3>2
  <2>5. TypedIsReported'
    <3> SUFFICES ASSUME NEW d \in Controls, held'[d] # Untyped
                 PROVE  \E i \in DOMAIN outcomes' :
                          /\ Twins(d, snapshot[i])
                          /\ outcomes'[i].result \in {"filled", "attached"}
      BY DEF TypedIsReported, Twins, inputs
    <3>1. CASE d = e
      BY <1>3, <1>4, <2>2, <3>1 DEF c
    <3>2. CASE d # e
      <4>1. PICK i \in DOMAIN outcomes :
              Twins(d, snapshot[i]) /\ outcomes[i].result \in {"filled", "attached"}
        BY <2>1, <2>3, <3>2 DEF TypedIsReported
      <4> QED BY <1>3, <1>4, <4>1
    <3> QED BY <3>1, <3>2
  <2>6. HumanOnlyUntyped'
    <3> SUFFICES ASSUME NEW d \in Controls, OnlyForHumans(d)
                 PROVE  held'[d] = Untyped
      BY DEF HumanOnlyUntyped, OnlyForHumans, Twins, inputs
    <3>1. HumanOnlyBoundary(f) = None
      BY <1>5, HumanIsSurfaced DEF plan
    <3>2. d # e
      BY <1>5, <2>2, <3>1 DEF OnlyForHumans, f
    <3> QED BY <2>1, <2>3, <3>2 DEF HumanOnlyUntyped
  <2> QED BY <1>3, <2>4, <2>5, <2>6 DEF PassInv
<1> QED BY <1>9, <1>10

LEMMA WriteKeeps == PassInv /\ Write => PassInv'
<1> SUFFICES ASSUME PassInv, Write PROVE PassInv'
  OBVIOUS
<1> DEFINE plan == PlanFor(handle)
           refused == plan.how = "fill" /\ ~Takes(shape[snapshot[handle]], plan.text)
<1>1. /\ stage = "writing" /\ plan.how # "surface"
      /\ UNCHANGED <<inputs, page, snapshot, found, slipped>>
  BY DEF Write, PassInv, WritesWhereItLooked
<1>2. CASE refused
  <2>1. "not_accepted" \in IF plan.how = "surface" THEN {"surfaced"} ELSE Results
    BY <1>1 DEF Results
  <2>2. Report(Outcome(plan, "not_accepted")) /\ UNCHANGED held
    BY <1>2, Zenon DEF Write
  <2> QED BY <1>1, <2>1, <2>2, UntypedReportKeeps
<1>3. CASE ~refused
  <2> DEFINE r == IF plan.how = "attach" THEN "attached" ELSE "filled"
  <2>1. /\ held' = [held EXCEPT ![page[handle]]
                      = Shown(shape[snapshot[handle]], plan.text)]
        /\ Report(Outcome(plan, r))
    BY <1>3, Zenon DEF Write
  <2>2. r \in {"filled", "attached"}
    OBVIOUS
  <2> HIDE DEF r
  <2> QED BY <1>1, <2>1, <2>2, TypedKeeps
<1> QED BY <1>2, <1>3

LEMMA BeginAnswerKeeps ==
  PassInv /\ (\E i \in DOMAIN snapshot : BeginAnswer(i)) => PassInv'
<1> SUFFICES ASSUME PassInv, NEW i \in DOMAIN snapshot, BeginAnswer(i) PROVE PassInv'
  OBVIOUS
<1> USE DEF PassInv, BeginAnswer, inputs
<1>1. PassTypeOK'
  <2>1. i \in Nat
    BY RenderingIsSequence DEF PassTypeOK
  <2> QED BY <2>1 DEF PassTypeOK, Stages
<1>2. StagesInOrder'
  BY DEF StagesInOrder
<1>3. WritesWhereItLooked'
  BY DEF WritesWhereItLooked, SameSignature, Twins
<1> QED BY <1>1, <1>2, <1>3, NothingReported

LEMMA FinishAnswerKeeps ==
  PassInv /\ (\E text \in {"no", "own words"} : FinishAnswer(text)) => PassInv'
<1> SUFFICES ASSUME PassInv, NEW text \in Answers, FinishAnswer(text) PROVE PassInv'
  BY DEF Answers
<1> DEFINE c == snapshot[handle]
           f == shape[c]
           entry == AnsweredByCandidate(outcomes[handle], text)
<1>1. /\ stage = "answering" /\ stage' = "parked"
      /\ UNCHANGED <<inputs, page, snapshot, found, handle, slipped>>
  BY DEF FinishAnswer
<1>2. /\ handle \in DOMAIN snapshot /\ HumanOnlyBoundary(f) = None
      /\ Len(outcomes) = Len(snapshot)
      /\ found \cap StopsAutofill = {}
      /\ slipped \/ SameSignature(handle)
  BY <1>1 DEF PassInv, WritesWhereItLooked, StagesInOrder
<1>3. /\ DOMAIN snapshot = 1 .. Len(snapshot)
      /\ \A i, j \in DOMAIN snapshot : snapshot[i] = snapshot[j] => i = j
      /\ \A i \in DOMAIN snapshot : snapshot[i] \in Controls
      /\ DOMAIN outcomes = DOMAIN snapshot /\ outcomes \in Seq(Entries)
  <2>1. snapshot \in Renderings /\ outcomes \in Seq(Entries)
    BY DEF PassInv, PassTypeOK
  <2>2. /\ Len(snapshot) \in Nat /\ DOMAIN snapshot = 1 .. Len(snapshot)
        /\ \A i \in DOMAIN snapshot : snapshot[i] \in Controls
        /\ \A i, j \in DOMAIN snapshot : snapshot[i] = snapshot[j] => i = j
    BY ONLY <2>1, RenderingIsSequence
  <2>3. DOMAIN outcomes = 1 .. Len(outcomes)
    BY <2>1
  <2> QED BY <1>2, <2>1, <2>2, <2>3
<1>4. held = [d \in Controls |-> held[d]]
  BY DEF PassInv, PassTypeOK
<1>5. CASE UNCHANGED <<held, outcomes>>
  <2>1. PassTypeOK'
    BY <1>1, <1>5 DEF PassInv, PassTypeOK, Stages, inputs
  <2>2. StagesInOrder'
    BY <1>1, <1>2, <1>5 DEF StagesInOrder
  <2>3. WritesWhereItLooked'
    BY <1>1 DEF WritesWhereItLooked
  <2> QED BY <1>1, <1>5, <2>1, <2>2, <2>3, NothingReported DEF PassInv
<1>6. CASE /\ held' = [held EXCEPT ![page[handle]] = Shown(f, text)]
           /\ outcomes' = [outcomes EXCEPT ![handle] = AnsweredByCandidate(@, text)]
  <2>1. f \in FormShapes /\ profile \in Profiles /\ c \in Controls
    BY <1>2, <1>3 DEF PassInv, PassTypeOK
  <2>2. outcomes[handle] \in MayReport(f, profile)
    BY <1>2, <1>3 DEF PassInv, ReportsThePlan
  <2>3. /\ entry \in MayReport(f, profile) /\ entry.result = "filled"
        /\ entry.text = text /\ entry \in Entries
    <3> HIDE DEF f
    <3> QED BY <2>1, <2>2, AnsweredAgain, ReportedIsEntry
  <2> HIDE DEF entry
  <2>4. /\ outcomes' \in Seq(Entries) /\ Len(outcomes') = Len(outcomes)
        /\ DOMAIN outcomes' = DOMAIN outcomes
        /\ outcomes'[handle] = entry
        /\ \A i \in DOMAIN outcomes : i # handle => outcomes'[i] = outcomes[i]
    <3>1. outcomes' = [outcomes EXCEPT ![handle] = entry]
      BY <1>6, Zenon DEF entry
    <3> QED BY ONLY <1>2, <1>3, <2>3, <3>1
  <2>5. held' = [d \in Controls |-> held'[d]]
    BY <1>4, <1>6
  <2>6. PassTypeOK'
    <3>1. /\ shape' \in [Controls -> FormShapes] /\ profile' \in Profiles
          /\ signature' \in [Controls -> Signatures]
          /\ page' \in Renderings /\ snapshot' \in Renderings /\ slipped' \in BOOLEAN
          /\ handle' \in Nat
      BY <1>1 DEF PassInv, PassTypeOK, inputs
    <3>2. stage' \in Stages
      BY <1>1 DEF Stages
    <3> QED BY <2>4, <2>5, <3>1, <3>2, Zenon DEF PassTypeOK
  <2>7. StagesInOrder'
    BY <1>1, <1>2, <2>4 DEF StagesInOrder
  <2>8. WritesWhereItLooked'
    BY <1>1 DEF WritesWhereItLooked
  <2>9. ReportsThePlan'
    <3> SUFFICES ASSUME NEW i \in DOMAIN outcomes
                 PROVE  outcomes'[i] \in MayReport(shape[snapshot[i]], profile)
      BY <1>1, <2>4 DEF ReportsThePlan, inputs
    <3> QED BY <2>3, <2>4 DEF PassInv, ReportsThePlan
  <2>10. CASE slipped
    BY <1>1, <2>6, <2>7, <2>8, <2>9, <2>10 DEF PassInv
  <2>11. CASE ~slipped
    <3>1. FilledIsThere /\ TypedIsReported /\ HumanOnlyUntyped
      BY <2>11 DEF PassInv
    <3> DEFINE e == page[handle]
    <3>2. e \in Controls /\ Twins(e, c)
      BY <1>2, <2>11, RenderingIsSequence DEF PassInv, PassTypeOK, SameSignature
    <3>3. /\ held'[e] = Shown(f, text)
          /\ \A d \in Controls \ {e} : held'[d] = held[d]
      BY <1>4, <1>6, <3>2
    <3> HIDE DEF c, f, e
    <3>4. FilledIsThere'
      <4> SUFFICES ASSUME NEW i \in DOMAIN outcomes,
                          outcomes'[i].result \in {"filled", "attached"},
                          Unmistakable(snapshot[i])
                   PROVE  held'[snapshot[i]] = Shown(shape[snapshot[i]], outcomes'[i].text)
        BY <1>1, <2>4 DEF FilledIsThere, Unmistakable, Twins, inputs
      <4>1. CASE i = handle
        <5>1. e = c
          BY <3>2, <4>1 DEF Unmistakable, Twins, c
        <5> QED BY <2>3, <2>4, <3>3, <4>1, <5>1 DEF c, f
      <4>2. CASE i # handle
        <5>1. snapshot[i] \in Controls /\ snapshot[i] # c
          BY <1>2, <1>3, <4>2 DEF c
        <5>2. e # snapshot[i]
          BY <2>1, <3>2, <5>1 DEF Unmistakable, Twins
        <5> QED BY <2>4, <3>1, <3>3, <4>2, <5>1, <5>2 DEF FilledIsThere
      <4> QED BY <4>1, <4>2
    <3>5. TypedIsReported'
      <4> SUFFICES ASSUME NEW d \in Controls, held'[d] # Untyped
                   PROVE  \E i \in DOMAIN outcomes' :
                            /\ Twins(d, snapshot[i])
                            /\ outcomes'[i].result \in {"filled", "attached"}
        BY <1>1 DEF TypedIsReported, Twins, inputs
      <4>1. CASE d = e
        BY <1>2, <1>3, <2>3, <2>4, <3>2, <4>1 DEF c
      <4>2. CASE d # e
        <5>1. PICK i \in DOMAIN outcomes :
                /\ Twins(d, snapshot[i])
                /\ outcomes[i].result \in {"filled", "attached"}
          BY <3>1, <3>3, <4>2 DEF TypedIsReported
        <5>2. outcomes'[i].result \in {"filled", "attached"}
          BY <2>3, <2>4, <5>1
        <5> QED BY <2>4, <5>1, <5>2
      <4> QED BY <4>1, <4>2
    <3>6. HumanOnlyUntyped'
      <4> SUFFICES ASSUME NEW d \in Controls, OnlyForHumans(d)
                   PROVE  held'[d] = Untyped
        BY <1>1 DEF HumanOnlyUntyped, OnlyForHumans, Twins, inputs
      <4>1. d # e
        BY <1>2, <2>1, <3>2 DEF OnlyForHumans, f
      <4> QED BY <3>1, <3>3, <4>1 DEF HumanOnlyUntyped
    <3> QED BY <2>6, <2>7, <2>8, <2>9, <3>4, <3>5, <3>6 DEF PassInv
  <2> QED BY <2>10, <2>11
<1> QED BY <1>5, <1>6 DEF FinishAnswer

LEMMA PageMovesKeeps == PassInv /\ PageMoves => PassInv'
<1> SUFFICES ASSUME PassInv, PageMoves PROVE PassInv'
  OBVIOUS
<1> USE DEF PassInv, PageMoves, inputs
<1>1. PassTypeOK'
  BY DEF PassTypeOK, Stages
<1>2. StagesInOrder'
  BY DEF StagesInOrder
<1>3. WritesWhereItLooked'
  <2>1. PlanFor(handle)' = PlanFor(handle)
    BY Zenon DEF PlanFor
  <2> QED BY <2>1 DEF WritesWhereItLooked
<1>4. ReportsThePlan'
  BY DEF ReportsThePlan
<1>5. slipped' \/ (FilledIsThere /\ TypedIsReported /\ HumanOnlyUntyped)'
  <2>1. FilledIsThere => FilledIsThere'
    BY DEF FilledIsThere, Unmistakable, Twins
  <2>2. TypedIsReported => TypedIsReported'
    BY DEF TypedIsReported, Twins
  <2>3. HumanOnlyUntyped => HumanOnlyUntyped'
    BY DEF HumanOnlyUntyped, OnlyForHumans, Twins
  <2> QED BY <2>1, <2>2, <2>3
<1> QED BY <1>1, <1>2, <1>3, <1>4, <1>5

-----------------------------------------------------------------------------
(* The properties *)

THEOREM PassIsInductive == PassSpec => []PassInv
<1>1. PassInit => PassInv
  BY PassStarts
<1>2. PassInv /\ [PassNext]_passVars => PassInv'
  <2> SUFFICES ASSUME PassInv, [PassNext]_passVars PROVE PassInv'
    OBVIOUS
  <2>1. CASE OpenFails
    BY <2>1, OpenFailsKeeps
  <2>2. CASE ReadFields
    BY <2>2, ReadFieldsKeeps
  <2>3. CASE ScanBoundaries
    BY <2>3, ScanBoundariesKeeps
  <2>4. CASE LeaveToCandidate
    BY <2>4, LeaveToCandidateKeeps
  <2>5. CASE Locate
    BY <2>5, LocateKeeps
  <2>6. CASE Write
    BY <2>6, WriteKeeps
  <2>7. CASE WriteFails
    BY <2>7, WriteFailsKeeps
  <2>8. CASE \E i \in DOMAIN snapshot : BeginAnswer(i)
    BY <2>8, BeginAnswerKeeps
  <2>9. CASE \E text \in {"no", "own words"} : FinishAnswer(text)
    BY <2>9, FinishAnswerKeeps
  <2>10. CASE PageMoves
    BY <2>10, PageMovesKeeps
  <2>11. CASE UNCHANGED passVars
    BY <2>11, PassStutters
  <2> QED BY <2>1, <2>2, <2>3, <2>4, <2>5, <2>6, <2>7, <2>8, <2>9, <2>10, <2>11
       DEF PassNext
<1> QED BY <1>1, <1>2, PTL DEF PassSpec

\* The field behind an entry of the report, and the candidate.
LEMMA EntryIsOfField ==
  ASSUME PassInv, NEW i \in DOMAIN outcomes
  PROVE  /\ IsFormField(shape[snapshot[i]])
         /\ IsCandidate(profile)
         /\ outcomes[i] \in MayReport(shape[snapshot[i]], profile)
<1>1. i \in DOMAIN snapshot
  <2>1. Len(outcomes) <= Len(snapshot) /\ outcomes \in Seq(Entries)
    BY DEF PassInv, StagesInOrder, PassTypeOK
  <2>2. snapshot \in Seq(Controls)
    BY RenderingIsSequence DEF PassInv, PassTypeOK
  <2> QED BY <2>1, <2>2
<1>2. shape[snapshot[i]] \in FormShapes /\ profile \in Profiles
  BY <1>1, RenderingIsSequence DEF PassInv, PassTypeOK
<1> QED BY <1>2, ShapesAreFormFields, ProfilesAreCandidates DEF PassInv, ReportsThePlan

\* What the report says was filled in is in its own control if no other shares
\* its signature, nothing was typed but into a control of the signature of one
\* reported so, and a subject picked without a flag is the candidate's only one
\* in its own words, unless the page changed between a check and its write.
THEOREM ReportIsTrue == PassSpec => []ReportMatchesPage
<1>1. PassInv => ReportMatchesPage
  <2> SUFFICES ASSUME PassInv, ~slipped PROVE ReportMatchesPage
    BY DEF ReportMatchesPage
  <2>1. FilledIsThere /\ TypedIsReported
    BY DEF PassInv
  <2>2. ASSUME NEW i \in DOMAIN outcomes
        PROVE  NamesTheSubject(shape[snapshot[i]], profile, outcomes[i])
    BY EntryIsOfField, PlannedNamesSubject
  <2>3. \A i \in DOMAIN outcomes :
          LET field == shape[snapshot[i]]
              subjects == profile.subjects["field_of_study"]
          IN outcomes[i].result = "filled" /\ ~outcomes[i].derived
               /\ outcomes[i].slot = "field_of_study" /\ field.options # {}
               /\ outcomes[i].text \notin {"no", "own words"} =>
                 Len(subjects) = 1
                   /\ outcomes[i].text = field.offers["exact"][subjects[1]]
    BY <2>2 DEF NamesTheSubject
  <2> QED BY <2>1, <2>3, Zenon DEF ReportMatchesPage, FilledIsThere, TypedIsReported
<1> QED BY <1>1, PassIsInductive, PTL

\* What asks for a human is not typed into unless its signature is that of a
\* control that asks for none or the page slipped away, a login wall leaves the form as
\* it was, and the inspection of a portal stops at every such label.
THEOREM HumanOnlyFieldsAreLeft == PassSpec => []HumanOnlyIsLeftAlone
<1>1. PassInv => HumanOnlyIsLeftAlone
  <2> SUFFICES ASSUME PassInv PROVE HumanOnlyIsLeftAlone
    OBVIOUS
  <2>1. ASSUME ~slipped, NEW c \in Controls,
               \A d \in Controls : Twins(c, d) => ForHumans(d)
        PROVE  held[c] = Untyped
    <3>1. OnlyForHumans(c)
      <4> SUFFICES ASSUME NEW d \in Controls, Twins(c, d)
                   PROVE  HumanOnlyBoundary(shape[d]) # None
        BY DEF OnlyForHumans
      <4>1. AsksForHuman(shape[d], shape[d].label \cup shape[d].attributes)
        BY <2>1 DEF ForHumans
      <4> QED BY <4>1, HumanIsAsked DEF None
    <3> QED BY <2>1, <3>1 DEF PassInv, HumanOnlyUntyped
  <2>2. ASSUME found \cap StopsAutofill # {}, NEW c \in Controls
        PROVE  held[c] = Untyped
    <3>1. held = [d \in Controls |-> Untyped]
      BY <2>2 DEF PassInv, StagesInOrder
    <3> QED BY <3>1
  <2>3. ASSUME NEW f \in PageFields, AsksForHuman(f, f.label)
        PROVE  HumanOnlyBoundary([f EXCEPT !.attributes = {}])
                 \in HardStops(shown, PageFields)
    <3>1. IsFiniteSet(PageFields) /\ IsFormField(f)
      BY PageFieldsAreFinite, ShapesAreFormFields DEF PassInv
    <3> QED BY <2>3, <3>1, HumanIsHardStop
  <2> QED BY <2>1, <2>2, <2>3, Zenon DEF HumanOnlyIsLeftAlone
<1> QED BY <1>1, PassIsInductive, PTL

\* A question of law that the pass answered is answered as the candidate
\* declared it, whatever the label, the kind of field and the declaration.
THEOREM LegalAnswersHold == PassSpec => []LegalAnswersAreTrue
<1>1. PassInv => LegalAnswersAreTrue
  <2> SUFFICES ASSUME PassInv, NEW i \in DOMAIN outcomes
               PROVE  AnsweredTruly(shape[snapshot[i]], profile, outcomes[i])
    BY Zenon DEF LegalAnswersAreTrue, AnsweredTruly
  <2> QED BY EntryIsOfField, PlannedIsTrue
<1> QED BY <1>1, PassIsInductive, PTL

=============================================================================
