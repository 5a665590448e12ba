---------------------------- MODULE PageBoundaries ----------------------------
(***************************************************************************)
(* The places of a portal where only the candidate may go on, as the two   *)
(* readers of a page see them.  A fill pass and a submission look for a    *)
(* login, a CAPTCHA or a signature with one vocabulary; the inspection of  *)
(* a portal looks for hard stops with another.                             *)
(*                                                                         *)
(* A page is the words found in its address, its scripts and frames, the   *)
(* names its elements go by and its text, each a set; every phrase list of *)
(* the code stands here by a phrase both readers know and one only one of  *)
(* them does.                                                              *)
(***************************************************************************)
EXTENDS FieldPolicies, FiniteSetsExt

Page(address, loads, markers, text) ==
  [address |-> address, loads |-> loads, markers |-> markers, text |-> text]

FieldLabels(fields) == UNION {f.label : f \in fields}

AsksPassword(fields) == \E f \in fields : f.kind = "password"

Shows(words, known) == words \cap known # {}

-----------------------------------------------------------------------------
(* Boundaries, for a fill pass and for a submission *)

BoundaryKinds == {"login", "captcha", "signature"}

StopsAutofill == {"login"}

LoginPaths == {"login", "sessions/new"}
LoginPhrases == {"sign in to apply"}
CaptchaMarkers == {"recaptcha"}
CaptchaPagePhrases == {"not a robot"}
SignatureMarkers == {"signature"}
SignaturePagePhrases == {"sign here"}

LoginShown(page, fields) ==
  \/ AsksPassword(fields)
  \/ Shows(page.address, LoginPaths)
  \/ Shows(page.text, LoginPhrases)

CaptchaShown(page) ==
  \/ Shows(page.loads, CaptchaMarkers)
  \/ Shows(page.markers, CaptchaMarkers)
  \/ Shows(page.text, CaptchaPagePhrases)

SignatureShown(page, fields) ==
  \/ Shows(page.loads, {"docusign"})
  \/ Shows(page.markers, SignatureMarkers)
  \/ IsSignatureField(FieldLabels(fields))
  \/ Shows(page.text, SignaturePagePhrases)

Boundaries(page, fields) ==
  {b \in BoundaryKinds :
     \/ b = "login" /\ LoginShown(page, fields)
     \/ b = "captcha" /\ CaptchaShown(page)
     \/ b = "signature" /\ SignatureShown(page, fields)}

-----------------------------------------------------------------------------
(* Hard stops, for the inspection of a portal *)

MaxVendorMatches == 1
MaxPhraseMatches == 3
MaxLabelMatches == 2
MaxEvidenceLines == 6

Capped(n, limit) == Min({n, limit})

\* A page's words, its labels among them, are read as one text; its machine
\* names include its address.
ReadableText(page, fields) == page.text \cup FieldLabels(fields)
MachineTokens(page) == page.loads \cup page.markers \cup page.address

LabelsWith(words, fields) == {f \in fields : f.label \cap words # {}}

Evidence(vendors, phrases, labelled) ==
  Capped(Capped(Cardinality(vendors), MaxVendorMatches)
           + Capped(Cardinality(phrases), MaxPhraseMatches)
           + Capped(Cardinality(labelled), MaxLabelMatches),
         MaxEvidenceLines)

CaptchaVendors == {"recaptcha", "data-sitekey"}
CaptchaPhrases == {"not a robot", "characters you see", "unusual traffic"}
SignatureVendors == {"docusign", "pandadoc"}
SignaturePhrases == {"sign here", "by signing below"}
AccountWallSegments == {"login", "register"}
AccountWallPhrases == {"sign in to apply", "create your account"}

CaptchaEvidence(page, fields) ==
  Evidence(MachineTokens(page) \cap CaptchaVendors,
           ReadableText(page, fields) \cap CaptchaPhrases,
           LabelsWith(CaptchaWords, fields))

SignatureEvidence(page, fields) ==
  Evidence(MachineTokens(page) \cap SignatureVendors,
           ReadableText(page, fields) \cap SignaturePhrases,
           LabelsWith(SignatureWords, fields))

\* A password field is a line of its own.
AccountWallEvidence(page, fields) ==
  Capped(Cardinality({"password"} \cap {f.kind : f \in fields})
           + Evidence(page.address \cap AccountWallSegments,
                      ReadableText(page, fields) \cap AccountWallPhrases,
                      LabelsWith(CredentialWords, fields)),
         MaxEvidenceLines)

HardStops(page, fields) ==
  {k \in {"captcha", "electronic_signature", "account_wall"} :
     \/ k = "captcha" /\ CaptchaEvidence(page, fields) > 0
     \/ k = "electronic_signature" /\ SignatureEvidence(page, fields) > 0
     \/ k = "account_wall" /\ AccountWallEvidence(page, fields) > 0}
=============================================================================
