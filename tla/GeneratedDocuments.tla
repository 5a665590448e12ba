-------------------------- MODULE GeneratedDocuments --------------------------
(***************************************************************************)
(* Tailored résumés and cover letters for one posting: generated by a      *)
(* language model or revised by the candidate, guarded, and stored as the  *)
(* next version of their kind.  Meanwhile the candidate edits the profile, *)
(* answers questions, has a form filled, submits it, or erases everything. *)
(***************************************************************************)
EXTENDS ProvenanceGuard

CONSTANTS
  Writers,      \* requests that produce a document
  Drafts,       \* texts a model or a candidate may come up with
  Facets,       \* profiles a candidate may have
  Replies,      \* answers a candidate may give to a question
  Context,      \* the terms the posting identifies itself by
  MaxDeeds,     \* bound: what the candidate does besides
  NoDocument

VARIABLES
  known,        \* the stored profile
  remembered,   \* the stored answers
  documents,    \* the stored versions
  writing,      \* where each request stands
  form,         \* where the pass that fills the posting's form stands
  fetched,      \* what the pass found of each kind a field asked it for
  attached,     \* the versions of each kind that some field took
  filed,        \* those the tracker recorded as sent with it
  deeds,        \* what the candidate did besides
  said,         \* history: every fact there ever was
  undercut,     \* history: an erasure overtook a request that had counted
  changed       \* history: the kinds of which a version came or went since
                \* the pass fetched one

formVars == <<form, fetched, attached, filed>>
documentVars == <<known, remembered, documents, writing, formVars, deeds,
                  said, undercut, changed>>

\* The lines of the drafts.
Lines == UNION {{draft[i] : i \in DOMAIN draft} : draft \in Drafts}

ASSUME DraftsAreTexts == Drafts \subseteq Seq(Lines)

DocumentKinds == {"tailored_resume", "cover_letter"}

NoProfileYet == <<>>

StoredVersions(kind) == {d \in documents : d.kind = kind}

\* get_latest
LatestVersion(kind) ==
  IF StoredVersions(kind) = {} THEN NoDocument
  ELSE CHOOSE d \in StoredVersions(kind) :
         \A e \in StoredVersions(kind) : e.version <= d.version

-----------------------------------------------------------------------------
(* A request *)

NotWriting == [stage |-> "idle", kind |-> "none", facts |-> {},
               content |-> <<>>, sources |-> {}, counted |-> 0]

Stage(w, stage) == writing[w].stage = stage

Advance(w, entry) == writing' = [writing EXCEPT ![w] = entry]

Left(w) == [NotWriting EXCEPT !.stage = "ended"]

\* Without a profile the request is answered 404.
BeginWriting(w, kind) ==
  /\ Stage(w, "idle")
  /\ Advance(w, IF known = NoProfileYet THEN Left(w)
             ELSE [NotWriting EXCEPT !.stage = "profile read", !.kind = kind,
                                     !.facts = ProfileFacts(known)])
  /\ UNCHANGED <<known, remembered, documents, formVars, deeds, said,
                 undercut, changed>>

ReadAnswers(w) ==
  /\ Stage(w, "profile read")
  /\ Advance(w, [writing[w] EXCEPT
                !.stage = "writing",
                !.facts = @ \cup {AnswerFact(m) : m \in remembered}])
  /\ UNCHANGED <<known, remembered, documents, formVars, deeds, said,
                 undercut, changed>>

Guarded(w, draft) ==
  Enforced(NormalizePlainText(draft), writing[w].facts, Context)

\* A text of which nothing is left that the candidate attested is refused.
Keep(w, guarded, content) ==
  /\ Stage(w, "writing")
  /\ Advance(w, IF HasAttestedContent(guarded)
                THEN [writing[w] EXCEPT !.stage = "counting",
                                        !.content = content,
                                        !.sources = guarded.sources]
                ELSE Left(w))
  /\ UNCHANGED <<known, remembered, documents, formVars, deeds, said,
                 undercut, changed>>

GenerateTailoredResume(w, draft) ==
  /\ writing[w].kind = "tailored_resume"
  /\ LET guarded == Guarded(w, draft)
     IN Keep(w, guarded, DropEmptySections(guarded.lines))

GenerateCoverLetter(w, draft) ==
  /\ writing[w].kind = "cover_letter"
  /\ LET guarded == Guarded(w, draft) IN Keep(w, guarded, guarded.lines)

\* What the candidate rewrote is held to the same facts.
ReviseGeneratedDocument(w, draft) ==
  LET guarded == Guarded(w, draft)
      resume == writing[w].kind = "tailored_resume"
  IN Keep(w, guarded,
          IF resume THEN DropEmptySections(guarded.lines) ELSE guarded.lines)

CountVersions(w) ==
  /\ Stage(w, "counting")
  /\ Advance(w, [writing[w] EXCEPT
                !.stage = "adding",
                !.counted = Cardinality(StoredVersions(writing[w].kind))])
  /\ UNCHANGED <<known, remembered, documents, formVars, deeds, said,
                 undercut, changed>>

\* With a bug: the unique key is missing.
AnyVersionIsFree(kind, version) == TRUE

VersionIsFree(kind, version) ==
  \A d \in StoredVersions(kind) : d.version # version

Snapshot(w) ==
  [kind |-> writing[w].kind, version |-> writing[w].counted + 1, id |-> w,
   content |-> writing[w].content, sources |-> writing[w].sources]

\* One that lost the race for its version is answered 409.
AddDocument(w) ==
  /\ Stage(w, "adding")
  /\ IF VersionIsFree(writing[w].kind, writing[w].counted + 1)
     THEN /\ documents' = documents \cup {Snapshot(w)}
          /\ changed' = changed \cup ({writing[w].kind} \cap DOMAIN fetched)
     ELSE UNCHANGED <<documents, changed>>
  /\ Advance(w, Left(w))
  /\ UNCHANGED <<known, remembered, formVars, deeds, said, undercut>>

\* The model or the renderer fails, or the process is killed.
WritingFails(w) ==
  /\ writing[w].stage \notin {"idle", "ended"}
  /\ Advance(w, Left(w))
  /\ UNCHANGED <<known, remembered, documents, formVars, deeds, said,
                 undercut, changed>>

-----------------------------------------------------------------------------
(* The candidate *)

Does == deeds < MaxDeeds /\ deeds' = deeds + 1

SaveFacets(facets) ==
  /\ Does
  /\ known' = facets
  /\ said' = said \cup ProfileFacts(facets)
  /\ UNCHANGED <<remembered, documents, writing, formVars, undercut, changed>>

Declining == {{}, {"skip"}}

IsDeclined(reply) == reply.answer \in Declining

StoreAnswer(reply) ==
  /\ remembered' = remembered \cup {reply}
  /\ said' = said \cup {AnswerFact(reply)}

\* A declined question leaves nothing behind.
ResolveGap(reply) ==
  /\ Does
  /\ IF IsDeclined(reply) THEN UNCHANGED <<remembered, said>>
     ELSE StoreAnswer(reply)
  /\ UNCHANGED <<known, documents, writing, formVars, undercut, changed>>

-----------------------------------------------------------------------------
(* The form *)

NothingAttached == [kind \in DocumentKinds |-> {}]

\* A pass reads the profile and opens the form.  A form filled anew is parked,
\* and filed, as a submission of its own.
FillForm ==
  /\ Does
  /\ known # NoProfileYet
  /\ form # "filling"
  /\ form' = "filling"
  /\ fetched' = <<>>
  /\ attached' = NothingAttached
  /\ filed' = <<>>
  /\ changed' = {}
  /\ UNCHANGED <<known, remembered, documents, writing, said, undercut>>

\* The version a field gets: what the pass has found of the kind already.
Asked(kind) ==
  IF kind \in DOMAIN fetched THEN fetched[kind] ELSE LatestVersion(kind)

\* Nothing was generated, or the field does not take it: too long, refused,
\* covered.
MayTake(kind, version) ==
  {attached} \cup IF version = NoDocument THEN {}
                  ELSE {[attached EXCEPT ![kind] = @ \cup {version}]}

\* With a bug: the newest version is looked up for every field.
AskForDocumentAfresh(kind) ==
  /\ form = "filling"
  /\ fetched' = [k \in DOMAIN fetched \cup {kind} |->
                   IF k = kind THEN LatestVersion(kind) ELSE fetched[k]]
  /\ attached' \in MayTake(kind, LatestVersion(kind))
  /\ UNCHANGED <<known, remembered, documents, writing, form, filed, deeds, said,
                 undercut, changed>>

\* A field of the form asks for a kind of document.
AskForDocument(kind) ==
  /\ form = "filling"
  /\ fetched' = [k \in DOMAIN fetched \cup {kind} |->
                   IF k = kind THEN Asked(kind) ELSE fetched[k]]
  /\ attached' \in MayTake(kind, Asked(kind))
  /\ UNCHANGED <<known, remembered, documents, writing, form, filed, deeds, said,
                 undercut, changed>>

ParkForm ==
  /\ form = "filling"
  /\ form' = "parked"
  /\ UNCHANGED <<known, remembered, documents, writing, fetched, attached, filed,
                 deeds, said, undercut, changed>>

\* Its browser is closed, and what the form held is lost.
PassFails ==
  /\ form = "filling"
  /\ form' = "closed"
  /\ fetched' = <<>>
  /\ attached' = NothingAttached
  /\ changed' = {}
  /\ UNCHANGED <<known, remembered, documents, writing, filed, deeds, said, undercut>>

\* Once, and only when a résumé was ever stored for the posting.  The newest
\* version of either kind is filed, whether or not a field took one.
FileSubmission ==
  /\ form = "parked" /\ filed = <<>>
  /\ LatestVersion("tailored_resume") # NoDocument
  /\ filed' = [kind \in DocumentKinds |-> LatestVersion(kind)]
  /\ UNCHANGED <<known, remembered, documents, writing, form, fetched, attached,
                 deeds, said, undercut, changed>>

-----------------------------------------------------------------------------

EraseEverything ==
  /\ Does
  /\ known' = NoProfileYet
  /\ remembered' = {}
  /\ documents' = {}
  /\ filed' = <<>>
  /\ undercut' = (undercut \/ \E w \in Writers : Stage(w, "adding"))
  /\ changed' = DOMAIN fetched
  /\ UNCHANGED <<writing, form, fetched, attached, said>>

-----------------------------------------------------------------------------

NothingWritten ==
  /\ remembered = {}
  /\ documents = {}
  /\ form = "closed"
  /\ fetched = <<>>
  /\ attached = NothingAttached
  /\ filed = <<>>
  /\ undercut = FALSE
  /\ changed = {}

DocumentsInit ==
  /\ NothingWritten
  /\ known \in Facets
  /\ said = ProfileFacts(known)
  /\ writing = [w \in Writers |-> NotWriting]
  /\ deeds = 0

DocumentsNext ==
  \/ \E w \in Writers :
       \/ \E kind \in DocumentKinds : BeginWriting(w, kind)
       \/ ReadAnswers(w)
       \/ \E draft \in Drafts :
            \/ GenerateTailoredResume(w, draft)
            \/ GenerateCoverLetter(w, draft)
            \/ ReviseGeneratedDocument(w, draft)
       \/ CountVersions(w) \/ AddDocument(w) \/ WritingFails(w)
  \/ \E facets \in Facets : SaveFacets(facets)
  \/ \E reply \in Replies : ResolveGap(reply)
  \/ FillForm
  \/ \E kind \in DocumentKinds : AskForDocument(kind)
  \/ ParkForm \/ PassFails \/ FileSubmission \/ EraseEverything

DocumentsSpec == DocumentsInit /\ [][DocumentsNext]_documentVars

-----------------------------------------------------------------------------
(* What must hold *)

\* Some fact tells the term, or all the parts it is made of.
Told(term, facts) ==
  \E f \in facts :
    \/ \E t \in f.terms : Stem(t) = Stem(term) \/ term \in Parts(t)
    \/ /\ Parts(term) # {}
       /\ \A p \in Parts(term) : \E t \in f.terms : p = t \/ p \in Parts(t)

\* Whatever a model makes up and however profile, answers and documents
\* change meanwhile, a stored document says nothing of the candidate that no
\* fact ever told, and something that one did.
StoredIsAttested ==
  \A d \in documents :
    LET claims == UNION {Claims(d.content[i]) : i \in DOMAIN d.content} IN
      /\ \A t \in claims : Told(t, said) \/ InCorpus(t, Index(Context))
      /\ \E t \in claims : Told(t, said)
      /\ d.sources # {}

\* The versions of a kind are numbered without gaps, so the next one is free
\* and the newest is the one with the highest number, whoever stores at the
\* same time: only an erasure that overtakes a request can break the count.
VersionsCountUp ==
  undercut \/
  \A kind \in DocumentKinds :
    {d.version : d \in StoredVersions(kind)}
      = 1 .. Cardinality(StoredVersions(kind))

\* What an export has of a parsed résumé, from top to bottom.
Exported(parsed) ==
  LET upTo[n \in 0 .. Len(parsed.sections)] ==
        IF n = 0 THEN parsed.contact
        ELSE upTo[n - 1] \o parsed.sections[n].lines
  IN upTo[Len(parsed.sections)]

\* A stored résumé has no hollow section, and its export loses no line of it.
ResumesReadWhole ==
  \A d \in StoredVersions("tailored_resume") :
    LET parsed == Structured(d.content) IN
      /\ EmptySections(d.content) = {}
      /\ \A i \in DOMAIN parsed.sections : parsed.sections[i].lines # <<>>
      /\ Exported(parsed)
           = KeptAt(d.content, {i \in DOMAIN d.content :
                                  d.content[i] # Blank /\ ~IsHeading(d.content[i])})

\* A form never carries two versions of one document, whatever is stored while
\* it is being filled; and the tracker names every version the form carries,
\* unless one of its kind was stored or everything erased between the moment
\* the pass fetched it and the logging.  It may name more: a newest letter is
\* filed even with a form that never took one.
AttachedIsFiled ==
  \A kind \in DocumentKinds :
    /\ \A d, e \in attached[kind] : d = e
    /\ filed # <<>> /\ kind \notin changed => attached[kind] \subseteq {filed[kind]}
=============================================================================
