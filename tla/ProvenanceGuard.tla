--------------------------- MODULE ProvenanceGuard ---------------------------
(***************************************************************************)
(* What happens to a generated text before it is stored: it is made plain, *)
(* every line that says something the candidate's facts do not is dropped, *)
(* and headings left without a body go with them.                          *)
(*                                                                         *)
(* A text is a sequence of lines, a line the set of its terms.             *)
(***************************************************************************)
EXTENDS Naturals, FiniteSets, Sequences

\* The lines at some places, in order.
KeptAt(lines, places) ==
  LET kept[n \in 0 .. Len(lines)] ==
        IF n = 0 THEN <<>>
        ELSE IF n \in places THEN Append(kept[n - 1], lines[n]) ELSE kept[n - 1]
  IN kept[Len(lines)]

Blank == {}
Rule == {"---"}   \* a horizontal rule, or the divider of a table

StandardHeadings ==
  {{"experience"}, {"education"}, {"skills"}, {"technical", "skills"}}

IsHeading(line) == line \in StandardHeadings

\* Framing vocabulary, which holds every word of a heading and no number.
Neutral == UNION StandardHeadings \cup {"dear", "phone", "work"}

-----------------------------------------------------------------------------
(* Facts: what the profile and the remembered answers say, and who says so *)

Sources == {"parsed_resume", "user_entered", "answer"}

\* The words a fact is told in, besides the candidate's own.
Wording ==
  [contact |-> {"name", "email"}, address |-> {"address"},
   links |-> {"portfolio"}, work_authorization |-> {"authorization"},
   work_history |-> {"worked"}, education |-> {"studied"},
   skills |-> {"skill"}]

\* An address or a link whose origin nobody recorded is no fact.
ProfileFacts(profile) ==
  {[terms |-> Wording[s] \cup profile[s].terms, source |-> profile[s].source] :
     s \in {x \in DOMAIN profile : profile[x].source \in Sources}}

\* The question is told along with the answer.
AnswerFact(memory) ==
  [terms |-> {"asked", "answered"} \cup memory.question \cup memory.answer,
   source |-> "answer"]

-----------------------------------------------------------------------------
(* The guard *)

\* Inflections are compared by their stem, compounds also by their parts.
Stem(term) == CASE term = "engineers" -> "engineer" [] OTHER -> term

Parts(term) == CASE term = "ci/cd" -> {"ci", "cd"} [] OTHER -> {}

Stems(terms) == {Stem(t) : t \in terms}

Index(terms) == Stems(terms) \cup UNION {Stems(Parts(t)) : t \in terms}

InCorpus(term, corpus) ==
  \/ Stem(term) \in corpus
  \/ Parts(term) # {} /\ Stems(Parts(term)) \subseteq corpus

Claims(line) == {t \in line : Stem(t) \notin Stems(Neutral)}

SourcesBacking(term, facts) ==
  {f.source : f \in {g \in facts : InCorpus(term, Index(g.terms))}}

\* With a bug: one supported claim vouches for the rest of its line.
UnsupportedUnlessBacked(line, facts, context) ==
  IF \E t \in Claims(line) : SourcesBacking(t, facts) # {} THEN {}
  ELSE {t \in Claims(line) : ~InCorpus(t, Index(context))}

Unsupported(line, facts, context) ==
  {t \in Claims(line) : /\ SourcesBacking(t, facts) = {}
                        /\ ~InCorpus(t, Index(context))}

Backing(line, facts) == UNION {SourcesBacking(t, facts) : t \in Claims(line)}

\* The lines that pass, and the sources of the facts behind them.
Enforced(text, facts, context) ==
  LET passes == {i \in DOMAIN text : Unsupported(text[i], facts, context) = {}}
  IN [lines |-> KeptAt(text, passes),
      sources |-> UNION {Backing(text[i], facts) : i \in passes}]

HasAttestedContent(guarded) == guarded.sources # {}

-----------------------------------------------------------------------------
(* The formatter *)

\* The first of a run of blank lines stays, unless nothing but blank lines
\* stands before or after it.
CollapseBlankRuns(lines) ==
  KeptAt(lines, {i \in DOMAIN lines :
                   \/ lines[i] # Blank
                   \/ /\ i > 1 /\ lines[i - 1] # Blank
                      /\ \E j \in i .. Len(lines) : lines[j] # Blank})

NormalizePlainText(text) ==
  CollapseBlankRuns(KeptAt(text, {i \in DOMAIN text : text[i] # Rule}))

\* Where the first line below a line stands, blank lines apart.
FirstBelow(lines, i) ==
  {j \in i + 1 .. Len(lines) :
     lines[j] # Blank /\ \A k \in i + 1 .. j - 1 : lines[k] = Blank}

\* With a bug: the next heading counts as a body.
HasAnythingBelow(lines, i) == FirstBelow(lines, i) # {}

HasBody(lines, i) == \E j \in FirstBelow(lines, i) : ~IsHeading(lines[j])

DropEmptySections(lines) ==
  CollapseBlankRuns(
    KeptAt(lines, {i \in DOMAIN lines : IsHeading(lines[i]) => HasBody(lines, i)}))

-----------------------------------------------------------------------------
(* What an export and the safety report make of the text *)

\* Lines above the first heading are contact details.
NothingParsed == [contact |-> <<>>, sections |-> <<>>]

ParseLine(parsed, l) ==
  CASE l = Blank -> parsed
    [] IsHeading(l) ->
         [parsed EXCEPT !.sections = Append(@, [heading |-> l, lines |-> <<>>])]
    [] ~IsHeading(l) /\ l # Blank /\ parsed.sections = <<>> ->
         [parsed EXCEPT !.contact = Append(@, l)]
    [] OTHER ->
         [parsed EXCEPT !.sections[Len(parsed.sections)].lines = Append(@, l)]

Structured(lines) ==
  LET parsed[n \in 0 .. Len(lines)] ==
        IF n = 0 THEN NothingParsed ELSE ParseLine(parsed[n - 1], lines[n])
  IN parsed[Len(lines)]

EmptySections(lines) ==
  {i \in DOMAIN lines :
     IsHeading(lines[i]) /\ \A j \in FirstBelow(lines, i) : IsHeading(lines[j])}
=============================================================================
