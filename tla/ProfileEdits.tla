---------------------------- MODULE ProfileEdits ----------------------------
(***************************************************************************)
(* The candidate's profile: one row with the contact details, the address  *)
(* and the links, and a row of its own for every job, education and skill. *)
(* The candidate edits it section by section; the parse of a résumé fills  *)
(* in what is missing.                                                     *)
(*                                                                         *)
(* Every request reads the whole profile, changes its copy and hands the   *)
(* copy to `update`, which reads the rows again: the profile's columns are *)
(* written where the copy differs from that second read, the rows of the   *)
(* lists are made those of the copy.                                       *)
(***************************************************************************)
EXTENDS OrmUpdate, WebRequests, Sequences

CONSTANTS
  Persons,      \* profiles that earlier requests may have left
  Earlier,      \* who told what they hold
  Things,       \* jobs, educations and skills
  Readings,     \* what the parser may make of a résumé
  Unusable,     \* an entry it made nothing usable of
  MaxEdits      \* bound: requests to the profile

VARIABLES
  person,       \* user_profiles
  entries,      \* work_history_entries, education_entries and skills
  asked,        \* what each request asks for
  entity,       \* the profile each request holds
  reread        \* the rows as `update` read them

editVars == <<person, entries, asked, entity, reread>>

Groups == {"contact", "address", "links"}

\* Who told a value stands for the value.
Fields == {"name", "phone", "address", "links"}

GroupOf(field) == IF field \in {"name", "phone"} THEN "contact" ELSE field

Tellers == Requests \cup {Earlier, NoOne}

FactSource == {"user_entered", "parsed_resume"}

ASSUME NoOneIsNoSource == NoOne \notin FactSource

PersonRow == [id : Tellers,
              told : [Fields -> Tellers],
              source : [Groups -> FactSource \cup {NoOne}]]

Thing == [section : STRING, key : STRING, name : STRING]

ASSUME ThingsAreThings == Things \subseteq Thing

NoPerson == [id |-> NoOne,
             told |-> [f \in Fields |-> NoOne],
             source |-> [g \in Groups |-> NoOne]]

NoEntity == [person |-> NoPerson, entries |-> {}]

Stored == [person |-> person, entries |-> entries]

\* The name may not be NULL.
ASSUME PersonsAreNamed ==
         \A row \in Persons :
           row \in PersonRow /\ (row # NoPerson => row.told["name"] # NoOne)

\* The entity cannot be built of an address or links without a source.
Readable(row) ==
  \A f \in Fields : row.told[f] # NoOne => row.source[GroupOf(f)] # NoOne

SameThing(e, t) == e.section = t.section /\ e.key = t.key

EntryFor(p, t, source) ==
  [id |-> <<p, t>>, section |-> t.section, key |-> t.key, name |-> t.name,
   source |-> source]

-----------------------------------------------------------------------------
(* The sections *)

SetContact(e, p, phone) ==
  [e EXCEPT !.person.told["name"] = p, !.person.told["phone"] = phone,
            !.person.source["contact"] = "user_entered"]

SetGroup(e, group, value) ==
  [e EXCEPT !.person.told[group] = value,
            !.person.source[group] =
              IF value = NoOne THEN NoOne ELSE "user_entered"]

\* Two skills of one name, however it is spelled, are refused.
NameIsTaken(e, t, others) ==
  t.section = "skills" /\ \E o \in others : SameThing(o, t)

AddEntry(e, entry) == [e EXCEPT !.entries = @ \cup {entry}]

ReplaceEntry(e, old, t) ==
  [e EXCEPT !.entries =
     (@ \ {old}) \cup {[EntryFor(NoOne, t, "user_entered") EXCEPT !.id = old.id]}]

RemoveEntry(e, old) == [e EXCEPT !.entries = @ \ {old}]

-----------------------------------------------------------------------------
(* The parse *)

\* Of a link only a whole URL is any use; a bare host is made one.
LinkRead(made) == IF made.link \in {"url", "host"} THEN {"links"} ELSE {}

Read(made) ==
  [told |-> made.told \cup LinkRead(made),
   things |-> SelectSeq(made.things, LAMBDA t : t # Unusable)]

Reading == [told : SUBSET STRING, things : Seq(Thing)]

ASSUME ReadingsAreReadings == \A made \in Readings : Read(made) \in Reading

\* Contact details keep their source, whoever told the rest of them.
FillContactGaps(row, p, reading) ==
  IF row.told["phone"] = NoOne /\ "phone" \in reading.told
  THEN [row EXCEPT !.told["phone"] = p] ELSE row

\* With a bug: what is there already is filled in again.
FillAlways(row, group, p, reading) ==
  IF group \in reading.told
  THEN [row EXCEPT !.told[group] = p, !.source[group] = "parsed_resume"]
  ELSE row

FillIfEmpty(row, group, p, reading) ==
  IF row.told[group] = NoOne /\ group \in reading.told
  THEN [row EXCEPT !.told[group] = p, !.source[group] = "parsed_resume"]
  ELSE row

\* What the profile has already is not added, nor what the résumé repeats.
Merged(held, p, things) ==
  held \cup
  {EntryFor(p, things[i], "parsed_resume") :
     i \in {j \in DOMAIN things :
              /\ ~\E e \in held : SameThing(e, things[j])
              /\ ~\E k \in 1 .. j - 1 : SameThing(things[k], things[j])}}

NewPerson(p, reading) ==
  [NoPerson EXCEPT !.id = p,
                   !.told["name"] = p,
                   !.told["phone"] = IF "phone" \in reading.told THEN p ELSE NoOne,
                   !.source["contact"] = "parsed_resume"]

Parsed(e, p, reading) ==
  LET row == IF e.person = NoPerson THEN NewPerson(p, reading)
             ELSE FillContactGaps(e.person, p, reading)
      housed == FillIfEmpty(row, "address", p, reading)
  IN [person |-> FillIfEmpty(housed, "links", p, reading),
      entries |-> Merged(e.entries, p, reading.things)]

-----------------------------------------------------------------------------
(* Requests *)

Request(op) == [op |-> op, value |-> NoOne, target |-> NoOne,
                thing |-> NoOne, reading |-> NoOne]

SectionRequests(p) ==
  {[Request(op) EXCEPT !.value = v] : op \in Groups, v \in {p, NoOne}}

\* The candidate looks at the profile as it is stored.
EntryRequests ==
  {[Request("add") EXCEPT !.thing = t] : t \in Things}
  \cup {[Request("edit") EXCEPT !.target = x[1], !.thing = x[2]] :
          x \in {y \in entries \X Things : y[1].section = y[2].section}}
  \cup {[Request("remove") EXCEPT !.target = e] : e \in entries}

ParseRequests ==
  {[Request("parse") EXCEPT !.reading = Read(made)] : made \in Readings}

AskEdit(p) ==
  /\ MayStart(p)
  /\ Cardinality({q \in Requests : pc[q] # "idle"}) < MaxEdits
  /\ \E r \in SectionRequests(p) \cup EntryRequests \cup ParseRequests :
       asked' = [asked EXCEPT ![p] = r]
  /\ Goto(p, "person")
  /\ UNCHANGED <<person, entries, entity, reread>>

Goes(p, label, e) ==
  /\ entity' = [entity EXCEPT ![p] = e]
  /\ Goto(p, label)
  /\ UNCHANGED <<person, entries, asked, reread>>

\* An answered request leaves nothing of its own behind.
Dropped(p) ==
  /\ asked' = [asked EXCEPT ![p] = Request("none")]
  /\ entity' = [entity EXCEPT ![p] = NoEntity]
  /\ reread' = [reread EXCEPT ![p] = NoEntity]

Refused(p) ==
  /\ Goto(p, "failed")
  /\ Dropped(p)
  /\ UNCHANGED <<person, entries>>

\* The entry a request is about, in the copy; its number never changes.
Targets(p, e) == {o \in e.entries : o.id = asked[p].target.id}

EditHeld(p, e) ==
  LET r == asked[p] IN
  CASE r.op = "contact" -> Goes(p, "person_reread", SetContact(e, p, r.value))
    [] r.op \in {"address", "links"} ->
         Goes(p, "person_reread", SetGroup(e, r.op, r.value))
    [] r.op = "add" ->
         IF NameIsTaken(e, r.thing, e.entries) THEN Refused(p)
         ELSE Goes(p, "person_reread",
                   AddEntry(e, EntryFor(p, r.thing, "user_entered")))
    [] r.op = "edit" ->
         \/ \E o \in Targets(p, e) :
              IF NameIsTaken(e, r.thing, e.entries \ {o}) THEN Refused(p)
              ELSE Goes(p, "person_reread", ReplaceEntry(e, o, r.thing))
         \/ Targets(p, e) = {} /\ Refused(p)
    [] r.op = "remove" ->
         \/ \E o \in Targets(p, e) : Goes(p, "person_reread", RemoveEntry(e, o))
         \/ Targets(p, e) = {} /\ Refused(p)
    [] r.op = "parse" -> Goes(p, "person_reread", Parsed(e, p, r.reading))

ReadPerson(p) ==
  /\ pc[p] = "person"
  /\ person # NoPerson
  /\ IF Readable(person)
     THEN EditHeld(p, Stored)
     ELSE Refused(p)

\* Only contact details bring a profile into being, typed or parsed.
ReadNoPerson(p) ==
  /\ pc[p] = "person"
  /\ person = NoPerson
  /\ LET r == asked[p] IN
     CASE r.op = "contact" ->
            Goes(p, "adding_person",
                 SetContact([NoEntity EXCEPT !.person.id = p], p, r.value))
       [] r.op = "parse" /\ "name" \in r.reading.told ->
            Goes(p, "adding_person", Parsed(NoEntity, p, r.reading))
       [] OTHER -> Refused(p)

\* user_id is unique: one profile each.
AddPerson(p) ==
  /\ pc[p] = "adding_person"
  /\ IF person = NoPerson
     THEN /\ person' = entity[p].person
          /\ entries' = entity[p].entries
          /\ Goto(p, "ok")
          /\ Dropped(p)
     ELSE Refused(p)

RereadPerson(p) ==
  /\ pc[p] = "person_reread"
  /\ reread' = [reread EXCEPT ![p] = Stored]
  /\ Goto(p, "person_flush")
  /\ UNCHANGED <<person, entries, asked, entity>>

-----------------------------------------------------------------------------
(* The flush: updates and inserts, then deletes *)

Ids(es) == {e.id : e \in es}

WrittenPerson(p) ==
  LET row == entity[p].person
      read == reread[p].person
  IN [person EXCEPT
        !.told = [f \in Fields |-> Written(@[f], read.told[f], row.told[f])],
        !.source = [g \in Groups |-> Written(@[g], read.source[g], row.source[g])]]

\* What it read again is still there to update, what it inserts is not, and
\* no other skill goes by exactly that name.
EntriesFit(p) ==
  LET kept == Ids(entity[p].entries)
      read == Ids(reread[p].entries)
  IN /\ kept \cap read \subseteq Ids(entries)
     /\ (kept \ read) \cap Ids(entries) = {}
     /\ \A e \in entity[p].entries, o \in entries :
          e.section = "skills" /\ o.section = "skills" /\ e.name = o.name
            => e.id = o.id

FlushPerson(p) ==
  /\ pc[p] = "person_flush"
  /\ IF EntriesFit(p)
     THEN /\ person' = WrittenPerson(p)
          /\ entries' =
               entity[p].entries \cup
               {e \in entries : e.id \notin Ids(entity[p].entries)
                                            \cup Ids(reread[p].entries)}
          /\ Goto(p, "ok")
          /\ Dropped(p)
     ELSE Refused(p)

EditDies(p) ==
  /\ CutShort(p)
  /\ Dropped(p)
  /\ UNCHANGED <<person, entries>>

-----------------------------------------------------------------------------

\* The profile may be one that earlier requests made.
EditsInit(persons) ==
  /\ person \in persons
  /\ entries = {}
  /\ asked = [p \in Requests |-> Request("none")]
  /\ entity = [p \in Requests |-> NoEntity]
  /\ reread = [p \in Requests |-> NoEntity]

EditsNext ==
  \E p \in Requests :
    \/ AskEdit(p) \/ ReadPerson(p) \/ ReadNoPerson(p) \/ AddPerson(p)
    \/ RereadPerson(p) \/ FlushPerson(p) \/ EditDies(p)

EditsSpec ==
  InitServing /\ EditsInit(Persons) /\ [][EditsNext]_<<serving, editVars>>

-----------------------------------------------------------------------------
(* What must hold *)

ToldIn(fields) ==
  {[field |-> f, told |-> person.told[f], source |-> person.source[GroupOf(f)]] :
     f \in {g \in fields : person.told[g] # NoOne}}

\* Everything the profile says, with its source.
Says == ToldIn(Fields) \cup entries

\* What a request means to replace.
Replaces(p) ==
  LET r == asked[p] IN
  CASE r.op \in Groups -> ToldIn({f \in Fields : GroupOf(f) = r.op})
    [] r.op \in {"edit", "remove"} -> {e \in entries : e.id = r.target.id}
    [] OTHER -> {}

\* Until requests overlap, whatever sequence of edits and parses, each writes
\* only what it is about, and leaves a profile that can be read again; a parse
\* replaces nothing, not even the recorded source, and adds no job, education
\* or skill a second time.
OnlyWhatWasAsked ==
  [][\A p \in Requests :
       pc[p] \in {"person_flush", "adding_person"} /\ pc'[p] = "ok"
         /\ ~overlapped'
       => /\ Says \ Replaces(p) \subseteq Says'
          /\ Readable(person')
          /\ asked[p].op = "parse" =>
               \A e \in entries' \ entries :
                 \A o \in entries' \ {e} : ~SameThing(e, o)]_<<serving, editVars>>
=============================================================================
