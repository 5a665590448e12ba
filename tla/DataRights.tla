----------------------------- MODULE DataRights -----------------------------
(***************************************************************************)
(* What is held about one candidate and the candidate's say over it: the   *)
(* ledger of consent decisions for storing sensitive attributes, the       *)
(* profile with those attributes, the uploaded résumé files with the rows  *)
(* that name them, and the erasure of it all.                              *)
(*                                                                         *)
(* The ledger is append-only.  A request reads it, appends its decision to *)
(* its copy, and `save` inserts the part of the copy beyond the rows it    *)
(* finds stored by then.  The profile is written back whole, and inserted  *)
(* again when its row is not there any more.  Files and rows live in       *)
(* different stores.                                                       *)
(***************************************************************************)
EXTENDS WebRequests, Sequences

VARIABLES
  ledger,     \* consent_decisions of the purpose, in sequence order
  profile,    \* user_profiles with the sensitive child row
  resumes,    \* resumes: the uploads whose row is stored
  files,      \* the blob store: the uploads whose bytes are stored
  kind,       \* what a request asks for
  arrived,    \* when it arrived: the decided_at of its decision
  history,    \* the ledger its consent record carries
  stored,     \* how many decisions `save` found stored
  changed,    \* requests that count their decision as recorded
  carried,    \* the profile entity a request holds
  seen,       \* the profile row as `update` read it again
  keys,       \* the storage keys an erasure has still to delete
  gone        \* history: profiles erased, declarations removed

rightsLocals == <<kind, arrived, history, stored, changed, carried, seen, keys>>
rightsStores == <<ledger, profile, resumes, files, gone>>
vars == <<serving, rightsLocals, rightsStores>>

Kinds == {"grant", "withdraw", "declare", "clear", "contact", "erase", "upload"}

Decision == [granted : BOOLEAN, by : Requests]

\* A profile is named by the request that created it; its declarations by
\* the request that stated them.
ProfileRow == [id : Requests \cup {NoOne}, declared : Requests \cup {NoOne}]

NoProfile == [id |-> NoOne, declared |-> NoOne]

HasProfile == profile # NoProfile

IsGranted(decisions) ==
  decisions # <<>> /\ decisions[Len(decisions)].granted

-----------------------------------------------------------------------------
(* Requests arrive *)

FirstStep(k) ==
  CASE k \in {"grant", "withdraw", "erase"}     -> "consent"
    [] k \in {"declare", "clear", "contact"}    -> "profile"
    [] k = "upload"                             -> "storing"

\* The controller takes the time before anything is read.
Arrive(p, k) ==
  /\ MayStart(p)
  /\ kind' = [kind EXCEPT ![p] = k]
  /\ arrived' = [arrived EXCEPT ![p] = Cardinality({q \in Requests : arrived[q] > 0}) + 1]
  /\ Goto(p, FirstStep(k))
  /\ UNCHANGED <<history, stored, changed, carried, seen, keys, rightsStores>>

-----------------------------------------------------------------------------
(* The consent ledger *)

DecisionOf(p) ==
  [granted |-> kind[p] \in {"grant", "declare"}, by |-> p]

OutOfOrder(p) ==
  ledger # <<>> /\ arrived[p] < arrived[ledger[Len(ledger)].by]

Restates(p) ==
  ledger # <<>> /\ ledger[Len(ledger)].granted = DecisionOf(p).granted

\* An erasure withdraws what is granted and records nothing otherwise.
NothingToWithdraw(p) == kind[p] = "erase" /\ ~IsGranted(ledger)

\* Where a request goes on once its decision is dealt with.
AfterConsent(p) ==
  CASE kind[p] = "declare" -> "profile_reread"
    [] kind[p] = "erase"   -> "reading_keys"
    [] OTHER               -> "ok"

\* The decision says nothing new: the ledger stays.
ConsentUnchanged(p) ==
  NothingToWithdraw(p) \/ (~OutOfOrder(p) /\ Restates(p))

ConsentRefused(p) == ~NothingToWithdraw(p) /\ OutOfOrder(p)

\* repository.get, then record.record.
ReadConsent(p) ==
  /\ pc[p] = "consent"
  /\ \/ /\ ConsentUnchanged(p)
        /\ Goto(p, AfterConsent(p))
        /\ UNCHANGED history
     \/ /\ ConsentRefused(p)
        /\ Goto(p, "failed")
        /\ UNCHANGED history
     \/ /\ ~ConsentUnchanged(p) /\ ~ConsentRefused(p)
        /\ history' = [history EXCEPT ![p] = Append(ledger, DecisionOf(p))]
        /\ Goto(p, "saving")
  /\ UNCHANGED <<kind, arrived, stored, changed, carried, seen, keys, rightsStores>>

StoredDecisions == Len(ledger)

\* save looks up the highest stored sequence...
CountDecisions(p) ==
  /\ pc[p] = "saving"
  /\ stored' = [stored EXCEPT ![p] = StoredDecisions]
  /\ Goto(p, "inserting")
  /\ UNCHANGED <<kind, arrived, history, changed, carried, seen, keys, rightsStores>>

\* With a bug: the key is not the position.
SequenceIsAlwaysFree(p) == TRUE

\* The primary key: the positions after the stored ones are still free.
SequenceIsFree(p) ==
  stored[p] < Len(history[p]) => Len(ledger) = stored[p]

\* ...inserts what the record carries beyond it, which may be nothing, and
\* commits.
InsertDecisions(p) ==
  /\ pc[p] = "inserting"
  /\ SequenceIsFree(p)
  /\ ledger' =
       ledger \o SubSeq(history[p], stored[p] + 1, Len(history[p]))
  /\ changed' = changed \cup {p}
  /\ Goto(p, AfterConsent(p))
  /\ UNCHANGED <<kind, arrived, history, stored, carried, seen, keys,
                 profile, resumes, files, gone>>

InsertDecisionsConflicts(p) ==
  /\ pc[p] = "inserting"
  /\ ~SequenceIsFree(p)
  /\ Goto(p, "failed")
  /\ UNCHANGED <<rightsLocals, rightsStores>>

-----------------------------------------------------------------------------
(* The profile *)

\* With a bug: the declarations are written before the grant.
AfterProfileUnasked(k) == "profile_reread"

\* Declarations need the grant on record first.
AfterProfile(k) == IF k = "declare" THEN "consent" ELSE "profile_reread"

\* The entity as the section was replaced in it; contact details leave the
\* declarations alone.
Edited(p) ==
  CASE kind[p] = "declare" -> [profile EXCEPT !.declared = p]
    [] kind[p] = "clear"   -> [profile EXCEPT !.declared = NoOne]
    [] OTHER               -> profile

ReadProfile(p) ==
  /\ pc[p] = "profile"
  /\ HasProfile
  /\ carried' = [carried EXCEPT ![p] = Edited(p)]
  /\ Goto(p, AfterProfile(kind[p]))
  /\ UNCHANGED <<kind, arrived, history, stored, changed, seen, keys, rightsStores>>

\* Contact details bring a profile into being.
ReadNoProfile(p) ==
  /\ pc[p] = "profile"
  /\ ~HasProfile
  /\ IF kind[p] = "contact"
     THEN /\ carried' = [carried EXCEPT ![p] = [NoProfile EXCEPT !.id = p]]
          /\ Goto(p, "adding_profile")
     ELSE Goto(p, "failed") /\ UNCHANGED carried
  /\ UNCHANGED <<kind, arrived, history, stored, changed, seen, keys, rightsStores>>

\* user_id is unique.
AddProfile(p) ==
  /\ pc[p] = "adding_profile"
  /\ IF HasProfile
     THEN Goto(p, "failed") /\ UNCHANGED profile
     ELSE Goto(p, "ok") /\ profile' = carried[p]
  /\ UNCHANGED <<rightsLocals, ledger, resumes, files, gone>>

\* update selects the row by the entity's id.
Found(p) == IF profile.id = carried[p].id THEN profile ELSE NoProfile

RereadProfile(p) ==
  /\ pc[p] = "profile_reread"
  /\ seen' = [seen EXCEPT ![p] = Found(p)]
  /\ Goto(p, "profile_flush")
  /\ UNCHANGED <<kind, arrived, history, stored, changed, carried, keys, rightsStores>>

\* The flush inserts a row not found and updates one found; the same for
\* the child row of declarations.  Each expects the table as it was read.
FlushFits(p) ==
  /\ profile.id = seen[p].id
  /\ (HasProfile /\ carried[p].declared # NoOne) =>
       (profile.declared = NoOne) = (seen[p].declared = NoOne)

\* The declarations in the table, once the entity's were compared with the
\* ones read.
DeclaredAfterFlush(p) ==
  IF carried[p].declared = NoOne /\ seen[p].declared = NoOne /\ HasProfile
  THEN profile.declared
  ELSE carried[p].declared

FlushProfile(p) ==
  /\ pc[p] = "profile_flush"
  /\ FlushFits(p)
  /\ profile' = [carried[p] EXCEPT !.declared = DeclaredAfterFlush(p)]
  /\ gone' = gone \cup ({profile.declared} \ {NoOne, profile'.declared})
  /\ Goto(p, "ok")
  /\ UNCHANGED <<rightsLocals, ledger, resumes, files>>

FlushProfileConflicts(p) ==
  /\ pc[p] = "profile_flush"
  /\ ~FlushFits(p)
  /\ Goto(p, "failed")
  /\ UNCHANGED <<rightsLocals, rightsStores>>

-----------------------------------------------------------------------------
(* Résumé uploads *)

SaveFile(p) ==
  /\ pc[p] = "storing"
  /\ files' = files \cup {p}
  /\ Goto(p, "adding_resume")
  /\ UNCHANGED <<rightsLocals, ledger, profile, resumes, gone>>

AddResume(p) ==
  /\ pc[p] = "adding_resume"
  /\ resumes' = resumes \cup {p}
  /\ Goto(p, "ok")
  /\ UNCHANGED <<rightsLocals, ledger, profile, files, gone>>

\* The database refuses the row or is away: the upload cleans up after itself.
AddResumeFails(p) ==
  /\ pc[p] = "adding_resume"
  /\ Goto(p, "removing_file")
  /\ UNCHANGED <<rightsLocals, rightsStores>>

\* With a bug: nothing is cleaned up.
WithoutFileKept(p) == files

WithoutFile(p) == files \ {p}

RemoveFile(p) ==
  /\ pc[p] = "removing_file"
  /\ files' = WithoutFile(p)
  /\ Goto(p, "failed")
  /\ UNCHANGED <<rightsLocals, ledger, profile, resumes, gone>>

-----------------------------------------------------------------------------
(* Erasure *)

ReadKeys(p) ==
  /\ pc[p] = "reading_keys"
  /\ keys' = [keys EXCEPT ![p] = resumes]
  /\ Goto(p, "deleting_files")
  /\ UNCHANGED <<kind, arrived, history, stored, changed, carried, seen, rightsStores>>

DeleteFile(p, f) ==
  /\ pc[p] = "deleting_files"
  /\ f \in keys[p]
  /\ files' = files \ {f}
  /\ keys' = [keys EXCEPT ![p] = @ \ {f}]
  /\ UNCHANGED <<serving, kind, arrived, history, stored, changed, carried, seen,
                 ledger, profile, resumes, gone>>

\* With a bug: nothing deletes the profile.
ErasedProfileUnlisted == profile

\* The profile's row is deleted, and the child row with it.
ErasedProfile == NoProfile

\* Every row of every category, in one transaction; then the receipt.
EraseRows(p) ==
  /\ pc[p] = "deleting_files"
  /\ keys[p] = {}
  /\ resumes' = {}
  /\ profile' = ErasedProfile
  /\ gone' = gone \cup ({profile.id, profile.declared} \ {NoOne})
  /\ Goto(p, "ok")
  /\ UNCHANGED <<rightsLocals, ledger, files>>

Die(p) ==
  /\ CutShort(p)
  /\ UNCHANGED <<rightsLocals, rightsStores>>

-----------------------------------------------------------------------------

Init ==
  /\ ledger = <<>>
  /\ profile = NoProfile
  /\ resumes = {}
  /\ files = {}
  /\ gone = {}
  /\ InitServing
  /\ kind = [p \in Requests |-> "none"]
  /\ arrived = [p \in Requests |-> 0]
  /\ history = [p \in Requests |-> <<>>]
  /\ stored = [p \in Requests |-> 0]
  /\ changed = {}
  /\ carried = [p \in Requests |-> NoProfile]
  /\ seen = [p \in Requests |-> NoProfile]
  /\ keys = [p \in Requests |-> {}]

Step(p) ==
  \/ \E k \in Kinds : Arrive(p, k)
  \/ ReadConsent(p)
  \/ CountDecisions(p)
  \/ InsertDecisions(p)
  \/ InsertDecisionsConflicts(p)
  \/ ReadProfile(p)
  \/ ReadNoProfile(p)
  \/ AddProfile(p)
  \/ RereadProfile(p)
  \/ FlushProfile(p)
  \/ FlushProfileConflicts(p)
  \/ SaveFile(p)
  \/ AddResume(p)
  \/ AddResumeFails(p)
  \/ RemoveFile(p)
  \/ ReadKeys(p)
  \/ \E f \in Requests : DeleteFile(p, f)
  \/ EraseRows(p)
  \/ Die(p)

Next ==
  \/ \E p \in Requests : Step(p)
  \/ AllAnswered /\ UNCHANGED vars

Spec == Init /\ [][Next]_vars

-----------------------------------------------------------------------------
(* What must hold *)

Labels == Ended \cup
  {"idle", "consent", "saving", "inserting", "profile", "adding_profile",
   "profile_reread", "profile_flush", "storing", "adding_resume",
   "removing_file", "reading_keys", "deleting_files"}

TypeOK ==
  /\ ledger \in Seq(Decision)
  /\ profile \in ProfileRow
  /\ resumes \subseteq Requests
  /\ files \subseteq Requests
  /\ gone \subseteq Requests
  /\ pc \in [Requests -> Labels]
  /\ overlapped \in BOOLEAN
  /\ kind \in [Requests -> Kinds \cup {"none"}]
  /\ arrived \in [Requests -> Nat]
  /\ history \in [Requests -> Seq(Decision)]
  /\ stored \in [Requests -> Nat]
  /\ changed \subseteq Requests
  /\ carried \in [Requests -> ProfileRow]
  /\ seen \in [Requests -> ProfileRow]
  /\ keys \in [Requests -> SUBSET Requests]

\* Whatever overlaps, the ledger reads as decisions in the order they were
\* made, each one changing the answer of the one before, as long as all are
\* about one version of the policy (consent to a new version is appended to
\* consent): the copy a request appended to is still the whole ledger when its
\* row goes in.
LedgerTellsTheStory ==
  \A n \in 2 .. Len(ledger) :
    /\ arrived[ledger[n - 1].by] <= arrived[ledger[n].by]
    /\ ledger[n].granted # ledger[n - 1].granted

\* A candidate who was told that a withdrawal was recorded finds one in the
\* ledger.
WithdrawalIsOnRecord ==
  \A p \in changed :
    kind[p] \in {"withdraw", "erase"} =>
      \E n \in 1 .. Len(ledger) : ~ledger[n].granted

\* Until requests overlap, declarations go into the profile while their
\* storage is granted.
StoredUnderGrant ==
  [][/\ ~overlapped'
     /\ profile'.declared \notin {NoOne, profile.declared}
     => IsGranted(ledger)]_vars

\* Until requests overlap, neither a profile that was erased nor declarations
\* the candidate cleared or replaced come back.
ErasedStaysErased ==
  Serially({profile.id, profile.declared} \cap gone = {})

\* Until requests overlap or are killed, every stored file is named by a row
\* when nobody is at work on them: an upload cleans up, and an erasure
\* deletes the files its rows name.
EveryFileIsNamed ==
  Serially((\A p \in Requests : ~InFlight(p) /\ pc[p] # "killed")
             => files \subseteq resumes)
=============================================================================
