------------------------- MODULE DataRights_proofs -------------------------
(***************************************************************************)
(* Proofs about the consent ledger, the profile and the files, about the   *)
(* sections of the profile, and about the export and the erasure of all    *)
(* that is stored, for any finite set of requests: what holds however      *)
(* requests overlap, and what holds for a candidate who waits for each     *)
(* answer.                                                                 *)
(***************************************************************************)
EXTENDS DataRights, ProfileEdits, PersonalData,
        TLAPS, SequenceTheorems, FiniteSetTheorems, WellFoundedInduction

-----------------------------------------------------------------------------
(* Types *)

LEMMA DecisionOfIsDecision ==
  ASSUME NEW p \in Requests
  PROVE  DecisionOf(p) \in Decision /\ DecisionOf(p).by = p
  BY DEF DecisionOf, Decision

LEMMA EntryIsDecision ==
  ASSUME NEW s \in Seq(Decision), NEW n \in 1 .. Len(s)
  PROVE  s[n] \in Decision /\ s[n].by \in Requests
  <1>1. s[n] \in Decision
    OBVIOUS
  <1> QED BY <1>1 DEF Decision

LEMMA NoProfileIsRow == NoProfile \in ProfileRow
  BY DEF NoProfile, ProfileRow

LEMMA EditedIsRow ==
  ASSUME NEW p \in Requests, profile \in ProfileRow
  PROVE  Edited(p) \in ProfileRow
  <1>1. /\ [profile EXCEPT !.declared = p] \in ProfileRow
        /\ [profile EXCEPT !.declared = NoOne] \in ProfileRow
    BY DEF ProfileRow
  <1> QED BY <1>1 DEF Edited

LEMMA AfterConsentIsLabel ==
  ASSUME NEW p \in Requests
  PROVE  AfterConsent(p) \in {"profile_reread", "reading_keys", "ok"}
  BY DEF AfterConsent

LEMMA ArrivalIsNumbered ==
  Cardinality({q \in Requests : arrived[q] > 0}) \in Nat
  <1> DEFINE S == {q \in Requests : arrived[q] > 0}
  <1>1. IsFiniteSet(S)
    BY RequestsAreFinite, FS_Subset
  <1> QED BY <1>1, FS_CardinalityType

\* What a save leaves in the ledger.
LEMMA SavedIsLedger ==
  ASSUME NEW old \in Seq(Decision), NEW copy \in Seq(Decision), NEW n \in Nat
  PROVE  old \o SubSeq(copy, n + 1, Len(copy)) \in Seq(Decision)
  <1>1. SubSeq(copy, n + 1, Len(copy)) \in Seq(Decision)
    <2>1. \A i \in n + 1 .. Len(copy) : copy[i] \in Decision
      OBVIOUS
    <2> QED BY <2>1, SubSeqProperties
  <1> QED BY <1>1

\* A save of a copy that is one decision ahead adds that decision.
LEMMA SavedIsAppended ==
  ASSUME NEW old \in Seq(Decision), NEW copy \in Seq(Decision), NEW n \in Nat,
         Len(copy) = n + 1
  PROVE  old \o SubSeq(copy, n + 1, Len(copy)) = Append(old, copy[n + 1])
  <1> DEFINE m == Len(copy)
             single == <<copy[m]>>
  <1>1. m = n + 1 /\ m \in Nat /\ m >= 1
    OBVIOUS
  <1>2. SubSeq(copy, m, m) = <<copy[m]>> \o SubSeq(copy, m + 1, m)
    BY <1>1, SubSeqRecursiveFirst
  <1>3. SubSeq(copy, m + 1, m) = <<>>
    BY <1>1, SubSeqEmpty
  <1>4. copy[m] \in Decision
    BY <1>1
  <1>5. single \in Seq(Decision)
    BY <1>4
  <1> HIDE DEF single
  <1>6. single \o <<>> = single
    BY <1>5, ConcatEmptySeq
  <1>7. SubSeq(copy, n + 1, m) = <<copy[m]>>
    BY <1>1, <1>2, <1>3, <1>6 DEF single
  <1> QED BY <1>1, <1>7

LEMMA InitTyped == Init => TypeOK
  <1> SUFFICES ASSUME Init PROVE TypeOK
    OBVIOUS
  <1>1. pc = [p \in Requests |-> "idle"] /\ overlapped = FALSE
    BY DEF Init, InitServing
  <1>2. pc \in [Requests -> Labels] /\ overlapped \in BOOLEAN
    BY <1>1 DEF Labels
  <1>3. ledger \in Seq(Decision) /\ history \in [Requests -> Seq(Decision)]
    BY DEF Init
  <1>4. arrived \in [Requests -> Nat] /\ stored \in [Requests -> Nat]
    BY DEF Init
  <1>5. profile \in ProfileRow
        /\ carried \in [Requests -> ProfileRow]
        /\ seen \in [Requests -> ProfileRow]
    BY NoProfileIsRow DEF Init
  <1> QED BY <1>2, <1>3, <1>4, <1>5 DEF Init, TypeOK

LEMMA StepTyped ==
  ASSUME TypeOK, [Next]_vars PROVE TypeOK'
  <1> USE DEF TypeOK, Goto, Labels, Ended
  <1>1. ASSUME NEW p \in Requests, NEW k \in Kinds, Arrive(p, k) PROVE TypeOK'
    <2>1. FirstStep(k) \in Labels
      BY DEF FirstStep, Kinds
    <2> QED BY <1>1, <2>1, ArrivalIsNumbered DEF Arrive, rightsStores
  <1>2. ASSUME NEW p \in Requests, ReadConsent(p) PROVE TypeOK'
    <2>1. \/ pc' = [pc EXCEPT ![p] = AfterConsent(p)] /\ UNCHANGED history
          \/ pc' = [pc EXCEPT ![p] = "failed"] /\ UNCHANGED history
          \/ /\ history' = [history EXCEPT ![p] = Append(ledger, DecisionOf(p))]
             /\ pc' = [pc EXCEPT ![p] = "saving"]
      BY <1>2 DEF ReadConsent
    <2>2. overlapped' \in BOOLEAN /\ UNCHANGED <<kind, arrived, stored, changed, carried, seen, keys, rightsStores>>
      BY <1>2 DEF ReadConsent
    <2>3. Append(ledger, DecisionOf(p)) \in Seq(Decision)
      BY DecisionOfIsDecision
    <2>4. AfterConsent(p) \in Labels
      BY AfterConsentIsLabel
    <2>5. pc' \in [Requests -> Labels] /\ history' \in [Requests -> Seq(Decision)]
      BY <2>1, <2>3, <2>4
    <2> QED BY <2>2, <2>5 DEF rightsStores
  <1>3. ASSUME NEW p \in Requests, CountDecisions(p) PROVE TypeOK'
    BY <1>3 DEF CountDecisions, StoredDecisions, rightsStores
  <1>4. ASSUME NEW p \in Requests, InsertDecisions(p) PROVE TypeOK'
    <2>1. ledger' \in Seq(Decision)
      BY <1>4, SavedIsLedger DEF InsertDecisions
    <2> QED BY <1>4, <2>1, AfterConsentIsLabel DEF InsertDecisions
  <1>5. ASSUME NEW p \in Requests, InsertDecisionsConflicts(p) PROVE TypeOK'
    BY <1>5 DEF InsertDecisionsConflicts, rightsLocals, rightsStores
  <1>6. ASSUME NEW p \in Requests, ReadProfile(p) PROVE TypeOK'
    <2>1. AfterProfile(kind[p]) \in Labels
      BY DEF AfterProfile
    <2> QED BY <1>6, <2>1, EditedIsRow DEF ReadProfile, rightsStores
  <1>7. ASSUME NEW p \in Requests, ReadNoProfile(p) PROVE TypeOK'
    <2>1. [NoProfile EXCEPT !.id = p] \in ProfileRow
      BY DEF NoProfile, ProfileRow
    <2> QED BY <1>7, <2>1 DEF ReadNoProfile, rightsStores
  <1>8. ASSUME NEW p \in Requests, AddProfile(p) PROVE TypeOK'
    <2>1. /\ overlapped' \in BOOLEAN
          /\ UNCHANGED <<rightsLocals, ledger, resumes, files, gone>>
      BY <1>8 DEF AddProfile
    <2>2. CASE HasProfile
      <3>1. pc' = [pc EXCEPT ![p] = "failed"] /\ UNCHANGED profile
        BY <1>8, <2>2 DEF AddProfile
      <3> QED BY <2>1, <3>1 DEF rightsLocals
    <2>3. CASE ~HasProfile
      <3>1. pc' = [pc EXCEPT ![p] = "ok"] /\ profile' = carried[p]
        BY <1>8, <2>3 DEF AddProfile
      <3> QED BY <2>1, <3>1 DEF rightsLocals
    <2> QED BY <2>2, <2>3
  <1>9. ASSUME NEW p \in Requests, RereadProfile(p) PROVE TypeOK'
    BY <1>9, NoProfileIsRow DEF RereadProfile, Found, rightsStores
  <1>10. ASSUME NEW p \in Requests, FlushProfile(p) PROVE TypeOK'
    <2>1. /\ profile.declared \in Requests \cup {NoOne}
          /\ DeclaredAfterFlush(p) \in Requests \cup {NoOne}
      BY DEF DeclaredAfterFlush, ProfileRow
    <2>2. [carried[p] EXCEPT !.declared = DeclaredAfterFlush(p)] \in ProfileRow
      BY <2>1 DEF ProfileRow
    <2> QED BY <1>10, <2>1, <2>2 DEF FlushProfile, rightsLocals
  <1>11. ASSUME NEW p \in Requests, FlushProfileConflicts(p) PROVE TypeOK'
    BY <1>11 DEF FlushProfileConflicts, rightsLocals, rightsStores
  <1>12. ASSUME NEW p \in Requests, SaveFile(p) PROVE TypeOK'
    BY <1>12 DEF SaveFile, rightsLocals
  <1>13. ASSUME NEW p \in Requests, AddResume(p) PROVE TypeOK'
    BY <1>13 DEF AddResume, rightsLocals
  <1>14. ASSUME NEW p \in Requests, AddResumeFails(p) PROVE TypeOK'
    BY <1>14 DEF AddResumeFails, rightsLocals, rightsStores
  <1>15. ASSUME NEW p \in Requests, RemoveFile(p) PROVE TypeOK'
    BY <1>15 DEF RemoveFile, WithoutFile, rightsLocals
  <1>16. ASSUME NEW p \in Requests, ReadKeys(p) PROVE TypeOK'
    BY <1>16 DEF ReadKeys, rightsStores
  <1>17. ASSUME NEW p \in Requests, NEW f \in Requests, DeleteFile(p, f) PROVE TypeOK'
    BY <1>17 DEF DeleteFile, serving
  <1>18. ASSUME NEW p \in Requests, EraseRows(p) PROVE TypeOK'
    <2>1. {profile.id, profile.declared} \ {NoOne} \subseteq Requests
      BY DEF ProfileRow
    <2>2. ErasedProfile \in ProfileRow
      BY NoProfileIsRow DEF ErasedProfile
    <2>3. /\ gone' \subseteq Requests
          /\ profile' \in ProfileRow
          /\ resumes' \subseteq Requests
      BY <1>18, <2>1, <2>2 DEF EraseRows
    <2> QED BY <1>18, <2>3 DEF EraseRows, rightsLocals
  <1>19. ASSUME NEW p \in Requests, Die(p) PROVE TypeOK'
    BY <1>19 DEF Die, CutShort, rightsLocals, rightsStores
  <1>20. CASE UNCHANGED vars
    BY <1>20 DEF vars, serving, rightsLocals, rightsStores
  <1> QED
    BY <1>1, <1>2, <1>3, <1>4, <1>5, <1>6, <1>7, <1>8, <1>9, <1>10, <1>11,
       <1>12, <1>13, <1>14, <1>15, <1>16, <1>17, <1>18, <1>19, <1>20
       DEF Next, Step

\* The stores and the requests' copies of them keep their types.
THEOREM TypeCorrect == Spec => []TypeOK
  BY InitTyped, StepTyped, PTL DEF Spec
-----------------------------------------------------------------------------
(* The ledger *)

Saving(p) == pc[p] \in {"saving", "inserting"}

\* Two decisions that may follow one another.
Follows(earlier, later) ==
  /\ arrived[earlier.by] <= arrived[later.by]
  /\ later.granted # earlier.granted

\* The copy a request is about to save: its own decision, which may follow
\* the ledger as the request read it.  The ledger may have grown since.
CopyInv(p) ==
  /\ history[p] # <<>>
  /\ history[p][Len(history[p])].by = p
  /\ Len(history[p]) - 1 <= Len(ledger)
  /\ Len(history[p]) > 1 =>
       Follows(ledger[Len(history[p]) - 1], history[p][Len(history[p])])

\* The invariant that is inductive: only requests that have arrived are in
\* the ledger, so nothing changes the dates it is ordered by; and what a
\* request found stored is at least what its copy was made from.
LedgerInv ==
  /\ TypeOK
  /\ LedgerTellsTheStory
  /\ \A n \in 1 .. Len(ledger) : pc[ledger[n].by] # "idle"
  /\ \A p \in Requests : Saving(p) => CopyInv(p)
  /\ \A p \in Requests : pc[p] = "inserting" => stored[p] >= Len(history[p]) - 1

LEMMA InitLedger == Init => LedgerInv
  <1> SUFFICES ASSUME Init PROVE LedgerInv
    OBVIOUS
  <1>1. ledger = <<>> /\ \A p \in Requests : pc[p] = "idle"
    BY DEF Init, InitServing
  <1> QED BY <1>1, InitTyped DEF LedgerInv, LedgerTellsTheStory, Saving

\* A step that leaves the ledger and every copy alone keeps the invariant,
\* as long as the request does not start saving by it.
LEMMA QuietStep ==
  ASSUME LedgerInv, TypeOK', NEW p \in Requests,
         NEW label \in Labels \ {"idle", "saving", "inserting"},
         pc' = [pc EXCEPT ![p] = label],
         UNCHANGED <<ledger, history, stored>>,
         \A q \in Requests : pc[q] # "idle" => arrived'[q] = arrived[q]
  PROVE  LedgerInv'
  <1> USE DEF LedgerInv, TypeOK
  <1>1. \A n \in 1 .. Len(ledger) : ledger[n] \in Decision /\ ledger[n].by \in Requests
    BY EntryIsDecision
  <1>2. \A n \in 1 .. Len(ledger) : arrived'[ledger[n].by] = arrived[ledger[n].by]
    BY <1>1
  <1>3. LedgerTellsTheStory'
    <2> SUFFICES ASSUME NEW n \in 2 .. Len(ledger)
                 PROVE  /\ arrived'[ledger[n - 1].by] <= arrived'[ledger[n].by]
                        /\ ledger[n].granted # ledger[n - 1].granted
      BY DEF LedgerTellsTheStory
    <2>1. n \in 1 .. Len(ledger) /\ n - 1 \in 1 .. Len(ledger)
      OBVIOUS
    <2> QED BY <2>1, <1>2 DEF LedgerTellsTheStory
  <1>4. \A n \in 1 .. Len(ledger') : pc'[ledger'[n].by] # "idle"
    BY <1>1
  <1>5. ASSUME NEW q \in Requests, Saving(q)' PROVE CopyInv(q)'
    <2>1. Saving(q) /\ arrived'[q] = arrived[q]
      BY <1>5 DEF Saving
    <2>2. CopyInv(q)
      BY <2>1
    <2>3. CASE Len(history[q]) > 1
      <3>1. Len(history[q]) - 1 \in 1 .. Len(ledger)
        BY <2>2, <2>3 DEF CopyInv
      <3> QED BY <2>1, <2>2, <2>3, <3>1, <1>2 DEF CopyInv, Follows
    <2>4. CASE ~(Len(history[q]) > 1)
      BY <2>2, <2>4 DEF CopyInv
    <2> QED BY <2>3, <2>4
  <1>6. \A q \in Requests : pc'[q] = "inserting" => stored'[q] >= Len(history'[q]) - 1
    OBVIOUS
  <1> QED BY <1>3, <1>4, <1>5, <1>6

\* A request copies the ledger and adds a decision that may follow it.
LEMMA ReadKeepsLedger ==
  ASSUME LedgerInv, TypeOK', NEW p \in Requests, ReadConsent(p)
  PROVE  LedgerInv'
  <1> USE DEF LedgerInv, TypeOK
  <1>1. UNCHANGED <<arrived, stored, ledger>>
    BY DEF ReadConsent, rightsStores
  <1>2. ASSUME UNCHANGED history, pc' = [pc EXCEPT ![p] = AfterConsent(p)]
        PROVE  LedgerInv'
    <2>2. AfterConsent(p) \in Labels \ {"idle", "saving", "inserting"}
      BY AfterConsentIsLabel DEF Labels, Ended
    <2> QED BY <1>1, <1>2, <2>2, QuietStep
  <1>3. ASSUME UNCHANGED history, pc' = [pc EXCEPT ![p] = "failed"]
        PROVE  LedgerInv'
    <2>2. "failed" \in Labels \ {"idle", "saving", "inserting"}
      BY DEF Labels, Ended
    <2> QED BY <1>1, <1>3, <2>2, QuietStep
  <1>4. ASSUME ~ConsentUnchanged(p), ~ConsentRefused(p),
               history' = [history EXCEPT ![p] = Append(ledger, DecisionOf(p))],
               pc' = [pc EXCEPT ![p] = "saving"]
        PROVE  LedgerInv'
    <2> DEFINE copy == Append(ledger, DecisionOf(p))
    <2>1. /\ history' = [history EXCEPT ![p] = copy]
          /\ pc' = [pc EXCEPT ![p] = "saving"]
      BY <1>4
    <2>2. /\ copy # <<>>
          /\ Len(copy) = Len(ledger) + 1
          /\ copy[Len(copy)] = DecisionOf(p)
          /\ copy \in Seq(Decision)
      <3>1. ledger \in Seq(Decision) /\ DecisionOf(p) \in Decision
        BY DecisionOfIsDecision
      <3> HIDE DEF LedgerInv, TypeOK
      <3> QED BY <3>1
    <2>3. ASSUME Len(ledger) >= 1
          PROVE  /\ arrived[ledger[Len(ledger)].by] <= arrived[p]
                 /\ DecisionOf(p).granted # ledger[Len(ledger)].granted
      <3>1. ledger # <<>> /\ ledger[Len(ledger)] \in Decision
        BY <2>3
      <3>2. ~OutOfOrder(p) /\ ~Restates(p)
        BY <1>4 DEF ConsentUnchanged, ConsentRefused
      <3>3. ledger[Len(ledger)].by \in Requests
        BY <3>1 DEF Decision
      <3> QED BY <3>1, <3>2, <3>3 DEF OutOfOrder, Restates
    <2> HIDE DEF copy
    <2>4. CopyInv(p)'
      BY <1>1, <2>1, <2>2, <2>3, DecisionOfIsDecision DEF CopyInv, Follows
    <2>5. ASSUME NEW q \in Requests, q # p, Saving(q)' PROVE CopyInv(q)'
      <3>1. Saving(q) /\ history'[q] = history[q]
        BY <2>1, <2>5 DEF Saving
      <3> QED BY <1>1, <3>1 DEF CopyInv, Follows
    <2>6. LedgerTellsTheStory'
      BY <1>1 DEF LedgerTellsTheStory
    <2>7. \A n \in 1 .. Len(ledger') : pc'[ledger'[n].by] # "idle"
      BY <1>1, <2>1 DEF Decision
    <2>8. \A q \in Requests : pc'[q] = "inserting" => stored'[q] >= Len(history'[q]) - 1
      BY <1>1, <2>1
    <2> QED BY <2>4, <2>5, <2>6, <2>7, <2>8
  <1> QED BY <1>2, <1>3, <1>4 DEF ReadConsent, Goto

LEMMA CountKeepsLedger ==
  ASSUME LedgerInv, TypeOK', NEW p \in Requests, CountDecisions(p)
  PROVE  LedgerInv'
  <1> USE DEF LedgerInv, TypeOK
  <1>1. /\ pc[p] = "saving"
        /\ stored' = [stored EXCEPT ![p] = Len(ledger)]
        /\ pc' = [pc EXCEPT ![p] = "inserting"]
        /\ UNCHANGED <<arrived, history, ledger>>
    BY DEF CountDecisions, StoredDecisions, Goto, rightsStores
  <1>2. ASSUME NEW q \in Requests, Saving(q)' PROVE CopyInv(q)'
    <2>1. Saving(q)
      BY <1>1, <1>2 DEF Saving
    <2> QED BY <1>1, <2>1 DEF CopyInv, Follows
  <1>3. CopyInv(p)
    BY <1>1 DEF Saving
  <1>4. \A q \in Requests : pc'[q] = "inserting" => stored'[q] >= Len(history'[q]) - 1
    BY <1>1, <1>3 DEF CopyInv
  <1>5. LedgerTellsTheStory'
    BY <1>1 DEF LedgerTellsTheStory
  <1>6. \A n \in 1 .. Len(ledger') : pc'[ledger'[n].by] # "idle"
    BY <1>1 DEF Decision
  <1> QED BY <1>2, <1>4, <1>5, <1>6

\* A save adds its decision right behind the ledger its copy was made from,
\* or adds nothing.
LEMMA InsertAppends ==
  ASSUME LedgerInv, NEW p \in Requests, InsertDecisions(p)
  PROVE  \/ ledger' = ledger
         \/ /\ Len(ledger) = Len(history[p]) - 1
            /\ ledger' = Append(ledger, history[p][Len(history[p])])
  <1> DEFINE m == Len(history[p])
  <1>1. /\ history[p] \in Seq(Decision) /\ ledger \in Seq(Decision)
        /\ stored[p] \in Nat /\ m \in Nat
        /\ stored[p] >= m - 1 /\ m >= 1
    BY DEF LedgerInv, TypeOK, InsertDecisions, CopyInv, Saving
  <1>2. ledger' = ledger \o SubSeq(history[p], stored[p] + 1, m)
    BY DEF InsertDecisions
  <1>3. CASE stored[p] >= m
    <2>1. SubSeq(history[p], stored[p] + 1, m) = <<>>
      BY <1>1, <1>3, SubSeqEmpty
    <2> QED BY <1>1, <1>2, <2>1, ConcatEmptySeq
  <1>4. CASE stored[p] < m
    <2>1. stored[p] = m - 1 /\ Len(ledger) = m - 1
      BY <1>1, <1>4 DEF InsertDecisions, SequenceIsFree
    <2> QED BY <1>1, <1>2, <2>1, SavedIsAppended
  <1> QED BY <1>1, <1>3, <1>4

LEMMA InsertKeepsLedger ==
  ASSUME LedgerInv, TypeOK', NEW p \in Requests, InsertDecisions(p)
  PROVE  LedgerInv'
  <1> USE DEF LedgerInv, TypeOK
  <1>1. /\ pc[p] = "inserting"
        /\ pc' = [pc EXCEPT ![p] = AfterConsent(p)]
        /\ UNCHANGED <<arrived, history, stored>>
    BY DEF InsertDecisions, Goto
  <1>2. AfterConsent(p) \in Labels \ {"idle", "saving", "inserting"}
    BY AfterConsentIsLabel DEF Labels, Ended
  <1>3. CASE ledger' = ledger
    BY <1>1, <1>2, <1>3, QuietStep
  <1>4. CASE /\ Len(ledger) = Len(history[p]) - 1
             /\ ledger' = Append(ledger, history[p][Len(history[p])])
    <2> DEFINE m == Len(history[p])
               last == history[p][m]
    <2>1. CopyInv(p) /\ m \in Nat /\ m >= 1 /\ last \in Decision /\ last.by = p
      BY <1>1 DEF Saving, CopyInv
    <2>2. /\ Len(ledger') = m
          /\ ledger'[m] = last
          /\ \A n \in 1 .. m - 1 : ledger'[n] = ledger[n]
      BY <1>4, <2>1
    <2>3. m > 1 => Follows(ledger[m - 1], last)
      BY <2>1 DEF CopyInv
    <2> HIDE DEF last
    <2>4. LedgerTellsTheStory'
      <3> SUFFICES ASSUME NEW n \in 2 .. m
                   PROVE  /\ arrived[ledger'[n - 1].by] <= arrived[ledger'[n].by]
                          /\ ledger'[n].granted # ledger'[n - 1].granted
        BY <1>1, <2>2 DEF LedgerTellsTheStory
      <3>1. CASE n = m
        <4>1. m > 1 /\ n - 1 = m - 1 /\ m - 1 \in 1 .. m - 1
          BY <2>1, <3>1
        <4> HIDE DEF LedgerInv, TypeOK, m
        <4>2. ledger'[n - 1] = ledger[m - 1] /\ ledger'[n] = last
          BY <2>2, <3>1, <4>1
        <4>3. Follows(ledger[m - 1], last)
          BY <2>3, <4>1
        <4> QED BY <4>2, <4>3 DEF Follows
      <3>2. CASE n # m
        <4>1. n \in 2 .. Len(ledger) /\ n \in 1 .. m - 1 /\ n - 1 \in 1 .. m - 1
          BY <1>4, <2>1, <3>2
        <4> QED BY <2>2, <4>1 DEF LedgerTellsTheStory
      <3> QED BY <3>1, <3>2
    <2>5. ASSUME NEW n \in 1 .. Len(ledger') PROVE pc'[ledger'[n].by] # "idle"
      <3>1. CASE n = m
        BY <1>1, <1>2, <2>1, <2>2, <3>1
      <3>2. CASE n # m
        <4>1. n \in 1 .. m - 1 /\ n \in 1 .. Len(ledger)
          BY <1>4, <2>1, <2>2, <3>2
        <4>2. pc[ledger[n].by] # "idle" /\ ledger'[n] = ledger[n] /\ ledger[n].by \in Requests
          BY <2>2, <4>1, EntryIsDecision
        <4> QED BY <1>1, <1>2, <4>2
      <3> QED BY <3>1, <3>2
    <2>6. ASSUME NEW q \in Requests, Saving(q)' PROVE CopyInv(q)'
      <3>1. Saving(q)
        BY <1>1, <1>2, <2>6 DEF Saving
      <3>2. CopyInv(q) /\ Len(history[q]) \in Nat
        BY <3>1
      <3>3. CASE Len(history[q]) > 1
        <4>1. Len(history[q]) - 1 \in 1 .. m - 1
          BY <1>4, <3>2, <3>3 DEF CopyInv
        <4> QED BY <1>1, <1>4, <2>2, <3>2, <3>3, <4>1 DEF CopyInv, Follows
      <3>4. CASE ~(Len(history[q]) > 1)
        BY <1>1, <1>4, <2>2, <3>2, <3>4 DEF CopyInv
      <3> QED BY <3>3, <3>4
    <2>7. \A q \in Requests : pc'[q] = "inserting" => stored'[q] >= Len(history'[q]) - 1
      BY <1>1, <1>2
    <2> QED BY <2>4, <2>5, <2>6, <2>7
  <1> QED BY <1>3, <1>4, InsertAppends

LEMMA StepLedger ==
  ASSUME LedgerInv, [Next]_vars PROVE LedgerInv'
  <1>1. TypeOK'
    BY StepTyped DEF LedgerInv
  <1>2. ASSUME NEW p \in Requests, NEW k \in Kinds, Arrive(p, k) PROVE LedgerInv'
    <2>1. FirstStep(k) \in Labels \ {"idle", "saving", "inserting"}
      BY DEF FirstStep, Kinds, Labels
    <2>2. \A q \in Requests : pc[q] # "idle" => arrived'[q] = arrived[q]
      BY <1>2 DEF Arrive, MayStart, LedgerInv, TypeOK
    <2> QED BY <1>1, <1>2, <2>1, <2>2, QuietStep DEF Arrive, Goto, rightsStores
  <1>3. ASSUME NEW p \in Requests, ReadConsent(p) PROVE LedgerInv'
    BY <1>1, <1>3, ReadKeepsLedger
  <1>4. ASSUME NEW p \in Requests, CountDecisions(p) PROVE LedgerInv'
    BY <1>1, <1>4, CountKeepsLedger
  <1>5. ASSUME NEW p \in Requests, InsertDecisions(p) PROVE LedgerInv'
    BY <1>1, <1>5, InsertKeepsLedger
  <1>6. ASSUME NEW p \in Requests, ReadProfile(p) PROVE LedgerInv'
    <2>1. CASE kind[p] = "declare"
      <3>1. AfterProfile(kind[p]) = "consent"
        BY <2>1 DEF AfterProfile
      <3> QED BY <1>1, <1>6, <3>1, QuietStep DEF ReadProfile, Goto, rightsStores, Labels
    <2>2. CASE kind[p] # "declare"
      <3>1. AfterProfile(kind[p]) = "profile_reread"
        BY <2>2 DEF AfterProfile
      <3> QED BY <1>1, <1>6, <3>1, QuietStep DEF ReadProfile, Goto, rightsStores, Labels
    <2> QED BY <2>1, <2>2
  <1>7. ASSUME NEW p \in Requests, ReadNoProfile(p) PROVE LedgerInv'
    <2>1. PICK label \in {"adding_profile", "failed"} : pc' = [pc EXCEPT ![p] = label]
      BY <1>7 DEF ReadNoProfile, Goto
    <2> QED BY <1>1, <1>7, <2>1, QuietStep DEF ReadNoProfile, rightsStores, Labels, Ended
  <1>8. ASSUME NEW p \in Requests, AddProfile(p) PROVE LedgerInv'
    <2>1. PICK label \in Ended : pc' = [pc EXCEPT ![p] = label]
      BY <1>8 DEF AddProfile, Goto, Ended
    <2> QED BY <1>1, <1>8, <2>1, QuietStep DEF AddProfile, rightsLocals, Labels, Ended
  <1>9. ASSUME NEW p \in Requests, RereadProfile(p) PROVE LedgerInv'
    BY <1>1, <1>9, QuietStep DEF RereadProfile, Goto, rightsStores, Labels
  <1>10. ASSUME NEW p \in Requests, FlushProfile(p) PROVE LedgerInv'
    BY <1>1, <1>10, QuietStep DEF FlushProfile, Goto, rightsLocals, Labels, Ended
  <1>11. ASSUME NEW p \in Requests,
                InsertDecisionsConflicts(p) \/ FlushProfileConflicts(p) \/ Die(p)
         PROVE LedgerInv'
    BY <1>1, <1>11, QuietStep
       DEF InsertDecisionsConflicts, FlushProfileConflicts, Die, CutShort, Goto,
           rightsLocals, rightsStores, Labels, Ended
  <1>12. ASSUME NEW p \in Requests, SaveFile(p) PROVE LedgerInv'
    BY <1>1, <1>12, QuietStep DEF SaveFile, Goto, rightsLocals, Labels
  <1>13. ASSUME NEW p \in Requests, AddResume(p) PROVE LedgerInv'
    BY <1>1, <1>13, QuietStep DEF AddResume, Goto, rightsLocals, Labels, Ended
  <1>14. ASSUME NEW p \in Requests, AddResumeFails(p) PROVE LedgerInv'
    BY <1>1, <1>14, QuietStep DEF AddResumeFails, Goto, rightsLocals, rightsStores, Labels
  <1>15. ASSUME NEW p \in Requests, RemoveFile(p) PROVE LedgerInv'
    BY <1>1, <1>15, QuietStep DEF RemoveFile, Goto, rightsLocals, Labels, Ended
  <1>16. ASSUME NEW p \in Requests, ReadKeys(p) PROVE LedgerInv'
    BY <1>1, <1>16, QuietStep DEF ReadKeys, Goto, rightsStores, Labels
  <1>17. ASSUME UNCHANGED <<pc, ledger, arrived, history, stored>> PROVE LedgerInv'
    BY <1>1, <1>17 DEF LedgerInv, LedgerTellsTheStory, Saving, CopyInv, Follows
  <1>18. ASSUME NEW p \in Requests, NEW f \in Requests, DeleteFile(p, f) PROVE LedgerInv'
    BY <1>17, <1>18 DEF DeleteFile, serving
  <1>19. ASSUME NEW p \in Requests, EraseRows(p) PROVE LedgerInv'
    <2>1. /\ pc' = [pc EXCEPT ![p] = "ok"]
          /\ UNCHANGED <<ledger, history, stored, arrived>>
      BY <1>19 DEF EraseRows, Goto, rightsLocals
    <2>2. "ok" \in Labels \ {"idle", "saving", "inserting"}
      BY DEF Labels, Ended
    <2> QED BY <1>1, <2>1, <2>2, QuietStep
  <1>20. CASE UNCHANGED vars
    BY <1>17, <1>20 DEF vars, serving, rightsLocals, rightsStores
  <1> QED
    BY <1>2, <1>3, <1>4, <1>5, <1>6, <1>7, <1>8, <1>9, <1>10, <1>11, <1>12,
       <1>13, <1>14, <1>15, <1>16, <1>18, <1>19, <1>20
       DEF Next, Step

\* However decisions, declarations and erasures overlap, the stored ledger
\* is in the order the decisions were made and, while there is one version of
\* the policy, each one changes the answer.
THEOREM LedgerIsSound == Spec => []LedgerTellsTheStory
  <1>1. Init => LedgerInv
    BY InitLedger
  <1>2. LedgerInv /\ [Next]_vars => LedgerInv'
    BY StepLedger
  <1>3. LedgerInv => LedgerTellsTheStory
    BY DEF LedgerInv
  <1> QED BY <1>1, <1>2, <1>3, PTL DEF Spec

-----------------------------------------------------------------------------
(* The profile and the files, for a candidate who waits for each answer *)

\* The entity a request is to write back, and the row as it read it.
UpdateInv(p) ==
  /\ pc[p] = "profile" => kind[p] \in {"declare", "clear", "contact"}
  /\ pc[p] \in {"consent", "saving", "inserting"} /\ kind[p] = "declare" =>
       carried[p] = Edited(p)
  /\ pc[p] \in {"saving", "inserting"} => history[p] = Append(ledger, DecisionOf(p))
  /\ pc[p] = "inserting" => stored[p] = Len(ledger)
  /\ pc[p] \in {"profile_reread", "profile_flush"} =>
       /\ kind[p] \in {"declare", "clear", "contact"}
       /\ carried[p] = Edited(p)
       /\ kind[p] = "declare" => IsGranted(ledger)
  /\ pc[p] = "profile_flush" => seen[p] = profile
  /\ pc[p] = "adding_profile" =>
       kind[p] = "contact" /\ carried[p] = [NoProfile EXCEPT !.id = p]

\* The requests whose profile and declarations are stored.
Held == {profile.id, profile.declared} \ {NoOne}

ProfileInv ==
  /\ Held \cap gone = {}
  /\ \A q \in Held \cup gone : pc[q] \in Ended
  /\ profile.id # NoOne => kind[profile.id] = "contact"
  /\ profile.declared # NoOne => kind[profile.declared] = "declare"

\* An upload under way owns the one file without a row; an erasure still has
\* the key of every file.
FilesInv ==
  (\A q \in Requests : pc[q] # "killed") =>
    /\ \A f \in files \ resumes : pc[f] \in {"adding_resume", "removing_file"}
    /\ \A p \in Requests : pc[p] = "deleting_files" => files \subseteq keys[p]

\* What is inductive until requests overlap: one request is served at a time,
\* so what it read is still what is stored.
SerialRightsInv ==
  /\ \A p, q \in Requests : InFlight(p) /\ InFlight(q) => p = q
  /\ \A p \in Requests : UpdateInv(p)
  /\ ProfileInv
  /\ FilesInv

LEMMA SetsUnfold ==
  /\ Held = {profile.id, profile.declared} \ {NoOne}
  /\ \A q : pc[q] \in Ended <=> pc[q] = "ok" \/ pc[q] = "failed" \/ pc[q] = "killed"
  BY DEF Held, Ended

LEMMA InitSerialRights == Init => SerialRightsInv
  <1> SUFFICES ASSUME Init PROVE SerialRightsInv
    OBVIOUS
  <1>1. /\ \A p \in Requests : pc[p] = "idle"
        /\ profile = NoProfile /\ gone = {} /\ files = {}
    BY DEF Init, InitServing
  <1>2. Held = {}
    BY <1>1 DEF Held, NoProfile
  <1>3. ProfileInv
    BY <1>1, <1>2 DEF ProfileInv, NoProfile
  <1>4. FilesInv
    BY <1>1 DEF FilesInv
  <1> QED BY <1>1, <1>3, <1>4 DEF SerialRightsInv, InFlight, UpdateInv

\* Where nobody overlaps, nobody but the request that takes a step is served,
\* before it and after it.
LEMMA OthersRest ==
  ASSUME TypeOK, Serially(SerialRightsInv), ~overlapped', NEW p \in Requests,
         NEW label, Goto(p, label), pc[p] \notin Ended
  PROVE  /\ SerialRightsInv
         /\ pc' = [pc EXCEPT ![p] = label]
         /\ \A q \in Requests \ {p} : ~InFlight(q) /\ pc'[q] = pc[q]
         /\ pc'[p] = label
         /\ \A q, r \in Requests : InFlight(q)' /\ InFlight(r)' => q = r
         /\ \A q \in Requests \ {p} : UpdateInv(q)'
  <1>1. pc' = [pc EXCEPT ![p] = label] /\ ~overlapped
    BY DEF Goto
  <1>2. SerialRightsInv
    BY <1>1 DEF Serially
  <1>3. \A q \in Requests \ {p} : pc'[q] = pc[q]
    BY <1>1 DEF TypeOK
  <1>4. pc'[p] = label
    BY <1>1 DEF TypeOK
  <1>5. \A q \in Requests \ {p} : ~InFlight(q)
    <2>1. CASE pc[p] = "idle"
      BY <2>1 DEF Goto
    <2>2. CASE pc[p] # "idle"
      <3>1. InFlight(p)
        BY <2>2 DEF InFlight
      <3> QED BY <1>2, <3>1 DEF SerialRightsInv
    <2> QED BY <2>1, <2>2
  <1>6. \A q, r \in Requests : InFlight(q)' /\ InFlight(r)' => q = r
    BY <1>3, <1>5 DEF InFlight
  <1>7. \A q \in Requests \ {p} : UpdateInv(q)'
    BY <1>3, <1>5 DEF InFlight, UpdateInv, Ended
  <1> QED BY <1>1, <1>2, <1>3, <1>4, <1>5, <1>6, <1>7

\* A step that leaves the profile alone.
LEMMA ProfileIsLeft ==
  ASSUME TypeOK, ProfileInv, NEW p \in Requests, NEW label,
         pc' = [pc EXCEPT ![p] = label], pc[p] \notin Ended,
         UNCHANGED <<profile, gone>>,
         \A q \in Requests : pc[q] \in Ended => kind'[q] = kind[q]
  PROVE  ProfileInv'
  <1>1. Held' = Held /\ Held \cup gone \subseteq Requests
    BY DEF Held, TypeOK, ProfileRow
  <1>2. \A q \in Held \cup gone : pc[q] \in Ended /\ q # p /\ q \in Requests
    BY <1>1 DEF ProfileInv
  <1>3. \A q \in Held \cup gone : pc'[q] \in Ended /\ kind'[q] = kind[q]
    BY <1>2 DEF TypeOK
  <1>4. \A q \in {profile.id, profile.declared} : q # NoOne => kind'[q] = kind[q]
    BY <1>3 DEF Held
  <1> QED BY <1>1, <1>3, <1>4 DEF ProfileInv

\* A step that leaves the files and the rows that name them alone.
LEMMA FilesAreLeft ==
  ASSUME TypeOK, FilesInv, NEW p \in Requests, NEW label,
         pc' = [pc EXCEPT ![p] = label], pc[p] # "killed",
         UNCHANGED <<files, resumes, keys>>,
         label # "deleting_files",
         pc[p] \in {"adding_resume", "removing_file"} =>
           label \in {"adding_resume", "removing_file", "killed"}
  PROVE  FilesInv'
  <1> SUFFICES ASSUME \A q \in Requests : pc'[q] # "killed"
               PROVE  /\ \A f \in files \ resumes : pc'[f] \in {"adding_resume", "removing_file"}
                      /\ \A q \in Requests : pc'[q] = "deleting_files" => files \subseteq keys[q]
    BY DEF FilesInv
  <1>1. \A q \in Requests : pc[q] # "killed"
    BY DEF TypeOK
  <1>2. label # "killed"
    BY DEF TypeOK
  <1>3. \A f \in files \ resumes : pc'[f] \in {"adding_resume", "removing_file"}
    <2> SUFFICES ASSUME NEW f \in files \ resumes
                 PROVE  pc'[f] \in {"adding_resume", "removing_file"}
      OBVIOUS
    <2>1. f \in Requests /\ pc[f] \in {"adding_resume", "removing_file"}
      BY <1>1 DEF FilesInv, TypeOK
    <2> QED BY <1>2, <2>1 DEF TypeOK
  <1>4. \A q \in Requests : pc'[q] = "deleting_files" => pc[q] = "deleting_files"
    BY DEF TypeOK
  <1> QED BY <1>1, <1>3, <1>4 DEF FilesInv

\* A step that leaves the stores alone, but for the ledger.
LEMMA StoresAreLeft ==
  ASSUME TypeOK, Serially(SerialRightsInv), ~overlapped', NEW p \in Requests,
         NEW label, Goto(p, label), pc[p] \notin Ended,
         UNCHANGED <<profile, gone, files, resumes, keys>>,
         \A q \in Requests : pc[q] \in Ended => kind'[q] = kind[q],
         label # "deleting_files",
         pc[p] \in {"adding_resume", "removing_file"} =>
           label \in {"adding_resume", "removing_file", "killed"},
         UpdateInv(p)'
  PROVE  SerialRightsInv'
  <1>1. /\ SerialRightsInv
        /\ pc' = [pc EXCEPT ![p] = label]
        /\ \A q, r \in Requests : InFlight(q)' /\ InFlight(r)' => q = r
        /\ \A q \in Requests : UpdateInv(q)'
    BY OthersRest
  <1>2. pc[p] # "killed"
    BY DEF Ended
  <1>3. ProfileInv'
    BY <1>1, ProfileIsLeft DEF SerialRightsInv
  <1>4. FilesInv'
    BY <1>1, <1>2, FilesAreLeft DEF SerialRightsInv
  <1> QED BY <1>1, <1>3, <1>4 DEF SerialRightsInv

LEMMA ArriveSerial ==
  ASSUME TypeOK, Serially(SerialRightsInv), ~overlapped',
         NEW p \in Requests, NEW k \in Kinds, Arrive(p, k)
  PROVE  SerialRightsInv'
  <1>1. /\ pc[p] = "idle" /\ Goto(p, FirstStep(k))
        /\ kind' = [kind EXCEPT ![p] = k]
        /\ UNCHANGED <<profile, gone, files, resumes, keys>>
    BY DEF Arrive, MayStart, rightsStores
  <1>2. pc'[p] = FirstStep(k) /\ kind'[p] = k
    BY <1>1 DEF Goto, TypeOK
  <1>3. UpdateInv(p)'
    <2>1. CASE k \in {"grant", "withdraw", "erase"}
      BY <1>2, <2>1 DEF FirstStep, UpdateInv
    <2>2. CASE k \in {"declare", "clear", "contact", "upload"}
      BY <1>2, <2>2 DEF FirstStep, UpdateInv
    <2> QED BY <2>1, <2>2 DEF Kinds
  <1>4. FirstStep(k) # "deleting_files"
    BY DEF FirstStep, Kinds
  <1>5. \A q \in Requests : pc[q] \in Ended => kind'[q] = kind[q]
    BY <1>1 DEF TypeOK, Ended
  <1>6. pc[p] \notin Ended
    BY <1>1 DEF Ended
  <1> QED BY <1>1, <1>3, <1>4, <1>5, <1>6, StoresAreLeft

LEMMA LastOfAppended ==
  ASSUME NEW s \in Seq(Decision), NEW d \in Decision
  PROVE  /\ Append(s, d) # <<>>
         /\ Append(s, d)[Len(Append(s, d))] = d
         /\ Len(Append(s, d)) = Len(s) + 1
         /\ Append(s, d) \in Seq(Decision)
  OBVIOUS

LEMMA ReadConsentSerial ==
  ASSUME TypeOK, Serially(SerialRightsInv), ~overlapped',
         NEW p \in Requests, ReadConsent(p)
  PROVE  SerialRightsInv'
  <1>1. /\ pc[p] = "consent"
        /\ UNCHANGED <<kind, carried, stored, ledger, profile, gone, files, resumes, keys>>
    BY DEF ReadConsent, rightsStores
  <1>2. pc[p] \notin Ended
    BY <1>1 DEF Ended
  <1>3. ~overlapped /\ SerialRightsInv
    BY DEF ReadConsent, Goto, Serially
  <1>4. kind[p] = "declare" => carried[p] = Edited(p)
    BY <1>1, <1>3 DEF SerialRightsInv, UpdateInv
  <1>5. Edited(p)' = Edited(p) /\ DecisionOf(p)' = DecisionOf(p)
    BY <1>1 DEF Edited, DecisionOf
  <1>6. CASE ConsentUnchanged(p) /\ Goto(p, AfterConsent(p))
    <2>1. pc'[p] = AfterConsent(p)
      BY <1>6 DEF Goto, TypeOK
    <2>2. CASE kind[p] = "declare"
      <3>1. AfterConsent(p) = "profile_reread"
        BY <2>2 DEF AfterConsent
      <3>2. ~NothingToWithdraw(p)
        BY <2>2 DEF NothingToWithdraw
      <3>3. ledger # <<>> /\ ledger[Len(ledger)].granted = DecisionOf(p).granted
        BY <1>6, <3>2 DEF ConsentUnchanged, Restates
      <3>4. IsGranted(ledger)
        BY <2>2, <3>3 DEF IsGranted, DecisionOf
      <3>5. IsGranted(ledger)'
        BY <1>1, <3>4 DEF IsGranted
      <3>6. UpdateInv(p)'
        BY <1>1, <1>4, <1>5, <2>1, <2>2, <3>1, <3>5 DEF UpdateInv
      <3> QED BY <1>1, <1>2, <1>6, <3>1, <3>6, StoresAreLeft
    <2>3. CASE kind[p] # "declare"
      <3>1. AfterConsent(p) \in {"reading_keys", "ok"}
        BY <2>3 DEF AfterConsent
      <3>2. UpdateInv(p)'
        BY <2>1, <3>1 DEF UpdateInv
      <3> QED BY <1>1, <1>2, <1>6, <3>1, <3>2, StoresAreLeft
    <2> QED BY <2>2, <2>3
  <1>7. CASE Goto(p, "failed")
    <2>1. UpdateInv(p)'
      BY <1>7 DEF Goto, TypeOK, UpdateInv
    <2> QED BY <1>1, <1>2, <1>7, <2>1, StoresAreLeft
  <1>8. CASE /\ history' = [history EXCEPT ![p] = Append(ledger, DecisionOf(p))]
             /\ Goto(p, "saving")
    <2>1. pc'[p] = "saving" /\ history'[p] = Append(ledger, DecisionOf(p))
      BY <1>8 DEF Goto, TypeOK
    <2>2. UpdateInv(p)'
      BY <1>1, <1>4, <1>5, <2>1 DEF UpdateInv
    <2> QED BY <1>1, <1>2, <1>8, <2>2, StoresAreLeft
  <1> QED BY <1>6, <1>7, <1>8 DEF ReadConsent

LEMMA CountSerial ==
  ASSUME TypeOK, Serially(SerialRightsInv), ~overlapped',
         NEW p \in Requests, CountDecisions(p)
  PROVE  SerialRightsInv'
  <1>1. /\ pc[p] = "saving" /\ Goto(p, "inserting")
        /\ stored' = [stored EXCEPT ![p] = Len(ledger)]
        /\ UNCHANGED <<kind, carried, history, ledger, profile, gone, files, resumes, keys>>
    BY DEF CountDecisions, StoredDecisions, rightsStores
  <1>2. SerialRightsInv
    BY <1>1 DEF Goto, Serially
  <1>3. /\ kind[p] = "declare" => carried[p] = Edited(p)
        /\ history[p] = Append(ledger, DecisionOf(p))
    BY <1>1, <1>2 DEF SerialRightsInv, UpdateInv
  <1>4. Edited(p)' = Edited(p) /\ DecisionOf(p)' = DecisionOf(p)
    BY <1>1 DEF Edited, DecisionOf
  <1>5. pc'[p] = "inserting" /\ stored'[p] = Len(ledger)
    BY <1>1 DEF Goto, TypeOK
  <1>6. UpdateInv(p)'
    BY <1>1, <1>3, <1>4, <1>5 DEF UpdateInv
  <1>7. pc[p] \notin Ended
    BY <1>1 DEF Ended
  <1> QED BY <1>1, <1>6, <1>7, StoresAreLeft

\* What goes into the ledger is the request's own decision, and it is the
\* last word.
LEMMA InsertSerial ==
  ASSUME TypeOK, Serially(SerialRightsInv), ~overlapped',
         NEW p \in Requests, InsertDecisions(p)
  PROVE  SerialRightsInv'
  <1>1. /\ pc[p] = "inserting" /\ Goto(p, AfterConsent(p))
        /\ ledger' = ledger \o SubSeq(history[p], stored[p] + 1, Len(history[p]))
        /\ UNCHANGED <<kind, carried, profile, gone, files, resumes, keys>>
    BY DEF InsertDecisions
  <1>2. SerialRightsInv
    BY <1>1 DEF Goto, Serially
  <1>3. /\ kind[p] = "declare" => carried[p] = Edited(p)
        /\ history[p] = Append(ledger, DecisionOf(p))
        /\ stored[p] = Len(ledger)
    BY <1>1, <1>2 DEF SerialRightsInv, UpdateInv
  <1>4. Edited(p)' = Edited(p)
    BY <1>1 DEF Edited
  <1>5. pc[p] \notin Ended /\ pc'[p] = AfterConsent(p)
    BY <1>1 DEF Goto, TypeOK, Ended
  <1>6. CASE kind[p] = "declare"
    <2>1. AfterConsent(p) = "profile_reread"
      BY <1>6 DEF AfterConsent
    <2>2. IsGranted(ledger')
      <3> DEFINE d == DecisionOf(p)
                 n == Len(ledger)
                 h == Append(ledger, d)
      <3>1. ledger \in Seq(Decision) /\ d \in Decision /\ n \in Nat /\ d.granted
        <4>1. d.granted
          BY <1>6 DEF DecisionOf
        <4>2. d \in Decision
          BY DecisionOfIsDecision
        <4>3. ledger \in Seq(Decision)
          BY DEF TypeOK
        <4> QED BY <4>1, <4>2, <4>3
      <3>2. h \in Seq(Decision) /\ Len(h) = n + 1 /\ h[n + 1] = d
        BY <3>1, LastOfAppended
      <3> HIDE DEF d, h
      <3>3. ledger' = Append(ledger, d)
        <4>1. ledger' = ledger \o SubSeq(h, n + 1, Len(h))
          BY <1>1, <1>3 DEF h, d
        <4> QED BY <3>1, <3>2, <4>1, SavedIsAppended
      <3> QED BY <3>1, <3>3, LastOfAppended DEF IsGranted
    <2>3. IsGranted(ledger)'
      BY <2>2 DEF IsGranted
    <2>4. UpdateInv(p)'
      BY <1>1, <1>3, <1>4, <1>5, <1>6, <2>1, <2>3 DEF UpdateInv
    <2> QED BY <1>1, <1>5, <2>1, <2>4, StoresAreLeft
  <1>7. CASE kind[p] # "declare"
    <2>1. AfterConsent(p) \in {"reading_keys", "ok"}
      BY <1>7 DEF AfterConsent
    <2>2. UpdateInv(p)'
      BY <1>5, <2>1 DEF UpdateInv
    <2> QED BY <1>1, <1>5, <2>1, <2>2, StoresAreLeft
  <1> QED BY <1>6, <1>7

\* A request that is through, or only looks at what nothing else holds.
LEMMA PlainStepSerial ==
  ASSUME TypeOK, Serially(SerialRightsInv), ~overlapped', NEW p \in Requests,
         NEW label \in {"ok", "failed", "killed", "reading_keys", "removing_file"},
         Goto(p, label), pc[p] \notin Ended,
         UNCHANGED <<profile, gone, files, resumes, keys, kind>>,
         pc[p] \in {"adding_resume", "removing_file"} =>
           label \in {"adding_resume", "removing_file", "killed"}
  PROVE  SerialRightsInv'
  <1>1. pc'[p] = label
    BY DEF Goto, TypeOK
  <1>2. UpdateInv(p)'
    BY <1>1 DEF UpdateInv
  <1> QED BY <1>2, StoresAreLeft

LEMMA ReadProfileSerial ==
  ASSUME TypeOK, Serially(SerialRightsInv), ~overlapped', NEW p \in Requests,
         ReadProfile(p)
  PROVE  SerialRightsInv'
  <1>0. kind[p] \in {"declare", "clear", "contact"}
    BY DEF ReadProfile, Goto, Serially, SerialRightsInv, UpdateInv
  <1>1. /\ pc[p] = "profile" /\ Goto(p, AfterProfile(kind[p]))
        /\ carried' = [carried EXCEPT ![p] = Edited(p)]
        /\ UNCHANGED <<kind, ledger, profile, gone, files, resumes, keys>>
    BY DEF ReadProfile, rightsStores
  <1>2. pc'[p] = AfterProfile(kind[p]) /\ carried'[p] = Edited(p)
    BY <1>1 DEF Goto, TypeOK
  <1>3. Edited(p)' = Edited(p)
    BY <1>1 DEF Edited
  <1>4. pc[p] \notin Ended
    BY <1>1 DEF Ended
  <1>5. AfterProfile(kind[p]) # "deleting_files" /\ UpdateInv(p)'
    BY <1>0, <1>1, <1>2, <1>3 DEF AfterProfile, UpdateInv
  <1> QED BY <1>1, <1>4, <1>5, StoresAreLeft

LEMMA ReadNoProfileSerial ==
  ASSUME TypeOK, Serially(SerialRightsInv), ~overlapped', NEW p \in Requests,
         ReadNoProfile(p)
  PROVE  SerialRightsInv'
  <1>1. /\ pc[p] = "profile"
        /\ UNCHANGED <<kind, profile, gone, files, resumes, keys>>
    BY DEF ReadNoProfile, rightsStores
  <1>2. pc[p] \notin Ended
    BY <1>1 DEF Ended
  <1>3. CASE kind[p] = "contact"
    <2>1. /\ Goto(p, "adding_profile")
          /\ carried' = [carried EXCEPT ![p] = [NoProfile EXCEPT !.id = p]]
      BY <1>3 DEF ReadNoProfile
    <2>2. pc'[p] = "adding_profile" /\ carried'[p] = [NoProfile EXCEPT !.id = p]
      BY <2>1 DEF Goto, TypeOK
    <2>3. UpdateInv(p)'
      BY <1>1, <1>3, <2>2 DEF UpdateInv
    <2> QED BY <1>1, <1>2, <2>1, <2>3, StoresAreLeft
  <1>4. CASE kind[p] # "contact"
    <2>1. Goto(p, "failed")
      BY <1>4 DEF ReadNoProfile
    <2> QED BY <1>1, <1>2, <2>1, PlainStepSerial
  <1> QED BY <1>3, <1>4

\* A profile comes into being under the name of its request, which was never
\* erased.
LEMMA AddProfileSerial ==
  ASSUME TypeOK, Serially(SerialRightsInv), ~overlapped', NEW p \in Requests,
         AddProfile(p)
  PROVE  SerialRightsInv'
  <1>1. /\ pc[p] = "adding_profile"
        /\ UNCHANGED <<kind, gone, files, resumes, keys>>
    BY DEF AddProfile, rightsLocals
  <1>2. pc[p] \notin Ended /\ pc[p] # "killed"
    BY <1>1 DEF Ended
  <1>3. CASE HasProfile
    BY <1>1, <1>2, <1>3, PlainStepSerial DEF AddProfile
  <1>4. CASE ~HasProfile
    <2>1. Goto(p, "ok") /\ profile' = carried[p]
      BY <1>4 DEF AddProfile
    <2>2. /\ SerialRightsInv
          /\ pc' = [pc EXCEPT ![p] = "ok"] /\ pc'[p] = "ok"
          /\ \A q, r \in Requests : InFlight(q)' /\ InFlight(r)' => q = r
          /\ \A q \in Requests \ {p} : UpdateInv(q)' /\ pc'[q] = pc[q]
      BY <1>2, <2>1, OthersRest
    <2>3. kind[p] = "contact" /\ carried[p] = [NoProfile EXCEPT !.id = p]
      BY <1>1, <2>2 DEF SerialRightsInv, UpdateInv
    <2>4. profile'.id = p /\ profile'.declared = NoOne
      BY <2>1, <2>3 DEF NoProfile
    <2>5. Held' = {p}
      BY <2>4, NoOneIsNoRequest DEF Held
    <2>6. \A q \in gone : pc[q] \in Ended /\ q \in Requests
      BY <2>2 DEF SerialRightsInv, ProfileInv, TypeOK
    <2>7. p \notin gone
      BY <1>2, <2>6
    <2>8. \A q \in gone : pc'[q] \in Ended
      BY <1>2, <2>2, <2>6
    <2>9. ProfileInv'
      BY <1>1, <2>2, <2>3, <2>4, <2>5, <2>7, <2>8 DEF ProfileInv, Ended
    <2>10. FilesInv'
      BY <1>1, <1>2, <2>2, FilesAreLeft DEF SerialRightsInv
    <2>11. UpdateInv(p)'
      BY <2>2 DEF UpdateInv
    <2> QED BY <2>2, <2>9, <2>10, <2>11 DEF SerialRightsInv
  <1> QED BY <1>3, <1>4

LEMMA RereadSerial ==
  ASSUME TypeOK, Serially(SerialRightsInv), ~overlapped', NEW p \in Requests,
         RereadProfile(p)
  PROVE  SerialRightsInv'
  <1>1. /\ pc[p] = "profile_reread" /\ Goto(p, "profile_flush")
        /\ seen' = [seen EXCEPT ![p] = Found(p)]
        /\ UNCHANGED <<kind, carried, ledger, profile, gone, files, resumes, keys>>
    BY DEF RereadProfile, rightsStores
  <1>2. SerialRightsInv /\ pc[p] \notin Ended
    BY <1>1 DEF Goto, Serially, Ended
  <1>3. /\ kind[p] \in {"declare", "clear", "contact"}
        /\ carried[p] = Edited(p)
        /\ kind[p] = "declare" => IsGranted(ledger)
    BY <1>1, <1>2 DEF SerialRightsInv, UpdateInv
  <1>4. pc'[p] = "profile_flush" /\ seen'[p] = Found(p)
    BY <1>1 DEF Goto, TypeOK
  <1>5. carried[p].id = profile.id
    BY <1>3 DEF Edited, TypeOK, ProfileRow
  <1>6. Found(p) = profile
    BY <1>5 DEF Found
  <1>7. Edited(p)' = Edited(p) /\ IsGranted(ledger)' = IsGranted(ledger)
    BY <1>1 DEF Edited, IsGranted
  <1>8. UpdateInv(p)'
    BY <1>1, <1>3, <1>4, <1>6, <1>7 DEF UpdateInv
  <1> QED BY <1>1, <1>2, <1>8, StoresAreLeft

\* What a flush writes is the section the candidate asked for, in the profile
\* as it is stored.
LEMMA FlushWritesEdited ==
  ASSUME TypeOK, SerialRightsInv, NEW p \in Requests, FlushProfile(p)
  PROVE  /\ profile' = Edited(p)
         /\ kind[p] \in {"declare", "clear", "contact"}
         /\ kind[p] = "declare" => IsGranted(ledger)
  <1>1. /\ pc[p] = "profile_flush"
        /\ profile' = [carried[p] EXCEPT !.declared = DeclaredAfterFlush(p)]
    BY DEF FlushProfile
  <1>2. /\ kind[p] \in {"declare", "clear", "contact"}
        /\ carried[p] = Edited(p)
        /\ kind[p] = "declare" => IsGranted(ledger)
        /\ seen[p] = profile
    BY <1>1 DEF SerialRightsInv, UpdateInv
  <1>3. DeclaredAfterFlush(p) = carried[p].declared
    BY <1>2 DEF DeclaredAfterFlush
  <1>4. [carried[p] EXCEPT !.declared = carried[p].declared] = carried[p]
    BY DEF TypeOK, ProfileRow
  <1> QED BY <1>1, <1>2, <1>3, <1>4

LEMMA FlushSerial ==
  ASSUME TypeOK, Serially(SerialRightsInv), ~overlapped', NEW p \in Requests,
         FlushProfile(p)
  PROVE  SerialRightsInv'
  <1>1. /\ pc[p] = "profile_flush" /\ Goto(p, "ok")
        /\ gone' = gone \cup ({profile.declared} \ {NoOne, profile'.declared})
        /\ UNCHANGED <<kind, files, resumes, keys>>
    BY DEF FlushProfile, rightsLocals
  <1>2. pc[p] \notin Ended /\ pc[p] # "killed"
    BY <1>1 DEF Ended
  <1>3. /\ SerialRightsInv
        /\ pc' = [pc EXCEPT ![p] = "ok"] /\ pc'[p] = "ok"
        /\ \A q, r \in Requests : InFlight(q)' /\ InFlight(r)' => q = r
        /\ \A q \in Requests \ {p} : UpdateInv(q)' /\ pc'[q] = pc[q]
    BY <1>1, <1>2, OthersRest
  <1>4. profile' = Edited(p) /\ kind[p] \in {"declare", "clear", "contact"}
    BY <1>3, FlushWritesEdited
  <1>5. profile'.id = profile.id
    BY <1>4 DEF Edited, TypeOK, ProfileRow
  <1>6. \/ profile'.declared = p /\ kind[p] = "declare"
        \/ profile'.declared = NoOne
        \/ profile'.declared = profile.declared
    BY <1>4 DEF Edited, TypeOK, ProfileRow
  <1>7. /\ Held \cap gone = {}
        /\ \A q \in Held \cup gone : pc[q] \in Ended /\ q \in Requests
        /\ profile.id # NoOne => kind[profile.id] = "contact"
        /\ profile.declared # NoOne => kind[profile.declared] = "declare"
    BY <1>3 DEF SerialRightsInv, ProfileInv, Held, TypeOK, ProfileRow
  <1>8. p \notin Held \cup gone
    BY <1>2, <1>7
  <1>9. profile.id # NoOne => profile.id # profile.declared
    BY <1>7
  <1>10. Held' \cap gone' = {}
    BY <1>1, <1>5, <1>6, <1>7, <1>8, <1>9 DEF Held
  <1>11. \A q \in Held' \cup gone' : q = p \/ q \in Held \cup gone
    BY <1>1, <1>5, <1>6 DEF Held
  <1>12. \A q \in Held' \cup gone' : pc'[q] \in Ended
    BY <1>2, <1>3, <1>7, <1>11 DEF Ended
  <1>13. ProfileInv'
    BY <1>1, <1>5, <1>6, <1>7, <1>10, <1>12 DEF ProfileInv
  <1>14. FilesInv'
    BY <1>1, <1>2, <1>3, FilesAreLeft DEF SerialRightsInv
  <1>15. UpdateInv(p)'
    BY <1>3 DEF UpdateInv
  <1> QED BY <1>3, <1>13, <1>14, <1>15 DEF SerialRightsInv

\* An upload stores its file first and its row after.
LEMMA UploadSerial ==
  ASSUME TypeOK, Serially(SerialRightsInv), ~overlapped', NEW p \in Requests,
         SaveFile(p) \/ AddResume(p) \/ RemoveFile(p)
  PROVE  SerialRightsInv'
  <1>1. PICK label \in {"adding_resume", "ok", "failed"} :
          /\ Goto(p, label)
          /\ \/ label = "adding_resume" /\ files' = files \cup {p} /\ UNCHANGED resumes
             \/ label = "ok" /\ resumes' = resumes \cup {p} /\ UNCHANGED files
             \/ label = "failed" /\ files' = files \ {p} /\ UNCHANGED resumes
    BY DEF SaveFile, AddResume, RemoveFile, WithoutFile
  <1>2. /\ pc[p] \in {"storing", "adding_resume", "removing_file"}
        /\ UNCHANGED <<kind, profile, gone, keys>>
    BY DEF SaveFile, AddResume, RemoveFile, rightsLocals
  <1>3. pc[p] \notin Ended /\ pc[p] # "killed"
    BY <1>2 DEF Ended
  <1>4. /\ SerialRightsInv
        /\ pc' = [pc EXCEPT ![p] = label] /\ pc'[p] = label
        /\ \A q, r \in Requests : InFlight(q)' /\ InFlight(r)' => q = r
        /\ \A q \in Requests \ {p} : UpdateInv(q)' /\ pc'[q] = pc[q] /\ ~InFlight(q)
    BY <1>1, <1>3, OthersRest
  <1>5. ProfileInv'
    BY <1>2, <1>3, <1>4, ProfileIsLeft DEF SerialRightsInv
  <1>6. FilesInv'
    <2> SUFFICES ASSUME \A q \in Requests : pc'[q] # "killed"
                 PROVE  /\ \A f \in files' \ resumes' : pc'[f] \in {"adding_resume", "removing_file"}
                        /\ \A q \in Requests : pc'[q] = "deleting_files" => files' \subseteq keys'[q]
      BY DEF FilesInv
    <2>1. \A q \in Requests : pc[q] # "killed"
      BY <1>3, <1>4
    <2>2. \A f \in files \ resumes : pc[f] \in {"adding_resume", "removing_file"} /\ f \in Requests
      BY <1>4, <2>1 DEF SerialRightsInv, FilesInv, TypeOK
    <2>3. \A f \in files \ resumes : f = p
      BY <1>4, <2>2 DEF InFlight, Ended
    <2>4. \A q \in Requests : pc'[q] # "deleting_files"
      BY <1>1, <1>4 DEF InFlight, Ended
    <2>5. \A f \in files' \ resumes' : f = p /\ label = "adding_resume"
      BY <1>1, <2>3
    <2> QED BY <1>4, <2>4, <2>5
  <1>7. UpdateInv(p)'
    BY <1>1, <1>4 DEF UpdateInv
  <1> QED BY <1>4, <1>5, <1>6, <1>7 DEF SerialRightsInv

\* An erasure that reads the rows has the key of every file there is...
LEMMA ReadKeysSerial ==
  ASSUME TypeOK, Serially(SerialRightsInv), ~overlapped', NEW p \in Requests,
         ReadKeys(p)
  PROVE  SerialRightsInv'
  <1>1. /\ pc[p] = "reading_keys" /\ Goto(p, "deleting_files")
        /\ keys' = [keys EXCEPT ![p] = resumes]
        /\ UNCHANGED <<kind, profile, gone, files, resumes>>
    BY DEF ReadKeys, rightsStores
  <1>2. pc[p] \notin Ended
    BY <1>1 DEF Ended
  <1>3. /\ SerialRightsInv
        /\ pc' = [pc EXCEPT ![p] = "deleting_files"] /\ pc'[p] = "deleting_files"
        /\ \A q, r \in Requests : InFlight(q)' /\ InFlight(r)' => q = r
        /\ \A q \in Requests \ {p} : UpdateInv(q)' /\ pc'[q] = pc[q] /\ ~InFlight(q)
    BY <1>1, <1>2, OthersRest
  <1>4. ProfileInv'
    BY <1>1, <1>2, <1>3, ProfileIsLeft DEF SerialRightsInv
  <1>5. FilesInv'
    <2> SUFFICES ASSUME \A q \in Requests : pc'[q] # "killed"
                 PROVE  /\ \A f \in files \ resumes : pc'[f] \in {"adding_resume", "removing_file"}
                        /\ \A q \in Requests : pc'[q] = "deleting_files" => files \subseteq keys'[q]
      BY <1>1 DEF FilesInv
    <2>1. \A q \in Requests : pc[q] # "killed"
      BY <1>1, <1>3
    <2>2. \A f \in files \ resumes : pc[f] \in {"adding_resume", "removing_file"} /\ f \in Requests
      BY <1>3, <2>1 DEF SerialRightsInv, FilesInv, TypeOK
    <2>3. files \subseteq resumes
      BY <1>1, <1>3, <2>2 DEF InFlight, Ended
    <2>4. \A q \in Requests : pc'[q] = "deleting_files" => q = p
      BY <1>3 DEF InFlight, Ended
    <2>5. keys'[p] = resumes
      BY <1>1 DEF TypeOK
    <2> QED BY <2>3, <2>4, <2>5
  <1>6. UpdateInv(p)'
    BY <1>3 DEF UpdateInv
  <1> QED BY <1>3, <1>4, <1>5, <1>6 DEF SerialRightsInv

\* ...drops a key with its file...
LEMMA DeleteFileSerial ==
  ASSUME TypeOK, Serially(SerialRightsInv), ~overlapped', NEW p \in Requests,
         NEW f \in Requests, DeleteFile(p, f)
  PROVE  SerialRightsInv'
  <1>1. /\ files' = files \ {f}
        /\ keys' = [keys EXCEPT ![p] = @ \ {f}]
        /\ UNCHANGED <<pc, overlapped, kind, history, stored, carried, seen, ledger, profile, resumes, gone>>
    BY DEF DeleteFile, serving
  <1>2. SerialRightsInv
    BY <1>1 DEF Serially
  <1>3. \A q \in Requests : keys'[q] = keys[q] \/ keys'[q] = keys[q] \ {f}
    BY <1>1 DEF TypeOK
  <1>4. FilesInv'
    BY <1>1, <1>2, <1>3 DEF SerialRightsInv, FilesInv
  <1>5. ProfileInv'
    BY <1>1, <1>2 DEF SerialRightsInv, ProfileInv, Held
  <1>6. \A q \in Requests : UpdateInv(q)'
    BY <1>1, <1>2 DEF SerialRightsInv, UpdateInv, Edited, DecisionOf, IsGranted
  <1>7. \A q, r \in Requests : InFlight(q)' /\ InFlight(r)' => q = r
    BY <1>1, <1>2 DEF SerialRightsInv, InFlight
  <1> QED BY <1>4, <1>5, <1>6, <1>7 DEF SerialRightsInv

\* ...and deletes the rows when no file is left.
LEMMA EraseSerial ==
  ASSUME TypeOK, Serially(SerialRightsInv), ~overlapped', NEW p \in Requests,
         EraseRows(p)
  PROVE  SerialRightsInv'
  <1>1. /\ pc[p] = "deleting_files" /\ Goto(p, "ok") /\ keys[p] = {}
        /\ resumes' = {} /\ profile' = NoProfile
        /\ gone' = gone \cup ({profile.id, profile.declared} \ {NoOne})
        /\ UNCHANGED <<kind, keys, files>>
    BY DEF EraseRows, ErasedProfile, rightsLocals
  <1>2. pc[p] \notin Ended /\ pc[p] # "killed"
    BY <1>1 DEF Ended
  <1>3. /\ SerialRightsInv
        /\ pc' = [pc EXCEPT ![p] = "ok"] /\ pc'[p] = "ok"
        /\ \A q, r \in Requests : InFlight(q)' /\ InFlight(r)' => q = r
        /\ \A q \in Requests \ {p} : UpdateInv(q)' /\ pc'[q] = pc[q] /\ ~InFlight(q)
    BY <1>1, <1>2, OthersRest
  <1>4. Held' = {} /\ gone' = gone \cup Held
    BY <1>1 DEF Held, NoProfile
  <1>5. \A q \in Held \cup gone : pc[q] \in Ended /\ q \in Requests
    BY <1>3 DEF SerialRightsInv, ProfileInv, Held, TypeOK, ProfileRow
  <1>6. \A q \in gone' : pc'[q] \in Ended
    BY <1>2, <1>3, <1>4, <1>5
  <1>7. ProfileInv'
    BY <1>1, <1>4, <1>6 DEF ProfileInv, NoProfile
  <1>8. FilesInv'
    <2> SUFFICES ASSUME \A q \in Requests : pc'[q] # "killed" PROVE files = {}
      BY <1>1 DEF FilesInv
    <2>1. \A q \in Requests : pc[q] # "killed"
      BY <1>2, <1>3
    <2> QED BY <1>1, <1>3, <2>1 DEF SerialRightsInv, FilesInv
  <1>9. UpdateInv(p)'
    BY <1>3 DEF UpdateInv
  <1> QED BY <1>3, <1>7, <1>8, <1>9 DEF SerialRightsInv

LEMMA NextSerialRights ==
  ASSUME TypeOK, Serially(SerialRightsInv), [Next]_vars
  PROVE  Serially(SerialRightsInv)'
  <1> SUFFICES ASSUME ~overlapped' PROVE SerialRightsInv'
    BY DEF Serially
  <1>1. ASSUME NEW p \in Requests, NEW k \in Kinds, Arrive(p, k) PROVE SerialRightsInv'
    BY <1>1, ArriveSerial
  <1>2. ASSUME NEW p \in Requests, ReadConsent(p) PROVE SerialRightsInv'
    BY <1>2, ReadConsentSerial
  <1>3. ASSUME NEW p \in Requests, CountDecisions(p) PROVE SerialRightsInv'
    BY <1>3, CountSerial
  <1>4. ASSUME NEW p \in Requests, InsertDecisions(p) PROVE SerialRightsInv'
    BY <1>4, InsertSerial
  <1>5. ASSUME NEW p \in Requests, ReadProfile(p) PROVE SerialRightsInv'
    BY <1>5, ReadProfileSerial
  <1>6. ASSUME NEW p \in Requests, ReadNoProfile(p) PROVE SerialRightsInv'
    BY <1>6, ReadNoProfileSerial
  <1>7. ASSUME NEW p \in Requests, AddProfile(p) PROVE SerialRightsInv'
    BY <1>7, AddProfileSerial
  <1>8. ASSUME NEW p \in Requests, RereadProfile(p) PROVE SerialRightsInv'
    BY <1>8, RereadSerial
  <1>9. ASSUME NEW p \in Requests, FlushProfile(p) PROVE SerialRightsInv'
    BY <1>9, FlushSerial
  <1>10. ASSUME NEW p \in Requests, SaveFile(p) \/ AddResume(p) \/ RemoveFile(p)
         PROVE SerialRightsInv'
    BY <1>10, UploadSerial
  <1>11. ASSUME NEW p \in Requests, ReadKeys(p) PROVE SerialRightsInv'
    BY <1>11, ReadKeysSerial
  <1>12. ASSUME NEW p \in Requests, NEW f \in Requests, DeleteFile(p, f)
         PROVE SerialRightsInv'
    BY <1>12, DeleteFileSerial
  <1>13. ASSUME NEW p \in Requests, EraseRows(p) PROVE SerialRightsInv'
    BY <1>13, EraseSerial
  <1>14. ASSUME NEW p \in Requests,
                \/ InsertDecisionsConflicts(p) \/ FlushProfileConflicts(p)
                \/ AddResumeFails(p) \/ Die(p)
         PROVE SerialRightsInv'
    <2>1. PICK label \in {"failed", "killed", "removing_file"} :
            /\ Goto(p, label)
            /\ label = "failed" => pc[p] \in {"inserting", "profile_flush"}
      BY <1>14 DEF InsertDecisionsConflicts, FlushProfileConflicts, AddResumeFails,
                   Die, CutShort
    <2>2. pc[p] \notin Ended /\ UNCHANGED <<profile, gone, files, resumes, keys, kind>>
      BY <1>14 DEF InsertDecisionsConflicts, FlushProfileConflicts, AddResumeFails,
                   Die, CutShort, InFlight, Ended, rightsLocals, rightsStores
    <2> QED BY <2>1, <2>2, PlainStepSerial
  <1>15. CASE UNCHANGED vars
    <2>1. UNCHANGED <<serving, rightsLocals, rightsStores>>
      BY <1>15 DEF vars
    <2>2. SerialRightsInv
      BY <2>1 DEF serving, Serially
    <2>3. ProfileInv' /\ FilesInv'
      BY <2>1, <2>2 DEF SerialRightsInv, ProfileInv, FilesInv, Held, serving,
                        rightsLocals, rightsStores
    <2>4. \A q \in Requests : UpdateInv(q)'
      BY <2>1, <2>2 DEF SerialRightsInv, UpdateInv, Edited, DecisionOf, IsGranted,
                        serving, rightsLocals, rightsStores
    <2>5. \A q, r \in Requests : InFlight(q)' /\ InFlight(r)' => q = r
      BY <2>1, <2>2 DEF SerialRightsInv, InFlight, serving
    <2> QED BY <2>3, <2>4, <2>5 DEF SerialRightsInv
  <1> QED
    BY <1>1, <1>2, <1>3, <1>4, <1>5, <1>6, <1>7, <1>8, <1>9, <1>10, <1>11,
       <1>12, <1>13, <1>14, <1>15
       DEF Next, Step

LEMMA SerialRightsHolds == Spec => [](TypeOK /\ Serially(SerialRightsInv))
  <1>1. Init => TypeOK /\ Serially(SerialRightsInv)
    BY InitTyped, InitSerialRights DEF Serially
  <1>2. TypeOK /\ Serially(SerialRightsInv) /\ [Next]_vars
          => (TypeOK /\ Serially(SerialRightsInv))'
    BY StepTyped, NextSerialRights
  <1> QED BY <1>1, <1>2, PTL DEF Spec

\* Until requests overlap, a profile that was erased and declarations that
\* were cleared, replaced or erased never come back, whatever the candidate
\* does next and wherever a request is killed.
THEOREM ErasedIsGone == Spec => []ErasedStaysErased
  <1>1. TypeOK /\ Serially(SerialRightsInv) => ErasedStaysErased
    <2> SUFFICES ASSUME TypeOK, SerialRightsInv
                 PROVE  {profile.id, profile.declared} \cap gone = {}
      BY DEF ErasedStaysErased, Serially
    <2>1. Held \cap gone = {}
      BY DEF SerialRightsInv, ProfileInv
    <2>2. NoOne \notin gone
      BY NoOneIsNoRequest DEF TypeOK
    <2> QED BY <2>1, <2>2 DEF Held
  <1> QED BY <1>1, SerialRightsHolds, PTL

\* Until requests overlap or are killed, every stored file has its row when
\* nobody is at work: uploads that fail take their file away, erasures delete
\* every file before the rows.
THEOREM FilesAreNamed == Spec => []EveryFileIsNamed
  <1>1. TypeOK /\ Serially(SerialRightsInv) => EveryFileIsNamed
    <2> SUFFICES ASSUME TypeOK, SerialRightsInv,
                        \A p \in Requests : ~InFlight(p) /\ pc[p] # "killed"
                 PROVE  files \subseteq resumes
      BY DEF EveryFileIsNamed, Serially
    <2>1. \A f \in files \ resumes : f \in Requests /\ pc[f] \in {"adding_resume", "removing_file"}
      BY DEF SerialRightsInv, FilesInv, TypeOK
    <2>2. \A f \in files \ resumes : InFlight(f)
      BY <2>1 DEF InFlight, Ended
    <2> QED BY <2>1, <2>2
  <1> QED BY <1>1, SerialRightsHolds, PTL

\* The declarations a step stores are the ones its own request stated.
LEMMA OnlyDeclaresStore ==
  ASSUME TypeOK, SerialRightsInv, [Next]_vars,
         profile'.declared \notin {NoOne, profile.declared}
  PROVE  \E p \in Requests : FlushProfile(p) /\ kind[p] = "declare"
  <1>1. profile' # profile
    OBVIOUS
  <1>2. PICK p \in Requests : AddProfile(p) \/ FlushProfile(p) \/ EraseRows(p)
    BY <1>1 DEF Next, Step, vars, rightsLocals, rightsStores, Arrive, ReadConsent,
                CountDecisions, InsertDecisions, InsertDecisionsConflicts,
                ReadProfile, ReadNoProfile, RereadProfile, FlushProfileConflicts,
                SaveFile, AddResume, AddResumeFails, RemoveFile, ReadKeys,
                DeleteFile, Die
  <1>3. ~EraseRows(p)
    BY DEF EraseRows, ErasedProfile, NoProfile
  <1>4. ~AddProfile(p)
    <2> SUFFICES ASSUME AddProfile(p) PROVE FALSE
      OBVIOUS
    <2>1. profile' = carried[p] /\ pc[p] = "adding_profile"
      BY <1>1 DEF AddProfile
    <2>2. carried[p].declared = NoOne
      BY <2>1 DEF SerialRightsInv, UpdateInv, NoProfile
    <2> QED BY <2>1, <2>2
  <1>5. FlushProfile(p)
    BY <1>2, <1>3, <1>4
  <1>6. profile' = Edited(p)
    BY <1>5, FlushWritesEdited
  <1>7. kind[p] = "declare"
    <2> SUFFICES ASSUME kind[p] # "declare" PROVE profile'.declared \in {NoOne, profile.declared}
      OBVIOUS
    <2>1. CASE kind[p] = "clear"
      BY <1>6, <2>1 DEF Edited, TypeOK, ProfileRow
    <2>2. CASE kind[p] # "clear"
      BY <1>6, <2>2 DEF Edited
    <2> QED BY <2>1, <2>2
  <1> QED BY <1>5, <1>7

\* Until requests overlap, declarations are stored only while the last
\* decision in the ledger grants their storage.
THEOREM DeclaredUnderGrant == Spec => StoredUnderGrant
  <1>1. TypeOK /\ Serially(SerialRightsInv) /\ [Next]_vars =>
          [/\ ~overlapped'
           /\ profile'.declared \notin {NoOne, profile.declared}
           => IsGranted(ledger)]_vars
    <2> SUFFICES ASSUME TypeOK, Serially(SerialRightsInv), [Next]_vars, ~overlapped',
                        profile'.declared \notin {NoOne, profile.declared}
                 PROVE  IsGranted(ledger)
      OBVIOUS
    <2>1. ~overlapped
      BY DEF Next, Step, vars, serving, Arrive, ReadConsent, CountDecisions,
             InsertDecisions, InsertDecisionsConflicts, ReadProfile,
             ReadNoProfile, AddProfile, RereadProfile, FlushProfile,
             FlushProfileConflicts, SaveFile, AddResume, AddResumeFails,
             RemoveFile, ReadKeys, DeleteFile, EraseRows, Die, CutShort, Goto
    <2>2. SerialRightsInv
      BY <2>1 DEF Serially
    <2>3. PICK p \in Requests : FlushProfile(p) /\ kind[p] = "declare"
      BY <2>2, OnlyDeclaresStore
    <2> QED BY <2>2, <2>3, FlushWritesEdited
  <1> QED BY <1>1, SerialRightsHolds, PTL DEF Spec, StoredUnderGrant

-----------------------------------------------------------------------------
(* The profile's sections *)

EditOps == Groups \cup {"add", "edit", "remove", "parse"}

EditLabels ==
  {"idle", "person", "adding_person", "person_reread", "person_flush"}
    \cup Ended

EntryRow == [id : Requests \X Thing, section : STRING, key : STRING,
             name : STRING, source : FactSource]

Entity == [person : PersonRow, entries : SUBSET EntryRow]

EditRequest ==
  {r \in [op : EditOps \cup {"none"}, value : Tellers,
          target : EntryRow \cup {NoOne}, thing : Thing \cup {NoOne},
          reading : Reading \cup {NoOne}] :
     /\ r.op = "parse" => r.reading \in Reading
     /\ r.op \in {"add", "edit"} => r.thing \in Thing}

EditsTypeOK ==
  /\ pc \in [Requests -> EditLabels]
  /\ overlapped \in BOOLEAN
  /\ Stored \in Entity
  /\ asked \in [Requests -> EditRequest]
  /\ entity \in [Requests -> Entity]
  /\ reread \in [Requests -> Entity]
  /\ \A p \in Requests : InFlight(p) => asked[p].op \in EditOps

LEMMA NoEntityIsEntity == NoEntity \in Entity
  BY DEF NoEntity, Entity, NoPerson, PersonRow, Tellers

LEMMA NoRequestIsRequest == Request("none") \in EditRequest
  BY DEF Request, EditRequest, Tellers

LEMMA NewEntryIsRow ==
  ASSUME NEW p \in Requests, NEW t \in Thing, NEW source \in FactSource
  PROVE  EntryFor(p, t, source) \in EntryRow
  BY DEF EntryFor, EntryRow, Thing

LEMMA ContactIsEntity ==
  ASSUME NEW e \in Entity, NEW p \in Requests, NEW v \in Tellers
  PROVE  SetContact(e, p, v) \in Entity
  <1>1. e.person.told \in [Fields -> Tellers] /\ e.person.source \in [Groups -> FactSource \cup {NoOne}]
    BY DEF Entity, PersonRow
  <1>2. [e.person.told EXCEPT !["name"] = p, !["phone"] = v] \in [Fields -> Tellers]
    BY <1>1 DEF Tellers
  <1>3. [e.person.source EXCEPT !["contact"] = "user_entered"] \in [Groups -> FactSource \cup {NoOne}]
    BY <1>1 DEF FactSource
  <1> QED BY <1>1, <1>2, <1>3 DEF SetContact, Entity, PersonRow

LEMMA GroupIsEntity ==
  ASSUME NEW e \in Entity, NEW group \in {"address", "links"}, NEW v \in Tellers
  PROVE  SetGroup(e, group, v) \in Entity
  BY DEF SetGroup, Entity, PersonRow, Fields, Groups, FactSource

LEMMA ReplacedIsEntity ==
  ASSUME NEW e \in Entity, NEW old \in EntryRow, NEW t \in Thing
  PROVE  ReplaceEntry(e, old, t) \in Entity
  BY DEF ReplaceEntry, Entity, EntryRow, EntryFor, Thing, FactSource

LEMMA MergedAreRows ==
  ASSUME NEW known \in SUBSET EntryRow, NEW p \in Requests,
         NEW things \in Seq(Thing)
  PROVE  Merged(known, p, things) \in SUBSET EntryRow
  <1>1. \A i \in DOMAIN things : things[i] \in Thing
    OBVIOUS
  <1>2. \A i \in DOMAIN things : EntryFor(p, things[i], "parsed_resume") \in EntryRow
    BY <1>1, NewEntryIsRow DEF FactSource
  <1> QED BY <1>2 DEF Merged

LEMMA FilledIsRow ==
  ASSUME NEW row \in PersonRow, NEW p \in Requests, NEW reading,
         NEW group \in {"address", "links"}
  PROVE  /\ FillIfEmpty(row, group, p, reading) \in PersonRow
         /\ FillContactGaps(row, p, reading) \in PersonRow
  BY DEF FillIfEmpty, FillContactGaps, PersonRow, Fields, Groups, FactSource,
         Tellers

LEMMA NewPersonIsRow ==
  ASSUME NEW p \in Requests, NEW reading
  PROVE  NewPerson(p, reading) \in PersonRow
  BY DEF NewPerson, NoPerson, PersonRow, Fields, Groups, FactSource, Tellers

LEMMA ParsedIsEntity ==
  ASSUME NEW e \in Entity, NEW p \in Requests, NEW reading \in Reading
  PROVE  Parsed(e, p, reading) \in Entity
  <1> DEFINE row == IF e.person = NoPerson THEN NewPerson(p, reading)
                    ELSE FillContactGaps(e.person, p, reading)
             housed == FillIfEmpty(row, "address", p, reading)
  <1>1. e.person \in PersonRow /\ e.entries \in SUBSET EntryRow
    BY DEF Entity
  <1>2. row \in PersonRow
    BY <1>1, FilledIsRow, NewPersonIsRow
  <1> HIDE DEF row
  <1>3. housed \in PersonRow
    BY <1>2, FilledIsRow
  <1> HIDE DEF housed
  <1>4. FillIfEmpty(housed, "links", p, reading) \in PersonRow
    BY <1>3, FilledIsRow
  <1>5. Merged(e.entries, p, reading.things) \in SUBSET EntryRow
    BY <1>1, MergedAreRows DEF Reading
  <1> QED BY <1>4, <1>5 DEF Parsed, Entity, row, housed

LEMMA InitEditsTyped == InitServing /\ EditsInit(Persons) => EditsTypeOK
  <1> SUFFICES ASSUME InitServing, EditsInit(Persons) PROVE EditsTypeOK
    OBVIOUS
  <1>1. NoEntity \in Entity /\ Request("none") \in EditRequest
    BY NoEntityIsEntity, NoRequestIsRequest
  <1>2. Stored \in Entity
    BY PersonsAreNamed DEF EditsInit, Stored, Entity
  <1>3. pc \in [Requests -> EditLabels] /\ overlapped \in BOOLEAN
    BY DEF InitServing, EditLabels
  <1>4. \A p \in Requests : ~InFlight(p)
    BY DEF InitServing, InFlight
  <1>5. /\ asked \in [Requests -> EditRequest]
        /\ entity \in [Requests -> Entity]
        /\ reread \in [Requests -> Entity]
    BY <1>1 DEF EditsInit
  <1> QED BY <1>2, <1>3, <1>4, <1>5 DEF EditsTypeOK

\* What a candidate may ask for is a request.
LEMMA AskedIsRequest ==
  ASSUME EditsTypeOK, NEW p \in Requests,
         NEW r \in SectionRequests(p) \cup EntryRequests \cup ParseRequests
  PROVE  r \in EditRequest /\ r.op \in EditOps
  <1>1. CASE r \in SectionRequests(p)
    BY <1>1 DEF SectionRequests, Request, EditRequest, EditOps, Groups, Tellers
  <1>2. CASE r \in ParseRequests
    BY <1>2, ReadingsAreReadings
       DEF ParseRequests, Request, EditRequest, EditOps, Groups, Tellers
  <1>3. CASE r \in EntryRequests
    <2>1. entries \in SUBSET EntryRow
      BY DEF EditsTypeOK, Stored, Entity
    <2>2. CASE \E t \in Things : r = [Request("add") EXCEPT !.thing = t]
      BY <2>2, ThingsAreThings
         DEF Request, EditRequest, EditOps, Groups, Tellers
    <2>3. CASE \E x \in entries \X Things :
                 r = [Request("edit") EXCEPT !.target = x[1], !.thing = x[2]]
      BY <2>1, <2>3, ThingsAreThings
         DEF Request, EditRequest, EditOps, Groups, Tellers
    <2>4. CASE \E e \in entries : r = [Request("remove") EXCEPT !.target = e]
      BY <2>1, <2>4 DEF Request, EditRequest, EditOps, Groups, Tellers
    <2> QED BY <1>3, <2>2, <2>3, <2>4 DEF EntryRequests
  <1> QED BY <1>1, <1>2, <1>3

\* A request that goes on holds an entity; one that is over holds nothing.
LEMMA GoesTyped ==
  ASSUME EditsTypeOK, NEW p \in Requests, InFlight(p),
         NEW label \in EditLabels, NEW e \in Entity, Goes(p, label, e)
  PROVE  EditsTypeOK'
  <1>1. pc' \in [Requests -> EditLabels] /\ overlapped' \in BOOLEAN
    BY DEF EditsTypeOK, Goes, Goto
  <1>2. entity' \in [Requests -> Entity]
    BY DEF EditsTypeOK, Goes
  <1>3. \A q \in Requests : InFlight(q)' => asked'[q].op \in EditOps
    BY DEF EditsTypeOK, Goes, Goto, InFlight
  <1> QED BY <1>1, <1>2, <1>3 DEF EditsTypeOK, Goes, Stored

LEMMA EndedTyped ==
  ASSUME EditsTypeOK, NEW p \in Requests, NEW label \in Ended,
         Goto(p, label), Dropped(p), Stored' \in Entity
  PROVE  EditsTypeOK'
  <1>1. NoEntity \in Entity /\ Request("none") \in EditRequest
    BY NoEntityIsEntity, NoRequestIsRequest
  <1>2. pc' \in [Requests -> EditLabels] /\ overlapped' \in BOOLEAN
    BY DEF EditsTypeOK, EditLabels, Goto
  <1>3. \A q \in Requests : InFlight(q)' => asked'[q].op \in EditOps
    BY DEF EditsTypeOK, Dropped, Goto, InFlight
  <1>4. /\ asked' \in [Requests -> EditRequest]
        /\ entity' \in [Requests -> Entity]
        /\ reread' \in [Requests -> Entity]
    BY <1>1 DEF EditsTypeOK, Dropped
  <1> QED BY <1>2, <1>3, <1>4 DEF EditsTypeOK

LEMMA RefusedTyped ==
  ASSUME EditsTypeOK, NEW p \in Requests, Refused(p)
  PROVE  EditsTypeOK'
  <1>1. Stored' \in Entity
    BY DEF EditsTypeOK, Refused, Stored
  <1> QED BY <1>1, EndedTyped DEF Refused, Ended

\* What becomes of the stored copy in a request's hands.
EditOf(p, e, result) ==
  LET r == asked[p] IN
  \/ r.op = "contact" /\ result = SetContact(e, p, r.value)
  \/ r.op \in {"address", "links"} /\ result = SetGroup(e, r.op, r.value)
  \/ r.op = "add" /\ result = AddEntry(e, EntryFor(p, r.thing, "user_entered"))
  \/ r.op = "edit" /\ \E o \in Targets(p, e) : result = ReplaceEntry(e, o, r.thing)
  \/ r.op = "remove" /\ \E o \in Targets(p, e) : result = RemoveEntry(e, o)
  \/ r.op = "parse" /\ result = Parsed(e, p, r.reading)

LEMMA EditHeldCases ==
  ASSUME EditsTypeOK, NEW p \in Requests, InFlight(p), NEW e, EditHeld(p, e)
  PROVE  \/ Refused(p)
         \/ \E result : EditOf(p, e, result) /\ Goes(p, "person_reread", result)
  <1>1. asked[p].op \in EditOps
    BY DEF EditsTypeOK
  <1>2. CASE asked[p].op = "contact"
    BY <1>2 DEF EditHeld, EditOf
  <1>3. CASE asked[p].op \in {"address", "links"}
    BY <1>3 DEF EditHeld, EditOf
  <1>4. CASE asked[p].op = "add"
    BY <1>4 DEF EditHeld, EditOf
  <1>5. CASE asked[p].op = "edit"
    BY <1>5 DEF EditHeld, EditOf
  <1>6. CASE asked[p].op = "remove"
    BY <1>6 DEF EditHeld, EditOf
  <1>7. CASE asked[p].op = "parse"
    BY <1>7 DEF EditHeld, EditOf
  <1> QED BY <1>1, <1>2, <1>3, <1>4, <1>5, <1>6, <1>7 DEF EditOps, Groups

LEMMA EditIsEntity ==
  ASSUME EditsTypeOK, NEW p \in Requests, NEW e \in Entity, NEW result,
         EditOf(p, e, result)
  PROVE  result \in Entity
  <1> DEFINE r == asked[p]
  <1>0. r \in EditRequest
    BY DEF EditsTypeOK
  <1>1. CASE r.op = "contact"
    BY <1>0, <1>1, ContactIsEntity DEF EditOf, EditRequest
  <1>2. CASE r.op \in {"address", "links"}
    BY <1>0, <1>2, GroupIsEntity DEF EditOf, EditRequest
  <1>3. CASE r.op = "add"
    <2>1. EntryFor(p, r.thing, "user_entered") \in EntryRow
      BY <1>0, <1>3, NewEntryIsRow DEF EditRequest, FactSource
    <2> QED BY <1>3, <2>1 DEF EditOf, AddEntry, Entity
  <1>4. CASE r.op = "edit"
    <2>1. PICK o \in Targets(p, e) : result = ReplaceEntry(e, o, r.thing)
      BY <1>4 DEF EditOf
    <2>2. o \in EntryRow
      BY DEF Targets, Entity
    <2> QED BY <1>0, <1>4, <2>1, <2>2, ReplacedIsEntity DEF EditRequest
  <1>5. CASE r.op = "remove"
    BY <1>5 DEF EditOf, RemoveEntry, Entity
  <1>6. CASE r.op = "parse"
    BY <1>0, <1>6, ParsedIsEntity DEF EditOf, EditRequest
  <1> QED BY <1>1, <1>2, <1>3, <1>4, <1>5, <1>6 DEF EditOf

\* What brings a profile into being.
FirstOf(p, result) ==
  LET r == asked[p] IN
  \/ /\ r.op = "contact"
     /\ result = SetContact([NoEntity EXCEPT !.person.id = p], p, r.value)
  \/ /\ r.op = "parse" /\ "name" \in r.reading.told
     /\ result = Parsed(NoEntity, p, r.reading)

LEMMA FirstIsEntity ==
  ASSUME EditsTypeOK, NEW p \in Requests, NEW result, FirstOf(p, result)
  PROVE  result \in Entity
  <1>1. asked[p] \in EditRequest /\ NoEntity \in Entity
    BY NoEntityIsEntity DEF EditsTypeOK
  <1>2. [NoEntity EXCEPT !.person.id = p] \in Entity
    BY <1>1 DEF Entity, PersonRow, Tellers
  <1> QED BY <1>1, <1>2, ContactIsEntity, ParsedIsEntity
          DEF FirstOf, EditRequest

LEMMA ReadNoPersonCases ==
  ASSUME NEW p \in Requests, ReadNoPerson(p)
  PROVE  \/ Refused(p)
         \/ \E result : FirstOf(p, result) /\ Goes(p, "adding_person", result)
  BY DEF ReadNoPerson, FirstOf

LEMMA WrittenIsRow ==
  ASSUME EditsTypeOK, NEW p \in Requests
  PROVE  WrittenPerson(p) \in PersonRow
  <1>1. person \in PersonRow /\ entity[p].person \in PersonRow
    BY DEF EditsTypeOK, Stored, Entity
  <1> QED BY <1>1 DEF WrittenPerson, PersonRow, Written

LEMMA StepEditsTyped ==
  ASSUME EditsTypeOK, [EditsNext]_<<serving, editVars>>
  PROVE  EditsTypeOK'
  <1>1. CASE UNCHANGED <<serving, editVars>>
    BY <1>1 DEF serving, editVars, EditsTypeOK, Stored, InFlight
  <1>2. ASSUME NEW p \in Requests, AskEdit(p)
        PROVE  EditsTypeOK'
    <2>1. PICK r \in SectionRequests(p) \cup EntryRequests \cup ParseRequests :
            asked' = [asked EXCEPT ![p] = r]
      BY <1>2 DEF AskEdit
    <2>2. r \in EditRequest /\ r.op \in EditOps
      BY AskedIsRequest
    <2>3. pc' \in [Requests -> EditLabels] /\ overlapped' \in BOOLEAN
      BY <1>2 DEF EditsTypeOK, EditLabels, AskEdit, Goto
    <2>4. asked' \in [Requests -> EditRequest]
      BY <2>1, <2>2 DEF EditsTypeOK
    <2>5. \A q \in Requests : InFlight(q)' => asked'[q].op \in EditOps
      BY <1>2, <2>1, <2>2 DEF EditsTypeOK, AskEdit, Goto, InFlight
    <2> QED BY <1>2, <2>3, <2>4, <2>5 DEF EditsTypeOK, AskEdit, Stored
  <1>3. ASSUME NEW p \in Requests, ReadPerson(p)
        PROVE  EditsTypeOK'
    <2>1. InFlight(p) /\ Stored \in Entity
      BY <1>3 DEF ReadPerson, InFlight, Ended, EditsTypeOK
    <2>2. CASE Refused(p)
      BY <2>2, RefusedTyped
    <2>3. ASSUME NEW result, EditOf(p, Stored, result),
                 Goes(p, "person_reread", result)
          PROVE  EditsTypeOK'
      BY <2>1, <2>3, EditIsEntity, GoesTyped DEF EditLabels
    <2> QED BY <1>3, <2>1, <2>2, <2>3, EditHeldCases DEF ReadPerson
  <1>4. ASSUME NEW p \in Requests, ReadNoPerson(p)
        PROVE  EditsTypeOK'
    <2>1. InFlight(p)
      BY <1>4 DEF ReadNoPerson, InFlight, Ended
    <2>2. CASE Refused(p)
      BY <2>2, RefusedTyped
    <2>3. ASSUME NEW result, FirstOf(p, result),
                 Goes(p, "adding_person", result)
          PROVE  EditsTypeOK'
      BY <2>1, <2>3, FirstIsEntity, GoesTyped DEF EditLabels
    <2> QED BY <1>4, <2>2, <2>3, ReadNoPersonCases
  <1>5. ASSUME NEW p \in Requests, AddPerson(p)
        PROVE  EditsTypeOK'
    <2>1. CASE Refused(p)
      BY <2>1, RefusedTyped
    <2>2. CASE ~Refused(p)
      <3>1. entity[p] \in Entity
        BY DEF EditsTypeOK
      <3>2. Stored' \in Entity
        BY <1>5, <2>2, <3>1 DEF AddPerson, Stored, Entity
      <3> QED BY <1>5, <2>2, <3>2, EndedTyped DEF AddPerson, Ended
    <2> QED BY <2>1, <2>2
  <1>6. ASSUME NEW p \in Requests, RereadPerson(p)
        PROVE  EditsTypeOK'
    <2>1. pc' \in [Requests -> EditLabels] /\ overlapped' \in BOOLEAN
      BY <1>6 DEF EditsTypeOK, EditLabels, RereadPerson, Goto
    <2>2. reread' \in [Requests -> Entity]
      BY <1>6 DEF EditsTypeOK, RereadPerson
    <2>3. \A q \in Requests : InFlight(q)' => asked'[q].op \in EditOps
      BY <1>6 DEF EditsTypeOK, RereadPerson, Goto, InFlight, Ended
    <2> QED BY <1>6, <2>1, <2>2, <2>3 DEF EditsTypeOK, RereadPerson, Stored
  <1>7. ASSUME NEW p \in Requests, FlushPerson(p)
        PROVE  EditsTypeOK'
    <2>1. CASE Refused(p)
      BY <2>1, RefusedTyped
    <2>2. CASE ~Refused(p)
      <3>1. WrittenPerson(p) \in PersonRow /\ entity[p] \in Entity
            /\ Stored \in Entity
        BY WrittenIsRow DEF EditsTypeOK
      <3>2. Stored' \in Entity
        BY <1>7, <2>2, <3>1 DEF FlushPerson, Stored, Entity
      <3> QED BY <1>7, <2>2, <3>2, EndedTyped DEF FlushPerson, Ended
    <2> QED BY <2>1, <2>2
  <1>8. ASSUME NEW p \in Requests, EditDies(p)
        PROVE  EditsTypeOK'
    <2>1. Stored' \in Entity
      BY <1>8 DEF EditDies, EditsTypeOK, Stored
    <2> QED BY <1>8, <2>1, EndedTyped DEF EditDies, CutShort, Ended
  <1> QED BY <1>1, <1>2, <1>3, <1>4, <1>5, <1>6, <1>7, <1>8 DEF EditsNext

\* Types of everything the profile's requests keep, however they overlap: what
\* a request holds is always an entity that can be stored, whatever the order
\* of its reads, of save_*.py, remove_*.py and parse_resume.py.
THEOREM EditsTypeCorrect == EditsSpec => []EditsTypeOK
  <1>1. InitServing /\ EditsInit(Persons) => EditsTypeOK
    BY InitEditsTyped
  <1>2. EditsTypeOK /\ [EditsNext]_<<serving, editVars>> => EditsTypeOK'
    BY StepEditsTyped
  <1> QED BY <1>1, <1>2, PTL DEF EditsSpec

-----------------------------------------------------------------------------
(* Until requests overlap *)

\* What a request will store keeps what it is not about.
Keeps(r, e) ==
  /\ \A f \in Fields :
       person.told[f] # NoOne /\ r.op # GroupOf(f)
         => /\ e.person.told[f] = person.told[f]
            /\ e.person.source[GroupOf(f)] = person.source[GroupOf(f)]
  /\ \A o \in entries :
       \/ o \in e.entries
       \/ r.op \in {"edit", "remove"} /\ o.id = r.target.id
  /\ Readable(e.person)
  /\ e.person.told["name"] # NoOne
  /\ r.op = "parse" =>
       \A o \in e.entries \ entries :
         \A other \in e.entries \ {o} : ~SameThing(o, other)

Holding == {"adding_person", "person_reread", "person_flush"}

OneEditAtATime ==
  \A p, q \in Requests : InFlight(p) /\ InFlight(q) => p = q

ProfileIsWhole ==
  /\ person = NoPerson => entries = {}
  /\ person # NoPerson => person.told["name"] # NoOne

HeldKeepsTheRest ==
  \A p \in Requests :
    pc[p] \in Holding =>
      /\ Keeps(asked[p], entity[p])
      /\ pc[p] = "adding_person" <=> person = NoPerson

RereadIsStored ==
  \A p \in Requests : pc[p] = "person_flush" => reread[p] = Stored

SerialEdits ==
  OneEditAtATime /\ ProfileIsWhole /\ HeldKeepsTheRest /\ RereadIsStored

LEMMA ContactKeeps ==
  ASSUME NEW e \in Entity, NEW p \in Requests, NEW v \in Tellers, NEW r,
         r.op = "contact", Readable(e.person),
         \A f \in {"address", "links"} :
           person.told[f] # NoOne =>
             /\ e.person.told[f] = person.told[f]
             /\ e.person.source[f] = person.source[f],
         entries \subseteq e.entries
  PROVE  Keeps(r, SetContact(e, p, v))
  <1> DEFINE row == SetContact(e, p, v).person
  <1>1. e.person.told \in [Fields -> Tellers]
        /\ e.person.source \in [Groups -> FactSource \cup {NoOne}]
    BY DEF Entity, PersonRow
  <1>2. /\ row.told["name"] = p /\ row.told["phone"] = v
        /\ row.source["contact"] = "user_entered"
        /\ \A f \in {"address", "links"} :
             row.told[f] = e.person.told[f] /\ row.source[f] = e.person.source[f]
        /\ SetContact(e, p, v).entries = e.entries
    BY <1>1 DEF SetContact, Entity, PersonRow, Fields, Groups
  <1> HIDE DEF row
  <1>3. Readable(row)
    BY <1>2, NoOneIsNoSource DEF Readable, Fields, GroupOf, FactSource
  <1>4. \A f \in Fields :
          person.told[f] # NoOne /\ r.op # GroupOf(f)
            => /\ row.told[f] = person.told[f]
               /\ row.source[GroupOf(f)] = person.source[GroupOf(f)]
    BY <1>2 DEF Fields, GroupOf
  <1> QED BY <1>2, <1>3, <1>4, NoOneIsNoRequest DEF Keeps, row

LEMMA GroupKeeps ==
  ASSUME EditsTypeOK, NEW v \in Tellers, NEW r,
         r.op \in {"address", "links"}, Readable(person),
         person.told["name"] # NoOne
  PROVE  Keeps(r, SetGroup(Stored, r.op, v))
  <1> DEFINE row == SetGroup(Stored, r.op, v).person
  <1>1. person.told \in [Fields -> Tellers]
        /\ person.source \in [Groups -> FactSource \cup {NoOne}]
    BY DEF EditsTypeOK, Stored, Entity, PersonRow
  <1>2. /\ row.told = [person.told EXCEPT ![r.op] = v]
        /\ row.source = [person.source EXCEPT ![r.op] =
                           IF v = NoOne THEN NoOne ELSE "user_entered"]
        /\ SetGroup(Stored, r.op, v).entries = entries
    BY DEF SetGroup, Stored, EditsTypeOK, Entity, PersonRow
  <1> HIDE DEF row
  <1>3. Readable(row)
    BY <1>1, <1>2, NoOneIsNoSource
       DEF Readable, Fields, Groups, GroupOf, FactSource
  <1>4. \A f \in Fields :
          person.told[f] # NoOne /\ r.op # GroupOf(f)
            => /\ row.told[f] = person.told[f]
               /\ row.source[GroupOf(f)] = person.source[GroupOf(f)]
    BY <1>1, <1>2 DEF Fields, Groups, GroupOf
  <1>5. row.told["name"] # NoOne
    BY <1>1, <1>2 DEF Fields
  <1> QED BY <1>2, <1>3, <1>4, <1>5 DEF Keeps, row

\* A change of the lists leaves the profile's own row.
LEMMA ListKeeps ==
  ASSUME NEW r, NEW es, r.op \in {"add", "edit", "remove"}, Readable(person),
         person.told["name"] # NoOne,
         \A o \in entries :
           o \in es \/ (r.op \in {"edit", "remove"} /\ o.id = r.target.id)
  PROVE  Keeps(r, [person |-> person, entries |-> es])
  BY DEF Keeps

\* No two jobs, educations or skills the parse adds are the same thing, nor is
\* one of them the same thing as one that was there.
LEMMA MergedAddsOnce ==
  ASSUME NEW known, NEW p, NEW things \in Seq(Thing),
         NEW e \in Merged(known, p, things) \ known,
         NEW o \in Merged(known, p, things) \ {e}
  PROVE  ~SameThing(e, o)
  <1> DEFINE New(i) == /\ ~\E x \in known : SameThing(x, things[i])
                       /\ ~\E k \in 1 .. i - 1 : SameThing(things[k], things[i])
  <1>1. PICK i \in DOMAIN things :
          New(i) /\ e = EntryFor(p, things[i], "parsed_resume")
    BY DEF Merged
  <1>2. CASE o \in known
    BY <1>1, <1>2 DEF SameThing, EntryFor
  <1>3. CASE o \notin known
    <2>1. PICK j \in DOMAIN things :
            New(j) /\ o = EntryFor(p, things[j], "parsed_resume")
      BY <1>3 DEF Merged
    <2>2. i \in 1 .. Len(things) /\ j \in 1 .. Len(things) /\ i # j
      BY <1>1, <2>1
    <2>3. /\ e.section = things[i].section /\ e.key = things[i].key
          /\ o.section = things[j].section /\ o.key = things[j].key
      BY <1>1, <2>1 DEF EntryFor
    <2>4. i \in 1 .. j - 1 \/ j \in 1 .. i - 1
      BY <2>2
    <2>5. ~SameThing(things[i], things[j])
      BY <1>1, <2>1, <2>4 DEF SameThing
    <2> QED BY <2>3, <2>5 DEF SameThing
  <1> QED BY <1>2, <1>3

\* Of what is told a parse fills only the gaps.
LEMMA GapsFilled ==
  ASSUME NEW row \in PersonRow, NEW p \in Requests, NEW reading,
         NEW group \in {"address", "links"}, Readable(row),
         row.told["name"] # NoOne
  PROVE  LET filled == FillIfEmpty(row, group, p, reading) IN
         /\ filled \in PersonRow
         /\ Readable(filled)
         /\ \A f \in Fields : row.told[f] # NoOne =>
              /\ filled.told[f] = row.told[f]
              /\ filled.source[GroupOf(f)] = row.source[GroupOf(f)]
  <1> DEFINE filled == FillIfEmpty(row, group, p, reading)
  <1>1. row.told \in [Fields -> Tellers]
        /\ row.source \in [Groups -> FactSource \cup {NoOne}]
    BY DEF PersonRow
  <1>2. filled \in PersonRow
    BY FilledIsRow
  <1>3. CASE filled = row
    BY <1>2, <1>3
  <1>4. CASE filled # row
    <2>1. /\ filled.told = [row.told EXCEPT ![group] = p]
          /\ filled.source = [row.source EXCEPT ![group] = "parsed_resume"]
          /\ row.told[group] = NoOne
      BY <1>4 DEF FillIfEmpty, PersonRow
    <2>2. Readable(filled)
      BY <1>1, <2>1, NoOneIsNoSource
         DEF Readable, Fields, Groups, GroupOf, FactSource
    <2>3. \A f \in Fields : row.told[f] # NoOne =>
            /\ filled.told[f] = row.told[f]
            /\ filled.source[GroupOf(f)] = row.source[GroupOf(f)]
      BY <1>1, <2>1 DEF Fields, Groups, GroupOf
    <2> QED BY <1>2, <2>2, <2>3
  <1> QED BY <1>3, <1>4

\* A parse keeps what is told, by whom and from where, and adds once.
LEMMA ParsedKeeps ==
  ASSUME EditsTypeOK, NEW p \in Requests, NEW r \in EditRequest,
         r.op = "parse", Readable(person), person # NoPerson,
         person.told["name"] # NoOne
  PROVE  Keeps(r, Parsed(Stored, p, r.reading))
  <1> DEFINE row == FillContactGaps(person, p, r.reading)
             housed == FillIfEmpty(row, "address", p, r.reading)
             linked == FillIfEmpty(housed, "links", p, r.reading)
             es == Merged(entries, p, r.reading.things)
  <1>1. person \in PersonRow /\ r.reading.things \in Seq(Thing)
    BY DEF EditsTypeOK, Stored, Entity, EditRequest, Reading
  <1>2. Parsed(Stored, p, r.reading) = [person |-> linked, entries |-> es]
    BY DEF Parsed, Stored
  <1>3. /\ row \in PersonRow
        /\ Readable(row)
        /\ \A f \in Fields : person.told[f] # NoOne =>
             /\ row.told[f] = person.told[f]
             /\ row.source[GroupOf(f)] = person.source[GroupOf(f)]
    <2>1. row \in PersonRow
      BY <1>1, FilledIsRow
    <2>2. CASE row = person
      BY <2>1, <2>2
    <2>3. CASE row # person
      <3>1. row = [person EXCEPT !.told["phone"] = p]
        BY <2>3 DEF FillContactGaps
      <3>2. person.told["phone"] = NoOne
        BY <2>3 DEF FillContactGaps
      <3>3. row.told = [person.told EXCEPT !["phone"] = p]
            /\ row.source = person.source
        BY <1>1, <3>1 DEF PersonRow
      <3>4. person.source["contact"] # NoOne
        BY DEF Readable, Fields, GroupOf
      <3>5. person.told \in [Fields -> Tellers]
        BY <1>1 DEF PersonRow
      <3>6. Readable(row)
        BY <3>3, <3>4, <3>5 DEF Readable, Fields, GroupOf
      <3> QED BY <2>1, <3>2, <3>3, <3>5, <3>6 DEF Fields
    <2> QED BY <2>2, <2>3
  <1>4. row.told["name"] # NoOne
    BY <1>3 DEF Fields
  <1> HIDE DEF row
  <1>5. /\ housed \in PersonRow
        /\ Readable(housed)
        /\ \A f \in Fields : row.told[f] # NoOne =>
             /\ housed.told[f] = row.told[f]
             /\ housed.source[GroupOf(f)] = row.source[GroupOf(f)]
    BY <1>3, <1>4, GapsFilled
  <1>6. housed.told["name"] # NoOne
    BY <1>4, <1>5 DEF Fields
  <1> HIDE DEF housed
  <1>7. /\ Readable(linked)
        /\ \A f \in Fields : housed.told[f] # NoOne =>
             /\ linked.told[f] = housed.told[f]
             /\ linked.source[GroupOf(f)] = housed.source[GroupOf(f)]
    BY <1>5, <1>6, GapsFilled
  <1>8. linked.told["name"] # NoOne
    BY <1>6, <1>7 DEF Fields
  <1> HIDE DEF linked
  <1>9. entries \subseteq es
    BY DEF Merged
  <1>10. \A o \in es \ entries : \A other \in es \ {o} : ~SameThing(o, other)
    BY <1>1, MergedAddsOnce
  <1> HIDE DEF es
  <1>11. \A f \in Fields : person.told[f] # NoOne =>
           /\ linked.told[f] = person.told[f]
           /\ linked.source[GroupOf(f)] = person.source[GroupOf(f)]
    BY <1>3, <1>5, <1>7
  <1> QED BY <1>2, <1>7, <1>8, <1>9, <1>10, <1>11 DEF Keeps

\* A parse that brings the profile into being.
LEMMA FirstParsedKeeps ==
  ASSUME NEW p \in Requests, NEW r \in EditRequest, r.op = "parse",
         person = NoPerson, entries = {}
  PROVE  Keeps(r, Parsed(NoEntity, p, r.reading))
  <1> DEFINE row == NewPerson(p, r.reading)
             housed == FillIfEmpty(row, "address", p, r.reading)
             linked == FillIfEmpty(housed, "links", p, r.reading)
             es == Merged({}, p, r.reading.things)
  <1>1. r.reading.things \in Seq(Thing)
    BY DEF EditRequest, Reading
  <1>2. Parsed(NoEntity, p, r.reading) = [person |-> linked, entries |-> es]
    BY DEF Parsed, NoEntity
  <1>3. row \in PersonRow
    BY NewPersonIsRow
  <1>4. row.told["name"] # NoOne
    BY NoOneIsNoRequest DEF NewPerson, NoPerson, Fields
  <1>5. Readable(row)
    BY NoOneIsNoSource
       DEF NewPerson, NoPerson, Readable, Fields, Groups, GroupOf, FactSource
  <1> HIDE DEF row
  <1>6. housed \in PersonRow /\ Readable(housed) /\ housed.told["name"] # NoOne
    BY <1>3, <1>4, <1>5, GapsFilled DEF Fields
  <1> HIDE DEF housed
  <1>7. Readable(linked) /\ linked.told["name"] # NoOne
    BY <1>6, GapsFilled DEF Fields
  <1> HIDE DEF linked
  <1>8. \A f \in Fields : person.told[f] = NoOne
    BY DEF NoPerson
  <1>9. \A o \in es : \A other \in es \ {o} : ~SameThing(o, other)
    BY <1>1, MergedAddsOnce
  <1> QED BY <1>2, <1>7, <1>8, <1>9 DEF Keeps

LEMMA EditKeeps ==
  ASSUME EditsTypeOK, NEW p \in Requests, NEW result,
         EditOf(p, Stored, result), person # NoPerson, Readable(person),
         person.told["name"] # NoOne
  PROVE  Keeps(asked[p], result)
  <1> DEFINE r == asked[p]
  <1>0. r \in EditRequest /\ r.value \in Tellers
    BY DEF EditsTypeOK, EditRequest
  <1>1. CASE r.op = "contact"
    <2>1. Stored \in Entity /\ Stored.person = person /\ Stored.entries = entries
      BY DEF EditsTypeOK, Stored
    <2>2. Keeps(r, SetContact(Stored, p, r.value))
      BY <1>0, <1>1, <2>1, ContactKeeps
    <2> QED BY <1>1, <2>2 DEF EditOf
  <1>2. CASE r.op \in {"address", "links"}
    BY <1>0, <1>2, GroupKeeps DEF EditOf
  <1>3. CASE r.op = "add"
    BY <1>3, ListKeeps DEF EditOf, AddEntry, Stored
  <1>4. CASE r.op = "edit"
    <2>1. PICK o \in Targets(p, Stored) : result = ReplaceEntry(Stored, o, r.thing)
      BY <1>4 DEF EditOf
    <2>2. o.id = r.target.id
      BY DEF Targets
    <2> QED BY <1>4, <2>1, <2>2, ListKeeps DEF ReplaceEntry, Stored
  <1>5. CASE r.op = "remove"
    <2>1. PICK o \in Targets(p, Stored) : result = RemoveEntry(Stored, o)
      BY <1>5 DEF EditOf
    <2>2. o.id = r.target.id
      BY DEF Targets
    <2> QED BY <1>5, <2>1, <2>2, ListKeeps DEF RemoveEntry, Stored
  <1>6. CASE r.op = "parse"
    BY <1>0, <1>6, ParsedKeeps DEF EditOf
  <1> QED BY <1>1, <1>2, <1>3, <1>4, <1>5, <1>6 DEF EditOf

LEMMA FirstKeeps ==
  ASSUME EditsTypeOK, NEW p \in Requests, NEW result, FirstOf(p, result),
         person = NoPerson, entries = {}
  PROVE  Keeps(asked[p], result)
  <1> DEFINE r == asked[p]
             named == [NoEntity EXCEPT !.person.id = p]
  <1>0. r \in EditRequest /\ r.value \in Tellers
    BY DEF EditsTypeOK, EditRequest
  <1>1. CASE r.op = "contact"
    <2>1. named \in Entity
      BY NoEntityIsEntity DEF Entity, PersonRow, Tellers
    <2>2. /\ named.person.told = NoPerson.told
          /\ named.person.source = NoPerson.source
      BY DEF NoEntity, NoPerson
    <2>3. \A f \in Fields : NoPerson.told[f] = NoOne
      BY DEF NoPerson
    <2>4. Readable(named.person)
      BY <2>2, <2>3 DEF Readable
    <2>5. \A f \in {"address", "links"} : person.told[f] = NoOne
      BY <2>3 DEF Fields
    <2>6. Keeps(r, SetContact(named, p, r.value))
      BY <1>0, <1>1, <2>1, <2>4, <2>5, ContactKeeps
    <2> QED BY <1>1, <2>6 DEF FirstOf
  <1>2. CASE r.op = "parse"
    BY <1>0, <1>2, FirstParsedKeeps DEF FirstOf
  <1> QED BY <1>1, <1>2 DEF FirstOf

\* Until requests overlap, a step of one that is served finds the others at
\* rest and leaves them there.
LEMMA OthersAreAtRest ==
  ASSUME EditsTypeOK, OneEditAtATime, NEW p \in Requests, InFlight(p),
         NEW label \in EditLabels, Goto(p, label)
  PROVE  /\ OneEditAtATime'
         /\ \A q \in Requests \ {p} :
              pc'[q] = pc[q] /\ pc[q] \notin Holding \cup {"person"}
  BY DEF EditsTypeOK, OneEditAtATime, Goto, InFlight, Ended, Holding

LEMMA HeldIsEdit ==
  ASSUME EditsTypeOK, SerialEdits, NEW p \in Requests, InFlight(p),
         NEW label \in {"adding_person", "person_reread"}, NEW e \in Entity,
         Goes(p, label, e), Keeps(asked[p], e),
         label = "adding_person" <=> person = NoPerson
  PROVE  SerialEdits'
  <1>1. OneEditAtATime' /\ \A q \in Requests \ {p} :
          pc'[q] = pc[q] /\ pc[q] \notin Holding \cup {"person"}
    BY OthersAreAtRest DEF SerialEdits, Goes, EditLabels
  <1>2. pc'[p] = label
    BY DEF EditsTypeOK, Goes, Goto
  <1>3. ProfileIsWhole'
    BY DEF SerialEdits, ProfileIsWhole, Goes
  <1>4. entity'[p] = e /\ asked' = asked /\ person' = person
        /\ entries' = entries
    BY DEF EditsTypeOK, Goes
  <1>5. Keeps(asked[p], e)'
    BY <1>4 DEF Keeps
  <1>6. HeldKeepsTheRest'
    BY <1>1, <1>2, <1>4, <1>5 DEF HeldKeepsTheRest
  <1>7. RereadIsStored'
    BY <1>1, <1>2 DEF RereadIsStored, Holding
  <1> QED BY <1>1, <1>3, <1>6, <1>7 DEF SerialEdits

LEMMA EndedSerial ==
  ASSUME EditsTypeOK, SerialEdits, NEW p \in Requests, InFlight(p),
         NEW label \in Ended, Goto(p, label), ProfileIsWhole'
  PROVE  SerialEdits'
  <1>1. OneEditAtATime' /\ \A q \in Requests \ {p} :
          pc'[q] = pc[q] /\ pc[q] \notin Holding \cup {"person"}
    BY OthersAreAtRest DEF SerialEdits, EditLabels
  <1>2. pc'[p] = label
    BY DEF EditsTypeOK, Goto
  <1>3. \A q \in Requests : pc'[q] \notin Holding
    BY <1>1, <1>2 DEF Holding, Ended
  <1> QED BY <1>1, <1>3 DEF SerialEdits, HeldKeepsTheRest, RereadIsStored, Holding

LEMMA RefusedSerial ==
  ASSUME EditsTypeOK, SerialEdits, NEW p \in Requests, InFlight(p), Refused(p)
  PROVE  SerialEdits'
  BY EndedSerial DEF Refused, Ended, SerialEdits, ProfileIsWhole

\* What is flushed is the entity.
LEMMA FlushWritesEntity ==
  ASSUME EditsTypeOK, SerialEdits, NEW p \in Requests,
         pc[p] = "person_flush", FlushPerson(p), ~Refused(p)
  PROVE  /\ person'.told = entity[p].person.told
         /\ person'.source = entity[p].person.source
         /\ entries' = entity[p].entries
  <1>1. reread[p] = Stored
    BY DEF SerialEdits, RereadIsStored
  <1>2. person \in PersonRow /\ entity[p].person \in PersonRow
    BY DEF EditsTypeOK, Stored, Entity
  <1>3. /\ WrittenPerson(p).told = entity[p].person.told
        /\ WrittenPerson(p).source = entity[p].person.source
    BY <1>1, <1>2 DEF WrittenPerson, Written, Stored, PersonRow
  <1>4. {e \in entries : e.id \notin Ids(entity[p].entries)
                                   \cup Ids(reread[p].entries)} = {}
    BY <1>1 DEF Ids, Stored
  <1> QED BY <1>3, <1>4 DEF FlushPerson

\* Every step moves one request along.
LEMMA StepMovesOne ==
  ASSUME EditsTypeOK, EditsNext
  PROVE  \E p \in Requests : \E label \in EditLabels : Goto(p, label)
  <1>1. ASSUME NEW p \in Requests, ReadPerson(p)
        PROVE  \E label \in EditLabels : Goto(p, label)
    <2>1. InFlight(p)
      BY <1>1 DEF ReadPerson, InFlight, Ended
    <2>2. Refused(p) \/ \E result : Goes(p, "person_reread", result)
      BY <1>1, <2>1, EditHeldCases DEF ReadPerson
    <2> QED BY <2>2 DEF Refused, Goes, EditLabels, Ended
  <1>2. ASSUME NEW p \in Requests, ReadNoPerson(p)
        PROVE  \E label \in EditLabels : Goto(p, label)
    BY <1>2, ReadNoPersonCases DEF Refused, Goes, EditLabels, Ended
  <1> QED BY <1>1, <1>2
          DEF EditsNext, AskEdit, AddPerson, RereadPerson, FlushPerson,
              EditDies, CutShort, Refused, EditLabels, Ended

LEMMA StepSerialEdits ==
  ASSUME EditsTypeOK, SerialEdits, [EditsNext]_<<serving, editVars>>,
         ~overlapped'
  PROVE  SerialEdits'
  <1>1. CASE UNCHANGED <<serving, editVars>>
    BY <1>1 DEF serving, editVars, SerialEdits, OneEditAtATime, ProfileIsWhole,
                HeldKeepsTheRest, RereadIsStored, InFlight, Keeps, Stored
  <1>2. ASSUME NEW p \in Requests, AskEdit(p)
        PROVE  SerialEdits'
    <2>1. \A q \in Requests : ~InFlight(q)
      BY <1>2 DEF AskEdit, MayStart, Goto
    <2>2. \A q \in Requests \ {p} : pc'[q] = pc[q] /\ ~InFlight(q)'
      BY <1>2, <2>1 DEF EditsTypeOK, AskEdit, Goto, InFlight
    <2>3. pc'[p] = "person"
      BY <1>2 DEF EditsTypeOK, AskEdit, Goto
    <2>4. \A q \in Requests : pc'[q] \notin Holding
      BY <2>2, <2>3 DEF Holding, InFlight, Ended
    <2>5. OneEditAtATime'
      BY <2>2 DEF OneEditAtATime
    <2> QED BY <1>2, <2>4, <2>5
            DEF SerialEdits, HeldKeepsTheRest, RereadIsStored, Holding,
                ProfileIsWhole, AskEdit
  <1>3. ASSUME NEW p \in Requests, ReadPerson(p)
        PROVE  SerialEdits'
    <2>1. InFlight(p) /\ Stored \in Entity
      BY <1>3 DEF ReadPerson, InFlight, Ended, EditsTypeOK
    <2>2. CASE Refused(p)
      BY <2>1, <2>2, RefusedSerial
    <2>3. ASSUME NEW result, Readable(person), EditOf(p, Stored, result),
                 Goes(p, "person_reread", result)
          PROVE  SerialEdits'
      <3>1. person # NoPerson /\ person.told["name"] # NoOne
        BY <1>3 DEF ReadPerson, SerialEdits, ProfileIsWhole
      <3>2. Keeps(asked[p], result) /\ result \in Entity
        BY <2>1, <2>3, <3>1, EditKeeps, EditIsEntity
      <3> QED BY <2>1, <2>3, <3>1, <3>2, HeldIsEdit
    <2> QED BY <1>3, <2>1, <2>2, <2>3, EditHeldCases DEF ReadPerson
  <1>4. ASSUME NEW p \in Requests, ReadNoPerson(p)
        PROVE  SerialEdits'
    <2>1. InFlight(p)
      BY <1>4 DEF ReadNoPerson, InFlight, Ended
    <2>2. CASE Refused(p)
      BY <2>1, <2>2, RefusedSerial
    <2>3. ASSUME NEW result, FirstOf(p, result),
                 Goes(p, "adding_person", result)
          PROVE  SerialEdits'
      <3>1. person = NoPerson /\ entries = {}
        BY <1>4 DEF ReadNoPerson, SerialEdits, ProfileIsWhole
      <3>2. Keeps(asked[p], result) /\ result \in Entity
        BY <2>3, <3>1, FirstKeeps, FirstIsEntity
      <3> QED BY <2>1, <2>3, <3>1, <3>2, HeldIsEdit
    <2> QED BY <1>4, <2>2, <2>3, ReadNoPersonCases
  <1>5. ASSUME NEW p \in Requests, AddPerson(p)
        PROVE  SerialEdits'
    <2>1. InFlight(p)
      BY <1>5 DEF AddPerson, InFlight, Ended
    <2>2. CASE Refused(p)
      BY <2>1, <2>2, RefusedSerial
    <2>3. CASE ~Refused(p)
      <3>1. Keeps(asked[p], entity[p])
        BY <1>5 DEF AddPerson, SerialEdits, HeldKeepsTheRest, Holding
      <3>2. /\ person' = entity[p].person
            /\ Goto(p, "ok")
        BY <1>5, <2>3 DEF AddPerson
      <3>3. ProfileIsWhole'
        BY <3>1, <3>2 DEF Keeps, ProfileIsWhole, NoPerson, Fields
      <3> QED BY <2>1, <3>2, <3>3, EndedSerial DEF Ended
    <2> QED BY <2>2, <2>3
  <1>6. ASSUME NEW p \in Requests, RereadPerson(p)
        PROVE  SerialEdits'
    <2>1. InFlight(p)
      BY <1>6 DEF RereadPerson, InFlight, Ended
    <2>2. OneEditAtATime' /\ \A q \in Requests \ {p} :
            pc'[q] = pc[q] /\ pc[q] \notin Holding \cup {"person"}
      BY <1>6, <2>1, OthersAreAtRest DEF RereadPerson, SerialEdits, EditLabels
    <2>3. pc'[p] = "person_flush" /\ reread'[p] = Stored
      BY <1>6 DEF RereadPerson, Goto, EditsTypeOK
    <2>4. /\ Keeps(asked[p], entity[p])
          /\ person # NoPerson
      BY <1>6 DEF RereadPerson, SerialEdits, HeldKeepsTheRest, Holding
    <2>5. Stored' = Stored /\ person' = person /\ entries' = entries
          /\ asked' = asked /\ entity' = entity
      BY <1>6 DEF RereadPerson, Stored
    <2>6. HeldKeepsTheRest'
      BY <2>2, <2>3, <2>4, <2>5 DEF HeldKeepsTheRest, Keeps
    <2>7. RereadIsStored'
      BY <2>2, <2>3, <2>5 DEF RereadIsStored, Holding
    <2> QED BY <2>2, <2>5, <2>6, <2>7 DEF SerialEdits, ProfileIsWhole
  <1>7. ASSUME NEW p \in Requests, FlushPerson(p)
        PROVE  SerialEdits'
    <2>1. InFlight(p) /\ pc[p] = "person_flush"
      BY <1>7 DEF FlushPerson, InFlight, Ended
    <2>2. CASE Refused(p)
      BY <2>1, <2>2, RefusedSerial
    <2>3. CASE ~Refused(p)
      <3>1. Keeps(asked[p], entity[p])
        BY <2>1 DEF SerialEdits, HeldKeepsTheRest, Holding
      <3>2. person'.told = entity[p].person.told
        BY <1>7, <2>1, <2>3, FlushWritesEntity
      <3>3. ProfileIsWhole'
        BY <3>1, <3>2 DEF Keeps, ProfileIsWhole, NoPerson, Fields
      <3>4. Goto(p, "ok")
        BY <1>7, <2>3 DEF FlushPerson
      <3> QED BY <2>1, <3>3, <3>4, EndedSerial DEF Ended
    <2> QED BY <2>2, <2>3
  <1>8. ASSUME NEW p \in Requests, EditDies(p)
        PROVE  SerialEdits'
    BY <1>8, EndedSerial
       DEF EditDies, CutShort, Ended, SerialEdits, ProfileIsWhole
  <1> QED BY <1>1, <1>2, <1>3, <1>4, <1>5, <1>6, <1>7, <1>8 DEF EditsNext

EditsInv == EditsTypeOK /\ Serially(SerialEdits)

LEMMA EditsInvHolds == EditsSpec => []EditsInv
  <1>1. InitServing /\ EditsInit(Persons) => EditsInv
    <2> SUFFICES ASSUME InitServing, EditsInit(Persons) PROVE EditsInv
      OBVIOUS
    <2>1. EditsTypeOK
      BY InitEditsTyped
    <2>2. \A p \in Requests : pc[p] = "idle"
      BY DEF InitServing
    <2>3. ProfileIsWhole
      BY PersonsAreNamed DEF EditsInit, ProfileIsWhole
    <2>4. OneEditAtATime /\ HeldKeepsTheRest /\ RereadIsStored
      BY <2>2 DEF OneEditAtATime, HeldKeepsTheRest, RereadIsStored, InFlight,
                  Holding
    <2> QED BY <2>1, <2>3, <2>4 DEF EditsInv, Serially, SerialEdits
  <1>2. EditsInv /\ [EditsNext]_<<serving, editVars>> => EditsInv'
    <2> SUFFICES ASSUME EditsInv, [EditsNext]_<<serving, editVars>>
                 PROVE  EditsInv'
      OBVIOUS
    <2>1. EditsTypeOK'
      BY StepEditsTyped DEF EditsInv
    <2>2. ~overlapped' => ~overlapped
      BY StepMovesOne DEF EditsInv, Goto, serving
    <2>3. ~overlapped' => SerialEdits'
      BY <2>2, StepSerialEdits DEF EditsInv, Serially
    <2> QED BY <2>1, <2>3 DEF EditsInv, Serially
  <1> QED BY <1>1, <1>2, PTL DEF EditsSpec

\* A request is answered by its own commit.
LEMMA AnsweredByCommit ==
  ASSUME EditsTypeOK, EditsNext, NEW p \in Requests, pc[p] \in Holding,
         pc'[p] = "ok"
  PROVE  \/ pc[p] = "adding_person" /\ AddPerson(p) /\ ~Refused(p)
         \/ pc[p] = "person_flush" /\ FlushPerson(p) /\ ~Refused(p)
  <1>1. PICK q \in Requests :
          \/ AskEdit(q) \/ ReadPerson(q) \/ ReadNoPerson(q) \/ AddPerson(q)
          \/ RereadPerson(q) \/ FlushPerson(q) \/ EditDies(q)
    BY DEF EditsNext
  <1>2. ASSUME NEW label, Goto(q, label)
        PROVE  q = p /\ label = "ok"
    BY <1>2 DEF EditsTypeOK, Goto, Holding
  <1>3. ~AskEdit(q) /\ ~RereadPerson(q) /\ ~EditDies(q) /\ ~Refused(q)
    BY <1>2 DEF AskEdit, RereadPerson, EditDies, CutShort, Refused
  <1>4. ~ReadPerson(q)
    <2> SUFFICES ASSUME ReadPerson(q) PROVE FALSE
      OBVIOUS
    <2>1. InFlight(q)
      BY DEF ReadPerson, InFlight, Ended
    <2>2. Refused(q) \/ \E result : Goes(q, "person_reread", result)
      BY <2>1, EditHeldCases DEF ReadPerson
    <2> QED BY <1>2, <1>3, <2>2 DEF Goes
  <1>5. ~ReadNoPerson(q)
    BY <1>2, <1>3, ReadNoPersonCases DEF Goes
  <1>6. CASE AddPerson(q)
    BY <1>2, <1>3, <1>6 DEF AddPerson
  <1>7. CASE FlushPerson(q)
    BY <1>2, <1>3, <1>7 DEF FlushPerson
  <1> QED BY <1>1, <1>3, <1>4, <1>5, <1>6, <1>7

\* Until requests overlap, whatever sequence of edits and parses a candidate
\* makes, each writes only the section or entry it is about, and leaves a
\* profile that can be read again; a parse of a résumé replaces nothing, not
\* even a recorded source, and adds nothing twice.  That is what the second
\* read of profile_repository_impl.py's `update` and the fill-only-gaps rule
\* of parse_resume.py come to, for any profile, lists and résumés.
THEOREM EditsStayWithinTheirSection == EditsSpec => OnlyWhatWasAsked
  <1> DEFINE Only ==
               \A p \in Requests :
                 pc[p] \in {"person_flush", "adding_person"} /\ pc'[p] = "ok"
                   /\ ~overlapped'
                 => /\ Says \ Replaces(p) \subseteq Says'
                    /\ Readable(person')
                    /\ asked[p].op = "parse" =>
                         \A e \in entries' \ entries :
                           \A o \in entries' \ {e} : ~SameThing(e, o)
  <1>1. EditsInv /\ [EditsNext]_<<serving, editVars>>
          => [Only]_<<serving, editVars>>
    <2> SUFFICES ASSUME EditsInv, EditsNext, NEW p \in Requests,
                        pc[p] \in {"person_flush", "adding_person"},
                        pc'[p] = "ok", ~overlapped'
                 PROVE  /\ Says \ Replaces(p) \subseteq Says'
                        /\ Readable(person')
                        /\ asked[p].op = "parse" =>
                             \A e \in entries' \ entries :
                               \A o \in entries' \ {e} : ~SameThing(e, o)
      BY DEF serving
    <2>1. EditsTypeOK /\ (~overlapped => SerialEdits)
      BY DEF EditsInv, Serially
    <2>2. ~overlapped
      BY <2>1, StepMovesOne DEF Goto
    <2>3. pc[p] \in Holding
      BY DEF Holding
    <2>4. Keeps(asked[p], entity[p])
      BY <2>1, <2>2, <2>3 DEF SerialEdits, HeldKeepsTheRest
    <2>5. /\ person'.told = entity[p].person.told
          /\ person'.source = entity[p].person.source
          /\ entries' = entity[p].entries
      <3>1. CASE AddPerson(p) /\ ~Refused(p)
        BY <3>1 DEF AddPerson
      <3>2. CASE pc[p] = "person_flush" /\ FlushPerson(p) /\ ~Refused(p)
        BY <2>1, <2>2, <3>2, FlushWritesEntity
      <3> QED BY <2>1, <2>3, <3>1, <3>2, AnsweredByCommit
    <2>6. Readable(person')
      BY <2>4, <2>5 DEF Keeps, Readable
    <2>7. ASSUME NEW f \in Fields, person.told[f] # NoOne,
                 asked[p].op # GroupOf(f)
          PROVE  [field |-> f, told |-> person.told[f],
                  source |-> person.source[GroupOf(f)]] \in Says'
      <3>1. /\ person'.told[f] = person.told[f]
            /\ person'.source[GroupOf(f)] = person.source[GroupOf(f)]
        BY <2>4, <2>5, <2>7 DEF Keeps
      <3> QED BY <2>7, <3>1 DEF Says, ToldIn
    <2>8. ASSUME NEW o \in entries, o \notin Replaces(p)
          PROVE  o \in Says'
      BY <2>4, <2>5, <2>8 DEF Keeps, Says, Replaces, Groups
    <2>9. ASSUME NEW x \in Says, x \notin Replaces(p)
          PROVE  x \in Says'
      <3>1. CASE x \in entries
        BY <2>8, <2>9, <3>1
      <3>2. CASE x \notin entries
        <4>1. PICK f \in Fields :
                /\ person.told[f] # NoOne
                /\ x = [field |-> f, told |-> person.told[f],
                        source |-> person.source[GroupOf(f)]]
          BY <3>2 DEF Says, ToldIn
        <4>2. CASE asked[p].op = GroupOf(f)
          <5>1. asked[p].op \in Groups
            BY <4>2 DEF GroupOf, Groups, Fields
          <5>2. Replaces(p) = ToldIn({g \in Fields : GroupOf(g) = asked[p].op})
            BY <5>1 DEF Replaces, Groups
          <5>3. x \in ToldIn({g \in Fields : GroupOf(g) = asked[p].op})
            BY <4>1, <4>2 DEF ToldIn
          <5> QED BY <2>9, <5>2, <5>3
        <4> QED BY <2>7, <4>1, <4>2
      <3> QED BY <3>1, <3>2
    <2> QED BY <2>4, <2>5, <2>6, <2>9 DEF Keeps
  <1> QED BY <1>1, EditsInvHolds, PTL DEF EditsSpec, OnlyWhatWasAsked
-----------------------------------------------------------------------------
(* The inventory *)

LEMMA RangeOfTen ==
  ASSUME NEW s, Len(s) = 10, DOMAIN s = 1 .. 10
  PROVE  Range(s) = {s[1], s[2], s[3], s[4], s[5], s[6], s[7], s[8], s[9], s[10]}
  <1>1. \A i \in 1 .. 10 : i \in {1, 2, 3, 4, 5, 6, 7, 8, 9, 10}
    OBVIOUS
  <1> QED BY <1>1 DEF Range

LEMMA ErasedRange ==
  /\ Len(Erased) = 10 /\ DOMAIN Erased = 1 .. 10
  /\ Erased[1] = InDatabase("profile",
      <<"user_profiles", "work_history_entries", "education_entries", "skills",
        "work_authorizations", "eeo_self_identifications">>)
  /\ Erased[2] = InDatabase("resumes", <<"resumes">>)
  /\ Erased[3] = Category("resume_files", "file_storage", TRUE, "erase", <<>>)
  /\ Erased[4] = InDatabase("answer_memories", <<"answer_memories">>)
  /\ Erased[5] = InDatabase("application_documents", <<"application_documents">>)
  /\ Erased[6] = InDatabase("application_reviews", <<"application_reviews">>)
  /\ Erased[7] = InDatabase("portal_handoffs", <<"portal_handoffs">>)
  /\ Erased[8] = InDatabase("tracked_applications",
      <<"tracked_applications", "application_status_events">>)
  /\ Erased[9] = InDatabase("job_match_feedback", <<"job_match_feedback">>)
  /\ Erased[10] = InDatabase("legacy_applications", <<"job_applications">>)
  BY DEF Erased

LEMMA NotErasedRange ==
  /\ Len(NotErased) = 4 /\ DOMAIN NotErased = 1 .. 4
  /\ NotErased[1] = Category("consents", "primary_database", TRUE, "retain_legal_basis",
                             <<"consent_decisions">>)
  /\ NotErased[2] = Category("application_logs", "log_sink", FALSE,
                             "no_personal_data_retained", <<>>)
  /\ NotErased[3] = Category("model_provider_processing", "processor", FALSE, "delegated", <<>>)
  /\ NotErased[4] = Category("employer_disclosures", "third_party_controller", FALSE,
                             "delegated", <<>>)
  BY DEF NotErased

\* A sequence read as one of ten followed by one of four.
JoinedAt(both, s, t) ==
  \A i \in 1 .. 14 : both[i] = IF i <= 10 THEN s[i] ELSE t[i - 10]

LEMMA TenAndFour ==
  ASSUME NEW S, NEW s \in Seq(S), NEW t \in Seq(S), Len(s) = 10, Len(t) = 4
  PROVE  s \o t \in Seq(S) /\ Len(s \o t) = 14 /\ JoinedAt(s \o t, s, t)
  <1>1. /\ s \o t \in Seq(S) /\ Len(s \o t) = Len(s) + Len(t)
        /\ \A i \in 1 .. Len(s) + Len(t) :
             (s \o t)[i] = IF i <= Len(s) THEN s[i] ELSE t[i - Len(s)]
    BY ConcatProperties
  <1> DEFINE both == s \o t
  <1>2. /\ both \in Seq(S) /\ Len(both) = Len(s) + Len(t)
        /\ \A i \in 1 .. Len(s) + Len(t) :
             both[i] = IF i <= Len(s) THEN s[i] ELSE t[i - Len(s)]
    BY <1>1
  <1> HIDE DEF both
  <1>3. Len(s) + Len(t) = 14
    OBVIOUS
  <1>4. JoinedAt(both, s, t)
    BY <1>2, <1>3 DEF JoinedAt
  <1> QED BY <1>2, <1>3, <1>4 DEF both

LEMMA InventoryIs ==
  /\ Len(Inventory) = 14 /\ DOMAIN Inventory = 1 .. 14
  /\ \A i \in 1 .. 10 : Inventory[i] = Erased[i]
  /\ \A i \in 1 .. 4 : Inventory[10 + i] = NotErased[i]
  <1> DEFINE S == Range(Erased) \cup Range(NotErased)
  <1>1. Erased \in Seq(S)
    <2>1. Erased = [i \in 1 .. 10 |-> Erased[i]]
      BY DEF Erased
    <2>2. \A i \in 1 .. 10 : Erased[i] \in S
      BY ErasedRange DEF Range
    <2> HIDE DEF S
    <2> QED BY <2>1, <2>2
  <1>2. NotErased \in Seq(S)
    <2>1. NotErased = [i \in 1 .. 4 |-> NotErased[i]]
      BY DEF NotErased
    <2>2. \A i \in 1 .. 4 : NotErased[i] \in S
      BY NotErasedRange DEF Range
    <2> HIDE DEF S
    <2> QED BY <2>1, <2>2
  <1> HIDE DEF S
  <1>3. Len(Erased) = 10 /\ Len(NotErased) = 4
    BY ErasedRange, NotErasedRange
  <1>4. Inventory \in Seq(S) /\ Len(Inventory) = 14 /\ JoinedAt(Inventory, Erased, NotErased)
    BY <1>1, <1>2, <1>3, TenAndFour DEF Inventory
  <1>5. DOMAIN Inventory = 1 .. 14
    BY <1>4
  <1>6. \A i \in 1 .. 14 :
          Inventory[i] = IF i <= 10 THEN Erased[i] ELSE NotErased[i - 10]
    BY <1>4 DEF JoinedAt
  <1>7. \A i \in 1 .. 10 : Inventory[i] = Erased[i]
    BY <1>6
  <1>8. \A i \in 1 .. 4 : Inventory[10 + i] = NotErased[i]
    <2> SUFFICES ASSUME NEW i \in 1 .. 4
                 PROVE  Inventory[10 + i] = NotErased[i]
      OBVIOUS
    <2>1. 10 + i \in 1 .. 14 /\ ~(10 + i <= 10) /\ (10 + i) - 10 = i
      OBVIOUS
    <2> QED BY <2>1, <1>6
  <1> QED BY <1>4, <1>5, <1>7, <1>8

\* What the fourteen categories hold.
ProfileTables ==
  {"user_profiles", "work_history_entries", "education_entries", "skills",
   "work_authorizations", "eeo_self_identifications"}

ErasedTables ==
  ProfileTables \cup
  {"resumes", "answer_memories", "application_documents", "application_reviews",
   "portal_handoffs", "tracked_applications", "application_status_events",
   "job_match_feedback", "job_applications"}

\* The names of tables and categories.
Words == ErasedTables \cup {"consent_decisions", "files", "profile", "legacy_applications"}

LEMMA RangeOfNone == Range(<<>>) = {} /\ <<>> \in Seq(Words)
  BY DEF Range

LEMMA RangeOfOne ==
  ASSUME NEW S, NEW x, x \in S
  PROVE  Range(<<x>>) = {x} /\ <<x>> \in Seq(S)
  <1>1. Range(<<x>>) = {x}
    BY DEF Range
  <1>2. <<x>> \in Seq(S)
    OBVIOUS
  <1> QED BY <1>1, <1>2

LEMMA RangeOfTwo ==
  ASSUME NEW S, NEW x, NEW y, x \in S, y \in S
  PROVE  Range(<<x, y>>) = {x, y} /\ <<x, y>> \in Seq(S)
  <1>1. 1 .. 2 = {1, 2}
    OBVIOUS
  <1>2. Range(<<x, y>>) = {x, y}
    BY <1>1 DEF Range
  <1>3. <<x, y>> \in Seq(S)
    OBVIOUS
  <1> QED BY <1>2, <1>3

LEMMA RangeOfSix ==
  ASSUME NEW S, NEW a, NEW b, NEW c, NEW d, NEW e, NEW f,
         {a, b, c, d, e, f} \subseteq S
  PROVE  /\ Range(<<a, b, c, d, e, f>>) = {a, b, c, d, e, f}
         /\ <<a, b, c, d, e, f>> \in Seq(S)
  <1>1. 1 .. 6 = {1, 2, 3, 4, 5, 6}
    OBVIOUS
  <1>2. Range(<<a, b, c, d, e, f>>) = {a, b, c, d, e, f}
    BY <1>1 DEF Range
  <1>3. <<a, b, c, d, e, f>> \in Seq(S)
    OBVIOUS
  <1> QED BY <1>2, <1>3

\* A category of the inventory, its tables in no order.
IsListed(c, key, exportable, erasure, tables) ==
  /\ c.key = key /\ c.exportable = exportable /\ c.erasure = erasure
  /\ c.tables \in Seq(Words) /\ Range(c.tables) = tables

LEMMA OneTable ==
  ASSUME NEW c, NEW key, NEW table, table \in Words, c = InDatabase(key, <<table>>)
  PROVE  IsListed(c, key, TRUE, "erase", {table})
  <1>1. <<table>> \in Seq(Words) /\ Range(<<table>>) = {table}
    BY RangeOfOne
  <1> QED BY <1>1 DEF IsListed, InDatabase, Category

LEMMA TwoTables ==
  ASSUME NEW c, NEW key, NEW x, NEW y, x \in Words, y \in Words,
         c = InDatabase(key, <<x, y>>)
  PROVE  IsListed(c, key, TRUE, "erase", {x, y})
  <1>1. <<x, y>> \in Seq(Words) /\ Range(<<x, y>>) = {x, y}
    BY RangeOfTwo
  <1> QED BY <1>1 DEF IsListed, InDatabase, Category

LEMMA SixTables ==
  ASSUME NEW C, NEW key, NEW a, NEW b, NEW c, NEW d, NEW e, NEW f,
         {a, b, c, d, e, f} \subseteq Words, C = InDatabase(key, <<a, b, c, d, e, f>>)
  PROVE  IsListed(C, key, TRUE, "erase", {a, b, c, d, e, f})
  <1>1. /\ <<a, b, c, d, e, f>> \in Seq(Words)
        /\ Range(<<a, b, c, d, e, f>>) = {a, b, c, d, e, f}
    BY RangeOfSix
  <1> QED BY <1>1 DEF IsListed, InDatabase, Category

LEMMA CategoriesAre ==
  /\ IsListed(Inventory[1], "profile", TRUE, "erase", ProfileTables)
  /\ IsListed(Inventory[2], "resumes", TRUE, "erase", {"resumes"})
  /\ IsListed(Inventory[3], "resume_files", TRUE, "erase", {})
  /\ IsListed(Inventory[4], "answer_memories", TRUE, "erase", {"answer_memories"})
  /\ IsListed(Inventory[5], "application_documents", TRUE, "erase",
              {"application_documents"})
  /\ IsListed(Inventory[6], "application_reviews", TRUE, "erase",
              {"application_reviews"})
  /\ IsListed(Inventory[7], "portal_handoffs", TRUE, "erase", {"portal_handoffs"})
  /\ IsListed(Inventory[8], "tracked_applications", TRUE, "erase",
              {"tracked_applications", "application_status_events"})
  /\ IsListed(Inventory[9], "job_match_feedback", TRUE, "erase", {"job_match_feedback"})
  /\ IsListed(Inventory[10], "legacy_applications", TRUE, "erase", {"job_applications"})
  /\ IsListed(Inventory[11], "consents", TRUE, "retain_legal_basis",
              {"consent_decisions"})
  /\ IsListed(Inventory[12], "application_logs", FALSE, "no_personal_data_retained", {})
  /\ IsListed(Inventory[13], "model_provider_processing", FALSE, "delegated", {})
  /\ IsListed(Inventory[14], "employer_disclosures", FALSE, "delegated", {})
  <1>0. /\ "resumes" \in Words /\ "answer_memories" \in Words
        /\ "application_documents" \in Words /\ "application_reviews" \in Words
        /\ "portal_handoffs" \in Words /\ "tracked_applications" \in Words
        /\ "application_status_events" \in Words /\ "job_match_feedback" \in Words
        /\ "job_applications" \in Words /\ "consent_decisions" \in Words
        /\ ProfileTables \subseteq Words
    BY DEF Words, ErasedTables, ProfileTables
  <1>1. /\ Inventory[11] = NotErased[1] /\ Inventory[12] = NotErased[2]
        /\ Inventory[13] = NotErased[3] /\ Inventory[14] = NotErased[4]
    <2>1. 11 = 10 + 1 /\ 12 = 10 + 2 /\ 13 = 10 + 3 /\ 14 = 10 + 4
      OBVIOUS
    <2> QED BY <2>1, InventoryIs
  <1>2. IsListed(Inventory[1], "profile", TRUE, "erase", ProfileTables)
    <2>1. Inventory[1] = InDatabase("profile", <<"user_profiles", "work_history_entries", "education_entries", "skills",
        "work_authorizations", "eeo_self_identifications">>)
      BY InventoryIs, ErasedRange
    <2> QED BY <1>0, <2>1, SixTables DEF ProfileTables
  <1>3. IsListed(Inventory[2], "resumes", TRUE, "erase", {"resumes"})
    <2>1. Inventory[2] = InDatabase("resumes", <<"resumes">>)
      BY InventoryIs, ErasedRange
    <2> QED BY <1>0, <2>1, OneTable
  <1>4. IsListed(Inventory[3], "resume_files", TRUE, "erase", {})
    <2>1. Inventory[3] = Erased[3]
      BY InventoryIs
    <2>2. Erased[3] = Category("resume_files", "file_storage", TRUE, "erase", <<>>)
      BY DEF Erased
    <2> QED BY <2>1, <2>2, RangeOfNone DEF IsListed, Category
  <1>5. IsListed(Inventory[4], "answer_memories", TRUE, "erase", {"answer_memories"})
    <2>1. Inventory[4] = InDatabase("answer_memories", <<"answer_memories">>)
      BY InventoryIs, ErasedRange
    <2> QED BY <1>0, <2>1, OneTable
  <1>6. IsListed(Inventory[5], "application_documents", TRUE, "erase",
                 {"application_documents"})
    <2>1. Inventory[5] = InDatabase("application_documents", <<"application_documents">>)
      BY InventoryIs, ErasedRange
    <2> QED BY <1>0, <2>1, OneTable
  <1>7. IsListed(Inventory[6], "application_reviews", TRUE, "erase",
                 {"application_reviews"})
    <2>1. Inventory[6] = InDatabase("application_reviews", <<"application_reviews">>)
      BY InventoryIs, ErasedRange
    <2> QED BY <1>0, <2>1, OneTable
  <1>8. IsListed(Inventory[7], "portal_handoffs", TRUE, "erase", {"portal_handoffs"})
    <2>1. Inventory[7] = InDatabase("portal_handoffs", <<"portal_handoffs">>)
      BY InventoryIs, ErasedRange
    <2> QED BY <1>0, <2>1, OneTable
  <1>9. IsListed(Inventory[8], "tracked_applications", TRUE, "erase",
                 {"tracked_applications", "application_status_events"})
    <2>1. Inventory[8] = InDatabase("tracked_applications", <<"tracked_applications",
        "application_status_events">>)
      BY InventoryIs, ErasedRange
    <2> QED BY <1>0, <2>1, TwoTables
  <1>10. IsListed(Inventory[9], "job_match_feedback", TRUE, "erase", {"job_match_feedback"})
    <2>1. Inventory[9] = InDatabase("job_match_feedback", <<"job_match_feedback">>)
      BY InventoryIs, ErasedRange
    <2> QED BY <1>0, <2>1, OneTable
  <1>11. IsListed(Inventory[10], "legacy_applications", TRUE, "erase", {"job_applications"})
    <2>1. Inventory[10] = InDatabase("legacy_applications", <<"job_applications">>)
      BY InventoryIs, ErasedRange
    <2> QED BY <1>0, <2>1, OneTable
  <1>12. IsListed(Inventory[11], "consents", TRUE, "retain_legal_basis",
                 {"consent_decisions"})
    <2>1. Inventory[11] = Category("consents", "primary_database", TRUE,
                                   "retain_legal_basis", <<"consent_decisions">>)
      BY <1>1, NotErasedRange
    <2>2. <<"consent_decisions">> \in Seq(Words)
          /\ Range(<<"consent_decisions">>) = {"consent_decisions"}
      BY <1>0, RangeOfOne
    <2> QED BY <2>1, <2>2 DEF IsListed, Category
  <1>13. IsListed(Inventory[12], "application_logs", FALSE, "no_personal_data_retained", {})
    BY <1>1, NotErasedRange, RangeOfNone DEF IsListed, Category
  <1>14. IsListed(Inventory[13], "model_provider_processing", FALSE, "delegated", {})
    BY <1>1, NotErasedRange, RangeOfNone DEF IsListed, Category
  <1>15. IsListed(Inventory[14], "employer_disclosures", FALSE, "delegated", {})
    BY <1>1, NotErasedRange, RangeOfNone DEF IsListed, Category
  <1> QED BY <1>2, <1>3, <1>4, <1>5, <1>6, <1>7, <1>8, <1>9, <1>10, <1>11, <1>12, <1>13, <1>14, <1>15

\* Every table is that of a category.
LEMMA TablesAre == Tables \subseteq ErasedTables \cup {"consent_decisions"}
  <1> DEFINE Known == ErasedTables \cup {"consent_decisions"}
             Good(i) == Range(Inventory[i].tables) \subseteq Known
  <1>1. /\ Good(1) /\ Good(2) /\ Good(3) /\ Good(4) /\ Good(5) /\ Good(6) /\ Good(7)
        /\ Good(8) /\ Good(9) /\ Good(10) /\ Good(11) /\ Good(12) /\ Good(13) /\ Good(14)
    <2>1. ProfileTables \subseteq Known /\ {"consent_decisions"} \subseteq Known
      BY DEF ErasedTables
    <2>2. /\ {"resumes"} \subseteq Known /\ {"answer_memories"} \subseteq Known
          /\ {"application_documents"} \subseteq Known
          /\ {"application_reviews"} \subseteq Known /\ {"portal_handoffs"} \subseteq Known
          /\ {"tracked_applications", "application_status_events"} \subseteq Known
          /\ {"job_match_feedback"} \subseteq Known /\ {"job_applications"} \subseteq Known
          /\ {} \subseteq Known
      BY DEF ErasedTables
    <2>3. /\ Range(Inventory[1].tables) = ProfileTables
          /\ Range(Inventory[2].tables) = {"resumes"}
          /\ Range(Inventory[3].tables) = {}
          /\ Range(Inventory[4].tables) = {"answer_memories"}
          /\ Range(Inventory[5].tables) = {"application_documents"}
          /\ Range(Inventory[6].tables) = {"application_reviews"}
          /\ Range(Inventory[7].tables) = {"portal_handoffs"}
          /\ Range(Inventory[8].tables) = {"tracked_applications", "application_status_events"}
          /\ Range(Inventory[9].tables) = {"job_match_feedback"}
          /\ Range(Inventory[10].tables) = {"job_applications"}
          /\ Range(Inventory[11].tables) = {"consent_decisions"}
          /\ Range(Inventory[12].tables) = {}
          /\ Range(Inventory[13].tables) = {}
          /\ Range(Inventory[14].tables) = {}
      BY CategoriesAre DEF IsListed
    <2> HIDE DEF Known
    <2> QED BY <2>1, <2>2, <2>3
  <1>2. \A i \in {1, 2, 3, 4, 5, 6, 7, 8, 9, 10, 11, 12, 13, 14} : Good(i)
    BY <1>1, Zenon
  <1> HIDE DEF Good
  <1>3. ASSUME NEW c \in Range(Inventory)
        PROVE  Range(c.tables) \subseteq Known
    <2>1. PICK i \in 1 .. 14 : c = Inventory[i]
      BY InventoryIs DEF Range
    <2>2. i \in {1, 2, 3, 4, 5, 6, 7, 8, 9, 10, 11, 12, 13, 14}
      OBVIOUS
    <2>3. Good(i)
      BY <1>2, <2>2
    <2> QED BY <2>1, <2>3 DEF Good
  <1> HIDE DEF Known
  <1>4. Tables \subseteq Known
    BY <1>3 DEF Tables
  <1> QED BY <1>4 DEF Known

LEMMA ErasableAre ==
  {"profile", "resumes", "answer_memories", "application_documents",
   "application_reviews", "portal_handoffs", "tracked_applications",
   "job_match_feedback", "legacy_applications"} \subseteq Erasable
  <1>1. ASSUME NEW i \in 1 .. 14, Inventory[i].erasure = "erase"
        PROVE  Inventory[i].key \in Erasable
    <2>1. Inventory[i] \in Range(Inventory)
      BY InventoryIs DEF Range
    <2> QED BY <1>1, <2>1 DEF Erasable
  <1>2. /\ Inventory[1].erasure = "erase" /\ Inventory[1].key = "profile"
        /\ Inventory[2].erasure = "erase" /\ Inventory[2].key = "resumes"
        /\ Inventory[4].erasure = "erase" /\ Inventory[4].key = "answer_memories"
        /\ Inventory[5].erasure = "erase" /\ Inventory[5].key = "application_documents"
        /\ Inventory[6].erasure = "erase" /\ Inventory[6].key = "application_reviews"
        /\ Inventory[7].erasure = "erase" /\ Inventory[7].key = "portal_handoffs"
        /\ Inventory[8].erasure = "erase" /\ Inventory[8].key = "tracked_applications"
        /\ Inventory[9].erasure = "erase" /\ Inventory[9].key = "job_match_feedback"
        /\ Inventory[10].erasure = "erase" /\ Inventory[10].key = "legacy_applications"
    BY CategoriesAre DEF IsListed
  <1> QED BY <1>1, <1>2

-----------------------------------------------------------------------------
(* What an erasure deletes *)

\* The rows of a category are in its own table and in those of its children.
Covers(key, table) ==
  \/ table = Root(key)
  \/ table \in DOMAIN ChildOf /\ ChildOf[table] = Root(key)

LEMMA ErasuresAre ==
  /\ Erasures \in Seq(Words)
  /\ Range(Erasures) =
       {"profile", "resumes", "answer_memories", "application_documents",
        "application_reviews", "portal_handoffs", "tracked_applications",
        "job_match_feedback", "legacy_applications"}
  <1>1. /\ Erasures[1] = "tracked_applications" /\ Erasures[2] = "application_documents"
        /\ Erasures[3] = "application_reviews" /\ Erasures[4] = "portal_handoffs"
        /\ Erasures[5] = "answer_memories" /\ Erasures[6] = "job_match_feedback"
        /\ Erasures[7] = "resumes" /\ Erasures[8] = "profile"
        /\ Erasures[9] = "legacy_applications"
        /\ Len(Erasures) = 9 /\ DOMAIN Erasures = 1 .. 9
        /\ Erasures = [i \in 1 .. 9 |-> Erasures[i]]
    BY DEF Erasures
  <1>2. 1 .. 9 = {1, 2, 3, 4, 5, 6, 7, 8, 9}
    OBVIOUS
  <1>3. \A i \in 1 .. 9 : Erasures[i] \in Words
    BY <1>1, <1>2 DEF Words, ErasedTables
  <1>4. Erasures \in Seq(Words)
    BY <1>1, <1>3
  <1> QED BY <1>1, <1>2, <1>4 DEF Range

\* Every table is that of a category an erasure deletes, or of one of its
\* children; the consents are not.
LEMMA ErasuresCover ==
  ASSUME NEW t \in Tables, t # "consent_decisions"
  PROVE  \E key \in Range(Erasures) : key \in Erasable /\ Covers(key, t)
  <1>1. t \in ErasedTables
    BY TablesAre
  <1>2. \E key \in Range(Erasures) : Covers(key, t)
    BY <1>1, ErasuresAre DEF Covers, Root, ChildOf, ErasedTables, ProfileTables
  <1> QED BY <1>2, ErasuresAre, ErasableAre

-----------------------------------------------------------------------------
(* What an export reads *)

LEMMA LeastNatural ==
  ASSUME NEW T, T \subseteq Nat, T # {}
  PROVE  \E n \in T : \A m \in T : n <= m
  <1> DEFINE R == {ss \in Nat \X Nat : ss[1] < ss[2]}
  <1>0. IsWellFoundedOn(R, Nat)
    BY NatLessThanWellFounded DEF OpToRel
  <1> HIDE DEF R
  <1>1. PICK n \in T : \A m \in T : ~(<<m, n>> \in R)
    BY <1>0, WFMin
  <1>2. ASSUME NEW m \in T PROVE n <= m
    <2>1. ~(m < n)
      BY <1>1 DEF R
    <2> QED BY <2>1
  <1> QED BY <1>2

\* Every table a category has is a statement of its reader, and the files are.
StatesItsTables(n) ==
  /\ Statements(Inventory[n]) \in Seq(Words)
  /\ Range(Inventory[n].tables) \subseteq Range(Statements(Inventory[n]))

LEMMA StatesItsOwn ==
  ASSUME NEW n, NEW key, NEW erasure, NEW tables, key # "resume_files",
         IsListed(Inventory[n], key, TRUE, erasure, tables)
  PROVE  StatesItsTables(n)
  <1>1. Inventory[n].key = key /\ Inventory[n].exportable /\ Inventory[n].tables \in Seq(Words)
    BY DEF IsListed
  <1>2. Statements(Inventory[n]) = Inventory[n].tables
    BY <1>1 DEF Statements
  <1> QED BY <1>1, <1>2 DEF StatesItsTables

LEMMA StatesNothing ==
  ASSUME NEW n, NEW key, NEW erasure, IsListed(Inventory[n], key, FALSE, erasure, {})
  PROVE  StatesItsTables(n)
  <1>1. Inventory[n].exportable = FALSE /\ Range(Inventory[n].tables) = {}
    BY DEF IsListed
  <1>2. Statements(Inventory[n]) = <<>>
    BY <1>1 DEF Statements
  <1> QED BY <1>1, <1>2, RangeOfNone DEF StatesItsTables

LEMMA StatesTheFiles ==
  /\ StatesItsTables(3)
  /\ "files" \in Range(Statements(Inventory[3]))
  <1>1. /\ Inventory[3].key = "resume_files" /\ Inventory[3].exportable
        /\ Range(Inventory[3].tables) = {}
    BY CategoriesAre DEF IsListed
  <1>2. Statements(Inventory[3]) = <<"files">>
    BY <1>1 DEF Statements
  <1>3. "files" \in Words
    BY DEF Words
  <1>4. <<"files">> \in Seq(Words) /\ Range(<<"files">>) = {"files"}
    BY <1>3, RangeOfOne, Zenon
  <1> QED BY <1>1, <1>2, <1>4 DEF StatesItsTables

LEMMA StatementsAre ==
  /\ \A n \in 1 .. 14 : StatesItsTables(n)
  /\ "files" \in Range(Statements(Inventory[3]))
  <1>1. /\ StatesItsTables(1) /\ StatesItsTables(2) /\ StatesItsTables(4)
        /\ StatesItsTables(5) /\ StatesItsTables(6) /\ StatesItsTables(7)
        /\ StatesItsTables(8) /\ StatesItsTables(9) /\ StatesItsTables(10)
        /\ StatesItsTables(11)
    BY CategoriesAre, StatesItsOwn, ZenonT(60)
  <1>2. StatesItsTables(12) /\ StatesItsTables(13) /\ StatesItsTables(14)
    BY CategoriesAre, StatesNothing, ZenonT(60)
  <1>3. 1 .. 14 = {1, 2, 3, 4, 5, 6, 7, 8, 9, 10, 11, 12, 13, 14}
    OBVIOUS
  <1> QED BY <1>1, <1>2, <1>3, StatesTheFiles

\* What Reads computes on the way.
ReadsUpTo(n, upTo) ==
  upTo = [k \in 0 .. n |->
            IF k = 0 THEN <<>> ELSE upTo[k - 1] \o Statements(Inventory[k])]

LEMMA ReadsStep ==
  ASSUME NEW n \in Nat, NEW upTo, ReadsUpTo(n, upTo)
  PROVE  upTo[0] = <<>> /\ \A k \in 1 .. n : upTo[k] = upTo[k - 1] \o Statements(Inventory[k])
  <1> DEFINE more(k) == upTo[k - 1] \o Statements(Inventory[k])
             step == [k \in 0 .. n |-> IF k = 0 THEN <<>> ELSE more(k)]
  <1>1. upTo = step
    BY DEF ReadsUpTo
  <1> HIDE DEF more
  <1>2. step[0] = <<>> /\ \A k \in 1 .. n : step[k] = more(k)
    OBVIOUS
  <1> HIDE DEF step
  <1> QED BY <1>1, <1>2 DEF more

\* That recursion defines something.
LEMMA ReadsExist ==
  ASSUME NEW n \in Nat
  PROVE  \E upTo : ReadsUpTo(n, upTo)
  <1> DEFINE Missing == {m \in Nat : ~\E upTo : ReadsUpTo(m, upTo)}
  <1>1. 0 \notin Missing
    <2>1. ReadsUpTo(0, [k \in 0 .. 0 |-> <<>>])
      BY DEF ReadsUpTo
    <2> QED BY <2>1
  <1>2. ASSUME NEW m \in Missing
        PROVE  m - 1 \in Missing
    <2>1. m \in Nat /\ m - 1 \in Nat /\ m # 0
      BY <1>1, <1>2
    <2>2. SUFFICES ASSUME NEW upTo, ReadsUpTo(m - 1, upTo)
                   PROVE  FALSE
      BY <2>1
    <2>3. upTo[0] = <<>>
          /\ \A k \in 1 .. m - 1 : upTo[k] = upTo[k - 1] \o Statements(Inventory[k])
      BY <2>1, <2>2, ReadsStep
    <2> DEFINE more == [k \in 0 .. m |->
                          IF k < m THEN upTo[k]
                          ELSE upTo[m - 1] \o Statements(Inventory[m])]
    <2>4. ASSUME NEW k \in 0 .. m
          PROVE  more[k] = IF k = 0 THEN <<>> ELSE more[k - 1] \o Statements(Inventory[k])
      <3>1. CASE k = 0
        BY <2>1, <2>3, <3>1
      <3>2. CASE k # 0 /\ k < m
        <4>1. k \in 1 .. m - 1 /\ k - 1 \in 0 .. m /\ k - 1 < m
          BY <2>1, <3>2
        <4>2. more[k] = upTo[k] /\ more[k - 1] = upTo[k - 1]
          BY <3>2, <4>1
        <4> QED BY <2>3, <3>2, <4>1, <4>2
      <3>3. CASE k = m
        BY <2>1, <3>3
      <3> QED BY <2>1, <3>1, <3>2, <3>3
    <2> HIDE DEF more
    <2>5. more = [k \in 0 .. m |-> more[k]]
      BY DEF more
    <2>6. ReadsUpTo(m, more)
      BY <2>4, <2>5 DEF ReadsUpTo
    <2> QED BY <1>2, <2>6
  <1>3. Missing = {}
    <2>1. SUFFICES ASSUME Missing # {} PROVE FALSE
      OBVIOUS
    <2>2. PICK m \in Missing : \A k \in Missing : m <= k
      BY <2>1, LeastNatural
    <2>3. m - 1 \in Missing
      BY <1>2
    <2> QED BY <2>2, <2>3
  <1> QED BY <1>3

\* An export reads every table there is, and the files.
LEMMA ReadsCover ==
  /\ Reads \in Seq(Words)
  /\ Tables \cup {"files"} \subseteq Range(Reads)
  <1> DEFINE upTo == CHOOSE upTo : ReadsUpTo(14, upTo)
  <1>1. ReadsUpTo(14, upTo)
    BY ReadsExist
  <1>2. Reads = upTo[14]
    BY InventoryIs DEF Reads, ReadsUpTo
  <1> HIDE DEF upTo
  <1>3. upTo[0] = <<>>
        /\ \A k \in 1 .. 14 : upTo[k] = upTo[k - 1] \o Statements(Inventory[k])
    BY <1>1, ReadsStep
  <1> DEFINE HasRead(n) == /\ upTo[n] \in Seq(Words)
                        /\ \A i \in 1 .. n : Range(Statements(Inventory[i])) \subseteq Range(upTo[n])
             Wrong == {n \in Nat : n <= 14 /\ ~HasRead(n)}
  <1>4. HasRead(0)
    BY <1>3, RangeOfNone
  <1>5. ASSUME NEW n \in 1 .. 14, HasRead(n - 1)
        PROVE  HasRead(n)
    <2>1. upTo[n] = upTo[n - 1] \o Statements(Inventory[n])
          /\ Statements(Inventory[n]) \in Seq(Words)
      BY <1>3, StatementsAre DEF StatesItsTables
    <2>2. /\ upTo[n] \in Seq(Words)
          /\ Range(upTo[n]) = Range(upTo[n - 1]) \cup Range(Statements(Inventory[n]))
      <3>1. upTo[n - 1] \in Seq(Words)
        BY <1>5
      <3> QED BY <2>1, <3>1, ConcatProperties, RangeConcatenation
    <2>3. \A i \in 1 .. n : i \in 1 .. n - 1 \/ i = n
      OBVIOUS
    <2> QED BY <1>5, <2>2, <2>3
  <1> HIDE DEF HasRead
  <1>6. Wrong = {}
    <2>1. SUFFICES ASSUME Wrong # {} PROVE FALSE
      OBVIOUS
    <2>2. PICK n \in Wrong : \A k \in Wrong : n <= k
      BY <2>1, LeastNatural
    <2>3. n \in 1 .. 14 /\ n - 1 \in Nat /\ n - 1 <= 14
      BY <1>4
    <2>4. HasRead(n - 1)
      BY <2>2, <2>3
    <2> QED BY <1>5, <2>3, <2>4
  <1>7. HasRead(14)
    BY <1>6
  <1>8. ASSUME NEW t \in Tables
        PROVE  t \in Range(Reads)
    <2>1. PICK c \in Range(Inventory) : t \in Range(c.tables)
      BY DEF Tables
    <2>2. PICK i \in 1 .. 14 : c = Inventory[i]
      BY InventoryIs DEF Range
    <2>3. t \in Range(Statements(Inventory[i]))
      BY <2>1, <2>2, StatementsAre DEF StatesItsTables
    <2> QED BY <1>2, <1>7, <2>3 DEF HasRead
  <1>9. "files" \in Range(Reads)
    BY <1>2, <1>7, StatementsAre DEF HasRead
  <1> QED BY <1>2, <1>7, <1>8, <1>9 DEF HasRead
-----------------------------------------------------------------------------
(* What holds at every step of an export or an erasure *)

Claims ==
  {NoClaim} \cup
  UNION {{[op |-> op, user |-> s.user, email |-> s.email] : op \in {"export", "erase"}} :
         s \in Subjects}

DataTyped ==
  /\ pc \in [Requests -> {"idle", "exporting", "reading_keys", "erasing",
                          "ok", "failed", "killed"}]
  /\ held \subseteq written
  /\ written \subseteq Rows
  /\ claim \in [Requests -> Claims]
  /\ plan \in [Requests -> Seq(Words)]
  /\ blobs \in [Requests -> SUBSET Rows]
  /\ deleted \in [Requests -> SUBSET held]
  /\ copied \in [Requests -> SUBSET Rows]
  /\ begun \in [Requests -> SUBSET written]

\* What a request claims goes with where it stands.
Claimed ==
  \A p \in Requests :
    /\ pc[p] = "idle" => claim[p].op = "none" /\ begun[p] = {} /\ blobs[p] = {}
    /\ pc[p] = "exporting" => claim[p].op = "export"
    /\ pc[p] \in {"reading_keys", "erasing"} =>
         claim[p].op = "erase" /\ Range(plan[p]) \subseteq Range(Erasures)
    /\ pc[p] # "erasing" => deleted[p] = {}

ParentsAreHeld == \A r \in held : r.table \in DOMAIN ChildOf => \E q \in held : IsParent(q, r)

CitedWasWritten == \A r \in written : r.cites # NoOne => \E q \in written : q.id = r.cites

\* A transaction deletes rows of its subject, with their children, and none
\* that another has deleted.
Closed(rows) == \A child \in held : \A row \in rows : IsParent(row, child) => child \in rows

DeletesItsOwn ==
  \A p \in Requests :
    /\ \A r \in deleted[p] : r.table # "files" /\ IsAbout(r, claim[p], deleted[p])
    /\ Closed(deleted[p])
    /\ \A q \in Requests \ {p} : deleted[p] \cap deleted[q] = {}

BlobsAreItsFiles ==
  \A p \in Requests : \A f \in blobs[p] : f.table = "files" /\ f.of = claim[p].user

\* What an erasure has not reached yet is in its plan.
Reached(r, p) ==
  \/ r \notin held \/ r \in deleted[p]
  \/ \E key \in Range(plan[p]) : key \in Erasable /\ Covers(key, r.table)

ErasureGoesOn ==
  \A p \in Requests : pc[p] \in {"reading_keys", "erasing"} =>
    \A r \in begun[p] : IsAbout(r, claim[p], begun[p]) =>
      r.table \in {"files", "consent_decisions"} \/ Reached(r, p)

\* A file keeps its résumé, or is left behind.
FilesKeepTheirRows ==
  \A p \in Requests : \A row \in begun[p] : \A f \in held :
    Names(row, f) => row \in held \/ LeftBehind(f, p)

FilesAreRead ==
  \A p \in Requests : pc[p] = "erasing" =>
    \A row \in begun[p] : \A f \in held :
      Names(row, f) /\ row.of = claim[p].user => f \in blobs[p] \/ LeftBehind(f, p)

ExportGoesOn ==
  \A p \in Requests : pc[p] = "exporting" =>
    \A r \in begun[p] : IsAbout(r, claim[p], begun[p]) =>
      \/ r \notin held \/ r \in copied[p]
      \/ r.table \in Range(plan[p])
      \/ LeftBehind(r, p)

DataInv ==
  /\ DataTyped /\ Claimed /\ ParentsAreHeld /\ CitedWasWritten /\ DeletesItsOwn
  /\ BlobsAreItsFiles /\ ErasureGoesOn /\ FilesKeepTheirRows /\ FilesAreRead
  /\ ExportGoesOn

-----------------------------------------------------------------------------
(* Rows *)

LEMMA ChildTables ==
  /\ \A t \in DOMAIN ChildOf : ChildOf[t] \in {"user_profiles", "tracked_applications"}
  /\ DOMAIN ChildOf \cap {"user_profiles", "tracked_applications", "files", "resumes",
                          "job_applications", "consent_decisions"} = {}
  BY DEF ChildOf

LEMMA ParentIsNoChild ==
  ASSUME NEW q, NEW r, IsParent(q, r)
  PROVE  /\ r.table \in DOMAIN ChildOf /\ q.id = r.of
         /\ q.table \notin DOMAIN ChildOf /\ q.table # "files"
         /\ q.table # "job_applications"
  BY ChildTables DEF IsParent

LEMMA AboutIs ==
  ASSUME NEW r, NEW s, NEW rows
  PROVE  /\ r.table \in DOMAIN ChildOf =>
              (IsAbout(r, s, rows) <=> \E q \in rows : IsParent(q, r) /\ q.of = s.user)
         /\ r.table = "files" =>
              (IsAbout(r, s, rows) <=> \E q \in rows : Names(q, r) /\ q.of = s.user)
         /\ r.table = "job_applications" =>
              (IsAbout(r, s, rows) <=> s.email # NoOne /\ r.of = s.email)
         /\ r.table \notin DOMAIN ChildOf \cup {"files", "job_applications"} =>
              (IsAbout(r, s, rows) <=> r.of = s.user)
  <1>1. "files" \notin DOMAIN ChildOf /\ "job_applications" \notin DOMAIN ChildOf
    BY ChildTables
  <1> DEFINE ofChild == \E q \in rows : IsParent(q, r) /\ q.of = s.user
             ofFile == \E q \in rows : Names(q, r) /\ q.of = s.user
  <1>2. IsAbout(r, s, rows) =
          CASE r.table \in DOMAIN ChildOf -> ofChild
            [] r.table = "files"          -> ofFile
            [] r.table = "job_applications" -> s.email # NoOne /\ r.of = s.email
            [] OTHER                      -> r.of = s.user
    BY DEF IsAbout
  <1> HIDE DEF ofChild, ofFile
  <1>3. /\ r.table \in DOMAIN ChildOf => (IsAbout(r, s, rows) <=> ofChild)
        /\ r.table = "files" => (IsAbout(r, s, rows) <=> ofFile)
        /\ r.table = "job_applications" =>
              (IsAbout(r, s, rows) <=> s.email # NoOne /\ r.of = s.email)
        /\ r.table \notin DOMAIN ChildOf \cup {"files", "job_applications"} =>
              (IsAbout(r, s, rows) <=> r.of = s.user)
    BY <1>1, <1>2
  <1> QED BY <1>3 DEF ofChild, ofFile

LEMMA RowsOfIs ==
  ASSUME NEW s, NEW table
  PROVE  /\ table \in DOMAIN ChildOf =>
              RowsOf(s, table) = {r \in Children({q \in held : q.of = s.user}) : r.table = table}
         /\ table = "job_applications" =>
              RowsOf(s, table) = {r \in held : r.table = table /\ s.email # NoOne
                                               /\ r.of = s.email}
         /\ table \notin DOMAIN ChildOf \cup {"job_applications"} =>
              RowsOf(s, table) = {r \in held : r.table = table /\ r.of = s.user}
  <1>1. "job_applications" \notin DOMAIN ChildOf
    BY ChildTables
  <1> DEFINE ofChildren == {r \in Children({q \in held : q.of = s.user}) : r.table = table}
             ofAddress == {r \in held : r.table = table /\ s.email # NoOne /\ r.of = s.email}
             ofUser == {r \in held : r.table = table /\ r.of = s.user}
  <1>2. RowsOf(s, table) =
          CASE table \in DOMAIN ChildOf -> ofChildren
            [] table = "job_applications" -> ofAddress
            [] OTHER -> ofUser
    BY DEF RowsOf
  <1> HIDE DEF ofChildren, ofAddress, ofUser
  <1>3. /\ table \in DOMAIN ChildOf => RowsOf(s, table) = ofChildren
        /\ table = "job_applications" => RowsOf(s, table) = ofAddress
        /\ table \notin DOMAIN ChildOf \cup {"job_applications"} => RowsOf(s, table) = ofUser
    BY <1>1, <1>2
  <1> QED BY <1>3 DEF ofChildren, ofAddress, ofUser

LEMMA AboutGrows ==
  ASSUME NEW r, NEW s, NEW rows, NEW more, rows \subseteq more, IsAbout(r, s, rows)
  PROVE  IsAbout(r, s, more)
  BY AboutIs

\* What is held of a subject is found by the statement of its table.
LEMMA AboutIsFound ==
  ASSUME NEW r \in held, NEW s, NEW rows, IsAbout(r, s, rows), r.table # "files",
         r.table \in DOMAIN ChildOf => \A q \in rows : IsParent(q, r) => q \in held
  PROVE  r \in RowsOf(s, r.table)
  <1>1. CASE r.table \in DOMAIN ChildOf
    <2>1. PICK q \in rows : IsParent(q, r) /\ q.of = s.user
      BY <1>1, AboutIs
    <2>2. q \in held
      BY <1>1, <2>1
    <2>3. r \in Children({h \in held : h.of = s.user})
      BY <2>1, <2>2 DEF Children
    <2> QED BY <1>1, <2>3, RowsOfIs
  <1>2. CASE r.table = "job_applications"
    BY <1>2, AboutIs, RowsOfIs
  <1>3. CASE r.table \notin DOMAIN ChildOf \cup {"job_applications"}
    BY <1>3, AboutIs, RowsOfIs
  <1> QED BY <1>1, <1>2, <1>3

\* The parent of something held is held.
LEMMA ParentOfHeld ==
  ASSUME DataTyped, ParentsAreHeld, NEW r \in held, NEW q \in written, IsParent(q, r)
  PROVE  q \in held
  <1>1. PICK h \in held : IsParent(h, r)
    BY ParentIsNoChild DEF ParentsAreHeld
  <1>2. h.id = q.id /\ h \in Rows /\ q \in Rows
    BY <1>1 DEF IsParent, DataTyped
  <1>3. h = q
    BY <1>2, RowsAreKeyed
  <1> QED BY <1>3

\* One résumé names a file.
LEMMA NamedByOne ==
  ASSUME NEW row \in Rows, NEW other \in Rows, NEW file, Names(row, file), Names(other, file)
  PROVE  row = other
  BY FilesAreNamedOnce DEF Names

LEMMA FilesOfIsOwn ==
  ASSUME DataTyped, NEW s, NEW f \in FilesOf(s)
  PROVE  f \in Rows /\ f.table = "files" /\ f.of = s.user
  <1>1. /\ f \in held /\ f.table = "files"
        /\ \E r \in RowsOf(s, "resumes") : r.cites = f.id
    BY DEF FilesOf
  <1>2. PICK r \in RowsOf(s, "resumes") : r.cites = f.id
    BY <1>1
  <1>3. r \in held /\ r.table = "resumes" /\ r.of = s.user
    BY RowsOfIs, ChildTables
  <1>4. r \in Rows /\ f \in Rows
    BY <1>1, <1>3 DEF DataTyped
  <1> QED BY <1>1, <1>2, <1>3, <1>4, FilesAreNamedOnce

LEMMA NamedIsFound ==
  ASSUME NEW s, NEW row \in held, NEW f \in held, Names(row, f), row.of = s.user
  PROVE  f \in FilesOf(s)
  <1>1. row \in RowsOf(s, "resumes")
    BY RowsOfIs, ChildTables DEF Names
  <1> QED BY <1>1 DEF FilesOf, Names

LEMMA RootIs ==
  ASSUME NEW key \in Range(Erasures)
  PROVE  /\ Root(key) \notin DOMAIN ChildOf \cup {"files"}
         /\ key \in Erasable
  BY ErasuresAre, ErasableAre DEF Root, ChildOf

\* A statement of an erasure takes the rows of the subject, with their children.
LEMMA TakesItsOwn ==
  ASSUME DataTyped, NEW s, NEW key \in Range(Erasures), NEW rows,
         rows = RowsToErase(s, key)
  PROVE  /\ rows = RowsOf(s, Root(key)) /\ rows \subseteq held
         /\ DeletedWith(rows) \subseteq held
         /\ \A r \in DeletedWith(rows) :
              r.table # "files" /\ IsAbout(r, s, DeletedWith(rows))
         /\ Closed(DeletedWith(rows))
  <1>1. rows = RowsOf(s, Root(key))
    BY RootIs DEF RowsToErase
  <1>2. ASSUME NEW r \in rows
        PROVE  /\ r \in held /\ r.table = Root(key)
               /\ IsAbout(r, s, DeletedWith(rows))
               /\ r.table # "job_applications" => r.of = s.user
    BY <1>1, RootIs, RowsOfIs, AboutIs
  <1>3. ASSUME NEW r \in Children(rows)
        PROVE  /\ r \in held /\ r.table # "files" /\ r.table \in DOMAIN ChildOf
               /\ IsAbout(r, s, DeletedWith(rows))
    <2>1. PICK q \in rows : IsParent(q, r) /\ r \in held
      BY DEF Children
    <2>2. /\ r.table \in DOMAIN ChildOf /\ r.table # "files"
          /\ q.table # "job_applications" /\ q \in DeletedWith(rows)
      BY <2>1, ParentIsNoChild, ChildTables DEF DeletedWith
    <2> QED BY <1>2, <2>1, <2>2, AboutIs
  <1>4. ASSUME NEW child \in held, NEW row \in DeletedWith(rows), IsParent(row, child)
        PROVE  child \in DeletedWith(rows)
    <2>1. row \in rows
      BY <1>3, <1>4, ParentIsNoChild DEF DeletedWith
    <2> QED BY <1>4, <2>1 DEF DeletedWith, Children
  <1>5. \A r \in DeletedWith(rows) : r \in rows \/ r \in Children(rows)
    BY DEF DeletedWith
  <1> QED BY <1>1, <1>2, <1>3, <1>4, <1>5, RootIs DEF Closed

-----------------------------------------------------------------------------
(* Every step *)

LEMMA LeftBehindStays ==
  ASSUME claim' = claim, begun' = begun
  PROVE  \A f : \A p \in Requests : LeftBehind(f, p)' <=> LeftBehind(f, p)
  BY DEF LeftBehind

\* A file that is new has no résumé yet.
LEMMA NewFileIsUnnamed ==
  ASSUME DataTyped, CitedWasWritten, NEW row \in written, NEW f \in Rows, f \notin written
  PROVE  ~Names(row, f)
  <1> SUFFICES ASSUME Names(row, f) PROVE FALSE
    OBVIOUS
  <1>1. row.cites = f.id /\ f.id # NoOne
    BY RowsAreKeyed DEF Names
  <1>2. PICK q \in written : q.id = f.id
    BY <1>1 DEF CitedWasWritten
  <1> QED BY <1>2, RowsAreKeyed DEF DataTyped

LEMMA StoreKeeps ==
  ASSUME DataInv, NEW p \in Requests, NEW r \in Storable, Store(p, r)
  PROVE  DataInv'
  <1>1. /\ pc[p] = "idle" /\ r \notin written /\ NeedsAreMet(r)
        /\ Unlocked(HoldsOnTo(r), p)
        /\ held' = held \cup {r} /\ written' = written \cup {r}
        /\ pc' = [pc EXCEPT ![p] = "ok"]
        /\ claim' = claim /\ plan' = plan /\ blobs' = blobs /\ deleted' = deleted
        /\ copied' = copied /\ begun' = begun
    BY DEF Store, MayStart, Goto, dataLocals
  <1>2. /\ DataTyped /\ Claimed /\ ParentsAreHeld /\ CitedWasWritten /\ DeletesItsOwn
        /\ BlobsAreItsFiles /\ ErasureGoesOn /\ FilesKeepTheirRows /\ FilesAreRead
        /\ ExportGoesOn
    BY DEF DataInv
  <1>3. r \in Rows
    BY DEF Rows
  <1>4. DataTyped'
    BY <1>1, <1>2, <1>3 DEF DataTyped
  <1>5. Claimed'
    BY <1>1, <1>2 DEF Claimed, DataTyped
  <1>6. ParentsAreHeld'
    BY <1>1, <1>2 DEF ParentsAreHeld, NeedsAreMet
  <1>7. CitedWasWritten'
    BY <1>1, <1>2 DEF CitedWasWritten, NeedsAreMet, DataTyped
  <1>8. DeletesItsOwn'
    <2>1. ASSUME NEW q \in Requests, NEW row \in deleted[q], IsParent(row, r)
          PROVE  FALSE
      <3>1. row \in HoldsOnTo(r)
        BY <1>2, <2>1 DEF HoldsOnTo, DataTyped
      <3>2. q = p
        BY <1>1, <2>1, <3>1 DEF Unlocked
      <3> QED BY <1>1, <1>2, <2>1, <3>2 DEF Claimed
    <2>2. ASSUME NEW q \in Requests
          PROVE  Closed(deleted[q])'
      BY <1>1, <1>2, <2>1 DEF Closed, DeletesItsOwn
    <2> QED BY <1>1, <1>2, <2>2 DEF DeletesItsOwn
  <1>9. BlobsAreItsFiles'
    BY <1>1, <1>2 DEF BlobsAreItsFiles
  <1>10. ASSUME NEW q \in Requests
         PROVE  begun[q] \subseteq written /\ r \notin begun[q]
    BY <1>1, <1>2 DEF DataTyped
  <1>11. ASSUME NEW q \in Requests, pc'[q] \notin {"idle", "ok"}
         PROVE  q # p /\ pc'[q] = pc[q]
    BY <1>1, <1>2, <1>11 DEF DataTyped
  <1>12. ErasureGoesOn'
    <2> SUFFICES ASSUME NEW q \in Requests, pc'[q] \in {"reading_keys", "erasing"},
                        NEW b \in begun[q], IsAbout(b, claim[q], begun[q]),
                        b.table \notin {"files", "consent_decisions"}
                 PROVE  Reached(b, q)'
      BY <1>1 DEF ErasureGoesOn
    <2>1. Reached(b, q)
      BY <1>2, <1>11 DEF ErasureGoesOn
    <2> QED BY <1>1, <1>10, <2>1 DEF Reached
  <1>13. ASSUME NEW q \in Requests, NEW row \in begun[q], NEW f \in held', Names(row, f)
         PROVE  f \in held
    BY <1>1, <1>2, <1>3, <1>10, <1>13, NewFileIsUnnamed
  <1>14. FilesKeepTheirRows'
    BY <1>1, <1>2, <1>13, LeftBehindStays DEF FilesKeepTheirRows
  <1>15. FilesAreRead'
    BY <1>1, <1>2, <1>11, <1>13, LeftBehindStays DEF FilesAreRead
  <1>16. ExportGoesOn'
    <2> SUFFICES ASSUME NEW q \in Requests, pc'[q] = "exporting",
                        NEW b \in begun[q], IsAbout(b, claim[q], begun[q])
                 PROVE  \/ b \notin held' \/ b \in copied[q]
                        \/ b.table \in Range(plan[q])
                        \/ LeftBehind(b, q)'
      BY <1>1 DEF ExportGoesOn
    <2> QED BY <1>1, <1>2, <1>10, <1>11, LeftBehindStays DEF ExportGoesOn
  <1> QED BY <1>4, <1>5, <1>6, <1>7, <1>8, <1>9, <1>12, <1>14, <1>15, <1>16 DEF DataInv

\* A request begins with everything that is held still to do.
LEMMA AskKeeps ==
  ASSUME DataInv, NEW p \in Requests, NEW op, NEW s \in Subjects, NEW statements, NEW label,
         Ask(p, op, s, statements, label),
         \/ op = "export" /\ statements = Reads /\ label = "exporting"
         \/ op = "erase" /\ statements = Erasures /\ label = "reading_keys",
         UNCHANGED <<held, written, blobs, deleted, copied>>
  PROVE  DataInv'
  <1>1. /\ pc[p] = "idle" /\ pc' = [pc EXCEPT ![p] = label]
        /\ claim' = [claim EXCEPT ![p] = [op |-> op, user |-> s.user, email |-> s.email]]
        /\ plan' = [plan EXCEPT ![p] = statements]
        /\ begun' = [begun EXCEPT ![p] = held]
        /\ held' = held /\ written' = written /\ blobs' = blobs /\ deleted' = deleted
        /\ copied' = copied
    BY DEF Ask, MayStart, Goto
  <1>2. /\ DataTyped /\ Claimed /\ ParentsAreHeld /\ CitedWasWritten /\ DeletesItsOwn
        /\ BlobsAreItsFiles /\ ErasureGoesOn /\ FilesKeepTheirRows /\ FilesAreRead
        /\ ExportGoesOn
    BY DEF DataInv
  <1> DEFINE claimed == [op |-> op, user |-> s.user, email |-> s.email]
  <1>3. claimed \in Claims /\ claimed.op = op
    BY DEF Claims
  <1> HIDE DEF claimed
  <1>4. statements \in Seq(Words) /\ label \in {"exporting", "reading_keys"}
    BY ErasuresAre, ReadsCover
  <1>5. DataTyped'
    BY <1>1, <1>2, <1>3, <1>4 DEF DataTyped, claimed
  <1>6. /\ pc'[p] = label /\ claim'[p] = claimed /\ plan'[p] = statements /\ begun'[p] = held
        /\ \A q \in Requests \ {p} :
             pc'[q] = pc[q] /\ claim'[q] = claim[q] /\ plan'[q] = plan[q] /\ begun'[q] = begun[q]
    BY <1>1, <1>2 DEF DataTyped, claimed
  <1>7. claim[p].op = "none" /\ begun[p] = {} /\ deleted[p] = {} /\ blobs[p] = {}
    BY <1>1, <1>2 DEF Claimed
  <1>8. Claimed'
    BY <1>1, <1>2, <1>3, <1>4, <1>6, <1>7 DEF Claimed
  <1>9. ParentsAreHeld' /\ CitedWasWritten'
    BY <1>1, <1>2 DEF ParentsAreHeld, CitedWasWritten
  <1>10. DeletesItsOwn'
    BY <1>1, <1>2, <1>6, <1>7 DEF DeletesItsOwn, Closed
  <1>11. BlobsAreItsFiles'
    BY <1>1, <1>2, <1>6, <1>7 DEF BlobsAreItsFiles
  <1>12. ErasureGoesOn'
    <2> SUFFICES ASSUME NEW q \in Requests, pc'[q] \in {"reading_keys", "erasing"},
                        NEW b \in begun'[q], IsAbout(b, claim'[q], begun'[q]),
                        b.table \notin {"files", "consent_decisions"}
                 PROVE  Reached(b, q)'
      BY DEF ErasureGoesOn
    <2>1. CASE q = p
      <3>1. statements = Erasures /\ b \in held
        BY <1>6, <2>1
      <3>2. b.table \in Tables
        BY <1>2, <3>1, RowsAreOfTheSchema DEF DataTyped
      <3> QED BY <1>6, <2>1, <3>1, <3>2, ErasuresCover DEF Reached
    <2>2. CASE q # p
      BY <1>1, <1>2, <1>6, <2>2 DEF ErasureGoesOn, Reached
    <2> QED BY <2>1, <2>2
  <1>13. ASSUME NEW f, NEW q \in Requests \ {p}, LeftBehind(f, q)
         PROVE  LeftBehind(f, q)'
    <2>1. PICK e \in Requests : /\ claim[e].op = "erase"
                                /\ \E row \in begun[q] \ begun[e] : Names(row, f)
      BY <1>13 DEF LeftBehind
    <2>2. e # p
      BY <1>7, <2>1
    <2> QED BY <1>6, <2>1, <2>2 DEF LeftBehind
  <1>14. FilesKeepTheirRows'
    <2> SUFFICES ASSUME NEW q \in Requests, NEW row \in begun'[q], NEW f \in held,
                        Names(row, f)
                 PROVE  row \in held \/ LeftBehind(f, q)'
      BY <1>1 DEF FilesKeepTheirRows
    <2> QED BY <1>2, <1>6, <1>13 DEF FilesKeepTheirRows
  <1>15. FilesAreRead'
    <2> SUFFICES ASSUME NEW q \in Requests, pc'[q] = "erasing", NEW row \in begun'[q],
                        NEW f \in held, Names(row, f), row.of = (claim'[q]).user
                 PROVE  f \in blobs[q] \/ LeftBehind(f, q)'
      BY <1>1 DEF FilesAreRead
    <2>1. q # p
      BY <1>4, <1>6
    <2> QED BY <1>2, <1>6, <1>13, <2>1 DEF FilesAreRead
  <1>16. ExportGoesOn'
    <2> SUFFICES ASSUME NEW q \in Requests, pc'[q] = "exporting",
                        NEW b \in begun'[q], IsAbout(b, claim'[q], begun'[q])
                 PROVE  \/ b \notin held \/ b \in copied[q]
                        \/ b.table \in Range(plan'[q])
                        \/ LeftBehind(b, q)'
      BY <1>1 DEF ExportGoesOn
    <2>1. CASE q = p
      <3>1. statements = Reads /\ b \in held
        BY <1>6, <2>1
      <3>2. b.table \in Tables \cup {"files"}
        BY <1>2, <3>1, RowsAreOfTheSchema DEF DataTyped
      <3> QED BY <1>6, <2>1, <3>1, <3>2, ReadsCover
    <2>2. CASE q # p
      BY <1>2, <1>6, <1>13, <2>2 DEF ExportGoesOn
    <2> QED BY <2>1, <2>2
  <1> QED BY <1>5, <1>8, <1>9, <1>10, <1>11, <1>12, <1>14, <1>15, <1>16 DEF DataInv

\* What the next two steps have in common: a request ends, with nothing in
\* its transaction and nothing it has done undone.
LEMMA EndKeeps ==
  ASSUME DataInv, NEW p \in Requests, NEW label \in {"ok", "failed", "killed"},
         pc' = [pc EXCEPT ![p] = label], deleted' = [deleted EXCEPT ![p] = {}],
         held' = held, written' = written, claim' = claim, plan' = plan, blobs' = blobs,
         copied' = copied, begun' = begun
  PROVE  DataInv'
  <1>2. /\ DataTyped /\ Claimed /\ ParentsAreHeld /\ CitedWasWritten /\ DeletesItsOwn
        /\ BlobsAreItsFiles /\ ErasureGoesOn /\ FilesKeepTheirRows /\ FilesAreRead
        /\ ExportGoesOn
    BY DEF DataInv
  <1>3. /\ pc'[p] = label /\ deleted'[p] = {}
        /\ \A q \in Requests \ {p} : pc'[q] = pc[q] /\ deleted'[q] = deleted[q]
    BY <1>2 DEF DataTyped
  <1>4. DataTyped'
    BY <1>2 DEF DataTyped
  <1>5. Claimed'
    BY <1>2, <1>3 DEF Claimed
  <1>6. ParentsAreHeld' /\ CitedWasWritten' /\ BlobsAreItsFiles'
    BY <1>2 DEF ParentsAreHeld, CitedWasWritten, BlobsAreItsFiles
  <1>7. DeletesItsOwn'
    BY <1>2, <1>3 DEF DeletesItsOwn, Closed
  <1>8. ErasureGoesOn'
    BY <1>2, <1>3 DEF ErasureGoesOn, Reached
  <1>9. FilesKeepTheirRows'
    BY <1>2, LeftBehindStays DEF FilesKeepTheirRows
  <1>10. FilesAreRead'
    BY <1>2, <1>3, LeftBehindStays DEF FilesAreRead
  <1>11. ExportGoesOn'
    BY <1>2, <1>3, LeftBehindStays DEF ExportGoesOn
  <1> QED BY <1>4, <1>5, <1>6, <1>7, <1>8, <1>9, <1>10, <1>11 DEF DataInv

\* What a request's statement leaves: the head of its plan is done.
LEMMA PlanGoesOn ==
  ASSUME NEW S, NEW s \in Seq(S), s # <<>>
  PROVE  /\ Tail(s) \in Seq(S) /\ Head(s) \in Range(s)
         /\ Range(s) = {Head(s)} \cup Range(Tail(s))
  <1>1. /\ Len(s) \in Nat /\ Len(s) # 0 /\ Head(s) = s[1]
        /\ DOMAIN s = 1 .. Len(s)
        /\ Tail(s) \in Seq(S) /\ Len(Tail(s)) = Len(s) - 1
        /\ \A i \in 1 .. Len(s) - 1 : Tail(s)[i] = s[i + 1]
    OBVIOUS
  <1>2. DOMAIN Tail(s) = 1 .. Len(s) - 1
    BY <1>1
  <1>3. ASSUME NEW i \in DOMAIN s, i # 1
        PROVE  s[i] \in Range(Tail(s))
    <2>1. i - 1 \in 1 .. Len(s) - 1 /\ (i - 1) + 1 = i
      BY <1>1, <1>3
    <2> QED BY <1>1, <1>2, <2>1 DEF Range
  <1>4. ASSUME NEW i \in DOMAIN Tail(s)
        PROVE  Tail(s)[i] \in Range(s)
    <2>1. i + 1 \in DOMAIN s
      BY <1>1, <1>2
    <2> QED BY <1>1, <1>2, <2>1 DEF Range
  <1>5. 1 \in DOMAIN s
    BY <1>1
  <1> QED BY <1>1, <1>3, <1>4, <1>5 DEF Range

\* What was held of the subject when the request began, and still is, is
\* where the request looks.
LEMMA BegunIsFound ==
  ASSUME DataInv, NEW p \in Requests, NEW r \in begun[p], r \in held,
         IsAbout(r, claim[p], begun[p]), ~LeftBehind(r, p)
  PROVE  /\ r.table # "files" => r \in RowsOf(claim[p], r.table)
         /\ r.table = "files" => r \in FilesOf(claim[p])
  <1>1. DataTyped /\ ParentsAreHeld /\ FilesKeepTheirRows
    BY DEF DataInv
  <1>2. begun[p] \subseteq written
    BY <1>1 DEF DataTyped
  <1>3. CASE r.table # "files"
    <2>1. \A q \in begun[p] : IsParent(q, r) => q \in held
      BY <1>1, <1>2, ParentOfHeld
    <2> QED BY <1>3, <2>1, AboutIsFound
  <1>4. CASE r.table = "files"
    <2>1. PICK row \in begun[p] : Names(row, r) /\ row.of = (claim[p]).user
      BY <1>4, AboutIs
    <2>2. row \in held
      BY <1>1, <2>1 DEF FilesKeepTheirRows
    <2> QED BY <1>4, <2>1, <2>2, NamedIsFound
  <1> QED BY <1>3, <1>4

LEMMA ReadTableKeeps ==
  ASSUME DataInv, NEW p \in Requests, ReadTable(p)
  PROVE  DataInv'
  <1> DEFINE table == Head(plan[p])
             found == IF table = "files" THEN FilesOf(claim[p]) ELSE RowsOf(claim[p], table)
  <1>1. /\ pc[p] = "exporting" /\ plan[p] # <<>>
        /\ copied' = [copied EXCEPT ![p] = copied[p] \cup found]
        /\ plan' = [plan EXCEPT ![p] = Tail(plan[p])]
        /\ pc' = pc /\ held' = held /\ written' = written /\ claim' = claim
        /\ blobs' = blobs /\ deleted' = deleted /\ begun' = begun
    BY DEF ReadTable, serving
  <1>2. /\ DataTyped /\ Claimed /\ ParentsAreHeld /\ CitedWasWritten /\ DeletesItsOwn
        /\ BlobsAreItsFiles /\ ErasureGoesOn /\ FilesKeepTheirRows /\ FilesAreRead
        /\ ExportGoesOn
    BY DEF DataInv
  <1>3. /\ plan[p] \in Seq(Words) /\ Tail(plan[p]) \in Seq(Words)
        /\ Range(plan[p]) = {table} \cup Range(Tail(plan[p]))
    BY <1>1, <1>2, PlanGoesOn DEF DataTyped
  <1>4. found \subseteq Rows
    <2>1. \A t : RowsOf(claim[p], t) \subseteq held
      BY RowsOfIs DEF Children
    <2> QED BY <1>2, <2>1, FilesOfIsOwn DEF DataTyped
  <1>5. /\ plan'[p] = Tail(plan[p]) /\ copied'[p] = copied[p] \cup found
        /\ \A q \in Requests \ {p} : plan'[q] = plan[q] /\ copied'[q] = copied[q]
    BY <1>1, <1>2 DEF DataTyped
  <1>6. \A r \in begun[p] \cap held :
          IsAbout(r, claim[p], begun[p]) /\ r.table = table =>
            r \in found \/ LeftBehind(r, p)
    BY BegunIsFound
  <1> HIDE DEF table, found
  <1>7. DataTyped'
    BY <1>1, <1>2, <1>3, <1>4 DEF DataTyped
  <1>8. Claimed'
    BY <1>1, <1>2, <1>5 DEF Claimed
  <1>9. ParentsAreHeld' /\ CitedWasWritten' /\ BlobsAreItsFiles'
    BY <1>1, <1>2 DEF ParentsAreHeld, CitedWasWritten, BlobsAreItsFiles
  <1>10. DeletesItsOwn'
    BY <1>1, <1>2 DEF DeletesItsOwn, Closed
  <1>11. ErasureGoesOn'
    <2>1. \A q \in Requests : pc[q] # "exporting" => plan'[q] = plan[q]
      BY <1>1, <1>5
    <2> QED BY <1>1, <1>2, <2>1 DEF ErasureGoesOn, Reached
  <1>12. FilesKeepTheirRows' /\ FilesAreRead'
    BY <1>1, <1>2, LeftBehindStays DEF FilesKeepTheirRows, FilesAreRead
  <1>13. ExportGoesOn'
    <2> SUFFICES ASSUME NEW q \in Requests, pc[q] = "exporting",
                        NEW b \in begun[q], IsAbout(b, claim[q], begun[q]), b \in held,
                        ~LeftBehind(b, q)
                 PROVE  b \in copied'[q] \/ b.table \in Range(plan'[q])
      BY <1>1, LeftBehindStays DEF ExportGoesOn
    <2>1. b \in copied[q] \/ b.table \in Range(plan[q])
      BY <1>2 DEF ExportGoesOn
    <2> QED BY <1>3, <1>5, <1>6, <2>1
  <1> QED BY <1>7, <1>8, <1>9, <1>10, <1>11, <1>12, <1>13 DEF DataInv

LEMMA ReadFileKeysKeeps ==
  ASSUME DataInv, NEW p \in Requests, ReadFileKeys(p)
  PROVE  DataInv'
  <1>1. /\ pc[p] = "reading_keys" /\ pc' = [pc EXCEPT ![p] = "erasing"]
        /\ blobs' = [blobs EXCEPT ![p] = FilesOf(claim[p])]
        /\ held' = held /\ written' = written /\ claim' = claim /\ plan' = plan
        /\ deleted' = deleted /\ copied' = copied /\ begun' = begun
    BY DEF ReadFileKeys, Goto
  <1>2. /\ DataTyped /\ Claimed /\ ParentsAreHeld /\ CitedWasWritten /\ DeletesItsOwn
        /\ BlobsAreItsFiles /\ ErasureGoesOn /\ FilesKeepTheirRows /\ FilesAreRead
        /\ ExportGoesOn
    BY DEF DataInv
  <1>3. \A f \in FilesOf(claim[p]) : f \in Rows /\ f.table = "files" /\ f.of = (claim[p]).user
    BY <1>2, FilesOfIsOwn
  <1>4. /\ pc'[p] = "erasing" /\ blobs'[p] = FilesOf(claim[p])
        /\ \A q \in Requests \ {p} : pc'[q] = pc[q] /\ blobs'[q] = blobs[q]
    BY <1>1, <1>2 DEF DataTyped
  <1>5. DataTyped'
    BY <1>1, <1>2, <1>3 DEF DataTyped
  <1>6. Claimed'
    BY <1>1, <1>2, <1>4 DEF Claimed
  <1>7. ParentsAreHeld' /\ CitedWasWritten'
    BY <1>1, <1>2 DEF ParentsAreHeld, CitedWasWritten
  <1>8. BlobsAreItsFiles'
    BY <1>1, <1>2, <1>3, <1>4 DEF BlobsAreItsFiles
  <1>9. DeletesItsOwn'
    BY <1>1, <1>2 DEF DeletesItsOwn, Closed
  <1>10. ErasureGoesOn'
    BY <1>1, <1>2, <1>4 DEF ErasureGoesOn, Reached
  <1>11. FilesKeepTheirRows'
    BY <1>1, <1>2, LeftBehindStays DEF FilesKeepTheirRows
  <1>12. FilesAreRead'
    <2> SUFFICES ASSUME NEW q \in Requests, pc'[q] = "erasing", NEW row \in begun[q],
                        NEW f \in held, Names(row, f), row.of = (claim[q]).user
                 PROVE  f \in blobs'[q] \/ LeftBehind(f, q)
      BY <1>1, LeftBehindStays DEF FilesAreRead
    <2>1. CASE q = p
      BY <1>2, <1>4, <2>1, NamedIsFound DEF FilesKeepTheirRows
    <2>2. CASE q # p
      BY <1>2, <1>4, <2>2 DEF FilesAreRead
    <2> QED BY <2>1, <2>2
  <1>13. ExportGoesOn'
    BY <1>1, <1>2, <1>4, LeftBehindStays DEF ExportGoesOn
  <1> QED BY <1>5, <1>6, <1>7, <1>8, <1>9, <1>10, <1>11, <1>12, <1>13 DEF DataInv

LEMMA DeleteStoredFileKeeps ==
  ASSUME DataInv, NEW p \in Requests, DeleteStoredFile(p)
  PROVE  DataInv'
  <1>1. PICK f \in blobs[p] : /\ held' = held \ {f}
                              /\ blobs' = [blobs EXCEPT ![p] = blobs[p] \ {f}]
    BY DEF DeleteStoredFile
  <1>2. /\ DataTyped /\ Claimed /\ ParentsAreHeld /\ CitedWasWritten /\ DeletesItsOwn
        /\ BlobsAreItsFiles /\ ErasureGoesOn /\ FilesKeepTheirRows /\ FilesAreRead
        /\ ExportGoesOn
    BY DEF DataInv
  <1>3. /\ pc[p] = "erasing" /\ pc' = pc /\ written' = written /\ claim' = claim
        /\ plan' = plan /\ deleted' = deleted /\ copied' = copied /\ begun' = begun
    BY DEF DeleteStoredFile, serving
  <1>4. f.table = "files"
    BY <1>2 DEF BlobsAreItsFiles
  <1>5. \A q \in Requests : f \notin deleted[q]
    BY <1>2, <1>4 DEF DeletesItsOwn
  <1>6. /\ blobs'[p] = blobs[p] \ {f}
        /\ \A q \in Requests \ {p} : blobs'[q] = blobs[q]
    BY <1>1, <1>2 DEF DataTyped
  <1>7. DataTyped'
    <2>1. \A q \in Requests : deleted[q] \subseteq held'
      BY <1>1, <1>2, <1>5 DEF DataTyped
    <2>2. deleted \in [Requests -> SUBSET held']
      BY <1>2, <2>1 DEF DataTyped
    <2> QED BY <1>1, <1>2, <1>3, <2>2 DEF DataTyped
  <1>8. Claimed'
    BY <1>2, <1>3, <1>6 DEF Claimed
  <1>9. ParentsAreHeld'
    <2> SUFFICES ASSUME NEW r \in held', r.table \in DOMAIN ChildOf
                 PROVE  \E q \in held' : IsParent(q, r)
      BY DEF ParentsAreHeld
    <2>1. PICK q \in held : IsParent(q, r)
      BY <1>1, <1>2 DEF ParentsAreHeld
    <2>2. q # f
      BY <1>4, <2>1, ParentIsNoChild
    <2> QED BY <1>1, <2>1, <2>2
  <1>10. CitedWasWritten'
    BY <1>2, <1>3 DEF CitedWasWritten
  <1>11. DeletesItsOwn'
    BY <1>1, <1>2, <1>3 DEF DeletesItsOwn, Closed
  <1>12. BlobsAreItsFiles'
    BY <1>2, <1>3, <1>6 DEF BlobsAreItsFiles
  <1>13. ErasureGoesOn'
    BY <1>1, <1>2, <1>3 DEF ErasureGoesOn, Reached
  <1>14. FilesKeepTheirRows'
    BY <1>1, <1>2, <1>3, <1>4, LeftBehindStays DEF FilesKeepTheirRows, Names
  <1>15. FilesAreRead'
    BY <1>1, <1>2, <1>3, <1>6, LeftBehindStays DEF FilesAreRead
  <1>16. ExportGoesOn'
    BY <1>1, <1>2, <1>3, LeftBehindStays DEF ExportGoesOn
  <1> QED BY <1>7, <1>8, <1>9, <1>10, <1>11, <1>12, <1>13, <1>14, <1>15, <1>16 DEF DataInv

LEMMA DeleteRowsKeeps ==
  ASSUME DataInv, NEW p \in Requests, DeleteRows(p)
  PROVE  DataInv'
  <1> DEFINE key == Head(plan[p])
             rows == RowsToErase(claim[p], key)
             going == deleted[p] \cup DeletedWith(rows)
             cited == {r \in held \ going : \E row \in rows : r.cites = row.id}
  <1>1. /\ pc[p] = "erasing" /\ plan[p] # <<>> /\ Unlocked(DeletedWith(rows), p)
        /\ held' = held /\ written' = written /\ claim' = claim
        /\ blobs' = blobs /\ copied' = copied /\ begun' = begun
        /\ \/ /\ deleted' = [deleted EXCEPT ![p] = going]
              /\ plan' = [plan EXCEPT ![p] = Tail(plan[p])]
              /\ pc' = pc
           \/ /\ deleted' = [deleted EXCEPT ![p] = {}]
              /\ pc' = [pc EXCEPT ![p] = "failed"]
              /\ plan' = plan
    <2>1. CASE cited = {}
      BY <2>1 DEF DeleteRows, serving
    <2>2. CASE cited # {}
      BY <2>2 DEF DeleteRows, Goto
    <2> QED BY <2>1, <2>2
  <1>2. /\ DataTyped /\ Claimed /\ ParentsAreHeld /\ CitedWasWritten /\ DeletesItsOwn
        /\ BlobsAreItsFiles /\ ErasureGoesOn /\ FilesKeepTheirRows /\ FilesAreRead
        /\ ExportGoesOn
    BY DEF DataInv
  <1>3. /\ Tail(plan[p]) \in Seq(Words) /\ key \in Range(plan[p])
        /\ Range(plan[p]) = {key} \cup Range(Tail(plan[p]))
    BY <1>1, <1>2, PlanGoesOn DEF DataTyped
  <1>4. key \in Range(Erasures)
    BY <1>1, <1>2, <1>3 DEF Claimed
  <1>5. /\ rows = RowsOf(claim[p], Root(key)) /\ rows \subseteq held
        /\ DeletedWith(rows) \subseteq held
        /\ \A r \in DeletedWith(rows) :
             r.table # "files" /\ IsAbout(r, claim[p], DeletedWith(rows))
        /\ Closed(DeletedWith(rows))
    BY <1>2, <1>4, TakesItsOwn
  <1>6. ASSUME NEW b \in begun[p], b \in held, IsAbout(b, claim[p], begun[p]),
               b.table # "files", Covers(key, b.table)
        PROVE  b \in going
    <2>1. begun[p] \subseteq written
      BY <1>2 DEF DataTyped
    <2>2. \A q \in begun[p] : IsParent(q, b) => q \in held
      BY <1>2, <1>6, <2>1, ParentOfHeld
    <2>3. CASE b.table = Root(key)
      BY <1>5, <1>6, <2>2, <2>3, AboutIsFound DEF DeletedWith
    <2>4. CASE b.table \in DOMAIN ChildOf /\ ChildOf[b.table] = Root(key)
      <3>1. PICK q \in begun[p] : IsParent(q, b) /\ q.of = (claim[p]).user
        BY <1>6, <2>4, AboutIs
      <3>2. q \in held /\ q.table = Root(key) /\ Root(key) # "job_applications"
        BY <2>2, <2>4, <3>1, ParentIsNoChild DEF IsParent
      <3>3. q \in rows
        BY <1>4, <1>5, <3>1, <3>2, RootIs, RowsOfIs
      <3> QED BY <1>6, <3>1, <3>3 DEF DeletedWith, Children
    <2> QED BY <1>6, <2>3, <2>4 DEF Covers
  <1> HIDE DEF key, rows, cited
  <1>7. CASE /\ deleted' = [deleted EXCEPT ![p] = {}]
             /\ pc' = [pc EXCEPT ![p] = "failed"]
             /\ plan' = plan
    BY <1>1, <1>7, EndKeeps
  <1>8. CASE /\ deleted' = [deleted EXCEPT ![p] = going]
             /\ plan' = [plan EXCEPT ![p] = Tail(plan[p])]
             /\ pc' = pc
    <2>1. /\ deleted'[p] = going /\ plan'[p] = Tail(plan[p])
          /\ \A q \in Requests \ {p} : deleted'[q] = deleted[q] /\ plan'[q] = plan[q]
      BY <1>2, <1>8 DEF DataTyped
    <2>2. going \subseteq held
      BY <1>2, <1>5 DEF DataTyped
    <2>3. DataTyped'
      BY <1>1, <1>2, <1>3, <1>8, <2>2 DEF DataTyped
    <2>4. Claimed'
      BY <1>1, <1>2, <1>3, <1>8, <2>1 DEF Claimed
    <2>5. ParentsAreHeld' /\ CitedWasWritten' /\ BlobsAreItsFiles'
      BY <1>1, <1>2 DEF ParentsAreHeld, CitedWasWritten, BlobsAreItsFiles
    <2>6. DeletesItsOwn'
      <3>1. \A r \in going : r.table # "files" /\ IsAbout(r, claim[p], going)
        BY <1>2, <1>5, AboutGrows DEF DeletesItsOwn
      <3>2. Closed(going)
        BY <1>2, <1>5 DEF DeletesItsOwn, Closed
      <3>3. \A q \in Requests \ {p} : going \cap deleted[q] = {}
        BY <1>1, <1>2 DEF DeletesItsOwn, Unlocked
      <3> HIDE DEF going
      <3> QED BY <1>1, <1>2, <2>1, <3>1, <3>2, <3>3 DEF DeletesItsOwn, Closed
    <2>7. ErasureGoesOn'
      <3> SUFFICES ASSUME NEW q \in Requests, pc[q] \in {"reading_keys", "erasing"},
                          NEW b \in begun[q], IsAbout(b, claim[q], begun[q]),
                          b.table \notin {"files", "consent_decisions"}
                   PROVE  Reached(b, q)'
        BY <1>1, <1>8 DEF ErasureGoesOn
      <3>1. Reached(b, q)
        BY <1>2 DEF ErasureGoesOn
      <3>2. CASE q # p
        BY <1>1, <2>1, <3>1, <3>2 DEF Reached
      <3>3. CASE q = p
        <4>1. CASE b \notin held \/ b \in deleted[p]
          BY <1>1, <2>1, <3>3, <4>1 DEF Reached
        <4>2. CASE b \in held /\ Covers(key, b.table)
          BY <1>6, <2>1, <3>3, <4>2 DEF Reached
        <4>3. CASE \E k \in Range(Tail(plan[p])) : k \in Erasable /\ Covers(k, b.table)
          BY <2>1, <3>3, <4>3 DEF Reached
        <4> QED BY <1>3, <3>1, <3>3, <4>1, <4>2, <4>3 DEF Reached
      <3> QED BY <3>2, <3>3
    <2>8. FilesKeepTheirRows' /\ FilesAreRead'
      BY <1>1, <1>2, <1>8, LeftBehindStays DEF FilesKeepTheirRows, FilesAreRead
    <2>9. ExportGoesOn'
      <3>1. \A q \in Requests : pc[q] = "exporting" => plan'[q] = plan[q]
        BY <1>1, <2>1
      <3> QED BY <1>1, <1>2, <1>8, <3>1, LeftBehindStays DEF ExportGoesOn
    <2> QED BY <2>3, <2>4, <2>5, <2>6, <2>7, <2>8, <2>9 DEF DataInv
  <1> QED BY <1>1, <1>7, <1>8

\* The row of a file goes with the file, unless the file is left behind.
LEMMA CommitKeeps ==
  ASSUME DataInv, NEW p \in Requests, CommitErasure(p)
  PROVE  DataInv'
  <1>1. PICK label \in {"ok", "failed"} : pc' = [pc EXCEPT ![p] = label]
    BY DEF CommitErasure, Goto
  <1>2. /\ pc[p] = "erasing" /\ blobs[p] = {}
        /\ held' = held \ deleted[p] /\ deleted' = [deleted EXCEPT ![p] = {}]
        /\ written' = written /\ claim' = claim /\ plan' = plan /\ blobs' = blobs
        /\ copied' = copied /\ begun' = begun
    BY DEF CommitErasure
  <1>3. /\ DataTyped /\ Claimed /\ ParentsAreHeld /\ CitedWasWritten /\ DeletesItsOwn
        /\ BlobsAreItsFiles /\ ErasureGoesOn /\ FilesKeepTheirRows /\ FilesAreRead
        /\ ExportGoesOn
    BY DEF DataInv
  <1>4. /\ pc'[p] = label /\ deleted'[p] = {}
        /\ \A q \in Requests \ {p} : pc'[q] = pc[q] /\ deleted'[q] = deleted[q]
    BY <1>1, <1>2, <1>3 DEF DataTyped
  <1>5. DataTyped'
    <2>1. \A q \in Requests : deleted'[q] \subseteq held'
      BY <1>2, <1>3, <1>4 DEF DataTyped, DeletesItsOwn
    <2>2. deleted' \in [Requests -> SUBSET held']
      BY <1>2, <1>3, <2>1 DEF DataTyped
    <2> QED BY <1>1, <1>2, <1>3, <2>2 DEF DataTyped
  <1>6. Claimed'
    BY <1>2, <1>3, <1>4 DEF Claimed
  <1>7. ParentsAreHeld'
    BY <1>2, <1>3 DEF ParentsAreHeld, DeletesItsOwn, Closed
  <1>8. CitedWasWritten' /\ BlobsAreItsFiles'
    BY <1>2, <1>3 DEF CitedWasWritten, BlobsAreItsFiles
  <1>9. DeletesItsOwn'
    BY <1>2, <1>3, <1>4 DEF DeletesItsOwn, Closed
  <1>10. ErasureGoesOn'
    BY <1>2, <1>3, <1>4 DEF ErasureGoesOn, Reached
  <1>11. FilesKeepTheirRows'
    <2> SUFFICES ASSUME NEW q \in Requests, NEW row \in begun[q], NEW f \in held,
                        Names(row, f), row \in deleted[p]
                 PROVE  LeftBehind(f, q)
      BY <1>2, <1>3, LeftBehindStays DEF FilesKeepTheirRows
    <2>1. row.table = "resumes" /\ row.of = (claim[p]).user /\ (claim[p]).op = "erase"
      <3>1. row.table = "resumes" /\ IsAbout(row, claim[p], deleted[p])
        BY <1>3 DEF DeletesItsOwn, Names
      <3>2. (claim[p]).op = "erase"
        BY <1>2, <1>3 DEF Claimed
      <3> QED BY <3>1, <3>2, AboutIs, ChildTables
    <2>2. CASE row \notin begun[p]
      BY <2>1, <2>2 DEF LeftBehind
    <2>3. CASE row \in begun[p]
      <3>1. LeftBehind(f, p)
        BY <1>2, <1>3, <2>1, <2>3 DEF FilesAreRead
      <3>2. PICK e \in Requests : /\ claim[e].op = "erase"
                                  /\ \E other \in begun[p] \ begun[e] : Names(other, f)
        BY <3>1 DEF LeftBehind
      <3>3. PICK other \in begun[p] \ begun[e] : Names(other, f)
        BY <3>2
      <3>4. row \in Rows /\ other \in Rows
        BY <1>3, <2>3, <3>3 DEF DataTyped
      <3>5. other = row
        BY <3>3, <3>4, NamedByOne
      <3> QED BY <3>2, <3>3, <3>5 DEF LeftBehind
    <2> QED BY <2>2, <2>3
  <1>12. FilesAreRead'
    BY <1>2, <1>3, <1>4, LeftBehindStays DEF FilesAreRead
  <1>13. ExportGoesOn'
    BY <1>2, <1>3, <1>4, LeftBehindStays DEF ExportGoesOn
  <1> QED BY <1>5, <1>6, <1>7, <1>8, <1>9, <1>10, <1>11, <1>12, <1>13 DEF DataInv

-----------------------------------------------------------------------------
(* What an answered export or erasure has reached *)

LEMMA DataInvHolds == DataSpec => []DataInv
  <1>1. ASSUME InitServing, DataInit(HeldBefore)
        PROVE  DataInv
    <2>1. /\ pc = [p \in Requests |-> "idle"] /\ held = HeldBefore /\ written = HeldBefore
          /\ claim = [p \in Requests |-> NoClaim] /\ plan = [p \in Requests |-> <<>>]
          /\ blobs = [p \in Requests |-> {}] /\ deleted = [p \in Requests |-> {}]
          /\ copied = [p \in Requests |-> {}] /\ begun = [p \in Requests |-> {}]
      BY <1>1 DEF InitServing, DataInit
    <2>2. DataTyped
      BY <2>1 DEF DataTyped, Rows, Claims
    <2>3. Claimed
      BY <2>1 DEF Claimed, NoClaim
    <2>4. ParentsAreHeld /\ CitedWasWritten
      BY <2>1, NothingIsMissing DEF ParentsAreHeld, CitedWasWritten
    <2>5. /\ DeletesItsOwn /\ BlobsAreItsFiles /\ ErasureGoesOn /\ FilesKeepTheirRows
          /\ FilesAreRead /\ ExportGoesOn
      BY <2>1 DEF DeletesItsOwn, Closed, BlobsAreItsFiles, ErasureGoesOn, FilesKeepTheirRows,
                  FilesAreRead, ExportGoesOn
    <2> QED BY <2>2, <2>3, <2>4, <2>5 DEF DataInv
  <1>2. ASSUME DataInv, [DataNext]_<<serving, dataVars>>
        PROVE  DataInv'
    <2>1. CASE UNCHANGED <<serving, dataVars>>
      BY <1>2, <2>1 DEF serving, dataVars, dataLocals, DataInv, DataTyped, Claimed,
         ParentsAreHeld, CitedWasWritten, DeletesItsOwn, Closed, BlobsAreItsFiles,
         ErasureGoesOn, Reached, FilesKeepTheirRows, FilesAreRead, ExportGoesOn, LeftBehind
    <2>2. ASSUME NEW p \in Requests, Asks(p)
          PROVE  DataInv'
      <3>1. CASE \E r \in Storable : Store(p, r)
        BY <1>2, <3>1, StoreKeeps
      <3>2. CASE \E s \in Subjects : AskExport(p, s)
        <4>1. PICK s \in Subjects : AskExport(p, s)
          BY <3>2
        <4> QED BY <1>2, <4>1, AskKeeps DEF AskExport
      <3>3. CASE \E s \in Subjects : AskErasure(p, s)
        <4>1. PICK s \in Subjects : AskErasure(p, s)
          BY <3>3
        <4> QED BY <1>2, <4>1, AskKeeps DEF AskErasure
      <3> QED BY <2>2, <3>1, <3>2, <3>3 DEF Asks
    <2>3. ASSUME NEW p \in Requests, Export(p)
          PROVE  DataInv'
      <3>1. deleted[p] = {} /\ deleted \in [Requests -> SUBSET held]
        BY <1>2, <2>3 DEF Export, DataInv, DataTyped, Claimed
      <3>2. deleted' = [deleted EXCEPT ![p] = {}]
        BY <2>3, <3>1 DEF Export, dataVars, dataLocals
      <3>3. /\ pc' = [pc EXCEPT ![p] = "ok"] /\ held' = held /\ written' = written
            /\ claim' = claim /\ plan' = plan /\ blobs' = blobs /\ copied' = copied
            /\ begun' = begun
        BY <2>3 DEF Export, dataVars, dataLocals, Goto
      <3> QED BY <1>2, <3>2, <3>3, EndKeeps
    <2>4. ASSUME NEW p \in Requests, RightsRequestDies(p)
          PROVE  DataInv'
      BY <1>2, <2>4, EndKeeps DEF RightsRequestDies, CutShort, Goto
    <2> QED BY <1>2, <2>1, <2>2, <2>3, <2>4, ReadTableKeeps, ReadFileKeysKeeps,
               DeleteStoredFileKeeps, DeleteRowsKeeps, CommitKeeps DEF DataNext
  <1> QED BY <1>1, <1>2, PTL DEF DataSpec

\* Who is answered has stored something, or has come to the end of an export
\* or an erasure.
LEMMA WhoIsAnswered ==
  ASSUME DataInv, DataNext, NEW p \in Requests, pc[p] \notin Ended, pc'[p] = "ok"
  PROVE  claim[p].op = "none" \/ Export(p) \/ CommitErasure(p)
  <1>1. pc \in [Requests -> {"idle", "exporting", "reading_keys", "erasing",
                             "ok", "failed", "killed"}]
    BY DEF DataInv, DataTyped
  <1>2. pc' # pc
    BY DEF Ended
  <1>3. CASE pc[p] = "idle"
    BY <1>3 DEF DataInv, Claimed
  <1>4. ASSUME NEW q \in Requests, NEW label, Goto(q, label)
        PROVE  label = "ok" /\ q = p
    BY <1>1, <1>4 DEF Goto, Ended
  <1>5. ASSUME NEW q \in Requests, Asks(q)
        PROVE  pc[p] = "idle"
    <2>1. \E label : Goto(q, label) /\ pc[q] = "idle"
      BY <1>5 DEF Asks, Store, AskExport, AskErasure, Ask, MayStart
    <2> QED BY <1>4, <2>1
  <1>6. ASSUME NEW q \in Requests, ReadTable(q) \/ DeleteStoredFile(q)
        PROVE  FALSE
    BY <1>2, <1>6 DEF ReadTable, DeleteStoredFile, serving
  <1>7. ASSUME NEW q \in Requests, ReadFileKeys(q) \/ RightsRequestDies(q)
        PROVE  FALSE
    BY <1>4, <1>7 DEF ReadFileKeys, RightsRequestDies, CutShort
  <1>8. ASSUME NEW q \in Requests, DeleteRows(q)
        PROVE  FALSE
    <2>1. Goto(q, "failed") \/ UNCHANGED serving
      BY <1>8 DEF DeleteRows
    <2> QED BY <1>2, <1>4, <2>1 DEF serving
  <1>9. ASSUME NEW q \in Requests, Export(q) \/ CommitErasure(q)
        PROVE  q = p
    <2>1. \E label : Goto(q, label)
      BY <1>9 DEF Export, CommitErasure
    <2> QED BY <1>4, <2>1
  <1>10. ~UNCHANGED <<serving, dataVars>>
    BY <1>2 DEF serving
  <1> QED BY <1>3, <1>5, <1>6, <1>7, <1>8, <1>9, <1>10 DEF DataNext

\* What goes is a file an erasure deletes, or in the transaction it commits.
LEMMA WhatGoes ==
  ASSUME DataInv, DataNext, NEW r \in held, r \notin held'
  PROVE  \E q \in Requests : /\ claim[q].op = "erase"
                             /\ \/ IsAbout(r, claim[q], begun[q] \cup held)
                                \/ r.table = "files" /\ r.of = claim[q].user
  <1>1. PICK q \in Requests : DeleteStoredFile(q) \/ CommitErasure(q)
    <2>1. \A q \in Requests : Asks(q) => r \in held'
      BY DEF Asks, Store, AskExport, AskErasure
    <2>2. \A q \in Requests :
            ReadTable(q) \/ Export(q) \/ ReadFileKeys(q) \/ DeleteRows(q) \/ RightsRequestDies(q)
              => held' = held
      BY DEF ReadTable, Export, ReadFileKeys, DeleteRows, RightsRequestDies, dataVars
    <2>3. UNCHANGED <<serving, dataVars>> => held' = held
      BY DEF dataVars
    <2> QED BY <2>1, <2>2, <2>3 DEF DataNext
  <1>2. claim[q].op = "erase"
    BY <1>1 DEF DeleteStoredFile, CommitErasure, DataInv, Claimed
  <1>3. CASE DeleteStoredFile(q)
    <2>1. r \in blobs[q]
      BY <1>3 DEF DeleteStoredFile
    <2>2. r.table = "files" /\ r.of = claim[q].user
      BY <2>1 DEF DataInv, BlobsAreItsFiles
    <2> QED BY <1>2, <2>2
  <1>4. CASE CommitErasure(q)
    <2>1. r \in deleted[q]
      BY <1>4 DEF CommitErasure
    <2>2. IsAbout(r, claim[q], deleted[q]) /\ deleted[q] \subseteq held
      BY <2>1 DEF DataInv, DeletesItsOwn, DataTyped
    <2>3. IsAbout(r, claim[q], begun[q] \cup held)
      BY <2>2, AboutGrows
    <2> QED BY <1>2, <2>3
  <1> QED BY <1>1, <1>3, <1>4

\* What an answer says of what the request was about.
HasReached(p, about) ==
  CASE claim[p].op = "erase" -> \A r \in about \cap held' : r.table = "consent_decisions"
    [] claim[p].op = "export" -> about \cap held' \subseteq copied[p]
    [] OTHER -> TRUE

\* An answered export or erasure has reached all that was held about its
\* subject when it arrived, and no erasure removes what is another's, whatever
\* is stored, exported, erased or cut short meanwhile: the inventory, the
\* readers and the erasers of PersonalDataStoreImpl leave no table out.
THEOREM RightsReachEverything == DataSpec => RequestsReachEverything
  <1> DEFINE Reaches ==
        \A p \in Requests :
          /\ pc[p] \notin Ended /\ pc'[p] = "ok" =>
               LET about == {r \in begun[p] : IsAbout(r, claim[p], begun[p])
                                              /\ ~LeftBehind(r, p)} IN
               CASE claim[p].op = "erase" ->
                      \A r \in about \cap held' : r.table = "consent_decisions"
                 [] claim[p].op = "export" -> about \cap held' \subseteq copied[p]
                 [] OTHER -> TRUE
          /\ \A r \in held \ held' :
               \E q \in Requests :
                 /\ claim[q].op = "erase"
                 /\ \/ IsAbout(r, claim[q], begun[q] \cup held)
                    \/ r.table = "files" /\ r.of = claim[q].user
  <1>1. ASSUME DataInv, [DataNext]_<<serving, dataVars>>
        PROVE  [Reaches]_<<serving, dataVars>>
    <2>1. SUFFICES ASSUME DataNext PROVE Reaches
      BY <1>1
    <2>2. \A r \in held \ held' :
            \E q \in Requests :
              /\ claim[q].op = "erase"
              /\ \/ IsAbout(r, claim[q], begun[q] \cup held)
                 \/ r.table = "files" /\ r.of = claim[q].user
      BY <1>1, <2>1, WhatGoes
    <2>3. ASSUME NEW p \in Requests, pc[p] \notin Ended, pc'[p] = "ok"
          PROVE  HasReached(p, {r \in begun[p] : IsAbout(r, claim[p], begun[p])
                                                 /\ ~LeftBehind(r, p)})
      <3> DEFINE about == {r \in begun[p] : IsAbout(r, claim[p], begun[p])
                                            /\ ~LeftBehind(r, p)}
      <3>1. CASE claim[p].op = "none"
        BY <3>1 DEF HasReached
      <3>2. CASE Export(p)
        <4>1. claim[p].op = "export" /\ held' = held /\ plan[p] = <<>> /\ pc[p] = "exporting"
          BY <1>1, <3>2 DEF DataInv, Claimed, Export, dataVars
        <4>2. about \cap held' \subseteq copied[p]
          BY <1>1, <4>1, RangeOfNone DEF DataInv, ExportGoesOn
        <4> HIDE DEF about
        <4>3. HasReached(p, about)
          BY <4>1, <4>2 DEF HasReached
        <4> QED BY <4>3 DEF about
      <3>3. CASE CommitErasure(p)
        <4>1. /\ claim[p].op = "erase" /\ held' = held \ deleted[p] /\ plan[p] = <<>>
              /\ pc[p] = "erasing" /\ blobs[p] = {}
          BY <1>1, <3>3 DEF DataInv, Claimed, CommitErasure
        <4>2. ASSUME NEW r \in about, r \in held', r.table # "consent_decisions"
              PROVE  FALSE
          <5>1. CASE r.table = "files"
            <6>1. PICK row \in begun[p] : Names(row, r) /\ row.of = claim[p].user
              BY <5>1, AboutIs
            <6> QED BY <1>1, <4>1, <4>2, <6>1 DEF DataInv, FilesAreRead
          <5>2. CASE r.table # "files"
            <6>1. Reached(r, p)
              BY <1>1, <4>1, <4>2, <5>2 DEF DataInv, ErasureGoesOn
            <6> QED BY <4>1, <4>2, <6>1, RangeOfNone DEF Reached
          <5> QED BY <5>1, <5>2
        <4> HIDE DEF about
        <4>3. HasReached(p, about)
          BY <4>1, <4>2 DEF HasReached
        <4> QED BY <4>3 DEF about
      <3> QED BY <1>1, <2>1, <2>3, <3>1, <3>2, <3>3, WhoIsAnswered
    <2> QED BY <2>2, <2>3 DEF HasReached
  <1> QED BY <1>1, DataInvHolds, PTL DEF DataSpec, RequestsReachEverything
=============================================================================
