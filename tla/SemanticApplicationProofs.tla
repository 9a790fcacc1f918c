--------------------- MODULE SemanticApplicationProofs ---------------------
(***************************************************************************)
(* The maintenance of published notes, for any notes, claims, proposals,    *)
(* budgets and relations: the tables keep their types, two intentions never *)
(* meet, what was recorded as applied was written, one request writes once, *)
(* nothing but the person takes an edit out, and the official knowledge     *)
(* changes as OfficialKnowledge says.                                       *)
(***************************************************************************)
EXTENDS SemanticApplication, FiniteSetTheorems, TLAPS

-----------------------------------------------------------------------------
(* The tables, as typed as their updates need                                *)
NoteRows  == [status : {"PUBLISHED", "RETIRED"}, text : Texts]
ClaimRows == [status : ClaimStatus, state : ClaimStates, rev : Nat, lock : 0..MaxEdits]
Memories  == UNION {[D -> ClaimStates] : D \in SUBSET Claims}
CandRows  == [status : CandStatus, relation : Relations \cup {"none"}, revision : 0..MaxRevision,
              base : {NoFile} \cup Texts, source : {NoFile} \cup Texts,
              was : ClaimStates \cup {"none"}, disputed : Memories]

(* A lock is an edit of the person *)
ClaimsTyped == /\ claim \in [Claims -> ClaimRows] /\ edits \in 0..MaxEdits
               /\ \A k \in Claims : claim[k].lock <= edits
CandsTyped  == cand \in [Candidates -> CandRows]
RowsTyped   == row \in [Notes -> NoteRows]
ReversTyped ==
    /\ rever = [d \in Candidates |-> [status |-> rever[d].status, plan |-> rever[d].plan]]
    /\ \A d \in Candidates : rever[d].status \in ReverStatus
FilesTyped  ==
    /\ vault \in [Notes -> {NoFile} \cup Texts]
    /\ adopting \in [note : Notes \cup {NoFile}, text : {NoFile} \cup Texts]
    /\ adopting.note # NoFile => adopting.text # NoFile
OthersTyped ==
    /\ recon \in [Notes -> {"IN_SYNC", "CONFLICT", "MISSING"}]
    /\ last \in [Notes -> [why : {"none", "update", "reversion", "edit"}, cand : Candidates \cup {Nobody}]]
    /\ held \in [Candidates -> 0..MaxRevision]
    /\ phase \in {"up", "down", "applications", "reversions", "failed"}
    /\ todo \subseteq Candidates /\ faults \in 0..MaxFaults
    /\ pc \in [Candidates -> {"idle", "read", "intent", "asked", "answered", "refused", "replaced",
                              "revert", "reverted"}]

(* What a replacement or a reversion may rely on *)
Based(c) ==
    /\ cand[c].status \in {"APPLYING", "APPLIED"} => cand[c].base # NoFile
    /\ cand[c].base # NoFile => cand[c].revision > 0
    /\ cand[c].status = "APPLIED" => cand[c].was \in ClaimStates
    /\ rever[c].status # "none" => cand[c].status = "APPLIED"
BasesAreTexts == \A c \in Candidates : Based(c)

(* A thread that is beyond its intention has it, and so has what is to be recovered *)
Thread(c) ==
    /\ pc[c] = "read" => cand[c].status \notin {"APPLYING", "APPLIED"}
    /\ pc[c] \in {"intent", "replaced"} => Applying(c)
    /\ pc[c] \in {"revert", "reverted"} => Reverting(c)
    /\ pc[c] \in {"asked", "answered", "refused"} => Applying(c) \/ Reverting(c)
    /\ c \in todo => pc[c] = "idle" /\ phase # "up"
    /\ phase = "applications" /\ c \in todo => Applying(c)
    /\ phase = "reversions" /\ c \in todo => Reverting(c)
ThreadsHaveIntentions == \A c \in Candidates : Thread(c)

LEMMA CandidateFacts ==
    ASSUME NEW c \in Candidates
    PROVE  /\ Target[c] \in Claims /\ Witness[c] \in Claims /\ Successor[c] \in Claims
           /\ TargetNote(c) \in Notes /\ NoteOf[Successor[c]] = TargetNote(c)
           /\ Successor[c] # Target[c] /\ c \in Candidates \cup EditMarks
           /\ c # 0 /\ c \in Nat
           /\ \A d \in Candidates : Successor[d] = Successor[c] => d = c
           /\ \A d \in Candidates : Successor[d] # Witness[c]
BY CandidatesAssumption, ProjectionAssumption DEF TargetNote

LEMMA TextFacts ==
    /\ NoFile \notin Texts /\ Original \in Texts
    /\ \A t \in Texts, c \in Candidates : t \cup {c} \in Texts /\ t \ {c} \in Texts
BY BoundsAssumption DEF Texts, Original

LEMMA RevisedClaim ==
    ASSUME NEW k \in Claims, claim[k] \in ClaimRows, NEW status \in ClaimStatus, NEW state \in ClaimStates
    PROVE  /\ Revised(k, status, state) \in ClaimRows
           /\ Revised(k, status, state).status = status
           /\ Revised(k, status, state).lock = claim[k].lock
<1>1. claim[k].rev + 1 \in Nat BY DEF ClaimRows
<1>2. QED BY <1>1 DEF Revised, ClaimRows

(* record_review_state changes the state of claims and nothing else *)
LEMMA ReviewedTyped ==
    ASSUME ClaimsTyped, NEW states, \A k \in Claims \cap DOMAIN states : states[k] \in ClaimStates
    PROVE  /\ Reviewed(states) \in [Claims -> ClaimRows]
           /\ \A k \in Claims : /\ Reviewed(states)[k].status = claim[k].status
                                /\ Reviewed(states)[k].lock = claim[k].lock
<1>1. SUFFICES ASSUME NEW k \in Claims
               PROVE  /\ Reviewed(states)[k] \in ClaimRows
                      /\ Reviewed(states)[k].status = claim[k].status
                      /\ Reviewed(states)[k].lock = claim[k].lock
  BY DEF Reviewed
<1>2. claim[k] \in ClaimRows BY DEF ClaimsTyped
<1>3. CASE k \in DOMAIN states /\ Reviewable(k, states[k])
  <2>1. Reviewed(states)[k] = Revised(k, claim[k].status, states[k]) BY <1>3 DEF Reviewed
  <2>2. states[k] \in ClaimStates BY <1>3
  <2>3. claim[k].status \in ClaimStatus BY <1>2 DEF ClaimRows
  <2>4. QED BY <1>2, <2>1, <2>2, <2>3, RevisedClaim
<1>4. CASE ~(k \in DOMAIN states /\ Reviewable(k, states[k]))
  BY <1>2, <1>4 DEF Reviewed
<1>5. QED BY <1>3, <1>4

-----------------------------------------------------------------------------
(* Which step writes what                                                    *)

ChangesClaims ==
    \/ \E c \in Candidates : \/ Reject(c) \/ MarkApplied(c) \/ FinishReversion(c)
                              \/ \E relation \in Relations : Compare(c, relation)
    \/ AdoptCommit \/ FinishStart
    \/ \E n \in Notes : RetireNote(n) \/ ReconcileOne(n)
    \/ \E k \in Claims : SetManualLock(k)
ChangesCands ==
    \/ \E c \in Candidates :
        \/ Propose(c) \/ Reject(c) \/ \E relation \in Relations : Compare(c, relation)
        \/ ApproveRead(c) \/ PrepareApplication(c) \/ SendApplication(c) \/ ReceiveApplied(c)
        \/ ReceiveRefused(c) \/ MarkApplied(c) \/ FinishReversion(c) \/ RecoverApplication(c)
    \/ AdoptCommit \/ \E n \in Notes : RetireNote(n)
ChangesRows ==
    \/ \E c \in Candidates : MarkApplied(c) \/ FinishReversion(c)
    \/ AdoptCommit \/ \E n \in Notes : RetireNote(n)
ChangesRevers ==
    \E c \in Candidates : \/ PreviewReversion(c) \/ BeginReversion(c) \/ SendReversion(c)
                          \/ ReceiveReverted(c) \/ FinishReversion(c)
ChangesFiles == BridgeWrite \/ \E n \in Notes, text \in {NoFile} \cup Texts : EditFile(n, text)
ChangesEdits ==
    \/ \E n \in Notes, text \in {NoFile} \cup Texts : EditFile(n, text)
    \/ \E k \in Claims : SetManualLock(k)

LEMMA WhoWrites ==
    ASSUME [Next]_vars
    PROVE  /\ ChangesClaims \/ UNCHANGED claim
           /\ ChangesCands \/ UNCHANGED cand
           /\ ChangesRows \/ UNCHANGED row
           /\ ChangesRevers \/ UNCHANGED rever
           /\ ChangesFiles \/ UNCHANGED vault
           /\ ChangesEdits \/ UNCHANGED edits
<1>1. CASE UNCHANGED vars BY <1>1 DEF vars, files, database
<1>2. CASE Proposals
  <2>1. ChangesCands BY <1>2 DEF Proposals, ChangesCands
  <2>2. ChangesClaims \/ UNCHANGED claim BY <1>2 DEF Proposals, Propose, ChangesClaims
  <2>3. ASSUME NEW c \in Candidates, Propose(c) PROVE UNCHANGED <<row, rever, vault, edits>>
    BY <2>3 DEF Propose, files
  <2>4. ASSUME NEW c \in Candidates, Reject(c) PROVE UNCHANGED <<row, rever, vault, edits>>
    BY <2>4 DEF Reject, files
  <2>5. ASSUME NEW c \in Candidates, NEW relation \in Relations, Compare(c, relation)
        PROVE  UNCHANGED <<row, rever, vault, edits>>
    BY <2>5 DEF Compare, files
  <2>6. QED BY <1>2, <2>1, <2>2, <2>3, <2>4, <2>5 DEF Proposals
<1>3. CASE Applications
  <2>1. UNCHANGED <<rever, vault, edits>>
    BY <1>3
    DEF Applications, ApproveRead, PrepareApplication, SendApplication, ReceiveApplied,
        ReceiveRefused, MarkApplied, NoAnswer, files, database
  <2>2. CASE \E c \in Candidates : MarkApplied(c)
    BY <2>1, <2>2 DEF ChangesClaims, ChangesCands, ChangesRows
  <2>3. CASE ~\E c \in Candidates : MarkApplied(c)
    <3>1. UNCHANGED <<row, claim>>
      BY <1>3, <2>3
      DEF Applications, ApproveRead, PrepareApplication, SendApplication, ReceiveApplied,
          ReceiveRefused, NoAnswer, database
    <3>2. ChangesCands \/ UNCHANGED cand BY <1>3 DEF Applications, NoAnswer, database, ChangesCands
    <3>3. QED BY <2>1, <3>1, <3>2
  <2>4. QED BY <2>2, <2>3
<1>4. CASE Reversions
  BY <1>4
  DEF Reversions, PreviewReversion, BeginReversion, SendReversion, ReceiveReverted,
      FinishReversion, files, ChangesClaims, ChangesCands, ChangesRows, ChangesRevers,
      ChangesFiles, ChangesEdits
<1>5. CASE Obsidian
  BY <1>5
  DEF Obsidian, BridgeKnown, BridgePrepare, BridgeWrite, BridgeReceipt, ObsidianStops, files,
      database, ChangesFiles
<1>6. CASE Startup
  BY <1>6
  DEF Startup, Crash, Start, RecoverReversions, FinishStart, RecoverApplication,
      RecoverReversion, Reconcile, files, database, ChangesClaims, ChangesCands
<1>7. CASE Person
  BY <1>7
  DEF Person, AdoptRead, RetireNote, EditFile, AdoptCommit, SetManualLock, files, database,
      ChangesClaims, ChangesCands, ChangesRows, ChangesFiles, ChangesEdits
<1>8. CASE \E n \in Notes : ReconcileOne(n)
  BY <1>8 DEF ReconcileOne, Reconcile, files, ChangesClaims
<1>9. QED BY <1>1, <1>2, <1>3, <1>4, <1>5, <1>6, <1>7, <1>8 DEF Next

-----------------------------------------------------------------------------
(* Types                                                                     *)

LEMMA TypedInit ==
    ASSUME Init
    PROVE  ClaimsTyped /\ CandsTyped /\ RowsTyped /\ ReversTyped /\ FilesTyped /\ OthersTyped
<1>1. \A k \in Claims : NewClaim(k) \in ClaimRows /\ NewClaim(k).lock = 0
  BY BoundsAssumption DEF NewClaim, ClaimRows, ClaimStatus, ClaimStates
<1>2. NewCandidate \in CandRows
  <2>1. <<>> \in [{} -> ClaimStates] OBVIOUS
  <2>2. <<>> \in Memories BY <2>1 DEF Memories
  <2>3. QED BY <2>2, BoundsAssumption DEF NewCandidate, CandRows, CandStatus
<1>3. ClaimsTyped BY <1>1, BoundsAssumption DEF Init, ClaimsTyped
<1>4. CandsTyped BY <1>2 DEF Init, CandsTyped
<1>5. RowsTyped /\ FilesTyped BY TextFacts DEF Init, RowsTyped, NoteRows, FilesTyped
<1>6. ReversTyped BY DEF Init, ReversTyped, ReverStatus
<1>7. OthersTyped BY BoundsAssumption DEF Init, OthersTyped, Nobody
<1>8. QED BY <1>3, <1>4, <1>5, <1>6, <1>7

LEMMA ClaimsStep ==
    ASSUME ClaimsTyped, CandsTyped, BasesAreTexts, [Next]_vars
    PROVE  ClaimsTyped'
<1>0. edits' \in 0..MaxEdits /\ edits <= edits'
  BY WhoWrites, BoundsAssumption DEF ClaimsTyped, ChangesEdits, EditFile, SetManualLock
<1>1. ASSUME NEW states, \A k \in Claims \cap DOMAIN states : states[k] \in ClaimStates,
             claim' = Reviewed(states)
      PROVE  ClaimsTyped'
  BY <1>0, <1>1, ReviewedTyped, BoundsAssumption DEF ClaimsTyped, ClaimRows
<1>2. ASSUME NEW c \in Candidates, NEW relation \in Relations, Compare(c, relation)
      PROVE  ClaimsTyped'
  <2>1. ASSUME NEW states,
               states \in {[k \in {Target[c], Witness[c]} |-> "DISPUTED"],
                          [k \in {Witness[c]} |-> "UNCERTAIN"], [k \in {} |-> "none"]},
               claim' = Reviewed(states)
        PROVE  ClaimsTyped'
    BY <1>1, <2>1 DEF ClaimStates
  <2>2. QED BY <1>2, <2>1 DEF Compare, ReviewBy
<1>3. ASSUME NEW c \in Candidates, Reject(c) PROVE ClaimsTyped'
  <2>1. PICK released \in SUBSET {Target[c], Witness[c]} :
            claim' = Reviewed([k \in released |-> IF k \in DOMAIN cand[c].disputed
                                                  THEN cand[c].disputed[k] ELSE "CURRENT"])
    BY <1>3 DEF Reject
  <2>2. cand[c].disputed \in Memories BY DEF CandsTyped, CandRows
  <2>3. \A k \in DOMAIN cand[c].disputed : cand[c].disputed[k] \in ClaimStates
    BY <2>2 DEF Memories
  <2>4. QED BY <1>1, <2>1, <2>3 DEF ClaimStates
<1>4. ASSUME NEW c \in Candidates, MarkApplied(c) PROVE ClaimsTyped'
  <2>1. CASE UNCHANGED claim BY <1>0, <2>1, BoundsAssumption DEF ClaimsTyped, ClaimRows
  <2>2. CASE claim' # claim
    <3>1. PICK reviewed : reviewed = Reviewed([k \in {Witness[c]} |-> "CURRENT"]) OBVIOUS
    <3>2. PICK state \in {"SUPERSEDED", "HISTORICAL"} :
              claim' = [reviewed EXCEPT
                 ![Successor[c]] = [status |-> "ACTIVE", state |-> "CURRENT", rev |-> 1, lock |-> 0],
                 ![Target[c]] = Revised(Target[c], "SUPERSEDED", state)]
      BY <1>4, <2>2, <3>1 DEF MarkApplied
    <3>3. /\ reviewed \in [Claims -> ClaimRows]
          /\ \A k \in Claims : reviewed[k].lock <= edits
      <4>1. \A k \in Claims \cap DOMAIN [k \in {Witness[c]} |-> "CURRENT"] :
               [j \in {Witness[c]} |-> "CURRENT"][k] \in ClaimStates
        BY DEF ClaimStates
      <4>2. QED BY <3>1, <4>1, ReviewedTyped DEF ClaimsTyped
    <3>4. /\ Revised(Target[c], "SUPERSEDED", state) \in ClaimRows
          /\ Revised(Target[c], "SUPERSEDED", state).lock <= edits
      BY RevisedClaim, CandidateFacts DEF ClaimsTyped, ClaimStatus, ClaimStates
    <3>5. \A k \in Claims : claim'[k] \in ClaimRows /\ claim'[k].lock <= edits
      <4>1. SUFFICES ASSUME NEW k \in Claims PROVE claim'[k] \in ClaimRows /\ claim'[k].lock <= edits
        OBVIOUS
      <4>2. CASE k = Successor[c]
        BY <3>2, <3>3, <4>2, CandidateFacts, BoundsAssumption
        DEF ClaimRows, ClaimStatus, ClaimStates, ClaimsTyped
      <4>3. CASE k = Target[c] BY <3>2, <3>3, <3>4, <4>3, CandidateFacts
      <4>4. CASE k \notin {Successor[c], Target[c]} BY <3>2, <3>3, <4>4
      <4>5. QED BY <4>2, <4>3, <4>4
    <3>6. claim' = [k \in Claims |-> claim'[k]] BY <3>2, <3>3
    <3>7. QED BY <1>0, <3>5, <3>6, BoundsAssumption DEF ClaimsTyped, ClaimRows
  <2>3. QED BY <2>1, <2>2
<1>5. ASSUME NEW c \in Candidates, FinishReversion(c) PROVE ClaimsTyped'
  <2>1. CASE UNCHANGED claim BY <1>0, <2>1, BoundsAssumption DEF ClaimsTyped, ClaimRows
  <2>2. CASE claim' # claim
    <3>1. claim' = Undone(c) /\ cand[c].status = "APPLIED"
      BY <1>5, <2>2 DEF FinishReversion, Revertible
    <3>2. cand[c].was \in ClaimStates BY <3>1 DEF BasesAreTexts, Based
    <3>3. /\ Revised(Target[c], "ACTIVE", cand[c].was) \in ClaimRows
          /\ Revised(Target[c], "ACTIVE", cand[c].was).lock <= edits
          /\ Revised(Successor[c], "RETRACTED", "HISTORICAL") \in ClaimRows
          /\ Revised(Successor[c], "RETRACTED", "HISTORICAL").lock <= edits
      BY <3>2, RevisedClaim, CandidateFacts DEF ClaimsTyped, ClaimStatus, ClaimStates
    <3>4. QED
      BY <1>0, <3>1, <3>3, CandidateFacts, BoundsAssumption
      DEF ClaimsTyped, Undone, Restored, ClaimRows
  <2>3. QED BY <2>1, <2>2
<1>6. ASSUME NEW notes, Reconcile(notes) PROVE ClaimsTyped'
  BY <1>1, <1>6 DEF Reconcile, DerivedReviewed, ClaimStates
<1>7. ASSUME NEW n, RetireClaims(n) PROVE ClaimsTyped'
  <2>1. SUFFICES ASSUME NEW k \in Claims
                 PROVE  claim'[k] \in ClaimRows /\ claim'[k].lock <= edits'
    BY <1>0, <1>7 DEF RetireClaims, ClaimsTyped
  <2>2. claim[k] \in ClaimRows /\ claim[k].lock <= edits BY DEF ClaimsTyped
  <2>3. CASE k \in ActiveIn(n)
    BY <1>0, <1>7, <2>2, <2>3, RevisedClaim, BoundsAssumption
    DEF RetireClaims, ClaimStatus, ClaimStates, ClaimRows, ClaimsTyped
  <2>4. CASE k \notin ActiveIn(n)
    BY <1>0, <1>7, <2>2, <2>4, BoundsAssumption DEF RetireClaims, ClaimRows, ClaimsTyped
  <2>5. QED BY <2>3, <2>4
<1>8. ASSUME NEW k \in Claims, SetManualLock(k) PROVE ClaimsTyped'
  <2>1. edits' = edits + 1 /\ edits < MaxEdits BY <1>8 DEF SetManualLock
  <2>2. SUFFICES ASSUME NEW j \in Claims
                 PROVE  claim'[j] \in ClaimRows /\ claim'[j].lock <= edits'
    BY <1>0, <1>8 DEF SetManualLock, ClaimsTyped
  <2>3. claim[j] \in ClaimRows /\ claim[j].lock <= edits BY DEF ClaimsTyped
  <2>4. CASE j = k
    <3>1. claim'[j] = [claim[j] EXCEPT !.lock = @ + 1]
      BY <1>8, <2>4 DEF SetManualLock, ClaimsTyped
    <3>2. claim[j].lock + 1 \in 0..MaxEdits /\ claim[j].lock + 1 <= edits'
      BY <2>1, <2>3, BoundsAssumption DEF ClaimRows, ClaimsTyped
    <3>3. QED BY <2>3, <3>1, <3>2 DEF ClaimRows
  <2>5. CASE j # k
    BY <1>8, <2>1, <2>3, <2>5, BoundsAssumption DEF SetManualLock, ClaimRows, ClaimsTyped
  <2>6. QED BY <2>4, <2>5
<1>9. CASE UNCHANGED claim BY <1>0, <1>9, BoundsAssumption DEF ClaimsTyped, ClaimRows
<1>10. CASE AdoptCommit BY <1>7, <1>9, <1>10 DEF AdoptCommit
<1>11. QED
  BY <1>2, <1>3, <1>4, <1>5, <1>6, <1>7, <1>8, <1>9, <1>10, WhoWrites
  DEF ChangesClaims, FinishStart, RetireNote, ReconcileOne

-----------------------------------------------------------------------------
(* How a proposal moves: by itself only among the states that are not            *)
(* intentions, and otherwise by the thread that works on it                      *)
Intention == {"APPLYING", "APPLIED"}

Drifts(d)   == /\ cand'[d] = [cand[d] EXCEPT !.status = cand'[d].status]
               /\ cand'[d].status \in CandStatus
               /\ cand'[d].status = cand[d].status \/
                      (cand[d].status \notin Intention /\ cand'[d].status \notin Intention)
Begins(d)   == /\ PrepareApplication(d) /\ Applicable(d) /\ pc'[d] = "intent"
               /\ cand'[d] = [cand[d] EXCEPT !.status = "APPLYING"]
Abandons(d) == /\ Applying(d) /\ pc'[d] = "idle" /\ d \notin todo'
               /\ cand'[d].status \in {"CONFLICT", "ERROR"}
               /\ cand'[d] = [cand[d] EXCEPT !.status = cand'[d].status]
Applied(d)  == /\ MarkApplied(d) /\ Applying(d)
               /\ cand'[d] = [cand[d] EXCEPT !.status = "APPLIED", !.was = claim[Target[d]].state]
Compared(d) == /\ \E relation \in Relations : Compare(d, relation)
               /\ cand[d].status \notin Intention /\ cand'[d].status \notin Intention
               /\ cand'[d] \in CandRows
               /\ cand'[d].base # NoFile => cand'[d].revision > 0 /\ cand'[d].base = row[TargetNote(d)].text

ProposalMoves(d) == Drifts(d) \/ Begins(d) \/ Abandons(d) \/ Applied(d) \/ Compared(d)

LEMMA SameDrifts == ASSUME CandsTyped, NEW d \in Candidates, cand'[d] = cand[d] PROVE Drifts(d)
<1>1. cand[d] \in CandRows BY DEF CandsTyped
<1>2. QED BY <1>1 DEF Drifts, CandRows

LEMMA ClosingDrifts ==
    ASSUME CandsTyped, NEW d \in Candidates, cand[d].status \notin Intention,
           NEW s \in CandStatus \ Intention, cand'[d] = [cand[d] EXCEPT !.status = s]
    PROVE  Drifts(d)
<1>1. cand[d] \in CandRows BY DEF CandsTyped
<1>2. QED BY <1>1 DEF Drifts, CandRows

LEMMA MarkingMoves ==
    ASSUME CandsTyped, NEW c \in Candidates, NEW s \in {"CONFLICT", "ERROR"}, cand' = Marked(c, s),
           Applying(c) => pc'[c] = "idle" /\ c \notin todo', NEW d \in Candidates
    PROVE  ProposalMoves(d)
<1>1. CASE cand'[d] = cand[d] BY <1>1, SameDrifts DEF ProposalMoves
<1>2. CASE d = c /\ cand[c].status \notin {"APPLIED", "REJECTED"}
  <2>1. cand'[c] = [cand[c] EXCEPT !.status = s] BY <1>2 DEF Marked, CandsTyped
  <2>2. CASE cand[c].status \notin Intention
    BY <1>2, <2>1, <2>2, ClosingDrifts DEF ProposalMoves, CandStatus, Intention
  <2>3. CASE cand[c].status = "APPLYING"
    <3>1. cand[c] \in CandRows BY DEF CandsTyped
    <3>2. QED BY <1>2, <2>1, <2>3, <3>1 DEF ProposalMoves, Abandons, Applying, CandRows
  <2>4. QED BY <1>2, <2>2, <2>3 DEF Intention
<1>3. QED BY <1>1, <1>2 DEF Marked, CandsTyped

LEMMA ComparingMoves ==
    ASSUME CandsTyped, ClaimsTyped, RowsTyped, FilesTyped,
           NEW c \in Candidates, NEW relation \in Relations, Compare(c, relation)
    PROVE  Compared(c)
<1>1. /\ cand[c] \in CandRows /\ cand[c].revision + 1 \in 1..MaxRevision
      /\ cand[c].status \in {"PENDING_COMPARISON", "PENDING_REVIEW", "CONFLICT"}
      /\ cand'[c] = ComparedAs(c, relation)
  <2>1. cand[c] \in CandRows BY DEF CandsTyped
  <2>2. QED BY <2>1, BoundsAssumption DEF Compare, CandsTyped, CandRows
<1>2. PICK memory :
          /\ memory \in Memories
          /\ cand'[c] = [cand[c] EXCEPT
                !.status = IF relation \in {"SUPPORTS", "UNRELATED"} THEN "REJECTED" ELSE "PENDING_REVIEW",
                !.relation = relation, !.revision = @ + 1,
                !.base = IF Patched(c, relation) THEN row[TargetNote(c)].text ELSE NoFile,
                !.source = vault[NoteOf[Witness[c]]],
                !.disputed = memory]
  <2>. DEFINE newly  == NewlyDisputed(c, relation)
              memory == [k \in DOMAIN cand[c].disputed \cup newly |->
                             IF k \in newly THEN claim[k].state ELSE cand[c].disputed[k]]
  <2>1. PICK D \in SUBSET Claims : cand[c].disputed \in [D -> ClaimStates]
    BY <1>1 DEF CandRows, Memories
  <2>2. newly \in SUBSET Claims BY CandidateFacts DEF NewlyDisputed
  <2>3. \A k \in Claims : claim[k].state \in ClaimStates BY DEF ClaimsTyped, ClaimRows
  <2>4. memory \in [D \cup newly -> ClaimStates] BY <2>1, <2>2, <2>3
  <2>5. memory \in Memories
    <3>1. D \cup newly \in SUBSET Claims BY <2>2
    <3>2. QED BY <2>4, <3>1 DEF Memories
  <2>6. QED BY <1>1, <2>5 DEF ComparedAs
<1>3. /\ row[TargetNote(c)].text \in Texts /\ vault[NoteOf[Witness[c]]] \in {NoFile} \cup Texts
  BY CandidateFacts, CandidatesAssumption DEF RowsTyped, NoteRows, FilesTyped
<1>4. cand'[c] \in CandRows
  <2>1. cand[c].revision + 1 \in 0..MaxRevision BY <1>1, BoundsAssumption
  <2>2. (IF Patched(c, relation) THEN row[TargetNote(c)].text ELSE NoFile) \in {NoFile} \cup Texts
    BY <1>3
  <2>3. QED BY <1>1, <1>2, <1>3, <2>1, <2>2 DEF CandRows, CandStatus
<1>5. /\ cand'[c].status \in {"REJECTED", "PENDING_REVIEW"}
      /\ cand'[c].revision = cand[c].revision + 1
      /\ cand'[c].base = IF Patched(c, relation) THEN row[TargetNote(c)].text ELSE NoFile
  BY <1>1, <1>2 DEF CandRows
<1>6. QED BY <1>1, <1>4, <1>5, BoundsAssumption DEF Compared, Intention

Tables == ClaimsTyped /\ CandsTyped /\ RowsTyped /\ ReversTyped /\ FilesTyped /\ OthersTyped

LEMMA ProposalsMove ==
    ASSUME Tables, ThreadsHaveIntentions, [Next]_vars, NEW d \in Candidates
    PROVE  ProposalMoves(d)
<1>0. ClaimsTyped /\ CandsTyped /\ RowsTyped /\ FilesTyped /\ DOMAIN pc = Candidates
  BY DEF Tables, OthersTyped
<1>1. CASE UNCHANGED cand BY <1>0, <1>1, SameDrifts DEF ProposalMoves
<1>2. ASSUME NEW c \in Candidates, c # d, NEW r, cand' = [cand EXCEPT ![c] = r]
      PROVE  ProposalMoves(d)
  BY <1>0, <1>2, SameDrifts DEF ProposalMoves, CandsTyped
<1>3. ASSUME NEW c \in Candidates, Propose(c) PROVE ProposalMoves(d)
  <2>1. /\ cand' = [cand EXCEPT ![c] = [cand[c] EXCEPT !.status = "PENDING_COMPARISON"]]
        /\ cand[c].status = "none"
    BY <1>3 DEF Propose
  <2>2. CASE c = d
    <3>1. cand'[d] = [cand[d] EXCEPT !.status = "PENDING_COMPARISON"]
      BY <1>0, <2>1, <2>2 DEF CandsTyped
    <3>2. QED BY <1>0, <2>1, <2>2, <3>1, ClosingDrifts DEF ProposalMoves, CandStatus, Intention
  <2>3. QED BY <1>2, <2>1, <2>2
<1>4. ASSUME NEW c \in Candidates, Reject(c) PROVE ProposalMoves(d)
  <2>1. /\ cand' = [cand EXCEPT ![c] = [cand[c] EXCEPT !.status = "REJECTED"]]
        /\ cand[c].status \in {"PENDING_COMPARISON", "PENDING_REVIEW", "CONFLICT"}
    BY <1>4 DEF Reject
  <2>2. CASE c = d
    <3>1. cand'[d] = [cand[d] EXCEPT !.status = "REJECTED"] BY <1>0, <2>1, <2>2 DEF CandsTyped
    <3>2. QED BY <1>0, <2>1, <2>2, <3>1, ClosingDrifts DEF ProposalMoves, CandStatus, Intention
  <2>3. QED BY <1>2, <2>1, <2>2
<1>5. ASSUME NEW c \in Candidates, NEW relation \in Relations, Compare(c, relation)
      PROVE  ProposalMoves(d)
  <2>1. CASE c = d BY <1>0, <1>5, <2>1, ComparingMoves DEF ProposalMoves
  <2>2. cand' = [cand EXCEPT ![c] = ComparedAs(c, relation)] BY <1>5 DEF Compare
  <2>3. QED BY <1>2, <2>1, <2>2
<1>6. ASSUME NEW c \in Candidates, PrepareApplication(c) PROVE ProposalMoves(d)
  <2>1. CASE ~(Applicable(c) /\ cand[c].revision = held[c])
    BY <1>1, <1>6, <2>1 DEF PrepareApplication
  <2>2. CASE Applicable(c) /\ cand[c].revision = held[c]
    <3>1. cand' = [cand EXCEPT ![c] = [cand[c] EXCEPT !.status = "APPLYING"]] /\ Goto(c, "intent")
      BY <1>6, <2>2 DEF PrepareApplication
    <3>2. CASE c = d
      BY <1>0, <1>6, <2>2, <3>1, <3>2 DEF ProposalMoves, Begins, Goto, CandsTyped
    <3>3. QED BY <1>2, <3>1, <3>2
  <2>3. QED BY <2>1, <2>2
<1>7. ASSUME NEW c \in Candidates, ApproveRead(c) PROVE ProposalMoves(d)
  <2>1. CASE cand' = Marked(c, "CONFLICT")
    BY <1>0, <1>7, <2>1, MarkingMoves DEF ApproveRead, Applying
  <2>2. QED BY <1>1, <1>7, <2>1 DEF ApproveRead
<1>8. ASSUME NEW c \in Candidates, SendApplication(c) \/ ReceiveApplied(c) \/ ReceiveRefused(c)
      PROVE  ProposalMoves(d)
  <2>1. CASE UNCHANGED cand BY <1>1, <2>1
  <2>2. CASE cand' = Marked(c, "CONFLICT") /\ Goto(c, "idle")
    <3>1. pc'[c] = "idle" BY <1>0, <2>2 DEF Goto
    <3>2. pc[c] # "idle" /\ todo' = todo /\ phase' = phase
      BY <1>8 DEF SendApplication, ReceiveApplied, ReceiveRefused
    <3>3. c \notin todo' BY <3>2 DEF ThreadsHaveIntentions, Thread
    <3>4. QED BY <1>0, <2>2, <3>1, <3>3, MarkingMoves
  <2>3. QED BY <1>8, <2>1, <2>2 DEF SendApplication, ReceiveApplied, ReceiveRefused
<1>9. ASSUME NEW c \in Candidates, RecoverApplication(c) PROVE ProposalMoves(d)
  <2>1. CASE UNCHANGED cand BY <1>1, <2>1
  <2>2. CASE cand' # cand
    <3>1. PICK s \in {"CONFLICT", "ERROR"} : cand' = Marked(c, s) /\ UNCHANGED pc
      BY <1>9, <2>2 DEF RecoverApplication
    <3>2. pc'[c] = "idle" /\ c \notin todo' BY <1>9, <3>1 DEF RecoverApplication, Ready
    <3>3. QED BY <1>0, <3>1, <3>2, MarkingMoves
  <2>3. QED BY <2>1, <2>2
<1>10. ASSUME NEW c \in Candidates, MarkApplied(c) PROVE ProposalMoves(d)
  <2>1. CASE UNCHANGED cand BY <1>1, <2>1
  <2>2. CASE cand' # cand
    <3>1. cand'[d] = IF d = c
                     THEN [cand[c] EXCEPT !.status = "APPLIED", !.was = claim[Target[c]].state]
                     ELSE IF /\ Target[d] = Target[c]
                             /\ cand[d].status \in {"PENDING_COMPARISON", "PENDING_REVIEW"}
                     THEN [cand[d] EXCEPT !.status = "CONFLICT"] ELSE cand[d]
      BY <1>10, <2>2 DEF MarkApplied
    <3>2. CASE d = c
      <4>1. pc[c] = "replaced" BY <1>10 DEF MarkApplied
      <4>2. Applying(c) BY <4>1 DEF ThreadsHaveIntentions, Thread
      <4>3. QED BY <1>10, <3>1, <3>2, <4>2 DEF ProposalMoves, Applied
    <3>3. CASE d # c
      BY <1>0, <3>1, <3>3, SameDrifts, ClosingDrifts DEF ProposalMoves, CandStatus, Intention
    <3>4. QED BY <3>2, <3>3
  <2>3. QED BY <2>1, <2>2
<1>12. ASSUME NEW c \in Candidates, FinishReversion(c) PROVE ProposalMoves(d)
  <2>1. \/ cand'[d] = cand[d]
        \/ /\ cand[d].status \in {"PENDING_COMPARISON", "PENDING_REVIEW"}
           /\ cand'[d] = [cand[d] EXCEPT !.status = "CONFLICT"]
    BY <1>12 DEF FinishReversion
  <2>2. QED BY <1>0, <2>1, SameDrifts, ClosingDrifts DEF ProposalMoves, CandStatus, Intention
<1>13. ASSUME NEW n, BlockProposals(n) PROVE ProposalMoves(d)
  <2>1. \/ cand'[d] = cand[d]
        \/ /\ cand[d].status \in {"PENDING_COMPARISON", "PENDING_REVIEW"}
           /\ cand'[d] = [cand[d] EXCEPT !.status = "CONFLICT"]
    BY <1>13 DEF BlockProposals
  <2>2. QED BY <1>0, <2>1, SameDrifts, ClosingDrifts DEF ProposalMoves, CandStatus, Intention
<1>14. QED
  BY <1>1, <1>3, <1>4, <1>5, <1>6, <1>7, <1>8, <1>9, <1>10, <1>12, <1>13, WhoWrites
  DEF ChangesCands, AdoptCommit, RetireNote, RetireClaims

LEMMA CandsStep ==
    ASSUME Tables, ThreadsHaveIntentions, [Next]_vars
    PROVE  CandsTyped'
<1>1. ClaimsTyped /\ CandsTyped BY DEF Tables
<1>2. ASSUME NEW d \in Candidates PROVE cand'[d] \in CandRows
  <2>1. ProposalMoves(d) BY ProposalsMove
  <2>2. cand[d] \in CandRows BY <1>1 DEF CandsTyped
  <2>3. claim[Target[d]].state \in ClaimStates BY <1>1, CandidateFacts DEF ClaimsTyped, ClaimRows
  <2>4. QED
    BY <2>1, <2>2, <2>3
    DEF ProposalMoves, Drifts, Begins, Abandons, Applied, Compared, CandRows, CandStatus
<1>3. cand' = [d \in Candidates |-> cand'[d]]
  <2>1. CASE UNCHANGED cand BY <1>1, <2>1 DEF CandsTyped
  <2>2. ASSUME NEW c, NEW r, cand' = [cand EXCEPT ![c] = r] PROVE cand' = [d \in Candidates |-> cand'[d]]
    BY <1>1, <2>2 DEF CandsTyped
  <2>3. ASSUME NEW c, NEW s, cand' = Marked(c, s) PROVE cand' = [d \in Candidates |-> cand'[d]]
    BY <2>1, <2>2, <2>3 DEF Marked
  <2>4. ASSUME NEW c \in Candidates,
               \/ ApproveRead(c) \/ SendApplication(c) \/ ReceiveApplied(c) \/ ReceiveRefused(c)
               \/ RecoverApplication(c)
        PROVE  cand' = [d \in Candidates |-> cand'[d]]
    BY <2>1, <2>3, <2>4
    DEF ApproveRead, SendApplication, ReceiveApplied, ReceiveRefused, RecoverApplication
  <2>5. ASSUME NEW c \in Candidates,
               Propose(c) \/ Reject(c) \/ PrepareApplication(c)
               \/ \E relation \in Relations : Compare(c, relation)
        PROVE  cand' = [d \in Candidates |-> cand'[d]]
    BY <2>1, <2>2, <2>5 DEF Propose, Reject, PrepareApplication, Compare
  <2>6. ASSUME NEW c \in Candidates, MarkApplied(c) \/ FinishReversion(c)
        PROVE  cand' = [d \in Candidates |-> cand'[d]]
    BY <2>1, <2>6 DEF MarkApplied, FinishReversion
  <2>7. ASSUME NEW n, BlockProposals(n) PROVE cand' = [d \in Candidates |-> cand'[d]]
    BY <2>7 DEF BlockProposals
  <2>8. QED
    BY <2>1, <2>4, <2>5, <2>6, <2>7, WhoWrites
    DEF ChangesCands, AdoptCommit, RetireNote, RetireClaims
<1>4. QED BY <1>2, <1>3 DEF CandsTyped

LEMMA BasesStep ==
    ASSUME Tables, ThreadsHaveIntentions, BasesAreTexts, [Next]_vars
    PROVE  BasesAreTexts'
<1>1. ClaimsTyped /\ CandsTyped /\ RowsTyped /\ ReversTyped BY DEF Tables
<1>2. SUFFICES ASSUME NEW d \in Candidates PROVE Based(d)'
  BY DEF BasesAreTexts
<1>3. /\ cand'[d].status \in Intention => cand'[d].base # NoFile
      /\ cand'[d].base # NoFile => cand'[d].revision > 0
      /\ cand'[d].status = "APPLIED" => cand'[d].was \in ClaimStates
      /\ cand[d].status = "APPLIED" => cand'[d].status = "APPLIED"
  <2>1. ProposalMoves(d) BY ProposalsMove
  <2>2. cand[d] \in CandRows /\ Based(d) BY <1>1 DEF CandsTyped, BasesAreTexts
  <2>3. claim[Target[d]].state \in ClaimStates BY <1>1, CandidateFacts DEF ClaimsTyped, ClaimRows
  <2>4. CASE Begins(d)
    <3>1. cand[d].base # NoFile
      BY <1>1, <2>4, TextFacts, CandidateFacts DEF Begins, Applicable, RowsTyped, NoteRows
    <3>2. QED BY <2>2, <2>4, <3>1 DEF Begins, Applicable, Based, CandRows
  <2>5. QED
    BY <2>1, <2>2, <2>3, <2>4
    DEF ProposalMoves, Drifts, Abandons, Applying, Applied, Compared, CandRows, Based, Intention
<1>4. rever'[d].status # "none" => rever[d].status # "none" \/ cand[d].status = "APPLIED"
  <2>1. CASE UNCHANGED rever BY <2>1
  <2>2. ASSUME NEW c \in Candidates, NEW r, rever' = [rever EXCEPT ![c] = r],
               c = d => rever[d].status # "none" \/ cand[d].status = "APPLIED"
        PROVE  rever'[d].status # "none" => rever[d].status # "none" \/ cand[d].status = "APPLIED"
    BY <1>1, <2>2 DEF ReversTyped
  <2>3. ASSUME NEW c \in Candidates, PreviewReversion(c) \/ BeginReversion(c)
        PROVE  rever'[d].status # "none" => rever[d].status # "none" \/ cand[d].status = "APPLIED"
    BY <2>2, <2>3 DEF PreviewReversion, BeginReversion, Revertible
  <2>4. ASSUME NEW c \in Candidates, SendReversion(c) \/ ReceiveReverted(c) \/ FinishReversion(c)
        PROVE  rever'[d].status # "none" => rever[d].status # "none" \/ cand[d].status = "APPLIED"
    <3>1. pc[c] \in {"revert", "reverted"} \/ Reverting(c)
      BY <2>4 DEF SendReversion, ReceiveReverted, FinishReversion
    <3>2. rever[c].status # "none" BY <3>1 DEF ThreadsHaveIntentions, Thread, Reverting
    <3>3. QED
      BY <2>1, <2>2, <2>4, <3>2 DEF SendReversion, ReceiveReverted, FinishReversion, ReversionConflict
  <2>5. QED BY <2>1, <2>3, <2>4, WhoWrites DEF ChangesRevers
<1>5. QED BY <1>3, <1>4 DEF Based, BasesAreTexts, Intention

LEMMA RowsStep ==
    ASSUME Tables, BasesAreTexts, ThreadsHaveIntentions, [Next]_vars
    PROVE  RowsTyped'
<1>1. RowsTyped /\ CandsTyped /\ FilesTyped BY DEF Tables
<1>2. ASSUME NEW n \in Notes, NEW t \in Texts, row' = [row EXCEPT ![n].text = t] PROVE RowsTyped'
  BY <1>1, <1>2 DEF RowsTyped, NoteRows
<1>3. ASSUME NEW c \in Candidates, cand[c].status \in Intention PROVE cand[c].base \in Texts
  BY <1>1, <1>3 DEF CandsTyped, CandRows, BasesAreTexts, Based, Intention
<1>4. ASSUME NEW c \in Candidates, MarkApplied(c) PROVE RowsTyped'
  <2>1. Result(c) \in Texts
    BY <1>3, <1>4, TextFacts DEF MarkApplied, ThreadsHaveIntentions, Thread, Applying, Intention, Result
  <2>2. QED BY <1>1, <1>2, <1>4, <2>1, CandidateFacts DEF MarkApplied, RowsTyped
<1>5. ASSUME NEW c \in Candidates, FinishReversion(c) PROVE RowsTyped'
  BY <1>1, <1>2, <1>3, <1>5, CandidateFacts DEF FinishReversion, Revertible, RowsTyped, Intention
<1>6. CASE AdoptCommit
  <2>1. adopting.note \in Notes /\ adopting.text \in Texts BY <1>1, <1>6 DEF AdoptCommit, FilesTyped
  <2>2. QED BY <1>1, <1>2, <1>6, <2>1 DEF AdoptCommit, RowsTyped
<1>7. ASSUME NEW n \in Notes, RetireNote(n) PROVE RowsTyped'
  BY <1>1, <1>7 DEF RetireNote, RowsTyped, NoteRows
<1>8. CASE UNCHANGED row BY <1>1, <1>8 DEF RowsTyped
<1>9. QED BY <1>4, <1>5, <1>6, <1>7, <1>8, WhoWrites DEF ChangesRows

-----------------------------------------------------------------------------
(* How a reversion moves                                                     *)
Waits(d)   == rever'[d].status = rever[d].status
Shown(d)   == rever[d].status = "none" /\ rever'[d].status = "PREVIEW"
Starts(d)  == BeginReversion(d) /\ rever'[d].status = "APPLYING" /\ pc'[d] = "revert"
Stops(d)   == Reverting(d) /\ rever'[d].status = "CONFLICT" /\ pc'[d] = "idle" /\ d \notin todo'
Reverted(d) == /\ FinishReversion(d) /\ Reverting(d) /\ rever'[d].status = "APPLIED"
               /\ pc'[d] = "idle" /\ d \notin todo'
               /\ Documents(d, rever[d].plan.texts, TRUE) /\ Revertible(d, d)

ReversionMoves(d) == Waits(d) \/ Shown(d) \/ Starts(d) \/ Stops(d) \/ Reverted(d)

LEMMA ReversionsMove ==
    ASSUME Tables, ThreadsHaveIntentions, [Next]_vars
    PROVE  ReversTyped' /\ \A d \in Candidates : ReversionMoves(d)
<1>1. ReversTyped /\ OthersTyped BY DEF Tables
<1>2. CASE UNCHANGED rever
  BY <1>1, <1>2 DEF ReversTyped, ReversionMoves, Waits
<1>3. ASSUME NEW c \in Candidates, NEW s \in ReverStatus, NEW plan,
             rever' = [rever EXCEPT ![c] = [status |-> s, plan |-> plan]],
             ReversionMoves(c)
      PROVE  ReversTyped' /\ \A d \in Candidates : ReversionMoves(d)
  BY <1>1, <1>3 DEF ReversTyped, ReversionMoves, Waits
<1>4. ASSUME NEW c \in Candidates, NEW s \in ReverStatus, rever' = [rever EXCEPT ![c].status = s]
      PROVE  rever' = [rever EXCEPT ![c] = [status |-> s, plan |-> rever[c].plan]]
  <2>1. rever[c] = [status |-> rever[c].status, plan |-> rever[c].plan] BY <1>1 DEF ReversTyped
  <2>2. [rever[c] EXCEPT !.status = s] = [status |-> s, plan |-> rever[c].plan] BY <2>1
  <2>3. rever' = [rever EXCEPT ![c] = [rever[c] EXCEPT !.status = s]] BY <1>4
  <2>4. QED BY <2>2, <2>3
<1>5. ASSUME NEW c \in Candidates, PreviewReversion(c)
      PROVE  ReversTyped' /\ \A d \in Candidates : ReversionMoves(d)
  <2>1. rever' = [rever EXCEPT ![c] = [status |-> "PREVIEW", plan |-> Picture(c)]]
    BY <1>5 DEF PreviewReversion
  <2>2. ReversionMoves(c) BY <1>1, <1>5, <2>1 DEF PreviewReversion, ReversTyped, ReversionMoves, Shown
  <2>3. QED BY <1>3, <2>1, <2>2 DEF ReverStatus
<1>6. ASSUME NEW c \in Candidates, BeginReversion(c)
      PROVE  ReversTyped' /\ \A d \in Candidates : ReversionMoves(d)
  <2>1. rever' = [rever EXCEPT ![c].status = "APPLYING"] /\ Goto(c, "revert")
    BY <1>6 DEF BeginReversion
  <2>2. rever' = [rever EXCEPT ![c] = [status |-> "APPLYING", plan |-> rever[c].plan]]
    BY <1>4, <2>1 DEF ReverStatus
  <2>3. ReversionMoves(c)
    BY <1>1, <1>6, <2>1, <2>2 DEF ReversTyped, ReversionMoves, Starts, Goto, OthersTyped
  <2>4. QED BY <1>3, <2>2, <2>3 DEF ReverStatus
<1>7. ASSUME NEW c \in Candidates, pc[c] # "idle", Reverting(c), todo' = todo, ReversionConflict(c)
      PROVE  ReversTyped' /\ \A d \in Candidates : ReversionMoves(d)
  <2>1. rever' = [rever EXCEPT ![c].status = "CONFLICT"] /\ Goto(c, "idle")
    BY <1>7 DEF ReversionConflict
  <2>2. rever' = [rever EXCEPT ![c] = [status |-> "CONFLICT", plan |-> rever[c].plan]]
    BY <1>4, <2>1 DEF ReverStatus
  <2>3. c \notin todo' BY <1>7 DEF ThreadsHaveIntentions, Thread
  <2>4. ReversionMoves(c)
    BY <1>1, <1>7, <2>1, <2>2, <2>3 DEF ReversTyped, ReversionMoves, Stops, Goto, OthersTyped
  <2>5. QED BY <1>3, <2>2, <2>4 DEF ReverStatus
<1>8. ASSUME NEW c \in Candidates, SendReversion(c) \/ ReceiveReverted(c) \/ FinishReversion(c)
      PROVE  pc[c] # "idle" /\ Reverting(c) /\ todo' = todo
  BY <1>8 DEF SendReversion, ReceiveReverted, FinishReversion, ThreadsHaveIntentions, Thread
<1>9. ASSUME NEW c \in Candidates, SendReversion(c) \/ ReceiveReverted(c)
      PROVE  ReversTyped' /\ \A d \in Candidates : ReversionMoves(d)
  BY <1>2, <1>7, <1>8, <1>9 DEF SendReversion, ReceiveReverted
<1>10. ASSUME NEW c \in Candidates, FinishReversion(c)
       PROVE  ReversTyped' /\ \A d \in Candidates : ReversionMoves(d)
  <2>1. CASE ReversionConflict(c) BY <1>7, <1>8, <1>10, <2>1
  <2>2. CASE ~ReversionConflict(c)
    <3>1. /\ rever' = [rever EXCEPT ![c].status = "APPLIED"] /\ Goto(c, "idle")
          /\ Documents(c, rever[c].plan.texts, TRUE) /\ Revertible(c, c)
      BY <1>10, <2>2 DEF FinishReversion
    <3>2. rever' = [rever EXCEPT ![c] = [status |-> "APPLIED", plan |-> rever[c].plan]]
      BY <1>4, <3>1 DEF ReverStatus
    <3>3. c \notin todo' BY <1>8, <1>10 DEF ThreadsHaveIntentions, Thread
    <3>4. ReversionMoves(c)
      BY <1>1, <1>8, <1>10, <3>1, <3>2, <3>3
      DEF ReversTyped, ReversionMoves, Reverted, Goto, OthersTyped
    <3>5. QED BY <1>3, <3>2, <3>4 DEF ReverStatus
  <2>3. QED BY <2>1, <2>2
<1>11. QED BY <1>2, <1>5, <1>6, <1>9, <1>10, WhoWrites DEF ChangesRevers

-----------------------------------------------------------------------------
(* A thread has the intention it works for                                   *)

(* The steps of a thread, and what recover() has still to visit               *)
StepMoves(d) ==
    \/ pc'[d] = pc[d]
    \/ pc'[d] = "idle" /\ d \notin todo'
    \/ pc'[d] = "read" /\ d \notin todo' /\ cand[d].status \notin Intention
    \/ pc'[d] = "intent" /\ Begins(d)
    \/ pc'[d] \in {"asked", "replaced"} /\ d \notin todo' /\ Applying(d)
    \/ pc'[d] \in {"asked", "revert", "reverted"} /\ d \notin todo' /\ Reverting(d)
    \/ pc'[d] = "revert" /\ Starts(d)
    \/ pc[d] = "asked" /\ pc'[d] \in {"answered", "refused"}
VisitMoves(d) == (d \in todo /\ phase' \in {phase, "failed"}) \/ d \notin todo'

LEMMA ThreadKept ==
    ASSUME Tables, ThreadsHaveIntentions, [Next]_vars, NEW d \in Candidates,
           StepMoves(d), VisitMoves(d)
    PROVE  Thread(d)'
<1>1. Thread(d) BY DEF ThreadsHaveIntentions
<1>2. CASE pc'[d] = "idle" /\ d \notin todo' BY <1>2 DEF Thread
<1>3. CASE Begins(d)
  <2>1. pc[d] = "read" /\ pc'[d] = "intent" /\ phase' = phase /\ todo' = todo
    BY <1>3 DEF Begins, PrepareApplication
  <2>2. Applying(d)'
    BY <1>3 DEF Begins, Applying, CandRows, Tables, CandsTyped
  <2>3. QED BY <1>1, <2>1, <2>2 DEF Thread
<1>4. CASE Starts(d)
  <2>1. pc'[d] = "revert" /\ Reverting(d)' /\ phase = "up" /\ todo' = todo
    BY <1>4 DEF Starts, BeginReversion, Reverting
  <2>2. QED BY <1>1, <2>1 DEF Thread
<1>5. CASE Applied(d)
  <2>1. pc[d] = "replaced" /\ pc'[d] = "idle" /\ todo' = todo
    BY <1>5 DEF Applied, MarkApplied, Goto, Tables, OthersTyped
  <2>2. QED BY <1>1, <1>2, <2>1 DEF Thread
<1>6. CASE ~Begins(d) /\ ~Starts(d) /\ ~Applied(d) /\ ~(pc'[d] = "idle" /\ d \notin todo')
  <2>1. Drifts(d) \/ Compared(d) BY <1>6, ProposalsMove DEF ProposalMoves, Abandons
  <2>2. Waits(d) \/ Shown(d) BY <1>6, ReversionsMove DEF ReversionMoves, Stops, Reverted
  <2>3. /\ Applying(d)' <=> Applying(d)
        /\ Reverting(d)' <=> Reverting(d)
        /\ cand'[d].status \in Intention <=> cand[d].status \in Intention
    BY <2>1, <2>2 DEF Drifts, Compared, Waits, Shown, Intention, Applying, Reverting
  <2>4. CASE pc'[d] = pc[d]
    BY <1>1, <2>3, <2>4 DEF Thread, VisitMoves, Intention
  <2>5. CASE pc'[d] # pc[d]
    BY <1>1, <1>6, <2>3, <2>5 DEF StepMoves, VisitMoves, Thread, Intention
  <2>6. QED BY <2>4, <2>5
<1>7. QED BY <1>2, <1>3, <1>4, <1>5, <1>6

(* The steps of one thread, and what the bridge answers it                    *)
LEMMA OneThread ==
    ASSUME Tables, ThreadsHaveIntentions, [Next]_vars, NEW c \in Candidates, StepMoves(c),
           pc' = [pc EXCEPT ![c] = pc'[c]], todo' \in {todo, todo \ {c}},
           phase' \in {phase, "failed"}
    PROVE  ThreadsHaveIntentions'
<1>1. SUFFICES ASSUME NEW d \in Candidates PROVE Thread(d)'
  BY DEF ThreadsHaveIntentions
<1>2. StepMoves(d)
  <2>1. d # c => pc'[d] = pc[d] BY DEF Tables, OthersTyped
  <2>2. QED BY <2>1 DEF StepMoves
<1>3. VisitMoves(d) BY DEF VisitMoves
<1>4. QED BY <1>2, <1>3, ThreadKept

LEMMA GoingTo ==
    ASSUME Tables, NEW c \in Candidates, NEW step, Goto(c, step)
    PROVE  pc' = [pc EXCEPT ![c] = pc'[c]] /\ pc'[c] = step
BY DEF Goto, Tables, OthersTyped

LEMMA Answering ==
    ASSUME Tables, NEW cmd, NEW step \in {"answered", "refused"}, Answer(cmd, step), NEW d \in Candidates
    PROVE  StepMoves(d)
BY DEF Answer, StepMoves, Tables, OthersTyped

LEMMA ThreadsStep ==
    ASSUME Tables, ThreadsHaveIntentions, [Next]_vars
    PROVE  ThreadsHaveIntentions'
<1>1. ASSUME \A d \in Candidates : StepMoves(d), \A d \in Candidates : VisitMoves(d)
      PROVE  ThreadsHaveIntentions'
  BY <1>1, ThreadKept DEF ThreadsHaveIntentions
<1>2. CASE UNCHANGED <<pc, todo, phase>>
  BY <1>1, <1>2 DEF StepMoves, VisitMoves
<1>3. ASSUME NEW c \in Candidates, ApproveRead(c) PROVE ThreadsHaveIntentions'
  <2>1. CASE UNCHANGED pc BY <1>2, <1>3, <2>1 DEF ApproveRead
  <2>2. CASE Goto(c, "read")
    <3>1. phase = "up" /\ c \notin todo /\ cand[c].status = "PENDING_REVIEW"
      BY <1>3 DEF ApproveRead, ThreadsHaveIntentions, Thread
    <3>2. StepMoves(c) BY <1>3, <2>2, <3>1, GoingTo DEF ApproveRead, StepMoves, Intention
    <3>3. QED BY <1>3, <2>2, <3>2, OneThread, GoingTo DEF ApproveRead
  <2>3. QED BY <1>3, <2>1, <2>2 DEF ApproveRead
<1>4. ASSUME NEW c \in Candidates, PrepareApplication(c) PROVE ThreadsHaveIntentions'
  <2>1. c \notin todo BY <1>4 DEF PrepareApplication, ThreadsHaveIntentions, Thread
  <2>2. CASE Goto(c, "idle")
    BY <1>4, <2>1, <2>2, OneThread, GoingTo DEF PrepareApplication, StepMoves
  <2>3. CASE ~Goto(c, "idle")
    <3>1. Goto(c, "intent") /\ Begins(c)
      <4>1. Goto(c, "intent") /\ Applicable(c) /\ cand' = [cand EXCEPT ![c].status = "APPLYING"]
        BY <1>4, <2>3 DEF PrepareApplication
      <4>2. QED BY <1>4, <4>1, GoingTo DEF Begins, Tables, CandsTyped
    <3>2. QED BY <1>4, <3>1, OneThread, GoingTo DEF PrepareApplication, StepMoves
  <2>4. QED BY <2>2, <2>3
<1>5. ASSUME NEW c \in Candidates,
             \/ SendApplication(c) \/ ReceiveApplied(c) \/ ReceiveRefused(c) \/ MarkApplied(c)
             \/ NoAnswer(c) \/ SendReversion(c) \/ ReceiveReverted(c) \/ FinishReversion(c)
      PROVE  ThreadsHaveIntentions'
  <2>1. pc[c] # "idle" /\ todo' = todo /\ phase' \in {phase, "failed"}
    BY <1>5
    DEF SendApplication, ReceiveApplied, ReceiveRefused, MarkApplied, NoAnswer, SendReversion,
        ReceiveReverted, FinishReversion
  <2>2. c \notin todo' BY <2>1 DEF ThreadsHaveIntentions, Thread
  <2>3. \/ Goto(c, "idle")
        \/ (Goto(c, "asked") \/ Goto(c, "replaced")) /\ Applying(c)
        \/ (Goto(c, "asked") \/ Goto(c, "reverted")) /\ Reverting(c)
    BY <1>5
    DEF SendApplication, ReceiveApplied, ReceiveRefused, MarkApplied, NoAnswer, SendReversion,
        ReceiveReverted, FinishReversion, ReversionConflict, Ask, ThreadsHaveIntentions, Thread
  <2>4. QED BY <2>1, <2>2, <2>3, OneThread, GoingTo DEF StepMoves
<1>6. ASSUME NEW c \in Candidates, BeginReversion(c) PROVE ThreadsHaveIntentions'
  <2>1. Goto(c, "revert") /\ rever' = [rever EXCEPT ![c].status = "APPLYING"]
    BY <1>6 DEF BeginReversion
  <2>2. Starts(c)
    <3>1. rever[c] = [status |-> rever[c].status, plan |-> rever[c].plan] BY DEF Tables, ReversTyped
    <3>2. [rever[c] EXCEPT !.status = "APPLYING"].status = "APPLYING" BY <3>1
    <3>3. rever'[c] = [rever[c] EXCEPT !.status = "APPLYING"] BY <2>1 DEF Tables, ReversTyped
    <3>4. QED BY <1>6, <2>1, <3>2, <3>3, GoingTo DEF Starts
  <2>3. QED BY <1>6, <2>1, <2>2, OneThread, GoingTo DEF BeginReversion, StepMoves
<1>7. ASSUME NEW c \in Candidates, RecoverApplication(c) PROVE ThreadsHaveIntentions'
  <2>1. Applying(c) /\ pc[c] = "idle" /\ todo' = todo \ {c} /\ phase' = phase
    BY <1>7 DEF RecoverApplication, Ready, ThreadsHaveIntentions, Thread
  <2>2. \/ UNCHANGED pc \/ Goto(c, "idle") \/ Goto(c, "asked") \/ Goto(c, "replaced")
    BY <1>7 DEF RecoverApplication, Ask
  <2>3. CASE UNCHANGED pc BY <1>1, <2>1, <2>3 DEF StepMoves, VisitMoves
  <2>4. QED BY <2>1, <2>2, <2>3, OneThread, GoingTo DEF StepMoves
<1>8. ASSUME NEW c \in Candidates, RecoverReversion(c) PROVE ThreadsHaveIntentions'
  <2>1. Reverting(c) /\ todo' = todo \ {c} /\ Goto(c, "revert") /\ phase' = phase
    BY <1>8 DEF RecoverReversion, Ready, ThreadsHaveIntentions, Thread
  <2>2. QED BY <2>1, OneThread, GoingTo DEF StepMoves
<1>9. ASSUME Crash \/ Start \/ RecoverReversions PROVE ThreadsHaveIntentions'
  <2>1. \A d \in Candidates : pc'[d] = "idle"
    BY <1>9 DEF Crash, Start, RecoverReversions
  <2>2. UNCHANGED <<cand, rever>> BY <1>9 DEF Crash, Start, RecoverReversions, database
  <2>3. \/ todo' = {}
        \/ phase' = "applications" /\ todo' = {c \in Candidates : Applying(c)}
        \/ phase' = "reversions" /\ todo' = {c \in Candidates : Reverting(c)}
    BY <1>9 DEF Crash, Start, RecoverReversions, PendingReversions
  <2>4. QED BY <2>1, <2>2, <2>3 DEF ThreadsHaveIntentions, Thread, Applying, Reverting
<1>10. ASSUME FinishStart PROVE ThreadsHaveIntentions'
  BY <1>1, <1>10 DEF FinishStart, Reconcile, StepMoves, VisitMoves
<1>11. CASE Obsidian
  <2>1. UNCHANGED <<todo, phase>>
    BY <1>11 DEF Obsidian, BridgeKnown, BridgePrepare, BridgeWrite, BridgeReceipt, ObsidianStops, process
  <2>2. CASE UNCHANGED pc BY <1>2, <2>1, <2>2
  <2>3. ASSUME NEW cmd, NEW step \in {"answered", "refused"}, Answer(cmd, step)
        PROVE  ThreadsHaveIntentions'
    <3>1. \A d \in Candidates : StepMoves(d) BY <2>3, Answering
    <3>2. QED BY <1>1, <2>1, <3>1 DEF VisitMoves
  <2>4. ASSUME NEW cmd, BridgeKnown(cmd) PROVE ThreadsHaveIntentions'
    BY <2>3, <2>4 DEF BridgeKnown
  <2>5. ASSUME NEW cmd, BridgePrepare(cmd) PROVE ThreadsHaveIntentions'
    BY <2>2, <2>3, <2>5 DEF BridgePrepare
  <2>6. ASSUME BridgeWrite \/ BridgeReceipt \/ ObsidianStops PROVE ThreadsHaveIntentions'
    BY <2>2, <2>3, <2>6 DEF BridgeWrite, BridgeReceipt, ObsidianStops, process
  <2>7. QED BY <1>11, <2>4, <2>5, <2>6 DEF Obsidian
<1>12. CASE Proposals \/ Person \/ \E n \in Notes : ReconcileOne(n)
  BY <1>2, <1>12
  DEF Proposals, Propose, Reject, Compare, Person, AdoptRead, RetireNote, EditFile, AdoptCommit,
      SetManualLock, ReconcileOne, Reconcile, process
<1>13. CASE \E c \in Candidates : PreviewReversion(c)
  BY <1>2, <1>13 DEF PreviewReversion, process
<1>14. CASE UNCHANGED vars BY <1>2, <1>14 DEF vars, process
<1>15. QED
  BY <1>3, <1>4, <1>5, <1>6, <1>7, <1>8, <1>9, <1>10, <1>11, <1>12, <1>13, <1>14
  DEF Next, Applications, Reversions, Startup

-----------------------------------------------------------------------------
(* The other tables, the files and the bridge                                *)

(* A request applies the change of its candidate, or takes it out             *)
Fitting ==
    {cmd \in Commands : IF cmd.id[2] = 0 THEN cmd.base = cmd.result \cup {cmd.id[1]}
                                         ELSE cmd.result = cmd.base \cup {cmd.id[1]}}
BridgeTyped ==
    /\ queue \subseteq Fitting
    /\ busy \in [cmd : Fitting \cup {NoCommand}, done : BOOLEAN]
    /\ receipts \in [RequestIds -> {"none", "PREPARED", "APPLIED", "CONFLICT", "UNCERTAIN"}]
    /\ written \subseteq RequestIds

LEMMA BridgeInit == Init => BridgeTyped
BY DEF Init, BridgeTyped

(* What a thread with an intention asks for *)
LEMMA CommandFits ==
    ASSUME CandsTyped, BasesAreTexts, NEW c \in Candidates, Applying(c) \/ Reverting(c)
    PROVE  CommandOf(c) \in Fitting
<1>1. cand[c] \in CandRows BY DEF CandsTyped
<1>2. cand[c].status \in Intention BY DEF BasesAreTexts, Based, Applying, Reverting, Intention
<1>3. cand[c].base \in Texts /\ cand[c].revision \in 1..MaxRevision
  BY <1>1, <1>2, BoundsAssumption DEF CandRows, BasesAreTexts, Based, Intention
<1>4. Result(c) \in Texts BY <1>3, TextFacts DEF Result
<1>5. <<c, 0>> \in RequestIds /\ <<c, cand[c].revision>> \in RequestIds
  BY <1>3, BoundsAssumption DEF RequestIds
<1>6. CASE Reverting(c)
  BY <1>3, <1>4, <1>5, <1>6 DEF CommandOf, Fitting, Commands, Result
<1>7. CASE ~Reverting(c)
  BY <1>3, <1>4, <1>5, <1>7 DEF CommandOf, Fitting, Commands, Result
<1>8. QED BY <1>6, <1>7

LEMMA CommandFacts ==
    ASSUME NEW cmd \in Fitting
    PROVE  /\ cmd.id \in RequestIds /\ cmd.id[1] \in Candidates /\ FileOf(cmd) \in Notes
           /\ cmd.base \in Texts /\ cmd.result \in Texts /\ cmd # NoCommand
<1>1. cmd.id \in RequestIds /\ cmd.base \in Texts /\ cmd.result \in Texts
  BY DEF Fitting, Commands
<1>2. cmd.id[1] \in Candidates BY <1>1 DEF RequestIds
<1>3. cmd.id[1] # 0 BY <1>2, CandidateFacts
<1>4. QED BY <1>1, <1>2, <1>3, CandidateFacts DEF FileOf, NoCommand

(* Who sends requests, and who works at them *)
LEMMA QueueGrows ==
    ASSUME Tables, BasesAreTexts, ThreadsHaveIntentions, [Next]_vars
    PROVE  queue' \subseteq queue \cup Fitting
<1>1. ASSUME NEW c \in Candidates, Ask(c), Applying(c) \/ Reverting(c)
      PROVE  queue' \subseteq queue \cup Fitting
  BY <1>1, CommandFits DEF Ask, Tables
<1>2. CASE UNCHANGED queue BY <1>2
<1>3. ASSUME NEW c \in Candidates,
             \/ SendApplication(c) \/ ReceiveApplied(c) \/ ReceiveRefused(c) \/ MarkApplied(c)
             \/ NoAnswer(c) \/ SendReversion(c) \/ ReceiveReverted(c) \/ FinishReversion(c)
      PROVE  queue' \subseteq queue \cup Fitting
  BY <1>1, <1>2, <1>3
  DEF SendApplication, ReceiveApplied, ReceiveRefused, MarkApplied, NoAnswer, SendReversion,
      ReceiveReverted, FinishReversion, obsidian, ThreadsHaveIntentions, Thread
<1>4. ASSUME NEW c \in Candidates, RecoverApplication(c) PROVE queue' \subseteq queue \cup Fitting
  <2>1. Applying(c) BY <1>4 DEF RecoverApplication, Ready, ThreadsHaveIntentions, Thread
  <2>2. QED BY <1>1, <1>2, <1>4, <2>1 DEF RecoverApplication
<1>5. ASSUME NEW c \in Candidates,
             \/ ApproveRead(c) \/ PrepareApplication(c) \/ PreviewReversion(c) \/ BeginReversion(c)
             \/ RecoverReversion(c)
      PROVE  queue' \subseteq queue \cup Fitting
  BY <1>5
  DEF ApproveRead, PrepareApplication, PreviewReversion, BeginReversion, RecoverReversion, obsidian
<1>6. CASE Obsidian
  BY <1>6 DEF Obsidian, BridgeKnown, BridgePrepare, BridgeWrite, BridgeReceipt, ObsidianStops
<1>7. ASSUME Crash \/ Start \/ RecoverReversions \/ FinishStart
      PROVE  queue' \subseteq queue \cup Fitting
  BY <1>7 DEF Crash, Start, RecoverReversions, FinishStart, Reconcile, obsidian
<1>8. CASE Proposals \/ Person \/ \E n \in Notes : ReconcileOne(n)
  BY <1>8
  DEF Proposals, Propose, Reject, Compare, Person, AdoptRead, RetireNote, EditFile, AdoptCommit,
      SetManualLock, ReconcileOne, Reconcile, obsidian
<1>9. CASE UNCHANGED vars BY <1>9 DEF vars, obsidian
<1>10. QED
  BY <1>3, <1>4, <1>5, <1>6, <1>7, <1>8, <1>9 DEF Next, Applications, Reversions, Startup

LEMMA OnlyTheBridge ==
    ASSUME [Next]_vars
    PROVE  Obsidian \/ UNCHANGED <<busy, receipts, written>>
<1>1. CASE Proposals \/ Person \/ \E n \in Notes : ReconcileOne(n)
  BY <1>1
  DEF Proposals, Propose, Reject, Compare, Person, AdoptRead, RetireNote, EditFile, AdoptCommit,
      SetManualLock, ReconcileOne, Reconcile, obsidian
<1>2. CASE Applications
  BY <1>2
  DEF Applications, ApproveRead, PrepareApplication, SendApplication, ReceiveApplied,
      ReceiveRefused, MarkApplied, NoAnswer, obsidian
<1>3. CASE Reversions
  BY <1>3
  DEF Reversions, PreviewReversion, BeginReversion, SendReversion, ReceiveReverted,
      FinishReversion, obsidian
<1>4. CASE Startup
  BY <1>4
  DEF Startup, Crash, Start, RecoverReversions, FinishStart, RecoverApplication,
      RecoverReversion, Reconcile, obsidian
<1>5. CASE UNCHANGED vars BY <1>5 DEF vars, obsidian
<1>6. QED BY <1>1, <1>2, <1>3, <1>4, <1>5 DEF Next

LEMMA BridgeStep ==
    ASSUME Tables, BasesAreTexts, ThreadsHaveIntentions, BridgeTyped, [Next]_vars
    PROVE  BridgeTyped'
<1>1. queue' \subseteq Fitting BY QueueGrows DEF BridgeTyped
<1>2. CASE UNCHANGED <<busy, receipts, written>> BY <1>1, <1>2 DEF BridgeTyped
<1>3. \A cmd \in Fitting : cmd.id \in RequestIds BY CommandFacts
<1>4. ASSUME \/ busy' = busy \/ busy' = [busy EXCEPT !.done = TRUE]
             \/ busy' = [cmd |-> NoCommand, done |-> FALSE]
             \/ \E cmd \in queue : busy' = [cmd |-> cmd, done |-> FALSE],
             \/ UNCHANGED receipts
             \/ \E id \in RequestIds, s \in {"PREPARED", "APPLIED", "CONFLICT", "UNCERTAIN"} :
                    receipts' = [receipts EXCEPT ![id] = s],
             UNCHANGED written \/ \E id \in RequestIds : written' = written \cup {id}
      PROVE  BridgeTyped'
  <2>1. busy' \in [cmd : Fitting \cup {NoCommand}, done : BOOLEAN]
    <3>1. busy \in [cmd : Fitting \cup {NoCommand}, done : BOOLEAN] /\ queue \subseteq Fitting
      BY DEF BridgeTyped
    <3>2. [busy EXCEPT !.done = TRUE] \in [cmd : Fitting \cup {NoCommand}, done : BOOLEAN]
      BY <3>1
    <3>3. \A cmd \in queue : [cmd |-> cmd, done |-> FALSE] \in [cmd : Fitting \cup {NoCommand}, done : BOOLEAN]
      BY <3>1
    <3>4. [cmd |-> NoCommand, done |-> FALSE] \in [cmd : Fitting \cup {NoCommand}, done : BOOLEAN]
      OBVIOUS
    <3>5. QED BY <1>4, <3>1, <3>2, <3>3, <3>4
  <2>2. receipts' \in [RequestIds -> {"none", "PREPARED", "APPLIED", "CONFLICT", "UNCERTAIN"}]
    BY <1>4 DEF BridgeTyped
  <2>3. written' \subseteq RequestIds BY <1>4 DEF BridgeTyped
  <2>4. QED BY <1>1, <2>1, <2>2, <2>3 DEF BridgeTyped
<1>5. ASSUME NEW cmd \in queue, BridgeKnown(cmd) \/ BridgePrepare(cmd) PROVE BridgeTyped'
  <2>1. cmd.id \in RequestIds BY <1>3 DEF BridgeTyped
  <2>2. CASE BridgeKnown(cmd)
    <3>1. UNCHANGED <<busy, written>> BY <2>2 DEF BridgeKnown
    <3>2. \/ UNCHANGED receipts
          \/ \E s \in {"APPLIED", "UNCERTAIN"} : receipts' = [receipts EXCEPT ![cmd.id] = s]
      BY <2>2 DEF BridgeKnown
    <3>3. QED BY <1>4, <2>1, <3>1, <3>2
  <2>3. CASE BridgePrepare(cmd)
    <3>1. UNCHANGED written BY <2>3 DEF BridgePrepare
    <3>2. \/ UNCHANGED <<receipts, busy>>
          \/ /\ receipts' = [receipts EXCEPT ![cmd.id] = "PREPARED"]
             /\ busy' = [cmd |-> cmd, done |-> FALSE]
      BY <2>3 DEF BridgePrepare
    <3>3. QED BY <1>4, <2>1, <3>1, <3>2
  <2>4. QED BY <1>5, <2>2, <2>3
<1>6. ASSUME BridgeWrite \/ BridgeReceipt PROVE BridgeTyped'
  <2>1. busy.cmd.id \in RequestIds BY <1>3, <1>6 DEF BridgeWrite, BridgeReceipt, BridgeTyped, Idle
  <2>2. CASE BridgeWrite
    <3>1. \/ /\ UNCHANGED receipts /\ written' = written \cup {busy.cmd.id}
             /\ busy' = [busy EXCEPT !.done = TRUE]
          \/ /\ UNCHANGED written /\ busy' = [cmd |-> NoCommand, done |-> FALSE]
             /\ \E s \in {"UNCERTAIN", "CONFLICT"} : receipts' = [receipts EXCEPT ![busy.cmd.id] = s]
      BY <2>2 DEF BridgeWrite
    <3>2. QED BY <1>4, <2>1, <3>1
  <2>3. CASE BridgeReceipt
    BY <1>4, <2>1, <2>3 DEF BridgeReceipt
  <2>4. QED BY <1>6, <2>2, <2>3
<1>7. CASE ObsidianStops BY <1>4, <1>7 DEF ObsidianStops
<1>8. QED BY <1>2, <1>5, <1>6, <1>7, OnlyTheBridge DEF Obsidian

LEMMA FilesStep ==
    ASSUME Tables, BridgeTyped, [Next]_vars
    PROVE  FilesTyped'
<1>1. FilesTyped BY DEF Tables
<1>2. vault' \in [Notes -> {NoFile} \cup Texts]
  <2>1. CASE BridgeWrite
    <3>1. busy.cmd \in Fitting BY <2>1 DEF BridgeWrite, Idle, BridgeTyped
    <3>2. QED BY <1>1, <2>1, <3>1, CommandFacts DEF BridgeWrite, FilesTyped
  <2>2. QED BY <1>1, <2>1, WhoWrites DEF ChangesFiles, EditFile, FilesTyped
<1>3. \/ UNCHANGED adopting
      \/ adopting' = [note |-> NoFile, text |-> NoFile]
      \/ \E n \in Notes : Adoptable(n) /\ adopting' = [note |-> n, text |-> vault[n]]
  <2>1. CASE Person
    BY <2>1 DEF Person, AdoptRead, RetireNote, EditFile, AdoptCommit, SetManualLock, process
  <2>2. CASE Proposals \/ \E n \in Notes : ReconcileOne(n)
    BY <2>2 DEF Proposals, Propose, Reject, Compare, ReconcileOne, Reconcile, process
  <2>3. CASE Applications
    BY <2>3
    DEF Applications, ApproveRead, PrepareApplication, SendApplication, ReceiveApplied,
        ReceiveRefused, MarkApplied, NoAnswer
  <2>4. CASE Reversions
    BY <2>4
    DEF Reversions, PreviewReversion, BeginReversion, SendReversion, ReceiveReverted,
        FinishReversion, process
  <2>5. CASE Obsidian
    BY <2>5 DEF Obsidian, BridgeKnown, BridgePrepare, BridgeWrite, BridgeReceipt, ObsidianStops, process
  <2>6. CASE Startup
    BY <2>6
    DEF Startup, Crash, Start, RecoverReversions, FinishStart, RecoverApplication,
        RecoverReversion, Reconcile
  <2>7. CASE UNCHANGED vars BY <2>7 DEF vars, process
  <2>8. QED BY <2>1, <2>2, <2>3, <2>4, <2>5, <2>6, <2>7 DEF Next
<1>4. QED BY <1>1, <1>2, <1>3 DEF FilesTyped, Adoptable

(* The small tables *)
Recons == [Notes -> {"IN_SYNC", "CONFLICT", "MISSING"}]
Lasts  == [Notes -> [why : {"none", "update", "reversion", "edit"}, cand : Candidates \cup {Nobody}]]
Helds  == [Candidates -> 0..MaxRevision]
Steps  == [Candidates -> {"idle", "read", "intent", "asked", "answered", "refused", "replaced",
                          "revert", "reverted"}]

LEMMA GotoTyped ==
    ASSUME pc \in Steps, NEW c \in Candidates,
           NEW step \in {"idle", "read", "intent", "asked", "answered", "refused", "replaced",
                         "revert", "reverted"},
           Goto(c, step)
    PROVE  pc' \in Steps
BY DEF Goto, Steps

LEMMA OthersStep ==
    ASSUME Tables, [Next]_vars
    PROVE  OthersTyped'
<1>1. /\ recon \in Recons /\ last \in Lasts /\ held \in Helds /\ pc \in Steps
      /\ phase \in {"up", "down", "applications", "reversions", "failed"}
      /\ todo \subseteq Candidates /\ faults \in 0..MaxFaults
  BY DEF Tables, OthersTyped, Recons, Lasts, Helds, Steps
<1>2. SUFFICES /\ recon' \in Recons /\ last' \in Lasts /\ held' \in Helds /\ pc' \in Steps
               /\ phase' \in {"up", "down", "applications", "reversions", "failed"}
               /\ todo' \subseteq Candidates /\ faults' \in 0..MaxFaults
  BY DEF OthersTyped, Recons, Lasts, Helds, Steps
<1>3. faults < MaxFaults => faults + 1 \in 0..MaxFaults BY <1>1, BoundsAssumption
<1>4. ASSUME NEW c \in Candidates, Ask(c) PROVE pc' \in Steps /\ faults' \in 0..MaxFaults
  BY <1>1, <1>3, <1>4, GotoTyped DEF Ask
<1>5. ASSUME NEW c \in Candidates, ReversionConflict(c) PROVE recon' \in Recons /\ pc' \in Steps
  BY <1>1, <1>5, GotoTyped, CandidateFacts DEF ReversionConflict, Recons
<1>6. ASSUME NEW cmd, NEW step \in {"answered", "refused"}, Answer(cmd, step) PROVE pc' \in Steps
  BY <1>1, <1>6 DEF Answer, Steps
<1>7. ASSUME NEW notes, Reconcile(notes) PROVE recon' \in Recons
  BY <1>1, <1>7 DEF Reconcile, Observed, Recons
<1>8. ASSUME Proposals PROVE UNCHANGED <<recon, last, held, pc, phase, todo, faults>>
  BY <1>8 DEF Proposals, Propose, Reject, Compare, process
<1>9. ASSUME NEW c \in Candidates, ApproveRead(c)
      PROVE  /\ UNCHANGED <<recon, last, phase, todo, faults>>
             /\ held' \in Helds /\ pc' \in Steps
  <2>1. cand[c].revision \in 0..MaxRevision BY DEF Tables, CandsTyped, CandRows
  <2>2. QED BY <1>1, <1>9, <2>1, GotoTyped DEF ApproveRead, Helds
<1>10. ASSUME NEW c \in Candidates, PrepareApplication(c)
       PROVE  /\ UNCHANGED <<recon, phase, todo, faults>>
              /\ last' \in Lasts /\ held' \in Helds /\ pc' \in Steps
  <2>1. held' \in Helds BY <1>1, <1>10, BoundsAssumption DEF PrepareApplication, Helds
  <2>2. last' \in Lasts BY <1>1, <1>10, CandidateFacts DEF PrepareApplication, Lasts
  <2>3. QED BY <1>1, <1>10, <2>1, <2>2, GotoTyped DEF PrepareApplication
<1>11. ASSUME NEW c \in Candidates, SendApplication(c)
       PROVE  UNCHANGED <<recon, last, held, phase, todo>> /\ pc' \in Steps /\ faults' \in 0..MaxFaults
  BY <1>1, <1>4, <1>11, GotoTyped DEF SendApplication
<1>12. ASSUME NEW c \in Candidates, ReceiveApplied(c) \/ ReceiveRefused(c)
       PROVE  UNCHANGED <<recon, last, held, phase, todo, faults>> /\ pc' \in Steps
  BY <1>1, <1>12, GotoTyped DEF ReceiveApplied, ReceiveRefused
<1>13. ASSUME NEW c \in Candidates, MarkApplied(c)
       PROVE  /\ UNCHANGED <<recon, last, held, todo, faults>> /\ pc' \in Steps
              /\ phase' \in {phase, "up", "failed"}
  BY <1>1, <1>13, GotoTyped DEF MarkApplied
<1>14. ASSUME NEW c \in Candidates, NoAnswer(c)
       PROVE  UNCHANGED <<recon, last, held, phase, todo>> /\ pc' \in Steps /\ faults' \in 0..MaxFaults
  BY <1>1, <1>3, <1>14, GotoTyped DEF NoAnswer, database
<1>15. ASSUME NEW c \in Candidates, PreviewReversion(c)
       PROVE  UNCHANGED <<recon, last, held, pc, phase, todo, faults>>
  BY <1>15 DEF PreviewReversion, process
<1>16. ASSUME NEW c \in Candidates, BeginReversion(c)
       PROVE  UNCHANGED <<recon, held, phase, todo, faults>> /\ last' \in Lasts /\ pc' \in Steps
  BY <1>1, <1>16, GotoTyped, CandidateFacts DEF BeginReversion, Lasts
<1>17. ASSUME NEW c \in Candidates, SendReversion(c)
       PROVE  /\ UNCHANGED <<last, held, phase, todo>>
              /\ recon' \in Recons /\ pc' \in Steps /\ faults' \in 0..MaxFaults
  BY <1>1, <1>4, <1>5, <1>17, GotoTyped DEF SendReversion
<1>18. ASSUME NEW c \in Candidates, ReceiveReverted(c)
       PROVE  UNCHANGED <<last, held, phase, todo, faults>> /\ recon' \in Recons /\ pc' \in Steps
  BY <1>1, <1>5, <1>18, GotoTyped DEF ReceiveReverted
<1>19. ASSUME NEW c \in Candidates, FinishReversion(c)
       PROVE  UNCHANGED <<last, held, phase, todo, faults>> /\ recon' \in Recons /\ pc' \in Steps
  <2>1. CASE ReversionConflict(c) BY <1>5, <1>19, <2>1 DEF FinishReversion
  <2>2. CASE Goto(c, "idle") /\ recon' = [recon EXCEPT ![TargetNote(c)] = "IN_SYNC"]
    BY <1>1, <1>19, <2>2, GotoTyped, CandidateFacts DEF FinishReversion, Recons
  <2>3. QED BY <1>19, <2>1, <2>2 DEF FinishReversion
<1>20. ASSUME NEW cmd, BridgeKnown(cmd) \/ BridgePrepare(cmd)
       PROVE  UNCHANGED <<recon, last, held, phase, todo, faults>> /\ pc' \in Steps
  <2>1. UNCHANGED <<recon, last, held, phase, todo, faults>>
    BY <1>20 DEF BridgeKnown, BridgePrepare, database
  <2>2. CASE BridgeKnown(cmd)
    <3>1. Answer(cmd, "answered") \/ Answer(cmd, "refused") BY <2>2 DEF BridgeKnown
    <3>2. QED BY <1>6, <2>1, <3>1
  <2>3. CASE BridgePrepare(cmd)
    <3>1. UNCHANGED pc \/ Answer(cmd, "refused") BY <2>3 DEF BridgePrepare
    <3>2. QED BY <1>1, <1>6, <2>1, <3>1
  <2>4. QED BY <1>20, <2>1, <2>2, <2>3
<1>21. ASSUME BridgeWrite \/ BridgeReceipt
       PROVE  UNCHANGED <<recon, last, held, phase, todo, faults>> /\ pc' \in Steps
  BY <1>1, <1>6, <1>21 DEF BridgeWrite, BridgeReceipt, database
<1>22. ASSUME ObsidianStops
       PROVE  UNCHANGED <<recon, last, held, phase, todo, pc>> /\ faults' \in 0..MaxFaults
  BY <1>3, <1>22 DEF ObsidianStops, database, process
<1>23. ASSUME Crash \/ Start \/ RecoverReversions
       PROVE  /\ UNCHANGED <<recon, last>>
              /\ held' \in Helds /\ pc' \in Steps /\ todo' \subseteq Candidates
              /\ phase' \in {"down", "applications", "reversions"} /\ faults' \in 0..MaxFaults
  <2>1. UNCHANGED <<recon, last>> BY <1>23 DEF Crash, Start, RecoverReversions, database
  <2>2. held' \in Helds /\ pc' \in Steps
    BY <1>1, <1>23, BoundsAssumption DEF Crash, Start, RecoverReversions, Helds, Steps
  <2>3. /\ todo' \subseteq Candidates /\ phase' \in {"down", "applications", "reversions"}
        /\ faults' \in 0..MaxFaults
    BY <1>1, <1>3, <1>23 DEF Crash, Start, RecoverReversions, PendingReversions
  <2>4. QED BY <2>1, <2>2, <2>3
<1>24. ASSUME FinishStart
       PROVE  UNCHANGED <<last, held, pc, todo, faults>> /\ phase' = "up" /\ recon' \in Recons
  BY <1>7, <1>24 DEF FinishStart, Reconcile
<1>25. ASSUME NEW c \in Candidates, RecoverApplication(c)
       PROVE  /\ UNCHANGED <<recon, last, held, phase>>
              /\ pc' \in Steps /\ todo' \subseteq Candidates /\ faults' \in 0..MaxFaults
  BY <1>1, <1>4, <1>25, GotoTyped DEF RecoverApplication
<1>26. ASSUME NEW c \in Candidates, RecoverReversion(c)
       PROVE  UNCHANGED <<recon, last, held, phase, faults>> /\ pc' \in Steps /\ todo' \subseteq Candidates
  BY <1>1, <1>26, GotoTyped DEF RecoverReversion, database
<1>27. ASSUME NEW n \in Notes, ReconcileOne(n)
       PROVE  UNCHANGED <<last, held, pc, phase, todo, faults>> /\ recon' \in Recons
  BY <1>7, <1>27 DEF ReconcileOne, Reconcile
<1>28. ASSUME AdoptCommit
       PROVE  /\ UNCHANGED <<held, pc, phase, todo, faults>>
              /\ recon' \in Recons /\ last' \in Lasts
  <2>1. adopting.note \in Notes BY <1>28 DEF AdoptCommit, Tables, FilesTyped
  <2>2. QED BY <1>1, <1>28, <2>1 DEF AdoptCommit, Recons, Lasts
<1>29. ASSUME Person, ~AdoptCommit
       PROVE  UNCHANGED <<recon, last, held, pc, phase, todo, faults>>
  BY <1>29 DEF Person, AdoptRead, RetireNote, EditFile, SetManualLock, process, database
<1>30. ASSUME UNCHANGED vars
       PROVE  UNCHANGED <<recon, last, held, pc, phase, todo, faults>>
  BY <1>30 DEF vars, process, database
<1>31. CASE Applications
  BY <1>1, <1>31, <1>9, <1>10, <1>11, <1>12, <1>13, <1>14 DEF Applications
<1>32. CASE Reversions
  BY <1>1, <1>32, <1>15, <1>16, <1>17, <1>18, <1>19 DEF Reversions
<1>33. CASE Obsidian BY <1>1, <1>33, <1>20, <1>21, <1>22 DEF Obsidian
<1>34. CASE Startup BY <1>1, <1>34, <1>23, <1>24, <1>25, <1>26 DEF Startup
<1>35. QED
  BY <1>1, <1>8, <1>27, <1>28, <1>29, <1>30, <1>31, <1>32, <1>33, <1>34 DEF Next

-----------------------------------------------------------------------------
(* Every variable keeps its type                                             *)
TypesInv == Tables /\ BasesAreTexts /\ ThreadsHaveIntentions /\ BridgeTyped

LEMMA TypesInit == Init => TypesInv
<1> SUFFICES ASSUME Init PROVE TypesInv
  OBVIOUS
<1>2. Tables BY TypedInit DEF Tables
<1>3. BasesAreTexts BY DEF Init, NewCandidate, BasesAreTexts, Based
<1>4. ThreadsHaveIntentions BY DEF Init, NewCandidate, ThreadsHaveIntentions, Thread
<1>5. QED BY <1>2, <1>3, <1>4, BridgeInit DEF TypesInv

LEMMA TypesStep == TypesInv /\ [Next]_vars => TypesInv'
<1> SUFFICES ASSUME TypesInv, [Next]_vars PROVE TypesInv'
  OBVIOUS
<1>2. Tables /\ BasesAreTexts /\ ThreadsHaveIntentions /\ BridgeTyped BY DEF TypesInv
<1>3. Tables'
  BY <1>2, ClaimsStep, CandsStep, RowsStep, ReversionsMove, FilesStep, OthersStep DEF Tables
<1>4. QED BY <1>2, <1>3, BasesStep, ThreadsStep, BridgeStep DEF TypesInv

LEMMA TypesGiveTypeOK == TypesInv => TypeOK
<1>1. ASSUME TypesInv PROVE TypeOK
  <2>1. Tables /\ BridgeTyped BY <1>1 DEF TypesInv
  <2>2. \A n \in Notes : /\ row[n].status \in {"PUBLISHED", "RETIRED"}
                         /\ row[n].text # NoFile /\ row[n].text \in Texts
    BY <2>1, TextFacts DEF Tables, RowsTyped, NoteRows
  <2>3. \A c \in Candidates :
            /\ cand[c].status \in CandStatus /\ cand[c].revision \in 0..MaxRevision
            /\ cand[c].base \in {NoFile} \cup Texts /\ cand[c].source \in {NoFile} \cup Texts
            /\ rever[c].status \in ReverStatus
            /\ held[c] \in 0..MaxRevision
    BY <2>1 DEF Tables, CandsTyped, CandRows, ReversTyped, OthersTyped
  <2>4. queue \subseteq Commands /\ busy \in [cmd : Commands \cup {NoCommand}, done : BOOLEAN]
    BY <2>1 DEF BridgeTyped, Fitting
  <2>5. QED
    BY <2>1, <2>2, <2>3, <2>4
    DEF TypeOK, Tables, ClaimsTyped, ClaimRows, FilesTyped, OthersTyped, BridgeTyped
<1>2. QED BY <1>1

(* Every table, file and request of the maintenance keeps its type, for any notes,  *)
(* claims, proposals and budgets: TypeOK alone is not inductive, because a request  *)
(* has a text only while its proposal has one, and a thread works on an intention   *)
THEOREM MaintenanceTypes == Spec => []TypeOK
BY TypesInit, TypesStep, TypesGiveTypeOK, PTL DEF Spec

-----------------------------------------------------------------------------
(* Intentions do not meet                                                    *)

(* A new intention is the one that a transaction has looked at the others for *)
LEMMA OneBegins ==
    ASSUME TypesInv, NEW c \in Candidates, Begins(c) \/ Starts(c), NEW d \in Candidates \ {c}
    PROVE  ~Begins(d) /\ ~Starts(d)
<1>1. pc \in Steps /\ CandsTyped BY DEF TypesInv, Tables, OthersTyped, Steps
<1>2. CASE Begins(c)
  <2>1. pc[d] = pc'[d] /\ cand'[d] = cand[d]
    BY <1>1, <1>2 DEF Begins, PrepareApplication, Goto, CandsTyped, Steps
  <2>2. cand' # cand BY <1>1, <1>2 DEF Begins, Applicable, CandsTyped, CandRows
  <2>3. QED BY <2>1, <2>2 DEF Begins, Starts, PrepareApplication, BeginReversion
<1>3. CASE Starts(c)
  <2>1. pc[d] = pc'[d] /\ cand' = cand
    BY <1>1, <1>3 DEF Starts, BeginReversion, Goto, Steps
  <2>2. QED BY <2>1 DEF Begins, Starts, PrepareApplication, BeginReversion
<1>4. QED BY <1>2, <1>3

LEMMA IntentionsComeFrom ==
    ASSUME TypesInv, [Next]_vars, NEW c \in Candidates
    PROVE  /\ Applying(c)' => Applying(c) \/ Begins(c)
           /\ Reverting(c)' => Reverting(c) \/ Starts(c)
<1>1. CandsTyped /\ ProposalMoves(c) /\ ReversionMoves(c)
  BY ProposalsMove, ReversionsMove DEF TypesInv, Tables
<1>2. QED
  BY <1>1
  DEF ProposalMoves, Drifts, Abandons, Applied, Compared, ReversionMoves, Waits, Shown, Stops,
      Reverted, Applying, Reverting, Intention, CandsTyped, CandRows

LEMMA ApartFromApplications ==
    ASSUME NEW c \in Candidates, Begins(c), NEW d \in Candidates \ {c}, Applying(d)
    PROVE  /\ TargetNote(d) \notin {TargetNote(c)} \cup Reads(c)
           /\ TargetNote(c) \notin {TargetNote(d)} \cup Reads(d)
BY DEF Begins, Applicable, NotesApart

LEMMA ApartFromReversions ==
    ASSUME NEW c \in Candidates, Begins(c), NEW d \in Candidates, Reverting(d)
    PROVE  /\ TargetNote(c) \notin Reserves(d)
           /\ TargetNote(d) \notin {TargetNote(c)} \cup Reads(c)
<1>1. \A n \in {TargetNote(c)} \cup Reads(c) : n \notin Reserves(d)
  BY CandidateFacts DEF Begins, Applicable, NoteInReversion, Nobody
<1>2. QED BY <1>1 DEF Reserves

LEMMA ReversionReserves ==
    ASSUME NEW c \in Candidates, Starts(c), NEW d \in Candidates
    PROVE  /\ Applying(d) => /\ TargetNote(d) \notin Reserves(c)
                             /\ TargetNote(c) \notin {TargetNote(d)} \cup Reads(d)
           /\ Reverting(d) => Reserves(c) \cap Reserves(d) = {}
<1>1. Revertible(c, Nobody) BY DEF Starts, BeginReversion
<1>2. d \in Candidates \ {Nobody} BY CandidateFacts DEF Nobody
<1>3. ASSUME Reverting(d) PROVE Reserves(c) \cap Reserves(d) = {}
  BY <1>1, <1>2, <1>3 DEF Revertible, NoteInReversion
<1>4. ASSUME Applying(d), NEW k \in ClaimsIn(TargetNote(c)) \cup Chain(Target[c])
      PROVE  k \notin Chain(Witness[d]) /\ NoteOf[k] # TargetNote(d)
  BY <1>1, <1>2, <1>4 DEF Revertible, ClaimInApplication
<1>5. ASSUME Applying(d)
      PROVE  TargetNote(d) \notin Reserves(c) /\ TargetNote(c) \notin {TargetNote(d)} \cup Reads(d)
  <2>1. Target[c] \in ClaimsIn(TargetNote(c)) BY CandidateFacts DEF ClaimsIn, TargetNote
  <2>2. TargetNote(c) # TargetNote(d) BY <1>4, <1>5, <2>1 DEF ClaimsIn
  <2>3. \A k \in Chain(Target[c]) : NoteOf[k] # TargetNote(d) BY <1>4, <1>5
  <2>4. \A k \in Chain(Witness[d]) : k \in Claims BY CandidateFacts DEF Chain, Origins
  <2>5. \A k \in Chain(Witness[d]) : NoteOf[k] # TargetNote(c)
    BY <1>4, <1>5, <2>4 DEF ClaimsIn
  <2>6. QED BY <2>2, <2>3, <2>5 DEF Reserves, Reads
<1>6. QED BY <1>3, <1>5

LEMMA IntentionsStep == TypesInv /\ IntentionsDoNotMeet /\ [Next]_vars => IntentionsDoNotMeet'
<1> SUFFICES ASSUME TypesInv, IntentionsDoNotMeet, [Next]_vars,
                    NEW c \in Candidates, NEW d \in Candidates
             PROVE  /\ Applying(c)' /\ Applying(d)' /\ c # d =>
                           TargetNote(d) \notin {TargetNote(c)} \cup Reads(c)
                    /\ Applying(c)' /\ Reverting(d)' =>
                           /\ TargetNote(c) \notin Reserves(d)
                           /\ TargetNote(d) \notin {TargetNote(c)} \cup Reads(c)
                    /\ Reverting(c)' /\ Reverting(d)' /\ c # d => Reserves(c) \cap Reserves(d) = {}
  BY DEF IntentionsDoNotMeet
<1>1. \A e \in {c, d} : /\ Applying(e)' => Applying(e) \/ Begins(e)
                        /\ Reverting(e)' => Reverting(e) \/ Starts(e)
  BY IntentionsComeFrom
<1>2. c # d => ~((Begins(c) \/ Starts(c)) /\ (Begins(d) \/ Starts(d))) BY OneBegins
<1>3. Begins(c) => ~Starts(c) /\ ~Reverting(c)
  <2>1. Begins(c) => cand[c].status = "PENDING_REVIEW" BY DEF Begins, Applicable
  <2>2. Starts(c) \/ Reverting(c) => cand[c].status = "APPLIED"
    BY DEF Starts, BeginReversion, TypesInv, BasesAreTexts, Based, Reverting
  <2>3. QED BY <2>1, <2>2
<1>4. Starts(c) => ~Applying(c)
  BY DEF Starts, BeginReversion, TypesInv, BasesAreTexts, Based, Applying
<1>5. Applying(c)' /\ Applying(d)' /\ c # d => TargetNote(d) \notin {TargetNote(c)} \cup Reads(c)
  BY <1>1, <1>2, ApartFromApplications DEF IntentionsDoNotMeet
<1>6. Applying(c)' /\ Reverting(d)' => /\ TargetNote(c) \notin Reserves(d)
                                       /\ TargetNote(d) \notin {TargetNote(c)} \cup Reads(c)
  BY <1>1, <1>2, <1>3, <1>4, ApartFromReversions, ReversionReserves DEF IntentionsDoNotMeet
<1>7. Reverting(c)' /\ Reverting(d)' /\ c # d => Reserves(c) \cap Reserves(d) = {}
  BY <1>1, <1>2, ReversionReserves DEF IntentionsDoNotMeet
<1> QED BY <1>5, <1>6, <1>7

(* No intention uses the note that another one replaces, whichever threads prepared  *)
(* them and whatever a crash left pending: what the guards of one transaction found  *)
(* stays true of its intention until it ends                                         *)
THEOREM IntentionsStayApart == Spec => []IntentionsDoNotMeet
<1>1. Init => IntentionsDoNotMeet
  BY DEF Init, NewCandidate, IntentionsDoNotMeet, Applying, Reverting
<1>2. QED BY TypesInit, TypesStep, IntentionsStep, <1>1, PTL DEF Spec

-----------------------------------------------------------------------------
(* What the bridge writes                                                    *)

(* A request that has replaced its note is in the journal, and the one that is *)
(* prepared has not replaced its note yet                                      *)
WritesInv ==
    /\ \A id \in written : receipts[id] # "none"
    /\ ~Idle => receipts[busy.cmd.id] # "none"
    /\ ~Idle /\ ~busy.done => busy.cmd.id \notin written

LEMMA WritesStep == TypesInv /\ WritesInv /\ [Next]_vars => WritesInv'
<1> SUFFICES ASSUME TypesInv, WritesInv, [Next]_vars PROVE WritesInv'
  OBVIOUS
<1>1. BridgeTyped BY DEF TypesInv
<1>2. \A cmd \in Fitting : cmd.id \in RequestIds BY CommandFacts
<1>3. CASE UNCHANGED <<busy, receipts, written>> BY <1>3 DEF WritesInv, Idle
<1>4. ASSUME NEW cmd \in queue, BridgeKnown(cmd) PROVE WritesInv'
  <2>1. \A id \in RequestIds : receipts[id] # "none" => receipts'[id] # "none"
    BY <1>1, <1>2, <1>4 DEF BridgeKnown, BridgeTyped
  <2>2. /\ UNCHANGED <<busy, written>> /\ Idle BY <1>4 DEF BridgeKnown
  <2>3. QED BY <1>1, <2>1, <2>2 DEF WritesInv, BridgeTyped, Idle
<1>5. ASSUME NEW cmd \in queue, BridgePrepare(cmd) PROVE WritesInv'
  <2>1. cmd.id \in RequestIds /\ cmd.id \notin written
    BY <1>1, <1>2, <1>5 DEF BridgePrepare, Known, WritesInv, BridgeTyped
  <2>2. CASE UNCHANGED <<receipts, busy>> BY <1>5, <2>2 DEF BridgePrepare, WritesInv, Idle
  <2>3. CASE /\ receipts' = [receipts EXCEPT ![cmd.id] = "PREPARED"]
             /\ busy' = [cmd |-> cmd, done |-> FALSE]
    BY <1>1, <1>5, <2>1, <2>3 DEF BridgePrepare, WritesInv, Idle, BridgeTyped
  <2>4. QED BY <1>5, <2>2, <2>3 DEF BridgePrepare
<1>6. ASSUME BridgeWrite PROVE WritesInv'
  <2>1. busy.cmd.id \in RequestIds BY <1>1, <1>2, <1>6 DEF BridgeWrite, BridgeTyped, Idle
  <2>2. CASE SameBase(busy.cmd)
    <3>1. /\ UNCHANGED receipts /\ written' = written \cup {busy.cmd.id}
          /\ busy' = [busy EXCEPT !.done = TRUE]
      BY <1>6, <2>2 DEF BridgeWrite
    <3>2. busy'.done = TRUE /\ busy'.cmd = busy.cmd BY <1>1, <3>1 DEF BridgeTyped
    <3>3. receipts[busy.cmd.id] # "none" BY <1>6 DEF BridgeWrite, WritesInv
    <3>4. QED BY <3>1, <3>2, <3>3 DEF WritesInv, Idle
  <2>3. CASE ~SameBase(busy.cmd)
    BY <1>1, <1>6, <2>1, <2>3 DEF BridgeWrite, WritesInv, Idle, BridgeTyped
  <2>4. QED BY <2>2, <2>3
<1>7. ASSUME BridgeReceipt \/ ObsidianStops PROVE WritesInv'
  <2>1. \A id \in written : id \in RequestIds BY <1>1 DEF BridgeTyped
  <2>2. QED BY <1>1, <1>7, <2>1 DEF BridgeReceipt, ObsidianStops, WritesInv, Idle, BridgeTyped
<1> QED BY <1>3, <1>4, <1>5, <1>6, <1>7, OnlyTheBridge DEF Obsidian

(* One request replaces its note at most once, whatever is lost, sent again or       *)
(* restarted and whatever the person does to the note in between                     *)
THEOREM RequestsWriteOnce == Spec => WrittenOnce
<1>1. Init => WritesInv BY DEF Init, WritesInv, Idle
<1>2. ASSUME TypesInv, WritesInv, [Next]_vars
      PROVE  vault' # vault /\ edits' = edits => busy.cmd.id \notin written
  <2>1. edits \in Nat BY <1>2, BoundsAssumption DEF TypesInv, Tables, ClaimsTyped
  <2>2. ASSUME NEW n, NEW text, EditFile(n, text) PROVE edits' # edits BY <2>1, <2>2 DEF EditFile
  <2>3. BridgeWrite => busy.cmd.id \notin written BY <1>2 DEF BridgeWrite, WritesInv
  <2>4. QED BY <1>2, <2>2, <2>3, WhoWrites DEF ChangesFiles
<1>3. QED BY TypesInit, TypesStep, WritesStep, <1>1, <1>2, PTL DEF Spec, WrittenOnce

(* Nothing but the person takes an edit of the person out of a note: a request adds  *)
(* or removes the change of its proposal in the text it was made for                 *)
THEOREM NothingElseTakesEdits == Spec => EditsAreKept
<1>1. ASSUME TypesInv, [Next]_vars
      PROVE  edits' = edits => \A n \in Notes :
                 IF vault[n] = NoFile THEN vault'[n] = NoFile
                 ELSE vault[n] \cap EditMarks \subseteq vault'[n]
  <2>1. edits \in Nat /\ vault \in [Notes -> {NoFile} \cup Texts] /\ BridgeTyped
    BY <1>1, BoundsAssumption DEF TypesInv, Tables, ClaimsTyped, FilesTyped
  <2>2. ASSUME NEW n, NEW text, EditFile(n, text) PROVE edits' # edits BY <2>1, <2>2 DEF EditFile
  <2>3. CASE UNCHANGED vault BY <2>3
  <2>4. CASE BridgeWrite /\ ~UNCHANGED vault
    <3>1. busy.cmd \in Fitting BY <2>1, <2>4 DEF BridgeWrite, Idle, BridgeTyped
    <3>2. PICK n \in Notes : /\ n = FileOf(busy.cmd) /\ vault[n] = busy.cmd.base
                             /\ vault' = [vault EXCEPT ![n] = busy.cmd.result]
      BY <2>4, <3>1, CommandFacts DEF BridgeWrite, SameBase
    <3>3. busy.cmd.base \cap EditMarks \subseteq busy.cmd.result /\ busy.cmd.base # NoFile
      BY <3>1, CommandFacts, CandidatesAssumption, TextFacts DEF Fitting
    <3>4. QED BY <2>1, <3>2, <3>3
  <2>5. QED BY <1>1, <2>2, <2>3, <2>4, WhoWrites DEF ChangesFiles
<1>2. QED BY TypesInit, TypesStep, <1>1, PTL DEF Spec, EditsAreKept

-----------------------------------------------------------------------------
(* The official knowledge                                                    *)
TextOf    == [n \in Notes |-> row[n].text]
OpenNotes == {n \in Notes : Published(n)}
StatusOf  == [k \in Claims |-> claim[k].status]

KP == INSTANCE OfficialKnowledgeProofs WITH text <- TextOf, open <- OpenNotes, status <- StatusOf

(* What ties a proposal to the text and the claims it will change             *)
Linked(c) ==
    /\ Applying(c) => row[TargetNote(c)].text = cand[c].base /\ Published(TargetNote(c))
    /\ cand[c].status # "APPLIED" => claim[Successor[c]].status = "none"
    /\ cand[c].base # NoFile => c \notin cand[c].base
ProposalsAreLinked == \A c \in Candidates : Linked(c)

(* Only the claims of notes no intention changes are retracted                *)
Keeps        == UNCHANGED <<TextOf, OpenNotes, StatusOf>>
Replaces(c)  == Applying(c) /\ cand'[c].status = "APPLIED" /\ KP!Replace(c)
Undoes(c)    == Reverting(c) /\ KP!Undo(c)
Adopts(n, t) == ~InUse(n) /\ KP!Adopt(n, t)
Retires(n)   == ~InUse(n) /\ KP!Retire(n)

KnowledgeMoves ==
    \/ Keeps
    \/ \E c \in Candidates : Replaces(c) \/ Undoes(c)
    \/ \E n \in Notes : Retires(n) \/ \E t \in Texts : Adopts(n, t)

LEMMA Retracting ==
    ASSUME TypesInv, NEW n \in Notes, RetireClaims(n)
    PROVE  StatusOf' = KP!Retracted(n)
<1>1. SUFFICES ASSUME NEW k \in Claims PROVE StatusOf'[k] = KP!Retracted(n)[k]
  BY DEF StatusOf, KP!Retracted
<1>2. claim[k] \in ClaimRows BY DEF TypesInv, Tables, ClaimsTyped
<1>3. Revised(k, "RETRACTED", "HISTORICAL").status = "RETRACTED"
  BY <1>2, RevisedClaim DEF ClaimStatus, ClaimStates
<1>4. QED BY <1>3 DEF RetireClaims, ActiveIn, InForce, StatusOf, KP!Retracted, KP!ClaimsIn, ClaimsIn

LEMMA Reviewing ==
    ASSUME TypesInv, NEW states, \A k \in Claims \cap DOMAIN states : states[k] \in ClaimStates,
           claim' = Reviewed(states), UNCHANGED row
    PROVE  Keeps
BY ReviewedTyped DEF TypesInv, Tables, Keeps, StatusOf, TextOf, OpenNotes, Published

LEMMA Replacing ==
    ASSUME TypesInv, ProposalsAreLinked, NEW c \in Candidates, MarkApplied(c)
    PROVE  Keeps \/ Replaces(c)
<1>1. CASE UNCHANGED <<claim, row>> BY <1>1 DEF Keeps, TextOf, OpenNotes, StatusOf, Published
<1>2. CASE ~UNCHANGED <<claim, row>>
  <2>1. PICK reviewed : reviewed = Reviewed([k \in {Witness[c]} |-> "CURRENT"]) OBVIOUS
  <2>2. PICK state \in {"SUPERSEDED", "HISTORICAL"} :
            claim' = [reviewed EXCEPT
               ![Successor[c]] = [status |-> "ACTIVE", state |-> "CURRENT", rev |-> 1, lock |-> 0],
               ![Target[c]] = Revised(Target[c], "SUPERSEDED", state)]
    BY <1>2, <2>1 DEF MarkApplied
  <2>3. /\ InForce(Target[c])
        /\ row' = [row EXCEPT ![TargetNote(c)].text = Result(c)]
        /\ cand'[c] = [cand[c] EXCEPT !.status = "APPLIED", !.was = claim[Target[c]].state]
    BY <1>2 DEF MarkApplied
  <2>4. /\ ClaimsTyped /\ RowsTyped /\ cand[c] \in CandRows /\ Applying(c)
    BY DEF TypesInv, Tables, CandsTyped, ThreadsHaveIntentions, Thread, MarkApplied
  <2>5. /\ reviewed \in [Claims -> ClaimRows]
        /\ \A k \in Claims : reviewed[k].status = claim[k].status
    <3>1. \A k \in Claims \cap DOMAIN [k \in {Witness[c]} |-> "CURRENT"] :
             [j \in {Witness[c]} |-> "CURRENT"][k] \in ClaimStates
      BY DEF ClaimStates
    <3>2. QED BY <2>1, <2>4, <3>1, ReviewedTyped
  <2>6. Revised(Target[c], "SUPERSEDED", state).status = "SUPERSEDED"
    BY <2>4, RevisedClaim, CandidateFacts DEF ClaimsTyped, ClaimStatus, ClaimStates
  <2>7. StatusOf' = [StatusOf EXCEPT ![Target[c]] = "SUPERSEDED", ![Successor[c]] = "ACTIVE"]
    BY <2>2, <2>4, <2>5, <2>6, CandidateFacts DEF StatusOf, ClaimsTyped
  <2>8. row[TargetNote(c)].text = cand[c].base /\ claim[Successor[c]].status = "none"
    BY <2>4 DEF ProposalsAreLinked, Linked, Applying
  <2>9. /\ TextOf' = [TextOf EXCEPT ![TargetNote(c)] = @ \cup {c}]
        /\ OpenNotes' = OpenNotes
    <3>1. TextOf[TargetNote(c)] \cup {c} = Result(c) BY <2>8, CandidateFacts DEF TextOf, Result
    <3>2. \A n \in Notes : row'[n] = IF n = TargetNote(c) THEN [row[n] EXCEPT !.text = Result(c)] ELSE row[n]
      BY <2>3, <2>4 DEF RowsTyped
    <3>3. \A n \in Notes : /\ row'[n].text = IF n = TargetNote(c) THEN Result(c) ELSE row[n].text
                           /\ row'[n].status = row[n].status
      BY <2>4, <3>2 DEF RowsTyped, NoteRows
    <3>4. QED BY <3>1, <3>3 DEF TextOf, OpenNotes, Published
  <2>10. StatusOf[Target[c]] = "ACTIVE" /\ StatusOf[Successor[c]] = "none"
    BY <2>3, <2>8, CandidateFacts DEF StatusOf, InForce
  <2>11. cand'[c].status = "APPLIED" BY <2>3, <2>4 DEF CandRows
  <2>12. QED
    BY <2>4, <2>7, <2>9, <2>10, <2>11 DEF Replaces, KP!Replace, KP!TargetNote, TargetNote
<1>3. QED BY <1>1, <1>2

LEMMA Undoing ==
    ASSUME TypesInv, ProposalsAreLinked, NEW c \in Candidates, FinishReversion(c)
    PROVE  Keeps \/ Undoes(c)
<1>1. CASE UNCHANGED <<claim, row>> BY <1>1 DEF Keeps, TextOf, OpenNotes, StatusOf, Published
<1>2. CASE ~UNCHANGED <<claim, row>>
  <2>1. /\ Revertible(c, c) /\ claim' = Undone(c)
        /\ row' = [row EXCEPT ![TargetNote(c)].text = cand[c].base]
    BY <1>2 DEF FinishReversion
  <2>2. /\ ClaimsTyped /\ RowsTyped /\ Reverting(c)
    BY DEF TypesInv, Tables, ThreadsHaveIntentions, Thread, FinishReversion
  <2>3. /\ cand[c].status = "APPLIED" /\ cand[c].was \in ClaimStates /\ c \notin cand[c].base
    BY <2>1 DEF Revertible, TypesInv, BasesAreTexts, Based, ProposalsAreLinked, Linked
  <2>4. /\ Revised(Target[c], "ACTIVE", cand[c].was).status = "ACTIVE"
        /\ Revised(Successor[c], "RETRACTED", "HISTORICAL").status = "RETRACTED"
    BY <2>2, <2>3, RevisedClaim, CandidateFacts DEF ClaimsTyped, ClaimStatus, ClaimStates
  <2>5. StatusOf' = [StatusOf EXCEPT ![Target[c]] = "ACTIVE", ![Successor[c]] = "RETRACTED"]
    BY <2>1, <2>2, <2>4, CandidateFacts DEF Undone, Restored, StatusOf, ClaimsTyped
  <2>6. /\ Published(TargetNote(c)) /\ row[TargetNote(c)].text = cand[c].base \cup {c}
        /\ StatusOf[Target[c]] = "SUPERSEDED" /\ StatusOf[Successor[c]] = "ACTIVE"
    BY <2>1, CandidateFacts DEF Revertible, Result, StatusOf, InForce
  <2>7. cand[c].base = (cand[c].base \cup {c}) \ {c} BY <2>3
  <2>8. /\ TextOf' = [TextOf EXCEPT ![TargetNote(c)] = @ \ {c}]
        /\ OpenNotes' = OpenNotes
    BY <2>1, <2>2, <2>6, <2>7, CandidateFacts DEF TextOf, OpenNotes, Published, RowsTyped, NoteRows
  <2>9. TargetNote(c) \in OpenNotes BY <2>6, CandidateFacts DEF OpenNotes
  <2>10. QED BY <2>2, <2>5, <2>6, <2>8, <2>9 DEF Undoes, KP!Undo, KP!TargetNote, TargetNote
<1>3. QED BY <1>1, <1>2

LEMMA KnowledgeStep ==
    ASSUME TypesInv, ProposalsAreLinked, [Next]_vars
    PROVE  KnowledgeMoves
<1>1. RowsTyped /\ ClaimsTyped /\ CandsTyped /\ FilesTyped BY DEF TypesInv, Tables
<1>2. CASE UNCHANGED <<row, claim>>
  BY <1>2 DEF KnowledgeMoves, Keeps, TextOf, OpenNotes, StatusOf, Published
<1>3. ASSUME NEW c \in Candidates, NEW relation \in Relations, Compare(c, relation) PROVE Keeps
  <2>1. ASSUME NEW states,
               states \in {[k \in {Target[c], Witness[c]} |-> "DISPUTED"],
                          [k \in {Witness[c]} |-> "UNCERTAIN"], [k \in {} |-> "none"]},
               claim' = Reviewed(states), UNCHANGED row
        PROVE  Keeps
    BY <2>1, Reviewing DEF ClaimStates
  <2>2. QED BY <1>3, <2>1 DEF Compare, ReviewBy
<1>4. ASSUME NEW c \in Candidates, Reject(c) PROVE Keeps
  <2>1. PICK released \in SUBSET {Target[c], Witness[c]} :
            claim' = Reviewed([k \in released |-> IF k \in DOMAIN cand[c].disputed
                                                  THEN cand[c].disputed[k] ELSE "CURRENT"])
    BY <1>4 DEF Reject
  <2>2. cand[c].disputed \in Memories BY <1>1 DEF CandsTyped, CandRows
  <2>3. \A k \in DOMAIN cand[c].disputed : cand[c].disputed[k] \in ClaimStates
    BY <2>2 DEF Memories
  <2>4. UNCHANGED row BY <1>4 DEF Reject
  <2>5. QED BY <2>1, <2>3, <2>4, Reviewing DEF ClaimStates
<1>5. ASSUME NEW notes, Reconcile(notes) PROVE Keeps
  BY <1>5, Reviewing DEF Reconcile, DerivedReviewed, ClaimStates
<1>6. ASSUME NEW k \in Claims, SetManualLock(k) PROVE Keeps
  <2>1. \A j \in Claims : claim'[j].status = claim[j].status
    BY <1>1, <1>6 DEF SetManualLock, ClaimsTyped, ClaimRows
  <2>2. UNCHANGED row BY <1>6, WhoWrites DEF SetManualLock, ChangesRows
  <2>3. QED BY <2>1, <2>2 DEF Keeps, TextOf, OpenNotes, StatusOf, Published
<1>7. CASE AdoptCommit
  <2>1. adopting.note \in Notes /\ adopting.text \in Texts BY <1>1, <1>7 DEF AdoptCommit, FilesTyped
  <2>2. CASE UNCHANGED <<row, claim>> BY <1>2, <2>2
  <2>3. CASE ~UNCHANGED <<row, claim>>
    <3>1. /\ Published(adopting.note) /\ ~InUse(adopting.note) /\ RetireClaims(adopting.note)
          /\ row' = [row EXCEPT ![adopting.note].text = adopting.text]
      BY <1>7, <2>3 DEF AdoptCommit
    <3>2. StatusOf' = KP!Retracted(adopting.note) BY <2>1, <3>1, Retracting
    <3>3. /\ TextOf' = [TextOf EXCEPT ![adopting.note] = adopting.text]
          /\ OpenNotes' = OpenNotes
      BY <1>1, <2>1, <3>1 DEF TextOf, OpenNotes, Published, RowsTyped, NoteRows
    <3>4. adopting.note \in OpenNotes BY <2>1, <3>1 DEF OpenNotes
    <3>5. QED BY <2>1, <3>1, <3>2, <3>3, <3>4 DEF KnowledgeMoves, Adopts, KP!Adopt
  <2>4. QED BY <2>2, <2>3
<1>8. ASSUME NEW n \in Notes, RetireNote(n) PROVE Retires(n)
  <2>1. StatusOf' = KP!Retracted(n) BY <1>8, Retracting DEF RetireNote
  <2>2. TextOf' = TextOf /\ OpenNotes' = OpenNotes \ {n} /\ n \in OpenNotes
    BY <1>1, <1>8 DEF RetireNote, TextOf, OpenNotes, Published, RowsTyped, NoteRows
  <2>3. QED BY <1>8, <2>1, <2>2 DEF Retires, RetireNote, KP!Retire
<1>9. ASSUME NEW c \in Candidates, MarkApplied(c) \/ FinishReversion(c) PROVE KnowledgeMoves
  BY <1>9, Replacing, Undoing DEF KnowledgeMoves
<1>10. UNCHANGED row \/ ChangesRows BY WhoWrites
<1>11. UNCHANGED claim \/ ChangesClaims BY WhoWrites
<1>12. CASE ChangesRows BY <1>7, <1>8, <1>9, <1>12 DEF ChangesRows, KnowledgeMoves
<1>13. CASE ChangesClaims
  BY <1>3, <1>4, <1>5, <1>6, <1>7, <1>8, <1>9, <1>13
  DEF ChangesClaims, FinishStart, ReconcileOne, KnowledgeMoves
<1>14. QED BY <1>2, <1>10, <1>11, <1>12, <1>13

(* A claim that is in force has not been replaced in the official text        *)
LEMMA TargetTextLacks ==
    ASSUME KP!IInv, NEW c \in Candidates, InForce(Target[c])
    PROVE  c \notin row[TargetNote(c)].text
<1>1. /\ StatusOf[Target[c]] = "ACTIVE" /\ NoteOf[Target[c]] = TargetNote(c)
      /\ Target[c] \in Claims /\ TargetNote(c) \in Notes
  BY CandidateFacts DEF StatusOf, InForce, TargetNote
<1>2. KP!Analysed(TargetNote(c)) BY <1>1 DEF KP!Analysed
<1>3. c \notin TextOf[TargetNote(c)]
  BY <1>1, <1>2 DEF KP!IInv, KP!History, KP!TargetNote, TargetNote
<1>4. QED BY <1>1, <1>3 DEF TextOf

(* What the moves leave alone *)
LEMMA OtherNotes ==
    ASSUME TypesInv, IntentionsDoNotMeet, KnowledgeMoves, NEW d \in Candidates,
           Applying(d), cand'[d].status # "APPLIED"
    PROVE  /\ row'[TargetNote(d)].text = row[TargetNote(d)].text
           /\ Published(TargetNote(d)) => Published(TargetNote(d))'
<1> DEFINE n == TargetNote(d)
<1>1. n \in Notes BY CandidateFacts
<1>2. SUFFICES /\ TextOf'[n] = TextOf[n] /\ (n \in OpenNotes => n \in OpenNotes')
  BY <1>1 DEF TextOf, OpenNotes
<1>3. CASE Keeps BY <1>3 DEF Keeps
<1>4. ASSUME NEW c \in Candidates, Replaces(c) \/ Undoes(c)
      PROVE  TextOf'[n] = TextOf[n] /\ (n \in OpenNotes => n \in OpenNotes')
  <2>1. TargetNote(c) # n
    BY <1>4 DEF Replaces, Undoes, IntentionsDoNotMeet, Reserves
  <2>2. QED
    BY <1>1, <1>4, <2>1 DEF Replaces, Undoes, KP!Replace, KP!Undo, KP!TargetNote, TargetNote, TextOf
<1>5. ASSUME NEW m \in Notes, Retires(m) \/ \E t \in Texts : Adopts(m, t)
      PROVE  TextOf'[n] = TextOf[n] /\ (n \in OpenNotes => n \in OpenNotes')
  <2>1. m # n BY <1>5 DEF Retires, Adopts, InUse
  <2>2. QED BY <1>1, <1>5, <2>1 DEF Retires, Adopts, KP!Retire, KP!Adopt, TextOf
<1>6. QED BY <1>3, <1>4, <1>5 DEF KnowledgeMoves

(* A claim is added by the application of its proposal and by nothing else     *)
LEMMA OnlyAddedByIts ==
    ASSUME TypesInv, KnowledgeMoves, NEW d \in Candidates, cand'[d].status # "APPLIED",
           StatusOf[Successor[d]] = "none"
    PROVE  StatusOf'[Successor[d]] = "none"
<1>1. Successor[d] \in Claims BY CandidateFacts
<1>2. CASE Keeps BY <1>2 DEF Keeps
<1>3. ASSUME NEW c \in Candidates, Replaces(c) PROVE StatusOf'[Successor[d]] = "none"
  <2>1. Successor[c] # Successor[d] BY <1>3, CandidateFacts DEF Replaces
  <2>2. Target[c] # Successor[d] BY <1>3 DEF Replaces, KP!Replace
  <2>3. QED BY <1>1, <1>3, <2>1, <2>2 DEF Replaces, KP!Replace, StatusOf
<1>4. ASSUME NEW c \in Candidates, Undoes(c) PROVE StatusOf'[Successor[d]] = "none"
  <2>1. Target[c] # Successor[d] /\ Successor[c] # Successor[d] BY <1>4 DEF Undoes, KP!Undo
  <2>2. QED BY <1>1, <1>4, <2>1 DEF Undoes, KP!Undo, StatusOf
<1>5. ASSUME NEW n \in Notes, Retires(n) \/ \E t \in Texts : Adopts(n, t)
      PROVE  StatusOf'[Successor[d]] = "none"
  BY <1>1, <1>5 DEF Retires, Adopts, KP!Retire, KP!Adopt, KP!Retracted
<1>6. QED BY <1>2, <1>3, <1>4, <1>5 DEF KnowledgeMoves

LEMMA LinkedStep ==
    ASSUME TypesInv, IntentionsDoNotMeet, ProposalsAreLinked, KP!IInv, [Next]_vars
    PROVE  ProposalsAreLinked'
<1>1. SUFFICES ASSUME NEW d \in Candidates PROVE Linked(d)'
  BY DEF ProposalsAreLinked
<1>2. KnowledgeMoves /\ ProposalMoves(d) /\ Linked(d) /\ cand[d] \in CandRows
  BY KnowledgeStep, ProposalsMove DEF ProposalsAreLinked, TypesInv, Tables, CandsTyped
<1>3. cand'[d].status # "APPLIED" => cand[d].status # "APPLIED"
  BY <1>2 DEF ProposalMoves, Drifts, Begins, Applicable, Abandons, Applying, Applied, Compared, Intention, CandRows
<1>4. cand'[d].status # "APPLIED" => claim'[Successor[d]].status = "none"
  BY <1>2, <1>3, OnlyAddedByIts, CandidateFacts DEF Linked, StatusOf
<1>5. cand'[d].base # NoFile => d \notin cand'[d].base
  <2>1. CASE Compared(d)
    <3>1. InForce(Target[d]) BY <2>1 DEF Compared, Compare
    <3>2. d \notin row[TargetNote(d)].text BY <3>1, TargetTextLacks
    <3>3. QED BY <2>1, <3>2 DEF Compared
  <2>2. CASE ~Compared(d)
    <3>1. cand'[d].base = cand[d].base
      BY <1>2, <2>2 DEF ProposalMoves, Drifts, Begins, Abandons, Applied, CandRows
    <3>2. QED BY <1>2, <3>1 DEF Linked
  <2>3. QED BY <2>1, <2>2
<1>6. Applying(d)' => row'[TargetNote(d)].text = cand'[d].base /\ Published(TargetNote(d))'
  <2>1. CASE Begins(d)
    <3>1. row' = row BY <2>1 DEF Begins, PrepareApplication
    <3>2. row[TargetNote(d)].text = cand[d].base /\ Published(TargetNote(d))
      BY <2>1 DEF Begins, Applicable
    <3>3. cand'[d].base = cand[d].base BY <1>2, <2>1 DEF Begins, CandRows
    <3>4. QED BY <3>1, <3>2, <3>3 DEF Published
  <2>2. CASE Applying(d) /\ Applying(d)'
    <3>1. cand'[d].status # "APPLIED" BY <2>2 DEF Applying
    <3>2. cand'[d].base = cand[d].base
      BY <1>2, <2>2
      DEF ProposalMoves, Drifts, Begins, Abandons, Applied, Compared, Applying, Intention, CandRows
    <3>3. QED BY <1>2, <2>2, <3>1, <3>2, OtherNotes DEF Linked
  <2>3. QED BY <2>1, <2>2, IntentionsComeFrom
<1>7. QED BY <1>4, <1>5, <1>6 DEF Linked

-----------------------------------------------------------------------------
(* SemanticApplication implements OfficialKnowledge                          *)
LEMMA MovesAreSteps == KnowledgeMoves => [KP!Next]_(KP!vars)
<1> SUFFICES ASSUME KnowledgeMoves PROVE [KP!Next]_(KP!vars)
  OBVIOUS
<1>1. CASE Keeps BY <1>1 DEF Keeps, KP!vars
<1>2. ASSUME NEW c \in Candidates, Replaces(c) \/ Undoes(c) PROVE KP!Next
  BY <1>2 DEF Replaces, Undoes, KP!Next
<1>3. ASSUME NEW n \in Notes, Retires(n) \/ \E t \in Texts : Adopts(n, t) PROVE KP!Next
  BY <1>3 DEF Retires, Adopts, KP!Next, KP!Texts, Texts
<1>4. QED BY <1>1, <1>2, <1>3 DEF KnowledgeMoves

LEMMA KnowledgeInit == Init => KP!Init /\ ProposalsAreLinked
<1> SUFFICES ASSUME Init PROVE KP!Init /\ ProposalsAreLinked
  OBVIOUS
<1>1. TextOf = [n \in Notes |-> KP!Original] BY DEF Init, TextOf, KP!Original, Original
<1>2. OpenNotes = Notes BY DEF Init, OpenNotes, Published
<1>3. StatusOf = [k \in Claims |-> IF k \in KP!Projections THEN "none" ELSE "ACTIVE"]
  BY DEF Init, StatusOf, NewClaim, KP!Projections, Projections
<1>4. \A c \in Candidates : claim[Successor[c]].status = "none"
  BY CandidateFacts DEF Init, NewClaim, Projections
<1>5. ProposalsAreLinked BY <1>4 DEF Init, NewCandidate, ProposalsAreLinked, Linked, Applying
<1>6. QED BY <1>1, <1>2, <1>3, <1>5 DEF KP!Init

LEMMA KnowledgeIsKept ==
    /\ KP!Init => KP!IInv
    /\ KP!IInv /\ [KP!Next]_(KP!vars) => KP!IInv'
BY KP!InitIInv, KP!NextIInv, CandidatesAssumption, ProjectionAssumption DEF KP!IsFiniteSet, IsFiniteSet

(* The same formulas, as the specification names them *)
LEMMA SameKnowledge ==
    /\ KP!Init => Knowledge!Init
    /\ [KP!Next]_(KP!vars) => [Knowledge!Next]_(Knowledge!vars)
<1>1. ASSUME KP!Init PROVE Knowledge!Init
  BY <1>1
  DEF KP!Init, Knowledge!Init, TextOf, OpenNotes, StatusOf, KP!Original, Knowledge!Original,
      KP!Projections, Knowledge!Projections
<1>2. ASSUME KP!Next PROVE Knowledge!Next
  BY <1>2
  DEF KP!Next, KP!Replace, KP!Undo, KP!Adopt, KP!Retire, KP!Retracted, KP!ClaimsIn, KP!TargetNote,
      KP!Texts, Knowledge!Next, Knowledge!Replace, Knowledge!Undo, Knowledge!Adopt,
      Knowledge!Retire, Knowledge!Retracted, Knowledge!ClaimsIn, Knowledge!TargetNote,
      Knowledge!Texts, TextOf, OpenNotes, StatusOf
<1>3. ASSUME UNCHANGED KP!vars PROVE UNCHANGED Knowledge!vars
  BY <1>3 DEF KP!vars, Knowledge!vars, TextOf, OpenNotes, StatusOf
<1>4. QED BY <1>1, <1>2, <1>3

(* The text a note is published with and the claims in force in it change together,  *)
(* as OfficialKnowledge says, whatever the files, Obsidian and the crashes do: an     *)
(* application is one step of the two, its reversion undoes exactly that step, and    *)
(* nothing else changes either but the person who adopts a text or retires a note     *)
THEOREM MaintenanceImplementsKnowledge == Spec => ImplementsKnowledge
<1> DEFINE Inv == TypesInv /\ IntentionsDoNotMeet /\ ProposalsAreLinked /\ KP!IInv
<1>1. Init => Inv /\ Knowledge!Init
  <2>1. Init => IntentionsDoNotMeet
    BY DEF Init, NewCandidate, IntentionsDoNotMeet, Applying, Reverting
  <2>2. QED BY <2>1, TypesInit, KnowledgeInit, KnowledgeIsKept, SameKnowledge
<1>2. Inv /\ [Next]_vars => Inv' /\ [Knowledge!Next]_(Knowledge!vars)
  <2> SUFFICES ASSUME Inv, [Next]_vars PROVE Inv' /\ [Knowledge!Next]_(Knowledge!vars)
    OBVIOUS
  <2>1. TypesInv' /\ IntentionsDoNotMeet' BY TypesStep, IntentionsStep
  <2>2. ProposalsAreLinked' BY LinkedStep
  <2>3. [KP!Next]_(KP!vars) BY KnowledgeStep, MovesAreSteps
  <2>4. KP!IInv' BY <2>3, KnowledgeIsKept
  <2>5. QED BY <2>1, <2>2, <2>3, <2>4, SameKnowledge
<1>3. QED BY <1>1, <1>2, PTL DEF Spec, ImplementsKnowledge, Knowledge!Spec

-----------------------------------------------------------------------------
(* What was recorded was written                                             *)
Written(c) == \E r \in 1..MaxRevision : <<c, r>> \in written

(* A change is in a file because a request put it there, and while the person has   *)
(* edited nothing it stays there until the request of its reversion                 *)
WroteInv ==
    /\ \A n \in Notes : vault[n] # NoFile => \A c \in vault[n] \cap Candidates : Written(c)
    /\ \A c \in Candidates : pc[c] = "replaced" => Written(c)
    /\ edits = 0 => \A c \in Candidates :
           Written(c) => c \in vault[TargetNote(c)] \/ <<c, 0>> \in written
    /\ AppliedWasWritten

LEMMA SeenReplaced ==
    ASSUME TypesInv, [Next]_vars, NEW d \in Candidates, pc'[d] = "replaced", pc[d] # "replaced"
    PROVE  Replaced(d) /\ Applying(d)
<1>1. Tables /\ pc \in Steps /\ ThreadsHaveIntentions
  BY DEF TypesInv, Tables, OthersTyped, Steps
<1>2. ASSUME NEW c \in Candidates, NEW step, step # "replaced", Goto(c, step)
      PROVE  Replaced(d) /\ Applying(d)
  BY <1>1, <1>2 DEF Goto, Steps
<1>3. ASSUME NEW c \in Candidates, Goto(c, "replaced"), Replaced(c), Applying(c)
      PROVE  Replaced(d) /\ Applying(d)
  BY <1>1, <1>3 DEF Goto, Steps
<1>4. CASE UNCHANGED pc BY <1>4
<1>5. ASSUME NEW c \in Candidates, Ask(c) PROVE Replaced(d) /\ Applying(d)
  BY <1>2, <1>5 DEF Ask
<1>6. ASSUME NEW cmd, Answer(cmd, "answered") \/ Answer(cmd, "refused")
      PROVE  Replaced(d) /\ Applying(d)
  BY <1>1, <1>6 DEF Answer, Steps
<1>7. CASE Applications
  BY <1>2, <1>3, <1>4, <1>5, <1>7
  DEF Applications, ApproveRead, PrepareApplication, SendApplication, ReceiveApplied,
      ReceiveRefused, MarkApplied, NoAnswer
<1>8. CASE Reversions
  BY <1>2, <1>4, <1>5, <1>8
  DEF Reversions, PreviewReversion, BeginReversion, SendReversion, ReceiveReverted,
      FinishReversion, ReversionConflict, process
<1>9. CASE Obsidian
  <2>1. ASSUME NEW cmd, BridgeKnown(cmd) PROVE Replaced(d) /\ Applying(d)
    BY <1>6, <2>1 DEF BridgeKnown
  <2>2. ASSUME NEW cmd, BridgePrepare(cmd) PROVE Replaced(d) /\ Applying(d)
    BY <1>4, <1>6, <2>2 DEF BridgePrepare
  <2>3. ASSUME BridgeWrite \/ BridgeReceipt \/ ObsidianStops PROVE Replaced(d) /\ Applying(d)
    BY <1>4, <1>6, <2>3 DEF BridgeWrite, BridgeReceipt, ObsidianStops, process
  <2>4. QED BY <1>9, <2>1, <2>2, <2>3 DEF Obsidian
<1>10. ASSUME NEW c \in Candidates, RecoverApplication(c) PROVE Replaced(d) /\ Applying(d)
  <2>1. Applying(c) BY <1>1, <1>10 DEF RecoverApplication, Ready, ThreadsHaveIntentions, Thread
  <2>2. QED BY <1>3, <1>4, <1>5, <1>10, <2>1 DEF RecoverApplication
<1>11. ASSUME NEW c \in Candidates, RecoverReversion(c) PROVE Replaced(d) /\ Applying(d)
  BY <1>2, <1>11 DEF RecoverReversion
<1>12. ASSUME Crash \/ Start \/ RecoverReversions \/ FinishStart
       PROVE  Replaced(d) /\ Applying(d)
  BY <1>12 DEF Crash, Start, RecoverReversions, FinishStart, Reconcile
<1>13. CASE Proposals \/ Person \/ \E n \in Notes : ReconcileOne(n)
  BY <1>4, <1>13
  DEF Proposals, Propose, Reject, Compare, Person, AdoptRead, RetireNote, EditFile, AdoptCommit,
      SetManualLock, ReconcileOne, Reconcile, process
<1>14. CASE UNCHANGED vars BY <1>4, <1>14 DEF vars, process
<1>15. QED
  BY <1>7, <1>8, <1>9, <1>10, <1>11, <1>12, <1>13, <1>14 DEF Next, Startup

LEMMA WroteStep ==
    ASSUME TypesInv, ProposalsAreLinked, WroteInv, [Next]_vars
    PROVE  WroteInv'
<1>1. /\ vault \in [Notes -> {NoFile} \cup Texts] /\ edits \in Nat /\ BridgeTyped
      /\ \A c \in Candidates : cand[c] \in CandRows
  BY BoundsAssumption DEF TypesInv, Tables, FilesTyped, ClaimsTyped, CandsTyped
<1>2. edits' = edits \/ edits' > 0
  BY <1>1, WhoWrites DEF ChangesEdits, EditFile, SetManualLock
<1>3. written \subseteq written'
  BY OnlyTheBridge DEF Obsidian, BridgeKnown, BridgePrepare, BridgeWrite, BridgeReceipt, ObsidianStops
<1>4. \A c \in Candidates : Written(c) => Written(c)' BY <1>3 DEF Written
<1>5. /\ \A n \in Notes : vault'[n] # NoFile => \A c \in vault'[n] \cap Candidates : Written(c)'
      /\ edits' = 0 => \A c \in Candidates :
             Written(c)' => c \in vault'[TargetNote(c)] \/ <<c, 0>> \in written'
  <2>1. CASE BridgeWrite /\ SameBase(busy.cmd)
    <3>1. PICK cmd \in Fitting : cmd = busy.cmd BY <1>1, <2>1 DEF BridgeWrite, Idle, BridgeTyped
    <3>2. PICK b \in Candidates, r \in 0..MaxRevision : cmd.id = <<b, r>>
      BY CommandFacts DEF RequestIds
    <3>3. /\ FileOf(cmd) = TargetNote(b) /\ TargetNote(b) \in Notes /\ vault[TargetNote(b)] = cmd.base
          /\ vault' = [vault EXCEPT ![TargetNote(b)] = cmd.result]
          /\ written' = written \cup {<<b, r>>} /\ edits' = edits
      BY <2>1, <3>1, <3>2, CandidateFacts DEF BridgeWrite, SameBase, FileOf
    <3>4. /\ cmd.base \in Texts /\ cmd.result \in Texts /\ cmd.base # NoFile
          /\ IF r = 0 THEN cmd.base = cmd.result \cup {b} ELSE cmd.result = cmd.base \cup {b}
      BY <3>2, CommandFacts, TextFacts DEF Fitting
    <3>5. r # 0 => Written(b)'
      <4>1. r # 0 => r \in 1..MaxRevision BY BoundsAssumption
      <4>2. QED BY <3>3, <4>1 DEF Written
    <3>6. \A c \in Candidates \ {b} : Written(c)' => Written(c) BY <3>3 DEF Written
    <3>7. ASSUME NEW n \in Notes, vault'[n] # NoFile, NEW c \in vault'[n] \cap Candidates
          PROVE  Written(c)'
      <4>1. CASE n # TargetNote(b) BY <1>1, <1>4, <3>3, <3>7, <4>1 DEF WroteInv
      <4>2. CASE n = TargetNote(b)
        <5>1. c \in cmd.result BY <1>1, <3>3, <3>7, <4>2
        <5>2. c \in cmd.base => Written(c)' BY <1>4, <3>3, <3>4, <3>7 DEF WroteInv
        <5>3. QED BY <3>4, <3>5, <5>1, <5>2
      <4>3. QED BY <4>1, <4>2
    <3>8. ASSUME edits' = 0, NEW c \in Candidates, Written(c)'
          PROVE  c \in vault'[TargetNote(c)] \/ <<c, 0>> \in written'
      <4>1. CASE c = b BY <1>1, <3>3, <3>4, <4>1
      <4>2. CASE c # b
        <5>1. c \in vault[TargetNote(c)] \/ <<c, 0>> \in written
          BY <3>3, <3>6, <3>8, <4>2 DEF WroteInv
        <5>2. CASE TargetNote(c) = TargetNote(b)
          BY <1>1, <3>3, <3>4, <4>2, <5>1, <5>2
        <5>3. CASE TargetNote(c) # TargetNote(b) BY <1>1, <3>3, <5>1, <5>3
        <5>4. QED BY <5>2, <5>3
      <4>3. QED BY <4>1, <4>2
    <3>9. QED BY <3>7, <3>8
  <2>2. CASE \E n \in Notes, text \in {NoFile} \cup Texts : EditFile(n, text)
    <3>1. PICK m \in Notes, text \in {NoFile} \cup Texts : EditFile(m, text) BY <2>2
    <3>2. edits' # 0 BY <1>1, <3>1 DEF EditFile
    <3>3. ASSUME NEW n \in Notes, vault'[n] # NoFile, NEW c \in vault'[n] \cap Candidates
          PROVE  Written(c)'
      <4>1. vault[n] # NoFile /\ c \in vault[n]
        BY <1>1, <3>1, <3>3, CandidatesAssumption DEF EditFile
      <4>2. QED BY <1>4, <3>3, <4>1 DEF WroteInv
    <3>4. QED BY <3>2, <3>3
  <2>3. CASE UNCHANGED <<vault, written>>
    BY <1>1, <1>2, <1>4, <2>3 DEF WroteInv, Written
  <2>4. QED
    <3>1. ~(BridgeWrite /\ SameBase(busy.cmd)) => UNCHANGED written
      BY OnlyTheBridge
      DEF Obsidian, BridgeKnown, BridgePrepare, BridgeWrite, BridgeReceipt, ObsidianStops
    <3>2. BridgeWrite /\ ~SameBase(busy.cmd) => UNCHANGED vault BY DEF BridgeWrite
    <3>3. QED BY <2>1, <2>2, <2>3, <3>1, <3>2, WhoWrites DEF ChangesFiles
<1>6. \A c \in Candidates : pc'[c] = "replaced" => Written(c)'
  <2>1. SUFFICES ASSUME NEW c \in Candidates, pc'[c] = "replaced" PROVE Written(c)
    BY <1>4
  <2>2. CASE pc[c] = "replaced" BY <2>2 DEF WroteInv
  <2>3. CASE pc[c] # "replaced"
    <3>1. Replaced(c) /\ Applying(c) BY <2>1, <2>3, SeenReplaced
    <3>2. cand[c].base \in Texts
      BY <1>1, <3>1 DEF TypesInv, BasesAreTexts, Based, Applying, CandRows
    <3>3. Result(c) # NoFile /\ c \in Result(c) BY <3>2, TextFacts DEF Result
    <3>4. QED BY <3>1, <3>3, CandidateFacts DEF Replaced, WroteInv
  <2>4. QED BY <2>2, <2>3
<1>7. AppliedWasWritten'
  <2>1. SUFFICES ASSUME NEW c \in Candidates
                 PROVE  /\ cand'[c].status = "APPLIED" => Written(c)'
                        /\ rever'[c].status = "APPLIED" => <<c, 0>> \in written' \/ edits' > 0
    BY DEF AppliedWasWritten, Written
  <2>2. ProposalMoves(c) /\ ReversionMoves(c) BY ProposalsMove, ReversionsMove DEF TypesInv
  <2>3. /\ cand[c].status = "APPLIED" => Written(c)
        /\ rever[c].status = "APPLIED" => <<c, 0>> \in written \/ edits > 0
    BY DEF WroteInv, AppliedWasWritten, Written
  <2>4. Applied(c) => Written(c) BY DEF Applied, MarkApplied, WroteInv
  <2>5. cand'[c].status = "APPLIED" => Written(c)'
    BY <1>1, <1>4, <2>2, <2>3, <2>4
    DEF ProposalMoves, Drifts, Begins, Abandons, Compared, Intention, CandRows
  <2>6. Reverted(c) => <<c, 0>> \in written \/ edits > 0
    <3>1. SUFFICES ASSUME Reverted(c), edits = 0 PROVE <<c, 0>> \in written
      BY <1>1
    <3>2. cand[c].status = "APPLIED" BY <3>1 DEF Reverted, Revertible
    <3>3. vault[TargetNote(c)] = cand[c].base
      BY <3>1 DEF Reverted, Documents, Reserves
    <3>4. c \notin cand[c].base
      BY <3>2 DEF TypesInv, BasesAreTexts, Based, ProposalsAreLinked, Linked
    <3>5. QED BY <2>3, <3>1, <3>2, <3>3, <3>4 DEF WroteInv
  <2>7. rever'[c].status = "APPLIED" => <<c, 0>> \in written' \/ edits' > 0
    BY <1>1, <1>2, <1>3, <2>2, <2>3, <2>6 DEF ReversionMoves, Waits, Shown, Starts, Stops
  <2>8. QED BY <2>5, <2>7
<1>8. QED BY <1>5, <1>6, <1>7 DEF WroteInv

(* What the tables record as done was done: an applied proposal replaced its note    *)
(* through Obsidian, and so did its reversion unless the person edited a file; and    *)
(* every table has its type                                                          *)
THEOREM MaintenanceIsSound == Spec => []TablesAreSound
<1> DEFINE Inv == TypesInv /\ IntentionsDoNotMeet /\ ProposalsAreLinked /\ KP!IInv /\ WroteInv
<1>1. Init => Inv
  <2>1. Init => IntentionsDoNotMeet
    BY DEF Init, NewCandidate, IntentionsDoNotMeet, Applying, Reverting
  <2>2. Init => WroteInv
    BY DEF Init, NewCandidate, WroteInv, Written, AppliedWasWritten, Original
  <2>3. QED BY <2>1, <2>2, TypesInit, KnowledgeInit, KnowledgeIsKept
<1>2. Inv /\ [Next]_vars => Inv'
  <2> SUFFICES ASSUME Inv, [Next]_vars PROVE Inv'
    OBVIOUS
  <2>1. TypesInv' /\ IntentionsDoNotMeet' BY TypesStep, IntentionsStep
  <2>2. ProposalsAreLinked' BY LinkedStep
  <2>3. KP!IInv' BY KnowledgeStep, MovesAreSteps, KnowledgeIsKept
  <2>4. WroteInv' BY WroteStep
  <2>5. QED BY <2>1, <2>2, <2>3, <2>4
<1>3. ASSUME Inv PROVE TablesAreSound
  BY <1>3, TypesGiveTypeOK DEF TablesAreSound, WroteInv
<1>4. QED BY <1>1, <1>2, <1>3, PTL DEF Spec
=============================================================================
