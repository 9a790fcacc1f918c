-------------------------- MODULE PublicationProofs --------------------------
(***************************************************************************)
(* What Publication promises, for any number of revisions, of things the   *)
(* person does in the vault, of crashes and of failures of the disk.       *)
(*                                                                         *)
(* A document has one revision at work at a time (OnceInv), and the folder *)
(* its source is in follows from it: the source is archived or rejected    *)
(* under the name of the revision at work, the last one (FoldersInv). The  *)
(* steps of the service are tied to the rows they will write by ControlInv.*)
(***************************************************************************)
EXTENDS Publication, WellFoundedInduction, TLAPS

(* The steps of each operation *)
PublishSteps   == {"check", "write", "install", "unlink", "verify", "mark"}
RecordSteps    == {"archive", "complete"}
RejectSteps    == {"moveNote", "dropNote", "moveSource", "rejected"}
ReprocessSteps == {"copy", "copied", "plan", "planned"}

(* The notes the vault counts on, and the revisions that ended *)
InForce == {"PUBLISHED", "REJECTING"}
Settled(r) == result[r] = "ERROR" \/ note[r].status = "REJECTED"

(* Each step of an operation is at a row with the status the operation acts on:    *)
(* a note is archived while its capture is still in process (publication.py:64)     *)
ControlInv ==
    /\ pc \in PublishSteps => note[rev].status \in {"PUBLISHING", "CONFLICT"}
    /\ pc \in RecordSteps => note[rev].status = "PUBLISHED" /\ capture.status = "PROCESSING"
    /\ pc \in RejectSteps => note[rev].status = "REJECTING"
    /\ pc \in ReprocessSteps => intent[rev].status # "none"
    /\ pc = "recover" => stage # 0

(* One revision at most is not settled, none in a document that waits, failed or was *)
(* rejected, and a completed document has its note in force                          *)
OnceInv ==
    /\ \A r \in Revisions : note[r].status # "none" => result[r] = "SUCCESS"
    /\ \A r, s \in Planned : ~Settled(r) /\ ~Settled(s) => r = s
    /\ capture.status \in {"PENDING", "FAILED", "REJECTED"} => \A r \in Planned : Settled(r)
    /\ capture.status = "COMPLETED" => Notes(InForce) # {}

(* What the vault shows of a note was installed whole: the temporary has no other    *)
(* name while it is written                                                          *)
InstalledInv ==
    /\ \A r \in Revisions : vault[r] \in Texts \/ moved[r] \in Texts => r \in installed
    /\ pc \in {"write", "install"} => linked[rev] = "none"
    /\ pc = "install" => temp[rev] # Partial
    /\ pc = "mark" => rev \in installed
    /\ PublishedWasInstalled

(* The rejected note and source are kept before the row says REJECTED; the capture   *)
(* names the source of the note that is being rejected                               *)
EvidenceInv ==
    /\ \A r \in Revisions : note[r].status = "REJECTING" => capture.rejected = r
    /\ pc \in {"dropNote", "moveSource", "rejected"} => kept[rev] # NoFile
    /\ pc = "rejected" => rev \in source.rejected
    /\ RejectedKeepsItsEvidence

(* The archive and the rejected sources belong to notes that got there, and the      *)
(* revision that is not settled is the last one                                      *)
FoldersInv ==
    /\ \A r \in source.rejected : note[r].status \in {"REJECTING", "REJECTED"}
    /\ \A r \in source.completed : note[r].status \in {"PUBLISHED", "REJECTING", "REJECTED"}
    /\ \A r \in Planned : ~Settled(r) => \A s \in Planned : s <= r

(* Reprocessing prepares the next revision, and only after a rejection               *)
IntentInv ==
    \A r \in Revisions : intent[r].status # "none" =>
        /\ \E s \in Revisions : note[s].status = "REJECTED"
        /\ result[r] = "none" => r = NextRevision

(* The source is where its row says, also between the copy or the move of the file   *)
(* and the transaction that records it                                               *)
SourceInv ==
    /\ losses = 0 /\ pc = "copied" => rev \in source.processing
    /\ pc = "complete" /\ archived => rev \in source.completed
    /\ pc = "complete" /\ losses = 0 => archived
    /\ SourceIsWhereTheRowSays

(* The inductive invariant *)
IInv ==
    /\ TypeOK /\ ControlInv /\ OnceInv /\ InstalledInv
    /\ EvidenceInv /\ FoldersInv /\ IntentInv /\ SourceInv

-----------------------------------------------------------------------------
(* Revisions *)

(* A set of naturals has a least element *)
LEMMA Least ==
    ASSUME NEW S \in SUBSET Nat, S # {}
    PROVE  \E m \in S : \A s \in S : m <= s
<1>1. \E m \in S : \A s \in S : <<s, m>> \notin OpToRel(<, Nat)
  BY NatLessThanWellFounded, WFMin, Zenon
<1>2. \A s, m \in S : ~(s < m) => m <= s
  OBVIOUS
<1>3. QED
  BY <1>1, <1>2 DEF OpToRel

(* A set of revisions has a greatest element *)
LEMMA Greatest ==
    ASSUME NEW S \in SUBSET Revisions, S # {}
    PROVE  \E m \in S : \A s \in S : s <= m
<1> DEFINE Upper == {n \in Nat : \A s \in S : s <= n}
<1>1. MaxRevision \in Upper
  BY BoundsAssumption DEF Revisions
<1>2. PICK m \in Upper : \A n \in Upper : m <= n
  BY <1>1, Least
<1>3. S \subseteq Nat \ {0}
  BY DEF Revisions
<1>4. ASSUME m \notin S
      PROVE  FALSE
  <2>1. PICK s \in S : s <= m
    BY <1>2
  <2>2. m - 1 \in Nat
    BY <1>3, <2>1
  <2>3. \A t \in S : t <= m - 1
    BY <1>2, <1>3, <1>4
  <2>4. QED
    BY <1>2, <2>2, <2>3
<1>5. QED
  BY <1>2, <1>4

(* The last revision planned *)
Last(r) == r \in Planned /\ \A s \in Planned : s <= r

(* NextRevision is above every planned revision, and follows the last one *)
LEMMA NextIsLast ==
    /\ NextRevision \in Nat \ {0}
    /\ \A r \in Planned : r < NextRevision
    /\ \A r \in Revisions : Last(r) => NextRevision = r + 1
<1>0. Planned \in SUBSET Revisions /\ Revisions \subseteq Nat \ {0}
  BY DEF Planned, Revisions
<1>1. CASE Planned = {}
  BY <1>1 DEF NextRevision, Last
<1>2. CASE Planned # {}
  <2> DEFINE m == CHOOSE r \in Planned : \A s \in Planned : s <= r
  <2>1. m \in Planned /\ \A s \in Planned : s <= m
    BY <1>0, <1>2, Greatest
  <2>2. NextRevision = 1 + m
    BY <1>2 DEF NextRevision
  <2> HIDE DEF m
  <2>3. ASSUME NEW r \in Revisions, Last(r)
        PROVE  r = m
    BY <1>0, <2>1, <2>3 DEF Last
  <2>4. QED
    BY <1>0, <2>1, <2>2, <2>3
<1>3. QED
  BY <1>1, <1>2

(* recover() finds a row when there is one *)
LEMMA LeastIsChosen ==
    ASSUME NEW S \in SUBSET Revisions, S # {}
    PROVE  (CHOOSE r \in S : \A s \in S : r <= s) \in S
<1>1. S \in SUBSET Nat
  BY DEF Revisions
<1>2. QED
  BY <1>1, Least

-----------------------------------------------------------------------------
(* Types *)

(* Rows keep their type when their status changes *)
LEMMA RowTyping ==
    /\ \A n \in NoteRows, s \in NoteStatus : n.status # "none" =>
          [n EXCEPT !.status = s] \in NoteRows
    /\ \A i \in IntentRows, s \in IntentStatus : i.status # "none" =>
          [i EXCEPT !.status = s] \in IntentRows
BY DEF NoteRows, NoNote, IntentRows, NoIntent

LEMMA StatusTyping ==
    /\ \A n \in NoteRows : n.status # "none" => n.status \in NoteStatus
    /\ \A i \in IntentRows : i.status # "none" => i.status \in IntentStatus
BY DEF NoteRows, NoNote, IntentRows, NoIntent

(* The tables of captures and the folders, as TypeOK has them *)
CaptureStatus == {"PENDING", "PROCESSING", "COMPLETED", "FAILED", "REJECTED"}
CaptureRows == [status : CaptureStatus, processing : Paths, archive : Paths, rejected : Paths]

LEMMA CaptureTyping ==
    ASSUME NEW c \in CaptureRows
    PROVE  /\ \A s \in CaptureStatus : [c EXCEPT !.status = s] \in CaptureRows
           /\ \A p \in Paths : [c EXCEPT !.rejected = p] \in CaptureRows
           /\ \A s \in CaptureStatus, p \in Paths :
                 [c EXCEPT !.status = s, !.archive = p] \in CaptureRows
           /\ \A s \in CaptureStatus, p, q \in Paths :
                 [c EXCEPT !.status = s, !.processing = p, !.archive = q] \in CaptureRows
BY DEF CaptureRows

Folders == [processing : SUBSET Revisions, completed : SUBSET Revisions,
            rejected : SUBSET Revisions]
LEMMA FolderTyping ==
    ASSUME NEW f \in Folders, NEW p \in SUBSET Revisions, NEW q \in SUBSET Revisions
    PROVE  [f EXCEPT !.completed = p, !.rejected = q] \in Folders
BY DEF Folders

(* conflict_publication keeps the types *)
LEMMA ConflictTypes ==
    ASSUME TypeOK, ControlInv, pc \in PublishSteps, Conflict
    PROVE  TypeOK'
<1>1. note[rev] \in NoteRows /\ note[rev].status # "none" /\ rev \in Revisions
  BY DEF TypeOK, ControlInv
<1>2. note' \in [Revisions -> NoteRows]
  <2>1. \A s \in NoteStatus : [note[rev] EXCEPT !.status = s] \in NoteRows
    BY <1>1, RowTyping
  <2>2. \E s \in NoteStatus : note' = [note EXCEPT ![rev] = [note[rev] EXCEPT !.status = s]]
    BY <1>1, StatusTyping DEF Conflict, NoteStatus
  <2>3. QED
    BY <2>1, <2>2 DEF TypeOK
<1>3. QED
  BY <1>2 DEF TypeOK, Conflict, Rest, Goto, Steps, files, bounds

(* So do the transactions of publish, reject and reprocess *)
LEMMA MarkTypes ==
    ASSUME TypeOK, ControlInv, MarkPublished
    PROVE  TypeOK'
<1>1. note[rev] \in NoteRows /\ note[rev].status # "none" /\ rev \in Revisions
  BY DEF TypeOK, ControlInv, MarkPublished, At, PublishSteps
<1>2. note' \in [Revisions -> NoteRows]
  <2>1. \A s \in NoteStatus : [note[rev] EXCEPT !.status = s] \in NoteRows
    BY <1>1, RowTyping
  <2>2. \E s \in NoteStatus : note' = [note EXCEPT ![rev] = [note[rev] EXCEPT !.status = s]]
    BY <1>1, StatusTyping DEF MarkPublished, NoteStatus
  <2>3. QED
    BY <2>1, <2>2 DEF TypeOK
<1>3. QED
  BY <1>2 DEF TypeOK, MarkPublished, Goto, Steps, files, bounds

LEMMA CompleteCaptureTypes ==
    ASSUME TypeOK, ControlInv, CompleteCapture
    PROVE  TypeOK'
<1>1. capture \in CaptureRows /\ 0 \in Paths /\ rev \in Paths
  BY BoundsAssumption DEF TypeOK, Paths, Revisions, CaptureRows, CaptureStatus
<1>2. capture' \in CaptureRows
  BY <1>1, CaptureTyping DEF CompleteCapture, CaptureStatus
<1>3. QED
  BY <1>2 DEF TypeOK, CompleteCapture, Rest, Goto, Steps, files, bounds, CaptureRows,
     CaptureStatus

LEMMA PrepareRejectionTypes ==
    ASSUME TypeOK, ControlInv, NEW r \in Revisions, PrepareRejection(r)
    PROVE  TypeOK'
<1>1. capture \in CaptureRows /\ r \in Paths
  BY BoundsAssumption DEF TypeOK, Paths, Revisions, CaptureRows, CaptureStatus
<1>2. capture' \in CaptureRows
  BY <1>1, CaptureTyping DEF PrepareRejection
<1>3. note' \in [Revisions -> NoteRows]
  <2>1. [note[r] EXCEPT !.status = "REJECTING"] \in NoteRows
    BY RowTyping DEF PrepareRejection, NoteStatus, TypeOK
  <2>2. QED
    BY <2>1 DEF TypeOK, PrepareRejection
<1>4. QED
  BY <1>2, <1>3 DEF TypeOK, PrepareRejection, Steps, files, bounds, CaptureRows,
     CaptureStatus

LEMMA MoveSourceTypes ==
    ASSUME TypeOK, ControlInv, EvidenceInv, MoveSource
    PROVE  TypeOK'
<1>1. capture.rejected = rev /\ rev \in Revisions
  BY DEF TypeOK, MoveSource, ControlInv, EvidenceInv, At, RejectSteps
<1>2. source \in Folders
  BY DEF TypeOK, Folders
<1>3. source' \in Folders
  <2>1. /\ source.completed \ {rev} \in SUBSET Revisions
        /\ source.rejected \cup {rev} \in SUBSET Revisions
    BY <1>1, <1>2 DEF Folders
  <2>2. QED
    BY <1>1, <1>2, <2>1, FolderTyping DEF MoveSource
<1>4. QED
  BY <1>3 DEF TypeOK, MoveSource, Goto, Steps, rows, bounds, Folders

LEMMA CompleteRejectionTypes ==
    ASSUME TypeOK, ControlInv, CompleteRejection
    PROVE  TypeOK'
<1>1. capture \in CaptureRows /\ 0 \in Paths
  BY BoundsAssumption DEF TypeOK, Paths, Revisions, CaptureRows, CaptureStatus
<1>2. capture' \in CaptureRows
  BY <1>1, CaptureTyping DEF CompleteRejection, CaptureStatus
<1>3. note' \in [Revisions -> NoteRows]
  <2>1. note' = [note EXCEPT ![rev] = [note[rev] EXCEPT !.status = "REJECTED"]]
    BY DEF CompleteRejection, ControlInv, At, RejectSteps
  <2>2. [note[rev] EXCEPT !.status = "REJECTED"] \in NoteRows
    BY RowTyping DEF CompleteRejection, ControlInv, At, RejectSteps, NoteStatus, TypeOK
  <2>3. QED
    BY <2>1, <2>2 DEF TypeOK
<1>4. QED
  BY <1>2, <1>3 DEF TypeOK, CompleteRejection, Rest, Goto, Steps, files, bounds,
     CaptureRows, CaptureStatus

LEMMA MarkCopiedTypes ==
    ASSUME TypeOK, ControlInv, MarkCopied
    PROVE  TypeOK'
<1>1. capture \in CaptureRows /\ 0 \in Paths /\ rev \in Paths
  BY BoundsAssumption DEF TypeOK, Paths, Revisions, CaptureRows, CaptureStatus
<1>2. capture' \in CaptureRows
  BY <1>1, CaptureTyping DEF MarkCopied, CaptureStatus
<1>3. intent' \in [Revisions -> IntentRows]
  <2>1. [intent[rev] EXCEPT !.status = "COPIED"] \in IntentRows
    BY RowTyping DEF MarkCopied, ControlInv, At, ReprocessSteps, IntentStatus, TypeOK
  <2>2. QED
    BY <2>1 DEF TypeOK, MarkCopied
<1>4. QED
  BY <1>2, <1>3 DEF TypeOK, MarkCopied, Goto, Steps, files, bounds, CaptureRows,
     CaptureStatus

LEMMA PlanReprocessTypes ==
    ASSUME TypeOK, PlanReprocess
    PROVE  TypeOK'
<1>1. capture \in CaptureRows
  BY DEF TypeOK, CaptureRows, CaptureStatus
<1>2. capture' \in CaptureRows
  BY <1>1, CaptureTyping DEF PlanReprocess, CaptureStatus
<1>3. QED
  BY <1>2 DEF TypeOK, PlanReprocess, Goto, Steps, files, bounds, CaptureRows,
     CaptureStatus

LEMMA MarkPlannedTypes ==
    ASSUME TypeOK, ControlInv, MarkPlanned
    PROVE  TypeOK'
<1>1. intent[rev] \in IntentRows /\ intent[rev].status # "none" /\ rev \in Revisions
  BY DEF TypeOK, ControlInv, MarkPlanned, At, ReprocessSteps
<1>2. intent' \in [Revisions -> IntentRows]
  <2>1. \A s \in IntentStatus : [intent[rev] EXCEPT !.status = s] \in IntentRows
    BY <1>1, RowTyping
  <2>2. \E s \in IntentStatus : intent' = [intent EXCEPT ![rev] = [intent[rev] EXCEPT !.status = s]]
    BY <1>1, StatusTyping DEF MarkPlanned, IntentStatus
  <2>3. QED
    BY <2>1, <2>2 DEF TypeOK
<1>3. QED
  BY <1>2 DEF TypeOK, MarkPlanned, Rest, Goto, Steps, files, bounds

LEMMA LoseSourceTypes ==
    ASSUME TypeOK, LoseSource
    PROVE  TypeOK'
<1>1. source' \in Folders
  BY DEF TypeOK, LoseSource, Folders
<1>2. losses' \in 0..MaxLosses
  BY BoundsAssumption DEF TypeOK, LoseSource
<1>3. QED
  BY <1>1, <1>2 DEF TypeOK, LoseSource, Folders, rows, service

(* recover() takes a row to the first step of its operation *)
LEMMA RecoveredRow ==
    ASSUME TypeOK, ControlInv, RecoverOne
    PROVE  /\ rev' \in Revisions
           /\ \/ pc' = "check" /\ note[rev'].status \in {"PUBLISHING", "CONFLICT"}
              \/ /\ pc' = "archive" /\ note[rev'].status = "PUBLISHED"
                 /\ capture.status # "COMPLETED"
              \/ pc' = "moveNote" /\ note[rev'].status = "REJECTING"
              \/ pc' = "copy" /\ intent[rev'].status = "PREPARED"
              \/ pc' = "plan" /\ intent[rev'].status = "COPIED"
<1> DEFINE loop == RecoveryStages[stage]
           left == Pending(loop) \ visited
<1>1. stage \in 1..4
  BY DEF TypeOK, ControlInv, RecoverOne, At
<1>2. loop \in {"publish", "complete", "reject", "reprocess"}
  BY <1>1 DEF RecoveryStages
<1>3. left \in SUBSET Revisions
  BY <1>2 DEF Pending, Notes
<1>4. rev' \in left /\ left # {} /\ pc' = FirstStep(loop, rev')
  BY <1>3, LeastIsChosen DEF RecoverOne
<1> HIDE DEF loop
<1>5. rev' \in Pending(loop)
  BY <1>4
<1>6. QED
  BY <1>2, <1>3, <1>4, <1>5 DEF Pending, Notes, FirstStep

LEMMA RecoverOneTypes ==
    ASSUME TypeOK, ControlInv, RecoverOne
    PROVE  TypeOK'
<1>1. /\ rev' \in Revisions
      /\ pc' \in Steps
  BY RecoveredRow DEF Steps
<1>2. visited' = visited \cup {rev'}
  BY DEF RecoverOne
<1>3. /\ text' = names
      /\ UNCHANGED <<rows, files, names, archived, stage, installed, bounds>>
  BY DEF RecoverOne
<1>4. QED
  BY <1>1, <1>2, <1>3 DEF TypeOK, rows, files, bounds

(* Every step keeps the types *)
LEMMA TypesStep ==
    ASSUME TypeOK, ControlInv, EvidenceInv, [Next]_vars
    PROVE  TypeOK'
<1>1. ASSUME Publish
      PROVE  TypeOK'
  <2>1. ASSUME NEW r \in Revisions, Prepare(r)
        PROVE  TypeOK'
    BY <2>1 DEF Prepare, TypeOK, Steps, NoteRows, NoteStatus, files, bounds
  <2>2. ASSUME NEW r \in Revisions, Refuse(r)
        PROVE  TypeOK'
    BY <2>2 DEF Refuse, TypeOK, files, bounds, service
  <2>3. ASSUME CheckFound
        PROVE  TypeOK'
    BY <2>3 DEF CheckFound, TypeOK, Goto, Steps, Contents, rows, bounds
  <2>4. ASSUME StartTemporary
        PROVE  TypeOK'
    BY <2>4 DEF StartTemporary, TypeOK, Goto, Steps, Contents, Unlinked, rows, bounds
  <2>5. ASSUME WriteTemporary
        PROVE  TypeOK'
    BY <2>5 DEF WriteTemporary, TypeOK, Goto, Steps, Contents, rows, bounds
  <2>6. ASSUME Install
        PROVE  TypeOK'
    BY <2>6 DEF Install, TypeOK, Goto, Steps, Contents, rows, bounds
  <2>7. ASSUME InstallFound \/ Verify \/ VerifyGone
        PROVE  TypeOK'
    BY <2>7 DEF InstallFound, Verify, VerifyGone, TypeOK, Rest, Goto, Steps, rows, files,
       bounds
  <2>8. ASSUME CheckConflict \/ InstallConflict \/ VerifyConflict
        PROVE  TypeOK'
    BY <2>8, ConflictTypes DEF CheckConflict, InstallConflict, VerifyConflict, At,
       PublishSteps
  <2>9. ASSUME UnlinkTemporary
        PROVE  TypeOK'
    BY <2>9 DEF UnlinkTemporary, TypeOK, Goto, Steps, Contents, rows, bounds
  <2>10. ASSUME ArchiveAgain \/ ArchiveNothing
         PROVE  TypeOK'
    BY <2>10 DEF ArchiveAgain, ArchiveNothing, TypeOK, Archiving, Rest, Goto, Steps, rows,
       files, bounds
  <2>11. ASSUME Archive
         PROVE  TypeOK'
    BY <2>11 DEF Archive, TypeOK, Archiving, Steps, rows, bounds
  <2>12. QED
    BY <1>1, <2>1, <2>2, <2>3, <2>4, <2>5, <2>6, <2>7, <2>8, <2>9, <2>10, <2>11,
       MarkTypes, CompleteCaptureTypes DEF Publish
<1>2. ASSUME Reject
      PROVE  TypeOK'
  <2>1. ASSUME NoteMovedBefore \/ NoteMissing \/ SourceMovedBefore \/ SourceMissing
        PROVE  TypeOK'
    BY <2>1 DEF NoteMovedBefore, NoteMissing, SourceMovedBefore, SourceMissing, TypeOK,
       Rest,
                Goto, Steps, rows, files, bounds
  <2>2. ASSUME MoveNote
        PROVE  TypeOK'
    BY <2>2 DEF MoveNote, TypeOK, Goto, Steps, Contents, rows, bounds
  <2>3. ASSUME DropNote
        PROVE  TypeOK'
    BY <2>3 DEF DropNote, TypeOK, Goto, Steps, Contents, rows, bounds
  <2>4. QED
    BY <1>2, <2>1, <2>2, <2>3, PrepareRejectionTypes, MoveSourceTypes,
       CompleteRejectionTypes
       DEF Reject
<1>3. ASSUME Reprocess
      PROVE  TypeOK'
  <2>1. ASSUME NEW r \in Revisions, PrepareReprocess(r)
        PROVE  TypeOK'
    BY <2>1 DEF PrepareReprocess, TypeOK, Steps, IntentRows, IntentStatus, RejectedSource,
       Paths,
                Revisions, files, bounds
  <2>2. ASSUME CopySource
        PROVE  TypeOK'
    BY <2>2 DEF CopySource, TypeOK, Copied, Goto, Steps, rows, bounds
  <2>3. ASSUME CopyFound \/ CopyImpossible \/ PlanImpossible
        PROVE  TypeOK'
    BY <2>3 DEF CopyFound, CopyImpossible, PlanImpossible, TypeOK, Rest, Goto, Steps,
       rows, files,
                bounds
  <2>4. QED
    BY <1>3, <2>1, <2>2, <2>3, MarkCopiedTypes, PlanReprocessTypes, MarkPlannedTypes DEF
       Reprocess
<1>4. ASSUME Recover
      PROVE  TypeOK'
  <2>1. ASSUME RecoverNextLoop
        PROVE  TypeOK'
    BY <2>1 DEF RecoverNextLoop, TypeOK, ControlInv, At, Steps, rows, files, bounds
  <2>2. QED
    BY <1>4, <2>1, RecoverOneTypes DEF Recover
<1>5. ASSUME Queue
      PROVE  TypeOK'
  BY <1>5 DEF Queue, Plan, Reopen, Finish, TypeOK, files, service, bounds
<1>6. ASSUME Crash \/ Outage
      PROVE  TypeOK'
  BY <1>6, BoundsAssumption DEF Crash, Outage, TypeOK, ControlInv, Rest, Goto, Steps,
     rows, files
<1>7. ASSUME Rename \/ \E r \in Revisions : Edit(r) \/ CreateFile(r) \/ MoveAway(r) \/ MoveBack(r)
      PROVE  TypeOK'
  <2>1. ASSUME Rename
        PROVE  TypeOK'
    BY <2>1 DEF Rename, TypeOK, rows, files, service, bounds
  <2>2. ASSUME MayEdit
        PROVE  edits' \in 0..MaxEdits
    BY <2>2, BoundsAssumption DEF MayEdit, TypeOK
  <2>3. ASSUME NEW r \in Revisions, Edit(r) \/ CreateFile(r)
        PROVE  TypeOK'
    BY <2>2, <2>3 DEF Edit, CreateFile, TypeOK, Contents, rows, service
  <2>4. ASSUME NEW r \in Revisions, MoveAway(r) \/ MoveBack(r)
        PROVE  TypeOK'
    BY <2>2, <2>4 DEF MoveAway, MoveBack, TypeOK, Contents, rows, service
  <2>5. QED
    BY <1>7, <2>1, <2>3, <2>4
<1>8. ASSUME UNCHANGED vars
      PROVE  TypeOK'
  BY <1>8 DEF TypeOK, vars, rows, files, service, bounds
<1>9. QED
  BY <1>1, <1>2, <1>3, <1>4, <1>5, <1>6, <1>7, <1>8, LoseSourceTypes DEF Next, Person

-----------------------------------------------------------------------------
(* Control *)

(* A note that is being published, published or rejected is the one its document *)
(* is working on                                                                  *)
LEMMA Working ==
    ASSUME TypeOK, OnceInv, NEW r \in Revisions, note[r].status \notin {"none", "REJECTED"}
    PROVE  /\ r \in Planned /\ ~Settled(r)
           /\ capture.status \in {"PROCESSING", "COMPLETED"}
<1>1. result[r] = "SUCCESS"
  BY DEF OnceInv
<1>2. r \in Planned /\ ~Settled(r)
  BY <1>1 DEF Planned, Settled
<1>3. QED
  BY <1>2 DEF OnceInv, TypeOK

(* and its document is not finished before the note is published *)
LEMMA Unpublished ==
    ASSUME TypeOK, OnceInv, NEW r \in Planned, ~Settled(r), note[r].status \notin InForce
    PROVE  capture.status = "PROCESSING"
<1>1. capture.status \in {"PROCESSING", "COMPLETED"}
  BY DEF OnceInv, TypeOK
<1>2. \A s \in Notes(InForce) : s \in Planned /\ ~Settled(s)
  BY Working DEF Notes, InForce
<1>3. Notes(InForce) = {}
  BY <1>2 DEF OnceInv, Notes, InForce
<1>4. QED
  BY <1>1, <1>3 DEF OnceInv

(* Every step leaves the service at a row it may act on *)
LEMMA ControlStep ==
    ASSUME TypeOK, ControlInv, OnceInv, [Next]_vars
    PROVE  ControlInv'
<1> USE DEF ControlInv, TypeOK, At, Goto, Rest, PublishSteps, RecordSteps, RejectSteps,
   ReprocessSteps, rows, files, service, bounds
<1>1. Publish => ControlInv'
  <2>1. \A r \in Revisions : Prepare(r) => ControlInv'
    BY DEF Prepare
  <2>2. \A r \in Revisions : Refuse(r) => ControlInv'
    BY DEF Refuse
  <2>3. CheckFound => ControlInv'
    BY DEF CheckFound
  <2>4. CheckConflict => ControlInv'
    BY DEF CheckConflict, Conflict
  <2>5. StartTemporary => ControlInv'
    BY DEF StartTemporary
  <2>6. WriteTemporary => ControlInv'
    BY DEF WriteTemporary
  <2>7. Install => ControlInv'
    BY DEF Install
  <2>8. InstallFound => ControlInv'
    BY DEF InstallFound
  <2>9. InstallConflict => ControlInv'
    BY DEF InstallConflict, Conflict
  <2>10. UnlinkTemporary => ControlInv'
    BY DEF UnlinkTemporary
  <2>11. Verify => ControlInv'
    BY DEF Verify
  <2>12. VerifyConflict => ControlInv'
    BY DEF VerifyConflict, Conflict
  <2>13. VerifyGone => ControlInv'
    BY DEF VerifyGone
  <2>14. MarkPublished => ControlInv'
    <3>1. ASSUME MarkPublished
          PROVE  /\ pc' = "archive" /\ rev' = rev /\ note'[rev].status = "PUBLISHED"
                 /\ capture'.status = "PROCESSING"
      BY <3>1, Working, Unpublished DEF MarkPublished, InForce
    <3>2. QED
      BY <3>1
  <2>15. ArchiveAgain => ControlInv'
    BY DEF ArchiveAgain, Archiving
  <2>16. ArchiveNothing => ControlInv'
    BY DEF ArchiveNothing, Archiving
  <2>17. Archive => ControlInv'
    BY DEF Archive, Archiving
  <2>18. CompleteCapture => ControlInv'
    BY DEF CompleteCapture
  <2>19. QED
    BY <2>1, <2>2, <2>3, <2>4, <2>5, <2>6, <2>7, <2>8, <2>9, <2>10, <2>11, <2>12, <2>13,
       <2>14, <2>15, <2>16, <2>17, <2>18 DEF Publish
<1>2. Reject => ControlInv'
  <2>1. \A r \in Revisions : PrepareRejection(r) => ControlInv'
    BY DEF PrepareRejection
  <2>2. NoteMovedBefore => ControlInv'
    BY DEF NoteMovedBefore
  <2>3. NoteMissing => ControlInv'
    BY DEF NoteMissing
  <2>4. MoveNote => ControlInv'
    BY DEF MoveNote
  <2>5. DropNote => ControlInv'
    BY DEF DropNote
  <2>6. SourceMovedBefore => ControlInv'
    BY DEF SourceMovedBefore
  <2>7. SourceMissing => ControlInv'
    BY DEF SourceMissing
  <2>8. MoveSource => ControlInv'
    BY DEF MoveSource
  <2>9. CompleteRejection => ControlInv'
    BY DEF CompleteRejection
  <2>10. QED
    BY <2>1, <2>2, <2>3, <2>4, <2>5, <2>6, <2>7, <2>8, <2>9 DEF Reject
<1>3. Reprocess => ControlInv'
  <2>1. \A r \in Revisions : PrepareReprocess(r) => ControlInv'
    BY DEF PrepareReprocess
  <2>2. CopySource => ControlInv'
    BY DEF CopySource
  <2>3. CopyFound => ControlInv'
    BY DEF CopyFound
  <2>4. CopyImpossible => ControlInv'
    BY DEF CopyImpossible
  <2>5. MarkCopied => ControlInv'
    BY DEF MarkCopied
  <2>6. PlanReprocess => ControlInv'
    BY DEF PlanReprocess
  <2>7. PlanImpossible => ControlInv'
    BY DEF PlanImpossible
  <2>8. MarkPlanned => ControlInv'
    BY DEF MarkPlanned
  <2>9. QED
    BY <2>1, <2>2, <2>3, <2>4, <2>5, <2>6, <2>7, <2>8 DEF Reprocess
<1>4. Recover => ControlInv'
  <2>1. RecoverOne => ControlInv'
    <3>1. RecoverOne => UNCHANGED <<rows, stage>>
      BY DEF RecoverOne
    <3>2. ASSUME NEW r \in Revisions, note[r].status = "PUBLISHED", capture.status # "COMPLETED"
          PROVE  capture.status = "PROCESSING"
      BY <3>2, Working
    <3>3. QED
      BY <3>1, <3>2, RecoveredRow
  <2>2. RecoverNextLoop => ControlInv'
    BY DEF RecoverNextLoop
  <2>3. QED
    BY <2>1, <2>2 DEF Recover
<1>5. Queue => ControlInv'
  <2>1. Plan => ControlInv'
    BY DEF Plan
  <2>2. Reopen => ControlInv'
    BY DEF Reopen
  <2>3. \A r \in Revisions : Finish(r) => ControlInv'
    BY DEF Finish
  <2>4. QED
    BY <2>1, <2>2, <2>3 DEF Queue
<1>6. Person => ControlInv'
  <2>1. Rename => ControlInv'
    BY DEF Rename
  <2>2. LoseSource => ControlInv'
    BY DEF LoseSource
  <2>3. \A r \in Revisions : Edit(r) => ControlInv'
    BY DEF Edit, MayEdit
  <2>4. \A r \in Revisions : CreateFile(r) => ControlInv'
    BY DEF CreateFile, MayEdit
  <2>5. \A r \in Revisions : MoveAway(r) => ControlInv'
    BY DEF MoveAway
  <2>6. \A r \in Revisions : MoveBack(r) => ControlInv'
    BY DEF MoveBack
  <2>7. QED
    BY <2>1, <2>2, <2>3, <2>4, <2>5, <2>6 DEF Person
<1>7. Crash => ControlInv'
  BY DEF Crash
<1>8. Outage => ControlInv'
  BY DEF Outage
<1>9. UNCHANGED vars => ControlInv'
  BY DEF vars
<1>10. QED
  BY <1>1, <1>2, <1>3, <1>4, <1>5, <1>6, <1>7, <1>8, <1>9 DEF Next

-----------------------------------------------------------------------------
(* One revision at work *)

(* The steps that write in the tables of captures, workflows and notes *)
WritesRows(r) ==
    \/ Prepare(r) \/ Refuse(r) \/ (Conflict /\ pc \in PublishSteps) \/ MarkPublished
    \/ CompleteCapture \/ PrepareRejection(r) \/ CompleteRejection
    \/ MarkCopied \/ PlanReprocess \/ Plan \/ Reopen \/ Finish(r)

(* The other steps leave the tables alone *)
LEMMA OthersKeepRows ==
    ASSUME [Next]_vars, \A r \in Revisions : ~WritesRows(r), Revisions # {}
    PROVE  UNCHANGED <<capture, result, note>>
<1> USE DEF WritesRows, rows, At, PublishSteps
<1>1. Publish => UNCHANGED rows
  BY DEF Publish, CheckFound, CheckConflict, StartTemporary, WriteTemporary, Install,
     InstallFound,
         InstallConflict, UnlinkTemporary, Verify, VerifyConflict, VerifyGone, ArchiveAgain,
         ArchiveNothing, Archive
<1>2. Reject => UNCHANGED rows
  BY DEF Reject, NoteMovedBefore, NoteMissing, MoveNote, DropNote, SourceMovedBefore,
         SourceMissing, MoveSource
<1>3. Reprocess => UNCHANGED <<capture, result, note>>
  BY DEF Reprocess, PrepareReprocess, CopySource, CopyFound, CopyImpossible,
     PlanImpossible,
         MarkPlanned
<1>4. Recover \/ Crash \/ Outage => UNCHANGED rows
  BY DEF Recover, RecoverOne, RecoverNextLoop, Crash, Outage
<1>5. Queue => UNCHANGED rows
  BY DEF Queue
<1>6. Person => UNCHANGED rows
  BY DEF Person, Rename, LoseSource, Edit, CreateFile, MoveAway, MoveBack
<1>7. QED
  BY <1>1, <1>2, <1>3, <1>4, <1>5, <1>6 DEF Next, vars

(* Every step leaves one revision at work at most *)
LEMMA OnceStep ==
    ASSUME TypeOK, ControlInv, OnceInv, [Next]_vars
    PROVE  OnceInv'
<1> USE DEF OnceInv, TypeOK, ControlInv, Notes, Planned, Settled, InForce, At
<1>1. \A r \in Revisions : Prepare(r) => OnceInv'
  BY DEF Prepare
<1>2. \A r \in Revisions : Refuse(r) => OnceInv'
  BY DEF Refuse
<1>3. Conflict /\ pc \in PublishSteps => OnceInv'
  BY DEF Conflict
<1>4. MarkPublished => OnceInv'
  BY DEF MarkPublished
<1>5. CompleteCapture => OnceInv'
  BY DEF CompleteCapture, RecordSteps
<1>6. \A r \in Revisions : PrepareRejection(r) => OnceInv'
  BY DEF PrepareRejection
<1>7. CompleteRejection => OnceInv'
  BY DEF CompleteRejection, RejectSteps
<1>8. MarkCopied => OnceInv'
  BY DEF MarkCopied, Reopened
<1>9. PlanReprocess => OnceInv'
  BY DEF PlanReprocess
<1>10. Plan => OnceInv'
  BY DEF Plan
<1>11. Reopen => OnceInv'
  BY DEF Reopen
<1>12. \A r \in Revisions : Finish(r) => OnceInv'
  BY DEF Finish
<1>13. UNCHANGED <<capture, result, note>> => OnceInv'
  OBVIOUS
<1>14. QED
  BY <1>1, <1>2, <1>3, <1>4, <1>5, <1>6, <1>7, <1>8, <1>9, <1>10, <1>11, <1>12, <1>13,
     OthersKeepRows DEF WritesRows

-----------------------------------------------------------------------------
(* The vault *)

(* Every step keeps what the vault shows whole and installed *)
LEMMA InstalledStep ==
    ASSUME TypeOK, ControlInv, InstalledInv, [Next]_vars
    PROVE  InstalledInv'
<1> USE DEF InstalledInv, PublishedWasInstalled, Notes, TypeOK, ControlInv, At, Goto,
   Rest, PublishSteps, rows, files, service, bounds, Contents
<1>1. Publish => InstalledInv'
  <2>1. \A r \in Revisions : Prepare(r) => InstalledInv'
    BY DEF Prepare
  <2>2. \A r \in Revisions : Refuse(r) => InstalledInv'
    BY DEF Refuse
  <2>3. CheckFound => InstalledInv'
    BY DEF CheckFound, Matches, NoteRows, NoNote
  <2>4. CheckConflict => InstalledInv'
    BY DEF CheckConflict, Conflict
  <2>5. StartTemporary => InstalledInv'
    BY ContentsAssumption DEF StartTemporary, Unlinked
  <2>6. WriteTemporary => InstalledInv'
    BY ContentsAssumption DEF WriteTemporary
  <2>7. Install => InstalledInv'
    BY ContentsAssumption DEF Install, MayInstall
  <2>8. InstallFound => InstalledInv'
    BY DEF InstallFound
  <2>9. InstallConflict => InstalledInv'
    BY DEF InstallConflict, Conflict
  <2>10. UnlinkTemporary => InstalledInv'
    BY DEF UnlinkTemporary
  <2>11. Verify => InstalledInv'
    BY DEF Verify, Matches, NoteRows, NoNote
  <2>12. VerifyConflict => InstalledInv'
    BY DEF VerifyConflict, Conflict
  <2>13. VerifyGone => InstalledInv'
    BY DEF VerifyGone
  <2>14. MarkPublished => InstalledInv'
    BY DEF MarkPublished
  <2>15. ArchiveAgain => InstalledInv'
    BY DEF ArchiveAgain, Archiving
  <2>16. ArchiveNothing => InstalledInv'
    BY DEF ArchiveNothing, Archiving
  <2>17. Archive => InstalledInv'
    BY DEF Archive, Archiving
  <2>18. CompleteCapture => InstalledInv'
    BY DEF CompleteCapture
  <2>19. QED
    BY <2>1, <2>2, <2>3, <2>4, <2>5, <2>6, <2>7, <2>8, <2>9, <2>10, <2>11, <2>12, <2>13,
       <2>14, <2>15, <2>16, <2>17, <2>18 DEF Publish
<1>2. Reject => InstalledInv'
  <2>1. \A r \in Revisions : PrepareRejection(r) => InstalledInv'
    BY DEF PrepareRejection
  <2>2. NoteMovedBefore => InstalledInv'
    BY DEF NoteMovedBefore
  <2>3. NoteMissing => InstalledInv'
    BY DEF NoteMissing
  <2>4. MoveNote => InstalledInv'
    BY ContentsAssumption DEF MoveNote
  <2>5. DropNote => InstalledInv'
    BY ContentsAssumption DEF DropNote
  <2>6. SourceMovedBefore => InstalledInv'
    BY DEF SourceMovedBefore
  <2>7. SourceMissing => InstalledInv'
    BY DEF SourceMissing
  <2>8. MoveSource => InstalledInv'
    BY DEF MoveSource
  <2>9. CompleteRejection => InstalledInv'
    BY DEF CompleteRejection
  <2>10. QED
    BY <2>1, <2>2, <2>3, <2>4, <2>5, <2>6, <2>7, <2>8, <2>9 DEF Reject
<1>3. Reprocess => InstalledInv'
  <2>1. \A r \in Revisions : PrepareReprocess(r) => InstalledInv'
    BY DEF PrepareReprocess
  <2>2. CopySource => InstalledInv'
    BY DEF CopySource
  <2>3. CopyFound => InstalledInv'
    BY DEF CopyFound
  <2>4. CopyImpossible => InstalledInv'
    BY DEF CopyImpossible
  <2>5. MarkCopied => InstalledInv'
    BY DEF MarkCopied
  <2>6. PlanReprocess => InstalledInv'
    BY DEF PlanReprocess
  <2>7. PlanImpossible => InstalledInv'
    BY DEF PlanImpossible
  <2>8. MarkPlanned => InstalledInv'
    BY DEF MarkPlanned
  <2>9. QED
    BY <2>1, <2>2, <2>3, <2>4, <2>5, <2>6, <2>7, <2>8 DEF Reprocess
<1>4. Recover => InstalledInv'
  <2>1. RecoverOne => InstalledInv'
    BY RecoveredRow DEF RecoverOne
  <2>2. RecoverNextLoop => InstalledInv'
    BY DEF RecoverNextLoop
  <2>3. QED
    BY <2>1, <2>2 DEF Recover
<1>5. Queue => InstalledInv'
  <2>1. Plan => InstalledInv'
    BY DEF Plan
  <2>2. Reopen => InstalledInv'
    BY DEF Reopen
  <2>3. \A r \in Revisions : Finish(r) => InstalledInv'
    BY DEF Finish
  <2>4. QED
    BY <2>1, <2>2, <2>3 DEF Queue
<1>6. Person => InstalledInv'
  <2>1. Rename => InstalledInv'
    BY DEF Rename
  <2>2. LoseSource => InstalledInv'
    BY DEF LoseSource
  <2>3. \A r \in Revisions : Edit(r) => InstalledInv'
    BY ContentsAssumption DEF Edit, MayEdit
  <2>4. \A r \in Revisions : CreateFile(r) => InstalledInv'
    BY ContentsAssumption DEF CreateFile, MayEdit
  <2>5. \A r \in Revisions : MoveAway(r) => InstalledInv'
    BY ContentsAssumption DEF MoveAway, MayEdit
  <2>6. \A r \in Revisions : MoveBack(r) => InstalledInv'
    BY ContentsAssumption DEF MoveBack, MayEdit
  <2>7. QED
    BY <2>1, <2>2, <2>3, <2>4, <2>5, <2>6 DEF Person
<1>7. Crash => InstalledInv'
  BY DEF Crash
<1>8. Outage => InstalledInv'
  BY DEF Outage
<1>9. UNCHANGED vars => InstalledInv'
  BY DEF vars
<1>10. QED
  BY <1>1, <1>2, <1>3, <1>4, <1>5, <1>6, <1>7, <1>8, <1>9 DEF Next

(* Every step keeps the evidence of a rejection *)
LEMMA EvidenceStep ==
    ASSUME TypeOK, ControlInv, OnceInv, EvidenceInv, [Next]_vars
    PROVE  EvidenceInv'
<1> USE DEF EvidenceInv, RejectedKeepsItsEvidence, Notes, TypeOK, ControlInv, At, Goto,
   Rest, RejectSteps, rows, files, service, bounds
<1>1. Publish => EvidenceInv'
  <2>1. \A r \in Revisions : Prepare(r) => EvidenceInv'
    BY DEF Prepare
  <2>2. \A r \in Revisions : Refuse(r) => EvidenceInv'
    BY DEF Refuse
  <2>3. CheckFound => EvidenceInv'
    BY DEF CheckFound
  <2>4. CheckConflict => EvidenceInv'
    BY DEF CheckConflict, Conflict
  <2>5. StartTemporary => EvidenceInv'
    BY DEF StartTemporary
  <2>6. WriteTemporary => EvidenceInv'
    BY DEF WriteTemporary
  <2>7. Install => EvidenceInv'
    BY DEF Install
  <2>8. InstallFound => EvidenceInv'
    BY DEF InstallFound
  <2>9. InstallConflict => EvidenceInv'
    BY DEF InstallConflict, Conflict
  <2>10. UnlinkTemporary => EvidenceInv'
    BY DEF UnlinkTemporary
  <2>11. Verify => EvidenceInv'
    BY DEF Verify
  <2>12. VerifyConflict => EvidenceInv'
    BY DEF VerifyConflict, Conflict
  <2>13. VerifyGone => EvidenceInv'
    BY DEF VerifyGone
  <2>14. MarkPublished => EvidenceInv'
    BY DEF MarkPublished
  <2>15. ArchiveAgain => EvidenceInv'
    BY DEF ArchiveAgain, Archiving
  <2>16. ArchiveNothing => EvidenceInv'
    BY DEF ArchiveNothing, Archiving
  <2>17. Archive => EvidenceInv'
    BY DEF Archive, Archiving
  <2>18. CompleteCapture => EvidenceInv'
    BY DEF CompleteCapture
  <2>19. QED
    BY <2>1, <2>2, <2>3, <2>4, <2>5, <2>6, <2>7, <2>8, <2>9, <2>10, <2>11, <2>12, <2>13,
       <2>14, <2>15, <2>16, <2>17, <2>18 DEF Publish
<1>2. Reject => EvidenceInv'
  <2>1. \A r \in Revisions : PrepareRejection(r) => EvidenceInv'
    <3>1. SUFFICES ASSUME NEW r \in Revisions, PrepareRejection(r)
                   PROVE  EvidenceInv'
      OBVIOUS
    <3>2. ASSUME NEW s \in Revisions, note'[s].status = "REJECTING"
          PROVE  s = r
      <4>1. s # r => note[s].status = "REJECTING" /\ note[r].status \in {"PUBLISHED", "REJECTING"}
        BY <3>1, <3>2 DEF PrepareRejection
      <4>2. s # r => r \in Planned /\ ~Settled(r) /\ s \in Planned /\ ~Settled(s)
        BY <4>1, Working
      <4>3. QED
        BY <4>2 DEF OnceInv
    <3>3. \A s \in Revisions : s # r => note'[s] = note[s]
      BY <3>1 DEF PrepareRejection
    <3>4. capture'.rejected = r /\ UNCHANGED files /\ pc' = "moveNote"
      BY <3>1 DEF PrepareRejection
    <3>5. note'[r].status = "REJECTING"
      BY <3>1 DEF PrepareRejection
    <3>6. QED
      BY <3>2, <3>3, <3>4, <3>5
  <2>2. NoteMovedBefore => EvidenceInv'
    BY DEF NoteMovedBefore
  <2>3. NoteMissing => EvidenceInv'
    BY DEF NoteMissing
  <2>4. MoveNote => EvidenceInv'
    BY DEF MoveNote
  <2>5. DropNote => EvidenceInv'
    BY DEF DropNote
  <2>6. SourceMovedBefore => EvidenceInv'
    BY DEF SourceMovedBefore
  <2>7. SourceMissing => EvidenceInv'
    BY DEF SourceMissing
  <2>8. MoveSource => EvidenceInv'
    BY DEF MoveSource
  <2>9. CompleteRejection => EvidenceInv'
    BY DEF CompleteRejection
  <2>10. QED
    BY <2>1, <2>2, <2>3, <2>4, <2>5, <2>6, <2>7, <2>8, <2>9 DEF Reject
<1>3. Reprocess => EvidenceInv'
  <2>1. \A r \in Revisions : PrepareReprocess(r) => EvidenceInv'
    BY DEF PrepareReprocess
  <2>2. CopySource => EvidenceInv'
    BY DEF CopySource, Copied
  <2>3. CopyFound => EvidenceInv'
    BY DEF CopyFound
  <2>4. CopyImpossible => EvidenceInv'
    BY DEF CopyImpossible
  <2>5. MarkCopied => EvidenceInv'
    BY DEF MarkCopied
  <2>6. PlanReprocess => EvidenceInv'
    BY DEF PlanReprocess
  <2>7. PlanImpossible => EvidenceInv'
    BY DEF PlanImpossible
  <2>8. MarkPlanned => EvidenceInv'
    BY DEF MarkPlanned
  <2>9. QED
    BY <2>1, <2>2, <2>3, <2>4, <2>5, <2>6, <2>7, <2>8 DEF Reprocess
<1>4. Recover => EvidenceInv'
  <2>1. RecoverOne => EvidenceInv'
    BY RecoveredRow DEF RecoverOne
  <2>2. RecoverNextLoop => EvidenceInv'
    BY DEF RecoverNextLoop
  <2>3. QED
    BY <2>1, <2>2 DEF Recover
<1>5. Queue => EvidenceInv'
  <2>1. Plan => EvidenceInv'
    BY DEF Plan
  <2>2. Reopen => EvidenceInv'
    BY DEF Reopen
  <2>3. \A r \in Revisions : Finish(r) => EvidenceInv'
    BY DEF Finish
  <2>4. QED
    BY <2>1, <2>2, <2>3 DEF Queue
<1>6. Person => EvidenceInv'
  <2>1. Rename => EvidenceInv'
    BY DEF Rename
  <2>2. LoseSource => EvidenceInv'
    BY DEF LoseSource
  <2>3. \A r \in Revisions : Edit(r) => EvidenceInv'
    BY DEF Edit, MayEdit
  <2>4. \A r \in Revisions : CreateFile(r) => EvidenceInv'
    BY DEF CreateFile, MayEdit
  <2>5. \A r \in Revisions : MoveAway(r) => EvidenceInv'
    BY DEF MoveAway, MayEdit
  <2>6. \A r \in Revisions : MoveBack(r) => EvidenceInv'
    BY DEF MoveBack, MayEdit
  <2>7. QED
    BY <2>1, <2>2, <2>3, <2>4, <2>5, <2>6 DEF Person
<1>7. Crash => EvidenceInv'
  BY DEF Crash
<1>8. Outage => EvidenceInv'
  BY DEF Outage
<1>9. UNCHANGED vars => EvidenceInv'
  BY DEF vars
<1>10. QED
  BY <1>1, <1>2, <1>3, <1>4, <1>5, <1>6, <1>7, <1>8, <1>9 DEF Next

-----------------------------------------------------------------------------
(* The folders *)

(* The steps that archive the source or put it with the rejected ones, and those *)
(* that create a revision                                                         *)
LEMMA OthersKeepArchives ==
    ASSUME TypeOK, [Next]_vars, ~Archive, ~MoveSource
    PROVE  source'.completed = source.completed /\ source'.rejected = source.rejected
<1> USE DEF TypeOK, files
<1>1. Publish => UNCHANGED source
  BY DEF Publish, Prepare, Refuse, CheckFound, CheckConflict, StartTemporary,
     WriteTemporary,
         Install, InstallFound, InstallConflict, UnlinkTemporary, Verify, VerifyConflict,
         VerifyGone, MarkPublished, ArchiveAgain, ArchiveNothing, CompleteCapture, Conflict
<1>2. Reject => UNCHANGED source
  BY DEF Reject, PrepareRejection, NoteMovedBefore, NoteMissing, MoveNote, DropNote,
         SourceMovedBefore, SourceMissing, CompleteRejection
<1>3. CopySource \/ UNCHANGED source \/ ~Reprocess
  BY DEF Reprocess, PrepareReprocess, CopyFound, CopyImpossible, MarkCopied,
     PlanReprocess,
         PlanImpossible, MarkPlanned
<1>4. CopySource => source'.completed = source.completed /\ source'.rejected = source.rejected
  BY DEF CopySource, Copied
<1>5. Recover \/ Queue \/ Crash \/ Outage => UNCHANGED source
  BY DEF Recover, RecoverOne, RecoverNextLoop, Queue, Plan, Reopen, Finish, Crash, Outage
<1>6. LoseSource => source'.completed = source.completed /\ source'.rejected = source.rejected
  BY DEF LoseSource
<1>7. Person => LoseSource \/ UNCHANGED source
  BY DEF Person, Rename, Edit, CreateFile, MoveAway, MoveBack
<1>8. QED
  BY <1>1, <1>2, <1>3, <1>4, <1>5, <1>6, <1>7 DEF Next, vars

LEMMA OthersKeepRevisions ==
    ASSUME TypeOK, OnceInv, [Next]_vars, ~Plan, ~PlanReprocess
    PROVE  Planned' = Planned /\ NextRevision' = NextRevision
<1>1. Planned' = Planned
  <2> USE DEF Planned, TypeOK, OnceInv
  <2>1. UNCHANGED result => Planned' = Planned
    OBVIOUS
  <2>2. \A r \in Revisions : Refuse(r) \/ Finish(r) => Planned' = Planned
    BY DEF Refuse, Finish
  <2>3. (\A r \in Revisions : ~Refuse(r) /\ ~Finish(r)) => UNCHANGED result
    BY OthersKeepRows DEF WritesRows, Prepare, Conflict, MarkPublished, CompleteCapture,
       PrepareRejection, CompleteRejection, MarkCopied, Reopen
  <2>4. QED
    BY <2>1, <2>2, <2>3
<1>2. QED
  BY <1>1 DEF NextRevision

(* A revision that reprocessing plans is the next one *)
LEMMA PlansTheNext ==
    ASSUME TypeOK, ControlInv, IntentInv, PlanReprocess, result[rev] = "none"
    PROVE  rev = NextRevision
BY DEF PlanReprocess, At, ControlInv, ReprocessSteps, IntentInv, TypeOK

(* Every step keeps reprocessing at the next revision *)
LEMMA IntentStep ==
    ASSUME TypeOK, ControlInv, OnceInv, IntentInv, [Next]_vars
    PROVE  IntentInv'
<1>1. ASSUME Plan
      PROVE  \A r \in Revisions : intent[r].status = "none" /\ intent' = intent
  BY <1>1 DEF Plan, IntentInv, OnceInv
<1>2. ASSUME PlanReprocess
      PROVE  IntentInv'
  <2>1. UNCHANGED <<note, intent>> /\ rev \in Revisions
    BY <1>2 DEF PlanReprocess, TypeOK
  <2>2. CASE result[rev] # "none"
    <3>1. UNCHANGED result
      BY <1>2, <2>2 DEF PlanReprocess
    <3>2. QED
      BY <2>1, <3>1 DEF IntentInv, NextRevision, Planned
  <2>3. CASE result[rev] = "none"
    <3>1. rev = NextRevision
      BY <1>2, <2>3, PlansTheNext
    <3>2. \A r \in Revisions : result'[r] = "none" => result[r] = "none" /\ r # rev
      BY <1>2, <2>3 DEF PlanReprocess, TypeOK
    <3>3. QED
      BY <2>1, <3>1, <3>2 DEF IntentInv
  <2>4. QED
    BY <2>2, <2>3
<1>3. ASSUME ~Plan, ~PlanReprocess
      PROVE  IntentInv'
  <2>1. Planned' = Planned /\ NextRevision' = NextRevision
    BY <1>3, OthersKeepRevisions
  <2>2. ASSUME NEW r \in Revisions, PrepareReprocess(r)
        PROVE  IntentInv'
    BY <2>1, <2>2 DEF PrepareReprocess, IntentInv, TypeOK
  <2>3. ASSUME NEW s \in Revisions, note[s].status = "REJECTED"
        PROVE  note'[s].status = "REJECTED"
    <3> USE <2>3 DEF TypeOK
    <3>1. \A r \in Revisions : Prepare(r) \/ PrepareRejection(r) => note'[s].status = "REJECTED"
      BY DEF Prepare, PrepareRejection
    <3>2. Conflict \/ MarkPublished \/ CompleteRejection => note'[s].status = "REJECTED"
      BY DEF Conflict, MarkPublished, CompleteRejection, NoteRows, NoNote
    <3>3. \A r \in Revisions : Refuse(r) \/ Finish(r) => UNCHANGED note
      BY DEF Refuse, Finish
    <3>4. CompleteCapture \/ MarkCopied \/ PlanReprocess \/ Plan \/ Reopen => UNCHANGED note
      BY DEF CompleteCapture, MarkCopied, PlanReprocess, Plan, Reopen
    <3>5. QED
      BY <3>1, <3>2, <3>3, <3>4, OthersKeepRows DEF WritesRows
  <2>4. ASSUME \A r \in Revisions : intent'[r].status # "none" => intent[r].status # "none"
        PROVE  IntentInv'
    BY <2>1, <2>3, <2>4 DEF IntentInv, Planned
  <2>5. MarkCopied \/ MarkPlanned =>
            \A r \in Revisions : intent'[r].status # "none" => intent[r].status # "none"
    BY DEF MarkCopied, MarkPlanned, ControlInv, At, ReprocessSteps, TypeOK
  <2>6. (\A r \in Revisions : ~PrepareReprocess(r)) /\ ~MarkCopied /\ ~MarkPlanned
            => UNCHANGED intent
    <3> USE DEF rows
    <3>1. Publish => UNCHANGED intent
      BY DEF Publish, Prepare, Refuse, CheckFound, CheckConflict, StartTemporary,
         WriteTemporary,
             Install, InstallFound, InstallConflict, UnlinkTemporary, Verify, VerifyConflict,
             VerifyGone, MarkPublished, ArchiveAgain, ArchiveNothing, Archive, CompleteCapture,
             Conflict
    <3>2. Reject => UNCHANGED intent
      BY DEF Reject, PrepareRejection, NoteMovedBefore, NoteMissing, MoveNote, DropNote,
             SourceMovedBefore, SourceMissing, MoveSource, CompleteRejection
    <3>3. CopySource \/ CopyFound \/ CopyImpossible \/ PlanReprocess \/ PlanImpossible
              => UNCHANGED intent
      BY DEF CopySource, CopyFound, CopyImpossible, PlanReprocess, PlanImpossible
    <3>4. Recover \/ Queue \/ Crash \/ Outage \/ Person => UNCHANGED intent
      BY DEF Recover, RecoverOne, RecoverNextLoop, Queue, Plan, Reopen, Finish, Crash,
         Outage,
             Person, Rename, LoseSource, Edit, CreateFile, MoveAway, MoveBack
    <3>5. QED
      BY <3>1, <3>2, <3>3, <3>4 DEF Next, vars, Reprocess
  <2>7. QED
    BY <2>2, <2>4, <2>5, <2>6
<1>4. QED
  BY <1>1, <1>2, <1>3 DEF IntentInv

(* Every step keeps the archive and the rejected sources *)
LEMMA FoldersStep ==
    ASSUME TypeOK, ControlInv, OnceInv, EvidenceInv, IntentInv, FoldersInv, [Next]_vars
    PROVE  FoldersInv'
<1> USE DEF FoldersInv, TypeOK, ControlInv, Planned, Settled, At
<1>1. Archive => FoldersInv'
  BY DEF Archive, RecordSteps, rows
<1>2. MoveSource => FoldersInv'
  <2>1. SUFFICES ASSUME MoveSource
                 PROVE  FoldersInv'
    OBVIOUS
  <2>2. capture.rejected = rev /\ note[rev].status = "REJECTING" /\ UNCHANGED rows
    BY <2>1 DEF MoveSource, RejectSteps, EvidenceInv
  <2>3. source'.rejected = source.rejected \cup {rev} /\ source'.completed \subseteq source.completed
    BY <2>1, <2>2 DEF MoveSource
  <2>4. QED
    BY <2>2, <2>3 DEF rows
<1> DEFINE Kept == source'.completed = source.completed /\ source'.rejected = source.rejected
<1>3. Kept /\ UNCHANGED <<capture, result, note>> => FoldersInv'
  OBVIOUS
<1>4. \A r \in Revisions : Kept /\ (Prepare(r) \/ Refuse(r) \/ Finish(r)) => FoldersInv'
  BY DEF Prepare, Refuse, Finish, OnceInv
<1>5. Kept /\ ((Conflict /\ pc \in PublishSteps) \/ MarkPublished) => FoldersInv'
  BY DEF Conflict, MarkPublished, PublishSteps
<1>6. Kept /\ (CompleteCapture \/ MarkCopied \/ Reopen) => FoldersInv'
  BY DEF CompleteCapture, MarkCopied, Reopen
<1>7. \A r \in Revisions : Kept /\ PrepareRejection(r) => FoldersInv'
  BY DEF PrepareRejection
<1>8. Kept /\ CompleteRejection => FoldersInv'
  BY DEF CompleteRejection, RejectSteps
<1>9. Kept /\ PlanReprocess => FoldersInv'
  <2>1. SUFFICES ASSUME Kept, PlanReprocess, result[rev] = "none"
                 PROVE  FoldersInv'
    BY <1>3 DEF PlanReprocess
  <2>2. rev = NextRevision /\ \A r \in Planned : r < rev
    BY <2>1, PlansTheNext, NextIsLast
  <2>3. \A r \in Planned : Settled(r)
    BY <2>1 DEF PlanReprocess, OnceInv
  <2>4. result' = [result EXCEPT ![rev] = "RUNNING"] /\ UNCHANGED note
    BY <2>1 DEF PlanReprocess
  <2>5. Planned \subseteq Nat /\ rev \in Nat
    BY DEF Revisions
  <2>6. QED
    BY <2>1, <2>2, <2>3, <2>4, <2>5
<1>10. Kept /\ Plan => FoldersInv'
  <2>1. SUFFICES ASSUME Kept, Plan
                 PROVE  FoldersInv'
    OBVIOUS
  <2>2. NextRevision \in Revisions /\ \A r \in Planned : r < NextRevision
    BY <2>1, NextIsLast DEF Plan
  <2>3. \A r \in Planned : Settled(r)
    BY <2>1 DEF Plan
  <2>4. result' = [result EXCEPT ![NextRevision] = "RUNNING"] /\ UNCHANGED note
    BY <2>1 DEF Plan
  <2>5. Planned \subseteq Nat /\ NextRevision \in Nat
    BY <2>2 DEF Revisions
  <2>6. Planned' = Planned \cup {NextRevision}
    BY <2>2, <2>4
  <2>7. ASSUME NEW r \in Planned', ~Settled(r)'
        PROVE  r = NextRevision
    BY <2>3, <2>4, <2>6, <2>7
  <2>8. \A s \in Planned' : s <= NextRevision
    BY <2>2, <2>5, <2>6
  <2>9. QED
    BY <2>1, <2>4, <2>7, <2>8
<1>11. QED
  BY <1>1, <1>2, <1>3, <1>4, <1>5, <1>6, <1>7, <1>8, <1>9, <1>10, OthersKeepRows,
     OthersKeepArchives DEF WritesRows

(* The revision that is not settled is the last one *)
LEMMA LastIsWorking ==
    ASSUME TypeOK, OnceInv, FoldersInv, NEW r \in Revisions, note[r].status \in InForce
    PROVE  Last(r)
BY Working DEF FoldersInv, Last, InForce

(* Every step keeps the source where its row says *)
LEMMA SourceStep ==
    ASSUME TypeOK, ControlInv, OnceInv, EvidenceInv, FoldersInv, SourceInv, [Next]_vars
    PROVE  SourceInv'
<1> USE DEF SourceInv, SourceIsWhereTheRowSays, TypeOK, Notes, At, Goto, Rest, rows,
   files, service, bounds
<1>0. ASSUME ~Plan, ~PlanReprocess
      PROVE  NextRevision' = NextRevision
  BY <1>0, OthersKeepRevisions
<1>1. Publish => SourceInv'
  <2>1. \A r \in Revisions : Prepare(r) => SourceInv'
    BY <1>0 DEF Prepare, Plan, PlanReprocess
  <2>2. \A r \in Revisions : Refuse(r) => SourceInv'
    <3>1. SUFFICES ASSUME NEW r \in Revisions, Refuse(r)
                   PROVE  SourceInv'
      OBVIOUS
    <3>2. r \in Planned /\ ~Settled(r) /\ note[r].status \notin InForce
      BY <3>1 DEF Refuse, Planned, Settled, InForce
    <3>3. capture.status = "PROCESSING" /\ capture'.status = "FAILED"
      BY <3>1, <3>2, Unpublished DEF Refuse
    <3>4. capture'.processing = capture.processing
      BY <3>1 DEF Refuse
    <3>5. UNCHANGED <<files, service, bounds>>
      BY <3>1 DEF Refuse
    <3>6. NextRevision' = NextRevision
      BY <1>0, <3>1 DEF Refuse, Plan, PlanReprocess
    <3>7. QED
      BY <3>3, <3>4, <3>5, <3>6
  <2>3. CheckFound => SourceInv'
    BY <1>0 DEF CheckFound, Plan, PlanReprocess
  <2>4. CheckConflict => SourceInv'
    BY <1>0 DEF CheckConflict, Plan, PlanReprocess, Conflict
  <2>5. StartTemporary => SourceInv'
    BY <1>0 DEF StartTemporary, Plan, PlanReprocess
  <2>6. WriteTemporary => SourceInv'
    BY <1>0 DEF WriteTemporary, Plan, PlanReprocess
  <2>7. Install => SourceInv'
    BY <1>0 DEF Install, Plan, PlanReprocess
  <2>8. InstallFound => SourceInv'
    BY <1>0 DEF InstallFound, Plan, PlanReprocess
  <2>9. InstallConflict => SourceInv'
    BY <1>0 DEF InstallConflict, Plan, PlanReprocess, Conflict
  <2>10. UnlinkTemporary => SourceInv'
    BY <1>0 DEF UnlinkTemporary, Plan, PlanReprocess
  <2>11. Verify => SourceInv'
    BY <1>0 DEF Verify, Plan, PlanReprocess
  <2>12. VerifyConflict => SourceInv'
    BY <1>0 DEF VerifyConflict, Plan, PlanReprocess, Conflict
  <2>13. VerifyGone => SourceInv'
    BY <1>0 DEF VerifyGone, Plan, PlanReprocess
  <2>14. MarkPublished => SourceInv'
    BY <1>0 DEF MarkPublished, Plan, PlanReprocess
  <2>15. ArchiveAgain => SourceInv'
    BY <1>0 DEF ArchiveAgain, Plan, PlanReprocess, Archiving
  <2>16. ArchiveNothing => SourceInv'
    <3>1. SUFFICES ASSUME ArchiveNothing
                   PROVE  SourceInv'
      OBVIOUS
    <3>2. Last(rev) /\ note[rev].status = "PUBLISHED" /\ capture.status = "PROCESSING"
      BY <3>1, LastIsWorking DEF ArchiveNothing, ControlInv, RecordSteps, InForce
    <3>3. NextRevision - 1 = rev
      BY <3>2, NextIsLast DEF Revisions
    <3>4. losses # 0
      BY <3>1, <3>2, <3>3 DEF ArchiveNothing, FoldersInv
    <3>5. NextRevision' = NextRevision /\ pc' # "copied"
      BY <1>0, <3>1 DEF ArchiveNothing, Archiving, Plan, PlanReprocess
    <3>6. UNCHANGED <<rows, files, bounds>> /\ (pc' = "complete" => ~archived')
      BY <3>1 DEF ArchiveNothing, Archiving
    <3>7. QED
      BY <3>4, <3>5, <3>6
  <2>17. Archive => SourceInv'
    <3>1. SUFFICES ASSUME Archive
                   PROVE  SourceInv'
      OBVIOUS
    <3>2. Last(rev) /\ capture.status = "PROCESSING"
      BY <3>1, LastIsWorking DEF Archive, ControlInv, RecordSteps, InForce
    <3>3. NextRevision - 1 = rev
      BY <3>2, NextIsLast DEF Revisions
    <3>4. NextRevision' = NextRevision
      BY <1>0, <3>1 DEF Archive, Plan, PlanReprocess
    <3>5. rev \in source'.completed /\ archived' /\ pc' = "complete" /\ rev' = rev
      BY <3>1 DEF Archive, Archiving
    <3>6. UNCHANGED <<rows, bounds>>
      BY <3>1 DEF Archive
    <3>7. QED
      BY <3>2, <3>3, <3>4, <3>5, <3>6
  <2>18. CompleteCapture => SourceInv'
    BY <1>0 DEF CompleteCapture, Plan, PlanReprocess, ControlInv, RecordSteps
  <2>19. QED
    BY <2>1, <2>2, <2>3, <2>4, <2>5, <2>6, <2>7, <2>8, <2>9, <2>10, <2>11, <2>12, <2>13,
       <2>14, <2>15, <2>16, <2>17, <2>18 DEF Publish
<1>2. Reject => SourceInv'
  <2>1. \A r \in Revisions : PrepareRejection(r) => SourceInv'
    <3>1. SUFFICES ASSUME NEW r \in Revisions, PrepareRejection(r)
                   PROVE  SourceInv'
      OBVIOUS
    <3>2. r \in Planned /\ ~Settled(r) /\ capture.status \in {"PROCESSING", "COMPLETED"}
      BY <3>1, Working DEF PrepareRejection
    <3>3. NextRevision' = NextRevision
      BY <1>0, <3>1 DEF PrepareRejection, Plan, PlanReprocess
    <3>4. ASSUME NEW s \in Revisions, note[s].status = "REJECTING"
          PROVE  s = r /\ capture.rejected = r
      BY <3>2, <3>4, Working DEF OnceInv, EvidenceInv
    <3>5. /\ capture'.status = capture.status /\ capture'.processing = capture.processing
          /\ capture'.archive = capture.archive /\ capture'.rejected = r
          /\ note'[r].status = "REJECTING" /\ pc' = "moveNote"
      BY <3>1 DEF PrepareRejection
    <3>6. UNCHANGED <<files, bounds>>
      BY <3>1 DEF PrepareRejection
    <3>7. QED
      BY <3>2, <3>3, <3>4, <3>5, <3>6
  <2>2. NoteMovedBefore => SourceInv'
    BY <1>0 DEF NoteMovedBefore, Plan, PlanReprocess
  <2>3. NoteMissing => SourceInv'
    BY <1>0 DEF NoteMissing, Plan, PlanReprocess
  <2>4. MoveNote => SourceInv'
    BY <1>0 DEF MoveNote, Plan, PlanReprocess
  <2>5. DropNote => SourceInv'
    BY <1>0 DEF DropNote, Plan, PlanReprocess
  <2>6. SourceMovedBefore => SourceInv'
    BY <1>0 DEF SourceMovedBefore, Plan, PlanReprocess
  <2>7. SourceMissing => SourceInv'
    BY <1>0 DEF SourceMissing, Plan, PlanReprocess
  <2>8. MoveSource => SourceInv'
    <3>1. SUFFICES ASSUME MoveSource
                   PROVE  SourceInv'
      OBVIOUS
    <3>2. note[rev].status = "REJECTING" /\ capture.rejected = rev
      BY <3>1 DEF MoveSource, ControlInv, RejectSteps, EvidenceInv
    <3>3. Last(rev) /\ capture.status \in {"PROCESSING", "COMPLETED"}
      BY <3>2, LastIsWorking, Working DEF InForce
    <3>4. NextRevision - 1 = rev
      BY <3>3, NextIsLast DEF Revisions
    <3>5. NextRevision' = NextRevision
      BY <1>0, <3>1 DEF MoveSource, Plan, PlanReprocess
    <3>6. rev \in source'.rejected /\ source'.processing = source.processing /\ pc' = "rejected"
      BY <3>1, <3>2 DEF MoveSource
    <3>7. UNCHANGED <<rows, bounds>>
      BY <3>1 DEF MoveSource
    <3>8. QED
      BY <3>2, <3>3, <3>4, <3>5, <3>6, <3>7
  <2>9. CompleteRejection => SourceInv'
    <3>1. SUFFICES ASSUME CompleteRejection
                   PROVE  SourceInv'
      OBVIOUS
    <3>2. /\ note[rev].status = "REJECTING" /\ capture.rejected = rev
          /\ rev \in source.rejected
      BY <3>1 DEF CompleteRejection, ControlInv, RejectSteps, EvidenceInv
    <3>3. capture.status \in {"PROCESSING", "COMPLETED"}
      BY <3>2, Working
    <3>4. NextRevision' = NextRevision
      BY <1>0, <3>1 DEF CompleteRejection, Plan, PlanReprocess
    <3>5. /\ capture'.status = IF capture.status = "COMPLETED" THEN "REJECTED" ELSE "PROCESSING"
          /\ capture'.processing = capture.processing /\ capture'.rejected = capture.rejected
      BY <3>1, <3>3 DEF CompleteRejection
    <3>6. UNCHANGED <<files, bounds>> /\ pc' \in {"idle", "recover"}
      BY <3>1 DEF CompleteRejection
    <3>7. QED
      BY <3>2, <3>3, <3>4, <3>5, <3>6
  <2>10. QED
    BY <2>1, <2>2, <2>3, <2>4, <2>5, <2>6, <2>7, <2>8, <2>9 DEF Reject
<1>3. Reprocess => SourceInv'
  <2>1. \A r \in Revisions : PrepareReprocess(r) => SourceInv'
    BY <1>0 DEF PrepareReprocess, Plan, PlanReprocess
  <2>2. CopySource => SourceInv'
    BY <1>0 DEF CopySource, Plan, PlanReprocess, Copied
  <2>3. CopyFound => SourceInv'
    BY <1>0 DEF CopyFound, Plan, PlanReprocess
  <2>4. CopyImpossible => SourceInv'
    BY <1>0 DEF CopyImpossible, Plan, PlanReprocess
  <2>5. MarkCopied => SourceInv'
    BY <1>0 DEF MarkCopied, Plan, PlanReprocess, Reopened
  <2>6. PlanReprocess => SourceInv'
    <3>1. SUFFICES ASSUME PlanReprocess
                   PROVE  SourceInv'
      OBVIOUS
    <3>2. CASE result[rev] # "none"
      <4>1. UNCHANGED <<capture, result, note, files, bounds>> /\ pc' = "planned"
        BY <3>1, <3>2 DEF PlanReprocess
      <4>2. NextRevision' = NextRevision
        BY <4>1 DEF NextRevision, Planned
      <4>3. QED
        BY <4>1, <4>2
    <3>3. CASE result[rev] = "none"
      <4>1. /\ capture.status = "PENDING" /\ capture'.status = "PROCESSING"
            /\ capture'.processing = capture.processing
        BY <3>1, <3>3 DEF PlanReprocess
      <4>2. UNCHANGED <<files, bounds>> /\ pc' = "planned"
        BY <3>1 DEF PlanReprocess
      <4>3. QED
        BY <4>1, <4>2
    <3>4. QED
      BY <3>2, <3>3
  <2>7. PlanImpossible => SourceInv'
    BY <1>0 DEF PlanImpossible, Plan, PlanReprocess
  <2>8. MarkPlanned => SourceInv'
    BY <1>0 DEF MarkPlanned, Plan, PlanReprocess
  <2>9. QED
    BY <2>1, <2>2, <2>3, <2>4, <2>5, <2>6, <2>7, <2>8 DEF Reprocess
<1>4. Recover => SourceInv'
  <2>1. RecoverOne => SourceInv'
    <3>1. SUFFICES ASSUME RecoverOne
                   PROVE  SourceInv'
      OBVIOUS
    <3>2. pc' \notin {"copied", "complete"}
      BY <3>1, RecoveredRow
    <3>3. UNCHANGED <<rows, files, bounds>>
      BY <3>1 DEF RecoverOne
    <3>4. NextRevision' = NextRevision
      BY <3>3 DEF NextRevision, Planned
    <3>5. QED
      BY <3>2, <3>3, <3>4
  <2>2. RecoverNextLoop => SourceInv'
    BY <1>0 DEF RecoverNextLoop, Plan, PlanReprocess
  <2>3. QED
    BY <2>1, <2>2 DEF Recover
<1>5. Queue => SourceInv'
  <2>1. Plan => SourceInv'
    <3>1. ASSUME Plan
          PROVE  /\ capture.status = "PENDING" /\ capture'.status = "PROCESSING"
                 /\ capture'.processing = capture.processing
                 /\ UNCHANGED <<files, service, bounds>>
      BY <3>1 DEF Plan
    <3>2. QED
      BY <3>1 DEF Plan
  <2>2. Reopen => SourceInv'
    <3>1. SUFFICES ASSUME Reopen
                   PROVE  SourceInv'
      OBVIOUS
    <3>2. source.completed \cup source.rejected = {}
      BY <3>1 DEF Reopen, FoldersInv, OnceInv
    <3>3. losses = 0 => capture.processing \in source.processing
      BY <3>1, <3>2 DEF Reopen
    <3>4. capture'.status = "PENDING" /\ capture'.processing = capture.processing
      BY <3>1 DEF Reopen
    <3>5. UNCHANGED <<files, service, bounds>>
      BY <3>1 DEF Reopen
    <3>6. QED
      BY <3>3, <3>4, <3>5
  <2>3. \A r \in Revisions : Finish(r) => SourceInv'
    BY <1>0 DEF Finish, Plan, PlanReprocess
  <2>4. QED
    BY <2>1, <2>2, <2>3 DEF Queue
<1>6. Person => SourceInv'
  <2>1. Rename => SourceInv'
    BY <1>0 DEF Rename, Plan, PlanReprocess
  <2>2. LoseSource => SourceInv'
    BY <1>0 DEF LoseSource, Plan, PlanReprocess
  <2>3. \A r \in Revisions : Edit(r) => SourceInv'
    BY <1>0 DEF Edit, Plan, PlanReprocess, MayEdit
  <2>4. \A r \in Revisions : CreateFile(r) => SourceInv'
    BY <1>0 DEF CreateFile, Plan, PlanReprocess, MayEdit
  <2>5. \A r \in Revisions : MoveAway(r) => SourceInv'
    BY <1>0 DEF MoveAway, Plan, PlanReprocess, MayEdit
  <2>6. \A r \in Revisions : MoveBack(r) => SourceInv'
    BY <1>0 DEF MoveBack, Plan, PlanReprocess, MayEdit
  <2>7. QED
    BY <2>1, <2>2, <2>3, <2>4, <2>5, <2>6 DEF Person
<1>7. Crash => SourceInv'
  BY <1>0 DEF Crash, Plan, PlanReprocess
<1>8. Outage => SourceInv'
  BY <1>0 DEF Outage, Plan, PlanReprocess
<1>9. UNCHANGED vars => SourceInv'
  BY DEF vars, NextRevision, Planned
<1>10. QED
  BY <1>1, <1>2, <1>3, <1>4, <1>5, <1>6, <1>7, <1>8, <1>9 DEF Next

-----------------------------------------------------------------------------
(* What the person left *)

(* Nothing but the person changes what the person left *)
LEMMA EditsStep ==
    ASSUME TypeOK, ControlInv, InstalledInv, [Next]_vars, edits' = edits, NEW r \in Revisions
    PROVE  /\ vault[r] # NoFile /\ note[r].status # "REJECTING" => vault'[r] = vault[r]
           /\ moved'[r] = moved[r]
<1> USE DEF TypeOK, files, bounds, At
<1>1. Publish => Install \/ UNCHANGED <<vault, moved>>
  BY DEF Publish, Prepare, Refuse, CheckFound, CheckConflict, StartTemporary,
     WriteTemporary,
         InstallFound, InstallConflict, UnlinkTemporary, Verify, VerifyConflict, VerifyGone,
         MarkPublished, ArchiveAgain, ArchiveNothing, Archive, CompleteCapture, Conflict, Unlinked,
         InstalledInv
<1>2. Install => (vault[r] # NoFile => vault'[r] = vault[r]) /\ UNCHANGED moved
  BY DEF Install, MayInstall
<1>3. Reject => \/ (MoveNote \/ DropNote) /\ UNCHANGED moved
                \/ UNCHANGED <<vault, moved>>
  BY DEF Reject, PrepareRejection, NoteMovedBefore, NoteMissing, MoveNote, DropNote,
         SourceMovedBefore, SourceMissing, MoveSource, CompleteRejection
<1>4. MoveNote \/ DropNote => (note[r].status # "REJECTING" => vault'[r] = vault[r])
  BY DEF MoveNote, DropNote, ControlInv, RejectSteps
<1>5. Reprocess => UNCHANGED <<vault, moved>>
  BY DEF Reprocess, PrepareReprocess, CopySource, CopyFound, CopyImpossible, MarkCopied,
         PlanReprocess, PlanImpossible, MarkPlanned
<1>6. Recover \/ Queue \/ Crash \/ Outage => UNCHANGED <<vault, moved>>
  BY DEF Recover, RecoverOne, RecoverNextLoop, Queue, Plan, Reopen, Finish, Crash, Outage
<1>7. Person => UNCHANGED <<vault, moved>>
  BY DEF Person, Rename, LoseSource, Edit, CreateFile, MoveAway, MoveBack, MayEdit
<1>8. QED
  BY <1>1, <1>2, <1>3, <1>4, <1>5, <1>6, <1>7 DEF Next, vars

-----------------------------------------------------------------------------
(* The results *)

(* The invariant holds at the start, and every step keeps it *)
LEMMA InitIInv == Init => IInv
<1> SUFFICES ASSUME Init
             PROVE  IInv
  OBVIOUS
<1> USE DEF Init
<1>1. 1 \in Revisions /\ 0 \in Paths /\ 1 \in Paths
  BY BoundsAssumption DEF Revisions, Paths
<1>2. TypeOK
  <2>1. capture \in CaptureRows
    BY <1>1 DEF CaptureRows, CaptureStatus
  <2>2. /\ note \in [Revisions -> NoteRows] /\ intent \in [Revisions -> IntentRows]
        /\ vault \in [Revisions -> Contents] /\ temp \in [Revisions -> Contents]
        /\ moved \in [Revisions -> Contents] /\ kept \in [Revisions -> Contents]
    BY DEF NoteRows, IntentRows, Contents
  <2>3. source \in Folders
    BY <1>1 DEF Folders
  <2>4. /\ edits \in 0..MaxEdits /\ outages \in 0..MaxOutages
        /\ crashes \in 0..MaxCrashes /\ losses \in 0..MaxLosses
    BY BoundsAssumption
  <2>5. /\ result \in [Revisions -> {"none", "RUNNING", "SUCCESS", "ERROR"}]
        /\ linked \in [Revisions -> {"none", "vault", "moved"}]
        /\ pc \in Steps /\ stage \in 0..4 /\ rev \in Revisions
    BY <1>1 DEF Steps
  <2>6. archived \in BOOLEAN /\ visited \subseteq Revisions /\ installed \subseteq Revisions
    OBVIOUS
  <2> HIDE DEF Init
  <2>7. names \in Texts /\ text \in Texts
    BY DEF Init
  <2>8. QED
    BY <2>1, <2>2, <2>3, <2>4, <2>5, <2>6, <2>7 DEF TypeOK, CaptureRows, CaptureStatus,
       Folders
<1>3. Planned = {} /\ Notes(InForce) = {} /\ Notes({"REJECTED"}) = {} /\ Notes({"REJECTING"}) = {}
  BY DEF Planned, Notes, InForce, NoNote
<1>4. ControlInv
  BY DEF ControlInv, PublishSteps, RecordSteps, RejectSteps, ReprocessSteps
<1>5. OnceInv
  BY <1>3 DEF OnceInv, NoNote
<1>6. InstalledInv
  BY ContentsAssumption DEF InstalledInv, PublishedWasInstalled, Notes, NoNote
<1>7. EvidenceInv
  BY <1>3 DEF EvidenceInv, RejectedKeepsItsEvidence, NoNote
<1>8. FoldersInv /\ IntentInv
  BY <1>3 DEF FoldersInv, IntentInv, NoIntent
<1>9. SourceInv
  BY DEF SourceInv, SourceIsWhereTheRowSays
<1>10. QED
  BY <1>2, <1>4, <1>5, <1>6, <1>7, <1>8, <1>9 DEF IInv

LEMMA NextIInv == IInv /\ [Next]_vars => IInv'
BY TypesStep, ControlStep, OnceStep, InstalledStep, EvidenceStep, FoldersStep, IntentStep,
   SourceStep DEF IInv

LEMMA AlwaysIInv == Spec => []IInv
BY InitIInv, NextIInv, PTL DEF Spec

(* However often a note is rejected and its document processed again, one note at *)
(* most is in force, and a completed document has it (publication.py:64-70)       *)
THEOREM OneNote == Spec => []OneNoteInForce
<1>1. IInv => OneNoteInForce
  BY Working DEF IInv, OnceInv, OneNoteInForce, Notes, InForce
<1>2. QED
  BY <1>1, AlwaysIInv, PTL

(* No name of the vault shows half a note, and a note counts as published only     *)
(* after its own text was put there (publication.py:254-262)                       *)
THEOREM InstalledOnly == Spec => []PublishedWasInstalled
<1>1. IInv => PublishedWasInstalled
  BY DEF IInv, InstalledInv
<1>2. QED
  BY <1>1, AlwaysIInv, PTL

(* A rejected note keeps the file and the source it was rejected with, also when   *)
(* its document is processed again (publication.py:315)                            *)
THEOREM EvidenceIsKept == Spec => []RejectedKeepsItsEvidence
<1>1. IInv => RejectedKeepsItsEvidence
  BY DEF IInv, EvidenceInv
<1>2. QED
  BY <1>1, AlwaysIInv, PTL

(* The types, and the source in the folder its rows name at every step of a move,  *)
(* of a crash in the middle and of its repetition                                  *)
THEOREM SourceIsKnown == Spec => []FilesAreSound
<1>1. IInv => FilesAreSound
  BY DEF IInv, SourceInv, FilesAreSound
<1>2. QED
  BY <1>1, AlwaysIInv, PTL

(* Publishing and recovering never change what the person left in the vault        *)
THEOREM PersonsFilesAreKept == Spec => EditsAreKept
<1>1. IInv /\ [Next]_vars => [edits' = edits =>
         \A r \in Revisions :
            /\ vault[r] # NoFile /\ note[r].status # "REJECTING" => vault'[r] = vault[r]
            /\ moved'[r] = moved[r]]_vars
  BY EditsStep DEF IInv
<1>2. QED
  BY <1>1, AlwaysIInv, PTL DEF Spec, EditsAreKept
=============================================================================
