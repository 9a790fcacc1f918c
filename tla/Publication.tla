----------------------------- MODULE Publication -----------------------------
(***************************************************************************)
(* Publishing the notes of one document (PublicationService): a durable    *)
(* intention in SQLite, a note installed as a new file of the vault, the   *)
(* source moved to the archive; the rejection of a published note and its  *)
(* processing again; the same steps repeated by recover() after a crash.   *)
(*                                                                         *)
(* One action is one transaction or one change of the file system. The     *)
(* operations of the service run one at a time; the person works in the    *)
(* vault between any two of their steps. The queue that produces results   *)
(* is reduced to the status of a workflow.                                 *)
(***************************************************************************)
EXTENDS Naturals, FiniteSets

CONSTANTS
    MaxRevision,   \* bound: revisions of the document
    Texts,         \* the note's document under the present names of profile and
                   \* topic, and under those they have after being renamed
    MaxEdits,      \* bound: what the person does in the vault
    MaxOutages,    \* bound: steps that end in an OSError
    MaxCrashes,    \* bound: crashes of the process
    MaxLosses,     \* bound: sources in processing/ that somebody deletes
    NoFile, Partial, Edited

ASSUME BoundsAssumption ==
    /\ MaxRevision \in Nat \ {0}
    /\ MaxEdits \in Nat /\ MaxOutages \in Nat /\ MaxCrashes \in Nat /\ MaxLosses \in Nat

ASSUME ContentsAssumption ==
    /\ Texts # {}
    /\ {NoFile, Partial, Edited} \cap Texts = {}
    /\ NoFile # Partial /\ NoFile # Edited /\ Partial # Edited

-----------------------------------------------------------------------------
Revisions == 1..MaxRevision

(* A path: 0 is NULL, 1 the original in processing/, and r > 1 the copy that   *)
(* reprocessing makes for revision r. The archive and the rejected source of a *)
(* note are named after the note's revision.                                   *)
Paths == 0..MaxRevision

Contents == Texts \cup {NoFile, Partial, Edited}

NoteStatus   == {"PUBLISHING", "CONFLICT", "PUBLISHED", "REJECTING", "REJECTED"}
IntentStatus == {"PREPARED", "COPIED", "PLANNED"}

(* A row of notes holds the hash of its document, one of reprocess_intents the   *)
(* rejected source it copies                                                     *)
NoNote     == [status |-> "none", hash |-> NoFile]
NoteRows   == [status : NoteStatus, hash : Texts] \cup {NoNote}
NoIntent   == [status |-> "none", from |-> 0]
IntentRows == [status : IntentStatus, from : Revisions] \cup {NoIntent}

(* The loops of recover(), in order; "none": the worker's cycle or a command   *)
RecoveryStages == <<"publish", "complete", "reject", "reprocess">>

Steps == {"idle", "recover",
          "check", "write", "install", "unlink", "verify", "mark", "archive", "complete",
          "moveNote", "dropNote", "moveSource", "rejected",
          "copy", "copied", "plan", "planned"}

VARIABLES
    capture,    \* the row of captures: status and the three paths
    result,     \* workflows.status of each revision
    note,       \* notes: status, and content_hash as the text it stands for
    intent,     \* reprocess_intents: status, and the rejected source it copies
    vault,      \* the file under each note's vault_path
    temp,       \* the file under its temp_path
    linked,     \* the other name of the temporary's file, if it has one
    moved,      \* the file the person moved out of a note's vault_path
    kept,       \* rejected/notes
    source,     \* the copies of the source in processing, completed, rejected/sources
    names,      \* the text a publication would write now
    pc,         \* the step the service is at
    rev,        \* the revision it is at
    text,       \* the document publish() computed
    archived,   \* what _archive_source returned
    stage,      \* number of recover()'s loop, 0 out of it
    visited,    \* the rows that loop went through
    installed,  \* history: notes whose text the service put in the vault
    edits, outages, crashes, losses

rows    == <<capture, result, note, intent>>
files   == <<vault, temp, linked, moved, kept, source>>
service == <<pc, rev, text, archived, stage, visited>>
bounds  == <<edits, outages, crashes, losses>>
vars    == <<rows, files, names, service, installed, bounds>>

(* The tables, the folders and the service keep their types *)
TypeOK ==
    /\ capture \in [status : {"PENDING", "PROCESSING", "COMPLETED", "FAILED", "REJECTED"},
                    processing : Paths, archive : Paths, rejected : Paths]
    /\ result \in [Revisions -> {"none", "RUNNING", "SUCCESS", "ERROR"}]
    /\ note \in [Revisions -> NoteRows]
    /\ intent \in [Revisions -> IntentRows]
    /\ vault \in [Revisions -> Contents]
    /\ temp \in [Revisions -> Contents]
    /\ linked \in [Revisions -> {"none", "vault", "moved"}]
    /\ moved \in [Revisions -> Contents]
    /\ kept \in [Revisions -> Contents]
    /\ source \in [processing : SUBSET Revisions, completed : SUBSET Revisions,
                   rejected : SUBSET Revisions]
    /\ names \in Texts /\ text \in Texts
    /\ pc \in Steps /\ rev \in Revisions /\ archived \in BOOLEAN
    /\ stage \in 0..4 /\ visited \subseteq Revisions /\ installed \subseteq Revisions
    /\ edits \in 0..MaxEdits /\ outages \in 0..MaxOutages
    /\ crashes \in 0..MaxCrashes /\ losses \in 0..MaxLosses

Init ==
    /\ capture = [status |-> "PENDING", processing |-> 1, archive |-> 0, rejected |-> 0]
    /\ result = [r \in Revisions |-> "none"]
    /\ note = [r \in Revisions |-> NoNote]
    /\ intent = [r \in Revisions |-> NoIntent]
    /\ vault = [r \in Revisions |-> NoFile]
    /\ temp = [r \in Revisions |-> NoFile]
    /\ linked = [r \in Revisions |-> "none"]
    /\ moved = [r \in Revisions |-> NoFile]
    /\ kept = [r \in Revisions |-> NoFile]
    /\ source = [processing |-> {1}, completed |-> {}, rejected |-> {}]
    /\ names \in Texts
    /\ pc = "idle" /\ rev = 1 /\ text = names /\ archived = FALSE
    /\ stage = 0 /\ visited = {} /\ installed = {}
    /\ edits = 0 /\ outages = 0 /\ crashes = 0 /\ losses = 0

-----------------------------------------------------------------------------
(* The control of the service *)

At(step)   == pc = step
Goto(step) == pc' = step /\ UNCHANGED <<rev, text, archived, stage, visited>>

(* The operation ends: the next row of recover()'s loop, or nothing *)
Rest == Goto(IF stage = 0 THEN "idle" ELSE "recover")

Notes(status)  == {r \in Revisions : note[r].status \in status}
Planned        == {r \in Revisions : result[r] # "none"}
NextRevision   == IF Planned = {} THEN 1 ELSE 1 + CHOOSE r \in Planned : \A s \in Planned : s <= r

-----------------------------------------------------------------------------
(* publish *)

(* list_publishable: a result without a row in notes. publish() computes the   *)
(* document and create_intent stores it by its hash                            *)
Prepare(r) ==
    /\ At("idle") /\ result[r] = "SUCCESS" /\ note[r].status = "none"
    /\ note' = [note EXCEPT ![r] = [status |-> "PUBLISHING", hash |-> names]]
    /\ pc' = "check" /\ rev' = r /\ text' = names
    /\ UNCHANGED <<capture, result, intent, files, names, archived, stage, visited, installed, bounds>>

(* validate_result_markdown refuses the result: fail_publication *)
Refuse(r) ==
    /\ At("idle") /\ result[r] = "SUCCESS" /\ note[r].status = "none"
    /\ result' = [result EXCEPT ![r] = "ERROR"]
    /\ capture' = [capture EXCEPT !.status = "FAILED"]
    /\ UNCHANGED <<note, intent, files, names, service, installed, bounds>>

(* Defect: any file under the note's name will do *)
MatchesAnything(r) == vault[r] # NoFile

(* What the vault holds is what the intention says *)
Matches(r) == vault[r] = note[r].hash

(* conflict_publication, once; publish_ready and recover go on with the others *)
Conflict ==
    /\ note' = [note EXCEPT ![rev].status = IF @ = "PUBLISHING" THEN "CONFLICT" ELSE @]
    /\ Rest
    /\ UNCHANGED <<capture, result, intent, files, names, installed, bounds>>

(* _materialize_note finds the destination: its own note, or a conflict *)
CheckFound ==
    /\ At("check") /\ vault[rev] # NoFile /\ Matches(rev)
    /\ temp' = [temp EXCEPT ![rev] = NoFile]
    /\ linked' = [linked EXCEPT ![rev] = "none"]
    /\ Goto("mark")
    /\ UNCHANGED <<rows, vault, moved, kept, source, names, installed, bounds>>

CheckConflict == At("check") /\ vault[rev] # NoFile /\ ~Matches(rev) /\ Conflict

(* Defect: the temporary is written without detaching it first *)
StillLinked(r) == linked

(* temp_path.unlink before writing: the temporary's file has no other name *)
Unlinked(r) == [linked EXCEPT ![r] = "none"]

(* write_synced opens the temporary and writes it; a crash may leave a part *)
StartTemporary ==
    /\ At("check") /\ vault[rev] = NoFile
    /\ linked' = Unlinked(rev)
    /\ temp' = [temp EXCEPT ![rev] = Partial]
    /\ moved' = IF linked'[rev] = "moved" THEN [moved EXCEPT ![rev] = Partial] ELSE moved
    /\ Goto("write")
    /\ UNCHANGED <<rows, vault, kept, source, names, installed, bounds>>

WriteTemporary ==
    /\ At("write")
    /\ temp' = [temp EXCEPT ![rev] = text]
    /\ moved' = IF linked[rev] = "moved" THEN [moved EXCEPT ![rev] = text] ELSE moved
    /\ Goto("install")
    /\ UNCHANGED <<rows, vault, linked, kept, source, names, installed, bounds>>

(* Defect: os.replace instead of a link *)
MayReplace(r) == TRUE

(* os.link fails when the destination exists *)
MayInstall(r) == vault[r] = NoFile

(* install_new_file: the temporary gets a second name in the vault *)
Install ==
    /\ At("install") /\ MayInstall(rev)
    /\ vault' = [vault EXCEPT ![rev] = temp[rev]]
    /\ linked' = [linked EXCEPT ![rev] = "vault"]
    /\ installed' = installed \cup {rev}
    /\ Goto("unlink")
    /\ UNCHANGED <<rows, temp, moved, kept, source, names, bounds>>

(* Somebody created the destination after the check *)
InstallFound ==
    /\ At("install") /\ ~MayInstall(rev) /\ Matches(rev)
    /\ Goto("unlink")
    /\ UNCHANGED <<rows, files, names, installed, bounds>>

InstallConflict == At("install") /\ ~MayInstall(rev) /\ ~Matches(rev) /\ Conflict

UnlinkTemporary ==
    /\ At("unlink")
    /\ temp' = [temp EXCEPT ![rev] = NoFile]
    /\ linked' = [linked EXCEPT ![rev] = "none"]
    /\ Goto("verify")
    /\ UNCHANGED <<rows, vault, moved, kept, source, names, installed, bounds>>

Verify == At("verify") /\ Matches(rev) /\ Goto("mark")
          /\ UNCHANGED <<rows, files, names, installed, bounds>>

(* The note changed before the publication ended *)
VerifyConflict == At("verify") /\ vault[rev] # NoFile /\ ~Matches(rev) /\ Conflict

(* The person moved it away: hashing it is an OSError, and the intention waits *)
VerifyGone == At("verify") /\ vault[rev] = NoFile /\ Rest
              /\ UNCHANGED <<rows, files, names, installed, bounds>>

MarkPublished ==
    /\ At("mark")
    /\ note' = [note EXCEPT ![rev].status =
                    IF @ \in {"PUBLISHING", "CONFLICT"} THEN "PUBLISHED" ELSE @]
    /\ Goto("archive")
    /\ UNCHANGED <<capture, result, intent, files, names, installed, bounds>>

-----------------------------------------------------------------------------
(* _archive_source and complete_capture *)

Archiving(answer) == archived' = answer /\ pc' = "complete" /\ UNCHANGED <<rev, text, stage, visited>>

ArchiveAgain ==
    /\ At("archive") /\ rev \in source.completed
    /\ Archiving(TRUE)
    /\ UNCHANGED <<rows, files, names, installed, bounds>>

(* processing/ is there and the file is not: nothing to archive; without a path  *)
(* it is an error                                                                *)
ArchiveNothing ==
    /\ At("archive") /\ rev \notin source.completed
    /\ capture.processing \notin source.processing
    /\ IF capture.processing = 0 THEN Rest ELSE Archiving(FALSE)
    /\ UNCHANGED <<rows, files, names, installed, bounds>>

Archive ==
    /\ At("archive") /\ rev \notin source.completed /\ capture.processing \in source.processing
    /\ source' = [source EXCEPT !.processing = @ \ {capture.processing},
                                !.completed = @ \cup {rev}]
    /\ Archiving(TRUE)
    /\ UNCHANGED <<rows, vault, temp, linked, moved, kept, names, installed, bounds>>

CompleteCapture ==
    /\ At("complete")
    /\ capture' = IF capture.status \in {"PROCESSING", "COMPLETED"}
                  THEN [capture EXCEPT !.status = "COMPLETED", !.processing = 0,
                                       !.archive = IF archived THEN rev ELSE 0]
                  ELSE capture
    /\ Rest
    /\ UNCHANGED <<result, note, intent, files, names, installed, bounds>>

-----------------------------------------------------------------------------
(* reject *)

PrepareRejection(r) ==
    /\ At("idle") /\ note[r].status \in {"PUBLISHED", "REJECTING"}
    /\ note' = [note EXCEPT ![r].status = "REJECTING"]
    /\ capture' = [capture EXCEPT !.rejected = r]
    /\ pc' = "moveNote" /\ rev' = r
    /\ UNCHANGED <<result, intent, files, names, text, archived, stage, visited, installed, bounds>>

(* _move_idempotent of the note: done before, impossible, or move_file         *)
NoteMovedBefore ==
    /\ At("moveNote") /\ kept[rev] # NoFile
    /\ Goto("moveSource")
    /\ UNCHANGED <<rows, files, names, installed, bounds>>

NoteMissing ==
    /\ At("moveNote") /\ kept[rev] = NoFile /\ vault[rev] = NoFile
    /\ Rest
    /\ UNCHANGED <<rows, files, names, installed, bounds>>

(* On the same unit the note changes its name; between units it is copied, the *)
(* copy takes its place, and the original goes in a step of its own            *)
MoveNote ==
    /\ At("moveNote") /\ kept[rev] = NoFile /\ vault[rev] # NoFile
    /\ kept' = [kept EXCEPT ![rev] = vault[rev]]
    /\ \/ Goto("moveSource") /\ vault' = [vault EXCEPT ![rev] = NoFile]
       \/ Goto("dropNote") /\ UNCHANGED vault
    /\ UNCHANGED <<rows, temp, linked, moved, source, names, installed, bounds>>

DropNote ==
    /\ At("dropNote")
    /\ vault' = [vault EXCEPT ![rev] = NoFile]
    /\ Goto("moveSource")
    /\ UNCHANGED <<rows, temp, linked, moved, kept, source, names, installed, bounds>>

(* The same for the source, whose rejected name is read from the capture *)
SourceMovedBefore ==
    /\ At("moveSource") /\ capture.rejected \in source.rejected
    /\ Goto("rejected")
    /\ UNCHANGED <<rows, files, names, installed, bounds>>

SourceMissing ==
    /\ At("moveSource") /\ capture.rejected \notin source.rejected /\ rev \notin source.completed
    /\ Rest
    /\ UNCHANGED <<rows, files, names, installed, bounds>>

MoveSource ==
    /\ At("moveSource") /\ capture.rejected \notin source.rejected /\ rev \in source.completed
    /\ source' = [source EXCEPT !.completed = @ \ {rev}, !.rejected = @ \cup {capture.rejected}]
    /\ Goto("rejected")
    /\ UNCHANGED <<rows, vault, temp, linked, moved, kept, names, installed, bounds>>

CompleteRejection ==
    /\ At("rejected")
    /\ note' = [note EXCEPT ![rev].status = IF @ = "REJECTING" THEN "REJECTED" ELSE @]
    /\ capture' = IF capture.status = "COMPLETED"
                  THEN [capture EXCEPT !.status = "REJECTED", !.archive = 0] ELSE capture
    /\ Rest
    /\ UNCHANGED <<result, intent, files, names, installed, bounds>>

-----------------------------------------------------------------------------
(* reprocess *)

RejectedSource == capture.rejected

(* The intention may exist: its row is taken as it is, whatever its status *)
PrepareReprocess(r) ==
    LET next == NextRevision IN
    /\ At("idle") /\ note[r].status = "REJECTED" /\ capture.rejected # 0
    /\ next \in Revisions
    /\ intent' = IF intent[next].status = "none"
                 THEN [intent EXCEPT ![next] = [status |-> "PREPARED", from |-> RejectedSource]]
                 ELSE intent
    /\ pc' = (IF intent'[next].status = "PREPARED" THEN "copy" ELSE "plan") /\ rev' = next
    /\ UNCHANGED <<capture, result, note, files, names, text, archived, stage, visited,
                   installed, bounds>>

(* Defect: the source is moved back *)
MovedBack(from, to) == [source EXCEPT !.processing = @ \cup {to}, !.rejected = @ \ {from}]

(* The rejected source stays where it is *)
Copied(from, to) == [source EXCEPT !.processing = @ \cup {to}]

(* _copy_atomic: the copy appears complete under its name *)
CopySource ==
    /\ At("copy") /\ rev \notin source.processing /\ intent[rev].from \in source.rejected
    /\ source' = Copied(intent[rev].from, rev)
    /\ Goto("copied")
    /\ UNCHANGED <<rows, vault, temp, linked, moved, kept, names, installed, bounds>>

CopyFound ==
    /\ At("copy") /\ rev \in source.processing
    /\ Goto("copied")
    /\ UNCHANGED <<rows, files, names, installed, bounds>>

CopyImpossible ==
    /\ At("copy") /\ rev \notin source.processing /\ intent[rev].from \notin source.rejected
    /\ Rest
    /\ UNCHANGED <<rows, files, names, installed, bounds>>

(* Defect: whatever the capture's status *)
ReopenedAlways == {"PENDING", "PROCESSING", "COMPLETED", "FAILED", "REJECTED"}

(* The captures that mark_reprocess_copied puts back in the local queue *)
Reopened == {"REJECTED", "PENDING"}

MarkCopied ==
    /\ At("copied")
    /\ capture' = IF capture.status \in Reopened
                  THEN [capture EXCEPT !.status = "PENDING", !.processing = rev, !.archive = 0]
                  ELSE capture
    /\ intent' = [intent EXCEPT ![rev].status = "COPIED"]
    /\ Goto("plan")
    /\ UNCHANGED <<result, note, files, names, installed, bounds>>

(* plan_capture of that revision: the workflow exists, or it is created *)
PlanReprocess ==
    /\ At("plan") /\ (result[rev] # "none" \/ capture.status = "PENDING")
    /\ IF result[rev] # "none" THEN UNCHANGED <<capture, result>>
       ELSE /\ result' = [result EXCEPT ![rev] = "RUNNING"]
            /\ capture' = [capture EXCEPT !.status = "PROCESSING"]
    /\ Goto("planned")
    /\ UNCHANGED <<note, intent, files, names, installed, bounds>>

PlanImpossible ==
    /\ At("plan") /\ result[rev] = "none" /\ capture.status # "PENDING"
    /\ Rest
    /\ UNCHANGED <<rows, files, names, installed, bounds>>

MarkPlanned ==
    /\ At("planned")
    /\ intent' = [intent EXCEPT ![rev].status = IF @ = "COPIED" THEN "PLANNED" ELSE @]
    /\ Rest
    /\ UNCHANGED <<capture, result, note, files, names, installed, bounds>>

-----------------------------------------------------------------------------
(* recover *)

(* The rows each loop of recover() reads *)
Pending(loop) ==
    CASE loop = "publish"   -> Notes({"PUBLISHING", "CONFLICT"})
      [] loop = "complete"  -> IF capture.status = "COMPLETED" THEN {} ELSE Notes({"PUBLISHED"})
      [] loop = "reject"    -> Notes({"REJECTING"})
      [] loop = "reprocess" -> {r \in Revisions : intent[r].status \in {"PREPARED", "COPIED"}}

(* Defect: an interrupted reprocess is taken as already copied *)
FirstStepCopied(loop, r) ==
    CASE loop = "publish"   -> "check"
      [] loop = "complete"  -> "archive"
      [] loop = "reject"    -> "moveNote"
      [] loop = "reprocess" -> IF intent[r].status = "PREPARED" THEN "copied" ELSE "plan"

FirstStep(loop, r) ==
    CASE loop = "publish"   -> "check"
      [] loop = "complete"  -> "archive"
      [] loop = "reject"    -> "moveNote"
      [] loop = "reprocess" -> IF intent[r].status = "PREPARED" THEN "copy" ELSE "plan"

(* The oldest row the loop has not visited; create_intent finds the intention  *)
(* and keeps its hash, while the document is computed with the names of now    *)
RecoverOne ==
    LET loop == RecoveryStages[stage]
        left == Pending(loop) \ visited
        r    == CHOOSE r \in left : \A s \in left : r <= s IN
    /\ At("recover") /\ left # {}
    /\ pc' = FirstStep(loop, r) /\ rev' = r /\ text' = names
    /\ visited' = visited \cup {r}
    /\ UNCHANGED <<rows, files, names, archived, stage, installed, bounds>>

RecoverNextLoop ==
    /\ At("recover") /\ Pending(RecoveryStages[stage]) \subseteq visited
    /\ visited' = {}
    /\ IF stage = 4 THEN stage' = 0 /\ pc' = "idle" ELSE stage' = stage + 1 /\ UNCHANGED pc
    /\ UNCHANGED <<rows, files, names, rev, text, archived, installed, bounds>>

(* The process dies at any step and starts again *)
Crash ==
    /\ crashes < MaxCrashes
    /\ crashes' = crashes + 1
    /\ pc' = "recover" /\ stage' = 1 /\ visited' = {}
    /\ UNCHANGED <<rows, files, names, rev, text, archived, installed, edits, outages, losses>>

(* The vault or a folder cannot be reached: the step ends its operation, which *)
(* leaves an incident and the rows as they are                                 *)
OnDisk == {"check", "write", "install", "verify", "archive", "moveNote", "dropNote",
           "moveSource", "copy"}

Outage ==
    /\ pc \in OnDisk /\ outages < MaxOutages
    /\ outages' = outages + 1
    /\ Rest
    /\ UNCHANGED <<rows, files, names, installed, edits, crashes, losses>>

-----------------------------------------------------------------------------
(* The rest of the application: planning, the result, a failed document that   *)
(* the person processes again                                                  *)

Plan ==
    LET next == NextRevision IN
    /\ At("idle") /\ capture.status = "PENDING" /\ next \in Revisions
    /\ \A r \in Revisions : result[r] \in {"none", "ERROR"}
    /\ result' = [result EXCEPT ![next] = "RUNNING"]
    /\ capture' = [capture EXCEPT !.status = "PROCESSING"]
    /\ UNCHANGED <<note, intent, files, names, service, installed, bounds>>

Finish(r) ==
    /\ At("idle") /\ result[r] = "RUNNING"
    /\ result' = [result EXCEPT ![r] = "SUCCESS"]
    /\ UNCHANGED <<capture, note, intent, files, names, service, installed, bounds>>

Reopen ==
    /\ At("idle") /\ capture.status = "FAILED" /\ capture.processing # 0
    /\ \A r \in Revisions : result[r] \in {"none", "ERROR"}
    /\ capture' = [capture EXCEPT !.status = "PENDING"]
    /\ UNCHANGED <<result, note, intent, files, names, service, installed, bounds>>

(* The person renames the topic or the profile of the document *)
Rename ==
    /\ names' \in Texts \ {names}
    /\ UNCHANGED <<rows, files, service, installed, bounds>>

(* What the person does with a note's name in the vault *)
MayEdit == edits < MaxEdits /\ edits' = edits + 1

(* An editor writes the file in place, and the temporary may be another name of it *)
Edit(r) ==
    /\ MayEdit /\ vault[r] # NoFile
    /\ vault' = [vault EXCEPT ![r] = Edited]
    /\ temp' = IF linked[r] = "vault" THEN [temp EXCEPT ![r] = Edited] ELSE temp
    /\ UNCHANGED <<rows, linked, moved, kept, source, names, service, installed,
                   outages, crashes, losses>>

CreateFile(r) ==
    /\ MayEdit /\ vault[r] = NoFile
    /\ vault' = [vault EXCEPT ![r] = Edited]
    /\ UNCHANGED <<rows, temp, linked, moved, kept, source, names, service, installed,
                   outages, crashes, losses>>

MoveAway(r) ==
    /\ MayEdit /\ vault[r] # NoFile /\ moved[r] = NoFile
    /\ moved' = [moved EXCEPT ![r] = vault[r]]
    /\ vault' = [vault EXCEPT ![r] = NoFile]
    /\ linked' = IF linked[r] = "vault" THEN [linked EXCEPT ![r] = "moved"] ELSE linked
    /\ UNCHANGED <<rows, temp, kept, source, names, service, installed, outages, crashes, losses>>

(* The person puts it back, and it may be the only name of its file *)
MoveBack(r) ==
    /\ MayEdit /\ moved[r] # NoFile /\ vault[r] = NoFile
    /\ vault' = [vault EXCEPT ![r] = moved[r]]
    /\ moved' = [moved EXCEPT ![r] = NoFile]
    /\ linked' = IF linked[r] = "moved" THEN [linked EXCEPT ![r] = "vault"] ELSE linked
    /\ UNCHANGED <<rows, temp, kept, source, names, service, installed, outages, crashes, losses>>

(* Somebody deletes the source while it waits in processing/ *)
LoseSource ==
    /\ losses < MaxLosses /\ source.processing # {}
    /\ losses' = losses + 1
    /\ \E s \in source.processing : source' = [source EXCEPT !.processing = @ \ {s}]
    /\ UNCHANGED <<rows, vault, temp, linked, moved, kept, names, service, installed,
                   edits, outages, crashes>>

-----------------------------------------------------------------------------
Publish  == \/ \E r \in Revisions : Prepare(r) \/ Refuse(r)
            \/ CheckFound \/ CheckConflict \/ StartTemporary \/ WriteTemporary
            \/ Install \/ InstallFound \/ InstallConflict
            \/ UnlinkTemporary \/ Verify \/ VerifyConflict \/ VerifyGone \/ MarkPublished
            \/ ArchiveAgain \/ ArchiveNothing \/ Archive \/ CompleteCapture

Reject   == \/ \E r \in Revisions : PrepareRejection(r)
            \/ NoteMovedBefore \/ NoteMissing \/ MoveNote \/ DropNote
            \/ SourceMovedBefore \/ SourceMissing \/ MoveSource \/ CompleteRejection

Reprocess == \/ \E r \in Revisions : PrepareReprocess(r)
             \/ CopySource \/ CopyFound \/ CopyImpossible \/ MarkCopied
             \/ PlanReprocess \/ PlanImpossible \/ MarkPlanned

Recover  == RecoverOne \/ RecoverNextLoop

Queue    == Plan \/ Reopen \/ \E r \in Revisions : Finish(r)

Person   == \/ Rename \/ LoseSource
            \/ \E r \in Revisions : Edit(r) \/ CreateFile(r) \/ MoveAway(r) \/ MoveBack(r)

Next == Publish \/ Reject \/ Reprocess \/ Recover \/ Queue \/ Crash \/ Outage \/ Person

Spec == Init /\ [][Next]_vars

-----------------------------------------------------------------------------
(* Safety *)

(* The source is in the folder its rows name: in processing/ until it is         *)
(* published, then archived or rejected under the name of its last revision, at   *)
(* every step of a move, of a crash in the middle and of its repetition           *)
(* (publication.py:64-70)                                                         *)
SourceIsWhereTheRowSays ==
    losses = 0 =>
        /\ capture.status = "PENDING" => capture.processing \in source.processing
        /\ capture.status \in {"PROCESSING", "FAILED"} =>
              \/ capture.processing \in source.processing
              \/ NextRevision - 1 \in source.completed \cup source.rejected
        /\ capture.status = "COMPLETED" =>
              \/ capture.archive \in source.completed
              \/ capture.rejected \in source.rejected /\ Notes({"REJECTING"}) # {}
        /\ capture.status = "REJECTED" => capture.rejected \in source.rejected

(* The tables, the folders and the service keep their types, with that           *)
FilesAreSound == TypeOK /\ SourceIsWhereTheRowSays

(* Publishing and recovering never change what the person left in the vault:     *)
(* neither the file under the note's name, nor the one moved elsewhere that may  *)
(* still share its contents with the temporary (publication.py:254-262)          *)
EditsAreKept ==
    [][edits' = edits =>
         \A r \in Revisions :
            /\ vault[r] # NoFile /\ note[r].status # "REJECTING" => vault'[r] = vault[r]
            /\ moved'[r] = moved[r]]_vars

(* No name of the vault ever shows half a note, and a note counts as published   *)
(* only after its own text was put there: a file of somebody else under its name *)
(* is not taken for it                                                           *)
PublishedWasInstalled ==
    /\ \A r \in Revisions : Partial \notin {vault[r], moved[r], kept[r]}
    /\ Notes({"PUBLISHED", "REJECTING", "REJECTED"}) \subseteq installed

(* However often a note is rejected and its document processed again, one note   *)
(* at most is in force, and a completed document has it                          *)
OneNoteInForce ==
    LET inForce == Notes({"PUBLISHED", "REJECTING"}) IN
    /\ \A r, s \in inForce : r = s
    /\ capture.status = "COMPLETED" => inForce # {}

(* Processing again copies the rejected source: a rejected note keeps the file   *)
(* and the source it was rejected with (publication.py:315)                      *)
RejectedKeepsItsEvidence ==
    \A r \in Notes({"REJECTED"}) : kept[r] # NoFile /\ r \in source.rejected
=============================================================================
