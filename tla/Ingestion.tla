------------------------------ MODULE Ingestion ------------------------------
(***************************************************************************)
(* How a document enters: the ingestion thread takes a file of the inbox   *)
(* through staging, SQLite and processing/ (IngestionService), refuses it  *)
(* into failed/ with its reason (QuarantineService), and a restart puts    *)
(* the folders and the table together again (RecoveryService), while the   *)
(* person drops and rewrites files and the Broker's worker takes the       *)
(* documents that are ready.                                               *)
(*                                                                         *)
(* One action is one transaction or one change of the file system. All the *)
(* files carry the same capture_id: those of other documents do not meet.  *)
(***************************************************************************)
EXTENDS Naturals, FiniteSets

CONSTANTS
    Files,       \* names in the inbox
    Documents,   \* contents that satisfy the contract
    Truncated,   \* the beginning of one of them that still satisfies it
    Broken,      \* a content that does not
    NoFile,
    Id,          \* the name an adopted file gets when the inbox lost its original
    MaxDrops,    \* bound: files the person leaves, rewrites or takes away
    MaxFaults,   \* bound: crashes of the process and errors of the disk
    MaxLosses    \* bound: files of processing/ that somebody deletes

ASSUME ContentsAssumption ==
    /\ {Truncated, Broken, NoFile} \cap Documents = {}
    /\ Truncated # Broken /\ NoFile # Truncated /\ NoFile # Broken
    /\ Id \notin Files /\ Files # {} /\ Documents # {}

ASSUME BoundsAssumption ==
    MaxDrops \in Nat \ {0} /\ MaxFaults \in Nat /\ MaxLosses \in Nat

-----------------------------------------------------------------------------
(* The places of a file: the inbox, the staging copy, processing/ *)
In(f)   == <<"inbox", f>>
Part    == <<"staging", Id>>
Work(n) == <<"processing", n>>

Names    == Files \cup {Id}
Places   == {In(f) : f \in Files} \cup {Part} \cup {Work(n) : n \in Names}
Contents == Documents \cup {Truncated, Broken, NoFile}

(* The destinations unique_destination may give in failed/ *)
Slots == 1..(MaxDrops + MaxFaults)

(* The row of captures. hash stands for the content it is the digest of;       *)
(* "taken" is a document the Broker's worker has planned                       *)
NoRow == [status |-> "none", hash |-> NoFile, source |-> Id, work |-> Id, enriched |-> FALSE]
Rows  == [status : {"STAGED", "PENDING", "FAILED", "taken"}, hash : Contents \ {NoFile, Broken},
          source : Names, work : Names, enriched : BOOLEAN] \cup {NoRow}

Steps == {"idle", "boot", "read", "stage", "write", "insert", "move", "pending", "retire", "unlink",
          "enrich", "intent", "quarantine", "drop", "sidecar", "settle",
          "rewrite", "rewritten"}

VARIABLES
    disk,     \* the content of each place
    failed,   \* failed/: each file and whether its .error.json is there
    intents,  \* .quarantine-*.pending.json: a place and a destination
    row,      \* captures
    pc,       \* the step of the ingestion thread, or of the startup before it
    boot,     \* the loop of recover() it is in, 0 once started
    file,     \* the file of the inbox it works with
    bytes,    \* what it read from it
    box,      \* the quarantine under way
    owed,     \* history: documents the person left in the inbox and did not rewrite
    drops, faults, losses

thread == <<pc, boot, file, bytes, box>>
bounds == <<drops, faults, losses>>
vars   == <<disk, failed, intents, row, thread, owed, bounds>>

Intents == [from : Places, slot : Slots]

(* Every table, folder and variable of the thread keeps its type; a row never   *)
(* refers to a content that does not satisfy the contract                       *)
TypeOK ==
    /\ disk \in [Places -> Contents]
    /\ failed \in [Slots -> [file : Contents, reason : BOOLEAN]]
    /\ intents \subseteq Intents
    /\ row \in Rows
    /\ pc \in Steps /\ boot \in 0..4
    /\ file \in Names /\ bytes \in Contents /\ box \in Intents
    /\ owed \subseteq Documents
    /\ drops \in 0..MaxDrops /\ faults \in 0..MaxFaults /\ losses \in 0..MaxLosses

Init ==
    /\ disk = [p \in Places |-> NoFile]
    /\ failed = [s \in Slots |-> [file |-> NoFile, reason |-> FALSE]]
    /\ intents = {}
    /\ row = NoRow
    /\ pc = "idle" /\ boot = 0 /\ file = Id /\ bytes = NoFile /\ box = [from |-> Part, slot |-> 1]
    /\ owed = {} /\ drops = 0 /\ faults = 0 /\ losses = 0

-----------------------------------------------------------------------------
At(step)   == pc = step
Goto(step) == pc' = step /\ UNCHANGED <<boot, file, bytes, box>>

(* The operation ends, or raises: the thread waits for a file, recover() goes on, *)
(* and from the only PENDING row to the next loop                                *)
Back ==
    /\ pc' = IF boot = 0 THEN "idle" ELSE "boot"
    /\ boot' = IF boot = 3 THEN 4 ELSE boot
    /\ UNCHANGED <<file, bytes, box>>

Put(p, c)  == [disk EXCEPT ![p] = c]
Move(p, q) == [disk EXCEPT ![q] = disk[p], ![p] = NoFile]

(* parse_capture_bytes *)
Valid(c) == c \in Documents \cup {Truncated}

(* unique_destination in processing/, named after the inbox's file *)
Destination(f) == IF disk[Work(f)] = NoFile THEN f ELSE Id

FreeSlot == CHOOSE s \in Slots : failed[s].file = NoFile
                                 /\ \A t \in Slots : t < s => failed[t].file # NoFile

-----------------------------------------------------------------------------
(* ingest *)

Read(f) ==
    /\ At("idle") /\ disk[In(f)] # NoFile
    /\ pc' = "read" /\ file' = f /\ bytes' = disk[In(f)]
    /\ UNCHANGED <<disk, failed, intents, row, boot, box, owed, bounds>>

(* parse_capture_bytes refuses it, or the capture_id is already in the table *)
Refuse ==
    /\ At("read") /\ (~Valid(bytes) \/ row.status # "none")
    /\ box' = [from |-> In(file), slot |-> FreeSlot]
    /\ pc' = "intent"
    /\ UNCHANGED <<disk, failed, intents, row, boot, file, bytes, owed, bounds>>

Accept ==
    /\ At("read") /\ Valid(bytes) /\ row.status = "none"
    /\ Goto("stage")
    /\ UNCHANGED <<disk, failed, intents, row, owed, bounds>>

(* Defect: an earlier staging copy is trusted *)
StagingExists == disk[Part] # NoFile

(* An earlier staging copy serves if it has the same hash; otherwise it is an *)
(* error, and the file waits                                                    *)
StagingMatches == disk[Part] = bytes

StagingConflict ==
    /\ At("stage") /\ disk[Part] # NoFile /\ ~StagingMatches
    /\ Back
    /\ UNCHANGED <<disk, failed, intents, row, owed, bounds>>

StagingFound ==
    /\ At("stage") /\ disk[Part] # NoFile /\ StagingMatches
    /\ Goto("insert")
    /\ UNCHANGED <<disk, failed, intents, row, owed, bounds>>

(* write_synced writes the staging copy under its name; a crash leaves a part *)
StartStaging ==
    /\ At("stage") /\ disk[Part] = NoFile
    /\ \E c \in {Truncated, Broken} : disk' = Put(Part, c)
    /\ Goto("write")
    /\ UNCHANGED <<failed, intents, row, owed, bounds>>

EndStaging ==
    /\ At("write")
    /\ disk' = Put(Part, bytes)
    /\ Goto("insert")
    /\ UNCHANGED <<failed, intents, row, owed, bounds>>

(* The disk refuses it: what was written stays, and the file of the inbox too *)
StagingFails ==
    /\ At("write") /\ faults < MaxFaults
    /\ faults' = faults + 1
    /\ disk' \in {disk, Put(Part, bytes)}
    /\ Back
    /\ UNCHANGED <<failed, intents, row, owed, drops, losses>>

InsertStaged ==
    /\ At("insert")
    /\ row' = [status |-> "STAGED", hash |-> bytes, source |-> file,
               work |-> Destination(file), enriched |-> FALSE]
    /\ Goto("move")
    /\ UNCHANGED <<disk, failed, intents, owed, bounds>>

(* os.replace(staging, processing), of the ingestion and of the recovery *)
MoveToProcessing ==
    /\ At("move")
    /\ disk' = Move(Part, Work(row.work))
    /\ Goto("pending")
    /\ UNCHANGED <<failed, intents, row, owed, bounds>>

MarkPending ==
    /\ At("pending") /\ row.status = "STAGED"
    /\ row' = [row EXCEPT !.status = "PENDING"]
    /\ Goto("retire")
    /\ UNCHANGED <<disk, failed, intents, owed, bounds>>

(* The file of the inbox the row came from, with the content of the row *)
Unchanged(p) == disk[p] = row.hash

Source == IF row.source = Id THEN Part ELSE In(row.source)

SourceGone == row.source = Id \/ disk[Source] = NoFile

(* Defect: the original is removed whatever it holds by now *)
RetireAnything == ~SourceGone

(* The original is removed from the inbox when it is the one in processing/ *)
MayRetire == Unchanged(Source)

Retire ==
    /\ At("retire") /\ ~SourceGone /\ MayRetire
    /\ Goto("unlink")
    /\ UNCHANGED <<disk, failed, intents, row, owed, bounds>>

Unlink ==
    /\ At("unlink") /\ ~SourceGone
    /\ disk' = Put(Source, NoFile)
    /\ IF boot = 0 THEN Goto("enrich") ELSE Back
    /\ UNCHANGED <<failed, intents, row, owed, bounds>>

NothingToRetire ==
    /\ At("retire") /\ SourceGone
    /\ IF boot = 0 THEN Goto("enrich") ELSE Back
    /\ UNCHANGED <<disk, failed, intents, row, owed, bounds>>

(* It changed, or is gone by then: ingest raises, recover() marks the capture    *)
(* FAILED (an adoption quarantines the staging copy it has already moved)        *)
NotRetired == \/ At("retire") /\ ~SourceGone /\ ~MayRetire
              \/ At("unlink") /\ SourceGone

KeepChanged ==
    /\ NotRetired
    /\ row' = IF boot \in {2, 3} THEN [row EXCEPT !.status = "FAILED"] ELSE row
    /\ IF boot = 4
       THEN pc' = "intent" /\ box' = [from |-> Part, slot |-> FreeSlot] /\ UNCHANGED <<boot, file, bytes>>
       ELSE Back
    /\ UNCHANGED <<disk, failed, intents, owed, bounds>>

(* on_accepted: topic and profile, unless it fails *)
Enrich ==
    /\ At("enrich")
    /\ row' \in {row, [row EXCEPT !.enriched = TRUE]}
    /\ Back
    /\ UNCHANGED <<disk, failed, intents, owed, bounds>>

-----------------------------------------------------------------------------
(* quarantine *)

WriteIntent ==
    /\ At("intent")
    /\ intents' = intents \cup {box}
    /\ Goto("quarantine")
    /\ UNCHANGED <<disk, failed, row, owed, bounds>>

Moved == [failed EXCEPT ![box.slot].file = disk[box.from]]

(* move_file renames the file, or copies it and drops the original *)
QuarantineFile ==
    /\ At("quarantine") /\ failed[box.slot].file = NoFile /\ disk[box.from] # NoFile
    /\ failed' = Moved
    /\ \/ Goto("sidecar") /\ disk' = Put(box.from, NoFile)
       \/ Goto("drop") /\ UNCHANGED disk
    /\ UNCHANGED <<intents, row, owed, bounds>>

DropOriginal ==
    /\ At("drop")
    /\ disk' = Put(box.from, NoFile)
    /\ Goto("sidecar")
    /\ UNCHANGED <<failed, intents, row, owed, bounds>>

AlreadyMoved ==
    /\ At("quarantine") /\ failed[box.slot].file # NoFile
    /\ Goto("sidecar")
    /\ UNCHANGED <<disk, failed, intents, row, owed, bounds>>

(* OrphanQuarantineIntent: recover_pending sets it aside; out of it, it raises, *)
(* which ends the ingestion of the file, or the startup, that is tried again    *)
NothingToMove ==
    /\ At("quarantine") /\ failed[box.slot].file = NoFile /\ disk[box.from] = NoFile
    /\ intents' = IF boot = 1 THEN intents \ {box} ELSE intents
    /\ pc' = (IF boot = 0 THEN "idle" ELSE "boot")
    /\ boot' = IF boot = 0 THEN 0 ELSE 1
    /\ UNCHANGED <<disk, failed, row, file, bytes, box, owed, bounds>>

(* Defect: the intention is removed before the reason is written *)
AfterSidecarLost == [failed EXCEPT ![box.slot].reason = FALSE]

AfterSidecar == [failed EXCEPT ![box.slot].reason = TRUE]

WriteSidecar ==
    /\ At("sidecar")
    /\ failed' = AfterSidecar
    /\ Goto("settle")
    /\ UNCHANGED <<disk, intents, row, owed, bounds>>

RemoveIntent ==
    /\ At("settle")
    /\ intents' = intents \ {box}
    /\ Back
    /\ UNCHANGED <<disk, failed, row, owed, bounds>>

-----------------------------------------------------------------------------
(* recover: 1 quarantines, 2 STAGED, 3 PENDING, 4 staging without its row *)

NextLoop == boot' = boot + 1 /\ pc' = "boot" /\ UNCHANGED <<file, bytes, box>>

RecoverQuarantine ==
    /\ At("boot") /\ boot = 1
    /\ \E q \in intents : box' = q
    /\ pc' = "quarantine"
    /\ UNCHANGED <<disk, failed, intents, row, boot, file, bytes, owed, bounds>>

QuarantinesRecovered ==
    /\ At("boot") /\ boot = 1 /\ intents = {}
    /\ NextLoop
    /\ UNCHANGED <<disk, failed, intents, row, owed, bounds>>

(* The rows of this loop: _complete_staged or _repair_pending *)
Recovering == row.status = (CASE boot = 2 -> "STAGED" [] boot = 3 -> "PENDING" [] OTHER -> "none")

(* The copy of the capture that recovery goes on from: a STAGED row looks for  *)
(* processing, staging and inbox, a PENDING one has no staging path            *)
Found ==
    CASE disk[Work(row.work)] # NoFile            -> "processing"
      [] disk[Work(row.work)] = NoFile /\ boot = 2 /\ disk[Part] # NoFile -> "staging"
      [] OTHER                                    -> IF SourceGone THEN "nothing" ELSE "inbox"

Copy == CASE Found = "processing" -> disk[Work(row.work)]
          [] Found = "staging"    -> disk[Part]
          [] Found = "inbox"      -> disk[Source]
          [] OTHER                -> NoFile

Resume ==
    /\ At("boot") /\ boot \in {2, 3} /\ Recovering
    /\ Copy = row.hash
    /\ boot' = boot
    /\ pc' = CASE Found = "processing" -> IF boot = 2 THEN "pending" ELSE "retire"
               [] Found = "staging"    -> "move"
               [] Found = "inbox"      -> "rewrite"
    /\ UNCHANGED <<disk, failed, intents, row, file, bytes, box, owed, bounds>>

(* Nothing left, or something else under the name: FAILED *)
Fail ==
    /\ At("boot") /\ boot \in {2, 3} /\ Recovering
    /\ Copy # row.hash
    /\ row' = [row EXCEPT !.status = "FAILED"]
    /\ NextLoop
    /\ UNCHANGED <<disk, failed, intents, owed, bounds>>

(* The copy is written again from the inbox: to staging, or to processing/ itself *)
Rewritten == IF boot = 2 THEN Part ELSE Work(row.work)

StartRewrite ==
    /\ At("rewrite")
    /\ \E c \in {Truncated, Broken} : disk' = Put(Rewritten, c)
    /\ Goto("rewritten")
    /\ UNCHANGED <<failed, intents, row, owed, bounds>>

EndRewrite ==
    /\ At("rewritten")
    /\ disk' = Put(Rewritten, row.hash)
    /\ Goto(IF boot = 2 THEN "move" ELSE "retire")
    /\ UNCHANGED <<failed, intents, row, owed, bounds>>

RowsRecovered ==
    /\ At("boot") /\ boot \in {2, 3} /\ ~Recovering
    /\ NextLoop
    /\ UNCHANGED <<disk, failed, intents, row, owed, bounds>>

Adoptable == row.status = "none" /\ Valid(disk[Part])

(* A staging copy nobody wrote down is adopted if it satisfies the contract,   *)
(* under its own hash, with the file of the inbox that has the same content    *)
Adopt ==
    /\ At("boot") /\ boot = 4 /\ Adoptable
    /\ \E f \in Names :
          /\ f \in Files => disk[In(f)] = disk[Part]
          /\ f = Id => \A g \in Files : disk[In(g)] # disk[Part]
          /\ row' = [status |-> "STAGED", hash |-> disk[Part], source |-> f,
                     work |-> Destination(f), enriched |-> FALSE]
    /\ Goto("move")
    /\ UNCHANGED <<disk, failed, intents, owed, bounds>>

(* Any other is removed if the row has that content, and refused if not *)
SettleStaging ==
    /\ At("boot") /\ boot = 4 /\ disk[Part] # NoFile /\ ~Adoptable
    /\ IF Unchanged(Part)
       THEN disk' = Put(Part, NoFile) /\ UNCHANGED <<pc, box>>
       ELSE pc' = "intent" /\ box' = [from |-> Part, slot |-> FreeSlot] /\ UNCHANGED disk
    /\ UNCHANGED <<failed, intents, row, boot, file, bytes, owed, bounds>>

(* enrich_unassigned_pending, and the workers start *)
Start ==
    /\ At("boot") /\ boot = 4 /\ disk[Part] = NoFile
    /\ row' \in {row, [row EXCEPT !.enriched = (row.status = "PENDING" \/ @)]}
    /\ boot' = 0 /\ pc' = "idle"
    /\ UNCHANGED <<disk, failed, intents, file, bytes, box, owed, bounds>>

Crash ==
    /\ faults < MaxFaults
    /\ faults' = faults + 1
    /\ pc' = "boot" /\ boot' = 1
    /\ UNCHANGED <<disk, failed, intents, row, file, bytes, box, owed, drops, losses>>

-----------------------------------------------------------------------------
(* The Broker's worker plans a document that has topic and profile *)
Take ==
    /\ boot = 0 /\ row.status = "PENDING" /\ row.enriched
    /\ row' = [row EXCEPT !.status = "taken"]
    /\ UNCHANGED <<disk, failed, intents, thread, owed, bounds>>

(* The original is compared, or copied, and then removed by its name *)
BeingRemoved(p) == (At("unlink") /\ Source = p) \/ (At("drop") /\ box.from = p)

(* The person, or the browser plugin, leaves a file, writes it again or takes  *)
(* it away. What is written over a file that is being removed is not owed: that *)
(* window of the file system is open in the code                                 *)
Drop(f, c) ==
    /\ drops < MaxDrops /\ c # disk[In(f)]
    /\ drops' = drops + 1
    /\ disk' = Put(In(f), c)
    /\ owed' = (owed \ {disk[In(f)]})
               \cup (IF BeingRemoved(In(f)) THEN {} ELSE {c} \cap Documents)
    /\ UNCHANGED <<failed, intents, row, thread, faults, losses>>

Lose(n) ==
    /\ losses < MaxLosses /\ disk[Work(n)] # NoFile
    /\ losses' = losses + 1
    /\ disk' = Put(Work(n), NoFile)
    /\ UNCHANGED <<failed, intents, row, thread, owed, drops, faults>>

-----------------------------------------------------------------------------
Ingest     == \/ \E f \in Files : Read(f)
              \/ Refuse \/ Accept \/ StagingConflict \/ StagingFound \/ StartStaging \/ EndStaging \/ StagingFails
              \/ InsertStaged \/ MoveToProcessing \/ MarkPending
              \/ Retire \/ Unlink \/ NothingToRetire \/ KeepChanged \/ Enrich

Quarantine == \/ WriteIntent \/ QuarantineFile \/ DropOriginal \/ AlreadyMoved \/ NothingToMove
              \/ WriteSidecar \/ RemoveIntent

Recover    == \/ RecoverQuarantine \/ QuarantinesRecovered
              \/ Resume \/ Fail \/ StartRewrite \/ EndRewrite \/ RowsRecovered
              \/ Adopt \/ SettleStaging \/ Start

Person     == \/ \E f \in Files : \E c \in Documents \cup {Broken, NoFile} : Drop(f, c)
              \/ \E n \in Names : Lose(n)

Next == Ingest \/ Quarantine \/ Recover \/ Crash \/ Take \/ Person

Spec == Init /\ [][Next]_vars

(* The folder is looked through again every few seconds, and the startup goes on *)
FairSpec == Spec /\ WF_vars(Ingest \/ Quarantine \/ Recover)

-----------------------------------------------------------------------------
(* What the person left in the inbox and did not rewrite is never lost: it is  *)
(* in the inbox, in the copies or in failed/, whatever crashes and rewrites     *)
(* happen, as long as nobody deletes files of processing/ (ingest, recover,     *)
(* QuarantineService)                                                           *)
Kept(v) == \/ \E p \in Places : disk[p] = v
           \/ \E s \in Slots : failed[s].file = v

OriginalIsKept == losses = 0 => \A v \in owed : Kept(v)

(* A document offered to the Broker's worker has in processing/ the content the *)
(* table describes (insert_staged, os.replace, mark_pending, in this order)     *)
PendingHasItsFile ==
    losses = 0 /\ row.status \in {"PENDING", "taken"} => disk[Work(row.work)] = row.hash

(* A file in failed/ without its reason has an intention, which the next start  *)
(* completes                                                                     *)
QuarantineHasItsReason ==
    \A s \in Slots : failed[s].file # NoFile /\ ~failed[s].reason => \E q \in intents : q.slot = s

(* The tables, the folders and the thread keep their types, with that             *)
FoldersAreSound == TypeOK /\ QuarantineHasItsReason

(* No file waits in the inbox, unless an error of the disk has left a staging     *)
(* copy that stops one, and whatever waits behind it, until the next start        *)
StagingStuck == \E f \in Files : disk[In(f)] # NoFile /\ disk[Part] \notin {NoFile, disk[In(f)]}
InboxIsDrained == StagingStuck \/ \A f \in Files : disk[In(f)] = NoFile
=============================================================================
