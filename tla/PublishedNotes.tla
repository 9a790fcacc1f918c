---------------------------- MODULE PublishedNotes ----------------------------
(***************************************************************************)
(* What the readers of the library share: for each note its row in SQLite  *)
(* (status and content_hash), its file in the vault and what the last      *)
(* reconciliation observed. The readers change none of it but the          *)
(* observation; the person and the publication change the rest, in the     *)
(* steps this module gives them.                                           *)
(*                                                                         *)
(* A text is the number of the version; two texts have the same digest iff *)
(* they are equal.                                                         *)
(***************************************************************************)
EXTENDS Naturals, FiniteSets

CONSTANTS
    Notes,
    MaxVersion,     \* bound: versions of a note
    MaxEdits,       \* bound: changes the person makes to files
    NoFile          \* what is read of a missing file

ASSUME NotesAssumption ==
    /\ MaxVersion \in Nat \ {0} /\ MaxEdits \in Nat
    /\ NoFile \notin Nat

VARIABLES
    row,        \* notes: status, and content_hash as the version it stands for
    file,       \* the version in the vault, or NoFile
    recon,      \* knowledge_reconciliation: state and observed_hash
    edits       \* the budget used

notesVars == <<row, file, recon, edits>>

Versions == 1..MaxVersion
NotesTypeOK ==
    /\ row \in [Notes -> [status : {"STAGED", "PUBLISHED", "RETIRED"}, text : Versions]]
    /\ file \in [Notes -> Versions \cup {NoFile}]
    /\ recon \in [Notes -> [state : {"none", "IN_SYNC", "CONFLICT", "MISSING"},
                            seen : Versions \cup {NoFile}]]
    /\ edits \in 0..MaxEdits

NotesInit ==
    /\ row \in [Notes -> [status : {"STAGED", "PUBLISHED"}, text : {1}]]
    /\ file = [n \in Notes |-> 1]
    /\ recon = [n \in Notes |-> [state |-> "none", seen |-> NoFile]]
    /\ edits = 0

Published(n) == row[n].status = "PUBLISHED"
InSync(n) == Published(n) /\ file[n] = row[n].text

-----------------------------------------------------------------------------
(* KnowledgeService.reconcile: compares published notes with their files. The     *)
(* cache of observations returns what a read of the same file would.              *)
Observation(n) ==
    [state |-> IF file[n] = NoFile THEN "MISSING"
               ELSE IF file[n] = row[n].text THEN "IN_SYNC" ELSE "CONFLICT",
     seen |-> file[n]]
Reconciled(which) == [n \in Notes |-> IF n \in which /\ Published(n) THEN Observation(n) ELSE recon[n]]

-----------------------------------------------------------------------------
(* publish_note and finalize, whose file is already in the vault                  *)
PublishNote(n) ==
    /\ row[n].status = "STAGED"
    /\ row' = [row EXCEPT ![n].status = "PUBLISHED"]
    /\ UNCHANGED <<file, recon, edits>>

(* The person edits, restores, moves or deletes the file                          *)
EditOutside(n) ==
    /\ edits < MaxEdits
    /\ \E v \in {NoFile, row[n].text} \cup {w \in Versions : w = row[n].text + 1} :
        v # file[n] /\ file' = [file EXCEPT ![n] = v]
    /\ edits' = edits + 1
    /\ UNCHANGED <<row, recon>>

(* adopt_external_version: the file becomes the version in force                  *)
AdoptEdit(n) ==
    /\ Published(n) /\ file[n] \notin {NoFile, row[n].text}
    /\ row' = [row EXCEPT ![n].text = file[n]]
    /\ recon' = [recon EXCEPT ![n] = [state |-> "IN_SYNC", seen |-> file[n]]]
    /\ UNCHANGED <<file, edits>>

(* retire                                                                         *)
RetireNote(n) ==
    /\ Published(n) /\ edits < MaxEdits
    /\ row' = [row EXCEPT ![n].status = "RETIRED"]
    /\ edits' = edits + 1
    /\ UNCHANGED <<file, recon>>

(* relocate: the person points at the file of a note that is missing              *)
Relocate(n) ==
    /\ Published(n) /\ recon[n].state = "MISSING"
    /\ \E v \in {w \in Versions : w \in row[n].text..(row[n].text + 1)} :
        /\ file' = [file EXCEPT ![n] = v]
        /\ recon' = [recon EXCEPT ![n] = [state |-> IF v = row[n].text THEN "IN_SYNC" ELSE "CONFLICT",
                                           seen |-> v]]
    /\ UNCHANGED <<row, edits>>

NotesNext == \E n \in Notes :
    PublishNote(n) \/ EditOutside(n) \/ AdoptEdit(n) \/ RetireNote(n) \/ Relocate(n)
=============================================================================
