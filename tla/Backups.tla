-------------------------------- MODULE Backups --------------------------------
(***************************************************************************)
(* The full copies: the worker makes one when it is due and keeps the last *)
(* ones; a copy is a snapshot of the database and then the files of three  *)
(* folders, listed one folder after another while the rest of the program  *)
(* moves them; a restoration checks a copy whole and then writes it, file  *)
(* by file, into an empty root. A file is moved first and its row after.   *)
(***************************************************************************)
EXTENDS Naturals, Sequences, FiniteSets, SequencesExt

CONSTANTS
    Docs,           \* sources archived by the program
    KeepCopies,           \* keep
    MaxCopies,      \* bound: copies begun
    MaxMoves,       \* bound: moves of a file
    MaxMishaps,     \* bound: crashes, disk errors and copies damaged on their way
    NoCopy

ASSUME BackupsAssumption == KeepCopies \in Nat \ {0} /\ {MaxCopies, MaxMoves, MaxMishaps} \subseteq Nat

VARIABLES
    place,      \* the folder each file is in, and the one its row names
    copying,    \* create_full_backup: the snapshot, the files listed, and those moved meanwhile
    copies,     \* the ZIPs of the target, from the oldest to the newest
    clock,      \* whether the interval has passed since the newest one, and the bounds
    root        \* the root of a restoration: its files, whether its paths are rewritten, and what is running

backupVars == <<place, copying, copies, clock, root>>

FULL_BACKUP_FOLDERS == <<"completed", "rejected", "processing">>
Database == <<"state", "orchestrator.db">>
NoneGoing == [at |-> "idle", rows |-> <<>>, listed |-> {}, moved |-> {}]
EmptyRoot == [at |-> "empty", copy |-> NoCopy, files |-> {}]

BackupsInit ==
    /\ place = [d \in Docs |-> [file |-> "processing", row |-> "processing"]]
    /\ copying = NoneGoing /\ copies = <<>>
    /\ clock = [due |-> TRUE, copies |-> 0, moves |-> 0, mishaps |-> 0]
    /\ root = EmptyRoot

-----------------------------------------------------------------------------
(* The rest of the program                                                        *)
AlsoMoved(d) == [copying EXCEPT !.moved = @ \cup {d}]
MovesFile(d, folder) ==
    /\ clock.moves < MaxMoves /\ place[d].file = place[d].row /\ folder # place[d].file
    /\ place' = [place EXCEPT ![d].file = folder] /\ copying' = AlsoMoved(d)
    /\ clock' = [clock EXCEPT !.moves = @ + 1]
    /\ UNCHANGED <<copies, root>>
RecordsMove(d) ==
    /\ place[d].file # place[d].row
    /\ place' = [place EXCEPT ![d].row = place[d].file] /\ copying' = AlsoMoved(d)
    /\ UNCHANGED <<copies, clock, root>>

-----------------------------------------------------------------------------
(* BackupWorker and create_full_backup                                            *)
IntervalPasses ==
    /\ ~clock.due /\ clock.copies < MaxCopies /\ clock' = [clock EXCEPT !.due = TRUE]
    /\ UNCHANGED <<place, copying, copies, root>>
Snapshots ==                    \* backup_database
    /\ copying.at = "idle" /\ clock.due
    /\ copying' = [at |-> "list", rows |-> [d \in Docs |-> place[d].row], listed |-> {},
                   moved |-> {d \in Docs : place[d].file # place[d].row}, folder |-> 1]
    /\ clock' = [clock EXCEPT !.copies = @ + 1]
    /\ UNCHANGED <<place, copies, root>>
ListsFolder ==
    /\ copying.at = "list"
    /\ LET folder == FULL_BACKUP_FOLDERS[copying.folder]
           found == {<<folder, d>> : d \in {d \in Docs : place[d].file = folder}}
       IN  copying' = [copying EXCEPT !.listed = @ \cup found, !.folder = @ + 1,
                            !.at = IF copying.folder = Len(FULL_BACKUP_FOLDERS) THEN "hash" ELSE "list"]
    /\ UNCHANGED <<place, copies, clock, root>>
AllThere == \A m \in copying.listed : place[m[2]].file = m[1]
ReadsFiles(now, next) ==        \* a file that is no longer there ends the copy
    /\ copying.at = now
    /\ copying' = IF AllThere THEN [copying EXCEPT !.at = next] ELSE NoneGoing
    /\ UNCHANGED <<place, copies, clock, root>>
Hashes == ReadsFiles("hash", "zip")
Zips == ReadsFiles("zip", "replace")
Replaces ==                     \* the ZIP gets its name when it is whole
    /\ copying.at = "replace"
    /\ copies' = Append(copies, [rows |-> copying.rows, files |-> copying.listed \cup {Database},
                                 moved |-> copying.moved, whole |-> TRUE])
    /\ copying' = [copying EXCEPT !.at = "rotate"]
    /\ clock' = [clock EXCEPT !.due = FALSE]
    /\ UNCHANGED <<place, root>>
Rotates ==                      \* the oldest first, one by one
    /\ copying.at = "rotate"
    /\ IF Len(copies) > KeepCopies THEN copies' = Tail(copies) /\ UNCHANGED copying
       ELSE copying' = NoneGoing /\ UNCHANGED copies
    /\ UNCHANGED <<place, clock, root>>

-----------------------------------------------------------------------------
(* restore_full_backup                                                            *)
Restores(i) ==                  \* everything is verified before anything is written
    /\ i \in DOMAIN copies /\ root.at \in {"empty", "stopped"}
    /\ root.files = {} /\ copies[i].whole
    /\ root' = [root EXCEPT !.at = "write", !.copy = copies[i]]
    /\ UNCHANGED <<place, copying, copies, clock>>
Writes ==
    /\ root.at = "write"
    /\ \E m \in root.copy.files \ root.files : root' = [root EXCEPT !.files = @ \cup {m}]
    /\ UNCHANGED <<place, copying, copies, clock>>
Rewrites ==                     \* _rewrite_data_root, in one transaction
    /\ root.at = "write" /\ root.copy.files \subseteq root.files
    /\ root' = [root EXCEPT !.at = "restored"]
    /\ UNCHANGED <<place, copying, copies, clock>>
EmptiesRoot ==                  \* the person, to try again
    /\ root.at = "stopped" /\ root' = EmptyRoot
    /\ UNCHANGED <<place, copying, copies, clock>>

CopyMishap ==
    /\ clock.mishaps < MaxMishaps
    /\ \/ /\ copying.at # "idle" /\ copying' = NoneGoing
          /\ UNCHANGED <<copies, root>>
       \/ /\ root.at = "write" /\ root' = [root EXCEPT !.at = "stopped"]
          /\ UNCHANGED <<copying, copies>>
       \/ /\ \E i \in DOMAIN copies : copies' = [copies EXCEPT ![i].whole = FALSE]
          /\ UNCHANGED <<copying, root>>
    /\ clock' = [clock EXCEPT !.mishaps = @ + 1]
    /\ UNCHANGED place

Copying == Snapshots \/ ListsFolder \/ Hashes \/ Zips \/ Replaces \/ Rotates
BackupsNext ==
    \/ Copying \/ IntervalPasses \/ CopyMishap
    \/ \E d \in Docs : RecordsMove(d) \/ \E f \in Range(FULL_BACKUP_FOLDERS) : MovesFile(d, f)
    \/ \E i \in 1..(KeepCopies + 1) : Restores(i)
    \/ Writes \/ Rewrites \/ EmptiesRoot
=============================================================================
