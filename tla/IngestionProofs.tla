--------------------------- MODULE IngestionProofs ---------------------------
(***************************************************************************)
(* What the ways into the library promise, for any number of files, pages, *)
(* papers, of things the person does, of crashes and of failures of the    *)
(* disk.                                                                   *)
(*                                                                         *)
(* Ingestion: a document is never in fewer places than it was: the copies  *)
(* overwrite nothing but their own beginnings (WorkInv) and what is        *)
(* removed is somewhere else (KeptInv). The recovery may settle the        *)
(* folders because it settles them in one order (OrderInv), and a          *)
(* quarantine always finds a name in failed/ (RoomInv).                    *)
(*                                                                         *)
(* The monitored sources and the imports of the window: a key enters once  *)
(* because the file of a key that is already in is in the inbox only while *)
(* the watcher that inserted its row still has to remove it (EntryInv).    *)
(* What is known of a page never goes back because an answer in time was   *)
(* asked for after what is known was found (PageInv), and an import writes *)
(* over nothing because a free name stays free until it is used, or the    *)
(* clash of two names is told (ImportsInv).                                *)
(***************************************************************************)
EXTENDS MCIngestion, WellFoundedInduction, FiniteSetTheorems, TLAPS

(* The steps that have accepted a document, and those with an intention *)
AcceptSteps == {"stage", "write", "insert"}
BoxSteps    == {"quarantine", "drop", "sidecar", "settle"}

(* The places whose files may be refused *)
Doors == {In(f) : f \in Files} \cup {Part}

(* What each step knows of the row and of its intention: recover() leaves a loop only *)
(* with the rows it was for                                                           *)
ControlInv ==
    /\ pc \in {"idle", "read", "enrich"} \cup AcceptSteps => boot = 0
    /\ pc = "boot" => boot # 0
    /\ pc \in {"rewrite", "rewritten"} => boot \in {2, 3}
    /\ pc = "read" => file \in Files
    /\ pc \in AcceptSteps => Valid(bytes) /\ row.status = "none" /\ file \in Files
    /\ pc \in {"move", "pending"} => row.status = "STAGED"
    /\ pc \in {"retire", "unlink", "enrich"} => row.status \in {"PENDING", "taken"}
    /\ pc \in {"rewrite", "rewritten"} => row.status = (IF boot = 2 THEN "STAGED" ELSE "PENDING")
    /\ pc \in BoxSteps => box \in intents
    /\ pc = "settle" => failed[box.slot].reason
    /\ box.from \in Doors /\ \A q \in intents : q.from \in Doors

(* The recovery settles the intentions before the rows, and the rows before the        *)
(* staging; the staging copy of a row is not refused                                   *)
OrderInv ==
    /\ boot = 1 => pc \in {"boot"} \cup BoxSteps
    /\ boot \in {2, 3} => intents = {} /\ pc \notin {"intent"} \cup BoxSteps
    /\ boot = 4 /\ intents # {} => intents = {box} /\ pc \in BoxSteps
    /\ boot = 0 => /\ \A q \in intents : q.from # Part
                   /\ pc \in {"intent"} \cup BoxSteps => box.from # Part
    /\ row.status = "STAGED" => /\ boot # 3
                                /\ boot = 4 => pc \in {"move", "pending"}
                                /\ \A q \in intents : q.from # Part

(* The files that may still need a place in failed/ *)
InFlight == pc \in {"write", "insert", "move"} \/ (pc = "rewritten" /\ boot = 2)

MayBeRefused(p) ==
    \/ /\ disk[p] # NoFile
       /\ ~(p = Part /\ InFlight) /\ ~(p = box.from /\ pc = "drop")
    \/ pc = "read" /\ p = In(file)
    \/ boot = 4 /\ pc \in {"move", "pending", "retire", "unlink"} /\ p = Part

Due  == {p \in Doors : MayBeRefused(p)}
Used == {s \in Slots : failed[s].file # NoFile}

(* Each file in failed/ and each one that may still go there came with something the   *)
(* person left or with a fault: unique_destination always finds a name                 *)
RoomInv ==
    /\ IsFiniteSet(Due)
    /\ Cardinality(Used) + Cardinality(Due) <= drops + faults

(* While nobody deletes files of processing/, the copy of a row is in one of the two   *)
(* places the recovery looks at first, and no other copy takes its name                *)
WorkInv == losses = 0 =>
    /\ pc \notin {"rewrite", "rewritten"}
    /\ pc = "write" => disk[Part] \in {Truncated, Broken}
    /\ pc = "insert" => disk[Part] = bytes
    /\ pc = "move" => row.status = "STAGED" /\ disk[Part] = row.hash /\ disk[Work(row.work)] = NoFile
    /\ pc \in {"pending", "retire", "unlink"} => disk[Work(row.work)] = row.hash
    /\ row.status = "none" => \A n \in Names : disk[Work(n)] = NoFile
    /\ row.status = "STAGED" => \/ disk[Work(row.work)] = row.hash
                                \/ disk[Work(row.work)] = NoFile /\ disk[Part] = row.hash
    /\ row.status \in {"PENDING", "taken", "FAILED"} => disk[Work(row.work)] = row.hash

(* v is somewhere else than at p *)
Elsewhere(v, p) == \/ \E q \in Places \ {p} : disk[q] = v
                   \/ \E s \in Slots : failed[s].file = v

(* A document is somewhere, and the file about to be removed is not the only one      *)
KeptInv == losses = 0 =>
    /\ \A v \in owed : Kept(v)
    /\ pc = "unlink" /\ disk[Source] \in owed => Elsewhere(disk[Source], Source)
    /\ pc = "drop" /\ disk[box.from] \in owed => Elsewhere(disk[box.from], box.from)

(* The inductive invariant *)
IInv == TypeOK /\ ControlInv /\ OrderInv /\ RoomInv /\ WorkInv /\ KeptInv /\ QuarantineHasItsReason

-----------------------------------------------------------------------------
(* Places, rows and names in failed/ *)

(* No two places share a path, and the copies are never refused *)
LEMMA PlacesDiffer ==
    /\ \A f \in Files : In(f) \in Doors /\ In(f) # Part
    /\ \A f, g \in Files : In(f) = In(g) => f = g
    /\ \A f \in Files, n \in Names : In(f) # Work(n)
    /\ \A n \in Names : Work(n) \in Places \ Doors /\ Work(n) # Part
    /\ \A n, m \in Names : Work(n) = Work(m) => n = m
    /\ Part \in Doors /\ Doors \subseteq Places
BY DEF In, Part, Work, Doors, Places, Names

(* A row refers to a content that satisfies the contract *)
LEMMA RowFacts ==
    ASSUME NEW w \in Rows
    PROVE  /\ w.status \in {"none", "STAGED", "PENDING", "FAILED", "taken"}
           /\ w.source \in Names /\ w.work \in Names /\ w.hash \in Contents
           /\ w.status = "none" => w = NoRow
           /\ w.status # "none" => w.hash \in Documents \cup {Truncated} /\ w.hash # NoFile
           /\ w.status # "none" => w.hash # Broken
           /\ w.enriched \in BOOLEAN
<1>1. CASE w = NoRow
  BY <1>1, ContentsAssumption DEF NoRow, Contents, Names
<1>2. CASE w \in [status : {"STAGED", "PENDING", "FAILED", "taken"},
                  hash : Contents \ {NoFile, Broken}, source : Names, work : Names,
                  enriched : BOOLEAN]
  BY <1>2, ContentsAssumption DEF Contents
<1>3. QED
  BY <1>1, <1>2 DEF Rows

(* Rows keep their type when a field changes *)
LEMMA RowTyping ==
    ASSUME NEW w \in Rows, w.status # "none"
    PROVE  /\ \A s \in {"STAGED", "PENDING", "FAILED", "taken"} : [w EXCEPT !.status = s] \in Rows
           /\ \A b \in BOOLEAN : [w EXCEPT !.enriched = b] \in Rows
BY DEF Rows, NoRow

(* insert_staged writes a row *)
LEMMA NewRowTyping ==
    ASSUME NEW h \in Contents, Valid(h), NEW f \in Names
    PROVE  [status |-> "STAGED", hash |-> h, source |-> f, work |-> Destination(f),
            enriched |-> FALSE] \in Rows
BY ContentsAssumption DEF Rows, Valid, Contents, Destination, Names

(* The file a row came from is in the inbox, or was the staging copy *)
LEMMA SourceIsDoor ==
    ASSUME row \in Rows
    PROVE  Source \in Doors
BY RowFacts, PlacesDiffer DEF Source, Names

(* A set of naturals has a least element *)
LEMMA Least ==
    ASSUME NEW S \in SUBSET Nat, S # {}
    PROVE  \E m \in S : \A s \in S : m <= s
<1>1. \E m \in S : \A s \in S : <<s, m>> \notin OpToRel(<, Nat)
  BY NatLessThanWellFounded, WFMin, Zenon
<1>2. \A s, m \in S : ~(s < m) => m <= s
  OBVIOUS
<1>3. QED
  BY <1>1, <1>2 DEF OpToRel

(* unique_destination finds a name while some file may be refused *)
LEMMA SlotsAreEnough ==
    ASSUME TypeOK, RoomInv, Due # {}
    PROVE  FreeSlot \in Slots
<1>1. Used \subseteq Slots /\ IsFiniteSet(Slots) /\ Cardinality(Slots) = MaxDrops + MaxFaults
  BY FS_Interval, BoundsAssumption DEF Used, Slots
<1>2. IsFiniteSet(Used) /\ Cardinality(Used) \in Nat
  BY <1>1, FS_Subset, FS_CardinalityType
<1>3. Cardinality(Due) \in Nat \ {0}
  BY FS_EmptySet, FS_CardinalityType DEF RoomInv
<1>4. Cardinality(Used) < MaxDrops + MaxFaults
  BY <1>2, <1>3, BoundsAssumption DEF RoomInv, TypeOK
<1>5. Slots \ Used # {}
  <2>1. Used # Slots
    BY <1>1, <1>2, <1>4
  <2>2. QED
    BY <1>1, <2>1
<1>6. Slots \ Used \in SUBSET Nat
  BY DEF Slots
<1>7. PICK s \in Slots \ Used : \A t \in Slots \ Used : s <= t
  BY <1>5, <1>6, Least
<1>8. failed[s].file = NoFile /\ \A t \in Slots : t < s => failed[t].file # NoFile
  <2>1. \A t \in Slots : t < s => ~(s <= t)
    BY DEF Slots
  <2>2. QED
    BY <1>7, <2>1 DEF Used
<1>9. QED
  BY <1>7, <1>8 DEF FreeSlot

-----------------------------------------------------------------------------
(* The recovery and the order of its loops *)

(* What recovery goes on with, and what it found *)
LEMMA ResumedStep ==
    ASSUME row \in Rows, Resume
    PROVE  /\ row.status = (IF boot = 2 THEN "STAGED" ELSE "PENDING") /\ boot \in {2, 3}
           /\ \/ /\ pc' = (IF boot = 2 THEN "pending" ELSE "retire")
                 /\ disk[Work(row.work)] = row.hash
              \/ /\ pc' = "move" /\ boot = 2
                 /\ disk[Work(row.work)] = NoFile /\ disk[Part] = row.hash
              \/ /\ pc' = "rewrite"
                 /\ disk[Work(row.work)] = NoFile /\ (boot = 2 => disk[Part] = NoFile)
<1>1. boot \in {2, 3} /\ row.status = (IF boot = 2 THEN "STAGED" ELSE "PENDING")
  BY DEF Resume, Recovering
<1>2. row.hash # NoFile
  BY <1>1, RowFacts
<1>3. CASE disk[Work(row.work)] # NoFile
  <2>1. Found = "processing" /\ Copy = disk[Work(row.work)]
    BY <1>3 DEF Found, Copy
  <2>2. QED
    BY <1>1, <2>1 DEF Resume
<1>4. CASE disk[Work(row.work)] = NoFile /\ boot = 2 /\ disk[Part] # NoFile
  <2>1. Found = "staging" /\ Copy = disk[Part]
    BY <1>4 DEF Found, Copy
  <2>2. QED
    BY <1>1, <1>4, <2>1 DEF Resume
<1>5. CASE disk[Work(row.work)] = NoFile /\ ~(boot = 2 /\ disk[Part] # NoFile)
  <2>1. Found = IF SourceGone THEN "nothing" ELSE "inbox"
    BY <1>5 DEF Found
  <2>2. Copy = row.hash
    BY DEF Resume
  <2>3. Found = "inbox"
    BY <1>2, <2>1, <2>2 DEF Copy
  <2>4. QED
    BY <1>1, <1>5, <2>3 DEF Resume
<1>6. QED
  BY <1>3, <1>4, <1>5

(* While nobody deletes files of processing/, recovery finds the document *)
LEMMA NothingFails ==
    ASSUME TypeOK, WorkInv, losses = 0, Fail
    PROVE  FALSE
<1>1. row \in Rows /\ boot \in {2, 3} /\ row.status = (IF boot = 2 THEN "STAGED" ELSE "PENDING")
  BY DEF TypeOK, Fail, Recovering
<1>2. row.hash # NoFile
  BY <1>1, RowFacts
<1>3. CASE disk[Work(row.work)] # NoFile
  <2>1. Copy = disk[Work(row.work)]
    BY <1>3 DEF Found, Copy
  <2>2. QED
    BY <1>1, <1>3, <2>1 DEF Fail, WorkInv
<1>4. CASE disk[Work(row.work)] = NoFile
  <2>1. boot = 2 /\ disk[Part] = row.hash
    BY <1>1, <1>2, <1>4 DEF WorkInv
  <2>2. Copy = disk[Part]
    BY <1>2, <1>4, <2>1 DEF Found, Copy
  <2>3. QED
    BY <2>1, <2>2 DEF Fail
<1>5. QED
  BY <1>3, <1>4

(* Every step knows the row and the intention it works with *)
LEMMA ControlStep ==
    ASSUME TypeOK, ControlInv, OrderInv, [Next]_vars
    PROVE  ControlInv'
<1> USE DEF ControlInv, TypeOK, AcceptSteps, BoxSteps, At, Goto, Back, Put, NextLoop,
           thread, bounds
<1>0. row \in Rows
  BY DEF TypeOK
<1>1. Ingest => ControlInv'
  <2>1. \A f \in Files : Read(f) => ControlInv'
    BY DEF Read
  <2>2. Refuse => ControlInv'
    BY PlacesDiffer DEF Refuse
  <2>3. Accept => ControlInv'
    BY DEF Accept
  <2>4. StagingConflict => ControlInv'
    BY DEF StagingConflict, StagingMatches
  <2>5. StagingFound => ControlInv'
    BY DEF StagingFound, StagingMatches
  <2>6. StartStaging => ControlInv'
    BY DEF StartStaging
  <2>7. EndStaging => ControlInv'
    BY DEF EndStaging
  <2>8. StagingFails => ControlInv'
    BY DEF StagingFails
  <2>9. InsertStaged => ControlInv'
    BY DEF InsertStaged
  <2>10. MoveToProcessing => ControlInv'
    BY DEF MoveToProcessing, Move
  <2>11. MarkPending => ControlInv'
    BY DEF MarkPending
  <2>12. Retire => ControlInv'
    BY DEF Retire, Unchanged, SourceGone, MayRetire
  <2>13. Unlink => ControlInv'
    BY DEF Unlink, SourceGone
  <2>14. NothingToRetire => ControlInv'
    BY DEF NothingToRetire, SourceGone
  <2>15. KeepChanged => ControlInv'
    BY PlacesDiffer DEF KeepChanged, NotRetired, Unchanged, SourceGone, MayRetire
  <2>16. Enrich => ControlInv'
    BY DEF Enrich
  <2>17. QED
    BY <2>1, <2>2, <2>3, <2>4, <2>5, <2>6, <2>7, <2>8, <2>9, <2>10, <2>11, <2>12, <2>13,
       <2>14, <2>15, <2>16 DEF Ingest
<1>2. Quarantine => ControlInv'
  <2>1. WriteIntent => ControlInv'
    BY DEF WriteIntent
  <2>2. QuarantineFile => ControlInv'
    BY DEF QuarantineFile, Moved
  <2>3. DropOriginal => ControlInv'
    BY DEF DropOriginal
  <2>4. AlreadyMoved => ControlInv'
    BY DEF AlreadyMoved
  <2>5. NothingToMove => ControlInv'
    BY DEF NothingToMove
  <2>6. WriteSidecar => ControlInv'
    <3>1. SUFFICES ASSUME WriteSidecar
                   PROVE  ControlInv'
      OBVIOUS
    <3>2. failed'[box.slot].reason
      BY <3>1 DEF WriteSidecar, AfterSidecar, Intents
    <3>3. UNCHANGED <<intents, row, boot, file, bytes, box>> /\ pc' = "settle" /\ box \in intents
      BY <3>1 DEF WriteSidecar
    <3>4. QED
      BY <3>2, <3>3
  <2>7. RemoveIntent => ControlInv'
    BY DEF RemoveIntent
  <2>8. QED
    BY <2>1, <2>2, <2>3, <2>4, <2>5, <2>6, <2>7 DEF Quarantine
<1>3. Recover => ControlInv'
  <2>1. RecoverQuarantine => ControlInv'
    BY DEF RecoverQuarantine
  <2>2. QuarantinesRecovered => ControlInv'
    BY DEF QuarantinesRecovered
  <2>3. Resume => ControlInv'
    BY <1>0, ResumedStep DEF Resume
  <2>4. Fail => ControlInv'
    BY DEF Fail, Recovering
  <2>5. StartRewrite => ControlInv'
    BY DEF StartRewrite, Rewritten
  <2>6. EndRewrite => ControlInv'
    BY DEF EndRewrite, Rewritten
  <2>7. RowsRecovered => ControlInv'
    BY DEF RowsRecovered, Recovering
  <2>8. Adopt => ControlInv'
    BY DEF Adopt, Adoptable
  <2>9. SettleStaging => ControlInv'
    BY PlacesDiffer DEF SettleStaging, Unchanged, Adoptable
  <2>10. Start => ControlInv'
    BY DEF Start
  <2>11. QED
    BY <2>1, <2>2, <2>3, <2>4, <2>5, <2>6, <2>7, <2>8, <2>9, <2>10 DEF Recover
<1>4. Crash => ControlInv'
  BY DEF Crash
<1>5. Take => ControlInv'
  BY DEF Take
<1>6. Person => ControlInv'
  <2>1. \A f \in Files, c \in Documents \cup {Broken, NoFile} : Drop(f, c) => ControlInv'
    BY DEF Drop
  <2>2. \A n \in Names : Lose(n) => ControlInv'
    BY DEF Lose
  <2>3. QED
    BY <2>1, <2>2 DEF Person
<1>7. UNCHANGED vars => ControlInv'
  BY DEF vars
<1>8. QED
  BY <1>1, <1>2, <1>3, <1>4, <1>5, <1>6, <1>7 DEF Next

(* Every step keeps the order of the recovery *)
LEMMA OrderStep ==
    ASSUME TypeOK, ControlInv, OrderInv, [Next]_vars
    PROVE  OrderInv'
<1> USE DEF OrderInv, ControlInv, TypeOK, AcceptSteps, BoxSteps, At, Goto, Back, Put,
           NextLoop, thread, bounds
<1>0. row \in Rows
  BY DEF TypeOK
<1>1. Ingest => OrderInv'
  <2>1. \A f \in Files : Read(f) => OrderInv'
    BY DEF Read
  <2>2. Refuse => OrderInv'
    BY PlacesDiffer DEF Refuse
  <2>3. Accept => OrderInv'
    BY DEF Accept
  <2>4. StagingConflict => OrderInv'
    BY DEF StagingConflict, StagingMatches
  <2>5. StagingFound => OrderInv'
    BY DEF StagingFound, StagingMatches
  <2>6. StartStaging => OrderInv'
    BY DEF StartStaging
  <2>7. EndStaging => OrderInv'
    BY DEF EndStaging
  <2>8. StagingFails => OrderInv'
    BY DEF StagingFails
  <2>9. InsertStaged => OrderInv'
    BY DEF InsertStaged
  <2>10. MoveToProcessing => OrderInv'
    BY DEF MoveToProcessing, Move
  <2>11. MarkPending => OrderInv'
    BY DEF MarkPending
  <2>12. Retire => OrderInv'
    BY DEF Retire, Unchanged, SourceGone, MayRetire
  <2>13. Unlink => OrderInv'
    BY DEF Unlink, SourceGone
  <2>14. NothingToRetire => OrderInv'
    BY DEF NothingToRetire, SourceGone
  <2>15. KeepChanged => OrderInv'
    BY DEF KeepChanged, NotRetired, Unchanged, SourceGone, MayRetire
  <2>16. Enrich => OrderInv'
    BY DEF Enrich
  <2>17. QED
    BY <2>1, <2>2, <2>3, <2>4, <2>5, <2>6, <2>7, <2>8, <2>9, <2>10, <2>11, <2>12, <2>13,
       <2>14, <2>15, <2>16 DEF Ingest
<1>2. Quarantine => OrderInv'
  <2>1. WriteIntent => OrderInv'
    BY DEF WriteIntent
  <2>2. QuarantineFile => OrderInv'
    BY DEF QuarantineFile, Moved
  <2>3. DropOriginal => OrderInv'
    BY DEF DropOriginal
  <2>4. AlreadyMoved => OrderInv'
    BY DEF AlreadyMoved
  <2>5. NothingToMove => OrderInv'
    BY DEF NothingToMove
  <2>6. WriteSidecar => OrderInv'
    BY DEF WriteSidecar, AfterSidecar
  <2>7. RemoveIntent => OrderInv'
    BY DEF RemoveIntent
  <2>8. QED
    BY <2>1, <2>2, <2>3, <2>4, <2>5, <2>6, <2>7 DEF Quarantine
<1>3. Recover => OrderInv'
  <2>1. RecoverQuarantine => OrderInv'
    BY DEF RecoverQuarantine
  <2>2. QuarantinesRecovered => OrderInv'
    BY DEF QuarantinesRecovered
  <2>3. Resume => OrderInv'
    <3>1. SUFFICES ASSUME Resume
                   PROVE  OrderInv'
      OBVIOUS
    <3>2. UNCHANGED <<intents, row, boot>> /\ boot \in {2, 3}
      BY <3>1 DEF Resume
    <3>3. pc' \in {"pending", "retire", "move", "rewrite"}
      BY <1>0, <3>1, ResumedStep
    <3>4. QED
      BY <3>2, <3>3
  <2>4. Fail => OrderInv'
    BY DEF Fail, Recovering
  <2>5. StartRewrite => OrderInv'
    BY DEF StartRewrite, Rewritten
  <2>6. EndRewrite => OrderInv'
    BY DEF EndRewrite, Rewritten
  <2>7. RowsRecovered => OrderInv'
    BY DEF RowsRecovered, Recovering
  <2>8. Adopt => OrderInv'
    BY DEF Adopt, Adoptable
  <2>9. SettleStaging => OrderInv'
    BY DEF SettleStaging, Unchanged, Adoptable
  <2>10. Start => OrderInv'
    BY DEF Start
  <2>11. QED
    BY <2>1, <2>2, <2>3, <2>4, <2>5, <2>6, <2>7, <2>8, <2>9, <2>10 DEF Recover
<1>4. Crash => OrderInv'
  BY DEF Crash
<1>5. Take => OrderInv'
  BY DEF Take
<1>6. Person => OrderInv'
  <2>1. \A f \in Files, c \in Documents \cup {Broken, NoFile} : Drop(f, c) => OrderInv'
    BY DEF Drop
  <2>2. \A n \in Names : Lose(n) => OrderInv'
    BY DEF Lose
  <2>3. QED
    BY <2>1, <2>2 DEF Person
<1>7. UNCHANGED vars => OrderInv'
  BY DEF vars
<1>8. QED
  BY <1>1, <1>2, <1>3, <1>4, <1>5, <1>6, <1>7 DEF Next

-----------------------------------------------------------------------------
(* Types *)

(* When a file is to be refused, failed/ has a place for it *)
LEMMA RoomToRefuse ==
    ASSUME TypeOK, ControlInv, RoomInv
    PROVE  /\ pc = "read" => FreeSlot \in Slots
           /\ pc = "boot" /\ disk[Part] # NoFile => FreeSlot \in Slots
           /\ boot = 4 /\ pc \in {"retire", "unlink"} => FreeSlot \in Slots
<1>1. pc = "read" => In(file) \in Due
  BY PlacesDiffer DEF Due, MayBeRefused, ControlInv
<1>2. pc = "boot" /\ disk[Part] # NoFile => Part \in Due
  BY PlacesDiffer DEF Due, MayBeRefused, InFlight
<1>3. boot = 4 /\ pc \in {"retire", "unlink"} => Part \in Due
  BY PlacesDiffer DEF Due, MayBeRefused
<1>4. QED
  BY <1>1, <1>2, <1>3, SlotsAreEnough

(* Every step keeps the types *)
LEMMA TypesStep ==
    ASSUME TypeOK, ControlInv, RoomInv, [Next]_vars
    PROVE  TypeOK'
<1> USE DEF TypeOK, Steps, At, Goto, Back, Put, NextLoop, thread, bounds
<1>0. row \in Rows /\ Source \in Places
  BY SourceIsDoor, PlacesDiffer DEF TypeOK
<1>a. (pc = "read" => FreeSlot \in Slots)
  BY RoomToRefuse
<1>b. (pc = "boot" /\ disk[Part] # NoFile => FreeSlot \in Slots)
  BY RoomToRefuse
<1>c. (boot = 4 /\ pc \in {"retire", "unlink"} => FreeSlot \in Slots)
  BY RoomToRefuse
<1>1. Ingest => TypeOK'
  <2>1. \A f \in Files : Read(f) => TypeOK'
    BY PlacesDiffer DEF Read, Names
  <2>2. Refuse => TypeOK'
    <3>1. SUFFICES ASSUME Refuse
                   PROVE  TypeOK'
      OBVIOUS
    <3>a. pc = "read"
      BY <3>1 DEF Refuse
    <3>b. FreeSlot \in Slots
      BY <1>a, <3>a
    <3>2. file \in Files /\ FreeSlot \in Slots
      BY <3>a, <3>b DEF ControlInv
    <3>3. box' \in Intents
      BY <3>1, <3>2, PlacesDiffer DEF Refuse, Intents
    <3>4. QED
      BY <3>1, <3>3 DEF Refuse
  <2>3. Accept => TypeOK'
    BY DEF Accept
  <2>4. StagingConflict => TypeOK'
    BY DEF StagingConflict, StagingMatches
  <2>5. StagingFound => TypeOK'
    BY DEF StagingFound, StagingMatches
  <2>6. StartStaging => TypeOK'
    BY DEF StartStaging, Contents
  <2>7. EndStaging => TypeOK'
    BY DEF EndStaging, Contents
  <2>8. StagingFails => TypeOK'
    <3>1. SUFFICES ASSUME StagingFails
                   PROVE  TypeOK'
      OBVIOUS
    <3>2. disk' \in [Places -> Contents]
      BY <1>0, <3>1, PlacesDiffer DEF StagingFails, Contents
    <3>3. faults' \in 0..MaxFaults
      BY <3>1, BoundsAssumption DEF StagingFails
    <3>4. QED
      BY <3>1, <3>2, <3>3 DEF StagingFails
  <2>9. InsertStaged => TypeOK'
    <3>1. SUFFICES ASSUME InsertStaged
                   PROVE  TypeOK'
      OBVIOUS
    <3>2. Valid(bytes)
      BY <3>1 DEF InsertStaged, ControlInv, AcceptSteps
    <3>3. row' \in Rows
      BY <3>1, <3>2, NewRowTyping DEF InsertStaged
    <3>4. QED
      BY <3>1, <3>3 DEF InsertStaged
  <2>10. MoveToProcessing => TypeOK'
    BY PlacesDiffer DEF MoveToProcessing, Move, Contents, ControlInv
  <2>11. MarkPending => TypeOK'
    <3>1. MarkPending => row' \in Rows
      BY <1>0, RowTyping DEF MarkPending
    <3>2. QED
      BY <3>1 DEF MarkPending
  <2>12. Retire => TypeOK'
    BY DEF Retire, Unchanged, SourceGone, MayRetire
  <2>13. Unlink => TypeOK'
    BY <1>0, <1>a, RowFacts, PlacesDiffer DEF Unlink, SourceGone, Contents
  <2>14. NothingToRetire => TypeOK'
    BY DEF NothingToRetire, SourceGone
  <2>15. KeepChanged => TypeOK'
    <3>1. SUFFICES ASSUME KeepChanged
                   PROVE  TypeOK'
      OBVIOUS
    <3>2. row.status # "none" /\ pc \in {"retire", "unlink"}
      BY <3>1 DEF KeepChanged, NotRetired, ControlInv
    <3>3. row' \in Rows
      BY <1>0, <3>1, <3>2, RowTyping DEF KeepChanged
    <3>4. CASE boot = 4
      <4>a. FreeSlot \in Slots
        BY <1>c, <3>2, <3>4
      <4>1. box' \in Intents
        BY <4>a, <3>1, <3>2, <3>4, PlacesDiffer DEF KeepChanged, Intents
      <4>2. QED
        BY <3>1, <3>3, <3>4, <4>1 DEF KeepChanged
    <3>5. CASE boot # 4
      BY <3>1, <3>3, <3>5 DEF KeepChanged
    <3>6. QED
      BY <3>4, <3>5
  <2>16. Enrich => TypeOK'
    <3>1. SUFFICES ASSUME Enrich
                   PROVE  TypeOK'
      OBVIOUS
    <3>2. row.status # "none"
      BY <3>1 DEF Enrich, ControlInv
    <3>3. row' \in Rows
      BY <1>0, <3>1, <3>2, RowTyping DEF Enrich
    <3>4. QED
      BY <3>1, <3>3 DEF Enrich
  <2>17. QED
    BY <2>1, <2>2, <2>3, <2>4, <2>5, <2>6, <2>7, <2>8, <2>9, <2>10, <2>11, <2>12, <2>13,
       <2>14, <2>15, <2>16 DEF Ingest
<1>2. Quarantine => TypeOK'
  <2>1. WriteIntent => TypeOK'
    BY DEF WriteIntent
  <2>2. QuarantineFile => TypeOK'
    <3>1. SUFFICES ASSUME QuarantineFile
                   PROVE  TypeOK'
      OBVIOUS
    <3>2. box.from \in Places /\ box.slot \in Slots
      BY DEF Intents
    <3>3. failed' = [failed EXCEPT ![box.slot] = [failed[box.slot] EXCEPT !.file = disk[box.from]]]
      BY <3>1 DEF QuarantineFile, Moved
    <3>4. failed' \in [Slots -> [file : Contents, reason : BOOLEAN]]
      BY <3>2, <3>3
    <3>5. disk' \in [Places -> Contents]
      BY <3>1, <3>2 DEF QuarantineFile, Contents
    <3>6. QED
      BY <3>1, <3>4, <3>5 DEF QuarantineFile
  <2>3. DropOriginal => TypeOK'
    BY DEF DropOriginal, Contents, Intents
  <2>4. AlreadyMoved => TypeOK'
    BY DEF AlreadyMoved
  <2>5. NothingToMove => TypeOK'
    BY DEF NothingToMove
  <2>6. WriteSidecar => TypeOK'
    <3>1. SUFFICES ASSUME WriteSidecar
                   PROVE  TypeOK'
      OBVIOUS
    <3>2. failed' = [failed EXCEPT ![box.slot] = [failed[box.slot] EXCEPT !.reason = TRUE]]
      BY <3>1 DEF WriteSidecar, AfterSidecar
    <3>3. failed' \in [Slots -> [file : Contents, reason : BOOLEAN]]
      BY <3>2 DEF Intents
    <3>4. QED
      BY <3>1, <3>3 DEF WriteSidecar
  <2>7. RemoveIntent => TypeOK'
    BY DEF RemoveIntent
  <2>8. QED
    BY <2>1, <2>2, <2>3, <2>4, <2>5, <2>6, <2>7 DEF Quarantine
<1>3. Recover => TypeOK'
  <2>1. RecoverQuarantine => TypeOK'
    BY DEF RecoverQuarantine, Intents
  <2>2. QuarantinesRecovered => TypeOK'
    BY DEF QuarantinesRecovered
  <2>3. Resume => TypeOK'
    <3>1. SUFFICES ASSUME Resume
                   PROVE  TypeOK'
      OBVIOUS
    <3>2. pc' \in Steps
      BY <1>0, <3>1, ResumedStep
    <3>3. QED
      BY <3>1, <3>2 DEF Resume
  <2>4. Fail => TypeOK'
    <3>1. SUFFICES ASSUME Fail
                   PROVE  TypeOK'
      OBVIOUS
    <3>2. row.status # "none" /\ boot \in {2, 3}
      BY <3>1 DEF Fail, Recovering
    <3>3. row' \in Rows
      BY <1>0, <3>1, <3>2, RowTyping DEF Fail
    <3>4. QED
      BY <3>1, <3>2, <3>3 DEF Fail
  <2>5. StartRewrite => TypeOK'
    <3>1. SUFFICES ASSUME StartRewrite
                   PROVE  TypeOK'
      OBVIOUS
    <3>2. Rewritten \in Places
      BY <1>0, RowFacts, PlacesDiffer DEF Rewritten
    <3>3. disk' \in [Places -> Contents]
      BY <3>1, <3>2 DEF StartRewrite, Contents
    <3>4. QED
      BY <3>1, <3>3 DEF StartRewrite
  <2>6. EndRewrite => TypeOK'
    <3>1. SUFFICES ASSUME EndRewrite
                   PROVE  TypeOK'
      OBVIOUS
    <3>2. Rewritten \in Places /\ row.hash \in Contents
      BY <1>0, RowFacts, PlacesDiffer DEF Rewritten
    <3>3. disk' \in [Places -> Contents]
      BY <3>1, <3>2 DEF EndRewrite
    <3>4. QED
      BY <3>1, <3>3 DEF EndRewrite
  <2>7. RowsRecovered => TypeOK'
    BY DEF RowsRecovered, Recovering
  <2>8. Adopt => TypeOK'
    <3>1. SUFFICES ASSUME Adopt
                   PROVE  TypeOK'
      OBVIOUS
    <3>2. Valid(disk[Part]) /\ disk[Part] \in Contents
      BY <3>1, PlacesDiffer DEF Adopt, Adoptable
    <3>3. row' \in Rows
      BY <3>1, <3>2, NewRowTyping DEF Adopt
    <3>4. QED
      BY <3>1, <3>3 DEF Adopt
  <2>9. SettleStaging => TypeOK'
    <3>1. SUFFICES ASSUME SettleStaging
                   PROVE  TypeOK'
      OBVIOUS
    <3>a. pc = "boot" /\ disk[Part] # NoFile
      BY <3>1 DEF SettleStaging
    <3>2. FreeSlot \in Slots
      BY <1>b, <3>a
    <3>3. disk' \in [Places -> Contents]
      BY <3>1, PlacesDiffer DEF SettleStaging, Contents
    <3>4. box' \in Intents /\ pc' \in Steps
      BY <3>1, <3>2, PlacesDiffer DEF SettleStaging, Intents
    <3>5. QED
      BY <3>1, <3>3, <3>4 DEF SettleStaging
  <2>10. Start => TypeOK'
    <3>1. SUFFICES ASSUME Start
                   PROVE  TypeOK'
      OBVIOUS
    <3>2. row' \in Rows
      <4>1. CASE row.status = "none"
        BY <1>0, <3>1, <4>1, RowFacts DEF Start, NoRow
      <4>2. CASE row.status # "none"
        BY <1>0, <3>1, <4>2, RowFacts, RowTyping DEF Start
      <4>3. QED
        BY <4>1, <4>2
    <3>3. QED
      BY <3>1, <3>2 DEF Start
  <2>11. QED
    BY <2>1, <2>2, <2>3, <2>4, <2>5, <2>6, <2>7, <2>8, <2>9, <2>10 DEF Recover
<1>4. Crash => TypeOK'
  <2>1. Crash => faults' \in 0..MaxFaults
    BY BoundsAssumption DEF Crash
  <2>2. QED
    BY <2>1 DEF Crash
<1>5. Take => TypeOK'
  <2>1. Take => row' \in Rows
    BY <1>0, RowTyping DEF Take
  <2>2. QED
    BY <2>1 DEF Take
<1>6. Person => TypeOK'
  <2>1. \A f \in Files, c \in Documents \cup {Broken, NoFile} : Drop(f, c) => TypeOK'
    <3>1. SUFFICES ASSUME NEW f \in Files, NEW c \in Documents \cup {Broken, NoFile},
                          Drop(f, c)
                   PROVE  TypeOK'
      OBVIOUS
    <3>2. disk' \in [Places -> Contents]
      BY <1>0, <3>1, PlacesDiffer DEF Drop, Contents
    <3>3. drops' \in 0..MaxDrops
      BY <3>1, BoundsAssumption DEF Drop
    <3>4. QED
      BY <3>1, <3>2, <3>3 DEF Drop
  <2>2. \A n \in Names : Lose(n) => TypeOK'
    <3>1. SUFFICES ASSUME NEW n \in Names, Lose(n)
                   PROVE  TypeOK'
      OBVIOUS
    <3>2. disk' \in [Places -> Contents]
      BY <1>0, <3>1, PlacesDiffer DEF Lose, Contents
    <3>3. losses' \in 0..MaxLosses
      BY <3>1, BoundsAssumption DEF Lose
    <3>4. QED
      BY <3>1, <3>2, <3>3 DEF Lose
  <2>3. QED
    BY <2>1, <2>2 DEF Person
<1>7. UNCHANGED vars => TypeOK'
  BY DEF vars
<1>8. QED
  BY <1>1, <1>2, <1>3, <1>4, <1>5, <1>6, <1>7 DEF Next

-----------------------------------------------------------------------------
(* Room in failed/ *)

(* failed/ holds finitely many files *)
LEMMA UsedIsFinite == IsFiniteSet(Used) /\ Cardinality(Used) \in Nat
<1>1. Used \subseteq Slots /\ IsFiniteSet(Slots)
  BY FS_Interval, BoundsAssumption DEF Used, Slots
<1>2. QED
  BY <1>1, FS_Subset, FS_CardinalityType

(* There is room while no more files are to be refused *)
LEMMA RoomKept ==
    ASSUME TypeOK, RoomInv, Used' = Used, Due' \subseteq Due, drops' = drops, faults' = faults
    PROVE  RoomInv'
<1>1. IsFiniteSet(Due') /\ Cardinality(Due') <= Cardinality(Due)
  BY FS_Subset DEF RoomInv
<1>2. IsFiniteSet(Used) /\ Cardinality(Used) \in Nat
  BY UsedIsFinite
<1>3. Cardinality(Due) \in Nat /\ Cardinality(Due') \in Nat
  BY <1>1, FS_CardinalityType DEF RoomInv
<1>4. QED
  BY <1>1, <1>2, <1>3 DEF RoomInv, TypeOK

(* The steps that leave no more files to refuse *)
NoMoreDue == Due' \subseteq Due /\ UNCHANGED <<failed, drops, faults>>

LEMMA QuietKeepsRoom ==
    ASSUME TypeOK, RoomInv, NoMoreDue
    PROVE  RoomInv'
BY RoomKept DEF NoMoreDue, Used

(* One file more, after one more fault, or one more file of the person *)
LEMMA RoomGrows ==
    ASSUME TypeOK, RoomInv, Used' = Used, NEW p, Due' \subseteq Due \cup {p},
           \/ drops' = drops + 1 /\ faults' = faults
           \/ drops' = drops /\ faults' = faults + 1
    PROVE  RoomInv'
<1>1. /\ IsFiniteSet(Due \cup {p})
      /\ \/ Cardinality(Due \cup {p}) = Cardinality(Due)
         \/ Cardinality(Due \cup {p}) = Cardinality(Due) + 1
  BY FS_AddElement DEF RoomInv
<1>2. IsFiniteSet(Due') /\ Cardinality(Due') <= Cardinality(Due \cup {p})
  BY <1>1, FS_Subset
<1>3. IsFiniteSet(Used) /\ Cardinality(Used) \in Nat
  BY UsedIsFinite
<1>4. Cardinality(Due) \in Nat /\ Cardinality(Due') \in Nat
  BY <1>2, FS_CardinalityType DEF RoomInv
<1>5. QED
  BY <1>1, <1>2, <1>3, <1>4 DEF RoomInv, TypeOK

(* The file that takes a place in failed/ needs no other *)
LEMMA RoomMoves ==
    ASSUME TypeOK, RoomInv, NEW p \in Due, NEW s \in Slots,
           Used' = Used \cup {s}, Due' \subseteq Due \ {p}, drops' = drops, faults' = faults
    PROVE  RoomInv'
<1>1. IsFiniteSet(Due \ {p}) /\ Cardinality(Due \ {p}) = Cardinality(Due) - 1
  BY FS_RemoveElement DEF RoomInv
<1>2. IsFiniteSet(Due') /\ Cardinality(Due') <= Cardinality(Due \ {p})
  BY <1>1, FS_Subset
<1>3. IsFiniteSet(Used) /\ Cardinality(Used) \in Nat
  BY UsedIsFinite
<1>4. \/ Cardinality(Used') = Cardinality(Used)
      \/ Cardinality(Used') = Cardinality(Used) + 1
  BY <1>3, FS_AddElement
<1>5. Cardinality(Due) \in Nat /\ Cardinality(Due') \in Nat
  BY <1>2, FS_CardinalityType DEF RoomInv
<1>6. QED
  BY <1>1, <1>2, <1>3, <1>4, <1>5 DEF RoomInv, TypeOK

(* Every step leaves room in failed/ *)
LEMMA RoomStep ==
    ASSUME TypeOK, ControlInv, OrderInv, RoomInv, [Next]_vars
    PROVE  RoomInv'
<1> USE DEF At, Goto, Back, Put, NextLoop, thread, bounds
<1>0. row \in Rows /\ Source \in Doors
  BY SourceIsDoor DEF TypeOK
<1>1. Ingest => RoomInv'
  <2>1. \A f \in Files : Read(f) => NoMoreDue
    BY DEF Read, NoMoreDue, Due, MayBeRefused, InFlight, ControlInv, AcceptSteps, TypeOK
  <2>2. Refuse => NoMoreDue
    BY DEF Refuse, NoMoreDue, Due, MayBeRefused, InFlight, ControlInv, AcceptSteps, TypeOK
  <2>3. Accept => NoMoreDue
    BY DEF Accept, NoMoreDue, Due, MayBeRefused, InFlight, ControlInv, AcceptSteps, TypeOK
  <2>4. StagingConflict => NoMoreDue
    BY DEF StagingConflict, StagingMatches, NoMoreDue, Due, MayBeRefused, InFlight,
       ControlInv, AcceptSteps, TypeOK
  <2>5. StagingFound => NoMoreDue
    BY DEF StagingFound, StagingMatches, NoMoreDue, Due, MayBeRefused, InFlight,
       ControlInv, AcceptSteps, TypeOK
  <2>6. StartStaging => NoMoreDue
    BY DEF StartStaging, NoMoreDue, Due, MayBeRefused, InFlight, ControlInv, AcceptSteps,
       TypeOK
  <2>7. EndStaging => NoMoreDue
    BY DEF EndStaging, NoMoreDue, Due, MayBeRefused, InFlight, ControlInv, AcceptSteps,
       TypeOK
  <2>8. StagingFails => RoomInv'
    <3>1. SUFFICES ASSUME StagingFails
                   PROVE  RoomInv'
      OBVIOUS
    <3>2. Used' = Used
      BY <3>1 DEF StagingFails, Used
    <3>3. Due' \subseteq Due \cup {Part}
      BY <3>1, PlacesDiffer DEF StagingFails, Due, MayBeRefused, InFlight, ControlInv,
         TypeOK
    <3>4. \/ drops' = drops + 1 /\ faults' = faults
          \/ drops' = drops /\ faults' = faults + 1
      BY <3>1 DEF StagingFails
    <3>5. QED
      BY <3>2, <3>3, <3>4, RoomGrows
  <2>9. InsertStaged => NoMoreDue
    BY DEF InsertStaged, NoMoreDue, Due, MayBeRefused, InFlight, ControlInv, AcceptSteps,
       TypeOK
  <2>10. MoveToProcessing => NoMoreDue
    BY <1>0, RowFacts, PlacesDiffer DEF MoveToProcessing, Move, NoMoreDue, Due,
       MayBeRefused, InFlight, ControlInv, AcceptSteps, TypeOK
  <2>11. MarkPending => NoMoreDue
    BY DEF MarkPending, NoMoreDue, Due, MayBeRefused, InFlight, ControlInv, AcceptSteps,
       TypeOK
  <2>12. Retire => NoMoreDue
    BY DEF Retire, Unchanged, SourceGone, MayRetire, NoMoreDue, Due, MayBeRefused,
       InFlight, ControlInv, AcceptSteps, TypeOK
  <2>13. Unlink => NoMoreDue
    BY DEF Unlink, SourceGone, NoMoreDue, Due, MayBeRefused, InFlight, ControlInv,
       AcceptSteps, TypeOK
  <2>14. NothingToRetire => NoMoreDue
    BY DEF NothingToRetire, SourceGone, NoMoreDue, Due, MayBeRefused, InFlight,
       ControlInv, AcceptSteps, TypeOK
  <2>15. KeepChanged => NoMoreDue
    BY DEF KeepChanged, NotRetired, Unchanged, SourceGone, MayRetire, NoMoreDue, Due,
       MayBeRefused, InFlight, ControlInv, AcceptSteps, TypeOK
  <2>16. Enrich => NoMoreDue
    BY DEF Enrich, NoMoreDue, Due, MayBeRefused, InFlight, ControlInv, AcceptSteps, TypeOK
  <2>17. QED
    BY <2>1, <2>2, <2>3, <2>4, <2>5, <2>6, <2>7, <2>8, <2>9, <2>10, <2>11, <2>12, <2>13,
       <2>14, <2>15, <2>16, QuietKeepsRoom DEF Ingest
<1>2. Quarantine => RoomInv'
  <2>1. WriteIntent => NoMoreDue
    BY DEF WriteIntent, NoMoreDue, Due, MayBeRefused, InFlight, ControlInv, AcceptSteps,
       TypeOK
  <2>2. QuarantineFile => RoomInv'
    <3>1. SUFFICES ASSUME QuarantineFile
                   PROVE  RoomInv'
      OBVIOUS
    <3>2. box.slot \in Slots /\ box.from \in Due
      BY <3>1 DEF QuarantineFile, Due, MayBeRefused, InFlight, ControlInv, TypeOK, Intents
    <3>3. Used' = Used \cup {box.slot}
      BY <3>1, <3>2 DEF QuarantineFile, Moved, Used, TypeOK
    <3>4. Due' \subseteq Due \ {box.from}
      BY <3>1, <3>2, PlacesDiffer DEF QuarantineFile, Due, MayBeRefused, InFlight, TypeOK
    <3>5. drops' = drops /\ faults' = faults
      BY <3>1 DEF QuarantineFile
    <3>6. QED
      BY <3>2, <3>3, <3>4, <3>5, RoomMoves
  <2>3. DropOriginal => NoMoreDue
    BY PlacesDiffer DEF DropOriginal, NoMoreDue, Due, MayBeRefused, InFlight, ControlInv,
       AcceptSteps, TypeOK
  <2>4. AlreadyMoved => NoMoreDue
    BY DEF AlreadyMoved, NoMoreDue, Due, MayBeRefused, InFlight, ControlInv, AcceptSteps,
       TypeOK
  <2>5. NothingToMove => NoMoreDue
    BY DEF NothingToMove, NoMoreDue, Due, MayBeRefused, InFlight, ControlInv, AcceptSteps,
       TypeOK
  <2>6. WriteSidecar => RoomInv'
    <3>1. SUFFICES ASSUME WriteSidecar
                   PROVE  RoomInv'
      OBVIOUS
    <3>2. UNCHANGED <<drops, faults>>
      BY <3>1 DEF WriteSidecar
    <3>3. Used' = Used
      BY <3>1 DEF WriteSidecar, AfterSidecar, Used, TypeOK
    <3>4. Due' \subseteq Due
      BY <3>1 DEF WriteSidecar, Due, MayBeRefused, InFlight, ControlInv, AcceptSteps,
         TypeOK, AfterSidecar
    <3>5. QED
      BY <3>2, <3>3, <3>4, RoomKept
  <2>7. RemoveIntent => NoMoreDue
    BY DEF RemoveIntent, NoMoreDue, Due, MayBeRefused, InFlight, ControlInv, AcceptSteps,
       TypeOK
  <2>8. QED
    BY <2>1, <2>2, <2>3, <2>4, <2>5, <2>6, <2>7, QuietKeepsRoom DEF Quarantine
<1>3. Recover => RoomInv'
  <2>1. RecoverQuarantine => NoMoreDue
    BY DEF RecoverQuarantine, NoMoreDue, Due, MayBeRefused, InFlight, ControlInv,
       AcceptSteps, TypeOK
  <2>2. QuarantinesRecovered => NoMoreDue
    BY DEF QuarantinesRecovered, NoMoreDue, Due, MayBeRefused, InFlight, ControlInv,
       AcceptSteps, TypeOK
  <2>3. Resume => RoomInv'
    <3>1. SUFFICES ASSUME Resume
                   PROVE  RoomInv'
      OBVIOUS
    <3>2. /\ UNCHANGED <<disk, failed, file, box, boot, drops, faults>>
          /\ pc = "boot" /\ boot \in {2, 3}
      BY <3>1 DEF Resume
    <3>3. Used' = Used
      BY <3>2 DEF Used
    <3>4. pc' \in {"pending", "retire", "move", "rewrite"}
      BY <1>0, <3>1, ResumedStep
    <3>5. Due' \subseteq Due
      BY <3>2, <3>4 DEF Due, MayBeRefused, InFlight
    <3>6. QED
      BY <3>2, <3>3, <3>5, RoomKept
  <2>4. Fail => NoMoreDue
    BY DEF Fail, Recovering, NoMoreDue, Due, MayBeRefused, InFlight, ControlInv,
       AcceptSteps, TypeOK
  <2>5. StartRewrite => NoMoreDue
    BY <1>0, RowFacts, PlacesDiffer DEF StartRewrite, Rewritten, NoMoreDue, Due,
       MayBeRefused, InFlight, ControlInv, AcceptSteps, TypeOK
  <2>6. EndRewrite => NoMoreDue
    BY <1>0, RowFacts, PlacesDiffer DEF EndRewrite, Rewritten, NoMoreDue, Due,
       MayBeRefused, InFlight, ControlInv, AcceptSteps, TypeOK
  <2>7. RowsRecovered => NoMoreDue
    BY DEF RowsRecovered, Recovering, NoMoreDue, Due, MayBeRefused, InFlight, ControlInv,
       AcceptSteps, TypeOK
  <2>8. Adopt => RoomInv'
    <3>1. SUFFICES ASSUME Adopt
                   PROVE  RoomInv'
      OBVIOUS
    <3>2. /\ UNCHANGED <<disk, failed, file, box, boot, drops, faults>>
          /\ pc = "boot" /\ boot = 4 /\ pc' = "move"
      BY <3>1 DEF Adopt
    <3>3. Used' = Used
      BY <3>2 DEF Used
    <3>4. disk[Part] # NoFile
      BY <3>1, ContentsAssumption DEF Adopt, Adoptable, Valid
    <3>5. Due' \subseteq Due
      BY <3>2, <3>4 DEF Due, MayBeRefused, InFlight
    <3>6. QED
      BY <3>2, <3>3, <3>5, RoomKept
  <2>9. SettleStaging => NoMoreDue
    BY PlacesDiffer DEF SettleStaging, Unchanged, Adoptable, NoMoreDue, Due, MayBeRefused,
       InFlight, ControlInv, AcceptSteps, TypeOK
  <2>10. Start => NoMoreDue
    BY DEF Start, NoMoreDue, Due, MayBeRefused, InFlight, ControlInv, AcceptSteps, TypeOK
  <2>11. QED
    BY <2>1, <2>2, <2>3, <2>4, <2>5, <2>6, <2>7, <2>8, <2>9, <2>10, QuietKeepsRoom DEF
       Recover
<1>4. Crash => RoomInv'
  <2>1. SUFFICES ASSUME Crash
                 PROVE  RoomInv'
    OBVIOUS
  <2>2. Used' = Used
    BY <2>1 DEF Crash, Used
  <2>3. Due' \subseteq Due \cup {IF pc = "drop" THEN box.from ELSE Part}
    BY <2>1, PlacesDiffer DEF Crash, Due, MayBeRefused, InFlight, ControlInv, TypeOK
  <2>4. \/ drops' = drops + 1 /\ faults' = faults
        \/ drops' = drops /\ faults' = faults + 1
    BY <2>1 DEF Crash
  <2>5. QED
    BY <2>2, <2>3, <2>4, RoomGrows
<1>5. Take => NoMoreDue
  BY DEF Take, NoMoreDue, Due, MayBeRefused, InFlight, ControlInv, AcceptSteps, TypeOK
<1>6. Person => RoomInv'
  <2>1. \A f \in Files, c \in Documents \cup {Broken, NoFile} : Drop(f, c) => RoomInv'
    <3>1. SUFFICES ASSUME NEW f \in Files, NEW c \in Documents \cup {Broken, NoFile}, Drop(f, c)
                   PROVE  RoomInv'
      OBVIOUS
    <3>2. Used' = Used
      BY <3>1 DEF Drop, Used
    <3>3. Due' \subseteq Due \cup {In(f)}
      BY <3>1, PlacesDiffer DEF Drop, Due, MayBeRefused, InFlight, ControlInv, TypeOK
    <3>4. \/ drops' = drops + 1 /\ faults' = faults
          \/ drops' = drops /\ faults' = faults + 1
      BY <3>1 DEF Drop
    <3>5. QED
      BY <3>2, <3>3, <3>4, RoomGrows
  <2>2. \A n \in Names : Lose(n) => NoMoreDue
    BY DEF Lose, NoMoreDue, Due, MayBeRefused, InFlight, ControlInv, AcceptSteps, TypeOK
  <2>3. QED
    BY <2>1, <2>2, QuietKeepsRoom DEF Person
<1>7. UNCHANGED vars => NoMoreDue
  BY DEF vars, NoMoreDue, Due, MayBeRefused, InFlight
<1>8. QED
  BY <1>1, <1>2, <1>3, <1>4, <1>5, <1>6, <1>7, QuietKeepsRoom DEF Next

-----------------------------------------------------------------------------
(* The copy of a row *)

(* Topic and profile leave the rest of the row alone *)
LEMMA RowKeeps ==
    ASSUME NEW w \in Rows, NEW b, NEW u, u = [w EXCEPT !.enriched = b]
    PROVE  u.status = w.status /\ u.hash = w.hash /\ u.source = w.source /\ u.work = w.work
BY DEF Rows, NoRow

(* Every step keeps the copy of the row *)
LEMMA WorkStep ==
    ASSUME TypeOK, ControlInv, OrderInv, WorkInv, [Next]_vars
    PROVE  WorkInv'
<1> USE DEF WorkInv, TypeOK, At, Goto, Back, Put, NextLoop, thread, bounds
<1>0. row \in Rows /\ Source \in Doors
  BY SourceIsDoor DEF TypeOK
<1>1. Ingest => WorkInv'
  <2>1. \A f \in Files : Read(f) => WorkInv'
    BY PlacesDiffer DEF Read, ControlInv, AcceptSteps
  <2>2. Refuse => WorkInv'
    BY PlacesDiffer DEF Refuse, ControlInv, AcceptSteps
  <2>3. Accept => WorkInv'
    BY PlacesDiffer DEF Accept, ControlInv, AcceptSteps
  <2>4. StagingConflict => WorkInv'
    BY PlacesDiffer DEF StagingConflict, StagingMatches, ControlInv, AcceptSteps
  <2>5. StagingFound => WorkInv'
    BY PlacesDiffer DEF StagingFound, StagingMatches, ControlInv, AcceptSteps
  <2>6. StartStaging => WorkInv'
    BY PlacesDiffer DEF StartStaging, ControlInv, AcceptSteps
  <2>7. EndStaging => WorkInv'
    BY PlacesDiffer DEF EndStaging, ControlInv, AcceptSteps
  <2>8. StagingFails => WorkInv'
    BY PlacesDiffer DEF StagingFails, ControlInv, AcceptSteps
  <2>9. InsertStaged => WorkInv'
    <3>1. SUFFICES ASSUME InsertStaged
                   PROVE  WorkInv'
      OBVIOUS
    <3>2. SUFFICES ASSUME losses = 0
                   PROVE  WorkInv'
      BY <3>1 DEF InsertStaged
    <3>3. row.status = "none" /\ file \in Files /\ disk[Part] = bytes
      BY <3>1, <3>2 DEF InsertStaged, ControlInv, AcceptSteps
    <3>4. disk[Work(file)] = NoFile /\ Destination(file) = file
      BY <3>2, <3>3 DEF Destination, Names
    <3>5. row' = [status |-> "STAGED", hash |-> bytes, source |-> file, work |-> file,
                  enriched |-> FALSE]
      BY <3>1, <3>4 DEF InsertStaged
    <3>6. UNCHANGED <<disk, bytes, losses>> /\ pc' = "move"
      BY <3>1 DEF InsertStaged
    <3>7. QED
      BY <3>3, <3>4, <3>5, <3>6
  <2>10. MoveToProcessing => WorkInv'
    BY <1>0, RowFacts, PlacesDiffer DEF MoveToProcessing, Move, ControlInv, AcceptSteps
  <2>11. MarkPending => WorkInv'
    BY PlacesDiffer DEF MarkPending, ControlInv, AcceptSteps
  <2>12. Retire => WorkInv'
    BY PlacesDiffer DEF Retire, Unchanged, SourceGone, MayRetire, ControlInv, AcceptSteps
  <2>13. Unlink => WorkInv'
    BY <1>0, RowFacts, PlacesDiffer DEF Unlink, SourceGone, ControlInv, AcceptSteps
  <2>14. NothingToRetire => WorkInv'
    BY PlacesDiffer DEF NothingToRetire, SourceGone, ControlInv, AcceptSteps
  <2>15. KeepChanged => WorkInv'
    BY PlacesDiffer DEF KeepChanged, NotRetired, Unchanged, SourceGone, MayRetire,
       ControlInv, AcceptSteps
  <2>16. Enrich => WorkInv'
    <3>1. SUFFICES ASSUME Enrich
                   PROVE  WorkInv'
      OBVIOUS
    <3>2. UNCHANGED <<disk, losses>> /\ pc' \in {"idle", "boot"}
      BY <3>1 DEF Enrich
    <3>3. row' = row \/ row' = [row EXCEPT !.enriched = TRUE]
      BY <3>1 DEF Enrich
    <3>4. row'.status = row.status /\ row'.hash = row.hash /\ row'.work = row.work
      <4>1. CASE row' = row
        BY <4>1
      <4>2. CASE row' = [row EXCEPT !.enriched = TRUE]
        BY <1>0, <4>2, RowKeeps
      <4>3. QED
        BY <3>3, <4>1, <4>2
    <3>5. QED
      BY <3>2, <3>4
  <2>17. QED
    BY <2>1, <2>2, <2>3, <2>4, <2>5, <2>6, <2>7, <2>8, <2>9, <2>10, <2>11, <2>12, <2>13,
       <2>14, <2>15, <2>16 DEF Ingest
<1>2. Quarantine => WorkInv'
  <2>1. WriteIntent => WorkInv'
    BY PlacesDiffer DEF WriteIntent, ControlInv, AcceptSteps
  <2>2. QuarantineFile => WorkInv'
    <3>1. SUFFICES ASSUME QuarantineFile
                   PROVE  WorkInv'
      OBVIOUS
    <3>2. /\ disk' = Put(box.from, NoFile) \/ disk' = disk
          /\ UNCHANGED <<row, bytes, losses>> /\ pc' \in {"sidecar", "drop"} /\ pc \in BoxSteps
      BY <3>1 DEF QuarantineFile, BoxSteps
    <3>3. box \in intents /\ box.from \in Doors /\ box.from \in Places
      BY <3>2, PlacesDiffer DEF ControlInv, Intents
    <3>4. \A n \in Names : disk'[Work(n)] = disk[Work(n)]
      BY <3>2, <3>3, PlacesDiffer
    <3>5. row.status = "STAGED" => disk'[Part] = disk[Part]
      BY <3>2, <3>3, PlacesDiffer DEF OrderInv
    <3>6. row.work \in Names
      BY <1>0, RowFacts
    <3>7. QED
      BY <3>2, <3>4, <3>5, <3>6 DEF BoxSteps
  <2>3. DropOriginal => WorkInv'
    <3>1. SUFFICES ASSUME DropOriginal
                   PROVE  WorkInv'
      OBVIOUS
    <3>2. /\ disk' = Put(box.from, NoFile) \/ disk' = disk
          /\ UNCHANGED <<row, bytes, losses>> /\ pc' \in {"sidecar", "drop"} /\ pc \in BoxSteps
      BY <3>1 DEF DropOriginal, BoxSteps
    <3>3. box \in intents /\ box.from \in Doors /\ box.from \in Places
      BY <3>2, PlacesDiffer DEF ControlInv, Intents
    <3>4. \A n \in Names : disk'[Work(n)] = disk[Work(n)]
      BY <3>2, <3>3, PlacesDiffer
    <3>5. row.status = "STAGED" => disk'[Part] = disk[Part]
      BY <3>2, <3>3, PlacesDiffer DEF OrderInv
    <3>6. row.work \in Names
      BY <1>0, RowFacts
    <3>7. QED
      BY <3>2, <3>4, <3>5, <3>6 DEF BoxSteps
  <2>4. AlreadyMoved => WorkInv'
    BY PlacesDiffer DEF AlreadyMoved, ControlInv, AcceptSteps
  <2>5. NothingToMove => WorkInv'
    BY PlacesDiffer DEF NothingToMove, ControlInv, AcceptSteps
  <2>6. WriteSidecar => WorkInv'
    BY PlacesDiffer DEF WriteSidecar, AfterSidecar, ControlInv, AcceptSteps
  <2>7. RemoveIntent => WorkInv'
    BY PlacesDiffer DEF RemoveIntent, ControlInv, AcceptSteps
  <2>8. QED
    BY <2>1, <2>2, <2>3, <2>4, <2>5, <2>6, <2>7 DEF Quarantine
<1>3. Recover => WorkInv'
  <2>1. RecoverQuarantine => WorkInv'
    BY PlacesDiffer DEF RecoverQuarantine, ControlInv, AcceptSteps
  <2>2. QuarantinesRecovered => WorkInv'
    BY PlacesDiffer DEF QuarantinesRecovered, ControlInv, AcceptSteps
  <2>3. Resume => WorkInv'
    <3>1. SUFFICES ASSUME Resume
                   PROVE  WorkInv'
      OBVIOUS
    <3>2. UNCHANGED <<disk, row, bytes, losses>>
      BY <3>1 DEF Resume
    <3>3. /\ row.status = (IF boot = 2 THEN "STAGED" ELSE "PENDING") /\ boot \in {2, 3}
          /\ row.hash # NoFile
      BY <1>0, <3>1, ResumedStep, RowFacts
    <3>4. \/ /\ pc' = (IF boot = 2 THEN "pending" ELSE "retire")
             /\ disk[Work(row.work)] = row.hash
          \/ /\ pc' = "move" /\ boot = 2
             /\ disk[Work(row.work)] = NoFile /\ disk[Part] = row.hash
          \/ /\ pc' = "rewrite"
             /\ disk[Work(row.work)] = NoFile /\ (boot = 2 => disk[Part] = NoFile)
      BY <1>0, <3>1, ResumedStep
    <3>5. QED
      BY <3>2, <3>3, <3>4
  <2>4. Fail => WorkInv'
    <3>1. Fail => losses # 0 /\ losses' = losses
      BY NothingFails DEF Fail, WorkInv, TypeOK
    <3>2. QED
      BY <3>1
  <2>5. StartRewrite => WorkInv'
    BY PlacesDiffer DEF StartRewrite, Rewritten, ControlInv, AcceptSteps
  <2>6. EndRewrite => WorkInv'
    BY PlacesDiffer DEF EndRewrite, Rewritten, ControlInv, AcceptSteps
  <2>7. RowsRecovered => WorkInv'
    BY PlacesDiffer DEF RowsRecovered, Recovering, ControlInv, AcceptSteps
  <2>8. Adopt => WorkInv'
    <3>1. SUFFICES ASSUME Adopt
                   PROVE  WorkInv'
      OBVIOUS
    <3>2. SUFFICES ASSUME losses = 0
                   PROVE  WorkInv'
      BY <3>1 DEF Adopt
    <3>3. PICK f \in Names : row' = [status |-> "STAGED", hash |-> disk[Part], source |-> f,
                                     work |-> Destination(f), enriched |-> FALSE]
      BY <3>1 DEF Adopt
    <3>4. row.status = "none" /\ disk[Work(f)] = NoFile
      BY <3>1, <3>2 DEF Adopt, Adoptable
    <3>5. Destination(f) = f
      BY <3>4 DEF Destination
    <3>6. UNCHANGED <<disk, bytes, losses>> /\ pc' = "move"
      BY <3>1 DEF Adopt
    <3>7. QED
      BY <3>3, <3>4, <3>5, <3>6
  <2>9. SettleStaging => WorkInv'
    <3>1. SUFFICES ASSUME SettleStaging
                   PROVE  WorkInv'
      OBVIOUS
    <3>2. /\ disk' = Put(Part, NoFile) \/ disk' = disk
          /\ UNCHANGED <<row, losses>> /\ pc' \in {"boot", "intent"} /\ row.status # "STAGED"
      BY <3>1 DEF SettleStaging, OrderInv, BoxSteps
    <3>3. \A n \in Names : disk'[Work(n)] = disk[Work(n)]
      BY <3>2, PlacesDiffer
    <3>4. row.work \in Names
      BY <1>0, RowFacts
    <3>5. QED
      BY <3>2, <3>3, <3>4
  <2>10. Start => WorkInv'
    <3>1. SUFFICES ASSUME Start
                   PROVE  WorkInv'
      OBVIOUS
    <3>2. UNCHANGED <<disk, losses>> /\ pc' \in {"idle", "boot"}
      BY <3>1 DEF Start
    <3>3. row' = row \/ row' = [row EXCEPT !.enriched = (row.status = "PENDING" \/ row.enriched)]
      BY <3>1 DEF Start
    <3>4. row'.status = row.status /\ row'.hash = row.hash /\ row'.work = row.work
      <4>1. CASE row' = row
        BY <4>1
      <4>2. CASE row' = [row EXCEPT !.enriched = (row.status = "PENDING" \/ row.enriched)]
        BY <1>0, <4>2, RowKeeps
      <4>3. QED
        BY <3>3, <4>1, <4>2
    <3>5. QED
      BY <3>2, <3>4
  <2>11. QED
    BY <2>1, <2>2, <2>3, <2>4, <2>5, <2>6, <2>7, <2>8, <2>9, <2>10 DEF Recover
<1>4. Crash => WorkInv'
  BY PlacesDiffer DEF Crash, ControlInv, AcceptSteps
<1>5. Take => WorkInv'
  BY PlacesDiffer DEF Take, ControlInv, AcceptSteps
<1>6. Person => WorkInv'
  <2>1. \A f \in Files, c \in Documents \cup {Broken, NoFile} : Drop(f, c) => WorkInv'
    BY <1>0, RowFacts, PlacesDiffer DEF Drop, ControlInv, AcceptSteps
  <2>2. \A n \in Names : Lose(n) => WorkInv'
    BY PlacesDiffer DEF Lose, ControlInv, AcceptSteps
  <2>3. QED
    BY <2>1, <2>2 DEF Person
<1>7. UNCHANGED vars => WorkInv'
  BY DEF vars
<1>8. QED
  BY <1>1, <1>2, <1>3, <1>4, <1>5, <1>6, <1>7 DEF Next

-----------------------------------------------------------------------------
(* The document *)

(* A document that is not only at p survives what is put there *)
LEMMA PutKeeps ==
    ASSUME TypeOK, NEW p \in Places, NEW c, disk' = [disk EXCEPT ![p] = c], failed' = failed,
           NEW v, Kept(v), v # disk[p] \/ Elsewhere(v, p)
    PROVE  Kept(v)'
BY DEF Kept, Elsewhere, TypeOK

(* Every step keeps every document somewhere *)
LEMMA KeptStep ==
    ASSUME TypeOK, ControlInv, OrderInv, WorkInv, KeptInv, [Next]_vars
    PROVE  KeptInv'
<1> USE DEF KeptInv, TypeOK, At, Goto, Back, Put, NextLoop, thread, bounds
<1>0. row \in Rows /\ Source \in Doors /\ Source \in Places
  BY SourceIsDoor, PlacesDiffer DEF TypeOK
<1>1. Ingest => KeptInv'
  <2>1. \A f \in Files : Read(f) => KeptInv'
    BY <1>0, RowFacts, PlacesDiffer DEF Read, ControlInv, AcceptSteps, WorkInv, Kept,
       Elsewhere, Source
  <2>2. Refuse => KeptInv'
    BY <1>0, RowFacts, PlacesDiffer DEF Refuse, ControlInv, AcceptSteps, WorkInv, Kept,
       Elsewhere, Source
  <2>3. Accept => KeptInv'
    BY <1>0, RowFacts, PlacesDiffer DEF Accept, ControlInv, AcceptSteps, WorkInv, Kept,
       Elsewhere, Source
  <2>4. StagingConflict => KeptInv'
    BY <1>0, RowFacts, PlacesDiffer DEF StagingConflict, StagingMatches, ControlInv,
       AcceptSteps, WorkInv, Kept, Elsewhere, Source
  <2>5. StagingFound => KeptInv'
    BY <1>0, RowFacts, PlacesDiffer DEF StagingFound, StagingMatches, ControlInv,
       AcceptSteps, WorkInv, Kept, Elsewhere, Source
  <2>6. StartStaging => KeptInv'
    BY <1>0, RowFacts, PlacesDiffer DEF StartStaging, ControlInv, AcceptSteps, WorkInv,
       Kept, Elsewhere, Source
  <2>7. EndStaging => KeptInv'
    BY <1>0, RowFacts, PlacesDiffer, ContentsAssumption DEF EndStaging, ControlInv,
       AcceptSteps, WorkInv, Kept, Elsewhere, Source
  <2>8. StagingFails => KeptInv'
    <3>1. SUFFICES ASSUME StagingFails, losses' = 0
                   PROVE  KeptInv'
      OBVIOUS
    <3>2. UNCHANGED <<failed, owed, losses>> /\ pc' \in {"idle", "boot"} /\ pc = "write"
      BY <3>1 DEF StagingFails
    <3>3. losses = 0 /\ disk[Part] \notin owed /\ Part \in Places
      BY <3>1, <3>2, PlacesDiffer, ContentsAssumption DEF WorkInv
    <3>4. disk' = disk \/ disk' = [disk EXCEPT ![Part] = bytes]
      BY <3>1 DEF StagingFails
    <3>5. ASSUME NEW v \in owed
          PROVE  Kept(v)'
      <4>1. Kept(v) /\ v # disk[Part]
        BY <3>3
      <4>2. CASE disk' = disk
        BY <3>2, <4>1, <4>2 DEF Kept
      <4>3. CASE disk' = [disk EXCEPT ![Part] = bytes]
        BY <3>2, <3>3, <4>1, <4>3, PutKeeps
      <4>4. QED
        BY <3>4, <4>2, <4>3
    <3>6. QED
      BY <3>2, <3>5
  <2>9. InsertStaged => KeptInv'
    BY <1>0, RowFacts, PlacesDiffer DEF InsertStaged, ControlInv, AcceptSteps, WorkInv,
       Kept, Elsewhere, Source
  <2>10. MoveToProcessing => KeptInv'
    <3>1. SUFFICES ASSUME MoveToProcessing, losses' = 0
                   PROVE  KeptInv'
      OBVIOUS
    <3>2. UNCHANGED <<failed, owed, losses>> /\ pc' = "pending" /\ pc = "move"
      BY <3>1 DEF MoveToProcessing
    <3>3. losses = 0 /\ disk[Work(row.work)] = NoFile
      BY <3>1, <3>2 DEF WorkInv
    <3>4. Work(row.work) \in Places /\ Part \in Places /\ Work(row.work) # Part
      BY <1>0, RowFacts, PlacesDiffer
    <3>5. disk' = [disk EXCEPT ![Work(row.work)] = disk[Part], ![Part] = NoFile]
      BY <3>1 DEF MoveToProcessing, Move
    <3>6. ASSUME NEW v \in owed
          PROVE  Kept(v)'
      <4>1. Kept(v) /\ v # NoFile
        BY <3>3, ContentsAssumption
      <4>2. \A p \in Places : disk[p] = v => \E q \in Places : disk'[q] = v
        <5>1. disk'[Work(row.work)] = disk[Part]
          BY <3>4, <3>5
        <5>2. \A p \in Places \ {Part, Work(row.work)} : disk'[p] = disk[p]
          BY <3>4, <3>5
        <5>3. QED
          BY <3>3, <3>4, <4>1, <5>1, <5>2
      <4>3. QED
        BY <3>2, <4>1, <4>2 DEF Kept
    <3>7. QED
      BY <3>2, <3>6
  <2>11. MarkPending => KeptInv'
    BY <1>0, RowFacts, PlacesDiffer DEF MarkPending, ControlInv, AcceptSteps, WorkInv,
       Kept, Elsewhere, Source
  <2>12. Retire => KeptInv'
    BY <1>0, RowFacts, PlacesDiffer DEF Retire, Unchanged, SourceGone, MayRetire,
       ControlInv, AcceptSteps, WorkInv, Kept, Elsewhere, Source
  <2>13. Unlink => KeptInv'
    BY <1>0, RowFacts, PlacesDiffer DEF Unlink, SourceGone, ControlInv, AcceptSteps,
       WorkInv, Kept, Elsewhere, Source
  <2>14. NothingToRetire => KeptInv'
    BY <1>0, RowFacts, PlacesDiffer DEF NothingToRetire, SourceGone, ControlInv,
       AcceptSteps, WorkInv, Kept, Elsewhere, Source
  <2>15. KeepChanged => KeptInv'
    BY <1>0, RowFacts, PlacesDiffer DEF KeepChanged, NotRetired, Unchanged, SourceGone,
       MayRetire, ControlInv, AcceptSteps, WorkInv, Kept, Elsewhere, Source
  <2>16. Enrich => KeptInv'
    BY <1>0, RowFacts, PlacesDiffer DEF Enrich, ControlInv, AcceptSteps, WorkInv, Kept,
       Elsewhere, Source
  <2>17. QED
    BY <2>1, <2>2, <2>3, <2>4, <2>5, <2>6, <2>7, <2>8, <2>9, <2>10, <2>11, <2>12, <2>13,
       <2>14, <2>15, <2>16 DEF Ingest
<1>2. Quarantine => KeptInv'
  <2>1. WriteIntent => KeptInv'
    BY <1>0, RowFacts, PlacesDiffer DEF WriteIntent, ControlInv, AcceptSteps, WorkInv,
       Kept, Elsewhere, Source
  <2>2. QuarantineFile => KeptInv'
    <3>1. SUFFICES ASSUME QuarantineFile, losses' = 0
                   PROVE  KeptInv'
      OBVIOUS
    <3>2. /\ UNCHANGED <<owed, losses, box, row>> /\ pc' \in {"sidecar", "drop"}
          /\ failed[box.slot].file = NoFile /\ failed' = Moved
          /\ disk' = [disk EXCEPT ![box.from] = NoFile] \/ disk' = disk
      BY <3>1 DEF QuarantineFile
    <3>3. box.from \in Places /\ box.slot \in Slots
      BY DEF Intents
    <3>4. /\ failed'[box.slot].file = disk[box.from]
          /\ \A s \in Slots \ {box.slot} : failed'[s] = failed[s]
      BY <3>2, <3>3 DEF Moved
    <3>5. \A p \in Places \ {box.from} : disk'[p] = disk[p]
      BY <3>2, <3>3
    <3>6. ASSUME NEW v \in owed
          PROVE  Kept(v)'
      <4>1. Kept(v) /\ v # NoFile
        BY <3>1, <3>2, ContentsAssumption
      <4>2. \A s \in Slots : failed[s].file = v => failed'[s].file = v
        BY <3>2, <3>4, <4>1
      <4>3. \A p \in Places : disk[p] = v => disk'[p] = v \/ failed'[box.slot].file = v
        BY <3>4, <3>5
      <4>4. QED
        BY <3>3, <4>1, <4>2, <4>3 DEF Kept
    <3>7. pc' = "drop" => disk' = disk
      BY <3>1 DEF QuarantineFile
    <3>8. pc' = "drop" => Elsewhere(disk[box.from], box.from)'
      BY <3>2, <3>3, <3>4, <3>7 DEF Elsewhere
    <3>9. QED
      BY <3>2, <3>6, <3>7, <3>8
  <2>3. DropOriginal => KeptInv'
    BY <1>0, RowFacts, PlacesDiffer DEF DropOriginal, ControlInv, AcceptSteps, WorkInv,
       Kept, Elsewhere, Source
  <2>4. AlreadyMoved => KeptInv'
    BY <1>0, RowFacts, PlacesDiffer DEF AlreadyMoved, ControlInv, AcceptSteps, WorkInv,
       Kept, Elsewhere, Source
  <2>5. NothingToMove => KeptInv'
    BY <1>0, RowFacts, PlacesDiffer DEF NothingToMove, ControlInv, AcceptSteps, WorkInv,
       Kept, Elsewhere, Source
  <2>6. WriteSidecar => KeptInv'
    BY <1>0, RowFacts, PlacesDiffer DEF WriteSidecar, AfterSidecar, ControlInv,
       AcceptSteps, WorkInv, Kept, Elsewhere, Source
  <2>7. RemoveIntent => KeptInv'
    BY <1>0, RowFacts, PlacesDiffer DEF RemoveIntent, ControlInv, AcceptSteps, WorkInv,
       Kept, Elsewhere, Source
  <2>8. QED
    BY <2>1, <2>2, <2>3, <2>4, <2>5, <2>6, <2>7 DEF Quarantine
<1>3. Recover => KeptInv'
  <2>1. RecoverQuarantine => KeptInv'
    BY <1>0, RowFacts, PlacesDiffer DEF RecoverQuarantine, ControlInv, AcceptSteps,
       WorkInv, Kept, Elsewhere, Source
  <2>2. QuarantinesRecovered => KeptInv'
    BY <1>0, RowFacts, PlacesDiffer DEF QuarantinesRecovered, ControlInv, AcceptSteps,
       WorkInv, Kept, Elsewhere, Source
  <2>3. Resume => KeptInv'
    <3>1. SUFFICES ASSUME Resume, losses' = 0
                   PROVE  KeptInv'
      OBVIOUS
    <3>2. UNCHANGED <<disk, failed, owed, losses>>
      BY <3>1 DEF Resume
    <3>3. pc' \in {"pending", "retire", "move", "rewrite"}
      BY <1>0, <3>1, ResumedStep
    <3>4. QED
      BY <3>1, <3>2, <3>3 DEF Kept
  <2>4. Fail => KeptInv'
    BY <1>0, RowFacts, PlacesDiffer DEF Fail, Recovering, ControlInv, AcceptSteps,
       WorkInv, Kept, Elsewhere, Source
  <2>5. StartRewrite => KeptInv'
    BY <1>0, RowFacts, PlacesDiffer DEF StartRewrite, Rewritten, ControlInv, AcceptSteps,
       WorkInv, Kept, Elsewhere, Source
  <2>6. EndRewrite => KeptInv'
    BY <1>0, RowFacts, PlacesDiffer DEF EndRewrite, Rewritten, ControlInv, AcceptSteps,
       WorkInv, Kept, Elsewhere, Source
  <2>7. RowsRecovered => KeptInv'
    BY <1>0, RowFacts, PlacesDiffer DEF RowsRecovered, Recovering, ControlInv,
       AcceptSteps, WorkInv, Kept, Elsewhere, Source
  <2>8. Adopt => KeptInv'
    BY <1>0, RowFacts, PlacesDiffer DEF Adopt, Adoptable, ControlInv, AcceptSteps,
       WorkInv, Kept, Elsewhere, Source
  <2>9. SettleStaging => KeptInv'
    <3>1. SUFFICES ASSUME SettleStaging, losses' = 0
                   PROVE  KeptInv'
      OBVIOUS
    <3>2. /\ UNCHANGED <<failed, owed, losses>> /\ pc' \in {"boot", "intent"}
          /\ disk[Part] # NoFile /\ pc = "boot" /\ boot = 4
          /\ \/ disk' = [disk EXCEPT ![Part] = NoFile] /\ disk[Part] = row.hash
             \/ disk' = disk
      BY <3>1 DEF SettleStaging, Unchanged
    <3>3. losses = 0 /\ Part \in Places
      BY <3>1, <3>2, PlacesDiffer
    <3>4. ASSUME NEW v \in owed
          PROVE  Kept(v)'
      <4>1. Kept(v)
        BY <3>3
      <4>2. CASE disk' = disk
        BY <3>2, <4>1, <4>2 DEF Kept
      <4>3. CASE disk' = [disk EXCEPT ![Part] = NoFile] /\ disk[Part] = row.hash
        <5>1. row.status # "none"
          BY <1>0, <3>2, <4>3, RowFacts DEF NoRow
        <5>2. row.status # "STAGED"
          BY <3>2 DEF OrderInv
        <5>3. disk[Work(row.work)] = row.hash
          BY <1>0, <3>3, <5>1, <5>2, RowFacts DEF WorkInv
        <5>4. Work(row.work) \in Places \ {Part}
          BY <1>0, RowFacts, PlacesDiffer
        <5>5. Elsewhere(disk[Part], Part)
          BY <4>3, <5>3, <5>4 DEF Elsewhere
        <5>6. QED
          BY <3>2, <3>3, <4>1, <4>3, <5>5, PutKeeps
      <4>4. QED
        BY <3>2, <4>2, <4>3
    <3>5. QED
      BY <3>2, <3>4
  <2>10. Start => KeptInv'
    BY <1>0, RowFacts, PlacesDiffer DEF Start, ControlInv, AcceptSteps, WorkInv, Kept,
       Elsewhere, Source
  <2>11. QED
    BY <2>1, <2>2, <2>3, <2>4, <2>5, <2>6, <2>7, <2>8, <2>9, <2>10 DEF Recover
<1>4. Crash => KeptInv'
  BY <1>0, RowFacts, PlacesDiffer DEF Crash, ControlInv, AcceptSteps, WorkInv, Kept,
     Elsewhere, Source
<1>5. Take => KeptInv'
  BY <1>0, RowFacts, PlacesDiffer DEF Take, ControlInv, AcceptSteps, WorkInv, Kept,
     Elsewhere, Source
<1>6. Person => KeptInv'
  <2>1. \A f \in Files, c \in Documents \cup {Broken, NoFile} : Drop(f, c) => KeptInv'
    <3>1. SUFFICES ASSUME NEW f \in Files, NEW c \in Documents \cup {Broken, NoFile}, Drop(f, c), losses' = 0
                   PROVE  KeptInv'
      OBVIOUS
    <3>2. /\ UNCHANGED <<failed, row, pc, box, losses>> /\ c # disk[In(f)]
          /\ disk' = [disk EXCEPT ![In(f)] = c]
          /\ owed' = (owed \ {disk[In(f)]})
                     \cup (IF BeingRemoved(In(f)) THEN {} ELSE {c} \cap Documents)
      BY <3>1 DEF Drop
    <3>3. In(f) \in Places /\ box.from \in Places /\ Source' = Source /\ Source \in Places
      BY <1>0, <3>2, PlacesDiffer DEF Intents, Source
    <3>4. losses = 0 /\ disk'[In(f)] = c /\ \A p \in Places \ {In(f)} : disk'[p] = disk[p]
      BY <3>1, <3>2, <3>3
    <3>5. ASSUME NEW v \in owed'
          PROVE  Kept(v)'
      <4>1. CASE v = c
        BY <3>3, <3>4, <4>1 DEF Kept
      <4>2. CASE v # c
        <5>1. Kept(v) /\ v # disk[In(f)]
          BY <3>2, <3>4, <4>2
        <5>2. QED
          BY <3>2, <3>3, <5>1, PutKeeps
      <4>3. QED
        BY <4>1, <4>2
    <3>6. ASSUME NEW p \in Places, BeingRemoved(p), disk'[p] \in owed',
                 disk[p] \in owed => Elsewhere(disk[p], p)
          PROVE  Elsewhere(disk[p], p)'
      <4>1. CASE p = In(f)
        <5>1. disk'[p] \in owed /\ disk'[p] = c
          BY <3>2, <3>4, <3>6, <4>1
        <5>2. Kept(c)
          BY <3>4, <5>1
        <5>3. QED
          BY <3>2, <3>4, <4>1, <5>1, <5>2 DEF Kept, Elsewhere
      <4>2. CASE p # In(f) /\ disk[p] = c
        BY <3>3, <3>4, <4>2 DEF Elsewhere
      <4>3. CASE p # In(f) /\ disk[p] # c
        <5>1. disk'[p] = disk[p] /\ disk[p] \in owed /\ disk[p] # disk[In(f)]
          BY <3>2, <3>4, <3>6, <4>3
        <5>2. Elsewhere(disk[p], p)
          BY <3>6, <5>1
        <5>3. QED
          BY <3>2, <3>4, <5>1, <5>2 DEF Elsewhere
      <4>4. QED
        BY <4>1, <4>2, <4>3
    <3>7. pc = "unlink" => BeingRemoved(Source)
      BY DEF BeingRemoved
    <3>8. pc = "drop" => BeingRemoved(box.from)
      BY DEF BeingRemoved
    <3>9. QED
      BY <3>2, <3>3, <3>4, <3>5, <3>6, <3>7, <3>8
  <2>2. \A n \in Names : Lose(n) => KeptInv'
    BY <1>0, RowFacts, PlacesDiffer DEF Lose, ControlInv, AcceptSteps, WorkInv, Kept,
       Elsewhere, Source
  <2>3. QED
    BY <2>1, <2>2 DEF Person
<1>7. UNCHANGED vars => KeptInv'
  BY DEF vars, Kept, Elsewhere, Source
<1>8. QED
  BY <1>1, <1>2, <1>3, <1>4, <1>5, <1>6, <1>7 DEF Next

-----------------------------------------------------------------------------
(* The quarantine *)

(* Every step keeps an intention for a file without its reason *)
LEMMA ReasonStep ==
    ASSUME TypeOK, ControlInv, QuarantineHasItsReason, [Next]_vars
    PROVE  QuarantineHasItsReason'
<1> USE DEF QuarantineHasItsReason, TypeOK, At, Goto, Back, Put, NextLoop, thread, bounds
<1>1. Ingest => QuarantineHasItsReason'
  <2>1. \A f \in Files : Read(f) => QuarantineHasItsReason'
    BY DEF Read
  <2>2. Refuse => QuarantineHasItsReason'
    BY DEF Refuse
  <2>3. Accept => QuarantineHasItsReason'
    BY DEF Accept
  <2>4. StagingConflict => QuarantineHasItsReason'
    BY DEF StagingConflict, StagingMatches
  <2>5. StagingFound => QuarantineHasItsReason'
    BY DEF StagingFound, StagingMatches
  <2>6. StartStaging => QuarantineHasItsReason'
    BY DEF StartStaging
  <2>7. EndStaging => QuarantineHasItsReason'
    BY DEF EndStaging
  <2>8. StagingFails => QuarantineHasItsReason'
    BY DEF StagingFails
  <2>9. InsertStaged => QuarantineHasItsReason'
    BY DEF InsertStaged
  <2>10. MoveToProcessing => QuarantineHasItsReason'
    BY DEF MoveToProcessing, Move
  <2>11. MarkPending => QuarantineHasItsReason'
    BY DEF MarkPending
  <2>12. Retire => QuarantineHasItsReason'
    BY DEF Retire, Unchanged, SourceGone, MayRetire
  <2>13. Unlink => QuarantineHasItsReason'
    BY DEF Unlink, SourceGone
  <2>14. NothingToRetire => QuarantineHasItsReason'
    BY DEF NothingToRetire, SourceGone
  <2>15. KeepChanged => QuarantineHasItsReason'
    BY DEF KeepChanged, NotRetired, Unchanged, SourceGone, MayRetire
  <2>16. Enrich => QuarantineHasItsReason'
    BY DEF Enrich
  <2>17. QED
    BY <2>1, <2>2, <2>3, <2>4, <2>5, <2>6, <2>7, <2>8, <2>9, <2>10, <2>11, <2>12, <2>13,
       <2>14, <2>15, <2>16 DEF Ingest
<1>2. Quarantine => QuarantineHasItsReason'
  <2>1. WriteIntent => QuarantineHasItsReason'
    BY DEF WriteIntent
  <2>2. QuarantineFile => QuarantineHasItsReason'
    <3>1. SUFFICES ASSUME QuarantineFile
                   PROVE  QuarantineHasItsReason'
      OBVIOUS
    <3>2. box \in intents /\ box.slot \in Slots /\ intents' = intents /\ failed' = Moved
      BY <3>1 DEF QuarantineFile, ControlInv, BoxSteps, Intents
    <3>3. \A s \in Slots \ {box.slot} : failed'[s] = failed[s]
      BY <3>2 DEF Moved
    <3>4. QED
      BY <3>2, <3>3
  <2>3. DropOriginal => QuarantineHasItsReason'
    BY DEF DropOriginal
  <2>4. AlreadyMoved => QuarantineHasItsReason'
    BY DEF AlreadyMoved
  <2>5. NothingToMove => QuarantineHasItsReason'
    <3>1. SUFFICES ASSUME NothingToMove
                   PROVE  QuarantineHasItsReason'
      OBVIOUS
    <3>2. /\ failed[box.slot].file = NoFile /\ failed' = failed
          /\ intents' = intents \/ intents' = intents \ {box}
      BY <3>1 DEF NothingToMove
    <3>3. QED
      BY <3>2
  <2>6. WriteSidecar => QuarantineHasItsReason'
    <3>1. SUFFICES ASSUME WriteSidecar
                   PROVE  QuarantineHasItsReason'
      OBVIOUS
    <3>2. box.slot \in Slots /\ intents' = intents /\ failed' = AfterSidecar
      BY <3>1 DEF WriteSidecar, Intents
    <3>3. /\ failed'[box.slot].reason
          /\ \A s \in Slots \ {box.slot} : failed'[s] = failed[s]
      BY <3>2 DEF AfterSidecar
    <3>4. QED
      BY <3>2, <3>3
  <2>7. RemoveIntent => QuarantineHasItsReason'
    <3>1. SUFFICES ASSUME RemoveIntent
                   PROVE  QuarantineHasItsReason'
      OBVIOUS
    <3>2. failed[box.slot].reason /\ intents' = intents \ {box} /\ failed' = failed
      BY <3>1 DEF RemoveIntent, ControlInv
    <3>3. QED
      BY <3>2
  <2>8. QED
    BY <2>1, <2>2, <2>3, <2>4, <2>5, <2>6, <2>7 DEF Quarantine
<1>3. Recover => QuarantineHasItsReason'
  <2>1. RecoverQuarantine => QuarantineHasItsReason'
    BY DEF RecoverQuarantine
  <2>2. QuarantinesRecovered => QuarantineHasItsReason'
    BY DEF QuarantinesRecovered
  <2>3. Resume => QuarantineHasItsReason'
    BY DEF Resume, Recovering
  <2>4. Fail => QuarantineHasItsReason'
    BY DEF Fail, Recovering
  <2>5. StartRewrite => QuarantineHasItsReason'
    BY DEF StartRewrite, Rewritten
  <2>6. EndRewrite => QuarantineHasItsReason'
    BY DEF EndRewrite, Rewritten
  <2>7. RowsRecovered => QuarantineHasItsReason'
    BY DEF RowsRecovered, Recovering
  <2>8. Adopt => QuarantineHasItsReason'
    BY DEF Adopt, Adoptable
  <2>9. SettleStaging => QuarantineHasItsReason'
    BY DEF SettleStaging, Unchanged, Adoptable
  <2>10. Start => QuarantineHasItsReason'
    BY DEF Start
  <2>11. QED
    BY <2>1, <2>2, <2>3, <2>4, <2>5, <2>6, <2>7, <2>8, <2>9, <2>10 DEF Recover
<1>4. Crash => QuarantineHasItsReason'
  BY DEF Crash
<1>5. Take => QuarantineHasItsReason'
  BY DEF Take
<1>6. Person => QuarantineHasItsReason'
  <2>1. \A f \in Files, c \in Documents \cup {Broken, NoFile} : Drop(f, c) => QuarantineHasItsReason'
    BY DEF Drop
  <2>2. \A n \in Names : Lose(n) => QuarantineHasItsReason'
    BY DEF Lose
  <2>3. QED
    BY <2>1, <2>2 DEF Person
<1>7. UNCHANGED vars => QuarantineHasItsReason'
  BY DEF vars
<1>8. QED
  BY <1>1, <1>2, <1>3, <1>4, <1>5, <1>6, <1>7 DEF Next

-----------------------------------------------------------------------------
(* The results *)

(* The invariant holds at the start, and every step keeps it *)
LEMMA InitIInv == Init => IInv
<1>1. SUFFICES ASSUME Init
               PROVE  IInv
  OBVIOUS
<1>2. /\ \A p \in Places : disk[p] = NoFile
      /\ \A s \in Slots : failed[s] = [file |-> NoFile, reason |-> FALSE]
      /\ intents = {} /\ owed = {} /\ row = NoRow /\ row.status = "none" /\ row.hash = NoFile
      /\ pc = "idle" /\ boot = 0 /\ box.from = Part /\ drops + faults = 0
  BY <1>1 DEF Init, NoRow
<1>3. TypeOK
  <2>1. 1 \in Slots /\ Part \in Places
    BY BoundsAssumption, PlacesDiffer DEF Slots
  <2>2. NoFile \in Contents /\ Id \in Names /\ NoRow \in Rows
    BY DEF Contents, Names, Rows
  <2>3. QED
    BY <1>1, <2>1, <2>2, BoundsAssumption DEF Init, TypeOK, Steps, Intents
<1>4. ControlInv
  BY <1>2, PlacesDiffer DEF ControlInv, AcceptSteps, BoxSteps
<1>5. OrderInv
  BY <1>2 DEF OrderInv, BoxSteps
<1>6. RoomInv
  <2>1. Used = {}
    BY <1>2 DEF Used
  <2>2. Due = {}
    BY <1>2, PlacesDiffer DEF Due, MayBeRefused
  <2>3. QED
    BY <1>2, <2>1, <2>2, FS_EmptySet DEF RoomInv
<1>7. WorkInv
  BY <1>2, PlacesDiffer DEF WorkInv
<1>8. KeptInv
  BY <1>2 DEF KeptInv
<1>9. QuarantineHasItsReason
  BY <1>2 DEF QuarantineHasItsReason
<1>10. QED
  BY <1>3, <1>4, <1>5, <1>6, <1>7, <1>8, <1>9 DEF IInv

LEMMA NextIInv == IInv /\ [Next]_vars => IInv'
BY TypesStep, ControlStep, OrderStep, RoomStep, WorkStep, KeptStep, ReasonStep DEF IInv

LEMMA AlwaysIInv == Spec => []IInv
BY InitIInv, NextIInv, PTL DEF Spec

(* What the person left in the inbox and did not rewrite is in the inbox, in a copy *)
(* or in failed/, whatever crashes, refusals and recoveries happen                   *)
THEOREM DocumentsAreKept == Spec => []OriginalIsKept
<1>1. IInv => OriginalIsKept
  BY DEF IInv, KeptInv, OriginalIsKept
<1>2. QED
  BY <1>1, AlwaysIInv, PTL

(* A document the Broker's worker may take has its file in processing/, with the     *)
(* content of the row (insert_staged, os.replace, mark_pending, in this order)       *)
THEOREM PendingFileIsThere == Spec => []PendingHasItsFile
<1>1. IInv => PendingHasItsFile
  BY DEF IInv, WorkInv, PendingHasItsFile
<1>2. QED
  BY <1>1, AlwaysIInv, PTL

(* The types, and the reason of every refused file: it is there, or an intention     *)
(* with which the next start writes it                                               *)
THEOREM FoldersStaySound == Spec => []FoldersAreSound
<1>1. IInv => FoldersAreSound
  BY DEF IInv, FoldersAreSound
<1>2. QED
  BY <1>1, AlwaysIInv, PTL

-----------------------------------------------------------------------------
(* The monitored sources and the imports of the window                            *)

Letters == {"none", "ours", "edited"}

(* The watcher and the file it has in hand, which may be edited under it but is *)
(* never missing; a row of a key comes before the removal of its file           *)
EntryInv ==
    /\ inbox \in [Keys -> Letters] /\ rows \in [Deliverers -> SUBSET Keys]
    /\ watcher \in [key : Keys \cup {NoKey}, text : Letters, inserted : BOOLEAN]
    /\ watcher # Idle =>
        /\ watcher.key \in Keys /\ watcher.text # "none"
        /\ inbox[watcher.key] \in {watcher.text, "edited"}
        /\ watcher.inserted => watcher.key \in entered
        /\ ~watcher.inserted /\ watcher.text = "ours" => watcher.key \notin entered
    /\ \A k \in entered \cap Keys : inbox[k] = "ours" =>
        watcher.key = k /\ watcher.inserted /\ watcher.text = "ours"
    /\ repeated = {}

-----------------------------------------------------------------------------
(* The entry of the documents                                                     *)

LEMMA KeysAreNumbers == Keys \subseteq Nat /\ NoKey \notin Keys /\ Client \in Nat
BY SourcesAssumption DEF Keys, Client, NoKey

entryVars == <<inbox, rows, watcher, entered, repeated>>

LEMMA EntryUnchanged == ASSUME EntryInv, UNCHANGED entryVars PROVE EntryInv'
BY DEF EntryInv, entryVars, Idle

(* The steps that only read rows, or forget them                                  *)
LEMMA EntryRows ==
    ASSUME EntryInv, rows' \in [Deliverers -> SUBSET Keys],
           UNCHANGED <<inbox, watcher, entered, repeated>>
    PROVE  EntryInv'
BY DEF EntryInv, Idle

LEMMA EntryRead == ASSUME EntryInv, NEW d \in Deliverers, PendingRead(d) PROVE EntryInv'
<1>1. rows' \in [Deliverers -> SUBSET Keys]
  BY DEF EntryInv, PendingRead
<1>2. UNCHANGED <<inbox, watcher, entered, repeated>>
  BY DEF PendingRead
<1>3. QED BY <1>1, <1>2, EntryRows

(* A file is written only for a key that is not in, where there is none           *)
LEMMA EntryWritten ==
    ASSUME EntryInv, NEW k \in Keys, Written(k) \/ inbox' = inbox,
           rows' \in [Deliverers -> SUBSET Keys], UNCHANGED <<watcher, entered, repeated>>
    PROVE  EntryInv'
<1>1. CASE inbox' = inbox
  BY <1>1, EntryRows
<1>2. CASE Written(k)
  <2>1. inbox' \in [Keys -> Letters]
    BY <1>2 DEF EntryInv, Written, Letters
  <2>2. \A j \in Keys : inbox'[j] = inbox[j] \/ (j \notin entered /\ inbox[j] = "none")
    BY <1>2 DEF EntryInv, Written, NeedsFile
  <2>3. watcher # Idle => inbox'[watcher.key] = inbox[watcher.key]
    BY <2>2 DEF EntryInv
  <2>4. QED BY <2>1, <2>2, <2>3 DEF EntryInv, Idle
<1>3. QED BY <1>1, <1>2

LEMMA EntryDelivery ==
    ASSUME EntryInv, NEW d \in Deliverers, NEW k \in rows[d], Deliver(d, k) \/ DeliverBreaks(d, k)
    PROVE  EntryInv'
<1>1. k \in Keys
  BY DEF EntryInv
<1>2. rows' \in [Deliverers -> SUBSET Keys]
  BY DEF EntryInv, Deliver, DeliverBreaks
<1>3. Written(k) \/ inbox' = inbox
  BY DEF Deliver, DeliverBreaks
<1>4. UNCHANGED <<watcher, entered, repeated>>
  BY DEF Deliver, DeliverBreaks
<1>5. QED BY <1>1, <1>2, <1>3, <1>4, EntryWritten

LEMMA EntryEdit == ASSUME EntryInv, NEW k \in Keys, EditFile(k) PROVE EntryInv'
<1>1. inbox' = [inbox EXCEPT ![k] = "edited"] /\ UNCHANGED <<rows, watcher, entered, repeated>>
  BY DEF EditFile
<1>2. inbox' \in [Keys -> Letters] /\ \A j \in Keys : inbox'[j] = inbox[j] \/ inbox'[j] = "edited"
  BY <1>1 DEF EntryInv, Letters
<1>3. QED BY <1>1, <1>2 DEF EntryInv, Idle

(* The watcher                                                                    *)
LEMMA EntryTaken == ASSUME EntryInv, NEW k \in Keys, WatcherReads(k) PROVE EntryInv'
<1>1. watcher' = [key |-> k, text |-> inbox[k], inserted |-> FALSE]
      /\ UNCHANGED <<inbox, rows, entered, repeated>>
  BY DEF WatcherReads
<1>2. watcher = Idle /\ inbox[k] # "none" /\ inbox[k] \in Letters
  BY DEF WatcherReads, EntryInv
<1>3. \A j \in entered \cap Keys : inbox[j] # "ours"
  BY <1>2 DEF EntryInv, Idle
<1>4. QED BY <1>1, <1>2, <1>3 DEF EntryInv, Idle, Letters

LEMMA EntryInserted == ASSUME EntryInv, WatcherInserts PROVE EntryInv'
<1>1. watcher' = [watcher EXCEPT !.inserted = TRUE] /\ entered' = entered \cup {watcher.key}
      /\ UNCHANGED <<inbox, rows, repeated>>
  BY DEF WatcherInserts
<1>2. watcher # Idle /\ ~watcher.inserted /\ watcher.key \notin entered
  BY DEF WatcherInserts
<1>3. watcher' \in [key : Keys \cup {NoKey}, text : Letters, inserted : BOOLEAN]
      /\ watcher'.key = watcher.key /\ watcher'.text = watcher.text /\ watcher'.inserted
  BY <1>1 DEF EntryInv
<1>4. \A j \in entered \cap Keys : inbox[j] # "ours"
  BY <1>2 DEF EntryInv
<1>5. inbox[watcher.key] = "ours" => watcher.text = "ours"
  BY <1>2 DEF EntryInv, Letters
<1>6. QED BY <1>1, <1>2, <1>3, <1>4, <1>5 DEF EntryInv, Idle

(* The watcher lets go of a file, or the process dies and the next start does     *)
LEMMA EntryLetGo ==
    ASSUME EntryInv, watcher' = Idle, inbox' = Retired \/ (watcher = Idle /\ inbox' = inbox),
           rows' \in [Deliverers -> SUBSET Keys], UNCHANGED <<entered, repeated>>
    PROVE  EntryInv'
<1>1. Idle \in [key : Keys \cup {NoKey}, text : Letters, inserted : BOOLEAN]
  BY DEF Idle, Letters
<1>2. inbox' \in [Keys -> Letters]
  BY DEF EntryInv, Retired, Gone, Letters
<1>3. \A k \in entered \cap Keys : inbox'[k] # "ours"
  <2>1. SUFFICES ASSUME NEW k \in entered \cap Keys, inbox[k] = "ours" PROVE inbox'[k] # "ours"
    BY DEF EntryInv, Retired, Gone, Letters
  <2>2. watcher.key = k /\ watcher.inserted /\ watcher.text = "ours"
    BY <2>1 DEF EntryInv
  <2>3. watcher # Idle
    BY <2>2 DEF Idle
  <2>4. QED BY <2>1, <2>2, <2>3 DEF Retired, Gone, EntryInv
<1>4. QED BY <1>1, <1>2, <1>3 DEF EntryInv

LEMMA EntryRetired == ASSUME EntryInv, WatcherRetires PROVE EntryInv'
<1>1. watcher' = Idle /\ inbox' = Retired /\ UNCHANGED <<rows, entered, repeated>>
  BY DEF WatcherRetires
<1>2. rows' \in [Deliverers -> SUBSET Keys]
  BY <1>1 DEF EntryInv
<1>3. QED BY <1>1, <1>2, EntryLetGo

LEMMA EntryCrash == ASSUME EntryInv, SourcesCrash PROVE EntryInv'
<1>1. watcher' = Idle /\ (inbox' = Retired \/ (watcher = Idle /\ inbox' = inbox)) /\ UNCHANGED <<entered, repeated>>
  BY DEF SourcesCrash
<1>2. rows' \in [Deliverers -> SUBSET Keys]
  BY DEF SourcesCrash
<1>3. QED BY <1>1, <1>2, EntryLetGo

(* What is refused as a copy is not the program's own                             *)
LEMMA EntryRefused == ASSUME EntryInv, WatcherRefuses PROVE EntryInv'
<1>1. watcher # Idle /\ ~watcher.inserted /\ watcher.key \in entered
  BY DEF WatcherRefuses
<1>2. watcher.text # "ours"
  BY <1>1 DEF EntryInv
<1>3. repeated' = repeated /\ watcher' = Idle /\ inbox' = Gone(watcher.key) /\ UNCHANGED <<rows, entered>>
  BY <1>2 DEF WatcherRefuses
<1>4. Idle \in [key : Keys \cup {NoKey}, text : Letters, inserted : BOOLEAN]
  BY DEF Idle, Letters
<1>5. inbox' \in [Keys -> Letters] /\ \A k \in Keys : inbox'[k] = inbox[k] \/ inbox'[k] = "none"
  BY <1>3 DEF EntryInv, Gone, Letters
<1>6. \A k \in entered \cap Keys : inbox[k] # "ours"
  BY <1>1 DEF EntryInv
<1>7. QED BY <1>3, <1>4, <1>5, <1>6 DEF EntryInv

LEMMA EntryOthers ==
    ASSUME EntryInv,
           \/ ReadyRead \/ Delivered \/ ClientCreate
           \/ \E k \in ready.read : CreateForChange(k)
           \/ \E k \in DOMAIN changes : RetryDue(k) \/ DeliveryFailed(k) \/ QueueIngestion(k)
    PROVE  EntryInv'
<1>1. UNCHANGED entryVars
  BY DEF entryVars, ReadyRead, Delivered, ClientCreate, CreateForChange, RetryDue, DeliveryFailed,
         QueueIngestion, delivery
<1>2. QED BY <1>1, EntryUnchanged

LEMMA EntryWatching == ASSUME EntryInv, Watching PROVE EntryInv'
<1>1. CASE SourcesCrash
  BY <1>1, EntryCrash
<1>2. CASE ~SourcesCrash
  <2>1. UNCHANGED entryVars
    BY <1>2 DEF entryVars, Watching, Checking, LeaseDue, Fetch, Finish, RequestCheck, LeaseLapses, CheckLost,
         SiteChanges, Update, delivery
  <2>2. QED BY <2>1, EntryUnchanged
<1>3. QED BY <1>1, <1>2

LEMMA EntryIngesting == ASSUME EntryInv, Ingesting PROVE EntryInv'
BY EntryOthers, EntryRead, EntryDelivery, EntryEdit, EntryTaken, EntryInserted, EntryRetired, EntryRefused,
   EntryCrash DEF Ingesting, Delivering, Taking

LEMMA EntryInit == ScenesInit => EntryInv
BY KeysAreNumbers DEF ScenesInit, SourcesInit, EntryInv, Idle, Letters

LEMMA EntryNext == EntryInv /\ [ScenesNext]_allVars => EntryInv'
<1> SUFFICES ASSUME EntryInv, [ScenesNext]_allVars PROVE EntryInv'
  OBVIOUS
<1>1. CASE Checks /\ Watching
  BY <1>1, EntryWatching
<1>2. CASE Delivery /\ Ingesting
  BY <1>2, EntryIngesting
<1>3. CASE UNCHANGED entryVars
  BY <1>3, EntryUnchanged
<1>4. Folders \/ Importing \/ UNCHANGED allVars => UNCHANGED entryVars
  BY DEF Folders, Importing, Scene, allVars, sourceVars, entryVars
<1>5. QED BY <1>1, <1>2, <1>3, <1>4 DEF ScenesNext

(* The program never leaves in the inbox a document that is already in, which the  *)
(* watcher would refuse as a copy of itself: whatever crashes and failed commits   *)
(* there are between the file and the rows, and with two threads that deliver      *)
(* (deliver_pending, IngestionWorker)                                              *)
THEOREM NoDocumentEntersTwice == ScenesSpec => []DocumentsEnterOnce
<1>1. EntryInv => DocumentsEnterOnce
  BY DEF EntryInv, DocumentsEnterOnce
<1>2. QED BY <1>1, EntryInit, EntryNext, PTL DEF ScenesSpec

-----------------------------------------------------------------------------
(* The checks of a page                                                           *)
Versions == Locations \X Nat
SourceRows == [on : BOOLEAN, loc : Locations, policy : Policies, rev : Nat, due : BOOLEAN,
               etag : Versions \cup {NoVersion}, seen : Versions \cup {NoVersion}, check : Nat,
               lease : {"none", "held", "past"}]
CheckRows == [id : Nat \ {NoCheck}, rev : Nat, loc : Locations, etag : Versions \cup {NoVersion},
              answer : Versions \cup {Answers.none, Answers.error, Answers.same}]

(* The validator is of what is known, which the page has shown; no two checks     *)
(* have an identity, and one in time was asked after what is known was found      *)
PageTypes ==
    /\ site \in [Locations -> Nat] /\ source \in SourceRows
    /\ IsFiniteSet(checks) /\ checks \subseteq CheckRows
KnownOfThePage ==
    /\ source.etag \in {NoVersion, source.seen}
    /\ source.seen # NoVersion => source.seen[1] = source.loc /\ source.seen[2] <= site[source.loc]
OfTheSource(c) == c.rev <= source.rev /\ (c.rev = source.rev => c.loc = source.loc)
AnswersInOrder(c) ==
    c.answer \in Versions =>
        /\ c.answer[1] = c.loc /\ c.answer[2] <= site[c.loc]
        /\ c.id = source.check /\ c.rev = source.rev /\ source.seen # NoVersion =>
             source.seen[2] <= c.answer[2]
OwnIdentities == \A c, d \in checks : c.id = d.id => c = d
PageInv == PageTypes /\ KnownOfThePage /\ OwnIdentities
           /\ \A c \in checks : OfTheSource(c) /\ AnswersInOrder(c)

pageVars == <<site, source, checks>>

LEMMA VersionsDiffer ==
    /\ NoVersion \notin Versions /\ Answers.none \notin Versions
    /\ Answers.error \notin Versions /\ Answers.same \notin Versions
    /\ Answers.error # Answers.none /\ Answers.same # Answers.none
<1>1. \A v \in Versions : Len(v) = 2
  BY DEF Versions
<1>2. Len(<<>>) = 0 /\ Len(<<"error">>) = 1 /\ Len(<<"not modified">>) = 1
  OBVIOUS
<1>3. Answers.none = <<>> /\ Answers.error = <<"error">> /\ Answers.same = <<"not modified">>
  BY DEF Answers
<1>4. Len(Answers.none) = 0 /\ Len(Answers.error) = 1 /\ Len(Answers.same) = 1 /\ Len(NoVersion) = 0
  BY <1>2, <1>3 DEF NoVersion
<1>5. \A v : v \in Versions => Len(v) # 0 /\ Len(v) # 1
  BY <1>1
<1>6. Len(Answers.error) # Len(Answers.none) /\ Len(Answers.same) # Len(Answers.none)
  BY <1>4
<1>7. QED BY <1>4, <1>5, <1>6, Zenon

LEMMA VersionIsShown ==
    ASSUME PageTypes, NEW l \in Locations
    PROVE  Version(l) \in Versions /\ Version(l)[1] = l /\ Version(l)[2] = site[l]
BY DEF PageTypes, Versions, Version

LEMMA PageUnchanged == ASSUME PageInv, UNCHANGED pageVars PROVE PageInv'
BY DEF PageInv, pageVars, PageTypes, KnownOfThePage, OfTheSource, AnswersInOrder, OwnIdentities

LEMMA PageInit == ScenesInit => PageInv
<1> SUFFICES ASSUME SourcesInit PROVE PageInv
  BY DEF ScenesInit
<1>1. site \in [Locations -> Nat] /\ checks = {} /\ IsFiniteSet(checks)
  BY FS_EmptySet DEF SourcesInit
<1>2. PICK l \in Locations, policy \in Policies :
        source = [on |-> TRUE, loc |-> l, policy |-> policy, rev |-> 1, due |-> TRUE,
                  etag |-> NoVersion, seen |-> NoVersion, check |-> NoCheck, lease |-> "none"]
  BY DEF SourcesInit
<1>3. source \in SourceRows /\ source.etag = NoVersion /\ source.seen = NoVersion
  BY <1>2 DEF SourceRows, NoCheck
<1>4. QED BY <1>1, <1>3 DEF PageInv, PageTypes, KnownOfThePage, OwnIdentities

(* A page shows a newer version                                                   *)
LEMMA PageSite == ASSUME PageInv, NEW l \in Locations, SiteChanges(l) PROVE PageInv'
<1>1. site' = [site EXCEPT ![l] = @ + 1] /\ source' = source /\ checks' = checks
  BY DEF SiteChanges
<1>2. site' \in [Locations -> Nat] /\ \A m \in Locations : site[m] <= site'[m] /\ site[m] \in Nat /\ site'[m] \in Nat
  BY <1>1 DEF PageInv, PageTypes
<1>3. source.loc \in Locations /\ (source.seen # NoVersion => source.seen[2] \in Nat)
  BY DEF PageInv, PageTypes, SourceRows, Versions
<1>4. \A c \in checks : c.loc \in Locations /\ (c.answer \in Versions => c.answer[2] \in Nat)
  BY DEF PageInv, PageTypes, CheckRows, Versions
<1>5. KnownOfThePage'
  BY <1>1, <1>2, <1>3 DEF PageInv, KnownOfThePage
<1>6. \A c \in checks' : OfTheSource(c)' /\ AnswersInOrder(c)'
  BY <1>1, <1>2, <1>4 DEF PageInv, OfTheSource, AnswersInOrder
<1>7. QED BY <1>1, <1>2, <1>5, <1>6 DEF PageInv, PageTypes, OwnIdentities

(* A step of the source that leaves what is known, or forgets it, and gives no    *)
(* check the turn                                                                 *)
LEMMA PageSource ==
    ASSUME PageInv, site' = site, checks' \subseteq checks, source' \in SourceRows,
           source'.rev >= source.rev, source'.rev = source.rev => source'.loc = source.loc,
           source'.loc = source.loc \/ source'.seen = NoVersion,
           source'.seen \in {NoVersion, source.seen}, source'.etag = NoVersion \/
               (source'.etag = source.etag /\ source'.seen = source.seen),
           source'.check \in {NoCheck, source.check}
    PROVE  PageInv'
<1>1. source \in SourceRows /\ checks \subseteq CheckRows /\ IsFiniteSet(checks)
  BY DEF PageInv, PageTypes
<1>2. PageTypes'
  BY <1>1, FS_Subset DEF PageInv, PageTypes
<1>3. KnownOfThePage'
  BY DEF PageInv, KnownOfThePage
<1>4. ASSUME NEW c \in checks' PROVE OfTheSource(c)' /\ AnswersInOrder(c)'
  <2>1. c \in checks /\ c.rev \in Nat /\ c.id # NoCheck /\ source.rev \in Nat /\ source'.rev \in Nat
    BY <1>1, <1>4 DEF CheckRows, SourceRows
  <2>2. OfTheSource(c) /\ AnswersInOrder(c)
    BY <2>1 DEF PageInv
  <2>3. OfTheSource(c)'
    BY <2>1, <2>2 DEF OfTheSource
  <2>4. c.rev = source'.rev => c.rev = source.rev
    BY <2>1, <2>2 DEF OfTheSource
  <2>5. AnswersInOrder(c)'
    BY <2>1, <2>2, <2>4 DEF AnswersInOrder
  <2>6. QED BY <2>3, <2>5
<1>5. OwnIdentities'
  BY DEF PageInv, OwnIdentities
<1>6. QED BY <1>2, <1>3, <1>4, <1>5 DEF PageInv

LEMMA PageUpdate ==
    ASSUME PageInv, NEW on \in BOOLEAN, NEW l \in Locations, NEW policy \in Policies,
           Update(on, l, policy)
    PROVE  PageInv'
<1>1. source' = Configured(on, l, policy) /\ site' = site /\ checks' = checks
  BY DEF Update, network
<1>2. source \in SourceRows
  BY DEF PageInv, PageTypes
<1>3. source' \in SourceRows /\ source'.rev = source.rev + 1 /\ source'.etag = NoVersion
      /\ source'.loc = l /\ source'.seen = (IF l = source.loc THEN source.seen ELSE NoVersion)
      /\ source'.check = NoCheck
  <2>1. (IF l = source.loc THEN source.seen ELSE NoVersion) \in Versions \cup {NoVersion}
    BY <1>2 DEF SourceRows
  <2>2. source.rev + 1 \in Nat /\ NoCheck \in Nat
    BY <1>2 DEF SourceRows, NoCheck
  <2>3. PICK seen \in Versions \cup {NoVersion}, rev \in Nat :
          /\ seen = (IF l = source.loc THEN source.seen ELSE NoVersion) /\ rev = source.rev + 1
          /\ source' = [source EXCEPT !.on = on, !.loc = l, !.policy = policy, !.rev = rev, !.due = TRUE,
                          !.etag = NoVersion, !.check = NoCheck, !.lease = "none", !.seen = seen]
    BY <1>1, <1>2, <2>1, <2>2 DEF Configured, SourceRows
  <2>4. QED BY <1>2, <2>2, <2>3 DEF SourceRows
<1>4. source.rev \in Nat
  BY <1>2 DEF SourceRows
<1>5. source'.rev >= source.rev /\ source'.rev # source.rev
  BY <1>3, <1>4
<1>6. QED BY <1>1, <1>3, <1>5, PageSource

(* The lease                                                                      *)
LEMMA PageLapse == ASSUME PageInv, RequestCheck \/ LeaseLapses PROVE PageInv'
<1>1. source \in SourceRows
  BY DEF PageInv, PageTypes
<1>2. site' = site /\ checks' = checks
  BY DEF RequestCheck, LeaseLapses, network
<1>3. \/ source' = [source EXCEPT !.due = TRUE]
      \/ source' = [source EXCEPT !.lease = "past"]
  BY DEF RequestCheck, LeaseLapses
<1>4. source' \in SourceRows
  BY <1>1, <1>3 DEF SourceRows
<1>5. /\ source'.rev = source.rev /\ source'.loc = source.loc /\ source'.seen = source.seen
      /\ source'.etag = source.etag /\ source'.check = source.check /\ source.rev \in Nat
  BY <1>1, <1>3 DEF SourceRows
<1>6. source'.rev >= source.rev
  BY <1>5
<1>7. QED BY <1>2, <1>4, <1>5, <1>6, PageSource

(* There is an identity no check has, and that is not the one of the lease        *)
LEMMA FreeIdIsFree ==
    ASSUME PageInv, Cardinality(checks) < MaxChecks
    PROVE  FreeId \in Nat \ {NoCheck} /\ FreeId # source.check /\ \A c \in checks : c.id # FreeId
<1> DEFINE Ids == {c.id : c \in checks}
           All == 1..(MaxChecks + 1)
           Ident == [c \in checks |-> c.id]
<1>1. MaxChecks \in Nat /\ IsFiniteSet(checks) /\ Cardinality(checks) \in Nat
  BY SourcesAssumption, FS_CardinalityType DEF PageInv, PageTypes
<1>2. Ident \in Surjection(checks, Ids)
  BY DEF Surjection
<1>3. IsFiniteSet(Ids) /\ Cardinality(Ids) <= Cardinality(checks)
  <2>1. QED BY <1>1, <1>2, FS_Surjection
<1>4. Cardinality(Ids) \in Nat
  BY <1>3, FS_CardinalityType
<1> HIDE DEF Ids
<1>5. IsFiniteSet(Ids \cup {source.check}) /\ Cardinality(Ids \cup {source.check}) <= Cardinality(Ids) + 1
  <2>1. IsFiniteSet(Ids \cup {source.check}) /\ Cardinality(Ids \cup {source.check}) =
          IF source.check \in Ids THEN Cardinality(Ids) ELSE Cardinality(Ids) + 1
    BY <1>3, FS_AddElement
  <2>2. QED BY <1>4, <2>1
<1>6. Cardinality(Ids \cup {source.check}) \in Nat
  BY <1>5, FS_CardinalityType
<1>7. IsFiniteSet(All) /\ Cardinality(All) = MaxChecks + 1
  BY <1>1, FS_Interval
<1>8. ~(All \subseteq Ids \cup {source.check})
  <2>1. SUFFICES ASSUME All \subseteq Ids \cup {source.check} PROVE FALSE
    OBVIOUS
  <2>2. Cardinality(All) <= Cardinality(Ids \cup {source.check})
    BY <1>5, <2>1, FS_Subset
  <2> HIDE DEF Ids, All
  <2>3. QED BY <1>1, <1>3, <1>4, <1>5, <1>6, <1>7, <2>2
<1> USE DEF Ids
<1>9. \E i \in 1..(MaxChecks + 1) : i # source.check /\ \A c \in checks : c.id # i
  BY <1>8
<1>10. FreeId \in 1..(MaxChecks + 1) /\ FreeId # source.check /\ \A c \in checks : c.id # FreeId
  BY <1>9 DEF FreeId
<1>11. QED BY <1>1, <1>10 DEF NoCheck

LEMMA PageLease == ASSUME PageInv, LeaseDue PROVE PageInv'
<1>1. source \in SourceRows /\ site' = site
  BY DEF PageInv, PageTypes, LeaseDue
<1>2. /\ Recovered \in SourceRows /\ Recovered.rev = source.rev /\ Recovered.loc = source.loc
      /\ Recovered.seen = source.seen /\ Recovered.etag = source.etag
      /\ Recovered.check \in {NoCheck, source.check} /\ source.rev \in Nat
  BY <1>1 DEF Recovered, SourceRows, NoCheck
<1>3. CASE ~Leasable(Recovered)
  <2>1. source' = Recovered /\ checks' = checks
    BY <1>3 DEF LeaseDue
  <2>2. source'.rev >= source.rev
    BY <1>2, <2>1
  <2>3. QED BY <1>1, <1>2, <2>1, <2>2, PageSource
<1>4. CASE Leasable(Recovered)
  <2>0. PICK new : new = [id |-> FreeId, rev |-> source.rev, loc |-> source.loc,
                          etag |-> source.etag, answer |-> Answers.none]
    OBVIOUS
  <2>1. source' = [Recovered EXCEPT !.check = FreeId, !.lease = "held"] /\ checks' = checks \cup {new}
    BY <1>4, <2>0 DEF LeaseDue
  <2>2. FreeId \in Nat \ {NoCheck} /\ FreeId # source.check /\ \A c \in checks : c.id # FreeId
    BY <1>4, FreeIdIsFree DEF Leasable
  <2>3. /\ source' \in SourceRows /\ source'.rev = source.rev /\ source'.loc = source.loc
        /\ source'.seen = source.seen /\ source'.etag = source.etag /\ source'.check = FreeId
    BY <1>2, <2>1, <2>2 DEF SourceRows
  <2>4. new \in CheckRows /\ new.answer \notin Versions
    BY <1>1, <2>0, <2>2, VersionsDiffer DEF CheckRows, SourceRows
  <2>5. PageTypes'
    BY <1>1, <2>1, <2>3, <2>4, FS_AddElement DEF PageInv, PageTypes
  <2>6. KnownOfThePage'
    BY <1>1, <2>3 DEF PageInv, KnownOfThePage
  <2>7. new.id = FreeId /\ new.rev = source.rev /\ new.loc = source.loc
    BY <2>0
  <2>8. OwnIdentities'
    BY <2>1, <2>2, <2>7 DEF PageInv, OwnIdentities
  <2>9. \A c \in checks : OfTheSource(c)' /\ AnswersInOrder(c)'
    BY <1>1, <2>2, <2>3 DEF PageInv, OfTheSource, AnswersInOrder
  <2>10. OfTheSource(new)' /\ AnswersInOrder(new)'
    BY <1>2, <2>3, <2>4, <2>7 DEF OfTheSource, AnswersInOrder
  <2>11. QED BY <2>1, <2>5, <2>6, <2>8, <2>9, <2>10 DEF PageInv
<1>5. QED BY <1>3, <1>4

(* The answers                                                                    *)
LEMMA PageFetch == ASSUME PageInv, NEW c \in checks, Fetch(c) PROVE PageInv'
<1>1. c \in CheckRows /\ site' = site /\ source' = source /\ IsFiniteSet(checks) /\ checks \subseteq CheckRows
  BY DEF PageInv, PageTypes, Fetch
<1>2. c.loc \in Locations
  BY <1>1 DEF CheckRows
<1>3. PICK answer \in {Version(c.loc), Answers.same, Answers.error} : Answered(c, answer)
  BY DEF Fetch
<1> DEFINE new == [c EXCEPT !.answer = answer]
<1>4. checks' = (checks \ {c}) \cup {new}
  BY <1>3 DEF Answered
<1>5. /\ new \in CheckRows /\ new.id = c.id /\ new.rev = c.rev /\ new.loc = c.loc /\ new.answer = answer
      /\ answer \in Versions => answer[1] = c.loc /\ answer[2] = site[c.loc]
  <2>1. Version(c.loc) \in Versions /\ Version(c.loc)[1] = c.loc /\ Version(c.loc)[2] = site[c.loc]
    BY <1>2, VersionIsShown DEF PageInv
  <2>2. QED BY <1>1, <1>3, <2>1, VersionsDiffer DEF CheckRows
<1> HIDE DEF new
<1>6. PageTypes'
  <2>1. IsFiniteSet(checks \ {c}) BY <1>1, FS_RemoveElement
  <2>2. IsFiniteSet(checks') BY <1>4, <2>1, FS_AddElement
  <2>3. QED BY <1>1, <1>4, <1>5, <2>2 DEF PageInv, PageTypes
<1>7. KnownOfThePage'
  BY <1>1 DEF PageInv, KnownOfThePage
<1>8. OwnIdentities'
  BY <1>4, <1>5 DEF PageInv, OwnIdentities
<1>9. \A d \in checks : OfTheSource(d)' /\ AnswersInOrder(d)'
  BY <1>1 DEF PageInv, OfTheSource, AnswersInOrder
<1>10. OfTheSource(new)'
  BY <1>1, <1>5 DEF PageInv, OfTheSource
<1>11. AnswersInOrder(new)'
  <2>1. site[c.loc] \in Nat
    BY <1>2 DEF PageInv, PageTypes
  <2>2. c.rev = source.rev => source.loc = c.loc
    BY DEF PageInv, OfTheSource
  <2>3. source.seen # NoVersion => source.seen[2] <= site[source.loc]
    BY DEF PageInv, KnownOfThePage
  <2>4. QED BY <1>1, <1>5, <2>1, <2>2, <2>3 DEF AnswersInOrder
<1>12. QED BY <1>4, <1>6, <1>7, <1>8, <1>9, <1>10, <1>11 DEF PageInv

LEMMA PageClosed ==
    ASSUME PageInv
    PROVE  /\ Closed \in SourceRows /\ Closed.rev = source.rev /\ Closed.loc = source.loc
           /\ Closed.seen = source.seen /\ Closed.etag = source.etag /\ Closed.check = NoCheck
BY DEF PageInv, PageTypes, Closed, SourceRows, NoCheck

(* An answer in time with content is of the page, and no older than what is known *)
LEMMA InTimeIsNewer ==
    ASSUME PageInv, NEW c \in checks, InTime(c), c.answer # Answers.none, HasContent(c)
    PROVE  /\ c.answer \in Versions /\ c.answer[1] = source.loc /\ c.answer[2] <= site[source.loc]
           /\ source.seen # NoVersion => source.seen[2] <= c.answer[2]
<1>1. c \in CheckRows
  BY DEF PageInv, PageTypes
<1>2. c.answer \in Versions
  BY <1>1 DEF CheckRows, HasContent
<1>3. c.rev = source.rev /\ c.id = source.check /\ c.loc = source.loc
  BY DEF InTime, PageInv, OfTheSource
<1>4. QED BY <1>2, <1>3 DEF PageInv, AnswersInOrder

(* What finish leaves in the row                                                  *)
LEMMA FinishedRow ==
    ASSUME PageInv, NEW c \in checks, Finish(c), source' # source
    PROVE  /\ source' \in SourceRows /\ source'.rev = source.rev /\ source'.loc = source.loc
           /\ source'.check = NoCheck
           /\ \/ source'.seen = source.seen /\ source'.etag = source.etag
              \/ /\ source'.seen = c.answer /\ source'.etag = c.answer
                 /\ c.answer \in Versions /\ c.answer[1] = source.loc
                 /\ c.answer[2] <= site[source.loc]
                 /\ source.seen # NoVersion => source.seen[2] <= c.answer[2]
<1>1. c.answer # Answers.none /\ InTime(c)
      /\ source' = IF HasContent(c) THEN [Closed EXCEPT !.etag = c.answer, !.seen = c.answer] ELSE Closed
  BY DEF Finish
<1>2. CASE HasContent(c)
  <2>1. source' = [Closed EXCEPT !.etag = c.answer, !.seen = c.answer]
    BY <1>1, <1>2
  <2>2. c.answer \in Versions
    BY <1>1, <1>2, InTimeIsNewer
  <2>3. source' \in SourceRows /\ source'.seen = c.answer /\ source'.etag = c.answer
        /\ source'.rev = Closed.rev /\ source'.loc = Closed.loc /\ source'.check = Closed.check
    BY <2>1, <2>2, PageClosed DEF SourceRows
  <2>4. QED BY <1>1, <1>2, <2>3, PageClosed, InTimeIsNewer
<1>3. CASE ~HasContent(c)
  BY <1>1, <1>3, PageClosed
<1>4. QED BY <1>2, <1>3

LEMMA PageFinish == ASSUME PageInv, NEW c \in checks, Finish(c) \/ CheckLost(c) PROVE PageInv'
<1>1. checks' = checks \ {c} /\ site' = site
  BY DEF Finish, CheckLost
<1>2. source \in SourceRows /\ source.rev \in Nat /\ IsFiniteSet(checks) /\ checks \subseteq CheckRows
  BY DEF PageInv, PageTypes, SourceRows
<1>3. CASE source' = source \/ (source' # source /\ source'.seen = source.seen /\ source'.etag = source.etag)
  <2>1. /\ source' \in SourceRows /\ source'.rev = source.rev /\ source'.loc = source.loc
        /\ source'.seen = source.seen /\ source'.etag = source.etag /\ source'.check \in {NoCheck, source.check}
    BY <1>2, <1>3, FinishedRow DEF CheckLost
  <2>2. source'.rev >= source.rev
    BY <1>2, <2>1
  <2>3. QED BY <1>1, <2>1, <2>2, PageSource
<1>4. CASE source' # source /\ ~(source'.seen = source.seen /\ source'.etag = source.etag)
  <2>1. Finish(c)
    BY <1>4 DEF CheckLost
  <2>2. /\ source' \in SourceRows /\ source'.rev = source.rev /\ source'.loc = source.loc
        /\ source'.check = NoCheck /\ source'.seen = c.answer /\ source'.etag = c.answer
        /\ c.answer[1] = source.loc /\ c.answer[2] <= site[source.loc]
    BY <1>4, <2>1, FinishedRow
  <2>3. PageTypes'
    BY <1>1, <1>2, <2>2, FS_Subset DEF PageInv, PageTypes
  <2>4. KnownOfThePage'
    BY <1>1, <2>2 DEF KnownOfThePage
  <2>5. OwnIdentities'
    BY <1>1 DEF PageInv, OwnIdentities
  <2>6. \A d \in checks' : d.id # source'.check /\ OfTheSource(d)'
    BY <1>1, <1>2, <2>2 DEF PageInv, OfTheSource, CheckRows
  <2>7. \A d \in checks' : AnswersInOrder(d)'
    BY <1>1, <2>6 DEF PageInv, AnswersInOrder
  <2>8. QED BY <2>3, <2>4, <2>5, <2>6, <2>7 DEF PageInv
<1>5. QED BY <1>3, <1>4

LEMMA PageCrash == ASSUME PageInv, SourcesCrash PROVE PageInv'
<1>1. checks' = {} /\ site' = site /\ source' = source /\ IsFiniteSet({})
  BY FS_EmptySet DEF SourcesCrash
<1>2. QED BY <1>1 DEF PageInv, PageTypes, KnownOfThePage, OwnIdentities

LEMMA PageWatching == ASSUME PageInv, Watching PROVE PageInv'
BY PageLease, PageFetch, PageFinish, PageLapse, PageCrash, PageSite, PageUpdate DEF Watching, Checking

LEMMA PageIngesting == ASSUME PageInv, Ingesting PROVE PageInv'
<1>1. SourcesCrash \/ UNCHANGED pageVars
  BY DEF Ingesting, Delivering, Taking, ReadyRead, Delivered, CreateForChange, PendingRead, Deliver,
         WatcherReads, WatcherInserts, WatcherRetires, WatcherRefuses, ClientCreate, RetryDue, DeliveryFailed,
         QueueIngestion, DeliverBreaks, EditFile, pageVars, network
<1>2. QED BY <1>1, PageCrash, PageUnchanged

LEMMA PageNext == PageInv /\ [ScenesNext]_allVars => PageInv'
<1> SUFFICES ASSUME PageInv, [ScenesNext]_allVars PROVE PageInv'
  OBVIOUS
<1>1. CASE Checks /\ Watching
  BY <1>1, PageWatching
<1>2. CASE Delivery /\ Ingesting
  BY <1>2, PageIngesting
<1>3. CASE UNCHANGED pageVars
  BY <1>3, PageUnchanged
<1>4. Folders \/ Importing \/ UNCHANGED allVars => UNCHANGED pageVars
  BY DEF Folders, Importing, Scene, allVars, sourceVars, pageVars
<1>5. QED BY <1>1, <1>2, <1>3, <1>4 DEF ScenesNext

-----------------------------------------------------------------------------
(* The imports of the window                                                      *)
ImportSteps == {"none", "inspecting", "inspected", "asking", "delivering", "copying", "replacing",
                "delivered", "done"}
Findings == [paper : Papers, kind : Kinds, id : Nat]
Stems == {NameOf[p] : p \in Papers} \cup {"manual"}
FileNames == Stems \X Nat
ImportRows == [at : ImportSteps, todo : SUBSET Papers, found : SUBSET Findings,
               item : Papers \cup {0}, name : FileNames \cup {<<>>}]
Captures(id) == [kind |-> "compatible", id |-> id]

ImportTypes ==
    /\ imports \in [Imports -> ImportRows] /\ paper \in [Papers -> Texts]
    /\ accidents \in Nat /\ IsFiniteSet(DOMAIN folder)
(* What was chosen for a copy is a capture, and for a conversion the name of one; *)
(* nothing but the conversion of the same text has such a name                    *)
ChosenFor(record) ==
    /\ record.at = "copying" => record.item \in Papers /\ record.name[1] # "manual"
    /\ record.at = "replacing" => record.name[1] = "manual"
ConvertedAlike == \A n \in DOMAIN folder : n[1] = "manual" => folder[n] = Captures(n[2])
(* A name that was free stays so until it is used, but for a clash that is told   *)
FreeFor(i) ==
    imports[i].at = "copying" =>
        /\ imports[i].name \notin DOMAIN folder
        /\ \A j \in Imports \ {i} : imports[j].at = "copying" => imports[j].name # imports[i].name
(* Unless a file was edited or a copy cut, the findings are still true            *)
TrueFindings(record) ==
    /\ \A f \in record.found : f.kind = paper[f.paper].kind
    /\ record.at = "copying" => paper[record.item].kind = "compatible"
ImportsInv ==
    /\ ImportTypes /\ ConvertedAlike /\ \A i \in Imports : ChosenFor(imports[i])
    /\ ~clash => \A i \in Imports : FreeFor(i)
    /\ accidents = 0 => OnlyCaptures /\ \A i \in Imports : TrueFindings(imports[i])

ImportParts == <<paper, folder, imports, clash, accidents>>

LEMMA ImportsUnchanged == ASSUME ImportsInv, UNCHANGED ImportParts PROVE ImportsInv'
BY DEF ImportsInv, ImportParts, ImportTypes, ConvertedAlike, ChosenFor, FreeFor, TrueFindings, OnlyCaptures

LEMMA NoImportFacts ==
    /\ NoImport \in ImportRows /\ NoImport.found = {} /\ NoImport.at = "none"
    /\ ChosenFor(NoImport) /\ TrueFindings(NoImport)
BY DEF NoImport, ImportRows, ImportSteps, ChosenFor, TrueFindings

LEMMA ImportsAtStart == ScenesInit => ImportsInv
<1> SUFFICES ASSUME ImportsInit PROVE ImportsInv
  BY DEF ScenesInit
<1>1. DOMAIN folder = {} /\ IsFiniteSet(DOMAIN folder)
  BY FS_EmptySet DEF ImportsInit
<1>2. \A i \in Imports : imports[i] = NoImport
  BY DEF ImportsInit
<1>3. imports \in [Imports -> ImportRows]
  BY NoImportFacts DEF ImportsInit
<1>4. paper \in [Papers -> Texts] /\ accidents = 0 /\ clash = FALSE
  BY DEF ImportsInit
<1>5. QED
  BY <1>1, <1>2, <1>3, <1>4, NoImportFacts
  DEF ImportsInv, ImportTypes, ConvertedAlike, FreeFor, OnlyCaptures

(* An import goes on with the folder as it is; what it copies next it has chosen  *)
LEMMA ImportGoes ==
    ASSUME ImportsInv, NEW i \in Imports, NEW record \in ImportRows, Goes(i, record),
           record.at # "copying", record.at = "replacing" => record.name[1] = "manual",
           accidents = 0 => \A f \in record.found : f.kind = paper[f.paper].kind,
           accidents' \in Nat, accidents' = 0 => accidents = 0,
           UNCHANGED <<paper, folder, clash>>
    PROVE  ImportsInv'
<1>1. imports' = [imports EXCEPT ![i] = record] /\ imports \in [Imports -> ImportRows]
  BY DEF Goes, ImportsInv, ImportTypes
<1>2. imports' \in [Imports -> ImportRows] /\ imports'[i] = record /\ \A j \in Imports \ {i} : imports'[j] = imports[j]
  BY <1>1
<1>3. ImportTypes' /\ ConvertedAlike'
  BY <1>2 DEF ImportsInv, ImportTypes, ConvertedAlike
<1>4. ASSUME NEW j \in Imports PROVE ChosenFor(imports'[j])
  BY <1>2 DEF ImportsInv, ChosenFor
<1>5. ASSUME ~clash, NEW j \in Imports PROVE FreeFor(j)'
  BY <1>2, <1>5 DEF ImportsInv, FreeFor
<1>6. ASSUME accidents' = 0 PROVE OnlyCaptures'
  BY <1>6 DEF ImportsInv, OnlyCaptures
<1>7. ASSUME accidents' = 0, NEW j \in Imports PROVE TrueFindings(imports[j])'
  BY <1>2, <1>7 DEF ImportsInv, TrueFindings
<1>8. QED BY <1>3, <1>4, <1>5, <1>6, <1>7 DEF ImportsInv, ChosenFor

(* A file appears under a name                                                    *)
LEMMA FolderPut ==
    ASSUME NEW n, NEW t, PutInFolder(n, t), IsFiniteSet(DOMAIN folder)
    PROVE  /\ DOMAIN folder' = DOMAIN folder \cup {n} /\ IsFiniteSet(DOMAIN folder')
           /\ folder'[n] = t /\ \A m \in DOMAIN folder \ {n} : folder'[m] = folder[m]
<1>1. IsFiniteSet(DOMAIN folder \cup {n})
  BY FS_AddElement
<1>2. QED BY <1>1 DEF PutInFolder

(* _available_inbox_path finds a name, and it is free                             *)
LEMMA AvailableIsFree ==
    ASSUME IsFiniteSet(DOMAIN folder), NEW stem \in Stems
    PROVE  /\ AvailableInboxPath(stem) \in FileNames /\ AvailableInboxPath(stem)[1] = stem
           /\ AvailableInboxPath(stem) \notin DOMAIN folder
<1> DEFINE N == Cardinality(DOMAIN folder) + 1
           Candidates == {<<stem, k>> : k \in 1..N}
           Number == [n \in Candidates |-> n[2]]
           Free == {k \in 1..N : <<stem, k>> \notin DOMAIN folder}
<1>1. N \in Nat /\ Cardinality(DOMAIN folder) \in Nat
  BY FS_CardinalityType
<1>2. IsFiniteSet(1..N) /\ Cardinality(1..N) = N
  BY <1>1, FS_Interval
<1>0. \A k \in 1..N : k \in Nat
  BY <1>1
<1>3. Free # {}
  <2>1. SUFFICES ASSUME Candidates \subseteq DOMAIN folder PROVE FALSE
    OBVIOUS
  <2>2. IsFiniteSet(Candidates) /\ Cardinality(Candidates) <= Cardinality(DOMAIN folder)
    BY <2>1, FS_Subset
  <2>3. Number \in Surjection(Candidates, 1..N)
    <3>1. Number \in [Candidates -> 1..N]
      <4>1. ASSUME NEW n \in Candidates PROVE n[2] \in 1..N
        <5>1. PICK k \in 1..N : n = <<stem, k>>
          OBVIOUS
        <5>2. n[2] = k
          BY <5>1
        <5> HIDE DEF N
        <5>3. QED BY <5>2
      <4> HIDE DEF N, Candidates
      <4>2. QED BY <4>1
    <3>2. \A k \in 1..N : <<stem, k>> \in Candidates /\ Number[<<stem, k>>] = k
      OBVIOUS
    <3>3. QED BY <3>1, <3>2 DEF Surjection
  <2>4. Cardinality(1..N) <= Cardinality(Candidates)
    <3> HIDE DEF N, Candidates, Number
    <3>1. QED BY <2>2, <2>3, FS_Surjection
  <2>5. Cardinality(Candidates) \in Nat
    BY <2>2, FS_CardinalityType
  <2> HIDE DEF Candidates
  <2>6. QED BY <1>1, <1>2, <2>2, <2>4, <2>5
<1>4. PICK m \in Free : \A k \in Free : m <= k
  <2>1. Free \subseteq Nat
    <3> HIDE DEF N
    <3>1. QED BY <1>0
  <2> HIDE DEF Free
  <2>2. QED BY <1>3, <2>1, Least
<1>5. \E k \in 1..(Cardinality(DOMAIN folder) + 1) : <<stem, k>> \notin DOMAIN folder
                                     /\ \A j \in 1..(k - 1) : <<stem, j>> \in DOMAIN folder
  <2>1. m \in 1..N /\ <<stem, m>> \notin DOMAIN folder
    OBVIOUS
  <2>2. ASSUME NEW j \in 1..(m - 1) PROVE <<stem, j>> \in DOMAIN folder
    <3>1. j \in 1..N /\ ~(m <= j)
      BY <1>1, <2>1, <2>2
    <3>2. QED BY <1>4, <3>1
  <2>3. QED BY <2>1, <2>2
<1>6. \E k \in 1..(Cardinality(DOMAIN folder) + 1) :
        AvailableInboxPath(stem) = <<stem, k>> /\ <<stem, k>> \notin DOMAIN folder
  BY <1>5, Zenon DEF AvailableInboxPath
<1>7. PICK k \in 1..N : AvailableInboxPath(stem) = <<stem, k>> /\ <<stem, k>> \notin DOMAIN folder
  BY <1>6
<1>8. k \in Nat
  BY <1>0
<1>9. <<stem, k>> \in FileNames /\ <<stem, k>>[1] = stem
  BY <1>8 DEF FileNames
<1>10. QED BY <1>7, <1>9

(* What the thread of an import does                                              *)
LEMMA ImportInspects ==
    ASSUME ImportsInv, NEW i \in Imports, NEW p \in Papers, InspectImport(i, p)
    PROVE  ImportsInv'
<1> DEFINE text == paper[p]
           seen == [paper |-> p, kind |-> text.kind, id |-> text.id]
           left == imports[i].todo \ {p}
           record == [imports[i] EXCEPT !.todo = left, !.found = @ \cup {seen},
                                     !.at = IF left = {} THEN "inspected" ELSE "inspecting"]
<1>1. Goes(i, record) /\ UNCHANGED <<paper, folder, clash, accidents>>
  BY DEF InspectImport
<1>2. imports[i] \in ImportRows /\ text \in [kind : Kinds, id : Nat]
  BY DocumentImportsAssumption DEF ImportsInv, ImportTypes
<1>3. seen \in Findings /\ seen.kind = text.kind /\ seen.paper = p
  BY <1>2 DEF Findings
<1>4. record \in ImportRows /\ record.at \notin {"copying", "replacing"} /\ record.found = imports[i].found \cup {seen}
  <2>1. left \subseteq Papers /\ imports[i].found \cup {seen} \subseteq Findings
    BY <1>2, <1>3 DEF ImportRows
  <2> HIDE DEF left, seen
  <2>2. QED BY <1>2, <2>1 DEF ImportRows, ImportSteps
<1>5. accidents = 0 => \A f \in record.found : f.kind = paper[f.paper].kind
  BY <1>3, <1>4 DEF ImportsInv, TrueFindings
<1>6. accidents' \in Nat /\ (accidents' = 0 => accidents = 0)
  BY <1>1 DEF ImportsInv, ImportTypes
<1> HIDE DEF record
<1>7. QED BY <1>1, <1>4, <1>5, <1>6, ImportGoes

(* An import whose findings are some of what they were                            *)
LEMMA ImportGoesOn ==
    ASSUME ImportsInv, NEW i \in Imports, NEW record \in ImportRows, Goes(i, record),
           record.at \notin {"copying", "replacing"}, record.found \subseteq imports[i].found,
           accidents' = accidents \/ accidents' = accidents + 1,
           UNCHANGED <<paper, folder, clash>>
    PROVE  ImportsInv'
<1>1. accidents' \in Nat /\ (accidents' = 0 => accidents = 0)
  BY DEF ImportsInv, ImportTypes
<1>2. accidents = 0 => \A f \in record.found : f.kind = paper[f.paper].kind
  BY DEF ImportsInv, TrueFindings
<1>3. QED BY <1>1, <1>2, ImportGoes

LEMMA DeliverFoundKept ==
    ASSUME ImportsInv, NEW i \in Imports, NEW found \in SUBSET imports[i].found,
           DeliverFound(i, found), UNCHANGED <<paper, folder, clash, accidents>>
    PROVE  ImportsInv'
<1> DEFINE record == [imports[i] EXCEPT !.found = found, !.at = IF found = {} THEN "done" ELSE "delivering"]
<1>1. imports[i] \in ImportRows
  BY DEF ImportsInv, ImportTypes
<1>2. record \in ImportRows /\ record.at \notin {"copying", "replacing"} /\ record.found = found
  BY <1>1 DEF ImportRows, ImportSteps
<1>3. Goes(i, record)
  BY DEF DeliverFound
<1> HIDE DEF record
<1>4. QED BY <1>2, <1>3, ImportGoesOn

LEMMA ImportReviewed ==
    ASSUME ImportsInv, NEW i \in Imports,
           \/ ReviewImportCandidates(i)
           \/ \E accepted \in BOOLEAN : ConfirmConversion(i, accepted)
    PROVE  ImportsInv'
<1>1. CASE ReviewImportCandidates(i)
  <2> DEFINE fresh == {f \in OfKind(imports[i].found, "compatible") \cup OfKind(imports[i].found, "ordinary") :
                          f.id \notin known}
             record == [imports[i] EXCEPT !.found = fresh, !.at = "asking"]
  <2>1. fresh \subseteq imports[i].found /\ imports[i] \in ImportRows
    BY DEF OfKind, ImportsInv, ImportTypes
  <2>2. UNCHANGED <<paper, folder, clash, accidents>> /\ (DeliverFound(i, fresh) \/ Goes(i, record))
    BY <1>1 DEF ReviewImportCandidates
  <2> HIDE DEF fresh
  <2>3. record \in ImportRows /\ record.at = "asking" /\ record.found = fresh
    BY <2>1 DEF ImportRows, ImportSteps
  <2> HIDE DEF record
  <2>4. QED BY <2>1, <2>2, <2>3, DeliverFoundKept, ImportGoesOn
<1>2. ASSUME NEW accepted \in BOOLEAN, ConfirmConversion(i, accepted) PROVE ImportsInv'
  BY <1>2, DeliverFoundKept DEF ConfirmConversion, OfKind
<1>3. QED BY <1>1, <1>2

LEMMA LeftRow ==
    ASSUME ImportsInv, NEW i \in Imports, NEW left \in SUBSET imports[i].found
    PROVE  LET record == [NoImport EXCEPT !.at = IF left = {} THEN "delivered" ELSE "delivering", !.found = left]
           IN  record \in ImportRows /\ record.at \notin {"copying", "replacing"} /\ record.found = left
<1>1. imports[i] \in ImportRows
  BY DEF ImportsInv, ImportTypes
<1>2. left \in SUBSET Findings
  BY <1>1 DEF ImportRows
<1>3. QED BY <1>2 DEF ImportRows, ImportSteps, NoImport

LEMMA ImportStarts ==
    ASSUME ImportsInv, NEW i \in Imports, NEW picked \in SUBSET Papers, ImportDocuments(i, picked)
    PROVE  ImportsInv'
<1> DEFINE record == [NoImport EXCEPT !.at = "inspecting", !.todo = picked]
<1>1. record \in ImportRows /\ record.at = "inspecting" /\ record.found = {}
  BY DEF NoImport, ImportRows, ImportSteps
<1>2. Goes(i, record) /\ UNCHANGED <<paper, folder, clash, accidents>>
  BY DEF ImportDocuments
<1> HIDE DEF record
<1>3. QED BY <1>1, <1>2, ImportGoesOn

LEMMA ImportEnds ==
    ASSUME ImportsInv, NEW i \in Imports, StepFails(i) \/ FinishImport(i)
    PROVE  ImportsInv'
<1> DEFINE record == [NoImport EXCEPT !.at = "done"]
<1>1. record \in ImportRows /\ record.at = "done" /\ record.found = {}
  BY DEF NoImport, ImportRows, ImportSteps
<1>2. Goes(i, record) /\ UNCHANGED <<paper, folder, clash>>
      /\ (accidents' = accidents \/ accidents' = accidents + 1)
  BY DEF StepFails, FinishImport, Accident
<1> HIDE DEF record
<1>3. QED BY <1>1, <1>2, ImportGoesOn

(* A name is chosen; two imports may choose the same one, and that is a clash     *)
LEMMA ImportChooses ==
    ASSUME ImportsInv, NEW i \in Imports, NEW f \in imports[i].found, ChooseTarget(i, f)
    PROVE  ImportsInv'
<1> DEFINE name == AvailableInboxPath(NameOf[f.paper])
           record == [imports[i] EXCEPT !.at = "copying", !.item = f.paper, !.name = name]
<1>1. Goes(i, record) /\ UNCHANGED <<paper, folder, accidents>> /\ f.kind = "compatible"
      /\ clash' = (clash \/ \E j \in Imports \ {i} : Stands(j, "copying") /\ imports[j].name = name)
  BY DEF ChooseTarget, OfKind
<1>2. imports \in [Imports -> ImportRows] /\ imports[i] \in ImportRows /\ f \in Findings
      /\ IsFiniteSet(DOMAIN folder)
  BY DEF ImportsInv, ImportTypes, ImportRows
<1>3. f.paper \in Papers /\ NameOf[f.paper] \in Stems /\ NameOf[f.paper] # "manual"
  BY <1>2, DocumentImportsAssumption DEF Findings, Stems
<1>4. name \in FileNames /\ name[1] # "manual" /\ name \notin DOMAIN folder
  BY <1>2, <1>3, AvailableIsFree
<1> HIDE DEF name
<1>5. /\ record \in ImportRows /\ record.at = "copying" /\ record.item = f.paper /\ record.name = name
      /\ record.found = imports[i].found
  BY <1>2, <1>3, <1>4 DEF ImportRows, ImportSteps
<1> HIDE DEF record
<1>6. imports' \in [Imports -> ImportRows] /\ imports'[i] = record /\ \A j \in Imports \ {i} : imports'[j] = imports[j]
  BY <1>1, <1>2, <1>5 DEF Goes
<1>7. ImportTypes' /\ ConvertedAlike'
  BY <1>1, <1>6 DEF ImportsInv, ImportTypes, ConvertedAlike
<1>8. \A j \in Imports : ChosenFor(imports'[j])
  BY <1>3, <1>4, <1>5, <1>6 DEF ImportsInv, ChosenFor
<1>9. ASSUME ~clash', NEW j \in Imports PROVE FreeFor(j)'
  <2>1. ~clash /\ \A k \in Imports \ {i} : imports[k].at = "copying" => imports[k].name # name
    BY <1>1, <1>9 DEF Stands
  <2>2. QED BY <1>1, <1>4, <1>5, <1>6, <2>1 DEF ImportsInv, FreeFor
<1>10. ASSUME accidents' = 0 PROVE OnlyCaptures' /\ \A j \in Imports : TrueFindings(imports[j])'
  <2>1. accidents = 0 /\ OnlyCaptures'
    BY <1>1, <1>10 DEF ImportsInv, OnlyCaptures
  <2>2. paper[f.paper].kind = "compatible"
    BY <1>1, <2>1 DEF ImportsInv, TrueFindings
  <2>3. QED BY <1>1, <1>5, <1>6, <2>1, <2>2 DEF ImportsInv, TrueFindings
<1>11. QED BY <1>7, <1>8, <1>9, <1>10 DEF ImportsInv, ChosenFor

(* A file arrives, under a name that no other import has chosen to copy           *)
LEMMA ImportPuts ==
    ASSUME ImportsInv, NEW i \in Imports, NEW record \in ImportRows, Goes(i, record),
           record.at \notin {"copying", "replacing"}, record.found \subseteq imports[i].found,
           NEW name, NEW text, PutInFolder(name, text), UNCHANGED <<paper, clash>>,
           accidents' = accidents \/ accidents' = accidents + 1,
           accidents' = 0 => text.kind = "compatible",
           name[1] = "manual" => text = Captures(name[2]),
           ~clash => \A j \in Imports \ {i} : imports[j].at = "copying" => imports[j].name # name
    PROVE  ImportsInv'
<1>1. imports \in [Imports -> ImportRows] /\ IsFiniteSet(DOMAIN folder) /\ accidents \in Nat
  BY DEF ImportsInv, ImportTypes
<1>2. imports' \in [Imports -> ImportRows] /\ imports'[i] = record /\ \A j \in Imports \ {i} : imports'[j] = imports[j]
  BY <1>1 DEF Goes
<1>3. /\ DOMAIN folder' = DOMAIN folder \cup {name} /\ IsFiniteSet(DOMAIN folder')
      /\ folder'[name] = text /\ \A m \in DOMAIN folder \ {name} : folder'[m] = folder[m]
  BY <1>1, FolderPut
<1>4. accidents' \in Nat /\ (accidents' = 0 => accidents = 0)
  BY <1>1
<1>5. ImportTypes'
  BY <1>2, <1>3, <1>4 DEF ImportsInv, ImportTypes
<1>6. ConvertedAlike'
  BY <1>3 DEF ImportsInv, ConvertedAlike, Captures
<1>7. \A j \in Imports : ChosenFor(imports'[j])
  BY <1>2 DEF ImportsInv, ChosenFor
<1>8. ASSUME ~clash', NEW j \in Imports PROVE FreeFor(j)'
  BY <1>2, <1>3, <1>8 DEF ImportsInv, FreeFor
<1>9. ASSUME accidents' = 0 PROVE OnlyCaptures' /\ \A j \in Imports : TrueFindings(imports[j])'
  <2>1. accidents = 0 /\ OnlyCaptures
    BY <1>4, <1>9 DEF ImportsInv
  <2>2. OnlyCaptures'
    BY <1>3, <1>9, <2>1 DEF OnlyCaptures
  <2>3. QED BY <1>2, <2>1, <2>2 DEF ImportsInv, TrueFindings
<1>10. QED BY <1>5, <1>6, <1>7, <1>8, <1>9 DEF ImportsInv, ChosenFor

LEMMA ImportCopies ==
    ASSUME ImportsInv, NEW i \in Imports, CopyDocument(i)
    PROVE  ImportsInv'
<1> DEFINE record == [NoImport EXCEPT !.at = IF Left(i) = {} THEN "delivered" ELSE "delivering", !.found = Left(i)]
           name == imports[i].name
           item == imports[i].item
<1>1. Goes(i, record) /\ imports[i].at = "copying" /\ UNCHANGED <<paper, clash>>
  BY DEF CopyDocument, GoesOn, Stands
<1>2. Left(i) \subseteq imports[i].found
  BY DEF Left
<1>3. record \in ImportRows /\ record.at \notin {"copying", "replacing"} /\ record.found \subseteq imports[i].found
  BY <1>2, LeftRow
<1> HIDE DEF record
<1>4. item \in Papers /\ name[1] # "manual"
  BY <1>1 DEF ImportsInv, ChosenFor
<1>5. ~clash => \A j \in Imports \ {i} : imports[j].at = "copying" => imports[j].name # name
  BY <1>1 DEF ImportsInv, FreeFor
<1>6. accidents = 0 => paper[item].kind = "compatible"
  BY <1>1 DEF ImportsInv, TrueFindings
<1>7. accidents \in Nat /\ accidents + 1 # 0
  BY DEF ImportsInv, ImportTypes
<1>8. CASE PutInFolder(name, paper[item]) /\ accidents' = accidents
  BY <1>1, <1>3, <1>4, <1>5, <1>6, <1>8, ImportPuts
<1>9. CASE PutInFolder(name, Torn) /\ accidents' = accidents + 1
  BY <1>1, <1>3, <1>4, <1>5, <1>7, <1>9, ImportPuts
<1>10. CASE folder' = folder /\ accidents' = accidents + 1
  BY <1>1, <1>3, <1>10, ImportGoesOn
<1>11. QED BY <1>8, <1>9, <1>10 DEF CopyDocument, Accident

LEMMA ImportLooks ==
    ASSUME ImportsInv, NEW i \in Imports, NEW f \in imports[i].found, LookForConverted(i, f)
    PROVE  ImportsInv'
<1> DEFINE text == paper[f.paper]
           name == ConvertedName(text)
           left == imports[i].found \ {f}
           skipped == [NoImport EXCEPT !.at = IF left = {} THEN "delivered" ELSE "delivering", !.found = left]
           record == [imports[i] EXCEPT !.at = "replacing", !.item = f.paper, !.name = name]
<1>1. UNCHANGED <<paper, folder, clash, accidents>> /\ (Goes(i, skipped) \/ Goes(i, record))
  BY DEF LookForConverted, GoesOn
<1>2. imports[i] \in ImportRows /\ f \in Findings /\ accidents \in Nat
  BY DEF ImportsInv, ImportTypes, ImportRows
<1>3. CASE Goes(i, skipped)
  <2>1. skipped \in ImportRows /\ skipped.at \notin {"copying", "replacing"} /\ skipped.found \subseteq imports[i].found
    BY LeftRow
  <2> HIDE DEF skipped
  <2>2. QED BY <1>1, <1>3, <2>1, ImportGoesOn
<1>4. CASE Goes(i, record)
  <2>1. f.paper \in Papers /\ text \in [kind : Kinds, id : Nat]
    BY <1>2, DocumentImportsAssumption DEF Findings, ImportsInv, ImportTypes
  <2>2. Wrapped(text).id \in Nat
    BY <2>1 DEF Wrapped
  <2>3. name \in FileNames /\ name[1] = "manual"
    <3>1. PICK id \in Nat : name = <<"manual", id>>
      BY <2>2 DEF ConvertedName
    <3> HIDE DEF name
    <3>2. PICK manual \in Stems : manual = "manual"
      BY DEF Stems
    <3>3. <<manual, id>> \in FileNames /\ <<manual, id>>[1] = manual
      BY DEF FileNames
    <3>4. QED BY <3>1, <3>2, <3>3
  <2> HIDE DEF name
  <2>4. record \in ImportRows /\ record.at = "replacing" /\ record.name = name /\ record.found = imports[i].found
    BY <1>2, <2>1, <2>3 DEF ImportRows, ImportSteps
  <2> HIDE DEF record
  <2>5. accidents = 0 => \A g \in record.found : g.kind = paper[g.paper].kind
    BY <2>4 DEF ImportsInv, TrueFindings
  <2>6. QED BY <1>1, <1>2, <1>4, <2>3, <2>4, <2>5, ImportGoes
<1>5. QED BY <1>1, <1>3, <1>4

LEMMA ImportWrites ==
    ASSUME ImportsInv, NEW i \in Imports, WriteConverted(i)
    PROVE  ImportsInv'
<1> DEFINE record == [NoImport EXCEPT !.at = IF Left(i) = {} THEN "delivered" ELSE "delivering", !.found = Left(i)]
           name == imports[i].name
<1>1. Goes(i, record) /\ imports[i].at = "replacing" /\ UNCHANGED <<paper, clash>>
  BY DEF WriteConverted, GoesOn, Stands
<1>2. Left(i) \subseteq imports[i].found
  BY DEF Left
<1>3. record \in ImportRows /\ record.at \notin {"copying", "replacing"} /\ record.found \subseteq imports[i].found
  BY <1>2, LeftRow
<1> HIDE DEF record
<1>4. name[1] = "manual"
  BY <1>1 DEF ImportsInv, ChosenFor
<1>5. \A j \in Imports : imports[j].at = "copying" => imports[j].name # name
  BY <1>4 DEF ImportsInv, ChosenFor
<1>6. CASE PutInFolder(name, Captures(name[2])) /\ accidents' = accidents
  <2>1. Captures(name[2]).kind = "compatible"
    BY DEF Captures
  <2>2. QED BY <1>1, <1>3, <1>5, <1>6, <2>1, ImportPuts
<1>7. CASE folder' = folder /\ accidents' = accidents + 1
  BY <1>1, <1>3, <1>7, ImportGoesOn
<1>8. QED BY <1>6, <1>7 DEF WriteConverted, Accident, Captures

(* The person edits a file; the ingestion takes one                               *)
LEMMA ImportEdited ==
    ASSUME ImportsInv, NEW p \in Papers, NEW text \in Texts, EditPaper(p, text)
    PROVE  ImportsInv'
<1>1. paper' = [paper EXCEPT ![p] = text] /\ accidents' = accidents + 1 /\ UNCHANGED <<folder, imports, clash>>
  BY DEF EditPaper, Accident
<1>2. accidents \in Nat /\ accidents' # 0 /\ accidents' \in Nat
  BY <1>1 DEF ImportsInv, ImportTypes
<1>3. ImportTypes'
  BY <1>1, <1>2 DEF ImportsInv, ImportTypes
<1>4. QED BY <1>1, <1>2, <1>3 DEF ImportsInv, ConvertedAlike, ChosenFor, FreeFor

LEMMA ImportTaken ==
    ASSUME ImportsInv, NEW name \in DOMAIN folder, TakeFromInbox(name)
    PROVE  ImportsInv'
<1>1. /\ DOMAIN folder' = DOMAIN folder \ {name} /\ \A n \in DOMAIN folder' : folder'[n] = folder[n]
      /\ UNCHANGED <<paper, imports, clash, accidents>>
  BY DEF TakeFromInbox, Restrict
<1>2. IsFiniteSet(DOMAIN folder')
  BY <1>1, FS_RemoveElement DEF ImportsInv, ImportTypes
<1>3. QED
  BY <1>1, <1>2 DEF ImportsInv, ImportTypes, ConvertedAlike, ChosenFor, FreeFor, TrueFindings, OnlyCaptures

LEMMA ImportsStep == ASSUME ImportsInv, ImportsNext PROVE ImportsInv'
BY ImportInspects, ImportReviewed, ImportStarts, ImportEnds, ImportChooses, ImportCopies, ImportLooks,
   ImportWrites, ImportEdited, ImportTaken DEF ImportsNext, ImportStep

LEMMA ImportsAlways == ImportsInv /\ [ScenesNext]_allVars => ImportsInv'
<1> SUFFICES ASSUME ImportsInv, [ScenesNext]_allVars PROVE ImportsInv'
  OBVIOUS
<1>1. CASE Importing /\ ImportsNext
  BY <1>1, ImportsStep
<1>2. CASE UNCHANGED ImportParts
  BY <1>2, ImportsUnchanged
<1>3. Folders \/ Checks \/ Delivery \/ UNCHANGED allVars => UNCHANGED ImportParts
  BY DEF Folders, Checks, Delivery, Scene, allVars, importVars, ImportParts
<1>4. QED BY <1>1, <1>2, <1>3 DEF ScenesNext

-----------------------------------------------------------------------------
(* What a step leaves as it was                                                   *)

(* Only a file that two imports were given the name of is written over            *)
LEMMA NothingReplacedStep == ImportsInv /\ [ScenesNext]_allVars => NothingReplaced
<1> SUFFICES ASSUME ImportsInv, [ScenesNext]_allVars, ~clash', NEW n \in DOMAIN folder \cap DOMAIN folder'
             PROVE  folder'[n] = folder[n]
  BY DEF NothingReplaced
<1>1. IsFiniteSet(DOMAIN folder) /\ accidents \in Nat
  BY DEF ImportsInv, ImportTypes
<1>2. ASSUME NEW i \in Imports, CopyDocument(i) PROVE folder'[n] = folder[n]
  <2>1. imports[i].at = "copying" /\ ~clash
    BY <1>2 DEF CopyDocument, Stands
  <2>2. imports[i].name \notin DOMAIN folder
    BY <2>1 DEF ImportsInv, FreeFor
  <2>3. folder' = folder \/ \E text : PutInFolder(imports[i].name, text)
    BY <1>2 DEF CopyDocument
  <2>4. QED BY <1>1, <2>2, <2>3, FolderPut
<1>3. ASSUME NEW i \in Imports, WriteConverted(i) PROVE folder'[n] = folder[n]
  <2>1. imports[i].name[1] = "manual"
    BY <1>3 DEF WriteConverted, Stands, ImportsInv, ChosenFor
  <2>2. folder' = folder \/ PutInFolder(imports[i].name, Captures(imports[i].name[2]))
    BY <1>3 DEF WriteConverted, Captures
  <2>3. CASE PutInFolder(imports[i].name, Captures(imports[i].name[2]))
    <3>1. CASE n = imports[i].name
      BY <1>1, <2>1, <2>3, <3>1, FolderPut DEF ImportsInv, ConvertedAlike
    <3>2. CASE n # imports[i].name
      BY <1>1, <2>3, <3>2, FolderPut
    <3>3. QED BY <3>1, <3>2
  <2>4. QED BY <2>2, <2>3
<1>4. ASSUME NEW name \in DOMAIN folder, TakeFromInbox(name) PROVE folder'[n] = folder[n]
  BY <1>4 DEF TakeFromInbox, Restrict
<1>5. ASSUME ImportsNext PROVE folder'[n] = folder[n]
  <2>1. ASSUME NEW i \in Imports, ImportStep(i) PROVE folder' = folder \/ folder'[n] = folder[n]
    BY <1>2, <1>3, <2>1 DEF ImportStep, InspectImport, ChooseTarget, LookForConverted, ReviewImportCandidates,
       FinishImport
  <2>2. ASSUME NEW i \in Imports,
               \/ \E picked \in (SUBSET Papers) \ {{}} : ImportDocuments(i, picked)
               \/ \E accepted \in BOOLEAN : ConfirmConversion(i, accepted)
               \/ StepFails(i)
        PROVE  folder' = folder
    BY <2>2 DEF ImportDocuments, ConfirmConversion, StepFails
  <2>3. ASSUME NEW p \in Papers, NEW text \in Texts, EditPaper(p, text) PROVE folder' = folder
    BY <2>3 DEF EditPaper
  <2>4. QED BY <1>4, <1>5, <2>1, <2>2, <2>3 DEF ImportsNext
<1>6. Folders \/ Checks \/ Delivery \/ UNCHANGED allVars => folder' = folder
  BY DEF Folders, Checks, Delivery, Scene, allVars, importVars
<1>7. QED BY <1>5, <1>6 DEF ScenesNext

(* What is known of a page does not go back                                       *)
PageOnwards ==
    source.seen # NoVersion /\ source'.loc = source.loc =>
        source'.seen # NoVersion /\ source'.seen[2] >= source.seen[2]

LEMMA PageOnwardsStep == PageInv /\ [ScenesNext]_allVars => PageOnwards
<1> SUFFICES ASSUME PageInv, [ScenesNext]_allVars, source.seen # NoVersion, source'.loc = source.loc
             PROVE  source'.seen # NoVersion /\ source'.seen[2] >= source.seen[2]
  BY DEF PageOnwards
<1>1. source \in SourceRows /\ source.seen \in Versions /\ source.seen[2] \in Nat
  BY DEF PageInv, PageTypes, SourceRows, Versions
<1>2. CASE source'.seen = source.seen
  BY <1>1, <1>2
<1>3. ASSUME NEW c \in checks, Finish(c) PROVE source'.seen # NoVersion /\ source'.seen[2] >= source.seen[2]
  <2>1. CASE source' = source
    BY <1>2, <2>1
  <2>2. CASE source' # source /\ source'.seen # source.seen
    <3>1. source'.seen = c.answer /\ c.answer \in Versions /\ source.seen[2] <= c.answer[2]
      BY <1>3, <2>2, FinishedRow
    <3>2. c.answer[2] \in Nat
      BY <3>1 DEF Versions
    <3>3. QED BY <1>1, <3>1, <3>2, VersionsDiffer
  <2>3. QED BY <1>2, <2>1, <2>2
<1>4. ASSUME NEW on \in BOOLEAN, NEW l \in Locations, NEW policy \in Policies, Update(on, l, policy)
      PROVE  source'.seen = source.seen
  <2>1. source' = Configured(on, l, policy)
    BY <1>4 DEF Update
  <2>2. source'.loc = l /\ source'.seen = (IF l = source.loc THEN source.seen ELSE NoVersion)
    BY <1>1, <2>1 DEF Configured, SourceRows
  <2>3. QED BY <2>2
<1>5. LeaseDue \/ RequestCheck \/ LeaseLapses => source'.seen = source.seen
  BY <1>1 DEF LeaseDue, RequestCheck, LeaseLapses, Recovered, SourceRows
<1>6. ASSUME Watching PROVE source'.seen # NoVersion /\ source'.seen[2] >= source.seen[2]
  <2>1. SourcesCrash \/ (\E c \in checks : Fetch(c) \/ CheckLost(c)) \/ (\E l \in Locations : SiteChanges(l))
        => source' = source
    BY DEF SourcesCrash, Fetch, CheckLost, SiteChanges
  <2>2. QED BY <1>2, <1>3, <1>4, <1>5, <1>6, <2>1 DEF Watching, Checking
<1>7. Ingesting => source' = source
  BY DEF Ingesting, Delivering, Taking, ReadyRead, Delivered, CreateForChange, PendingRead, Deliver,
         WatcherReads, WatcherInserts, WatcherRetires, WatcherRefuses, ClientCreate, RetryDue, DeliveryFailed,
         QueueIngestion, DeliverBreaks, EditFile, SourcesCrash
<1>8. Folders \/ Importing \/ UNCHANGED allVars => source' = source
  BY DEF Folders, Importing, Scene, allVars, sourceVars
<1>9. QED BY <1>2, <1>6, <1>7, <1>8 DEF ScenesNext

(* What is known of a page never goes back nor is of another page, and the         *)
(* validator is of the version that is known (finish, update); an import writes    *)
(* over no file of the watched folder, unless two were given one name at the same  *)
(* time, and leaves captures only, unless a file changed after its inspection or   *)
(* a copy was cut (_available_inbox_path, write_converted, _deliver_imports)       *)
THEOREM WhatIsThereStays == ScenesSpec => NothingIsOverwritten
<1> DEFINE Unwritten == PageInv /\ ImportsInv
<1>1. ScenesInit => Unwritten
  BY PageInit, ImportsAtStart
<1>2. Unwritten /\ [ScenesNext]_allVars => Unwritten'
  BY PageNext, ImportsAlways
<1>3. Unwritten => OfThePage /\ source.etag \in {NoVersion, source.seen} /\ OnlyCaptures
  BY DEF PageInv, KnownOfThePage, OfThePage, ImportsInv, OnlyCaptures
<1>4. Unwritten /\ Unwritten' /\ [ScenesNext]_allVars =>
        [ /\ NothingReplaced /\ OnlyCaptures'
          /\ OfThePage' /\ source'.etag \in {NoVersion, source'.seen}
          /\ source.seen # NoVersion /\ source'.loc = source.loc =>
               source'.seen # NoVersion /\ source'.seen[2] >= source.seen[2] ]_allVars
  <2>1. Unwritten' => OfThePage' /\ source'.etag \in {NoVersion, source'.seen} /\ OnlyCaptures'
    BY DEF PageInv, KnownOfThePage, OfThePage, ImportsInv, OnlyCaptures
  <2>2. QED BY <2>1, NothingReplacedStep, PageOnwardsStep DEF PageOnwards
<1> HIDE DEF Unwritten
<1>5. QED BY <1>1, <1>2, <1>4, PTL DEF ScenesSpec, NothingIsOverwritten
=============================================================================
