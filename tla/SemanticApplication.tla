------------------------ MODULE SemanticApplication ------------------------
(***************************************************************************)
(* Changing notes that are already published: a proposal (candidate) says  *)
(* that a claim of one note is to be replaced by the evidence of a claim   *)
(* of another. Approving it leaves an intention in SQLite, asks Obsidian   *)
(* to replace the note under a request identifier, and records the new     *)
(* claims; a reversion undoes an application in the same way; recover()    *)
(* finishes both after a crash. Meanwhile the person edits the notes in    *)
(* Obsidian, adopts the edits and retires notes.                           *)
(*                                                                         *)
(* One action is one transaction together with the reads of the same       *)
(* thread before it that are checked again inside it. compare() and        *)
(* reconcile() read files just before their transaction, and the file may  *)
(* change in between: taken as one, since what they record is what a later *)
(* read of the same file could have found, and approval looks again.       *)
(* A text is the set of changes made to the note since its claims were     *)
(* extracted: applications (candidates) and edits of the person. Two texts *)
(* have the same digest iff they are equal.                                *)
(***************************************************************************)
EXTENDS KnowledgeClaims

CONSTANTS
    Relations,     \* bound: answers of the comparison
    MaxRevision,   \* bound: comparisons and editions of a candidate
    MaxEdits,      \* bound: changes the person makes to files and locks
    MaxFaults,     \* bound: crashes, Obsidian restarts and lost answers
    NoFile         \* content of a missing file; also a patch that does not exist

ASSUME BoundsAssumption ==
    /\ Relations \subseteq {"SUPPORTS", "EXTENDS", "CONTRADICTS", "SUPERSEDES",
                        "UNRELATED", "UNCERTAIN"}
    /\ MaxRevision \in Nat /\ MaxEdits \in Nat /\ MaxFaults \in Nat
    /\ \A text \in Texts : text # NoFile

-----------------------------------------------------------------------------
(* derived_from_claim_id: a projection comes from its witness, which is extracted *)
Origins(k) == {Witness[c] : c \in {d \in Candidates : Successor[d] = k}}
Chain(k)   == {k} \cup Origins(k)

(* Notes an application reads, and those a reversion reserves                     *)
Reads(c)    == {NoteOf[k] : k \in Chain(Witness[c])}
Reserves(c) == {TargetNote(c)} \cup {NoteOf[k] : k \in Chain(Target[c])}

ClaimStates == {"CURRENT", "HISTORICAL", "SUPERSEDED", "DISPUTED", "UNCERTAIN", "REVIEW_REQUIRED"}
CandStatus  == {"none", "PENDING_COMPARISON", "PENDING_REVIEW", "APPLYING", "APPLIED",
                "CONFLICT", "REJECTED", "ERROR"}
ReverStatus == {"none", "PREVIEW", "APPLYING", "APPLIED", "CONFLICT"}

(* A request identifier stands for one approval of one revision, or a reversion   *)
RequestIds == Candidates \X (0..MaxRevision)
Commands   == [id : RequestIds, base : Texts, result : Texts]
NoCommand  == [id |-> <<0, 0>>, base |-> Original, result |-> Original]
NoPlan     == [claims |-> <<>>, texts |-> <<>>]
Nobody     == 0                     \* no candidate

VARIABLES
    vault,      \* the file of each note
    row,        \* notes: status, and content_hash as the text it stands for
    recon,      \* knowledge_reconciliation.state
    claim,      \* knowledge_claims: status, knowledge_state, revision, and how often
                \* its manual lock changed (it is locked when that is odd)
    cand,       \* update_candidates: status, relation, revision of the proposal, base
                \* of its patch, source text of the evidence, state the target had
                \* before it was replaced, and states this candidate disputed
    rever,      \* maintenance_reversions: one plan per candidate
    last,       \* the latest note_revisions of each note: who wrote it and why
    queue,      \* requests the bridge has received and not taken
    busy,       \* the request it is executing, and whether the note is written
    receipts,   \* the bridge's journal (receipts.jsonl)
    pc, held,   \* step of the thread that works on a candidate; revision it read
    phase,      \* the process: down, recovering, up, or stopped by a failed start
    todo,       \* candidates recover() has still to visit
    adopting,   \* edit being adopted: the note and the text that was read
    edits, faults,      \* the budgets used
    written     \* history: requests that have replaced a note

files    == <<vault, edits>>
database == <<row, recon, claim, cand, rever, last>>
obsidian == <<queue, busy, receipts, written>>
process  == <<pc, held, phase, todo, adopting>>
vars     == <<files, database, obsidian, process, faults>>

-----------------------------------------------------------------------------
NewClaim(k) == [status |-> IF k \in Projections THEN "none" ELSE "ACTIVE",
                state |-> "CURRENT", rev |-> 1, lock |-> 0]

NewCandidate == [status |-> "none", relation |-> "none", revision |-> 0, base |-> NoFile,
                 source |-> NoFile, was |-> "none", disputed |-> <<>>]

Init ==
    /\ vault = [n \in Notes |-> Original]
    /\ row = [n \in Notes |-> [status |-> "PUBLISHED", text |-> Original]]
    /\ recon = [n \in Notes |-> "IN_SYNC"]
    /\ claim = [k \in Claims |-> NewClaim(k)]
    /\ cand = [c \in Candidates |-> NewCandidate]
    /\ rever = [c \in Candidates |-> [status |-> "none", plan |-> NoPlan]]
    /\ last = [n \in Notes |-> [why |-> "none", cand |-> Nobody]]
    /\ queue = {} /\ busy = [cmd |-> NoCommand, done |-> FALSE]
    /\ receipts = [id \in RequestIds |-> "none"]
    /\ pc = [c \in Candidates |-> "idle"] /\ held = [c \in Candidates |-> 0]
    /\ phase = "up" /\ todo = {} /\ adopting = [note |-> NoFile, text |-> NoFile]
    /\ edits = 0 /\ faults = 0
    /\ written = {}

-----------------------------------------------------------------------------
(* The guards of application_guards, maintenance_states and reversion_guards      *)

Locked(k)  == claim[k].lock % 2 = 1
InForce(k) == claim[k].status = "ACTIVE"
Published(n) == row[n].status = "PUBLISHED"
Result(c)  == cand[c].base \cup {c}

Applying(c)  == cand[c].status = "APPLYING"
Reverting(c) == rever[c].status = "APPLYING"

(* An open contradiction that involves the claim                                  *)
Contradicts(d, k) ==
    /\ cand[d].relation = "CONTRADICTS"
    /\ cand[d].status \in {"PENDING_REVIEW", "CONFLICT", "APPLYING"}
    /\ k \in {Target[d], Witness[d]}

TargetInReversion(n, except) == \E d \in Candidates \ {except} : Reverting(d) /\ n = TargetNote(d)
NoteInReversion(n, except) == \E d \in Candidates \ {except} : Reverting(d) /\ n \in Reserves(d)

ClaimInApplication(k, exceptApplying, exceptReverting) ==
    \/ NoteInReversion(NoteOf[k], exceptReverting)
    \/ \E d \in Candidates \ {exceptApplying} :
        Applying(d) /\ (k \in Chain(Witness[d]) \/ NoteOf[k] = TargetNote(d))

(* A claim with another status and state, one revision later                      *)
Revised(k, status, state) == [claim[k] EXCEPT !.status = status, !.state = state, !.rev = @ + 1]

(* record_review_state: a claim that is closed, locked or already in the state is  *)
(* left alone; one that another intention uses makes the transaction fail          *)
Reviewable(k, s) == InForce(k) /\ ~Locked(k) /\ claim[k].state # s
ReviewFails(k, s, c) == Reviewable(k, s) /\ ClaimInApplication(k, c, Nobody)
Reviewed(states) ==      \* states: the claims to change and their new state
    [k \in Claims |-> IF k \in DOMAIN states /\ Reviewable(k, states[k])
                      THEN Revised(k, claim[k].status, states[k])
                      ELSE claim[k]]

(* _evidence_document and _validate_new_evidence                                  *)
EvidenceHolds(k) ==
    /\ \A o \in Chain(k) : Published(NoteOf[o]) /\ vault[NoteOf[o]] = row[NoteOf[o]].text
    /\ \A o \in Origins(k) : InForce(o) /\ claim[o].state = "CURRENT"
NewEvidence(c) == EvidenceHolds(Witness[c]) /\ vault[NoteOf[Witness[c]]] = cand[c].source

TargetsDiffer(c, d) == TargetNote(d) # TargetNote(c)
NotesApart(c, d) == TargetNote(d) \notin {TargetNote(c)} \cup Reads(c) /\ TargetNote(c) \notin Reads(d)

(* check_application                                                              *)
Applicable(c) ==
    /\ cand[c].status = "PENDING_REVIEW"
    /\ \A n \in {TargetNote(c)} \cup Reads(c) : ~NoteInReversion(n, Nobody)
    /\ InForce(Target[c]) /\ ~Locked(Target[c])
    /\ Published(TargetNote(c)) /\ row[TargetNote(c)].text = cand[c].base
    /\ InForce(Witness[c]) /\ ~Locked(Witness[c]) /\ Published(NoteOf[Witness[c]])
    /\ ~\E d \in Candidates \ {c} : Contradicts(d, Target[c]) \/ Contradicts(d, Witness[c])
    /\ \A d \in Candidates \ {c} : Applying(d) => NotesApart(c, d)

-----------------------------------------------------------------------------
(* Proposals: created by an extraction, compared by the Broker, edited and         *)
(* rejected by a person                                                            *)

(* create_candidate *)
Propose(c) ==
    /\ phase = "up" /\ cand[c].status = "none"
    /\ InForce(Target[c]) /\ Published(TargetNote(c))
    /\ InForce(Witness[c]) /\ Published(NoteOf[Witness[c]])
    /\ cand' = [cand EXCEPT ![c].status = "PENDING_COMPARISON"]
    /\ UNCHANGED <<files, obsidian, process, faults, row, recon, claim, rever, last>>

(* What a comparison says of the two claims, and whether it proposes a text; a target *)
(* that is locked gets no patch                                                     *)
ReviewBy(c, relation) ==
    CASE relation = "CONTRADICTS" -> [k \in {Target[c], Witness[c]} |-> "DISPUTED"]
      [] relation = "UNCERTAIN"   -> [k \in {Witness[c]} |-> "UNCERTAIN"]
      [] OTHER                    -> [k \in {} |-> "none"]
Patched(c, relation) ==
    relation \in {"EXTENDS", "CONTRADICTS", "SUPERSEDES"} /\ ~Locked(Target[c])
NewlyDisputed(c, relation) ==
    {k \in {Target[c], Witness[c]} : relation = "CONTRADICTS" /\ Reviewable(k, "DISPUTED")}

ComparedAs(c, relation) ==
    LET memory == cand[c].disputed  newly == NewlyDisputed(c, relation)
    IN  [cand[c] EXCEPT
            !.status = IF relation \in {"SUPPORTS", "UNRELATED"} THEN "REJECTED" ELSE "PENDING_REVIEW",
            !.relation = relation, !.revision = @ + 1,
            !.base = IF Patched(c, relation) THEN row[TargetNote(c)].text ELSE NoFile,
            !.source = vault[NoteOf[Witness[c]]],
            !.disputed = [k \in DOMAIN memory \cup newly |->
                              IF k \in newly THEN claim[k].state ELSE memory[k]]]

(* compare and record_comparison, for the Broker's answer and for a person's edit    *)
Compare(c, relation) ==
    LET states == ReviewBy(c, relation)
    IN
    /\ phase = "up" /\ cand[c].revision < MaxRevision
    /\ cand[c].status \in {"PENDING_COMPARISON", "PENDING_REVIEW", "CONFLICT"}
    /\ Published(TargetNote(c)) /\ EvidenceHolds(Witness[c])
    /\ InForce(Target[c])
    /\ Patched(c, relation) => vault[TargetNote(c)] = row[TargetNote(c)].text
    /\ \A k \in DOMAIN states : ~ReviewFails(k, states[k], c)
    /\ claim' = Reviewed(states)
    /\ cand' = [cand EXCEPT ![c] = ComparedAs(c, relation)]
    /\ UNCHANGED <<files, obsidian, process, faults, row, recon, rever, last>>

(* reject_candidate with _release_dispute: claims that no other open contradiction *)
(* involves go back to the state they had                                          *)
Reject(c) ==
    LET open     == cand[c].relation = "CONTRADICTS"
        released == {k \in {Target[c], Witness[c]} :
                        /\ open /\ claim[k].state = "DISPUTED"
                        /\ ~\E d \in Candidates \ {c} : Contradicts(d, k)}
        before   == [k \in released |-> IF k \in DOMAIN cand[c].disputed
                                        THEN cand[c].disputed[k] ELSE "CURRENT"]
    IN
    /\ phase = "up" /\ cand[c].status \in {"PENDING_COMPARISON", "PENDING_REVIEW", "CONFLICT"}
    /\ \A k \in released : ~ReviewFails(k, before[k], c)
    /\ claim' = Reviewed(before)
    /\ cand' = [cand EXCEPT ![c].status = "REJECTED"]
    /\ UNCHANGED <<files, obsidian, process, faults, row, recon, rever, last>>

(* set_manual_lock *)
SetManualLock(k) ==
    /\ phase = "up" /\ edits < MaxEdits /\ InForce(k)
    /\ ~ClaimInApplication(k, Nobody, Nobody)
    /\ claim' = [claim EXCEPT ![k].lock = @ + 1]
    /\ edits' = edits + 1
    /\ UNCHANGED <<vault, obsidian, process, faults, row, recon, cand, rever, last>>

-----------------------------------------------------------------------------
(* Applying a proposal                                                             *)

(* mark_candidate: the outcomes APPLIED and REJECTED are final                      *)
Marked(c, status) ==
    IF cand[c].status \in {"APPLIED", "REJECTED"} THEN cand ELSE [cand EXCEPT ![c].status = status]

Goto(c, step) == pc' = [pc EXCEPT ![c] = step]

(* The request a thread sends: one identifier per approved revision; 0 reverts      *)
CommandOf(c) ==
    IF Reverting(c) THEN [id |-> <<c, 0>>, base |-> Result(c), result |-> cand[c].base]
                    ELSE [id |-> <<c, cand[c].revision>>, base |-> cand[c].base, result |-> Result(c)]

(* ObsidianBridgeClient._request: sent, or Obsidian cannot be reached               *)
Ask(c) ==
    \/ /\ Goto(c, "asked") /\ queue' = queue \cup {CommandOf(c)}
       /\ UNCHANGED faults
    \/ /\ faults < MaxFaults /\ faults' = faults + 1
       /\ Goto(c, "idle") /\ UNCHANGED queue

(* approve, until the intention: what it reads under no lock                        *)
ApproveRead(c) ==
    /\ phase = "up" /\ pc[c] = "idle"
    /\ cand[c].status = "PENDING_REVIEW" /\ cand[c].base # NoFile
    /\ Published(TargetNote(c))
    /\ IF vault[TargetNote(c)] = cand[c].base /\ NewEvidence(c)
       THEN /\ Goto(c, "read") /\ held' = [held EXCEPT ![c] = cand[c].revision]
            /\ UNCHANGED cand
       ELSE /\ cand' = Marked(c, "CONFLICT")
            /\ UNCHANGED <<pc, held>>
    /\ UNCHANGED <<files, obsidian, faults, row, recon, claim, rever, last, phase, todo, adopting>>

(* prepare_application: the intention, or the refusal of one of the guards          *)
PrepareApplication(c) ==
    /\ pc[c] = "read" /\ held' = [held EXCEPT ![c] = 0]
    /\ IF Applicable(c) /\ cand[c].revision = held[c]
       THEN /\ cand' = [cand EXCEPT ![c].status = "APPLYING"]
            /\ last' = [last EXCEPT ![TargetNote(c)] = [why |-> "update", cand |-> c]]
            /\ Goto(c, "intent")
       ELSE Goto(c, "idle") /\ UNCHANGED <<cand, last>>
    /\ UNCHANGED <<files, obsidian, faults, row, recon, claim, rever, phase, todo, adopting>>

(* approve, after the intention: a last look at both notes, then _materialize       *)
SendApplication(c) ==
    /\ pc[c] = "intent"
    /\ IF vault[TargetNote(c)] = cand[c].base /\ NewEvidence(c)
       THEN Ask(c) /\ UNCHANGED cand
       ELSE /\ cand' = Marked(c, "CONFLICT") /\ Goto(c, "idle")
            /\ UNCHANGED <<queue, faults>>
    /\ UNCHANGED <<files, busy, receipts, written, row, recon, claim, rever, last,
                   held, phase, todo, adopting>>

(* The note has the text the intention was for *)
Exists(c)   == vault[TargetNote(c)] # NoFile
Replaced(c) == vault[TargetNote(c)] = Result(c)

(* The answer of Obsidian and the look at the file that follows it                  *)
ReceiveApplied(c) ==
    /\ pc[c] = "answered" /\ Applying(c)
    /\ IF Replaced(c)
       THEN Goto(c, "replaced") /\ UNCHANGED cand
       ELSE Goto(c, "idle") /\ cand' = Marked(c, "CONFLICT")
    /\ UNCHANGED <<files, obsidian, faults, row, recon, claim, rever, last,
                   held, phase, todo, adopting>>

ReceiveRefused(c) ==
    /\ pc[c] = "refused" /\ Applying(c)
    /\ Goto(c, "idle") /\ cand' = Marked(c, "CONFLICT")
    /\ UNCHANGED <<files, obsidian, faults, row, recon, claim, rever, last,
                   held, phase, todo, adopting>>

(* mark_applied: the evidence becomes current, its projection and the new text      *)
(* replace the target, and other proposals about the target are closed. If the      *)
(* evidence takes part in another intention and is not current, or the target was   *)
(* closed meanwhile, the transaction fails, and with it the start that ran it.      *)
MarkApplied(c) ==
    LET t == Target[c]  w == Witness[c]  s == Successor[c]
        reviewed == Reviewed([k \in {w} |-> "CURRENT"])
        fails == ReviewFails(w, "CURRENT", c) \/ ~InForce(t) \/ Locked(t)
    IN
    /\ pc[c] = "replaced"
    /\ Goto(c, "idle")
    /\ IF fails
       THEN /\ phase' = IF phase = "up" THEN "up" ELSE "failed"
            /\ UNCHANGED <<claim, cand, row>>
       ELSE /\ claim' = [reviewed EXCEPT
                    ![s] = [status |-> "ACTIVE", state |-> "CURRENT", rev |-> 1, lock |-> 0],
                    ![t] = Revised(t, "SUPERSEDED",
                        IF cand[c].relation = "SUPERSEDES" THEN "SUPERSEDED" ELSE "HISTORICAL")]
            /\ cand' = [d \in Candidates |->
                    IF d = c THEN [cand[c] EXCEPT !.status = "APPLIED", !.was = claim[t].state]
                    ELSE IF /\ Target[d] = t
                            /\ cand[d].status \in {"PENDING_COMPARISON", "PENDING_REVIEW"}
                    THEN [cand[d] EXCEPT !.status = "CONFLICT"]
                    ELSE cand[d]]
            /\ row' = [row EXCEPT ![TargetNote(c)].text = Result(c)]
            /\ UNCHANGED phase
    /\ UNCHANGED <<files, obsidian, faults, recon, rever, last, held, todo, adopting>>

(* The client gives up (20 s), or the request was lost with Obsidian: the intention *)
(* stays for the next start                                                         *)
NoAnswer(c) ==
    LET lost == CommandOf(c) \notin queue /\ busy.cmd # CommandOf(c)
    IN
    /\ pc[c] = "asked"
    /\ lost \/ faults < MaxFaults
    /\ faults' = IF lost THEN faults ELSE faults + 1
    /\ Goto(c, "idle")
    /\ UNCHANGED <<files, database, obsidian, held, phase, todo, adopting>>

-----------------------------------------------------------------------------
(* The bridge inside Obsidian: one request at a time, a record of the journal       *)
(* before and after the replacement                                                 *)

Idle == busy.cmd = NoCommand
FileOf(cmd) == TargetNote(cmd.id[1])

(* The journal knows the request *)
Refused(cmd) == receipts[cmd.id] \in {"CONFLICT", "UNCERTAIN"}
Known(cmd)   == receipts[cmd.id] # "none"

(* The note has the text the request was made for *)
Found(cmd)    == vault[FileOf(cmd)] # NoFile
SameBase(cmd) == vault[FileOf(cmd)] = cmd.base

(* The thread that waits for this request gets its answer; a late one is dropped    *)
Answer(cmd, step) ==
    LET c == cmd.id[1]
    IN  pc' = IF pc[c] = "asked" /\ CommandOf(c) = cmd THEN [pc EXCEPT ![c] = step] ELSE pc

(* applyCommand, when the journal knows the request: nothing is written again       *)
BridgeKnown(cmd) ==
    LET known == receipts[cmd.id]
        there == vault[FileOf(cmd)] = cmd.result
    IN
    /\ Idle /\ cmd \in queue /\ Known(cmd)
    /\ queue' = queue \ {cmd}
    /\ IF vault[FileOf(cmd)] = NoFile
       THEN Answer(cmd, "refused") /\ UNCHANGED receipts
       ELSE IF known = "PREPARED"
       THEN /\ receipts' = [receipts EXCEPT ![cmd.id] = IF there THEN "APPLIED" ELSE "UNCERTAIN"]
            /\ Answer(cmd, IF there THEN "answered" ELSE "refused")
       ELSE /\ Answer(cmd, IF known = "APPLIED" THEN "answered" ELSE "refused")
            /\ UNCHANGED receipts
    /\ UNCHANGED <<files, database, busy, written, held, phase, todo, adopting, faults>>

BridgePrepare(cmd) ==
    /\ Idle /\ cmd \in queue /\ ~Known(cmd)
    /\ queue' = queue \ {cmd}
    /\ IF vault[FileOf(cmd)] = NoFile
       THEN Answer(cmd, "refused") /\ UNCHANGED <<receipts, busy>>
       ELSE /\ receipts' = [receipts EXCEPT ![cmd.id] = "PREPARED"]
            /\ busy' = [cmd |-> cmd, done |-> FALSE]
            /\ UNCHANGED pc
    /\ UNCHANGED <<files, database, written, held, phase, todo, adopting, faults>>

(* vault.process: compares and writes in one step; another text is a conflict, a    *)
(* file that is gone makes it throw                                                 *)
BridgeWrite ==
    LET cmd == busy.cmd  n == FileOf(cmd)
    IN
    /\ ~Idle /\ ~busy.done
    /\ IF SameBase(cmd)
       THEN /\ vault' = [vault EXCEPT ![n] = cmd.result]
            /\ written' = written \cup {cmd.id}
            /\ busy' = [busy EXCEPT !.done = TRUE]
            /\ UNCHANGED <<receipts, pc>>
       ELSE /\ receipts' = [receipts EXCEPT ![cmd.id] =
                                IF vault[n] = NoFile THEN "UNCERTAIN" ELSE "CONFLICT"]
            /\ busy' = [cmd |-> NoCommand, done |-> FALSE]
            /\ Answer(cmd, "refused")
            /\ UNCHANGED <<vault, written>>
    /\ UNCHANGED <<database, edits, queue, held, phase, todo, adopting, faults>>

BridgeReceipt ==
    /\ ~Idle /\ busy.done
    /\ receipts' = [receipts EXCEPT ![busy.cmd.id] = "APPLIED"]
    /\ busy' = [cmd |-> NoCommand, done |-> FALSE]
    /\ Answer(busy.cmd, "answered")
    /\ UNCHANGED <<files, database, queue, written, held, phase, todo, adopting, faults>>

(* Obsidian is closed and opened again: the journal and the notes remain            *)
ObsidianStops ==
    /\ faults < MaxFaults /\ faults' = faults + 1
    /\ queue # {} \/ ~Idle
    /\ queue' = {} /\ busy' = [cmd |-> NoCommand, done |-> FALSE]
    /\ UNCHANGED <<files, database, receipts, written, process>>

-----------------------------------------------------------------------------
(* Reversions: a plan that is seen first and confirmed later                        *)

(* _documents: the notes are as planned, and the old text is the one the evidence   *)
(* of the target was extracted from                                                 *)
Documents(c, texts, replaced) ==
    \A n \in Reserves(c) :
        LET target == n = TargetNote(c)
            text   == IF target THEN cand[c].base ELSE texts[n]
            source == \E k \in Chain(Target[c]) : NoteOf[k] = n /\ Origins(k) = {}
        IN  /\ vault[n] = (IF replaced /\ target THEN cand[c].base ELSE texts[n])
            /\ source => text = Original

(* snapshot: what must hold for c to be reverted                                    *)
Revertible(c, this) ==       \* this: the reversion that asks, if it has begun
    LET n == TargetNote(c)  t == Target[c]  s == Successor[c]
        involved == ClaimsIn(n) \cup Chain(t)
    IN
    /\ cand[c].status = "APPLIED"
    /\ this = c \/ rever[c].status \notin {"APPLYING", "APPLIED"}
    /\ Published(n) /\ row[n].text = Result(c)
    /\ last[n] \in {[why |-> "update", cand |-> c]} \cup
                   (IF this = c THEN {[why |-> "reversion", cand |-> c]} ELSE {})
    /\ \A k \in ClaimsIn(n) : ~Locked(k)
    /\ claim[t].status = "SUPERSEDED"
    /\ InForce(s) /\ claim[s].state = "CURRENT" /\ claim[s].rev = 1
    /\ ~\E d \in Candidates : NoteOf[Witness[d]] = n /\ InForce(Successor[d])
    /\ ~\E d \in Candidates \ {c} : Contradicts(d, t) \/ Contradicts(d, s)
    /\ \A k \in Chain(t) \ {t} : InForce(k) /\ claim[k].state = "CURRENT" /\ ~Locked(k)
    /\ \A m \in Reserves(c) : Published(m) /\ ~NoteInReversion(m, this)
    /\ \A k \in involved : ~ClaimInApplication(k, Nobody, this)

Picture(c) ==                \* the rows the plan holds, compared as a whole
    [claims |-> [k \in ClaimsIn(TargetNote(c)) \cup Chain(Target[c]) |-> claim[k]],
     texts  |-> [n \in Reserves(c) |-> row[n].text]]

(* preview *)
PreviewReversion(c) ==
    /\ phase = "up" /\ rever[c].status = "none"
    /\ Revertible(c, Nobody) /\ Documents(c, Picture(c).texts, FALSE)
    /\ rever' = [rever EXCEPT ![c] = [status |-> "PREVIEW", plan |-> Picture(c)]]
    /\ UNCHANGED <<files, obsidian, process, faults, row, recon, claim, cand, last>>

(* confirm, until the intention (begin)                                             *)
BeginReversion(c) ==
    /\ phase = "up" /\ pc[c] = "idle" /\ rever[c].status = "PREVIEW"
    /\ Documents(c, rever[c].plan.texts, FALSE)
    /\ Revertible(c, Nobody) /\ Picture(c) = rever[c].plan
    /\ rever' = [rever EXCEPT ![c].status = "APPLYING"]
    /\ last' = [last EXCEPT ![TargetNote(c)] = [why |-> "reversion", cand |-> c]]
    /\ Goto(c, "revert")
    /\ UNCHANGED <<files, obsidian, faults, row, recon, claim, cand,
                   held, phase, todo, adopting>>

(* conflict: the reversion ends, and the note waits for a person                    *)
ReversionConflict(c) ==
    /\ rever' = [rever EXCEPT ![c].status = "CONFLICT"]
    /\ recon' = [recon EXCEPT ![TargetNote(c)] = "CONFLICT"]
    /\ Goto(c, "idle")

(* _apply, until the request: the note may have been replaced before a crash        *)
SendReversion(c) ==
    LET replaced == vault[TargetNote(c)] = cand[c].base
    IN
    /\ pc[c] = "revert"
    /\ IF Documents(c, rever[c].plan.texts, replaced)
       THEN /\ IF replaced THEN Goto(c, "reverted") /\ UNCHANGED <<queue, faults>> ELSE Ask(c)
            /\ UNCHANGED <<rever, recon>>
       ELSE ReversionConflict(c) /\ UNCHANGED <<queue, faults>>
    /\ UNCHANGED <<files, busy, receipts, written, row, claim, cand, last,
                   held, phase, todo, adopting>>

ReceiveReverted(c) ==
    /\ pc[c] \in {"answered", "refused"} /\ Reverting(c)
    /\ IF pc[c] = "answered" /\ vault[TargetNote(c)] = cand[c].base
       THEN Goto(c, "reverted") /\ UNCHANGED <<rever, recon>>
       ELSE ReversionConflict(c)
    /\ UNCHANGED <<files, obsidian, faults, row, claim, cand, last, held, phase, todo, adopting>>

Restored(c) == [claim EXCEPT ![Target[c]] = Revised(Target[c], "ACTIVE", cand[c].was)]
Undone(c)   == [Restored(c) EXCEPT
                    ![Successor[c]] = Revised(Successor[c], "RETRACTED", "HISTORICAL")]

(* finish: the target is in force again, its successor is retracted                 *)
FinishReversion(c) ==
    LET n == TargetNote(c)  s == Successor[c]
    IN
    /\ pc[c] = "reverted"
    /\ IF /\ Documents(c, rever[c].plan.texts, TRUE)
          /\ Revertible(c, c) /\ Picture(c) = rever[c].plan
       THEN /\ Goto(c, "idle")
            /\ rever' = [rever EXCEPT ![c].status = "APPLIED"]
            /\ claim' = Undone(c)
            /\ cand' = [d \in Candidates |->
                    IF Target[d] = s /\ cand[d].status \in {"PENDING_COMPARISON", "PENDING_REVIEW"}
                    THEN [cand[d] EXCEPT !.status = "CONFLICT"] ELSE cand[d]]
            /\ row' = [row EXCEPT ![n].text = cand[c].base]
            /\ recon' = [recon EXCEPT ![n] = "IN_SYNC"]
       ELSE ReversionConflict(c) /\ UNCHANGED <<claim, cand, row>>
    /\ UNCHANGED <<files, obsidian, faults, last, held, phase, todo, adopting>>

-----------------------------------------------------------------------------
(* Crash and startup: recover() of the applications, then of the reversions, one     *)
(* intention after the other, then reconcile()                                      *)

Crash ==
    /\ phase # "down" /\ faults < MaxFaults /\ faults' = faults + 1
    /\ phase' = "down" /\ todo' = {}
    /\ pc' = [c \in Candidates |-> "idle"] /\ held' = [c \in Candidates |-> 0]
    /\ adopting' = [note |-> NoFile, text |-> NoFile]
    /\ UNCHANGED <<files, database, obsidian>>

Start ==
    /\ phase \in {"down", "failed"}
    /\ phase' = "applications"
    /\ todo' = {c \in Candidates : Applying(c)}
    /\ pc' = [c \in Candidates |-> "idle"]
    /\ UNCHANGED <<files, database, obsidian, held, adopting, faults>>

Ready(c) ==       \* the next of the list, and nothing under way
    /\ \A d \in Candidates : pc[d] = "idle"
    /\ c \in todo /\ \A d \in todo : c <= d

(* SemanticMaintenanceService.recover, one intention                                *)
RecoverApplication(c) ==
    LET text == vault[TargetNote(c)]
        ends(status) == cand' = Marked(c, status) /\ UNCHANGED <<pc, queue, faults>>
    IN
    /\ phase = "applications" /\ Ready(c)
    /\ todo' = todo \ {c}
    /\ CASE text = NoFile -> ends("ERROR")
         [] text # NoFile /\ Replaced(c) -> Goto(c, "replaced") /\ UNCHANGED <<cand, queue, faults>>
         [] text # NoFile /\ ~Replaced(c) /\ (text # cand[c].base \/ ~NewEvidence(c)) -> ends("CONFLICT")
         [] text = cand[c].base /\ ~Replaced(c) /\ NewEvidence(c) -> Ask(c) /\ UNCHANGED cand
    /\ UNCHANGED <<files, busy, receipts, written, row, recon, claim, rever, last,
                   held, phase, adopting>>

Previewed         == {c \in Candidates : rever[c].status = "PREVIEW"}
PendingReversions == {c \in Candidates : Reverting(c)}

RecoverReversions ==
    /\ phase = "applications" /\ todo = {} /\ \A d \in Candidates : pc[d] = "idle"
    /\ phase' = "reversions"
    /\ todo' = PendingReversions
    /\ UNCHANGED <<files, database, obsidian, pc, held, adopting, faults>>

(* MaintenanceReversionService.recover, one intention: _apply from its beginning    *)
RecoverReversion(c) ==
    /\ phase = "reversions" /\ Ready(c)
    /\ todo' = todo \ {c} /\ Goto(c, "revert")
    /\ UNCHANGED <<files, database, obsidian, held, phase, adopting, faults>>

-----------------------------------------------------------------------------
(* Reconciliation: what the files of the published notes look like                  *)

Observed(n) == IF ~Published(n) THEN recon[n]
               ELSE IF vault[n] = NoFile THEN "MISSING"
               ELSE IF vault[n] = row[n].text THEN "IN_SYNC" ELSE "CONFLICT"

(* provenance_filter: the claims a projection comes from are in force, current, in  *)
(* notes that agree with their files, and no intention or contradiction has them     *)
ProvenanceHolds(k, states) ==
    \A o \in Origins(k) :
        /\ InForce(o) /\ claim[o].state = "CURRENT"
        /\ Published(NoteOf[o]) /\ states[NoteOf[o]] = "IN_SYNC"
        /\ ~\E d \in Candidates : Applying(d) /\ TargetNote(d) = NoteOf[o]
        /\ ~NoteInReversion(NoteOf[o], Nobody)
        /\ ~\E d \in Candidates : Contradicts(d, o)

(* reconcile_derived_claims *)
DerivedReviewed(states) ==
    Reviewed([k \in {p \in Projections : /\ InForce(p) /\ claim[p].state = "CURRENT"
                                         /\ ~ProvenanceHolds(p, states)
                                         /\ ~ClaimInApplication(p, Nobody, Nobody)}
              |-> "REVIEW_REQUIRED"])

(* KnowledgeService.reconcile for some of the notes; a start ends with all of them   *)
Reconcile(notes) ==
    /\ recon' = [n \in Notes |-> IF n \in notes THEN Observed(n) ELSE recon[n]]
    /\ claim' = DerivedReviewed(recon')
    /\ UNCHANGED <<files, obsidian, faults, row, cand, rever, last, pc, held, todo, adopting>>

ReconcileOne(n) == phase = "up" /\ Reconcile({n}) /\ UNCHANGED phase

FinishStart ==
    /\ phase = "reversions" /\ todo = {} /\ \A d \in Candidates : pc[d] = "idle"
    /\ phase' = "up"
    /\ Reconcile(Notes)

-----------------------------------------------------------------------------
(* The person: edits and undoes in Obsidian, adopts an edit, retires a note          *)

EditFile(n, text) ==
    /\ edits < MaxEdits /\ edits' = edits + 1
    /\ vault[n] # NoFile
    /\ \/ \E e \in EditMarks \ vault[n] : text = vault[n] \cup {e}
       \/ \E x \in vault[n] : text = vault[n] \ {x}
       \/ text = NoFile
    /\ vault' = [vault EXCEPT ![n] = text]
    /\ UNCHANGED <<database, obsidian, process, faults>>

Changed(n)   == vault[n] # row[n].text
Adoptable(n) == vault[n] \notin {NoFile, row[n].text}

(* adopt_external_version reads the file, and then decides in a transaction          *)
AdoptRead(n) ==
    /\ phase = "up" /\ adopting.note = NoFile
    /\ Published(n) /\ Adoptable(n)
    /\ adopting' = [note |-> n, text |-> vault[n]]
    /\ UNCHANGED <<files, database, obsidian, pc, held, phase, todo, faults>>

(* _retire_claims *)
ActiveIn(n) == {k \in ClaimsIn(n) : InForce(k)}

BlockProposals(n) ==
    cand' = [c \in Candidates |->
                IF /\ cand[c].status \in {"PENDING_COMPARISON", "PENDING_REVIEW"}
                   /\ Target[c] \in ActiveIn(n) \/ Witness[c] \in ActiveIn(n)
                THEN [cand[c] EXCEPT !.status = "CONFLICT"] ELSE cand[c]]

KeepClaims(n)   == BlockProposals(n) /\ UNCHANGED claim
RetireClaims(n) ==
    /\ BlockProposals(n)
    /\ claim' = [k \in Claims |-> IF k \in ActiveIn(n)
                    THEN Revised(k, "RETRACTED", "HISTORICAL")
                    ELSE claim[k]]

InUse(n) == NoteInReversion(n, Nobody) \/ \E c \in Candidates : Applying(c) /\ TargetNote(c) = n

AdoptCommit ==
    LET n == adopting.note
    IN
    /\ n # NoFile
    /\ adopting' = [note |-> NoFile, text |-> NoFile]
    /\ IF Published(n) /\ row[n].text # adopting.text /\ ~InUse(n)
       THEN /\ row' = [row EXCEPT ![n].text = adopting.text]
            /\ recon' = [recon EXCEPT ![n] = "IN_SYNC"]
            /\ last' = [last EXCEPT ![n] = [why |-> "edit", cand |-> Nobody]]
            /\ RetireClaims(n)
       ELSE UNCHANGED <<row, recon, last, claim, cand>>
    /\ UNCHANGED <<files, obsidian, faults, rever, pc, held, phase, todo>>

RetireNote(n) ==
    /\ phase = "up" /\ Published(n) /\ ~InUse(n)
    /\ RetireClaims(n)
    /\ row' = [row EXCEPT ![n].status = "RETIRED"]
    /\ UNCHANGED <<files, obsidian, process, faults, recon, rever, last>>

-----------------------------------------------------------------------------
Proposals == \E c \in Candidates :
    Propose(c) \/ Reject(c) \/ \E relation \in Relations : Compare(c, relation)

Applications == \E c \in Candidates :
    \/ ApproveRead(c) \/ PrepareApplication(c) \/ SendApplication(c)
    \/ ReceiveApplied(c) \/ ReceiveRefused(c) \/ MarkApplied(c) \/ NoAnswer(c)

Reversions == \E c \in Candidates :
    \/ PreviewReversion(c) \/ BeginReversion(c) \/ SendReversion(c)
    \/ ReceiveReverted(c) \/ FinishReversion(c)

Obsidian ==
    \/ \E cmd \in queue : BridgeKnown(cmd) \/ BridgePrepare(cmd)
    \/ BridgeWrite \/ BridgeReceipt \/ ObsidianStops

Startup ==
    \/ Crash \/ Start \/ RecoverReversions \/ FinishStart
    \/ \E c \in Candidates : RecoverApplication(c) \/ RecoverReversion(c)

Person ==
    \/ \E n \in Notes : AdoptRead(n) \/ RetireNote(n)
    \/ \E n \in Notes, text \in {NoFile} \cup Texts : EditFile(n, text)
    \/ AdoptCommit
    \/ \E k \in Claims : SetManualLock(k)

Next == Proposals \/ Applications \/ Reversions \/ Obsidian \/ Startup \/ Person
        \/ \E n \in Notes : ReconcileOne(n)

Spec == Init /\ [][Next]_vars

-----------------------------------------------------------------------------
(* Types of every variable; a row that does not exist has status "none".           *)
TypeOK ==
    /\ vault \in [Notes -> {NoFile} \cup Texts]
    /\ \A n \in Notes : /\ row[n].status \in {"PUBLISHED", "RETIRED"}
                          /\ row[n].text # NoFile /\ row[n].text \in Texts
    /\ recon \in [Notes -> {"IN_SYNC", "CONFLICT", "MISSING"}]
    /\ claim \in [Claims -> [status : ClaimStatus, state : ClaimStates, rev : Nat, lock : 0..MaxEdits]]
    /\ \A c \in Candidates :
        /\ cand[c].status \in CandStatus /\ cand[c].revision \in 0..MaxRevision
        /\ cand[c].base \in {NoFile} \cup Texts /\ cand[c].source \in {NoFile} \cup Texts
        /\ rever[c].status \in ReverStatus
        /\ held[c] \in 0..MaxRevision
    /\ last \in [Notes -> [why : {"none", "update", "reversion", "edit"}, cand : Candidates \cup {Nobody}]]
    /\ queue \subseteq Commands /\ busy \in [cmd : Commands \cup {NoCommand}, done : BOOLEAN]
    /\ receipts \in [RequestIds -> {"none", "PREPARED", "APPLIED", "CONFLICT", "UNCERTAIN"}]
    /\ pc \in [Candidates -> {"idle", "read", "intent", "asked", "answered", "refused", "replaced",
                              "revert", "reverted"}]
    /\ phase \in {"up", "down", "applications", "reversions", "failed"}
    /\ todo \subseteq Candidates
    /\ adopting \in [note : Notes \cup {NoFile}, text : {NoFile} \cup Texts]
    /\ edits \in 0..MaxEdits /\ faults \in 0..MaxFaults
    /\ written \subseteq RequestIds

(* Official text and status of the claims change as OfficialKnowledge says, whatever *)
(* the files, the bridge and the crashes do                                          *)
Knowledge == INSTANCE OfficialKnowledge WITH
    text   <- [n \in Notes |-> row[n].text],
    open   <- {n \in Notes : Published(n)},
    status <- [k \in Claims |-> claim[k].status]

ImplementsKnowledge == Knowledge!Spec

(* The notes an intention uses are not the note another intention replaces,         *)
(* whichever thread prepared it and whatever recovery left pending                  *)
IntentionsDoNotMeet ==
    \A c, d \in Candidates :
        /\ Applying(c) /\ Applying(d) /\ c # d => TargetNote(d) \notin {TargetNote(c)} \cup Reads(c)
        /\ Applying(c) /\ Reverting(d) =>
              /\ TargetNote(c) \notin Reserves(d)
              /\ TargetNote(d) \notin {TargetNote(c)} \cup Reads(c)
        /\ Reverting(c) /\ Reverting(d) /\ c # d => Reserves(c) \cap Reserves(d) = {}

(* A proposal recorded as applied did replace its note through Obsidian; so did a   *)
(* reversion, unless the person took the change out by hand before it was sent      *)
AppliedWasWritten ==
    \A c \in Candidates :
        /\ cand[c].status = "APPLIED" => \E r \in 1..MaxRevision : <<c, r>> \in written
        /\ rever[c].status = "APPLIED" => <<c, 0>> \in written \/ edits > 0

(* Every variable keeps its type, with that                                          *)
TablesAreSound == TypeOK /\ AppliedWasWritten

(* Nothing but the person takes an edit of the person out of a note                 *)
EditsAreKept ==
    [][ edits' = edits => \A n \in Notes :
            IF vault[n] = NoFile THEN vault'[n] = NoFile
            ELSE vault[n] \cap EditMarks \subseteq vault'[n] ]_vars

(* One request replaces its note at most once, also when it is sent again after a   *)
(* lost answer or a restart and the person has put the old text back meanwhile      *)
WrittenOnce == [][ vault' # vault /\ edits' = edits => busy.cmd.id \notin written ]_vars

(* No start is stopped by one application                                           *)
NoStartFails == phase # "failed"

-----------------------------------------------------------------------------
(* A start is one thread that goes on; Obsidian works off what it received. The      *)
(* person starts the program again after it stopped.                                *)
Fairness ==
    /\ WF_vars(Start) /\ WF_vars(RecoverReversions) /\ WF_vars(FinishStart)
    /\ \A c \in Candidates :
        /\ WF_vars(RecoverApplication(c)) /\ WF_vars(RecoverReversion(c))
        /\ WF_vars(ReceiveApplied(c)) /\ WF_vars(ReceiveRefused(c)) /\ WF_vars(MarkApplied(c))
        /\ WF_vars(SendReversion(c)) /\ WF_vars(ReceiveReverted(c)) /\ WF_vars(FinishReversion(c))
        /\ WF_vars(NoAnswer(c))
    /\ WF_vars(\E cmd \in queue : BridgeKnown(cmd) \/ BridgePrepare(cmd))
    /\ WF_vars(BridgeWrite) /\ WF_vars(BridgeReceipt)

FairSpec == Spec /\ Fairness

(* A start with Obsidian at hand settles every intention a crash left pending        *)
StartSettles ==
    \A c \in Candidates :
        phase = "down" /\ faults = MaxFaults /\ (Applying(c) \/ Reverting(c))
            ~> phase = "up" /\ ~Applying(c) /\ ~Reverting(c)
=============================================================================
