------------------------------ MODULE ReviewPage ------------------------------
(***************************************************************************)
(* The page where the person reviews the proposals, and the dialogs of the *)
(* batches it opens. The list is of a reading made in the background; the  *)
(* texts beside it are read when a row is shown, and may fail to be. What  *)
(* the person decides is about the row that was there when a button was    *)
(* pressed, whatever comes under the question.                             *)
(*                                                                         *)
(* The proposals and the batches are those of Proposals and ReviewBatches, *)
(* as the window sees them: a preview and each step of the worker is one   *)
(* action here. The batches are those of the window.                       *)
(***************************************************************************)
EXTENDS Naturals, Sequences, FiniteSets, FiniteSetsExt, Functions

CONSTANTS
    Proposed,       \* candidate_id: numbers, in the order of the list
    Dialogs,        \* the dialogs that are opened
    MaxBatches,     \* bound: batches made
    MaxSurprises,   \* bound: revisions by others, and operations that fail
    MaxChoices,     \* bound: decisions of the person in the page
    NoRow

ASSUME ReviewPageAssumption ==
    Proposed \subseteq Nat /\ {MaxBatches, MaxSurprises, MaxChoices} \subseteq Nat

VARIABLES
    pending,    \* update_candidates: proposal_revision and status
    lots,       \* review_batches with their items, in the order they were created
    behind,     \* the last reading of snapshots.reviews()
    listed,     \* _review_items, the selection and the focus of the tree, and _review_selection_initialized
    beside,     \* _selected_review, the proposal and revision of the texts, and the buttons that are on
    asking,     \* the question or the editor that is open: the row it is about, and what was read of it
    dialogs,    \* each ReviewBatchDialog: batch, button, _busy, the order in flight and its answer
    surprises,  \* the bounds used
    choices

reviewVars == <<pending, lots, behind, listed, beside, asking, dialogs, surprises, choices>>

ShownStatus == {"PENDING_REVIEW", "CONFLICT", "APPLYING"}
OpenStatus == {"PENDING_REVIEW", "CONFLICT"}
NothingBeside == [row |-> NoRow, text |-> <<0, 0>>, whole |-> TRUE, buttons |-> {}]
NoQuestionAsked == [kind |-> "none", row |-> NoRow, text |-> <<0, 0>>, whole |-> TRUE]
NoOrderSent == [kind |-> "none", lot |-> 0, selection |-> <<>>]
NoLot == [lot |-> 0, status |-> "none"]
Unopened == [at |-> "unopened", shown |-> NoLot, button |-> FALSE, asks |-> FALSE, found |-> {},
             job |-> NoOrderSent, answer |-> "none", got |-> NoLot]

(* None yet, or one left without confirming in an earlier session                 *)
EarlierDraft == [status |-> "DRAFT", revs |-> [c \in Proposed |-> 1], eligible |-> Proposed]
ReviewInit ==
    /\ pending = [c \in Proposed |-> [rev |-> 1, status |-> "PENDING_REVIEW"]]
    /\ lots \in {<<>>, <<EarlierDraft>>} /\ behind = <<>>
    /\ listed = [items |-> <<>>, chosen |-> {}, focus |-> 0, started |-> FALSE]
    /\ beside = NothingBeside /\ asking = NoQuestionAsked
    /\ dialogs = [d \in Dialogs |-> Unopened]
    /\ surprises \in {0, 1} /\ choices = 0

Surprise == surprises < MaxSurprises /\ surprises' = surprises + 1
Choice == choices < MaxChoices /\ choices' = choices + 1

-----------------------------------------------------------------------------
(* snapshots.reviews(): a reading of what is not settled, made in the background  *)
Reading(table) == Restrict(table, {c \in Proposed : table[c].status \in ShownStatus})
ReadsReviews ==
    /\ behind' = Reading(pending) /\ behind' # behind
    /\ UNCHANGED <<pending, lots, listed, beside, asking, dialogs, surprises, choices>>

(* _render_review: the row is taken at once; its texts and its buttons come after *)
(* a reading of the proposal, which may fail and leave those of another           *)
ButtonsOf(status, applicable) ==
    (IF status = "APPLYING" THEN {} ELSE {"reject"})
    \cup (IF status = "PENDING_REVIEW" THEN {"edit"} ELSE {})
    \cup (IF status = "PENDING_REVIEW" /\ applicable THEN {"approve"} ELSE {})
RenderReview(items, c, table, before) ==
    LET row == [c |-> c, rev |-> items[c].rev, status |-> items[c].status]
    IN  \/ \E applicable \in BOOLEAN :
            beside' = [row |-> row, text |-> <<c, table[c].rev>>, whole |-> TRUE,
                       buttons |-> ButtonsOf(row.status, applicable)]
           /\ UNCHANGED surprises
        \/ Surprise /\ beside' = [before EXCEPT !.row = row, !.whole = FALSE]
ClearReview == beside' = NothingBeside /\ UNCHANGED surprises

(* Defect: whenever nothing is left of the selection, the first one is selected   *)
FirstOne(kept, items) == IF kept = {} /\ items # {} THEN {Min(items)} ELSE kept
Preserved(kept, items) ==
    IF kept = {} /\ items # {} /\ ~listed.started THEN {Min(items)} ELSE kept
RefreshReviews(items, table, before) ==
    LET kept == Preserved(listed.chosen \cap DOMAIN items, DOMAIN items)
        c == IF listed.focus \in kept THEN listed.focus ELSE Min(kept)
    IN  /\ behind' = items
        /\ listed' = [items |-> items, chosen |-> kept, focus |-> IF kept = {} THEN 0 ELSE c,
                      started |-> listed.started \/ items # <<>>]
        /\ IF kept = {} THEN ClearReview ELSE RenderReview(items, c, table, before)
Refreshes ==            \* every 2 s
    /\ RefreshReviews(behind, pending, beside)
    /\ UNCHANGED <<pending, lots, asking, dialogs, choices>>

(* _select_review: the person clicks, with Ctrl to add one or to take it out      *)
SelectReview(chosen, c) ==
    /\ asking = NoQuestionAsked /\ chosen \subseteq DOMAIN listed.items
    /\ c \in chosen \/ chosen = {}
    /\ <<chosen, c>> # <<listed.chosen, listed.focus>>
    /\ listed' = [listed EXCEPT !.chosen = chosen, !.focus = c]
    /\ IF chosen = {} THEN ClearReview ELSE RenderReview(listed.items, c, pending, beside)
    /\ UNCHANGED <<pending, lots, behind, asking, dialogs, choices>>

-----------------------------------------------------------------------------
(* _reject_selected, _edit_selected_review: the row is kept while the question is *)
(* open, and the list goes on under it; the editor shows what it reads of the      *)
(* proposal when it is opened                                                     *)
AskAbout(kind) ==
    /\ asking = NoQuestionAsked /\ kind \in beside.buttons \ {"approve"} /\ Choice
    /\ asking' = [kind |-> kind, row |-> beside.row,
                  whole |-> kind = "edit" \/ beside.whole,
                  text |-> IF kind = "edit" THEN <<beside.row.c, pending[beside.row.c].rev>> ELSE beside.text]
    /\ UNCHANGED <<pending, lots, behind, listed, beside, dialogs, surprises>>
GivesUp ==
    /\ asking # NoQuestionAsked /\ asking' = NoQuestionAsked
    /\ UNCHANGED <<pending, lots, behind, listed, beside, dialogs, surprises, choices>>

(* reject_candidate, record_comparison: at the revision that was expected. The    *)
(* window reads the list itself before it goes on                                 *)
(* Defect: at whatever revision there is                                          *)
AnyRevision(row) == pending[row.c].status \in OpenStatus
AsExpected(row) == pending[row.c].rev = row.rev /\ pending[row.c].status \in OpenStatus
Decides(c, outcome, before) ==
    /\ asking' = NoQuestionAsked
    /\ pending' = [pending EXCEPT ![c] = outcome]
    /\ RefreshReviews(Reading(pending'), pending', before)
    /\ UNCHANGED <<lots, dialogs, choices>>
RejectReview ==
    /\ asking.kind = "reject"
    /\ LET c == asking.row.c
       IN  IF AsExpected(asking.row)
           THEN Decides(c, [pending[c] EXCEPT !.status = "REJECTED"], NothingBeside)
           ELSE /\ asking' = NoQuestionAsked
                /\ UNCHANGED <<pending, lots, behind, listed, beside, dialogs, surprises, choices>>
SaveEdition ==      \* what is refused leaves the editor open; to say that nothing changes is to reject
    /\ asking.kind = "edit" /\ AsExpected(asking.row)
    /\ LET c == asking.row.c
       IN  \E status \in {"PENDING_REVIEW", "REJECTED"} :
            Decides(c, [rev |-> pending[c].rev + 1, status |-> status], beside)

-----------------------------------------------------------------------------
(* ReviewBatchDialog: an order at a time, in a thread                             *)
Idle(d) == dialogs[d].job = NoOrderSent
DialogIs(d, record) == dialogs' = [dialogs EXCEPT ![d] = record]
Sent(record, job) == [record EXCEPT !.job = job, !.button = FALSE, !.answer = "none"]
OrderOf(kind, lot) == [NoOrderSent EXCEPT !.kind = kind, !.lot = lot]
Usable(d) == dialogs[d].at = "open" /\ ~dialogs[d].asks /\ asking.kind # "edit"

(* On the row shown, on the selection, on all that are pending, or the history    *)
Revisions(cs) == [c \in cs |-> listed.items[c].rev]
Opened(d, job) ==
    /\ dialogs[d].at = "unopened" /\ asking = NoQuestionAsked /\ Choice
    /\ DialogIs(d, Sent([Unopened EXCEPT !.at = "open"], job))
    /\ UNCHANGED <<pending, lots, behind, listed, beside, asking, surprises>>
ApproveSelected(d) ==
    /\ "approve" \in beside.buttons
    /\ Opened(d, [NoOrderSent EXCEPT !.kind = "preview", !.selection = [c \in {beside.row.c} |-> beside.row.rev]])
PreviewSelection(d) ==
    /\ listed.chosen # {}
    /\ Opened(d, [NoOrderSent EXCEPT !.kind = "preview", !.selection = Revisions(listed.chosen)])
ReviewAll(d) == Opened(d, OrderOf("preview all", 0))
OpenHistory(d) == Opened(d, OrderOf("list", 0))

(* The thread: its operation, and what it read of a batch at the end of it        *)
Applicable(c, rev) == pending[c] = [rev |-> rev, status |-> "PENDING_REVIEW"]
ToldTo(d, lot) == [dialogs[d] EXCEPT !.answer = "ok", !.got = lot]
Reads(d, b, status) == DialogIs(d, ToldTo(d, [lot |-> b, status |-> status]))
PreviewBatch(d) ==
    /\ dialogs[d].job.kind \in {"preview", "preview all"} /\ Len(lots) < MaxBatches
    /\ LET selection == IF dialogs[d].job.kind = "preview" THEN dialogs[d].job.selection
                        ELSE [c \in {c \in Proposed : pending[c].status \in OpenStatus} |-> pending[c].rev]
       IN  \E eligible \in SUBSET {c \in DOMAIN selection : Applicable(c, selection[c])} :
            lots' = Append(lots, [status |-> "DRAFT", revs |-> selection, eligible |-> eligible])
    /\ Reads(d, Len(lots) + 1, "DRAFT")
ListBatches(d) == dialogs[d].job.kind = "list" /\ Reads(d, 0, "none") /\ UNCHANGED lots
GetBatch(d) ==
    /\ dialogs[d].job.kind = "get" /\ UNCHANGED lots
    /\ Reads(d, dialogs[d].job.lot, lots[dialogs[d].job.lot].status)
Confirmed(status) == IF status = "DRAFT" THEN "READY" ELSE status
ConfirmBatch(d) ==
    /\ dialogs[d].job.kind = "confirm"
    /\ LET b == dialogs[d].job.lot
       IN  /\ lots' = [lots EXCEPT ![b].status = Confirmed(@)]
           /\ Reads(d, b, Confirmed(lots[b].status))
OrderRuns(d) ==
    /\ dialogs[d].job # NoOrderSent /\ dialogs[d].answer = "none"
    /\ \/ (PreviewBatch(d) \/ ListBatches(d) \/ GetBatch(d) \/ ConfirmBatch(d)) /\ UNCHANGED surprises
       \/ Surprise /\ DialogIs(d, [dialogs[d] EXCEPT !.answer = "error"])  \* with or without its effect
          /\ (UNCHANGED lots \/ (dialogs[d].job.kind = "confirm"
              /\ lots' = [lots EXCEPT ![dialogs[d].job.lot].status = Confirmed(@)]))
    /\ UNCHANGED <<pending, behind, listed, beside, asking, choices>>

(* _poll and _render; a batch that is going is read again every second: here, when *)
(* there is news of it. The pages of the history are of a hundred: there is one    *)
Rendered(record) == [record EXCEPT !.shown = record.got,
    !.button = record.got.status = "DRAFT" /\ lots[record.got.lot].eligible # {}]
PollDialog(d) ==
    /\ dialogs[d].at = "open" /\ dialogs[d].answer # "none"
    /\ LET now == [dialogs[d] EXCEPT !.job = NoOrderSent, !.answer = "none", !.got = NoLot]
       IN  DialogIs(d, IF dialogs[d].answer = "error" THEN now
                       ELSE IF dialogs[d].job.kind = "list" THEN [now EXCEPT !.found = DOMAIN lots]
                       ELSE [Rendered(dialogs[d]) EXCEPT !.job = NoOrderSent, !.answer = "none", !.got = NoLot])
    /\ UNCHANGED <<pending, lots, behind, listed, beside, asking, surprises, choices>>
FollowBatch(d) ==
    /\ dialogs[d].at = "open" /\ Idle(d) /\ dialogs[d].shown.status \in {"READY", "RUNNING"}
    /\ lots[dialogs[d].shown.lot].status # dialogs[d].shown.status
    /\ DialogIs(d, Sent(dialogs[d], OrderOf("get", dialogs[d].shown.lot)))
    /\ UNCHANGED <<pending, lots, behind, listed, beside, asking, surprises, choices>>

AskConfirmation(d) ==
    /\ Usable(d) /\ dialogs[d].button /\ Idle(d)
    /\ DialogIs(d, [dialogs[d] EXCEPT !.asks = TRUE])
    /\ UNCHANGED <<pending, lots, behind, listed, beside, asking, surprises, choices>>
AnswerConfirmation(d, yes) ==
    /\ dialogs[d].asks
    /\ LET now == [dialogs[d] EXCEPT !.asks = FALSE]
       IN  DialogIs(d, IF yes THEN Sent(now, OrderOf("confirm", now.shown.lot)) ELSE now)
    /\ UNCHANGED <<pending, lots, behind, listed, beside, asking, surprises, choices>>
ChooseHistory(d, b) ==
    /\ Usable(d) /\ Idle(d) /\ b \in dialogs[d].found /\ b # dialogs[d].shown.lot
    /\ DialogIs(d, Sent([dialogs[d] EXCEPT !.shown = NoLot], OrderOf("get", b)))
    /\ UNCHANGED <<pending, lots, behind, listed, beside, asking, surprises, choices>>
CloseDialog(d) ==       \* its thread, if there is one, goes on
    /\ Usable(d) /\ DialogIs(d, [dialogs[d] EXCEPT !.at = "closed"])
    /\ UNCHANGED <<pending, lots, behind, listed, beside, asking, surprises, choices>>

-----------------------------------------------------------------------------
(* The worker of the batches, and others that revise, settle or reject            *)
WorkerClaims(b) ==
    /\ lots[b].status = "READY" /\ lots' = [lots EXCEPT ![b].status = "RUNNING"]
    /\ UNCHANGED <<pending, behind, listed, beside, asking, dialogs, surprises, choices>>
WorkerApplies(b, c) ==
    /\ lots[b].status = "RUNNING" /\ c \in lots[b].eligible
    /\ \E status \in {"APPLYING", "CONFLICT"} :
        /\ Applicable(c, lots[b].revs[c]) /\ pending' = [pending EXCEPT ![c].status = status]
    /\ UNCHANGED <<lots, behind, listed, beside, asking, dialogs, surprises, choices>>
WorkerEnds(b) ==
    /\ lots[b].status = "RUNNING"
    /\ \E status \in {"COMPLETE", "RECOVERY_REQUIRED"} : lots' = [lots EXCEPT ![b].status = status]
    /\ UNCHANGED <<pending, behind, listed, beside, asking, dialogs, surprises, choices>>
ApplicationEnds(c) ==
    /\ pending[c].status = "APPLYING"
    /\ \E status \in {"APPLIED", "CONFLICT"} : pending' = [pending EXCEPT ![c].status = status]
    /\ UNCHANGED <<lots, behind, listed, beside, asking, dialogs, surprises, choices>>
OthersDecide(c) ==
    /\ pending[c].status \in OpenStatus /\ Surprise
    /\ \/ pending' = [pending EXCEPT ![c] = [rev |-> @.rev + 1, status |-> "PENDING_REVIEW"]]
       \/ \E status \in {"CONFLICT", "REJECTED", "APPLYING"} : pending' = [pending EXCEPT ![c].status = status]
    /\ UNCHANGED <<lots, behind, listed, beside, asking, dialogs, choices>>

PageOfReviews ==
    \/ ReadsReviews \/ Refreshes \/ RejectReview \/ SaveEdition \/ GivesUp
    \/ \E kind \in {"reject", "edit"} : AskAbout(kind)
    \/ \E chosen \in SUBSET Proposed, c \in Proposed : SelectReview(chosen, c)
DialogStep(d) ==
    \/ ApproveSelected(d) \/ PreviewSelection(d) \/ ReviewAll(d) \/ OpenHistory(d)
    \/ OrderRuns(d) \/ PollDialog(d) \/ FollowBatch(d) \/ AskConfirmation(d) \/ CloseDialog(d)
    \/ \E yes \in BOOLEAN : AnswerConfirmation(d, yes)
    \/ \E b \in dialogs[d].found : ChooseHistory(d, b)
OthersStep ==
    \/ \E b \in DOMAIN lots : WorkerClaims(b) \/ WorkerEnds(b) \/ (\E c \in Proposed : WorkerApplies(b, c))
    \/ \E c \in Proposed : ApplicationEnds(c) \/ OthersDecide(c)
ReviewNext == PageOfReviews \/ OthersStep \/ \E d \in Dialogs : DialogStep(d)
=============================================================================
