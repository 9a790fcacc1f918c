----------------------------- MODULE ReviewBatches -----------------------------
(***************************************************************************)
(* Batches of proposals a person confirms from a preview. The preview      *)
(* examines the proposals one by one while others change them; what it     *)
(* shows is fixed when it is stored, and that is what is confirmed.        *)
(***************************************************************************)
EXTENDS Proposals, FiniteSetsExt

CONSTANTS Batches, NoBatch

ASSUME BatchesAssumption == NoBatch \notin Batches /\ Batches \subseteq Appliers \ {Nobody}

VARIABLES
    batch, batchItem,   \* review_batches and review_batch_items
    reviewTurn,         \* the worker
    preview             \* the batch the window is previewing: what it has read

Review == INSTANCE PlanRuns WITH
    Plans <- Batches, NoPlan <- NoBatch, Worker <- "review", DeniedIs <- "CONFLICT",
    plan <- batch, item <- batchItem, turn <- reviewTurn

batchVars == <<batch, batchItem, reviewTurn, preview>>

NoPreview == [of |-> NoBatch, read |-> {}, seen |-> {}]
BatchesInit == Review!PlansInit /\ preview = NoPreview

-----------------------------------------------------------------------------
PreviewStart(b, selection) ==
    /\ preview = NoPreview /\ batch[b] = "none"
    /\ preview' = [of |-> b, read |-> selection, seen |-> {}]
    /\ UNCHANGED <<proposalVars, batch, batchItem, reviewTurn>>

PreviewRead ==      \* preview_application; ready: the note, its evidence and the editor
    /\ preview.read # {}
    /\ LET c == Min(preview.read)
       IN  \E ready \in BOOLEAN :
            preview' = [preview EXCEPT !.read = @ \ {c}, !.seen = @ \cup
                {[c |-> c, rev |-> cand[c].rev,
                  eligible |-> ready /\ cand[c].status = "PENDING_REVIEW" /\ Free(c)]}]
    /\ UNCHANGED <<proposalVars, batch, batchItem, reviewTurn>>

PreviewStore ==
    /\ preview # NoPreview /\ preview.read = {}
    /\ batch' = [batch EXCEPT ![preview.of] = "DRAFT"]
    /\ batchItem' = [batchItem EXCEPT ![preview.of] = Review!Items(Review!WithoutDependent(preview.seen))]
    /\ preview' = NoPreview
    /\ UNCHANGED <<proposalVars, reviewTurn>>

Confirm(b) ==
    /\ batch[b] = "DRAFT" /\ batch' = [batch EXCEPT ![b] = "READY"]
    /\ UNCHANGED <<proposalVars, batchItem, reviewTurn, preview>>

-----------------------------------------------------------------------------
BatchIntends == Intend("review", Review!ItemStands, "refused") /\ UNCHANGED batchVars
ReviewWorker ==
    \/ BatchIntends
    \/ Review!Running /\ UNCHANGED preview
    \/ Applying("review") /\ UNCHANGED batchVars
ReviewBreaks == Review!PlanBreaks /\ UNCHANGED preview
Previewing ==
    \/ PreviewRead \/ PreviewStore
    \/ \E b \in Batches : Confirm(b) \/ (\E s \in (SUBSET Candidates) \ {{}} : PreviewStart(b, s))

RecoverBatches == Review!RecoverPlans /\ preview' = NoPreview
BatchesNext == ReviewWorker \/ ReviewBreaks \/ Previewing
=============================================================================
