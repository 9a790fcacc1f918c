------------------------------- MODULE PlanRuns -------------------------------
(***************************************************************************)
(* A plan of proposals applied one by one by a worker that leaves a        *)
(* receipt of each: the batches of a person and the runs of a policy are   *)
(* two instances. After a crash nobody remembers what became of the item   *)
(* the worker was on: it asks the proposal.                                *)
(***************************************************************************)
EXTENDS Proposals, FiniteSetsExt

CONSTANTS
    Plans,          \* batch_id or run_id
    NoPlan,
    Worker,         \* the thread, as a caller of approve()
    DeniedIs        \* the receipt when the authority is refused

VARIABLES
    plan,       \* status of each plan
    item,       \* its items: expected revision, and status with the receipt
    turn        \* the worker: the plan it runs, the item it is on and where

planVars == <<plan, item, turn>>

Done == {"APPLIED", "SKIPPED", "CONFLICT", "FAILED", "EXTERNALLY_RESOLVED"}
PlansTypeOK ==
    /\ plan \in [Plans -> {"none", "DRAFT", "READY", "RUNNING", "RECOVERY_REQUIRED", "COMPLETE"}]
    /\ item \in [Plans -> [Candidates -> [rev : Nat, status : Done \cup {"none", "PENDING", "RUNNING"}]]]
    /\ turn \in [of : Plans \cup {NoPlan}, c : Candidates \cup {0}, status : Done \cup {"none"},
                 at : {"idle", "next", "look", "approve", "receipt"}]

NoItem == [rev |-> 0, status |-> "none"]
Rest == [of |-> NoPlan, c |-> 0, at |-> "idle", status |-> "none"]
PlansInit ==
    /\ plan = [p \in Plans |-> "none"]
    /\ item = [p \in Plans |-> [c \in Candidates |-> NoItem]]
    /\ turn = Rest

(* The items of a plan seen as eligible or not, each at its revision              *)
Items(seen) == [c \in Candidates |->
    IF \A i \in seen : i.c # c THEN NoItem
    ELSE LET i == CHOOSE i \in seen : i.c = c
         IN  [rev |-> i.rev, status |-> IF i.eligible THEN "PENDING" ELSE "SKIPPED"]]
Dependent(i, seen) == \E j \in seen : j.eligible /\ <<i.c, j.c>> \in kin.related
WithoutDependent(seen) == {[i EXCEPT !.eligible = @ /\ ~Dependent(i, seen)] : i \in seen}

Waiting(p) == {c \in Candidates : item[p][c].status = "PENDING"}

-----------------------------------------------------------------------------
ClaimPlan(p) ==
    /\ turn = Rest /\ plan[p] = "READY"
    /\ plan' = [plan EXCEPT ![p] = "RUNNING"]
    /\ turn' = [Rest EXCEPT !.of = p, !.at = "next"]
    /\ UNCHANGED <<proposalVars, item>>

StartItem ==
    /\ turn.at = "next" /\ Waiting(turn.of) # {}
    /\ LET c == Min(Waiting(turn.of))
       IN  /\ item' = [item EXCEPT ![turn.of][c].status = "RUNNING"]
           /\ turn' = [turn EXCEPT !.c = c, !.at = "look"]
    /\ UNCHANGED <<proposalVars, plan>>

Receipt(status) == turn' = [turn EXCEPT !.at = "receipt", !.status = status]
Pause == /\ plan' = [plan EXCEPT ![turn.of] = IF @ = "RUNNING" THEN "RECOVERY_REQUIRED" ELSE @]
         /\ turn' = Rest

(* What became of the proposal before: by this plan, by others, or nothing yet    *)
Nobodys(now) == FALSE
Mine(now) == now.by = turn.of
LookAtItem ==
    /\ turn.at = "look"
    /\ LET now == cand[turn.c]
           mine == Mine(now)
       IN  CASE mine /\ now.status = "APPLYING" -> Pause /\ UNCHANGED call
             [] mine /\ now.status = "APPLIED" -> Receipt("APPLIED") /\ UNCHANGED <<plan, call>>
             [] now.status = "REJECTED" \/ (~mine /\ now.status \in {"APPLIED", "APPLYING"})
                -> Receipt("EXTERNALLY_RESOLVED") /\ UNCHANGED <<plan, call>>
             [] OTHER -> /\ Approve(Worker, turn.c, item[turn.of][turn.c].rev, turn.of)
                         /\ turn' = [turn EXCEPT !.at = "approve"] /\ UNCHANGED plan
    /\ UNCHANGED <<cand, events, kin, item>>

(* The plan must run, and the item at the revision it was shown                   *)
ItemStands == /\ plan[turn.of] = "RUNNING"
              /\ item[turn.of][turn.c] = [rev |-> cand[turn.c].rev, status |-> "RUNNING"]

ItemAnswered ==
    /\ turn.at = "approve" /\ Answered(Worker)
    /\ LET result == call[Worker].at
       IN  IF result # "applied" /\ cand[turn.c].status = "APPLYING" /\ result # "denied"
           THEN Pause
           ELSE /\ UNCHANGED plan
                /\ Receipt(CASE result = "applied" -> "APPLIED"
                             [] result = "refused" -> "CONFLICT"
                             [] result = "denied" -> DeniedIs
                             [] OTHER -> "FAILED")
    /\ Return(Worker) /\ UNCHANGED <<cand, events, kin, item>>

FinishItem ==
    /\ turn.at = "receipt"
    /\ item' = [item EXCEPT ![turn.of][turn.c].status = turn.status]
    /\ turn' = [turn EXCEPT !.at = "next", !.c = 0, !.status = "none"]
    /\ UNCHANGED <<proposalVars, plan>>

FinishPlan ==
    /\ turn.at = "next" /\ Waiting(turn.of) = {}
    /\ plan' = [plan EXCEPT ![turn.of] =
            IF @ = "RUNNING" /\ \A c \in Candidates : item[turn.of][c].status # "RUNNING" THEN "COMPLETE" ELSE @]
    /\ turn' = Rest
    /\ UNCHANGED <<proposalVars, item>>

(* An error outside the approval: the plan waits for the next start               *)
PlanBreaks ==
    /\ turn.at = "receipt" /\ Event
    /\ Pause /\ UNCHANGED <<cand, call, kin, item>>

RecoverPlansOnly ==
    /\ plan' = [p \in Plans |-> IF plan[p] \in {"RUNNING", "RECOVERY_REQUIRED"} THEN "READY" ELSE plan[p]]
    /\ turn' = Rest /\ UNCHANGED item
(* recover, at the start and after the intentions were resolved                   *)
RecoverPlans ==
    /\ item' = [p \in Plans |-> [c \in Candidates |->
            IF item[p][c].status = "RUNNING" /\ plan[p] \in {"RUNNING", "RECOVERY_REQUIRED"}
            THEN [item[p][c] EXCEPT !.status = "PENDING"] ELSE item[p][c]]]
    /\ plan' = [p \in Plans |-> IF plan[p] \in {"RUNNING", "RECOVERY_REQUIRED"} THEN "READY" ELSE plan[p]]
    /\ turn' = Rest

-----------------------------------------------------------------------------
Running == StartItem \/ LookAtItem \/ ItemAnswered \/ FinishItem \/ FinishPlan
           \/ \E p \in Plans : ClaimPlan(p)

(* What the receipts and the proposals must say of each other                     *)
ReceiptTrue(p, c) ==
    LET applied == cand[c].status = "APPLIED" /\ cand[c].by = p
    IN  /\ item[p][c].status = "APPLIED" => applied /\ cand[c].rev = item[p][c].rev
        /\ item[p][c].status \in Done /\ applied => item[p][c].status = "APPLIED"
=============================================================================
