----------------------------- MODULE AgentsProofs -----------------------------
(***************************************************************************)
(* What the workers around the proposals promise, for any proposals,       *)
(* batches, runs, quotas and kinships. The receipts are PlanRunsProofs',   *)
(* for its two instances: what is left for this module is that the steps   *)
(* of the batches and of the policies are steps of a plan, the quota, and  *)
(* the queue of the analyses, for any sentences, texts and attempts.       *)
(***************************************************************************)
EXTENDS MCAgents, FiniteSetTheorems, TLAPS

BP == INSTANCE PlanRunsProofs WITH
    Plans <- Batches, NoPlan <- NoBatch, Worker <- "review", DeniedIs <- "CONFLICT",
    plan <- batch, item <- batchItem, turn <- reviewTurn
AP == INSTANCE PlanRunsProofs WITH
    Plans <- Runs, NoPlan <- NoRun, Worker <- "policies", DeniedIs <- "SKIPPED",
    plan <- run, item <- runItem, turn <- runTurn

-----------------------------------------------------------------------------
(* The steps of a batch are those of a plan                                       *)
LEMMA BatchRuns == Review!Running \/ Review!PlanBreaks => BP!Running \/ BP!PlanBreaks
<1>1. \A b \in Batches : Review!ClaimPlan(b) => BP!ClaimPlan(b)
  BY DEF Review!ClaimPlan, BP!ClaimPlan, Review!Rest, BP!Rest, Review!proposalVars, BP!proposalVars
<1>2. Review!StartItem => BP!StartItem
  BY DEF Review!StartItem, BP!StartItem, Review!Waiting, BP!Waiting, Review!proposalVars, BP!proposalVars,
         Review!Min, BP!Min
<1>3. Review!LookAtItem => BP!LookAtItem
  BY DEF Review!LookAtItem, BP!LookAtItem, Review!Mine, BP!Mine, Review!Pause, BP!Pause, Review!Rest,
         BP!Rest, Review!Receipt, BP!Receipt, Review!Approve, BP!Approve
<1>4. Review!ItemAnswered => BP!ItemAnswered
  BY DEF Review!ItemAnswered, BP!ItemAnswered, Review!Pause, BP!Pause, Review!Rest, BP!Rest, Review!Receipt,
         BP!Receipt, Review!Answered, BP!Answered, Review!Return, BP!Return, Review!NoCall, BP!NoCall
<1>5. Review!FinishItem => BP!FinishItem
  BY DEF Review!FinishItem, BP!FinishItem, Review!proposalVars, BP!proposalVars
<1>6. Review!FinishPlan => BP!FinishPlan
  BY DEF Review!FinishPlan, BP!FinishPlan, Review!Waiting, BP!Waiting, Review!Rest, BP!Rest,
         Review!proposalVars, BP!proposalVars
<1>7. Review!PlanBreaks => BP!PlanBreaks
  BY DEF Review!PlanBreaks, BP!PlanBreaks, Review!Pause, BP!Pause, Review!Rest, BP!Rest, Review!Event,
         BP!Event
<1>8. QED BY <1>1, <1>2, <1>3, <1>4, <1>5, <1>6, <1>7 DEF Review!Running, BP!Running

LEMMA RunsRun == PolicyRuns!Running \/ PolicyRuns!PlanBreaks => AP!Running \/ AP!PlanBreaks
<1>1. \A r \in Runs : PolicyRuns!ClaimPlan(r) => AP!ClaimPlan(r)
  BY DEF PolicyRuns!ClaimPlan, AP!ClaimPlan, PolicyRuns!Rest, AP!Rest, PolicyRuns!proposalVars,
         AP!proposalVars
<1>2. PolicyRuns!StartItem => AP!StartItem
  BY DEF PolicyRuns!StartItem, AP!StartItem, PolicyRuns!Waiting, AP!Waiting, PolicyRuns!proposalVars,
         AP!proposalVars, PolicyRuns!Min, AP!Min
<1>3. PolicyRuns!LookAtItem => AP!LookAtItem
  BY DEF PolicyRuns!LookAtItem, AP!LookAtItem, PolicyRuns!Mine, AP!Mine, PolicyRuns!Pause, AP!Pause,
         PolicyRuns!Rest, AP!Rest, PolicyRuns!Receipt, AP!Receipt, PolicyRuns!Approve, AP!Approve
<1>4. PolicyRuns!ItemAnswered => AP!ItemAnswered
  BY DEF PolicyRuns!ItemAnswered, AP!ItemAnswered, PolicyRuns!Pause, AP!Pause, PolicyRuns!Rest, AP!Rest,
         PolicyRuns!Receipt, AP!Receipt, PolicyRuns!Answered, AP!Answered, PolicyRuns!Return, AP!Return,
         PolicyRuns!NoCall, AP!NoCall
<1>5. PolicyRuns!FinishItem => AP!FinishItem
  BY DEF PolicyRuns!FinishItem, AP!FinishItem, PolicyRuns!proposalVars, AP!proposalVars
<1>6. PolicyRuns!FinishPlan => AP!FinishPlan
  BY DEF PolicyRuns!FinishPlan, AP!FinishPlan, PolicyRuns!Waiting, AP!Waiting, PolicyRuns!Rest, AP!Rest,
         PolicyRuns!proposalVars, AP!proposalVars
<1>7. PolicyRuns!PlanBreaks => AP!PlanBreaks
  BY DEF PolicyRuns!PlanBreaks, AP!PlanBreaks, PolicyRuns!Pause, AP!Pause, PolicyRuns!Rest, AP!Rest,
         PolicyRuns!Event, AP!Event
<1>8. QED BY <1>1, <1>2, <1>3, <1>4, <1>5, <1>6, <1>7 DEF PolicyRuns!Running, AP!Running

-----------------------------------------------------------------------------
(* What has been read of the proposals for a plan that is being made              *)
Seen == [c : Candidates, rev : Nat, eligible : BOOLEAN]

BatchInv ==
    /\ BP!PlanInv
    /\ preview \in [of : Batches \cup {NoBatch}, read : SUBSET Candidates, seen : SUBSET Seen]
    /\ preview # NoPreview => preview.of \in Batches /\ batch[preview.of] = "none"
    /\ \A c \in Candidates : cand[c].by \notin Runs

(* Every charge is of an item as its plan stored it, and there is one for every   *)
(* proposal a run holds                                                           *)
Charges == [run : Runs, c : Candidates, rev : Nat, day : 0..Days]
GovernanceInv ==
    /\ policy \in [rev : Nat, state : Nat, on : BOOLEAN, cap : Caps]
    /\ control \in [rev : Nat, paused : BOOLEAN] /\ day \in 0..Days
QuotaInv ==
    /\ spent \subseteq Charges /\ IsFiniteSet(spent)
    /\ \A s \in spent : run[s.run] # "none" /\ s.rev = runItem[s.run][s.c].rev
    /\ \A s, u \in spent : s.c = u.c /\ s.rev = u.rev => s = u
    /\ \A c \in Candidates : cand[c].by \in Runs =>
        \E s \in spent : s.run = cand[c].by /\ s.c = c /\ s.rev <= cand[c].rev
    /\ \A d \in 0..Days : Cardinality({s \in spent : s.day = d}) <= Max(Caps)
Authorities == Nat \X Nat \X Nat
JobRows == [at : {"idle", "leased", "read"}, auth : Authorities, saw : Authorities, used : Nat, cap : Nat,
            read : SUBSET Candidates, seen : SUBSET Seen]
PolicyInv == AP!PlanInv /\ GovernanceInv /\ QuotaInv /\ job \in JobRows

(* Nothing is applied outside the two scenes                                      *)
IdleInv ==
    /\ scene # "batches" => \A b \in Batches, c \in Candidates : batchItem[b][c] = [rev |-> 0, status |-> "none"]
    /\ scene # "policies" => \A r \in Runs, c \in Candidates : runItem[r][c] = [rev |-> 0, status |-> "none"]
    /\ scene # "policies" => spent = {}
    /\ scene \notin {"batches", "policies"} => \A c \in Candidates : cand[c].by = Nobody
AgentsInv ==
    /\ scene = "batches" => BatchInv
    /\ scene = "policies" => PolicyInv
    /\ GovernanceInv /\ IdleInv

-----------------------------------------------------------------------------
(* So are those of approve() for them, of the person and of a new start           *)
LEMMA BatchApproves ==
    /\ Applying("review") => BP!Applying("review")
    /\ PersonNext => BP!PersonNext
    /\ RecoverProposals /\ Review!RecoverPlans => BP!RecoverProposals /\ BP!RecoverPlans
<1>1. \A t \in Callers : Applying(t) => BP!Applying(t)
  BY DEF Applying, BP!Applying, ApproveRead, BP!ApproveRead, Materialize, BP!Materialize, Ends, BP!Ends, Marked,
         BP!Marked, WithApplied, BP!WithApplied
<1>2. Intend("person", TRUE, "denied") => BP!Intend("person", TRUE, "denied")
  BY DEF Intend, BP!Intend, Prepared, BP!Prepared, Free, BP!Free, Ends, BP!Ends
<1>3. PersonEnds => BP!PersonEnds
  BY DEF PersonEnds, BP!PersonEnds, Answered, BP!Answered, Return, BP!Return, NoCall, BP!NoCall
<1>4. PersonReviews => BP!PersonReviews
  BY DEF PersonReviews, BP!PersonReviews, Edit, BP!Edit, Reject, BP!Reject, Open, BP!Open, Event, BP!Event,
         Marked, BP!Marked
<1>5. \A c \in Candidates : PersonApproves(c) => BP!PersonApproves(c)
  BY DEF PersonApproves, BP!PersonApproves, NoCall, BP!NoCall, Event, BP!Event, Approve, BP!Approve
<1>6. RecoverProposals /\ Review!RecoverPlans => BP!RecoverProposals /\ BP!RecoverPlans
  BY DEF RecoverProposals, BP!RecoverProposals, Event, BP!Event, Callers, BP!Callers, NoCall, BP!NoCall,
         Review!RecoverPlans, BP!RecoverPlans, Review!Rest, BP!Rest
<1>7. "review" \in Callers /\ "person" \in Callers
  BY DEF Callers
<1>8. QED BY <1>1, <1>2, <1>3, <1>4, <1>5, <1>6, <1>7 DEF PersonNext, BP!PersonNext

LEMMA RunsApprove ==
    /\ Applying("policies") => AP!Applying("policies")
    /\ PersonReviews => AP!PersonReviews
    /\ RecoverProposals /\ PolicyRuns!RecoverPlans => AP!RecoverProposals /\ AP!RecoverPlans
<1>1. Applying("policies") => AP!Applying("policies")
  BY DEF Applying, AP!Applying, ApproveRead, AP!ApproveRead, Materialize, AP!Materialize, Ends, AP!Ends, Marked,
         AP!Marked, WithApplied, AP!WithApplied
<1>2. PersonReviews => AP!PersonReviews
  BY DEF PersonReviews, AP!PersonReviews, Edit, AP!Edit, Reject, AP!Reject, Open, AP!Open, Event, AP!Event,
         Marked, AP!Marked
<1>3. RecoverProposals /\ PolicyRuns!RecoverPlans => AP!RecoverProposals /\ AP!RecoverPlans
  BY DEF RecoverProposals, AP!RecoverProposals, Event, AP!Event, Callers, AP!Callers, NoCall, AP!NoCall,
         PolicyRuns!RecoverPlans, AP!RecoverPlans, PolicyRuns!Rest, AP!Rest
<1>4. QED BY <1>1, <1>2, <1>3

(* The worker of each asks under the conditions of its own                        *)
LEMMA BatchWorkerIntends == BatchIntends => BP!WorkerIntends
<1>1. Review!ItemStands = BP!ItemStands
  BY DEF Review!ItemStands, BP!ItemStands
<1>2. BP!ItemStands \in BOOLEAN
  BY DEF BP!ItemStands
<1>3. \A allowed \in BOOLEAN : Intend("review", allowed, "refused") => BP!Intend("review", allowed, "refused")
  BY DEF Intend, BP!Intend, Prepared, BP!Prepared, Free, BP!Free, Ends, BP!Ends
<1>4. QED BY <1>1, <1>2, <1>3 DEF BatchIntends, BP!WorkerIntends, batchVars, BP!planVars

LEMMA RunWorkerIntends ==
    PolicyIntends => \E allowed \in BOOLEAN :
        /\ AP!Intend("policies", allowed, "denied") /\ (allowed => PolicyAllows(runTurn.of, runTurn.c))
        /\ (allowed => AP!ItemStands) /\ UNCHANGED <<run, runItem, runTurn>>
<1> SUFFICES ASSUME PolicyIntends
             PROVE  \E allowed \in BOOLEAN :
                /\ AP!Intend("policies", allowed, "denied") /\ (allowed => PolicyAllows(runTurn.of, runTurn.c))
                /\ (allowed => AP!ItemStands) /\ UNCHANGED <<run, runItem, runTurn>>
  OBVIOUS
<1>1. PolicyAllows(runTurn.of, runTurn.c) \in BOOLEAN
  BY DEF PolicyAllows
<1>2. PICK allowed \in BOOLEAN : allowed = PolicyAllows(runTurn.of, runTurn.c)
  BY <1>1
<1>3. Intend("policies", allowed, "denied") /\ UNCHANGED <<run, runItem, runTurn>>
  BY <1>2 DEF PolicyIntends
<1>4. AP!Intend("policies", allowed, "denied")
  BY <1>3 DEF Intend, AP!Intend, Prepared, AP!Prepared, Free, AP!Free, Ends, AP!Ends
<1>5. allowed => AP!ItemStands
  BY <1>2 DEF PolicyAllows, PolicyRuns!ItemStands, AP!ItemStands
<1>6. QED BY <1>2, <1>3, <1>4, <1>5

-----------------------------------------------------------------------------
(* What a plan is made of: a row for each proposal that was read, at its revision *)
Stored == [Candidates -> [rev : Nat, status : {"none", "PENDING", "SKIPPED"}]]

LEMMA ItemsAreStored ==
    ASSUME NEW seen \in SUBSET Seen
    PROVE  /\ Review!WithoutDependent(seen) \subseteq Seen /\ PolicyRuns!WithoutDependent(seen) \subseteq Seen
           /\ Review!Items(seen) \in Stored /\ PolicyRuns!Items(seen) \in Stored
<1>1. Review!WithoutDependent(seen) \subseteq Seen
  BY DEF Review!WithoutDependent, Review!Dependent, Seen
<1>2. PolicyRuns!WithoutDependent(seen) \subseteq Seen
  BY DEF PolicyRuns!WithoutDependent, PolicyRuns!Dependent, Seen
<1>3. \A c \in Candidates : (\E i \in seen : i.c = c) => (CHOOSE i \in seen : i.c = c) \in Seen
  OBVIOUS
<1>4. \A i \in Seen : [rev |-> i.rev, status |-> IF i.eligible THEN "PENDING" ELSE "SKIPPED"]
                        \in [rev : Nat, status : {"none", "PENDING", "SKIPPED"}]
  BY DEF Seen
<1>5. [rev |-> 0, status |-> "none"] \in [rev : Nat, status : {"none", "PENDING", "SKIPPED"}]
  OBVIOUS
<1>6. Review!Items(seen) \in Stored
  BY <1>3, <1>4, <1>5 DEF Review!Items, Review!NoItem, Stored
<1>7. PolicyRuns!Items(seen) \in Stored
  BY <1>3, <1>4, <1>5 DEF PolicyRuns!Items, PolicyRuns!NoItem, Stored
<1>8. QED BY <1>1, <1>2, <1>6, <1>7

LEMMA LimitsKeepRows ==
    ASSUME NEW seen \in SUBSET Seen
    PROVE  WithinLimits(seen) \subseteq Seen
BY DEF WithinLimits, Seen

LEMMA BatchIsStored ==
    ASSUME BatchInv, PreviewStore
    PROVE  BP!NewPlan
<1>1. preview.of \in Batches /\ batch[preview.of] = "none" /\ preview.seen \subseteq Seen
  BY DEF PreviewStore, BatchInv
<1>2. PICK b \in Batches : b = preview.of
  BY <1>1
<1>3. Review!Items(Review!WithoutDependent(preview.seen)) \in Stored
  BY <1>1, ItemsAreStored
<1>4. PICK items \in Stored : items = Review!Items(Review!WithoutDependent(preview.seen))
  BY <1>3
<1>5. /\ batch[b] = "none" /\ batch' = [batch EXCEPT ![b] = "DRAFT"] /\ batchItem' = [batchItem EXCEPT ![b] = items]
      /\ UNCHANGED <<cand, call, reviewTurn>>
  BY <1>1, <1>2, <1>4 DEF PreviewStore, proposalVars
<1>6. "DRAFT" \in BP!PlanStates \ {"none"}
  BY DEF BP!PlanStates
<1>7. QED BY <1>5, <1>6 DEF BP!NewPlan, Stored

LEMMA RunIsStored ==
    ASSUME PolicyInv, ScheduleFinish, UNCHANGED <<cand, call, runTurn>>
    PROVE  AP!NewPlan \/ UNCHANGED <<run, runItem>>
<1> SUFFICES ASSUME ~UNCHANGED <<run, runItem>> PROVE AP!NewPlan
  OBVIOUS
<1>1. Planned \subseteq Seen
  BY ItemsAreStored, LimitsKeepRows DEF PolicyInv, JobRows, Planned
<1>2. PolicyRuns!Items(Planned) \in Stored
  BY <1>1, ItemsAreStored
<1>3. PICK items \in Stored : items = PolicyRuns!Items(Planned)
  BY <1>2
<1>4. \E r \in Runs : run[r] = "none" /\ run' = [run EXCEPT ![r] = "READY"] /\ runItem' = [runItem EXCEPT ![r] = items]
  BY <1>3 DEF ScheduleFinish
<1>5. "READY" \in AP!PlanStates \ {"none"}
  BY DEF AP!PlanStates
<1>6. QED BY <1>4, <1>5 DEF AP!NewPlan, Stored

(* Every step of the batches is one of a plan, and so is every one of a policy    *)
LEMMA BatchStep == BatchInv /\ Batching => BP!PlanStep
<1> SUFFICES ASSUME BatchInv, Batching PROVE BP!PlanStep
  OBVIOUS
<1>1. CASE BatchIntends
  BY <1>1, BatchWorkerIntends DEF BP!PlanStep
<1>2. CASE Review!Running \/ Review!PlanBreaks
  BY <1>2, BatchRuns DEF BP!PlanStep, BP!OtherStep
<1>3. CASE (Applying("review") \/ PersonNext) /\ UNCHANGED batchVars
  <2>1. UNCHANGED BP!planVars
    BY <1>3 DEF batchVars, BP!planVars
  <2>2. QED BY <1>3, <2>1, BatchApproves DEF BP!PlanStep, BP!OtherStep
<1>4. CASE RecoverProposals /\ RecoverBatches
  BY <1>4, BatchApproves DEF RecoverBatches, BP!PlanStep, BP!OtherStep
<1>5. CASE PreviewStore
  BY <1>5, BatchIsStored DEF BP!PlanStep, BP!OtherStep
<1>6. CASE \E b \in Batches : Confirm(b)
  <2>1. BP!PlanConfirmed
    BY <1>6 DEF Confirm, proposalVars, BP!PlanConfirmed
  <2>2. QED BY <2>1 DEF BP!PlanStep, BP!OtherStep
<1>7. CASE PreviewRead \/ \E b \in Batches, s \in (SUBSET Candidates) \ {{}} : PreviewStart(b, s)
  <2>1. UNCHANGED <<cand, call, BP!planVars>>
    BY <1>7 DEF PreviewRead, PreviewStart, proposalVars, BP!planVars
  <2>2. QED BY <2>1 DEF BP!PlanStep, BP!OtherStep
<1>8. QED BY <1>1, <1>2, <1>3, <1>4, <1>5, <1>6, <1>7 DEF Batching, BatchesNext, ReviewWorker, ReviewBreaks, Previewing

LEMMA RunStep == PolicyInv /\ Automating => (AP!OtherStep /\ UNCHANGED spent) \/ (AP!WorkerIntends /\ PolicyIntends)
<1> SUFFICES ASSUME PolicyInv, Automating PROVE (AP!OtherStep /\ UNCHANGED spent) \/ (AP!WorkerIntends /\ PolicyIntends)
  OBVIOUS
<1>1. CASE PolicyIntends
  BY <1>1, RunWorkerIntends DEF AP!WorkerIntends, AP!planVars
<1>2. CASE (PolicyRuns!Running \/ PolicyRuns!PlanBreaks) /\ UNCHANGED spent
  BY <1>2, RunsRun DEF AP!OtherStep
<1>3. CASE (Applying("policies") \/ PersonReviews) /\ UNCHANGED policyVars
  <2>1. UNCHANGED AP!planVars
    BY <1>3 DEF policyVars, AP!planVars
  <2>2. UNCHANGED spent
    BY <1>3 DEF policyVars
  <2>3. QED BY <1>3, <2>1, <2>2, RunsApprove DEF AP!OtherStep
<1>4. CASE RecoverProposals /\ RecoverPolicies
  BY <1>4, RunsApprove DEF RecoverPolicies, AP!OtherStep
<1>5. CASE Scheduling
  <2>1. CASE ScheduleFinish
    BY <1>5, <2>1, RunIsStored DEF Scheduling, AP!OtherStep, AP!planVars
  <2>2. CASE UNCHANGED <<run, runItem>>
    BY <1>5, <2>2 DEF Scheduling, AP!OtherStep, AP!planVars
  <2>3. QED BY <1>5, <2>1, <2>2 DEF Scheduling
<1>6. CASE Governance
  BY <1>6 DEF Governance, AP!OtherStep, AP!planVars
<1>7. QED BY <1>1, <1>2, <1>3, <1>4, <1>5, <1>6 DEF Automating, PoliciesNext, PolicyRunner, RunBreaks

-----------------------------------------------------------------------------
LEMMA LeastIsIn == ASSUME NEW S \in SUBSET Candidates, S # {} PROVE Min(S) \in S
<1>1. Min(S) = BP!Min(S)
  BY DEF Min, BP!Min
<1>2. S \in SUBSET Nat
  BY ProposalsAssumption
<1>3. QED BY <1>1, <1>2, BP!LeastNumber, ProposalsAssumption

LEMMA NobodyRuns == Nobody \notin Runs /\ Nobody \notin Batches
BY PoliciesAssumption, BatchesAssumption

LEMMA BatchKept == BatchInv /\ Batching => BatchInv'
<1> SUFFICES ASSUME BatchInv, Batching PROVE BatchInv'
  OBVIOUS
<1>1. BP!PlanInv /\ BP!PlanStep
  BY BatchStep DEF BatchInv
<1>2. BP!PlanInv'
  BY <1>1, BP!PlanKept, ProposalsAssumption
<1>3. \A c \in Candidates : cand'[c].by \notin Runs
  <2> SUFFICES ASSUME NEW c \in Candidates PROVE cand'[c].by \notin Runs
    OBVIOUS
  <2>1. CASE BP!OtherStep
    <3>1. BP!Untaken(c)
      BY <1>1, <2>1, BP!OthersIntend, ProposalsAssumption
    <3>2. QED BY <3>1, NobodyRuns DEF BP!Untaken, BatchInv
  <2>2. CASE BP!WorkerIntends
    <3>1. PICK allowed \in BOOLEAN, denied \in {"refused", "denied"} : BP!Intend("review", allowed, denied)
      BY <2>2 DEF BP!WorkerIntends
    <3>2. reviewTurn.of \in Batches /\ (cand' = cand \/ (cand'[reviewTurn.c].by = reviewTurn.of
              /\ \A d \in Candidates \ {reviewTurn.c} : cand'[d] = cand[d]))
      BY <1>1, <3>1, BP!WorkerAsks, ProposalsAssumption
    <3>3. QED BY <3>2, AgentsAssumption DEF BatchInv
  <2>3. QED BY <1>1, <2>1, <2>2 DEF BP!PlanStep
<1>4. /\ preview' \in [of : Batches \cup {NoBatch}, read : SUBSET Candidates, seen : SUBSET Seen]
      /\ preview' # NoPreview => preview'.of \in Batches /\ batch'[preview'.of] = "none"
  <2>1. CASE PreviewStore \/ RecoverBatches
    BY <2>1 DEF PreviewStore, RecoverBatches, NoPreview
  <2>2. ASSUME NEW b \in Batches, NEW s \in SUBSET Candidates, PreviewStart(b, s)
        PROVE  /\ preview' \in [of : Batches \cup {NoBatch}, read : SUBSET Candidates, seen : SUBSET Seen]
               /\ preview' # NoPreview => preview'.of \in Batches /\ batch'[preview'.of] = "none"
    BY <2>2 DEF PreviewStart
  <2>3. CASE PreviewRead
    <3>1. Min(preview.read) \in Candidates /\ preview # NoPreview
      BY <2>3, LeastIsIn DEF PreviewRead, BatchInv, NoPreview
    <3>2. PICK c \in Candidates : c = Min(preview.read)
      BY <3>1
    <3>3. cand[c].rev \in Nat
      BY DEF BatchInv, BP!PlanInv, BP!ProposalTables, BP!CandRows
    <3>4. PICK ready \in BOOLEAN : preview' = [preview EXCEPT !.read = @ \ {c}, !.seen = @ \cup
            {[c |-> c, rev |-> cand[c].rev, eligible |-> ready /\ cand[c].status = "PENDING_REVIEW" /\ Free(c)]}]
      BY <2>3, <3>2 DEF PreviewRead
    <3>5. PICK eligible \in BOOLEAN : eligible = (ready /\ cand[c].status = "PENDING_REVIEW" /\ Free(c))
      OBVIOUS
    <3>6. [c |-> c, rev |-> cand[c].rev, eligible |-> eligible] \in Seen
      BY <3>3 DEF Seen
    <3>7. preview' = [preview EXCEPT !.read = @ \ {c}, !.seen = @ \cup {[c |-> c, rev |-> cand[c].rev, eligible |-> eligible]}]
      BY <3>4, <3>5
    <3>8. QED BY <2>3, <3>1, <3>6, <3>7 DEF PreviewRead, BatchInv
  <2>4. CASE UNCHANGED preview /\ \A b \in Batches : batch[b] = "none" => batch'[b] = "none"
    BY <2>4 DEF BatchInv
  <2>5. ASSUME NEW b \in Batches, Confirm(b) PROVE \A d \in Batches : batch[d] = "none" => batch'[d] = "none"
    BY <1>1, <2>5 DEF Confirm, BP!PlanInv, BP!PlanTables
  <2>6. ASSUME BP!Running \/ BP!PlanBreaks, NEW b \in Batches, batch[b] = "none" PROVE batch'[b] = "none"
    <3>1. batch \in [Batches -> BP!PlanStates]
      BY <1>1 DEF BP!PlanInv, BP!PlanTables
    <3>2. BP!StartItem \/ BP!FinishItem => batch' = batch
      BY DEF BP!StartItem, BP!FinishItem
    <3>3. BP!LookAtItem \/ BP!ItemAnswered \/ BP!PlanBreaks => batch'[b] = "none"
      BY <2>6, <3>1 DEF BP!LookAtItem, BP!ItemAnswered, BP!PlanBreaks, BP!Pause
    <3>4. BP!FinishPlan \/ (\E d \in Batches : BP!ClaimPlan(d)) => batch'[b] = "none"
      BY <2>6, <3>1 DEF BP!FinishPlan, BP!ClaimPlan
    <3>5. QED BY <2>6, <3>2, <3>3, <3>4 DEF BP!Running
  <2>7. CASE BatchIntends \/ ((Applying("review") \/ PersonNext) /\ UNCHANGED batchVars)
    BY <2>4, <2>7 DEF BatchIntends, batchVars
  <2>8. CASE (Review!Running \/ Review!PlanBreaks) /\ UNCHANGED preview
    BY <2>4, <2>6, <2>8, BatchRuns
  <2>9. CASE \E b \in Batches : Confirm(b)
    BY <2>4, <2>5, <2>9 DEF Confirm
  <2>10. QED BY <2>1, <2>2, <2>3, <2>7, <2>8, <2>9 DEF Batching, BatchesNext, ReviewWorker, ReviewBreaks, Previewing
<1>5. QED BY <1>2, <1>3, <1>4 DEF BatchInv

-----------------------------------------------------------------------------
LEMMA GreatestIsIn ==
    ASSUME NEW S \in SUBSET Nat, S # {}, IsFiniteSet(S)
    PROVE  Max(S) \in S /\ \A y \in S : y <= Max(S)
<1> DEFINE Above(x) == {y \in S : x <= y}
           Sizes == {Cardinality(Above(x)) : x \in S}
<1>1. \A x \in S : IsFiniteSet(Above(x)) /\ Cardinality(Above(x)) \in Nat
  BY FS_Subset, FS_CardinalityType
<1>2. AP!Min(Sizes) \in Sizes /\ \A n \in Sizes : AP!Min(Sizes) <= n
  <2>1. Sizes \in SUBSET Nat /\ Sizes # {}
    BY <1>1
  <2> HIDE DEF Sizes
  <2>2. QED BY <2>1, AP!LeastNumber, ProposalsAssumption
<1>3. PICK x \in S : \A y \in S : Cardinality(Above(x)) <= Cardinality(Above(y))
  BY <1>2
<1>4. ASSUME NEW y \in S PROVE y <= x
  <2> SUFFICES ASSUME ~(y <= x) PROVE FALSE
    OBVIOUS
  <2>0. x \in Nat /\ y \in Nat /\ S \subseteq Nat
    OBVIOUS
  <2>1. Above(y) \subseteq Above(x) /\ Above(y) # Above(x)
    <3>1. \A z \in Nat : y <= z => x <= z
      BY <2>0
    <3>2. x \in Above(x) /\ x \notin Above(y)
      BY <2>0
    <3>3. Above(y) \subseteq Above(x)
      BY <2>0, <3>1
    <3>4. QED BY <3>2, <3>3
  <2>2. Cardinality(Above(y)) < Cardinality(Above(x))
    <3> HIDE DEF Above
    <3>1. QED BY <1>1, <2>1, FS_Subset
  <2>3. QED BY <1>1, <1>3, <2>2
<1> HIDE DEF Above, Sizes
<1>5. \E z \in S : \A y \in S : y <= z
  BY <1>4
<1>6. \A z, y \in S : y <= z <=> z >= y
  OBVIOUS
<1>7. QED BY <1>5, <1>6 DEF Max

LEMMA ChargesCount ==
    ASSUME PolicyInv
    PROVE  /\ \A S \in SUBSET spent : IsFiniteSet(S) /\ Cardinality(S) \in Nat
           /\ \A d \in 0..Days : Used(d) \in Nat /\ Used(d) <= Max(Caps)
<1>1. \A S \in SUBSET spent : IsFiniteSet(S) /\ Cardinality(S) \in Nat
  BY FS_Subset, FS_CardinalityType DEF PolicyInv, QuotaInv
<1>2. \A d \in 0..Days : {s \in spent : s.day = d} \in SUBSET spent
  OBVIOUS
<1>3. QED BY <1>1, <1>2 DEF PolicyInv, QuotaInv, Used

(* What the steps that charge nothing leave of the quota                          *)
LEMMA QuotaStays ==
    ASSUME PolicyInv, AP!OtherStep, UNCHANGED spent
    PROVE  QuotaInv'
<1>0. AP!PlanInv /\ AP!PlanStep /\ QuotaInv
  BY DEF PolicyInv, AP!PlanStep
<1>1. ASSUME NEW s \in spent PROVE run'[s.run] # "none" /\ s.rev = runItem'[s.run][s.c].rev
  <2>1. s.run \in Runs /\ s.c \in Candidates /\ run[s.run] # "none" /\ s.rev = runItem[s.run][s.c].rev
    BY <1>0 DEF QuotaInv, Charges
  <2>2. PICK r \in Runs, c \in Candidates : r = s.run /\ c = s.c
    BY <2>1
  <2>3. run'[r] # "none" /\ runItem'[r][c].rev = runItem[r][c].rev
    BY <1>0, <2>1, <2>2, AP!RevisionsStay, ProposalsAssumption
  <2>4. QED BY <2>1, <2>2, <2>3
<1>2. ASSUME NEW c \in Candidates, cand'[c].by \in Runs
      PROVE  \E s \in spent : s.run = cand'[c].by /\ s.c = c /\ s.rev <= cand'[c].rev
  <2>1. AP!Untaken(c)
    BY <1>0, AP!OthersIntend, ProposalsAssumption
  <2>2. cand'[c].by = cand[c].by /\ cand[c].rev \in Nat /\ cand'[c].rev \in Nat /\ cand[c].rev <= cand'[c].rev
    BY <1>2, <2>1, NobodyRuns DEF AP!Untaken
  <2>3. PICK s \in spent : s.run = cand[c].by /\ s.c = c /\ s.rev <= cand[c].rev
    BY <1>0, <1>2, <2>2 DEF QuotaInv
  <2>4. s.rev \in Nat
    BY <1>0 DEF QuotaInv, Charges
  <2>5. QED BY <2>2, <2>3, <2>4
<1>3. QED BY <1>0, <1>1, <1>2 DEF QuotaInv

(* An intention is charged, at the revision the run was shown, or it is not one   *)
LEMMA QuotaCharged ==
    ASSUME PolicyInv, AP!WorkerIntends, PolicyIntends
    PROVE  QuotaInv'
<1>0. AP!PlanInv /\ AP!PlanStep /\ QuotaInv
  BY DEF PolicyInv, AP!PlanStep
<1>1. PICK allowed \in BOOLEAN :
        /\ AP!Intend("policies", allowed, "denied") /\ (allowed => PolicyAllows(runTurn.of, runTurn.c))
        /\ (allowed => AP!ItemStands) /\ UNCHANGED <<run, runItem, runTurn>>
  BY RunWorkerIntends
<1>2. /\ runTurn.of \in Runs /\ runTurn.c \in Candidates /\ run[runTurn.of] # "none"
      /\ \/ cand' = cand /\ call'["policies"].at # "intent"
         \/ /\ allowed /\ call'["policies"].at = "intent"
            /\ cand'[runTurn.c].by = runTurn.of /\ cand'[runTurn.c].rev = cand[runTurn.c].rev
            /\ \A d \in Candidates \ {runTurn.c} : cand'[d] = cand[d]
  BY <1>0, <1>1, AP!WorkerAsks, ProposalsAssumption
<1>3. CASE cand' = cand /\ call'["policies"].at # "intent"
  <2>1. spent' = spent
    BY <1>3 DEF PolicyIntends
  <2>2. QED BY <1>0, <1>1, <1>3, <2>1 DEF QuotaInv
<1>4. CASE allowed /\ call'["policies"].at = "intent"
  <2>1. PICK r \in Runs, c \in Candidates : r = runTurn.of /\ c = runTurn.c
    BY <1>2
  <2>2. PICK charge \in Charges : charge = [run |-> r, c |-> c, rev |-> cand[c].rev, day |-> day]
    <3>1. cand[c].rev \in Nat /\ day \in 0..Days
      BY <1>0 DEF AP!PlanInv, AP!ProposalTables, AP!CandRows, PolicyInv, GovernanceInv
    <3>2. QED BY <3>1 DEF Charges
  <2>3. spent' = spent \cup {charge}
    BY <1>4, <2>1, <2>2 DEF PolicyIntends
  <2>4. charge.run = r /\ charge.c = c /\ charge.rev = cand[c].rev /\ charge.day = day /\ charge.rev \in Nat
    BY <2>2 DEF Charges
  <2>5. PolicyAllows(r, c) /\ AP!ItemStands
    BY <1>1, <1>4, <2>1
  <2>6. run'[r] # "none" /\ runItem'[r][c].rev = cand[c].rev
    BY <1>1, <1>2, <2>1, <2>5 DEF AP!ItemStands
  <2>7. \A s \in spent : ~(s.c = c /\ s.rev = cand[c].rev)
    BY <2>5 DEF PolicyAllows
  <2>8. /\ spent' \subseteq Charges /\ IsFiniteSet(spent')
        /\ \A s \in spent' : run'[s.run] # "none" /\ s.rev = runItem'[s.run][s.c].rev
        /\ \A s, u \in spent' : s.c = u.c /\ s.rev = u.rev => s = u
    <3>1. IsFiniteSet(spent')
      BY <1>0, <2>3, FS_AddElement DEF QuotaInv
    <3>2. QED BY <1>0, <1>1, <2>2, <2>3, <2>4, <2>6, <2>7, <3>1 DEF QuotaInv
  <2>9. ASSUME NEW d \in Candidates, cand'[d].by \in Runs
        PROVE  \E s \in spent' : s.run = cand'[d].by /\ s.c = d /\ s.rev <= cand'[d].rev
    <3>1. CASE d = c
      <4>1. cand'[c].by = r /\ cand'[c].rev = cand[c].rev
        BY <1>2, <1>3, <1>4, <2>1
      <4>2. QED BY <2>3, <2>4, <3>1, <4>1
    <3>2. CASE d # c
      <4>1. cand'[d] = cand[d]
        BY <1>2, <1>4, <2>1, <3>2
      <4>2. QED BY <1>0, <2>3, <2>9, <4>1 DEF QuotaInv
    <3>3. QED BY <3>1, <3>2
  <2>10. ASSUME NEW d \in 0..Days PROVE Cardinality({s \in spent' : s.day = d}) <= Max(Caps)
    <3>1. PICK S \in SUBSET spent : S = {s \in spent : s.day = d}
      OBVIOUS
    <3>2. IsFiniteSet(S) /\ Cardinality(S) \in Nat /\ Used(d) = Cardinality(S)
      BY <3>1, ChargesCount DEF Used
    <3>3. CASE day # d
      <4>1. {s \in spent' : s.day = d} = S
        BY <2>3, <2>4, <3>1, <3>3
      <4>2. QED BY <1>0, <3>1, <4>1 DEF QuotaInv
    <3>4. CASE day = d
      <4>1. {s \in spent' : s.day = d} = S \cup {charge}
        BY <2>3, <2>4, <3>1, <3>4
      <4>2. charge \notin S
        BY <2>4, <2>7, <3>1
      <4>3. Cardinality(S \cup {charge}) = Cardinality(S) + 1
        BY <3>2, <4>2, FS_AddElement
      <4>4. Cardinality(S) < policy.cap
        BY <2>5, <3>2, <3>4 DEF PolicyAllows, HasRoom
      <4>5. policy.cap \in Caps /\ Caps \subseteq Nat /\ IsFiniteSet(Caps)
        BY PoliciesAssumption DEF PolicyInv, GovernanceInv
      <4>6. policy.cap <= Max(Caps) /\ Max(Caps) \in Nat /\ policy.cap \in Nat
        BY <4>5, GreatestIsIn
      <4>7. Cardinality(S \cup {charge}) <= Max(Caps)
        BY <3>2, <4>3, <4>4, <4>6
      <4>8. QED BY <4>1, <4>7
    <3>5. QED BY <3>3, <3>4
  <2>11. QED BY <2>8, <2>9, <2>10 DEF QuotaInv
<1>5. QED BY <1>2, <1>3, <1>4

LEMMA GovernanceKept == PolicyInv /\ Automating => GovernanceInv'
<1> SUFFICES ASSUME PolicyInv, Automating PROVE GovernanceInv'
  OBVIOUS
<1>1. CASE UNCHANGED <<policy, control, day>>
  BY <1>1 DEF PolicyInv, GovernanceInv
<1>2. CASE Governance
  <2>1. ASSUME NEW on \in BOOLEAN, SetEnabled(on) PROVE GovernanceInv'
    <3>1. policy' = [policy EXCEPT !.on = on, !.state = @ + 1] /\ UNCHANGED <<control, day>>
      BY <2>1 DEF SetEnabled
    <3>2. policy \in [rev : Nat, state : Nat, on : BOOLEAN, cap : Caps]
      BY DEF PolicyInv, GovernanceInv
    <3>3. policy' \in [rev : Nat, state : Nat, on : BOOLEAN, cap : Caps]
      <4>1. policy.state + 1 \in Nat
        BY <3>2
      <4>2. PICK state \in Nat : policy' = [[policy EXCEPT !.on = on] EXCEPT !.state = state]
        BY <3>1, <4>1
      <4>3. [policy EXCEPT !.on = on] \in [rev : Nat, state : Nat, on : BOOLEAN, cap : Caps]
        BY <3>2
      <4>4. QED BY <4>2, <4>3
    <3>4. QED BY <3>1, <3>3 DEF PolicyInv, GovernanceInv
  <2>2. ASSUME NEW cap \in Caps, Revise(cap) PROVE GovernanceInv'
    BY <2>2 DEF Revise, PolicyInv, GovernanceInv
  <2>3. ASSUME NEW paused \in BOOLEAN, SetPaused(paused) PROVE GovernanceInv'
    BY <2>3 DEF SetPaused, PolicyInv, GovernanceInv
  <2>4. CASE NextDay
    BY <2>4, PoliciesAssumption DEF NextDay, PolicyInv, GovernanceInv
  <2>5. CASE Simulate \/ \E c \in fit : SourceChanges(c)
    BY <1>1, <2>5 DEF Simulate, SourceChanges
  <2>6. QED BY <1>2, <2>1, <2>2, <2>3, <2>4, <2>5 DEF Governance
<1>3. PolicyRunner \/ RunBreaks \/ Scheduling \/ UNCHANGED policyVars \/ RecoverPolicies => UNCHANGED <<policy, control, day>>
  BY DEF PolicyRunner, PolicyIntends, RunBreaks, Scheduling, LeaseDue, LeaseLapses, SimulateStart, SimulateItem,
         EvaluationFails, ScheduleFinish, RecoverPolicies, policyVars, governanceVars
<1>4. QED BY <1>1, <1>2, <1>3 DEF Automating, PoliciesNext

LEMMA JobKept == PolicyInv /\ Automating => job' \in JobRows
<1> SUFFICES ASSUME PolicyInv, Automating PROVE job' \in JobRows
  OBVIOUS
<1>0. job \in JobRows /\ policy.rev \in Nat /\ policy.state \in Nat /\ policy.cap \in Nat /\ control.rev \in Nat
  BY PoliciesAssumption DEF PolicyInv, GovernanceInv
<1>1. NoJob \in JobRows /\ Authority \in Authorities
  BY <1>0 DEF NoJob, JobRows, Authority, Authorities
<1>2. CASE LeaseDue
  <2>1. job' = [NoJob EXCEPT !.at = "leased", !.auth = Authority]
    BY <1>2 DEF LeaseDue
  <2>2. QED BY <1>1, <2>1 DEF JobRows
<1>3. CASE SimulateStart
  <2>1. Used(day) \in Nat
    BY ChargesCount DEF PolicyInv, GovernanceInv
  <2>2. {c \in Candidates : cand[c].status = "PENDING_REVIEW"} \in SUBSET Candidates
    OBVIOUS
  <2>3. job' = NoJob \/ job' = [job EXCEPT !.at = "read", !.saw = Authority, !.used = Used(day), !.cap = policy.cap,
                                  !.read = {c \in Candidates : cand[c].status = "PENDING_REVIEW"}]
    BY <1>3 DEF SimulateStart, ScheduleFails
  <2>4. QED BY <1>0, <1>1, <2>1, <2>2, <2>3 DEF JobRows
<1>4. CASE SimulateItem
  <2>1. Min(job.read) \in Candidates
    BY <1>0, <1>4, LeastIsIn DEF SimulateItem, JobRows
  <2>2. PICK c \in Candidates : c = Min(job.read)
    BY <2>1
  <2>3. PICK ready \in BOOLEAN : job' = [job EXCEPT !.read = @ \ {c}, !.seen = @ \cup
            {[c |-> c, rev |-> cand[c].rev,
              eligible |-> ready /\ cand[c].status = "PENDING_REVIEW" /\ Free(c) /\ c \in fit]}]
    BY <1>4, <2>2 DEF SimulateItem
  <2>4. PICK eligible \in BOOLEAN : eligible = (ready /\ cand[c].status = "PENDING_REVIEW" /\ Free(c) /\ c \in fit)
    OBVIOUS
  <2>5. cand[c].rev \in Nat
    BY DEF PolicyInv, AP!PlanInv, AP!ProposalTables, AP!CandRows
  <2>6. [c |-> c, rev |-> cand[c].rev, eligible |-> eligible] \in Seen
    BY <2>5 DEF Seen
  <2>7. job' = [job EXCEPT !.read = @ \ {c}, !.seen = @ \cup {[c |-> c, rev |-> cand[c].rev, eligible |-> eligible]}]
    BY <2>3, <2>4
  <2>8. QED BY <1>0, <2>6, <2>7 DEF JobRows
<1>5. CASE job' = job \/ job' = NoJob
  BY <1>0, <1>1, <1>5
<1>6. LeaseLapses \/ ScheduleFinish \/ EvaluationFails \/ Governance \/ PolicyRunner \/ RunBreaks \/ RecoverPolicies
      \/ UNCHANGED policyVars => job' = job \/ job' = NoJob
  BY DEF LeaseLapses, ScheduleFinish, EvaluationFails, ScheduleFails, Governance, PolicyRunner, PolicyIntends,
         RunBreaks, RecoverPolicies, policyVars, scheduleVars
<1>7. QED BY <1>2, <1>3, <1>4, <1>5, <1>6 DEF Automating, PoliciesNext, Scheduling

LEMMA PolicyKept == PolicyInv /\ Automating => PolicyInv'
<1> SUFFICES ASSUME PolicyInv, Automating PROVE PolicyInv'
  OBVIOUS
<1>1. (AP!OtherStep /\ UNCHANGED spent) \/ (AP!WorkerIntends /\ PolicyIntends)
  BY RunStep
<1>2. AP!PlanInv'
  BY <1>1, AP!PlanKept, ProposalsAssumption DEF PolicyInv, AP!PlanStep
<1>3. QuotaInv'
  BY <1>1, QuotaStays, QuotaCharged
<1>4. QED BY <1>2, <1>3, GovernanceKept, JobKept DEF PolicyInv

-----------------------------------------------------------------------------
LEMMA AgentsAtStart == Init => AgentsInv
<1> SUFFICES ASSUME Init PROVE AgentsInv
  OBVIOUS
<1>1. BP!PlansFit /\ AP!PlansFit
  BY BatchesAssumption, PoliciesAssumption DEF BP!PlansFit, AP!PlansFit
<1>2. BP!ProposalsInit /\ AP!ProposalsInit
  BY DEF Init, ProposalsInit, BP!ProposalsInit, AP!ProposalsInit, NoCall, BP!NoCall, AP!NoCall, Callers,
         BP!Callers, AP!Callers
<1>3. BP!PlansInit /\ AP!PlansInit
  BY DEF Init, BatchesInit, PoliciesInit, Review!PlansInit, PolicyRuns!PlansInit, BP!PlansInit, AP!PlansInit,
         Review!NoItem, PolicyRuns!NoItem, BP!NoItem, AP!NoItem, Review!Rest, PolicyRuns!Rest, BP!Rest, AP!Rest
<1>4. BP!PlanInv /\ AP!PlanInv
  BY <1>1, <1>2, <1>3, BP!PlanAtStart, AP!PlanAtStart, ProposalsAssumption
<1>5. \A c \in Candidates : cand[c].by = Nobody
  BY DEF Init, ProposalsInit
<1>6. BatchInv
  BY <1>4, <1>5, NobodyRuns DEF Init, BatchesInit, NoPreview, BatchInv
<1>7. GovernanceInv /\ job \in JobRows
  <2>1. policy \in [rev : {1}, state : {2}, on : {TRUE}, cap : Caps] /\ control = [rev |-> 2, paused |-> FALSE] /\ day = 0
        /\ job = NoJob
    BY DEF Init, PoliciesInit
  <2>2. policy \in [rev : Nat, state : Nat, on : BOOLEAN, cap : Caps]
    <3>1. [rev : {1}, state : {2}, on : {TRUE}, cap : Caps] \subseteq [rev : Nat, state : Nat, on : BOOLEAN, cap : Caps]
      <4>1. {1} \subseteq Nat /\ {2} \subseteq Nat /\ {TRUE} \subseteq BOOLEAN
        OBVIOUS
      <4>2. \A A, B, C, D, E, F : A \subseteq B /\ C \subseteq D /\ E \subseteq F =>
                [rev : A, state : C, on : E, cap : Caps] \subseteq [rev : B, state : D, on : F, cap : Caps]
        OBVIOUS
      <4>3. QED BY <4>1, <4>2, Zenon
    <3>2. QED BY <2>1, <3>1
  <2>3. NoJob \in JobRows
    BY DEF NoJob, JobRows, Authorities
  <2>4. QED BY <2>1, <2>2, <2>3, PoliciesAssumption DEF GovernanceInv
<1>8. spent = {}
  BY DEF Init, PoliciesInit
<1>9. QuotaInv
  <2>1. policy.cap \in Caps /\ Caps \subseteq Nat /\ IsFiniteSet(Caps)
    BY <1>7, PoliciesAssumption DEF GovernanceInv
  <2>2. Max(Caps) \in Nat
    BY <2>1, GreatestIsIn
  <2>3. \A d \in 0..Days : {s \in spent : s.day = d} = {}
    BY <1>8
  <2>4. Cardinality({}) = 0 /\ IsFiniteSet({})
    BY FS_EmptySet
  <2>5. \A d \in 0..Days : Cardinality({s \in spent : s.day = d}) <= Max(Caps)
    BY <2>2, <2>3, <2>4
  <2>6. QED BY <1>5, <1>8, <2>4, <2>5, NobodyRuns DEF QuotaInv
<1>10. IdleInv
  BY <1>3, <1>5, <1>8 DEF IdleInv, BP!PlansInit, AP!PlansInit, BP!NoItem, AP!NoItem
<1>11. QED BY <1>4, <1>6, <1>7, <1>9, <1>10 DEF AgentsInv, PolicyInv

LEMMA AgentsStay ==
    ASSUME AgentsInv, UNCHANGED <<proposalVars, batchVars, policyVars, scene>>
    PROVE  AgentsInv'
<1>1. UNCHANGED <<cand, call, BP!planVars, AP!planVars, preview, job, policy, control, day, spent, scene>>
  BY DEF proposalVars, batchVars, policyVars, governanceVars, scheduleVars, BP!planVars, AP!planVars
<1>2. BP!OtherStep /\ AP!OtherStep
  BY <1>1 DEF BP!OtherStep, AP!OtherStep
<1>3. scene = "batches" => BatchInv'
  BY <1>1, <1>2, BP!PlanKept, ProposalsAssumption DEF AgentsInv, BatchInv, BP!PlanStep, BP!planVars
<1>4. scene = "policies" => PolicyInv'
  BY <1>1, <1>2, QuotaStays, AP!PlanKept, ProposalsAssumption DEF AgentsInv, PolicyInv, GovernanceInv, AP!PlanStep
<1>5. IdleInv'
  BY <1>1 DEF AgentsInv, IdleInv, BP!planVars, AP!planVars
<1>6. GovernanceInv'
  BY <1>1 DEF AgentsInv, GovernanceInv
<1>7. QED BY <1>1, <1>3, <1>4, <1>5, <1>6 DEF AgentsInv

(* Who may move in each scene                                                     *)
LEMMA Moves ==
    ASSUME [Next]_vars
    PROVE  \/ scene = "batches" /\ Batching /\ UNCHANGED <<scene, policyVars>>
           \/ scene = "policies" /\ Automating /\ UNCHANGED <<scene, batchVars>>
           \/ UNCHANGED <<proposalVars, batchVars, policyVars, scene>>
<1>1. CASE Next
  BY <1>1 DEF Next, Scene, BatchScene, PolicyScene, JobScene, PanelScene, ReversionScene, ReviewScene
<1>2. CASE UNCHANGED vars
  BY <1>2 DEF vars
<1>3. QED BY <1>1, <1>2

LEMMA AgentsKept == AgentsInv /\ [Next]_vars => AgentsInv'
<1> SUFFICES ASSUME AgentsInv, [Next]_vars PROVE AgentsInv'
  OBVIOUS
<1>1. CASE scene = "batches" /\ Batching /\ UNCHANGED <<scene, policyVars>>
  <2>1. BatchInv'
    BY <1>1, BatchKept DEF AgentsInv
  <2>2. UNCHANGED <<scene, runItem, spent, policy, control, day>>
    BY <1>1 DEF policyVars, governanceVars
  <2>3. QED BY <1>1, <2>1, <2>2 DEF AgentsInv, IdleInv, GovernanceInv
<1>2. CASE scene = "policies" /\ Automating /\ UNCHANGED <<scene, batchVars>>
  <2>1. PolicyInv'
    BY <1>2, PolicyKept DEF AgentsInv
  <2>2. UNCHANGED <<scene, batchItem>>
    BY <1>2 DEF batchVars
  <2>3. QED BY <1>2, <2>1, <2>2 DEF AgentsInv, IdleInv, PolicyInv
<1>3. CASE UNCHANGED <<proposalVars, batchVars, policyVars, scene>>
  BY <1>3, AgentsStay
<1>4. QED BY <1>1, <1>2, <1>3, Moves

LEMMA AgentsHold == Spec => []AgentsInv
<1>1. Init => AgentsInv
  BY AgentsAtStart
<1>2. AgentsInv /\ [Next]_vars => AgentsInv'
  BY AgentsKept
<1>3. QED BY <1>1, <1>2, PTL DEF Spec

LEMMA ReceiptsFollow == AgentsInv => ReceiptsTellTheTruth
<1> SUFFICES ASSUME AgentsInv PROVE ReceiptsTellTheTruth
  OBVIOUS
<1>1. ASSUME NEW b \in Batches, NEW c \in Candidates PROVE Review!ReceiptTrue(b, c)
  <2>1. CASE scene = "batches"
    <3>1. BP!ReceiptTrue(b, c)
      BY <2>1, BP!ReceiptsAreTrue, ProposalsAssumption DEF AgentsInv, BatchInv
    <3>2. QED BY <3>1 DEF BP!ReceiptTrue, Review!ReceiptTrue, BP!Done, Review!Done
  <2>2. CASE scene # "batches"
    BY <2>2 DEF AgentsInv, IdleInv, Review!ReceiptTrue, Review!Done
  <2>3. QED BY <2>1, <2>2
<1>2. ASSUME NEW r \in Runs, NEW c \in Candidates PROVE PolicyRuns!ReceiptTrue(r, c)
  <2>1. CASE scene = "policies"
    <3>1. AP!ReceiptTrue(r, c)
      BY <2>1, AP!ReceiptsAreTrue, ProposalsAssumption DEF AgentsInv, PolicyInv
    <3>2. QED BY <3>1 DEF AP!ReceiptTrue, PolicyRuns!ReceiptTrue, AP!Done, PolicyRuns!Done
  <2>2. CASE scene # "policies"
    BY <2>2 DEF AgentsInv, IdleInv, PolicyRuns!ReceiptTrue, PolicyRuns!Done
  <2>3. QED BY <2>1, <2>2
<1>3. QED BY <1>1, <1>2 DEF ReceiptsTellTheTruth

LEMMA QuotaFollows == AgentsInv => QuotaCoversApplications
<1> SUFFICES ASSUME AgentsInv PROVE QuotaCoversApplications
  OBVIOUS
<1>1. CASE scene = "policies"
  <2>1. QuotaInv
    BY <1>1 DEF AgentsInv, PolicyInv
  <2>2. ASSUME NEW c \in Candidates, cand[c].by \in Runs
        PROVE  Cardinality({s \in spent : s.run = cand[c].by /\ s.c = c /\ s.rev <= cand[c].rev}) = 1
    <3>1. PICK s \in spent : s.run = cand[c].by /\ s.c = c /\ s.rev <= cand[c].rev
      BY <2>1, <2>2 DEF QuotaInv
    <3>2. \A u \in spent : u.run = cand[c].by /\ u.c = c => u = s
      BY <2>1, <3>1 DEF QuotaInv
    <3>3. {u \in spent : u.run = cand[c].by /\ u.c = c /\ u.rev <= cand[c].rev} = {s}
      BY <3>1, <3>2
    <3>4. Cardinality({s}) = 1
      BY FS_Singleton
    <3>5. QED BY <3>3, <3>4
  <2>3. QED BY <2>1, <2>2 DEF QuotaInv, QuotaCoversApplications
<1>2. CASE scene # "policies"
  <2>1. spent = {} /\ \A c \in Candidates : cand[c].by \notin Runs
    BY <1>2, NobodyRuns DEF AgentsInv, IdleInv, BatchInv
  <2>2. Max(Caps) \in Nat
    BY GreatestIsIn, PoliciesAssumption DEF AgentsInv, GovernanceInv
  <2>3. \A d \in 0..Days : {s \in spent : s.day = d} = {}
    BY <2>1
  <2>4. Cardinality({}) = 0
    BY FS_EmptySet
  <2>5. \A d \in 0..Days : Cardinality({s \in spent : s.day = d}) <= Max(Caps)
    BY <2>2, <2>3, <2>4
  <2>6. QED BY <2>1, <2>5 DEF QuotaCoversApplications
<1>3. QED BY <1>1, <1>2

(* A step that starts an application of a run is the one policy's that asked for  *)
(* it, and it was allowed                                                         *)
LEMMA StartsAreAllowed ==
    ASSUME AgentsInv, [Next]_vars, NEW c \in Candidates, Starts(c)
    PROVE  policy.on /\ ~control.paused /\ grant[cand'[c].by] = Authority /\ c \in fit
<1>1. CASE scene = "batches" /\ Batching /\ UNCHANGED <<scene, policyVars>>
  <2>1. BatchInv'
    BY <1>1, BatchKept DEF AgentsInv
  <2>2. QED BY <2>1 DEF BatchInv, Starts
<1>2. CASE scene = "policies" /\ Automating
  <2>0. PolicyInv /\ AP!PlanInv
    BY <1>2 DEF AgentsInv, PolicyInv
  <2>1. CASE AP!OtherStep
    <3>1. AP!Untaken(c)
      BY <2>0, <2>1, AP!OthersIntend, ProposalsAssumption
    <3>2. QED BY <3>1, NobodyRuns DEF AP!Untaken, Starts
  <2>2. CASE PolicyIntends
    <3>1. PICK allowed \in BOOLEAN :
            AP!Intend("policies", allowed, "denied") /\ (allowed => PolicyAllows(runTurn.of, runTurn.c))
      BY <2>2, RunWorkerIntends
    <3>2. \/ cand' = cand
          \/ allowed /\ cand'[runTurn.c].by = runTurn.of /\ \A d \in Candidates \ {runTurn.c} : cand'[d] = cand[d]
      BY <2>0, <3>1, AP!WorkerAsks, ProposalsAssumption
    <3>3. allowed /\ c = runTurn.c /\ cand'[c].by = runTurn.of
      BY <3>2 DEF Starts
    <3>4. QED BY <3>1, <3>3 DEF PolicyAllows, Authorised
  <2>3. QED BY <1>2, <2>0, <2>1, <2>2, RunStep
<1>3. CASE UNCHANGED <<proposalVars, batchVars, policyVars, scene>>
  BY <1>3 DEF proposalVars, Starts
<1>4. QED BY <1>1, <1>2, <1>3, Moves

(* Whatever is planned, decided, refused or crashes, the receipt of an item says  *)
(* APPLIED exactly when its batch or its run applied it, at the revision shown    *)
(* (finish_item, recover).                                                        *)
THEOREM ReceiptsAreHonest == Spec => []ReceiptsTellTheTruth
BY AgentsHold, ReceiptsFollow, PTL

(* Whatever day it is and whatever a person revises, every application of a run   *)
(* was charged once, and no day goes over its quota (automation_reservations).    *)
THEOREM QuotaIsKept == Spec => []QuotaCoversApplications
BY AgentsHold, QuotaFollows, PTL

(* A policy starts an application only while it is enabled, unpaused and as it    *)
(* was when the run was planned (reserve_policy_application).                     *)
THEOREM PolicyObeys == Spec => AutomaticStepIsAuthorised
<1>1. AgentsInv /\ [Next]_vars => [\A c \in Candidates : Starts(c) =>
        /\ policy.on /\ ~control.paused /\ grant[cand'[c].by] = Authority
        /\ c \in fit]_vars
  BY StartsAreAllowed
<1>2. QED BY <1>1, AgentsHold, PTL DEF Spec, AutomaticStepIsAuthorised

-----------------------------------------------------------------------------
(* The queue of the analyses. A job that ended stays as it ended, an attempt is    *)
(* made only once the one before it ended, and what the worker has integrated of   *)
(* an answer is what its job asked about                                           *)
Compared == {c \in Claims : c[1] \in Related}
Integrated(j, i) ==
    LET c == <<i, jobs[j].text[i]>>
    IN  /\ claims[c] # "none"
        /\ i \in Related => proposal[c] # "none" /\ (c \in worker.made \/ ComparisonAttempts(c) # {})

AnalysisRows == [status : Live \cup Ended \cup {"none"}, text : Texts,
                 sends : 0..MaxSends + MaxUpsets + 1, found : SUBSET Sentences]
WorkerRows == [at : {"idle", "dispatch", "post", "poll", "asked", "check", "claims", "match", "schedule", "record", "close"},
               list : SUBSET Jobs, job : Jobs \cup {Nothing}, todo : SUBSET Sentences, made : SUBSET Claims]
DeskRows == [at : {"idle", "create", "supersede", "again"}, job : Jobs \cup {Nothing}, text : Texts]
NoteRows == [status : {"PUBLISHED", "RETIRED"}, text : Texts, disk : Texts]
ClaimTables ==
    /\ note \in NoteRows
    /\ claims \in [Claims -> {"none", "ACTIVE", "RETRACTED"}]
    /\ proposal \in [Claims -> {"none", "PENDING_COMPARISON", "PENDING_REVIEW", "REJECTED", "CONFLICT"}]
    /\ upsets \in 0..MaxUpsets
DeskInv == desk \in [{"window", "all"} -> DeskRows] /\ \A t \in {"window", "all"} : desk[t].at = "create" => desk[t].job \in Jobs
SendsInv == \A j \in Jobs :
    /\ jobs[j].status = "READY" => jobs[j].sends <= MaxSends + upsets
    /\ jobs[j].sends <= MaxSends + upsets + 1
WorkerInv ==
    /\ \A j \in worker.list : jobs[j].status # "none"
    /\ worker.at \in {"post", "asked"} \cup Integrating => worker.job \in Jobs /\ jobs[worker.job].status # "none"
    /\ worker.at \in {"claims", "match", "schedule"} => worker.job[1] = "EXTRACT"
    /\ worker.at = "record" => worker.job[1] = "COMPARE"
    /\ worker.at \notin {"claims", "match", "schedule"} => worker.made = {}
    /\ worker.made \subseteq Compared
    /\ worker.at \in {"claims", "match"} => worker.todo \subseteq jobs[worker.job].found
    /\ worker.at = "match" => worker.todo # {} /\ claims[Claimed] # "none"
IntegrationInv ==
    /\ worker.at \in {"claims", "match"} => \A i \in jobs[worker.job].found \ worker.todo : Integrated(worker.job, i)
    /\ worker.at = "schedule" \/ (worker.at = "close" /\ worker.job[1] = "EXTRACT") =>
        \A i \in jobs[worker.job].found : Integrated(worker.job, i)
Whole(c) == claims[c] # "none" /\ (c[1] \in Related => proposal[c] # "none" /\ ComparisonAttempts(c) # {})
EndedInv == \A a \in Attempts : jobs[Extraction(a)].status = "SUCCESS" =>
    \A i \in jobs[Extraction(a)].found : Whole(<<i, jobs[Extraction(a)].text[i]>>)
AttemptsInv == \A c \in Compared, a, b \in Attempts : b < a =>
    /\ jobs[Comparison(c, a)].status # "none" => jobs[Comparison(c, b)].status \in Ended
    /\ \A t \in {"window", "all"} : desk[t].at = "create" /\ desk[t].job = Comparison(c, a) =>
        jobs[Comparison(c, b)].status \in Ended
AnalysisTables == ClaimTables /\ jobs \in [Jobs -> AnalysisRows] /\ worker \in WorkerRows
AnalysisInv == AnalysisTables /\ DeskInv /\ SendsInv /\ WorkerInv /\ IntegrationInv /\ EndedInv /\ AttemptsInv

-----------------------------------------------------------------------------
(* What a step may do to the jobs, to the claims and to the proposals             *)
Evolves(j) ==
    /\ jobs'[j] \in AnalysisRows
    /\ jobs[j].status # "none" => jobs'[j].status # "none" /\ jobs'[j].text = jobs[j].text
    /\ jobs[j].status # "none" /\ worker'.at # "check" => jobs'[j].found = jobs[j].found
    /\ jobs[j].status \in Ended => jobs'[j].status = jobs[j].status /\ jobs'[j].found = jobs[j].found
    /\ jobs'[j].status = "SUCCESS" /\ jobs[j].status # "SUCCESS" =>
        worker.at = "close" /\ j = worker.job /\ jobs'[j].found = jobs[j].found
    /\ jobs'[j].status = "READY" => jobs'[j].sends <= MaxSends + upsets'
    /\ jobs'[j].sends <= MaxSends + upsets' + 1
Evolve == jobs' \in [Jobs -> AnalysisRows] /\ \A j \in Jobs : Evolves(j)
Grow == \A c \in Claims : (claims[c] # "none" => claims'[c] # "none") /\ (proposal[c] # "none" => proposal'[c] # "none")
UpsetsGrow == upsets' \in 0..MaxUpsets /\ upsets <= upsets'

LEMMA JobShapes ==
    /\ \A a \in Attempts : Extraction(a) \in Jobs /\ Extraction(a)[1] = "EXTRACT"
    /\ \A c \in Compared, a \in Attempts : Comparison(c, a) \in Jobs /\ Comparison(c, a)[1] = "COMPARE" /\ Of(Comparison(c, a)) = c
    /\ \A j \in Jobs : (j[1] = "EXTRACT" /\ \E a \in Attempts : j = Extraction(a))
                       \/ (j[1] = "COMPARE" /\ \E c \in Compared, a \in Attempts : j = Comparison(c, a))
<1>1. \A a \in Attempts : Extraction(a) \in Jobs /\ Extraction(a)[1] = "EXTRACT"
  BY DEF Jobs, Extraction
<1>2. \A c \in Compared : \E i \in Related, e \in 0..MaxEdits : c = <<i, e>>
  BY DEF Compared, Claims
<1>3. \A c \in Compared, a \in Attempts : Comparison(c, a) \in Jobs /\ Comparison(c, a)[1] = "COMPARE" /\ Of(Comparison(c, a)) = c
  BY <1>2 DEF Jobs, Comparison, Of, Compared
<1>4. ASSUME NEW j \in Jobs
      PROVE  (j[1] = "EXTRACT" /\ \E a \in Attempts : j = Extraction(a))
             \/ (j[1] = "COMPARE" /\ \E c \in Compared, a \in Attempts : j = Comparison(c, a))
  BY <1>1, <1>3 DEF Jobs, Compared
<1>5. QED BY <1>1, <1>3, <1>4

LEMMA Bounds ==
    /\ MaxSends \in Nat /\ MaxUpsets \in Nat /\ MaxEdits \in Nat /\ MaxAttempts \in Nat /\ Sentences \subseteq Nat
    /\ Related \subseteq Sentences /\ Unasked \in AnalysisRows /\ Unasked.text \in Texts /\ Unasked.status = "none"
    /\ Unasked.sends = 0 /\ Unasked.found = {}
<1>1. MaxSends \in Nat /\ MaxUpsets \in Nat /\ MaxEdits \in Nat /\ MaxAttempts \in Nat /\ Sentences \subseteq Nat /\ Related \subseteq Sentences
  BY SemanticJobsAssumption
<1>2. Unasked.text \in Texts
  BY <1>1 DEF Unasked, Texts
<1>3. QED BY <1>1, <1>2 DEF Unasked, AnalysisRows

(* One row is changed, as the statuses of a job allow                             *)
LEMMA EvolveAt ==
    ASSUME AnalysisTables, SendsInv, UpsetsGrow, NEW j \in Jobs, NEW r \in AnalysisRows,
           jobs' = [jobs EXCEPT ![j] = r],
           jobs[j].status # "none" => r.status # "none" /\ r.text = jobs[j].text,
           worker'.at # "check" /\ jobs[j].status # "none" => r.found = jobs[j].found,
           jobs[j].status \in Ended => r.status = jobs[j].status /\ r.found = jobs[j].found,
           r.status = "SUCCESS" /\ jobs[j].status # "SUCCESS" => worker.at = "close" /\ j = worker.job /\ r.found = jobs[j].found,
           r.status = "READY" => r.sends <= MaxSends + upsets', r.sends <= MaxSends + upsets' + 1
    PROVE  Evolve /\ jobs'[j] = r /\ \A k \in Jobs \ {j} : jobs'[k] = jobs[k]
<1>1. jobs' \in [Jobs -> AnalysisRows] /\ jobs'[j] = r /\ \A k \in Jobs \ {j} : jobs'[k] = jobs[k]
  BY DEF AnalysisTables
<1>2. ASSUME NEW k \in Jobs \ {j} PROVE Evolves(k)
  <2>1. jobs'[k] = jobs[k] /\ jobs[k] \in AnalysisRows /\ jobs[k].sends \in Nat
    BY <1>1 DEF AnalysisTables, AnalysisRows
  <2>2. upsets \in Nat /\ upsets' \in Nat /\ upsets <= upsets' /\ MaxSends \in Nat
    BY Bounds DEF AnalysisTables, ClaimTables, UpsetsGrow
  <2>3. QED BY <2>1, <2>2 DEF SendsInv, Evolves
<1>3. Evolves(j)
  BY <1>1 DEF Evolves
<1>4. QED BY <1>1, <1>2, <1>3 DEF Evolve

LEMMA NothingMoves ==
    ASSUME AnalysisTables, SendsInv, UpsetsGrow, UNCHANGED jobs
    PROVE  Evolve
<1>1. upsets \in Nat /\ upsets' \in Nat /\ upsets <= upsets' /\ MaxSends \in Nat
  BY Bounds DEF AnalysisTables, ClaimTables, UpsetsGrow
<1>2. ASSUME NEW k \in Jobs PROVE Evolves(k)
  <2>1. jobs'[k] = jobs[k] /\ jobs[k] \in AnalysisRows /\ jobs[k].sends \in Nat
    BY DEF AnalysisTables, AnalysisRows
  <2>2. QED BY <1>1, <2>1 DEF SendsInv, Evolves
<1>3. QED BY <1>2 DEF Evolve, AnalysisTables

LEMMA MovedEvolves ==
    ASSUME AnalysisTables, SendsInv, UpsetsGrow, NEW j \in Jobs, NEW status \in Live \cup Ended,
           jobs' = Moved(j, status), jobs[j].status \notin Ended \cup {"none"},
           status = "SUCCESS" => worker.at = "close" /\ j = worker.job,
           status = "READY" => jobs[j].sends <= MaxSends + upsets'
    PROVE  Evolve /\ jobs'[j].status = status /\ jobs'[j].text = jobs[j].text /\ jobs'[j].found = jobs[j].found
           /\ \A k \in Jobs \ {j} : jobs'[k] = jobs[k]
<1>1. jobs[j] \in AnalysisRows /\ upsets \in Nat /\ upsets' \in Nat /\ upsets <= upsets' /\ MaxSends \in Nat /\ jobs[j].sends \in Nat
  BY Bounds DEF AnalysisTables, ClaimTables, UpsetsGrow, AnalysisRows
<1>2. PICK r \in AnalysisRows : r = [jobs[j] EXCEPT !.status = status]
  BY <1>1 DEF AnalysisRows
<1>3. r.status = status /\ r.text = jobs[j].text /\ r.found = jobs[j].found /\ r.sends = jobs[j].sends
  BY <1>1, <1>2 DEF AnalysisRows
<1>4. jobs' = [jobs EXCEPT ![j] = r]
  BY <1>2 DEF Moved
<1>5. jobs[j].sends <= MaxSends + upsets + 1
  BY DEF SendsInv
<1>6. r.sends <= MaxSends + upsets' + 1
  BY <1>1, <1>3, <1>5
<1>7. Evolve /\ jobs'[j] = r /\ \A k \in Jobs \ {j} : jobs'[k] = jobs[k]
  BY <1>3, <1>4, <1>6, EvolveAt DEF Live, Ended
<1>8. QED BY <1>3, <1>7

LEMMA FailedEvolves ==
    ASSUME AnalysisTables, SendsInv, UpsetsGrow, NEW j \in Jobs, jobs' = Failed(j), jobs[j].status # "none"
    PROVE  Evolve /\ \A k \in Jobs : jobs[k].status = "none" => jobs'[k].status = "none"
<1>1. CASE jobs[j].status \in Ended
  <2>0. jobs' = [jobs EXCEPT ![j] = [jobs[j] EXCEPT !.status = jobs[j].status]] /\ jobs[j] \in AnalysisRows
    BY <1>1 DEF Failed, AnalysisTables
  <2>01. [jobs[j] EXCEPT !.status = jobs[j].status] = jobs[j]
    BY <2>0 DEF AnalysisRows
  <2>1. jobs' = jobs
    BY <2>0, <2>01 DEF AnalysisTables
  <2>2. QED BY <2>1, NothingMoves
<1>2. CASE jobs[j].status \notin Ended
  <2>1. jobs' = Moved(j, "ERROR")
    BY <1>2 DEF Failed, Moved
  <2>2. "ERROR" \in Live \cup Ended
    BY DEF Ended
  <2>3. Evolve /\ \A k \in Jobs \ {j} : jobs'[k] = jobs[k]
    BY <1>2, <2>1, <2>2, MovedEvolves
  <2>4. QED BY <2>3
<1>3. QED BY <1>1, <1>2

LEMMA CreatedEvolves ==
    ASSUME AnalysisTables, SendsInv, UpsetsGrow, NEW j \in Jobs, NEW text \in Texts, jobs' = Created(j, text)
    PROVE  Evolve /\ jobs'[j].status # "none" /\ \A k \in Jobs \ {j} : jobs'[k] = jobs[k]
<1>1. CASE jobs[j].status # "none"
  BY <1>1, NothingMoves DEF Created
<1>2. CASE jobs[j].status = "none"
  <2>1. PICK r \in AnalysisRows : r = [Unasked EXCEPT !.status = "READY", !.text = text]
    BY Bounds DEF AnalysisRows, Live
  <2>2. r.status = "READY" /\ r.sends = 0
    BY <2>1, Bounds DEF Unasked
  <2>3. jobs' = [jobs EXCEPT ![j] = r]
    BY <1>2, <2>1 DEF Created
  <2>4. upsets' \in Nat /\ MaxSends \in Nat
    BY Bounds DEF UpsetsGrow
  <2>40. PICK u \in Nat, m \in Nat : u = upsets' /\ m = MaxSends
    BY <2>4
  <2>41. 0 <= m + u /\ 0 <= m + u + 1
    OBVIOUS
  <2>5. r.sends <= MaxSends + upsets' /\ r.sends <= MaxSends + upsets' + 1
    BY <2>2, <2>40, <2>41
  <2>6. Evolve /\ jobs'[j] = r /\ \A k \in Jobs \ {j} : jobs'[k] = jobs[k]
    BY <1>2, <2>2, <2>3, <2>5, EvolveAt DEF Ended
  <2>7. QED BY <2>2, <2>6
<1>3. QED BY <1>1, <1>2

(* Several rows change their status at once                                       *)
LEMMA StatusesEvolve ==
    ASSUME AnalysisTables, SendsInv, UpsetsGrow, NEW status \in {"READY", "ERROR"},
           status = "READY" => upsets' = upsets + 1,
           DOMAIN jobs' = Jobs, jobs' = [k \in Jobs |-> jobs'[k]],
           \A k \in Jobs : jobs'[k] = jobs[k] \/ (jobs[k].status \in Live /\ jobs'[k] = [jobs[k] EXCEPT !.status = status])
    PROVE  Evolve /\ \A k \in Jobs : jobs[k].status = "none" => jobs'[k].status = "none"
<1>1. upsets \in Nat /\ upsets' \in Nat /\ upsets <= upsets' /\ MaxSends \in Nat
  BY Bounds DEF AnalysisTables, ClaimTables, UpsetsGrow
<1>2. ASSUME NEW k \in Jobs
      PROVE  Evolves(k) /\ (jobs[k].status = "none" => jobs'[k].status = "none")
  <2>1. jobs[k] \in AnalysisRows /\ jobs[k].sends \in Nat /\ jobs[k].sends <= MaxSends + upsets + 1
    BY DEF AnalysisTables, AnalysisRows, SendsInv
  <2>2. CASE jobs'[k] = jobs[k]
    BY <1>1, <2>1, <2>2 DEF Evolves, SendsInv
  <2>3. CASE jobs[k].status \in Live /\ jobs'[k] = [jobs[k] EXCEPT !.status = status]
    <3>1. jobs'[k] \in AnalysisRows /\ jobs'[k].status = status /\ jobs'[k].text = jobs[k].text
          /\ jobs'[k].found = jobs[k].found /\ jobs'[k].sends = jobs[k].sends
      BY <2>1, <2>3 DEF AnalysisRows, Live, Ended
    <3>2. jobs'[k].sends <= MaxSends + upsets' + 1
      BY <1>1, <2>1, <3>1
    <3>3. status = "READY" => jobs'[k].sends <= MaxSends + upsets'
      BY <1>1, <2>1, <3>1
    <3>4. status # "SUCCESS" /\ status # "none" /\ jobs[k].status # "none" /\ jobs[k].status \notin Ended
      BY <2>3 DEF Live, Ended
    <3>5. QED BY <3>1, <3>2, <3>3, <3>4 DEF Evolves
  <2>4. QED BY <2>2, <2>3
<1>3. jobs' \in [Jobs -> AnalysisRows]
  BY <1>2 DEF Evolves
<1>4. QED BY <1>2, <1>3 DEF Evolve

-----------------------------------------------------------------------------
(* What every step keeps, when it evolves the jobs                                *)
LEMMA EndedStays ==
    ASSUME AnalysisInv, Evolve, Grow, NEW j \in Jobs, jobs[j].status \in Ended
    PROVE  jobs'[j].status \in Ended
<1>1. Evolves(j)
  BY DEF Evolve
<1>2. QED BY <1>1 DEF Evolves

LEMMA RowsStay ==
    ASSUME AnalysisInv, Evolve, NEW j \in Jobs, jobs[j].status # "none"
    PROVE  jobs'[j].status # "none" /\ jobs'[j].text = jobs[j].text
           /\ (worker'.at # "check" => jobs'[j].found = jobs[j].found)
<1>1. Evolves(j)
  BY DEF Evolve
<1>2. QED BY <1>1 DEF Evolves

LEMMA AttemptsStay ==
    ASSUME AnalysisInv, Evolve, NEW c \in Compared, ComparisonAttempts(c) # {}
    PROVE  ComparisonAttempts(c)' # {}
<1>1. PICK a \in Attempts : jobs[Comparison(c, a)].status # "none"
  BY DEF ComparisonAttempts
<1>2. PICK j \in Jobs : j = Comparison(c, a)
  BY JobShapes
<1>3. jobs'[j].status # "none"
  BY <1>1, <1>2, RowsStay
<1>4. QED BY <1>2, <1>3 DEF ComparisonAttempts

(* A claim of an answer stays integrated                                          *)
LEMMA IntegratedStays ==
    ASSUME AnalysisInv, Evolve, Grow, NEW j \in Jobs, jobs[j].status # "none", NEW i \in Sentences, Integrated(j, i),
           worker.made \subseteq worker'.made \/ \A c \in worker.made \ worker'.made : ComparisonAttempts(c)' # {}
    PROVE  Integrated(j, i)'
<1>1. PICK c : c = <<i, jobs[j].text[i]>>
  OBVIOUS
<1>2. jobs'[j].text = jobs[j].text
  BY RowsStay
<1>3. c \in Claims
  <2>1. jobs[j].text \in Texts
    BY DEF AnalysisInv, AnalysisTables, AnalysisRows
  <2>2. QED BY <1>1, <2>1 DEF Texts, Claims
<1>4. claims'[c] # "none"
  BY <1>1, <1>3 DEF Grow, Integrated
<1>5. ASSUME i \in Related PROVE proposal'[c] # "none" /\ (c \in worker'.made \/ ComparisonAttempts(c)' # {})
  <2>1. proposal[c] # "none" /\ (c \in worker.made \/ ComparisonAttempts(c) # {})
    BY <1>1, <1>5 DEF Integrated
  <2>2. c \in Compared
    BY <1>1, <1>3, <1>5 DEF Compared
  <2>3. QED BY <1>3, <2>1, <2>2, AttemptsStay DEF Grow
<1>6. QED BY <1>1, <1>2, <1>4, <1>5 DEF Integrated

LEMMA EndedKept ==
    ASSUME AnalysisInv, Evolve, Grow
    PROVE  EndedInv'
<1>1. SUFFICES ASSUME NEW a \in Attempts, jobs'[Extraction(a)].status = "SUCCESS", NEW i \in jobs'[Extraction(a)].found
      PROVE  Whole(<<i, jobs[Extraction(a)].text[i]>>)'
  BY DEF EndedInv
<1>2. PICK j \in Jobs : j = Extraction(a) /\ j[1] = "EXTRACT"
  BY JobShapes
<1>3. PICK c : c = <<i, jobs'[j].text[i]>>
  OBVIOUS
<1>4. i \in Sentences /\ c \in Claims /\ jobs'[j].text \in Texts
  <2>1. jobs'[j] \in AnalysisRows
    BY DEF Evolve
  <2>2. i \in Sentences /\ jobs'[j].text \in Texts
    BY <1>2, <2>1 DEF AnalysisRows
  <2>3. QED BY <1>3, <2>2 DEF Texts, Claims
<1>5. i \in jobs[j].found /\ jobs'[j].text = jobs[j].text /\ Whole(c)
  <2>1. CASE jobs[j].status = "SUCCESS"
    <3>1. jobs[j].status \in Ended /\ jobs[j].status # "none"
      BY <2>1 DEF Ended
    <3>2. jobs'[j].found = jobs[j].found /\ jobs'[j].text = jobs[j].text
      BY <3>1 DEF Evolve, Evolves
    <3>3. QED BY <1>1, <1>2, <1>3, <2>1, <3>2 DEF AnalysisInv, EndedInv
  <2>2. CASE jobs[j].status # "SUCCESS"
    <3>1. worker.at = "close" /\ j = worker.job /\ jobs'[j].found = jobs[j].found
      BY <1>1, <1>2, <2>2 DEF Evolve, Evolves
    <3>2. jobs[j].status # "none" /\ worker.made = {}
      BY <3>1 DEF AnalysisInv, WorkerInv, Integrating
    <3>3. jobs'[j].text = jobs[j].text
      BY <3>2, RowsStay
    <3>4. Integrated(j, i)
      BY <1>1, <1>2, <3>1 DEF AnalysisInv, IntegrationInv
    <3>5. QED BY <1>1, <1>2, <1>3, <3>1, <3>2, <3>3, <3>4 DEF Integrated, Whole
  <2>3. QED BY <2>1, <2>2
<1>6. claims'[c] # "none" /\ (c[1] \in Related => proposal'[c] # "none")
  BY <1>4, <1>5 DEF Grow, Whole
<1>7. ASSUME c[1] \in Related PROVE ComparisonAttempts(c)' # {}
  <2>1. c \in Compared
    BY <1>4, <1>7 DEF Compared
  <2>2. QED BY <1>5, <1>7, <2>1, AttemptsStay DEF Whole
<1>8. Whole(c)'
  BY <1>6, <1>7 DEF Whole
<1>9. QED BY <1>2, <1>3, <1>8

-----------------------------------------------------------------------------
(* The claim the worker is on                                                     *)
LEMMA ClaimedIs ==
    ASSUME AnalysisInv, worker.at \in {"claims", "match"}, worker.todo # {}
    PROVE  /\ First(worker.todo) \in worker.todo /\ First(worker.todo) \in Sentences
           /\ First(worker.todo) \in jobs[worker.job].found
           /\ Claimed \in Claims /\ Claimed[1] = First(worker.todo) /\ Claimed = <<First(worker.todo), jobs[worker.job].text[First(worker.todo)]>>
           /\ worker.job \in Jobs
<1>1. worker.todo \subseteq Sentences /\ worker.todo \subseteq Nat
  BY Bounds DEF AnalysisInv, AnalysisTables, WorkerRows
<1>2. First(worker.todo) \in worker.todo
  <2>1. \E n \in worker.todo : \A k \in worker.todo : n <= k
    BY <1>1, AP!LeastNumber, ProposalsAssumption
  <2>2. QED BY <2>1 DEF First
<1>3. worker.job \in Jobs /\ worker.todo \subseteq jobs[worker.job].found
  BY DEF AnalysisInv, WorkerInv, Integrating
<1>4. jobs[worker.job].text \in Texts
  BY <1>3 DEF AnalysisInv, AnalysisTables, AnalysisRows
<1>5. Claimed \in Claims
  BY <1>1, <1>2, <1>4 DEF Claimed, Claims, Texts
<1>6. QED BY <1>1, <1>2, <1>3, <1>5 DEF Claimed

(* An attempt is new only if it is the first, an extraction, or what a thread of   *)
(* the desktop was about to create                                                *)
Admitted(j) ==
    \/ j[1] = "EXTRACT"
    \/ \E c \in Compared : j = Comparison(c, 1)
    \/ \E t \in {"window", "all"} : desk[t].at = "create" /\ desk[t].job = j
EarlierEnded(j) == \A c \in Compared, a, b \in Attempts : j = Comparison(c, a) /\ b < a => jobs[Comparison(c, b)].status \in Ended
NewAreAdmitted == \A j \in Jobs : jobs[j].status = "none" /\ jobs'[j].status # "none" => Admitted(j)
DeskMoves ==
    /\ desk' \in [{"window", "all"} -> DeskRows]
    /\ \A t \in {"window", "all"} : desk'[t].at = "create" =>
        desk'[t] = desk[t] \/ (desk'[t].job \in Jobs /\ EarlierEnded(desk'[t].job))

LEMMA AttemptsKept ==
    ASSUME AnalysisInv, Evolve, Grow, NewAreAdmitted, DeskMoves
    PROVE  AttemptsInv' /\ DeskInv'
<1>1. ASSUME NEW c \in Compared, NEW a \in Attempts, NEW b \in Attempts, b < a, jobs'[Comparison(c, a)].status # "none"
      PROVE  jobs'[Comparison(c, b)].status \in Ended
  <2>1. PICK j \in Jobs : j = Comparison(c, a) /\ j[1] = "COMPARE"
    BY JobShapes
  <2>2. PICK k \in Jobs : k = Comparison(c, b)
    BY JobShapes
  <2>3. a # 1
    BY <1>1, Bounds DEF Attempts
  <2>4. ASSUME NEW d \in Compared PROVE j # Comparison(d, 1)
    BY <2>1, <2>3 DEF Comparison
  <2>5. jobs[j].status # "none" \/ \E t \in {"window", "all"} : desk[t].at = "create" /\ desk[t].job = j
    BY <1>1, <2>1, <2>4 DEF NewAreAdmitted, Admitted
  <2>6. jobs[k].status \in Ended
    BY <1>1, <2>1, <2>2, <2>5 DEF AnalysisInv, AttemptsInv
  <2>7. QED BY <2>2, <2>6, EndedStays
<1>2. ASSUME NEW c \in Compared, NEW a \in Attempts, NEW b \in Attempts, b < a,
             NEW t \in {"window", "all"}, desk'[t].at = "create", desk'[t].job = Comparison(c, a)
      PROVE  jobs'[Comparison(c, b)].status \in Ended
  <2>1. PICK k \in Jobs : k = Comparison(c, b)
    BY JobShapes
  <2>2. CASE desk'[t] = desk[t]
    <3>1. jobs[k].status \in Ended
      BY <1>2, <2>1, <2>2 DEF AnalysisInv, AttemptsInv
    <3>2. QED BY <2>1, <3>1, EndedStays
  <2>3. CASE EarlierEnded(desk'[t].job)
    <3>1. jobs[k].status \in Ended
      BY <1>2, <2>1, <2>3 DEF EarlierEnded
    <3>2. QED BY <2>1, <3>1, EndedStays
  <2>4. QED BY <1>2, <2>2, <2>3 DEF DeskMoves
<1>3. AttemptsInv'
  BY <1>1, <1>2 DEF AttemptsInv
<1>4. DeskInv'
  BY DEF DeskMoves, DeskInv, AnalysisInv
<1>5. QED BY <1>3, <1>4

(* What is left to show of each step                                              *)
WorkerGoes == worker' \in WorkerRows /\ WorkerInv' /\ IntegrationInv'
Steps == Evolve /\ Grow /\ UpsetsGrow /\ ClaimTables' /\ NewAreAdmitted /\ DeskMoves

LEMMA AnalysisKept ==
    ASSUME AnalysisInv, Steps, WorkerGoes
    PROVE  AnalysisInv'
<1>1. AnalysisTables'
  BY DEF Steps, Evolve, WorkerGoes, AnalysisTables
<1>2. SendsInv'
  BY DEF Steps, Evolve, Evolves, SendsInv
<1>3. EndedInv'
  BY EndedKept DEF Steps
<1>4. AttemptsInv' /\ DeskInv'
  BY AttemptsKept DEF Steps
<1>5. QED BY <1>1, <1>2, <1>3, <1>4 DEF WorkerGoes, AnalysisInv

(* The worker waits while others move                                             *)
LEMMA WorkerWaits ==
    ASSUME AnalysisInv, Evolve, Grow, UNCHANGED worker
    PROVE  WorkerGoes
<1>1. worker' \in WorkerRows
  BY DEF AnalysisInv, AnalysisTables
<1>2. \A j \in Jobs : jobs[j].status # "none" => jobs'[j].status # "none" /\ jobs'[j].text = jobs[j].text
  BY RowsStay
<1>3. ASSUME worker.at \in {"claims", "match", "schedule", "close"}
      PROVE  worker.job \in Jobs /\ jobs[worker.job].status # "none" /\ jobs'[worker.job].found = jobs[worker.job].found
             /\ jobs'[worker.job].text = jobs[worker.job].text /\ jobs[worker.job].found \subseteq Sentences
  <2>1. worker.job \in Jobs /\ jobs[worker.job].status # "none"
    BY <1>3 DEF AnalysisInv, WorkerInv, Integrating
  <2>2. worker'.at # "check"
    BY <1>3
  <2>3. jobs[worker.job].found \subseteq Sentences
    BY <2>1 DEF AnalysisInv, AnalysisTables, AnalysisRows
  <2>4. QED BY <2>1, <2>2, <2>3, RowsStay
<1>4. WorkerInv'
  <2>1. worker.list \subseteq Jobs
    BY DEF AnalysisInv, AnalysisTables, WorkerRows
  <2>2. \A j \in worker.list : jobs'[j].status # "none"
    BY <1>2, <2>1 DEF AnalysisInv, WorkerInv
  <2>3. worker.at \in {"post", "asked"} \cup Integrating => worker.job \in Jobs /\ jobs'[worker.job].status # "none"
    BY <1>2 DEF AnalysisInv, WorkerInv
  <2>4. worker.at \in {"claims", "match"} => worker.todo \subseteq jobs'[worker.job].found
    BY <1>3 DEF AnalysisInv, WorkerInv
  <2>5. worker.at = "match" => worker.todo # {} /\ claims'[Claimed'] # "none"
    <3>1. SUFFICES ASSUME worker.at = "match" PROVE claims'[Claimed'] # "none"
      BY DEF AnalysisInv, WorkerInv
    <3>2. Claimed' = Claimed
      BY <1>3, <3>1 DEF Claimed, First
    <3>3. worker.todo # {} /\ worker.todo \subseteq jobs[worker.job].found /\ claims[Claimed] # "none"
      BY <3>1 DEF AnalysisInv, WorkerInv
    <3>4. Claimed \in Claims
      BY <1>3, <3>1, <3>3, ClaimedIs
    <3>5. QED BY <3>2, <3>3, <3>4 DEF Grow
  <2>6. QED BY <2>2, <2>3, <2>4, <2>5 DEF AnalysisInv, WorkerInv
<1>5. IntegrationInv'
  <2>1. ASSUME worker.at \in {"claims", "match", "schedule", "close"}, NEW i \in jobs[worker.job].found, Integrated(worker.job, i)
        PROVE  Integrated(worker.job, i)'
    <3>1. PICK j \in Jobs : j = worker.job
      BY <1>3, <2>1
    <3>2. Integrated(j, i)'
      BY <1>3, <2>1, <3>1, IntegratedStays
    <3>3. QED BY <3>1, <3>2
  <2>2. QED BY <1>3, <2>1 DEF AnalysisInv, IntegrationInv
<1>6. QED BY <1>1, <1>4, <1>5 DEF WorkerGoes

-----------------------------------------------------------------------------
(* What a step leaves alone                                                       *)
LEMMA UpsetsMove == ASSUME ClaimTables, Upset \/ UNCHANGED upsets PROVE UpsetsGrow
BY Bounds DEF ClaimTables, Upset, UpsetsGrow

LEMMA DeskRests == ASSUME DeskInv, UNCHANGED desk PROVE DeskMoves
BY DEF DeskInv, DeskMoves

LEMMA NothingNew == ASSUME UNCHANGED jobs PROVE NewAreAdmitted
BY DEF NewAreAdmitted

LEMMA ClaimsRest == ASSUME ClaimTables, UpsetsGrow, UNCHANGED <<note, claims, proposal>> PROVE ClaimTables' /\ Grow
BY DEF ClaimTables, UpsetsGrow, Grow

LEMMA Waits ==
    ASSUME AnalysisInv, Upset \/ UNCHANGED upsets, UNCHANGED jobs
    PROVE  Evolve /\ UpsetsGrow /\ NewAreAdmitted
<1>1. UpsetsGrow
  BY UpsetsMove DEF AnalysisInv, AnalysisTables
<1>2. QED BY <1>1, NothingMoves, NothingNew DEF AnalysisInv

(* The worker goes for another job, with nothing in its hands                     *)
LEMMA WorkerRests ==
    ASSUME AnalysisInv, Evolve, worker' \in WorkerRows, worker'.at \in {"idle", "dispatch", "poll"}, worker'.made = {},
           \A j \in worker'.list : jobs[j].status # "none"
    PROVE  WorkerGoes
<1>1. worker'.list \subseteq Jobs
  BY DEF WorkerRows
<1>2. \A j \in worker'.list : jobs'[j].status # "none"
  BY <1>1, RowsStay
<1>3. WorkerInv'
  BY <1>2 DEF WorkerInv, Integrating
<1>4. IntegrationInv'
  BY DEF IntegrationInv
<1>5. QED BY <1>3, <1>4 DEF WorkerGoes

LEMMA RestingFacts == Resting \in WorkerRows /\ Resting.at = "idle" /\ Resting.made = {} /\ Resting.list = {}
BY DEF Resting, WorkerRows

LEMMA NextJobGoes == ASSUME AnalysisInv, Evolve, NextJob PROVE WorkerGoes /\ worker'.at = "poll"
<1>1. worker \in WorkerRows
  BY DEF AnalysisInv, AnalysisTables
<1>2. worker' \in WorkerRows /\ worker'.at = "poll" /\ worker'.made = {} /\ worker'.list = worker.list
  BY <1>1 DEF NextJob, Resting, WorkerRows
<1>3. QED BY <1>2, WorkerRests DEF AnalysisInv, WorkerInv

LEMMA WorkerJob ==
    ASSUME AnalysisInv, worker.at \in {"post", "asked"} \cup Integrating
    PROVE  worker.job \in Jobs /\ jobs[worker.job].status # "none" /\ jobs[worker.job] \in AnalysisRows
BY DEF AnalysisInv, WorkerInv, AnalysisTables

LEMMA GiveUpGoes ==
    ASSUME AnalysisInv, UpsetsGrow, worker.at \in {"asked"} \cup Integrating, GiveUp
    PROVE  Evolve /\ NewAreAdmitted /\ WorkerGoes
<1>1. PICK j \in Jobs : j = worker.job /\ jobs[j].status # "none"
  BY WorkerJob
<1>2. Evolve /\ \A k \in Jobs : jobs[k].status = "none" => jobs'[k].status = "none"
  BY <1>1, FailedEvolves DEF GiveUp, AnalysisInv
<1>3. NewAreAdmitted
  BY <1>2 DEF NewAreAdmitted
<1>4. WorkerGoes
  BY <1>2, NextJobGoes DEF GiveUp
<1>5. QED BY <1>2, <1>3, <1>4

LEMMA StepsOfWorker ==
    ASSUME AnalysisInv, Evolve, UpsetsGrow, NewAreAdmitted, UNCHANGED desk, UNCHANGED <<note, claims, proposal>>
    PROVE  Steps
BY DeskRests, ClaimsRest DEF Steps, AnalysisInv, AnalysisTables

-----------------------------------------------------------------------------
(* dispatch_once and poll_once                                                    *)
LEMMA StartDispatchGoes == ASSUME AnalysisInv, StartDispatch PROVE Steps /\ WorkerGoes
<1>1. Evolve /\ UpsetsGrow /\ NewAreAdmitted
  BY Waits DEF StartDispatch
<1>2. worker \in WorkerRows /\ worker.made = {}
  BY DEF AnalysisInv, AnalysisTables, WorkerInv, StartDispatch
<1>3. worker' \in WorkerRows /\ worker'.at = "dispatch" /\ worker'.made = {}
      /\ worker'.list = {j \in Jobs : jobs[j].status = "READY"}
  BY <1>2 DEF StartDispatch, WorkerRows
<1>4. QED BY <1>1, <1>3, WorkerRests, StepsOfWorker DEF StartDispatch

LEMMA StartPollGoes == ASSUME AnalysisInv, StartPoll PROVE Steps /\ WorkerGoes
<1>1. Evolve /\ UpsetsGrow /\ NewAreAdmitted
  BY Waits DEF StartPoll
<1>2. worker \in WorkerRows /\ worker.made = {}
  BY DEF AnalysisInv, AnalysisTables, WorkerInv, StartPoll
<1>3. worker' \in WorkerRows /\ worker'.at = "poll" /\ worker'.made = {}
      /\ worker'.list = {j \in Jobs : jobs[j].status \in {"QUEUED", "PROCESSING"}}
  BY <1>2 DEF StartPoll, WorkerRows
<1>4. QED BY <1>1, <1>3, WorkerRests, StepsOfWorker DEF StartPoll

LEMMA EndCycleGoes == ASSUME AnalysisInv, EndCycle PROVE Steps /\ WorkerGoes
<1>1. Evolve /\ UpsetsGrow /\ NewAreAdmitted
  BY Waits DEF EndCycle
<1>2. QED BY <1>1, RestingFacts, WorkerRests, StepsOfWorker DEF EndCycle

(* The worker takes a job, which waits for the answer of the Broker                *)
LEMMA WorkerTakes ==
    ASSUME AnalysisInv, Evolve, NEW at \in {"post", "asked"}, NEW j \in Jobs, j \in worker.list,
           worker.at \in {"dispatch", "poll"}, worker' = [worker EXCEPT !.at = at, !.job = j, !.list = @ \ {j}]
    PROVE  WorkerGoes
<1>1. worker \in WorkerRows /\ worker.made = {} /\ \A k \in worker.list : jobs[k].status # "none"
  BY DEF AnalysisInv, AnalysisTables, WorkerInv
<1>2. worker' \in WorkerRows /\ worker'.at = at /\ worker'.made = {} /\ worker'.job = j /\ worker'.list \subseteq worker.list
  BY <1>1 DEF WorkerRows
<1>3. \A k \in worker'.list : jobs'[k].status # "none"
  BY <1>1, <1>2, RowsStay DEF WorkerRows
<1>4. jobs'[j].status # "none"
  BY <1>1, RowsStay
<1>5. WorkerInv'
  BY <1>2, <1>3, <1>4 DEF WorkerInv, Integrating
<1>6. IntegrationInv'
  BY <1>2 DEF IntegrationInv
<1>7. QED BY <1>2, <1>5, <1>6 DEF WorkerGoes

LEMMA AskStatusGoes == ASSUME AnalysisInv, NEW j \in Jobs, AskStatus(j) PROVE Steps /\ WorkerGoes
<1>1. Evolve /\ UpsetsGrow /\ NewAreAdmitted
  BY Waits DEF AskStatus
<1>2. QED BY <1>1, WorkerTakes, StepsOfWorker DEF AskStatus

LEMMA ClaimJobGoes == ASSUME AnalysisInv, NEW j \in Jobs, ClaimJob(j) PROVE Steps /\ WorkerGoes
<1>1. UpsetsGrow /\ UNCHANGED <<note, claims, proposal>> /\ UNCHANGED desk /\ upsets' = upsets
      /\ worker.at = "dispatch" /\ j \in worker.list
  BY UpsetsMove DEF ClaimJob, AnalysisInv, AnalysisTables
<1>2. CASE jobs[j].status = "READY"
  <2>1. jobs' = [jobs EXCEPT ![j].status = "SUBMITTING", ![j].sends = @ + 1]
        /\ worker' = [worker EXCEPT !.at = "post", !.job = j, !.list = @ \ {j}]
    BY <1>2 DEF ClaimJob
  <2>2. jobs[j] \in AnalysisRows /\ jobs[j].sends \in Nat /\ jobs[j].sends <= MaxSends + upsets
    BY <1>2 DEF AnalysisInv, AnalysisTables, AnalysisRows, SendsInv
  <2>3. MaxSends \in Nat /\ MaxUpsets \in Nat /\ upsets \in Nat /\ upsets <= MaxUpsets
    BY Bounds DEF AnalysisInv, AnalysisTables, ClaimTables
  <2>4. jobs[j].sends + 1 \in 0..MaxSends + MaxUpsets + 1 /\ jobs[j].sends + 1 <= MaxSends + upsets' + 1
    BY <1>1, <2>2, <2>3
  <2>5. PICK r \in AnalysisRows : r = [jobs[j] EXCEPT !.status = "SUBMITTING", !.sends = jobs[j].sends + 1]
    BY <2>2, <2>4 DEF AnalysisRows, Live
  <2>6. r.status = "SUBMITTING" /\ r.text = jobs[j].text /\ r.found = jobs[j].found /\ r.sends = jobs[j].sends + 1
    BY <2>2, <2>5 DEF AnalysisRows
  <2>7. jobs' = [jobs EXCEPT ![j] = r]
    BY <2>1, <2>5 DEF AnalysisInv, AnalysisTables
  <2>8. Evolve /\ \A k \in Jobs \ {j} : jobs'[k] = jobs[k]
    BY <1>1, <1>2, <2>4, <2>6, <2>7, EvolveAt DEF AnalysisInv, Ended
  <2>9. NewAreAdmitted
    BY <1>2, <2>8 DEF NewAreAdmitted
  <2>10. QED BY <1>1, <2>1, <2>8, <2>9, WorkerTakes, StepsOfWorker
<1>3. CASE jobs[j].status # "READY"
  <2>1. worker' = [worker EXCEPT !.list = @ \ {j}] /\ UNCHANGED jobs
    BY <1>3 DEF ClaimJob
  <2>2. Evolve /\ NewAreAdmitted
    BY <1>1, <2>1, Waits
  <2>3. worker \in WorkerRows /\ worker.made = {} /\ \A k \in worker.list : jobs[k].status # "none"
    BY <1>1 DEF AnalysisInv, AnalysisTables, WorkerInv
  <2>4. worker' \in WorkerRows /\ worker'.at = "dispatch" /\ worker'.made = {} /\ worker'.list \subseteq worker.list
    BY <1>1, <2>1, <2>3 DEF WorkerRows
  <2>5. WorkerGoes
    BY <2>2, <2>3, <2>4, WorkerRests
  <2>6. QED BY <1>1, <2>2, <2>5, StepsOfWorker
<1>4. QED BY <1>2, <1>3

LEMMA SendGoes == ASSUME AnalysisInv, Send PROVE Steps /\ WorkerGoes
<1>1. PICK j \in Jobs : j = worker.job /\ jobs[j].status # "none" /\ jobs[j] \in AnalysisRows
  BY WorkerJob DEF Send
<1>2. PICK status \in {"QUEUED", "ERROR", "READY"} :
        AfterSend(j, status) /\ (Upset \/ UNCHANGED upsets) /\ (status = "READY" => jobs[j].sends <= MaxSends)
  BY <1>1 DEF Send
<1>3. UpsetsGrow /\ UNCHANGED <<note, claims, proposal>> /\ UNCHANGED desk
  BY <1>2, UpsetsMove DEF AfterSend, AnalysisInv, AnalysisTables
<1>4. Evolve /\ NewAreAdmitted
  <2>1. CASE jobs[j].status = "SUBMITTING"
    <3>1. jobs' = Moved(j, status) /\ status \in Live \cup Ended /\ jobs[j].status \notin Ended \cup {"none"} /\ status # "SUCCESS"
      BY <1>2, <2>1 DEF AfterSend, Live, Ended
    <3>2. upsets' \in Nat /\ MaxSends \in Nat /\ jobs[j].sends \in Nat
      BY <1>1, <1>3, Bounds DEF UpsetsGrow, AnalysisRows
    <3>3. status = "READY" => jobs[j].sends <= MaxSends + upsets'
      BY <1>2, <3>2
    <3>4. Evolve /\ \A k \in Jobs \ {j} : jobs'[k] = jobs[k]
      BY <1>3, <3>1, <3>3, MovedEvolves DEF AnalysisInv
    <3>5. QED BY <1>1, <3>4 DEF NewAreAdmitted
  <2>2. CASE jobs[j].status # "SUBMITTING"
    BY <1>2, <2>2, Waits DEF AfterSend
  <2>3. QED BY <2>1, <2>2
<1>5. worker \in WorkerRows /\ worker.made = {} /\ \A k \in worker.list : jobs[k].status # "none"
  BY DEF AnalysisInv, AnalysisTables, WorkerInv, Send
<1>6. worker' \in WorkerRows /\ worker'.at = "dispatch" /\ worker'.made = {} /\ worker'.list = worker.list
  BY <1>2, <1>5 DEF AfterSend, WorkerRows
<1>7. WorkerGoes
  BY <1>4, <1>5, <1>6, WorkerRests
<1>8. QED BY <1>3, <1>4, <1>7, StepsOfWorker

-----------------------------------------------------------------------------
(* update_job_status                                                              *)
LEMMA UnansweredGoes == ASSUME AnalysisInv, Unanswered \/ DatabaseBusy PROVE Steps /\ WorkerGoes
<1>1. Evolve /\ UpsetsGrow /\ NewAreAdmitted
  BY Waits DEF Unanswered, DatabaseBusy
<1>2. QED BY <1>1, NextJobGoes, StepsOfWorker DEF Unanswered, DatabaseBusy

LEMMA RefusedGoes == ASSUME AnalysisInv, Refused PROVE Steps /\ WorkerGoes
<1>1. UpsetsGrow
  BY UpsetsMove DEF Refused, AnalysisInv, AnalysisTables
<1>2. Evolve /\ NewAreAdmitted /\ WorkerGoes
  BY <1>1, GiveUpGoes DEF Refused
<1>3. QED BY <1>1, <1>2, StepsOfWorker DEF Refused

LEMMA UpdateGoes == ASSUME AnalysisInv, NEW found \in SUBSET Sentences, UpdateJobStatus(found) PROVE Steps /\ WorkerGoes
<1>1. PICK j \in Jobs : j = worker.job /\ jobs[j].status # "none" /\ jobs[j] \in AnalysisRows
  BY WorkerJob DEF UpdateJobStatus
<1>2. UpsetsGrow /\ UNCHANGED <<note, claims, proposal>> /\ UNCHANGED desk /\ upsets' = upsets
  BY UpsetsMove DEF UpdateJobStatus, AnalysisInv, AnalysisTables
<1>3. CASE jobs[j].status \in Ended
  <2>1. NextJob /\ UNCHANGED jobs
    BY <1>1, <1>3 DEF UpdateJobStatus
  <2>2. Evolve /\ NewAreAdmitted
    BY <1>2, <2>1, Waits
  <2>3. QED BY <1>2, <2>1, <2>2, NextJobGoes, StepsOfWorker
<1>4. CASE jobs[j].status \notin Ended
  <2>1. jobs' = [jobs EXCEPT ![j].status = "PROCESSING", ![j].found = found] /\ worker' = [worker EXCEPT !.at = "check"]
        /\ worker.at = "asked"
    BY <1>1, <1>4 DEF UpdateJobStatus
  <2>2. PICK r \in AnalysisRows : r = [jobs[j] EXCEPT !.status = "PROCESSING", !.found = found]
    BY <1>1 DEF AnalysisRows, Live
  <2>3. r.status = "PROCESSING" /\ r.text = jobs[j].text /\ r.found = found /\ r.sends = jobs[j].sends
    BY <1>1, <2>2 DEF AnalysisRows
  <2>4. jobs' = [jobs EXCEPT ![j] = r]
    BY <2>1, <2>2 DEF AnalysisInv, AnalysisTables
  <2>5. worker \in WorkerRows /\ worker.made = {} /\ \A k \in worker.list : jobs[k].status # "none"
    BY <2>1 DEF AnalysisInv, AnalysisTables, WorkerInv
  <2>6. worker' \in WorkerRows /\ worker'.at = "check" /\ worker'.made = {} /\ worker'.job = j /\ worker'.list = worker.list
    BY <1>1, <2>1, <2>5 DEF WorkerRows
  <2>7. r.sends <= MaxSends + upsets' + 1
    BY <1>2, <2>3 DEF AnalysisInv, SendsInv
  <2>8. Evolve /\ jobs'[j] = r /\ \A k \in Jobs \ {j} : jobs'[k] = jobs[k]
    BY <1>1, <1>2, <1>4, <2>3, <2>4, <2>6, <2>7, EvolveAt DEF AnalysisInv
  <2>9. NewAreAdmitted
    BY <1>1, <2>8 DEF NewAreAdmitted
  <2>10. \A k \in worker'.list : jobs'[k].status # "none"
    BY <2>5, <2>6, <2>8, RowsStay DEF WorkerRows
  <2>11. jobs'[j].status # "none"
    BY <2>3, <2>8
  <2>12. WorkerInv'
    BY <2>6, <2>10, <2>11 DEF WorkerInv, Integrating
  <2>13. IntegrationInv'
    BY <2>6 DEF IntegrationInv
  <2>14. QED BY <1>2, <2>6, <2>8, <2>9, <2>12, <2>13, StepsOfWorker DEF WorkerGoes
<1>5. QED BY <1>3, <1>4

-----------------------------------------------------------------------------
(* ingest_extraction                                                              *)
(* What the worker moves on to keeps its list, its job and what is made of it     *)
LEMMA WorkerAdvances ==
    ASSUME AnalysisInv, Evolve, worker' \in WorkerRows, worker.at \in Integrating,
           worker'.at \in Integrating \ {"check"}, worker'.list = worker.list, worker'.job = worker.job,
           worker'.at \in {"claims", "match", "schedule"} => worker.job[1] = "EXTRACT",
           worker'.at = "record" => worker.job[1] = "COMPARE",
           worker'.at \notin {"claims", "match", "schedule"} => worker'.made = {},
           worker'.made \subseteq Compared,
           worker'.at \in {"claims", "match"} => worker'.todo \subseteq jobs[worker.job].found,
           worker'.at = "match" => worker'.todo # {} /\ claims'[Claimed'] # "none"
    PROVE  WorkerInv'
<1>1. PICK j \in Jobs : j = worker.job /\ jobs[j].status # "none"
  BY WorkerJob
<1>2. jobs'[j].status # "none" /\ jobs'[j].found = jobs[j].found
  BY <1>1, RowsStay DEF Integrating
<1>3. \A k \in worker'.list : jobs'[k].status # "none"
  <2>1. worker.list \subseteq Jobs /\ \A k \in worker.list : jobs[k].status # "none"
    BY DEF AnalysisInv, AnalysisTables, WorkerRows, WorkerInv
  <2>2. QED BY <2>1, RowsStay
<1>4. QED BY <1>1, <1>2, <1>3 DEF WorkerInv, Integrating

LEMMA CheckExtractionGoes == ASSUME AnalysisInv, CheckExtraction PROVE Steps /\ WorkerGoes
<1>1. UpsetsGrow /\ UNCHANGED <<note, claims, proposal>> /\ UNCHANGED desk /\ upsets' = upsets /\ worker.at = "check"
      /\ worker.at \in Integrating /\ worker.job[1] = "EXTRACT"
  BY UpsetsMove DEF CheckExtraction, AnalysisInv, AnalysisTables, Integrating
<1>2. CASE NoteAsInForce /\ jobs[worker.job].text = note.text
  <2>1. worker' = [worker EXCEPT !.at = "claims", !.todo = jobs[worker.job].found] /\ UNCHANGED jobs
    BY <1>2 DEF CheckExtraction
  <2>2. Evolve /\ NewAreAdmitted
    BY <1>1, <2>1, Waits
  <2>3. worker \in WorkerRows /\ worker.made = {}
    BY <1>1 DEF AnalysisInv, AnalysisTables, WorkerInv
  <2>4. jobs[worker.job].found \subseteq Sentences
    BY <1>1, WorkerJob DEF AnalysisRows
  <2>5. worker' \in WorkerRows /\ worker'.at = "claims" /\ worker'.made = {} /\ worker'.job = worker.job
        /\ worker'.list = worker.list /\ worker'.todo = jobs[worker.job].found
    BY <2>1, <2>3, <2>4 DEF WorkerRows
  <2>6. WorkerInv'
    BY <1>1, <2>2, <2>5, WorkerAdvances DEF Integrating
  <2>7. IntegrationInv'
    BY <2>1, <2>5 DEF IntegrationInv
  <2>8. QED BY <1>1, <2>2, <2>5, <2>6, <2>7, StepsOfWorker DEF WorkerGoes
<1>3. CASE ~(NoteAsInForce /\ jobs[worker.job].text = note.text)
  <2>1. GiveUp
    BY <1>3 DEF CheckExtraction
  <2>2. QED BY <1>1, <2>1, GiveUpGoes, StepsOfWorker
<1>4. QED BY <1>2, <1>3

LEMMA AllClaimedGoes == ASSUME AnalysisInv, AllClaimed PROVE Steps /\ WorkerGoes
<1>1. Evolve /\ UpsetsGrow /\ NewAreAdmitted /\ UNCHANGED <<note, claims, proposal>> /\ UNCHANGED desk /\ UNCHANGED jobs
      /\ worker.at = "claims" /\ worker.todo = {}
  BY Waits DEF AllClaimed
<1>2. worker \in WorkerRows /\ worker.made \subseteq Compared /\ worker.job[1] = "EXTRACT"
  BY <1>1 DEF AnalysisInv, AnalysisTables, WorkerInv
<1>3. worker' \in WorkerRows /\ worker'.at = "schedule" /\ worker'.made = worker.made /\ worker'.job = worker.job
      /\ worker'.list = worker.list /\ worker'.todo = {}
  BY <1>1, <1>2 DEF AllClaimed, WorkerRows
<1>4. worker.at \in Integrating /\ worker'.at \in Integrating \ {"check"}
  BY <1>1, <1>3 DEF Integrating
<1>5. WorkerInv'
  BY <1>1, <1>2, <1>3, <1>4, WorkerAdvances
<1>6. PICK j \in Jobs : j = worker.job /\ jobs[j].status # "none" /\ jobs[j] \in AnalysisRows
  BY <1>4, WorkerJob
<1>7. ASSUME NEW i \in jobs[j].found PROVE Integrated(j, i)'
  <2>1. Integrated(j, i)
    BY <1>1, <1>6 DEF AnalysisInv, IntegrationInv
  <2>2. i \in Sentences /\ Grow
    BY <1>1, <1>6, ClaimsRest DEF AnalysisRows, AnalysisInv, AnalysisTables
  <2>3. QED BY <1>1, <1>3, <1>6, <2>1, <2>2, IntegratedStays
<1>8. IntegrationInv'
  BY <1>1, <1>3, <1>6, <1>7 DEF IntegrationInv
<1>9. QED BY <1>1, <1>3, <1>5, <1>8, StepsOfWorker DEF WorkerGoes

LEMMA AddClaimGoes == ASSUME AnalysisInv, AddClaim PROVE Steps /\ WorkerGoes
<1>1. worker.at = "claims" /\ worker.todo # {} /\ UNCHANGED <<note, proposal>> /\ UNCHANGED desk /\ worker.at \in Integrating
  BY DEF AddClaim, Integrating
<1>2. CASE Upset /\ GiveUp /\ UNCHANGED claims
  <2>1. UpsetsGrow
    BY <1>2, UpsetsMove DEF AnalysisInv, AnalysisTables
  <2>2. QED BY <1>1, <1>2, <2>1, GiveUpGoes, StepsOfWorker
<1>3. ASSUME claims' = [claims EXCEPT ![Claimed] = IF @ = "none" THEN "ACTIVE" ELSE @],
             worker' = [worker EXCEPT !.at = "match"], UNCHANGED jobs, UNCHANGED upsets
      PROVE  Steps /\ WorkerGoes
  <2>1. Evolve /\ UpsetsGrow /\ NewAreAdmitted
    BY <1>3, Waits
  <2>2. Claimed \in Claims /\ claims \in [Claims -> {"none", "ACTIVE", "RETRACTED"}]
    BY <1>1, ClaimedIs DEF AnalysisInv, AnalysisTables, ClaimTables
  <2>3. /\ claims' \in [Claims -> {"none", "ACTIVE", "RETRACTED"}] /\ claims'[Claimed] # "none"
        /\ \A c \in Claims : claims[c] # "none" => claims'[c] # "none"
    BY <1>3, <2>2
  <2>4. Grow /\ ClaimTables'
    BY <1>1, <2>1, <2>3 DEF Grow, ClaimTables, AnalysisInv, AnalysisTables, UpsetsGrow
  <2>5. Steps
    BY <1>1, <2>1, <2>4, DeskRests DEF Steps, AnalysisInv
  <2>6. worker \in WorkerRows /\ worker.made \subseteq Compared /\ worker.job[1] = "EXTRACT"
        /\ worker.todo \subseteq jobs[worker.job].found
    BY <1>1 DEF AnalysisInv, AnalysisTables, WorkerInv
  <2>7. worker' \in WorkerRows /\ worker'.at = "match" /\ worker'.made = worker.made /\ worker'.job = worker.job
        /\ worker'.list = worker.list /\ worker'.todo = worker.todo
    BY <1>3, <2>6 DEF WorkerRows
  <2>8. Claimed' = Claimed
    BY <1>3, <2>7 DEF Claimed, First
  <2>9. WorkerInv'
    BY <1>1, <2>1, <2>3, <2>6, <2>7, <2>8, WorkerAdvances DEF Integrating
  <2>10. PICK j \in Jobs : j = worker.job /\ jobs[j].status # "none" /\ jobs[j] \in AnalysisRows
    BY <1>1, WorkerJob
  <2>11. ASSUME NEW i \in jobs[j].found \ worker.todo PROVE Integrated(j, i)'
    <3>1. Integrated(j, i)
      BY <1>1, <2>10 DEF AnalysisInv, IntegrationInv
    <3>2. i \in Sentences
      BY <2>10 DEF AnalysisRows
    <3>3. QED BY <2>1, <2>4, <2>7, <2>10, <3>1, <3>2, IntegratedStays
  <2>12. IntegrationInv'
    BY <1>3, <2>7, <2>10, <2>11 DEF IntegrationInv
  <2>13. QED BY <2>5, <2>7, <2>9, <2>12 DEF WorkerGoes
<1>4. QED BY <1>2, <1>3 DEF AddClaim

LEMMA GenerateCandidatesGoes == ASSUME AnalysisInv, GenerateCandidates PROVE Steps /\ WorkerGoes
<1>1. worker.at = "match" /\ UNCHANGED <<note, claims>> /\ UNCHANGED desk /\ upsets' = upsets /\ worker.at \in Integrating
  BY DEF GenerateCandidates, Integrating
<1>2. UpsetsGrow
  BY <1>1, UpsetsMove DEF AnalysisInv, AnalysisTables
<1>3. CASE note.status # "PUBLISHED"
  <2>1. GiveUp /\ UNCHANGED proposal
    BY <1>3 DEF GenerateCandidates
  <2>2. QED BY <1>1, <1>2, <2>1, GiveUpGoes, StepsOfWorker
<1>4. CASE note.status = "PUBLISHED"
  <2>1. /\ proposal' = [proposal EXCEPT ![Claimed] = IF Resembles(Claimed) /\ @ = "none" THEN "PENDING_COMPARISON" ELSE @]
        /\ worker' = [worker EXCEPT !.at = "claims", !.todo = @ \ {First(@)},
                                    !.made = @ \cup {c \in {Claimed} : Resembles(c)}]
        /\ UNCHANGED jobs
    BY <1>4 DEF GenerateCandidates
  <2>2. Evolve /\ UpsetsGrow /\ NewAreAdmitted
    BY <1>1, <2>1, Waits
  <2>3. worker.todo # {} /\ claims[Claimed] # "none" /\ worker.made \subseteq Compared /\ worker.job[1] = "EXTRACT"
        /\ worker.todo \subseteq jobs[worker.job].found /\ worker \in WorkerRows
    BY <1>1 DEF AnalysisInv, AnalysisTables, WorkerInv
  <2>4. /\ First(worker.todo) \in worker.todo /\ First(worker.todo) \in Sentences
        /\ Claimed \in Claims /\ Claimed[1] = First(worker.todo)
        /\ Claimed = <<First(worker.todo), jobs[worker.job].text[First(worker.todo)]>>
    BY <1>1, <2>3, ClaimedIs
  <2>5. proposal \in [Claims -> {"none", "PENDING_COMPARISON", "PENDING_REVIEW", "REJECTED", "CONFLICT"}]
    BY DEF AnalysisInv, AnalysisTables, ClaimTables
  <2>6. /\ proposal' \in [Claims -> {"none", "PENDING_COMPARISON", "PENDING_REVIEW", "REJECTED", "CONFLICT"}]
        /\ \A c \in Claims : proposal[c] # "none" => proposal'[c] # "none"
        /\ Claimed[1] \in Related => proposal'[Claimed] # "none"
    BY <2>1, <2>4, <2>5 DEF Resembles
  <2>7. Grow /\ ClaimTables'
    BY <1>1, <2>2, <2>6 DEF Grow, ClaimTables, AnalysisInv, AnalysisTables, UpsetsGrow
  <2>8. Steps
    BY <1>1, <2>2, <2>7, DeskRests DEF Steps, AnalysisInv
  <2>9. PICK k, f : k = Claimed /\ f = First(worker.todo)
    OBVIOUS
  <2>10. {c \in {k} : Resembles(c)} \subseteq Compared
    BY <2>4, <2>9 DEF Compared, Resembles
  <2>11. /\ worker' \in WorkerRows /\ worker'.at = "claims" /\ worker'.job = worker.job /\ worker'.list = worker.list
         /\ worker'.todo = worker.todo \ {f} /\ worker'.made = worker.made \cup {c \in {k} : Resembles(c)}
    <3>1. {c \in {k} : Resembles(c)} \subseteq Claims
      BY <2>4, <2>9
    <3>2. PICK added : added = {c \in {k} : Resembles(c)}
      OBVIOUS
    <3>3. worker' = [worker EXCEPT !.at = "claims", !.todo = worker.todo \ {f}, !.made = worker.made \cup added]
      BY <2>1, <2>9, <3>2
    <3>4. QED BY <2>3, <3>1, <3>2, <3>3 DEF WorkerRows
  <2>12. worker'.made \subseteq Compared /\ worker'.todo \subseteq jobs[worker.job].found
    BY <2>3, <2>10, <2>11
  <2>13. WorkerInv'
    BY <1>1, <2>2, <2>3, <2>11, <2>12, WorkerAdvances DEF Integrating
  <2>14. PICK j \in Jobs : j = worker.job /\ jobs[j].status # "none" /\ jobs[j] \in AnalysisRows
    BY <1>1, WorkerJob
  <2>15. ASSUME NEW i \in jobs[j].found \ worker.todo PROVE Integrated(j, i)'
    <3>1. Integrated(j, i)
      BY <1>1, <2>14, <2>15 DEF AnalysisInv, IntegrationInv
    <3>2. i \in Sentences /\ worker.made \subseteq worker'.made
      BY <2>11, <2>14, <2>15 DEF AnalysisRows
    <3>3. QED BY <2>2, <2>7, <2>14, <3>1, <3>2, IntegratedStays
  <2>16. Integrated(j, f)'
    <3>1. k = <<f, jobs'[j].text[f]>> /\ claims'[k] # "none" /\ k[1] = f
      BY <1>1, <2>1, <2>3, <2>4, <2>9, <2>14
    <3>2. f \in Related => proposal'[k] # "none" /\ k \in worker'.made
      BY <2>4, <2>6, <2>9, <2>11 DEF Resembles
    <3>3. QED BY <3>1, <3>2 DEF Integrated
  <2>17. IntegrationInv'
    BY <2>1, <2>11, <2>14, <2>15, <2>16 DEF IntegrationInv
  <2>18. QED BY <2>8, <2>11, <2>13, <2>17 DEF WorkerGoes
<1>5. QED BY <1>3, <1>4

LEMMA ScheduleComparisonGoes == ASSUME AnalysisInv, ScheduleComparison PROVE Steps /\ WorkerGoes
<1>1. worker.at = "schedule" /\ worker.at \in Integrating /\ UNCHANGED <<note, claims, proposal>> /\ UNCHANGED desk
      /\ upsets' = upsets
  BY DEF ScheduleComparison, Integrating
<1>2. UpsetsGrow /\ Grow
  BY <1>1, UpsetsMove, ClaimsRest DEF AnalysisInv, AnalysisTables
<1>3. worker.made \subseteq Compared /\ worker.job[1] = "EXTRACT" /\ worker \in WorkerRows
  BY <1>1 DEF AnalysisInv, AnalysisTables, WorkerInv
<1>4. PICK j \in Jobs : j = worker.job /\ jobs[j].status # "none" /\ jobs[j] \in AnalysisRows
  BY <1>1, WorkerJob
<1>5. \A i \in jobs[j].found : Integrated(j, i) /\ i \in Sentences
  BY <1>1, <1>4 DEF AnalysisInv, IntegrationInv, AnalysisRows
<1>6. ASSUME NEW c \in worker.made, jobs' = Created(Comparison(c, 1), Unasked.text), worker' = [worker EXCEPT !.made = @ \ {c}]
      PROVE  Steps /\ WorkerGoes
  <2>1. c \in Compared /\ 1 \in Attempts
    <3>1. \E a \in Attempts : j = Extraction(a) \/ \E d \in Compared : j = Comparison(d, a)
      BY <1>4, JobShapes
    <3>2. QED BY <1>3, <1>6, <3>1, Bounds DEF Attempts
  <2>2. PICK k \in Jobs : k = Comparison(c, 1)
    BY <2>1, JobShapes
  <2>3. Evolve /\ jobs'[k].status # "none" /\ \A m \in Jobs \ {k} : jobs'[m] = jobs[m]
    BY <1>2, <1>6, <2>2, Bounds, CreatedEvolves DEF AnalysisInv
  <2>4. NewAreAdmitted
    BY <2>1, <2>2, <2>3 DEF NewAreAdmitted, Admitted
  <2>5. worker' \in WorkerRows /\ worker'.at = "schedule" /\ worker'.job = worker.job /\ worker'.list = worker.list
        /\ worker'.made = worker.made \ {c}
    BY <1>1, <1>3, <1>6 DEF WorkerRows
  <2>6. WorkerInv'
    BY <1>1, <1>3, <2>3, <2>5, WorkerAdvances DEF Integrating
  <2>7. ComparisonAttempts(c)' # {}
    BY <2>1, <2>2, <2>3 DEF ComparisonAttempts
  <2>8. \A d \in worker.made \ worker'.made : ComparisonAttempts(d)' # {}
    BY <2>5, <2>7
  <2>9. ASSUME NEW i \in jobs[j].found PROVE Integrated(j, i)'
    BY <1>2, <1>4, <1>5, <2>3, <2>8, IntegratedStays
  <2>10. jobs'[j].found = jobs[j].found
    BY <1>4, <2>3, <2>5, RowsStay
  <2>11. IntegrationInv'
    BY <1>4, <2>5, <2>9, <2>10 DEF IntegrationInv
  <2>12. QED BY <1>1, <1>2, <2>3, <2>4, <2>5, <2>6, <2>11, StepsOfWorker DEF WorkerGoes
<1>7. ASSUME worker.made = {}, worker' = [worker EXCEPT !.at = "close"], UNCHANGED jobs
      PROVE  Steps /\ WorkerGoes
  <2>1. Evolve /\ NewAreAdmitted
    BY <1>1, <1>7, Waits
  <2>2. worker' \in WorkerRows /\ worker'.at = "close" /\ worker'.job = worker.job /\ worker'.list = worker.list
        /\ worker'.made = {}
    BY <1>3, <1>7 DEF WorkerRows
  <2>3. WorkerInv'
    BY <1>1, <2>1, <2>2, WorkerAdvances DEF Integrating
  <2>4. ASSUME NEW i \in jobs[j].found PROVE Integrated(j, i)'
    BY <1>2, <1>4, <1>5, <1>7, <2>1, <2>2, IntegratedStays
  <2>5. IntegrationInv'
    BY <1>4, <1>7, <2>2, <2>4 DEF IntegrationInv
  <2>6. QED BY <1>1, <1>2, <2>1, <2>2, <2>3, <2>5, StepsOfWorker DEF WorkerGoes
<1>8. QED BY <1>6, <1>7 DEF ScheduleComparison

-----------------------------------------------------------------------------
(* process_job_result of a comparison, and the end of a job                       *)
LEMMA WorkerCloses ==
    ASSUME AnalysisInv, Evolve, NEW at \in {"record", "close"}, worker.at \in {"check", "record"}, worker.job[1] = "COMPARE",
           worker' = [worker EXCEPT !.at = at]
    PROVE  WorkerGoes
<1>1. worker \in WorkerRows /\ worker.made = {}
  BY DEF AnalysisInv, AnalysisTables, WorkerInv
<1>2. worker' \in WorkerRows /\ worker'.at = at /\ worker'.job = worker.job /\ worker'.list = worker.list /\ worker'.made = {}
  BY <1>1 DEF WorkerRows
<1>3. WorkerInv'
  BY <1>2, WorkerAdvances DEF Integrating
<1>4. IntegrationInv'
  BY <1>2 DEF IntegrationInv
<1>5. QED BY <1>2, <1>3, <1>4 DEF WorkerGoes

LEMMA CheckComparisonGoes == ASSUME AnalysisInv, CheckComparison PROVE Steps /\ WorkerGoes
<1>1. worker.at = "check" /\ worker.at \in Integrating /\ UNCHANGED <<note, claims, proposal>> /\ UNCHANGED desk
      /\ upsets' = upsets /\ worker.job[1] = "COMPARE"
  BY DEF CheckComparison, Integrating
<1>2. UpsetsGrow
  BY <1>1, UpsetsMove DEF AnalysisInv, AnalysisTables
<1>3. (\E at \in {"record", "close"} : worker' = [worker EXCEPT !.at = at] /\ UNCHANGED jobs) \/ GiveUp
  BY DEF CheckComparison
<1>4. CASE GiveUp
  BY <1>1, <1>2, <1>4, GiveUpGoes, StepsOfWorker
<1>5. ASSUME NEW at \in {"record", "close"}, worker' = [worker EXCEPT !.at = at], UNCHANGED jobs
      PROVE  Steps /\ WorkerGoes
  <2>1. Evolve /\ NewAreAdmitted
    BY <1>1, <1>5, Waits
  <2>2. WorkerGoes
    BY <1>1, <1>5, <2>1, WorkerCloses
  <2>3. QED BY <1>1, <1>2, <2>1, <2>2, StepsOfWorker
<1>6. QED BY <1>3, <1>4, <1>5

LEMMA RecordComparisonGoes == ASSUME AnalysisInv, RecordComparison PROVE Steps /\ WorkerGoes
<1>1. worker.at = "record" /\ worker.at \in Integrating /\ UNCHANGED <<note, claims>> /\ UNCHANGED desk
      /\ upsets' = upsets /\ worker.job[1] = "COMPARE"
  BY DEF RecordComparison, Integrating, AnalysisInv, WorkerInv
<1>2. UpsetsGrow
  BY <1>1, UpsetsMove DEF AnalysisInv, AnalysisTables
<1>3. PICK c \in Compared : c = Of(worker.job)
  BY <1>1, WorkerJob, JobShapes
<1>4. CASE GiveUp /\ UNCHANGED proposal
  BY <1>1, <1>2, <1>4, GiveUpGoes, StepsOfWorker
<1>5. ASSUME NEW verdict \in {"PENDING_REVIEW", "REJECTED"}, proposal' = [proposal EXCEPT ![c] = verdict],
             worker' = [worker EXCEPT !.at = "close"], UNCHANGED jobs
      PROVE  Steps /\ WorkerGoes
  <2>1. Evolve /\ NewAreAdmitted
    BY <1>1, <1>5, Waits
  <2>2. WorkerGoes
    BY <1>1, <1>5, <2>1, WorkerCloses
  <2>3. c \in Claims /\ proposal \in [Claims -> {"none", "PENDING_COMPARISON", "PENDING_REVIEW", "REJECTED", "CONFLICT"}]
    BY DEF Compared, AnalysisInv, AnalysisTables, ClaimTables
  <2>4. /\ proposal' \in [Claims -> {"none", "PENDING_COMPARISON", "PENDING_REVIEW", "REJECTED", "CONFLICT"}]
        /\ \A k \in Claims : proposal[k] # "none" => proposal'[k] # "none"
    BY <1>5, <2>3
  <2>5. Grow /\ ClaimTables'
    BY <1>1, <1>2, <2>4 DEF Grow, ClaimTables, AnalysisInv, AnalysisTables, UpsetsGrow
  <2>6. Steps
    BY <1>1, <1>2, <2>1, <2>5, DeskRests DEF Steps, AnalysisInv
  <2>7. QED BY <2>2, <2>6
<1>6. QED BY <1>3, <1>4, <1>5 DEF RecordComparison

LEMMA CompleteJobGoes == ASSUME AnalysisInv, CompleteJob PROVE Steps /\ WorkerGoes
<1>1. worker.at = "close" /\ worker.at \in Integrating /\ NextJob /\ UNCHANGED <<note, claims, proposal>> /\ UNCHANGED desk
      /\ upsets' = upsets
  BY DEF CompleteJob, Integrating
<1>2. UpsetsGrow
  BY <1>1, UpsetsMove DEF AnalysisInv, AnalysisTables
<1>3. PICK j \in Jobs : j = worker.job /\ jobs[j].status # "none" /\ jobs[j] \in AnalysisRows
  BY <1>1, WorkerJob
<1>4. Evolve /\ NewAreAdmitted
  <2>1. CASE jobs[j].status = "PROCESSING"
    <3>1. jobs' = Moved(j, "SUCCESS") /\ "SUCCESS" \in Live \cup Ended /\ jobs[j].status \notin Ended \cup {"none"}
      BY <1>3, <2>1 DEF CompleteJob, Ended
    <3>2. Evolve /\ \A k \in Jobs \ {j} : jobs'[k] = jobs[k]
      BY <1>1, <1>2, <1>3, <3>1, MovedEvolves DEF AnalysisInv
    <3>3. QED BY <1>3, <3>2 DEF NewAreAdmitted
  <2>2. CASE jobs[j].status # "PROCESSING"
    BY <1>1, <1>3, <2>2, Waits DEF CompleteJob
  <2>3. QED BY <2>1, <2>2
<1>5. QED BY <1>1, <1>2, <1>4, NextJobGoes, StepsOfWorker

-----------------------------------------------------------------------------
(* The desktop                                                                    *)
LEMMA StepsOfDesk ==
    ASSUME AnalysisInv, Evolve, UpsetsGrow, Grow, NewAreAdmitted, DeskMoves, ClaimTables', UNCHANGED worker
    PROVE  Steps /\ WorkerGoes
BY WorkerWaits DEF Steps

LEMMA NoPressIs == NoPress \in DeskRows /\ NoPress.at = "idle"
BY Bounds DEF NoPress, DeskRows, Unasked

(* The proposals and claims a person or an edition moves on are still there       *)
LEMMA TablesMove ==
    ASSUME ClaimTables, UpsetsGrow, note' \in NoteRows,
           (UNCHANGED <<claims, proposal>>) \/ RetireClaims
    PROVE  ClaimTables' /\ Grow
<1>1. CASE UNCHANGED <<claims, proposal>>
  BY <1>1 DEF ClaimTables, UpsetsGrow, Grow
<1>2. CASE RetireClaims
  <2>1. claims' \in [Claims -> {"none", "ACTIVE", "RETRACTED"}] /\ \A c \in Claims : claims[c] # "none" => claims'[c] # "none"
    BY <1>2 DEF RetireClaims, ClaimTables
  <2>2. /\ proposal' \in [Claims -> {"none", "PENDING_COMPARISON", "PENDING_REVIEW", "REJECTED", "CONFLICT"}]
        /\ \A c \in Claims : proposal[c] # "none" => proposal'[c] # "none"
    BY <1>2 DEF RetireClaims, ClaimTables
  <2>3. QED BY <2>1, <2>2 DEF ClaimTables, UpsetsGrow, Grow
<1>3. QED BY <1>1, <1>2

LEMMA EditOutsideGoes == ASSUME AnalysisInv, NEW i \in Sentences, EditOutside(i) PROVE Steps /\ WorkerGoes
<1>1. Evolve /\ UpsetsGrow /\ NewAreAdmitted
  BY Waits DEF EditOutside
<1>2. note \in NoteRows /\ \A k \in Sentences : note.disk[k] \in 0..MaxEdits /\ note.disk[k] < MaxEdits
  BY DEF EditOutside, AnalysisInv, AnalysisTables, ClaimTables, NoteRows, Texts
<1>3. PICK disk : disk = [k \in Sentences |-> IF k >= i THEN note.disk[k] + 1 ELSE note.disk[k]]
  OBVIOUS
<1>4. disk \in Texts
  BY <1>2, <1>3, Bounds DEF Texts
<1>5. note' = [note EXCEPT !.disk = disk]
  BY <1>3 DEF EditOutside
<1>6. note' \in NoteRows
  BY <1>2, <1>4, <1>5 DEF NoteRows
<1>7. ClaimTables' /\ Grow
  BY <1>1, <1>6, TablesMove DEF EditOutside, AnalysisInv, AnalysisTables
<1>8. QED BY <1>1, <1>7, StepsOfDesk, DeskRests DEF EditOutside, AnalysisInv

(* The attempt a thread is about to create                                        *)
LEMMA DeskWants ==
    ASSUME AnalysisInv, NEW t \in {"window", "all"}, NEW j \in Jobs, NEW text \in Texts, EarlierEnded(j), Wanted(t, j, text)
    PROVE  DeskMoves
<1>1. PICK row \in DeskRows : row = [at |-> "create", job |-> j, text |-> text]
  BY DEF DeskRows
<1>2. desk' = [desk EXCEPT ![t] = row] /\ row.job = j
  BY <1>1 DEF Wanted
<1>3. QED BY <1>1, <1>2 DEF DeskMoves, AnalysisInv, DeskInv

(* The attempts of a comparison are numbered from 1, and only the last may live    *)
LEMMA AttemptsAreNumbered ==
    ASSUME AnalysisInv, NEW c \in Compared, Fresh(Cardinality(ComparisonAttempts(c)) + 1),
           ComparisonAttempts(c) # {} => jobs[Comparison(c, Latest(ComparisonAttempts(c)))].status \in Ended
    PROVE  Comparison(c, Cardinality(ComparisonAttempts(c)) + 1) \in Jobs
           /\ EarlierEnded(Comparison(c, Cardinality(ComparisonAttempts(c)) + 1))
<1>1. PICK S : S = ComparisonAttempts(c)
  OBVIOUS
<1>2. S \subseteq Attempts /\ Attempts \subseteq Nat /\ IsFiniteSet(S) /\ \A a \in Attempts : 1 <= a
  <2>1. IsFiniteSet(Attempts)
    BY Bounds, FS_Interval DEF Attempts
  <2>2. S \subseteq Attempts
    BY <1>1 DEF ComparisonAttempts
  <2>3. IsFiniteSet(S)
    BY <2>1, <2>2, FS_Subset
  <2>4. Attempts \subseteq Nat /\ \A a \in Attempts : 1 <= a
    BY Bounds DEF Attempts
  <2>5. QED BY <2>2, <2>3, <2>4
<1>3. ASSUME NEW b \in Attempts, b < Cardinality(S) + 1
      PROVE  jobs[Comparison(c, b)].status \in Ended
  <2>1. CASE S = {}
    <3>1. Cardinality(S) = 0
      BY <2>1, FS_EmptySet
    <3>2. QED BY <1>2, <1>3, <3>1
  <2>2. CASE S # {}
    <3>1. \E m \in S : \A a \in S : a <= m
      BY <1>2, <2>2, GreatestIsIn
    <3>2. PICK m : m = Latest(S)
      OBVIOUS
    <3>3. m \in S /\ \A a \in S : a <= m
      BY <3>1, <3>2 DEF Latest
    <3>4. \A a \in Attempts : a < m => jobs[Comparison(c, a)].status \in Ended
      BY <1>1, <1>2, <3>3 DEF AnalysisInv, AttemptsInv, ComparisonAttempts
    <3>5. \A a \in Attempts : a < m => a \in S
      BY <1>1, <3>4 DEF ComparisonAttempts, Ended
    <3>6. m \in Nat /\ m \in Attempts /\ m <= MaxAttempts
      BY <1>2, <3>3, Bounds DEF Attempts
    <3>7. S = 1..m
      <4>1. S \subseteq 1..m
        BY <1>2, <3>3, <3>6
      <4>2. \A a \in 1..m : a \in Attempts /\ (a < m \/ a = m)
        BY <3>6, Bounds DEF Attempts
      <4>3. QED BY <3>3, <3>5, <4>1, <4>2
    <3>8. Cardinality(S) = m
      BY <3>6, <3>7, FS_Interval
    <3>9. b < m \/ b = m
      BY <1>2, <1>3, <3>6, <3>8
    <3>10. QED BY <1>1, <2>2, <3>2, <3>4, <3>9
  <2>3. QED BY <2>1, <2>2
<1>4. PICK n \in Attempts : n = Cardinality(S) + 1
  BY <1>1 DEF Fresh
<1>5. ASSUME NEW d \in Compared, NEW a \in Attempts, NEW b \in Attempts, Comparison(c, n) = Comparison(d, a), b < a
      PROVE  jobs[Comparison(d, b)].status \in Ended
  <2>1. d = c
    BY <1>5, JobShapes
  <2>2. a = n
    BY <1>5 DEF Comparison
  <2>3. QED BY <1>3, <1>4, <1>5, <2>1, <2>2
<1>6. EarlierEnded(Comparison(c, n))
  BY <1>5 DEF EarlierEnded
<1>7. QED BY <1>1, <1>4, <1>6, JobShapes

LEMMA ReanalyzeNoteGoes == ASSUME AnalysisInv, NEW t \in {"window", "all"}, ReanalyzeNote(t) PROVE Steps /\ WorkerGoes
<1>1. Evolve /\ UpsetsGrow /\ NewAreAdmitted
  BY Waits DEF ReanalyzeNote
<1>2. PICK n \in Attempts : n = Cardinality(ExtractionAttempts) + 1
  BY DEF ReanalyzeNote, Fresh
<1>3. Extraction(n) \in Jobs /\ EarlierEnded(Extraction(n)) /\ note.text \in Texts
  BY JobShapes DEF Extraction, Comparison, EarlierEnded, AnalysisInv, AnalysisTables, ClaimTables, NoteRows
<1>4. DeskMoves
  BY <1>2, <1>3, DeskWants DEF ReanalyzeNote
<1>5. ClaimTables' /\ Grow
  BY <1>1, ClaimsRest DEF ReanalyzeNote, AnalysisInv, AnalysisTables
<1>6. QED BY <1>1, <1>4, <1>5, StepsOfDesk DEF ReanalyzeNote

LEMMA RetryComparisonGoes ==
    ASSUME AnalysisInv, NEW t \in {"window", "all"}, NEW c \in Compared, RetryComparison(t, c)
    PROVE  Steps /\ WorkerGoes
<1>1. Evolve /\ UpsetsGrow /\ NewAreAdmitted
  BY Waits DEF RetryComparison
<1>2. DeskMoves
  BY AttemptsAreNumbered, DeskWants, Bounds DEF RetryComparison
<1>3. ClaimTables' /\ Grow
  BY <1>1, ClaimsRest DEF RetryComparison, AnalysisInv, AnalysisTables
<1>4. QED BY <1>1, <1>2, <1>3, StepsOfDesk DEF RetryComparison

LEMMA CreateJobGoes == ASSUME AnalysisInv, NEW t \in {"window", "all"}, CreateJob(t) PROVE Steps /\ WorkerGoes
<1>1. UpsetsGrow
  BY UpsetsMove DEF CreateJob, AnalysisInv, AnalysisTables
<1>2. PICK j \in Jobs, text \in Texts : j = desk[t].job /\ text = desk[t].text /\ desk[t].at = "create"
  BY DEF CreateJob, AnalysisInv, DeskInv, DeskRows
<1>3. Evolve /\ jobs'[j].status # "none" /\ \A k \in Jobs \ {j} : jobs'[k] = jobs[k]
  BY <1>1, <1>2, CreatedEvolves DEF CreateJob, AnalysisInv
<1>4. NewAreAdmitted
  BY <1>2, <1>3 DEF NewAreAdmitted, Admitted
<1>5. DeskMoves
  BY NoPressIs DEF CreateJob, DeskMoves, AnalysisInv, DeskInv
<1>6. ClaimTables' /\ Grow
  BY <1>1, ClaimsRest DEF CreateJob, AnalysisInv, AnalysisTables
<1>7. QED BY <1>1, <1>3, <1>4, <1>5, <1>6, StepsOfDesk DEF CreateJob

LEMMA DecideGoes == ASSUME AnalysisInv, NEW c \in Claims, Decide(c) PROVE Steps /\ WorkerGoes
<1>1. Evolve /\ UpsetsGrow /\ NewAreAdmitted
  BY Waits DEF Decide
<1>2. PICK status \in {"REJECTED", "PENDING_REVIEW"} : proposal' = [proposal EXCEPT ![c] = status]
  BY DEF Decide
<1>3. /\ proposal' \in [Claims -> {"none", "PENDING_COMPARISON", "PENDING_REVIEW", "REJECTED", "CONFLICT"}]
      /\ \A k \in Claims : proposal[k] # "none" => proposal'[k] # "none"
  BY <1>2 DEF AnalysisInv, AnalysisTables, ClaimTables
<1>4. Grow /\ ClaimTables'
  BY <1>1, <1>3 DEF Decide, Grow, ClaimTables, AnalysisInv, AnalysisTables, UpsetsGrow
<1>5. QED BY <1>1, <1>4, StepsOfDesk, DeskRests DEF Decide, AnalysisInv

-----------------------------------------------------------------------------
(* An adoption, a retirement and a new start                                      *)
LEMMA AdoptGoes == ASSUME AnalysisInv, Adopt PROVE Steps /\ WorkerGoes
<1>1. Evolve /\ UpsetsGrow /\ NewAreAdmitted
  BY Waits DEF Adopt
<1>2. note' \in NoteRows
  BY DEF Adopt, AnalysisInv, AnalysisTables, ClaimTables, NoteRows
<1>3. ClaimTables' /\ Grow
  BY <1>1, <1>2, TablesMove DEF Adopt, AnalysisInv, AnalysisTables
<1>4. DeskMoves
  <2>1. desk' = [desk EXCEPT !["window"] = [desk["window"] EXCEPT !.at = "supersede"]]
    BY DEF Adopt
  <2>2. desk["window"] \in DeskRows /\ desk \in [{"window", "all"} -> DeskRows]
    BY DEF AnalysisInv, DeskInv
  <2>3. PICK row \in DeskRows : row = [desk["window"] EXCEPT !.at = "supersede"]
    BY <2>2 DEF DeskRows
  <2>4. row.at = "supersede"
    BY <2>2, <2>3 DEF DeskRows
  <2>5. QED BY <2>1, <2>2, <2>3, <2>4 DEF DeskMoves
<1>5. QED BY <1>1, <1>3, <1>4, StepsOfDesk DEF Adopt

LEMMA SupersedeGoes == ASSUME AnalysisInv, SupersedeJobs PROVE Steps /\ WorkerGoes
<1>1. UpsetsGrow
  BY UpsetsMove DEF SupersedeJobs, AnalysisInv, AnalysisTables
<1>2. ASSUME NEW k \in Jobs
      PROVE  jobs'[k] = jobs[k] \/ (jobs[k].status \in Live /\ jobs'[k] = [jobs[k] EXCEPT !.status = "ERROR"])
  <2>1. jobs'[k] = IF k[1] = "EXTRACT" /\ jobs[k].status \in Live THEN Failed(k)[k] ELSE jobs[k]
    BY DEF SupersedeJobs
  <2>2. jobs[k].status \in Live => Failed(k)[k] = [jobs[k] EXCEPT !.status = "ERROR"]
    BY DEF Failed, AnalysisInv, AnalysisTables, Live, Ended
  <2>3. QED BY <2>1, <2>2
<1>3. DOMAIN jobs' = Jobs /\ jobs' = [k \in Jobs |-> jobs'[k]]
  BY DEF SupersedeJobs
<1>4. Evolve /\ \A k \in Jobs : jobs[k].status = "none" => jobs'[k].status = "none"
  BY <1>1, <1>2, <1>3, StatusesEvolve DEF AnalysisInv
<1>5. NewAreAdmitted
  BY <1>4 DEF NewAreAdmitted
<1>6. ClaimTables' /\ Grow
  BY <1>1, ClaimsRest DEF SupersedeJobs, AnalysisInv, AnalysisTables
<1>7. DeskMoves
  <2>1. desk' = [desk EXCEPT !["window"] = [desk["window"] EXCEPT !.at = "again"]]
    BY DEF SupersedeJobs
  <2>2. desk["window"] \in DeskRows /\ desk \in [{"window", "all"} -> DeskRows]
    BY DEF AnalysisInv, DeskInv
  <2>3. PICK row \in DeskRows : row = [desk["window"] EXCEPT !.at = "again"]
    BY <2>2 DEF DeskRows
  <2>4. row.at = "again"
    BY <2>2, <2>3 DEF DeskRows
  <2>5. QED BY <2>1, <2>2, <2>3, <2>4 DEF DeskMoves
<1>8. QED BY <1>1, <1>4, <1>5, <1>6, <1>7, StepsOfDesk DEF SupersedeJobs

LEMMA ReanalyzeGoes == ASSUME AnalysisInv, Reanalyze PROVE Steps /\ WorkerGoes
<1>1. UpsetsGrow
  BY UpsetsMove DEF Reanalyze, AnalysisInv, AnalysisTables
<1>2. UNCHANGED jobs \/ \E a \in Attempts : jobs' = Created(Extraction(a), note.text)
  BY DEF Reanalyze, Fresh
<1>3. Evolve /\ NewAreAdmitted
  <2>1. CASE UNCHANGED jobs
    BY <2>1, Waits DEF Reanalyze
  <2>2. ASSUME NEW a \in Attempts, jobs' = Created(Extraction(a), note.text) PROVE Evolve /\ NewAreAdmitted
    <3>1. PICK j \in Jobs : j = Extraction(a) /\ j[1] = "EXTRACT"
      BY JobShapes
    <3>2. note.text \in Texts
      BY DEF AnalysisInv, AnalysisTables, ClaimTables, NoteRows
    <3>3. Evolve /\ \A k \in Jobs \ {j} : jobs'[k] = jobs[k]
      BY <1>1, <2>2, <3>1, <3>2, CreatedEvolves DEF AnalysisInv
    <3>4. QED BY <3>1, <3>3 DEF NewAreAdmitted, Admitted
  <2>3. QED BY <1>2, <2>1, <2>2
<1>4. DeskMoves
  BY NoPressIs DEF Reanalyze, DeskMoves, AnalysisInv, DeskInv
<1>5. ClaimTables' /\ Grow
  BY <1>1, ClaimsRest DEF Reanalyze, AnalysisInv, AnalysisTables
<1>6. QED BY <1>1, <1>3, <1>4, <1>5, StepsOfDesk DEF Reanalyze

LEMMA RetireGoes == ASSUME AnalysisInv, Retire PROVE Steps /\ WorkerGoes
<1>1. Evolve /\ UpsetsGrow /\ NewAreAdmitted
  BY Waits DEF Retire
<1>2. note' \in NoteRows
  BY DEF Retire, AnalysisInv, AnalysisTables, ClaimTables, NoteRows
<1>3. ClaimTables' /\ Grow
  BY <1>1, <1>2, TablesMove DEF Retire, AnalysisInv, AnalysisTables
<1>4. QED BY <1>1, <1>3, StepsOfDesk, DeskRests DEF Retire, AnalysisInv

LEMMA RestartGoes == ASSUME AnalysisInv, RestartJobs PROVE Steps /\ WorkerGoes
<1>1. UpsetsGrow /\ upsets' = upsets + 1
  BY UpsetsMove DEF RestartJobs, Upset, AnalysisInv, AnalysisTables
<1>2. Evolve /\ NewAreAdmitted
  <2>1. ASSUME jobs' = Created(Extraction(1), note.text), 1 \in Attempts PROVE Evolve /\ NewAreAdmitted
    <3>1. PICK j \in Jobs : j = Extraction(1) /\ j[1] = "EXTRACT"
      BY <2>1, JobShapes
    <3>2. note.text \in Texts
      BY DEF AnalysisInv, AnalysisTables, ClaimTables, NoteRows
    <3>3. Evolve /\ \A k \in Jobs \ {j} : jobs'[k] = jobs[k]
      BY <1>1, <2>1, <3>1, <3>2, CreatedEvolves DEF AnalysisInv
    <3>4. QED BY <3>1, <3>3 DEF NewAreAdmitted, Admitted
  <2>2. ASSUME jobs' = Created(Extraction(1), note.text), 1 \notin Attempts PROVE Evolve /\ NewAreAdmitted
    <3>1. Attempts = {}
      BY <2>2, Bounds DEF Attempts
    <3>2. Jobs = {}
      BY <3>1 DEF Jobs
    <3>3. DOMAIN jobs = {} /\ DOMAIN jobs' = {} /\ jobs' = [j \in Jobs |-> jobs'[j]]
      BY <2>2, <3>2 DEF Created, AnalysisInv, AnalysisTables
    <3>4. jobs' \in [Jobs -> AnalysisRows]
      BY <3>2, <3>3
    <3>5. QED BY <3>2, <3>4 DEF Evolve, NewAreAdmitted
  <2>3. ASSUME jobs' = [j \in Jobs |-> Recovered(j)] PROVE Evolve /\ NewAreAdmitted
    <3>1. ASSUME NEW k \in Jobs
          PROVE  jobs'[k] = jobs[k] \/ (jobs[k].status \in Live /\ jobs'[k] = [jobs[k] EXCEPT !.status = "READY"])
      BY <2>3 DEF Recovered, Moved, AnalysisInv, AnalysisTables, Live
    <3>2. DOMAIN jobs' = Jobs /\ jobs' = [k \in Jobs |-> jobs'[k]]
      BY <2>3
    <3>3. Evolve /\ \A k \in Jobs : jobs[k].status = "none" => jobs'[k].status = "none"
      BY <1>1, <3>1, <3>2, StatusesEvolve DEF AnalysisInv
    <3>4. QED BY <3>3 DEF NewAreAdmitted
  <2>4. QED BY <2>1, <2>2, <2>3 DEF RestartJobs
<1>3. WorkerGoes
  BY <1>2, RestingFacts, WorkerRests DEF RestartJobs
<1>4. DeskMoves
  BY NoPressIs DEF RestartJobs, DeskMoves, AnalysisInv, DeskInv
<1>5. ClaimTables' /\ Grow
  BY <1>1, ClaimsRest DEF RestartJobs, AnalysisInv, AnalysisTables
<1>6. QED BY <1>1, <1>2, <1>3, <1>4, <1>5 DEF Steps

-----------------------------------------------------------------------------
(* Every step of the analyses                                                     *)
LEMMA AnalysingGoes == ASSUME AnalysisInv, Analysing PROVE Steps /\ WorkerGoes
BY StartDispatchGoes, SendGoes, StartPollGoes, EndCycleGoes, UnansweredGoes, RefusedGoes, ClaimJobGoes, AskStatusGoes,
   UpdateGoes, CheckExtractionGoes, AddClaimGoes, GenerateCandidatesGoes, AllClaimedGoes, ScheduleComparisonGoes,
   CheckComparisonGoes, RecordComparisonGoes, CompleteJobGoes DEF Analysing

LEMMA ManagingGoes == ASSUME AnalysisInv, Managing PROVE Steps /\ WorkerGoes
<1>1. DOMAIN desk = {"window", "all"}
  BY DEF AnalysisInv, DeskInv
<1>2. {k \in Claims : k[1] \in Related} = Compared
  BY DEF Compared
<1>3. QED BY <1>1, <1>2, EditOutsideGoes, ReanalyzeNoteGoes, CreateJobGoes, RetryComparisonGoes, DecideGoes, AdoptGoes,
             SupersedeGoes, ReanalyzeGoes, RetireGoes DEF Managing

LEMMA AnalysisStep == ASSUME AnalysisInv, [Next]_vars PROVE AnalysisInv'
<1>1. JobsNext \/ UNCHANGED jobVars
  BY DEF Next, Scene, BatchScene, PolicyScene, JobScene, PanelScene, ReversionScene, ReviewScene, vars
<1>2. CASE JobsNext
  <2>1. Steps /\ WorkerGoes
    BY <1>2, AnalysingGoes, ManagingGoes, RestartGoes DEF JobsNext
  <2>2. QED BY <2>1, AnalysisKept
<1>3. CASE UNCHANGED jobVars
  <2>1. UNCHANGED <<note, claims, proposal, jobs, worker, desk, upsets>>
    BY <1>3 DEF jobVars
  <2>2. Evolve /\ UpsetsGrow /\ NewAreAdmitted
    BY <2>1, Waits
  <2>3. ClaimTables' /\ Grow
    BY <2>1, <2>2, ClaimsRest DEF AnalysisInv, AnalysisTables
  <2>4. DeskMoves
    BY <2>1, DeskRests DEF AnalysisInv
  <2>5. QED BY <2>1, <2>2, <2>3, <2>4, StepsOfDesk, AnalysisKept
<1>4. QED BY <1>1, <1>2, <1>3

LEMMA AnalysisAtStart == Init => AnalysisInv
<1> SUFFICES ASSUME Init PROVE AnalysisInv
  OBVIOUS
<1>1. PICK first \in AnalysisRows : first = [Unasked EXCEPT !.status = "READY"]
  BY Bounds DEF AnalysisRows, Live
<1>2. first.sends = 0 /\ first.status = "READY"
  BY <1>1, Bounds DEF Unasked
<1>3. jobs \in [Jobs -> {Unasked, first}] /\ \A j \in Jobs : jobs[j] = Unasked \/ j = Extraction(1)
  BY <1>1 DEF Init, JobsInit
<1>4. jobs \in [Jobs -> AnalysisRows]
  BY <1>1, <1>3, Bounds
<1>5. note \in NoteRows
  BY Bounds DEF Init, JobsInit, NoteRows
<1>6. AnalysisTables
  <2>1. claims = [c \in Claims |-> "none"] /\ proposal = [c \in Claims |-> "none"] /\ worker = Resting /\ upsets = 0
    BY DEF Init, JobsInit
  <2>2. PICK m \in Nat : m = MaxUpsets
    BY Bounds
  <2>3. 0 \in 0..m
    OBVIOUS
  <2>4. upsets \in 0..MaxUpsets
    BY <2>1, <2>2, <2>3
  <2>5. claims \in [Claims -> {"none", "ACTIVE", "RETRACTED"}]
    BY <2>1
  <2>6. proposal \in [Claims -> {"none", "PENDING_COMPARISON", "PENDING_REVIEW", "REJECTED", "CONFLICT"}]
    BY <2>1
  <2>7. worker \in WorkerRows
    BY <2>1, RestingFacts
  <2>8. QED BY <1>4, <1>5, <2>4, <2>5, <2>6, <2>7 DEF AnalysisTables, ClaimTables
<1>7. DeskInv
  BY NoPressIs DEF Init, JobsInit, DeskInv
<1>8. SendsInv
  <2>1. 0 <= MaxSends + 0 /\ 0 <= MaxSends + 0 + 1
    BY Bounds
  <2>2. \A j \in Jobs : jobs[j].sends = 0
    BY <1>2, <1>3, Bounds
  <2>3. QED BY <2>1, <2>2 DEF SendsInv, Init, JobsInit
<1>9. WorkerInv /\ IntegrationInv
  BY RestingFacts DEF Init, JobsInit, WorkerInv, IntegrationInv, Integrating
<1>10. EndedInv
  <2>1. \A j \in Jobs : jobs[j].status # "SUCCESS"
    BY <1>2, <1>3, Bounds
  <2>2. QED BY <2>1, JobShapes DEF EndedInv
<1>11. AttemptsInv
  <2>1. \A t \in {"window", "all"} : desk[t].at = "idle"
    BY NoPressIs DEF Init, JobsInit
  <2>2. ASSUME NEW c \in Compared, NEW a \in Attempts PROVE jobs[Comparison(c, a)].status = "none"
    <3>1. PICK j \in Jobs : j = Comparison(c, a) /\ j[1] = "COMPARE"
      BY JobShapes
    <3>2. j # Extraction(1)
      BY <3>1 DEF Extraction
    <3>3. QED BY <1>3, <3>1, <3>2, Bounds
  <2>3. QED BY <2>1, <2>2 DEF AttemptsInv
<1>12. QED BY <1>6, <1>7, <1>8, <1>9, <1>10, <1>11 DEF AnalysisInv

-----------------------------------------------------------------------------
(* Every table of the other scenes keeps its type                                 *)
EveryTable == BP!ProposalTables /\ BP!PlanTables /\ AP!PlanTables /\ events \in 0..MaxEvents

LEMMA BudgetMoves == Batching \/ Automating \/ UNCHANGED proposalVars => events' = events \/ Event
<1>1. Review!Running => events' = events
  BY DEF Review!Running, Review!ClaimPlan, Review!StartItem, Review!LookAtItem, Review!ItemAnswered,
         Review!FinishItem, Review!FinishPlan, Review!proposalVars
<1>2. PolicyRuns!Running => events' = events
  BY DEF PolicyRuns!Running, PolicyRuns!ClaimPlan, PolicyRuns!StartItem, PolicyRuns!LookAtItem, PolicyRuns!ItemAnswered,
         PolicyRuns!FinishItem, PolicyRuns!FinishPlan, PolicyRuns!proposalVars
<1>3. Review!PlanBreaks \/ PolicyRuns!PlanBreaks => Event
  BY DEF Review!PlanBreaks, PolicyRuns!PlanBreaks, Review!Event, PolicyRuns!Event, Event
<1>4. \A t \in Callers : Applying(t) => events' = events
  BY DEF Applying, ApproveRead, Materialize
<1>5. BatchIntends \/ PolicyIntends => events' = events
  BY DEF BatchIntends, PolicyIntends, Intend
<1>6. PersonReviews => Event
  BY DEF PersonReviews, Edit, Reject
<1>7. PersonNext => events' = events \/ Event
  BY <1>4, <1>6 DEF PersonNext, PersonEnds, Intend, PersonApproves, Callers
<1>8. RecoverProposals => Event
  BY DEF RecoverProposals
<1>9. Previewing \/ UNCHANGED proposalVars => events' = events
  BY DEF Previewing, PreviewRead, PreviewStore, Confirm, PreviewStart, proposalVars
<1>10. Governance => events' = events \/ Event
  BY DEF Governance, Simulate, NextDay, SetEnabled, SetPaused, Revise, SourceChanges
<1>11. Scheduling => events' = events \/ Event
  BY DEF Scheduling, SimulateItem, EvaluationFails
<1>12. ReviewWorker \/ PolicyRunner => events' = events
  BY <1>1, <1>2, <1>4, <1>5 DEF ReviewWorker, PolicyRunner, Callers
<1>13. QED BY <1>3, <1>6, <1>7, <1>8, <1>9, <1>10, <1>11, <1>12
           DEF Batching, BatchesNext, ReviewBreaks, Automating, PoliciesNext, RunBreaks

LEMMA TablesAtStart == Init => EveryTable
<1> SUFFICES ASSUME Init PROVE EveryTable
  OBVIOUS
<1>1. BP!PlansFit /\ AP!PlansFit
  BY BatchesAssumption, PoliciesAssumption DEF BP!PlansFit, AP!PlansFit
<1>2. BP!ProposalsInit /\ AP!ProposalsInit
  BY DEF Init, ProposalsInit, BP!ProposalsInit, AP!ProposalsInit, NoCall, BP!NoCall, AP!NoCall, Callers,
         BP!Callers, AP!Callers
<1>3. BP!PlansInit /\ AP!PlansInit
  BY DEF Init, BatchesInit, PoliciesInit, Review!PlansInit, PolicyRuns!PlansInit, BP!PlansInit, AP!PlansInit,
         Review!NoItem, PolicyRuns!NoItem, BP!NoItem, AP!NoItem, Review!Rest, PolicyRuns!Rest, BP!Rest, AP!Rest
<1>4. BP!PlanInv /\ AP!PlanInv
  BY <1>1, <1>2, <1>3, BP!PlanAtStart, AP!PlanAtStart, ProposalsAssumption
<1>5. events \in 0..MaxEvents
  <2>1. events = 0
    BY DEF Init, ProposalsInit
  <2>2. PICK m \in Nat : m = MaxEvents
    BY ProposalsAssumption
  <2>3. 0 \in 0..m
    OBVIOUS
  <2>4. QED BY <2>1, <2>2, <2>3
<1>6. QED BY <1>4, <1>5 DEF EveryTable, BP!PlanInv, AP!PlanInv

LEMMA TablesKept == AgentsInv /\ AgentsInv' /\ EveryTable /\ [Next]_vars => EveryTable'
<1> SUFFICES ASSUME AgentsInv, AgentsInv', EveryTable, [Next]_vars PROVE EveryTable'
  OBVIOUS
<1>1. ASSUME events' = events \/ Event PROVE events' \in 0..MaxEvents
  BY <1>1, ProposalsAssumption DEF EveryTable, Event
<1>2. CASE scene = "batches" /\ Batching /\ UNCHANGED <<scene, policyVars>>
  <2>1. BP!ProposalTables' /\ BP!PlanTables'
    BY <1>2 DEF AgentsInv, BatchInv, BP!PlanInv
  <2>2. AP!PlanTables'
    BY <1>2 DEF EveryTable, AP!PlanTables, policyVars
  <2>3. events' \in 0..MaxEvents
    BY <1>1, <1>2, BudgetMoves
  <2>4. QED BY <2>1, <2>2, <2>3 DEF EveryTable
<1>3. CASE scene = "policies" /\ Automating /\ UNCHANGED <<scene, batchVars>>
  <2>1. AP!ProposalTables' /\ AP!PlanTables'
    BY <1>3 DEF AgentsInv, PolicyInv, AP!PlanInv
  <2>2. BP!ProposalTables'
    BY <2>1 DEF AP!ProposalTables, BP!ProposalTables, AP!CandRows, BP!CandRows, AP!CallRows, BP!CallRows, AP!CallSteps,
                BP!CallSteps, AP!Status, BP!Status, AP!Callers, BP!Callers
  <2>3. BP!PlanTables'
    BY <1>3 DEF EveryTable, BP!PlanTables, batchVars
  <2>4. events' \in 0..MaxEvents
    BY <1>1, <1>3, BudgetMoves
  <2>5. QED BY <2>1, <2>2, <2>3, <2>4 DEF EveryTable
<1>4. CASE UNCHANGED <<proposalVars, batchVars, policyVars, scene>>
  <2>1. UNCHANGED <<cand, call, events, batch, batchItem, reviewTurn, run, runItem, runTurn>>
    BY <1>4 DEF proposalVars, batchVars, policyVars
  <2>2. QED BY <2>1 DEF EveryTable, BP!ProposalTables, BP!PlanTables, AP!PlanTables
<1>5. QED BY <1>2, <1>3, <1>4, Moves

LEMMA TypesFollow == EveryTable /\ AnalysisInv => TypeOK
<1> SUFFICES ASSUME EveryTable, AnalysisInv PROVE TypeOK
  OBVIOUS
<1>1. ProposalsTypeOK
  BY DEF EveryTable, BP!ProposalTables, BP!CandRows, BP!CallRows, BP!CallSteps, BP!Status, BP!Callers, ProposalsTypeOK,
         Status, Callers
<1>2. Review!PlansTypeOK
  BY DEF EveryTable, BP!PlanTables, BP!PlanStates, BP!ItemRows, BP!ItemStates, BP!TurnRows, BP!Done, Review!PlansTypeOK,
         Review!Done
<1>3. PolicyRuns!PlansTypeOK
  BY DEF EveryTable, AP!PlanTables, AP!PlanStates, AP!ItemRows, AP!ItemStates, AP!TurnRows, AP!Done, PolicyRuns!PlansTypeOK,
         PolicyRuns!Done
<1>4. JobsTypeOK
  <2>1. \A t \in DOMAIN desk : desk[t].at \in {"idle", "create", "supersede", "again"}
    BY DEF AnalysisInv, DeskInv, DeskRows
  <2>2. QED BY <2>1 DEF JobsTypeOK, AnalysisInv, AnalysisTables, ClaimTables, NoteRows, AnalysisRows, WorkerRows
<1>5. QED BY <1>1, <1>2, <1>3, <1>4 DEF TypeOK

(* A proposal is compared once at a time                                          *)
LEMMA OneComparison ==
    ASSUME AnalysisInv, NEW c \in Claims
    PROVE  Cardinality({j \in Jobs : j[1] = "COMPARE" /\ Of(j) = c /\ jobs[j].status \in Live}) <= 1
<1>1. PICK S : S = {j \in Jobs : j[1] = "COMPARE" /\ Of(j) = c /\ jobs[j].status \in Live}
  OBVIOUS
<1>2. ASSUME NEW j \in S, NEW k \in S PROVE j = k
  <2>1. PICK d \in Compared, a \in Attempts : j = Comparison(d, a)
    BY <1>1, JobShapes
  <2>2. PICK e \in Compared, b \in Attempts : k = Comparison(e, b)
    BY <1>1, JobShapes
  <2>3. d = c /\ e = c
    BY <1>1, <2>1, <2>2, JobShapes
  <2>4. jobs[j].status \in Live /\ jobs[k].status \in Live
    BY <1>1
  <2>5. \A s \in Live : s # "none" /\ s \notin Ended
    BY DEF Live, Ended
  <2>6. ~(a < b) /\ ~(b < a)
    BY <2>1, <2>2, <2>3, <2>4, <2>5 DEF AnalysisInv, AttemptsInv
  <2>7. a \in Nat /\ b \in Nat
    BY Bounds DEF Attempts
  <2>8. a = b
    BY <2>6, <2>7
  <2>9. QED BY <2>1, <2>2, <2>3, <2>8
<1>3. CASE S = {}
  <2>1. Cardinality({}) = 0
    BY FS_EmptySet
  <2>2. Cardinality(S) <= 1
    BY <1>3, <2>1
  <2>3. QED BY <1>1, <2>2
<1>4. CASE S # {}
  <2>1. PICK j \in S : S = {j}
    BY <1>2, <1>4
  <2>2. Cardinality({j}) = 1
    BY FS_Singleton
  <2>3. Cardinality(S) = 1
    BY <2>1, <2>2
  <2>4. Cardinality(S) <= 1
    BY <2>3
  <2>5. QED BY <1>1, <2>4
<1>5. QED BY <1>3, <1>4

LEMMA AnalysisFollows == EveryTable /\ AnalysisInv => AnalysisIsWhole
<1> SUFFICES ASSUME EveryTable, AnalysisInv PROVE AnalysisIsWhole
  OBVIOUS
<1>1. TypeOK
  BY TypesFollow
<1>2. ASSUME NEW a \in Attempts, jobs[Extraction(a)].status = "SUCCESS", NEW i \in jobs[Extraction(a)].found
      PROVE  LET c == <<i, jobs[Extraction(a)].text[i]>>
             IN  claims[c] # "none" /\ (i \in Related => proposal[c] # "none" /\ ComparisonAttempts(c) # {})
  BY <1>2 DEF AnalysisInv, EndedInv, Whole
<1>3. QED BY <1>1, <1>2, OneComparison DEF AnalysisIsWhole

(* What was decided stays so when an answer is integrated                         *)
LEMMA AnswersDecideNothing ==
    ASSUME AnalysisInv, [Next]_vars, worker' # worker, upsets' = upsets, NEW c \in Claims,
           proposal[c] \in {"PENDING_REVIEW", "REJECTED", "CONFLICT"}
    PROVE  proposal'[c] = proposal[c]
<1>1. JobsNext
  BY DEF Next, Scene, BatchScene, PolicyScene, JobScene, PanelScene, ReversionScene, ReviewScene, vars, jobVars
<1>2. upsets \in Nat
  BY Bounds DEF AnalysisInv, AnalysisTables, ClaimTables
<1>3. ~RestartJobs
  BY <1>2 DEF RestartJobs, Upset
<1>4. ~Managing
  BY DEF Managing, EditOutside, ReanalyzeNote, CreateJob, RetryComparison, Decide, Adopt, SupersedeJobs, Reanalyze, Retire
<1>5. CASE UNCHANGED proposal
  BY <1>5
<1>6. CASE GenerateCandidates
  BY <1>6 DEF GenerateCandidates, AnalysisInv, AnalysisTables, ClaimTables
<1>7. CASE RecordComparison
  BY <1>7 DEF RecordComparison, Awaits, AnalysisInv, AnalysisTables, ClaimTables
<1>8. Analysing => UNCHANGED proposal \/ GenerateCandidates \/ RecordComparison
  BY DEF Analysing, StartDispatch, Send, AfterSend, StartPoll, EndCycle, Unanswered, Refused, ClaimJob, AskStatus,
         UpdateJobStatus, CheckExtraction, AddClaim, AllClaimed, ScheduleComparison, CheckComparison, CompleteJob, DatabaseBusy
<1>9. QED BY <1>1, <1>3, <1>4, <1>5, <1>6, <1>7, <1>8 DEF JobsNext

(* Whatever is edited, retried, lost or restarted meanwhile, an analysis that     *)
(* ended well was integrated whole, and a proposal is compared once at a time     *)
(* (process_job_result, complete_job, reanalyze_note, retry_comparison).          *)
THEOREM AnalysisStaysWhole == Spec => []AnalysisIsWhole
<1>1. Init => AgentsInv /\ AnalysisInv /\ EveryTable
  BY AgentsAtStart, AnalysisAtStart, TablesAtStart
<1>2. AgentsInv /\ AnalysisInv /\ EveryTable /\ [Next]_vars => (AgentsInv /\ AnalysisInv /\ EveryTable)'
  BY AgentsKept, AnalysisStep, TablesKept
<1>3. QED BY <1>1, <1>2, AnalysisFollows, PTL DEF Spec

(* The answer of a comparison never changes what was decided while it was waited  *)
(* for (process_job_result, record_comparison).                                   *)
THEOREM AnswersRespectDecisions == Spec => DecisionsStand
<1>1. AnalysisInv /\ [Next]_vars => [worker' # worker /\ upsets' = upsets =>
        \A c \in Claims : proposal[c] \in {"PENDING_REVIEW", "REJECTED", "CONFLICT"} => proposal'[c] = proposal[c]]_vars
  BY AnswersDecideNothing
<1>2. Init => AnalysisInv
  BY AnalysisAtStart
<1>3. AnalysisInv /\ [Next]_vars => AnalysisInv'
  BY AnalysisStep
<1>4. QED BY <1>1, <1>2, <1>3, PTL DEF Spec, DecisionsStand
=============================================================================
