---------------------------- MODULE PlanRunsProofs ----------------------------
(***************************************************************************)
(* What PlanRuns promises of its receipts, for any proposals, plans and    *)
(* kinships: the receipt of an item says APPLIED exactly when this plan    *)
(* applied it, at the revision that was shown.                             *)
(*                                                                         *)
(* It takes what the worker may rely on while it waits for approve(): a    *)
(* proposal it has not asked for yet is not its plan's, one it is applying *)
(* nobody else touches, and the revision of an item never changes after    *)
(* the plan is stored, so that after a crash the proposal itself says what *)
(* became of the item. The batches and the runs of a policy are the two    *)
(* instances of this module.                                               *)
(***************************************************************************)
EXTENDS PlanRuns, WellFoundedInduction, TLAPS

(* A plan is one of those who apply proposals, and the person is none of them     *)
PlansFit ==
    /\ Plans \subseteq Appliers \ {Nobody} /\ NoPlan \notin Plans
    /\ Worker \in {"review", "policies"} /\ DeniedIs \in {"CONFLICT", "SKIPPED"}

CandRows == [status : Status, rev : Nat, by : Appliers]
CallSteps == {"idle", "read", "prepare", "intent", "applied", "refused", "denied", "stopped"}
CallRows == [at : CallSteps, c : Candidates \cup {0}, rev : Nat, by : Appliers]
ItemStates == Done \cup {"none", "PENDING", "RUNNING"}
ItemRows == [rev : Nat, status : ItemStates]
PlanStates == {"none", "DRAFT", "READY", "RUNNING", "RECOVERY_REQUIRED", "COMPLETE"}
TurnRows == [of : Plans \cup {NoPlan}, c : Candidates \cup {0}, status : Done \cup {"none"},
             at : {"idle", "next", "look", "approve", "receipt"}]
ProposalTables == cand \in [Candidates -> CandRows] /\ call \in [Callers -> CallRows]
PlanTables == plan \in [Plans -> PlanStates] /\ item \in [Plans -> [Candidates -> ItemRows]] /\ turn \in TurnRows

Holding(p, c) == cand[c].by = p /\ cand[c].status \in {"APPLYING", "APPLIED"}
HasApplied(p, c) == cand[c].by = p /\ cand[c].status = "APPLIED"

(* What the worker remembers of its plan                                          *)
TurnInv ==
    /\ turn.of \in Plans <=> turn.at # "idle"
    /\ turn.at = "idle" => turn = Rest
    /\ turn.of \in Plans => plan[turn.of] # "none"
    /\ turn.at \in {"look", "approve", "receipt"} =>
        turn.c \in Candidates /\ item[turn.of][turn.c].status = "RUNNING"
(* Who is inside approve(), and for whom                                          *)
CallInv ==
    /\ call["person"].by = Nobody
    /\ \A t \in Callers \ {Worker, "person"} : call[t].at = "idle"
    /\ turn.at # "approve" => call[Worker].at = "idle"
    /\ turn.at = "approve" => call[Worker].at # "idle" /\ call[Worker].c = turn.c /\ call[Worker].by = turn.of
    /\ \A t \in Callers : call[t].at \in {"read", "prepare", "intent"} => call[t].c \in Candidates
    /\ \A t \in Callers : call[t].at = "intent" =>
        cand[call[t].c].status = "APPLYING" /\ cand[call[t].c].by = call[t].by
(* What the worker is about to write down is what became of the proposal          *)
AnswerInv ==
    /\ turn.at = "approve" =>
        /\ call[Worker].at \in {"read", "prepare", "refused", "denied"} => ~Holding(turn.of, turn.c)
        /\ call[Worker].at = "applied" => HasApplied(turn.of, turn.c)
        /\ call[Worker].at = "stopped" => Holding(turn.of, turn.c) /\ ~HasApplied(turn.of, turn.c)
    /\ turn.at = "receipt" =>
        /\ turn.status \in Done /\ (Holding(turn.of, turn.c) => HasApplied(turn.of, turn.c))
        /\ turn.status = "APPLIED" <=> Holding(turn.of, turn.c)
(* What the items say of the proposals                                            *)
ItemInv == \A p \in Plans, c \in Candidates :
    /\ Holding(p, c) => item[p][c].rev = cand[c].rev /\ item[p][c].status \in {"PENDING", "RUNNING", "APPLIED"}
    /\ item[p][c].status = "APPLIED" => HasApplied(p, c)
    /\ plan[p] = "none" => item[p][c] = NoItem

PlanInv == PlansFit /\ ProposalTables /\ PlanTables /\ TurnInv /\ CallInv /\ AnswerInv /\ ItemInv

(* The steps of the worker and of those around it. A new plan holds nothing yet    *)
WorkerIntends == \E allowed \in BOOLEAN, denied \in {"refused", "denied"} :
    /\ Intend(Worker, allowed, denied) /\ (allowed => ItemStands)
    /\ UNCHANGED planVars
NewPlan == \E p \in Plans, status \in PlanStates \ {"none"},
              items \in [Candidates -> [rev : Nat, status : {"none", "PENDING", "SKIPPED"}]] :
    /\ plan[p] = "none" /\ plan' = [plan EXCEPT ![p] = status] /\ item' = [item EXCEPT ![p] = items]
    /\ UNCHANGED <<cand, call, turn>>
PlanConfirmed == \E p \in Plans : plan[p] = "DRAFT" /\ plan' = [plan EXCEPT ![p] = "READY"]
                    /\ UNCHANGED <<cand, call, item, turn>>
OtherStep ==
    \/ Running \/ PlanBreaks \/ NewPlan \/ PlanConfirmed
    \/ (Applying(Worker) \/ PersonNext \/ PersonReviews) /\ UNCHANGED planVars
    \/ RecoverProposals /\ RecoverPlans
    \/ UNCHANGED <<cand, call, planVars>>
PlanStep == WorkerIntends \/ OtherStep

-----------------------------------------------------------------------------
LEMMA LeastNumber ==
    ASSUME NEW S \in SUBSET Nat, S # {}
    PROVE  Min(S) \in S /\ \A s \in S : Min(S) <= s
<1>1. \E m \in S : \A s \in S : <<s, m>> \notin OpToRel(<, Nat)
  BY NatLessThanWellFounded, WFMin, Zenon
<1>2. \A s, m \in S : ~(s < m) => m <= s
  OBVIOUS
<1>3. \E m \in S : \A s \in S : m <= s
  BY <1>1, <1>2 DEF OpToRel
<1>4. QED BY <1>3 DEF Min

LEMMA PlanAtStart == PlansFit /\ ProposalsInit /\ PlansInit => PlanInv
<1> SUFFICES ASSUME PlansFit, ProposalsInit, PlansInit PROVE PlanInv
  OBVIOUS
<1>1. ProposalTables
  BY ProposalsAssumption DEF ProposalsInit, ProposalTables, CandRows, CallRows, CallSteps, NoCall, Status, Callers
<1>2. PlanTables
  BY DEF PlansInit, PlanTables, PlanStates, ItemRows, ItemStates, NoItem, TurnRows, Rest
<1>3. TurnInv /\ CallInv /\ AnswerInv
  BY DEF PlansFit, ProposalsInit, PlansInit, TurnInv, CallInv, AnswerInv, Rest, NoCall, Callers
<1>4. ItemInv
  BY DEF PlansFit, ProposalsInit, PlansInit, ItemInv, Holding, HasApplied, NoItem
<1>5. QED BY <1>1, <1>2, <1>3, <1>4 DEF PlanInv

(* While the worker is where it is, what no plan holds may change                 *)
Steady == \A c \in Candidates :
    cand'[c] = cand[c] \/ \A p \in Plans : ~Holding(p, c) /\ ~Holding(p, c)'

LEMMA SteadyKeeps ==
    ASSUME PlanInv, ProposalTables', CallInv', Steady, call'[Worker] = call[Worker], UNCHANGED planVars
    PROVE  PlanInv'
<1>1. PlansFit /\ PlanTables' /\ TurnInv'
  BY DEF PlanInv, planVars, PlanTables, TurnInv
<1>2. ItemInv'
  BY DEF PlanInv, planVars, ItemInv, Steady, Holding, HasApplied
<1>3. AnswerInv'
  BY DEF PlanInv, planVars, AnswerInv, TurnInv, Steady, Holding, HasApplied
<1>4. QED BY <1>1, <1>2, <1>3 DEF PlanInv

(* A thread leaves approve(), or goes one step on in it                           *)
LEMMA CallMoves ==
    ASSUME PlanInv, NEW t \in Callers, NEW result \in CallSteps, Ends(t, result)
    PROVE  /\ call' \in [Callers -> CallRows] /\ call'[t].at = result
           /\ call'[t].c = call[t].c /\ call'[t].rev = call[t].rev /\ call'[t].by = call[t].by
           /\ \A u \in Callers \ {t} : call'[u] = call[u]
BY DEF PlanInv, ProposalTables, Ends, CallRows

LEMMA Marking ==
    ASSUME PlanInv, NEW c \in Candidates, NEW status \in Status, cand' = Marked(c, status)
    PROVE  /\ cand' \in [Candidates -> CandRows]
           /\ cand'[c].status = status /\ cand'[c].rev = cand[c].rev /\ cand'[c].by = cand[c].by
           /\ \A d \in Candidates \ {c} : cand'[d] = cand[d]
BY DEF PlanInv, ProposalTables, Marked, CandRows

LEMMA ThreadFacts == PlansFit => "person" \in Callers /\ Worker \in Callers /\ Worker # "person"
BY DEF PlansFit, Callers

(* The revision is looked at, and the evidence: what is not open stays as it is   *)
LEMMA ReadKeeps ==
    ASSUME PlanInv, NEW t \in {"person", Worker}, ApproveRead(t), UNCHANGED planVars
    PROVE  PlanInv'
<1>1. t \in Callers /\ PlansFit /\ call[t].at = "read" /\ call[t].c \in Candidates
  BY ThreadFacts DEF PlanInv, ApproveRead, CallInv
<1>2. PICK c \in Candidates : c = call[t].c
  BY <1>1
<1>3. PICK result \in {"refused", "prepare"} : Ends(t, result)
  BY DEF ApproveRead
<1>4. /\ call' \in [Callers -> CallRows] /\ call'[t].at = result /\ call'[t].c = c
      /\ call'[t].by = call[t].by /\ \A u \in Callers \ {t} : call'[u] = call[u]
  BY <1>1, <1>2, <1>3, CallMoves DEF CallSteps
<1>5. UNCHANGED cand \/ (cand[c].status = "PENDING_REVIEW" /\ cand' = Marked(c, "CONFLICT"))
  BY <1>2 DEF ApproveRead
<1>6. /\ cand' \in [Candidates -> CandRows] /\ \A d \in Candidates \ {c} : cand'[d] = cand[d]
      /\ cand'[c] = cand[c] \/ (cand[c].status = "PENDING_REVIEW" /\ cand'[c].status = "CONFLICT")
  BY <1>5, Marking DEF Status, PlanInv, ProposalTables
<1>7. ProposalTables' /\ Steady
  BY <1>4, <1>6 DEF ProposalTables, Steady, Holding
<1>8. CallInv'
  <2>1. \A u \in Callers : call'[u].by = call[u].by /\ (call'[u].at = call[u].at \/ u = t) /\ call'[u].c = call[u].c
    BY <1>2, <1>4
  <2>2. \A d \in Candidates : cand[d].status = "APPLYING" => cand'[d] = cand[d]
    BY <1>6
  <2>3. \A u \in Callers : call'[u].at = "intent" => call[u].at = "intent" /\ call[u].c \in Candidates
    BY <1>4, <2>1 DEF PlanInv, CallInv
  <2>4. \A u \in Callers : call'[u].at = "intent" =>
          cand'[call'[u].c].status = "APPLYING" /\ cand'[call'[u].c].by = call'[u].by
    BY <2>1, <2>2, <2>3 DEF PlanInv, CallInv
  <2>5. \A u \in Callers : call'[u].at \in {"read", "prepare", "intent"} => call'[u].c \in Candidates
    BY <1>1, <2>1 DEF PlanInv, CallInv
  <2>6. \A u \in Callers \ {Worker, "person"} : call'[u].at = "idle"
    BY <1>4 DEF PlanInv, CallInv
  <2>7. /\ turn.at # "approve" => call'[Worker].at = "idle"
        /\ turn.at = "approve" => call'[Worker].at # "idle" /\ call'[Worker].c = turn.c /\ call'[Worker].by = turn.of
    BY <1>1, <1>4, <2>1, ThreadFacts DEF PlanInv, CallInv
  <2>8. call'["person"].by = Nobody
    BY <1>1, <2>1, ThreadFacts DEF PlanInv, CallInv
  <2>9. QED BY <2>4, <2>5, <2>6, <2>7, <2>8 DEF CallInv, planVars
<1>9. CASE t = "person"
  BY <1>1, <1>4, <1>7, <1>8, <1>9, SteadyKeeps, ThreadFacts
<1>10. CASE t = Worker
  <2>1. turn.at = "approve" /\ turn.c = c /\ turn.of = call[t].by
    BY <1>1, <1>2, <1>10 DEF PlanInv, CallInv
  <2>2. ~Holding(turn.of, c)
    BY <1>1, <1>2, <1>10, <2>1 DEF PlanInv, AnswerInv
  <2>3. ~Holding(turn.of, c)'
    BY <1>6, <2>2 DEF Holding, planVars
  <2>4. AnswerInv'
    BY <1>4, <1>10, <2>1, <2>3 DEF AnswerInv, planVars, Holding
  <2>5. PlansFit /\ PlanTables' /\ TurnInv' /\ ItemInv'
    BY <1>7 DEF PlanInv, planVars, PlanTables, TurnInv, ItemInv, Steady, Holding, HasApplied
  <2>6. QED BY <1>7, <1>8, <2>4, <2>5 DEF PlanInv
<1>11. QED BY <1>9, <1>10

(* The other proposals of a claim that was applied: none of them was being applied *)
LEMMA ApplyingOne ==
    ASSUME PlanInv, NEW c \in Candidates, cand' = WithApplied(c, cand)
    PROVE  /\ cand' \in [Candidates -> CandRows] /\ cand'[c].status = "APPLIED"
           /\ cand'[c].rev = cand[c].rev /\ cand'[c].by = cand[c].by
           /\ \A d \in Candidates \ {c} : cand'[d] = cand[d]
                \/ (cand[d].status = "PENDING_REVIEW" /\ cand'[d].status = "CONFLICT")
<1>1. cand \in [Candidates -> CandRows]
  BY DEF PlanInv, ProposalTables
<1>2. ASSUME NEW d \in Candidates
      PROVE  /\ cand'[d] \in CandRows
             /\ d = c => cand'[d].status = "APPLIED" /\ cand'[d].rev = cand[d].rev /\ cand'[d].by = cand[d].by
             /\ d # c => cand'[d] = cand[d] \/ (cand[d].status = "PENDING_REVIEW" /\ cand'[d].status = "CONFLICT")
  <2>1. cand'[d] = IF d = c THEN [cand[d] EXCEPT !.status = "APPLIED"]
                   ELSE IF <<c, d>> \in kin.rivals /\ cand[d].status = "PENDING_REVIEW"
                        THEN [cand[d] EXCEPT !.status = "CONFLICT"] ELSE cand[d]
    BY DEF WithApplied
  <2>2. cand[d] \in CandRows
    BY <1>1
  <2>3. QED BY <2>1, <2>2 DEF CandRows, Status
<1>3. cand' \in [Candidates -> CandRows]
  BY <1>2 DEF WithApplied
<1>4. QED BY <1>2, <1>3

LEMMA MaterializeKeeps ==
    ASSUME PlanInv, NEW t \in {"person", Worker}, Materialize(t), UNCHANGED planVars
    PROVE  PlanInv'
<1>1. t \in Callers /\ PlansFit /\ call[t].at = "intent" /\ call[t].c \in Candidates
  BY ThreadFacts DEF PlanInv, Materialize, CallInv
<1>2. PICK c \in Candidates : c = call[t].c
  BY <1>1
<1>3. cand[c].status = "APPLYING" /\ cand[c].by = call[t].by
  BY <1>1, <1>2 DEF PlanInv, CallInv
<1>4. PICK result \in {"applied", "refused", "stopped"} :
          /\ Ends(t, result)
          /\ \/ result = "applied" /\ cand' = WithApplied(c, cand)
             \/ result = "refused" /\ cand' = Marked(c, "CONFLICT")
             \/ result = "stopped" /\ cand' = cand
  BY <1>2 DEF Materialize
<1>5. /\ call' \in [Callers -> CallRows] /\ call'[t].at = result /\ call'[t].c = c
      /\ call'[t].by = call[t].by /\ \A u \in Callers \ {t} : call'[u] = call[u]
  BY <1>1, <1>2, <1>4, CallMoves DEF CallSteps
<1>6. /\ cand' \in [Candidates -> CandRows] /\ cand'[c].by = cand[c].by /\ cand'[c].rev = cand[c].rev
      /\ \A d \in Candidates \ {c} : cand'[d] = cand[d] \/ (cand[d].status = "PENDING_REVIEW" /\ cand'[d].status = "CONFLICT")
      /\ cand'[c].status = IF result = "applied" THEN "APPLIED" ELSE IF result = "refused" THEN "CONFLICT" ELSE "APPLYING"
  <2>1. CASE result = "applied"
    BY <1>4, <2>1, ApplyingOne
  <2>2. CASE result = "refused"
    BY <1>4, <2>2, Marking DEF Status
  <2>3. CASE result = "stopped"
    BY <1>3, <1>4, <2>3 DEF PlanInv, ProposalTables
  <2>4. QED BY <2>1, <2>2, <2>3
<1>7. ProposalTables'
  BY <1>5, <1>6 DEF ProposalTables
<1>8. \A u \in Callers \ {t} : call[u].at = "intent" => call[u].c # c
  BY <1>1, <1>2, <1>3, ThreadFacts DEF PlanInv, CallInv, PlansFit, TurnInv
<1>9. CallInv'
  BY <1>1, <1>2, <1>5, <1>6, <1>8, ThreadFacts DEF PlanInv, CallInv, planVars
<1>10. CASE t = "person"
  <2>1. cand[c].by = Nobody
    BY <1>3, <1>10 DEF PlanInv, CallInv
  <2>2. Steady
    BY <1>1, <1>6, <2>1 DEF Steady, Holding, PlansFit
  <2>3. QED BY <1>1, <1>5, <1>7, <1>9, <1>10, <2>2, SteadyKeeps, ThreadFacts
<1>11. CASE t = Worker
  <2>1. turn.at = "approve" /\ turn.c = c /\ turn.of = call[t].by /\ turn.of \in Plans
    BY <1>1, <1>2, <1>11 DEF PlanInv, CallInv, TurnInv
  <2>2. Holding(turn.of, c)
    BY <1>3, <2>1 DEF Holding
  <2>3. item[turn.of][c].status = "RUNNING"
    BY <2>1 DEF PlanInv, TurnInv
  <2>4. AnswerInv'
    BY <1>3, <1>5, <1>6, <1>11, <2>1 DEF AnswerInv, planVars, Holding, HasApplied
  <2>5. PlansFit /\ PlanTables' /\ TurnInv'
    BY DEF PlanInv, planVars, PlanTables, TurnInv
  <2>6. ItemInv'
    BY <1>3, <1>6, <2>1, <2>3 DEF PlanInv, ItemInv, planVars, Holding, HasApplied
  <2>7. QED BY <1>7, <1>9, <2>4, <2>5, <2>6 DEF PlanInv
<1>12. QED BY <1>10, <1>11

(* The intention is recorded: for the worker, only while its item stands           *)
LEMMA IntendKeeps ==
    ASSUME PlanInv, NEW t \in {"person", Worker}, NEW allowed \in BOOLEAN, NEW denied \in {"refused", "denied"},
           Intend(t, allowed, denied), t = Worker /\ allowed => ItemStands, UNCHANGED planVars
    PROVE  PlanInv'
<1>1. t \in Callers /\ PlansFit /\ call[t].at = "prepare" /\ call[t].c \in Candidates
  BY ThreadFacts DEF PlanInv, Intend, CallInv
<1>2. PICK c \in Candidates : c = call[t].c
  BY <1>1
<1>3. CASE cand' = cand /\ \E result \in {"refused", "denied"} : Ends(t, result)
  <2>1. PICK result \in {"refused", "denied"} : Ends(t, result)
    BY <1>3
  <2>2. /\ call' \in [Callers -> CallRows] /\ call'[t].at = result /\ call'[t].c = c
        /\ call'[t].by = call[t].by /\ \A u \in Callers \ {t} : call'[u] = call[u]
    BY <1>1, <1>2, <2>1, CallMoves DEF CallSteps
  <2>3. ProposalTables' /\ Steady
    BY <1>3, <2>2 DEF PlanInv, ProposalTables, Steady
  <2>4. CallInv'
    BY <1>1, <1>2, <1>3, <2>2, ThreadFacts DEF PlanInv, CallInv, planVars
  <2>5. PlansFit /\ PlanTables' /\ TurnInv' /\ ItemInv'
    BY <1>3 DEF PlanInv, planVars, PlanTables, TurnInv, ItemInv, Holding, HasApplied
  <2>6. AnswerInv'
    BY <1>1, <1>3, <2>2, ThreadFacts DEF PlanInv, AnswerInv, planVars, Holding, HasApplied
  <2>7. QED BY <2>3, <2>4, <2>5, <2>6 DEF PlanInv
<1>4. CASE /\ cand[c].status = "PENDING_REVIEW" /\ cand[c].rev = call[t].rev /\ allowed /\ Ends(t, "intent")
           /\ cand' = [cand EXCEPT ![c].status = "APPLYING", ![c].by = call[t].by]
  <2>1. call[t] \in CallRows /\ cand \in [Candidates -> CandRows]
    BY <1>1 DEF PlanInv, ProposalTables
  <2>2. /\ cand' \in [Candidates -> CandRows] /\ cand'[c].status = "APPLYING" /\ cand'[c].by = call[t].by
        /\ cand'[c].rev = cand[c].rev /\ \A d \in Candidates \ {c} : cand'[d] = cand[d]
    BY <1>4, <2>1 DEF CandRows, CallRows, Status
  <2>3. /\ call' \in [Callers -> CallRows] /\ call'[t].at = "intent" /\ call'[t].c = c
        /\ call'[t].by = call[t].by /\ \A u \in Callers \ {t} : call'[u] = call[u]
    BY <1>1, <1>2, <1>4, CallMoves DEF CallSteps
  <2>4. \A u \in Callers \ {t} : call[u].at = "intent" => call[u].c # c
    BY <1>4 DEF PlanInv, CallInv
  <2>5. ProposalTables' /\ CallInv'
    BY <1>1, <1>2, <2>2, <2>3, <2>4, ThreadFacts DEF ProposalTables, PlanInv, CallInv, planVars
  <2>6. CASE t = "person"
    <3>1. Steady
      BY <1>4, <2>2, <2>6 DEF Steady, Holding, PlanInv, PlansFit, CallInv
    <3>2. QED BY <1>1, <2>3, <2>5, <2>6, <3>1, SteadyKeeps, ThreadFacts
  <2>7. CASE t = Worker
    <3>1. turn.at = "approve" /\ turn.c = c /\ turn.of = call[t].by /\ turn.of \in Plans
      BY <1>1, <1>2, <2>7 DEF PlanInv, CallInv, TurnInv
    <3>2. item[turn.of][c].status = "RUNNING" /\ item[turn.of][c].rev = cand[c].rev
      BY <1>4, <2>7, <3>1 DEF ItemStands
    <3>3. AnswerInv'
      BY <2>3, <2>7, <3>1 DEF AnswerInv, planVars
    <3>4. PlansFit /\ PlanTables' /\ TurnInv'
      BY DEF PlanInv, planVars, PlanTables, TurnInv
    <3>5. ItemInv'
      <4> SUFFICES ASSUME NEW p \in Plans, NEW d \in Candidates
                   PROVE  /\ Holding(p, d)' => item[p][d].rev = cand'[d].rev /\ item[p][d].status \in {"PENDING", "RUNNING", "APPLIED"}
                          /\ item[p][d].status = "APPLIED" => HasApplied(p, d)'
                          /\ plan[p] = "none" => item[p][d] = NoItem
        BY DEF ItemInv, planVars
      <4>1. CASE d # c
        BY <2>2, <4>1 DEF PlanInv, ItemInv, Holding, HasApplied
      <4>2. CASE d = c
        <5>1. Holding(p, d)' => p = turn.of
          BY <2>2, <2>7, <3>1, <4>2 DEF Holding
        <5>2. item[p][d].status # "APPLIED"
          BY <1>4, <4>2 DEF PlanInv, ItemInv, HasApplied
        <5>3. QED BY <2>2, <3>2, <4>2, <5>1, <5>2 DEF PlanInv, ItemInv
      <4>3. QED BY <4>1, <4>2
    <3>6. QED BY <2>5, <3>3, <3>4, <3>5 DEF PlanInv
  <2>8. QED BY <2>6, <2>7
<1>5. QED BY <1>2, <1>3, <1>4 DEF Intend, Prepared

(* The person: a call of theirs begins or ends, a proposal is edited or rejected  *)
LEMMA PersonKeeps == ASSUME PlanInv, PersonNext \/ PersonReviews, UNCHANGED planVars PROVE PlanInv'
<1>0. PlansFit /\ "person" \in Callers /\ Worker \in Callers /\ Worker # "person"
  BY ThreadFacts DEF PlanInv
<1>1. ASSUME cand' = cand, NEW r \in CallRows, r.by = Nobody, r.at \in {"read", "idle"}, r.at = "read" => r.c \in Candidates,
             call' = [call EXCEPT !["person"] = r]
      PROVE  PlanInv'
  <2>1. call' \in [Callers -> CallRows] /\ call'["person"] = r /\ \A u \in Callers \ {"person"} : call'[u] = call[u]
    BY <1>0, <1>1 DEF PlanInv, ProposalTables
  <2>2. ProposalTables' /\ Steady
    BY <1>1, <2>1 DEF PlanInv, ProposalTables, Steady
  <2>3. CallInv'
    BY <1>0, <1>1, <2>1 DEF PlanInv, CallInv, planVars
  <2>4. QED BY <1>0, <2>1, <2>2, <2>3, SteadyKeeps
<1>2. ASSUME NEW c \in Candidates, PersonApproves(c) PROVE PlanInv'
  <2>1. cand[c].rev \in Nat /\ Nobody \in Appliers
    BY ProposalsAssumption DEF PlanInv, ProposalTables, CandRows
  <2>2. PICK r \in CallRows : r = [at |-> "read", c |-> c, rev |-> cand[c].rev, by |-> Nobody]
    BY <2>1 DEF CallRows, CallSteps
  <2>3. QED BY <1>1, <1>2, <2>2 DEF PersonApproves, Approve
<1>3. CASE PersonEnds
  <2>1. NoCall \in CallRows /\ NoCall.by = Nobody /\ NoCall.at = "idle"
    BY ProposalsAssumption DEF NoCall, CallRows, CallSteps
  <2>2. QED BY <1>1, <1>3, <2>1 DEF PersonEnds, Return
<1>4. ASSUME NEW c \in Candidates, Edit(c) \/ Reject(c) PROVE PlanInv'
  <2>1. call' = call /\ cand[c].status \in {"PENDING_REVIEW", "CONFLICT"} /\ cand \in [Candidates -> CandRows]
    BY <1>4 DEF Edit, Reject, Open, PlanInv, ProposalTables
  <2>2. /\ cand' \in [Candidates -> CandRows] /\ cand'[c].status \in {"PENDING_REVIEW", "REJECTED"}
        /\ \A d \in Candidates \ {c} : cand'[d] = cand[d]
    <3>1. CASE Edit(c)
      BY <2>1, <3>1 DEF Edit, CandRows, Status
    <3>2. CASE Reject(c)
      BY <2>1, <3>2, Marking DEF Reject, Status
    <3>3. QED BY <1>4, <3>1, <3>2
  <2>3. ProposalTables' /\ Steady
    BY <2>1, <2>2 DEF PlanInv, ProposalTables, Steady, Holding
  <2>4. CallInv'
    BY <2>1, <2>2 DEF PlanInv, CallInv, planVars
  <2>5. QED BY <2>1, <2>3, <2>4, SteadyKeeps
<1>5. CASE Applying("person") \/ Intend("person", TRUE, "denied")
  BY <1>0, <1>5, ReadKeeps, MaterializeKeeps, IntendKeeps DEF Applying
<1>6. QED BY <1>2, <1>3, <1>4, <1>5 DEF PersonNext, PersonReviews

-----------------------------------------------------------------------------
(* The worker                                                                     *)
LEMMA TurnMoves ==
    ASSUME PlanInv, UNCHANGED <<cand, call, item>>, PlanTables', TurnInv', AnswerInv',
           turn.at # "approve" /\ turn'.at # "approve",
           \A p \in Plans : plan'[p] = "none" => plan[p] = "none"
    PROVE  PlanInv'
<1>1. ProposalTables' /\ CallInv'
  BY DEF PlanInv, ProposalTables, CallInv
<1>2. ItemInv'
  BY DEF PlanInv, ItemInv, Holding, HasApplied
<1>3. QED BY <1>1, <1>2 DEF PlanInv

LEMMA RestFacts == PlansFit => Rest \in TurnRows /\ Rest.at = "idle" /\ Rest.of = NoPlan /\ Rest.of \notin Plans
BY DEF PlansFit, Rest, TurnRows

LEMMA ClaimKeeps == ASSUME PlanInv, NEW p \in Plans, ClaimPlan(p) PROVE PlanInv'
<1>1. PlansFit /\ turn = Rest /\ plan[p] = "READY" /\ UNCHANGED <<cand, call, item>>
  BY DEF PlanInv, ClaimPlan, proposalVars
<1>2. plan' \in [Plans -> PlanStates] /\ plan'[p] = "RUNNING" /\ \A r \in Plans \ {p} : plan'[r] = plan[r]
  BY DEF PlanInv, PlanTables, ClaimPlan, PlanStates
<1>3. turn' \in TurnRows /\ turn'.at = "next" /\ turn'.of = p
  BY <1>1 DEF ClaimPlan, Rest, TurnRows
<1>4. PlanTables' /\ TurnInv' /\ AnswerInv'
  BY <1>1, <1>2, <1>3, RestFacts DEF PlanInv, PlanTables, TurnInv, AnswerInv
<1>5. QED BY <1>1, <1>2, <1>3, <1>4, RestFacts, TurnMoves

LEMMA FinishPlanKeeps == ASSUME PlanInv, FinishPlan PROVE PlanInv'
<1>1. PlansFit /\ turn.at = "next" /\ turn.of \in Plans /\ turn' = Rest /\ UNCHANGED <<cand, call, item>>
  BY DEF PlanInv, TurnInv, FinishPlan, proposalVars
<1>2. plan' \in [Plans -> PlanStates] /\ \A r \in Plans : plan'[r] = plan[r] \/ plan'[r] = "COMPLETE"
  BY <1>1 DEF PlanInv, PlanTables, FinishPlan, PlanStates
<1>3. PlanTables' /\ TurnInv' /\ AnswerInv'
  BY <1>1, <1>2, RestFacts DEF PlanInv, PlanTables, TurnInv, AnswerInv
<1>4. QED BY <1>1, <1>2, <1>3, RestFacts, TurnMoves

(* The worker gives the plan up until the next start                              *)
LEMMA PauseKeeps ==
    ASSUME PlanInv, Pause, turn.of \in Plans, UNCHANGED <<cand, item>>, call' = call \/ Return(Worker),
           turn.at = "approve" => Return(Worker)
    PROVE  PlanInv'
<1>0. PlansFit /\ Worker \in Callers /\ Worker # "person"
  BY ThreadFacts DEF PlanInv
<1>1. turn' = Rest /\ plan' \in [Plans -> PlanStates] /\ \A r \in Plans : plan'[r] = plan[r] \/ plan'[r] = "RECOVERY_REQUIRED"
  BY DEF Pause, PlanInv, PlanTables, PlanStates
<1>2. NoCall \in CallRows /\ NoCall.at = "idle" /\ NoCall.by = Nobody
  BY ProposalsAssumption DEF NoCall, CallRows, CallSteps
<1>3. /\ call' \in [Callers -> CallRows] /\ call'[Worker].at = "idle"
      /\ \A u \in Callers \ {Worker} : call'[u] = call[u]
  BY <1>0, <1>2 DEF Return, PlanInv, ProposalTables, CallInv
<1>4. ProposalTables' /\ PlanTables' /\ TurnInv' /\ AnswerInv'
  BY <1>0, <1>1, <1>3, RestFacts DEF PlanInv, ProposalTables, PlanTables, TurnInv, AnswerInv
<1>5. CallInv'
  <2>1. turn'.at # "approve"
    BY <1>0, <1>1, RestFacts
  <2>2. \A t \in Callers : call'[t].at # "idle" => t # Worker /\ call'[t] = call[t]
    BY <1>3
  <2>3. call'["person"] = call["person"] /\ \A t \in Callers \ {Worker, "person"} : call'[t] = call[t]
    BY <1>0, <1>3, ThreadFacts
  <2>4. QED BY <1>3, <2>1, <2>2, <2>3 DEF PlanInv, CallInv
<1>6. ItemInv'
  BY <1>1 DEF PlanInv, ItemInv, Holding, HasApplied
<1>7. QED BY <1>0, <1>4, <1>5, <1>6 DEF PlanInv

LEMMA BreaksKeeps == ASSUME PlanInv, PlanBreaks PROVE PlanInv'
<1>1. Pause /\ turn.at = "receipt" /\ turn.of \in Plans /\ UNCHANGED <<cand, call, item>>
  BY DEF PlanInv, TurnInv, PlanBreaks
<1>2. QED BY <1>1, PauseKeeps

(* One item gets its status                                                       *)
ItemMarked(p, c, status) == [item EXCEPT ![p][c].status = status]

LEMMA ItemMoves ==
    ASSUME PlanInv, NEW p \in Plans, NEW c \in Candidates, NEW status \in ItemStates,
           item' = ItemMarked(p, c, status)
    PROVE  /\ item' \in [Plans -> [Candidates -> ItemRows]] /\ item'[p][c].status = status
           /\ item'[p][c].rev = item[p][c].rev
           /\ \A r \in Plans, d \in Candidates : r # p \/ d # c => item'[r][d] = item[r][d]
<1>1. item \in [Plans -> [Candidates -> ItemRows]] /\ item[p][c] \in ItemRows
  BY DEF PlanInv, PlanTables
<1>2. PICK i \in ItemRows : i = [item[p][c] EXCEPT !.status = status]
  BY <1>1 DEF ItemRows
<1>3. i.status = status /\ i.rev = item[p][c].rev
  BY <1>1, <1>2 DEF ItemRows
<1>4. PICK items \in [Candidates -> ItemRows] : items = [item[p] EXCEPT ![c] = i]
  BY <1>1
<1>5. item' = [item EXCEPT ![p] = items]
  BY <1>2, <1>4 DEF ItemMarked
<1>6. items[c] = i /\ \A d \in Candidates \ {c} : items[d] = item[p][d]
  BY <1>1, <1>4
<1>7. item'[p] = items /\ \A r \in Plans \ {p} : item'[r] = item[r]
  BY <1>1, <1>5
<1>8. item' \in [Plans -> [Candidates -> ItemRows]]
  BY <1>1, <1>5
<1>9. QED BY <1>3, <1>6, <1>7, <1>8

LEMMA StartKeeps == ASSUME PlanInv, StartItem PROVE PlanInv'
<1>1. turn.at = "next" /\ turn.of \in Plans /\ Waiting(turn.of) # {} /\ UNCHANGED <<cand, call, plan>>
  BY DEF PlanInv, TurnInv, StartItem, proposalVars
<1>2. Min(Waiting(turn.of)) \in Waiting(turn.of)
  BY <1>1, LeastNumber, ProposalsAssumption DEF Waiting
<1>3. PICK p \in Plans : p = turn.of
  BY <1>1
<1>4. PICK c \in Candidates : c = Min(Waiting(turn.of)) /\ item[p][c].status = "PENDING"
  BY <1>2, <1>3 DEF Waiting
<1>5. item' = ItemMarked(p, c, "RUNNING") /\ turn' = [turn EXCEPT !.c = c, !.at = "look"]
  BY <1>3, <1>4 DEF StartItem, ItemMarked
<1>6. /\ item' \in [Plans -> [Candidates -> ItemRows]] /\ item'[p][c].status = "RUNNING"
      /\ item'[p][c].rev = item[p][c].rev
      /\ \A r \in Plans, d \in Candidates : r # p \/ d # c => item'[r][d] = item[r][d]
  <2>1. "RUNNING" \in ItemStates
    BY DEF ItemStates
  <2>2. QED BY <1>5, <2>1, ItemMoves
<1>7. turn' \in TurnRows /\ turn'.at = "look" /\ turn'.of = p /\ turn'.c = c
  BY <1>3, <1>5 DEF PlanInv, PlanTables, TurnRows
<1>8. ProposalTables' /\ PlanTables' /\ TurnInv' /\ AnswerInv' /\ CallInv'
  BY <1>1, <1>3, <1>6, <1>7 DEF PlanInv, ProposalTables, PlanTables, TurnInv, AnswerInv, CallInv
<1>9. plan[p] # "none"
  BY <1>1, <1>3 DEF PlanInv, TurnInv
<1>10. ItemInv'
  BY <1>1, <1>4, <1>6, <1>9 DEF PlanInv, ItemInv, Holding, HasApplied
<1>11. QED BY <1>8, <1>10 DEF PlanInv

LEMMA ReceiptMoves ==
    ASSUME PlanInv, NEW status \in Done, Receipt(status)
    PROVE  turn' \in TurnRows /\ turn'.at = "receipt" /\ turn'.status = status /\ turn'.of = turn.of /\ turn'.c = turn.c
BY DEF PlanInv, PlanTables, Receipt, TurnRows

LEMMA LookKeeps == ASSUME PlanInv, LookAtItem PROVE PlanInv'
<1>1. /\ PlansFit /\ turn.at = "look" /\ turn.of \in Plans /\ turn.c \in Candidates
      /\ item[turn.of][turn.c].status = "RUNNING" /\ UNCHANGED <<cand, item>>
      /\ Worker \in Callers /\ Worker # "person" /\ plan[turn.of] # "none"
  BY ThreadFacts DEF PlanInv, TurnInv, LookAtItem
<1>2. CASE Pause /\ call' = call
  BY <1>1, <1>2, PauseKeeps
<1>3. ASSUME NEW status \in Done, Receipt(status), UNCHANGED <<plan, call>>,
             Holding(turn.of, turn.c) => HasApplied(turn.of, turn.c), status = "APPLIED" <=> Holding(turn.of, turn.c)
      PROVE  PlanInv'
  <2>1. turn' \in TurnRows /\ turn'.at = "receipt" /\ turn'.status = status /\ turn'.of = turn.of /\ turn'.c = turn.c
    BY <1>3, ReceiptMoves
  <2>2. PlanTables' /\ TurnInv'
    BY <1>1, <1>3, <2>1 DEF PlanInv, PlanTables, TurnInv
  <2>3. AnswerInv'
    BY <1>1, <1>3, <2>1 DEF AnswerInv, Holding, HasApplied
  <2>4. QED BY <1>1, <1>3, <2>1, <2>2, <2>3, TurnMoves
<1>4. ASSUME ~Holding(turn.of, turn.c), Approve(Worker, turn.c, item[turn.of][turn.c].rev, turn.of),
             turn' = [turn EXCEPT !.at = "approve"], plan' = plan
      PROVE  PlanInv'
  <2>1. turn' \in TurnRows /\ turn'.at = "approve" /\ turn'.of = turn.of /\ turn'.c = turn.c
    BY <1>4 DEF PlanInv, PlanTables, TurnRows
  <2>2. item[turn.of][turn.c].rev \in Nat /\ turn.of \in Appliers
    BY <1>1 DEF PlanInv, PlanTables, ItemRows, PlansFit
  <2>3. PICK r \in CallRows : r = [at |-> "read", c |-> turn.c, rev |-> item[turn.of][turn.c].rev, by |-> turn.of]
    BY <1>1, <2>2 DEF CallRows, CallSteps
  <2>4. r.at = "read" /\ r.c = turn.c /\ r.by = turn.of
    BY <2>3
  <2>5. call' \in [Callers -> CallRows] /\ call'[Worker] = r /\ \A t \in Callers \ {Worker} : call'[t] = call[t]
    BY <1>1, <1>4, <2>3 DEF PlanInv, ProposalTables, Approve
  <2>6. ProposalTables' /\ PlanTables' /\ TurnInv'
    BY <1>1, <1>4, <2>1, <2>5 DEF PlanInv, ProposalTables, PlanTables, TurnInv
  <2>7. CallInv'
    BY <1>1, <2>1, <2>4, <2>5, ThreadFacts DEF PlanInv, CallInv
  <2>8. AnswerInv'
    BY <1>1, <1>4, <2>1, <2>4, <2>5 DEF AnswerInv, Holding
  <2>9. ItemInv'
    BY <1>1, <1>4 DEF PlanInv, ItemInv, Holding, HasApplied
  <2>10. QED BY <1>1, <2>6, <2>7, <2>8, <2>9 DEF PlanInv
<1> DEFINE now == cand[turn.c]
<1>5. \/ Pause /\ call' = call
      \/ Mine(now) /\ now.status = "APPLIED" /\ Receipt("APPLIED") /\ UNCHANGED <<plan, call>>
      \/ /\ now.status = "REJECTED" \/ (~Mine(now) /\ now.status \in {"APPLIED", "APPLYING"})
         /\ Receipt("EXTERNALLY_RESOLVED") /\ UNCHANGED <<plan, call>>
      \/ /\ ~(Mine(now) /\ now.status \in {"APPLYING", "APPLIED"})
         /\ Approve(Worker, turn.c, item[turn.of][turn.c].rev, turn.of)
         /\ turn' = [turn EXCEPT !.at = "approve"] /\ plan' = plan
  BY DEF LookAtItem
<1>6. "APPLIED" \in Done /\ "EXTERNALLY_RESOLVED" \in Done
  BY DEF Done
<1>7. QED BY <1>2, <1>3, <1>4, <1>5, <1>6 DEF Mine, Holding, HasApplied

LEMMA AnsweredKeeps == ASSUME PlanInv, ItemAnswered PROVE PlanInv'
<1>1. /\ PlansFit /\ turn.at = "approve" /\ turn.of \in Plans /\ turn.c \in Candidates
      /\ item[turn.of][turn.c].status = "RUNNING" /\ Return(Worker) /\ UNCHANGED <<cand, item>>
      /\ call[Worker].at \in {"applied", "refused", "denied", "stopped"}
      /\ Worker \in Callers /\ Worker # "person" /\ plan[turn.of] # "none"
  BY ThreadFacts DEF PlanInv, TurnInv, ItemAnswered, Answered
<1>2. CASE Pause
  BY <1>1, <1>2, PauseKeeps
<1>3. ASSUME NEW status \in Done, Receipt(status), UNCHANGED plan,
             Holding(turn.of, turn.c) => HasApplied(turn.of, turn.c), status = "APPLIED" <=> Holding(turn.of, turn.c)
      PROVE  PlanInv'
  <2>1. turn' \in TurnRows /\ turn'.at = "receipt" /\ turn'.status = status /\ turn'.of = turn.of /\ turn'.c = turn.c
    BY <1>3, ReceiptMoves
  <2>2. NoCall \in CallRows /\ NoCall.at = "idle" /\ NoCall.by = Nobody
    BY ProposalsAssumption DEF NoCall, CallRows, CallSteps
  <2>3. /\ call' \in [Callers -> CallRows] /\ call'[Worker].at = "idle"
        /\ \A u \in Callers \ {Worker} : call'[u] = call[u]
    BY <1>1, <2>2 DEF Return, PlanInv, ProposalTables
  <2>4. ProposalTables' /\ PlanTables' /\ TurnInv'
    BY <1>1, <1>3, <2>1, <2>3 DEF PlanInv, ProposalTables, PlanTables, TurnInv
  <2>5. AnswerInv'
    BY <1>1, <1>3, <2>1 DEF AnswerInv, Holding, HasApplied
  <2>6. CallInv'
    <3>1. \A t \in Callers : call'[t].at # "idle" => t # Worker /\ call'[t] = call[t]
      BY <2>3
    <3>2. call'["person"] = call["person"] /\ \A t \in Callers \ {Worker, "person"} : call'[t] = call[t]
      BY <1>1, <2>3, ThreadFacts
    <3>3. QED BY <1>1, <2>1, <2>3, <3>1, <3>2 DEF PlanInv, CallInv
  <2>7. ItemInv'
    BY <1>1, <1>3 DEF PlanInv, ItemInv, Holding, HasApplied
  <2>8. QED BY <1>1, <2>4, <2>5, <2>6, <2>7 DEF PlanInv
<1>4. /\ call[Worker].at \in {"refused", "denied"} => ~Holding(turn.of, turn.c)
      /\ call[Worker].at = "applied" => HasApplied(turn.of, turn.c)
      /\ call[Worker].at = "stopped" => Holding(turn.of, turn.c) /\ ~HasApplied(turn.of, turn.c)
  BY <1>1 DEF PlanInv, AnswerInv
<1>5. \/ Pause
      \/ call[Worker].at = "applied" /\ UNCHANGED plan /\ Receipt("APPLIED")
      \/ call[Worker].at = "refused" /\ UNCHANGED plan /\ Receipt("CONFLICT")
      \/ call[Worker].at = "denied" /\ UNCHANGED plan /\ Receipt(DeniedIs)
      \/ call[Worker].at = "stopped" /\ cand[turn.c].status # "APPLYING"
  BY <1>1 DEF ItemAnswered
<1>6. "APPLIED" \in Done /\ "CONFLICT" \in Done /\ DeniedIs \in Done /\ DeniedIs # "APPLIED"
  BY <1>1 DEF Done, PlansFit
<1>7. CASE call[Worker].at = "stopped" /\ cand[turn.c].status # "APPLYING"
  BY <1>4, <1>7 DEF Holding, HasApplied
<1>8. QED BY <1>2, <1>3, <1>4, <1>5, <1>6, <1>7 DEF Holding, HasApplied

LEMMA FinishItemKeeps == ASSUME PlanInv, FinishItem PROVE PlanInv'
<1>1. /\ PlansFit /\ turn.at = "receipt" /\ turn.of \in Plans /\ turn.c \in Candidates
      /\ UNCHANGED <<cand, call, plan>> /\ plan[turn.of] # "none" /\ turn.status \in Done
      /\ turn.status = "APPLIED" <=> Holding(turn.of, turn.c)
      /\ Holding(turn.of, turn.c) => HasApplied(turn.of, turn.c)
  BY DEF PlanInv, TurnInv, AnswerInv, FinishItem, proposalVars
<1>2. PICK p \in Plans, c \in Candidates : p = turn.of /\ c = turn.c
  BY <1>1
<1>3. PICK status \in Done : status = turn.status
  BY <1>1
<1>4. item' = ItemMarked(p, c, status)
  BY <1>2, <1>3 DEF FinishItem, ItemMarked
<1>5. /\ item' \in [Plans -> [Candidates -> ItemRows]] /\ item'[p][c].status = status
      /\ item'[p][c].rev = item[p][c].rev
      /\ \A r \in Plans, d \in Candidates : r # p \/ d # c => item'[r][d] = item[r][d]
  <2>1. status \in ItemStates
    BY DEF ItemStates
  <2>2. QED BY <1>4, <2>1, ItemMoves
<1>6. turn' \in TurnRows /\ turn'.at = "next" /\ turn'.of = p
  BY <1>2 DEF FinishItem, PlanInv, PlanTables, TurnRows
<1>7. ProposalTables' /\ PlanTables' /\ TurnInv' /\ AnswerInv' /\ CallInv'
  BY <1>1, <1>2, <1>5, <1>6 DEF PlanInv, ProposalTables, PlanTables, TurnInv, AnswerInv, CallInv
<1>8. ItemInv'
  BY <1>1, <1>2, <1>3, <1>5 DEF PlanInv, ItemInv, Holding, HasApplied
<1>9. QED BY <1>1, <1>7, <1>8 DEF PlanInv

-----------------------------------------------------------------------------
(* A plan is stored, and confirmed; and a new start                               *)
LEMMA NewPlanKeeps == ASSUME PlanInv, NewPlan PROVE PlanInv'
<1>1. PICK p \in Plans, status \in PlanStates \ {"none"},
           items \in [Candidates -> [rev : Nat, status : {"none", "PENDING", "SKIPPED"}]] :
        /\ plan[p] = "none" /\ plan' = [plan EXCEPT ![p] = status] /\ item' = [item EXCEPT ![p] = items]
        /\ UNCHANGED <<cand, call, turn>>
  BY DEF NewPlan
<1>2. items \in [Candidates -> ItemRows] /\ \A c \in Candidates : items[c].status # "APPLIED"
  BY DEF ItemRows, ItemStates, Done
<1>3. plan' \in [Plans -> PlanStates] /\ plan'[p] # "none" /\ \A r \in Plans \ {p} : plan'[r] = plan[r]
  BY <1>1 DEF PlanInv, PlanTables
<1>4. item' \in [Plans -> [Candidates -> ItemRows]] /\ item'[p] = items /\ \A r \in Plans \ {p} : item'[r] = item[r]
  BY <1>1, <1>2 DEF PlanInv, PlanTables
<1>5. turn.of # p
  BY <1>1 DEF PlanInv, TurnInv
<1>6. ProposalTables' /\ PlanTables' /\ TurnInv' /\ AnswerInv' /\ CallInv'
  BY <1>1, <1>3, <1>4, <1>5 DEF PlanInv, ProposalTables, PlanTables, TurnInv, AnswerInv, CallInv, Holding, HasApplied
<1>7. \A c \in Candidates : ~Holding(p, c)
  BY <1>1 DEF PlanInv, ItemInv, NoItem
<1>8. ItemInv'
  BY <1>1, <1>2, <1>3, <1>4, <1>7 DEF PlanInv, ItemInv, Holding, HasApplied
<1>9. QED BY <1>6, <1>8 DEF PlanInv

LEMMA ConfirmedKeeps == ASSUME PlanInv, PlanConfirmed PROVE PlanInv'
<1>1. plan' \in [Plans -> PlanStates] /\ \A p \in Plans : plan'[p] = plan[p] \/ (plan[p] = "DRAFT" /\ plan'[p] = "READY")
  BY DEF PlanConfirmed, PlanInv, PlanTables, PlanStates
<1>2. UNCHANGED <<cand, call, item, turn>>
  BY DEF PlanConfirmed
<1>3. QED BY <1>1, <1>2 DEF PlanInv, ProposalTables, PlanTables, TurnInv, AnswerInv, CallInv, ItemInv, Holding, HasApplied

LEMMA RecoverKeeps == ASSUME PlanInv, RecoverProposals, RecoverPlans PROVE PlanInv'
<1>0. PlansFit /\ cand \in [Candidates -> CandRows] /\ item \in [Plans -> [Candidates -> ItemRows]]
  BY DEF PlanInv, ProposalTables, PlanTables
<1>1. PICK end \in [{c \in Candidates : cand[c].status = "APPLYING"} -> {"APPLIED", "CONFLICT", "APPLYING", "ERROR"}] :
        cand' = [d \in Candidates |->
            IF d \in DOMAIN end THEN [cand[d] EXCEPT !.status = end[d]]
            ELSE IF cand[d].status = "PENDING_REVIEW" /\ \E c \in DOMAIN end : end[c] = "APPLIED" /\ <<c, d>> \in kin.rivals
                 THEN [cand[d] EXCEPT !.status = "CONFLICT"] ELSE cand[d]]
  BY DEF RecoverProposals
<1>2. ASSUME NEW d \in Candidates
      PROVE  /\ cand'[d] \in CandRows /\ cand'[d].by = cand[d].by /\ cand'[d].rev = cand[d].rev
             /\ cand[d].status = "APPLIED" => cand'[d].status = "APPLIED"
             /\ cand'[d].status \in {"APPLIED", "APPLYING"} => cand[d].status \in {"APPLIED", "APPLYING"}
  <2>1. cand[d] \in CandRows
    BY <1>0
  <2>2. CASE cand[d].status = "APPLYING"
    <3>1. d \in DOMAIN end /\ end[d] \in {"APPLIED", "CONFLICT", "APPLYING", "ERROR"}
      BY <2>2
    <3>2. PICK status \in {"APPLIED", "CONFLICT", "APPLYING", "ERROR"} : status = end[d]
      BY <3>1
    <3>3. cand'[d] = [cand[d] EXCEPT !.status = status]
      BY <1>1, <3>1, <3>2
    <3>4. QED BY <2>1, <2>2, <3>3 DEF CandRows, Status
  <2>3. CASE cand[d].status # "APPLYING"
    <3>1. d \notin DOMAIN end
      BY <2>3
    <3>2. cand'[d] = cand[d] \/ (cand[d].status = "PENDING_REVIEW" /\ cand'[d] = [cand[d] EXCEPT !.status = "CONFLICT"])
      BY <1>1, <3>1
    <3>3. QED BY <2>1, <2>3, <3>2 DEF CandRows, Status
  <2>4. QED BY <2>2, <2>3
<1>3. cand' \in [Candidates -> CandRows]
  BY <1>1, <1>2
<1>4. NoCall \in CallRows /\ NoCall.at = "idle" /\ NoCall.by = Nobody
  BY ProposalsAssumption DEF NoCall, CallRows, CallSteps
<1>5. call' \in [Callers -> CallRows] /\ \A t \in Callers : call'[t] = NoCall
  BY <1>4 DEF RecoverProposals
<1>6. ASSUME NEW p \in Plans, NEW c \in Candidates
      PROVE  /\ item'[p][c] \in ItemRows /\ item'[p][c].rev = item[p][c].rev
             /\ item'[p][c] = item[p][c] \/ (item[p][c].status = "RUNNING" /\ item'[p][c].status = "PENDING")
  <2>1. item[p][c] \in ItemRows
    BY <1>0
  <2>2. item'[p][c] = item[p][c] \/ (item[p][c].status = "RUNNING" /\ item'[p][c] = [item[p][c] EXCEPT !.status = "PENDING"])
    BY DEF RecoverPlans
  <2>3. QED BY <2>1, <2>2 DEF ItemRows, ItemStates
<1>7. item' \in [Plans -> [Candidates -> ItemRows]]
  BY <1>6 DEF RecoverPlans
<1>8. turn' = Rest /\ plan' \in [Plans -> PlanStates] /\ \A p \in Plans : plan'[p] = "none" <=> plan[p] = "none"
  BY DEF RecoverPlans, PlanInv, PlanTables, PlanStates
<1>9. ProposalTables' /\ PlanTables' /\ TurnInv' /\ AnswerInv'
  BY <1>0, <1>3, <1>5, <1>7, <1>8, RestFacts DEF ProposalTables, PlanTables, TurnInv, AnswerInv
<1>10. CallInv'
  BY <1>0, <1>4, <1>5, <1>8, RestFacts, ThreadFacts DEF CallInv
<1>11. ItemInv'
  <2> SUFFICES ASSUME NEW p \in Plans, NEW c \in Candidates
               PROVE  /\ Holding(p, c)' => item'[p][c].rev = cand'[c].rev /\ item'[p][c].status \in {"PENDING", "RUNNING", "APPLIED"}
                      /\ item'[p][c].status = "APPLIED" => HasApplied(p, c)'
                      /\ plan'[p] = "none" => item'[p][c] = NoItem
    BY DEF ItemInv
  <2>1. Holding(p, c)' => Holding(p, c)
    BY <1>2 DEF Holding
  <2>2. HasApplied(p, c) => HasApplied(p, c)'
    BY <1>2 DEF HasApplied
  <2>3. item'[p][c] = item[p][c] \/ (item[p][c].status = "RUNNING" /\ item'[p][c].status = "PENDING")
    BY <1>6
  <2>4. QED BY <1>2, <1>6, <1>8, <2>1, <2>2, <2>3 DEF PlanInv, ItemInv, NoItem
<1>12. QED BY <1>0, <1>9, <1>10, <1>11 DEF PlanInv

LEMMA PlanKept == PlanInv /\ PlanStep => PlanInv'
<1> SUFFICES ASSUME PlanInv, PlanStep PROVE PlanInv'
  OBVIOUS
<1>1. CASE WorkerIntends
  BY <1>1, IntendKeeps DEF WorkerIntends
<1>2. CASE Running
  BY <1>2, StartKeeps, LookKeeps, AnsweredKeeps, FinishItemKeeps, FinishPlanKeeps, ClaimKeeps DEF Running
<1>3. CASE PlanBreaks \/ NewPlan \/ PlanConfirmed
  BY <1>3, BreaksKeeps, NewPlanKeeps, ConfirmedKeeps
<1>4. CASE (Applying(Worker) \/ PersonNext \/ PersonReviews) /\ UNCHANGED planVars
  BY <1>4, ReadKeeps, MaterializeKeeps, PersonKeeps DEF Applying
<1>5. CASE RecoverProposals /\ RecoverPlans
  BY <1>5, RecoverKeeps
<1>6. CASE UNCHANGED <<cand, call, planVars>>
  BY <1>6 DEF PlanInv, planVars, ProposalTables, PlanTables, TurnInv, AnswerInv, CallInv, ItemInv, Holding, HasApplied
<1>7. QED BY <1>1, <1>2, <1>3, <1>4, <1>5, <1>6 DEF PlanStep, OtherStep

LEMMA ReceiptsAreTrue == PlanInv => \A p \in Plans, c \in Candidates : ReceiptTrue(p, c)
<1> SUFFICES ASSUME PlanInv, NEW p \in Plans, NEW c \in Candidates PROVE ReceiptTrue(p, c)
  OBVIOUS
<1>1. /\ Holding(p, c) => item[p][c].rev = cand[c].rev /\ item[p][c].status \in {"PENDING", "RUNNING", "APPLIED"}
      /\ item[p][c].status = "APPLIED" => HasApplied(p, c)
  BY DEF PlanInv, ItemInv
<1>2. QED BY <1>1 DEF ReceiptTrue, Holding, HasApplied, Done

-----------------------------------------------------------------------------
(* Nobody but the worker puts a proposal under a plan, or brings one of a plan to   *)
(* be applied again; and a revision only grows                                    *)
Untaken(c) ==
    /\ cand'[c].by \in {cand[c].by, Nobody} /\ cand[c].rev \in Nat /\ cand'[c].rev \in Nat /\ cand[c].rev <= cand'[c].rev
    /\ cand'[c].status = "APPLYING" /\ cand'[c].by # Nobody => cand[c].status = "APPLYING"

LEMMA OthersIntend ==
    ASSUME PlanInv, OtherStep, NEW c \in Candidates
    PROVE  Untaken(c)
<1>0. PlansFit /\ cand \in [Candidates -> CandRows] /\ cand[c] \in CandRows /\ cand[c].rev \in Nat
  BY DEF PlanInv, ProposalTables, CandRows
<1>1. CASE cand' = cand
  BY <1>0, <1>1 DEF Untaken
<1>2. ASSUME NEW d \in Candidates, NEW status \in Status \ {"APPLYING"}, cand' = Marked(d, status) PROVE Untaken(c)
  <2>1. cand'[c].by = cand[c].by /\ cand'[c].rev = cand[c].rev /\ (cand'[c].status = cand[c].status \/ cand'[c].status = status)
    BY <1>2, Marking
  <2>2. QED BY <1>0, <1>2, <2>1 DEF Untaken
<1>3. ASSUME NEW t \in {"person", Worker}, Applying(t) PROVE Untaken(c)
  <2>1. t \in Callers /\ call[t].c \in Candidates
    BY <1>0, <1>3, ThreadFacts DEF PlanInv, CallInv, Applying, ApproveRead, Materialize
  <2>2. cand' = cand \/ cand' = Marked(call[t].c, "CONFLICT") \/ cand' = WithApplied(call[t].c, cand)
    BY <1>3 DEF Applying, ApproveRead, Materialize
  <2>3. CASE cand' = WithApplied(call[t].c, cand)
    <3>1. PICK d \in Candidates : d = call[t].c
      BY <2>1
    <3>2. cand'[c].by = cand[c].by /\ cand'[c].rev = cand[c].rev /\ (cand'[c].status # "APPLYING" \/ cand'[c] = cand[c])
      <4>1. CASE c = d
        BY <2>3, <3>1, <4>1, ApplyingOne
      <4>2. CASE c # d
        <5>1. cand'[c] = IF <<d, c>> \in kin.rivals /\ cand[c].status = "PENDING_REVIEW"
                         THEN [cand[c] EXCEPT !.status = "CONFLICT"] ELSE cand[c]
          BY <2>3, <3>1, <4>2 DEF WithApplied
        <5>2. QED BY <1>0, <5>1 DEF CandRows
      <4>3. QED BY <4>1, <4>2
    <3>3. QED BY <1>0, <3>2 DEF Untaken
  <2>4. "CONFLICT" \in Status \ {"APPLYING"}
    BY DEF Status
  <2>5. QED BY <1>1, <1>2, <2>1, <2>2, <2>3, <2>4
<1>4. CASE PersonNext \/ PersonReviews
  <2>1. CASE PersonEnds \/ \E d \in Candidates : PersonApproves(d)
    BY <1>1, <2>1 DEF PersonEnds, PersonApproves
  <2>2. CASE Applying("person")
    BY <1>3, <2>2
  <2>3. CASE Intend("person", TRUE, "denied") /\ cand' # cand
    <3>1. call["person"].by = Nobody /\ call["person"].c \in Candidates
      BY <1>0, <2>3, ThreadFacts DEF PlanInv, CallInv, Intend
    <3>2. cand' = [cand EXCEPT ![call["person"].c].status = "APPLYING", ![call["person"].c].by = Nobody]
      BY <2>3, <3>1 DEF Intend
    <3>3. cand'[c] = cand[c] \/ cand'[c] = [cand[c] EXCEPT !.status = "APPLYING", !.by = Nobody]
      BY <1>0, <3>1, <3>2
    <3>4. cand'[c] = cand[c] \/ (cand'[c].by = Nobody /\ cand'[c].rev = cand[c].rev)
      BY <1>0, <3>3 DEF CandRows
    <3>5. QED BY <1>0, <3>4 DEF Untaken
  <2>4. ASSUME NEW d \in Candidates, Reject(d) PROVE Untaken(c)
    <3>1. "REJECTED" \in Status \ {"APPLYING"}
      BY DEF Status
    <3>2. QED BY <1>2, <2>4, <3>1 DEF Reject
  <2>5. ASSUME NEW d \in Candidates, Edit(d) PROVE Untaken(c)
    <3>1. cand'[c] = cand[c] \/ (cand'[c].by = cand[c].by /\ cand'[c].rev = cand[c].rev + 1 /\ cand'[c].status = "PENDING_REVIEW")
      BY <1>0, <2>5 DEF Edit, CandRows
    <3>2. QED BY <1>0, <3>1 DEF Untaken
  <2>6. QED BY <1>1, <1>4, <2>1, <2>2, <2>3, <2>4, <2>5 DEF PersonNext, PersonReviews
<1>5. CASE RecoverProposals
  <2>1. PICK end \in [{d \in Candidates : cand[d].status = "APPLYING"} -> {"APPLIED", "CONFLICT", "APPLYING", "ERROR"}] :
        cand' = [d \in Candidates |->
            IF d \in DOMAIN end THEN [cand[d] EXCEPT !.status = end[d]]
            ELSE IF cand[d].status = "PENDING_REVIEW" /\ \E e \in DOMAIN end : end[e] = "APPLIED" /\ <<e, d>> \in kin.rivals
                 THEN [cand[d] EXCEPT !.status = "CONFLICT"] ELSE cand[d]]
    BY <1>5 DEF RecoverProposals
  <2>2. c \in DOMAIN end => cand[c].status = "APPLYING"
    OBVIOUS
  <2>3. CASE c \in DOMAIN end
    <3>1. cand'[c] = [cand[c] EXCEPT !.status = end[c]]
      BY <2>1, <2>3
    <3>2. cand'[c].by = cand[c].by /\ cand'[c].rev = cand[c].rev
      BY <1>0, <3>1 DEF CandRows
    <3>3. QED BY <1>0, <2>2, <2>3, <3>2 DEF Untaken
  <2>4. CASE c \notin DOMAIN end
    <3>1. cand'[c] = cand[c] \/ cand'[c] = [cand[c] EXCEPT !.status = "CONFLICT"]
      BY <2>1, <2>4
    <3>2. cand'[c] = cand[c] \/ (cand'[c].by = cand[c].by /\ cand'[c].rev = cand[c].rev /\ cand'[c].status = "CONFLICT")
      BY <1>0, <3>1 DEF CandRows
    <3>3. QED BY <1>0, <3>2 DEF Untaken
  <2>5. QED BY <2>3, <2>4
<1>6. Running \/ PlanBreaks \/ NewPlan \/ PlanConfirmed \/ UNCHANGED <<cand, call, planVars>> => cand' = cand
  BY DEF Running, StartItem, LookAtItem, ItemAnswered, FinishItem, FinishPlan, ClaimPlan, PlanBreaks, NewPlan,
         PlanConfirmed, proposalVars
<1>7. QED BY <1>1, <1>3, <1>4, <1>5, <1>6 DEF OtherStep

(* The worker asks for the item it is on                                          *)
LEMMA WorkerAsks ==
    ASSUME PlanInv, NEW allowed \in BOOLEAN, NEW denied \in {"refused", "denied"}, Intend(Worker, allowed, denied)
    PROVE  /\ turn.of \in Plans /\ turn.c \in Candidates /\ plan[turn.of] # "none"
           /\ \/ cand' = cand /\ call'[Worker].at # "intent"
              \/ /\ allowed /\ call'[Worker].at = "intent"
                 /\ cand'[turn.c].by = turn.of /\ cand'[turn.c].rev = cand[turn.c].rev
                 /\ \A d \in Candidates \ {turn.c} : cand'[d] = cand[d]
<1>1. PlansFit /\ Worker \in Callers /\ call[Worker].at = "prepare"
  BY ThreadFacts DEF PlanInv, Intend
<1>2. turn.at = "approve" /\ turn.of \in Plans /\ turn.c \in Candidates /\ plan[turn.of] # "none"
  BY <1>1 DEF PlanInv, CallInv, TurnInv
<1>3. call[Worker].c = turn.c /\ call[Worker].by = turn.of
  BY <1>2 DEF PlanInv, CallInv
<1>4. PICK c \in Candidates, p \in Plans : c = turn.c /\ p = turn.of
  BY <1>2
<1>5. CASE cand' = cand /\ \E result \in {"refused", "denied"} : Ends(Worker, result)
  <2>1. PICK result \in {"refused", "denied"} : Ends(Worker, result)
    BY <1>5
  <2>2. call'[Worker].at = result
    BY <1>1, <2>1, CallMoves DEF CallSteps
  <2>3. QED BY <1>2, <1>5, <2>2
<1>6. CASE allowed /\ Ends(Worker, "intent") /\ cand' = [cand EXCEPT ![c].status = "APPLYING", ![c].by = p]
  <2>1. call'[Worker].at = "intent"
    BY <1>1, <1>6, CallMoves DEF CallSteps
  <2>2. cand \in [Candidates -> CandRows]
    BY DEF PlanInv, ProposalTables
  <2>3. cand'[c].by = p /\ cand'[c].rev = cand[c].rev /\ \A d \in Candidates \ {c} : cand'[d] = cand[d]
    BY <1>6, <2>2 DEF CandRows
  <2>4. QED BY <1>2, <1>4, <1>6, <2>1, <2>3
<1>7. QED BY <1>3, <1>4, <1>5, <1>6 DEF Intend

(* The items of a plan are those that were stored                                 *)
LEMMA RevisionsStay ==
    ASSUME PlanInv, PlanStep, NEW p \in Plans, plan[p] # "none", NEW c \in Candidates
    PROVE  plan'[p] # "none" /\ item'[p][c].rev = item[p][c].rev
<1>1. plan \in [Plans -> PlanStates] /\ item \in [Plans -> [Candidates -> ItemRows]]
  BY DEF PlanInv, PlanTables
<1>2. plan'[p] # "none"
  <2>1. CASE Running \/ PlanBreaks \/ NewPlan \/ PlanConfirmed \/ RecoverPlans
    BY <1>1, <2>1 DEF Running, StartItem, LookAtItem, ItemAnswered, FinishItem, FinishPlan, ClaimPlan, PlanBreaks,
       NewPlan, PlanConfirmed, RecoverPlans, Pause
  <2>2. CASE UNCHANGED planVars
    BY <2>2 DEF planVars
  <2>3. QED BY <2>1, <2>2 DEF PlanStep, OtherStep, WorkerIntends
<1>3. item'[p][c].rev = item[p][c].rev
  <2>1. CASE item' = item
    BY <2>1
  <2>2. CASE NewPlan
    BY <1>1, <2>2 DEF NewPlan
  <2>3. ASSUME NEW status \in ItemStates, item' = ItemMarked(turn.of, turn.c, status),
               turn.of \in Plans, turn.c \in Candidates
        PROVE  item'[p][c].rev = item[p][c].rev
    <3>1. PICK r \in Plans, d \in Candidates : r = turn.of /\ d = turn.c
      BY <2>3
    <3>2. item' = ItemMarked(r, d, status)
      BY <2>3, <3>1
    <3>3. QED BY <2>3, <3>2, ItemMoves
  <2>4. CASE FinishItem
    <3>1. turn.status \in ItemStates /\ turn.of \in Plans /\ turn.c \in Candidates
      BY <2>4 DEF FinishItem, PlanInv, TurnInv, AnswerInv, ItemStates
    <3>2. QED BY <2>3, <2>4, <3>1 DEF FinishItem, ItemMarked
  <2>5. CASE StartItem
    <3>1. turn.of \in Plans /\ Waiting(turn.of) # {}
      BY <2>5 DEF StartItem, PlanInv, TurnInv
    <3>2. Min(Waiting(turn.of)) \in Candidates
      BY <3>1, LeastNumber, ProposalsAssumption DEF Waiting
    <3>3. PICK r \in Plans, d \in Candidates : r = turn.of /\ d = Min(Waiting(turn.of))
      BY <3>1, <3>2
    <3>4. item' = ItemMarked(r, d, "RUNNING")
      BY <2>5, <3>3 DEF StartItem, ItemMarked
    <3>5. "RUNNING" \in ItemStates
      BY DEF ItemStates
    <3>6. QED BY <3>4, <3>5, ItemMoves
  <2>6. CASE RecoverPlans
    <3>1. item'[p][c] = item[p][c] \/ item'[p][c] = [item[p][c] EXCEPT !.status = "PENDING"]
      BY <2>6 DEF RecoverPlans
    <3>2. item[p][c] \in ItemRows
      BY <1>1
    <3>3. QED BY <3>1, <3>2 DEF ItemRows
  <2>7. \/ LookAtItem \/ ItemAnswered \/ FinishPlan \/ (\E r \in Plans : ClaimPlan(r)) \/ PlanBreaks \/ PlanConfirmed
        \/ UNCHANGED planVars
        => item' = item
    BY DEF LookAtItem, ItemAnswered, FinishPlan, ClaimPlan, PlanBreaks, PlanConfirmed, planVars
  <2>8. QED BY <2>1, <2>2, <2>4, <2>5, <2>6, <2>7 DEF PlanStep, OtherStep, WorkerIntends, Running
<1>4. QED BY <1>2, <1>3
=============================================================================
