------------------------------- MODULE Proposals -------------------------------
(***************************************************************************)
(* The proposals as those who apply them see them: a person, the batches a *)
(* person confirmed and the policies a person authorised all end in the    *)
(* same approve(). SemanticApplication models what that call does to the   *)
(* notes; here its three durable steps are kept, and its outcomes.         *)
(*                                                                         *)
(* Each thread that calls approve() holds its call in call[t].             *)
(***************************************************************************)
EXTENDS Naturals, FiniteSets

CONSTANTS
    Candidates,     \* update_candidates: numbers, in the order of candidate_id
    Kinships,       \* how they may be related: the proposals that write or read a same
                    \* note, and of those the ones that replace the same claim
    MaxEvents,      \* bound: decisions of a person, restarts, errors and days
    Appliers,       \* Nobody and the batches and runs that apply proposals
    Nobody

ASSUME ProposalsAssumption ==
    /\ Nobody \in Appliers
    /\ Candidates \subseteq Nat /\ MaxEvents \in Nat
    /\ \A k \in Kinships : k.rivals \subseteq k.related
    /\ \A k \in Kinships : \A p \in k.related : <<p[2], p[1]>> \in k.related

VARIABLES
    cand,       \* status, proposal_revision and by: review_batch_id or automation_run_id
    call,       \* each thread inside approve(): where it is
    events,     \* the budget used
    kin         \* what they are to each other; never changes

proposalVars == <<cand, call, events, kin>>

Callers == {"person", "review", "policies"}
Status == {"PENDING_REVIEW", "CONFLICT", "APPLYING", "APPLIED", "REJECTED", "ERROR"}
NoCall == [at |-> "idle", c |-> 0, rev |-> 0, by |-> Nobody]

ProposalsTypeOK ==
    /\ cand \in [Candidates -> [status : Status, rev : Nat, by : Appliers]]
    /\ call \in [Callers -> [at : {"idle", "read", "prepare", "intent", "applied", "refused", "denied", "stopped"},
                             c : Candidates \cup {0}, rev : Nat, by : Appliers]]
    /\ events \in 0..MaxEvents

ProposalsInit ==
    /\ cand = [c \in Candidates |-> [status |-> "PENDING_REVIEW", rev |-> 1, by |-> Nobody]]
    /\ call = [t \in Callers |-> NoCall]
    /\ events = 0 /\ kin \in Kinships

Event == events < MaxEvents /\ events' = events + 1
MarkedDiscarded(c, status) == [cand EXCEPT ![c].status = IF status = "REJECTED" THEN "DISCARDED" ELSE status]
Marked(c, status) == [cand EXCEPT ![c].status = status]
Ends(t, result) == call' = [call EXCEPT ![t].at = result]

-----------------------------------------------------------------------------
(* approve, first: the proposal as it is read, its note and its evidence          *)
Approve(t, c, rev, by) == call' = [call EXCEPT ![t] = [at |-> "read", c |-> c, rev |-> rev, by |-> by]]

ApproveRead(t) ==
    /\ call[t].at = "read"
    /\ LET c == call[t].c
           open == cand[c].status = "PENDING_REVIEW" /\ cand[c].rev = call[t].rev
       IN  \/ ~open /\ Ends(t, "refused") /\ UNCHANGED cand
           \/ open /\ Ends(t, "prepare") /\ UNCHANGED cand
           \/ open /\ Ends(t, "refused") /\ cand' = Marked(c, "CONFLICT")
    /\ UNCHANGED <<events, kin>>

(* prepare_application with check_application; the caller adds its own authority  *)
Free(c) == \A d \in Candidates : <<c, d>> \in kin.related => cand[d].status # "APPLYING"
Prepared(t) == cand[call[t].c].status = "PENDING_REVIEW" /\ cand[call[t].c].rev = call[t].rev /\ Free(call[t].c)
Intend(t, allowed, denied) ==
    /\ call[t].at = "prepare"
    /\ IF Prepared(t) /\ allowed
       THEN /\ cand' = [cand EXCEPT ![call[t].c].status = "APPLYING", ![call[t].c].by = call[t].by]
            /\ Ends(t, "intent")
       ELSE UNCHANGED cand /\ Ends(t, IF Prepared(t) THEN denied ELSE "refused")
    /\ UNCHANGED <<events, kin>>

(* mark_applied: the other proposals for the claim are left in conflict           *)
WithApplied(c, old) == [d \in Candidates |->
    IF d = c THEN [old[d] EXCEPT !.status = "APPLIED"]
    ELSE IF <<c, d>> \in kin.rivals /\ old[d].status = "PENDING_REVIEW"
         THEN [old[d] EXCEPT !.status = "CONFLICT"] ELSE old[d]]

(* The note is replaced, or it changed, or the editor does not answer             *)
Materialize(t) ==
    /\ call[t].at = "intent"
    /\ \/ cand' = WithApplied(call[t].c, cand) /\ Ends(t, "applied")
       \/ cand' = Marked(call[t].c, "CONFLICT") /\ Ends(t, "refused")
       \/ UNCHANGED cand /\ Ends(t, "stopped")
    /\ UNCHANGED <<events, kin>>

Applying(t) == ApproveRead(t) \/ Materialize(t)
Answered(t) == call[t].at \in {"applied", "refused", "denied", "stopped"}
Return(t) == call' = [call EXCEPT ![t] = NoCall]

-----------------------------------------------------------------------------
(* The person: approval in the window, edit and rejection                         *)
PersonApproves(c) ==
    /\ call["person"] = NoCall /\ Event
    /\ Approve("person", c, cand[c].rev, Nobody) /\ UNCHANGED <<cand, kin>>
PersonEnds == Answered("person") /\ Return("person") /\ UNCHANGED <<cand, events, kin>>

Open(c) == cand[c].status \in {"PENDING_REVIEW", "CONFLICT"}
Edit(c) ==
    /\ Open(c) /\ Event
    /\ cand' = [cand EXCEPT ![c].status = "PENDING_REVIEW", ![c].rev = @ + 1]
    /\ UNCHANGED <<call, kin>>

Reject(c) ==
    /\ Open(c) /\ Event
    /\ cand' = Marked(c, "REJECTED") /\ UNCHANGED <<call, kin>>

(* A new start: every intention is applied, given up or, without the editor, kept *)
RecoverProposals ==
    /\ Event
    /\ \E end \in [{c \in Candidates : cand[c].status = "APPLYING"} -> {"APPLIED", "CONFLICT", "APPLYING", "ERROR"}] :
        cand' = [d \in Candidates |->
            IF d \in DOMAIN end THEN [cand[d] EXCEPT !.status = end[d]]
            ELSE IF cand[d].status = "PENDING_REVIEW" /\ \E c \in DOMAIN end : end[c] = "APPLIED" /\ <<c, d>> \in kin.rivals
                 THEN [cand[d] EXCEPT !.status = "CONFLICT"] ELSE cand[d]]
    /\ call' = [t \in Callers |-> NoCall] /\ UNCHANGED kin

PersonReviews == \E c \in Candidates : Edit(c) \/ Reject(c)
PersonNext ==
    \/ PersonEnds \/ Applying("person") \/ Intend("person", TRUE, "denied")
    \/ PersonReviews \/ \E c \in Candidates : PersonApproves(c)
=============================================================================
