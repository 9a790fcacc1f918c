--------------------------- MODULE AutomationPolicies ---------------------------
(***************************************************************************)
(* Proposals applied without a person looking at each: a policy a person   *)
(* authorised after reviewing a simulation, a global pause, a schedule     *)
(* with a lease, and runs whose every application is authorised again and  *)
(* charged to the quota in the transaction that records the intention.     *)
(*                                                                         *)
(* One policy. An authority is <<policy revision, activation, control>>.   *)
(***************************************************************************)
EXTENDS Proposals, FiniteSetsExt

CONSTANTS
    Runs, NoRun,
    Caps,           \* the daily quotas a person gives the policy
    PerRun,         \* max_tasks_per_run
    Days            \* bound: the days that pass 

ASSUME PoliciesAssumption ==   \* the configuration admits quotas of up to 10000
    /\ Caps \subseteq Nat /\ IsFiniteSet(Caps) /\ PerRun \in Nat /\ Days \in Nat
    /\ NoRun \notin Runs /\ Runs \subseteq (Appliers \ {Nobody}) \cap Nat

VARIABLES
    policy,     \* automation_policies: revision, state_revision, enabled, and the quota
    control,    \* automation_control: revision and paused
    reviewed,   \* the authority of the last simulation a person saw
    fit,        \* proposals whose source and claims are as the configuration asks
    lease,      \* automation_schedules: none, held, or held and past its time
    job,        \* the scheduler: what it leased, what it has read
    planned,    \* fingerprints of the plans evaluated
    run, runItem, runTurn,
    grant,      \* the authority each run was planned under
    spent,      \* automation_reservations
    day

PolicyRuns == INSTANCE PlanRuns WITH
    Plans <- Runs, NoPlan <- NoRun, Worker <- "policies", DeniedIs <- "SKIPPED",
    plan <- run, item <- runItem, turn <- runTurn

governanceVars == <<policy, control, reviewed, fit, day>>
scheduleVars == <<lease, job, planned, grant>>
policyVars == <<governanceVars, scheduleVars, run, runItem, runTurn, spent>>

Authority == <<policy.rev, policy.state, control.rev>>
NoJob == [at |-> "idle", auth |-> <<0, 0, 0>>, saw |-> <<0, 0, 0>>, used |-> 0, cap |-> 0,
          read |-> {}, seen |-> {}]
PoliciesInit ==     \* authorised after a simulation, and resumed
    /\ policy \in [rev : {1}, state : {2}, on : {TRUE}, cap : Caps]
    /\ control = [rev |-> 2, paused |-> FALSE]
    /\ reviewed = <<1, 1, 2>> /\ fit = Candidates /\ day = 0
    /\ lease = "none" /\ job = NoJob /\ planned = {} /\ grant = [r \in Runs |-> <<0, 0, 0>>]
    /\ spent = {}
    /\ PolicyRuns!PlansInit

-----------------------------------------------------------------------------
(* What a person decides                                                          *)
Simulate ==
    /\ UNCHANGED events
    /\ reviewed # Authority /\ reviewed' = Authority
    /\ UNCHANGED <<policy, control, fit, day>>

SetEnabled(on) ==
    /\ Event /\ (on => reviewed = Authority)
    /\ policy' = [policy EXCEPT !.on = on, !.state = @ + 1]
    /\ UNCHANGED <<control, reviewed, fit, day>>

Revise(cap) ==
    /\ Event
    /\ policy' = [rev |-> policy.rev + 1, state |-> policy.state + 1, on |-> FALSE, cap |-> cap]
    /\ UNCHANGED <<control, reviewed, fit, day>>

SetPaused(paused) ==
    /\ Event
    /\ control' = [rev |-> control.rev + 1, paused |-> paused]
    /\ UNCHANGED <<policy, reviewed, fit, day>>

(* The source of a proposal is edited or disabled, or a claim of it locked        *)
SourceChanges(c) == Event /\ fit' = fit \ {c} /\ UNCHANGED <<policy, control, reviewed, day>>
NextDay == Event /\ day < Days /\ day' = day + 1 /\ UNCHANGED <<policy, control, reviewed, fit>>

Governance ==
    /\ \/ Simulate \/ NextDay
       \/ \E b \in BOOLEAN : (b # policy.on /\ SetEnabled(b)) \/ (b # control.paused /\ SetPaused(b))
       \/ \E cap \in Caps : Revise(cap)
       \/ \E c \in fit : SourceChanges(c)
    /\ UNCHANGED <<cand, call, kin, scheduleVars, run, runItem, runTurn, spent>>

-----------------------------------------------------------------------------
EnabledNow(authority) == policy.on /\ ~control.paused
(* check_run_authorization                                                        *)
Authorised(authority) == policy.on /\ ~control.paused /\ Authority = authority

UsedByRevision(d) == Cardinality({s \in spent : s.day = d /\ grant[s.run][1] = policy.rev})
Used(d) == Cardinality({s \in spent : s.day = d})

(* tick: without a run to go on with, the policy is evaluated when it is due      *)
LeaseDue ==
    /\ runTurn = PolicyRuns!Rest /\ job = NoJob
    /\ ~control.paused /\ policy.on /\ lease \in {"none", "past"}
    /\ \A r \in Runs : run[r] \in {"none", "COMPLETE"}
    /\ lease' = "held" /\ job' = [NoJob EXCEPT !.at = "leased", !.auth = Authority]
    /\ UNCHANGED <<governanceVars, planned, grant>>

(* Its time is looked at when the plan is finished, or after a restart            *)
LeaseLapses ==
    /\ lease = "held" /\ (job = NoJob \/ (job.at = "read" /\ job.read = {})) /\ lease' = "past"
    /\ UNCHANGED <<governanceVars, job, planned, grant>>

ScheduleFails == lease' = (IF lease = "held" THEN "none" ELSE lease) /\ job' = NoJob

(* simulate: the policy, the control, the quota and the selection, then each item *)
SimulateStart ==
    /\ job.at = "leased"
    /\ IF policy.rev # job.auth[1] THEN ScheduleFails
       ELSE /\ job' = [job EXCEPT !.at = "read", !.saw = Authority, !.used = Used(day), !.cap = policy.cap,
                                  !.read = {c \in Candidates : cand[c].status = "PENDING_REVIEW"}]
            /\ UNCHANGED lease
    /\ UNCHANGED <<governanceVars, planned, grant>>

(* An item that cannot be applied now, its note busy or gone, counts as an event  *)
SimulateItem ==
    /\ job.at = "read" /\ job.read # {}
    /\ LET c == Min(job.read)
       IN  \E ready \in BOOLEAN :
            /\ IF ready THEN UNCHANGED events ELSE Event
            /\ job' = [job EXCEPT !.read = @ \ {c}, !.seen = @ \cup
                {[c |-> c, rev |-> cand[c].rev,
                  eligible |-> ready /\ cand[c].status = "PENDING_REVIEW" /\ Free(c) /\ c \in fit]}]
    /\ UNCHANGED <<governanceVars, lease, planned, grant>>

(* The first ones, up to the limits of the run and of the day                     *)
WithinLimits(seen) ==
    {[i EXCEPT !.eligible = @ /\ Cardinality({j \in seen : j.eligible /\ j.c < i.c})
                                    < Min({PerRun} \cup {d \in 0..job.cap : d + job.used = job.cap})] : i \in seen}

Planned == WithinLimits(PolicyRuns!WithoutDependent(job.seen))
(* The plans of another day or authority are never met again                      *)
Fingerprint(items) == [day |-> day, auth |-> Authority, used |-> job.used, items |-> items]
StillMet == {f \in planned : f.day = day /\ f.auth = Authority}

(* finish: one transaction stores the simulation, the run and the schedule        *)
ScheduleFinish ==
    /\ job.at = "read" /\ job.read = {}
    /\ IF lease # "held" \/ ~Authorised(job.auth) \/ job.saw # job.auth
       THEN ScheduleFails /\ UNCHANGED <<planned, grant, run, runItem>>
       ELSE /\ lease' = "none" /\ job' = NoJob
            /\ planned' = StillMet \cup {Fingerprint(Planned)}
            /\ IF Fingerprint(Planned) \in planned \/ \A i \in Planned : ~i.eligible
               THEN UNCHANGED <<grant, run, runItem>>
               ELSE \E r \in Runs :
                    /\ run[r] = "none" /\ \A s \in Runs : s < r => run[s] # "none"
                    /\ run' = [run EXCEPT ![r] = "READY"]
                    /\ grant' = [grant EXCEPT ![r] = job.auth]
                    /\ runItem' = [runItem EXCEPT ![r] = PolicyRuns!Items(Planned)]
    /\ UNCHANGED governanceVars

EvaluationFails ==
    /\ job # NoJob /\ Event
    /\ ScheduleFails /\ UNCHANGED <<governanceVars, planned, grant>>

Scheduling ==
    /\ \/ (LeaseDue \/ LeaseLapses \/ SimulateStart) /\ UNCHANGED <<run, runItem, events>>
       \/ (SimulateItem \/ EvaluationFails) /\ UNCHANGED <<run, runItem>>
       \/ ScheduleFinish /\ UNCHANGED events
    /\ UNCHANGED <<cand, call, kin, runTurn, spent>>

-----------------------------------------------------------------------------
(* reserve_policy_application, inside the transaction of the intention            *)
HasRoom(r) == Cardinality({s \in spent : s.run = r}) < PerRun /\ Used(day) < policy.cap
PolicyAllows(r, c) ==
    /\ PolicyRuns!ItemStands /\ Authorised(grant[r]) /\ c \in fit
    /\ HasRoom(r)
    /\ \A s \in spent : ~(s.c = c /\ s.rev = cand[c].rev)

PolicyIntends ==
    LET r == runTurn.of
        c == runTurn.c
        allowed == PolicyAllows(r, c)
    IN  /\ Intend("policies", allowed, "denied")
        /\ spent' = IF call'["policies"].at = "intent"
                    THEN spent \cup {[run |-> r, c |-> c, rev |-> cand[c].rev, day |-> day]} ELSE spent
        /\ UNCHANGED <<governanceVars, scheduleVars, run, runItem, runTurn>>

PolicyRunner ==
    \/ PolicyIntends
    \/ job = NoJob /\ PolicyRuns!Running /\ UNCHANGED <<governanceVars, scheduleVars, spent>>
    \/ Applying("policies") /\ UNCHANGED policyVars
RunBreaks == PolicyRuns!PlanBreaks /\ UNCHANGED <<governanceVars, scheduleVars, spent>>

RecoverPolicies ==
    /\ PolicyRuns!RecoverPlans /\ job' = NoJob
    /\ UNCHANGED <<governanceVars, lease, planned, grant, spent>>
PoliciesNext == PolicyRunner \/ RunBreaks \/ Scheduling \/ Governance
=============================================================================
