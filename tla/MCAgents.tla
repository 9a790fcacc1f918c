------------------------------- MODULE MCAgents -------------------------------
(***************************************************************************)
(* The workers around the proposals: the queue of analyses that makes them *)
(* and the two that apply what nobody approves one by one, each with the   *)
(* person and in a scene of its own: all at once would only multiply the   *)
(* states, for what they share is the status of a proposal, which the      *)
(* person of each scene changes in every way the others would. Four scenes *)
(* more are of the panels and the dialogs of the window from which the     *)
(* person decides, with the tables as they and the API see them.           *)
(***************************************************************************)
EXTENDS ReviewBatches, AutomationPolicies, SemanticJobs, PolicyPanel, ReversionPanel, ReviewPage

VARIABLE scene

(* review_batch_id and automation_run_id are two columns of a proposal            *)
ASSUME AgentsAssumption == Batches \cap Runs = {}

Both == {<<1, 2>>, <<2, 1>>}
MCKinships == {[related |-> {}, rivals |-> {}], [related |-> Both, rivals |-> Both]}

panelScenes == <<panelVars, reversionVars, reviewVars>>
vars == <<proposalVars, batchVars, policyVars, jobVars, panelScenes, scene>>
Init ==     \* related proposals only in the batches: a quota needs two that can be applied
    /\ ProposalsInit /\ BatchesInit /\ PoliciesInit /\ JobsInit
    /\ PanelInit /\ ReversionInit /\ ReviewInit
    /\ scene \in {"batches", "policies", "jobs", "policy panel", "reversion panel", "review", "batch dialog"}
    /\ scene # "batches" => kin.related = {}
    /\ scene # "jobs" => jobs[Extraction(1)].status = "none"
    /\ scene # "batch dialog" => lots = <<>>
    /\ surprises = 1 <=> scene = "batch dialog"     \* one surprise less

Scene(s, others) == scene = s /\ UNCHANGED <<scene, others>>
BatchScene == Scene("batches", <<policyVars, jobVars, panelScenes>>)
PolicyScene == Scene("policies", <<batchVars, jobVars, panelScenes>>)
JobScene == Scene("jobs", <<proposalVars, batchVars, policyVars, panelScenes>>)
PanelScene == Scene("policy panel", <<proposalVars, batchVars, policyVars, jobVars, reversionVars, reviewVars>>)
ReversionScene == Scene("reversion panel", <<proposalVars, batchVars, policyVars, jobVars, panelVars, reviewVars>>)
ReviewScene(s) == Scene(s, <<proposalVars, batchVars, policyVars, jobVars, panelVars, reversionVars>>)

Batching == BatchesNext \/ (PersonNext /\ UNCHANGED batchVars) \/ (RecoverProposals /\ RecoverBatches)
Automating == PoliciesNext \/ (PersonReviews /\ UNCHANGED policyVars) \/ (RecoverProposals /\ RecoverPolicies)
DialogIsOpen == \E d \in Dialogs : dialogs[d].at # "unopened"
Dialoguing ==       \* a dialog takes what it needs of the page when it is opened
    \/ ~DialogIsOpen /\ PageOfReviews /\ UNCHANGED <<asking, surprises>>
    \/ DialogIsOpen /\ OthersStep
    \/ \E d \in Dialogs : DialogStep(d)
Next ==
    \/ BatchScene /\ Batching
    \/ PolicyScene /\ Automating
    \/ JobScene /\ JobsNext
    \/ PanelScene /\ PanelNext
    \/ ReversionScene /\ ReversionNext
    \/ ReviewScene("review") /\ (PageOfReviews \/ OthersStep)
    \/ ReviewScene("batch dialog") /\ Dialoguing

Spec == Init /\ [][Next]_vars
FairSpec == Spec /\ WF_vars((BatchScene /\ ReviewWorker) \/ (JobScene /\ Analysing))

-----------------------------------------------------------------------------
TypeOK == ProposalsTypeOK /\ Review!PlansTypeOK /\ PolicyRuns!PlansTypeOK /\ JobsTypeOK

(* The receipt of an item says APPLIED exactly when this plan applied it, at the  *)
(* revision that was shown, whatever crashed in between (finish_item, recover).   *)
ReceiptsTellTheTruth ==
    /\ \A b \in Batches, c \in Candidates : Review!ReceiptTrue(b, c)
    /\ \A r \in Runs, c \in Candidates : PolicyRuns!ReceiptTrue(r, c)

(* A policy starts an application only while it is enabled, unpaused and exactly  *)
(* as it was when the run was planned, within the sources it admits               *)
(* (reserve_policy_application; Automation_Governance: "impide iniciar nuevas     *)
(* intenciones").                                                                 *)
Starts(c) == cand[c].status # "APPLYING" /\ cand'[c].status = "APPLYING" /\ cand'[c].by \in Runs
AutomaticStepIsAuthorised == [][\A c \in Candidates : Starts(c) =>
    /\ policy.on /\ ~control.paused /\ grant[cand'[c].by] = Authority
    /\ c \in fit]_vars

(* Every application of a run was charged, once, and no day goes over its quota,  *)
(* not even by revising the policy (automation_reservations).                     *)
QuotaCoversApplications ==
    /\ \A c \in Candidates : cand[c].by \in Runs =>
        Cardinality({s \in spent : s.run = cand[c].by /\ s.c = c /\ s.rev <= cand[c].rev}) = 1
    /\ \A d \in 0..Days : Cardinality({s \in spent : s.day = d}) <= Max(Caps)

(* An analysis that ended well was integrated whole, whatever died or failed in   *)
(* between: every claim of its answer has its row, and every proposal they made   *)
(* has asked for its comparison, once (process_job_result, complete_job;          *)
(* semantic_broker.py:80-86). Every table of the scenes keeps its type.           *)
AnalysisIsWhole ==
    /\ TypeOK
    /\ \A a \in Attempts : jobs[Extraction(a)].status = "SUCCESS" =>
        \A i \in jobs[Extraction(a)].found :
            LET c == <<i, jobs[Extraction(a)].text[i]>>
            IN  /\ claims[c] # "none"
                /\ i \in Related => proposal[c] # "none" /\ ComparisonAttempts(c) # {}
    /\ \A c \in Claims : Cardinality({j \in Jobs : j[1] = "COMPARE" /\ Of(j) = c /\ jobs[j].status \in Live}) <= 1

(* The answer of a comparison never changes what was decided while it was waited  *)
(* for: neither a proposal the person settled nor one an edition left in conflict *)
(* (process_job_result, record_comparison).                                       *)
DecisionsStand == [][worker' # worker /\ upsets' = upsets =>
    \A c \in Claims : proposal[c] \in {"PENDING_REVIEW", "REJECTED", "CONFLICT"} => proposal'[c] = proposal[c]]_vars

(* The analysis of the text in force leaves the claims of its answer in force     *)
(* (the manual, after an edition is adopted: "el nuevo análisis de la nota        *)
(* generará otra si sigue procediendo").                                          *)
AnalysisIsInForce == note.status = "PUBLISHED" => \A a \in Attempts :
    LET row == jobs[Extraction(a)]
    IN  row.status = "SUCCESS" /\ row.text = note.text => \A i \in row.found : claims[<<i, note.text[i]>>] = "ACTIVE"

(* What the person authorises or confirms is what was on the screen: a policy is  *)
(* enabled by the panel only after the simulation shown, of the policy and the    *)
(* control as they still are; a key is never used for two requests; and a         *)
(* reversion is confirmed once, on the record shown of the publication chosen     *)
(* (simulation_matches, _activation, _simulate, _confirm; set_enabled, begin). A  *)
(* proposal is rejected or edited at the revision of the row, and of the texts if *)
(* they could be read, that were there when the button was pressed; no refresh    *)
(* moves the selection to a proposal that was not in it (DESIGN.md: "no reasignar *)
(* acciones"); and a batch is confirmed only by a dialog that shows it as a draft *)
(* with something to apply (_reject_selected, _edit_selected_review,              *)
(* _refresh_reviews, ReviewBatchDialog).                                          *)
Enables(p) == ~table[p].on /\ table'[p].on /\ order # order'
Confirms(r) == plans[r].owner = "ui" /\ plans[r].status = "PREVIEW" /\ plans'[r].status = "APPLYING"
DecidesAsShown(c) ==
    /\ c = asking.row.c /\ pending[c].rev = asking.row.rev
    /\ asking.whole => asking.text = <<c, pending[c].rev>>
SelectionIsKept ==
    /\ listed'.chosen \subseteq listed.chosen
    /\ beside'.row # NoRow => beside'.row.c \in listed.chosen
ConfirmedAsShown(b) == \E d \in Dialogs :
    /\ dialogs[d].job = OrderOf("confirm", b) /\ dialogs[d].shown = [lot |-> b, status |-> "DRAFT"]
    /\ lots[b].eligible # {}
WindowDecidesOnWhatItShows == [][
    /\ asking' # asking => \A c \in Proposed : pending'[c] # pending[c] => DecidesAsShown(c)
    /\ scene = "review" /\ Refreshes /\ listed.started => SelectionIsKept
    /\ \A b \in DOMAIN lots : lots[b].status = "DRAFT" /\ lots'[b].status # "DRAFT" => ConfirmedAsShown(b)
    /\ \A p \in DOMAIN table : Enables(p) =>
        /\ panel.sim # NoSim /\ panel.policy = Row(p) /\ ~panel.dirty
        /\ sims[panel.sim].policy = p /\ sims[panel.sim].rev = table[p].rev
        /\ sims[panel.sim].state = table[p].state /\ sims[panel.sim].control = switch.rev
    /\ Doing("simulate") /\ sims[order.what.key] # NoSim => SameRequest(order.what)
    /\ Running("confirm") => plans[sent.what.plan].status = "PREVIEW"
    /\ \A r \in Made : Confirms(r) =>
        screen.record # NoPlan /\ screen.record.plan = r /\ screen.application = plans[r].of]_vars

(* A confirmed batch comes to an end, or waits for a new start (run_next), and    *)
(* the queue of analyses is emptied every time (dispatch_once, poll_once).        *)
WorkEnds == []<>(
    /\ \A b \in Batches : batch[b] \notin {"READY", "RUNNING"}
    /\ \A j \in Jobs : jobs[j].status \notin Live)
=============================================================================
