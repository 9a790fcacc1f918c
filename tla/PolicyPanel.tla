----------------------------- MODULE PolicyPanel -----------------------------
(***************************************************************************)
(* The panel of the policies in the window: it shows one policy, one       *)
(* simulation and the control, sends each order to a thread of its own and *)
(* takes the answers from a queue that is looked at every 200 ms, also     *)
(* while a question is open on top. The tables are shared with the API,    *)
(* which changes them at any moment.                                       *)
(*                                                                         *)
(* A page of a simulation has room for one proposal, and the key of a      *)
(* request is also the number of its simulation.                           *)
(***************************************************************************)
EXTENDS Naturals, FiniteSets

CONSTANTS
    PagedProposals,     \* candidates 1..n, in the order a simulation takes them
    MaxPolicies,        \* bound: policies
    MaxKeys,            \* bound: simulations asked for
    MaxDecisions,       \* bound: revisions of a policy, and of the control
    MaxTurns,           \* bound: changes by the API, and operations that fail or lose their answer
    NoPolicy, NoSim, NoAnswer

ASSUME PolicyPanelAssumption ==
    {PagedProposals, MaxPolicies, MaxKeys, MaxDecisions, MaxTurns} \subseteq Nat

VARIABLES
    table,      \* automation_policies: revision, state_revision and enabled, by policy
    switch,     \* automation_control: revision and paused
    sims,       \* automation_simulations and _requests, by key: what was asked and what it saw
    panel,      \* policy, simulation, control, review_selection, dirty, creating, cursor and key
    question,   \* the dialog that is open, with what the panel held when it was opened
    order,      \* busy: the operation in flight and its answer
    reading,    \* control_busy: the same for the control
    used        \* keys handed out, and the bound

panelVars == <<table, switch, sims, panel, question, order, reading, used>>

Policies == 1..MaxPolicies
Keys == 1..MaxKeys
(* simulate_page with limit 1, or the proposal chosen in the review             *)
Items(cursor, selection) == IF selection # 0 THEN {selection}
                            ELSE IF cursor < PagedProposals THEN {cursor + 1} ELSE {}

NoDialog == [ask |-> "none"]
Quiet == [at |-> "idle"]
EmptyPanel == [policy |-> NoPolicy, sim |-> NoSim, control |-> NoAnswer, selection |-> 0,
               dirty |-> FALSE, creating |-> FALSE, cursor |-> 0, key |-> 0,
               made |-> 0]      \* the policy that _create_key has made already
NewRow == [rev |-> 1, state |-> 1, on |-> FALSE]

PanelInit ==
    /\ table = [p \in {1} |-> NewRow]
    /\ switch = [rev |-> 1, paused |-> FALSE]
    /\ sims = [k \in Keys |-> NoSim]
    /\ panel = EmptyPanel /\ question = NoDialog
    /\ order = Quiet /\ reading = Quiet
    /\ used = [keys |-> 0, turns |-> 0]

Row(p) == [id |-> p, rev |-> table[p].rev, state |-> table[p].state, on |-> table[p].on]

-----------------------------------------------------------------------------
(* The tables: update, set_enabled and set_paused, each one transaction           *)
Revised(p) == [table EXCEPT ![p] = [rev |-> @.rev + 1, state |-> @.state + 1, on |-> FALSE]]
Enabled(p, on) == [table EXCEPT ![p].state = @ + 1, ![p].on = on]
Expected(row) == table[row.id].rev = row.rev /\ table[row.id].state = row.state
Switched(paused) == [rev |-> switch.rev + 1, paused |-> paused]

WithinBounds == switch.rev <= MaxDecisions /\ \A p \in DOMAIN table : table[p].state <= MaxDecisions
MayDecide(row) == row.state < MaxDecisions
PanelMishap == used.turns < MaxTurns /\ used' = [used EXCEPT !.turns = @ + 1]

(* set_enabled accepts only the simulation of exactly what is in force            *)
Reviewed(row, k) ==
    /\ k # NoSim /\ sims[k] # NoSim
    /\ sims[k].policy = row.id /\ sims[k].rev = row.rev /\ sims[k].state = row.state
    /\ sims[k].control = switch.rev

ApiChanges ==
    /\ PanelMishap
    /\ \/ \E p \in DOMAIN table :
            /\ table' \in {Revised(p), Enabled(p, ~table[p].on)}
            /\ UNCHANGED switch
       \/ switch' = Switched(~switch.paused) /\ UNCHANGED table
    /\ WithinBounds'
    /\ UNCHANGED <<sims, panel, question, order, reading>>

-----------------------------------------------------------------------------
(* What the person does: nothing while an operation is in flight or a question    *)
(* is open                                                                        *)
NothingOpen == order = Quiet /\ question = NoDialog
Sends(kind, what) == order' = [at |-> "run", kind |-> kind, what |-> what]
Brings(kind, what) == order' = [at |-> "back", kind |-> kind, what |-> what]
Forgotten(view) == [view EXCEPT !.sim = NoSim, !.cursor = 0, !.key = 0]

ChoosePolicy(p) ==                    \* _choose and _reload_policy; the changes are discarded
    /\ NothingOpen /\ p \in DOMAIN table
    /\ Sends("get", [policy |-> p])
    /\ UNCHANGED <<table, switch, sims, panel, question, reading, used>>
NewPolicy ==
    /\ NothingOpen
    /\ panel' = [Forgotten(panel) EXCEPT !.policy = NoPolicy, !.creating = TRUE, !.dirty = TRUE,
                                           !.made = 0]
    /\ UNCHANGED <<table, switch, sims, question, order, reading, used>>
EditPolicy ==                         \* _edited
    /\ NothingOpen /\ (panel.policy # NoPolicy \/ panel.creating)
    /\ panel' = [Forgotten(panel) EXCEPT !.dirty = TRUE]
    /\ UNCHANGED <<table, switch, sims, question, order, reading, used>>
SavePolicy ==
    /\ NothingOpen /\ panel.dirty
    /\ IF panel.policy # NoPolicy THEN MayDecide(panel.policy) /\ Sends("update", [row |-> panel.policy])
       ELSE (Cardinality(DOMAIN table) < MaxPolicies \/ panel.made # 0) /\ Sends("create", [row |-> NoPolicy])
    /\ UNCHANGED <<table, switch, sims, panel, question, reading, used>>
PolicyPage ==                         \* _policy_page: the list that clears what is shown
    /\ NothingOpen /\ Brings("page", [sim |-> NoSim])
    /\ UNCHANGED <<table, switch, sims, panel, question, reading, used>>
ReviewCandidate(c) ==
    /\ NothingOpen
    /\ panel' = [Forgotten(panel) EXCEPT !.selection = c]
    /\ UNCHANGED <<table, switch, sims, question, order, reading, used>>
ResetSimulationKey ==           \* the size of the page changes, also while an operation is in flight
    /\ question = NoDialog /\ panel.key # 0
    /\ panel' = [panel EXCEPT !.key = 0]
    /\ UNCHANGED <<table, switch, sims, question, order, reading, used>>
History(k) ==                   \* _audit_detail on a simulation of the policy shown
    /\ NothingOpen /\ panel.policy # NoPolicy /\ sims[k] # NoSim /\ sims[k].policy = panel.policy.id
    /\ Brings("history", [sim |-> k])
    /\ UNCHANGED <<table, switch, sims, panel, question, reading, used>>

(* _simulate: the key of a request that failed is used again, unless it is for    *)
(* another page                                                                   *)
Asked(view) ==
    LET k == IF view.key # 0 THEN view.key ELSE used.keys + 1
    IN  /\ k \in Keys
        /\ used' = [used EXCEPT !.keys = IF k > @ THEN k ELSE @]
        /\ panel' = [view EXCEPT !.key = k]
        /\ Sends("simulate", [key |-> k, policy |-> view.policy.id, rev |-> view.policy.rev,
                               selection |-> view.selection, cursor |-> IF view.selection # 0 THEN 0 ELSE view.cursor])
(* Defect: the key of a page that failed is used for the next one                 *)
NextPageSameKey(view, last) == [view EXCEPT !.cursor = last]
NextPage(view, last) == IF last # view.cursor THEN [view EXCEPT !.cursor = last, !.key = 0] ELSE view
FirstPage(view) == IF view.cursor # 0 THEN [view EXCEPT !.cursor = 0, !.key = 0] ELSE view
SimulateFirst ==
    /\ NothingOpen /\ panel.policy # NoPolicy /\ ~panel.dirty
    /\ Asked(IF panel.selection # 0 THEN panel ELSE FirstPage(panel))
    /\ UNCHANGED <<table, switch, sims, question, reading>>
SimulateNext ==
    /\ NothingOpen
    /\ IF panel.selection # 0
       THEN panel' = [Forgotten(panel) EXCEPT !.selection = 0] /\ UNCHANGED <<order, used>>
       ELSE /\ panel.policy # NoPolicy /\ ~panel.dirty /\ panel.sim # NoSim
            /\ \E last \in Items(sims[panel.sim].cursor, sims[panel.sim].selection) : Asked(NextPage(panel, last))
    /\ UNCHANGED <<table, switch, sims, question, reading>>

(* simulation_matches: what must be on the screen to authorise                    *)
SelectionMatches == panel.selection = 0 \/ Items(sims[panel.sim].cursor, sims[panel.sim].selection) = {panel.selection}
SimulationMatches ==
    /\ ~panel.dirty /\ panel.policy # NoPolicy /\ panel.sim # NoSim /\ SelectionMatches
    /\ LET s == sims[panel.sim]
       IN  /\ s.policy = panel.policy.id /\ s.rev = panel.policy.rev /\ s.state = panel.policy.state
           /\ panel.control # NoAnswer /\ s.control = panel.control.rev
Activation(on) ==
    /\ NothingOpen /\ panel.policy # NoPolicy /\ ~panel.dirty /\ panel.policy.on = ~on /\ MayDecide(panel.policy)
    /\ on => SimulationMatches
    /\ question' = [ask |-> IF on THEN "enable" ELSE "disable", row |-> panel.policy, sim |-> panel.sim]
    /\ UNCHANGED <<table, switch, sims, panel, order, reading, used>>
PauseControl ==
    /\ question = NoDialog /\ reading = Quiet /\ panel.control # NoAnswer /\ panel.control.rev < MaxDecisions
    /\ question' = [ask |-> "pause", row |-> panel.control]
    /\ UNCHANGED <<table, switch, sims, panel, order, reading, used>>
ConfirmsDialog ==                     \* with a reason; a pause is dropped if the control is being read
    /\ question # NoDialog /\ question' = NoDialog
    /\ IF question.ask = "pause"
       THEN /\ reading' = IF reading = Quiet THEN [at |-> "run", what |-> question.row] ELSE reading
            /\ UNCHANGED order
       ELSE Sends(question.ask, question) /\ UNCHANGED reading
    /\ UNCHANGED <<table, switch, sims, panel, used>>
CancelsDialog ==
    /\ question # NoDialog /\ question' = NoDialog
    /\ UNCHANGED <<table, switch, sims, panel, order, reading, used>>

PersonAtPanel ==
    \/ \E p \in Policies : ChoosePolicy(p)
    \/ \E c \in 1..PagedProposals : ReviewCandidate(c)
    \/ \E k \in Keys : History(k)
    \/ NewPolicy \/ EditPolicy \/ SavePolicy \/ PolicyPage \/ ResetSimulationKey \/ SimulateFirst \/ SimulateNext
    \/ (\E on \in BOOLEAN : Activation(on)) \/ PauseControl \/ ConfirmsDialog \/ CancelsDialog

-----------------------------------------------------------------------------
(* The threads: an operation is done, or refused; or it fails at any step, with   *)
(* its transaction done or not. What changed a policy reads it again to tell it   *)
Doing(kind) == order.at = "run" /\ order.kind = kind
Answers(value) == Brings(order.kind, value)
Told(p) == Sends("get", [policy |-> p])

ReadPolicy ==
    /\ Doing("get") /\ Answers([row |-> Row(order.what.policy)])
    /\ UNCHANGED <<table, switch, sims, panel, question, reading, used>>
UpdatePolicy ==
    /\ Doing("update")
    /\ IF Expected(order.what.row) THEN table' = Revised(order.what.row.id) /\ Told(order.what.row.id)
       ELSE Answers(NoAnswer) /\ UNCHANGED table
    /\ UNCHANGED <<switch, sims, panel, question, reading, used>>
CreatePolicy ==                       \* a key that has its policy already gives that one, or a refusal
    /\ Doing("create")
    /\ LET p == Cardinality(DOMAIN table) + 1
       IN  \/ /\ panel.made = 0 /\ Told(p)
              /\ table' = [q \in DOMAIN table \cup {p} |-> IF q = p THEN NewRow ELSE table[q]]
              /\ panel' = [panel EXCEPT !.made = p]
           \/ /\ panel.made # 0 /\ (Told(panel.made) \/ Answers(NoAnswer))
              /\ UNCHANGED <<table, panel>>
    /\ UNCHANGED <<switch, sims, question, reading, used>>
StoreEnabled ==
    /\ Doing("enable") \/ Doing("disable")
    /\ LET row == order.what.row
           on == order.kind = "enable"
       IN  IF Expected(row) /\ (on => Reviewed(row, order.what.sim))
           THEN table' = Enabled(row.id, on) /\ Told(row.id)
           ELSE Answers(NoAnswer) /\ UNCHANGED table
    /\ UNCHANGED <<switch, sims, panel, question, reading, used>>

(* simulate: the plan is computed from one reading and saved in another           *)
(* transaction, unless the key has its simulation already                         *)
SameRequest(a) == LET s == sims[a.key]
                  IN  s.policy = a.policy /\ s.rev = a.rev /\ s.selection = a.selection /\ s.cursor = a.cursor
ReadSimulation ==
    /\ Doing("simulate")
    /\ LET a == order.what
       IN  IF sims[a.key] # NoSim THEN Answers(IF SameRequest(a) THEN [sim |-> a.key] ELSE NoAnswer)
           ELSE IF table[a.policy].rev # a.rev THEN Answers(NoAnswer)
           ELSE order' = [order EXCEPT !.at = "save",
                              !.what = [asked |-> a, state |-> table[a.policy].state, control |-> switch.rev]]
    /\ UNCHANGED <<table, switch, sims, panel, question, reading, used>>
InForce(a) == table[a.policy].rev = a.rev /\ table[a.policy].state = order.what.state
SaveSimulation ==               \* save: refused if the policy or the control changed meanwhile
    /\ order.at = "save"
    /\ LET a == order.what.asked
       IN  IF InForce(a) /\ switch.rev = order.what.control
           THEN /\ sims' = [sims EXCEPT ![a.key] = [policy |-> a.policy, rev |-> a.rev,
                    selection |-> a.selection, cursor |-> a.cursor,
                    state |-> order.what.state, control |-> order.what.control]]
                /\ Sends("simulate", a)
           ELSE Answers(NoAnswer) /\ UNCHANGED sims
    /\ UNCHANGED <<table, switch, panel, question, reading, used>>
ControlBack(value) == reading' = [at |-> "back", what |-> value]
StorePaused ==
    /\ reading.at = "run"
    /\ IF reading.what.rev = switch.rev
       THEN switch' = Switched(~reading.what.paused) /\ ControlBack(switch')
       ELSE ControlBack(NoAnswer) /\ UNCHANGED switch
    /\ UNCHANGED <<table, sims, panel, question, order, used>>

OperationFails ==
    /\ PanelMishap
    /\ \/ order # Quiet /\ Answers(NoAnswer) /\ UNCHANGED reading
       \/ reading # Quiet /\ ControlBack(NoAnswer) /\ UNCHANGED order
    /\ UNCHANGED <<table, switch, sims, panel, question>>

OrderThread == ReadPolicy \/ UpdatePolicy \/ CreatePolicy \/ StoreEnabled \/ ReadSimulation \/ SaveSimulation

-----------------------------------------------------------------------------
(* _poll and _receive, and the reading of the control every 5 seconds             *)
Received(kind, value) ==
    CASE kind = "get" ->
            [Forgotten(panel) EXCEPT !.policy = value.row, !.creating = FALSE, !.dirty = FALSE, !.made = 0]
      [] kind = "simulate" -> [panel EXCEPT !.sim = value.sim, !.key = 0]
      [] kind = "history" -> [panel EXCEPT !.sim = value.sim]
      [] kind = "page" -> [Forgotten(panel) EXCEPT !.policy = NoPolicy, !.dirty = FALSE, !.creating = FALSE]
PollOrder ==
    /\ order.at = "back" /\ order' = Quiet
    /\ panel' = IF order.what = NoAnswer THEN panel ELSE Received(order.kind, order.what)
    /\ UNCHANGED <<table, switch, sims, question, reading, used>>
PollControl ==
    /\ reading.at = "back" /\ reading' = Quiet
    /\ panel' = IF reading.what = NoAnswer THEN panel ELSE [panel EXCEPT !.control = reading.what]
    /\ UNCHANGED <<table, switch, sims, question, order, used>>
RefreshControl ==               \* a reading that would show nothing new is left out
    /\ reading = Quiet /\ panel.control # switch /\ ControlBack(switch)
    /\ UNCHANGED <<table, switch, sims, panel, question, order, used>>

PanelPolls == PollOrder \/ PollControl
PanelNext == ApiChanges \/ PersonAtPanel \/ OrderThread \/ StorePaused \/ OperationFails \/ PanelPolls \/ RefreshControl
=============================================================================
