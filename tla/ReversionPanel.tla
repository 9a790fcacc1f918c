---------------------------- MODULE ReversionPanel ----------------------------
(***************************************************************************)
(* The panel of the reversions in the window: the person chooses a         *)
(* publication, prepares or looks up a plan of reversion, and confirms the *)
(* one that is shown. One order at a time is in flight; when its answer is *)
(* lost the panel does not know what became of it. The API prepares plans  *)
(* and confirms its own over the same tables.                              *)
(***************************************************************************)
EXTENDS Naturals

CONSTANTS
    Publications,       \* candidates that are APPLIED
    MaxPlans,           \* bound: maintenance_reversions
    MaxReversionLosses, \* bound: operations that fail, or whose answer is lost
    NoPublication, NoPlan, NoReply

ASSUME ReversionPanelAssumption == {MaxPlans, MaxReversionLosses} \subseteq Nat

VARIABLES
    plans,      \* maintenance_reversions: candidate, owner and status, in their order
    screen,     \* application, rows, record, history_rows and uncertain
    sent,       \* busy: the order in flight, and its answer
    losses      \* the bound used

reversionVars == <<plans, screen, sent, losses>>

Plans == 1..MaxPlans
Unmade == [of |-> NoPublication, owner |-> "none", status |-> "PREVIEW"]
Made == {r \in Plans : plans[r] # Unmade}
Unsent == [at |-> "idle"]
BareScreen == [application |-> NoPublication, record |-> NoPlan, history |-> {}, uncertain |-> FALSE,
               rows |-> {}, reverted |-> {},    \* the page, and those with a reversion_status
               made |-> 0]                      \* the plan that _preview_key has made already

ReversionInit ==
    /\ plans = [r \in Plans |-> Unmade]
    /\ screen = BareScreen /\ sent = Unsent /\ losses = 0

-----------------------------------------------------------------------------
(* The tables. publications() tells which are reverted, or being reverted         *)
Reverted(p) == \E r \in Made : plans[r].of = p /\ plans[r].status \in {"APPLYING", "APPLIED"}
NextPlan == CHOOSE r \in 1..(MaxPlans + 1) : r \notin Made /\ \A q \in 1..(r - 1) : q \in Made
StoresPlan(p, owner) ==           \* create, after the same snapshot as inspect
    /\ ~Reverted(p)
    /\ plans' = [plans EXCEPT ![NextPlan] = [of |-> p, owner |-> owner, status |-> "PREVIEW"]]
Becomes(r, status) == plans' = [plans EXCEPT ![r].status = status]

ApiReverts ==
    /\ \/ \E p \in Publications : NextPlan < MaxPlans /\ StoresPlan(p, "api")   \* the bound keeps one for the panel
       \/ \E r \in Made : /\ plans[r].owner = "api"
                          /\ \/ plans[r].status = "PREVIEW" /\ ~Reverted(plans[r].of) /\ Becomes(r, "APPLYING")
                             \/ plans[r].status = "APPLYING" /\ \E s \in {"APPLIED", "CONFLICT"} : Becomes(r, s)
    /\ UNCHANGED <<screen, sent, losses>>

-----------------------------------------------------------------------------
(* The person, and the readings, each of one moment of the tables                 *)
Unbusy == sent = Unsent
Asks(kind, what) == sent' = [at |-> "run", kind |-> kind, what |-> what]
Tells(kind, what) == sent' = [at |-> "back", kind |-> kind, what |-> what]
NoRecord(view) == [view EXCEPT !.record = NoPlan, !.uncertain = FALSE, !.made = 0]
Cleared(view) == [NoRecord(view) EXCEPT !.history = {}]
RecordOf(r) == [plan |-> r, of |-> plans[r].of, owner |-> plans[r].owner, status |-> plans[r].status]

ListOf(rows) == [rows |-> rows, reverted |-> {p \in rows : Reverted(p)}]
LoadPublications(rows) ==                   \* _load and _page
    /\ Unbusy
    /\ Tells("publications", ListOf(rows))
    /\ UNCHANGED <<plans, screen, losses>>
LoadHistory ==
    /\ Tells("history", [of |-> screen'.application,
                         plans |-> {r \in Made : plans[r].of = screen'.application}])
SelectPublication(p) ==
    /\ Unbusy /\ p \in screen.rows /\ p # screen.application
    /\ screen' = [Cleared(screen) EXCEPT !.application = p]
    /\ LoadHistory /\ UNCHANGED <<plans, losses>>
ReadHistory ==
    /\ Unbusy /\ screen.application # NoPublication
    /\ UNCHANGED screen /\ LoadHistory /\ UNCHANGED <<plans, losses>>

(* _submit leaves the record in doubt until its answer comes                      *)
InDoubt == [screen EXCEPT !.uncertain = (screen.record # NoPlan) \/ @]
ReadRecord(r) ==                \* _choose_history and _reload
    /\ Unbusy /\ (r \in screen.history \/ (screen.record # NoPlan /\ screen.record.plan = r))
    /\ screen' = InDoubt /\ Tells("record", RecordOf(r))
    /\ UNCHANGED <<plans, losses>>
PreparePreview ==
    /\ Unbusy /\ screen.application # NoPublication /\ screen.application \notin screen.reverted
    /\ screen.made # 0 \/ NextPlan \in Plans
    /\ screen' = InDoubt /\ Asks("preview", [of |-> screen.application])
    /\ UNCHANGED <<plans, losses>>

Confirmable ==
    /\ screen.record # NoPlan /\ ~screen.uncertain
    /\ screen.record.of = screen.application
    /\ screen.record.owner = "ui" /\ screen.record.status = "PREVIEW"
ConfirmReversion ==                      \* with a reason
    /\ Unbusy /\ Confirmable
    /\ Asks("confirm", screen.record)
    /\ UNCHANGED <<plans, screen, losses>>

-----------------------------------------------------------------------------
(* The thread of the order                                                        *)
Running(kind) == sent.at = "run" /\ sent.kind = kind
MakePreview ==                      \* a key that has its plan already gives that one
    /\ Running("preview")
    /\ IF screen.made # 0 THEN Tells("record", RecordOf(screen.made)) /\ UNCHANGED <<plans, screen>>
       ELSE IF Reverted(sent.what.of) THEN Tells("record", NoReply) /\ UNCHANGED <<plans, screen>>
       ELSE /\ StoresPlan(sent.what.of, "ui")
            /\ screen' = [screen EXCEPT !.made = NextPlan] /\ UNCHANGED sent
    /\ UNCHANGED losses
BeginReversion ==
    /\ Running("confirm")
    /\ LET r == sent.what.plan
       IN  IF plans[r].status = "PREVIEW" /\ ~Reverted(plans[r].of)
           THEN Becomes(r, "APPLYING") /\ Asks("apply", sent.what)
           ELSE Tells("confirmed", NoReply) /\ UNCHANGED plans
    /\ UNCHANGED <<screen, losses>>
ApplyReversion ==                        \* without Obsidian the reversion waits for the next start
    /\ Running("apply")
    /\ LET r == sent.what.plan
       IN  \/ Becomes(r, "APPLIED") /\ Tells("confirmed", [RecordOf(r) EXCEPT !.status = "APPLIED"])
           \/ Becomes(r, "CONFLICT") /\ Tells("confirmed", NoReply)
           \/ Tells("confirmed", NoReply) /\ UNCHANGED plans
    /\ UNCHANGED <<screen, losses>>
LosesAnswer ==
    /\ sent # Unsent /\ losses < MaxReversionLosses /\ losses' = losses + 1
    /\ Tells(CASE sent.kind = "preview" -> "record" [] sent.kind \in {"confirm", "apply"} -> "confirmed"
               [] OTHER -> sent.kind, NoReply)
    /\ UNCHANGED <<plans, screen>>

-----------------------------------------------------------------------------
(* _poll and _receive                                                             *)
Listed(view, list) ==
    LET shown == [view EXCEPT !.rows = list.rows, !.reverted = list.reverted]
    IN  IF view.application \in list.rows THEN shown ELSE [Cleared(shown) EXCEPT !.application = NoPublication]
TakesIn(kind, what) ==
    IF kind = "publications" THEN Listed(screen, what)
    ELSE IF what.of # screen.application THEN screen
    ELSE IF kind = "history" THEN [screen EXCEPT !.history = what.plans]
    ELSE [screen EXCEPT !.record = what, !.uncertain = FALSE, !.made = 0]
(* Defect: a confirmation whose answer was lost leaves the button enabled         *)
FailedForgotten(view) == view
AfterFailure(view) == [view EXCEPT !.uncertain = @ \/ sent.kind = "confirmed"]
ReceiveAnswer ==
    /\ sent.at = "back"
    /\ IF sent.what = NoReply
       THEN /\ screen' = AfterFailure(screen)
            /\ sent' = Unsent
       ELSE /\ screen' = TakesIn(sent.kind, sent.what)
            /\ IF sent.kind = "confirmed" /\ sent.what.of = screen.application   \* _load
               THEN Tells("publications", ListOf(screen.rows))
               ELSE sent' = Unsent
    /\ UNCHANGED <<plans, losses>>

ReversionPerson ==
    \/ \E rows \in SUBSET Publications : LoadPublications(rows)
    \/ \E p \in Publications : SelectPublication(p)
    \/ \E r \in Plans : ReadRecord(r)
    \/ ReadHistory \/ PreparePreview \/ ConfirmReversion
ReversionThread == MakePreview \/ BeginReversion \/ ApplyReversion
ReversionNext == ApiReverts \/ ReversionPerson \/ ReversionThread \/ LosesAnswer \/ ReceiveAnswer
=============================================================================
