--------------------------- MODULE BrokerWorkflow ---------------------------
(***************************************************************************)
(* The life of a document from the local queue to its published note:      *)
(* captures, workflows and tasks in SQLite, the broker worker thread that  *)
(* plans, cancels, dispatches, polls and publishes, the commands a person  *)
(* gives from the desktop thread, a crash of the process with its startup  *)
(* recovery, and the external Broker that executes a task once per         *)
(* idempotency key.                                                        *)
(*                                                                         *)
(* One action is one SQLite transaction, together with the reads that the  *)
(* same thread does without an await or another transaction in between.    *)
(***************************************************************************)
EXTENDS Naturals, FiniteSets

CONSTANTS
    Captures,          \* documents accepted by the ingestion, already enriched
    LongDocs,          \* those that do not fit the context window: strategy "chunked"
    OwnNotes,          \* notes written by the person: published without the Broker
    Chunks,            \* the chunk steps of a long document
    MaxRevision,       \* bound: revisions of a document
    BackoffSteps,      \* len(backoff_seconds) of the dispatcher
    MaxInFlight,       \* settings.max_in_flight
    Failures,          \* the ways a task of the Broker may fail: see Outcomes
    ConsensusProfile,  \* the profile asks for consensus and allows falling back to single
    ReviewRequired,    \* the profile holds the result as a draft
    MaxCommands,       \* bound: commands of the person
    MaxCrashes,        \* bound: crashes of the process
    None

ASSUME SetsAssumption ==
    /\ LongDocs \subseteq Captures
    /\ OwnNotes \subseteq Captures \ LongDocs
    /\ {"final", "final_fallback"} \cap Chunks = {}

ASSUME FiniteAssumption == IsFiniteSet(Captures) /\ IsFiniteSet(Chunks)

ASSUME BoundsAssumption ==
    /\ MaxRevision \in Nat \ {0}
    /\ BackoffSteps \in Nat
    /\ MaxInFlight \in Nat
    /\ MaxCommands \in Nat
    /\ MaxCrashes \in Nat
    /\ Failures \subseteq {"cut", "capacity", "image", "other"}
    /\ ConsensusProfile \in BOOLEAN
    /\ ReviewRequired \in BOOLEAN

-----------------------------------------------------------------------------
(* The rows of the three tables. A workflow is a capture and a revision, a   *)
(* task a step of one; "final" stands for the single step of a short         *)
(* document and for the final synthesis of a long one.                       *)

Revisions == 1..MaxRevision
Steps     == Chunks \cup {"final", "final_fallback"}
Workflows == Captures \X Revisions
Tasks     == Captures \X Revisions \X Steps

ASSUME NoneIsNoTask == None \notin Tasks

CaptureStatus  == {"PENDING", "SUBMITTING", "QUEUED", "PROCESSING",
                   "COMPLETED", "FAILED", "REJECTED", "CANCELLED"}
WorkflowStatus == {"none", "PLANNED", "RUNNING", "SUCCESS", "ERROR", "CANCELLED"}
TaskStatus     == {"none", "READY", "SUBMITTING", "QUEUED", "PROCESSING",
                   "SUCCESS", "ERROR", "CANCEL_REQUESTED", "CANCELLED"}
LiveStatus     == {"PLANNED", "RUNNING"}
InFlightStatus == {"SUBMITTING", "QUEUED", "PROCESSING", "CANCEL_REQUESTED"}
(* Defect: the poller also asks about tasks that failed                      *)
PolledWithFailed == {"QUEUED", "PROCESSING", "CANCEL_REQUESTED", "ERROR"}

PolledStatus   == {"QUEUED", "PROCESSING", "CANCEL_REQUESTED"}
EndedStatus    == {"SUCCESS", "ERROR", "CANCELLED"}

(* How a task of the Broker can end. "good" passes the quality check of the  *)
(* final note; "cut" ran out of output tokens, "capacity" is one of          *)
(* CONSENSUS_FALLBACK_CODES and "image" one of REPLAN_ERROR_CODES.           *)
Outcomes == Failures \cup {"good", "cancelled"}
Answers  == Outcomes \cup {"queued", "processing", "cancel_requested"}

(* The error codes of a task that later transactions tell apart              *)
ErrorCodes == {"none", "capacity", "image", "other"}
(* Defect: the code of a cut answer is kept as it came                       *)
ErrorCodeAsItCame(a) == a

ErrorCode(a) == IF a = "cut" THEN "other" ELSE a

(* An idempotency key is <<b, m, c>>: "base[:budget-1][:manual-m][:budget-1]" *)
Keys     == (0..1) \X Nat \X (0..1)
FirstKey == <<0, 0, 0>>
Enlarged(k)  == IF k[2] = 0 THEN <<1, 0, 0>> ELSE <<k[1], k[2], 1>>
MayEnlarge(k) == k[1] + k[3] = 0
Retried(k, attempt) == <<k[1], attempt + 1, 0>>

TaskRows == [st : TaskStatus, attempt : Nat, key : Keys, id : BOOLEAN,
             code : ErrorCodes, wait : BOOLEAN]
NoRow    == [st |-> "none", attempt |-> 0, key |-> FirstKey, id |-> FALSE,
             code |-> "none", wait |-> FALSE]
NewRow   == [NoRow EXCEPT !.st = "READY"]

(* The stages of a cycle of the worker ("urgent": a dispatch the person asked     *)
(* for), the process stopped, and the two stages of its startup                   *)
Startup == {"recover", "boot"}
Stages  == {"plan", "cancel", "dispatch", "urgent", "poll", "publish", "down"} \cup Startup

(* What the worker keeps of a row while it awaits the Broker's answers       *)
Snapshots == [task : Tasks, key : Keys, id : BOOLEAN]

(* A call of advance_workflow: what it found to do, and the task that led to it   *)
Advances == [wf : Workflows, op : {"read", "finish", "fallback", "synthesis"},
             from : Tasks \cup {None}]

VARIABLES
    cap,        \* captures.status
    lastError,  \* captures.last_error_code: none, CANCELLED (by the Broker) or other
    wf,         \* workflows.status
    review,     \* workflows.review_status
    note,       \* workflows with a row in notes
    task,       \* the tasks table
    exec,       \* the Broker: executions it knows, by task and idempotency key
    pc,         \* stage of the broker worker, or of the startup before it: see Stages
    docs,       \* documents the stage still has to visit (its query's snapshot)
    todo,       \* tasks the stage still has to visit (its query's snapshot)
    post,       \* task whose POST the worker awaits, or None
    adv,        \* advance_workflow under way, or None
    retrying,   \* failed tasks that retry_failed_capture still has to reopen
    resent,     \* tasks it already reopened
    requested,  \* _requested_task_ids: tasks the person asked to send now
    commands, crashes

db      == <<cap, lastError, wf, review, note, task>>
worker  == <<pc, docs, todo, post, adv>>
desktop == <<retrying, resent, requested, commands>>
vars    == <<db, exec, worker, desktop, crashes>>

TablesOK ==
    /\ cap \in [Captures -> CaptureStatus]
    /\ lastError \in [Captures -> {"none", "CANCELLED", "other"}]
    /\ wf \in [Workflows -> WorkflowStatus]
    /\ review \in [Workflows -> {"none", "PENDING", "APPROVED", "REJECTED"}]
    /\ note \subseteq Workflows
    /\ task \in [Tasks -> TaskRows]

WorkerOK ==
    /\ DOMAIN exec \subseteq Tasks \X Keys
    /\ \A x \in DOMAIN exec : exec[x] \in {"live", "ended"}
    /\ pc \in Stages
    /\ docs \subseteq Captures
    /\ todo \subseteq Snapshots
    /\ post \in Tasks \cup {None}
    /\ adv \in Advances \cup {None}
    /\ pc = "poll" /\ adv # None => adv.from # None

PersonOK ==
    /\ retrying \subseteq Tasks /\ resent \subseteq Tasks /\ requested \subseteq Tasks
    /\ commands \in 0..MaxCommands /\ crashes \in 0..MaxCrashes

(* The rows of the tables, what the worker and the desktop thread hold, and what   *)
(* the Broker knows have the shape the SQL schema and the code give them; a poll   *)
(* under way knows the task it answers.                                            *)
TypeOK == TablesOK /\ WorkerOK /\ PersonOK

WfOf(t)      == <<t[1], t[2]>>
TaskOf(w, s) == <<w[1], w[2], s>>
TasksOf(w)   == {t \in Tasks : WfOf(t) = w}
Live(w)      == wf[w] \in LiveStatus
Exists(w)    == wf[w] # "none"

(* Defect: any revision passes for the last one *)
LatestAny(w) == wf[w] # "none"

Latest(w)    == Exists(w) /\ \A v \in Workflows : v[1] = w[1] /\ Exists(v) => v[2] <= w[2]
Execution(t) == <<t, task[t].key>>
Snapshot(T)  == {[task |-> t, key |-> task[t].key, id |-> task[t].id] : t \in T}
InFlight     == {t \in Tasks : task[t].st \in InFlightStatus}

FirstSteps(c) == IF c \in OwnNotes THEN {} ELSE IF c \in LongDocs THEN Chunks ELSE {"final"}
FinalSteps    == {"final", "final_fallback"}

(* fallback_eligible: chunks always run as single, and so does the alternative *)
FallbackEligible(t, code) == ConsensusProfile /\ t[3] = "final" /\ code = "capacity"

(* Defect: the query forgets the review                                      *)
CurrentIgnoringReview(w) == wf[w] = "SUCCESS"

(* A workflow SUCCESS that is not a discarded draft: what reopening respects   *)
Current(w) == wf[w] = "SUCCESS" /\ review[w] # "REJECTED"

Init ==
    /\ cap = [c \in Captures |-> "PENDING"]
    /\ lastError = [c \in Captures |-> "none"]
    /\ wf = [w \in Workflows |-> "none"]
    /\ review = [w \in Workflows |-> "none"]
    /\ note = {}
    /\ task = [t \in Tasks |-> NoRow]
    /\ exec = [x \in {} |-> "live"]
    /\ pc = "plan" /\ docs = Captures /\ todo = {} /\ post = None /\ adv = None
    /\ retrying = {} /\ resent = {} /\ requested = {} /\ commands = 0 /\ crashes = 0

-----------------------------------------------------------------------------
(* Updates shared by several transactions                                     *)

MoveCapture(c, from, to) == cap' = [cap EXCEPT ![c] = IF @ \in from THEN to ELSE @]

(* _fail_workflow: whatever the workflow's status, except CANCELLED           *)
FailWorkflow(w, code) ==
    IF wf[w] = "CANCELLED"
    THEN UNCHANGED <<wf, cap, lastError>>
    ELSE /\ wf' = [wf EXCEPT ![w] = "ERROR"]
         /\ cap' = [cap EXCEPT ![w[1]] = IF @ = "CANCELLED" THEN @ ELSE "FAILED"]
         /\ lastError' = [lastError EXCEPT
                ![w[1]] = IF cap[w[1]] = "CANCELLED" THEN @ ELSE code]

(* mark_submission_error: no guard on the task's status                       *)
MarkSubmissionError(t) ==
    /\ task' = [task EXCEPT ![t].st = "ERROR", ![t].code = "other"]
    /\ FailWorkflow(WfOf(t), "other")

(* A task is ready again under a new key                                      *)
Reopened(row, key) == [row EXCEPT !.st = "READY", !.key = key, !.id = FALSE,
                                  !.code = "none", !.wait = FALSE]

-----------------------------------------------------------------------------
(* apply_status, by the branch the answer and the task's row select           *)

(* Nothing is written for a task that already ended                           *)
ApplyLate(t) ==
    /\ task[t].st \in EndedStatus
    /\ UNCHANGED <<cap, lastError, wf, task>>

(* _reintentar_con_mas_presupuesto: same task, a new key, ready to be sent    *)
ApplyEnlarged(t, a) ==
    /\ a = "cut" /\ MayEnlarge(task[t].key)
    /\ task' = [task EXCEPT ![t] = Reopened(@, Enlarged(task[t].key))]
    /\ UNCHANGED <<cap, lastError, wf>>

ApplyProgress(t, a) ==
    /\ a \in {"queued", "processing", "cancel_requested"}
    /\ LET target == IF task[t].st = "CANCEL_REQUESTED" \/ a = "cancel_requested"
                     THEN "CANCEL_REQUESTED"
                     ELSE IF a = "queued" THEN "QUEUED" ELSE "PROCESSING"
       IN /\ task' = [task EXCEPT ![t].st = target]
          /\ IF target = "PROCESSING"
             THEN MoveCapture(t[1], {"SUBMITTING", "QUEUED"}, "PROCESSING")
             ELSE UNCHANGED cap
    /\ UNCHANGED <<lastError, wf>>

ApplySuccess(t, a) ==
    /\ a = "good"
    /\ task' = [task EXCEPT ![t].st = "SUCCESS"]
    /\ UNCHANGED <<cap, lastError, wf>>

ApplyFailure(t, a) ==
    /\ a \in Failures /\ ~(a = "cut" /\ MayEnlarge(task[t].key))
    /\ task' = [task EXCEPT ![t].st = "ERROR", ![t].code = ErrorCode(a)]
    /\ IF FallbackEligible(t, a) THEN UNCHANGED <<cap, lastError, wf>>
                                 ELSE FailWorkflow(WfOf(t), "other")

ApplyCancelled(t, a) ==
    /\ a = "cancelled"
    /\ task' = [task EXCEPT ![t].st = "CANCELLED"]
    /\ FailWorkflow(WfOf(t), "CANCELLED")

ApplyStatus(t, a) ==
    IF task[t].st \in EndedStatus THEN ApplyLate(t)
    ELSE \/ ApplyEnlarged(t, a)
         \/ ApplyProgress(t, a)
         \/ ApplySuccess(t, a)
         \/ ApplyFailure(t, a)
         \/ ApplyCancelled(t, a)

(* The Broker answers about the execution it was asked for, which has not     *)
(* ended yet: progress, or an end that the same transaction applies           *)
BrokerAnswers(x, a) ==
    /\ x.id /\ exec[<<x.task, x.key>>] = "live"
    /\ exec' = [exec EXCEPT ![<<x.task, x.key>>] = IF a \in Outcomes THEN "ended" ELSE "live"]

-----------------------------------------------------------------------------
(* The worker's cycle: plan, cancel, dispatch, poll, publish                  *)

Ready == post = None /\ adv = None
Between(stage) == pc = stage /\ docs = {} /\ todo = {} /\ Ready

(* list_unplanned_capture_ids *)
Unplanned == {c \in Captures : cap[c] = "PENDING" /\
                 \A r \in Revisions : ~Live(<<c, r>>) /\ ~Current(<<c, r>>)}

EnterPlan ==
    /\ Between("publish")
    /\ pc' = "plan" /\ docs' = Unplanned
    /\ UNCHANGED <<db, exec, todo, post, adv, desktop, crashes>>

(* plan_capture and create_workflow: the next revision, PENDING -> SUBMITTING. *)
(* An own note is finished by a second transaction.                            *)
PlanCapture(c, r) ==
    /\ pc \in {"plan", "recover"} /\ c \in docs /\ Ready
    /\ cap[c] = "PENDING"
    /\ wf[<<c, r>>] = "none" /\ \A q \in Revisions : q < r => Exists(<<c, q>>)
    /\ cap' = [cap EXCEPT ![c] = "SUBMITTING"]
    /\ wf' = [wf EXCEPT ![<<c, r>>] = "PLANNED"]
    /\ task' = [t \in Tasks |-> IF WfOf(t) = <<c, r>> /\ t[3] \in FirstSteps(c)
                                THEN NewRow ELSE task[t]]
    /\ docs' = docs \ {c}
    /\ adv' = IF c \in OwnNotes THEN [wf |-> <<c, r>>, op |-> "finish", from |-> None] ELSE None
    /\ UNCHANGED <<lastError, review, note, exec, pc, todo, post, desktop, crashes>>

(* Planning raised (profile disabled, template broken, the capture no longer   *)
(* PENDING): fail_unplannable_capture                                          *)
PlanFails(c) ==
    /\ pc \in {"plan", "recover"} /\ c \in docs /\ Ready
    /\ MoveCapture(c, {"PENDING"}, "FAILED")
    /\ lastError' = [lastError EXCEPT ![c] = IF cap[c] = "PENDING" THEN "other" ELSE @]
    /\ docs' = docs \ {c}
    /\ UNCHANGED <<wf, review, note, task, exec, pc, todo, post, adv, desktop, crashes>>

(* Defect: what makes a result publishable is its task, not its workflow       *)
PublishableByTask(c) == {w \in Workflows : w[1] = c /\ w \notin note
                                           /\ task[TaskOf(w, "final")].st = "SUCCESS"}

(* list_publishable: a result without a note, approved if the profile asks so   *)
Publishable(c) == {w \in Workflows : w[1] = c /\ wf[w] = "SUCCESS" /\ w \notin note
                                     /\ (ReviewRequired => review[w] = "APPROVED")}
DocsToPublish == {c \in Captures : Publishable(c) # {}}

(* The health gate: with the Broker offline the cycle goes on to publishing    *)
Offline ==
    /\ Between("plan")
    /\ pc' = "publish" /\ docs' = DocsToPublish
    /\ UNCHANGED <<db, exec, todo, post, adv, desktop, crashes>>

(* Defect: cancellations of tasks the Broker may not know are not closed        *)
EnterCancelUnsettled ==
    /\ Between("plan")
    /\ pc' = "cancel"
    /\ todo' = Snapshot({t \in Tasks : task[t].st = "CANCEL_REQUESTED" /\ task[t].id})
    /\ UNCHANGED <<db, exec, docs, post, adv, desktop, crashes>>

(* settle_orphan_cancellations, then the tasks whose cancellation the Broker   *)
(* can be asked for                                                            *)
EnterCancel ==
    /\ Between("plan")
    /\ pc' = "cancel"
    /\ task' = [t \in Tasks |-> IF task[t].st = "CANCEL_REQUESTED" /\ ~task[t].id
                                THEN [task[t] EXCEPT !.st = "CANCELLED"] ELSE task[t]]
    /\ todo' = Snapshot({t \in Tasks : task[t].st = "CANCEL_REQUESTED" /\ task[t].id})
    /\ UNCHANGED <<cap, lastError, wf, review, note, exec, docs, post, adv, desktop, crashes>>

StartAdvance(t) == adv' = [wf |-> WfOf(t), op |-> "read", from |-> t]

(* DELETE was answered: apply it and advance the workflow                       *)
CancelAnswered(x, a) ==
    /\ pc = "cancel" /\ x \in todo /\ Ready
    /\ a \in Outcomes \cup {"cancel_requested"}
    /\ BrokerAnswers(x, a)
    /\ ApplyStatus(x.task, a)
    /\ todo' = todo \ {x}
    /\ StartAdvance(x.task)
    /\ UNCHANGED <<review, note, pc, docs, post, desktop, crashes>>

(* DELETE was answered against the contract: nobody catches that error, which   *)
(* ends the cycle before it dispatches, polls or publishes                      *)
AbortCycle == pc' = "publish" /\ docs' = {} /\ todo' = {}

CancelBreaks(x) ==
    /\ pc = "cancel" /\ x \in todo /\ Ready
    /\ AbortCycle
    /\ UNCHANGED <<db, exec, post, adv, desktop, crashes>>

(* DELETE failed: BROKER_CANCEL_PENDING, tried again in the next cycle          *)
CancelUnanswered(x) ==
    /\ pc = "cancel" /\ x \in todo /\ Ready
    /\ todo' = todo \ {x}
    /\ UNCHANGED <<db, exec, pc, docs, post, adv, desktop, crashes>>

(* list_dispatchable: READY, its retry time reached, its workflow alive and     *)
(* every dependency SUCCESS (only the final step of a long document has any)    *)
Dispatchable ==
    {t \in Tasks :
        /\ task[t].st = "READY" /\ ~task[t].wait
        /\ Live(WfOf(t))
        /\ t[3] \in FinalSteps /\ t[1] \in LongDocs =>
               \A s \in Chunks : task[TaskOf(WfOf(t), s)].st = "SUCCESS"}

(* Defect: a task whose cancellation is pending no longer takes room            *)
RoomIgnoringCancelled ==
    LET n == Cardinality({t \in InFlight : task[t].st # "CANCEL_REQUESTED"})
    IN IF n < MaxInFlight THEN MaxInFlight - n ELSE 0

(* candidates[:max(0, room)]; the creation order is left open                   *)
Room == IF Cardinality(InFlight) < MaxInFlight THEN MaxInFlight - Cardinality(InFlight) ELSE 0
Batches(candidates) ==
    {b \in SUBSET candidates :
        Cardinality(b) = IF Cardinality(candidates) < Room THEN Cardinality(candidates) ELSE Room}

(* What the person asked for leaves alone and past the limit                    *)
EnterDispatch ==
    /\ Between("cancel")
    /\ \/ /\ requested # {}
          /\ pc' = "urgent" /\ todo' = Snapshot(Dispatchable \cap requested)
       \/ /\ requested = {}
          /\ pc' = "dispatch" /\ \E b \in Batches(Dispatchable) : todo' = Snapshot(b)
    /\ requested' = {}
    /\ UNCHANGED <<db, exec, docs, post, adv, retrying, resent, commands, crashes>>

Dispatching == pc \in {"dispatch", "urgent"}

(* claim_submission: only a READY task of a live workflow is sent                *)
ClaimSubmission(x) ==
    /\ Dispatching /\ x \in todo /\ Ready
    /\ todo' = todo \ {x}
    /\ LET t == x.task IN
       IF task[t].st = "READY" /\ Live(WfOf(t))
       THEN /\ task' = [task EXCEPT ![t].st = "SUBMITTING", ![t].attempt = @ + 1]
            /\ post' = t
       ELSE UNCHANGED <<task, post>>
    /\ UNCHANGED <<cap, lastError, wf, review, note, exec, pc, docs, adv, desktop, crashes>>

(* The POST reaches the Broker, which knows one execution per key                *)
BrokerReceives ==
    /\ post # None /\ Execution(post) \notin DOMAIN exec
    /\ exec' = [x \in DOMAIN exec \cup {Execution(post)} |->
                    IF x = Execution(post) THEN "live" ELSE exec[x]]
    /\ UNCHANGED <<db, worker, desktop, crashes>>

(* mark_accepted: a task cancelled meanwhile only keeps the Broker's identifiers *)
PostAccepted ==
    /\ post # None /\ Execution(post) \in DOMAIN exec
    /\ post' = None
    /\ \/ /\ task[post].st = "CANCEL_REQUESTED"
          /\ task' = [task EXCEPT ![post].id = TRUE]
          /\ UNCHANGED <<cap, wf>>
       \/ /\ task[post].st = "SUBMITTING"
          /\ task' = [task EXCEPT ![post].st = "QUEUED", ![post].id = TRUE, ![post].wait = FALSE]
          /\ wf' = [wf EXCEPT ![WfOf(post)] = IF @ = "PLANNED" THEN "RUNNING" ELSE @]
          /\ MoveCapture(post[1], {"SUBMITTING"}, "QUEUED")
    /\ UNCHANGED <<lastError, review, note, exec, pc, docs, todo, adv, desktop, crashes>>

(* A transient error, whether or not the POST arrived. release_submission puts   *)
(* back a task that is still SUBMITTING; with the backoff exhausted,             *)
(* mark_submission_error.                                                        *)
PostUnanswered ==
    /\ post # None
    /\ post' = None
    /\ \/ /\ task[post].attempt - 1 < BackoffSteps
          /\ task' = IF task[post].st = "SUBMITTING"
                     THEN [task EXCEPT ![post].st = "READY", ![post].wait = TRUE] ELSE task
          /\ UNCHANGED <<cap, lastError, wf>>
       \/ /\ task[post].attempt - 1 >= BackoffSteps
          /\ MarkSubmissionError(post)
    /\ UNCHANGED <<review, note, exec, pc, docs, todo, adv, desktop, crashes>>

(* A refusal, or an answer that breaks the contract: mark_submission_error       *)
PostRefused ==
    /\ post # None
    /\ post' = None
    /\ MarkSubmissionError(post)
    /\ UNCHANGED <<review, note, exec, pc, docs, todo, adv, desktop, crashes>>

(* next_retry_at is reached                                                      *)
RetryDue(t) ==
    /\ task[t].wait /\ pc # "down"
    /\ task' = [task EXCEPT ![t].wait = FALSE]
    /\ UNCHANGED <<cap, lastError, wf, review, note, exec, worker, desktop, crashes>>

(* list_active_tasks                                                             *)
EnterPoll ==
    /\ Dispatching /\ docs = {} /\ todo = {} /\ Ready
    /\ pc' = "poll" /\ todo' = Snapshot({t \in Tasks : task[t].st \in PolledStatus})
    /\ UNCHANGED <<db, exec, docs, post, adv, desktop, crashes>>

(* GET was answered: apply_status and, if it changed anything, advance           *)
PollAnswered(x, a) ==
    /\ pc = "poll" /\ x \in todo /\ Ready
    /\ BrokerAnswers(x, a)
    /\ ApplyStatus(x.task, a)
    /\ todo' = todo \ {x}
    /\ IF task[x.task].st \in EndedStatus THEN UNCHANGED adv ELSE StartAdvance(x.task)
    /\ UNCHANGED <<review, note, pc, docs, post, desktop, crashes>>

(* A transient error: asked again in the next cycle                              *)
PollUnanswered(x) ==
    /\ pc = "poll" /\ x \in todo /\ Ready
    /\ todo' = todo \ {x}
    /\ UNCHANGED <<db, exec, pc, docs, post, adv, desktop, crashes>>

(* The Broker does not know the task, or answers against the contract            *)
PollRefused(x) ==
    /\ pc = "poll" /\ x \in todo /\ Ready
    /\ todo' = todo \ {x}
    /\ MarkSubmissionError(x.task)
    /\ UNCHANGED <<review, note, exec, pc, docs, post, adv, desktop, crashes>>

-----------------------------------------------------------------------------
(* advance_workflow: it reads the workflow and its tasks, and then writes in a  *)
(* transaction of its own                                                       *)

StatusOf(w, s) == task[TaskOf(w, s)].st

(* Defect: any step with a result finishes the document                         *)
MustFinishEarly(w) == \/ \E s \in Steps : StatusOf(w, s) = "SUCCESS"
                      \/ w[1] \in OwnNotes

MustFinish(w) == \/ \E s \in FinalSteps : StatusOf(w, s) = "SUCCESS"
                 \/ w[1] \in OwnNotes

(* Defect: the alternative is looked for with a code that never asks for it     *)
MustFallBackBlind(w) == /\ StatusOf(w, "final") = "ERROR"
                        /\ FallbackEligible(TaskOf(w, "final"), "other")
                        /\ StatusOf(w, "final_fallback") = "none"

(* _create_fallback_if_needed: the final step failed and has no replacement yet  *)
MustFallBack(w) == /\ StatusOf(w, "final") = "ERROR"
                   /\ FallbackEligible(TaskOf(w, "final"), task[TaskOf(w, "final")].code)
                   /\ StatusOf(w, "final_fallback") = "none"

MustSynthesise(w) == /\ w[1] \in LongDocs
                     /\ StatusOf(w, "final") = "none"
                     /\ \A s \in Chunks : StatusOf(w, s) = "SUCCESS"

AdvanceRead ==
    /\ adv # None /\ adv.op = "read"
    /\ LET w == adv.wf
           op == IF ~Live(w) THEN "none"
                 ELSE IF MustFinish(w) THEN "finish"
                 ELSE IF MustFallBack(w) THEN "fallback"
                 ELSE IF MustSynthesise(w) THEN "synthesis"
                 ELSE "none"
       IN adv' = IF op = "none" THEN None ELSE [adv EXCEPT !.op = op]
    /\ UNCHANGED <<db, exec, pc, docs, todo, post, desktop, crashes>>

(* Defect: the workflow finishes whatever happened to it since it was read        *)
AdvanceFinishAnyway ==
    /\ adv # None /\ adv.op = "finish"
    /\ LET w == adv.wf
       IN /\ wf' = [wf EXCEPT ![w] = "SUCCESS"]
          /\ review' = [review EXCEPT ![w] = IF ReviewRequired THEN "PENDING" ELSE @]
          /\ MoveCapture(w[1], {"SUBMITTING", "QUEUED", "PROCESSING"}, "PROCESSING")
    /\ adv' = None
    /\ UNCHANGED <<lastError, note, task, exec, pc, docs, todo, post, desktop, crashes>>

(* finish_workflow: the capture moves even when the workflow does not             *)
AdvanceFinish ==
    /\ adv # None /\ adv.op = "finish"
    /\ LET w == adv.wf
       IN /\ wf' = [wf EXCEPT ![w] = IF @ \in LiveStatus THEN "SUCCESS" ELSE @]
          /\ review' = [review EXCEPT
                 ![w] = IF Live(w) /\ ReviewRequired THEN "PENDING" ELSE @]
          /\ MoveCapture(w[1], {"SUBMITTING", "QUEUED", "PROCESSING"}, "PROCESSING")
    /\ adv' = None
    /\ UNCHANGED <<lastError, note, task, exec, pc, docs, todo, post, desktop, crashes>>

(* insert_synthesis_task: the workflow's status is not looked at again            *)
AdvanceInsert ==
    /\ adv # None /\ adv.op \in {"fallback", "synthesis"}
    /\ LET t == TaskOf(adv.wf, IF adv.op = "fallback" THEN "final_fallback" ELSE "final")
       IN task' = IF task[t].st = "none" THEN [task EXCEPT ![t] = NewRow] ELSE task
    /\ adv' = None
    /\ UNCHANGED <<cap, lastError, wf, review, note, exec, pc, docs, todo, post, desktop, crashes>>

(* The synthesis could not be built (no room in the template, the profile gone, a *)
(* chunk without text). The poller turns it into an error of the chunk that was   *)
(* just written as SUCCESS; after a cancellation it ends the cycle; at startup it  *)
(* is recorded and left so.                                                       *)
AdvanceRaises ==
    /\ adv # None /\ adv.op = "synthesis"
    /\ adv' = None
    /\ \/ /\ pc = "poll"
          /\ MarkSubmissionError(adv.from)
          /\ UNCHANGED <<pc, todo, docs>>
       \/ /\ pc = "cancel"
          /\ AbortCycle
          /\ UNCHANGED <<cap, lastError, wf, task>>
       \/ /\ pc = "boot"
          /\ UNCHANGED <<cap, lastError, wf, task, pc, todo, docs>>
    /\ UNCHANGED <<review, note, exec, post, desktop, crashes>>

-----------------------------------------------------------------------------
(* publish_ready, in outline: the note, the archive and the capture             *)

EnterPublish ==
    /\ Between("poll")
    /\ pc' = "publish" /\ docs' = DocsToPublish
    /\ UNCHANGED <<db, exec, todo, post, adv, desktop, crashes>>

PublishOk(c) ==
    /\ pc = "publish" /\ c \in docs /\ Ready
    /\ note' = note \cup Publishable(c)
    /\ MoveCapture(c, {"PROCESSING", "COMPLETED"}, "COMPLETED")
    /\ docs' = docs \ {c}
    /\ UNCHANGED <<lastError, wf, review, task, exec, pc, todo, post, adv, desktop, crashes>>

(* fail_publication: the result is not valid Markdown                            *)
PublishInvalid(c) ==
    /\ pc = "publish" /\ c \in docs /\ Ready
    /\ wf' = [w \in Workflows |-> IF w \in Publishable(c) THEN "ERROR" ELSE wf[w]]
    /\ cap' = [cap EXCEPT ![c] = "FAILED"]
    /\ lastError' = [lastError EXCEPT ![c] = "other"]
    /\ docs' = docs \ {c}
    /\ UNCHANGED <<review, note, task, exec, pc, todo, post, adv, desktop, crashes>>

(* The vault or its folder cannot be written: another time                        *)
PublishDeferred(c) ==
    /\ pc = "publish" /\ c \in docs /\ Ready
    /\ docs' = docs \ {c}
    /\ UNCHANGED <<db, exec, pc, todo, post, adv, desktop, crashes>>

-----------------------------------------------------------------------------
(* The desktop thread: what a person may ask for. It runs one command at a time *)

Command ==
    /\ pc \notin Startup \cup {"down"} /\ retrying = {}
    /\ commands < MaxCommands
    /\ commands' = commands + 1

(* cancel_capture: its live workflow if there is one (cancel_workflow), and      *)
(* otherwise the document that waits in the local queue                          *)
CancelWorkflow(w) ==
    /\ Command /\ Live(w)
    /\ task' = [t \in Tasks |->
           IF WfOf(t) # w THEN task[t]
           ELSE IF task[t].st = "READY" THEN [task[t] EXCEPT !.st = "CANCELLED"]
           ELSE IF task[t].st \in {"SUBMITTING", "QUEUED", "PROCESSING"}
                THEN [task[t] EXCEPT !.st = "CANCEL_REQUESTED"]
           ELSE task[t]]
    /\ wf' = [wf EXCEPT ![w] = "CANCELLED"]
    /\ MoveCapture(w[1], {"PENDING", "SUBMITTING", "QUEUED", "PROCESSING"}, "CANCELLED")
    /\ lastError' = [lastError EXCEPT
           ![w[1]] = IF cap'[w[1]] = "CANCELLED" THEN "none" ELSE @]
    /\ UNCHANGED <<review, note, exec, worker, retrying, resent, requested, crashes>>

CancelWaiting(c) ==
    /\ Command
    /\ cap[c] = "PENDING" /\ \A r \in Revisions : ~Live(<<c, r>>)
    /\ cap' = [cap EXCEPT ![c] = "CANCELLED"]
    /\ UNCHANGED <<lastError, wf, review, note, task, exec, worker,
                   retrying, resent, requested, crashes>>

(* reopen_failed_capture, within the bound on revisions                          *)
CanReopen(c) ==
    /\ cap[c] \in {"FAILED", "CANCELLED"}
    /\ \A r \in Revisions : wf[<<c, r>>] \notin LiveStatus \cup {"SUCCESS"}
    /\ \E r \in Revisions : ~Exists(<<c, r>>)

ReopenFailedCapture(c) ==
    /\ CanReopen(c)
    /\ cap' = [cap EXCEPT ![c] = "PENDING"]
    /\ lastError' = [lastError EXCEPT ![c] = "none"]

(* What the list shows as cancelled: cancelled here, or in the Broker            *)
ShownCancelled(c) == cap[c] = "CANCELLED" \/ (cap[c] = "FAILED" /\ lastError[c] = "CANCELLED")

ReopenCancelled(c) ==
    /\ Command /\ ShownCancelled(c)
    /\ ReopenFailedCapture(c)
    /\ UNCHANGED <<wf, review, note, task, exec, worker, retrying, resent, requested, crashes>>

(* The failed tasks of the latest revision that no alternative replaced           *)
FailedTasks(w) == {t \in TasksOf(w) : /\ task[t].st = "ERROR"
                                      /\ t[3] = "final" => StatusOf(w, "final_fallback") = "none"}
ReadyTasks(w)  == {t \in TasksOf(w) : task[t].st = "READY"}
MustReplan(w)  == \E t \in FailedTasks(w) : task[t].code = "image"

(* The list offers to resend a document that failed, or whose last task did       *)
Resendable(c) ==
    /\ ~ShownCancelled(c)
    /\ \/ cap[c] = "FAILED"
       \/ cap[c] # "PENDING" /\ \E t \in Tasks : t[1] = c /\ task[t].st = "ERROR"

(* retry_failed_capture: one of its four ends                                      *)
RetryTasks(w) ==
    /\ Command /\ Resendable(w[1]) /\ Latest(w)
    /\ FailedTasks(w) # {} /\ ~MustReplan(w)
    /\ retrying' = FailedTasks(w) /\ resent' = {}
    /\ UNCHANGED <<db, exec, worker, requested, crashes>>

Replan(c) ==
    /\ Command /\ Resendable(c)
    /\ \A w \in Workflows : w[1] = c /\ Latest(w) => FailedTasks(w) = {} \/ MustReplan(w)
    /\ ReopenFailedCapture(c)
    /\ UNCHANGED <<wf, review, note, task, exec, worker, retrying, resent, requested, crashes>>

ResendReady(w) ==
    /\ Command /\ Resendable(w[1]) /\ Latest(w) /\ Live(w)
    /\ FailedTasks(w) = {} \/ MustReplan(w)
    /\ ~CanReopen(w[1])
    /\ requested' = requested \cup ReadyTasks(w)
    /\ UNCHANGED <<db, exec, worker, retrying, resent, crashes>>

(* Defect: the document goes back to the local queue with its task reopened         *)
RetryFailedTaskQueued(t) ==
    /\ t \in retrying
    /\ retrying' = retrying \ {t} /\ resent' = {}
    /\ task' = [task EXCEPT ![t] = Reopened(@, Retried(task[t].key, task[t].attempt))]
    /\ wf' = [wf EXCEPT ![WfOf(t)] = "RUNNING"]
    /\ cap' = [cap EXCEPT ![t[1]] = "PENDING"]
    /\ lastError' = [lastError EXCEPT ![t[1]] = "none"]
    /\ UNCHANGED <<requested, review, note, exec, worker, commands, crashes>>

(* retry_failed_task, one transaction per task: a new key, and the workflow and    *)
(* the capture move whatever their status was. The reopened tasks are asked for at *)
(* once when the last one is done.                                                 *)
RetryFailedTask(t) ==
    /\ t \in retrying
    /\ retrying' = retrying \ {t}
    /\ LET done == IF task[t].st = "ERROR" THEN resent \cup {t} ELSE resent
       IN IF retrying' = {}
          THEN resent' = {} /\ requested' = requested \cup done
          ELSE resent' = done /\ UNCHANGED requested
    /\ IF task[t].st = "ERROR"
       THEN /\ task' = [task EXCEPT ![t] = Reopened(@, Retried(task[t].key, task[t].attempt))]
            /\ wf' = [wf EXCEPT ![WfOf(t)] = "RUNNING"]
            /\ cap' = [cap EXCEPT ![t[1]] = "SUBMITTING"]
            /\ lastError' = [lastError EXCEPT ![t[1]] = "none"]
       ELSE UNCHANGED <<task, wf, cap, lastError>>
    /\ UNCHANGED <<review, note, exec, worker, commands, crashes>>

(* request_dispatch of a task that waits                                           *)
SendNow(t) ==
    /\ Command /\ task[t].st = "READY"
    /\ requested' = requested \cup {t}
    /\ UNCHANGED <<db, exec, worker, retrying, resent, crashes>>

(* ignore_failed_capture: every failed revision of the document                    *)
IgnoreFailedCapture(c) ==
    /\ Command /\ cap[c] = "FAILED" /\ ~ShownCancelled(c)
    /\ cap' = [cap EXCEPT ![c] = "CANCELLED"]
    /\ wf' = [w \in Workflows |-> IF w[1] = c /\ wf[w] = "ERROR" THEN "CANCELLED" ELSE wf[w]]
    /\ task' = [t \in Tasks |-> IF t[1] = c /\ task[t].st = "ERROR"
                                THEN [task[t] EXCEPT !.st = "CANCELLED"] ELSE task[t]]
    /\ UNCHANGED <<lastError, review, note, exec, worker, retrying, resent, requested, crashes>>

(* Defect: a draft already decided is approved                                      *)
ApproveDecidedDraft(w) ==
    /\ Command /\ wf[w] = "SUCCESS" /\ review[w] # "none"
    /\ review' = [review EXCEPT ![w] = "APPROVED"]
    /\ UNCHANGED <<cap, lastError, wf, note, task, exec, worker,
                   retrying, resent, requested, crashes>>

(* The draft of a document whose profile asks for review                            *)
ApproveDraft(w) ==
    /\ Command /\ wf[w] = "SUCCESS" /\ review[w] = "PENDING"
    /\ review' = [review EXCEPT ![w] = "APPROVED"]
    /\ UNCHANGED <<cap, lastError, wf, note, task, exec, worker,
                   retrying, resent, requested, crashes>>

RejectDraft(w) ==
    /\ Command /\ wf[w] = "SUCCESS" /\ review[w] = "PENDING"
    /\ review' = [review EXCEPT ![w] = "REJECTED"]
    /\ MoveCapture(w[1], {"PROCESSING"}, "REJECTED")
    /\ UNCHANGED <<lastError, wf, note, task, exec, worker,
                   retrying, resent, requested, crashes>>

ReopenRejectedDraft(c) ==
    /\ Command /\ cap[c] = "REJECTED"
    /\ \E r \in Revisions : review[<<c, r>>] = "REJECTED"
    /\ \A r \in Revisions : <<c, r>> \notin note
    /\ \E r \in Revisions : ~Exists(<<c, r>>)
    /\ cap' = [cap EXCEPT ![c] = "PENDING"]
    /\ lastError' = [lastError EXCEPT ![c] = "none"]
    /\ UNCHANGED <<wf, review, note, task, exec, worker, retrying, resent, requested, crashes>>

-----------------------------------------------------------------------------
(* The process dies between two transactions; SQLite and the Broker keep theirs    *)

Crash ==
    /\ pc # "down" /\ crashes < MaxCrashes
    /\ crashes' = crashes + 1
    /\ pc' = "down" /\ docs' = {} /\ todo' = {} /\ post' = None /\ adv' = None
    /\ retrying' = {} /\ resent' = {} /\ requested' = {}
    /\ UNCHANGED <<db, exec, commands>>

(* Defect: a restart sends what it was sending as a new request                      *)
RestartAnew ==
    /\ pc = "down"
    /\ pc' = "recover"
    /\ task' = [t \in Tasks |-> IF task[t].st = "SUBMITTING"
                                THEN Reopened(task[t], Enlarged(task[t].key)) ELSE task[t]]
    /\ docs' = Unplanned
    /\ UNCHANGED <<cap, lastError, wf, review, note, exec, todo, post, adv, desktop, crashes>>

(* recover_once: recover_interrupted_submissions, plan_unplanned, and then           *)
(* advance_workflow for the workflows alive                                          *)
Restart ==
    /\ pc = "down"
    /\ pc' = "recover"
    /\ task' = [t \in Tasks |-> IF task[t].st = "SUBMITTING"
                                THEN [task[t] EXCEPT !.st = "READY", !.wait = FALSE] ELSE task[t]]
    /\ docs' = Unplanned
    /\ UNCHANGED <<cap, lastError, wf, review, note, exec, todo, post, adv, desktop, crashes>>

(* Defect: the startup does not advance the workflows alive                          *)
EnterBootAlone ==
    /\ Between("recover")
    /\ pc' = "boot" /\ docs' = {}
    /\ UNCHANGED <<db, exec, todo, post, adv, desktop, crashes>>

EnterBoot ==
    /\ Between("recover")
    /\ pc' = "boot"
    /\ docs' = {c \in Captures : \E r \in Revisions : Live(<<c, r>>)}
    /\ UNCHANGED <<db, exec, todo, post, adv, desktop, crashes>>

BootAdvance(w) ==
    /\ pc = "boot" /\ w[1] \in docs /\ Live(w) /\ Ready
    /\ docs' = docs \ {w[1]}
    /\ adv' = [wf |-> w, op |-> "read", from |-> None]
    /\ UNCHANGED <<db, exec, pc, todo, post, desktop, crashes>>

StartWorker ==
    /\ Between("boot")
    /\ pc' = "plan" /\ docs' = Unplanned
    /\ UNCHANGED <<db, exec, todo, post, adv, desktop, crashes>>

-----------------------------------------------------------------------------
Cycle ==
    \/ EnterPlan \/ EnterCancel \/ EnterDispatch \/ EnterPoll \/ EnterPublish
    \/ EnterBoot \/ StartWorker
    \/ \E c \in Captures, r \in Revisions : PlanCapture(c, r)
    \/ \E c \in Captures : PlanFails(c) \/ PublishOk(c) \/ PublishInvalid(c) \/ PublishDeferred(c)
    \/ \E x \in todo : \/ CancelUnanswered(x) \/ CancelBreaks(x)
                       \/ PollUnanswered(x) \/ PollRefused(x)
                       \/ ClaimSubmission(x)
                       \/ \E a \in Answers : CancelAnswered(x, a) \/ PollAnswered(x, a)
    \/ PostAccepted \/ PostUnanswered \/ PostRefused
    \/ AdvanceRead \/ AdvanceFinish \/ AdvanceInsert \/ AdvanceRaises
    \/ \E w \in Workflows : BootAdvance(w)

Person ==
    \/ \E w \in Workflows : \/ CancelWorkflow(w) \/ RetryTasks(w) \/ ResendReady(w)
                            \/ ApproveDraft(w) \/ RejectDraft(w)
    \/ \E c \in Captures : \/ CancelWaiting(c) \/ ReopenCancelled(c) \/ Replan(c)
                           \/ IgnoreFailedCapture(c) \/ ReopenRejectedDraft(c)
    \/ \E t \in Tasks : SendNow(t)

Next ==
    \/ Cycle \/ Offline \/ BrokerReceives \/ Person
    \/ \E t \in Tasks : RetryDue(t) \/ RetryFailedTask(t)
    \/ Crash \/ Restart

Spec == Init /\ [][Next]_vars

(* The worker's loop always goes on; the Broker is reachable again and again and   *)
(* a task it executes ends, the vault is writable again, a retry time comes and the *)
(* process is started again.                                                       *)
Fairness ==
    /\ WF_vars(Cycle) /\ WF_vars(BrokerReceives) /\ WF_vars(Restart)
    /\ SF_vars(EnterCancel)
    /\ \A t \in Tasks :
        /\ WF_vars(RetryDue(t)) /\ WF_vars(RetryFailedTask(t))
        /\ SF_vars(\E x \in todo, a \in Outcomes : x.task = t /\ PollAnswered(x, a))
    /\ \A c \in Captures : SF_vars(PublishOk(c) \/ PublishInvalid(c))

(* Sooner or later the Broker answers a DELETE by the contract                      *)
CancelFairness ==
    \A t \in Tasks : SF_vars(\E x \in todo, a \in Outcomes : x.task = t /\ CancelAnswered(x, a))

FairSpec == Spec /\ Fairness /\ CancelFairness

(* The synthesis of a long document can always be built                             *)
BuildableSpec == Init /\ [][Next /\ ~AdvanceRaises]_vars /\ Fairness /\ CancelFairness

-----------------------------------------------------------------------------
(* A document never has two workflows alive, however planning, the person's      *)
(* commands and a restart interleave: list_unplanned_capture_ids and              *)
(* reopen_failed_capture look for one, create_workflow and retry_failed_task do   *)
(* not.                                                                           *)
AtMostOneLive ==
    \A v, w \in Workflows : v[1] = w[1] /\ Live(v) /\ Live(w) => v = w

(* The planner's query hides no document of the local queue: one that is PENDING  *)
(* has neither a live workflow nor a result in force that would keep it waiting.  *)
NothingPendingIsHidden == \A c \in Captures : cap[c] = "PENDING" => c \in Unplanned

(* The answer that apply_status writes belongs to the current attempt: while the  *)
(* worker holds a row it read before an await, nobody gives the task another key. *)
AnswersAreCurrent ==
    pc \in {"poll", "cancel"} => \A x \in todo : task[x.task].key = x.key

(* Retries, budget retries and restarts never leave the Broker working on an      *)
(* older request of a task: an execution under a key that is no longer the task's *)
(* can only be left behind by a person who retried by hand.                       *)
OneExecutionPerTask ==
    \A x \in DOMAIN exec :
        exec[x] = "live" /\ x[2] # task[x[1]].key => task[x[1]].key[2] > 0

(* A result is made of every part: a long document's workflow is SUCCESS only     *)
(* when each of its chunks is.                                                    *)
ResultHasEveryChunk ==
    \A w \in Workflows :
        wf[w] = "SUCCESS" /\ w[1] \in LongDocs =>
            \A s \in Chunks : StatusOf(w, s) = "SUCCESS"

(* A finished document asks nothing more of the Broker: when advance_workflow      *)
(* finishes one, no step of it waits to be sent or is still at the Broker.         *)
FinishedIsQuiet ==
    \A t \in Tasks : wf[WfOf(t)] = "SUCCESS" =>
        task[t].st \notin InFlightStatus \cup {"READY"}

(* Beyond what a person sends by hand the Broker holds at most max_in_flight      *)
(* tasks, counting those of the batch still to be sent.                           *)
BatchFitsTheLimit ==
    pc = "dispatch" /\ todo # {} => Cardinality(InFlight) + Cardinality(todo) <= MaxInFlight

(* Whatever is at the Broker, or on its way, ends: no answer is lost for good.    *)
InFlightEnds ==
    \A t \in Tasks : task[t].st \in InFlightStatus ~> task[t].st \notin InFlightStatus

(* A document being processed ends or waits for a person: neither a lost answer,  *)
(* nor another document's trouble, nor a restart leaves it in process for good.   *)
Settled(c) == \/ cap[c] \in {"COMPLETED", "FAILED", "REJECTED", "CANCELLED"}
              \/ \E r \in Revisions : review[<<c, r>>] = "PENDING"
EveryDocumentSettles == \A c \in Captures : ~Settled(c) ~> Settled(c)

-----------------------------------------------------------------------------
(* The inductive strengthening of AtMostOneLive and NothingPendingIsHidden: the    *)
(* only workflow that can be alive or in force is the document's last revision.    *)

HasNoneInForce(c) == \A r \in Revisions : ~Live(<<c, r>>) /\ ~Current(<<c, r>>)

(* next_revision leaves no gap, and every row belongs to a workflow                *)
RevisionsAreConsecutive ==
    \A c \in Captures : \A q, r \in Revisions :
        q < r /\ Exists(<<c, r>>) => Exists(<<c, q>>)
RowsHaveAWorkflow ==
    /\ \A t \in Tasks : task[t].st # "none" => Exists(WfOf(t))
    /\ \A x \in todo : Exists(WfOf(x.task))
    /\ post # None => Exists(WfOf(post))
    /\ adv # None => Exists(adv.wf) /\ (adv.from # None => Exists(WfOf(adv.from)))

(* Only the last revision is alive or in force                                     *)
LastIsInForce ==
    \A c \in Captures : \A q, r \in Revisions :
        (Live(<<c, q>>) \/ Current(<<c, q>>)) /\ Exists(<<c, r>>) => r <= q

(* A document that waits to be planned, or whose draft was discarded, has none     *)
QueuedHasNone == \A c \in Captures : cap[c] \in {"PENDING", "REJECTED"} => HasNoneInForce(c)

(* What a person is reopening stays the last revision until it is reopened         *)
RetriedIsLatest == \A t \in retrying : cap[t[1]] # "PENDING" /\ Latest(WfOf(t))

LastRevisionInv ==
    /\ RevisionsAreConsecutive /\ RowsHaveAWorkflow
    /\ LastIsInForce /\ QueuedHasNone /\ RetriedIsLatest

-----------------------------------------------------------------------------
(* What the repository's texts say of the program, and the code does not do        *)

(* "un fallo en cualquiera de los tres sitios tiene que dejar el workflow y la      *)
(* captura en el mismo estado": a FAILED capture has no workflow alive.             *)
FailedHasNoLiveWorkflow ==
    \A w \in Workflows : cap[w[1]] = "FAILED" => ~Live(w)

=============================================================================
