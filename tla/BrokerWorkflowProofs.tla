------------------------ MODULE BrokerWorkflowProofs ------------------------
(***************************************************************************)
(* The queue of the Broker for every value of its constants.               *)
(*                                                                         *)
(* First the tables, the worker's state and the person's keep their types; *)
(* the document has at most one workflow alive, and no document of the     *)
(* local queue is hidden from the planner. The last two are not inductive: *)
(* LastRevisionInv is, with TypeOK. Most steps only weaken what is in      *)
(* force: they create no workflow and bring none back. Four kinds do more: *)
(* planning, reopening a document, retrying its tasks, and discarding a    *)
(* draft. The lemmas follow that split.                                    *)
(*                                                                         *)
(* Then what the worker asks the Broker, and what it makes of the answers; *)
(* and, with a profile that does not ask for consensus, the refinement of  *)
(* DocumentLifecycle: first what the mapping reads of the tables (the      *)
(* result of a note stays in force), then how a transaction may move a     *)
(* workflow, and last the abstract step each of those moves is.            *)
(***************************************************************************)
EXTENDS BrokerLifecycle, FiniteSetTheorems, TLAPS

-----------------------------------------------------------------------------
(* Types: first the operators the transactions are built from, then one step per  *)
(* action that disturbs a table                                                   *)

(* What a task, a workflow and a step are made of                           *)
LEMMA IndexTyping ==
    /\ \A t \in Tasks : t[1] \in Captures /\ t[2] \in Revisions /\ t[3] \in Steps
                        /\ WfOf(t) \in Workflows
    /\ \A w \in Workflows : w[1] \in Captures /\ w[2] \in Revisions
    /\ \A w \in Workflows, s \in Steps : TaskOf(w, s) \in Tasks
    /\ \A c \in Captures, r \in Revisions : <<c, r>> \in Workflows
    /\ "final" \in Steps /\ "final_fallback" \in Steps
BY DEF Tasks, Workflows, WfOf, TaskOf, Steps

(* Every retry gives a task a well-formed idempotency key                   *)
LEMMA KeyTyping ==
    /\ FirstKey \in Keys
    /\ \A k \in Keys : Enlarged(k) \in Keys
    /\ \A k \in Keys, n \in Nat : Retried(k, n) \in Keys
BY DEF Keys, FirstKey, Enlarged, Retried

(* A row that is inserted, and every update of one, is a row                *)
LEMMA RowTyping ==
    /\ NoRow \in TaskRows
    /\ NewRow \in TaskRows
<1>1. NoRow \in TaskRows BY KeyTyping DEF NoRow, TaskRows, ErrorCodes, TaskStatus
<1>2. NewRow \in TaskRows BY <1>1 DEF NewRow, TaskRows, TaskStatus
<1>3. QED BY <1>1, <1>2

LEMMA RowUpdates ==
    ASSUME NEW r \in TaskRows
    PROVE  /\ \A s \in TaskStatus : [r EXCEPT !.st = s] \in TaskRows
           /\ [r EXCEPT !.id = TRUE] \in TaskRows
           /\ [r EXCEPT !.wait = FALSE] \in TaskRows
           /\ \A s \in TaskStatus, e \in ErrorCodes :
                  [r EXCEPT !.st = s, !.code = e] \in TaskRows
           /\ \A s \in TaskStatus, b \in BOOLEAN :
                  [r EXCEPT !.st = s, !.wait = b] \in TaskRows
           /\ \A s \in TaskStatus :
                  [r EXCEPT !.st = s, !.id = TRUE, !.wait = FALSE] \in TaskRows
BY DEF TaskRows

LEMMA RowReopened ==
    ASSUME NEW r \in TaskRows, NEW k \in Keys
    PROVE  Reopened(r, k) \in TaskRows
BY DEF Reopened, TaskRows, ErrorCodes, TaskStatus

LEMMA RowClaimed ==
    ASSUME NEW r \in TaskRows
    PROVE  [r EXCEPT !.st = "SUBMITTING", !.attempt = @ + 1] \in TaskRows
<1>1. r.attempt + 1 \in Nat BY DEF TaskRows
<1>2. \A n \in Nat : [r EXCEPT !.st = "SUBMITTING", !.attempt = n] \in TaskRows
  BY DEF TaskRows, TaskStatus
<1>3. QED BY <1>1, <1>2

(* A row of the table, rewritten or left alone, keeps the table's type      *)
LEMMA TaskTable ==
    ASSUME TablesOK, NEW t \in Tasks, NEW r \in TaskRows
    PROVE  /\ [task EXCEPT ![t] = r] \in [Tasks -> TaskRows]
           /\ task[t] \in TaskRows
BY DEF TablesOK

LEMMA CaptureMoved ==
    ASSUME TablesOK, NEW c \in Captures, NEW from, NEW to \in CaptureStatus, MoveCapture(c, from, to)
    PROVE  cap' \in [Captures -> CaptureStatus]
BY DEF TablesOK, MoveCapture

LEMMA WorkflowFailed ==
    ASSUME TablesOK, NEW w \in Workflows, NEW code \in {"CANCELLED", "other"},
           FailWorkflow(w, code)
    PROVE  /\ cap' \in [Captures -> CaptureStatus]
           /\ lastError' \in [Captures -> {"none", "CANCELLED", "other"}]
           /\ wf' \in [Workflows -> WorkflowStatus]
<1>0. w[1] \in Captures BY IndexTyping
<1>1. cap' \in [Captures -> CaptureStatus]
  BY <1>0 DEF TablesOK, FailWorkflow, CaptureStatus
<1>2. lastError' \in [Captures -> {"none", "CANCELLED", "other"}]
  BY <1>0 DEF TablesOK, FailWorkflow
<1>3. wf' \in [Workflows -> WorkflowStatus]
  BY DEF TablesOK, FailWorkflow, WorkflowStatus
<1>4. QED BY <1>1, <1>2, <1>3

LEMMA SubmissionFailed ==
    ASSUME TablesOK, NEW t \in Tasks, MarkSubmissionError(t), UNCHANGED <<review, note>>
    PROVE  TablesOK'
<1>1. task' \in [Tasks -> TaskRows]
  <2>1. task' = [task EXCEPT ![t] = [task[t] EXCEPT !.st = "ERROR", !.code = "other"]]
    BY DEF TablesOK, MarkSubmissionError
  <2>2. [task[t] EXCEPT !.st = "ERROR", !.code = "other"] \in TaskRows
    BY TaskTable, RowTyping, RowUpdates DEF TaskStatus, ErrorCodes
  <2>3. QED BY <2>1, <2>2, TaskTable
<1>2. WfOf(t) \in Workflows BY IndexTyping
<1>3. QED BY <1>1, <1>2, WorkflowFailed DEF MarkSubmissionError, TablesOK

(* apply_status, branch by branch                                           *)
LEMMA StatusApplied ==
    ASSUME TablesOK, NEW t \in Tasks, NEW a \in Answers, ApplyStatus(t, a),
           UNCHANGED <<review, note>>
    PROVE  TablesOK'
<1>0. WfOf(t) \in Workflows /\ t[1] \in Captures /\ task[t] \in TaskRows /\ task[t].key \in Keys
  BY IndexTyping, TaskTable, RowTyping DEF TaskRows
<1>1. CASE ApplyLate(t) BY <1>1 DEF ApplyLate, TablesOK
<1>2. CASE ApplyEnlarged(t, a)
  <2>1. Reopened(task[t], Enlarged(task[t].key)) \in TaskRows
    BY <1>0, KeyTyping, RowReopened
  <2>2. task' \in [Tasks -> TaskRows] BY <1>2, <2>1, TaskTable DEF ApplyEnlarged
  <2>3. QED BY <1>2, <2>2 DEF ApplyEnlarged, TablesOK
<1>3. CASE ApplyProgress(t, a)
  <2>1. PICK s \in TaskStatus : task' = [task EXCEPT ![t] = [task[t] EXCEPT !.st = s]]
    BY <1>3 DEF ApplyProgress, TablesOK, TaskStatus
  <2>2. task' \in [Tasks -> TaskRows] BY <1>0, <2>1, RowUpdates, TaskTable
  <2>3. cap' \in [Captures -> CaptureStatus]
    BY <1>0, <1>3, CaptureMoved DEF ApplyProgress, TablesOK, CaptureStatus
  <2>4. UNCHANGED <<lastError, wf>> BY <1>3 DEF ApplyProgress
  <2>5. QED BY <2>2, <2>3, <2>4 DEF TablesOK
<1>4. CASE ApplySuccess(t, a)
  <2>1. task' = [task EXCEPT ![t] = [task[t] EXCEPT !.st = "SUCCESS"]]
    BY <1>4 DEF ApplySuccess, TablesOK
  <2>2. task' \in [Tasks -> TaskRows] BY <1>0, <2>1, RowUpdates, TaskTable DEF TaskStatus
  <2>3. QED BY <1>4, <2>2 DEF ApplySuccess, TablesOK
<1>5. CASE ApplyFailure(t, a)
  <2>1. ErrorCode(a) \in ErrorCodes
    BY <1>5, BoundsAssumption DEF ApplyFailure, ErrorCode, ErrorCodes
  <2>2. task' = [task EXCEPT ![t] = [task[t] EXCEPT !.st = "ERROR", !.code = ErrorCode(a)]]
    BY <1>5 DEF ApplyFailure, TablesOK
  <2>3. [task[t] EXCEPT !.st = "ERROR", !.code = ErrorCode(a)] \in TaskRows
    BY <1>0, <2>1, RowUpdates DEF TaskStatus
  <2>4. task' \in [Tasks -> TaskRows] BY <2>2, <2>3, TaskTable
  <2>5. CASE FallbackEligible(t, a) BY <1>5, <2>4, <2>5 DEF ApplyFailure, TablesOK
  <2>6. CASE FailWorkflow(WfOf(t), "other")
    BY <1>0, <2>4, <2>6, WorkflowFailed DEF TablesOK
  <2>7. QED BY <1>5, <2>5, <2>6 DEF ApplyFailure
<1>6. CASE ApplyCancelled(t, a)
  <2>1. task' = [task EXCEPT ![t] = [task[t] EXCEPT !.st = "CANCELLED"]]
    BY <1>6 DEF ApplyCancelled, TablesOK
  <2>2. task' \in [Tasks -> TaskRows] BY <1>0, <2>1, RowUpdates, TaskTable DEF TaskStatus
  <2>3. QED BY <1>0, <1>6, <2>2, WorkflowFailed DEF ApplyCancelled, TablesOK
<1>7. QED BY <1>1, <1>2, <1>3, <1>4, <1>5, <1>6 DEF ApplyStatus

-----------------------------------------------------------------------------
(* Every step keeps the tables well formed: those of the worker ...         *)
LEMMA TablesKept ==
    ASSUME TablesOK, UNCHANGED db
    PROVE  TablesOK'
BY DEF TablesOK, db

LEMMA CycleTables ==
    ASSUME TypeOK, Cycle
    PROVE  TablesOK'
<1>0. TablesOK /\ WorkerOK BY DEF TypeOK
<1>. USE <1>0
<1>1. ASSUME NEW c \in Captures, NEW r \in Revisions, PlanCapture(c, r) PROVE TablesOK'
  <2>1. cap' \in [Captures -> CaptureStatus] BY <1>1 DEF PlanCapture, TablesOK, CaptureStatus
  <2>2. wf' \in [Workflows -> WorkflowStatus]
    BY <1>1, IndexTyping DEF PlanCapture, TablesOK, WorkflowStatus
  <2>3. task' \in [Tasks -> TaskRows] BY <1>1, RowTyping, TaskTable DEF PlanCapture
  <2>4. QED BY <1>1, <2>1, <2>2, <2>3 DEF PlanCapture, TablesOK
<1>2. ASSUME NEW c \in Captures, PlanFails(c) PROVE TablesOK'
  <2>1. cap' \in [Captures -> CaptureStatus]
    BY <1>2, CaptureMoved DEF PlanFails, CaptureStatus
  <2>2. QED BY <1>2, <2>1 DEF PlanFails, TablesOK
<1>3. ASSUME EnterCancel PROVE TablesOK'
  <2>1. task' \in [Tasks -> TaskRows]
    BY <1>3, TaskTable, RowTyping, RowUpdates DEF EnterCancel, TaskStatus
  <2>2. QED BY <1>3, <2>1 DEF EnterCancel, TablesOK
<1>4. ASSUME NEW x \in todo, NEW a \in Answers, CancelAnswered(x, a) \/ PollAnswered(x, a)
      PROVE  TablesOK'
  <2>1. x.task \in Tasks BY DEF WorkerOK, Snapshots
  <2>2. QED BY <1>4, <2>1, StatusApplied DEF CancelAnswered, PollAnswered
<1>5. ASSUME NEW x \in todo, PollRefused(x) PROVE TablesOK'
  <2>1. x.task \in Tasks BY DEF WorkerOK, Snapshots
  <2>2. QED BY <1>5, <2>1, SubmissionFailed DEF PollRefused
<1>6. ASSUME NEW x \in todo, ClaimSubmission(x) PROVE TablesOK'
  <2>1. x.task \in Tasks BY DEF WorkerOK, Snapshots
  <2>2. task[x.task] \in TaskRows BY <2>1, TaskTable, RowTyping
  <2>3. \/ task' = [task EXCEPT ![x.task] =
                       [task[x.task] EXCEPT !.st = "SUBMITTING", !.attempt = @ + 1]]
        \/ task' = task
    BY <1>6 DEF ClaimSubmission, TablesOK
  <2>4. task' \in [Tasks -> TaskRows] BY <2>1, <2>2, <2>3, TaskTable, RowClaimed DEF TablesOK
  <2>5. QED BY <1>6, <2>4 DEF ClaimSubmission, TablesOK
<1>7. ASSUME PostAccepted PROVE TablesOK'
  <2>0. post \in Tasks /\ task[post] \in TaskRows /\ WfOf(post) \in Workflows /\ post[1] \in Captures
    BY <1>7, TaskTable, RowTyping, IndexTyping DEF PostAccepted, WorkerOK
  <2>1. \/ task' = [task EXCEPT ![post] = [task[post] EXCEPT !.id = TRUE]]
        \/ task' = [task EXCEPT ![post] =
                       [task[post] EXCEPT !.st = "QUEUED", !.id = TRUE, !.wait = FALSE]]
    BY <1>7, <2>0 DEF PostAccepted, TablesOK
  <2>2. task' \in [Tasks -> TaskRows] BY <2>0, <2>1, RowUpdates, TaskTable DEF TaskStatus
  <2>3. cap' \in [Captures -> CaptureStatus]
    BY <1>7, <2>0, CaptureMoved DEF PostAccepted, CaptureStatus, TablesOK
  <2>4. wf' \in [Workflows -> WorkflowStatus]
    BY <1>7, <2>0 DEF PostAccepted, TablesOK, WorkflowStatus
  <2>5. QED BY <1>7, <2>2, <2>3, <2>4 DEF PostAccepted, TablesOK
<1>8. ASSUME PostUnanswered PROVE TablesOK'
  <2>0. post \in Tasks /\ task[post] \in TaskRows
    BY <1>8, TaskTable, RowTyping DEF PostUnanswered, WorkerOK
  <2>1. CASE MarkSubmissionError(post)
    BY <1>8, <2>0, <2>1, SubmissionFailed DEF PostUnanswered
  <2>2. CASE /\ task' = IF task[post].st = "SUBMITTING"
                        THEN [task EXCEPT ![post].st = "READY", ![post].wait = TRUE] ELSE task
             /\ UNCHANGED <<cap, lastError, wf>>
    <3>1. \/ task' = [task EXCEPT ![post] = [task[post] EXCEPT !.st = "READY", !.wait = TRUE]]
          \/ task' = task
      BY <2>2 DEF TablesOK
    <3>2. task' \in [Tasks -> TaskRows]
      BY <2>0, <3>1, RowUpdates, TaskTable DEF TaskStatus, TablesOK
    <3>3. QED BY <1>8, <2>2, <3>2 DEF PostUnanswered, TablesOK
  <2>3. QED BY <1>8, <2>1, <2>2 DEF PostUnanswered
<1>9. ASSUME PostRefused PROVE TablesOK'
  BY <1>9, SubmissionFailed DEF PostRefused, WorkerOK
<1>10. ASSUME AdvanceFinish PROVE TablesOK'
  <2>0. adv.wf \in Workflows /\ adv.wf[1] \in Captures
    BY <1>10, IndexTyping DEF AdvanceFinish, WorkerOK, Advances
  <2>1. cap' \in [Captures -> CaptureStatus]
    BY <1>10, <2>0, CaptureMoved DEF AdvanceFinish, CaptureStatus
  <2>2. wf' \in [Workflows -> WorkflowStatus]
    BY <1>10, <2>0 DEF AdvanceFinish, TablesOK, WorkflowStatus
  <2>3. review' \in [Workflows -> {"none", "PENDING", "APPROVED", "REJECTED"}]
    BY <1>10, <2>0 DEF AdvanceFinish, TablesOK
  <2>4. QED BY <1>10, <2>1, <2>2, <2>3 DEF AdvanceFinish, TablesOK
<1>11. ASSUME AdvanceInsert PROVE TablesOK'
  <2>1. TaskOf(adv.wf, IF adv.op = "fallback" THEN "final_fallback" ELSE "final") \in Tasks
    BY <1>11, IndexTyping DEF AdvanceInsert, WorkerOK, Advances
  <2>2. task' \in [Tasks -> TaskRows]
    BY <1>11, <2>1, TaskTable, RowTyping DEF AdvanceInsert, TablesOK
  <2>3. QED BY <1>11, <2>2 DEF AdvanceInsert, TablesOK
<1>12. ASSUME AdvanceRaises PROVE TablesOK'
  <2>1. pc = "poll" => adv.from \in Tasks BY <1>12 DEF AdvanceRaises, WorkerOK, Advances
  <2>2. QED BY <1>12, <2>1, SubmissionFailed, TablesKept DEF AdvanceRaises, db
<1>13. ASSUME NEW c \in Captures, PublishOk(c) PROVE TablesOK'
  <2>1. cap' \in [Captures -> CaptureStatus]
    BY <1>13, CaptureMoved DEF PublishOk, CaptureStatus
  <2>2. QED BY <1>13, <2>1 DEF PublishOk, Publishable, TablesOK
<1>14. ASSUME NEW c \in Captures, PublishInvalid(c) PROVE TablesOK'
  <2>1. wf' \in [Workflows -> WorkflowStatus] BY <1>14 DEF PublishInvalid, TablesOK, WorkflowStatus
  <2>2. QED BY <1>14, <2>1 DEF PublishInvalid, TablesOK, CaptureStatus
<1>15. ASSUME UNCHANGED db PROVE TablesOK' BY <1>15, TablesKept
<1>16. QED
  BY <1>1, <1>2, <1>3, <1>4, <1>5, <1>6, <1>7, <1>8, <1>9, <1>10, <1>11, <1>12, <1>13, <1>14, <1>15
  DEF Cycle, EnterPlan, EnterDispatch, EnterPoll, EnterPublish, EnterBoot, StartWorker,
      PublishDeferred, CancelUnanswered, CancelBreaks, PollUnanswered, AdvanceRead, BootAdvance

(* ... and those of the person, of time and of a restart                    *)
LEMMA OtherTables ==
    ASSUME TypeOK, Next, ~Cycle
    PROVE  TablesOK'
<1>0. TablesOK /\ PersonOK BY DEF TypeOK
<1>. USE <1>0
<1>1. ASSUME NEW w \in Workflows, CancelWorkflow(w) PROVE TablesOK'
  <2>1. task' \in [Tasks -> TaskRows]
    BY <1>1, TaskTable, RowTyping, RowUpdates DEF CancelWorkflow, TaskStatus
  <2>2. cap' \in [Captures -> CaptureStatus]
    BY <1>1, IndexTyping, CaptureMoved DEF CancelWorkflow, CaptureStatus
  <2>3. wf' \in [Workflows -> WorkflowStatus] BY <1>1 DEF CancelWorkflow, TablesOK, WorkflowStatus
  <2>4. QED BY <1>1, <2>1, <2>2, <2>3 DEF CancelWorkflow, TablesOK
<1>2. ASSUME NEW w \in Workflows, ApproveDraft(w) \/ RejectDraft(w) PROVE TablesOK'
  <2>1. cap' \in [Captures -> CaptureStatus]
    BY <1>2, IndexTyping, CaptureMoved DEF ApproveDraft, RejectDraft, CaptureStatus, TablesOK
  <2>2. review' \in [Workflows -> {"none", "PENDING", "APPROVED", "REJECTED"}]
    BY <1>2 DEF ApproveDraft, RejectDraft, TablesOK
  <2>3. QED BY <1>2, <2>1, <2>2 DEF ApproveDraft, RejectDraft, TablesOK
<1>3. ASSUME NEW c \in Captures, CancelWaiting(c) PROVE TablesOK'
  BY <1>3 DEF CancelWaiting, TablesOK, CaptureStatus
<1>4. ASSUME NEW c \in Captures, ReopenCancelled(c) \/ Replan(c) \/ ReopenRejectedDraft(c)
      PROVE  TablesOK'
  <2>1. cap' = [cap EXCEPT ![c] = "PENDING"] /\ lastError' = [lastError EXCEPT ![c] = "none"]
    BY <1>4 DEF ReopenCancelled, Replan, ReopenRejectedDraft, ReopenFailedCapture
  <2>2. UNCHANGED <<wf, review, note, task>>
    BY <1>4 DEF ReopenCancelled, Replan, ReopenRejectedDraft
  <2>3. QED BY <2>1, <2>2 DEF TablesOK, CaptureStatus
<1>5. ASSUME NEW c \in Captures, IgnoreFailedCapture(c) PROVE TablesOK'
  <2>1. task' \in [Tasks -> TaskRows]
    BY <1>5, TaskTable, RowTyping, RowUpdates DEF IgnoreFailedCapture, TaskStatus
  <2>2. cap' \in [Captures -> CaptureStatus]
    BY <1>5 DEF IgnoreFailedCapture, TablesOK, CaptureStatus
  <2>3. wf' \in [Workflows -> WorkflowStatus]
    BY <1>5 DEF IgnoreFailedCapture, TablesOK, WorkflowStatus
  <2>4. QED BY <1>5, <2>1, <2>2, <2>3 DEF IgnoreFailedCapture, TablesOK
<1>6. ASSUME NEW t \in Tasks, RetryDue(t) PROVE TablesOK'
  <2>1. task' = [task EXCEPT ![t] = [task[t] EXCEPT !.wait = FALSE]]
    BY <1>6 DEF RetryDue, TablesOK
  <2>2. task' \in [Tasks -> TaskRows] BY <2>1, TaskTable, RowTyping, RowUpdates
  <2>3. QED BY <1>6, <2>2 DEF RetryDue, TablesOK
<1>7. ASSUME NEW t \in Tasks, RetryFailedTask(t) PROVE TablesOK'
  <2>0. t[1] \in Captures /\ WfOf(t) \in Workflows BY IndexTyping
  <2>1. Reopened(task[t], Retried(task[t].key, task[t].attempt)) \in TaskRows
    BY TaskTable, RowTyping, KeyTyping, RowReopened DEF TaskRows
  <2>2. task' \in [Tasks -> TaskRows]
    BY <1>7, <2>1, TaskTable DEF RetryFailedTask, TablesOK
  <2>3. cap' \in [Captures -> CaptureStatus]
    BY <1>7, <2>0 DEF RetryFailedTask, TablesOK, CaptureStatus
  <2>4. wf' \in [Workflows -> WorkflowStatus]
    BY <1>7, <2>0 DEF RetryFailedTask, TablesOK, WorkflowStatus
  <2>5. lastError' \in [Captures -> {"none", "CANCELLED", "other"}]
    BY <1>7, <2>0 DEF RetryFailedTask, TablesOK
  <2>6. QED BY <1>7, <2>2, <2>3, <2>4, <2>5 DEF RetryFailedTask, TablesOK
<1>8. ASSUME Restart PROVE TablesOK'
  <2>1. task' \in [Tasks -> TaskRows]
    BY <1>8, TaskTable, RowTyping, RowUpdates DEF Restart, TaskStatus
  <2>2. QED BY <1>8, <2>1 DEF Restart, TablesOK
<1>9. ASSUME UNCHANGED db PROVE TablesOK' BY <1>9, TablesKept
<1>10. QED
  BY <1>1, <1>2, <1>3, <1>4, <1>5, <1>6, <1>7, <1>8, <1>9
  DEF Next, Person, Offline, BrokerReceives, RetryTasks, ResendReady, SendNow, Crash

-----------------------------------------------------------------------------
(* The worker's queries only return documents and rows there are            *)
LEMMA QueriesTyping ==
    /\ Unplanned \subseteq Captures /\ DocsToPublish \subseteq Captures
    /\ Dispatchable \subseteq Tasks
    /\ TablesOK => \A T \in SUBSET Tasks : Snapshot(T) \subseteq Snapshots
    /\ \A T \in SUBSET Tasks : \A b \in Batches(T) : b \in SUBSET Tasks
BY DEF Unplanned, DocsToPublish, Dispatchable, Snapshot, Snapshots, TablesOK, TaskRows, Batches

(* The worker's state, when it begins nothing to await and visits less      *)
LEMMA WorkerVisits ==
    ASSUME WorkerOK, UNCHANGED exec, post' \in {post, None}, adv' \in {adv, None},
           pc' \in Stages, pc' = pc \/ pc' # "poll" \/ adv' = None,
           docs' \subseteq Captures, todo' \subseteq Snapshots
    PROVE  WorkerOK'
BY DEF WorkerOK

LEMMA WorkerKept ==
    ASSUME WorkerOK, UNCHANGED exec, UNCHANGED worker
    PROVE  WorkerOK'
BY DEF WorkerOK, worker

(* Every step keeps the worker's state well formed                          *)
LEMMA WorkerTyping ==
    ASSUME TypeOK, Next
    PROVE  WorkerOK'
<1>0. TablesOK /\ WorkerOK /\ pc \in Stages /\ docs \subseteq Captures /\ todo \subseteq Snapshots
  BY DEF TypeOK, WorkerOK
<1>. USE <1>0
<1>1. ASSUME EnterPlan \/ EnterBoot \/ StartWorker \/ Offline \/ EnterPublish \/ Restart
      PROVE  WorkerOK'
  <2>1. pc' \in Stages /\ (pc' = pc \/ pc' # "poll" \/ adv' = None)
    BY <1>1 DEF EnterPlan, EnterBoot, StartWorker, Offline, EnterPublish, Restart, Between, Ready,
                Stages, Startup, WorkerOK
  <2>2. QED
    BY <1>1, <2>1, QueriesTyping, WorkerVisits
    DEF EnterPlan, EnterBoot, StartWorker, Offline, EnterPublish, Restart
<1>2. ASSUME EnterCancel \/ EnterDispatch \/ EnterPoll PROVE WorkerOK'
  <2>1. todo' \subseteq Snapshots
    BY <1>2, QueriesTyping DEF EnterCancel, EnterDispatch, EnterPoll
  <2>2. pc' \in Stages /\ (pc' = pc \/ pc' # "poll" \/ adv' = None)
    BY <1>2 DEF EnterCancel, EnterDispatch, EnterPoll, Between, Ready, Stages
  <2>3. QED BY <1>2, <2>1, <2>2, WorkerVisits DEF EnterCancel, EnterDispatch, EnterPoll
<1>3. ASSUME NEW c \in Captures,
             PlanFails(c) \/ PublishOk(c) \/ PublishInvalid(c) \/ PublishDeferred(c)
      PROVE  WorkerOK'
  BY <1>3, WorkerVisits DEF PlanFails, PublishOk, PublishInvalid, PublishDeferred
<1>4. ASSUME NEW x \in todo,
             CancelUnanswered(x) \/ CancelBreaks(x) \/ PollUnanswered(x) \/ PollRefused(x)
      PROVE  WorkerOK'
  <2>1. pc' \in Stages /\ (pc' = pc \/ pc' # "poll" \/ adv' = None)
    BY <1>4 DEF CancelUnanswered, CancelBreaks, PollUnanswered, PollRefused, AbortCycle, Ready, Stages
  <2>2. QED
    BY <1>4, <2>1, WorkerVisits
    DEF CancelUnanswered, CancelBreaks, PollUnanswered, PollRefused, AbortCycle
<1>5. ASSUME PostAccepted \/ PostUnanswered \/ PostRefused \/ AdvanceFinish \/ AdvanceInsert
      PROVE  WorkerOK'
  BY <1>5, WorkerVisits
  DEF PostAccepted, PostUnanswered, PostRefused, AdvanceFinish, AdvanceInsert
<1>6. ASSUME AdvanceRaises PROVE WorkerOK'
  BY <1>6, WorkerVisits DEF AdvanceRaises, AbortCycle, Stages
<1>7. ASSUME Crash PROVE WorkerOK'
  BY <1>7, WorkerVisits DEF Crash, db, Stages
<1>8. ASSUME NEW c \in Captures, NEW r \in Revisions, PlanCapture(c, r) PROVE WorkerOK'
  <2>1. [wf |-> <<c, r>>, op |-> "finish", from |-> None] \in Advances
    BY IndexTyping DEF Advances
  <2>2. adv' \in Advances \cup {None} /\ pc # "poll" BY <1>8, <2>1 DEF PlanCapture, Startup
  <2>3. QED BY <1>8, <2>2 DEF PlanCapture, WorkerOK
<1>9. ASSUME NEW x \in todo, NEW a \in Answers, CancelAnswered(x, a) \/ PollAnswered(x, a)
      PROVE  WorkerOK'
  <2>1. x.task \in Tasks /\ WfOf(x.task) \in Workflows BY IndexTyping DEF Snapshots
  <2>2. [wf |-> WfOf(x.task), op |-> "read", from |-> x.task] \in Advances
    BY <2>1 DEF Advances
  <2>3. adv' = adv \/ adv' = [wf |-> WfOf(x.task), op |-> "read", from |-> x.task]
    BY <1>9 DEF CancelAnswered, PollAnswered, StartAdvance
  <2>4. /\ adv' \in Advances \cup {None}
        /\ pc = "poll" /\ adv' # None => adv'.from # None
    <3>1. CASE adv' = adv BY <3>1 DEF WorkerOK
    <3>2. CASE adv' # adv BY <1>9, <2>1, <2>2, <2>3, <3>2, NoneIsNoTask
    <3>3. QED BY <3>1, <3>2
  <2>5. exec' = [exec EXCEPT ![<<x.task, x.key>>] = IF a \in Outcomes THEN "ended" ELSE "live"]
    BY <1>9 DEF CancelAnswered, PollAnswered, BrokerAnswers
  <2>6. /\ DOMAIN exec' \subseteq Tasks \X Keys
        /\ \A y \in DOMAIN exec' : exec'[y] \in {"live", "ended"}
    BY <2>5 DEF WorkerOK
  <2>7. UNCHANGED <<pc, docs, post>> /\ todo' \subseteq todo
    BY <1>9 DEF CancelAnswered, PollAnswered
  <2>8. QED BY <2>4, <2>6, <2>7 DEF WorkerOK
<1>10. ASSUME NEW x \in todo, ClaimSubmission(x) PROVE WorkerOK'
  <2>1. x.task \in Tasks BY DEF Snapshots
  <2>2. post' \in Tasks \cup {None} BY <1>10, <2>1 DEF ClaimSubmission, WorkerOK
  <2>3. QED BY <1>10, <2>2 DEF ClaimSubmission, WorkerOK
<1>11. ASSUME BrokerReceives PROVE WorkerOK'
  <2>1. post \in Tasks BY <1>11 DEF BrokerReceives, WorkerOK
  <2>2. Execution(post) \in Tasks \X Keys
    <3>1. task[post] \in TaskRows BY <2>1, TaskTable, RowTyping
    <3>2. QED BY <2>1, <3>1 DEF Execution, TaskRows
  <2>3. /\ DOMAIN exec' \subseteq Tasks \X Keys
        /\ \A y \in DOMAIN exec' : exec'[y] \in {"live", "ended"}
    BY <1>11, <2>2 DEF BrokerReceives, WorkerOK
  <2>4. QED BY <1>11, <2>3 DEF BrokerReceives, WorkerOK, worker
<1>12. ASSUME AdvanceRead PROVE WorkerOK'
  <2>1. /\ adv' \in Advances \cup {None}
        /\ pc = "poll" /\ adv' # None => adv'.from # None
    BY <1>12 DEF AdvanceRead, WorkerOK, Advances
  <2>2. QED BY <1>12, <2>1 DEF AdvanceRead, WorkerOK
<1>13. ASSUME NEW w \in Workflows, BootAdvance(w) PROVE WorkerOK'
  <2>1. [wf |-> w, op |-> "read", from |-> None] \in Advances BY DEF Advances
  <2>2. QED BY <1>13, <2>1 DEF BootAdvance, WorkerOK
<1>14. ASSUME UNCHANGED exec, UNCHANGED worker PROVE WorkerOK' BY <1>14, WorkerKept
<1>15. QED
  BY <1>1, <1>2, <1>3, <1>4, <1>5, <1>6, <1>7, <1>8, <1>9, <1>10, <1>11, <1>12, <1>13, <1>14
  DEF Next, Cycle, Person, CancelWorkflow, RetryTasks, ResendReady, ApproveDraft, RejectDraft,
      CancelWaiting, ReopenCancelled, Replan, IgnoreFailedCapture, ReopenRejectedDraft, SendNow,
      RetryDue, RetryFailedTask

-----------------------------------------------------------------------------
(* ... and what the person asked for                                        *)
LEMMA PersonTyping ==
    ASSUME TypeOK, Next
    PROVE  PersonOK'
<1>0. PersonOK BY DEF TypeOK
<1>. USE <1>0
<1>1. ASSUME UNCHANGED crashes, Command, retrying' \subseteq Tasks, resent' \subseteq Tasks,
             requested' \subseteq Tasks
      PROVE  PersonOK'
  BY <1>1, BoundsAssumption DEF Command, PersonOK
<1>2. ASSUME NEW w \in Workflows,
             \/ CancelWorkflow(w) \/ RetryTasks(w) \/ ResendReady(w)
             \/ ApproveDraft(w) \/ RejectDraft(w)
      PROVE  PersonOK'
  <2>1. FailedTasks(w) \subseteq Tasks /\ ReadyTasks(w) \subseteq Tasks
    BY DEF FailedTasks, ReadyTasks, TasksOf
  <2>2. QED
    BY <1>1, <1>2, <2>1
    DEF PersonOK, CancelWorkflow, RetryTasks, ResendReady, ApproveDraft, RejectDraft
<1>3. ASSUME NEW c \in Captures,
             \/ CancelWaiting(c) \/ ReopenCancelled(c) \/ Replan(c)
             \/ IgnoreFailedCapture(c) \/ ReopenRejectedDraft(c)
      PROVE  PersonOK'
  BY <1>1, <1>3
  DEF PersonOK, CancelWaiting, ReopenCancelled, Replan, IgnoreFailedCapture, ReopenRejectedDraft
<1>4. ASSUME NEW t \in Tasks, SendNow(t) PROVE PersonOK'
  BY <1>1, <1>4 DEF PersonOK, SendNow
<1>5. ASSUME NEW t \in Tasks, RetryFailedTask(t) PROVE PersonOK'
  BY <1>5 DEF RetryFailedTask, PersonOK
<1>6. ASSUME EnterDispatch PROVE PersonOK' BY <1>6 DEF EnterDispatch, PersonOK
<1>7. ASSUME Crash PROVE PersonOK' BY <1>7, BoundsAssumption DEF Crash, PersonOK
<1>8. ASSUME UNCHANGED <<desktop, crashes>> PROVE PersonOK' BY <1>8 DEF desktop, PersonOK
<1>9. QED
  BY <1>2, <1>3, <1>4, <1>5, <1>6, <1>7, <1>8
  DEF Next, Person, Offline, BrokerReceives, RetryDue, Restart, Cycle,
      EnterPlan, EnterCancel, EnterPoll, EnterPublish, EnterBoot, StartWorker, PlanCapture,
      PlanFails, PublishOk, PublishInvalid, PublishDeferred, CancelUnanswered, CancelBreaks,
      PollUnanswered, PollRefused, ClaimSubmission, CancelAnswered, PollAnswered, PostAccepted,
      PostUnanswered, PostRefused, AdvanceRead, AdvanceFinish, AdvanceInsert, AdvanceRaises,
      BootAdvance

-----------------------------------------------------------------------------
LEMMA InitTyping ==
    ASSUME Init
    PROVE  TypeOK
<1>1. TablesOK BY RowTyping DEF Init, TablesOK, CaptureStatus, WorkflowStatus
<1>2. WorkerOK BY DEF Init, WorkerOK, Stages
<1>3. PersonOK BY BoundsAssumption DEF Init, PersonOK
<1>4. QED BY <1>1, <1>2, <1>3 DEF TypeOK

LEMMA StepTyping ==
    ASSUME TypeOK, [Next]_vars
    PROVE  TypeOK'
<1>1. CASE Next
  BY <1>1, CycleTables, OtherTables, WorkerTyping, PersonTyping DEF TypeOK
<1>2. CASE UNCHANGED vars
  <2>1. UNCHANGED db /\ UNCHANGED exec /\ UNCHANGED worker /\ UNCHANGED desktop /\ UNCHANGED crashes
    BY <1>2 DEF vars
  <2>2. PersonOK' BY <2>1 DEF TypeOK, PersonOK, desktop
  <2>3. QED BY <2>1, <2>2, TablesKept, WorkerKept DEF TypeOK
<1>3. QED BY <1>1, <1>2

(* Whatever the sizes, the bounds and the profile, every row of the tables, *)
(* everything the worker remembers while it awaits an answer and everything *)
(* the person asked for stays well formed.                                  *)
THEOREM TypeCorrect == Spec => []TypeOK
<1>1. Init => TypeOK BY InitTyping
<1>2. TypeOK /\ [Next]_vars => TypeOK' BY StepTyping
<1>3. QED BY <1>1, <1>2, PTL DEF Spec

-----------------------------------------------------------------------------
(* One workflow in force                                                          *)

InForce(w) == Live(w) \/ Current(w)

(* A step that only weakens what is in force                                *)
Weakens ==
    /\ \A w \in Workflows : Exists(w)' <=> Exists(w)
    /\ \A w \in Workflows : InForce(w)' => InForce(w)
    /\ \A c \in Captures : cap'[c] \in {"PENDING", "REJECTED"} => cap'[c] = cap[c]
    /\ retrying' \subseteq retrying

RevisionInv == RevisionsAreConsecutive /\ LastIsInForce /\ QueuedHasNone /\ RetriedIsLatest

LEMMA WeakeningKeeps ==
    ASSUME TypeOK, RevisionInv, Weakens
    PROVE  RevisionInv'
<1>. USE DEF RevisionInv, Weakens
<1>0. \A c \in Captures, r \in Revisions : <<c, r>> \in Workflows BY IndexTyping
<1>1. RevisionsAreConsecutive' BY <1>0 DEF RevisionsAreConsecutive
<1>2. LastIsInForce' BY <1>0 DEF LastIsInForce, InForce
<1>3. QueuedHasNone' BY <1>0 DEF QueuedHasNone, HasNoneInForce, InForce
<1>4. RetriedIsLatest'
  <2>1. \A t \in retrying : t[1] \in Captures /\ WfOf(t) \in Workflows
    BY IndexTyping DEF TypeOK, PersonOK
  <2>2. QED BY <2>1 DEF RetriedIsLatest, Latest
<1>5. QED BY <1>1, <1>2, <1>3, <1>4

LEMMA NothingMoves ==
    ASSUME UNCHANGED <<cap, wf, review>>, retrying' \subseteq retrying
    PROVE  Weakens
BY DEF Weakens, Exists, InForce, Live, Current

(* _fail_workflow, on a workflow there is                                   *)
LEMMA FailingWeakens ==
    ASSUME TypeOK, NEW w \in Workflows, Exists(w), NEW code, FailWorkflow(w, code),
           UNCHANGED <<review, retrying>>
    PROVE  Weakens
<1>0. w[1] \in Captures BY IndexTyping
<1>1. \A v \in Workflows : v # w \/ wf[w] = "CANCELLED" => wf'[v] = wf[v]
  BY DEF FailWorkflow, TypeOK, TablesOK
<1>2. wf[w] # "CANCELLED" => wf'[w] = "ERROR" BY DEF FailWorkflow, TypeOK, TablesOK
<1>3. \A c \in Captures : cap'[c] \in {cap[c], "FAILED"}
  BY <1>0 DEF FailWorkflow, TypeOK, TablesOK
<1>4. \A v \in Workflows : (Exists(v)' <=> Exists(v)) /\ (InForce(v)' => InForce(v))
  BY <1>1, <1>2 DEF Exists, InForce, Live, Current, LiveStatus
<1>5. QED BY <1>3, <1>4 DEF Weakens

LEMMA SubmissionErrorWeakens ==
    ASSUME TypeOK, NEW t \in Tasks, Exists(WfOf(t)), MarkSubmissionError(t),
           UNCHANGED <<review, retrying>>
    PROVE  Weakens
BY IndexTyping, FailingWeakens DEF MarkSubmissionError

LEMMA MovingWeakens ==
    ASSUME TypeOK, NEW c \in Captures, NEW from, NEW to \in CaptureStatus \ {"PENDING", "REJECTED"},
           MoveCapture(c, from, to)
    PROVE  \A d \in Captures : cap'[d] \in {"PENDING", "REJECTED"} => cap'[d] = cap[d]
BY DEF MoveCapture, TypeOK, TablesOK

(* apply_status fails a workflow or leaves it alone                         *)
LEMMA ApplyingWeakens ==
    ASSUME TypeOK, NEW t \in Tasks, Exists(WfOf(t)), NEW a \in Answers, ApplyStatus(t, a),
           UNCHANGED <<review, retrying>>
    PROVE  Weakens
<1>0. WfOf(t) \in Workflows /\ t[1] \in Captures BY IndexTyping
<1>1. CASE ApplyLate(t) \/ ApplyEnlarged(t, a) \/ ApplySuccess(t, a)
  BY <1>1, NothingMoves DEF ApplyLate, ApplyEnlarged, ApplySuccess
<1>2. CASE ApplyProgress(t, a)
  <2>1. \A d \in Captures : cap'[d] \in {"PENDING", "REJECTED"} => cap'[d] = cap[d]
    BY <1>0, <1>2, MovingWeakens DEF ApplyProgress, CaptureStatus
  <2>2. UNCHANGED wf BY <1>2 DEF ApplyProgress
  <2>3. QED BY <2>1, <2>2 DEF Weakens, Exists, InForce, Live, Current
<1>3. CASE ApplyFailure(t, a)
  BY <1>0, <1>3, NothingMoves, FailingWeakens DEF ApplyFailure
<1>4. CASE ApplyCancelled(t, a) BY <1>0, <1>4, FailingWeakens DEF ApplyCancelled
<1>5. QED BY <1>1, <1>2, <1>3, <1>4 DEF ApplyStatus

-----------------------------------------------------------------------------
(* What the worker awaits or visits belongs to a workflow there is          *)
LEMMA AwaitedExist ==
    ASSUME TypeOK, RowsHaveAWorkflow
    PROVE  /\ \A x \in todo : x.task \in Tasks /\ Exists(WfOf(x.task))
           /\ post # None => post \in Tasks /\ Exists(WfOf(post))
           /\ adv # None => adv.wf \in Workflows /\ Exists(adv.wf)
           /\ adv # None /\ pc = "poll" => adv.from \in Tasks /\ Exists(WfOf(adv.from))
BY DEF TypeOK, WorkerOK, Snapshots, Advances, RowsHaveAWorkflow

(* The worker's steps but planning weaken what is in force                  *)
LEMMA WorkerWeakens ==
    ASSUME TypeOK, RowsHaveAWorkflow, Cycle,
           ~ \E c \in Captures, r \in Revisions : PlanCapture(c, r)
    PROVE  Weakens
<1>1. ASSUME NEW c \in Captures, PlanFails(c) \/ PublishOk(c) PROVE Weakens
  <2>1. \A d \in Captures : cap'[d] \in {"PENDING", "REJECTED"} => cap'[d] = cap[d]
    BY <1>1, MovingWeakens DEF PlanFails, PublishOk, CaptureStatus
  <2>2. UNCHANGED <<wf, review, retrying>> BY <1>1 DEF PlanFails, PublishOk, desktop
  <2>3. QED BY <2>1, <2>2 DEF Weakens, Exists, InForce, Live, Current
<1>2. ASSUME NEW c \in Captures, PublishInvalid(c) PROVE Weakens
  <2>1. \A w \in Workflows : wf'[w] = wf[w] \/ (wf'[w] = "ERROR" /\ wf[w] = "SUCCESS")
    BY <1>2 DEF PublishInvalid, Publishable
  <2>2. UNCHANGED <<review, retrying>> BY <1>2 DEF PublishInvalid, desktop
  <2>3. \A d \in Captures : cap'[d] \in {cap[d], "FAILED"}
    BY <1>2 DEF PublishInvalid, TypeOK, TablesOK
  <2>4. QED BY <2>1, <2>2, <2>3 DEF Weakens, Exists, InForce, Live, Current, LiveStatus
<1>3. ASSUME NEW x \in todo, NEW a \in Answers, CancelAnswered(x, a) \/ PollAnswered(x, a)
      PROVE  Weakens
  BY <1>3, AwaitedExist, ApplyingWeakens DEF CancelAnswered, PollAnswered, desktop
<1>4. ASSUME NEW x \in todo, PollRefused(x) PROVE Weakens
  BY <1>4, AwaitedExist, SubmissionErrorWeakens DEF PollRefused, desktop
<1>5. ASSUME PostRefused \/ PostUnanswered PROVE Weakens
  BY <1>5, AwaitedExist, SubmissionErrorWeakens, NothingMoves
  DEF PostRefused, PostUnanswered, desktop
<1>6. ASSUME PostAccepted PROVE Weakens
  <2>0. post[1] \in Captures /\ WfOf(post) \in Workflows
    BY <1>6, AwaitedExist, IndexTyping DEF PostAccepted
  <2>1. UNCHANGED <<review, retrying>> BY <1>6 DEF PostAccepted, desktop
  <2>2. \A d \in Captures : cap'[d] \in {"PENDING", "REJECTED"} => cap'[d] = cap[d]
    BY <1>6, <2>0, MovingWeakens DEF PostAccepted, CaptureStatus
  <2>3. \A w \in Workflows : wf'[w] = wf[w] \/ (wf[w] = "PLANNED" /\ wf'[w] = "RUNNING")
    BY <1>6, <2>0 DEF PostAccepted, TypeOK, TablesOK
  <2>4. QED BY <2>1, <2>2, <2>3 DEF Weakens, Exists, InForce, Live, Current, LiveStatus
<1>7. ASSUME AdvanceFinish PROVE Weakens
  <2>0. adv.wf \in Workflows /\ adv.wf[1] \in Captures
    BY <1>7, AwaitedExist, IndexTyping DEF AdvanceFinish
  <2>1. \A d \in Captures : cap'[d] \in {"PENDING", "REJECTED"} => cap'[d] = cap[d]
    BY <1>7, <2>0, MovingWeakens DEF AdvanceFinish, CaptureStatus
  <2>2. \A w \in Workflows : Live(w) \/ (wf'[w] = wf[w] /\ review'[w] = review[w])
    BY <1>7, <2>0 DEF AdvanceFinish, TypeOK, TablesOK, Live
  <2>3. \A w \in Workflows : Live(w) => wf'[w] # "none"
    BY <1>7, <2>0 DEF AdvanceFinish, TypeOK, TablesOK, Live, LiveStatus
  <2>4. \A w \in Workflows : (Exists(w)' <=> Exists(w)) /\ (InForce(w)' => InForce(w))
    BY <2>2, <2>3 DEF Exists, InForce, Live, Current, LiveStatus
  <2>5. UNCHANGED retrying BY <1>7 DEF AdvanceFinish, desktop
  <2>6. QED BY <2>1, <2>4, <2>5 DEF Weakens
<1>8. ASSUME AdvanceRaises PROVE Weakens
  BY <1>8, AwaitedExist, SubmissionErrorWeakens, NothingMoves DEF AdvanceRaises, desktop
<1>9. ASSUME UNCHANGED <<cap, wf, review>>, retrying' \subseteq retrying PROVE Weakens
  BY <1>9, NothingMoves
<1>10. QED
  BY <1>1, <1>2, <1>3, <1>4, <1>5, <1>6, <1>7, <1>8, <1>9
  DEF Cycle, EnterPlan, EnterCancel, EnterDispatch, EnterPoll, EnterPublish, EnterBoot, StartWorker,
      PublishDeferred, CancelUnanswered, CancelBreaks, PollUnanswered, ClaimSubmission,
      AdvanceRead, AdvanceInsert, BootAdvance, db, desktop

(* The person's steps that weaken what is in force, and those of the rest   *)
LEMMA OthersWeaken ==
    ASSUME TypeOK, RowsHaveAWorkflow, Next, ~Cycle,
           ~ \E c \in Captures : ReopenCancelled(c) \/ Replan(c) \/ ReopenRejectedDraft(c),
           ~ \E w \in Workflows : RetryTasks(w) \/ RejectDraft(w),
           ~ \E t \in Tasks : RetryFailedTask(t)
    PROVE  Weakens
<1>1. ASSUME NEW w \in Workflows, CancelWorkflow(w) PROVE Weakens
  <2>1. \A d \in Captures : cap'[d] \in {"PENDING", "REJECTED"} => cap'[d] = cap[d]
    BY <1>1, IndexTyping, MovingWeakens DEF CancelWorkflow, CaptureStatus
  <2>2. \A v \in Workflows : wf'[v] = wf[v] \/ (Live(v) /\ wf'[v] = "CANCELLED")
    BY <1>1 DEF CancelWorkflow, TypeOK, TablesOK
  <2>3. UNCHANGED <<review, retrying>> BY <1>1 DEF CancelWorkflow
  <2>4. QED BY <2>1, <2>2, <2>3 DEF Weakens, Exists, InForce, Live, Current, LiveStatus
<1>2. ASSUME NEW w \in Workflows, ApproveDraft(w) PROVE Weakens
  <2>1. \A v \in Workflows : review'[v] = review[v] \/ review[v] = "PENDING"
    BY <1>2 DEF ApproveDraft, TypeOK, TablesOK
  <2>2. UNCHANGED <<cap, wf, retrying>> BY <1>2 DEF ApproveDraft
  <2>3. QED BY <2>1, <2>2 DEF Weakens, Exists, InForce, Live, Current
<1>3. ASSUME NEW c \in Captures, CancelWaiting(c) PROVE Weakens
  <2>1. \A d \in Captures : cap'[d] \in {cap[d], "CANCELLED"}
    BY <1>3 DEF CancelWaiting, TypeOK, TablesOK
  <2>2. UNCHANGED <<wf, review, retrying>> BY <1>3 DEF CancelWaiting
  <2>3. QED BY <2>1, <2>2 DEF Weakens, Exists, InForce, Live, Current
<1>4. ASSUME NEW c \in Captures, IgnoreFailedCapture(c) PROVE Weakens
  <2>1. \A d \in Captures : cap'[d] \in {cap[d], "CANCELLED"}
    BY <1>4 DEF IgnoreFailedCapture, TypeOK, TablesOK
  <2>2. \A v \in Workflows : wf'[v] = wf[v] \/ (wf[v] = "ERROR" /\ wf'[v] = "CANCELLED")
    BY <1>4 DEF IgnoreFailedCapture
  <2>3. UNCHANGED <<review, retrying>> BY <1>4 DEF IgnoreFailedCapture
  <2>4. QED BY <2>1, <2>2, <2>3 DEF Weakens, Exists, InForce, Live, Current, LiveStatus
<1>5. ASSUME UNCHANGED <<cap, wf, review>>, retrying' \subseteq retrying PROVE Weakens
  BY <1>5, NothingMoves
<1>6. ASSUME Crash PROVE Weakens BY <1>6, <1>5 DEF Crash, db
<1>7. QED
  BY <1>1, <1>2, <1>3, <1>4, <1>5, <1>6
  DEF Next, Person, Offline, BrokerReceives, ResendReady, SendNow, RetryDue, Restart, db, desktop

-----------------------------------------------------------------------------
(* Planning: the new workflow is the last one, and alone in force because   *)
(* the document was waiting                                                 *)
LEMMA PlanningKeeps ==
    ASSUME TypeOK, RevisionInv, NEW c \in Captures, NEW r \in Revisions, PlanCapture(c, r)
    PROVE  RevisionInv'
<1>0. \A d \in Captures, q \in Revisions : <<d, q>> \in Workflows BY IndexTyping
<1>1. \A d \in Captures, q \in Revisions :
          wf'[<<d, q>>] = IF d = c /\ q = r THEN "PLANNED" ELSE wf[<<d, q>>]
  BY <1>0 DEF PlanCapture, TypeOK, TablesOK
<1>2. \A d \in Captures : cap'[d] = IF d = c THEN "SUBMITTING" ELSE cap[d]
  BY DEF PlanCapture, TypeOK, TablesOK
<1>3. UNCHANGED <<review, retrying>> BY DEF PlanCapture, desktop
<1>4. /\ wf[<<c, r>>] = "none" /\ cap[c] = "PENDING"
      /\ \A q \in Revisions : q < r => Exists(<<c, q>>)
  BY DEF PlanCapture
<1>5. \A q \in Revisions : Exists(<<c, q>>) => q < r
  <2>1. SUFFICES ASSUME NEW q \in Revisions, Exists(<<c, q>>), ~(q < r) PROVE FALSE
    OBVIOUS
  <2>2. q # r BY <1>4, <2>1 DEF Exists
  <2>3. r < q BY <2>1, <2>2, BoundsAssumption DEF Revisions
  <2>4. QED BY <1>4, <2>1, <2>3 DEF RevisionInv, RevisionsAreConsecutive, Exists
<1>6. \A q \in Revisions : ~Live(<<c, q>>) /\ ~Current(<<c, q>>)
  BY <1>4 DEF RevisionInv, QueuedHasNone, HasNoneInForce
<1>7. RevisionsAreConsecutive'
  <2>1. SUFFICES ASSUME NEW d \in Captures, NEW p \in Revisions, NEW q \in Revisions,
                        p < q, Exists(<<d, q>>)'
                 PROVE  Exists(<<d, p>>)'
    BY DEF RevisionsAreConsecutive
  <2>2. CASE d = c /\ q = r
    BY <1>1, <1>4, <2>1, <2>2 DEF Exists
  <2>3. CASE ~(d = c /\ q = r)
    BY <1>1, <2>1, <2>3 DEF Exists, RevisionInv, RevisionsAreConsecutive
  <2>4. QED BY <2>2, <2>3
<1>8. LastIsInForce'
  <2>1. SUFFICES ASSUME NEW d \in Captures, NEW p \in Revisions, NEW q \in Revisions,
                        Live(<<d, p>>)' \/ Current(<<d, p>>)', Exists(<<d, q>>)'
                 PROVE  q <= p
    BY DEF LastIsInForce
  <2>2. CASE d # c
    BY <1>1, <1>3, <2>1, <2>2 DEF Exists, Live, Current, RevisionInv, LastIsInForce
  <2>3. CASE d = c
    <3>1. p = r BY <1>1, <1>3, <1>6, <2>1, <2>3 DEF Live, Current
    <3>2. q = r \/ q < r BY <1>1, <1>5, <2>1, <2>3 DEF Exists
    <3>3. QED BY <3>1, <3>2, BoundsAssumption DEF Revisions
  <2>4. QED BY <2>2, <2>3
<1>9. QueuedHasNone'
  BY <1>1, <1>2, <1>3 DEF RevisionInv, QueuedHasNone, HasNoneInForce, Live, Current
<1>10. RetriedIsLatest'
  <2>1. \A t \in retrying : t[1] \in Captures /\ WfOf(t) \in Workflows /\ t[1] # c
    BY <1>4, IndexTyping DEF TypeOK, PersonOK, RevisionInv, RetriedIsLatest
  <2>2. \A v \in Workflows : v[1] # c => wf'[v] = wf[v]
    BY <1>0 DEF PlanCapture, TypeOK, TablesOK
  <2>3. \A t \in retrying : WfOf(t)[1] = t[1] BY DEF WfOf
  <2>4. QED BY <1>2, <1>3, <2>1, <2>2, <2>3 DEF RevisionInv, RetriedIsLatest, Latest, Exists
<1>11. QED BY <1>7, <1>8, <1>9, <1>10 DEF RevisionInv

(* Reopening: reopen_failed_capture found none in force, and the draft that  *)
(* is reopened is a rejected one                                             *)
LEMMA ReopeningKeeps ==
    ASSUME TypeOK, RevisionInv, NEW c \in Captures,
           ReopenCancelled(c) \/ Replan(c) \/ ReopenRejectedDraft(c)
    PROVE  RevisionInv'
<1>1. UNCHANGED <<wf, review>> /\ retrying = {} /\ retrying' = {}
  BY DEF ReopenCancelled, Replan, ReopenRejectedDraft, Command
<1>2. \A d \in Captures : cap'[d] = IF d = c THEN "PENDING" ELSE cap[d]
  BY DEF ReopenCancelled, Replan, ReopenRejectedDraft, ReopenFailedCapture, TypeOK, TablesOK
<1>3. HasNoneInForce(c)
  <2>1. CASE ReopenRejectedDraft(c)
    BY <2>1 DEF ReopenRejectedDraft, RevisionInv, QueuedHasNone
  <2>2. CASE CanReopen(c) BY <2>2 DEF CanReopen, HasNoneInForce, Live, Current
  <2>3. QED BY <2>1, <2>2 DEF ReopenCancelled, Replan, ReopenFailedCapture
<1>4. RevisionsAreConsecutive' /\ LastIsInForce'
  BY <1>1 DEF RevisionInv, RevisionsAreConsecutive, LastIsInForce, Exists, Live, Current
<1>5. QueuedHasNone'
  BY <1>1, <1>2, <1>3 DEF RevisionInv, QueuedHasNone, HasNoneInForce, Live, Current
<1>6. QED BY <1>1, <1>4, <1>5 DEF RevisionInv, RetriedIsLatest

(* Retrying by hand: what is about to be reopened is the last revision, and   *)
(* it still is when its turn comes                                            *)
LEMMA RetryingKeeps ==
    ASSUME TypeOK, RevisionInv, NEW w \in Workflows, RetryTasks(w)
    PROVE  RevisionInv'
<1>1. UNCHANGED <<cap, wf, review>> BY DEF RetryTasks, db
<1>2. \A t \in retrying' : WfOf(t) = w BY DEF RetryTasks, FailedTasks, TasksOf
<1>3. cap[w[1]] # "PENDING" BY DEF RetryTasks, Resendable
<1>4. RetriedIsLatest'
  <2>1. \A t \in retrying' : t[1] = w[1] BY <1>2 DEF WfOf
  <2>2. Latest(w)' BY <1>1 DEF RetryTasks, Latest, Exists
  <2>3. QED BY <1>1, <1>2, <1>3, <2>1, <2>2 DEF RetriedIsLatest
<1>5. QED
  BY <1>1, <1>4
  DEF RevisionInv, RevisionsAreConsecutive, LastIsInForce, QueuedHasNone, HasNoneInForce,
      Exists, Live, Current

LEMMA ReopeningATaskKeeps ==
    ASSUME TypeOK, RevisionInv, NEW t \in Tasks, RetryFailedTask(t)
    PROVE  RevisionInv'
<1>0. t[1] \in Captures /\ t[2] \in Revisions /\ WfOf(t) = <<t[1], t[2]>> /\ WfOf(t) \in Workflows
  BY IndexTyping DEF WfOf
<1>1. UNCHANGED review /\ retrying' \subseteq retrying BY DEF RetryFailedTask
<1>2. CASE task[t].st # "ERROR"
  BY <1>1, <1>2, NothingMoves, WeakeningKeeps DEF RetryFailedTask
<1>3. CASE task[t].st = "ERROR"
  <2>1. \A d \in Captures, q \in Revisions :
            wf'[<<d, q>>] = IF d = t[1] /\ q = t[2] THEN "RUNNING" ELSE wf[<<d, q>>]
    <3>1. \A d \in Captures, q \in Revisions : <<d, q>> \in Workflows BY IndexTyping
    <3>2. wf' = [wf EXCEPT ![<<t[1], t[2]>>] = "RUNNING"] BY <1>0, <1>3 DEF RetryFailedTask
    <3>3. \A d, q : <<d, q>> = <<t[1], t[2]>> <=> d = t[1] /\ q = t[2] OBVIOUS
    <3>4. QED BY <1>0, <3>1, <3>2, <3>3 DEF TypeOK, TablesOK
  <2>2. \A d \in Captures : cap'[d] = IF d = t[1] THEN "SUBMITTING" ELSE cap[d]
    BY <1>3 DEF RetryFailedTask, TypeOK, TablesOK
  <2>3. Latest(WfOf(t)) BY DEF RetryFailedTask, RevisionInv, RetriedIsLatest
  <2>4. /\ Exists(<<t[1], t[2]>>)
        /\ \A q \in Revisions : Exists(<<t[1], q>>) => q <= t[2]
    BY <1>0, <2>3, IndexTyping DEF Latest
  <2>5. \A d \in Captures, q \in Revisions : Exists(<<d, q>>)' <=> Exists(<<d, q>>)
    BY <2>1, <2>4 DEF Exists
  <2>6. RevisionsAreConsecutive' BY <2>5 DEF RevisionInv, RevisionsAreConsecutive
  <2>7. LastIsInForce'
    <3>1. SUFFICES ASSUME NEW d \in Captures, NEW p \in Revisions, NEW q \in Revisions,
                          Live(<<d, p>>)' \/ Current(<<d, p>>)', Exists(<<d, q>>)'
                   PROVE  q <= p
      BY DEF LastIsInForce
    <3>2. CASE d = t[1] /\ p = t[2] BY <2>4, <2>5, <3>1, <3>2
    <3>3. CASE ~(d = t[1] /\ p = t[2])
      BY <1>1, <2>1, <2>5, <3>1, <3>3 DEF Live, Current, RevisionInv, LastIsInForce
    <3>4. QED BY <3>2, <3>3
  <2>8. QueuedHasNone'
    BY <1>1, <2>1, <2>2 DEF RevisionInv, QueuedHasNone, HasNoneInForce, Live, Current
  <2>9. RetriedIsLatest'
    <3>1. \A u \in retrying' : u[1] \in Captures /\ WfOf(u) \in Workflows
                               /\ cap[u[1]] # "PENDING" /\ Latest(WfOf(u))
      BY <1>1, IndexTyping DEF TypeOK, PersonOK, RevisionInv, RetriedIsLatest
    <3>2. \A v \in Workflows : Exists(v)' <=> Exists(v) BY <2>5 DEF Workflows
    <3>3. \A u \in retrying' : Latest(WfOf(u))' BY <3>1, <3>2 DEF Latest
    <3>4. QED BY <2>2, <3>1, <3>3 DEF RetriedIsLatest
  <2>10. QED BY <2>6, <2>7, <2>8, <2>9 DEF RevisionInv
<1>4. QED BY <1>2, <1>3

(* Discarding a draft: it was the result in force, so none remains            *)
LEMMA RejectingKeeps ==
    ASSUME TypeOK, RevisionInv, NEW w \in Workflows, RejectDraft(w)
    PROVE  RevisionInv'
<1>0. w[1] \in Captures /\ w[2] \in Revisions /\ w = <<w[1], w[2]>> BY DEF Workflows
<1>1. UNCHANGED wf /\ retrying = {} /\ retrying' = {} BY DEF RejectDraft, Command
<1>2. \A v \in Workflows : review'[v] = IF v = w THEN "REJECTED" ELSE review[v]
  BY DEF RejectDraft, TypeOK, TablesOK
<1>3. \A c \in Captures : c # w[1] => cap'[c] = cap[c]
  BY <1>0 DEF RejectDraft, MoveCapture, TypeOK, TablesOK
<1>4. cap'[w[1]] = cap[w[1]] \/ cap'[w[1]] = "REJECTED"
  BY <1>0 DEF RejectDraft, MoveCapture, TypeOK, TablesOK
<1>5. Current(w) BY DEF RejectDraft, Current
<1>6. \A q \in Revisions : Live(<<w[1], q>>) \/ Current(<<w[1], q>>) => q = w[2]
  <2>1. SUFFICES ASSUME NEW q \in Revisions, Live(<<w[1], q>>) \/ Current(<<w[1], q>>)
                 PROVE  q = w[2]
    OBVIOUS
  <2>2. Exists(<<w[1], q>>) /\ Exists(<<w[1], w[2]>>)
    BY <1>0, <1>5, <2>1 DEF Exists, Live, Current, LiveStatus
  <2>3. Current(<<w[1], w[2]>>) BY <1>0, <1>5
  <2>4. q <= w[2] /\ w[2] <= q
    BY <1>0, <2>1, <2>2, <2>3 DEF RevisionInv, LastIsInForce
  <2>5. q \in Nat /\ w[2] \in Nat BY <1>0, BoundsAssumption DEF Revisions
  <2>6. QED BY <2>4, <2>5
<1>7. ~Live(w) BY DEF RejectDraft, Live, LiveStatus
<1>8. RevisionsAreConsecutive' BY <1>1 DEF RevisionInv, RevisionsAreConsecutive, Exists
<1>9. \A c \in Captures, q \in Revisions : <<c, q>> \in Workflows BY IndexTyping
<1>10. LastIsInForce'
  BY <1>1, <1>2, <1>9 DEF RevisionInv, LastIsInForce, Exists, Live, Current
<1>11. HasNoneInForce(w[1])'
  <2>1. SUFFICES ASSUME NEW q \in Revisions PROVE ~Live(<<w[1], q>>)' /\ ~Current(<<w[1], q>>)'
    BY DEF HasNoneInForce
  <2>2. CASE q = w[2] BY <1>0, <1>1, <1>2, <1>7, <2>2 DEF Live, Current
  <2>3. CASE q # w[2] BY <1>0, <1>1, <1>2, <1>6, <1>9, <2>3 DEF Live, Current
  <2>4. QED BY <2>2, <2>3
<1>12. QueuedHasNone'
  <2>1. SUFFICES ASSUME NEW c \in Captures, cap'[c] \in {"PENDING", "REJECTED"}
                 PROVE  HasNoneInForce(c)'
    BY DEF QueuedHasNone
  <2>2. CASE c = w[1] BY <1>11, <2>2
  <2>3. CASE c # w[1]
    BY <1>1, <1>2, <1>3, <1>9, <2>1, <2>3
    DEF RevisionInv, QueuedHasNone, HasNoneInForce, Live, Current
  <2>4. QED BY <2>2, <2>3
<1>13. QED BY <1>1, <1>8, <1>10, <1>12 DEF RevisionInv, RetriedIsLatest

-----------------------------------------------------------------------------
(* No transaction deletes a workflow                                          *)
LEMMA WorkflowsStay ==
    ASSUME TypeOK, RowsHaveAWorkflow, Next, NEW w \in Workflows, Exists(w)
    PROVE  Exists(w)'
<1>1. CASE Weakens BY <1>1 DEF Weakens
<1>2. ASSUME NEW c \in Captures, NEW r \in Revisions, PlanCapture(c, r) PROVE Exists(w)'
  BY <1>2 DEF PlanCapture, Exists, TypeOK, TablesOK
<1>3. ASSUME NEW c \in Captures, ReopenCancelled(c) \/ Replan(c) \/ ReopenRejectedDraft(c)
      PROVE  Exists(w)'
  BY <1>3 DEF ReopenCancelled, Replan, ReopenRejectedDraft, Exists
<1>4. ASSUME NEW v \in Workflows, RetryTasks(v) \/ RejectDraft(v) PROVE Exists(w)'
  BY <1>4 DEF RetryTasks, RejectDraft, db, Exists
<1>5. ASSUME NEW t \in Tasks, RetryFailedTask(t) PROVE Exists(w)'
  BY <1>5, IndexTyping DEF RetryFailedTask, Exists, TypeOK, TablesOK
<1>6. QED BY <1>1, <1>2, <1>3, <1>4, <1>5, WorkerWeakens, OthersWeaken

(* A row is only inserted for a workflow there is                             *)
Inserts == \E t \in Tasks : task[t].st = "none" /\ task'[t].st # "none" /\ ~Exists(WfOf(t))'

LEMMA UpdateInsertsNone ==
    ASSUME TypeOK, RowsHaveAWorkflow, Next, NEW t \in Tasks, Exists(WfOf(t)),
           \A u \in Tasks : u # t => task'[u] = task[u]
    PROVE  ~Inserts
BY WorkflowsStay, IndexTyping DEF Inserts

LEMMA ApplyChangesOne ==
    ASSUME TypeOK, NEW t \in Tasks, NEW a, ApplyStatus(t, a) \/ MarkSubmissionError(t)
    PROVE  \A u \in Tasks : u # t => task'[u] = task[u]
BY DEF ApplyStatus, ApplyLate, ApplyEnlarged, ApplyProgress, ApplySuccess, ApplyFailure,
       ApplyCancelled, MarkSubmissionError, TypeOK, TablesOK

LEMMA RowsAreInsertedWell ==
    ASSUME TypeOK, RowsHaveAWorkflow, Next
    PROVE  ~Inserts
<1>1. ASSUME NEW c \in Captures, NEW r \in Revisions, PlanCapture(c, r) PROVE ~Inserts
  <2>1. Exists(<<c, r>>)' BY <1>1, IndexTyping DEF PlanCapture, Exists, TypeOK, TablesOK
  <2>2. \A t \in Tasks : WfOf(t) = <<c, r>> \/ task'[t] = task[t] BY <1>1 DEF PlanCapture
  <2>3. QED BY <2>1, <2>2 DEF Inserts
<1>2. ASSUME NEW x \in todo, NEW a \in Answers,
             CancelAnswered(x, a) \/ PollAnswered(x, a) \/ PollRefused(x)
      PROVE  ~Inserts
  BY <1>2, AwaitedExist, ApplyChangesOne, UpdateInsertsNone
  DEF CancelAnswered, PollAnswered, PollRefused
<1>3. ASSUME NEW x \in todo, PollRefused(x) PROVE ~Inserts
  BY <1>3, AwaitedExist, ApplyChangesOne, UpdateInsertsNone DEF PollRefused
<1>4. ASSUME NEW x \in todo, ClaimSubmission(x) PROVE ~Inserts
  <2>1. \A u \in Tasks : u # x.task => task'[u] = task[u]
    BY <1>4 DEF ClaimSubmission, TypeOK, TablesOK
  <2>2. QED BY <2>1, AwaitedExist, UpdateInsertsNone
<1>5. ASSUME PostAccepted \/ PostUnanswered \/ PostRefused PROVE ~Inserts
  <2>0. post \in Tasks /\ Exists(WfOf(post))
    BY <1>5, AwaitedExist DEF PostAccepted, PostUnanswered, PostRefused
  <2>1. \A u \in Tasks : u # post => task'[u] = task[u]
    BY <1>5, <2>0, ApplyChangesOne
    DEF PostAccepted, PostUnanswered, PostRefused, TypeOK, TablesOK
  <2>2. QED BY <2>0, <2>1, UpdateInsertsNone
<1>6. ASSUME AdvanceInsert PROVE ~Inserts
  <2>1. \A s : WfOf(TaskOf(adv.wf, s)) = adv.wf
    BY <1>6, AwaitedExist DEF AdvanceInsert, Workflows, WfOf, TaskOf
  <2>2. PICK t \in Tasks : WfOf(t) = adv.wf /\ \A u \in Tasks : u # t => task'[u] = task[u]
    BY <1>6, <2>1, AwaitedExist, IndexTyping DEF AdvanceInsert, TypeOK, TablesOK
  <2>3. QED BY <1>6, <2>2, AwaitedExist, UpdateInsertsNone DEF AdvanceInsert
<1>7. ASSUME AdvanceRaises PROVE ~Inserts
  <2>1. CASE MarkSubmissionError(adv.from) /\ pc = "poll"
    BY <1>7, <2>1, AwaitedExist, ApplyChangesOne, UpdateInsertsNone DEF AdvanceRaises
  <2>2. QED BY <1>7, <2>1 DEF AdvanceRaises, Inserts
<1>8. ASSUME \A t \in Tasks : task[t].st = "none" => task'[t].st = "none" PROVE ~Inserts
  BY <1>8 DEF Inserts
<1>9. ASSUME EnterCancel \/ Restart PROVE ~Inserts BY <1>9, <1>8 DEF EnterCancel, Restart
<1>10. ASSUME NEW w \in Workflows, CancelWorkflow(w) PROVE ~Inserts
  BY <1>10, <1>8 DEF CancelWorkflow
<1>11. ASSUME NEW c \in Captures, IgnoreFailedCapture(c) PROVE ~Inserts
  BY <1>11, <1>8 DEF IgnoreFailedCapture
<1>12. ASSUME NEW t \in Tasks, RetryDue(t) \/ RetryFailedTask(t) PROVE ~Inserts
  <2>1. \A u \in Tasks : u # t => task'[u] = task[u]
    BY <1>12 DEF RetryDue, RetryFailedTask, TypeOK, TablesOK
  <2>2. task[t].st = "none" => task'[t].st = "none"
    <3>1. task[t] \in TaskRows BY DEF TypeOK, TablesOK
    <3>2. RetryDue(t) => task'[t] = [task[t] EXCEPT !.wait = FALSE]
      BY DEF RetryDue, TypeOK, TablesOK
    <3>3. RetryFailedTask(t) /\ task[t].st = "none" => task' = task BY DEF RetryFailedTask
    <3>4. QED BY <1>12, <3>1, <3>2, <3>3 DEF TaskRows
  <2>3. QED BY <2>1, <2>2, <1>8
<1>13. ASSUME UNCHANGED task PROVE ~Inserts BY <1>13 DEF Inserts
<1>14. QED
  BY <1>1, <1>2, <1>3, <1>4, <1>5, <1>6, <1>7, <1>9, <1>10, <1>11, <1>12, <1>13
  DEF Next, Cycle, Person, Offline, BrokerReceives, Crash, db, EnterPlan, EnterDispatch, EnterPoll,
      EnterPublish, EnterBoot, StartWorker, PlanFails, PublishOk, PublishInvalid, PublishDeferred,
      CancelUnanswered, CancelBreaks, PollUnanswered, AdvanceRead, AdvanceFinish, BootAdvance,
      RetryTasks, ResendReady, ApproveDraft, RejectDraft, CancelWaiting, ReopenCancelled, Replan,
      ReopenRejectedDraft, SendNow

LEMMA RowsKeep ==
    ASSUME TypeOK, RowsHaveAWorkflow, Next
    PROVE  RowsHaveAWorkflow'
<1>0. TypeOK' BY StepTyping
<1>1. ASSUME \A x \in todo' : x \in todo \/ Exists(WfOf(x.task)),
             post' \in {post, None} \/ Exists(WfOf(post')),
             \/ adv' \in {adv, None}
             \/ /\ adv'.wf \in Workflows /\ wf'[adv'.wf] # "none"
                /\ adv'.from # None => Exists(WfOf(adv'.from))
      PROVE  RowsHaveAWorkflow'
  <2>1. \A w \in Workflows : Exists(w) => Exists(w)' BY WorkflowsStay
  <2>2. \A t \in Tasks : task'[t].st # "none" => Exists(WfOf(t))'
    BY <2>1, RowsAreInsertedWell, IndexTyping DEF RowsHaveAWorkflow, Inserts
  <2>3. \A x \in todo' : Exists(WfOf(x.task))'
    BY <1>0, <1>1, <2>1, IndexTyping DEF TypeOK, WorkerOK, Snapshots, RowsHaveAWorkflow
  <2>4. (post # None => Exists(WfOf(post)))'
    BY <1>0, <1>1, <2>1, IndexTyping DEF TypeOK, WorkerOK, RowsHaveAWorkflow, Exists
  <2>5. (adv # None => Exists(adv.wf) /\ (adv.from # None => Exists(WfOf(adv.from))))'
    <3>1. adv' # None => wf'[adv'.wf] # "none"
      BY <1>0, <1>1, <2>1, AwaitedExist DEF Exists
    <3>2. adv' # None /\ adv'.from # None => adv'.from \in Tasks /\ Exists(WfOf(adv'.from))
      BY <1>0, <1>1 DEF TypeOK, WorkerOK, Advances, RowsHaveAWorkflow
    <3>3. adv' # None /\ adv'.from # None => wf'[WfOf(adv'.from)] # "none"
      BY <2>1, <3>2, IndexTyping DEF Exists
    <3>4. QED BY <3>1, <3>3 DEF Exists
  <2>6. QED BY <2>2, <2>3, <2>4, <2>5 DEF RowsHaveAWorkflow
<1>2. ASSUME NEW T \in SUBSET Tasks, \A t \in T : task[t].st # "none", todo' = Snapshot(T),
             UNCHANGED <<post, adv>>
      PROVE  RowsHaveAWorkflow'
  BY <1>1, <1>2 DEF Snapshot, RowsHaveAWorkflow
<1>3. ASSUME EnterCancel \/ EnterPoll PROVE RowsHaveAWorkflow'
  BY <1>2, <1>3 DEF EnterCancel, EnterPoll, PolledStatus
<1>4. ASSUME EnterDispatch PROVE RowsHaveAWorkflow'
  <2>1. \A t \in Dispatchable : t \in Tasks /\ task[t].st # "none" BY DEF Dispatchable
  <2>2. PICK T \in SUBSET Dispatchable : todo' = Snapshot(T) BY <1>4 DEF EnterDispatch, Batches
  <2>3. QED BY <1>2, <1>4, <2>1, <2>2 DEF EnterDispatch
<1>5. ASSUME NEW x \in todo, NEW a \in Answers, CancelAnswered(x, a) \/ PollAnswered(x, a)
      PROVE  RowsHaveAWorkflow'
  <2>1. adv' = adv \/ adv' = [wf |-> WfOf(x.task), op |-> "read", from |-> x.task]
    BY <1>5 DEF CancelAnswered, PollAnswered, StartAdvance
  <2>2. wf'[WfOf(x.task)] # "none" /\ WfOf(x.task) \in Workflows
    BY AwaitedExist, WorkflowsStay, IndexTyping DEF Exists
  <2>3. QED BY <1>1, <1>5, <2>1, <2>2, AwaitedExist DEF CancelAnswered, PollAnswered
<1>6. ASSUME NEW c \in Captures, NEW r \in Revisions, PlanCapture(c, r)
      PROVE  RowsHaveAWorkflow'
  <2>1. wf'[<<c, r>>] # "none" BY <1>6, IndexTyping DEF PlanCapture, TypeOK, TablesOK
  <2>2. QED BY <1>1, <1>6, <2>1, IndexTyping DEF PlanCapture
<1>7. ASSUME NEW x \in todo, ClaimSubmission(x) PROVE RowsHaveAWorkflow'
  BY <1>1, <1>7, AwaitedExist DEF ClaimSubmission
<1>8. ASSUME AdvanceRead PROVE RowsHaveAWorkflow'
  <2>1. adv' = None \/ (adv'.wf = adv.wf /\ adv'.from = adv.from)
    BY <1>8 DEF AdvanceRead, TypeOK, WorkerOK, Advances
  <2>2. adv.wf \in Workflows /\ wf'[adv.wf] # "none"
    BY <1>8, AwaitedExist, WorkflowsStay DEF AdvanceRead, Exists
  <2>3. adv.from # None => Exists(WfOf(adv.from)) BY <1>8 DEF AdvanceRead, RowsHaveAWorkflow
  <2>4. QED BY <1>1, <1>8, <2>1, <2>2, <2>3 DEF AdvanceRead
<1>9. ASSUME NEW w \in Workflows, BootAdvance(w) PROVE RowsHaveAWorkflow'
  <2>1. wf'[w] # "none" BY <1>9, WorkflowsStay DEF BootAdvance, Exists, Live, LiveStatus
  <2>2. QED BY <1>1, <1>9, <2>1 DEF BootAdvance
<1>10. ASSUME todo' \subseteq todo, post' \in {post, None}, adv' \in {adv, None}
       PROVE  RowsHaveAWorkflow'
  BY <1>1, <1>10
<1>11. QED
  BY <1>3, <1>4, <1>5, <1>6, <1>7, <1>8, <1>9, <1>10
  DEF Next, Cycle, Person, worker, EnterPlan, EnterPublish, EnterBoot, StartWorker, PlanFails,
      PublishOk, PublishInvalid, PublishDeferred, CancelUnanswered, CancelBreaks, AbortCycle,
      PollUnanswered, PollRefused, PostAccepted, PostUnanswered, PostRefused, AdvanceFinish,
      AdvanceInsert, AdvanceRaises, Offline, BrokerReceives, Restart, Crash, CancelWorkflow,
      RetryTasks, ResendReady, ApproveDraft, RejectDraft, CancelWaiting, ReopenCancelled, Replan,
      IgnoreFailedCapture, ReopenRejectedDraft, SendNow, RetryDue, RetryFailedTask

-----------------------------------------------------------------------------
LEMMA LastRevisionInit ==
    ASSUME Init
    PROVE  LastRevisionInv
BY DEF Init, LastRevisionInv, RevisionsAreConsecutive, RowsHaveAWorkflow, LastIsInForce,
       QueuedHasNone, HasNoneInForce, RetriedIsLatest, Exists, Live, Current, LiveStatus,
       Workflows, NoRow, Tasks, WfOf

LEMMA LastRevisionStep ==
    ASSUME TypeOK, LastRevisionInv, [Next]_vars
    PROVE  LastRevisionInv'
<1>0. RevisionInv /\ RowsHaveAWorkflow BY DEF LastRevisionInv, RevisionInv
<1>1. CASE Next
  <2>1. RowsHaveAWorkflow' BY <1>0, <1>1, RowsKeep
  <2>2. RevisionInv'
    BY <1>0, <1>1, WorkerWeakens, OthersWeaken, WeakeningKeeps, PlanningKeeps, ReopeningKeeps,
       RetryingKeeps, ReopeningATaskKeeps, RejectingKeeps
  <2>3. QED BY <2>1, <2>2 DEF LastRevisionInv, RevisionInv
<1>2. CASE UNCHANGED vars
  <2>1. UNCHANGED <<cap, wf, review, task, todo, post, adv, retrying>>
    BY <1>2 DEF vars, db, worker, desktop
  <2>2. RevisionInv' BY <1>0, <2>1, NothingMoves, WeakeningKeeps
  <2>3. RowsHaveAWorkflow' BY <1>0, <2>1 DEF RowsHaveAWorkflow, Exists
  <2>4. QED BY <2>2, <2>3 DEF LastRevisionInv, RevisionInv
<1>3. QED BY <1>1, <1>2

(* The workflow that is alive, or whose result is in force, is always the     *)
(* document's last revision, whatever planning, reopening, retrying by hand   *)
(* and a restart do in between.                                               *)
THEOREM LastRevision == Spec => []LastRevisionInv
<1>1. Init => LastRevisionInv BY LastRevisionInit
<1>2. TypeOK /\ LastRevisionInv /\ [Next]_vars => LastRevisionInv' BY LastRevisionStep
<1>3. QED BY <1>1, <1>2, TypeCorrect, PTL DEF Spec

(* create_workflow and retry_failed_task do not look for a workflow alive, and *)
(* yet a document never has two.                                              *)
THEOREM OneLiveWorkflow == Spec => []AtMostOneLive
<1>1. LastRevisionInv => AtMostOneLive
  <2>1. SUFFICES ASSUME LastRevisionInv, NEW v \in Workflows, NEW w \in Workflows,
                        v[1] = w[1], Live(v), Live(w)
                 PROVE  v = w
    BY DEF AtMostOneLive
  <2>2. v = <<v[1], v[2]>> /\ w = <<v[1], w[2]>> /\ v[1] \in Captures
        /\ v[2] \in Revisions /\ w[2] \in Revisions
    BY <2>1 DEF Workflows
  <2>3. Exists(v) /\ Exists(w) BY <2>1 DEF Live, LiveStatus, Exists
  <2>4. w[2] <= v[2] /\ v[2] <= w[2]
    BY <2>1, <2>2, <2>3 DEF LastRevisionInv, LastIsInForce
  <2>5. v[2] = w[2] BY <2>2, <2>4, BoundsAssumption DEF Revisions
  <2>6. QED BY <2>2, <2>5
<1>2. QED BY <1>1, LastRevision, PTL

(* The planner's query returns every document that waits in the local queue.  *)
THEOREM PendingIsPlanned == Spec => []NothingPendingIsHidden
<1>1. LastRevisionInv => NothingPendingIsHidden
  BY DEF LastRevisionInv, QueuedHasNone, HasNoneInForce, NothingPendingIsHidden, Unplanned
<1>2. QED BY <1>1, LastRevision, PTL

-----------------------------------------------------------------------------
(* While the worker asks about tasks, nobody touches what it remembers of    *)
(* them, and a task is asked about only once per query                      *)
Polling == pc \in {"cancel", "poll"}

RememberedIsFresh ==
    Polling => \A x \in todo : /\ task[x.task].st \in PolledStatus
                               /\ x.key = task[x.task].key /\ x.id = task[x.task].id
AdvancedIsVisited == Polling /\ adv # None => \A x \in todo : x.task # adv.from
PostIsOnItsWay    == post # None => Dispatching /\ task[post].st \in {"SUBMITTING", "CANCEL_REQUESTED"}
OneThingAtATime   == Dispatching => adv = None

AwaitedInv == RememberedIsFresh /\ AdvancedIsVisited /\ PostIsOnItsWay /\ OneThingAtATime

(* A step that disturbs no row the worker may be waiting for                *)
RowKept(t) ==
    /\ task'[t].key = task[t].key /\ task'[t].id = task[t].id
    /\ task[t].st = "none" <=> task'[t].st = "none"
    /\ task[t].st = "SUCCESS" <=> task'[t].st = "SUCCESS"
    /\ task[t].st \in PolledStatus => task'[t].st \in PolledStatus
    /\ task[t].st \in {"SUBMITTING", "CANCEL_REQUESTED"} =>
           task'[t].st \in {"SUBMITTING", "CANCEL_REQUESTED"}
    /\ task'[t].st \in InFlightStatus => task[t].st \in InFlightStatus
RowsKept == \A t \in Tasks : RowKept(t)

LEMMA RowOf == ASSUME TypeOK, NEW t \in Tasks PROVE task[t] \in TaskRows
BY DEF TypeOK, TablesOK

LEMMA SameRowKept == ASSUME NEW t, task'[t] = task[t] PROVE RowKept(t)
BY DEF RowKept

(* The person's commands and time                                           *)
LEMMA PersonKeepsRows ==
    ASSUME TypeOK, Person \/ \E t \in Tasks : RetryDue(t)
    PROVE  RowsKept /\ UNCHANGED <<exec, worker>>
<1>1. ASSUME NEW w \in Workflows, CancelWorkflow(w) PROVE RowsKept /\ UNCHANGED <<exec, worker>>
  <2>1. SUFFICES ASSUME NEW t \in Tasks PROVE RowKept(t)
    BY <1>1 DEF RowsKept, CancelWorkflow
  <2>2. task[t] \in TaskRows BY RowOf
  <2>3. QED BY <1>1, <2>2 DEF CancelWorkflow, RowKept, TaskRows, InFlightStatus, PolledStatus
<1>2. ASSUME NEW c \in Captures, IgnoreFailedCapture(c) PROVE RowsKept /\ UNCHANGED <<exec, worker>>
  <2>1. SUFFICES ASSUME NEW t \in Tasks PROVE RowKept(t)
    BY <1>2 DEF RowsKept, IgnoreFailedCapture
  <2>2. task[t] \in TaskRows BY RowOf
  <2>3. QED BY <1>2, <2>2 DEF IgnoreFailedCapture, RowKept, TaskRows, InFlightStatus, PolledStatus
<1>3. ASSUME NEW u \in Tasks, RetryDue(u) PROVE RowsKept /\ UNCHANGED <<exec, worker>>
  <2>1. SUFFICES ASSUME NEW t \in Tasks PROVE RowKept(t)
    BY <1>3 DEF RowsKept, RetryDue
  <2>2. task'[t] = task[t] \/ task'[t] = [task[t] EXCEPT !.wait = FALSE]
    BY <1>3 DEF RetryDue, TypeOK, TablesOK
  <2>3. task[t] \in TaskRows BY RowOf
  <2>4. QED BY <2>2, <2>3 DEF RowKept, TaskRows
<1>4. ASSUME UNCHANGED task, UNCHANGED <<exec, worker>> PROVE RowsKept /\ UNCHANGED <<exec, worker>>
  BY <1>4, SameRowKept DEF RowsKept
<1>5. QED
  BY <1>1, <1>2, <1>3, <1>4
  DEF Person, RetryTasks, ResendReady, ApproveDraft, RejectDraft, CancelWaiting, ReopenCancelled,
      Replan, ReopenRejectedDraft, SendNow, db

(* A step that leaves alone the rows of what is still to be visited          *)
LEMMA VisitingLess ==
    ASSUME TypeOK, AwaitedInv, pc' = pc, todo' \subseteq todo, post' \in {post, None},
           \A y \in todo' : Polling => RowKept(y.task),
           post' # None => RowKept(post'),
           \/ adv' = None
           \/ adv # None /\ adv'.from = adv.from
           \/ Polling /\ \A y \in todo' : y.task # adv'.from
    PROVE  AwaitedInv'
<1>. USE DEF AwaitedInv, RowKept, Polling, Dispatching
<1>1. RememberedIsFresh' BY DEF RememberedIsFresh
<1>2. AdvancedIsVisited' BY DEF AdvancedIsVisited
<1>3. PostIsOnItsWay' BY DEF PostIsOnItsWay
<1>4. OneThingAtATime' BY DEF OneThingAtATime
<1>5. QED BY <1>1, <1>2, <1>3, <1>4

LEMMA RowsKeptVisiting ==
    ASSUME TypeOK, AwaitedInv, RowsKept, pc' = pc, todo' \subseteq todo, post' \in {post, None},
           adv' = None \/ (adv # None /\ adv'.from = adv.from)
    PROVE  AwaitedInv'
<1>1. \A y \in todo : RowKept(y.task) BY DEF TypeOK, WorkerOK, Snapshots, RowsKept
<1>2. post # None => RowKept(post) BY DEF TypeOK, WorkerOK, RowsKept
<1>3. QED BY <1>1, <1>2, VisitingLess

(* A stage that asks the Broker for nothing                                  *)
LEMMA AwayFromTheBroker ==
    ASSUME post' = None, pc' \notin {"cancel", "poll", "dispatch", "urgent"}
    PROVE  AwaitedInv'
BY DEF AwaitedInv, RememberedIsFresh, AdvancedIsVisited, PostIsOnItsWay, OneThingAtATime,
       Polling, Dispatching

(* A query remembers the rows as they are                                    *)
LEMMA FreshSnapshot ==
    ASSUME TypeOK, NEW T \in SUBSET Tasks, todo' = Snapshot(T), adv' = None, post' = None,
           \A t \in T : task'[t] = task[t] /\ task[t].st \in PolledStatus
    PROVE  AwaitedInv'
BY DEF AwaitedInv, RememberedIsFresh, AdvancedIsVisited, PostIsOnItsWay, OneThingAtATime,
       Polling, Dispatching, Snapshot

(* The worker asks about a task at most once in a stage                      *)
LEMMA VisitedOnce ==
    ASSUME TypeOK, AwaitedInv, Polling, NEW x \in todo, NEW y \in todo, x.task = y.task
    PROVE  x = y
<1>1. x.key = y.key /\ x.id = y.id BY DEF AwaitedInv, RememberedIsFresh
<1>2. x \in Snapshots /\ y \in Snapshots BY DEF TypeOK, WorkerOK
<1>3. QED BY <1>1, <1>2 DEF Snapshots

LEMMA AnswersKeepAwaited ==
    ASSUME TypeOK, AwaitedInv, NEW x \in todo,
           \/ PollRefused(x)
           \/ \E a \in Answers : CancelAnswered(x, a) \/ PollAnswered(x, a)
    PROVE  AwaitedInv'
<1>1. /\ Polling /\ Ready /\ pc' = pc /\ post' = post /\ todo' = todo \ {x}
      /\ adv' = adv \/ adv' = [wf |-> WfOf(x.task), op |-> "read", from |-> x.task]
  BY DEF PollRefused, CancelAnswered, PollAnswered, StartAdvance, Polling
<1>2. x.task \in Tasks /\ \A y \in todo : y.task \in Tasks BY DEF TypeOK, WorkerOK, Snapshots
<1>3. \A u \in Tasks : u # x.task => task'[u] = task[u]
  BY <1>2, ApplyChangesOne DEF PollRefused, CancelAnswered, PollAnswered
<1>4. \A y \in todo' : y.task # x.task BY <1>1, VisitedOnce
<1>5. \A y \in todo' : RowKept(y.task) BY <1>1, <1>2, <1>3, <1>4, SameRowKept
<1>6. QED BY <1>1, <1>4, <1>5, VisitingLess DEF Ready

LEMMA AwaitedKept ==
    ASSUME TypeOK, AwaitedInv, Next
    PROVE  AwaitedInv'
<1>1. ASSUME \/ EnterPlan \/ EnterPublish \/ EnterBoot \/ StartWorker \/ Offline \/ Restart \/ Crash
             \/ \E x \in todo : CancelBreaks(x)
      PROVE  AwaitedInv'
  <2>1. post' = None
    BY <1>1 DEF EnterPlan, EnterPublish, EnterBoot, StartWorker, Offline, Restart, Crash,
                CancelBreaks, Between, Ready, AwaitedInv, PostIsOnItsWay, Dispatching
  <2>2. pc' \notin {"cancel", "poll", "dispatch", "urgent"}
    BY <1>1 DEF EnterPlan, EnterPublish, EnterBoot, StartWorker, Offline, Restart, Crash,
                CancelBreaks, AbortCycle
  <2>3. QED BY <2>1, <2>2, AwayFromTheBroker
<1>2. ASSUME \/ \E c \in Captures : \/ PlanFails(c) \/ PublishOk(c) \/ PublishInvalid(c)
                                     \/ PublishDeferred(c) \/ \E r \in Revisions : PlanCapture(c, r)
             \/ \E w \in Workflows : BootAdvance(w)
      PROVE  AwaitedInv'
  BY <1>2, AwayFromTheBroker
  DEF PlanFails, PublishOk, PublishInvalid, PublishDeferred, PlanCapture, BootAdvance, Ready
<1>3. ASSUME EnterPoll PROVE AwaitedInv'
  BY <1>3, FreshSnapshot DEF EnterPoll, db, Ready
<1>4. ASSUME EnterCancel PROVE AwaitedInv'
  <2>1. \A t \in Tasks : task[t].id => task'[t] = task[t] BY <1>4 DEF EnterCancel
  <2>2. QED BY <1>4, <2>1, FreshSnapshot DEF EnterCancel, Between, Ready, PolledStatus
<1>5. ASSUME EnterDispatch PROVE AwaitedInv'
  BY <1>5
  DEF EnterDispatch, Between, Ready, AwaitedInv, RememberedIsFresh, AdvancedIsVisited,
      PostIsOnItsWay, OneThingAtATime, Polling, Dispatching
<1>6. ASSUME NEW x \in todo, ClaimSubmission(x) PROVE AwaitedInv'
  <2>1. x.task \in Tasks /\ task[x.task] \in TaskRows
    BY RowOf DEF TypeOK, WorkerOK, Snapshots
  <2>2. post' # None => task'[post'].st = "SUBMITTING"
    BY <1>6, <2>1 DEF ClaimSubmission, Ready, TypeOK, TablesOK, TaskRows
  <2>3. QED
    BY <1>6, <2>2
    DEF ClaimSubmission, Ready, AwaitedInv, RememberedIsFresh, AdvancedIsVisited, PostIsOnItsWay,
        OneThingAtATime, Polling, Dispatching
<1>7. ASSUME PostAccepted \/ PostUnanswered \/ PostRefused PROVE AwaitedInv'
  <2>1. Dispatching /\ pc' = pc /\ post' = None /\ adv' = adv
    BY <1>7 DEF PostAccepted, PostUnanswered, PostRefused, AwaitedInv, PostIsOnItsWay
  <2>2. QED
    BY <2>1 DEF AwaitedInv, RememberedIsFresh, AdvancedIsVisited, PostIsOnItsWay, OneThingAtATime,
                Polling, Dispatching
<1>8. ASSUME NEW x \in todo, CancelUnanswered(x) \/ PollUnanswered(x) PROVE AwaitedInv'
  <2>1. RowsKept BY <1>8, SameRowKept DEF CancelUnanswered, PollUnanswered, db, RowsKept
  <2>2. QED BY <1>8, <2>1, RowsKeptVisiting DEF CancelUnanswered, PollUnanswered, Ready
<1>9. ASSUME AdvanceRead \/ AdvanceFinish PROVE AwaitedInv'
  <2>1. RowsKept BY <1>9, SameRowKept DEF AdvanceRead, AdvanceFinish, db, RowsKept
  <2>2. adv' = None \/ (adv # None /\ adv'.from = adv.from)
    BY <1>9 DEF AdvanceRead, AdvanceFinish, TypeOK, WorkerOK, Advances
  <2>3. QED BY <1>9, <2>1, <2>2, RowsKeptVisiting DEF AdvanceRead, AdvanceFinish
<1>10. ASSUME AdvanceInsert PROVE AwaitedInv'
  <2>1. \A t \in Tasks : task[t].st # "none" => task'[t] = task[t]
    BY <1>10 DEF AdvanceInsert, TypeOK, TablesOK
  <2>2. \A y \in todo : Polling => RowKept(y.task)
    BY <2>1, SameRowKept
    DEF TypeOK, WorkerOK, Snapshots, AwaitedInv, RememberedIsFresh, PolledStatus
  <2>3. post = None BY <1>10 DEF AdvanceInsert, AwaitedInv, PostIsOnItsWay, OneThingAtATime
  <2>4. QED BY <1>10, <2>2, <2>3, VisitingLess DEF AdvanceInsert
<1>11. ASSUME AdvanceRaises PROVE AwaitedInv'
  <2>1. post = None BY <1>11 DEF AdvanceRaises, AwaitedInv, PostIsOnItsWay, OneThingAtATime
  <2>2. CASE pc = "poll"
    <3>1. adv.from \in Tasks BY <1>11, <2>2 DEF AdvanceRaises, TypeOK, WorkerOK, Advances
    <3>2. \A u \in Tasks : u # adv.from => task'[u] = task[u]
      BY <1>11, <2>2, <3>1, ApplyChangesOne DEF AdvanceRaises
    <3>3. \A y \in todo : RowKept(y.task)
      BY <1>11, <2>2, <3>2, SameRowKept
      DEF AdvanceRaises, TypeOK, WorkerOK, Snapshots, AwaitedInv, AdvancedIsVisited, Polling
    <3>4. QED BY <1>11, <2>1, <2>2, <3>3, VisitingLess DEF AdvanceRaises
  <2>3. CASE pc # "poll"
    BY <1>11, <2>1, <2>3, AwayFromTheBroker DEF AdvanceRaises, AbortCycle
  <2>4. QED BY <2>2, <2>3
<1>12. ASSUME NEW t \in Tasks, RetryFailedTask(t) PROVE AwaitedInv'
  <2>1. \A u \in Tasks : task[u].st # "ERROR" => task'[u] = task[u]
    BY <1>12 DEF RetryFailedTask, TypeOK, TablesOK
  <2>2. \A y \in todo : Polling => RowKept(y.task)
    BY <2>1, SameRowKept
    DEF TypeOK, WorkerOK, Snapshots, AwaitedInv, RememberedIsFresh, PolledStatus
  <2>3. post # None => RowKept(post)
    BY <2>1, SameRowKept DEF TypeOK, WorkerOK, AwaitedInv, PostIsOnItsWay
  <2>4. QED BY <1>12, <2>2, <2>3, VisitingLess DEF RetryFailedTask, worker
<1>13. ASSUME BrokerReceives PROVE AwaitedInv'
  <2>1. RowsKept BY <1>13, SameRowKept DEF BrokerReceives, db, RowsKept
  <2>2. QED BY <1>13, <2>1, RowsKeptVisiting DEF BrokerReceives, worker
<1>14. ASSUME Person \/ \E t \in Tasks : RetryDue(t) PROVE AwaitedInv'
  BY <1>14, PersonKeepsRows, RowsKeptVisiting DEF worker
<1>15. QED
  BY <1>1, <1>2, <1>3, <1>4, <1>5, <1>6, <1>7, <1>8, <1>9, <1>10, <1>11, <1>12, <1>13, <1>14,
     AnswersKeepAwaited
  DEF Next, Cycle

LEMMA AwaitedInit == ASSUME Init PROVE AwaitedInv
BY DEF Init, AwaitedInv, RememberedIsFresh, AdvancedIsVisited, PostIsOnItsWay, OneThingAtATime,
       Polling, Dispatching

LEMMA AwaitedStep ==
    ASSUME TypeOK, AwaitedInv, [Next]_vars
    PROVE  AwaitedInv'
<1>1. CASE Next BY <1>1, AwaitedKept
<1>2. CASE UNCHANGED vars
  <2>1. RowsKept BY <1>2, SameRowKept DEF vars, db, RowsKept
  <2>2. QED BY <1>2, <2>1, RowsKeptVisiting DEF vars, worker
<1>3. QED BY <1>1, <1>2

(* Nobody gives a task another key, or closes it, while the worker waits for *)
(* the answer about it: apply_status writes the answer to the attempt that    *)
(* was asked for.                                                             *)
THEOREM AnswersToTheCurrentAttempt == Spec => []AnswersAreCurrent
<1>1. Init => AwaitedInv BY AwaitedInit
<1>2. TypeOK /\ AwaitedInv /\ [Next]_vars => AwaitedInv' BY AwaitedStep
<1>3. AwaitedInv => AnswersAreCurrent
  BY DEF AwaitedInv, RememberedIsFresh, Polling, AnswersAreCurrent
<1>4. QED BY <1>1, <1>2, <1>3, TypeCorrect, PTL DEF Spec

-----------------------------------------------------------------------------
(* What every step leaves of a row: no row is deleted, and a result stays     *)
RowStays(t) ==
    /\ task[t].st = "none" <=> task'[t].st = "none"
    /\ task[t].st = "SUCCESS" => task'[t].st = "SUCCESS"

KeyStays(t) == task'[t].key = task[t].key \/ task'[t].key[2] > 0

Inserting == \/ AdvanceInsert
             \/ \E c \in Captures, r \in Revisions : PlanCapture(c, r)
Answering(x) == \E a \in Answers : CancelAnswered(x, a) \/ PollAnswered(x, a)

LEMMA UpdatedRowStays ==
    ASSUME TypeOK, NEW u \in Tasks, task[u].st \notin {"none", "SUCCESS"}, task'[u].st # "none",
           \A t \in Tasks : t # u => task'[t] = task[t]
    PROVE  \A t \in Tasks : RowStays(t)
BY DEF RowStays

LEMMA SubmissionErrorStays ==
    ASSUME TypeOK, NEW u \in Tasks, task[u].st \notin {"none", "SUCCESS"}, MarkSubmissionError(u)
    PROVE  \A t \in Tasks : RowStays(t)
<1>1. task'[u].st = "ERROR" BY RowOf DEF MarkSubmissionError, TypeOK, TablesOK, TaskRows
<1>2. QED BY <1>1, ApplyChangesOne, UpdatedRowStays

LEMMA ReopenedRow ==
    ASSUME NEW r \in TaskRows, NEW k
    PROVE  Reopened(r, k).st = "READY" /\ Reopened(r, k).key = k
BY DEF Reopened, TaskRows

(* What apply_status makes of a row that has not ended                        *)
LEMMA AnsweredRow ==
    ASSUME TypeOK, NEW u \in Tasks, task[u].st \in PolledStatus,
           NEW a \in Answers, ApplyStatus(u, a)
    PROVE  /\ task'[u].st # "none"
           /\ \/ task'[u].key = task[u].key
              \/ a \in Outcomes /\ task'[u].key = Enlarged(task[u].key)
<1>0. task[u] \in TaskRows BY RowOf
<1>1. CASE ApplyEnlarged(u, a)
  <2>1. task'[u] = Reopened(task[u], Enlarged(task[u].key))
    BY <1>1 DEF ApplyEnlarged, TypeOK, TablesOK
  <2>2. a \in Outcomes BY <1>1 DEF ApplyEnlarged, Answers, Outcomes
  <2>3. QED BY <1>0, <2>1, <2>2, ReopenedRow
<1>2. CASE ApplyProgress(u, a)
  BY <1>0, <1>2 DEF ApplyProgress, TypeOK, TablesOK, TaskRows
<1>3. CASE ApplySuccess(u, a) \/ ApplyFailure(u, a) \/ ApplyCancelled(u, a)
  BY <1>0, <1>3 DEF ApplySuccess, ApplyFailure, ApplyCancelled, TypeOK, TablesOK, TaskRows
<1>4. QED BY <1>1, <1>2, <1>3 DEF ApplyStatus, PolledStatus, EndedStatus

LEMMA StatusStays ==
    ASSUME TypeOK, NEW u \in Tasks, task[u].st \in PolledStatus,
           NEW a \in Answers, ApplyStatus(u, a)
    PROVE  \A t \in Tasks : RowStays(t)
BY AnsweredRow, ApplyChangesOne, UpdatedRowStays DEF PolledStatus

LEMMA PostIsSent ==
    ASSUME TypeOK, AwaitedInv, post # None
    PROVE  post \in Tasks /\ task[post].st \in {"SUBMITTING", "CANCEL_REQUESTED"}
BY DEF AwaitedInv, PostIsOnItsWay, TypeOK, WorkerOK

LEMMA VisitedIsPolled ==
    ASSUME TypeOK, AwaitedInv, Polling, NEW x \in todo
    PROVE  x.task \in Tasks /\ task[x.task].st \in PolledStatus
BY DEF AwaitedInv, RememberedIsFresh, TypeOK, WorkerOK, Snapshots

LEMMA RowsStayPut ==
    ASSUME TypeOK, AwaitedInv, Next, ~Inserting, ~AdvanceRaises
    PROVE  \A t \in Tasks : RowStays(t)
<1>1. ASSUME NEW x \in todo, PollRefused(x) PROVE \A t \in Tasks : RowStays(t)
  BY <1>1, VisitedIsPolled, SubmissionErrorStays DEF PollRefused, Polling, PolledStatus
<1>2. ASSUME NEW x \in todo, NEW a \in Answers, CancelAnswered(x, a) \/ PollAnswered(x, a)
      PROVE  \A t \in Tasks : RowStays(t)
  BY <1>2, VisitedIsPolled, StatusStays DEF CancelAnswered, PollAnswered, Polling, PolledStatus
<1>3. ASSUME NEW x \in todo, ClaimSubmission(x) PROVE \A t \in Tasks : RowStays(t)
  <2>1. x.task \in Tasks /\ task[x.task] \in TaskRows
    BY RowOf DEF TypeOK, WorkerOK, Snapshots
  <2>2. \A t \in Tasks : task'[t] = task[t] \/ (task[t].st = "READY" /\ task'[t].st = "SUBMITTING")
    BY <1>3, <2>1 DEF ClaimSubmission, TypeOK, TablesOK, TaskRows
  <2>3. QED BY <2>2 DEF RowStays
<1>4. ASSUME PostAccepted \/ PostUnanswered \/ PostRefused PROVE \A t \in Tasks : RowStays(t)
  <2>0. post \in Tasks /\ task[post].st \in {"SUBMITTING", "CANCEL_REQUESTED"}
    BY <1>4, PostIsSent DEF PostAccepted, PostUnanswered, PostRefused
  <2>1. CASE MarkSubmissionError(post) BY <2>0, <2>1, SubmissionErrorStays
  <2>2. CASE ~MarkSubmissionError(post)
    <3>1. \A t \in Tasks : t # post => task'[t] = task[t]
      BY <1>4, <2>0, <2>2 DEF PostAccepted, PostUnanswered, PostRefused, TypeOK, TablesOK
    <3>2. task'[post].st # "none"
      BY <1>4, <2>0, <2>2, RowOf
      DEF PostAccepted, PostUnanswered, PostRefused, TypeOK, TablesOK, TaskRows
    <3>3. QED BY <2>0, <3>1, <3>2, UpdatedRowStays
  <2>3. QED BY <2>1, <2>2
<1>5. ASSUME EnterCancel \/ Restart PROVE \A t \in Tasks : RowStays(t)
  <2>1. SUFFICES ASSUME NEW t \in Tasks PROVE RowStays(t)
    OBVIOUS
  <2>2. task[t] \in TaskRows BY RowOf
  <2>3. \/ task'[t] = task[t]
        \/ task[t].st = "CANCEL_REQUESTED" /\ task'[t] = [task[t] EXCEPT !.st = "CANCELLED"]
        \/ task[t].st = "SUBMITTING" /\ task'[t] = [task[t] EXCEPT !.st = "READY", !.wait = FALSE]
    BY <1>5 DEF EnterCancel, Restart
  <2>4. QED BY <2>2, <2>3 DEF RowStays, TaskRows
<1>6. ASSUME NEW u \in Tasks, RetryFailedTask(u) PROVE \A t \in Tasks : RowStays(t)
  <2>1. \A t \in Tasks : t # u => task'[t] = task[t]
    BY <1>6 DEF RetryFailedTask, TypeOK, TablesOK
  <2>2. \/ task'[u] = task[u]
        \/ task[u].st = "ERROR" /\ \E k : task'[u] = Reopened(task[u], k)
    BY <1>6 DEF RetryFailedTask, TypeOK, TablesOK
  <2>3. QED BY <2>1, <2>2, RowOf, ReopenedRow DEF RowStays
<1>7. ASSUME Person \/ \E t \in Tasks : RetryDue(t) PROVE \A t \in Tasks : RowStays(t)
  BY <1>7, PersonKeepsRows DEF RowsKept, RowKept, RowStays
<1>8. ASSUME UNCHANGED task PROVE \A t \in Tasks : RowStays(t) BY <1>8 DEF RowStays
<1>9. QED
  BY <1>1, <1>2, <1>3, <1>4, <1>5, <1>6, <1>7, <1>8
  DEF Next, Cycle, Inserting, Offline, BrokerReceives, Crash, db, EnterPlan, EnterDispatch,
      EnterPoll, EnterPublish, EnterBoot, StartWorker, PlanFails, PublishOk, PublishInvalid,
      PublishDeferred, CancelUnanswered, CancelBreaks, PollUnanswered, AdvanceRead, AdvanceFinish,
      BootAdvance

(* A new row is one that was not there, and the rest of the table stays       *)
LEMMA InsertedRows ==
    ASSUME TypeOK, RowsHaveAWorkflow, Inserting, NEW t \in Tasks, task[t].st # "none"
    PROVE  task'[t] = task[t]
<1>1. ASSUME NEW c \in Captures, NEW r \in Revisions, PlanCapture(c, r) PROVE task'[t] = task[t]
  <2>1. WfOf(t) # <<c, r>> BY <1>1 DEF PlanCapture, RowsHaveAWorkflow, Exists
  <2>2. QED BY <1>1, <2>1 DEF PlanCapture
<1>2. CASE AdvanceInsert BY <1>2 DEF AdvanceInsert, TypeOK, TablesOK
<1>3. QED BY <1>1, <1>2 DEF Inserting

-----------------------------------------------------------------------------
(* The Broker knows executions of tasks there are                             *)
ExecutionHasRow == \A x \in DOMAIN exec : task[x[1]].st # "none"
ExecutionInv    == ExecutionHasRow /\ OneExecutionPerTask

(* Only an answer or a person gives a task another key                        *)
LEMMA KeysStay ==
    ASSUME TypeOK, RowsHaveAWorkflow, AwaitedInv, Next, ~ \E x \in todo : Answering(x),
           NEW t \in Tasks, task[t].st # "none"
    PROVE  KeyStays(t)
<1>0. task[t] \in TaskRows BY RowOf
<1>1. CASE Inserting BY <1>1, InsertedRows DEF KeyStays
<1>2. CASE Person \/ \E u \in Tasks : RetryDue(u)
  BY <1>2, PersonKeepsRows DEF RowsKept, RowKept, KeyStays
<1>3. ASSUME NEW u \in Tasks, RetryFailedTask(u) PROVE KeyStays(t)
  <2>1. \/ task'[t] = task[t]
        \/ task'[t] = Reopened(task[t], Retried(task[t].key, task[t].attempt))
    BY <1>3 DEF RetryFailedTask, TypeOK, TablesOK
  <2>2. task[t].attempt \in Nat BY <1>0 DEF TaskRows
  <2>3. QED BY <1>0, <2>1, <2>2, ReopenedRow DEF KeyStays, Retried
<1>4. ASSUME NEW u \in Tasks, MarkSubmissionError(u) PROVE KeyStays(t)
  BY <1>0, <1>4 DEF MarkSubmissionError, KeyStays, TypeOK, TablesOK, TaskRows
<1>5. CASE \/ EnterCancel \/ Restart \/ PostAccepted \/ PostUnanswered \/ PostRefused
           \/ \E x \in todo : ClaimSubmission(x)
  <2>1. post # None => post \in Tasks BY DEF TypeOK, WorkerOK
  <2>2. \A x \in todo : x.task \in Tasks BY DEF TypeOK, WorkerOK, Snapshots
  <2>3. CASE EnterCancel \/ Restart
    <3>1. \/ task'[t] = task[t]
          \/ task'[t] = [task[t] EXCEPT !.st = "CANCELLED"]
          \/ task'[t] = [task[t] EXCEPT !.st = "READY", !.wait = FALSE]
      BY <2>3 DEF EnterCancel, Restart
    <3>2. QED BY <1>0, <3>1 DEF KeyStays, TaskRows
  <2>4. CASE PostAccepted \/ PostUnanswered \/ PostRefused
    BY <1>0, <1>4, <2>1, <2>4
    DEF PostAccepted, PostUnanswered, PostRefused, KeyStays, TypeOK, TablesOK, TaskRows
  <2>5. ASSUME NEW x \in todo, ClaimSubmission(x) PROVE KeyStays(t)
    BY <1>0, <2>2, <2>5 DEF ClaimSubmission, KeyStays, TypeOK, TablesOK, TaskRows
  <2>6. QED BY <1>5, <2>3, <2>4, <2>5
<1>6. CASE AdvanceRaises \/ \E x \in todo : PollRefused(x)
  <2>1. ASSUME NEW x \in todo, PollRefused(x) PROVE KeyStays(t)
    BY <1>4, <2>1 DEF PollRefused, TypeOK, WorkerOK, Snapshots
  <2>2. CASE AdvanceRaises /\ pc = "poll"
    BY <1>4, <2>2 DEF AdvanceRaises, TypeOK, WorkerOK, Advances
  <2>3. CASE AdvanceRaises /\ pc # "poll" BY <2>3 DEF AdvanceRaises, KeyStays
  <2>4. QED BY <1>6, <2>1, <2>2, <2>3
<1>7. CASE UNCHANGED task BY <1>7 DEF KeyStays
<1>8. QED
  BY <1>1, <1>2, <1>3, <1>5, <1>6, <1>7
  DEF Next, Cycle, Inserting, Answering, Offline, BrokerReceives, Crash, db, EnterPlan,
      EnterDispatch, EnterPoll, EnterPublish, EnterBoot, StartWorker, PlanFails, PublishOk,
      PublishInvalid, PublishDeferred, CancelUnanswered, CancelBreaks, PollUnanswered, AdvanceRead,
      AdvanceFinish, BootAdvance

(* No row disappears                                                          *)
LEMMA NoRowIsDeleted ==
    ASSUME TypeOK, RowsHaveAWorkflow, AwaitedInv, Next, NEW t \in Tasks, task[t].st # "none"
    PROVE  task'[t].st # "none"
<1>1. CASE Inserting BY <1>1, InsertedRows
<1>2. CASE AdvanceRaises
  <2>1. CASE pc = "poll"
    <3>1. adv.from \in Tasks /\ MarkSubmissionError(adv.from)
      BY <1>2, <2>1 DEF AdvanceRaises, TypeOK, WorkerOK, Advances
    <3>2. QED BY <3>1, RowOf DEF MarkSubmissionError, TypeOK, TablesOK, TaskRows
  <2>2. CASE pc # "poll" BY <1>2, <2>2 DEF AdvanceRaises
  <2>3. QED BY <2>1, <2>2
<1>3. QED BY <1>1, <1>2, RowsStayPut DEF RowStays

(* The answer that gives a task a larger budget ends the execution under the  *)
(* old key                                                                    *)
LEMMA AnswerEndsTheOldKey ==
    ASSUME TypeOK, AwaitedInv, ExecutionInv, NEW x \in todo, NEW a \in Answers,
           CancelAnswered(x, a) \/ PollAnswered(x, a)
    PROVE  OneExecutionPerTask'
<1>0. Polling /\ BrokerAnswers(x, a) /\ ApplyStatus(x.task, a)
  BY DEF CancelAnswered, PollAnswered, Polling
<1>1. x.task \in Tasks /\ task[x.task] \in TaskRows /\ task[x.task].key = x.key
      /\ task[x.task].st \in PolledStatus
  BY <1>0, VisitedIsPolled, RowOf DEF AwaitedInv, RememberedIsFresh
<1>2. \A u \in Tasks : u # x.task => task'[u] = task[u] BY <1>0, <1>1, ApplyChangesOne
<1>3. /\ DOMAIN exec' = DOMAIN exec
      /\ \A y \in DOMAIN exec : y # <<x.task, x.key>> => exec'[y] = exec[y]
      /\ a \in Outcomes => exec'[<<x.task, x.key>>] = "ended" \/ <<x.task, x.key>> \notin DOMAIN exec
  BY <1>0 DEF BrokerAnswers
<1>4. \/ task'[x.task].key = task[x.task].key
      \/ a \in Outcomes /\ task'[x.task].key = Enlarged(x.key)
  BY <1>0, <1>1, AnsweredRow
<1>5. x.key \in Keys /\ (x.key[2] > 0 => Enlarged(x.key)[2] > 0)
  BY <1>1 DEF TaskRows, Keys, Enlarged
<1>6. SUFFICES ASSUME NEW y \in DOMAIN exec, exec'[y] = "live", y[2] # task'[y[1]].key
               PROVE  task'[y[1]].key[2] > 0
  BY <1>3 DEF OneExecutionPerTask
<1>7. y[1] \in Tasks /\ y = <<y[1], y[2]>> BY DEF TypeOK, WorkerOK
<1>8. CASE y[1] # x.task
  <2>1. exec[y] = "live" /\ task'[y[1]] = task[y[1]] BY <1>2, <1>3, <1>6, <1>7, <1>8
  <2>2. QED BY <1>6, <2>1 DEF ExecutionInv, OneExecutionPerTask
<1>9. CASE y[1] = x.task
  <2>1. CASE y[2] = x.key
    <3>1. task'[x.task].key = Enlarged(x.key) /\ a \in Outcomes BY <1>1, <1>4, <1>6, <1>9, <2>1
    <3>2. exec'[y] = "ended" BY <1>3, <1>7, <1>9, <2>1, <3>1
    <3>3. QED BY <1>6, <3>2
  <2>2. CASE y[2] # x.key
    <3>1. exec[y] = "live" BY <1>3, <1>6, <1>7, <2>2
    <3>2. x.key[2] > 0 BY <1>1, <1>9, <2>2, <3>1 DEF ExecutionInv, OneExecutionPerTask
    <3>3. QED BY <1>1, <1>4, <1>5, <1>9, <3>2
  <2>3. QED BY <2>1, <2>2
<1>10. QED BY <1>8, <1>9

LEMMA ExecutionStep ==
    ASSUME TypeOK, LastRevisionInv, AwaitedInv, ExecutionInv, [Next]_vars
    PROVE  ExecutionInv'
<1>0. RowsHaveAWorkflow BY DEF LastRevisionInv
<1>1. \A x \in DOMAIN exec : x[1] \in Tasks BY DEF TypeOK, WorkerOK
<1>2. ASSUME Next, UNCHANGED exec, ~ \E x \in todo : Answering(x) PROVE ExecutionInv'
  <2>1. \A x \in DOMAIN exec : KeyStays(x[1]) /\ task'[x[1]].st # "none"
    BY <1>0, <1>1, <1>2, KeysStay, NoRowIsDeleted DEF ExecutionInv, ExecutionHasRow
  <2>2. QED BY <1>2, <2>1 DEF ExecutionInv, ExecutionHasRow, OneExecutionPerTask, KeyStays
<1>3. CASE BrokerReceives
  <2>1. post \in Tasks /\ task[post].st # "none" BY <1>3, PostIsSent DEF BrokerReceives
  <2>2. QED
    BY <1>3, <2>1
    DEF BrokerReceives, db, Execution, ExecutionInv, ExecutionHasRow, OneExecutionPerTask
<1>4. ASSUME NEW x \in todo, NEW a \in Answers, CancelAnswered(x, a) \/ PollAnswered(x, a)
      PROVE  ExecutionInv'
  <2>1. Next BY <1>4 DEF Next, Cycle
  <2>2. DOMAIN exec' = DOMAIN exec
    BY <1>4 DEF CancelAnswered, PollAnswered, BrokerAnswers
  <2>3. ExecutionHasRow'
    BY <1>0, <1>1, <2>1, <2>2, NoRowIsDeleted DEF ExecutionInv, ExecutionHasRow
  <2>4. QED BY <1>4, <2>3, AnswerEndsTheOldKey DEF ExecutionInv
<1>5. CASE UNCHANGED vars
  BY <1>5 DEF vars, db, ExecutionInv, ExecutionHasRow, OneExecutionPerTask
<1>6. ASSUME Next, ~BrokerReceives, ~ \E x \in todo : Answering(x) PROVE UNCHANGED exec
  BY <1>6
  DEF Next, Cycle, Person, Answering, Offline, EnterPlan, EnterCancel, EnterDispatch, EnterPoll,
      EnterPublish, EnterBoot, StartWorker, PlanCapture, PlanFails, PublishOk, PublishInvalid,
      PublishDeferred, CancelUnanswered, CancelBreaks, PollUnanswered, PollRefused, ClaimSubmission,
      PostAccepted, PostUnanswered, PostRefused, AdvanceRead, AdvanceFinish, AdvanceInsert,
      AdvanceRaises, BootAdvance, CancelWorkflow, RetryTasks, ResendReady, ApproveDraft, RejectDraft,
      CancelWaiting, ReopenCancelled, Replan, IgnoreFailedCapture, ReopenRejectedDraft, SendNow,
      RetryDue, RetryFailedTask, Crash, Restart
<1>7. QED BY <1>2, <1>3, <1>4, <1>5, <1>6 DEF Answering

(* The Broker never works on an older request of a task, unless a person left *)
(* it behind by retrying: the budget retry ends the execution it replaces, and *)
(* a release, a restart or a lost answer keeps the key.                       *)
THEOREM NoForgottenExecution == Spec => []OneExecutionPerTask
<1>1. Init => AwaitedInv /\ ExecutionInv
  BY AwaitedInit DEF Init, ExecutionInv, ExecutionHasRow, OneExecutionPerTask
<1>2. TypeOK /\ AwaitedInv /\ [Next]_vars => AwaitedInv' BY AwaitedStep
<1>3. TypeOK /\ LastRevisionInv /\ AwaitedInv /\ ExecutionInv /\ [Next]_vars => ExecutionInv'
  BY ExecutionStep
<1>4. ExecutionInv => OneExecutionPerTask BY DEF ExecutionInv
<1>5. QED BY <1>1, <1>2, <1>3, <1>4, TypeCorrect, LastRevision, PTL DEF Spec

-----------------------------------------------------------------------------
(* The parts of a result. The final synthesis of a long document is inserted  *)
(* when every chunk has its result, and a chunk does not lose it afterwards:   *)
(* the one error of a finished chunk is that the synthesis cannot be built.    *)
HasFinal(w)  == \E s \in FinalSteps : StatusOf(w, s) # "none"
HasChunks(w) == \A s \in Chunks : StatusOf(w, s) = "SUCCESS"

SynthesisComesLast ==
    \A w \in Workflows : w[1] \in LongDocs /\ HasFinal(w) =>
                             HasChunks(w) /\ StatusOf(w, "final") # "none"
ResultHasSynthesis ==
    \A w \in Workflows : w[1] \in LongDocs /\ wf[w] = "SUCCESS" => HasFinal(w)

(* What advance_workflow found is still so when it writes                     *)
AdvanceIsCurrent ==
    adv # None =>
        /\ adv.from # None => WfOf(adv.from) = adv.wf /\ task[adv.from].st # "none"
        /\ adv.op = "finish" /\ adv.wf[1] \in LongDocs => HasFinal(adv.wf)
        /\ adv.op = "synthesis" => adv.wf[1] \in LongDocs /\ HasChunks(adv.wf) /\ ~HasFinal(adv.wf)
        /\ adv.op = "fallback" => StatusOf(adv.wf, "final") # "none"

PartsInv == SynthesisComesLast /\ ResultHasSynthesis /\ AdvanceIsCurrent

LEMMA StepsOfAWorkflow ==
    /\ FinalSteps \subseteq Steps /\ Chunks \subseteq Steps /\ "final" \in FinalSteps
    /\ \A s \in Chunks : s \notin FinalSteps
    /\ \A w \in Workflows, s \in Steps : WfOf(TaskOf(w, s)) = w /\ TaskOf(w, s)[3] = s
    /\ \A t \in Tasks : t = TaskOf(WfOf(t), t[3])
    /\ \A w \in Workflows : w[1] \in OwnNotes => w[1] \notin LongDocs
BY SetsAssumption DEF FinalSteps, Steps, Workflows, WfOf, TaskOf, Tasks

(* Only finishing gives a workflow its result                                 *)
LEMMA ResultsComeFromFinishing ==
    ASSUME TypeOK, Next, ~AdvanceFinish, NEW w \in Workflows, wf'[w] = "SUCCESS"
    PROVE  wf[w] = "SUCCESS"
<1>1. ASSUME NEW v, NEW code, FailWorkflow(v, code) PROVE wf[w] = "SUCCESS"
  BY <1>1 DEF FailWorkflow, TypeOK, TablesOK
<1>2. ASSUME NEW t, MarkSubmissionError(t) PROVE wf[w] = "SUCCESS"
  BY <1>1, <1>2 DEF MarkSubmissionError
<1>3. ASSUME NEW x \in todo, NEW a \in Answers, CancelAnswered(x, a) \/ PollAnswered(x, a)
      PROVE  wf[w] = "SUCCESS"
  BY <1>1, <1>3
  DEF CancelAnswered, PollAnswered, ApplyStatus, ApplyLate, ApplyEnlarged, ApplyProgress,
      ApplySuccess, ApplyFailure, ApplyCancelled
<1>4. ASSUME NEW x \in todo, PollRefused(x) PROVE wf[w] = "SUCCESS"
  BY <1>2, <1>4 DEF PollRefused
<1>5. ASSUME PostUnanswered \/ PostRefused \/ AdvanceRaises PROVE wf[w] = "SUCCESS"
  BY <1>2, <1>5 DEF PostUnanswered, PostRefused, AdvanceRaises
<1>6. ASSUME PostAccepted PROVE wf[w] = "SUCCESS"
  BY <1>6 DEF PostAccepted, TypeOK, TablesOK
<1>7. ASSUME NEW c \in Captures, NEW r \in Revisions, PlanCapture(c, r) PROVE wf[w] = "SUCCESS"
  BY <1>7 DEF PlanCapture, TypeOK, TablesOK
<1>8. ASSUME NEW c \in Captures, PublishInvalid(c) \/ IgnoreFailedCapture(c) PROVE wf[w] = "SUCCESS"
  BY <1>8 DEF PublishInvalid, IgnoreFailedCapture
<1>9. ASSUME NEW v \in Workflows, CancelWorkflow(v) PROVE wf[w] = "SUCCESS"
  BY <1>9 DEF CancelWorkflow, TypeOK, TablesOK
<1>10. ASSUME NEW t \in Tasks, RetryFailedTask(t) PROVE wf[w] = "SUCCESS"
  BY <1>10 DEF RetryFailedTask, TypeOK, TablesOK
<1>11. ASSUME UNCHANGED wf PROVE wf[w] = "SUCCESS" BY <1>11
<1>12. QED
  BY <1>3, <1>4, <1>5, <1>6, <1>7, <1>8, <1>9, <1>10, <1>11
  DEF Next, Cycle, Person, Offline, BrokerReceives, Crash, Restart, db, EnterPlan, EnterCancel,
      EnterDispatch, EnterPoll, EnterPublish, EnterBoot, StartWorker, PlanFails, PublishOk,
      PublishDeferred, CancelUnanswered, CancelBreaks, PollUnanswered, ClaimSubmission, AdvanceRead,
      AdvanceInsert, BootAdvance, RetryTasks, ResendReady, ApproveDraft, RejectDraft, CancelWaiting,
      ReopenCancelled, Replan, ReopenRejectedDraft, SendNow, RetryDue

(* What a call of advance_workflow may be after a step                        *)
LEMMA AdvancesBegin ==
    ASSUME TypeOK, Next, ~AdvanceRead, ~ \E c \in Captures, r \in Revisions : PlanCapture(c, r),
           adv' # None, adv' # adv
    PROVE  /\ adv'.op = "read"
           /\ adv'.from # None => /\ WfOf(adv'.from) = adv'.wf
                                 /\ Polling /\ \E x \in todo : adv'.from = x.task
<1>. DEFINE Begins == /\ adv'.op = "read"
                      /\ adv'.from # None => /\ WfOf(adv'.from) = adv'.wf
                                            /\ Polling /\ \E x \in todo : adv'.from = x.task
<1>1. ASSUME NEW x \in todo, NEW a \in Answers, CancelAnswered(x, a) \/ PollAnswered(x, a) PROVE Begins
  <2>1. adv' = [wf |-> WfOf(x.task), op |-> "read", from |-> x.task] /\ Polling
    BY <1>1 DEF CancelAnswered, PollAnswered, StartAdvance, Polling
  <2>2. QED BY <2>1
<1>2. ASSUME NEW w \in Workflows, BootAdvance(w) PROVE Begins
  BY <1>2 DEF BootAdvance
<1>3. QED
  BY <1>1, <1>2
  DEF Next, Cycle, Person, Offline, BrokerReceives, Crash, Restart, worker, EnterPlan, EnterCancel,
      EnterDispatch, EnterPoll, EnterPublish, EnterBoot, StartWorker, PlanFails, PublishOk,
      PublishInvalid, PublishDeferred, CancelUnanswered, CancelBreaks, PollUnanswered, PollRefused,
      ClaimSubmission, PostAccepted, PostUnanswered, PostRefused, AdvanceFinish, AdvanceInsert,
      AdvanceRaises, CancelWorkflow, RetryTasks, ResendReady, ApproveDraft, RejectDraft,
      CancelWaiting, ReopenCancelled, Replan, IgnoreFailedCapture, ReopenRejectedDraft, SendNow,
      RetryDue, RetryFailedTask

(* Steps that insert no row and take no result away                           *)
LEMMA PartsStay ==
    ASSUME TypeOK, PartsInv, \A t \in Tasks : RowStays(t), NEW w \in Workflows
    PROVE  /\ HasFinal(w)' <=> HasFinal(w)
           /\ HasChunks(w) => HasChunks(w)'
           /\ StatusOf(w, "final")' # "none" <=> StatusOf(w, "final") # "none"
<1>1. \A s \in Steps : TaskOf(w, s) \in Tasks BY IndexTyping
<1>2. QED BY <1>1, StepsOfAWorkflow DEF HasFinal, HasChunks, StatusOf, RowStays

LEMMA PartsKeptByStaying ==
    ASSUME TypeOK, AwaitedInv, PartsInv, Next, ~Inserting, ~AdvanceRaises, \A t \in Tasks : RowStays(t)
    PROVE  PartsInv'
<1>1. SynthesisComesLast' BY PartsStay DEF PartsInv, SynthesisComesLast
<1>2. AdvanceIsCurrent'
  <2>1. CASE adv' = None BY <2>1 DEF AdvanceIsCurrent
  <2>2. CASE adv' = adv
    <3>1. adv # None => adv.wf \in Workflows /\ (adv.from # None => adv.from \in Tasks)
      BY DEF TypeOK, WorkerOK, Advances
    <3>2. QED BY <2>2, <3>1, PartsStay DEF PartsInv, AdvanceIsCurrent, RowStays
  <2>3. CASE AdvanceRead
    <3>1. adv # None /\ adv.wf \in Workflows /\ adv.op = "read"
      BY <2>3 DEF AdvanceRead, TypeOK, WorkerOK, Advances
    <3>2. CASE adv' = None BY <3>2 DEF AdvanceIsCurrent
    <3>3. CASE adv' # None
      <4>1. /\ adv'.wf = adv.wf /\ adv'.from = adv.from
            /\ adv'.op = "finish" => MustFinish(adv.wf)
            /\ adv'.op = "fallback" => MustFallBack(adv.wf)
            /\ adv'.op = "synthesis" => ~MustFinish(adv.wf) /\ MustSynthesise(adv.wf)
        BY <2>3, <3>3 DEF AdvanceRead, TypeOK, WorkerOK, Advances
      <4>2. UNCHANGED task BY <2>3 DEF AdvanceRead, db
      <4>3. adv'.op = "finish" /\ adv.wf[1] \in LongDocs => HasFinal(adv.wf)
        BY <3>1, <4>1, StepsOfAWorkflow DEF MustFinish, HasFinal
      <4>4. adv'.op = "synthesis" => adv.wf[1] \in LongDocs /\ HasChunks(adv.wf) /\ ~HasFinal(adv.wf)
        BY <3>1, <4>1 DEF MustSynthesise, HasChunks, PartsInv, SynthesisComesLast
      <4>5. adv'.op = "fallback" => StatusOf(adv.wf, "final") # "none"
        BY <4>1 DEF MustFallBack
      <4>6. adv'.from # None => WfOf(adv'.from) = adv'.wf /\ task[adv'.from].st # "none"
        BY <3>1, <4>1 DEF PartsInv, AdvanceIsCurrent
      <4>7. QED
        BY <4>1, <4>2, <4>3, <4>4, <4>5, <4>6 DEF AdvanceIsCurrent, HasFinal, HasChunks, StatusOf
    <3>4. QED BY <3>2, <3>3
  <2>4. CASE adv' # None /\ adv' # adv /\ ~AdvanceRead
    <3>1. adv'.op = "read" /\ (adv'.from # None => WfOf(adv'.from) = adv'.wf)
      BY <2>4, AdvancesBegin DEF Inserting
    <3>2. adv'.from # None => adv'.from \in Tasks /\ task[adv'.from].st # "none"
      BY <2>4, AdvancesBegin, VisitedIsPolled DEF Inserting, PolledStatus
    <3>3. QED BY <3>1, <3>2 DEF AdvanceIsCurrent, RowStays
  <2>5. QED BY <2>1, <2>2, <2>3, <2>4
<1>3. ResultHasSynthesis'
  <2>1. SUFFICES ASSUME NEW w \in Workflows, w[1] \in LongDocs, wf'[w] = "SUCCESS"
                 PROVE  HasFinal(w)'
    BY DEF ResultHasSynthesis
  <2>2. CASE wf[w] = "SUCCESS" BY <2>1, <2>2, PartsStay DEF PartsInv, ResultHasSynthesis
  <2>3. CASE wf[w] # "SUCCESS"
    <3>1. AdvanceFinish BY <2>1, <2>3, ResultsComeFromFinishing
    <3>2. adv.wf = w /\ adv # None /\ adv.op = "finish"
      BY <2>1, <2>3, <3>1 DEF AdvanceFinish, TypeOK, TablesOK
    <3>3. QED BY <2>1, <3>2, PartsStay DEF PartsInv, AdvanceIsCurrent
  <2>4. QED BY <2>2, <2>3
<1>4. QED BY <1>1, <1>2, <1>3 DEF PartsInv

LEMMA PlanningKeepsParts ==
    ASSUME TypeOK, RowsHaveAWorkflow, PartsInv,
           NEW c \in Captures, NEW r \in Revisions, PlanCapture(c, r)
    PROVE  PartsInv'
<1>1. \A w \in Workflows, s \in Steps :
          \/ StatusOf(w, s)' = StatusOf(w, s)
          \/ w = <<c, r>> /\ s \in FirstSteps(c) /\ StatusOf(w, s)' = "READY"
  BY IndexTyping, StepsOfAWorkflow DEF PlanCapture, StatusOf, NewRow, NoRow
<1>2. \A s \in Steps : StatusOf(<<c, r>>, s) = "none"
  BY IndexTyping, StepsOfAWorkflow DEF PlanCapture, StatusOf, RowsHaveAWorkflow, Exists
<1>3. \A w \in Workflows : w[1] \in LongDocs => (HasFinal(w)' <=> HasFinal(w))
                           /\ (w # <<c, r>> => (HasChunks(w)' <=> HasChunks(w)))
                           /\ (StatusOf(w, "final")' = StatusOf(w, "final"))
  BY <1>1, StepsOfAWorkflow DEF HasFinal, HasChunks, FirstSteps
<1>4. ~HasFinal(<<c, r>>) BY <1>2, StepsOfAWorkflow DEF HasFinal
<1>5. SynthesisComesLast' BY <1>3, <1>4 DEF PartsInv, SynthesisComesLast
<1>6. ResultHasSynthesis'
  <2>1. \A w \in Workflows : wf'[w] = "SUCCESS" => wf[w] = "SUCCESS"
    BY DEF PlanCapture, TypeOK, TablesOK
  <2>2. QED BY <1>3, <2>1 DEF PartsInv, ResultHasSynthesis
<1>7. AdvanceIsCurrent'
  <2>1. adv' = None \/ (c \in OwnNotes /\ adv' = [wf |-> <<c, r>>, op |-> "finish", from |-> None])
    BY DEF PlanCapture
  <2>2. c \in OwnNotes => c \notin LongDocs BY SetsAssumption
  <2>3. QED BY <2>1, <2>2 DEF AdvanceIsCurrent
<1>8. QED BY <1>5, <1>6, <1>7 DEF PartsInv

LEMMA InsertingKeepsParts ==
    ASSUME TypeOK, PartsInv, AdvanceInsert
    PROVE  PartsInv'
<1>0. PICK w \in Workflows, step \in FinalSteps, new \in Tasks :
          /\ adv # None /\ adv.wf = w /\ step = (IF adv.op = "fallback" THEN "final_fallback" ELSE "final")
          /\ new = TaskOf(w, step)
          /\ task' = IF task[new].st = "none" THEN [task EXCEPT ![new] = NewRow] ELSE task
  BY IndexTyping DEF AdvanceInsert, TypeOK, WorkerOK, Advances, FinalSteps
<1>2. \A t \in Tasks : task'[t] = task[t] \/ (t = new /\ task[t].st = "none" /\ task'[t] = NewRow)
  BY <1>0 DEF TypeOK, TablesOK
<1>3. \A v \in Workflows, s \in Steps :
          \/ StatusOf(v, s)' = StatusOf(v, s)
          \/ v = w /\ s = step /\ StatusOf(v, s)' = "READY"
  BY <1>0, <1>2, IndexTyping, StepsOfAWorkflow DEF StatusOf, NewRow, NoRow
<1>4. ASSUME NEW v \in Workflows
      PROVE  /\ HasFinal(v) => HasFinal(v)'
             /\ HasChunks(v)' <=> HasChunks(v)
             /\ v # w => (HasFinal(v)' <=> HasFinal(v))
             /\ StatusOf(v, "final") # "none" => StatusOf(v, "final")' # "none"
  BY <1>0, <1>3, StepsOfAWorkflow DEF HasFinal, HasChunks
<1>5. w[1] \in LongDocs => HasChunks(w) /\ StatusOf(w, "final")' # "none"
  <2>1. CASE adv.op = "synthesis"
    <3>1. task'[new].st # "none" BY <1>0 DEF NewRow, NoRow, TypeOK, TablesOK
    <3>2. StatusOf(w, "final")' # "none" BY <1>0, <2>1, <3>1 DEF StatusOf
    <3>3. QED BY <1>0, <2>1, <3>2 DEF PartsInv, AdvanceIsCurrent
  <2>2. CASE adv.op = "fallback"
    <3>1. StatusOf(w, "final") # "none" BY <1>0, <2>2 DEF PartsInv, AdvanceIsCurrent
    <3>2. HasFinal(w) BY <3>1, StepsOfAWorkflow DEF HasFinal
    <3>3. QED BY <1>4, <3>1, <3>2 DEF PartsInv, SynthesisComesLast
  <2>3. QED BY <2>1, <2>2 DEF AdvanceInsert
<1>6. SynthesisComesLast'
  <2>1. SUFFICES ASSUME NEW v \in Workflows, v[1] \in LongDocs, HasFinal(v)'
                 PROVE  HasChunks(v)' /\ StatusOf(v, "final")' # "none"
    BY DEF SynthesisComesLast
  <2>2. CASE v = w BY <1>4, <1>5, <2>1, <2>2
  <2>3. CASE v # w BY <1>4, <2>1, <2>3 DEF PartsInv, SynthesisComesLast
  <2>4. QED BY <2>2, <2>3
<1>7. ResultHasSynthesis' BY <1>4 DEF AdvanceInsert, PartsInv, ResultHasSynthesis
<1>8. AdvanceIsCurrent' BY DEF AdvanceInsert, AdvanceIsCurrent
<1>9. QED BY <1>6, <1>7, <1>8 DEF PartsInv

LEMMA RaisingKeepsParts ==
    ASSUME TypeOK, PartsInv, AdvanceRaises
    PROVE  PartsInv'
<1>1. PICK w \in Workflows :
          /\ adv # None /\ adv.wf = w /\ adv.op = "synthesis" /\ adv' = None
          /\ w[1] \in LongDocs /\ ~HasFinal(w)
  BY DEF AdvanceRaises, TypeOK, WorkerOK, Advances, PartsInv, AdvanceIsCurrent
<1>2. AdvanceIsCurrent' BY <1>1 DEF AdvanceIsCurrent
<1>3. CASE UNCHANGED <<wf, task>>
  BY <1>2, <1>3
  DEF PartsInv, SynthesisComesLast, ResultHasSynthesis, HasFinal, HasChunks, StatusOf
<1>4. CASE MarkSubmissionError(adv.from) /\ pc = "poll"
  <2>1. PICK u \in Tasks : u = adv.from /\ WfOf(u) = w /\ task[u].st # "none"
    BY <1>1, <1>4 DEF TypeOK, WorkerOK, Advances, PartsInv, AdvanceIsCurrent
  <2>2. \A t \in Tasks : t # u => task'[t] = task[t] BY <2>1, <1>4, ApplyChangesOne
  <2>3. \A v \in Workflows, s \in Steps : v # w => StatusOf(v, s)' = StatusOf(v, s)
    BY <2>1, <2>2, IndexTyping, StepsOfAWorkflow DEF StatusOf
  <2>4. wf[w] # "SUCCESS" BY <1>1 DEF PartsInv, ResultHasSynthesis
  <2>5. \A v \in Workflows : wf'[v] = "SUCCESS" => wf[v] = "SUCCESS"
    BY <1>4 DEF MarkSubmissionError, FailWorkflow, TypeOK, TablesOK
  <2>6. ASSUME NEW v \in Workflows, v # w
        PROVE  (HasFinal(v)' <=> HasFinal(v)) /\ (HasChunks(v)' <=> HasChunks(v))
    BY <2>3, <2>6, StepsOfAWorkflow DEF HasFinal, HasChunks
  <2>7. ~HasFinal(w)'
    <3>1. u[3] \notin FinalSteps
      BY <1>1, <2>1, StepsOfAWorkflow DEF HasFinal, StatusOf
    <3>2. \A s \in FinalSteps : TaskOf(w, s) \in Tasks /\ TaskOf(w, s) # u
      BY <3>1, IndexTyping, StepsOfAWorkflow
    <3>3. QED BY <1>1, <2>2, <3>2 DEF HasFinal, StatusOf
  <2>8. SynthesisComesLast'
    <3>1. SUFFICES ASSUME NEW v \in Workflows, v[1] \in LongDocs, HasFinal(v)'
                   PROVE  HasChunks(v)' /\ StatusOf(v, "final")' # "none"
      BY DEF SynthesisComesLast
    <3>2. v # w BY <2>7, <3>1
    <3>3. QED
      BY <2>3, <2>6, <3>1, <3>2, StepsOfAWorkflow DEF PartsInv, SynthesisComesLast
  <2>9. ResultHasSynthesis'
    <3>1. SUFFICES ASSUME NEW v \in Workflows, v[1] \in LongDocs, wf'[v] = "SUCCESS"
                   PROVE  HasFinal(v)'
      BY DEF ResultHasSynthesis
    <3>2. QED BY <2>4, <2>5, <2>6, <3>1 DEF PartsInv, ResultHasSynthesis
  <2>10. QED BY <1>2, <2>8, <2>9 DEF PartsInv
<1>5. QED BY <1>3, <1>4 DEF AdvanceRaises

LEMMA PartsInit == ASSUME Init PROVE PartsInv
BY IndexTyping, StepsOfAWorkflow
DEF Init, PartsInv, SynthesisComesLast, ResultHasSynthesis, AdvanceIsCurrent, HasFinal, StatusOf,
    NoRow

LEMMA PartsStep ==
    ASSUME TypeOK, LastRevisionInv, AwaitedInv, PartsInv, [Next]_vars
    PROVE  PartsInv'
<1>1. CASE UNCHANGED vars
  BY <1>1
  DEF vars, db, worker, PartsInv, SynthesisComesLast, ResultHasSynthesis, AdvanceIsCurrent,
      HasFinal, HasChunks, StatusOf
<1>2. CASE Next /\ Inserting
  BY <1>2, PlanningKeepsParts, InsertingKeepsParts DEF Inserting, LastRevisionInv
<1>3. CASE Next /\ ~Inserting /\ ~AdvanceRaises
  BY <1>3, RowsStayPut, PartsKeptByStaying
<1>4. QED BY <1>1, <1>2, <1>3, RaisingKeepsParts

(* A long document is finished only with the result of each of its chunks,   *)
(* whatever is retried by hand, cancelled or lost while they are sent: the    *)
(* synthesis comes last, and nothing takes a finished chunk back once it is   *)
(* there.                                                                     *)
THEOREM ResultsAreWhole == Spec => []ResultHasEveryChunk
<1>1. Init => AwaitedInv /\ PartsInv BY AwaitedInit, PartsInit
<1>2. TypeOK /\ AwaitedInv /\ [Next]_vars => AwaitedInv' BY AwaitedStep
<1>3. TypeOK /\ LastRevisionInv /\ AwaitedInv /\ PartsInv /\ [Next]_vars => PartsInv' BY PartsStep
<1>4. PartsInv => ResultHasEveryChunk
  BY DEF PartsInv, ResultHasSynthesis, SynthesisComesLast, HasChunks, ResultHasEveryChunk
<1>5. QED BY <1>1, <1>2, <1>3, <1>4, TypeCorrect, LastRevision, PTL DEF Spec

-----------------------------------------------------------------------------
(* A profile without consensus never asks for the alternative step, so that   *)
(* the rows of a document are its first steps and its synthesis               *)
Quiet(w) == \A t \in TasksOf(w) : task[t].st \in {"none", "SUCCESS"}

RowsOfTheStrategy ==
    \A t \in Tasks : task[t].st # "none" => \/ t[3] = "final" /\ t[1] \notin OwnNotes
                                            \/ t[3] \in Chunks /\ t[1] \in LongDocs
FinishesQuietly ==
    adv # None => adv.op # "fallback" /\ (adv.op = "finish" => Quiet(adv.wf))

ResultsAreQuiet == \A w \in Workflows : wf[w] = "SUCCESS" => Quiet(w)

FinishedInv == RowsOfTheStrategy /\ FinishesQuietly /\ ResultsAreQuiet

LEMMA QuietStays ==
    ASSUME NEW w, Quiet(w), \A t \in TasksOf(w) : RowStays(t)
    PROVE  Quiet(w)'
BY DEF Quiet, RowStays, TasksOf

(* Everything a document that may finish asked for has ended well             *)
LEMMA FinishingIsQuiet ==
    ASSUME TypeOK, PartsInv, RowsOfTheStrategy, NEW w \in Workflows, MustFinish(w)
    PROVE  Quiet(w)
<1>1. SUFFICES ASSUME NEW t \in Tasks, WfOf(t) = w, task[t].st # "none"
               PROVE  task[t].st = "SUCCESS"
  BY DEF Quiet, TasksOf
<1>2. w[1] = t[1] /\ t = TaskOf(w, t[3]) BY <1>1, StepsOfAWorkflow DEF WfOf
<1>3. \A s \in Steps : StatusOf(w, s) # "none" => s = "final" \/ s \in Chunks
  BY IndexTyping, StepsOfAWorkflow DEF StatusOf, RowsOfTheStrategy
<1>4. w[1] \notin OwnNotes
  BY <1>1, <1>2, StepsOfAWorkflow DEF RowsOfTheStrategy
<1>5. StatusOf(w, "final") = "SUCCESS"
  BY <1>3, <1>4, StepsOfAWorkflow DEF MustFinish, FinalSteps
<1>6. CASE t[3] = "final" BY <1>2, <1>5, <1>6 DEF StatusOf
<1>7. CASE t[3] \in Chunks /\ t[1] \in LongDocs
  <2>1. HasChunks(w)
    BY <1>2, <1>5, <1>7, StepsOfAWorkflow DEF PartsInv, SynthesisComesLast, HasFinal
  <2>2. QED BY <1>2, <1>7, <2>1 DEF HasChunks, StatusOf
<1>8. QED BY <1>1, <1>6, <1>7 DEF RowsOfTheStrategy

LEMMA RowsOfTheStrategyStay ==
    ASSUME RowsOfTheStrategy, \A t \in Tasks : task[t].st = "none" => task'[t].st = "none"
    PROVE  RowsOfTheStrategy'
BY DEF RowsOfTheStrategy

LEMMA FinishedKeptByStaying ==
    ASSUME ~ConsensusProfile, TypeOK, AwaitedInv, PartsInv, FinishedInv, Next, ~Inserting,
           ~AdvanceRaises, \A t \in Tasks : RowStays(t)
    PROVE  FinishedInv'
<1>0. ASSUME NEW w, Quiet(w) PROVE Quiet(w)' BY <1>0, QuietStays DEF TasksOf
<1>1. RowsOfTheStrategy' BY RowsOfTheStrategyStay DEF FinishedInv, RowStays
<1>2. FinishesQuietly'
  <2>1. CASE adv' = None BY <2>1 DEF FinishesQuietly
  <2>2. CASE adv' = adv BY <1>0, <2>2 DEF FinishedInv, FinishesQuietly
  <2>3. CASE AdvanceRead /\ adv' # None
    <3>1. PICK w \in Workflows : adv.wf = w /\ adv # None /\ adv.op = "read"
      BY <2>3 DEF AdvanceRead, TypeOK, WorkerOK, Advances
    <3>2. /\ adv'.wf = w
          /\ adv'.op = "finish" => MustFinish(w)
          /\ adv'.op = "fallback" => MustFallBack(w)
      BY <2>3, <3>1 DEF AdvanceRead, TypeOK, WorkerOK, Advances
    <3>3. ~MustFallBack(w) BY DEF MustFallBack, FallbackEligible
    <3>4. adv'.op = "finish" => Quiet(w)'
      BY <1>0, <3>2, FinishingIsQuiet DEF FinishedInv
    <3>5. QED BY <3>2, <3>3, <3>4 DEF FinishesQuietly
  <2>4. CASE adv' # None /\ adv' # adv /\ ~AdvanceRead
    BY <2>4, AdvancesBegin DEF Inserting, FinishesQuietly
  <2>5. QED BY <2>1, <2>2, <2>3, <2>4
<1>3. ASSUME NEW w \in Workflows, wf'[w] = "SUCCESS" PROVE Quiet(w)'
  <2>1. CASE wf[w] = "SUCCESS" BY <1>0, <2>1 DEF FinishedInv, ResultsAreQuiet
  <2>2. CASE wf[w] # "SUCCESS"
    <3>1. AdvanceFinish BY <1>3, <2>2, ResultsComeFromFinishing
    <3>2. adv.wf = w /\ adv # None /\ adv.op = "finish"
      BY <1>3, <2>2, <3>1 DEF AdvanceFinish, TypeOK, TablesOK
    <3>3. QED BY <1>0, <3>2 DEF FinishedInv, FinishesQuietly
  <2>3. QED BY <2>1, <2>2
<1>4. QED BY <1>1, <1>2, <1>3 DEF FinishedInv, ResultsAreQuiet

LEMMA PlanningKeepsFinished ==
    ASSUME TypeOK, RowsHaveAWorkflow, FinishedInv,
           NEW c \in Captures, NEW r \in Revisions, PlanCapture(c, r)
    PROVE  FinishedInv'
<1>1. \A t \in Tasks : \/ task'[t] = task[t]
                       \/ WfOf(t) = <<c, r>> /\ t[3] \in FirstSteps(c)
  BY DEF PlanCapture
<1>2. \A t \in Tasks : WfOf(t) = <<c, r>> => t[1] = c /\ task[t].st = "none"
  BY DEF PlanCapture, RowsHaveAWorkflow, Exists, WfOf
<1>3. RowsOfTheStrategy'
  <2>1. SUFFICES ASSUME NEW t \in Tasks, task'[t].st # "none"
                 PROVE  \/ t[3] = "final" /\ t[1] \notin OwnNotes
                        \/ t[3] \in Chunks /\ t[1] \in LongDocs
    BY DEF RowsOfTheStrategy
  <2>2. CASE task'[t] = task[t] BY <2>1, <2>2 DEF FinishedInv, RowsOfTheStrategy
  <2>3. CASE WfOf(t) = <<c, r>> /\ t[3] \in FirstSteps(c)
    BY <1>2, <2>3, SetsAssumption DEF FirstSteps
  <2>4. QED BY <1>1, <2>2, <2>3
<1>4. FinishesQuietly'
  <2>1. adv' = None \/ (c \in OwnNotes /\ adv' = [wf |-> <<c, r>>, op |-> "finish", from |-> None])
    BY DEF PlanCapture
  <2>2. c \in OwnNotes => Quiet(<<c, r>>)'
    BY <1>1, <1>2 DEF FirstSteps, Quiet, TasksOf
  <2>3. QED BY <2>1, <2>2 DEF FinishesQuietly
<1>5. ASSUME NEW w \in Workflows, wf'[w] = "SUCCESS" PROVE Quiet(w)'
  <2>1. w # <<c, r>> /\ wf[w] = "SUCCESS" BY <1>5 DEF PlanCapture, TypeOK, TablesOK
  <2>2. QED BY <1>1, <2>1 DEF FinishedInv, ResultsAreQuiet, Quiet, TasksOf
<1>6. QED BY <1>3, <1>4, <1>5 DEF FinishedInv, ResultsAreQuiet

(* The other two writes of advance_workflow concern a document that has no    *)
(* synthesis yet, and so no result                                            *)
LEMMA SynthesisKeepsFinished ==
    ASSUME TypeOK, PartsInv, FinishedInv, AdvanceInsert \/ AdvanceRaises
    PROVE  FinishedInv'
<1>1. PICK w \in Workflows :
          /\ adv # None /\ adv.wf = w /\ adv.op = "synthesis" /\ adv' = None
          /\ w[1] \in LongDocs /\ ~HasFinal(w)
  BY DEF AdvanceInsert, AdvanceRaises, TypeOK, WorkerOK, Advances, PartsInv, AdvanceIsCurrent,
         FinishedInv, FinishesQuietly
<1>2. wf[w] # "SUCCESS" BY <1>1 DEF PartsInv, ResultHasSynthesis
<1>3. PICK u \in Tasks \cup {None} :
          /\ \A t \in Tasks : t # u => task'[t] = task[t]
          /\ u # None => WfOf(u) = w /\ (task[u].st # "none" \/ u[3] = "final")
  <2>1. CASE AdvanceInsert
    BY <1>1, <2>1, IndexTyping, StepsOfAWorkflow DEF AdvanceInsert, TypeOK, TablesOK
  <2>2. CASE AdvanceRaises /\ pc = "poll"
    <3>1. adv.from \in Tasks /\ WfOf(adv.from) = w /\ task[adv.from].st # "none"
      BY <1>1, <2>2 DEF TypeOK, WorkerOK, Advances, PartsInv, AdvanceIsCurrent
    <3>2. QED BY <2>2, <3>1, ApplyChangesOne DEF AdvanceRaises
  <2>3. CASE AdvanceRaises /\ pc # "poll" BY <2>3 DEF AdvanceRaises
  <2>4. QED BY <2>1, <2>2, <2>3
<1>4. RowsOfTheStrategy'
  <2>1. w[1] \notin OwnNotes BY <1>1, StepsOfAWorkflow
  <2>2. \A t \in Tasks : WfOf(t)[1] = t[1] BY DEF WfOf
  <2>3. QED BY <1>1, <1>3, <2>1, <2>2, NoneIsNoTask DEF FinishedInv, RowsOfTheStrategy
<1>5. FinishesQuietly' BY <1>1 DEF FinishesQuietly
<1>6. \A v \in Workflows : wf'[v] = "SUCCESS" => wf[v] = "SUCCESS"
  BY DEF AdvanceInsert, AdvanceRaises, MarkSubmissionError, FailWorkflow, TypeOK, TablesOK
<1>7. ASSUME NEW v \in Workflows, wf'[v] = "SUCCESS" PROVE Quiet(v)'
  <2>1. Quiet(v) /\ v # w BY <1>2, <1>6, <1>7 DEF FinishedInv, ResultsAreQuiet
  <2>2. QED BY <1>3, <2>1, NoneIsNoTask DEF Quiet, TasksOf
<1>8. QED BY <1>4, <1>5, <1>7 DEF FinishedInv, ResultsAreQuiet

LEMMA FinishedStep ==
    ASSUME ~ConsensusProfile, TypeOK, LastRevisionInv, AwaitedInv, PartsInv, FinishedInv, [Next]_vars
    PROVE  FinishedInv'
<1>1. CASE UNCHANGED vars
  <2>1. UNCHANGED <<wf, task, adv>> BY <1>1 DEF vars, db, worker
  <2>2. \A w : Quiet(w)' <=> Quiet(w) BY <2>1 DEF Quiet, TasksOf
  <2>3. QED
    BY <2>1, <2>2 DEF FinishedInv, ResultsAreQuiet, RowsOfTheStrategy, FinishesQuietly
<1>2. CASE Next /\ Inserting
  BY <1>2, PlanningKeepsFinished, SynthesisKeepsFinished DEF Inserting, LastRevisionInv
<1>3. CASE Next /\ ~Inserting /\ ~AdvanceRaises
  BY <1>3, RowsStayPut, FinishedKeptByStaying
<1>4. QED BY <1>1, <1>2, <1>3, SynthesisKeepsFinished

LEMMA FinishedInit == ASSUME Init PROVE FinishedInv
BY IndexTyping DEF Init, FinishedInv, ResultsAreQuiet, RowsOfTheStrategy, FinishesQuietly, NoRow

(* Without consensus, a finished document asks nothing more of the Broker: no  *)
(* step waits to be sent or is still there when advance_workflow finishes it,   *)
(* and no retry, restart or late answer brings one back.                        *)
THEOREM FinishedAsksNothing == ~ConsensusProfile => (Spec => []FinishedIsQuiet)
<1>. SUFFICES ASSUME ~ConsensusProfile PROVE Spec => []FinishedIsQuiet
  OBVIOUS
<1>1. Init => AwaitedInv /\ PartsInv /\ FinishedInv
  BY AwaitedInit, PartsInit, FinishedInit
<1>2. TypeOK /\ AwaitedInv /\ [Next]_vars => AwaitedInv' BY AwaitedStep
<1>3. TypeOK /\ LastRevisionInv /\ AwaitedInv /\ PartsInv /\ [Next]_vars => PartsInv' BY PartsStep
<1>4. TypeOK /\ LastRevisionInv /\ AwaitedInv /\ PartsInv /\ FinishedInv /\ [Next]_vars => FinishedInv'
  BY FinishedStep
<1>5. FinishedInv => FinishedIsQuiet
  BY IndexTyping DEF FinishedInv, ResultsAreQuiet, Quiet, FinishedIsQuiet, InFlightStatus, TasksOf
<1>6. QED BY <1>1, <1>2, <1>3, <1>4, <1>5, TypeCorrect, LastRevision, PTL DEF Spec

-----------------------------------------------------------------------------
(* The limit of tasks at the Broker                                           *)
LEMMA TasksAreFinite == IsFiniteSet(Tasks)
<1>. DEFINE Pairs == Captures \X Revisions
            f     == [x \in Pairs \X Steps |-> <<x[1][1], x[1][2], x[2]>>]
<1>1. IsFiniteSet(Revisions) BY FS_Interval, BoundsAssumption DEF Revisions
<1>2. IsFiniteSet(Steps)
  <2>1. IsFiniteSet(Chunks \cup {"final"}) BY FiniteAssumption, FS_AddElement
  <2>2. IsFiniteSet((Chunks \cup {"final"}) \cup {"final_fallback"}) BY <2>1, FS_AddElement
  <2>3. Steps = (Chunks \cup {"final"}) \cup {"final_fallback"} BY DEF Steps
  <2>4. QED BY <2>2, <2>3
<1>3. IsFiniteSet(Pairs \X Steps) BY <1>1, <1>2, FiniteAssumption, FS_Product
<1>4. f \in Surjection(Pairs \X Steps, Tasks)
  <2>1. f \in [Pairs \X Steps -> Tasks] BY DEF Tasks
  <2>2. ASSUME NEW t \in Tasks PROVE \E x \in Pairs \X Steps : f[x] = t
    <3>1. t = <<t[1], t[2], t[3]>> /\ <<<<t[1], t[2]>>, t[3]>> \in Pairs \X Steps BY DEF Tasks
    <3>2. QED BY <3>1
  <2>3. QED BY <2>1, <2>2 DEF Surjection
<1>5. QED BY <1>3, <1>4, FS_Surjection

LEMMA CountingRows ==
    ASSUME NEW T \in SUBSET Tasks
    PROVE  IsFiniteSet(T) /\ Cardinality(T) \in Nat
BY TasksAreFinite, FS_Subset, FS_CardinalityType

(* A query returns one row per task                                           *)
LEMMA SnapshotSize ==
    ASSUME NEW T \in SUBSET Tasks
    PROVE  /\ IsFiniteSet(Snapshot(T))
           /\ Cardinality(Snapshot(T)) \in Nat /\ Cardinality(Snapshot(T)) <= Cardinality(T)
<1>. DEFINE f == [t \in T |-> [task |-> t, key |-> task[t].key, id |-> task[t].id]]
<1>1. f \in Surjection(T, Snapshot(T)) BY DEF Surjection, Snapshot
<1>2. IsFiniteSet(T) BY CountingRows
<1>3. QED BY <1>1, <1>2, FS_Surjection, FS_CardinalityType

BatchInv == pc = "dispatch" => IsFiniteSet(todo) /\ BatchFitsTheLimit

(* While a batch is sent, only sending adds to what is at the Broker           *)
Sending == \E x \in todo : ClaimSubmission(x)

LEMMA NothingElseIsSent ==
    ASSUME TypeOK, AwaitedInv, Next, ~Sending, Dispatching, pc' = pc
    PROVE  InFlight' \subseteq InFlight
<1>1. SUFFICES ASSUME NEW t \in Tasks, task[t].st \notin InFlightStatus
               PROVE  task'[t].st \notin InFlightStatus
  BY DEF InFlight
<1>0. task[t] \in TaskRows BY RowOf
<1>2. CASE Person \/ \E u \in Tasks : RetryDue(u)
  BY <1>1, <1>2, PersonKeepsRows DEF RowsKept, RowKept
<1>3. ASSUME NEW u \in Tasks, RetryFailedTask(u) PROVE task'[t].st \notin InFlightStatus
  <2>1. task'[t] = task[t] \/ \E k : task'[t] = Reopened(task[t], k)
    BY <1>3 DEF RetryFailedTask, TypeOK, TablesOK
  <2>2. QED BY <1>0, <1>1, <2>1, ReopenedRow DEF InFlightStatus
<1>4. CASE PostAccepted \/ PostUnanswered \/ PostRefused
  <2>1. post \in Tasks /\ task[post].st \in InFlightStatus
    BY <1>4, PostIsSent DEF PostAccepted, PostUnanswered, PostRefused, InFlightStatus
  <2>2. \A u \in Tasks : u # post => task'[u] = task[u]
    BY <1>4, <2>1, ApplyChangesOne
    DEF PostAccepted, PostUnanswered, PostRefused, TypeOK, TablesOK
  <2>3. QED BY <1>1, <2>1, <2>2
<1>5. CASE UNCHANGED task BY <1>1, <1>5
<1>6. CASE AdvanceRead \/ AdvanceFinish \/ AdvanceInsert \/ AdvanceRaises
  BY <1>6 DEF AdvanceRead, AdvanceFinish, AdvanceInsert, AdvanceRaises, AwaitedInv, OneThingAtATime
<1>7. QED
  BY <1>2, <1>3, <1>4, <1>5, <1>6
  DEF Next, Cycle, Sending, Dispatching, Offline, BrokerReceives, Crash, Restart, db, EnterPlan,
      EnterCancel, EnterDispatch, EnterPoll, EnterPublish, EnterBoot, StartWorker, Between,
      PlanCapture, PlanFails, PublishOk, PublishInvalid, PublishDeferred, CancelUnanswered,
      CancelBreaks, PollUnanswered, PollRefused, CancelAnswered, PollAnswered, BootAdvance, Startup

LEMMA SendingKeepsTheLimit ==
    ASSUME TypeOK, BatchInv, pc = "dispatch", NEW x \in todo, ClaimSubmission(x)
    PROVE  BatchInv'
<1>1. x.task \in Tasks BY DEF TypeOK, WorkerOK, Snapshots
<1>2. /\ IsFiniteSet(todo) /\ todo' = todo \ {x}
      /\ Cardinality(InFlight) + Cardinality(todo) <= MaxInFlight
  BY DEF BatchInv, BatchFitsTheLimit, ClaimSubmission
<1>3. /\ IsFiniteSet(todo') /\ Cardinality(todo) \in Nat
      /\ Cardinality(todo') = Cardinality(todo) - 1
  BY <1>2, FS_RemoveElement, FS_CardinalityType
<1>4. InFlight' \subseteq InFlight \cup {x.task}
  BY <1>1 DEF ClaimSubmission, InFlight, TypeOK, TablesOK
<1>5. InFlight \in SUBSET Tasks /\ InFlight' \in SUBSET Tasks BY DEF InFlight
<1>6. /\ Cardinality(InFlight) \in Nat /\ Cardinality(InFlight') \in Nat
      /\ Cardinality(InFlight') <= Cardinality(InFlight) + 1
  <2>1. InFlight \cup {x.task} \in SUBSET Tasks BY <1>1, <1>5
  <2>2. Cardinality(InFlight') <= Cardinality(InFlight \cup {x.task})
    BY <1>4, <2>1, CountingRows, FS_Subset
  <2>3. Cardinality(InFlight \cup {x.task}) <= Cardinality(InFlight) + 1
    <3>1. IsFiniteSet(InFlight) /\ Cardinality(InFlight) \in Nat BY <1>5, CountingRows
    <3>2. Cardinality(InFlight \cup {x.task}) = IF x.task \in InFlight THEN Cardinality(InFlight)
                                                ELSE Cardinality(InFlight) + 1
      BY <3>1, FS_AddElement
    <3>3. QED BY <3>1, <3>2
  <2>4. QED BY <1>5, <2>1, <2>2, <2>3, CountingRows
<1>7. Cardinality(InFlight') + Cardinality(todo') <= MaxInFlight
  BY <1>2, <1>3, <1>6, BoundsAssumption
<1>8. QED BY <1>3, <1>7 DEF BatchInv, BatchFitsTheLimit

(* candidates[:max(0, room)] leaves room for the whole batch                   *)
LEMMA BatchIsCut ==
    ASSUME TypeOK, EnterDispatch
    PROVE  BatchInv'
<1>1. SUFFICES ASSUME pc' = "dispatch" PROVE IsFiniteSet(todo') /\ BatchFitsTheLimit'
  BY DEF BatchInv
<1>2. PICK b \in Batches(Dispatchable) : todo' = Snapshot(b) BY <1>1 DEF EnterDispatch
<1>3. b \in SUBSET Tasks /\ Dispatchable \in SUBSET Tasks BY QueriesTyping
<1>4. InFlight \in SUBSET Tasks /\ InFlight' = InFlight
  BY DEF InFlight, EnterDispatch, db
<1>5. Cardinality(b) <= Room
  BY <1>3, <1>4, CountingRows, BoundsAssumption DEF Batches, Room
<1>6. IsFiniteSet(todo') /\ Cardinality(todo') \in Nat /\ Cardinality(todo') <= Cardinality(b)
  BY <1>2, <1>3, SnapshotSize
<1>7. todo' # {} => Cardinality(todo') # 0 BY <1>6, FS_EmptySet
<1>8. todo' # {} => Cardinality(InFlight') + Cardinality(todo') <= MaxInFlight
  BY <1>3, <1>4, <1>5, <1>6, <1>7, CountingRows, BoundsAssumption DEF Room
<1>9. QED BY <1>6, <1>8 DEF BatchFitsTheLimit

LEMMA BatchStep ==
    ASSUME TypeOK, AwaitedInv, BatchInv, [Next]_vars
    PROVE  BatchInv'
<1>1. CASE UNCHANGED vars
  BY <1>1 DEF vars, db, worker, BatchInv, BatchFitsTheLimit, InFlight
<1>2. CASE pc' # "dispatch" BY <1>2 DEF BatchInv
<1>3. CASE Next /\ pc' = "dispatch" /\ ~EnterDispatch
  <2>1. pc = "dispatch" /\ todo' \subseteq todo
    BY <1>3
    DEF Next, Cycle, Person, Offline, BrokerReceives, Crash, Restart, worker, EnterPlan, EnterCancel,
        EnterPoll, EnterPublish, EnterBoot, StartWorker, PlanCapture, PlanFails, PublishOk,
        PublishInvalid, PublishDeferred, CancelUnanswered, CancelBreaks, AbortCycle, PollUnanswered,
        PollRefused, ClaimSubmission, CancelAnswered, PollAnswered, PostAccepted, PostUnanswered,
        PostRefused, AdvanceRead, AdvanceFinish, AdvanceInsert, AdvanceRaises, BootAdvance,
        CancelWorkflow, RetryTasks, ResendReady, ApproveDraft, RejectDraft, CancelWaiting,
        ReopenCancelled, Replan, IgnoreFailedCapture, ReopenRejectedDraft, SendNow, RetryDue,
        RetryFailedTask
  <2>2. CASE Sending BY <2>1, <2>2, SendingKeepsTheLimit DEF Sending
  <2>3. CASE ~Sending
    <3>1. InFlight' \subseteq InFlight
      BY <1>3, <2>1, <2>3, NothingElseIsSent DEF Dispatching
    <3>2. InFlight \in SUBSET Tasks BY DEF InFlight
    <3>3. /\ Cardinality(InFlight) \in Nat /\ Cardinality(InFlight') \in Nat
          /\ Cardinality(InFlight') <= Cardinality(InFlight)
      BY <3>1, <3>2, CountingRows, FS_Subset
    <3>4. IsFiniteSet(todo) BY <2>1 DEF BatchInv
    <3>5. /\ IsFiniteSet(todo') /\ Cardinality(todo) \in Nat /\ Cardinality(todo') \in Nat
          /\ Cardinality(todo') <= Cardinality(todo)
      BY <2>1, <3>4, FS_Subset, FS_CardinalityType
    <3>6. QED BY <2>1, <3>3, <3>5, BoundsAssumption DEF BatchInv, BatchFitsTheLimit
  <2>4. QED BY <2>2, <2>3
<1>4. QED BY <1>1, <1>2, <1>3, BatchIsCut

(* However the person cancels, retries and asks for tasks while a batch is    *)
(* being sent, what is at the Broker and the rest of the batch fit in         *)
(* max_in_flight.                                                             *)
THEOREM BatchesFit == Spec => []BatchFitsTheLimit
<1>1. Init => AwaitedInv /\ BatchInv BY AwaitedInit DEF Init, BatchInv
<1>2. TypeOK /\ AwaitedInv /\ [Next]_vars => AwaitedInv' BY AwaitedStep
<1>3. TypeOK /\ AwaitedInv /\ BatchInv /\ [Next]_vars => BatchInv' BY BatchStep
<1>4. BatchInv => BatchFitsTheLimit BY DEF BatchInv, BatchFitsTheLimit
<1>5. QED BY <1>1, <1>2, <1>3, <1>4, TypeCorrect, PTL DEF Spec

-----------------------------------------------------------------------------
(* The life of the document                                                       *)

(* A published result stays in force, and was approved if the profile asks   *)
NotesInForce ==
    /\ \A w \in note : Current(w) /\ (ReviewRequired => review[w] = "APPROVED")
    /\ ~ReviewRequired => \A w \in Workflows : review[w] = "none"

QueueInv == TypeOK /\ LastRevisionInv /\ AwaitedInv /\ PartsInv /\ FinishedInv

(* The moves of one workflow that the promise tells apart                    *)
SameForce ==
    /\ \A w \in Workflows : (Live(w)' <=> Live(w)) /\ (Current(w)' <=> Current(w))
                            /\ (Exists(w)' <=> Exists(w))
    /\ note' = note
OnlyMoves(w) ==
    \A v \in Workflows : v # w => /\ wf'[v] = wf[v] /\ review'[v] = review[v]
                                  /\ v \in note' <=> v \in note
Planned(w)   == cap[w[1]] = "PENDING" /\ ~Exists(w) /\ Live(w)' /\ note' = note
Stopped(w)   == Live(w) /\ wf'[w] \in {"ERROR", "CANCELLED"} /\ note' = note
Resumed(w)   == Latest(w) /\ ~Live(w) /\ ~Current(w) /\ Live(w)' /\ note' = note
Finished(w)  == Live(w) /\ Current(w)' /\ note' = note
Discarded(w) == Current(w) /\ w \notin note /\ ~Live(w)' /\ ~Current(w)' /\ Exists(w)' /\ note' = note
Published(w) == /\ Current(w) /\ w \notin note /\ (ReviewRequired => review[w] = "APPROVED")
                /\ Current(w)' /\ note' = note \cup {w}

Moves(w) == OnlyMoves(w) /\ \/ Planned(w) \/ Stopped(w) \/ Resumed(w)
                            \/ Finished(w) \/ Discarded(w) \/ Published(w)

LEMMA SameRows == ASSUME UNCHANGED <<wf, review, note>> PROVE SameForce
BY DEF SameForce, Live, Current, Exists

(* Only one revision of a document is in force                               *)
LEMMA OneInForce ==
    ASSUME LastRevisionInv, NEW v \in Workflows, NEW w \in Workflows, v[1] = w[1],
           InForce(v), InForce(w)
    PROVE  v = w
<1>1. /\ v = <<v[1], v[2]>> /\ w = <<v[1], w[2]>> /\ v[1] \in Captures
      /\ v[2] \in Revisions /\ w[2] \in Revisions
  BY DEF Workflows
<1>2. Exists(v) /\ Exists(w) BY DEF InForce, Live, Current, LiveStatus, Exists
<1>3. w[2] <= v[2] /\ v[2] <= w[2]
  BY <1>1, <1>2 DEF LastRevisionInv, LastIsInForce, InForce
<1>4. v[2] = w[2] BY <1>1, <1>3, BoundsAssumption DEF Revisions
<1>5. QED BY <1>1, <1>4

(* _fail_workflow on a workflow without a result stops it or changes nothing  *)
LEMMA FailingStops ==
    ASSUME TypeOK, NEW w \in Workflows, Exists(w), wf[w] # "SUCCESS", NEW code,
           FailWorkflow(w, code), UNCHANGED <<review, note>>
    PROVE  SameForce \/ Moves(w)
<1>1. wf' = IF wf[w] = "CANCELLED" THEN wf ELSE [wf EXCEPT ![w] = "ERROR"]
  BY DEF FailWorkflow
<1>2. \A v \in Workflows : v # w => wf'[v] = wf[v] BY <1>1 DEF TypeOK, TablesOK
<1>3. CASE Live(w)
  BY <1>1, <1>2, <1>3 DEF Moves, OnlyMoves, Stopped, Live, LiveStatus, TypeOK, TablesOK
<1>4. CASE ~Live(w)
  BY <1>1, <1>2, <1>4 DEF SameForce, Live, LiveStatus, Current, Exists, TypeOK, TablesOK
<1>5. QED BY <1>3, <1>4

LEMMA AskedHasNoResult ==
    ASSUME QueueInv, NEW t \in Tasks, task[t].st \in InFlightStatus
    PROVE  WfOf(t) \in Workflows /\ wf[WfOf(t)] # "SUCCESS" /\ Exists(WfOf(t))
<1>1. WfOf(t) \in Workflows BY IndexTyping
<1>2. wf[WfOf(t)] # "SUCCESS"
  BY <1>1 DEF QueueInv, FinishedInv, ResultsAreQuiet, Quiet, TasksOf, InFlightStatus
<1>3. Exists(WfOf(t)) BY DEF QueueInv, LastRevisionInv, RowsHaveAWorkflow, InFlightStatus
<1>4. QED BY <1>1, <1>2, <1>3

LEMMA SubmissionErrorStops ==
    ASSUME QueueInv, NEW t \in Tasks, task[t].st \in InFlightStatus, MarkSubmissionError(t),
           UNCHANGED <<review, note>>
    PROVE  SameForce \/ Moves(WfOf(t))
BY AskedHasNoResult, FailingStops DEF MarkSubmissionError, QueueInv

LEMMA StatusStops ==
    ASSUME QueueInv, NEW t \in Tasks, task[t].st \in PolledStatus, NEW a \in Answers,
           ApplyStatus(t, a), UNCHANGED <<review, note>>
    PROVE  SameForce \/ Moves(WfOf(t))
<1>1. CASE UNCHANGED wf BY <1>1, SameRows
<1>2. CASE \E code : FailWorkflow(WfOf(t), code)
  BY <1>2, AskedHasNoResult, FailingStops DEF QueueInv, PolledStatus, InFlightStatus
<1>3. QED
  BY <1>1, <1>2
  DEF ApplyStatus, ApplyLate, ApplyEnlarged, ApplyProgress, ApplySuccess, ApplyFailure, ApplyCancelled

LEMMA WorkerMoves ==
    ASSUME ~ConsensusProfile, QueueInv, NotesInForce, Cycle
    PROVE  SameForce \/ \E w \in Workflows : Moves(w)
<1>0. TypeOK /\ AwaitedInv /\ LastRevisionInv BY DEF QueueInv
<1>1. ASSUME NEW x \in todo, NEW a \in Answers, CancelAnswered(x, a) \/ PollAnswered(x, a)
      PROVE  SameForce \/ \E w \in Workflows : Moves(w)
  <2>1. x.task \in Tasks /\ task[x.task].st \in PolledStatus
    BY <1>0, <1>1, VisitedIsPolled DEF CancelAnswered, PollAnswered, Polling
  <2>2. SameForce \/ Moves(WfOf(x.task))
    BY <1>1, <2>1, StatusStops DEF CancelAnswered, PollAnswered
  <2>3. QED BY <2>1, <2>2, IndexTyping
<1>2. ASSUME NEW x \in todo, PollRefused(x) PROVE SameForce \/ \E w \in Workflows : Moves(w)
  <2>1. x.task \in Tasks /\ task[x.task].st \in InFlightStatus
    BY <1>0, <1>2, VisitedIsPolled DEF PollRefused, Polling, PolledStatus, InFlightStatus
  <2>2. QED BY <1>2, <2>1, SubmissionErrorStops, IndexTyping DEF PollRefused
<1>3. ASSUME PostUnanswered \/ PostRefused PROVE SameForce \/ \E w \in Workflows : Moves(w)
  <2>1. post \in Tasks /\ task[post].st \in InFlightStatus
    BY <1>0, <1>3, PostIsSent DEF PostUnanswered, PostRefused, InFlightStatus
  <2>2. QED
    BY <1>3, <2>1, SubmissionErrorStops, SameRows, IndexTyping DEF PostUnanswered, PostRefused
<1>4. ASSUME PostAccepted PROVE SameForce
  <2>1. post \in Tasks /\ WfOf(post) \in Workflows BY <1>0, <1>4, PostIsSent, IndexTyping DEF PostAccepted
  <2>2. \A w \in Workflows : wf'[w] = wf[w] \/ (wf[w] = "PLANNED" /\ wf'[w] = "RUNNING")
    BY <1>0, <1>4, <2>1 DEF PostAccepted, TypeOK, TablesOK
  <2>3. UNCHANGED <<review, note>> BY <1>4 DEF PostAccepted
  <2>4. QED BY <2>2, <2>3 DEF SameForce, Live, LiveStatus, Current, Exists
<1>5. ASSUME AdvanceRaises PROVE SameForce \/ \E w \in Workflows : Moves(w)
  <2>1. CASE pc = "poll"
    <3>1. PICK w \in Workflows :
              /\ adv.from \in Tasks /\ WfOf(adv.from) = w /\ Exists(w) /\ wf[w] # "SUCCESS"
      BY <1>0, <1>5, <2>1
      DEF AdvanceRaises, TypeOK, WorkerOK, Advances, QueueInv, PartsInv, AdvanceIsCurrent,
          ResultHasSynthesis, LastRevisionInv, RowsHaveAWorkflow
    <3>2. QED BY <1>0, <1>5, <2>1, <3>1, FailingStops DEF AdvanceRaises, MarkSubmissionError
  <2>2. CASE pc # "poll" BY <1>5, <2>2, SameRows DEF AdvanceRaises
  <2>3. QED BY <2>1, <2>2
<1>6. ASSUME NEW c \in Captures, NEW r \in Revisions, PlanCapture(c, r)
      PROVE  \E w \in Workflows : Moves(w)
  <2>1. <<c, r>> \in Workflows BY IndexTyping
  <2>2. \A v \in Workflows : wf'[v] = IF v = <<c, r>> THEN "PLANNED" ELSE wf[v]
    BY <1>0, <1>6 DEF PlanCapture, TypeOK, TablesOK
  <2>3. UNCHANGED <<review, note>> BY <1>6 DEF PlanCapture
  <2>4. cap[c] = "PENDING" /\ wf[<<c, r>>] = "none" BY <1>6 DEF PlanCapture
  <2>5. Moves(<<c, r>>)
    BY <2>1, <2>2, <2>3, <2>4 DEF Moves, OnlyMoves, Planned, Live, LiveStatus, Exists
  <2>6. QED BY <2>1, <2>5
<1>7. ASSUME AdvanceFinish PROVE SameForce \/ \E w \in Workflows : Moves(w)
  <2>1. PICK w \in Workflows : adv.wf = w BY <1>0, <1>7 DEF AdvanceFinish, TypeOK, WorkerOK, Advances
  <2>2. /\ \A v \in Workflows : wf'[v] = IF v = w /\ Live(w) THEN "SUCCESS" ELSE wf[v]
        /\ \A v \in Workflows :
               review'[v] = IF v = w /\ Live(w) /\ ReviewRequired THEN "PENDING" ELSE review[v]
        /\ note' = note
    BY <1>0, <1>7, <2>1 DEF AdvanceFinish, TypeOK, TablesOK, Live
  <2>3. CASE Live(w)
    <3>1. Current(w)' BY <2>2, <2>3 DEF Current, NotesInForce
    <3>2. QED BY <2>2, <2>3, <3>1 DEF Moves, OnlyMoves, Finished
  <2>4. CASE ~Live(w) BY <2>2, <2>4 DEF SameForce, Live, Current, Exists
  <2>5. QED BY <2>3, <2>4
<1>8. ASSUME NEW c \in Captures, NEW w \in Publishable(c)
      PROVE  /\ w \in Workflows /\ Current(w) /\ w \notin note
             /\ Publishable(c) = {w} /\ (ReviewRequired => review[w] = "APPROVED")
  <2>1. ASSUME NEW v \in Publishable(c)
        PROVE  v \in Workflows /\ v[1] = c /\ v \notin note /\ Current(v)
    BY DEF Publishable, Current, NotesInForce
  <2>2. \A v \in Publishable(c) : v = w BY <1>0, <2>1, OneInForce DEF InForce
  <2>3. ReviewRequired => review[w] = "APPROVED" BY DEF Publishable
  <2>4. QED BY <2>1, <2>2, <2>3
<1>9. ASSUME NEW c \in Captures, PublishOk(c) \/ PublishInvalid(c)
      PROVE  SameForce \/ \E w \in Workflows : Moves(w)
  <2>1. CASE Publishable(c) = {}
    BY <1>0, <1>9, <2>1 DEF PublishOk, PublishInvalid, SameForce, Live, Current, Exists
  <2>2. ASSUME NEW w \in Publishable(c) PROVE Moves(w) /\ w \in Workflows
    <3>1. /\ w \in Workflows /\ Current(w) /\ w \notin note
          /\ Publishable(c) = {w} /\ (ReviewRequired => review[w] = "APPROVED")
      BY <1>8
    <3>2. CASE PublishOk(c)
      BY <3>1, <3>2 DEF PublishOk, Moves, OnlyMoves, Published, Current
    <3>3. CASE PublishInvalid(c)
      <4>1. /\ \A v \in Workflows : wf'[v] = IF v = w THEN "ERROR" ELSE wf[v]
            /\ UNCHANGED <<review, note>>
        BY <3>1, <3>3 DEF PublishInvalid
      <4>2. QED
        BY <3>1, <4>1 DEF Moves, OnlyMoves, Discarded, Current, Live, LiveStatus, Exists
    <3>4. QED BY <1>9, <3>1, <3>2, <3>3
  <2>3. QED BY <2>1, <2>2
<1>10. ASSUME UNCHANGED <<wf, review, note>> PROVE SameForce BY <1>10, SameRows
<1>11. QED
  BY <1>1, <1>2, <1>3, <1>4, <1>5, <1>6, <1>7, <1>9, <1>10
  DEF Cycle, db, EnterPlan, EnterCancel, EnterDispatch, EnterPoll, EnterPublish, EnterBoot,
      StartWorker, PlanFails, PublishDeferred, CancelUnanswered, CancelBreaks, PollUnanswered,
      ClaimSubmission, AdvanceRead, AdvanceInsert, BootAdvance

LEMMA OthersMove ==
    ASSUME QueueInv, NotesInForce, Next, ~Cycle
    PROVE  SameForce \/ \E w \in Workflows : Moves(w)
<1>0. TypeOK /\ LastRevisionInv BY DEF QueueInv
<1>1. ASSUME NEW w \in Workflows, CancelWorkflow(w) PROVE Moves(w)
  <2>1. /\ \A v \in Workflows : wf'[v] = IF v = w THEN "CANCELLED" ELSE wf[v]
        /\ UNCHANGED <<review, note>> /\ Live(w)
    BY <1>0, <1>1 DEF CancelWorkflow, TypeOK, TablesOK
  <2>2. QED BY <2>1 DEF Moves, OnlyMoves, Stopped
<1>2. ASSUME NEW w \in Workflows, ApproveDraft(w) PROVE SameForce
  <2>1. /\ \A v \in Workflows : review'[v] = IF v = w THEN "APPROVED" ELSE review[v]
        /\ UNCHANGED <<wf, note>> /\ review[w] = "PENDING"
    BY <1>0, <1>2 DEF ApproveDraft, TypeOK, TablesOK
  <2>2. QED BY <2>1 DEF SameForce, Live, Current, Exists
<1>3. ASSUME NEW w \in Workflows, RejectDraft(w) PROVE Moves(w)
  <2>1. /\ \A v \in Workflows : review'[v] = IF v = w THEN "REJECTED" ELSE review[v]
        /\ UNCHANGED <<wf, note>> /\ review[w] = "PENDING" /\ wf[w] = "SUCCESS"
    BY <1>0, <1>3 DEF RejectDraft, TypeOK, TablesOK
  <2>2. w \notin note BY <2>1 DEF NotesInForce
  <2>3. QED BY <2>1, <2>2 DEF Moves, OnlyMoves, Discarded, Current, Live, LiveStatus, Exists
<1>4. ASSUME NEW c \in Captures, IgnoreFailedCapture(c) PROVE SameForce
  <2>1. /\ \A v \in Workflows : wf'[v] = wf[v] \/ (wf[v] = "ERROR" /\ wf'[v] = "CANCELLED")
        /\ UNCHANGED <<review, note>>
    BY <1>4 DEF IgnoreFailedCapture
  <2>2. QED BY <2>1 DEF SameForce, Live, LiveStatus, Current, Exists
<1>5. ASSUME NEW t \in Tasks, RetryFailedTask(t) PROVE SameForce \/ \E w \in Workflows : Moves(w)
  <2>1. CASE task[t].st # "ERROR" BY <1>5, <2>1, SameRows DEF RetryFailedTask
  <2>2. CASE task[t].st = "ERROR"
    <3>1. WfOf(t) \in Workflows /\ Latest(WfOf(t))
      BY <1>0, <1>5, IndexTyping DEF RetryFailedTask, LastRevisionInv, RetriedIsLatest
    <3>2. /\ \A v \in Workflows : wf'[v] = IF v = WfOf(t) THEN "RUNNING" ELSE wf[v]
          /\ UNCHANGED <<review, note>>
      BY <1>0, <1>5, <2>2, <3>1 DEF RetryFailedTask, TypeOK, TablesOK
    <3>3. wf[WfOf(t)] # "SUCCESS"
      BY <2>2, <3>1 DEF QueueInv, FinishedInv, ResultsAreQuiet, Quiet, TasksOf
    <3>4. CASE Live(WfOf(t))
      BY <3>2, <3>4 DEF SameForce, Live, LiveStatus, Current, Exists
    <3>5. CASE ~Live(WfOf(t))
      BY <3>1, <3>2, <3>3, <3>5 DEF Moves, OnlyMoves, Resumed, Live, LiveStatus, Current
    <3>6. QED BY <3>1, <3>4, <3>5
  <2>3. QED BY <2>1, <2>2
<1>6. ASSUME UNCHANGED <<wf, review, note>> PROVE SameForce BY <1>6, SameRows
<1>7. QED
  BY <1>1, <1>2, <1>3, <1>4, <1>5, <1>6
  DEF Next, Person, db, Offline, BrokerReceives, Crash, Restart, RetryTasks, ResendReady, CancelWaiting,
      ReopenCancelled, Replan, ReopenRejectedDraft, SendNow, RetryDue

LEMMA EveryStepMoves ==
    ASSUME ~ConsensusProfile, QueueInv, NotesInForce, [Next]_vars
    PROVE  SameForce \/ \E w \in Workflows : Moves(w)
BY WorkerMoves, OthersMove, SameRows DEF vars, db

-----------------------------------------------------------------------------
(* The result of a note stays in force                                      *)

(* A review is written when a draft is finished and when a person decides it *)
LEMMA ReviewsMove ==
    ASSUME TypeOK, [Next]_vars, NEW w \in Workflows, review'[w] # review[w]
    PROVE  review[w] = "PENDING" \/ (ReviewRequired /\ Live(w))
<1>1. CASE AdvanceFinish
  <2>1. PICK v \in Workflows : adv.wf = v BY <1>1 DEF AdvanceFinish, TypeOK, WorkerOK, Advances
  <2>2. review' = [review EXCEPT ![v] = IF Live(v) /\ ReviewRequired THEN "PENDING" ELSE @]
    BY <1>1, <2>1 DEF AdvanceFinish
  <2>3. QED BY <2>2 DEF TypeOK, TablesOK
<1>2. CASE \E v \in Workflows : ApproveDraft(v) \/ RejectDraft(v)
  BY <1>2 DEF ApproveDraft, RejectDraft, TypeOK, TablesOK
<1>3. QED
  BY <1>1, <1>2
  DEF Next, vars, db, Cycle, Person, Offline, BrokerReceives, Crash, Restart, EnterPlan, EnterCancel,
      EnterDispatch, EnterPoll, EnterPublish, EnterBoot, StartWorker, PlanCapture, PlanFails,
      PublishOk, PublishInvalid, PublishDeferred, CancelUnanswered, CancelBreaks, PollUnanswered,
      PollRefused, ClaimSubmission, CancelAnswered, PollAnswered, PostAccepted, PostUnanswered,
      PostRefused, AdvanceRead, AdvanceInsert, AdvanceRaises, BootAdvance, CancelWorkflow,
      RetryTasks, ResendReady, CancelWaiting, ReopenCancelled, Replan, IgnoreFailedCapture,
      ReopenRejectedDraft, SendNow, RetryDue, RetryFailedTask

LEMMA NotesStep ==
    ASSUME ~ConsensusProfile, QueueInv, NotesInForce, [Next]_vars
    PROVE  NotesInForce'
<1>1. TypeOK BY DEF QueueInv
<1>2. SameForce \/ \E w \in Workflows : Moves(w) BY EveryStepMoves
<1>3. ASSUME NEW w \in note
      PROVE  /\ w \in Workflows /\ Current(w)' /\ (ReviewRequired => review'[w] = "APPROVED")
  <2>1. w \in Workflows /\ Current(w) /\ ~Live(w) /\ Exists(w)
    BY <1>1, <1>3 DEF TypeOK, TablesOK, NotesInForce, Current, Live, LiveStatus, Exists
  <2>2. Current(w)'
    BY <1>2, <1>3, <2>1
    DEF SameForce, Moves, OnlyMoves, Planned, Stopped, Resumed, Finished, Discarded, Published, Current
  <2>3. ReviewRequired => review'[w] = "APPROVED"
    BY <1>1, <1>3, <2>1, ReviewsMove DEF NotesInForce
  <2>4. QED BY <2>1, <2>2, <2>3
<1>4. ASSUME NEW w \in note', w \notin note
      PROVE  Current(w)' /\ (ReviewRequired => review'[w] = "APPROVED")
  <2>1. w \in Workflows /\ Published(w)
    BY <1>2, <1>4
    DEF SameForce, Moves, Planned, Stopped, Resumed, Finished, Discarded, Published
  <2>2. ReviewRequired => review'[w] = "APPROVED"
    BY <1>1, <2>1, ReviewsMove DEF Published, Current, Live, LiveStatus
  <2>3. QED BY <2>1, <2>2 DEF Published
<1>5. ~ReviewRequired => \A w \in Workflows : review'[w] = "none"
  BY <1>1, ReviewsMove DEF NotesInForce
<1>6. QED BY <1>3, <1>4, <1>5 DEF NotesInForce

-----------------------------------------------------------------------------
(* The abstract state of a document, read off the rows of one revision       *)
StageIs ==
    \A w \in Workflows :
        /\ w \in note => StageOf(w[1]) = "published"
        /\ Live(w) => StageOf(w[1]) = "working"
        /\ Current(w) /\ w \notin note => StageOf(w[1]) = "result"
        /\ HasNoneInForce(w[1]) => StageOf(w[1]) = "idle"

LEMMA StageMapped == TypeOK /\ LastRevisionInv /\ NotesInForce => StageIs
<1>. SUFFICES ASSUME TypeOK, LastRevisionInv, NotesInForce, NEW w \in Workflows
              PROVE  /\ w \in note => StageOf(w[1]) = "published"
                     /\ Live(w) => StageOf(w[1]) = "working"
                     /\ Current(w) /\ w \notin note => StageOf(w[1]) = "result"
                     /\ HasNoneInForce(w[1]) => StageOf(w[1]) = "idle"
  BY DEF StageIs
<1>1. w[1] \in Captures /\ w[2] \in Revisions /\ w = <<w[1], w[2]>> BY DEF Workflows
<1>2. ASSUME NEW r \in Revisions, InForce(<<w[1], r>>), InForce(w) PROVE r = w[2]
  BY <1>1, <1>2, OneInForce, IndexTyping
<1>3. \A r \in Revisions : <<w[1], r>> \in note => Current(<<w[1], r>>) BY DEF NotesInForce
<1>4. \A r \in Revisions : ~(Live(<<w[1], r>>) /\ Current(<<w[1], r>>))
  BY DEF Live, LiveStatus, Current
<1>5. QED BY <1>1, <1>2, <1>3, <1>4 DEF StageOf, InForce, HasNoneInForce

-----------------------------------------------------------------------------
(* How many revisions a document has, and the abstract variables             *)
PlannedOf(c) == {r \in Revisions : Exists(<<c, r>>)}
StageTable    == [c \in Captures |-> StageOf(c)]
RevisionTable == [c \in Captures |-> Cardinality(PlannedOf(c))]

LEMMA RevisionsCounted ==
    ASSUME NEW c \in Captures
    PROVE  /\ IsFiniteSet(PlannedOf(c)) /\ Cardinality(PlannedOf(c)) \in Nat
           /\ \A r \in Revisions : Exists(<<c, r>>) => Cardinality(PlannedOf(c)) > 0
<1>1. IsFiniteSet(Revisions) BY FS_Interval, BoundsAssumption DEF Revisions
<1>2. PlannedOf(c) \subseteq Revisions BY DEF PlannedOf
<1>3. IsFiniteSet(PlannedOf(c)) /\ Cardinality(PlannedOf(c)) \in Nat
  BY <1>1, <1>2, FS_Subset, FS_CardinalityType
<1>4. ASSUME NEW r \in Revisions, Exists(<<c, r>>) PROVE Cardinality(PlannedOf(c)) > 0
  <2>1. PlannedOf(c) # {} BY <1>4 DEF PlannedOf
  <2>2. QED BY <1>3, <2>1, FS_EmptySet
<1>5. QED BY <1>3, <1>4

(* A move of one workflow leaves every other document where it was           *)
LEMMA OthersStay ==
    ASSUME NEW w \in Workflows, OnlyMoves(w), NEW c \in Captures, c # w[1]
    PROVE  StageOf(c)' = StageOf(c) /\ PlannedOf(c)' = PlannedOf(c)
<1>1. \A r \in Revisions : <<c, r>> \in Workflows /\ <<c, r>> # w BY IndexTyping
<1>2. \A r \in Revisions : /\ wf'[<<c, r>>] = wf[<<c, r>>] /\ review'[<<c, r>>] = review[<<c, r>>]
                           /\ <<c, r>> \in note' <=> <<c, r>> \in note
  BY <1>1 DEF OnlyMoves
<1>3. \A r \in Revisions : /\ Live(<<c, r>>)' <=> Live(<<c, r>>)
                           /\ Current(<<c, r>>)' <=> Current(<<c, r>>)
                           /\ Exists(<<c, r>>)' <=> Exists(<<c, r>>)
  BY <1>2 DEF Live, Current, Exists
<1>4. StageOf(c)' = StageOf(c) BY <1>2, <1>3 DEF StageOf
<1>5. QED BY <1>3, <1>4 DEF PlannedOf

(* A move of a workflow is a move of its document                             *)
LEMMA DocumentMoves ==
    ASSUME NEW w \in Workflows, OnlyMoves(w), NEW from, NEW to,
           StageOf(w[1]) = from, StageOf(w[1])' = to
    PROVE  Lifecycle!Move(w[1], from, to)
<1>1. w[1] \in Captures BY DEF Workflows
<1>2. \A c \in Captures : StageOf(c)' = IF c = w[1] THEN to ELSE StageOf(c) BY OthersStay
<1>3. QED BY <1>1, <1>2 DEF Lifecycle!Move

LEMMA RevisionsStay ==
    ASSUME NEW w \in Workflows, OnlyMoves(w), Exists(w)' <=> Exists(w)
    PROVE  RevisionTable' = RevisionTable
<1>1. \A r \in Revisions : r # w[2] => <<w[1], r>> # w BY DEF Workflows
<1>2. PlannedOf(w[1])' = PlannedOf(w[1])
  BY <1>1, IndexTyping DEF PlannedOf, OnlyMoves, Exists, Workflows
<1>3. \A c \in Captures : PlannedOf(c)' = PlannedOf(c) BY <1>2, OthersStay
<1>4. QED BY <1>3 DEF RevisionTable

LEMMA PlanningCounts ==
    ASSUME NEW w \in Workflows, OnlyMoves(w), ~Exists(w), Exists(w)'
    PROVE  RevisionTable' = [RevisionTable EXCEPT ![w[1]] = @ + 1]
<1>1. w[1] \in Captures /\ w[2] \in Revisions /\ w = <<w[1], w[2]>> BY DEF Workflows
<1>2. \A r \in Revisions : r # w[2] => <<w[1], r>> \in Workflows /\ <<w[1], r>> # w
  BY <1>1, IndexTyping
<1>3. PlannedOf(w[1])' = PlannedOf(w[1]) \cup {w[2]} /\ w[2] \notin PlannedOf(w[1])
  BY <1>1, <1>2 DEF PlannedOf, OnlyMoves, Exists
<1>4. Cardinality(PlannedOf(w[1])') = Cardinality(PlannedOf(w[1])) + 1
  BY <1>1, <1>3, FS_AddElement, RevisionsCounted
<1>5. \A c \in Captures : c # w[1] => PlannedOf(c)' = PlannedOf(c) BY OthersStay
<1>6. \A c \in Captures : Cardinality(PlannedOf(c))' = IF c = w[1] THEN Cardinality(PlannedOf(c)) + 1
                                                                  ELSE Cardinality(PlannedOf(c))
  BY <1>4, <1>5
<1>7. QED BY <1>1, <1>6 DEF RevisionTable

-----------------------------------------------------------------------------
(* Each move is a step of the abstract specification                         *)

(* Without the revision that was in force, the document has none             *)
LEMMA NoneLeft ==
    ASSUME LastRevisionInv, NEW w \in Workflows, OnlyMoves(w), InForce(w), ~InForce(w)'
    PROVE  HasNoneInForce(w[1])'
<1>1. SUFFICES ASSUME NEW r \in Revisions, InForce(<<w[1], r>>)' PROVE FALSE
  BY DEF HasNoneInForce, InForce
<1>2. <<w[1], r>> \in Workflows BY IndexTyping DEF Workflows
<1>3. <<w[1], r>> # w BY <1>1
<1>4. InForce(<<w[1], r>>) BY <1>1, <1>2, <1>3 DEF OnlyMoves, InForce, Live, Current
<1>5. QED BY <1>2, <1>3, <1>4, OneInForce

LEMMA ResumedHadNone ==
    ASSUME LastRevisionInv, NEW w \in Workflows, Latest(w), ~InForce(w)
    PROVE  HasNoneInForce(w[1])
<1>1. SUFFICES ASSUME NEW r \in Revisions, InForce(<<w[1], r>>) PROVE FALSE
  BY DEF HasNoneInForce, InForce
<1>2. w[1] \in Captures /\ w[2] \in Revisions /\ w = <<w[1], w[2]>> BY DEF Workflows
<1>3. <<w[1], r>> \in Workflows BY <1>2, IndexTyping
<1>4. Exists(<<w[1], r>>) BY <1>1 DEF InForce, Live, Current, LiveStatus, Exists
<1>5. r <= w[2] BY <1>3, <1>4 DEF Latest
<1>6. w[2] <= r BY <1>1, <1>2 DEF LastRevisionInv, LastIsInForce, InForce, Latest
<1>7. r = w[2] BY <1>2, <1>5, <1>6, BoundsAssumption DEF Revisions
<1>8. QED BY <1>1, <1>2, <1>7

LEMMA MoveIsAStep ==
    ASSUME QueueInv, NotesInForce, StageIs, StageIs', NEW w \in Workflows, Moves(w)
    PROVE  Lifecycle!Next
<1>1. w[1] \in Captures /\ OnlyMoves(w) /\ LastRevisionInv BY DEF Workflows, Moves, QueueInv
<1>2. /\ w \in note => StageOf(w[1]) = "published"
      /\ Live(w) => StageOf(w[1]) = "working"
      /\ Current(w) /\ w \notin note => StageOf(w[1]) = "result"
      /\ HasNoneInForce(w[1]) => StageOf(w[1]) = "idle"
  BY DEF StageIs
<1>3. /\ w \in note' => StageOf(w[1])' = "published"
      /\ Live(w)' => StageOf(w[1])' = "working"
      /\ Current(w)' /\ w \notin note' => StageOf(w[1])' = "result"
      /\ HasNoneInForce(w[1])' => StageOf(w[1])' = "idle"
  BY DEF StageIs
<1>4. w \in note => Current(w) BY DEF NotesInForce
<1>5. CASE Planned(w)
  <2>1. HasNoneInForce(w[1])
    BY <1>1, <1>5 DEF Planned, LastRevisionInv, QueuedHasNone
  <2>2. Exists(w)' BY <1>5 DEF Planned, Live, LiveStatus, Exists
  <2>3. QED
    BY <1>1, <1>2, <1>3, <1>5, <2>1, <2>2, DocumentMoves, PlanningCounts
    DEF Planned, Lifecycle!Next, Lifecycle!Plan, RevisionTable, PlannedOf
<1>6. CASE Stopped(w)
  <2>1. InForce(w) /\ ~InForce(w)' /\ (Exists(w)' <=> Exists(w))
    BY <1>6 DEF Stopped, InForce, Live, LiveStatus, Current, Exists
  <2>2. QED
    BY <1>1, <1>2, <1>3, <1>6, <2>1, NoneLeft, DocumentMoves, RevisionsStay
    DEF Stopped, Lifecycle!Next, Lifecycle!Stop, RevisionTable, PlannedOf
<1>7. CASE Resumed(w)
  <2>1. HasNoneInForce(w[1]) BY <1>1, <1>7, ResumedHadNone DEF Resumed, InForce
  <2>2. Exists(w)' <=> Exists(w) BY <1>7 DEF Resumed, Latest, Live, LiveStatus, Exists
  <2>3. Cardinality(PlannedOf(w[1])) > 0
    BY <1>1, <1>7, RevisionsCounted DEF Resumed, Latest, Workflows
  <2>4. QED
    BY <1>1, <1>2, <1>3, <1>7, <2>1, <2>2, <2>3, DocumentMoves, RevisionsStay
    DEF Resumed, Lifecycle!Next, Lifecycle!Resume, RevisionTable, PlannedOf
<1>8. CASE Finished(w)
  <2>1. w \notin note /\ (Exists(w)' <=> Exists(w))
    BY <1>4, <1>8 DEF Finished, Live, LiveStatus, Current, Exists
  <2>2. QED
    BY <1>1, <1>2, <1>3, <1>8, <2>1, DocumentMoves, RevisionsStay
    DEF Finished, Lifecycle!Next, Lifecycle!Finish, RevisionTable, PlannedOf
<1>9. CASE Discarded(w)
  <2>1. InForce(w) /\ ~InForce(w)' /\ (Exists(w)' <=> Exists(w))
    BY <1>9 DEF Discarded, InForce, Current, Exists
  <2>2. QED
    BY <1>1, <1>2, <1>3, <1>9, <2>1, NoneLeft, DocumentMoves, RevisionsStay
    DEF Discarded, Lifecycle!Next, Lifecycle!Discard, RevisionTable, PlannedOf
<1>10. CASE Published(w)
  <2>1. w \in note' /\ (Exists(w)' <=> Exists(w)) BY <1>10 DEF Published, Current, Exists
  <2>2. QED
    BY <1>1, <1>2, <1>3, <1>10, <2>1, DocumentMoves, RevisionsStay
    DEF Published, Lifecycle!Next, Lifecycle!Publish, RevisionTable, PlannedOf
<1>11. QED BY <1>5, <1>6, <1>7, <1>8, <1>9, <1>10 DEF Moves

(* A transaction that changes the force of nothing is no abstract step        *)
LEMMA SameForceStutters == ASSUME SameForce PROVE UNCHANGED <<StageTable, RevisionTable>>
<1>1. \A c \in Captures : \A r \in Revisions :
          /\ Live(<<c, r>>)' <=> Live(<<c, r>>)
          /\ Current(<<c, r>>)' <=> Current(<<c, r>>)
          /\ Exists(<<c, r>>)' <=> Exists(<<c, r>>)
          /\ <<c, r>> \in note' <=> <<c, r>> \in note
  BY IndexTyping DEF SameForce
<1>2. \A c \in Captures : StageOf(c)' = StageOf(c) BY <1>1 DEF StageOf
<1>3. \A c \in Captures : PlannedOf(c)' = PlannedOf(c) BY <1>1 DEF PlannedOf
<1>4. QED BY <1>2, <1>3 DEF StageTable, RevisionTable

LEMMA LifecycleInit == ASSUME Init PROVE Lifecycle!Init
<1>1. \A c \in Captures : \A r \in Revisions :
          /\ ~Live(<<c, r>>) /\ ~Current(<<c, r>>) /\ ~Exists(<<c, r>>) /\ <<c, r>> \notin note
  BY IndexTyping DEF Init, Live, LiveStatus, Current, Exists
<1>2. \A c \in Captures : StageOf(c) = "idle" BY <1>1 DEF StageOf
<1>3. \A c \in Captures : {r \in Revisions : Exists(<<c, r>>)} = {} BY <1>1
<1>4. QED BY <1>2, <1>3, FS_EmptySet DEF Lifecycle!Init

(* The queue of the Broker, with every command, retry, answer and crash, does  *)
(* what the life of a document promises.                                       *)
THEOREM QueueImplementsLifecycle == ~ConsensusProfile => (Spec => ImplementsLifecycle)
<1>. SUFFICES ASSUME ~ConsensusProfile PROVE Spec => ImplementsLifecycle
  OBVIOUS
<1>1. Init => LastRevisionInv /\ AwaitedInv /\ PartsInv /\ FinishedInv /\ NotesInForce
  BY LastRevisionInit, AwaitedInit, PartsInit, FinishedInit DEF Init, NotesInForce
<1>2. TypeOK /\ AwaitedInv /\ [Next]_vars => AwaitedInv' BY AwaitedStep
<1>3. TypeOK /\ LastRevisionInv /\ AwaitedInv /\ PartsInv /\ [Next]_vars => PartsInv' BY PartsStep
<1>4. TypeOK /\ LastRevisionInv /\ AwaitedInv /\ PartsInv /\ FinishedInv /\ [Next]_vars => FinishedInv'
  BY FinishedStep
<1>5. QueueInv /\ NotesInForce /\ [Next]_vars => NotesInForce' BY NotesStep
<1>6. TypeOK /\ LastRevisionInv /\ NotesInForce => StageIs BY StageMapped
<1>7. TypeOK /\ LastRevisionInv /\ AwaitedInv /\ PartsInv /\ FinishedInv => QueueInv
  BY DEF QueueInv
<1>8. Init => Lifecycle!Init BY LifecycleInit
<1>9. QueueInv /\ NotesInForce /\ StageIs /\ StageIs' /\ [Next]_vars
      => [Lifecycle!Next]_<<StageTable, RevisionTable>>
  BY EveryStepMoves, MoveIsAStep, SameForceStutters
<1>10. QED
  BY <1>1, <1>2, <1>3, <1>4, <1>5, <1>6, <1>7, <1>8, <1>9, TypeCorrect, LastRevision, PTL
  DEF Spec, ImplementsLifecycle, Lifecycle!Spec, StageTable, RevisionTable, PlannedOf
=============================================================================
