# Knowledge Orchestrator: a TLA+ verification

The Knowledge Orchestrator is a local application. It takes documents from an
inbox folder, has language models behind an external *Broker* analyse them,
publishes the results as notes in an Obsidian vault, and afterwards maintains
the claims those notes contain. Everything it knows is in one SQLite database
and in a few folders; several threads and the person work on both at once, and
the process may stop at any point.

This directory models that program from its source (`src/src/knowledge_orchestrator`,
abbreviated `ko/` below), checks the models with TLC and proves the core
invariants with TLAPS.

    tlc -workers 2 -config short.cfg MCBrokerWorkflow     # one run
    tlapm BrokerWorkflowProofs.tla                        # the proofs

`PROJECT.json` lists the runs, the source lines each definition stands for, a
mutant for every property (an operator marked `Defect:` next to the definition it
distorts), the hazards, the findings and the theorems.

## 1. The system

### How it runs

`ko/runtime.py` calls `recover_once()` (125-160) and then starts one thread per
worker (162-171): event log, inbox watcher with ingestion, Broker worker, sources,
reviews, automation and backups. The desktop is the main thread, and an HTTP API
may be another. The startup recovery runs alone, in this order: deliveries of
sources and of the API; queries; folders and captures; topic folders and
enrichment; interrupted submissions; publications; semantic applications;
reversions; review batches; automation runs; knowledge states; planning of
documents without a plan; `advance_workflow` of the live workflows.

The threads share nothing but SQLite (one `BEGIN IMMEDIATE` transaction at a
time), the folders and a set of task identifiers that the person asked to send.
A step of the system is therefore a transaction, a change of the file system or
a message to one of the two external services, the Broker (HTTP, at least once,
idempotency keys) and Obsidian (its own plugin, with a journal of requests).

### Inventory

Each line gives the state a component keeps, its operations, what is hard about
it and what makes it correct.

| component | state | operations | hard behaviour | correct when |
|---|---|---|---|---|
| **Workflow and Broker queue** (`repositories/workflow_repository/`, `services/workflow_planner.py`, `broker_dispatch.py`, `broker_submission.py`, `worker/broker_worker.py`) | `captures`, `workflows`, `tasks`; requested tasks in memory | plan, cancel, dispatch, poll, retry with a larger budget, fall back, synthesise, finish; the person cancels, retries, reopens, ignores, approves, rejects | reads before an await and writes after it; lost answers; two threads on the same rows; restart between any two transactions | one live workflow per document, one execution per request, every part in the result, every document ends |
| **Publication** (`services/publication.py`, `repositories/publication_repository.py`) | `notes`, `reprocess_intents`, paths of the capture; vault, `completed/`, `rejected/` | prepare, install, archive, reject, reprocess, recover | a crash between any two steps; the person edits and moves the same files | no edit overwritten, no half note, the source where the rows say, one note in force |
| **Ingestion, quarantine, recovery** (`services/ingestion.py`, `quarantine.py`, `recovery.py`) | the inbox, `staging/`, `processing/`, `failed/` with intentions; the `captures` row | read, stage, insert, move, retire, quarantine, recover, adopt | a crash or disk error at any step; the file is rewritten meanwhile | no document lost, no file without its reason, the inbox drains |
| **Claims, proposals and their application** (`services/semantic_maintenance/`, `repositories/semantic_repository/`) | `semantic_jobs`, `claims`, `candidates` (PENDING_COMPARISON … APPLYING, APPLIED, CONFLICT, ERROR) | extract, compare, propose, approve (intention, replacement in Obsidian, receipt), reject, recover | the replacement happens in another program; answers integrated claim by claim | the database says applied exactly when the note holds the text; no claim twice |
| **Reversion** (`services/maintenance_reversion.py`) | `reversions` PREVIEW, APPLYING, APPLIED, CONFLICT | preview, apply, recover | competes with applications for notes and claims | a note and its claims go back together or not at all |
| **Obsidian bridge** (`integrations/obsidian_bridge.py`, `src/obsidian-bridge/`) | the plugin's journal of requests | replace if the digest matches | a repeated or late request | a request has one effect |
| Review batches (`services/review_batches.py`) | batches READY, RUNNING, RECOVERY_REQUIRED, COMPLETE; items | create, run, resume, recover | a crash between an application and its receipt | every item has the outcome that happened |
| Automation policies (`services/automation_*.py`) | versions, schedules with a lease (1200 s), runs, quotas | simulate, evaluate, queue, run, pause | leases that expire, quotas reserved and not used, pauses in between | no step under a revoked policy, quotas hold |
| Knowledge states and queries (`services/knowledge*.py`) | states of the claims; `queries` with a fingerprint | reconcile, ask, judge, poll, finish, mark STALE, tell | knowledge that changes during the question and while it is told | what is told cites only what is in force |
| Note index (`services/note_index.py`) | fragments, vectors, `index_jobs` | index, submit, poll, retrieve | a note republished and a model changed during a batch | a vector is of its fragment and model |
| Reconciliation of edited notes (`services/note_reconciliation.py`) | observations of notes | inspect, adopt, retire | the note changes again; an analysis in flight | the claims are those of the text adopted |
| Sources and API ingestion (`services/source_monitoring.py`, `api_ingestion.py`) | sources with a lease (90 s), `source_changes`, `api_ingestions` | check, record, deliver | late checks; a delivery before its commit | each change delivered once |
| Start and end of the program, HTTP listener (`ui/startup.py`, `runtime.py`, `api/server.py`, `ui/dashboard/servicios.py`) | the thread of the start, the threads of the workers, the state of the listener and its thread, the order the services page holds | start, cancel, close, stop; start and stop the API from three places | the window is closed at any moment; two stops meet; a thread outlives its join or breaks the stop off; a listener ends by itself | one listener; one stop, in its order and to its end unless it is broken off; the close ends |
| Readings of the screen (`ui/lecturas_fondo.py`, `ui/snapshots.py`) | the last value of each reading | refresh, read at once, read in the background | a slow reading ends after a newer one | the screen does not go back |
| Panels of policies and reversions (`ui/automation_panel.py`, `ui/reversion_panel.py`) | what is shown, the key of the request, the order in flight | simulate, page, enable, pause; preview, confirm, look up | answers that arrive after the selection changed, or never; the API over the same tables | what is authorised is what is shown |
| Page of the reviews and dialogs of the batches (`ui/dashboard/revision.py`, `ui/review_batch_dialog.py`) | the list, the selection, the texts beside it; the order and the batch of each dialog | select, reject, edit, preview, confirm | the list is read again under a question; a reading fails; others revise meanwhile | what is decided is what was shown |
| Import of documents (`ui/dashboard/trabajo_acciones.py`, `services/markdown_import.py`) | the import in each thread, the dialogs open | inspect, ask, copy, convert | a file is edited between its inspection and its copy; two imports at once | nothing of the folder is written over |
| Full copies (`services/operations.py`, `worker/backup_worker.py`) | ZIPs in a folder | copy, rotate, restore | files move while they are listed; a restoration is cut | a copy is whole, and what is restored is one copy |
| Topics and profiles, model selection, prompts, database, settings | configuration and views | | little of their own | see section 7 |

The components that matter most are the first three: every document goes through
them, they hold its only copy, and a mistake there loses or repeats work. The next
three change notes that are already published, which is where the program could
damage what the person wrote; batches and policies do it with nobody looking at each
change, and the panels are where a person authorises them. The index and the queries
only read, but what they tell must be of the knowledge in force.
`PROJECT.json` lists all twenty components with their files, and the hazards at
the lines where they bite.

## 2. Plan

In order of importance; all but the last two are done.

1. **The document in the queue**: `BrokerWorkflow`, its promise
   `DocumentLifecycle`, the refinement `BrokerLifecycle`, the theorems.
2. **The note**: `Publication`.
3. **The file**: `Ingestion`, and `Sources` in front of its inbox.
4. **The change of a published note**: `SemanticApplication`, its promise
   `OfficialKnowledge` and the theorem about it.
5. **Who makes and who applies proposals**: `SemanticJobs`; `ReviewBatches` and
   `AutomationPolicies`, two instances of `PlanRuns` over `Proposals`.
6. **Who reads**: `NoteIndex` and `KnowledgeQueries` over `PublishedNotes`.
7. **The program around it**: `AppLifecycle`, `ScreenReads`, `PolicyPanel`,
   `ReversionPanel`, `ReviewPage`, `DocumentImports`, `Backups`.
8. *Left:* the levels of the synthesis of a very long document, with a crash between
   two groups of a level (`workflow_planner.py:391`; `BrokerWorkflow` has one level),
   and the relocation of a note while an application of it is under way
   (`PublishedNotes` has it as the readers see it).
9. *Theorems.* Done: the safety of the queue and its refinement, of the publication, of
   the folders and the sources in front of them, of the maintenance of claims with its
   refinement, of the session, of the index and the queries, of the batches and the
   policies, and of the analyses (section 5). Left: `WindowDecidesOnWhatItShows`.

## 3. The modules

| module | models |
|---|---|
| `BrokerWorkflow` | workflow, Broker queue, drafts, the person's commands, startup |
| `DocumentLifecycle` | the promise about one document: worked on by one revision at a time, published at most once |
| `BrokerLifecycle` | the refinement mapping from the first to the second |
| `BrokerWorkflowProofs` | theorems: types, the last revision; answers, executions, results, batches; the refinement |
| `Publication` | notes, archive, rejection, reprocessing, recovery |
| `PublicationProofs` | theorems |
| `Ingestion` | inbox, staging, processing, quarantine, recovery |
| `Sources` | checks of a monitored page, the changes they find, their delivery and the API's to the inbox |
| `IngestionProofs` | theorems about the folders, about `Sources` and about `DocumentImports` |
| `KnowledgeClaims` | the claims of the notes and the proposals about them: the constants of the next two |
| `OfficialKnowledge` | the promise about published notes: official text and claims in force change together |
| `SemanticApplication` | proposals, applications, reversions, the bridge and its journal, startup, reconciliation, adoption; refines the previous |
| `OfficialKnowledgeProofs`, `SemanticApplicationProofs` | theorems: the promise, and that it is kept |
| `SemanticJobs` | extractions and comparisons of a note: queue, integration, new attempts, adoption |
| `Proposals` | proposals as those who apply them see them: the durable steps of `approve()` |
| `PlanRuns` | a plan of proposals applied one by one with a receipt of each |
| `ReviewBatches` | batches: `PlanRuns` with a preview and a confirmation |
| `AutomationPolicies` | policies: `PlanRuns` with a simulation, an authority, a lease and a quota |
| `PlanRunsProofs`, `AgentsProofs` | theorems: the receipts of any plan; those of the batches and the policies, and the quota; the analyses |
| `PublishedNotes` | the notes as their readers see them |
| `NoteIndex` | fragments, vectors, jobs of the index, retrievals |
| `KnowledgeQueries` | a question from its evidence to the answer that is told |
| `AppLifecycle` | start, close and end of the program, the API's listener, the services page |
| `ScreenReads` | the readings in the background and at once |
| `PolicyPanel`, `ReversionPanel` | what the person sees and orders, with the API over the same tables |
| `ReviewPage` | the page of the proposals and the dialogs of the batches it opens |
| `DocumentImports` | documents the person brings into the inbox |
| `Backups` | full copies, their rotation, a restoration |
| `ReadsProofs` | theorems about `AppLifecycle`, `ScreenReads` and `Backups`, about `KnowledgeQueries` and about `NoteIndex` |
| `MC...` | small instances for TLC, with their symmetry sets; the runs of several modules, scene by scene, with the properties that relate them |

### BrokerWorkflow

*State.* `cap`, `lastError`, `wf`, `review`, `note` and `task` are columns of
`captures`, `workflows`, `notes` and `tasks`. A workflow is `<<document,
revision>>`, a task `<<document, revision, step>>`; a row that does not exist has
status `"none"`. A task keeps its status, its number of attempts, whether it has a
Broker identifier, its error code as far as later transactions tell codes apart,
whether it waits for its backoff, and its idempotency key
`base[:budget-1][:manual-m][:budget-1]` as `<<b, m, c>>`. `exec` is the Broker:
the executions it knows, one per task and key. `pc` is the stage of the worker's
cycle (`plan`, `cancel`, `dispatch`, `urgent` for a dispatch the person asked for,
`poll`, `publish`), of the startup (`recover`, `boot`), or `down`. `docs` and
`todo` are the lists the stage read when it began and still has to visit; they
hold what the row was *then*, which is what makes stale reads visible. `post` and
`adv` are the POST and the `advance_workflow` under way. `retrying`, `resent` and
`requested` are the desktop's.

*Actions.* One action is one transaction together with the reads the same thread
does before it without an await. `PlanCapture`/`PlanFails` are
`WorkflowPlanner.plan_capture`; `ClaimSubmission`, `PostAccepted`,
`PostUnanswered`, `PostRefused` the three transactions around `POST /tasks`, and
`BrokerReceives` a POST whose answer is lost; `PollAnswered` is `apply_status` with
each outcome (success, refused quality, cut output with its larger budget,
capacity, image, cancelled); `CancelAnswered`, `CancelUnanswered`, `CancelBreaks` the
DELETE; `AdvanceRead`, `AdvanceFinish`, `AdvanceInsert`, `AdvanceRaises` the parts of
`advance_workflow`, whose reading and writing are different transactions;
`PublishOk`, `PublishInvalid`, `PublishDeferred` summarise `PublicationService`,
which has its own module. The desktop's commands (`CancelWorkflow`, `CancelWaiting`,
`RetryTasks` followed by one `RetryFailedTask` per task, `Replan`, `ResendReady`,
`SendNow`, `ReopenCancelled`, `IgnoreFailedCapture`, `ApproveDraft`, `RejectDraft`,
`ReopenRejectedDraft`) may come between any two of them. `Crash` forgets everything
outside SQLite and the Broker; `Restart` is `recover_interrupted_submissions`.

*Abstracted.* Texts, costs, models and prompts. Whether a plan can be built,
whether a result passes its quality check, and whether a synthesis can be built are
choices. A long document has one level of synthesis.

### Publication

*State.* One document with its revisions. `capture` has the status and the three
paths (a path is 0, or the revision whose copy it names); `note` and `intent` are the
rows of `notes` and `reprocess_intents`; `result` stands for the workflow. `vault`,
`temp`, `moved`, `kept` and `source` are files by their content, where a content is
the text of the note under the present names of its topic and profile, a part of
it, or something the person wrote. `linked` records that the temporary and the note
are two names of one file (`os.link`), which an edit changes through both. `pc` is
the step of the service, `stage` the loop of `recover()`.

*Actions.* Each step of `publish` (`Prepare`, `Check*`, `StartTemporary`,
`WriteTemporary`, `Install*`, `UnlinkTemporary`, `Verify*`, `MarkPublished`,
`Archive*`, `CompleteCapture`), `reject` and `reprocess` is one transaction or one
change of the file system. `Outage` ends a step with an `OSError`, `Crash` ends it
for good, and `RecoverOne`/`RecoverNextLoop` run the four loops of `recover()`. The
person edits, creates, moves away, moves back and renames.

### Ingestion

*State.* `disk` is the content of each place (inbox files, the staging copy, the
working copies), `failed` the quarantine with or without the `.error.json`, `intents`
the pending quarantines, `row` the capture, `boot` the loop of `RecoveryService.recover`
the startup is in. Every file carries the same `capture_id`: files of different
documents do not meet.

*Actions.* `Read` to `Enrich` follow `IngestionService.ingest`; `WriteIntent` to
`RemoveIntent` follow `QuarantineService`; `RecoverQuarantine` to `Start` follow the four
loops of recovery; `Crash` and the failed staging write (`StagingFails`) may come
at any step; the person drops, rewrites and removes files of the inbox (`Drop`) and
deletes working copies (`Lose`). A write that is not atomic takes two actions with
the beginning of the text in between.

### SemanticApplication

*State.* `row` is `notes` (a text stands for its `content_hash`), `recon` is
`knowledge_reconciliation`, `claim` is `knowledge_claims`, `cand` is
`update_candidates`, `rever` is `maintenance_reversions` and `last` the latest of
`note_revisions`. `vault` are the files. `queue`, `busy` and `receipts` are the
plugin: requests received, the request it executes, its `receipts.jsonl`. `pc` is the
step of the thread that works on a candidate, `phase` and `todo` the startup, and
`adopting` the edit a dialog has read. A text is the set of changes made to the note
since its claims were extracted, so that two texts are equal exactly when their
digests are, and the edits of the person can be told from those of the program.

*Actions.* `approve()` is `ApproveRead` (all it reads under no lock),
`PrepareApplication` (the transaction with `check_application`), `SendApplication` (the
last look and the request), `ReceiveApplied`/`ReceiveRefused` (the answer and the look
that follows) and `MarkApplied`. `NoAnswer` is the time limit of the client: the
request stays with Obsidian and may be carried out later. The bridge works off one
request at a time: `BridgeKnown` answers from the journal, `BridgePrepare`,
`BridgeWrite`, `BridgeReceipt` are the record, `vault.process` and the receipt.
Reversions have the same shape (`PreviewReversion` to `FinishReversion`), with the
plan compared as a whole each time. `Crash` and `Start` run `recover()` of one and then
of the other, one intention after another, and `FinishStart` reconciles. The person
edits and removes files (`EditFile`), adopts (`AdoptRead`, `AdoptCommit`), retires
and locks.

*Abstracted.* A proposal replaces one claim and no other overlaps it: spans, offsets
and layout are not there. A projection's evidence is extracted, as
`generate_candidates` has it, so a chain of provenance has two links. One plan of
reversion per application.

### Sources

*State.* `source` is the row of `monitored_sources` with what is known of its page,
`checks` the check threads alive with their job and answer, `changes` is
`source_changes`, `received` is `api_ingestions`, `inbox` the file of each key,
`entered` the keys with a row in `captures`. `ready`, `rows` and `watcher` are what each
thread has read and not yet written.

*Actions.* `LeaseDue`, `Fetch`, `Finish` and `CheckLost` are a check; `Update` is a new
configuration, `LeaseLapses` a lease that runs out. `ReadyRead`, `CreateForChange` and
`Delivered` link a change to its ingestion; `PendingRead` and `Deliver` are
`deliver_pending`, which the source thread and the Broker's both call; `DeliverBreaks` is
the commit that fails after the file is in the inbox, `RetryDue` its next try.
`WatcherReads` to `WatcherRetires` or `WatcherRefuses` is the ingestion of that file as a
whole.

*Abstracted.* HTTP, HTML and feeds: a page has one entry, numbered in the order in
which it is shown, and is its own validator. A delivery is one action because it holds
the write lock. A live check outlives its lease only by a mishap (a sleep of the
machine): a request has 25 s and a lease 90.

### SemanticJobs

*State.* `note`, `claims`, `proposal` and `jobs` are `notes`, `knowledge_claims`,
`update_candidates` and `semantic_jobs`. A claim is its place in the note and its
wording, which is the key of its row. `worker` is the cycle: its list, the job it is on,
the step of the integration and the claims still to add. `desk` are the two threads of
the window that make new attempts.

*Actions.* `ClaimJob`, `Send`, `AskStatus` and `UpdateJobStatus` talk to the Broker;
`CheckExtraction`, one `AddClaim` and one `GenerateCandidates` per claim,
`ScheduleComparison` and `CompleteJob` integrate an extraction, each in its
transaction; `CheckComparison` and `RecordComparison` a comparison. `Adopt`,
`SupersedeJobs` and `Reanalyze` are `adopt_external_version`; `ReanalyzeNote`,
`RetryComparison` and `CreateJob` new attempts; `RestartJobs` a crash with its recovery.

*Abstracted.* The claim it is compared with is fixed. A claim resembles or does not. A
wait for a retry may end at any moment. A reversion that keeps `add_claim` from writing
is one of its errors.

### Proposals, PlanRuns, ReviewBatches, AutomationPolicies

*State.* `cand` is the status and revision of each proposal and who applies it, `call`
the thread inside `approve()`. `plan` and `item` are a plan with its receipts, `turn` the
worker's place in it; `Review` and `PolicyRuns` are the two instances. `preview` is a
batch under preparation. `policy`, `control`, `reviewed`, `lease`, `planned`, `grant` and
`spent` are the tables of `automation_*`.

*Actions.* `ApproveRead`, `Intend`, `Materialize` and `Return` are the durable steps of
`approve()`, with the intention under the condition of its caller: none for a person,
`BatchIntends` for a batch, `PolicyIntends`, which is `reserve_policy_application`, for a
policy. `ClaimPlan`, `StartItem`, `LookAtItem`, `FinishItem`, `FinishPlan` run a plan;
`RecoverPlans` asks each proposal what became of it. `PreviewStart/Read/Store` and `Confirm`
make a batch; `SimulateStart`, one `SimulateItem` per proposal and `ScheduleFinish` evaluate a
policy under a lease; `Simulate`, `SetEnabled`, `Revise` and `SetPaused` are the person's.

*Abstracted.* One policy, whose row is read together with the control. What an item's
preview finds is one read, and an item found unfit is charged to the bound on events.
A lease lapses only where its time is looked at. `planned` forgets the fingerprints that
can no longer be met.

### PublishedNotes, NoteIndex, KnowledgeQueries

*State.* `row`, `file` and `recon` are a note, its file and the last observation. `frags`,
`vectors`, `jobs` and `asked` are the four tables of the index, `cut` what each thread that
refreshes fragments has read, `round` the worker's stage with the rows it read. `claim`,
`applying` and `disputed` are what a query looks at; `query` is `knowledge_queries` with
its fingerprint, `held` what each thread read, `said` the last answer told.

*Actions.* `RefreshStart`, `RefreshRead`, `RefreshStore`, `RefreshClean` cut one note after
another, from the worker and the API at once; `ScheduleRead/Insert`, `DispatchRead`,
`Submit`, `PollRead` are the stages of the cycle; `JobCompleted`, `JobTooLong` (which splits a
fragment), `JobFailed`, `JobBreaksTheCycle` the outcomes; `SetModel` and `Ask` come from
other threads. `Search`, `ReadClaim`, `Verify`, `Insert` create a query; `Judge`, `SubmitQuery`,
`Poll`, `StoreAnswer` answer it; `Get`, `Compare` and `Transition` tell it or mark it STALE.
The person publishes, edits, adopts, retires and finds notes again in both scenes;
`ReviewState`, `Intend`/`Conclude`, `Dispute`/`Settle` move the claims.

*Abstracted.* Words and scores: a search finds every claim it may show. A fragment is cut
in two at most once. A finished job is forgotten once nobody holds it.

### AppLifecycle, ScreenReads, Backups

*State.* `boot` and `closing` are `RuntimeStartup` and the window; `workers` the threads of
the runtime that are alive, how many of `StopOrder` were asked to end, and whether one broke
the stop off;
`api` and `servers` the controller and every listener made; `stopping` the two callers
inside `stop()`; `page` the services page with its order and the ones that wait. `memory`,
`thread`, `direct` and `shown` are one reading of the screen; `acted` records, for the
property, how new the last reading made at once was. `place`, `copying`, `copies` and
`root` are the files, a copy being made, the copies kept and a restoration.

*Actions.* `RuntimeStarts` or `StartFails` and `StopsWhatStarted`, `MarksStarted`, `LooksForCancel`
against `CloseWindow` and `CancelLooks`. A stop of the runtime is `RuntimeStops` (the backups), the
listener, and `RuntimeStopped` (the other threads, up to one whose `stop()` raises, or all);
`ThreadEnds` is a thread that its join did not wait out and ends later, `ProcessEnds` the end
of all of them. `EnterStop`, `ShutDown`, `Joined` of each caller against `Serves`,
`EndsServing`, `ServerBreaks`, `ClosesServer`, `TellsItsEnd`, `EndsThread` of the listener. `ReadsDirect` and
`StoresDirect` against `TakesRequest`, `ReadsBehind`, `StoresBehind`. `Snapshots`, `ListsFolder`,
`Hashes`, `Zips`, `Replaces`, `Rotates` against `MovesFile` and `RecordsMove`; `Restores`,
`Writes`, `Rewrites`.

*Abstracted.* What the workers do while they start and end is of other modules, so the start
is one step and the stop has three: before, in and after the listener. There is one port.
One reading is followed: others only push it out of the memory. The digest and the ZIP are one step each.

### PolicyPanel, ReversionPanel

*State.* `table`, `switch`, `sims` and `plans` are the tables both the panel and the API
write; `panel` and `screen` what the window holds; `question` the dialog on top; `order`,
`reading` and `sent` what is in flight. A key is the number of its simulation.

*Actions.* A method of the panel is the reading of the window, the order it sends
(`Sends`, `Asks`), the work of the thread (`UpdatePolicy`, `SaveSimulation`, `StoreEnabled`,
`BeginReversion`, `ApplyReversion`, …) and what the window does with the answer
(`PollOrder`, `PollControl`, `ReceiveAnswer`); an operation may fail or its answer be lost.

*Abstracted.* Text and layout; a page holds one proposal; the periodic readings of the
control that show nothing new. The runtime is ready.

### ReviewPage, DocumentImports

*State.* `pending` and `lots` are the proposals and the batches as the window sees them;
`behind` is the last reading of the list, `listed` what the list shows and what is selected
in it, `beside` the texts and the buttons next to it, `asking` the question or the editor
that is open with the row it is about, `dialogs` each `ReviewBatchDialog` with the order in
its thread. `paper` and `folder` are the files of the person and the watched folder,
`imports` where each import is and the name it has chosen, `asking` of `DocumentImports`
the dialogs that are open, each on top of the ones before.

*Actions.* `Refreshes` (every 2 s) against `SelectReview`, `AskAbout`, `RejectReview`,
`SaveEdition`; `ApproveSelected`, `PreviewSelection`, `ReviewAll`, `OpenHistory` open a dialog,
`OrderRuns` is its thread and `PollDialog`, `FollowBatch` its timer; `OthersStep` is the
worker of the batches and everybody else who revises or settles a proposal.
`InspectImport`, `ReviewImportCandidates`, `ChooseTarget`, `CopyDocument`, `LookForConverted`,
`WriteConverted` against `EditPaper` and `TakeFromInbox`.

*Abstracted.* A preview and each step of the worker are one action (`ReviewBatches` has
them in full); the pages of the history; the evaluation of a policy and the audit, which
change nothing. A text is its kind and the identity of its capture.

### How they meet

`BrokerWorkflow` sees publication as one result per attempt, and `Publication` sees the
queue as the status of a workflow; `Ingestion` hands over a row that is `PENDING` and
enriched, and `BrokerWorkflow` starts with such rows. The seams are the statuses of
`captures`, which all three name alike. `SemanticApplication` starts with notes that
`Publication` has published and whose claims are extracted; `SemanticJobs` makes the
proposals it applies, and `Proposals` keeps of `approve()` the steps and outcomes
`SemanticApplication` has in full.

The runs of `MCIngestion`, `MCAgents` and `MCReads` each hold several components as
*scenes*: a variable chosen at the start says which one moves. Components of different
scenes share nothing but a status, which in each scene the person or the other thread
changes in every way its owner would, so that their product would add states and no
behaviour. What does share state is in one scene: the worker, the API and the notes;
a batch, the person and a crash; the checks, the person and the clock; the panel and
the API.

## 4. What is checked

| run | instance | shows |
|---|---|---|
| `short` | a short document and an own note, both with review, two revisions, failures cut/image/other, one backoff step, two commands, one crash | the types and the inductive invariant of the proofs; no answer is applied to another attempt; only a manual retry leaves an older execution at the Broker; no document of the local queue is hidden from the planner |
| `long` | two chunks and a synthesis, three revisions, `max_in_flight` 2, two commands | never two live workflows; no result without every chunk; nothing waits or is at the Broker when a document finishes; a batch fits the limit; every step is one of `DocumentLifecycle` |
| `live` | one short document, one revision, failures cut/other, one command, one crash, under `FairSpec` | what is at the Broker ends; every document ends or waits for a person |
| `live_long` | two chunks, consensus with its alternative, one crash, under `BuildableSpec` | a long document ends |
| `publish` | three revisions, two names of the topic, two edits, one outage, one crash, one lost source | the source is where the rows say; what is published was installed whole; one note in force; a rejected one keeps its evidence; no edit is overwritten |
| `ingest` | folders: two file names, two documents, two drops, two faults, one loss; checks: two pages, one news, one new configuration, two checks at once, one mishap; delivery: two changes and a client's document, one mishap; imports: two files of one name among a capture, an ordinary and a broken text, two imports, one edition or failure | no document lost, files match rows, reasons match files; nothing enters twice; what is known of a page never goes back and no import writes over a file; the inbox drains, the source is followed, what is accepted is ingested, imports end |
| `semantic` | two notes, two proposals each about the other's evidence, one edit or lock, one fault, under `FairSpec` | intentions share no note; applied means written; no edit is overwritten; no request writes twice; `OfficialKnowledge` is implemented; a start settles what was pending |
| `agents` | batches and policies: two proposals, two events, one batch, two runs, a quota of one a day and one a run, one more day; jobs: two sentences of which one resembles another, one edit, two attempts, two upsets; policy panel: two policies, one key, two decisions, one turn of the API or failure; reversion panel: two publications, two plans, one loss; review page: two proposals, one decision, two surprises; batch dialog: one dialog, a draft left or none, one surprise | receipts tell the truth; no application beyond its authority or the quota; an analysis is integrated whole; a decision stands; the window decides on what it shows; confirmed batches and analyses end |
| `reads` | index: a note with two versions, two models, two jobs, one retrieval, one change of model, one fault; queries: two claims, one projected from the other, one question, one upset; session: two listeners, two orders and the automatic start, one late thread at a time; screen: two changes, one lapse; copies: two files, one kept, two made, one move, one mishap | no fragment twice, no vector under another model, no half note; evidence that was in force by its fingerprint and answers whose claims are in force; one listener, one stop that asks every thread or is broken off by one that is still there; the screen does not go back; copies are whole; and each of them catches up or ends |

Three more runs end in the counterexample of a finding (section 6).

Several properties are conjunctions, each part named and said in the module:
`FilesAreSound`, `FoldersAreSound`, `TablesAreSound` (the types and the invariant that relates
files to rows), `AnalysisIsWhole` (with the types of the scenes of `agents`), `IndexIsSound`
(one job per fragment, vectors of their model, whole notes), `SessionIsSound` (`OneListener`,
`OneStop`, `NothingUnseen`, `CopiesAreWhole`), `WorkSettles` (`InFlightEnds`,
`EveryDocumentSettles`), `EverythingComesIn` (`InboxIsDrained`, `SourceIsFollowed`,
`AcceptedIsIngested`, `ImportsEnd`), `NothingIsOverwritten` (the pages, and the folder of the imports), `WorkEnds` (batches and analyses), `EverythingCatchesUp` (`IndexCatchesUp`,
`RetrievalsEnd`, `WindowCloses`, `ScreenCatchesUp`, `CopiesAreMade`) and
`WindowDecidesOnWhatItShows` (activation, keys, the two halves of a reversion, `DecidesAsShown`,
`SelectionIsKept` and `ConfirmedAsShown`). In a run of scenes a liveness property is one
formula with a goal for each of them, since a behaviour stays in its scene.

### Bounds, and why they are enough

* *Documents.* No transaction of the queue relates two documents; they meet only in
  the worker's lists and in the places at the Broker. One document shows what can
  happen to it, two (`short`) what one does to another.
* *Chunks.* The code asks whether all, some or none are done, so two chunks give
  every case: one late, one failed, one cancelled.
* *Revisions.* The repairs of one revision meet the late answers of the previous;
  a third shows an answer two revisions late (`long`), a reprocess after a reprocess
  (`publish`).
* *Commands, crashes.* Two commands are enough for the second to undo the first
  while its effects are in flight; a crash forgets everything in memory, so a second
  crash meets only what the first restart left in SQLite. In `ingest`, where
  recovery itself can be interrupted, faults are two.
* *Backoff.* With one step a retry can succeed, wait and run out.
* *Files.* Two names carry the same identifier, so that a second file meets a first
  one that is staged, accepted, refused or half written. By hand, `ingest` was also
  checked with three drops.
* *Checks.* Two at once and one new configuration make a late answer meet its
  successor, of the same page or of another; one mishap is a crash, a failed request, a
  failed commit or a lease outlived.
* *Proposals.* Two intentions meet through the note one replaces and the notes the
  other reads: with two notes and crossed evidence every such pair occurs (`semantic`).
  One edit is enough to meet any step, and to put an old text back (an edit
  may take an application out); one fault is a crash, a lost answer or a restart of
  Obsidian, and what is pending afterwards is what a second would find. In `agents`
  the two proposals may be unrelated, related, or replace the same claim; two events
  let the person undo what an event did, and a second day empties the quota.
* *Analyses.* Two sentences give one that an edit touches and one that it does not;
  two attempts meet through the rows the first left.
* *Index.* A fragment too long is cut in two parts, so a batch of two holds both, or
  two of different versions; two models and one change are enough for every row to be
  of the old one or of the new.
* *Session.* With the automatic start there are three orders: the third meets a second one
  that waits while the first runs. A second listener meets the end of the first. One late
  thread shows each of them left behind, and each of those that raise.
* *Panels.* One turn is a change by the API, a failure or a lost answer, between any two
  steps of the panel; two policies and two publications let the selection change while
  an answer is on its way.
* *Reviews.* Two proposals let a refresh take one out of the selection and leave
  another. A surprise is a revision or a decision by others, or a reading or an order
  that fails: two of them put one before and one after the button is pressed. A second
  decision would begin where the first ended, with the same page.
* *Imports.* Two imports meet in the name both want, in a text both bring, and in the
  dialog one opens on top of the other. The two captures are alike, so the first file
  is the one with the smaller text.
* *Copies.* With one copy kept the second rotates the first, and a restoration that is
  cut meets another copy.

`publish`, `ingest`, `semantic`, `reads`, `agents`, `v_startup` and `v_reanalysis` do not check
deadlock: when the bounded person and the bounded failures are spent and the work is
done, nothing is left to do. In the modules of the queue the worker's cycle always
goes on, and deadlock is checked.

### Fairness

`Fairness` of `BrokerWorkflow` assumes no more than the scheduling gives:

* `WF(Cycle)`: the worker's loop always runs its next step (`broker_worker.py`: a
  `while` loop around the stages, each guarded by its own handler); `SF(EnterCancel)`:
  the urgent dispatches a person orders do not keep the next cycle away for ever.
* `WF(BrokerReceives)`, `SF(PollAnswered)` per task with an outcome: the Broker is
  reachable again and again and its tasks end. `CancelFairness` adds that it answers
  a DELETE by its contract, which section 6 comes back to.
* `WF(RetryDue)`: clocks advance. `WF(Restart)`: somebody starts the program again.
  `WF(RetryFailedTask)`: a loop of the desktop ends.
* `SF(PublishOk \/ PublishInvalid)` per document: the vault is writable now and then.

`BuildableSpec` also leaves out `AdvanceRaises`: a synthesis that can never be built (no
model for it) is tried by every poll, and a workflow interrupted then waits for
a poll that does not come. Nothing is assumed of the person, of crashes or of
failures.

`MCIngestion!FairScenes` assumes `WF` of the ingestion thread (the watcher looks through
the folder again every few seconds, and the startup runs to its end), of the source
worker, of a request that is due, of the two loops that deliver, of the watcher and
of the time of a retry; of the two threads of the imports; and that a lease lapses when
no check holds it. One `WF` serves a thread of each scene: only the thread of the scene
that was chosen can move, so that it is that thread which may not stop. Nobody
promises that a page changes or that a person accepts a change.

`SemanticApplication!FairSpec` assumes `WF` of the steps of a start, which is one
thread, of the bridge working off its queue, and that the person starts the program
again. Nothing is assumed of approvals: `StartSettles` is about what a crash left, once
the bounded faults are used up, so that Obsidian is there.

`MCAgents!FairSpec` assumes `WF` of the review worker and of the worker of the analyses:
what makes one of their steps fail is bounded, so weak fairness reaches an answer.

`MCReads!FairSpec` assumes `WF` of the cycle of the index, of the API's thread, of the
start and of the window that waits for it, of each caller inside `stop()`, of each
listener's thread, of both readings and the timer of the screen, and of the copy
being made; and `SF` of the stage that reads the queued jobs: the Broker ends, at
last, what it is asked again and again.

## 5. What is proved

Every theorem below is about the whole specification of its module, `Spec`, for any
values of the constants that satisfy the named assumptions: any number of documents,
revisions, chunks, files, notes, claims and proposals, and any bounds on what the
person does and on what fails. Each invariant was first checked by TLC on the instances
of section 4. The proofs have one step per action, and the lemmas are named for what
they say.

| theorem | states | run |
|---|---|---|
| `BrokerWorkflowProofs!TypeCorrect` | `TypeOK` | `short` |
| `BrokerWorkflowProofs!LastRevision`, `PendingIsPlanned` | `LastRevisionInv`, `NothingPendingIsHidden` | `short` |
| `BrokerWorkflowProofs!OneLiveWorkflow` | `AtMostOneLive` | `long` |
| `BrokerWorkflowProofs!AnswersToTheCurrentAttempt`, `NoForgottenExecution` | `AnswersAreCurrent`, `OneExecutionPerTask` | `short` |
| `BrokerWorkflowProofs!ResultsAreWhole`, `BatchesFit` | `ResultHasEveryChunk`, `BatchFitsTheLimit` | `long` |
| `BrokerWorkflowProofs!FinishedAsksNothing` | `~ConsensusProfile => (Spec => []FinishedIsQuiet)` | `long` |
| `BrokerWorkflowProofs!QueueImplementsLifecycle` | `~ConsensusProfile => (Spec => ImplementsLifecycle)` | `long` |
| `PublicationProofs!OneNote`, `InstalledOnly`, `EvidenceIsKept`, `SourceIsKnown` | `OneNoteInForce`, `PublishedWasInstalled`, `RejectedKeepsItsEvidence`, `FilesAreSound` | `publish` |
| `PublicationProofs!PersonsFilesAreKept` | `EditsAreKept` (of every step) | `publish` |
| `IngestionProofs!DocumentsAreKept`, `PendingFileIsThere`, `FoldersStaySound` | `OriginalIsKept`, `PendingHasItsFile`, `FoldersAreSound` | `ingest` |
| `IngestionProofs!NoDocumentEntersTwice` | `DocumentsEnterOnce` of the scenes of the folders | `ingest` |
| `IngestionProofs!WhatIsThereStays` | `NothingIsOverwritten` (of every step) | `ingest` |
| `OfficialKnowledgeProofs!InForceIsInTheText` | `ClaimsAreInTheText` of `OfficialKnowledge` | |
| `SemanticApplicationProofs!MaintenanceTypes`, `IntentionsStayApart`, `MaintenanceIsSound` | types, `IntentionsDoNotMeet`, `TablesAreSound` | `semantic` |
| `SemanticApplicationProofs!RequestsWriteOnce`, `NothingElseTakesEdits` | `WrittenOnce`, `EditsAreKept` (of every step) | `semantic` |
| `SemanticApplicationProofs!MaintenanceImplementsKnowledge` | `ImplementsKnowledge` | `semantic` |
| `AgentsProofs!ReceiptsAreHonest`, `QuotaIsKept` | `ReceiptsTellTheTruth`, `QuotaCoversApplications` | `agents` |
| `AgentsProofs!PolicyObeys` | `AutomaticStepIsAuthorised` (of every step) | `agents` |
| `AgentsProofs!AnalysisStaysWhole`, `AnswersRespectDecisions` | `AnalysisIsWhole`; `DecisionsStand` (of every step) | `agents` |
| `ReadsProofs!SessionStaysSound` | `SessionIsSound` | `reads` |
| `ReadsProofs!IndexStaysSound` | `IndexIsSound` | `reads` |
| `ReadsProofs!AnswersStandAlways` | `AnswersStand` (of every step) | `reads` |

*Assumptions.* Of `BrokerWorkflow`: `SetsAssumption` (the long and own documents are
documents; the names of the final steps are not chunks), `BoundsAssumption` (types of the
constants), `NoneIsNoTask`, and `FiniteAssumption` (documents and chunks are finite sets),
which only `BatchesFit` needs, because it counts. Of `Publication`: `BoundsAssumption`, and
that the markers are no texts. Of `Ingestion`: `ContentsAssumption` (the kinds of content
differ, there is a file and a document) and `BoundsAssumption`, where the person leaves at
least one file. Of the maintenance: `CandidatesAssumption` (types) and
`ProjectionAssumption` (each application adds a claim of its own to the note it changes, and
a pair of claims has one proposal). Of the plans, the session and the rest: types of the constants;
no marker (`NoBatch`, `NoRun`, `NoServer`...) is one of the values it marks the absence of; the
quotas a policy may have, `Caps`, are finitely many, so that there is a greatest
(`QuotaIsKept` is about it); the worker is no thread of the API (`QueriesAssumption`); and a batch is no run, for they are two columns of a proposal
(`AgentsAssumption`). All are checked by TLC for the constants of the runs.

### The queue

`AtMostOneLive` is not inductive: planning and reopening look for a live
workflow, but a manual retry revives one whatever its status. What excludes a second
is that only a document's *last* revision is ever live or in force. Hence
`LastRevisionInv`:

* `RevisionsAreConsecutive`: `next_revision` leaves no gap;
* `RowsHaveAWorkflow`: every task row, and every row the worker holds, belongs to an
  existing workflow;
* `LastIsInForce`: a live workflow, or one whose result is in force, has no later
  revision;
* `QueuedHasNone`: a document that waits to be planned, or whose draft was
  discarded, has none in force;
* `RetriedIsLatest`: what a person is reopening stays the last revision, and its
  document out of the local queue, until it is reopened. This is the conjunct the
  race between the desktop's loop and the planner needs.

Most actions only *weaken* what is in force: no workflow appears, none becomes live
or in force, no document enters the queue. One lemma settles all of them;
`PlanCapture`, the reopenings, the manual retry and the rejection of a draft have
lemmas of their own.

The second part of `BrokerWorkflowProofs` is about what the worker reads before an await and
uses after it.
`AwaitedInv` says what may be relied on: while answers are asked for, a row of the list
still has the key, the identifier and a status of those that are polled (what a person or
a clock changes meanwhile is another status of them); the task of a POST is SUBMITTING or
its cancellation was requested; and a task whose workflow is being advanced is no longer in
the list. On it rest

* `NoForgottenExecution`: every execution the Broker has belongs to a row, and a live one has
  the key of the row, or a person has retried the task by hand;
* `ResultsAreWhole`: the synthesis of a long document is inserted only when each chunk has
  its result, chunks keep it, and what `advance_workflow` read is still so when it writes
  (`PartsInv`);
* `FinishedAsksNothing`: without an alternative the rows of a document are its first steps
  and its synthesis, and a workflow is finished when all of them are (`FinishedInv`);
* `BatchesFit`: while a batch is sent nothing but sending adds to what the Broker holds, and
  sending takes from the batch what it adds.

The refinement `QueueImplementsLifecycle` takes these as the invariant of its steps: each
action is an action of `DocumentLifecycle` under the mapping of `BrokerLifecycle`, or leaves
the mapped variables alone.

*The hypothesis `~ConsensusProfile`.* The consensus strategy gives a failed step an
alternative. With it `FinishedIsQuiet` and the refinement are false, and TLC shows it: the
person retries the first step between the reading and the writing of the transaction that
inserts its alternative, both run, the workflow ends with one of them and the other is
still at the Broker (`control.py:292`, section 6). The run that checks the two properties
has the strategy of a default profile, `single` (`domain/models.py:116`); `live_long`
has the other.

### The note

A document has at most one revision that is not settled, and it is the last one
(`OnceInv`, `FoldersInv`). The folder in which the source is follows from that, because the
source is archived or rejected under the name of the revision at work: without it,
`FilesAreSound` would not survive the rejection of one revision while another is archived,
which the code excludes only by the status of the capture. `ControlInv` ties each step of
`publish`, `reject` and `reprocess` to the status of the row it will write; `InstalledInv`
says that a name of the vault shows a text only after `os.link` or `os.replace` put it there,
and that the temporary has no second name while it is written; `EvidenceInv` and `SourceInv`
carry the copies across the steps between a move and the transaction that records it;
`IntentInv` says that reprocessing prepares the next revision. A revision chosen by
`recover()` is the least of a set, which is where well-foundedness comes in.

### The file

`OriginalIsKept` is not inductive: a removal must know that the file is somewhere else.
`KeptInv` says so of the two steps that are about to remove one, and `WorkInv` why: the copy
of a row is in `processing/` or still in `staging/`, no other file takes its name, and what is
written over is the beginning of a copy. Both are under `losses = 0`, as the property is:
when somebody deletes files of `processing/`, the recovery writes the copy again from the
inbox or marks the row FAILED. `OrderInv` is the order of `recover()`, quarantines before rows
before staging, and says that no intention is about the staging copy of a row; without it
the startup could refuse the copy that a row still needs. `RoomInv` counts: the names used in
`failed/` and the files that may still be refused are no more than what the person left and
what failed. With it `unique_destination`, a `CHOOSE` in the model, always has a name to give.

In front of the inbox, `NoDocumentEntersTwice` needs to say what the watcher has in its hands
(`EntryInv`): a document of ours that is in the inbox and already in the tables is the one
the watcher is about to remove; what it has not inserted is not in the tables. Removing after
inserting, and delivering under a name that is free, are then enough, whatever commit fails
between them. `WhatIsThereStays` joins two invariants. `PageInv`: the
validator is of the version that is known (`KnownOfThePage`), and an answer that may still be
written, because no other check began and nobody revised the source, is of its address and no
older than what is known (`AnswersInOrder`). `ImportsInv`:
the name an import chose is still free unless two chose at once (`FreeFor`), and what an
inspection found is still true unless the file was edited (`TrueFindings`).

### The claims

`ClaimsAreInTheText` is not inductive: it says nothing of proposals
whose claims are both closed, and a reversion brings such a target back. `History(c)` says
what the text of a note remembers while any of its claims is in force: a change in
the text has its target superseded; a projection that is in force or superseded has
its change in the text; and two changes in the text have different targets. When the
person adopts a text or retires the note, no claim of it stays in force and nothing
can bring one back, so the history need not survive.

`MaintenanceImplementsKnowledge` shows that the application of proposals, with its threads,
its requests to Obsidian, its restarts and its recovery, is that promise step by step. Together
the two theorems say that a claim in force is in the published text of its note, for any
notes, claims and proposals. What the steps need is that a thread beyond its intention
still has it, and with it the text it started from (`TypesInv`), that intentions do not
meet, so that the text of a note is still the base of the intention that replaces it
(`ProposalsAreLinked`), and that a request that replaced its note is in the journal, which is
why its repetition replaces nothing (`WritesInv`).

### Batches and policies

`PlanRunsProofs` is about a plan of any kind and is used twice, for the batches and for the
runs of the policies: `AgentsProofs` shows that the steps of each are steps of a plan. `PlanInv`
follows an item through the calls: the proposal the worker is inside `approve()` for is the one
of its item (`CallInv`); between the answer of `approve()` and the receipt, what the worker is
about to write is what became of the proposal (`AnswerInv`); and a proposal that a plan holds has
the revision of its item (`ItemInv`). The last is what a person who edits meanwhile could
break: an edition raises the revision of a proposal that nobody is applying, and a plan
holds only those it is applying or has applied.

`QuotaIsKept` counts. `QuotaInv` says that a charge is at the revision its run stored, that
there is one at most for each proposal and revision, that every proposal a run holds has one,
and that a day never has more than the greatest quota. Hence a run never charges a
proposal twice, because it stores one revision of each; and a charge stays whatever becomes of
the application.

### The analyses

An analysis is integrated in a dozen transactions, any of which may be the last before a
crash. `AnalysisInv` says how far it has come. `WorkerInv`: what the worker holds belongs to
its job. `IntegrationInv`: of an answer that is being integrated, the claims it has gone through
are in their table, and those that resemble another have a proposal whose comparison exists
or is about to be scheduled. `EndedInv`: of an analysis that ended well, all are. A crash
loses what the worker holds and nothing else, so the integration starts again from the
answer. `AttemptsInv` is why a proposal is compared once at a time: an attempt exists, or
one of the two threads of the window is about to create it, only if every earlier one ended.
Hence the attempts are numbered without a gap, and the number the code gives to the next,
`len(attempts) + 1`, is free. `SendsInv` keeps the counter of sends in its type: a job that can be
sent again has been sent `MaxSends` times at most, and once more for each upset. Each action
is shown to change the jobs only as they evolve (`Evolve`: an ended job stays as it
ended) and to lose no claim and no proposal (`Grow`), and each part is kept by any such step.

### The session

`RunInv` is about the start and the close: who may be inside `stop()`, and that the runtime is
stopped by one of them only (`StopsOnce`, `StopIsCalled`, `WindowGone`). Its `AsksInOrder` follows the
stop: before the listener only the backups were asked, and of the threads that outlive
their wait only the last that was asked can be one that raises, because a stop that is broken
off is over. `ApiInv` is about the
listener: every server but the last has ended (`OthersEnded`), only one caller waits for it
(`OneStopper`), and what the state of the controller tells is true of the threads
(`ToldIsTrue`). `ScreenInv`: a reading that will be shown began after what the person did, unless it failed
or was forgotten. `CopyInv`: what a copy lists only grows while it is made, a file that
was not moved is listed whatever the order of the folders, and a restoration restores one copy.

### The queries

`AnswersStand` speaks of the moment an answer is told; what makes it true happened earlier,
in other threads. `QueriesInv` relates three times. While a thread of the API collects the
evidence, the fingerprint it holds is not later than the knowledge (`PrintIsNotLater`): the
revision of a claim only grows, and the same revision is the same state. Each claim it has
found was in force (`WasInForce`), so that if the fingerprint still has its revision, it has
it as CURRENT: this is why `Verify`, which compares the whole fingerprint, leaves in the row only
evidence that is in force *by its own fingerprint* (`RowOk`). From there the evidence only
shrinks, an answer is a part of it (`WorkerHolds`), and `Compare` tells it if the fingerprint
is that of now; a claim that is no longer ACTIVE is HISTORICAL (`ClaimInv`), which the
fingerprint does tell.

A revision stands for a claim at one time. The observation of a note has none, and the
argument fails for it: a note may be in conflict in both fingerprints and in order between
them. `AnswersStand` claims nothing of observations: it would be false (section 6).

### The index

`IndexInv` has one part for each conjunct of `IndexIsSound`. `FragsOk`: the ids of the
fragments are bounded, so that the greatest plus one is new, and where a version has one half
it has the other, because what is dropped of a version is always all of it. `JobsApart` is the
one that needs a stronger hypothesis than the property: a row closed by a change of model is no longer
live, but the worker that read it before writes QUEUED, or READY, over it. A job is therefore *in hand* while
it is live or the worker holds its row, and jobs in hand of one model share no fragment.
`PlannedApart` is the same between reading the fragments and inserting the batches.
The theorem rests on the queries' for the types of the notes: the two share nothing else.

### What is only model-checked

The panels (`WindowDecidesOnWhatItShows`); and everything about liveness
(`EveryDocumentSettles`, `EverythingComesIn`, `StartSettles` and the others that end in `~>` or `<>`): fairness and
`ENABLED` are beyond the prover, as are induction over data and `RECURSIVE` operators,
which these modules do without.

## 6. Findings

Each violation run checks what a comment, the manual or a text of the repository says.

* **`v_failed`** (`repositories/workflow_repository/base.py:62`). `_fail_workflow` looks at
  the workflow that failed and not at whether it is the document's last. A chunk of an
  old revision that fails late marks the document FAILED while its new revision is
  alive, although `base.py:3-5` says workflow and capture are left in the same state.
* **`v_startup`** (`services/semantic_maintenance/__init__.py:628`). Two interrupted
  applications with the same evidence, not CURRENT, make `mark_applied` raise inside
  `recover()`, which nothing catches: no start gets past it, although
  `runtime.py:142-144` says one note does not keep the desktop and the workers from
  starting.
* **`v_reanalysis`** (`repositories/semantic_repository/afirmaciones.py:40`). Adopting an
  edit retires every claim of the note, and the new analysis finds the rows of the
  sentences the edit did not touch and inserts nothing: they stay RETRACTED, and
  another attempt does the same, although `docs/manual/manual.html:440` says the new
  analysis makes the proposal again and `ui/note_reconciliation_dialog.py:44-45` that the
  claims are out of force *until* the edit is resolved.

Known divergences, seen in counterexamples of TLC or while reading, that no run keeps.

*Queue and publication.*

* `retry_failed_capture` reads which tasks have an alternative outside the transactions
  that reopen them (`control.py:292`). The worker may insert the alternative in between
  and both run, which `control.py:279-281` says was avoided.
* If the alternative of a consensus ended in ERROR too and only the first step is
  reopened by hand, nothing makes the document end: it stays RUNNING.
* A DELETE the Broker answers outside its contract raises an error that
  `_cancel_requested_tasks` does not catch (`worker/broker_worker.py:337`): every cycle ends
  there, before it dispatches, polls and publishes, against `broker_worker.py:183-185`.
  `CancelFairness` assumes it away.
* An intention of publication saved while the vault is out of reach is tried again at
  the next start and not in the next cycle, as `services/publication.py:101-103` says:
  `list_publishable` does not return results with a note.
* A cancelled workflow is revived by the manual retry of a task that failed late; a late
  answer of an old revision can mark a published document FAILED (same line as
  `v_failed`); the budget retry of a task whose cancellation was requested leaves it READY
  in a cancelled workflow (`estado.py:338`); `insert_synthesis_task` does not look at the
  workflow's status; a task READY again after a lost POST can be cancelled here and still
  be executed by the Broker; a workflow that cannot be advanced at startup stays RUNNING.
* A note whose topic was renamed between the intention and its recovery becomes a
  CONFLICT for good; one published without an archived source stays REJECTING; between
  volumes `move_file` compares, copies and removes in separate steps.
  `PublicationService.reject` and `reprocess` are called only by tests today; they are
  modelled as the service offers them.

*Folders.*

* A staging copy without a row is adopted under its own digest (`services/recovery.py:85`).
  After a crash in the middle of the copy that is the beginning of a document, and the
  whole original is then refused as a duplicate; `recovery.py:33-34` says every file is
  verified first. A staging conflict left by a disk error waits for a restart.
* A full copy lists `completed/`, `rejected/` and `processing/` in this order and after the
  database (`services/operations.py:285`): a file moved meanwhile can be in none of them.
  `CopiesAreWhole` speaks of the files that were not moved.

*Proposals and analyses.*

* A note that is only *read* by an intention may be retired (`note_reconciliation.py:156`
  looks at target notes), although `claim_in_application` says the intention reserves
  the whole chain of evidence (`maintenance_states.py:19`). The projection is added from
  retracted evidence; the next reconciliation sends it to REVIEW_REQUIRED.
* A contradiction that is edited to another relation and then rejected leaves its claims
  DISPUTED (`candidatos.py:311`), which `candidatos.py:305-310` set out to avoid.
* A request that Obsidian carries out after its candidate became CONFLICT leaves in the
  note a text nobody recorded; reconciliation shows it as an edit.
* An adoption that meets the integration of the previous text leaves ACTIVE claims of a
  text that was discarded (`note_reconciliation.py:217`); `generate_candidates` does not look
  at whether the new claim is still ACTIVE.
* A crash between the adoption and its new analysis leaves the note without one until a
  person asks for it; the thread of "analyse all again" and an adoption can leave two live
  extractions, or one attempt with the old text; an attempt after an ERROR that was
  partly integrated leaves the claims of both ACTIVE.
* A batch or a run left in RECOVERY_REQUIRED by an error waits for the next start
  (`review_batches.py:104`); a plan equal to an earlier one is not run again the same day.

*Index and queries.*

* The ids of `note_fragments` are used again (`note_index.py:303-309`, against the comment of
  migration 028): a late answer can file the vector of a fragment under the id of another.
* A retrieval asked under one model is compared with the vectors of the next; dispatch
  overwrites ERROR `MODEL_CHANGED` with QUEUED (`note_index.py:563`); a crash before the
  result is stored leaves SUCCESS without one (`RetrievalsEnd` says that it is no longer
  pending); a fragment that always fails makes a new job in each cycle; a vector of norm
  zero ends the poll; two equal requests at once can raise in `create_retrieval`.
* The fingerprint of a question holds the last observation of each note and no revision of
  it (`services/knowledge_query.py:37`): a note that is edited, put back and edited again in
  the same way, each time seen by some thread of the API, gives the same one before and
  after the search that found its claim (`:71`). The answer is then told, whenever it is asked for,
  while the note is in conflict, although `docs/Knowledge_API.md:99-101` says those notes are
  left out. With two threads, two versions and three edits TLC finds it in 32 steps.
* An answer is told while a claim it cites, when locked, is in an open contradiction or
  its note under application (`docs/Knowledge_API.md:99-106` says otherwise).
* `httpx.RemoteProtocolError` is not caught and leaves a query SUBMITTING until a restart.

*Window.*

* A reading of a proposal that fails leaves the texts and the buttons of the one before
  beside the new row (`revision.py:282-283`); `DecidesAsShown` speaks of the texts only where
  they could be read.
* Two imports that look for a free name at the same time may be given the same one, and
  the second copy replaces the first (`trabajo_acciones.py:239`); `NothingReplaced` excepts it.
  A file that is edited between its inspection and its copy is copied as it is by then.
* An order to pause or resume that is confirmed while a reading of the control is in
  flight is dropped with no word.
* `startup.py:10` promises a clean close, and a thread may outlive it. The stops of the Broker's
  worker and of the inbox raise `TimeoutError` when the thread is still there after its wait
  (`broker_worker.py:85-86`, `inbox_watcher.py:95-96`, `ingestion_worker.py:67-68`): `runtime.stop()`
  ends there and what follows, the event log at least, is not asked to end. Nobody tries again:
  `_stop_requested` stays set, `_close` destroys the window in its `finally`
  (`base.py:618-621`), and a failed start drops the error. The other workers' `stop()` returns
  after three seconds with the thread possibly alive (`review_worker.py:29-32`), and a window
  closed before the runtime has started waits for nothing. Such threads are daemons and
  end with the process. `OneStop` claims only the order, and that what was not asked was left
  so by a thread that was insisted on.
* A stop of the API whose thread outlives the three seconds of the join leaves it
  STOPPING for good; a start pressed while a failed listener is still ending does
  nothing; an automatic start that ends after the runtime was stopped leaves a listener
  until the process exits.
* An order of the services page that waits for `after_idle` can run after a newer one or
  be replaced by it, although `servicios.py` says an order is not lost.
* A reading that fails in the background while one is made at once can make the next
  refresh show what there was before (`NothingUnseen` excepts failures); two readings are
  ordered by when they started and not by what they saw.
* `stop()` of the event log after its join of three seconds can log the same events twice.

## 7. What is not modelled

Within the modelled components: reservations of money and the migration of old plans
(`upgrade_legacy`), discovery and capabilities of the Broker; the levels of a synthesis
beyond the first; the text of a note; locked and unstable files, and files of
`processing/` without a row, which only an older database leaves behind; spans and the
layout of a patch; relocation of a note while it is being changed; the ranking of a search; validation, routing
and credentials of the API; logs and diagnostics.

Not planned, because they keep no state machine of their own: topics and profiles
(versioned configuration), model selection and System 1 (pure decisions), prompts,
quality checks and redaction (text), settings and paths, widgets and the dialogs that
only fill in a form. SQLite's atomicity, `os.replace` and `os.link` are taken from their
documentation: each is one action.
