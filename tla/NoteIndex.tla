------------------------------- MODULE NoteIndex -------------------------------
(***************************************************************************)
(* The index of the published notes: fragments of their texts, a vector of *)
(* each by the chosen embedding model, and the durable questions           *)
(* (retrievals) that are answered with it.                                 *)
(*                                                                         *)
(* Two threads work on it: the worker, whose cycle cuts fragments, makes   *)
(* jobs, submits and polls; and the API, which answers at once a question  *)
(* asked while no model is chosen. The desktop changes the model at any    *)
(* moment. One action is one transaction with the reads that are checked   *)
(* again inside it; what a thread read before is held in cut or round.     *)
(*                                                                         *)
(* A fragment is a part of a version. A vector is the part it was computed *)
(* from and the model that computed it. Words and similarity scores are    *)
(* abstracted: a search sees a fragment of a version in force or does not. *)
(***************************************************************************)
EXTENDS PublishedNotes, Sequences, Functions

CONSTANTS
    Models,         \* embedding models the catalogue offers
    Jobs,           \* bound: rows of index_jobs that are live at once
    Retrievals,     \* questions, each with its Idempotency-Key
    BatchSize,      \* embedding_batch_max announced by the Broker
    Backoffs,       \* number of delays in BACKOFF_SECONDS; MAX_ATTEMPTS as well
    MaxChanges,     \* bound: changes of model
    MaxFaults,      \* bound: Broker failures and restarts
    NoModel, NoQuestion

ASSUME IndexAssumption ==
    /\ BatchSize \in Nat \ {0} /\ Backoffs \in Nat /\ MaxChanges \in Nat /\ MaxFaults \in Nat
    /\ NoModel \notin Models /\ NoQuestion \notin Retrievals

VARIABLES
    model,      \* note_index_config
    frags,      \* note_fragments: fragment_id -> note, version and part
    vectors,    \* fragment_embeddings: fragment, model_key, and what was computed
    jobs,       \* index_jobs
    asked,      \* retrievals
    cut,        \* each thread that refreshes the fragments: what it has read
    round,      \* the worker: stage of the cycle and the rows it has read for it
    changes, faults     \* the budgets used

indexVars == <<model, frags, vectors, jobs, asked, cut, round, changes, faults>>

-----------------------------------------------------------------------------
(* fragment_note gives the whole text; split_fragment cuts it in two. A half is   *)
(* never too long: the code cuts on until the text has one character.             *)
Halves == <<"first", "second">>
Parts == {"whole"} \cup Range(Halves)
Fragment == [note : Notes, text : Versions, part : Parts]
Threads == {"worker", "api"}
NoDocument == [note |-> NoFile, text |-> 0]

(* A job names its fragments, with the text it had of each: its texts, by id. A   *)
(* finished row is kept as history only: it is shown as a new one as soon as    *)
(* the worker does not hold it for a later write                                  *)
NewJob == [status |-> "none", model |-> NoModel, texts |-> <<>>, attempt |-> 0]
NoResult == [by |-> NoModel, against |-> NoModel, unindexed |-> {}, done |-> FALSE]
NotAsked == [status |-> "none", model |-> NoModel, attempt |-> 0, result |-> NoResult]
Idle == [at |-> "idle", todo |-> {}, doc |-> NoDocument, question |-> NoQuestion, by |-> NoModel]

IndexInit ==
    /\ model \in Models \cup {NoModel} /\ frags = <<>> /\ vectors = {}
    /\ jobs = [j \in Jobs |-> NewJob]
    /\ asked = [q \in Retrievals |-> NotAsked]
    /\ cut = [t \in Threads |-> Idle]
    /\ round = [stage |-> "start", rows |-> {}]
    /\ changes = 0 /\ faults = 0

-----------------------------------------------------------------------------
InForce(f) == Published(f.note) /\ f.text = row[f.note].text
CurrentOf(n) == {id \in DOMAIN frags : frags[id].note = n /\ InForce(frags[id])}
HasVector(id, m) == \E v \in vectors : v.id = id /\ v.key = m
NeedsCut(n) == Published(n) /\ CurrentOf(n) = {}

(* search, its last query: a note counts as indexed by a model or is listed apart *)
Unindexed(m) == {n \in Notes : Published(n) /\
    (m = NoModel \/ CurrentOf(n) = {} \/ \E id \in CurrentOf(n) : ~HasVector(id, m))}

(* DELETE with its cascade, and INSERT: SQLite gives max(fragment_id) + 1         *)
Without(ids) == Restrict(frags, DOMAIN frags \ ids)
NextId(f) == IF DOMAIN f = {} THEN 1 ELSE 1 + CHOOSE i \in DOMAIN f : \A j \in DOMAIN f : j <= i
WithNew(f, new) ==      \* new: a sequence of fragments
    LET first == NextId(f)
        ids == first .. (first + Len(new) - 1)
    IN  [i \in DOMAIN f \cup ids |-> IF i \in ids THEN new[i - first + 1] ELSE f[i]]
CascadeTo(ids) == {v \in vectors : v.id \in ids}

-----------------------------------------------------------------------------
(* refresh_fragments                                                              *)

RefreshStart(t, q, by) ==     \* to answer question q, or for the cycle
    cut' = [cut EXCEPT ![t] = [at |-> "reading", todo |-> {n \in Notes : NeedsCut(n)},
                               doc |-> NoDocument, question |-> q, by |-> by]]

(* KnowledgeAccess.document: reconciles the note and reads it if it is in sync    *)
RefreshRead(t) ==
    /\ cut[t].at = "reading"
    /\ \E n \in cut[t].todo :
        /\ recon' = Reconciled({n})
        /\ cut' = [cut EXCEPT ![t].todo = @ \ {n},
                              ![t].doc = IF InSync(n) THEN [note |-> n, text |-> file[n]] ELSE NoDocument,
                              ![t].at = IF InSync(n) THEN "storing" ELSE "reading"]
    /\ UNCHANGED <<row, file, edits, model, frags, vectors, jobs, asked, round, changes, faults>>

RefreshStore(t) ==
    /\ cut[t].at = "storing"
    /\ LET n == cut[t].doc.note
           kept == Without({id \in DOMAIN frags : frags[id].note = n})
       IN  /\ frags' = WithNew(kept, <<[note |-> n, text |-> cut[t].doc.text, part |-> "whole"]>>)
           /\ vectors' = CascadeTo(DOMAIN kept)
    /\ cut' = [cut EXCEPT ![t].doc = NoDocument, ![t].at = "reading"]
    /\ UNCHANGED <<notesVars, model, jobs, asked, round, changes, faults>>

RefreshClean(t) ==
    /\ cut[t].at = "reading" /\ cut[t].todo = {}
    /\ frags' = Without({id \in DOMAIN frags : ~InForce(frags[id])})
    /\ vectors' = CascadeTo(DOMAIN frags')
    /\ cut' = [cut EXCEPT ![t].at = "done"]
    /\ UNCHANGED <<notesVars, model, jobs, asked, round, changes, faults>>

-----------------------------------------------------------------------------
Closed(j) == IF <<"job", j>> \in round.rows THEN [jobs[j] EXCEPT !.status = "ERROR"] ELSE NewJob

(* set_model: the vectors of the previous one are deleted and its jobs closed     *)
SetModel(m) ==
    /\ changes < MaxChanges /\ m # model
    /\ changes' = changes + 1
    /\ model' = m
    /\ vectors' = {v \in vectors : v.key = m}
    /\ jobs' = [j \in Jobs |-> IF jobs[j].status \in {"READY", "QUEUED"} /\ jobs[j].model # m
                               THEN Closed(j) ELSE jobs[j]]
    /\ UNCHANGED <<notesVars, frags, asked, cut, round, faults>>

(* create_retrieval: without a model the row is born SUCCESS and answered after   *)
Ask(q) ==
    /\ asked[q].status = "none"
    /\ asked' = [asked EXCEPT ![q].model = model,
                              ![q].status = IF model = NoModel THEN "SUCCESS" ELSE "READY"]
    /\ IF model = NoModel THEN cut["api"].at = "idle" /\ RefreshStart("api", q, NoModel)
                          ELSE UNCHANGED cut
    /\ UNCHANGED <<notesVars, model, frags, vectors, jobs, round, changes, faults>>

(* complete_retrieval after its refresh: searches with the model in force now     *)
CompleteRetrieval(t) ==
    /\ cut[t].at = "done" /\ cut[t].question # NoQuestion
    /\ asked' = [asked EXCEPT ![cut[t].question].status = "SUCCESS",
                              ![cut[t].question].result =
            [by |-> cut[t].by, against |-> IF cut[t].by = NoModel THEN NoModel ELSE model,
             unindexed |-> Unindexed(model), done |-> TRUE]]
    /\ cut' = [cut EXCEPT ![t] = Idle]
    /\ UNCHANGED <<notesVars, model, frags, vectors, jobs, round, changes, faults>>

-----------------------------------------------------------------------------
(* NoteIndexProcessor.cycle: refresh, schedule_jobs, dispatch and poll            *)

CycleStart ==
    /\ round.stage = "start"
    /\ RefreshStart("worker", NoQuestion, NoModel)
    /\ round' = [stage |-> "refresh", rows |-> {}]
    /\ UNCHANGED <<notesVars, model, frags, vectors, jobs, asked, changes, faults>>

(* schedule_jobs reads the model, the busy fragments and those without a vector.  *)
(* A batch is the next BatchSize of the waiting fragments of a note.              *)
BusyReady(m) == UNION {DOMAIN jobs[j].texts : j \in {i \in Jobs : jobs[i].model = m /\ jobs[i].status = "READY"}}
Busy(m) == UNION {DOMAIN jobs[j].texts : j \in {i \in Jobs : jobs[i].model = m
                                                   /\ jobs[i].status \in {"READY", "QUEUED"}}}
Waiting(n, m) == {id \in CurrentOf(n) : ~HasVector(id, m)} \ Busy(m)
Turn(id, ids) == Cardinality({i \in ids : i < id}) \div BatchSize
FullBatches(n, m) ==     \* the rest of a note that does not fill a batch is left
    LET ids == Waiting(n, m)
    IN  {b \in {{i \in ids : Turn(i, ids) = Turn(id, ids)} : id \in ids} : Cardinality(b) = BatchSize}
Batches(n, m) ==
    LET ids == Waiting(n, m) IN {{i \in ids : Turn(i, ids) = Turn(id, ids)} : id \in ids}
Planned(m) == {[NewJob EXCEPT !.status = "READY", !.model = m, !.texts = Restrict(frags, ids)] :
               ids \in UNION {Batches(n, m) : n \in Notes}}

ScheduleRead ==
    /\ round.stage = "refresh" /\ cut["worker"].at = "done"
    /\ cut' = [cut EXCEPT !["worker"] = Idle]
    /\ round' = [stage |-> "schedule", rows |-> IF model = NoModel THEN {} ELSE Planned(model)]
    /\ UNCHANGED <<notesVars, model, frags, vectors, jobs, asked, changes, faults>>

Free(j) == jobs[j].status = "none"
ScheduleInsert ==
    /\ round.stage = "schedule"
    /\ \E new \in round.rows, j \in Jobs :
        /\ Free(j) /\ \A i \in Jobs : Free(i) => j <= i
        /\ jobs' = [jobs EXCEPT ![j] = new]
        /\ round' = [round EXCEPT !.rows = @ \ {new}]
    /\ UNCHANGED <<notesVars, model, frags, vectors, asked, cut, changes, faults>>

ReadyOfTheModel ==
    {<<"question", q>> : q \in {r \in Retrievals : asked[r].status = "READY" /\ asked[r].model = model}}
         \cup {<<"job", j>> : j \in {i \in Jobs : jobs[i].status = "READY"}}
ReadyRows == {<<"question", q>> : q \in {r \in Retrievals : asked[r].status = "READY"}}
         \cup {<<"job", j>> : j \in {i \in Jobs : jobs[i].status = "READY"}}
QueuedRows == {<<"question", q>> : q \in {r \in Retrievals : asked[r].status = "QUEUED"}}
         \cup {<<"job", j>> : j \in {i \in Jobs : jobs[i].status = "QUEUED"}}

DispatchRead ==
    /\ round.stage = "schedule" /\ round.rows = {}
    /\ round' = [stage |-> "dispatch", rows |-> ReadyRows]
    /\ UNCHANGED <<notesVars, model, frags, vectors, jobs, asked, cut, changes, faults>>

(* What _dispatch records of one row when the submission returns, whatever became *)
(* of the row meanwhile: accepted, retry while there are delays left, or failed   *)
Submitted(r, decision) ==
    CASE decision = "accepted" -> [r EXCEPT !.status = "QUEUED", !.attempt = @ + 1]
      [] decision = "transient" /\ r.attempt < Backoffs -> [r EXCEPT !.attempt = @ + 1]
      [] OTHER -> [r EXCEPT !.status = "ERROR"]

Fault(bad) == faults + (IF bad THEN 1 ELSE 0) <= MaxFaults /\ faults' = faults + (IF bad THEN 1 ELSE 0)
Taken(x) == round' = [round EXCEPT !.rows = @ \ {x}]

Submit(x) ==
    /\ round.stage = "dispatch" /\ x \in round.rows /\ Taken(x)
    /\ \E decision \in {"accepted", "transient", "permanent"} :
        /\ Fault(decision # "accepted")
        /\ IF x[1] = "job"
           THEN /\ jobs' = [jobs EXCEPT ![x[2]] = LET r == Submitted(@, decision)
                                                  IN  IF r.status = "ERROR" THEN NewJob ELSE r]
                /\ UNCHANGED asked
           ELSE asked' = [asked EXCEPT ![x[2]] = Submitted(@, decision)] /\ UNCHANGED jobs
    /\ UNCHANGED <<notesVars, model, frags, vectors, cut, changes>>

(* A row without an answer yet, or that cannot be asked for, waits for the next    *)
PollRead(answered) ==
    /\ round.stage = "dispatch" /\ round.rows = {} /\ answered \subseteq QueuedRows
    /\ round' = [stage |-> "poll", rows |-> answered]
    /\ UNCHANGED <<notesVars, model, frags, vectors, jobs, asked, cut, changes, faults>>

-----------------------------------------------------------------------------
(* _poll_retrievals: the vector of the question, or none with a warning           *)
PollQuestion(q) ==
    /\ round.stage = "poll" /\ <<"question", q>> \in round.rows /\ Taken(<<"question", q>>)
    /\ cut["worker"].at = "idle"
    /\ \E answered \in BOOLEAN :
        /\ Fault(~answered)
        /\ RefreshStart("worker", q, IF answered THEN asked[q].model ELSE NoModel)
    /\ UNCHANGED <<notesVars, model, frags, vectors, jobs, asked, changes>>

(* _poll_jobs, one row per answer of the Broker. The questions come first.        *)
JobTurn(j) ==
    /\ round.stage = "poll" /\ <<"job", j>> \in round.rows /\ Taken(<<"job", j>>)
    /\ cut["worker"].at = "idle" /\ \A q \in Retrievals : <<"question", q>> \notin round.rows

(* store_vectors: only of a job still QUEUED, for the fragments that exist        *)
JobCompleted(j) ==
    /\ JobTurn(j)
    /\ LET job == jobs[j]
           stored == DOMAIN job.texts \cap DOMAIN frags
           replaced == {v \in vectors : v.key = job.model /\ v.id \in stored}
           new == {[id |-> id, key |-> job.model, by |-> job.model, of |-> job.texts[id]] : id \in stored}
       IN  IF job.status = "QUEUED"
           THEN vectors' = (vectors \ replaced) \cup new
           ELSE UNCHANGED vectors
    /\ jobs' = [jobs EXCEPT ![j] = NewJob]
    /\ UNCHANGED <<notesVars, model, frags, asked, cut, changes, faults>>

(* EMBEDDING_INPUT_TOO_LONG: split_fragment                                       *)
SplitAt(id) == WithNew(Without({id}), [k \in 1..2 |-> [frags[id] EXCEPT !.part = Halves[k]]])
TooLong(id) == id \in DOMAIN frags /\ frags[id].part = "whole"
JobTooLong(j) ==
    /\ JobTurn(j) /\ Fault(TRUE)
    /\ \E id \in DOMAIN jobs[j].texts :
        /\ jobs[j].texts[id].part = "whole"
        /\ frags' = IF TooLong(id) THEN SplitAt(id) ELSE frags
        /\ vectors' = IF TooLong(id) THEN CascadeTo(DOMAIN frags \ {id}) ELSE vectors
    /\ jobs' = [jobs EXCEPT ![j] = NewJob]
    /\ UNCHANGED <<notesVars, model, asked, cut, changes>>

(* A failure: retried while attempts remain, or recorded. A wrong count, a broken *)
(* contract or a cancellation are recorded. None looks at the status again.       *)
JobFailed(j) ==
    /\ JobTurn(j) /\ Fault(TRUE)
    /\ \E retryable \in BOOLEAN :
        jobs' = [jobs EXCEPT ![j] = IF retryable /\ @.attempt < Backoffs
                                    THEN [@ EXCEPT !.status = "READY"] ELSE NewJob]
    /\ UNCHANGED <<notesVars, model, frags, vectors, asked, cut, changes>>

(* A vector without a norm: the exception ends the cycle and the row stays QUEUED *)
JobBreaksTheCycle(j) ==
    /\ round.stage = "poll" /\ <<"job", j>> \in round.rows /\ Fault(TRUE)
    /\ cut["worker"].at = "idle" /\ \A q \in Retrievals : <<"question", q>> \notin round.rows
    /\ round' = [stage |-> "start", rows |-> {}]
    /\ UNCHANGED <<notesVars, model, frags, vectors, jobs, asked, cut, changes>>

CycleEnd ==
    /\ round.stage = "poll" /\ cut["worker"].at = "idle" /\ round.rows = {}
    /\ round' = [stage |-> "start", rows |-> {}]
    /\ UNCHANGED <<notesVars, model, frags, vectors, jobs, asked, cut, changes, faults>>

(* The process dies: what the threads held is lost                                *)
IndexCrash ==
    /\ Fault(TRUE)
    /\ cut' = [t \in Threads |-> Idle] /\ round' = [stage |-> "start", rows |-> {}]
    /\ UNCHANGED <<notesVars, model, frags, vectors, jobs, asked, changes>>

-----------------------------------------------------------------------------
ThreadStep(t) == RefreshRead(t) \/ RefreshStore(t) \/ RefreshClean(t) \/ CompleteRetrieval(t)
WorkerStep ==
    \/ ThreadStep("worker") \/ CycleStart \/ ScheduleRead \/ ScheduleInsert \/ DispatchRead
    \/ CycleEnd \/ (\E answered \in SUBSET QueuedRows : PollRead(answered))
    \/ \E x \in round.rows : Submit(x)
    \/ \E q \in Retrievals : PollQuestion(q)
    \/ \E j \in Jobs : JobCompleted(j) \/ JobTooLong(j) \/ JobFailed(j) \/ JobBreaksTheCycle(j)

IndexNext ==
    \/ WorkerStep \/ ThreadStep("api") \/ IndexCrash
    \/ \E m \in Models : SetModel(m)
    \/ \E q \in Retrievals : Ask(q)
=============================================================================
