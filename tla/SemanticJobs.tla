----------------------------- MODULE SemanticJobs -----------------------------
(***************************************************************************)
(* The analysis of a published note: an extraction asks the Broker for its *)
(* claims, each claim that resembles one of another note becomes a         *)
(* proposal, and each proposal asks for a comparison. The worker sends,    *)
(* asks and integrates (semantic_broker); the window adopts the edits made *)
(* in Obsidian, retires the note and asks for new attempts, and a second   *)
(* thread asks for every failed attempt at once.                           *)
(*                                                                         *)
(* A claim is its place in the note and its wording, the key of its row;   *)
(* the note it is compared with is published and does not change.          *)
(***************************************************************************)
EXTENDS Naturals, FiniteSets

CONSTANTS
    Sentences,      \* of the note: numbers, in their order
    Related,        \* those that resemble a claim of the other note
    MaxEdits,       \* bound: editions of the note in Obsidian
    MaxAttempts,    \* bound: attempts of an analysis
    MaxSends,       \* backoff_seconds: sends before the Broker is given up
    MaxUpsets       \* bound: commands, restarts and errors

ASSUME SemanticJobsAssumption ==
    /\ Sentences \subseteq Nat /\ Related \subseteq Sentences
    /\ {MaxEdits, MaxAttempts, MaxSends, MaxUpsets} \subseteq Nat

VARIABLES
    note,       \* status in notes, the text in force and the text on disk
    claims,     \* knowledge_claims
    proposal,   \* update_candidates, one for each claim that resembles another
    jobs,       \* semantic_jobs: status, the text it asks about, sends and result_json
    worker,     \* the cycle: its list of jobs, the one it is on and what it holds
    desk,       \* the two threads of the desktop: the attempt each is about to create
    upsets      \* the budget used

jobVars == <<note, claims, proposal, jobs, worker, desk, upsets>>

Claims == Sentences \X (0..MaxEdits)
Attempts == 1..MaxAttempts
Extraction(a) == <<"EXTRACT", 0, 0, a>>
Comparison(c, a) == <<"COMPARE", c[1], c[2], a>>
Jobs == {Extraction(a) : a \in Attempts}
    \cup {Comparison(c, a) : c \in {k \in Claims : k[1] \in Related}, a \in Attempts}
Of(j) == <<j[2], j[3]>>

Texts == [Sentences -> 0..MaxEdits]
Live == {"READY", "SUBMITTING", "QUEUED", "PROCESSING"}
Ended == {"SUCCESS", "ERROR"}
Unasked == [status |-> "none", text |-> [i \in Sentences |-> 0], sends |-> 0, found |-> {}]
Nothing == Extraction(0)
Resting == [at |-> "idle", list |-> {}, job |-> Nothing, todo |-> {}, made |-> {}]
NoPress == [at |-> "idle", job |-> Nothing, text |-> [i \in Sentences |-> 0]]

JobsTypeOK ==
    /\ note \in [status : {"PUBLISHED", "RETIRED"}, text : Texts, disk : Texts]
    /\ claims \in [Claims -> {"none", "ACTIVE", "RETRACTED"}]
    /\ proposal \in [Claims -> {"none", "PENDING_COMPARISON", "PENDING_REVIEW", "REJECTED", "CONFLICT"}]
    /\ jobs \in [Jobs -> [status : Live \cup Ended \cup {"none"}, text : Texts,
                         sends : 0..MaxSends + MaxUpsets + 1, found : SUBSET Sentences]]
    /\ worker \in [at : {"idle", "dispatch", "post", "poll", "asked", "check", "claims", "match",
                         "schedule", "record", "close"},
                   list : SUBSET Jobs, job : Jobs \cup {Nothing}, todo : SUBSET Sentences, made : SUBSET Claims]
    /\ \A t \in DOMAIN desk : desk[t].at \in {"idle", "create", "supersede", "again"}
    /\ upsets \in 0..MaxUpsets

JobsInit ==
    /\ note = [status |-> "PUBLISHED", text |-> Unasked.text, disk |-> Unasked.text]
    /\ claims = [c \in Claims |-> "none"] /\ proposal = [c \in Claims |-> "none"]
    /\ \E scheduled \in BOOLEAN :     \* on_published has run, or the process died before it
        jobs = [j \in Jobs |-> IF scheduled /\ j = Extraction(1) THEN [Unasked EXCEPT !.status = "READY"] ELSE Unasked]
    /\ worker = Resting
    /\ desk = [t \in {"window", "all"} |-> NoPress]
    /\ upsets = 0

Upset == upsets < MaxUpsets /\ upsets' = upsets + 1
Moved(j, status) == [jobs EXCEPT ![j].status = status]
Failed(j) == [jobs EXCEPT ![j].status = IF @ \in Ended THEN @ ELSE "ERROR"]
NoteAsInForce == note.status = "PUBLISHED" /\ note.disk = note.text

(* create_job: the identity of an attempt is fixed, and a second one changes nothing *)
Created(j, text) == IF jobs[j].status = "none" THEN [jobs EXCEPT ![j] = [Unasked EXCEPT !.status = "READY", !.text = text]]
                    ELSE jobs
ExtractionAttempts == {a \in Attempts : jobs[Extraction(a)].status # "none"}
ComparisonAttempts(c) == {a \in Attempts : jobs[Comparison(c, a)].status # "none"}
Latest(as) == CHOOSE a \in as : \A b \in as : b <= a

-----------------------------------------------------------------------------
(* dispatch_once, and then poll_once, over the list each one reads                *)
StartDispatch ==
    /\ worker.at = "idle"
    /\ worker' = [worker EXCEPT !.at = "dispatch", !.list = {j \in Jobs : jobs[j].status = "READY"}]
    /\ UNCHANGED <<note, claims, proposal, jobs, desk, upsets>>

ClaimJob(j) ==
    /\ worker.at = "dispatch" /\ j \in worker.list
    /\ IF jobs[j].status = "READY"
       THEN /\ jobs' = [jobs EXCEPT ![j].status = "SUBMITTING", ![j].sends = @ + 1]
            /\ worker' = [worker EXCEPT !.at = "post", !.job = j, !.list = @ \ {j}]
       ELSE worker' = [worker EXCEPT !.list = @ \ {j}] /\ UNCHANGED jobs
    /\ UNCHANGED <<note, claims, proposal, desk, upsets>>

(* accept_job, retry_job or fail_job                                              *)
AfterSend(j, status) ==
    /\ jobs' = IF jobs[j].status = "SUBMITTING" THEN Moved(j, status) ELSE jobs
    /\ worker' = [worker EXCEPT !.at = "dispatch", !.job = Nothing]
    /\ UNCHANGED <<note, claims, proposal, desk>>
Send ==
    /\ worker.at = "post"
    /\ LET j == worker.job
       IN  \/ AfterSend(j, "QUEUED") /\ UNCHANGED upsets
           \/ AfterSend(j, "ERROR") /\ Upset
           \/ AfterSend(j, IF jobs[j].sends <= MaxSends THEN "READY" ELSE "ERROR") /\ Upset

StartPoll ==
    /\ worker.at = "dispatch" /\ worker.list = {}
    /\ worker' = [worker EXCEPT !.at = "poll", !.list = {j \in Jobs : jobs[j].status \in {"QUEUED", "PROCESSING"}}]
    /\ UNCHANGED <<note, claims, proposal, jobs, desk, upsets>>
AskStatus(j) ==
    /\ worker.at = "poll" /\ j \in worker.list
    /\ worker' = [worker EXCEPT !.at = "asked", !.job = j, !.list = @ \ {j}]
    /\ UNCHANGED <<note, claims, proposal, jobs, desk, upsets>>
EndCycle ==
    /\ worker.at = "poll" /\ worker.list = {}
    /\ worker' = Resting /\ UNCHANGED <<note, claims, proposal, jobs, desk, upsets>>

-----------------------------------------------------------------------------
(* update_job_status; the same answer comes again if it was not integrated       *)
NextJob == worker' = [Resting EXCEPT !.at = "poll", !.list = worker.list]
GiveUp == jobs' = Failed(worker.job) /\ NextJob

UpdateJobStatus(found) ==
    /\ worker.at = "asked"
    /\ LET j == worker.job
       IN  IF jobs[j].status \in Ended THEN NextJob /\ UNCHANGED jobs
           ELSE /\ jobs[j].status = "PROCESSING" => found = jobs[j].found
                /\ j[1] = "COMPARE" => found = {}
                /\ jobs' = [jobs EXCEPT ![j].status = "PROCESSING", ![j].found = found]
                /\ worker' = [worker EXCEPT !.at = "check"]
    /\ UNCHANGED <<note, claims, proposal, desk, upsets>>

Unanswered == worker.at = "asked" /\ Upset /\ NextJob /\ UNCHANGED <<note, claims, proposal, jobs, desk>>
Refused == worker.at = "asked" /\ Upset /\ GiveUp /\ UNCHANGED <<note, claims, proposal, desk>>

(* ingest_extraction: the note must be the one that was asked about               *)
CheckExtraction ==
    /\ worker.at = "check" /\ worker.job[1] = "EXTRACT"
    /\ LET row == jobs[worker.job]
       IN  IF NoteAsInForce /\ row.text = note.text
           THEN /\ worker' = [worker EXCEPT !.at = "claims", !.todo = row.found]
                /\ UNCHANGED jobs
           ELSE GiveUp
    /\ UNCHANGED <<note, claims, proposal, desk, upsets>>

First(s) == CHOOSE i \in s : \A k \in s : i <= k
Claimed == <<First(worker.todo), jobs[worker.job].text[First(worker.todo)]>>

(* add_claim: a row that already exists is left as it is                          *)
AddClaim ==
    /\ worker.at = "claims" /\ worker.todo # {}
    /\ \/ /\ claims' = [claims EXCEPT ![Claimed] = IF @ = "none" THEN "ACTIVE" ELSE @]
          /\ worker' = [worker EXCEPT !.at = "match"]
          /\ UNCHANGED <<jobs, upsets>>
       \/ Upset /\ GiveUp /\ UNCHANGED claims     \* its note is being reverted
    /\ UNCHANGED <<note, proposal, desk>>

(* Defect: the proposals of a claim are looked for when they are made, and the    *)
(* ones of an integration cut short are not scheduled.                            *)
OnlyNew(c) == c[1] \in Related /\ proposal[c] = "none"

(* generate_candidates, with the proposal there was if there was one              *)
Resembles(c) == c[1] \in Related
GenerateCandidates ==
    /\ worker.at = "match"
    /\ IF note.status = "PUBLISHED"
       THEN /\ proposal' = [proposal EXCEPT ![Claimed] = IF Resembles(Claimed) /\ @ = "none" THEN "PENDING_COMPARISON" ELSE @]
            /\ worker' = [worker EXCEPT !.at = "claims", !.todo = @ \ {First(@)},
                                        !.made = @ \cup {c \in {Claimed} : Resembles(c)}]
            /\ UNCHANGED jobs
       ELSE GiveUp /\ UNCHANGED proposal
    /\ UNCHANGED <<note, claims, desk, upsets>>

AllClaimed ==
    /\ worker.at = "claims" /\ worker.todo = {}
    /\ worker' = [worker EXCEPT !.at = "schedule"]
    /\ UNCHANGED <<note, claims, proposal, jobs, desk, upsets>>

ScheduleComparison ==
    /\ worker.at = "schedule"
    /\ \/ \E c \in worker.made :
            /\ jobs' = Created(Comparison(c, 1), Unasked.text)
            /\ worker' = [worker EXCEPT !.made = @ \ {c}]
       \/ worker.made = {} /\ worker' = [worker EXCEPT !.at = "close"] /\ UNCHANGED jobs
    /\ UNCHANGED <<note, claims, proposal, desk, upsets>>

(* process_job_result and compare: what the proposal and its evidence are by now  *)
Evident(c) == NoteAsInForce /\ note.text[c[1]] = c[2]
CheckComparison ==
    /\ worker.at = "check" /\ worker.job[1] = "COMPARE"
    /\ LET c == Of(worker.job)
       IN  CASE proposal[c] = "PENDING_COMPARISON" /\ Evident(c)
                -> worker' = [worker EXCEPT !.at = "record"] /\ UNCHANGED jobs
             [] proposal[c] \in {"PENDING_REVIEW", "REJECTED"}
                -> worker' = [worker EXCEPT !.at = "close"] /\ UNCHANGED jobs
             [] OTHER -> GiveUp
    /\ UNCHANGED <<note, claims, proposal, desk, upsets>>

(* Defect: the transaction trusts what process_job_result read.                   *)
StillThere(c) == proposal[c] # "none"

(* record_comparison: reviewable or not, if the proposal still waits for it       *)
Awaits(c) == proposal[c] = "PENDING_COMPARISON"
RecordComparison ==
    /\ worker.at = "record"
    /\ LET c == Of(worker.job)
       IN  IF Awaits(c)
           THEN /\ \E verdict \in {"PENDING_REVIEW", "REJECTED"} : proposal' = [proposal EXCEPT ![c] = verdict]
                /\ worker' = [worker EXCEPT !.at = "close"]
                /\ UNCHANGED jobs
           ELSE GiveUp /\ UNCHANGED proposal
    /\ UNCHANGED <<note, claims, desk, upsets>>

CompleteJob ==
    /\ worker.at = "close"
    /\ jobs' = IF jobs[worker.job].status = "PROCESSING" THEN Moved(worker.job, "SUCCESS") ELSE jobs
    /\ NextJob /\ UNCHANGED <<note, claims, proposal, desk, upsets>>

(* The database is busy: the answer is integrated again in another cycle          *)
Integrating == {"check", "claims", "match", "schedule", "record", "close"}
DatabaseBusy ==
    /\ worker.at \in Integrating /\ Upset
    /\ NextJob /\ UNCHANGED <<note, claims, proposal, jobs, desk>>

Analysing ==
    \/ StartDispatch \/ Send \/ StartPoll \/ EndCycle \/ Unanswered \/ Refused
    \/ \E j \in Jobs : ClaimJob(j) \/ AskStatus(j)
    \/ \E found \in SUBSET Sentences : UpdateJobStatus(found)
    \/ CheckExtraction \/ AddClaim \/ GenerateCandidates \/ AllClaimed \/ ScheduleComparison
    \/ CheckComparison \/ RecordComparison \/ CompleteJob \/ DatabaseBusy

-----------------------------------------------------------------------------
(* Obsidian: the person edits the note from one sentence on                       *)
EditOutside(i) ==
    /\ Upset /\ \A k \in Sentences : note.disk[k] < MaxEdits
    /\ note' = [note EXCEPT !.disk = [k \in Sentences |-> IF k >= i THEN @[k] + 1 ELSE @[k]]]
    /\ UNCHANGED <<claims, proposal, jobs, worker, desk>>

(* reanalyze_note and retry_comparison: which attempt, and then its creation      *)
Wanted(t, j, text) == desk' = [desk EXCEPT ![t] = [at |-> "create", job |-> j, text |-> text]]
Fresh(a) == a \in Attempts

ReanalyzeNote(t) ==
    /\ desk[t] = NoPress /\ Upset
    /\ ExtractionAttempts # {} =>
        LET last == jobs[Extraction(Latest(ExtractionAttempts))].status
        IN  /\ last \in Ended
            /\ last = "SUCCESS" => \A c \in Claims : claims[c] # "ACTIVE"
    /\ NoteAsInForce /\ Fresh(Cardinality(ExtractionAttempts) + 1)
    /\ Wanted(t, Extraction(Cardinality(ExtractionAttempts) + 1), note.text)
    /\ UNCHANGED <<note, claims, proposal, jobs, worker>>

RetryComparison(t, c) ==
    /\ desk[t] = NoPress /\ Upset /\ proposal[c] = "PENDING_COMPARISON"
    /\ ComparisonAttempts(c) # {} => jobs[Comparison(c, Latest(ComparisonAttempts(c)))].status \in Ended
    /\ Fresh(Cardinality(ComparisonAttempts(c)) + 1)
    /\ Wanted(t, Comparison(c, Cardinality(ComparisonAttempts(c)) + 1), Unasked.text)
    /\ UNCHANGED <<note, claims, proposal, jobs, worker>>

CreateJob(t) ==
    /\ desk[t].at = "create"
    /\ jobs' = Created(desk[t].job, desk[t].text)
    /\ desk' = [desk EXCEPT ![t] = NoPress]
    /\ UNCHANGED <<note, claims, proposal, worker, upsets>>

(* edit and reject_candidate, by the revision that was shown                      *)
Decide(c) ==
    /\ Upset /\ proposal[c] \in {"PENDING_COMPARISON", "PENDING_REVIEW", "CONFLICT"}
    /\ \/ proposal' = [proposal EXCEPT ![c] = "REJECTED"]
       \/ Evident(c) /\ proposal' = [proposal EXCEPT ![c] = "PENDING_REVIEW"]
    /\ UNCHANGED <<note, claims, jobs, worker, desk>>

-----------------------------------------------------------------------------
(* _retire_claims, in the transaction of an adoption or of a retirement           *)
RetireClaims ==
    /\ claims' = [c \in Claims |-> IF claims[c] = "ACTIVE" THEN "RETRACTED" ELSE claims[c]]
    /\ proposal' = [c \in Claims |->
        IF claims[c] = "ACTIVE" /\ proposal[c] \in {"PENDING_COMPARISON", "PENDING_REVIEW"} THEN "CONFLICT" ELSE proposal[c]]

(* adopt_external_version, whose _reanalyze discards the attempts alive and then  *)
(* makes a new one                                                                *)
Adopt ==
    /\ desk["window"] = NoPress /\ note.status = "PUBLISHED" /\ note.disk # note.text
    /\ note' = [note EXCEPT !.text = note.disk]
    /\ RetireClaims
    /\ desk' = [desk EXCEPT !["window"].at = "supersede"]
    /\ UNCHANGED <<jobs, worker, upsets>>
SupersedeJobs ==
    /\ desk["window"].at = "supersede"
    /\ jobs' = [j \in Jobs |-> IF j[1] = "EXTRACT" /\ jobs[j].status \in Live THEN Failed(j)[j] ELSE jobs[j]]
    /\ desk' = [desk EXCEPT !["window"].at = "again"]
    /\ UNCHANGED <<note, claims, proposal, worker, upsets>>
Reanalyze ==
    /\ desk["window"].at = "again"
    /\ LET a == Cardinality(ExtractionAttempts) + 1
       IN  jobs' = IF NoteAsInForce /\ Fresh(a) THEN Created(Extraction(a), note.text) ELSE jobs
    /\ desk' = [desk EXCEPT !["window"] = NoPress]
    /\ UNCHANGED <<note, claims, proposal, worker, upsets>>

Retire ==
    /\ desk["window"] = NoPress /\ note.status = "PUBLISHED" /\ Upset
    /\ note' = [note EXCEPT !.status = "RETIRED"]
    /\ RetireClaims
    /\ UNCHANGED <<jobs, worker, desk>>

(* Defect: a submission that was interrupted stays SUBMITTING.                    *)
RecoveredNot(j) == jobs[j]

(* A new start: recover_jobs, and schedule_extraction of a note without attempts  *)
Recovered(j) == IF jobs[j].status = "SUBMITTING" THEN Moved(j, "READY")[j] ELSE jobs[j]
RestartJobs ==
    /\ Upset
    /\ jobs' = IF ExtractionAttempts = {} /\ NoteAsInForce THEN Created(Extraction(1), note.text)
              ELSE [j \in Jobs |-> Recovered(j)]
    /\ worker' = Resting /\ desk' = [t \in DOMAIN desk |-> NoPress]
    /\ UNCHANGED <<note, claims, proposal>>

Managing ==
    \/ \E i \in Sentences : EditOutside(i)
    \/ \E t \in DOMAIN desk : ReanalyzeNote(t) \/ CreateJob(t)
    \/ \E t \in DOMAIN desk, c \in {k \in Claims : k[1] \in Related} : RetryComparison(t, c)
    \/ \E c \in Claims : Decide(c)
    \/ Adopt \/ SupersedeJobs \/ Reanalyze \/ Retire

JobsNext == Analysing \/ Managing \/ RestartJobs
=============================================================================
