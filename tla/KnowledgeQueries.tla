--------------------------- MODULE KnowledgeQueries ---------------------------
(***************************************************************************)
(* A question to the library, answered with quotes of claims. The API      *)
(* collects the evidence, the worker has the Broker choose among it, and   *)
(* whoever reads the answer later must not be given one whose knowledge    *)
(* was replaced meanwhile: the evidence is kept with a fingerprint of all  *)
(* the knowledge, compared again before each use.                          *)
(*                                                                         *)
(* One action is one transaction or one read; what a thread has read stays *)
(* in held. The words of the question and the scores are abstracted: a     *)
(* search finds every claim it may show. One question is one               *)
(* Idempotency-Key of one consumer.                                        *)
(***************************************************************************)
EXTENDS PublishedNotes

CONSTANTS
    Claims, NoClaim,
    NoteOf,         \* the note each claim was extracted from
    DerivedFrom,    \* derived_from_claim_id, or NoClaim: a projection of another claim
    Locked,         \* claims with manual_lock
    Questions,
    Readers,        \* threads of the API server
    MaxUpsets,      \* bound: decisions about claims, Broker failures and restarts
    MaxTries        \* delays of a submission; MaxTries + 1 attempts

ASSUME QueriesAssumption ==
    /\ NoClaim \notin Claims /\ Locked \subseteq Claims
    /\ NoteOf \in [Claims -> Notes] /\ DerivedFrom \in [Claims -> Claims \cup {NoClaim}]
    /\ MaxUpsets \in Nat /\ MaxTries \in Nat /\ "worker" \notin Readers

VARIABLES
    claim,      \* knowledge_claims: knowledge_state, revision and whether it is ACTIVE
    applying,   \* notes an intention or a reversion is being applied to
    disputed,   \* claims of a contradiction nobody has decided
    query,      \* knowledge_queries
    held,       \* each thread: where it is and what it has read
    said,       \* the last answer given to each question: its evidence
    upsets      \* the budget used

queryVars == <<claim, applying, disputed, query, held, said, upsets>>

States == {"CURRENT", "DISPUTED", "UNCERTAIN", "REVIEW_REQUIRED", "HISTORICAL"}
Actors == Readers \cup {"worker"}
Ended == {"SUCCESS", "ERROR", "STALE"}

NoPrint == [claims |-> <<>>, notes |-> <<>>, seen |-> <<>>]
NoQuery == [status |-> "none", evidence |-> {}, print |-> NoPrint, judged |-> FALSE,
            answer |-> {}, attempt |-> 0]
Nothing == [at |-> "idle", use |-> "none", q |-> "none", seen |-> <<>>, print |-> NoPrint,
            todo |-> {}, found |-> {}]

QueriesInit ==
    /\ claim = [c \in Claims |-> [state |-> "CURRENT", rev |-> 1, active |-> TRUE]]
    /\ applying = {} /\ disputed = {}
    /\ query = [q \in Questions |-> NoQuery]
    /\ held = [t \in Actors |-> Nothing]
    /\ said = [q \in Questions |-> [status |-> "none", answer |-> {}]]
    /\ upsets = 0

-----------------------------------------------------------------------------
PrintOfNotes == [claims |-> [c \in Claims |-> <<"CURRENT", 1>>], notes |-> row, seen |-> recon]
(* fingerprint: one read of claims, notes and their last observation              *)
Fingerprint ==
    [claims |-> [c \in Claims |-> <<claim[c].state, claim[c].rev>>], notes |-> row, seen |-> recon]

(* state_filter('current') and provenance_filter: the claim and every claim it    *)
(* was projected from, each in a note in order, none under application or dispute *)
Coherent(c) ==
    /\ claim[c].state = "CURRENT" /\ claim[c].active
    /\ Published(NoteOf[c]) /\ recon[NoteOf[c]].state \in {"none", "IN_SYNC"}
    /\ NoteOf[c] \notin applying /\ c \notin disputed
Origins[c \in Claims] ==
    IF DerivedFrom[c] = NoClaim THEN {} ELSE {DerivedFrom[c]} \cup Origins[DerivedFrom[c]]
Visible(c) == Coherent(c) /\ \A o \in Origins[c] : Coherent(o)

-----------------------------------------------------------------------------
(* refresh: the files are observed, the rows that differ are written, and the     *)
(* projections whose origin is no longer in force are left for review             *)
Refresh(t, use, q) ==
    held' = [held EXCEPT ![t].at = "observe", ![t].use = use, ![t].q = q]

Observe(t) ==
    /\ held[t].at = "observe"
    /\ held' = [held EXCEPT ![t].at = "record", ![t].seen =
            [n \in Notes |-> [text |-> row[n].text,
                              new |-> IF Published(n) THEN Observation(n) ELSE recon[n],
                              write |-> Published(n) /\ Observation(n) # recon[n]]]]
    /\ UNCHANGED <<notesVars, claim, applying, disputed, query, said, upsets>>

Record(t) ==
    /\ held[t].at = "record"
    /\ recon' = [n \in Notes |-> IF held[t].seen[n].write /\ held[t].seen[n].text = row[n].text
                                 THEN held[t].seen[n].new ELSE recon[n]]
    /\ held' = [held EXCEPT ![t].at = "derived", ![t].seen = <<>>]
    /\ UNCHANGED <<row, file, edits, claim, applying, disputed, query, said, upsets>>

ReconcileDerived(t) ==
    /\ held[t].at = "derived"
    /\ LET orphans == {c \in Claims \ Locked : NoteOf[c] \notin applying /\ claim[c].active
                            /\ claim[c].state = "CURRENT" /\ \E o \in Origins[c] : ~Coherent(o)}
       IN  claim' = [c \in Claims |-> IF c \in orphans
                        THEN [claim[c] EXCEPT !.state = "REVIEW_REQUIRED", !.rev = @ + 1] ELSE claim[c]]
    /\ held' = [held EXCEPT ![t].at = held[t].use]
    /\ UNCHANGED <<notesVars, applying, disputed, query, said, upsets>>

-----------------------------------------------------------------------------
(* create, by a thread of the API: a key already used is read instead             *)
Rest(t) == held' = [held EXCEPT ![t] = Nothing]

Create(t, q) ==
    /\ held[t].at = "idle"
    /\ IF query[q].status = "none" THEN Refresh(t, "print", q)
                                   ELSE held' = [held EXCEPT ![t].at = "get", ![t].q = q]
    /\ UNCHANGED <<notesVars, claim, applying, disputed, query, said, upsets>>

TakePrint(t) ==
    /\ held[t].at = "print"
    /\ held' = [held EXCEPT ![t].print = Fingerprint, ![t].at = "observe", ![t].use = "search"]
    /\ UNCHANGED <<notesVars, claim, applying, disputed, query, said, upsets>>

Search(t) ==
    /\ held[t].at = "search"
    /\ held' = [held EXCEPT ![t].at = "payload", ![t].todo = {c \in Claims : Visible(c)}]
    /\ UNCHANGED <<notesVars, claim, applying, disputed, query, said, upsets>>

(* claim_payload of each, which raises if the claim left the state meanwhile      *)
ReadClaim(t) ==
    /\ held[t].at = "payload"
    /\ \E c \in held[t].todo :
        IF Visible(c) THEN held' = [held EXCEPT ![t].todo = @ \ {c}, ![t].found = @ \cup {c}]
                      ELSE Rest(t)
    /\ UNCHANGED <<notesVars, claim, applying, disputed, query, said, upsets>>

(* The evidence is of one knowledge, or the call ends in a conflict               *)
Verify(t) ==
    /\ held[t].at = "payload" /\ held[t].todo = {}
    /\ IF held[t].print = Fingerprint THEN held' = [held EXCEPT ![t].at = "insert"] ELSE Rest(t)
    /\ UNCHANGED <<notesVars, claim, applying, disputed, query, said, upsets>>

Insert(t) ==    \* ON CONFLICT DO NOTHING: the first row of the key stays
    /\ held[t].at = "insert"
    /\ LET q == held[t].q
       IN  /\ query' = IF query[q].status # "none" THEN query ELSE
                [query EXCEPT ![q].status = IF held[t].found = {} THEN "SUCCESS" ELSE "READY",
                              ![q].evidence = held[t].found, ![q].print = held[t].print]
           /\ held' = [held EXCEPT ![t] = [Nothing EXCEPT !.at = "get", !.q = q]]
    /\ UNCHANGED <<notesVars, claim, applying, disputed, said, upsets>>

(* get: a stored answer is compared with the knowledge of now before it is given  *)
Tell(q, status) == said' = [said EXCEPT ![q] = [status |-> status,
                        answer |-> IF status = "SUCCESS" THEN query[q].answer ELSE {}]]
Get(t) ==
    /\ held[t].at = "get"
    /\ LET q == held[t].q
       IN  IF query[q].status = "SUCCESS" THEN Refresh(t, "compare", q) /\ UNCHANGED said
                                          ELSE Tell(q, query[q].status) /\ Rest(t)
    /\ UNCHANGED <<notesVars, claim, applying, disputed, query, upsets>>

Compare(t) ==
    /\ held[t].at = "compare"
    /\ IF query[held[t].q].print = Fingerprint
       THEN Tell(held[t].q, "SUCCESS") /\ Rest(t)
       ELSE held' = [held EXCEPT ![t].at = "outdated"] /\ UNCHANGED said
    /\ UNCHANGED <<notesVars, claim, applying, disputed, query, upsets>>

(* transition: an ended query only ever becomes STALE, and only from SUCCESS      *)
Transition(q, new) ==
    query' = IF query[q].status \in {"ERROR", "STALE"}
                \/ (query[q].status = "SUCCESS" /\ new.status # "STALE")
             THEN query ELSE [query EXCEPT ![q] = new]

Outdated(t) ==  \* for a read, for a judged query and for an answer that arrived
    /\ held[t].at = "outdated"
    /\ Transition(held[t].q, [query[held[t].q] EXCEPT !.status = "STALE"])
    /\ IF t = "worker" THEN Rest(t) ELSE held' = [held EXCEPT ![t].at = "get"]
    /\ UNCHANGED <<notesVars, claim, applying, disputed, said, upsets>>

-----------------------------------------------------------------------------
(* The worker. dispatch_once: the claim of a row, the judge, and the submission   *)
Fails(bad) == upsets + (IF bad THEN 1 ELSE 0) <= MaxUpsets /\ upsets' = upsets + (IF bad THEN 1 ELSE 0)

Claim(q, judge) ==  \* judge: rag_enabled, a setting read for each query
    /\ held["worker"].at = "idle" /\ query[q].status = "READY"
    /\ query' = [query EXCEPT ![q].status = "SUBMITTING", ![q].attempt = @ + 1]
    /\ held' = [held EXCEPT !["worker"] = [Nothing EXCEPT !.q = q,
                    !.at = IF judge /\ ~query[q].judged THEN "judge" ELSE "submit"]]
    /\ UNCHANGED <<notesVars, claim, applying, disputed, said, upsets>>

(* rerank: the judge leaves out evidence; its failure, or no minimum, leaves all   *)
Judge ==
    /\ held["worker"].at = "judge"
    /\ \E chosen \in (SUBSET query[held["worker"].q].evidence) \ {{}} :
        held' = [held EXCEPT !["worker"] = [@ EXCEPT !.found = chosen, !.at = "observe", !.use = "judged"]]
    /\ UNCHANGED <<notesVars, claim, applying, disputed, query, said, upsets>>

CompareJudged ==
    /\ held["worker"].at = "judged"
    /\ held' = [held EXCEPT !["worker"].at =
                    IF query[held["worker"].q].print = Fingerprint THEN "prepare" ELSE "outdated"]
    /\ UNCHANGED <<notesVars, claim, applying, disputed, query, said, upsets>>

Prepare ==      \* prepare_system1 of the repository
    /\ held["worker"].at = "prepare"
    /\ LET q == held["worker"].q
           free == query[q].status = "SUBMITTING"
       IN  /\ query' = IF free /\ ~query[q].judged
                       THEN [query EXCEPT ![q].evidence = held["worker"].found, ![q].judged = TRUE]
                       ELSE query
           /\ IF free THEN held' = [held EXCEPT !["worker"] = [Nothing EXCEPT !.q = q, !.at = "submit"]]
                      ELSE Rest("worker")
    /\ UNCHANGED <<notesVars, claim, applying, disputed, said, upsets>>

SubmitQuery(decision) ==
    /\ held["worker"].at = "submit" /\ Fails(decision # "accepted")
    /\ LET q == held["worker"].q
       IN  Transition(q, [query[q] EXCEPT !.status =
              CASE decision = "accepted" -> "QUEUED"
                [] decision = "transient" /\ query[q].attempt <= MaxTries -> "READY"
                [] OTHER -> "ERROR"])
    /\ Rest("worker")
    /\ UNCHANGED <<notesVars, claim, applying, disputed, said>>

(* An exception the client does not know of ends the stage before the record      *)
SubmissionBreaks ==
    /\ held["worker"].at = "submit" /\ Fails(TRUE) /\ Rest("worker")
    /\ UNCHANGED <<notesVars, claim, applying, disputed, query, said>>

(* poll_once: still working, failed or not understood, or an answer to complete   *)
Poll(q, answer) ==
    /\ held["worker"].at = "idle" /\ query[q].status \in {"QUEUED", "PROCESSING"}
    /\ CASE answer = "working" -> Transition(q, [query[q] EXCEPT !.status = "PROCESSING"]) /\ UNCHANGED <<held, upsets>>
         [] answer = "failed" -> Fails(TRUE) /\ Transition(q, [query[q] EXCEPT !.status = "ERROR"]) /\ UNCHANGED held
         [] OTHER -> \E ids \in SUBSET query[q].evidence :
                /\ held' = [held EXCEPT !["worker"] = [Nothing EXCEPT !.q = q, !.found = ids,
                                                        !.at = "observe", !.use = "complete"]]
                /\ UNCHANGED <<query, upsets>>
    /\ UNCHANGED <<notesVars, claim, applying, disputed, said>>

CompareAnswer ==
    /\ held["worker"].at = "complete"
    /\ held' = [held EXCEPT !["worker"].at =
                    IF query[held["worker"].q].print = Fingerprint THEN "store" ELSE "outdated"]
    /\ UNCHANGED <<notesVars, claim, applying, disputed, query, said, upsets>>

StoreAnswer ==
    /\ held["worker"].at = "store"
    /\ Transition(held["worker"].q, [query[held["worker"].q] EXCEPT !.status = "SUCCESS",
                                                               !.answer = held["worker"].found])
    /\ Rest("worker")
    /\ UNCHANGED <<notesVars, claim, applying, disputed, said, upsets>>

(* recover, at the next start                                                     *)
RestartQueries ==
    /\ Fails(TRUE)
    /\ query' = [q \in Questions |-> IF query[q].status = "SUBMITTING"
                                     THEN [query[q] EXCEPT !.status = "READY"] ELSE query[q]]
    /\ held' = [t \in Actors |-> Nothing]
    /\ UNCHANGED <<notesVars, claim, applying, disputed, said>>

-----------------------------------------------------------------------------
(* What changes the knowledge: review_state, record_supersession, and a            *)
(* contradiction or an intention that opens or closes                             *)
Moved(c, state) == [claim EXCEPT ![c].state = state, ![c].rev = @ + 1]
Untold == UNCHANGED <<notesVars, query, held, said>>
Deciding == Fails(TRUE) /\ Untold
Ending == UNCHANGED upsets /\ Untold     \* of what a decision began

ReviewState(c, state) ==
    /\ c \notin Locked /\ NoteOf[c] \notin applying /\ claim[c].active
    /\ state \notin {"HISTORICAL", claim[c].state} /\ Deciding
    /\ claim' = Moved(c, state) /\ UNCHANGED <<applying, disputed>>

Intend(c) ==    \* the claims of the note are not shown while it is replaced
    /\ c \notin Locked /\ claim[c].active /\ NoteOf[c] \notin applying /\ Deciding
    /\ applying' = applying \cup {NoteOf[c]} /\ UNCHANGED <<claim, disputed>>

(* record_supersession with the record of the application, or its conflict        *)
Conclude(c, applied) ==
    /\ NoteOf[c] \in applying /\ claim[c].active /\ Ending
    /\ claim' = IF applied /\ c \notin Locked
                THEN [Moved(c, "HISTORICAL") EXCEPT ![c].active = FALSE] ELSE claim
    /\ applying' = applying \ {NoteOf[c]} /\ UNCHANGED disputed

(* A comparison that finds a contradiction, and the rejection of it: a locked      *)
(* claim keeps its state                                                          *)
Dispute(c) ==
    /\ c \notin disputed /\ NoteOf[c] \notin applying /\ claim[c].active /\ Deciding
    /\ disputed' = disputed \cup {c}
    /\ claim' = IF c \in Locked \/ claim[c].state = "DISPUTED" THEN claim ELSE Moved(c, "DISPUTED")
    /\ UNCHANGED applying

Settle(c) ==
    /\ c \in disputed /\ NoteOf[c] \notin applying /\ Ending
    /\ disputed' = disputed \ {c}
    /\ claim' = IF claim[c].active /\ claim[c].state = "DISPUTED" THEN Moved(c, "CURRENT") ELSE claim
    /\ UNCHANGED applying

-----------------------------------------------------------------------------
Refreshing(t) == Observe(t) \/ Record(t) \/ ReconcileDerived(t)
ReaderStep(t) ==
    \/ Refreshing(t) \/ TakePrint(t) \/ Search(t) \/ ReadClaim(t) \/ Verify(t) \/ Insert(t)
    \/ Get(t) \/ Compare(t) \/ Outdated(t)
Answering ==
    \/ Refreshing("worker") \/ Outdated("worker")
    \/ (\E q \in Questions, judge \in BOOLEAN : Claim(q, judge))
    \/ Judge \/ CompareJudged \/ Prepare \/ SubmissionBreaks
    \/ (\E d \in {"accepted", "transient", "permanent"} : SubmitQuery(d))
    \/ (\E q \in Questions, a \in {"working", "failed", "completed"} : Poll(q, a))
    \/ CompareAnswer \/ StoreAnswer
Deciders ==
    \E c \in Claims : \/ (\E s \in States : ReviewState(c, s)) \/ Intend(c) \/ Dispute(c) \/ Settle(c)
                      \/ (\E applied \in BOOLEAN : Conclude(c, applied))
QueriesNext ==
    \/ Answering \/ RestartQueries \/ Deciders
    \/ \E t \in Readers : ReaderStep(t) \/ (\E q \in Questions : Create(t, q))
=============================================================================
