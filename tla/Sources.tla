------------------------------- MODULE Sources -------------------------------
(***************************************************************************)
(* Monitored sources and the ingestion by API: a web page is checked under *)
(* a lease by threads that may answer late (SourceWorker,                  *)
(* SourceRepository), every version found becomes a durable change, and a  *)
(* change the person or the policy accepts is delivered to the inbox under *)
(* the key of the change (SourceMonitoringService, ApiIngestionService),   *)
(* where the watcher takes it like any other file.                         *)
(*                                                                         *)
(* One source and one client of the API are enough: rows meet only by      *)
(* their key. The versions of a page are numbered in the order in which it *)
(* shows them, and a version is its own validator (ETag).                  *)
(***************************************************************************)
EXTENDS Naturals, Sequences, FiniteSets

CONSTANTS
    Locations,    \* pages the source may be configured with
    MaxNews,      \* bound: times a page changes
    MaxUpdates,   \* bound: times the person configures the source again
    MaxChecks,    \* checks alive at once (4 - len(self._checks))
    MaxMishaps    \* bound: crashes, failed requests and transactions, sleeps of the machine

ASSUME SourcesAssumption ==
    /\ MaxNews \in Nat /\ MaxUpdates \in Nat /\ MaxChecks \in Nat \ {0} /\ MaxMishaps \in Nat

VARIABLES
    site,       \* the version each page shows
    source,     \* the row of monitored_sources, with what source_items holds of its page
    checks,     \* the check threads that are alive, each with its job and its answer
    changes,    \* source_changes, in order
    received,   \* api_ingestions: the status of each key
    inbox,      \* the file of each key in the inbox
    entered,    \* the keys that have a row in captures
    repeated,   \* the keys whose own file was refused as a copy of itself
    ready,      \* the changes the source thread has read, and the one it is linking
    rows,       \* the pending ingestions each thread has read
    watcher,    \* the file the watcher has read, and whether its row is inserted
    spent       \* what was used of each bound

network  == <<site, checks>>
delivery == <<received, inbox, entered, repeated, rows, watcher>>
sourceVars == <<site, source, checks, changes, received, inbox, entered, repeated, ready, rows, watcher, spent>>

Client   == MaxNews + MaxUpdates + 2    \* the key of the API's client; the others are of changes
Keys     == 1..Client
Deliverers == {"sources", "broker"}    \* the two loops that call deliver_pending
NoVersion == <<>>
Answers   == [none |-> <<>>, error |-> <<"error">>, same |-> <<"not modified">>]
Policies == {"ingest", "review"}
NoCheck  == 0
NoKey    == 0
Idle     == [key |-> NoKey, text |-> "none", inserted |-> FALSE]
NoReady  == [read |-> {}, linking |-> NoKey]

(* What earlier checks left: nothing, or a change for the inbox and one for the person *)
Old(l, status) == [version |-> <<l, 1>>, status |-> status, waits |-> FALSE]
Histories == {<<>>} \cup {<<Old(l, "READY"), Old(l, "REVIEW")>> : l \in Locations}

SourcesInit ==
    /\ site = [l \in Locations |-> 1]
    /\ source \in [on : {TRUE}, loc : Locations, policy : Policies, rev : {1}, due : {TRUE},
                   etag : {NoVersion}, seen : {NoVersion}, check : {NoCheck}, lease : {"none"}]
    /\ checks = {} /\ changes \in Histories
    /\ received = [k \in Keys |-> "none"] /\ inbox = [k \in Keys |-> "none"]
    /\ entered = {} /\ repeated = {}
    /\ ready = NoReady /\ rows = [d \in Deliverers |-> {}] /\ watcher = Idle
    /\ spent = [news |-> 0, updates |-> 0, mishaps |-> 0]

Version(l) == <<l, site[l]>>
Spend(what, max) == spent[what] < max /\ spent' = [spent EXCEPT ![what] = @ + 1]
Mishap == Spend("mishaps", MaxMishaps)

-----------------------------------------------------------------------------
(* The page, the person and the clock *)
SiteChanges(l) ==
    /\ Spend("news", MaxNews)
    /\ site' = [site EXCEPT ![l] = @ + 1]
    /\ UNCHANGED <<source, checks, changes, ready, delivery>>

(* Another page is another identity: what was known of the previous one goes,    *)
(* and the check that was running is superseded                                  *)
Configured(on, l, policy) ==
    [source EXCEPT !.on = on, !.loc = l, !.policy = policy, !.rev = @ + 1, !.due = TRUE,
                   !.etag = NoVersion, !.check = NoCheck, !.lease = "none",
                   !.seen = IF l = source.loc THEN @ ELSE NoVersion]

Update(on, l, policy) ==
    /\ Spend("updates", MaxUpdates)
    /\ source' = Configured(on, l, policy)
    /\ UNCHANGED <<network, changes, ready, delivery>>

(* next_check_at is reached, or the person asks for a check *)
RequestCheck ==
    /\ ~source.due
    /\ source' = [source EXCEPT !.due = TRUE]
    /\ UNCHANGED <<network, changes, ready, delivery, spent>>

(* The lease of a dead thread runs out; that of a live one only if the machine  *)
(* sleeps, for a request has 25 seconds and a lease 90                           *)
Alive == \E c \in checks : c.id = source.check
LeaseLapses ==
    /\ source.lease = "held"
    /\ IF Alive THEN Mishap ELSE UNCHANGED spent
    /\ source' = [source EXCEPT !.lease = "past"]
    /\ UNCHANGED <<network, changes, ready, delivery>>

-----------------------------------------------------------------------------
(* The source thread is in one of its calls at a time *)
SourcesFree == ready = NoReady /\ rows["sources"] = {}

FreeId == CHOOSE i \in 1..(MaxChecks + 1) : i # source.check /\ \A c \in checks : c.id # i
(* Defect: a lease that ran out is left to the check that held it *)
Unrecovered == source

Recovered == IF source.lease = "past" THEN [source EXCEPT !.check = NoCheck, !.lease = "none"] ELSE source
Leasable(s) == s.due /\ s.check = NoCheck /\ s.on /\ Cardinality(checks) < MaxChecks

LeaseDue ==
    /\ SourcesFree
    /\ IF Leasable(Recovered)
       THEN /\ source' = [Recovered EXCEPT !.check = FreeId, !.lease = "held"]
            /\ checks' = checks \cup {[id |-> FreeId, rev |-> source.rev, loc |-> source.loc,
                                       etag |-> source.etag, answer |-> Answers.none]}
       ELSE source' = Recovered /\ source # Recovered /\ UNCHANGED checks
    /\ UNCHANGED <<site, changes, ready, delivery, spent>>

Answered(c, answer) == checks' = (checks \ {c}) \cup {[c EXCEPT !.answer = answer]}
Fetch(c) ==
    /\ c.answer = Answers.none
    /\ \/ Answered(c, Version(c.loc)) /\ c.etag # Version(c.loc) /\ UNCHANGED spent
       \/ Answered(c, Answers.same) /\ c.etag = Version(c.loc) /\ UNCHANGED spent
       \/ Answered(c, Answers.error) /\ Mishap
    /\ UNCHANGED <<site, source, changes, ready, delivery>>

(* Defect: an answer is taken whenever it comes *)
AnyAnswer(c) == c.id # NoCheck

(* A late answer is not taken: its lease was given to another check, or ran out, *)
(* or the source was configured again meanwhile                                  *)
InTime(c) == source.check = c.id /\ source.rev = c.rev /\ source.lease = "held"
Closed == [source EXCEPT !.check = NoCheck, !.lease = "none", !.due = FALSE]
HasContent(c) == c.answer \notin {Answers.error, Answers.same}
FirstStatus == IF source.policy = "ingest" THEN "READY" ELSE "REVIEW"

Finish(c) ==
    /\ c.answer # Answers.none
    /\ checks' = checks \ {c}
    /\ IF ~InTime(c) THEN UNCHANGED <<source, changes>>
       ELSE /\ source' = IF HasContent(c) THEN [Closed EXCEPT !.etag = c.answer, !.seen = c.answer] ELSE Closed
            /\ changes' = IF HasContent(c) /\ c.answer # source.seen
                          THEN Append(changes, [version |-> c.answer, status |-> FirstStatus, waits |-> FALSE])
                          ELSE changes
    /\ UNCHANGED <<site, ready, delivery, spent>>

(* The transaction that records the answer fails: nobody but the lease knows *)
CheckLost(c) ==
    /\ c.answer # Answers.none /\ Mishap
    /\ checks' = checks \ {c}
    /\ UNCHANGED <<site, source, changes, ready, delivery>>

-----------------------------------------------------------------------------
(* From a change to an ingestion, under the key of the change *)
SetChange(k, field, v) == changes' = [changes EXCEPT ![k][field] = v]

QueueIngestion(k) ==
    /\ changes[k].status = "REVIEW"
    /\ SetChange(k, "status", "READY")
    /\ UNCHANGED <<network, source, ready, delivery, spent>>

ReadyRead ==
    /\ SourcesFree
    /\ LET due == {k \in DOMAIN changes : changes[k].status = "READY" /\ ~changes[k].waits} IN
       due # {} /\ ready' = [ready EXCEPT !.read = due]
    /\ UNCHANGED <<network, source, changes, delivery, spent>>

Received(k) == received' = [received EXCEPT ![k] = IF @ = "none" THEN "PENDING" ELSE @]

CreateForChange(k) ==
    /\ ready.linking = NoKey /\ k \in ready.read
    /\ Received(k)
    /\ ready' = [read |-> ready.read \ {k}, linking |-> k]
    /\ UNCHANGED <<network, source, changes, inbox, entered, repeated, rows, watcher, spent>>

Delivered ==
    /\ ready.linking # NoKey
    /\ SetChange(ready.linking, "status", "DELIVERED")
    /\ ready' = [ready EXCEPT !.linking = NoKey]
    /\ UNCHANGED <<network, source, delivery, spent>>

(* create() or delivered() fails: the change waits for its next attempt *)
DeliveryFailed(k) ==
    /\ k = ready.linking \/ (ready.linking = NoKey /\ k \in ready.read)
    /\ Mishap
    /\ SetChange(k, "waits", TRUE)
    /\ ready' = [read |-> ready.read \ {k}, linking |-> NoKey]
    /\ UNCHANGED <<network, source, delivery>>

RetryDue(k) ==
    /\ changes[k].waits
    /\ SetChange(k, "waits", FALSE)
    /\ UNCHANGED <<network, source, ready, delivery, spent>>

(* A client posts a document, and again under the same key if it got no answer *)
ClientCreate ==
    /\ received[Client] = "none" /\ Received(Client)
    /\ UNCHANGED <<network, source, changes, ready, inbox, entered, repeated, rows, watcher, spent>>

-----------------------------------------------------------------------------
(* deliver_pending, called by two threads: the rows are read, and each one is    *)
(* delivered in a transaction that holds the database while the file is written  *)
PendingRead(d) ==
    /\ rows[d] = {} /\ (d = "sources" => SourcesFree)
    /\ LET pending == {k \in Keys : received[k] = "PENDING"} IN
       pending # {} /\ rows' = [rows EXCEPT ![d] = pending]
    /\ UNCHANGED <<network, source, changes, ready, received, inbox, entered, repeated, watcher, spent>>

(* Defect: the captures are not looked at before the file is written *)
AlwaysNeeded(k) == k # NoKey

NeedsFile(k) == k \notin entered
Conflicts(k) == NeedsFile(k) /\ inbox[k] = "edited"
Written(k) == inbox' = [inbox EXCEPT ![k] = IF NeedsFile(k) /\ @ = "none" THEN "ours" ELSE @]

Deliver(d, k) ==
    /\ k \in rows[d]
    /\ rows' = [rows EXCEPT ![d] = @ \ {k}]
    /\ IF received[k] # "PENDING" THEN UNCHANGED <<received, inbox>>
       ELSE /\ received' = [received EXCEPT ![k] = IF Conflicts(k) THEN "CONFLICT" ELSE "DELIVERED"]
            /\ Written(k)
    /\ UNCHANGED <<network, source, changes, ready, entered, repeated, watcher, spent>>

(* The file is in the inbox, and the transaction that says so does not commit *)
DeliverBreaks(d, k) ==
    /\ k \in rows[d] /\ received[k] = "PENDING" /\ ~Conflicts(k) /\ Mishap
    /\ rows' = [rows EXCEPT ![d] = {}]
    /\ Written(k)
    /\ UNCHANGED <<network, source, changes, ready, received, entered, repeated, watcher>>

-----------------------------------------------------------------------------
(* The inbox: the person edits a file before it is taken, and the watcher takes  *)
(* it, with a row first and the removal of what it read afterwards               *)
EditFile(k) ==
    /\ inbox[k] = "ours" /\ Spend("updates", MaxUpdates)
    /\ inbox' = [inbox EXCEPT ![k] = "edited"]
    /\ UNCHANGED <<network, source, changes, ready, received, entered, repeated, rows, watcher>>

WatcherReads(k) ==
    /\ watcher = Idle /\ inbox[k] # "none"
    /\ watcher' = [key |-> k, text |-> inbox[k], inserted |-> FALSE]
    /\ UNCHANGED <<network, source, changes, ready, received, inbox, entered, repeated, rows, spent>>

WatcherInserts ==
    /\ watcher # Idle /\ ~watcher.inserted /\ watcher.key \notin entered
    /\ entered' = entered \cup {watcher.key}
    /\ watcher' = [watcher EXCEPT !.inserted = TRUE]
    /\ UNCHANGED <<network, source, changes, ready, received, inbox, repeated, rows, spent>>

Gone(k) == [inbox EXCEPT ![k] = "none"]
Retired == IF watcher.inserted /\ inbox[watcher.key] = watcher.text THEN Gone(watcher.key) ELSE inbox

WatcherRetires ==
    /\ watcher.inserted
    /\ inbox' = Retired /\ watcher' = Idle
    /\ UNCHANGED <<network, source, changes, ready, received, entered, repeated, rows, spent>>

WatcherRefuses ==    \* DUPLICATE_CAPTURE: the file goes to failed/
    /\ watcher # Idle /\ ~watcher.inserted /\ watcher.key \in entered
    /\ repeated' = IF watcher.text = "ours" THEN repeated \cup {watcher.key} ELSE repeated
    /\ inbox' = Gone(watcher.key) /\ watcher' = Idle
    /\ UNCHANGED <<network, source, changes, ready, received, entered, rows, spent>>

-----------------------------------------------------------------------------
(* The process dies, and the next start retires what the watcher was retiring *)
SourcesCrash ==
    /\ Mishap
    /\ checks' = {} /\ ready' = NoReady /\ rows' = [d \in Deliverers |-> {}]
    /\ inbox' = IF watcher = Idle THEN inbox ELSE Retired
    /\ watcher' = Idle
    /\ UNCHANGED <<site, source, changes, received, entered, repeated>>

(* The two halves of the system meet in the changes, which one only adds and the *)
(* other only takes to the inbox                                                 *)
Checking   == LeaseDue \/ \E c \in checks : Fetch(c) \/ Finish(c)
Watching   == \/ Checking \/ RequestCheck \/ LeaseLapses \/ SourcesCrash
              \/ \E c \in checks : CheckLost(c)
              \/ \E l \in Locations : SiteChanges(l)
              \/ \E on \in BOOLEAN, l \in Locations, policy \in Policies : Update(on, l, policy)

Delivering == \/ ReadyRead \/ Delivered \/ \E k \in ready.read : CreateForChange(k)
              \/ \E d \in Deliverers : PendingRead(d) \/ \E k \in rows[d] : Deliver(d, k)
Taking     == (\E k \in Keys : WatcherReads(k)) \/ WatcherInserts \/ WatcherRetires \/ WatcherRefuses
Ingesting  == \/ Delivering \/ Taking \/ SourcesCrash \/ ClientCreate
              \/ \E k \in DOMAIN changes : RetryDue(k) \/ DeliveryFailed(k) \/ QueueIngestion(k)
              \/ \E d \in Deliverers : \E k \in rows[d] : DeliverBreaks(d, k)
              \/ \E k \in Keys : EditFile(k)
=============================================================================
