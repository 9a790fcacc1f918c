-------------------------------- MODULE MCReads --------------------------------
(***************************************************************************)
(* What reads the tables beside the pipeline, and acts on what it read:    *)
(* the index and the queries, over the same notes, the screen of the       *)
(* window, the session of the program and the full copies. Each is a scene *)
(* of its own: they share no state but the notes.                          *)
(***************************************************************************)
EXTENDS NoteIndex, KnowledgeQueries, AppLifecycle, ScreenReads, Backups

CONSTANTS n1, c1, c2
VARIABLE scene

MCNoteOf == [c \in Claims |-> n1]
MCDerivedFrom == [c \in Claims |-> IF c = c2 THEN c1 ELSE NoClaim]

noteScenes == <<notesVars, indexVars, queryVars>>
sessionScenes == <<appVars, screenVars, backupVars>>
vars == <<noteScenes, sessionScenes, scene>>
Init ==
    /\ NotesInit /\ IndexInit /\ QueriesInit
    /\ AppInit /\ ScreenInit /\ BackupsInit
    /\ scene \in {"index", "queries", "session", "screen", "copies"}
    /\ \A n \in Notes : Published(n) <=> scene = "queries"
    /\ scene # "index" => model = NoModel

Scene(s, others) == scene = s /\ UNCHANGED <<scene, others>>
IndexScene == Scene("index", <<queryVars, sessionScenes>>)
QueryScene == Scene("queries", <<indexVars, sessionScenes>>)
SessionScene == Present /\ Scene("session", <<noteScenes, screenVars, backupVars>>)
ScreenScene == Scene("screen", <<noteScenes, appVars, backupVars>>)
CopyScene == Scene("copies", <<noteScenes, appVars, screenVars>>)

Next ==
    \/ IndexScene /\ (IndexNext \/ (NotesNext /\ UNCHANGED indexVars))
    \/ QueryScene /\ (QueriesNext \/ (NotesNext /\ UNCHANGED queryVars))
    \/ SessionScene /\ AppNext
    \/ ScreenScene /\ ScreenNext
    \/ CopyScene /\ BackupsNext

Spec == Init /\ [][Next]_vars

(* The loops of the workers, the threads and the timers of the window always go   *)
(* on; and the Broker answers in the end what it is asked again and again         *)
FairSpec == Spec
    /\ WF_vars(IndexScene /\ WorkerStep) /\ WF_vars(IndexScene /\ ThreadStep("api"))
    /\ SF_vars(IndexScene /\ PollRead(QueuedRows))
    /\ WF_vars(SessionScene /\ (Startup \/ CancelLooks))
    /\ \A c \in Callers : WF_vars(SessionScene /\ StopStep(c))
    /\ \A s \in 1..MaxServers : WF_vars(SessionScene /\ s \in DOMAIN servers /\ ServerStep(s))
    /\ WF_vars(ScreenScene /\ ReadsInWindow) /\ WF_vars(ScreenScene /\ ReadsInThread)
    /\ WF_vars(ScreenScene /\ RefreshScreen)
    /\ WF_vars(CopyScene /\ Copying)

-----------------------------------------------------------------------------
(* No fragment is in two live jobs of a model, no vector is filed under a model   *)
(* that did not compute it, and a note counts as indexed only by all its parts    *)
(* (schedule_jobs, store_vectors, split_fragment).                                *)
Live(j) == jobs[j].status \in {"READY", "QUEUED"}
OneJobPerFragment == \A i, j \in Jobs : i # j /\ Live(i) /\ Live(j) /\ jobs[i].model = jobs[j].model =>
    DOMAIN jobs[i].texts \cap DOMAIN jobs[j].texts = {}
VectorsAreOfTheModel == \A v \in vectors : v.key = v.by
PartsOf(n) == {frags[id].part : id \in CurrentOf(n)}
IndexedNotesAreWhole == \A n \in Notes : Published(n) /\ n \notin Unindexed(model) =>
    "whole" \in PartsOf(n) \/ Range(Halves) \subseteq PartsOf(n)
IndexIsSound ==
    /\ NotesTypeOK /\ Range(frags) \subseteq Fragment
    /\ OneJobPerFragment /\ VectorsAreOfTheModel /\ IndexedNotesAreWhole

(* With a model chosen, every note that is as the vault has it ends up in the     *)
(* index (NoteIndexProcessor.cycle); a retrieval comes to an end, whatever model  *)
(* it was asked under (_poll_retrievals, complete_retrieval); a window that is    *)
(* being closed is closed, whatever the runtime, its listener and a stop of the   *)
(* services page are doing (_close, ApiServerController.stop); the screen ends up *)
(* showing what there is (_refresh, periodic); and a copy that is due is made,    *)
(* though files move and disks fail (BackupWorker._run).                          *)
IndexCatchesUp == model # NoModel => \A n \in Notes : InSync(n) => n \notin Unindexed(model)
RetrievalsEnd == \A q \in Retrievals : asked[q].status \notin {"READY", "QUEUED"}
WindowCloses == closing.window \in {"open", "closed", "gone"}
ScreenCatchesUp == shown = data
CopiesAreMade == ~clock.due
EverythingCatchesUp == <>[](
    /\ scene = "index" => IndexCatchesUp /\ RetrievalsEnd
    /\ scene = "session" => WindowCloses
    /\ scene = "screen" => ScreenCatchesUp
    /\ scene = "copies" => CopiesAreMade)

(* The evidence of a query was in force when its fingerprint was taken, and an    *)
(* answer that is told cites nothing but evidence of its query that is in force   *)
(* at that moment (create, complete and get of knowledge_query.py).               *)
EvidenceIsCoherent == \A q \in Questions : \A c \in query[q].evidence :
    /\ query[q].print.claims[c][1] = "CURRENT"
    /\ query[q].print.notes[NoteOf[c]].status = "PUBLISHED"
InForceNow(c) == claim[c].state = "CURRENT" /\ claim[c].active /\ Published(NoteOf[c])
Told(q) == said'[q] # said[q] /\ said'[q].status = "SUCCESS"
ToldStands(q) == Told(q) =>
    said'[q].answer \subseteq query[q].evidence /\ \A c \in said'[q].answer : InForceNow(c)
AnswersStand == [][EvidenceIsCoherent' /\ \A q \in Questions : ToldStands(q)]_vars

(* A session has one listener at most, and none once it is told stopped or in   *)
(* error. The runtime is stopped once and never while it starts; once the       *)
(* window is closed and the stop is over, every thread was asked to end, unless *)
(* one of the Broker's or of the inbox was still there after its wait and broke *)
(* the stop off; and while one of those is alive nothing that comes after it is *)
(* stopped, so that the log closes behind both. A thread may outlive the        *)
(* window. The screen never goes back to before what the person did, unless a   *)
(* reading failed or was forgotten; and what is restored is one whole copy,     *)
(* with every file that was not moved while it was made (ApiServerController,   *)
(* RuntimeStartup, OrchestratorRuntime.stop, BackgroundSnapshots,               *)
(* create_full_backup and restore_full_backup).                                 *)
OneListener == Cardinality(Listening) <= 1 /\ (api.state \in {"STOPPED", "ERROR"} => Listening = {})
StopIsOver == closing.window = "closed" /\ boot.at = "done" /\ stopping["runtime"].at = "idle"
AskedBefore(w) == \E i, j \in 1..workers.asked : i < j /\ StopOrder[i] = w
OneStop ==
    /\ workers.stops <= 1 /\ (boot.at = "starting" => workers.stops = 0)
    /\ StopIsOver => workers.asked = Len(StopOrder) \/ workers.broken
    /\ \A w \in workers.alive : AskedBefore(w) => w \notin {"broker", "rescan", "ingestion"}
NothingUnseen == lapses = 0 => shown >= acted
HasItsFiles(copy) == \A d \in Docs \ copy.moved : <<copy.rows[d], d>> \in copy.files
CopiesAreWhole ==
    /\ \A i \in DOMAIN copies : HasItsFiles(copies[i])
    /\ root.at = "restored" => root.files = root.copy.files /\ HasItsFiles(root.copy)
SessionIsSound == OneListener /\ OneStop /\ NothingUnseen /\ CopiesAreWhole
=============================================================================
