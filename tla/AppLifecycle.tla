----------------------------- MODULE AppLifecycle -----------------------------
(***************************************************************************)
(* How the program starts and ends under the window: the runtime starts in *)
(* a thread of its own, the window may be closed at any moment, and the    *)
(* listener of the API is started and stopped by orders of the services    *)
(* page, by the automatic start and by the end of the runtime. The page    *)
(* does one thing at a time, a reading or an order, and keeps one pending. *)
(*                                                                         *)
(* The threads of the runtime are stopped one after another. Each is asked *)
(* to end and waited for; one that outlives the wait is left to end when   *)
(* it will, or breaks the stop off, and nobody asks the ones that follow.  *)
(* What they do meanwhile is of other modules: here a stretch of the stop  *)
(* without the listener is one step.                                       *)
(* The port is not modelled: there is one.                                 *)
(***************************************************************************)
EXTENDS Naturals, FiniteSets, Sequences, Functions

CONSTANTS
    MaxServers,     \* bound: listeners made
    MaxOrders,      \* bound: orders the person gives in the services page
    MaxLate,        \* bound: threads that have outlived their wait, at a time
    NoServer

ASSUME AppLifecycleAssumption == {MaxServers, MaxOrders, MaxLate} \subseteq Nat /\ NoServer \notin 1..MaxServers

VARIABLES
    boot,       \* the thread of RuntimeStartup, and error
    closing,    \* _cancelled, _runtime_started, _stop_requested, and the thread of the window in cancel()
    workers,    \* the runtime: what is alive, how many were asked to end, stop() broken off, and its calls
    api,        \* _state, _server and _thread
    servers,    \* every listener made: what its thread is doing
    stopping,   \* ApiServerController.stop() in each of its callers, with the listener it has taken
    page,       \* _services_busy and its operation, _services_pending, and the one left for after_idle
    orders      \* _autostart_api was called, and the orders given by hand

(* The threads that runtime.start() starts and that runtime.stop() stops, in its  *)
(* order; the inbox has three, the listener is stopped after the backups, and the *)
(* checks of a source are of its worker.                                          *)
StartOrder == <<"log", "ingestion", "observer", "rescan", "broker", "source", "review", "automation", "backup">>
StopOrder == <<"backup", "automation", "review", "source", "broker", "observer", "rescan", "ingestion", "log">>
Workers == Range(StopOrder)
AskedUpTo(n) == {StopOrder[i] : i \in 1..n}
Late == workers.alive \cap AskedUpTo(workers.asked)

appVars == <<boot, closing, workers, api, servers, stopping, page, orders>>

Servers == 1..MaxServers
Callers == {"page", "runtime"}
Listening == {s \in DOMAIN servers : servers[s] \in {"starting", "serving", "ending"}}
Alive(s) == s # NoServer /\ servers[s] # "ended"
NoOrder == "none"
NothingShown == [busy |-> "no", order |-> NoOrder, pending |-> NoOrder, idle |-> NoOrder, buttons |-> {}, seen |-> {}]
Resting == [at |-> "idle", server |-> NoServer]

AppInit ==
    /\ boot = [at |-> "starting", error |-> FALSE]
    /\ closing = [cancelled |-> FALSE, started |-> FALSE, requested |-> FALSE, window |-> "open"]
    /\ workers = [alive |-> {}, asked |-> 0, broken |-> FALSE, stops |-> 0]
    /\ api = [state |-> "STOPPED", server |-> NoServer, thread |-> NoServer]
    /\ servers = <<>>
    /\ stopping = [c \in Callers |-> Resting]
    /\ page = NothingShown
    /\ orders = [auto |-> FALSE, given |-> 0]

-----------------------------------------------------------------------------
(* RuntimeStartup                                                                 *)
(* Defect: an exception of one does not keep the next from being stopped          *)
NothingRaises(w) == FALSE
Raises(w) == w \in {"broker", "rescan", "ingestion"}     \* TimeoutError, when its thread is still there
AskTo(n, late) ==               \* the event and join(timeout), one after another up to the n-th; some outlive it
    [workers EXCEPT !.asked = n, !.broken = \E w \in late : Raises(w),
                    !.alive = (@ \ AskedUpTo(n)) \cup Late \cup late]
MayOutlive(n) ==                \* only the last of them may raise
    {late \in SUBSET (workers.alive \cap AskedUpTo(n)) :
        Cardinality(late \cup Late) <= MaxLate /\ \A w \in late : Raises(w) => w = StopOrder[n]}
RuntimeStops ==                 \* runtime.stop(): the backups, then the listener, then the others
    /\ \E late \in MayOutlive(1) : workers' = [AskTo(1, late) EXCEPT !.stops = @ + 1]
    /\ stopping' = [stopping EXCEPT !["runtime"] = [at |-> "enter", server |-> NoServer]]
ThreadEnds(w) ==                \* later: it was asked to
    /\ w \in Late
    /\ workers' = [workers EXCEPT !.alive = @ \ {w}]
    /\ UNCHANGED <<boot, closing, api, servers, stopping, page, orders>>

Started(n) == workers' = [workers EXCEPT !.alive = {StartOrder[i] : i \in 1..n}]
RuntimeStarts ==                \* recover_once and all of them, with or without backups
    /\ boot.at = "starting"
    /\ \E n \in {Len(StartOrder) - 1, Len(StartOrder)} : Started(n)
    /\ boot' = [boot EXCEPT !.at = "started"]
    /\ UNCHANGED <<closing, api, servers, stopping, page, orders>>
StartFails ==                   \* in the recovery, or some did not start
    /\ boot.at = "starting"
    /\ \E n \in 0..(Len(StartOrder) - 1) : Started(n)
    /\ boot' = [at |-> "failed", error |-> TRUE]
    /\ UNCHANGED <<closing, api, servers, stopping, page, orders>>
StopsWhatStarted ==
    /\ boot.at = "failed" /\ boot' = [boot EXCEPT !.at = "failing"] /\ RuntimeStops
    /\ UNCHANGED <<closing, api, servers, page, orders>>
MarksStarted ==                 \* _runtime_started
    /\ boot.at = "started" /\ boot' = [boot EXCEPT !.at = "looks"]
    /\ closing' = [closing EXCEPT !.started = TRUE]
    /\ UNCHANGED <<workers, api, servers, stopping, page, orders>>
(* Defect: the start does not look whether it was cancelled meanwhile             *)
NobodyAsked == FALSE
Cancelled == closing.cancelled /\ ~closing.requested
LooksForCancel ==
    /\ boot.at = "looks"
    /\ IF Cancelled
       THEN /\ closing' = [closing EXCEPT !.requested = TRUE] /\ RuntimeStops
            /\ boot' = [boot EXCEPT !.at = "stopping"]
       ELSE boot' = [boot EXCEPT !.at = "done"] /\ UNCHANGED <<closing, workers, stopping>>
    /\ UNCHANGED <<api, servers, page, orders>>

CloseWindow ==                        \* _close: cancel(), first the mark
    /\ closing.window = "open"
    /\ closing' = [closing EXCEPT !.cancelled = TRUE, !.window = "cancelling"]
    /\ UNCHANGED <<boot, workers, api, servers, stopping, page, orders>>
CancelLooks ==                  \* ... then, if the runtime has started, its stop
    /\ closing.window = "cancelling"
    /\ IF closing.started /\ ~closing.requested
       THEN closing' = [closing EXCEPT !.requested = TRUE, !.window = "stopping"] /\ RuntimeStops
       ELSE closing' = [closing EXCEPT !.window = "closed"] /\ UNCHANGED <<workers, stopping>>
    /\ UNCHANGED <<boot, api, servers, page, orders>>

RuntimeStopped ==               \* the other threads; stop() returns, or raises: its caller goes on, and nobody tries again
    /\ stopping["runtime"].at = "back"
    /\ \E n \in workers.asked..Len(StopOrder) : \E late \in MayOutlive(n) :
           workers' = AskTo(n, late) /\ (n = Len(StopOrder) \/ workers'.broken)
    /\ stopping' = [stopping EXCEPT !["runtime"] = Resting]
    /\ \/ boot.at \in {"failing", "stopping"} /\ boot' = [boot EXCEPT !.at = "done"] /\ UNCHANGED closing
       \/ closing.window = "stopping" /\ closing' = [closing EXCEPT !.window = "closed"] /\ UNCHANGED boot
    /\ UNCHANGED <<api, servers, page, orders>>

-----------------------------------------------------------------------------
(* ApiServerController: start() holds its lock from end to end                    *)
NewServer == Len(servers) + 1
NoApi == [state |-> "STOPPED", server |-> NoServer, thread |-> NoServer]
StartApi ==                     \* a refusal, a port that does not open, a thread that does not start, or a listener
    IF api.state = "STOPPING" \/ Alive(api.thread) \/ NewServer \notin Servers
    THEN UNCHANGED <<api, servers>>
    ELSE \/ api' = [api EXCEPT !.state = "ERROR"] /\ UNCHANGED servers
         \/ api' = [NoApi EXCEPT !.state = "ERROR"] /\ UNCHANGED servers
         \/ /\ servers' = Append(servers, "starting")
            /\ api' = [state |-> "RUNNING", server |-> NewServer, thread |-> NewServer]

EnterStop(c) ==
    /\ stopping[c].at = "enter"
    /\ IF api.server = NoServer \/ api.state = "STOPPING"
       THEN stopping' = [stopping EXCEPT ![c].at = "back"] /\ UNCHANGED api
       ELSE /\ stopping' = [stopping EXCEPT ![c] = [at |-> "shutdown", server |-> api.server]]
            /\ api' = [api EXCEPT !.state = "STOPPING"]
    /\ UNCHANGED <<boot, closing, workers, servers, page, orders>>
ShutDown(c) ==                  \* shutdown() returns when serve_forever() has ended
    /\ stopping[c].at = "shutdown"
    /\ servers[stopping[c].server] \notin {"starting", "serving"}
    /\ stopping' = [stopping EXCEPT ![c].at = "join"]
    /\ UNCHANGED <<boot, closing, workers, api, servers, page, orders>>
(* Defect: after three seconds the listener is taken for stopped                  *)
StoppedAnyway(s) == NoApi
StoppedApi(s) == IF Alive(s) THEN api ELSE NoApi
Joined(c) ==                    \* join(timeout=3)
    /\ stopping[c].at = "join"
    /\ stopping' = [stopping EXCEPT ![c].at = "back"]
    /\ api' = StoppedApi(stopping[c].server)
    /\ UNCHANGED <<boot, closing, workers, servers, page, orders>>

(* _run: serve_forever ends by itself or by shutdown(), then the listener closes  *)
Serves(s) ==
    /\ servers[s] = "starting" /\ servers' = [servers EXCEPT ![s] = "serving"]
    /\ UNCHANGED <<boot, closing, workers, api, stopping, page, orders>>
AskedToEnd(s) == \E c \in Callers : stopping[c].at = "shutdown" /\ stopping[c].server = s
EndsServing(s) ==
    /\ servers[s] = "serving" /\ AskedToEnd(s)
    /\ servers' = [servers EXCEPT ![s] = "ending"]
    /\ UNCHANGED <<boot, closing, workers, api, stopping, page, orders>>
ServerBreaks(s) ==
    /\ servers[s] = "serving" /\ servers' = [servers EXCEPT ![s] = "ending"]
    /\ UNCHANGED <<boot, closing, workers, api, stopping, page, orders>>
ClosesServer(s) ==
    /\ servers[s] = "ending" /\ servers' = [servers EXCEPT ![s] = "closed"]
    /\ UNCHANGED <<boot, closing, workers, api, stopping, page, orders>>
TellsItsEnd(s) ==               \* it was not asked to end: an error
    /\ servers[s] = "closed" /\ servers' = [servers EXCEPT ![s] = "told"]
    /\ api' = IF api.server = s /\ api.state # "STOPPING"
              THEN [api EXCEPT !.state = "ERROR", !.server = NoServer] ELSE api
    /\ UNCHANGED <<boot, closing, workers, stopping, page, orders>>

EndsThread(s) ==
    /\ servers[s] = "told" /\ servers' = [servers EXCEPT ![s] = "ended"]
    /\ UNCHANGED <<boot, closing, workers, api, stopping, page, orders>>

-----------------------------------------------------------------------------
(* The services page                                                              *)
WindowOpen == closing.window = "open"
Ready == boot.at = "done" /\ ~boot.error
Begins(now, kind) ==            \* the thread "services-status"; an order puts its buttons out
    [now EXCEPT !.busy = "running", !.order = kind, !.buttons = IF kind = "read" THEN @ ELSE {}]
ReadServices(now, kind) ==      \* _read_services, with an order or only to read
    IF now.busy = "no" THEN Begins(now, kind)
    ELSE IF kind = "read" THEN now ELSE [now EXCEPT !.pending = kind]

FinishStartup ==                \* _finish_startup and _autostart_api
    /\ WindowOpen /\ Ready /\ ~orders.auto
    /\ orders' = [orders EXCEPT !.auto = TRUE]
    /\ page' = ReadServices(page, "autostart")
    /\ UNCHANGED <<boot, closing, workers, api, servers, stopping>>
ChangeApi(kind) ==              \* _change_api, with its button enabled
    /\ WindowOpen /\ Ready /\ kind \in page.buttons /\ orders.given < MaxOrders
    /\ orders' = [orders EXCEPT !.given = @ + 1]
    /\ page' = ReadServices(page, kind)
    /\ UNCHANGED <<boot, closing, workers, api, servers, stopping>>
RefreshServices ==              \* every 2 s while the page is shown
    /\ WindowOpen /\ page.busy = "no"
    /\ page' = ReadServices(page, "read")
    /\ UNCHANGED <<boot, closing, workers, api, servers, stopping, orders>>

(* The thread of the page: its order, and then what it sees of the listener       *)
Operates ==
    /\ page.busy = "running"
    /\ \/ page.order = "stop" /\ UNCHANGED <<api, servers>>
          /\ stopping' = [stopping EXCEPT !["page"].at = "enter"]
          /\ page' = [page EXCEPT !.busy = "stopping"]
       \/ page.order \in {"start", "autostart"} /\ StartApi /\ UNCHANGED stopping
          /\ page' = [page EXCEPT !.busy = "reading"]
       \/ page.order \in {"read", "autostart"}        \* there was nothing to start
          /\ page' = [page EXCEPT !.busy = "reading"] /\ UNCHANGED <<api, servers, stopping>>
    /\ UNCHANGED <<boot, closing, workers, orders>>
StopReturns ==
    /\ stopping["page"].at = "back"
    /\ stopping' = [stopping EXCEPT !["page"] = Resting]
    /\ page' = [page EXCEPT !.busy = "reading"]
    /\ UNCHANGED <<boot, closing, workers, api, servers, orders>>
ButtonsSeen ==                  \* without a consumer there is nothing to start
    IF api.state = "RUNNING" /\ Alive(api.thread) THEN {{"stop"}}
    ELSE IF api.state = "STOPPING" THEN {{}} ELSE {{"start"}, {}}
Snapshot ==                     \* a reading that fails leaves the buttons as they were
    /\ page.busy = "reading"
    /\ \E seen \in ButtonsSeen \cup {page.buttons} :
        page' = [page EXCEPT !.busy = "told", !.order = NoOrder, !.seen = seen]
    /\ UNCHANGED <<boot, closing, workers, api, servers, stopping, orders>>

PollServices ==                 \* _poll_services and _render_services; after_idle comes before its 100 ms
    /\ WindowOpen /\ page.busy = "told" /\ page.idle = NoOrder
    /\ page' = [page EXCEPT !.busy = "no", !.pending = NoOrder, !.idle = page.pending, !.seen = {},
                            !.buttons = {b \in page.seen : b = "start" => Ready}]
    /\ UNCHANGED <<boot, closing, workers, api, servers, stopping, orders>>
AfterIdle ==                    \* what was pending; behind another order it waits again, in the place of a newer one
    /\ WindowOpen /\ page.idle # NoOrder
    /\ page' = ReadServices([page EXCEPT !.idle = NoOrder], page.idle)
    /\ UNCHANGED <<boot, closing, workers, api, servers, stopping, orders>>

ProcessEnds ==                  \* the other threads are daemons: they end with the process
    /\ closing.window = "closed" /\ closing' = [closing EXCEPT !.window = "gone"]
    /\ workers' = [workers EXCEPT !.alive = {}]
    /\ servers' = [s \in DOMAIN servers |-> "ended"]
    /\ page' = NothingShown
    /\ UNCHANGED <<boot, api, stopping, orders>>

Startup == RuntimeStarts \/ StartFails \/ StopsWhatStarted \/ MarksStarted \/ LooksForCancel
StopStep(c) == EnterStop(c) \/ ShutDown(c) \/ Joined(c)
               \/ (c = "runtime" /\ RuntimeStopped) \/ (c = "page" /\ StopReturns)
ServerStep(s) == Serves(s) \/ EndsServing(s) \/ ClosesServer(s) \/ TellsItsEnd(s) \/ EndsThread(s)
PageStep == Operates \/ Snapshot \/ PollServices \/ AfterIdle
Present == closing.window # "gone"
AppNext ==
    /\ Present
    /\ \/ Startup \/ (\E c \in Callers : StopStep(c)) \/ PageStep \/ FinishStartup \/ RefreshServices
       \/ (\E kind \in {"start", "stop"} : ChangeApi(kind))
       \/ (\E s \in DOMAIN servers : ServerStep(s) \/ ServerBreaks(s))
       \/ (\E w \in Workers : ThreadEnds(w))
       \/ CloseWindow \/ CancelLooks \/ ProcessEnds
=============================================================================
