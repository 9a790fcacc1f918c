----------------------------- MODULE ReadsProofs -----------------------------
(***************************************************************************)
(* What the readers of the tables promise, for any number of notes,        *)
(* claims, questions, models and jobs; of listeners, orders and changes of *)
(* the tables; of documents and copies; and of failures.                   *)
(*                                                                         *)
(* The session: the runtime is stopped once because whoever stops it has   *)
(* seen it start and that nobody had asked before (RunInv). There is one   *)
(* listener because the controller forgets a thread only after its end,    *)
(* and stops one at a time (ApiInv). The screen does not go back because,  *)
(* of two readings, the one that started before finds itself late          *)
(* (ScreenInv). A copy has the files of its rows because a folder is       *)
(* listed for them while they cannot leave it unseen (CopyInv).            *)
(*                                                                         *)
(* The queries: an answer stands because the revision of a claim only      *)
(* grows, so that an equal fingerprint is of equal claims, whatever a      *)
(* thread read in between (QueriesInv). The index: batches are apart       *)
(* because the worker holds the rows it will still write, and no id is     *)
(* given twice while its fragment is there (IndexInv).                     *)
(***************************************************************************)
EXTENDS MCReads, SequenceTheorems, FiniteSetTheorems, WellFoundedInduction, TLAPS

-----------------------------------------------------------------------------
(* The start and the end of the runtime                                           *)
BootSteps == {"starting", "started", "failed", "looks", "stopping", "failing", "done"}
Windows == {"open", "cancelling", "stopping", "closed", "gone"}
StopSteps == {"idle", "enter", "shutdown", "join", "back"}
WorkerRows == [alive : SUBSET Workers, asked : 0..9, broken : BOOLEAN, stops : {0, 1}]
StopRows == [at : StopSteps, server : Servers \cup {NoServer}]

RunTypes ==
    /\ boot \in [at : BootSteps, error : BOOLEAN]
    /\ closing \in [cancelled : BOOLEAN, started : BOOLEAN, requested : BOOLEAN, window : Windows]
    /\ workers \in WorkerRows
    /\ stopping \in [Callers -> StopRows]
    /\ \A c \in Callers : stopping[c].at = "idle" => stopping[c] = Resting
(* The mark that the runtime has started is set once it has, without an error     *)
Begun ==
    /\ boot.at \in {"starting", "started", "failed", "failing"} => ~closing.started
    /\ boot.at \in {"looks", "stopping"} => closing.started
    /\ boot.at = "done" => (boot.error <=> ~closing.started)
    /\ boot.error <=> boot.at \in {"failed", "failing"} \/ (boot.at = "done" /\ ~closing.started)
(* It was stopped by who asked first, or by its own failure, and never by both    *)
StopsOnce ==
    /\ workers.stops = 1 <=> closing.requested \/ (boot.error /\ boot.at # "failed")
    /\ closing.requested => closing.started
StopIsCalled ==
    /\ stopping["runtime"] # Resting <=> boot.at \in {"failing", "stopping"} \/ closing.window = "stopping"
    /\ boot.at = "stopping" \/ closing.window = "stopping" => closing.requested
    /\ ~(boot.at = "stopping" /\ closing.window = "stopping")
(* Between its beginning and its end a stop has asked the backups alone; once it   *)
(* is over it has asked them all, or was broken off by the last that it asked     *)
AsksInOrder ==
    /\ workers.stops = 0 => workers.asked = 0 /\ ~workers.broken
    /\ workers.stops = 1 /\ stopping["runtime"] # Resting => workers.asked = 1 /\ ~workers.broken
    /\ workers.stops = 1 /\ stopping["runtime"] = Resting => workers.asked = 9 \/ workers.broken
    /\ \A w \in workers.alive : AskedBefore(w) => ~Raises(w)
(* A window that is closed was seen by the thread of the start, or has seen it    *)
WindowGone ==
    /\ closing.cancelled <=> closing.window # "open"
    /\ closing.window \in {"closed", "gone"} /\ boot.at = "done" => closing.requested \/ boot.error
RunInv == RunTypes /\ Begun /\ StopsOnce /\ StopIsCalled /\ AsksInOrder /\ WindowGone

runVars == <<boot, closing, workers, stopping>>

LEMMA StopOrderIs ==
    /\ Len(StopOrder) = 9 /\ DOMAIN StopOrder = 1..9 /\ StopOrder[1] = "backup" /\ ~Raises("backup")
    /\ \A i, j \in 1..9 : StopOrder[i] = StopOrder[j] => i = j
    /\ \A i \in 1..9 : StopOrder[i] \in Workers
<1>1. Len(StopOrder) = 9 /\ DOMAIN StopOrder = 1..9 /\ StopOrder[1] = "backup" /\ ~Raises("backup")
  BY DEF StopOrder, Raises
<1>2. \A i, j \in 1..9 : StopOrder[i] = StopOrder[j] => i = j
  BY DEF StopOrder
<1>3. \A i \in 1..9 : StopOrder[i] \in Workers
  BY <1>1 DEF Workers, Range
<1>4. QED BY <1>1, <1>2, <1>3

LEMMA StartOrderIs == Len(StartOrder) = 9 /\ \A i \in 1..9 : StartOrder[i] \in Workers
<1>1. \A i \in 1..9 : \E j \in 1..9 : StartOrder[i] = StopOrder[j]
  BY DEF StartOrder, StopOrder
<1>2. QED BY <1>1, StopOrderIs DEF StartOrder

LEMMA RunUnchanged == ASSUME RunInv, UNCHANGED runVars PROVE RunInv'
BY DEF RunInv, runVars, RunTypes, Begun, StopsOnce, StopIsCalled, AsksInOrder, AskedBefore, WindowGone, Resting

LEMMA RunInit == Init => RunInv
<1> SUFFICES ASSUME AppInit PROVE RunInv
  BY DEF Init
<1>1. Resting \in StopRows /\ Resting.at = "idle" /\ "runtime" \in Callers
  BY DEF Resting, StopRows, StopSteps, Callers
<1>2. \A c \in Callers : stopping[c] = Resting
  BY DEF AppInit
<1>3. RunTypes
  <2>1. workers \in WorkerRows
    BY DEF AppInit, WorkerRows
  <2>2. QED BY <1>1, <1>2, <2>1 DEF AppInit, RunTypes, BootSteps, Windows
<1>4. AsksInOrder
  BY <1>1, <1>2 DEF AppInit, AsksInOrder
<1>5. QED
  BY <1>1, <1>2, <1>3, <1>4 DEF AppInit, RunInv, Begun, StopsOnce, StopIsCalled, WindowGone

(* What the calls of stop() do to their own record                                *)
LEMMA StopRecord ==
    ASSUME RunTypes, NEW c \in Callers, NEW r \in StopRows, stopping' = [stopping EXCEPT ![c] = r],
           r.at = "idle" => r = Resting
    PROVE  /\ stopping' \in [Callers -> StopRows] /\ stopping'[c] = r
           /\ \A d \in Callers \ {c} : stopping'[d] = stopping[d]
           /\ \A d \in Callers : stopping'[d].at = "idle" => stopping'[d] = Resting
BY DEF RunTypes

LEMMA RunInStop ==
    ASSUME RunInv, NEW c \in Callers, NEW r \in StopRows, stopping' = [stopping EXCEPT ![c] = r],
           r.at = "idle" => r = Resting, c = "runtime" => r # Resting /\ stopping["runtime"] # Resting,
           UNCHANGED <<boot, closing, workers>>
    PROVE  RunInv'
<1>1. RunTypes'
  BY StopRecord DEF RunInv, RunTypes
<1>2. stopping'["runtime"] = Resting <=> stopping["runtime"] = Resting
  <2>1. "runtime" \in Callers
    BY DEF Callers
  <2>2. QED BY <2>1, StopRecord DEF RunInv
<1>3. Begun' /\ StopsOnce' /\ WindowGone'
  BY DEF RunInv, Begun, StopsOnce, WindowGone
<1>4. StopIsCalled'
  BY <1>2 DEF RunInv, StopIsCalled
<1>5. AsksInOrder'
  BY <1>2 DEF RunInv, AsksInOrder, AskedBefore
<1>6. QED BY <1>1, <1>3, <1>4, <1>5 DEF RunInv

LEMMA StopRows1 ==
    ASSUME RunTypes, NEW c \in Callers
    PROVE  /\ stopping[c] \in StopRows /\ stopping[c].server \in Servers \cup {NoServer}
           /\ \A at \in StopSteps \ {"idle"} : \A s \in Servers \cup {NoServer} :
                [at |-> at, server |-> s] \in StopRows /\ [at |-> at, server |-> s] # Resting
           /\ \A at \in StopSteps :
                [stopping EXCEPT ![c].at = at] =
                    [stopping EXCEPT ![c] = [at |-> at, server |-> stopping[c].server]]
<1>1. stopping[c] \in StopRows
  BY DEF RunTypes
<1>2. PICK at0 \in StopSteps, s0 \in Servers \cup {NoServer} : stopping[c] = [at |-> at0, server |-> s0]
  BY <1>1 DEF StopRows
<1>3. ASSUME NEW at \in StopSteps \ {"idle"}, NEW s \in Servers \cup {NoServer}
      PROVE  [at |-> at, server |-> s] \in StopRows /\ [at |-> at, server |-> s] # Resting
  <2>1. [at |-> at, server |-> s].at # "idle" /\ Resting.at = "idle"
    BY DEF Resting
  <2>2. QED BY <2>1 DEF StopRows
<1>4. \A at \in StopSteps : [stopping[c] EXCEPT !.at = at] = [at |-> at, server |-> stopping[c].server]
  BY <1>2
<1>5. QED BY <1>1, <1>2, <1>3, <1>4

LEMMA RunCalls ==
    ASSUME RunInv, api.server \in Servers \cup {NoServer}, NEW c \in Callers,
           EnterStop(c) \/ ShutDown(c) \/ Joined(c)
    PROVE  RunInv'
<1>1. stopping[c].at \in {"enter", "shutdown", "join"} /\ UNCHANGED <<boot, closing, workers>>
  BY DEF EnterStop, ShutDown, Joined
<1>2. stopping[c] # Resting
  BY <1>1 DEF Resting
<1>3. RunTypes
  BY DEF RunInv
<1>4. PICK at \in {"back", "shutdown", "join"}, s \in Servers \cup {NoServer} :
        stopping' = [stopping EXCEPT ![c] = [at |-> at, server |-> s]]
  <2>1. CASE stopping' = [stopping EXCEPT ![c] = [at |-> "shutdown", server |-> api.server]]
    BY <2>1
  <2>2. CASE \E at \in {"back", "join"} : stopping' = [stopping EXCEPT ![c].at = at]
    <3>1. PICK at \in {"back", "join"} : stopping' = [stopping EXCEPT ![c].at = at]
      BY <2>2
    <3>2. at \in StopSteps
      BY DEF StopSteps
    <3>3. stopping' = [stopping EXCEPT ![c] = [at |-> at, server |-> stopping[c].server]]
      BY <1>3, <3>1, <3>2, StopRows1
    <3>4. stopping[c].server \in Servers \cup {NoServer}
      BY <1>3, StopRows1
    <3>5. QED BY <3>3, <3>4
  <2>3. QED BY <2>1, <2>2 DEF EnterStop, ShutDown, Joined
<1>5. at \in StopSteps \ {"idle"}
  BY DEF StopSteps
<1>6. PICK r \in StopRows : r = [at |-> at, server |-> s] /\ r # Resting /\ r.at # "idle"
  BY <1>3, <1>5, StopRows1
<1>7. stopping' = [stopping EXCEPT ![c] = r]
  BY <1>4, <1>6
<1>8. c = "runtime" => r # Resting /\ stopping["runtime"] # Resting
  BY <1>2, <1>6
<1>9. QED BY <1>1, <1>6, <1>7, <1>8, RunInStop

LEMMA RunPage ==
    ASSUME RunInv, Operates \/ StopReturns
    PROVE  RunInv'
<1>0. RunTypes /\ "page" \in Callers /\ "page" # "runtime"
  BY DEF RunInv, Callers
<1>1. UNCHANGED <<boot, closing, workers>>
  BY DEF Operates, StopReturns
<1>2. CASE stopping' = stopping
  BY <1>1, <1>2, RunUnchanged DEF runVars
<1>3. CASE stopping' = [stopping EXCEPT !["page"].at = "enter"]
  <2>1. "enter" \in StopSteps \ {"idle"} /\ stopping["page"].server \in Servers \cup {NoServer}
    BY <1>0, StopRows1 DEF StopSteps
  <2>2. PICK r \in StopRows : r = [at |-> "enter", server |-> stopping["page"].server] /\ r.at # "idle"
    BY <1>0, <2>1, StopRows1
  <2>3. stopping' = [stopping EXCEPT !["page"] = r]
    BY <1>0, <1>3, <2>1, <2>2, StopRows1
  <2>4. QED BY <1>0, <1>1, <2>2, <2>3, RunInStop
<1>4. CASE stopping' = [stopping EXCEPT !["page"] = Resting]
  <2>1. Resting \in StopRows
    BY DEF Resting, StopRows, StopSteps
  <2>2. QED BY <1>0, <1>1, <1>4, <2>1, RunInStop
<1>5. QED BY <1>2, <1>3, <1>4 DEF Operates, StopReturns

(* What asking some threads to end makes of the record                            *)
LEMMA AskToIs ==
    ASSUME RunTypes, NEW n \in 1..9, NEW late \in MayOutlive(n)
    PROVE  /\ AskTo(n, late) \in WorkerRows /\ AskTo(n, late).asked = n /\ AskTo(n, late).stops = workers.stops
           /\ AskTo(n, late).broken <=> \E w \in late : Raises(w)
           /\ AskTo(n, late).alive = (workers.alive \ AskedUpTo(n)) \cup Late \cup late
           /\ late \subseteq workers.alive /\ \A w \in late : Raises(w) => w = StopOrder[n]
<1>1. late \subseteq workers.alive /\ \A w \in late : Raises(w) => w = StopOrder[n]
  BY DEF MayOutlive
<1>2. workers \in WorkerRows /\ workers.alive \in SUBSET Workers
  BY DEF RunTypes, WorkerRows
<1>3. (workers.alive \ AskedUpTo(n)) \cup Late \cup late \in SUBSET Workers
  BY <1>1, <1>2 DEF Late
<1>4. (\E w \in late : Raises(w)) \in BOOLEAN
  OBVIOUS
<1>5. n \in 0..9
  OBVIOUS
<1> DEFINE alive1 == (workers.alive \ AskedUpTo(n)) \cup Late \cup late
           broken1 == \E w \in late : Raises(w)
<1>6. AskTo(n, late) = [workers EXCEPT !.asked = n, !.broken = broken1, !.alive = alive1]
  BY DEF AskTo
<1> HIDE DEF alive1, broken1
<1>7. alive1 \in SUBSET Workers /\ broken1 \in BOOLEAN
  BY <1>3, <1>4 DEF alive1, broken1
<1>8. /\ AskTo(n, late) \in WorkerRows /\ AskTo(n, late).asked = n /\ AskTo(n, late).stops = workers.stops
      /\ AskTo(n, late).broken = broken1 /\ AskTo(n, late).alive = alive1
  BY <1>2, <1>5, <1>6, <1>7 DEF WorkerRows
<1>9. QED BY <1>1, <1>8 DEF alive1, broken1

(* runtime.stop() begins, when nobody had called it                               *)
LEMMA StopBegins ==
    ASSUME RunInv, RuntimeStops, workers.stops = 0
    PROVE  /\ workers' \in WorkerRows /\ workers'.stops = 1 /\ AsksInOrder'
           /\ stopping' \in [Callers -> StopRows] /\ stopping'["runtime"] # Resting
           /\ \A c \in Callers : stopping'[c].at = "idle" => stopping'[c] = Resting
<1>0. RunTypes /\ "runtime" \in Callers
  BY DEF RunInv, Callers
<1>1. PICK late \in MayOutlive(1) : workers' = [AskTo(1, late) EXCEPT !.stops = @ + 1]
  BY DEF RuntimeStops
<1>2. /\ AskTo(1, late) \in WorkerRows /\ AskTo(1, late).asked = 1 /\ AskTo(1, late).stops = 0
      /\ AskTo(1, late).broken <=> \E w \in late : Raises(w)
      /\ \A w \in late : Raises(w) => w = StopOrder[1]
  <2>1. 1 \in 1..9 /\ workers.stops = 0
    OBVIOUS
  <2>2. QED BY <1>0, <2>1, AskToIs
<1>3. workers' \in WorkerRows /\ workers'.stops = 1 /\ workers'.asked = 1 /\ ~workers'.broken
  <2>1. ~AskTo(1, late).broken
    BY <1>2, StopOrderIs
  <2>2. QED BY <1>1, <1>2, <2>1 DEF WorkerRows
<1>4. PICK r \in StopRows : r = [at |-> "enter", server |-> NoServer] /\ r # Resting /\ r.at # "idle"
  <2>1. "enter" \in StopSteps \ {"idle"} /\ NoServer \in Servers \cup {NoServer}
    BY DEF StopSteps
  <2>2. [at |-> "enter", server |-> NoServer] \in StopRows /\ [at |-> "enter", server |-> NoServer] # Resting
    BY <1>0, <2>1, StopRows1
  <2>3. QED BY <2>2
<1>5. stopping' = [stopping EXCEPT !["runtime"] = r]
  BY <1>4 DEF RuntimeStops
<1>6. /\ stopping' \in [Callers -> StopRows] /\ stopping'["runtime"] # Resting
      /\ \A c \in Callers : stopping'[c].at = "idle" => stopping'[c] = Resting
  BY <1>0, <1>4, <1>5, StopRecord
<1>7. AsksInOrder'
  BY <1>3, <1>6 DEF AsksInOrder, AskedBefore
<1>8. QED BY <1>3, <1>6, <1>7

(* The threads of the runtime have started, or some of them                       *)
LEMMA StartedIs ==
    ASSUME RunInv, boot.at = "starting", NEW n \in 0..9, Started(n)
    PROVE  workers' \in WorkerRows /\ workers'.stops = 0 /\ workers'.asked = 0 /\ ~workers'.broken
<1>1. workers \in WorkerRows /\ workers.stops = 0 /\ workers.asked = 0 /\ ~workers.broken
  BY DEF RunInv, RunTypes, WorkerRows, Begun, StopsOnce, AsksInOrder
<1>2. PICK alive1 \in SUBSET Workers : workers' = [workers EXCEPT !.alive = alive1]
  <2>1. {StartOrder[i] : i \in 1..n} \in SUBSET Workers
    BY StartOrderIs
  <2>2. QED BY <2>1 DEF Started
<1>3. QED BY <1>1, <1>2 DEF WorkerRows

LEMMA RunStarts == ASSUME RunInv, RuntimeStarts \/ StartFails PROVE RunInv'
<1>1. boot.at = "starting" /\ UNCHANGED <<closing, stopping>> /\ ~closing.started /\ ~closing.requested
  BY DEF RuntimeStarts, StartFails, RunInv, RunTypes, Begun, StopsOnce, BootSteps
<1>2. PICK n \in 0..9 : Started(n)
  BY StartOrderIs DEF RuntimeStarts, StartFails
<1>3. workers' \in WorkerRows /\ workers'.stops = 0 /\ workers'.asked = 0 /\ ~workers'.broken
  BY <1>1, <1>2, StartedIs
<1>4. /\ boot' \in [at : BootSteps, error : BOOLEAN]
      /\ (boot'.at = "started" /\ ~boot'.error) \/ (boot'.at = "failed" /\ boot'.error)
  <2>1. boot \in [at : BootSteps, error : BOOLEAN] /\ ~boot.error
    BY <1>1 DEF RunInv, RunTypes, Begun
  <2>2. CASE boot' = [boot EXCEPT !.at = "started"]
    BY <2>1, <2>2 DEF BootSteps
  <2>3. CASE boot' = [at |-> "failed", error |-> TRUE]
    BY <2>3 DEF BootSteps
  <2>4. QED BY <2>2, <2>3 DEF RuntimeStarts, StartFails
<1>5. AsksInOrder'
  BY <1>3 DEF AsksInOrder, AskedBefore
<1>6. RunTypes'
  BY <1>1, <1>3, <1>4 DEF RunInv, RunTypes
<1>7. Begun' /\ StopsOnce' /\ StopIsCalled' /\ WindowGone'
  BY <1>1, <1>3, <1>4 DEF RunInv, Begun, StopsOnce, StopIsCalled, WindowGone
<1>8. QED BY <1>5, <1>6, <1>7 DEF RunInv

LEMMA RunFails == ASSUME RunInv, StopsWhatStarted PROVE RunInv'
<1>1. /\ boot.at = "failed" /\ closing' = closing /\ ~closing.started /\ ~closing.requested /\ boot.error
      /\ workers.stops = 0 /\ RuntimeStops
  BY DEF StopsWhatStarted, RunInv, RunTypes, WorkerRows, Begun, StopsOnce
<1>2. boot' \in [at : BootSteps, error : BOOLEAN] /\ boot'.at = "failing" /\ boot'.error
  BY <1>1 DEF StopsWhatStarted, RunInv, RunTypes, BootSteps
<1>3. QED
  BY <1>1, <1>2, StopBegins DEF RunInv, RunTypes, Begun, StopsOnce, StopIsCalled, WindowGone

LEMMA RunMarks == ASSUME RunInv, MarksStarted PROVE RunInv'
BY DEF RunInv, MarksStarted, RunTypes, Begun, StopsOnce, StopIsCalled, AsksInOrder, AskedBefore, WindowGone, Resting, BootSteps

LEMMA RunLooks == ASSUME RunInv, LooksForCancel PROVE RunInv'
<1>1. boot.at = "looks" /\ closing.started /\ ~boot.error
  BY DEF LooksForCancel, Cancelled, RunInv, Begun
<1>2. CASE ~Cancelled
  BY <1>1, <1>2 DEF LooksForCancel, Cancelled, RunInv, RunTypes, Begun, StopsOnce, StopIsCalled, AsksInOrder, AskedBefore, WindowGone, BootSteps, Resting
<1>3. CASE Cancelled
  <2>1. workers.stops = 0
    BY <1>1, <1>3 DEF Cancelled, RunInv, RunTypes, WorkerRows, StopsOnce
  <2>2. /\ closing' = [closing EXCEPT !.requested = TRUE] /\ RuntimeStops
        /\ boot' = [boot EXCEPT !.at = "stopping"]
    BY <1>3 DEF LooksForCancel
  <2>3. /\ closing' \in [cancelled : BOOLEAN, started : BOOLEAN, requested : BOOLEAN, window : Windows]
        /\ closing'.requested /\ closing'.started /\ closing'.window = closing.window
        /\ closing'.cancelled = closing.cancelled
    BY <1>1, <2>2 DEF RunInv, RunTypes
  <2>4. boot' \in [at : BootSteps, error : BOOLEAN] /\ boot'.at = "stopping" /\ ~boot'.error
    BY <1>1, <2>2 DEF RunInv, RunTypes, BootSteps
  <2>5. closing.window # "stopping"
    BY <1>3 DEF Cancelled, RunInv, StopIsCalled
  <2>6. QED
    BY <2>1, <2>2, <2>3, <2>4, <2>5, StopBegins
    DEF Cancelled, RunInv, RunTypes, Begun, StopsOnce, StopIsCalled, WindowGone
<1>4. QED BY <1>2, <1>3

LEMMA RunCloses == ASSUME RunInv, CloseWindow PROVE RunInv'
BY DEF RunInv, CloseWindow, RunTypes, Begun, StopsOnce, StopIsCalled, AsksInOrder, AskedBefore, WindowGone, Windows

(* A thread that was late ends, or all of them with the process                   *)
LEMMA WorkersEnd ==
    ASSUME RunInv, NEW alive \in SUBSET workers.alive, workers' = [workers EXCEPT !.alive = alive],
           UNCHANGED stopping
    PROVE  workers' \in WorkerRows /\ workers'.stops = workers.stops /\ AsksInOrder'
<1>1. workers \in WorkerRows /\ alive \in SUBSET Workers
  BY DEF RunInv, RunTypes, WorkerRows
<1>2. /\ workers' \in WorkerRows /\ workers'.stops = workers.stops /\ workers'.asked = workers.asked
      /\ workers'.broken = workers.broken /\ workers'.alive \subseteq workers.alive
  BY <1>1 DEF WorkerRows
<1>3. QED BY <1>2 DEF RunInv, AsksInOrder, AskedBefore

LEMMA RunEnds ==
    ASSUME RunInv, ProcessEnds \/ \E w \in Workers : ThreadEnds(w)
    PROVE  RunInv'
<1>1. PICK alive \in SUBSET workers.alive : workers' = [workers EXCEPT !.alive = alive]
  <2>1. CASE ProcessEnds
    BY <2>1 DEF ProcessEnds
  <2>2. CASE \E w \in Workers : ThreadEnds(w)
    <3>1. PICK w \in Workers : ThreadEnds(w)
      BY <2>2
    <3>2. workers.alive \ {w} \in SUBSET workers.alive /\ workers' = [workers EXCEPT !.alive = workers.alive \ {w}]
      BY <3>1 DEF ThreadEnds
    <3>3. QED BY <3>2
  <2>3. QED BY <2>1, <2>2
<1>2. UNCHANGED <<boot, stopping>>
  BY DEF ProcessEnds, ThreadEnds
<1>3. workers' \in WorkerRows /\ workers'.stops = workers.stops /\ AsksInOrder'
  BY <1>1, <1>2, WorkersEnd
<1>4. \/ closing' = closing
      \/ closing.window = "closed" /\ closing' = [closing EXCEPT !.window = "gone"]
  BY DEF ProcessEnds, ThreadEnds
<1>5. QED
  BY <1>2, <1>3, <1>4 DEF RunInv, RunTypes, Begun, StopsOnce, StopIsCalled, WindowGone, Windows

LEMMA RunCancels == ASSUME RunInv, CancelLooks PROVE RunInv'
<1>1. closing.window = "cancelling" /\ boot' = boot
  BY DEF CancelLooks
<1>2. CASE ~(closing.started /\ ~closing.requested)
  BY <1>1, <1>2 DEF CancelLooks, RunInv, RunTypes, Begun, StopsOnce, StopIsCalled, AsksInOrder, AskedBefore, WindowGone, Windows, Resting
<1>3. CASE closing.started /\ ~closing.requested
  <2>1. workers.stops = 0 /\ ~boot.error
    BY <1>3 DEF RunInv, RunTypes, WorkerRows, Begun, StopsOnce
  <2>2. closing' = [closing EXCEPT !.requested = TRUE, !.window = "stopping"] /\ RuntimeStops
    BY <1>3 DEF CancelLooks
  <2>3. /\ closing' \in [cancelled : BOOLEAN, started : BOOLEAN, requested : BOOLEAN, window : Windows]
        /\ closing'.requested /\ closing'.started /\ closing'.window = "stopping"
        /\ closing'.cancelled = closing.cancelled
    BY <1>3, <2>2 DEF RunInv, RunTypes, Windows
  <2>4. boot.at # "stopping"
    BY <1>3 DEF RunInv, StopIsCalled
  <2>5. QED
    BY <1>1, <1>3, <2>1, <2>2, <2>3, <2>4, StopBegins
    DEF RunInv, RunTypes, Begun, StopsOnce, StopIsCalled, WindowGone
<1>4. QED BY <1>2, <1>3

(* The rest of the threads are asked to end: one that raises is the last          *)
LEMMA RestAsked ==
    ASSUME RunInv, RuntimeStopped, stopping["runtime"] # Resting, stopping'["runtime"] = Resting
    PROVE  workers' \in WorkerRows /\ workers'.stops = workers.stops /\ AsksInOrder'
<1>1. RunTypes /\ workers \in WorkerRows /\ workers.stops = 1 /\ workers.asked = 1
  BY DEF RuntimeStopped, RunInv, RunTypes, WorkerRows, Begun, StopsOnce, StopIsCalled, AsksInOrder
<1>2. PICK n \in 1..9 : \E late \in MayOutlive(n) :
        workers' = AskTo(n, late) /\ (n = 9 \/ workers'.broken)
  BY <1>1, StopOrderIs DEF RuntimeStopped
<1>3. PICK late \in MayOutlive(n) : workers' = AskTo(n, late) /\ (n = 9 \/ workers'.broken)
  BY <1>2
<1>4. /\ workers' \in WorkerRows /\ workers'.asked = n /\ workers'.stops = 1
      /\ workers'.alive = (workers.alive \ AskedUpTo(n)) \cup Late \cup late
      /\ \A w \in late : Raises(w) => w = StopOrder[n]
  BY <1>1, <1>3, AskToIs
<1>5. ASSUME NEW w \in workers'.alive, AskedBefore(w)', Raises(w)
      PROVE  FALSE
  <2>1. PICK i \in 1..n, j \in 1..n : i < j /\ StopOrder[i] = w
    BY <1>4, <1>5 DEF AskedBefore
  <2>2. w \in AskedUpTo(n)
    BY <2>1 DEF AskedUpTo
  <2>3. w \notin Late
    <3>1. \A x \in Late : x = StopOrder[1]
      BY <1>1 DEF Late, AskedUpTo
    <3>2. QED BY <1>5, <3>1, StopOrderIs
  <2>4. w \in late
    BY <1>4, <1>5, <2>2, <2>3
  <2>5. StopOrder[i] = StopOrder[n] /\ i \in 1..9 /\ i < n
    BY <1>4, <1>5, <2>1, <2>4
  <2>6. QED BY <2>5, StopOrderIs
<1>6. QED BY <1>1, <1>3, <1>4, <1>5 DEF AsksInOrder

LEMMA RunStopped == ASSUME RunInv, RuntimeStopped PROVE RunInv'
<1>0. "runtime" \in Callers /\ RunTypes /\ Resting \in StopRows
  BY DEF RunInv, Callers, Resting, StopRows, StopSteps
<1>1. stopping["runtime"] # Resting /\ stopping' = [stopping EXCEPT !["runtime"] = Resting]
  BY DEF RuntimeStopped, Resting
<1>2. /\ stopping' \in [Callers -> StopRows] /\ stopping'["runtime"] = Resting
      /\ \A c \in Callers : stopping'[c].at = "idle" => stopping'[c] = Resting
  BY <1>0, <1>1, StopRecord
<1>3. workers' \in WorkerRows /\ workers'.stops = workers.stops /\ AsksInOrder'
  BY <1>1, <1>2, RestAsked
<1>4. CASE boot.at \in {"failing", "stopping"} /\ boot' = [boot EXCEPT !.at = "done"] /\ UNCHANGED closing
  <2>1. boot' \in [at : BootSteps, error : BOOLEAN] /\ boot'.at = "done" /\ boot'.error = boot.error
    BY <1>0, <1>4 DEF RunTypes, BootSteps
  <2>2. closing.window # "stopping"
    BY <1>4 DEF RunInv, StopIsCalled, Begun, StopsOnce
  <2>3. QED
    BY <1>2, <1>3, <1>4, <2>1, <2>2 DEF RunInv, RunTypes, Begun, StopsOnce, StopIsCalled, WindowGone
<1>5. CASE closing.window = "stopping" /\ closing' = [closing EXCEPT !.window = "closed"] /\ UNCHANGED boot
  <2>1. /\ closing' \in [cancelled : BOOLEAN, started : BOOLEAN, requested : BOOLEAN, window : Windows]
        /\ closing'.requested = closing.requested /\ closing'.started = closing.started
        /\ closing'.window = "closed" /\ closing'.cancelled = closing.cancelled
    BY <1>0, <1>5 DEF RunTypes, Windows
  <2>2. closing.requested /\ closing.started /\ boot.at \notin {"stopping", "failing"}
    BY <1>5 DEF RunInv, StopIsCalled, Begun, StopsOnce
  <2>3. QED
    BY <1>2, <1>3, <1>5, <2>1, <2>2 DEF RunInv, RunTypes, Begun, StopsOnce, StopIsCalled, WindowGone
<1>6. QED BY <1>4, <1>5 DEF RuntimeStopped

-----------------------------------------------------------------------------
(* The listeners of the API                                                       *)
ServerSteps == {"starting", "serving", "ending", "closed", "told", "ended"}
ListeningSteps == {"starting", "serving", "ending"}
ApiRows == [state : {"STOPPED", "RUNNING", "STOPPING", "ERROR"}, server : Servers \cup {NoServer},
            thread : Servers \cup {NoServer}]
StopsIt(c) == stopping[c].at \in {"shutdown", "join"}

ApiTypes == servers \in Seq(ServerSteps) /\ Len(servers) <= MaxServers /\ api \in ApiRows
(* Every listener but the one of the thread has ended, and the one of the thread  *)
(* is the one that may be stopped                                                 *)
OthersEnded ==
    /\ api.thread \in DOMAIN servers \cup {NoServer} /\ api.server \in {NoServer, api.thread}
    /\ \A s \in DOMAIN servers : s # api.thread => servers[s] = "ended"
(* One caller at a time stops it, and it is told so meanwhile                     *)
OneStopper ==
    /\ \A c \in Callers : StopsIt(c) =>
        api.state = "STOPPING" /\ api.server # NoServer /\ stopping[c].server = api.server
    /\ \A c, d \in Callers : StopsIt(c) /\ StopsIt(d) => c = d
ToldIsTrue == api.state \in {"STOPPED", "ERROR"} => \A s \in DOMAIN servers : servers[s] \notin ListeningSteps
ApiInv == ApiTypes /\ OthersEnded /\ OneStopper /\ ToldIsTrue

apiVars == <<api, servers, stopping>>

LEMMA ApiUnchanged == ASSUME ApiInv, UNCHANGED apiVars PROVE ApiInv'
BY DEF ApiInv, apiVars, ApiTypes, OthersEnded, OneStopper, StopsIt, ToldIsTrue

LEMMA ApiGone ==
    ASSUME ApiInv, servers' = [s \in DOMAIN servers |-> "ended"], UNCHANGED <<api, stopping>>
    PROVE  ApiInv'
<1>1. servers \in Seq(ServerSteps) /\ DOMAIN servers = 1..Len(servers) /\ Len(servers) \in Nat
  BY DEF ApiInv, ApiTypes
<1>2. servers' \in Seq(ServerSteps) /\ DOMAIN servers' = DOMAIN servers /\ Len(servers') = Len(servers)
      /\ \A s \in DOMAIN servers : servers'[s] = "ended"
  BY <1>1 DEF ServerSteps
<1>3. QED
  BY <1>2 DEF ApiInv, ApiTypes, OthersEnded, OneStopper, StopsIt, ToldIsTrue, ListeningSteps

LEMMA ServersAreNumbers == Servers \subseteq Nat /\ NoServer \notin Servers /\ MaxServers \in Nat
BY AppLifecycleAssumption DEF Servers

LEMMA DomainOfServers == ApiTypes => DOMAIN servers = 1..Len(servers) /\ Len(servers) \in Nat /\ DOMAIN servers \subseteq Servers
                                     /\ \A s \in DOMAIN servers : servers[s] \in ServerSteps
BY AppLifecycleAssumption DEF ApiTypes, Servers

LEMMA ApiInit == Init => ApiInv
<1> SUFFICES ASSUME AppInit PROVE ApiInv
  BY DEF Init
<1>1. servers = <<>> /\ servers \in Seq(ServerSteps) /\ Len(servers) = 0 /\ DOMAIN servers = {}
  BY DEF AppInit
<1>2. api \in ApiRows /\ api.thread = NoServer /\ api.server = NoServer
  BY DEF AppInit, ApiRows
<1>3. \A c \in Callers : stopping[c].at = "idle"
  BY DEF AppInit, Resting
<1>4. QED
  BY <1>1, <1>2, <1>3, AppLifecycleAssumption DEF ApiInv, ApiTypes, OthersEnded, OneStopper, StopsIt, ToldIsTrue

(* start(): no thread is left, or one that has ended                              *)
LEMMA ApiStarts == ASSUME ApiInv, StartApi, stopping' = stopping PROVE ApiInv'
<1>0. ApiTypes /\ OthersEnded /\ OneStopper /\ ToldIsTrue
  BY DEF ApiInv
<1>1. CASE UNCHANGED <<api, servers>>
  BY <1>1, ApiUnchanged DEF apiVars
<1>2. CASE ~UNCHANGED <<api, servers>>
  <2>1. api.state # "STOPPING" /\ ~Alive(api.thread) /\ NewServer \in Servers
    BY <1>2 DEF StartApi
  <2>2. \A s \in DOMAIN servers : servers[s] = "ended"
    BY <1>0, <2>1, ServersAreNumbers, DomainOfServers DEF OthersEnded, Alive
  <2>3. \A c \in Callers : ~StopsIt(c) /\ ~StopsIt(c)'
    BY <1>0, <2>1 DEF OneStopper, StopsIt
  <2>4. CASE servers' = servers /\ \/ api' = [api EXCEPT !.state = "ERROR"]
                                   \/ api' = [NoApi EXCEPT !.state = "ERROR"]
    <3>1. api' \in ApiRows /\ api'.thread \in {api.thread, NoServer} /\ api'.server \in {NoServer, api'.thread}
      BY <1>0, <2>4 DEF ApiTypes, ApiRows, NoApi, OthersEnded
    <3>2. QED
      BY <1>0, <2>2, <2>3, <2>4, <3>1 DEF ApiInv, ApiTypes, OthersEnded, OneStopper, ToldIsTrue, ListeningSteps
  <2>5. CASE /\ servers' = Append(servers, "starting")
             /\ api' = [state |-> "RUNNING", server |-> NewServer, thread |-> NewServer]
    <3>1. Len(servers) \in Nat /\ DOMAIN servers = 1..Len(servers) /\ "starting" \in ServerSteps
      BY <1>0, DomainOfServers DEF ServerSteps
    <3>2. servers' \in Seq(ServerSteps) /\ Len(servers') = Len(servers) + 1
          /\ DOMAIN servers' = 1..(Len(servers) + 1) /\ \A s \in DOMAIN servers : servers'[s] = servers[s]
      BY <1>0, <2>5, <3>1 DEF ApiTypes
    <3>3. Len(servers') <= MaxServers /\ NewServer \in DOMAIN servers' /\ DOMAIN servers' = DOMAIN servers \cup {NewServer}
      BY <2>1, <3>1, <3>2, AppLifecycleAssumption DEF NewServer, Servers
    <3>4. api' \in ApiRows /\ api'.thread = NewServer /\ api'.server = NewServer /\ api'.state = "RUNNING"
      BY <2>1, <2>5 DEF ApiRows
    <3>5. QED
      BY <2>2, <2>3, <3>2, <3>3, <3>4 DEF ApiInv, ApiTypes, OthersEnded, OneStopper, ToldIsTrue
  <2>6. QED BY <1>2, <2>4, <2>5 DEF StartApi
<1>3. QED BY <1>1, <1>2

(* stop(), in each of its callers                                                 *)
LEMMA ApiEnters == ASSUME ApiInv, RunTypes, NEW c \in Callers, EnterStop(c) PROVE ApiInv'
<1>0. ApiTypes /\ OthersEnded /\ OneStopper /\ ToldIsTrue
  BY DEF ApiInv
<1>1. servers' = servers /\ ~StopsIt(c)
  BY DEF EnterStop, StopsIt
<1>2. CASE api.server = NoServer \/ api.state = "STOPPING"
  <2>1. stopping' = [stopping EXCEPT ![c].at = "back"] /\ api' = api
    BY <1>2 DEF EnterStop
  <2>2. ~StopsIt(c)' /\ \A d \in Callers \ {c} : stopping'[d] = stopping[d]
    BY <2>1 DEF StopsIt, RunTypes, StopRows
  <2>3. QED
    BY <1>0, <1>1, <2>1, <2>2 DEF ApiInv, ApiTypes, OthersEnded, OneStopper, ToldIsTrue, StopsIt
<1>3. CASE ~(api.server = NoServer \/ api.state = "STOPPING")
  <2>1. /\ stopping' = [stopping EXCEPT ![c] = [at |-> "shutdown", server |-> api.server]]
        /\ api' = [api EXCEPT !.state = "STOPPING"]
    BY <1>3 DEF EnterStop
  <2>2. stopping'[c].server = api.server /\ \A d \in Callers \ {c} : stopping'[d] = stopping[d]
    BY <2>1 DEF RunTypes
  <2>3. api' \in ApiRows /\ api'.state = "STOPPING" /\ api'.server = api.server /\ api'.thread = api.thread
    BY <1>0, <2>1 DEF ApiTypes, ApiRows
  <2>4. \A d \in Callers : ~StopsIt(d)
    BY <1>0, <1>3 DEF OneStopper
  <2>5. \A d \in Callers \ {c} : ~StopsIt(d)'
    BY <2>2, <2>4 DEF StopsIt
  <2>6. QED
    BY <1>0, <1>1, <1>3, <2>2, <2>3, <2>5 DEF ApiInv, ApiTypes, OthersEnded, OneStopper, ToldIsTrue
<1>4. QED BY <1>2, <1>3

LEMMA ApiShuts == ASSUME ApiInv, RunTypes, NEW c \in Callers, ShutDown(c) PROVE ApiInv'
<1>1. UNCHANGED <<api, servers>> /\ StopsIt(c) /\ stopping' = [stopping EXCEPT ![c].at = "join"]
  BY DEF ShutDown, StopsIt
<1>2. \A d \in Callers : (StopsIt(d)' <=> StopsIt(d)) /\ stopping'[d].server = stopping[d].server
  BY <1>1 DEF StopsIt, RunTypes, StopRows
<1>3. QED BY <1>1, <1>2 DEF ApiInv, ApiTypes, OthersEnded, OneStopper, ToldIsTrue

(* The controller forgets the thread only after its end                           *)
LEMMA ApiJoins == ASSUME ApiInv, RunTypes, NEW c \in Callers, Joined(c) PROVE ApiInv'
<1>0. ApiTypes /\ OthersEnded /\ OneStopper /\ ToldIsTrue
  BY DEF ApiInv
<1>1. StopsIt(c) /\ servers' = servers /\ stopping' = [stopping EXCEPT ![c].at = "back"]
      /\ api' = StoppedApi(stopping[c].server)
  BY DEF Joined, StopsIt
<1>2. api.server # NoServer /\ stopping[c].server = api.server /\ api.server = api.thread
  BY <1>0, <1>1 DEF OneStopper, OthersEnded
<1>3. \A d \in Callers : ~StopsIt(d)'
  BY <1>0, <1>1 DEF OneStopper, StopsIt, RunTypes, StopRows
<1>4. CASE Alive(api.server)
  <2>1. api' = api
    BY <1>1, <1>2, <1>4 DEF StoppedApi
  <2>2. QED BY <1>0, <1>1, <1>3, <2>1 DEF ApiInv, ApiTypes, OthersEnded, OneStopper, ToldIsTrue
<1>5. CASE ~Alive(api.server)
  <2>1. api' = NoApi /\ NoApi \in ApiRows
    BY <1>1, <1>2, <1>5 DEF StoppedApi, NoApi, ApiRows
  <2>2. \A s \in DOMAIN servers : servers[s] = "ended"
    BY <1>0, <1>2, <1>5 DEF OthersEnded, Alive
  <2>3. QED
    BY <1>0, <1>1, <1>3, <2>1, <2>2
    DEF ApiInv, ApiTypes, OthersEnded, OneStopper, ToldIsTrue, NoApi, ListeningSteps
<1>6. QED BY <1>4, <1>5

(* Another step of a caller: it comes to stop(), or goes                          *)
LEMMA ApiCallers ==
    ASSUME ApiInv, \A c \in Callers : stopping'[c] = stopping[c] \/ ~StopsIt(c)', UNCHANGED <<api, servers>>
    PROVE  ApiInv'
BY DEF ApiInv, ApiTypes, OthersEnded, OneStopper, ToldIsTrue, StopsIt

(* The thread of a listener                                                       *)
LEMMA ApiServer ==
    ASSUME ApiInv, NEW s \in DOMAIN servers, servers[s] # "ended",
           NEW step \in ServerSteps, servers' = [servers EXCEPT ![s] = step], stopping' = stopping,
           step \in ListeningSteps => servers[s] \in ListeningSteps,
           \/ api' = api
           \/ /\ api.server = s /\ api.state # "STOPPING" /\ step \notin ListeningSteps
              /\ api' = [api EXCEPT !.state = "ERROR", !.server = NoServer]
    PROVE  ApiInv'
<1>0. ApiTypes /\ OthersEnded /\ OneStopper /\ ToldIsTrue
  BY DEF ApiInv
<1>1. s = api.thread
  BY <1>0 DEF OthersEnded
<1>2. /\ servers' \in Seq(ServerSteps) /\ Len(servers') = Len(servers) /\ DOMAIN servers' = DOMAIN servers
      /\ servers'[s] = step /\ \A t \in DOMAIN servers \ {s} : servers'[t] = servers[t]
  BY <1>0 DEF ApiTypes
<1>3. \A t \in DOMAIN servers \ {s} : servers[t] = "ended"
  BY <1>0, <1>1 DEF OthersEnded
<1>4. CASE api' = api
  BY <1>0, <1>1, <1>2, <1>3, <1>4
  DEF ApiInv, ApiTypes, OthersEnded, OneStopper, ToldIsTrue, StopsIt, ListeningSteps
<1>5. CASE /\ api.server = s /\ api.state # "STOPPING" /\ step \notin ListeningSteps
           /\ api' = [api EXCEPT !.state = "ERROR", !.server = NoServer]
  <2>1. api' \in ApiRows /\ api'.state = "ERROR" /\ api'.server = NoServer /\ api'.thread = api.thread
    BY <1>0, <1>5 DEF ApiTypes, ApiRows
  <2>2. \A c \in Callers : ~StopsIt(c) /\ ~StopsIt(c)'
    BY <1>0, <1>5 DEF OneStopper, StopsIt
  <2>3. QED
    BY <1>0, <1>1, <1>2, <1>3, <1>5, <2>1, <2>2
    DEF ApiInv, ApiTypes, OthersEnded, OneStopper, ToldIsTrue, ListeningSteps
<1>6. QED BY <1>4, <1>5

LEMMA ApiServes ==
    ASSUME ApiInv, NEW s \in DOMAIN servers, ServerStep(s) \/ ServerBreaks(s)
    PROVE  ApiInv'
<1>1. CASE Serves(s)
  BY <1>1, ApiServer DEF Serves, ServerSteps, ListeningSteps
<1>2. CASE EndsServing(s) \/ ServerBreaks(s)
  BY <1>2, ApiServer DEF EndsServing, ServerBreaks, ServerSteps, ListeningSteps
<1>3. CASE ClosesServer(s)
  BY <1>3, ApiServer DEF ClosesServer, ServerSteps, ListeningSteps
<1>4. CASE TellsItsEnd(s)
  <2>1. "told" \in ServerSteps /\ "told" \notin ListeningSteps /\ servers[s] # "ended"
        /\ servers' = [servers EXCEPT ![s] = "told"] /\ stopping' = stopping
    BY <1>4 DEF TellsItsEnd, ServerSteps, ListeningSteps
  <2>2. \/ api' = api
        \/ /\ api.server = s /\ api.state # "STOPPING"
           /\ api' = [api EXCEPT !.state = "ERROR", !.server = NoServer]
    BY <1>4 DEF TellsItsEnd
  <2>3. QED BY <2>1, <2>2, ApiServer
<1>5. CASE EndsThread(s)
  BY <1>5, ApiServer DEF EndsThread, ServerSteps, ListeningSteps
<1>6. QED BY <1>1, <1>2, <1>3, <1>4, <1>5 DEF ServerStep

-----------------------------------------------------------------------------
(* The session as a whole                                                         *)
SessionInv == RunInv /\ ApiInv
sessionVars == <<boot, closing, workers, stopping, api, servers>>

LEMMA ApiServerRow == ApiInv => api.server \in Servers \cup {NoServer}
BY DEF ApiInv, ApiTypes, ApiRows

LEMMA SessionCalls ==
    ASSUME SessionInv, NEW c \in Callers, EnterStop(c) \/ ShutDown(c) \/ Joined(c)
    PROVE  SessionInv'
BY RunCalls, ApiServerRow, ApiEnters, ApiShuts, ApiJoins DEF SessionInv, RunInv

(* The runtime, the window and the page come to stop() and go                     *)
LEMMA SessionRuns ==
    ASSUME SessionInv,
           Startup \/ CloseWindow \/ CancelLooks \/ RuntimeStopped \/ StopReturns
    PROVE  SessionInv'
<1>0. RunTypes /\ "runtime" \in Callers /\ "page" \in Callers
  BY DEF SessionInv, RunInv, Callers
<1>1. RunInv'
  BY RunStarts, RunFails, RunMarks, RunLooks, RunCloses, RunCancels, RunStopped, RunPage
  DEF SessionInv, Startup
<1>2. UNCHANGED <<api, servers>>
  BY DEF Startup, RuntimeStarts, StartFails, StopsWhatStarted, MarksStarted, LooksForCancel, CloseWindow,
         CancelLooks, RuntimeStopped, StopReturns
<1>3. \/ stopping' = stopping
      \/ \E c \in Callers : stopping' = [stopping EXCEPT ![c] = Resting]
      \/ stopping' = [stopping EXCEPT !["runtime"] = [at |-> "enter", server |-> NoServer]]
  BY <1>0 DEF Startup, RuntimeStarts, StartFails, StopsWhatStarted, MarksStarted, LooksForCancel, CloseWindow,
         CancelLooks, RuntimeStopped, StopReturns, RuntimeStops
<1>4. \A c \in Callers : stopping'[c] = stopping[c] \/ ~StopsIt(c)'
  BY <1>0, <1>3 DEF StopsIt, RunTypes, Resting
<1>5. QED BY <1>1, <1>2, <1>4, ApiCallers DEF SessionInv

(* Threads end, and with the process all that listens                             *)
LEMMA SessionEnds ==
    ASSUME SessionInv, ProcessEnds \/ \E w \in Workers : ThreadEnds(w)
    PROVE  SessionInv'
<1>1. RunInv'
  BY RunEnds DEF SessionInv
<1>2. CASE UNCHANGED apiVars
  BY <1>1, <1>2, ApiUnchanged DEF SessionInv
<1>3. CASE ProcessEnds
  BY <1>1, <1>3, ApiGone DEF SessionInv, ProcessEnds
<1>4. QED BY <1>2, <1>3 DEF ThreadEnds, apiVars

LEMMA SessionPage ==
    ASSUME SessionInv, PageStep
    PROVE  SessionInv'
<1>0. RunTypes /\ "page" \in Callers
  BY DEF SessionInv, RunInv, Callers
<1>1. CASE Operates
  <2>1. RunInv'
    BY <1>1, RunPage DEF SessionInv
  <2>2. \/ stopping' = [stopping EXCEPT !["page"].at = "enter"] /\ UNCHANGED <<api, servers>>
        \/ (StartApi \/ UNCHANGED <<api, servers>>) /\ stopping' = stopping
    BY <1>1 DEF Operates
  <2>3. stopping' = [stopping EXCEPT !["page"].at = "enter"] =>
          \A c \in Callers : stopping'[c] = stopping[c] \/ ~StopsIt(c)'
    BY <1>0 DEF StopsIt, RunTypes, StopRows
  <2>4. QED BY <2>1, <2>2, <2>3, ApiCallers, ApiStarts, ApiUnchanged DEF SessionInv, apiVars
<1>2. CASE Snapshot \/ PollServices \/ AfterIdle
  <2>1. UNCHANGED runVars /\ UNCHANGED apiVars
    BY <1>2 DEF Snapshot, PollServices, AfterIdle, runVars, apiVars
  <2>2. QED BY <2>1, RunUnchanged, ApiUnchanged DEF SessionInv
<1>3. QED BY <1>1, <1>2 DEF PageStep

LEMMA SessionNext == SessionInv /\ [Next]_vars => SessionInv'
<1> SUFFICES ASSUME SessionInv, [Next]_vars PROVE SessionInv'
  OBVIOUS
<1>1. CASE AppNext
  <2>1. CASE Startup \/ CloseWindow \/ CancelLooks
    BY <2>1, SessionRuns
  <2>2. CASE \E c \in Callers : StopStep(c)
    BY <2>2, SessionCalls, SessionRuns DEF StopStep
  <2>3. CASE PageStep
    BY <2>3, SessionPage
  <2>4. CASE FinishStartup \/ RefreshServices \/ \E kind \in {"start", "stop"} : ChangeApi(kind)
    <3>1. UNCHANGED runVars /\ UNCHANGED apiVars
      BY <2>4 DEF FinishStartup, RefreshServices, ChangeApi, runVars, apiVars
    <3>2. QED BY <3>1, RunUnchanged, ApiUnchanged DEF SessionInv
  <2>5. CASE \E s \in DOMAIN servers : ServerStep(s) \/ ServerBreaks(s)
    <3>1. UNCHANGED runVars
      BY <2>5 DEF ServerStep, Serves, EndsServing, ServerBreaks, ClosesServer, TellsItsEnd, EndsThread, runVars
    <3>2. QED BY <2>5, <3>1, RunUnchanged, ApiServes DEF SessionInv
  <2>6. CASE ProcessEnds \/ \E w \in Workers : ThreadEnds(w)
    BY <2>6, SessionEnds
  <2>7. QED BY <1>1, <2>1, <2>2, <2>3, <2>4, <2>5, <2>6 DEF AppNext
<1>2. CASE UNCHANGED sessionVars
  BY <1>2, RunUnchanged, ApiUnchanged DEF SessionInv, sessionVars, runVars, apiVars
<1>3. IndexScene \/ QueryScene \/ ScreenScene \/ CopyScene \/ UNCHANGED vars => UNCHANGED sessionVars
  BY DEF IndexScene, QueryScene, ScreenScene, CopyScene, Scene, vars, sessionScenes, appVars, sessionVars
<1>4. QED BY <1>1, <1>2, <1>3 DEF Next

LEMMA SessionKept == SessionInv => OneListener /\ OneStop
<1> SUFFICES ASSUME SessionInv PROVE OneListener /\ OneStop
  OBVIOUS
<1>1. OneStop
  <2>1. workers \in WorkerRows /\ workers.stops <= 1 /\ (boot.at = "starting" => workers.stops = 0)
    BY DEF SessionInv, RunInv, RunTypes, WorkerRows, Begun, StopsOnce
  <2>2. ASSUME StopIsOver PROVE workers.asked = 9 \/ workers.broken
    <3>1. workers.stops = 1
      BY <2>2 DEF StopIsOver, SessionInv, RunInv, Begun, StopsOnce, WindowGone
    <3>2. stopping["runtime"] = Resting
      BY <2>2 DEF StopIsOver, SessionInv, RunInv, RunTypes, Callers
    <3>3. QED BY <3>1, <3>2 DEF SessionInv, RunInv, AsksInOrder
  <2>3. \A w \in workers.alive : AskedBefore(w) => w \notin {"broker", "rescan", "ingestion"}
    BY DEF SessionInv, RunInv, AsksInOrder, Raises
  <2>4. QED BY <2>1, <2>2, <2>3, StopOrderIs DEF OneStop
<1>2. Listening \subseteq {api.thread}
  BY DEF SessionInv, ApiInv, OthersEnded, Listening
<1>3. Cardinality(Listening) <= 1
  <2>1. IsFiniteSet({api.thread}) /\ Cardinality({api.thread}) = 1
    BY FS_Singleton
  <2>2. Cardinality(Listening) <= Cardinality({api.thread})
    BY <1>2, <2>1, FS_Subset
  <2>3. QED BY <2>1, <2>2
<1>4. api.state \in {"STOPPED", "ERROR"} => Listening = {}
  BY DEF SessionInv, ApiInv, ToldIsTrue, ListeningSteps, Listening
<1>5. QED BY <1>1, <1>3, <1>4 DEF OneListener

-----------------------------------------------------------------------------
(* The screen                                                                     *)
Readings == [at : {"idle", "queued", "reading", "read", "stored"}, value : Nat, failed : BOOLEAN,
             after : BOOLEAN, late : BOOLEAN, since : Nat]
Remembered == [value : Nat, failed : BOOLEAN]

ScreenTypes ==
    /\ data \in Nat /\ shown \in Nat /\ acted \in Nat /\ lapses \in Nat
    /\ thread \in Readings /\ direct \in Readings
    /\ memory # NoEntry => memory \in Remembered
    /\ acted <= data /\ direct.since <= data
(* Nothing read is from before what the person did, but what will be told late    *)
InOrder ==
    /\ ~thread.failed /\ shown >= acted
    /\ memory # NoEntry => memory.value >= acted
    /\ direct.at = "read" => direct.value >= direct.since
    /\ thread.at = "read" /\ ~thread.late => thread.value >= acted
    /\ Going(direct) /\ thread.at = "read" /\ thread.after => thread.value >= direct.since
    /\ Going(direct) /\ direct.late =>
        /\ memory # NoEntry => memory.value >= direct.since
        /\ Going(thread) => thread.after
    /\ Going(direct) /\ Going(thread) /\ thread.after => ~thread.late
ScreenInv == ScreenTypes /\ (lapses = 0 => InOrder)

LEMMA ScreenUnchanged == ASSUME ScreenInv, UNCHANGED screenVars PROVE ScreenInv'
BY DEF ScreenInv, screenVars, ScreenTypes, InOrder, Going

LEMMA UnreadFacts == Unread \in Readings /\ Unread.at = "idle" /\ ~Unread.failed /\ ~Unread.late /\ Unread.since = 0
BY DEF Unread, Readings

LEMMA ScreenAtStart == Init => ScreenInv
BY UnreadFacts DEF Init, ScreenInit, ScreenInv, ScreenTypes, InOrder, Going

LEMMA ScreenData == ASSUME ScreenInv, DataChanges PROVE ScreenInv'
<1>1. data' = data + 1 /\ UNCHANGED <<memory, thread, direct, shown, acted, lapses>>
  BY DEF DataChanges
<1>2. ScreenTypes'
  BY <1>1 DEF ScreenInv, ScreenTypes, Readings
<1>3. QED BY <1>1, <1>2 DEF ScreenInv, InOrder, Going

(* A reading at once starts: what the thread reads started before it              *)
LEMMA ScreenDirect ==
    ASSUME ScreenInv, StartsDirect, UNCHANGED <<data, memory, shown, acted, lapses>>
    PROVE  ScreenInv'
<1>1. direct' \in Readings /\ direct'.at = "reading" /\ direct'.since = data /\ ~direct'.late
  BY DEF StartsDirect, Unread, Readings, ScreenInv, ScreenTypes
<1>2. /\ thread' \in Readings /\ thread'.at = thread.at /\ thread'.value = thread.value /\ ~thread'.after
      /\ thread'.failed = thread.failed /\ thread'.late = thread.late
  BY DEF StartsDirect, Readings, ScreenInv, ScreenTypes
<1>3. ScreenTypes'
  BY <1>1, <1>2 DEF ScreenInv, ScreenTypes
<1>4. lapses = 0 => InOrder'
  BY <1>1, <1>2 DEF ScreenInv, InOrder, Going
<1>5. QED BY <1>3, <1>4 DEF ScreenInv

LEMMA ScreenRefreshed == ASSUME ScreenInv, ReadsAtOnce \/ RefreshScreen PROVE ScreenInv'
<1>1. CASE ReadsAtOnce \/ (RefreshScreen /\ memory = NoEntry)
  <2>1. StartsDirect /\ UNCHANGED <<data, memory, shown, acted, lapses>>
    BY <1>1 DEF ReadsAtOnce, RefreshScreen
  <2>2. QED BY <2>1, ScreenDirect
<1>2. CASE RefreshScreen /\ memory # NoEntry
  <2>1. /\ direct.at = "idle" /\ direct' = direct /\ UNCHANGED <<data, acted, lapses>>
        /\ memory' = [memory EXCEPT !.failed = FALSE]
        /\ shown' = IF memory.failed THEN shown ELSE memory.value
        /\ thread' = IF thread.at = "idle" THEN [Unread EXCEPT !.at = "queued"] ELSE thread
    BY <1>2 DEF RefreshScreen
  <2>2. memory' \in Remembered /\ memory'.value = memory.value /\ memory.value \in Nat
    BY <1>2, <2>1 DEF ScreenInv, ScreenTypes, Remembered
  <2>3. thread' = thread \/ (thread' \in Readings /\ thread'.at = "queued" /\ ~thread'.failed)
    BY <2>1 DEF Unread, Readings
  <2>4. ScreenTypes'
    BY <2>1, <2>2, <2>3 DEF ScreenInv, ScreenTypes
  <2>5. lapses = 0 => InOrder'
    BY <1>2, <2>1, <2>2, <2>3 DEF ScreenInv, InOrder, Going
  <2>6. QED BY <2>1, <2>4, <2>5 DEF ScreenInv
<1>3. QED BY <1>1, <1>2

LEMMA LapseCounts == ASSUME ScreenInv, Lapses PROVE lapses' \in Nat /\ lapses' # 0
BY DEF Lapses, ScreenInv, ScreenTypes

LEMMA ScreenReadsDirect == ASSUME ScreenInv, ReadsDirect PROVE ScreenInv'
<1>1. direct.at = "reading" /\ UNCHANGED <<data, memory, thread, shown, acted>>
  BY DEF ReadsDirect
<1>2. CASE direct' = Finds(direct) /\ UNCHANGED lapses
  <2>1. /\ direct' \in Readings /\ direct'.at = "read" /\ direct'.value = data /\ direct'.since = direct.since
        /\ direct'.late = direct.late
    BY <1>2 DEF Finds, Readings, ScreenInv, ScreenTypes
  <2>2. ScreenTypes'
    BY <1>1, <1>2, <2>1 DEF ScreenInv, ScreenTypes
  <2>3. lapses = 0 => InOrder'
    BY <1>1, <1>2, <2>1 DEF ScreenInv, ScreenTypes, InOrder, Going
  <2>4. QED BY <1>2, <2>2, <2>3 DEF ScreenInv
<1>3. CASE direct' = Unread /\ Lapses
  BY <1>1, <1>3, UnreadFacts, LapseCounts DEF ScreenInv, ScreenTypes
<1>4. QED BY <1>2, <1>3 DEF ReadsDirect

(* What is stored is told to the reading of the thread that started before        *)
LEMMA ScreenStoresDirect == ASSUME ScreenInv, StoresDirect PROVE ScreenInv'
<1>1. /\ direct.at = "read" /\ direct' = Unread /\ shown' = direct.value /\ acted' = direct.since
      /\ UNCHANGED <<data, lapses>>
  BY DEF StoresDirect
<1>2. direct.value \in Nat /\ direct.since \in Nat /\ Going(direct)
  BY <1>1 DEF ScreenInv, ScreenTypes, Readings, Going
<1>3. CASE direct.late
  <2>1. UNCHANGED <<memory, thread>>
    BY <1>3 DEF StoresDirect
  <2>2. ScreenTypes'
    BY <1>1, <1>2, <2>1, UnreadFacts DEF ScreenInv, ScreenTypes
  <2>3. lapses = 0 => InOrder'
    BY <1>1, <1>2, <1>3, <2>1, UnreadFacts DEF ScreenInv, InOrder, Going
  <2>4. QED BY <1>1, <2>2, <2>3 DEF ScreenInv
<1>4. CASE ~direct.late
  <2>1. /\ memory' = [value |-> direct.value, failed |-> FALSE]
        /\ thread' = IF Going(thread) /\ ~thread.after THEN [thread EXCEPT !.late = TRUE] ELSE thread
    BY <1>4 DEF StoresDirect
  <2>2. memory' \in Remembered /\ memory'.value = direct.value
    BY <1>2, <2>1 DEF Remembered
  <2>3. /\ thread' \in Readings /\ thread'.at = thread.at /\ thread'.value = thread.value
        /\ thread'.failed = thread.failed /\ thread'.after = thread.after
        /\ Going(thread) /\ ~thread.after => thread'.late
        /\ ~(Going(thread) /\ ~thread.after) => thread'.late = thread.late
    BY <2>1 DEF ScreenInv, ScreenTypes, Readings
  <2>4. ScreenTypes'
    BY <1>1, <1>2, <2>2, <2>3, UnreadFacts DEF ScreenInv, ScreenTypes
  <2>5. lapses = 0 => InOrder'
    BY <1>1, <1>2, <2>2, <2>3, UnreadFacts DEF ScreenInv, InOrder, Going
  <2>6. QED BY <1>1, <2>4, <2>5 DEF ScreenInv
<1>5. QED BY <1>3, <1>4

LEMMA ScreenTakes == ASSUME ScreenInv, TakesRequest \/ Discards PROVE ScreenInv'
<1>1. UNCHANGED <<data, memory, direct, shown, acted, lapses>> /\ thread.at \in {"queued", "stored"}
  BY DEF TakesRequest, Discards
<1>2. /\ thread' \in Readings /\ thread'.at \in {"idle", "reading"} /\ ~thread'.failed /\ ~thread'.late
      /\ thread'.at = "reading" => thread'.after = Going(direct)
  <2>1. PICK going \in BOOLEAN : going = Going(direct)
    <3>1. Going(direct) \in BOOLEAN
      BY DEF Going
    <3>2. QED BY <3>1, Zenon
  <2>2. CASE TakesRequest
    <3>1. thread' = [at |-> "reading", value |-> 0, failed |-> FALSE, after |-> going, late |-> FALSE, since |-> 0]
      BY <2>1, <2>2 DEF TakesRequest, Unread
    <3>2. QED BY <2>1, <3>1 DEF Readings
  <2>3. CASE Discards
    BY <2>3, UnreadFacts DEF Discards
  <2>4. QED BY <2>2, <2>3
<1>3. ScreenTypes'
  BY <1>1, <1>2 DEF ScreenInv, ScreenTypes
<1>4. lapses = 0 => InOrder'
  BY <1>1, <1>2 DEF ScreenInv, InOrder, Going
<1>5. QED BY <1>1, <1>3, <1>4 DEF ScreenInv

LEMMA ScreenReadsBehind == ASSUME ScreenInv, ReadsBehind PROVE ScreenInv'
<1>1. thread.at = "reading" /\ UNCHANGED <<data, memory, direct, shown, acted>>
  BY DEF ReadsBehind
<1>2. CASE thread' = Finds(thread) /\ UNCHANGED lapses
  <2>1. /\ thread' \in Readings /\ thread'.at = "read" /\ thread'.value = data /\ thread'.failed = thread.failed
        /\ thread'.late = thread.late /\ thread'.after = thread.after
    BY <1>2 DEF Finds, Readings, ScreenInv, ScreenTypes
  <2>2. ScreenTypes'
    BY <1>1, <1>2, <2>1 DEF ScreenInv, ScreenTypes
  <2>3. lapses = 0 => InOrder'
    BY <1>1, <1>2, <2>1 DEF ScreenInv, ScreenTypes, Readings, InOrder, Going
  <2>4. QED BY <1>2, <2>2, <2>3 DEF ScreenInv
<1>3. CASE thread' = FailsReading(thread) /\ Lapses
  <2>1. thread' \in Readings
    BY <1>3 DEF FailsReading, Readings, ScreenInv, ScreenTypes
  <2>2. QED BY <1>1, <1>3, <2>1, LapseCounts DEF ScreenInv, ScreenTypes
<1>4. QED BY <1>2, <1>3 DEF ReadsBehind

LEMMA ScreenStoresBehind == ASSUME ScreenInv, StoresBehind PROVE ScreenInv'
<1>1. thread.at = "read" /\ thread' = [Unread EXCEPT !.at = "stored"] /\ memory' = KeptValue
      /\ UNCHANGED <<data, shown, acted, lapses>>
  BY DEF StoresBehind
<1>2. thread' \in Readings /\ thread'.at = "stored" /\ ~thread'.failed
  BY <1>1 DEF Unread, Readings
<1>3. /\ direct' \in Readings /\ direct'.at = direct.at /\ direct'.value = direct.value /\ direct'.since = direct.since
      /\ direct'.late => direct.late \/ (Going(direct) /\ thread.after)
  BY DEF StoresBehind, Readings, ScreenInv, ScreenTypes
<1>4. thread.value \in Nat /\ direct.since \in Nat
  BY DEF ScreenInv, ScreenTypes, Readings
<1>5. memory' # NoEntry => memory' \in Remembered
  <2>1. CASE thread.late \/ (thread.failed /\ memory = NoEntry)
    BY <1>1, <2>1 DEF KeptValue, ScreenInv, ScreenTypes
  <2>2. CASE ~(thread.late \/ (thread.failed /\ memory = NoEntry)) /\ thread.failed
    <3>1. memory \in Remembered /\ memory' = [memory EXCEPT !.failed = TRUE]
      BY <1>1, <2>2 DEF KeptValue, ScreenInv, ScreenTypes
    <3>2. QED BY <3>1 DEF Remembered
  <2>3. CASE ~thread.late /\ ~thread.failed
    BY <1>1, <1>4, <2>3 DEF KeptValue, Remembered
  <2>4. QED BY <2>1, <2>2, <2>3
<1>6. ScreenTypes'
  BY <1>1, <1>2, <1>3, <1>5 DEF ScreenInv, ScreenTypes
<1>7. ASSUME lapses = 0 PROVE InOrder'
  <2>1. InOrder /\ ~thread.failed
    BY <1>7 DEF ScreenInv, InOrder
  <2>2. CASE thread.late
    <3>1. memory' = memory
      BY <1>1, <2>2 DEF KeptValue
    <3>2. ~(Going(direct) /\ thread.after)
      BY <1>1, <2>1, <2>2 DEF InOrder, Going
    <3>3. QED BY <1>1, <1>2, <1>3, <2>1, <3>1, <3>2 DEF InOrder, Going
  <2>3. CASE ~thread.late
    <3>1. memory' = [value |-> thread.value, failed |-> FALSE]
      BY <1>1, <2>1, <2>3 DEF KeptValue
    <3>2. memory'.value = thread.value
      BY <3>1
    <3>3. QED BY <1>1, <1>2, <1>3, <1>4, <2>1, <2>3, <3>2 DEF InOrder, Going
  <2>4. QED BY <2>2, <2>3
<1>8. QED BY <1>1, <1>6, <1>7 DEF ScreenInv

LEMMA ScreenEvicted == ASSUME ScreenInv, Evicted PROVE ScreenInv'
<1>1. /\ memory' = NoEntry /\ UNCHANGED <<data, shown, acted>>
      /\ thread' = [thread EXCEPT !.late = FALSE] /\ direct' = [direct EXCEPT !.late = FALSE]
  BY DEF Evicted
<1>2. thread' \in Readings /\ direct' \in Readings /\ direct'.since = direct.since
  BY <1>1 DEF Readings, ScreenInv, ScreenTypes
<1>3. lapses' \in Nat /\ lapses' # 0
  BY LapseCounts DEF Evicted
<1>4. QED BY <1>1, <1>2, <1>3 DEF ScreenInv, ScreenTypes

LEMMA ScreenKept == ScreenInv /\ [Next]_vars => ScreenInv'
<1> SUFFICES ASSUME ScreenInv, [Next]_vars PROVE ScreenInv'
  OBVIOUS
<1>1. CASE ScreenNext
  BY <1>1, ScreenData, ScreenRefreshed, ScreenReadsDirect, ScreenStoresDirect, ScreenTakes, ScreenReadsBehind,
     ScreenStoresBehind, ScreenEvicted DEF ScreenNext, ReadsInWindow, ReadsInThread
<1>2. IndexScene \/ QueryScene \/ SessionScene \/ CopyScene \/ UNCHANGED vars => UNCHANGED screenVars
  BY DEF IndexScene, QueryScene, SessionScene, CopyScene, Scene, vars, sessionScenes
<1>3. QED BY <1>1, <1>2, ScreenUnchanged DEF Next, ScreenScene

LEMMA ScreenSeen == ScreenInv => NothingUnseen
BY DEF ScreenInv, InOrder, NothingUnseen

-----------------------------------------------------------------------------
(* The copies                                                                     *)
CopyFolders == {"completed", "rejected", "processing"}
CopyFiles == CopyFolders \X Docs
CopySteps == {"list", "hash", "zip", "replace", "rotate"}
BegunCopies == [at : CopySteps, rows : [Docs -> CopyFolders], listed : SUBSET CopyFiles, moved : SUBSET Docs, folder : 1..4]
NoneBegun == [at : {"idle"}, rows : {<<>>}, listed : {{}}, moved : SUBSET Docs]
Copies == [rows : [Docs -> CopyFolders], files : SUBSET (CopyFiles \cup {Database}), moved : SUBSET Docs, whole : BOOLEAN]
Places == [Docs -> [file : CopyFolders, row : CopyFolders]]
CopyTypes ==
    /\ place \in Places
    /\ copying \in BegunCopies \/ copying \in NoneBegun
    /\ copies \in Seq(Copies)
    /\ root \in [at : {"empty", "write", "stopped", "restored"}, copy : Copies \cup {NoCopy},
                 files : SUBSET (CopyFiles \cup {Database})]
(* A file nobody moves is where its row said, and it is in the list once its      *)
(* folder has been read                                                           *)
ListHas(d) ==
    /\ copying.at = "list" =>
        /\ copying.folder \in 1..3 /\ place[d].file = copying.rows[d]
        /\ \A f \in 1..3 : f < copying.folder /\ copying.rows[d] = FULL_BACKUP_FOLDERS[f] =>
              <<copying.rows[d], d>> \in copying.listed
    /\ copying.at # "list" => <<copying.rows[d], d>> \in copying.listed
ListGrows == copying \in BegunCopies =>
    /\ copying.at = "list" => copying.folder \in 1..3
    /\ \A d \in Docs \ copying.moved : ListHas(d)
RestoresOne ==
    /\ root.at \in {"write", "restored"} => root.copy \in Copies /\ HasItsFiles(root.copy) /\ root.files \subseteq root.copy.files
    /\ root.at = "restored" => root.files = root.copy.files
MadeWhole == \A i \in DOMAIN copies : HasItsFiles(copies[i])
CopyInv == CopyTypes /\ ListGrows /\ MadeWhole /\ RestoresOne

LEMMA ListedFolders ==
    /\ Len(FULL_BACKUP_FOLDERS) = 3 /\ Range(FULL_BACKUP_FOLDERS) = CopyFolders
    /\ \A folder \in CopyFolders : \E f \in 1..3 : folder = FULL_BACKUP_FOLDERS[f]
<1>1. Len(FULL_BACKUP_FOLDERS) = 3
  BY DEF FULL_BACKUP_FOLDERS
<1>2. DOMAIN FULL_BACKUP_FOLDERS = 1..3
  BY DEF FULL_BACKUP_FOLDERS
<1>3. FULL_BACKUP_FOLDERS[1] = "completed" /\ FULL_BACKUP_FOLDERS[2] = "rejected" /\ FULL_BACKUP_FOLDERS[3] = "processing"
  BY DEF FULL_BACKUP_FOLDERS
<1>4. Range(FULL_BACKUP_FOLDERS) = CopyFolders
  BY <1>2, <1>3 DEF Range, CopyFolders
<1>5. \A folder \in CopyFolders : \E f \in 1..3 : folder = FULL_BACKUP_FOLDERS[f]
  BY <1>3 DEF CopyFolders
<1>6. QED BY <1>1, <1>4, <1>5

LEMMA CopyUnchanged == ASSUME CopyInv, UNCHANGED backupVars PROVE CopyInv'
BY DEF CopyInv, backupVars, CopyTypes, ListGrows, ListHas, MadeWhole, RestoresOne

LEMMA CopyAtStart == Init => CopyInv
<1> SUFFICES ASSUME BackupsInit PROVE CopyInv
  BY DEF Init
<1>1. place \in Places
  BY DEF BackupsInit, Places, CopyFolders
<1>2. copying \in NoneBegun /\ copying \notin BegunCopies
  BY DEF BackupsInit, NoneGoing, NoneBegun, BegunCopies, CopySteps
<1>3. copies \in Seq(Copies) /\ DOMAIN copies = {}
  BY DEF BackupsInit
<1>4. root \in [at : {"empty", "write", "stopped", "restored"}, copy : Copies \cup {NoCopy},
                 files : SUBSET (CopyFiles \cup {Database})] /\ root.at = "empty"
  BY DEF BackupsInit, EmptyRoot
<1>5. QED BY <1>1, <1>2, <1>3, <1>4 DEF CopyInv, CopyTypes, ListGrows, MadeWhole, RestoresOne

(* A move of a file, and the record of it: the copy no longer speaks for it       *)
LEMMA CopyMoves ==
    ASSUME CopyInv, NEW d \in Docs, RecordsMove(d) \/ (\E f \in CopyFolders : MovesFile(d, f))
    PROVE  CopyInv'
<1>1. UNCHANGED <<copies, root>> /\ copying' = [copying EXCEPT !.moved = @ \cup {d}]
  BY DEF RecordsMove, MovesFile, AlsoMoved
<1>2. place' \in Places /\ \A e \in Docs \ {d} : place'[e] = place[e]
  <2>1. place \in Places
    BY DEF CopyInv, CopyTypes
  <2>2. CASE RecordsMove(d)
    BY <2>1, <2>2 DEF RecordsMove, Places
  <2>3. ASSUME NEW f \in CopyFolders, MovesFile(d, f) PROVE place' \in Places /\ \A e \in Docs \ {d} : place'[e] = place[e]
    BY <2>1, <2>3 DEF MovesFile, Places
  <2>4. QED BY <2>2, <2>3
<1>3. CASE copying \in BegunCopies
  <2>1. /\ copying' \in BegunCopies /\ copying'.at = copying.at /\ copying'.rows = copying.rows
        /\ copying'.listed = copying.listed /\ copying'.folder = copying.folder /\ copying'.moved = copying.moved \cup {d}
    BY <1>1, <1>3 DEF BegunCopies
  <2>2. ListGrows'
    BY <1>2, <1>3, <2>1 DEF CopyInv, ListGrows, ListHas
  <2>3. QED BY <1>1, <1>2, <2>1, <2>2 DEF CopyInv, CopyTypes, MadeWhole, RestoresOne
<1>4. CASE copying \in NoneBegun
  <2>1. copying' \in NoneBegun
    BY <1>1, <1>4 DEF NoneBegun
  <2>2. copying' \notin BegunCopies
    BY <2>1 DEF NoneBegun, BegunCopies, CopySteps
  <2>3. QED BY <1>1, <1>2, <2>1, <2>2 DEF CopyInv, CopyTypes, ListGrows, MadeWhole, RestoresOne
<1>5. QED BY <1>3, <1>4 DEF CopyInv, CopyTypes

LEMMA NoneGoingFacts == NoneGoing \in NoneBegun /\ NoneGoing \notin BegunCopies
BY DEF NoneGoing, NoneBegun, BegunCopies, CopySteps

LEMMA CopySnapshots == ASSUME CopyInv, Snapshots PROVE CopyInv'
<1> DEFINE M == {d \in Docs : place[d].file # place[d].row}
           R == [d \in Docs |-> place[d].row]
<1>1. UNCHANGED <<place, copies, root>> /\ place \in Places
  BY DEF Snapshots, CopyInv, CopyTypes
<1>2. copying' = [at |-> "list", rows |-> R, listed |-> {}, moved |-> M, folder |-> 1]
  BY DEF Snapshots
<1>3. R \in [Docs -> CopyFolders] /\ \A d \in Docs \ M : R[d] = place[d].file
  BY <1>1 DEF Places
<1>4. M \in SUBSET Docs
  OBVIOUS
<1> HIDE DEF M, R
<1>5. /\ copying' \in BegunCopies /\ copying'.at = "list" /\ copying'.rows = R /\ copying'.listed = {}
      /\ copying'.moved = M /\ copying'.folder = 1
  BY <1>2, <1>3, <1>4 DEF BegunCopies, CopySteps
<1>6. ListGrows'
  BY <1>1, <1>3, <1>5 DEF ListGrows, ListHas
<1>7. QED BY <1>1, <1>5, <1>6 DEF CopyInv, CopyTypes, MadeWhole, RestoresOne

LEMMA CopyBegun == CopyInv /\ copying.at \in CopySteps => copying \in BegunCopies
BY DEF CopyInv, CopyTypes, NoneBegun, CopySteps

LEMMA CopyLists == ASSUME CopyInv, ListsFolder PROVE CopyInv'
<1>1. UNCHANGED <<place, copies, root>> /\ place \in Places /\ copying.at = "list"
  BY DEF ListsFolder, CopyInv, CopyTypes
<1>2. copying \in BegunCopies /\ copying.folder \in 1..3
  BY <1>1, CopyBegun DEF CopySteps, CopyInv, ListGrows
<1>3. PICK f \in 1..3 : f = copying.folder
  BY <1>2
<1>4. PICK folder \in CopyFolders : folder = FULL_BACKUP_FOLDERS[f]
  BY ListedFolders DEF CopyFolders, FULL_BACKUP_FOLDERS
<1>5. PICK found \in SUBSET CopyFiles : found = {<<folder, d>> : d \in {d \in Docs : place[d].file = folder}}
  <2>1. \A d \in Docs : <<folder, d>> \in CopyFiles
    BY <1>4 DEF CopyFiles
  <2>2. {<<folder, d>> : d \in {d \in Docs : place[d].file = folder}} \in SUBSET CopyFiles
    BY <2>1
  <2>3. QED BY <2>2, Zenon
<1>6. copying' = [copying EXCEPT !.listed = @ \cup found, !.folder = @ + 1, !.at = IF f = 3 THEN "hash" ELSE "list"]
  BY <1>3, <1>4, <1>5, ListedFolders DEF ListsFolder
<1>7. /\ copying' \in BegunCopies /\ copying'.at = (IF f = 3 THEN "hash" ELSE "list") /\ copying'.rows = copying.rows
      /\ copying'.listed = copying.listed \cup found /\ copying'.moved = copying.moved /\ copying'.folder = f + 1
  <2>1. copying.listed \cup found \in SUBSET CopyFiles /\ f + 1 \in 1..4
    BY <1>2, <1>5 DEF BegunCopies
  <2>2. QED BY <1>2, <1>3, <1>6, <2>1 DEF BegunCopies, CopySteps
<1>8. ASSUME NEW d \in Docs \ copying'.moved PROVE ListHas(d)'
  <2>1. ListHas(d) /\ place[d].file = copying.rows[d] /\ place'[d] = place[d]
    BY <1>1, <1>2, <1>7, <1>8 DEF CopyInv, ListGrows, ListHas
  <2>2. copying.rows[d] = folder => <<copying.rows[d], d>> \in found
    BY <1>5, <2>1, <1>8
  <2>3. ASSUME NEW g \in 1..3, g <= f, copying.rows[d] = FULL_BACKUP_FOLDERS[g]
        PROVE  <<copying.rows[d], d>> \in copying'.listed
    <3>1. CASE g = f
      BY <1>4, <1>7, <2>2, <2>3, <3>1
    <3>2. CASE g < f
      BY <1>1, <1>3, <1>7, <2>1, <2>3, <3>2 DEF ListHas
    <3>3. QED BY <2>3, <3>1, <3>2
  <2>4. copying.rows[d] \in CopyFolders
    BY <1>2, <1>8 DEF BegunCopies
  <2>5. CASE f = 3
    <3>1. PICK g \in 1..3 : copying.rows[d] = FULL_BACKUP_FOLDERS[g]
      BY <2>4, ListedFolders
    <3>2. <<copying.rows[d], d>> \in copying'.listed
      BY <2>3, <2>5, <3>1
    <3>3. QED BY <1>7, <2>5, <3>2 DEF ListHas
  <2>6. CASE f # 3
    BY <1>7, <2>1, <2>3, <2>6 DEF ListHas
  <2>7. QED BY <2>5, <2>6
<1>9. ListGrows'
  BY <1>7, <1>8 DEF ListGrows
<1>10. QED BY <1>1, <1>7, <1>9 DEF CopyInv, CopyTypes, MadeWhole, RestoresOne

(* What is in the ZIP is what was listed: a file that is gone ends the copy       *)
LEMMA CopyReads == ASSUME CopyInv, Hashes \/ Zips PROVE CopyInv'
<1>1. UNCHANGED <<place, copies, root>> /\ copying.at \in {"hash", "zip"}
  BY DEF Hashes, Zips, ReadsFiles
<1>2. copying \in BegunCopies
  BY <1>1, CopyBegun DEF CopySteps
<1>3. CASE copying' = NoneGoing
  BY <1>1, <1>3, NoneGoingFacts DEF CopyInv, CopyTypes, ListGrows, MadeWhole, RestoresOne
<1>4. ASSUME NEW next \in {"zip", "replace"}, copying' = [copying EXCEPT !.at = next] PROVE CopyInv'
  <2>1. /\ copying' \in BegunCopies /\ copying'.at = next /\ copying'.rows = copying.rows
        /\ copying'.listed = copying.listed /\ copying'.moved = copying.moved
    BY <1>2, <1>4 DEF BegunCopies, CopySteps
  <2>2. ListGrows'
    BY <1>1, <1>2, <2>1 DEF CopyInv, ListGrows, ListHas
  <2>3. QED BY <1>1, <2>1, <2>2 DEF CopyInv, CopyTypes, MadeWhole, RestoresOne
<1>5. QED BY <1>3, <1>4 DEF Hashes, Zips, ReadsFiles

LEMMA CopyReplaces == ASSUME CopyInv, Replaces PROVE CopyInv'
<1>1. UNCHANGED <<place, root>> /\ copying.at = "replace" /\ copying' = [copying EXCEPT !.at = "rotate"]
  BY DEF Replaces
<1>2. copying \in BegunCopies
  BY <1>1, CopyBegun DEF CopySteps
<1>3. PICK made \in Copies : /\ made = [rows |-> copying.rows, files |-> copying.listed \cup {Database},
                                        moved |-> copying.moved, whole |-> TRUE]
                             /\ copies' = Append(copies, made)
  <2>1. copying.listed \cup {Database} \in SUBSET (CopyFiles \cup {Database})
    BY <1>2 DEF BegunCopies
  <2>2. QED BY <1>2, <2>1 DEF Replaces, BegunCopies, Copies
<1>4. HasItsFiles(made)
  BY <1>1, <1>2, <1>3 DEF CopyInv, ListGrows, ListHas, HasItsFiles
<1>5. /\ copying' \in BegunCopies /\ copying'.at = "rotate" /\ copying'.rows = copying.rows
      /\ copying'.listed = copying.listed /\ copying'.moved = copying.moved
  BY <1>1, <1>2 DEF BegunCopies, CopySteps
<1>6. ListGrows'
  BY <1>1, <1>2, <1>5 DEF CopyInv, ListGrows, ListHas
<1>7. copies' \in Seq(Copies) /\ MadeWhole'
  BY <1>3, <1>4 DEF CopyInv, CopyTypes, MadeWhole, HasItsFiles
<1>8. QED BY <1>1, <1>5, <1>6, <1>7 DEF CopyInv, CopyTypes, RestoresOne

LEMMA CopyRotates == ASSUME CopyInv, Rotates PROVE CopyInv'
<1>1. UNCHANGED <<place, root>> /\ copies \in Seq(Copies)
  BY DEF Rotates, CopyInv, CopyTypes
<1>2. CASE copying' = NoneGoing /\ copies' = copies
  BY <1>1, <1>2, NoneGoingFacts DEF CopyInv, CopyTypes, ListGrows, MadeWhole, RestoresOne
<1>3. CASE Len(copies) > KeepCopies /\ copies' = Tail(copies) /\ copying' = copying
  <2>1. copies # <<>>
    BY <1>3, BackupsAssumption
  <2>2. copies' \in Seq(Copies) /\ Len(copies') = Len(copies) - 1 /\ \A i \in 1..Len(copies') : copies'[i] = copies[i + 1]
    BY <1>1, <1>3, <2>1
  <2>3. DOMAIN copies' = 1..Len(copies') /\ DOMAIN copies = 1..Len(copies) /\ Len(copies) \in Nat
    BY <1>1, <2>2
  <2>4. ASSUME NEW i \in DOMAIN copies' PROVE HasItsFiles(copies'[i])
    <3>1. i + 1 \in DOMAIN copies /\ copies'[i] = copies[i + 1]
      BY <2>2, <2>3, <2>4
    <3>2. HasItsFiles(copies[i + 1])
      BY <3>1 DEF CopyInv, MadeWhole
    <3>3. QED BY <3>1, <3>2
  <2>5. MadeWhole'
    BY <2>4 DEF MadeWhole, HasItsFiles
  <2>6. QED BY <1>1, <1>3, <2>2, <2>5 DEF CopyInv, CopyTypes, ListGrows, ListHas, RestoresOne
<1>4. QED BY <1>2, <1>3 DEF Rotates

LEMMA CopyRestores ==
    ASSUME CopyInv, (\E i \in 1..(KeepCopies + 1) : Restores(i)) \/ Writes \/ Rewrites \/ EmptiesRoot
    PROVE  CopyInv'
<1> DEFINE Roots == [at : {"empty", "write", "stopped", "restored"}, copy : Copies \cup {NoCopy},
                     files : SUBSET (CopyFiles \cup {Database})]
<1>1. UNCHANGED <<place, copying, copies>> /\ root \in Roots
  BY DEF Restores, Writes, Rewrites, EmptiesRoot, CopyInv, CopyTypes
<1>2. ASSUME NEW i \in 1..(KeepCopies + 1), Restores(i) PROVE root' \in Roots /\ RestoresOne'
  <2>1. copies[i] \in Copies /\ HasItsFiles(copies[i])
    <3>1. i \in DOMAIN copies /\ copies \in Seq(Copies) /\ MadeWhole
      BY <1>2 DEF Restores, CopyInv, CopyTypes
    <3>2. QED BY <3>1 DEF MadeWhole
  <2>2. PICK copy \in Copies : copy = copies[i]
    BY <2>1
  <2>3. root.files = {} /\ root' = [root EXCEPT !.at = "write", !.copy = copy]
    BY <1>2, <2>2 DEF Restores
  <2>4. root' \in Roots /\ root'.at = "write" /\ root'.copy = copy /\ root'.files = {}
    BY <1>1, <2>3
  <2>5. HasItsFiles(copy)
    BY <2>1, <2>2
  <2>6. QED BY <2>4, <2>5 DEF RestoresOne, HasItsFiles
<1>3. ASSUME Writes PROVE root' \in Roots /\ RestoresOne'
  <2>1. PICK m \in root.copy.files \ root.files : root' = [root EXCEPT !.files = @ \cup {m}]
    BY <1>3 DEF Writes
  <2>2. root.at = "write" /\ root.copy \in Copies /\ HasItsFiles(root.copy) /\ root.files \subseteq root.copy.files
    BY <1>3 DEF Writes, CopyInv, RestoresOne
  <2>3. m \in CopyFiles \cup {Database}
    BY <2>2 DEF Copies
  <2>4. root' \in Roots /\ root'.at = "write" /\ root'.copy = root.copy /\ root'.files = root.files \cup {m}
    BY <1>1, <2>1, <2>2, <2>3
  <2>5. QED BY <2>2, <2>4 DEF RestoresOne, HasItsFiles
<1>4. ASSUME Rewrites PROVE root' \in Roots /\ RestoresOne'
  <2>1. root.at = "write" /\ root.copy.files \subseteq root.files /\ root' = [root EXCEPT !.at = "restored"]
    BY <1>4 DEF Rewrites
  <2>2. root.copy \in Copies /\ HasItsFiles(root.copy) /\ root.files = root.copy.files
    BY <2>1 DEF CopyInv, RestoresOne
  <2>3. root' \in Roots /\ root'.at = "restored" /\ root'.copy = root.copy /\ root'.files = root.files
    BY <1>1, <2>1
  <2>4. QED BY <2>2, <2>3 DEF RestoresOne, HasItsFiles
<1>5. ASSUME EmptiesRoot PROVE root' \in Roots /\ RestoresOne'
  BY <1>5 DEF EmptiesRoot, EmptyRoot, RestoresOne
<1>6. root' \in Roots /\ RestoresOne'
  BY <1>2, <1>3, <1>4, <1>5
<1>7. QED BY <1>1, <1>6 DEF CopyInv, CopyTypes, ListGrows, ListHas, MadeWhole, HasItsFiles

(* A crash, a disk that fails, a copy damaged on its way                          *)
LEMMA CopyFails == ASSUME CopyInv, CopyMishap PROVE CopyInv'
<1>1. place' = place
  BY DEF CopyMishap
<1>2. CASE copying' = NoneGoing /\ UNCHANGED <<copies, root>>
  BY <1>1, <1>2, NoneGoingFacts DEF CopyInv, CopyTypes, ListGrows, MadeWhole, RestoresOne
<1>3. CASE root.at = "write" /\ root' = [root EXCEPT !.at = "stopped"] /\ UNCHANGED <<copying, copies>>
  BY <1>1, <1>3 DEF CopyInv, CopyTypes, ListGrows, ListHas, MadeWhole, RestoresOne
<1>4. ASSUME NEW i \in DOMAIN copies, copies' = [copies EXCEPT ![i].whole = FALSE], UNCHANGED <<copying, root>>
      PROVE  CopyInv'
  <2>1. copies \in Seq(Copies) /\ copies[i] \in Copies
    BY <1>4 DEF CopyInv, CopyTypes
  <2>2. PICK harmed \in Copies : harmed = [copies[i] EXCEPT !.whole = FALSE]
    BY <2>1 DEF Copies
  <2>3. harmed.rows = copies[i].rows /\ harmed.files = copies[i].files /\ harmed.moved = copies[i].moved
    BY <2>1, <2>2 DEF Copies
  <2>4. copies' = [copies EXCEPT ![i] = harmed]
    BY <1>4, <2>2
  <2>5. copies' \in Seq(Copies) /\ \A k \in DOMAIN copies' : k \in DOMAIN copies /\ (copies'[k] = copies[k] \/ (k = i /\ copies'[k] = harmed))
    BY <2>1, <2>4
  <2>6. MadeWhole'
    BY <2>3, <2>5 DEF CopyInv, MadeWhole, HasItsFiles
  <2>7. QED BY <1>1, <1>4, <2>5, <2>6 DEF CopyInv, CopyTypes, ListGrows, ListHas, RestoresOne
<1>5. QED BY <1>2, <1>3, <1>4 DEF CopyMishap

LEMMA CopyKept == CopyInv /\ [Next]_vars => CopyInv'
<1> SUFFICES ASSUME CopyInv, [Next]_vars PROVE CopyInv'
  OBVIOUS
<1>1. CASE BackupsNext
  <2>1. CASE Copying
    BY <2>1, CopySnapshots, CopyLists, CopyReads, CopyReplaces, CopyRotates DEF Copying
  <2>2. CASE IntervalPasses
    BY <2>2 DEF IntervalPasses, CopyInv, CopyTypes, ListGrows, ListHas, MadeWhole, RestoresOne
  <2>3. CASE \E d \in Docs : RecordsMove(d) \/ \E f \in Range(FULL_BACKUP_FOLDERS) : MovesFile(d, f)
    BY <2>3, ListedFolders, CopyMoves
  <2>4. QED BY <1>1, <2>1, <2>2, <2>3, CopyRestores, CopyFails DEF BackupsNext
<1>2. IndexScene \/ QueryScene \/ SessionScene \/ ScreenScene \/ UNCHANGED vars => UNCHANGED backupVars
  BY DEF IndexScene, QueryScene, SessionScene, ScreenScene, Scene, vars, sessionScenes
<1>3. QED BY <1>1, <1>2, CopyUnchanged DEF Next, CopyScene

LEMMA CopyWhole == CopyInv => CopiesAreWhole
BY DEF CopyInv, MadeWhole, RestoresOne, CopiesAreWhole

-----------------------------------------------------------------------------
(* In a session there is never more than one listener, and none once it is told   *)
(* stopped or in error; the runtime is stopped once; the screen never goes back   *)
(* to before what the person did, unless a reading failed or was forgotten; and   *)
(* what is restored is one whole copy (ApiServerController, RuntimeStartup,       *)
(* BackgroundSnapshots, create_full_backup, restore_full_backup).                 *)
THEOREM SessionStaysSound == Spec => []SessionIsSound
<1> DEFINE Whole == SessionInv /\ ScreenInv /\ CopyInv
<1>1. Init => Whole
  BY RunInit, ApiInit, ScreenAtStart, CopyAtStart DEF SessionInv
<1>2. Whole /\ [Next]_vars => Whole'
  BY SessionNext, ScreenKept, CopyKept
<1>3. Whole => SessionIsSound
  BY SessionKept, ScreenSeen, CopyWhole DEF SessionIsSound
<1> HIDE DEF Whole
<1>4. QED BY <1>1, <1>2, <1>3, PTL DEF Spec

-----------------------------------------------------------------------------
(* The queries: the types of what the threads hold and of the rows                *)
NoteStates == [status : {"STAGED", "PUBLISHED", "RETIRED"}, text : Versions]
SeenStates == [state : {"none", "IN_SYNC", "CONFLICT", "MISSING"}, seen : Versions \cup {NoFile}]
Observations == [Notes -> [text : Versions, new : SeenStates, write : BOOLEAN]]
FullPrints == [claims : [Claims -> States \X Nat], notes : [Notes -> NoteStates], seen : [Notes -> SeenStates]]
Prints == FullPrints \cup {NoPrint}
Uses == {"none", "print", "search", "compare", "judged", "complete"}
QuerySteps == {"idle", "observe", "record", "derived", "payload", "insert", "get", "outdated", "judge", "prepare",
           "submit", "store"} \cup Uses
HeldRows == [at : QuerySteps, use : Uses, q : Questions \cup {"none"}, seen : {<<>>} \cup Observations, print : Prints,
             todo : SUBSET Claims, found : SUBSET Claims]
Statuses == {"none", "READY", "SUBMITTING", "QUEUED", "PROCESSING", "SUCCESS", "ERROR", "STALE"}
QueryRows == [status : Statuses, evidence : SUBSET Claims, print : Prints, judged : BOOLEAN, answer : SUBSET Claims,
              attempt : Nat]
ClaimRows == [state : States, rev : Nat, active : BOOLEAN]

HeldTypes == held \in [Actors -> HeldRows] /\ \A t \in Actors : held[t].at = "record" => held[t].seen \in Observations
AnswerTypes ==
    /\ query \in [Questions -> QueryRows]
    /\ said \in [Questions -> [status : Statuses, answer : SUBSET Claims]]
ClaimInv == claim \in [Claims -> ClaimRows] /\ \A c \in Claims : ~claim[c].active => claim[c].state = "HISTORICAL"

(* What a thread of the API holds: the fingerprint is not of a later knowledge,    *)
(* and the claims it found were in force since it was taken, or have changed       *)
Printed(t) == held[t].at \in {"search", "payload", "insert"}
              \/ (held[t].at \in {"observe", "record", "derived"} /\ held[t].use = "search")
PrintIsNotLater(print) ==
    /\ print \in FullPrints
    /\ \A c \in Claims : /\ print.claims[c][2] <= claim[c].rev
                         /\ (print.claims[c][2] = claim[c].rev => print.claims[c][1] = claim[c].state)
    /\ \A n \in Notes : print.notes[n].status = "RETIRED" => row[n].status = "RETIRED"
WasInForce(c, print) ==
    /\ print.claims[c][2] = claim[c].rev => print.claims[c][1] = "CURRENT"
    /\ print.notes[NoteOf[c]].status # "RETIRED" /\ row[NoteOf[c]].status # "STAGED"
IsInForce(c, print) == print.claims[c][1] = "CURRENT" /\ print.notes[NoteOf[c]].status = "PUBLISHED"
ReaderOk(t) ==
    /\ Printed(t) => PrintIsNotLater(held[t].print)
    /\ held[t].found # {} => held[t].at \in {"payload", "insert"}
    /\ \A c \in held[t].found : WasInForce(c, held[t].print)
    /\ held[t].at = "insert" => \A c \in held[t].found : IsInForce(c, held[t].print)
ReaderInv == \A t \in Readers : ReaderOk(t)
WorkerHolds == held["worker"].at # "idle" =>
    /\ held["worker"].q \in Questions /\ query[held["worker"].q].status # "none"
    /\ held["worker"].found \subseteq query[held["worker"].q].evidence
RowOk(r) ==
    /\ \A c \in r.evidence : IsInForce(c, r.print)
    /\ r.answer \subseteq r.evidence
    /\ r.status \notin {"SUCCESS", "STALE"} => r.answer = {}
    /\ r.status = "none" => r.evidence = {}
EvidenceInv == \A q \in Questions : RowOk(query[q])
QueriesInv == NotesTypeOK /\ HeldTypes /\ AnswerTypes /\ ClaimInv /\ ReaderInv /\ WorkerHolds /\ EvidenceInv

-----------------------------------------------------------------------------
(* How the knowledge and the queries go on, and what a thread may do              *)
Later ==
    /\ \A c \in Claims : claim[c].rev <= claim'[c].rev /\ (claim[c].rev = claim'[c].rev => claim'[c].state = claim[c].state)
    /\ \A n \in Notes : (row[n].status = "RETIRED" => row'[n].status = "RETIRED")
                         /\ (row[n].status # "STAGED" => row'[n].status # "STAGED")
KnowledgeGoesOn == NotesTypeOK' /\ ClaimInv' /\ Later
QueriesGoOn ==
    /\ AnswerTypes' /\ EvidenceInv'
    /\ \A q \in Questions : query[q].status # "none" =>
        query'[q].status # "none" /\ query'[q].evidence = query[q].evidence
Moves(t) ==
    /\ held' \in [Actors -> HeldRows] /\ \A u \in Actors \ {t} : held'[u] = held[u]
    /\ held'[t].at = "record" => held'[t].seen \in Observations

LEMMA PrintTypes ==
    ASSUME NEW print \in FullPrints
    PROVE  /\ \A c \in Claims : print.claims[c][1] \in States /\ print.claims[c][2] \in Nat
           /\ \A n \in Notes : print.notes[n].status \in {"STAGED", "PUBLISHED", "RETIRED"}
<1>1. PICK cs \in [Claims -> States \X Nat], ns \in [Notes -> NoteStates], ss \in [Notes -> SeenStates] :
        print = [claims |-> cs, notes |-> ns, seen |-> ss]
  BY DEF FullPrints
<1>2. \A c \in Claims : cs[c] \in States \X Nat
  OBVIOUS
<1>3. \A n \in Notes : ns[n] \in NoteStates
  OBVIOUS
<1>4. QED BY <1>1, <1>2, <1>3 DEF NoteStates

LEMMA KnowledgeRests == ASSUME QueriesInv, UNCHANGED <<notesVars, claim>> PROVE KnowledgeGoesOn
<1>1. \A c \in Claims : claim[c].rev \in Nat
  BY DEF QueriesInv, ClaimInv, ClaimRows
<1>2. \A c \in Claims : claim[c].rev <= claim[c].rev
  BY <1>1
<1>3. Later
  BY <1>2 DEF Later, notesVars
<1>4. QED BY <1>3 DEF QueriesInv, KnowledgeGoesOn, NotesTypeOK, ClaimInv, notesVars

LEMMA QueriesRest == ASSUME QueriesInv, UNCHANGED <<query, said>> PROVE QueriesGoOn
BY DEF QueriesInv, QueriesGoOn, AnswerTypes, EvidenceInv, RowOk, IsInForce

LEMMA PrintStays ==
    ASSUME QueriesInv, KnowledgeGoesOn, NEW print, PrintIsNotLater(print)
    PROVE  PrintIsNotLater(print)'
<1>1. ASSUME NEW c \in Claims
      PROVE  /\ print.claims[c][2] <= claim'[c].rev
             /\ print.claims[c][2] = claim'[c].rev => print.claims[c][1] = claim'[c].state
  <2>1. print.claims[c][2] \in Nat /\ claim[c].rev \in Nat /\ claim'[c].rev \in Nat
    BY PrintTypes DEF PrintIsNotLater, QueriesInv, KnowledgeGoesOn, ClaimInv, ClaimRows
  <2>2. /\ print.claims[c][2] <= claim[c].rev
        /\ print.claims[c][2] = claim[c].rev => print.claims[c][1] = claim[c].state
    BY DEF PrintIsNotLater
  <2>3. claim[c].rev <= claim'[c].rev /\ (claim[c].rev = claim'[c].rev => claim'[c].state = claim[c].state)
    BY DEF KnowledgeGoesOn, Later
  <2>4. PICK p \in Nat, r \in Nat, s \in Nat : p = print.claims[c][2] /\ r = claim[c].rev /\ s = claim'[c].rev
    BY <2>1
  <2>5. p <= s /\ (p = s => p = r /\ r = s)
    BY <2>2, <2>3, <2>4
  <2>6. QED BY <2>2, <2>3, <2>4, <2>5
<1>2. \A n \in Notes : print.notes[n].status = "RETIRED" => row'[n].status = "RETIRED"
  BY DEF PrintIsNotLater, KnowledgeGoesOn, Later
<1>3. QED BY <1>1, <1>2 DEF PrintIsNotLater

LEMMA ForceStays ==
    ASSUME QueriesInv, KnowledgeGoesOn, NEW print, PrintIsNotLater(print), NEW c \in Claims, WasInForce(c, print)
    PROVE  WasInForce(c, print)'
<1>1. print.claims[c][2] = claim'[c].rev => print.claims[c][1] = "CURRENT"
  <2>1. print.claims[c][2] \in Nat /\ claim[c].rev \in Nat /\ claim'[c].rev \in Nat
    BY PrintTypes DEF PrintIsNotLater, QueriesInv, KnowledgeGoesOn, ClaimInv, ClaimRows
  <2>2. PICK p \in Nat, r \in Nat, s \in Nat : p = print.claims[c][2] /\ r = claim[c].rev /\ s = claim'[c].rev
    BY <2>1
  <2>3. p <= r /\ r <= s
    BY <2>2 DEF PrintIsNotLater, KnowledgeGoesOn, Later
  <2>4. p = s => p = r
    BY <2>3
  <2>5. QED BY <2>2, <2>4 DEF WasInForce
<1>2. row'[NoteOf[c]].status # "STAGED"
  BY QueriesAssumption DEF WasInForce, KnowledgeGoesOn, Later
<1>3. QED BY <1>1, <1>2 DEF WasInForce

LEMMA ReaderStays ==
    ASSUME QueriesInv, KnowledgeGoesOn, NEW t \in Readers, held'[t] = held[t]
    PROVE  ReaderOk(t)'
<1>1. ReaderOk(t) /\ held[t].found \subseteq Claims
  BY DEF QueriesInv, ReaderInv, HeldTypes, Actors, HeldRows
<1>2. Printed(t) => PrintIsNotLater(held[t].print)'
  BY <1>1, PrintStays DEF ReaderOk
<1>3. ASSUME NEW c \in held[t].found PROVE WasInForce(c, held[t].print)'
  <2>1. WasInForce(c, held[t].print) /\ Printed(t) /\ c \in Claims
    BY <1>1, <1>3 DEF ReaderOk, Printed
  <2>2. PrintIsNotLater(held[t].print)
    BY <1>1, <2>1 DEF ReaderOk
  <2>3. QED BY <2>1, <2>2, ForceStays
<1>4. Printed(t)' <=> Printed(t)
  BY DEF Printed
<1>5. QED BY <1>1, <1>2, <1>3, <1>4 DEF ReaderOk, IsInForce

(* What a thread holds, one field at a time                                       *)
LEMMA HeldMoves ==
    ASSUME QueriesInv, NEW t \in Actors, NEW r \in HeldRows, held' = [held EXCEPT ![t] = r],
           r.at = "record" => r.seen \in Observations
    PROVE  Moves(t) /\ held'[t] = r
BY DEF QueriesInv, HeldTypes, Moves

LEMMA HeldFields ==
    ASSUME QueriesInv, NEW t \in Actors
    PROVE  /\ held \in [Actors -> HeldRows] /\ held[t] \in HeldRows
           /\ held[t].at \in QuerySteps /\ held[t].use \in Uses /\ held[t].q \in Questions \cup {"none"}
           /\ held[t].seen \in {<<>>} \cup Observations /\ held[t].print \in Prints
           /\ held[t].todo \subseteq Claims /\ held[t].found \subseteq Claims
           /\ held[t] = [at |-> held[t].at, use |-> held[t].use, q |-> held[t].q, seen |-> held[t].seen,
                         print |-> held[t].print, todo |-> held[t].todo, found |-> held[t].found]
BY DEF QueriesInv, HeldTypes, HeldRows

LEMMA NothingIsHeld == Nothing \in HeldRows /\ Nothing.at = "idle" /\ Nothing.found = {} /\ Nothing.use = "none"
BY DEF Nothing, HeldRows, QuerySteps, Uses, Prints

(* A thread that holds no claim, and no fingerprint or a good one                 *)
LEMMA FreshReader ==
    ASSUME NEW t \in Readers, held'[t].found = {}, held'[t].at # "insert",
           Printed(t)' => PrintIsNotLater(held[t].print)'
    PROVE  ReaderOk(t)'
BY DEF ReaderOk, WasInForce, IsInForce

LEMMA NobodyMoves == ASSUME QueriesInv, KnowledgeGoesOn, QueriesGoOn, held' = held PROVE QueriesInv'
<1>1. ReaderInv'
  BY ReaderStays DEF ReaderInv
<1>2. WorkerHolds'
  BY DEF QueriesInv, WorkerHolds, QueriesGoOn
<1>3. QED BY <1>1, <1>2 DEF QueriesInv, KnowledgeGoesOn, QueriesGoOn, HeldTypes

LEMMA ReaderMoves ==
    ASSUME QueriesInv, KnowledgeGoesOn, QueriesGoOn, NEW t \in Readers, Moves(t), ReaderOk(t)'
    PROVE  QueriesInv'
<1>1. t \in Actors /\ "worker" \in Actors \ {t} /\ Readers \subseteq Actors
  BY QueriesAssumption DEF Actors
<1>2. ReaderInv'
  BY <1>1, ReaderStays DEF ReaderInv, Moves
<1>3. WorkerHolds'
  BY <1>1 DEF QueriesInv, WorkerHolds, QueriesGoOn, Moves
<1>4. HeldTypes'
  BY <1>1 DEF QueriesInv, HeldTypes, Moves
<1>5. QED BY <1>2, <1>3, <1>4 DEF QueriesInv, KnowledgeGoesOn, QueriesGoOn

LEMMA WorkerMoves ==
    ASSUME QueriesInv, KnowledgeGoesOn, AnswerTypes', EvidenceInv', Moves("worker"), WorkerHolds'
    PROVE  QueriesInv'
<1>1. "worker" \in Actors /\ Readers \subseteq Actors \ {"worker"}
  BY QueriesAssumption DEF Actors
<1>2. ReaderInv'
  BY <1>1, ReaderStays DEF ReaderInv, Moves
<1>3. HeldTypes'
  BY <1>1 DEF QueriesInv, HeldTypes, Moves
<1>4. QED BY <1>2, <1>3 DEF QueriesInv, KnowledgeGoesOn

-----------------------------------------------------------------------------
(* What changes the knowledge                                                     *)
LEMMA NotesTypes == NotesTypeOK <=>
    row \in [Notes -> NoteStates] /\ file \in [Notes -> Versions \cup {NoFile}]
    /\ recon \in [Notes -> SeenStates] /\ edits \in 0..MaxEdits
BY DEF NotesTypeOK, NoteStates, SeenStates

LEMMA ObservationTypes == ASSUME NotesTypeOK, NEW n \in Notes PROVE Observation(n) \in SeenStates
BY DEF NotesTypeOK, Observation, SeenStates

LEMMA ObservedGoesOn ==
    ASSUME QueriesInv, recon' \in [Notes -> SeenStates], UNCHANGED <<row, file, edits, claim>>
    PROVE  KnowledgeGoesOn
<1>1. \A c \in Claims : claim[c].rev \in Nat
  BY DEF QueriesInv, ClaimInv, ClaimRows
<1>2. \A c \in Claims : claim[c].rev <= claim[c].rev
  BY <1>1
<1>3. Later
  BY <1>2 DEF Later
<1>4. NotesTypeOK'
  BY DEF QueriesInv, NotesTypeOK, SeenStates
<1>5. QED BY <1>3, <1>4 DEF QueriesInv, KnowledgeGoesOn, ClaimInv

LEMMA NotesGoOn == ASSUME QueriesInv, NotesNext, UNCHANGED claim PROVE KnowledgeGoesOn
<1>1. PICK n \in Notes : PublishNote(n) \/ EditOutside(n) \/ AdoptEdit(n) \/ RetireNote(n) \/ Relocate(n)
  BY DEF NotesNext
<1>2. NotesTypeOK /\ row \in [Notes -> NoteStates] /\ recon \in [Notes -> SeenStates]
  BY NotesTypes DEF QueriesInv
<1>3. row[n] \in NoteStates /\ row[n].text \in Versions
  BY <1>2 DEF NoteStates
<1>4. row' \in [Notes -> NoteStates] /\ \A m \in Notes :
        (row[m].status = "RETIRED" => row'[m].status = "RETIRED") /\ (row[m].status # "STAGED" => row'[m].status # "STAGED")
  <2>1. CASE UNCHANGED row
    BY <1>2, <2>1
  <2>2. CASE PublishNote(n)
    BY <1>2, <1>3, <2>2 DEF PublishNote, NoteStates
  <2>3. CASE AdoptEdit(n)
    BY <1>2, <1>3, <2>3 DEF AdoptEdit, NoteStates, NotesTypeOK, Published
  <2>4. CASE RetireNote(n)
    BY <1>2, <1>3, <2>4 DEF RetireNote, NoteStates, Published
  <2>5. QED BY <1>1, <2>1, <2>2, <2>3, <2>4 DEF EditOutside, Relocate
<1>5. file' \in [Notes -> Versions \cup {NoFile}]
  BY <1>1, <1>2, <1>3 DEF NotesTypeOK, PublishNote, EditOutside, AdoptEdit, RetireNote, Relocate
<1>6. recon' \in [Notes -> SeenStates]
  BY <1>1, <1>2, <1>3 DEF NotesTypeOK, SeenStates, PublishNote, EditOutside, AdoptEdit, RetireNote, Relocate
<1>7. edits' \in 0..MaxEdits
  <2>1. MaxEdits \in Nat /\ edits \in 0..MaxEdits
    BY <1>2, NotesAssumption DEF NotesTypeOK
  <2>2. edits' = edits \/ (edits < MaxEdits /\ edits' = edits + 1)
    BY <1>1 DEF PublishNote, EditOutside, AdoptEdit, RetireNote, Relocate
  <2>3. QED BY <2>1, <2>2
<1>8. NotesTypeOK'
  BY <1>4, <1>5, <1>6, <1>7 DEF NotesTypeOK, NoteStates, SeenStates
<1>9. \A c \in Claims : claim[c].rev <= claim[c].rev
  <2>1. \A c \in Claims : claim[c].rev \in Nat
    BY DEF QueriesInv, ClaimInv, ClaimRows
  <2>2. QED BY <2>1
<1>10. QED BY <1>4, <1>8, <1>9 DEF QueriesInv, KnowledgeGoesOn, ClaimInv, Later

(* A claim that is decided about goes to its next revision                        *)
Decided(c) ==
    /\ claim[c].active /\ claim'[c] \in ClaimRows /\ claim'[c].rev = claim[c].rev + 1
    /\ claim'[c].active \/ claim'[c].state = "HISTORICAL"

LEMMA DecidedGoesOn ==
    ASSUME QueriesInv, claim' = [c \in Claims |-> claim'[c]], \A c \in Claims : claim'[c] = claim[c] \/ Decided(c),
           UNCHANGED notesVars
    PROVE  KnowledgeGoesOn
<1>1. claim \in [Claims -> ClaimRows] /\ \A c \in Claims : ~claim[c].active => claim[c].state = "HISTORICAL"
  BY DEF QueriesInv, ClaimInv
<1>2. ClaimInv'
  <2>1. \A c \in Claims : claim'[c] \in ClaimRows /\ (~claim'[c].active => claim'[c].state = "HISTORICAL")
    BY <1>1 DEF Decided
  <2>2. QED BY <2>1 DEF ClaimInv
<1>3. ASSUME NEW c \in Claims
      PROVE  claim[c].rev <= claim'[c].rev /\ (claim[c].rev = claim'[c].rev => claim'[c].state = claim[c].state)
  <2>1. claim[c].rev \in Nat /\ claim'[c].rev \in Nat
    BY <1>1, <1>2 DEF ClaimInv, ClaimRows
  <2>2. PICK r \in Nat, s \in Nat : r = claim[c].rev /\ s = claim'[c].rev
    BY <2>1
  <2>3. CASE claim'[c] = claim[c]
    BY <2>2, <2>3
  <2>4. CASE Decided(c)
    BY <2>2, <2>4 DEF Decided
  <2>5. QED BY <2>3, <2>4
<1>4. Later
  BY <1>3 DEF Later, notesVars
<1>5. QED BY <1>2, <1>4 DEF QueriesInv, KnowledgeGoesOn, NotesTypeOK, notesVars

LEMMA MovedIsDecided ==
    ASSUME QueriesInv, NEW c \in Claims, NEW s \in States, claim[c].active,
           claim' = Moved(c, s) \/ (s = "HISTORICAL" /\ claim' = [Moved(c, s) EXCEPT ![c].active = FALSE])
    PROVE  claim' = [d \in Claims |-> claim'[d]] /\ \A d \in Claims : claim'[d] = claim[d] \/ Decided(d)
<1>1. claim \in [Claims -> ClaimRows] /\ claim[c] \in ClaimRows
  BY DEF QueriesInv, ClaimInv
<1>2. PICK t \in States, r \in Nat, a \in BOOLEAN : claim[c] = [state |-> t, rev |-> r, active |-> a]
  BY <1>1 DEF ClaimRows
<1>3. Moved(c, s) \in [Claims -> ClaimRows] /\ Moved(c, s)[c].rev = r + 1 /\ Moved(c, s)[c].active = claim[c].active
      /\ Moved(c, s)[c].state = s /\ \A d \in Claims \ {c} : Moved(c, s)[d] = claim[d]
  BY <1>1, <1>2 DEF Moved, ClaimRows
<1>4. CASE claim' = Moved(c, s)
  <2>1. claim' = [d \in Claims |-> claim'[d]] /\ claim'[c] \in ClaimRows /\ \A d \in Claims \ {c} : claim'[d] = claim[d]
    BY <1>3, <1>4
  <2>2. Decided(c)
    <3>1. claim'[c].rev = r + 1 /\ claim'[c].active = claim[c].active
      BY <1>3, <1>4
    <3>2. claim[c].rev = r
      BY <1>2
    <3>3. QED BY <2>1, <3>1, <3>2 DEF Decided
  <2>3. QED BY <2>1, <2>2
<1>5. CASE s = "HISTORICAL" /\ claim' = [Moved(c, s) EXCEPT ![c].active = FALSE]
  <2> DEFINE m == Moved(c, s)
  <2>1. m \in [Claims -> ClaimRows] /\ m[c] \in ClaimRows /\ claim' = [m EXCEPT ![c] = [m[c] EXCEPT !.active = FALSE]]
    BY <1>3, <1>5
  <2>2. claim'[c] = [m[c] EXCEPT !.active = FALSE] /\ \A d \in Claims \ {c} : claim'[d] = m[d]
    BY <2>1
  <2>3. claim' = [d \in Claims |-> claim'[d]]
    BY <2>1
  <2>4. claim'[c] \in ClaimRows /\ claim'[c].rev = m[c].rev /\ claim'[c].state = m[c].state
    BY <2>1, <2>2 DEF ClaimRows
  <2>5. Decided(c)
    BY <1>2, <1>3, <1>5, <2>4 DEF Decided
  <2>6. QED BY <1>3, <2>2, <2>3, <2>5
<1>6. QED BY <1>4, <1>5

LEMMA DecidersGoOn == ASSUME QueriesInv, Deciders PROVE KnowledgeGoesOn /\ UNCHANGED <<held, query, said>>
<1>1. PICK c \in Claims : \/ (\E s \in States : ReviewState(c, s)) \/ Intend(c) \/ Dispute(c) \/ Settle(c)
                          \/ (\E applied \in BOOLEAN : Conclude(c, applied))
  BY DEF Deciders
<1>2. UNCHANGED <<notesVars, held, query, said>>
  BY <1>1 DEF ReviewState, Intend, Dispute, Settle, Conclude, Deciding, Ending, Untold
<1>3. "DISPUTED" \in States /\ "CURRENT" \in States /\ "HISTORICAL" \in States
  BY DEF States
<1>4. claim' = claim \/ (claim[c].active /\ \E s \in States :
        claim' = Moved(c, s) \/ (s = "HISTORICAL" /\ claim' = [Moved(c, s) EXCEPT ![c].active = FALSE]))
  <2>1. CASE \E s \in States : ReviewState(c, s)
    BY <2>1 DEF ReviewState
  <2>2. CASE Dispute(c) \/ Settle(c) \/ Intend(c)
    BY <1>3, <2>2 DEF Dispute, Settle, Intend
  <2>3. CASE \E applied \in BOOLEAN : Conclude(c, applied)
    BY <1>3, <2>3 DEF Conclude
  <2>4. QED BY <1>1, <2>1, <2>2, <2>3
<1>5. CASE claim' = claim
  BY <1>2, <1>5, KnowledgeRests
<1>6. CASE claim' # claim
  <2>1. claim' = [d \in Claims |-> claim'[d]] /\ \A d \in Claims : claim'[d] = claim[d] \/ Decided(d)
    BY <1>4, <1>6, MovedIsDecided
  <2>2. QED BY <1>2, <2>1, DecidedGoesOn
<1>7. QED BY <1>2, <1>5, <1>6

-----------------------------------------------------------------------------
(* The steps of refresh, of any thread                                            *)
Refreshed(t) ==
    /\ KnowledgeGoesOn /\ UNCHANGED <<query, said>> /\ Moves(t)
    /\ held'[t].found = held[t].found /\ held'[t].print = held[t].print /\ held'[t].q = held[t].q
    /\ held[t].at \in {"observe", "record", "derived"} /\ held'[t].use = held[t].use
    /\ held'[t].at \in {"record", "derived", held[t].use}

LEMMA ObserveRefreshes == ASSUME QueriesInv, NEW t \in Actors, Observe(t) PROVE Refreshed(t)
<1> DEFINE seen == [n \in Notes |-> [text |-> row[n].text,
                      new |-> IF Published(n) THEN Observation(n) ELSE recon[n],
                      write |-> Published(n) /\ Observation(n) # recon[n]]]
<1> DEFINE r == [held[t] EXCEPT !.at = "record", !.seen = seen]
<1>1. row \in [Notes -> NoteStates] /\ recon \in [Notes -> SeenStates] /\ NotesTypeOK
  BY NotesTypes DEF QueriesInv
<1>2. ASSUME NEW n \in Notes
      PROVE  seen[n] \in [text : Versions, new : SeenStates, write : BOOLEAN]
  <2>1. row[n].text \in Versions /\ recon[n] \in SeenStates /\ Observation(n) \in SeenStates
    BY <1>1, ObservationTypes DEF NoteStates
  <2>2. (Published(n) /\ Observation(n) # recon[n]) \in BOOLEAN
    OBVIOUS
  <2>3. QED BY <2>1, <2>2
<1>3. seen \in Observations
  BY <1>2 DEF Observations
<1> HIDE DEF seen
<1>4. /\ r \in HeldRows /\ r.at = "record" /\ r.seen = seen /\ r.use = held[t].use /\ r.print = held[t].print
      /\ r.q = held[t].q /\ r.found = held[t].found
  BY <1>3, HeldFields DEF HeldRows, QuerySteps
<1>5. held' = [held EXCEPT ![t] = r]
  BY HeldFields DEF Observe, seen
<1>6. Moves(t) /\ held'[t] = r
  <2> HIDE DEF r
  <2>1. QED BY <1>3, <1>4, <1>5, HeldMoves
<1>7. KnowledgeGoesOn
  BY KnowledgeRests DEF Observe
<1>8. QED BY <1>4, <1>6, <1>7 DEF Observe, Refreshed

LEMMA RecordRefreshes == ASSUME QueriesInv, NEW t \in Actors, Record(t) PROVE Refreshed(t)
<1> DEFINE r == [held[t] EXCEPT !.at = "derived", !.seen = <<>>]
<1>1. recon \in [Notes -> SeenStates] /\ held[t].seen \in Observations
  BY NotesTypes DEF QueriesInv, HeldTypes, Record
<1>2. recon' \in [Notes -> SeenStates]
  <2>1. \A n \in Notes : held[t].seen[n].new \in SeenStates /\ recon[n] \in SeenStates
    BY <1>1 DEF Observations
  <2>2. QED BY <2>1 DEF Record
<1>3. KnowledgeGoesOn
  BY <1>2, ObservedGoesOn DEF Record
<1>4. /\ r \in HeldRows /\ r.at = "derived" /\ r.use = held[t].use /\ r.print = held[t].print
      /\ r.q = held[t].q /\ r.found = held[t].found
  BY HeldFields DEF HeldRows, QuerySteps
<1>5. held' = [held EXCEPT ![t] = r]
  BY HeldFields DEF Record
<1>6. Moves(t) /\ held'[t] = r
  <2> HIDE DEF r
  <2>1. QED BY <1>4, <1>5, HeldMoves
<1>7. QED BY <1>3, <1>4, <1>6 DEF Record, Refreshed

LEMMA DerivedRefreshes == ASSUME QueriesInv, NEW t \in Actors, ReconcileDerived(t) PROVE Refreshed(t)
<1> DEFINE r == [held[t] EXCEPT !.at = held[t].use]
<1> DEFINE orphans == {c \in Claims \ Locked : NoteOf[c] \notin applying /\ claim[c].active
                            /\ claim[c].state = "CURRENT" /\ \E o \in Origins[c] : ~Coherent(o)}
<1>1. /\ claim' = [c \in Claims |-> IF c \in orphans
              THEN [claim[c] EXCEPT !.state = "REVIEW_REQUIRED", !.rev = @ + 1] ELSE claim[c]]
      /\ \A c \in orphans : claim[c].active
  BY DEF ReconcileDerived
<1> HIDE DEF orphans
<1>2. claim \in [Claims -> ClaimRows] /\ "REVIEW_REQUIRED" \in States
  BY DEF QueriesInv, ClaimInv, States
<1>3. ASSUME NEW c \in Claims PROVE claim'[c] = claim[c] \/ Decided(c)
  <2>1. CASE c \in orphans
    <3>1. PICK k \in ClaimRows : k = claim[c]
      BY <1>2
    <3>2. claim'[c] = [k EXCEPT !.state = "REVIEW_REQUIRED", !.rev = @ + 1]
      BY <1>1, <2>1, <3>1
    <3>3. claim'[c] \in ClaimRows /\ claim'[c].rev = k.rev + 1 /\ claim'[c].active = k.active
      <4>1. k.rev + 1 \in Nat
        BY DEF ClaimRows
      <4>2. PICK v \in Nat : v = k.rev + 1
        BY <4>1
      <4>3. claim'[c] = [k EXCEPT !.state = "REVIEW_REQUIRED", !.rev = v]
        BY <3>2, <4>2
      <4>4. QED BY <1>2, <4>2, <4>3 DEF ClaimRows
    <3>4. claim[c].active
      BY <1>1, <2>1
    <3>5. QED BY <3>1, <3>3, <3>4 DEF Decided
  <2>2. QED BY <1>1, <2>1
<1>4. KnowledgeGoesOn
  <2>1. claim' = [c \in Claims |-> claim'[c]]
    BY <1>1
  <2>2. QED BY <1>3, <2>1, DecidedGoesOn DEF ReconcileDerived
<1>5. r \in HeldRows /\ r.at = held[t].use /\ r.use = held[t].use /\ r.print = held[t].print /\ r.q = held[t].q
      /\ r.found = held[t].found
  BY HeldFields DEF HeldRows, QuerySteps
<1>6. Moves(t) /\ held'[t] = r
  <2>1. held' = [held EXCEPT ![t] = r]
    BY HeldFields DEF ReconcileDerived
  <2>2. held[t].use # "record"
    BY HeldFields DEF Uses
  <2>3. QED BY <1>5, <2>1, <2>2, HeldMoves
<1>7. QED BY <1>4, <1>5, <1>6 DEF ReconcileDerived, Refreshed

LEMMA RefreshingHolds == ASSUME QueriesInv, NEW t \in Actors, Refreshing(t) PROVE QueriesInv'
<1>1. Refreshed(t)
  BY ObserveRefreshes, RecordRefreshes, DerivedRefreshes DEF Refreshing
<1>2. QueriesGoOn
  BY <1>1, QueriesRest DEF Refreshed
<1>3. CASE t \in Readers
  <2>1. ReaderOk(t) /\ held[t].found = {}
    BY <1>1, <1>3 DEF QueriesInv, ReaderInv, ReaderOk, Refreshed
  <2>2. Printed(t)' => Printed(t)
    BY <1>1, HeldFields DEF Printed, Refreshed, Uses
  <2>3. Printed(t)' => PrintIsNotLater(held[t].print)'
    BY <1>1, <2>1, <2>2, PrintStays DEF ReaderOk, Refreshed
  <2>4. held'[t].at # "insert"
    BY <1>1, HeldFields DEF Refreshed, Uses
  <2>5. ReaderOk(t)'
    BY <1>1, <1>3, <2>1, <2>3, <2>4, FreshReader DEF Refreshed
  <2>6. QED BY <1>1, <1>2, <1>3, <2>5, ReaderMoves DEF Refreshed
<1>4. CASE t = "worker"
  <2>1. WorkerHolds'
    BY <1>1, <1>2, <1>4 DEF QueriesInv, WorkerHolds, Refreshed, QueriesGoOn
  <2>2. QED BY <1>1, <1>2, <1>4, <2>1, WorkerMoves DEF Refreshed, QueriesGoOn
<1>5. QED BY <1>3, <1>4 DEF Actors

-----------------------------------------------------------------------------
(* The steps of a thread of the API                                               *)
LEMMA CreateHolds ==
    ASSUME QueriesInv, NEW t \in Readers, NEW q \in Questions, Create(t, q) PROVE QueriesInv'
<1>0. t \in Actors
  BY DEF Actors
<1>1. KnowledgeGoesOn /\ QueriesGoOn
  BY KnowledgeRests, QueriesRest DEF Create
<1>2. held[t].found = {}
  BY DEF QueriesInv, ReaderInv, ReaderOk, Create
<1>3. CASE query[q].status = "none"
  <2> DEFINE r == [held[t] EXCEPT !.at = "observe", !.use = "print", !.q = q]
  <2>1. r \in HeldRows /\ r.at = "observe" /\ r.use = "print" /\ r.found = {}
    BY <1>0, <1>2, HeldFields DEF HeldRows, QuerySteps, Uses
  <2>2. held' = [held EXCEPT ![t] = r]
    BY <1>0, <1>3, HeldFields DEF Create, Refresh
  <2> HIDE DEF r
  <2>3. Moves(t) /\ held'[t] = r
    BY <1>0, <2>1, <2>2, HeldMoves
  <2>4. ReaderOk(t)'
    BY <2>1, <2>3, FreshReader DEF Printed
  <2>5. QED BY <1>1, <2>3, <2>4, ReaderMoves
<1>4. CASE query[q].status # "none"
  <2> DEFINE r == [held[t] EXCEPT !.at = "get", !.q = q]
  <2>1. r \in HeldRows /\ r.at = "get" /\ r.found = {}
    BY <1>0, <1>2, HeldFields DEF HeldRows, QuerySteps
  <2>2. held' = [held EXCEPT ![t] = r]
    BY <1>0, <1>4, HeldFields DEF Create
  <2> HIDE DEF r
  <2>3. Moves(t) /\ held'[t] = r
    BY <1>0, <2>1, <2>2, HeldMoves
  <2>4. ReaderOk(t)'
    BY <2>1, <2>3, FreshReader DEF Printed
  <2>5. QED BY <1>1, <2>3, <2>4, ReaderMoves
<1>5. QED BY <1>3, <1>4

LEMMA FingerprintIsNotLater == ASSUME QueriesInv PROVE Fingerprint \in FullPrints /\ PrintIsNotLater(Fingerprint)
<1>1. claim \in [Claims -> ClaimRows] /\ row \in [Notes -> NoteStates] /\ recon \in [Notes -> SeenStates]
  BY NotesTypes DEF QueriesInv, ClaimInv
<1>2. \A c \in Claims : claim[c].state \in States /\ claim[c].rev \in Nat /\ claim[c].rev <= claim[c].rev
  <2>1. \A c \in Claims : claim[c].state \in States /\ claim[c].rev \in Nat
    BY <1>1 DEF ClaimRows
  <2>2. QED BY <2>1
<1>3. [c \in Claims |-> <<claim[c].state, claim[c].rev>>] \in [Claims -> States \X Nat]
  BY <1>2
<1>4. Fingerprint \in FullPrints
  BY <1>1, <1>3 DEF Fingerprint, FullPrints
<1>5. QED BY <1>2, <1>4 DEF Fingerprint, PrintIsNotLater

LEMMA TakePrintHolds == ASSUME QueriesInv, NEW t \in Readers, TakePrint(t) PROVE QueriesInv'
<1> DEFINE r == [held[t] EXCEPT !.print = Fingerprint, !.at = "observe", !.use = "search"]
<1>0. t \in Actors
  BY DEF Actors
<1>1. KnowledgeGoesOn /\ QueriesGoOn
  BY KnowledgeRests, QueriesRest DEF TakePrint
<1>2. held[t].found = {}
  BY DEF QueriesInv, ReaderInv, ReaderOk, TakePrint
<1>3. Fingerprint \in Prints /\ PrintIsNotLater(Fingerprint)'
  BY <1>1, FingerprintIsNotLater, PrintStays DEF Prints, TakePrint, notesVars, Fingerprint
<1> DEFINE f == Fingerprint
<1> HIDE DEF f
<1>4. r \in HeldRows /\ r.at = "observe" /\ r.print = Fingerprint /\ r.found = {}
  BY <1>0, <1>2, <1>3, HeldFields DEF HeldRows, QuerySteps, Uses
<1>5. held' = [held EXCEPT ![t] = r]
  BY <1>0, HeldFields DEF TakePrint
<1> HIDE DEF r
<1>6. Moves(t) /\ held'[t] = r
  BY <1>0, <1>4, <1>5, HeldMoves
<1>7. PrintIsNotLater(held[t].print)'
  <2>1. Fingerprint' = Fingerprint
    BY DEF TakePrint, notesVars, Fingerprint
  <2>2. (held[t].print)' = Fingerprint'
    BY <1>4, <1>6, <2>1
  <2>3. PrintIsNotLater(Fingerprint)'
    BY <1>3
  <2>4. QED BY <2>2, <2>3 DEF PrintIsNotLater
<1>8. ReaderOk(t)'
  BY <1>4, <1>6, <1>7, FreshReader
<1>9. QED BY <1>1, <1>6, <1>8, ReaderMoves

LEMMA RestHolds ==
    ASSUME QueriesInv, KnowledgeGoesOn, QueriesGoOn, NEW t \in Actors, Rest(t) PROVE QueriesInv'
<1>1. Moves(t) /\ held'[t] = Nothing
  BY NothingIsHeld, HeldMoves DEF Rest
<1>2. CASE t \in Readers
  <2>1. ReaderOk(t)'
    BY <1>1, <1>2, NothingIsHeld, FreshReader DEF Printed
  <2>2. QED BY <1>1, <1>2, <2>1, ReaderMoves
<1>3. CASE t = "worker"
  <2>1. WorkerHolds'
    BY <1>1, <1>3, NothingIsHeld DEF WorkerHolds
  <2>2. QED BY <1>1, <1>3, <2>1, WorkerMoves DEF QueriesGoOn
<1>4. QED BY <1>2, <1>3 DEF Actors

LEMMA SearchHolds == ASSUME QueriesInv, NEW t \in Readers, Search(t) PROVE QueriesInv'
<1> DEFINE r == [held[t] EXCEPT !.at = "payload", !.todo = {c \in Claims : Visible(c)}]
<1>0. t \in Actors
  BY DEF Actors
<1>1. KnowledgeGoesOn /\ QueriesGoOn
  BY KnowledgeRests, QueriesRest DEF Search
<1>2. held[t].found = {} /\ PrintIsNotLater(held[t].print)
  BY DEF QueriesInv, ReaderInv, ReaderOk, Search, Printed
<1>3. {c \in Claims : Visible(c)} \subseteq Claims
  OBVIOUS
<1>4. r \in HeldRows /\ r.at = "payload" /\ r.print = held[t].print /\ r.found = {}
  BY <1>0, <1>2, <1>3, HeldFields DEF HeldRows, QuerySteps
<1>5. held' = [held EXCEPT ![t] = r]
  BY <1>0, HeldFields DEF Search
<1> HIDE DEF r
<1>6. Moves(t) /\ held'[t] = r
  BY <1>0, <1>4, <1>5, HeldMoves
<1>7. PrintIsNotLater(held[t].print)'
  BY <1>1, <1>2, <1>4, <1>6, PrintStays DEF PrintIsNotLater
<1>8. ReaderOk(t)'
  BY <1>4, <1>6, <1>7, FreshReader
<1>9. QED BY <1>1, <1>6, <1>8, ReaderMoves

(* A claim that is shown was in force since the fingerprint, or has changed        *)
LEMMA ShownWasInForce ==
    ASSUME QueriesInv, NEW print, PrintIsNotLater(print), NEW c \in Claims, Coherent(c) PROVE WasInForce(c, print)
<1>1. NoteOf[c] \in Notes /\ claim[c].state = "CURRENT" /\ row[NoteOf[c]].status = "PUBLISHED"
  BY QueriesAssumption DEF Coherent, Published
<1>2. print.claims[c][2] = claim[c].rev => print.claims[c][1] = "CURRENT"
  BY <1>1 DEF PrintIsNotLater
<1>3. print.notes[NoteOf[c]].status # "RETIRED"
  BY <1>1 DEF PrintIsNotLater
<1>4. QED BY <1>1, <1>2, <1>3 DEF WasInForce

LEMMA ReadClaimHolds == ASSUME QueriesInv, NEW t \in Readers, ReadClaim(t) PROVE QueriesInv'
<1>0. t \in Actors
  BY DEF Actors
<1>1. KnowledgeGoesOn /\ QueriesGoOn
  BY KnowledgeRests, QueriesRest DEF ReadClaim
<1>2. PrintIsNotLater(held[t].print) /\ \A c \in held[t].found : WasInForce(c, held[t].print)
  BY DEF QueriesInv, ReaderInv, ReaderOk, ReadClaim, Printed
<1>3. PICK c \in held[t].todo :
        IF Visible(c) THEN held' = [held EXCEPT ![t].todo = @ \ {c}, ![t].found = @ \cup {c}] ELSE Rest(t)
  BY DEF ReadClaim
<1>4. CASE Visible(c)
  <2> DEFINE r == [held[t] EXCEPT !.todo = @ \ {c}, !.found = @ \cup {c}]
  <2>1. c \in Claims
    BY <1>0, HeldFields
  <2>2. held[t].at = "payload" /\ held[t].todo \ {c} \subseteq Claims /\ held[t].found \cup {c} \subseteq Claims
    BY <1>0, <2>1, HeldFields DEF ReadClaim
  <2>3. r \in HeldRows /\ r.at = "payload" /\ r.print = held[t].print /\ r.found = held[t].found \cup {c}
    BY <1>0, <2>2, HeldFields DEF HeldRows
  <2>4. held' = [held EXCEPT ![t] = r]
    BY <1>0, <1>3, <1>4, HeldFields
  <2> HIDE DEF r
  <2>5. Moves(t) /\ held'[t] = r
    BY <1>0, <2>3, <2>4, HeldMoves
  <2>6. PrintIsNotLater(held[t].print)'
    BY <1>1, <1>2, <2>3, <2>5, PrintStays DEF PrintIsNotLater
  <2>7. ASSUME NEW d \in held[t].found \cup {c} PROVE WasInForce(d, held[t].print)'
    <3>1. WasInForce(d, held[t].print) /\ d \in Claims
      BY <1>2, <1>4, <2>1, <2>2, <2>7, ShownWasInForce DEF Visible
    <3>2. PICK p : p = held[t].print
      OBVIOUS
    <3>3. WasInForce(d, p)'
      BY <1>1, <1>2, <3>1, <3>2, ForceStays
    <3>4. (held[t].print)' = p
      BY <2>3, <2>5, <3>2
    <3>5. QED BY <3>3, <3>4 DEF WasInForce
  <2>8. ReaderOk(t)'
    <3>1. held'[t].at = "payload" /\ held'[t].found = held[t].found \cup {c}
      BY <2>3, <2>5
    <3>2. \A d \in held'[t].found : WasInForce(d, held[t].print)'
      BY <2>7, <3>1
    <3>3. QED BY <2>6, <3>1, <3>2 DEF ReaderOk
  <2>9. QED BY <1>1, <2>5, <2>8, ReaderMoves
<1>5. CASE ~Visible(c)
  BY <1>0, <1>1, <1>3, <1>5, RestHolds
<1>6. QED BY <1>4, <1>5

(* What is in force by a fingerprint of now                                       *)
LEMMA NothingChanged ==
    ASSUME QueriesInv, NEW c \in Claims, WasInForce(c, Fingerprint) PROVE IsInForce(c, Fingerprint)
<1>1. NoteOf[c] \in Notes /\ row \in [Notes -> NoteStates]
  BY NotesTypes, QueriesAssumption DEF QueriesInv
<1>2. row[NoteOf[c]].status \in {"STAGED", "PUBLISHED", "RETIRED"}
  BY <1>1 DEF NoteStates
<1>3. QED BY <1>1, <1>2 DEF WasInForce, IsInForce, Fingerprint

LEMMA VerifyHolds == ASSUME QueriesInv, NEW t \in Readers, Verify(t) PROVE QueriesInv'
<1>0. t \in Actors
  BY DEF Actors
<1>1. KnowledgeGoesOn /\ QueriesGoOn
  BY KnowledgeRests, QueriesRest DEF Verify
<1>2. PrintIsNotLater(held[t].print) /\ \A c \in held[t].found : WasInForce(c, held[t].print)
  BY DEF QueriesInv, ReaderInv, ReaderOk, Verify, Printed
<1>3. CASE held[t].print = Fingerprint
  <2> DEFINE r == [held[t] EXCEPT !.at = "insert"]
  <2>1. r \in HeldRows /\ r.at = "insert" /\ r.print = held[t].print /\ r.found = held[t].found
    BY <1>0, HeldFields DEF HeldRows, QuerySteps
  <2>2. held' = [held EXCEPT ![t] = r]
    BY <1>0, <1>3, HeldFields DEF Verify
  <2> HIDE DEF r
  <2>3. Moves(t) /\ held'[t] = r
    BY <1>0, <2>1, <2>2, HeldMoves
  <2>4. PrintIsNotLater(held[t].print)'
    BY <1>1, <1>2, <2>1, <2>3, PrintStays DEF PrintIsNotLater
  <2>5. ASSUME NEW d \in held[t].found PROVE (WasInForce(d, held[t].print) /\ IsInForce(d, held[t].print))'
    <3>1. WasInForce(d, held[t].print) /\ d \in Claims
      BY <1>0, <1>2, <2>5, HeldFields
    <3>2. IsInForce(d, held[t].print)
      BY <1>3, <3>1, NothingChanged DEF WasInForce, IsInForce
    <3>3. (held[t].print)' = held[t].print
      BY <2>1, <2>3
    <3>4. QED BY <3>1, <3>2, <3>3 DEF WasInForce, IsInForce, Verify, notesVars
  <2>6. ReaderOk(t)'
    <3>1. held'[t].at = "insert" /\ held'[t].found = held[t].found
      BY <2>1, <2>3
    <3>2. \A d \in held'[t].found : (WasInForce(d, held[t].print) /\ IsInForce(d, held[t].print))'
      BY <2>5, <3>1
    <3>3. QED BY <2>4, <3>1, <3>2 DEF ReaderOk
  <2>7. QED BY <1>1, <2>3, <2>6, ReaderMoves
<1>4. CASE held[t].print # Fingerprint
  BY <1>0, <1>1, <1>4, RestHolds DEF Verify
<1>5. QED BY <1>3, <1>4

-----------------------------------------------------------------------------
(* How a row of the queries is written, and an answer told                        *)
LEMMA QueryFields ==
    ASSUME QueriesInv, NEW q \in Questions
    PROVE  /\ query \in [Questions -> QueryRows] /\ query[q] \in QueryRows /\ RowOk(query[q])
           /\ query[q].status \in Statuses /\ query[q].evidence \subseteq Claims /\ query[q].print \in Prints
           /\ query[q].judged \in BOOLEAN /\ query[q].answer \subseteq Claims /\ query[q].attempt \in Nat
BY DEF QueriesInv, AnswerTypes, EvidenceInv, QueryRows

LEMMA RowWritten ==
    ASSUME QueriesInv, NEW q \in Questions, NEW r \in QueryRows, RowOk(r), query' = [query EXCEPT ![q] = r],
           UNCHANGED said
    PROVE  /\ AnswerTypes' /\ EvidenceInv'
           /\ (query[q].status # "none" => r.status # "none" /\ r.evidence = query[q].evidence) => QueriesGoOn
<1>1. query \in [Questions -> QueryRows]
  BY DEF QueriesInv, AnswerTypes
<1>2. AnswerTypes'
  BY <1>1 DEF QueriesInv, AnswerTypes
<1>3. \A p \in Questions : query'[p] = query[p] \/ (p = q /\ query'[p] = r)
  BY <1>1
<1>4. EvidenceInv'
  <2>1. \A p \in Questions : RowOk(query[p])
    BY DEF QueriesInv, EvidenceInv
  <2>2. \A p \in Questions : RowOk(query'[p])
    BY <1>3, <2>1
  <2>3. QED BY <2>2 DEF EvidenceInv, RowOk, IsInForce
<1>5. QED BY <1>2, <1>3, <1>4 DEF QueriesGoOn

LEMMA TransitionGoes ==
    ASSUME QueriesInv, NEW q \in Questions, NEW r \in QueryRows, RowOk(r), Transition(q, r), UNCHANGED said,
           query[q].status # "none" => r.status # "none" /\ r.evidence = query[q].evidence
    PROVE  QueriesGoOn
BY RowWritten, QueriesRest DEF Transition

LEMMA TellGoes ==
    ASSUME QueriesInv, NEW q, NEW status, q \in Questions => status \in Statuses, Tell(q, status), UNCHANGED query
    PROVE  QueriesGoOn
<1>1. query \in [Questions -> QueryRows] /\ said \in [Questions -> [status : Statuses, answer : SUBSET Claims]]
  BY DEF QueriesInv, AnswerTypes
<1>2. said' \in [Questions -> [status : Statuses, answer : SUBSET Claims]]
  <2>1. CASE q \in Questions
    <3>1. query[q].answer \subseteq Claims
      BY <2>1, QueryFields
    <3>2. QED BY <1>1, <2>1, <3>1 DEF Tell
  <2>2. CASE q \notin Questions
    BY <1>1, <2>2 DEF Tell
  <2>3. QED BY <2>1, <2>2
<1>3. QED BY <1>1, <1>2 DEF QueriesGoOn, AnswerTypes, QueriesInv, EvidenceInv, RowOk, IsInForce

-----------------------------------------------------------------------------
LEMMA InsertHolds == ASSUME QueriesInv, NEW t \in Readers, Insert(t) PROVE QueriesInv'
<1> DEFINE q == held[t].q
           r == [Nothing EXCEPT !.at = "get", !.q = q]
           new == [query[q] EXCEPT !.status = IF held[t].found = {} THEN "SUCCESS" ELSE "READY",
                                   !.evidence = held[t].found, !.print = held[t].print]
<1>0. t \in Actors
  BY DEF Actors
<1>1. KnowledgeGoesOn
  BY KnowledgeRests DEF Insert
<1>2. /\ held[t].print \in FullPrints /\ held[t].found \subseteq Claims
      /\ \A c \in held[t].found : IsInForce(c, held[t].print)
  BY <1>0, HeldFields DEF QueriesInv, ReaderInv, ReaderOk, Insert, Printed, PrintIsNotLater
<1>3. QueriesGoOn
  <2>1. CASE query' = query
    BY <2>1, QueriesRest DEF Insert
  <2>2. CASE query' # query
    <3>1. query[q].status = "none"
          /\ query' = [query EXCEPT ![q].status = IF held[t].found = {} THEN "SUCCESS" ELSE "READY",
                                    ![q].evidence = held[t].found, ![q].print = held[t].print]
      BY <2>2 DEF Insert
    <3>2. query \in [Questions -> QueryRows]
      BY DEF QueriesInv, AnswerTypes
    <3>3. q \in Questions
      BY <2>2, <3>1, <3>2
    <3>4. query' = [query EXCEPT ![q] = new]
      BY <3>1, <3>2, <3>3
    <3>5. query[q] \in QueryRows /\ query[q].answer = {}
      BY <3>1, <3>3, QueryFields DEF RowOk
    <3>6. new \in QueryRows /\ new.evidence = held[t].found /\ new.print = held[t].print /\ new.answer = query[q].answer
          /\ new.status \in {"SUCCESS", "READY"}
      BY <1>2, <3>5 DEF QueryRows, Statuses, Prints
    <3>7. RowOk(new)
      BY <1>2, <3>5, <3>6 DEF RowOk
    <3> HIDE DEF new
    <3>8. QED BY <3>1, <3>3, <3>4, <3>6, <3>7, RowWritten DEF Insert
  <2>3. QED BY <2>1, <2>2
<1>4. r \in HeldRows /\ r.at = "get" /\ r.found = {}
  BY <1>0, HeldFields, NothingIsHeld DEF HeldRows, QuerySteps
<1>5. held' = [held EXCEPT ![t] = r]
  BY DEF Insert
<1> HIDE DEF r
<1>6. Moves(t) /\ held'[t] = r
  BY <1>0, <1>4, <1>5, HeldMoves
<1>7. ReaderOk(t)'
  BY <1>4, <1>6, FreshReader DEF Printed
<1>8. QED BY <1>1, <1>3, <1>6, <1>7, ReaderMoves

LEMMA GetHolds == ASSUME QueriesInv, NEW t \in Readers, Get(t) PROVE QueriesInv'
<1> DEFINE q == held[t].q
           r == [held[t] EXCEPT !.at = "observe", !.use = "compare", !.q = q]
<1>0. t \in Actors
  BY DEF Actors
<1>1. KnowledgeGoesOn
  BY KnowledgeRests DEF Get
<1>2. held[t].found = {}
  BY DEF QueriesInv, ReaderInv, ReaderOk, Get
<1>3. CASE query[q].status = "SUCCESS"
  <2>1. r \in HeldRows /\ r.at = "observe" /\ r.use = "compare" /\ r.found = {}
    BY <1>0, <1>2, HeldFields DEF HeldRows, QuerySteps, Uses
  <2>2. held' = [held EXCEPT ![t] = r]
    BY <1>0, <1>3, HeldFields DEF Get, Refresh
  <2> HIDE DEF r
  <2>3. Moves(t) /\ held'[t] = r
    BY <1>0, <2>1, <2>2, HeldMoves
  <2>4. ReaderOk(t)'
    BY <2>1, <2>3, FreshReader DEF Printed
  <2>5. QueriesGoOn
    BY <1>3, QueriesRest DEF Get
  <2>6. QED BY <1>1, <2>3, <2>4, <2>5, ReaderMoves
<1>4. CASE query[q].status # "SUCCESS"
  <2>1. Tell(q, query[q].status) /\ Rest(t) /\ UNCHANGED query
    BY <1>4 DEF Get
  <2>2. q \in Questions => query[q].status \in Statuses
    BY QueryFields
  <2>3. QueriesGoOn
    BY <2>1, <2>2, TellGoes
  <2>4. QED BY <1>0, <1>1, <2>1, <2>3, RestHolds
<1>5. QED BY <1>3, <1>4

LEMMA CompareHolds == ASSUME QueriesInv, NEW t \in Readers, Compare(t) PROVE QueriesInv'
<1> DEFINE q == held[t].q
           r == [held[t] EXCEPT !.at = "outdated"]
<1>0. t \in Actors
  BY DEF Actors
<1>1. KnowledgeGoesOn
  BY KnowledgeRests DEF Compare
<1>2. held[t].found = {}
  BY DEF QueriesInv, ReaderInv, ReaderOk, Compare
<1>3. CASE query[q].print = Fingerprint
  <2>1. Tell(q, "SUCCESS") /\ Rest(t) /\ UNCHANGED query
    BY <1>3 DEF Compare
  <2>2. "SUCCESS" \in Statuses
    BY DEF Statuses
  <2>3. QueriesGoOn
    BY <2>1, <2>2, TellGoes
  <2>4. QED BY <1>0, <1>1, <2>1, <2>3, RestHolds
<1>4. CASE query[q].print # Fingerprint
  <2>1. r \in HeldRows /\ r.at = "outdated" /\ r.found = {}
    BY <1>0, <1>2, HeldFields DEF HeldRows, QuerySteps
  <2>2. held' = [held EXCEPT ![t] = r]
    BY <1>0, <1>4, HeldFields DEF Compare
  <2> HIDE DEF r
  <2>3. Moves(t) /\ held'[t] = r
    BY <1>0, <2>1, <2>2, HeldMoves
  <2>4. ReaderOk(t)'
    BY <2>1, <2>3, FreshReader DEF Printed
  <2>5. QueriesGoOn
    BY <1>4, QueriesRest DEF Compare
  <2>6. QED BY <1>1, <2>3, <2>4, <2>5, ReaderMoves
<1>5. QED BY <1>3, <1>4

LEMMA OutdatedHolds == ASSUME QueriesInv, NEW t \in Actors, Outdated(t) PROVE QueriesInv'
<1> DEFINE q == held[t].q
           new == [query[q] EXCEPT !.status = "STALE"]
           r == [held[t] EXCEPT !.at = "get"]
<1>1. KnowledgeGoesOn
  BY KnowledgeRests DEF Outdated
<1>2. QueriesGoOn
  <2>1. CASE q \in Questions
    <3>1. new \in QueryRows /\ new.status = "STALE" /\ new.evidence = query[q].evidence
          /\ new.answer = query[q].answer /\ new.print = query[q].print
      BY <2>1, QueryFields DEF QueryRows, Statuses
    <3>2. RowOk(new)
      BY <2>1, <3>1, QueryFields DEF RowOk
    <3>3. Transition(q, new) /\ UNCHANGED said
      BY DEF Outdated
    <3> HIDE DEF new
    <3>4. QED BY <2>1, <3>1, <3>2, <3>3, TransitionGoes
  <2>2. CASE q \notin Questions
    <3>1. query \in [Questions -> QueryRows]
      BY DEF QueriesInv, AnswerTypes
    <3>2. query' = query \/ query' = [query EXCEPT ![q] = new]
      BY DEF Outdated, Transition
    <3>3. query' = query
      BY <2>2, <3>1, <3>2
    <3>4. QED BY <3>3, QueriesRest DEF Outdated
  <2>3. QED BY <2>1, <2>2
<1>3. CASE t = "worker"
  BY <1>1, <1>2, <1>3, RestHolds DEF Outdated
<1>4. CASE t # "worker"
  <2>1. t \in Readers
    BY <1>4 DEF Actors
  <2>2. held[t].found = {}
    BY <2>1 DEF QueriesInv, ReaderInv, ReaderOk, Outdated
  <2>3. r \in HeldRows /\ r.at = "get" /\ r.found = {}
    BY <2>2, HeldFields DEF HeldRows, QuerySteps
  <2>4. held' = [held EXCEPT ![t] = r]
    BY <1>4, HeldFields DEF Outdated
  <2> HIDE DEF r
  <2>5. Moves(t) /\ held'[t] = r
    BY <2>3, <2>4, HeldMoves
  <2>6. ReaderOk(t)'
    BY <2>1, <2>3, <2>5, FreshReader DEF Printed
  <2>7. QED BY <1>1, <1>2, <2>1, <2>5, <2>6, ReaderMoves
<1>5. QED BY <1>3, <1>4

-----------------------------------------------------------------------------
(* The steps of the worker                                                        *)
LEMMA WorkerRow ==
    ASSUME QueriesInv, KnowledgeGoesOn, AnswerTypes', EvidenceInv', NEW r \in HeldRows,
           held' = [held EXCEPT !["worker"] = r], r.at # "record",
           r.q \in Questions, query'[r.q].status # "none", r.found \subseteq query'[r.q].evidence
    PROVE  QueriesInv'
<1>1. "worker" \in Actors
  BY DEF Actors
<1>2. Moves("worker") /\ held'["worker"] = r
  BY <1>1, HeldMoves
<1>3. WorkerHolds'
  BY <1>2 DEF WorkerHolds
<1>4. QED BY <1>2, <1>3, WorkerMoves

LEMMA WorkerFields ==
    ASSUME QueriesInv, held["worker"].at # "idle"
    PROVE  /\ "worker" \in Actors /\ held["worker"] \in HeldRows
           /\ held["worker"].q \in Questions /\ query[held["worker"].q].status # "none"
           /\ held["worker"].found \subseteq query[held["worker"].q].evidence
           /\ held["worker"].found \subseteq Claims
BY HeldFields DEF QueriesInv, WorkerHolds, Actors

LEMMA ClaimHolds ==
    ASSUME QueriesInv, NEW q \in Questions, NEW judge \in BOOLEAN, Claim(q, judge) PROVE QueriesInv'
<1> DEFINE new == [query[q] EXCEPT !.status = "SUBMITTING", !.attempt = @ + 1]
           r == [Nothing EXCEPT !.q = q, !.at = IF judge /\ ~query[q].judged THEN "judge" ELSE "submit"]
<1>1. KnowledgeGoesOn
  BY KnowledgeRests DEF Claim
<1>2. query[q].attempt + 1 \in Nat /\ query[q].status = "READY"
  BY QueryFields DEF Claim
<1>3. PICK k \in Nat : k = query[q].attempt + 1
  BY <1>2
<1>4. new \in QueryRows /\ new.status = "SUBMITTING" /\ new.evidence = query[q].evidence
      /\ new.answer = query[q].answer /\ new.print = query[q].print
  <2>1. new = [query[q] EXCEPT !.status = "SUBMITTING", !.attempt = k]
    BY <1>3
  <2>2. QED BY <1>3, <2>1, QueryFields DEF QueryRows, Statuses
<1>5. RowOk(new)
  BY <1>2, <1>4, QueryFields DEF RowOk
<1>6. query' = [query EXCEPT ![q] = new] /\ UNCHANGED said
  BY QueryFields DEF Claim
<1> HIDE DEF new
<1>7. QueriesGoOn /\ query'[q] = new
  BY <1>4, <1>5, <1>6, QueryFields, RowWritten
<1>8. r \in HeldRows /\ r.at # "record" /\ r.q = q /\ r.found = {}
  BY NothingIsHeld DEF HeldRows, QuerySteps, Uses, Nothing
<1>9. held' = [held EXCEPT !["worker"] = r]
  BY DEF Claim
<1> HIDE DEF r
<1>10. QED BY <1>1, <1>4, <1>7, <1>8, <1>9, WorkerRow DEF QueriesGoOn

LEMMA JudgeHolds == ASSUME QueriesInv, Judge PROVE QueriesInv'
<1>1. KnowledgeGoesOn /\ QueriesGoOn
  BY KnowledgeRests, QueriesRest DEF Judge
<1>2. PICK chosen \in (SUBSET query[held["worker"].q].evidence) \ {{}} :
        held' = [held EXCEPT !["worker"] = [@ EXCEPT !.found = chosen, !.at = "observe", !.use = "judged"]]
  BY DEF Judge
<1>3. held["worker"].at # "idle"
  BY DEF Judge
<1> DEFINE r == [held["worker"] EXCEPT !.found = chosen, !.at = "observe", !.use = "judged"]
<1>4. chosen \subseteq Claims /\ chosen \subseteq query[held["worker"].q].evidence
  BY <1>2, <1>3, WorkerFields, QueryFields
<1>5. r \in HeldRows /\ r.at = "observe" /\ r.q = held["worker"].q /\ r.found = chosen
  BY <1>3, <1>4, WorkerFields DEF HeldRows, QuerySteps, Uses
<1>6. held' = [held EXCEPT !["worker"] = r]
  BY <1>2, <1>3, WorkerFields, HeldFields
<1> HIDE DEF r
<1>7. query' = query
  BY DEF Judge
<1>8. QED BY <1>1, <1>3, <1>4, <1>5, <1>6, <1>7, WorkerFields, WorkerRow DEF QueriesGoOn

(* A step of the worker that only goes to another place                           *)
LEMMA WorkerPlace ==
    ASSUME QueriesInv, held["worker"].at # "idle", NEW at \in QuerySteps, at # "record",
           held' = [held EXCEPT !["worker"].at = at], UNCHANGED <<notesVars, claim, query, said>>
    PROVE  QueriesInv'
<1> DEFINE r == [held["worker"] EXCEPT !.at = at]
<1>1. KnowledgeGoesOn /\ QueriesGoOn
  BY KnowledgeRests, QueriesRest
<1>2. r \in HeldRows /\ r.at = at /\ r.q = held["worker"].q /\ r.found = held["worker"].found
  BY WorkerFields DEF HeldRows
<1>3. held' = [held EXCEPT !["worker"] = r]
  BY WorkerFields, HeldFields
<1> HIDE DEF r
<1>4. QED BY <1>1, <1>2, <1>3, WorkerFields, WorkerRow DEF QueriesGoOn

LEMMA CompareJudgedHolds == ASSUME QueriesInv, CompareJudged PROVE QueriesInv'
BY WorkerPlace DEF CompareJudged, QuerySteps

LEMMA CompareAnswerHolds == ASSUME QueriesInv, CompareAnswer PROVE QueriesInv'
BY WorkerPlace DEF CompareAnswer, QuerySteps

LEMMA PrepareHolds == ASSUME QueriesInv, Prepare PROVE QueriesInv'
<1> DEFINE q == held["worker"].q
           new == [query[q] EXCEPT !.evidence = held["worker"].found, !.judged = TRUE]
           r == [Nothing EXCEPT !.q = q, !.at = "submit"]
<1>1. KnowledgeGoesOn
  BY KnowledgeRests DEF Prepare
<1>2. held["worker"].at # "idle"
  BY DEF Prepare
<1>3. q \in Questions
  BY <1>2, WorkerFields
<1>4. CASE query[q].status # "SUBMITTING"
  BY <1>1, <1>2, <1>4, WorkerFields, QueriesRest, RestHolds DEF Prepare
<1>5. CASE query[q].status = "SUBMITTING"
  <2>1. AnswerTypes' /\ EvidenceInv' /\ query'[q].status # "none"
    <3>1. CASE query' = query
      BY <1>5, <3>1, QueriesRest DEF Prepare, QueriesGoOn
    <3>2. CASE query' = [query EXCEPT ![q].evidence = held["worker"].found, ![q].judged = TRUE]
      <4>1. new \in QueryRows /\ new.status = "SUBMITTING" /\ new.evidence = held["worker"].found
            /\ new.answer = query[q].answer /\ new.print = query[q].print
        BY <1>2, <1>3, <1>5, WorkerFields, QueryFields DEF QueryRows
      <4>2. query[q].answer = {}
        BY <1>3, <1>5, QueryFields DEF RowOk
      <4>3. RowOk(new)
        BY <1>2, <1>3, <4>1, <4>2, WorkerFields, QueryFields DEF RowOk
      <4>4. query' = [query EXCEPT ![q] = new]
        BY <1>3, <3>2, QueryFields
      <4> HIDE DEF new
      <4>5. QED BY <1>3, <4>1, <4>3, <4>4, QueryFields, RowWritten DEF Prepare
    <3>3. QED BY <3>1, <3>2 DEF Prepare
  <2>2. r \in HeldRows /\ r.at = "submit" /\ r.q = q /\ r.found = {}
    BY <1>3, NothingIsHeld DEF HeldRows, QuerySteps, Nothing, Uses
  <2>3. held' = [held EXCEPT !["worker"] = r]
    BY <1>5 DEF Prepare
  <2> HIDE DEF r
  <2>4. QED BY <1>1, <1>3, <2>1, <2>2, <2>3, WorkerRow
<1>6. QED BY <1>4, <1>5

(* A state that no answer has, of a query that has not ended                      *)
LEMMA StatusGoes ==
    ASSUME QueriesInv, NEW q \in Questions, NEW status \in {"READY", "SUBMITTING", "QUEUED", "PROCESSING", "ERROR"},
           Transition(q, [query[q] EXCEPT !.status = status]), UNCHANGED said
    PROVE  QueriesGoOn
<1> DEFINE new == [query[q] EXCEPT !.status = status]
<1>1. CASE query' = query
  BY <1>1, QueriesRest
<1>2. CASE query' = [query EXCEPT ![q] = new] /\ query[q].status \notin {"SUCCESS", "STALE", "ERROR"}
  <2>1. new \in QueryRows /\ new.status = status /\ new.evidence = query[q].evidence
        /\ new.answer = query[q].answer /\ new.print = query[q].print
    BY QueryFields DEF QueryRows, Statuses
  <2>2. query[q].answer = {}
    BY <1>2, QueryFields DEF RowOk
  <2>3. RowOk(new)
    BY <2>1, <2>2, QueryFields DEF RowOk
  <2> HIDE DEF new
  <2>4. QED BY <1>2, <2>1, <2>3, RowWritten
<1>3. "STALE" # status
  OBVIOUS
<1>4. new.status = status
  BY QueryFields DEF QueryRows
<1>5. QED BY <1>1, <1>2, <1>3, <1>4 DEF Transition

LEMMA SubmitQueryHolds == ASSUME QueriesInv, NEW decision, SubmitQuery(decision) PROVE QueriesInv'
<1> DEFINE q == held["worker"].q
<1>1. q \in Questions /\ "worker" \in Actors
  BY WorkerFields DEF SubmitQuery
<1>2. PICK status \in {"READY", "SUBMITTING", "QUEUED", "PROCESSING", "ERROR"} :
        Transition(q, [query[q] EXCEPT !.status = status])
  BY DEF SubmitQuery
<1>3. QueriesGoOn
  BY <1>1, <1>2, StatusGoes DEF SubmitQuery
<1>4. QED BY <1>1, <1>3, KnowledgeRests, RestHolds DEF SubmitQuery

LEMMA SubmissionBreaksHolds == ASSUME QueriesInv, SubmissionBreaks PROVE QueriesInv'
BY KnowledgeRests, QueriesRest, RestHolds DEF SubmissionBreaks, Actors

LEMMA PollHolds == ASSUME QueriesInv, NEW q \in Questions, NEW answer, Poll(q, answer) PROVE QueriesInv'
<1>1. KnowledgeGoesOn
  BY KnowledgeRests DEF Poll
<1>2. CASE answer \in {"working", "failed"}
  <2>1. PICK status \in {"READY", "SUBMITTING", "QUEUED", "PROCESSING", "ERROR"} :
          Transition(q, [query[q] EXCEPT !.status = status])
    BY <1>2 DEF Poll
  <2>2. QueriesGoOn
    BY <2>1, StatusGoes DEF Poll
  <2>3. held' = held
    BY <1>2 DEF Poll
  <2>4. QED BY <1>1, <2>2, <2>3, NobodyMoves
<1>3. CASE answer \notin {"working", "failed"}
  <2>1. UNCHANGED <<query, said>> /\ query[q].status # "none"
        /\ \E ids \in SUBSET query[q].evidence : held' = [held EXCEPT !["worker"] = [Nothing EXCEPT !.q = q,
                        !.found = ids, !.at = "observe", !.use = "complete"]]
    BY <1>3 DEF Poll
  <2>2. PICK ids \in SUBSET query[q].evidence : held' = [held EXCEPT !["worker"] = [Nothing EXCEPT !.q = q,
                        !.found = ids, !.at = "observe", !.use = "complete"]]
    BY <2>1
  <2> DEFINE r == [Nothing EXCEPT !.q = q, !.found = ids, !.at = "observe", !.use = "complete"]
  <2>3. r \in HeldRows /\ r.at = "observe" /\ r.q = q /\ r.found = ids
    BY QueryFields, NothingIsHeld DEF HeldRows, QuerySteps, Uses, Nothing
  <2>4. held' = [held EXCEPT !["worker"] = r]
    BY <2>2
  <2> HIDE DEF r
  <2>5. AnswerTypes' /\ EvidenceInv'
    BY <2>1, QueriesRest DEF QueriesGoOn
  <2>6. QED BY <1>1, <2>1, <2>3, <2>4, <2>5, WorkerRow
<1>4. QED BY <1>2, <1>3

LEMMA StoreAnswerHolds == ASSUME QueriesInv, StoreAnswer PROVE QueriesInv'
<1> DEFINE q == held["worker"].q
           new == [query[q] EXCEPT !.status = "SUCCESS", !.answer = held["worker"].found]
<1>1. held["worker"].at # "idle" /\ UNCHANGED <<notesVars, claim, said>> /\ Transition(q, new) /\ Rest("worker")
  BY DEF StoreAnswer
<1>2. q \in Questions /\ query[q] \in QueryRows
  BY <1>1, WorkerFields, QueryFields
<1>3. new \in QueryRows /\ new.status = "SUCCESS" /\ new.evidence = query[q].evidence
      /\ new.answer = held["worker"].found /\ new.print = query[q].print
  BY <1>1, <1>2, WorkerFields DEF QueryRows, Statuses
<1>4. RowOk(new)
  BY <1>1, <1>2, <1>3, WorkerFields, QueryFields DEF RowOk
<1>5. QueriesGoOn
  <2> HIDE DEF new
  <2>1. QED BY <1>1, <1>2, <1>3, <1>4, TransitionGoes
<1>6. QED BY <1>1, <1>5, WorkerFields, KnowledgeRests, RestHolds

LEMMA RestartHolds == ASSUME QueriesInv, RestartQueries PROVE QueriesInv'
<1>1. KnowledgeGoesOn
  BY KnowledgeRests DEF RestartQueries
<1>2. ASSUME NEW q \in Questions PROVE query'[q] \in QueryRows /\ RowOk(query'[q])
  <2>1. CASE query[q].status = "SUBMITTING"
    <3>1. query'[q] = [query[q] EXCEPT !.status = "READY"]
      BY <2>1 DEF RestartQueries
    <3>2. query'[q] \in QueryRows /\ query'[q].status = "READY" /\ query'[q].evidence = query[q].evidence
          /\ query'[q].answer = query[q].answer /\ query'[q].print = query[q].print
      BY <3>1, QueryFields DEF QueryRows, Statuses
    <3>3. query[q].answer = {}
      BY <2>1, QueryFields DEF RowOk
    <3>4. QED BY <3>2, <3>3, QueryFields DEF RowOk
  <2>2. CASE query[q].status # "SUBMITTING"
    BY <2>2, QueryFields DEF RestartQueries
  <2>3. QED BY <2>1, <2>2
<1>3. AnswerTypes' /\ EvidenceInv'
  <2>1. query' = [q \in Questions |-> query'[q]]
    BY DEF RestartQueries
  <2>2. EvidenceInv'
    BY <1>2 DEF EvidenceInv, RowOk, IsInForce
  <2>3. QED BY <1>2, <2>1, <2>2 DEF RestartQueries, QueriesInv, AnswerTypes
<1>4. \A t \in Actors : held'[t] = Nothing
  BY DEF RestartQueries
<1>5. HeldTypes'
  BY <1>4, NothingIsHeld DEF RestartQueries, HeldTypes
<1>6. ReaderInv'
  BY <1>4, NothingIsHeld, FreshReader DEF ReaderInv, Actors, Printed
<1>7. WorkerHolds'
  BY <1>4, NothingIsHeld DEF WorkerHolds, Actors
<1>8. QED BY <1>1, <1>3, <1>5, <1>6, <1>7 DEF QueriesInv, KnowledgeGoesOn

-----------------------------------------------------------------------------
LEMMA AnsweringHolds == ASSUME QueriesInv, Answering PROVE QueriesInv'
<1>1. "worker" \in Actors
  BY DEF Actors
<1>2. CASE Refreshing("worker") \/ Outdated("worker")
  BY <1>1, <1>2, RefreshingHolds, OutdatedHolds
<1>3. CASE \E q \in Questions, judge \in BOOLEAN : Claim(q, judge)
  BY <1>3, ClaimHolds
<1>4. CASE Judge \/ CompareJudged \/ Prepare \/ SubmissionBreaks \/ CompareAnswer \/ StoreAnswer
  BY <1>4, JudgeHolds, CompareJudgedHolds, PrepareHolds, SubmissionBreaksHolds, CompareAnswerHolds, StoreAnswerHolds
<1>5. CASE \E d \in {"accepted", "transient", "permanent"} : SubmitQuery(d)
  BY <1>5, SubmitQueryHolds
<1>6. CASE \E q \in Questions, a \in {"working", "failed", "completed"} : Poll(q, a)
  BY <1>6, PollHolds
<1>7. QED BY <1>2, <1>3, <1>4, <1>5, <1>6 DEF Answering

LEMMA ReaderStepHolds == ASSUME QueriesInv, NEW t \in Readers, ReaderStep(t) PROVE QueriesInv'
<1>1. t \in Actors
  BY DEF Actors
<1>2. CASE Refreshing(t) \/ Outdated(t)
  BY <1>1, <1>2, RefreshingHolds, OutdatedHolds
<1>3. CASE TakePrint(t) \/ Search(t) \/ ReadClaim(t) \/ Verify(t)
  BY <1>3, TakePrintHolds, SearchHolds, ReadClaimHolds, VerifyHolds
<1>4. CASE Insert(t) \/ Get(t) \/ Compare(t)
  BY <1>4, InsertHolds, GetHolds, CompareHolds
<1>5. QED BY <1>2, <1>3, <1>4 DEF ReaderStep

LEMMA QueriesHold == ASSUME QueriesInv, QueriesNext PROVE QueriesInv'
<1>1. CASE Answering \/ RestartQueries
  BY <1>1, AnsweringHolds, RestartHolds
<1>2. CASE Deciders
  <2>1. KnowledgeGoesOn /\ UNCHANGED <<held, query, said>>
    BY <1>2, DecidersGoOn
  <2>2. QED BY <2>1, QueriesRest, NobodyMoves
<1>3. CASE \E t \in Readers : ReaderStep(t) \/ (\E q \in Questions : Create(t, q))
  BY <1>3, ReaderStepHolds, CreateHolds
<1>4. QED BY <1>1, <1>2, <1>3 DEF QueriesNext

(* The person and the publication change the notes; the index only observes them   *)
LEMMA NotesHold ==
    ASSUME QueriesInv, UNCHANGED queryVars,
           NotesNext \/ (recon' \in [Notes -> SeenStates] /\ UNCHANGED <<row, file, edits>>)
    PROVE  QueriesInv'
<1>1. UNCHANGED <<claim, query, said, held>>
  BY DEF queryVars
<1>2. KnowledgeGoesOn
  BY <1>1, NotesGoOn, ObservedGoesOn
<1>3. QED BY <1>1, <1>2, QueriesRest, NobodyMoves

LEMMA QueriesAtStart == Init => QueriesInv
<1> SUFFICES ASSUME NotesInit, QueriesInit PROVE QueriesInv
  BY DEF Init
<1>1. NotesTypeOK
  <2>1. 1 \in Versions /\ 0 \in 0..MaxEdits
    BY NotesAssumption DEF Versions
  <2>2. row \in [Notes -> NoteStates]
    BY <2>1 DEF NotesInit, NoteStates
  <2>3. file \in [Notes -> Versions \cup {NoFile}] /\ recon \in [Notes -> SeenStates]
    BY <2>1 DEF NotesInit, SeenStates
  <2>4. QED BY <2>1, <2>2, <2>3, NotesTypes DEF NotesInit
<1>2. HeldTypes /\ ReaderInv /\ WorkerHolds
  <2>1. held = [t \in Actors |-> Nothing]
    BY DEF QueriesInit
  <2>2. HeldTypes
    BY <2>1, NothingIsHeld DEF HeldTypes
  <2>3. ReaderInv
    BY <2>1, NothingIsHeld DEF ReaderInv, ReaderOk, Printed, Actors
  <2>4. WorkerHolds
    BY <2>1, NothingIsHeld DEF WorkerHolds, Actors
  <2>5. QED BY <2>2, <2>3, <2>4
<1>3. ClaimInv
  BY DEF QueriesInit, ClaimInv, ClaimRows, States
<1>4. NoQuery \in QueryRows /\ RowOk(NoQuery)
  BY DEF NoQuery, QueryRows, RowOk, Statuses, Prints
<1>5. AnswerTypes /\ EvidenceInv
  BY <1>4 DEF QueriesInit, AnswerTypes, EvidenceInv, Statuses
<1>6. QED BY <1>1, <1>2, <1>3, <1>5 DEF QueriesInv

(* The index does nothing to the notes but observe them                           *)
LEMMA IndexObserves ==
    ASSUME QueriesInv, IndexNext
    PROVE  recon' \in [Notes -> SeenStates] /\ UNCHANGED <<row, file, edits>>
<1>1. recon \in [Notes -> SeenStates] /\ NotesTypeOK
  BY NotesTypes DEF QueriesInv
<1>2. CASE UNCHANGED notesVars
  BY <1>1, <1>2 DEF notesVars
<1>3. ASSUME NEW t \in {"worker", "api"}, RefreshRead(t)
      PROVE  recon' \in [Notes -> SeenStates] /\ UNCHANGED <<row, file, edits>>
  <2>1. PICK n \in cut[t].todo : recon' = Reconciled({n})
    BY <1>3 DEF RefreshRead
  <2>2. \A m \in Notes : recon[m] \in SeenStates /\ Observation(m) \in SeenStates
    BY <1>1, ObservationTypes
  <2>3. QED BY <1>3, <2>1, <2>2 DEF RefreshRead, Reconciled
<1>4. \/ UNCHANGED notesVars
      \/ \E t \in {"worker", "api"} : RefreshRead(t)
  <2>1. ASSUME NEW t \in {"worker", "api"}, RefreshStore(t) \/ RefreshClean(t) \/ CompleteRetrieval(t)
        PROVE  UNCHANGED notesVars
    BY <2>1 DEF RefreshStore, RefreshClean, CompleteRetrieval
  <2>2. ASSUME CycleStart \/ ScheduleRead \/ ScheduleInsert \/ DispatchRead \/ CycleEnd \/ IndexCrash
        PROVE  UNCHANGED notesVars
    BY <2>2 DEF CycleStart, ScheduleRead, ScheduleInsert, DispatchRead, CycleEnd, IndexCrash
  <2>3. ASSUME NEW x, PollRead(x) \/ Submit(x) \/ PollQuestion(x) \/ SetModel(x) \/ Ask(x)
        PROVE  UNCHANGED notesVars
    BY <2>3 DEF PollRead, Submit, PollQuestion, SetModel, Ask
  <2>4. ASSUME NEW j, JobCompleted(j) \/ JobTooLong(j) \/ JobFailed(j) \/ JobBreaksTheCycle(j)
        PROVE  UNCHANGED notesVars
    BY <2>4 DEF JobCompleted, JobTooLong, JobFailed, JobBreaksTheCycle
  <2>5. QED BY <2>1, <2>2, <2>3, <2>4 DEF IndexNext, WorkerStep, ThreadStep
<1>5. QED BY <1>2, <1>3, <1>4

LEMMA QueriesUnchanged == ASSUME QueriesInv, UNCHANGED <<notesVars, queryVars>> PROVE QueriesInv'
<1>1. UNCHANGED <<claim, query, said, held>>
  BY DEF queryVars
<1>2. QED BY <1>1, KnowledgeRests, QueriesRest, NobodyMoves

LEMMA QueriesKept == QueriesInv /\ [Next]_vars => QueriesInv'
<1> SUFFICES ASSUME QueriesInv, [Next]_vars PROVE QueriesInv'
  OBVIOUS
<1>1. CASE IndexScene /\ IndexNext
  BY <1>1, IndexObserves, NotesHold DEF IndexScene, Scene
<1>2. CASE IndexScene /\ NotesNext
  BY <1>2, NotesHold DEF IndexScene, Scene
<1>3. CASE QueryScene /\ QueriesNext
  BY <1>3, QueriesHold
<1>4. CASE QueryScene /\ NotesNext /\ UNCHANGED queryVars
  BY <1>4, NotesHold
<1>5. CASE SessionScene \/ ScreenScene \/ CopyScene \/ UNCHANGED vars
  <2>1. UNCHANGED <<notesVars, queryVars>>
    BY <1>5 DEF SessionScene, ScreenScene, CopyScene, Scene, vars, noteScenes
  <2>2. QED BY <2>1, QueriesUnchanged
<1>6. QED BY <1>1, <1>2, <1>3, <1>4, <1>5 DEF Next

-----------------------------------------------------------------------------
(* Nothing is told but by these two                                               *)
LEMMA OnlyTheseTell ==
    ASSUME QueriesNext PROVE UNCHANGED said \/ \E t \in Readers : Get(t) \/ Compare(t)
<1>1. ASSUME NEW t, Refreshing(t) \/ TakePrint(t) \/ Search(t) \/ ReadClaim(t) \/ Verify(t) \/ Insert(t) \/ Outdated(t)
      PROVE  UNCHANGED said
  BY <1>1 DEF Refreshing, Observe, Record, ReconcileDerived, TakePrint, Search, ReadClaim, Verify, Insert, Outdated
<1>2. ASSUME NEW t, NEW q, Create(t, q) \/ Claim(q, t) \/ Poll(q, t) \/ SubmitQuery(t)
      PROVE  UNCHANGED said
  BY <1>2 DEF Create, Claim, Poll, SubmitQuery
<1>3. ASSUME Judge \/ CompareJudged \/ Prepare \/ SubmissionBreaks \/ CompareAnswer \/ StoreAnswer \/ RestartQueries
      PROVE  UNCHANGED said
  BY <1>3 DEF Judge, CompareJudged, Prepare, SubmissionBreaks, CompareAnswer, StoreAnswer, RestartQueries
<1>4. ASSUME NEW c, NEW x, ReviewState(c, x) \/ Intend(c) \/ Dispute(c) \/ Settle(c) \/ Conclude(c, x)
      PROVE  UNCHANGED said
  BY <1>4 DEF ReviewState, Intend, Dispute, Settle, Conclude, Deciding, Ending, Untold
<1>5. QED BY <1>1, <1>2, <1>3, <1>4 DEF QueriesNext, Answering, Deciders, ReaderStep

LEMMA ComparedStands == ASSUME QueriesInv, NEW t \in Readers, Compare(t), NEW q \in Questions PROVE ToldStands(q)
<1> SUFFICES ASSUME Told(q) PROVE said'[q].answer \subseteq query[q].evidence /\ \A c \in said'[q].answer : InForceNow(c)
  BY DEF ToldStands
<1>1. said \in [Questions -> [status : Statuses, answer : SUBSET Claims]]
  BY DEF QueriesInv, AnswerTypes
<1>2. query[q].print = Fingerprint /\ said'[q].answer = query[q].answer
  BY <1>1 DEF Compare, Told, Tell
<1>3. query[q].answer \subseteq query[q].evidence /\ query[q].evidence \subseteq Claims
      /\ \A c \in query[q].evidence : IsInForce(c, Fingerprint)
  BY <1>2, QueryFields DEF RowOk
<1>4. ASSUME NEW c \in query[q].answer PROVE InForceNow(c)
  <2>1. c \in Claims /\ NoteOf[c] \in Notes /\ IsInForce(c, Fingerprint)
    BY <1>3, QueriesAssumption
  <2>2. claim[c].state = "CURRENT" /\ Published(NoteOf[c])
    BY <2>1 DEF IsInForce, Fingerprint, Published
  <2>3. claim[c].active
    BY <2>1, <2>2 DEF QueriesInv, ClaimInv
  <2>4. QED BY <2>2, <2>3 DEF InForceNow
<1>5. QED BY <1>2, <1>3, <1>4

LEMMA GetStands == ASSUME QueriesInv, NEW t \in Readers, Get(t), NEW q \in Questions PROVE ToldStands(q)
<1>1. said \in [Questions -> [status : Statuses, answer : SUBSET Claims]]
  BY DEF QueriesInv, AnswerTypes
<1>2. ~Told(q)
  BY <1>1 DEF Get, Told, Tell
<1>3. QED BY <1>2 DEF ToldStands

(* The evidence of a query was in force when its fingerprint was taken, and an    *)
(* answer that is told cites nothing but evidence of its query that is in force   *)
(* at that moment (create, complete and get of knowledge_query.py).               *)
THEOREM AnswersStandAlways == Spec => AnswersStand
<1>1. QueriesInv /\ QueriesInv' /\ [Next]_vars => [EvidenceIsCoherent' /\ \A q \in Questions : ToldStands(q)]_vars
  <2> SUFFICES ASSUME QueriesInv, QueriesInv', Next
               PROVE  EvidenceIsCoherent' /\ \A q \in Questions : ToldStands(q)
    OBVIOUS
  <2>1. EvidenceIsCoherent'
    BY DEF QueriesInv, EvidenceInv, RowOk, IsInForce, EvidenceIsCoherent
  <2>2. CASE QueryScene /\ QueriesNext
    <3>1. CASE \E t \in Readers : Get(t) \/ Compare(t)
      BY <2>1, <3>1, ComparedStands, GetStands
    <3>2. CASE UNCHANGED said
      BY <2>1, <3>2 DEF ToldStands, Told
    <3>3. QED BY <2>2, <3>1, <3>2, OnlyTheseTell
  <2>3. CASE ~(QueryScene /\ QueriesNext)
    <3>1. UNCHANGED said
      BY <2>3 DEF Next, IndexScene, QueryScene, SessionScene, ScreenScene, CopyScene, Scene, noteScenes, queryVars
    <3>2. QED BY <2>1, <3>1 DEF ToldStands, Told
  <2>4. QED BY <2>1, <2>2, <2>3
<1>2. QED BY <1>1, QueriesAtStart, QueriesKept, PTL DEF Spec, AnswersStand

-----------------------------------------------------------------------------
(* The fragments                                                                  *)
FragmentsById(f) ==
    /\ DOMAIN f \subseteq Nat /\ f \in [DOMAIN f -> Fragment]
    /\ \E bound \in Nat : \A id \in DOMAIN f : id <= bound
SameText(a, b) == a.note = b.note /\ a.text = b.text
HalvesTogether(f) == \A id \in DOMAIN f : f[id].part # "whole" =>
    \A h \in Range(Halves) : \E k \in DOMAIN f : SameText(f[k], f[id]) /\ f[k].part = h
FragsOk == FragmentsById(frags) /\ HalvesTogether(frags)
CutRow(c) ==
    /\ c = [at |-> c.at, todo |-> c.todo, doc |-> c.doc, question |-> c.question, by |-> c.by]
    /\ c.todo \subseteq Notes
    /\ c.at = "storing" => c.doc.note \in Notes /\ c.doc.text \in Versions
CutOk == cut = [t \in Threads |-> cut[t]] /\ \A t \in Threads : CutRow(cut[t])

TextsOf == {<<>>} \cup UNION {[ids -> Fragment] : ids \in SUBSET Nat}

(* The jobs. One is in hand when it is live, or when the worker still holds it     *)
(* for a write that does not look at its status again                             *)
JobRows == [status : {"none", "READY", "QUEUED", "ERROR"}, model : Models \cup {NoModel}, texts : TextsOf, attempt : Nat]
HeldRow(j) == round.stage \in {"dispatch", "poll"} /\ <<"job", j>> \in round.rows
InHand(j) == Live(j) \/ HeldRow(j)
Apart(a, b) == a.model = b.model => DOMAIN a.texts \cap DOMAIN b.texts = {}
JobsApart == \A i, j \in Jobs : i # j /\ InHand(i) /\ InHand(j) => Apart(jobs[i], jobs[j])
PlannedApart == round.stage = "schedule" =>
    /\ round.rows \subseteq JobRows
    /\ \A a, b \in round.rows : a # b => Apart(a, b)
    /\ \A a \in round.rows, j \in Jobs : Live(j) => Apart(a, jobs[j])
Pairs == {<<"question", q>> : q \in Retrievals} \cup {<<"job", j>> : j \in Jobs}
RoundOk ==
    /\ round = [stage |-> round.stage, rows |-> round.rows]
    /\ round.stage \in {"dispatch", "poll"} => round.rows \subseteq Pairs
JobTypes == model \in Models \cup {NoModel} /\ jobs \in [Jobs -> JobRows]
IndexInv ==
    /\ FragsOk /\ CutOk /\ VectorsAreOfTheModel
    /\ JobTypes /\ RoundOk /\ JobsApart /\ PlannedApart

-----------------------------------------------------------------------------
(* Ids and fragments                                                              *)
LEMMA GreatestId ==
    ASSUME NEW S \in SUBSET Nat, S # {}, NEW bound \in Nat, \A id \in S : id <= bound
    PROVE  \E i \in S : \A j \in S : j <= i
<1> DEFINE below == {bound - id : id \in S}
<1>1. below \subseteq Nat /\ below # {}
  <2>1. \A id \in S : bound - id \in Nat
    OBVIOUS
  <2>2. PICK id \in S : TRUE
    OBVIOUS
  <2>3. bound - id \in below
    OBVIOUS
  <2>4. QED BY <2>1, <2>3
<1> HIDE DEF below
<1>2. \E m \in below : \A s \in below : <<s, m>> \notin OpToRel(<, Nat)
  BY <1>1, NatLessThanWellFounded, WFMin, Zenon
<1>3. PICK m \in below : \A s \in below : ~(s < m)
  BY <1>1, <1>2 DEF OpToRel
<1>4. PICK i \in S : m = bound - i
  BY DEF below
<1>5. \A j \in S : ~(bound - j < bound - i)
  BY <1>3, <1>4 DEF below
<1>6. ASSUME NEW j \in S PROVE j <= i
  BY <1>5
<1>7. QED BY <1>6

LEMMA NextIdIsNew ==
    ASSUME NEW f, FragmentsById(f)
    PROVE  NextId(f) \in Nat /\ \A id \in DOMAIN f : id < NextId(f)
<1>1. CASE DOMAIN f = {}
  BY <1>1 DEF NextId
<1>2. CASE DOMAIN f # {}
  <2>1. \E i \in DOMAIN f : \A j \in DOMAIN f : j <= i
    BY <1>2, GreatestId DEF FragmentsById
  <2>2. PICK i \in DOMAIN f : NextId(f) = 1 + i /\ \A j \in DOMAIN f : j <= i
    BY <1>2, <2>1 DEF NextId
  <2>3. i \in Nat /\ DOMAIN f \subseteq Nat
    BY DEF FragmentsById
  <2>4. QED BY <2>2, <2>3
<1>3. QED BY <1>1, <1>2

LEMMA NewFragments ==
    ASSUME NEW f, FragmentsById(f), NEW new, Len(new) \in Nat, new \in [1..Len(new) -> Fragment]
    PROVE  /\ FragmentsById(WithNew(f, new)) /\ DOMAIN f \subseteq DOMAIN WithNew(f, new)
           /\ \A id \in DOMAIN f : WithNew(f, new)[id] = f[id]
           /\ \A id \in DOMAIN WithNew(f, new) \ DOMAIN f : \E k \in 1..Len(new) : WithNew(f, new)[id] = new[k]
           /\ \A k \in 1..Len(new) : \E id \in DOMAIN WithNew(f, new) : WithNew(f, new)[id] = new[k]
<1> DEFINE first == NextId(f)
           n == Len(new)
           ids == first .. (first + n - 1)
           g == [i \in DOMAIN f \cup ids |-> IF i \in ids THEN new[i - first + 1] ELSE f[i]]
<1>1. WithNew(f, new) = g
  BY DEF WithNew
<1>2. first \in Nat /\ \A id \in DOMAIN f : id < first
  BY NextIdIsNew
<1>3. DOMAIN f \subseteq Nat /\ f \in [DOMAIN f -> Fragment]
  BY DEF FragmentsById
<1> HIDE DEF first
<1>15. n \in Nat /\ new \in [1..n -> Fragment]
  OBVIOUS
<1>16. n = Len(new)
  OBVIOUS
<1> HIDE DEF n
<1>4. ids \subseteq Nat /\ \A i \in ids : i - first + 1 \in 1..n
  BY <1>2, <1>15
<1>5. \A id \in DOMAIN f : id \notin ids
  BY <1>2, <1>3
<1>6. DOMAIN g = DOMAIN f \cup ids
  OBVIOUS
<1>7. \A id \in DOMAIN f : g[id] = f[id]
  BY <1>5
<1>8. \A id \in ids : g[id] = new[id - first + 1]
  OBVIOUS
<1>9. \A id \in DOMAIN g : g[id] \in Fragment
  BY <1>3, <1>4, <1>6, <1>7, <1>8, <1>15
<1>10. \E bound \in Nat : \A id \in DOMAIN g : id <= bound
  <2>1. first + n \in Nat /\ \A id \in DOMAIN g : id <= first + n
    BY <1>2, <1>3, <1>6, <1>15
  <2>2. QED BY <2>1
<1>11. FragmentsById(g)
  <2>1. DOMAIN g \subseteq Nat
    BY <1>3, <1>4, <1>6
  <2>2. g \in [DOMAIN g -> Fragment]
    BY <1>9
  <2> HIDE DEF g
  <2>3. QED BY <1>10, <2>1, <2>2 DEF FragmentsById
<1>12. \A id \in DOMAIN g \ DOMAIN f : \E k \in 1..n : g[id] = new[k]
  BY <1>4, <1>6, <1>8
<1>13. ASSUME NEW k \in 1..n PROVE \E id \in DOMAIN g : g[id] = new[k]
  <2>1. first + k - 1 \in ids /\ (first + k - 1) - first + 1 = k
    BY <1>2, <1>15
  <2>2. QED BY <1>6, <1>8, <2>1
<1> HIDE DEF g
<1>14. QED BY <1>1, <1>6, <1>16, <1>7, <1>11, <1>12, <1>13

LEMMA WithoutSome ==
    ASSUME FragmentsById(frags), NEW ids
    PROVE  /\ FragmentsById(Without(ids)) /\ DOMAIN Without(ids) = DOMAIN frags \ ids
           /\ \A id \in DOMAIN frags \ ids : Without(ids)[id] = frags[id]
<1> DEFINE g == [x \in DOMAIN frags \ ids |-> frags[x]]
<1>1. Without(ids) = g
  BY DEF Without, Restrict
<1>2. DOMAIN g = DOMAIN frags \ ids /\ \A id \in DOMAIN frags \ ids : g[id] = frags[id]
  OBVIOUS
<1>3. \A id \in DOMAIN g : g[id] \in Fragment
  BY DEF FragmentsById
<1>4. g \in [DOMAIN g -> Fragment]
  BY <1>3
<1> HIDE DEF g
<1>5. FragmentsById(g)
  BY <1>2, <1>4 DEF FragmentsById
<1>6. QED BY <1>1, <1>2, <1>5

(* What is dropped of a version is all its fragments                              *)
LEMMA WithoutVersions ==
    ASSUME FragsOk, NEW ids, \A i, k \in DOMAIN frags : SameText(frags[i], frags[k]) /\ i \in ids => k \in ids
    PROVE  FragmentsById(Without(ids)) /\ HalvesTogether(Without(ids))
<1> DEFINE g == Without(ids)
<1>1. FragmentsById(g) /\ DOMAIN g = DOMAIN frags \ ids /\ \A id \in DOMAIN frags \ ids : g[id] = frags[id]
  BY WithoutSome DEF FragsOk
<1> HIDE DEF g
<1>2. ASSUME NEW id \in DOMAIN g, g[id].part # "whole", NEW h \in Range(Halves)
      PROVE  \E k \in DOMAIN g : SameText(g[k], g[id]) /\ g[k].part = h
  <2>1. id \in DOMAIN frags /\ id \notin ids /\ g[id] = frags[id]
    BY <1>1
  <2>2. PICK k \in DOMAIN frags : SameText(frags[k], frags[id]) /\ frags[k].part = h
    BY <1>2, <2>1 DEF FragsOk, HalvesTogether
  <2>3. k \notin ids
    BY <2>1, <2>2
  <2>4. QED BY <1>1, <2>1, <2>2, <2>3
<1>3. HalvesTogether(g)
  BY <1>2 DEF HalvesTogether
<1>4. QED BY <1>1, <1>3 DEF g

LEMMA PartNames == Range(Halves) = {"first", "second"} /\ Parts = {"whole", "first", "second"}
                   /\ Halves[1] = "first" /\ Halves[2] = "second"
BY DEF Halves, Range, Parts

(* store_fragments: the fragments of the note give way to the one of its text     *)
LEMMA WholeStored ==
    ASSUME FragsOk, NEW n \in Notes, NEW v \in Versions
    PROVE  LET kept == Without({id \in DOMAIN frags : frags[id].note = n})
               f == WithNew(kept, <<[note |-> n, text |-> v, part |-> "whole"]>>)
           IN  FragmentsById(f) /\ HalvesTogether(f)
<1> DEFINE kept == Without({id \in DOMAIN frags : frags[id].note = n})
           new == <<[note |-> n, text |-> v, part |-> "whole"]>>
           f == WithNew(kept, new)
<1>1. FragmentsById(kept) /\ HalvesTogether(kept)
  BY WithoutVersions DEF SameText
<1> HIDE DEF kept
<1>2. new \in [1..1 -> Fragment] /\ Len(new) = 1 /\ new[1].part = "whole"
  BY PartNames DEF Fragment
<1> HIDE DEF new
<1>3. /\ FragmentsById(f) /\ DOMAIN kept \subseteq DOMAIN f
      /\ \A id \in DOMAIN kept : f[id] = kept[id]
      /\ \A id \in DOMAIN f \ DOMAIN kept : \E k \in 1..1 : f[id] = new[k]
  <2>1. PICK g : g = kept
    OBVIOUS
  <2>2. FragmentsById(g) /\ Len(new) \in Nat /\ new \in [1..Len(new) -> Fragment]
    BY <1>1, <1>2, <2>1
  <2>3. /\ FragmentsById(WithNew(g, new)) /\ DOMAIN g \subseteq DOMAIN WithNew(g, new)
        /\ \A id \in DOMAIN g : WithNew(g, new)[id] = g[id]
        /\ \A id \in DOMAIN WithNew(g, new) \ DOMAIN g : \E k \in 1..Len(new) : WithNew(g, new)[id] = new[k]
    BY <2>2, NewFragments
  <2>4. QED BY <1>2, <2>1, <2>3
<1> HIDE DEF f
<1>4. ASSUME NEW id \in DOMAIN f, f[id].part # "whole", NEW h \in Range(Halves)
      PROVE  \E k \in DOMAIN f : SameText(f[k], f[id]) /\ f[k].part = h
  <2>1. id \in DOMAIN kept /\ f[id] = kept[id]
    BY <1>2, <1>3, <1>4
  <2>2. PICK k \in DOMAIN kept : SameText(kept[k], kept[id]) /\ kept[k].part = h
    BY <1>1, <1>4, <2>1 DEF HalvesTogether
  <2>3. QED BY <1>3, <2>1, <2>2
<1>5. HalvesTogether(f)
  BY <1>4 DEF HalvesTogether
<1>6. QED BY <1>3, <1>5 DEF f, new, kept

(* split_fragment: a whole text gives way to its halves                           *)
LEMMA HalvesStored ==
    ASSUME FragsOk, NEW id \in DOMAIN frags, frags[id].part = "whole"
    PROVE  FragmentsById(SplitAt(id)) /\ HalvesTogether(SplitAt(id))
<1> DEFINE kept == Without({id})
           new == [k \in 1..2 |-> [frags[id] EXCEPT !.part = Halves[k]]]
           f == WithNew(kept, new)
<1>0. frags[id] \in Fragment /\ 2 \in Nat
  BY DEF FragsOk, FragmentsById
<1>1. FragmentsById(kept) /\ DOMAIN kept = DOMAIN frags \ {id} /\ \A k \in DOMAIN frags \ {id} : kept[k] = frags[k]
  BY WithoutSome DEF FragsOk
<1> HIDE DEF kept
<1>2. /\ new \in [1..2 -> Fragment]
      /\ \A k \in 1..2 : SameText(new[k], frags[id]) /\ new[k].part = Halves[k]
  BY <1>0, PartNames DEF Fragment, SameText
<1>3. Len(new) = 2
  OBVIOUS
<1> HIDE DEF new
<1>4. /\ FragmentsById(f) /\ DOMAIN kept \subseteq DOMAIN f
      /\ \A k \in DOMAIN kept : f[k] = kept[k]
      /\ \A k \in DOMAIN f \ DOMAIN kept : \E p \in 1..2 : f[k] = new[p]
      /\ \A p \in 1..2 : \E k \in DOMAIN f : f[k] = new[p]
  <2>1. PICK g, halves : g = kept /\ halves = new
    OBVIOUS
  <2>2. FragmentsById(g) /\ Len(halves) \in Nat /\ halves \in [1..Len(halves) -> Fragment]
    BY <1>0, <1>1, <1>2, <1>3, <2>1
  <2>3. PICK w : w = WithNew(g, halves)
    OBVIOUS
  <2>4. FragmentsById(w) /\ DOMAIN g \subseteq DOMAIN w /\ \A k \in DOMAIN g : w[k] = g[k]
    BY <2>2, <2>3, NewFragments
  <2>5. \A k \in DOMAIN w \ DOMAIN g : \E p \in 1..Len(halves) : w[k] = halves[p]
    BY <2>2, <2>3, NewFragments
  <2>6. \A p \in 1..Len(halves) : \E k \in DOMAIN w : w[k] = halves[p]
    BY <2>2, <2>3, NewFragments
  <2>7. w = f /\ Len(halves) = 2
    BY <1>3, <2>1, <2>3
  <2>8. QED BY <2>1, <2>4, <2>5, <2>6, <2>7
<1> HIDE DEF f
<1>5. ASSUME NEW i \in DOMAIN f, f[i].part # "whole", NEW h \in Range(Halves)
      PROVE  \E k \in DOMAIN f : SameText(f[k], f[i]) /\ f[k].part = h
  <2>1. CASE i \in DOMAIN kept
    <3>1. i \in DOMAIN frags /\ f[i] = frags[i]
      BY <1>1, <1>4, <2>1
    <3>2. PICK k \in DOMAIN frags : SameText(frags[k], frags[i]) /\ frags[k].part = h
      BY <1>5, <3>1 DEF FragsOk, HalvesTogether
    <3>3. k \in DOMAIN kept
      BY <1>1, <3>2, PartNames
    <3>4. QED BY <1>1, <1>4, <3>1, <3>2, <3>3
  <2>2. CASE i \notin DOMAIN kept
    <3>1. PICK p \in 1..2 : f[i] = new[p]
      BY <1>4, <2>2
    <3>2. PICK r \in 1..2 : Halves[r] = h
      BY PartNames
    <3>3. PICK k \in DOMAIN f : f[k] = new[r]
      BY <1>4
    <3>4. QED BY <1>2, <3>1, <3>2, <3>3 DEF SameText
  <2>3. QED BY <2>1, <2>2
<1>6. HalvesTogether(f)
  BY <1>5 DEF HalvesTogether
<1>7. QED BY <1>4, <1>6 DEF f, new, kept, SplitAt

(* The notes whose parts all have a vector are whole in the index                 *)
LEMMA IndexedAreWhole == ASSUME FragsOk PROVE IndexedNotesAreWhole
<1> SUFFICES ASSUME NEW n \in Notes, Published(n), n \notin Unindexed(model)
             PROVE  "whole" \in PartsOf(n) \/ Range(Halves) \subseteq PartsOf(n)
  BY DEF IndexedNotesAreWhole
<1>1. PICK id \in DOMAIN frags : frags[id].note = n /\ InForce(frags[id])
  BY DEF Unindexed, CurrentOf
<1>2. CASE frags[id].part = "whole"
  BY <1>1, <1>2 DEF PartsOf, CurrentOf
<1>3. CASE frags[id].part # "whole"
  <2>1. ASSUME NEW h \in Range(Halves) PROVE h \in PartsOf(n)
    <3>1. PICK k \in DOMAIN frags : SameText(frags[k], frags[id]) /\ frags[k].part = h
      BY <1>3 DEF FragsOk, HalvesTogether
    <3>2. k \in CurrentOf(n)
      BY <1>1, <3>1 DEF SameText, CurrentOf, InForce
    <3>3. QED BY <3>1, <3>2 DEF PartsOf
  <2>2. QED BY <2>1
<1>4. QED BY <1>2, <1>3

-----------------------------------------------------------------------------
(* The steps that touch the fragments, and what the threads have read             *)
LEMMA FragmentSteps ==
    ASSUME IndexNext
    PROVE  \/ UNCHANGED frags
           \/ \E t \in Threads : RefreshStore(t) \/ RefreshClean(t)
           \/ \E j \in Jobs : JobTooLong(j)
<1>1. ASSUME NEW t, RefreshRead(t) \/ CompleteRetrieval(t) PROVE UNCHANGED frags
  BY <1>1 DEF RefreshRead, CompleteRetrieval
<1>2. ASSUME CycleStart \/ ScheduleRead \/ ScheduleInsert \/ DispatchRead \/ CycleEnd \/ IndexCrash
      PROVE  UNCHANGED frags
  BY <1>2 DEF CycleStart, ScheduleRead, ScheduleInsert, DispatchRead, CycleEnd, IndexCrash
<1>3. ASSUME NEW x, PollRead(x) \/ Submit(x) \/ PollQuestion(x) \/ SetModel(x) \/ Ask(x) PROVE UNCHANGED frags
  BY <1>3 DEF PollRead, Submit, PollQuestion, SetModel, Ask
<1>4. ASSUME NEW j, JobCompleted(j) \/ JobFailed(j) \/ JobBreaksTheCycle(j) PROVE UNCHANGED frags
  BY <1>4 DEF JobCompleted, JobFailed, JobBreaksTheCycle
<1>5. QED BY <1>1, <1>2, <1>3, <1>4 DEF IndexNext, WorkerStep, ThreadStep, Threads

LEMMA FragmentsKept == ASSUME IndexInv, IndexNext PROVE FragsOk'
<1>0. FragsOk
  BY DEF IndexInv
<1>1. CASE UNCHANGED frags
  BY <1>0, <1>1 DEF FragsOk, FragmentsById, HalvesTogether, SameText
<1>2. ASSUME NEW t \in Threads, RefreshStore(t) PROVE FragsOk'
  <2>1. cut[t].doc.note \in Notes /\ cut[t].doc.text \in Versions
    BY <1>2 DEF IndexInv, CutOk, CutRow, RefreshStore
  <2>2. PICK n \in Notes, v \in Versions : n = cut[t].doc.note /\ v = cut[t].doc.text
    BY <2>1
  <2>3. frags' = WithNew(Without({id \in DOMAIN frags : frags[id].note = n}),
                         <<[note |-> n, text |-> v, part |-> "whole"]>>)
    BY <1>2, <2>2 DEF RefreshStore
  <2>4. FragmentsById(frags') /\ HalvesTogether(frags')
    BY <1>0, <2>3, WholeStored
  <2>5. QED BY <2>4 DEF FragsOk, FragmentsById, HalvesTogether, SameText
<1>3. ASSUME NEW t \in Threads, RefreshClean(t) PROVE FragsOk'
  <2> DEFINE ids == {id \in DOMAIN frags : ~InForce(frags[id])}
  <2>1. \A i, k \in DOMAIN frags : SameText(frags[i], frags[k]) /\ i \in ids => k \in ids
    BY DEF SameText, InForce
  <2>2. frags' = Without(ids)
    BY <1>3 DEF RefreshClean
  <2> HIDE DEF ids
  <2>3. FragmentsById(frags') /\ HalvesTogether(frags')
    BY <1>0, <2>1, <2>2, WithoutVersions
  <2>4. QED BY <2>3 DEF FragsOk, FragmentsById, HalvesTogether, SameText
<1>4. ASSUME NEW j \in Jobs, JobTooLong(j) PROVE FragsOk'
  <2>1. PICK id : frags' = IF TooLong(id) THEN SplitAt(id) ELSE frags
    BY <1>4 DEF JobTooLong
  <2>2. CASE TooLong(id)
    <3>1. FragmentsById(frags') /\ HalvesTogether(frags')
      BY <1>0, <2>1, <2>2, HalvesStored DEF TooLong
    <3>2. QED BY <3>1 DEF FragsOk, FragmentsById, HalvesTogether, SameText
  <2>3. CASE ~TooLong(id)
    BY <1>1, <2>1, <2>3
  <2>4. QED BY <2>2, <2>3
<1>5. QED BY <1>1, <1>2, <1>3, <1>4, FragmentSteps

LEMMA VectorsKept == ASSUME IndexInv, IndexNext PROVE VectorsAreOfTheModel'
<1>0. \A v \in vectors : v.key = v.by
  BY DEF IndexInv, VectorsAreOfTheModel
<1>1. CASE vectors' \subseteq vectors
  BY <1>0, <1>1 DEF VectorsAreOfTheModel
<1>2. ASSUME NEW t, RefreshStore(t) \/ RefreshClean(t) \/ RefreshRead(t) \/ CompleteRetrieval(t)
      PROVE  vectors' \subseteq vectors
  BY <1>2 DEF RefreshStore, RefreshClean, RefreshRead, CompleteRetrieval, CascadeTo
<1>3. ASSUME CycleStart \/ ScheduleRead \/ ScheduleInsert \/ DispatchRead \/ CycleEnd \/ IndexCrash
      PROVE  vectors' \subseteq vectors
  BY <1>3 DEF CycleStart, ScheduleRead, ScheduleInsert, DispatchRead, CycleEnd, IndexCrash
<1>4. ASSUME NEW x, PollRead(x) \/ Submit(x) \/ PollQuestion(x) \/ SetModel(x) \/ Ask(x)
      PROVE  vectors' \subseteq vectors
  BY <1>4 DEF PollRead, Submit, PollQuestion, SetModel, Ask
<1>5. ASSUME NEW j, JobTooLong(j) \/ JobFailed(j) \/ JobBreaksTheCycle(j) PROVE vectors' \subseteq vectors
  BY <1>5 DEF JobTooLong, JobFailed, JobBreaksTheCycle, CascadeTo
<1>6. ASSUME NEW j, JobCompleted(j) PROVE VectorsAreOfTheModel'
  <2> DEFINE stored == DOMAIN jobs[j].texts \cap DOMAIN frags
             new == {[id |-> id, key |-> jobs[j].model, by |-> jobs[j].model, of |-> jobs[j].texts[id]] : id \in stored}
  <2>1. \A v \in new : v.key = v.by
    OBVIOUS
  <2>2. vectors' \subseteq vectors \cup new
    BY <1>6 DEF JobCompleted
  <2> HIDE DEF new
  <2>3. QED BY <1>0, <2>1, <2>2 DEF VectorsAreOfTheModel
<1>7. QED BY <1>1, <1>2, <1>3, <1>4, <1>5, <1>6 DEF IndexNext, WorkerStep, ThreadStep

LEMMA CutWritten ==
    ASSUME CutOk, NEW t \in Threads, NEW r, CutRow(r), cut' = [cut EXCEPT ![t] = r]
    PROVE  CutOk'
<1>1. \A u \in Threads : cut'[u] = IF u = t THEN r ELSE cut[u]
  BY DEF CutOk
<1>2. \A u \in Threads : CutRow(cut'[u])
  BY <1>1 DEF CutOk
<1>3. cut' = [u \in Threads |-> cut'[u]]
  BY DEF CutOk
<1>4. QED BY <1>2, <1>3 DEF CutOk, CutRow

LEMMA CutStarts ==
    ASSUME CutOk, NEW t \in Threads, NEW q, NEW by, RefreshStart(t, q, by) PROVE CutOk'
<1> DEFINE r == [at |-> "reading", todo |-> {n \in Notes : NeedsCut(n)}, doc |-> NoDocument, question |-> q, by |-> by]
<1>1. CutRow(r)
  BY DEF CutRow
<1>2. cut' = [cut EXCEPT ![t] = r]
  BY DEF RefreshStart
<1> HIDE DEF r
<1>3. QED BY <1>1, <1>2, CutWritten

LEMMA CutIdle == CutRow(Idle)
BY DEF CutRow, Idle

LEMMA CutRowOf ==
    ASSUME NEW at, NEW todo \in SUBSET Notes, NEW doc, NEW q, NEW by,
           NEW r \in [at : {at}, todo : {todo}, doc : {doc}, question : {q}, by : {by}],
           at = "storing" => doc.note \in Notes /\ doc.text \in Versions
    PROVE  CutRow(r)
<1>1. r.at = at /\ r.todo = todo /\ r.doc = doc
  OBVIOUS
<1>2. r = [at |-> r.at, todo |-> r.todo, doc |-> r.doc, question |-> r.question, by |-> r.by]
  OBVIOUS
<1>3. QED BY <1>1, <1>2 DEF CutRow

LEMMA CutReads == ASSUME NotesTypeOK, CutOk, NEW t \in Threads, RefreshRead(t) PROVE CutOk'
<1>1. PICK n \in cut[t].todo :
        cut' = [cut EXCEPT ![t].todo = @ \ {n},
                           ![t].doc = IF InSync(n) THEN [note |-> n, text |-> file[n]] ELSE NoDocument,
                           ![t].at = IF InSync(n) THEN "storing" ELSE "reading"]
  BY DEF RefreshRead
<1>2. PICK a, td, d, q, b : cut[t] = [at |-> a, todo |-> td, doc |-> d, question |-> q, by |-> b] /\ td \subseteq Notes
  BY DEF CutOk, CutRow
<1>3. n \in td /\ n \in Notes
  BY <1>1, <1>2
<1> DEFINE doc == IF InSync(n) THEN [note |-> n, text |-> file[n]] ELSE NoDocument
           at == IF InSync(n) THEN "storing" ELSE "reading"
<1>4. at = "storing" => doc.note \in Notes /\ doc.text \in Versions
  BY <1>3 DEF InSync, Published, NotesTypeOK
<1>5. cut' = [cut EXCEPT ![t].todo = @ \ {n}, ![t].doc = doc, ![t].at = at]
  BY <1>1
<1> HIDE DEF doc, at
<1>6. cut[t] \in [at : {a}, todo : {td}, doc : {d}, question : {q}, by : {b}]
  BY <1>2
<1>7. [cut[t] EXCEPT !.todo = @ \ {n}, !.doc = doc, !.at = at]
        \in [at : {at}, todo : {td \ {n}}, doc : {doc}, question : {q}, by : {b}]
  BY <1>6
<1>8. cut' = [cut EXCEPT ![t] = [cut[t] EXCEPT !.todo = @ \ {n}, !.doc = doc, !.at = at]]
  BY <1>5 DEF CutOk
<1>9. CutRow([cut[t] EXCEPT !.todo = @ \ {n}, !.doc = doc, !.at = at])
  <2>1. td \ {n} \subseteq Notes
    BY <1>2
  <2>2. PICK x, at1, doc1 : x = [cut[t] EXCEPT !.todo = @ \ {n}, !.doc = doc, !.at = at] /\ at1 = at /\ doc1 = doc
    OBVIOUS
  <2>3. x \in [at : {at1}, todo : {td \ {n}}, doc : {doc1}, question : {q}, by : {b}]
    BY <1>7, <2>2
  <2>4. at1 = "storing" => doc1.note \in Notes /\ doc1.text \in Versions
    BY <1>4, <2>2
  <2>5. CutRow(x)
    BY <2>1, <2>3, <2>4, CutRowOf
  <2>6. QED BY <2>2, <2>5
<1>10. QED BY <1>8, <1>9, CutWritten

LEMMA CutMoves ==
    ASSUME CutOk, NEW t \in Threads, RefreshStore(t) \/ RefreshClean(t) PROVE CutOk'
<1>1. PICK a, td, d, q, b : cut[t] = [at |-> a, todo |-> td, doc |-> d, question |-> q, by |-> b] /\ td \subseteq Notes
  BY DEF CutOk, CutRow
<1>2. CASE RefreshStore(t)
  <2> DEFINE r == [cut[t] EXCEPT !.doc = NoDocument, !.at = "reading"]
  <2>2. cut' = [cut EXCEPT ![t] = r]
    BY <1>2 DEF CutOk, RefreshStore
  <2>3. CutRow(r)
    <3>1. cut[t] \in [at : {a}, todo : {td}, doc : {d}, question : {q}, by : {b}]
      BY <1>1
    <3>2. [cut[t] EXCEPT !.doc = NoDocument, !.at = "reading"]
            \in [at : {"reading"}, todo : {td}, doc : {NoDocument}, question : {q}, by : {b}]
      BY <3>1
    <3>3. PICK x, doc : x = [cut[t] EXCEPT !.doc = NoDocument, !.at = "reading"] /\ doc = NoDocument
      OBVIOUS
    <3>4. x \in [at : {"reading"}, todo : {td}, doc : {doc}, question : {q}, by : {b}]
      BY <3>2, <3>3
    <3>5. CutRow(x)
      BY <1>1, <3>4, CutRowOf
    <3>6. QED BY <3>3, <3>5
  <2> HIDE DEF r
  <2>4. QED BY <2>2, <2>3, CutWritten
<1>3. CASE RefreshClean(t)
  <2> DEFINE r == [at |-> "done", todo |-> td, doc |-> d, question |-> q, by |-> b]
  <2>1. CutRow(r)
    BY <1>1 DEF CutRow
  <2>2. cut' = [cut EXCEPT ![t] = [cut[t] EXCEPT !.at = "done"]]
    BY <1>3 DEF CutOk, RefreshClean
  <2>3. [cut[t] EXCEPT !.at = "done"] = r
    BY <1>1
  <2> HIDE DEF r
  <2>4. QED BY <2>1, <2>2, <2>3, CutWritten
<1>4. QED BY <1>2, <1>3

LEMMA CutKept == ASSUME NotesTypeOK, IndexInv, IndexNext PROVE CutOk'
<1>0. CutOk /\ "worker" \in Threads /\ "api" \in Threads
  BY DEF IndexInv, Threads
<1>1. CASE UNCHANGED cut
  BY <1>0, <1>1 DEF CutOk, CutRow
<1>2. ASSUME NEW t \in Threads, ThreadStep(t) PROVE CutOk'
  <2>1. CASE CompleteRetrieval(t)
    BY <1>0, <2>1, CutIdle, CutWritten DEF CompleteRetrieval
  <2>2. QED BY <1>0, <1>2, <2>1, CutReads, CutMoves DEF ThreadStep
<1>3. CASE CycleStart
  BY <1>0, <1>3, CutStarts DEF CycleStart
<1>4. CASE ScheduleRead
  BY <1>0, <1>4, CutIdle, CutWritten DEF ScheduleRead
<1>5. ASSUME NEW q, PollQuestion(q) \/ Ask(q) PROVE CutOk'
  BY <1>0, <1>1, <1>5, CutStarts DEF PollQuestion, Ask
<1>6. CASE IndexCrash
  BY <1>6, CutIdle DEF IndexCrash, CutOk, CutRow
<1>7. ASSUME ScheduleInsert \/ DispatchRead \/ CycleEnd PROVE UNCHANGED cut
  BY <1>7 DEF ScheduleInsert, DispatchRead, CycleEnd
<1>8. ASSUME NEW x, PollRead(x) \/ Submit(x) \/ SetModel(x) PROVE UNCHANGED cut
  BY <1>8 DEF PollRead, Submit, SetModel
<1>9. ASSUME NEW j, JobCompleted(j) \/ JobTooLong(j) \/ JobFailed(j) \/ JobBreaksTheCycle(j) PROVE UNCHANGED cut
  BY <1>9 DEF JobCompleted, JobTooLong, JobFailed, JobBreaksTheCycle
<1>10. QED BY <1>0, <1>1, <1>2, <1>3, <1>4, <1>5, <1>6, <1>7, <1>8, <1>9 DEF IndexNext, WorkerStep

-----------------------------------------------------------------------------
(* The jobs                                                                       *)
JobsInv == JobTypes /\ RoundOk /\ JobsApart /\ PlannedApart
SameWork(j) == jobs'[j].model = jobs[j].model /\ jobs'[j].texts = jobs[j].texts

LEMMA JobFields ==
    ASSUME JobTypes, NEW j \in Jobs
    PROVE  /\ jobs[j] \in JobRows /\ jobs[j].model \in Models \cup {NoModel} /\ jobs[j].attempt \in Nat
           /\ \A s \in {"none", "READY", "QUEUED", "ERROR"} :
                /\ [jobs[j] EXCEPT !.status = s] \in JobRows /\ [jobs[j] EXCEPT !.status = s].status = s
                /\ [jobs[j] EXCEPT !.status = s].model = jobs[j].model
                /\ [jobs[j] EXCEPT !.status = s].texts = jobs[j].texts
BY DEF JobTypes, JobRows

LEMMA NewJobIs == NewJob \in JobRows /\ NewJob.status = "none"
BY DEF NewJob, JobRows, TextsOf

(* Who was in hand stays apart; who is planned, from who was live                 *)
LEMMA StillApart ==
    ASSUME JobsInv, \A j \in Jobs : InHand(j)' => InHand(j) /\ SameWork(j) PROVE JobsApart'
BY DEF JobsInv, JobsApart, Apart, SameWork

LEMMA StillPlanned ==
    ASSUME JobsInv, round'.rows \subseteq round.rows, round'.stage = round.stage,
           \A j \in Jobs : Live(j)' => Live(j) /\ SameWork(j)
    PROVE  PlannedApart'
<1> SUFFICES ASSUME round'.stage = "schedule"
             PROVE  /\ round'.rows \subseteq JobRows
                    /\ \A a, b \in round'.rows : a # b => Apart(a, b)
                    /\ \A a \in round'.rows, j \in Jobs : Live(j)' => Apart(a, jobs'[j])
  BY DEF PlannedApart, Apart
<1>1. /\ round.rows \subseteq JobRows
      /\ \A a, b \in round.rows : a # b => Apart(a, b)
      /\ \A a \in round.rows, j \in Jobs : Live(j) => Apart(a, jobs[j])
  BY DEF JobsInv, PlannedApart
<1>2. ASSUME NEW a \in round'.rows, NEW j \in Jobs, Live(j)' PROVE Apart(a, jobs'[j])
  BY <1>1, <1>2 DEF SameWork, Apart
<1>3. QED BY <1>1, <1>2

LEMMA NothingPlanned == ASSUME round'.stage # "schedule" PROVE PlannedApart'
BY DEF PlannedApart

LEMMA JobsRest == ASSUME JobsInv, UNCHANGED <<jobs, round, model>> PROVE JobsInv'
<1>1. \A j \in Jobs : (InHand(j)' => InHand(j) /\ SameWork(j)) /\ (Live(j)' => Live(j) /\ SameWork(j))
  BY DEF InHand, Live, HeldRow, SameWork
<1>2. JobsApart' /\ PlannedApart'
  BY <1>1, StillApart, StillPlanned
<1>3. QED BY <1>2 DEF JobsInv, JobTypes, RoundOk

(* Only the worker goes on, with the rows it takes                                *)
LEMMA RoundGoes ==
    ASSUME JobsInv, UNCHANGED <<jobs, model>>, NEW s, NEW rows, round' = [stage |-> s, rows |-> rows],
           s \in {"dispatch", "poll"} => rows \subseteq Pairs,
           s \in {"dispatch", "poll"} => \A j \in Jobs : <<"job", j>> \in rows => InHand(j),
           s # "schedule"
    PROVE  JobsInv'
<1>1. RoundOk' /\ round'.stage = s /\ round'.rows = rows
  BY DEF RoundOk
<1>2. \A j \in Jobs : InHand(j)' => InHand(j) /\ SameWork(j)
  BY <1>1 DEF InHand, Live, HeldRow, SameWork
<1>3. JobsApart' /\ PlannedApart'
  BY <1>1, <1>2, StillApart, NothingPlanned
<1>4. QED BY <1>1, <1>3 DEF JobsInv, JobTypes

LEMMA RoundEnds ==
    ASSUME JobsInv, UNCHANGED <<jobs, model>>, NEW s, round' = [stage |-> s, rows |-> {}], s # "schedule"
    PROVE  JobsInv'
BY RoundGoes

LEMMA ReadyAndQueued ==
    /\ ReadyRows \subseteq Pairs /\ \A j \in Jobs : <<"job", j>> \in ReadyRows => Live(j)
    /\ QueuedRows \subseteq Pairs /\ \A j \in Jobs : <<"job", j>> \in QueuedRows => Live(j)
BY DEF ReadyRows, QueuedRows, Pairs, Live

LEMMA RoundKept ==
    ASSUME JobsInv,
           \/ CycleStart \/ DispatchRead \/ CycleEnd \/ IndexCrash
           \/ \E answered \in SUBSET QueuedRows : PollRead(answered)
           \/ \E q \in Retrievals : PollQuestion(q)
           \/ \E j \in Jobs : JobBreaksTheCycle(j)
    PROVE  JobsInv'
<1>1. CASE CycleStart \/ CycleEnd \/ IndexCrash
  BY <1>1, RoundEnds DEF CycleStart, CycleEnd, IndexCrash
<1>2. ASSUME NEW j \in Jobs, JobBreaksTheCycle(j) PROVE JobsInv'
  BY <1>2, RoundEnds DEF JobBreaksTheCycle
<1>3. CASE DispatchRead
  <2>1. round' = [stage |-> "dispatch", rows |-> ReadyRows] /\ UNCHANGED <<jobs, model>>
    BY <1>3 DEF DispatchRead
  <2>2. PICK rows : rows = ReadyRows
    OBVIOUS
  <2>3. rows \subseteq Pairs /\ \A j \in Jobs : <<"job", j>> \in rows => InHand(j)
    BY <2>2, ReadyAndQueued DEF InHand
  <2>4. QED BY <2>1, <2>2, <2>3, RoundGoes
<1>4. ASSUME NEW answered \in SUBSET QueuedRows, PollRead(answered) PROVE JobsInv'
  <2>1. round' = [stage |-> "poll", rows |-> answered] /\ UNCHANGED <<jobs, model>>
    BY <1>4 DEF PollRead
  <2>2. answered \subseteq Pairs /\ \A j \in Jobs : <<"job", j>> \in answered => InHand(j)
    BY ReadyAndQueued DEF InHand
  <2>3. QED BY <2>1, <2>2, RoundGoes
<1>5. ASSUME NEW q \in Retrievals, PollQuestion(q) PROVE JobsInv'
  <2>1. round.stage = "poll" /\ round' = [round EXCEPT !.rows = @ \ {<<"question", q>>}] /\ UNCHANGED <<jobs, model>>
    BY <1>5 DEF PollQuestion, Taken
  <2>2. PICK rows : rows = round.rows
    OBVIOUS
  <2>3. round = [stage |-> "poll", rows |-> rows] /\ rows \subseteq Pairs
    BY <2>1, <2>2 DEF JobsInv, RoundOk
  <2>4. round' = [stage |-> "poll", rows |-> rows \ {<<"question", q>>}]
    BY <2>1, <2>3
  <2>5. \A j \in Jobs : <<"job", j>> \in rows \ {<<"question", q>>} => InHand(j)
    BY <2>1, <2>2 DEF InHand, HeldRow
  <2>6. QED BY <2>1, <2>3, <2>4, <2>5, RoundGoes
<1>6. QED BY <1>1, <1>2, <1>3, <1>4, <1>5

(* set_model closes jobs; what the worker holds of them stays                     *)
LEMMA ModelKept == ASSUME JobsInv, NEW m \in Models, SetModel(m) PROVE JobsInv'
<1>1. round' = round /\ model' = m
  BY DEF SetModel
<1>2. ASSUME NEW j \in Jobs
      PROVE  jobs'[j] \in JobRows /\ (Live(j)' => Live(j) /\ SameWork(j)) /\ (InHand(j)' => InHand(j) /\ SameWork(j))
  <2>0. JobTypes
    BY DEF JobsInv
  <2>1. CASE jobs'[j] = jobs[j]
    BY <1>1, <2>0, <2>1, JobFields DEF Live, InHand, HeldRow, SameWork
  <2>2. CASE jobs'[j] # jobs[j]
    <3>1. jobs'[j] = Closed(j)
      BY <2>2 DEF SetModel
    <3>2. CASE <<"job", j>> \in round.rows
      <4>1. jobs'[j] = [jobs[j] EXCEPT !.status = "ERROR"]
        BY <3>1, <3>2 DEF Closed
      <4>2. jobs'[j] \in JobRows /\ jobs'[j].status = "ERROR" /\ SameWork(j)
        BY <2>0, <4>1, JobFields DEF SameWork
      <4>3. QED BY <1>1, <4>2 DEF Live, InHand, HeldRow
    <3>3. CASE <<"job", j>> \notin round.rows
      BY <1>1, <3>1, <3>3, NewJobIs DEF Closed, Live, InHand, HeldRow
    <3>4. QED BY <3>2, <3>3
  <2>3. QED BY <2>1, <2>2
<1>3. JobsApart' /\ PlannedApart'
  BY <1>1, <1>2, StillApart, StillPlanned
<1>4. JobTypes'
  <2>1. jobs' = [j \in Jobs |-> jobs'[j]]
    BY DEF SetModel
  <2>2. QED BY <1>1, <1>2, <2>1 DEF JobTypes
<1>5. QED BY <1>1, <1>3, <1>4 DEF JobsInv, RoundOk

(* A row of a job the worker takes and writes: at once another state of the same  *)
(* work, or nothing                                                               *)
LEMMA TakenWritten ==
    ASSUME JobsInv, NEW j \in Jobs, round.stage \in {"dispatch", "poll"}, <<"job", j>> \in round.rows,
           Taken(<<"job", j>>), UNCHANGED model, NEW r \in JobRows, jobs' = [jobs EXCEPT ![j] = r],
           r.status = "none" \/ (r.model = jobs[j].model /\ r.texts = jobs[j].texts)
    PROVE  JobsInv'
<1>1. PICK s, rows : round = [stage |-> s, rows |-> rows]
  BY DEF JobsInv, RoundOk
<1>2. round' = [stage |-> s, rows |-> rows \ {<<"job", j>>}] /\ s = round.stage /\ rows = round.rows
  BY <1>1 DEF Taken
<1>3. jobs \in [Jobs -> JobRows] /\ InHand(j)
  BY DEF JobsInv, JobTypes, InHand, HeldRow
<1>4. jobs'[j] = r /\ \A i \in Jobs \ {j} : jobs'[i] = jobs[i]
  BY <1>3
<1>5. ~HeldRow(j)'
  BY <1>2 DEF HeldRow
<1>6. ASSUME NEW i \in Jobs, InHand(i)' PROVE InHand(i) /\ SameWork(i)
  <2>1. CASE i = j
    BY <1>3, <1>4, <1>5, <1>6, <2>1 DEF InHand, Live, SameWork
  <2>2. CASE i # j
    BY <1>2, <1>4, <1>6, <2>2 DEF InHand, Live, HeldRow, SameWork
  <2>3. QED BY <2>1, <2>2
<1>7. JobsApart' /\ PlannedApart'
  BY <1>2, <1>6, StillApart, NothingPlanned
<1>8. RoundOk'
  <2>1. round' = [stage |-> round'.stage, rows |-> round'.rows]
    BY <1>2
  <2>2. rows \ {<<"job", j>>} \subseteq Pairs
    BY <1>2 DEF JobsInv, RoundOk
  <2>3. QED BY <1>2, <2>1, <2>2 DEF RoundOk
<1>9. JobTypes'
  BY <1>3 DEF JobsInv, JobTypes
<1>10. QED BY <1>7, <1>8, <1>9 DEF JobsInv

LEMMA SubmittedRow ==
    ASSUME JobTypes, NEW j \in Jobs, NEW decision
    PROVE  /\ Submitted(jobs[j], decision) \in JobRows
           /\ Submitted(jobs[j], decision).model = jobs[j].model
           /\ Submitted(jobs[j], decision).texts = jobs[j].texts
<1>0. jobs[j] \in JobRows /\ jobs[j].attempt \in Nat
  BY JobFields
<1>1. jobs[j] \in JobRows /\ jobs[j].attempt + 1 \in Nat
  BY <1>0
<1>2. PICK k \in Nat, r \in JobRows : k = jobs[j].attempt + 1 /\ r = jobs[j]
  BY <1>1
<1>3. /\ [r EXCEPT !.status = "QUEUED", !.attempt = k] \in JobRows
      /\ [r EXCEPT !.status = "QUEUED", !.attempt = k].model = r.model
      /\ [r EXCEPT !.status = "QUEUED", !.attempt = k].texts = r.texts
  BY DEF JobRows
<1>4. /\ [r EXCEPT !.attempt = k] \in JobRows
      /\ [r EXCEPT !.attempt = k].model = r.model /\ [r EXCEPT !.attempt = k].texts = r.texts
  BY DEF JobRows
<1>5. /\ [r EXCEPT !.status = "ERROR"] \in JobRows
      /\ [r EXCEPT !.status = "ERROR"].model = r.model /\ [r EXCEPT !.status = "ERROR"].texts = r.texts
  BY DEF JobRows
<1>6. \/ Submitted(r, decision) = [r EXCEPT !.status = "QUEUED", !.attempt = k]
      \/ Submitted(r, decision) = [r EXCEPT !.attempt = k]
      \/ Submitted(r, decision) = [r EXCEPT !.status = "ERROR"]
  BY <1>2 DEF Submitted
<1>7. QED BY <1>2, <1>3, <1>4, <1>5, <1>6

LEMMA SubmitKept == ASSUME JobsInv, NEW x \in round.rows, Submit(x) PROVE JobsInv'
<1>0. JobTypes /\ round.stage = "dispatch" /\ x \in Pairs /\ UNCHANGED model
  BY DEF JobsInv, RoundOk, Submit
<1>1. CASE x[1] = "job"
  <2>1. PICK j \in Jobs : x = <<"job", j>>
    BY <1>0, <1>1 DEF Pairs
  <2>2. PICK decision : jobs' = [jobs EXCEPT ![j] = IF Submitted(jobs[j], decision).status = "ERROR"
                                                     THEN NewJob ELSE Submitted(jobs[j], decision)]
    BY <1>0, <1>1, <2>1 DEF Submit, JobTypes
  <2>3. PICK r : r = IF Submitted(jobs[j], decision).status = "ERROR" THEN NewJob ELSE Submitted(jobs[j], decision)
    OBVIOUS
  <2>4. r \in JobRows /\ (r.status = "none" \/ (r.model = jobs[j].model /\ r.texts = jobs[j].texts))
    BY <1>0, <2>3, SubmittedRow, NewJobIs
  <2>5. Taken(<<"job", j>>) /\ jobs' = [jobs EXCEPT ![j] = r]
    BY <2>1, <2>2, <2>3 DEF Submit
  <2>6. QED BY <1>0, <2>1, <2>4, <2>5, TakenWritten
<1>2. CASE x[1] # "job"
  <2>1. UNCHANGED jobs /\ round' = [round EXCEPT !.rows = @ \ {x}]
    BY <1>2 DEF Submit, Taken
  <2>2. PICK rows : rows = round.rows
    OBVIOUS
  <2>3. round = [stage |-> "dispatch", rows |-> rows] /\ rows \subseteq Pairs
    BY <1>0, <2>2 DEF JobsInv, RoundOk
  <2>4. round' = [stage |-> "dispatch", rows |-> rows \ {x}]
    BY <2>1, <2>3
  <2>5. \A j \in Jobs : <<"job", j>> \in rows \ {x} => InHand(j)
    BY <1>0, <2>2 DEF InHand, HeldRow
  <2>6. QED BY <1>0, <2>1, <2>3, <2>4, <2>5, RoundGoes
<1>3. QED BY <1>1, <1>2

LEMMA PolledKept ==
    ASSUME JobsInv, NEW j \in Jobs, JobCompleted(j) \/ JobTooLong(j) \/ JobFailed(j) PROVE JobsInv'
<1>1. JobTurn(j) /\ UNCHANGED model /\ JobTypes
  BY DEF JobCompleted, JobTooLong, JobFailed, JobsInv
<1>2. PICK r \in JobRows : /\ jobs' = [jobs EXCEPT ![j] = r]
                           /\ r.status = "none" \/ (r.model = jobs[j].model /\ r.texts = jobs[j].texts)
  <2>1. CASE jobs' = [jobs EXCEPT ![j] = NewJob]
    BY <2>1, NewJobIs
  <2>2. CASE jobs' = [jobs EXCEPT ![j] = [jobs[j] EXCEPT !.status = "READY"]]
    BY <1>1, <2>2, JobFields
  <2>3. jobs' = [jobs EXCEPT ![j] = NewJob] \/ jobs' = [jobs EXCEPT ![j] = [jobs[j] EXCEPT !.status = "READY"]]
    BY <1>1 DEF JobCompleted, JobTooLong, JobFailed, JobTypes
  <2>4. QED BY <2>1, <2>2, <2>3
<1>3. QED BY <1>1, <1>2, TakenWritten DEF JobTurn

-----------------------------------------------------------------------------
(* schedule_jobs                                                                  *)
LEMMA BatchIsWaiting ==
    ASSUME NEW n, NEW m, NEW ids \in Batches(n, m)
    PROVE  ids \subseteq DOMAIN frags /\ ids \cap Busy(m) = {} /\ \A id \in ids : frags[id].note = n
<1>1. ids \subseteq Waiting(n, m)
  BY DEF Batches
<1>2. QED BY <1>1 DEF Waiting, CurrentOf

LEMMA BatchesApart ==
    ASSUME NEW n, NEW k, NEW m, NEW a \in Batches(n, m), NEW b \in Batches(k, m), a # b
    PROVE  a \cap b = {}
<1> SUFFICES ASSUME NEW id \in a, id \in b PROVE FALSE
  OBVIOUS
<1>1. n = k
  BY BatchIsWaiting
<1>2. PICK ids : ids = Waiting(n, m)
  OBVIOUS
<1>3. PICK x \in ids : a = {i \in ids : Turn(i, ids) = Turn(x, ids)}
  BY <1>2 DEF Batches
<1>4. PICK y \in ids : b = {i \in ids : Turn(i, ids) = Turn(y, ids)}
  BY <1>1, <1>2 DEF Batches
<1>5. Turn(id, ids) = Turn(x, ids) /\ Turn(id, ids) = Turn(y, ids)
  BY <1>3, <1>4
<1>6. QED BY <1>3, <1>4, <1>5

PlannedAs(m, ids) == [NewJob EXCEPT !.status = "READY", !.model = m, !.texts = Restrict(frags, ids)]

LEMMA PlannedIs ==
    ASSUME NEW m, NEW job \in Planned(m)
    PROVE  \E n \in Notes : \E ids \in Batches(n, m) :
        job = PlannedAs(m, ids)
<1>1. PICK ids \in UNION {Batches(n, m) : n \in Notes} :
        job = PlannedAs(m, ids)
  BY DEF Planned, PlannedAs
<1>2. QED BY <1>1

LEMMA PlannedRow ==
    ASSUME FragsOk, NEW m \in Models, NEW n, NEW ids \in Batches(n, m)
    PROVE  PlannedAs(m, ids) \in JobRows /\ PlannedAs(m, ids).model = m /\ DOMAIN PlannedAs(m, ids).texts = ids
<1>1. ids \subseteq DOMAIN frags /\ DOMAIN frags \subseteq Nat /\ \A id \in ids : frags[id] \in Fragment
  BY BatchIsWaiting DEF FragsOk, FragmentsById
<1>2. PICK texts : texts = Restrict(frags, ids)
  OBVIOUS
<1>3. texts \in [ids -> Fragment] /\ DOMAIN texts = ids
  BY <1>1, <1>2 DEF Restrict
<1>4. texts \in TextsOf
  BY <1>1, <1>3 DEF TextsOf
<1>5. NewJob \in [status : {"none"}, model : {NoModel}, texts : {<<>>}, attempt : {0}]
  BY DEF NewJob
<1>6. PICK job : job = NewJob
  OBVIOUS
<1>7. [job EXCEPT !.status = "READY", !.model = m, !.texts = texts]
        \in [status : {"READY"}, model : {m}, texts : {texts}, attempt : {0}]
  BY <1>5, <1>6
<1>8. PlannedAs(m, ids) \in [status : {"READY"}, model : {m}, texts : {texts}, attempt : {0}]
  BY <1>2, <1>6, <1>7 DEF PlannedAs
<1>9. QED BY <1>3, <1>4, <1>8 DEF JobRows

LEMMA PlannedWell ==
    ASSUME FragsOk, JobsInv, NEW m \in Models
    PROVE  /\ Planned(m) \subseteq JobRows
           /\ \A a, b \in Planned(m) : a # b => Apart(a, b)
           /\ \A a \in Planned(m), j \in Jobs : Live(j) => Apart(a, jobs[j])
<1>1. ASSUME NEW a \in Planned(m)
      PROVE  \E n \in Notes : \E ids \in Batches(n, m) :
                a \in JobRows /\ a.model = m /\ DOMAIN a.texts = ids
                /\ a = PlannedAs(m, ids)
  <2>1. PICK n \in Notes : \E ids \in Batches(n, m) :
          a = PlannedAs(m, ids)
    BY PlannedIs
  <2>2. PICK ids \in Batches(n, m) :
          a = PlannedAs(m, ids)
    BY <2>1
  <2>3. a \in JobRows /\ a.model = m /\ DOMAIN a.texts = ids
    BY <2>2, PlannedRow
  <2>4. QED BY <2>2, <2>3
<1>2. ASSUME NEW a \in Planned(m), NEW b \in Planned(m), a # b PROVE Apart(a, b)
  <2>1. PICK n \in Notes : \E as \in Batches(n, m) : DOMAIN a.texts = as
          /\ a = PlannedAs(m, as)
    BY <1>1
  <2>2. PICK k \in Notes : \E bs \in Batches(k, m) : DOMAIN b.texts = bs
          /\ b = PlannedAs(m, bs)
    BY <1>1
  <2>3. PICK as \in Batches(n, m) : DOMAIN a.texts = as
          /\ a = PlannedAs(m, as)
    BY <2>1
  <2>4. PICK bs \in Batches(k, m) : DOMAIN b.texts = bs
          /\ b = PlannedAs(m, bs)
    BY <2>2
  <2>5. as # bs
    BY <1>2, <2>3, <2>4
  <2>6. as \cap bs = {}
    BY <2>5, BatchesApart
  <2>7. QED BY <2>3, <2>4, <2>6 DEF Apart
<1>3. ASSUME NEW a \in Planned(m), NEW j \in Jobs, Live(j) PROVE Apart(a, jobs[j])
  <2>0. PICK n \in Notes : \E ids \in Batches(n, m) : a.model = m /\ DOMAIN a.texts = ids
    BY <1>1
  <2>1. PICK ids \in Batches(n, m) : a.model = m /\ DOMAIN a.texts = ids
    BY <2>0
  <2>2. jobs[j].model = m => DOMAIN jobs[j].texts \subseteq Busy(m)
    BY <1>3 DEF Busy, Live
  <2>3. ids \cap Busy(m) = {}
    BY BatchIsWaiting
  <2>4. QED BY <2>1, <2>2, <2>3 DEF Apart
<1>4. Planned(m) \subseteq JobRows
  BY <1>1
<1>5. QED BY <1>2, <1>3, <1>4

LEMMA ScheduleReadKept == ASSUME FragsOk, JobsInv, ScheduleRead PROVE JobsInv'
<1>1. PICK rows : rows = IF model = NoModel THEN {} ELSE Planned(model)
  OBVIOUS
<1>2. round' = [stage |-> "schedule", rows |-> rows] /\ UNCHANGED <<jobs, model>> /\ model \in Models \cup {NoModel}
  BY <1>1 DEF ScheduleRead, JobsInv, JobTypes
<1>3. /\ rows \subseteq JobRows /\ \A a, b \in rows : a # b => Apart(a, b)
      /\ \A a \in rows, j \in Jobs : Live(j) => Apart(a, jobs[j])
  <2>1. CASE model = NoModel
    BY <1>1, <2>1
  <2>2. CASE model # NoModel
    <3>1. PICK m \in Models : m = model
      BY <1>2, <2>2
    <3>2. rows = Planned(m)
      BY <1>1, <2>2, <3>1
    <3>3. QED BY <3>2, PlannedWell
  <2>3. QED BY <2>1, <2>2
<1>4. \A j \in Jobs : (Live(j)' <=> Live(j)) /\ (InHand(j)' => InHand(j) /\ SameWork(j))
  BY <1>2 DEF Live, InHand, HeldRow, SameWork
<1>5. JobsApart'
  BY <1>4, StillApart
<1>6. PlannedApart'
  BY <1>2, <1>3, <1>4 DEF PlannedApart, Apart
<1>7. RoundOk' /\ JobTypes'
  BY <1>2 DEF RoundOk, JobTypes, JobsInv
<1>8. QED BY <1>5, <1>6, <1>7 DEF JobsInv

LEMMA ScheduleInsertKept == ASSUME JobsInv, ScheduleInsert PROVE JobsInv'
<1>1. PICK new \in round.rows, j \in Jobs :
        Free(j) /\ jobs' = [jobs EXCEPT ![j] = new] /\ round' = [round EXCEPT !.rows = @ \ {new}]
  BY DEF ScheduleInsert
<1>2. PICK rows : round = [stage |-> "schedule", rows |-> rows]
  BY DEF ScheduleInsert, JobsInv, RoundOk
<1>3. round' = [stage |-> "schedule", rows |-> rows \ {new}] /\ new \in rows /\ rows = round.rows
  BY <1>1, <1>2
<1>4. /\ rows \subseteq JobRows /\ \A a, b \in rows : a # b => Apart(a, b)
      /\ \A a \in rows, i \in Jobs : Live(i) => Apart(a, jobs[i])
  BY <1>2, <1>3 DEF JobsInv, PlannedApart
<1>5. jobs \in [Jobs -> JobRows] /\ UNCHANGED model
  BY DEF JobsInv, JobTypes, ScheduleInsert
<1>6. jobs'[j] = new /\ \A i \in Jobs \ {j} : jobs'[i] = jobs[i]
  BY <1>1, <1>5
<1>7. JobTypes'
  BY <1>1, <1>3, <1>4, <1>5 DEF JobsInv, JobTypes
<1>8. \A i \in Jobs \ {j} : Live(i)' <=> Live(i)
  BY <1>6 DEF Live
<1>9. \A i \in Jobs : InHand(i)' => Live(i)'
  BY <1>3 DEF InHand, HeldRow
<1>10. \A i \in Jobs \ {j} : Live(i) => Apart(new, jobs[i]) /\ Apart(jobs[i], new)
  BY <1>3, <1>4 DEF Apart
<1>11. JobsApart'
  <2> SUFFICES ASSUME NEW i \in Jobs, NEW k \in Jobs, i # k, Live(i)', Live(k)' PROVE Apart(jobs'[i], jobs'[k])
    BY <1>9 DEF JobsApart, Apart
  <2>1. CASE i = j
    BY <1>6, <1>8, <1>10, <2>1
  <2>2. CASE k = j
    BY <1>6, <1>8, <1>10, <2>2
  <2>3. CASE i # j /\ k # j
    BY <1>6, <1>8, <2>3 DEF JobsInv, JobsApart, InHand
  <2>4. QED BY <2>1, <2>2, <2>3
<1>12. PlannedApart'
  <2>1. ASSUME NEW a \in rows \ {new}, NEW i \in Jobs, Live(i)' PROVE Apart(a, jobs'[i])
    <3>1. CASE i = j
      BY <1>3, <1>4, <1>6, <3>1
    <3>2. CASE i # j
      BY <1>4, <1>6, <1>8, <2>1, <3>2
    <3>3. QED BY <3>1, <3>2
  <2>2. QED BY <1>3, <1>4, <2>1 DEF PlannedApart, Apart
<1>13. RoundOk'
  BY <1>3 DEF RoundOk
<1>14. QED BY <1>7, <1>11, <1>12, <1>13 DEF JobsInv

-----------------------------------------------------------------------------
LEMMA JobsKept == ASSUME IndexInv, IndexNext PROVE JobsInv'
<1>0. JobsInv /\ FragsOk
  BY DEF IndexInv, JobsInv
<1>1. ASSUME NEW t, ThreadStep(t) PROVE UNCHANGED <<jobs, round, model>>
  BY <1>1 DEF ThreadStep, RefreshRead, RefreshStore, RefreshClean, CompleteRetrieval
<1>2. ASSUME NEW q, Ask(q) PROVE UNCHANGED <<jobs, round, model>>
  BY <1>2 DEF Ask
<1>3. CASE \/ CycleStart \/ DispatchRead \/ CycleEnd \/ IndexCrash
           \/ \E answered \in SUBSET QueuedRows : PollRead(answered)
           \/ \E q \in Retrievals : PollQuestion(q)
           \/ \E j \in Jobs : JobBreaksTheCycle(j)
  BY <1>0, <1>3, RoundKept
<1>4. CASE ScheduleRead \/ ScheduleInsert
  BY <1>0, <1>4, ScheduleReadKept, ScheduleInsertKept
<1>5. CASE \E x \in round.rows : Submit(x)
  BY <1>0, <1>5, SubmitKept
<1>6. CASE \E j \in Jobs : JobCompleted(j) \/ JobTooLong(j) \/ JobFailed(j)
  BY <1>0, <1>6, PolledKept
<1>7. CASE \E m \in Models : SetModel(m)
  BY <1>0, <1>7, ModelKept
<1>8. QED BY <1>0, <1>1, <1>2, <1>3, <1>4, <1>5, <1>6, <1>7, JobsRest DEF IndexNext, WorkerStep

LEMMA IndexUnchanged == ASSUME IndexInv, UNCHANGED indexVars PROVE IndexInv'
<1>1. UNCHANGED <<model, frags, vectors, jobs, cut, round>>
  BY DEF indexVars
<1>2. JobsInv'
  BY <1>1, JobsRest DEF IndexInv, JobsInv
<1>3. FragsOk' /\ CutOk' /\ VectorsAreOfTheModel'
  BY <1>1 DEF IndexInv, FragsOk, FragmentsById, HalvesTogether, SameText, CutOk, CutRow, VectorsAreOfTheModel
<1>4. QED BY <1>2, <1>3 DEF IndexInv, JobsInv

LEMMA IndexKept == NotesTypeOK /\ IndexInv /\ [Next]_vars => IndexInv'
<1> SUFFICES ASSUME NotesTypeOK, IndexInv, [Next]_vars PROVE IndexInv'
  OBVIOUS
<1>1. CASE IndexNext
  BY <1>1, FragmentsKept, CutKept, VectorsKept, JobsKept DEF IndexInv, JobsInv
<1>2. CASE UNCHANGED indexVars
  BY <1>2, IndexUnchanged
<1>3. QED BY <1>1, <1>2 DEF Next, IndexScene, QueryScene, SessionScene, ScreenScene, CopyScene, Scene, vars, noteScenes

LEMMA IndexAtStart == Init => IndexInv
<1> SUFFICES ASSUME IndexInit PROVE IndexInv
  BY DEF Init
<1>1. FragsOk
  <2>1. DOMAIN frags = {} /\ 0 \in Nat
    BY DEF IndexInit
  <2>2. FragmentsById(frags)
    BY <2>1 DEF FragmentsById, IndexInit
  <2>3. HalvesTogether(frags)
    BY <2>1 DEF HalvesTogether
  <2>4. QED BY <2>2, <2>3 DEF FragsOk
<1>2. CutOk
  BY CutIdle DEF IndexInit, CutOk
<1>3. VectorsAreOfTheModel
  BY DEF IndexInit, VectorsAreOfTheModel
<1>4. round.stage = "start" /\ round = [stage |-> "start", rows |-> {}]
  BY DEF IndexInit
<1>5. JobTypes /\ RoundOk /\ PlannedApart
  BY <1>4, NewJobIs DEF IndexInit, JobTypes, RoundOk, PlannedApart
<1>6. \A j \in Jobs : ~InHand(j)
  BY <1>4, NewJobIs DEF IndexInit, InHand, Live, HeldRow
<1>7. JobsApart
  BY <1>6 DEF JobsApart
<1>8. QED BY <1>1, <1>2, <1>3, <1>5, <1>7 DEF IndexInv

LEMMA IndexImplies == NotesTypeOK /\ IndexInv => IndexIsSound
<1> SUFFICES ASSUME NotesTypeOK, IndexInv PROVE IndexIsSound
  OBVIOUS
<1>1. Range(frags) \subseteq Fragment
  BY DEF IndexInv, FragsOk, FragmentsById, Range
<1>2. OneJobPerFragment
  BY DEF IndexInv, JobsApart, InHand, Apart, OneJobPerFragment
<1>3. IndexedNotesAreWhole
  BY IndexedAreWhole DEF IndexInv
<1>4. QED BY <1>1, <1>2, <1>3 DEF IndexIsSound, IndexInv

(* No fragment is in two live jobs of a model, no vector is filed under a model   *)
(* that did not compute it, and a note counts as indexed only by all its parts    *)
(* (schedule_jobs, store_vectors, split_fragment).                                *)
THEOREM IndexStaysSound == Spec => []IndexIsSound
<1>1. Init => QueriesInv /\ IndexInv
  BY QueriesAtStart, IndexAtStart
<1>2. QueriesInv /\ IndexInv /\ [Next]_vars => QueriesInv' /\ IndexInv'
  <2>1. QueriesInv => NotesTypeOK
    BY DEF QueriesInv
  <2>2. QED BY <2>1, QueriesKept, IndexKept
<1>3. QueriesInv /\ IndexInv => IndexIsSound
  BY IndexImplies DEF QueriesInv
<1>4. QED BY <1>1, <1>2, <1>3, PTL DEF Spec
=============================================================================
