------------------------------ MODULE ScreenReads ------------------------------
(***************************************************************************)
(* How the window reads the tables: the periodic refresh paints the last   *)
(* reading it has and asks a thread for another; F5 and whatever follows   *)
(* an action of the person read at once. Both store their value in the     *)
(* same memory, and the one that started later prevails. One reading is    *)
(* followed, that is one key of the memory: the others only push it out.   *)
(***************************************************************************)
EXTENDS Naturals

CONSTANTS
    MaxData,     \* bound: changes of the tables
    MaxLapses,      \* bound: readings that fail, and times the memory is full
    NoEntry

ASSUME ScreenReadsAssumption == {MaxData, MaxLapses} \subseteq Nat

VARIABLES
    data,       \* the version of what is read
    memory,     \* _cache, for this key: its value and its error
    thread,     \* _pending and the request in the thread
    direct,     \* the reading in the thread of the window
    shown,      \* what the screen shows
    acted,      \* the version there was when the last reading at once that is shown started
    lapses      \* the bound used

screenVars == <<data, memory, thread, direct, shown, acted, lapses>>

(* Of the times at which two readings started only their order matters: after     *)
(* says that the one in the thread started while the direct one was going on, and *)
(* late, of each, that the memory holds one that started later                    *)
Unread == [at |-> "idle", value |-> 0, failed |-> FALSE, after |-> FALSE, late |-> FALSE, since |-> 0]
Going(reading) == reading.at \in {"reading", "read"}

ScreenInit ==
    /\ data = 0 /\ memory = NoEntry /\ shown = 0 /\ acted = 0 /\ lapses = 0
    /\ thread = Unread /\ direct = Unread

DataChanges ==
    /\ data < MaxData /\ data' = data + 1
    /\ UNCHANGED <<memory, thread, direct, shown, acted, lapses>>
Lapses == lapses < MaxLapses /\ lapses' = lapses + 1

-----------------------------------------------------------------------------
(* The window is in one reading at a time                                         *)
StartsDirect ==
    /\ direct' = [Unread EXCEPT !.at = "reading", !.since = data]
    /\ thread' = [thread EXCEPT !.after = FALSE]
ReadsAtOnce ==                  \* F5 or an action; or nothing is remembered yet
    /\ direct.at = "idle" /\ StartsDirect
    /\ UNCHANGED <<data, memory, shown, acted, lapses>>
RefreshScreen ==                      \* within periodic()
    /\ direct.at = "idle"
    /\ IF memory = NoEntry THEN StartsDirect /\ UNCHANGED <<memory, shown>>
       ELSE /\ thread' = IF thread.at = "idle" THEN [Unread EXCEPT !.at = "queued"] ELSE thread
            /\ memory' = [memory EXCEPT !.failed = FALSE]
            /\ shown' = IF memory.failed THEN shown ELSE memory.value
            /\ UNCHANGED direct
    /\ UNCHANGED <<data, acted, lapses>>

Finds(reading) == [reading EXCEPT !.at = "read", !.value = data]
FailsReading(reading) == [reading EXCEPT !.at = "read", !.failed = TRUE]
ReadsDirect ==
    /\ direct.at = "reading"
    /\ \/ direct' = Finds(direct) /\ UNCHANGED lapses
       \/ direct' = Unread /\ Lapses           \* the refresh goes on without it
    /\ UNCHANGED <<data, memory, thread, shown, acted>>
StoresDirect ==                 \* _store, and the screen shows what was read
    /\ direct.at = "read" /\ direct' = Unread /\ shown' = direct.value /\ acted' = direct.since
    /\ IF direct.late THEN UNCHANGED <<memory, thread>>
       ELSE /\ memory' = [value |-> direct.value, failed |-> FALSE]
            /\ thread' = IF Going(thread) /\ ~thread.after THEN [thread EXCEPT !.late = TRUE] ELSE thread
    /\ UNCHANGED <<data, lapses>>

-----------------------------------------------------------------------------
(* _run                                                                           *)
TakesRequest ==
    /\ thread.at = "queued" /\ thread' = [Unread EXCEPT !.at = "reading", !.after = Going(direct)]
    /\ UNCHANGED <<data, memory, direct, shown, acted, lapses>>
ReadsBehind ==
    /\ thread.at = "reading"
    /\ \/ thread' = Finds(thread) /\ UNCHANGED lapses
       \/ thread' = FailsReading(thread) /\ Lapses
    /\ UNCHANGED <<data, memory, direct, shown, acted>>
(* Defect: the reading that ends last prevails                                    *)
KeptLast == IF thread.failed THEN memory ELSE [value |-> thread.value, failed |-> FALSE]
KeptValue == IF thread.late \/ (thread.failed /\ memory = NoEntry) THEN memory
        ELSE IF thread.failed THEN [memory EXCEPT !.failed = TRUE]
        ELSE [value |-> thread.value, failed |-> FALSE]
StoresBehind ==                 \* after a failure the value stays, with the hour of the failure
    /\ thread.at = "read" /\ thread' = [Unread EXCEPT !.at = "stored"]
    /\ memory' = KeptValue
    /\ direct' = IF Going(direct) /\ thread.after /\ ~(thread.failed /\ memory = NoEntry)
                 THEN [direct EXCEPT !.late = TRUE] ELSE direct
    /\ UNCHANGED <<data, shown, acted, lapses>>
Discards ==
    /\ thread.at = "stored" /\ thread' = Unread
    /\ UNCHANGED <<data, memory, direct, shown, acted, lapses>>

Evicted ==                      \* MAX_CACHED_READS
    /\ memory # NoEntry /\ memory' = NoEntry /\ Lapses
    /\ thread' = [thread EXCEPT !.late = FALSE] /\ direct' = [direct EXCEPT !.late = FALSE]
    /\ UNCHANGED <<data, shown, acted>>

ReadsInWindow == ReadsDirect \/ StoresDirect
ReadsInThread == TakesRequest \/ ReadsBehind \/ StoresBehind \/ Discards
ScreenNext == DataChanges \/ ReadsAtOnce \/ RefreshScreen \/ ReadsInWindow \/ ReadsInThread \/ Evicted
=============================================================================
