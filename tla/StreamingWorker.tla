-------------------------- MODULE StreamingWorker --------------------------
(***************************************************************************)
(* The thread that drives one streaming collector: open a session row, pull *)
(* rows from the source into a buffer, flush it in batches, close the       *)
(* session, and restart after a crash with a backoff.  The source, the      *)
(* database, the clock and the thread that asks it to stop all move on      *)
(* their own.                                                               *)
(*                                                                         *)
(* Rows are numbered as the source yields them, sessions as they are        *)
(* opened.  Timers count ticks and stop where the code no longer tells      *)
(* their values apart.                                                     *)
(***************************************************************************)
EXTENDS Naturals, Sequences, FiniteSets

CONSTANTS
    BatchSize,      \* batch_size
    FlushInterval,  \* flush_interval_s
    HealthyReset,   \* healthy_reset_s
    BaseDelay,      \* ExponentialBackoff's base_s
    MaxDelay,       \* ... and its max_s; its factor is 2
    EscalateAt,     \* escalate_threshold
    MaxRows,        \* bound on rows the source yields
    MaxCrashes,     \* bound on crashes of the source
    MaxFaults,      \* bound on failed database calls
    MaxKills        \* bound on ends of the process

ASSUME ConstantsAssumption ==
    /\ {BatchSize, EscalateAt, BaseDelay} \subseteq Nat \ {0}
    /\ {FlushInterval, HealthyReset, MaxDelay} \subseteq Nat
    /\ {MaxRows, MaxCrashes, MaxFaults, MaxKills} \subseteq Nat

VARIABLES
    (***********************************************************************)
    (* The database.                                                       *)
    (***********************************************************************)
    table,          \* the collector's rows, in insertion order
    sessions,       \* the StreamingSession rows
    (***********************************************************************)
    (* The worker.                                                         *)
    (***********************************************************************)
    pc,
    stop,           \* stop_event is set
    buffer,         \* rows not flushed yet
    rowsWritten,    \* _rows_written
    rowsBefore,     \* its value when the session was opened
    attempt,        \* _restart_attempt
    crashed,        \* the session ended in an exception
    level,          \* how the last crash was reported
    (***********************************************************************)
    (* Timers.                                                             *)
    (***********************************************************************)
    sinceFlush,     \* monotonic() - last_flush
    elapsed,        \* monotonic() - started, of this turn of the loop
    nap,            \* what is left of the backoff
    (***********************************************************************)
    (* Budgets and history, read by bounds and properties only.            *)
    (***********************************************************************)
    budget,
    yielded,        \* rows the source has yielded
    uptime,         \* time the session has streamed
    streak          \* crashes reported since a session streamed long enough

database == <<table, sessions>>
counters == <<rowsWritten, rowsBefore, attempt>>
timers == <<sinceFlush, elapsed, nap, uptime>>
vars == <<table, sessions, pc, stop, buffer, rowsWritten, rowsBefore, attempt,
          crashed, level, sinceFlush, elapsed, nap, budget, yielded, uptime,
          streak>>

NoWork == [crashes |-> 0, faults |-> 0, kills |-> 0]

Init ==
    /\ table = <<>> /\ sessions = <<>>
    /\ pc = "off" /\ stop = FALSE
    /\ buffer = <<>> /\ rowsWritten = 0 /\ rowsBefore = 0
    /\ attempt = 0 /\ crashed = FALSE /\ level = "none"
    /\ sinceFlush = 0 /\ elapsed = 0 /\ nap = 0 /\ uptime = 0
    /\ budget = NoWork
    /\ yielded = 0
    /\ streak = 0

AtMost(n, limit) == IF n < limit THEN n ELSE limit

\* A database call fails.
Fault ==
    /\ budget.faults < MaxFaults
    /\ budget' = [budget EXCEPT !.faults = @ + 1]

-----------------------------------------------------------------------------
(***************************************************************************)
(* The supervision loop.                                                   *)
(***************************************************************************)

\* start: a new thread with its event cleared.
Start ==
    /\ pc = "off"
    /\ pc' = "loop"
    /\ stop' = FALSE
    /\ attempt' = 0
    /\ UNCHANGED <<database, buffer, rowsWritten, rowsBefore, crashed, level,
                   timers, budget, yielded, streak>>

\* while not stop_event.is_set(): the turn's clock starts.
NextTurn ==
    /\ pc = "loop"
    /\ pc' = IF stop THEN "finished" ELSE "open"
    /\ elapsed' = 0
    /\ UNCHANGED <<database, stop, buffer, counters, crashed, level, sinceFlush,
                   nap, uptime, budget, yielded, streak>>

\* start_streaming_session.
OpenSession ==
    /\ pc = "open"
    /\ sessions' = Append(sessions, [finished |-> FALSE, row_count |-> 0])
    /\ rowsBefore' = rowsWritten
    /\ buffer' = <<>>
    /\ sinceFlush' = 0
    /\ uptime' = 0
    /\ pc' = "stream"
    /\ UNCHANGED <<table, stop, rowsWritten, attempt, crashed, level, elapsed,
                   nap, budget, yielded, streak>>

\* No handler covers that insert: the exception ends the thread.
OpenFails ==
    /\ pc = "open"
    /\ Fault
    /\ pc' = "died"
    /\ UNCHANGED <<database, stop, buffer, counters, crashed, level, timers,
                   yielded, streak>>

\* delay_for.
DelayFor(n) == AtMost(BaseDelay * 2 ^ (n - 1), MaxDelay)

\* LoggingSupervisionListener.report_crash.
LevelOf(n) == IF n >= EscalateAt THEN "error" ELSE "warning"

\* Slip: a long session does not reset the count.
AttemptsUnreset == attempt

\* _note_runtime.
AttemptsSoFar == IF elapsed >= HealthyReset THEN 0 ELSE attempt

\* Slip: a source that flaps is given up.
CrashOutcomeGivingUp ==
    /\ pc = "outcome" /\ crashed /\ ~stop
    /\ attempt' = AttemptsSoFar + 1
    /\ level' = LevelOf(attempt')
    /\ nap' = DelayFor(attempt')
    /\ streak' = IF uptime >= HealthyReset THEN 1 ELSE streak + 1
    /\ pc' = IF attempt' >= EscalateAt THEN "finished" ELSE "sleep"
    /\ UNCHANGED <<database, stop, buffer, rowsWritten, rowsBefore, crashed,
                   sinceFlush, elapsed, uptime, budget, yielded>>

\* on_crashed, unless a stop is under way.
CrashOutcome ==
    /\ pc = "outcome" /\ crashed /\ ~stop
    /\ attempt' = AttemptsSoFar + 1
    /\ level' = LevelOf(attempt')
    /\ nap' = DelayFor(attempt')
    /\ streak' = IF uptime >= HealthyReset THEN 1 ELSE streak + 1
    /\ pc' = "sleep"
    /\ UNCHANGED <<database, stop, buffer, rowsWritten, rowsBefore, crashed,
                   sinceFlush, elapsed, uptime, budget, yielded>>

\* on_completed, on_stopped: the thread ends.
EndOutcome ==
    /\ pc = "outcome" /\ (~crashed \/ stop)
    /\ attempt' = AttemptsSoFar
    /\ pc' = "finished"
    /\ UNCHANGED <<database, stop, buffer, rowsWritten, rowsBefore, crashed,
                   level, timers, budget, yielded, streak>>

\* The backoff is over, or the stop cut it short.
Wake ==
    /\ pc = "sleep"
    /\ nap = 0 \/ stop
    /\ pc' = IF stop THEN "finished" ELSE "loop"
    /\ nap' = 0
    /\ UNCHANGED <<database, stop, buffer, counters, crashed, level, sinceFlush,
                   elapsed, uptime, budget, yielded, streak>>

-----------------------------------------------------------------------------
(***************************************************************************)
(* One session.                                                            *)
(***************************************************************************)

Full(b) == Len(b) >= BatchSize
Stale == sinceFlush >= FlushInterval

\* The source yields a row; whether to flush is asked then, and only then.
\* It may yield one more after the stop: the event is looked at before.
YieldRow ==
    /\ pc = "stream" /\ yielded < MaxRows
    /\ yielded' = yielded + 1
    /\ buffer' = Append(buffer, yielded')
    /\ IF Full(buffer') \/ Stale
       THEN pc' = "flush" /\ sinceFlush' = 0
       ELSE UNCHANGED <<pc, sinceFlush>>
    /\ UNCHANGED <<database, stop, counters, crashed, level, elapsed, nap,
                   uptime, budget, streak>>

Session == Len(sessions)
Stamped(rows) == [i \in DOMAIN rows |-> [session |-> Session, row |-> rows[i]]]

\* Slip: the buffer is written and not cleared.
FlushKeepingBuffer ==
    /\ table' = table \o Stamped(buffer)
    /\ rowsWritten' = rowsWritten + Len(buffer)
    /\ UNCHANGED buffer

\* _flush: the buffer in one transaction.
Flush ==
    /\ table' = table \o Stamped(buffer)
    /\ rowsWritten' = rowsWritten + Len(buffer)
    /\ buffer' = <<>>

FlushBatch ==
    /\ pc = "flush"
    /\ Flush
    /\ pc' = "stream"
    /\ UNCHANGED <<sessions, stop, rowsBefore, attempt, crashed, level, timers,
                   budget, yielded, streak>>

\* Slip: the buffer is cleared whether or not it was written.
BatchFailsClearing ==
    /\ pc = "flush"
    /\ Fault
    /\ buffer' = <<>>
    /\ pc' = "stream"
    /\ UNCHANGED <<database, stop, counters, crashed, level, timers, yielded, streak>>

\* _safe_flush reports the failure; the rows stay for the next try.
BatchFails ==
    /\ pc = "flush"
    /\ Fault
    /\ pc' = "stream"
    /\ UNCHANGED <<database, stop, buffer, counters, crashed, level, timers,
                   yielded, streak>>

\* Slip: no watchdog terminates the child process.
SourceEndsByItself ==
    /\ pc = "stream" /\ ~stop
    /\ crashed' = FALSE
    /\ pc' = "drain"
    /\ UNCHANGED <<database, stop, buffer, counters, level, timers, budget,
                   yielded, streak>>

\* The child process exits, by itself or terminated by the watchdog once the
\* stop is set.
SourceEnds ==
    /\ pc = "stream"
    /\ crashed' = FALSE
    /\ pc' = "drain"
    /\ UNCHANGED <<database, stop, buffer, counters, level, timers, budget,
                   yielded, streak>>

\* The collector raises.
SourceCrashes ==
    /\ pc = "stream"
    /\ budget.crashes < MaxCrashes
    /\ budget' = [budget EXCEPT !.crashes = @ + 1]
    /\ crashed' = TRUE
    /\ pc' = "drain"
    /\ UNCHANGED <<database, stop, buffer, counters, level, timers, yielded, streak>>

\* _close_session flushes what is left ...
Drain ==
    /\ pc = "drain"
    /\ Flush
    /\ pc' = "close"
    /\ UNCHANGED <<sessions, stop, rowsBefore, attempt, crashed, level, timers,
                   budget, yielded, streak>>

\* ... or fails to, and the buffer goes with the session.
DrainFails ==
    /\ pc = "drain"
    /\ buffer # <<>>
    /\ Fault
    /\ buffer' = <<>>
    /\ pc' = "close"
    /\ UNCHANGED <<database, stop, counters, crashed, level, timers, yielded, streak>>

\* Slip: the worker's total instead of the session's.
SessionRowsTotal == rowsWritten

SessionRows == rowsWritten - rowsBefore

\* end_streaming_session.
CloseSession ==
    /\ pc = "close"
    /\ sessions' = [sessions EXCEPT ![Session] =
                      [finished |-> TRUE, row_count |-> SessionRows]]
    /\ pc' = "outcome"
    /\ UNCHANGED <<table, stop, buffer, counters, crashed, level, timers,
                   budget, yielded, streak>>

CloseFails ==
    /\ pc = "close"
    /\ Fault
    /\ pc' = "outcome"
    /\ UNCHANGED <<database, stop, buffer, counters, crashed, level, timers,
                   yielded, streak>>

-----------------------------------------------------------------------------
(***************************************************************************)
(* Around the worker.                                                      *)
(***************************************************************************)

\* stop: the supervisor sets the event when the control loop has ended.
Stop ==
    /\ pc # "off" /\ ~stop
    /\ stop' = TRUE
    /\ UNCHANGED <<database, pc, buffer, counters, crashed, level, timers,
                   budget, yielded, streak>>

\* The process ends: killed, or done with a join that gave up on this daemon
\* thread or saw it end.  A new process starts from scratch.
Exit ==
    /\ pc # "off"
    /\ budget.kills < MaxKills
    /\ budget' = [budget EXCEPT !.kills = @ + 1]
    /\ pc' = "off"
    /\ buffer' = <<>>
    /\ rowsWritten' = 0 /\ rowsBefore' = 0 /\ attempt' = 0
    /\ level' = "none" /\ streak' = 0
    /\ nap' = 0
    /\ UNCHANGED <<database, stop, crashed, sinceFlush, elapsed, uptime, yielded>>

\* Time passes, wherever the worker is: database calls take time, too.
Tick ==
    /\ pc # "off"
    /\ sinceFlush' = AtMost(sinceFlush + 1, FlushInterval + 1)
    /\ elapsed' = AtMost(elapsed + 1, HealthyReset)
    /\ uptime' = IF pc \in {"stream", "flush"}
                 THEN AtMost(uptime + 1, HealthyReset) ELSE uptime
    /\ nap' = IF pc = "sleep" /\ nap > 0 THEN nap - 1 ELSE nap
    /\ UNCHANGED <<database, pc, stop, buffer, counters, crashed, level,
                   budget, yielded, streak>>

Work ==
    \/ NextTurn \/ OpenSession \/ OpenFails
    \/ FlushBatch \/ BatchFails
    \/ Drain \/ DrainFails \/ CloseSession \/ CloseFails
    \/ CrashOutcome \/ EndOutcome \/ Wake

Next ==
    \/ Start \/ Work
    \/ YieldRow \/ SourceEnds \/ SourceCrashes
    \/ Stop \/ Exit \/ Tick

Spec == Init /\ [][Next]_vars

\* The thread runs, time passes, and a source ends once it is asked to.
Fairness ==
    /\ WF_vars(Work) /\ WF_vars(Tick)
    /\ WF_vars(stop /\ SourceEnds)

FairSpec == Spec /\ Fairness

-----------------------------------------------------------------------------
(***************************************************************************)
(* Properties.                                                             *)
(***************************************************************************)

Stored == {table[i].row : i \in DOMAIN table}
Buffered == {buffer[i] : i \in DOMAIN buffer}

\* Rows reach the table once each and in the order the source yielded them,
\* through failed and repeated flushes, crashes and restarts.
StoredOnceInOrder ==
    \A i, j \in DOMAIN table : i < j =>
        /\ table[i].row < table[j].row
        /\ table[i].session <= table[j].session

\* A row that was yielded stays in the buffer until it is in the table; it is
\* lost only when the last flush of its session fails or the process ends.
RowsKept ==
    [][ \/ Stored \cup Buffered \subseteq (Stored \cup Buffered)'
        \/ pc = "drain" /\ budget'.faults > budget.faults
        \/ pc' = "off" ]_vars

RowsOf(s) == {i \in DOMAIN table : table[i].session = s}

\* A session that was closed says how many of its rows are in the table, also
\* when it is not the worker's first and when flushes failed.
RowCountTrue ==
    \A s \in DOMAIN sessions :
        sessions[s].finished => sessions[s].row_count = Cardinality(RowsOf(s))

\* An ERROR is logged only for a source that crashed EscalateAt times in a
\* row without having streamed for HealthyReset in between.
ErrorsMeanFlapping == level = "error" => streak >= EscalateAt

\* While no database call fails, a crashed session is followed by a new one,
\* however many there were, unless the worker is stopped or its process ends.
CrashRestarts ==
    pc = "outcome" /\ crashed
        ~> pc \in {"stream", "off"} \/ stop \/ budget.faults > 0

\* A worker that was asked to stop ends.
StopEnds == stop ~> pc \in {"finished", "died", "off"}

=============================================================================
