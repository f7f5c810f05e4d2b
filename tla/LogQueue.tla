------------------------------ MODULE LogQueue ------------------------------
(***************************************************************************)
(* The log of one process: every record goes onto a bounded queue, from    *)
(* which a writer thread inserts batches into app_logs once a second.  A   *)
(* request to clear the log flushes the queue too, and so does the stop    *)
(* of the writer, which waits five seconds for the thread first.  A batch  *)
(* that cannot be inserted is dropped.                                     *)
(***************************************************************************)
EXTENDS Naturals, FiniteSets

CONSTANTS
    QueueSize,      \* _QUEUE_MAXSIZE
    MaxRecords      \* bound on the records

ASSUME LogQueueAssumption == {QueueSize, MaxRecords} \subseteq Nat

Flusher == {"writer", "clear", "stop"}

VARIABLES
    logged,     \* records made so far
    logQueue,   \* _log_queue
    batch,      \* per flusher: what it drained and has not inserted
    flushing,   \* per flusher: is it between its drain and its insert
    appLogs,    \* the rows of app_logs
    dropped,    \* history: records refused by a full queue, or in a batch that failed
    cleared,    \* history: rows deleted
    phase,      \* the process: running, stopping, joined, stopped
    writerAt,   \* the writer: looping, last (its final drain), ended
    mustKeep,   \* history: records accepted before the stop
    clearing    \* is a request to clear between its flush and its end

logVars == <<logged, logQueue, batch, flushing, appLogs, dropped, cleared, phase, writerAt,
             mustKeep, clearing>>

\* A logger's call; the handler drops what does not fit.
LogRecord ==
    /\ logged < MaxRecords /\ logged' = logged + 1
    /\ IF Cardinality(logQueue) < QueueSize
       THEN logQueue' = logQueue \cup {logged} /\ UNCHANGED dropped
       ELSE dropped' = dropped \cup {logged} /\ UNCHANGED logQueue
    /\ UNCHANGED <<batch, flushing, appLogs, cleared, phase, writerAt, mustKeep, clearing>>

\* flush_queue, up to its transaction.
DrainedBy(f) ==
    /\ ~flushing[f]
    /\ flushing' = [flushing EXCEPT ![f] = TRUE]
    /\ batch' = [batch EXCEPT ![f] = logQueue]
    /\ logQueue' = {}

\* The insert commits, or its error is printed and the batch is gone.
InsertBatch(f) ==
    /\ flushing[f]
    /\ flushing' = [flushing EXCEPT ![f] = FALSE]
    /\ batch' = [batch EXCEPT ![f] = {}]
    /\ \/ appLogs' = appLogs \cup batch[f] /\ UNCHANGED dropped
       \/ dropped' = dropped \cup batch[f] /\ UNCHANGED appLogs
    /\ IF f = "writer" /\ writerAt = "last" THEN writerAt' = "ended" ELSE UNCHANGED writerAt
    /\ phase' = IF f = "stop" THEN "stopped" ELSE phase
    /\ UNCHANGED <<logged, logQueue, cleared, mustKeep, clearing>>

\* _writer_loop: a turn, or the last one once the stop event is set.
WriterDrains ==
    /\ writerAt = "looping" /\ DrainedBy("writer")
    /\ writerAt' = IF phase = "running" THEN "looping" ELSE "last"
    /\ UNCHANGED <<logged, appLogs, dropped, cleared, phase, mustKeep, clearing>>

\* clear_logs: the flush, and the deletion once its insert is done.
ClearFlushes ==
    /\ phase = "running" /\ ~clearing /\ clearing' = TRUE /\ DrainedBy("clear")
    /\ UNCHANGED <<logged, appLogs, dropped, cleared, phase, writerAt, mustKeep>>

ClearDeletes ==
    /\ clearing /\ ~flushing["clear"] /\ clearing' = FALSE
    /\ cleared' = cleared \cup appLogs /\ appLogs' = {}
    /\ UNCHANGED <<logged, logQueue, batch, flushing, dropped, phase, writerAt, mustKeep>>

\* stop_log_writer sets the event.
StopWriter ==
    /\ phase = "running" /\ phase' = "stopping"
    /\ mustKeep' = 0 .. logged - 1
    /\ UNCHANGED <<logged, logQueue, batch, flushing, appLogs, dropped, cleared, writerAt, clearing>>

\* The join returns with the thread, or after five seconds in which it hung in its insert.
JoinWriter ==
    /\ phase = "stopping" /\ (writerAt = "ended" \/ flushing["writer"])
    /\ phase' = "joined"
    /\ UNCHANGED <<logged, logQueue, batch, flushing, appLogs, dropped, cleared, writerAt,
                   mustKeep, clearing>>

\* Mutant of AfterJoin: the stop trusts the writer's final drain.
AfterJoinNothing == phase = "joined" /\ phase' = "stopped"
                    /\ UNCHANGED <<logQueue, batch, flushing>>

\* The last flush.
AfterJoin == phase = "joined" /\ DrainedBy("stop") /\ UNCHANGED phase

StopFlushes ==
    /\ AfterJoin
    /\ UNCHANGED <<logged, appLogs, dropped, cleared, writerAt, mustKeep, clearing>>

LogInit ==
    /\ logged = 0 /\ logQueue = {} /\ batch = [f \in Flusher |-> {}]
    /\ flushing = [f \in Flusher |-> FALSE] /\ appLogs = {} /\ dropped = {} /\ cleared = {}
    /\ phase = "running" /\ writerAt = "looping" /\ mustKeep = {} /\ clearing = FALSE

LogNext ==
    \/ LogRecord \/ WriterDrains \/ ClearFlushes \/ ClearDeletes
    \/ StopWriter \/ JoinWriter \/ StopFlushes
    \/ \E f \in Flusher : InsertBatch(f)

LogSpec == LogInit /\ [][LogNext]_logVars

-----------------------------------------------------------------------------

\* When the stop has returned, whatever was accepted before it began is in the table, was
\* cleared, or was dropped with an error - except what a flush that hung still holds (the
\* comments on the final drains: nothing queued before the shutdown is lost).
StopLosesNothing ==
    phase = "stopped" =>
        mustKeep \subseteq appLogs \cup cleared \cup dropped \cup batch["writer"] \cup batch["clear"]
=============================================================================
