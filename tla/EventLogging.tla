---------------------------- MODULE EventLogging ----------------------------
(* CEventLoggingBase: entries for the system's event log are queued by any    *)
(* thread and written by one thread of the logger's own. CEventLoggerSink of  *)
(* the engine and CEventLogger of the profiler proxy are both built on it.    *)
EXTENDS Integers, Sequences, FiniteSets, SequencesExt

CONSTANTS
    Entries,        \* the texts callers log, each once
    LengthOf,       \* their lengths
    MaxQueueLength, \* 64 KB in the code
    MayFail         \* the calls of the operating system that may fail

ASSUME EntriesAssumption == LengthOf \in [Entries -> Nat]
ASSUME LimitAssumption == MaxQueueLength \in Nat \ {0}
ASSUME FailureAssumption == MayFail \subseteq {"CoInitialize", "SetEvent", "Wait", "ReportEvent", "Deregister"}

VARIABLES
    init,           \* m_initEventSource: "no", "ok" or "failed"
    source,         \* m_hEventSource: "none", "open" or "closed"
    thread,         \* where LogEventThreadProc is
    fShutdown,      \* its local copy of isShutdown
    batch,          \* its local eventQueue
    signal,         \* m_hEventQueueProcessEvent, an auto-reset event
    queue,          \* m_eventQueue
    queueLength,    \* m_eventQueueLength
    isShutdown,     \* m_isShutdown
    closing,        \* how far TerminateEventSource is
    timedOut,       \* whether its wait for the thread ended by the timeout
    offered,        \* the entries callers have logged so far
    accepted,       \* history: the entries AppendToQueue pushed
    missed,         \* history: whether the last SetEvent failed and the thread has not taken the queue since
    reported,       \* the entries ReportEvent was called with
    outcomes        \* what became of each: "written", "refused" by the event log or lost to a "closed" source

threadVars == <<thread, fShutdown, batch>>
queueVars == <<signal, missed, queue, queueLength, isShutdown>>
closeVars == <<closing, timedOut>>
reportVars == <<reported, outcomes>>
vars == <<init, source, threadVars, queueVars, closeVars, offered, accepted, reportVars>>

Init ==
    /\ init = "no" /\ source = "none"
    /\ thread = "none" /\ fShutdown = FALSE /\ batch = <<>>
    /\ signal = FALSE /\ queue = <<>> /\ queueLength = 0 /\ isShutdown = FALSE
    /\ closing = "no" /\ timedOut = FALSE
    /\ offered = {} /\ accepted = <<>> /\ missed = FALSE /\ reported = <<>> /\ outcomes = <<>>

----------------------------------------------------------------------------
(* InitializeEventSource, behind an init-once: it either gets both the source *)
(* and the thread, or fails and stays failed.                                 *)

InitializeEventSource ==
    /\ init = "no" /\ closing = "no"
    /\ \/ init' = "failed" /\ UNCHANGED <<source, thread>>      \* RegisterEventSource fails
       \/ init' = "failed" /\ source' = "open" /\ UNCHANGED thread  \* CreateThread fails
       \/ init' = "ok" /\ source' = "open" /\ thread' = "starting"
    /\ UNCHANGED <<fShutdown, batch, queueVars, closeVars, offered, accepted, reportVars>>

----------------------------------------------------------------------------
(* AppendToQueue, under m_cs. *)

\* Whether the queue takes an entry: its length is tested before the entry is added.
Fits(e) == queueLength < MaxQueueLength /\ LengthOf[e] > 0

\* Mutant of Push: the thread is not woken.
PushSilently(e) ==
    /\ queue' = Append(queue, e)
    /\ queueLength' = queueLength + LengthOf[e]
    /\ accepted' = Append(accepted, e)
    /\ UNCHANGED <<signal, missed>>

\* SetEvent, which may fail and then leaves the event as it is.
Succeeds == signal' = TRUE /\ missed' = FALSE
Fails == "SetEvent" \in MayFail /\ missed' = TRUE /\ UNCHANGED signal

\* The entry stays queued also when the thread cannot be told of it.
Push(e) ==
    /\ queue' = Append(queue, e)
    /\ queueLength' = queueLength + LengthOf[e]
    /\ accepted' = Append(accepted, e)
    /\ Succeeds \/ Fails

\* A caller logs e. After the shutdown the entry is dropped, and a full queue refuses it.
AppendToQueue(e) ==
    /\ init = "ok" /\ e \notin offered
    /\ offered' = offered \cup {e}
    /\ \/ ~isShutdown /\ Fits(e) /\ Push(e)
       \/ (isShutdown \/ ~Fits(e)) /\ UNCHANGED <<queue, queueLength, accepted, signal, missed>>
    /\ UNCHANGED <<init, source, threadVars, isShutdown, closeVars, reportVars>>

----------------------------------------------------------------------------
(* LogEventThreadProc. *)

ThreadStarts ==
    /\ thread = "starting"
    /\ \/ thread' = "waiting"
       \/ "CoInitialize" \in MayFail /\ thread' = "failed"
    /\ UNCHANGED <<init, source, fShutdown, batch, queueVars, closeVars, offered, accepted, reportVars>>

\* WaitForSingleObject returns and resets the event.
WaitReturns ==
    /\ thread = "waiting" /\ signal
    /\ thread' = "woken" /\ signal' = FALSE
    /\ UNCHANGED <<init, source, fShutdown, batch, missed, queue, queueLength, isShutdown, closeVars, offered, accepted,
                   reportVars>>

\* It fails and the thread returns, whatever is queued.
WaitFails ==
    /\ thread = "waiting" /\ "Wait" \in MayFail
    /\ thread' = "failed"
    /\ UNCHANGED <<init, source, fShutdown, batch, queueVars, closeVars, offered, accepted, reportVars>>

\* Mutant of TakeQueue: the queue is copied.
TakeQueueCopy ==
    /\ thread = "woken"
    /\ thread' = "draining"
    /\ batch' = queue /\ queueLength' = 0
    /\ fShutdown' = isShutdown /\ missed' = FALSE
    /\ UNCHANGED <<init, source, signal, queue, isShutdown, closeVars, offered, accepted, reportVars>>

\* Mutant of TakeQueue: the length is not reset.
TakeQueueKeepLength ==
    /\ thread = "woken"
    /\ thread' = "draining"
    /\ batch' = queue /\ queue' = <<>>
    /\ fShutdown' = isShutdown /\ missed' = FALSE
    /\ UNCHANGED <<init, source, signal, queueLength, isShutdown, closeVars, offered, accepted, reportVars>>

\* Under m_cs: the queue is swapped with an empty one and the shutdown request is read.
TakeQueue ==
    /\ thread = "woken"
    /\ thread' = "draining"
    /\ batch' = queue /\ queue' = <<>> /\ queueLength' = 0
    /\ fShutdown' = isShutdown /\ missed' = FALSE
    /\ UNCHANGED <<init, source, signal, isShutdown, closeVars, offered, accepted, reportVars>>

\* What ReportEvent may answer. Only a source that TerminateEventSource left open takes anything, and it may refuse.
Outcomes ==
    IF source = "open"
    THEN {"written"} \cup (IF "ReportEvent" \in MayFail THEN {"refused"} ELSE {})
    ELSE {"closed"}

\* LogEvent: "if this fails, we're out of luck", and the entry is gone.
ReportItem ==
    /\ thread = "draining" /\ batch # <<>>
    /\ batch' = Tail(batch)
    /\ reported' = Append(reported, Head(batch))
    /\ \E o \in Outcomes : outcomes' = Append(outcomes, o)
    /\ UNCHANGED <<init, source, thread, fShutdown, queueVars, closeVars, offered, accepted>>

\* Mutant of BatchDone: the event is reset by hand after the batch.
BatchDoneReset ==
    /\ thread = "draining" /\ batch = <<>>
    /\ thread' = IF fShutdown THEN "done" ELSE "waiting"
    /\ signal' = FALSE
    /\ UNCHANGED <<init, source, fShutdown, batch, missed, queue, queueLength, isShutdown, closeVars, offered, accepted, reportVars>>

\* Mutant of BatchDone: the thread looks at the flag itself, after its batch.
BatchDoneLate ==
    /\ thread = "draining" /\ batch = <<>>
    /\ thread' = IF isShutdown THEN "done" ELSE "waiting"
    /\ UNCHANGED <<init, source, fShutdown, batch, queueVars, closeVars, offered, accepted, reportVars>>

BatchDone ==
    /\ thread = "draining" /\ batch = <<>>
    /\ thread' = IF fShutdown THEN "done" ELSE "waiting"
    /\ UNCHANGED <<init, source, fShutdown, batch, queueVars, closeVars, offered, accepted, reportVars>>

Worker == ThreadStarts \/ WaitReturns \/ TakeQueue \/ ReportItem \/ BatchDone

----------------------------------------------------------------------------
(* TerminateEventSource. *)

\* Under m_cs: the flag first, then the event. When the event cannot be set the source is neither drained nor closed.
RequestShutdown ==
    /\ closing = "no" /\ isShutdown' = TRUE
    /\ \/ Succeeds /\ closing' = "waiting"
       \/ Fails /\ closing' = "abandoned"
    /\ UNCHANGED <<init, source, threadVars, queue, queueLength, timedOut, offered, accepted, reportVars>>

\* Whether the thread has ended or there was none to wait for.
ThreadEnded == thread \in {"none", "done", "failed"}

\* WaitForSingleObject on the thread, for at most 15 seconds.
AwaitThread ==
    /\ closing = "waiting" /\ closing' = "closing"
    /\ timedOut' = ~ThreadEnded
    /\ UNCHANGED <<init, source, threadVars, queueVars, offered, accepted, reportVars>>

Deregister ==
    /\ closing = "closing" /\ closing' = "closed"
    /\ \/ source' = IF source = "open" THEN "closed" ELSE source
       \/ source = "open" /\ "Deregister" \in MayFail /\ UNCHANGED source
    /\ UNCHANGED <<init, threadVars, queueVars, timedOut, offered, accepted, reportVars>>

Next ==
    \/ InitializeEventSource
    \/ \E e \in Entries : AppendToQueue(e)
    \/ ThreadStarts \/ WaitReturns \/ WaitFails \/ TakeQueue \/ ReportItem \/ BatchDone
    \/ RequestShutdown \/ AwaitThread \/ Deregister

\* The operating system runs the logger's thread; nothing makes its wait fail.
Spec == Init /\ [][Next]_vars /\ WF_vars(Worker)

----------------------------------------------------------------------------
(* Properties. *)

TypeOK ==
    /\ init \in {"no", "ok", "failed"} /\ source \in {"none", "open", "closed"}
    /\ thread \in {"none", "starting", "failed", "waiting", "woken", "draining", "done"}
    /\ fShutdown \in BOOLEAN /\ signal \in BOOLEAN /\ isShutdown \in BOOLEAN /\ timedOut \in BOOLEAN
    /\ batch \in Seq(Entries) /\ queue \in Seq(Entries)
    /\ accepted \in Seq(Entries) /\ reported \in Seq(Entries)
    /\ outcomes \in Seq({"written", "refused", "closed"}) /\ missed \in BOOLEAN
    /\ queueLength \in Nat /\ offered \subseteq Entries
    /\ closing \in {"no", "waiting", "abandoned", "closing", "closed"}

\* An entry that AppendToQueue took was given to ReportEvent, is in the thread's batch or in the queue, once and in
\* the order of the calls, whatever fails; and ReportEvent was called with an open source, which may refuse the entry,
\* unless the wait for the thread timed out.
NothingLost ==
    /\ accepted = reported \o batch \o queue
    /\ ~timedOut => \A i \in 1 .. Len(outcomes) : outcomes[i] # "closed"

\* The thread never sleeps on entries, or on a shutdown request, that nothing will wake it for: LogEventThreadProc
\* resets the event before it empties the queue. A SetEvent that failed is made up for by the next one.
NoLostWakeup == thread = "waiting" /\ (queue # <<>> \/ isShutdown) => signal \/ missed

\* "Allow thread to drain the queue": when the source has been deregistered and the wait did not time out, the
\* thread has ended, and nothing it accepted is left unless CoInitialize or a wait of the thread failed.
DrainedAtClose ==
    closing \in {"closing", "closed"} /\ ~timedOut =>
        /\ ThreadEnded
        /\ thread # "failed" => queue = <<>> /\ batch = <<>>

\* How long the entries of s before each place are together; the last place is beyond its end.
LengthBefore(s) ==
    LET sum[i \in 1 .. Len(s) + 1] == IF i = 1 THEN 0 ELSE sum[i - 1] + LengthOf[s[i - 1]]
    IN  sum

\* m_eventQueueLength is the length of what is queued, and exceeds the limit by less than the last entry.
LengthTracked ==
    /\ queueLength = LengthBefore(queue)[Len(queue) + 1]
    /\ queue # <<>> => queueLength - LengthOf[Last(queue)] < MaxQueueLength

\* The abstract log: what the thread has taken and what is queued is pending.
Log == INSTANCE EventLog WITH
    pending <- batch \o queue,
    given <- reported,
    outcomes <- outcomes,
    works <- thread # "failed" /\ source # "closed" /\ ~missed

\* The queue, the wake-ups and the thread together are a log that passes on what it accepts in order, to an open source
\* and, while its thread runs and hears of the entries, eventually.
ImplementsEventLog == Log!Spec
=============================================================================
