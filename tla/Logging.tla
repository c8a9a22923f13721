------------------------------- MODULE Logging -------------------------------
(* The logging of the engine: the static class CLogging with its count of     *)
(* users and its cached flags, the one CLoggerService behind it, and the sinks *)
(* that say which levels they take. Its users are engines (CProfilerManager,   *)
(* one per CLR in the process) and CLoggingWrapper objects; they share the     *)
(* service, and each runs its calls on threads of its own.                     *)
(*                                                                            *)
(* A set of logging flags is a set of levels. m_cs of the service covers a     *)
(* whole call, so such a call is one step after the tests it makes before it   *)
(* has the lock. Logging takes a step per sink, and SetLogFilePath and         *)
(* SetLogFileLevel, which do not take m_cs, a step per sink they reset: any    *)
(* step of another user may come between them. Where that is a data race on    *)
(* the vectors of sinks, the model has the outcomes that are not a crash.      *)
EXTENDS Integers

CONSTANTS
    Engines,            \* CProfilerManager objects
    Wrappers,           \* CLoggingWrapper objects
    Methods,            \* class ids of instrumentation methods
    Levels, Errors,     \* LoggingFlags, and the one the event log takes
    Platform,           \* the sinks CreateSinks makes on this platform
    Paths, Openable,    \* log file paths, and the ones that can be opened
    NoUser, NoHost, NoPath, NoLevel,
    EnvLevel,           \* MicrosoftInstrumentationEngine_LogLevel
    EnvFileLevel,       \* MicrosoftInstrumentationEngine_FileLog
    EnvFilePath,        \* MicrosoftInstrumentationEngine_FileLogPath, or NoPath
    EnvMethodLevel,     \* MicrosoftInstrumentationEngine_LogLevel_GUID of a method, or Unset
    Unprefixed,         \* the methods whose entries get no prefix: MicrosoftInstrumentationEngine_DisableLogMethodPrefix
    FileLevels,         \* the file levels an attach configuration may name
    EventMayFail,       \* whether the event source may be impossible to open
    CountModulus,       \* s_initCount is a size_t and wraps around
    MaxCalls            \* bound on the calls users make

Users == Engines \cup Wrappers
Flags == SUBSET Levels
AllSinks == {"debug", "event", "file", "host"}
Position == [debug |-> 1, event |-> 2, file |-> 3, host |-> 4]  \* the order in which CreateSinks adds them
Unset == {NoLevel}  \* in place of flags: a variable that is not set, a method that is not there

ASSUME UsersAssumption == Engines \cap Wrappers = {} /\ NoUser \notin Users /\ NoHost \notin Users
ASSUME LevelsAssumption ==
    /\ Errors \in Levels /\ EnvLevel \in Flags /\ EnvFileLevel \in Flags /\ FileLevels \subseteq Flags
    /\ EnvMethodLevel \in [Methods -> Flags \cup {Unset}] /\ NoLevel \notin Levels /\ Unprefixed \subseteq Methods
ASSUME SinksAssumption ==
    /\ Platform \subseteq AllSinks
    /\ NoPath \notin Paths /\ Openable \subseteq Paths /\ EnvFilePath \in Paths \cup {NoPath}
ASSUME BoundsAssumption ==
    /\ EventMayFail \in BOOLEAN /\ CountModulus \in Nat \ {0} /\ MaxCalls \in Nat

VARIABLES
    sInit,          \* CLogging::s_initialize, never reset
    initCount,      \* CLogging::s_initCount
    cachedFlags,    \* CLogging::s_cachedFlags
    svc,            \* the fields of the CLoggerService
    sinks,          \* m_allSinks with the state of each sink, and the lists per level
    torn,           \* history: a change came between the steps of an unlocked one, and none has set all right since
    csHolder,       \* the user that holds m_cs across steps
    pc,             \* where each user is in its life or in a call
    arg,            \* the call it is in
    methodLevel,    \* m_flags of the CProfilerManagerForInstrumentationMethod of a method in an engine
    calls           \* counts towards MaxCalls

vars == <<sInit, initCount, cachedFlags, svc, sinks, torn, csHolder, pc, arg, methodLevel, calls>>
serviceVars == <<cachedFlags, svc, sinks, torn>>

NoSinks == [present |-> {}, event |-> "no", fileFlags |-> {}, path |-> NoPath, open |-> FALSE, host |-> NoHost,
            to |-> [l \in Levels |-> {}], failed |-> FALSE]
NoCall == [name |-> "none"]

Init ==
    /\ sInit = "no" /\ initCount = 0 /\ cachedFlags = {}
    /\ svc = [ready |-> FALSE, default |-> {}, method |-> {}, wanted |-> [l \in Levels |-> {}],
              host |-> NoHost, debugPort |-> FALSE, effective |-> {}]
    /\ sinks = NoSinks /\ torn = FALSE
    /\ csHolder = NoUser
    /\ pc = [u \in Users |-> "none"]
    /\ arg = [u \in Users |-> NoCall]
    /\ methodLevel = [x \in Engines \X Methods |-> Unset]
    /\ calls = 0

Goto(u, l) == pc' = [pc EXCEPT ![u] = l]

\* The places of SetLogFilePath and SetLogFileLevel, and that no engine is at one.
Changing == {"resetting", "asking", "announcing"}
Settled == \A e \in Engines : pc[e] \notin Changing

----------------------------------------------------------------------------
(* The sinks. Each is reset twice, with the default flags v.default and with  *)
(* the flags v.method of the instrumentation methods.                         *)

\* GetLoggingHost and GetLogToDebugPort say nothing before the service is initialized.
SeenHost(v) == IF v.ready THEN v.host ELSE NoHost
SeenDebugPort(v) == v.ready /\ v.debugPort

\* The file has flags of its own, which supersede the ones of the call.
FileFlags(k, flags) == IF k.fileFlags # {} THEN k.fileFlags ELSE flags

\* The state of a sink after its two Resets. started says whether the event source can be opened, and its thread
\* started, on the first Reset that asks for errors; the init-once around it keeps a failure.
AfterReset(s, v, k, started) ==
    CASE s = "event" /\ k.event = "no" /\ Errors \in v.default \cup v.method ->
            [k EXCEPT !.event = IF started THEN "ok" ELSE "failed"]
      [] s = "file" /\ FileFlags(k, v.default \cup v.method) # {} /\ k.path \in Openable -> [k EXCEPT !.open = TRUE]
      [] s = "host" -> [k EXCEPT !.host = SeenHost(v)]
      [] OTHER -> k

ResetFails(s, v, k) == s = "event" /\ k.event = "failed" /\ Errors \in v.default \cup v.method

\* The levels a sink answers to a Reset with the given flags.
Answer(s, v, k, flags) ==
    CASE s = "debug" -> IF SeenHost(v) = NoHost \/ SeenDebugPort(v) THEN flags ELSE {}
      [] s = "event" -> flags \cap {Errors}
      [] s = "file"  -> IF k.open THEN FileFlags(k, flags) ELSE {}
      [] s = "host"  -> IF k.host # NoHost THEN flags ELSE {}

Takes(s, v, k) == Answer(s, v, k, v.default) \cup Answer(s, v, k, v.method)

\* One round of the loop of RecalculateLoggingFlags.
ResetSink(s, v, k, started) ==
    LET r == AfterReset(s, v, k, started)
    IN  IF s \notin k.present \/ k.failed THEN k
        ELSE IF ResetFails(s, v, r) THEN [r EXCEPT !.failed = TRUE]
        ELSE [r EXCEPT !.to = [l \in Levels |-> IF l \in Takes(s, v, r) THEN r.to[l] \cup {s} ELSE r.to[l]]]

ClearLists(k) == [k EXCEPT !.to = [l \in Levels |-> {}], !.failed = FALSE]

ResetAll(v, k, started) ==
    ResetSink("host", v, ResetSink("file", v, ResetSink("event", v, ResetSink("debug", v, ClearLists(k), started),
              started), started), started)

EffectiveFlags(v, k) == UNION {Answer(s, v, k, v.default) : s \in k.present}

\* Mutant of RecalculateLoggingFlags: the lists are not cleared first.
RecalculateUncleared(v, k) ==
    \E started \in {TRUE} \cup (IF EventMayFail THEN {FALSE} ELSE {}) :
        LET r == ResetAll(v, k, started)
            kept == [r EXCEPT !.to = [l \in Levels |-> r.to[l] \cup (k.to[l] \cap k.present)]]
            effective == IF r.failed THEN v.effective ELSE EffectiveFlags(v, r)
        IN  /\ sinks' = kept
            /\ svc' = [v EXCEPT !.effective = effective]
            /\ cachedFlags' = IF r.failed THEN cachedFlags ELSE effective
            /\ torn' = (~Settled \/ (torn /\ r.failed))

\* RecalculateLoggingFlags by a caller that has m_cs, with the fields of the service as v and the sinks as k.
RecalculateLoggingFlags(v, k) ==
    \E started \in {TRUE} \cup (IF EventMayFail THEN {FALSE} ELSE {}) :
        LET r == ResetAll(v, k, started)
            effective == IF r.failed THEN v.effective ELSE EffectiveFlags(v, r)
        IN  /\ sinks' = r
            /\ svc' = [v EXCEPT !.effective = effective]
            /\ cachedFlags' = IF r.failed THEN cachedFlags ELSE effective
            /\ torn' = (~Settled \/ (torn /\ r.failed))

----------------------------------------------------------------------------
(* CLogging::Initialize and CLogging::Shutdown, and the lives of their users. *)

\* CLoggerService::InitializeCore, run once by the first user.
CreateSinks == [NoSinks EXCEPT !.present = Platform, !.fileFlags = EnvFileLevel, !.path = EnvFilePath]

InitializeService ==
    \E started \in {TRUE} \cup (IF EventMayFail THEN {FALSE} ELSE {}) :
        LET v == [svc EXCEPT !.default = EnvLevel]
            r == ResetAll(v, CreateSinks, started)
            effective == EffectiveFlags(v, r)
        IN  /\ sinks' = r
            /\ svc' = IF r.failed THEN v ELSE [v EXCEPT !.ready = TRUE, !.effective = effective]
            /\ cachedFlags' = IF r.failed THEN cachedFlags ELSE effective
            /\ sInit' = IF r.failed THEN "failed" ELSE "ok"
            /\ UNCHANGED torn

\* A user is constructed: s_initialize.Get(), and then the count.
Construct(u) ==
    /\ pc[u] = "none"
    /\ \/ sInit = "no" /\ InitializeService
       \/ sInit # "no" /\ UNCHANGED <<serviceVars, sInit>>
    /\ Goto(u, "counting")
    /\ UNCHANGED <<initCount, csHolder, arg, methodLevel, calls>>

Count(u) ==
    /\ pc[u] = "counting"
    /\ initCount' = IF sInit = "ok" THEN (initCount + 1) % CountModulus ELSE initCount
    /\ Goto(u, "up")
    /\ UNCHANGED <<serviceVars, sInit, csHolder, arg, methodLevel, calls>>

\* Mutant of ShutdownService: the sinks stay in m_allSinks.
ShutdownServiceKeepSinks ==
    \/ /\ EventMayFail /\ sinks.event = "ok"
       /\ sinks' = [sinks EXCEPT !.event = "no"]
       /\ UNCHANGED svc
    \/ /\ sinks' = [ClearLists(sinks) EXCEPT !.open = FALSE, !.event = "no"]
       /\ svc' = [svc EXCEPT !.host = NoHost, !.ready = FALSE]

\* CLoggerService::Shutdown under m_cs. A sink that fails, which only the event sink may, leaves the rest as it was;
\* its own init-once is reset all the same.
ShutdownService ==
    \/ /\ EventMayFail /\ sinks.event = "ok"
       /\ sinks' = [sinks EXCEPT !.event = "no"]
       /\ UNCHANGED svc
    \/ /\ sinks' = NoSinks
       /\ svc' = [svc EXCEPT !.host = NoHost, !.ready = FALSE]

\* CLogging::Shutdown: the count, and when it has become zero the service.
Uncount(u, from, last, next) ==
    /\ pc[u] = from
    /\ \/ /\ sInit = "ok"
          /\ initCount' = (initCount - 1) % CountModulus
          /\ Goto(u, IF initCount' = 0 THEN last ELSE next)
       \/ sInit # "ok" /\ UNCHANGED initCount /\ Goto(u, next)
    /\ UNCHANGED <<serviceVars, sInit, csHolder, arg, methodLevel, calls>>

LastOut(u, last, next) ==
    /\ pc[u] = last /\ csHolder = NoUser
    /\ ShutdownService
    /\ Goto(u, next)
    /\ UNCHANGED <<cachedFlags, torn, sInit, initCount, csHolder, arg, methodLevel, calls>>

\* Mutant of ReleaseHost: the host is left to the shutdown of the service.
ReleaseHostLater(e) ==
    /\ pc[e] = "up" /\ csHolder = NoUser
    /\ Goto(e, "hostless")
    /\ UNCHANGED <<serviceVars, sInit, initCount, csHolder, arg, methodLevel, calls>>

\* CProfilerManager::Shutdown: SetLoggingHost(nullptr), the raw profiler is told, and CLogging::Shutdown. The
\* destructor calls CLogging::Shutdown once more.
ReleaseHost(e) ==
    /\ pc[e] = "up" /\ csHolder = NoUser
    /\ \/ svc.ready /\ RecalculateLoggingFlags([svc EXCEPT !.host = NoHost], sinks)
       \/ ~svc.ready /\ UNCHANGED serviceVars
    /\ Goto(e, "hostless")
    /\ UNCHANGED <<sInit, initCount, csHolder, arg, methodLevel, calls>>

EngineEnds(e) ==
    \/ ReleaseHost(e)
    \/ Uncount(e, "hostless", "lastInShutdown", "shut")
    \/ LastOut(e, "lastInShutdown", "shut")
    \/ Uncount(e, "shut", "lastInDestructor", "gone")
    \/ LastOut(e, "lastInDestructor", "gone")

WrapperEnds(w) ==
    \/ sInit = "ok" /\ Uncount(w, "up", "lastWrapper", "gone")
    \/ LastOut(w, "lastWrapper", "gone")

----------------------------------------------------------------------------
(* Calls that change the flags, under m_cs after a test of both init-onces.   *)

SetCalls(u) ==
    [name : {"SetLoggingFlags"}, flags : Flags] \cup
    [name : {"SetLogToDebugPort"}, enable : BOOLEAN] \cup
    (IF u \in Engines THEN [name : {"SetLoggingHost"}, host : {u, NoHost}] ELSE {})

Call(u) ==
    /\ pc[u] = "up" /\ sInit = "ok" /\ svc.ready /\ calls < MaxCalls
    /\ \E c \in SetCalls(u) : arg' = [arg EXCEPT ![u] = c]
    /\ Goto(u, "calling")
    /\ calls' = calls + 1
    /\ UNCHANGED <<serviceVars, sInit, initCount, csHolder, methodLevel>>

\* AddInstrumentationMethod constructs the object that logs for the method: its level is the one of its own
\* environment variable or the global one at this moment, and the service is told.
AddMethod(e, g) ==
    /\ pc[e] = "up" /\ methodLevel[<<e, g>>] = Unset /\ calls < MaxCalls
    /\ LET flags == IF EnvMethodLevel[g] # Unset THEN EnvMethodLevel[g]
                    ELSE IF sInit = "ok" THEN cachedFlags ELSE {}
       IN  /\ methodLevel' = [methodLevel EXCEPT ![<<e, g>>] = flags]
           /\ \/ /\ sInit = "ok" /\ svc.ready
                 /\ arg' = [arg EXCEPT ![e] = [name |-> "UpdateMethod", method |-> g, flags |-> flags]]
                 /\ Goto(e, "calling")
              \/ ~(sInit = "ok" /\ svc.ready) /\ UNCHANGED <<arg, pc>>
    /\ calls' = calls + 1
    /\ UNCHANGED <<serviceVars, sInit, initCount, csHolder>>

\* Mutant of UpdateMethodFlags: the flags of this method replace the ones of all.
UpdateMethodFlagsAlone(v, g, flags) == [v EXCEPT !.method = flags]

\* UpdateInstrumentationMethodLoggingFlags: per level the methods that want it, and the levels that some method wants.
UpdateMethodFlags(v, g, flags) ==
    LET wanted == [l \in Levels |-> IF l \in flags THEN v.wanted[l] \cup {g} ELSE v.wanted[l] \ {g}]
    IN  [v EXCEPT !.wanted = wanted, !.method = {l \in Levels : wanted[l] # {}}]

\* The call with the lock: the field, and RecalculateLoggingFlags.
CallLocked(u) ==
    /\ pc[u] = "calling" /\ csHolder = NoUser
    /\ LET c == arg[u]
           v == CASE c.name = "SetLoggingFlags"   -> [svc EXCEPT !.default = c.flags]
                  [] c.name = "SetLogToDebugPort" -> [svc EXCEPT !.debugPort = c.enable]
                  [] c.name = "SetLoggingHost"    -> [svc EXCEPT !.host = c.host]
                  [] c.name = "UpdateMethod"      -> UpdateMethodFlags(svc, c.method, c.flags)
       IN  RecalculateLoggingFlags(v, sinks)
    /\ arg' = [arg EXCEPT ![u] = NoCall]
    /\ Goto(u, "up")
    /\ UNCHANGED <<sInit, initCount, csHolder, methodLevel, calls>>

----------------------------------------------------------------------------
(* SetLogFilePath and SetLogFileLevel of an engine's attach configuration,    *)
(* without m_cs.                                                              *)

\* The file sink gets the value and closes its file; the lists are cleared.
SetLogFile(e) ==
    /\ pc[e] = "up" /\ sInit = "ok" /\ calls < MaxCalls
    /\ \/ \E p \in Paths :
            sinks' = IF "file" \in sinks.present THEN [ClearLists(sinks) EXCEPT !.path = p, !.open = FALSE]
                     ELSE ClearLists(sinks)
       \/ \E flags \in FileLevels :
            sinks' = IF "file" \in sinks.present THEN [ClearLists(sinks) EXCEPT !.fileFlags = flags, !.open = FALSE]
                     ELSE ClearLists(sinks)
    /\ torn' = (torn \/ ~Settled)
    /\ arg' = [arg EXCEPT ![e] = [name |-> "SetLogFile", sum |-> {}, left |-> sinks.present]]
    /\ Goto(e, "resetting")
    /\ calls' = calls + 1
    /\ UNCHANGED <<cachedFlags, svc, sInit, initCount, csHolder, methodLevel>>

\* A round of the loop outside m_cs. A sink that fails ends the loop of this call, whatever befell others.
ResetUnlocked(e, s, started) ==
    LET r == ResetSink(s, svc, [sinks EXCEPT !.failed = FALSE], started)
    IN  /\ sinks' = [r EXCEPT !.failed = r.failed \/ sinks.failed]
        /\ \/ /\ ~r.failed
              /\ arg' = [arg EXCEPT ![e].left = @ \ {s}, ![e].sum = @ \cup Answer(s, svc, r, svc.default)]
              /\ Goto(e, "resetting")
           \/ /\ r.failed
              /\ arg' = [arg EXCEPT ![e] = NoCall]
              /\ Goto(e, "up")
        /\ UNCHANGED <<cachedFlags, svc, torn, sInit, initCount, csHolder, methodLevel, calls>>

\* The next round of the loop. GetLoggingHost, which the debug sink calls, takes m_cs if the service is initialized.
ResetNext(e) ==
    /\ pc[e] = "resetting"
    /\ \E s \in arg[e].left \ {"host"} :
        /\ \A t \in arg[e].left : Position[s] <= Position[t]
        /\ s = "debug" /\ svc.ready => csHolder = NoUser
        /\ \E started \in {TRUE} \cup (IF EventMayFail THEN {FALSE} ELSE {}) : ResetUnlocked(e, s, started)

\* The host sink, the last, passes its own pointer to GetLoggingHost, which nulls it and only then waits for m_cs.
AskHost(e) ==
    /\ pc[e] = "resetting" /\ arg[e].left = {"host"}
    /\ sinks' = IF "host" \in sinks.present THEN [sinks EXCEPT !.host = NoHost] ELSE sinks
    /\ Goto(e, "asking")
    /\ UNCHANGED <<cachedFlags, svc, torn, sInit, initCount, csHolder, arg, methodLevel, calls>>

HostAnswers(e) ==
    /\ pc[e] = "asking"
    /\ svc.ready => csHolder = NoUser
    /\ ResetUnlocked(e, "host", TRUE)

\* m_effectiveFlags, and then the callback.
Publish(e) ==
    /\ pc[e] = "resetting" /\ arg[e].left = {}
    /\ svc' = [svc EXCEPT !.effective = arg[e].sum]
    /\ Goto(e, "announcing")
    /\ UNCHANGED <<cachedFlags, sinks, torn, sInit, initCount, csHolder, arg, methodLevel, calls>>

Announce(e) ==
    /\ pc[e] = "announcing"
    /\ cachedFlags' = arg[e].sum
    /\ arg' = [arg EXCEPT ![e] = NoCall]
    /\ Goto(e, "up")
    /\ UNCHANGED <<svc, sinks, torn, sInit, initCount, csHolder, methodLevel, calls>>

----------------------------------------------------------------------------
(* Logging. *)

\* CLogging::LogError, LogMessage and LogDumpMessage look at the cached flags first.
LogEntry(u, l) ==
    /\ pc[u] = "up" /\ sInit = "ok" /\ l \in cachedFlags /\ calls < MaxCalls
    /\ arg' = [arg EXCEPT ![u] = [name |-> "Log", level |-> l, left |-> {}]]
    /\ Goto(u, "logging")
    /\ calls' = calls + 1
    /\ UNCHANGED <<serviceVars, sInit, initCount, csHolder, methodLevel>>

\* LogMessageInternal of a method's own logger goes by the method's level instead. Without a prefix it goes through
\* LogError, LogMessage or LogDumpMessage of CLogging, which look at the cached flags all the same.
LogMethodEntry(e, g, l) ==
    /\ pc[e] = "up" /\ sInit = "ok" /\ methodLevel[<<e, g>>] # Unset /\ l \in methodLevel[<<e, g>>] /\ calls < MaxCalls
    /\ g \in Unprefixed => l \in cachedFlags
    /\ arg' = [arg EXCEPT ![e] = [name |-> "Log", level |-> l, left |-> {}]]
    /\ Goto(e, "logging")
    /\ calls' = calls + 1
    /\ UNCHANGED <<serviceVars, sInit, initCount, csHolder, methodLevel>>

AllowLogEntry(l) == svc.ready /\ l \in svc.effective \cup svc.method

\* The service takes m_cs and asks AllowLogEntry.
LogLocked(u) ==
    /\ pc[u] = "logging" /\ csHolder = NoUser
    /\ \/ /\ AllowLogEntry(arg[u].level)
          /\ csHolder' = u
          /\ arg' = [arg EXCEPT ![u].left = sinks.to[arg[u].level]]
          /\ Goto(u, "writing")
       \/ /\ ~AllowLogEntry(arg[u].level)
          /\ arg' = [arg EXCEPT ![u] = NoCall]
          /\ Goto(u, "up")
          /\ UNCHANGED csHolder
    /\ UNCHANGED <<serviceVars, sInit, initCount, methodLevel, calls>>

WriteSink(u) ==
    /\ pc[u] = "writing"
    /\ \/ \E s \in arg[u].left :
            /\ arg' = [arg EXCEPT ![u].left = @ \ {s}]
            /\ UNCHANGED <<pc, csHolder>>
       \/ /\ arg[u].left = {}
          /\ arg' = [arg EXCEPT ![u] = NoCall]
          /\ csHolder' = NoUser
          /\ Goto(u, "up")
    /\ UNCHANGED <<serviceVars, sInit, initCount, methodLevel, calls>>

\* The vector that the loop goes through is cleared and refilled by SetLogFilePath: from there on the loop finds what is
\* in it now.
ListChanges(u) ==
    /\ pc[u] = "writing" /\ ~Settled /\ arg[u].left # sinks.to[arg[u].level]
    /\ arg' = [arg EXCEPT ![u].left = sinks.to[arg[u].level]]
    /\ UNCHANGED <<serviceVars, sInit, initCount, csHolder, pc, methodLevel, calls>>

Next ==
    \/ \E u \in Users : \/ Construct(u) \/ Count(u) \/ Call(u) \/ CallLocked(u)
                        \/ LogLocked(u) \/ WriteSink(u) \/ ListChanges(u)
    \/ \E e \in Engines : \/ EngineEnds(e) \/ SetLogFile(e) \/ ResetNext(e) \/ AskHost(e) \/ HostAnswers(e)
                          \/ Publish(e) \/ Announce(e)
    \/ \E w \in Wrappers : WrapperEnds(w)
    \/ \E e \in Engines, g \in Methods : AddMethod(e, g)
    \/ \E u \in Users, l \in Levels : LogEntry(u, l)
    \/ \E e \in Engines, g \in Methods, l \in Levels : LogMethodEntry(e, g, l)

Spec == Init /\ [][Next]_vars

----------------------------------------------------------------------------
(* Properties. *)

Services ==
    [ready : BOOLEAN, default : Flags, method : Flags, wanted : [Levels -> SUBSET Methods],
     host : Engines \cup {NoHost}, debugPort : BOOLEAN, effective : Flags]

SinkStates ==
    [present : {{}, Platform}, event : {"no", "ok", "failed"}, fileFlags : Flags, path : Paths \cup {NoPath},
     open : BOOLEAN, host : Engines \cup {NoHost}, to : [Levels -> SUBSET Platform], failed : BOOLEAN]

Places ==
    {"none", "counting", "up", "calling", "resetting", "asking", "announcing", "logging", "writing", "hostless",
     "lastInShutdown", "shut", "lastInDestructor", "lastWrapper", "gone"}

TypeOK ==
    /\ sInit \in {"no", "ok", "failed"} /\ initCount \in 0 .. CountModulus - 1 /\ cachedFlags \in Flags
    /\ svc \in Services /\ sinks \in SinkStates /\ torn \in BOOLEAN
    /\ csHolder \in Users \cup {NoUser}
    /\ pc \in [Users -> Places] /\ DOMAIN arg = Users
    /\ methodLevel \in [Engines \X Methods -> Flags \cup {Unset}]
    /\ calls \in 0 .. MaxCalls

\* What a sink would take now if it were asked.
WouldTake(s) ==
    CASE s = "debug" -> IF svc.host = NoHost \/ svc.debugPort THEN svc.default \cup svc.method ELSE {}
      [] s = "event" -> (svc.default \cup svc.method) \cap {Errors}
      [] s = "file"  -> IF sinks.path \notin Openable THEN {}
                        ELSE IF sinks.fileFlags # {} THEN sinks.fileFlags ELSE svc.default \cup svc.method
      [] s = "host"  -> IF svc.host = NoHost THEN {} ELSE svc.default \cup svc.method

\* After any sequence of changes by any users the lists of the levels are those of the sinks' present answers: no
\* change of a flag, of the host, of the debug port or of the file leaves a list behind. And "This caches the effective
\* loggingflag of s_loggerService": the flags by which CLogging drops entries are the service's. SetLogFilePath and
\* SetLogFileLevel do not take m_cs; a change that comes between their steps may leave anything, until a later change
\* under m_cs sets it right. An event source that cannot be opened leaves the lists incomplete, until a change after
\* which no error is asked for.
ListsFresh ==
    svc.ready /\ Settled /\ ~torn =>
        /\ ~sinks.failed => \A l \in Levels : sinks.to[l] = {s \in Platform : l \in WouldTake(s)}
        /\ cachedFlags = svc.effective

\* The service has heard of the level that the environment sets for g, which e has added.
Told(e, g) ==
    /\ methodLevel[<<e, g>>] # Unset /\ EnvMethodLevel[g] # Unset
    /\ ~(pc[e] = "calling" /\ arg[e] = [name |-> "UpdateMethod", method |-> g, flags |-> EnvMethodLevel[g]])

\* A sink takes an entry that is logged with level l because a method asked for l.
Willing(s, l) ==
    CASE s = "debug" -> svc.host = NoHost \/ svc.debugPort
      [] s = "event" -> l = Errors
      [] s = "file"  -> sinks.path \in Openable /\ (sinks.fileFlags = {} \/ l \in sinks.fileFlags)
      [] s = "host"  -> svc.host # NoHost

\* What an instrumentation method logs, with its prefix, on a level that its own environment variable names is heard as
\* long as the service runs, whatever other methods are added by whichever engine and whatever happens to the global
\* flags: LogMessageInternal and AllowLogEntry let it pass, and every sink that is willing gets it (but for the lists
\* that ListsFresh excepts). Without a prefix the entry goes by the global flags too, and may not be heard.
MethodHeard ==
    \A e \in Engines, g \in Methods :
        svc.ready /\ Told(e, g) =>
            \A l \in EnvMethodLevel[g] :
                /\ l \in methodLevel[<<e, g>>] /\ AllowLogEntry(l)
                /\ Settled /\ ~torn /\ ~sinks.failed => \A s \in Platform : Willing(s, l) => s \in sinks.to[l]

\* An engine is in GetLoggingHost for the host sink, without m_cs.
HostAsked == \E e \in Engines : pc[e] = "asking"

\* "Do not touch the logging host after this point": once the Shutdown of an engine has given up the logging host
\* that the engine's raw profiler set, no entry of any user reaches that host. And an entry on its way to the host
\* sink finds a host there, as CHostLoggerSink calls it without a test, unless an engine changes the log file at that
\* moment: GetLoggingHost nulls the sink's pointer before it has m_cs.
HostSilent ==
    /\ \A e \in Engines :
        pc[e] \in {"hostless", "lastInShutdown", "shut", "lastInDestructor", "gone"} /\ sinks.host = e =>
            /\ \A l \in Levels : "host" \notin sinks.to[l]
            /\ \A u \in Users : pc[u] = "writing" => "host" \notin arg[u].left
    /\ \A u \in Users : pc[u] = "writing" /\ "host" \in arg[u].left => sinks.host # NoHost \/ HostAsked

\* After the shutdown of the service nothing is open and no list names a sink, also when a call that had passed its
\* tests before the shutdown gets the lock after it.
ReleasedForGood ==
    sInit = "ok" /\ ~svc.ready => ~sinks.open /\ sinks.host = NoHost /\ \A l \in Levels : sinks.to[l] = {}

\* docs/logging.md: a CLoggingWrapper "allows InstrumentationMethods to log independently of any profiler manager's
\* lifetime". The count on which the service is shut down does not get to zero while a wrapper is counted in it.
WrapperLogs == [][initCount # 0 /\ initCount' = 0 => \A w \in Wrappers : pc'[w] # "up"]_vars
=============================================================================
