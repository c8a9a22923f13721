--------------------------- MODULE Logging_proofs ---------------------------
(* What the logging service keeps, for any engines, wrappers, methods, levels *)
(* and sinks: entries do not reach a host that was given up, a method is heard *)
(* on its levels, a service that was shut down holds nothing, and the lists     *)
(* follow every change that no change outside m_cs has come between.           *)
EXTENDS Logging, TLAPS

\* What a sink takes with the service v when the path and the flags of the file are those of k. WouldTake is this for
\* the present state.
Wants(s, v, k) ==
    CASE s = "debug" -> IF v.host = NoHost \/ v.debugPort THEN v.default \cup v.method ELSE {}
      [] s = "event" -> (v.default \cup v.method) \cap {Errors}
      [] s = "file"  -> IF k.path \notin Openable THEN {}
                        ELSE IF k.fileFlags # {} THEN k.fileFlags ELSE v.default \cup v.method
      [] s = "host"  -> IF v.host = NoHost THEN {} ELSE v.default \cup v.method

\* The sinks in S are in the lists of the levels they want, and there are no others.
Done(S, v, k) == ~k.failed => \A l \in Levels : k.to[l] = {s \in S : l \in Wants(s, v, k)}

\* What GetLoggingHost and GetLogToDebugPort answer is what the service has.
Seen(v) == v.ready \/ v.host = NoHost

OpenFits(k) == k.open => k.path \in Openable

\* The host sink is in a list only with the host that the service has, and not without one.
HostFits(v, k) == \A l \in Levels : "host" \in k.to[l] => v.ready /\ k.host = v.host /\ v.host # NoHost

\* The same while GetLoggingHost may have nulled the pointer of the host sink.
HostMayFit(v, k) == \A l \in Levels : "host" \in k.to[l] => v.ready /\ v.host # NoHost /\ k.host \in {v.host, NoHost}

SameFile(k, r) == r.present = k.present /\ r.path = k.path /\ r.fileFlags = k.fileFlags

-----------------------------------------------------------------------------
(* One sink.                                                                 *)

\* A reset keeps the state of the sinks a state of the sinks.
LEMMA AfterResetType ==
    ASSUME NEW v \in Services, NEW k \in SinkStates, NEW s \in AllSinks, NEW started \in BOOLEAN
    PROVE  LET r == AfterReset(s, v, k, started)
           IN  /\ r \in SinkStates
               /\ SameFile(k, r)
               /\ r.to = k.to /\ r.failed = k.failed
               /\ s # "host" => r.host = k.host
               /\ OpenFits(k) => OpenFits(r)
<1>1. CASE s = "debug"
    BY <1>1 DEF AfterReset, SinkStates, SameFile, OpenFits
<1>2. CASE s = "event"
    BY <1>2 DEF AfterReset, SinkStates, SameFile, OpenFits
<1>3. CASE s = "file"
    BY <1>3 DEF AfterReset, SinkStates, SameFile, OpenFits
<1>4. CASE s = "host"
    BY <1>4 DEF AfterReset, SinkStates, Services, SeenHost, SameFile, OpenFits
<1> QED BY <1>1, <1>2, <1>3, <1>4 DEF AllSinks

\* A sink answers with levels.
LEMMA AnswerType ==
    ASSUME NEW v \in Services, NEW k \in SinkStates, NEW s \in AllSinks, NEW flags \in Flags
    PROVE  Answer(s, v, k, flags) \in Flags
BY DEF Answer, AllSinks, SinkStates, FileFlags, Flags

\* What a sink answers after a reset that did not fail is what it wants.
LEMMA TakesWhatItWants ==
    ASSUME NEW v \in Services, NEW k \in SinkStates, NEW s \in AllSinks, NEW started \in BOOLEAN,
           Seen(v), OpenFits(k), ~ResetFails(s, v, AfterReset(s, v, k, started))
    PROVE  Takes(s, v, AfterReset(s, v, k, started)) = Wants(s, v, k)
<1> DEFINE r == AfterReset(s, v, k, started)
<1> SUFFICES Takes(s, v, r) = Wants(s, v, k)
    OBVIOUS
<1>a. v.default \in Flags /\ v.method \in Flags
    BY DEF Services
<1>1. CASE s = "debug"
    <2>1. Takes(s, v, r) = IF SeenHost(v) = NoHost \/ SeenDebugPort(v) THEN v.default \cup v.method ELSE {}
        BY <1>1 DEF Takes, Answer
    <2>2. Wants(s, v, k) = IF v.host = NoHost \/ v.debugPort THEN v.default \cup v.method ELSE {}
        BY <1>1 DEF Wants
    <2>3. (SeenHost(v) = NoHost \/ SeenDebugPort(v)) <=> (v.host = NoHost \/ v.debugPort)
        BY DEF Seen, SeenHost, SeenDebugPort
    <2> QED BY <2>1, <2>2, <2>3
<1>2. CASE s = "event"
    BY <1>2 DEF Takes, Answer, Wants
<1>3. CASE s = "file"
    <2>1. Takes(s, v, r) = IF r.open THEN FileFlags(r, v.default) \cup FileFlags(r, v.method) ELSE {}
        BY <1>3 DEF Takes, Answer
    <2>2. r.fileFlags = k.fileFlags /\ r.path = k.path
        BY AfterResetType DEF SameFile
    <2>3. FileFlags(r, v.default) \cup FileFlags(r, v.method) = FileFlags(k, v.default \cup v.method)
        BY <2>2 DEF FileFlags
    <2>4. r.open <=> k.open \/ (FileFlags(k, v.default \cup v.method) # {} /\ k.path \in Openable)
        BY <1>3 DEF AfterReset, SinkStates
    <2>5. Wants(s, v, k) = IF k.path \notin Openable THEN {} ELSE FileFlags(k, v.default \cup v.method)
        BY <1>3 DEF Wants, FileFlags
    <2> HIDE DEF r
    <2> QED BY <2>1, <2>3, <2>4, <2>5 DEF OpenFits
<1>4. CASE s = "host"
    <2>1. r.host = SeenHost(v)
        BY <1>4 DEF AfterReset, SinkStates
    <2>2. Takes(s, v, r) = IF r.host # NoHost THEN v.default \cup v.method ELSE {}
        BY <1>4 DEF Takes, Answer
    <2>3. Wants(s, v, k) = IF v.host = NoHost THEN {} ELSE v.default \cup v.method
        BY <1>4 DEF Wants
    <2> HIDE DEF r
    <2> QED BY <2>1, <2>2, <2>3 DEF Seen, SeenHost
<1> QED BY <1>1, <1>2, <1>3, <1>4 DEF AllSinks

\* What one round of the loop does: a sink that fails ends it, a sink that does not gets into the lists it wants.
LEMMA ResetSinkStep ==
    ASSUME NEW v \in Services, NEW k \in SinkStates, NEW s \in AllSinks, NEW started \in BOOLEAN
    PROVE  LET r == ResetSink(s, v, k, started)
           IN  /\ r \in SinkStates
               /\ SameFile(k, r)
               /\ s # "host" => r.host = k.host
               /\ OpenFits(k) => OpenFits(r)
               /\ s \notin k.present => r = k
<1> DEFINE a == AfterReset(s, v, k, started)
           r == ResetSink(s, v, k, started)
           w == [l \in Levels |-> IF l \in Takes(s, v, a) THEN a.to[l] \cup {s} ELSE a.to[l]]
<1>1. r = IF s \notin k.present \/ k.failed THEN k
          ELSE IF ResetFails(s, v, a) THEN [a EXCEPT !.failed = TRUE] ELSE [a EXCEPT !.to = w]
    BY DEF ResetSink
<1>2. a \in SinkStates /\ SameFile(k, a) /\ (s # "host" => a.host = k.host) /\ (OpenFits(k) => OpenFits(a))
    BY AfterResetType
<1>3. s \in k.present => w \in [Levels -> SUBSET Platform]
    <2> HIDE DEF a
    <2> QED BY <1>2 DEF SinkStates
<1> SUFFICES /\ r \in SinkStates
             /\ SameFile(k, r)
             /\ s # "host" => r.host = k.host
             /\ OpenFits(k) => OpenFits(r)
             /\ s \notin k.present => r = k
    OBVIOUS
<1> HIDE DEF a, r, w
<1>4. CASE s \notin k.present \/ k.failed
    BY <1>1, <1>4 DEF SameFile
<1>5. CASE ~(s \notin k.present \/ k.failed) /\ ResetFails(s, v, a)
    BY <1>1, <1>2, <1>5 DEF SameFile, OpenFits, SinkStates
<1>6. CASE ~(s \notin k.present \/ k.failed) /\ ~ResetFails(s, v, a)
    BY <1>1, <1>2, <1>3, <1>6 DEF SameFile, OpenFits, SinkStates
<1> QED BY <1>4, <1>5, <1>6

\* Wants goes by the service, the path and the flags of the file only.
LEMMA WantsTheSame ==
    ASSUME NEW v, NEW k, NEW r, SameFile(k, r), NEW s \in AllSinks
    PROVE  Wants(s, v, r) = Wants(s, v, k)
BY DEF Wants, SameFile, AllSinks

\* A round of the loop adds its sink to what is done.
LEMMA ResetSinkDone ==
    ASSUME NEW v \in Services, NEW k \in SinkStates, NEW s \in AllSinks, NEW started \in BOOLEAN,
           NEW S \in SUBSET AllSinks, Seen(v), OpenFits(k), Done(S, v, k)
    PROVE  Done(S \cup ({s} \cap k.present), v, ResetSink(s, v, k, started))
<1> DEFINE a == AfterReset(s, v, k, started)
           r == ResetSink(s, v, k, started)
           w == [l \in Levels |-> IF l \in Takes(s, v, a) THEN a.to[l] \cup {s} ELSE a.to[l]]
<1>1. r = IF s \notin k.present \/ k.failed THEN k
          ELSE IF ResetFails(s, v, a) THEN [a EXCEPT !.failed = TRUE] ELSE [a EXCEPT !.to = w]
    BY DEF ResetSink
<1>2. a \in SinkStates /\ a.to = k.to /\ a.failed = k.failed
    BY AfterResetType
<1>3. ~ResetFails(s, v, a) => Takes(s, v, a) = Wants(s, v, k)
    BY TakesWhatItWants
<1>4. SameFile(k, r)
    BY ResetSinkStep
<1> SUFFICES Done(S \cup ({s} \cap k.present), v, r)
    OBVIOUS
<1> HIDE DEF a, r
<1>5. CASE s \notin k.present
    <2>1. r = k /\ S \cup ({s} \cap k.present) = S
        BY <1>1, <1>5
    <2> QED BY <2>1
<1>6. CASE s \in k.present /\ k.failed
    BY <1>1, <1>6 DEF Done
<1>7. CASE s \in k.present /\ ~k.failed /\ ResetFails(s, v, a)
    BY <1>1, <1>2, <1>7 DEF Done, SinkStates
<1>8. CASE s \in k.present /\ ~k.failed /\ ~ResetFails(s, v, a)
    <2>1. r.to = w
        BY <1>1, <1>2, <1>8 DEF SinkStates
    <2>2. SUFFICES ASSUME NEW l \in Levels
                   PROVE  r.to[l] = {t \in S \cup {s} : l \in Wants(t, v, r)}
        <3>1. S \cup ({s} \cap k.present) = S \cup {s}
            BY <1>8
        <3> QED BY <2>2, <3>1 DEF Done
    <2>3. r.to[l] = IF l \in Wants(s, v, k) THEN k.to[l] \cup {s} ELSE k.to[l]
        BY <1>2, <1>3, <1>8, <2>1
    <2>4. k.to[l] = {t \in S : l \in Wants(t, v, k)}
        BY <1>8 DEF Done
    <2>5. \A t \in S \cup {s} : Wants(t, v, r) = Wants(t, v, k)
        BY <1>4, WantsTheSame
    <2> QED BY <2>3, <2>4, <2>5
<1> QED BY <1>5, <1>6, <1>7, <1>8

\* The host sink is in a list only after it has asked for the host and has got one.
LEMMA ResetSinkHost ==
    ASSUME NEW v \in Services, NEW k \in SinkStates, NEW s \in AllSinks, NEW started \in BOOLEAN, HostFits(v, k)
    PROVE  HostFits(v, ResetSink(s, v, k, started))
<1> DEFINE a == AfterReset(s, v, k, started)
           r == ResetSink(s, v, k, started)
           w == [l \in Levels |-> IF l \in Takes(s, v, a) THEN a.to[l] \cup {s} ELSE a.to[l]]
<1>1. r = IF s \notin k.present \/ k.failed THEN k
          ELSE IF ResetFails(s, v, a) THEN [a EXCEPT !.failed = TRUE] ELSE [a EXCEPT !.to = w]
    BY DEF ResetSink
<1>2. a \in SinkStates /\ a.to = k.to /\ (s # "host" => a.host = k.host)
    BY AfterResetType
<1>3. s = "host" => a.host = SeenHost(v) /\ ~ResetFails(s, v, a)
    BY DEF AfterReset, SinkStates, ResetFails
<1>4. s = "host" => Takes(s, v, a) = IF a.host # NoHost THEN v.default \cup v.method ELSE {}
    BY DEF Takes, Answer
<1>5. SeenHost(v) # NoHost => v.ready /\ SeenHost(v) = v.host
    BY DEF SeenHost
<1> SUFFICES HostFits(v, r)
    OBVIOUS
<1> HIDE DEF a, r
<1>6. CASE s \notin k.present \/ k.failed
    BY <1>1, <1>6
<1>7. CASE s # "host" /\ ~(s \notin k.present \/ k.failed)
    BY <1>1, <1>2, <1>7 DEF HostFits, SinkStates
<1>8. CASE s = "host" /\ ~(s \notin k.present \/ k.failed)
    <2>1. r = [a EXCEPT !.to = w]
        BY <1>1, <1>3, <1>8
    <2>2. r.to = w /\ r.host = SeenHost(v)
        BY <2>1, <1>2, <1>3, <1>8 DEF SinkStates
    <2>3. SUFFICES ASSUME NEW l \in Levels, "host" \in r.to[l]
                   PROVE  v.ready /\ r.host = v.host /\ v.host # NoHost
        BY <2>3 DEF HostFits
    <2>4. CASE SeenHost(v) # NoHost
        BY <2>2, <2>4, <1>5
    <2>5. CASE SeenHost(v) = NoHost
        <3>1. r.to[l] = k.to[l]
            BY <2>2, <1>2, <1>3, <1>4, <2>5, <1>8
        <3>2. v.ready /\ v.host # NoHost
            BY <3>1, <2>3 DEF HostFits
        <3> QED BY <3>2, <2>5 DEF SeenHost
    <2> QED BY <2>4, <2>5
<1> QED BY <1>6, <1>7, <1>8

LEMMA FitsMayFit ==
    ASSUME NEW v, NEW k, HostFits(v, k)
    PROVE  HostMayFit(v, k)
BY DEF HostFits, HostMayFit

\* A round of the loop for another sink leaves the host sink as it is; its own round makes it right.
LEMMA ResetSinkMayHost ==
    ASSUME NEW v \in Services, NEW k \in SinkStates, NEW s \in AllSinks, NEW started \in BOOLEAN, HostMayFit(v, k)
    PROVE  /\ HostMayFit(v, ResetSink(s, v, k, started))
           /\ s = "host" /\ ~k.failed /\ (v.ready => s \in k.present) => HostFits(v, ResetSink(s, v, k, started))
<1> DEFINE a == AfterReset(s, v, k, started)
           r == ResetSink(s, v, k, started)
           w == [l \in Levels |-> IF l \in Takes(s, v, a) THEN a.to[l] \cup {s} ELSE a.to[l]]
<1>1. r = IF s \notin k.present \/ k.failed THEN k
          ELSE IF ResetFails(s, v, a) THEN [a EXCEPT !.failed = TRUE] ELSE [a EXCEPT !.to = w]
    BY DEF ResetSink
<1>2. a \in SinkStates /\ a.to = k.to /\ (s # "host" => a.host = k.host)
    BY AfterResetType
<1>3. s = "host" => a.host = SeenHost(v) /\ ~ResetFails(s, v, a)
    BY DEF AfterReset, SinkStates, ResetFails
<1>4. s = "host" => Takes(s, v, a) = IF a.host # NoHost THEN v.default \cup v.method ELSE {}
    BY DEF Takes, Answer
<1>5. SeenHost(v) # NoHost => v.ready /\ SeenHost(v) = v.host
    BY DEF SeenHost
<1> SUFFICES /\ HostMayFit(v, r)
             /\ s = "host" /\ ~k.failed /\ (v.ready => s \in k.present) => HostFits(v, r)
    OBVIOUS
<1> HIDE DEF a, r
<1>6. CASE s \notin k.present \/ k.failed
    BY <1>1, <1>6 DEF HostMayFit, HostFits
<1>7. CASE s # "host" /\ ~(s \notin k.present \/ k.failed)
    BY <1>1, <1>2, <1>7 DEF HostMayFit, SinkStates
<1>8. CASE s = "host" /\ ~(s \notin k.present \/ k.failed)
    <2>1. r = [a EXCEPT !.to = w]
        BY <1>1, <1>3, <1>8
    <2>2. r.to = w /\ r.host = SeenHost(v)
        BY <2>1, <1>2, <1>3, <1>8 DEF SinkStates
    <2>3. ASSUME NEW l \in Levels, "host" \in r.to[l]
          PROVE  v.ready /\ r.host = v.host /\ v.host # NoHost
        <3>1. CASE SeenHost(v) # NoHost
            BY <2>2, <3>1, <1>5
        <3>2. CASE SeenHost(v) = NoHost
            <4>1. r.to[l] = k.to[l]
                BY <2>2, <1>2, <1>3, <1>4, <3>2, <1>8
            <4>2. v.ready /\ v.host # NoHost
                BY <4>1, <2>3 DEF HostMayFit
            <4> QED BY <4>2, <3>2 DEF SeenHost
        <3> QED BY <3>1, <3>2
    <2>4. HostFits(v, r)
        BY <2>3 DEF HostFits
    <2> QED BY <2>4, FitsMayFit
<1> QED BY <1>6, <1>7, <1>8

-----------------------------------------------------------------------------
(* RecalculateLoggingFlags.                                                  *)

LEMMA ClearListsFacts ==
    ASSUME NEW k \in SinkStates
    PROVE  /\ ClearLists(k) \in SinkStates
           /\ SameFile(k, ClearLists(k))
           /\ ClearLists(k).open = k.open /\ ClearLists(k).host = k.host
           /\ \A l \in Levels : ClearLists(k).to[l] = {}
BY DEF ClearLists, SinkStates, SameFile

\* A reset of all sinks leaves the file's settings, and no list without its reason.
LEMMA ResetAllStep ==
    ASSUME NEW v \in Services, NEW k \in SinkStates, NEW started \in BOOLEAN
    PROVE  /\ ResetAll(v, k, started) \in SinkStates
           /\ SameFile(k, ResetAll(v, k, started))
           /\ OpenFits(k) => OpenFits(ResetAll(v, k, started))
           /\ HostFits(v, ResetAll(v, k, started))
           /\ k.present = {} => ResetAll(v, k, started) = ClearLists(k)
           /\ Seen(v) /\ OpenFits(k) => Done(k.present, v, ResetAll(v, k, started))
<1> DEFINE k0 == ClearLists(k)
           k1 == ResetSink("debug", v, k0, started)
           k2 == ResetSink("event", v, k1, started)
           k3 == ResetSink("file", v, k2, started)
           k4 == ResetSink("host", v, k3, started)
<1>1. ResetAll(v, k, started) = k4
    BY DEF ResetAll
<1>2. /\ k0 \in SinkStates /\ SameFile(k, k0) /\ (OpenFits(k) => OpenFits(k0))
      /\ HostFits(v, k0) /\ Done({}, v, k0)
    BY ClearListsFacts DEF HostFits, Done, OpenFits, SameFile
<1>0. {"debug", "event", "file", "host"} = AllSinks
    BY DEF AllSinks
<1>3. /\ k1 \in SinkStates /\ SameFile(k0, k1) /\ (OpenFits(k0) => OpenFits(k1)) /\ HostFits(v, k1)
      /\ "debug" \notin k0.present => k1 = k0
    <2> HIDE DEF k0
    <2> QED BY <1>0, <1>2, ResetSinkStep, ResetSinkHost
<1>4. /\ k2 \in SinkStates /\ SameFile(k1, k2) /\ (OpenFits(k1) => OpenFits(k2)) /\ HostFits(v, k2)
      /\ "event" \notin k1.present => k2 = k1
    <2> HIDE DEF k1
    <2> QED BY <1>0, <1>3, ResetSinkStep, ResetSinkHost
<1>5. /\ k3 \in SinkStates /\ SameFile(k2, k3) /\ (OpenFits(k2) => OpenFits(k3)) /\ HostFits(v, k3)
      /\ "file" \notin k2.present => k3 = k2
    <2> HIDE DEF k2
    <2> QED BY <1>0, <1>4, ResetSinkStep, ResetSinkHost
<1>6. /\ k4 \in SinkStates /\ SameFile(k3, k4) /\ (OpenFits(k3) => OpenFits(k4)) /\ HostFits(v, k4)
      /\ "host" \notin k3.present => k4 = k3
    <2> HIDE DEF k3
    <2> QED BY <1>0, <1>5, ResetSinkStep, ResetSinkHost
<1>7. ASSUME Seen(v), OpenFits(k)
      PROVE  Done(k.present, v, k4)
    <2> DEFINE P == k.present
    <2>1. k0.present = P /\ k1.present = P /\ k2.present = P /\ k3.present = P
        <3> HIDE DEF k0, k1, k2, k3
        <3> QED BY <1>2, <1>3, <1>4, <1>5 DEF SameFile
    <2>2. OpenFits(k0) /\ OpenFits(k1) /\ OpenFits(k2) /\ OpenFits(k3)
        <3> HIDE DEF k0, k1, k2, k3
        <3> QED BY <1>2, <1>3, <1>4, <1>5, <1>7
    <2>3. P \in SUBSET AllSinks
        BY SinksAssumption DEF SinkStates
    <2>4. Done({} \cup ({"debug"} \cap P), v, k1)
        <3> HIDE DEF k0
        <3>1. Done({} \cup ({"debug"} \cap k0.present), v, k1)
            BY <1>0, <1>2, <1>7, <2>2, ResetSinkDone
        <3> QED BY <3>1, <2>1
    <2>5. Done({"debug", "event"} \cap P, v, k2)
        <3> HIDE DEF k1
        <3>1. {} \cup ({"debug"} \cap P) \in SUBSET AllSinks
            BY <2>3
        <3>2. Done(({} \cup ({"debug"} \cap P)) \cup ({"event"} \cap k1.present), v, k2)
            BY <1>0, <1>3, <1>7, <2>2, <2>4, <3>1, ResetSinkDone
        <3>3. ({} \cup ({"debug"} \cap P)) \cup ({"event"} \cap k1.present) = {"debug", "event"} \cap P
            BY <2>1
        <3> HIDE DEF k2
        <3> QED BY <3>2, <3>3
    <2>6. Done({"debug", "event", "file"} \cap P, v, k3)
        <3> HIDE DEF k2
        <3>1. {"debug", "event"} \cap P \in SUBSET AllSinks
            BY <2>3
        <3>2. Done(({"debug", "event"} \cap P) \cup ({"file"} \cap k2.present), v, k3)
            BY <1>0, <1>4, <1>7, <2>2, <2>5, <3>1, ResetSinkDone
        <3>3. ({"debug", "event"} \cap P) \cup ({"file"} \cap k2.present) = {"debug", "event", "file"} \cap P
            BY <2>1
        <3> HIDE DEF k3
        <3> QED BY <3>2, <3>3
    <2>7. Done(P, v, k4)
        <3> HIDE DEF k3
        <3>1. {"debug", "event", "file"} \cap P \in SUBSET AllSinks
            BY <2>3
        <3>2. Done(({"debug", "event", "file"} \cap P) \cup ({"host"} \cap k3.present), v, k4)
            BY <1>0, <1>5, <1>7, <2>2, <2>6, <3>1, ResetSinkDone
        <3>3. ({"debug", "event", "file"} \cap P) \cup ({"host"} \cap k3.present) = P
            BY <2>1, <2>3 DEF AllSinks
        <3> HIDE DEF k4
        <3> QED BY <3>2, <3>3
    <2> QED BY <2>7
<1>8. ASSUME k.present = {}
      PROVE  k4 = k0
    <2> HIDE DEF k0, k1, k2, k3, k4
    <2> QED BY <1>2, <1>3, <1>4, <1>5, <1>6, <1>8 DEF SameFile
<1>9. SameFile(k, k4) /\ (OpenFits(k) => OpenFits(k4))
    <2> HIDE DEF k0, k1, k2, k3, k4
    <2> QED BY <1>2, <1>3, <1>4, <1>5, <1>6 DEF SameFile
<1> HIDE DEF k1, k2, k3, k4
<1> QED BY <1>1, <1>6, <1>7, <1>8, <1>9

LEMMA EffectiveType ==
    ASSUME NEW v \in Services, NEW k \in SinkStates
    PROVE  EffectiveFlags(v, k) \in Flags
<1>1. v.default \in Flags /\ k.present \subseteq AllSinks
    BY SinksAssumption DEF Services, SinkStates
<1>2. \A s \in k.present : Answer(s, v, k, v.default) \in Flags
    BY <1>1, AnswerType
<1> QED BY <1>2 DEF EffectiveFlags, Flags

\* The fields of the service but its effective flags.
SameService(v, w) ==
    /\ w.ready = v.ready /\ w.default = v.default /\ w.method = v.method
    /\ w.wanted = v.wanted /\ w.host = v.host /\ w.debugPort = v.debugPort

LEMMA SameServiceFacts ==
    ASSUME NEW v \in Services, NEW w \in Services, SameService(v, w), NEW k \in SinkStates
    PROVE  /\ HostFits(v, k) => HostFits(w, k)
           /\ Seen(v) => Seen(w)
           /\ \A s \in AllSinks : Wants(s, v, k) = Wants(s, w, k)
           /\ \A S \in SUBSET AllSinks : Done(S, v, k) => Done(S, w, k)
<1>1. HostFits(v, k) => HostFits(w, k)
    BY DEF HostFits, SameService
<1>2. Seen(v) => Seen(w)
    BY DEF Seen, SameService
<1>3. \A s \in AllSinks : Wants(s, v, k) = Wants(s, w, k)
    BY DEF Wants, SameService, AllSinks
<1>4. \A S \in SUBSET AllSinks : Done(S, v, k) => Done(S, w, k)
    BY <1>3 DEF Done
<1> QED BY <1>1, <1>2, <1>3, <1>4

\* The step of a call that changes the service to v under m_cs and recalculates.
Recalculated(v) ==
    /\ svc' \in Services /\ SameService(v, svc')
    /\ sinks' \in SinkStates /\ SameFile(sinks, sinks')
    /\ OpenFits(sinks) => OpenFits(sinks')
    /\ HostFits(svc', sinks')
    /\ Seen(v) /\ OpenFits(sinks) => Done(sinks.present, svc', sinks')
    /\ cachedFlags' \in Flags
    /\ cachedFlags = v.effective \/ ~sinks'.failed => cachedFlags' = svc'.effective
    /\ torn' \in BOOLEAN
    /\ ~torn' => Settled /\ (~torn \/ ~sinks'.failed)
    /\ sinks = NoSinks => sinks' = NoSinks

LEMMA NoSinksType == NoSinks \in SinkStates /\ ClearLists(NoSinks) = NoSinks
<1>1. NoSinks \in SinkStates
    BY DEF NoSinks, SinkStates, Flags
<1> DEFINE none == [l \in Levels |-> {}]
<1>2. NoSinks.to = none /\ NoSinks.failed = FALSE
    BY DEF NoSinks
<1>3. ClearLists(NoSinks) = [NoSinks EXCEPT !.to = NoSinks.to, !.failed = NoSinks.failed]
    BY <1>2, Zenon DEF ClearLists
<1>4. ClearLists(NoSinks) = NoSinks
    <2> DEFINE n == NoSinks
    <2>1. ClearLists(n) = [n EXCEPT !.to = n.to, !.failed = n.failed]
        BY <1>3
    <2>2. n \in SinkStates
        BY <1>1
    <2> HIDE DEF n
    <2>3. [n EXCEPT !.to = n.to, !.failed = n.failed] = n
        BY <2>2 DEF SinkStates
    <2> QED BY <2>1, <2>3 DEF n
<1> QED BY <1>1, <1>4

LEMMA Recalculates ==
    ASSUME NEW v \in Services, sinks \in SinkStates, cachedFlags \in Flags, RecalculateLoggingFlags(v, sinks)
    PROVE  Recalculated(v)
<1>1. PICK started \in BOOLEAN :
        LET r == ResetAll(v, sinks, started)
            effective == IF r.failed THEN v.effective ELSE EffectiveFlags(v, r)
        IN  /\ sinks' = r
            /\ svc' = [v EXCEPT !.effective = effective]
            /\ cachedFlags' = IF r.failed THEN cachedFlags ELSE effective
            /\ torn' = (~Settled \/ (torn /\ r.failed))
    BY DEF RecalculateLoggingFlags
<1> DEFINE effective == IF sinks'.failed THEN v.effective ELSE EffectiveFlags(v, sinks')
<1>2. /\ sinks' = ResetAll(v, sinks, started)
      /\ svc' = [v EXCEPT !.effective = effective]
      /\ cachedFlags' = IF sinks'.failed THEN cachedFlags ELSE effective
    BY <1>1
<1>3. /\ sinks' \in SinkStates /\ SameFile(sinks, sinks')
      /\ OpenFits(sinks) => OpenFits(sinks')
      /\ HostFits(v, sinks')
      /\ sinks.present = {} => sinks' = ClearLists(sinks)
      /\ Seen(v) /\ OpenFits(sinks) => Done(sinks.present, v, sinks')
    BY <1>2, ResetAllStep
<1>4. effective \in Flags
    BY <1>3, EffectiveType DEF Services
<1> HIDE DEF effective
<1>5. svc' \in Services /\ SameService(v, svc') /\ svc'.effective = effective
    BY <1>2, <1>4 DEF Services, SameService
<1>6. HostFits(svc', sinks')
    BY <1>3, <1>5, SameServiceFacts
<1>7. Seen(v) /\ OpenFits(sinks) => Done(sinks.present, svc', sinks')
    <2>1. sinks.present \in SUBSET AllSinks
        BY SinksAssumption DEF SinkStates
    <2> QED BY <1>3, <1>5, <2>1, SameServiceFacts
<1>8. cachedFlags' \in Flags
    BY <1>2, <1>4
<1>9. cachedFlags = v.effective \/ ~sinks'.failed => cachedFlags' = svc'.effective
    BY <1>2, <1>5 DEF effective
<1>11. torn' \in BOOLEAN /\ (~torn' => Settled /\ (~torn \/ ~sinks'.failed))
    <2>1. torn' = (~Settled \/ (torn /\ sinks'.failed))
        BY <1>1
    <2> QED BY <2>1, Zenon
<1>10. sinks = NoSinks => sinks' = NoSinks
    <2>1. NoSinks.present = {}
        BY DEF NoSinks
    <2> QED BY <1>3, <2>1, NoSinksType
<1> QED BY <1>3, <1>5, <1>6, <1>7, <1>8, <1>9, <1>10, <1>11 DEF Recalculated

-----------------------------------------------------------------------------
(* The inductive invariant.                                                  *)

\* The calls that wait for m_cs, the changes of the log file, and the entries on their way.
PendingCalls(u) ==
    SetCalls(u) \cup (IF u \in Engines THEN [name : {"UpdateMethod"}, method : Methods, flags : Flags] ELSE {})
FileCalls == [name : {"SetLogFile"}, sum : Flags, left : SUBSET Platform]
LogCalls == [name : {"Log"}, level : Levels, left : SUBSET AllSinks]

ArgFits(u) ==
    /\ pc[u] = "calling" => arg[u] \in PendingCalls(u)
    /\ pc[u] \in Changing => u \in Engines /\ arg[u] \in FileCalls
    /\ pc[u] = "asking" => "host" \in arg[u].left
    /\ pc[u] \in {"logging", "writing"} => arg[u] \in LogCalls

CallsFit == \A u \in Users : ArgFits(u)

\* m_cs is held across steps by the user that writes an entry.
LockHeld == \A u \in Users : pc[u] = "writing" <=> csHolder = u

\* The service is there once and for all: it is made by the first user, and when it has been shut down it has no sinks.
ServiceFits ==
    /\ sInit = "no" => /\ \A u \in Users : pc[u] = "none"
                       /\ svc.host = NoHost /\ sinks = NoSinks /\ cachedFlags = svc.effective
                       /\ \A e \in Engines, g \in Methods : methodLevel[<<e, g>>] = Unset
    /\ svc.ready => sInit = "ok" /\ sinks.present = Platform
    /\ sInit = "ok" /\ ~svc.ready => sinks = NoSinks

\* The service is about to hear of the level of g.
ToldSoon(e, g) ==
    pc[e] = "calling" /\ arg[e] = [name |-> "UpdateMethod", method |-> g, flags |-> EnvMethodLevel[g]]

\* m_instrumentationMethodFlags is what some method wants, and a method with a variable of its own wants what it says.
MethodsFit ==
    /\ svc.method = {l \in Levels : svc.wanted[l] # {}}
    /\ \A e \in Engines, g \in Methods :
        /\ pc[e] = "calling" /\ arg[e].name = "UpdateMethod" /\ arg[e].method = g /\ EnvMethodLevel[g] # Unset =>
              arg[e].flags = EnvMethodLevel[g]
        /\ svc.ready /\ methodLevel[<<e, g>>] # Unset /\ EnvMethodLevel[g] # Unset /\ ~ToldSoon(e, g) =>
              \A l \in EnvMethodLevel[g] : g \in svc.wanted[l]
        /\ methodLevel[<<e, g>>] # Unset /\ EnvMethodLevel[g] # Unset => methodLevel[<<e, g>>] = EnvMethodLevel[g]

Live == {"up", "calling", "resetting", "asking", "announcing", "logging", "writing"}

\* The host sink has the host of the service, or GetLoggingHost is about to give it.
HostThere ==
    /\ svc.ready /\ svc.host # NoHost /\ sinks.host \in {svc.host, NoHost}
    /\ sinks.host = svc.host \/ HostAsked

\* The host of the service is of an engine that has not given it up, and the host sink is used with that host only.
HostsFit ==
    /\ svc.ready /\ svc.host # NoHost => pc[svc.host] \in Live
    /\ HostMayFit(svc, sinks) /\ (HostFits(svc, sinks) \/ HostAsked)
    /\ \A u \in Users : pc[u] = "writing" /\ "host" \in arg[u].left => HostThere

\* Two engines change the log file only when something is torn.
AttachAlone == ~torn => \A d, e \in Engines : pc[d] \in Changing /\ pc[e] \in Changing => d = e

\* The lists follow the answers of the sinks, those that SetLogFilePath has come by when it is in its loop.
ListsFollow ==
    /\ OpenFits(sinks)
    /\ ~torn /\ svc.ready =>
        /\ Settled => Done(Platform, svc, sinks) /\ cachedFlags = svc.effective
        /\ \A e \in Engines :
            /\ pc[e] \in {"resetting", "asking"} =>
                    Done(Platform \ arg[e].left, svc, sinks) /\ cachedFlags = svc.effective
            /\ pc[e] = "announcing" => Done(Platform, svc, sinks) /\ svc.effective = arg[e].sum

IInv ==
    TypeOK /\ CallsFit /\ LockHeld /\ ServiceFits /\ MethodsFit /\ HostsFit /\ AttachAlone /\ ListsFollow

-----------------------------------------------------------------------------
(* Steps of one user.                                                        *)

OnlyMoves(u) ==
    /\ \A w \in Users \ {u} : pc'[w] = pc[w] /\ arg'[w] = arg[w]
    /\ ArgFits(u)'

\* The lock is as it was, or the user takes it or gives it back.
LockMoves(u) ==
    /\ pc'[u] = "writing" <=> csHolder' = u
    /\ csHolder' = csHolder \/ (csHolder \in {u, NoUser} /\ csHolder' \in {u, NoUser})

LEMMA CallsFitStep ==
    ASSUME CallsFit, NEW u \in Users, OnlyMoves(u)
    PROVE  CallsFit'
<1>1. SUFFICES ASSUME NEW w \in Users PROVE ArgFits(w)'
    BY <1>1 DEF CallsFit
<1>2. CASE w = u
    BY <1>2 DEF OnlyMoves
<1>3. CASE w # u
    <2>1. pc'[w] = pc[w] /\ arg'[w] = arg[w] /\ ArgFits(w)
        BY <1>3 DEF OnlyMoves, CallsFit
    <2> QED BY <2>1 DEF ArgFits
<1> QED BY <1>2, <1>3

LEMMA LockStep ==
    ASSUME LockHeld, NEW u \in Users, OnlyMoves(u), LockMoves(u)
    PROVE  LockHeld'
BY UsersAssumption DEF LockHeld, OnlyMoves, LockMoves

\* An engine that begins to change the log file while another does so tears something.
LEMMA AttachStep ==
    ASSUME AttachAlone, NEW u \in Users, OnlyMoves(u),
           ~torn' => Settled \/ (~torn /\ (pc'[u] \in Changing => pc[u] \in Changing))
    PROVE  AttachAlone'
<1>1. SUFFICES ASSUME ~torn', NEW d \in Engines, NEW e \in Engines, pc'[d] \in Changing, pc'[e] \in Changing
               PROVE  d = e
    BY <1>1 DEF AttachAlone
<1>2. \A w \in Engines : w # u => pc'[w] = pc[w]
    BY DEF OnlyMoves, Users
<1>3. CASE Settled
    BY <1>1, <1>2, <1>3 DEF Settled
<1>4. CASE ~torn /\ (pc'[u] \in Changing => pc[u] \in Changing)
    <2>1. pc[d] \in Changing /\ pc[e] \in Changing
        BY <1>1, <1>2, <1>4
    <2> QED BY <1>4, <2>1 DEF AttachAlone
<1> QED BY <1>1, <1>3, <1>4

\* The parts of the invariant about the service do not notice a step that leaves the service and its sinks alone and in
\* which nobody gives up a host, begins or ends a change of the log file.
QuietMove(u) ==
    /\ UNCHANGED <<svc, sinks, cachedFlags, sInit, torn>>
    /\ sInit # "no"
    /\ OnlyMoves(u)
    /\ svc.ready /\ pc[u] \in Live /\ u \in Engines => pc'[u] \in Live
    /\ pc[u] \notin Changing /\ pc'[u] \notin Changing
    /\ pc'[u] = "writing" /\ "host" \in arg'[u].left => HostThere

LEMMA QuietStep ==
    ASSUME IInv, NEW u \in Users, QuietMove(u), LockMoves(u)
    PROVE  CallsFit' /\ LockHeld' /\ ServiceFits' /\ HostsFit' /\ AttachAlone' /\ ListsFollow'
<1>1. CallsFit' /\ LockHeld'
    BY CallsFitStep, LockStep DEF IInv, QuietMove
<1>2. ServiceFits'
    BY DEF IInv, QuietMove, ServiceFits
<1>a. \A e \in Engines : /\ pc'[e] = "resetting" <=> pc[e] = "resetting"
                         /\ pc'[e] = "asking" <=> pc[e] = "asking"
                         /\ pc'[e] = "announcing" <=> pc[e] = "announcing"
                         /\ pc[e] \in Changing => arg'[e] = arg[e]
    BY DEF QuietMove, OnlyMoves, Users, Changing
<1>b. (HostAsked' <=> HostAsked) /\ (Settled' <=> Settled)
    BY <1>a DEF HostAsked, Settled, Changing
<1>3. HostsFit'
    <2>1. svc.ready /\ svc.host # NoHost => pc'[svc.host] \in Live
        <3>1. svc.host \in Engines \cup {NoHost}
            BY DEF IInv, TypeOK, Services
        <3> QED BY <3>1 DEF IInv, HostsFit, QuietMove, OnlyMoves, Users
    <2>2. HostThere' <=> HostThere
        BY <1>b DEF HostThere, QuietMove
    <2>3. \A w \in Users : pc'[w] = "writing" /\ "host" \in arg'[w].left => HostThere
        BY DEF IInv, HostsFit, QuietMove, OnlyMoves
    <2> QED BY <1>b, <2>1, <2>2, <2>3 DEF IInv, HostsFit, QuietMove
<1>4. AttachAlone'
    BY AttachStep DEF IInv, QuietMove
<1>5. ListsFollow'
    BY <1>a, <1>b DEF IInv, ListsFollow, QuietMove, Changing
<1> QED BY <1>1, <1>2, <1>3, <1>4, <1>5

\* A step under m_cs that changes the service and recalculates.
RecalcMove(u, v) ==
    /\ Recalculated(v)
    /\ v.ready = svc.ready /\ v.effective = svc.effective
    /\ sInit' = sInit /\ sInit # "no" /\ methodLevel' = methodLevel
    /\ OnlyMoves(u)
    /\ csHolder = NoUser /\ csHolder' = NoUser
    /\ pc[u] \in {"up", "calling"} /\ pc'[u] \in {"up", "hostless"}
    /\ svc.ready /\ v.host # NoHost => pc'[v.host] \in Live

LEMMA RecalcStep ==
    ASSUME IInv, NEW u \in Users, NEW v \in Services, RecalcMove(u, v)
    PROVE  CallsFit' /\ LockHeld' /\ ServiceFits' /\ HostsFit' /\ AttachAlone' /\ ListsFollow'
<1>1. LockMoves(u)
    BY UsersAssumption DEF RecalcMove, LockMoves
<1>2. CallsFit' /\ LockHeld'
    BY <1>1, CallsFitStep, LockStep DEF IInv, RecalcMove
<1>3. svc'.ready = svc.ready /\ svc'.host = v.host /\ sinks'.present = sinks.present
    BY DEF RecalcMove, Recalculated, SameService, SameFile
<1>4. ServiceFits'
    BY <1>3 DEF IInv, RecalcMove, Recalculated, ServiceFits
<1>5. HostsFit'
    <2>1. \A w \in Users : pc'[w] # "writing"
        BY <1>2, UsersAssumption DEF LockHeld, RecalcMove
    <2>2. HostFits(svc', sinks') /\ HostMayFit(svc', sinks')
        BY FitsMayFit DEF RecalcMove, Recalculated
    <2>3. svc'.ready /\ svc'.host # NoHost => pc'[svc'.host] \in Live
        BY <1>3 DEF RecalcMove
    <2> QED BY <2>1, <2>2, <2>3 DEF HostsFit
<1>6. AttachAlone'
    BY AttachStep DEF IInv, RecalcMove, Recalculated
<1>7. ListsFollow'
    <2>1. OpenFits(sinks')
        BY DEF IInv, ListsFollow, RecalcMove, Recalculated
    <2>2. SUFFICES ASSUME ~torn', svc'.ready
                   PROVE  /\ Done(Platform, svc', sinks') /\ cachedFlags' = svc'.effective
                          /\ \A e \in Engines : pc'[e] \notin Changing
        BY <2>1, <2>2 DEF ListsFollow, Changing
    <2>3. Settled /\ (~torn \/ ~sinks'.failed)
        BY <2>2 DEF RecalcMove, Recalculated
    <2>5. ~torn => cachedFlags = svc.effective
        BY <1>3, <2>2, <2>3 DEF IInv, ListsFollow
    <2>6. sinks.present = Platform
        BY <1>3, <2>2 DEF IInv, ServiceFits
    <2>7. Seen(v) /\ OpenFits(sinks)
        BY <1>3, <2>2 DEF IInv, ListsFollow, RecalcMove, Seen
    <2>8. Done(Platform, svc', sinks') /\ cachedFlags' = svc'.effective
        BY <2>3, <2>5, <2>6, <2>7 DEF RecalcMove, Recalculated
    <2>9. \A e \in Engines : pc'[e] \notin Changing
        <3>1. pc'[u] \notin Changing
            BY DEF RecalcMove, Changing
        <3> QED BY <2>3, <3>1 DEF RecalcMove, OnlyMoves, Users, Settled
    <2> QED BY <2>8, <2>9
<1> QED BY <1>2, <1>4, <1>5, <1>6, <1>7

-----------------------------------------------------------------------------
(* The steps that leave the service alone.                                   *)

LEMMA Begun ==
    ASSUME IInv, NEW u \in Users, pc[u] # "none"
    PROVE  sInit # "no"
BY DEF IInv, ServiceFits

\* A step that tells the service of no method.
MethodsUntold(u) ==
    /\ svc'.method = svc.method /\ svc'.wanted = svc.wanted /\ (svc'.ready => svc.ready)
    /\ methodLevel' = methodLevel
    /\ pc[u] = "calling" => arg[u].name # "UpdateMethod"
    /\ pc'[u] = "calling" => arg'[u].name # "UpdateMethod"

LEMMA MethodsStep ==
    ASSUME MethodsFit, NEW u \in Users, OnlyMoves(u), MethodsUntold(u)
    PROVE  MethodsFit'
<1>1. svc'.method = {l \in Levels : svc'.wanted[l] # {}}
    BY DEF MethodsFit, MethodsUntold
<1>2. ASSUME NEW e \in Engines, NEW g \in Methods
      PROVE  /\ pc'[e] = "calling" /\ arg'[e].name = "UpdateMethod" /\ arg'[e].method = g
                    /\ EnvMethodLevel[g] # Unset => arg'[e].flags = EnvMethodLevel[g]
             /\ ToldSoon(e, g)' <=> ToldSoon(e, g)
    <2>1. CASE e = u
        BY <2>1 DEF MethodsUntold, ToldSoon
    <2>2. CASE e # u
        <3>1. pc'[e] = pc[e] /\ arg'[e] = arg[e]
            BY <2>2 DEF OnlyMoves, Users
        <3> QED BY <3>1 DEF MethodsFit, ToldSoon
    <2> QED BY <2>1, <2>2
<1>3. ASSUME NEW e \in Engines, NEW g \in Methods
      PROVE  svc'.ready /\ methodLevel'[<<e, g>>] # Unset /\ EnvMethodLevel[g] # Unset /\ ~ToldSoon(e, g)' =>
                \A l \in EnvMethodLevel[g] : g \in svc'.wanted[l]
    BY <1>2 DEF MethodsFit, MethodsUntold
<1>4. \A e \in Engines, g \in Methods :
        methodLevel'[<<e, g>>] # Unset /\ EnvMethodLevel[g] # Unset => methodLevel'[<<e, g>>] = EnvMethodLevel[g]
    BY DEF MethodsFit, MethodsUntold
<1> QED BY <1>1, <1>2, <1>3, <1>4 DEF MethodsFit

\* The steps that only move one user.
QuietAction(u) ==
    /\ TypeOK'
    /\ QuietMove(u)
    /\ LockMoves(u)
    /\ MethodsUntold(u)

LEMMA QuietActionInv ==
    ASSUME IInv, NEW u \in Users, QuietAction(u)
    PROVE  IInv'
BY QuietStep, MethodsStep DEF IInv, QuietAction, QuietMove

LEMMA Modulo ==
    ASSUME NEW i \in Int
    PROVE  i % CountModulus \in 0 .. CountModulus - 1
BY BoundsAssumption

LEMMA ConstructQuiet ==
    ASSUME IInv, NEW u \in Users, Construct(u), sInit # "no"
    PROVE  QuietAction(u)
<1>1. pc[u] = "none" /\ pc' = [pc EXCEPT ![u] = "counting"]
    BY DEF Construct, Goto
<1>2. UNCHANGED <<svc, sinks, cachedFlags, torn, sInit, initCount, csHolder, arg, methodLevel, calls>>
    BY DEF Construct, serviceVars
<1>3. TypeOK'
    BY <1>1, <1>2 DEF IInv, TypeOK, Places
<1>4. OnlyMoves(u)
    BY <1>1, <1>2 DEF IInv, TypeOK, OnlyMoves, Changing, ArgFits
<1>5. LockMoves(u)
    BY <1>1, <1>2 DEF IInv, TypeOK, LockHeld, LockMoves
<1> QED BY <1>1, <1>2, <1>3, <1>4, <1>5 DEF IInv, TypeOK, QuietAction, QuietMove, MethodsUntold, Live, Changing

LEMMA CountQuiet ==
    ASSUME IInv, NEW u \in Users, Count(u)
    PROVE  QuietAction(u)
<1>1. pc[u] = "counting" /\ pc' = [pc EXCEPT ![u] = "up"]
    BY DEF Count, Goto
<1>2. UNCHANGED <<svc, sinks, cachedFlags, torn, sInit, csHolder, arg, methodLevel, calls>>
    BY DEF Count, serviceVars
<1>3. initCount' \in 0 .. CountModulus - 1
    <2>1. initCount + 1 \in Int
        BY BoundsAssumption DEF IInv, TypeOK
    <2> QED BY <2>1, Modulo DEF Count, IInv, TypeOK
<1>4. TypeOK'
    BY <1>1, <1>2, <1>3 DEF IInv, TypeOK, Places
<1>5. OnlyMoves(u) /\ LockMoves(u)
    BY <1>1, <1>2 DEF IInv, TypeOK, OnlyMoves, Changing, ArgFits, LockHeld, LockMoves
<1> QED BY <1>1, <1>2, <1>4, <1>5, Begun DEF IInv, TypeOK, QuietAction, QuietMove, MethodsUntold, Live, Changing

Ends == {"hostless", "lastInShutdown", "shut", "lastInDestructor", "lastWrapper", "gone"}

LEMMA UncountQuiet ==
    ASSUME IInv, NEW u \in Users, NEW from \in {"hostless", "shut", "up"}, NEW last \in Ends, NEW next \in Ends,
           Uncount(u, from, last, next), u \in Engines => from # "up"
    PROVE  QuietAction(u)
<1>1. pc[u] = from /\ pc'[u] \in {last, next} /\ (\A w \in Users \ {u} : pc'[w] = pc[w]) /\ pc' \in [Users -> Places]
    BY DEF Uncount, Goto, IInv, TypeOK, Places, Ends
<1>2. UNCHANGED <<svc, sinks, cachedFlags, torn, sInit, csHolder, arg, methodLevel, calls>>
    BY DEF Uncount, serviceVars
<1>3. initCount' \in 0 .. CountModulus - 1
    <2>1. initCount - 1 \in Int
        BY BoundsAssumption DEF IInv, TypeOK
    <2> QED BY <2>1, Modulo DEF Uncount, IInv, TypeOK
<1>4. TypeOK'
    BY <1>1, <1>2, <1>3 DEF IInv, TypeOK
<1>5. OnlyMoves(u) /\ LockMoves(u)
    BY <1>1, <1>2 DEF IInv, TypeOK, OnlyMoves, Changing, ArgFits, LockHeld, LockMoves, Ends
<1>6. pc[u] \notin {"none", "gone", "calling"} \cup Changing /\ (u \in Engines => pc[u] \notin Live)
    BY <1>1 DEF Live, Changing
<1>7. pc'[u] \notin {"calling", "writing"} \cup Changing
    BY <1>1 DEF Ends, Changing
<1> QED BY <1>2, <1>4, <1>5, <1>6, <1>7, Begun DEF QuietAction, QuietMove, MethodsUntold

LEMMA CallQuiet ==
    ASSUME IInv, NEW u \in Users, Call(u)
    PROVE  QuietAction(u)
<1>1. pc[u] = "up" /\ pc' = [pc EXCEPT ![u] = "calling"] /\ calls < MaxCalls /\ calls' = calls + 1
    BY DEF Call, Goto
<1>2. UNCHANGED <<svc, sinks, cachedFlags, torn, sInit, initCount, csHolder, methodLevel>>
    BY DEF Call, serviceVars
<1>3. PICK c \in SetCalls(u) : arg' = [arg EXCEPT ![u] = c]
    BY DEF Call
<1>4. TypeOK'
    BY <1>1, <1>2, <1>3, BoundsAssumption DEF IInv, TypeOK, Places
<1>5. c \in PendingCalls(u) /\ c.name # "UpdateMethod"
    BY DEF PendingCalls, SetCalls
<1>6. OnlyMoves(u) /\ LockMoves(u)
    BY <1>1, <1>2, <1>3, <1>5 DEF IInv, TypeOK, OnlyMoves, Changing, ArgFits, LockHeld, LockMoves
<1>7. pc'[u] = "calling" /\ arg'[u] = c
    BY <1>1, <1>3 DEF IInv, TypeOK
<1> QED BY <1>1, <1>2, <1>4, <1>5, <1>6, <1>7, Begun DEF QuietAction, QuietMove, MethodsUntold, Live, Changing

\* LogEntry and LogMethodEntry begin in the same way.
LEMMA LogQuiet ==
    ASSUME IInv, NEW u \in Users, NEW l \in Levels, pc[u] = "up", calls < MaxCalls, calls' = calls + 1,
           arg' = [arg EXCEPT ![u] = [name |-> "Log", level |-> l, left |-> {}]], Goto(u, "logging"),
           UNCHANGED <<serviceVars, sInit, initCount, csHolder, methodLevel>>
    PROVE  QuietAction(u)
<1>1. pc' = [pc EXCEPT ![u] = "logging"]
    BY DEF Goto
<1>2. UNCHANGED <<svc, sinks, cachedFlags, torn, sInit, initCount, csHolder, methodLevel>>
    BY DEF serviceVars
<1>3. TypeOK'
    BY <1>1, <1>2, BoundsAssumption DEF IInv, TypeOK, Places
<1>4. pc'[u] = "logging" /\ arg'[u] \in LogCalls
    BY <1>1 DEF IInv, TypeOK, LogCalls
<1>5. OnlyMoves(u) /\ LockMoves(u)
    BY <1>1, <1>2, <1>4 DEF IInv, TypeOK, OnlyMoves, Changing, ArgFits, LockHeld, LockMoves
<1> QED BY <1>2, <1>3, <1>4, <1>5, Begun DEF QuietAction, QuietMove, MethodsUntold, Live, Changing

LEMMA LogLockedQuiet ==
    ASSUME IInv, NEW u \in Users, LogLocked(u)
    PROVE  QuietAction(u)
<1>1. pc[u] = "logging" /\ csHolder = NoUser /\ arg[u] \in LogCalls
    BY DEF LogLocked, IInv, CallsFit, ArgFits
<1>2. UNCHANGED <<svc, sinks, cachedFlags, torn, sInit, initCount, methodLevel, calls>>
    BY DEF LogLocked, serviceVars
<1>3. sinks.to[arg[u].level] \subseteq AllSinks
    BY <1>1, SinksAssumption DEF IInv, TypeOK, SinkStates, LogCalls
<1>4. CASE /\ csHolder' = u
           /\ arg' = [arg EXCEPT ![u].left = sinks.to[arg[u].level]]
           /\ pc' = [pc EXCEPT ![u] = "writing"]
    <2>1. TypeOK'
        BY <1>2, <1>4 DEF IInv, TypeOK, Places
    <2>2. pc'[u] = "writing" /\ arg'[u] \in LogCalls /\ arg'[u].left = sinks.to[arg[u].level]
        BY <1>1, <1>3, <1>4 DEF IInv, TypeOK, LogCalls
    <2>3. OnlyMoves(u) /\ LockMoves(u)
        BY <1>1, <1>4, <2>2 DEF IInv, TypeOK, OnlyMoves, Changing, ArgFits, LockMoves
    <2>4. "host" \in arg'[u].left => HostThere
        BY <1>1, <2>2 DEF IInv, HostsFit, HostFits, HostMayFit, HostThere, LogCalls
    <2> QED BY <1>1, <1>2, <2>1, <2>2, <2>3, <2>4, Begun DEF QuietAction, QuietMove, MethodsUntold, Live, Changing
<1>5. CASE /\ csHolder' = csHolder
           /\ arg' = [arg EXCEPT ![u] = NoCall]
           /\ pc' = [pc EXCEPT ![u] = "up"]
    <2>1. TypeOK'
        BY <1>2, <1>5 DEF IInv, TypeOK, Places
    <2>2. pc'[u] = "up"
        BY <1>5 DEF IInv, TypeOK
    <2>3. OnlyMoves(u) /\ LockMoves(u)
        BY <1>1, <1>5, <2>2, UsersAssumption DEF IInv, TypeOK, OnlyMoves, Changing, ArgFits, LockMoves
    <2> QED BY <1>1, <1>2, <2>1, <2>2, <2>3, Begun DEF QuietAction, QuietMove, MethodsUntold, Live, Changing
<1> QED BY <1>4, <1>5 DEF LogLocked, Goto

LEMMA WriteSinkQuiet ==
    ASSUME IInv, NEW u \in Users, WriteSink(u)
    PROVE  QuietAction(u)
<1>1. pc[u] = "writing" /\ csHolder = u /\ arg[u] \in LogCalls
    BY DEF WriteSink, IInv, CallsFit, ArgFits, LockHeld
<1>2. UNCHANGED <<svc, sinks, cachedFlags, torn, sInit, initCount, methodLevel, calls>>
    BY DEF WriteSink, serviceVars
<1>3. ASSUME NEW s \in arg[u].left, arg' = [arg EXCEPT ![u].left = @ \ {s}], UNCHANGED <<pc, csHolder>>
      PROVE  QuietAction(u)
    <2>1. TypeOK'
        BY <1>2, <1>3 DEF IInv, TypeOK
    <2>2. pc'[u] = "writing" /\ arg'[u] \in LogCalls /\ arg'[u].left \subseteq arg[u].left
        BY <1>1, <1>3 DEF IInv, TypeOK, LogCalls
    <2>3. OnlyMoves(u) /\ LockMoves(u)
        BY <1>1, <1>3, <2>2 DEF IInv, TypeOK, OnlyMoves, Changing, ArgFits, LockMoves
    <2>4. "host" \in arg'[u].left => HostThere
        BY <1>1, <2>2 DEF IInv, HostsFit
    <2> QED BY <1>1, <1>2, <2>1, <2>2, <2>3, <2>4, Begun DEF QuietAction, QuietMove, MethodsUntold, Live, Changing
<1>4. CASE /\ csHolder' = NoUser
           /\ arg' = [arg EXCEPT ![u] = NoCall]
           /\ pc' = [pc EXCEPT ![u] = "up"]
    <2>1. TypeOK'
        BY <1>2, <1>4 DEF IInv, TypeOK, Places
    <2>2. pc'[u] = "up"
        BY <1>4 DEF IInv, TypeOK
    <2>3. OnlyMoves(u) /\ LockMoves(u)
        BY <1>1, <1>4, <2>2, UsersAssumption DEF IInv, TypeOK, OnlyMoves, Changing, ArgFits, LockMoves
    <2> QED BY <1>1, <1>2, <2>1, <2>2, <2>3, Begun DEF QuietAction, QuietMove, MethodsUntold, Live, Changing
<1> QED BY <1>3, <1>4 DEF WriteSink, Goto

LEMMA ListChangesQuiet ==
    ASSUME IInv, NEW u \in Users, ListChanges(u)
    PROVE  QuietAction(u)
<1>1. pc[u] = "writing" /\ csHolder = u /\ arg[u] \in LogCalls
    BY DEF ListChanges, IInv, CallsFit, ArgFits, LockHeld
<1>2. /\ UNCHANGED <<svc, sinks, cachedFlags, torn, sInit, initCount, csHolder, pc, methodLevel, calls>>
      /\ arg' = [arg EXCEPT ![u].left = sinks.to[arg[u].level]]
    BY DEF ListChanges, serviceVars
<1>3. sinks.to[arg[u].level] \subseteq AllSinks
    BY <1>1, SinksAssumption DEF IInv, TypeOK, SinkStates, LogCalls
<1>4. TypeOK'
    BY <1>2 DEF IInv, TypeOK
<1>5. pc'[u] = "writing" /\ arg'[u] \in LogCalls /\ arg'[u].left = sinks.to[arg[u].level]
    BY <1>1, <1>2, <1>3 DEF IInv, TypeOK, LogCalls
<1>6. OnlyMoves(u) /\ LockMoves(u)
    BY <1>1, <1>2, <1>5 DEF IInv, TypeOK, OnlyMoves, Changing, ArgFits, LockMoves
<1>7. "host" \in arg'[u].left => HostThere
    BY <1>1, <1>5 DEF IInv, HostsFit, HostFits, HostMayFit, HostThere, LogCalls
<1> QED BY <1>1, <1>2, <1>4, <1>5, <1>6, <1>7, Begun DEF QuietAction, QuietMove, MethodsUntold, Live, Changing

\* SetLoggingHost(nullptr) of a service that is not there.
LEMMA ReleaseHostQuiet ==
    ASSUME IInv, NEW e \in Engines, ReleaseHost(e), ~svc.ready
    PROVE  QuietAction(e)
<1>0. e \in Users
    BY DEF Users
<1>1. pc[e] = "up" /\ csHolder = NoUser /\ pc' = [pc EXCEPT ![e] = "hostless"]
    BY DEF ReleaseHost, Goto
<1>2. UNCHANGED <<svc, sinks, cachedFlags, torn, sInit, initCount, csHolder, arg, methodLevel, calls>>
    BY DEF ReleaseHost, serviceVars
<1>3. TypeOK'
    BY <1>1, <1>2 DEF IInv, TypeOK, Places
<1>4. pc'[e] = "hostless"
    BY <1>0, <1>1 DEF IInv, TypeOK
<1>5. OnlyMoves(e) /\ LockMoves(e)
    BY <1>0, <1>1, <1>2, <1>4, UsersAssumption DEF IInv, TypeOK, OnlyMoves, Changing, ArgFits, LockMoves
<1> QED BY <1>0, <1>1, <1>2, <1>3, <1>4, <1>5, Begun DEF QuietAction, QuietMove, MethodsUntold, Changing

\* A method is added: the service is about to hear of it, or is not there.
LEMMA AddMethodInv ==
    ASSUME IInv, NEW e \in Engines, NEW g \in Methods, AddMethod(e, g)
    PROVE  IInv'
<1>0. e \in Users
    BY DEF Users
<1> DEFINE flags == IF EnvMethodLevel[g] # Unset THEN EnvMethodLevel[g]
                    ELSE IF sInit = "ok" THEN cachedFlags ELSE {}
<1>1. flags \in Flags
    BY LevelsAssumption DEF IInv, TypeOK, Flags
<1>2. /\ pc[e] = "up" /\ calls < MaxCalls /\ calls' = calls + 1
      /\ methodLevel' = [methodLevel EXCEPT ![<<e, g>>] = flags]
    BY DEF AddMethod
<1>3. UNCHANGED <<svc, sinks, cachedFlags, torn, sInit, initCount, csHolder>>
    BY DEF AddMethod, serviceVars
<1>4. \/ /\ svc.ready
         /\ arg' = [arg EXCEPT ![e] = [name |-> "UpdateMethod", method |-> g, flags |-> flags]]
         /\ pc' = [pc EXCEPT ![e] = "calling"]
      \/ ~svc.ready /\ UNCHANGED <<arg, pc>>
    BY DEF AddMethod, Goto, IInv, ServiceFits
<1> HIDE DEF flags
<1>5. pc' \in [Users -> Places] /\ DOMAIN arg' = Users
    BY <1>0, <1>4 DEF IInv, TypeOK, Places
<1>6. methodLevel' \in [Engines \X Methods -> Flags \cup {Unset}]
    BY <1>1, <1>2 DEF IInv, TypeOK
<1>7. calls' \in 0 .. MaxCalls
    BY <1>2, BoundsAssumption DEF IInv, TypeOK
<1>8. TypeOK'
    BY <1>3, <1>5, <1>6, <1>7 DEF IInv, TypeOK
<1>9. /\ pc'[e] \in {"up", "calling"}
      /\ pc'[e] = "calling" => arg'[e] = [name |-> "UpdateMethod", method |-> g, flags |-> flags]
      /\ \A w \in Users \ {e} : pc'[w] = pc[w] /\ arg'[w] = arg[w]
    BY <1>0, <1>2, <1>4 DEF IInv, TypeOK
<1>10. pc'[e] = "calling" => arg'[e] \in PendingCalls(e)
    BY <1>1, <1>9 DEF PendingCalls
<1>11. OnlyMoves(e) /\ LockMoves(e)
    BY <1>0, <1>2, <1>3, <1>9, <1>10 DEF IInv, OnlyMoves, Changing, ArgFits, LockHeld, LockMoves
<1>12. QuietMove(e)
    BY <1>0, <1>2, <1>3, <1>9, <1>11, Begun DEF QuietMove, Live, Changing
<1>13. MethodsFit'
    <2>1. svc'.method = {l \in Levels : svc'.wanted[l] # {}}
        BY <1>3 DEF IInv, MethodsFit
    <2>2. ASSUME NEW d \in Engines, NEW h \in Methods
          PROVE  pc'[d] = "calling" /\ arg'[d].name = "UpdateMethod" /\ arg'[d].method = h
                    /\ EnvMethodLevel[h] # Unset => arg'[d].flags = EnvMethodLevel[h]
        <3>1. CASE d = e
            BY <1>9, <3>1 DEF flags
        <3>2. CASE d # e
            <4>1. pc'[d] = pc[d] /\ arg'[d] = arg[d]
                BY <1>9, <3>2 DEF Users
            <4> QED BY <4>1 DEF IInv, MethodsFit
        <3> QED BY <3>1, <3>2
    <2>3. ASSUME NEW d \in Engines, NEW h \in Methods, svc.ready, methodLevel'[<<d, h>>] # Unset,
                 EnvMethodLevel[h] # Unset, ~ToldSoon(d, h)'
          PROVE  \A l \in EnvMethodLevel[h] : h \in svc.wanted[l]
        <3>1. CASE d = e /\ h = g
            <4>1. pc'[e] = "calling" /\ arg'[e] = [name |-> "UpdateMethod", method |-> g, flags |-> flags]
                BY <1>0, <1>4, <2>3 DEF IInv, TypeOK
            <4>2. flags = EnvMethodLevel[g]
                BY <2>3, <3>1 DEF flags
            <4> QED BY <2>3, <3>1, <4>1, <4>2 DEF ToldSoon
        <3>2. CASE ~(d = e /\ h = g)
            <4>1. methodLevel'[<<d, h>>] = methodLevel[<<d, h>>]
                BY <1>2, <3>2 DEF IInv, TypeOK
            <4>2. ~ToldSoon(d, h)
                BY <1>2, <1>9, <2>3 DEF ToldSoon, Users
            <4> QED BY <2>3, <4>1, <4>2 DEF IInv, MethodsFit
        <3> QED BY <3>1, <3>2
    <2>4. ASSUME NEW d \in Engines, NEW h \in Methods, methodLevel'[<<d, h>>] # Unset, EnvMethodLevel[h] # Unset
          PROVE  methodLevel'[<<d, h>>] = EnvMethodLevel[h]
        <3>1. CASE d = e /\ h = g
            BY <1>2, <2>4, <3>1 DEF flags, IInv, TypeOK
        <3>2. CASE ~(d = e /\ h = g)
            <4>1. methodLevel'[<<d, h>>] = methodLevel[<<d, h>>]
                BY <1>2, <3>2 DEF IInv, TypeOK
            <4> QED BY <2>4, <4>1 DEF IInv, MethodsFit
        <3> QED BY <3>1, <3>2
    <2> QED BY <1>3, <2>1, <2>2, <2>3, <2>4 DEF MethodsFit
<1> QED BY <1>0, <1>8, <1>11, <1>12, <1>13, QuietStep DEF IInv

-----------------------------------------------------------------------------
(* The steps that change the service.                                        *)

\* The field that a call changes once it has m_cs.
Changed(c) ==
    CASE c.name = "SetLoggingFlags"   -> [svc EXCEPT !.default = c.flags]
      [] c.name = "SetLogToDebugPort" -> [svc EXCEPT !.debugPort = c.enable]
      [] c.name = "SetLoggingHost"    -> [svc EXCEPT !.host = c.host]
      [] c.name = "UpdateMethod"      -> UpdateMethodFlags(svc, c.method, c.flags)

LEMMA PendingCases ==
    ASSUME NEW u \in Users, NEW c \in PendingCalls(u)
    PROVE  \/ c.name = "SetLoggingFlags" /\ c.flags \in Flags
           \/ c.name = "SetLogToDebugPort" /\ c.enable \in BOOLEAN
           \/ c.name = "SetLoggingHost" /\ u \in Engines /\ c.host \in {u, NoHost}
           \/ c.name = "UpdateMethod" /\ u \in Engines /\ c.method \in Methods /\ c.flags \in Flags
BY DEF PendingCalls, SetCalls

\* w is the service v after the method g has been given its flags.
Updated(v, g, flags, w) ==
    /\ w \in Services
    /\ w.ready = v.ready /\ w.effective = v.effective /\ w.host = v.host
    /\ \A l \in Levels : w.wanted[l] = IF l \in flags THEN v.wanted[l] \cup {g} ELSE v.wanted[l] \ {g}
    /\ w.method = {l \in Levels : w.wanted[l] # {}}

LEMMA UpdateFacts ==
    ASSUME NEW v \in Services, NEW g \in Methods, NEW flags \in Flags
    PROVE  Updated(v, g, flags, UpdateMethodFlags(v, g, flags))
<1> DEFINE w == UpdateMethodFlags(v, g, flags)
           wanted == [l \in Levels |-> IF l \in flags THEN v.wanted[l] \cup {g} ELSE v.wanted[l] \ {g}]
           method == {l \in Levels : wanted[l] # {}}
<1>1. w = [v EXCEPT !.wanted = wanted, !.method = method]
    BY DEF UpdateMethodFlags
<1>2. wanted \in [Levels -> SUBSET Methods] /\ method \in Flags
    BY DEF Services, Flags
<1>3. \A l \in Levels : wanted[l] = IF l \in flags THEN v.wanted[l] \cup {g} ELSE v.wanted[l] \ {g}
    OBVIOUS
<1>4. method = {l \in Levels : wanted[l] # {}}
    OBVIOUS
<1> SUFFICES Updated(v, g, flags, w)
    OBVIOUS
<1> HIDE DEF wanted, method, w
<1>5. w.wanted = wanted /\ w.method = method
    BY <1>1, <1>2 DEF Services
<1>6. w \in Services /\ w.ready = v.ready /\ w.effective = v.effective /\ w.host = v.host
    BY <1>1, <1>2 DEF Services
<1> QED BY <1>3, <1>4, <1>5, <1>6 DEF Updated

LEMMA ChangedFacts ==
    ASSUME svc \in Services, NEW u \in Users, NEW c \in PendingCalls(u)
    PROVE  /\ Changed(c) \in Services
           /\ Changed(c).ready = svc.ready /\ Changed(c).effective = svc.effective
           /\ Changed(c).host \in {svc.host, u, NoHost}
           /\ Changed(c).host = u => u \in Engines
           /\ c.name # "UpdateMethod" => Changed(c).method = svc.method /\ Changed(c).wanted = svc.wanted
<1>0. svc.host = u => u \in Engines
    BY UsersAssumption DEF Services
<1>1. CASE c.name = "SetLoggingFlags" /\ c.flags \in Flags
    <2>1. Changed(c) = [svc EXCEPT !.default = c.flags]
        BY <1>1 DEF Changed
    <2> QED BY <1>0, <1>1, <2>1 DEF Services
<1>2. CASE c.name = "SetLogToDebugPort" /\ c.enable \in BOOLEAN
    <2>1. Changed(c) = [svc EXCEPT !.debugPort = c.enable]
        BY <1>2 DEF Changed
    <2> QED BY <1>0, <1>2, <2>1 DEF Services
<1>3. CASE c.name = "SetLoggingHost" /\ u \in Engines /\ c.host \in {u, NoHost}
    <2>1. Changed(c) = [svc EXCEPT !.host = c.host]
        BY <1>3 DEF Changed
    <2> QED BY <1>3, <2>1 DEF Services
<1>4. CASE c.name = "UpdateMethod" /\ u \in Engines /\ c.method \in Methods /\ c.flags \in Flags
    <2>1. Changed(c) = UpdateMethodFlags(svc, c.method, c.flags)
        BY <1>4 DEF Changed
    <2>2. Updated(svc, c.method, c.flags, Changed(c))
        BY <1>4, <2>1, UpdateFacts
    <2> QED BY <1>4, <2>2 DEF Updated
<1> QED BY <1>1, <1>2, <1>3, <1>4, PendingCases

LEMMA CallLockedInv ==
    ASSUME IInv, NEW u \in Users, CallLocked(u)
    PROVE  IInv'
<1> DEFINE c == arg[u]
           v == Changed(c)
<1>1. /\ pc[u] = "calling" /\ csHolder = NoUser /\ c \in PendingCalls(u)
      /\ RecalculateLoggingFlags(v, sinks)
    BY DEF CallLocked, Changed, IInv, CallsFit, ArgFits
<1>2. /\ pc' = [pc EXCEPT ![u] = "up"]
      /\ arg' = [arg EXCEPT ![u] = NoCall]
      /\ UNCHANGED <<sInit, initCount, csHolder, methodLevel, calls>>
    BY DEF CallLocked, Goto
<1>3. /\ v \in Services
      /\ v.ready = svc.ready /\ v.effective = svc.effective
      /\ v.host \in {svc.host, u, NoHost}
      /\ v.host = u => u \in Engines
      /\ c.name # "UpdateMethod" => v.method = svc.method /\ v.wanted = svc.wanted
    BY <1>1, ChangedFacts DEF IInv, TypeOK
<1> HIDE DEF v
<1>4. Recalculated(v)
    BY <1>1, <1>3, Recalculates DEF IInv, TypeOK
<1>5. TypeOK'
    BY <1>2, <1>4 DEF IInv, TypeOK, Places, Recalculated
<1>6. pc'[u] = "up"
    BY <1>2 DEF IInv, TypeOK
<1>7. OnlyMoves(u)
    BY <1>2, <1>6 DEF IInv, TypeOK, OnlyMoves, Changing, ArgFits
<1>8. svc.ready /\ v.host # NoHost => pc'[v.host] \in Live
    <2>1. svc.host \in Engines \cup {NoHost}
        BY DEF IInv, TypeOK, Services
    <2> QED BY <1>3, <1>6, <1>7, <2>1 DEF IInv, HostsFit, OnlyMoves, Users, Live
<1>9. RecalcMove(u, v)
    BY <1>1, <1>2, <1>3, <1>4, <1>6, <1>7, <1>8, Begun DEF RecalcMove
<1>10. svc'.ready = svc.ready /\ svc'.method = v.method /\ svc'.wanted = v.wanted
    BY <1>3, <1>4 DEF Recalculated, SameService
<1>11. CASE c.name # "UpdateMethod"
    <2>1. MethodsUntold(u)
        BY <1>2, <1>3, <1>6, <1>10, <1>11 DEF MethodsUntold
    <2>2. MethodsFit'
        BY <1>7, <2>1, MethodsStep DEF IInv
    <2> QED BY <1>3, <1>5, <1>9, <2>2, RecalcStep DEF IInv
<1>12. CASE c.name = "UpdateMethod"
    <2>1. u \in Engines /\ c.method \in Methods /\ c.flags \in Flags
        BY <1>1, <1>12, PendingCases
    <2>2. v = UpdateMethodFlags(svc, c.method, c.flags)
        BY <1>12 DEF v, Changed
    <2>3. /\ \A l \in Levels : v.wanted[l] = IF l \in c.flags THEN svc.wanted[l] \cup {c.method}
                                             ELSE svc.wanted[l] \ {c.method}
          /\ v.method = {l \in Levels : v.wanted[l] # {}}
        <3>1. svc \in Services
            BY DEF IInv, TypeOK
        <3>2. Updated(svc, c.method, c.flags, v)
            BY <2>1, <2>2, <3>1, UpdateFacts
        <3> QED BY <3>2 DEF Updated
    <2>4. ASSUME NEW d \in Engines, NEW h \in Methods
          PROVE  pc'[d] = "calling" /\ arg'[d].name = "UpdateMethod" /\ arg'[d].method = h
                    /\ EnvMethodLevel[h] # Unset => arg'[d].flags = EnvMethodLevel[h]
        <3>1. CASE d = u
            BY <1>6, <3>1
        <3>2. CASE d # u
            <4>1. pc'[d] = pc[d] /\ arg'[d] = arg[d]
                BY <1>7, <3>2 DEF OnlyMoves, Users
            <4> QED BY <4>1 DEF IInv, MethodsFit
        <3> QED BY <3>1, <3>2
    <2>5. ASSUME NEW d \in Engines, NEW h \in Methods, svc.ready, methodLevel[<<d, h>>] # Unset,
                 EnvMethodLevel[h] # Unset, ~ToldSoon(d, h)'
          PROVE  \A l \in EnvMethodLevel[h] : h \in v.wanted[l]
        <3>1. EnvMethodLevel[h] \subseteq Levels
            BY <2>5, LevelsAssumption DEF Flags
        <3>2. CASE h = c.method
            <4>1. c.flags = EnvMethodLevel[h]
                BY <1>1, <1>12, <2>1, <2>5, <3>2 DEF IInv, MethodsFit
            <4> QED BY <2>3, <3>1, <3>2, <4>1
        <3>3. CASE h # c.method
            <4>1. ~ToldSoon(d, h)
                <5>1. CASE d = u
                    BY <3>3, <5>1 DEF ToldSoon
                <5>2. CASE d # u
                    <6>1. pc'[d] = pc[d] /\ arg'[d] = arg[d]
                        BY <1>7, <5>2 DEF OnlyMoves, Users
                    <6> QED BY <2>5, <6>1 DEF ToldSoon
                <5> QED BY <5>1, <5>2
            <4>2. \A l \in EnvMethodLevel[h] : h \in svc.wanted[l]
                BY <2>5, <4>1 DEF IInv, MethodsFit
            <4> QED BY <2>3, <3>1, <3>3, <4>2
        <3> QED BY <3>2, <3>3
    <2>6. \A d \in Engines, h \in Methods : methodLevel'[<<d, h>>] # Unset /\ EnvMethodLevel[h] # Unset =>
              methodLevel'[<<d, h>>] = EnvMethodLevel[h]
        BY <1>2 DEF IInv, MethodsFit
    <2>7. MethodsFit'
        BY <1>2, <1>10, <2>3, <2>4, <2>5, <2>6 DEF MethodsFit
    <2> QED BY <1>3, <1>5, <1>9, <2>7, RecalcStep DEF IInv
<1> QED BY <1>11, <1>12

LEMMA ReleaseHostInv ==
    ASSUME IInv, NEW e \in Engines, ReleaseHost(e)
    PROVE  IInv'
<1>0. e \in Users
    BY DEF Users
<1>1. CASE ~svc.ready
    BY <1>0, <1>1, ReleaseHostQuiet, QuietActionInv
<1>2. CASE svc.ready
    <2> DEFINE v == [svc EXCEPT !.host = NoHost]
    <2>1. pc[e] = "up" /\ csHolder = NoUser /\ RecalculateLoggingFlags(v, sinks)
        BY <1>2 DEF ReleaseHost
    <2>2. pc' = [pc EXCEPT ![e] = "hostless"] /\ UNCHANGED <<sInit, initCount, csHolder, arg, methodLevel, calls>>
        BY DEF ReleaseHost, Goto
    <2>3. /\ v \in Services /\ v.ready = svc.ready /\ v.effective = svc.effective /\ v.host = NoHost
          /\ v.method = svc.method /\ v.wanted = svc.wanted
        BY DEF IInv, TypeOK, Services
    <2> HIDE DEF v
    <2>4. Recalculated(v)
        BY <2>1, <2>3, Recalculates DEF IInv, TypeOK
    <2>5. TypeOK'
        BY <2>2, <2>4 DEF IInv, TypeOK, Places, Recalculated
    <2>6. pc'[e] = "hostless"
        BY <1>0, <2>2 DEF IInv, TypeOK
    <2>7. OnlyMoves(e)
        BY <1>0, <2>2, <2>6 DEF IInv, TypeOK, OnlyMoves, Changing, ArgFits
    <2>8. RecalcMove(e, v)
        BY <1>0, <2>1, <2>2, <2>3, <2>4, <2>6, <2>7, Begun DEF RecalcMove
    <2>9. MethodsUntold(e)
        BY <2>1, <2>2, <2>3, <2>4, <2>6 DEF MethodsUntold, Recalculated, SameService
    <2> QED BY <1>0, <2>3, <2>5, <2>7, <2>8, <2>9, RecalcStep, MethodsStep DEF IInv
<1> QED BY <1>1, <1>2

LEMMA LastOutInv ==
    ASSUME IInv, NEW u \in Users, NEW last \in Ends \ {"gone"}, NEW next \in Ends, LastOut(u, last, next)
    PROVE  IInv'
<1>1. /\ pc[u] = last /\ csHolder = NoUser /\ pc' = [pc EXCEPT ![u] = next]
      /\ UNCHANGED <<cachedFlags, torn, sInit, initCount, csHolder, arg, methodLevel, calls>>
    BY DEF LastOut, Goto
<1>2. pc' \in [Users -> Places] /\ pc'[u] = next
    BY <1>1 DEF IInv, TypeOK, Places, Ends
<1>3. OnlyMoves(u) /\ LockMoves(u)
    BY <1>1, <1>2, UsersAssumption DEF IInv, TypeOK, OnlyMoves, Changing, ArgFits, LockMoves, Ends
<1>4. pc[u] \notin {"none", "gone", "calling"} \cup Changing /\ pc[u] \notin Live
    BY <1>1 DEF Ends, Live, Changing
<1>5. pc'[u] \notin {"calling", "writing"} \cup Changing
    BY <1>2 DEF Ends, Changing
<1>a. \A e \in Engines : (pc'[e] \in Changing \/ pc[e] \in Changing) => pc'[e] = pc[e]
    BY <1>3, <1>4, <1>5 DEF OnlyMoves, Users
<1>b. (HostAsked' <=> HostAsked) /\ (Settled' <=> Settled)
    BY <1>a DEF HostAsked, Settled, Changing
<1>c. AttachAlone'
    BY <1>1, <1>3, <1>5, AttachStep DEF IInv
<1>6. CASE sinks.event = "ok" /\ sinks' = [sinks EXCEPT !.event = "no"] /\ UNCHANGED svc
    <2>1. /\ sinks' \in SinkStates /\ SameFile(sinks, sinks') /\ sinks'.to = sinks.to /\ sinks'.failed = sinks.failed
          /\ sinks'.open = sinks.open /\ sinks'.host = sinks.host
        BY <1>6 DEF IInv, TypeOK, SinkStates, SameFile
    <2>2. TypeOK'
        BY <1>1, <1>2, <1>6, <2>1 DEF IInv, TypeOK
    <2>3. CallsFit' /\ LockHeld'
        BY <1>3, CallsFitStep, LockStep DEF IInv
    <2>4. MethodsUntold(u)
        BY <1>1, <1>4, <1>5, <1>6 DEF MethodsUntold
    <2>5. MethodsFit'
        BY <1>3, <2>4, MethodsStep DEF IInv
    <2>6. ServiceFits'
        <3>1. sinks # NoSinks
            BY <1>6 DEF NoSinks
        <3> QED BY <1>1, <1>4, <1>6, <2>1, <3>1, Begun DEF IInv, ServiceFits, SameFile
    <2>7. HostsFit'
        <3>1. \A w \in Users : pc'[w] # "writing"
            BY <1>1, <2>3, UsersAssumption DEF LockHeld
        <3>2. HostMayFit(svc', sinks') /\ (HostFits(svc', sinks') \/ HostAsked')
            BY <1>6, <1>b, <2>1 DEF IInv, HostsFit, HostMayFit, HostFits
        <3>3. svc.host \in Engines \cup {NoHost}
            BY DEF IInv, TypeOK, Services
        <3>4. svc'.ready /\ svc'.host # NoHost => pc'[svc'.host] \in Live
            BY <1>3, <1>4, <1>6, <3>3 DEF IInv, HostsFit, OnlyMoves, Users
        <3> QED BY <3>1, <3>2, <3>4 DEF HostsFit
    <2>8. ListsFollow'
        <3>1. OpenFits(sinks')
            BY <2>1 DEF IInv, ListsFollow, OpenFits, SameFile
        <3>2. \A s \in AllSinks : Wants(s, svc, sinks') = Wants(s, svc, sinks)
            BY <2>1, WantsTheSame
        <3>3. \A S \in SUBSET AllSinks : Done(S, svc, sinks) => Done(S, svc', sinks')
            BY <1>6, <2>1, <3>2 DEF Done
        <3>4. \A e \in Engines : Platform \in SUBSET AllSinks /\ Platform \ arg[e].left \in SUBSET AllSinks
            BY SinksAssumption
        <3>5. ASSUME ~torn', svc'.ready
              PROVE  ~torn /\ svc.ready
            BY <1>1, <1>6, <3>5
        <3>6. ASSUME ~torn', svc'.ready, Settled'
              PROVE  Done(Platform, svc', sinks') /\ cachedFlags' = svc'.effective
            BY <1>1, <1>6, <1>b, <3>3, <3>4, <3>5, <3>6, SinksAssumption DEF IInv, ListsFollow
        <3>7. ASSUME ~torn', svc'.ready, NEW e \in Engines
              PROVE  /\ pc'[e] \in {"resetting", "asking"} =>
                            Done(Platform \ arg'[e].left, svc', sinks') /\ cachedFlags' = svc'.effective
                     /\ pc'[e] = "announcing" => Done(Platform, svc', sinks') /\ svc'.effective = arg'[e].sum
            <4>1. pc'[e] \in Changing => pc[e] = pc'[e]
                BY <1>a
            <4> QED BY <1>1, <1>6, <3>3, <3>4, <3>5, <3>7, <4>1 DEF IInv, ListsFollow, Changing
        <3> QED BY <3>1, <3>6, <3>7 DEF ListsFollow
    <2> QED BY <1>c, <2>2, <2>3, <2>5, <2>6, <2>7, <2>8 DEF IInv
<1>7. CASE sinks' = NoSinks /\ svc' = [svc EXCEPT !.host = NoHost, !.ready = FALSE]
    <2>1. svc' \in Services /\ svc'.ready = FALSE /\ svc'.method = svc.method /\ svc'.wanted = svc.wanted
        BY <1>7 DEF IInv, TypeOK, Services
    <2>2. TypeOK'
        BY <1>1, <1>2, <1>7, <2>1, NoSinksType DEF IInv, TypeOK
    <2>3. CallsFit' /\ LockHeld'
        BY <1>3, CallsFitStep, LockStep DEF IInv
    <2>5. MethodsUntold(u)
        BY <1>1, <1>4, <1>5, <2>1 DEF MethodsUntold
    <2>6. MethodsFit'
        BY <1>3, <2>5, MethodsStep DEF IInv
    <2>7. ServiceFits'
        BY <1>1, <1>4, <1>7, <2>1, Begun DEF ServiceFits
    <2>8. HostsFit'
        <3>1. \A w \in Users : pc'[w] # "writing"
            BY <1>1, <2>3, UsersAssumption DEF LockHeld
        <3>2. \A l \in Levels : NoSinks.to[l] = {}
            BY DEF NoSinks
        <3>3. HostFits(svc', sinks') /\ HostMayFit(svc', sinks')
            BY <1>7, <3>2 DEF HostFits, HostMayFit
        <3> QED BY <2>1, <3>1, <3>3 DEF HostsFit
    <2>9. ListsFollow'
        <3>1. NoSinks.open = FALSE
            BY DEF NoSinks
        <3>2. OpenFits(sinks')
            BY <1>7, <3>1 DEF OpenFits
        <3> QED BY <2>1, <3>2 DEF ListsFollow
    <2> QED BY <1>c, <2>2, <2>3, <2>6, <2>7, <2>8, <2>9 DEF IInv
<1> QED BY <1>6, <1>7 DEF LastOut, ShutdownService

\* Done goes by the default and the methods' flags, the host and the debug port.
LEMMA DoneSame ==
    ASSUME NEW v, NEW w, NEW k, NEW S \in SUBSET AllSinks, Done(S, v, k),
           w.default = v.default, w.method = v.method, w.host = v.host, w.debugPort = v.debugPort
    PROVE  Done(S, w, k)
<1>1. \A s \in AllSinks : Wants(s, w, k) = Wants(s, v, k)
    BY DEF Wants, AllSinks
<1> QED BY <1>1 DEF Done

LEMMA CreateSinksFacts ==
    CreateSinks \in SinkStates /\ OpenFits(CreateSinks) /\ CreateSinks.present = Platform
<1>1. NoSinks \in SinkStates /\ NoSinks.open = FALSE
    BY NoSinksType DEF NoSinks
<1> QED BY <1>1, LevelsAssumption, SinksAssumption DEF CreateSinks, SinkStates, OpenFits

\* The first user makes the service.
LEMMA ConstructFirstInv ==
    ASSUME IInv, NEW u \in Users, Construct(u), sInit = "no"
    PROVE  IInv'
<1>1. /\ pc[u] = "none" /\ pc' = [pc EXCEPT ![u] = "counting"] /\ InitializeService
      /\ UNCHANGED <<initCount, csHolder, arg, methodLevel, calls>>
    BY DEF Construct, Goto
<1> DEFINE v == [svc EXCEPT !.default = EnvLevel]
<1>2. PICK started \in BOOLEAN :
        LET r == ResetAll(v, CreateSinks, started)
            effective == EffectiveFlags(v, r)
        IN  /\ sinks' = r
            /\ svc' = IF r.failed THEN v ELSE [v EXCEPT !.ready = TRUE, !.effective = effective]
            /\ cachedFlags' = IF r.failed THEN cachedFlags ELSE effective
            /\ sInit' = IF r.failed THEN "failed" ELSE "ok"
            /\ UNCHANGED torn
    BY <1>1 DEF InitializeService
<1> DEFINE effective == EffectiveFlags(v, sinks')
<1>3. /\ sinks' = ResetAll(v, CreateSinks, started)
      /\ svc' = IF sinks'.failed THEN v ELSE [v EXCEPT !.ready = TRUE, !.effective = effective]
      /\ cachedFlags' = IF sinks'.failed THEN cachedFlags ELSE effective
      /\ sInit' = IF sinks'.failed THEN "failed" ELSE "ok"
      /\ torn' = torn
    BY <1>2
<1>4. /\ v \in Services /\ v.ready = FALSE /\ v.host = NoHost
      /\ v.method = svc.method /\ v.wanted = svc.wanted
    BY LevelsAssumption DEF IInv, TypeOK, Services, ServiceFits
<1>5. Seen(v)
    BY <1>4 DEF Seen
<1> HIDE DEF v
<1>6. /\ sinks' \in SinkStates /\ SameFile(CreateSinks, sinks') /\ OpenFits(sinks') /\ HostFits(v, sinks')
      /\ Done(Platform, v, sinks')
    BY <1>3, <1>4, <1>5, CreateSinksFacts, ResetAllStep
<1>7. effective \in Flags
    BY <1>4, <1>6, EffectiveType
<1> HIDE DEF effective
<1>8. /\ svc' \in Services /\ svc'.host = NoHost /\ svc'.method = svc.method /\ svc'.wanted = svc.wanted
      /\ svc'.ready <=> ~sinks'.failed
      /\ svc'.ready => svc'.effective = cachedFlags'
      /\ svc'.default = v.default /\ svc'.method = v.method /\ svc'.debugPort = v.debugPort
    BY <1>3, <1>4, <1>7 DEF Services
<1>9. cachedFlags' \in Flags /\ sInit' \in {"ok", "failed"} /\ (svc'.ready <=> sInit' = "ok")
    BY <1>3, <1>7, <1>8 DEF IInv, TypeOK
<1>10. TypeOK'
    BY <1>1, <1>3, <1>6, <1>8, <1>9 DEF IInv, TypeOK, Places
<1>11. /\ \A w \in Users : pc[w] = "none"
       /\ \A e \in Engines, g \in Methods : methodLevel[<<e, g>>] = Unset
    BY DEF IInv, ServiceFits
<1>12. \A w \in Users : pc'[w] \in {"none", "counting"}
    BY <1>1, <1>11 DEF IInv, TypeOK
<1>13. CallsFit'
    BY <1>12 DEF CallsFit, ArgFits, Changing
<1>14. LockHeld'
    BY <1>1, <1>11, <1>12 DEF IInv, LockHeld
<1>15. ServiceFits'
    BY <1>6, <1>9, CreateSinksFacts DEF ServiceFits, SameFile
<1>16. MethodsFit'
    <2>1. svc'.method = {l \in Levels : svc'.wanted[l] # {}}
        BY <1>8 DEF IInv, MethodsFit
    <2>2. \A e \in Engines : pc'[e] # "calling"
        BY <1>12 DEF Users
    <2> QED BY <1>1, <1>11, <2>1, <2>2 DEF MethodsFit
<1>17. HostsFit'
    <2>1. HostFits(svc', sinks') /\ HostMayFit(svc', sinks')
        BY <1>4, <1>6 DEF HostFits, HostMayFit
    <2> QED BY <1>8, <1>12, <2>1 DEF HostsFit
<1>18. AttachAlone'
    BY <1>12 DEF AttachAlone, Users, Changing
<1>19. ListsFollow'
    <2>1. Done(Platform, svc', sinks')
        BY <1>4, <1>6, <1>8, DoneSame, SinksAssumption
    <2>2. \A e \in Engines : pc'[e] \notin Changing
        BY <1>12 DEF Users, Changing
    <2> QED BY <1>6, <1>8, <2>1, <2>2 DEF ListsFollow, Changing
<1> QED BY <1>10, <1>13, <1>14, <1>15, <1>16, <1>17, <1>18, <1>19 DEF IInv

-----------------------------------------------------------------------------
(* The attach configuration: SetLogFilePath and SetLogFileLevel.             *)

\* A step of an engine in such a call leaves everything but the sinks, the effective flags and their cached copy alone,
\* and the host under an entry on its way, but for the moment in GetLoggingHost.
FileMove(e) ==
    /\ UNCHANGED <<sInit, csHolder, methodLevel>>
    /\ svc' \in Services /\ SameService(svc, svc')
    /\ sinks' \in SinkStates /\ sinks'.present = sinks.present
    /\ sInit # "no" /\ (sinks = NoSinks => sinks' = NoSinks)
    /\ OnlyMoves(e)
    /\ pc[e] \in {"up"} \cup Changing /\ pc'[e] \in {"up"} \cup Changing
    /\ pc[e] = "up" => pc'[e] = "resetting" /\ (~torn' => Settled)
    /\ ~torn' => ~torn
    /\ HostMayFit(svc, sinks') /\ (HostFits(svc, sinks') \/ HostAsked')
    /\ svc.ready /\ csHolder # NoUser =>
            /\ sinks'.host = sinks.host \/ (sinks'.host = NoHost /\ HostAsked')
            /\ HostAsked => HostAsked'

LEMMA FileStep ==
    ASSUME IInv, NEW e \in Engines, FileMove(e)
    PROVE  CallsFit' /\ LockHeld' /\ ServiceFits' /\ MethodsFit' /\ HostsFit' /\ AttachAlone'
<1>0. e \in Users
    BY DEF Users
<1>1. LockMoves(e)
    BY <1>0 DEF FileMove, LockMoves, IInv, LockHeld, Changing
<1>2. CallsFit' /\ LockHeld'
    BY <1>0, <1>1, CallsFitStep, LockStep DEF IInv, FileMove
<1>3. /\ svc'.ready = svc.ready /\ svc'.host = svc.host /\ svc'.method = svc.method /\ svc'.wanted = svc.wanted
    BY DEF FileMove, SameService
<1>4. ServiceFits'
    BY <1>3 DEF IInv, FileMove, ServiceFits
<1>5. MethodsFit'
    <2>1. MethodsUntold(e)
        BY <1>3 DEF FileMove, MethodsUntold, Changing
    <2> QED BY <1>0, <2>1, MethodsStep DEF IInv, FileMove
<1>6. HostsFit'
    <2>1. svc.host \in Engines \cup {NoHost}
        BY DEF IInv, TypeOK, Services
    <2>2. svc'.ready /\ svc'.host # NoHost => pc'[svc'.host] \in Live
        BY <1>3, <2>1 DEF IInv, HostsFit, FileMove, OnlyMoves, Users, Live, Changing
    <2>3. HostMayFit(svc', sinks') /\ (HostFits(svc', sinks') \/ HostAsked')
        BY <1>3 DEF FileMove, HostFits, HostMayFit
    <2>4. ASSUME NEW w \in Users, pc'[w] = "writing", "host" \in arg'[w].left
          PROVE  HostThere'
        <3>1. w # e /\ pc[w] = "writing" /\ arg'[w] = arg[w]
            BY <2>4 DEF FileMove, OnlyMoves, Changing
        <3>2. csHolder # NoUser
            BY <3>1, UsersAssumption DEF IInv, LockHeld
        <3>3. HostThere
            BY <2>4, <3>1 DEF IInv, HostsFit
        <3>4. /\ sinks'.host = sinks.host \/ (sinks'.host = NoHost /\ HostAsked')
              /\ HostAsked => HostAsked'
            BY <3>2, <3>3 DEF FileMove, HostThere
        <3> QED BY <1>3, <3>3, <3>4 DEF HostThere
    <2> QED BY <2>2, <2>3, <2>4 DEF HostsFit
<1>7. AttachAlone'
    BY <1>0, AttachStep DEF IInv, FileMove
<1> QED BY <1>2, <1>4, <1>5, <1>6, <1>7

\* ListsFollow after such a step, when nothing is torn: the engine is the only one in such a call.
LEMMA FileListsFollow ==
    ASSUME IInv, NEW e \in Engines, FileMove(e), OpenFits(sinks'),
           ~torn' /\ svc.ready =>
                /\ pc'[e] = "up" => Done(Platform, svc', sinks') /\ cachedFlags' = svc'.effective
                /\ pc'[e] \in {"resetting", "asking"} =>
                        Done(Platform \ arg'[e].left, svc', sinks') /\ cachedFlags' = svc'.effective
                /\ pc'[e] = "announcing" => Done(Platform, svc', sinks') /\ svc'.effective = arg'[e].sum
    PROVE  ListsFollow'
<1>1. svc'.ready = svc.ready
    BY DEF FileMove, SameService
<1>2. ASSUME ~torn', NEW d \in Engines \ {e} PROVE pc'[d] \notin Changing
    <2>1. pc'[d] = pc[d]
        BY DEF FileMove, OnlyMoves, Users
    <2>2. ~torn /\ (pc[e] = "up" => Settled)
        BY <1>2 DEF FileMove
    <2>3. CASE pc[e] = "up"
        BY <2>1, <2>2, <2>3 DEF Settled
    <2>4. CASE pc[e] \in Changing
        BY <2>1, <2>2, <2>4 DEF IInv, AttachAlone
    <2> QED BY <2>3, <2>4 DEF FileMove
<1>3. Settled' => pc'[e] = "up"
    BY DEF FileMove, Settled
<1>4. ASSUME ~torn', svc'.ready
      PROVE  /\ Settled' => Done(Platform, svc', sinks') /\ cachedFlags' = svc'.effective
             /\ \A d \in Engines :
                 /\ pc'[d] \in {"resetting", "asking"} =>
                         Done(Platform \ arg'[d].left, svc', sinks') /\ cachedFlags' = svc'.effective
                 /\ pc'[d] = "announcing" => Done(Platform, svc', sinks') /\ svc'.effective = arg'[d].sum
    BY <1>1, <1>2, <1>3, <1>4 DEF Changing
<1> QED BY <1>4 DEF ListsFollow

LEMMA SetLogFileInv ==
    ASSUME IInv, NEW e \in Engines, SetLogFile(e)
    PROVE  IInv'
<1>0. e \in Users
    BY DEF Users
<1> DEFINE k == ClearLists(sinks)
<1>1. /\ pc[e] = "up" /\ sInit = "ok" /\ calls < MaxCalls /\ calls' = calls + 1
      /\ arg' = [arg EXCEPT ![e] = [name |-> "SetLogFile", sum |-> {}, left |-> sinks.present]]
      /\ pc' = [pc EXCEPT ![e] = "resetting"]
      /\ UNCHANGED <<cachedFlags, svc, sInit, initCount, csHolder, methodLevel>>
    BY DEF SetLogFile, Goto
<1>a. torn' \in BOOLEAN /\ (~torn' => ~torn /\ Settled)
    <2>1. torn' = (torn \/ ~Settled)
        BY DEF SetLogFile
    <2> QED BY <2>1, Zenon
<1>2. /\ k \in SinkStates /\ k.present = sinks.present /\ k.open = sinks.open /\ k.host = sinks.host
      /\ k.path = sinks.path
      /\ \A l \in Levels : k.to[l] = {}
    BY ClearListsFacts DEF IInv, TypeOK, SameFile
<1>3. \/ "file" \in sinks.present /\ \E p \in Paths : sinks' = [k EXCEPT !.path = p, !.open = FALSE]
      \/ "file" \in sinks.present /\ \E flags \in FileLevels : sinks' = [k EXCEPT !.fileFlags = flags, !.open = FALSE]
      \/ "file" \notin sinks.present /\ sinks' = k
    BY DEF SetLogFile
<1>4. NoSinks.present = {} /\ k = ClearLists(sinks)
    BY DEF NoSinks
<1> HIDE DEF k
<1>5. /\ sinks' \in SinkStates /\ sinks'.present = sinks.present /\ sinks'.host = sinks.host
      /\ \A l \in Levels : sinks'.to[l] = {}
    BY <1>2, <1>3, LevelsAssumption DEF SinkStates
<1>6. OpenFits(sinks')
    BY <1>2, <1>3 DEF OpenFits, IInv, ListsFollow, SinkStates
<1>7. sinks = NoSinks => sinks' = NoSinks
    BY <1>3, <1>4, NoSinksType
<1>8. TypeOK'
    BY <1>0, <1>1, <1>a, <1>5, BoundsAssumption DEF IInv, TypeOK, Places
<1>9. /\ pc'[e] = "resetting" /\ arg'[e] \in FileCalls /\ arg'[e].left = sinks.present
    BY <1>0, <1>1, SinksAssumption DEF IInv, TypeOK, SinkStates, FileCalls, Flags
<1>10. OnlyMoves(e)
    BY <1>0, <1>1, <1>9 DEF IInv, TypeOK, OnlyMoves, Changing, ArgFits
<1>b. HostAsked' <=> HostAsked
    BY <1>1, <1>9, <1>10 DEF HostAsked, OnlyMoves, Users
<1>c. svc' = svc /\ svc \in Services
    BY <1>1 DEF IInv, TypeOK
<1>11. FileMove(e)
    BY <1>1, <1>a, <1>b, <1>c, <1>5, <1>7, <1>9, <1>10 DEF FileMove, SameService, HostFits, HostMayFit, Changing
<1>12. ASSUME ~torn', svc.ready
       PROVE  Done(Platform \ arg'[e].left, svc', sinks') /\ cachedFlags' = svc'.effective
    <2>1. Platform \ arg'[e].left = {}
        BY <1>9, <1>12 DEF IInv, ServiceFits
    <2>2. Settled /\ ~torn
        BY <1>a, <1>12
    <2>3. Done({}, svc', sinks')
        BY <1>5 DEF Done
    <2> QED BY <1>1, <1>12, <2>1, <2>2, <2>3 DEF IInv, ListsFollow
<1>13. ListsFollow'
    BY <1>6, <1>9, <1>11, <1>12, FileListsFollow
<1> QED BY <1>8, <1>11, <1>13, FileStep DEF IInv

LEMMA ResetUnlockedInv ==
    ASSUME IInv, NEW e \in Engines, NEW s \in arg[e].left, NEW started \in BOOLEAN, ResetUnlocked(e, s, started),
           pc[e] \in {"resetting", "asking"}, pc[e] = "asking" <=> s = "host",
           s = "host" /\ svc.ready => csHolder = NoUser
    PROVE  IInv'
<1>0. e \in Users
    BY DEF Users
<1> DEFINE k == [sinks EXCEPT !.failed = FALSE]
           r == ResetSink(s, svc, k, started)
           a == Answer(s, svc, r, svc.default)
<1>1. /\ arg[e] \in FileCalls
      /\ UNCHANGED <<cachedFlags, svc, torn, sInit, initCount, csHolder, methodLevel, calls>>
    BY <1>0 DEF ResetUnlocked, IInv, CallsFit, ArgFits, Changing
<1>2. /\ sinks' = [r EXCEPT !.failed = r.failed \/ sinks.failed]
      /\ \/ /\ ~r.failed
            /\ arg' = [arg EXCEPT ![e].left = @ \ {s}, ![e].sum = @ \cup a]
            /\ Goto(e, "resetting")
         \/ /\ r.failed
            /\ arg' = [arg EXCEPT ![e] = NoCall]
            /\ Goto(e, "up")
    BY DEF ResetUnlocked
<1>3. /\ svc \in Services /\ sinks \in SinkStates /\ OpenFits(sinks) /\ HostMayFit(svc, sinks)
      /\ HostFits(svc, sinks) \/ HostAsked
    BY DEF IInv, TypeOK, HostsFit, ListsFollow
<1>4. s \in Platform /\ s \in AllSinks
    BY <1>1, SinksAssumption DEF FileCalls
<1>5. /\ k \in SinkStates /\ SameFile(sinks, k) /\ k.to = sinks.to /\ k.host = sinks.host /\ k.open = sinks.open
      /\ k.failed = FALSE
    BY <1>3 DEF SinkStates, SameFile
<1>6. OpenFits(k) /\ HostMayFit(svc, k) /\ (HostFits(svc, sinks) => HostFits(svc, k))
    BY <1>3, <1>5 DEF OpenFits, SameFile, HostMayFit, HostFits
<1>7. sinks = NoSinks => k = sinks
    <2>1. NoSinks.failed = FALSE
        BY DEF NoSinks
    <2> QED BY <1>3, <2>1 DEF SinkStates
<1>8. svc.ready => sinks.present = Platform
    BY DEF IInv, ServiceFits
<1> HIDE DEF k
<1>9. /\ r \in SinkStates /\ SameFile(k, r) /\ (s # "host" => r.host = k.host)
      /\ OpenFits(r) /\ (s \notin k.present => r = k)
    BY <1>3, <1>4, <1>5, <1>6, ResetSinkStep
<1>10. HostMayFit(svc, r) /\ (s = "host" => HostFits(svc, r)) /\ (HostFits(svc, k) => HostFits(svc, r))
    <2>1. svc.ready => s \in k.present
        BY <1>4, <1>5, <1>8 DEF SameFile
    <2> QED BY <1>3, <1>4, <1>5, <1>6, <2>1, ResetSinkMayHost, ResetSinkHost
<1>11. a \in Flags
    BY <1>3, <1>4, <1>9, AnswerType DEF Services
<1>12. Seen(svc) /\ svc.ready /\ Done(Platform \ arg[e].left, svc, k) =>
          Done((Platform \ arg[e].left) \cup ({s} \cap k.present), svc, r)
    <2>1. Platform \ arg[e].left \in SUBSET AllSinks
        BY SinksAssumption
    <2> QED BY <1>3, <1>4, <1>5, <1>6, <2>1, ResetSinkDone
<1> HIDE DEF r, a
<1>13. /\ sinks' \in SinkStates /\ SameFile(r, sinks') /\ sinks'.to = r.to /\ sinks'.host = r.host
       /\ sinks'.open = r.open /\ sinks'.failed = (r.failed \/ sinks.failed)
    <2>1. r.failed \in BOOLEAN /\ sinks.failed \in BOOLEAN
        BY <1>3, <1>9 DEF SinkStates
    <2>2. PICK b \in BOOLEAN : b = (r.failed \/ sinks.failed)
        OBVIOUS
    <2>3. sinks' = [r EXCEPT !.failed = b]
        BY <1>2, <2>2
    <2> QED BY <1>9, <2>2, <2>3 DEF SinkStates, SameFile
<1>14. OpenFits(sinks') /\ sinks'.present = sinks.present
    BY <1>5, <1>9, <1>13 DEF OpenFits, SameFile
<1>15. sinks = NoSinks => sinks' = NoSinks
    <2>1. SUFFICES ASSUME sinks = NoSinks PROVE sinks' = sinks
        BY <2>1
    <2>2. k = sinks /\ s \notin k.present
        BY <1>7, <2>1 DEF NoSinks
    <2>3. r = sinks /\ sinks.failed = FALSE
        BY <1>5, <1>9, <2>2
    <2>4. sinks'.failed = FALSE /\ (r.failed \/ sinks.failed) = FALSE
        BY <1>13, <2>3
    <2>5. sinks' = [sinks EXCEPT !.failed = FALSE]
        BY <1>2, <2>3, <2>4
    <2> QED BY <1>3, <2>3, <2>5 DEF SinkStates
<1>16. /\ DOMAIN arg' = Users /\ pc' \in [Users -> Places]
       /\ \A w \in Users \ {e} : pc'[w] = pc[w] /\ arg'[w] = arg[w]
    BY <1>0, <1>2 DEF IInv, TypeOK, Goto, Places
<1>17. \/ pc'[e] = "resetting" /\ arg'[e] \in FileCalls /\ arg'[e].left = arg[e].left \ {s} /\ ~r.failed
       \/ pc'[e] = "up" /\ sinks'.failed
    <2>1. CASE ~r.failed /\ arg' = [arg EXCEPT ![e].left = @ \ {s}, ![e].sum = @ \cup a] /\ Goto(e, "resetting")
        <3>2. arg'[e] = [arg[e] EXCEPT !.left = @ \ {s}, !.sum = @ \cup a]
            BY <1>0, <2>1 DEF IInv, TypeOK
        <3>3. arg'[e] \in FileCalls /\ arg'[e].left = arg[e].left \ {s}
            <4> DEFINE c == arg[e]
                       d == arg'[e]
                       left == c.left \ {s}
                       sum == c.sum \cup a
            <4>1. c \in FileCalls /\ d = [c EXCEPT !.left = left, !.sum = sum]
                BY <1>1, <3>2
            <4>2. left \in SUBSET Platform /\ sum \in Flags
                BY <1>11, <4>1 DEF FileCalls, Flags
            <4> SUFFICES d \in FileCalls /\ d.left = left
                OBVIOUS
            <4> HIDE DEF c, d, left, sum
            <4> QED BY <4>1, <4>2 DEF FileCalls
        <3> QED BY <1>0, <2>1, <3>3 DEF Goto, IInv, TypeOK
    <2>2. CASE r.failed /\ Goto(e, "up")
        BY <1>0, <1>13, <2>2 DEF Goto, IInv, TypeOK
    <2> QED BY <1>2, <2>1, <2>2
<1>18. TypeOK'
    BY <1>1, <1>13, <1>16 DEF IInv, TypeOK
<1>19. OnlyMoves(e)
    BY <1>16, <1>17 DEF OnlyMoves, ArgFits, Changing
<1>20. /\ HostMayFit(svc, sinks') /\ (HostFits(svc, sinks') \/ HostAsked')
       /\ svc.ready /\ csHolder # NoUser => sinks'.host = sinks.host /\ (HostAsked => HostAsked')
    <2>1. HostMayFit(svc, sinks') /\ (HostFits(svc, r) => HostFits(svc, sinks'))
        BY <1>10, <1>13 DEF HostMayFit, HostFits
    <2>2. CASE s = "host"
        BY <1>10, <2>1, <2>2
    <2>3. CASE s # "host"
        <3>1. HostAsked => HostAsked'
            BY <1>16, <2>3 DEF HostAsked, Users
        <3> QED BY <1>3, <1>5, <1>6, <1>9, <1>10, <1>13, <2>1, <2>3, <3>1
    <2> QED BY <2>2, <2>3
<1>21. FileMove(e)
    <2>1. svc' = svc /\ UNCHANGED <<sInit, csHolder, methodLevel, torn>>
        BY <1>1
    <2>2. pc[e] \in Changing /\ pc'[e] \in {"up"} \cup Changing /\ pc[e] # "up"
        BY <1>17 DEF Changing
    <2>3. sInit # "no"
        BY <1>0, <2>2, Begun DEF Changing
    <2> QED BY <1>3, <1>13, <1>14, <1>15, <1>19, <1>20, <2>1, <2>2, <2>3 DEF FileMove, SameService
<1>22. ASSUME ~torn', svc.ready
       PROVE  /\ cachedFlags' = svc'.effective
              /\ pc'[e] = "up" => Done(Platform, svc', sinks')
              /\ pc'[e] = "resetting" => Done(Platform \ arg'[e].left, svc', sinks')
    <2>1. ~torn /\ cachedFlags = svc.effective /\ Done(Platform \ arg[e].left, svc, sinks)
        BY <1>1, <1>22 DEF IInv, ListsFollow
    <2>2. pc'[e] = "up" => Done(Platform, svc', sinks')
        BY <1>17 DEF Done
    <2>3. k.present = Platform /\ Seen(svc)
        BY <1>5, <1>8, <1>22 DEF Seen, SameFile
    <2>4. SUFFICES ASSUME pc'[e] = "resetting", ~sinks'.failed
                   PROVE  Done(Platform \ arg'[e].left, svc, sinks')
        BY <1>1, <2>1, <2>2, <2>4 DEF Done
    <2>5. ~sinks.failed
        BY <1>13, <2>4
    <2>6. Done(Platform \ arg[e].left, svc, k)
        <3>1. \A t \in AllSinks : Wants(t, svc, k) = Wants(t, svc, sinks)
            BY <1>5, WantsTheSame
        <3> QED BY <1>5, <2>1, <2>5, <3>1, SinksAssumption DEF Done
    <2>7. Done((Platform \ arg[e].left) \cup ({s} \cap k.present), svc, r)
        BY <1>12, <1>22, <2>3, <2>6
    <2>8. (Platform \ arg[e].left) \cup ({s} \cap k.present) = Platform \ arg'[e].left
        BY <1>4, <1>17, <2>3, <2>4
    <2>9. \A t \in AllSinks : Wants(t, svc, sinks') = Wants(t, svc, r)
        BY <1>13, WantsTheSame
    <2> QED BY <1>13, <1>17, <2>4, <2>7, <2>8, <2>9, SinksAssumption DEF Done
<1>23. ListsFollow'
    <2>1. pc'[e] \notin {"asking", "announcing"}
        BY <1>17
    <2> QED BY <1>14, <1>21, <1>22, <2>1, FileListsFollow
<1> QED BY <1>18, <1>21, <1>23, FileStep DEF IInv

LEMMA ResetNextInv ==
    ASSUME IInv, NEW e \in Engines, ResetNext(e)
    PROVE  IInv'
<1>1. pc[e] = "resetting"
    BY DEF ResetNext
<1>2. PICK s \in arg[e].left \ {"host"}, started \in BOOLEAN : ResetUnlocked(e, s, started)
    BY DEF ResetNext
<1> QED BY <1>1, <1>2, ResetUnlockedInv

LEMMA HostAnswersInv ==
    ASSUME IInv, NEW e \in Engines, HostAnswers(e)
    PROVE  IInv'
<1>1. pc[e] = "asking" /\ (svc.ready => csHolder = NoUser) /\ ResetUnlocked(e, "host", TRUE)
    BY DEF HostAnswers
<1>2. "host" \in arg[e].left
    BY <1>1 DEF IInv, CallsFit, ArgFits, Users
<1> QED BY <1>1, <1>2, ResetUnlockedInv

\* GetLoggingHost nulls the pointer of the host sink.
LEMMA AskHostInv ==
    ASSUME IInv, NEW e \in Engines, AskHost(e)
    PROVE  IInv'
<1>0. e \in Users
    BY DEF Users
<1>1. /\ pc[e] = "resetting" /\ arg[e] \in FileCalls /\ arg[e].left = {"host"}
      /\ sinks' = IF "host" \in sinks.present THEN [sinks EXCEPT !.host = NoHost] ELSE sinks
      /\ pc' = [pc EXCEPT ![e] = "asking"]
      /\ UNCHANGED <<cachedFlags, svc, torn, sInit, initCount, csHolder, arg, methodLevel, calls>>
    BY <1>0 DEF AskHost, Goto, IInv, CallsFit, ArgFits, Changing
<1>2. svc \in Services /\ sinks \in SinkStates /\ OpenFits(sinks) /\ HostMayFit(svc, sinks)
    BY DEF IInv, TypeOK, HostsFit, ListsFollow
<1>3. /\ sinks' \in SinkStates /\ SameFile(sinks, sinks') /\ sinks'.to = sinks.to /\ sinks'.failed = sinks.failed
      /\ sinks'.open = sinks.open /\ sinks'.host \in {sinks.host, NoHost}
    BY <1>1, <1>2 DEF SinkStates, SameFile
<1>4. sinks = NoSinks => sinks' = NoSinks
    BY <1>1 DEF NoSinks
<1>5. TypeOK'
    BY <1>0, <1>1, <1>3 DEF IInv, TypeOK, Places
<1>6. pc'[e] = "asking" /\ HostAsked'
    BY <1>0, <1>1 DEF IInv, TypeOK, HostAsked
<1>7. OnlyMoves(e)
    BY <1>0, <1>1, <1>6 DEF IInv, TypeOK, OnlyMoves, ArgFits, Changing
<1>8. HostMayFit(svc, sinks')
    BY <1>2, <1>3 DEF HostMayFit
<1>9. FileMove(e)
    <2>1. svc' = svc /\ UNCHANGED <<sInit, csHolder, methodLevel, torn>>
        BY <1>1
    <2>2. sInit # "no"
        BY <1>0, <1>1, Begun
    <2> QED BY <1>1, <1>2, <1>3, <1>4, <1>6, <1>7, <1>8, <2>1, <2>2 DEF FileMove, SameService, SameFile, Changing
<1>10. ~torn' /\ svc.ready => Done(Platform \ arg'[e].left, svc', sinks') /\ cachedFlags' = svc'.effective
    <2>1. ~torn /\ svc.ready => Done(Platform \ arg[e].left, svc, sinks) /\ cachedFlags = svc.effective
        BY <1>1 DEF IInv, ListsFollow
    <2>2. \A t \in AllSinks : Wants(t, svc, sinks') = Wants(t, svc, sinks)
        BY <1>3, WantsTheSame
    <2>3. Done(Platform \ arg[e].left, svc, sinks) => Done(Platform \ arg[e].left, svc, sinks')
        BY <1>3, <2>2, SinksAssumption DEF Done
    <2> QED BY <1>1, <2>1, <2>3
<1>11. ListsFollow'
    <2>1. OpenFits(sinks')
        BY <1>2, <1>3 DEF OpenFits, SameFile
    <2> QED BY <1>6, <1>9, <1>10, <2>1, FileListsFollow
<1> QED BY <1>5, <1>9, <1>11, FileStep DEF IInv

LEMMA PublishInv ==
    ASSUME IInv, NEW e \in Engines, Publish(e)
    PROVE  IInv'
<1>0. e \in Users
    BY DEF Users
<1>1. /\ pc[e] = "resetting" /\ arg[e] \in FileCalls /\ arg[e].left = {}
      /\ svc' = [svc EXCEPT !.effective = arg[e].sum]
      /\ pc' = [pc EXCEPT ![e] = "announcing"]
      /\ UNCHANGED <<cachedFlags, sinks, torn, sInit, initCount, csHolder, arg, methodLevel, calls>>
    BY <1>0 DEF Publish, Goto, IInv, CallsFit, ArgFits, Changing
<1>2. arg[e].sum \in Flags
    BY <1>1 DEF FileCalls
<1>3. svc' \in Services /\ SameService(svc, svc') /\ svc'.effective = arg[e].sum
    BY <1>1, <1>2 DEF IInv, TypeOK, Services, SameService
<1>4. TypeOK'
    BY <1>0, <1>1, <1>3 DEF IInv, TypeOK, Places
<1>5. pc'[e] = "announcing"
    BY <1>0, <1>1 DEF IInv, TypeOK
<1>6. OnlyMoves(e)
    BY <1>1, <1>5 DEF IInv, TypeOK, OnlyMoves, Changing, ArgFits
<1>a. HostAsked' <=> HostAsked
    BY <1>1, <1>5, <1>6 DEF HostAsked, OnlyMoves, Users
<1>7. FileMove(e)
    BY <1>0, <1>1, <1>a, <1>3, <1>5, <1>6, Begun DEF FileMove, IInv, TypeOK, HostsFit, Changing
<1>8. ASSUME ~torn', svc.ready
      PROVE  Done(Platform, svc', sinks')
    <2>1. Platform \ arg[e].left = Platform /\ Platform \in SUBSET AllSinks
        BY <1>1, SinksAssumption
    <2>2. Done(Platform \ arg[e].left, svc, sinks)
        BY <1>1, <1>8 DEF IInv, ListsFollow
    <2>3. Done(Platform, svc, sinks)
        BY <2>1, <2>2
    <2>4. Done(Platform, svc', sinks)
        BY <1>3, <2>1, <2>3, SameServiceFacts DEF IInv, TypeOK
    <2> QED BY <1>1, <2>4
<1>9. OpenFits(sinks')
    BY <1>1 DEF IInv, ListsFollow
<1>10. ListsFollow'
    BY <1>1, <1>3, <1>5, <1>7, <1>8, <1>9, FileListsFollow
<1> QED BY <1>4, <1>7, <1>10, FileStep DEF IInv

LEMMA AnnounceInv ==
    ASSUME IInv, NEW e \in Engines, Announce(e)
    PROVE  IInv'
<1>0. e \in Users
    BY DEF Users
<1>1. /\ pc[e] = "announcing" /\ arg[e] \in FileCalls
      /\ cachedFlags' = arg[e].sum
      /\ arg' = [arg EXCEPT ![e] = NoCall]
      /\ pc' = [pc EXCEPT ![e] = "up"]
      /\ UNCHANGED <<svc, sinks, torn, sInit, initCount, csHolder, methodLevel, calls>>
    BY <1>0 DEF Announce, Goto, IInv, CallsFit, ArgFits, Changing
<1>2. TypeOK'
    BY <1>0, <1>1 DEF IInv, TypeOK, Places, FileCalls
<1>3. pc'[e] = "up"
    BY <1>0, <1>1 DEF IInv, TypeOK
<1>4. OnlyMoves(e)
    BY <1>0, <1>1, <1>3 DEF IInv, TypeOK, OnlyMoves, Changing, ArgFits
<1>a. HostAsked' <=> HostAsked
    BY <1>1, <1>3, <1>4 DEF HostAsked, OnlyMoves, Users
<1>5. FileMove(e)
    BY <1>0, <1>1, <1>a, <1>3, <1>4, Begun DEF FileMove, SameService, IInv, TypeOK, HostsFit, Changing
<1>6. ~torn' /\ svc.ready => Done(Platform, svc', sinks') /\ cachedFlags' = svc'.effective
    BY <1>1 DEF IInv, ListsFollow
<1>7. OpenFits(sinks')
    BY <1>1 DEF IInv, ListsFollow
<1>8. ListsFollow'
    BY <1>3, <1>5, <1>6, <1>7, FileListsFollow
<1> QED BY <1>2, <1>5, <1>8, FileStep DEF IInv

-----------------------------------------------------------------------------
(* The invariant holds.                                                      *)

LEMMA InitInv == Init => IInv
<1> SUFFICES ASSUME Init PROVE IInv
    OBVIOUS
<1> USE DEF Init
<1>1. svc \in Services
    BY UsersAssumption DEF Services, Flags
<1>a. torn \in BOOLEAN
    BY Zenon
<1>2. TypeOK
    BY <1>1, <1>a, NoSinksType, BoundsAssumption DEF TypeOK, Flags, Places
<1>3. CallsFit
    BY DEF CallsFit, ArgFits, Changing
<1>4. LockHeld
    BY UsersAssumption DEF LockHeld
<1>5. ServiceFits
    BY DEF ServiceFits
<1>6. MethodsFit
    <2>1. svc.method = {l \in Levels : svc.wanted[l] # {}}
        OBVIOUS
    <2>2. \A e \in Engines : pc[e] = "none"
        BY DEF Users
    <2>3. \A e \in Engines, g \in Methods : methodLevel[<<e, g>>] = Unset
        OBVIOUS
    <2> QED BY <2>1, <2>2, <2>3 DEF MethodsFit
<1>7. \A l \in Levels : sinks.to[l] = {}
    BY DEF NoSinks
<1>8. HostsFit
    BY <1>7 DEF HostsFit, HostFits, HostMayFit
<1>9. AttachAlone
    BY DEF AttachAlone, Users, Changing
<1>10. OpenFits(sinks)
    BY DEF OpenFits, NoSinks
<1>11. ListsFollow
    BY <1>10 DEF ListsFollow
<1> QED BY <1>2, <1>3, <1>4, <1>5, <1>6, <1>8, <1>9, <1>11 DEF IInv

LEMMA EngineEndsInv ==
    ASSUME IInv, NEW e \in Engines, EngineEnds(e)
    PROVE  IInv'
<1>0. e \in Users
    BY DEF Users
<1>1. CASE ReleaseHost(e)
    BY <1>1, ReleaseHostInv
<1>2. CASE Uncount(e, "hostless", "lastInShutdown", "shut")
    <2>1. QuietAction(e)
        BY <1>0, <1>2, UncountQuiet DEF Ends
    <2> QED BY <1>0, <2>1, QuietActionInv
<1>3. CASE LastOut(e, "lastInShutdown", "shut")
    BY <1>0, <1>3, LastOutInv DEF Ends
<1>4. CASE Uncount(e, "shut", "lastInDestructor", "gone")
    <2>1. QuietAction(e)
        BY <1>0, <1>4, UncountQuiet DEF Ends
    <2> QED BY <1>0, <2>1, QuietActionInv
<1>5. CASE LastOut(e, "lastInDestructor", "gone")
    BY <1>0, <1>5, LastOutInv DEF Ends
<1> QED BY <1>1, <1>2, <1>3, <1>4, <1>5 DEF EngineEnds

LEMMA WrapperEndsInv ==
    ASSUME IInv, NEW w \in Wrappers, WrapperEnds(w)
    PROVE  IInv'
<1>0. w \in Users /\ w \notin Engines
    BY UsersAssumption DEF Users
<1>1. CASE Uncount(w, "up", "lastWrapper", "gone")
    <2>1. QuietAction(w)
        BY <1>0, <1>1, UncountQuiet DEF Ends
    <2> QED BY <1>0, <2>1, QuietActionInv
<1>2. CASE LastOut(w, "lastWrapper", "gone")
    BY <1>0, <1>2, LastOutInv DEF Ends
<1> QED BY <1>1, <1>2 DEF WrapperEnds

LEMMA NextInv == IInv /\ [Next]_vars => IInv'
<1> SUFFICES ASSUME IInv, [Next]_vars PROVE IInv'
    OBVIOUS
<1>1. ASSUME NEW u \in Users, Construct(u) PROVE IInv'
    BY <1>1, ConstructFirstInv, ConstructQuiet, QuietActionInv
<1>2. ASSUME NEW u \in Users, Count(u) \/ Call(u) \/ LogLocked(u) \/ WriteSink(u) \/ ListChanges(u) PROVE IInv'
    BY <1>2, CountQuiet, CallQuiet, LogLockedQuiet, WriteSinkQuiet, ListChangesQuiet, QuietActionInv
<1>3. ASSUME NEW u \in Users, CallLocked(u) PROVE IInv'
    BY <1>3, CallLockedInv
<1>4. ASSUME NEW e \in Engines, EngineEnds(e) PROVE IInv'
    BY <1>4, EngineEndsInv
<1>5. ASSUME NEW e \in Engines,
             SetLogFile(e) \/ ResetNext(e) \/ AskHost(e) \/ HostAnswers(e) \/ Publish(e) \/ Announce(e)
      PROVE  IInv'
    BY <1>5, SetLogFileInv, ResetNextInv, AskHostInv, HostAnswersInv, PublishInv, AnnounceInv
<1>6. ASSUME NEW w \in Wrappers, WrapperEnds(w) PROVE IInv'
    BY <1>6, WrapperEndsInv
<1>7. ASSUME NEW e \in Engines, NEW g \in Methods, AddMethod(e, g) PROVE IInv'
    BY <1>7, AddMethodInv
<1>8. ASSUME NEW u \in Users, NEW l \in Levels, LogEntry(u, l) PROVE IInv'
    <2>1. QuietAction(u)
        BY <1>8, LogQuiet DEF LogEntry
    <2> QED BY <2>1, QuietActionInv
<1>9. ASSUME NEW e \in Engines, NEW g \in Methods, NEW l \in Levels, LogMethodEntry(e, g, l) PROVE IInv'
    <2>1. e \in Users
        BY DEF Users
    <2>2. QuietAction(e)
        BY <1>9, <2>1, LogQuiet DEF LogMethodEntry
    <2> QED BY <2>1, <2>2, QuietActionInv
<1>10. CASE UNCHANGED vars
    <2>1. UNCHANGED <<sInit, initCount, cachedFlags, svc, sinks, torn, csHolder, pc, arg, methodLevel, calls>>
        BY <1>10 DEF vars
    <2>2. TypeOK'
        BY <2>1 DEF IInv, TypeOK
    <2>3. CallsFit' /\ LockHeld' /\ AttachAlone'
        BY <2>1 DEF IInv, CallsFit, ArgFits, LockHeld, AttachAlone
    <2>4. ServiceFits'
        BY <2>1 DEF IInv, ServiceFits
    <2>5. MethodsFit'
        BY <2>1 DEF IInv, MethodsFit, ToldSoon
    <2>6. HostsFit'
        BY <2>1 DEF IInv, HostsFit, HostThere, HostAsked
    <2>7. ListsFollow'
        BY <2>1 DEF IInv, ListsFollow, Settled
    <2> QED BY <2>2, <2>3, <2>4, <2>5, <2>6, <2>7 DEF IInv
<1> QED BY <1>1, <1>2, <1>3, <1>4, <1>5, <1>6, <1>7, <1>8, <1>9, <1>10 DEF Next

LEMMA InvHolds == Spec => []IInv
<1>1. Init => IInv
    BY InitInv
<1>2. IInv /\ [Next]_vars => IInv'
    BY NextInv
<1> QED BY <1>1, <1>2, PTL DEF Spec

-----------------------------------------------------------------------------
(* The theorems.                                                             *)

\* After CLoggerService::Shutdown nothing is open and no list names a sink, also when a call that had passed its tests
\* before gets m_cs after it, and when an engine is in SetLogFilePath.
THEOREM ShutdownReleases == Spec => []ReleasedForGood
<1>1. IInv => ReleasedForGood
    BY DEF IInv, ServiceFits, ReleasedForGood, NoSinks
<1> QED BY <1>1, InvHolds, PTL

LEMMA WouldTakeWants == \A s \in AllSinks : WouldTake(s) = Wants(s, svc, sinks)
BY DEF WouldTake, Wants, AllSinks

\* What a method logs with its prefix on a level of its environment variable passes LogMessageInternal and
\* AllowLogEntry, and gets to every sink that is willing, whatever other methods, engines and calls there are.
THEOREM MethodsAreHeard == Spec => []MethodHeard
<1>1. ASSUME IInv, NEW e \in Engines, NEW g \in Methods, svc.ready, Told(e, g), NEW l \in EnvMethodLevel[g]
      PROVE  /\ l \in methodLevel[<<e, g>>] /\ AllowLogEntry(l)
             /\ Settled /\ ~torn /\ ~sinks.failed => \A s \in Platform : Willing(s, l) => s \in sinks.to[l]
    <2>0. methodLevel[<<e, g>>] # Unset /\ EnvMethodLevel[g] # Unset /\ ~ToldSoon(e, g)
        BY <1>1 DEF Told, ToldSoon
    <2>1. g \in svc.wanted[l] /\ l \in methodLevel[<<e, g>>]
        BY <1>1, <2>0 DEF IInv, MethodsFit
    <2>2. l \in Levels
        BY <1>1, <2>0, LevelsAssumption DEF Flags
    <2>3. l \in svc.method
        BY <1>1, <2>1, <2>2 DEF IInv, MethodsFit
    <2>4. AllowLogEntry(l)
        BY <1>1, <2>3 DEF AllowLogEntry
    <2>5. ASSUME Settled, ~torn, ~sinks.failed, NEW s \in Platform, Willing(s, l)
          PROVE  s \in sinks.to[l]
        <3>1. s \in AllSinks
            BY SinksAssumption
        <3>2. sinks.to[l] = {t \in Platform : l \in Wants(t, svc, sinks)}
            BY <1>1, <2>2, <2>5 DEF IInv, ListsFollow, Done
        <3>3. l \in Wants(s, svc, sinks)
            BY <2>3, <2>5, <3>1 DEF Willing, Wants, AllSinks
        <3> QED BY <3>2, <3>3
    <2> QED BY <2>1, <2>4, <2>5
<1>2. IInv => MethodHeard
    BY <1>1 DEF MethodHeard
<1> QED BY <1>2, InvHolds, PTL

\* No entry reaches a host that an engine has given up, and CHostLoggerSink is not called without a host, unless an
\* engine that changes the log file is in GetLoggingHost.
THEOREM HostIsSilent == Spec => []HostSilent
<1>1. ASSUME IInv, NEW e \in Engines, pc[e] \notin Live, sinks.host = e
      PROVE  /\ \A l \in Levels : "host" \notin sinks.to[l]
             /\ \A u \in Users : pc[u] = "writing" => "host" \notin arg[u].left
    <2>1. e # NoHost
        BY UsersAssumption DEF Users
    <2>2. ~(svc.ready /\ svc.host # NoHost /\ sinks.host \in {svc.host, NoHost})
        BY <1>1, <2>1 DEF IInv, HostsFit
    <2> QED BY <1>1, <2>2 DEF IInv, HostsFit, HostMayFit, HostThere
<1>2. ASSUME IInv
      PROVE  \A u \in Users : pc[u] = "writing" /\ "host" \in arg[u].left => sinks.host # NoHost \/ HostAsked
    BY <1>2 DEF IInv, HostsFit, HostThere
<1>3. IInv => HostSilent
    BY <1>1, <1>2 DEF HostSilent, Live
<1> QED BY <1>3, InvHolds, PTL

\* The lists and the cached flags are those of the sinks' present answers whenever no change of the log file is in
\* progress and none has overlapped with another change since they were last set right.
THEOREM ListsAreFresh == Spec => []ListsFresh
<1>1. ASSUME IInv, svc.ready, Settled, ~torn, ~sinks.failed, NEW l \in Levels
      PROVE  sinks.to[l] = {s \in Platform : l \in WouldTake(s)}
    <2>1. sinks.to[l] = {s \in Platform : l \in Wants(s, svc, sinks)}
        BY <1>1 DEF IInv, ListsFollow, Done
    <2> QED BY <2>1, WouldTakeWants, SinksAssumption
<1>2. ASSUME IInv, svc.ready, Settled, ~torn
      PROVE  cachedFlags = svc.effective
    BY <1>2 DEF IInv, ListsFollow
<1>3. IInv => ListsFresh
    BY <1>1, <1>2 DEF ListsFresh
<1> QED BY <1>3, InvHolds, PTL

=============================================================================
