---------------------------- MODULE ProfilerProxy ----------------------------
(* The profiler proxy, which CLRs load in place of an engine: it looks for the  *)
(* newest engine among the folders of the installed versions, loads it and      *)
(* forwards to it. Installers put folders there and take them away meanwhile.   *)
EXTENDS Integers, Sequences, FiniteSets

CONSTANTS
    Versions,   \* the versions there may be folders of: records of Version
    MaxObjects, \* bound on the class objects that are held
    Null

\* 1.<minor>.<patch>, then -build<build> for a preview, then _Debug.
Version == [minor : Nat, patch : Nat, preview : BOOLEAN, build : Nat, debug : BOOLEAN]

VARIABLES
    installed,  \* the folders that hold an engine
    env,        \* UseDebug, UsePreview, UseSpecificVersion
    phase,      \* of the thread in g_criticalSection
    listing,    \* the folders FindNextFile has yet to return
    latest,     \* pLatestVersionFolder, or the folder chosen
    profiler,   \* g_hProfiler
    objects,    \* how many objects of the engine are held
    met         \* history: the folders that the last search has considered

scanVars == <<phase, listing, latest, met>>
vars == <<installed, env, scanVars, profiler, objects>>

-----------------------------------------------------------------------------
(* Versions.                                                                 *)

\* The characters of a version, in the order of their codes.
Dash == 0
Dot == 1
Digit(d) == 2 + d
Underscore == 12

Numeral(n) ==
    LET Digits[k \in 0 .. n] == IF k < 10 THEN <<Digit(k)>> ELSE Append(Digits[k \div 10], Digit(k % 10))
    IN  Digits[n]

\* m_semanticVersionStr and m_versionStr, without the "1." that all have.
SemanticVersion(v) == Numeral(v.minor) \o <<Dot>> \o Numeral(v.patch)
VersionString(v) ==
    SemanticVersion(v)
        \o (IF v.preview THEN <<Dash>> \o Numeral(v.build) ELSE <<>>)
        \o (IF v.debug THEN <<Underscore>> ELSE <<>>)

\* wstring::compare(s, t) < 0.
StringLess(s, t) ==
    \/ Len(s) < Len(t) /\ s = SubSeq(t, 1, Len(s))
    \/ \E i \in 1 .. Len(s) :
          /\ i <= Len(t)
          /\ SubSeq(s, 1, i - 1) = SubSeq(t, 1, i - 1)
          /\ s[i] < t[i]

\* InstrumentationEngineVersion::Compare(v, w) < 0.
Compare(v, w) ==
    IF SemanticVersion(v) = SemanticVersion(w) /\ v.preview # w.preview
    THEN StringLess(VersionString(w), VersionString(v))
    ELSE StringLess(VersionString(v), VersionString(w))

-----------------------------------------------------------------------------
(* The search.                                                               *)

IsConsidered(v) ==
    /\ v.debug = env.useDebug
    /\ v.preview => env.usePreview
    /\ v \in installed

\* DllGetClassObject enters and finds no engine: LoadProfiler, with no version given.
BeginSearch ==
    /\ phase = "outside" /\ profiler = Null
    /\ ~env.useSpecific
    /\ phase' = "searching"
    /\ listing' = installed
    /\ latest' = Null
    /\ met' = {}
    /\ UNCHANGED <<installed, env, profiler, objects>>

\* With a version given: GetEnvironmentVariable is told of one character only and leaves
\* the buffer as it was. Whatever the stack holds is looked for.
TakeSpecificVersion ==
    /\ phase = "outside" /\ profiler = Null
    /\ env.useSpecific
    /\ \E v \in Versions \cup {Null} :
          IF v \in installed
          THEN phase' = "found" /\ latest' = v
          ELSE phase' = "outside" /\ latest' = Null
    /\ met' = {}
    /\ UNCHANGED <<installed, env, listing, profiler, objects>>

\* A round of the loop in GetLatestVersionFolder.
Examine(v) ==
    /\ phase = "searching"
    /\ v \in listing
    /\ listing' = listing \ {v}
    /\ IF IsConsidered(v)
       THEN /\ met' = met \cup {v}
            /\ latest' = IF latest = Null \/ Compare(latest, v) THEN v ELSE latest
       ELSE UNCHANGED <<met, latest>>
    /\ UNCHANGED <<installed, env, phase, profiler, objects>>

\* FindNextFile is at its end, or fails before; without a result the call is over.
EndSearch(fails) ==
    /\ phase = "searching"
    /\ fails \/ listing = {}
    /\ phase' = IF fails \/ latest = Null THEN "outside" ELSE "found"
    /\ listing' = {}
    /\ UNCHANGED <<installed, env, latest, met, profiler, objects>>

\* LoadLibrary; a folder may be gone, a library may not load.
LoadLibrary(loads) ==
    /\ phase = "found"
    /\ loads => latest \in installed
    /\ IF loads THEN profiler' = latest /\ phase' = "loaded" ELSE phase' = "outside" /\ UNCHANGED profiler
    /\ UNCHANGED <<installed, env, listing, latest, met, objects>>

\* The call is forwarded. The engine may refuse the class; the proxy returns S_OK anyhow.
ForwardGetClassObject(gives) ==
    /\ phase = "loaded" \/ (phase = "outside" /\ profiler # Null)
    /\ gives => objects < MaxObjects
    /\ phase' = "outside"
    /\ objects' = IF gives THEN objects + 1 ELSE objects
    /\ UNCHANGED <<installed, env, listing, latest, met, profiler>>

\* DllCanUnloadNow. The engine agrees when none of its objects is held.
DllCanUnloadNow ==
    /\ phase = "outside" /\ profiler # Null
    /\ objects = 0
    /\ profiler' = Null
    /\ UNCHANGED <<installed, env, scanVars, objects>>

-----------------------------------------------------------------------------
(* The environment.                                                          *)

ReleaseObject ==
    /\ objects > 0
    /\ objects' = objects - 1
    /\ UNCHANGED <<installed, env, scanVars, profiler>>

\* An enumeration that is under way may come across a new folder or not.
Install(v) ==
    /\ v \notin installed
    /\ installed' = installed \cup {v}
    /\ listing' \in {listing} \cup (IF phase = "searching" THEN {listing \cup {v}} ELSE {})
    /\ UNCHANGED <<env, phase, latest, met, profiler, objects>>

\* A folder whose library is loaded stays.
Uninstall(v) ==
    /\ v \in installed /\ v # profiler
    /\ installed' = installed \ {v}
    /\ UNCHANGED <<env, scanVars, profiler, objects>>

Init ==
    /\ installed \in SUBSET Versions
    /\ env \in [useDebug : BOOLEAN, usePreview : BOOLEAN, useSpecific : BOOLEAN]
    /\ phase = "outside"
    /\ listing = {} /\ latest = Null /\ met = {}
    /\ profiler = Null
    /\ objects = 0

Next ==
    \/ BeginSearch
    \/ TakeSpecificVersion
    \/ \E v \in Versions : Examine(v)
    \/ \E fails \in BOOLEAN : EndSearch(fails)
    \/ \E loads \in BOOLEAN : LoadLibrary(loads)
    \/ \E gives \in BOOLEAN : ForwardGetClassObject(gives)
    \/ DllCanUnloadNow
    \/ ReleaseObject
    \/ \E v \in Versions : Install(v) \/ Uninstall(v)

Spec == Init /\ [][Next]_vars

-----------------------------------------------------------------------------
(* Properties.                                                               *)

\* The order of the releases: by number, and a preview comes before its release.
Newer(v, w) ==
    \/ v.minor > w.minor
    \/ v.minor = w.minor /\ v.patch > w.patch
    \/ v.minor = w.minor /\ v.patch = w.patch /\ ~v.preview /\ w.preview

\* LoadProfiler, "determines the latest profiler's path": the engine that is loaded is
\* the newest of those which the search came across. (It does not hold: see Compare.)
LoadsLatest ==
    phase = "loaded" => \A v \in met : ~Newer(v, profiler)
=============================================================================
