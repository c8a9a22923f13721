-------------------- MODULE InstrumentationMethods_proofs --------------------
(* Proofs about InstrumentationMethods for any number of methods, threads and *)
(* flags.                                                                     *)
EXTENDS InstrumentationMethods, NaturalsLemmas, SequenceTheorems

-----------------------------------------------------------------------------
(* The insertion loop.                                                       *)

Ordered(list) ==
    \A i, j \in DOMAIN list : i < j => Priority[list[i].im] <= Priority[list[j].im]

\* The scan for the first method with a greater priority ends at some position.
LEMMA InsertPositionExists ==
    ASSUME NEW list \in Seq(Entry), NEW m \in Methods
    PROVE  LET p == InsertPosition(list, m)
           IN  /\ p \in 1..(Len(list) + 1)
               /\ p <= Len(list) => Priority[list[p].im] > Priority[m]
               /\ \A q \in 1..(p - 1) : Priority[list[q].im] <= Priority[m]
<1> DEFINE Greater == {p \in 1..Len(list) : Priority[list[p].im] > Priority[m]}
           IsPosition(p) == /\ p <= Len(list) => Priority[list[p].im] > Priority[m]
                            /\ \A q \in 1..(p - 1) : Priority[list[q].im] <= Priority[m]
<1>0. \A q \in 1..Len(list) : list[q] \in Entry
    OBVIOUS
<1>1. \A q \in 1..Len(list) : Priority[list[q].im] \in Nat
    BY <1>0, MethodsAssumption DEF Entry
<1>2. Priority[m] \in Nat
    BY MethodsAssumption
<1>3. \E p \in 1..(Len(list) + 1) : IsPosition(p)
    <2>1. CASE Greater = {}
        <3>1. \A q \in 1..Len(list) : Priority[list[q].im] <= Priority[m]
            BY <2>1, <1>1, <1>2
        <3>2. IsPosition(Len(list) + 1)
            BY <3>1
        <3> QED BY <3>2
    <2>2. CASE Greater # {}
        <3>1. PICK p \in Greater : \A y \in Greater : p <= y
            <4>1. Greater \subseteq Nat
                OBVIOUS
            <4> HIDE DEF Greater
            <4> QED BY <2>2, <4>1, LeastNatural
        <3>2. \A q \in 1..(p - 1) : q \in 1..Len(list) /\ q \notin Greater
            BY <3>1
        <3>3. IsPosition(p)
            BY <3>1, <3>2, <1>1, <1>2
        <3> QED BY <3>1, <3>3
    <2> QED BY <2>1, <2>2
<1> QED BY <1>3 DEF InsertPosition

\* Inserting a method keeps the list a list of entries ordered by priority.
LEMMA InsertKeepsOrder ==
    ASSUME NEW list \in Seq(Entry), NEW m \in Methods, NEW flags \in SUBSET Flags,
           Ordered(list)
    PROVE  /\ InsertByPriority(list, m, flags) \in Seq(Entry)
           /\ Ordered(InsertByPriority(list, m, flags))
           /\ \A i \in DOMAIN InsertByPriority(list, m, flags) :
                 \/ InsertByPriority(list, m, flags)[i] = [im |-> m, flags |-> flags]
                 \/ \E k \in DOMAIN list : InsertByPriority(list, m, flags)[i] = list[k]
<1> USE DEF Ordered
<1> DEFINE p == InsertPosition(list, m)
           new == InsertByPriority(list, m, flags)
           n == Len(list)
<1>1. /\ p \in 1..(n + 1)
      /\ p <= n => Priority[list[p].im] > Priority[m]
      /\ \A q \in 1..(p - 1) : Priority[list[q].im] <= Priority[m]
    BY InsertPositionExists
<1>2. \A q \in 1..n : list[q] \in Entry /\ Priority[list[q].im] \in Nat
    <2>1. \A q \in 1..n : list[q] \in Entry
        OBVIOUS
    <2> QED BY <2>1, MethodsAssumption DEF Entry
<1>3. n \in Nat /\ Priority[m] \in Nat /\ DOMAIN list = 1..n
    BY MethodsAssumption
<1> HIDE DEF p
<1>4. new = [i \in 1..(n + 1) |-> IF i < p THEN list[i]
                                 ELSE IF i = p THEN [im |-> m, flags |-> flags]
                                 ELSE list[i - 1]]
    BY DEF InsertByPriority, p
<1>5. [im |-> m, flags |-> flags] \in Entry
    BY DEF Entry
<1>6. new \in [1..(n + 1) -> Entry]
    BY <1>1, <1>2, <1>3, <1>4, <1>5
<1> HIDE DEF new
<1>7. new \in Seq(Entry) /\ DOMAIN new = 1..(n + 1)
    BY <1>6, <1>3
<1>8. \A i, j \in 1..(n + 1) : i < j => Priority[new[i].im] <= Priority[new[j].im]
    <2> SUFFICES ASSUME NEW i \in 1..(n + 1), NEW j \in 1..(n + 1), i < j
                 PROVE  Priority[new[i].im] <= Priority[new[j].im]
        OBVIOUS
    <2>0. \A x \in 1..n : p <= x => Priority[m] <= Priority[list[x].im]
        <3> TAKE x \in 1..n
        <3> HAVE p <= x
        <3>1. p \in 1..n /\ Priority[m] < Priority[list[p].im]
            BY <1>1, <1>3, <1>2
        <3>2. Priority[list[p].im] <= Priority[list[x].im]
            BY <3>1, <1>3, <1>2
        <3> QED BY <3>1, <3>2, <1>2, <1>3
    <2>1. CASE j < p
        <3>1. new[i] = list[i] /\ new[j] = list[j] /\ i \in 1..n /\ j \in 1..n
            BY <2>1, <1>4, <1>1, <1>3
        <3> QED BY <3>1, <1>3
    <2>2. CASE j = p
        <3>1. new[i] = list[i] /\ new[j] = [im |-> m, flags |-> flags] /\ i \in 1..(p - 1)
            BY <2>2, <1>4, <1>1, <1>3
        <3> QED BY <3>1, <1>1
    <2>3. CASE j > p /\ i < p
        <3>1. new[i] = list[i] /\ new[j] = list[j - 1] /\ i \in 1..n /\ j - 1 \in 1..n
            BY <2>3, <1>4, <1>1, <1>3
        <3>2. CASE i < j - 1
            BY <3>1, <3>2, <1>3
        <3>3. CASE ~(i < j - 1)
            BY <3>1, <3>3, <1>1, <2>3
        <3> QED BY <3>2, <3>3
    <2>4. CASE j > p /\ i = p
        <3>1. new[i] = [im |-> m, flags |-> flags] /\ new[j] = list[j - 1] /\ j - 1 \in 1..n
            BY <2>4, <1>4, <1>1, <1>3
        <3>2. p <= j - 1
            BY <2>4, <1>1
        <3> QED BY <3>1, <3>2, <2>0
    <2>5. CASE j > p /\ i > p
        <3>1. new[i] = list[i - 1] /\ new[j] = list[j - 1] /\ i - 1 \in 1..n /\ j - 1 \in 1..n
            BY <2>5, <1>4, <1>1, <1>3
        <3> QED BY <3>1, <1>3
    <2> QED BY <2>1, <2>2, <2>3, <2>4, <2>5, <1>1
<1>9. \A i \in 1..(n + 1) : new[i] = [im |-> m, flags |-> flags] \/ \E k \in 1..n : new[i] = list[k]
    <2> TAKE i \in 1..(n + 1)
    <2>1. CASE i < p
        <3>1. new[i] = list[i] /\ i \in 1..n
            BY <2>1, <1>4, <1>1, <1>3
        <3> QED BY <3>1
    <2>2. CASE i = p
        BY <2>2, <1>4
    <2>3. CASE i > p
        <3>1. new[i] = list[i - 1] /\ i - 1 \in 1..n
            BY <2>3, <1>4, <1>1, <1>3
        <3> QED BY <3>1
    <2> QED BY <2>1, <2>2, <2>3, <1>1
<1> QED BY <1>7, <1>8, <1>9, <1>3 DEF new

\* Erasing a method keeps the order and the other entries.
LEMMA WithoutKeepsOrder ==
    ASSUME NEW list \in Seq(Entry), NEW k \in DOMAIN list,
           Ordered(list)
    PROVE  /\ Without(list, k) \in Seq(Entry)
           /\ Ordered(Without(list, k))
           /\ \A i \in DOMAIN Without(list, k) : \E q \in DOMAIN list : Without(list, k)[i] = list[q]
<1> USE DEF Ordered
<1> DEFINE new == Without(list, k)
           n == Len(list)
<1>1. n \in Nat /\ DOMAIN list = 1..n /\ \A q \in 1..n : list[q] \in Entry
    OBVIOUS
<1>2. new = [i \in 1..(n - 1) |-> IF i < k THEN list[i] ELSE list[i + 1]]
    BY DEF Without
<1>3. n - 1 \in Nat /\ new \in [1..(n - 1) -> Entry]
    BY <1>1, <1>2
<1> HIDE DEF new
<1>4. new \in Seq(Entry) /\ DOMAIN new = 1..(n - 1)
    BY <1>3
<1>5. \A i, j \in 1..(n - 1) : i < j => Priority[new[i].im] <= Priority[new[j].im]
    <2> TAKE i, j \in 1..(n - 1)
    <2> HAVE i < j
    <2>1. PICK a \in 1..n, b \in 1..n : a < b /\ new[i] = list[a] /\ new[j] = list[b]
        <3>1. CASE j < k
            <4>1. new[i] = list[i] /\ new[j] = list[j]
                BY <3>1, <1>1, <1>2
            <4> QED BY <4>1, <1>1
        <3>2. CASE ~(j < k) /\ i < k
            <4>1. new[i] = list[i] /\ new[j] = list[j + 1]
                BY <3>2, <1>1, <1>2
            <4> QED BY <4>1, <1>1
        <3>3. CASE ~(i < k)
            <4>1. new[i] = list[i + 1] /\ new[j] = list[j + 1]
                BY <3>3, <1>1, <1>2
            <4> QED BY <4>1, <1>1
        <3> QED BY <3>1, <3>2, <3>3
    <2> QED BY <2>1, <1>1
<1>6. \A i \in 1..(n - 1) : \E q \in 1..n : new[i] = list[q]
    BY <1>1, <1>2
<1> QED BY <1>1, <1>4, <1>5, <1>6 DEF new

\* Popping the last frame leaves the stack empty exactly when it had one frame.
LEMMA FrontEmpty ==
    ASSUME NEW S, NEW s \in Seq(S), s # <<>>
    PROVE  SubSeq(s, 1, Len(s) - 1) = <<>> <=> Len(s) = 1
<1>1. PICK n \in Nat : Len(s) = n + 1
    BY EmptySeq
<1>2. \A i \in 1..n : s[i] \in S
    BY <1>1, LenProperties
<1>3. Len(s) - 1 = n
    BY <1>1
<1>4. CASE n = 0
    BY <1>1, <1>4, SubSeqEmpty
<1>5. CASE n # 0
    <2>1. Len(SubSeq(s, 1, n)) = IF 1 <= n THEN n - 1 + 1 ELSE 0
        BY <1>2, SubSeqProperties
    <2>2. SubSeq(s, 1, n) # <<>>
        BY <1>5, <2>1, EmptySeq
    <2> QED BY <1>1, <1>3, <1>5, <2>2
<1> QED BY <1>4, <1>5

-----------------------------------------------------------------------------
(* The inductive invariant.                                                  *)

\* Before Initialize nobody is inside the engine; the loader holds m_cs only
\* while it adds the method at the head of its list.
LoaderInv ==
    /\ phase = "created" => owner = NoThread /\ loaderPc = "wait"
    /\ owner = Loader => loaderPc = "adding" /\ frames # <<>>
    /\ loaderPc \in {"adding", "record"} => toLoad # <<>>

\* A thread that gives the CLR a mask holds m_cs, and the mask has the flags of
\* the method that is initializing. Nobody is in a call before Initialize.
CallInv ==
    /\ \A t \in Threads : pc[t] = "push" => owner = t /\ (initializing => arg[t].low = initFlags)
    /\ phase = "created" => \A t \in Threads : pc[t] = "idle"
    /\ pc[Loader] # "idle" => owner = Loader

\* An instance is fresh, in one Initialize, or had its chance; the Initialize
\* calls that enclose another one are disturbed.
StackInv ==
    /\ \A i \in DOMAIN frames : frames[i] \notin fresh /\ ~Listed(frames[i])
    /\ \A i, j \in DOMAIN frames : frames[i] = frames[j] => i = j
    /\ \A i \in DOMAIN frames : i < Len(frames) => frames[i] \in disturbed
    /\ \A i \in DOMAIN methods : methods[i].im \notin fresh
    /\ \A m \in fresh : asked[m] = {} /\ granted[m] = {} /\ m \notin disturbed

Top == frames[Len(frames)]

\* The innermost Initialize owns the flags that are collected, unless it was disturbed.
TopInv ==
    /\ ~initializing => initFlags = {}
    /\ frames = <<>> => ~initializing
    /\ frames # <<>> /\ Top \notin disturbed =>
          initializing /\ initFlags = asked[Top] /\ granted[Top] \subseteq clrMask \cap asked[Top]

\* OwnFlags and SubscriptionsKept, of one entry and of the host: what was granted
\* is in what the next mask is made of.
EntryInv(e) ==
    e.im \notin disturbed => e.flags = asked[e.im] /\ granted[e.im] \subseteq clrMask \cap e.flags

HostInv ==
    /\ granted[Host] \subseteq clrMask \cap asked[Host]
    /\ asked[Host] \subseteq eventMask
    /\ disturbed = {} => eventMask = DefaultMask \cup asked[Host]

FlagsInv == StackInv /\ TopInv /\ HostInv /\ \A i \in DOMAIN methods : EntryInv(methods[i])

IInv == TypeOK /\ PriorityOrder /\ LoaderInv /\ CallInv /\ FlagsInv

USE MethodsAssumption, ThreadsAssumption, FlagsAssumption, HooksAssumption

LEMMA InitInv == Init => IInv
<1> SUFFICES ASSUME Init PROVE IInv
    OBVIOUS
<1>1. NoCall \in Call
    BY DEF NoCall, Call
<1>2. TypeOK
    <2>1. frames \in Seq(Methods) /\ methods \in Seq(Entry) /\ toLoad \in Seq(Methods)
        BY DEF Init
    <2>2. /\ arg \in [Threads -> Call] /\ pc \in [Threads -> {"idle", "high", "low", "push", "hook"}]
          /\ \A t \in Threads : pc[t] # "push"
        BY <1>1 DEF Init
    <2>3. disabled \in BOOLEAN /\ initializing \in BOOLEAN
        BY DEF Init
    <2>4. asked \in [Askers -> SUBSET Flags] /\ granted \in [Askers -> SUBSET Flags]
        BY DEF Init
    <2> QED BY <2>1, <2>2, <2>3, <2>4 DEF Init, TypeOK
<1>3. PriorityOrder /\ LoaderInv /\ CallInv
    BY DEF Init, PriorityOrder, LoaderInv, CallInv
<1>4. FlagsInv
    <2>1. DOMAIN frames = {} /\ DOMAIN methods = {}
        BY DEF Init
    <2>2. \A x \in Askers : asked[x] = {} /\ granted[x] = {}
        BY DEF Init
    <2>3. StackInv
        BY <2>1, <2>2 DEF Init, StackInv, Askers
    <2>4. TopInv /\ HostInv
        BY <2>2 DEF Init, TopInv, HostInv, Askers
    <2> QED BY <2>1, <2>3, <2>4 DEF FlagsInv
<1> QED BY <1>2, <1>3, <1>4 DEF IInv

\* A mask made of flags is a set of flags and has those of every entry.
LEMMA MaskFacts ==
    ASSUME NEW list \in Seq(Entry), NEW mask \in SUBSET Flags, NEW add \in SUBSET Flags
    PROVE  /\ CalculateEventMask(mask, list, add) \in SUBSET Flags
           /\ mask \cup add \subseteq CalculateEventMask(mask, list, add)
           /\ \A i \in DOMAIN list : list[i].flags \subseteq CalculateEventMask(mask, list, add)
<1>1. \A i \in DOMAIN list : list[i] \in Entry
    OBVIOUS
<1> QED BY <1>1 DEF CalculateEventMask, Entry

\* Who makes a call.
LEMMA AskerFacts ==
    ASSUME TypeOK
    PROVE  /\ Asker \in Askers
           /\ frames = <<>> => Asker = Host
           /\ frames # <<>> => Asker = Top /\ Top \in Methods /\ Len(frames) \in DOMAIN frames /\ Asker # Host
<1>1. frames \in Seq(Methods)
    BY DEF TypeOK
<1>2. frames # <<>> => Len(frames) \in DOMAIN frames /\ Top \in Methods
    BY <1>1 DEF Top
<1> QED BY <1>2 DEF Asker, Askers, Top

\* Before a caller takes m_cs nobody else gives the CLR a mask.
LEMMA NobodyPushes ==
    ASSUME IInv, NEW t \in Threads, CanLock(t), pc[t] # "push"
    PROVE  \A u \in Threads : pc[u] # "push"
    BY DEF IInv, TypeOK, CallInv, CanLock

\* Steps that leave the list, the flags and the calls alone keep what relates them.
LEMMA FlagsKept ==
    ASSUME FlagsInv,
           UNCHANGED <<frames, fresh, methods, initializing, initFlags, eventMask, clrMask, asked, granted, disturbed>>
    PROVE  FlagsInv'
    BY DEF FlagsInv, StackInv, TopInv, HostInv, EntryInv, Top, Listed

-----------------------------------------------------------------------------
(* SetEventMask.                                                             *)

\* SetEventMask up to the call of the CLR, from either of its callers.
LEMMA BeginsKeeps ==
    ASSUME IInv, NEW t \in Threads, NEW mask \in SUBSET Flags, SetEventMaskBegins(t, mask),
           pc[t] # "push", phase # "created", t = Loader => owner = Loader
    PROVE  IInv'
<1> USE DEF SetEventMaskBegins
<1>0. /\ TypeOK /\ LoaderInv /\ CallInv /\ StackInv /\ TopInv /\ HostInv
      /\ \A i \in DOMAIN methods : EntryInv(methods[i])
      /\ \A i \in DOMAIN methods : methods[i] \in Entry
    BY DEF IInv, FlagsInv, TypeOK
<1>1. /\ Asker \in Askers /\ (frames = <<>> => Asker = Host)
      /\ frames # <<>> => Asker = Top /\ Top \in Methods /\ Len(frames) \in DOMAIN frames /\ Asker # Host
    BY <1>0, AskerFacts
<1>2. \A u \in Threads : pc[u] # "push"
    BY NobodyPushes
<1>3. /\ asked' \in [Askers -> SUBSET Flags] /\ granted' \in [Askers -> SUBSET Flags]
      /\ \A x \in Askers : x # Asker => asked'[x] = asked[x] /\ granted'[x] = granted[x]
      /\ Asker = Host => asked'[Host] = asked[Host] \cup mask /\ granted'[Host] = granted[Host]
      /\ Asker # Host => asked'[Asker] = mask /\ granted'[Asker] = {}
    BY <1>0, <1>1 DEF TypeOK, AskedBy
<1>4. arg' \in [Threads -> Call] /\ (initializing => arg'[t].low = mask)
    <2>1. NoCall \in Call /\ [NoCall EXCEPT !.low = mask] \in Call /\ [NoCall EXCEPT !.low = mask].low = mask
        BY DEF NoCall, Call
    <2> QED BY <1>0, <2>1 DEF TypeOK
<1>5. /\ pc' \in [Threads -> {"idle", "high", "low", "push", "hook"}] /\ pc'[t] = "push" /\ owner' = t
      /\ \A u \in Threads : u # t => pc'[u] = pc[u]
    BY <1>0 DEF TypeOK
<1>6. /\ UNCHANGED <<phase, disabled, loaderPc, toLoad, fresh, methods, guids, frames, initializing, clrMask, clrHigh,
                    disturbed, eventMaskHigh, hook>>
      /\ initializing => initFlags' = mask /\ eventMask' = eventMask
      /\ ~initializing => eventMask' = eventMask \cup mask /\ initFlags' = initFlags
    BY DEF loadVars, listVars
<1> HIDE DEF SetEventMaskBegins
<1>7. TypeOK'
    <2>1. initFlags' \subseteq Flags /\ eventMask' \subseteq Flags /\ owner' \in Threads
        BY <1>0, <1>5, <1>6 DEF TypeOK
    <2> QED BY <1>0, <1>3, <1>4, <1>5, <1>6, <2>1 DEF TypeOK
<1>8. PriorityOrder' /\ LoaderInv'
    BY <1>0, <1>5, <1>6 DEF IInv, PriorityOrder, LoaderInv
<1>9. CallInv'
    <2>1. t # Loader => pc[Loader] = "idle"
        BY <1>0 DEF CallInv, CanLock, SetEventMaskBegins
    <2> QED BY <1>0, <1>2, <1>4, <1>5, <1>6, <2>1 DEF CallInv
<1>10. Asker \notin fresh /\ \A i \in DOMAIN methods : methods[i].im # Asker
    <2>1. CASE frames = <<>>
        BY <1>0, <1>1, <2>1 DEF Entry, TypeOK
    <2>2. CASE frames # <<>>
        BY <1>0, <1>1, <2>2 DEF StackInv, Listed, Top
    <2> QED BY <2>1, <2>2
<1>11. StackInv'
    <2>1. \A m \in fresh : m \in Askers /\ m # Asker
        BY <1>0, <1>10 DEF TypeOK, Askers
    <2> QED BY <1>0, <1>3, <1>6, <2>1 DEF StackInv, Listed
<1>12. TopInv'
    <2>1. CASE frames = <<>>
        BY <1>0, <1>6, <2>1 DEF TopInv
    <2>2. CASE frames # <<>>
        BY <1>0, <1>1, <1>3, <1>6, <2>2 DEF TopInv, Top
    <2> QED BY <2>1, <2>2
<1>13. HostInv'
    <2>1. CASE frames = <<>>
        BY <1>0, <1>1, <1>3, <1>6, <2>1 DEF HostInv, TopInv
    <2>2. CASE frames # <<>>
        <3>1. asked'[Host] = asked[Host] /\ granted'[Host] = granted[Host]
            BY <1>1, <1>3, <2>2 DEF Askers
        <3>2. ~initializing => disturbed # {}
            BY <1>0, <2>2 DEF TopInv
        <3> QED BY <1>0, <1>6, <3>1, <3>2 DEF HostInv
    <2> QED BY <2>1, <2>2
<1>14. ASSUME NEW i \in DOMAIN methods' PROVE EntryInv(methods[i])'
    <2>1. i \in DOMAIN methods /\ methods[i].im \in Askers /\ methods[i].im # Asker
        BY <1>0, <1>6, <1>10, <1>14 DEF Entry, Askers
    <2> QED BY <1>0, <1>3, <1>6, <2>1 DEF EntryInv
<1> QED BY <1>7, <1>8, <1>9, <1>11, <1>12, <1>13, <1>14 DEF IInv, FlagsInv

\* SetEventMask that returns E_FAIL.
LEMMA FailsKeeps ==
    ASSUME IInv, NEW t \in Threads, NEW mask \in SUBSET Flags, SetEventMaskFails(t, mask), pc[t] # "push"
    PROVE  IInv'
<1> USE DEF SetEventMaskFails, loadVars, listVars, lockVars, maskVars, askVars
<1>1. NoCall \in Call
    BY DEF NoCall, Call
<1>2. /\ pc' \in [Threads -> {"idle", "high", "low", "push", "hook"}] /\ arg' \in [Threads -> Call]
      /\ pc'[t] = "idle" /\ \A u \in Threads : u # t => pc'[u] = pc[u] /\ arg'[u] = arg[u]
    BY <1>1 DEF IInv, TypeOK
<1>3. TypeOK'
    BY <1>2 DEF IInv, TypeOK
<1>4. PriorityOrder' /\ LoaderInv'
    BY DEF IInv, PriorityOrder, LoaderInv
<1>5. CallInv'
    BY <1>2 DEF IInv, CallInv
<1>6. FlagsInv'
    BY FlagsKept DEF IInv
<1> QED BY <1>3, <1>4, <1>5, <1>6 DEF IInv

\* The call of the CLR: the mask has what every entry and the host were granted.
LEMMA PushKeeps ==
    ASSUME IInv, NEW t \in Threads, PushMask(t)
    PROVE  IInv'
<1> USE DEF PushMask
<1>0. /\ TypeOK /\ LoaderInv /\ CallInv /\ StackInv /\ TopInv /\ HostInv
      /\ \A i \in DOMAIN methods : EntryInv(methods[i])
      /\ \A i \in DOMAIN methods : methods[i] \in Entry
    BY DEF IInv, FlagsInv, TypeOK
<1>1. /\ Asker \in Askers /\ (frames = <<>> => Asker = Host)
      /\ frames # <<>> => Asker = Top /\ Top \in Methods /\ Len(frames) \in DOMAIN frames /\ Asker # Host
    BY <1>0, AskerFacts
<1>2. owner = t /\ (initializing => arg[t].low = initFlags) /\ arg[t] \in Call
    BY <1>0 DEF CallInv, TypeOK
<1> DEFINE low == MaskOfAll(t)
<1>3. /\ low \in SUBSET Flags /\ eventMask \cup arg[t].low \subseteq low
      /\ \A i \in DOMAIN methods : methods[i].flags \subseteq low
    <2>1. arg[t].low \in SUBSET Flags /\ eventMask \in SUBSET Flags /\ methods \in Seq(Entry)
        BY <1>0, <1>2 DEF Call, TypeOK
    <2>2. PICK mask, add, list : mask = eventMask /\ add = arg[t].low /\ list = methods
        OBVIOUS
    <2>3. /\ CalculateEventMask(mask, list, add) \in SUBSET Flags
          /\ mask \cup add \subseteq CalculateEventMask(mask, list, add)
          /\ \A i \in DOMAIN list : list[i].flags \subseteq CalculateEventMask(mask, list, add)
        <3>1. list \in Seq(Entry) /\ mask \in SUBSET Flags /\ add \in SUBSET Flags
            BY <2>1, <2>2
        <3> QED BY <3>1, MaskFacts
    <2>4. low = CalculateEventMask(mask, list, add)
        BY <2>2 DEF MaskOfAll
    <2> HIDE DEF low
    <2> QED BY <2>2, <2>3, <2>4
<1> HIDE DEF low
<1>4. /\ \/ clrMask' = low /\ granted' = [granted EXCEPT ![Asker] = asked[Asker]]
         \/ clrMask' = clrMask /\ granted' = granted
      /\ clrHigh' \in SUBSET HighFlags
    BY <1>0 DEF PushToClr, ClrAccepts, TypeOK, low
<1>5. /\ pc' \in [Threads -> {"idle", "high", "low", "push", "hook"}] /\ arg' \in [Threads -> Call]
      /\ \A u \in Threads : pc'[u] # "push"
      /\ pc'[t] = "idle" /\ \A u \in Threads : u # t => pc'[u] = pc[u]
    <2>1. NoCall \in Call
        BY DEF NoCall, Call
    <2>2. \A u \in Threads : u # t => pc[u] # "push"
        BY <1>0, <1>2 DEF CallInv
    <2> QED BY <1>0, <2>1, <2>2 DEF TypeOK
<1>6. /\ UNCHANGED <<phase, disabled, loaderPc, toLoad, fresh, methods, guids, frames, initializing, initFlags, eventMask,
                    asked, disturbed, eventMaskHigh, hook>>
      /\ owner' = IF frames = <<>> THEN NoThread ELSE t
    BY DEF OwnerAfterCall, loadVars, listVars
<1> HIDE DEF PushMask
<1>7. granted' \in [Askers -> SUBSET Flags] /\ clrMask' \in SUBSET Flags
    BY <1>0, <1>1, <1>3, <1>4 DEF TypeOK
<1>8. TypeOK'
    <2>1. owner' \in Threads \cup {NoThread} /\ (owner' = NoThread <=> frames = <<>>)
        BY <1>6
    <2> QED BY <1>0, <1>4, <1>5, <1>6, <1>7, <2>1 DEF TypeOK
<1>9. PriorityOrder' /\ LoaderInv' /\ CallInv'
    <2>1. PriorityOrder' /\ LoaderInv'
        BY <1>0, <1>2, <1>6 DEF IInv, PriorityOrder, LoaderInv
    <2>2. CallInv'
        <3>1. t = Loader => frames # <<>>
            BY <1>0, <1>2 DEF LoaderInv
        <3>2. t # Loader => pc[Loader] = "idle"
            BY <1>0, <1>2 DEF CallInv
        <3> QED BY <1>0, <1>5, <1>6, <3>1, <3>2 DEF CallInv
    <2> QED BY <2>1, <2>2
<1>10. Asker \notin fresh /\ \A i \in DOMAIN methods : methods[i].im # Asker
    <2>1. CASE frames = <<>>
        BY <1>0, <1>1, <2>1 DEF Entry, TypeOK
    <2>2. CASE frames # <<>>
        BY <1>0, <1>1, <2>2 DEF StackInv, Listed, Top
    <2> QED BY <2>1, <2>2
<1>11. \A x \in Askers : x # Asker => granted'[x] = granted[x]
    BY <1>0, <1>4 DEF TypeOK
<1>12. StackInv'
    <2>1. \A m \in fresh : m \in Askers /\ m # Asker
        BY <1>0, <1>10 DEF TypeOK, Askers
    <2> QED BY <1>0, <1>6, <1>11, <2>1 DEF StackInv, Listed
<1>13. TopInv'
    <2>1. CASE frames = <<>>
        BY <1>0, <1>6, <2>1 DEF TopInv
    <2>2. CASE frames # <<>>
        <3>1. ASSUME Top \notin disturbed PROVE granted'[Top] \subseteq clrMask' \cap asked[Top]
            <4>1. initializing /\ initFlags = asked[Top] /\ granted[Top] \subseteq clrMask \cap asked[Top]
                BY <1>0, <2>2, <3>1 DEF TopInv
            <4>2. asked[Top] \subseteq low
                BY <1>2, <1>3, <4>1
            <4>3. granted'[Top] = granted[Top] \/ granted'[Top] = asked[Top]
                BY <1>0, <1>1, <1>4, <2>2 DEF TypeOK
            <4>4. CASE clrMask' = low
                BY <4>1, <4>2, <4>3, <4>4
            <4>5. CASE clrMask' = clrMask /\ granted' = granted
                BY <4>1, <4>5
            <4> QED BY <1>4, <4>4, <4>5
        <3> QED BY <1>0, <1>6, <2>2, <3>1 DEF TopInv, Top
    <2> QED BY <2>1, <2>2
<1>14. HostInv'
    <2>1. granted'[Host] = granted[Host] \/ granted'[Host] = asked[Host]
        <3>1. Host \in Askers
            BY DEF Askers
        <3> QED BY <1>0, <1>1, <1>4, <3>1 DEF TypeOK
    <2>2. granted'[Host] \subseteq clrMask' \cap asked[Host]
        <3>1. CASE clrMask' = low
            BY <1>0, <1>3, <2>1, <3>1 DEF HostInv
        <3>2. CASE clrMask' = clrMask /\ granted' = granted
            BY <1>0, <3>2 DEF HostInv
        <3> QED BY <1>4, <3>1, <3>2
    <2> QED BY <1>0, <1>6, <2>2 DEF HostInv
<1>15. ASSUME NEW i \in DOMAIN methods' PROVE EntryInv(methods[i])'
    <2>1. i \in DOMAIN methods /\ methods[i].im \in Askers /\ methods[i].im # Asker
        BY <1>0, <1>6, <1>10, <1>15 DEF Entry, Askers
    <2>2. granted'[methods[i].im] = granted[methods[i].im]
        BY <1>11, <2>1
    <2>3. EntryInv(methods[i]) /\ methods[i].flags \subseteq low
        BY <1>0, <1>3, <2>1
    <2> QED BY <1>4, <1>6, <2>2, <2>3 DEF EntryInv
<1> QED BY <1>8, <1>9, <1>12, <1>13, <1>14, <1>15 DEF IInv, FlagsInv

-----------------------------------------------------------------------------
(* Adding and removing.                                                      *)

\* Pushing on and popping from the stack of Initialize calls.
LEMMA StackFacts ==
    ASSUME NEW s \in Seq(Methods), NEW m \in Methods
    PROVE  /\ Append(s, m) \in Seq(Methods) /\ Append(s, m) # <<>>
           /\ Len(Append(s, m)) = Len(s) + 1 /\ Append(s, m)[Len(s) + 1] = m
           /\ \A i \in DOMAIN Append(s, m) : i # Len(s) + 1 => i \in DOMAIN s /\ Append(s, m)[i] = s[i]
<1>1. Append(s, m) \in Seq(Methods) /\ Append(s, m) # <<>>
    BY AppendProperties
<1>2. Len(Append(s, m)) = Len(s) + 1 /\ Append(s, m)[Len(s) + 1] = m /\ \A i \in 1..Len(s) : Append(s, m)[i] = s[i]
    BY AppendProperties
<1>3. Len(s) \in Nat /\ DOMAIN s = 1..Len(s) /\ DOMAIN Append(s, m) = 1..Len(Append(s, m))
    BY <1>1, LenProperties
<1>4. \A i \in 1..(Len(s) + 1) : i # Len(s) + 1 => i \in 1..Len(s)
    BY <1>3
<1> QED BY <1>1, <1>2, <1>3, <1>4

LEMMA PopFacts ==
    ASSUME NEW s \in Seq(Methods), s # <<>>
    PROVE  /\ SubSeq(s, 1, Len(s) - 1) \in Seq(Methods)
           /\ Len(SubSeq(s, 1, Len(s) - 1)) = Len(s) - 1 /\ Len(s) - 1 \in Nat
           /\ \A i \in 1..(Len(s) - 1) : i \in DOMAIN s /\ SubSeq(s, 1, Len(s) - 1)[i] = s[i]
           /\ SubSeq(s, 1, Len(s) - 1) = <<>> <=> Len(s) = 1
<1>1. Len(s) \in Nat \ {0} /\ \A i \in 1..Len(s) : s[i] \in Methods
    BY EmptySeq
<1>2. SubSeq(s, 1, Len(s) - 1) = <<>> <=> Len(s) = 1
    BY FrontEmpty
<1> QED BY <1>1, <1>2

\* A method, fresh until now, begins its Initialize; the one around it is disturbed.
LEMMA BeginAddKeeps ==
    ASSUME IInv, NEW t \in Threads, NEW m \in Methods, BeginAdd(t, m),
           \/ UNCHANGED <<loaderPc, toLoad>> /\ CanCall(t)
           \/ loaderPc = "loop" /\ loaderPc' = "adding" /\ UNCHANGED toLoad /\ toLoad # <<>> /\ t = Loader
    PROVE  IInv'
<1> USE DEF BeginAdd, SetInitializing
<1>0. /\ TypeOK /\ LoaderInv /\ CallInv /\ StackInv /\ TopInv /\ HostInv
      /\ \A i \in DOMAIN methods : EntryInv(methods[i])
      /\ \A i \in DOMAIN methods : methods[i] \in Entry
    BY DEF IInv, FlagsInv, TypeOK
<1>1. /\ Asker \in Askers /\ (frames = <<>> => Asker = Host)
      /\ frames # <<>> => Asker = Top /\ Top \in Methods /\ Len(frames) \in DOMAIN frames /\ Asker # Host
    BY <1>0, AskerFacts
<1>2. \A u \in Threads : pc[u] # "push"
    <2>1. pc[t] # "push"
        <3>1. CASE CanCall(t)
            BY <3>1 DEF CanCall
        <3>2. CASE loaderPc = "loop" /\ t = Loader
            BY <1>0, <3>2 DEF LoaderInv, CallInv
        <3> QED BY <3>1, <3>2
    <2> QED BY <2>1, NobodyPushes
<1>3. PICK s : s = frames
    OBVIOUS
<1>4. /\ frames' = Append(s, m) /\ Append(s, m) \in Seq(Methods) /\ Append(s, m) # <<>>
      /\ Len(Append(s, m)) = Len(s) + 1 /\ Append(s, m)[Len(s) + 1] = m /\ Len(s) \in Nat
      /\ \A i \in DOMAIN Append(s, m) : i # Len(s) + 1 => i \in DOMAIN s /\ Append(s, m)[i] = s[i]
      /\ DOMAIN s = 1..Len(s) /\ DOMAIN Append(s, m) = 1..(Len(s) + 1)
    <2>1. s \in Seq(Methods)
        BY <1>0, <1>3 DEF TypeOK
    <2> QED BY <1>3, <2>1, StackFacts
<1>5. /\ disturbed' = disturbed \cup ({Asker} \ {Host}) /\ owner' = t /\ m \in fresh /\ fresh' = fresh \ {m}
      /\ initializing' = TRUE /\ initFlags' = {}
      /\ UNCHANGED <<phase, disabled, methods, guids, eventMask, clrMask, clrHigh, asked, granted, eventMaskHigh, pc, arg, hook>>
    BY DEF DisturbedNow, callVars
<1>6. m \notin disturbed' /\ asked[m] = {} /\ granted[m] = {}
    <2>1. m # Asker
        BY <1>0, <1>1, <1>5 DEF StackInv, Top
    <2> QED BY <1>0, <1>5, <2>1 DEF StackInv
<1>7. TypeOK'
    <2>1. disturbed' \subseteq Methods
        BY <1>0, <1>1, <1>5 DEF TypeOK, Askers
    <2>2. toLoad' \in Seq(Methods) /\ loaderPc' \in {"wait", "loop", "adding", "record", "done"}
        BY <1>0 DEF TypeOK
    <2> QED BY <1>0, <1>4, <1>5, <2>1, <2>2 DEF TypeOK
<1>8. PriorityOrder' /\ LoaderInv'
    <2>1. PriorityOrder'
        BY <1>5 DEF IInv, PriorityOrder
    <2>2. phase # "created"
        BY <1>0 DEF CanCall, LoaderInv
    <2> QED BY <1>0, <1>4, <1>5, <2>1, <2>2 DEF CanCall, LoaderInv
<1>9. CallInv'
    <2>1. pc[Loader] # "idle" => t = Loader
        BY <1>0 DEF CallInv, CanLock
    <2> QED BY <1>0, <1>2, <1>5, <2>1 DEF CallInv
<1> HIDE DEF BeginAdd, SetInitializing
<1>10. StackInv'
    <2> DEFINE f == Append(s, m)
    <2>1. \A i \in DOMAIN f : (i = Len(s) + 1 /\ f[i] = m) \/ (i \in DOMAIN s /\ f[i] = frames[i] /\ i <= Len(s))
        <3>1. \A i \in 1..Len(s) : i <= Len(s)
            BY <1>4
        <3>2. ASSUME NEW i \in DOMAIN f, i # Len(s) + 1 PROVE i \in DOMAIN s /\ f[i] = frames[i] /\ i <= Len(s)
            <4>1. i \in DOMAIN s /\ f[i] = s[i]
                BY <1>4, <3>2
            <4> QED BY <1>3, <1>4, <3>1, <4>1
        <3>3. f[Len(s) + 1] = m
            BY <1>4
        <3> HIDE DEF f
        <3> TAKE i \in DOMAIN f
        <3>4. CASE i = Len(s) + 1
            BY <3>3, <3>4
        <3>5. CASE i # Len(s) + 1
            BY <3>2, <3>5
        <3> QED BY <3>4, <3>5
    <2>2. DOMAIN frames = DOMAIN s /\ Len(frames) = Len(s)
        BY <1>3
    <2> HIDE DEF f
    <2>3. ~Listed(m)
        BY <1>0, <1>5 DEF StackInv, Listed
    <2>4. \A x : Listed(x)' <=> Listed(x)
        BY <1>5 DEF Listed
    <2>5. ASSUME NEW i \in DOMAIN f PROVE f[i] \notin fresh' /\ ~Listed(f[i])'
        <3>1. CASE f[i] = m
            BY <1>5, <2>3, <2>4, <3>1
        <3>2. CASE i \in DOMAIN s /\ f[i] = frames[i]
            BY <1>0, <1>5, <2>2, <2>4, <3>2 DEF StackInv
        <3> QED BY <2>1, <2>5, <3>1, <3>2
    <2>6. \A i \in DOMAIN s : frames[i] # m
        BY <1>0, <1>5, <2>2 DEF StackInv
    <2>7. ASSUME NEW i \in DOMAIN f, NEW j \in DOMAIN f, f[i] = f[j] PROVE i = j
        <3>1. CASE f[i] = m
            BY <2>1, <2>6, <2>7, <3>1
        <3>2. CASE f[i] # m
            <4>1. i \in DOMAIN s /\ f[i] = frames[i] /\ j \in DOMAIN s /\ f[j] = frames[j]
                BY <2>1, <2>7, <3>2
            <4> QED BY <1>0, <2>2, <2>7, <4>1 DEF StackInv
        <3> QED BY <3>1, <3>2
    <2>8. ASSUME NEW i \in DOMAIN f, i < Len(f) PROVE f[i] \in disturbed'
        <3>1. i \in DOMAIN s /\ f[i] = frames[i] /\ Len(f) = Len(s) + 1 /\ i \in 1..Len(s) /\ Len(s) \in Nat
            BY <1>4, <2>1, <2>8 DEF f
        <3>2. CASE i < Len(s)
            BY <1>0, <1>5, <2>2, <3>1, <3>2 DEF StackInv
        <3>3. CASE i = Len(s)
            <4>1. frames # <<>>
                BY <1>3, <3>1
            <4>2. f[i] = Asker /\ Asker # Host
                BY <1>1, <2>2, <3>1, <3>3, <4>1 DEF Top
            <4> QED BY <1>5, <4>2
        <3> QED BY <3>1, <3>2, <3>3
    <2>9. \A x \in fresh' : x \in fresh /\ x # Asker
        <3>1. \A x \in fresh : x # Asker
            BY <1>0, <1>1 DEF StackInv, Top, TypeOK
        <3> QED BY <1>5, <3>1
    <2>10. /\ \A i \in DOMAIN methods' : methods'[i].im \notin fresh'
           /\ \A x \in fresh' : asked'[x] = {} /\ granted'[x] = {} /\ x \notin disturbed'
        BY <1>0, <1>5, <2>9 DEF StackInv
    <2>11. frames' = f
        BY <1>4 DEF f
    <2> QED BY <2>5, <2>7, <2>8, <2>10, <2>11 DEF StackInv
<1>11. TopInv'
    <2>1. Top' = m
        BY <1>4 DEF Top
    <2> QED BY <1>4, <1>5, <1>6, <2>1 DEF TopInv
<1>12. HostInv' /\ \A i \in DOMAIN methods' : EntryInv(methods[i])'
    BY <1>0, <1>5 DEF HostInv, EntryInv
<1> QED BY <1>7, <1>8, <1>9, <1>10, <1>11, <1>12 DEF IInv, FlagsInv

\* An Initialize returns: its flags become those of the entry, or are forgotten.
LEMMA EndAddKeeps ==
    ASSUME IInv, NEW t \in Threads, NEW ok \in BOOLEAN, EndAdd(t, ok)
    PROVE  IInv'
<1>0. /\ TypeOK /\ LoaderInv /\ CallInv /\ StackInv /\ TopInv /\ HostInv
      /\ \A i \in DOMAIN methods : EntryInv(methods[i])
      /\ \A i \in DOMAIN methods : methods[i] \in Entry
    BY DEF IInv, FlagsInv, TypeOK
<1>1. \A u \in Threads : pc[u] # "push"
    BY NobodyPushes DEF EndAdd, CanLock
<1>2. frames # <<>> /\ owner = t
    BY <1>0, <1>1 DEF EndAdd, TypeOK
<1>3. Top \in Methods /\ Len(frames) \in DOMAIN frames
    BY <1>0, <1>2, AskerFacts
<1>4. PICK s : s = frames
    OBVIOUS
<1>5. /\ frames' = SubSeq(s, 1, Len(s) - 1) /\ frames' \in Seq(Methods)
      /\ Len(frames') = Len(s) - 1 /\ Len(s) - 1 \in Nat /\ DOMAIN frames' = 1..(Len(s) - 1)
      /\ \A i \in 1..(Len(s) - 1) : i \in DOMAIN frames /\ frames'[i] = frames[i]
      /\ frames' = <<>> <=> Len(frames) = 1
    <2>1. s \in Seq(Methods) /\ s # <<>>
        BY <1>0, <1>2, <1>4 DEF TypeOK
    <2>2. frames' = SubSeq(s, 1, Len(s) - 1)
        BY <1>4 DEF EndAdd
    <2>3. /\ SubSeq(s, 1, Len(s) - 1) \in Seq(Methods)
          /\ Len(SubSeq(s, 1, Len(s) - 1)) = Len(s) - 1 /\ Len(s) - 1 \in Nat
          /\ \A i \in 1..(Len(s) - 1) : i \in DOMAIN s /\ SubSeq(s, 1, Len(s) - 1)[i] = s[i]
          /\ SubSeq(s, 1, Len(s) - 1) = <<>> <=> Len(s) = 1
        BY <2>1, PopFacts
    <2> QED BY <1>4, <2>2, <2>3
<1>6. /\ owner' = (IF Len(frames) = 1 THEN NoThread ELSE t)
      /\ initializing' = FALSE /\ initFlags' = {}
      /\ loaderPc' = (IF t = Loader /\ Len(frames) = 1 THEN IF ok THEN "record" ELSE "loop" ELSE loaderPc)
      /\ toLoad' = (IF t = Loader /\ Len(frames) = 1 /\ ~ok THEN Tail(toLoad) ELSE toLoad)
      /\ pc[t] = "idle"
      /\ UNCHANGED <<phase, disabled, fresh, guids, eventMask, clrMask, clrHigh, asked, granted, disturbed, eventMaskHigh,
                     pc, arg, hook>>
    BY DEF EndAdd, OwnerAfterEnd, SetInitializing, askVars, callVars
<1>7. /\ methods' \in Seq(Entry) /\ PriorityOrder'
      /\ \A i \in DOMAIN methods' : \/ methods'[i] = [im |-> Top, flags |-> initFlags]
                                   \/ \E k \in DOMAIN methods : methods'[i] = methods[k]
    <2>1. PICK list, m, fl : list = methods /\ m = Top /\ fl = initFlags
        OBVIOUS
    <2>2. list \in Seq(Entry) /\ m \in Methods /\ fl \in SUBSET Flags /\ Ordered(list)
        BY <1>0, <1>3, <2>1 DEF IInv, TypeOK, PriorityOrder, Ordered
    <2> DEFINE new == InsertByPriority(list, m, fl)
    <2>3. /\ new \in Seq(Entry) /\ Ordered(new)
          /\ \A i \in DOMAIN new : new[i] = [im |-> m, flags |-> fl] \/ \E k \in DOMAIN list : new[i] = list[k]
        BY <2>2, InsertKeepsOrder
    <2>4. methods' = new \/ methods' = list
        BY <2>1 DEF EndAdd, Top
    <2> HIDE DEF new
    <2>5. CASE methods' = new
        BY <2>1, <2>3, <2>5 DEF PriorityOrder, Ordered
    <2>6. CASE methods' = list
        BY <2>1, <2>2, <2>6 DEF PriorityOrder, Ordered
    <2> QED BY <2>4, <2>5, <2>6
<1>8. TypeOK'
    <2>1. toLoad' \in Seq(Methods)
        BY <1>0, <1>2, <1>6 DEF TypeOK, LoaderInv
    <2>2. owner' = NoThread <=> frames' = <<>>
        BY <1>5, <1>6
    <2> QED BY <1>0, <1>1, <1>5, <1>6, <1>7, <2>1, <2>2 DEF TypeOK
<1>9. LoaderInv' /\ CallInv'
    <2>1. LoaderInv'
        BY <1>0, <1>2, <1>5, <1>6 DEF LoaderInv
    <2>2. CallInv'
        BY <1>0, <1>1, <1>2, <1>6 DEF CallInv
    <2> QED BY <2>1, <2>2
<1>10. \A i \in 1..(Len(s) - 1) : frames[i] # Top /\ frames[i] \in disturbed
    BY <1>0, <1>3, <1>4, <1>5 DEF StackInv, Top
<1>11. StackInv'
    <2>0. \A k \in DOMAIN methods' : methods'[k].im = Top \/ \E q \in DOMAIN methods : methods'[k].im = methods[q].im
        BY <1>7
    <2>1. ASSUME NEW i \in DOMAIN frames'
          PROVE  frames'[i] \notin fresh /\ \A k \in DOMAIN methods' : methods'[k].im # frames'[i]
        <3>1. i \in DOMAIN frames /\ frames'[i] = frames[i] /\ frames[i] # Top
            BY <1>5, <1>10, <2>1
        <3>2. frames[i] \notin fresh /\ \A k \in DOMAIN methods : methods[k].im # frames[i]
            BY <1>0, <3>1 DEF StackInv, Listed
        <3> QED BY <2>0, <3>1, <3>2
    <2>2. ASSUME NEW i \in DOMAIN frames', NEW j \in DOMAIN frames', frames'[i] = frames'[j] PROVE i = j
        <3>1. i \in DOMAIN frames /\ frames'[i] = frames[i] /\ j \in DOMAIN frames /\ frames'[j] = frames[j]
            BY <1>5, <2>2
        <3> QED BY <1>0, <2>2, <3>1 DEF StackInv
    <2>3. \A i \in DOMAIN frames' : frames'[i] \in disturbed
        BY <1>5, <1>10
    <2>4. \A i \in DOMAIN methods' : methods'[i].im \notin fresh
        <3>1. Top \notin fresh /\ \A q \in DOMAIN methods : methods[q].im \notin fresh
            BY <1>0, <1>3 DEF StackInv, Top
        <3> QED BY <2>0, <3>1
    <2>5. \A m \in fresh' : asked'[m] = {} /\ granted'[m] = {} /\ m \notin disturbed'
        BY <1>0, <1>6 DEF StackInv
    <2> QED BY <1>6, <2>1, <2>2, <2>3, <2>4, <2>5 DEF StackInv, Listed
<1>12. TopInv'
    <2>1. frames' # <<>> => Top' \in disturbed
        <3>1. frames' # <<>> => Len(s) - 1 \in 1..(Len(s) - 1)
            BY <1>4, <1>5
        <3> QED BY <1>5, <1>10, <3>1 DEF Top
    <2> QED BY <1>6, <2>1 DEF TopInv
<1>13. HostInv'
    BY <1>0, <1>6 DEF HostInv
<1>14. ASSUME NEW i \in DOMAIN methods' PROVE EntryInv(methods[i])'
    <2>1. CASE \E k \in DOMAIN methods : methods'[i] = methods[k]
        <3>1. PICK k \in DOMAIN methods : methods'[i] = methods[k]
            BY <2>1
        <3>2. EntryInv(methods[k])
            BY <1>0
        <3> QED BY <1>6, <3>1, <3>2 DEF EntryInv
    <2>2. CASE methods'[i] = [im |-> Top, flags |-> initFlags]
        <3>1. methods'[i].im = Top /\ methods'[i].flags = initFlags
            BY <2>2
        <3> QED BY <1>0, <1>2, <1>6, <3>1 DEF EntryInv, TopInv
    <2> QED BY <1>7, <1>14, <2>1, <2>2
<1> QED BY <1>7, <1>8, <1>9, <1>11, <1>12, <1>13, <1>14 DEF IInv, FlagsInv

\* A method is removed; an Initialize around the call loses its flags.
LEMMA RemoveKeeps ==
    ASSUME IInv, NEW t \in Threads, NEW m \in Methods, RemoveInstrumentationMethod(t, m)
    PROVE  IInv'
<1>0. /\ TypeOK /\ LoaderInv /\ CallInv /\ StackInv /\ TopInv /\ HostInv
      /\ \A i \in DOMAIN methods : EntryInv(methods[i])
      /\ \A i \in DOMAIN methods : methods[i] \in Entry
    BY DEF IInv, FlagsInv, TypeOK
<1>1. /\ Asker \in Askers /\ (frames = <<>> => Asker = Host)
      /\ frames # <<>> => Asker = Top /\ Top \in Methods /\ Len(frames) \in DOMAIN frames /\ Asker # Host
    BY <1>0, AskerFacts
<1>2. \A u \in Threads : pc[u] # "push"
    <2>1. CanLock(t) /\ pc[t] # "push"
        BY DEF RemoveInstrumentationMethod, CanCall
    <2> QED BY <2>1, NobodyPushes
<1>3. UNCHANGED <<phase, disabled, loaderPc, toLoad, fresh, guids, owner, frames, asked, granted, eventMaskHigh, pc, arg,
                  hook, eventMask>>
    BY DEF RemoveInstrumentationMethod, loadVars, lockVars, callVars, maskVars
<1>4. /\ methods' \in Seq(Entry) /\ PriorityOrder'
      /\ \A i \in DOMAIN methods' : \E k \in DOMAIN methods : methods'[i] = methods[k]
    <2>1. PICK list, k : list = methods /\ k = IndexOf(m)
        OBVIOUS
    <2>2. list \in Seq(Entry) /\ Ordered(list) /\ k \in DOMAIN list
        BY <1>0, <2>1 DEF IInv, TypeOK, PriorityOrder, Ordered, RemoveInstrumentationMethod, Listed, IndexOf
    <2> DEFINE new == Without(list, k)
    <2>3. /\ new \in Seq(Entry) /\ Ordered(new)
          /\ \A i \in DOMAIN new : \E q \in DOMAIN list : new[i] = list[q]
        BY <2>2, WithoutKeepsOrder
    <2>4. methods' = new
        BY <2>1 DEF RemoveInstrumentationMethod
    <2> HIDE DEF new
    <2> QED BY <2>1, <2>3, <2>4 DEF PriorityOrder, Ordered
<1>5. \/ UNCHANGED <<initializing, initFlags, clrMask, clrHigh, disturbed>>
      \/ /\ initializing' = FALSE /\ initFlags' = {}
         /\ disturbed' = disturbed \cup ({Asker} \ {Host})
         /\ clrMask' = clrMask \/ clrMask' = CalculateEventMask(eventMask, methods', {})
         /\ clrHigh' = clrHigh \/ clrHigh' = eventMaskHigh
    BY DEF RemoveInstrumentationMethod, maskVars, PushToClr, SetInitializing, DisturbedNow
<1>6. /\ disturbed \subseteq disturbed' /\ disturbed' \subseteq Methods
      /\ \A x \in disturbed' : x \in disturbed \/ x = Asker
      /\ initializing' \in BOOLEAN /\ initFlags' \subseteq Flags /\ clrHigh' \subseteq HighFlags
    BY <1>0, <1>1, <1>5 DEF TypeOK, Askers
<1>7. /\ clrMask' \subseteq Flags
      /\ clrMask' = clrMask \/ (eventMask \subseteq clrMask' /\ \A i \in DOMAIN methods' : methods'[i].flags \subseteq clrMask')
    <2>1. CASE clrMask' = clrMask
        BY <1>0, <2>1 DEF TypeOK
    <2>2. CASE clrMask' = CalculateEventMask(eventMask, methods', {})
        <3>1. PICK list, mask : list = methods' /\ mask = eventMask
            OBVIOUS
        <3>2. list \in Seq(Entry) /\ mask \in SUBSET Flags /\ {} \in SUBSET Flags
            BY <1>0, <1>4, <3>1 DEF TypeOK
        <3>3. /\ CalculateEventMask(mask, list, {}) \in SUBSET Flags
              /\ mask \cup {} \subseteq CalculateEventMask(mask, list, {})
              /\ \A i \in DOMAIN list : list[i].flags \subseteq CalculateEventMask(mask, list, {})
            BY <3>2, MaskFacts
        <3> QED BY <2>2, <3>1, <3>3
    <2> QED BY <1>5, <2>1, <2>2
<1>8. TypeOK'
    BY <1>0, <1>3, <1>4, <1>6, <1>7 DEF TypeOK
<1>9. LoaderInv' /\ CallInv'
    BY <1>0, <1>2, <1>3 DEF LoaderInv, CallInv
<1>10. StackInv'
    <2>1. \A x : Listed(x)' => Listed(x)
        BY <1>4 DEF Listed
    <2>2. \A x \in fresh : x # Asker
        BY <1>0, <1>1 DEF StackInv, Top, TypeOK
    <2>3. \A x \in fresh : x \notin disturbed'
        BY <1>0, <1>6, <2>2 DEF StackInv
    <2>4. \A i \in DOMAIN methods' : methods'[i].im \notin fresh
        BY <1>0, <1>4 DEF StackInv
    <2>5. \A i \in DOMAIN frames : frames[i] \notin fresh /\ ~Listed(frames[i])'
        BY <1>0, <1>3, <2>1 DEF StackInv
    <2> QED BY <1>0, <1>3, <1>6, <2>3, <2>4, <2>5 DEF StackInv
<1>11. TopInv'
    <2>1. Top' = Top
        BY <1>3 DEF Top
    <2>2. CASE UNCHANGED <<initializing, initFlags, clrMask, clrHigh, disturbed>>
        BY <1>0, <1>3, <2>1, <2>2 DEF TopInv
    <2>3. CASE initializing' = FALSE /\ initFlags' = {} /\ disturbed' = disturbed \cup ({Asker} \ {Host})
        BY <1>1, <1>3, <2>1, <2>3 DEF TopInv
    <2> QED BY <1>5, <2>2, <2>3
<1>12. HostInv'
    BY <1>0, <1>3, <1>6, <1>7 DEF HostInv
<1>13. ASSUME NEW i \in DOMAIN methods' PROVE EntryInv(methods[i])'
    <2>1. PICK k \in DOMAIN methods : methods'[i] = methods[k]
        BY <1>4, <1>13
    <2>2. EntryInv(methods[k])
        BY <1>0
    <2> QED BY <1>3, <1>6, <1>7, <1>13, <2>1, <2>2 DEF EntryInv
<1> QED BY <1>4, <1>8, <1>9, <1>10, <1>11, <1>12, <1>13 DEF IInv, FlagsInv

-----------------------------------------------------------------------------
(* The other steps.                                                          *)

\* The steps of a call that leave the registry and the lock alone.
LEMMA CallStepKeeps ==
    ASSUME IInv, NEW t \in Threads, pc[t] # "push",
           pc' \in [Threads -> {"idle", "high", "low", "push", "hook"}],
           arg' \in [Threads -> Call], hook' \in Hooks \cup {NoHook}, eventMaskHigh' \subseteq HighFlags,
           \A u \in Threads : u # t => pc'[u] = pc[u] /\ arg'[u] = arg[u],
           pc'[t] # "push", t = Loader => owner = Loader, phase # "created",
           UNCHANGED <<phase, loaderPc, toLoad, listVars, lockVars, maskVars, askVars>>,
           disabled' \in BOOLEAN
    PROVE  IInv'
<1> USE DEF listVars, lockVars, maskVars, askVars
<1>1. TypeOK /\ LoaderInv /\ CallInv /\ FlagsInv
    BY DEF IInv
<1>2. (\A u \in Threads : pc'[u] # "push") <=> (\A u \in Threads : pc[u] # "push")
    OBVIOUS
<1>3. TypeOK'
    BY <1>1, <1>2 DEF TypeOK
<1>4. PriorityOrder' /\ LoaderInv' /\ CallInv'
    <2>1. PriorityOrder' /\ LoaderInv'
        BY <1>1 DEF IInv, PriorityOrder, LoaderInv
    <2>2. ASSUME NEW u \in Threads, pc'[u] = "push" PROVE owner' = u /\ (initializing' => arg'[u].low = initFlags')
        BY <1>1, <2>2 DEF CallInv
    <2> QED BY <1>1, <2>1, <2>2 DEF CallInv
<1>5. FlagsInv'
    BY <1>1, FlagsKept
<1> QED BY <1>3, <1>4, <1>5 DEF IInv

\* Who calls the engine does so after Initialize began, and the loader from a method's Initialize.
LEMMA CallerFacts ==
    ASSUME IInv, NEW t \in Threads, CanCall(t)
    PROVE  phase # "created" /\ (t = Loader => owner = Loader) /\ pc[t] # "push"
    BY DEF IInv, LoaderInv, CanCall

\* So does a thread that is in a call.
LEMMA InCallFacts ==
    ASSUME IInv, NEW t \in Threads, pc[t] # "idle"
    PROVE  phase # "created" /\ (t = Loader => owner = Loader)
    BY DEF IInv, CallInv

\* The argument of a call.
LEMMA ArgFacts ==
    ASSUME IInv, NEW t \in Threads
    PROVE  arg[t].low \in SUBSET Flags /\ arg[t].high \in SUBSET HighFlags /\ arg[t].hook \in Hooks \cup {NoHook}
    BY DEF IInv, TypeOK, Call

\* SetEventMask2, the raw profiler hook and DisableProfiling.
LEMMA OtherCallsKeep ==
    ASSUME IInv, NEW t \in Threads,
           \/ \E low \in SUBSET Flags, high \in SUBSET HighFlags : SetEventMask2(t, low, high)
           \/ SetEventMask2Write(t)
           \/ \E h \in Hooks : AddRawProfilerHook(t, h)
           \/ InstallHook(t) \/ RemoveRawProfilerHook(t) \/ DisableProfiling(t)
    PROVE  IInv'
<1>1. NoCall \in Call
    BY DEF NoCall, Call
<1>2. TypeOK
    BY DEF IInv
<1>3. ASSUME NEW low \in SUBSET Flags, NEW high \in SUBSET HighFlags, SetEventMask2(t, low, high) PROVE IInv'
    <2>1. phase # "created" /\ (t = Loader => owner = Loader) /\ pc[t] # "push"
        BY <1>3, CallerFacts DEF SetEventMask2
    <2>2. [NoCall EXCEPT !.low = low, !.high = eventMaskHigh \cup high] \in Call
        BY <1>2 DEF NoCall, Call, TypeOK
    <2>3. /\ pc' = [pc EXCEPT ![t] = "high"]
          /\ arg' = [arg EXCEPT ![t] = [NoCall EXCEPT !.low = low, !.high = eventMaskHigh \cup high]]
          /\ UNCHANGED <<phase, disabled, loaderPc, toLoad, listVars, lockVars, maskVars, askVars, eventMaskHigh, hook>>
        BY <1>3 DEF SetEventMask2, loadVars
    <2> QED BY <1>2, <2>1, <2>2, <2>3, CallStepKeeps DEF TypeOK
<1>4. ASSUME SetEventMask2Write(t) PROVE IInv'
    <2>1. phase # "created" /\ (t = Loader => owner = Loader) /\ pc[t] # "push"
        BY <1>4, InCallFacts DEF SetEventMask2Write
    <2>2. /\ pc' = [pc EXCEPT ![t] = "low"] /\ eventMaskHigh' = arg[t].high
          /\ UNCHANGED <<phase, disabled, loaderPc, toLoad, listVars, lockVars, maskVars, askVars, arg, hook>>
        BY <1>4 DEF SetEventMask2Write, loadVars
    <2>3. arg[t].high \in SUBSET HighFlags
        BY ArgFacts
    <2> QED BY <1>2, <2>1, <2>2, <2>3, CallStepKeeps DEF TypeOK
<1>5. ASSUME NEW h \in Hooks, AddRawProfilerHook(t, h) PROVE IInv'
    <2>1. phase # "created" /\ (t = Loader => owner = Loader) /\ pc[t] # "push"
        BY <1>5, CallerFacts DEF AddRawProfilerHook
    <2>2. [NoCall EXCEPT !.hook = h] \in Call
        BY DEF NoCall, Call
    <2>3. /\ pc' = [pc EXCEPT ![t] = "hook"]
          /\ arg' = [arg EXCEPT ![t] = [NoCall EXCEPT !.hook = h]]
          /\ UNCHANGED <<phase, disabled, loaderPc, toLoad, listVars, lockVars, maskVars, askVars, eventMaskHigh, hook>>
        BY <1>5 DEF AddRawProfilerHook, loadVars
    <2> QED BY <1>2, <2>1, <2>2, <2>3, CallStepKeeps DEF TypeOK
<1>6. ASSUME InstallHook(t) PROVE IInv'
    <2>1. phase # "created" /\ (t = Loader => owner = Loader) /\ pc[t] # "push"
        BY <1>6, InCallFacts DEF InstallHook
    <2>2. /\ pc' = [pc EXCEPT ![t] = "idle"] /\ arg' = [arg EXCEPT ![t] = NoCall] /\ hook' = arg[t].hook
          /\ UNCHANGED <<phase, disabled, loaderPc, toLoad, listVars, lockVars, maskVars, askVars, eventMaskHigh>>
        BY <1>6 DEF InstallHook, loadVars
    <2>3. arg[t].hook \in Hooks \cup {NoHook}
        BY ArgFacts
    <2> QED BY <1>1, <1>2, <2>1, <2>2, <2>3, CallStepKeeps DEF TypeOK
<1>7. ASSUME RemoveRawProfilerHook(t) \/ DisableProfiling(t) PROVE IInv'
    <2>1. CanCall(t)
        BY <1>7 DEF RemoveRawProfilerHook, DisableProfiling
    <2>2. phase # "created" /\ (t = Loader => owner = Loader) /\ pc[t] # "push"
        BY <2>1, CallerFacts
    <2>3. /\ hook' \in {hook, NoHook} /\ disabled' \in BOOLEAN
          /\ UNCHANGED <<phase, loaderPc, toLoad, listVars, lockVars, maskVars, askVars, eventMaskHigh, pc, arg>>
        <3>1. CASE RemoveRawProfilerHook(t)
            BY <1>2, <3>1 DEF RemoveRawProfilerHook, loadVars, callVars, TypeOK
        <3>2. CASE DisableProfiling(t)
            BY <3>2 DEF DisableProfiling, callVars
        <3> QED BY <1>7, <3>1, <3>2
    <2> QED BY <1>2, <2>2, <2>3, CallStepKeeps DEF TypeOK
<1> QED BY <1>3, <1>4, <1>5, <1>6, <1>7

LEMMA CallsKeep ==
    ASSUME IInv, NEW t \in Threads, Calls(t)
    PROVE  IInv'
<1>1. ASSUME NEW mask \in SUBSET Flags, SetEventMask(t, mask) PROVE IInv'
    <2>1. phase # "created" /\ (t = Loader => owner = Loader) /\ pc[t] # "push"
        BY <1>1, CallerFacts DEF SetEventMask
    <2> QED BY <1>1, <2>1, BeginsKeeps, FailsKeeps DEF SetEventMask
<1>2. ASSUME SetEventMask2Low(t) PROVE IInv'
    <2>1. phase # "created" /\ (t = Loader => owner = Loader) /\ pc[t] # "push"
        BY <1>2, InCallFacts DEF SetEventMask2Low
    <2>2. PICK mask : mask = arg[t].low
        OBVIOUS
    <2>3. mask \in SUBSET Flags /\ (SetEventMaskBegins(t, mask) \/ SetEventMaskFails(t, mask))
        BY <1>2, <2>2, ArgFacts DEF SetEventMask2Low
    <2> QED BY <2>1, <2>3, BeginsKeeps, FailsKeeps
<1>3. ASSUME NEW m \in Methods, AddInstrumentationMethod(t, m) PROVE IInv'
    BY <1>3, BeginAddKeeps DEF AddInstrumentationMethod
<1> QED BY <1>1, <1>2, <1>3, PushKeeps, EndAddKeeps, RemoveKeeps, OtherCallsKeep DEF Calls

\* The steps of the loading thread.
LEMMA LoadKeeps ==
    ASSUME IInv, Load
    PROVE  IInv'
<1>1. CASE LoadNext
    <2>1. toLoad # <<>> /\ toLoad \in Seq(Methods) /\ Head(toLoad) \in Methods
        BY <1>1 DEF LoadNext, IInv, TypeOK
    <2>2. PICK m : m = Head(toLoad)
        OBVIOUS
    <2>3. BeginAdd(Loader, m) /\ loaderPc = "loop" /\ loaderPc' = "adding" /\ toLoad' = toLoad /\ Loader \in Threads
        BY <1>1, <2>2 DEF LoadNext
    <2> QED BY <2>1, <2>2, <2>3, BeginAddKeeps
<1>2. CASE SkipDuplicate \/ RecordGuid \/ LoaderExits \/ LoaderFails
    <2>0. TypeOK /\ LoaderInv /\ CallInv /\ FlagsInv
        BY DEF IInv
    <2>1. UNCHANGED <<phase, disabled, fresh, methods, lockVars, maskVars, askVars, eventMaskHigh, callVars, hook>>
        BY <1>2 DEF SkipDuplicate, RecordGuid, LoaderExits, LoaderFails, listVars
    <2>2. /\ toLoad' \in Seq(Methods) /\ loaderPc' \in {"loop", "done"} /\ guids' \subseteq Guids
          /\ loaderPc \in {"loop", "record"}
        <3>1. CASE RecordGuid
            <4>1. toLoad # <<>>
                BY <2>0, <3>1 DEF RecordGuid, LoaderInv
            <4> QED BY <2>0, <3>1, <4>1 DEF RecordGuid, GuidsRecorded, TypeOK
        <3>2. CASE SkipDuplicate
            BY <2>0, <3>2 DEF SkipDuplicate, TypeOK, listVars
        <3>3. CASE LoaderExits \/ LoaderFails
            BY <2>0, <3>3 DEF LoaderExits, LoaderFails, TypeOK, listVars
        <3> QED BY <1>2, <3>1, <3>2, <3>3
    <2>3. TypeOK'
        BY <2>0, <2>1, <2>2 DEF TypeOK, lockVars, maskVars, askVars, callVars
    <2>4. PriorityOrder' /\ LoaderInv' /\ CallInv'
        BY <2>0, <2>1, <2>2 DEF IInv, PriorityOrder, LoaderInv, CallInv, lockVars, maskVars, callVars
    <2>5. FlagsInv'
        BY <2>0, <2>1, FlagsKept DEF lockVars, maskVars, askVars
    <2> QED BY <2>3, <2>4, <2>5 DEF IInv
<1> QED BY <1>1, <1>2 DEF Load

\* Initialize gives the CLR a mask that has everything granted so far.
LEMMA InitializeKeeps ==
    ASSUME IInv, Initialize \/ InitializeFails
    PROVE  IInv'
<1>0. /\ TypeOK /\ LoaderInv /\ CallInv /\ StackInv /\ TopInv /\ HostInv
      /\ \A i \in DOMAIN methods : EntryInv(methods[i])
    BY DEF IInv, FlagsInv
<1>1. /\ phase = "created" /\ phase' \in {"initialize", "cancelled"} /\ loaderPc' \in {"wait", "loop", "done"}
      /\ UNCHANGED <<disabled, toLoad, listVars, lockVars, initializing, initFlags, eventMask, askVars, eventMaskHigh,
                     callVars, hook>>
      /\ clrMask' = clrMask \/ clrMask' = CalculateEventMask(eventMask, methods, {})
      /\ clrHigh' \in {clrHigh, eventMaskHigh}
    <2>1. CASE Initialize
        BY <2>1 DEF Initialize, SetDefaultMask
    <2>2. CASE InitializeFails
        BY <1>0, <2>2 DEF InitializeFails, SetDefaultMask, LoaderInv
    <2> QED BY <2>1, <2>2
<1>2. owner = NoThread /\ frames = <<>> /\ \A t \in Threads : pc[t] = "idle"
    BY <1>0, <1>1 DEF LoaderInv, CallInv, TypeOK
<1>3. /\ clrMask' \subseteq Flags
      /\ clrMask' = clrMask \/ (eventMask \subseteq clrMask' /\ \A i \in DOMAIN methods : methods[i].flags \subseteq clrMask')
    <2>1. CASE clrMask' = clrMask
        BY <1>0, <2>1 DEF TypeOK
    <2>2. CASE clrMask' = CalculateEventMask(eventMask, methods, {})
        <3>1. PICK list, mask : list = methods /\ mask = eventMask
            OBVIOUS
        <3>2. list \in Seq(Entry) /\ mask \in SUBSET Flags /\ {} \in SUBSET Flags
            BY <1>0, <3>1 DEF TypeOK
        <3>3. /\ CalculateEventMask(mask, list, {}) \in SUBSET Flags
              /\ mask \cup {} \subseteq CalculateEventMask(mask, list, {})
              /\ \A i \in DOMAIN list : list[i].flags \subseteq CalculateEventMask(mask, list, {})
            BY <3>2, MaskFacts
        <3> QED BY <2>2, <3>1, <3>3
    <2> QED BY <1>1, <2>1, <2>2
<1>4. TypeOK'
    BY <1>0, <1>1, <1>3 DEF TypeOK, listVars, lockVars, askVars, callVars
<1>5. PriorityOrder' /\ LoaderInv' /\ CallInv'
    BY <1>1, <1>2 DEF IInv, PriorityOrder, LoaderInv, CallInv, listVars, lockVars, callVars
<1>6. StackInv'
    BY <1>0, <1>1 DEF StackInv, Listed, listVars, lockVars, askVars
<1>7. TopInv'
    BY <1>0, <1>1, <1>2 DEF TopInv, lockVars
<1>8. HostInv'
    BY <1>0, <1>1, <1>3 DEF HostInv, askVars
<1>9. \A i \in DOMAIN methods' : EntryInv(methods[i])'
    BY <1>0, <1>1, <1>3 DEF EntryInv, listVars, askVars
<1> QED BY <1>4, <1>5, <1>6, <1>7, <1>8, <1>9 DEF IInv, FlagsInv

\* The rest of the engine's life.
LEMMA EngineKeeps ==
    ASSUME IInv, Engine
    PROVE  IInv'
<1>0. TypeOK /\ LoaderInv /\ CallInv /\ FlagsInv
    BY DEF IInv
<1>1. CASE InitializeReturns \/ ClrResumes \/ LoadTimesOut
    <2>1. /\ phase # "created" /\ phase' \in {"returning", "running", "cancelled"} /\ hook' \in {hook, NoHook}
          /\ UNCHANGED <<disabled, loaderPc, toLoad, listVars, lockVars, maskVars, askVars, eventMaskHigh, callVars>>
        BY <1>1 DEF InitializeReturns, ClrResumes, LoadTimesOut
    <2>2. TypeOK'
        BY <1>0, <2>1 DEF TypeOK, listVars, lockVars, maskVars, askVars, callVars
    <2>3. PriorityOrder' /\ LoaderInv' /\ CallInv'
        BY <1>0, <2>1 DEF IInv, PriorityOrder, LoaderInv, CallInv, listVars, lockVars, maskVars, callVars
    <2>4. FlagsInv'
        BY <1>0, <2>1, FlagsKept DEF listVars, lockVars, maskVars, askVars
    <2> QED BY <2>2, <2>3, <2>4 DEF IInv
<1>2. CASE Shutdown
    <2>1. /\ phase' = "shutdown" /\ methods' = <<>>
          /\ UNCHANGED <<disabled, loaderPc, toLoad, fresh, guids, lockVars, maskVars, askVars, eventMaskHigh, callVars, hook>>
        BY <1>2 DEF Shutdown
    <2>2. methods' \in Seq(Entry) /\ DOMAIN methods' = {}
        BY <2>1
    <2>3. TypeOK'
        BY <1>0, <2>1, <2>2 DEF TypeOK, lockVars, maskVars, askVars, callVars
    <2>4. PriorityOrder' /\ LoaderInv' /\ CallInv'
        BY <1>0, <2>1, <2>2 DEF PriorityOrder, LoaderInv, CallInv, lockVars, maskVars, callVars
    <2>5. StackInv' /\ TopInv' /\ HostInv'
        BY <1>0, <2>1, <2>2 DEF FlagsInv, StackInv, TopInv, HostInv, Top, Listed, lockVars, maskVars, askVars
    <2> QED BY <2>2, <2>3, <2>4, <2>5 DEF IInv, FlagsInv
<1> QED BY <1>1, <1>2, InitializeKeeps DEF Engine

LEMMA StepInv == IInv /\ [Next]_vars => IInv'
<1> SUFFICES ASSUME IInv, [Next]_vars PROVE IInv'
    OBVIOUS
<1>1. CASE UNCHANGED vars
    <2> USE <1>1 DEF vars, loadVars, listVars, lockVars, maskVars, askVars, callVars
    <2>1. TypeOK'
        BY DEF IInv, TypeOK
    <2>2. PriorityOrder' /\ LoaderInv' /\ CallInv'
        BY DEF IInv, PriorityOrder, LoaderInv, CallInv
    <2>3. FlagsInv'
        BY FlagsKept DEF IInv
    <2> QED BY <2>1, <2>2, <2>3 DEF IInv
<1> QED BY <1>1, CallsKeep, LoadKeeps, EngineKeeps DEF Next

LEMMA Invariance == Spec => []IInv
<1> QED BY InitInv, StepInv, PTL DEF Spec

-----------------------------------------------------------------------------
\* The registry keeps its type, and m_cs is held exactly while a method
\* initializes or the CLR is given a mask.
THEOREM TypeCorrect == Spec => []TypeOK
<1>1. IInv => TypeOK
    BY DEF IInv
<1> QED BY <1>1, Invariance, PTL

\* The methods are called in the order of their priorities.
THEOREM PriorityOrdered == Spec => []PriorityOrder
<1>1. IInv => PriorityOrder
    BY DEF IInv
<1> QED BY <1>1, Invariance, PTL

\* The entry of a method in whose Initialize nothing is added or removed has the
\* flags that the method asked for, and the host's mask has none of them.
THEOREM FlagsAreOwn == Spec => []OwnFlags
<1>1. IInv => OwnFlags
    BY DEF IInv, FlagsInv, HostInv, EntryInv, OwnFlags
<1> QED BY <1>1, Invariance, PTL

\* The CLR's mask keeps what was granted to the host and to those methods.
THEOREM SubscriptionsAreKept == Spec => []SubscriptionsKept
<1>1. IInv => SubscriptionsKept
    BY DEF IInv, FlagsInv, HostInv, EntryInv, SubscriptionsKept
<1> QED BY <1>1, Invariance, PTL
=============================================================================
