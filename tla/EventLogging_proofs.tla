------------------------ MODULE EventLogging_proofs ------------------------
(* Proofs about EventLogging, for any entries, lengths and limit.             *)
EXTENDS EventLogging, NaturalsLemmas

-----------------------------------------------------------------------------
(* Sequences. *)

\* Pushing at the end of three sequences in a row.
LEMMA PushAtEnd ==
    ASSUME NEW a \in Seq(Entries), NEW b \in Seq(Entries), NEW c \in Seq(Entries), NEW e \in Entries
    PROVE  a \o b \o Append(c, e) = Append(a \o b \o c, e)
  OBVIOUS

\* Moving the head of the second to the end of the first.
LEMMA MoveHead ==
    ASSUME NEW a \in Seq(Entries), NEW b \in Seq(Entries), NEW c \in Seq(Entries), b # <<>>
    PROVE  /\ Append(a, Head(b)) \o Tail(b) \o c = a \o b \o c
           /\ Tail(b) \in Seq(Entries) /\ Head(b) \in Entries
           /\ Append(a, Head(b)) \in Seq(Entries)
  OBVIOUS

\* The second is empty and the third takes its place.
LEMMA TakePlace ==
    ASSUME NEW a \in Seq(Entries), NEW c \in Seq(Entries)
    PROVE  a \o c \o <<>> = a \o <<>> \o c
  OBVIOUS

-----------------------------------------------------------------------------
(* The inductive invariant. *)

\* How far the source, the thread and the close may be together.
Phases ==
    /\ isShutdown <=> closing # "no"
    /\ init = "ok" <=> thread # "none"
    /\ thread # "none" => source # "none"
    /\ source = "closed" => closing = "closed"
    /\ closing \in {"closing", "closed"} /\ ~timedOut => ThreadEnded
    /\ timedOut => closing \in {"closing", "closed"}

\* The thread holds a batch only while it drains it. A batch that was taken with the shutdown request is the last
\* one: nothing is queued behind it.
LastBatch ==
    /\ thread # "draining" => batch = <<>>
    /\ thread = "none" => queue = <<>>
    /\ fShutdown => isShutdown
    /\ thread = "draining" /\ fShutdown => queue = <<>>
    /\ thread = "done" => isShutdown /\ queue = <<>>

\* Wherever the thread is on its way to the wait, the event is set, or could not be, when there is something to wake up
\* for.
Wake ==
    /\ thread \in {"starting", "waiting", "draining"} /\ queue # <<>> => signal \/ missed
    /\ thread \in {"starting", "waiting"} /\ isShutdown => signal \/ missed
    /\ thread = "draining" /\ isShutdown /\ ~fShutdown => signal \/ missed

IInv == TypeOK /\ Phases /\ LastBatch /\ Wake /\ NothingLost

\* The invariant holds before the event source is initialized.
LEMMA InitInv == Init => IInv
<1> SUFFICES ASSUME Init PROVE IInv
  OBVIOUS
<1>0. /\ <<>> \in Seq(Entries) /\ {} \subseteq Entries /\ 0 \in Nat
      /\ <<>> \in Seq({"written", "refused", "closed"})
  OBVIOUS
<1>1. TypeOK
  BY <1>0, Zenon DEF Init, TypeOK
<1>2. Phases /\ LastBatch /\ Wake
  BY DEF Init, Phases, LastBatch, Wake, ThreadEnded
<1>3. NothingLost
  BY DEF Init, NothingLost
<1> QED BY <1>1, <1>2, <1>3 DEF IInv

\* InitializeEventSource: there is no thread before, and nothing is queued.
LEMMA InitializeEventSourceKeeps == IInv /\ InitializeEventSource => IInv'
<1> SUFFICES ASSUME IInv, InitializeEventSource PROVE IInv'
  OBVIOUS
<1> USE DEF InitializeEventSource, queueVars, closeVars, reportVars
<1>1. TypeOK'
  BY DEF IInv, TypeOK
<1>2. Phases' /\ LastBatch' /\ Wake'
  BY DEF IInv, TypeOK, Phases, LastBatch, Wake, ThreadEnded
<1>3. NothingLost'
  BY DEF IInv, NothingLost
<1> QED BY <1>1, <1>2, <1>3 DEF IInv

\* AppendToQueue: an entry is pushed only before the shutdown, and sets the event.
LEMMA AppendToQueueKeeps ==
    ASSUME IInv, NEW e \in Entries, AppendToQueue(e)
    PROVE  IInv'
<1> USE DEF AppendToQueue, threadVars, closeVars, reportVars
<1>1. CASE ~isShutdown /\ Fits(e) /\ Push(e)
  <2> USE DEF Push, Succeeds, Fails
  <2> DEFINE q == Append(queue, e)
             a == Append(accepted, e)
  <2>0. queue \in Seq(Entries) /\ accepted \in Seq(Entries) /\ queueLength \in Nat /\ LengthOf[e] \in Nat
    BY EntriesAssumption DEF IInv, TypeOK
  <2>1. q \in Seq(Entries) /\ a \in Seq(Entries) /\ queueLength + LengthOf[e] \in Nat /\ q # <<>>
    <3>1. q \in Seq(Entries) /\ a \in Seq(Entries)
      BY <2>0
    <3>2. queueLength + LengthOf[e] \in Nat
      BY <2>0
    <3>3. Len(q) = Len(queue) + 1 /\ Len(queue) \in Nat
      BY <2>0
    <3>4. q # <<>>
      BY <3>1, <3>3
    <3> QED BY <3>1, <3>2, <3>4
  <2>2. NothingLost'
    <3>1. accepted' = reported' \o batch' \o queue'
      <4>1. a = reported \o batch \o q
        <5>1. reported \in Seq(Entries) /\ batch \in Seq(Entries) /\ accepted = reported \o batch \o queue
          BY DEF IInv, TypeOK, NothingLost
        <5>2. \A x, y, z \in Seq(Entries) : x \o y \o Append(z, e) = Append(x \o y \o z, e)
          BY PushAtEnd
        <5> QED BY <2>0, <5>1, <5>2, Zenon
      <4>2. accepted' = a /\ queue' = q /\ reported' = reported /\ batch' = batch
        BY <1>1
      <4> HIDE DEF a, q
      <4> QED BY <4>1, <4>2
    <3>2. outcomes' = outcomes /\ timedOut' = timedOut
      OBVIOUS
    <3> QED BY <3>1, <3>2 DEF IInv, NothingLost
  <2>3. queue' = q /\ accepted' = a
    BY <1>1
  <2> HIDE DEF q, a
  <2>4. TypeOK'
    BY <1>1, <2>1, <2>3 DEF IInv, TypeOK
  <2>5. Phases' /\ LastBatch' /\ Wake'
    BY <1>1, <2>1, <2>3 DEF IInv, TypeOK, Phases, LastBatch, Wake, ThreadEnded
  <2> QED BY <2>2, <2>4, <2>5 DEF IInv
<1>2. CASE (isShutdown \/ ~Fits(e)) /\ UNCHANGED <<queue, queueLength, accepted, signal, missed>>
  <2>1. TypeOK'
    BY <1>2 DEF IInv, TypeOK
  <2>2. Phases' /\ LastBatch' /\ Wake' /\ NothingLost'
    BY <1>2 DEF IInv, Phases, LastBatch, Wake, NothingLost, ThreadEnded
  <2> QED BY <2>1, <2>2 DEF IInv
<1> QED BY <1>1, <1>2

\* The steps of the thread that touch no entry.
LEMMA WaitingKeeps == IInv /\ (ThreadStarts \/ WaitReturns \/ WaitFails \/ BatchDone) => IInv'
<1> SUFFICES ASSUME IInv, ThreadStarts \/ WaitReturns \/ WaitFails \/ BatchDone PROVE IInv'
  OBVIOUS
<1> USE DEF ThreadStarts, WaitReturns, WaitFails, BatchDone, queueVars, closeVars, reportVars
<1>1. TypeOK'
  <2>1. CASE ThreadStarts
    BY <2>1 DEF IInv, TypeOK
  <2>2. CASE WaitReturns
    BY <2>2 DEF IInv, TypeOK
  <2>3. CASE WaitFails
    BY <2>3 DEF IInv, TypeOK
  <2>4. CASE BatchDone
    BY <2>4 DEF IInv, TypeOK
  <2> QED BY <2>1, <2>2, <2>3, <2>4
<1>2. Phases'
  BY DEF IInv, Phases, ThreadEnded
<1>3. LastBatch'
  BY DEF IInv, LastBatch
<1>4. Wake'
  BY DEF IInv, TypeOK, LastBatch, Wake
<1>5. NothingLost'
  BY DEF IInv, NothingLost
<1> QED BY <1>1, <1>2, <1>3, <1>4, <1>5 DEF IInv

\* TakeQueue: the queue becomes the batch, which was empty.
LEMMA TakeQueueKeeps == IInv /\ TakeQueue => IInv'
<1> SUFFICES ASSUME IInv, TakeQueue PROVE IInv'
  OBVIOUS
<1> USE DEF TakeQueue, closeVars, reportVars
<1>1. TypeOK'
  <2>1. batch' \in Seq(Entries) /\ queue' \in Seq(Entries) /\ queueLength' \in Nat
    BY DEF IInv, TypeOK
  <2>2. UNCHANGED <<init, source, signal, isShutdown, closing, timedOut, offered, accepted, reported, outcomes>>
    OBVIOUS
  <2>3. thread' = "draining" /\ fShutdown' = isShutdown /\ missed' = FALSE
    OBVIOUS
  <2> QED BY <2>1, <2>2, <2>3, Zenon DEF IInv, TypeOK
<1>2. Phases' /\ LastBatch' /\ Wake'
  BY DEF IInv, TypeOK, Phases, LastBatch, Wake, ThreadEnded
<1>3. NothingLost'
  BY TakePlace DEF IInv, TypeOK, LastBatch, NothingLost
<1> QED BY <1>1, <1>2, <1>3 DEF IInv

\* ReportItem: unless the wait for the thread timed out, the source is open.
LEMMA ReportItemKeeps == IInv /\ ReportItem => IInv'
<1> SUFFICES ASSUME IInv, ReportItem PROVE IInv'
  OBVIOUS
<1> USE DEF ReportItem, queueVars, closeVars
<1>1. /\ Append(reported, Head(batch)) \o Tail(batch) \o queue = reported \o batch \o queue
      /\ Tail(batch) \in Seq(Entries) /\ Append(reported, Head(batch)) \in Seq(Entries)
  BY MoveHead DEF IInv, TypeOK
<1>2. TypeOK'
  <2>1. PICK o \in Outcomes : outcomes' = Append(outcomes, o)
    OBVIOUS
  <2>2. outcomes' \in Seq({"written", "refused", "closed"})
    BY <2>1 DEF Outcomes, IInv, TypeOK
  <2> QED BY <1>1, <2>2 DEF IInv, TypeOK
<1>3. Phases' /\ LastBatch' /\ Wake'
  BY DEF IInv, Phases, LastBatch, Wake, ThreadEnded
<1>4. ~timedOut => source = "open"
  BY DEF IInv, TypeOK, Phases, ThreadEnded
<1>5. NothingLost'
  <2>1. accepted' = reported' \o batch' \o queue'
    BY <1>1 DEF IInv, NothingLost
  <2>2. ASSUME ~timedOut', NEW i \in 1 .. Len(outcomes') PROVE outcomes'[i] # "closed"
    <3>1. PICK o \in Outcomes : outcomes' = Append(outcomes, o)
      OBVIOUS
    <3>2. o # "closed"
      BY <1>4, <2>2 DEF Outcomes
    <3>3. outcomes \in Seq({"written", "refused", "closed"})
      BY DEF IInv, TypeOK
    <3>4. \A j \in 1 .. Len(outcomes) : outcomes[j] # "closed"
      BY <2>2 DEF IInv, NothingLost
    <3> QED BY <2>2, <3>1, <3>2, <3>3, <3>4
  <2> QED BY <2>1, <2>2 DEF NothingLost
<1> QED BY <1>2, <1>3, <1>5 DEF IInv

\* The steps of TerminateEventSource.
LEMMA TerminationKeeps == IInv /\ (RequestShutdown \/ AwaitThread \/ Deregister) => IInv'
<1> SUFFICES ASSUME IInv, RequestShutdown \/ AwaitThread \/ Deregister PROVE IInv'
  OBVIOUS
<1> USE DEF RequestShutdown, Succeeds, Fails, AwaitThread, Deregister, threadVars, queueVars, reportVars
<1>1. TypeOK'
  BY DEF IInv, TypeOK
<1>2. Phases'
  BY DEF IInv, TypeOK, Phases, ThreadEnded
<1>3. LastBatch' /\ Wake'
  BY DEF IInv, LastBatch, Wake
<1>4. NothingLost'
  BY DEF IInv, Phases, NothingLost
<1> QED BY <1>1, <1>2, <1>3, <1>4 DEF IInv

LEMMA NextInv == IInv /\ [Next]_vars => IInv'
<1> SUFFICES ASSUME IInv, [Next]_vars PROVE IInv'
  OBVIOUS
<1>1. CASE InitializeEventSource
  BY <1>1, InitializeEventSourceKeeps
<1>2. ASSUME NEW e \in Entries, AppendToQueue(e) PROVE IInv'
  BY <1>2, AppendToQueueKeeps
<1>3. CASE ThreadStarts \/ WaitReturns \/ WaitFails \/ BatchDone
  BY <1>3, WaitingKeeps
<1>4. CASE TakeQueue
  BY <1>4, TakeQueueKeeps
<1>5. CASE ReportItem
  BY <1>5, ReportItemKeeps
<1>6. CASE RequestShutdown \/ AwaitThread \/ Deregister
  BY <1>6, TerminationKeeps
<1>7. CASE UNCHANGED vars
  BY <1>7 DEF vars, threadVars, queueVars, closeVars, reportVars, IInv, TypeOK, Phases, LastBatch, Wake, NothingLost, ThreadEnded
<1> QED BY <1>1, <1>2, <1>3, <1>4, <1>5, <1>6, <1>7 DEF Next

LEMMA Invariance == Spec => []IInv
<1> QED BY InitInv, NextInv, PTL DEF Spec

-----------------------------------------------------------------------------
(* The theorems. *)

\* An entry that AppendToQueue took was given to ReportEvent, is in the thread's batch or is queued, in order and once,
\* whichever calls fail, and ReportEvent had an open source unless the wait of TerminateEventSource timed out: for any
\* entries, lengths and limit.
THEOREM NothingIsLost == Spec => []NothingLost
<1>1. IInv => NothingLost
  BY DEF IInv
<1> QED BY <1>1, Invariance, PTL

\* The event is set whenever the thread of LogEventThreadProc waits and has entries or a shutdown to see, unless the last
\* SetEvent failed.
THEOREM NoWakeupIsLost == Spec => []NoLostWakeup
<1>1. IInv => NoLostWakeup
  BY DEF IInv, Wake, NoLostWakeup
<1> QED BY <1>1, Invariance, PTL

\* A TerminateEventSource that did not time out has let the thread drain the queue.
THEOREM CloseDrains == Spec => []DrainedAtClose
<1>1. IInv => DrainedAtClose
  BY DEF IInv, TypeOK, Phases, LastBatch, DrainedAtClose, ThreadEnded
<1> QED BY <1>1, Invariance, PTL

-----------------------------------------------------------------------------
(* The length of the queue. *)

\* The running sums of the lengths exist and are numbers.
LEMMA LengthFacts ==
    ASSUME NEW s \in Seq(Entries)
    PROVE  /\ LengthBefore(s) \in [1 .. Len(s) + 1 -> Nat]
           /\ LengthBefore(s)[1] = 0
           /\ \A i \in 2 .. Len(s) + 1 : LengthBefore(s)[i] = LengthBefore(s)[i - 1] + LengthOf[s[i - 1]]
<1> DEFINE sum == LengthBefore(s)
           N == Len(s) + 1
           d == [i \in 1 .. Len(s) |-> LengthOf[s[i]]]
<1>1. N \in Nat /\ N > 0 /\ \A i \in 2 .. N : i - 1 \in 1 .. Len(s) /\ i - 1 \in 1 .. N
  OBVIOUS
<1>2. \A i \in 2 .. N : LengthOf[s[i - 1]] \in Nat
  BY <1>1, EntriesAssumption
<1>3. sum = [i \in 1 .. N |-> IF i = 1 THEN 0 ELSE sum[i - 1] + LengthOf[s[i - 1]]]
  <2>1. PICK g : g = [i \in 1 .. N |-> IF i = 1 THEN 0 ELSE g[i - 1] + d[i - 1]]
    BY <1>1, RunningSumExists
  <2>2. [i \in 1 .. N |-> IF i = 1 THEN 0 ELSE g[i - 1] + d[i - 1]]
        = [i \in 1 .. N |-> IF i = 1 THEN 0 ELSE g[i - 1] + LengthOf[s[i - 1]]]
    <3>1. \A i \in 1 .. N : i # 1 => d[i - 1] = LengthOf[s[i - 1]]
      BY <1>1
    <3> HIDE DEF d
    <3> QED BY <3>1
  <2>3. g = [i \in 1 .. N |-> IF i = 1 THEN 0 ELSE g[i - 1] + LengthOf[s[i - 1]]]
    <3> HIDE DEF d
    <3> QED BY <2>1, <2>2
  <2> QED BY <2>3 DEF LengthBefore
<1>4. \A i \in 1 .. N : sum[i] = IF i = 1 THEN 0 ELSE sum[i - 1] + LengthOf[s[i - 1]]
  <2> DEFINE F == [i \in 1 .. N |-> IF i = 1 THEN 0 ELSE sum[i - 1] + LengthOf[s[i - 1]]]
  <2>1. \A i \in 1 .. N : F[i] = IF i = 1 THEN 0 ELSE sum[i - 1] + LengthOf[s[i - 1]]
    OBVIOUS
  <2>2. sum = F
    BY <1>3
  <2> HIDE DEF F, sum
  <2> QED BY <2>1, <2>2
<1>5. sum = [i \in 1 .. N |-> sum[i]]
  <2> DEFINE F == [i \in 1 .. N |-> IF i = 1 THEN 0 ELSE sum[i - 1] + LengthOf[s[i - 1]]]
  <2>1. F = [i \in 1 .. N |-> F[i]]
    OBVIOUS
  <2>2. sum = F
    BY <1>3
  <2> HIDE DEF F
  <2> QED BY <2>1, <2>2
<1> HIDE DEF sum, N
<1>6. \A i \in 1 .. N : sum[i] \in Nat
  <2> DEFINE T == {i \in 1 .. N : sum[i] \notin Nat}
  <2>1. SUFFICES ASSUME T # {} PROVE FALSE
    OBVIOUS
  <2>2. PICK i \in T : \A m \in T : i <= m
    <3>1. T \subseteq Nat
      BY <1>1
    <3> HIDE DEF T
    <3> QED BY <2>1, <3>1, LeastNatural
  <2>3. i # 1
    BY <1>4, <2>2
  <2>4. i \in 2 .. N /\ i - 1 \in 1 .. N /\ i - 1 \notin T
    BY <1>1, <2>2, <2>3
  <2> QED BY <1>2, <1>4, <2>2, <2>3, <2>4
<1>7. sum \in [1 .. N -> Nat]
  BY <1>5, <1>6
<1>8. sum[1] = 0 /\ \A i \in 2 .. N : sum[i] = sum[i - 1] + LengthOf[s[i - 1]]
  BY <1>1, <1>4
<1> QED BY <1>7, <1>8 DEF sum, N

\* No entries have no length.
LEMMA LengthOfNone == LengthBefore(<<>>)[1] = 0 /\ Len(<<>>) + 1 = 1
<1> DEFINE s == <<>>
<1>1. s \in Seq(Entries) /\ Len(s) + 1 = 1
  OBVIOUS
<1> HIDE DEF s
<1>2. LengthBefore(s)[1] = 0
  BY <1>1, LengthFacts
<1> QED BY <1>1, <1>2 DEF s

\* An entry at the end adds its length.
LEMMA LengthOfAppend ==
    ASSUME NEW s \in Seq(Entries), NEW e \in Entries
    PROVE  LengthBefore(Append(s, e))[Len(s) + 2] = LengthBefore(s)[Len(s) + 1] + LengthOf[e]
<1> DEFINE t == Append(s, e)
           N == Len(s) + 1
           a == LengthBefore(s)
           b == LengthBefore(t)
<1>1. /\ t \in Seq(Entries) /\ Len(t) = N /\ N \in Nat /\ N > 0 /\ t[N] = e
      /\ \A i \in 2 .. N : t[i - 1] = s[i - 1]
  OBVIOUS
<1>2. a \in [1 .. N -> Nat] /\ a[1] = 0 /\ \A i \in 2 .. N : a[i] = a[i - 1] + LengthOf[s[i - 1]]
  BY LengthFacts
<1> HIDE DEF t
<1>3. b \in [1 .. N + 1 -> Nat] /\ b[1] = 0 /\ \A i \in 2 .. N + 1 : b[i] = b[i - 1] + LengthOf[t[i - 1]]
  BY <1>1, LengthFacts
<1> HIDE DEF a, b, N
<1>4. \A i \in 1 .. N : a[i] = b[i]
  <2> DEFINE T == {i \in 1 .. N : a[i] # b[i]}
  <2>1. SUFFICES ASSUME T # {} PROVE FALSE
    OBVIOUS
  <2>2. PICK i \in T : \A m \in T : i <= m
    <3>1. T \subseteq Nat
      BY <1>1
    <3> HIDE DEF T
    <3> QED BY <2>1, <3>1, LeastNatural
  <2>3. i # 1
    BY <1>2, <1>3, <2>2
  <2>4. i \in 2 .. N /\ i \in 2 .. N + 1 /\ i - 1 \in 1 .. N /\ i - 1 \notin T
    BY <1>1, <2>2, <2>3
  <2> QED BY <1>1, <1>2, <1>3, <2>2, <2>4
<1>5. N + 1 \in 2 .. N + 1 /\ (N + 1) - 1 = N /\ N \in 1 .. N
  BY <1>1
<1>6. b[N + 1] = a[N] + LengthOf[e]
  BY <1>1, <1>3, <1>4, <1>5
<1>7. N + 1 = Len(s) + 2
  BY <1>1 DEF N
<1> QED BY <1>6, <1>7 DEF a, b, t, N

\* Every step keeps the length of the queue.
LEMMA NextLength == IInv /\ LengthTracked /\ [Next]_vars => LengthTracked'
<1> SUFFICES ASSUME IInv, LengthTracked, [Next]_vars PROVE LengthTracked'
  OBVIOUS
<1>1. ASSUME UNCHANGED <<queue, queueLength>> PROVE LengthTracked'
  BY <1>1 DEF LengthTracked, Last
<1>2. ASSUME NEW e \in Entries, AppendToQueue(e) PROVE LengthTracked'
  <2>1. CASE Fits(e) /\ Push(e)
    <3>1. queue \in Seq(Entries) /\ queueLength \in Nat /\ LengthOf[e] \in Nat /\ MaxQueueLength \in Nat
      BY EntriesAssumption, LimitAssumption DEF IInv, TypeOK
    <3>2. queue' = Append(queue, e) /\ queueLength' = queueLength + LengthOf[e] /\ queueLength < MaxQueueLength
      BY <2>1 DEF Fits, Push
    <3>3. Len(queue') = Len(queue) + 1 /\ Last(queue') = e /\ Len(queue) \in Nat
      BY <3>1, <3>2 DEF Last
    <3>4. LengthBefore(queue')[Len(queue') + 1] = LengthBefore(queue)[Len(queue) + 1] + LengthOf[e]
      <4>1. Len(queue') + 1 = Len(queue) + 2
        BY <3>3
      <4>2. LengthBefore(queue')[Len(queue) + 2] = LengthBefore(queue)[Len(queue) + 1] + LengthOf[e]
        BY <3>1, <3>2, LengthOfAppend
      <4> QED BY <4>1, <4>2
    <3>5. queueLength' = LengthBefore(queue')[Len(queue') + 1]
      BY <3>2, <3>4 DEF LengthTracked
    <3>6. queueLength' - LengthOf[Last(queue')] < MaxQueueLength
      BY <3>1, <3>2, <3>3
    <3> QED BY <3>5, <3>6 DEF LengthTracked
  <2>2. CASE UNCHANGED <<queue, queueLength>>
    BY <1>1, <2>2
  <2> QED BY <1>2, <2>1, <2>2 DEF AppendToQueue
<1>3. CASE TakeQueue
  <2>1. queue' = <<>> /\ queueLength' = 0
    BY <1>3 DEF TakeQueue
  <2>2. LengthBefore(<<>>)[1] = 0 /\ Len(<<>>) + 1 = 1
    BY LengthOfNone
  <2> QED BY <2>1, <2>2 DEF LengthTracked
<1>4. CASE \/ InitializeEventSource \/ ThreadStarts \/ WaitReturns \/ WaitFails \/ ReportItem \/ BatchDone
           \/ RequestShutdown \/ AwaitThread \/ Deregister \/ UNCHANGED vars
  BY <1>1, <1>4 DEF InitializeEventSource, ThreadStarts, WaitReturns, WaitFails, ReportItem, BatchDone, RequestShutdown, AwaitThread,
                    Deregister, vars, queueVars
<1> QED BY <1>2, <1>3, <1>4 DEF Next

\* For any entries and limit, m_eventQueueLength is the length of what is queued, whatever the thread takes meanwhile,
\* and AppendToQueue lets it exceed the limit by less than the last entry.
THEOREM LengthIsTracked == Spec => []LengthTracked
<1>1. Init => LengthTracked
  <2>1. LengthBefore(<<>>)[1] = 0 /\ Len(<<>>) + 1 = 1
    BY LengthOfNone
  <2> QED BY <2>1 DEF Init, LengthTracked
<1> QED BY <1>1, NextLength, Invariance, PTL DEF Spec

-----------------------------------------------------------------------------
(* The steps of the refinement. *)

\* What the abstract log sees of the state.
Pending == batch \o queue
Works == thread # "failed" /\ source # "closed" /\ ~missed

\* A step that leaves the entries alone is a Change, or none of the log's.
LEMMA Changes ==
    ASSUME Pending' = Pending, reported' = reported, outcomes' = outcomes
    PROVE  [Log!Next]_(Log!vars)
<1>1. Works' \in BOOLEAN
  BY Zenon DEF Works
<1>2. Log!Change
  BY <1>1, Zenon DEF Log!Change, Pending, Works
<1> QED BY <1>2, Zenon DEF Log!Next

\* AppendToQueue is an Accept, or nothing.
LEMMA AppendAccepts ==
    ASSUME IInv, NEW e \in Entries, AppendToQueue(e)
    PROVE  [Log!Next]_(Log!vars)
<1> USE DEF AppendToQueue, threadVars, closeVars, reportVars
<1>1. CASE ~isShutdown /\ Fits(e) /\ Push(e)
  <2>1. batch \in Seq(Entries) /\ queue \in Seq(Entries) /\ queue' = Append(queue, e) /\ batch' = batch
    BY <1>1 DEF IInv, TypeOK, Push
  <2>2. batch \o Append(queue, e) = Append(batch \o queue, e)
    BY <2>1
  <2>3. batch' \o queue' = Append(batch \o queue, e)
    BY <2>1, <2>2, Zenon
  <2>4. reported' = reported /\ outcomes' = outcomes
    OBVIOUS
  <2>5. Works' \in BOOLEAN
    BY Zenon DEF Works
  <2>6. Log!Accept(e)
    BY <2>3, <2>4, <2>5, Zenon DEF Log!Accept, Works
  <2> QED BY <2>6, Zenon DEF Log!Next
<1>2. CASE (isShutdown \/ ~Fits(e)) /\ UNCHANGED <<queue, queueLength, accepted, signal, missed>>
  BY <1>2, Changes DEF Pending
<1> QED BY <1>1, <1>2

\* ReportItem is a Write, a Refuse, or a Lose when the source was closed under the thread.
LEMMA ReportGives ==
    ASSUME IInv, ReportItem
    PROVE  Log!Write \/ Log!Refuse \/ Log!Lose
<1> USE DEF ReportItem, queueVars, closeVars
<1>1. /\ batch \in Seq(Entries) /\ queue \in Seq(Entries) /\ batch # <<>> /\ batch' = Tail(batch) /\ queue' = queue
      /\ thread = "draining" /\ thread' = thread /\ source' = source /\ missed' = missed
      /\ source = "open" \/ source = "closed"
      /\ reported' = Append(reported, Head(batch))
  BY DEF IInv, TypeOK, Phases
<1>2. Head(batch \o queue) = Head(batch) /\ Tail(batch \o queue) = Tail(batch) \o queue /\ batch \o queue # <<>>
  BY <1>1
<1>3. batch' \o queue' = Tail(batch \o queue) /\ reported' = Append(reported, Head(batch \o queue))
  BY <1>1, <1>2, Zenon
<1>4. PICK o \in Outcomes : outcomes' = Append(outcomes, o)
  OBVIOUS
<1>5. Works' = Works
  BY <1>1 DEF Works
<1>6. Log!Give(o)
  BY <1>2, <1>3, <1>4, <1>5, Zenon DEF Log!Give, Works
<1>7. o \in {"written", "refused"} \/ (o = "closed" /\ source = "closed")
  BY <1>1, <1>4 DEF Outcomes
<1>8. CASE o = "written"
  BY <1>6, <1>8, Zenon DEF Log!Write
<1>9. CASE o = "refused"
  BY <1>6, <1>9, Zenon DEF Log!Refuse
<1>10. CASE o = "closed" /\ source = "closed"
  <2>1. ~Works
    BY <1>10 DEF Works
  <2> QED BY <1>6, <1>10, <2>1, Zenon DEF Log!Lose, Works
<1> QED BY <1>7, <1>8, <1>9, <1>10

LEMMA StepRefines == IInv /\ [Next]_vars => [Log!Next]_(Log!vars)
<1> SUFFICES ASSUME IInv, [Next]_vars PROVE [Log!Next]_(Log!vars)
  OBVIOUS
<1>1. CASE InitializeEventSource
  BY <1>1, Changes DEF InitializeEventSource, queueVars, reportVars, Pending
<1>2. ASSUME NEW e \in Entries, AppendToQueue(e) PROVE [Log!Next]_(Log!vars)
  BY <1>2, AppendAccepts
<1>3. CASE ThreadStarts \/ WaitReturns \/ WaitFails \/ BatchDone
  BY <1>3, Changes DEF ThreadStarts, WaitReturns, WaitFails, BatchDone, queueVars, reportVars, Pending
<1>4. CASE TakeQueue
  <2>1. batch = <<>> /\ queue \in Seq(Entries) /\ batch' = queue /\ queue' = <<>>
    BY <1>4 DEF TakeQueue, IInv, TypeOK, LastBatch
  <2>2. queue \o <<>> = <<>> \o queue
    BY <2>1
  <2>3. Pending' = Pending
    BY <2>1, <2>2, Zenon DEF Pending
  <2> QED BY <1>4, <2>3, Changes DEF TakeQueue, reportVars
<1>5. CASE ReportItem
  BY <1>5, ReportGives, Zenon DEF Log!Next
<1>6. CASE RequestShutdown \/ AwaitThread \/ Deregister
  BY <1>6, Changes DEF RequestShutdown, AwaitThread, Deregister, threadVars, queueVars, reportVars, Pending
<1>7. CASE UNCHANGED vars
  BY <1>7, Changes DEF vars, threadVars, queueVars, reportVars, Pending
<1> QED BY <1>1, <1>2, <1>3, <1>4, <1>5, <1>6, <1>7 DEF Next

\* The queue, the event and the thread implement the steps of the abstract log: entries are accepted, given to
\* ReportEvent in order and each once, and meet a closed source only after the logger was closed under its thread.
THEOREM StepsImplementEventLog == Spec => Log!Init /\ [][Log!Next]_(Log!vars)
<1>1. Init => Log!Init
  <2> SUFFICES ASSUME Init PROVE Log!Init
    OBVIOUS
  <2>1. batch \o queue = <<>> /\ reported = <<>> /\ outcomes = <<>>
    BY DEF Init
  <2>2. thread # "failed" /\ source # "closed" /\ ~missed
    BY DEF Init
  <2> QED BY <2>1, <2>2, Zenon DEF Log!Init
<1> QED BY <1>1, Invariance, StepRefines, PTL DEF Spec
=============================================================================
