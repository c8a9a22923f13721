----------------------- MODULE SingleReturn_proofs -----------------------
(* Proofs, for any method bodies, types and number of calls, that every step   *)
(* of a method's instrumentation uses the collection of local variables as     *)
(* LocalVariables says; that the indexes AddLocal hands out stay right until   *)
(* the signature of the rendered method exists; that a probe at the branch     *)
(* target of the single return sees every return; and that the method with the *)
(* single return does what the original does.                                  *)
EXTENDS SingleReturn, NaturalsLemmas, FiniteSetTheorems

-----------------------------------------------------------------------------
(* Sequences of types. *)

\* sig has the local that was given as g.
Names(sig, g) == g.index < Len(sig) /\ sig[g.index + 1] = g.type

LEMMA NamesAfterConcat ==
    ASSUME NEW s \in Seq(Types), NEW t \in Seq(Types), NEW g \in [index : Nat, type : Types], Names(s, g)
    PROVE  Names(s \o t, g)
  BY DEF Names

LEMMA NamesTheNew ==
    ASSUME NEW s \in Seq(Types), NEW t \in Seq(Types), NEW type \in Types
    PROVE  Names(s \o Append(t, type), [index |-> Len(s) + Len(t), type |-> type])
  BY DEF Names

LEMMA ConcatAppend ==
    ASSUME NEW s \in Seq(Types), NEW t \in Seq(Types), NEW type \in Types
    PROVE  s \o Append(t, type) = (s \o t) \o <<type>>
  OBVIOUS

LEMMA ConcatFacts ==
    ASSUME NEW s \in Seq(Types), NEW t \in Seq(Types)
    PROVE  /\ s \o t \in Seq(Types) /\ Len(s \o t) = Len(s) + Len(t)
           /\ s \o <<>> = s /\ <<>> \o t = t
           /\ Len(s) \in Nat /\ (Len(s) = 0 => s = <<>>)
  OBVIOUS

\* The signatures that callers bring extend the one of the header.
LEMMA ExtensionsAre ==
    ASSUME sigToken \in Seq(Types), NEW sig \in Locals!Extensions
    PROVE  sig \in Seq(Types) /\ \E t \in Seq(Types) : sig = sigToken \o t
<1>1. <<>> \in Seq(Types) /\ sigToken = sigToken \o <<>>
  OBVIOUS
<1>2. ASSUME NEW u \in Types
      PROVE  <<u>> \in Seq(Types) /\ Append(sigToken, u) = sigToken \o <<u>> /\ Append(sigToken, u) \in Seq(Types)
  OBVIOUS
<1>3. sig = sigToken \/ \E u \in Types : sig = Append(sigToken, u)
  BY DEF Locals!Extensions
<1>4. CASE sig = sigToken
  BY <1>1, <1>4
<1>5. CASE \E u \in Types : sig = Append(sigToken, u)
  <2>1. PICK u \in Types : sig = Append(sigToken, u)
    BY <1>5
  <2>2. sig = sigToken \o <<u>> /\ <<u>> \in Seq(Types) /\ sig \in Seq(Types)
    BY <1>2, <2>1
  <2> QED BY <2>2
<1> QED BY <1>3, <1>4, <1>5

-----------------------------------------------------------------------------
(* The inductive invariant. *)

\* The locals a party counts on, whether the collection has counted them or not.
Current == IF initialized THEN Locals!OriginalSignature \o typesToAdd ELSE sigToken

\* The collection holds types only with a count, and a replacement that parses is counted at once.
Counted ==
    /\ initialized => Locals!OriginalSignature \in Seq(Types)
    /\ ~initialized => typesToAdd = <<>> /\ replacementSig \in {Null, Garbled}
    /\ initialized /\ ~overwritten => originalLocalsCount = Len(Locals!OriginalSignature)

GivenNamed == ~overwritten => \A g \in given : Names(Current, g)

IInv == Locals!TypeOK /\ Counted /\ GivenNamed

LEMMA InitInv == Locals!Init => IInv
<1> SUFFICES ASSUME Locals!Init PROVE IInv
  OBVIOUS
<1>1. sigToken \in Seq(Types)
  <2>1. \A u \in Types : <<u>> \in Seq(Types)
    OBVIOUS
  <2>2. sigToken = <<>> \/ \E u \in Types : sigToken = <<u>>
    BY DEF Locals!Init
  <2>3. CASE sigToken = <<>>
    BY <2>3
  <2>4. CASE \E u \in Types : sigToken = <<u>>
    BY <2>1, <2>4, Zenon
  <2> QED BY <2>2, <2>3, <2>4
<1>2. <<>> \in Seq(Types) /\ 0 \in Nat
  OBVIOUS
<1>3. Locals!TypeOK
  BY <1>1, <1>2 DEF Locals!Init, Locals!TypeOK
<1>4. Counted /\ GivenNamed
  BY DEF Locals!Init, Counted, GivenNamed
<1> QED BY <1>3, <1>4 DEF IInv

\* A signature that is committed is one, and it has the locals everybody counts on.
LEMMA CorSignatureIsCurrent ==
    ASSUME IInv, initialized
    PROVE  Locals!CorSignature \in Seq(Types) /\ (~overwritten => Locals!CorSignature = Current)
<1> DEFINE n == originalLocalsCount + Len(typesToAdd)
           o == Locals!OriginalSignature
           types == (IF originalLocalsCount > 0 THEN o ELSE <<>>) \o typesToAdd
<1>1. o \in Seq(Types) /\ typesToAdd \in Seq(Types) /\ originalLocalsCount \in Nat /\ <<>> \in Seq(Types)
  BY DEF IInv, Locals!TypeOK, Counted
<1>2. Locals!CorSignature = IF n < Len(types) THEN SubSeq(types, 1, n) ELSE types
  BY DEF Locals!CorSignature
<1> HIDE DEF o
<1>3. types \in Seq(Types) /\ n \in Nat /\ Len(types) \in Nat
  BY <1>1
<1>4. ~overwritten => types = o \o typesToAdd /\ n = Len(types)
  <2> SUFFICES ASSUME ~overwritten PROVE types = o \o typesToAdd /\ n = Len(types)
    OBVIOUS
  <2>1. originalLocalsCount = Len(o)
    BY DEF IInv, Counted, o
  <2>2. CASE originalLocalsCount > 0
    BY <1>1, <2>1, <2>2, ConcatFacts
  <2>3. CASE originalLocalsCount = 0
    <3>1. o = <<>>
      BY <1>1, <2>1, <2>3, ConcatFacts
    <3> QED BY <1>1, <2>1, <2>3, <3>1, ConcatFacts
  <2>4. originalLocalsCount > 0 \/ originalLocalsCount = 0
    BY <1>1
  <2> HIDE DEF types, n
  <2> QED BY <2>2, <2>3, <2>4
<1>5. ~overwritten => Current = o \o typesToAdd
  BY DEF Current, o
<1> HIDE DEF types, n
<1>6. n < Len(types) => SubSeq(types, 1, n) \in Seq(Types)
  BY <1>3
<1>7. Locals!CorSignature \in Seq(Types)
  BY <1>2, <1>3, <1>6
<1>8. ~overwritten => Locals!CorSignature = types
  BY <1>2, <1>3, <1>4
<1> QED BY <1>4, <1>5, <1>7, <1>8

\* What the collection counts when it is asked for the first time.
LEMMA InitializeFacts ==
    ASSUME IInv, Locals!Initialize
    PROVE  /\ Locals!OriginalSignature \in Seq(Types) /\ Locals!Count \in Nat
           /\ ~overwritten => Locals!Count = Len(Locals!OriginalSignature) /\ Current = Locals!OriginalSignature \o typesToAdd
<1>1. typesToAdd \in Seq(Types) /\ sigToken \in Seq(Types) /\ originalLocalsCount \in Nat
  BY DEF IInv, Locals!TypeOK
<1>2. CASE initialized
  BY <1>1, <1>2 DEF IInv, Counted, Locals!Count, Current
<1>3. CASE ~initialized
  <2>1. replacementSig = Null /\ Locals!OriginalSignature = sigToken /\ typesToAdd = <<>>
    BY <1>3, TypesAssumption DEF IInv, Counted, Locals!Initialize, Locals!CanInitialize, Locals!OriginalSignature
  <2>2. sigToken \o <<>> = sigToken /\ Len(sigToken) \in Nat
    BY <1>1, ConcatFacts
  <2> QED BY <1>1, <1>3, <2>1, <2>2 DEF Locals!Count, Current
<1> QED BY <1>2, <1>3

LEMMA GetCountKeeps ==
    ASSUME IInv, Locals!GetCount
    PROVE  IInv'
<1>1. /\ Locals!Initialize /\ initialized' = TRUE /\ originalLocalsCount' = Locals!Count
      /\ UNCHANGED <<sigToken, typesToAdd, replacementSig, given, overwritten>>
  BY DEF Locals!GetCount, Locals!Initialize
<1>2. Locals!OriginalSignature' = Locals!OriginalSignature
  BY <1>1 DEF Locals!OriginalSignature
<1>3. Locals!TypeOK'
  BY <1>1, InitializeFacts DEF IInv, Locals!TypeOK
<1>4. Counted'
  BY <1>1, <1>2, InitializeFacts DEF Counted
<1>5. GivenNamed'
  BY <1>1, <1>2, InitializeFacts DEF IInv, GivenNamed, Current
<1> QED BY <1>3, <1>4, <1>5 DEF IInv

\* AddLocal: the earlier locals keep their places and the new one has the place after them.
LEMMA AddLocalKeeps ==
    ASSUME IInv, NEW type \in Types, Locals!AddLocal(type)
    PROVE  IInv'
<1> DEFINE o == Locals!OriginalSignature
           t == Append(typesToAdd, type)
           new == [index |-> Locals!Count + Len(typesToAdd), type |-> type]
<1>1. /\ Locals!Initialize /\ initialized' = TRUE /\ originalLocalsCount' = Locals!Count
      /\ typesToAdd' = t /\ given' = given \cup {new}
      /\ UNCHANGED <<sigToken, replacementSig, overwritten>>
  BY DEF Locals!AddLocal, Locals!Initialize
<1>2. Locals!OriginalSignature' = o
  BY <1>1 DEF Locals!OriginalSignature
<1>3. o \in Seq(Types) /\ typesToAdd \in Seq(Types) /\ t \in Seq(Types) /\ Locals!Count \in Nat
  <2>1. o \in Seq(Types) /\ Locals!Count \in Nat
    BY <1>1, InitializeFacts
  <2>2. typesToAdd \in Seq(Types) /\ Append(typesToAdd, type) \in Seq(Types)
    BY DEF IInv, Locals!TypeOK
  <2> QED BY <2>1, <2>2
<1>4. new \in [index : Nat, type : Types]
  BY <1>3
<1>5. given \subseteq [index : Nat, type : Types]
  BY DEF IInv, Locals!TypeOK
<1>6. ~overwritten => \A g \in given' : Names(o \o t, g)
  <2> SUFFICES ASSUME ~overwritten, NEW g \in given' PROVE Names(o \o t, g)
    OBVIOUS
  <2>1. Locals!Count = Len(o) /\ Current = o \o typesToAdd
    BY <1>1, InitializeFacts
  <2>2. CASE g = new
    <3>1. Names(o \o t, [index |-> Len(o) + Len(typesToAdd), type |-> type])
      BY <1>3, NamesTheNew
    <3> QED BY <2>1, <2>2, <3>1
  <2>3. CASE g \in given
    <3>1. Names(o \o typesToAdd, g)
      BY <2>1, <2>3 DEF IInv, GivenNamed
    <3>2. g \in [index : Nat, type : Types] /\ <<type>> \in Seq(Types) /\ o \o typesToAdd \in Seq(Types)
      BY <1>3, <1>5, <2>3, ConcatFacts
    <3>3. o \o t = (o \o typesToAdd) \o <<type>>
      BY <1>3, ConcatAppend
    <3> HIDE DEF o, t
    <3> QED BY <3>1, <3>2, <3>3, NamesAfterConcat
  <2> QED BY <1>1, <2>2, <2>3
<1> HIDE DEF o, t, new
<1>7. Locals!TypeOK'
  BY <1>1, <1>3, <1>4, <1>5 DEF IInv, Locals!TypeOK
<1>8. Counted'
  BY <1>1, <1>2, <1>3, InitializeFacts DEF Counted, o
<1>9. GivenNamed'
  BY <1>1, <1>2, <1>6 DEF GivenNamed, Current
<1> QED BY <1>7, <1>8, <1>9 DEF IInv

\* ReplaceSignature: before it, nobody has counted; a replacement begins with what there was.
LEMMA ReplaceSignatureKeeps ==
    ASSUME IInv, NEW sig \in Locals!Extensions \cup {Garbled}, Locals!ReplaceSignature(sig)
    PROVE  IInv'
<1>1. /\ ~initialized /\ replacementSig' = sig /\ typesToAdd = <<>>
      /\ UNCHANGED <<sigToken, typesToAdd, given, overwritten>>
  BY DEF Locals!ReplaceSignature, IInv, Counted
<1>2. sigToken \in Seq(Types) /\ Current = sigToken /\ given \subseteq [index : Nat, type : Types]
  BY <1>1 DEF IInv, Locals!TypeOK, Current
<1>3. CASE sig = Garbled
  <2>1. UNCHANGED <<initialized, originalLocalsCount>>
    BY <1>3 DEF Locals!ReplaceSignature
  <2>2. Locals!TypeOK'
    BY <1>1, <1>3, <2>1 DEF IInv, Locals!TypeOK
  <2>3. Counted'
    BY <1>1, <1>3, <2>1 DEF IInv, Counted
  <2>4. GivenNamed'
    BY <1>1, <1>2, <2>1 DEF IInv, GivenNamed, Current
  <2> QED BY <2>2, <2>3, <2>4 DEF IInv
<1>4. CASE sig # Garbled
  <2>1. initialized' = TRUE /\ originalLocalsCount' = Len(sig)
    BY <1>4 DEF Locals!ReplaceSignature
  <2>2. sig \in Seq(Types) /\ sig \in Locals!Extensions
    BY <1>2, <1>4, ExtensionsAre
  <2>3. Len(sig) \in Nat /\ sig # Null /\ sig \o <<>> = sig
    BY <2>2, ConcatFacts, TypesAssumption
  <2>4. Locals!OriginalSignature' = sig
    BY <1>1, <2>3 DEF Locals!OriginalSignature
  <2>5. Locals!TypeOK'
    BY <1>1, <2>1, <2>2, <2>3 DEF IInv, Locals!TypeOK
  <2>6. Counted'
    BY <2>1, <2>2, <2>4 DEF Counted
  <2>7. PICK t \in Seq(Types) : sig = sigToken \o t
    BY <1>2, <2>2, ExtensionsAre
  <2>8. Current' = sig
    BY <1>1, <2>1, <2>3, <2>4 DEF Current
  <2>9. ASSUME ~overwritten, NEW g \in given PROVE Names(sig, g)
    <3>1. Names(sigToken, g) /\ g \in [index : Nat, type : Types]
      BY <1>2, <2>9 DEF IInv, GivenNamed
    <3> QED BY <1>2, <2>7, <3>1, NamesAfterConcat
  <2>10. GivenNamed'
    BY <1>1, <2>8, <2>9 DEF GivenNamed
  <2> QED BY <2>5, <2>6, <2>10 DEF IInv
<1> QED BY <1>3, <1>4

\* CommitSignature: the header gets what everybody counts on, and the collection starts over.
LEMMA CommitSignatureKeeps ==
    ASSUME IInv, Locals!CommitSignature
    PROVE  IInv'
<1>1. CASE Locals!IsChanged
  <2>1. /\ initialized /\ sigToken' = Locals!CorSignature /\ typesToAdd' = <<>> /\ originalLocalsCount' = 0
        /\ initialized' = FALSE /\ replacementSig' = Null /\ UNCHANGED <<given, overwritten>>
    BY <1>1 DEF Locals!CommitSignature, Locals!IsChanged
  <2>2. Locals!CorSignature \in Seq(Types) /\ (~overwritten => Locals!CorSignature = Current)
    BY <2>1, CorSignatureIsCurrent
  <2>3. <<>> \in Seq(Types) /\ 0 \in Nat
    OBVIOUS
  <2>4. Locals!TypeOK'
    BY <2>1, <2>2, <2>3 DEF IInv, Locals!TypeOK
  <2>5. Counted'
    BY <2>1 DEF Counted
  <2>6. Current' = Locals!CorSignature
    BY <2>1 DEF Current
  <2>7. GivenNamed'
    BY <2>1, <2>2, <2>6 DEF IInv, GivenNamed
  <2> QED BY <2>4, <2>5, <2>7 DEF IInv
<1>2. CASE ~Locals!IsChanged
  <2>1. UNCHANGED Locals!vars
    BY <1>2 DEF Locals!CommitSignature
  <2> QED BY <2>1 DEF Locals!vars, IInv, Locals!TypeOK, Counted, GivenNamed, Current, Locals!OriginalSignature
<1> QED BY <1>1, <1>2

\* SetLocalVarSigToken: harmless only while nobody has counted.
LEMMA SetLocalVarSigTokenKeeps ==
    ASSUME IInv, NEW sig \in Locals!Extensions, Locals!SetLocalVarSigToken(sig)
    PROVE  IInv'
<1>1. /\ sigToken' = sig /\ overwritten' = (overwritten \/ initialized)
      /\ UNCHANGED <<initialized, originalLocalsCount, typesToAdd, replacementSig, given>>
  BY DEF Locals!SetLocalVarSigToken
<1>2. sigToken \in Seq(Types) /\ given \subseteq [index : Nat, type : Types] /\ overwritten \in BOOLEAN /\ initialized \in BOOLEAN
  BY DEF IInv, Locals!TypeOK
<1>3. sig \in Seq(Types) /\ \E t \in Seq(Types) : sig = sigToken \o t
  BY <1>2, ExtensionsAre
<1>4. (overwritten \/ initialized) \in BOOLEAN
  BY <1>2
<1>5. Locals!TypeOK'
  BY <1>1, <1>3, <1>4 DEF IInv, Locals!TypeOK
<1>6. initialized => Locals!OriginalSignature' \in Seq(Types)
  BY <1>1, <1>3 DEF IInv, Counted, Locals!OriginalSignature
<1>7. Counted'
  BY <1>1, <1>2, <1>6 DEF IInv, Counted
<1>8. ASSUME ~overwritten, ~initialized, NEW g \in given PROVE Names(sig, g)
  <2>1. Names(sigToken, g) /\ g \in [index : Nat, type : Types]
    BY <1>2, <1>8 DEF IInv, GivenNamed, Current
  <2>2. PICK t \in Seq(Types) : sig = sigToken \o t
    BY <1>3
  <2> QED BY <1>2, <2>1, <2>2, NamesAfterConcat
<1>9. GivenNamed'
  BY <1>1, <1>2, <1>8 DEF GivenNamed, Current
<1> QED BY <1>5, <1>7, <1>9 DEF IInv

LEMMA NextInv ==
    ASSUME IInv, [Locals!Next]_(Locals!vars)
    PROVE  IInv'
<1>1. CASE Locals!GetCount
  BY <1>1, GetCountKeeps
<1>2. ASSUME NEW t \in Types, Locals!AddLocal(t) PROVE IInv'
  BY <1>2, AddLocalKeeps
<1>3. ASSUME NEW sig \in Locals!Extensions \cup {Garbled}, Locals!ReplaceSignature(sig) PROVE IInv'
  BY <1>3, ReplaceSignatureKeeps
<1>4. CASE Locals!CommitSignature
  BY <1>4, CommitSignatureKeeps
<1>5. ASSUME NEW sig \in Locals!Extensions, Locals!SetLocalVarSigToken(sig) PROVE IInv'
  BY <1>5, SetLocalVarSigTokenKeeps
<1>6. CASE UNCHANGED Locals!vars
  BY <1>6 DEF Locals!vars, IInv, Locals!TypeOK, Counted, GivenNamed, Current, Locals!OriginalSignature
<1> QED BY <1>1, <1>2, <1>3, <1>4, <1>5, <1>6 DEF Locals!Next

\* The signature that the rendered method would have now has every local that was given.
LEMMA IndexesFollow == IInv => IndexesNameLocals
<1> SUFFICES ASSUME IInv, ~overwritten, NEW g \in given
             PROVE  g.index < Len(Locals!FinalSignature) /\ Locals!FinalSignature[g.index + 1] = g.type
  BY DEF IndexesNameLocals, Locals!IndexesNameLocals
<1>1. Names(Current, g)
  BY DEF IInv, GivenNamed
<1>2. Locals!FinalSignature = Current
  <2>1. CASE Locals!IsChanged
    BY <2>1, CorSignatureIsCurrent DEF Locals!FinalSignature, Locals!IsChanged
  <2>2. CASE ~Locals!IsChanged /\ initialized
    <3>1. typesToAdd = <<>> /\ replacementSig = Null /\ sigToken \in Seq(Types)
      BY <2>2 DEF Locals!IsChanged, IInv, Locals!TypeOK
    <3>2. sigToken \o <<>> = sigToken
      BY <3>1, ConcatFacts
    <3> QED BY <2>2, <3>1, <3>2 DEF Locals!FinalSignature, Current, Locals!OriginalSignature
  <2>3. CASE ~initialized
    BY <2>3 DEF Locals!FinalSignature, Current, Locals!IsChanged
  <2> QED BY <2>1, <2>2, <2>3
<1> QED BY <1>1, <1>2 DEF Names

-----------------------------------------------------------------------------
(* The instrumentation of a method. *)

\* The single return adds one local, the rendering commits the signature, and what others do are calls of the collection.
LEMMA StepsUseLocals == [Next]_vars => [Locals!Next]_(Locals!vars)
<1> SUFFICES ASSUME [Next]_vars PROVE [Locals!Next]_(Locals!vars)
  OBVIOUS
<1>1. ASSUME UNCHANGED localVars PROVE [Locals!Next]_(Locals!vars)
  BY <1>1 DEF localVars, Locals!vars
<1>2. ASSUME NEW op, NEW to, Decode(op, to) PROVE [Locals!Next]_(Locals!vars)
  BY <1>1, <1>2 DEF Decode
<1>3. CASE ApplySingleRetDefaultInstrumentation
  <2>1. UNCHANGED localVars \/ Locals!AddLocal("value")
    BY <1>3 DEF ApplySingleRetDefaultInstrumentation
  <2>2. CASE Locals!AddLocal("value")
    BY <2>2, TypesAssumption DEF Locals!Next
  <2> QED BY <1>1, <2>1, <2>2
<1>4. CASE InsertProbe
  BY <1>1, <1>4 DEF InsertProbe
<1>5. CASE UseLocals
  BY <1>5 DEF UseLocals
<1>6. CASE Render
  BY <1>6 DEF Render, Locals!Next
<1>7. CASE Execute
  BY <1>1, <1>7 DEF Execute
<1>8. CASE UNCHANGED vars
  BY <1>1, <1>8 DEF vars
<1> QED BY <1>2, <1>3, <1>4, <1>5, <1>6, <1>7, <1>8 DEF Next

\* For any method bodies and types the instrumentation of a method implements LocalVariables: the single return, the
\* rendering and the other users change the collection only by its calls.
THEOREM ImplementsLocals == Spec => Locals!Spec
<1>1. Init => Locals!Init
  BY DEF Init
<1> QED BY <1>1, StepsUseLocals, PTL DEF Spec, Locals!Spec

\* In the signature of the rendered method an index that AddLocal returned names a local of the type that was added,
\* for any method bodies, types and order of AddLocal, ReplaceSignature, CommitSignature and the calls that only count,
\* unless SetLocalVarSigToken has changed the header under a collection that had counted.
THEOREM IndexesStayRight == Spec => []IndexesNameLocals
<1>1. IInv /\ [Next]_vars => IInv'
  BY NextInv, StepsUseLocals
<1>2. Init => IInv
  BY InitInv DEF Init
<1> QED BY <1>1, <1>2, IndexesFollow, PTL DEF Spec

-----------------------------------------------------------------------------
(* Edits of the instructions. *)

InstrIds == {"il", "br", "stloc", "probe", "ret", "ldloc"} \X Nat
Instrs == [id : InstrIds, op : Ops \cup NewOps, to : SUBSET InstrIds]
IdsOf(g) == {g[k].id : k \in 1 .. Len(g)}
Distinct(g) == \A k, l \in 1 .. Len(g) : g[k].id = g[l].id => k = l

\* What a jump to old leads to once it leads to new, and an instruction whose jumps do.
Sub(old, new, t) == IF t = old THEN new ELSE t
SubAll(old, new, to) == {Sub(old, new, t) : t \in to}
Moved(ins, old, new) == [ins EXCEPT !.to = SubAll(old, new, @)]

\* Retargeting changes only where the jumps of an instruction lead.
LEMMA MovedFacts ==
    ASSUME NEW ins \in Instrs, NEW old \in InstrIds, NEW new \in InstrIds
    PROVE  /\ Moved(ins, old, new) \in Instrs
           /\ Moved(ins, old, new).id = ins.id /\ Moved(ins, old, new).op = ins.op
           /\ Moved(ins, old, new).to = SubAll(old, new, ins.to)
<1>1. \A t \in ins.to : Sub(old, new, t) \in InstrIds
  BY DEF Sub, Instrs
<1> DEFINE S == SubAll(old, new, ins.to)
<1>2. S \in SUBSET InstrIds
  BY <1>1 DEF SubAll
<1>3. Moved(ins, old, new) = [ins EXCEPT !.to = S]
  BY DEF Moved
<1> HIDE DEF S
<1>4. [ins EXCEPT !.to = S] \in Instrs /\ [ins EXCEPT !.to = S].id = ins.id /\ [ins EXCEPT !.to = S].op = ins.op
      /\ [ins EXCEPT !.to = S].to = S
  BY <1>2 DEF Instrs
<1> QED BY <1>3, <1>4 DEF S

\* The same for all instructions.
LEMMA RetargetedFacts ==
    ASSUME NEW g \in Seq(Instrs), NEW old \in InstrIds, NEW new \in InstrIds
    PROVE  /\ Retargeted(g, old, new) \in Seq(Instrs) /\ Len(Retargeted(g, old, new)) = Len(g)
           /\ \A k \in 1 .. Len(g) : Retargeted(g, old, new)[k] = Moved(g[k], old, new)
<1> DEFINE r == Retargeted(g, old, new)
           n == Len(g)
<1>1. n \in Nat /\ DOMAIN g = 1 .. n /\ \A k \in 1 .. n : g[k] \in Instrs
  OBVIOUS
<1>2. r = [k \in 1 .. n |-> Moved(g[k], old, new)]
  BY <1>1 DEF Retargeted, Moved, SubAll, Sub
<1> HIDE DEF r, n
<1>3. \A k \in 1 .. n : Moved(g[k], old, new) \in Instrs
  BY <1>1, MovedFacts
<1>4. r \in [1 .. n -> Instrs]
  BY <1>2, <1>3
<1>5. r \in Seq(Instrs) /\ Len(r) = n
  BY <1>1, <1>4
<1> QED BY <1>2, <1>5 DEF r, n

\* With distinct ids, an instruction is found where it is.
LEMMA IndexFacts ==
    ASSUME NEW g \in Seq(Instrs), Distinct(g), NEW k \in 1 .. Len(g)
    PROVE  Index(g, g[k].id) = k
<1>1. DOMAIN g = 1 .. Len(g)
  OBVIOUS
<1>2. \A i \in DOMAIN g : g[i].id = g[k].id => i = k
  BY <1>1 DEF Distinct
<1> QED BY <1>1, <1>2 DEF Index

\* Two sequences with something in between.
LEMMA Joined ==
    ASSUME NEW S, NEW a \in Seq(S), NEW b \in Seq(S), NEW x \in S
    PROVE  /\ a \o <<x>> \o b \in Seq(S) /\ Len(a \o <<x>> \o b) = Len(a) + 1 + Len(b)
           /\ \A j \in 1 .. Len(a) : (a \o <<x>> \o b)[j] = a[j]
           /\ (a \o <<x>> \o b)[Len(a) + 1] = x
           /\ \A j \in 1 .. Len(b) : (a \o <<x>> \o b)[Len(a) + 1 + j] = b[j]
  OBVIOUS

\* The two parts of a sequence.
LEMMA Cut ==
    ASSUME NEW S, NEW r \in Seq(S), NEW p \in 1 .. Len(r)
    PROVE  /\ SubSeq(r, 1, p - 1) \in Seq(S) /\ Len(SubSeq(r, 1, p - 1)) = p - 1
           /\ \A j \in 1 .. p - 1 : SubSeq(r, 1, p - 1)[j] = r[j]
           /\ SubSeq(r, p, Len(r)) \in Seq(S) /\ Len(SubSeq(r, p, Len(r))) = Len(r) - p + 1
           /\ \A j \in 1 .. Len(r) - p + 1 : SubSeq(r, p, Len(r))[j] = r[j + p - 1]
  OBVIOUS

\* A sequence cut in two with something in between.
LEMMA Spliced ==
    ASSUME NEW S, NEW r \in Seq(S), NEW p \in 1 .. Len(r), NEW x \in S
    PROVE  LET h == SubSeq(r, 1, p - 1) \o <<x>> \o SubSeq(r, p, Len(r)) IN
           /\ h \in Seq(S) /\ Len(h) = Len(r) + 1
           /\ \A j \in 1 .. Len(r) + 1 : h[j] = IF j < p THEN r[j] ELSE IF j = p THEN x ELSE r[j - 1]
<1> DEFINE a == SubSeq(r, 1, p - 1)
           b == SubSeq(r, p, Len(r))
           h == a \o <<x>> \o b
           n == Len(r)
<1>1. n \in Nat /\ p \in 1 .. n
  OBVIOUS
<1>2. a \in Seq(S) /\ Len(a) = p - 1 /\ \A j \in 1 .. p - 1 : a[j] = r[j]
  BY Cut
<1>3. b \in Seq(S) /\ Len(b) = n - p + 1 /\ \A j \in 1 .. n - p + 1 : b[j] = r[j + p - 1]
  BY Cut
<1> HIDE DEF a, b, n
<1>4. h \in Seq(S) /\ Len(h) = Len(a) + 1 + Len(b) /\ (\A j \in 1 .. Len(a) : h[j] = a[j]) /\ h[Len(a) + 1] = x
      /\ \A j \in 1 .. Len(b) : h[Len(a) + 1 + j] = b[j]
  <2>1. a \in Seq(S) /\ b \in Seq(S)
    BY <1>2, <1>3
  <2>2. h \in Seq(S)
    BY <2>1, Joined
  <2>3. Len(h) = Len(a) + 1 + Len(b)
    BY <2>1, Joined
  <2>4. \A j \in 1 .. Len(a) : h[j] = a[j]
    BY <2>1, Joined
  <2>5. h[Len(a) + 1] = x
    BY <2>1, Joined
  <2>6. \A j \in 1 .. Len(b) : h[Len(a) + 1 + j] = b[j]
    BY <2>1, Joined
  <2> QED BY <2>2, <2>3, <2>4, <2>5, <2>6
<1> HIDE DEF h
<1>5. Len(h) = n + 1
  BY <1>1, <1>2, <1>3, <1>4
<1>6. ASSUME NEW j \in 1 .. n + 1 PROVE h[j] = IF j < p THEN r[j] ELSE IF j = p THEN x ELSE r[j - 1]
  <2>1. CASE j < p
    <3>1. j \in 1 .. p - 1 /\ j \in 1 .. Len(a)
      BY <1>1, <1>2, <2>1
    <3>2. h[j] = a[j] /\ a[j] = r[j]
      BY <1>2, <1>4, <3>1
    <3> QED BY <2>1, <3>2
  <2>2. CASE j = p
    <3>1. p = Len(a) + 1
      BY <1>1, <1>2
    <3>2. h[p] = x
      BY <1>4, <3>1
    <3> QED BY <1>1, <2>2, <3>2
  <2>3. CASE j > p
    <3>1. PICK i \in 1 .. Len(b) : j = p + i
      <4>1. j - p \in 1 .. Len(b) /\ j = p + (j - p)
        BY <1>1, <1>3, <2>3
      <4> QED BY <4>1
    <3>2. j = Len(a) + 1 + i /\ i \in 1 .. n - p + 1 /\ i + p - 1 = j - 1
      BY <1>1, <1>2, <1>3, <3>1
    <3>3. h[j] = b[i]
      BY <1>4, <3>1, <3>2
    <3>4. b[i] = r[i + p - 1]
      BY <1>3, <3>2
    <3>5. h[j] = r[j - 1]
      BY <3>2, <3>3, <3>4
    <3> QED BY <1>1, <2>3, <3>5
  <2> QED BY <1>1, <2>1, <2>2, <2>3
<1> QED BY <1>4, <1>5, <1>6 DEF a, b, h, n

\* What an insertion makes of the instructions.
LEMMA InsertAt ==
    ASSUME NEW g \in Seq(Instrs), Distinct(g), NEW p \in 1 .. Len(g), NEW ins \in Instrs,
           NEW h, h = InsertBeforeAndRetargetOffsets(g, g[p].id, ins)
    PROVE  /\ h \in Seq(Instrs) /\ Len(h) = Len(g) + 1
           /\ \A j \in 1 .. Len(h) :
                h[j] = IF j < p THEN Moved(g[j], g[p].id, ins.id) ELSE IF j = p THEN ins ELSE Moved(g[j - 1], g[p].id, ins.id)
<1> DEFINE r == Retargeted(g, g[p].id, ins.id)
           n == Len(g)
<1>0. g[p] \in Instrs /\ n \in Nat
  OBVIOUS
<1>1. g[p].id \in InstrIds /\ ins.id \in InstrIds /\ n \in Nat
  BY <1>0 DEF Instrs
<1>2. r \in Seq(Instrs) /\ Len(r) = n /\ \A k \in 1 .. n : r[k] = Moved(g[k], g[p].id, ins.id)
  BY <1>1, RetargetedFacts
<1>3. h = SubSeq(r, 1, p - 1) \o <<ins>> \o SubSeq(r, p, Len(r))
  BY IndexFacts DEF InsertBeforeAndRetargetOffsets
<1> HIDE DEF r, n
<1>4. p \in 1 .. n
  BY DEF n
<1>11. h \in Seq(Instrs) /\ Len(h) = n + 1
  BY <1>2, <1>3, <1>4, Spliced
<1>12. \A j \in 1 .. n + 1 : h[j] = IF j < p THEN r[j] ELSE IF j = p THEN ins ELSE r[j - 1]
  BY <1>2, <1>3, <1>4, Spliced
<1>13. ASSUME NEW j \in 1 .. Len(h)
       PROVE  h[j] = IF j < p THEN Moved(g[j], g[p].id, ins.id) ELSE IF j = p THEN ins ELSE Moved(g[j - 1], g[p].id, ins.id)
  <2>1. j \in 1 .. n + 1
    BY <1>11
  <2>2. h[j] = IF j < p THEN r[j] ELSE IF j = p THEN ins ELSE r[j - 1]
    BY <1>12, <2>1
  <2>3. j < p => j \in 1 .. n
    BY <1>1, <1>4, <2>1
  <2>4. j > p => j - 1 \in 1 .. n
    BY <1>1, <1>4, <2>1
  <2> QED BY <1>2, <1>4, <2>1, <2>2, <2>3, <2>4
<1> QED BY <1>11, <1>13 DEF n

\* What a replacement makes of the instructions.
LEMMA ReplaceAt ==
    ASSUME NEW g \in Seq(Instrs), Distinct(g), NEW p \in 1 .. Len(g), NEW ins \in Instrs,
           NEW h, h = Replace(g, g[p].id, ins)
    PROVE  /\ h \in Seq(Instrs) /\ Len(h) = Len(g)
           /\ \A j \in 1 .. Len(h) : h[j] = IF j = p THEN ins ELSE Moved(g[j], g[p].id, ins.id)
<1> DEFINE r == Retargeted(g, g[p].id, ins.id)
           n == Len(g)
<1>0. g[p] \in Instrs /\ n \in Nat
  OBVIOUS
<1>1. g[p].id \in InstrIds /\ ins.id \in InstrIds /\ n \in Nat
  BY <1>0 DEF Instrs
<1>2. r \in Seq(Instrs) /\ Len(r) = n /\ \A k \in 1 .. n : r[k] = Moved(g[k], g[p].id, ins.id)
  BY <1>1, RetargetedFacts
<1>3. h = [r EXCEPT ![p] = ins]
  BY IndexFacts DEF Replace
<1> HIDE DEF r
<1>4. p \in 1 .. Len(r)
  BY <1>2
<1>5. h \in Seq(Instrs) /\ Len(h) = Len(r) /\ \A j \in 1 .. Len(r) : h[j] = IF j = p THEN ins ELSE r[j]
  BY <1>2, <1>3, <1>4
<1> QED BY <1>2, <1>5

-----------------------------------------------------------------------------
(* The replaceable returns. *)

\* Position i of g is that of a tail call's return, as GetReplaceableRets sees it.
AfterTail(g, i) ==
    LET call == IF OpOf(g, i - 1) = "pop" THEN i - 2 ELSE i - 1
    IN  OpOf(g, call) = "call" /\ OpOf(g, call - 1) = "tail"
Replaceables(g) == {i \in DOMAIN g : g[i].op = "ret" /\ ~AfterTail(g, i)}

\* The loop over the instructions.
LEMMA RetsLoop ==
    ASSUME NEW g \in Seq(Instrs)
    PROVE  \E u : /\ GetReplaceableRets(g) = u[Len(g)]
                  /\ u[0] = <<>>
                  /\ \A n \in 1 .. Len(g) : u[n] = IF n \in Replaceables(g) THEN Append(u[n - 1], g[n]) ELSE u[n - 1]
<1> DEFINE N == Len(g)
           S == Seq(Instrs)
           R == Replaceables(g)
           step == [n \in 1 .. N |-> [s \in S |-> IF n \in R THEN Append(s, g[n]) ELSE s]]
           F(u) == [n \in 0 .. N |-> IF n = 0 THEN <<>> ELSE IF n \in R THEN Append(u[n - 1], g[n]) ELSE u[n - 1]]
           nth == CHOOSE u : u = F(u)
<1>1. N \in Nat /\ \A n \in 1 .. N : g[n] \in Instrs
  OBVIOUS
<1>2. \A s \in S, n \in 1 .. N : Append(s, g[n]) \in S
  BY <1>1
<1>3. GetReplaceableRets(g) = nth[N]
  BY DEF GetReplaceableRets, AfterTail, Replaceables
<1> HIDE DEF R, N, S
<1>4. step \in [1 .. N -> [S -> S]]
  BY <1>2
<1>5. PICK f \in [0 .. N -> S] : f[0] = <<>> /\ \A n \in 1 .. N : f[n] = step[n][f[n - 1]]
  <2> DEFINE none == <<>>
  <2>1. none \in S
    BY DEF S
  <2> HIDE DEF step, none
  <2>2. PICK f : Rounds(f, N, S, none, step)
    BY <1>1, <1>4, <2>1, RecursionExists
  <2> QED BY <2>2 DEF none, Rounds
<1>6. \A n \in 1 .. N : f[n] = IF n \in R THEN Append(f[n - 1], g[n]) ELSE f[n - 1]
  <2> SUFFICES ASSUME NEW n \in 1 .. N PROVE f[n] = IF n \in R THEN Append(f[n - 1], g[n]) ELSE f[n - 1]
    OBVIOUS
  <2>1. n - 1 \in 0 .. N
    BY <1>1
  <2>2. f[n - 1] \in S
    BY <2>1
  <2>3. step[n] = [s \in S |-> IF n \in R THEN Append(s, g[n]) ELSE s]
    OBVIOUS
  <2> HIDE DEF step
  <2> QED BY <1>5, <2>2, <2>3
<1> HIDE DEF step
<1>7. f = F(f)
  <2>1. \A n \in 0 .. N : F(f)[n] = f[n]
    <3> SUFFICES ASSUME NEW n \in 0 .. N PROVE F(f)[n] = f[n]
      OBVIOUS
    <3>1. CASE n = 0
      BY <1>5, <3>1
    <3>2. CASE n # 0
      <4>1. n \in 1 .. N
        BY <1>1, <3>2
      <4> QED BY <1>6, <3>2, <4>1
    <3> QED BY <3>1, <3>2
  <2>2. F(f) = [n \in 0 .. N |-> F(f)[n]] /\ f = [n \in 0 .. N |-> f[n]]
    OBVIOUS
  <2> HIDE DEF F
  <2> QED BY <2>1, <2>2
<1>8. nth = F(nth)
  BY <1>7
<1>9. nth[0] = <<>> /\ \A n \in 1 .. N : nth[n] = IF n \in R THEN Append(nth[n - 1], g[n]) ELSE nth[n - 1]
  <2> DEFINE G == F(nth)
  <2>1. G[0] = <<>> /\ \A n \in 1 .. N : G[n] = IF n \in R THEN Append(nth[n - 1], g[n]) ELSE nth[n - 1]
    BY <1>1
  <2>2. nth = G
    BY <1>8
  <2> HIDE DEF G, nth
  <2> QED BY <2>1, <2>2
<1> HIDE DEF nth
<1> QED BY <1>3, <1>9 DEF R, N

\* What the returns r are of those among the first n instructions of g.
RetsOf(g, n, r) ==
    /\ r \in Seq(Instrs)
    /\ \A m \in 1 .. Len(r) : \E i \in Replaceables(g) : i <= n /\ r[m] = g[i]
    /\ \A i \in Replaceables(g) : i <= n => \E m \in 1 .. Len(r) : r[m] = g[i]
    /\ \A m, l \in 1 .. Len(r) : r[m].id = r[l].id => m = l

\* One round of the loop.
LEMMA RetsRound ==
    ASSUME NEW g \in Seq(Instrs), Distinct(g), NEW n \in 1 .. Len(g), NEW r, RetsOf(g, n - 1, r),
           NEW s, s = IF n \in Replaceables(g) THEN Append(r, g[n]) ELSE r
    PROVE  RetsOf(g, n, s)
<1>0. Replaceables(g) \subseteq 1 .. Len(g) /\ Len(g) \in Nat /\ g[n] \in Instrs
  BY DEF Replaceables
<1>1. CASE n \notin Replaceables(g)
  <2>1. \A i \in Replaceables(g) : i <= n <=> i <= n - 1
    BY <1>0, <1>1
  <2> QED BY <1>1, <2>1 DEF RetsOf
<1>2. CASE n \in Replaceables(g)
  <2> DEFINE N == Len(r)
  <2>1. r \in Seq(Instrs) /\ N \in Nat
    BY DEF RetsOf
  <2>2. s \in Seq(Instrs) /\ Len(s) = N + 1 /\ s[N + 1] = g[n] /\ \A m \in 1 .. N : s[m] = r[m]
    BY <1>0, <1>2, <2>1
  <2>3. \A m \in 1 .. N : \E i \in Replaceables(g) : i <= n - 1 /\ s[m] = g[i]
    BY <2>2 DEF RetsOf
  <2> HIDE DEF N
  <2>4. ASSUME NEW m \in 1 .. Len(s) PROVE \E i \in Replaceables(g) : i <= n /\ s[m] = g[i]
    <3>1. CASE m = N + 1
      BY <1>0, <1>2, <2>2, <3>1
    <3>2. CASE m # N + 1
      <4>1. m \in 1 .. N
        BY <2>1, <2>2, <3>2
      <4>2. PICK i \in Replaceables(g) : i <= n - 1 /\ s[m] = g[i]
        BY <2>3, <4>1
      <4> QED BY <1>0, <4>2
    <3> QED BY <3>1, <3>2
  <2>5. ASSUME NEW i \in Replaceables(g), i <= n PROVE \E m \in 1 .. Len(s) : s[m] = g[i]
    <3>1. CASE i = n
      <4>1. N + 1 \in 1 .. Len(s)
        BY <2>1, <2>2
      <4> QED BY <2>2, <3>1, <4>1
    <3>2. CASE i # n
      <4>1. i <= n - 1
        BY <1>0, <2>5, <3>2
      <4>2. PICK m \in 1 .. N : r[m] = g[i]
        BY <4>1 DEF RetsOf, N
      <4>3. m \in 1 .. Len(s) /\ s[m] = g[i]
        BY <2>1, <2>2, <4>2
      <4> QED BY <4>3
    <3> QED BY <3>1, <3>2
  <2>6. ASSUME NEW m \in 1 .. N PROVE s[m].id # g[n].id
    <3>1. PICK i \in Replaceables(g) : i <= n - 1 /\ s[m] = g[i]
      BY <2>3
    <3>2. i \in 1 .. Len(g) /\ i # n
      BY <1>0, <3>1
    <3> QED BY <3>1, <3>2 DEF Distinct
  <2>7. ASSUME NEW m \in 1 .. Len(s), NEW l \in 1 .. Len(s), s[m].id = s[l].id PROVE m = l
    <3>1. \A k \in 1 .. Len(s) : k = N + 1 \/ k \in 1 .. N
      BY <2>1, <2>2
    <3>2. CASE m \in 1 .. N /\ l \in 1 .. N
      BY <2>2, <2>7, <3>2 DEF RetsOf, N
    <3>3. CASE m = N + 1 /\ l \in 1 .. N
      BY <2>2, <2>6, <2>7, <3>3
    <3>4. CASE l = N + 1 /\ m \in 1 .. N
      BY <2>2, <2>6, <2>7, <3>4
    <3>5. m \in 1 .. N \/ m = N + 1
      BY <3>1
    <3>6. l \in 1 .. N \/ l = N + 1
      BY <3>1
    <3> QED BY <3>2, <3>3, <3>4, <3>5, <3>6
  <2> QED BY <2>2, <2>4, <2>5, <2>7 DEF RetsOf
<1> QED BY <1>1, <1>2

\* GetReplaceableRets has every replaceable return once.
LEMMA RetsAre ==
    ASSUME NEW g \in Seq(Instrs), Distinct(g)
    PROVE  RetsOf(g, Len(g), GetReplaceableRets(g))
<1> DEFINE N == Len(g)
<1>1. N \in Nat
  OBVIOUS
<1>2. PICK u : /\ GetReplaceableRets(g) = u[N]
               /\ u[0] = <<>>
               /\ \A n \in 1 .. N : u[n] = IF n \in Replaceables(g) THEN Append(u[n - 1], g[n]) ELSE u[n - 1]
  BY RetsLoop
<1> DEFINE T == {n \in 0 .. N : ~RetsOf(g, n, u[n])}
<1>3. RetsOf(g, 0, u[0])
  <2>1. <<>> \in Seq(Instrs) /\ Len(<<>>) = 0
    OBVIOUS
  <2>2. \A i \in Replaceables(g) : ~(i <= 0)
    <3>1. Replaceables(g) \subseteq 1 .. N
      BY DEF Replaceables
    <3> QED BY <1>1, <3>1
  <2>3. u[0] \in Seq(Instrs) /\ Len(u[0]) = 0
    BY <1>2, <2>1
  <2>4. 1 .. Len(u[0]) = {}
    BY <2>3
  <2> QED BY <2>2, <2>3, <2>4 DEF RetsOf
<1>4. ASSUME T # {} PROVE FALSE
  <2>1. PICK n \in T : \A m \in T : n <= m
    <3>1. T \subseteq Nat
      OBVIOUS
    <3> HIDE DEF T
    <3> QED BY <1>4, <3>1, LeastNatural
  <2>2. n \in 1 .. N /\ n - 1 \in 0 .. N /\ n - 1 \notin T
    BY <1>1, <1>3, <2>1
  <2>3. RetsOf(g, n - 1, u[n - 1])
    BY <2>2
  <2>4. RetsOf(g, n, u[n])
    BY <1>2, <2>2, <2>3, RetsRound
  <2> QED BY <2>1, <2>4
<1>5. N \in 0 .. N
  BY <1>1
<1>6. RetsOf(g, N, u[N])
  BY <1>4, <1>5
<1> QED BY <1>2, <1>6

-----------------------------------------------------------------------------
(* What every edit keeps. *)

\* The tail calls of the original method c, and what comes after them: it is only there for the CLR to find.
TailCalls(c) == {Il(i) : i \in {i \in DOMAIN c : c[i].op = "call" /\ OpOf(c, i - 1) = "tail"}}
AfterCall(c, i) ==
    \/ OpOf(c, i - 1) = "call" /\ OpOf(c, i - 2) = "tail"
    \/ c[i].op = "ret" /\ OpOf(c, i - 1) = "pop" /\ OpOf(c, i - 2) = "call" /\ OpOf(c, i - 3) = "tail"
Skipped(c) == {Il(i) : i \in {i \in DOMAIN c : AfterCall(c, i)}}

\* TailRetIsTarget of the method c.
TailRetTarget(c) ==
    \E i, j \in DOMAIN c :
        /\ Il(i) \in c[j].to
        /\ OpOf(c, i - 1) = "call" \/ (OpOf(c, i - 1) = "pop" /\ c[i].op = "ret")
        /\ OpOf(c, i - 2) = "tail" \/ OpOf(c, i - 3) = "tail"

\* A tail call keeps its prefix, and the return after one stays recognizable.
PrefixKept(c, g) == \A k \in 1 .. Len(g) : g[k].id \in TailCalls(c) => g[k].op = "call" /\ OpOf(g, k - 1) = "tail"
TailRetsKept(c, g) == \A k \in 1 .. Len(g) : g[k].id \in Skipped(c) /\ g[k].op = "ret" => AfterTail(g, k)

\* Nothing but a tail call leads to what comes after one.
NoJumpSkips(c, g) == \A k \in 1 .. Len(g) : g[k].to \cap Skipped(c) = {}
NoFallSkips(c, g) ==
    \A k \in 1 .. Len(g) :
        k + 1 <= Len(g) /\ FallsThrough(g[k].op) /\ g[k].id \notin Skipped(c) \cup TailCalls(c) => g[k + 1].id \notin Skipped(c)

\* Jumps stay in the graph, and what is no return stays there too.
TargetsKept(g) == \A k \in 1 .. Len(g) : g[k].to \subseteq IdsOf(g)
OthersKept(c, g) == \A i \in DOMAIN c : c[i].op # "ret" => Il(i) \in IdsOf(g)

Kept(c, g) ==
    /\ g \in Seq(Instrs) /\ Distinct(g)
    /\ PrefixKept(c, g) /\ TailRetsKept(c, g)
    /\ TailRetTarget(c) \/ NoJumpSkips(c, g)
    /\ NoFallSkips(c, g)
    /\ TargetsKept(g) /\ OthersKept(c, g)
    /\ Len(g) > 0 /\ g[1].id \notin Skipped(c)

\* h is g with ins put before position p, or in its place; jumps to p lead to ins.
Inserted(g, p, ins, h) ==
    /\ h \in Seq(Instrs) /\ Len(h) = Len(g) + 1
    /\ \A j \in 1 .. Len(h) :
         h[j] = IF j < p THEN Moved(g[j], g[p].id, ins.id) ELSE IF j = p THEN ins ELSE Moved(g[j - 1], g[p].id, ins.id)
Replaced(g, p, ins, h) ==
    /\ h \in Seq(Instrs) /\ Len(h) = Len(g)
    /\ \A j \in 1 .. Len(h) : h[j] = IF j = p THEN ins ELSE Moved(g[j], g[p].id, ins.id)

\* Where position k gets to when something is put before position p.
Up(p, k) == IF k < p THEN k ELSE k + 1

\* The instruction that position j of h holds, but for its jumps.
LEMMA InsertedFacts ==
    ASSUME NEW g \in Seq(Instrs), NEW p \in 1 .. Len(g), NEW ins \in Instrs, NEW h, Inserted(g, p, ins, h), ins.to = {}
    PROVE  /\ h[p] = ins /\ p \in 1 .. Len(h)
           /\ \A k \in 1 .. Len(g) :
                /\ Up(p, k) \in 1 .. Len(h)
                /\ h[Up(p, k)].id = g[k].id /\ h[Up(p, k)].op = g[k].op
                /\ h[Up(p, k)].to = SubAll(g[p].id, ins.id, g[k].to)
           /\ \A x \in Int : OpOf(h, x) = IF x < p THEN OpOf(g, x) ELSE IF x = p THEN ins.op ELSE OpOf(g, x - 1)
           /\ IdsOf(h) = IdsOf(g) \cup {ins.id}
           /\ g[p].id \in InstrIds /\ ins.id \in InstrIds
<1> DEFINE n == Len(g)
<1>0. n \in Nat /\ p \in 1 .. n /\ DOMAIN g = 1 .. n /\ (\A k \in 1 .. n : g[k] \in Instrs)
      /\ h \in Seq(Instrs) /\ Len(h) = n + 1 /\ DOMAIN h = 1 .. n + 1
  BY DEF Inserted
<1>1. g[p].id \in InstrIds /\ ins.id \in InstrIds
  BY <1>0 DEF Instrs
<1>2. \A j \in 1 .. n + 1 :
         h[j] = IF j < p THEN Moved(g[j], g[p].id, ins.id) ELSE IF j = p THEN ins ELSE Moved(g[j - 1], g[p].id, ins.id)
  BY DEF Inserted
<1> HIDE DEF n
<1>3. h[p] = ins /\ p \in 1 .. n + 1
  BY <1>0, <1>2
<1>4. ASSUME NEW k \in 1 .. n, NEW j, j = IF k < p THEN k ELSE k + 1
      PROVE  /\ j \in 1 .. n + 1
             /\ h[j].id = g[k].id /\ h[j].op = g[k].op
             /\ h[j].to = SubAll(g[p].id, ins.id, g[k].to)
  <2>1. j \in 1 .. n + 1 /\ h[j] = Moved(g[k], g[p].id, ins.id)
    <3>1. CASE k < p
      BY <1>0, <1>2, <1>4, <3>1
    <3>2. CASE ~(k < p)
      <4>1. j = k + 1 /\ j \in 1 .. n + 1 /\ ~(j < p) /\ j # p /\ j - 1 = k
        BY <1>0, <1>4, <3>2
      <4> QED BY <1>2, <4>1
    <3> QED BY <3>1, <3>2
  <2>2. g[k] \in Instrs
    BY <1>0
  <2> QED BY <1>1, <2>1, <2>2, MovedFacts
<1>5. \A j \in 1 .. n + 1 : j # p => (IF j < p THEN j ELSE j - 1) \in 1 .. n
  BY <1>0
<1>6. ASSUME NEW x \in Int
      PROVE  OpOf(h, x) = IF x < p THEN OpOf(g, x) ELSE IF x = p THEN ins.op ELSE OpOf(g, x - 1)
  <2>1. CASE x < p
    <3>1. x \in 1 .. n + 1 <=> x \in 1 .. n
      BY <1>0, <2>1
    <3>2. x \in 1 .. n => h[x].op = g[x].op
      BY <1>4, <2>1
    <3> QED BY <1>0, <2>1, <3>1, <3>2 DEF OpOf
  <2>2. CASE x = p
    BY <1>0, <1>3, <2>2 DEF OpOf
  <2>3. CASE x > p
    <3>1. x \in 1 .. n + 1 <=> x - 1 \in 1 .. n
      BY <1>0, <2>3
    <3>2. x - 1 \in 1 .. n => h[x].op = g[x - 1].op
      <4>1. ~(x - 1 < p) /\ x = (x - 1) + 1
        BY <1>0, <2>3
      <4> QED BY <1>4, <4>1
    <3> QED BY <1>0, <2>3, <3>1, <3>2 DEF OpOf
  <2> QED BY <1>0, <2>1, <2>2, <2>3
<1>7. IdsOf(h) = IdsOf(g) \cup {ins.id}
  <2>0. IdsOf(h) = {h[j].id : j \in 1 .. n + 1} /\ IdsOf(g) = {g[k].id : k \in 1 .. n}
    BY <1>0 DEF IdsOf, n
  <2>1. ASSUME NEW j \in 1 .. n + 1 PROVE h[j].id \in IdsOf(g) \cup {ins.id}
    <3>1. CASE j = p
      BY <1>3, <3>1
    <3>2. CASE j # p
      <4> DEFINE k == IF j < p THEN j ELSE j - 1
      <4>1. k \in 1 .. n /\ j = IF k < p THEN k ELSE k + 1
        BY <1>0, <1>5, <3>2
      <4> HIDE DEF k
      <4> QED BY <1>4, <2>0, <4>1
    <3> QED BY <3>1, <3>2
  <2>2. ASSUME NEW k \in 1 .. n PROVE g[k].id \in IdsOf(h)
    <3> DEFINE j == IF k < p THEN k ELSE k + 1
    <3>1. j \in 1 .. n + 1 /\ h[j].id = g[k].id
      BY <1>4
    <3> HIDE DEF j
    <3> QED BY <2>0, <3>1
  <2>3. ins.id \in IdsOf(h)
    BY <1>3, <2>0
  <2> QED BY <2>0, <2>1, <2>2, <2>3
<1>8. ASSUME NEW k \in 1 .. n
      PROVE  /\ Up(p, k) \in 1 .. n + 1
             /\ h[Up(p, k)].id = g[k].id /\ h[Up(p, k)].op = g[k].op
             /\ h[Up(p, k)].to = SubAll(g[p].id, ins.id, g[k].to)
  BY <1>4 DEF Up
<1> QED BY <1>0, <1>1, <1>3, <1>6, <1>7, <1>8 DEF n

\* An edit that fits, and all that is used of it.
Insertion(g, p, ins, h) == g \in Seq(Instrs) /\ p \in 1 .. Len(g) /\ ins \in Instrs /\ Inserted(g, p, ins, h) /\ ins.to = {}
Shifted(g, p, ins, h) ==
    /\ Len(g) \in Nat /\ Len(h) = Len(g) + 1 /\ h \in Seq(Instrs)
    /\ h[p] = ins /\ p \in 1 .. Len(h)
    /\ IdsOf(h) = IdsOf(g) \cup {ins.id}
    /\ \A j \in 1 .. Len(h) : j = p \/ \E k \in 1 .. Len(g) : j = Up(p, k)
    /\ \A k \in 1 .. Len(g) :
         /\ Up(p, k) \in 1 .. Len(h)
         /\ h[Up(p, k)].id = g[k].id /\ h[Up(p, k)].op = g[k].op
         /\ h[Up(p, k)].to = SubAll(g[p].id, ins.id, g[k].to)
         /\ Up(p, k) + 1 <= Len(h) => Up(p, k) + 1 = p \/ (k + 1 <= Len(g) /\ Up(p, k) + 1 = Up(p, k + 1))
         /\ Up(p, k) # p
    /\ p + 1 = Up(p, p)
    /\ \A x \in Int : OpOf(h, x) = IF x < p THEN OpOf(g, x) ELSE IF x = p THEN ins.op ELSE OpOf(g, x - 1)

\* What an insertion does.
LEMMA InsertionFacts ==
    ASSUME NEW g, NEW p, NEW ins, NEW h, Insertion(g, p, ins, h)
    PROVE  Shifted(g, p, ins, h)
<1> SUFFICES ASSUME g \in Seq(Instrs), p \in 1 .. Len(g), ins \in Instrs, Inserted(g, p, ins, h), ins.to = {}
             PROVE  Shifted(g, p, ins, h)
  BY DEF Insertion
<1>1. Len(g) \in Nat /\ Len(h) = Len(g) + 1 /\ h \in Seq(Instrs)
  BY DEF Inserted
<1>2. ASSUME NEW j \in 1 .. Len(h), j # p PROVE \E k \in 1 .. Len(g) : j = Up(p, k)
  <2> DEFINE k == IF j < p THEN j ELSE j - 1
  <2>1. k \in 1 .. Len(g) /\ j = Up(p, k)
    BY <1>1, <1>2 DEF Up
  <2> QED BY <2>1
<1>3. /\ h[p] = ins /\ p \in 1 .. Len(h)
      /\ \A k \in 1 .. Len(g) :
           /\ Up(p, k) \in 1 .. Len(h)
           /\ h[Up(p, k)].id = g[k].id /\ h[Up(p, k)].op = g[k].op
           /\ h[Up(p, k)].to = SubAll(g[p].id, ins.id, g[k].to)
      /\ \A x \in Int : OpOf(h, x) = IF x < p THEN OpOf(g, x) ELSE IF x = p THEN ins.op ELSE OpOf(g, x - 1)
      /\ IdsOf(h) = IdsOf(g) \cup {ins.id}
      /\ g[p].id \in InstrIds /\ ins.id \in InstrIds
  BY InsertedFacts
<1>4. ASSUME NEW k \in 1 .. Len(g), Up(p, k) + 1 <= Len(h)
      PROVE  Up(p, k) + 1 = p \/ (k + 1 <= Len(g) /\ Up(p, k) + 1 = Up(p, k + 1))
  BY <1>1, <1>4 DEF Up
<1>5. p + 1 = Up(p, p) /\ \A k \in 1 .. Len(g) : Up(p, k) # p
  BY <1>1 DEF Up
<1> QED BY <1>1, <1>2, <1>3, <1>4, <1>5 DEF Shifted

\* A new id keeps the ids distinct.
LEMMA InsertedDistinct ==
    ASSUME NEW g, NEW p, NEW ins, NEW h, Insertion(g, p, ins, h), Distinct(g), ins.id \notin IdsOf(g)
    PROVE  Distinct(h)
<1>0. Shifted(g, p, ins, h)
  BY InsertionFacts
<1>2. \A k \in 1 .. Len(g) : h[Up(p, k)].id = g[k].id
  BY <1>0 DEF Shifted
<1>6. \A i \in 1 .. Len(h) : i = p \/ \E k \in 1 .. Len(g) : i = Up(p, k)
  BY <1>0 DEF Shifted
<1> SUFFICES ASSUME NEW j \in 1 .. Len(h), NEW l \in 1 .. Len(h), h[j].id = h[l].id PROVE j = l
  BY DEF Distinct
<1>1. h[p] = ins /\ \A k \in 1 .. Len(g) : g[k].id # ins.id
  BY <1>0 DEF Shifted, IdsOf
<1>3. (j = p \/ \E k \in 1 .. Len(g) : j = Up(p, k)) /\ (l = p \/ \E k \in 1 .. Len(g) : l = Up(p, k))
  BY <1>6
<1>4. CASE j = p \/ l = p
  BY <1>1, <1>2, <1>3, <1>4
<1>5. CASE j # p /\ l # p
  <2>1. PICK k \in 1 .. Len(g) : j = Up(p, k)
    BY <1>3, <1>5
  <2>2. PICK m \in 1 .. Len(g) : l = Up(p, m)
    BY <1>3, <1>5
  <2>3. k = m
    BY <1>2, <2>1, <2>2 DEF Distinct
  <2> QED BY <2>1, <2>2, <2>3
<1> QED BY <1>4, <1>5

\* Returns keep their window: nothing is put into it, because the instruction something is put before is none of it.
LEMMA InsertedAfterTail ==
    ASSUME NEW g \in Seq(Instrs), NEW p \in 1 .. Len(g), NEW ins \in Instrs, NEW h, Inserted(g, p, ins, h), ins.to = {},
           g[p].op \notin {"tail", "call", "pop"}, NEW k \in 1 .. Len(g), k # p, AfterTail(g, k)
    PROVE  AfterTail(h, Up(p, k))
<1>1. \A x \in Int : OpOf(h, x) = IF x < p THEN OpOf(g, x) ELSE IF x = p THEN ins.op ELSE OpOf(g, x - 1)
  BY InsertedFacts
<1>2. Len(g) \in Nat /\ DOMAIN g = 1 .. Len(g)
  OBVIOUS
<1>3. \A x \in Int : x = p => OpOf(g, x) \notin {"tail", "call", "pop"}
  BY <1>2 DEF OpOf
<1>4. CASE k < p
  <2>1. OpOf(h, k - 1) = OpOf(g, k - 1) /\ OpOf(h, k - 2) = OpOf(g, k - 2) /\ OpOf(h, k - 3) = OpOf(g, k - 3)
    BY <1>1, <1>2, <1>4
  <2>2. Up(p, k) = k
    BY <1>4 DEF Up
  <2>3. k - 1 - 1 = k - 2 /\ k - 2 - 1 = k - 3
    BY <1>2
  <2> QED BY <2>1, <2>2, <2>3 DEF AfterTail
<1>5. CASE k > p
  <2>0. Up(p, k) = k + 1 /\ k + 1 - 1 = k /\ k + 1 - 2 = k - 1 /\ k - 1 - 1 = k - 2 /\ k - 2 - 1 = k - 3
    BY <1>2, <1>5 DEF Up
  <2>1. OpOf(g, k - 1) \in {"pop", "call"}
    BY <2>0 DEF AfterTail
  <2>2. k - 1 > p
    BY <1>2, <1>3, <1>5, <2>1
  <2>3. OpOf(h, k) = OpOf(g, k - 1) /\ OpOf(h, k - 1) = OpOf(g, k - 2)
    BY <1>1, <1>2, <2>2
  <2>4. CASE OpOf(g, k - 1) = "pop"
    <3>1. OpOf(g, k - 2) = "call" /\ OpOf(g, k - 3) = "tail"
      BY <2>0, <2>4 DEF AfterTail
    <3>2. k - 2 > p
      BY <1>2, <1>3, <2>2, <3>1
    <3>3. OpOf(h, k - 2) = OpOf(g, k - 3)
      BY <1>1, <1>2, <3>2
    <3> QED BY <2>0, <2>3, <2>4, <3>1, <3>3 DEF AfterTail
  <2>5. CASE OpOf(g, k - 1) # "pop"
    <3>1. OpOf(g, k - 1) = "call" /\ OpOf(g, k - 2) = "tail"
      BY <2>0, <2>5 DEF AfterTail
    <3> QED BY <2>0, <2>3, <2>5, <3>1 DEF AfterTail
  <2> QED BY <2>4, <2>5
<1> QED BY <1>2, <1>4, <1>5

\* An insertion before something that is no part of a tail call keeps everything.
LEMMA InsertKeeps ==
    ASSUME NEW c, NEW g, Kept(c, g), NEW p \in 1 .. Len(g), NEW ins \in Instrs, NEW h, Inserted(g, p, ins, h),
           ins.to = {}, ins.id \notin IdsOf(g), ins.id \notin Skipped(c), ins.id \notin TailCalls(c),
           g[p].op \notin {"tail", "call", "pop"}, g[p].id \notin Skipped(c)
    PROVE  Kept(c, h)
<1>0. g \in Seq(Instrs) /\ Distinct(g) /\ Len(g) > 0
  BY DEF Kept
<1>13. Insertion(g, p, ins, h)
  BY <1>0 DEF Insertion
<1>14. Shifted(g, p, ins, h)
  BY <1>13, InsertionFacts
<1>1. h \in Seq(Instrs) /\ Len(h) = Len(g) + 1 /\ Len(g) \in Nat /\ Distinct(h)
  BY <1>0, <1>13, <1>14, InsertedDistinct DEF Shifted
<1>2. h[p] = ins /\ IdsOf(h) = IdsOf(g) \cup {ins.id}
  BY <1>14 DEF Shifted
<1>3. \A j \in 1 .. Len(h) : j = p \/ \E k \in 1 .. Len(g) : j = Up(p, k)
  BY <1>14 DEF Shifted
<1>4. \A k \in 1 .. Len(g) :
                /\ Up(p, k) \in 1 .. Len(h)
                /\ h[Up(p, k)].id = g[k].id /\ h[Up(p, k)].op = g[k].op
                /\ h[Up(p, k)].to = SubAll(g[p].id, ins.id, g[k].to)
                /\ Up(p, k) + 1 <= Len(h) => Up(p, k) + 1 = p \/ (k + 1 <= Len(g) /\ Up(p, k) + 1 = Up(p, k + 1))
  BY <1>14 DEF Shifted
<1>12. \A x \in Int : OpOf(h, x) = IF x < p THEN OpOf(g, x) ELSE IF x = p THEN ins.op ELSE OpOf(g, x - 1)
  BY <1>14 DEF Shifted
<1>5. PrefixKept(c, h)
  <2> SUFFICES ASSUME NEW j \in 1 .. Len(h), h[j].id \in TailCalls(c) PROVE h[j].op = "call" /\ OpOf(h, j - 1) = "tail"
    BY DEF PrefixKept
  <2>1. PICK k \in 1 .. Len(g) : j = Up(p, k)
    BY <1>2, <1>3
  <2>2. g[k].op = "call" /\ OpOf(g, k - 1) = "tail" /\ h[j].op = "call"
    BY <1>4, <2>1 DEF Kept, PrefixKept
  <2>3. k # p
    BY <2>2
  <2>4. OpOf(h, j - 1) = IF j - 1 < p THEN OpOf(g, j - 1) ELSE IF j - 1 = p THEN ins.op ELSE OpOf(g, j - 1 - 1)
    <3>1. j - 1 \in Int
      BY <1>1
    <3> QED BY <1>12, <3>1
  <2>5. CASE k < p
    <3>1. j = k /\ j - 1 < p
      BY <1>1, <2>1, <2>5 DEF Up
    <3> QED BY <2>2, <2>4, <3>1
  <2>6. CASE k > p
    <3>1. j = k + 1 /\ ~(j - 1 < p) /\ j - 1 # p /\ j - 1 - 1 = k - 1
      BY <1>1, <2>1, <2>6 DEF Up
    <3> QED BY <2>2, <2>4, <3>1
  <2> QED BY <1>1, <2>3, <2>5, <2>6
<1>6. TailRetsKept(c, h)
  <2> SUFFICES ASSUME NEW j \in 1 .. Len(h), h[j].id \in Skipped(c), h[j].op = "ret" PROVE AfterTail(h, j)
    BY DEF TailRetsKept
  <2>1. PICK k \in 1 .. Len(g) : j = Up(p, k)
    BY <1>2, <1>3
  <2>2. g[k].id \in Skipped(c) /\ g[k].op = "ret"
    BY <1>4, <2>1
  <2>3. k # p /\ AfterTail(g, k)
    BY <2>2 DEF Kept, TailRetsKept
  <2> QED BY <1>0, <2>1, <2>3, InsertedAfterTail
<1>7. TailRetTarget(c) \/ NoJumpSkips(c, h)
  <2> SUFFICES ASSUME ~TailRetTarget(c), NEW j \in 1 .. Len(h), NEW t \in h[j].to, t \in Skipped(c) PROVE FALSE
    BY DEF NoJumpSkips
  <2>1. PICK k \in 1 .. Len(g) : j = Up(p, k)
    BY <1>2, <1>3
  <2>2. PICK s \in g[k].to : t = Sub(g[p].id, ins.id, s)
    BY <1>4, <2>1 DEF SubAll
  <2>3. s \in Skipped(c)
    BY <2>2 DEF Sub
  <2> QED BY <2>3 DEF Kept, NoJumpSkips
<1>8. NoFallSkips(c, h)
  <2> SUFFICES ASSUME NEW j \in 1 .. Len(h), j + 1 <= Len(h), FallsThrough(h[j].op), h[j].id \notin Skipped(c) \cup TailCalls(c)
               PROVE  h[j + 1].id \notin Skipped(c)
    BY DEF NoFallSkips
  <2>1. CASE j = p
    <3>1. h[j + 1].id = g[p].id
      BY <1>4, <1>14, <2>1 DEF Shifted
    <3> QED BY <3>1
  <2>2. CASE j + 1 = p
    BY <1>2, <2>2
  <2>3. CASE j # p /\ j + 1 # p
    <3>1. PICK k \in 1 .. Len(g) : j = Up(p, k)
      BY <1>3, <2>3
    <3>2. k + 1 <= Len(g) /\ j + 1 = Up(p, k + 1)
      <4>1. Up(p, k) + 1 <= Len(h) => Up(p, k) + 1 = p \/ (k + 1 <= Len(g) /\ Up(p, k) + 1 = Up(p, k + 1))
        BY <1>4
      <4> QED BY <2>3, <3>1, <4>1
    <3>3. k + 1 \in 1 .. Len(g)
      BY <1>1, <3>2
    <3>4. g[k + 1].id \notin Skipped(c)
      BY <1>4, <3>1, <3>2 DEF Kept, NoFallSkips
    <3> QED BY <1>4, <3>2, <3>3, <3>4
  <2> QED BY <2>1, <2>2, <2>3
<1>9. TargetsKept(h)
  <2> SUFFICES ASSUME NEW j \in 1 .. Len(h), NEW t \in h[j].to PROVE t \in IdsOf(h)
    BY DEF TargetsKept
  <2>1. PICK k \in 1 .. Len(g) : j = Up(p, k)
    BY <1>2, <1>3
  <2>2. PICK s \in g[k].to : t = Sub(g[p].id, ins.id, s)
    BY <1>4, <2>1 DEF SubAll
  <2>3. s \in IdsOf(g)
    BY DEF Kept, TargetsKept
  <2> QED BY <1>2, <2>2, <2>3 DEF Sub
<1>10. OthersKept(c, h)
  BY <1>2 DEF Kept, OthersKept
<1>11. Len(h) > 0 /\ h[1].id \notin Skipped(c)
  <2>1. CASE p = 1
    BY <1>1, <1>2, <2>1
  <2>2. CASE p # 1
    <3>1. 1 \in 1 .. Len(g) /\ Up(p, 1) = 1
      BY <1>1, <2>2 DEF Up
    <3> QED BY <1>1, <1>4, <3>1 DEF Kept
  <2> QED BY <2>1, <2>2
<1> QED BY <1>1, <1>5, <1>6, <1>7, <1>8, <1>9, <1>10, <1>11 DEF Kept

\* The instruction that position j of h holds after a replacement, but for its jumps.
LEMMA ReplacedFacts ==
    ASSUME NEW g \in Seq(Instrs), Distinct(g), NEW p \in 1 .. Len(g), NEW ins \in Instrs, NEW h, Replaced(g, p, ins, h)
    PROVE  /\ h \in Seq(Instrs) /\ Len(h) = Len(g) /\ Len(g) \in Nat
           /\ h[p] = ins
           /\ \A k \in 1 .. Len(g) : k # p =>
                /\ h[k].id = g[k].id /\ h[k].op = g[k].op
                /\ h[k].to = SubAll(g[p].id, ins.id, g[k].to)
           /\ \A x \in Int : OpOf(h, x) = IF x = p THEN ins.op ELSE OpOf(g, x)
           /\ IdsOf(h) = (IdsOf(g) \ {g[p].id}) \cup {ins.id}
           /\ g[p].id \in InstrIds /\ ins.id \in InstrIds
<1> DEFINE n == Len(g)
<1>0. n \in Nat /\ p \in 1 .. n /\ DOMAIN g = 1 .. n /\ (\A k \in 1 .. n : g[k] \in Instrs)
      /\ h \in Seq(Instrs) /\ Len(h) = n /\ DOMAIN h = 1 .. n
  BY DEF Replaced
<1>1. g[p].id \in InstrIds /\ ins.id \in InstrIds
  BY <1>0 DEF Instrs
<1>2. \A j \in 1 .. n : h[j] = IF j = p THEN ins ELSE Moved(g[j], g[p].id, ins.id)
  BY DEF Replaced
<1>3. \A k, l \in 1 .. n : g[k].id = g[l].id => k = l
  BY DEF Distinct
<1>4. IdsOf(h) = {h[j].id : j \in 1 .. n} /\ IdsOf(g) = {g[k].id : k \in 1 .. n}
  BY <1>0 DEF IdsOf, n
<1> HIDE DEF n
<1>5. h[p] = ins
  BY <1>0, <1>2
<1>6. ASSUME NEW k \in 1 .. n, k # p
      PROVE  /\ h[k].id = g[k].id /\ h[k].op = g[k].op
             /\ h[k].to = SubAll(g[p].id, ins.id, g[k].to)
  BY <1>0, <1>1, <1>2, <1>6, MovedFacts
<1>7. \A x \in Int : OpOf(h, x) = IF x = p THEN ins.op ELSE OpOf(g, x)
  <2> TAKE x \in Int
  <2>1. CASE x = p
    BY <1>0, <1>5, <2>1 DEF OpOf
  <2>2. CASE x # p
    <3>1. x \in 1 .. n => h[x].op = g[x].op
      BY <1>6, <2>2
    <3> QED BY <1>0, <2>2, <3>1 DEF OpOf
  <2> QED BY <2>1, <2>2
<1>8. IdsOf(h) = (IdsOf(g) \ {g[p].id}) \cup {ins.id}
  <2>1. ASSUME NEW j \in 1 .. n PROVE h[j].id \in (IdsOf(g) \ {g[p].id}) \cup {ins.id}
    <3>1. CASE j = p
      BY <1>5, <3>1
    <3>2. CASE j # p
      <4>1. h[j].id = g[j].id /\ g[j].id # g[p].id
        BY <1>0, <1>3, <1>6, <3>2
      <4> QED BY <1>4, <4>1
    <3> QED BY <3>1, <3>2
  <2>2. ASSUME NEW k \in 1 .. n, g[k].id # g[p].id PROVE g[k].id \in IdsOf(h)
    <3>1. h[k].id = g[k].id
      BY <1>6, <2>2
    <3> QED BY <1>4, <3>1
  <2>3. ins.id \in IdsOf(h)
    BY <1>0, <1>4, <1>5
  <2> QED BY <1>4, <2>1, <2>2, <2>3
<1> QED BY <1>0, <1>1, <1>5, <1>6, <1>7, <1>8 DEF n

\* A return that belongs to no tail call can be replaced by a branch.
LEMMA ReplaceKeeps ==
    ASSUME NEW c, NEW g, Kept(c, g), NEW p \in 1 .. Len(g), NEW ins \in Instrs, NEW h, Replaced(g, p, ins, h),
           ins.op = "br", ins.to \subseteq IdsOf(g) \ {g[p].id}, ins.to \cap Skipped(c) = {},
           ins.id \notin IdsOf(g), ins.id \notin Skipped(c), ins.id \notin TailCalls(c),
           g[p].op = "ret", g[p].id \notin Skipped(c), \A i \in DOMAIN c : c[i].op # "ret" => Il(i) # g[p].id
    PROVE  Kept(c, h)
<1>0. g \in Seq(Instrs) /\ Distinct(g) /\ Len(g) > 0
  BY DEF Kept
<1>1. h \in Seq(Instrs) /\ Len(h) = Len(g) /\ Len(g) \in Nat /\ h[p] = ins /\ DOMAIN g = 1 .. Len(g)
  BY <1>0, ReplacedFacts
<1>2. IdsOf(h) = (IdsOf(g) \ {g[p].id}) \cup {ins.id}
  BY <1>0, ReplacedFacts
<1>3. \A k \in 1 .. Len(g) : k # p =>
                /\ h[k].id = g[k].id /\ h[k].op = g[k].op
                /\ h[k].to = SubAll(g[p].id, ins.id, g[k].to)
  BY <1>0, ReplacedFacts
<1>4. \A x \in Int : OpOf(h, x) = IF x = p THEN "br" ELSE OpOf(g, x)
  BY <1>0, ReplacedFacts
<1>5. OpOf(g, p) = "ret"
  BY <1>1 DEF OpOf
<1>6. Distinct(h)
  <2> SUFFICES ASSUME NEW j \in 1 .. Len(g), NEW l \in 1 .. Len(g), h[j].id = h[l].id PROVE j = l
    BY <1>1 DEF Distinct
  <2>1. \A k \in 1 .. Len(g) : g[k].id # ins.id
    BY DEF IdsOf
  <2>2. CASE j = p \/ l = p
    BY <1>1, <1>3, <2>1, <2>2
  <2>3. CASE j # p /\ l # p
    <3>1. g[j].id = g[l].id
      BY <1>3, <2>3
    <3> QED BY <1>0, <3>1 DEF Distinct
  <2> QED BY <2>2, <2>3
<1>7. PrefixKept(c, h)
  <2> SUFFICES ASSUME NEW j \in 1 .. Len(g), h[j].id \in TailCalls(c) PROVE h[j].op = "call" /\ OpOf(h, j - 1) = "tail"
    BY <1>1 DEF PrefixKept
  <2>1. j # p
    BY <1>1
  <2>2. g[j].op = "call" /\ OpOf(g, j - 1) = "tail" /\ h[j].op = "call"
    BY <1>3, <2>1 DEF Kept, PrefixKept
  <2>3. j - 1 \in Int
    BY <1>1
  <2> QED BY <1>4, <1>5, <2>2, <2>3
<1>8. TailRetsKept(c, h)
  <2> SUFFICES ASSUME NEW j \in 1 .. Len(g), h[j].id \in Skipped(c), h[j].op = "ret" PROVE AfterTail(h, j)
    BY <1>1 DEF TailRetsKept
  <2>1. j # p
    BY <1>1
  <2>2. AfterTail(g, j)
    BY <1>3, <2>1 DEF Kept, TailRetsKept
  <2>3. \A x \in Int : OpOf(g, x) \in {"pop", "call", "tail"} => OpOf(h, x) = OpOf(g, x)
    BY <1>4, <1>5
  <2>4. \A x \in Int : OpOf(h, x) = "pop" => OpOf(g, x) = "pop"
    BY <1>4
  <2>5. j \in Int /\ j - 1 \in Int /\ j - 2 \in Int /\ j - 1 - 1 \in Int /\ j - 2 - 1 \in Int
    BY <1>1
  <2>6. CASE OpOf(g, j - 1) = "pop"
    BY <2>2, <2>3, <2>5, <2>6 DEF AfterTail
  <2>7. CASE OpOf(g, j - 1) # "pop"
    BY <2>2, <2>3, <2>4, <2>5, <2>7 DEF AfterTail
  <2> QED BY <2>6, <2>7
<1>9. TailRetTarget(c) \/ NoJumpSkips(c, h)
  <2> SUFFICES ASSUME ~TailRetTarget(c), NEW j \in 1 .. Len(g), NEW t \in h[j].to, t \in Skipped(c) PROVE FALSE
    BY <1>1 DEF NoJumpSkips
  <2>1. j # p
    BY <1>1
  <2>2. PICK s \in g[j].to : t = Sub(g[p].id, ins.id, s)
    BY <1>3, <2>1 DEF SubAll
  <2>3. s \in Skipped(c)
    BY <2>2 DEF Sub
  <2> QED BY <2>3 DEF Kept, NoJumpSkips
<1>10. NoFallSkips(c, h)
  <2> SUFFICES ASSUME NEW j \in 1 .. Len(g), j + 1 <= Len(g), FallsThrough(h[j].op), h[j].id \notin Skipped(c) \cup TailCalls(c)
               PROVE  h[j + 1].id \notin Skipped(c)
    BY <1>1 DEF NoFallSkips
  <2>1. j # p
    BY <1>1 DEF FallsThrough
  <2>2. j + 1 \in 1 .. Len(g)
    BY <1>1
  <2>3. g[j + 1].id \notin Skipped(c)
    BY <1>3, <2>1 DEF Kept, NoFallSkips
  <2> QED BY <1>1, <1>3, <2>2, <2>3
<1>11. TargetsKept(h)
  <2> SUFFICES ASSUME NEW j \in 1 .. Len(g), NEW t \in h[j].to PROVE t \in IdsOf(h)
    BY <1>1 DEF TargetsKept
  <2>1. CASE j = p
    BY <1>1, <1>2, <2>1
  <2>2. CASE j # p
    <3>1. PICK s \in g[j].to : t = Sub(g[p].id, ins.id, s)
      BY <1>3, <2>2 DEF SubAll
    <3>2. s \in IdsOf(g)
      BY DEF Kept, TargetsKept
    <3> QED BY <1>2, <3>1, <3>2 DEF Sub
  <2> QED BY <2>1, <2>2
<1>12. OthersKept(c, h)
  BY <1>2 DEF Kept, OthersKept
<1>13. Len(h) > 0 /\ h[1].id \notin Skipped(c)
  <2>1. CASE p = 1
    BY <1>0, <1>1, <2>1
  <2>2. CASE p # 1
    <3>1. 1 \in 1 .. Len(g)
      BY <1>0, <1>1
    <3> QED BY <1>0, <1>1, <1>3, <2>2, <3>1 DEF Kept
  <2> QED BY <2>1, <2>2
<1> QED BY <1>1, <1>6, <1>7, <1>8, <1>9, <1>10, <1>11, <1>12, <1>13 DEF Kept

\* What an instruction at the end leaves alone.
LEMMA AppendedFacts ==
    ASSUME NEW g \in Seq(Instrs), NEW ins \in Instrs, NEW h, h = Append(g, ins)
    PROVE  /\ h \in Seq(Instrs) /\ Len(h) = Len(g) + 1 /\ Len(g) \in Nat
           /\ h[Len(h)] = ins
           /\ \A k \in 1 .. Len(g) : h[k] = g[k]
           /\ \A x \in Int : x <= Len(g) => OpOf(h, x) = OpOf(g, x)
           /\ IdsOf(h) = IdsOf(g) \cup {ins.id}
<1> DEFINE n == Len(g)
<1>1. n \in Nat /\ h \in Seq(Instrs) /\ Len(h) = n + 1 /\ h[n + 1] = ins /\ \A k \in 1 .. n : h[k] = g[k]
  OBVIOUS
<1>2. DOMAIN g = 1 .. n /\ DOMAIN h = 1 .. n + 1
  OBVIOUS
<1>3. \A x \in Int : x <= n => OpOf(h, x) = OpOf(g, x)
  <2> HIDE DEF n
  <2> QED BY <1>1, <1>2 DEF OpOf
<1>4. IdsOf(h) = IdsOf(g) \cup {ins.id}
  <2>1. IdsOf(h) = {h[j].id : j \in 1 .. n + 1} /\ IdsOf(g) = {g[k].id : k \in 1 .. n}
    BY <1>1 DEF IdsOf, n
  <2> HIDE DEF n
  <2>2. \A j \in 1 .. n + 1 : j \in 1 .. n \/ j = n + 1
    BY <1>1
  <2>3. \A j \in 1 .. n : j \in 1 .. n + 1
    BY <1>1
  <2>4. n + 1 \in 1 .. n + 1
    BY <1>1
  <2> QED BY <1>1, <2>1, <2>2, <2>3, <2>4
<1> QED BY <1>1, <1>3, <1>4

\* A window of a return ends before it: more at the end changes nothing.
LEMMA AppendedAfterTail ==
    ASSUME NEW g \in Seq(Instrs), NEW ins \in Instrs, NEW h, h = Append(g, ins), NEW k \in 1 .. Len(g)
    PROVE  AfterTail(h, k) <=> AfterTail(g, k)
<1>1. \A x \in Int : x <= Len(g) => OpOf(h, x) = OpOf(g, x)
  BY AppendedFacts
<1>2. Len(g) \in Nat
  OBVIOUS
<1>3. \A x \in {k - 1, k - 2, k - 1 - 1, k - 2 - 1} : x \in Int /\ x <= Len(g)
  BY <1>2
<1>4. OpOf(h, k - 1) = OpOf(g, k - 1) /\ OpOf(h, k - 2) = OpOf(g, k - 2) /\ OpOf(h, k - 1 - 1) = OpOf(g, k - 1 - 1)
      /\ OpOf(h, k - 2 - 1) = OpOf(g, k - 2 - 1)
  BY <1>1, <1>3
<1> QED BY <1>4 DEF AfterTail

\* An instruction at the end keeps what is kept, if nothing falls through to it that should not.
LEMMA AppendKeeps ==
    ASSUME NEW c, NEW g, Kept(c, g), NEW ins \in Instrs, NEW h, h = Append(g, ins),
           ins.to = {}, ins.id \notin IdsOf(g), ins.id \notin Skipped(c), ins.id \notin TailCalls(c)
    PROVE  Kept(c, h)
<1>0. g \in Seq(Instrs) /\ Distinct(g) /\ Len(g) > 0
  BY DEF Kept
<1>1. h \in Seq(Instrs) /\ Len(h) = Len(g) + 1 /\ Len(g) \in Nat /\ h[Len(g) + 1] = ins /\ \A k \in 1 .. Len(g) : h[k] = g[k]
  BY <1>0, AppendedFacts
<1>2. IdsOf(h) = IdsOf(g) \cup {ins.id}
  BY <1>0, AppendedFacts
<1>3. \A j \in 1 .. Len(h) : j \in 1 .. Len(g) \/ j = Len(g) + 1
  BY <1>1
<1>4. Distinct(h)
  <2> SUFFICES ASSUME NEW j \in 1 .. Len(h), NEW l \in 1 .. Len(h), h[j].id = h[l].id PROVE j = l
    BY DEF Distinct
  <2>1. \A k \in 1 .. Len(g) : g[k].id # ins.id
    BY DEF IdsOf
  <2>2. CASE j = Len(g) + 1 \/ l = Len(g) + 1
    BY <1>1, <1>3, <2>1, <2>2
  <2>3. CASE j \in 1 .. Len(g) /\ l \in 1 .. Len(g)
    BY <1>0, <1>1, <2>3 DEF Distinct
  <2> QED BY <1>3, <2>2, <2>3
<1>12. \A x \in Int : x <= Len(g) => OpOf(h, x) = OpOf(g, x)
  BY <1>0, AppendedFacts
<1>5. PrefixKept(c, h)
  <2> SUFFICES ASSUME NEW j \in 1 .. Len(h), h[j].id \in TailCalls(c) PROVE h[j].op = "call" /\ OpOf(h, j - 1) = "tail"
    BY DEF PrefixKept
  <2>1. j \in 1 .. Len(g) /\ h[j] = g[j]
    BY <1>1, <1>3
  <2>2. g[j].op = "call" /\ OpOf(g, j - 1) = "tail"
    BY <2>1 DEF Kept, PrefixKept
  <2>3. OpOf(h, j - 1) = OpOf(g, j - 1)
    <3>1. j - 1 \in Int /\ j - 1 <= Len(g)
      BY <1>1, <2>1
    <3> QED BY <1>12, <3>1
  <2> QED BY <2>1, <2>2, <2>3
<1>6. TailRetsKept(c, h)
  <2> SUFFICES ASSUME NEW j \in 1 .. Len(h), h[j].id \in Skipped(c), h[j].op = "ret" PROVE AfterTail(h, j)
    BY DEF TailRetsKept
  <2>1. j \in 1 .. Len(g) /\ h[j] = g[j]
    BY <1>1, <1>3
  <2>2. AfterTail(g, j)
    BY <2>1 DEF Kept, TailRetsKept
  <2> QED BY <1>0, <2>1, <2>2, AppendedAfterTail
<1>7. TailRetTarget(c) \/ NoJumpSkips(c, h)
  BY <1>1, <1>3 DEF Kept, NoJumpSkips
<1>8. NoFallSkips(c, h)
  <2> SUFFICES ASSUME NEW j \in 1 .. Len(h), j + 1 <= Len(h), FallsThrough(h[j].op), h[j].id \notin Skipped(c) \cup TailCalls(c)
               PROVE  h[j + 1].id \notin Skipped(c)
    BY DEF NoFallSkips
  <2>1. j \in 1 .. Len(g) /\ h[j] = g[j]
    BY <1>1, <1>3
  <2>2. CASE j + 1 = Len(g) + 1
    BY <1>1, <2>2
  <2>3. CASE j + 1 # Len(g) + 1
    <3>1. j + 1 <= Len(g) /\ j + 1 \in 1 .. Len(g)
      BY <1>1, <2>1, <2>3
    <3>2. g[j + 1].id \notin Skipped(c)
      BY <2>1, <3>1 DEF Kept, NoFallSkips
    <3> QED BY <1>1, <3>1, <3>2
  <2> QED BY <2>2, <2>3
<1>9. TargetsKept(h)
  BY <1>1, <1>2, <1>3 DEF Kept, TargetsKept
<1>10. OthersKept(c, h)
  BY <1>2 DEF Kept, OthersKept
<1>11. Len(h) > 0 /\ h[1].id \notin Skipped(c)
  <2>1. 1 \in 1 .. Len(g)
    BY <1>0, <1>1
  <2> QED BY <1>1, <2>1 DEF Kept
<1> QED BY <1>1, <1>4, <1>5, <1>6, <1>7, <1>8, <1>9, <1>10, <1>11 DEF Kept
\* A replacement of a return that fits.
RetReplacement(c, g, p, ins, h) ==
    /\ Kept(c, g) /\ p \in 1 .. Len(g) /\ ins \in Instrs /\ Replaced(g, p, ins, h)
    /\ ins.op = "br" /\ ins.to \subseteq IdsOf(g) \ {g[p].id} /\ ins.to \cap Skipped(c) = {}
    /\ ins.id \notin IdsOf(g) /\ ins.id \notin Skipped(c) /\ ins.id \notin TailCalls(c)
    /\ g[p].op = "ret" /\ g[p].id \notin Skipped(c) /\ \A i \in DOMAIN c : c[i].op # "ret" => Il(i) # g[p].id

Place(g, p, ins) == g \in Seq(Instrs) /\ Distinct(g) /\ p \in 1 .. Len(g) /\ ins \in Instrs

\* Replace and InsertBeforeAndRetargetOffsets are the edits described.
LEMMA ReplaceIs ==
    ASSUME NEW g, NEW p, NEW ins, Place(g, p, ins)
    PROVE  Replaced(g, p, ins, Replace(g, g[p].id, ins))
<1> DEFINE h == Replace(g, g[p].id, ins)
<1>1. g \in Seq(Instrs) /\ Distinct(g) /\ p \in 1 .. Len(g) /\ ins \in Instrs
  BY DEF Place
<1>2. /\ h \in Seq(Instrs) /\ Len(h) = Len(g)
      /\ \A j \in 1 .. Len(h) : h[j] = IF j = p THEN ins ELSE Moved(g[j], g[p].id, ins.id)
  BY <1>1, ReplaceAt
<1> HIDE DEF h
<1>3. Replaced(g, p, ins, h)
  BY <1>2 DEF Replaced
<1> QED BY <1>3 DEF h

\* The same for the insertion.
LEMMA InsertIs ==
    ASSUME NEW g, NEW p, NEW ins, Place(g, p, ins)
    PROVE  Inserted(g, p, ins, InsertBeforeAndRetargetOffsets(g, g[p].id, ins))
<1> DEFINE h == InsertBeforeAndRetargetOffsets(g, g[p].id, ins)
<1>1. g \in Seq(Instrs) /\ Distinct(g) /\ p \in 1 .. Len(g) /\ ins \in Instrs
  BY DEF Place
<1>2. /\ h \in Seq(Instrs) /\ Len(h) = Len(g) + 1
      /\ \A j \in 1 .. Len(h) :
           h[j] = IF j < p THEN Moved(g[j], g[p].id, ins.id) ELSE IF j = p THEN ins ELSE Moved(g[j - 1], g[p].id, ins.id)
  BY <1>1, InsertAt
<1> HIDE DEF h
<1>3. Inserted(g, p, ins, h)
  BY <1>2 DEF Inserted
<1> QED BY <1>3 DEF h

\* A return that is no return of a tail call may be replaced.
LEMMA RetReplacementKeeps ==
    ASSUME NEW c, NEW g, NEW p, NEW ins, NEW h, RetReplacement(c, g, p, ins, h)
    PROVE  Kept(c, h)
  BY ReplaceKeeps DEF RetReplacement

-----------------------------------------------------------------------------
(* The loop over the returns. *)

\* The names of the original instructions, and of those in the graph while the returns D have been replaced.
Originals(c) == {Il(i) : i \in 1 .. Len(c)}
IdNames(c, D) == {NewRet, NewLdloc} \cup Originals(c) \cup {Br(x) : x \in D} \cup {Stloc(x) : x \in D}

\* The names of the engine's instructions are none of the original ones, and differ where they should.
LEMMA NewNames ==
    ASSUME NEW c \in Seq(Instrs), NEW D, D \subseteq Originals(c)
    PROVE  /\ NewRet \in InstrIds /\ NewLdloc \in InstrIds /\ NewRet # NewLdloc
           /\ NewRet \notin Originals(c) /\ NewLdloc \notin Originals(c)
           /\ \A x \in Originals(c) :
                /\ x \in InstrIds /\ Br(x) \in InstrIds /\ Stloc(x) \in InstrIds /\ Probe(x) \in InstrIds
                /\ Br(x) \notin Originals(c) /\ Stloc(x) \notin Originals(c) /\ Br(x) # Stloc(x)
                /\ Br(x) # NewRet /\ Stloc(x) # NewRet /\ Br(x) # NewLdloc /\ Stloc(x) # NewLdloc
                /\ x \notin D => Br(x) \notin IdNames(c, D) /\ Stloc(x) \notin IdNames(c, D)
           /\ \A x \in InstrIds : Probe(x) \in InstrIds /\ Probe(x) \notin IdNames(c, D)
           /\ Skipped(c) \subseteq Originals(c) /\ TailCalls(c) \subseteq Originals(c)
<1>0. Len(c) \in Nat /\ DOMAIN c = 1 .. Len(c)
  OBVIOUS
<1>1. NewRet \in InstrIds /\ NewLdloc \in InstrIds /\ NewRet # NewLdloc
  BY DEF NewRet, NewLdloc, InstrIds
<1>2. \A x \in Originals(c) : \E i \in 1 .. Len(c) : x = <<"il", i>> /\ i \in Nat
  BY <1>0 DEF Originals, Il
<1>3. NewRet \notin Originals(c) /\ NewLdloc \notin Originals(c)
  BY <1>2 DEF NewRet, NewLdloc
<1>4. ASSUME NEW x \in Originals(c)
      PROVE  /\ x \in InstrIds /\ Br(x) \in InstrIds /\ Stloc(x) \in InstrIds /\ Probe(x) \in InstrIds
             /\ Br(x) \notin Originals(c) /\ Stloc(x) \notin Originals(c) /\ Br(x) # Stloc(x)
             /\ Br(x) # NewRet /\ Stloc(x) # NewRet /\ Br(x) # NewLdloc /\ Stloc(x) # NewLdloc
             /\ x \notin D => Br(x) \notin IdNames(c, D) /\ Stloc(x) \notin IdNames(c, D)
  <2>1. PICK i \in 1 .. Len(c) : x = <<"il", i>> /\ i \in Nat
    BY <1>2
  <2>2. Br(x) = <<"br", i>> /\ Stloc(x) = <<"stloc", i>> /\ Probe(x) = <<"probe", i>>
    BY <2>1 DEF Br, Stloc, Probe
  <2>3. x \in InstrIds /\ Br(x) \in InstrIds /\ Stloc(x) \in InstrIds /\ Probe(x) \in InstrIds
    BY <2>1, <2>2 DEF InstrIds
  <2>4. Br(x) \notin Originals(c) /\ Stloc(x) \notin Originals(c) /\ Br(x) # Stloc(x)
    BY <1>2, <2>2
  <2>5. Br(x) # NewRet /\ Stloc(x) # NewRet /\ Br(x) # NewLdloc /\ Stloc(x) # NewLdloc
    BY <2>2 DEF NewRet, NewLdloc
  <2>6. ASSUME NEW y \in D, x \notin D PROVE Br(x) # Br(y) /\ Stloc(x) # Stloc(y) /\ Br(x) # Stloc(y) /\ Stloc(x) # Br(y)
    <3>1. PICK j \in 1 .. Len(c) : y = <<"il", j>>
      BY <1>2
    <3>2. i # j
      BY <2>1, <2>6, <3>1
    <3>3. Br(y) = <<"br", j>> /\ Stloc(y) = <<"stloc", j>>
      BY <3>1 DEF Br, Stloc
    <3> QED BY <2>2, <3>2, <3>3
  <2>7. x \notin D => Br(x) \notin IdNames(c, D) /\ Stloc(x) \notin IdNames(c, D)
    BY <2>4, <2>5, <2>6 DEF IdNames
  <2> QED BY <2>3, <2>4, <2>5, <2>7
<1>5. ASSUME NEW x \in InstrIds PROVE Probe(x) \in InstrIds /\ Probe(x) \notin IdNames(c, D)
  <2>1. x[2] \in Nat /\ Probe(x) = <<"probe", x[2]>>
    BY DEF InstrIds, Probe
  <2>2. Probe(x) \in InstrIds
    BY <2>1 DEF InstrIds
  <2>3. Probe(x) # NewRet /\ Probe(x) # NewLdloc /\ Probe(x) \notin Originals(c)
    BY <1>2, <2>1 DEF NewRet, NewLdloc
  <2>4. \A y \in D : Probe(x) # Br(y) /\ Probe(x) # Stloc(y)
    BY <2>1 DEF Br, Stloc
  <2> QED BY <2>2, <2>3, <2>4 DEF IdNames
<1>6. Skipped(c) \subseteq Originals(c) /\ TailCalls(c) \subseteq Originals(c)
  BY <1>0 DEF Skipped, TailCalls, Originals
<1> QED BY <1>1, <1>3, <1>4, <1>5, <1>6

\* The new return comes last, and where the value is stored only the load leads to it.
NewOnesAre(g) ==
    \A k \in 1 .. Len(g) :
        /\ g[k].id = NewRet => g[k].op = "ret" /\ g[k].to = {}
        /\ g[k].id = NewLdloc => g[k].op = "ldloc" /\ g[k].to = {}
LoadLeads(st, g) ==
    st => \A k \in 1 .. Len(g) :
            /\ NewRet \notin g[k].to
            /\ k + 1 <= Len(g) /\ g[k + 1].id = NewRet => g[k].id = NewLdloc
            /\ k + 1 <= Len(g) /\ g[k].id = NewLdloc => g[k + 1].id = NewRet

\* The graph h while the returns P wait to be replaced, and the returns D are.
Going(c, st, P, D, h) ==
    /\ Kept(c, h)
    /\ IdsOf(h) \subseteq IdNames(c, D)
    /\ NewRet \in IdsOf(h) /\ (st => NewLdloc \in IdsOf(h))
    /\ NewOnesAre(h) /\ LoadLeads(st, h)
    /\ \A k \in 1 .. Len(h) : h[k].op # "probe" /\ (h[k].op = "ret" => h[k].id \in {NewRet} \cup Skipped(c) \cup P)
    /\ \A x \in P : \E k \in 1 .. Len(h) : h[k].id = x /\ h[k].op = "ret"
    /\ h[1].id \notin {NewRet, NewLdloc}

\* A return of the original method that is to be replaced, where it is in the graph, and what it is replaced by.
Ready(c, x) == x \in Originals(c) /\ x \notin Skipped(c) /\ \A i \in DOMAIN c : c[i].op # "ret" => Il(i) # x
ReadyAt(c, P, D, g, p, x) ==
    /\ D \subseteq Originals(c) /\ x \in P /\ x \notin D /\ Ready(c, x)
    /\ p \in 1 .. Len(g) /\ g[p].id = x /\ g[p].op = "ret"
BranchFor(st, x) == Instruction(Br(x), "br", {IF st THEN NewLdloc ELSE NewRet})
StoreFor(x) == Instruction(Stloc(x), "stloc", {})
StoreAt(c, D, g, p, x) ==
    /\ D \subseteq Originals(c) /\ x \in D
    /\ p \in 1 .. Len(g) /\ g[p].id = Br(x) /\ g[p].op = "br" /\ Stloc(x) \notin IdsOf(g)

\* The return becomes a branch.
LEMMA GoingBranch ==
    ASSUME NEW c \in Seq(Instrs), NEW st \in BOOLEAN, NEW P, NEW D, NEW g, Going(c, st, P, D, g),
           NEW p, NEW x, ReadyAt(c, P, D, g, p, x), NEW h, Replaced(g, p, BranchFor(st, x), h)
    PROVE  Going(c, st, P \ {x}, D \cup {x}, h) /\ Stloc(x) \notin IdsOf(h) /\ h[p] = BranchFor(st, x)
<1> SUFFICES ASSUME D \subseteq Originals(c), p \in 1 .. Len(g), x = g[p].id, x \in P, x \notin D, x \in Originals(c),
                    x \notin Skipped(c), g[p].op = "ret", \A i \in DOMAIN c : c[i].op # "ret" => Il(i) # x
             PROVE  Going(c, st, P \ {x}, D \cup {x}, h) /\ Stloc(x) \notin IdsOf(h) /\ h[p] = BranchFor(st, x)
  BY DEF ReadyAt, Ready
<1> DEFINE ins == BranchFor(st, x)
<1> DEFINE T == IF st THEN NewLdloc ELSE NewRet
<1>0. g \in Seq(Instrs) /\ Distinct(g) /\ Len(g) > 0 /\ Kept(c, g)
  BY DEF Going, Kept
<1>1. T \in IdsOf(g) /\ T # x /\ T \notin Skipped(c) /\ T \in InstrIds
  BY NewNames DEF Going
<1>2. Br(x) \in InstrIds /\ Br(x) \notin IdNames(c, D) /\ Stloc(x) \notin IdNames(c, D) /\ Br(x) # Stloc(x)
      /\ Br(x) \notin Originals(c) /\ Br(x) # NewRet /\ Br(x) # NewLdloc
  BY NewNames
<1>3. ins.id = Br(x) /\ ins.op = "br" /\ ins.to = {T} /\ ins \in Instrs
  BY <1>1, <1>2 DEF BranchFor, Instruction, Instrs, Ops
<1>17. Replaced(g, p, ins, h)
  OBVIOUS
<1> HIDE DEF ins
<1>4. Br(x) \notin IdsOf(g) /\ Stloc(x) \notin IdsOf(g) /\ Br(x) \notin Skipped(c) /\ Br(x) \notin TailCalls(c)
  BY <1>2, NewNames DEF Going
<1>5. Kept(c, h)
  <2>1. ins.to \subseteq IdsOf(g) \ {g[p].id} /\ ins.to \cap Skipped(c) = {}
    BY <1>1, <1>3
  <2>2. ins.id \notin IdsOf(g) /\ ins.id \notin Skipped(c) /\ ins.id \notin TailCalls(c)
    BY <1>3, <1>4
  <2>3. ins \in Instrs /\ ins.op = "br"
    BY <1>3
  <2>4. g[p].id \notin Skipped(c) /\ \A i \in DOMAIN c : c[i].op # "ret" => Il(i) # g[p].id
    OBVIOUS
  <2>5. RetReplacement(c, g, p, ins, h)
    BY <1>0, <1>17, <2>1, <2>2, <2>3, <2>4 DEF RetReplacement
  <2> QED BY <2>5, RetReplacementKeeps
<1>6. h \in Seq(Instrs) /\ Len(h) = Len(g) /\ Len(g) \in Nat /\ h[p] = ins
  BY <1>0, <1>3, <1>17, ReplacedFacts
<1>7. IdsOf(h) = (IdsOf(g) \ {x}) \cup {Br(x)}
  BY <1>0, <1>3, <1>17, ReplacedFacts
<1>8. \A k \in 1 .. Len(g) : k # p =>
                /\ h[k].id = g[k].id /\ h[k].op = g[k].op
                /\ h[k].to = SubAll(x, Br(x), g[k].to)
  BY <1>0, <1>3, <1>17, ReplacedFacts
<1>9. IdsOf(h) \subseteq IdNames(c, D \cup {x})
  BY <1>7 DEF Going, IdNames
<1>10. NewRet \in IdsOf(h) /\ (st => NewLdloc \in IdsOf(h))
  BY <1>7, NewNames DEF Going
<1>11. NewOnesAre(h)
  <2> SUFFICES ASSUME NEW k \in 1 .. Len(g)
               PROVE  /\ h[k].id = NewRet => h[k].op = "ret" /\ h[k].to = {}
                      /\ h[k].id = NewLdloc => h[k].op = "ldloc" /\ h[k].to = {}
    BY <1>6 DEF NewOnesAre
  <2>1. CASE k = p
    BY <1>2, <1>3, <1>6, <2>1
  <2>2. CASE k # p
    <3>1. h[k].id = g[k].id /\ h[k].op = g[k].op /\ (g[k].to = {} => h[k].to = {})
      BY <1>8, <2>2 DEF SubAll
    <3>2. /\ g[k].id = NewRet => g[k].op = "ret" /\ g[k].to = {}
          /\ g[k].id = NewLdloc => g[k].op = "ldloc" /\ g[k].to = {}
      BY DEF Going, NewOnesAre
    <3> QED BY <3>1, <3>2
  <2> QED BY <2>1, <2>2
<1>12. LoadLeads(st, h)
  <2> SUFFICES ASSUME st, NEW k \in 1 .. Len(g)
               PROVE  /\ NewRet \notin h[k].to
                      /\ k + 1 <= Len(g) /\ h[k + 1].id = NewRet => h[k].id = NewLdloc
                      /\ k + 1 <= Len(g) /\ h[k].id = NewLdloc => h[k + 1].id = NewRet
    BY <1>6 DEF LoadLeads
  <2>0. /\ NewRet \notin g[k].to
        /\ k + 1 <= Len(g) /\ g[k + 1].id = NewRet => g[k].id = NewLdloc
        /\ k + 1 <= Len(g) /\ g[k].id = NewLdloc => g[k + 1].id = NewRet
    BY DEF Going, LoadLeads
  <2>1. NewRet \notin h[k].to
    <3>1. CASE k = p
      BY <1>3, <1>6, <3>1, NewNames
    <3>2. CASE k # p
      <4>1. \A t \in g[k].to : Sub(x, Br(x), t) # NewRet
        BY <1>2, <2>0 DEF Sub
      <4> QED BY <1>8, <3>2, <4>1 DEF SubAll
    <3> QED BY <3>1, <3>2
  <2>2. x # NewRet /\ x # NewLdloc
    BY NewNames
  <2>3. \A l \in 1 .. Len(g) : /\ h[l].id = NewRet <=> g[l].id = NewRet
                               /\ h[l].id = NewLdloc <=> g[l].id = NewLdloc
    <3> TAKE l \in 1 .. Len(g)
    <3>1. CASE l = p
      BY <1>2, <1>3, <1>6, <2>2, <3>1
    <3>2. CASE l # p
      BY <1>8, <3>2
    <3> QED BY <3>1, <3>2
  <2>4. k + 1 <= Len(g) => k + 1 \in 1 .. Len(g)
    BY <1>6
  <2> QED BY <2>0, <2>1, <2>3, <2>4
<1>13. ASSUME NEW k \in 1 .. Len(g)
       PROVE  h[k].op # "probe" /\ (h[k].op = "ret" => h[k].id \in {NewRet} \cup Skipped(c) \cup (P \ {x}))
  <2>1. CASE k = p
    BY <1>3, <1>6, <2>1
  <2>2. CASE k # p
    <3>1. h[k].id = g[k].id /\ h[k].op = g[k].op
      BY <1>8, <2>2
    <3>2. g[k].id # x
      BY <1>0, <2>2 DEF Distinct
    <3>3. g[k].op # "probe" /\ (g[k].op = "ret" => g[k].id \in {NewRet} \cup Skipped(c) \cup P)
      BY DEF Going
    <3> QED BY <3>1, <3>2, <3>3
  <2> QED BY <2>1, <2>2
<1>14. ASSUME NEW y \in P \ {x} PROVE \E k \in 1 .. Len(g) : h[k].id = y /\ h[k].op = "ret"
  <2>1. PICK k \in 1 .. Len(g) : g[k].id = y /\ g[k].op = "ret"
    BY DEF Going
  <2>2. k # p
    BY <2>1
  <2> QED BY <1>8, <2>1, <2>2
<1>15. h[1].id \notin {NewRet, NewLdloc}
  <2>1. CASE p = 1
    BY <1>2, <1>3, <1>6, <2>1
  <2>2. CASE p # 1
    <3>1. 1 \in 1 .. Len(g)
      BY <1>0, <1>6
    <3> QED BY <1>8, <2>2, <3>1 DEF Going
  <2> QED BY <2>1, <2>2
<1>16. Stloc(x) \notin IdsOf(h)
  BY <1>2, <1>4, <1>7
<1> QED BY <1>5, <1>6, <1>9, <1>10, <1>11, <1>12, <1>13, <1>14, <1>15, <1>16 DEF Going, ins

\* An instruction put before another one keeps the loop going.
LEMMA GoingInserted ==
    ASSUME NEW c \in Seq(Instrs), NEW st \in BOOLEAN, NEW P, NEW D, NEW g, Going(c, st, P, D, g), D \subseteq Originals(c),
           NEW p \in 1 .. Len(g), NEW x \in D, g[p].id = Br(x), g[p].op = "br", Stloc(x) \notin IdsOf(g),
           NEW ins, ins = Instruction(Stloc(x), "stloc", {}), NEW h, Inserted(g, p, ins, h)
    PROVE  Going(c, st, P, D, h)
<1>0. g \in Seq(Instrs) /\ Distinct(g) /\ Len(g) > 0 /\ Kept(c, g)
  BY DEF Going, Kept
<1>1. x \in Originals(c)
  OBVIOUS
<1>2. /\ Stloc(x) \in InstrIds /\ Stloc(x) \notin Originals(c) /\ Stloc(x) # NewRet /\ Stloc(x) # NewLdloc
      /\ Br(x) \notin Originals(c) /\ Br(x) # NewRet /\ Br(x) # NewLdloc
  BY <1>1, NewNames
<1>3. ins.id = Stloc(x) /\ ins.op = "stloc" /\ ins.to = {} /\ ins \in Instrs
  BY <1>2 DEF Instruction, Instrs, NewOps
<1>4. Stloc(x) \notin Skipped(c) /\ Stloc(x) \notin TailCalls(c) /\ Br(x) \notin Skipped(c)
  BY <1>2, NewNames
<1>5. Kept(c, h)
  BY <1>0, <1>3, <1>4, InsertKeeps
<1>17. Insertion(g, p, ins, h)
  BY <1>0, <1>3 DEF Insertion
<1>19. Shifted(g, p, ins, h)
  BY <1>17, InsertionFacts
<1>6. h \in Seq(Instrs) /\ Len(h) = Len(g) + 1 /\ Len(g) \in Nat /\ h[p] = ins /\ IdsOf(h) = IdsOf(g) \cup {Stloc(x)}
  BY <1>3, <1>19 DEF Shifted
<1>18. /\ \A j \in 1 .. Len(h) : j = p \/ \E k \in 1 .. Len(g) : j = Up(p, k)
       /\ \A k \in 1 .. Len(g) :
                /\ Up(p, k) \in 1 .. Len(h)
                /\ h[Up(p, k)].id = g[k].id /\ h[Up(p, k)].op = g[k].op
                /\ h[Up(p, k)].to = SubAll(g[p].id, ins.id, g[k].to)
                /\ Up(p, k) + 1 <= Len(h) => Up(p, k) + 1 = p \/ (k + 1 <= Len(g) /\ Up(p, k) + 1 = Up(p, k + 1))
                /\ Up(p, k) # p
       /\ p + 1 = Up(p, p)
  BY <1>19 DEF Shifted
<1>7. \A j \in 1 .. Len(h) : j = p \/ \E k \in 1 .. Len(g) : j = Up(p, k)
  BY <1>18
<1>8. \A k \in 1 .. Len(g) :
                /\ Up(p, k) \in 1 .. Len(h)
                /\ h[Up(p, k)].id = g[k].id /\ h[Up(p, k)].op = g[k].op
                /\ h[Up(p, k)].to = SubAll(Br(x), Stloc(x), g[k].to)
  BY <1>3, <1>18
<1>9. \A k \in 1 .. Len(g) : Up(p, k) + 1 <= Len(h) => Up(p, k) + 1 = p \/ (k + 1 <= Len(g) /\ Up(p, k) + 1 = Up(p, k + 1))
  BY <1>18
<1>10. p + 1 = Up(p, p)
  BY <1>18
<1>11. IdsOf(h) \subseteq IdNames(c, D) /\ NewRet \in IdsOf(h) /\ (st => NewLdloc \in IdsOf(h))
  BY <1>6 DEF Going, IdNames
<1>12. NewOnesAre(h)
  <2> SUFFICES ASSUME NEW j \in 1 .. Len(h)
               PROVE  /\ h[j].id = NewRet => h[j].op = "ret" /\ h[j].to = {}
                      /\ h[j].id = NewLdloc => h[j].op = "ldloc" /\ h[j].to = {}
    BY DEF NewOnesAre
  <2>1. CASE j = p
    BY <1>2, <1>3, <1>6, <2>1
  <2>2. CASE j # p
    <3>1. PICK k \in 1 .. Len(g) : j = Up(p, k)
      BY <1>7, <2>2
    <3>2. h[j].id = g[k].id /\ h[j].op = g[k].op /\ (g[k].to = {} => h[j].to = {})
      BY <1>8, <3>1 DEF SubAll
    <3>3. /\ g[k].id = NewRet => g[k].op = "ret" /\ g[k].to = {}
          /\ g[k].id = NewLdloc => g[k].op = "ldloc" /\ g[k].to = {}
      BY DEF Going, NewOnesAre
    <3> QED BY <3>2, <3>3
  <2> QED BY <2>1, <2>2
<1>13. LoadLeads(st, h)
  <2> SUFFICES ASSUME st, NEW j \in 1 .. Len(h)
               PROVE  /\ NewRet \notin h[j].to
                      /\ j + 1 <= Len(h) /\ h[j + 1].id = NewRet => h[j].id = NewLdloc
                      /\ j + 1 <= Len(h) /\ h[j].id = NewLdloc => h[j + 1].id = NewRet
    BY DEF LoadLeads
  <2>0. \A k \in 1 .. Len(g) :
        /\ NewRet \notin g[k].to
        /\ k + 1 <= Len(g) /\ g[k + 1].id = NewRet => g[k].id = NewLdloc
        /\ k + 1 <= Len(g) /\ g[k].id = NewLdloc => g[k + 1].id = NewRet
    BY DEF Going, LoadLeads
  <2>1. CASE j = p
    <3>1. NewRet \notin h[j].to /\ h[j].id # NewLdloc
      BY <1>2, <1>3, <1>6, <2>1
    <3>2. h[j + 1].id = Br(x)
      BY <1>8, <1>10, <2>1
    <3> QED BY <1>2, <3>1, <3>2
  <2>2. CASE j # p
    <3>1. PICK k \in 1 .. Len(g) : j = Up(p, k)
      BY <1>7, <2>2
    <3>2. NewRet \notin h[j].to
      <4>1. \A t \in g[k].to : Sub(Br(x), Stloc(x), t) # NewRet
        BY <1>2, <2>0 DEF Sub
      <4> QED BY <1>8, <3>1, <4>1 DEF SubAll
    <3>3. CASE j + 1 = p
      <4>1. h[j + 1].id = Stloc(x)
        BY <1>3, <1>6, <3>3
      <4>2. k + 1 = p /\ k + 1 <= Len(g)
        BY <1>6, <3>1, <3>3 DEF Up
      <4>3. g[k + 1].id # NewRet
        BY <1>2, <4>2
      <4>4. g[k].id # NewLdloc
        BY <2>0, <4>2, <4>3
      <4> QED BY <1>2, <1>8, <3>1, <3>2, <4>1, <4>4
    <3>4. CASE j + 1 # p /\ j + 1 <= Len(h)
      <4>1. k + 1 <= Len(g) /\ j + 1 = Up(p, k + 1)
        BY <1>9, <3>1, <3>4
      <4>2. k + 1 \in 1 .. Len(g)
        BY <1>6, <4>1
      <4>3. h[j].id = g[k].id /\ h[j + 1].id = g[k + 1].id
        BY <1>8, <3>1, <4>1, <4>2
      <4> QED BY <2>0, <3>2, <4>1, <4>3
    <3> QED BY <3>2, <3>3, <3>4
  <2> QED BY <2>1, <2>2
<1>14. ASSUME NEW j \in 1 .. Len(h)
       PROVE  h[j].op # "probe" /\ (h[j].op = "ret" => h[j].id \in {NewRet} \cup Skipped(c) \cup P)
  <2>1. CASE j = p
    BY <1>3, <1>6, <2>1
  <2>2. CASE j # p
    <3>1. PICK k \in 1 .. Len(g) : j = Up(p, k)
      BY <1>7, <2>2
    <3>2. h[j].id = g[k].id /\ h[j].op = g[k].op
      BY <1>8, <3>1
    <3>3. g[k].op # "probe" /\ (g[k].op = "ret" => g[k].id \in {NewRet} \cup Skipped(c) \cup P)
      BY DEF Going
    <3> QED BY <3>2, <3>3
  <2> QED BY <2>1, <2>2
<1>15. ASSUME NEW y \in P PROVE \E j \in 1 .. Len(h) : h[j].id = y /\ h[j].op = "ret"
  <2>1. PICK k \in 1 .. Len(g) : g[k].id = y /\ g[k].op = "ret"
    BY DEF Going
  <2> QED BY <1>8, <2>1
<1>16. h[1].id \notin {NewRet, NewLdloc}
  <2>1. CASE p = 1
    BY <1>2, <1>3, <1>6, <2>1
  <2>2. CASE p # 1
    <3>1. 1 \in 1 .. Len(g) /\ Up(p, 1) = 1
      BY <1>0, <1>6, <2>2 DEF Up
    <3> QED BY <1>8, <3>1 DEF Going
  <2> QED BY <2>1, <2>2
<1> QED BY <1>5, <1>11, <1>12, <1>13, <1>14, <1>15, <1>16 DEF Going

\* The store is put before the branch.
LEMMA GoingStore ==
    ASSUME NEW c \in Seq(Instrs), NEW st \in BOOLEAN, NEW P, NEW D, NEW g, Going(c, st, P, D, g),
           NEW p, NEW x, StoreAt(c, D, g, p, x), NEW h, Inserted(g, p, StoreFor(x), h)
    PROVE  Going(c, st, P, D, h)
<1>1. D \subseteq Originals(c) /\ x \in D /\ p \in 1 .. Len(g) /\ g[p].id = Br(x) /\ g[p].op = "br" /\ Stloc(x) \notin IdsOf(g)
  BY DEF StoreAt
<1>2. PICK ins : ins = Instruction(Stloc(x), "stloc", {})
  OBVIOUS
<1>3. Inserted(g, p, ins, h)
  BY <1>2 DEF StoreFor
<1> QED BY <1>1, <1>2, <1>3, GoingInserted

\* One round of the loop.
LEMMA GoingRound ==
    ASSUME NEW c \in Seq(Instrs), NEW P, NEW D, NEW g, Going(c, StoresRetVal, P, D, g), D \subseteq Originals(c),
           NEW x \in P, x \notin D, Ready(c, x)
    PROVE  Going(c, StoresRetVal, P \ {x}, D \cup {x}, ReplaceRet(g, x))
<1> DEFINE st == StoresRetVal
           ins == BranchFor(st, x)
           b == Replace(g, x, ins)
           sto == StoreFor(x)
           e == InsertBeforeAndRetargetOffsets(b, Br(x), sto)
<1>0. st \in BOOLEAN
  BY DEF StoresRetVal
<1>1. g \in Seq(Instrs) /\ Distinct(g)
  BY DEF Going, Kept
<1>2. x \in Originals(c)
  BY DEF Ready
<1>3. PICK p \in 1 .. Len(g) : g[p].id = x /\ g[p].op = "ret"
  BY DEF Going
<1>4. ins \in Instrs /\ ins.id = Br(x) /\ ins.op = "br" /\ sto \in Instrs
  BY <1>2, NewNames DEF BranchFor, StoreFor, Instruction, Instrs, Ops, NewOps
<1>7. ReplaceRet(g, x) = IF st THEN e ELSE b
  BY DEF ReplaceRet, BranchTarget, BranchFor, StoreFor
<1> HIDE DEF ins, sto, st
<1>5. Replaced(g, p, ins, b)
  <2>1. Place(g, p, ins)
    BY <1>1, <1>4 DEF Place
  <2> QED BY <1>3, <2>1, ReplaceIs
<1> HIDE DEF b
<1>6. Going(c, st, P \ {x}, D \cup {x}, b) /\ Stloc(x) \notin IdsOf(b) /\ b[p] = ins
  <2>1. ReadyAt(c, P, D, g, p, x)
    BY <1>3 DEF ReadyAt
  <2>2. Going(c, st, P, D, g)
    BY DEF st
  <2>3. Replaced(g, p, BranchFor(st, x), b)
    BY <1>5 DEF ins
  <2>4. Going(c, st, P \ {x}, D \cup {x}, b) /\ Stloc(x) \notin IdsOf(b) /\ b[p] = BranchFor(st, x)
    BY <1>0, <2>1, <2>2, <2>3, GoingBranch
  <2> QED BY <2>4 DEF ins
<1>8. Going(c, st, P \ {x}, D \cup {x}, e)
  <2>1. b \in Seq(Instrs) /\ Distinct(b) /\ Len(b) = Len(g)
    BY <1>5, <1>6 DEF Going, Kept, Replaced
  <2>2. p \in 1 .. Len(b) /\ b[p].id = Br(x) /\ b[p].op = "br"
    BY <1>4, <1>6, <2>1
  <2>3. Inserted(b, p, sto, e)
    <3>1. Place(b, p, sto)
      BY <1>4, <2>1, <2>2 DEF Place
    <3> QED BY <2>2, <3>1, InsertIs
  <2>4. StoreAt(c, D \cup {x}, b, p, x)
    BY <1>2, <1>6, <2>2 DEF StoreAt
  <2> HIDE DEF e
  <2> QED BY <1>0, <1>6, <2>3, <2>4, GoingStore DEF sto
<1> HIDE DEF e
<1> QED BY <1>6, <1>7, <1>8 DEF st

\* An original method: its instructions are named by their position, and control does not leave it at the end.
Numbered(c) ==
    /\ c \in Seq(Instrs)
    /\ \A i \in 1 .. Len(c) : c[i].id = Il(i) /\ c[i].op \in Ops /\ c[i].to \subseteq Originals(c)
    /\ \A i \in 1 .. Len(c) : FallsThrough(c[i].op) => i + 1 <= Len(c)

\* What can be replaced is ready for it.
AllReady(c) == \A i \in Replaceables(c) : i \in 1 .. Len(c) /\ Ready(c, Il(i)) /\ c[i].op = "ret"

\* The original method keeps what has to be kept, and what can be replaced is ready.
LEMMA OriginalFacts ==
    ASSUME NEW c, Numbered(c), Len(c) > 0
    PROVE  /\ Kept(c, c) /\ IdsOf(c) = Originals(c)
           /\ \A i \in 1 .. Len(c) : c[i].op = "ret" => Il(i) \in Skipped(c) \/ i \in Replaceables(c)
           /\ AllReady(c)
<1>0. c \in Seq(Instrs) /\ Len(c) \in Nat /\ DOMAIN c = 1 .. Len(c)
  BY DEF Numbered
<1>1. \A i, j \in 1 .. Len(c) : Il(i) = Il(j) => i = j
  BY DEF Il
<1>2. \A i \in 1 .. Len(c) : c[i].id = Il(i)
  BY DEF Numbered
<1>3. Distinct(c)
  BY <1>1, <1>2 DEF Distinct
<1>4. IdsOf(c) = Originals(c)
  BY <1>2 DEF IdsOf, Originals
<1>5. \A i \in 1 .. Len(c) : Il(i) \in Skipped(c) <=> AfterCall(c, i)
  BY <1>0, <1>1 DEF Skipped
<1>6. \A i \in 1 .. Len(c) : Il(i) \in TailCalls(c) <=> c[i].op = "call" /\ OpOf(c, i - 1) = "tail"
  BY <1>0, <1>1 DEF TailCalls
<1>7. \A i \in 1 .. Len(c) : OpOf(c, i) = c[i].op
  BY <1>0 DEF OpOf
<1>8. PrefixKept(c, c)
  BY <1>2, <1>6 DEF PrefixKept
<1>9. ASSUME NEW i \in 1 .. Len(c), c[i].op = "ret" PROVE AfterCall(c, i) <=> AfterTail(c, i)
  <2>1. i - 1 - 1 = i - 2 /\ i - 2 - 1 = i - 3
    BY <1>0
  <2> QED BY <1>9, <2>1 DEF AfterCall, AfterTail
<1>10. TailRetsKept(c, c)
  BY <1>2, <1>5, <1>9 DEF TailRetsKept
<1>11. TailRetTarget(c) \/ NoJumpSkips(c, c)
  <2> SUFFICES ASSUME NEW j \in 1 .. Len(c), NEW t \in c[j].to, t \in Skipped(c) PROVE TailRetTarget(c)
    BY DEF NoJumpSkips
  <2>1. PICK i \in 1 .. Len(c) : t = Il(i) /\ AfterCall(c, i)
    BY <1>0 DEF Skipped
  <2>2. /\ OpOf(c, i - 1) = "call" \/ (OpOf(c, i - 1) = "pop" /\ c[i].op = "ret")
        /\ OpOf(c, i - 2) = "tail" \/ OpOf(c, i - 3) = "tail"
    BY <2>1 DEF AfterCall
  <2>3. i \in DOMAIN c /\ j \in DOMAIN c /\ Il(i) \in c[j].to
    BY <1>0, <2>1
  <2> QED BY <2>2, <2>3 DEF TailRetTarget
<1>12. NoFallSkips(c, c)
  <2> SUFFICES ASSUME NEW k \in 1 .. Len(c), k + 1 <= Len(c), FallsThrough(c[k].op), c[k].id \notin Skipped(c) \cup TailCalls(c),
                      c[k + 1].id \in Skipped(c)
               PROVE  FALSE
    BY DEF NoFallSkips
  <2>1. k + 1 \in 1 .. Len(c) /\ k + 1 - 1 = k /\ k + 1 - 2 = k - 1 /\ k + 1 - 3 = k - 2
    BY <1>0
  <2>2. AfterCall(c, k + 1)
    BY <1>2, <1>5, <2>1
  <2>3. ~AfterCall(c, k) /\ ~(c[k].op = "call" /\ OpOf(c, k - 1) = "tail")
    BY <1>2, <1>5, <1>6
  <2>4. OpOf(c, k) = c[k].op
    BY <1>7
  <2>5. OpOf(c, k) = "pop" /\ OpOf(c, k - 1) = "call" /\ OpOf(c, k - 2) = "tail"
    BY <2>1, <2>2, <2>3, <2>4 DEF AfterCall
  <2> QED BY <2>3, <2>5 DEF AfterCall
<1>13. TargetsKept(c) /\ OthersKept(c, c)
  BY <1>0, <1>4 DEF TargetsKept, OthersKept, Numbered, Originals
<1>14. c[1].id \notin Skipped(c)
  <2>1. 1 \in 1 .. Len(c) /\ 1 - 1 \notin DOMAIN c
    BY <1>0
  <2>2. OpOf(c, 1 - 1) = "none"
    BY <2>1 DEF OpOf
  <2>3. ~AfterCall(c, 1)
    BY <2>2 DEF AfterCall
  <2> QED BY <1>2, <1>5, <2>1, <2>3
<1>15. Kept(c, c)
  BY <1>0, <1>3, <1>8, <1>10, <1>11, <1>12, <1>13, <1>14 DEF Kept
<1>16. \A i \in 1 .. Len(c) : c[i].op = "ret" => Il(i) \in Skipped(c) \/ i \in Replaceables(c)
  BY <1>0, <1>5, <1>9 DEF Replaceables
<1>17. ASSUME NEW i \in Replaceables(c) PROVE i \in 1 .. Len(c) /\ Ready(c, Il(i)) /\ c[i].op = "ret"
  <2>1. i \in 1 .. Len(c) /\ c[i].op = "ret" /\ ~AfterTail(c, i)
    BY <1>0 DEF Replaceables
  <2>2. Il(i) \notin Skipped(c) /\ Il(i) \in Originals(c)
    BY <1>5, <1>9, <2>1 DEF Originals
  <2>3. \A j \in DOMAIN c : c[j].op # "ret" => Il(j) # Il(i)
    BY <1>0, <1>1, <2>1
  <2> QED BY <2>1, <2>2, <2>3 DEF Ready
<1> QED BY <1>4, <1>15, <1>16, <1>17 DEF AllReady

\* The new return alone, as it is left where no local can be added.
LEMMA NewRetFacts ==
    ASSUME NEW c, Numbered(c), Len(c) > 0, NEW h, h = WithNewRet(c)
    PROVE  /\ Kept(c, h) /\ Len(h) = Len(c) + 1 /\ IdsOf(h) = Originals(c) \cup {NewRet}
           /\ h[Len(c) + 1] = Instruction(NewRet, "ret", {})
           /\ \A k \in 1 .. Len(c) : h[k] = c[k] /\ (AfterTail(h, k) <=> AfterTail(c, k))
<1> DEFINE ins == Instruction(NewRet, "ret", {})
<1>0. c \in Seq(Instrs) /\ Len(c) \in Nat
  BY DEF Numbered
<1>1. ins \in Instrs /\ ins.id = NewRet /\ ins.to = {}
  BY DEF Instruction, Instrs, Ops, NewRet, InstrIds
<1>2. h = Append(c, ins)
  BY DEF WithNewRet
<1>3. Kept(c, c) /\ IdsOf(c) = Originals(c)
  BY OriginalFacts
<1>4. {} \subseteq Originals(c)
  OBVIOUS
<1>5. NewRet \notin Originals(c) /\ Skipped(c) \subseteq Originals(c) /\ TailCalls(c) \subseteq Originals(c)
  BY <1>0, <1>4, NewNames
<1> HIDE DEF ins
<1>6. Kept(c, h)
  BY <1>1, <1>2, <1>3, <1>5, AppendKeeps
<1>7. Len(h) = Len(c) + 1 /\ h[Len(h)] = ins /\ (\A k \in 1 .. Len(c) : h[k] = c[k]) /\ IdsOf(h) = IdsOf(c) \cup {ins.id}
  <2>0. c \in Seq(Instrs) /\ ins \in Instrs
    BY <1>0, <1>1
  <2>1. Len(h) = Len(c) + 1
    BY <2>0, <1>2, AppendedFacts
  <2>2. h[Len(h)] = ins
    BY <2>0, <1>2, AppendedFacts
  <2>3. ASSUME NEW k \in 1 .. Len(c) PROVE h[k] = c[k]
    BY <2>0, <1>2, AppendedFacts
  <2>4. IdsOf(h) = IdsOf(c) \cup {ins.id}
    <3>1. \A j \in 1 .. Len(h) : j \in 1 .. Len(c) \/ j = Len(h)
      BY <1>0, <2>1
    <3>2. (\A j \in 1 .. Len(c) : j \in 1 .. Len(h)) /\ Len(h) \in 1 .. Len(h)
      BY <1>0, <2>1
    <3>3. \A j \in 1 .. Len(h) : h[j].id \in IdsOf(c) \cup {ins.id}
      BY <2>2, <2>3, <3>1 DEF IdsOf
    <3>4. \A j \in 1 .. Len(c) : c[j].id \in IdsOf(h)
      <4> TAKE j \in 1 .. Len(c)
      <4>1. j \in 1 .. Len(h) /\ h[j].id = c[j].id
        BY <2>3, <3>2
      <4> QED BY <4>1 DEF IdsOf
    <3>5. ins.id \in IdsOf(h)
      BY <2>2, <3>2 DEF IdsOf
    <3>6. IdsOf(h) \subseteq IdsOf(c) \cup {ins.id}
      BY <3>3 DEF IdsOf
    <3>7. IdsOf(c) \subseteq IdsOf(h)
      BY <3>4 DEF IdsOf
    <3> QED BY <3>5, <3>6, <3>7
  <2> QED BY <2>1, <2>2, <2>3, <2>4
<1>8. \A k \in 1 .. Len(c) : AfterTail(h, k) <=> AfterTail(c, k)
  BY <1>0, <1>1, <1>2, AppendedAfterTail
<1> QED BY <1>1, <1>3, <1>6, <1>7, <1>8 DEF ins

\* The ids of the replaceable returns of the original method.
RetIds(c) == {c[i].id : i \in Replaceables(c)}

\* Before the first round there is a new return, with the load of the value before it.
LEMMA GoingStarts ==
    ASSUME NEW c, Numbered(c), Len(c) > 0
    PROVE  Going(c, StoresRetVal, RetIds(c), {}, WithNewLdloc(WithNewRet(c)))
<1> DEFINE st == StoresRetVal
           g == WithNewRet(c)
           n == Len(c)
           P == RetIds(c)
<1>0. c \in Seq(Instrs) /\ n \in Nat /\ st \in BOOLEAN /\ n > 0
  BY DEF Numbered, StoresRetVal
<1>1. /\ Kept(c, g) /\ Len(g) = n + 1 /\ IdsOf(g) = Originals(c) \cup {NewRet}
      /\ g[n + 1] = Instruction(NewRet, "ret", {})
      /\ \A k \in 1 .. n : g[k] = c[k]
  BY NewRetFacts
<1>2. {} \subseteq Originals(c)
  OBVIOUS
<1>3. /\ NewRet \in InstrIds /\ NewLdloc \in InstrIds /\ NewRet # NewLdloc
      /\ NewRet \notin Originals(c) /\ NewLdloc \notin Originals(c)
      /\ Skipped(c) \subseteq Originals(c) /\ TailCalls(c) \subseteq Originals(c)
  BY <1>0, <1>2, NewNames
<1>4. \A k \in 1 .. n : c[k].id = Il(k) /\ c[k].id \in Originals(c) /\ c[k].op \in Ops /\ c[k].to \subseteq Originals(c)
  BY DEF Numbered, Originals
<1>5. \A k \in 1 .. n : c[k].op = "ret" => c[k].id \in Skipped(c) \cup P
  <2>1. \A i \in 1 .. n : c[i].op = "ret" => Il(i) \in Skipped(c) \/ i \in Replaceables(c)
    BY OriginalFacts
  <2> QED BY <1>4, <2>1 DEF RetIds
<1>6. \A x \in P : \E k \in 1 .. n : c[k].id = x /\ c[k].op = "ret"
  <2>1. \A i \in Replaceables(c) : i \in 1 .. n /\ c[i].op = "ret"
    <3>1. ASSUME NEW i \in Replaceables(c) PROVE i \in 1 .. Len(c) /\ c[i].op = "ret"
      BY <1>0 DEF Replaceables
    <3> QED BY <3>1
  <2> QED BY <2>1 DEF RetIds
<1>7. g[n + 1].id = NewRet /\ g[n + 1].op = "ret" /\ g[n + 1].to = {}
  BY <1>1 DEF Instruction
<1>8. 1 \in 1 .. n /\ n + 1 \in 1 .. n + 1 /\ (\A k \in 1 .. n + 1 : k \in 1 .. n \/ k = n + 1) /\ (\A k \in 1 .. n : k \in 1 .. n + 1)
  BY <1>0
<1> HIDE DEF g, n, P
<1>9. CASE ~st
  <2>1. WithNewLdloc(g) = g
    BY <1>9 DEF WithNewLdloc, st
  <2>2. IdsOf(g) \subseteq IdNames(c, {}) /\ NewRet \in IdsOf(g)
    BY <1>1 DEF IdNames
  <2>3. NewOnesAre(g)
    BY <1>1, <1>3, <1>4, <1>7, <1>8 DEF NewOnesAre
  <2>4. LoadLeads(st, g)
    BY <1>9 DEF LoadLeads
  <2>5. \A k \in 1 .. Len(g) : g[k].op # "probe" /\ (g[k].op = "ret" => g[k].id \in {NewRet} \cup Skipped(c) \cup P)
    BY <1>1, <1>4, <1>5, <1>7, <1>8 DEF Ops
  <2>6. \A x \in P : \E k \in 1 .. Len(g) : g[k].id = x /\ g[k].op = "ret"
    BY <1>1, <1>6, <1>8
  <2>7. g[1].id \notin {NewRet, NewLdloc}
    BY <1>1, <1>3, <1>4, <1>8
  <2>8. Going(c, st, P, {}, g)
    BY <1>1, <1>9, <2>2, <2>3, <2>4, <2>5, <2>6, <2>7 DEF Going
  <2> QED BY <2>1, <2>8 DEF P, g, st
<1>10. CASE st
  <2> DEFINE ins == Instruction(NewLdloc, "ldloc", {})
             h == InsertBeforeAndRetargetOffsets(g, NewRet, ins)
  <2>1. WithNewLdloc(g) = h
    BY <1>10 DEF WithNewLdloc, st
  <2>2. ins \in Instrs /\ ins.id = NewLdloc /\ ins.op = "ldloc" /\ ins.to = {}
    BY <1>3 DEF Instruction, Instrs, NewOps
  <2> HIDE DEF ins
  <2>3. g \in Seq(Instrs) /\ Distinct(g)
    BY <1>1 DEF Kept
  <2>4. Inserted(g, n + 1, ins, h)
    <3>1. Place(g, n + 1, ins)
      BY <1>1, <1>8, <2>2, <2>3 DEF Place
    <3> QED BY <1>7, <3>1, InsertIs
  <2> HIDE DEF h
  <2>5. Kept(c, h)
    <3>1. ins.id \notin IdsOf(g) /\ ins.id \notin Skipped(c) /\ ins.id \notin TailCalls(c)
      BY <1>1, <1>3, <2>2
    <3>2. g[n + 1].op \notin {"tail", "call", "pop"} /\ g[n + 1].id \notin Skipped(c) /\ n + 1 \in 1 .. Len(g)
      BY <1>1, <1>3, <1>7, <1>8
    <3> QED BY <1>1, <2>2, <2>4, <3>1, <3>2, InsertKeeps
  <2>6. Insertion(g, n + 1, ins, h)
    BY <1>1, <1>8, <2>2, <2>3, <2>4 DEF Insertion
  <2>7. /\ Len(h) = n + 1 + 1 /\ h[n + 1] = ins /\ IdsOf(h) = IdsOf(g) \cup {NewLdloc}
        /\ \A k \in 1 .. n + 1 :
             /\ h[Up(n + 1, k)].id = g[k].id /\ h[Up(n + 1, k)].op = g[k].op
             /\ h[Up(n + 1, k)].to = SubAll(NewRet, NewLdloc, g[k].to)
    <3>3. Shifted(g, n + 1, ins, h)
      BY <2>6, InsertionFacts
    <3>1. /\ Len(h) = Len(g) + 1 /\ h[n + 1] = ins /\ IdsOf(h) = IdsOf(g) \cup {ins.id}
      BY <3>3 DEF Shifted
    <3>2. \A k \in 1 .. Len(g) :
             /\ h[Up(n + 1, k)].id = g[k].id /\ h[Up(n + 1, k)].op = g[k].op
             /\ h[Up(n + 1, k)].to = SubAll(g[n + 1].id, ins.id, g[k].to)
      BY <3>3 DEF Shifted
    <3> QED BY <1>1, <1>7, <2>2, <3>1, <3>2
  <2>8. \A k \in 1 .. n : Up(n + 1, k) = k
    BY <1>0 DEF Up
  <2>9. Up(n + 1, n + 1) = n + 2 /\ n + 1 + 1 = n + 2
    BY <1>0 DEF Up
  <2>10. \A k \in 1 .. n : h[k].id = c[k].id /\ h[k].op = c[k].op /\ h[k].to = SubAll(NewRet, NewLdloc, c[k].to)
    BY <1>1, <1>8, <2>7, <2>8
  <2>11. h[n + 2].id = NewRet /\ h[n + 2].op = "ret" /\ h[n + 2].to = {}
    BY <1>7, <1>8, <2>7, <2>9 DEF SubAll
  <2>12. h[n + 1].id = NewLdloc /\ h[n + 1].op = "ldloc" /\ h[n + 1].to = {}
    BY <2>2, <2>7
  <2>13. \A k \in 1 .. Len(h) : k \in 1 .. n \/ k = n + 1 \/ k = n + 2
    BY <1>0, <2>7
  <2>14. \A k \in 1 .. n : k \in 1 .. Len(h)
    BY <1>0, <2>7
  <2>15. \A k \in 1 .. n : h[k].id # NewRet /\ h[k].id # NewLdloc /\ NewRet \notin h[k].to
    <3> TAKE k \in 1 .. n
    <3>1. h[k].id # NewRet /\ h[k].id # NewLdloc
      BY <1>3, <1>4, <2>10
    <3>2. \A t \in c[k].to : Sub(NewRet, NewLdloc, t) # NewRet
      BY <1>3, <1>4 DEF Sub
    <3>3. NewRet \notin SubAll(NewRet, NewLdloc, c[k].to)
      BY <3>2 DEF SubAll
    <3> QED BY <2>10, <3>1, <3>3
  <2>16. IdsOf(h) \subseteq IdNames(c, {}) /\ NewRet \in IdsOf(h) /\ NewLdloc \in IdsOf(h)
    BY <1>1, <2>7 DEF IdNames
  <2>17. NewOnesAre(h)
    BY <1>3, <2>11, <2>12, <2>13, <2>15 DEF NewOnesAre
  <2>18. LoadLeads(st, h)
    <3> SUFFICES ASSUME NEW k \in 1 .. Len(h)
                 PROVE  /\ NewRet \notin h[k].to
                        /\ k + 1 <= Len(h) /\ h[k + 1].id = NewRet => h[k].id = NewLdloc
                        /\ k + 1 <= Len(h) /\ h[k].id = NewLdloc => h[k + 1].id = NewRet
      BY DEF LoadLeads
    <3>1. CASE k \in 1 .. n
      <4>1. k + 1 \in 1 .. n \/ k + 1 = n + 1
        BY <1>0, <3>1
      <4>2. h[k + 1].id # NewRet
        BY <1>3, <2>12, <2>15, <4>1
      <4> QED BY <2>15, <3>1, <4>2
    <3>2. CASE k = n + 1
      <4>1. k + 1 = n + 2
        BY <2>9, <3>2
      <4> QED BY <2>11, <2>12, <3>2, <4>1
    <3>3. CASE k = n + 2
      <4>1. ~(k + 1 <= Len(h))
        BY <1>0, <2>7, <3>3
      <4> QED BY <2>11, <3>3, <4>1
    <3> QED BY <2>13, <3>1, <3>2, <3>3
  <2>19. \A k \in 1 .. Len(h) : h[k].op # "probe" /\ (h[k].op = "ret" => h[k].id \in {NewRet} \cup Skipped(c) \cup P)
    BY <1>4, <1>5, <2>10, <2>11, <2>12, <2>13 DEF Ops
  <2>20. \A x \in P : \E k \in 1 .. Len(h) : h[k].id = x /\ h[k].op = "ret"
    BY <1>6, <2>10, <2>14
  <2>21. h[1].id \notin {NewRet, NewLdloc}
    BY <1>8, <2>15
  <2>22. Going(c, st, P, {}, h)
    BY <2>5, <2>16, <2>17, <2>18, <2>19, <2>20, <2>21 DEF Going
  <2> QED BY <2>1, <2>22 DEF P, g, st
<1> QED BY <1>9, <1>10

-----------------------------------------------------------------------------
(* The graph does what the original method does. *)

\* Who comes to x in the graph has come to position i of the original method; B are branches without their store.
Stands(c, st, B, x, i) ==
    /\ i \in 1 .. Len(c)
    /\ \/ x = Il(i)
       \/ /\ i \in Replaceables(c)
          /\ x = Probe(Il(i)) \/ (st /\ x = Stloc(Il(i))) \/ (x = Br(Il(i)) /\ (~st \/ x \in B))

\* What position k of the graph does, if it belongs to an original instruction. Replaced returns lead to X.
AsOriginal(c, st, B, g, k, i) ==
    /\ g[k].op = c[i].op
    /\ \A t \in g[k].to : \E j \in 1 .. Len(c) : Il(j) \in c[i].to /\ Stands(c, st, B, t, j)
    /\ FallsThrough(c[i].op) => k + 1 <= Len(g) /\ Stands(c, st, B, g[k + 1].id, i + 1)
AsBranch(c, X, g, k, i) == i \in Replaceables(c) /\ g[k].op = "br" /\ g[k].to \subseteq X
AsStore(c, st, g, k, i) ==
    i \in Replaceables(c) /\ g[k].op = "stloc" /\ st /\ k + 1 <= Len(g) /\ g[k + 1].id = Br(Il(i))
MirrorsAt(c, st, B, X, g, k) ==
    \A i \in 1 .. Len(c) :
        /\ g[k].id = Il(i) => AsOriginal(c, st, B, g, k, i)
        /\ g[k].id = Br(Il(i)) => AsBranch(c, X, g, k, i)
        /\ g[k].id = Stloc(Il(i)) => AsStore(c, st, g, k, i)
Mirrors(c, st, B, X, g) == Stands(c, st, B, g[1].id, 1) /\ \A k \in 1 .. Len(g) : MirrorsAt(c, st, B, X, g, k)

\* IdNames of different kinds differ, and those of different positions.
LEMMA NamesDiffer ==
    ASSUME NEW i, NEW j
    PROVE  /\ (Il(i) = Il(j) => i = j) /\ (Br(Il(i)) = Br(Il(j)) => i = j) /\ (Stloc(Il(i)) = Stloc(Il(j)) => i = j)
           /\ (Probe(Il(i)) = Probe(Il(j)) => i = j)
           /\ Il(i) # Br(Il(j)) /\ Il(i) # Stloc(Il(j)) /\ Il(i) # Probe(Il(j))
           /\ Br(Il(i)) # Stloc(Il(j)) /\ Br(Il(i)) # Probe(Il(j)) /\ Stloc(Il(i)) # Probe(Il(j))
           /\ NewRet \notin {NewLdloc, Il(i), Br(Il(i)), Stloc(Il(i)), Probe(Il(i))}
           /\ NewLdloc \notin {Il(i), Br(Il(i)), Stloc(Il(i)), Probe(Il(i))}
           /\ Probe(NewRet) = Probe(NewLdloc)
           /\ Probe(NewRet) \notin {NewRet, NewLdloc, Il(i), Br(Il(i)), Stloc(Il(i))}
  BY DEF Il, Br, Stloc, Probe, NewRet, NewLdloc

\* Position k of g has become position m of h, where old has become new.
Carried(g, k, old, new, h, m) ==
    /\ h[m].id = g[k].id /\ h[m].op = g[k].op /\ h[m].to = SubAll(old, new, g[k].to)
    /\ k + 1 <= Len(g) => m + 1 <= Len(h) /\ h[m + 1].id = Sub(old, new, g[k + 1].id)
Transfers(c, st, B, B2, old, new) == \A x, i : Stands(c, st, B, x, i) => Stands(c, st, B2, Sub(old, new, x), i)

\* A position that an edit carries over still does what its original does.
LEMMA MirrorsCarried ==
    ASSUME NEW c, NEW st, NEW B, NEW B2, NEW X, NEW X2, NEW g, NEW k, NEW old, NEW new, NEW h, NEW m,
           MirrorsAt(c, st, B, X, g, k), Carried(g, k, old, new, h, m), Transfers(c, st, B, B2, old, new),
           SubAll(old, new, X) \subseteq X2, \A i \in 1 .. Len(c) : g[k].id = Stloc(Il(i)) => old # Br(Il(i))
    PROVE  MirrorsAt(c, st, B2, X2, h, m)
<1> SUFFICES ASSUME NEW i \in 1 .. Len(c)
             PROVE  /\ h[m].id = Il(i) => AsOriginal(c, st, B2, h, m, i)
                    /\ h[m].id = Br(Il(i)) => AsBranch(c, X2, h, m, i)
                    /\ h[m].id = Stloc(Il(i)) => AsStore(c, st, h, m, i)
  BY DEF MirrorsAt
<1>0. /\ h[m].id = g[k].id /\ h[m].op = g[k].op /\ h[m].to = SubAll(old, new, g[k].to)
      /\ k + 1 <= Len(g) => m + 1 <= Len(h) /\ h[m + 1].id = Sub(old, new, g[k + 1].id)
  BY DEF Carried
<1>1. ASSUME h[m].id = Il(i) PROVE AsOriginal(c, st, B2, h, m, i)
  <2>1. AsOriginal(c, st, B, g, k, i)
    BY <1>0, <1>1 DEF MirrorsAt
  <2>2. ASSUME NEW t \in h[m].to PROVE \E j \in 1 .. Len(c) : Il(j) \in c[i].to /\ Stands(c, st, B2, t, j)
    <3>1. PICK s \in g[k].to : t = Sub(old, new, s)
      BY <1>0, <2>2 DEF SubAll
    <3>2. PICK j \in 1 .. Len(c) : Il(j) \in c[i].to /\ Stands(c, st, B, s, j)
      BY <2>1 DEF AsOriginal
    <3>3. Stands(c, st, B2, t, j)
      BY <3>1, <3>2 DEF Transfers
    <3> QED BY <3>2, <3>3
  <2>3. FallsThrough(c[i].op) => m + 1 <= Len(h) /\ Stands(c, st, B2, h[m + 1].id, i + 1)
    BY <1>0, <2>1 DEF AsOriginal, Transfers
  <2> QED BY <1>0, <2>1, <2>2, <2>3 DEF AsOriginal
<1>2. ASSUME h[m].id = Br(Il(i)) PROVE AsBranch(c, X2, h, m, i)
  <2>1. AsBranch(c, X, g, k, i)
    BY <1>0, <1>2 DEF MirrorsAt
  <2>2. SubAll(old, new, g[k].to) \subseteq SubAll(old, new, X)
    BY <2>1 DEF AsBranch, SubAll
  <2> QED BY <1>0, <2>1, <2>2 DEF AsBranch
<1>3. ASSUME h[m].id = Stloc(Il(i)) PROVE AsStore(c, st, h, m, i)
  <2>1. AsStore(c, st, g, k, i) /\ old # Br(Il(i))
    BY <1>0, <1>3 DEF MirrorsAt
  <2> QED BY <1>0, <2>1 DEF AsStore, Sub
<1> QED BY <1>1, <1>2, <1>3

\* Edits carry what they do not touch.
LEMMA InsertCarries ==
    ASSUME NEW g, NEW p, NEW ins, NEW h, Insertion(g, p, ins, h), Distinct(g), NEW k \in 1 .. Len(g)
    PROVE  Carried(g, k, g[p].id, ins.id, h, Up(p, k))
<1>0. Shifted(g, p, ins, h) /\ p \in 1 .. Len(g)
  BY InsertionFacts DEF Insertion
<1>1. Len(g) \in Nat /\ Len(h) = Len(g) + 1 /\ h[p] = ins
  BY <1>0 DEF Shifted
<1>2. \A l \in 1 .. Len(g) : h[Up(p, l)].id = g[l].id /\ h[Up(p, l)].op = g[l].op /\ h[Up(p, l)].to = SubAll(g[p].id, ins.id, g[l].to)
  BY <1>0 DEF Shifted
<1>3. ASSUME k + 1 <= Len(g)
      PROVE  Up(p, k) + 1 <= Len(h) /\ h[Up(p, k) + 1].id = Sub(g[p].id, ins.id, g[k + 1].id)
  <2>1. k + 1 \in 1 .. Len(g)
    BY <1>1, <1>3
  <2>2. Up(p, k) + 1 <= Len(h)
    BY <1>0, <1>1, <1>3 DEF Up
  <2>3. CASE k + 1 = p
    <3>1. Up(p, k) + 1 = p
      BY <1>0, <1>1, <2>3 DEF Up
    <3> QED BY <1>1, <2>2, <2>3, <3>1 DEF Sub
  <2>4. CASE k + 1 # p
    <3>1. Up(p, k) + 1 = Up(p, k + 1)
      BY <1>0, <1>1, <2>4 DEF Up
    <3>2. g[k + 1].id # g[p].id
      BY <1>0, <2>1, <2>4 DEF Distinct
    <3> QED BY <1>2, <2>1, <2>2, <3>1, <3>2 DEF Sub
  <2> QED BY <2>3, <2>4
<1> QED BY <1>2, <1>3 DEF Carried

\* A replacement carries the other positions over.
LEMMA ReplaceCarries ==
    ASSUME NEW g, NEW p, NEW ins, NEW h, Place(g, p, ins), Replaced(g, p, ins, h), NEW k \in 1 .. Len(g), k # p
    PROVE  Carried(g, k, g[p].id, ins.id, h, k)
<1>0. g \in Seq(Instrs) /\ Distinct(g) /\ p \in 1 .. Len(g) /\ ins \in Instrs
  BY DEF Place
<1>1. /\ h \in Seq(Instrs) /\ Len(h) = Len(g) /\ Len(g) \in Nat
      /\ h[p] = ins
      /\ \A l \in 1 .. Len(g) : l # p =>
           /\ h[l].id = g[l].id /\ h[l].op = g[l].op
           /\ h[l].to = SubAll(g[p].id, ins.id, g[l].to)
  BY <1>0, ReplacedFacts
<1>2. ASSUME k + 1 <= Len(g) PROVE h[k + 1].id = Sub(g[p].id, ins.id, g[k + 1].id)
  <2>1. k + 1 \in 1 .. Len(g)
    BY <1>1, <1>2
  <2>2. CASE k + 1 = p
    BY <1>1, <2>2 DEF Sub
  <2>3. CASE k + 1 # p
    <3>1. g[k + 1].id # g[p].id
      BY <1>0, <2>1, <2>3 DEF Distinct
    <3> QED BY <1>1, <2>1, <2>3, <3>1 DEF Sub
  <2> QED BY <2>2, <2>3
<1> QED BY <1>1, <1>2 DEF Carried

\* An instruction of an original one, put before it, keeps the others as they were.
LEMMA MirrorsInserted ==
    ASSUME NEW c, NEW st, NEW B, NEW B2, NEW X, NEW X2, NEW g, NEW p, NEW ins, NEW h,
           Mirrors(c, st, B, X, g), Insertion(g, p, ins, h), Distinct(g), Transfers(c, st, B, B2, g[p].id, ins.id),
           SubAll(g[p].id, ins.id, X) \subseteq X2, MirrorsAt(c, st, B2, X2, h, p),
           \A k \in 1 .. Len(g), i \in 1 .. Len(c) : g[k].id = Stloc(Il(i)) => g[p].id # Br(Il(i))
    PROVE  Mirrors(c, st, B2, X2, h)
<1>1. Shifted(g, p, ins, h)
  BY InsertionFacts
<1>5. Stands(c, st, B2, h[1].id, 1)
  <2>1. Stands(c, st, B, g[1].id, 1)
    BY DEF Mirrors
  <2>2. Stands(c, st, B2, Sub(g[p].id, ins.id, g[1].id), 1)
    BY <2>1 DEF Transfers
  <2>3. h[1].id = Sub(g[p].id, ins.id, g[1].id)
    <3>1. p \in 1 .. Len(g) /\ Len(g) \in Nat /\ h[p] = ins
      BY <1>1 DEF Insertion, Shifted
    <3>2. CASE p = 1
      BY <3>1, <3>2 DEF Sub
    <3>3. CASE p # 1
      <4>1. 1 \in 1 .. Len(g) /\ Up(p, 1) = 1
        BY <3>1, <3>3 DEF Up
      <4>2. h[1].id = g[1].id /\ g[1].id # g[p].id
        BY <1>1, <3>1, <3>3, <4>1 DEF Shifted, Distinct
      <4> QED BY <4>2 DEF Sub
    <3> QED BY <3>2, <3>3
  <2> QED BY <2>2, <2>3
<1> SUFFICES ASSUME NEW j \in 1 .. Len(h), j # p PROVE MirrorsAt(c, st, B2, X2, h, j)
  BY <1>5 DEF Mirrors
<1>2. PICK k \in 1 .. Len(g) : j = Up(p, k)
  BY <1>1 DEF Shifted
<1>3. Carried(g, k, g[p].id, ins.id, h, j)
  BY <1>2, InsertCarries
<1>4. MirrorsAt(c, st, B, X, g, k)
  BY DEF Mirrors
<1> QED BY <1>3, <1>4, MirrorsCarried

\* The original method, and what has further instructions after it.
LEMMA MirrorsItself ==
    ASSUME NEW c, Numbered(c), Len(c) > 0, NEW st, NEW X, NEW h, Len(h) \in Nat, Len(c) <= Len(h), \A k \in 1 .. Len(c) : h[k] = c[k],
           \A k \in 1 .. Len(h) : k \in 1 .. Len(c) \/ h[k].id = NewRet
    PROVE  Mirrors(c, st, {}, X, h)
<1>0. c \in Seq(Instrs) /\ Len(c) \in Nat
  BY DEF Numbered
<1>3. Stands(c, st, {}, h[1].id, 1)
  <2>1. 1 \in 1 .. Len(c)
    BY <1>0
  <2>2. h[1].id = Il(1)
    BY <2>1 DEF Numbered
  <2> QED BY <2>1, <2>2 DEF Stands
<1> SUFFICES ASSUME NEW k \in 1 .. Len(h), NEW i \in 1 .. Len(c)
             PROVE  /\ h[k].id = Il(i) => AsOriginal(c, st, {}, h, k, i)
                    /\ h[k].id = Br(Il(i)) => AsBranch(c, X, h, k, i)
                    /\ h[k].id = Stloc(Il(i)) => AsStore(c, st, h, k, i)
  BY <1>3 DEF Mirrors, MirrorsAt
<1>1. CASE k \in 1 .. Len(c)
  <2>1. h[k] = c[k] /\ h[k].id = Il(k)
    BY <1>1 DEF Numbered
  <2>2. h[k].id # Br(Il(i)) /\ h[k].id # Stloc(Il(i)) /\ (h[k].id = Il(i) => k = i)
    BY <2>1, NamesDiffer
  <2>3. ASSUME NEW t \in c[k].to PROVE \E j \in 1 .. Len(c) : Il(j) \in c[k].to /\ Stands(c, st, {}, t, j)
    <3>1. c[k].to \subseteq Originals(c)
      BY <1>1 DEF Numbered
    <3>2. PICK j \in 1 .. Len(c) : t = Il(j)
      BY <3>1 DEF Originals
    <3> QED BY <3>2 DEF Stands
  <2>4. ASSUME FallsThrough(c[k].op) PROVE k + 1 <= Len(h) /\ Stands(c, st, {}, h[k + 1].id, k + 1)
    <3>1. k + 1 <= Len(c)
      BY <1>1, <2>4 DEF Numbered
    <3>2. k + 1 \in 1 .. Len(c) /\ k + 1 <= Len(h)
      BY <1>0, <1>1, <3>1
    <3>3. h[k + 1].id = Il(k + 1)
      BY <3>2 DEF Numbered
    <3> QED BY <3>2, <3>3 DEF Stands
  <2>5. AsOriginal(c, st, {}, h, k, k)
    BY <2>1, <2>3, <2>4 DEF AsOriginal
  <2> QED BY <2>2, <2>5
<1>2. CASE k \notin 1 .. Len(c)
  <2>1. h[k].id = NewRet
    BY <1>2
  <2> QED BY <2>1, NamesDiffer
<1> QED BY <1>1, <1>2

\* Where a replaced return leads.
Exit(st) == IF st THEN NewLdloc ELSE NewRet

\* Before the first round.
LEMMA MirrorsStart ==
    ASSUME NEW c, Numbered(c), Len(c) > 0
    PROVE  Mirrors(c, StoresRetVal, {}, {Exit(StoresRetVal)}, WithNewLdloc(WithNewRet(c)))
<1> DEFINE st == StoresRetVal
           g == WithNewRet(c)
           n == Len(c)
           X == {Exit(st)}
<1>0. c \in Seq(Instrs) /\ n \in Nat /\ n > 0
  BY DEF Numbered
<1>1. /\ Kept(c, g) /\ Len(g) = n + 1
      /\ g[n + 1] = Instruction(NewRet, "ret", {})
      /\ \A k \in 1 .. n : g[k] = c[k]
  BY NewRetFacts
<1>2. g[n + 1].id = NewRet /\ g \in Seq(Instrs) /\ Distinct(g)
  BY <1>1 DEF Instruction, Kept
<1>3. Mirrors(c, st, {}, X, g)
  <2>1. \A k \in 1 .. Len(g) : k \in 1 .. n \/ g[k].id = NewRet
    <3>1. \A k \in 1 .. n + 1 : k \in 1 .. n \/ k = n + 1
      BY <1>0
    <3> QED BY <1>1, <1>2, <3>1
  <2>2. Len(g) \in Nat /\ n <= Len(g)
    BY <1>0, <1>1
  <2> HIDE DEF g, X, st
  <2> QED BY <1>1, <2>1, <2>2, MirrorsItself
<1>4. CASE ~st
  BY <1>3, <1>4 DEF WithNewLdloc
<1>5. CASE st
  <2> DEFINE ins == Instruction(NewLdloc, "ldloc", {})
             h == InsertBeforeAndRetargetOffsets(g, NewRet, ins)
  <2>1. WithNewLdloc(g) = h
    BY <1>5 DEF WithNewLdloc
  <2>2. ins \in Instrs /\ ins.id = NewLdloc /\ ins.to = {}
    BY DEF Instruction, Instrs, NewOps, NewLdloc, InstrIds
  <2>3. X = {NewLdloc}
    BY <1>5 DEF Exit
  <2> HIDE DEF ins, g, X, st
  <2>4. n + 1 \in 1 .. Len(g)
    BY <1>0, <1>1
  <2>5. Insertion(g, n + 1, ins, h)
    <3>1. Place(g, n + 1, ins)
      BY <1>2, <2>2, <2>4 DEF Place
    <3>2. Inserted(g, n + 1, ins, InsertBeforeAndRetargetOffsets(g, g[n + 1].id, ins))
      BY <3>1, InsertIs
    <3> QED BY <1>2, <2>2, <2>4, <3>2 DEF Insertion
  <2> HIDE DEF h
  <2>6. h[n + 1].id = NewLdloc
    <3>1. Shifted(g, n + 1, ins, h)
      BY <2>5, InsertionFacts
    <3> QED BY <2>2, <3>1 DEF Shifted
  <2>7. Transfers(c, st, {}, {}, g[n + 1].id, ins.id)
    BY <1>2, <2>2, NamesDiffer DEF Transfers, Stands, Sub
  <2>8. SubAll(g[n + 1].id, ins.id, X) \subseteq X
    BY <1>2, <2>2, <2>3 DEF SubAll, Sub
  <2>9. MirrorsAt(c, st, {}, X, h, n + 1)
    BY <2>6, NamesDiffer DEF MirrorsAt
  <2>10. \A k \in 1 .. Len(g), i \in 1 .. Len(c) : g[k].id = Stloc(Il(i)) => g[n + 1].id # Br(Il(i))
    BY <1>2, NamesDiffer
  <2>11. Mirrors(c, st, {}, X, h)
    BY <1>2, <1>3, <2>5, <2>7, <2>8, <2>9, <2>10, MirrorsInserted
  <2> QED BY <2>1, <2>11 DEF X, st, g
<1> QED BY <1>4, <1>5

\* One round.
LEMMA MirrorsRound ==
    ASSUME NEW c, NEW g, g \in Seq(Instrs), Distinct(g), Mirrors(c, StoresRetVal, {}, {Exit(StoresRetVal)}, g),
           NEW i0 \in Replaceables(c), i0 \in 1 .. Len(c), Il(i0) \in IdsOf(g), Br(Il(i0)) \notin IdsOf(g), Stloc(Il(i0)) \notin IdsOf(g),
           Il(i0) \in InstrIds, Br(Il(i0)) \in InstrIds, Stloc(Il(i0)) \in InstrIds
    PROVE  Mirrors(c, StoresRetVal, {}, {Exit(StoresRetVal)}, ReplaceRet(g, Il(i0)))
<1> DEFINE st == StoresRetVal
           x == Il(i0)
           X == {Exit(st)}
           ins == BranchFor(st, x)
           b == Replace(g, x, ins)
           sto == StoreFor(x)
           e == InsertBeforeAndRetargetOffsets(b, Br(x), sto)
           B == {Br(x)}
<1>1. ReplaceRet(g, x) = IF st THEN e ELSE b
  BY DEF ReplaceRet, BranchTarget, BranchFor, StoreFor
<1>2. PICK p \in 1 .. Len(g) : g[p].id = x
  BY DEF IdsOf
<1>3. ins \in Instrs /\ ins.id = Br(x) /\ ins.op = "br" /\ ins.to = X
  <2>1. NewRet \in InstrIds /\ NewLdloc \in InstrIds
    BY DEF NewRet, NewLdloc, InstrIds
  <2> QED BY <2>1 DEF BranchFor, Instruction, Instrs, Ops, Exit
<1>4. sto \in Instrs /\ sto.id = Stloc(x) /\ sto.op = "stloc" /\ sto.to = {}
  BY DEF StoreFor, Instruction, Instrs, NewOps
<1>5. \A i : Il(i) \notin X /\ Br(Il(i)) \notin X
  BY NamesDiffer DEF Exit
<1>15. Mirrors(c, st, {}, X, g)
  OBVIOUS
<1> HIDE DEF ins, sto, X, st
<1>6. Place(g, p, ins) /\ Replaced(g, p, ins, b)
  <2>1. Place(g, p, ins)
    BY <1>3 DEF Place
  <2> QED BY <1>2, <2>1, ReplaceIs
<1> HIDE DEF b
<1>7. b \in Seq(Instrs) /\ Len(b) = Len(g) /\ Len(g) \in Nat /\ b[p] = ins /\ IdsOf(b) = (IdsOf(g) \ {g[p].id}) \cup {ins.id}
  BY <1>3, <1>6, ReplacedFacts
<1>8. Transfers(c, st, {}, B, x, Br(x))
  <2> SUFFICES ASSUME NEW y, NEW i, Stands(c, st, {}, y, i) PROVE Stands(c, st, B, Sub(x, Br(x), y), i)
    BY DEF Transfers
  <2>1. CASE y = x
    <3>1. i = i0
      BY <2>1, NamesDiffer DEF Stands
    <3> QED BY <2>1, <3>1 DEF Stands, Sub
  <2>2. CASE y # x
    BY <2>2 DEF Stands, Sub
  <2> QED BY <2>1, <2>2
<1>9. Mirrors(c, st, B, X, b)
  <2>3. Stands(c, st, B, b[1].id, 1)
    <3>1. Stands(c, st, {}, g[1].id, 1)
      BY <1>15 DEF Mirrors
    <3>2. Stands(c, st, B, Sub(x, Br(x), g[1].id), 1)
      BY <1>8, <3>1 DEF Transfers
    <3>3. b[1].id = Sub(x, Br(x), g[1].id)
      <4>1. CASE p = 1
        BY <1>2, <1>3, <1>7, <4>1 DEF Sub
      <4>2. CASE p # 1
        <5>1. 1 \in 1 .. Len(g)
          BY <1>7
        <5>2. Carried(g, 1, g[p].id, ins.id, b, 1) /\ g[1].id # g[p].id
          BY <1>6, <4>2, <5>1, ReplaceCarries DEF Distinct
        <5> QED BY <1>2, <5>2 DEF Sub, Carried
      <4> QED BY <4>1, <4>2
    <3> QED BY <3>2, <3>3
  <2> SUFFICES ASSUME NEW k \in 1 .. Len(g) PROVE MirrorsAt(c, st, B, X, b, k)
    BY <1>7, <2>3 DEF Mirrors
  <2>1. CASE k = p
    <3>1. b[k].id = Br(x) /\ b[k].op = "br" /\ b[k].to = X
      BY <1>3, <1>7, <2>1
    <3>2. AsBranch(c, X, b, k, i0)
      BY <3>1 DEF AsBranch
    <3>3. \A i : Br(x) # Il(i) /\ Br(x) # Stloc(Il(i)) /\ (Br(x) = Br(Il(i)) => i = i0)
      BY NamesDiffer
    <3> HIDE DEF x
    <3> QED BY <3>1, <3>2, <3>3 DEF MirrorsAt
  <2>2. CASE k # p
    <3>1. Carried(g, k, x, Br(x), b, k)
      <4>1. Carried(g, k, g[p].id, ins.id, b, k)
        BY <1>6, <2>2, ReplaceCarries
      <4> QED BY <1>2, <1>3, <4>1
    <3>2. SubAll(x, Br(x), X) \subseteq X
      BY <1>5 DEF SubAll, Sub
    <3>3. \A i \in 1 .. Len(c) : g[k].id = Stloc(Il(i)) => x # Br(Il(i))
      BY NamesDiffer
    <3>4. MirrorsAt(c, st, {}, X, g, k)
      BY <1>15 DEF Mirrors
    <3> HIDE DEF x, B
    <3> QED BY <1>8, <3>1, <3>2, <3>3, <3>4, MirrorsCarried
  <2> QED BY <2>1, <2>2
<1>10. Distinct(b)
  <2>1. \A k \in 1 .. Len(g) : k # p => b[k].id = g[k].id
    BY <1>6, ReplaceCarries DEF Carried
  <2>2. \A k \in 1 .. Len(g) : g[k].id # Br(x)
    BY DEF IdsOf
  <2>3. b[p].id = Br(x)
    BY <1>3, <1>7
  <2> HIDE DEF x
  <2> QED BY <1>7, <2>1, <2>2, <2>3 DEF Distinct
<1>11. CASE ~st
  <2>1. Mirrors(c, st, {}, X, b)
    BY <1>9, <1>11 DEF Mirrors, MirrorsAt, AsOriginal, Stands
  <2> QED BY <1>1, <1>11, <2>1 DEF X, st
<1>12. CASE st
  <2>1. p \in 1 .. Len(b) /\ b[p].id = Br(x)
    BY <1>3, <1>7
  <2>2. Insertion(b, p, sto, e)
    <3>1. Place(b, p, sto)
      BY <1>4, <1>7, <1>10, <2>1 DEF Place
    <3>2. Inserted(b, p, sto, InsertBeforeAndRetargetOffsets(b, b[p].id, sto))
      BY <3>1, InsertIs
    <3> QED BY <1>4, <1>7, <2>1, <3>2 DEF Insertion
  <2> HIDE DEF e
  <2>3. Shifted(b, p, sto, e)
    BY <2>2, InsertionFacts
  <2>4. e[p] = sto /\ e[p + 1].id = Br(x) /\ p + 1 <= Len(e)
    <3>1. e[p] = sto /\ p + 1 = Up(p, p) /\ e[Up(p, p)].id = b[p].id /\ Len(e) = Len(b) + 1 /\ Len(b) \in Nat
      BY <2>1, <2>3 DEF Shifted
    <3> QED BY <2>1, <3>1
  <2>5. Transfers(c, st, B, {}, Br(x), Stloc(x))
    <3> SUFFICES ASSUME NEW y, NEW i, Stands(c, st, B, y, i) PROVE Stands(c, st, {}, Sub(Br(x), Stloc(x), y), i)
      BY DEF Transfers
    <3>1. CASE y = Br(x)
      <4>1. i = i0
        BY <3>1, NamesDiffer DEF Stands
      <4> QED BY <1>12, <3>1, <4>1 DEF Stands, Sub
    <3>2. CASE y # Br(x)
      BY <3>2 DEF Stands, Sub
    <3> QED BY <3>1, <3>2
  <2>6. SubAll(Br(x), Stloc(x), X) \subseteq X
    BY <1>5 DEF SubAll, Sub
  <2>7. MirrorsAt(c, st, {}, X, e, p)
    <3>1. e[p].id = Stloc(x) /\ e[p].op = "stloc"
      BY <1>4, <2>4
    <3>2. AsStore(c, st, e, p, i0)
      BY <1>12, <2>4, <3>1 DEF AsStore
    <3>3. \A i : Stloc(x) # Il(i) /\ Stloc(x) # Br(Il(i)) /\ (Stloc(x) = Stloc(Il(i)) => i = i0)
      BY NamesDiffer
    <3> HIDE DEF x
    <3> QED BY <3>1, <3>2, <3>3 DEF MirrorsAt
  <2>8. \A k \in 1 .. Len(b), i \in 1 .. Len(c) : b[k].id = Stloc(Il(i)) => b[p].id # Br(Il(i))
    <3> SUFFICES ASSUME NEW k \in 1 .. Len(b), NEW i, b[k].id = Stloc(Il(i)), b[p].id = Br(Il(i)) PROVE FALSE
      OBVIOUS
    <3>1. i = i0
      BY <2>1, NamesDiffer
    <3>2. Stloc(x) \in IdsOf(b)
      BY <3>1 DEF IdsOf
    <3>3. Stloc(x) # Br(x)
      BY NamesDiffer
    <3> QED BY <1>3, <1>7, <3>2, <3>3
  <2>9. Mirrors(c, st, {}, X, e)
    <3>1. Transfers(c, st, B, {}, b[p].id, sto.id) /\ SubAll(b[p].id, sto.id, X) \subseteq X
      BY <1>4, <2>1, <2>5, <2>6
    <3> HIDE DEF x, B
    <3> QED BY <1>9, <1>10, <2>2, <2>7, <2>8, <3>1, MirrorsInserted
  <2> QED BY <1>1, <1>12, <2>9 DEF X, st
<1> QED BY <1>11, <1>12

\* The returns that wait after m rounds, and those that are replaced.
Pending(rets, m) == {rets[l].id : l \in m + 1 .. Len(rets)}
Done(rets, m) == {rets[l].id : l \in 1 .. m}

\* Each round takes one return from those that wait.
LEMMA PendingFacts ==
    ASSUME NEW c, Numbered(c), Len(c) > 0, NEW rets, RetsOf(c, Len(c), rets)
    PROVE  /\ Pending(rets, 0) = RetIds(c) /\ Done(rets, 0) = {} /\ Pending(rets, Len(rets)) = {}
           /\ \A m \in 1 .. Len(rets) : Ready(c, rets[m].id) /\ rets[m].id \in Originals(c)
           /\ \A m \in 0 .. Len(rets) : Done(rets, m) \subseteq Originals(c)
           /\ \A m \in 1 .. Len(rets) :
                /\ rets[m].id \in Pending(rets, m - 1) /\ rets[m].id \notin Done(rets, m - 1)
                /\ Pending(rets, m) = Pending(rets, m - 1) \ {rets[m].id}
                /\ Done(rets, m) = Done(rets, m - 1) \cup {rets[m].id}
<1>9. AllReady(c)
  BY OriginalFacts
<1> DEFINE N == Len(rets)
<1>0. N \in Nat /\ c \in Seq(Instrs) /\ Len(c) \in Nat
  BY DEF RetsOf, Numbered
<1>1. \A m \in 1 .. N : \E i \in Replaceables(c) : rets[m] = c[i]
  BY DEF RetsOf
<1>2. \A i \in Replaceables(c) : \E m \in 1 .. N : rets[m] = c[i]
  <2>1. \A i \in Replaceables(c) : i <= Len(c)
    BY <1>0 DEF Replaceables
  <2> QED BY <2>1 DEF RetsOf
<1>3. \A m, l \in 1 .. N : rets[m].id = rets[l].id => m = l
  BY DEF RetsOf
<1> HIDE DEF N
<1>4. Pending(rets, 0) = {rets[l].id : l \in 1 .. N} /\ Done(rets, 0) = {} /\ Pending(rets, N) = {}
  <2>1. 0 + 1 .. N = 1 .. N /\ N + 1 .. N = {} /\ 1 .. 0 = {}
    BY <1>0
  <2> QED BY <2>1 DEF Pending, Done, N
<1>5. Pending(rets, 0) = RetIds(c)
  <2>1. \A l \in 1 .. N : rets[l].id \in RetIds(c)
    BY <1>1 DEF RetIds
  <2>2. \A i \in Replaceables(c) : c[i].id \in {rets[l].id : l \in 1 .. N}
    BY <1>2
  <2> QED BY <1>4, <2>1, <2>2 DEF RetIds
<1>6. ASSUME NEW m \in 1 .. N PROVE Ready(c, rets[m].id) /\ rets[m].id \in Originals(c)
  <2>1. PICK i \in Replaceables(c) : rets[m] = c[i]
    BY <1>1
  <2>2. i \in 1 .. Len(c) /\ Ready(c, Il(i))
    BY <1>9 DEF AllReady
  <2>3. rets[m].id = Il(i)
    BY <2>1, <2>2 DEF Numbered
  <2> QED BY <2>2, <2>3 DEF Ready
<1>7. \A m \in 0 .. N : Done(rets, m) \subseteq Originals(c)
  <2>1. \A m \in 0 .. N : \A l \in 1 .. m : l \in 1 .. N
    BY <1>0
  <2> QED BY <1>6, <2>1 DEF Done
<1>8. ASSUME NEW m \in 1 .. N
      PROVE  /\ rets[m].id \in Pending(rets, m - 1) /\ rets[m].id \notin Done(rets, m - 1)
             /\ Pending(rets, m) = Pending(rets, m - 1) \ {rets[m].id}
             /\ Done(rets, m) = Done(rets, m - 1) \cup {rets[m].id}
  <2>1. m - 1 + 1 = m
    BY <1>0
  <2>2. Pending(rets, m - 1) = {rets[l].id : l \in m .. N} /\ Pending(rets, m) = {rets[l].id : l \in m + 1 .. N}
        /\ Done(rets, m - 1) = {rets[l].id : l \in 1 .. m - 1} /\ Done(rets, m) = {rets[l].id : l \in 1 .. m}
    BY <2>1 DEF Pending, Done, N
  <2>3. m \in m .. N /\ (\A l \in 1 .. m - 1 : l \in 1 .. N /\ l # m) /\ (\A l \in m + 1 .. N : l \in 1 .. N /\ l # m /\ l \in m .. N)
        /\ (\A l \in m .. N : l = m \/ l \in m + 1 .. N) /\ (\A l \in 1 .. m : l = m \/ l \in 1 .. m - 1) /\ m \in 1 .. m
        /\ (\A l \in 1 .. m - 1 : l \in 1 .. m)
    BY <1>0
  <2>4. rets[m].id \in Pending(rets, m - 1)
    BY <2>2, <2>3
  <2>5. rets[m].id \notin Done(rets, m - 1)
    BY <1>3, <2>2, <2>3
  <2>6. Pending(rets, m) = Pending(rets, m - 1) \ {rets[m].id}
    <3>1. ASSUME NEW y \in Pending(rets, m) PROVE y \in Pending(rets, m - 1) \ {rets[m].id}
      <4>1. PICK l \in m + 1 .. N : y = rets[l].id
        BY <2>2
      <4>2. rets[l].id # rets[m].id
        BY <1>3, <2>3
      <4> QED BY <2>2, <2>3, <4>1, <4>2
    <3>2. ASSUME NEW y \in Pending(rets, m - 1), y # rets[m].id PROVE y \in Pending(rets, m)
      BY <2>2, <2>3, <3>2
    <3> QED BY <3>1, <3>2
  <2>7. Done(rets, m) = Done(rets, m - 1) \cup {rets[m].id}
    <3>1. ASSUME NEW y \in Done(rets, m) PROVE y \in Done(rets, m - 1) \cup {rets[m].id}
      BY <2>2, <2>3
    <3>2. ASSUME NEW y \in Done(rets, m - 1) \cup {rets[m].id} PROVE y \in Done(rets, m)
      BY <2>2, <2>3
    <3> QED BY <3>1, <3>2
  <2> QED BY <2>4, <2>5, <2>6, <2>7
<1> QED BY <1>4, <1>5, <1>6, <1>7, <1>8 DEF N

\* The graph u[m] after each round, if the rounds do what the loop does as long as all is well.
GoingOn(c, rets, u, m) ==
    /\ Going(c, StoresRetVal, Pending(rets, m), Done(rets, m), u[m])
    /\ Mirrors(c, StoresRetVal, {}, {Exit(StoresRetVal)}, u[m])

\* A round of the loop goes on doing what the original method does.
LEMMA RoundMirrors ==
    ASSUME NEW c, Numbered(c), NEW P, NEW D, NEW g, Going(c, StoresRetVal, P, D, g), D \subseteq Originals(c),
           Mirrors(c, StoresRetVal, {}, {Exit(StoresRetVal)}, g), NEW x \in P, x \notin D, x \in RetIds(c)
    PROVE  Mirrors(c, StoresRetVal, {}, {Exit(StoresRetVal)}, ReplaceRet(g, x))
<1>0. c \in Seq(Instrs) /\ DOMAIN c = 1 .. Len(c)
  BY DEF Numbered
<1>1. PICK i \in Replaceables(c) : x = c[i].id
  BY DEF RetIds
<1>2. i \in 1 .. Len(c) /\ x = Il(i)
  <2>1. i \in 1 .. Len(c)
    BY <1>0 DEF Replaceables
  <2> QED BY <1>1, <2>1 DEF Numbered
<1>3. x \in Originals(c)
  BY <1>2 DEF Originals
<1>4. x \in InstrIds /\ Br(x) \in InstrIds /\ Stloc(x) \in InstrIds /\ Br(x) \notin IdNames(c, D) /\ Stloc(x) \notin IdNames(c, D)
  BY <1>0, <1>3, NewNames
<1>5. g \in Seq(Instrs) /\ Distinct(g) /\ IdsOf(g) \subseteq IdNames(c, D)
  BY DEF Going, Kept
<1>6. x \in IdsOf(g) /\ Br(x) \notin IdsOf(g) /\ Stloc(x) \notin IdsOf(g)
  BY <1>4, <1>5 DEF Going, IdsOf
<1> QED BY <1>2, <1>4, <1>5, <1>6, MirrorsRound

\* All rounds keep the loop going.
LEMMA LoopGoing ==
    ASSUME NEW c, Numbered(c), Len(c) > 0, NEW rets, RetsOf(c, Len(c), rets), NEW u,
           u[0] = WithNewLdloc(WithNewRet(c)),
           \A m \in 1 .. Len(rets) : GoingOn(c, rets, u, m - 1) => u[m] = ReplaceRet(u[m - 1], rets[m].id)
    PROVE  \A m \in 0 .. Len(rets) : GoingOn(c, rets, u, m)
<1> DEFINE N == Len(rets)
           T == {m \in 0 .. N : ~GoingOn(c, rets, u, m)}
<1>0. N \in Nat /\ c \in Seq(Instrs)
  BY DEF RetsOf, Numbered
<1>1. GoingOn(c, rets, u, 0)
  <2>1. Going(c, StoresRetVal, RetIds(c), {}, u[0])
    BY GoingStarts
  <2>2. Pending(rets, 0) = RetIds(c) /\ Done(rets, 0) = {}
    BY PendingFacts
  <2>3. Mirrors(c, StoresRetVal, {}, {Exit(StoresRetVal)}, u[0])
    BY MirrorsStart
  <2> QED BY <2>1, <2>2, <2>3 DEF GoingOn
<1>2. ASSUME T # {} PROVE FALSE
  <2>1. PICK m \in T : \A l \in T : m <= l
    <3>1. T \subseteq Nat
      OBVIOUS
    <3> HIDE DEF T
    <3> QED BY <1>2, <3>1, LeastNatural
  <2>2. m \in 1 .. N /\ m - 1 \in 0 .. N /\ m - 1 \notin T
    BY <1>0, <1>1, <2>1
  <2> DEFINE x == rets[m].id
             P == Pending(rets, m - 1)
             D == Done(rets, m - 1)
  <2>3. Going(c, StoresRetVal, P, D, u[m - 1]) /\ u[m] = ReplaceRet(u[m - 1], x)
    BY <2>2 DEF GoingOn
  <2>4. x \in P /\ x \notin D /\ Pending(rets, m) = P \ {x} /\ Done(rets, m) = D \cup {x}
    BY <2>2, PendingFacts
  <2>5. D \subseteq Originals(c) /\ Ready(c, x)
    BY <2>2, PendingFacts
  <2>9. Mirrors(c, StoresRetVal, {}, {Exit(StoresRetVal)}, u[m - 1])
    BY <2>2 DEF GoingOn
  <2>10. x \in RetIds(c)
    <3>1. \A l \in 1 .. N : \E i \in Replaceables(c) : rets[l] = c[i]
      BY DEF RetsOf
    <3>2. PICK i \in Replaceables(c) : rets[m] = c[i]
      BY <2>2, <3>1
    <3> QED BY <3>2 DEF RetIds
  <2> HIDE DEF x, P, D
  <2>6. Going(c, StoresRetVal, P \ {x}, D \cup {x}, u[m])
    BY <1>0, <2>3, <2>4, <2>5, GoingRound
  <2>8. Mirrors(c, StoresRetVal, {}, {Exit(StoresRetVal)}, u[m])
    <3> DEFINE g == u[m - 1]
    <3>1. Going(c, StoresRetVal, P, D, g) /\ Mirrors(c, StoresRetVal, {}, {Exit(StoresRetVal)}, g) /\ u[m] = ReplaceRet(g, x)
      BY <2>3, <2>9
    <3> HIDE DEF g
    <3>2. Mirrors(c, StoresRetVal, {}, {Exit(StoresRetVal)}, ReplaceRet(g, x))
      BY <2>4, <2>5, <2>10, <3>1, RoundMirrors
    <3> QED BY <3>1, <3>2
  <2>7. GoingOn(c, rets, u, m)
    BY <2>4, <2>6, <2>8 DEF GoingOn
  <2> QED BY <2>1, <2>7
<1> QED BY <1>2

\* The graph with the single return.
LEMMA SingleIsMade ==
    ASSUME NEW c, Numbered(c), Len(c) > 0, NEW rets, RetsOf(c, Len(c), rets)
    PROVE  /\ Going(c, StoresRetVal, {}, Originals(c), WithSingleRet(c, rets))
           /\ Mirrors(c, StoresRetVal, {}, {Exit(StoresRetVal)}, WithSingleRet(c, rets))
<1> DEFINE N == Len(rets)
           S == Seq(Instrs)
           start == WithNewLdloc(WithNewRet(c))
           Good(m, g) == ReplaceRet(g, rets[m].id)
           step == [m \in 1 .. N |-> [g \in S |-> IF Good(m, g) \in S THEN Good(m, g) ELSE g]]
           F(u) == [m \in 0 .. N |-> IF m = 0 THEN start ELSE Good(m, u[m - 1])]
           after == CHOOSE u : u = F(u)
<1>0. N \in Nat
  BY DEF RetsOf
<1>1. WithSingleRet(c, rets) = after[N]
  BY DEF WithSingleRet
<1>2. start \in S
  BY GoingStarts DEF Going, Kept
<1> HIDE DEF N, S, start
<1>3. step \in [1 .. N -> [S -> S]]
  <2> HIDE DEF Good
  <2> QED OBVIOUS
<1>4. PICK f \in [0 .. N -> S] : f[0] = start /\ \A m \in 1 .. N : f[m] = step[m][f[m - 1]]
  <2> HIDE DEF step
  <2>1. PICK f : Rounds(f, N, S, start, step)
    BY <1>0, <1>2, <1>3, RecursionExists
  <2> QED BY <2>1 DEF Rounds
<1>5. \A m \in 1 .. N : f[m - 1] \in S /\ f[m] = IF Good(m, f[m - 1]) \in S THEN Good(m, f[m - 1]) ELSE f[m - 1]
  <2> HIDE DEF Good
  <2> SUFFICES ASSUME NEW m \in 1 .. N
               PROVE  f[m - 1] \in S /\ f[m] = IF Good(m, f[m - 1]) \in S THEN Good(m, f[m - 1]) ELSE f[m - 1]
    OBVIOUS
  <2>1. m - 1 \in 0 .. N
    BY <1>0
  <2>2. f[m - 1] \in S
    BY <2>1
  <2>3. step[m] = [g \in S |-> IF Good(m, g) \in S THEN Good(m, g) ELSE g]
    OBVIOUS
  <2> HIDE DEF step
  <2> QED BY <1>4, <2>2, <2>3
<1> HIDE DEF step
<1>6. ASSUME NEW m \in 1 .. N, GoingOn(c, rets, f, m - 1) PROVE Good(m, f[m - 1]) \in S /\ f[m] = Good(m, f[m - 1])
  <2> DEFINE x == rets[m].id
             P == Pending(rets, m - 1)
             D == Done(rets, m - 1)
  <2>1. m \in 1 .. Len(rets)
    BY DEF N
  <2>2. x \in P /\ x \notin D
    BY <2>1, PendingFacts
  <2>3. Ready(c, x)
    BY <2>1, PendingFacts
  <2>4. D \subseteq Originals(c)
    <3>1. m - 1 \in 0 .. Len(rets)
      BY <1>0, <2>1 DEF N
    <3> QED BY <3>1, PendingFacts
  <2>5. Going(c, StoresRetVal, P, D, f[m - 1]) /\ c \in Seq(Instrs)
    BY <1>6 DEF GoingOn, Numbered
  <2> HIDE DEF x, P, D
  <2>6. Going(c, StoresRetVal, P \ {x}, D \cup {x}, ReplaceRet(f[m - 1], x))
    BY <2>2, <2>3, <2>4, <2>5, GoingRound
  <2>7. ReplaceRet(f[m - 1], x) \in S
    BY <2>6 DEF Going, Kept, S
  <2>8. Good(m, f[m - 1]) \in S
    BY <2>7 DEF x
  <2> HIDE DEF Good
  <2> QED BY <1>5, <2>8
<1>7. \A m \in 0 .. N : GoingOn(c, rets, f, m)
  <2>1. \A m \in 1 .. Len(rets) : GoingOn(c, rets, f, m - 1) => f[m] = ReplaceRet(f[m - 1], rets[m].id)
    BY <1>6 DEF N
  <2>2. f[0] = WithNewLdloc(WithNewRet(c))
    BY <1>4 DEF start
  <2> QED BY <2>1, <2>2, LoopGoing DEF N
<1>8. \A m \in 1 .. N : f[m] = Good(m, f[m - 1])
  <2> SUFFICES ASSUME NEW m \in 1 .. N PROVE f[m] = Good(m, f[m - 1])
    OBVIOUS
  <2>1. m - 1 \in 0 .. N
    BY <1>0
  <2> HIDE DEF Good
  <2> QED BY <1>6, <1>7, <2>1
<1> HIDE DEF Good
<1>9. f = F(f)
  <2>1. \A m \in 0 .. N : F(f)[m] = f[m]
    <3> SUFFICES ASSUME NEW m \in 0 .. N PROVE F(f)[m] = f[m]
      OBVIOUS
    <3>1. CASE m = 0
      BY <1>4, <3>1
    <3>2. CASE m # 0
      <4>1. m \in 1 .. N
        BY <1>0, <3>2
      <4> QED BY <1>8, <3>2, <4>1
    <3> QED BY <3>1, <3>2
  <2>2. F(f) = [m \in 0 .. N |-> F(f)[m]] /\ f = [m \in 0 .. N |-> f[m]]
    OBVIOUS
  <2> HIDE DEF F
  <2> QED BY <2>1, <2>2
<1>10. after = F(after)
  BY <1>9
<1>11. after[0] = start /\ \A m \in 1 .. N : after[m] = Good(m, after[m - 1])
  <2> DEFINE G == F(after)
  <2>1. G[0] = start /\ \A m \in 1 .. N : G[m] = Good(m, after[m - 1])
    BY <1>0
  <2>2. after = G
    BY <1>10
  <2> HIDE DEF G, after
  <2> QED BY <2>1, <2>2
<1> HIDE DEF after
<1>12. \A m \in 0 .. N : GoingOn(c, rets, after, m)
  <2>1. \A m \in 1 .. Len(rets) : after[m] = ReplaceRet(after[m - 1], rets[m].id)
    BY <1>11 DEF Good, N
  <2>2. after[0] = WithNewLdloc(WithNewRet(c))
    BY <1>11 DEF start
  <2> QED BY <2>1, <2>2, LoopGoing DEF N
<1>13. /\ Going(c, StoresRetVal, Pending(rets, N), Done(rets, N), after[N])
       /\ Mirrors(c, StoresRetVal, {}, {Exit(StoresRetVal)}, after[N])
  <2>1. N \in 0 .. N
    BY <1>0
  <2> QED BY <1>12, <2>1 DEF GoingOn
<1>14. Pending(rets, N) = {} /\ Done(rets, N) \subseteq Originals(c)
  <2>1. Len(rets) \in 0 .. Len(rets)
    BY <1>0 DEF N
  <2> QED BY <2>1, PendingFacts DEF N
<1>15. IdNames(c, Done(rets, N)) \subseteq IdNames(c, Originals(c))
  BY <1>14 DEF IdNames
<1>16. Going(c, StoresRetVal, {}, Originals(c), after[N])
  BY <1>13, <1>14, <1>15 DEF Going
<1> QED BY <1>1, <1>13, <1>16

-----------------------------------------------------------------------------
(* The probe. *)

\* The instructions A that come after the probe on the way out: each is a return, or leads to the next.
WayOut(c, A, g) ==
    /\ A \cap Skipped(c) = {}
    /\ \A x \in A : x \in {NewRet, NewLdloc} \/ Ready(c, x)
    /\ \A k \in 1 .. Len(g) : g[k].op = "ret" => g[k].id \in A \cup Skipped(c)
    /\ \A k, l \in 1 .. Len(g) : g[k].op = "ret" /\ g[l].op = "ret" /\ g[k].id \notin Skipped(c) /\ g[l].id \notin Skipped(c) => k = l
    /\ \A k \in 1 .. Len(g) : g[k].id \in A => g[k].op \in {"ret", "ldloc"}

\* Without a probe, only position p leads to A; with it, only the probe does.
Entered(c, A, g, p) ==
    /\ WayOut(c, A, g)
    /\ p \in 1 .. Len(g) /\ g[p].id \in A
    /\ \A k \in 1 .. Len(g) :
         /\ g[k].op # "probe"
         /\ g[k].id \in A /\ g[k].op = "ldloc" /\ k + 1 <= Len(g) => g[k + 1].id \in A /\ k + 1 # p
         /\ g[k].id \notin A \cup Skipped(c) =>
              /\ \A t \in g[k].to : t \in A => t = g[p].id
              /\ k + 1 <= Len(g) /\ g[k + 1].id \in A => k + 1 = p
    /\ g[1].id \in A => p = 1
Watched(c, A, g) ==
    /\ Kept(c, g) /\ WayOut(c, A, g)
    /\ \A k \in 1 .. Len(g) :
         /\ g[k].op = "probe" => g[k].id \notin A /\ k + 1 <= Len(g) /\ g[k + 1].id \in A
         /\ g[k].id \in A /\ g[k].op = "ldloc" /\ k + 1 <= Len(g) => g[k + 1].id \in A
         /\ g[k].op # "probe" /\ g[k].id \notin A \cup Skipped(c) =>
              /\ g[k].to \cap A = {}
              /\ k + 1 <= Len(g) => g[k + 1].id \notin A
    /\ g[1].id \notin A

ProbeFor(x) == Instruction(Probe(x), "probe", {})

\* A probe at the only entrance of the way out watches it.
LEMMA ProbeWatches ==
    ASSUME NEW c \in Seq(Instrs), NEW A, NEW g, NEW p, Kept(c, g), Entered(c, A, g, p), IdsOf(g) \subseteq IdNames(c, Originals(c)),
           A \subseteq IdNames(c, Originals(c))
    PROVE  Watched(c, A, InsertBeforeAndRetargetOffsets(g, g[p].id, ProbeFor(g[p].id)))
<1> DEFINE x == g[p].id
           ins == ProbeFor(x)
           h == InsertBeforeAndRetargetOffsets(g, x, ins)
<1>0. g \in Seq(Instrs) /\ Distinct(g) /\ Len(g) > 0 /\ p \in 1 .. Len(g) /\ x \in A /\ WayOut(c, A, g)
  BY DEF Kept, Entered
<1>1. x \in InstrIds
  <2>1. g[p] \in Instrs
    BY <1>0
  <2> QED BY <2>1 DEF Instrs
<1>2. Probe(x) \in InstrIds /\ Probe(x) \notin IdNames(c, Originals(c)) /\ Skipped(c) \subseteq Originals(c) /\ TailCalls(c) \subseteq Originals(c)
  <2>1. Originals(c) \subseteq Originals(c)
    OBVIOUS
  <2> QED BY <1>1, <2>1, NewNames
<1>3. ins \in Instrs /\ ins.id = Probe(x) /\ ins.op = "probe" /\ ins.to = {}
  BY <1>2 DEF ProbeFor, Instruction, Instrs, NewOps
<1>4. Probe(x) \notin IdsOf(g) /\ Probe(x) \notin A /\ Probe(x) \notin Skipped(c) /\ Probe(x) \notin TailCalls(c)
  BY <1>2 DEF IdNames
<1> HIDE DEF ins
<1>5. Inserted(g, p, ins, h)
  <2>1. Place(g, p, ins)
    BY <1>0, <1>3 DEF Place
  <2> QED BY <2>1, InsertIs
<1> HIDE DEF h
<1>6. g[p].op \in {"ret", "ldloc"} /\ x \notin Skipped(c)
  BY <1>0 DEF WayOut
<1>7. Kept(c, h)
  <2>1. ins.id \notin IdsOf(g) /\ ins.id \notin Skipped(c) /\ ins.id \notin TailCalls(c)
    BY <1>3, <1>4
  <2>2. g[p].op \notin {"tail", "call", "pop"} /\ g[p].id \notin Skipped(c)
    BY <1>6
  <2> QED BY <1>0, <1>3, <1>5, <2>1, <2>2, InsertKeeps
<1>8. Insertion(g, p, ins, h)
  BY <1>0, <1>3, <1>5 DEF Insertion
<1>18. Shifted(g, p, ins, h)
  BY <1>8, InsertionFacts
<1>9. Len(h) = Len(g) + 1 /\ Len(g) \in Nat /\ h[p] = ins /\ p \in 1 .. Len(h)
  BY <1>18 DEF Shifted
<1>10. \A j \in 1 .. Len(h) : j = p \/ \E k \in 1 .. Len(g) : j = Up(p, k)
  BY <1>18 DEF Shifted
<1>11. /\ \A k \in 1 .. Len(g) :
            /\ Up(p, k) \in 1 .. Len(h)
            /\ h[Up(p, k)].id = g[k].id /\ h[Up(p, k)].op = g[k].op
            /\ h[Up(p, k)].to = SubAll(g[p].id, ins.id, g[k].to)
            /\ Up(p, k) + 1 <= Len(h) => Up(p, k) + 1 = p \/ (k + 1 <= Len(g) /\ Up(p, k) + 1 = Up(p, k + 1))
            /\ Up(p, k) # p
       /\ p + 1 = Up(p, p)
  BY <1>18 DEF Shifted
<1>12. h[p].id = Probe(x) /\ h[p].op = "probe"
  BY <1>3, <1>9
<1>13. h[p + 1].id = x /\ p + 1 <= Len(h)
  <2>1. Up(p, p) \in 1 .. Len(h) /\ h[Up(p, p)].id = x
    BY <1>0, <1>11
  <2> QED BY <1>9, <1>11, <2>1
<1>14. WayOut(c, A, h)
  <2>1. \A j \in 1 .. Len(h) : h[j].op = "ret" => h[j].id \in A \cup Skipped(c)
    <3> SUFFICES ASSUME NEW j \in 1 .. Len(h), h[j].op = "ret" PROVE h[j].id \in A \cup Skipped(c)
      OBVIOUS
    <3>1. PICK k \in 1 .. Len(g) : j = Up(p, k)
      BY <1>10, <1>12
    <3> QED BY <1>0, <1>11, <3>1 DEF WayOut
  <2>2. ASSUME NEW j \in 1 .. Len(h), NEW l \in 1 .. Len(h), h[j].op = "ret", h[l].op = "ret",
               h[j].id \notin Skipped(c), h[l].id \notin Skipped(c)
        PROVE  j = l
    <3>1. PICK k \in 1 .. Len(g) : j = Up(p, k)
      BY <1>10, <1>12, <2>2
    <3>2. PICK m \in 1 .. Len(g) : l = Up(p, m)
      BY <1>10, <1>12, <2>2
    <3>3. g[k].op = "ret" /\ g[m].op = "ret" /\ g[k].id \notin Skipped(c) /\ g[m].id \notin Skipped(c)
      BY <1>11, <2>2, <3>1, <3>2
    <3>4. k = m
      BY <1>0, <3>3 DEF WayOut
    <3> QED BY <3>1, <3>2, <3>4
  <2>3. \A j \in 1 .. Len(h) : h[j].id \in A => h[j].op \in {"ret", "ldloc"}
    <3> SUFFICES ASSUME NEW j \in 1 .. Len(h), h[j].id \in A PROVE h[j].op \in {"ret", "ldloc"}
      OBVIOUS
    <3>1. PICK k \in 1 .. Len(g) : j = Up(p, k)
      BY <1>4, <1>10, <1>12
    <3> QED BY <1>0, <1>11, <3>1 DEF WayOut
  <2>4. A \cap Skipped(c) = {} /\ \A y \in A : y \in {NewRet, NewLdloc} \/ Ready(c, y)
    BY <1>0 DEF WayOut
  <2> QED BY <2>1, <2>2, <2>3, <2>4 DEF WayOut
<1>15. ASSUME NEW j \in 1 .. Len(h)
       PROVE  /\ h[j].op = "probe" => h[j].id \notin A /\ j + 1 <= Len(h) /\ h[j + 1].id \in A
              /\ h[j].id \in A /\ h[j].op = "ldloc" /\ j + 1 <= Len(h) => h[j + 1].id \in A
              /\ h[j].op # "probe" /\ h[j].id \notin A \cup Skipped(c) =>
                   /\ h[j].to \cap A = {}
                   /\ j + 1 <= Len(h) => h[j + 1].id \notin A
  <2>1. CASE j = p
    BY <1>0, <1>4, <1>12, <1>13, <2>1
  <2>2. CASE j # p
    <3>1. PICK k \in 1 .. Len(g) : j = Up(p, k)
      BY <1>10, <2>2
    <3>2. h[j].id = g[k].id /\ h[j].op = g[k].op /\ h[j].to = SubAll(x, Probe(x), g[k].to)
      BY <1>3, <1>11, <3>1
    <3>3. /\ g[k].op # "probe"
          /\ g[k].id \in A /\ g[k].op = "ldloc" /\ k + 1 <= Len(g) => g[k + 1].id \in A /\ k + 1 # p
          /\ g[k].id \notin A \cup Skipped(c) =>
               /\ \A t \in g[k].to : t \in A => t = x
               /\ k + 1 <= Len(g) /\ g[k + 1].id \in A => k + 1 = p
      BY DEF Entered
    <3>4. j + 1 = p => k + 1 = p /\ k + 1 <= Len(g)
      BY <1>9, <3>1, <1>0 DEF Up
    <3>5. j + 1 <= Len(h) /\ j + 1 # p => k + 1 <= Len(g) /\ j + 1 = Up(p, k + 1) /\ h[j + 1].id = g[k + 1].id /\ k + 1 # p
      <4> SUFFICES ASSUME j + 1 <= Len(h), j + 1 # p
                   PROVE  k + 1 <= Len(g) /\ j + 1 = Up(p, k + 1) /\ h[j + 1].id = g[k + 1].id /\ k + 1 # p
        OBVIOUS
      <4>1. k + 1 <= Len(g) /\ j + 1 = Up(p, k + 1)
        BY <1>11, <3>1
      <4>2. k + 1 \in 1 .. Len(g)
        BY <1>9, <4>1
      <4>3. k + 1 # p
        BY <1>9, <1>0, <3>1 DEF Up
      <4> QED BY <1>11, <4>1, <4>2, <4>3
    <3>6. h[j].id \in A /\ h[j].op = "ldloc" /\ j + 1 <= Len(h) => h[j + 1].id \in A
      BY <3>2, <3>3, <3>4, <3>5
    <3>7. ASSUME h[j].id \notin A \cup Skipped(c) PROVE h[j].to \cap A = {}
      <4>1. \A t \in g[k].to : Sub(x, Probe(x), t) \notin A
        BY <1>4, <3>2, <3>3, <3>7 DEF Sub
      <4> QED BY <3>2, <4>1 DEF SubAll
    <3>8. ASSUME h[j].id \notin A \cup Skipped(c), j + 1 <= Len(h) PROVE h[j + 1].id \notin A
      <4>1. CASE j + 1 = p
        BY <1>4, <1>12, <4>1
      <4>2. CASE j + 1 # p
        BY <3>2, <3>3, <3>5, <3>8, <4>2
      <4> QED BY <4>1, <4>2
    <3> QED BY <3>2, <3>3, <3>6, <3>7, <3>8
  <2> QED BY <2>1, <2>2
<1>16. h[1].id \notin A
  <2>1. CASE p = 1
    BY <1>4, <1>12, <2>1
  <2>2. CASE p # 1
    <3>1. 1 \in 1 .. Len(g) /\ Up(p, 1) = 1
      BY <1>0, <1>9, <2>2 DEF Up
    <3>2. h[1].id = g[1].id
      BY <1>11, <3>1
    <3> QED BY <2>2, <3>2 DEF Entered
  <2> QED BY <2>1, <2>2
<1>17. Watched(c, A, h)
  BY <1>7, <1>14, <1>15, <1>16 DEF Watched
<1> QED BY <1>17 DEF h, ins

\* The only return of the original method.
LEMMA PlainEntered ==
    ASSUME NEW c, Numbered(c), Len(c) > 0, NEW p \in Replaceables(c), \A i \in Replaceables(c) : i = p
    PROVE  Entered(c, {Il(p)}, c, p) /\ c[p].id = Il(p)
<1>0. c \in Seq(Instrs) /\ Len(c) \in Nat /\ \A k \in 1 .. Len(c) : c[k].id = Il(k) /\ c[k].op \in Ops
  BY DEF Numbered
<1>1. AllReady(c) /\ \A i \in 1 .. Len(c) : c[i].op = "ret" => Il(i) \in Skipped(c) \/ i \in Replaceables(c)
  BY OriginalFacts
<1>2. p \in 1 .. Len(c) /\ Ready(c, Il(p)) /\ c[p].op = "ret" /\ Il(p) \notin Skipped(c)
  BY <1>1 DEF AllReady, Ready
<1>3. \A k \in 1 .. Len(c) : Il(k) = Il(p) => k = p
  BY DEF Il
<1>4. WayOut(c, {Il(p)}, c)
  BY <1>0, <1>1, <1>2, <1>3 DEF WayOut
<1>5. ASSUME NEW k \in 1 .. Len(c)
      PROVE  /\ c[k].op # "probe"
             /\ c[k].id \in {Il(p)} => c[k].op # "ldloc"
             /\ k + 1 <= Len(c) /\ c[k + 1].id \in {Il(p)} => k + 1 = p
  <2>1. c[k].op # "probe" /\ c[k].op # "ldloc"
    BY <1>0 DEF Ops
  <2>2. k + 1 <= Len(c) => k + 1 \in 1 .. Len(c)
    BY <1>0
  <2> QED BY <1>0, <1>3, <2>1, <2>2
<1>6. c[1].id \in {Il(p)} => p = 1
  BY <1>0, <1>3
<1> QED BY <1>0, <1>2, <1>4, <1>5, <1>6 DEF Entered

\* The single return, and the load before it.
LEMMA SingleEntered ==
    ASSUME NEW c \in Seq(Instrs), NEW st \in BOOLEAN, NEW g, Going(c, st, {}, Originals(c), g), NEW p \in 1 .. Len(g)
    PROVE  /\ g[p].id = NewRet => Entered(c, {NewRet}, g, p)
           /\ st /\ g[p].id = NewLdloc => Entered(c, {NewRet, NewLdloc}, g, p)
<1>0. g \in Seq(Instrs) /\ Distinct(g) /\ Len(g) \in Nat /\ Len(g) > 0 /\ g[1].id \notin {NewRet, NewLdloc}
  BY DEF Going, Kept
<1>1. \A k \in 1 .. Len(g) : g[k].op # "probe" /\ (g[k].op = "ret" => g[k].id \in {NewRet} \cup Skipped(c))
  BY DEF Going
<1>2. \A k \in 1 .. Len(g) : /\ g[k].id = NewRet => g[k].op = "ret" /\ g[k].to = {}
                             /\ g[k].id = NewLdloc => g[k].op = "ldloc" /\ g[k].to = {}
  BY DEF Going, NewOnesAre
<1>3. \A k, l \in 1 .. Len(g) : g[k].id = g[l].id => k = l
  BY <1>0 DEF Distinct
<1>4. NewRet \notin Skipped(c) /\ NewLdloc \notin Skipped(c) /\ NewRet # NewLdloc
  <2>1. {} \subseteq Originals(c)
    OBVIOUS
  <2> QED BY <2>1, NewNames
<1>5. \A k \in 1 .. Len(g) : k + 1 <= Len(g) => k + 1 \in 1 .. Len(g)
  BY <1>0
<1>6. ASSUME g[p].id = NewRet PROVE Entered(c, {NewRet}, g, p)
  <2>1. WayOut(c, {NewRet}, g)
    BY <1>1, <1>2, <1>3, <1>4, <1>6 DEF WayOut
  <2>2. ASSUME NEW k \in 1 .. Len(g)
        PROVE  /\ g[k].op # "probe"
               /\ ~(g[k].id \in {NewRet} /\ g[k].op = "ldloc")
               /\ k + 1 <= Len(g) /\ g[k + 1].id \in {NewRet} => k + 1 = p
    BY <1>1, <1>2, <1>3, <1>5, <1>6
  <2> QED BY <1>0, <1>6, <2>1, <2>2 DEF Entered
<1>7. ASSUME st, g[p].id = NewLdloc PROVE Entered(c, {NewRet, NewLdloc}, g, p)
  <2> DEFINE A == {NewRet, NewLdloc}
  <2>1. WayOut(c, A, g)
    BY <1>1, <1>2, <1>3, <1>4 DEF WayOut
  <2>2. \A k \in 1 .. Len(g) :
            /\ NewRet \notin g[k].to
            /\ k + 1 <= Len(g) /\ g[k + 1].id = NewRet => g[k].id = NewLdloc
            /\ k + 1 <= Len(g) /\ g[k].id = NewLdloc => g[k + 1].id = NewRet
    BY <1>7 DEF Going, LoadLeads
  <2>3. ASSUME NEW k \in 1 .. Len(g)
        PROVE  /\ g[k].op # "probe"
               /\ g[k].id \in A /\ g[k].op = "ldloc" /\ k + 1 <= Len(g) => g[k + 1].id \in A /\ k + 1 # p
               /\ g[k].id \notin A =>
                    /\ \A t \in g[k].to : t \in A => t = NewLdloc
                    /\ k + 1 <= Len(g) /\ g[k + 1].id \in A => k + 1 = p
    <3>1. g[k].op # "probe"
      BY <1>1
    <3>2. ASSUME g[k].id \in A, g[k].op = "ldloc", k + 1 <= Len(g) PROVE g[k + 1].id \in A /\ k + 1 # p
      <4>1. g[k].id = NewLdloc
        BY <1>2, <3>2
      <4>2. g[k + 1].id = NewRet
        BY <2>2, <3>2, <4>1
      <4> QED BY <1>4, <1>7, <4>2
    <3>3. ASSUME g[k].id \notin A, k + 1 <= Len(g), g[k + 1].id \in A PROVE k + 1 = p
      <4>1. g[k + 1].id = NewLdloc
        BY <2>2, <3>3
      <4> QED BY <1>3, <1>5, <1>7, <3>3, <4>1
    <3>4. \A t \in g[k].to : t \in A => t = NewLdloc
      BY <2>2
    <3> QED BY <3>1, <3>2, <3>3, <3>4
  <2>4. g[1].id \notin A
    BY <1>0
  <2> QED BY <1>7, <2>1, <2>3, <2>4 DEF Entered
<1> QED BY <1>6, <1>7

-----------------------------------------------------------------------------
(* The method that runs. *)

\* What the compiler has made so far.
CodeOK ==
    /\ shape \in Shapes
    /\ code \in Seq(Instrs) /\ Len(code) <= shape.len
    /\ \A i \in 1 .. Len(code) :
         /\ code[i].id = Il(i) /\ code[i].op \in Ops
         /\ code[i].to \subseteq {Il(t) : t \in 1 .. shape.len}
         /\ code[i].op = "ret" => RegionAt(i) = "body"
         /\ i > 1 /\ Start(i) => ~FallsThrough(code[i - 1].op)
         /\ i = shape.len => ~FallsThrough(code[i].op)
Complete == Len(code) = shape.len

\* What the assumption says of the shape.
LEMMA ShapeFacts ==
    ASSUME shape \in Shapes
    PROVE  /\ shape.len \in Nat /\ shape.len > 0 /\ shape.tryEnd \in Nat /\ shape.handlerEnd \in Nat
           /\ shape.ops \subseteq Ops /\ shape.targets \subseteq 1 .. shape.len
           /\ shape.tryEnd > 0 => shape.tryEnd < shape.handlerEnd /\ shape.handlerEnd <= shape.len
  BY ShapesAssumption DEF Shape

\* The complete method is one of those the lemmas are about.
LEMMA CompleteIsNumbered ==
    ASSUME CodeOK, Complete
    PROVE  Numbered(code) /\ Len(code) > 0
<1>1. shape \in Shapes /\ code \in Seq(Instrs) /\ Len(code) = shape.len
  BY DEF CodeOK, Complete
<1>2. shape.len \in Nat /\ shape.len > 0
  BY <1>1, ShapeFacts
<1>3. \A i \in 1 .. Len(code) : code[i].id = Il(i) /\ code[i].op \in Ops /\ code[i].to \subseteq Originals(code)
  BY <1>1 DEF CodeOK, Originals
<1>4. ASSUME NEW i \in 1 .. Len(code), FallsThrough(code[i].op) PROVE i + 1 <= Len(code)
  <2>1. i # Len(code)
    BY <1>1, <1>4 DEF CodeOK
  <2> QED BY <1>1, <1>2, <2>1
<1> QED BY <1>1, <1>2, <1>3, <1>4 DEF Numbered

\* The handler starts with an instruction that nothing falls through to, and that is no return.
HandlerAt(k) ==
    /\ k \in 1 .. Len(code) /\ k - 1 \in 1 .. Len(code) /\ HandlerFirst = Il(k)
    /\ code[k].op # "ret" /\ ~FallsThrough(code[k - 1].op)

\* What the assumption on the shapes and the compiler say of it.
LEMMA HandlerFacts ==
    ASSUME CodeOK, Complete, shape.tryEnd > 0
    PROVE  HandlerAt(shape.tryEnd + 1)
<1> DEFINE k == shape.tryEnd + 1
<1>0. shape \in Shapes /\ Len(code) = shape.len
  BY DEF CodeOK, Complete
<1>1. shape.tryEnd \in Nat /\ shape.handlerEnd \in Nat /\ shape.tryEnd < shape.handlerEnd /\ shape.handlerEnd <= shape.len /\ shape.len \in Nat
  BY <1>0, ShapeFacts
<1>2. k \in 1 .. Len(code) /\ k > 1 /\ Start(k) /\ k - 1 \in 1 .. Len(code)
  BY <1>0, <1>1 DEF Start
<1>3. RegionAt(k) = "handler"
  BY <1>1 DEF RegionAt
<1>4. code[k].op # "ret" /\ ~FallsThrough(code[k - 1].op)
  BY <1>2, <1>3 DEF CodeOK
<1>5. HandlerFirst = Il(k)
  BY DEF HandlerFirst
<1> QED BY <1>2, <1>4, <1>5 DEF HandlerAt

\* It stays in the method.
LEMMA HandlerStays ==
    ASSUME CodeOK, Complete, shape.tryEnd > 0, NEW A, NEW g, Watched(code, A, g)
    PROVE  HandlerFirst \in IdsOf(g) /\ HandlerFirst \notin Skipped(code) /\ HandlerFirst \notin A
<1>0. code \in Seq(Instrs) /\ DOMAIN code = 1 .. Len(code)
  BY DEF CodeOK
<1>1. PICK k : HandlerAt(k)
  BY HandlerFacts
<1>2. k \in 1 .. Len(code) /\ k - 1 \in 1 .. Len(code)
  BY <1>1 DEF HandlerAt
<1>4. code[k].op # "ret" /\ ~FallsThrough(code[k - 1].op)
  BY <1>1 DEF HandlerAt
<1>5. HandlerFirst = Il(k)
  BY <1>1 DEF HandlerAt
<1>6. ~AfterCall(code, k)
  <2>1. OpOf(code, k - 1) = code[k - 1].op
    BY <1>0, <1>2 DEF OpOf
  <2> QED BY <1>4, <2>1 DEF AfterCall, FallsThrough
<1>7. Il(k) \notin Skipped(code)
  <2>1. \A i \in DOMAIN code : Il(i) = Il(k) => i = k
    BY DEF Il
  <2> QED BY <1>6, <2>1 DEF Skipped
<1>8. Il(k) \in IdsOf(g)
  BY <1>0, <1>2, <1>4 DEF Watched, Kept, OthersKept
<1>9. Il(k) \notin A
  <2>1. Il(k) # NewRet /\ Il(k) # NewLdloc
    BY DEF Il, NewRet, NewLdloc
  <2>2. ~Ready(code, Il(k))
    BY <1>0, <1>2, <1>4 DEF Ready
  <2> QED BY <2>1, <2>2 DEF Watched, WayOut
<1> QED BY <1>5, <1>7, <1>8, <1>9

\* Where the execution is, and what has been seen: whoever is past the probe has been seen once.
Arrives(A, t, s) ==
    t # Null => t \in IdsOf(graph) /\ t \notin Skipped(code) /\ s = (IF t \in A THEN 1 ELSE 0)
Sees(A) ==
    /\ outcome.how = "none" => Arrives(A, at, seen)
    /\ outcome.how # "none" => at = Null
    /\ outcome.how = "returned" => seen = 1
    /\ outcome.how \in {"tailcalled", "thrown"} => seen = 0

\* The execution is at position k.
AtPlace(A, k) ==
    /\ Watched(code, A, graph) /\ ~TailRetTarget(code)
    /\ k \in 1 .. Len(graph) /\ at = graph[k].id /\ at # Null /\ Arrives(A, at, seen)
SeenAfter(k) == IF graph[k].op = "probe" THEN seen + 1 ELSE seen
FollowingAt(k) == IF k < Len(graph) THEN graph[k + 1].id ELSE Null

\* What is known of the instruction that is executed.
LEMMA PlaceFacts ==
    ASSUME NEW A, NEW k, AtPlace(A, k)
    PROVE  /\ graph \in Seq(Instrs) /\ Len(graph) \in Nat /\ k \in 1 .. Len(graph)
           /\ graph[k].op \in Ops \cup NewOps
           /\ at \notin Skipped(code) /\ seen = (IF at \in A THEN 1 ELSE 0)
           /\ at \in A => graph[k].op \in {"ret", "ldloc"}
           /\ graph[k].op = "ret" => at \in A
           /\ at \in TailCalls(code) => graph[k].op = "call" /\ OpOf(graph, k - 1) = "tail"
<1>1. graph \in Seq(Instrs) /\ k \in 1 .. Len(graph) /\ WayOut(code, A, graph) /\ PrefixKept(code, graph)
  BY DEF AtPlace, Watched, Kept
<1>2. graph[k] \in Instrs
  BY <1>1
<1>3. at \notin Skipped(code) /\ seen = (IF at \in A THEN 1 ELSE 0) /\ at = graph[k].id
  BY DEF AtPlace, Arrives
<1>4. graph[k].op \in Ops \cup NewOps
  BY <1>2 DEF Instrs
<1>5. at \in A => graph[k].op \in {"ret", "ldloc"}
  BY <1>1, <1>3 DEF WayOut
<1>6. graph[k].op = "ret" => at \in A
  BY <1>1, <1>3 DEF WayOut
<1>7. at \in TailCalls(code) => graph[k].op = "call" /\ OpOf(graph, k - 1) = "tail"
  BY <1>1, <1>3 DEF PrefixKept
<1> QED BY <1>1, <1>3, <1>4, <1>5, <1>6, <1>7

\* Whoever falls through from the probe is past it, and nobody else falls through to the way out.
LEMMA FallingArrives ==
    ASSUME NEW A, NEW k, AtPlace(A, k), FallsThrough(graph[k].op), at \notin TailCalls(code)
    PROVE  Arrives(A, FollowingAt(k), SeenAfter(k))
<1>1. /\ graph \in Seq(Instrs) /\ Len(graph) \in Nat /\ k \in 1 .. Len(graph)
      /\ at \notin Skipped(code) /\ seen = (IF at \in A THEN 1 ELSE 0)
      /\ at \in A => graph[k].op \in {"ret", "ldloc"}
  BY PlaceFacts
<1> SUFFICES ASSUME k < Len(graph) PROVE Arrives(A, graph[k + 1].id, SeenAfter(k))
  BY DEF FollowingAt, Arrives
<1>2. k + 1 \in 1 .. Len(graph) /\ k + 1 <= Len(graph)
  BY <1>1
<1>3. graph[k + 1].id \in IdsOf(graph)
  BY <1>2 DEF IdsOf
<1>4. graph[k + 1].id \notin Skipped(code)
  BY <1>1, <1>2 DEF AtPlace, Watched, Kept, NoFallSkips
<1>5. at = graph[k].id
  BY DEF AtPlace
<1>6. SeenAfter(k) = (IF graph[k + 1].id \in A THEN 1 ELSE 0)
  <2>1. CASE graph[k].op = "probe"
    <3>1. at \notin A /\ graph[k + 1].id \in A
      BY <1>1, <1>5, <2>1 DEF AtPlace, Watched
    <3> QED BY <1>1, <2>1, <3>1 DEF SeenAfter
  <2>2. CASE graph[k].op # "probe" /\ at \in A
    <3>1. graph[k].op = "ldloc"
      BY <1>1, <2>2 DEF FallsThrough
    <3>2. graph[k + 1].id \in A
      BY <1>1, <1>2, <1>5, <2>2, <3>1 DEF AtPlace, Watched
    <3> QED BY <1>1, <2>2, <3>2 DEF SeenAfter
  <2>3. CASE graph[k].op # "probe" /\ at \notin A
    <3>1. graph[k + 1].id \notin A
      BY <1>1, <1>2, <1>5, <2>3 DEF AtPlace, Watched
    <3> QED BY <1>1, <2>3, <3>1 DEF SeenAfter
  <2> QED BY <2>1, <2>2, <2>3
<1> QED BY <1>3, <1>4, <1>6 DEF Arrives

\* No jump leads past the probe.
LEMMA JumpingArrives ==
    ASSUME NEW A, NEW k, AtPlace(A, k), graph[k].op \in Jumps, NEW t \in graph[k].to
    PROVE  Arrives(A, t, SeenAfter(k))
<1>1. /\ k \in 1 .. Len(graph) /\ at \notin Skipped(code) /\ seen = (IF at \in A THEN 1 ELSE 0)
      /\ at \in A => graph[k].op \in {"ret", "ldloc"}
  BY PlaceFacts
<1>2. graph[k].op # "probe" /\ at \notin A /\ at = graph[k].id
  BY <1>1 DEF Jumps, AtPlace
<1>3. t \notin A
  BY <1>1, <1>2 DEF AtPlace, Watched
<1>4. t \notin Skipped(code) /\ t \in IdsOf(graph)
  BY <1>1 DEF AtPlace, Watched, Kept, NoJumpSkips, TargetsKept
<1> QED BY <1>1, <1>2, <1>3, <1>4 DEF Arrives, SeenAfter

\* An instruction that leads to another one.
LEMMA ArrivingSees ==
    ASSUME NEW A, UNCHANGED <<graph, code, outcome>>, outcome.how = "none", Arrives(A, at', seen')
    PROVE  Sees(A)'
  BY DEF Sees, Arrives

\* An instruction that ends the method.
LEMMA EndingSees ==
    ASSUME NEW A, NEW how, NEW value, Run!Ended(how, value), how # "none", how = "returned" => seen' = 1,
           how \in {"tailcalled", "thrown"} => seen' = 0
    PROVE  Sees(A)'
<1>1. outcome'.how = how /\ at' = Null
  BY DEF Run!Ended
<1> QED BY <1>1 DEF Sees

\* One instruction is executed: a return has been seen once, and what ends the method otherwise has not.
LEMMA ExecuteSees ==
    ASSUME CodeOK, Complete, NEW A, Watched(code, A, graph), ~TailRetTarget(code), Sees(A), Execute
    PROVE  Sees(A)'
<1>1. at # Null /\ outcome.how = "none" /\ UNCHANGED <<graph, code, shape>>
  BY DEF Execute, Run!Step, Sees, genVars
<1>2. Arrives(A, at, seen) /\ at \in IdsOf(graph)
  BY <1>1 DEF Sees, Arrives
<1>3. PICK k \in 1 .. Len(graph) : graph[k].id = at
  BY <1>2 DEF IdsOf
<1>4. AtPlace(A, k)
  BY <1>1, <1>2, <1>3 DEF AtPlace
<1>5. /\ graph \in Seq(Instrs) /\ Len(graph) \in Nat /\ k \in 1 .. Len(graph)
      /\ graph[k].op \in Ops \cup NewOps
      /\ at \notin Skipped(code) /\ seen = (IF at \in A THEN 1 ELSE 0)
      /\ at \in A => graph[k].op \in {"ret", "ldloc"}
      /\ graph[k].op = "ret" => at \in A
      /\ at \in TailCalls(code) => graph[k].op = "call" /\ OpOf(graph, k - 1) = "tail"
  BY <1>4, PlaceFacts
<1>6. Index(graph, at) = k
  <2>1. Distinct(graph)
    BY DEF Watched, Kept
  <2> QED BY <1>3, <1>5, <2>1, IndexFacts
<1>7. Run!Position(at) = k
  BY <1>6 DEF Run!Position, Index
<1>8. seen' = SeenAfter(k)
  BY <1>6 DEF Execute, SeenAfter
<1>9. Run!Following(graph[k].id) = FollowingAt(k)
  BY <1>3, <1>7 DEF Run!Following, FollowingAt
<1>10. Run!Execute(k)
  BY <1>7 DEF Execute, Run!Step
<1> DEFINE op == graph[k].op
<1>11. \A i : Run!OpAt(i) = OpOf(graph, i)
  BY DEF Run!OpAt, OpOf
<1>12. ASSUME NEW t, NEW s, Run!Continue(t, s), Arrives(A, t, SeenAfter(k)) PROVE Sees(A)'
  <2>1. at' = t /\ UNCHANGED outcome
    BY <1>12 DEF Run!Continue
  <2>2. Arrives(A, at', seen')
    BY <1>8, <1>12, <2>1
  <2> QED BY <1>1, <2>1, <2>2, ArrivingSees
<1>13. FallsThrough(op) /\ at \notin TailCalls(code) => Arrives(A, FollowingAt(k), SeenAfter(k))
  BY <1>4, FallingArrives
<1>14. op \in Jumps => \A t \in graph[k].to : Arrives(A, t, SeenAfter(k))
  BY <1>4, JumpingArrives
<1>15. op \notin {"ret", "ldloc", "probe"} => seen' = 0
  BY <1>5, <1>8 DEF SeenAfter
<1>16. CASE op \in {"ld", "ldloc"}
  <2>1. \E s : Run!Continue(FollowingAt(k), s)
    BY <1>9, <1>10, <1>16 DEF Run!Execute
  <2>2. FallsThrough(op) /\ at \notin TailCalls(code)
    BY <1>5, <1>16 DEF FallsThrough
  <2> QED BY <1>12, <1>13, <2>1, <2>2
<1>17. CASE op = "call"
  <2>1. CASE OpOf(graph, k - 1) = "tail"
    <3>1. Run!TailCall(k)
      BY <1>10, <1>11, <1>17, <2>1 DEF Run!Execute
    <3>2. (\E v : Run!Ended("tailcalled", v)) \/ Run!Ended("invalid", Null)
      BY <3>1 DEF Run!TailCall
    <3> QED BY <1>15, <1>17, <3>2, EndingSees
  <2>2. CASE OpOf(graph, k - 1) # "tail"
    <3>1. \E s : Run!Continue(FollowingAt(k), s)
      BY <1>9, <1>10, <1>11, <1>17, <2>2 DEF Run!Execute
    <3>2. FallsThrough(op) /\ at \notin TailCalls(code)
      BY <1>5, <1>17, <2>2 DEF FallsThrough
    <3> QED BY <1>12, <1>13, <3>1, <3>2
  <2> QED BY <2>1, <2>2
<1>18. CASE op = "stloc"
  <2>1. at' = FollowingAt(k) /\ UNCHANGED outcome
    BY <1>9, <1>10, <1>18 DEF Run!Execute
  <2>2. FallsThrough(op) /\ at \notin TailCalls(code)
    BY <1>5, <1>18 DEF FallsThrough
  <2>3. Arrives(A, at', seen')
    BY <1>8, <1>13, <2>1, <2>2
  <2> QED BY <1>1, <2>1, <2>3, ArrivingSees
<1>19. CASE op \in {"pop", "tail", "probe"}
  <2>1. \E s : Run!Continue(FollowingAt(k), s)
    BY <1>9, <1>10, <1>19 DEF Run!Execute
  <2>2. FallsThrough(op) /\ at \notin TailCalls(code)
    BY <1>5, <1>19 DEF FallsThrough
  <2> QED BY <1>12, <1>13, <2>1, <2>2
<1>20. CASE op \in {"br", "leave"}
  <2>1. \E t \in graph[k].to : \E s : Run!Continue(t, s)
    BY <1>10, <1>20 DEF Run!Execute
  <2> QED BY <1>12, <1>14, <1>20, <2>1 DEF Jumps
<1>21. CASE op \in {"brtrue", "switch"}
  <2>1. \E t \in graph[k].to \cup {FollowingAt(k)} : \E s : Run!Continue(t, s)
    BY <1>9, <1>10, <1>21 DEF Run!Execute
  <2>2. FallsThrough(op) /\ at \notin TailCalls(code)
    BY <1>5, <1>21 DEF FallsThrough
  <2>3. \A t \in graph[k].to \cup {FollowingAt(k)} : Arrives(A, t, SeenAfter(k))
    BY <1>13, <1>14, <1>21, <2>2 DEF Jumps
  <2> QED BY <1>12, <2>1, <2>3
<1>22. CASE op = "throw"
  <2>1. CASE graph[k].id \in Protected
    <3>1. \E s : Run!Continue(HandlerFirst, s)
      BY <1>10, <1>22, <2>1 DEF Run!Execute
    <3>2. shape.tryEnd > 0
      <4>1. shape.tryEnd \in Nat
        BY ShapeFacts DEF CodeOK
      <4>2. PICK i \in 1 .. shape.tryEnd : TRUE
        BY <2>1 DEF Protected
      <4> QED BY <4>1, <4>2
    <3>3. HandlerFirst \in IdsOf(graph) /\ HandlerFirst \notin Skipped(code) /\ HandlerFirst \notin A
      BY <3>2, HandlerStays
    <3>4. Arrives(A, HandlerFirst, SeenAfter(k))
      BY <1>8, <1>15, <1>22, <3>3 DEF Arrives
    <3> QED BY <1>12, <3>1, <3>4
  <2>2. CASE graph[k].id \notin Protected
    <3>1. Run!Ended("thrown", Null)
      BY <1>10, <1>22, <2>2 DEF Run!Execute
    <3> QED BY <1>15, <1>22, <3>1, EndingSees
  <2> QED BY <2>1, <2>2
<1>23. CASE op = "ret"
  <2>1. \E v : Run!Ended("returned", v)
    BY <1>10, <1>23 DEF Run!Execute
  <2>2. seen' = 1
    BY <1>5, <1>8, <1>23 DEF SeenAfter
  <2> QED BY <2>1, <2>2, EndingSees
<1>24. op \in {"ld", "ldloc"} \/ op = "call" \/ op = "stloc" \/ op \in {"pop", "tail", "probe"} \/ op \in {"br", "leave"}
       \/ op \in {"brtrue", "switch"} \/ op = "throw" \/ op = "ret"
  BY <1>5 DEF Ops, NewOps
<1> QED BY <1>16, <1>17, <1>18, <1>19, <1>20, <1>21, <1>22, <1>23, <1>24

\* How many returns GetReplaceableRets finds.
LEMMA OneRet ==
    ASSUME NEW g \in Seq(Instrs), Distinct(g), NEW rets, rets = GetReplaceableRets(g)
    PROVE  /\ Len(rets) \in Nat
           /\ Len(rets) > 0 => \E p \in Replaceables(g) : rets[1] = g[p]
           /\ Len(rets) = 1 => \A i, j \in Replaceables(g) : i = j
           /\ (\A i, j \in Replaceables(g) : i = j) => Len(rets) <= 1
           /\ (\E i, j \in Replaceables(g) : i # j) => Len(rets) > 1
<1>1. RetsOf(g, Len(g), rets)
  BY RetsAre
<1>2. Replaceables(g) \subseteq 1 .. Len(g) /\ Len(g) \in Nat
  BY DEF Replaceables
<1>3. Len(rets) \in Nat
  BY <1>1 DEF RetsOf
<1>4. \A m \in 1 .. Len(rets) : \E i \in Replaceables(g) : rets[m] = g[i]
  BY <1>1 DEF RetsOf
<1>5. \A i \in Replaceables(g) : \E m \in 1 .. Len(rets) : rets[m] = g[i]
  BY <1>1, <1>2 DEF RetsOf
<1>6. \A m, l \in 1 .. Len(rets) : rets[m].id = rets[l].id => m = l
  BY <1>1 DEF RetsOf
<1>7. Len(rets) > 0 => \E p \in Replaceables(g) : rets[1] = g[p]
  <2>1. Len(rets) > 0 => 1 \in 1 .. Len(rets)
    BY <1>3
  <2> QED BY <1>4, <2>1
<1>8. ASSUME NEW i \in Replaceables(g), NEW j \in Replaceables(g), i # j PROVE Len(rets) > 1
  <2>1. PICK m \in 1 .. Len(rets) : rets[m] = g[i]
    BY <1>5
  <2>2. PICK l \in 1 .. Len(rets) : rets[l] = g[j]
    BY <1>5
  <2>3. m # l
    BY <1>2, <1>8, <2>1, <2>2 DEF Distinct
  <2> QED BY <1>3, <2>1, <2>2, <2>3
<1>9. Len(rets) = 1 => \A i, j \in Replaceables(g) : i = j
  BY <1>8
<1>10. (\A i, j \in Replaceables(g) : i = j) => Len(rets) <= 1
  <2> SUFFICES ASSUME \A i, j \in Replaceables(g) : i = j, Len(rets) > 1 PROVE FALSE
    BY <1>3
  <2>1. 1 \in 1 .. Len(rets) /\ 2 \in 1 .. Len(rets)
    BY <1>3
  <2>2. rets[1] = rets[2]
    BY <1>4, <2>1
  <2> QED BY <1>6, <2>1, <2>2
<1> QED BY <1>3, <1>7, <1>8, <1>9, <1>10

\* With a probe there is one return left to replace, or none.
LEMMA WatchedRets ==
    ASSUME NEW c, NEW A, NEW g, Kept(c, g), WayOut(c, A, g)
    PROVE  Len(GetReplaceableRets(g)) <= 1
<1>1. g \in Seq(Instrs) /\ Distinct(g) /\ DOMAIN g = 1 .. Len(g)
  BY DEF Kept
<1>2. \A i \in Replaceables(g) : i \in 1 .. Len(g) /\ g[i].op = "ret" /\ g[i].id \notin Skipped(c)
  BY <1>1 DEF Replaceables, Kept, TailRetsKept
<1>3. \A i, j \in Replaceables(g) : i = j
  BY <1>2 DEF WayOut
<1> QED BY <1>1, <1>3, OneRet

-----------------------------------------------------------------------------
(* The phases. *)

Idle == ~running => outcome = Run!Pending /\ seen = 0
AppliedLate == applied \in Nat /\ (applied > 0 => Complete)
Plain == graph = code /\ target = Null
Half == Complete /\ HalfApplied /\ target = Null /\ ~Probed
Single == Complete /\ Going(code, StoresRetVal, {}, Originals(code), graph) /\ target \in {Null, BranchTarget}
UnderWatch == Complete /\ Probed /\ \E A : Watched(code, A, graph) /\ (running /\ ~TailRetTarget(code) => Sees(A))

MethodInv == CodeOK /\ Idle /\ AppliedLate /\ (Plain \/ Half \/ Single \/ UnderWatch)

\* The phase depends on the method only.
LEMMA PhaseUnchanged ==
    ASSUME UNCHANGED <<shape, code, graph, target>>
    PROVE  /\ Complete' = Complete /\ CodeOK' = CodeOK /\ Plain' = Plain /\ Half' = Half /\ Single' = Single
           /\ Probed' = Probed
<1>1. Complete' = Complete /\ Probed' = Probed /\ HalfApplied' = HalfApplied /\ Plain' = Plain
  BY DEF Complete, Probed, HalfApplied, Plain
<1>2. StoresRetVal' = StoresRetVal /\ BranchTarget' = BranchTarget
  BY DEF StoresRetVal, BranchTarget
<1>3. (\A i : RegionAt(i)' = RegionAt(i)) /\ (\A i : Start(i)' = Start(i))
  BY DEF RegionAt, Start
<1>4. CodeOK' = CodeOK
  BY <1>3 DEF CodeOK
<1>5. Single' = Single
  BY <1>1, <1>2 DEF Single
<1> QED BY <1>1, <1>4, <1>5 DEF Half

\* Before InsertProbe there is no probe.
LEMMA NoProbeYet ==
    ASSUME MethodInv, ~UnderWatch
    PROVE  ~Probed
<1>1. CASE Plain
  <2>1. code \in Seq(Instrs) /\ DOMAIN code = 1 .. Len(code) /\ \A i \in 1 .. Len(code) : code[i].op \in Ops
    BY DEF MethodInv, CodeOK
  <2> QED BY <1>1, <2>1 DEF Plain, Probed, Ops
<1>2. CASE Half
  BY <1>2 DEF Half
<1>3. CASE Single
  <2>1. graph \in Seq(Instrs) /\ DOMAIN graph = 1 .. Len(graph)
    BY <1>3 DEF Single, Going, Kept
  <2> QED BY <1>3, <2>1 DEF Single, Going, Probed
<1> QED BY <1>1, <1>2, <1>3 DEF MethodInv

\* The only return that can be replaced in the method with a single return is that one.
LEMMA SingleRets ==
    ASSUME NEW c \in Seq(Instrs), NEW st, NEW g, Going(c, st, {}, Originals(c), g)
    PROVE  /\ Len(GetReplaceableRets(g)) <= 1
           /\ Len(GetReplaceableRets(g)) = 1 => \E p \in 1 .. Len(g) : GetReplaceableRets(g)[1] = g[p] /\ g[p].id = NewRet
<1>1. g \in Seq(Instrs) /\ Distinct(g) /\ DOMAIN g = 1 .. Len(g) /\ TailRetsKept(c, g)
  BY DEF Going, Kept
<1>2. \A i \in Replaceables(g) : i \in 1 .. Len(g) /\ g[i].id = NewRet
  <2>1. \A i \in Replaceables(g) : i \in 1 .. Len(g) /\ g[i].op = "ret" /\ g[i].id \notin Skipped(c)
    BY <1>1 DEF Replaceables, TailRetsKept
  <2>2. \A k \in 1 .. Len(g) : g[k].op = "ret" => g[k].id \in {NewRet} \cup Skipped(c)
    BY DEF Going
  <2> QED BY <2>1, <2>2
<1>3. \A i, j \in Replaceables(g) : i = j
  BY <1>1, <1>2 DEF Distinct
<1>4. Len(GetReplaceableRets(g)) <= 1
  BY <1>1, <1>3, OneRet
<1>5. Len(GetReplaceableRets(g)) = 1 => \E p \in Replaceables(g) : GetReplaceableRets(g)[1] = g[p]
  BY <1>1, OneRet
<1> QED BY <1>2, <1>4, <1>5

\* No method yet.
LEMMA InitMethodInv == Init => MethodInv
<1> SUFFICES ASSUME Init PROVE MethodInv
  OBVIOUS
<1>1. shape \in Shapes /\ code = <<>> /\ graph = <<>> /\ applied = 0 /\ target = Null /\ seen = 0 /\ Run!Init
  BY DEF Init
<1>2. shape.len \in Nat
  BY <1>1, ShapeFacts
<1>3. code \in Seq(Instrs) /\ Len(code) = 0
  BY <1>1
<1>4. CodeOK
  BY <1>1, <1>2, <1>3 DEF CodeOK
<1> QED BY <1>1, <1>4 DEF MethodInv, Idle, AppliedLate, Plain, Run!Init

\* The compiler adds an instruction.
LEMMA DecodeKeeps ==
    ASSUME MethodInv, NEW op \in shape.ops, NEW to \in SUBSET shape.targets, Decode(op, to)
    PROVE  MethodInv'
<1> DEFINE n == Len(code)
           i == n + 1
           jumps == {Il(t) : t \in to}
           ins == Instruction(Il(i), op, jumps)
<1>1. shape \in Shapes /\ code \in Seq(Instrs) /\ n \in Nat
  BY DEF MethodInv, CodeOK
<1>2. /\ shape.len \in Nat /\ shape.ops \subseteq Ops /\ shape.targets \subseteq 1 .. shape.len
  BY <1>1, ShapeFacts
<1>3. i <= shape.len /\ code' = Append(code, ins) /\ graph' = code' /\ UNCHANGED <<shape, applied, target, runVars, seen>>
  BY DEF Decode
<1>4. /\ op = "ret" => RegionAt(i) = "body"
      /\ i > 1 /\ Start(i) => ~FallsThrough(code[i - 1].op)
      /\ i = shape.len => ~FallsThrough(op)
  BY DEF Decode, InstructionFits
<1>5. ~Complete
  BY <1>1, <1>2, <1>3 DEF Complete
<1>6. Plain
  BY <1>5 DEF MethodInv, Half, Single, UnderWatch
<1>7. jumps \subseteq {Il(t) : t \in 1 .. shape.len}
  BY <1>2
<1>8. \A t \in Nat : Il(t) \in InstrIds
  BY DEF Il, InstrIds
<1>9. jumps \subseteq InstrIds
  BY <1>2, <1>8
<1> HIDE DEF jumps
<1>10. ins \in Instrs /\ ins.id = Il(i) /\ ins.op = op /\ ins.to = jumps
  BY <1>1, <1>2, <1>8, <1>9 DEF Instruction, Instrs
<1> HIDE DEF ins
<1>11. /\ code' \in Seq(Instrs) /\ Len(code') = i
       /\ code'[i] = ins
       /\ \A k \in 1 .. n : code'[k] = code[k]
  BY <1>1, <1>3, <1>10
<1>12. (\A k : RegionAt(k)' = RegionAt(k)) /\ (\A k : Start(k)' = Start(k))
  BY <1>3 DEF RegionAt, Start
<1>13. ASSUME NEW k \in 1 .. i
       PROVE  /\ code'[k].id = Il(k) /\ code'[k].op \in Ops
              /\ code'[k].to \subseteq {Il(t) : t \in 1 .. shape.len}
              /\ code'[k].op = "ret" => RegionAt(k) = "body"
              /\ k > 1 /\ Start(k) => ~FallsThrough(code'[k - 1].op)
              /\ k = shape.len => ~FallsThrough(code'[k].op)
  <2>0. k > 1 => k - 1 \in 1 .. n
    BY <1>1
  <2>1. k > 1 => code'[k - 1] = code[k - 1]
    BY <1>11, <2>0
  <2>2. CASE k = i
    BY <1>2, <1>4, <1>7, <1>10, <1>11, <2>1, <2>2
  <2>3. CASE k # i
    <3>1. k \in 1 .. n
      BY <1>1, <2>3
    <3> QED BY <1>11, <2>1, <3>1 DEF MethodInv, CodeOK
  <2> QED BY <2>2, <2>3
<1>14. CodeOK'
  BY <1>1, <1>3, <1>11, <1>12, <1>13 DEF CodeOK
<1>15. Idle' /\ AppliedLate'
  BY <1>3, <1>5 DEF MethodInv, Idle, AppliedLate, runVars, Complete
<1>16. Plain'
  BY <1>3, <1>6 DEF Plain
<1> QED BY <1>14, <1>15, <1>16 DEF MethodInv

\* What leaves the method alone keeps the phase; a probe that is there stays watched until the method runs.
LEMMA MethodKept ==
    ASSUME MethodInv, UNCHANGED <<shape, code, graph, target, running, at, outcome, seen>>, applied' \in Nat,
           applied' > 0 => Complete
    PROVE  MethodInv'
<1>1. /\ Complete' = Complete /\ CodeOK' = CodeOK /\ Plain' = Plain /\ Half' = Half /\ Single' = Single
      /\ Probed' = Probed
  BY PhaseUnchanged
<1>2. Idle' /\ AppliedLate'
  BY <1>1 DEF MethodInv, Idle, AppliedLate
<1>3. UnderWatch => UnderWatch'
  <2>1. \A A : Sees(A)' = Sees(A)
    BY DEF Sees, Arrives
  <2> QED BY <1>1, <2>1 DEF UnderWatch
<1> QED BY <1>1, <1>2, <1>3 DEF MethodInv

\* Only the original method has several returns to replace, but for one that was left half-way.
LEMMA ManyRetsPlain ==
    ASSUME MethodInv, Complete, ~HalfApplied, Len(GetReplaceableRets(graph)) > 1
    PROVE  Plain
<1> DEFINE rets == GetReplaceableRets(graph)
<1>1. Len(rets) \in Nat \/ Plain
  <2>1. graph \in Seq(Instrs) /\ Distinct(graph) => Len(rets) \in Nat
    BY OneRet
  <2>2. Single \/ UnderWatch => graph \in Seq(Instrs) /\ Distinct(graph)
    BY DEF Single, UnderWatch, Going, Kept, Watched
  <2> QED BY <2>1, <2>2 DEF MethodInv, Half
<1>2. Single => Len(rets) <= 1
  <2>1. code \in Seq(Instrs)
    BY DEF MethodInv, CodeOK
  <2> QED BY <2>1, SingleRets DEF Single
<1>3. UnderWatch => Len(rets) <= 1
  BY WatchedRets DEF UnderWatch, Watched
<1>4. ~Half
  BY DEF Half
<1>5. Len(rets) > 1
  OBVIOUS
<1> HIDE DEF rets
<1> QED BY <1>1, <1>2, <1>3, <1>4, <1>5 DEF MethodInv

\* ApplySingleRetDefaultInstrumentation makes a single return of several, stops half-way, or leaves the method alone.
LEMMA ApplyKeeps ==
    ASSUME MethodInv, ApplySingleRetDefaultInstrumentation
    PROVE  MethodInv'
<1> DEFINE rets == GetReplaceableRets(graph)
<1>1. /\ Complete /\ ~running /\ ~HalfApplied /\ applied' = applied + 1
      /\ UNCHANGED <<shape, code, running, at, outcome, seen>>
  BY DEF ApplySingleRetDefaultInstrumentation, Complete, genVars, runVars
<1>2. applied' \in Nat
  BY <1>1 DEF MethodInv, AppliedLate
<1>3. CodeOK' /\ Complete' /\ Idle' /\ AppliedLate'
  <2>1. (\A i : RegionAt(i)' = RegionAt(i)) /\ (\A i : Start(i)' = Start(i))
    BY <1>1 DEF RegionAt, Start
  <2>2. CodeOK'
    BY <1>1, <2>1 DEF MethodInv, CodeOK
  <2> QED BY <1>1, <1>2, <2>2 DEF MethodInv, Complete, Idle, AppliedLate
<1>4. CASE target' = Null /\ graph' = graph
  <2>1. Plain => Plain'
    BY <1>1, <1>4 DEF Plain
  <2>2. ~Half
    BY <1>1 DEF Half
  <2>3. Single => Single'
    <3>1. StoresRetVal' = StoresRetVal
      BY <1>1 DEF StoresRetVal
    <3> QED BY <1>1, <1>3, <1>4, <3>1 DEF Single
  <2>4. UnderWatch => UnderWatch'
    <3>1. Probed' = Probed
      BY <1>4 DEF Probed
    <3> QED BY <1>1, <1>3, <1>4, <3>1 DEF UnderWatch
  <2> QED BY <1>3, <2>1, <2>2, <2>3, <2>4 DEF MethodInv
<1>5. CASE Len(rets) > 1
  <2>0. code \in Seq(Instrs) /\ DOMAIN code = 1 .. Len(code) /\ Numbered(code)
    BY <1>1, CompleteIsNumbered DEF MethodInv, CodeOK
  <2>1. Plain
    BY <1>1, <1>5, ManyRetsPlain
  <2>2. graph = code
    BY <2>1 DEF Plain
  <2>3. Len(code) > 0 /\ Distinct(code)
    <3>1. \A i, j \in 1 .. Len(code) : Il(i) = Il(j) => i = j
      BY DEF Il
    <3>2. Distinct(code)
      BY <2>0, <3>1 DEF Numbered, Distinct
    <3>3. Len(rets) \in Nat /\ (Len(rets) > 0 => \E p \in Replaceables(code) : rets[1] = code[p])
      BY <2>0, <2>2, <3>2, OneRet
    <3>4. \E p \in Replaceables(code) : TRUE
      BY <1>5, <3>3
    <3>5. Replaceables(code) \subseteq 1 .. Len(code) /\ Len(code) \in Nat
      BY <2>0 DEF Replaceables
    <3> QED BY <3>2, <3>4, <3>5
  <2>4. StoresRetVal' = StoresRetVal /\ BranchTarget' = BranchTarget
    BY <1>1 DEF StoresRetVal, BranchTarget
  <2>5. CASE target' = BranchTarget /\ graph' = WithSingleRet(graph, rets)
    <3>1. RetsOf(code, Len(code), rets)
      BY <2>0, <2>2, <2>3, RetsAre
    <3> HIDE DEF rets
    <3>2. Going(code, StoresRetVal, {}, Originals(code), WithSingleRet(code, rets))
      BY <2>0, <2>3, <3>1, SingleIsMade
    <3>3. Single'
      BY <1>1, <1>3, <2>2, <2>4, <2>5, <3>2 DEF Single
    <3> QED BY <1>3, <3>3 DEF MethodInv
  <2>6. CASE target' = Null /\ graph' = WithNewRet(graph)
    <3> DEFINE h == WithNewRet(code)
    <3>1. /\ Kept(code, h) /\ Len(h) = Len(code) + 1
          /\ h[Len(code) + 1] = Instruction(NewRet, "ret", {})
          /\ \A k \in 1 .. Len(code) : h[k] = code[k] /\ (AfterTail(h, k) <=> AfterTail(code, k))
      BY <2>0, <2>3, NewRetFacts
    <3>2. graph' = h
      BY <2>2, <2>6
    <3> HIDE DEF h
    <3>3. h \in Seq(Instrs) /\ Distinct(h) /\ DOMAIN h = 1 .. Len(code) + 1 /\ Len(code) \in Nat
      BY <2>0, <3>1 DEF Kept
    <3>4. Replaceables(code) \subseteq Replaceables(h)
      <4>1. \A k \in Replaceables(code) : k \in 1 .. Len(code) /\ code[k].op = "ret" /\ ~AfterTail(code, k)
        BY <2>0 DEF Replaceables
      <4>2. \A k \in 1 .. Len(code) : k \in DOMAIN h
        BY <3>3
      <4> QED BY <3>1, <4>1, <4>2 DEF Replaceables
    <3>5. \E i, j \in Replaceables(code) : i # j
      <4>1. Len(rets) \in Nat /\ ((\A i, j \in Replaceables(code) : i = j) => Len(rets) <= 1)
        BY <2>0, <2>2, <2>3, OneRet
      <4> HIDE DEF rets
      <4> QED BY <1>5, <4>1
    <3>6. Len(GetReplaceableRets(h)) > 1
      <4>1. \E i, j \in Replaceables(h) : i # j
        BY <3>4, <3>5
      <4> QED BY <3>3, <4>1, OneRet
    <3>7. HasNewRet(h)
      <4>1. h[Len(code) + 1].id = NewRet /\ Len(code) + 1 \in DOMAIN h
        BY <3>1, <3>3 DEF Instruction
      <4> QED BY <4>1 DEF HasNewRet
    <3>8. \A k \in DOMAIN h : h[k].op # "probe"
      <4>1. \A k \in 1 .. Len(code) : h[k].op # "probe"
        BY <2>0, <3>1 DEF Numbered, Ops
      <4>2. h[Len(code) + 1].op # "probe"
        BY <3>1 DEF Instruction
      <4>3. \A k \in DOMAIN h : k \in 1 .. Len(code) \/ k = Len(code) + 1
        BY <3>3
      <4> QED BY <4>1, <4>2, <4>3
    <3>9. Half'
      BY <1>3, <2>6, <3>2, <3>6, <3>7, <3>8 DEF Half, HalfApplied, Probed
    <3> QED BY <1>3, <3>9 DEF MethodInv
  <2>7. (target' = Null /\ graph' = graph) \/ (target' = BranchTarget /\ graph' = WithSingleRet(graph, rets))
        \/ (target' = Null /\ graph' = WithNewRet(graph))
    BY DEF ApplySingleRetDefaultInstrumentation
  <2> QED BY <1>4, <2>5, <2>6, <2>7
<1>6. (target' = Null /\ graph' = graph) \/ Len(rets) > 1
  BY DEF ApplySingleRetDefaultInstrumentation
<1> QED BY <1>4, <1>5, <1>6

\* The probe is put where all returns come by.
LEMMA ProbeIsWatched ==
    ASSUME NEW A, NEW p, Complete, CodeOK, Kept(code, graph), Entered(code, A, graph, p),
           IdsOf(graph) \subseteq IdNames(code, Originals(code)), A \subseteq IdNames(code, Originals(code)),
           graph' = InsertBeforeAndRetargetOffsets(graph, graph[p].id, ProbeFor(graph[p].id)),
           UNCHANGED <<shape, code, running>>, ~running
    PROVE  UnderWatch'
<1> DEFINE h == InsertBeforeAndRetargetOffsets(graph, graph[p].id, ProbeFor(graph[p].id))
<1>1. Watched(code, A, h)
  BY ProbeWatches DEF CodeOK
<1>2. graph \in Seq(Instrs) /\ Distinct(graph) /\ p \in 1 .. Len(graph) /\ Len(graph) \in Nat
  BY DEF Kept, Entered
<1>3. graph[p].id \in InstrIds
  <2>1. graph[p] \in Instrs
    BY <1>2
  <2> QED BY <2>1 DEF Instrs
<1>4. ProbeFor(graph[p].id) \in Instrs /\ ProbeFor(graph[p].id).op = "probe"
  <2>1. Probe(graph[p].id) \in InstrIds
    BY <1>3 DEF Probe, InstrIds
  <2> QED BY <2>1 DEF ProbeFor, Instruction, Instrs, NewOps
<1>5. h \in Seq(Instrs) /\ Len(h) = Len(graph) + 1 /\ h[p].op = "probe"
  <2> DEFINE ins == ProbeFor(graph[p].id)
  <2>1. ins \in Instrs /\ ins.op = "probe" /\ h = InsertBeforeAndRetargetOffsets(graph, graph[p].id, ins)
    BY <1>4
  <2> HIDE DEF ins, h
  <2>2. Inserted(graph, p, ins, h)
    <3>1. Place(graph, p, ins)
      BY <1>2, <2>1 DEF Place
    <3> QED BY <2>1, <3>1, InsertIs
  <2>3. p \in 1 .. Len(h) /\ ~(p < p)
    BY <1>2, <2>2 DEF Inserted
  <2> QED BY <2>1, <2>2, <2>3 DEF Inserted
<1> HIDE DEF h
<1>6. graph' = h
  BY DEF h
<1>7. \E k \in DOMAIN h : h[k].op = "probe"
  <2>1. p \in DOMAIN h
    BY <1>2, <1>5
  <2> QED BY <1>5, <2>1
<1>8. Complete' /\ Probed'
  BY <1>6, <1>7 DEF Complete, Probed
<1> QED BY <1>1, <1>6, <1>8 DEF UnderWatch

\* Where the probe is put: before the only return of the original method, or on the way out of the single return.
ProbedAt(A, p) ==
    /\ graph' = InsertBeforeAndRetargetOffsets(graph, graph[p].id, ProbeFor(graph[p].id))
    /\ Kept(code, graph) /\ Entered(code, A, graph, p)
    /\ IdsOf(graph) \subseteq IdNames(code, Originals(code)) /\ A \subseteq IdNames(code, Originals(code))
    /\ \/ Plain /\ p \in Replaceables(code)
       \/ Single /\ graph[p].id \in {NewRet, NewLdloc}

\* InsertProbe finds the place that all returns come by.
LEMMA ProbePlace ==
    ASSUME MethodInv, InsertProbe
    PROVE  \E A, p : ProbedAt(A, p)
<1> DEFINE rets == GetReplaceableRets(graph)
           id == IF target # Null THEN target ELSE rets[1].id
           names == IdNames(code, Originals(code))
<1>1. /\ applied > 0 /\ ~running /\ (\A i \in DOMAIN graph : graph[i].op # "probe") /\ (target # Null \/ Len(rets) = 1)
      /\ graph' = InsertBeforeAndRetargetOffsets(graph, id, ProbeFor(id))
      /\ UNCHANGED <<shape, code, applied, target, running, at, outcome, seen>>
  BY DEF InsertProbe, ProbeFor, genVars, runVars
<1>2. Complete /\ CodeOK /\ applied \in Nat
  BY <1>1 DEF MethodInv, AppliedLate
<1>3. Numbered(code) /\ code \in Seq(Instrs) /\ DOMAIN code = 1 .. Len(code)
  BY <1>2, CompleteIsNumbered DEF CodeOK
<1>5. ASSUME NEW A, NEW p, id = graph[p].id, Kept(code, graph), Entered(code, A, graph, p),
             IdsOf(graph) \subseteq names, A \subseteq names,
             (Plain /\ p \in Replaceables(code)) \/ (Single /\ graph[p].id \in {NewRet, NewLdloc})
      PROVE  \E B, q : ProbedAt(B, q)
  <2>1. graph' = InsertBeforeAndRetargetOffsets(graph, graph[p].id, ProbeFor(graph[p].id))
    BY <1>1, <1>5
  <2>2. ProbedAt(A, p)
    BY <1>5, <2>1 DEF ProbedAt
  <2> QED BY <2>2
<1>6. CASE Plain
  <2>1. graph = code /\ target = Null /\ Len(rets) = 1 /\ id = rets[1].id
    BY <1>1, <1>6 DEF Plain
  <2>2. Distinct(code)
    <3>1. \A i, j \in 1 .. Len(code) : Il(i) = Il(j) => i = j
      BY DEF Il
    <3> QED BY <1>3, <3>1 DEF Numbered, Distinct
  <2>3. (\E p \in Replaceables(code) : rets[1] = code[p]) /\ \A i, j \in Replaceables(code) : i = j
    <3>1. /\ Len(rets) \in Nat
          /\ Len(rets) > 0 => \E p \in Replaceables(code) : rets[1] = code[p]
          /\ Len(rets) = 1 => \A i, j \in Replaceables(code) : i = j
      BY <1>3, <2>1, <2>2, OneRet
    <3> HIDE DEF rets
    <3> QED BY <2>1, <3>1
  <2>4. PICK p \in Replaceables(code) : rets[1] = code[p]
    BY <2>3
  <2>5. \A i \in Replaceables(code) : i = p
    BY <2>3
  <2>6. p \in 1 .. Len(code) /\ Len(code) > 0
    <3>1. p \in 1 .. Len(code) /\ Len(code) \in Nat
      BY <1>3 DEF Replaceables
    <3> QED BY <3>1
  <2>7. Entered(code, {Il(p)}, code, p) /\ code[p].id = Il(p)
    BY <1>3, <2>5, <2>6, PlainEntered
  <2>8. Kept(code, code) /\ IdsOf(code) = Originals(code)
    BY <1>3, <2>6, OriginalFacts
  <2>9. Il(p) \in Originals(code) /\ Originals(code) \subseteq names
    BY <2>6 DEF Originals, IdNames
  <2>10. id = graph[p].id
    BY <2>1, <2>4
  <2>11. {Il(p)} \subseteq names /\ IdsOf(graph) \subseteq names
    BY <2>1, <2>8, <2>9
  <2> HIDE DEF id, names
  <2> QED BY <1>5, <1>6, <2>1, <2>4, <2>7, <2>8, <2>10, <2>11
<1>7. CASE Half
  <2>1. target = Null /\ Len(rets) > 1
    BY <1>7 DEF Half, HalfApplied
  <2>2. Len(rets) = 1
    BY <1>1, <2>1
  <2> HIDE DEF rets
  <2> QED BY <2>1, <2>2
<1>8. CASE Single
  <2>1. Going(code, StoresRetVal, {}, Originals(code), graph) /\ target \in {Null, BranchTarget} /\ StoresRetVal \in BOOLEAN
    BY <1>8 DEF Single, StoresRetVal
  <2>2. Kept(code, graph) /\ IdsOf(graph) \subseteq names /\ NewRet \in IdsOf(graph) /\ (StoresRetVal => NewLdloc \in IdsOf(graph))
    BY <2>1 DEF Going
  <2>3. {NewRet} \subseteq names /\ {NewRet, NewLdloc} \subseteq names
    BY DEF IdNames
  <2>4. \A p \in 1 .. Len(graph) : /\ graph[p].id = NewRet => Entered(code, {NewRet}, graph, p)
                                   /\ StoresRetVal /\ graph[p].id = NewLdloc => Entered(code, {NewRet, NewLdloc}, graph, p)
    BY <1>3, <2>1, SingleEntered
  <2>5. (id = NewRet) \/ (StoresRetVal /\ id = NewLdloc)
    <3>1. CASE target # Null
      BY <2>1, <3>1 DEF BranchTarget
    <3>2. CASE target = Null
      <4>1. Len(rets) = 1 /\ id = rets[1].id
        BY <1>1, <3>2
      <4>2. \E p \in 1 .. Len(graph) : rets[1] = graph[p] /\ graph[p].id = NewRet
        BY <1>3, <2>1, <4>1, SingleRets
      <4> QED BY <4>1, <4>2
    <3> QED BY <3>1, <3>2
  <2> HIDE DEF id, names
  <2>6. CASE id = NewRet
    <3>1. PICK p \in 1 .. Len(graph) : graph[p].id = NewRet
      BY <2>2 DEF IdsOf
    <3>2. Entered(code, {NewRet}, graph, p) /\ id = graph[p].id
      BY <2>4, <2>6, <3>1
    <3> QED BY <1>5, <1>8, <2>2, <2>3, <3>1, <3>2
  <2>7. CASE StoresRetVal /\ id = NewLdloc
    <3>1. PICK p \in 1 .. Len(graph) : graph[p].id = NewLdloc
      BY <2>2, <2>7 DEF IdsOf
    <3>2. Entered(code, {NewRet, NewLdloc}, graph, p) /\ id = graph[p].id
      BY <2>4, <2>7, <3>1
    <3> QED BY <1>5, <1>8, <2>2, <2>3, <3>1, <3>2
  <2> QED BY <2>5, <2>6, <2>7
<1>9. ~UnderWatch
  BY <1>1 DEF UnderWatch, Probed
<1> QED BY <1>6, <1>7, <1>8, <1>9 DEF MethodInv

\* InsertProbe, before the only return or at the branch target.
LEMMA InsertProbeKeeps ==
    ASSUME MethodInv, InsertProbe
    PROVE  MethodInv'
<1>1. /\ applied > 0 /\ ~running /\ UNCHANGED <<shape, code, applied, target, running, at, outcome, seen>>
  BY DEF InsertProbe, genVars, runVars
<1>2. Complete /\ CodeOK /\ applied \in Nat
  BY <1>1 DEF MethodInv, AppliedLate
<1>3. CodeOK' /\ Idle' /\ AppliedLate'
  <2>1. (\A i : RegionAt(i)' = RegionAt(i)) /\ (\A i : Start(i)' = Start(i))
    BY <1>1 DEF RegionAt, Start
  <2>2. CodeOK'
    BY <1>1, <1>2, <2>1 DEF CodeOK
  <2> QED BY <1>1, <1>2, <2>2 DEF MethodInv, Complete, Idle, AppliedLate
<1>4. PICK A, p : ProbedAt(A, p)
  BY ProbePlace
<1>5. UnderWatch'
  BY <1>1, <1>2, <1>4, ProbeIsWatched DEF ProbedAt
<1> QED BY <1>3, <1>5 DEF MethodInv

\* The method starts before the probe.
LEMMA RenderKeeps ==
    ASSUME MethodInv, Render
    PROVE  MethodInv'
<1>1. /\ ~running /\ running' = TRUE /\ at' = graph[1].id
      /\ UNCHANGED <<shape, code, graph, applied, target, seen, outcome>>
  BY DEF Render, Run!Start, genVars
<1>2. /\ Complete' = Complete /\ CodeOK' = CodeOK /\ Plain' = Plain /\ Half' = Half /\ Single' = Single
      /\ Probed' = Probed
  BY <1>1, PhaseUnchanged
<1>3. Idle' /\ AppliedLate'
  BY <1>1, <1>2 DEF MethodInv, Idle, AppliedLate
<1>4. ASSUME UnderWatch PROVE UnderWatch'
  <2>1. PICK A : Watched(code, A, graph)
    BY <1>4 DEF UnderWatch
  <2>2. outcome.how = "none" /\ seen = 0
    BY <1>1 DEF MethodInv, Idle, Run!Pending
  <2>3. graph \in Seq(Instrs) /\ Len(graph) > 0 /\ graph[1].id \notin Skipped(code) /\ graph[1].id \notin A
    BY <2>1 DEF Watched, Kept
  <2>4. graph[1].id \in IdsOf(graph)
    BY <2>3 DEF IdsOf
  <2>5. Sees(A)'
    BY <1>1, <2>2, <2>3, <2>4 DEF Sees, Arrives
  <2> QED BY <1>1, <1>2, <1>4, <2>1, <2>5 DEF UnderWatch
<1> QED BY <1>2, <1>3, <1>4 DEF MethodInv

\* The method runs.
LEMMA ExecuteKeeps ==
    ASSUME MethodInv, Execute
    PROVE  MethodInv'
<1>1. /\ running /\ UNCHANGED <<shape, code, graph, applied, target, running>>
  BY DEF Execute, Run!Step, genVars
<1>2. /\ Complete' = Complete /\ CodeOK' = CodeOK /\ Plain' = Plain /\ Half' = Half /\ Single' = Single
      /\ Probed' = Probed
  BY <1>1, PhaseUnchanged
<1>3. Idle' /\ AppliedLate'
  BY <1>1, <1>2 DEF MethodInv, Idle, AppliedLate
<1>4. ASSUME UnderWatch PROVE UnderWatch'
  <2>1. PICK A : Watched(code, A, graph) /\ (~TailRetTarget(code) => Sees(A))
    BY <1>1, <1>4 DEF UnderWatch
  <2>2. ~TailRetTarget(code) => Sees(A)'
    BY <1>4, <2>1, ExecuteSees DEF MethodInv, UnderWatch
  <2> QED BY <1>1, <1>2, <1>4, <2>1, <2>2 DEF UnderWatch
<1> QED BY <1>2, <1>3, <1>4 DEF MethodInv

\* Every step keeps the invariant.
LEMMA NextMethodInv ==
    ASSUME MethodInv, [Next]_vars
    PROVE  MethodInv'
<1>0. applied \in Nat /\ (applied > 0 => Complete)
  BY DEF MethodInv, AppliedLate
<1>1. ASSUME NEW op \in shape.ops, NEW to \in SUBSET shape.targets, Decode(op, to) PROVE MethodInv'
  BY <1>1, DecodeKeeps
<1>2. CASE UseLocals
  BY <1>0, <1>2, MethodKept DEF UseLocals, genVars, runVars
<1>3. CASE UNCHANGED vars
  BY <1>0, <1>3, MethodKept DEF vars, genVars, runVars
<1> QED BY <1>1, <1>2, <1>3, ApplyKeeps, InsertProbeKeeps, RenderKeeps, ExecuteKeeps DEF Next

\* The invariant has what the property says.
LEMMA SeenFollows == MethodInv => EveryReturnSeen
<1> SUFFICES ASSUME MethodInv, Probed, ~TailRetIsTarget
             PROVE  /\ outcome.how = "returned" => seen = 1
                    /\ outcome.how \in {"tailcalled", "thrown"} => seen = 0
  BY DEF EveryReturnSeen
<1>1. UnderWatch
  BY NoProbeYet
<1>2. ~TailRetTarget(code)
  BY DEF TailRetTarget, TailRetIsTarget
<1>3. CASE running
  BY <1>1, <1>2, <1>3 DEF UnderWatch, Sees
<1>4. CASE ~running
  BY <1>4 DEF MethodInv, Idle, Run!Pending
<1> QED BY <1>3, <1>4

\* What is put before the branch target of the single return, or before the only return, is executed once by every
\* call that returns, and not by one that ends in a tail call or an exception: for method bodies of any length with any
\* jumps and returns, however often the single return is applied, unless a jump leads to the return of a tail call.
THEOREM ReturnsAreSeen == Spec => []EveryReturnSeen
<1>1. MethodInv /\ [Next]_vars => MethodInv'
  BY NextMethodInv
<1> QED BY <1>1, InitMethodInv, SeenFollows, PTL DEF Spec

-----------------------------------------------------------------------------
(* The depths the compiler has seen to. *)

DepthAfter(i) == depths[i] + GetStackImpact(code[i].op, depths[i])
DepthFits(i) ==
    /\ DepthAfter(i) \in 0 .. MaxDepth
    /\ code[i].op = "ret" => DepthAfter(i) = 0
    /\ i + 1 <= Len(code) /\ FallsThrough(code[i].op) => depths[i + 1] = DepthAfter(i)
    /\ \A j \in 1 .. Len(code) : Il(j) \in code[i].to => depths[j] = DepthAfter(i)
    /\ Il(i) = HandlerFirst => depths[i] = 1
    /\ i = 1 => depths[i] = 0
DepthsOK ==
    /\ depths \in Seq(Nat) /\ Len(depths) = Len(code)
    /\ \A i \in 1 .. Len(code) : DepthFits(i)

\* The depth at the next position agrees with what leads there.
LEMMA EntryFits ==
    ASSUME CodeOK, DepthsOK, NEW i, i = Len(code) + 1, NEW depth \in EntryDepths(i)
    PROVE  /\ depth \in Nat
           /\ \A j \in 1 .. Len(code) : Il(i) \in code[j].to \/ (j = i - 1 /\ FallsThrough(code[j].op)) => depth = DepthAfter(j)
           /\ Il(i) = HandlerFirst => depth = 1
           /\ i = 1 => depth = 0
<1> DEFINE S == Arriving(i)
<1>0. code \in Seq(Instrs) /\ DOMAIN code = 1 .. Len(code) /\ Len(code) \in Nat /\ MaxDepth \in Nat
  BY BoundsAssumption DEF CodeOK
<1>1. S = {DepthAfter(j) : j \in {j \in 1 .. Len(code) : Il(i) \in code[j].to \/ (j = i - 1 /\ FallsThrough(code[j].op))}}
  BY <1>0 DEF Arriving, DepthAfter
<1>2. \A j \in 1 .. Len(code) : Il(i) \in code[j].to \/ (j = i - 1 /\ FallsThrough(code[j].op)) => DepthAfter(j) \in S
  BY <1>1
<1>3. \A j \in 1 .. Len(code) : DepthAfter(j) \in 0 .. MaxDepth
  BY DEF DepthsOK, DepthFits
<1>4. S \subseteq 0 .. MaxDepth
  BY <1>1, <1>3
<1> HIDE DEF S
<1>5. IsFiniteSet(S)
  <2>1. IsFiniteSet(0 .. MaxDepth)
    BY <1>0, FS_Interval
  <2> QED BY <1>4, <2>1, FS_Subset
<1>6. Cardinality(S) = 1 => \E x : S = {x}
  BY <1>5, FS_Singleton
<1>7. /\ Il(i) = HandlerFirst => S = {} /\ depth = 1
      /\ Il(i) # HandlerFirst /\ S = {} => depth = 0
      /\ Il(i) # HandlerFirst /\ S # {} => Cardinality(S) = 1 /\ depth \in S
  BY DEF EntryDepths, S
<1>8. \A x \in S : x = depth
  BY <1>6, <1>7
<1>9. depth \in Nat
  <2>1. depth = 1 \/ depth = 0 \/ depth \in 0 .. MaxDepth
    BY <1>4, <1>7
  <2> QED BY <1>0, <2>1
<1>10. ASSUME i = 1 PROVE depth = 0
  <2>1. 1 .. Len(code) = {}
    BY <1>0, <1>10
  <2>2. S = {}
    BY <1>1, <2>1
  <2>3. Il(i) # HandlerFirst
    <3>1. shape.tryEnd \in Nat
      BY ShapeFacts DEF CodeOK
    <3>2. ASSUME Il(i) = HandlerFirst PROVE FALSE
      <4>1. CASE shape.tryEnd > 0
        <5>1. Il(1) = Il(shape.tryEnd + 1)
          BY <1>10, <3>2, <4>1 DEF HandlerFirst
        <5>2. 1 = shape.tryEnd + 1
          BY <5>1, NamesDiffer
        <5> QED BY <3>1, <4>1, <5>2
      <4>2. CASE ~(shape.tryEnd > 0)
        <5>1. Il(1) = Null
          BY <1>10, <3>2, <4>2 DEF HandlerFirst
        <5>2. Il(1) \in InstrIds
          BY DEF Il, InstrIds
        <5> QED BY <5>1, <5>2, NullAssumption DEF InstrIds
      <4> QED BY <4>1, <4>2
    <3> QED BY <3>2
  <2> QED BY <1>7, <2>2, <2>3
<1> QED BY <1>2, <1>7, <1>8, <1>9, <1>10

\* Each instruction the compiler adds agrees with the depths so far.
LEMMA DecodeDepths ==
    ASSUME CodeOK, DepthsOK, NEW op \in shape.ops, NEW to \in SUBSET shape.targets, Decode(op, to)
    PROVE  DepthsOK'
<1>20. PICK n, i : n = Len(code) /\ i = n + 1
  OBVIOUS
<1> DEFINE jumps == {Il(t) : t \in to}
           ins == Instruction(Il(i), op, jumps)
<1>1. code \in Seq(Instrs) /\ n \in Nat /\ depths \in Seq(Nat) /\ Len(depths) = n /\ MaxDepth \in Nat
  BY <1>20, BoundsAssumption DEF CodeOK, DepthsOK
<1>2. code' = Append(code, ins) /\ UNCHANGED shape
  BY <1>20 DEF Decode
<1>3. PICK depth \in EntryDepths(i) : InstructionFits(i, op, to, depth) /\ depths' = Append(depths, depth)
  BY <1>20 DEF Decode
<1>4. ins.op = op /\ ins.to = jumps
  BY DEF Instruction
<1>5. to \subseteq Nat
  BY ShapeFacts DEF CodeOK
<1>6. /\ depth \in Nat
      /\ \A j \in 1 .. n : Il(i) \in code[j].to \/ (j = i - 1 /\ FallsThrough(code[j].op)) => depth = DepthAfter(j)
      /\ Il(i) = HandlerFirst => depth = 1
      /\ i = 1 => depth = 0
  BY <1>20, EntryFits
<1> DEFINE after == depth + GetStackImpact(op, depth)
<1>7. after \in 0 .. MaxDepth /\ (op = "ret" => after = 0) /\ \A t \in to : JumpFits(i, op, t, depth, after)
  BY <1>3 DEF InstructionFits
<1>8. \A t \in to : t <= i => after = Append(depths, depth)[t]
  BY <1>7 DEF JumpFits
<1>9. \A t : Il(t) \in jumps <=> t \in to
  BY NamesDiffer
<1> HIDE DEF jumps, ins
<1>10. /\ Len(code') = i /\ code'[i] = ins
       /\ \A k \in 1 .. n : code'[k] = code[k]
  BY <1>1, <1>2, <1>20
<1>11. /\ depths' \in Seq(Nat) /\ Len(depths') = i /\ depths'[i] = depth
       /\ \A k \in 1 .. n : depths'[k] = depths[k]
  BY <1>1, <1>3, <1>6, <1>20
<1>12. \A d, o : GetStackImpact(o, d)' = GetStackImpact(o, d)
  BY <1>2 DEF GetStackImpact, RetImpact
<1>13. HandlerFirst' = HandlerFirst
  BY <1>2 DEF HandlerFirst
<1>14. \A k \in 1 .. n : DepthAfter(k)' = DepthAfter(k)
  BY <1>10, <1>11, <1>12 DEF DepthAfter
<1>15. DepthAfter(i)' = after
  BY <1>4, <1>10, <1>11, <1>12 DEF DepthAfter
<1> HIDE DEF after
<1>16. ASSUME NEW k \in 1 .. i PROVE DepthFits(k)'
  <2>1. CASE k = i
    <3>1. ASSUME NEW j \in 1 .. i, Il(j) \in jumps PROVE depths'[j] = after
      <4>1. j \in to /\ j <= i
        BY <1>1, <1>9, <1>20, <3>1
      <4>2. after = Append(depths, depth)[j]
        BY <1>8, <4>1
      <4> QED BY <1>3, <4>2
    <3>2. ~(i + 1 <= Len(code'))
      BY <1>1, <1>10, <1>20
    <3>3. DepthAfter(i)' \in 0 .. MaxDepth /\ (code'[i].op = "ret" => DepthAfter(i)' = 0)
      BY <1>4, <1>7, <1>10, <1>15
    <3>4. \A j \in 1 .. Len(code') : Il(j) \in code'[i].to => depths'[j] = DepthAfter(i)'
      BY <1>4, <1>10, <1>15, <3>1
    <3> QED BY <1>6, <1>11, <1>13, <2>1, <3>2, <3>3, <3>4 DEF DepthFits
  <2>2. CASE k # i
    <3>1. k \in 1 .. n
      BY <1>1, <2>2, <1>20
    <3>2. DepthFits(k)
      BY <1>20, <3>1 DEF DepthsOK
    <3>3. code'[k] = code[k] /\ depths'[k] = depths[k] /\ DepthAfter(k)' = DepthAfter(k)
      BY <1>10, <1>11, <1>14, <3>1
    <3>4. ASSUME FallsThrough(code[k].op) PROVE depths'[k + 1] = DepthAfter(k)
      <4>1. CASE k = n
        <5>1. k = i - 1 /\ k + 1 = i
          BY <1>1, <4>1, <1>20
        <5> QED BY <1>6, <1>11, <3>1, <3>4, <5>1
      <4>2. CASE k # n
        <5>1. k + 1 \in 1 .. n /\ k + 1 <= Len(code)
          BY <1>1, <3>1, <4>2, <1>20
        <5> QED BY <1>11, <3>2, <3>4, <5>1 DEF DepthFits
      <4> QED BY <4>1, <4>2
    <3>5. ASSUME NEW j \in 1 .. i, Il(j) \in code[k].to PROVE depths'[j] = DepthAfter(k)
      <4>1. CASE j = i
        BY <1>6, <1>11, <3>1, <3>5, <4>1
      <4>2. CASE j # i
        <5>1. j \in 1 .. n
          BY <1>1, <4>2, <1>20
        <5> QED BY <1>11, <1>20, <3>2, <3>5, <5>1 DEF DepthFits
      <4> QED BY <4>1, <4>2
    <3>6. /\ DepthAfter(k) \in 0 .. MaxDepth
          /\ code[k].op = "ret" => DepthAfter(k) = 0
          /\ Il(k) = HandlerFirst => depths[k] = 1
          /\ k = 1 => depths[k] = 0
      BY <3>2 DEF DepthFits
    <3>7. \A j \in 1 .. Len(code') : Il(j) \in code'[k].to => depths'[j] = DepthAfter(k)'
      BY <1>10, <3>3, <3>5
    <3> QED BY <1>13, <3>3, <3>4, <3>6, <3>7 DEF DepthFits
  <2> QED BY <2>1, <2>2
<1> QED BY <1>10, <1>11, <1>16 DEF DepthsOK

-----------------------------------------------------------------------------
(* The method that runs does what the original does. *)

\* Who comes to x gets to y, past the probe at most.
Leads(g, x, y) ==
    \/ x = y
    \/ x = Probe(NewRet) /\ \E k \in 1 .. Len(g) : g[k].id = x /\ k + 1 <= Len(g) /\ g[k + 1].id = y
ExitAt(st, g, k) ==
    /\ g[k].id = NewRet => g[k].op = "ret"
    /\ st /\ g[k].id = NewLdloc => g[k].op = "ldloc" /\ k + 1 <= Len(g) /\ Leads(g, g[k + 1].id, NewRet)
    /\ g[k].id = Probe(NewRet) => g[k].op = "probe"
ProbeAt(c, g, k) ==
    \A i \in 1 .. Len(c) : g[k].id = Probe(Il(i)) => g[k].op = "probe" /\ k + 1 <= Len(g) /\ g[k + 1].id = Il(i)
TailAt(c, g, k) == g[k].op = "tail" => g[k].id \in Originals(c)
WellLed(c, st, g) == \A k \in 1 .. Len(g) : ExitAt(st, g, k) /\ ProbeAt(c, g, k) /\ TailAt(c, g, k)

Follows(c, st, g) ==
    /\ Kept(c, g) /\ WellLed(c, st, g)
    /\ \E X : Mirrors(c, st, {}, X, g) /\ \A x \in X : Leads(g, x, Exit(st))

\* The original method itself, and with a new return that nothing leads to.
LEMMA ItselfFollows ==
    ASSUME NEW c, Numbered(c), Len(c) > 0, NEW st, NEW h, Kept(c, h), Len(c) <= Len(h), \A k \in 1 .. Len(c) : h[k] = c[k],
           \A k \in 1 .. Len(h) : k \in 1 .. Len(c) \/ (h[k].id = NewRet /\ h[k].op = "ret")
    PROVE  Follows(c, st, h)
<1>1. Len(h) \in Nat
  BY DEF Kept
<1>2. Mirrors(c, st, {}, {}, h)
  BY <1>1, MirrorsItself
<1>3. ASSUME NEW k \in 1 .. Len(h) PROVE ExitAt(st, h, k) /\ ProbeAt(c, h, k) /\ TailAt(c, h, k)
  <2>1. CASE k \in 1 .. Len(c)
    <3>1. h[k].id = Il(k)
      BY <2>1 DEF Numbered
    <3>2. h[k].id \notin {NewRet, NewLdloc, Probe(NewRet)} /\ \A i : h[k].id # Probe(Il(i))
      BY <3>1, NamesDiffer
    <3>3. h[k].id \in Originals(c)
      BY <2>1, <3>1 DEF Originals
    <3> QED BY <3>2, <3>3 DEF ExitAt, ProbeAt, TailAt
  <2>2. CASE h[k].id = NewRet /\ h[k].op = "ret"
    <3>1. h[k].id \notin {NewLdloc, Probe(NewRet)} /\ \A i : h[k].id # Probe(Il(i))
      BY <2>2, NamesDiffer
    <3> QED BY <2>2, <3>1 DEF ExitAt, ProbeAt, TailAt
  <2> QED BY <2>1, <2>2
<1> QED BY <1>2, <1>3 DEF Follows, WellLed

\* The two ways in which the single return leaves the original instructions alone.
LEMMA PlainFollows ==
    ASSUME NEW c, Numbered(c), Len(c) > 0, NEW st
    PROVE  Follows(c, st, c) /\ Follows(c, st, WithNewRet(c))
<1>1. Kept(c, c) /\ Len(c) \in Nat
  BY OriginalFacts DEF Numbered
<1>2. Follows(c, st, c)
  BY <1>1, ItselfFollows
<1> DEFINE h == WithNewRet(c)
<1>3. /\ Kept(c, h) /\ Len(h) = Len(c) + 1
      /\ h[Len(c) + 1] = Instruction(NewRet, "ret", {})
      /\ \A k \in 1 .. Len(c) : h[k] = c[k]
  BY NewRetFacts
<1> HIDE DEF h
<1>4. h[Len(c) + 1].id = NewRet /\ h[Len(c) + 1].op = "ret"
  BY <1>3 DEF Instruction
<1>5. \A k \in 1 .. Len(h) : k \in 1 .. Len(c) \/ k = Len(c) + 1
  BY <1>1, <1>3
<1>6. Len(c) <= Len(h)
  BY <1>1, <1>3
<1>7. Follows(c, st, h)
  BY <1>3, <1>4, <1>5, <1>6, ItselfFollows
<1> QED BY <1>2, <1>7 DEF h

\* The method with the single return.
LEMMA SingleFollows ==
    ASSUME NEW c \in Seq(Instrs), NEW st, NEW g, Going(c, st, {}, Originals(c), g), Mirrors(c, st, {}, {Exit(st)}, g)
    PROVE  Follows(c, st, g)
<1>1. Kept(c, g) /\ IdsOf(g) \subseteq IdNames(c, Originals(c)) /\ NewOnesAre(g) /\ LoadLeads(st, g) /\ NewRet \in IdsOf(g)
  BY DEF Going
<1>2. g \in Seq(Instrs) /\ Distinct(g) /\ Len(g) \in Nat /\ g[1].id \notin {NewRet, NewLdloc}
  BY DEF Going, Kept
<1>3. Probe(NewRet) \notin IdsOf(g) /\ \A i : Probe(Il(i)) \notin IdsOf(g)
  <2>1. \A i : Probe(Il(i)) \notin IdNames(c, Originals(c))
    BY NamesDiffer DEF IdNames, Originals
  <2>2. Probe(NewRet) \notin IdNames(c, Originals(c))
    BY NamesDiffer DEF IdNames, Originals
  <2> QED BY <1>1, <2>1, <2>2
<1>4. ASSUME NEW k \in 1 .. Len(g) PROVE ExitAt(st, g, k) /\ ProbeAt(c, g, k) /\ TailAt(c, g, k)
  <2>1. g[k].id \in IdsOf(g)
    BY DEF IdsOf
  <2>2. ProbeAt(c, g, k)
    BY <1>3, <2>1 DEF ProbeAt
  <2>3. ASSUME st, g[k].id = NewLdloc PROVE k + 1 <= Len(g) /\ g[k + 1].id = NewRet
    <3>1. PICK q \in 1 .. Len(g) : g[q].id = NewRet
      BY <1>1 DEF IdsOf
    <3>2. q # 1
      BY <1>2, <3>1
    <3>3. q - 1 \in 1 .. Len(g) /\ q - 1 + 1 = q /\ q <= Len(g)
      BY <1>2, <3>2
    <3>4. g[q - 1].id = NewLdloc
      BY <1>1, <2>3, <3>1, <3>3 DEF LoadLeads
    <3>5. k = q - 1
      BY <1>2, <2>3, <3>3, <3>4 DEF Distinct
    <3> QED BY <3>1, <3>3, <3>5
  <2>4. ExitAt(st, g, k)
    BY <1>1, <1>3, <2>1, <2>3 DEF ExitAt, NewOnesAre, Leads
  <2>5. TailAt(c, g, k)
    <3> SUFFICES ASSUME g[k].op = "tail", g[k].id \notin Originals(c) PROVE FALSE
      BY DEF TailAt
    <3>1. g[k].id \in IdNames(c, Originals(c))
      BY <1>1, <2>1
    <3>2. g[k].id \notin {NewRet, NewLdloc}
      BY <1>1 DEF NewOnesAre
    <3>3. PICK i \in 1 .. Len(c) : g[k].id = Br(Il(i)) \/ g[k].id = Stloc(Il(i))
      BY <3>1, <3>2 DEF IdNames, Originals
    <3>4. MirrorsAt(c, st, {}, {Exit(st)}, g, k)
      BY DEF Mirrors
    <3>5. AsBranch(c, {Exit(st)}, g, k, i) \/ AsStore(c, st, g, k, i)
      BY <3>3, <3>4 DEF MirrorsAt
    <3> QED BY <3>5 DEF AsBranch, AsStore
  <2> QED BY <2>2, <2>4, <2>5
<1>5. \A x \in {Exit(st)} : Leads(g, x, Exit(st))
  BY DEF Leads
<1> QED BY <1>1, <1>4, <1>5 DEF Follows, WellLed

\* A probe before an instruction of the method.
LEMMA ProbedFollows ==
    ASSUME NEW c, NEW st, NEW X, NEW g, NEW p, NEW h, WellLed(c, st, g), Distinct(g), \A k \in 1 .. Len(g) : g[k].op # "probe",
           Insertion(g, p, ProbeFor(g[p].id), h), Kept(c, h), Mirrors(c, st, {}, X, h), \A x \in X : Leads(h, x, Exit(st)),
           g[p].id \in {NewRet, NewLdloc} \/ \E i : g[p].id = Il(i)
    PROVE  Follows(c, st, h)
<1> DEFINE ins == ProbeFor(g[p].id)
<1>1. Shifted(g, p, ins, h) /\ p \in 1 .. Len(g) /\ ins.id = Probe(g[p].id) /\ ins.op = "probe"
  BY InsertionFacts DEF Insertion, ProbeFor, Instruction
<1>2. h[p] = ins /\ p + 1 = Up(p, p) /\ h[p + 1].id = g[p].id /\ p + 1 <= Len(h) /\ p \in 1 .. Len(h)
  <2>1. h[p] = ins /\ p + 1 = Up(p, p) /\ h[Up(p, p)].id = g[p].id /\ Len(h) = Len(g) + 1 /\ Len(g) \in Nat /\ p \in 1 .. Len(h)
    BY <1>1 DEF Shifted
  <2> QED BY <1>1, <2>1
<1>3. \A k \in 1 .. Len(g) : g[k].id # Probe(NewRet) /\ \A i \in 1 .. Len(c) : g[k].id # Probe(Il(i))
  BY DEF WellLed, ExitAt, ProbeAt
<1>4. ASSUME NEW k \in 1 .. Len(g), NEW j, j = Up(p, k) PROVE ExitAt(st, h, j) /\ ProbeAt(c, h, j) /\ TailAt(c, h, j)
  <2>1. Carried(g, k, g[p].id, ins.id, h, j)
    BY <1>4, InsertCarries
  <2> HIDE DEF ins
  <2>2. /\ h[j].id = g[k].id /\ h[j].op = g[k].op
        /\ k + 1 <= Len(g) => j + 1 <= Len(h) /\ h[j + 1].id = Sub(g[p].id, ins.id, g[k + 1].id)
    BY <2>1 DEF Carried
  <2>3. ExitAt(st, g, k) /\ TailAt(c, g, k)
    BY DEF WellLed
  <2>4. ASSUME st, g[k].id = NewLdloc PROVE j + 1 <= Len(h) /\ Leads(h, h[j + 1].id, NewRet)
    <3>1. k + 1 <= Len(g) /\ Leads(g, g[k + 1].id, NewRet)
      BY <2>3, <2>4 DEF ExitAt
    <3>2. g[k + 1].id = NewRet
      BY <1>3, <3>1 DEF Leads
    <3>3. CASE g[p].id = NewRet
      <4>1. h[j + 1].id = Probe(NewRet) /\ h[p].id = Probe(NewRet) /\ h[p + 1].id = NewRet
        BY <1>1, <1>2, <2>2, <3>1, <3>2, <3>3 DEF Sub
      <4> QED BY <1>2, <2>2, <3>1, <4>1 DEF Leads
    <3>4. CASE g[p].id # NewRet
      BY <2>2, <3>1, <3>2, <3>4 DEF Sub, Leads
    <3> QED BY <3>3, <3>4
  <2>5. ExitAt(st, h, j)
    BY <1>3, <2>2, <2>3, <2>4 DEF ExitAt
  <2>6. ProbeAt(c, h, j)
    BY <1>3, <2>2 DEF ProbeAt
  <2>7. TailAt(c, h, j)
    BY <2>2, <2>3 DEF TailAt
  <2> QED BY <2>5, <2>6, <2>7
<1>5. ExitAt(st, h, p) /\ ProbeAt(c, h, p) /\ TailAt(c, h, p)
  <2>1. h[p].id = Probe(g[p].id) /\ h[p].op = "probe"
    BY <1>1, <1>2
  <2>2. h[p].id # NewRet /\ h[p].id # NewLdloc
    BY <2>1, NamesDiffer
  <2>3. ASSUME NEW i \in 1 .. Len(c), h[p].id = Probe(Il(i)) PROVE h[p + 1].id = Il(i)
    <3>1. CASE g[p].id \in {NewRet, NewLdloc}
      <4>1. Probe(NewRet) = Probe(Il(i))
        BY <2>1, <2>3, <3>1, NamesDiffer
      <4>2. i = 0
        BY <4>1 DEF Probe, Il, NewRet
      <4> QED BY <4>2
    <3>2. CASE \E l : g[p].id = Il(l)
      BY <1>2, <2>1, <2>3, <3>2, NamesDiffer
    <3> QED BY <3>1, <3>2
  <2> QED BY <1>2, <2>1, <2>2, <2>3 DEF ExitAt, ProbeAt, TailAt
<1>6. ASSUME NEW j \in 1 .. Len(h) PROVE ExitAt(st, h, j) /\ ProbeAt(c, h, j) /\ TailAt(c, h, j)
  <2>1. j = p \/ \E k \in 1 .. Len(g) : j = Up(p, k)
    BY <1>1 DEF Shifted
  <2> QED BY <1>4, <1>5, <2>1
<1> QED BY <1>6 DEF Follows, WellLed

\* The probe before the only return of the original method.
LEMMA PlainProbed ==
    ASSUME NEW c, Numbered(c), Len(c) > 0, NEW st, NEW p \in Replaceables(c), NEW h,
           Insertion(c, p, ProbeFor(c[p].id), h), Kept(c, h)
    PROVE  Follows(c, st, h)
<1> DEFINE ins == ProbeFor(c[p].id)
<1>1. Follows(c, st, c) /\ Kept(c, c) /\ Len(c) \in Nat
  BY PlainFollows, OriginalFacts DEF Numbered
<1>2. p \in 1 .. Len(c) /\ c[p].id = Il(p) /\ ins.id = Probe(Il(p))
  <2>1. p \in 1 .. Len(c)
    BY DEF Insertion
  <2> QED BY <2>1 DEF Numbered, ProbeFor, Instruction
<1>3. Mirrors(c, st, {}, {}, c)
  BY <1>1, MirrorsItself
<1>4. Transfers(c, st, {}, {}, Il(p), Probe(Il(p)))
  <2> SUFFICES ASSUME NEW y, NEW i, Stands(c, st, {}, y, i) PROVE Stands(c, st, {}, Sub(Il(p), Probe(Il(p)), y), i)
    BY DEF Transfers
  <2>1. CASE y = Il(p)
    <3>1. i = p
      BY <2>1, NamesDiffer DEF Stands
    <3> QED BY <2>1, <3>1 DEF Stands, Sub
  <2>2. CASE y # Il(p)
    BY <2>2 DEF Stands, Sub
  <2> QED BY <2>1, <2>2
<1>5. h[p].id = Probe(Il(p))
  <2>1. Shifted(c, p, ins, h)
    BY InsertionFacts
  <2> QED BY <1>2, <2>1 DEF Shifted
<1>6. MirrorsAt(c, st, {}, {}, h, p)
  BY <1>5, NamesDiffer DEF MirrorsAt
<1>7. Distinct(c) /\ WellLed(c, st, c)
  BY <1>1 DEF Follows, Kept
<1>8. Insertion(c, p, ins, h) /\ Transfers(c, st, {}, {}, c[p].id, ins.id) /\ SubAll(c[p].id, ins.id, {}) \subseteq {}
  BY <1>2, <1>4 DEF SubAll
<1>9. \A k \in 1 .. Len(c), i \in 1 .. Len(c) : c[k].id = Stloc(Il(i)) => c[p].id # Br(Il(i))
  BY <1>2, NamesDiffer
<1> HIDE DEF ins
<1>10. Mirrors(c, st, {}, {}, h)
  BY <1>3, <1>6, <1>7, <1>8, <1>9, MirrorsInserted
<1>11. \A k \in 1 .. Len(c) : c[k].op # "probe"
  BY DEF Numbered, Ops
<1>12. \A x \in {} : Leads(h, x, Exit(st))
  OBVIOUS
<1> QED BY <1>2, <1>7, <1>8, <1>10, <1>11, <1>12, ProbedFollows DEF ins

\* The probe on the way out of the single return.
LEMMA SingleProbed ==
    ASSUME NEW c \in Seq(Instrs), NEW st, NEW g, Follows(c, st, g), \A k \in 1 .. Len(g) : g[k].op # "probe",
           NEW p, g[p].id \in {NewRet, NewLdloc}, NEW h, Insertion(g, p, ProbeFor(g[p].id), h), Kept(c, h)
    PROVE  Follows(c, st, h)
<1> DEFINE ins == ProbeFor(g[p].id)
<1>1. Distinct(g) /\ WellLed(c, st, g) /\ p \in 1 .. Len(g)
  BY DEF Follows, Kept, Insertion
<1>2. PICK X : Mirrors(c, st, {}, X, g) /\ \A x \in X : Leads(g, x, Exit(st))
  BY DEF Follows
<1>3. ins.id = Probe(NewRet)
  BY NamesDiffer DEF ProbeFor, Instruction
<1>4. \A x \in X : x = Exit(st)
  <2>1. \A k \in 1 .. Len(g) : g[k].id # Probe(NewRet)
    BY <1>1 DEF WellLed, ExitAt
  <2> QED BY <1>2, <2>1 DEF Leads
<1> DEFINE X2 == SubAll(g[p].id, ins.id, X)
<1>5. Shifted(g, p, ins, h)
  BY InsertionFacts
<1>6. h[p].id = Probe(NewRet) /\ h[p + 1].id = g[p].id /\ p + 1 <= Len(h) /\ p \in 1 .. Len(h)
  <2>1. h[p] = ins /\ p + 1 = Up(p, p) /\ h[Up(p, p)].id = g[p].id /\ Len(h) = Len(g) + 1 /\ Len(g) \in Nat /\ p \in 1 .. Len(h)
    BY <1>1, <1>5 DEF Shifted
  <2> QED BY <1>1, <1>3, <2>1
<1>7. Insertion(g, p, ins, h)
  OBVIOUS
<1> HIDE DEF ins
<1>8. ASSUME NEW x \in X2 PROVE Leads(h, x, Exit(st))
  <2>1. x = Sub(g[p].id, ins.id, Exit(st))
    BY <1>4, <1>8 DEF SubAll
  <2>2. CASE g[p].id = Exit(st)
    BY <1>3, <1>6, <2>1, <2>2 DEF Sub, Leads
  <2>3. CASE g[p].id # Exit(st)
    BY <2>1, <2>3 DEF Sub, Leads
  <2> QED BY <2>2, <2>3
<1>9. Transfers(c, st, {}, {}, g[p].id, ins.id)
  BY NamesDiffer DEF Transfers, Stands, Sub
<1>10. MirrorsAt(c, st, {}, X2, h, p)
  BY <1>6, NamesDiffer DEF MirrorsAt
<1>11. \A k \in 1 .. Len(g), i \in 1 .. Len(c) : g[k].id = Stloc(Il(i)) => g[p].id # Br(Il(i))
  BY NamesDiffer
<1>12. SubAll(g[p].id, ins.id, X) \subseteq X2
  OBVIOUS
<1> HIDE DEF X2
<1>13. Mirrors(c, st, {}, X2, h)
  BY <1>1, <1>2, <1>7, <1>9, <1>10, <1>11, <1>12, MirrorsInserted
<1> QED BY <1>1, <1>7, <1>8, <1>13, ProbedFollows DEF ins

-----------------------------------------------------------------------------
(* The edits keep what the method does. *)

FollowsOK == Plain \/ Follows(code, StoresRetVal, graph)

\* What follows from the invariant once the method is complete.
LEMMA CompleteFollows ==
    ASSUME CodeOK, FollowsOK, Complete
    PROVE  Follows(code, StoresRetVal, graph)
  BY CompleteIsNumbered, PlainFollows DEF FollowsOK, Plain

\* ApplySingleRetDefaultInstrumentation makes a method that follows the original.
LEMMA ApplyFollows ==
    ASSUME MethodInv, FollowsOK, ApplySingleRetDefaultInstrumentation
    PROVE  FollowsOK'
<1> DEFINE rets == GetReplaceableRets(graph)
<1>1. Complete /\ ~HalfApplied /\ UNCHANGED <<shape, code>> /\ CodeOK
  BY DEF ApplySingleRetDefaultInstrumentation, Complete, genVars, MethodInv
<1>2. StoresRetVal' = StoresRetVal
  BY <1>1 DEF StoresRetVal
<1>3. CASE target' = Null /\ graph' = graph
  BY <1>1, <1>2, <1>3 DEF FollowsOK, Plain
<1>4. CASE Len(rets) > 1
  <2>1. graph = code
    BY <1>1, <1>4, ManyRetsPlain DEF Plain
  <2>2. Numbered(code) /\ Len(code) > 0 /\ code \in Seq(Instrs)
    BY <1>1, CompleteIsNumbered DEF CodeOK
  <2>3. CASE graph' = WithSingleRet(graph, rets)
    <3>1. RetsOf(code, Len(code), rets)
      <4>1. Distinct(code)
        BY <2>2, OriginalFacts DEF Kept
      <4> QED BY <2>1, <2>2, <4>1, RetsAre
    <3> HIDE DEF rets
    <3>2. /\ Going(code, StoresRetVal, {}, Originals(code), WithSingleRet(code, rets))
          /\ Mirrors(code, StoresRetVal, {}, {Exit(StoresRetVal)}, WithSingleRet(code, rets))
      BY <2>2, <3>1, SingleIsMade
    <3>3. Follows(code, StoresRetVal, WithSingleRet(code, rets))
      BY <2>2, <3>2, SingleFollows
    <3> QED BY <1>1, <1>2, <2>1, <2>3, <3>3 DEF FollowsOK
  <2>4. CASE graph' = WithNewRet(graph)
    <3>1. Follows(code, StoresRetVal, WithNewRet(code))
      BY <2>2, PlainFollows
    <3> QED BY <1>1, <1>2, <2>1, <2>4, <3>1 DEF FollowsOK
  <2>5. (target' = Null /\ graph' = graph) \/ graph' = WithSingleRet(graph, rets) \/ graph' = WithNewRet(graph)
    BY DEF ApplySingleRetDefaultInstrumentation
  <2> QED BY <1>3, <2>3, <2>4, <2>5
<1>5. (target' = Null /\ graph' = graph) \/ Len(rets) > 1
  BY DEF ApplySingleRetDefaultInstrumentation
<1> QED BY <1>3, <1>4, <1>5

\* A probe does not lead astray.
LEMMA InsertProbeFollows ==
    ASSUME MethodInv, FollowsOK, InsertProbe
    PROVE  FollowsOK'
<1>1. /\ applied > 0 /\ (\A i \in DOMAIN graph : graph[i].op # "probe") /\ UNCHANGED <<shape, code>>
  BY DEF InsertProbe, genVars
<1>2. Complete /\ CodeOK
  BY <1>1 DEF MethodInv, AppliedLate
<1>3. PICK A, p : ProbedAt(A, p)
  BY ProbePlace
<1>4. Numbered(code) /\ Len(code) > 0 /\ code \in Seq(Instrs) /\ Follows(code, StoresRetVal, graph)
  BY <1>2, CompleteIsNumbered, CompleteFollows DEF CodeOK
<1> DEFINE ins == ProbeFor(graph[p].id)
           h == InsertBeforeAndRetargetOffsets(graph, graph[p].id, ins)
<1>5. graph' = h /\ Kept(code, graph) /\ Entered(code, A, graph, p)
  BY <1>3 DEF ProbedAt
<1>6. Kept(code, h)
  <2>1. Watched(code, A, h)
    BY <1>3, <1>4, ProbeWatches DEF ProbedAt
  <2> QED BY <2>1 DEF Watched
<1>7. Insertion(graph, p, ins, h)
  <2>1. graph \in Seq(Instrs) /\ Distinct(graph) /\ p \in 1 .. Len(graph)
    BY <1>5 DEF Kept, Entered
  <2>2. graph[p].id \in InstrIds
    <3>1. graph[p] \in Instrs
      BY <2>1
    <3> QED BY <3>1 DEF Instrs
  <2>3. Probe(graph[p].id) \in InstrIds
    BY <2>2 DEF Probe, InstrIds
  <2>4. ins \in Instrs /\ ins.to = {}
    BY <2>3 DEF ProbeFor, Instruction, Instrs, NewOps
  <2> HIDE DEF ins
  <2>5. Place(graph, p, ins)
    BY <2>1, <2>4 DEF Place
  <2>6. Inserted(graph, p, ins, h)
    BY <2>5, InsertIs
  <2> QED BY <2>1, <2>4, <2>6 DEF Insertion
<1> HIDE DEF h
<1>8. Follows(code, StoresRetVal, h)
  <2>1. CASE Plain /\ p \in Replaceables(code)
    <3>1. graph = code
      BY <2>1 DEF Plain
    <3> QED BY <1>4, <1>6, <1>7, <2>1, <3>1, PlainProbed
  <2>2. CASE graph[p].id \in {NewRet, NewLdloc}
    <3>1. \A k \in 1 .. Len(graph) : graph[k].op # "probe"
      <4>1. DOMAIN graph = 1 .. Len(graph)
        BY <1>5 DEF Kept
      <4> QED BY <1>1, <4>1
    <3> QED BY <1>4, <1>6, <1>7, <2>2, <3>1, SingleProbed
  <2> QED BY <1>3, <2>1, <2>2 DEF ProbedAt
<1>9. StoresRetVal' = StoresRetVal
  BY <1>1 DEF StoresRetVal
<1> QED BY <1>1, <1>5, <1>8, <1>9 DEF FollowsOK

\* Only the method matters.
LEMMA FollowsUnchanged ==
    ASSUME FollowsOK, UNCHANGED <<shape, code, graph, target>>
    PROVE  FollowsOK'
<1>1. StoresRetVal' = StoresRetVal
  BY DEF StoresRetVal
<1> QED BY <1>1 DEF FollowsOK, Plain

-----------------------------------------------------------------------------
(* The state of the original method. *)

Values == InstrIds \cup {Null}

\* What OriginalAt, OriginalStack and OriginalOutcome make of the state of the method that runs.
Out(t) == t # Null /\ IsNew(t)
MapAt(t) == IF t = Null \/ Out(t) THEN Null ELSE Il(t[2])
MapStack(st, t, s, l) == IF Out(t) THEN <<>> ELSE IF t # Null /\ t[1] = "br" /\ st THEN Append(s, l) ELSE s
MapValue(st, t, s, l) ==
    CASE t = NewRet -> IF s = <<>> THEN Null ELSE s[Len(s)]
      [] OTHER -> IF st THEN l ELSE IF s = <<>> THEN Null ELSE s[Len(s)]
MapOutcome(st, t, s, l, o) == IF Out(t) THEN [how |-> "returned", value |-> MapValue(st, t, s, l)] ELSE o

\* The mapping of the refinement in these terms.
LEMMA Mapped ==
    /\ OriginalAt = MapAt(at)
    /\ OriginalStack = MapStack(StoresRetVal, at, stack, slot)
    /\ OriginalOutcome = MapOutcome(StoresRetVal, at, stack, slot, outcome)
  BY DEF OriginalAt, OriginalStack, OriginalOutcome, Returning, RetVal, MapAt, MapStack, MapValue, MapOutcome, Out

\* The same after a step.
LEMMA MappedNext ==
    ASSUME UNCHANGED shape
    PROVE  /\ OriginalAt' = MapAt(at')
           /\ OriginalStack' = MapStack(StoresRetVal, at', stack', slot')
           /\ OriginalOutcome' = MapOutcome(StoresRetVal, at', stack', slot', outcome')
<1>1. StoresRetVal' = StoresRetVal
  BY DEF StoresRetVal
<1>2. OriginalAt' = MapAt(at')
  BY DEF OriginalAt, Returning, MapAt, Out, IsNew, Il
<1>3. OriginalStack' = MapStack(StoresRetVal, at', stack', slot')
  BY <1>1 DEF OriginalStack, Returning, MapStack, Out, IsNew
<1>4. RetVal' = MapValue(StoresRetVal, at', stack', slot')
  BY <1>1 DEF RetVal, MapValue, NewRet
<1>5. OriginalOutcome' = MapOutcome(StoresRetVal, at', stack', slot', outcome')
  BY <1>4 DEF OriginalOutcome, Returning, MapOutcome, Out, IsNew
<1> QED BY <1>2, <1>3, <1>5

\* Where the method that runs stands at an instruction of the original, the state is the same.
LEMMA StandingMaps ==
    ASSUME NEW c, Len(c) \in Nat, NEW st, NEW t, NEW i, Stands(c, st, {}, t, i), NEW s, NEW l, NEW o
    PROVE  t # Null /\ MapAt(t) = Il(i) /\ MapStack(st, t, s, l) = s /\ MapOutcome(st, t, s, l, o) = o
<1>1. i \in Nat /\ i # 0
  BY DEF Stands
<1>2. t = Il(i) \/ t = Probe(Il(i)) \/ t = Stloc(Il(i)) \/ (t = Br(Il(i)) /\ ~st)
  BY DEF Stands
<1>3. t \in InstrIds /\ t[2] = i /\ (t[1] = "br" => ~st)
  BY <1>1, <1>2 DEF Il, Probe, Stloc, Br, InstrIds
<1>4. t # Null
  BY <1>3, NullAssumption DEF InstrIds
<1>5. ~Out(t)
  BY <1>1, <1>3 DEF Out, IsNew
<1> QED BY <1>3, <1>4, <1>5 DEF MapAt, MapStack, MapOutcome

\* Where only the value is left to be returned.
LEMMA BranchMaps ==
    ASSUME NEW i \in Nat, i # 0, NEW st, NEW t, t = Br(Il(i)), NEW s, NEW l, NEW o
    PROVE  t # Null /\ MapAt(t) = Il(i) /\ MapStack(st, t, s, l) = (IF st THEN Append(s, l) ELSE s) /\ MapOutcome(st, t, s, l, o) = o
<1>1. t \in InstrIds /\ t[2] = i /\ t[1] = "br"
  BY DEF Il, Br, InstrIds
<1>2. t # Null
  BY <1>1, NullAssumption DEF InstrIds
<1>3. ~Out(t)
  BY <1>1 DEF Out, IsNew
<1> QED BY <1>1, <1>2, <1>3 DEF MapAt, MapStack, MapOutcome

\* Where the original has returned.
LEMMA OutMaps ==
    ASSUME NEW t \in {NewRet, NewLdloc, Probe(NewRet)}, NEW st, NEW s, NEW l, NEW o
    PROVE  /\ t # Null /\ MapAt(t) = Null /\ MapStack(st, t, s, l) = <<>>
           /\ MapOutcome(st, t, s, l, o) = [how |-> "returned", value |-> MapValue(st, t, s, l)]
<1>1. t \in InstrIds /\ t[2] = 0
  BY DEF NewRet, NewLdloc, Probe, InstrIds
<1>2. t # Null
  BY <1>1, NullAssumption DEF InstrIds
<1>3. Out(t)
  BY <1>1, <1>2 DEF Out, IsNew
<1> QED BY <1>2, <1>3 DEF MapAt, MapStack, MapOutcome

\* Where both are over, or have not started.
LEMMA OverMaps ==
    ASSUME NEW st, NEW s, NEW l, NEW o
    PROVE  MapAt(Null) = Null /\ MapStack(st, Null, s, l) = s /\ MapOutcome(st, Null, s, l, o) = o
  BY DEF MapAt, MapStack, MapOutcome, Out

-----------------------------------------------------------------------------
(* Where the method that runs is. *)

Reached(t, s, l) ==
    \/ \E i \in 1 .. Len(code) : Stands(code, StoresRetVal, {}, t, i) /\ Len(s) = depths[i]
    \/ StoresRetVal /\ \E i \in Replaceables(code) : t = Br(Il(i))
    \/ Leads(graph, t, Exit(StoresRetVal))
    \/ Leads(graph, t, NewRet) /\ (StoresRetVal => s # <<>> /\ s[Len(s)] = l)
RunOK ==
    /\ stack \in Seq(Values) /\ slot \in Values
    /\ ~running => at = Null /\ stack = <<>>
    /\ running => Complete
    /\ at # Null => at \in IdsOf(graph) /\ Reached(at, stack, slot)

ExecutesAt(k) ==
    k \in 1 .. Len(graph) /\ graph[k].id = at /\ Run!Execute(k) /\ Run!Following(graph[k].id) = FollowingAt(k)

\* The instruction that is executed has one place.
LEMMA PlaceFound ==
    ASSUME Kept(code, graph), Execute, at \in IdsOf(graph)
    PROVE  \E k : ExecutesAt(k)
<1>1. PICK k \in 1 .. Len(graph) : graph[k].id = at
  BY DEF IdsOf
<1>2. Index(graph, at) = k
  <2>1. graph \in Seq(Instrs) /\ Distinct(graph)
    BY DEF Kept
  <2> QED BY <1>1, <2>1, IndexFacts
<1>3. Run!Position(at) = k
  BY <1>2 DEF Run!Position, Index
<1>4. Run!Following(graph[k].id) = FollowingAt(k)
  BY <1>1, <1>3 DEF Run!Following, FollowingAt
<1>5. Run!Execute(k)
  BY <1>3 DEF Execute, Run!Step
<1> QED BY <1>1, <1>4, <1>5 DEF ExecutesAt

\* The method that runs is at the instruction i of the original.
Setting == CodeOK /\ Complete /\ DepthsOK /\ Follows(code, StoresRetVal, graph) /\ stack \in Seq(Values) /\ slot \in Values
OnOriginal(k, i) ==
    /\ Setting /\ ExecutesAt(k)
    /\ i \in 1 .. Len(code) /\ at = Il(i) /\ Len(stack) = depths[i]

\* What comes next in the original, and what leads to it.
Nexts(k, i) ==
    /\ graph[k].op = code[i].op /\ code[i].op \in Ops
    /\ DepthAfter(i) \in Nat /\ depths[i] \in Nat
    /\ FallsThrough(code[i].op) =>
         /\ k + 1 <= Len(graph) /\ i + 1 \in 1 .. Len(code) /\ depths[i + 1] = DepthAfter(i)
         /\ Stands(code, StoresRetVal, {}, FollowingAt(k), i + 1) /\ FollowingAt(k) = graph[k + 1].id /\ FollowingAt(k) \in IdsOf(graph)
    /\ \A t \in graph[k].to :
         t \in IdsOf(graph) /\ \E j \in 1 .. Len(code) : Il(j) \in code[i].to /\ Stands(code, StoresRetVal, {}, t, j) /\ depths[j] = DepthAfter(i)

\* An instruction of the original leads where the original leads.
LEMMA ItsNexts ==
    ASSUME NEW k \in 1 .. Len(graph), NEW i \in 1 .. Len(code), Setting, graph[k].id = Il(i)
    PROVE  Nexts(k, i)
<1>0. /\ Kept(code, graph) /\ CodeOK /\ DepthsOK /\ Numbered(code) /\ Len(code) \in Nat /\ MaxDepth \in Nat
      /\ graph \in Seq(Instrs) /\ TargetsKept(graph) /\ Len(graph) \in Nat
  BY CompleteIsNumbered, BoundsAssumption DEF Setting, Follows, Kept, Numbered
<1>1. PICK X : Mirrors(code, StoresRetVal, {}, X, graph)
  BY DEF Setting, Follows
<1>2. AsOriginal(code, StoresRetVal, {}, graph, k, i)
  BY <1>1 DEF Mirrors, MirrorsAt
<1>3. DepthFits(i)
  BY <1>0 DEF DepthsOK
<1>4. graph[k].op = code[i].op /\ code[i].op \in Ops
  BY <1>0, <1>2 DEF AsOriginal, Numbered
<1>5. DepthAfter(i) \in Nat /\ depths[i] \in Nat
  <2>1. depths \in Seq(Nat) /\ i \in 1 .. Len(depths)
    BY <1>0 DEF DepthsOK
  <2> QED BY <1>0, <1>3, <2>1 DEF DepthFits
<1>6. ASSUME FallsThrough(code[i].op)
      PROVE  /\ k + 1 <= Len(graph) /\ i + 1 \in 1 .. Len(code) /\ depths[i + 1] = DepthAfter(i)
             /\ Stands(code, StoresRetVal, {}, FollowingAt(k), i + 1) /\ FollowingAt(k) = graph[k + 1].id /\ FollowingAt(k) \in IdsOf(graph)
  <2>1. k + 1 <= Len(graph) /\ Stands(code, StoresRetVal, {}, graph[k + 1].id, i + 1)
    BY <1>2, <1>6 DEF AsOriginal
  <2>2. i + 1 <= Len(code)
    BY <1>0, <1>6 DEF Numbered
  <2>3. k < Len(graph) /\ k + 1 \in 1 .. Len(graph) /\ i + 1 \in 1 .. Len(code)
    BY <1>0, <2>1, <2>2
  <2>4. FollowingAt(k) = graph[k + 1].id /\ graph[k + 1].id \in IdsOf(graph)
    BY <2>3 DEF FollowingAt, IdsOf
  <2> QED BY <1>3, <1>6, <2>1, <2>2, <2>3, <2>4 DEF DepthFits
<1>7. ASSUME NEW t \in graph[k].to
      PROVE  t \in IdsOf(graph) /\ \E j \in 1 .. Len(code) : Il(j) \in code[i].to /\ Stands(code, StoresRetVal, {}, t, j) /\ depths[j] = DepthAfter(i)
  <2>1. PICK j \in 1 .. Len(code) : Il(j) \in code[i].to /\ Stands(code, StoresRetVal, {}, t, j)
    BY <1>2 DEF AsOriginal
  <2>2. depths[j] = DepthAfter(i)
    BY <1>3, <2>1 DEF DepthFits
  <2>3. t \in IdsOf(graph)
    BY <1>0 DEF TargetsKept
  <2> QED BY <2>1, <2>2, <2>3
<1> QED BY <1>4, <1>5, <1>6, <1>7 DEF Nexts

\* Tail calls are found where the original has them, and what comes after them.
LEMMA TailBefore ==
    ASSUME NEW k \in 1 .. Len(graph), NEW i \in 1 .. Len(code), Setting, graph[k].id = Il(i), code[i].op = "call"
    PROVE  OpOf(graph, k - 1) = "tail" <=> OpOf(code, i - 1) = "tail"
<1>0. /\ Kept(code, graph) /\ Numbered(code) /\ Len(code) \in Nat /\ Len(graph) \in Nat
      /\ DOMAIN code = 1 .. Len(code) /\ DOMAIN graph = 1 .. Len(graph)
  BY CompleteIsNumbered DEF Setting, Follows, Kept, Numbered
<1>1. ASSUME OpOf(code, i - 1) = "tail" PROVE OpOf(graph, k - 1) = "tail"
  <2>1. Il(i) \in TailCalls(code)
    BY <1>0, <1>1 DEF TailCalls
  <2> QED BY <1>0, <2>1 DEF Kept, PrefixKept
<1>2. ASSUME OpOf(graph, k - 1) = "tail" PROVE OpOf(code, i - 1) = "tail"
  <2>1. k - 1 \in 1 .. Len(graph) /\ graph[k - 1].op = "tail" /\ k - 1 + 1 = k
    BY <1>0, <1>2 DEF OpOf
  <2>2. graph[k - 1].id \in Originals(code)
    BY <2>1 DEF Setting, Follows, WellLed, TailAt
  <2>3. PICK j \in 1 .. Len(code) : graph[k - 1].id = Il(j)
    BY <2>2 DEF Originals
  <2>4. Nexts(k - 1, j)
    BY <2>1, <2>3, ItsNexts
  <2>5. code[j].op = "tail"
    BY <2>1, <2>4 DEF Nexts
  <2>6. Stands(code, StoresRetVal, {}, Il(i), j + 1)
    BY <2>1, <2>4, <2>5 DEF Nexts, FallsThrough
  <2>7. i = j + 1
    BY <2>6, NamesDiffer DEF Stands
  <2>8. i - 1 = j
    BY <1>0, <2>7
  <2> QED BY <1>0, <2>5, <2>8 DEF OpOf
<1> QED BY <1>1, <1>2

\* Who stands at an instruction that is not replaced is at that one.
LEMMA StandsThere ==
    ASSUME NEW k \in 1 .. Len(graph), NEW i \in 1 .. Len(code), Setting, Stands(code, StoresRetVal, {}, graph[k].id, i),
           i \notin Replaceables(code)
    PROVE  graph[k].id = Il(i) /\ Nexts(k, i) /\ OpOf(graph, k) = OpOf(code, i)
<1>0. DOMAIN code = 1 .. Len(code) /\ DOMAIN graph = 1 .. Len(graph)
  BY CompleteIsNumbered DEF Setting, Follows, Kept, Numbered
<1>1. graph[k].id = Il(i)
  BY DEF Stands
<1>2. Nexts(k, i)
  BY <1>1, ItsNexts
<1> QED BY <1>0, <1>1, <1>2 DEF Nexts, OpOf

\* The return of a tail call is never replaced, and the pop before it stays too.
LEMMA TailAfter ==
    ASSUME NEW k \in 1 .. Len(graph), NEW i \in 1 .. Len(code), Setting, graph[k].id = Il(i), code[i].op = "call",
           OpOf(code, i - 1) = "tail"
    PROVE  /\ OpOf(graph, k + 1) = OpOf(code, i + 1)
           /\ OpOf(code, i + 1) = "pop" => OpOf(graph, k + 2) = OpOf(code, i + 2)
<1>0. Len(code) \in Nat /\ Len(graph) \in Nat /\ DOMAIN code = 1 .. Len(code)
  BY CompleteIsNumbered DEF Setting, Follows, Kept, Numbered
<1>1. Nexts(k, i) /\ OpOf(code, i) = "call"
  BY <1>0, ItsNexts DEF OpOf
<1>2. k + 1 <= Len(graph) /\ i + 1 \in 1 .. Len(code) /\ Stands(code, StoresRetVal, {}, graph[k + 1].id, i + 1)
  BY <1>1 DEF Nexts, FallsThrough
<1>3. k + 1 \in 1 .. Len(graph) /\ i + 1 - 1 = i /\ i + 1 + 1 = i + 2 /\ k + 1 + 1 = k + 2 /\ i + 2 - 1 = i + 1 /\ i + 2 - 2 = i
  BY <1>0, <1>2
<1>4. i + 1 \notin Replaceables(code)
  <2>1. AfterTail(code, i + 1)
    BY <1>1, <1>3 DEF AfterTail
  <2> QED BY <2>1 DEF Replaceables
<1>5. Nexts(k + 1, i + 1) /\ OpOf(graph, k + 1) = OpOf(code, i + 1)
  BY <1>2, <1>3, <1>4, StandsThere
<1>6. ASSUME OpOf(code, i + 1) = "pop" PROVE OpOf(graph, k + 2) = OpOf(code, i + 2)
  <2>1. code[i + 1].op = "pop"
    BY <1>0, <1>2, <1>6 DEF OpOf
  <2>2. k + 2 <= Len(graph) /\ i + 2 \in 1 .. Len(code) /\ Stands(code, StoresRetVal, {}, graph[k + 2].id, i + 2)
    BY <1>3, <1>5, <2>1 DEF Nexts, FallsThrough
  <2>3. k + 2 \in 1 .. Len(graph)
    BY <1>0, <2>2
  <2>4. i + 2 \notin Replaceables(code)
    <3>1. AfterTail(code, i + 2)
      BY <1>1, <1>3, <1>6 DEF AfterTail
    <3> QED BY <3>1 DEF Replaceables
  <2> QED BY <2>2, <2>3, <2>4, StandsThere
<1> QED BY <1>5, <1>6

-----------------------------------------------------------------------------
(* A step of the original method. *)

ContinuesTo(i, t, s, j) ==
    /\ Run!Continue(t, s) /\ t \in IdsOf(graph) /\ s \in Seq(Values)
    /\ j \in 1 .. Len(code) /\ Stands(code, StoresRetVal, {}, t, j) /\ Len(s) = depths[j]
    /\ Original!Continue(Il(j), s) => Original!Execute(i)
EndsWith(i, how, v) == Run!Ended(how, v) /\ (Original!Ended(how, v) => Original!Execute(i))
Goes(i) == (\E t, s, j : ContinuesTo(i, t, s, j)) \/ (\E how, v : EndsWith(i, how, v))

\* What is known where an instruction of the original is executed.
LEMMA OriginalFacing ==
    ASSUME NEW k, NEW i, OnOriginal(k, i)
    PROVE  /\ k \in 1 .. Len(graph) /\ i \in 1 .. Len(code) /\ Nexts(k, i)
           /\ graph[k].id = Il(i) /\ code[i].id = Il(i)
           /\ OriginalStack = stack /\ OriginalAt = Il(i)
           /\ Original!Position(Il(i)) = i
           /\ FallsThrough(code[i].op) => Original!Following(code[i].id) = Il(i + 1)
           /\ \A j : Original!OpAt(j) = OpOf(code, j) /\ Run!OpAt(j) = OpOf(graph, j)
<1>0. k \in 1 .. Len(graph) /\ i \in 1 .. Len(code) /\ graph[k].id = Il(i) /\ at = Il(i) /\ Setting
  BY DEF OnOriginal, ExecutesAt
<1>1. Numbered(code) /\ Len(code) \in Nat /\ DOMAIN code = 1 .. Len(code)
  BY <1>0, CompleteIsNumbered DEF Setting, Numbered
<1>2. Nexts(k, i)
  BY <1>0, ItsNexts
<1>3. \A j \in 1 .. Len(code) : code[j].id = Il(j)
  BY <1>1 DEF Numbered
<1>4. Stands(code, StoresRetVal, {}, at, i)
  BY <1>0 DEF Stands
<1>5. OriginalStack = stack /\ OriginalAt = Il(i)
  BY <1>1, <1>4, StandingMaps, Mapped
<1>6. Original!Position(Il(i)) = i
  <2>1. \A j \in 1 .. Len(code) : code[j].id = Il(i) => j = i
    BY <1>3, NamesDiffer
  <2> QED BY <1>0, <1>1, <1>3, <2>1 DEF Original!Position
<1>7. ASSUME FallsThrough(code[i].op) PROVE Original!Following(code[i].id) = Il(i + 1)
  <2>1. i + 1 \in 1 .. Len(code) /\ i < Len(code)
    BY <1>0, <1>1, <1>2, <1>7 DEF Nexts
  <2>2. code[i + 1].id = Il(i + 1) /\ code[i].id = Il(i)
    BY <1>0, <1>3, <2>1
  <2> QED BY <1>6, <2>1, <2>2 DEF Original!Following
<1>8. \A j : Original!OpAt(j) = OpOf(code, j) /\ Run!OpAt(j) = OpOf(graph, j)
  BY DEF Original!OpAt, Run!OpAt, OpOf
<1> QED BY <1>0, <1>2, <1>3, <1>5, <1>6, <1>7, <1>8

\* The stack after an instruction that pops.
LEMMA PoppedFacts ==
    ASSUME NEW s \in Seq(Values), Len(s) > 0
    PROVE  /\ SubSeq(s, 1, Len(s) - 1) \in Seq(Values) /\ Len(SubSeq(s, 1, Len(s) - 1)) = Len(s) - 1
           /\ s[Len(s)] \in Values /\ s # <<>>
           /\ Append(SubSeq(s, 1, Len(s) - 1), s[Len(s)]) = s
<1> DEFINE r == SubSeq(s, 1, Len(s) - 1)
<1>1. Len(s) \in Nat /\ Len(s) \in 1 .. Len(s)
  OBVIOUS
<1>2. s[Len(s)] \in Values /\ s # <<>>
  BY <1>1
<1>3. r \in Seq(Values) /\ Len(r) = Len(s) - 1 /\ \A j \in 1 .. Len(s) - 1 : r[j] = s[j]
  BY <1>1, Cut
<1> HIDE DEF r
<1>4. Append(r, s[Len(s)]) = s
  <2> DEFINE e == Append(r, s[Len(s)])
  <2>1. e \in Seq(Values) /\ Len(e) = Len(s) /\ e[Len(s)] = s[Len(s)] /\ \A j \in 1 .. Len(s) - 1 : e[j] = s[j]
    BY <1>1, <1>2, <1>3
  <2>2. \A j \in 1 .. Len(s) : j = Len(s) \/ j \in 1 .. Len(s) - 1
    BY <1>1
  <2>3. \A j \in 1 .. Len(s) : e[j] = s[j]
    BY <2>1, <2>2
  <2> HIDE DEF e
  <2>4. e = s
    BY <2>1, <2>3
  <2> QED BY <2>4 DEF e
<1> QED BY <1>2, <1>3, <1>4 DEF r

\* It does to the stack of the original what it does to the stack.
LEMMA OriginalGoes ==
    ASSUME NEW k, NEW i, OnOriginal(k, i)
    PROVE  Goes(i)
<1>0. Setting /\ Run!Execute(k) /\ Run!Following(graph[k].id) = FollowingAt(k) /\ Len(stack) = depths[i] /\ stack \in Seq(Values)
  BY DEF OnOriginal, ExecutesAt, Setting
<1>1. /\ k \in 1 .. Len(graph) /\ i \in 1 .. Len(code) /\ Nexts(k, i)
      /\ graph[k].id = Il(i) /\ code[i].id = Il(i)
      /\ OriginalStack = stack
      /\ FallsThrough(code[i].op) => Original!Following(code[i].id) = Il(i + 1)
      /\ \A j : Original!OpAt(j) = OpOf(code, j) /\ Run!OpAt(j) = OpOf(graph, j)
  BY OriginalFacing
<1> DEFINE op == code[i].op
           next == FollowingAt(k)
<1>2. graph[k].op = op /\ op \in Ops /\ DepthAfter(i) \in Nat /\ depths[i] \in Nat
  BY <1>1 DEF Nexts
<1>3. FallsThrough(op) =>
        /\ i + 1 \in 1 .. Len(code) /\ depths[i + 1] = DepthAfter(i)
        /\ Stands(code, StoresRetVal, {}, next, i + 1) /\ next \in IdsOf(graph)
  BY <1>1 DEF Nexts
<1>4. \A t \in graph[k].to :
        t \in IdsOf(graph) /\ \E j \in 1 .. Len(code) : Il(j) \in code[i].to /\ Stands(code, StoresRetVal, {}, t, j) /\ depths[j] = DepthAfter(i)
  BY <1>1 DEF Nexts
<1>5. Il(i) \in Values
  <2>1. i \in Nat
    BY <1>1
  <2> QED BY <2>1 DEF Il, InstrIds, Values
<1>6. Original!Top = Run!Top /\ Original!Popped = Run!Popped
  BY <1>1 DEF Original!Top, Original!Popped, Run!Top, Run!Popped
<1>7. ASSUME DepthAfter(i) = depths[i] - 1
      PROVE  /\ Run!Popped \in Seq(Values) /\ Len(Run!Popped) = DepthAfter(i)
             /\ Run!Top \in Values
  <2>1. Len(stack) > 0
    BY <1>0, <1>2, <1>7
  <2> QED BY <1>0, <1>7, <2>1, PoppedFacts DEF Run!Popped, Run!Top
<1>8. DepthAfter(i) = depths[i] + GetStackImpact(op, depths[i])
  BY DEF DepthAfter
<1>9. CASE op = "ld"
  <2>1. Run!Continue(next, Append(stack, Il(i)))
    BY <1>0, <1>1, <1>2, <1>9 DEF Run!Execute
  <2>2. Append(stack, Il(i)) \in Seq(Values) /\ Len(Append(stack, Il(i))) = DepthAfter(i)
    BY <1>0, <1>2, <1>5, <1>8, <1>9 DEF GetStackImpact
  <2>3. FallsThrough(op)
    BY <1>9 DEF FallsThrough
  <2>4. Original!Continue(Il(i + 1), Append(stack, Il(i))) => Original!Execute(i)
    BY <1>1, <1>9, <2>3 DEF Original!Execute
  <2> QED BY <1>3, <2>1, <2>2, <2>3, <2>4 DEF Goes, ContinuesTo
<1>10. CASE op = "call"
  <2>1. CASE OpOf(graph, k - 1) # "tail"
    <3>0. OpOf(code, i - 1) # "tail"
      BY <1>0, <1>1, <1>10, <2>1, TailBefore
    <3>1. Run!Continue(next, Append(stack, Il(i)))
      BY <1>0, <1>1, <1>2, <1>10, <2>1 DEF Run!Execute
    <3>2. Append(stack, Il(i)) \in Seq(Values) /\ Len(Append(stack, Il(i))) = DepthAfter(i)
      BY <1>0, <1>2, <1>5, <1>8, <1>10 DEF GetStackImpact
    <3>3. FallsThrough(op)
      BY <1>10 DEF FallsThrough
    <3>4. Original!Continue(Il(i + 1), Append(stack, Il(i))) => Original!Execute(i)
      BY <1>1, <1>10, <3>0, <3>3 DEF Original!Execute
    <3> QED BY <1>3, <3>1, <3>2, <3>3, <3>4 DEF Goes, ContinuesTo
  <2>2. CASE OpOf(graph, k - 1) = "tail"
    <3>0. OpOf(code, i - 1) = "tail"
      BY <1>0, <1>1, <1>10, <2>2, TailBefore
    <3>1. /\ OpOf(graph, k + 1) = OpOf(code, i + 1)
          /\ OpOf(code, i + 1) = "pop" => OpOf(graph, k + 2) = OpOf(code, i + 2)
      BY <1>0, <1>1, <1>10, <3>0, TailAfter
    <3>2. Run!TailCall(k)
      BY <1>0, <1>1, <1>2, <1>10, <2>2 DEF Run!Execute
    <3>3. Original!TailCall(i) => Original!Execute(i)
      BY <1>1, <1>10, <3>0 DEF Original!Execute
    <3>4. CASE OpOf(code, i + 1) = "ret"
      <4>1. Run!Ended("tailcalled", Il(i))
        BY <1>1, <3>1, <3>2, <3>4 DEF Run!TailCall
      <4>2. Original!Ended("tailcalled", Il(i)) => Original!TailCall(i)
        BY <1>1, <3>4 DEF Original!TailCall
      <4> QED BY <3>3, <4>1, <4>2 DEF Goes, EndsWith
    <3>5. CASE OpOf(code, i + 1) = "pop" /\ OpOf(code, i + 2) = "ret"
      <4>1. Run!Ended("tailcalled", Null)
        BY <1>1, <3>1, <3>2, <3>5 DEF Run!TailCall
      <4>2. Original!Ended("tailcalled", Null) => Original!TailCall(i)
        BY <1>1, <3>5 DEF Original!TailCall
      <4> QED BY <3>3, <4>1, <4>2 DEF Goes, EndsWith
    <3>6. CASE ~(OpOf(code, i + 1) = "ret" \/ (OpOf(code, i + 1) = "pop" /\ OpOf(code, i + 2) = "ret"))
      <4>1. Run!Ended("invalid", Null)
        BY <1>1, <3>1, <3>2, <3>6 DEF Run!TailCall
      <4>2. Original!Ended("invalid", Null) => Original!TailCall(i)
        BY <1>1, <3>6 DEF Original!TailCall
      <4> QED BY <3>3, <4>1, <4>2 DEF Goes, EndsWith
    <3> QED BY <3>4, <3>5, <3>6
  <2> QED BY <2>1, <2>2
<1>11. CASE op = "pop"
  <2>1. Run!Continue(next, Run!Popped)
    BY <1>0, <1>1, <1>2, <1>11 DEF Run!Execute
  <2>2. DepthAfter(i) = depths[i] - 1
    BY <1>2, <1>8, <1>11 DEF GetStackImpact
  <2>3. FallsThrough(op)
    BY <1>11 DEF FallsThrough
  <2>4. Original!Continue(Il(i + 1), Run!Popped) => Original!Execute(i)
    BY <1>1, <1>6, <1>11, <2>3 DEF Original!Execute
  <2> QED BY <1>3, <1>7, <2>1, <2>2, <2>3, <2>4 DEF Goes, ContinuesTo
<1>12. CASE op = "tail"
  <2>1. Run!Continue(next, stack)
    BY <1>0, <1>1, <1>2, <1>12 DEF Run!Execute
  <2>2. Len(stack) = DepthAfter(i)
    BY <1>0, <1>2, <1>8, <1>12 DEF GetStackImpact
  <2>3. FallsThrough(op)
    BY <1>12 DEF FallsThrough
  <2>4. Original!Continue(Il(i + 1), stack) => Original!Execute(i)
    BY <1>1, <1>12, <2>3 DEF Original!Execute
  <2> QED BY <1>0, <1>3, <2>1, <2>2, <2>3, <2>4 DEF Goes, ContinuesTo
<1>13. CASE op = "br"
  <2>1. PICK t \in graph[k].to : Run!Continue(t, stack)
    BY <1>0, <1>1, <1>2, <1>13 DEF Run!Execute
  <2>2. Len(stack) = DepthAfter(i)
    BY <1>0, <1>2, <1>8, <1>13 DEF GetStackImpact
  <2>3. PICK j \in 1 .. Len(code) : Il(j) \in code[i].to /\ Stands(code, StoresRetVal, {}, t, j) /\ depths[j] = DepthAfter(i)
    BY <1>4
  <2>4. Original!Continue(Il(j), stack) => Original!Execute(i)
    BY <1>1, <1>13, <2>3 DEF Original!Execute
  <2> QED BY <1>0, <1>4, <2>1, <2>2, <2>3, <2>4 DEF Goes, ContinuesTo
<1>14. CASE op \in {"brtrue", "switch"}
  <2>1. PICK t \in graph[k].to \cup {next} : Run!Continue(t, Run!Popped)
    BY <1>0, <1>1, <1>2, <1>14 DEF Run!Execute
  <2>2. DepthAfter(i) = depths[i] - 1
    BY <1>2, <1>8, <1>14 DEF GetStackImpact
  <2>3. FallsThrough(op)
    BY <1>14 DEF FallsThrough
  <2>4. \A u \in code[i].to \cup {Il(i + 1)} : Original!Continue(u, Run!Popped) => Original!Execute(i)
    BY <1>1, <1>6, <1>14, <2>3 DEF Original!Execute
  <2>5. PICK j \in 1 .. Len(code) : /\ Il(j) \in code[i].to \cup {Il(i + 1)} /\ Stands(code, StoresRetVal, {}, t, j)
                                    /\ depths[j] = DepthAfter(i) /\ t \in IdsOf(graph)
    BY <1>3, <1>4, <2>3
  <2> QED BY <1>7, <2>1, <2>2, <2>4, <2>5 DEF Goes, ContinuesTo
<1>15. CASE op = "leave"
  <2>1. PICK t \in graph[k].to : Run!Continue(t, <<>>)
    BY <1>0, <1>1, <1>2, <1>15 DEF Run!Execute
  <2>2. DepthAfter(i) = 0
    BY <1>2, <1>8, <1>15 DEF GetStackImpact
  <2>3. PICK j \in 1 .. Len(code) : Il(j) \in code[i].to /\ Stands(code, StoresRetVal, {}, t, j) /\ depths[j] = DepthAfter(i)
    BY <1>4
  <2>4. Original!Continue(Il(j), <<>>) => Original!Execute(i)
    BY <1>1, <1>15, <2>3 DEF Original!Execute
  <2>5. <<>> \in Seq(Values) /\ Len(<<>>) = 0
    OBVIOUS
  <2> QED BY <1>4, <2>1, <2>2, <2>3, <2>4, <2>5 DEF Goes, ContinuesTo
<1>16. CASE op = "throw"
  <2>1. CASE Il(i) \in Protected
    <3>1. Run!Continue(HandlerFirst, <<Run!Top>>)
      BY <1>0, <1>1, <1>2, <1>16, <2>1 DEF Run!Execute
    <3>2. DepthAfter(i) = depths[i] - 1
      BY <1>2, <1>8, <1>16 DEF GetStackImpact
    <3>3. <<Run!Top>> \in Seq(Values) /\ Len(<<Run!Top>>) = 1
      BY <1>7, <3>2
    <3>4. shape.tryEnd > 0
      <4>1. shape.tryEnd \in Nat
        BY <1>0, ShapeFacts DEF CodeOK, Setting
      <4>2. PICK l \in 1 .. shape.tryEnd : TRUE
        BY <2>1 DEF Protected
      <4> QED BY <4>1, <4>2
    <3>5. PICK h : HandlerAt(h)
      BY <1>0, <3>4, HandlerFacts DEF Setting
    <3>6. h \in 1 .. Len(code) /\ HandlerFirst = Il(h) /\ code[h].op # "ret"
      BY <3>5 DEF HandlerAt
    <3>7. depths[h] = 1
      BY <1>0, <3>6 DEF Setting, DepthsOK, DepthFits
    <3>8. Il(h) \in IdsOf(graph)
      <4>1. DOMAIN code = 1 .. Len(code)
        BY <1>0 DEF Setting, CodeOK
      <4> QED BY <1>0, <3>6, <4>1 DEF Setting, Follows, Kept, OthersKept
    <3>9. Stands(code, StoresRetVal, {}, Il(h), h)
      BY <3>6 DEF Stands
    <3>10. Original!Continue(Il(h), <<Run!Top>>) => Original!Execute(i)
      BY <1>1, <1>6, <1>16, <2>1, <3>6 DEF Original!Execute
    <3> QED BY <3>1, <3>3, <3>6, <3>7, <3>8, <3>9, <3>10 DEF Goes, ContinuesTo
  <2>2. CASE Il(i) \notin Protected
    <3>1. Run!Ended("thrown", Null)
      BY <1>0, <1>1, <1>2, <1>16, <2>2 DEF Run!Execute
    <3>2. Original!Ended("thrown", Null) => Original!Execute(i)
      BY <1>1, <1>16, <2>2 DEF Original!Execute
    <3> QED BY <3>1, <3>2 DEF Goes, EndsWith
  <2> QED BY <2>1, <2>2
<1>17. CASE op = "ret"
  <2> DEFINE v == IF stack = <<>> THEN Null ELSE Run!Top
  <2>1. Run!Ended("returned", v)
    BY <1>0, <1>1, <1>2, <1>17 DEF Run!Execute
  <2>2. Original!Ended("returned", v) => Original!Execute(i)
    BY <1>1, <1>6, <1>17 DEF Original!Execute
  <2> QED BY <2>1, <2>2 DEF Goes, EndsWith
<1> QED BY <1>2, <1>9, <1>10, <1>11, <1>12, <1>13, <1>14, <1>15, <1>16, <1>17 DEF Ops

\* What is left to show of a step: where it leads, and what it is in the original method.
Fine ==
    /\ stack' \in Seq(Values) /\ slot' \in Values
    /\ at' # Null => at' \in IdsOf(graph) /\ Reached(at', stack', slot')
Stays == OriginalAt' = OriginalAt /\ OriginalStack' = OriginalStack /\ OriginalOutcome' = OriginalOutcome
Steps == Original!Step

\* A step of the original is that of the instruction it is at.
LEMMA StepsAt ==
    ASSUME Setting, Execute, NEW i \in 1 .. Len(code), OriginalAt = Il(i), Original!Execute(i)
    PROVE  Steps
<1>1. Numbered(code) /\ DOMAIN code = 1 .. Len(code)
  BY CompleteIsNumbered DEF Setting, Numbered
<1>2. Original!Position(Il(i)) = i
  <2>1. \A j \in 1 .. Len(code) : code[j].id = Il(j)
    BY <1>1 DEF Numbered
  <2>2. \A j \in 1 .. Len(code) : code[j].id = Il(i) => j = i
    BY <2>1, NamesDiffer
  <2> QED BY <1>1, <2>1, <2>2 DEF Original!Position
<1>3. running /\ UNCHANGED <<shape, code, running>>
  BY DEF Execute, Run!Step, genVars
<1>4. Protected' = Protected /\ HandlerFirst' = HandlerFirst
  BY <1>3 DEF Protected, HandlerFirst
<1>5. Il(i) # Null
  <2>1. i \in Nat
    OBVIOUS
  <2>2. Il(i) \in InstrIds
    BY <2>1 DEF Il, InstrIds
  <2> QED BY <2>2, NullAssumption DEF InstrIds
<1> QED BY <1>2, <1>3, <1>4, <1>5 DEF Steps, Original!Step

\* An instruction of the original.
LEMMA OriginalSteps ==
    ASSUME Execute, NEW k, NEW i, OnOriginal(k, i)
    PROVE  Fine /\ Steps
<1>0. Setting /\ slot \in Values /\ Len(code) \in Nat /\ i \in 1 .. Len(code) /\ at = Il(i)
  BY DEF OnOriginal, Setting, CodeOK
<1>1. Stands(code, StoresRetVal, {}, at, i)
  BY <1>0 DEF Stands
<1>2. OriginalAt = Il(i) /\ OriginalStack = stack /\ OriginalOutcome = outcome
  BY <1>0, <1>1, StandingMaps, Mapped
<1>3. UNCHANGED shape
  BY DEF Execute, genVars
<1>4. CASE \E t, s, j : ContinuesTo(i, t, s, j)
  <2>1. PICK t, s, j : ContinuesTo(i, t, s, j)
    BY <1>4
  <2>2. /\ t \in IdsOf(graph) /\ s \in Seq(Values)
        /\ j \in 1 .. Len(code) /\ Stands(code, StoresRetVal, {}, t, j) /\ Len(s) = depths[j]
        /\ Original!Continue(Il(j), s) => Original!Execute(i)
    BY <2>1 DEF ContinuesTo
  <2>3. at' = t /\ stack' = s /\ slot' = slot /\ outcome' = outcome
    BY <2>1 DEF ContinuesTo, Run!Continue
  <2>4. OriginalAt' = Il(j) /\ OriginalStack' = s /\ OriginalOutcome' = outcome
    BY <1>0, <1>3, <2>2, <2>3, StandingMaps, MappedNext
  <2>5. Original!Continue(Il(j), s)
    BY <1>2, <2>4 DEF Original!Continue
  <2>6. Fine
    BY <1>0, <2>2, <2>3 DEF Fine, Reached
  <2> QED BY <1>0, <1>2, <2>2, <2>5, <2>6, StepsAt
<1>5. CASE \E how, v : EndsWith(i, how, v)
  <2>1. PICK how, v : EndsWith(i, how, v)
    BY <1>5
  <2>2. at' = Null /\ stack' = <<>> /\ slot' = slot /\ outcome' = [how |-> how, value |-> v]
    BY <2>1 DEF EndsWith, Run!Ended
  <2>3. OriginalAt' = Null /\ OriginalStack' = <<>> /\ OriginalOutcome' = [how |-> how, value |-> v]
    BY <1>3, <2>2, OverMaps, MappedNext
  <2>4. Original!Ended(how, v)
    BY <2>3 DEF Original!Ended
  <2>5. Fine
    BY <1>0, <2>2 DEF Fine
  <2> QED BY <1>0, <1>2, <2>1, <2>4, <2>5, StepsAt DEF EndsWith
<1> QED BY <1>4, <1>5, OriginalGoes DEF Goes

\* What leads to an instruction of the original that was replaced.
OnReplaced(k, i) == Setting /\ ExecutesAt(k) /\ i \in Replaceables(code)

\* What is known where an instruction of a replaced return is executed.
LEMMA ReplacedFacing ==
    ASSUME NEW k, NEW i, OnReplaced(k, i)
    PROVE  /\ k \in 1 .. Len(graph) /\ graph[k].id = at /\ graph \in Seq(Instrs) /\ Len(graph) \in Nat
           /\ Run!Execute(k) /\ Run!Following(graph[k].id) = FollowingAt(k)
           /\ k + 1 <= Len(graph) => FollowingAt(k) = graph[k + 1].id /\ FollowingAt(k) \in IdsOf(graph)
           /\ i \in 1 .. Len(code) /\ code[i].op = "ret" /\ Len(code) \in Nat
           /\ stack \in Seq(Values) /\ slot \in Values
           /\ StoresRetVal => depths[i] = 1
<1>1. k \in 1 .. Len(graph) /\ graph[k].id = at /\ Run!Execute(k) /\ Run!Following(graph[k].id) = FollowingAt(k)
  BY DEF OnReplaced, ExecutesAt
<1>2. graph \in Seq(Instrs) /\ Len(graph) \in Nat /\ stack \in Seq(Values) /\ slot \in Values
  BY DEF OnReplaced, Setting, Follows, Kept
<1>3. k + 1 <= Len(graph) => FollowingAt(k) = graph[k + 1].id /\ FollowingAt(k) \in IdsOf(graph)
  <2>1. k + 1 <= Len(graph) => k < Len(graph) /\ k + 1 \in 1 .. Len(graph)
    BY <1>1, <1>2
  <2> QED BY <2>1 DEF FollowingAt, IdsOf
<1>4. code \in Seq(Instrs) /\ DOMAIN code = 1 .. Len(code) /\ Len(code) \in Nat
  BY DEF OnReplaced, Setting, CodeOK
<1>5. i \in 1 .. Len(code) /\ code[i].op = "ret"
  BY <1>4 DEF OnReplaced, Replaceables
<1>6. ASSUME StoresRetVal PROVE depths[i] = 1
  <2>1. DepthAfter(i) = 0
    BY <1>5 DEF OnReplaced, Setting, DepthsOK, DepthFits
  <2>2. depths \in Seq(Nat) /\ i \in 1 .. Len(depths)
    BY <1>5 DEF OnReplaced, Setting, DepthsOK
  <2>3. depths[i] \in Nat
    BY <2>2
  <2>4. GetStackImpact("ret", depths[i]) = -1
    BY <1>6 DEF GetStackImpact, RetImpact, StoresRetVal
  <2> QED BY <1>5, <2>1, <2>3, <2>4 DEF DepthAfter
<1> QED BY <1>1, <1>2, <1>3, <1>4, <1>5, <1>6

\* A probe before a return does nothing to the original.
LEMMA ProbeStays ==
    ASSUME Execute, NEW k, NEW i, OnReplaced(k, i), at = Probe(Il(i)), Len(stack) = depths[i]
    PROVE  Fine /\ Stays
<1>1. /\ k \in 1 .. Len(graph) /\ graph[k].id = at
      /\ Run!Execute(k) /\ Run!Following(graph[k].id) = FollowingAt(k)
      /\ k + 1 <= Len(graph) => FollowingAt(k) = graph[k + 1].id /\ FollowingAt(k) \in IdsOf(graph)
      /\ i \in 1 .. Len(code) /\ Len(code) \in Nat
      /\ stack \in Seq(Values) /\ slot \in Values
  BY ReplacedFacing
<1>2. graph[k].op = "probe" /\ k + 1 <= Len(graph) /\ graph[k + 1].id = Il(i)
  BY <1>1 DEF OnReplaced, Setting, Follows, WellLed, ProbeAt
<1>3. Run!Continue(Il(i), stack)
  BY <1>1, <1>2 DEF Run!Execute
<1>4. at' = Il(i) /\ stack' = stack /\ slot' = slot /\ outcome' = outcome /\ UNCHANGED shape
  BY <1>3 DEF Run!Continue, Execute, genVars
<1>5. Stands(code, StoresRetVal, {}, at, i) /\ Stands(code, StoresRetVal, {}, Il(i), i)
  BY <1>1 DEF Stands, OnReplaced
<1>6. OriginalAt = Il(i) /\ OriginalStack = stack /\ OriginalOutcome = outcome
  BY <1>1, <1>5, StandingMaps, Mapped
<1>7. OriginalAt' = Il(i) /\ OriginalStack' = stack /\ OriginalOutcome' = outcome
  BY <1>1, <1>4, <1>5, StandingMaps, MappedNext
<1>8. Fine
  BY <1>1, <1>2, <1>4, <1>5 DEF Fine, Reached
<1> QED BY <1>6, <1>7, <1>8 DEF Stays

\* Storing the value does nothing to the original, which still has it on the stack.
LEMMA StoreStays ==
    ASSUME Execute, NEW k, NEW i, OnReplaced(k, i), at = Stloc(Il(i)), Len(stack) = depths[i]
    PROVE  StoresRetVal => Fine /\ Stays
<1>0. SUFFICES ASSUME StoresRetVal PROVE Fine /\ Stays
  OBVIOUS
<1>1. /\ k \in 1 .. Len(graph) /\ graph[k].id = at
      /\ Run!Execute(k) /\ Run!Following(graph[k].id) = FollowingAt(k)
      /\ k + 1 <= Len(graph) => FollowingAt(k) = graph[k + 1].id /\ FollowingAt(k) \in IdsOf(graph)
      /\ i \in 1 .. Len(code) /\ Len(code) \in Nat
      /\ stack \in Seq(Values) /\ depths[i] = 1
  BY <1>0, ReplacedFacing
<1>2. graph[k].op = "stloc" /\ k + 1 <= Len(graph) /\ graph[k + 1].id = Br(Il(i))
  <2>1. PICK X : Mirrors(code, StoresRetVal, {}, X, graph)
    BY DEF OnReplaced, Setting, Follows
  <2>2. AsStore(code, StoresRetVal, graph, k, i)
    BY <1>1, <2>1 DEF Mirrors, MirrorsAt
  <2> QED BY <2>2 DEF AsStore
<1>3. at' = Br(Il(i)) /\ stack' = Run!Popped /\ slot' = Run!Top /\ outcome' = outcome
  BY <1>1, <1>2 DEF Run!Execute
<1>4. UNCHANGED shape
  BY DEF Execute, genVars
<1>5. Run!Popped \in Seq(Values) /\ Run!Top \in Values /\ Append(Run!Popped, Run!Top) = stack
  <2>1. Len(stack) > 0
    BY <1>1
  <2> QED BY <1>1, <2>1, PoppedFacts DEF Run!Popped, Run!Top
<1>6. Stands(code, StoresRetVal, {}, at, i)
  BY <1>0, <1>1 DEF Stands, OnReplaced
<1>7. OriginalAt = Il(i) /\ OriginalStack = stack /\ OriginalOutcome = outcome
  BY <1>1, <1>6, StandingMaps, Mapped
<1>9. i \in Nat /\ i # 0
  BY <1>1
<1>10. OriginalAt' = Il(i) /\ OriginalStack' = Append(Run!Popped, Run!Top) /\ OriginalOutcome' = outcome
  <2>1. OriginalStack' = IF StoresRetVal THEN Append(Run!Popped, Run!Top) ELSE Run!Popped
    BY <1>3, <1>4, <1>9, BranchMaps, MappedNext
  <2>2. OriginalAt' = Il(i) /\ OriginalOutcome' = outcome
    BY <1>3, <1>4, <1>9, BranchMaps, MappedNext
  <2> QED BY <1>0, <2>1, <2>2
<1>11. Fine
  BY <1>0, <1>1, <1>2, <1>3, <1>5 DEF Fine, Reached, OnReplaced
<1> QED BY <1>5, <1>7, <1>10, <1>11 DEF Stays

\* The branch is the return of the original.
LEMMA BranchSteps ==
    ASSUME Execute, NEW k, NEW i, OnReplaced(k, i), at = Br(Il(i))
    PROVE  Fine /\ Steps
<1>0. Setting /\ StoresRetVal \in BOOLEAN
  BY DEF OnReplaced, StoresRetVal
<1>1. /\ k \in 1 .. Len(graph) /\ graph[k].id = at
      /\ Run!Execute(k)
      /\ i \in 1 .. Len(code) /\ code[i].op = "ret" /\ Len(code) \in Nat
      /\ stack \in Seq(Values) /\ slot \in Values
  BY ReplacedFacing
<1>2. PICK X : Mirrors(code, StoresRetVal, {}, X, graph) /\ \A x \in X : Leads(graph, x, Exit(StoresRetVal))
  BY <1>0 DEF Setting, Follows
<1>3. graph[k].op = "br" /\ graph[k].to \subseteq X
  <2>1. AsBranch(code, X, graph, k, i)
    BY <1>1, <1>2 DEF Mirrors, MirrorsAt
  <2> QED BY <2>1 DEF AsBranch
<1>4. PICK t \in graph[k].to : Run!Continue(t, stack)
  BY <1>1, <1>3 DEF Run!Execute
<1>5. t \in IdsOf(graph) /\ Leads(graph, t, Exit(StoresRetVal))
  BY <1>0, <1>1, <1>2, <1>3 DEF Setting, Follows, Kept, TargetsKept
<1>6. at' = t /\ stack' = stack /\ slot' = slot /\ outcome' = outcome /\ UNCHANGED shape
  BY <1>4 DEF Run!Continue, Execute, genVars
<1>7. Fine
  BY <1>1, <1>5, <1>6 DEF Fine, Reached
<1>8. i \in Nat /\ i # 0
  BY <1>1
<1>9. t \in {NewRet, NewLdloc, Probe(NewRet)} /\ (StoresRetVal => t # NewRet)
  BY <1>5, NamesDiffer DEF Leads, Exit
<1> DEFINE v == IF OriginalStack = <<>> THEN Null ELSE Original!Top
<1>10. OriginalAt = Il(i) /\ MapValue(StoresRetVal, t, stack, slot) = v
  <2>1. CASE StoresRetVal
    <3>1. OriginalAt = Il(i) /\ OriginalStack = IF StoresRetVal THEN Append(stack, slot) ELSE stack
      BY <1>8, BranchMaps, Mapped
    <3>2. OriginalStack = Append(stack, slot)
      BY <2>1, <3>1
    <3>3. Append(stack, slot) # <<>> /\ Append(stack, slot)[Len(Append(stack, slot))] = slot
      BY <1>1
    <3>4. MapValue(StoresRetVal, t, stack, slot) = slot
      BY <1>9, <2>1 DEF MapValue
    <3> QED BY <3>1, <3>2, <3>3, <3>4 DEF Original!Top
  <2>2. CASE ~StoresRetVal
    <3>1. Stands(code, StoresRetVal, {}, at, i)
      BY <1>1, <2>2 DEF Stands, OnReplaced
    <3>2. OriginalAt = Il(i) /\ OriginalStack = stack
      BY <1>1, <3>1, StandingMaps, Mapped
    <3>3. MapValue(StoresRetVal, t, stack, slot) = IF stack = <<>> THEN Null ELSE stack[Len(stack)]
      BY <2>2 DEF MapValue
    <3> QED BY <3>2, <3>3 DEF Original!Top
  <2> QED BY <2>1, <2>2
<1> HIDE DEF v
<1>11. OriginalAt' = Null /\ OriginalStack' = <<>> /\ OriginalOutcome' = [how |-> "returned", value |-> v]
  BY <1>6, <1>9, <1>10, OutMaps, MappedNext
<1>12. Original!Ended("returned", v)
  BY <1>11 DEF Original!Ended
<1>13. Original!Execute(i)
  BY <1>1, <1>12 DEF Original!Execute, v
<1> QED BY <1>0, <1>1, <1>7, <1>10, <1>13, StepsAt

\* The instructions that lead to the return, from where the original is over.
Exits == {NewRet, NewLdloc, Probe(NewRet)}
OnExit(k) == Setting /\ ExecutesAt(k) /\ at \in Exits

\* What is known there.
LEMMA ExitFacing ==
    ASSUME NEW k, OnExit(k)
    PROVE  /\ k \in 1 .. Len(graph) /\ graph[k].id = at /\ ExitAt(StoresRetVal, graph, k)
           /\ Run!Execute(k) /\ Run!Following(graph[k].id) = FollowingAt(k)
           /\ k + 1 <= Len(graph) => FollowingAt(k) = graph[k + 1].id /\ FollowingAt(k) \in IdsOf(graph)
           /\ stack \in Seq(Values) /\ slot \in Values
           /\ OriginalAt = Null /\ OriginalStack = <<>>
           /\ OriginalOutcome = [how |-> "returned", value |-> MapValue(StoresRetVal, at, stack, slot)]
<1>1. k \in 1 .. Len(graph) /\ graph[k].id = at /\ Run!Execute(k) /\ Run!Following(graph[k].id) = FollowingAt(k)
  BY DEF OnExit, ExecutesAt
<1>2. Len(graph) \in Nat /\ stack \in Seq(Values) /\ slot \in Values /\ at \in Exits
  BY DEF OnExit, Setting, Follows, Kept
<1>3. k + 1 <= Len(graph) => FollowingAt(k) = graph[k + 1].id /\ FollowingAt(k) \in IdsOf(graph)
  <2>1. k + 1 <= Len(graph) => k < Len(graph) /\ k + 1 \in 1 .. Len(graph)
    BY <1>1, <1>2
  <2> QED BY <2>1 DEF FollowingAt, IdsOf
<1>4. ExitAt(StoresRetVal, graph, k)
  BY <1>1 DEF OnExit, Setting, Follows, WellLed
<1>5. /\ OriginalAt = Null /\ OriginalStack = <<>>
      /\ OriginalOutcome = [how |-> "returned", value |-> MapValue(StoresRetVal, at, stack, slot)]
  BY <1>2, OutMaps, Mapped DEF Exits
<1> QED BY <1>1, <1>2, <1>3, <1>4, <1>5

\* The next exit is as far, with the same value.
LEMMA ExitNext ==
    ASSUME NEW k, OnExit(k), UNCHANGED shape, at' \in Exits,
           MapValue(StoresRetVal, at', stack', slot') = MapValue(StoresRetVal, at, stack, slot)
    PROVE  Stays
<1>1. /\ OriginalAt = Null /\ OriginalStack = <<>>
      /\ OriginalOutcome = [how |-> "returned", value |-> MapValue(StoresRetVal, at, stack, slot)]
  BY ExitFacing
<1>2. /\ OriginalAt' = Null /\ OriginalStack' = <<>>
      /\ OriginalOutcome' = [how |-> "returned", value |-> MapValue(StoresRetVal, at', stack', slot')]
  BY OutMaps, MappedNext DEF Exits
<1> QED BY <1>1, <1>2 DEF Stays

\* The single return returns the value the original has returned.
LEMMA ReturnStays ==
    ASSUME Execute, NEW k, OnExit(k), at = NewRet
    PROVE  Fine /\ Stays
<1>1. /\ graph[k].id = at /\ ExitAt(StoresRetVal, graph, k) /\ Run!Execute(k)
      /\ stack \in Seq(Values) /\ slot \in Values
      /\ OriginalAt = Null /\ OriginalStack = <<>>
      /\ OriginalOutcome = [how |-> "returned", value |-> MapValue(StoresRetVal, at, stack, slot)]
  BY ExitFacing
<1>2. graph[k].op = "ret" /\ UNCHANGED shape
  BY <1>1 DEF ExitAt, Execute, genVars
<1> DEFINE v == IF stack = <<>> THEN Null ELSE stack[Len(stack)]
<1>3. Run!Ended("returned", v)
  BY <1>1, <1>2 DEF Run!Execute, Run!Top
<1>4. MapValue(StoresRetVal, at, stack, slot) = v
  BY DEF MapValue
<1> HIDE DEF v
<1>5. at' = Null /\ stack' = <<>> /\ slot' = slot /\ outcome' = [how |-> "returned", value |-> v]
  BY <1>3 DEF Run!Ended
<1>6. OriginalAt' = Null /\ OriginalStack' = <<>> /\ OriginalOutcome' = outcome'
  BY <1>2, <1>5, OverMaps, MappedNext
<1>7. Fine
  BY <1>1, <1>5 DEF Fine
<1> QED BY <1>1, <1>4, <1>5, <1>6, <1>7 DEF Stays

\* The load brings that value back to the stack.
LEMMA LoadStays ==
    ASSUME Execute, NEW k, OnExit(k), at = NewLdloc
    PROVE  StoresRetVal => Fine /\ Stays
<1>0. SUFFICES ASSUME StoresRetVal PROVE Fine /\ Stays
  OBVIOUS
<1>1. /\ graph[k].id = at /\ ExitAt(StoresRetVal, graph, k)
      /\ Run!Execute(k) /\ Run!Following(graph[k].id) = FollowingAt(k)
      /\ k + 1 <= Len(graph) => FollowingAt(k) = graph[k + 1].id /\ FollowingAt(k) \in IdsOf(graph)
      /\ stack \in Seq(Values) /\ slot \in Values
  BY ExitFacing
<1>2. graph[k].op = "ldloc" /\ k + 1 <= Len(graph) /\ Leads(graph, graph[k + 1].id, NewRet) /\ UNCHANGED shape
  BY <1>0, <1>1 DEF ExitAt, Execute, genVars
<1>3. PICK t, s : t = graph[k + 1].id /\ s = Append(stack, slot)
  OBVIOUS
<1>4. Run!Continue(t, s)
  BY <1>1, <1>2, <1>3 DEF Run!Execute
<1>5. at' = t /\ stack' = s /\ slot' = slot
  BY <1>4 DEF Run!Continue
<1>6. s \in Seq(Values) /\ s # <<>> /\ s[Len(s)] = slot
  BY <1>1, <1>3
<1>7. t \in {NewRet, Probe(NewRet)} /\ t \in IdsOf(graph) /\ Leads(graph, t, NewRet)
  BY <1>1, <1>2, <1>3 DEF Leads
<1>8. Fine
  BY <1>1, <1>5, <1>6, <1>7 DEF Fine, Reached
<1>9. MapValue(StoresRetVal, t, s, slot) = slot
  BY <1>0, <1>6 DEF MapValue
<1>10. MapValue(StoresRetVal, at, stack, slot) = slot
  BY <1>0, NamesDiffer DEF MapValue
<1>11. Stays
  <2>1. at' \in Exits
    BY <1>5, <1>7 DEF Exits
  <2>2. MapValue(StoresRetVal, at', stack', slot') = MapValue(StoresRetVal, at, stack, slot)
    BY <1>5, <1>9, <1>10
  <2> QED BY <1>2, <2>1, <2>2, ExitNext
<1> QED BY <1>8, <1>11

\* The probe at the branch target leaves the value alone.
LEMMA PassStays ==
    ASSUME Execute, NEW k, OnExit(k), at = Probe(NewRet),
           \/ Leads(graph, at, Exit(StoresRetVal))
           \/ Leads(graph, at, NewRet) /\ (StoresRetVal => stack # <<>> /\ stack[Len(stack)] = slot)
    PROVE  Fine /\ Stays
<1>1. /\ k \in 1 .. Len(graph) /\ graph[k].id = at /\ ExitAt(StoresRetVal, graph, k)
      /\ Run!Execute(k) /\ Run!Following(graph[k].id) = FollowingAt(k)
      /\ k + 1 <= Len(graph) => FollowingAt(k) = graph[k + 1].id /\ FollowingAt(k) \in IdsOf(graph)
      /\ stack \in Seq(Values) /\ slot \in Values
  BY ExitFacing
<1>2. graph[k].op = "probe" /\ UNCHANGED shape /\ Distinct(graph)
  BY <1>1 DEF ExitAt, Execute, genVars, OnExit, Setting, Follows, Kept
<1>3. ASSUME NEW y \in {NewRet, NewLdloc}, Leads(graph, at, y) PROVE k + 1 <= Len(graph) /\ graph[k + 1].id = y
  <2>1. at # y
    BY NamesDiffer
  <2>2. PICK q \in 1 .. Len(graph) : graph[q].id = at /\ q + 1 <= Len(graph) /\ graph[q + 1].id = y
    BY <1>3, <2>1 DEF Leads
  <2>3. q = k
    BY <1>1, <1>2, <2>2 DEF Distinct
  <2> QED BY <2>2, <2>3
<1>4. PICK t : t = FollowingAt(k)
  OBVIOUS
<1>5. at' = t /\ stack' = stack /\ slot' = slot
  BY <1>1, <1>2, <1>4 DEF Run!Execute, Run!Continue
<1>6. at # NewRet /\ NewLdloc # NewRet
  BY NamesDiffer
<1>7. CASE Leads(graph, at, Exit(StoresRetVal))
  <2>1. k + 1 <= Len(graph) /\ graph[k + 1].id = Exit(StoresRetVal)
    BY <1>3, <1>7 DEF Exit
  <2>2. t = Exit(StoresRetVal) /\ t \in IdsOf(graph)
    BY <1>1, <1>4, <2>1
  <2>3. Leads(graph, t, Exit(StoresRetVal))
    BY <2>2 DEF Leads
  <2>4. Fine
    BY <1>1, <1>5, <2>2, <2>3 DEF Fine, Reached
  <2>5. at' \in Exits
    BY <1>5, <2>2 DEF Exits, Exit
  <2>6. MapValue(StoresRetVal, t, stack, slot) = MapValue(StoresRetVal, at, stack, slot)
    BY <1>6, <2>2 DEF MapValue, Exit
  <2> QED BY <1>2, <1>5, <2>4, <2>5, <2>6, ExitNext
<1>8. CASE Leads(graph, at, NewRet) /\ (StoresRetVal => stack # <<>> /\ stack[Len(stack)] = slot)
  <2>1. k + 1 <= Len(graph) /\ graph[k + 1].id = NewRet
    BY <1>3, <1>8
  <2>2. t = NewRet /\ t \in IdsOf(graph)
    BY <1>1, <1>4, <2>1
  <2>3. Leads(graph, t, NewRet)
    BY <2>2 DEF Leads
  <2>4. Fine
    BY <1>1, <1>5, <1>8, <2>2, <2>3 DEF Fine, Reached
  <2>5. at' \in Exits
    BY <1>5, <2>2 DEF Exits
  <2>6. MapValue(StoresRetVal, t, stack, slot) = MapValue(StoresRetVal, at, stack, slot)
    BY <1>6, <1>8, <2>2 DEF MapValue
  <2> QED BY <1>2, <1>5, <2>4, <2>5, <2>6, ExitNext
<1> QED BY <1>7, <1>8

\* Whatever is executed, the original takes a step or none.
LEMMA ExecuteGoes ==
    ASSUME Execute, Setting, at \in IdsOf(graph), Reached(at, stack, slot)
    PROVE  Fine /\ (Steps \/ Stays)
<1>0. Kept(code, graph) /\ StoresRetVal \in BOOLEAN
  BY DEF Setting, Follows, StoresRetVal
<1>1. PICK k : ExecutesAt(k)
  BY <1>0, PlaceFound
<1>2. ASSUME NEW i \in 1 .. Len(code), Stands(code, StoresRetVal, {}, at, i), Len(stack) = depths[i]
      PROVE  Fine /\ (Steps \/ Stays)
  <2>1. CASE at = Il(i)
    <3>1. OnOriginal(k, i)
      BY <1>1, <1>2, <2>1 DEF OnOriginal
    <3> QED BY <3>1, OriginalSteps
  <2>2. CASE at # Il(i)
    <3>1. OnReplaced(k, i)
      BY <1>1, <1>2, <2>2 DEF OnReplaced, Stands
    <3>2. at = Probe(Il(i)) \/ (StoresRetVal /\ at = Stloc(Il(i))) \/ at = Br(Il(i))
      BY <1>2, <2>2 DEF Stands
    <3>3. CASE at = Probe(Il(i))
      BY <1>2, <3>1, <3>3, ProbeStays
    <3>4. CASE StoresRetVal /\ at = Stloc(Il(i))
      <4>1. StoresRetVal => Fine /\ Stays
        BY <1>2, <3>1, <3>4, StoreStays
      <4> QED BY <3>4, <4>1
    <3>5. CASE at = Br(Il(i))
      BY <3>1, <3>5, BranchSteps
    <3> QED BY <3>2, <3>3, <3>4, <3>5
  <2> QED BY <2>1, <2>2
<1>3. ASSUME NEW i \in Replaceables(code), at = Br(Il(i)) PROVE Fine /\ (Steps \/ Stays)
  <2>1. OnReplaced(k, i)
    BY <1>1 DEF OnReplaced
  <2> QED BY <1>3, <2>1, BranchSteps
<1>4. ASSUME \/ Leads(graph, at, Exit(StoresRetVal))
             \/ Leads(graph, at, NewRet) /\ (StoresRetVal => stack # <<>> /\ stack[Len(stack)] = slot)
      PROVE  Fine /\ (Steps \/ Stays)
  <2>1. at = NewRet \/ (StoresRetVal /\ at = NewLdloc) \/ at = Probe(NewRet)
    BY <1>4 DEF Leads, Exit
  <2>2. OnExit(k)
    BY <1>1, <2>1 DEF OnExit, Exits
  <2>3. CASE at = NewRet
    BY <2>2, <2>3, ReturnStays
  <2>4. CASE StoresRetVal /\ at = NewLdloc
    <3>1. StoresRetVal => Fine /\ Stays
      BY <2>2, <2>4, LoadStays
    <3> QED BY <2>4, <3>1
  <2>5. CASE at = Probe(NewRet)
    BY <1>4, <2>2, <2>5, PassStays
  <2> QED BY <2>1, <2>3, <2>4, <2>5
<1> QED BY <1>2, <1>3, <1>4 DEF Reached

-----------------------------------------------------------------------------
(* The method implements the original. *)

OriginalInv == MethodInv /\ DepthsOK /\ FollowsOK /\ RunOK

\* Only Decode and Execute change what these are about.
LEMMA DepthsUnchanged ==
    ASSUME DepthsOK, UNCHANGED genVars
    PROVE  DepthsOK'
<1>1. UNCHANGED <<shape, code, depths>>
  BY DEF genVars
<1>2. \A d, o : GetStackImpact(o, d)' = GetStackImpact(o, d)
  BY <1>1 DEF GetStackImpact, RetImpact
<1>3. HandlerFirst' = HandlerFirst
  BY <1>1 DEF HandlerFirst
<1>4. \A i : DepthAfter(i)' = DepthAfter(i)
  BY <1>1, <1>2 DEF DepthAfter
<1> QED BY <1>1, <1>3, <1>4 DEF DepthsOK, DepthFits

\* Only the method and its state matter.
LEMMA RunUnchanged ==
    ASSUME RunOK, UNCHANGED <<shape, code, depths, graph, running, at, stack, slot>>
    PROVE  RunOK'
<1>1. Reached(at, stack, slot)' = Reached(at, stack, slot)
  BY DEF Reached, StoresRetVal
<1>2. Complete' = Complete
  BY DEF Complete
<1> QED BY <1>1, <1>2 DEF RunOK

\* Before it runs, the method may be edited.
LEMMA RunIdle ==
    ASSUME RunOK, ~running, UNCHANGED runVars
    PROVE  RunOK'
<1>1. UNCHANGED <<running, at, stack, slot>>
  BY DEF runVars
<1> QED BY <1>1 DEF RunOK

\* What the engine does besides is nothing to the original.
LEMMA MapUnchanged ==
    ASSUME UNCHANGED <<shape, at, stack, slot, outcome>>
    PROVE  /\ OriginalAt' = OriginalAt /\ OriginalStack' = OriginalStack /\ OriginalOutcome' = OriginalOutcome
           /\ Protected' = Protected /\ HandlerFirst' = HandlerFirst
<1>1. StoresRetVal' = StoresRetVal
  BY DEF StoresRetVal
<1>2. Protected' = Protected /\ HandlerFirst' = HandlerFirst
  BY DEF Protected, HandlerFirst
<1>3. OriginalAt' = OriginalAt /\ OriginalStack' = OriginalStack /\ OriginalOutcome' = OriginalOutcome
  BY <1>1, Mapped, MappedNext
<1> QED BY <1>2, <1>3

\* At first neither has started.
LEMMA OriginalInit == Init => OriginalInv /\ Original!Init
<1> SUFFICES ASSUME Init PROVE OriginalInv /\ Original!Init
  OBVIOUS
<1>1. code = <<>> /\ depths = <<>> /\ graph = <<>> /\ target = Null /\ shape \in Shapes
  BY DEF Init
<1>2. running = FALSE /\ at = Null /\ stack = <<>> /\ slot = Null /\ outcome = Run!Pending
  BY DEF Init, Run!Init
<1>3. MethodInv
  BY InitMethodInv
<1>4. DepthsOK /\ FollowsOK /\ RunOK
  BY <1>1, <1>2 DEF DepthsOK, FollowsOK, Plain, RunOK, Values
<1>5. OriginalAt = Null /\ OriginalStack = <<>> /\ OriginalOutcome = outcome
  BY <1>2, OverMaps, Mapped
<1>6. Original!Init
  BY <1>2, <1>5 DEF Original!Init, Original!Pending, Run!Pending
<1> QED BY <1>3, <1>4, <1>6 DEF OriginalInv

\* A step of the engine, and what it is to the original.
Does == OriginalInv' /\ (Original!Next \/ UNCHANGED Original!vars)

\* The engine edits the method.
LEMMA NothingDone ==
    ASSUME OriginalInv', UNCHANGED <<shape, code, runVars>>
    PROVE  Does
<1>1. UNCHANGED <<shape, code, running, at, stack, slot, outcome>>
  BY DEF runVars
<1> QED BY <1>1, MapUnchanged DEF Does, Original!vars

\* The compiler edits the original.
LEMMA DecodeDoes ==
    ASSUME OriginalInv, NEW op \in shape.ops, NEW to \in SUBSET shape.targets, Decode(op, to)
    PROVE  Does
<1>1. MethodInv /\ CodeOK /\ DepthsOK /\ RunOK
  BY DEF OriginalInv, MethodInv
<1>2. Len(code) + 1 <= shape.len /\ graph' = code' /\ UNCHANGED <<shape, target, runVars>>
  BY DEF Decode
<1>3. ~Complete
  <2>1. shape.len \in Nat /\ Len(code) \in Nat
    BY <1>1, ShapeFacts DEF CodeOK
  <2> QED BY <1>2, <2>1 DEF Complete
<1>4. ~running
  BY <1>1, <1>3 DEF RunOK
<1>5. Plain
  BY <1>1, <1>3 DEF MethodInv, Half, Single, UnderWatch
<1>6. MethodInv'
  BY <1>1, DecodeKeeps
<1>7. DepthsOK'
  BY <1>1, DecodeDepths
<1>8. FollowsOK'
  BY <1>2, <1>5 DEF FollowsOK, Plain
<1>9. RunOK'
  BY <1>1, <1>2, <1>4, RunIdle
<1>10. Original!Edited
  <2>1. UNCHANGED <<shape, running, at, stack, slot, outcome>>
    BY <1>2 DEF runVars
  <2> QED BY <1>4, <2>1, MapUnchanged DEF Original!Edited
<1> QED BY <1>6, <1>7, <1>8, <1>9, <1>10 DEF Does, OriginalInv, Original!Next

\* Both start, at the first instruction.
LEMMA RenderDoes ==
    ASSUME OriginalInv, Render
    PROVE  Does
<1>1. MethodInv /\ CodeOK /\ DepthsOK /\ FollowsOK /\ RunOK /\ MethodInv'
  BY RenderKeeps DEF OriginalInv, MethodInv
<1>2. /\ ~running /\ running' = TRUE /\ at' = graph[1].id /\ Complete
      /\ UNCHANGED <<shape, code, depths, graph, target, stack, slot, outcome>>
  BY DEF Render, Run!Start, Complete, genVars
<1>3. Follows(code, StoresRetVal, graph)
  BY <1>1, <1>2, CompleteFollows
<1>4. Numbered(code) /\ Len(code) > 0 /\ Len(code) \in Nat
  BY <1>1, <1>2, CompleteIsNumbered DEF Numbered
<1>5. Stands(code, StoresRetVal, {}, graph[1].id, 1)
  BY <1>3 DEF Follows, Mirrors
<1>6. Len(graph) > 0 /\ Len(graph) \in Nat
  BY <1>3 DEF Follows, Kept
<1>7. at' \in IdsOf(graph)
  BY <1>2, <1>6 DEF IdsOf
<1>8. at = Null /\ stack = <<>> /\ stack \in Seq(Values) /\ slot \in Values
  BY <1>1, <1>2 DEF RunOK
<1>9. Reached(at', stack, slot)
  <2>1. 1 \in 1 .. Len(code) /\ depths[1] = 0
    BY <1>1, <1>4 DEF DepthsOK, DepthFits
  <2> QED BY <1>2, <1>5, <1>8, <2>1 DEF Reached
<1>10. RunOK'
  <2>1. Reached(at, stack, slot)'
    BY <1>2, <1>9 DEF Reached, StoresRetVal
  <2>2. Complete' = Complete
    BY <1>2 DEF Complete
  <2> QED BY <1>2, <1>7, <1>8, <2>1, <2>2 DEF RunOK
<1>11. DepthsOK' /\ FollowsOK'
  BY <1>1, <1>2, DepthsUnchanged, FollowsUnchanged DEF genVars
<1>12. OriginalAt = Null /\ OriginalStack = stack /\ OriginalOutcome = outcome
  BY <1>8, OverMaps, Mapped
<1>13. OriginalAt' = Il(1) /\ OriginalStack' = stack /\ OriginalOutcome' = outcome
  BY <1>2, <1>4, <1>5, StandingMaps, MappedNext
<1>14. code[1].id = Il(1)
  BY <1>4 DEF Numbered
<1>15. Protected' = Protected /\ HandlerFirst' = HandlerFirst
  BY <1>2 DEF Protected, HandlerFirst
<1>16. Original!Start
  BY <1>2, <1>12, <1>13, <1>14, <1>15 DEF Original!Start
<1> QED BY <1>1, <1>10, <1>11, <1>16 DEF Does, OriginalInv, Original!Next

\* One instruction is executed.
LEMMA ExecuteDoes ==
    ASSUME OriginalInv, Execute
    PROVE  Does
<1>1. MethodInv /\ CodeOK /\ DepthsOK /\ FollowsOK /\ RunOK /\ MethodInv'
  BY ExecuteKeeps DEF OriginalInv, MethodInv
<1>2. /\ running /\ at # Null
      /\ UNCHANGED <<shape, code, depths, graph, target, running>>
  BY DEF Execute, Run!Step, genVars
<1>3. Complete
  BY <1>1, <1>2 DEF RunOK
<1>4. Setting /\ at \in IdsOf(graph) /\ Reached(at, stack, slot)
  <2>1. Follows(code, StoresRetVal, graph)
    BY <1>1, <1>3, CompleteFollows
  <2> QED BY <1>1, <1>2, <1>3, <2>1 DEF Setting, RunOK
<1>5. Fine /\ (Steps \/ Stays)
  BY <1>4, ExecuteGoes
<1>6. RunOK'
  <2>1. at' # Null => Reached(at, stack, slot)'
    <3>1. at' # Null => Reached(at', stack', slot')
      BY <1>5 DEF Fine
    <3> QED BY <1>2, <3>1 DEF Reached, StoresRetVal
  <2>2. Complete' = Complete
    BY <1>2 DEF Complete
  <2> QED BY <1>2, <1>3, <1>5, <2>1, <2>2 DEF RunOK, Fine
<1>7. DepthsOK' /\ FollowsOK'
  BY <1>1, <1>2, DepthsUnchanged, FollowsUnchanged DEF genVars
<1>8. CASE Steps
  BY <1>1, <1>6, <1>7, <1>8 DEF Does, OriginalInv, Original!Next, Steps
<1>9. CASE Stays
  <2>1. Protected' = Protected /\ HandlerFirst' = HandlerFirst
    BY <1>2 DEF Protected, HandlerFirst
  <2> QED BY <1>1, <1>2, <1>6, <1>7, <1>9, <2>1 DEF Does, OriginalInv, Original!vars, Stays
<1> QED BY <1>5, <1>8, <1>9

\* Every step of the engine is a step of the original or none.
LEMMA OriginalNext ==
    ASSUME OriginalInv, [Next]_vars
    PROVE  Does
<1>1. MethodInv /\ MethodInv' /\ DepthsOK /\ FollowsOK /\ RunOK
  BY NextMethodInv DEF OriginalInv
<1>2. ASSUME NEW op \in shape.ops, NEW to \in SUBSET shape.targets, Decode(op, to) PROVE Does
  BY <1>2, DecodeDoes
<1>3. CASE ApplySingleRetDefaultInstrumentation
  <2>1. ~running /\ UNCHANGED <<genVars, runVars>>
    BY <1>3 DEF ApplySingleRetDefaultInstrumentation
  <2>2. FollowsOK'
    BY <1>1, <1>3, ApplyFollows
  <2>3. DepthsOK' /\ RunOK'
    BY <1>1, <2>1, DepthsUnchanged, RunIdle
  <2> QED BY <1>1, <2>1, <2>2, <2>3, NothingDone DEF OriginalInv, genVars
<1>4. CASE InsertProbe
  <2>1. ~running /\ UNCHANGED <<genVars, runVars>>
    BY <1>4 DEF InsertProbe
  <2>2. FollowsOK'
    BY <1>1, <1>4, InsertProbeFollows
  <2>3. DepthsOK' /\ RunOK'
    BY <1>1, <2>1, DepthsUnchanged, RunIdle
  <2> QED BY <1>1, <2>1, <2>2, <2>3, NothingDone DEF OriginalInv, genVars
<1>5. CASE UNCHANGED <<genVars, graph, target, runVars>>
  <2>1. UNCHANGED <<shape, code, depths, graph, target, running, at, stack, slot>>
    BY <1>5 DEF genVars, runVars
  <2>2. DepthsOK' /\ FollowsOK' /\ RunOK'
    BY <1>1, <1>5, <2>1, DepthsUnchanged, FollowsUnchanged, RunUnchanged
  <2> QED BY <1>1, <1>5, <2>1, <2>2, NothingDone DEF OriginalInv
<1>6. CASE UseLocals
  BY <1>5, <1>6 DEF UseLocals
<1>7. CASE UNCHANGED vars
  BY <1>5, <1>7 DEF vars
<1> QED BY <1>2, <1>3, <1>4, <1>6, <1>7, RenderDoes, ExecuteDoes DEF Next

\* For method bodies of any length with any jumps, returns, tail calls and a handler, however often the single return is
\* applied, half-way or not, and wherever the probe is: the method that runs does what the original does, instruction by
\* instruction, with the same values on the stack, and returns the same value or ends the same way.
THEOREM ImplementsTheOriginal == Spec => ImplementsOriginal
<1>1. Init => OriginalInv /\ Original!Init
  BY OriginalInit
<1>2. OriginalInv /\ [Next]_vars => OriginalInv' /\ [Original!Next]_(Original!vars)
  BY OriginalNext DEF Does
<1> QED BY <1>1, <1>2, PTL DEF Spec, ImplementsOriginal, Original!Spec
=============================================================================
