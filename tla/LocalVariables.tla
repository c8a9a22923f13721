--------------------------- MODULE LocalVariables ---------------------------
(* CLocalVariableCollection, the local variables of a method under             *)
(* instrumentation: parties add locals, or replace the signature, and get      *)
(* indexes before the signature exists; it is committed when the method is     *)
(* rendered. A signature is the sequence of its types.                         *)
EXTENDS Naturals, Sequences

CONSTANTS
    Types,
    MaxLocals,  \* bound on the locals of a method
    Garbled,    \* a signature that does not parse
    Null

VARIABLES
    sigToken,               \* the signature the header of the new method names
    initialized, originalLocalsCount, typesToAdd,
    replacementSig,         \* Null when empty
    given,                  \* history: the indexes AddLocal has returned, with their types
    overwritten             \* history: the header was changed under the collection

vars == <<sigToken, initialized, originalLocalsCount, typesToAdd, replacementSig, given, overwritten>>

\* GetOriginalSignatureInfo
OriginalSignature == IF replacementSig = Null THEN sigToken ELSE replacementSig

CanInitialize == initialized \/ OriginalSignature # Garbled
Count == IF initialized THEN originalLocalsCount ELSE Len(OriginalSignature)
Initialize ==
    /\ CanInitialize
    /\ initialized' = TRUE
    /\ originalLocalsCount' = Count

\* GetCount, GetEnum and a GetCorSignature from outside: all they change is this.
GetCount ==
    /\ Initialize
    /\ UNCHANGED <<sigToken, typesToAdd, replacementSig, given, overwritten>>

AddLocal(type) ==
    /\ Initialize
    /\ Count + Len(typesToAdd) < MaxLocals
    /\ typesToAdd' = Append(typesToAdd, type)
    /\ given' = given \cup {[index |-> Count + Len(typesToAdd), type |-> type]}
    /\ UNCHANGED <<sigToken, replacementSig, overwritten>>

\* Mutant of ReplaceSignature: one that parses is not refused once the count has been taken.
ReplaceAnytime(sig) ==
    /\ ~initialized \/ sig # Garbled
    /\ replacementSig' = sig
    /\ IF sig = Garbled
       THEN UNCHANGED <<initialized, originalLocalsCount>>
       ELSE initialized' = TRUE /\ originalLocalsCount' = Len(sig)
    /\ UNCHANGED <<sigToken, typesToAdd, given, overwritten>>

\* A signature that cannot be parsed stays, and the collection cannot be initialized then.
ReplaceSignature(sig) ==
    /\ ~initialized
    /\ replacementSig' = sig
    /\ IF sig = Garbled
       THEN UNCHANGED <<initialized, originalLocalsCount>>
       ELSE initialized' = TRUE /\ originalLocalsCount' = Len(sig)
    /\ UNCHANGED <<sigToken, typesToAdd, given, overwritten>>

\* GetCorSignature writes a count and then the types; readers go by the count.
CorSignature ==
    LET count == originalLocalsCount + Len(typesToAdd)
        types == (IF originalLocalsCount > 0 THEN OriginalSignature ELSE <<>>) \o typesToAdd
    IN  IF count < Len(types) THEN SubSeq(types, 1, count) ELSE types

IsChanged == initialized /\ (typesToAdd # <<>> \/ replacementSig # Null)

\* Without changes this is S_FALSE and nothing happens.
CommitSignature ==
    IF IsChanged
    THEN /\ sigToken' = CorSignature
         /\ typesToAdd' = <<>>
         /\ originalLocalsCount' = 0
         /\ initialized' = FALSE
         /\ replacementSig' = Null
         /\ UNCHANGED <<given, overwritten>>
    ELSE UNCHANGED vars

\* CMethodInfo::SetLocalVarSigToken, which the collection does not hear of.
SetLocalVarSigToken(sig) ==
    /\ sigToken' = sig
    /\ overwritten' = (overwritten \/ initialized)
    /\ UNCHANGED <<initialized, originalLocalsCount, typesToAdd, replacementSig, given>>

Init ==
    /\ sigToken \in {<<>>} \cup {<<t>> : t \in Types}
    /\ initialized = FALSE
    /\ originalLocalsCount = 0
    /\ typesToAdd = <<>>
    /\ replacementSig = Null
    /\ given = {}
    /\ overwritten = FALSE

\* The method's own code uses the locals it has: signatures that callers bring begin with these.
Extensions == {sigToken} \cup {Append(sigToken, t) : t \in IF Len(sigToken) < MaxLocals THEN Types ELSE {}}

Next ==
    \/ GetCount
    \/ \E t \in Types : AddLocal(t)
    \/ \E sig \in Extensions \cup {Garbled} : ReplaceSignature(sig)
    \/ CommitSignature
    \/ \E sig \in Extensions : SetLocalVarSigToken(sig)

Spec == Init /\ [][Next]_vars

-----------------------------------------------------------------------------

TypeOK ==
    /\ sigToken \in Seq(Types)
    /\ initialized \in BOOLEAN
    /\ originalLocalsCount \in Nat
    /\ typesToAdd \in Seq(Types)
    /\ replacementSig \in Seq(Types) \cup {Null, Garbled}
    /\ given \subseteq [index : Nat, type : Types]
    /\ overwritten \in BOOLEAN

FinalSignature == IF IsChanged THEN CorSignature ELSE sigToken

\* Indexes are handed out long before the signature exists and are already part of
\* instructions then. Whoever adds locals, replaces or commits the signature in
\* whatever order: in the signature of the rendered method an index still names a
\* local of the type that was added. (Unless SetLocalVarSigToken changes the header
\* while the collection holds a count of it.)
IndexesNameLocals ==
    ~overwritten => \A g \in given :
        g.index < Len(FinalSignature) /\ FinalSignature[g.index + 1] = g.type
=============================================================================
