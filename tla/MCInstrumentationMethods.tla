---------------------- MODULE MCInstrumentationMethods ----------------------
(* Instances of InstrumentationMethods: a and b are configured and share a    *)
(* class id, c is added at run time. *)
EXTENDS InstrumentationMethods, TLC

CONSTANTS a, b, c, g1, g2

MCMethods == {a, b, c}
MCGuids == {g1, g2}
MCClassId == a :> g1 @@ b :> g1 @@ c :> g2
MCPriority == a :> 2 @@ b :> 1 @@ c :> 2
MCConfig == <<a, b>>
=============================================================================
