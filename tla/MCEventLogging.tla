--------------------------- MODULE MCEventLogging ---------------------------
(* Four entries, one of them empty, against a limit that two of them reach.   *)
EXTENDS EventLogging, TLC

CONSTANTS entryA, entryB, entryC, entryEmpty

Lengths == entryA :> 1 @@ entryB :> 2 @@ entryC :> 3 @@ entryEmpty :> 0
=============================================================================
