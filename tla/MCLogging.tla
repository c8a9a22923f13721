----------------------------- MODULE MCLogging -----------------------------
(* Two engines in one process, and a wrapper.                                 *)
EXTENDS Logging, TLC

CONSTANTS eng1, eng2, wrap1, levelErrors, levelTrace, guidA, guidB, badPath, goodPath

AtTrace == guidA :> {levelTrace} @@ guidB :> {levelErrors}
OneUnset == guidA :> {levelTrace} @@ guidB :> Unset
Symmetric == Permutations({eng1, eng2})
============================================================================
