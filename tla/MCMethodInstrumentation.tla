---------------------- MODULE MCMethodInstrumentation ----------------------
(* Model values and small sets for checking MethodInstrumentation.            *)
EXTENDS MethodInstrumentation, TLC

CONSTANTS t1, t2, f1, f2, f3, ka, kb, m1, m2

TwoThreads == {t1, t2}
TwoMethods == <<m1, m2>>

\* f1 and f2 are two instances of one generic method.
Generic == f1 :> ka @@ f2 :> ka @@ f3 :> kb

\* An instruction inserted at offset 1, and a map over the result.
MCEncodeMaps == {<< <<0, 0>>, <<1, 2>> >>}
MCBaselineMaps == {<< <<1, 1>> >>}
MCRawMaps == {<< <<0, 0>>, <<1, 1>>, <<2, 3>> >>}

\* The raw profiler may write the generic method before the engine reads it.
RawBodies == ka :> 1 @@ kb :> 0

Symmetric == Permutations(TwoThreads) \cup Permutations({f1, f2})
============================================================================
