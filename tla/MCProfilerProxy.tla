--------------------------- MODULE MCProfilerProxy ---------------------------
(* Versions for ProfilerProxy.                                                *)
EXTENDS ProfilerProxy

Release(minor, patch) ==
    [minor |-> minor, patch |-> patch, preview |-> FALSE, build |-> 0, debug |-> FALSE]

\* Releases on both sides of a further digit, and a preview.
MCVersions == {Release(0, 9), Release(0, 10), [Release(0, 10) EXCEPT !.preview = TRUE, !.build = 1]}
=============================================================================
