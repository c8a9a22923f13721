--------------------------- MODULE MCSingleReturn ---------------------------
(* Method bodies for SingleReturn.                                            *)
EXTENDS SingleReturn

Body(len, ops, targets, returns) ==
    [len |-> len, ops |-> ops, targets |-> targets, returns |-> returns, tryEnd |-> 0, handlerEnd |-> 0,
     locals |-> FALSE]

\* Any jumps, forwards and backwards.
Branching == {Body(5, {"ld", "pop", "br", "brtrue", "ret", "throw"}, 1 .. 5, r) : r \in {"void", "value", "byref"}}

\* Switches with up to two targets.
Switching == {Body(6, {"ld", "pop", "switch", "ret"}, 3 .. 6, r) : r \in {"void", "value"}}

\* Tail calls between returns, with jumps to any of these.
TailCalling ==
    {Body(8, {"ld", "switch", "tail", "call", "pop", "ret"}, {4, 5, 8}, "void"),
     Body(8, {"ld", "brtrue", "tail", "call", "ret"}, {5, 6}, "value")}

\* A try range of two or three instructions and a handler of two.
Throwing ==
    {[Body(8, {"ld", "pop", "leave", "throw", "brtrue", "ret"}, 5 .. 8, r) EXCEPT !.tryEnd = e, !.handlerEnd = e + 2] :
        r \in {"void", "value"}, e \in {2, 3}}

\* Two returns, and other users of the locals.
UsingLocals == {[Body(4, {"ld", "br", "ret"}, {3}, r) EXCEPT !.locals = TRUE] : r \in {"void", "value"}}

MCShapes == UsingLocals \cup Branching \cup Switching \cup TailCalling \cup Throwing
=============================================================================
