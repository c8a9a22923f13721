------------------------------ MODULE EventLog ------------------------------
(* What an event logger promises its callers: the entries it accepts are      *)
(* given to the system's event log in the order it accepted them, each once,  *)
(* and for as long as the logger works each of them eventually. The event log *)
(* may refuse an entry; a logger that works never writes to a closed one.     *)
EXTENDS Sequences

CONSTANT Entries

VARIABLES
    pending,    \* accepted, not yet given to the event log
    given,      \* given to the event log
    outcomes,   \* what the event log did with each of them
    works       \* whether the logger's thread runs, hears of new entries and has an open event log

vars == <<pending, given, outcomes, works>>

Init == pending = <<>> /\ given = <<>> /\ outcomes = <<>> /\ works = TRUE

Accept(e) == pending' = Append(pending, e) /\ works' \in BOOLEAN /\ UNCHANGED <<given, outcomes>>

Give(o) ==
    /\ pending # <<>>
    /\ given' = Append(given, Head(pending))
    /\ outcomes' = Append(outcomes, o)
    /\ pending' = Tail(pending)
    /\ UNCHANGED works

Write == Give("written")

Refuse == Give("refused")

\* Entries that a logger still holds when it is closed may be lost.
Lose == ~works /\ Give("closed")

\* The logger stops working, or hears of its entries again.
Change == works' \in BOOLEAN /\ UNCHANGED <<pending, given, outcomes>>

Next == (\E e \in Entries : Accept(e)) \/ Write \/ Refuse \/ Lose \/ Change

Spec == Init /\ [][Next]_vars /\ WF_vars(works /\ (Write \/ Refuse))
=============================================================================
