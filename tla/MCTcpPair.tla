----------------------------- MODULE MCTcpPair -----------------------------
(***************************************************************************)
(* Plans of the clients for TcpPair: A sends two bytes and closes in any   *)
(* way, while B goes on; A sends one and both close, over a network that   *)
(* fails; both open actively; each sends one; A sends three; A closes a    *)
(* second time.  Last, A fills a window of B that nobody reads.  The       *)
(* numbers of A wrap.                                                      *)
(***************************************************************************)
EXTENDS TcpPair

MCIni == [s \in Side |-> IF s = "A" THEN 30 ELSE 5]

Plan(a, b, listens, closeA, closeB, again, f) ==
    [A |-> a, B |-> b, listens |-> listens, modes |-> [s \in Side |-> IF s = "A" THEN closeA ELSE closeB],
     again |-> again, faults |-> f]
MCPlans ==
    {Plan(2, 0, TRUE,  Modes,                  {},              FALSE, 1),
     Plan(1, 0, TRUE,  {"wait"},               {"background"},  FALSE, 1),
     Plan(1, 0, FALSE, {"background"},         {"wait"},        FALSE, 0),
     Plan(1, 1, TRUE,  {"wait"},               {"wait", "now"}, FALSE, 0),
     Plan(3, 0, TRUE,  {"wait"},               {"wait"},        FALSE, 0),
     Plan(1, 0, TRUE,  {"wait", "background"}, {"now"},         TRUE,  0)}
MCBoth  == {Plan(1, 1, TRUE, {"wait"}, {"wait"}, FALSE, 0)}
MCFull  == {Plan(5, 1, TRUE, {"wait"}, {"wait"}, FALSE, 2)}

\* Nobody reads, B does not close, and little is under way.
Unread == ~closed["B"] /\ ~kicked /\ \A s \in Side : given[s] = <<>> /\ Len(net[s]) <= 3
=============================================================================
