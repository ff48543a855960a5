-------------------------------- MODULE MCPpp --------------------------------
(***************************************************************************)
(* What can happen on the serial line.                                     *)
(***************************************************************************)
EXTENDS Ppp

Plan(a, b, modem, closes, n, conf) ==
    [wants |-> [s \in Sides |-> IF s = "A" THEN a ELSE b], modem |-> modem, closes |-> closes, faults |-> n, conf |-> conf, term |-> 1]

\* Two hosts with different options and a bad line; a user who closes, and opens with other
\* options; the same with a modem.
MCPlans == {Plan({"VJHC", "DNS"}, {"VJHC"}, FALSE, {}, 2, 3),
            Plan({"VJHC"}, {"VJHC"}, FALSE, {"A"}, 0, 2),
            Plan({}, {}, TRUE, {"B"}, 0, 2)}
=============================================================================
