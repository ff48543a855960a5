------------------------------ MODULE Mailbox ------------------------------
(***************************************************************************)
(* What IP_fetch promises the high level protocols                         *)
(* (src/docu/chapter/program.sti): one queue per protocol, read in the     *)
(* order of arrival.  A datagram that is given to a reader is its own; one *)
(* that nobody read leaves only when its time is over, and given to nobody.*)
(***************************************************************************)
EXTENDS Sequences, Naturals

CONSTANTS Protocols, Dgrams
VARIABLES
    box,    \* what waits for each protocol, the oldest first
    given,  \* what the readers own
    late    \* what waits and is too old

Init == box = [p \in Protocols |-> <<>>] /\ given = {} /\ late = {}

Waits(d) == \E p \in Protocols : \E i \in 1 .. Len(box[p]) : box[p][i] = d

Arrive(p, d) == box' = [box EXCEPT ![p] = Append(@, d)] /\ UNCHANGED <<given, late>>

Fetch(p) ==
    /\ box[p] # <<>>
    /\ box' = [box EXCEPT ![p] = Tail(@)]
    /\ given' = given \cup {Head(box[p])} /\ late' = late \ {Head(box[p])}

Age(old) == (\A d \in old : Waits(d)) /\ late' = late \cup old /\ UNCHANGED <<box, given>>

Expire(p, i) ==
    /\ box[p][i] \in late
    /\ box' = [box EXCEPT ![p] = SubSeq(@, 1, i - 1) \o SubSeq(@, i + 1, Len(@))]
    /\ late' = late \ {box[p][i]} /\ UNCHANGED given

\* A handler takes what never waited; the reader gives back what it owns.
Hand(d)    == ~Waits(d) /\ given' = given \cup {d} /\ UNCHANGED <<box, late>>
Discard(d) == d \in given /\ given' = given \ {d} /\ UNCHANGED <<box, late>>

Next ==
    \/ \E p \in Protocols : Fetch(p) \/ \E i \in 1 .. Len(box[p]) : Expire(p, i)
    \/ \E p \in Protocols, d \in Dgrams : Arrive(p, d)
    \/ \E d \in Dgrams : Hand(d) \/ Discard(d)
    \/ \E old \in SUBSET Dgrams : Age(old)

Spec == Init /\ [][Next]_<<box, given, late>>
=============================================================================
