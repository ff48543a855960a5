------------------------------ MODULE MCFragm ------------------------------
(***************************************************************************)
(* Blocks of 2 bytes and 2 blocks to a byte of blk_bits: 4 bytes of data   *)
(* stand for the 64 of the program, 2 for its 8.                           *)
(***************************************************************************)
EXTENDS Fragm, TLC

CONSTANTS d1, d2

OneLink  == <<[first |-> 2, others |-> 2]>>
TwoLinks == <<[first |-> 8, others |-> 8], [first |-> 4, others |-> 4]>>

\* No fragment is cut again on OneLink.
ASSUME OneLinkAssumption == Path = OneLink => CutOnce

\* With these a fragment ends where the buffer and a byte of blk_bits end.
OnEdge   == <<[first |-> 4, others |-> 4]>>
Tens     == [d \in Datagrams |-> 10]

\* One ends within a block, the other with a block but not with a byte of
\* blk_bits.
Lengths  == (d1 :> 5) @@ (d2 :> 6)
TwoTwice == [d \in Datagrams |-> 16]  \* two fragments on each of TwoLinks

Calm  == [ordered |-> TRUE, losing |-> FALSE, dirt |-> {}, stale |-> {}]
Rough == [ordered |-> FALSE, losing |-> TRUE, dirt |-> {2, 3}, stale |-> {d1}]
Leaky == [ordered |-> TRUE, losing |-> TRUE, dirt |-> {}, stale |-> {}]

AnyNetwork == {Calm, Rough}
LeakyOnly  == {Leaky}
=============================================================================
