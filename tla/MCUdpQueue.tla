----------------------------- MODULE MCUdpQueue -----------------------------
(***************************************************************************)
(* Short datagrams with and without a delimiter, and an empty one.         *)
(***************************************************************************)
EXTENDS UdpQueue, TLC

MCPayloads == {<<>>, <<"x">>, <<"n">>, <<"x", "x">>, <<"x", "n">>, <<"n", "x">>}
Symmetric  == Permutations(Callers)

\* One task makes all calls, and another none; or both make all but CNget_block.
Alone  == {[c \in Callers |-> IF c = who THEN Calls ELSE {}] : who \in Callers}
Shared == [c \in Callers |-> Calls \ {"get_block"}]
AloneOrShared == Alone \cup {Shared}
=============================================================================
