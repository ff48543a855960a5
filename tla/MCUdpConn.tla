----------------------------- MODULE MCUdpConn -----------------------------
(***************************************************************************)
(* Two tasks on the connections of UDP; tasks, connections and remote      *)
(* hosts are alike.                                                        *)
(***************************************************************************)
EXTENDS UdpConn, TLC

Symmetric == Permutations(Tasks) \cup Permutations(Conns) \cup Permutations(Hosts)
=============================================================================
