------------------------------- MODULE Stream -------------------------------
(***************************************************************************)
(* What the calls of the connection manager promise the reader of a        *)
(* pseudo connection (src/docu/chapter/program.sti): the bytes of the      *)
(* datagrams, in the order of arrival, each of them once.                  *)
(***************************************************************************)
EXTENDS Naturals, Sequences

CONSTANT Bytes
VARIABLES unread, given

Init == unread = <<>> /\ given = <<>>

Arrive ==
    /\ Len(unread') >= Len(unread)
    /\ SubSeq(unread', 1, Len(unread)) = unread
    /\ \A i \in 1 .. Len(unread') : unread'[i] \in Bytes
    /\ UNCHANGED given

Read ==
    \E n \in 1 .. Len(unread) :
        /\ given'  = given \o SubSeq(unread, 1, n)
        /\ unread' = SubSeq(unread, n + 1, Len(unread))

Spec == Init /\ [][Arrive \/ Read]_<<unread, given>>
=============================================================================
