-------------------------------- MODULE Pool --------------------------------
(***************************************************************************)
(* What the kernel's memory manager promises its clients                   *)
(* (src/docu/chapter/program.sti, implemented by src/sting/setup.c): a     *)
(* block that is handed out lies in units nobody holds, in one piece, and  *)
(* only a client's own release makes units available again.                *)
(***************************************************************************)
EXTENDS Integers

CONSTANTS MemSize, MaxReq
VARIABLE held  \* the units that belong to some client

Runs == {lo .. hi : lo, hi \in 0 .. MemSize - 1} \ {{}}

Init == held = {}

\* KRmalloc: a piece of free memory becomes the caller's.
Grant(piece) ==
    /\ piece \cap held = {}
    /\ \E lo \in piece, n \in 1 .. MaxReq : piece = lo .. lo + n - 1
    /\ held' = held \cup piece

\* KRfree: one piece the clients hold is given back.
Release(piece) ==
    /\ piece \subseteq held
    /\ held' = held \ piece

Next == \E piece \in Runs : Grant(piece) \/ Release(piece)

Spec == Init /\ [][Next]_held
=============================================================================
