----------------------------- MODULE Connection -----------------------------
(***************************************************************************)
(* What TCP promises for one direction of a connection                     *)
(* (src/docu/chapter/program.sti, TCP_send and TCP_close): the reader gets *)
(* the bytes that were accepted for sending, each once and in order, and   *)
(* is told of the end only when it has all of them.                        *)
(***************************************************************************)
EXTENDS Naturals, SequencesExt

VARIABLES
    accepted, \* the bytes taken from the sender
    given,    \* the bytes given to the reader
    ended,    \* the sender has closed
    eof       \* the reader is told that nothing follows

Init == accepted = <<>> /\ given = <<>> /\ ended = FALSE /\ eof = FALSE

Send ==
    /\ ~ended /\ IsPrefix(accepted, accepted')
    /\ UNCHANGED <<given, ended, eof>>

End ==
    /\ ended' = TRUE
    /\ UNCHANGED <<accepted, given, eof>>

Give ==
    /\ IsPrefix(given, given') /\ IsPrefix(given', accepted)
    /\ eof' = (ended /\ given' = accepted /\ eof')
    /\ UNCHANGED <<accepted, ended>>

Spec == Init /\ [][Send \/ End \/ Give]_<<accepted, given, ended, eof>>
=============================================================================
