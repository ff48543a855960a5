------------------------------ MODULE MCIpCore ------------------------------
(***************************************************************************)
(* Small traffic for the IP core: each header stands for one way through   *)
(* the kernel.                                                             *)
(***************************************************************************)
EXTENDS IpCore, TLC

Header(prot, kind, src, dst) ==
    [prot |-> prot, kind |-> kind, src |-> src, dst |-> dst,
     part |-> "whole", size |-> "fits", sound |-> TRUE]

Request  == Header("icmp", "echo", "there", "here")
Mask     == Header("icmp", "mask", "there", "here")
Start    == [Header("udp", "data", "there", "here") EXCEPT !.part = "first"]
Broken   == [Request EXCEPT !.sound = FALSE]
Unknown  == Header("dead", "data", "nowhere", "here")
Large    == Header("udp", "data", "here", "there")
Lost     == Header("udp", "data", "here", "nowhere")

\* What arrives as a fragment is delivered as a whole; the error about Unknown is itself undeliverable.
MCArrivals == {Broken, Mask, Request, Start, Unknown}
MCSends == {[Large EXCEPT !.size = "split"], Lost}
=============================================================================
