----------------------------- MODULE MCResolver -----------------------------
(***************************************************************************)
(* An alias of a name that has two addresses, and two names for one        *)
(* address; a user who enters a host for ever that the servers do not know.*)
(***************************************************************************)
EXTENDS Resolver

CONSTANTS www, host, home

MCNames == {www, host, home}
MCZone == {[name |-> host, real |-> host, ip |-> 1, ttl |-> 1],
           [name |-> host, real |-> host, ip |-> 2, ttl |-> 2],
           [name |-> www, real |-> host, ip |-> 1, ttl |-> 1]}
MCCommands == {[name |-> home, ip |-> 3, ttl |-> 0, type |-> "DNS_A"]}
=============================================================================
