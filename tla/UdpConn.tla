------------------------------ MODULE UdpConn ------------------------------
(***************************************************************************)
(* The connections of the UDP module (src/proto/udp/udp.c): UDP_open and   *)
(* UDP_close, which the tasks make in several steps, the choice of the     *)
(* connection a datagram goes to, and the ICMP errors, which the interrupt *)
(* delivers between any two of them.  Handles come from the pool of the    *)
(* kernel (Handles).  What happens to the data is in UdpQueue.             *)
(***************************************************************************)
EXTENDS Handles

CONSTANTS
    Tasks,       \* tasks that open and close connections
    Hosts,       \* remote hosts
    Ports        \* local ports, also those of next_port

Conns == Connections  \* as many CONNEC structures as there is memory for

VARIABLES
    conn,        \* contents of each CONNEC, or NULL when it is free
    root_list,   \* the connections the interrupt sees
    last_port,   \* port next_port gave last
    task,        \* the call each task is in
    spinning     \* TRUE once next_port or unlink_connect runs without end, interrupts off

vars == <<cn_array, next_handle, searching, holder, conn, root_list, last_port, task, spinning>>

Raw == [host |-> NULL, port |-> 0, lhost |-> FALSE, error |-> FALSE, raw |-> TRUE]
Contents == [host : Hosts \cup {NULL}, port : Ports \cup {0},  \* of the remote side: host, and the local port
             lhost : BOOLEAN,                                  \* whether local_IP_address is set
             error : BOOLEAN, raw : BOOLEAN]

ASSUME UdpAssumption ==
    NULL \notin Hosts \cup Contents /\ Ports \subseteq Nat /\ Ports # {}

NoCall == [at |-> "none", conn |-> NULL, handle |-> -1, port |-> 0, host |-> NULL, first |-> <<>>]

TypeOK ==
    /\ PoolTypeOK
    /\ \A c \in Conns : conn[c] = NULL \/ conn[c] \in Contents
    /\ root_list \in Seq(Conns)
    /\ last_port \in Ports
    /\ \A t \in Tasks :
         /\ task[t].at \in {"none", "request", "refused", "fill", "read", "link", "free", "release"}
         /\ task[t].conn \in Conns \cup {NULL} /\ task[t].handle \in Handle \cup {-1}
    /\ spinning \in BOOLEAN

Init ==
    /\ PoolInit
    /\ conn = [c \in Conns |-> NULL]
    /\ root_list = <<>> /\ last_port = Min(Ports)
    /\ task = [t \in Tasks |-> NoCall]
    /\ spinning = FALSE

\* With interrupts off for ever nobody else runs.
Runs == ~spinning /\ ~searching
Listed(c) == c \in ToSet(root_list)

(***************************************************************************)
(* UDP_open                                                                *)
(***************************************************************************)
\* next_port: the first behind last_port that no connection has.
Taken == {conn[c].port : c \in {c \in ToSet(root_list) : conn[c] # NULL}}
Distance(p) == (p - last_port - 1 + Cardinality(Ports)) % Cardinality(Ports)
IsNextPort(p) == p \in Ports \ Taken /\ \A q \in Ports \ Taken : Distance(p) <= Distance(q)

\* With no port left the search never ends.
NoPortLeft(t, host) ==
    /\ Runs /\ task[t] = NoCall /\ host # NULL /\ Ports \subseteq Taken
    /\ spinning' = TRUE
    /\ UNCHANGED <<conn, root_list, last_port, task>> /\ UNCHANGED pool

\* A client names the remote host, or only the local port. The port is chosen, and
\* the structure is allocated, which nobody else sees; without memory for it the call
\* ends here.
UDP_open(t, host, port) ==
    /\ Runs /\ task[t] = NoCall
    /\ IF host = NULL THEN port \in Ports /\ UNCHANGED last_port
       ELSE IsNextPort(port) /\ last_port' = port
    /\ \/ \E c \in Conns :
            /\ conn[c] = NULL
            /\ conn' = [conn EXCEPT ![c] = Raw]
            /\ task' = [task EXCEPT ![t] = [NoCall EXCEPT !.at = "request", !.conn = c,
                                                         !.port = port, !.host = host]]
       \/ UNCHANGED <<conn, task>>
    /\ UNCHANGED <<root_list, spinning>> /\ UNCHANGED pool

request(t) ==
    /\ Runs /\ task[t].at = "request"
    /\ \/ \E h \in Handle \cup {-1} :
            /\ PRTCL_request(h, task[t].conn)
            /\ task' = [task EXCEPT ![t].handle = h, ![t].at = IF h = -1 THEN "refused" ELSE "fill"]
       \/ NoneLeft /\ UNCHANGED task
    /\ UNCHANGED <<conn, root_list, last_port, spinning>>

\* E_NOMEM. Plausible slip: the structure is kept.
KeepsRefused(t) ==
    /\ Runs /\ task[t].at = "refused"
    /\ task' = [task EXCEPT ![t] = NoCall]
    /\ UNCHANGED <<conn, root_list, last_port, spinning>> /\ UNCHANGED pool
refused(t) ==
    /\ Runs /\ task[t].at = "refused"
    /\ conn' = [conn EXCEPT ![task[t].conn] = NULL]
    /\ task' = [task EXCEPT ![t] = NoCall]
    /\ UNCHANGED <<root_list, last_port, spinning>> /\ UNCHANGED pool

fill(t) ==
    LET k == task[t]
    IN  /\ Runs /\ k.at = "fill"
        /\ conn' = [conn EXCEPT ![k.conn] =
                      [host |-> k.host, port |-> k.port, lhost |-> k.host # NULL,
                       error |-> FALSE, raw |-> FALSE]]
        /\ task' = [task EXCEPT ![t].at = "read"]
        /\ UNCHANGED <<root_list, last_port, spinning>> /\ UNCHANGED pool

\* connect->next = root_list and root_list = connect, with nothing that keeps
\* another task away in between.
read(t) ==
    /\ Runs /\ task[t].at = "read"
    /\ task' = [task EXCEPT ![t].at = "link", ![t].first = root_list]
    /\ UNCHANGED <<conn, root_list, last_port, spinning>> /\ UNCHANGED pool

\* Plausible slip: the connection is returned before it is linked.
NeverLinks(t) ==
    /\ Runs /\ task[t].at = "link"
    /\ task' = [task EXCEPT ![t] = NoCall]
    /\ UNCHANGED <<conn, root_list, last_port, spinning>> /\ UNCHANGED pool
link(t) ==
    /\ Runs /\ task[t].at = "link"
    /\ root_list' = <<task[t].conn>> \o task[t].first
    /\ task' = [task EXCEPT ![t] = NoCall]
    /\ UNCHANGED <<conn, last_port, spinning>> /\ UNCHANGED pool

(***************************************************************************)
(* UDP_close                                                               *)
(***************************************************************************)
\* unlink_connect only ever looks at the first of the list.
unlink_connect(c) ==
    IF root_list # <<>> /\ Head(root_list) # c THEN spinning' = TRUE /\ UNCHANGED root_list
    ELSE root_list' = SubSeq(root_list, 2, Len(root_list)) /\ UNCHANGED spinning

\* Handles of calls that did not return yet: no client knows or uses them.
InCall == {task[t].handle : t \in Tasks}

\* A client closes a connection that is open; a bad handle changes nothing.
UDP_close(t, h) ==
    LET c == do_lookup(h)
    IN  /\ Runs /\ task[t] = NoCall /\ c # NULL /\ h \notin InCall
        /\ unlink_connect(c)
        /\ task' = [task EXCEPT ![t] = IF spinning' THEN @
                      ELSE [NoCall EXCEPT !.at = "free", !.conn = c, !.handle = h]]
        /\ UNCHANGED <<conn, last_port>> /\ UNCHANGED pool

free(t) ==
    /\ Runs /\ task[t].at = "free"
    /\ conn' = [conn EXCEPT ![task[t].conn] = NULL]
    /\ task' = [task EXCEPT ![t].at = "release"]
    /\ UNCHANGED <<root_list, last_port, spinning>> /\ UNCHANGED pool

release(t) ==
    /\ Runs /\ task[t].at = "release"
    /\ PRTCL_release(task[t].handle)
    /\ task' = [task EXCEPT ![t] = NoCall]
    /\ UNCHANGED <<conn, root_list, last_port, spinning>>

(***************************************************************************)
(* The interrupt                                                           *)
(***************************************************************************)
Fits(c, port, host) == conn[c].port = port /\ conn[c].host \in {NULL, host}
Full(c) == conn[c].lhost /\ conn[c].host # NULL
Places(port, host, all) ==
    {i \in 1 .. Len(root_list) : Fits(root_list[i], port, host) /\ (all => Full(root_list[i]))}

\* The first connection that is fully specified, else the last that fits.
\* Plausible slip: the first that fits, specified or not.
FirstFits(port, host) == Min(Places(port, host, FALSE))
Chosen(port, host) ==
    IF Places(port, host, TRUE) # {} THEN Min(Places(port, host, TRUE))
    ELSE Max(Places(port, host, FALSE))

\* Whoever sends first is the remote host from then on.
Bound(c, host) == [conn[c] EXCEPT !.host = host, !.lhost = TRUE]

UDP_handler(port, host) ==
    /\ Runs
    /\ Places(port, host, FALSE) # {}  \* else an ICMP error is sent
    /\ LET c == root_list[Chosen(port, host)]
       IN  conn' = [conn EXCEPT ![c] = Bound(c, host)]
    /\ UNCHANGED <<root_list, last_port, task, spinning>> /\ UNCHANGED pool

do_ICMP(port, host) ==
    LET hits == {i \in 1 .. Len(root_list) :
                   /\ conn[root_list[i]].port = port
                   /\ conn[root_list[i]].host = host /\ conn[root_list[i]].lhost}
    IN  /\ Runs /\ hits # {}
        /\ conn' = [conn EXCEPT ![root_list[Min(hits)]].error = TRUE]
        /\ UNCHANGED <<root_list, last_port, task, spinning>> /\ UNCHANGED pool

\* UDP_send and the CN* calls report the error once.
report(h) ==
    LET c == do_lookup(h)
    IN  /\ Runs /\ c # NULL /\ h \notin InCall /\ conn[c].error
        /\ conn' = [conn EXCEPT ![c].error = FALSE]
        /\ UNCHANGED <<root_list, last_port, task, spinning>> /\ UNCHANGED pool

Hangs == ~Runs /\ UNCHANGED vars

Calls(t) == request(t) \/ refused(t) \/ fill(t) \/ read(t) \/ link(t) \/ free(t) \/ release(t)

Next ==
    \/ \E t \in Tasks, host \in Hosts \cup {NULL}, port \in Ports : UDP_open(t, host, port)
    \/ \E t \in Tasks, host \in Hosts : NoPortLeft(t, host)
    \/ \E t \in Tasks, h \in Handle : UDP_close(t, h)
    \/ \E t \in Tasks : Calls(t)
    \/ \E port \in Ports, host \in Hosts : UDP_handler(port, host) \/ do_ICMP(port, host)
    \/ \E h \in Handle : report(h)
    \/ Hangs

Spec == Init /\ [][Next]_vars

(***************************************************************************)
(* Properties                                                              *)
(***************************************************************************)
\* Nobody opens or closes between the two steps in which UDP_open links its
\* connection.  Nothing in the code keeps another task from it, and then one of the
\* two connections is lost, so what follows is said of the time without it.
ListAsRead == \A t \in Tasks : task[t].at = "link" => task[t].first = root_list

\* Whoever holds a handle has a connection that exists and that datagrams find.
HandleReceives ==
    \A h \in Handle \ InCall : holder[h] # NULL
        => conn[holder[h]] # NULL /\ Listed(holder[h])

\* Nothing is lost of what UDP_open took, however it ends: every structure belongs
\* to one handle, or to the one call that has it in hand and will give it a handle or
\* back, and what was given back to neither. (UDP_close frees the structure before the
\* handle: meanwhile the handle leads to what may have been given to somebody else.)
Rights(c) == {h \in Handle : holder[h] = c /\ \A t \in Tasks : task[t].at = "release" => task[t].handle # h}
Hands(c)  == {t \in Tasks : task[t].at \in {"request", "refused"} /\ task[t].conn = c}
NothingLeaks ==
    \A c \in Conns :
        IF conn[c] = NULL THEN Rights(c) = {} /\ Hands(c) = {}
        ELSE \/ Hands(c) = {} /\ \E h \in Handle : Rights(c) = {h}
             \/ Rights(c) = {} /\ \E t \in Tasks : Hands(c) = {t}

\* A datagram for a host that has a connection of its own leaves the endpoints
\* open that wait for anybody.
WaitingStaysOpen ==
    [][\A c, d \in Conns :
         (/\ Listed(c) /\ Listed(d) /\ conn[c].host = NULL /\ conn'[c] # NULL
          /\ conn'[c].host # NULL /\ Full(d) /\ conn[d].port = conn[c].port)
            => conn[d].host # conn'[c].host]_vars

\* "The UDP_close call returns immediately." No call runs for ever.
CallsReturn == Runs
=============================================================================
