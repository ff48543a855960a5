------------------------------- MODULE IpCore -------------------------------
(***************************************************************************)
(* The IP core (src/sting/kernel.c, ip.c, icmp.c, port.c): the way of      *)
(* every datagram through the queues of the ports and protocols, the ICMP  *)
(* errors and replies made of it, and who owns it meanwhile.               *)
(*                                                                         *)
(* poll_ports and clean_up run in the timer interrupt and are never        *)
(* suspended by the application; the application is suspended anywhere its *)
(* list surgery is not locked.  The calls of the application are one step  *)
(* each, except off_port, whose driver empties the send queue unlocked.        *)
(* Headers keep what routing and replying look at; times, checksums and    *)
(* fragmentation have modules of their own (DgramLife, Fragm).             *)
(***************************************************************************)
EXTENDS Naturals, SequencesExt, FiniteSetsExt

CONSTANTS
    Dgrams,      \* bound of the model: IP_DGRAM structures there is memory for
    Arrivals,    \* headers that arrive at the network port
    Sends,       \* headers the clients pass to IP_send and ICMP_send
    MaskAgent,   \* bit 0 of icmp_desc.flags: we answer mask requests
    PortGoesOff, \* clients switch the network port off and on
    Free,        \* no header: the structure is not allocated
    NULL

Ports     == {"internal", "net"}
Protocols == {"icmp", "udp", "dead"}  \* dead: nobody announced it
Kinds     == {"echo", "mask", "reply", "error", "data"}
Hosts     == {"here", "there", "nowhere", "any"}
Headers   == [prot : Protocols, kind : Kinds, src : Hosts, dst : Hosts,
              part : {"whole", "first", "later"},   \* of a fragmented datagram
              size : {"fits", "split", "nosplit"},  \* against the mtu, with dont_frg
              sound : BOOLEAN]                      \* checksums are correct

ASSUME HeadersAssumption == Arrivals \subseteq Headers /\ Sends \subseteq Headers
ASSUME FlagsAssumption   == MaskAgent \in BOOLEAN /\ PortGoesOff \in BOOLEAN
ASSUME FreeAssumption    == Free \notin Headers /\ NULL \notin Dgrams

VARIABLES
    hdr,      \* header of each allocated datagram
    receive,  \* receive queue of each port
    send,     \* send queue of each port
    queue,    \* received and not yet fetched, for each protocol, newest first
    late,     \* those of them that clean_up is to find too old
    held,     \* datagrams the clients own
    process,  \* whether a handler is installed for UDP
    active,   \* the network port is on
    stage,    \* what the timer interrupt is in the middle of
    off,      \* how far off_port is: NULL, or the queue and the datagram in turn
    stale     \* TRUE once off_port and the interrupt got at each other's datagrams

vars == <<hdr, receive, send, queue, late, held, process, active, stage, off, stale>>

Stages == {"idle", "arrive", "internal", "net", "deliver", "transmit", "clean"}
NotOff == [at |-> "no", walk |-> NULL]

TypeOK ==
    /\ hdr \in [Dgrams -> Headers \cup {Free}]
    /\ \A p \in Ports : receive[p] \in Seq(Dgrams) /\ send[p] \in Seq(Dgrams)
    /\ \A p \in Protocols : queue[p] \in Seq(Dgrams)
    /\ held \subseteq Dgrams /\ late \subseteq Dgrams
    /\ process \in BOOLEAN /\ active \in BOOLEAN /\ stale \in BOOLEAN
    /\ stage \in Stages
    /\ off \in [at : {"no", "send", "flag"}, walk : Dgrams \cup {NULL}]

Init ==
    /\ hdr = [d \in Dgrams |-> Free]
    /\ receive = [p \in Ports |-> <<>>] /\ send = [p \in Ports |-> <<>>]
    /\ queue = [p \in Protocols |-> <<>>]
    /\ held = {} /\ late = {} /\ process \in BOOLEAN /\ active = TRUE
    /\ stage = "idle" /\ off = NotOff /\ stale = FALSE

Allocated == {d \in Dgrams : hdr[d] # Free}

\* What off_port discarded and did not unlink yet is not given out again: the
\* model ends at the use of it.
Available(d) == hdr[d] = Free /\ \A i \in 1 .. Len(send["net"]) : send["net"][i] # d

\* Once a datagram was used that had been discarded, or was discarded where it
\* had meanwhile gone, nothing is said of what happens.
Timer(at) == stage = at /\ ~stale
App       == stage = "idle" /\ ~stale

(***************************************************************************)
(* ICMP_reply and IP_discard.  `from' are the receive queues without d.    *)
(***************************************************************************)
Discard(d, from) == hdr' = [hdr EXCEPT ![d] = Free] /\ receive' = from

Silent(h) == h.src = "any" \/ h.part = "later"
Answer(h, kind) ==
    [prot |-> "icmp", kind |-> kind, src |-> "here", dst |-> h.src,
     part |-> "whole", size |-> "fits", sound |-> TRUE]

\* The answer is made of the datagram itself; an error needs memory for a new
\* data block and the datagram is dropped when there is none.
ICMP_reply(d, h, kind, from) ==
    \/ /\ Silent(h) \/ kind = "error"
       /\ Discard(d, from)
    \/ /\ ~Silent(h)
       /\ hdr' = [hdr EXCEPT ![d] = Answer(h, kind)]
       /\ receive' = [from EXCEPT !["internal"] = Append(@, d)]

\* Plausible slip: no error means nothing to do.
ComplainLeaks(d, from) ==
    IF hdr[d].prot # "icmp" THEN ICMP_reply(d, hdr[d], "error", from)
    ELSE receive' = from /\ UNCHANGED hdr
Complain(d, from) ==
    IF hdr[d].prot # "icmp" THEN ICMP_reply(d, hdr[d], "error", from) ELSE Discard(d, from)

(***************************************************************************)
(* poll_ports: the drivers receive                                         *)
(***************************************************************************)
NextStage(from, to) == stage = from /\ stage' = to

poll_ports ==
    /\ Timer("idle") /\ NextStage("idle", "arrive")
    /\ UNCHANGED <<hdr, receive, send, queue, late, held, process, active, off, stale>>

\* A driver links what has arrived to the receive queue of its port.
Arrive(d, h) ==
    /\ Timer("arrive") /\ active
    /\ Available(d)
    /\ hdr' = [hdr EXCEPT ![d] = h]
    /\ receive' = [receive EXCEPT !["net"] = Append(@, d)]
    /\ UNCHANGED <<send, queue, late, held, process, active, stage, off, stale>>

arrived ==
    /\ Timer("arrive") /\ NextStage("arrive", "internal")
    /\ UNCHANGED <<hdr, receive, send, queue, late, held, process, active, off, stale>>

(***************************************************************************)
(* poll_ports: each received datagram is routed                            *)
(***************************************************************************)
Unreachable == "unreachable"
route_it(dst) ==
    CASE dst \in {"here", "any"}    -> "internal"
      [] dst = "there" /\ active   -> "net"
      [] OTHER                      -> Unreachable

\* Following the chain of a queue that holds a discarded datagram.
Dangling(q) == \E i \in 1 .. Len(q) : hdr[q[i]] = Free

Queue(d, port, from) ==
    /\ receive' = from
    /\ send' = [send EXCEPT ![port] = Append(@, d)]
    /\ stale' = Dangling(send[port])

\* fragment: two new datagrams take the place of the one that is too long.
fragment(d, h, from) ==
    \E f, g \in Dgrams \ {d} :
        /\ f # g /\ Available(f) /\ Available(g)
        /\ hdr' = [hdr EXCEPT ![d] = Free,
                              ![f] = [h EXCEPT !.size = "fits", !.part = "first"],
                              ![g] = [h EXCEPT !.size = "fits", !.part = "later"]]
        /\ receive' = from
        /\ send' = [send EXCEPT !["net"] = @ \o <<f, g>>]
        /\ stale' = Dangling(send["net"])

process_dgram(port) ==
    LET d    == Head(receive[port])
        h    == hdr[d]
        from == [receive EXCEPT ![port] = Tail(@)]
        to   == route_it(h.dst)
        drop == \/ ~h.sound /\ Discard(d, from)
                \/ h.sound /\ to = Unreachable /\ Complain(d, from)
                \/ h.sound /\ to = "net" /\ h.size # "fits" /\ Complain(d, from)
    IN  /\ Timer(port) /\ receive[port] # <<>> /\ h # Free
        /\ \/ drop /\ UNCHANGED <<send, stale>>
           \/ h.sound /\ to = "net" /\ h.size = "split" /\ fragment(d, h, from)
           \/ /\ h.sound
              /\ to = "internal" \/ (to = "net" /\ h.size = "fits")
              /\ Queue(d, to, from)
              /\ UNCHANGED hdr
        /\ UNCHANGED <<queue, late, held, process, active, stage, off>>

\* Plausible slip: one datagram of each port and then on to the next.
TakesOne(port, next) ==
    /\ Timer(port) /\ NextStage(port, next)
    /\ UNCHANGED <<hdr, receive, send, queue, late, held, process, active, off, stale>>
processed(port, next) ==
    /\ Timer(port) /\ receive[port] = <<>> /\ NextStage(port, next)
    /\ UNCHANGED <<hdr, receive, send, queue, late, held, process, active, off, stale>>

(***************************************************************************)
(* poll_ports: the internal driver hands over to the protocols             *)
(***************************************************************************)
\* ICMP_process consumes the datagram, whatever it is. A handler that takes it
\* owns it from then on.
ICMP_process(d, h) ==
    \/ h.kind = "echo" /\ ICMP_reply(d, h, "reply", receive) /\ UNCHANGED held
    \/ /\ h.kind = "mask" /\ MaskAgent
       /\ ICMP_reply(d, h, "reply", receive) /\ UNCHANGED held
    \/ h.kind = "mask" /\ ~MaskAgent /\ UNCHANGED <<hdr, receive, held>>
    \/ /\ h.kind \notin {"echo", "mask"}
       /\ \/ Discard(d, receive) /\ UNCHANGED held
          \/ /\ hdr' = [hdr EXCEPT ![d] = h]
             /\ held' = held \cup {d} /\ UNCHANGED receive

\* The newest comes first.
Link(d, h, p) ==
    /\ queue' = [queue EXCEPT ![p] = <<d>> \o @]
    /\ hdr' = [hdr EXCEPT ![d] = h]
    /\ UNCHANGED <<receive, held>>

\* A complete datagram of an announced protocol. The kernel discards what a
\* handler has processed, except of ICMP.
dispatch(d, h, p) ==
    \/ p = "icmp" /\ ICMP_process(d, h) /\ UNCHANGED queue
    \/ p # "icmp" /\ process /\ Discard(d, receive) /\ UNCHANGED <<queue, held>>
    \/ p # "icmp" /\ Link(d, h, p)  \* no handler, or one that returns FALSE

\* Without memory the fragment is refused; else it is copied away, unless it is
\* the last that was missing: d then stands for the whole datagram.
reassembly(d, p) ==
    \/ Complain(d, receive) /\ UNCHANGED <<queue, held>>
    \/ Discard(d, receive) /\ UNCHANGED <<queue, held>>
    \/ dispatch(d, [hdr[d] EXCEPT !.part = "whole"], p)

receive_dgram ==
    LET d == Head(send["internal"])
        p == hdr[d].prot
    IN  /\ Timer("deliver") /\ send["internal"] # <<>>
        /\ send' = [send EXCEPT !["internal"] = Tail(@)]
        /\ \/ p = "dead" /\ ICMP_reply(d, hdr[d], "error", receive) /\ UNCHANGED <<queue, held>>
           \/ p # "dead" /\ hdr[d].part # "whole" /\ reassembly(d, p)
           \/ p # "dead" /\ hdr[d].part = "whole" /\ dispatch(d, hdr[d], p)
        /\ UNCHANGED <<late, process, active, stage, off, stale>>

received ==
    /\ Timer("deliver") /\ send["internal"] = <<>> /\ NextStage("deliver", "transmit")
    /\ UNCHANGED <<hdr, receive, send, queue, late, held, process, active, off, stale>>

(***************************************************************************)
(* poll_ports: the network driver sends (modelled from ports/ether)        *)
(***************************************************************************)
\* The head of the queue is sent and discarded, or has expired.
transmit ==
    LET d == Head(send["net"])
    IN  /\ Timer("transmit") /\ active /\ send["net"] # <<>>
        /\ send' = [send EXCEPT !["net"] = Tail(@)]
        /\ IF hdr[d] = Free
             THEN stale' = TRUE /\ UNCHANGED <<hdr, receive>>
             ELSE (Discard(d, receive) \/ Complain(d, receive)) /\ stale' = FALSE
        /\ UNCHANGED <<queue, late, held, process, active, stage, off>>

\* All is sent, or the driver has no room for more. By the time of clean_up any of
\* the datagrams that wait may be too old.
Waiting == UNION {ToSet(queue[p]) : p \in Protocols}
transmitted ==
    /\ Timer("transmit") /\ NextStage("transmit", "clean")
    /\ late' \in SUBSET Waiting
    /\ UNCHANGED <<hdr, receive, send, queue, held, process, active, off, stale>>

(***************************************************************************)
(* clean_up: datagrams no protocol fetched in time                         *)
(***************************************************************************)
clean_up(p, i) ==
    /\ Timer("clean") /\ i \in 1 .. Len(queue[p]) /\ queue[p][i] \in late
    /\ queue' = [queue EXCEPT ![p] = RemoveAt(@, i)]
    /\ late' = late \ {queue[p][i]}
    /\ Complain(queue[p][i], receive)
    /\ UNCHANGED <<send, held, process, active, stage, off, stale>>

cleaned ==
    /\ Timer("clean") /\ late = {} /\ NextStage("clean", "idle")
    /\ UNCHANGED <<hdr, receive, send, queue, late, held, process, active, off, stale>>

(***************************************************************************)
(* The calls of the clients                                                *)
(***************************************************************************)
\* IP_send and ICMP_send: the datagram goes through the internal port first.
IP_send(d, h) ==
    /\ App /\ Available(d)
    /\ hdr' = [hdr EXCEPT ![d] = h]
    /\ receive' = [receive EXCEPT !["internal"] = Append(@, d)]
    /\ UNCHANGED <<send, queue, late, held, process, active, stage, off, stale>>

\* Plausible slips: the datagram stays linked; the walk for the oldest is forgotten.
FetchKeepsLink(p) ==
    /\ App /\ queue[p] # <<>>
    /\ held' = held \cup {Last(queue[p])}
    /\ UNCHANGED <<hdr, receive, send, queue, late, process, active, stage, off, stale>>
FetchTakesFirst(p) ==
    /\ App /\ queue[p] # <<>>
    /\ held' = held \cup {Head(queue[p])}
    /\ queue' = [queue EXCEPT ![p] = Tail(@)]
    /\ UNCHANGED <<hdr, receive, send, late, process, active, stage, off, stale>>
\* IP_fetch takes the last one of the chain.
IP_fetch(p) ==
    /\ App /\ queue[p] # <<>>
    /\ held' = held \cup {Last(queue[p])}
    /\ queue' = [queue EXCEPT ![p] = Front(@)]
    /\ UNCHANGED <<hdr, receive, send, late, process, active, stage, off, stale>>

IP_discard(d) ==
    /\ App /\ d \in held
    /\ held' = held \ {d}
    /\ Discard(d, receive)
    /\ UNCHANGED <<send, queue, late, process, active, stage, off, stale>>

IP_handler ==
    /\ App /\ process' = ~process
    /\ UNCHANGED <<hdr, receive, send, queue, late, held, active, stage, off, stale>>

on_port ==
    /\ App /\ PortGoesOff /\ ~active /\ off = NotOff
    /\ active' = TRUE
    /\ UNCHANGED <<hdr, receive, send, queue, late, held, process, stage, off, stale>>

\* off_port: the driver discards what waits for the wire, one after the other,
\* and empties the queue at the end; the port is marked inactive last.  What came
\* from the wire is routed before the application goes on: none of it is left.
First(q) == IF q = <<>> THEN NULL ELSE Head(q)
After(q, d) == IF d = Last(q) THEN NULL ELSE q[Min({i \in 1 .. Len(q) : q[i] = d}) + 1]

off_port ==
    /\ App /\ PortGoesOff /\ active /\ off = NotOff
    /\ off' = [at |-> "send", walk |-> First(send["net"])]
    /\ UNCHANGED <<hdr, receive, send, queue, late, held, process, active, stage, stale>>

deplete_one ==
    LET d == off.walk
        q == send["net"]
    IN  /\ App /\ off.at = "send" /\ d # NULL
        /\ IF hdr[d] = Free \/ d \notin ToSet(q)
             THEN stale' = TRUE /\ UNCHANGED <<hdr, receive, off>>
             ELSE /\ Discard(d, receive)
                  /\ off' = [off EXCEPT !.walk = After(q, d)]
                  /\ stale' = FALSE
        /\ UNCHANGED <<send, queue, late, held, process, active, stage>>

depleted ==
    /\ App /\ off.at = "send" /\ off.walk = NULL
    /\ send' = [send EXCEPT !["net"] = <<>>]
    /\ stale' = \E d \in ToSet(send["net"]) : hdr[d] # Free   \* it came meanwhile and is lost
    /\ off' = [at |-> "flag", walk |-> NULL]
    /\ UNCHANGED <<hdr, receive, queue, late, held, process, active, stage>>

port_is_off ==
    /\ App /\ off.at = "flag"
    /\ active' = FALSE /\ off' = NotOff
    /\ UNCHANGED <<hdr, receive, send, queue, late, held, process, stage, stale>>

Ended == stale /\ UNCHANGED vars

TimerWork ==
    \/ \E p \in Ports : process_dgram(p)
    \/ arrived
    \/ processed("internal", "net") \/ processed("net", "deliver")
    \/ receive_dgram \/ received
    \/ transmit \/ transmitted
    \/ \E p \in Protocols, i \in 1 .. Cardinality(Dgrams) : clean_up(p, i)
    \/ cleaned

Next ==
    \/ \E d \in Dgrams, h \in Arrivals : Arrive(d, h)
    \/ poll_ports
    \/ TimerWork
    \/ \E d \in Dgrams, h \in Sends : IP_send(d, h)
    \/ \E p \in Protocols : IP_fetch(p)
    \/ \E d \in Dgrams : IP_discard(d)
    \/ IP_handler
    \/ on_port
    \/ off_port \/ deplete_one \/ depleted \/ port_is_off
    \/ Ended

\* The interrupt comes again and again and runs to its end; a driver sends
\* when the wire is free.
Fairness == WF_vars(poll_ports) /\ WF_vars(TimerWork) /\ SF_vars(transmit)
Spec == Init /\ [][Next]_vars /\ Fairness

(***************************************************************************)
(* Properties                                                              *)
(***************************************************************************)
In(q, d) == Cardinality({i \in 1 .. Len(q) : q[i] = d})
\* How many owners a datagram has.
Owners(d) ==
    In(receive["internal"], d) + In(receive["net"], d) + In(send["internal"], d) + In(send["net"], d)
    + In(queue["icmp"], d) + In(queue["udp"], d) + In(queue["dead"], d)
    + (IF d \in held THEN 1 ELSE 0)

\* What off_port has discarded stays linked until it empties the queue.
Discarded(d) == hdr[d] = Free /\ off.at = "send" /\ In(send["net"], d) = 1

\* No datagram has two owners, and none that was discarded is still linked
\* anywhere: however it went through the queues, replies and handlers, as long as
\* off_port and the interrupt do not meet.
OneOwner == ~stale => \A d \in Dgrams : Owners(d) <= (IF hdr[d] = Free /\ ~Discarded(d) THEN 0 ELSE 1)

\* What ICMP_process leaves to nobody: a mask request that is not answered.
Forgotten(d) == ~MaskAgent /\ hdr[d].prot = "icmp" /\ hdr[d].kind = "mask"

\* Every allocated datagram is in some queue or belongs to a client: memory
\* that "is a precious resource, and should not be wasted" is lost with
\* unanswered mask requests (icmp.c:196) and in no other way.
NothingLeaks == ~stale => \A d \in Allocated : Owners(d) >= 1 \/ Forgotten(d)

\* Each protocol reads its datagrams in the order of arrival, and none is taken
\* away from it unread whose time is not over.
Boxes == INSTANCE Mailbox WITH box <- [p \in Protocols |-> Reverse(queue[p])], given <- held
ImplementsMailbox == Boxes!Spec

\* No datagram gets stuck: what waits to be routed is delivered, dropped or
\* bound for the wire in the end, with all the replies that it becomes, and what
\* waits for the wire leaves, unless its port is switched off.
Inside(d) == In(receive["internal"], d) + In(receive["net"], d) + In(send["internal"], d) > 0
MovesOn == \A d \in Dgrams :
    /\ Inside(d) ~> ~Inside(d) \/ stale
    /\ In(send["net"], d) > 0 ~> In(send["net"], d) = 0 \/ ~active \/ stale

\* "After calling this function the address pointed to by the pointer
\* `datagram' is not valid anymore": nobody uses a discarded datagram.
NoUseAfterDiscard == ~stale
=============================================================================
