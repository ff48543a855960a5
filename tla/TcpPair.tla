------------------------------ MODULE TcpPair ------------------------------
(***************************************************************************)
(* Two hosts with the TCP of src/proto/tcp and a network between them that *)
(* loses, repeats and reorders segments.  A step of the interrupt is       *)
(* timer_work with one segment that arrived, or with one timer that        *)
(* expired; a segment that hangs at `pending' is still in the network      *)
(* here.  The clients open, send, read and close, and may close again.     *)
(***************************************************************************)
EXTENDS Tcp, FiniteSets

CONSTANTS
    BUFFER,      \* send.bufflen
    Ini,         \* initial sequence number of each side
    Plans,       \* what the clients do: bytes each sends, whether B listens, how each closes
                 \* (if at all) and whether a second time, and how often the network may
                 \* fail and timers be early (bounds of the model)
    EarlyCalls   \* clients send and close before the connection is established

Side  == {"A", "B"}
Modes == {"background", "now", "wait"}  \* of TCP_close: negative, zero, positive

ASSUME PairAssumption ==
    /\ BUFFER \in Nat /\ EarlyCalls \in BOOLEAN /\ Ini \in [Side -> Sequence]
    /\ \A p \in Plans : {p.A, p.B, p.faults} \subseteq Nat /\ p.listens \in BOOLEAN
                    /\ p.modes \in [Side -> SUBSET Modes] /\ p.again \in BOOLEAN

Peer(s) == IF s = "A" THEN "B" ELSE "A"
Byte(s, i) == IF s = "A" THEN i ELSE 100 + i

VARIABLES
    plan,     \* the plan the clients follow
    connec,   \* the CONNEC of each side
    call,     \* how far the TCP_close of each client got
    net,      \* segments on their way to each side
    accepted, \* history: the bytes TCP_send took from each client
    given,    \* history: the bytes each client read
    closed,   \* history: the client called TCP_close
    aborted,  \* history: a side gave the connection up
    kicked,   \* history: a client called CNkick
    faults    \* how often the network failed, or a timer was early

tcp_vars == <<plan, connec, call, net, accepted, given, closed, aborted, kicked, faults>>

NotClosing == [at |-> "none", mode |-> "wait"]

TcpInit ==
    /\ plan \in Plans
    /\ connec = [s \in Side |-> Blank]
    /\ call = [s \in Side |-> NotClosing]
    /\ net = [s \in Side |-> <<>>]
    /\ accepted = [s \in Side |-> <<>>] /\ given = [s \in Side |-> <<>>]
    /\ closed = [s \in Side |-> FALSE]
    /\ aborted = FALSE /\ kicked = FALSE /\ faults = 0

\* destroy_conn; what is left is the result of TCP_close.
destroy_conn(c) == [Blank EXCEPT !.told = c.told]

\* The end of timer_work, for a connection that TCP_close left to it.
Told(c) == IF c.state = "TIME_WAIT" /\ c.result THEN [c EXCEPT !.told = "E_NORMAL", !.result = FALSE] ELSE c
AtEnd(c) ==
    IF "CLOSING" \notin c.flags THEN c
    ELSE IF c.state = "CLOSED" THEN destroy_conn(c)
    ELSE IF c.err # "none" THEN destroy_conn(close_self(Told(c), "E_CNTIMEOUT"))
    ELSE Told(c)
WorksOn(outcome) == With(outcome, LAMBDA o : Outcome(AtEnd(o.c), o.out))

\* Side s ends up with c, and out goes to the other.
Becomes(s, c, out) ==
    /\ connec' = [connec EXCEPT ![s] = c]
    /\ net' = [net EXCEPT ![Peer(s)] = @ \o out]
Does(s, outcome) == \E o \in {outcome} : Becomes(s, o.c, o.out)

Quiet == \A s \in Side : net[s] = <<>>
Idle(s) == call[s].at = "none"
Fault == faults < plan.faults /\ faults' = faults + 1

(***************************************************************************)
(* The clients                                                             *)
(***************************************************************************)
TCP_open(s, passive) ==
    /\ connec[s] = Blank /\ ~closed[s]
    /\ IF passive THEN Becomes(s, [Blank EXCEPT !.state = "LISTEN", !.passive = TRUE], <<>>)
       ELSE Does(s, do_output(Now(send_sync(Blank, Ini[s]), "SYN_SENT")))
    /\ UNCHANGED <<plan, call, accepted, given, closed, aborted, kicked, faults>>

Open(c) == c.state \in {"ESTABLISH", "CLOSE_WAIT"}
             \/ (EarlyCalls /\ c.state \in Synchronizing)

Send(s) ==
    /\ ~closed[s] /\ Open(connec[s]) /\ connec[s].err = "none"
    /\ \E n \in 1 .. plan[s] - Len(accepted[s]) :
         LET data == [i \in 1 .. n |-> Byte(s, Len(accepted[s]) + i)]
         IN  /\ Len(connec[s].sendq) + n <= BUFFER
             /\ Does(s, TCP_send(connec[s], data))
             /\ accepted' = [accepted EXCEPT ![s] = @ \o data]
    /\ UNCHANGED <<plan, call, given, closed, aborted, kicked, faults>>

\* Any call that takes bytes; after TCP_close only while the connection lives.
Read(s) ==
    /\ Idle(s) /\ connec[s].err = "none"
    /\ \E n \in 1 .. Len(connec[s].recvq) :
         /\ Does(s, receive(connec[s], n))
         /\ given' = [given EXCEPT ![s] = @ \o SubSeq(connec[s].recvq, 1, n)]
    /\ UNCHANGED <<plan, call, accepted, closed, aborted, kicked, faults>>

\* poll_receive reports an error, once.
Report(s) ==
    /\ connec[s].err # "none" /\ ~closed[s]
    /\ connec' = [connec EXCEPT ![s].err = "none"]
    /\ UNCHANGED <<plan, call, net, accepted, given, closed, aborted, kicked, faults>>

Kick(s) ==
    /\ connec[s].err = "none" /\ ~closed[s] /\ Open(connec[s]) /\ Fault
    /\ Does(s, CNkick(connec[s]))
    /\ kicked' = TRUE
    /\ UNCHANGED <<plan, call, accepted, given, closed, aborted>>

(***************************************************************************)
(* TCP_close: only the change of the state is made under the semaphore     *)
(***************************************************************************)
GoesOn(s, at) == call' = [call EXCEPT ![s].at = at]
Leaves(s, c)   == connec' = [connec EXCEPT ![s] = c] /\ UNCHANGED net
ClientOnly     == UNCHANGED <<plan, accepted, given, kicked, faults>>

\* The pointer is set, and the state is looked at with interrupts on. A connection
\* that is closed already goes with what closed it, or E_EOF for all of that here.
TCP_close(s, mode) ==
    LET c == [connec[s] EXCEPT !.result = (mode = "background")]
        begins(at) == call' = [call EXCEPT ![s] = [at |-> at, mode |-> mode]]
    IN  /\ Idle(s) /\ ~closed[s] /\ mode \in plan.modes[s]
        /\ \/ c.state \in {"LISTEN", "SYN_SENT"} /\ begins("listen") /\ Leaves(s, c)
           \/ c.state # "SYN_SENT" /\ Open(c) /\ begins("finish") /\ Leaves(s, c)
           \/ /\ c.state = "CLOSED" /\ begins("none")
              /\ Leaves(s, destroy_conn([c EXCEPT !.told = "E_EOF"]))
        /\ closed' = [closed EXCEPT ![s] = TRUE]
        /\ ClientOnly /\ UNCHANGED aborted

\* A second time it cancels the result, or closes at once with E_BADCLOSE.
Again(s, mode) ==
    LET c == connec[s]
    IN  /\ Idle(s) /\ closed[s] /\ plan.again /\ c.state \notin {"NONE", "CLOSED"}
        /\ \/ /\ c.result /\ mode # "background"
              /\ Leaves(s, [c EXCEPT !.result = FALSE]) /\ UNCHANGED aborted
           \/ /\ ~c.result \/ mode = "background"
              /\ Leaves(s, close_self([c EXCEPT !.result = (mode = "background")], "E_BADCLOSE"))
              /\ aborted' = TRUE
        /\ ClientOnly /\ UNCHANGED <<call, closed>>

\* The connection that did not come about is closed, whatever became of it since.
Unlisten(s) ==
    /\ call[s].at = "listen" /\ GoesOn(s, "none")
    /\ Leaves(s, [Raise(close_self(connec[s], "E_NORMAL"), "CLOSING") EXCEPT !.told = "E_NORMAL"])
    /\ aborted' = TRUE
    /\ ClientOnly /\ UNCHANGED closed

\* The FIN is queued, whatever the state is by now.
Finishes(s) ==
    LET c == [Raise(connec[s], "FIN") EXCEPT
                !.count = @ + 1,
                !.state = IF @ = "CLOSE_WAIT" THEN "LAST_ACK" ELSE "FIN_WAIT1"]
    IN  /\ call[s].at = "finish"
        /\ GoesOn(s, IF call[s].mode = "background" THEN "leave" ELSE "look")
        /\ Does(s, do_output(c))
        /\ ClientOnly /\ UNCHANGED <<closed, aborted>>

\* What nobody will read breaks the connection off.
Timely(s) == IF call[s].mode = "now" THEN "E_NORMAL" ELSE "E_CNTIMEOUT"
Look(s) ==
    /\ call[s].at = "look"
    /\ \/ /\ connec[s].recvq # <<>> /\ GoesOn(s, "none")
          /\ Becomes(s, destroy_conn([connec[s] EXCEPT !.told = Timely(s)]), abort_conn(connec[s]))
          /\ aborted' = TRUE
       \/ /\ connec[s].recvq = <<>> /\ GoesOn(s, "flag")
          /\ Leaves(s, [connec[s] EXCEPT !.result = TRUE, !.told = "E_NODATA"])
          /\ UNCHANGED aborted
    /\ ClientOnly /\ UNCHANGED closed

\* From now on timer_work destroys the connection when it is closed.
Flag(s) ==
    /\ \/ /\ call[s].at = "flag" /\ GoesOn(s, "loop")
          /\ Leaves(s, Raise(Raise(connec[s], "CLOSING"), "DISCARD"))
       \/ /\ call[s].at = "leave" /\ GoesOn(s, "store")
          /\ Leaves(s, Raise(connec[s], "CLOSING"))
    /\ ClientOnly /\ UNCHANGED <<closed, aborted>>

\* The call returns what it was told, or that its time is up; in the background
\* E_NODATA is stored, over what the interrupt may have stored already.
Return(s) ==
    /\ \/ /\ call[s].at = "loop"
          /\ Leaves(s, [connec[s] EXCEPT !.result = FALSE,
                                         !.told = IF @ = "E_NODATA" THEN Timely(s) ELSE @])
       \/ call[s].at = "store" /\ Leaves(s, [connec[s] EXCEPT !.told = "E_NODATA"])
    /\ GoesOn(s, "none")
    /\ ClientOnly /\ UNCHANGED <<closed, aborted>>

Closes(s) == Unlisten(s) \/ Finishes(s) \/ Look(s) \/ Flag(s) \/ Return(s)

(***************************************************************************)
(* The interrupt                                                           *)
(***************************************************************************)
\* TCP_handler finds no connection, or hands the segment on.
Arrives(s, seg) ==
    IF connec[s].state \in {"NONE", "CLOSED"} \/ (connec[s].state = "LISTEN" /\ ~seg.sync)
    THEN Outcome(connec[s], send_reset(seg))
    ELSE WorksOn(do_arrive(connec[s], seg, Ini[s]))

\* A segment arrives, and the network is left with rest.
Receives(s, seg, rest) ==
    /\ \E o \in {Arrives(s, seg)} :
        /\ connec' = [connec EXCEPT ![s] = o.c]
        /\ net' = [net EXCEPT ![s] = rest, ![Peer(s)] = @ \o o.out]
        /\ aborted' = (aborted \/ (connec[s] = Blank /\ ~closed[s])
                         \/ ("DISCARD" \in connec[s].flags /\ seg.data # <<>> /\ o.c.state = "NONE"))
    /\ UNCHANGED <<plan, call, accepted, given, closed, kicked>>

timer_work(s) == net[s] # <<>> /\ Receives(s, Head(net[s]), Tail(net[s])) /\ UNCHANGED faults

\* The network repeats a segment, lets one overtake those ahead of it, or loses one.
Repeats(s, i)   == Fault /\ Receives(s, net[s][i], net[s])
Overtakes(s, i) == i > 1 /\ Fault /\ Receives(s, net[s][i], RemoveAt(net[s], i))
Lose(s, i) ==
    /\ Fault
    /\ net' = [net EXCEPT ![s] = RemoveAt(@, i)]
    /\ UNCHANGED <<plan, connec, call, accepted, given, closed, aborted, kicked>>

\* The retransmission timer expires, early only as often as the plan says.
Timeout(s) ==
    /\ connec[s].rtrn /\ connec[s].state # "TIME_WAIT"
    /\ IF Quiet THEN UNCHANGED faults ELSE Fault
    /\ Does(s, WorksOn(Retransmit(connec[s])))
    /\ UNCHANGED <<plan, call, accepted, given, closed, aborted, kicked>>

\* 2 * max_slt have passed since the last segment: nothing is in the network.
TimeWaitEnds(s) ==
    /\ connec[s].state = "TIME_WAIT" /\ Quiet
    /\ Becomes(s, AtEnd(close_self(connec[s], "E_NORMAL")), <<>>)
    /\ aborted' = (aborted \/ connec[Peer(s)].state \in {"LAST_ACK", "CLOSING"})
    /\ UNCHANGED <<plan, call, accepted, given, closed, kicked, faults>>

\* The 1000 seconds that TCP_close sets pass only when no other step of the two
\* will change anything: nobody has anything to send, or each acknowledges the
\* other's acknowledgements, or each has a full window under way, which its peer
\* has received and may not acknowledge.
Silent == \A s \in Side : ~connec[s].rtrn
Storm  == \A s \in Side : connec[s].state = "TIME_WAIT"
Deaf   == \A s \in Side :
            /\ InFlight(connec[s]) >= connec[s].swin /\ InFlight(connec[s]) # 0
            /\ connec[s].rnext = connec[Peer(s)].next
GiveUp(s) ==
    /\ "CLOSING" \in connec[s].flags /\ \A r \in Side : Idle(r)
    /\ \/ Quiet /\ Silent /\ connec[s].state \notin {"CLOSED", "TIME_WAIT"}
       \/ Storm
       \/ Quiet /\ Deaf
    /\ Becomes(s, destroy_conn(close_self(connec[s], "E_CNTIMEOUT")), abort_conn(connec[s]))
    /\ aborted' = TRUE
    /\ UNCHANGED <<plan, call, accepted, given, closed, kicked, faults>>

\* timer_work with nothing that arrived ends what TCP_close left to it.
Ends(s) ==
    /\ AtEnd(connec[s]) # connec[s]
    /\ Becomes(s, AtEnd(connec[s]), <<>>)
    /\ UNCHANGED <<plan, call, accepted, given, closed, aborted, kicked, faults>>

\* The clients that close have done so, and nothing is left of their connections.
Over ==
    /\ \A s \in Side : plan.modes[s] = {} \/ (connec[s].state = "NONE" /\ closed[s] /\ Idle(s))
    /\ Quiet /\ UNCHANGED tcp_vars

Soon(s) == Report(s) \/ Ends(s) \/ timer_work(s)
Later(s) == TimeWaitEnds(s) \/ Timeout(s)

TcpNext ==
    \/ TCP_open("A", FALSE) \/ TCP_open("B", plan.listens)
    \/ \E s \in Side : Send(s) \/ Read(s) \/ Kick(s)
    \/ \E s \in Side, mode \in Modes : TCP_close(s, mode) \/ Again(s, mode)
    \/ \E s \in Side : Closes(s)
    \/ \E s \in Side : \E i \in 1 .. Len(net[s]) :
         Repeats(s, i) \/ Overtakes(s, i) \/ Lose(s, i)
    \/ \E s \in Side : Soon(s) \/ Later(s) \/ GiveUp(s)
    \/ Over

Fairness ==
    \A s \in Side : WF_tcp_vars(Soon(s)) /\ WF_tcp_vars(Closes(s)) /\ WF_given(Read(s)) /\ SF_tcp_vars(Later(s)) /\ SF_tcp_vars(GiveUp(s))

TcpSpec == TcpInit /\ [][TcpNext]_tcp_vars /\ Fairness

(***************************************************************************)
(* Properties                                                              *)
(***************************************************************************)
\* The end of the peer's data shows in the state (CNbyte_count, TCP_wait_state).
Eof(s) == connec[s].state \in {"CLOSE_WAIT", "LAST_ACK", "CLOSING", "TIME_WAIT"} /\ connec[s].recvq = <<>>

\* Each direction is a connection: whatever the network does, the reader gets the
\* bytes that TCP_send took, once and in order, and sees the end after the last.
AtoB == INSTANCE Connection WITH accepted <- accepted["A"], given <- given["B"],
                                 ended <- closed["A"], eof <- Eof("B")
BtoA == INSTANCE Connection WITH accepted <- accepted["B"], given <- given["A"],
                                 ended <- closed["B"], eof <- Eof("A")
ImplementsConnection == AtoB!Spec /\ BtoA!Spec

\* What arrives never exceeds the window: the announced window and the bytes
\* nobody has read yet are always the configured room, a probe included.
WindowIsRoom ==
    \A s \in Side : connec[s].rwin + Len(connec[s].recvq) = RCV_WINDOW

Talking == \A s \in Side : connec[s].state \notin {"NONE", "CLOSED", "LISTEN"} \cup Synchronizing

\* While both talk, what one side holds to be acknowledged has been received by
\* the other, what the other has received was sent, and the count of what is
\* outstanding is that of the queue and the FIN behind it.
AckedIsReceived ==
    Talking => \A s \in Side :
        LET c == connec[s]
            p == connec[Peer(s)]
        IN  /\ InFlight(c) <= c.count
            /\ c.count = Len(c.sendq) + (IF c.state \in {"FIN_WAIT1", "CLOSING", "LAST_ACK"} THEN 1 ELSE 0)
            /\ 0 <= Diff(p.rnext, c.unack) /\ 0 <= Diff(c.next, p.rnext)


\* What a side announces is never more than the Receive Window it was given
\* (rcv_window, which config.sti recommends to keep below 32768).
WindowAsSet == \A s \in Side : \A i \in 1 .. Len(net[s]) : net[s][i].win <= RCV_WINDOW

\* A peer that goes on reading gets all that is sent, lost segments and closed
\* windows notwithstanding; not after CNkick, which may stop the timer.
Excused(s) == aborted \/ kicked \/ closed[Peer(s)]
AllArrives == \A s \in Side : []<>(accepted[s] = given[Peer(s)] \/ Excused(s))

\* When both clients have closed, both connections are destroyed in the end.
EndsClean == []<>((\A s \in Side : closed[s]) => \A s \in Side : connec[s].state = "NONE")

\* `waiting for the output buffer to clear' (program.sti, TCP_send): while the
\* peer reads, the send buffer empties.
BufferClears == \A s \in Side : []<>(connec[s].sendq = <<>> \/ Excused(s) \/ closed[s])

(***************************************************************************)
(* What the proofs rest on                                                 *)
(***************************************************************************)
Data    == Int \cup {Junk}
Segs    == {s \in Segments(Data) : Len(s.data) <= MSS}
Connecs == CONNEC(Data)
Parked  == {s \in Segs : ~s.sync}

TcpTypes ==
    /\ plan \in Plans /\ faults \in Nat /\ aborted \in BOOLEAN /\ kicked \in BOOLEAN
    /\ connec \in [Side -> {c \in Connecs : c.reseq \in Seq(Parked)}]
    /\ net \in [Side -> Seq(Segs)]
    /\ accepted \in [Side -> Seq(Data)] /\ given \in [Side -> Seq(Data)]
    /\ closed \in [Side -> BOOLEAN]
    /\ call \in [Side -> [at : {"none", "listen", "finish", "look", "flag", "loop", "leave", "store"},
                           mode : Modes]]

\* Where the data of s and where the window of c end.
EndOf(s)   == Plus(IF s.sync THEN Plus(s.seq, 1) ELSE s.seq, Len(s.data))
Edge(c)    == Plus(c.rnext, c.rwin)
Starts(c)  == c.state \in {"LISTEN", "SYN_SENT"}
Meets(c, s) ==
    LET d == IF Starts(c) THEN [c EXCEPT !.rnext = s.seq] ELSE c
    IN  IF s.sync /\ d.rnext = s.seq THEN [d EXCEPT !.rnext = Plus(@, 1)] ELSE d

\* What WindowIsRoom needs of the sender: data with a FIN behind it ends in the
\* window, when it arrives and when its turn comes.
FinFits(e, s) == s.fin /\ s.data # <<>> => Diff(EndOf(s), e) <= 0
FinsFit ==
    \A s \in Side :
        /\ \A i \in 1 .. Len(net[s]) : FinFits(Edge(Meets(connec[s], net[s][i])), net[s][i])
        /\ \A i \in 1 .. Len(connec[s].reseq) :
             LET r == connec[s].reseq[i]
             IN  r.fin /\ r.data # <<>> =>
                   ~Starts(connec[s]) /\ Diff(EndOf(r), Edge(connec[s])) \in -WINS .. 0

\* What the sides know of each other: no FIN goes past the window, and what is
\* acknowledged was received.
SidesAgree == FinsFit /\ AckedIsReceived
=============================================================================
