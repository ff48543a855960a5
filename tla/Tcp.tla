-------------------------------- MODULE Tcp --------------------------------
(***************************************************************************)
(* The engine of the TCP module (src/proto/tcp): what do_arrive does with  *)
(* a segment and do_output with what is to be sent, as functions of a      *)
(* connection.  Sequence numbers are taken modulo SEQS and compared by     *)
(* their signed difference.  A segment is a record with the bytes it       *)
(* carries; of the send and receive queues only the bytes matter, not the  *)
(* blocks they lie in.  Round trip times, type of service and the          *)
(* congestion window, which is never below mss, are left out.              *)
(***************************************************************************)
EXTENDS Integers, SequencesExt

CONSTANTS
    SEQS,       \* sequence numbers (2^32)
    WINS,       \* values of a window (2^16)
    MSS,        \* bytes in a segment (connec->mss)
    RCV_WINDOW, \* my_conf.rcv_window
    Junk        \* a byte of memory that nobody wrote

ASSUME TcpAssumption ==
    /\ WINS \in Nat /\ MSS \in 1 .. WINS - 1 /\ RCV_WINDOW \in 1 .. WINS - 1
    /\ SEQS \in Nat /\ SEQS % 2 = 0 /\ 4 * WINS <= SEQS

\* (int32) a - (int32) b, sequ_within_range
Plus(a, n) == (a + n) % SEQS
Diff(a, b) == ((a - b + SEQS \div 2) % SEQS) - (SEQS \div 2)
Within(a, low, high) == 0 <= Diff(a, low) /\ 0 <= Diff(high, a)
Least(a, b) == IF a <= b THEN a ELSE b

\* Op(v), where TLC evaluates v once, even inside ENABLED.
With(v, Op(_)) == CHOOSE r \in {Op(x) : x \in {v}} : TRUE

\* Flags of a connection: an emission is forced (FORCE), the end is queued
\* (FLAG40), TCP_close was called (CLOSING), and data is unwanted (DISCARD).
Flags == {"FORCE", "FIN", "CLOSING", "DISCARD"}
States == {"NONE", "LISTEN", "SYN_SENT", "SYN_RECV", "ESTABLISH", "FIN_WAIT1", "FIN_WAIT2",
           "CLOSE_WAIT", "CLOSING", "LAST_ACK", "TIME_WAIT", "CLOSED"}
Synchronizing == {"SYN_SENT", "SYN_RECV"}

Sequence == 0 .. SEQS - 1
Window   == 0 .. WINS - 1
Segments(Octets) ==
    [seq : Sequence, ack : Sequence, sync : BOOLEAN, isack : BOOLEAN, fin : BOOLEAN,
     reset : BOOLEAN, win : Window, data : Seq(Octets)]
CONNEC(Octets) ==
    [state : States, passive : BOOLEAN, flags : SUBSET Flags,
     err : {"none", "E_UA", "E_RRESET", "E_REFUSE", "E_CNTIMEOUT"},
     result : BOOLEAN, told : {"none", "E_NODATA", "E_NORMAL", "E_EOF", "E_RRESET", "E_CNTIMEOUT", "E_BADCLOSE"},
     ini : Sequence, unack : Sequence, ptr : Sequence, next : Sequence,
     swin : Window, lwseq : Sequence, lwack : Sequence,
     count : Int, sendq : Seq(Octets), rtrn : BOOLEAN,
     rnext : Sequence, rwin : Window, lstnext : Sequence, lstwin : Window,
     reseq : Seq(Segments(Octets)), recvq : Seq(Octets)]

\* A connection as TCP_open fills it in; NONE stands for memory that is free.
Blank ==
    [state |-> "NONE", passive |-> FALSE, flags |-> {}, err |-> "none",
     result |-> FALSE, told |-> "none",
     ini |-> 0, unack |-> 0, ptr |-> 0, next |-> 0, swin |-> RCV_WINDOW, lwseq |-> 0, lwack |-> 0,
     count |-> 0, sendq |-> <<>>, rtrn |-> FALSE,
     rnext |-> 0, rwin |-> RCV_WINDOW, lstnext |-> 0, lstwin |-> 0, reseq |-> <<>>, recvq |-> <<>>]

Raise(c, flag) == [c EXCEPT !.flags = @ \cup {flag}]
Clear(c, flag) == [c EXCEPT !.flags = @ \ {flag}]
Now(c, state)  == [c EXCEPT !.state = state]

\* What a handler leaves: the connection and the segments it sent.
Outcome(c, out) == [c |-> c, out |-> out]

(***************************************************************************)
(* Segments that answer for themselves                                     *)
(***************************************************************************)
send_reset(s) ==
    IF s.reset THEN <<>>
    ELSE LET len == Len(s.data) + (IF s.sync THEN 1 ELSE 0) + (IF s.fin THEN 1 ELSE 0)
         IN  <<[seq |-> IF s.isack THEN s.ack ELSE 0, ack |-> IF s.isack THEN 0 ELSE Plus(s.seq, len),
                sync |-> FALSE, isack |-> ~s.isack, fin |-> s.fin, reset |-> TRUE, win |-> 0,
                data |-> <<>>]>>

abort_conn(c) ==
    <<[seq |-> c.next, ack |-> 0, sync |-> FALSE, isack |-> FALSE, fin |-> FALSE, reset |-> TRUE,
       win |-> 0, data |-> <<>>]>>

\* result says whether the pointer is set, told is what it points to.
close_self(c, reason) ==
    [c EXCEPT !.rtrn = FALSE, !.reseq = <<>>, !.state = "CLOSED",
              !.told = IF ~c.result THEN @
                       ELSE IF reason # "E_NORMAL" THEN reason
                       ELSE IF c.count = 0 THEN "E_NORMAL" ELSE "E_EOF"]

Fails(c, error) == [c EXCEPT !.err = error]

(***************************************************************************)
(* Output                                                                  *)
(***************************************************************************)
send_sync(c, ini) ==
    [Raise(c, "FORCE") EXCEPT !.ini = ini, !.lwack = ini, !.unack = ini, !.ptr = ini,
                              !.next = ini, !.count = @ + 1]

process_sync(c, s) == [Raise(c, "FORCE") EXCEPT !.lwseq = s.seq, !.swin = s.win, !.rnext = s.seq]

InFlight(c) == (c.ptr - c.unack) % SEQS
Usable(c)   == IF InFlight(c) >= c.swin THEN 1 ELSE c.swin - InFlight(c)
Waiting(c)  == c.count - InFlight(c)

\* The window is used up, or there is nothing to send, or it is little and
\* something is in flight.
Holds(c) ==
    \/ InFlight(c) >= c.swin /\ InFlight(c) # 0
    \/ /\ "FORCE" \notin c.flags
       /\ \/ Waiting(c) = 0
          \/ InFlight(c) # 0 /\ (Waiting(c) < MSS \/ Usable(c) < MSS)

\* size bytes of the queue behind offset; what is not there is not written.
Bytes(c, offset, size) ==
    [i \in 1 .. size |-> IF offset + i <= Len(c.sendq) THEN c.sendq[offset + i] ELSE Junk]

prep_segment(c, sync, size) ==
    Bytes(c, IF sync /\ InFlight(c) # 0 THEN InFlight(c) - 1 ELSE InFlight(c), size)

\* The next segment, of size numbers of the sequence.
Segment(c, size) ==
    LET sync == c.ptr = c.ini /\ c.state \in Synchronizing
        fin  == "FIN" \in c.flags /\ Waiting(c) = size /\ size # 0
        raw  == size - (IF sync /\ size > 0 THEN 1 ELSE 0)
    IN  [seq |-> c.ptr, ack |-> c.rnext, sync |-> sync, isack |-> ~(sync /\ c.state = "SYN_SENT"),
         fin |-> fin, reset |-> FALSE, win |-> c.rwin,
         data |-> prep_segment(c, sync, IF fin /\ raw > 0 THEN raw - 1 ELSE raw)]

Sent(c, s, size) ==
    [c EXCEPT !.flags   = @ \ {"FORCE"},
              !.ptr     = Plus(@, size),
              !.next    = IF Diff(Plus(c.ptr, size), @) > 0 THEN Plus(c.ptr, size) ELSE @,
              !.rtrn    = IF size # 0 THEN TRUE ELSE @ /\ InFlight(c) # 0,
              !.lstnext = c.rnext, !.lstwin = c.rwin]

Emit(b) ==
    LET size == Least(Waiting(b.c), Least(MSS, Usable(b.c)))
    IN  With(Segment(b.c, size), LAMBDA s : Outcome(Sent(b.c, s, size), Append(b.out, s)))

\* The loop of do_output.  Each round but one takes from what waits.
Rounds(c) == 1 + (IF Waiting(c) > 0 THEN Waiting(c) ELSE 0)
Emitted(c) ==
    LET after[n \in 0 .. Rounds(c)] ==
            IF n = 0 THEN Outcome(c, <<>>)
            ELSE With(after[n - 1], LAMBDA b : IF Holds(b.c) THEN b ELSE Emit(b))
    IN  after[Rounds(c)]

do_output(c) == IF c.state \in {"CLOSED", "LISTEN"} THEN Outcome(c, <<>>) ELSE With(c, Emitted)

(***************************************************************************)
(* Input                                                                   *)
(***************************************************************************)
NewWindow(c, s) ==
    IF Diff(s.seq, c.lwseq) > 0 \/ (s.seq = c.lwseq /\ Diff(s.ack, c.lwack) >= 0)
    THEN [c EXCEPT !.ptr = IF c.swin = 0 /\ s.win # 0 THEN c.unack ELSE @,
                   !.swin = s.win, !.lwseq = s.seq, !.lwack = s.ack]
    ELSE c

\* The acknowledgement takes the SYN, the bytes and the FIN out of what is
\* unacknowledged, and stops or restarts the timer.
\* Plausible slip: what is acknowledged again is sent on from there.
KeepsPtr(c, s) == [c EXCEPT !.count = @ - Diff(s.ack, c.unack), !.unack = s.ack, !.rtrn = s.ack # c.next]
Acknowledged(c, s) ==
    LET all   == Diff(s.ack, c.unack)
        sync  == IF c.ini = c.unack /\ c.state \in Synchronizing THEN 1 ELSE 0
        fin   == IF "FIN" \in c.flags /\ c.count - sync = all - sync /\ all - sync # 0 THEN 1 ELSE 0
        bytes == all - sync - fin
    IN  [c EXCEPT !.count = @ - all,
                  !.sendq = SubSeq(@, bytes + 1, Len(@)),
                  !.unack = s.ack,
                  !.rtrn  = s.ack # c.next,
                  !.ptr   = IF Diff(@, s.ack) < 0 THEN s.ack ELSE @]

update_wind(c, s) ==
    IF Diff(s.ack, c.next) > 0 THEN Raise(c, "FORCE")
    ELSE LET new == NewWindow(c, s)
         IN  IF Diff(s.ack, c.unack) <= 0 THEN new ELSE Acknowledged(new, s)

Numbers(s) == Len(s.data) + (IF s.sync THEN 1 ELSE 0) + (IF s.fin THEN 1 ELSE 0)

\* Plausible slip: with the window closed a byte is still accepted.
TakesProbe(c, s) == s.seq = c.rnext
Acceptable(c, s) ==
    IF c.rwin = 0 THEN s.seq = c.rnext /\ Numbers(s) = 0
    ELSE LET last == Plus(c.rnext, c.rwin - 1)
             end  == Plus(s.seq, Numbers(s) - 1)
         IN  Within(s.seq, c.rnext, last) \/ Within(end, c.rnext, last) \/ Within(c.rnext, s.seq, end)

\* A SYN is taken off the segment, then what came before, then what does not fit.
\* Plausible slip: bytes that came before are kept.
KeepsDupes(c, s) == s
DropDupes(c, s) ==
    LET dupes == Diff(c.rnext, s.seq)
    IN  IF dupes <= 0 THEN s
        ELSE [s EXCEPT !.seq = c.rnext, !.data = SubSeq(@, dupes + 1, Len(@))]
DropExcess(c, s) ==
    LET excess == Diff(Plus(s.seq, Len(s.data)), Plus(c.rnext, c.rwin))
        cut    == IF s.fin THEN excess - 1 ELSE excess
    IN  IF excess <= 0 THEN s
        ELSE [s EXCEPT !.fin = FALSE, !.data = SubSeq(@, 1, Len(@) - cut)]
trim_segm(c, s) ==
    IF c.rwin = 0 THEN Outcome(c, s)
    ELSE LET c1 == IF s.sync /\ c.rnext = s.seq THEN [c EXCEPT !.rnext = Plus(@, 1)] ELSE c
             s1 == IF s.sync THEN [s EXCEPT !.sync = FALSE, !.seq = Plus(@, 1)] ELSE s
         IN  Outcome(c1, DropExcess(c1, DropDupes(c1, s1)))

\* Before the first with a higher sequence number.
add_resequ(c, s) ==
    LET i == SelectInSeq(c.reseq, LAMBDA r : Diff(s.seq, r.seq) < 0)
    IN  [c EXCEPT !.reseq = IF i = 0 THEN Append(@, s) ELSE InsertAt(@, i, s)]

Advanced(c, s) ==
    LET u == update_wind(c, s)
        all == u.count = 0
    IN  CASE c.state = "SYN_RECV"  -> Now(u, "ESTABLISH")
          [] c.state = "FIN_WAIT1" -> IF all THEN Now(u, "FIN_WAIT2") ELSE u
          [] c.state = "CLOSING"   -> IF all THEN [Now(u, "TIME_WAIT") EXCEPT !.rtrn = TRUE] ELSE u
          [] c.state = "LAST_ACK"  -> IF all THEN u ELSE [Raise(u, "FORCE") EXCEPT !.rtrn = TRUE]
          [] c.state = "TIME_WAIT" -> [Raise(c, "FORCE") EXCEPT !.rtrn = TRUE]
          [] OTHER                 -> u

Stored(c, s) ==
    IF s.data # <<>> /\ c.state \in {"SYN_RECV", "ESTABLISH", "FIN_WAIT1", "FIN_WAIT2"}
    THEN [Raise(c, "FORCE") EXCEPT !.recvq = @ \o s.data, !.rnext = Plus(@, Len(s.data)),
                                   !.rwin = (@ - Len(s.data)) % WINS]
    ELSE c

\* Plausible slip: the FIN has no place among the sequence numbers.
FinishedUncounted(c) == Now(c, "CLOSE_WAIT")
Finished(c) ==
    LET next == [c EXCEPT !.rnext = Plus(@, 1)]
    IN  CASE c.state \in {"SYN_RECV", "ESTABLISH"}        -> Now(next, "CLOSE_WAIT")
          [] c.state = "FIN_WAIT1" /\ c.count # 0         -> Now(next, "CLOSING")
          [] c.state \in {"FIN_WAIT1", "FIN_WAIT2"}       -> [Now(next, "TIME_WAIT") EXCEPT !.rtrn = TRUE]
          [] c.state = "TIME_WAIT"                        -> [c EXCEPT !.rtrn = TRUE]
          [] OTHER                                        -> c
Ended(c, s) == IF s.fin THEN Finished(Raise(c, "FORCE")) ELSE c

\* A segment that comes in order.  What it leaves says whether the loop of do_arrive goes on.
Goes(c)         == [c |-> c, out |-> <<>>, on |-> TRUE]
Returns(c, out) == [c |-> c, out |-> out, on |-> FALSE]
Takes(c, s) ==
    IF s.reset THEN Returns(IF c.state = "SYN_RECV" /\ c.passive THEN Now(c, "LISTEN")
                            ELSE Fails(close_self(c, "E_RRESET"), "E_RRESET"), <<>>)
    ELSE IF s.sync THEN Returns(Fails(c, "E_UA"), send_reset(s))
    ELSE IF ~s.isack THEN Returns(c, <<>>)
    ELSE IF c.state = "SYN_RECV" /\ ~Within(s.ack, Plus(c.unack, 1), c.next)
         THEN Returns(Fails(c, "E_UA"), send_reset(s))
    ELSE With(Advanced(c, s), LAMBDA a :
             IF c.state = "LAST_ACK" /\ a.count = 0 THEN Returns(close_self(a, "E_NORMAL"), <<>>)
             ELSE Goes(Ended(Stored(a, s), s)))

\* The next segment that was kept, if the gap before it is closed.
Resumes(b) == b.on /\ b.c.reseq # <<>> /\ Diff(b.c.rnext, Head(b.c.reseq).seq) >= 0
TakesKept(b) ==
    LET s    == Head(b.c.reseq)
        rest == [b.c EXCEPT !.reseq = Tail(@)]
    IN  IF Acceptable(rest, s) THEN With(trim_segm(rest, s), LAMBDA t : Takes(t.c, t.out)) ELSE Goes(rest)
InOrder(c, s) ==
    LET after[n \in 0 .. Len(c.reseq)] ==
            IF n = 0 THEN Takes(c, s)
            ELSE With(after[n - 1], LAMBDA b : IF Resumes(b) THEN TakesKept(b) ELSE b)
    IN  With(after[Len(c.reseq)], LAMBDA b : IF b.on THEN do_output(b.c) ELSE Outcome(b.c, b.out))

\* From line 348 of do_arrive, and from line 309.
Trimmed(c, s) ==
    IF "DISCARD" \in c.flags /\ s.data # <<>>
    THEN Outcome(Fails(close_self(c, "E_CNTIMEOUT"), "E_CNTIMEOUT"), abort_conn(c))
    ELSE IF "CLOSING" \in c.flags /\ s.reset
    THEN Outcome(Fails(close_self(c, "E_CNTIMEOUT"), "E_CNTIMEOUT"), <<>>)
    ELSE IF s.seq # c.rnext /\ (s.data # <<>> \/ s.fin)
    THEN Outcome(add_resequ(c, s), <<>>)
    ELSE InOrder(c, s)
Checked(c, s) ==
    IF ~Acceptable(c, s) THEN (IF s.reset THEN Outcome(c, <<>>) ELSE do_output(Raise(c, "FORCE")))
    ELSE With(trim_segm(c, s), LAMBDA t : Trimmed(t.c, t.out))

\* A segment that brought a SYN goes on if there is more in it.
Synchronized(c, s) ==
    IF s.data # <<>> \/ s.fin THEN With(c, LAMBDA d : Checked(d, s)) ELSE do_output([c EXCEPT !.rnext = Plus(@, 1)])

Listens(c, s, ini) ==
    IF s.reset THEN Outcome(c, <<>>)
    ELSE IF s.isack THEN Outcome(c, send_reset(s))
    ELSE IF s.sync THEN Synchronized(Now(send_sync(process_sync(c, s), ini), "SYN_RECV"), s)
    ELSE Outcome(c, <<>>)

Connects(c, s) ==
    LET p == process_sync(c, s)
    IN  IF s.isack /\ ~Within(s.ack, Plus(c.ini, 1), c.next) THEN Outcome(Fails(c, "E_UA"), send_reset(s))
        ELSE IF s.reset
        THEN Outcome(IF s.isack THEN Fails(close_self(c, "E_RRESET"), "E_REFUSE") ELSE c, <<>>)
        ELSE IF ~s.sync THEN Outcome(c, <<>>)
        ELSE Synchronized(IF s.isack THEN Now(update_wind(p, s), "ESTABLISH") ELSE Now(p, "SYN_RECV"), s)

\* ini is the sequence number that a connection is answered with.
do_arrive(c, s, ini) ==
    CASE c.state = "CLOSED"   -> Outcome(Fails(c, "E_UA"), send_reset(s))
      [] c.state = "LISTEN"   -> Listens(c, s, ini)
      [] c.state = "SYN_SENT" -> Connects(c, s)
      [] OTHER                -> Checked(c, s)

(***************************************************************************)
(* The calls and the timers                                                *)
(***************************************************************************)
\* receive: n bytes go to the client, and the window that opens is announced if
\* it was closed or grows by a segment.
receive(c, n) ==
    LET r == [c EXCEPT !.recvq = SubSeq(@, n + 1, Len(@)), !.rwin = (@ + n) % WINS]
    IN  IF \/ r.rwin = n \/ (r.lstwin < MSS /\ r.rwin >= MSS)
           \/ Diff(Plus(r.rnext, r.rwin), Plus(r.lstnext, r.lstwin)) >= MSS
        THEN do_output(Raise(r, "FORCE")) ELSE Outcome(r, <<>>)

TCP_send(c, data) == do_output([c EXCEPT !.sendq = @ \o data, !.count = @ + Len(data)])

\* Plausible slip: the timer is not what sends from the first unacknowledged on.
SendsOn(c) == do_output([c EXCEPT !.rtrn = FALSE])
Retransmit(c) == do_output([c EXCEPT !.rtrn = FALSE, !.ptr = c.unack])

CNkick(c) == do_output(Raise([c EXCEPT !.rtrn = FALSE], "FORCE"))
=============================================================================
