------------------------------ MODULE UdpQueue ------------------------------
(***************************************************************************)
(* The receiving half of a UDP pseudo connection (src/proto/udp/udp.c):    *)
(* UDP_handler hangs the data of a datagram on `pending' in the interrupt, *)
(* timer_work moves it to `receive_queue', and the CN* calls read it from  *)
(* there.  The semaphore keeps the calls and timer_work apart; the checks  *)
(* of total_data are made before it is taken.                              *)
(*                                                                         *)
(* A call is four steps: poll_receive, the check, the semaphore, the work  *)
(* that ends with its release.  The interrupt comes between any two.       *)
(***************************************************************************)
EXTENDS Integers, SequencesExt, FiniteSetsExt

CONSTANTS
    Callers,      \* tasks that read the connection
    Workloads,    \* which calls each of them makes
    Bytes, NewLine,  \* NewLine: the delimiter the clients pass to CNgets
    Payloads,     \* the data of datagrams
    Lengths,      \* buffer lengths the clients pass
    Behind,       \* what the byte in memory behind a block of data can be
    MaxArrivals   \* bound of the model: datagrams that arrive

ASSUME BytesAssumption ==
    /\ NewLine \in Bytes /\ Behind \subseteq Bytes
    /\ \E b \in Behind : b # NewLine
    /\ Payloads \subseteq Seq(Bytes)
Calls == {"get_char", "get_NDB", "get_block", "gets"}
ASSUME WorkloadsAssumption == Workloads \subseteq [Callers -> SUBSET Calls]
ASSUME LengthsAssumption == Lengths \subseteq Nat /\ MaxArrivals \in Nat

VARIABLES
    makes,          \* the workload
    pending,        \* blocks the timer did not see yet
    receive_queue,  \* blocks the clients read
    total_data,     \* what CNbyte_count answers
    semaphore,      \* TRUE while the queue is being worked on
    call,           \* the call each task is in
    arrivals,       \* bounds the model
    given           \* history: the bytes the clients were given

vars == <<makes, pending, receive_queue, total_data, semaphore, call, arrivals, given>>

Blocks  == [data : Payloads, index : Nat]
NoCall  == [op |-> "none", at |-> "done", length |-> 0]

TypeOK ==
    /\ makes \in Workloads
    /\ pending \in Seq(Payloads)
    /\ receive_queue \in Seq(Blocks)
    /\ total_data \in Nat
    /\ semaphore \in BOOLEAN
    /\ call \in [Callers -> [op : Calls \cup {"none"}, at : {"check", "wait", "work", "done"},
                             length : Lengths \cup {0}]]
    /\ arrivals \in 0 .. MaxArrivals
    /\ given \in Seq(Bytes)

Init ==
    /\ makes \in Workloads
    /\ pending = <<>> /\ receive_queue = <<>> /\ total_data = 0 /\ semaphore = FALSE
    /\ call = [c \in Callers |-> NoCall]
    /\ arrivals = 0 /\ given = <<>>

Rest(b)   == SubSeq(b.data, b.index + 1, Len(b.data))
Remain(b) == Len(b.data) - b.index
Data(q)   == FlattenSeq([i \in 1 .. Len(q) |-> Rest(q[i])])
SumOf(q)  == Len(Data(q))

(***************************************************************************)
(* The interrupt                                                           *)
(***************************************************************************)
\* Plausible slip: the newest datagram first, as in the queues of the kernel.
HandlerPutsFirst(d) ==
    /\ arrivals < MaxArrivals
    /\ arrivals' = arrivals + 1
    /\ pending' = <<d>> \o pending
    /\ UNCHANGED <<makes, receive_queue, total_data, semaphore, call, given>>
UDP_handler(d) ==
    /\ arrivals < MaxArrivals
    /\ arrivals' = arrivals + 1
    /\ pending' = Append(pending, d)
    /\ UNCHANGED <<makes, receive_queue, total_data, semaphore, call, given>>

NewBlocks == [i \in 1 .. Len(pending) |-> [data |-> pending[i], index |-> 0]]

\* Plausible slip: only an empty queue is filled.
OnlyWhenEmpty ==
    IF semaphore \/ receive_queue # <<>> THEN UNCHANGED <<pending, receive_queue, total_data, semaphore>>
    ELSE /\ receive_queue' = NewBlocks
         /\ total_data' = SumOf(NewBlocks)
         /\ pending' = <<>> /\ UNCHANGED semaphore
work ==
    IF semaphore THEN UNCHANGED <<pending, receive_queue, total_data, semaphore>>
    ELSE /\ receive_queue' = receive_queue \o NewBlocks
         /\ total_data' = total_data + SumOf(NewBlocks)
         /\ pending' = <<>> /\ UNCHANGED semaphore

timer_work == work /\ UNCHANGED <<makes, call, arrivals, given>>

(***************************************************************************)
(* The calls                                                               *)
(***************************************************************************)
Goes(c, at) == call' = [call EXCEPT ![c].at = at]
Ends(c)     == call' = [call EXCEPT ![c] = NoCall]

\* poll_receive does the work of the timer when it was last done long ago.
poll_receive(c, op, length) ==
    /\ call[c] = NoCall /\ op \in makes[c]
    /\ op \in {"get_block", "gets"} \/ length = 0
    /\ call' = [call EXCEPT ![c] = [op |-> op, at |-> "check", length |-> length]]
    /\ \/ UNCHANGED <<pending, receive_queue, total_data, semaphore>>
       \/ work
    /\ UNCHANGED <<makes, arrivals, given>>

Refused(k) ==
    \/ k.op = "get_block" /\ (k.length = 0 \/ k.length > total_data)
    \/ k.op = "gets" /\ (k.length <= 1 \/ total_data = 0)

check(c) ==
    /\ call[c].at = "check"
    /\ IF Refused(call[c]) THEN Ends(c) ELSE Goes(c, "wait")
    /\ UNCHANGED <<makes, pending, receive_queue, total_data, semaphore, arrivals, given>>

\* Plausible slip: the answer of tas is taken for its opposite.
EntersAnyway(c) ==
    /\ call[c].at = "wait"
    /\ semaphore' = TRUE /\ Goes(c, "work")
    /\ UNCHANGED <<makes, pending, receive_queue, total_data, arrivals, given>>
req_flag(c) ==
    /\ call[c].at = "wait"
    /\ \/ ~semaphore /\ semaphore' = TRUE /\ Goes(c, "work")
       \/ semaphore /\ Ends(c) /\ UNCHANGED semaphore  \* E_LOCKED after a second
    /\ UNCHANGED <<makes, pending, receive_queue, total_data, arrivals, given>>

\* What every call that worked leaves: the semaphore free.
Leaves(c, op) == call[c].at = "work" /\ call[c].op = op /\ semaphore' = FALSE /\ Ends(c)
Holds(c)      == call[c].at = "work"

\* Blocks that were read to their end are freed on the way to the first that was not.
FirstUnread == {i \in 1 .. Len(receive_queue) :
                  Remain(receive_queue[i]) > 0 /\ \A j \in 1 .. i - 1 : Remain(receive_queue[j]) <= 0}
From(i) == SubSeq(receive_queue, i, Len(receive_queue))
Advance(q, n) == <<[q[1] EXCEPT !.index = @ + n]>> \o Tail(q)

\* Plausible slip: the character stays.
PeeksChar(c) ==
    /\ Leaves(c, "get_char")
    /\ \/ /\ FirstUnread = {} /\ receive_queue' = <<>> /\ UNCHANGED <<total_data, given>>
       \/ \E i \in FirstUnread :
            /\ receive_queue' = From(i)
            /\ total_data' = total_data - 1
            /\ given' = Append(given, Head(Rest(receive_queue[i])))
    /\ UNCHANGED <<makes, pending, arrivals>>
CNget_char(c) ==
    /\ Leaves(c, "get_char")
    /\ \/ /\ FirstUnread = {} /\ receive_queue' = <<>> /\ UNCHANGED <<total_data, given>>
       \/ \E i \in FirstUnread :
            /\ receive_queue' = Advance(From(i), 1)
            /\ total_data' = total_data - 1
            /\ given' = Append(given, Head(Rest(receive_queue[i])))
    /\ UNCHANGED <<makes, pending, arrivals>>

\* The rest of the first block, or nothing when there is no memory for an NDB.
CNget_NDB(c) ==
    /\ Leaves(c, "get_NDB")
    /\ \/ /\ FirstUnread = {} /\ receive_queue' = <<>> /\ UNCHANGED <<total_data, given>>
       \/ \E i \in FirstUnread :
            /\ receive_queue' = From(i)
            /\ UNCHANGED <<total_data, given>>
       \/ \E i \in FirstUnread :
            /\ receive_queue' = From(i + 1)
            /\ total_data' = total_data - Remain(receive_queue[i])
            /\ given' = given \o Rest(receive_queue[i])
    /\ UNCHANGED <<makes, pending, arrivals>>

\* Sum of what is left in the first i blocks.
Through(i) == SumOf(SubSeq(receive_queue, 1, i))

\* When there is less than total_data said, all of it is taken and E_NODATA is
\* returned: the caller cannot tell how much of the buffer was filled.
CNget_block(c) ==
    LET n == call[c].length
    IN  /\ Leaves(c, "get_block")
        /\ \/ /\ SumOf(receive_queue) < n
              /\ receive_queue' = <<>> /\ UNCHANGED <<total_data, given>>
           \/ \E i \in 1 .. Len(receive_queue) :
                /\ Through(i - 1) < n /\ n <= Through(i)
                /\ receive_queue' = IF n = Through(i) THEN From(i + 1)
                                    ELSE Advance(From(i), n - Through(i - 1))
                /\ total_data' = total_data - n
                /\ given' = given \o SubSeq(Data(receive_queue), 1, n)
        /\ UNCHANGED <<makes, pending, arrivals>>

(***************************************************************************)
(* CNgets copies up to length - 1 bytes, block by block, and looks at the  *)
(* byte it stopped at: behind the end of a block that is whatever memory   *)
(* holds.  Copied(i) is what it copies of block i, room what is left of    *)
(* the buffer.                                                             *)
(***************************************************************************)
Before(r) == Min({j - 1 : j \in {j \in 1 .. Len(r) : r[j] = NewLine}} \cup {Len(r)})
Room(c, i)   == call[c].length - 1 - Through(i - 1)
Copied(c, i) == Min({Before(Rest(receive_queue[i])), Room(c, i)})
Hits(c, i)   == Copied(c, i) < Remain(receive_queue[i])
                  /\ Rest(receive_queue[i])[Copied(c, i) + 1] = NewLine
Fills(c, i)  == Copied(c, i) = Room(c, i)
AtEnd(c, i)  == Copied(c, i) = Remain(receive_queue[i])
Passes(c, i) == ~Hits(c, i) /\ ~Fills(c, i)
Comes(c, i)  == \A j \in 1 .. i - 1 : Passes(c, j)

\* The line and its delimiter, as far as it is data.
Line(c, i) ==
    SubSeq(Data(receive_queue), 1,
           Min({SumOf(receive_queue), Through(i - 1) + Copied(c, i) + 1}))

\* Plausible slip: the delimiter is not counted.
GetsForgetsOne(c) ==
    /\ Leaves(c, "gets")
    /\ \/ UNCHANGED <<receive_queue, total_data, given>>
       \/ \E i \in 1 .. Len(receive_queue) :
            /\ Comes(c, i) /\ Hits(c, i)
            /\ receive_queue' = Advance(From(i), Copied(c, i) + 1)
            /\ total_data' = total_data - (Through(i - 1) + Copied(c, i))
            /\ given' = given \o Line(c, i)
    /\ UNCHANGED <<makes, pending, arrivals>>
CNgets(c) ==
    /\ Leaves(c, "gets")
    /\ \/ /\ \A i \in 1 .. Len(receive_queue) : Comes(c, i) => ~Hits(c, i)
          /\ UNCHANGED <<receive_queue, total_data, given>>
       \/ \E i \in 1 .. Len(receive_queue) :
            /\ Comes(c, i) /\ (Hits(c, i) \/ (AtEnd(c, i) /\ NewLine \in Behind))
            /\ receive_queue' = Advance(From(i), Copied(c, i) + 1)
            /\ total_data' = total_data - (Through(i - 1) + Copied(c, i) + 1)
            /\ given' = given \o Line(c, i)
    /\ UNCHANGED <<makes, pending, arrivals>>

Next ==
    \/ \E d \in Payloads : UDP_handler(d)
    \/ timer_work
    \/ \E c \in Callers :
         \/ \E op \in Calls, length \in Lengths \cup {0} : poll_receive(c, op, length)
         \/ check(c) \/ req_flag(c)
         \/ CNget_char(c) \/ CNget_NDB(c) \/ CNget_block(c) \/ CNgets(c)

Finishes(c) == check(c) \/ req_flag(c) \/ CNget_char(c) \/ CNget_NDB(c) \/ CNget_block(c) \/ CNgets(c)

\* A task comes to the end of its call; the timer does not find it in there every
\* time.
Fairness == SF_vars(timer_work /\ ~semaphore) /\ \A c \in Callers : WF_vars(Finishes(c))
Spec == Init /\ [][Next]_vars /\ Fairness

(***************************************************************************)
(* Properties                                                              *)
(***************************************************************************)
\* Only one task works on the queue at a time, and the timer only when no task does.
OneWorks ==
    /\ \A c, d \in Callers : Holds(c) /\ Holds(d) => c = d
    /\ semaphore <=> \E c \in Callers : Holds(c)

\* CNbyte_count tells how much there is to read: also when datagrams come in
\* while the queue is read, are read in pieces or across their boundaries.
CountIsTrue == total_data = SumOf(receive_queue)

\* The readers get the bytes of the datagrams in the order of arrival, each once.
Reader == INSTANCE Stream
    WITH unread <- Data(receive_queue) \o FlattenSeq(pending), given <- given
ImplementsStream == Reader!Spec

\* What has arrived comes to be read, however often the timer finds the queue busy.
GetsReadable == pending # <<>> ~> pending = <<>>
=============================================================================
