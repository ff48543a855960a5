------------------------------- MODULE Masque -------------------------------
(***************************************************************************)
(* The Masquerade port (src/ports/masque/masque.s): a host lets the local  *)
(* network use the one address of its modem port.  my_send, in the         *)
(* interrupt, takes the datagrams that are routed to it one by one and     *)
(* rewrites address and port, by a list of conversations with the most     *)
(* recent one in front; my_set_state, in a task, switches it on and off.   *)
(***************************************************************************)
EXTENDS Integers, Sequences

CONSTANTS
    Inner,          \* the other hosts of the local network
    Local,          \* prt_des_ip_addr of this port: the host itself
    Remotes,        \* hosts of the Internet; a conversation uses one port of theirs, 0
    Reals,          \* addresses the provider may give to the modem port
    dummy_IP,       \* the address that hides the modem port's own
    Ports,          \* ports of the local network's hosts, and those that are called unasked
    MASQ_START,
    MASQ_TOTAL,     \* entries in the list, 4096 in the code
    QueueLen        \* bound of the model: datagrams that wait

Hosts == Inner \cup {Local}
MasqPorts == MASQ_START .. MASQ_START + MASQ_TOTAL - 1

ASSUME MasqueAssumption ==
    /\ MASQ_TOTAL \in Nat \ {0} /\ MASQ_START \in Nat /\ QueueLen \in Nat
    /\ Ports \subseteq Nat
    /\ Local \notin Inner /\ Remotes \cap Hosts = {} /\ Reals \cap (Hosts \cup Remotes) = {}
    /\ dummy_IP \notin Reals

VARIABLES
    table,          \* the entries from masq_root_p on
    masq_count,
    active_f,
    shown,          \* the address the modem port has
    realip,         \* prt_des_masq_realip
    master,         \* prt_des_masqed_ip: the host that keeps its ports and is called from outside
    tx,             \* the datagrams that wait for my_send
    leaving,        \* my_set_state has given the port its address back, and not yet done more
    within,         \* my_send is at work, d4 is what it works with
    d4,             \* the master, as my_send has read it
    owner           \* history: who spoke last in each conversation of the table

vars == <<table, masq_count, active_f, shown, realip, master, tx, leaving, within, d4, owner>>

\* asks: it is a request to be the master.
Datagram(src, sport, dst, dport) == [src |-> src, sport |-> sport, dst |-> dst, dport |-> dport, asks |-> FALSE]

Init ==
    /\ table = <<>> /\ masq_count = 0
    /\ active_f = FALSE /\ leaving = FALSE
    /\ shown \in Reals /\ realip = shown
    /\ master = Local
    /\ tx = <<>>
    /\ within = FALSE /\ d4 = Local
    /\ owner = <<>>

(***************************************************************************)
(* The list                                                                *)
(***************************************************************************)
Sends(e, d) == e.local = d.src /\ e.lport = d.sport /\ e.dest = <<d.dst, d.dport>>
Gets(e, d) == e.dest = <<d.src, d.sport>> /\ e.src_port = d.dport

IsFirst(i, hits) == i \in hits /\ \A j \in hits : i <= j

\* Plausible slip: the entry stays where it is.
Stays(i) == table
\* mask_found: the entry becomes the first.
ToFront(i) == [j \in DOMAIN table |-> IF j = 1 THEN table[i] ELSE IF j <= i THEN table[j - 1] ELSE table[j]]

\* With room and memory there is one entry more, otherwise the last one is used anew.
MayGrow == masq_count < MASQ_TOTAL
\* Plausible slip: the entry that is used anew gets the number that was given last.
ReusesCount == masq_count - 1
Reused == table[Len(table)].index
LinkUp(e, rest) == <<e>> \o rest
Indices == 0 .. MASQ_TOTAL - 1
Enter(entry) ==
    \/ /\ MayGrow
       /\ table' = LinkUp(entry[masq_count], table)
       /\ masq_count' = masq_count + 1
    \/ /\ masq_count > 0
       /\ table' = LinkUp(entry[Reused], SubSeq(table, 1, Len(table) - 1))
       /\ UNCHANGED masq_count

Talk(e) == <<e.dest, e.src_port>>
\* The first entry is used by who speaks, or is spoken to.
Belongs(who) ==
    owner' = [c \in {Talk(table'[i]) : i \in DOMAIN table'} |->
                IF c = Talk(table'[1]) THEN who ELSE owner[c]]

(***************************************************************************)
(* The datagrams                                                           *)
(***************************************************************************)
\* The master keeps its port, unless that may be taken for a masked one.
SrcPort(d, index) == IF d.src = d4 /\ d.sport \notin MasqPorts THEN d.sport ELSE MASQ_START + index

mask_common(d) ==
    LET hits == {i \in DOMAIN table : Sends(table[i], d)}
        entry == [n \in Indices |-> [local |-> d.src, lport |-> d.sport, dest |-> <<d.dst, d.dport>>,
                                     index |-> n, src_port |-> SrcPort(d, n)]]
    IN  /\ \/ (\E i \in hits : IsFirst(i, hits) /\ table' = ToFront(i)) /\ UNCHANGED masq_count
           \/ hits = {} /\ Enter(entry)
        /\ Belongs(<<d.src, d.sport>>)

\* What nobody is known to wait for is the master's.
unmask_common(d) ==
    LET hits == {i \in DOMAIN table : Gets(table[i], d)}
        entry == [n \in Indices |-> [local |-> d4, lport |-> d.dport, dest |-> <<d.src, d.sport>>,
                                     index |-> n, src_port |-> d.dport]]
    IN  \/ (\E i \in hits : IsFirst(i, hits) /\ table' = ToFront(i)) /\ UNCHANGED <<masq_count, owner>>
        \/ hits = {} /\ Enter(entry) /\ Belongs(<<d4, d.dport>>)

\* mask_UDP: a host asks to be the master; any address is answered.
Asks(h) == [Datagram(h, 0, Local, 0) EXCEPT !.asks = TRUE]

\* The modem port has got another address, which is hidden too.
Steals == realip' = (IF shown = dummy_IP THEN realip ELSE shown) /\ shown' = dummy_IP

my_send ==
    /\ active_f /\ ~within /\ within' = TRUE
    /\ Steals
    /\ master' = IF shown = dummy_IP THEN master ELSE Local
    /\ d4' = master'
    /\ UNCHANGED <<table, masq_count, active_f, tx, leaving, owner>>

send_loop ==
    /\ within /\ tx # <<>> /\ tx' = Tail(tx)
    /\ LET d == Head(tx)
       IN  \/ UNCHANGED <<table, masq_count, master, owner>>  \* too old, or no memory for a first entry
           \/ d.asks /\ master' = d.src /\ UNCHANGED <<table, masq_count, owner>>
           \/ ~d.asks /\ d.dst = realip /\ unmask_common(d) /\ UNCHANGED master
           \/ ~d.asks /\ d.dst # realip /\ mask_common(d) /\ UNCHANGED master
    /\ UNCHANGED <<active_f, shown, realip, leaving, within, d4>>

\* The queue is empty, or 50 ms are over.
exit_send ==
    /\ within /\ within' = FALSE
    /\ d4' = Local   \* read again before it is used
    /\ UNCHANGED <<table, masq_count, active_f, shown, realip, master, tx, leaving, owner>>

(***************************************************************************)
(* On and off                                                              *)
(***************************************************************************)
Activate ==
    /\ ~active_f /\ active_f' = TRUE
    /\ Steals
    /\ UNCHANGED <<table, masq_count, master, tx, leaving, within, d4, owner>>

\* my_set_state, where the interrupt may come before the flag is cleared.
Restore ==
    /\ active_f /\ ~within /\ ~leaving /\ leaving' = TRUE
    /\ shown' = realip
    /\ UNCHANGED <<table, masq_count, active_f, realip, master, tx, within, d4, owner>>
Passivate ==
    /\ leaving /\ ~within /\ leaving' = FALSE /\ active_f' = FALSE
    /\ table' = <<>> /\ masq_count' = 0
    /\ master' = IF table = <<>> THEN master ELSE Local
    /\ owner' = <<>>
    /\ UNCHANGED <<shown, realip, tx, within, d4>>

(***************************************************************************)
(* The hosts around it                                                     *)
(***************************************************************************)
Queue(d) ==
    /\ ~within /\ Len(tx) < QueueLen /\ tx' = Append(tx, d)
    /\ UNCHANGED <<table, masq_count, active_f, shown, realip, master, leaving, within, d4, owner>>
HostSends == \E h \in Hosts, p \in Ports, r \in Remotes : Queue(Datagram(h, p, r, 0))
HostAsks == \E h \in Hosts : Queue(Asks(h))
\* An answer, however late, or a call.  Datagrams to the address the port shows are not
\* routed to Masquerade.
Arrives == shown = dummy_IP /\ \E r \in Remotes, p \in Ports \cup MasqPorts : Queue(Datagram(r, 0, realip, p))
\* The modem port has got an address.
Redial ==
    /\ ~within /\ shown' \in Reals \ {shown}
    /\ UNCHANGED <<table, masq_count, active_f, realip, master, tx, leaving, within, d4, owner>>

Next == my_send \/ send_loop \/ exit_send \/ Activate \/ Restore \/ Passivate \/ HostSends \/ HostAsks \/ Arrives \/ Redial
Spec == Init /\ [][Next]_vars

(***************************************************************************)
(* Properties                                                              *)
(***************************************************************************)
Addresses == Hosts \cup Remotes \cup Reals
PortNumbers == Ports \cup MasqPorts \cup {0}
Entries == [local : Addresses, lport : PortNumbers, dest : Addresses \X PortNumbers, index : Indices, src_port : PortNumbers]
Datagrams == [src : Addresses, sport : PortNumbers, dst : Addresses, dport : PortNumbers, asks : BOOLEAN]
\* The list is as long as its counter says.
TypeOK ==
    /\ table \in Seq(Entries) /\ masq_count = Len(table) /\ masq_count <= MASQ_TOTAL
    /\ tx \in Seq(Datagrams)
    /\ active_f \in BOOLEAN /\ leaving \in BOOLEAN /\ within \in BOOLEAN
    /\ shown \in Reals \cup {dummy_IP} /\ realip \in Reals
    /\ master \in Addresses /\ d4 \in Addresses

\* An answer goes to the host and port that spoke last in this conversation, however long the
\* list has been in use, entries were used anew, other hosts became the master or the modem
\* port was given another address: the entry found first for it is the owner's.
AnswersGoHome ==
    \A i \in DOMAIN table :
        (\A j \in 1 .. i - 1 : Talk(table[j]) # Talk(table[i]))
          => owner[Talk(table[i])] = <<table[i].local, table[i].lport>>

\* Two conversations that were both given a port from their number never share it, although
\* numbers are used anew: of two entries with one port, one has its host's own port.  Own
\* ports may meet any other: the master keeps its port (mask_local), also when another host
\* becomes the master, and a call from outside keeps the port that was called, even one of
\* the masked range (unmask_linkup).
PortsApart ==
    \A i, j \in DOMAIN table :
        i # j /\ table[i].src_port = table[j].src_port
          => table[i].src_port = table[i].lport \/ table[j].src_port = table[j].lport

\* What the proofs need besides: no two entries have one number, and a port that is not the
\* number's is the host's own.
NumbersApart ==
    \A i, j \in DOMAIN table : table[i].index < masq_count /\ (i # j => table[i].index # table[j].index)
PortsFromNumbers ==
    \A i \in DOMAIN table : table[i].src_port \in {MASQ_START + table[i].index, table[i].lport}
IInv == TypeOK /\ NumbersApart /\ PortsFromNumbers /\ AnswersGoHome
=============================================================================
