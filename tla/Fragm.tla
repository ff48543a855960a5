------------------------------- MODULE Fragm -------------------------------
(***************************************************************************)
(* Fragmentation and reassembly (src/sting/fragm.c): fragment cuts a       *)
(* datagram that is longer than the mtu, reassembly collects fragments in  *)
(* a buffer that grows, and keeps a bit for each block it has; clean_up    *)
(* gives up what is not complete in time.  The network in between delivers *)
(* in order or not, loses and repeats.                                     *)
(***************************************************************************)
EXTENDS Naturals, SequencesExt, FiniteSetsExt

CONSTANTS
    BLOCK,       \* bytes of a block, the unit of fragment offsets (8)
    BITS,        \* blocks in a byte of blk_bits (8)
    SPARE,       \* bytes a buffer gets more than it needs (1024)
    UNIT,        \* bytes of a unit of memory (8)
    WORD,        \* numbers of a uint16 (65536)
    Datagrams,   \* identities of datagrams, with source and ident
    Length,      \* data length of each
    Path,        \* for each link on the way: the data that fits into the first
                 \* fragment, with all options, and into the others
    Networks,    \* what the surroundings may be like
    Repeats      \* bound of the model: fragments that come twice

ASSUME SizesAssumption ==
    /\ BLOCK \in Nat \ {0} /\ BITS \in Nat \ {0} /\ SPARE \in Nat /\ UNIT \in Nat \ {0}
    /\ WORD \in Nat \ {0}
    /\ Path \in Seq([first : Nat \ {0}, others : Nat \ {0}])
    /\ \A i \in 1 .. Len(Path) : Path[i].first % BLOCK = 0 /\ Path[i].others % BLOCK = 0
Nobody == "nobody"
ASSUME NetworkAssumption ==
    /\ Nobody \notin Datagrams
    /\ Length \in [Datagrams -> Nat \ {0}]
    /\ Repeats \in Nat
    /\ Networks \subseteq [ordered : BOOLEAN, losing : BOOLEAN, dirt : SUBSET Nat,
                    stale : SUBSET Datagrams]

VARIABLES
    net,       \* it delivers in order; it loses, and memory runs out; what memory
               \* that was just allocated may hold: bits, headers of datagrams
    wire,      \* fragments on their way, for each datagram
    repeats,   \* bounds the model
    lost,      \* datagrams of which something was lost or given up
    defrag,    \* the chain of datagrams that are put together
    delivered, \* what the handler of the protocol got
    dangling   \* TRUE once a part of the chain was freed and left in it

frag_vars == <<net, wire, repeats, lost, defrag, delivered, dangling>>

(***************************************************************************)
(* fragment                                                                *)
(***************************************************************************)
\* Where the k-th fragment of len bytes starts, and how long it is.
Start(k, m) == IF k = 1 THEN 0 ELSE m.first + (k - 2) * m.others
Count(len, m) == 1 + (len - m.first + m.others - 1) \div m.others
Size(k, len, m) == Min({len - Start(k, m), IF k = 1 THEN m.first ELSE m.others})

\* Plausible slips: the last fragment also says there are more; no fragment does.
LastSaysMore(f, m) ==
    [k \in 1 .. Count(f.len, m) |->
        [ofst |-> Start(k, m) \div BLOCK, len |-> Size(k, f.len, m), more |-> TRUE]]
NeverSaysMore(f, m) ==
    [k \in 1 .. Count(f.len, m) |->
        [ofst |-> Start(k, m) \div BLOCK, len |-> Size(k, f.len, m), more |-> FALSE]]
\* The offsets start at 0, also when what is cut is a fragment itself.
fragment(f, m) ==
    [k \in 1 .. Count(f.len, m) |->
        [ofst |-> Start(k, m) \div BLOCK, len |-> Size(k, f.len, m),
         more |-> f.more \/ k < Count(f.len, m)]]

Whole(d) == [ofst |-> 0, len |-> Length[d], more |-> FALSE]
Cross(fs, m) ==
    FlattenSeq([i \in 1 .. Len(fs) |->
                  IF fs[i].len <= m.first THEN <<fs[i]>> ELSE fragment(fs[i], m)])
Sent(d) ==
    LET on[i \in 0 .. Len(Path)] == IF i = 0 THEN <<Whole(d)>> ELSE Cross(on[i - 1], Path[i])
    IN  on[Len(Path)]

Fragments == [ofst : Nat, len : Nat \ {0}, more : BOOLEAN]
Resource  == [header : Datagrams \cup {Nobody}, space : Nat, have : SUBSET (Datagrams \X Nat),
              bits : SUBSET Nat, ttl_data : Nat]

FragTypes ==
    /\ net \in Networks
    /\ wire \in [Datagrams -> Seq(Fragments)]
    /\ repeats \in 0 .. Repeats /\ lost \subseteq Datagrams
    /\ defrag \in Seq(Resource)
    /\ \A x \in delivered : x.id \in Datagrams \cup {Nobody} /\ x.len \in Nat
    /\ dangling \in BOOLEAN

FragInit ==
    /\ net \in Networks
    /\ wire = [d \in Datagrams |-> Sent(d)]
    /\ repeats = 0 /\ lost = {}
    /\ defrag = <<>> /\ delivered = {} /\ dangling = FALSE

(***************************************************************************)
(* reassembly                                                              *)
(***************************************************************************)
\* The header that is searched for is that of the first fragment: until it came,
\* the memory holds whatever it held before, mostly the header of nobody.
Matches(d) == {i \in 1 .. Len(defrag) : defrag[i].header = d}
Fresh(was) == [header |-> was, space |-> 0, have |-> {}, bits |-> {}, ttl_data |-> 0]

\* Plausible slip: only where the fragment starts is looked at.
ForgetsLength(walk, f) ==
    IF walk.space < f.ofst * BLOCK THEN f.ofst * BLOCK + SPARE ELSE walk.space
\* needed, and what it becomes when the buffer grows: a uint16.
Needed(f) == (f.ofst * BLOCK + f.len) % WORD
Grown(walk, f) == IF walk.space < Needed(f) THEN (Needed(f) + SPARE) % WORD ELSE walk.space

\* The loop runs to count <= length / 8: a bit more than there are full blocks.
Bitmap(f) == f.ofst .. f.ofst + f.len \div BLOCK
Bytes(f)  == f.ofst * BLOCK .. f.ofst * BLOCK + f.len - 1

BitBytes(space) == (space + BLOCK * BITS - 1) \div (BLOCK * BITS)
InUnits(bytes) == ((bytes + UNIT - 1) \div UNIT) * UNIT
\* KRrealloc clears what it adds, except the rest of the last unit of a block
\* that is new: it comes into use when the block need not move to grow.
Dirty(walk, f) ==
    LET bytes == BitBytes(Grown(walk, f))
    IN  {b \in net.dirt : walk.space = 0 /\ b \div BITS \in bytes .. InUnits(bytes) - 1}

\* The bytes are those of the last fragment that had them.
Store(walk, d, f, dirt) ==
    [walk EXCEPT !.space = Grown(walk, f),
                 !.have = {x \in @ : x[2] \notin Bytes(f)} \cup ({d} \X Bytes(f)),
                 !.bits = @ \cup dirt \cup Bitmap(f),
                 !.header = IF f.ofst = 0 THEN d ELSE @,
                 !.ttl_data = IF f.more THEN @ ELSE f.ofst * BLOCK + f.len]

\* All full bytes of blk_bits are set, and of the last one exactly what is needed.
Complete(walk) ==
    LET full   == walk.ttl_data \div (BLOCK * BITS)
        needed == ((walk.ttl_data % (BLOCK * BITS)) + BLOCK - 1) \div BLOCK
    IN  /\ walk.ttl_data # 0
        /\ 0 .. full * BITS - 1 \subseteq walk.bits
        /\ (needed # 0) => {b \in walk.bits : b \div BITS = full} = full * BITS .. full * BITS + needed - 1

Delivery(walk) ==
    [id |-> walk.header, len |-> walk.ttl_data,
     whole |-> {walk.header} \X (0 .. walk.ttl_data - 1) \subseteq walk.have]

\* The place of the datagram in the chain, or a new one at its end.
Place(d) == IF Matches(d) = {} THEN Len(defrag) + 1 ELSE Min(Matches(d))
Before(d) == IF Matches(d) = {} THEN {Fresh(was) : was \in net.stale \cup {Nobody}} ELSE {defrag[Place(d)]}

reassembly(d, f) ==
    \E before \in Before(d) : \E dirt \in SUBSET Dirty(before, f) :
        LET walk == Store(before, d, f, dirt)
        IN  IF Complete(walk)
              THEN /\ delivered' = delivered \cup {Delivery(walk)}
                   /\ defrag' = SubSeq(defrag, 1, Place(d) - 1) \o SubSeq(defrag, Place(d) + 1, Len(defrag))
              ELSE /\ defrag' = SubSeq(defrag, 1, Place(d) - 1) \o <<walk>>
                                \o SubSeq(defrag, Place(d) + 1, Len(defrag))
                   /\ UNCHANGED delivered

(***************************************************************************)
(* The network                                                             *)
(***************************************************************************)
Arrives(d, i) == i \in 1 .. Len(wire[d]) /\ (net.ordered => i = 1) /\ ~dangling

arrive(d, i) ==
    /\ Arrives(d, i)
    /\ reassembly(d, wire[d][i])
    /\ \/ wire' = [wire EXCEPT ![d] = RemoveAt(@, i)] /\ UNCHANGED repeats
       \/ repeats < Repeats /\ repeats' = repeats + 1 /\ UNCHANGED wire
    /\ UNCHANGED <<net, lost, dangling>>

\* The network loses a fragment; or there is no memory for the resources, and the
\* fragment is discarded.
lose(d, i) ==
    /\ net.losing /\ Arrives(d, i)
    /\ wire' = [wire EXCEPT ![d] = RemoveAt(@, i)]
    /\ lost' = lost \cup {d}
    /\ UNCHANGED <<net, repeats, defrag, delivered, dangling>>

\* No memory for a larger buffer: what there was is freed and stays in the chain.
no_realloc(d, i) ==
    /\ net.losing /\ Arrives(d, i)
    /\ \E before \in Before(d) : before.space < Needed(wire[d][i])
    /\ dangling' = TRUE
    /\ UNCHANGED <<net, wire, repeats, lost, defrag, delivered>>

\* What is not complete in time is given up, one resource a step.
clean_defrag(i) ==
    /\ ~dangling /\ i \in 1 .. Len(defrag)
    /\ defrag' = RemoveAt(defrag, i)
    /\ lost' = lost \cup {x[1] : x \in defrag[i].have}
    /\ UNCHANGED <<net, wire, repeats, delivered, dangling>>

Quiet == dangling \/ (defrag = <<>> /\ \A d \in Datagrams : wire[d] = <<>>)

FragNext ==
    \/ \E d \in Datagrams : \E i \in 1 .. Len(wire[d]) : arrive(d, i) \/ lose(d, i) \/ no_realloc(d, i)
    \/ \E i \in 1 .. Len(defrag) : clean_defrag(i)
    \/ Quiet /\ UNCHANGED frag_vars

FragSpec == FragInit /\ [][FragNext]_frag_vars

(***************************************************************************)
(* Properties                                                              *)
(***************************************************************************)
\* What the handler gets is the datagram that was sent: its whole length, and
\* every byte of it came in some fragment.  "Fragmentation and reassembly will
\* happen as required.  This is completely transparent" (program.sti).
OnlyWhole == \A x \in delivered : x.whole /\ x.len = Length[x.id]

\* The same as far as the code goes: fragments come in order and none is lost,
\* the rest of the unit of memory happens to be zero, and no memory holds the header of
\* a datagram; and no fragment is cut a second time on the way.
CutOnce ==
    \A d \in Datagrams :
        \/ Sent(d) = <<Whole(d)>>
        \/ \E i \in 1 .. Len(Path) : Length[d] > Path[i].first /\ Sent(d) = fragment(Whole(d), Path[i])
Benign == net.ordered /\ ~net.losing /\ net.dirt = {} /\ net.stale = {} /\ CutOnce
WholeInOrder == Benign => OnlyWhole

\* Then a datagram whose fragments have all come does not wait for more of them,
\* unless its last block is full and its last byte of blk_bits is not.
Completes(d) == Length[d] % BLOCK # 0 \/ Length[d] % (BLOCK * BITS) = 0
NoneWaits == \A d \in Datagrams :
    Benign /\ Completes(d) /\ wire[d] = <<>> /\ d \notin lost => \E x \in delivered : x.id = d

\* The data is never written behind the buffer, in whatever order the fragments
\* come and however often, as long as no datagram is so long that what it needs and
\* the spare bytes are more than a uint16 holds.
Short == \A d \in Datagrams : Length[d] + SPARE < WORD
DataFits ==
    Short => \A i \in 1 .. Len(defrag) : \A x \in defrag[i].have : x[2] < defrag[i].space

(***************************************************************************)
(* What the proofs rest on                                                 *)
(***************************************************************************)
Ends(f) == f.ofst * BLOCK + f.len

\* Nothing on its way reaches behind the end of its datagram.
WithinLength == \A d \in Datagrams : \A i \in 1 .. Len(wire[d]) : Ends(wire[d][i]) <= Length[d]

\* In a benign network the fragments on their way follow each other to the end, and
\* what has passed is what comes before them.
Chained(fs, length) ==
    \A i \in 1 .. Len(fs) :
        /\ fs[i].more = (i < Len(fs))
        /\ Ends(fs[i]) = IF i < Len(fs) THEN fs[i + 1].ofst * BLOCK ELSE length
Passed(d) == IF wire[d] = <<>> THEN Length[d] ELSE wire[d][1].ofst * BLOCK
Covers(walk, d, n) == {d} \X (0 .. n - 1) \subseteq walk.have

\* A resource without a header never has the first block; one with a header has all
\* that has passed, and knows the length only when it has everything.
Collected(walk) ==
    /\ walk.header = Nobody => 0 \notin walk.bits
    /\ \A d \in Datagrams : walk.header = d =>
         /\ Covers(walk, d, Passed(d))
         /\ walk.ttl_data # 0 => walk.ttl_data = Length[d] /\ Covers(walk, d, Length[d])
         /\ 0 .. Passed(d) \div BLOCK \subseteq walk.bits
         /\ walk.bits \subseteq 0 .. Length[d] \div BLOCK

\* What is not lost is delivered, or has not begun to arrive, or is collected.
Pending(d) ==
    \/ \E x \in delivered : x.id = d
    \/ wire[d] # <<>> /\ (Passed(d) = 0 \/ \E i \in 1 .. Len(defrag) : defrag[i].header = d)

BenignInv ==
    Benign =>
      /\ \A d \in Datagrams : Chained(wire[d], Length[d])
      /\ \A i \in 1 .. Len(defrag) : Collected(defrag[i])
      /\ \A i, j \in 1 .. Len(defrag) :
           defrag[i].header = defrag[j].header /\ defrag[i].header # Nobody => i = j
      /\ OnlyWhole
      /\ \A d \in Datagrams : Completes(d) /\ d \notin lost => Pending(d)

FragInv == FragTypes /\ WithinLength /\ DataFits /\ BenignInv

\* Nor are the bits.  The bit that is too many may be: when a fragment ends where
\* the buffer does, and a byte and a unit of blk_bits end there too.
BitsFit ==
    \A i \in 1 .. Len(defrag) :
        \A b \in defrag[i].bits : b \div BITS < InUnits(BitBytes(defrag[i].space))

\* The chain never leads to memory that was freed.
ChainIsSound == ~dangling
=============================================================================
