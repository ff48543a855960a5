----------------------------- MODULE PortProofs -----------------------------
(***************************************************************************)
(* Proofs about two of the ports.  The masquerade port: for every network, *)
(* every number of entries and every use, answers go to who spoke last,    *)
(* and masked hosts never share a port.  PPP on the serial port: for every *)
(* plan of two hosts (options, modems, tries, faults, who closes), IPCP is *)
(* negotiated over an open link only, no event that the table does not     *)
(* expect comes up without a modem, and no event that an action raised is  *)
(* left behind.                                                            *)
(***************************************************************************)
EXTENDS Masque, Ppp, SequenceLemmas, SequenceTheorems, TLAPS

Flow(e) == <<e.local, e.lport>>

\* The list that is left: after its first entry each is one of the old list's, behind the
\* same ones as before.
Follows(new) ==
    \A k \in 2 .. Len(new) :
        \E m \in DOMAIN table : /\ new[k] = table[m]
                                /\ \A j \in 1 .. m - 1 : \E l \in 1 .. k - 1 : new[l] = table[j]

(***************************************************************************)
(* What the ways to change the list do                                     *)
(***************************************************************************)
LEMMA ToFrontSound ==
    ASSUME table \in Seq(Entries), NEW i \in DOMAIN table
    PROVE  /\ ToFront(i) \in Seq(Entries) /\ Len(ToFront(i)) = Len(table)
           /\ ToFront(i)[1] = table[i]
           /\ \A k \in 2 .. Len(table) : ToFront(i)[k] = IF k <= i THEN table[k - 1] ELSE table[k]
<1>1. Len(table) \in Nat /\ DOMAIN table = 1 .. Len(table) /\ \A j \in 1 .. Len(table) : table[j] \in Entries
  BY LenProperties, ElementOfSeq
<1>2. ToFront(i) \in [1 .. Len(table) -> Entries]
  BY <1>1 DEF ToFront
<1>3. ToFront(i) \in Seq(Entries)
  BY <1>1, <1>2
<1>4. Len(ToFront(i)) = Len(table)
  BY <1>1, <1>2
<1> QED BY <1>1, <1>3, <1>4 DEF ToFront

LEMMA LinkUpSound ==
    ASSUME NEW S, NEW e \in S, NEW rest \in Seq(S)
    PROVE  /\ LinkUp(e, rest) \in Seq(S) /\ Len(LinkUp(e, rest)) = Len(rest) + 1
           /\ LinkUp(e, rest)[1] = e
           /\ \A k \in 2 .. Len(rest) + 1 : LinkUp(e, rest)[k] = rest[k - 1]
<1>1. <<e>> \in Seq(S) /\ Len(<<e>>) = 1 /\ <<e>>[1] = e
  OBVIOUS
<1>2. Len(rest) \in Nat
  BY LenProperties
<1>3. /\ <<e>> \o rest \in Seq(S)
      /\ Len(<<e>> \o rest) = Len(<<e>>) + Len(rest)
      /\ \A k \in 1 .. Len(<<e>>) + Len(rest) :
            (<<e>> \o rest)[k] = IF k <= Len(<<e>>) THEN <<e>>[k] ELSE rest[k - Len(<<e>>)]
  BY <1>1, ConcatProperties
<1> QED BY <1>1, <1>2, <1>3 DEF LinkUp

LEMMA ShorterSound ==
    ASSUME NEW S, NEW s \in Seq(S), Len(s) > 0
    PROVE  /\ SubSeq(s, 1, Len(s) - 1) \in Seq(S)
           /\ Len(SubSeq(s, 1, Len(s) - 1)) = Len(s) - 1
           /\ \A k \in 1 .. Len(s) - 1 : SubSeq(s, 1, Len(s) - 1)[k] = s[k]
<1> DEFINE n == Len(s) - 1
<1>1. n \in Nat /\ \A k \in 1 .. n : s[k] \in S
  BY LenProperties, ElementOfSeq
<1> HIDE DEF n
<1>2. /\ SubSeq(s, 1, n) \in Seq(S)
      /\ Len(SubSeq(s, 1, n)) = IF 1 <= n THEN n - 1 + 1 ELSE 0
      /\ \A k \in 1 .. n - 1 + 1 : SubSeq(s, 1, n)[k] = s[1 + k - 1]
  BY <1>1, SubSeqProperties
<1>3. Len(SubSeq(s, 1, n)) = n /\ \A k \in 1 .. n : SubSeq(s, 1, n)[k] = s[k]
  BY <1>1, <1>2
<1> QED BY <1>2, <1>3 DEF n

\* A used entry goes to the front, and the others keep their order.
LEMMA ToFrontFollows ==
    ASSUME table \in Seq(Entries), NEW i \in DOMAIN table
    PROVE  Follows(ToFront(i))
<1> DEFINE new == ToFront(i)
<1>1. Len(table) \in Nat /\ i \in 1 .. Len(table) /\ DOMAIN table = 1 .. Len(table) /\ Len(new) = Len(table)
      /\ new[1] = table[i] /\ \A k \in 2 .. Len(table) : new[k] = IF k <= i THEN table[k - 1] ELSE table[k]
  BY ToFrontSound, LenProperties
<1> HIDE DEF new
<1> SUFFICES ASSUME NEW k \in 2 .. Len(new)
             PROVE  \E m \in DOMAIN table : /\ new[k] = table[m]
                                            /\ \A j \in 1 .. m - 1 : \E l \in 1 .. k - 1 : new[l] = table[j]
  BY DEF Follows, new
<1>2. CASE k <= i
  <2>1. k - 1 \in DOMAIN table /\ new[k] = table[k - 1]
    BY <1>1, <1>2
  <2>2. ASSUME NEW j \in 1 .. k - 1 - 1 PROVE j + 1 \in 1 .. k - 1 /\ new[j + 1] = table[j]
    BY <1>1, <1>2
  <2> QED BY <2>1, <2>2
<1>3. CASE k > i
  <2>1. k \in DOMAIN table /\ new[k] = table[k]
    BY <1>1, <1>3
  <2>2. ASSUME NEW j \in 1 .. k - 1 PROVE \E l \in 1 .. k - 1 : new[l] = table[j]
    <3>1. CASE j < i
      <4>1. j + 1 \in 1 .. k - 1 /\ new[j + 1] = table[j]
        BY <1>1, <1>3, <3>1
      <4> QED BY <4>1
    <3>2. CASE j = i
      <4>1. 1 \in 1 .. k - 1 /\ new[1] = table[j]
        BY <1>1, <1>3, <3>2
      <4> QED BY <4>1
    <3>3. CASE j > i
      <4>1. j \in 1 .. k - 1 /\ new[j] = table[j]
        BY <1>1, <1>3, <3>3
      <4> QED BY <4>1
    <3> QED BY <1>1, <3>1, <3>2, <3>3
  <2> QED BY <2>1, <2>2
<1> QED BY <1>1, <1>2, <1>3

LEMMA LinkUpFollows ==
    ASSUME table \in Seq(Entries), NEW e \in Entries, NEW rest \in Seq(Entries),
           Len(rest) <= Len(table), \A k \in 1 .. Len(rest) : rest[k] = table[k]
    PROVE  Follows(LinkUp(e, rest))
<1> DEFINE new == LinkUp(e, rest)
<1>1. /\ Len(table) \in Nat /\ Len(rest) \in Nat /\ DOMAIN table = 1 .. Len(table)
      /\ Len(new) = Len(rest) + 1 /\ \A k \in 2 .. Len(rest) + 1 : new[k] = rest[k - 1]
  BY LinkUpSound, LenProperties
<1> HIDE DEF new
<1> SUFFICES ASSUME NEW k \in 2 .. Len(new)
             PROVE  \E m \in DOMAIN table : /\ new[k] = table[m]
                                            /\ \A j \in 1 .. m - 1 : \E l \in 1 .. k - 1 : new[l] = table[j]
  BY DEF Follows, new
<1>2. k - 1 \in DOMAIN table /\ new[k] = table[k - 1]
  BY <1>1
<1>3. ASSUME NEW j \in 1 .. k - 1 - 1 PROVE j + 1 \in 1 .. k - 1 /\ new[j + 1] = table[j]
  BY <1>1
<1> QED BY <1>2, <1>3

\* Whoever uses the first entry owns its conversation, and the others are whose they were.
LEMMA HomeKept ==
    ASSUME table \in Seq(Entries), table' \in Seq(Entries), Len(table') > 0, AnswersGoHome, Follows(table'),
           owner'[Talk(table'[1])] = Flow(table'[1]),
           \A k \in DOMAIN table' : Talk(table'[k]) # Talk(table'[1]) => owner'[Talk(table'[k])] = owner[Talk(table'[k])]
    PROVE  AnswersGoHome'
<1>1. /\ Len(table') \in Nat /\ DOMAIN table' = 1 .. Len(table')
      /\ Len(table) \in Nat /\ DOMAIN table = 1 .. Len(table)
  BY LenProperties
<1> SUFFICES ASSUME NEW k \in DOMAIN table', \A j \in 1 .. k - 1 : Talk(table'[j]) # Talk(table'[k])
             PROVE  owner'[Talk(table'[k])] = Flow(table'[k])
  BY DEF AnswersGoHome, Flow, Talk
<1>2. CASE k = 1
  BY <1>2
<1>3. CASE k # 1
  <2>1. k \in 2 .. Len(table') /\ Talk(table'[k]) # Talk(table'[1])
    BY <1>1, <1>3
  <2>2. PICK m \in DOMAIN table : /\ table'[k] = table[m]
                                  /\ \A j \in 1 .. m - 1 : \E l \in 1 .. k - 1 : table'[l] = table[j]
    BY <2>1 DEF Follows
  <2>3. \A j \in 1 .. m - 1 : Talk(table[j]) # Talk(table[m])
    BY <2>2
  <2>4. owner[Talk(table[m])] = Flow(table[m])
    BY <2>2, <2>3 DEF AnswersGoHome, Flow
  <2> QED BY <2>1, <2>2, <2>4
<1> QED BY <1>2, <1>3

(***************************************************************************)
(* Types, numbers and ports of the new list                                *)
(***************************************************************************)
ListOK ==
    /\ table \in Seq(Entries) /\ masq_count = Len(table) /\ masq_count <= MASQ_TOTAL
    /\ NumbersApart /\ PortsFromNumbers

LEMMA FrontSound ==
    ASSUME ListOK, NEW i \in DOMAIN table, table' = ToFront(i), masq_count' = masq_count
    PROVE  ListOK' /\ Follows(table') /\ Len(table') > 0 /\ table'[1] = table[i]
<1>1. /\ Len(table) \in Nat /\ i \in 1 .. Len(table) /\ DOMAIN table = 1 .. Len(table)
      /\ table' \in Seq(Entries) /\ Len(table') = Len(table) /\ DOMAIN table' = 1 .. Len(table)
      /\ table'[1] = table[i]
      /\ \A k \in 2 .. Len(table) : table'[k] = IF k <= i THEN table[k - 1] ELSE table[k]
  BY ToFrontSound, LenProperties DEF ListOK
<1>2. Follows(table')
  BY ToFrontFollows DEF ListOK
<1> DEFINE From(k) == IF k = 1 THEN i ELSE IF k <= i THEN k - 1 ELSE k
<1>3. \A k \in 1 .. Len(table) : From(k) \in 1 .. Len(table) /\ table'[k] = table[From(k)]
  BY <1>1
<1>4. \A k, l \in 1 .. Len(table) : k # l => From(k) # From(l)
  BY <1>1
<1> HIDE DEF From
<1>5. NumbersApart'
  <2>1. \A k \in 1 .. Len(table) : table'[k].index = table[From(k)].index /\ From(k) \in DOMAIN table
    BY <1>1, <1>3
  <2>2. /\ \A k \in DOMAIN table : table[k].index < masq_count
        /\ \A k, l \in DOMAIN table : k # l => table[k].index # table[l].index
    BY DEF NumbersApart, ListOK
  <2>3. \A k, l \in 1 .. Len(table) : k # l => table'[k].index # table'[l].index
    BY <1>4, <2>1, <2>2
  <2>4. \A k \in 1 .. Len(table) : table'[k].index < masq_count'
    BY <2>1, <2>2
  <2> QED BY <1>1, <2>3, <2>4 DEF NumbersApart
<1>6. PortsFromNumbers'
  BY <1>1, <1>3 DEF PortsFromNumbers, ListOK
<1>7. /\ table' \in Seq(Entries) /\ Len(table') = Len(table) /\ masq_count' = masq_count
      /\ Len(table) > 0
  BY <1>1
<1> QED BY <1>1, <1>2, <1>5, <1>6, <1>7 DEF ListOK

LEMMA EnterSound ==
    ASSUME ListOK, NEW entry \in [Indices -> Entries], Enter(entry),
           \A n \in Indices : entry[n].index = n /\ entry[n].src_port \in {MASQ_START + n, entry[n].lport}
    PROVE  ListOK' /\ Follows(table') /\ Len(table') > 0 /\ \E n \in Indices : table'[1] = entry[n]
<1>1. /\ Len(table) \in Nat /\ DOMAIN table = 1 .. Len(table) /\ masq_count = Len(table)
      /\ MASQ_TOTAL \in Nat /\ MASQ_START \in Nat
      /\ \A k \in 1 .. Len(table) : /\ table[k] \in Entries /\ table[k].index \in Indices
                                   /\ table[k].index < masq_count
  <2>1. table \in Seq(Entries) /\ masq_count = Len(table) /\ NumbersApart
    BY DEF ListOK
  <2>2. Len(table) \in Nat /\ DOMAIN table = 1 .. Len(table)
    BY <2>1, LenProperties
  <2>3. \A k \in 1 .. Len(table) : table[k] \in Entries
    BY <2>1, ElementOfSeq
  <2>4. \A e \in Entries : e.index \in Indices
    BY DEF Entries
  <2>5. \A k \in 1 .. Len(table) : table[k].index < masq_count
    BY <2>1, <2>2 DEF NumbersApart
  <2> QED BY <2>1, <2>2, <2>3, <2>4, <2>5, MasqueAssumption DEF MasqueAssumption
<1>2. ASSUME NEW n \in Indices, NEW rest \in Seq(Entries), Len(rest) <= Len(table),
             \A k \in 1 .. Len(rest) : rest[k] = table[k] /\ rest[k].index # n,
             table' = LinkUp(entry[n], rest), masq_count' = Len(rest) + 1,
             masq_count' <= MASQ_TOTAL, n < masq_count', masq_count <= masq_count'
      PROVE  ListOK' /\ Follows(table') /\ Len(table') > 0 /\ table'[1] = entry[n]
  <2>1. /\ Len(rest) \in Nat /\ table' \in Seq(Entries) /\ Len(table') = Len(rest) + 1
        /\ DOMAIN table' = 1 .. Len(rest) + 1 /\ table'[1] = entry[n]
        /\ \A k \in 2 .. Len(rest) + 1 : table'[k] = rest[k - 1]
    <3>1. Len(rest) \in Nat /\ entry[n] \in Entries
      BY LenProperties
    <3>2. /\ LinkUp(entry[n], rest) \in Seq(Entries) /\ Len(LinkUp(entry[n], rest)) = Len(rest) + 1
          /\ LinkUp(entry[n], rest)[1] = entry[n]
          /\ \A k \in 2 .. Len(rest) + 1 : LinkUp(entry[n], rest)[k] = rest[k - 1]
      BY <3>1, LinkUpSound
    <3>3. DOMAIN table' = 1 .. Len(table')
      BY <1>2, <3>2, LenProperties
    <3> QED BY <1>2, <3>1, <3>2, <3>3
  <2>2. \A k \in 2 .. Len(rest) + 1 : k - 1 \in 1 .. Len(table) /\ table'[k] = table[k - 1] /\ table'[k].index # n
    BY <1>1, <1>2, <2>1
  <2>3. NumbersApart'
    <3>1. \A k \in DOMAIN table' : table'[k].index < masq_count'
      <4> SUFFICES ASSUME NEW k \in DOMAIN table' PROVE table'[k].index < masq_count'
        OBVIOUS
      <4>1. CASE k = 1
        BY <1>2, <2>1, <4>1
      <4>2. CASE k # 1
        <5>1. k \in 2 .. Len(rest) + 1
          BY <2>1, <4>2
        <5>2. table'[k].index \in Int /\ table'[k].index < masq_count
          BY <1>1, <2>2, <5>1 DEF Indices
        <5> QED BY <1>1, <1>2, <2>1, <5>2
      <4> QED BY <4>1, <4>2
    <3>2. ASSUME NEW k \in DOMAIN table', NEW l \in DOMAIN table', k # l
          PROVE  table'[k].index # table'[l].index
      <4>1. CASE k = 1
        BY <2>1, <2>2, <3>2, <4>1
      <4>2. CASE l = 1
        BY <2>1, <2>2, <3>2, <4>2
      <4>3. CASE k # 1 /\ l # 1
        <5>1. k \in 2 .. Len(rest) + 1 /\ l \in 2 .. Len(rest) + 1 /\ k - 1 # l - 1
          BY <2>1, <3>2, <4>3
        <5>2. table[k - 1].index # table[l - 1].index
          BY <1>1, <2>2, <5>1 DEF NumbersApart, ListOK
        <5> QED BY <2>2, <5>1, <5>2
      <4> QED BY <4>1, <4>2, <4>3
    <3> QED BY <3>1, <3>2 DEF NumbersApart
  <2>4. PortsFromNumbers'
    <3> SUFFICES ASSUME NEW k \in DOMAIN table'
                 PROVE  table'[k].src_port \in {MASQ_START + table'[k].index, table'[k].lport}
      BY DEF PortsFromNumbers
    <3>1. CASE k = 1
      BY <2>1, <3>1
    <3>2. CASE k # 1
      <4>1. k \in 2 .. Len(rest) + 1
        BY <2>1, <3>2
      <4>2. k - 1 \in DOMAIN table /\ table'[k] = table[k - 1]
        BY <1>1, <2>2, <4>1
      <4>3. \A j \in DOMAIN table : table[j].src_port \in {MASQ_START + table[j].index, table[j].lport}
        BY DEF PortsFromNumbers, ListOK
      <4> QED BY <4>2, <4>3
    <3> QED BY <3>1, <3>2
  <2>5. Follows(table')
    BY <1>2, LinkUpFollows DEF ListOK
  <2> QED BY <1>2, <2>1, <2>3, <2>4, <2>5 DEF ListOK
<1>3. CASE MayGrow /\ table' = LinkUp(entry[masq_count], table) /\ masq_count' = masq_count + 1
  <2>1. masq_count \in Indices /\ masq_count' <= MASQ_TOTAL
    BY <1>1, <1>3 DEF MayGrow, Indices
  <2>2. \A k \in 1 .. Len(table) : table[k].index # masq_count
    BY <1>1 DEF Indices
  <2> QED BY <1>1, <1>2, <1>3, <2>1, <2>2 DEF ListOK
<1>4. CASE /\ masq_count > 0
           /\ table' = LinkUp(entry[Reused], SubSeq(table, 1, Len(table) - 1))
           /\ masq_count' = masq_count
  <2> DEFINE rest == SubSeq(table, 1, Len(table) - 1)
  <2>1. /\ rest \in Seq(Entries) /\ Len(rest) = Len(table) - 1
        /\ \A k \in 1 .. Len(table) - 1 : rest[k] = table[k]
    BY <1>1, <1>4, ShorterSound DEF ListOK
  <2>2. Reused \in Indices /\ Reused < masq_count
    BY <1>1, <1>4 DEF Reused
  <2>3. \A k \in 1 .. Len(table) - 1 : table[k].index # Reused
    BY <1>1, <1>4 DEF Reused, NumbersApart, ListOK
  <2> HIDE DEF rest
  <2>4. table' = LinkUp(entry[Reused], rest)
    BY <1>4 DEF rest
  <2> QED BY <1>1, <1>2, <1>4, <2>1, <2>2, <2>3, <2>4 DEF ListOK
<1> QED BY <1>3, <1>4 DEF Enter

(***************************************************************************)
(* Masking and unmasking                                                   *)
(***************************************************************************)
LEMMA PortNumberTypes ==
    /\ PortNumbers \subseteq Nat
    /\ \A n \in Indices : MASQ_START + n \in PortNumbers
BY MasqueAssumption DEF MasqueAssumption, PortNumbers, MasqPorts, Indices

\* The first entry is used: what AnswersGoHome asks of the owners then.
LEMMA BelongsSound ==
    ASSUME table' \in Seq(Entries), Len(table') > 0, NEW who, Belongs(who), who = Flow(table'[1])
    PROVE  /\ owner'[Talk(table'[1])] = Flow(table'[1])
           /\ \A k \in DOMAIN table' : Talk(table'[k]) # Talk(table'[1]) => owner'[Talk(table'[k])] = owner[Talk(table'[k])]
<1>1. DOMAIN table' = 1 .. Len(table') /\ Len(table') \in Nat
  BY LenProperties
<1>2. 1 \in DOMAIN table'
  BY <1>1
<1> QED BY <1>2 DEF Belongs

LEMMA MaskSound ==
    ASSUME ListOK, AnswersGoHome, d4 \in Addresses, NEW d \in Datagrams, mask_common(d)
    PROVE  ListOK' /\ AnswersGoHome'
<1> DEFINE hits == {i \in DOMAIN table : Sends(table[i], d)}
           entry == [n \in Indices |-> [local |-> d.src, lport |-> d.sport, dest |-> <<d.dst, d.dport>>,
                                        index |-> n, src_port |-> SrcPort(d, n)]]
<1>1. /\ \/ (\E i \in hits : IsFirst(i, hits) /\ table' = ToFront(i)) /\ UNCHANGED masq_count
         \/ hits = {} /\ Enter(entry)
      /\ Belongs(<<d.src, d.sport>>)
  BY DEF mask_common
<1>2. CASE (\E i \in hits : IsFirst(i, hits) /\ table' = ToFront(i)) /\ UNCHANGED masq_count
  <2>1. PICK i \in DOMAIN table : Sends(table[i], d) /\ table' = ToFront(i)
    BY <1>2
  <2>2. ListOK' /\ Follows(table') /\ Len(table') > 0 /\ table'[1] = table[i]
    BY <1>2, <2>1, FrontSound
  <2>3. Flow(table'[1]) = <<d.src, d.sport>>
    BY <2>1, <2>2 DEF Sends, Flow
  <2> QED BY <1>1, <2>2, <2>3, BelongsSound, HomeKept DEF ListOK
<1>3. CASE hits = {} /\ Enter(entry)
  <2>1. /\ d.src \in Addresses /\ d.dst \in Addresses
        /\ d.sport \in PortNumbers /\ d.dport \in PortNumbers
    BY DEF Datagrams
  <2>2. \A n \in Indices : SrcPort(d, n) \in PortNumbers /\ SrcPort(d, n) \in {MASQ_START + n, d.sport}
    BY <2>1, PortNumberTypes DEF SrcPort
  <2>3. entry \in [Indices -> Entries]
    BY <2>1, <2>2 DEF Entries
  <2>4. \A n \in Indices : entry[n].index = n /\ entry[n].src_port \in {MASQ_START + n, entry[n].lport}
    BY <2>2
  <2>5. \A n \in Indices : Flow(entry[n]) = <<d.src, d.sport>>
    BY DEF Flow
  <2> HIDE DEF entry, hits
  <2>6. ListOK' /\ Follows(table') /\ Len(table') > 0 /\ \E n \in Indices : table'[1] = entry[n]
    BY <1>3, <2>3, <2>4, EnterSound
  <2>7. Flow(table'[1]) = <<d.src, d.sport>>
    BY <2>5, <2>6
  <2> QED BY <1>1, <2>6, <2>7, BelongsSound, HomeKept DEF ListOK
<1> QED BY <1>1, <1>2, <1>3

LEMMA UnmaskSound ==
    ASSUME ListOK, AnswersGoHome, d4 \in Addresses, NEW d \in Datagrams, unmask_common(d)
    PROVE  ListOK' /\ AnswersGoHome'
<1> DEFINE hits == {i \in DOMAIN table : Gets(table[i], d)}
           entry == [n \in Indices |-> [local |-> d4, lport |-> d.dport, dest |-> <<d.src, d.sport>>,
                                        index |-> n, src_port |-> d.dport]]
<1>1. CASE (\E i \in hits : IsFirst(i, hits) /\ table' = ToFront(i)) /\ UNCHANGED <<masq_count, owner>>
  <2>1. PICK i \in hits : IsFirst(i, hits) /\ table' = ToFront(i)
    BY <1>1
  <2>2. i \in DOMAIN table /\ DOMAIN table = 1 .. Len(table) /\ Len(table) \in Nat
    BY <2>1, LenProperties DEF ListOK
  <2>3. ListOK' /\ Follows(table') /\ Len(table') > 0 /\ table'[1] = table[i]
    BY <1>1, <2>1, <2>2, FrontSound
  <2>4. \A j \in 1 .. i - 1 : Talk(table[j]) # Talk(table[i])
    BY <2>1, <2>2 DEF IsFirst, Gets, Talk
  <2>5. owner[Talk(table[i])] = Flow(table[i])
    BY <2>2, <2>4 DEF AnswersGoHome, Flow
  <2> QED BY <1>1, <2>3, <2>5, HomeKept DEF ListOK
<1>2. CASE hits = {} /\ Enter(entry) /\ Belongs(<<d4, d.dport>>)
  <2>1. d.src \in Addresses /\ d.sport \in PortNumbers /\ d.dport \in PortNumbers
    BY DEF Datagrams
  <2>2. entry \in [Indices -> Entries]
    BY <2>1 DEF Entries
  <2>3. \A n \in Indices : entry[n].index = n /\ entry[n].src_port \in {MASQ_START + n, entry[n].lport}
    OBVIOUS
  <2>4. \A n \in Indices : Flow(entry[n]) = <<d4, d.dport>>
    BY DEF Flow
  <2> HIDE DEF entry, hits
  <2>5. ListOK' /\ Follows(table') /\ Len(table') > 0 /\ \E n \in Indices : table'[1] = entry[n]
    BY <1>2, <2>2, <2>3, EnterSound
  <2>6. Flow(table'[1]) = <<d4, d.dport>>
    BY <2>4, <2>5
  <2> QED BY <1>2, <2>5, <2>6, BelongsSound, HomeKept DEF ListOK
<1> QED BY <1>1, <1>2 DEF unmask_common

(***************************************************************************)
(* The inductive invariant                                                 *)
(***************************************************************************)
LEMMA InitIInv == Init => IInv
<1> SUFFICES ASSUME Init PROVE IInv
  OBVIOUS
<1>1. Local \in Addresses /\ MASQ_TOTAL \in Nat
  BY MasqueAssumption DEF MasqueAssumption, Addresses, Hosts
<1>2. TypeOK
  <2>1. active_f \in BOOLEAN /\ leaving \in BOOLEAN /\ within \in BOOLEAN
    BY Zenon DEF Init
  <2>2. table \in Seq(Entries) /\ tx \in Seq(Datagrams) /\ Len(table) = 0
    BY EmptySeq DEF Init
  <2>3. masq_count = 0 /\ shown \in Reals /\ realip \in Reals /\ master = Local /\ d4 = Local
    BY DEF Init
  <2>4. masq_count <= MASQ_TOTAL
    BY <1>1, <2>3
  <2> QED BY <1>1, <2>1, <2>2, <2>3, <2>4 DEF TypeOK
<1>3. DOMAIN table = {}
  BY DEF Init
<1> QED BY <1>2, <1>3 DEF IInv, NumbersApart, PortsFromNumbers, AnswersGoHome

\* What does not touch the list leaves what it holds.
LEMMA ListStays ==
    ASSUME UNCHANGED <<table, masq_count, owner>>
    PROVE  (NumbersApart => NumbersApart') /\ (PortsFromNumbers => PortsFromNumbers') /\ (AnswersGoHome => AnswersGoHome')
BY DEF NumbersApart, PortsFromNumbers, AnswersGoHome, Talk

LEMMA SendKeeps == IInv /\ send_loop => IInv'
<1> SUFFICES ASSUME IInv, send_loop PROVE IInv'
  OBVIOUS
<1>1. tx # <<>> /\ tx \in Seq(Datagrams)
  BY DEF IInv, TypeOK, send_loop
<1>2. Head(tx) \in Datagrams /\ Tail(tx) \in Seq(Datagrams)
  BY <1>1, HeadTailProperties
<1>3. tx' = Tail(tx) /\ UNCHANGED <<active_f, shown, realip, leaving, within, d4>>
  BY DEF send_loop
<1>4. Head(tx).src \in Addresses
  BY <1>2 DEF Datagrams
<1>5. master' \in Addresses
  BY <1>4 DEF send_loop, IInv, TypeOK
<1>6. ListOK /\ AnswersGoHome /\ d4 \in Addresses
  BY DEF IInv, TypeOK, ListOK
<1>7. ListOK' /\ AnswersGoHome'
  <2>1. CASE UNCHANGED <<table, masq_count, owner>>
    BY <1>6, <2>1, ListStays DEF ListOK
  <2>2. CASE unmask_common(Head(tx))
    BY <1>2, <1>6, <2>2, UnmaskSound
  <2>3. CASE mask_common(Head(tx))
    BY <1>2, <1>6, <2>3, MaskSound
  <2> QED BY <2>1, <2>2, <2>3 DEF send_loop
<1>8. TypeOK'
  BY <1>2, <1>3, <1>5, <1>7 DEF IInv, TypeOK, ListOK
<1> QED BY <1>7, <1>8 DEF IInv, ListOK

LEMMA StateKeeps == IInv /\ (my_send \/ exit_send \/ Activate \/ Restore \/ Redial) => IInv'
<1> SUFFICES ASSUME IInv, my_send \/ exit_send \/ Activate \/ Restore \/ Redial PROVE IInv'
  OBVIOUS
<1>1. Local \in Addresses
  BY DEF Addresses, Hosts
<1>2. UNCHANGED <<table, masq_count, owner, tx>>
  BY DEF my_send, exit_send, Activate, Restore, Redial
<1>3. active_f' \in BOOLEAN /\ leaving' \in BOOLEAN /\ within' \in BOOLEAN
  BY Zenon DEF IInv, TypeOK, my_send, exit_send, Activate, Restore, Redial
<1>4. shown' \in Reals \cup {dummy_IP} /\ realip' \in Reals
  BY DEF IInv, TypeOK, my_send, exit_send, Activate, Restore, Redial, Steals
<1>5. master' \in Addresses /\ d4' \in Addresses
  BY <1>1 DEF IInv, TypeOK, my_send, exit_send, Activate, Restore, Redial
<1>6. TypeOK'
  BY <1>2, <1>3, <1>4, <1>5 DEF IInv, TypeOK
<1> QED BY <1>2, <1>6, ListStays DEF IInv

LEMMA PassivateKeeps == IInv /\ Passivate => IInv'
<1> SUFFICES ASSUME IInv, Passivate PROVE IInv'
  OBVIOUS
<1>1. Local \in Addresses /\ MASQ_TOTAL \in Nat
  BY MasqueAssumption DEF MasqueAssumption, Addresses, Hosts
<1>2. active_f' \in BOOLEAN /\ leaving' \in BOOLEAN /\ within' \in BOOLEAN
  BY Zenon DEF IInv, TypeOK, Passivate
<1>3. TypeOK'
  BY <1>1, <1>2 DEF IInv, TypeOK, Passivate
<1>4. DOMAIN table' = {}
  BY DEF Passivate
<1> QED BY <1>3, <1>4 DEF IInv, NumbersApart, PortsFromNumbers, AnswersGoHome

LEMMA QueueKeeps == ASSUME IInv, NEW d \in Datagrams, Queue(d) PROVE IInv'
<1>1. tx' \in Seq(Datagrams)
  <2>1. tx \in Seq(Datagrams)
    BY DEF IInv, TypeOK
  <2>2. tx' = Append(tx, d)
    BY DEF Queue
  <2> QED BY <2>1, <2>2, AppendProperties
<1>2. UNCHANGED <<table, masq_count, active_f, shown, realip, master, leaving, within, d4, owner>>
  BY DEF Queue
<1>3. TypeOK'
  BY <1>1, <1>2 DEF IInv, TypeOK
<1> QED BY <1>2, <1>3, ListStays DEF IInv

LEMMA HostsKeep == IInv /\ (HostSends \/ HostAsks \/ Arrives) => IInv'
<1> SUFFICES ASSUME IInv, HostSends \/ HostAsks \/ Arrives PROVE IInv'
  OBVIOUS
<1>1. realip \in Addresses /\ Local \in Addresses
  BY DEF IInv, TypeOK, Addresses, Hosts
<1>2. \E d \in Datagrams : Queue(d)
  BY <1>1 DEF HostSends, HostAsks, Arrives, Asks, Datagram, Datagrams, Addresses, Hosts, PortNumbers
<1> QED BY <1>2, QueueKeeps

LEMMA StepKeepsIInv == IInv /\ [Next]_vars => IInv'
<1> SUFFICES ASSUME IInv, [Next]_vars PROVE IInv'
  OBVIOUS
<1>1. CASE my_send \/ exit_send \/ Activate \/ Restore \/ Redial
  BY <1>1, StateKeeps
<1>2. CASE send_loop
  BY <1>2, SendKeeps
<1>3. CASE Passivate
  BY <1>3, PassivateKeeps
<1>4. CASE HostSends \/ HostAsks \/ Arrives
  BY <1>4, HostsKeep
<1>5. CASE UNCHANGED vars
  BY <1>5, ListStays DEF vars, IInv, TypeOK
<1> QED BY <1>1, <1>2, <1>3, <1>4, <1>5 DEF Next

LEMMA AlwaysIInv == Spec => []IInv
BY InitIInv, StepKeepsIInv, PTL DEF Spec

(***************************************************************************)
(* The theorems                                                            *)
(***************************************************************************)
\* masque.s: the list, its counter, the flags and the addresses keep their types.
THEOREM MasqueTypeOK == Spec => []TypeOK
<1>1. IInv => TypeOK
  BY DEF IInv
<1> QED BY <1>1, AlwaysIInv, PTL

\* mask_common, unmask_common: the entry found first for an answer is that of who spoke last.
THEOREM AnswersAlwaysGoHome == Spec => []AnswersGoHome
<1>1. IInv => AnswersGoHome
  BY DEF IInv
<1> QED BY <1>1, AlwaysIInv, PTL

\* mask_nonlocal, mask_reallocate: two conversations whose ports both come from their
\* numbers never have one port, since no two entries ever have one number, in whatever
\* order the list was filled and used anew.  An entry with its host's own port (mask_local,
\* unmask_linkup) may have the same port as another.
THEOREM PortsStayApart == Spec => []PortsApart
<1>1. IInv => PortsApart
  <2> SUFFICES ASSUME IInv, NEW i \in DOMAIN table, NEW j \in DOMAIN table, i # j,
                      table[i].src_port = table[j].src_port,
                      table[i].src_port # table[i].lport, table[j].src_port # table[j].lport
               PROVE  FALSE
    BY DEF PortsApart
  <2>1. table[i].index # table[j].index
    BY DEF IInv, NumbersApart
  <2>2. MASQ_START + table[i].index = MASQ_START + table[j].index
    BY DEF IInv, PortsFromNumbers
  <2>3. table[i].index \in Int /\ table[j].index \in Int /\ MASQ_START \in Int
    <3>1. table[i] \in Entries /\ table[j] \in Entries
      BY LenProperties, ElementOfSeq DEF IInv, TypeOK
    <3> QED BY <3>1, MasqueAssumption DEF Entries, Indices, MasqueAssumption
  <2> QED BY <2>1, <2>2, <2>3
<1> QED BY <1>1, AlwaysIInv, PTL

(***************************************************************************)
(* The transition table of PPP                                             *)
(***************************************************************************)
Net    == {"CREQOK", "CREQBAD", "CACK", "CNAK", "TREQ", "TACK"}
Events == Net \cup {"LAYUP", "LAYDOWN", "OPEN", "CLOSE", "TONF", "TOFATAL"}

LEMMA Numbered ==
    /\ DOMAIN Column = Events
    /\ Column.LAYUP = 1 /\ Column.LAYDOWN = 2 /\ Column.OPEN = 3 /\ Column.CLOSE = 4
    /\ Column.TONF = 5 /\ Column.TOFATAL = 6 /\ Column.CREQOK = 7 /\ Column.CREQBAD = 8
    /\ Column.CACK = 9 /\ Column.CNAK = 10 /\ Column.TREQ = 11 /\ Column.TACK = 12
BY DEF Column, Events, Net

LEMMA FullRow ==
    ASSUME NEW a, NEW b, NEW c, NEW d, NEW e, NEW f, NEW g, NEW h, NEW i, NEW j, NEW k, NEW l
    PROVE  LET r == Row(<<a, b, c, d, e, f, g, h, i, j, k, l>>)
           IN  /\ r["LAYUP"] = a /\ r["LAYDOWN"] = b /\ r["OPEN"] = c /\ r["CLOSE"] = d
               /\ r["TONF"] = e /\ r["TOFATAL"] = f /\ r["CREQOK"] = g /\ r["CREQBAD"] = h
               /\ r["CACK"] = i /\ r["CNAK"] = j /\ r["TREQ"] = k /\ r["TACK"] = l
BY Numbered DEF Row, Events, Net

LEMMA ShortRow ==
    ASSUME NEW a, NEW b, NEW c, NEW d
    PROVE  LET r == Row(<<a, b, c, d>>)
           IN  /\ r["LAYUP"] = a /\ r["LAYDOWN"] = b /\ r["OPEN"] = c /\ r["CLOSE"] = d
               /\ \A ev \in Events \ {"LAYUP", "LAYDOWN", "OPEN", "CLOSE"} : r[ev] = EMPTY
BY Numbered DEF Row, Events, Net

\* The actions of an entry: of the machine itself, or with one that the layers take part in.
Plain == {irc, zrc, scr, str, sca, scn, sta}
OnlyPlain(act) == DOMAIN act \subseteq 1 .. 3 /\ \A i \in DOMAIN act : act[i] \in Plain
GoesUp(act)    == DOMAIN act = 1 .. 2 /\ act[1] \in Plain /\ act[2] = tlu
GoesDown(act)  == /\ DOMAIN act \subseteq 1 .. 3 /\ 1 \in DOMAIN act /\ act[1] = tld
                  /\ \A i \in DOMAIN act : i # 1 => act[i] \in Plain
Starts(act)    == DOMAIN act = {1} /\ act[1] = tls
Ends(act)      == DOMAIN act = {1} /\ act[1] = tlf

LEMMA ActKinds ==
    ASSUME NEW x \in Plain, NEW y \in Plain, NEW z \in Plain
    PROVE  /\ OnlyPlain(<<>>) /\ OnlyPlain(<<x>>) /\ OnlyPlain(<<x, y>>) /\ OnlyPlain(<<x, y, z>>)
           /\ GoesUp(<<x, tlu>>)
           /\ GoesDown(<<tld>>) /\ GoesDown(<<tld, x>>) /\ GoesDown(<<tld, x, y>>)
           /\ Starts(<<tls>>) /\ Ends(<<tlf>>)
BY DEF OnlyPlain, GoesUp, GoesDown, Starts, Ends

LEMMA OneKind ==
    ASSUME NEW act
    PROVE  /\ OnlyPlain(act) => ~Starts(act) /\ ~Ends(act) /\ ~GoesUp(act) /\ ~GoesDown(act)
           /\ GoesUp(act) => ~Starts(act) /\ ~Ends(act) /\ ~GoesDown(act)
           /\ GoesDown(act) => ~Starts(act) /\ ~Ends(act)
           /\ Starts(act) => ~Ends(act)
BY DEF OnlyPlain, GoesUp, GoesDown, Starts, Ends, Plain, tlf, tls, tlu, tld, irc, zrc, scr, str, sca, scn, sta

\* The same for the entries.
IsEmpty(e)     == e.act = <<>> /\ OnlyPlain(e.act) /\ e.new = "CLOSED" /\ e.empty = TRUE
IsPlain(e, to) == OnlyPlain(e.act) /\ e.new = to /\ e.empty = FALSE
IsUp(e, to)    == GoesUp(e.act) /\ e.new = to /\ e.empty = FALSE
IsDown(e, to)  == GoesDown(e.act) /\ e.new = to /\ e.empty = FALSE
IsStart(e, to) == Starts(e.act) /\ e.new = to /\ e.empty = FALSE
IsEnd(e, to)   == Ends(e.act) /\ e.new = to /\ e.empty = FALSE

LEMMA EntryKinds ==
    ASSUME NEW to
    PROVE  /\ IsEmpty(EMPTY) /\ IsPlain(To(to), to)
           /\ IsPlain(Does(<<sta>>, to), to) /\ IsPlain(Does(<<str>>, to), to)
           /\ IsPlain(Does(<<scr>>, to), to) /\ IsPlain(Does(<<sca>>, to), to)
           /\ IsPlain(Does(<<scn>>, to), to) /\ IsPlain(Does(<<irc>>, to), to)
           /\ IsPlain(Does(<<irc, scr>>, to), to) /\ IsPlain(Does(<<irc, str>>, to), to)
           /\ IsPlain(Does(<<irc, scr, sca>>, to), to) /\ IsPlain(Does(<<irc, scr, scn>>, to), to)
           /\ IsUp(Does(<<sca, tlu>>, to), to) /\ IsUp(Does(<<irc, tlu>>, to), to)
           /\ IsDown(Does(<<tld>>, to), to) /\ IsDown(Does(<<tld, scr>>, to), to)
           /\ IsDown(Does(<<tld, irc, str>>, to), to) /\ IsDown(Does(<<tld, zrc, sta>>, to), to)
           /\ IsDown(Does(<<tld, scr, sca>>, to), to) /\ IsDown(Does(<<tld, scr, scn>>, to), to)
           /\ IsStart(Does(<<tls>>, to), to) /\ IsEnd(Does(<<tlf>>, to), to)
           /\ Does(<<str>>, to).act # <<>> /\ Does(<<scr>>, to).act # <<>>
<1>1. irc \in Plain /\ zrc \in Plain /\ scr \in Plain /\ str \in Plain /\ sca \in Plain
      /\ scn \in Plain /\ sta \in Plain
  BY Zenon DEF Plain
<1>2. IsEmpty(EMPTY) /\ IsPlain(To(to), to)
  BY <1>1, ActKinds DEF To, EMPTY, IsEmpty, IsPlain
<1>3. ASSUME NEW act
      PROVE  LET e == Does(act, to) IN
             /\ OnlyPlain(act) => IsPlain(e, to)
             /\ GoesUp(act) => IsUp(e, to)
             /\ GoesDown(act) => IsDown(e, to)
             /\ Starts(act) => IsStart(e, to)
             /\ Ends(act) => IsEnd(e, to)
  BY DEF Does, IsPlain, IsUp, IsDown, IsStart, IsEnd
<1>4. OnlyPlain(<<sta>>) /\ OnlyPlain(<<str>>) /\ OnlyPlain(<<scr>>) /\ OnlyPlain(<<sca>>)
      /\ OnlyPlain(<<scn>>) /\ OnlyPlain(<<irc>>)
  BY <1>1, ActKinds
<1>5. OnlyPlain(<<irc, scr>>) /\ OnlyPlain(<<irc, str>>) /\ OnlyPlain(<<irc, scr, sca>>)
      /\ OnlyPlain(<<irc, scr, scn>>)
  BY <1>1, ActKinds
<1>6. GoesUp(<<sca, tlu>>) /\ GoesUp(<<irc, tlu>>) /\ Starts(<<tls>>) /\ Ends(<<tlf>>)
  BY <1>1, ActKinds
<1>7. GoesDown(<<tld>>) /\ GoesDown(<<tld, scr>>) /\ GoesDown(<<tld, irc, str>>)
      /\ GoesDown(<<tld, zrc, sta>>) /\ GoesDown(<<tld, scr, sca>>) /\ GoesDown(<<tld, scr, scn>>)
  BY <1>1, ActKinds
<1>8. Does(<<str>>, to).act # <<>> /\ Does(<<scr>>, to).act # <<>>
  BY DEF Does
<1> QED BY <1>2, <1>3, <1>4, <1>5, <1>6, <1>7, <1>8

LEMMA Row_INITIAL ==
    LET r == trantab["INITIAL"]
    IN  /\ IsPlain(r["LAYUP"], "CLOSED") /\ IsEmpty(r["LAYDOWN"]) /\ IsStart(r["OPEN"], "STARTING")
        /\ IsPlain(r["CLOSE"], "INITIAL")
        /\ \A ev \in Events \ {"LAYUP", "LAYDOWN", "OPEN", "CLOSE"} : IsEmpty(r[ev])
<1>1. trantab["INITIAL"] = Row(<<To("CLOSED"), EMPTY, Does(<<tls>>, "STARTING"), To("INITIAL")>>)
  BY DEF trantab
<1> QED BY <1>1, ShortRow, EntryKinds

LEMMA Row_STARTING ==
    LET r == trantab["STARTING"]
    IN  /\ IsPlain(r["LAYUP"], "REQ_SENT") /\ IsEmpty(r["LAYDOWN"]) /\ IsPlain(r["OPEN"], "STARTING")
        /\ IsEnd(r["CLOSE"], "INITIAL")
        /\ \A ev \in Events \ {"LAYUP", "LAYDOWN", "OPEN", "CLOSE"} : IsEmpty(r[ev])
<1>1. trantab["STARTING"] = Row(<<Does(<<irc, scr>>, "REQ_SENT"), EMPTY, To("STARTING"), Does(<<tlf>>, "INITIAL")>>)
  BY DEF trantab
<1> QED BY <1>1, ShortRow, EntryKinds

LEMMA Row_CLOSED ==
    LET r == trantab["CLOSED"]
    IN  /\ IsEmpty(r["LAYUP"]) /\ IsPlain(r["LAYDOWN"], "INITIAL") /\ IsPlain(r["OPEN"], "REQ_SENT")
        /\ IsPlain(r["CLOSE"], "CLOSED") /\ IsEmpty(r["TONF"]) /\ IsEmpty(r["TOFATAL"])
        /\ IsPlain(r["CREQOK"], "CLOSED") /\ IsPlain(r["CREQBAD"], "CLOSED")
        /\ IsPlain(r["CACK"], "CLOSED") /\ IsPlain(r["CNAK"], "CLOSED") /\ IsPlain(r["TREQ"], "CLOSED")
        /\ IsPlain(r["TACK"], "CLOSED")
<1>1. trantab["CLOSED"] = Row(<<EMPTY, To("INITIAL"), Does(<<irc, scr>>, "REQ_SENT"), To("CLOSED"), EMPTY, EMPTY,
      Does(<<sta>>, "CLOSED"), Does(<<sta>>, "CLOSED"), Does(<<sta>>, "CLOSED"), Does(<<sta>>, "CLOSED"),
      Does(<<sta>>, "CLOSED"), To("CLOSED")>>)
  BY DEF trantab
<1> QED BY <1>1, FullRow, EntryKinds

LEMMA Row_STOPPED ==
    LET r == trantab["STOPPED"]
    IN  /\ IsEmpty(r["LAYUP"]) /\ IsStart(r["LAYDOWN"], "STARTING") /\ IsPlain(r["OPEN"], "STOPPED")
        /\ IsPlain(r["CLOSE"], "CLOSED") /\ IsEmpty(r["TONF"]) /\ IsEmpty(r["TOFATAL"])
        /\ IsPlain(r["CREQOK"], "ACK_SENT") /\ IsPlain(r["CREQBAD"], "REQ_SENT")
        /\ IsPlain(r["CACK"], "STOPPED") /\ IsPlain(r["CNAK"], "STOPPED")
        /\ IsPlain(r["TREQ"], "STOPPED") /\ IsPlain(r["TACK"], "STOPPED")
<1>1. trantab["STOPPED"] = Row(<<EMPTY, Does(<<tls>>, "STARTING"), To("STOPPED"), To("CLOSED"), EMPTY, EMPTY,
      Does(<<irc, scr, sca>>, "ACK_SENT"), Does(<<irc, scr, scn>>, "REQ_SENT"),
      Does(<<sta>>, "STOPPED"), Does(<<sta>>, "STOPPED"), Does(<<sta>>, "STOPPED"), To("STOPPED")>>)
  BY DEF trantab
<1> QED BY <1>1, FullRow, EntryKinds

LEMMA Row_CLOSING ==
    LET r == trantab["CLOSING"]
    IN  /\ IsEmpty(r["LAYUP"]) /\ IsPlain(r["LAYDOWN"], "INITIAL") /\ IsPlain(r["OPEN"], "STOPPING")
        /\ IsPlain(r["CLOSE"], "CLOSING") /\ IsPlain(r["TONF"], "CLOSING")
        /\ IsEnd(r["TOFATAL"], "CLOSED") /\ IsPlain(r["CREQOK"], "CLOSING")
        /\ IsPlain(r["CREQBAD"], "CLOSING") /\ IsPlain(r["CACK"], "CLOSING")
        /\ IsPlain(r["CNAK"], "CLOSING") /\ IsPlain(r["TREQ"], "CLOSING") /\ IsEnd(r["TACK"], "CLOSED")
        /\ r["TONF"].act # <<>>
<1>1. trantab["CLOSING"] = Row(<<EMPTY, To("INITIAL"), To("STOPPING"), To("CLOSING"), Does(<<str>>, "CLOSING"),
      Does(<<tlf>>, "CLOSED"), To("CLOSING"), To("CLOSING"), To("CLOSING"), To("CLOSING"),
      Does(<<sta>>, "CLOSING"), Does(<<tlf>>, "CLOSED")>>)
  BY DEF trantab
<1> QED BY <1>1, FullRow, EntryKinds

LEMMA Row_STOPPING ==
    LET r == trantab["STOPPING"]
    IN  /\ IsEmpty(r["LAYUP"]) /\ IsPlain(r["LAYDOWN"], "STARTING") /\ IsPlain(r["OPEN"], "STOPPING")
        /\ IsPlain(r["CLOSE"], "CLOSING") /\ IsPlain(r["TONF"], "STOPPING")
        /\ IsEnd(r["TOFATAL"], "STOPPED") /\ IsPlain(r["CREQOK"], "STOPPING")
        /\ IsPlain(r["CREQBAD"], "STOPPING") /\ IsPlain(r["CACK"], "STOPPING")
        /\ IsPlain(r["CNAK"], "STOPPING") /\ IsPlain(r["TREQ"], "STOPPING")
        /\ IsEnd(r["TACK"], "STOPPED") /\ r["TONF"].act # <<>>
<1>1. trantab["STOPPING"] = Row(<<EMPTY, To("STARTING"), To("STOPPING"), To("CLOSING"), Does(<<str>>, "STOPPING"),
      Does(<<tlf>>, "STOPPED"), To("STOPPING"), To("STOPPING"), To("STOPPING"), To("STOPPING"),
      Does(<<sta>>, "STOPPING"), Does(<<tlf>>, "STOPPED")>>)
  BY DEF trantab
<1> QED BY <1>1, FullRow, EntryKinds

LEMMA Row_REQ_SENT ==
    LET r == trantab["REQ_SENT"]
    IN  /\ IsEmpty(r["LAYUP"]) /\ IsPlain(r["LAYDOWN"], "STARTING") /\ IsPlain(r["OPEN"], "REQ_SENT")
        /\ IsPlain(r["CLOSE"], "CLOSING") /\ IsPlain(r["TONF"], "REQ_SENT")
        /\ IsEnd(r["TOFATAL"], "STOPPED") /\ IsPlain(r["CREQOK"], "ACK_SENT")
        /\ IsPlain(r["CREQBAD"], "REQ_SENT") /\ IsPlain(r["CACK"], "ACK_RECVD")
        /\ IsPlain(r["CNAK"], "REQ_SENT") /\ IsPlain(r["TREQ"], "REQ_SENT")
        /\ IsPlain(r["TACK"], "REQ_SENT") /\ r["TONF"].act # <<>>
<1>1. trantab["REQ_SENT"] = Row(<<EMPTY, To("STARTING"), To("REQ_SENT"), Does(<<irc, str>>, "CLOSING"),
      Does(<<scr>>, "REQ_SENT"), Does(<<tlf>>, "STOPPED"), Does(<<sca>>, "ACK_SENT"),
      Does(<<scn>>, "REQ_SENT"), Does(<<irc>>, "ACK_RECVD"), Does(<<irc, scr>>, "REQ_SENT"),
      Does(<<sta>>, "REQ_SENT"), To("REQ_SENT")>>)
  BY DEF trantab
<1> QED BY <1>1, FullRow, EntryKinds

LEMMA Row_ACK_RECVD ==
    LET r == trantab["ACK_RECVD"]
    IN  /\ IsEmpty(r["LAYUP"]) /\ IsPlain(r["LAYDOWN"], "STARTING") /\ IsPlain(r["OPEN"], "ACK_RECVD")
        /\ IsPlain(r["CLOSE"], "CLOSING") /\ IsPlain(r["TONF"], "REQ_SENT")
        /\ IsEnd(r["TOFATAL"], "STOPPED") /\ IsUp(r["CREQOK"], "OPENED")
        /\ IsPlain(r["CREQBAD"], "ACK_RECVD") /\ IsPlain(r["CACK"], "REQ_SENT")
        /\ IsPlain(r["CNAK"], "REQ_SENT") /\ IsPlain(r["TREQ"], "REQ_SENT")
        /\ IsPlain(r["TACK"], "REQ_SENT") /\ r["TONF"].act # <<>>
<1>1. trantab["ACK_RECVD"] = Row(<<EMPTY, To("STARTING"), To("ACK_RECVD"), Does(<<irc, str>>, "CLOSING"),
      Does(<<scr>>, "REQ_SENT"), Does(<<tlf>>, "STOPPED"), Does(<<sca, tlu>>, "OPENED"),
      Does(<<scn>>, "ACK_RECVD"), Does(<<scr>>, "REQ_SENT"), Does(<<scr>>, "REQ_SENT"),
      Does(<<sta>>, "REQ_SENT"), To("REQ_SENT")>>)
  BY DEF trantab
<1> QED BY <1>1, FullRow, EntryKinds

LEMMA Row_ACK_SENT ==
    LET r == trantab["ACK_SENT"]
    IN  /\ IsEmpty(r["LAYUP"]) /\ IsPlain(r["LAYDOWN"], "STARTING") /\ IsPlain(r["OPEN"], "ACK_SENT")
        /\ IsPlain(r["CLOSE"], "CLOSING") /\ IsPlain(r["TONF"], "ACK_SENT")
        /\ IsEnd(r["TOFATAL"], "STOPPED") /\ IsPlain(r["CREQOK"], "ACK_SENT")
        /\ IsPlain(r["CREQBAD"], "REQ_SENT") /\ IsUp(r["CACK"], "OPENED")
        /\ IsPlain(r["CNAK"], "ACK_SENT") /\ IsPlain(r["TREQ"], "REQ_SENT")
        /\ IsPlain(r["TACK"], "ACK_SENT") /\ r["TONF"].act # <<>>
<1>1. trantab["ACK_SENT"] = Row(<<EMPTY, To("STARTING"), To("ACK_SENT"), Does(<<irc, str>>, "CLOSING"),
      Does(<<scr>>, "ACK_SENT"), Does(<<tlf>>, "STOPPED"), Does(<<sca>>, "ACK_SENT"),
      Does(<<scn>>, "REQ_SENT"), Does(<<irc, tlu>>, "OPENED"), Does(<<irc, scr>>, "ACK_SENT"),
      Does(<<sta>>, "REQ_SENT"), To("ACK_SENT")>>)
  BY DEF trantab
<1> QED BY <1>1, FullRow, EntryKinds

LEMMA Row_OPENED ==
    LET r == trantab["OPENED"]
    IN  /\ IsEmpty(r["LAYUP"]) /\ IsDown(r["LAYDOWN"], "STARTING") /\ IsPlain(r["OPEN"], "OPENED")
        /\ IsDown(r["CLOSE"], "CLOSING") /\ IsEmpty(r["TONF"]) /\ IsEmpty(r["TOFATAL"])
        /\ IsDown(r["CREQOK"], "ACK_SENT") /\ IsDown(r["CREQBAD"], "REQ_SENT")
        /\ IsDown(r["CACK"], "REQ_SENT") /\ IsDown(r["CNAK"], "REQ_SENT")
        /\ IsDown(r["TREQ"], "STOPPING") /\ IsDown(r["TACK"], "REQ_SENT")
<1>1. trantab["OPENED"] = Row(<<EMPTY, Does(<<tld>>, "STARTING"), To("OPENED"), Does(<<tld, irc, str>>, "CLOSING"),
      EMPTY, EMPTY, Does(<<tld, scr, sca>>, "ACK_SENT"), Does(<<tld, scr, scn>>, "REQ_SENT"),
      Does(<<tld, scr>>, "REQ_SENT"), Does(<<tld, scr>>, "REQ_SENT"), Does(<<tld, zrc, sta>>, "STOPPING"),
      Does(<<tld, scr>>, "REQ_SENT")>>)
  BY DEF trantab
<1> QED BY <1>1, FullRow, EntryKinds

\* What an entry may do, and where it leads.
Kinds(st, ev, e) ==
    /\ e.new \in States /\ e.empty \in BOOLEAN
    /\ \/ /\ OnlyPlain(e.act)
          /\ e.new = "OPENED" => st = "OPENED"
          /\ st = "OPENED" => e.new = "OPENED" \/ ev \in {"LAYUP", "TONF", "TOFATAL"}
       \/ Starts(e.act) /\ e.new = "STARTING" /\ st # "OPENED" /\ ev # "LAYUP"
       \/ Ends(e.act) /\ st # "OPENED" /\ ev \notin {"LAYUP", "LAYDOWN"}
                      /\ e.new # "OPENED"
       \/ GoesUp(e.act) /\ e.new = "OPENED" /\ st # "OPENED" /\ ev \notin {"LAYUP", "LAYDOWN"}
       \/ GoesDown(e.act) /\ e.new # "OPENED" /\ st = "OPENED" /\ ev # "LAYUP"
    /\ ev = "LAYDOWN" => e.new \in Below

\* Where IPCP is while the link is open, and LCP while it is not, on a host that is on; the
\* events that come to them.
Live == States \ (Below \cup {"CLOSING"})
Busy == Timed \ {"CLOSING"}
Due(st, ev) == ev \in Net \/ (st \in Busy /\ ev \in {"TONF", "TOFATAL"})
GoesOn(st, ev, e) ==
    /\ st \in Live /\ Due(st, ev) => e.empty = FALSE /\ e.new \in Live
    /\ st \in Busy \cup {"OPENED"} /\ Due(st, ev) => (e.new = "STOPPED" <=> Ends(e.act))
Falls(st, ev, e) ==
    /\ st \in Live /\ ev = "LAYDOWN" => e.empty = FALSE /\ e.new = "STARTING"
    /\ st = "STOPPED" /\ ev = "LAYDOWN" => Starts(e.act)
    /\ st = "STARTING" /\ ev = "LAYUP" => e.empty = FALSE /\ e.new = "REQ_SENT"
    /\ st = "INITIAL" /\ ev = "OPEN" => e.empty = FALSE /\ Starts(e.act)

LEMMA Entry_INITIAL ==
    ASSUME NEW ev \in Events
    PROVE  LET e == trantab["INITIAL"][ev]
           IN  Kinds("INITIAL", ev, e) /\ GoesOn("INITIAL", ev, e) /\ Falls("INITIAL", ev, e)
<1> DEFINE e == trantab["INITIAL"][ev]
<1> USE DEF IsEmpty, IsPlain, IsUp, IsDown, IsStart, IsEnd, Below
<1>1. ev \in {"OPEN"} => Starts(e.act) /\ e.new = "STARTING"
  BY Row_INITIAL
<1>2. ev \notin {"OPEN"} => OnlyPlain(e.act) /\ e.new # "OPENED"
  BY Row_INITIAL DEF Events, Net
<1>3. e.new \in States
  BY Row_INITIAL DEF Events, Net, States
<1>4. e.empty \in BOOLEAN
  BY Row_INITIAL DEF Events, Net
<1>5. ev = "LAYDOWN" => e.new \in Below
  BY Row_INITIAL
<1>6. Kinds("INITIAL", ev, e)
  BY <1>1, <1>2, <1>3, <1>4, <1>5 DEF Kinds
<1>7. "INITIAL" \notin Live
  BY DEF Live
<1>8. "INITIAL" \notin Busy \cup {"OPENED"}
  BY DEF Busy, Timed
<1>9. Falls("INITIAL", ev, e)
  BY Row_INITIAL DEF Events, Net, Falls, Live, States
<1> QED BY <1>6, <1>7, <1>8, <1>9 DEF GoesOn

LEMMA Entry_STARTING ==
    ASSUME NEW ev \in Events
    PROVE  LET e == trantab["STARTING"][ev]
           IN  Kinds("STARTING", ev, e) /\ GoesOn("STARTING", ev, e) /\ Falls("STARTING", ev, e)
<1> DEFINE e == trantab["STARTING"][ev]
<1> USE DEF IsEmpty, IsPlain, IsUp, IsDown, IsStart, IsEnd, Below
<1>1. ev \in {"CLOSE"} => Ends(e.act) /\ e.new # "OPENED"
  BY Row_STARTING
<1>2. ev \notin {"CLOSE"} => OnlyPlain(e.act) /\ e.new # "OPENED"
  BY Row_STARTING DEF Events, Net
<1>3. e.new \in States
  BY Row_STARTING DEF Events, Net, States
<1>4. e.empty \in BOOLEAN
  BY Row_STARTING DEF Events, Net
<1>5. ev = "LAYDOWN" => e.new \in Below
  BY Row_STARTING
<1>6. Kinds("STARTING", ev, e)
  BY <1>1, <1>2, <1>3, <1>4, <1>5 DEF Kinds
<1>7. "STARTING" \notin Live
  BY DEF Live
<1>8. "STARTING" \notin Busy \cup {"OPENED"}
  BY DEF Busy, Timed
<1>9. Falls("STARTING", ev, e)
  BY Row_STARTING DEF Events, Net, Falls, Live, States
<1> QED BY <1>6, <1>7, <1>8, <1>9 DEF GoesOn

LEMMA Entry_CLOSED ==
    ASSUME NEW ev \in Events
    PROVE  LET e == trantab["CLOSED"][ev]
           IN  Kinds("CLOSED", ev, e) /\ GoesOn("CLOSED", ev, e) /\ Falls("CLOSED", ev, e)
<1> DEFINE e == trantab["CLOSED"][ev]
<1> USE DEF IsEmpty, IsPlain, IsUp, IsDown, IsStart, IsEnd, Below
<1>1. OnlyPlain(e.act) /\ e.new # "OPENED"
  BY Row_CLOSED DEF Events, Net
<1>2. e.new \in States
  BY Row_CLOSED DEF Events, Net, States
<1>3. e.empty \in BOOLEAN
  BY Row_CLOSED DEF Events, Net
<1>4. ev = "LAYDOWN" => e.new \in Below
  BY Row_CLOSED
<1>5. Kinds("CLOSED", ev, e)
  BY <1>1, <1>2, <1>3, <1>4 DEF Kinds
<1>6. "CLOSED" \notin Live
  BY DEF Live
<1>7. "CLOSED" \notin Busy \cup {"OPENED"}
  BY DEF Busy, Timed
<1>8. Falls("CLOSED", ev, e)
  BY Row_CLOSED DEF Events, Net, Falls, Live, States
<1> QED BY <1>5, <1>6, <1>7, <1>8 DEF GoesOn

LEMMA Entry_STOPPED ==
    ASSUME NEW ev \in Events
    PROVE  LET e == trantab["STOPPED"][ev]
           IN  Kinds("STOPPED", ev, e) /\ GoesOn("STOPPED", ev, e) /\ Falls("STOPPED", ev, e)
<1> DEFINE e == trantab["STOPPED"][ev]
<1> USE DEF IsEmpty, IsPlain, IsUp, IsDown, IsStart, IsEnd, Below
<1>1. ev \in {"LAYDOWN"} => Starts(e.act) /\ e.new = "STARTING"
  BY Row_STOPPED
<1>2. ev \notin {"LAYDOWN"} => OnlyPlain(e.act) /\ e.new # "OPENED"
  BY Row_STOPPED DEF Events, Net
<1>3. e.new \in States
  BY Row_STOPPED DEF Events, Net, States
<1>4. e.empty \in BOOLEAN
  BY Row_STOPPED DEF Events, Net
<1>5. ev = "LAYDOWN" => e.new \in Below
  BY Row_STOPPED
<1>6. Kinds("STOPPED", ev, e)
  BY <1>1, <1>2, <1>3, <1>4, <1>5 DEF Kinds
<1>7. Due("STOPPED", ev) => e.empty = FALSE /\ e.new \in Live
  BY Row_STOPPED DEF Events, Net, Due, Live, Busy, Timed, States
<1>8. "STOPPED" \notin Busy \cup {"OPENED"}
  BY DEF Busy, Timed
<1>9. Falls("STOPPED", ev, e)
  BY Row_STOPPED DEF Events, Net, Falls, Live, States
<1> QED BY <1>6, <1>7, <1>8, <1>9 DEF GoesOn

LEMMA Entry_CLOSING ==
    ASSUME NEW ev \in Events
    PROVE  LET e == trantab["CLOSING"][ev]
           IN  Kinds("CLOSING", ev, e) /\ GoesOn("CLOSING", ev, e) /\ Falls("CLOSING", ev, e)
<1> DEFINE e == trantab["CLOSING"][ev]
<1> USE DEF IsEmpty, IsPlain, IsUp, IsDown, IsStart, IsEnd, Below
<1>1. ev \in {"TOFATAL", "TACK"} => Ends(e.act) /\ e.new # "OPENED"
  BY Row_CLOSING
<1>2. ev \notin {"TOFATAL", "TACK"} => OnlyPlain(e.act) /\ e.new # "OPENED"
  BY Row_CLOSING DEF Events, Net
<1>3. e.new \in States
  BY Row_CLOSING DEF Events, Net, States
<1>4. e.empty \in BOOLEAN
  BY Row_CLOSING DEF Events, Net
<1>5. ev = "LAYDOWN" => e.new \in Below
  BY Row_CLOSING
<1>6. Kinds("CLOSING", ev, e)
  BY <1>1, <1>2, <1>3, <1>4, <1>5 DEF Kinds
<1>7. "CLOSING" \notin Live
  BY DEF Live
<1>8. "CLOSING" \notin Busy \cup {"OPENED"}
  BY DEF Busy, Timed
<1>9. Falls("CLOSING", ev, e)
  BY Row_CLOSING DEF Events, Net, Falls, Live, States
<1> QED BY <1>6, <1>7, <1>8, <1>9 DEF GoesOn

LEMMA Entry_STOPPING ==
    ASSUME NEW ev \in Events
    PROVE  LET e == trantab["STOPPING"][ev]
           IN  Kinds("STOPPING", ev, e) /\ GoesOn("STOPPING", ev, e) /\ Falls("STOPPING", ev, e)
<1> DEFINE e == trantab["STOPPING"][ev]
<1> USE DEF IsEmpty, IsPlain, IsUp, IsDown, IsStart, IsEnd, Below
<1>1. ev \in {"TOFATAL", "TACK"} => Ends(e.act) /\ e.new # "OPENED"
  BY Row_STOPPING
<1>2. ev \notin {"TOFATAL", "TACK"} => OnlyPlain(e.act) /\ e.new # "OPENED"
  BY Row_STOPPING DEF Events, Net
<1>3. e.new \in States
  BY Row_STOPPING DEF Events, Net, States
<1>4. e.empty \in BOOLEAN
  BY Row_STOPPING DEF Events, Net
<1>5. ev = "LAYDOWN" => e.new \in Below
  BY Row_STOPPING
<1>6. Kinds("STOPPING", ev, e)
  BY <1>1, <1>2, <1>3, <1>4, <1>5 DEF Kinds
<1>7. Due("STOPPING", ev) => e.empty = FALSE /\ e.new \in Live
  BY Row_STOPPING DEF Events, Net, Due, Live, Busy, Timed, States
<1>8. Due("STOPPING", ev) => (e.new = "STOPPED" <=> Ends(e.act))
  BY Row_STOPPING, OneKind DEF Events, Net, Due, Busy, Timed
<1>9. Falls("STOPPING", ev, e)
  BY Row_STOPPING DEF Events, Net, Falls, Live, States
<1> QED BY <1>6, <1>7, <1>8, <1>9 DEF GoesOn

LEMMA Entry_REQ_SENT ==
    ASSUME NEW ev \in Events
    PROVE  LET e == trantab["REQ_SENT"][ev]
           IN  Kinds("REQ_SENT", ev, e) /\ GoesOn("REQ_SENT", ev, e) /\ Falls("REQ_SENT", ev, e)
<1> DEFINE e == trantab["REQ_SENT"][ev]
<1> USE DEF IsEmpty, IsPlain, IsUp, IsDown, IsStart, IsEnd, Below
<1>1. ev \in {"TOFATAL"} => Ends(e.act) /\ e.new # "OPENED"
  BY Row_REQ_SENT
<1>2. ev \notin {"TOFATAL"} => OnlyPlain(e.act) /\ e.new # "OPENED"
  BY Row_REQ_SENT DEF Events, Net
<1>3. e.new \in States
  BY Row_REQ_SENT DEF Events, Net, States
<1>4. e.empty \in BOOLEAN
  BY Row_REQ_SENT DEF Events, Net
<1>5. ev = "LAYDOWN" => e.new \in Below
  BY Row_REQ_SENT
<1>6. Kinds("REQ_SENT", ev, e)
  BY <1>1, <1>2, <1>3, <1>4, <1>5 DEF Kinds
<1>7. Due("REQ_SENT", ev) => e.empty = FALSE /\ e.new \in Live
  BY Row_REQ_SENT DEF Events, Net, Due, Live, Busy, Timed, States
<1>8. Due("REQ_SENT", ev) => (e.new = "STOPPED" <=> Ends(e.act))
  BY Row_REQ_SENT, OneKind DEF Events, Net, Due, Busy, Timed
<1>9. Falls("REQ_SENT", ev, e)
  BY Row_REQ_SENT DEF Events, Net, Falls, Live, States
<1> QED BY <1>6, <1>7, <1>8, <1>9 DEF GoesOn

LEMMA Entry_ACK_RECVD ==
    ASSUME NEW ev \in Events
    PROVE  LET e == trantab["ACK_RECVD"][ev]
           IN  Kinds("ACK_RECVD", ev, e) /\ GoesOn("ACK_RECVD", ev, e) /\ Falls("ACK_RECVD", ev, e)
<1> DEFINE e == trantab["ACK_RECVD"][ev]
<1> USE DEF IsEmpty, IsPlain, IsUp, IsDown, IsStart, IsEnd, Below
<1>1. ev \in {"CREQOK"} => GoesUp(e.act) /\ e.new = "OPENED"
  BY Row_ACK_RECVD
<1>2. ev \in {"TOFATAL"} => Ends(e.act) /\ e.new # "OPENED"
  BY Row_ACK_RECVD
<1>3. ev \notin {"CREQOK", "TOFATAL"} => OnlyPlain(e.act) /\ e.new # "OPENED"
  BY Row_ACK_RECVD DEF Events, Net
<1>4. e.new \in States
  BY Row_ACK_RECVD DEF Events, Net, States
<1>5. e.empty \in BOOLEAN
  BY Row_ACK_RECVD DEF Events, Net
<1>6. ev = "LAYDOWN" => e.new \in Below
  BY Row_ACK_RECVD
<1>7. Kinds("ACK_RECVD", ev, e)
  BY <1>1, <1>2, <1>3, <1>4, <1>5, <1>6 DEF Kinds
<1>8. Due("ACK_RECVD", ev) => e.empty = FALSE /\ e.new \in Live
  BY Row_ACK_RECVD DEF Events, Net, Due, Live, Busy, Timed, States
<1>9. Due("ACK_RECVD", ev) => (e.new = "STOPPED" <=> Ends(e.act))
  BY Row_ACK_RECVD, OneKind DEF Events, Net, Due, Busy, Timed
<1>10. Falls("ACK_RECVD", ev, e)
  BY Row_ACK_RECVD DEF Events, Net, Falls, Live, States
<1> QED BY <1>7, <1>8, <1>9, <1>10 DEF GoesOn

LEMMA Entry_ACK_SENT ==
    ASSUME NEW ev \in Events
    PROVE  LET e == trantab["ACK_SENT"][ev]
           IN  Kinds("ACK_SENT", ev, e) /\ GoesOn("ACK_SENT", ev, e) /\ Falls("ACK_SENT", ev, e)
<1> DEFINE e == trantab["ACK_SENT"][ev]
<1> USE DEF IsEmpty, IsPlain, IsUp, IsDown, IsStart, IsEnd, Below
<1>1. ev \in {"CACK"} => GoesUp(e.act) /\ e.new = "OPENED"
  BY Row_ACK_SENT
<1>2. ev \in {"TOFATAL"} => Ends(e.act) /\ e.new # "OPENED"
  BY Row_ACK_SENT
<1>3. ev \notin {"CACK", "TOFATAL"} => OnlyPlain(e.act) /\ e.new # "OPENED"
  BY Row_ACK_SENT DEF Events, Net
<1>4. e.new \in States
  BY Row_ACK_SENT DEF Events, Net, States
<1>5. e.empty \in BOOLEAN
  BY Row_ACK_SENT DEF Events, Net
<1>6. ev = "LAYDOWN" => e.new \in Below
  BY Row_ACK_SENT
<1>7. Kinds("ACK_SENT", ev, e)
  BY <1>1, <1>2, <1>3, <1>4, <1>5, <1>6 DEF Kinds
<1>8. Due("ACK_SENT", ev) => e.empty = FALSE /\ e.new \in Live
  BY Row_ACK_SENT DEF Events, Net, Due, Live, Busy, Timed, States
<1>9. Due("ACK_SENT", ev) => (e.new = "STOPPED" <=> Ends(e.act))
  BY Row_ACK_SENT, OneKind DEF Events, Net, Due, Busy, Timed
<1>10. Falls("ACK_SENT", ev, e)
  BY Row_ACK_SENT DEF Events, Net, Falls, Live, States
<1> QED BY <1>7, <1>8, <1>9, <1>10 DEF GoesOn

LEMMA Entry_OPENED ==
    ASSUME NEW ev \in Events
    PROVE  LET e == trantab["OPENED"][ev]
           IN  Kinds("OPENED", ev, e) /\ GoesOn("OPENED", ev, e) /\ Falls("OPENED", ev, e)
<1> DEFINE e == trantab["OPENED"][ev]
<1> USE DEF IsEmpty, IsPlain, IsUp, IsDown, IsStart, IsEnd, Below
<1>1. ev \in {"LAYDOWN", "CLOSE", "CREQOK", "CREQBAD", "CACK", "CNAK", "TREQ", "TACK"} => GoesDown(e.act) /\ e.new # "OPENED"
  BY Row_OPENED
<1>2. ev \notin {"LAYDOWN", "CLOSE", "CREQOK", "CREQBAD", "CACK", "CNAK", "TREQ", "TACK"} => OnlyPlain(e.act)
  BY Row_OPENED DEF Events, Net
<1>3. ev \notin {"LAYDOWN", "CLOSE", "CREQOK", "CREQBAD", "CACK", "CNAK", "TREQ", "TACK"} => e.new = "OPENED" \/ ev \in {"LAYUP", "TONF", "TOFATAL"}
  BY Row_OPENED DEF Events, Net
<1>4. e.new \in States
  BY Row_OPENED DEF Events, Net, States
<1>5. e.empty \in BOOLEAN
  BY Row_OPENED DEF Events, Net
<1>6. ev = "LAYDOWN" => e.new \in Below
  BY Row_OPENED
<1>7. Kinds("OPENED", ev, e)
  BY <1>1, <1>2, <1>3, <1>4, <1>5, <1>6 DEF Kinds
<1>8. Due("OPENED", ev) => e.empty = FALSE /\ e.new \in Live
  BY Row_OPENED DEF Events, Net, Due, Live, Busy, Timed, States
<1>9. Due("OPENED", ev) => (e.new = "STOPPED" <=> Ends(e.act))
  BY Row_OPENED, OneKind DEF Events, Net, Due, Busy, Timed
<1>10. Falls("OPENED", ev, e)
  BY Row_OPENED DEF Events, Net, Falls, Live, States
<1> QED BY <1>7, <1>8, <1>9, <1>10 DEF GoesOn

LEMMA TableEntries ==
    ASSUME NEW st \in States, NEW ev \in Events
    PROVE  LET e == trantab[st][ev]
           IN  Kinds(st, ev, e) /\ GoesOn(st, ev, e) /\ Falls(st, ev, e)
BY Entry_INITIAL, Entry_STARTING, Entry_CLOSED, Entry_STOPPED, Entry_CLOSING, Entry_STOPPING,
   Entry_REQ_SENT, Entry_ACK_RECVD, Entry_ACK_SENT, Entry_OPENED DEF States

\* The restart timer runs where TONF has an action.
LEMMA TimedStates ==
    ASSUME NEW st \in States
    PROVE  trantab[st].TONF.act # <<>> <=> st \in Timed
<1>1. \A e : IsEmpty(e) => e.act = <<>>
  BY DEF IsEmpty
<1>2. trantab["INITIAL"].TONF.act = <<>> /\ trantab["STARTING"].TONF.act = <<>>
  BY <1>1, Row_INITIAL, Row_STARTING DEF Events, Net
<1> QED BY <1>1, <1>2, Row_CLOSED, Row_STOPPED, Row_CLOSING, Row_STOPPING, Row_REQ_SENT, Row_ACK_RECVD,
           Row_ACK_SENT, Row_OPENED DEF States, Timed

(***************************************************************************)
(* A host at work                                                          *)
(***************************************************************************)
Flags   == Wants \cup {"DONE", "DCD_UP", "DCD_DOWN", "DTR_UP", "DTR_DOWN"}
Codes   == {"CONF_REQU", "CONF_ACK", "CONF_REJCT", "TERM_REQU", "TERM_ACK"}
Timers  == Sides \X Machines
\* What At makes of a host's record.
Works == [lcp : MachineSet, ipcp : MachineSet, flags : SUBSET Flags, took : SUBSET Options,
          out : Seq(Packets), dtr : BOOLEAN, odd : BOOLEAN, left : States \cup {"NONE"},
          me : Sides, pkt : Packets \cup {NoPacket}, alarms : Seq(Timers), used : SUBSET Nat,
          plan : PlanSet, carrier : BOOLEAN]
Sound(p) == p \in Works /\ Once(p.alarms)
Same(p, q) == /\ q.me = p.me /\ q.pkt = p.pkt /\ q.plan = p.plan /\ q.carrier = p.carrier
              /\ q.left = p.left
Rung(p, q, ms) == ToSet(q.alarms) \subseteq ToSet(p.alarms) \cup {<<p.me, m>> : m \in ms}
Waiting(p) == "DCD_UP" \in p.flags

LEMMA TimerStops ==
    ASSUME NEW S, NEW s \in Seq(S), Once(s), NEW e
    PROVE  /\ Without(s, e) \in Seq(S) /\ Once(Without(s, e))
           /\ ToSet(Without(s, e)) = ToSet(s) \ {e}
<1>1. CASE e \notin ToSet(s)
  BY <1>1 DEF Without
<1>2. CASE e \in ToSet(s)
  <2> DEFINE i == Place(s, e)
             t == RemoveAt(s, i)
  <2>1. DOMAIN s = 1 .. Len(s) /\ Len(s) \in Nat /\ \A d \in ToSet(s) : \E j \in 1 .. Len(s) : s[j] = d
    BY InSet, LenProperties
  <2>2. i \in 1 .. Len(s) /\ s[i] = e
    BY <1>2, <2>1 DEF Place
  <2>3. Without(s, e) = t
    BY <1>2 DEF Without
  <2>4. /\ t \in Seq(S) /\ Len(t) = Len(s) - 1
        /\ \A j \in 1 .. Len(s) - 1 : t[j] = IF j < i THEN s[j] ELSE s[j + 1]
    BY <2>2, RemoveSound
  <2>5. DOMAIN t = 1 .. Len(s) - 1
    BY <2>4, LenProperties
  <2>6. \A j, k \in 1 .. Len(s) : s[j] = s[k] => j = k
    BY <2>1 DEF Once
  <2> HIDE DEF i, t
  <2>7. \A j \in 1 .. Len(s) - 1 : t[j] # e
    BY <2>1, <2>2, <2>4, <2>6
  <2>8. Once(t)
    BY <2>1, <2>2, <2>4, <2>5, <2>6 DEF Once
  <2>9. \A d \in ToSet(t) : d \in ToSet(s) /\ d # e
    <3>1. \A j \in 1 .. Len(s) - 1 : \E k \in 1 .. Len(s) : t[j] = s[k]
      BY <2>1, <2>4
    <3> QED BY <3>1, <2>1, <2>5, <2>7 DEF ToSet
  <2>10. \A d \in ToSet(s) : d # e => d \in ToSet(t)
    <3>1. \A k \in 1 .. Len(s) : k # i => \E j \in 1 .. Len(s) - 1 : t[j] = s[k]
      <4> SUFFICES ASSUME NEW k \in 1 .. Len(s), k # i
                   PROVE  \E j \in 1 .. Len(s) - 1 : t[j] = s[k]
        OBVIOUS
      <4>1. CASE k < i
        BY <4>1, <2>1, <2>2, <2>4
      <4>2. CASE k > i
        <5>1. k - 1 \in 1 .. Len(s) - 1 /\ t[k - 1] = s[k]
          BY <4>2, <2>1, <2>2, <2>4
        <5> QED BY <5>1
      <4> QED BY <4>1, <4>2, <2>2, <2>1
    <3> QED BY <3>1, <2>1, <2>2, <2>5 DEF ToSet
  <2> QED BY <2>3, <2>4, <2>8, <2>9, <2>10
<1> QED BY <1>1, <1>2

LEMMA TimerStarts ==
    ASSUME NEW S, NEW s \in Seq(S), Once(s), NEW e \in S
    PROVE  LET t == Append(Without(s, e), e)
           IN  t \in Seq(S) /\ Once(t) /\ ToSet(t) = ToSet(s) \cup {e}
<1> DEFINE r == Without(s, e)
           t == Append(r, e)
<1>1. r \in Seq(S) /\ Once(r) /\ ToSet(r) = ToSet(s) \ {e}
  BY TimerStops
<1> HIDE DEF r
<1>2. /\ t \in Seq(S) /\ Len(t) = Len(r) + 1 /\ DOMAIN t = 1 .. Len(r) + 1 /\ Len(r) \in Nat
      /\ t[Len(r) + 1] = e /\ \A i \in 1 .. Len(r) : t[i] = r[i]
      /\ DOMAIN r = 1 .. Len(r)
  BY <1>1, AppendProperties, LenProperties
<1>3. \A i \in 1 .. Len(r) : r[i] \in ToSet(r) /\ r[i] # e
  BY <1>1, InSet
<1> HIDE DEF t
<1>4. Once(t)
  BY <1>1, <1>2, <1>3 DEF Once
<1>5. ToSet(t) = ToSet(r) \cup {e}
  <2>1. \A i \in 1 .. Len(r) + 1 : t[i] = IF i = Len(r) + 1 THEN e ELSE r[i]
    BY <1>2
  <2>2. \A d \in ToSet(t) : d \in ToSet(r) \cup {e}
    BY <2>1, <1>2 DEF ToSet
  <2>3. \A d \in ToSet(r) \cup {e} : d \in ToSet(t)
    BY <2>1, <1>2 DEF ToSet
  <2> QED BY <2>2, <2>3
<1> QED BY <1>1, <1>2, <1>4, <1>5 DEF t, r

\* What an action of the machine m leaves alone.
Kept(p, q, m) ==
    /\ Sound(q) /\ Same(p, q) /\ Rung(p, q, {m})
    /\ q.lcp.state = p.lcp.state /\ q.ipcp.state = p.ipcp.state
    /\ q.lcp.event = p.lcp.event /\ q.odd = p.odd
    /\ Waiting(q) <=> Waiting(p)

LEMMA KeptFirst ==
    ASSUME NEW p, Sound(p), NEW m
    PROVE  Kept(p, p, m)
BY DEF Kept, Same, Rung

LEMMA KeptAlong ==
    ASSUME NEW p, NEW q, NEW r, NEW m, Kept(p, q, m), Kept(q, r, m)
    PROVE  Kept(p, r, m)
<1>1. Rung(p, r, {m})
  BY DEF Kept, Same, Rung
<1>2. Same(p, r)
  BY DEF Kept, Same
<1> QED BY <1>1, <1>2 DEF Kept

\* A machine's record is altered, or another part of the host's.
LEMMA MachineSets ==
    ASSUME NEW p \in Works, NEW m \in Machines, NEW x \in MachineSet, x.state = p[m].state,
           m = "lcp" => x.event = p[m].event
    PROVE  LET q == [p EXCEPT ![m] = x]
           IN  /\ q \in Works /\ Same(p, q) /\ q.alarms = p.alarms
               /\ q.lcp.state = p.lcp.state /\ q.ipcp.state = p.ipcp.state
               /\ q.lcp.event = p.lcp.event /\ q.odd = p.odd /\ q.flags = p.flags
               /\ q[m] = x
<1>1. CASE m = "lcp"
  BY <1>1 DEF Works, Machines, Same
<1>2. CASE m = "ipcp"
  BY <1>2 DEF Works, Machines, Same
<1> QED BY <1>1, <1>2 DEF Machines

LEMMA MachineParts ==
    ASSUME NEW x \in MachineSet, NEW n \in Nat, NEW opts \in SUBSET Options
    PROVE  /\ [x EXCEPT !.cnt = n] \in MachineSet /\ [x EXCEPT !.cnt = n].state = x.state
           /\ [x EXCEPT !.cnt = n].event = x.event
           /\ [x EXCEPT !.identi = n] \in MachineSet /\ [x EXCEPT !.identi = n].state = x.state
           /\ [x EXCEPT !.identi = n].event = x.event
           /\ [x EXCEPT !.conf = opts] \in MachineSet /\ [x EXCEPT !.conf = opts].state = x.state
           /\ [x EXCEPT !.conf = opts].event = x.event
BY DEF MachineSet

LEMMA HasMachine ==
    ASSUME NEW p \in Works, NEW m \in Machines
    PROVE  p[m] \in MachineSet /\ <<p.me, m>> \in Timers
BY DEF Works, Machines, Timers

\* timer_start and timer_run(..., 0)
LEMMA StartSound ==
    ASSUME NEW p, Sound(p), NEW m \in Machines
    PROVE  LET q == Start(p, m)
           IN  Kept(p, q, m) /\ q[m] = p[m] /\ ToSet(q.alarms) = ToSet(p.alarms) \cup {<<p.me, m>>}
<1> DEFINE e == <<p.me, m>>
           t == Append(Without(p.alarms, e), e)
           q == Start(p, m)
<1>1. p \in Works /\ p.alarms \in Seq(Timers) /\ Once(p.alarms) /\ e \in Timers
  BY HasMachine DEF Sound, Works
<1> HIDE DEF e
<1>2. t \in Seq(Timers) /\ Once(t) /\ ToSet(t) = ToSet(p.alarms) \cup {e}
  BY <1>1, TimerStarts
<1> HIDE DEF t
<1>3. q = [p EXCEPT !.alarms = t]
  BY DEF Start, t, e
<1>4. q \in Works /\ Same(p, q) /\ q.alarms = t /\ q[m] = p[m]
      /\ q.lcp = p.lcp /\ q.ipcp = p.ipcp /\ q.odd = p.odd /\ q.flags = p.flags
  BY <1>1, <1>2, <1>3 DEF Works, Same, Machines
<1> QED BY <1>2, <1>4 DEF Kept, Sound, Rung, Waiting, e

LEMMA StopSound ==
    ASSUME NEW p, Sound(p), NEW m \in Machines
    PROVE  LET q == Stop(p, m)
           IN  Kept(p, q, m) /\ q[m] = p[m] /\ ToSet(q.alarms) = ToSet(p.alarms) \ {<<p.me, m>>}
<1> DEFINE e == <<p.me, m>>
           t == Without(p.alarms, e)
           q == Stop(p, m)
<1>1. p \in Works /\ p.alarms \in Seq(Timers) /\ Once(p.alarms) /\ e \in Timers
  BY HasMachine DEF Sound, Works
<1> HIDE DEF e
<1>2. t \in Seq(Timers) /\ Once(t) /\ ToSet(t) = ToSet(p.alarms) \ {e}
  BY <1>1, TimerStops
<1> HIDE DEF t
<1>3. q = [p EXCEPT !.alarms = t]
  BY DEF Stop, t, e
<1>4. q \in Works /\ Same(p, q) /\ q.alarms = t /\ q[m] = p[m]
      /\ q.lcp = p.lcp /\ q.ipcp = p.ipcp /\ q.odd = p.odd /\ q.flags = p.flags
  BY <1>1, <1>2, <1>3 DEF Works, Same, Machines
<1> QED BY <1>2, <1>4 DEF Kept, Sound, Rung, Waiting, e

LEMMA CountSound ==
    ASSUME NEW p, Sound(p), NEW m \in Machines, NEW n \in Nat
    PROVE  LET q == [p EXCEPT ![m].cnt = n]
           IN  Kept(p, q, m) /\ q.alarms = p.alarms
<1> DEFINE x == [p[m] EXCEPT !.cnt = n]
           q == [p EXCEPT ![m] = x]
<1>1. p \in Works /\ p[m] \in MachineSet
  BY HasMachine DEF Sound
<1>2. x \in MachineSet /\ x.state = p[m].state /\ x.event = p[m].event
  BY <1>1, MachineParts DEF Options
<1> HIDE DEF x
<1>3. /\ q \in Works /\ Same(p, q) /\ q.alarms = p.alarms
      /\ q.lcp.state = p.lcp.state /\ q.ipcp.state = p.ipcp.state
      /\ q.lcp.event = p.lcp.event /\ q.odd = p.odd /\ q.flags = p.flags
  BY <1>1, <1>2, MachineSets
<1>4. [p EXCEPT ![m].cnt = n] = q
  BY DEF x
<1> HIDE DEF q
<1> QED BY <1>3, <1>4 DEF Kept, Sound, Rung, Waiting

LEMMA SendSound ==
    ASSUME NEW p, Sound(p), NEW m \in Machines, NEW packet \in Packets
    PROVE  Kept(p, Send(p, packet), m)
<1> DEFINE q == Send(p, packet)
<1>1. p \in Works /\ p.out \in Seq(Packets) /\ Append(p.out, packet) \in Seq(Packets)
  <2>1. p \in Works /\ p.out \in Seq(Packets)
    BY DEF Sound, Works
  <2> QED BY <2>1, AppendProperties
<1>2. /\ q \in Works /\ Same(p, q) /\ q.alarms = p.alarms
      /\ q.lcp = p.lcp /\ q.ipcp = p.ipcp /\ q.odd = p.odd /\ q.flags = p.flags
  <2> DEFINE out == Append(p.out, packet)
  <2>1. q = [p EXCEPT !.out = out]
    BY DEF Send
  <2> HIDE DEF out, q
  <2> QED BY <1>1, <2>1 DEF Works, Same, out
<1> HIDE DEF q
<1> QED BY <1>2 DEF Kept, Sound, Rung, Waiting, q

LEMMA RequestSound ==
    ASSUME NEW p, Sound(p), NEW m \in Machines, NEW code \in {"CONF_REQU", "TERM_REQU"}
    PROVE  Kept(p, send_req(p, m, code), m)
<1> DEFINE i    == Fresh(p)
           x    == [p[m] EXCEPT !.identi = i]
           q    == [p EXCEPT ![m] = x]
           opts == IF code = "CONF_REQU" THEN p[m].conf ELSE {}
           pk   == Packet(m, code, i, opts)
<1>1. p \in Works /\ p[m] \in MachineSet
  BY HasMachine DEF Sound
<1>2. i \in Nat
  <2> DEFINE T == (1 .. 20 \ (p.used \cup Ids(p.out) \cup {p.lcp.identi, p.ipcp.identi})) \cup {20}
  <2>1. T \subseteq Nat /\ T # {}
    OBVIOUS
  <2> HIDE DEF T
  <2>2. Min(T) \in T
    BY <2>1, MinIsLeast
  <2> QED BY <2>1, <2>2 DEF Fresh, T
<1>3. pk \in Packets
  <2>1. opts \in SUBSET Options
    BY <1>1 DEF MachineSet
  <2> HIDE DEF opts, i
  <2> QED BY <1>2, <2>1 DEF Packet, Packets
<1>4. send_req(p, m, code) = Send([p EXCEPT ![m].identi = i], pk)
  BY DEF send_req
<1> HIDE DEF i, pk
<1>5. x \in MachineSet /\ x.state = p[m].state /\ x.event = p[m].event
  BY <1>1, <1>2, MachineParts DEF Options
<1>6. [p EXCEPT ![m].identi = i] = q
  OBVIOUS
<1> HIDE DEF x
<1>7. /\ q \in Works /\ Same(p, q) /\ q.alarms = p.alarms
      /\ q.lcp.state = p.lcp.state /\ q.ipcp.state = p.ipcp.state
      /\ q.lcp.event = p.lcp.event /\ q.odd = p.odd /\ q.flags = p.flags
  BY <1>1, <1>5, MachineSets
<1> HIDE DEF q
<1>8. Kept(p, q, m)
  BY <1>7 DEF Kept, Sound, Rung, Waiting
<1>9. Kept(q, Send(q, pk), m)
  BY <1>3, <1>8, SendSound DEF Kept
<1> QED BY <1>4, <1>6, <1>8, <1>9, KeptAlong

\* The line's flags change, but not that it is waited for.
LEMMA FlagsSound ==
    ASSUME NEW p, Sound(p), NEW m \in Machines, NEW f \in SUBSET Flags,
           "DCD_UP" \in f <=> Waiting(p)
    PROVE  LET q == [p EXCEPT !.flags = f]
           IN  Kept(p, q, m) /\ q.alarms = p.alarms /\ q.lcp = p.lcp /\ q.ipcp = p.ipcp
<1> DEFINE q == [p EXCEPT !.flags = f]
<1>1. q \in Works /\ Same(p, q) /\ q.alarms = p.alarms /\ q.flags = f
      /\ q.lcp = p.lcp /\ q.ipcp = p.ipcp /\ q.odd = p.odd
  BY DEF Sound, Works, Same
<1> HIDE DEF q
<1>2. Kept(p, q, m)
  BY <1>1 DEF Kept, Sound, Rung, Waiting
<1> QED BY <1>1, <1>2 DEF q

LEMMA ConfSound ==
    ASSUME NEW p, Sound(p), NEW m \in Machines, NEW opts \in SUBSET Options
    PROVE  LET q == [p EXCEPT ![m].conf = opts]
           IN  Kept(p, q, m) /\ q.alarms = p.alarms /\ q.flags = p.flags
<1> DEFINE x == [p[m] EXCEPT !.conf = opts]
           q == [p EXCEPT ![m] = x]
<1>1. p \in Works /\ p[m] \in MachineSet
  BY HasMachine DEF Sound
<1>2. x \in MachineSet /\ x.state = p[m].state /\ x.event = p[m].event
  <2>1. 0 \in Nat
    OBVIOUS
  <2> QED BY <1>1, <2>1, MachineParts
<1>4. [p EXCEPT ![m].conf = opts] = q
  OBVIOUS
<1> HIDE DEF x
<1>3. /\ q \in Works /\ Same(p, q) /\ q.alarms = p.alarms
      /\ q.lcp.state = p.lcp.state /\ q.ipcp.state = p.ipcp.state
      /\ q.lcp.event = p.lcp.event /\ q.odd = p.odd /\ q.flags = p.flags
  BY <1>1, <1>2, MachineSets
<1> HIDE DEF q
<1> QED BY <1>3, <1>4 DEF Kept, Sound, Rung, Waiting

LEMMA CreateSound ==
    ASSUME NEW p, Sound(p), NEW m \in Machines
    PROVE  Kept(p, Create(p, m), m)
<1>1. p.flags \in SUBSET Flags
  BY DEF Sound, Works
<1>2. CASE m = "lcp"
  <2> DEFINE q == [p EXCEPT ![m].conf = {"MRU"}]
             f == p.flags \cup {"DCD_DOWN"}
  <2>1. Kept(p, q, m) /\ q.flags = p.flags
    <3>1. {"MRU"} \in SUBSET Options
      BY DEF Options
    <3> QED BY <3>1, ConfSound
  <2>2. Create(p, m) = [q EXCEPT !.flags = f]
    BY <1>2, <2>1 DEF Create
  <2>3. f \in SUBSET Flags /\ ("DCD_UP" \in f <=> Waiting(q))
    BY <1>1, <2>1 DEF Flags, Waiting
  <2> HIDE DEF q, f
  <2>4. Kept(q, [q EXCEPT !.flags = f], m)
    BY <2>1, <2>3, FlagsSound DEF Kept
  <2>5. Kept(q, Create(p, m), m)
    BY <2>2, <2>4, Zenon
  <2> QED BY <2>1, <2>5, KeptAlong
<1>3. CASE m = "ipcp"
  <2> DEFINE opts == {"IP_ADDR"} \cup (p.flags \cap Wants)
  <2>1. opts \in SUBSET Options
    BY DEF Options
  <2>2. Create(p, m) = [p EXCEPT ![m].conf = opts]
    BY <1>3 DEF Create
  <2> HIDE DEF opts
  <2>3. Kept(p, [p EXCEPT ![m].conf = opts], m)
    BY <2>1, ConfSound
  <2> QED BY <2>2, <2>3, Zenon
<1> QED BY <1>2, <1>3 DEF Machines

\* What the table names, done by LCP and by IPCP.
LcpDoes(p, ev, a)  == Action(p, "lcp", ev, a, lcp_up_down)
IpcpDoes(p, ev, a) == Action(p, "ipcp", ev, a, ipcp_up_down)
Counts(p, m, n)    == [Start(p, m) EXCEPT ![m].cnt = n]
Requests(p, m)         == send_req(IF p[m].conf = {} THEN Create(p, m) ELSE p, m, "CONF_REQU")
Confirms(p, m)     == Send(p, Packet(m, "CONF_ACK", p.pkt.id, p.pkt.opts))
Agrees(p, m)       == [Confirms(p, m) EXCEPT !.took = p.pkt.opts]

LEMMA LcpDeeds ==
    ASSUME NEW p, NEW ev
    PROVE  /\ LcpDoes(p, ev, irc) = Counts(p, "lcp", cnt_init(p.plan, ev))
           /\ LcpDoes(p, ev, zrc) = Counts(p, "lcp", 0)
           /\ LcpDoes(p, ev, scr) = Requests(p, "lcp")
           /\ LcpDoes(p, ev, str) = send_req(p, "lcp", "TERM_REQU")
           /\ LcpDoes(p, ev, sca) = Confirms(p, "lcp")
           /\ LcpDoes(p, ev, scn) =
                Send(p, Packet("lcp", "CONF_REJCT", p.pkt.id, p.pkt.opts \ Known(p, "lcp")))
           /\ LcpDoes(p, ev, sta) = Send(p, Packet("lcp", "TERM_ACK", p.pkt.id, {}))
           /\ LcpDoes(p, ev, tls) = Lower(p, TRUE) /\ LcpDoes(p, ev, tlf) = Lower(p, FALSE)
           /\ LcpDoes(p, ev, tlu) = lcp_up_down(p, TRUE)
           /\ LcpDoes(p, ev, tld) = lcp_up_down(p, FALSE)
BY Zenon DEF LcpDoes, Counts, Requests, Confirms, Action, tlu, tld, tls, tlf, irc, zrc, scr, str, sca, scn, sta

LEMMA IpcpDeeds ==
    ASSUME NEW p, NEW ev
    PROVE  /\ IpcpDoes(p, ev, irc) = Counts(p, "ipcp", cnt_init(p.plan, ev))
           /\ IpcpDoes(p, ev, zrc) = Counts(p, "ipcp", 0)
           /\ IpcpDoes(p, ev, scr) = Requests(p, "ipcp")
           /\ IpcpDoes(p, ev, str) = send_req(p, "ipcp", "TERM_REQU")
           /\ IpcpDoes(p, ev, sca) = Agrees(p, "ipcp")
           /\ IpcpDoes(p, ev, scn) =
                Send(p, Packet("ipcp", "CONF_REJCT", p.pkt.id, p.pkt.opts \ Known(p, "ipcp")))
           /\ IpcpDoes(p, ev, sta) = Send(p, Packet("ipcp", "TERM_ACK", p.pkt.id, {}))
           /\ IpcpDoes(p, ev, tls) = p /\ IpcpDoes(p, ev, tlf) = p
           /\ IpcpDoes(p, ev, tlu) = ipcp_up_down(p, TRUE)
           /\ IpcpDoes(p, ev, tld) = ipcp_up_down(p, FALSE)
BY Zenon DEF IpcpDoes, Counts, Requests, Confirms, Agrees, Action, tlu, tld, tls, tlf, irc, zrc, scr, str, sca, scn, sta

\* What a machine does alone.
LEMMA DeedsSound ==
    ASSUME NEW p, Sound(p), NEW m \in Machines, NEW ev \in Events, NEW a \in Plain
    PROVE  Kept(p, IF m = "lcp" THEN LcpDoes(p, ev, a) ELSE IpcpDoes(p, ev, a), m)
<1>1. p \in Works /\ p.plan.conf \in Nat /\ p.plan.term \in Nat /\ p.out \in Seq(Packets)
      /\ p.pkt.id \in Nat /\ p.pkt.opts \in SUBSET Options
  <2>1. p \in Works /\ p.plan \in PlanSet /\ p.out \in Seq(Packets) /\ p.pkt \in Packets \cup {NoPacket}
    BY DEF Sound, Works
  <2> QED BY <2>1 DEF PlanSet, Packets, NoPacket, Packet
<1>2. ASSUME NEW n \in Nat PROVE Kept(p, [Start(p, m) EXCEPT ![m].cnt = n], m)
  <2> DEFINE q == Start(p, m)
  <2>1. Kept(p, q, m)
    BY StartSound
  <2> HIDE DEF q
  <2>2. Kept(q, [q EXCEPT ![m].cnt = n], m)
    BY <2>1, CountSound DEF Kept
  <2> QED BY <2>1, <2>2, KeptAlong DEF q
<1>3. ASSUME NEW code \in {"CONF_ACK", "CONF_REJCT", "TERM_ACK"}, NEW opts \in SUBSET Options
      PROVE  Kept(p, Send(p, Packet(m, code, p.pkt.id, opts)), m)
  <2>1. Packet(m, code, p.pkt.id, opts) \in Packets
    BY <1>1 DEF Packet, Packets
  <2> QED BY <2>1, SendSound
<1>4. cnt_init(p.plan, ev) \in Nat
  BY <1>1 DEF cnt_init
<1> DEFINE Deed(x) == IF m = "lcp" THEN LcpDoes(p, ev, x) ELSE IpcpDoes(p, ev, x)
<1> SUFFICES Kept(p, Deed(a), m)
  OBVIOUS
<1> HIDE DEF Deed
<1>5. CASE a = irc
  <2>1. Deed(irc) = Counts(p, m, cnt_init(p.plan, ev))
    <3>1. CASE m = "lcp"
      BY <3>1, LcpDeeds, Zenon DEF Deed
    <3>2. CASE m # "lcp"
      <4>1. m = "ipcp"
        BY <3>2 DEF Machines
      <4> QED BY <3>2, <4>1, IpcpDeeds, Zenon DEF Deed
    <3> QED BY <3>1, <3>2
  <2>2. Kept(p, Counts(p, m, cnt_init(p.plan, ev)), m)
    <3> DEFINE n == cnt_init(p.plan, ev)
    <3>1. n \in Nat
      BY <1>4
    <3> HIDE DEF n
    <3>2. Kept(p, Counts(p, m, n), m)
      BY <1>2, <3>1 DEF Counts
    <3> QED BY <3>2 DEF n
  <2> QED BY <1>5, <2>1, <2>2, Zenon
<1>6. CASE a = zrc
  <2>1. Deed(zrc) = Counts(p, m, 0)
    BY LcpDeeds, IpcpDeeds DEF Deed, Machines
  <2>2. Kept(p, Counts(p, m, 0), m)
    BY <1>2 DEF Counts
  <2> QED BY <1>6, <2>1, <2>2, Zenon
<1>7. CASE a = scr
  <2> DEFINE q == IF p[m].conf = {} THEN Create(p, m) ELSE p
  <2>1. Deed(scr) = Requests(p, m)
    BY LcpDeeds, IpcpDeeds DEF Deed, Machines
  <2>2. Kept(p, q, m)
    BY CreateSound, KeptFirst
  <2>3. Requests(p, m) = send_req(q, m, "CONF_REQU")
    BY DEF Requests
  <2> HIDE DEF q
  <2>4. Kept(p, send_req(q, m, "CONF_REQU"), m)
    BY <2>2, RequestSound, KeptAlong DEF Kept
  <2> QED BY <1>7, <2>1, <2>3, <2>4, Zenon
<1>8. CASE a = str
  <2>1. Deed(str) = send_req(p, m, "TERM_REQU")
    BY LcpDeeds, IpcpDeeds DEF Deed, Machines
  <2>2. Kept(p, send_req(p, m, "TERM_REQU"), m)
    BY RequestSound
  <2> QED BY <1>8, <2>1, <2>2, Zenon
<1>9. CASE a = sca
  <2> DEFINE q == Confirms(p, m)
             r == [q EXCEPT !.took = p.pkt.opts]
  <2>1. Deed(sca) = q \/ Deed(sca) = Agrees(p, m)
    BY LcpDeeds, IpcpDeeds DEF Deed, Machines
  <2>2. Kept(p, q, m) /\ Agrees(p, m) = r
    BY <1>1, <1>3 DEF Confirms, Agrees
  <2> HIDE DEF q
  <2>3. r \in Works /\ Same(q, r) /\ r.alarms = q.alarms /\ r.flags = q.flags
        /\ r.lcp = q.lcp /\ r.ipcp = q.ipcp /\ r.odd = q.odd
    BY <1>1, <2>2 DEF Kept, Sound, Works, Same
  <2> HIDE DEF r
  <2>4. Kept(q, r, m)
    BY <2>2, <2>3 DEF Kept, Sound, Rung, Waiting
  <2>5. Kept(p, r, m)
    BY <2>2, <2>4, KeptAlong
  <2> QED BY <1>9, <2>1, <2>2, <2>5, Zenon
<1>10. CASE a = scn
  <2> DEFINE q == Send(p, Packet(m, "CONF_REJCT", p.pkt.id, p.pkt.opts \ Known(p, m)))
  <2>1. Deed(scn) = q
    BY LcpDeeds, IpcpDeeds DEF Deed, Machines
  <2>2. Kept(p, q, m)
    BY <1>1, <1>3
  <2> QED BY <1>10, <2>1, <2>2, Zenon
<1>11. CASE a = sta
  <2>1. Deed(sta) = Send(p, Packet(m, "TERM_ACK", p.pkt.id, {}))
    BY LcpDeeds, IpcpDeeds DEF Deed, Machines
  <2>2. Kept(p, Send(p, Packet(m, "TERM_ACK", p.pkt.id, {})), m)
    BY <1>3
  <2> QED BY <1>11, <2>1, <2>2, Zenon
<1> QED BY <1>5, <1>6, <1>7, <1>8, <1>9, <1>10, <1>11 DEF Plain

(***************************************************************************)
(* An event: its actions, and the state it leads to                        *)
(***************************************************************************)
Rings(p, m) == <<p.me, m>> \in ToSet(p.alarms)
Entry(p, m, ev) == trantab[p[m].state][ev]

LEMMA EntryOf ==
    ASSUME NEW p, Sound(p), NEW m \in Machines, NEW ev \in Events
    PROVE  LET e == Entry(p, m, ev)
           IN  /\ Kinds(p[m].state, ev, e) /\ GoesOn(p[m].state, ev, e) /\ Falls(p[m].state, ev, e)
               /\ e.new \in States /\ e.empty \in BOOLEAN
<1>1. p[m].state \in States
  BY HasMachine DEF Sound, MachineSet
<1>2. \A st \in States : Kinds(st, ev, trantab[st][ev]) /\ GoesOn(st, ev, trantab[st][ev])
                         /\ Falls(st, ev, trantab[st][ev])
  BY TableEntries
<1> QED BY <1>1, <1>2 DEF Entry, Kinds

LEMMA LeadsSound ==
    ASSUME NEW p, Sound(p), NEW m \in Machines, NEW new \in States
    PROVE  LET q == Leads(p, m, new)
           IN  /\ Sound(q) /\ Same(p, q) /\ q[m].state = new
               /\ \A n \in Machines : n # m => q[n].state = p[n].state
               /\ q.lcp.event = p.lcp.event /\ q.odd = p.odd /\ q.flags = p.flags
               /\ ToSet(q.alarms) \subseteq ToSet(p.alarms)
               /\ Rings(q, m) => new \in Timed
<1>1. trantab[new].TONF.act # <<>> <=> new \in Timed
  BY TimedStates
<1>2. ASSUME NEW r, Sound(r), NEW x, x = [r[m] EXCEPT !.state = new] \/ x = [r[m] EXCEPT !.state = new, !.cnt = 0]
      PROVE  LET q == [r EXCEPT ![m] = x]
             IN  /\ Sound(q) /\ Same(r, q) /\ q[m].state = new /\ q.alarms = r.alarms
                 /\ \A n \in Machines : n # m => q[n].state = r[n].state
                 /\ q.lcp.event = r.lcp.event /\ q.odd = r.odd /\ q.flags = r.flags
  <2> DEFINE q == [r EXCEPT ![m] = x]
  <2>1. r \in Works /\ r[m] \in MachineSet
    BY <1>2, HasMachine DEF Sound
  <2>2. x \in MachineSet /\ x.state = new /\ x.event = r[m].event
    <3> DEFINE y == r[m]
    <3>1. y \in MachineSet /\ (x = [y EXCEPT !.state = new] \/ x = [y EXCEPT !.state = new, !.cnt = 0])
      BY <1>2, <2>1
    <3> HIDE DEF y
    <3>2. x \in MachineSet /\ x.state = new /\ x.event = y.event
      <4>1. CASE x = [y EXCEPT !.state = new]
        BY <3>1, <4>1 DEF MachineSet
      <4>2. CASE x = [y EXCEPT !.state = new, !.cnt = 0]
        BY <3>1, <4>2 DEF MachineSet
      <4> QED BY <3>1, <4>1, <4>2
    <3> QED BY <3>2 DEF y
  <2>3. /\ q \in Works /\ Same(r, q) /\ q[m] = x /\ q.alarms = r.alarms
        /\ \A n \in Machines : n # m => q[n] = r[n]
        /\ q.odd = r.odd /\ q.flags = r.flags
    BY <2>1, <2>2 DEF Works, Machines, Same
  <2>4. q.lcp.event = r.lcp.event
    BY <2>2, <2>3 DEF Machines
  <2> HIDE DEF q
  <2> QED BY <1>2, <2>2, <2>3, <2>4 DEF Sound, q
<1>3. CASE new \in Timed
  <2> DEFINE x == [p[m] EXCEPT !.state = new]
             q == [p EXCEPT ![m] = x]
  <2>1. Leads(p, m, new) = q
    <3>1. trantab[new].TONF.act # <<>>
      BY <1>1, <1>3
    <3> QED BY <3>1, Zenon DEF Leads
  <2>2. /\ Sound(q) /\ Same(p, q) /\ q[m].state = new /\ q.alarms = p.alarms
        /\ \A n \in Machines : n # m => q[n].state = p[n].state
        /\ q.lcp.event = p.lcp.event /\ q.odd = p.odd /\ q.flags = p.flags
    BY <1>2
  <2> HIDE DEF q
  <2> QED BY <1>3, <2>1, <2>2
<1>4. CASE new \notin Timed
  <2> DEFINE r == Stop(p, m)
             x == [r[m] EXCEPT !.state = new, !.cnt = 0]
             q == [r EXCEPT ![m] = x]
  <2>1. Leads(p, m, new) = q
    BY <1>1, <1>4 DEF Leads
  <2>2. Kept(p, r, m) /\ ToSet(r.alarms) = ToSet(p.alarms) \ {<<p.me, m>>} /\ r.flags = p.flags
    <3>1. r.flags = p.flags
      BY DEF Stop, Sound, Works
    <3> QED BY <3>1, StopSound
  <2> HIDE DEF r
  <2>3. /\ Sound(q) /\ Same(r, q) /\ q[m].state = new /\ q.alarms = r.alarms
        /\ \A n \in Machines : n # m => q[n].state = r[n].state
        /\ q.lcp.event = r.lcp.event /\ q.odd = r.odd /\ q.flags = r.flags
    BY <1>2, <2>2 DEF Kept
  <2> HIDE DEF q
  <2>4. Same(p, q) /\ ~Rings(q, m) /\ ToSet(q.alarms) \subseteq ToSet(p.alarms)
    BY <2>2, <2>3 DEF Kept, Same, Rings
  <2> QED BY <2>1, <2>2, <2>3, <2>4 DEF Kept, Machines
<1> QED BY <1>3, <1>4

\* The actions one after the other.
Begins(p, m, ev) == [p EXCEPT ![m].event = "NONE", !.odd = @ \/ Entry(p, m, ev).empty]
LcpDone(q, ev, act, i)  == IF i \in DOMAIN act THEN LcpDoes(q, ev, act[i]) ELSE q
IpcpDone(q, ev, act, i) == IF i \in DOMAIN act THEN IpcpDoes(q, ev, act[i]) ELSE q

LEMMA BeginsSound ==
    ASSUME NEW p, Sound(p), NEW m \in Machines, NEW ev \in Events
    PROVE  LET q == Begins(p, m, ev)
           IN  /\ Sound(q) /\ Same(p, q) /\ q.alarms = p.alarms /\ q.flags = p.flags
               /\ q.lcp.state = p.lcp.state /\ q.ipcp.state = p.ipcp.state
               /\ q.lcp.event = IF m = "lcp" THEN "NONE" ELSE p.lcp.event
               /\ q.odd = (p.odd \/ Entry(p, m, ev).empty)
<1> DEFINE b == p.odd \/ Entry(p, m, ev).empty
           x == [p[m] EXCEPT !.event = "NONE"]
           q == [p EXCEPT ![m] = x, !.odd = b]
<1>1. Begins(p, m, ev) = q
  BY DEF Begins
<1>2. b \in BOOLEAN
  BY EntryOf DEF Sound, Works
<1>3. p \in Works /\ p[m] \in MachineSet
  BY HasMachine DEF Sound
<1>4. x \in MachineSet /\ x.state = p[m].state /\ x.event = "NONE"
  BY <1>3 DEF MachineSet
<1> HIDE DEF b, x
<1>5. CASE m = "lcp"
  <2>1. /\ q \in Works /\ Same(p, q) /\ q.alarms = p.alarms /\ q.flags = p.flags
        /\ q.lcp = x /\ q.ipcp = p.ipcp /\ q.odd = b
    BY <1>2, <1>3, <1>4, <1>5 DEF Works, Same
  <2> HIDE DEF q
  <2> QED BY <2>1, <1>1, <1>4, <1>5 DEF Sound, b
<1>6. CASE m = "ipcp"
  <2>1. /\ q \in Works /\ Same(p, q) /\ q.alarms = p.alarms /\ q.flags = p.flags
        /\ q.ipcp = x /\ q.lcp = p.lcp /\ q.odd = b
    BY <1>2, <1>3, <1>4, <1>6 DEF Works, Same
  <2> HIDE DEF q
  <2> QED BY <2>1, <1>1, <1>4, <1>6 DEF Sound, b
<1> QED BY <1>5, <1>6 DEF Machines

LEMMA LeadsEach ==
    ASSUME NEW p, Sound(p), NEW new \in States
    PROVE  /\ LET q == Leads(p, "lcp", new)
              IN  /\ Sound(q) /\ Same(p, q) /\ q.lcp.state = new /\ q.ipcp.state = p.ipcp.state
                  /\ q.lcp.event = p.lcp.event /\ q.odd = p.odd /\ q.flags = p.flags
                  /\ ToSet(q.alarms) \subseteq ToSet(p.alarms)
                  /\ Rings(q, "lcp") => new \in Timed
           /\ LET q == Leads(p, "ipcp", new)
              IN  /\ Sound(q) /\ Same(p, q) /\ q.ipcp.state = new /\ q.lcp.state = p.lcp.state
                  /\ q.lcp.event = p.lcp.event /\ q.odd = p.odd /\ q.flags = p.flags
                  /\ ToSet(q.alarms) \subseteq ToSet(p.alarms)
                  /\ Rings(q, "ipcp") => new \in Timed
<1>1. "ipcp" \in Machines /\ "lcp" \in Machines /\ "lcp" # "ipcp"
  BY DEF Machines
<1>2. ASSUME NEW m \in Machines
      PROVE  LET q == Leads(p, m, new)
             IN  /\ Sound(q) /\ Same(p, q) /\ q[m].state = new
                 /\ \A n \in Machines : n # m => q[n].state = p[n].state
                 /\ q.lcp.event = p.lcp.event /\ q.odd = p.odd /\ q.flags = p.flags
                 /\ ToSet(q.alarms) \subseteq ToSet(p.alarms)
                 /\ Rings(q, m) => new \in Timed
  BY LeadsSound
<1> QED BY <1>1, <1>2

LEMMA LcpActs ==
    ASSUME NEW p, NEW ev
    PROVE  LET act == Entry(p, "lcp", ev).act
               q   == Begins(p, "lcp", ev)
           IN  Acts(p, "lcp", ev, lcp_up_down) =
                 LcpDone(LcpDone(LcpDone(q, ev, act, 1), ev, act, 2), ev, act, 3)
<1> DEFINE act   == Entry(p, "lcp", ev).act
           q0    == Begins(p, "lcp", ev)
           D1(q) == Nth(q, "lcp", ev, act, 1, lcp_up_down)
           D2(q) == Nth(q, "lcp", ev, act, 2, lcp_up_down)
           D3(q) == Nth(q, "lcp", ev, act, 3, lcp_up_down)
           F2(q) == With(D2(q), LAMBDA t : D3(t))
           F1(q) == With(D1(q), LAMBDA r : F2(r))
<1>1. Acts(p, "lcp", ev, lcp_up_down) = With(q0, LAMBDA q : F1(q))
  BY DEF Acts, Begins, Entry
<1>2. /\ \A q : D1(q) = LcpDone(q, ev, act, 1)
      /\ \A q : D2(q) = LcpDone(q, ev, act, 2)
      /\ \A q : D3(q) = LcpDone(q, ev, act, 3)
  BY DEF Nth, LcpDone, LcpDoes
<1> HIDE DEF D1, D2, D3, q0, act
<1>3. \A q : F2(q) = D3(D2(q))
  BY DEF With
<1> HIDE DEF F2
<1>4. \A q : F1(q) = F2(D1(q))
  BY DEF With
<1> HIDE DEF F1
<1>5. With(q0, LAMBDA q : F1(q)) = F1(q0)
  BY DEF With
<1>6. With(q0, LAMBDA q : F1(q)) = D3(D2(D1(q0)))
  BY <1>3, <1>4, <1>5
<1>7. D3(D2(D1(q0))) = LcpDone(LcpDone(LcpDone(q0, ev, act, 1), ev, act, 2), ev, act, 3)
  BY <1>2, Zenon
<1> QED BY <1>1, <1>6, <1>7, Zenon DEF q0, act

LEMMA IpcpActs ==
    ASSUME NEW p, NEW ev
    PROVE  LET act == Entry(p, "ipcp", ev).act
               q   == Begins(p, "ipcp", ev)
           IN  Acts(p, "ipcp", ev, ipcp_up_down) =
                 IpcpDone(IpcpDone(IpcpDone(q, ev, act, 1), ev, act, 2), ev, act, 3)
<1> DEFINE act   == Entry(p, "ipcp", ev).act
           q0    == Begins(p, "ipcp", ev)
           D1(q) == Nth(q, "ipcp", ev, act, 1, ipcp_up_down)
           D2(q) == Nth(q, "ipcp", ev, act, 2, ipcp_up_down)
           D3(q) == Nth(q, "ipcp", ev, act, 3, ipcp_up_down)
           F2(q) == With(D2(q), LAMBDA t : D3(t))
           F1(q) == With(D1(q), LAMBDA r : F2(r))
<1>1. Acts(p, "ipcp", ev, ipcp_up_down) = With(q0, LAMBDA q : F1(q))
  BY DEF Acts, Begins, Entry
<1>2. /\ \A q : D1(q) = IpcpDone(q, ev, act, 1)
      /\ \A q : D2(q) = IpcpDone(q, ev, act, 2)
      /\ \A q : D3(q) = IpcpDone(q, ev, act, 3)
  BY DEF Nth, IpcpDone, IpcpDoes
<1> HIDE DEF D1, D2, D3, q0, act
<1>3. \A q : F2(q) = D3(D2(q))
  BY DEF With
<1> HIDE DEF F2
<1>4. \A q : F1(q) = F2(D1(q))
  BY DEF With
<1> HIDE DEF F1
<1>5. With(q0, LAMBDA q : F1(q)) = F1(q0)
  BY DEF With
<1>6. With(q0, LAMBDA q : F1(q)) = D3(D2(D1(q0)))
  BY <1>3, <1>4, <1>5
<1>7. D3(D2(D1(q0))) = IpcpDone(IpcpDone(IpcpDone(q0, ev, act, 1), ev, act, 2), ev, act, 3)
  BY <1>2, Zenon
<1> QED BY <1>1, <1>6, <1>7, Zenon DEF q0, act

LEMMA EventsAre ==
    ASSUME NEW p, NEW ev
    PROVE  /\ lcp_event(p, ev) = Leads(Acts(p, "lcp", ev, lcp_up_down), "lcp", Entry(p, "lcp", ev).new)
           /\ ipcp_event(p, ev) = Leads(Acts(p, "ipcp", ev, ipcp_up_down), "ipcp", Entry(p, "ipcp", ev).new)
<1> DEFINE L(q) == Leads(q, "lcp", Entry(p, "lcp", ev).new)
           I(q) == Leads(q, "ipcp", Entry(p, "ipcp", ev).new)
           acts == Acts(p, "lcp", ev, lcp_up_down)
           does == Acts(p, "ipcp", ev, ipcp_up_down)
<1>1. /\ Takes(p, "lcp", ev, lcp_up_down) = With(acts, LAMBDA q : L(q))
      /\ Takes(p, "ipcp", ev, ipcp_up_down) = With(does, LAMBDA q : I(q))
  BY DEF Takes, Entry
<1> HIDE DEF acts, does, L, I
<1>2. /\ With(acts, LAMBDA q : L(q)) = L(acts) /\ With(does, LAMBDA q : I(q)) = I(does)
  BY DEF With
<1> DEFINE TL(q) == Takes(q, "lcp", ev, lcp_up_down)
           TI(q) == Takes(q, "ipcp", ev, ipcp_up_down)
<1>3. /\ lcp_event(p, ev) = With(p, LAMBDA q : TL(q)) /\ ipcp_event(p, ev) = With(p, LAMBDA q : TI(q))
  BY DEF lcp_event, ipcp_event
<1>4. TL(p) = L(acts) /\ TI(p) = I(does)
  BY <1>1, <1>2
<1> HIDE DEF TL, TI
<1>5. With(p, LAMBDA q : TL(q)) = TL(p) /\ With(p, LAMBDA q : TI(q)) = TI(p)
  BY DEF With
<1> QED BY <1>3, <1>4, <1>5, Zenon DEF L, I, acts, does

\* IPCP's own event: LCP is not concerned.
LEMMA IpcpDeedSound ==
    ASSUME NEW p, Sound(p), NEW ev \in Events, NEW a \in Plain \cup {tls, tlf, tlu, tld}
    PROVE  Kept(p, IpcpDoes(p, ev, a), "ipcp")
<1>1. CASE a \in Plain
  <2>1. "ipcp" \in Machines /\ "ipcp" # "lcp"
    BY DEF Machines
  <2> QED BY <1>1, <2>1, DeedsSound
<1>2. CASE a \in {tls, tlf}
  BY <1>2, IpcpDeeds, KeptFirst
<1>3. ASSUME NEW up \in BOOLEAN PROVE Kept(p, ipcp_up_down(p, up), "ipcp")
  <2> DEFINE opts == IF up THEN p["ipcp"].conf ELSE {}
             f    == p.flags \cup {"DONE"}
             q    == [p EXCEPT !["ipcp"].conf = opts]
  <2>1. "ipcp" \in Machines /\ p["ipcp"] \in MachineSet /\ p.flags \in SUBSET Flags
    BY HasMachine DEF Machines, Sound, Works
  <2>2. opts \in SUBSET Options
    BY <2>1 DEF MachineSet
  <2>3. ipcp_up_down(p, up) = [p EXCEPT !["ipcp"].conf = opts, !.flags = f]
    BY DEF ipcp_up_down, Sound, Works
  <2> HIDE DEF opts
  <2>4. Kept(p, q, "ipcp") /\ q.flags = p.flags
    BY <2>1, <2>2, ConfSound
  <2>5. f \in SUBSET Flags /\ ("DCD_UP" \in f <=> Waiting(q))
    BY <2>1, <2>4 DEF Flags, Waiting
  <2>6. [p EXCEPT !["ipcp"].conf = opts, !.flags = f] = [q EXCEPT !.flags = f]
    OBVIOUS
  <2> HIDE DEF q, f
  <2>7. Kept(q, [q EXCEPT !.flags = f], "ipcp")
    BY <2>1, <2>4, <2>5, FlagsSound DEF Kept
  <2>8. Kept(p, [q EXCEPT !.flags = f], "ipcp")
    BY <2>4, <2>7, KeptAlong
  <2> QED BY <2>3, <2>6, <2>8, Zenon
<1>4. CASE a = tlu
  BY <1>3, <1>4, IpcpDeeds
<1>5. CASE a = tld
  BY <1>3, <1>5, IpcpDeeds
<1> QED BY <1>1, <1>2, <1>4, <1>5

LEMMA IpcpEvent ==
    ASSUME NEW p, Sound(p), NEW ev \in Events
    PROVE  LET q == ipcp_event(p, ev)
               e == Entry(p, "ipcp", ev)
           IN  /\ Sound(q) /\ Same(p, q) /\ Rung(p, q, {"ipcp"})
               /\ q.lcp.state = p.lcp.state /\ q.lcp.event = p.lcp.event
               /\ q.ipcp.state = e.new /\ q.odd = (p.odd \/ e.empty)
               /\ Waiting(q) <=> Waiting(p)
               /\ Rings(q, "ipcp") => q.ipcp.state \in Timed
<1> DEFINE e   == Entry(p, "ipcp", ev)
           act == e.act
           q0  == Begins(p, "ipcp", ev)
           q1  == IpcpDone(q0, ev, act, 1)
           q2  == IpcpDone(q1, ev, act, 2)
           q3  == IpcpDone(q2, ev, act, 3)
           q   == Leads(q3, "ipcp", e.new)
<1>1. "ipcp" \in Machines /\ "lcp" \in Machines
  BY DEF Machines
<1>2. q = ipcp_event(p, ev)
  BY EventsAre, IpcpActs, Zenon
<1>3. e.new \in States /\ \A i \in DOMAIN act : act[i] \in Plain \cup {tls, tlf, tlu, tld}
  <2>1. Kinds(p["ipcp"].state, ev, e)
    BY <1>1, EntryOf
  <2> HIDE DEF e
  <2> QED BY <2>1 DEF Kinds, OnlyPlain, GoesUp, GoesDown, Starts, Ends
<1>4. /\ Sound(q0) /\ Same(p, q0) /\ q0.alarms = p.alarms /\ q0.flags = p.flags
      /\ q0.lcp.state = p.lcp.state /\ q0.ipcp.state = p.ipcp.state
      /\ q0.lcp.event = p.lcp.event /\ q0.odd = (p.odd \/ e.empty)
  BY <1>1, BeginsSound
<1> HIDE DEF e, act, q0
<1>5. ASSUME NEW r, Sound(r), NEW i PROVE Kept(r, IpcpDone(r, ev, act, i), "ipcp")
  BY <1>3, <1>5, IpcpDeedSound, KeptFirst DEF IpcpDone
<1>6. Kept(q0, q1, "ipcp")
  BY <1>4, <1>5
<1> HIDE DEF q1
<1>7. Kept(q1, q2, "ipcp")
  BY <1>5, <1>6 DEF Kept
<1> HIDE DEF q2
<1>8. Kept(q2, q3, "ipcp")
  BY <1>5, <1>7 DEF Kept
<1> HIDE DEF q3
<1>9. Kept(q0, q3, "ipcp")
  BY <1>6, <1>7, <1>8, KeptAlong
<1>10. /\ Sound(q) /\ Same(q3, q) /\ q.ipcp.state = e.new /\ q.lcp.state = q3.lcp.state
       /\ q.lcp.event = q3.lcp.event /\ q.odd = q3.odd /\ q.flags = q3.flags
       /\ ToSet(q.alarms) \subseteq ToSet(q3.alarms)
       /\ Rings(q, "ipcp") => e.new \in Timed
  BY <1>3, <1>9, LeadsEach DEF Kept
<1> HIDE DEF q
<1>11. Same(p, q) /\ Rung(p, q, {"ipcp"})
  BY <1>4, <1>9, <1>10 DEF Kept, Same, Rung
<1>12. Waiting(q) <=> Waiting(p)
  BY <1>4, <1>9, <1>10 DEF Kept, Waiting
<1> QED BY <1>2, <1>4, <1>9, <1>10, <1>11, <1>12 DEF Kept, e

(***************************************************************************)
(* LCP's event: IPCP and the line may be concerned                         *)
(***************************************************************************)
LEMMA LowerSound ==
    ASSUME NEW p, Sound(p), NEW up \in BOOLEAN
    PROVE  LET q == Lower(p, up)
           IN  /\ Sound(q) /\ Same(p, q) /\ q.alarms = p.alarms /\ q.odd = p.odd
               /\ q.lcp.state = p.lcp.state /\ q.ipcp.state = p.ipcp.state
               /\ up /\ p.carrier => q.lcp.event = "LAYUP" /\ (Waiting(q) <=> Waiting(p))
               /\ up /\ ~p.carrier => q.lcp.event = p.lcp.event /\ Waiting(q)
               /\ ~up => q.lcp.event = "LAYDOWN" /\ (Waiting(q) <=> Waiting(p))
<1> DEFINE q == Lower(p, up)
<1>1. p \in Works /\ p.lcp \in MachineSet /\ p.flags \in SUBSET Flags /\ p.carrier \in BOOLEAN
  BY DEF Sound, Works
<1>2. ASSUME NEW x \in {"LAYUP", "LAYDOWN"}
      PROVE  LET y == [p.lcp EXCEPT !.event = x]
             IN  y \in MachineSet /\ y.state = p.lcp.state /\ y.event = x
  BY <1>1 DEF MachineSet
<1>3. CASE up /\ p.carrier
  <2> DEFINE y == [p.lcp EXCEPT !.event = "LAYUP"]
             r == [p EXCEPT !.lcp = y]
  <2>1. y \in MachineSet /\ y.state = p.lcp.state /\ y.event = "LAYUP"
    BY <1>2
  <2>2. q = r
    BY <1>3 DEF Lower
  <2> HIDE DEF y
  <2>3. r \in Works /\ Same(p, r) /\ r.alarms = p.alarms /\ r.odd = p.odd /\ r.flags = p.flags
        /\ r.lcp = y /\ r.ipcp = p.ipcp
    BY <1>1, <2>1 DEF Works, Same
  <2> HIDE DEF r, q
  <2> QED BY <1>3, <2>1, <2>2, <2>3 DEF Sound, Waiting, q
<1>4. CASE up /\ ~p.carrier
  <2> DEFINE f == p.flags \cup {"DCD_UP"}
             r == [p EXCEPT !.flags = f]
  <2>1. f \in SUBSET Flags /\ "DCD_UP" \in f
    BY <1>1 DEF Flags
  <2>2. q = r
    BY <1>4 DEF Lower
  <2> HIDE DEF f
  <2>3. r \in Works /\ Same(p, r) /\ r.alarms = p.alarms /\ r.odd = p.odd /\ r.flags = f
        /\ r.lcp = p.lcp /\ r.ipcp = p.ipcp
    BY <1>1, <2>1 DEF Works, Same
  <2> HIDE DEF r, q
  <2> QED BY <1>4, <2>1, <2>2, <2>3 DEF Sound, Waiting, q
<1>5. CASE ~up
  <2> DEFINE y == [p.lcp EXCEPT !.event = "LAYDOWN"]
             f == p.flags \ {"DCD_DOWN"}
             g == f \cup {"DTR_DOWN"}
             h == f \cup {"DONE"}
             r == [p EXCEPT !.lcp = y, !.flags = g, !.dtr = FALSE]
             t == [p EXCEPT !.lcp = y, !.flags = h]
  <2>1. y \in MachineSet /\ y.state = p.lcp.state /\ y.event = "LAYDOWN"
    BY <1>2
  <2>2. /\ g \in SUBSET Flags /\ ("DCD_UP" \in g <=> Waiting(p))
        /\ h \in SUBSET Flags /\ ("DCD_UP" \in h <=> Waiting(p))
    BY <1>1 DEF Flags, Waiting
  <2>3. q = r \/ q = t
    <3> DEFINE b == [p EXCEPT !.lcp.event = "LAYDOWN", !.flags = @ \ {"DCD_DOWN"}]
    <3>1. b = [p EXCEPT !.lcp = y, !.flags = f]
      BY <1>1 DEF Works
    <3>2. q = IF p.plan.modem THEN [b EXCEPT !.dtr = FALSE, !.flags = @ \cup {"DTR_DOWN"}]
              ELSE [b EXCEPT !.flags = @ \cup {"DONE"}]
      BY <1>5, Zenon DEF Lower
    <3> HIDE DEF b, y, f
    <3>3. [b EXCEPT !.dtr = FALSE, !.flags = @ \cup {"DTR_DOWN"}] = r
      BY <1>1, <3>1 DEF Works
    <3>4. [b EXCEPT !.flags = @ \cup {"DONE"}] = t
      BY <1>1, <3>1 DEF Works
    <3> QED BY <3>2, <3>3, <3>4, Zenon
  <2> HIDE DEF y, g, h
  <2>4. /\ r \in Works /\ Same(p, r) /\ r.alarms = p.alarms /\ r.odd = p.odd /\ r.flags = g
        /\ r.lcp = y /\ r.ipcp = p.ipcp
    BY <1>1, <2>1, <2>2 DEF Works, Same
  <2>5. /\ t \in Works /\ Same(p, t) /\ t.alarms = p.alarms /\ t.odd = p.odd /\ t.flags = h
        /\ t.lcp = y /\ t.ipcp = p.ipcp
    BY <1>1, <2>1, <2>2 DEF Works, Same
  <2> HIDE DEF r, t, q
  <2> QED BY <1>5, <2>1, <2>2, <2>3, <2>4, <2>5 DEF Sound, Waiting, q
<1> QED BY <1>3, <1>4, <1>5, <1>1

LEMMA AwakeSound ==
    ASSUME NEW p, Sound(p)
    PROVE  LET q == Awake(p)
           IN  /\ Sound(q) /\ Same(p, q) /\ q.alarms = p.alarms /\ q.odd = p.odd
               /\ q.lcp = p.lcp /\ q.ipcp = p.ipcp /\ ~Waiting(q)
               /\ q.flags = p.flags \ {"DCD_UP"}
<1> DEFINE f == p.flags \ {"DCD_UP"}
           q == [p EXCEPT !.flags = f]
<1>1. Awake(p) = q
  BY DEF Awake
<1>2. f \in SUBSET Flags /\ "DCD_UP" \notin f
  BY DEF Sound, Works
<1> HIDE DEF f
<1>3. /\ q \in Works /\ Same(p, q) /\ q.alarms = p.alarms /\ q.odd = p.odd
      /\ q.lcp = p.lcp /\ q.ipcp = p.ipcp /\ q.flags = f
  BY <1>2 DEF Sound, Works, Same
<1> HIDE DEF q
<1> QED BY <1>1, <1>2, <1>3 DEF Sound, Waiting, f

\* IPCP is told of the link.
Told(p, r, ev) ==
    /\ Sound(r) /\ Same(p, r) /\ Rung(p, r, {"ipcp"})
    /\ r.lcp.state = p.lcp.state /\ r.lcp.event = p.lcp.event
    /\ r.ipcp.state = Entry(p, "ipcp", ev).new
    /\ r.odd = (p.odd \/ Entry(p, "ipcp", ev).empty)
    /\ ~Waiting(r)
    /\ Rings(r, "ipcp") => r.ipcp.state \in Timed

LEMMA UpDownSound ==
    ASSUME NEW p, Sound(p)
    PROVE  Told(p, lcp_up_down(p, TRUE), "LAYUP") /\ Told(p, lcp_up_down(p, FALSE), "LAYDOWN")
<1> DEFINE a == Awake(p)
           b == [a EXCEPT !["lcp"].conf = {}]
<1>1. /\ Sound(a) /\ Same(p, a) /\ a.alarms = p.alarms /\ a.odd = p.odd
      /\ a.lcp = p.lcp /\ a.ipcp = p.ipcp /\ ~Waiting(a)
  BY AwakeSound
<1>2. /\ lcp_up_down(p, TRUE) = ipcp_event(a, "LAYUP")
      /\ lcp_up_down(p, FALSE) = ipcp_event(b, "LAYDOWN")
  BY DEF lcp_up_down
<1> HIDE DEF a
<1>3. Kept(a, b, "lcp") /\ b.alarms = a.alarms /\ b.flags = a.flags
  <2>1. "lcp" \in Machines /\ {} \in SUBSET Options
    BY DEF Machines
  <2> QED BY <1>1, <2>1, ConfSound
<1> HIDE DEF b
<1>4. "LAYUP" \in Events /\ "LAYDOWN" \in Events
  BY DEF Events
<1>5. ASSUME NEW ev \in Events, NEW s, Sound(s), Same(p, s), s.alarms = p.alarms, s.odd = p.odd,
             s.lcp.state = p.lcp.state, s.lcp.event = p.lcp.event, s.ipcp.state = p.ipcp.state,
             ~Waiting(s)
      PROVE  Told(p, ipcp_event(s, ev), ev)
  <2> DEFINE r == ipcp_event(s, ev)
  <2>1. Entry(s, "ipcp", ev) = Entry(p, "ipcp", ev)
    BY <1>5 DEF Entry
  <2>2. /\ Sound(r) /\ Same(s, r) /\ Rung(s, r, {"ipcp"})
        /\ r.lcp.state = s.lcp.state /\ r.lcp.event = s.lcp.event
        /\ r.ipcp.state = Entry(s, "ipcp", ev).new /\ r.odd = (s.odd \/ Entry(s, "ipcp", ev).empty)
        /\ Waiting(r) <=> Waiting(s)
        /\ Rings(r, "ipcp") => r.ipcp.state \in Timed
    BY <1>5, IpcpEvent
  <2> HIDE DEF r
  <2>3. Same(p, r) /\ Rung(p, r, {"ipcp"})
    BY <1>5, <2>2 DEF Same, Rung
  <2> QED BY <1>5, <2>1, <2>2, <2>3 DEF Told, r
<1>6. Told(p, ipcp_event(a, "LAYUP"), "LAYUP")
  BY <1>1, <1>4, <1>5
<1>7. Told(p, ipcp_event(b, "LAYDOWN"), "LAYDOWN")
  <2>1. Sound(b) /\ Same(p, b) /\ b.alarms = p.alarms /\ b.odd = p.odd /\ ~Waiting(b)
        /\ b.lcp.state = p.lcp.state /\ b.lcp.event = p.lcp.event /\ b.ipcp.state = p.ipcp.state
    BY <1>1, <1>3 DEF Kept, Same, Waiting
  <2> QED BY <2>1, <1>4, <1>5
<1> QED BY <1>2, <1>6, <1>7

\* What the actions of LCP's event ev make of p, for each kind of entry.
Result(p, ev, r) ==
    LET e == Entry(p, "lcp", ev)
        Above(layer) == /\ r.ipcp.state = Entry(p, "ipcp", layer).new
                        /\ r.odd = ((p.odd \/ e.empty) \/ Entry(p, "ipcp", layer).empty)
                        /\ r.lcp.event = "NONE" /\ ~Waiting(r)
        Alone == r.ipcp.state = p.ipcp.state /\ r.odd = (p.odd \/ e.empty)
    IN  /\ Sound(r) /\ Same(p, r) /\ Rung(p, r, Machines)
        /\ Rings(r, "ipcp") => \/ r.ipcp.state \in Timed
                               \/ Rings(p, "ipcp") /\ r.ipcp.state = p.ipcp.state
        /\ \/ OnlyPlain(e.act) /\ Alone /\ r.lcp.event = "NONE" /\ (Waiting(r) <=> Waiting(p))
           \/ /\ Starts(e.act) /\ Alone
              /\ p.carrier => r.lcp.event = "LAYUP" /\ (Waiting(r) <=> Waiting(p))
              /\ ~p.carrier => r.lcp.event = "NONE" /\ Waiting(r)
           \/ Ends(e.act) /\ Alone /\ r.lcp.event = "LAYDOWN" /\ (Waiting(r) <=> Waiting(p))
           \/ GoesUp(e.act) /\ Above("LAYUP")
           \/ GoesDown(e.act) /\ Above("LAYDOWN")

LEMMA LcpResult ==
    ASSUME NEW p, Sound(p), NEW ev \in Events
    PROVE  LET r == Acts(p, "lcp", ev, lcp_up_down)
           IN  Result(p, ev, r) /\ r.lcp.state = p.lcp.state
<1> DEFINE e   == Entry(p, "lcp", ev)
           act == e.act
           q0  == Begins(p, "lcp", ev)
           q1  == LcpDone(q0, ev, act, 1)
           q2  == LcpDone(q1, ev, act, 2)
           q3  == LcpDone(q2, ev, act, 3)
<1>1. "ipcp" \in Machines /\ "lcp" \in Machines /\ Machines = {"lcp", "ipcp"}
  BY DEF Machines
<1>2. Acts(p, "lcp", ev, lcp_up_down) = q3
  BY LcpActs, Zenon
<1>3. OnlyPlain(act) \/ Starts(act) \/ Ends(act) \/ GoesUp(act) \/ GoesDown(act)
  <2>1. Kinds(p["lcp"].state, ev, e)
    BY <1>1, EntryOf
  <2> HIDE DEF e
  <2> QED BY <2>1 DEF Kinds
<1>4. /\ Sound(q0) /\ Same(p, q0) /\ q0.alarms = p.alarms /\ q0.flags = p.flags
      /\ q0.lcp.state = p.lcp.state /\ q0.ipcp.state = p.ipcp.state
      /\ q0.lcp.event = "NONE" /\ q0.odd = (p.odd \/ e.empty)
  BY <1>1, BeginsSound
<1> SUFFICES Result(p, ev, q3) /\ q3.lcp.state = p.lcp.state
  BY <1>2
<1> HIDE DEF q0, q1, q2, q3, act
<1>5. ASSUME NEW r, Sound(r), NEW i, i \in DOMAIN act => act[i] \in Plain
      PROVE  Kept(r, LcpDone(r, ev, act, i), "lcp")
  <2>1. CASE i \in DOMAIN act
    <3>1. Kept(r, LcpDoes(r, ev, act[i]), "lcp")
      BY <1>1, <1>5, <2>1, DeedsSound
    <3> QED BY <2>1, <3>1 DEF LcpDone
  <2>2. CASE i \notin DOMAIN act
    BY <1>5, <2>2, KeptFirst DEF LcpDone
  <2> QED BY <2>1, <2>2
\* All three are plain, or the first or the second is the layers'.
<1>6. ASSUME NEW a, NEW b, NEW c, Kept(a, b, "lcp"), Kept(b, c, "lcp")
      PROVE  Kept(a, c, "lcp")
  BY <1>6, KeptAlong
<1>7. CASE OnlyPlain(act)
  <2>1. \A i : i \in DOMAIN act => act[i] \in Plain
    BY <1>7 DEF OnlyPlain
  <2>2. Kept(q0, q1, "lcp")
    BY <1>4, <1>5, <2>1 DEF q1
  <2>3. Kept(q1, q2, "lcp")
    BY <1>5, <2>1, <2>2 DEF q2, Kept
  <2>4. Kept(q2, q3, "lcp")
    BY <1>5, <2>1, <2>3 DEF q3, Kept
  <2>5. Kept(q0, q3, "lcp")
    BY <1>6, <2>2, <2>3, <2>4
  <2>6. Same(p, q3) /\ Rung(p, q3, Machines) /\ (Rings(q3, "ipcp") => Rings(p, "ipcp"))
    BY <1>1, <1>4, <2>5 DEF Kept, Same, Rung, Rings
  <2> QED BY <1>4, <1>7, <2>5, <2>6 DEF Result, Kept, Waiting, act
<1>8. CASE Starts(act) \/ Ends(act)
  <2>1. 1 \in DOMAIN act /\ 2 \notin DOMAIN act /\ 3 \notin DOMAIN act
        /\ (act[1] = tls \/ act[1] = tlf) /\ (Starts(act) => act[1] = tls) /\ (Ends(act) => act[1] = tlf)
    BY <1>8 DEF Starts, Ends
  <2>2. q1 = LcpDoes(q0, ev, act[1]) /\ q2 = q1 /\ q3 = q2
    BY <2>1 DEF q1, q2, q3, LcpDone
  <2>3. ASSUME NEW up \in BOOLEAN, q3 = Lower(q0, up)
        PROVE  /\ Sound(q3) /\ Same(p, q3) /\ q3.alarms = p.alarms /\ q3.odd = q0.odd
               /\ q3.lcp.state = p.lcp.state /\ q3.ipcp.state = p.ipcp.state
               /\ up /\ p.carrier => q3.lcp.event = "LAYUP" /\ (Waiting(q3) <=> Waiting(p))
               /\ up /\ ~p.carrier => q3.lcp.event = "NONE" /\ Waiting(q3)
               /\ ~up => q3.lcp.event = "LAYDOWN" /\ (Waiting(q3) <=> Waiting(p))
    <3>1. /\ Sound(q3) /\ Same(q0, q3) /\ q3.alarms = q0.alarms /\ q3.odd = q0.odd
          /\ q3.lcp.state = q0.lcp.state /\ q3.ipcp.state = q0.ipcp.state
          /\ up /\ q0.carrier => q3.lcp.event = "LAYUP" /\ (Waiting(q3) <=> Waiting(q0))
          /\ up /\ ~q0.carrier => q3.lcp.event = q0.lcp.event /\ Waiting(q3)
          /\ ~up => q3.lcp.event = "LAYDOWN" /\ (Waiting(q3) <=> Waiting(q0))
      BY <1>4, <2>3, LowerSound
    <3>2. (Waiting(q0) <=> Waiting(p)) /\ q0.carrier = p.carrier /\ Same(p, q3)
      BY <1>4, <3>1 DEF Waiting, Same
    <3> QED BY <1>4, <3>1, <3>2
  <2>4. q3.alarms = p.alarms /\ q3.ipcp.state = p.ipcp.state /\ Same(p, q3)
        => Rung(p, q3, Machines) /\ (Rings(q3, "ipcp") => Rings(p, "ipcp"))
    BY DEF Rung, Rings, Same
  <2>5. CASE Starts(act)
    <3>1. q3 = Lower(q0, TRUE)
      BY <2>1, <2>2, <2>5, LcpDeeds
    <3> QED BY <1>4, <2>3, <2>4, <2>5, <3>1 DEF Result, act
  <2>6. CASE Ends(act)
    <3>1. q3 = Lower(q0, FALSE)
      BY <2>1, <2>2, <2>6, LcpDeeds
    <3> QED BY <1>4, <2>3, <2>4, <2>6, <3>1 DEF Result, act
  <2> QED BY <1>8, <2>5, <2>6
<1>9. CASE GoesUp(act)
  <2>1. 1 \in DOMAIN act /\ 2 \in DOMAIN act /\ 3 \notin DOMAIN act /\ act[1] \in Plain /\ act[2] = tlu
    BY <1>9 DEF GoesUp
  <2>2. Kept(q0, q1, "lcp")
    BY <1>4, <1>5, <2>1 DEF q1
  <2>3. q3 = lcp_up_down(q1, TRUE)
    BY <2>1, LcpDeeds DEF q2, q3, LcpDone
  <2>4. Told(q1, q3, "LAYUP")
    BY <2>2, <2>3, UpDownSound DEF Kept
  <2>5. Entry(q1, "ipcp", "LAYUP") = Entry(p, "ipcp", "LAYUP")
    BY <1>4, <2>2 DEF Kept, Entry
  <2>6. Same(p, q3) /\ Rung(p, q3, Machines)
    BY <1>1, <1>4, <2>2, <2>4 DEF Kept, Told, Same, Rung
  <2> QED BY <1>4, <1>9, <2>2, <2>4, <2>5, <2>6 DEF Result, Kept, Told, act
<1>10. CASE GoesDown(act)
  <2>1. 1 \in DOMAIN act /\ act[1] = tld /\ \A i : i # 1 /\ i \in DOMAIN act => act[i] \in Plain
    BY <1>10 DEF GoesDown
  <2>2. q1 = lcp_up_down(q0, FALSE)
    BY <2>1, LcpDeeds DEF q1, LcpDone
  <2>3. Told(q0, q1, "LAYDOWN")
    BY <1>4, <2>2, UpDownSound
  <2>4. Kept(q1, q2, "lcp")
    BY <1>5, <2>1, <2>3 DEF q2, Told
  <2>5. Kept(q2, q3, "lcp")
    BY <1>5, <2>1, <2>4 DEF q3, Kept
  <2>6. Kept(q1, q3, "lcp")
    BY <1>6, <2>4, <2>5
  <2>7. Entry(q0, "ipcp", "LAYDOWN") = Entry(p, "ipcp", "LAYDOWN")
    BY <1>4 DEF Entry
  <2>8. Same(p, q3) /\ Rung(p, q3, Machines) /\ (Rings(q3, "ipcp") => Rings(q1, "ipcp"))
    BY <1>1, <1>4, <2>3, <2>6 DEF Kept, Told, Same, Rung, Rings
  <2> QED BY <1>4, <1>10, <2>3, <2>6, <2>7, <2>8 DEF Result, Kept, Told, act
<1> QED BY <1>3, <1>7, <1>8, <1>9, <1>10

LEMMA LcpEvent ==
    ASSUME NEW p, Sound(p), NEW ev \in Events
    PROVE  LET q == lcp_event(p, ev)
           IN  /\ Result(p, ev, q) /\ q.lcp.state = Entry(p, "lcp", ev).new
               /\ Rings(q, "lcp") => q.lcp.state \in Timed
<1> DEFINE new == Entry(p, "lcp", ev).new
           r   == Acts(p, "lcp", ev, lcp_up_down)
           q   == Leads(r, "lcp", new)
<1>1. q = lcp_event(p, ev)
  BY EventsAre, Zenon
<1>2. new \in States
  <2>1. "lcp" \in Machines
    BY DEF Machines
  <2> QED BY <2>1, EntryOf
<1>3. Result(p, ev, r) /\ r.lcp.state = p.lcp.state /\ Sound(r)
  BY LcpResult DEF Result
<1> HIDE DEF r, new
<1>4. /\ Sound(q) /\ Same(r, q) /\ q.lcp.state = new /\ q.ipcp.state = r.ipcp.state
      /\ q.lcp.event = r.lcp.event /\ q.odd = r.odd /\ q.flags = r.flags
      /\ ToSet(q.alarms) \subseteq ToSet(r.alarms)
      /\ Rings(q, "lcp") => new \in Timed
  BY <1>2, <1>3, LeadsEach
<1> HIDE DEF q
<1>5. Same(p, q) /\ Rung(p, q, Machines) /\ (Rings(q, "ipcp") => Rings(r, "ipcp"))
      /\ (Waiting(q) <=> Waiting(r))
  BY <1>3, <1>4 DEF Result, Same, Rung, Rings, Waiting
<1>6. Result(p, ev, q)
  BY <1>3, <1>4, <1>5 DEF Result
<1> QED BY <1>1, <1>4, <1>6 DEF new

\* What Kinds says of the entry, and Result of the host, together.
Outcome(p, ev, q) ==
    LET e  == Entry(p, "lcp", ev)
        st == p.lcp.state
        Above(layer) == /\ q.ipcp.state = Entry(p, "ipcp", layer).new
                        /\ q.odd = ((p.odd \/ e.empty) \/ Entry(p, "ipcp", layer).empty)
                        /\ q.lcp.event = "NONE" /\ ~Waiting(q)
        Alone == q.ipcp.state = p.ipcp.state /\ q.odd = (p.odd \/ e.empty)
        Still == Waiting(q) <=> Waiting(p)
    IN  \/ /\ OnlyPlain(e.act) /\ Alone /\ Still /\ q.lcp.event = "NONE"
           /\ e.new = "OPENED" => st = "OPENED"
           /\ st = "OPENED" => e.new = "OPENED" \/ ev \in {"LAYUP", "TONF", "TOFATAL"}
        \/ /\ Starts(e.act) /\ Alone /\ e.new = "STARTING" /\ st # "OPENED" /\ ev # "LAYUP"
           /\ p.carrier => q.lcp.event = "LAYUP" /\ Still
           /\ ~p.carrier => q.lcp.event = "NONE" /\ Waiting(q)
        \/ /\ Ends(e.act) /\ Alone /\ Still /\ q.lcp.event = "LAYDOWN"
           /\ st # "OPENED" /\ e.new # "OPENED" /\ ev \notin {"LAYUP", "LAYDOWN"}
        \/ /\ GoesUp(e.act) /\ Above("LAYUP")
           /\ st # "OPENED" /\ e.new = "OPENED" /\ ev \notin {"LAYUP", "LAYDOWN"}
        \/ /\ GoesDown(e.act) /\ Above("LAYDOWN")
           /\ st = "OPENED" /\ e.new # "OPENED" /\ ev # "LAYUP"

LEMMA LcpOutcome ==
    ASSUME NEW p, Sound(p), NEW ev \in Events
    PROVE  LET q == lcp_event(p, ev)
           IN  /\ Sound(q) /\ Same(p, q) /\ Rung(p, q, Machines) /\ Outcome(p, ev, q)
               /\ q.lcp.state = Entry(p, "lcp", ev).new
               /\ Rings(q, "lcp") => q.lcp.state \in Timed
               /\ Rings(q, "ipcp") => \/ q.ipcp.state \in Timed
                                      \/ Rings(p, "ipcp") /\ q.ipcp.state = p.ipcp.state
<1> DEFINE e == Entry(p, "lcp", ev)
           q == lcp_event(p, ev)
<1>1. /\ Result(p, ev, q) /\ q.lcp.state = e.new
      /\ Rings(q, "lcp") => q.lcp.state \in Timed
  BY LcpEvent
<1>2. Kinds(p.lcp.state, ev, e)
  <2>1. "lcp" \in Machines
    BY DEF Machines
  <2> QED BY <2>1, EntryOf
<1> HIDE DEF q
<1>3. Outcome(p, ev, q)
  <2> DEFINE act == e.act
  <2>1. CASE OnlyPlain(act)
    <3>1. ~Starts(act) /\ ~Ends(act) /\ ~GoesUp(act) /\ ~GoesDown(act)
      BY <2>1, OneKind
    <3> QED BY <1>1, <1>2, <2>1, <3>1 DEF Outcome, Result, Kinds
  <2>2. CASE Starts(act)
    <3>1. ~OnlyPlain(act) /\ ~Ends(act) /\ ~GoesUp(act) /\ ~GoesDown(act)
      BY <2>2, OneKind
    <3> QED BY <1>1, <1>2, <2>2, <3>1 DEF Outcome, Result, Kinds
  <2>3. CASE Ends(act)
    <3>1. ~OnlyPlain(act) /\ ~Starts(act) /\ ~GoesUp(act) /\ ~GoesDown(act)
      BY <2>3, OneKind
    <3> QED BY <1>1, <1>2, <2>3, <3>1 DEF Outcome, Result, Kinds
  <2>4. CASE GoesUp(act)
    <3>1. ~OnlyPlain(act) /\ ~Starts(act) /\ ~Ends(act) /\ ~GoesDown(act)
      BY <2>4, OneKind
    <3> QED BY <1>1, <1>2, <2>4, <3>1 DEF Outcome, Result, Kinds
  <2>5. CASE GoesDown(act)
    <3>1. ~OnlyPlain(act) /\ ~Starts(act) /\ ~Ends(act) /\ ~GoesUp(act)
      BY <2>5, OneKind
    <3> QED BY <1>1, <1>2, <2>5, <3>1 DEF Outcome, Result, Kinds
  <2>6. OnlyPlain(act) \/ Starts(act) \/ Ends(act) \/ GoesUp(act) \/ GoesDown(act)
    BY <1>2 DEF Kinds
  <2> QED BY <2>1, <2>2, <2>3, <2>4, <2>5, <2>6
<1> QED BY <1>1, <1>3 DEF Result, q

(***************************************************************************)
(* A host that is on.  Steady holds after every single event, also while   *)
(* one that an action raised is still to be taken, and Good when the chain *)
(* of events is at its end.                                                *)
(***************************************************************************)
DueTimers(p) == \A m \in Machines : Rings(p, m) => p[m].state \in Timed
Fits(p, ev)  == p.lcp.state = "OPENED" => ev \notin {"LAYUP", "TONF", "TOFATAL"}
\* Without a modem, while an event that was raised is not taken yet.
Path(p) ==
    /\ p.carrier
    /\ \/ p.lcp.event = "NONE" /\ Straight(p)
       \/ /\ ~p.odd /\ p.ipcp.state = "STARTING"
          /\ \/ p.lcp.event = "LAYDOWN" /\ p.lcp.state = "STOPPED"
             \/ p.lcp.event = "LAYUP" /\ p.lcp.state = "STARTING"
Steady(p) ==
    /\ Sound(p) /\ Layered(p) /\ DueTimers(p)
    /\ p.lcp.event = "LAYUP" => p.lcp.state # "OPENED"
    /\ ~p.plan.modem => Path(p)

LEMMA StatesOf ==
    ASSUME NEW p, Sound(p)
    PROVE  /\ p.lcp.state \in States /\ p.ipcp.state \in States /\ p.odd \in BOOLEAN
           /\ p.lcp.event \in {"NONE", "LAYUP", "LAYDOWN"}
           /\ p.plan.modem \in BOOLEAN /\ p.carrier \in BOOLEAN
<1>1. p.lcp \in MachineSet /\ p.ipcp \in MachineSet /\ p.odd \in BOOLEAN /\ p.plan \in PlanSet
      /\ p.carrier \in BOOLEAN
  BY DEF Sound, Works
<1> QED BY <1>1 DEF MachineSet, PlanSet

LEMMA TimersStayDue ==
    ASSUME NEW p, Sound(p), DueTimers(p), NEW ev \in Events
    PROVE  DueTimers(lcp_event(p, ev))
<1> DEFINE q == lcp_event(p, ev)
<1>1. /\ Rings(q, "lcp") => q.lcp.state \in Timed
      /\ Rings(q, "ipcp") => \/ q.ipcp.state \in Timed
                             \/ Rings(p, "ipcp") /\ q.ipcp.state = p.ipcp.state
  BY LcpOutcome
<1>2. Rings(p, "ipcp") => p.ipcp.state \in Timed
  BY DEF DueTimers, Machines
<1> HIDE DEF q
<1>3. DueTimers(q)
  BY <1>1, <1>2 DEF DueTimers, Machines
<1> QED BY <1>3 DEF q

\* IPCP is taken down with the link, whatever the event.
LEMMA LayersStay ==
    ASSUME NEW p, Sound(p), Layered(p), NEW ev \in Events, Fits(p, ev)
    PROVE  LET q == lcp_event(p, ev)
           IN  Layered(q) /\ (q.lcp.event = "LAYUP" => q.lcp.state # "OPENED")
<1> DEFINE q == lcp_event(p, ev)
           e == Entry(p, "lcp", ev)
<1>1. Outcome(p, ev, q) /\ q.lcp.state = e.new
  BY LcpOutcome
<1>2. Entry(p, "ipcp", "LAYDOWN").new \in Below
  <2>1. "ipcp" \in Machines /\ "LAYDOWN" \in Events
    BY DEF Machines, Events
  <2>2. Kinds(p["ipcp"].state, "LAYDOWN", Entry(p, "ipcp", "LAYDOWN"))
    BY <2>1, EntryOf
  <2> QED BY <2>2 DEF Kinds
<1> HIDE DEF q
<1>3. Layered(q) /\ (q.lcp.event = "LAYUP" => q.lcp.state # "OPENED")
  BY <1>1, <1>2 DEF Outcome, Layered, Fits, Waiting
<1> QED BY <1>3 DEF q

\* Without a modem: the entries that the events of a host that is on come to.
LEMMA IpcpFollows ==
    ASSUME NEW p, Sound(p)
    PROVE  LET up   == Entry(p, "ipcp", "LAYUP")
               down == Entry(p, "ipcp", "LAYDOWN")
           IN  /\ p.ipcp.state = "STARTING" => up.empty = FALSE /\ up.new = "REQ_SENT"
               /\ p.ipcp.state \in Live => down.empty = FALSE /\ down.new = "STARTING"
<1>1. "ipcp" \in Machines /\ "LAYDOWN" \in Events /\ "LAYUP" \in Events
  BY DEF Machines, Events
<1>2. /\ Falls(p["ipcp"].state, "LAYUP", Entry(p, "ipcp", "LAYUP"))
      /\ Falls(p["ipcp"].state, "LAYDOWN", Entry(p, "ipcp", "LAYDOWN"))
  BY <1>1, EntryOf
<1> QED BY <1>2 DEF Falls

LEMMA PathStays ==
    ASSUME NEW p, Sound(p), p.carrier, Straight(p), NEW ev \in Events, Due(p.lcp.state, ev)
    PROVE  Path(lcp_event(p, ev))
<1> DEFINE q  == lcp_event(p, ev)
           e  == Entry(p, "lcp", ev)
           st == p.lcp.state
<1>1. Outcome(p, ev, q) /\ q.lcp.state = e.new /\ Same(p, q)
  BY LcpOutcome
<1>2. st \in States /\ p.ipcp.state \in States /\ p.odd \in BOOLEAN
  BY StatesOf
<1>3. /\ Live = {"STOPPED", "STOPPING", "REQ_SENT", "ACK_RECVD", "ACK_SENT", "OPENED"}
      /\ Busy = {"STOPPING", "REQ_SENT", "ACK_RECVD", "ACK_SENT"}
  BY DEF Live, Busy, States, Below, Timed
<1>4. /\ ~p.odd
      /\ \/ st = "OPENED" /\ p.ipcp.state \in Live
         \/ st \in Busy /\ p.ipcp.state = "STARTING"
  BY DEF Straight, Live, Busy
<1>5. e.empty = FALSE /\ e.new \in Live /\ (e.new = "STOPPED" <=> Ends(e.act))
  <2>1. "lcp" \in Machines
    BY DEF Machines
  <2>2. GoesOn(p["lcp"].state, ev, e)
    BY <2>1, EntryOf
  <2>3. st \in Live /\ st \in Busy \cup {"OPENED"}
    BY <1>3, <1>4
  <2> QED BY <2>2, <2>3 DEF GoesOn
<1>6. st = "OPENED" => ev \notin {"LAYUP", "TONF", "TOFATAL"}
  BY <1>3 DEF Due, Net
<1>7. /\ p.ipcp.state = "STARTING" => /\ Entry(p, "ipcp", "LAYUP").empty = FALSE
                                      /\ Entry(p, "ipcp", "LAYUP").new = "REQ_SENT"
      /\ p.ipcp.state \in Live => /\ Entry(p, "ipcp", "LAYDOWN").empty = FALSE
                                  /\ Entry(p, "ipcp", "LAYDOWN").new = "STARTING"
  BY IpcpFollows
<1>8. Straight(q) <=> /\ ~q.odd
                      /\ \/ q.lcp.state = "OPENED" /\ q.ipcp.state \in Live
                         \/ q.lcp.state \in Busy /\ q.ipcp.state = "STARTING"
  BY DEF Straight, Live, Busy
<1>9. q.carrier = p.carrier
  BY <1>1 DEF Same
<1> HIDE DEF q, e, st
<1> USE DEF Path
<1>10. CASE OnlyPlain(e.act)
  <2>1. ~Ends(e.act) /\ ~Starts(e.act) /\ ~GoesUp(e.act) /\ ~GoesDown(e.act)
    BY <1>10, OneKind
  <2>2. q.ipcp.state = p.ipcp.state /\ q.odd = (p.odd \/ e.empty) /\ q.lcp.event = "NONE"
        /\ (e.new = "OPENED" => st = "OPENED")
        /\ (st = "OPENED" => e.new = "OPENED" \/ ev \in {"LAYUP", "TONF", "TOFATAL"})
    BY <1>1, <2>1 DEF Outcome, e, st
  <2>3. e.new # "STOPPED"
    BY <1>5, <2>1
  <2>4. Straight(q)
    BY <1>1, <1>3, <1>4, <1>5, <1>6, <1>8, <2>2, <2>3
  <2> QED BY <1>9, <2>2, <2>4 DEF q
<1>11. CASE Starts(e.act)
  <2>1. ~Ends(e.act) /\ ~OnlyPlain(e.act) /\ ~GoesUp(e.act) /\ ~GoesDown(e.act)
    BY <1>11, OneKind
  <2>2. e.new = "STARTING"
    BY <1>1, <2>1 DEF Outcome, e
  <2> QED BY <1>3, <1>5, <2>2
<1>12. CASE Ends(e.act)
  <2>1. ~OnlyPlain(e.act) /\ ~Starts(e.act) /\ ~GoesUp(e.act) /\ ~GoesDown(e.act)
    BY <1>12, OneKind
  <2>2. q.ipcp.state = p.ipcp.state /\ q.odd = (p.odd \/ e.empty) /\ q.lcp.event = "LAYDOWN"
        /\ st # "OPENED"
    BY <1>1, <2>1 DEF Outcome, e, st
  <2> QED BY <1>1, <1>4, <1>5, <1>9, <1>12, <2>2 DEF q
<1>13. CASE GoesUp(e.act)
  <2>1. ~OnlyPlain(e.act) /\ ~Starts(e.act) /\ ~Ends(e.act) /\ ~GoesDown(e.act)
    BY <1>13, OneKind
  <2>2. /\ q.ipcp.state = Entry(p, "ipcp", "LAYUP").new
        /\ q.odd = ((p.odd \/ e.empty) \/ Entry(p, "ipcp", "LAYUP").empty)
        /\ q.lcp.event = "NONE" /\ st # "OPENED" /\ e.new = "OPENED"
    BY <1>1, <2>1 DEF Outcome, e, st
  <2>3. Straight(q)
    BY <1>1, <1>3, <1>4, <1>5, <1>7, <1>8, <2>2
  <2> QED BY <1>9, <2>2, <2>3 DEF q
<1>14. CASE GoesDown(e.act)
  <2>1. ~OnlyPlain(e.act) /\ ~Starts(e.act) /\ ~Ends(e.act) /\ ~GoesUp(e.act)
    BY <1>14, OneKind
  <2>2. /\ q.ipcp.state = Entry(p, "ipcp", "LAYDOWN").new
        /\ q.odd = ((p.odd \/ e.empty) \/ Entry(p, "ipcp", "LAYDOWN").empty)
        /\ q.lcp.event = "NONE" /\ st = "OPENED" /\ e.new # "OPENED"
    BY <1>1, <2>1 DEF Outcome, e, st
  <2>3. Straight(q)
    BY <1>1, <1>3, <1>4, <1>5, <1>7, <1>8, <2>1, <2>2
  <2> QED BY <1>9, <2>2, <2>3 DEF q
<1> QED BY <1>1, <1>10, <1>11, <1>12, <1>13, <1>14 DEF Outcome, e

\* The event that an action raised.
LEMMA PathGoesOn ==
    ASSUME NEW p, Sound(p), Path(p), p.lcp.event # "NONE"
    PROVE  Path(lcp_event(p, p.lcp.event))
<1> DEFINE ev == p.lcp.event
           q  == lcp_event(p, ev)
           e  == Entry(p, "lcp", ev)
<1>1. /\ p.carrier /\ ~p.odd /\ p.ipcp.state = "STARTING"
      /\ \/ ev = "LAYDOWN" /\ p.lcp.state = "STOPPED"
         \/ ev = "LAYUP" /\ p.lcp.state = "STARTING"
  BY DEF Path
<1>2. ev \in Events /\ "lcp" \in Machines
  BY <1>1 DEF Events, Machines
<1>3. Outcome(p, ev, q) /\ q.lcp.state = e.new /\ Same(p, q)
  BY <1>2, LcpOutcome
<1>4. Falls(p["lcp"].state, ev, e)
  BY <1>2, EntryOf
<1>5. "STOPPED" \in Live /\ "REQ_SENT" \in Busy
  BY DEF Live, Busy, States, Below, Timed
<1>6. q.carrier = p.carrier
  BY <1>3 DEF Same
<1> HIDE DEF q, e, ev
<1>7. CASE ev = "LAYDOWN" /\ p.lcp.state = "STOPPED"
  <2>1. Starts(e.act) /\ e.empty = FALSE /\ e.new = "STARTING"
    BY <1>4, <1>5, <1>7 DEF Falls
  <2>2. ~Ends(e.act) /\ ~OnlyPlain(e.act) /\ ~GoesUp(e.act) /\ ~GoesDown(e.act)
    BY <2>1, OneKind
  <2>3. q.ipcp.state = p.ipcp.state /\ q.odd = (p.odd \/ e.empty) /\ q.lcp.event = "LAYUP"
    BY <1>1, <1>3, <2>2 DEF Outcome, e
  <2> QED BY <1>1, <1>3, <1>6, <2>1, <2>3 DEF Path, q, ev
<1>8. CASE ev = "LAYUP" /\ p.lcp.state = "STARTING"
  <2>1. e.empty = FALSE /\ e.new = "REQ_SENT"
    BY <1>4, <1>8 DEF Falls
  <2>2. q.ipcp.state = p.ipcp.state /\ q.odd = (p.odd \/ e.empty) /\ q.lcp.event = "NONE"
    BY <1>3, <1>8 DEF Outcome, e
  <2>3. Straight(q)
    BY <1>1, <1>3, <1>5, <2>1, <2>2 DEF Straight, Busy
  <2> QED BY <1>1, <1>6, <2>2, <2>3 DEF Path, q, ev
<1> QED BY <1>1, <1>7, <1>8

\* The chain of events ends: LAYUP raises none, LAYDOWN at most LAYUP.
LEMMA AgainSound ==
    ASSUME NEW p, Sound(p)
    PROVE  LET q == Again(p)
           IN  /\ Sound(q) /\ Same(p, q) /\ Rung(p, q, Machines)
               /\ p.lcp.event # "LAYDOWN" => q.lcp.event = "NONE"
               /\ q.lcp.event # "LAYDOWN"
<1>1. p.lcp.event \in {"NONE", "LAYUP", "LAYDOWN"}
  BY StatesOf
<1>2. CASE p.lcp.event = "NONE"
  <2>1. Again(p) = p
    BY <1>2 DEF Again
  <2> QED BY <1>2, <2>1 DEF Same, Rung
<1>3. CASE p.lcp.event # "NONE"
  <2> DEFINE ev == p.lcp.event
             q  == lcp_event(p, ev)
  <2>1. Again(p) = q
    BY <1>3 DEF Again
  <2>2. ev \in Events
    BY <1>1, <1>3 DEF Events
  <2>3. Sound(q) /\ Same(p, q) /\ Rung(p, q, Machines) /\ Outcome(p, ev, q)
    BY <2>2, LcpOutcome
  <2> HIDE DEF q
  <2>4. q.lcp.event # "LAYDOWN" /\ (p.lcp.event = "LAYUP" => q.lcp.event = "NONE")
    <3>1. q.lcp.event \in {"NONE", "LAYUP", "LAYDOWN"}
      BY <2>3, StatesOf
    <3> QED BY <1>1, <1>3, <2>3, <3>1, StatesOf DEF Outcome
  <2> QED BY <1>1, <1>3, <2>1, <2>3, <2>4
<1> QED BY <1>2, <1>3

LEMMA ChainIs ==
    ASSUME NEW p
    PROVE  Chain(p) = Again(Again(p))
<1> DEFINE A(q) == With(Again(q), Again)
<1>1. Chain(p) = With(p, LAMBDA q : A(q))
  BY DEF Chain
<1>2. \A q : A(q) = Again(Again(q))
  BY DEF With
<1> HIDE DEF A
<1>3. With(p, LAMBDA q : A(q)) = A(p)
  BY DEF With
<1> QED BY <1>1, <1>2, <1>3

LEMMA ChainSound ==
    ASSUME NEW p, Sound(p)
    PROVE  LET q == Chain(p)
           IN  /\ Sound(q) /\ Same(p, q) /\ Rung(p, q, Machines)
               /\ q.lcp.event = "NONE"
<1> DEFINE r == Again(p)
           q == Again(r)
<1>1. Sound(r) /\ Same(p, r) /\ Rung(p, r, Machines) /\ r.lcp.event # "LAYDOWN"
  BY AgainSound
<1> HIDE DEF r
<1>2. Sound(q) /\ Same(r, q) /\ Rung(r, q, Machines) /\ q.lcp.event = "NONE"
  BY <1>1, AgainSound
<1> HIDE DEF q
<1>3. Same(p, q) /\ Rung(p, q, Machines)
  BY <1>1, <1>2 DEF Same, Rung
<1>4. Chain(p) = q
  BY ChainIs DEF r, q
<1> QED BY <1>2, <1>3, <1>4

LEMMA AgainSteady ==
    ASSUME NEW p, Steady(p)
    PROVE  Steady(Again(p))
<1>1. Sound(p) /\ p.lcp.event \in {"NONE", "LAYUP", "LAYDOWN"}
  BY StatesOf DEF Steady
<1>2. CASE p.lcp.event = "NONE"
  BY <1>2 DEF Again
<1>3. CASE p.lcp.event # "NONE"
  <2> DEFINE ev == p.lcp.event
             q  == lcp_event(p, ev)
  <2>1. Again(p) = q
    BY <1>3 DEF Again
  <2>2. ev \in Events /\ Fits(p, ev)
    BY <1>1, <1>3 DEF Events, Fits, Steady
  <2>3. Sound(q) /\ Same(p, q)
    BY <1>1, <2>2, LcpOutcome
  <2>4. DueTimers(q)
    BY <1>1, <2>2, TimersStayDue DEF Steady
  <2>5. Layered(q) /\ (q.lcp.event = "LAYUP" => q.lcp.state # "OPENED")
    BY <1>1, <2>2, LayersStay DEF Steady
  <2>6. ~p.plan.modem => Path(q)
    BY <1>1, <1>3, PathGoesOn DEF Steady
  <2> HIDE DEF q
  <2> QED BY <2>1, <2>3, <2>4, <2>5, <2>6 DEF Steady, Same
<1> QED BY <1>2, <1>3

\* Between events.
Good(p) == Steady(p) /\ p.lcp.event = "NONE"

LEMMA ChainGood ==
    ASSUME NEW p, Steady(p)
    PROVE  Good(Chain(p))
<1>1. Steady(Again(Again(p)))
  BY AgainSteady
<1>2. Chain(p).lcp.event = "NONE"
  BY ChainSound DEF Steady
<1> QED BY <1>1, <1>2, ChainIs DEF Good

LEMMA EventSound ==
    ASSUME NEW p, Sound(p), NEW m \in Machines, NEW ev \in Events
    PROVE  LET q == do_automaton(p, m, ev)
           IN  /\ Sound(q) /\ Same(p, q) /\ Rung(p, q, Machines)
               /\ p.lcp.event = "NONE" \/ m = "lcp" => q.lcp.event = "NONE"
<1>1. CASE m = "lcp"
  <2> DEFINE r == lcp_event(p, ev)
             q == Chain(r)
  <2>1. Sound(r) /\ Same(p, r) /\ Rung(p, r, Machines)
    BY LcpOutcome
  <2>2. do_automaton(p, m, ev) = q
    BY <1>1 DEF do_automaton
  <2> HIDE DEF r
  <2>3. Sound(q) /\ Same(r, q) /\ Rung(r, q, Machines) /\ q.lcp.event = "NONE"
    BY <2>1, ChainSound
  <2> HIDE DEF q
  <2>4. Same(p, q) /\ Rung(p, q, Machines)
    BY <2>1, <2>3 DEF Same, Rung
  <2> QED BY <2>2, <2>3, <2>4
<1>2. CASE m = "ipcp"
  <2> DEFINE q == ipcp_event(p, ev)
  <2>1. Sound(q) /\ Same(p, q) /\ Rung(p, q, {"ipcp"}) /\ q.lcp.event = p.lcp.event
    BY IpcpEvent
  <2>2. do_automaton(p, m, ev) = q
    BY <1>2 DEF do_automaton
  <2> HIDE DEF q
  <2>3. Rung(p, q, Machines)
    BY <2>1 DEF Rung, Machines
  <2> QED BY <1>2, <2>1, <2>2, <2>3
<1> QED BY <1>1, <1>2 DEF Machines

LEMMA LcpStaysGood ==
    ASSUME NEW p, Good(p), NEW ev \in Events, Fits(p, ev), ~p.plan.modem => Due(p.lcp.state, ev)
    PROVE  Good(do_automaton(p, "lcp", ev))
<1> DEFINE q == lcp_event(p, ev)
<1>1. Sound(p) /\ Layered(p) /\ DueTimers(p) /\ (~p.plan.modem => p.carrier /\ Straight(p))
  BY DEF Good, Steady, Path
<1>2. Sound(q) /\ Same(p, q)
  BY <1>1, LcpOutcome
<1>3. DueTimers(q)
  BY <1>1, TimersStayDue
<1>4. Layered(q) /\ (q.lcp.event = "LAYUP" => q.lcp.state # "OPENED")
  BY <1>1, LayersStay
<1>5. ~p.plan.modem => Path(q)
  BY <1>1, PathStays
<1>6. do_automaton(p, "lcp", ev) = Chain(q)
  BY DEF do_automaton
<1> HIDE DEF q
<1>7. Steady(q)
  BY <1>2, <1>3, <1>4, <1>5 DEF Steady, Same
<1> QED BY <1>6, <1>7, ChainGood

LEMMA IpcpStaysGood ==
    ASSUME NEW p, Good(p), NEW ev \in Events, p.lcp.state = "OPENED",
           ~p.plan.modem => Due(p.ipcp.state, ev)
    PROVE  Good(do_automaton(p, "ipcp", ev))
<1> DEFINE q == ipcp_event(p, ev)
           e == Entry(p, "ipcp", ev)
<1>1. Sound(p) /\ Layered(p) /\ DueTimers(p) /\ p.lcp.event = "NONE"
      /\ (~p.plan.modem => p.carrier /\ Straight(p))
  BY DEF Good, Steady, Path
<1>2. /\ Sound(q) /\ Same(p, q) /\ Rung(p, q, {"ipcp"})
      /\ q.lcp.state = p.lcp.state /\ q.lcp.event = p.lcp.event
      /\ q.ipcp.state = e.new /\ q.odd = (p.odd \/ e.empty)
      /\ Waiting(q) <=> Waiting(p)
      /\ Rings(q, "ipcp") => q.ipcp.state \in Timed
  BY <1>1, IpcpEvent
<1>3. GoesOn(p["ipcp"].state, ev, e)
  <2>1. "ipcp" \in Machines
    BY DEF Machines
  <2> QED BY <1>1, <2>1, EntryOf
<1>4. do_automaton(p, "ipcp", ev) = q
  BY DEF do_automaton
<1> HIDE DEF q, e
<1>5. Layered(q)
  BY <1>1, <1>2 DEF Layered, Waiting
<1>6. Rings(q, "lcp") => Rings(p, "lcp")
  BY <1>2 DEF Rung, Rings, Same
<1>7. DueTimers(q)
  BY <1>1, <1>2, <1>6 DEF DueTimers, Machines
<1>8. ~p.plan.modem => Path(q)
  <2> SUFFICES ASSUME ~p.plan.modem PROVE Path(q)
    OBVIOUS
  <2>1. p.ipcp.state \in Live /\ ~p.odd
    BY <1>1 DEF Straight, Live, Timed
  <2>2. e.empty = FALSE /\ e.new \in Live
    BY <1>3, <2>1 DEF GoesOn
  <2>3. Straight(q)
    BY <1>2, <2>1, <2>2 DEF Straight, Live
  <2> QED BY <1>1, <1>2, <2>3 DEF Path, Same
<1> QED BY <1>1, <1>2, <1>4, <1>5, <1>7, <1>8 DEF Good, Steady, Same

(***************************************************************************)
(* The timer, the packets, the line and open_ppp                           *)
(***************************************************************************)
\* What every one of them keeps, whatever the host is at.
Worked(p, q) == /\ Sound(q) /\ Same(p, q) /\ Rung(p, q, Machines)
                /\ p.lcp.event = "NONE" => q.lcp.event = "NONE"

LEMMA KeptWorks ==
    ASSUME NEW p, NEW q, NEW m \in Machines, Kept(p, q, m)
    PROVE  Worked(p, q)
<1>1. Rung(p, q, Machines)
  BY DEF Kept, Rung
<1> QED BY <1>1 DEF Kept, Worked

LEMMA KeptGood ==
    ASSUME NEW p, Good(p), NEW q, NEW m \in Machines, Kept(p, q, m), DueTimers(q)
    PROVE  Good(q)
<1>1. Layered(q)
  BY DEF Good, Steady, Kept, Layered, Waiting
<1>2. ~p.plan.modem => Path(q)
  BY DEF Good, Steady, Kept, Path, Straight, Same
<1> QED BY <1>1, <1>2 DEF Good, Steady, Kept, Same

\* An event comes after an action.
LEMMA EventWorks ==
    ASSUME NEW p, NEW q, Sound(p), Worked(p, q), NEW m \in Machines, NEW ev \in Events
    PROVE  Worked(p, do_automaton(q, m, ev))
<1> DEFINE r == do_automaton(q, m, ev)
<1>1. Sound(r) /\ Same(q, r) /\ Rung(q, r, Machines)
      /\ (q.lcp.event = "NONE" \/ m = "lcp" => r.lcp.event = "NONE")
  BY EventSound DEF Worked
<1> HIDE DEF r
<1>2. Rung(p, r, Machines) /\ Same(p, r)
  BY <1>1 DEF Worked, Rung, Same
<1> QED BY <1>1, <1>2 DEF Worked, r

\* A packet's event.
LEMMA NetGood ==
    ASSUME NEW p, Good(p), NEW m \in Machines, NEW ev \in Net, m = "ipcp" => p.lcp.state = "OPENED"
    PROVE  Good(do_automaton(p, m, ev))
<1>1. ev \in Events /\ ev \notin {"LAYUP", "TONF", "TOFATAL"}
  BY DEF Net, Events
<1>2. Due(p.lcp.state, ev) /\ Due(p.ipcp.state, ev) /\ Fits(p, ev)
  BY <1>1 DEF Due, Fits
<1>3. CASE m = "lcp"
  <2>1. Good(do_automaton(p, "lcp", ev))
    BY <1>1, <1>2, LcpStaysGood
  <2> QED BY <2>1, <1>3
<1>4. CASE m = "ipcp"
  <2>1. Good(do_automaton(p, "ipcp", ev))
    BY <1>1, <1>2, <1>4, IpcpStaysGood
  <2> QED BY <2>1, <1>4
<1> QED BY <1>3, <1>4 DEF Machines

\* What timer_event does to the timer and the count before the event.
Ticks(p, m) == IF p[m].cnt > 1 THEN [Start(p, m) EXCEPT ![m].cnt = @ - 1]
               ELSE [Stop(p, m) EXCEPT ![m].cnt = 0]

LEMMA TicksSound ==
    ASSUME NEW p, Sound(p), NEW m \in Machines
    PROVE  Kept(p, Ticks(p, m), m)
<1>1. p[m].cnt \in Nat
  BY HasMachine DEF Sound, MachineSet
<1>2. CASE p[m].cnt > 1
  <2> DEFINE r == Start(p, m)
             n == p[m].cnt - 1
  <2>1. Kept(p, r, m) /\ r[m] = p[m]
    BY StartSound
  <2>2. Ticks(p, m) = [r EXCEPT ![m].cnt = r[m].cnt - 1]
    BY <1>2 DEF Ticks
  <2>3. n \in Nat /\ r[m].cnt - 1 = n
    BY <1>1, <1>2, <2>1
  <2> HIDE DEF r, n
  <2>4. Kept(r, [r EXCEPT ![m].cnt = n], m)
    BY <2>1, <2>3, CountSound DEF Kept
  <2>5. Kept(r, Ticks(p, m), m)
    BY <2>2, <2>3, <2>4, Zenon
  <2> QED BY <2>1, <2>5, KeptAlong
<1>3. CASE ~(p[m].cnt > 1)
  <2> DEFINE r == Stop(p, m)
  <2>1. Kept(p, r, m)
    BY StopSound
  <2>2. Ticks(p, m) = [r EXCEPT ![m].cnt = 0]
    BY <1>3 DEF Ticks
  <2> HIDE DEF r
  <2>3. 0 \in Nat
    OBVIOUS
  <2>4. Kept(r, [r EXCEPT ![m].cnt = 0], m)
    BY <2>1, <2>3, CountSound DEF Kept
  <2>5. Kept(r, Ticks(p, m), m)
    BY <2>2, <2>4, Zenon
  <2> QED BY <2>1, <2>5, KeptAlong
<1> QED BY <1>2, <1>3

LEMMA TimerIs ==
    ASSUME NEW p, NEW m
    PROVE  \E ev \in {"TONF", "TOFATAL"} : timer_event(p, m) = do_automaton(Ticks(p, m), m, ev)
<1>1. CASE p[m].cnt > 1
  BY <1>1 DEF timer_event, Ticks
<1>2. CASE ~(p[m].cnt > 1)
  BY <1>2 DEF timer_event, Ticks
<1> QED BY <1>1, <1>2

LEMMA TimerSound ==
    ASSUME NEW p, Sound(p), NEW m \in Machines
    PROVE  Worked(p, timer_event(p, m))
<1> DEFINE q == Ticks(p, m)
<1>1. Worked(p, q)
  BY TicksSound, KeptWorks
<1> HIDE DEF q
<1>2. PICK ev \in {"TONF", "TOFATAL"} : timer_event(p, m) = do_automaton(q, m, ev)
  BY TimerIs DEF q
<1>3. ev \in Events
  BY DEF Events
<1>4. Worked(p, do_automaton(q, m, ev))
  BY <1>1, <1>3, EventWorks
<1> QED BY <1>2, <1>4

LEMMA TimerGood ==
    ASSUME NEW p, Good(p), NEW m \in Machines, Rings(p, m)
    PROVE  Good(timer_event(p, m))
<1> DEFINE q == Ticks(p, m)
<1>1. Sound(p) /\ DueTimers(p) /\ Layered(p) /\ (~p.plan.modem => Straight(p))
  BY DEF Good, Steady, Path
<1>2. p[m].state \in Timed
  BY <1>1 DEF DueTimers
<1>3. Kept(p, q, m)
  BY <1>1, TicksSound
<1> HIDE DEF q
<1>4. DueTimers(q)
  <2>1. \A n \in Machines : Rings(q, n) => Rings(p, n) \/ n = m
    BY <1>3 DEF Kept, Rung, Rings, Same
  <2>2. \A n \in Machines : Rings(q, n) => p[n].state \in Timed
    BY <2>1, <1>1, <1>2 DEF DueTimers
  <2>3. \A n \in Machines : q[n].state = p[n].state
    BY <1>3 DEF Kept, Machines
  <2> QED BY <2>2, <2>3 DEF DueTimers
<1>5. Good(q)
  BY <1>3, <1>4, KeptGood
<1>6. q.lcp.state = p.lcp.state /\ q.ipcp.state = p.ipcp.state /\ q.plan = p.plan
  BY <1>3 DEF Kept, Same
<1>7. PICK ev \in {"TONF", "TOFATAL"} : timer_event(p, m) = do_automaton(q, m, ev)
  BY TimerIs DEF q
<1>8. ev \in Events
  BY DEF Events
<1>9. CASE m = "lcp"
  <2>1. Fits(q, ev)
    BY <1>2, <1>6, <1>9 DEF Fits, Timed
  <2>2. ~q.plan.modem => Due(q.lcp.state, ev)
    BY <1>1, <1>2, <1>6, <1>9 DEF Straight, Due, Busy, Timed, Below
  <2>3. Good(do_automaton(q, "lcp", ev))
    BY <1>5, <1>8, <2>1, <2>2, LcpStaysGood
  <2> QED BY <2>3, <1>7, <1>9
<1>10. CASE m = "ipcp"
  <2>1. q.lcp.state = "OPENED"
    BY <1>1, <1>2, <1>6, <1>10 DEF Layered, Below, Timed
  <2>2. ~q.plan.modem => Due(q.ipcp.state, ev)
    BY <1>1, <1>2, <1>6, <1>10 DEF Straight, Due, Busy, Timed, Below
  <2>3. Good(do_automaton(q, "ipcp", ev))
    BY <1>5, <1>8, <2>1, <2>2, IpcpStaysGood
  <2> QED BY <2>3, <1>7, <1>10
<1> QED BY <1>9, <1>10 DEF Machines

LEMMA RejectSound ==
    ASSUME NEW p, Sound(p), NEW m \in Machines
    PROVE  LET q == proc_reject(p, m)
           IN  Kept(p, q, m) /\ q.alarms = p.alarms
<1> DEFINE opts == p[m].conf \ p.pkt.opts
<1>1. opts \in SUBSET Options
  BY HasMachine DEF Sound, MachineSet
<1>2. proc_reject(p, m) = [p EXCEPT ![m].conf = opts]
  BY DEF proc_reject
<1> HIDE DEF opts
<1>3. LET q == [p EXCEPT ![m].conf = opts] IN Kept(p, q, m) /\ q.alarms = p.alarms
  BY <1>1, ConfSound
<1> QED BY <1>2, <1>3

\* What a packet is: one of five, the machine's event or nothing.
LEMMA NetworkIs ==
    ASSUME NEW p, p.pkt \in Packets, NEW m
    PROVE  \/ network_event(p, m) = p
           \/ \E ev \in Net : network_event(p, m) = do_automaton(p, m, ev)
           \/ \E ev \in Net : network_event(p, m) = do_automaton(proc_reject(p, m), m, ev)
<1>1. p.pkt.code \in Codes
  BY DEF Packets, Codes
<1>2. CASE p.pkt.code = "CONF_REQU"
  <2> DEFINE ev == IF p.pkt.opts \subseteq Known(p, m) THEN "CREQOK" ELSE "CREQBAD"
  <2>1. network_event(p, m) = do_automaton(p, m, ev)
    BY <1>2 DEF network_event
  <2>2. ev \in Net
    BY DEF Net
  <2> QED BY <2>1, <2>2
<1>3. CASE p.pkt.code = "CONF_ACK"
  <2>1. network_event(p, m) = p \/ network_event(p, m) = do_automaton(p, m, "CACK")
    BY <1>3 DEF network_event
  <2> QED BY <2>1 DEF Net
<1>4. CASE p.pkt.code = "CONF_REJCT"
  <2>1. network_event(p, m) = p \/ network_event(p, m) = do_automaton(proc_reject(p, m), m, "CNAK")
    BY <1>4 DEF network_event
  <2> QED BY <2>1 DEF Net
<1>5. CASE p.pkt.code = "TERM_REQU"
  <2>1. network_event(p, m) = do_automaton(p, m, "TREQ")
    BY <1>5 DEF network_event
  <2> QED BY <2>1 DEF Net
<1>6. CASE p.pkt.code = "TERM_ACK"
  <2>1. network_event(p, m) = do_automaton(p, m, "TACK")
    BY <1>6 DEF network_event
  <2> QED BY <2>1 DEF Net
<1> QED BY <1>1, <1>2, <1>3, <1>4, <1>5, <1>6 DEF Codes

LEMMA NetworkSound ==
    ASSUME NEW p, Sound(p), p.pkt \in Packets
    PROVE  Worked(p, ppp_control(p))
<1> DEFINE m == p.pkt.prot
           r == proc_reject(p, m)
<1>1. m \in Machines
  BY DEF Packets
<1>2. Worked(p, p)
  BY <1>1, KeptFirst, KeptWorks
<1>3. Worked(p, r)
  BY <1>1, RejectSound, KeptWorks
<1>4. ppp_control(p) = p \/ ppp_control(p) = network_event(p, m)
  BY DEF ppp_control
<1> HIDE DEF r
<1>5. \/ network_event(p, m) = p
      \/ \E ev \in Net : network_event(p, m) = do_automaton(p, m, ev)
      \/ \E ev \in Net : network_event(p, m) = do_automaton(r, m, ev)
  BY NetworkIs DEF r
<1>6. \A ev \in Net : ev \in Events
  BY DEF Net, Events
<1>7. \A ev \in Net : Worked(p, do_automaton(p, m, ev)) /\ Worked(p, do_automaton(r, m, ev))
  BY <1>1, <1>2, <1>3, <1>6, EventWorks
<1> QED BY <1>2, <1>4, <1>5, <1>7

LEMMA NetworkGood ==
    ASSUME NEW p, Good(p), p.pkt \in Packets
    PROVE  Good(ppp_control(p))
<1> DEFINE m == p.pkt.prot
           r == proc_reject(p, m)
<1>1. m \in Machines
  BY DEF Packets
<1>2. CASE m = "ipcp" /\ p.lcp.state # "OPENED"
  BY <1>2 DEF ppp_control
<1>3. CASE m = "ipcp" => p.lcp.state = "OPENED"
  <2>1. ppp_control(p) = network_event(p, m)
    BY <1>3 DEF ppp_control
  <2>2. Kept(p, r, m) /\ r.alarms = p.alarms
    BY <1>1, RejectSound DEF Good, Steady
  <2> HIDE DEF r
  <2>3. DueTimers(r)
    BY <2>2 DEF Good, Steady, DueTimers, Rings, Kept, Same, Machines
  <2>4. Good(r) /\ (m = "ipcp" => r.lcp.state = "OPENED")
    BY <1>1, <1>3, <2>2, <2>3, KeptGood DEF Kept
  <2>5. \/ network_event(p, m) = p
        \/ \E ev \in Net : network_event(p, m) = do_automaton(p, m, ev)
        \/ \E ev \in Net : network_event(p, m) = do_automaton(r, m, ev)
    BY NetworkIs DEF r
  <2>6. \A ev \in Net : Good(do_automaton(p, m, ev)) /\ Good(do_automaton(r, m, ev))
    BY <1>1, <1>3, <2>4, NetGood
  <2> QED BY <2>1, <2>5, <2>6
<1> QED BY <1>2, <1>3

LEMMA LineSound ==
    ASSUME NEW p, Sound(p), NEW f \in SUBSET Flags, "DCD_UP" \in f <=> Waiting(p), NEW d \in BOOLEAN
    PROVE  LET q == [p EXCEPT !.flags = f, !.dtr = d]
           IN  Kept(p, q, "lcp") /\ q.alarms = p.alarms
<1> DEFINE q == [p EXCEPT !.flags = f, !.dtr = d]
<1>1. q \in Works /\ Same(p, q) /\ q.alarms = p.alarms /\ q.flags = f
      /\ q.lcp = p.lcp /\ q.ipcp = p.ipcp /\ q.odd = p.odd
  BY DEF Sound, Works, Same
<1> HIDE DEF q
<1>2. Kept(p, q, "lcp")
  BY <1>1 DEF Kept, Sound, Rung, Waiting
<1> QED BY <1>1, <1>2 DEF q

LEMMA AwakeGood ==
    ASSUME NEW p, Sound(p)
    PROVE  Worked(p, Awake(p)) /\ (Good(p) => Good(Awake(p))) /\ Awake(p).lcp.state = p.lcp.state
<1> DEFINE q == Awake(p)
<1>1. /\ Sound(q) /\ Same(p, q) /\ q.alarms = p.alarms /\ q.odd = p.odd
      /\ q.lcp = p.lcp /\ q.ipcp = p.ipcp /\ ~Waiting(q)
  BY AwakeSound
<1> HIDE DEF q
<1>2. Worked(p, q)
  BY <1>1 DEF Worked, Rung
<1>3. ASSUME Good(p) PROVE Good(q)
  <2>1. Layered(q) /\ DueTimers(q)
    BY <1>1, <1>3 DEF Good, Steady, Layered, Waiting, DueTimers, Rings, Same, Machines
  <2>2. ~p.plan.modem => Path(q)
    BY <1>1, <1>3 DEF Good, Steady, Path, Straight, Same
  <2> QED BY <1>1, <1>3, <2>1, <2>2 DEF Good, Steady, Same
<1> QED BY <1>1, <1>2, <1>3 DEF q

\* link_maintain: the modem is lifted again, in two steps; it hangs up.
Lifts(p) == IF "DTR_DOWN" \notin p.flags THEN p
            ELSE IF "DTR_UP" \notin p.flags THEN [p EXCEPT !.flags = @ \cup {"DTR_UP"}]
            ELSE [p EXCEPT !.flags = (@ \ {"DTR_DOWN", "DTR_UP"}) \cup {"DONE"}, !.dtr = TRUE]
Drops(p) == [p EXCEPT !.flags = (@ \ {"DCD_DOWN"}) \cup {"DTR_DOWN"}, !.dtr = FALSE]

LEMMA LiftsSound ==
    ASSUME NEW p, Sound(p)
    PROVE  /\ Kept(p, Lifts(p), "lcp") /\ Lifts(p).alarms = p.alarms
           /\ Kept(p, Drops(p), "lcp") /\ Drops(p).alarms = p.alarms
<1>1. p.flags \in SUBSET Flags /\ p.dtr \in BOOLEAN
  BY DEF Sound, Works
<1> DEFINE f == p.flags \cup {"DTR_UP"}
           g == (p.flags \ {"DTR_DOWN", "DTR_UP"}) \cup {"DONE"}
           h == (p.flags \ {"DCD_DOWN"}) \cup {"DTR_DOWN"}
<1>2. f \in SUBSET Flags /\ g \in SUBSET Flags /\ h \in SUBSET Flags
      /\ ("DCD_UP" \in f <=> Waiting(p)) /\ ("DCD_UP" \in g <=> Waiting(p))
      /\ ("DCD_UP" \in h <=> Waiting(p))
  BY <1>1 DEF Flags, Waiting
<1>3. \/ Lifts(p) = p \/ Lifts(p) = [p EXCEPT !.flags = f, !.dtr = p.dtr]
      \/ Lifts(p) = [p EXCEPT !.flags = g, !.dtr = TRUE]
  <2>1. [p EXCEPT !.flags = f] = [p EXCEPT !.flags = f, !.dtr = p.dtr]
    BY DEF Sound, Works
  <2> QED BY <2>1 DEF Lifts
<1>4. Drops(p) = [p EXCEPT !.flags = h, !.dtr = FALSE]
  BY DEF Drops
<1> HIDE DEF f, g, h
<1>5. Kept(p, p, "lcp")
  BY KeptFirst
<1>6. /\ LET q == [p EXCEPT !.flags = f, !.dtr = p.dtr] IN Kept(p, q, "lcp") /\ q.alarms = p.alarms
      /\ LET q == [p EXCEPT !.flags = g, !.dtr = TRUE] IN Kept(p, q, "lcp") /\ q.alarms = p.alarms
      /\ LET q == [p EXCEPT !.flags = h, !.dtr = FALSE] IN Kept(p, q, "lcp") /\ q.alarms = p.alarms
  BY <1>1, <1>2, LineSound
<1> QED BY <1>3, <1>4, <1>5, <1>6

LEMMA MaintainIs ==
    ASSUME NEW p
    PROVE  LET r == Lifts(p)
           IN  \/ link_maintain(p) = r
               \/ Waiting(r) /\ link_maintain(p) = do_automaton(Awake(r), "lcp", "LAYUP")
               \/ link_maintain(p) = do_automaton(Awake(Drops(r)), "lcp", "LAYDOWN")
<1> DEFINE r == Lifts(p)
<1>1. link_maintain(p) =
        IF p.carrier THEN IF "DCD_UP" \in r.flags THEN user_event(r, "lcp", "LAYUP") ELSE r
        ELSE IF "DCD_DOWN" \notin r.flags THEN r ELSE user_event(Drops(r), "lcp", "LAYDOWN")
  BY DEF link_maintain, Lifts, Drops
<1> HIDE DEF r
<1>2. /\ user_event(r, "lcp", "LAYUP") = do_automaton(Awake(r), "lcp", "LAYUP")
      /\ user_event(Drops(r), "lcp", "LAYDOWN") = do_automaton(Awake(Drops(r)), "lcp", "LAYDOWN")
  BY DEF user_event
<1> QED BY <1>1, <1>2 DEF Waiting, r

LEMMA MaintainSound ==
    ASSUME NEW p, Sound(p)
    PROVE  Worked(p, link_maintain(p))
<1> DEFINE r == Lifts(p)
           a == Awake(r)
           d == Drops(r)
           b == Awake(d)
<1>1. "lcp" \in Machines /\ "LAYUP" \in Events /\ "LAYDOWN" \in Events
  BY DEF Machines, Events
<1>2. Kept(p, r, "lcp") /\ Worked(p, r)
  BY <1>1, LiftsSound, KeptWorks
<1>3. Sound(r)
  BY <1>2 DEF Kept
<1>4. \/ link_maintain(p) = r
      \/ link_maintain(p) = do_automaton(a, "lcp", "LAYUP")
      \/ link_maintain(p) = do_automaton(b, "lcp", "LAYDOWN")
  BY MaintainIs
<1> HIDE DEF r
<1>5. Kept(r, d, "lcp") /\ Worked(r, a)
  BY <1>3, LiftsSound, AwakeGood
<1>6. Kept(p, d, "lcp") /\ Sound(d)
  BY <1>2, <1>5, KeptAlong DEF Kept
<1> HIDE DEF d, a
<1>7. Worked(p, d) /\ Worked(d, b)
  BY <1>1, <1>6, KeptWorks, AwakeGood
<1> HIDE DEF b
<1>8. Worked(p, a) /\ Worked(p, b)
  BY <1>2, <1>5, <1>7 DEF Worked, Same, Rung
<1>9. Worked(p, do_automaton(a, "lcp", "LAYUP")) /\ Worked(p, do_automaton(b, "lcp", "LAYDOWN"))
  BY <1>1, <1>8, EventWorks
<1> QED BY <1>2, <1>4, <1>9

\* The line is lost and comes back: only with modems.
LEMMA MaintainGood ==
    ASSUME NEW p, Good(p), p.plan.modem
    PROVE  Good(link_maintain(p))
<1> DEFINE r == Lifts(p)
           a == Awake(r)
           d == Drops(r)
           b == Awake(d)
<1>1. "lcp" \in Machines /\ "LAYUP" \in Events /\ "LAYDOWN" \in Events
  BY DEF Machines, Events
<1>2. Kept(p, r, "lcp") /\ r.alarms = p.alarms
  BY LiftsSound DEF Good, Steady
<1>3. \/ link_maintain(p) = r
      \/ Waiting(r) /\ link_maintain(p) = do_automaton(a, "lcp", "LAYUP")
      \/ link_maintain(p) = do_automaton(b, "lcp", "LAYDOWN")
  BY MaintainIs
<1> HIDE DEF r
<1>4. \A x, y : DueTimers(x) /\ Kept(x, y, "lcp") /\ y.alarms = x.alarms => DueTimers(y)
  BY DEF DueTimers, Rings, Kept, Same, Machines
<1>5. Good(r) /\ Sound(r) /\ r.plan.modem
  BY <1>1, <1>2, <1>4, KeptGood DEF Good, Steady, Kept, Same
<1>6. Kept(r, d, "lcp") /\ d.alarms = r.alarms
  BY <1>5, LiftsSound
<1> HIDE DEF d
<1>7. Good(d) /\ Sound(d) /\ d.plan.modem
  BY <1>1, <1>4, <1>5, <1>6, KeptGood DEF Good, Steady, Kept, Same
<1>8. Good(a) /\ a.lcp.state = r.lcp.state /\ a.plan.modem
  BY <1>5, AwakeGood DEF Worked, Same
<1>9. Good(b) /\ b.plan.modem
  BY <1>7, AwakeGood DEF Worked, Same
<1> HIDE DEF a, b
<1>10. ASSUME Waiting(r) PROVE Good(do_automaton(a, "lcp", "LAYUP"))
  <2>1. Fits(a, "LAYUP")
    BY <1>5, <1>8, <1>10 DEF Good, Steady, Layered, Waiting, Fits
  <2> QED BY <1>1, <1>8, <2>1, LcpStaysGood
<1>11. Good(do_automaton(b, "lcp", "LAYDOWN"))
  <2>1. Fits(b, "LAYDOWN")
    BY DEF Fits
  <2> QED BY <1>1, <1>9, <2>1, LcpStaysGood
<1> QED BY <1>3, <1>5, <1>10, <1>11

\* open_ppp, before its events.
Opens(p) == [p EXCEPT !.flags = @ \cap Wants, !.lcp.conf = {}, !.ipcp.conf = {},
                      !.ipcp.state = "INITIAL", !.odd = FALSE]

LEMMA OpensSound ==
    ASSUME NEW p, Sound(p)
    PROVE  LET q == Opens(p)
           IN  /\ Sound(q) /\ Same(p, q) /\ q.alarms = p.alarms
               /\ q.lcp.state = p.lcp.state /\ q.lcp.event = p.lcp.event
               /\ q.ipcp.state = "INITIAL" /\ q.odd = FALSE
<1> DEFINE f == p.flags \cap Wants
           x == [p.lcp EXCEPT !.conf = {}]
           y == [p.ipcp EXCEPT !.conf = {}, !.state = "INITIAL"]
           q == [p EXCEPT !.flags = f, !.lcp = x, !.ipcp = y, !.odd = FALSE]
<1>1. p \in Works /\ p.lcp \in MachineSet /\ p.ipcp \in MachineSet /\ p.flags \in SUBSET Flags
  BY DEF Sound, Works
<1>2. Opens(p) = q
  BY <1>1 DEF Opens, Works, MachineSet
<1>3. f \in SUBSET Flags
  BY DEF Flags
<1>4. x \in MachineSet /\ x.state = p.lcp.state /\ x.event = p.lcp.event
  BY <1>1 DEF MachineSet
<1>5. y \in MachineSet /\ y.state = "INITIAL"
  BY <1>1 DEF MachineSet, States
<1> HIDE DEF f, x, y
<1>6. /\ q \in Works /\ Same(p, q) /\ q.alarms = p.alarms
      /\ q.lcp = x /\ q.ipcp = y /\ q.odd = FALSE
  BY <1>1, <1>3, <1>4, <1>5 DEF Works, Same
<1> HIDE DEF q
<1> QED BY <1>2, <1>4, <1>5, <1>6 DEF Sound

\* LCP goes to STARTING, the carrier is there, and the request is sent.
LEMMA LcpOpens ==
    ASSUME NEW p, Sound(p), p.carrier, p.lcp.state = "INITIAL", ~p.odd
    PROVE  LET q == do_automaton(p, "lcp", "OPEN")
           IN  q.lcp.state = "REQ_SENT" /\ q.ipcp.state = p.ipcp.state /\ ~q.odd
<1> DEFINE q1 == lcp_event(p, "OPEN")
           q2 == lcp_event(q1, "LAYUP")
           e1 == Entry(p, "lcp", "OPEN")
           e2 == Entry(q1, "lcp", "LAYUP")
<1>1. "lcp" \in Machines /\ "OPEN" \in Events /\ "LAYUP" \in Events
  BY DEF Machines, Events
<1>2. /\ Sound(q1) /\ Same(p, q1) /\ Outcome(p, "OPEN", q1) /\ q1.lcp.state = e1.new
      /\ Kinds(p["lcp"].state, "OPEN", e1) /\ Falls(p["lcp"].state, "OPEN", e1)
  BY <1>1, LcpOutcome, EntryOf
<1>3. e1.empty = FALSE /\ Starts(e1.act)
  BY <1>2 DEF Falls
<1>4. ~OnlyPlain(e1.act) /\ ~Ends(e1.act) /\ ~GoesUp(e1.act) /\ ~GoesDown(e1.act)
  BY <1>3, OneKind
<1>5. /\ q1.lcp.state = "STARTING" /\ q1.lcp.event = "LAYUP"
      /\ q1.ipcp.state = p.ipcp.state /\ q1.odd = FALSE
  BY <1>2, <1>3, <1>4 DEF Outcome
<1> HIDE DEF q1, e1
<1>6. /\ Outcome(q1, "LAYUP", q2) /\ q2.lcp.state = e2.new
      /\ Falls(q1["lcp"].state, "LAYUP", e2)
  BY <1>1, <1>2, LcpOutcome, EntryOf
<1>7. e2.empty = FALSE /\ e2.new = "REQ_SENT"
  BY <1>5, <1>6 DEF Falls
<1>8. /\ q2.lcp.state = "REQ_SENT" /\ q2.lcp.event = "NONE"
      /\ q2.ipcp.state = p.ipcp.state /\ q2.odd = FALSE
  BY <1>5, <1>6, <1>7 DEF Outcome
<1> HIDE DEF q2, e2
<1>9. Again(q1) = q2 /\ Again(q2) = q2
  BY <1>5, <1>8 DEF Again, q2
<1>10. do_automaton(p, "lcp", "OPEN") = q2
  BY <1>9, ChainIs DEF do_automaton, q1
<1> QED BY <1>8, <1>10

LEMMA OpenGood ==
    ASSUME NEW p, Sound(p), p.carrier, p.lcp.state = "INITIAL", p.lcp.event = "NONE"
    PROVE  Good(open_ppp(p)) /\ Worked(p, open_ppp(p))
<1> DEFINE q0 == Opens(p)
           q1 == Awake(q0)
           q2 == do_automaton(q1, "lcp", "OPEN")
           q3 == Awake(q2)
           q4 == do_automaton(q3, "ipcp", "OPEN")
           q5 == Awake(q4)
           e  == Entry(q3, "ipcp", "OPEN")
<1>1. "lcp" \in Machines /\ "ipcp" \in Machines /\ "OPEN" \in Events
  BY DEF Machines, Events
<1>2. open_ppp(p) = q5
  BY DEF open_ppp, Opens, user_event, Awake
<1>3. /\ Sound(q0) /\ Worked(p, q0) /\ q0.lcp.state = "INITIAL" /\ q0.ipcp.state = "INITIAL"
      /\ q0.odd = FALSE
  BY OpensSound DEF Worked, Rung
<1> HIDE DEF q0
<1>4. /\ Sound(q1) /\ Worked(p, q1) /\ q1.lcp.state = "INITIAL" /\ q1.ipcp.state = "INITIAL"
      /\ q1.odd = FALSE /\ q1.carrier
  <2>1. Sound(q1) /\ Same(q0, q1) /\ q1.alarms = q0.alarms /\ q1.odd = q0.odd
        /\ q1.lcp = q0.lcp /\ q1.ipcp = q0.ipcp
    BY <1>3, AwakeSound
  <2> HIDE DEF q1
  <2> QED BY <1>3, <2>1 DEF Worked, Same, Rung
<1> HIDE DEF q1
<1>5. /\ Worked(p, q2) /\ q2.lcp.state = "REQ_SENT" /\ q2.ipcp.state = "INITIAL" /\ ~q2.odd
  BY <1>1, <1>4, EventWorks, LcpOpens
<1> HIDE DEF q2
<1>6. /\ Sound(q3) /\ Worked(p, q3) /\ q3.lcp.state = "REQ_SENT" /\ q3.ipcp.state = "INITIAL"
      /\ ~q3.odd /\ ~Waiting(q3)
  <2>1. Sound(q3) /\ Same(q2, q3) /\ q3.alarms = q2.alarms /\ q3.odd = q2.odd
        /\ q3.lcp = q2.lcp /\ q3.ipcp = q2.ipcp /\ ~Waiting(q3)
    BY <1>5, AwakeSound DEF Worked
  <2> HIDE DEF q3
  <2> QED BY <1>5, <2>1 DEF Worked, Same, Rung
<1> HIDE DEF q3
<1>7. Worked(p, q4)
  BY <1>1, <1>6, EventWorks
<1>8. /\ Sound(q4) /\ q4.lcp.state = "REQ_SENT" /\ q4.lcp.event = q3.lcp.event
      /\ q4.ipcp.state = e.new /\ q4.odd = (q3.odd \/ e.empty)
      /\ Waiting(q4) <=> Waiting(q3)
      /\ Rings(q4, "ipcp") => q4.ipcp.state \in Timed
  <2>1. q4 = ipcp_event(q3, "OPEN")
    BY DEF do_automaton
  <2> HIDE DEF q4
  <2> QED BY <2>1, <1>1, <1>6, IpcpEvent
<1>9. e.empty = FALSE /\ e.new = "STARTING"
  <2>1. Kinds(q3["ipcp"].state, "OPEN", e) /\ Falls(q3["ipcp"].state, "OPEN", e)
    BY <1>1, <1>6, EntryOf
  <2>2. e.empty = FALSE /\ Starts(e.act)
    BY <1>6, <2>1 DEF Falls
  <2>3. ~OnlyPlain(e.act) /\ ~Ends(e.act) /\ ~GoesUp(e.act) /\ ~GoesDown(e.act)
    BY <2>2, OneKind
  <2> QED BY <2>1, <2>2, <2>3 DEF Kinds
<1> HIDE DEF q4, e
<1>10. Good(q4)
  <2>1. Layered(q4)
    BY <1>6, <1>8, <1>9 DEF Layered, Below, Waiting
  <2>2. DueTimers(q4)
    BY <1>8 DEF DueTimers, Machines, Timed
  <2>3. Path(q4)
    BY <1>6, <1>7, <1>8, <1>9 DEF Path, Straight, Worked, Same, Timed
  <2>4. q4.lcp.event = "NONE"
    BY <1>7 DEF Worked
  <2> QED BY <1>8, <2>1, <2>2, <2>3, <2>4 DEF Good, Steady
<1>11. Worked(q4, q5) /\ Good(q5)
  BY <1>8, <1>10, AwakeGood
<1> HIDE DEF q5
<1>12. Worked(p, q5)
  BY <1>7, <1>11 DEF Worked, Same, Rung
<1> QED BY <1>2, <1>11, <1>12

(***************************************************************************)
(* The host's record at work, and back                                     *)
(***************************************************************************)
\* What the proofs of the single steps need to know of all hosts.
Sane == PppTypes /\ OneTimerEach

LEMMA IdsAreNumbers ==
    ASSUME NEW packets \in Seq(Packets)
    PROVE  Ids(packets) \subseteq Nat
<1>1. \A q \in ToSet(packets) : q \in Packets
  BY InSet
<1>2. \A q \in Packets : q.id \in Nat
  BY DEF Packets
<1> QED BY <1>1, <1>2 DEF Ids

LEMMA AtSound ==
    ASSUME Sane, NEW s \in Sides, NEW pkt \in Packets \cup {NoPacket}
    PROVE  LET p == At(s, pkt)
           IN  /\ Sound(p) /\ p.me = s /\ p.pkt = pkt /\ p.plan = plan /\ p.carrier = Carrier(s)
               /\ p.alarms = alarms /\ p.lcp = port[s].lcp /\ p.ipcp = port[s].ipcp
               /\ p.flags = port[s].flags /\ p.odd = port[s].odd /\ p.left = port[s].left
<1>1. port \in [Sides -> PortSet] /\ line \in [Sides -> Seq(Packets)] /\ plan \in PlanSet
      /\ alarms \in Seq(Timers)
  BY DEF Sane, PppTypes, Timers
<1>2. port[s] \in PortSet
  BY <1>1
<1> DEFINE u == UNION {Ids(line[o]) \cup Ids(port[o].out) : o \in Sides}
           p == At(s, pkt)
<1>3. u \in SUBSET Nat
  <2>1. \A o \in Sides : line[o] \in Seq(Packets) /\ port[o].out \in Seq(Packets)
    BY <1>1 DEF PortSet
  <2>2. \A o \in Sides : Ids(line[o]) \subseteq Nat /\ Ids(port[o].out) \subseteq Nat
    BY <2>1, IdsAreNumbers
  <2> QED BY <2>2
<1>4. Carrier(s) \in BOOLEAN
  BY DEF Carrier
<1>5. p = [lcp |-> port[s].lcp, ipcp |-> port[s].ipcp, flags |-> port[s].flags,
           took |-> port[s].took, out |-> port[s].out, dtr |-> port[s].dtr,
           odd |-> port[s].odd, left |-> port[s].left, me |-> s, pkt |-> pkt,
           alarms |-> alarms, used |-> u, plan |-> plan, carrier |-> Carrier(s)]
  BY DEF At
<1> HIDE DEF u, p
<1>6. p \in Works
  BY <1>1, <1>2, <1>3, <1>4, <1>5 DEF Works, PortSet, Flags
<1>7. Once(alarms)
  BY DEF Sane, OneTimerEach, Once
<1>8. /\ p.me = s /\ p.pkt = pkt /\ p.plan = plan /\ p.carrier = Carrier(s)
      /\ p.alarms = alarms /\ p.lcp = port[s].lcp /\ p.ipcp = port[s].ipcp
      /\ p.flags = port[s].flags /\ p.odd = port[s].odd /\ p.left = port[s].left
  BY <1>5
<1> QED BY <1>6, <1>7, <1>8 DEF Sound, p

\* What Becomes leaves: the host's record, and the timers.
LEMMA BecomesSound ==
    ASSUME PppTypes, NEW s \in Sides, NEW p, Sound(p), Becomes(s, p)
    PROVE  /\ port' \in [Sides -> PortSet] /\ alarms' = p.alarms
           /\ \A o \in Sides : o # s => port'[o] = port[o]
           /\ port'[s].lcp = p.lcp /\ port'[s].ipcp = p.ipcp /\ port'[s].flags = p.flags
           /\ port'[s].odd = p.odd /\ port'[s].left = p.left /\ port'[s].dtr = p.dtr
<1>1. port \in [Sides -> PortSet] /\ port[s] \in PortSet
  BY DEF PppTypes
<1>2. port' = [port EXCEPT ![s] = Restrict(p, DOMAIN port[s])] /\ alarms' = p.alarms
  BY DEF Becomes
<1> DEFINE h == Restrict(p, DOMAIN port[s])
<1>3. DOMAIN port[s] = {"lcp", "ipcp", "flags", "took", "out", "dtr", "odd", "left"}
  BY <1>1 DEF PortSet
<1>4. h = [lcp |-> p.lcp, ipcp |-> p.ipcp, flags |-> p.flags, took |-> p.took, out |-> p.out,
           dtr |-> p.dtr, odd |-> p.odd, left |-> p.left]
  BY <1>3 DEF Restrict
<1> HIDE DEF h
<1>5. h \in PortSet
  BY <1>4 DEF Sound, Works, PortSet, Flags
<1>6. port' = [port EXCEPT ![s] = h]
  BY <1>2 DEF h
<1>7. /\ port' \in [Sides -> PortSet] /\ port'[s] = h
      /\ \A o \in Sides : o # s => port'[o] = port[o]
  BY <1>1, <1>5, <1>6
<1> QED BY <1>2, <1>4, <1>7

(***************************************************************************)
(* The invariant, host by host                                             *)
(***************************************************************************)
Shape ==
    /\ port \in [Sides -> PortSet] /\ line \in [Sides -> Seq(Packets)]
    /\ user \in [Sides -> {"off", "on", "closes", "waits"}]
    /\ turn \in Sides \cup {"any"} /\ plan \in PlanSet /\ faults \in Nat
    /\ alarms \in Seq(Sides \X Machines)
HostInv(s) ==
    /\ user[s] = "closes" => port[s].left \in States
    /\ user[s] # "closes" => port[s].lcp.event = "NONE"
    /\ user[s] = "off" => port[s].lcp.state = "INITIAL"
    /\ user[s] = "on" => /\ \A m \in Machines : <<s, m>> \in ToSet(alarms) => port[s][m].state \in Timed
                         /\ Layered(port[s]) /\ (~plan.modem => Straight(port[s]))

LEMMA InvParts ==
    /\ PppInv <=> Shape /\ OneTimerEach /\ \A s \in Sides : HostInv(s)
    /\ PppInv' <=> Shape' /\ OneTimerEach' /\ \A s \in Sides : HostInv(s)'
<1>1. PppInv <=> Shape /\ OneTimerEach /\ \A s \in Sides : HostInv(s)
  BY DEF PppInv, PppTypes, Shape, TimersAreDue, NothingRaised, HostInv
<1>2. PppInv' <=> Shape' /\ OneTimerEach' /\ \A s \in Sides : HostInv(s)'
  BY DEF PppInv, PppTypes, Shape, TimersAreDue, NothingRaised, HostInv
<1> QED BY <1>1, <1>2

LEMMA SaneOf ==
    ASSUME PppInv
    PROVE  Sane /\ Shape /\ OneTimerEach /\ \A s \in Sides : HostInv(s)
<1>1. PppTypes /\ OneTimerEach
  BY DEF PppInv
<1> QED BY <1>1, InvParts DEF Sane

\* A host that is on, at work.
LEMMA HostGood ==
    ASSUME PppInv, NEW s \in Sides, user[s] = "on", NEW pkt \in Packets \cup {NoPacket}
    PROVE  Good(At(s, pkt))
<1> DEFINE p == At(s, pkt)
<1>1. /\ Sound(p) /\ p.me = s /\ p.plan = plan /\ p.carrier = Carrier(s)
      /\ p.alarms = alarms /\ p.lcp = port[s].lcp /\ p.ipcp = port[s].ipcp
      /\ p.flags = port[s].flags /\ p.odd = port[s].odd
  BY SaneOf, AtSound
<1>2. HostInv(s)
  BY SaneOf
<1> HIDE DEF p
<1>3. Layered(p)
  BY <1>1, <1>2 DEF HostInv, Layered
<1>4. DueTimers(p)
  BY <1>1, <1>2 DEF HostInv, DueTimers, Rings, Machines
<1>5. p.lcp.event = "NONE"
  BY <1>1, <1>2 DEF HostInv
<1>6. ~p.plan.modem => Path(p)
  <2> SUFFICES ASSUME ~plan.modem PROVE Path(p)
    BY <1>1
  <2>1. Straight(p)
    BY <1>1, <1>2 DEF HostInv, Straight
  <2>2. p.carrier
    BY <1>1 DEF Carrier
  <2> QED BY <1>5, <2>1, <2>2 DEF Path
<1> QED BY <1>1, <1>3, <1>4, <1>5, <1>6 DEF Good, Steady, p

\* The other host is left alone.
LEMMA OtherStays ==
    ASSUME NEW o \in Sides, HostInv(o), user'[o] = user[o], port'[o] = port[o],
           plan'.modem = plan.modem,
           \A m \in Machines : <<o, m>> \in ToSet(alarms') => <<o, m>> \in ToSet(alarms)
    PROVE  HostInv(o)'
<1>1. Layered(port[o]) => Layered(port[o])'
  BY DEF Layered
<1>2. Straight(port[o]) => Straight(port[o])'
  BY DEF Straight
<1> QED BY <1>1, <1>2 DEF HostInv

\* What a step of the host s leaves of the timers.
LEMMA StepTimers ==
    ASSUME Shape, NEW s \in Sides, NEW q, Sound(q), q.me = s, Becomes(s, q),
           ToSet(q.alarms) \subseteq ToSet(alarms) \cup {<<s, m>> : m \in Machines}
    PROVE  /\ alarms' \in Seq(Sides \X Machines) /\ OneTimerEach'
           /\ \A o \in Sides, m \in Machines :
                o # s /\ <<o, m>> \in ToSet(alarms') => <<o, m>> \in ToSet(alarms)
<1>1. alarms' = q.alarms
  BY DEF Becomes
<1>2. q.alarms \in Seq(Timers) /\ Once(q.alarms)
  BY DEF Sound, Works
<1>3. OneTimerEach'
  BY <1>1, <1>2 DEF OneTimerEach, Once
<1>4. \A o \in Sides, m \in Machines :
        o # s /\ <<o, m>> \in ToSet(q.alarms) => <<o, m>> \in ToSet(alarms)
  OBVIOUS
<1> QED BY <1>1, <1>2, <1>3, <1>4 DEF Timers

\* The host is on after its step.
LEMMA HostIsOn ==
    ASSUME Sane, NEW s \in Sides, NEW q, Good(q), q.me = s, q.plan.modem = plan.modem,
           Becomes(s, q), user'[s] = "on", plan' = plan
    PROVE  HostInv(s)'
<1>1. /\ Sound(q) /\ Layered(q) /\ DueTimers(q) /\ q.lcp.event = "NONE"
      /\ ~plan.modem => Straight(q)
  BY DEF Good, Steady, Path
<1>2. /\ alarms' = q.alarms
      /\ port'[s].lcp = q.lcp /\ port'[s].ipcp = q.ipcp /\ port'[s].flags = q.flags
      /\ port'[s].odd = q.odd
  BY <1>1, BecomesSound DEF Sane
<1>3. Layered(port[s])'
  BY <1>1, <1>2 DEF Layered
<1>4. (~plan.modem => Straight(port[s]))'
  BY <1>1, <1>2 DEF Straight
<1>5. \A m \in Machines : <<s, m>> \in ToSet(alarms') => port'[s][m].state \in Timed
  BY <1>1, <1>2 DEF DueTimers, Rings, Machines
<1> QED BY <1>1, <1>2, <1>3, <1>4, <1>5 DEF HostInv

\* A step of the interrupt on a host that is not off.
LEMMA HostWorks ==
    ASSUME PppInv, NEW s \in Sides, Active(s), NEW pkt \in Packets \cup {NoPacket},
           NEW q, Worked(At(s, pkt), q), user[s] = "on" => Good(q),
           Becomes(s, q), user' = user, plan' = plan
    PROVE  /\ port' \in [Sides -> PortSet] /\ alarms' \in Seq(Sides \X Machines)
           /\ OneTimerEach' /\ \A o \in Sides : HostInv(o)'
<1> DEFINE p == At(s, pkt)
<1>1. Sane /\ PppTypes /\ Shape /\ \A o \in Sides : HostInv(o)
  BY SaneOf DEF Sane
<1>2. /\ p.me = s /\ p.plan = plan /\ p.alarms = alarms /\ p.lcp = port[s].lcp
      /\ p.left = port[s].left
  BY <1>1, AtSound
<1>3. Sound(q) /\ Same(p, q) /\ Rung(p, q, Machines) /\ (p.lcp.event = "NONE" => q.lcp.event = "NONE")
  BY DEF Worked
<1> HIDE DEF p
<1>4. q.me = s /\ q.plan = plan /\ q.left = port[s].left
      /\ ToSet(q.alarms) \subseteq ToSet(alarms) \cup {<<s, m>> : m \in Machines}
  BY <1>2, <1>3 DEF Same, Rung
<1>5. /\ port' \in [Sides -> PortSet] /\ \A o \in Sides : o # s => port'[o] = port[o]
      /\ port'[s].lcp = q.lcp /\ port'[s].left = q.left
  BY <1>1, <1>3, BecomesSound
<1>6. /\ alarms' \in Seq(Sides \X Machines) /\ OneTimerEach'
      /\ \A o \in Sides, m \in Machines :
           o # s /\ <<o, m>> \in ToSet(alarms') => <<o, m>> \in ToSet(alarms)
  BY <1>1, <1>3, <1>4, StepTimers
<1>7. HostInv(s)'
  <2>1. CASE user[s] = "on"
    BY <1>1, <1>4, <2>1, HostIsOn
  <2>2. CASE user[s] # "on"
    BY <1>1, <1>2, <1>3, <1>4, <1>5, <2>2 DEF HostInv, Active
  <2> QED BY <2>1, <2>2
<1>8. ASSUME NEW o \in Sides, o # s PROVE HostInv(o)'
  BY <1>1, <1>5, <1>6, <1>8, OtherStays
<1> QED BY <1>5, <1>6, <1>7, <1>8

(***************************************************************************)
(* The steps                                                               *)
(***************************************************************************)
LEMMA KeepsPackets ==
    ASSUME NEW lines \in [Sides -> Seq(Packets)], Keeps(lines)
    PROVE  line' \in [Sides -> Seq(Packets)]
BY DEF Keeps

LEMMA InitSound == PppInit => PppInv
<1> SUFFICES ASSUME PppInit PROVE PppInv
  OBVIOUS
<1>1. plan \in PlanSet
  BY PppAssumption DEF PppInit
<1>2. \A s \in Sides : plan.wants[s] \in SUBSET Wants
  BY <1>1 DEF PlanSet
<1>3. Machine \in MachineSet
  BY DEF Machine, MachineSet, States
<1>4. \A w \in SUBSET Wants : Off(w) \in PortSet /\ Off(w).lcp = Machine /\ Off(w).ipcp = Machine
  BY <1>3 DEF Off, PortSet
<1>5. \A s \in Sides : port[s] \in PortSet /\ port[s].lcp = Machine /\ user[s] = "off"
                       /\ line[s] = <<>>
  BY <1>2, <1>4 DEF PppInit
<1>6. port \in [Sides -> PortSet]
  BY <1>5 DEF PppInit
<1>7. user \in [Sides -> {"off", "on", "closes", "waits"}] /\ line \in [Sides -> Seq(Packets)]
      /\ turn \in Sides \cup {"any"} /\ faults \in Nat /\ alarms \in Seq(Sides \X Machines)
  BY <1>1 DEF PppInit, PlanSet
<1>8. OneTimerEach
  BY DEF OneTimerEach, PppInit
<1>9. \A s \in Sides : HostInv(s)
  BY <1>5 DEF HostInv, Machine
<1> QED BY <1>1, <1>6, <1>7, <1>8, <1>9, InvParts DEF Shape

\* All of a step, but what it makes of the line and its own host.
LEMMA OpenSound ==
    ASSUME PppInv, NEW s \in Sides, Open(s)
    PROVE  PppInv'
<1>1. Sane /\ PppTypes /\ Shape /\ OneTimerEach /\ \A o \in Sides : HostInv(o)
  BY SaneOf DEF Sane
<1>2. PICK w \in IF s \in plan.closes THEN {port[s].flags \cap Wants, {}} ELSE {plan.wants[s]} :
        Becomes(s, open_ppp([At(s, NoPacket) EXCEPT !.flags = w]))
  BY DEF Open
<1>3. /\ user[s] = "off" /\ Carrier(s) /\ user' = [user EXCEPT ![s] = "on"]
      /\ line' = line /\ turn' = turn /\ plan' = plan /\ faults' = faults
  BY DEF Open
<1> DEFINE a == At(s, NoPacket)
           p == [a EXCEPT !.flags = w]
           q == open_ppp(p)
<1>4. /\ Sound(a) /\ a.me = s /\ a.plan = plan /\ a.carrier = Carrier(s) /\ a.alarms = alarms
      /\ a.lcp = port[s].lcp
  BY <1>1, AtSound
<1> HIDE DEF a
<1>5. w \in SUBSET Flags
  <2>1. plan.wants \in [Sides -> SUBSET Wants]
    BY <1>1 DEF Shape, PlanSet
  <2> QED BY <2>1 DEF Flags
<1>6. /\ Sound(p) /\ p.me = s /\ p.plan = plan /\ p.carrier = Carrier(s) /\ p.alarms = alarms
      /\ p.lcp = port[s].lcp
  BY <1>4, <1>5 DEF Sound, Works
<1> HIDE DEF p
<1>7. p.lcp.state = "INITIAL" /\ p.lcp.event = "NONE" /\ p.carrier
  BY <1>1, <1>3, <1>6 DEF HostInv
<1>8. Good(q) /\ Worked(p, q)
  BY <1>6, <1>7, OpenGood
<1>9. Becomes(s, q)
  BY <1>2 DEF p, a
<1> HIDE DEF q
<1>10. /\ Sound(q) /\ q.me = s /\ q.plan = plan
       /\ ToSet(q.alarms) \subseteq ToSet(alarms) \cup {<<s, m>> : m \in Machines}
  BY <1>6, <1>8 DEF Worked, Same, Rung
<1>11. /\ user' \in [Sides -> {"off", "on", "closes", "waits"}] /\ user'[s] = "on"
       /\ \A o \in Sides : o # s => user'[o] = user[o]
  BY <1>1, <1>3 DEF Shape
<1>12. port' \in [Sides -> PortSet] /\ \A o \in Sides : o # s => port'[o] = port[o]
  BY <1>1, <1>9, <1>10, BecomesSound
<1>13. /\ alarms' \in Seq(Sides \X Machines) /\ OneTimerEach'
       /\ \A o \in Sides, m \in Machines :
            o # s /\ <<o, m>> \in ToSet(alarms') => <<o, m>> \in ToSet(alarms)
  BY <1>1, <1>9, <1>10, StepTimers
<1>14. HostInv(s)'
  BY <1>1, <1>3, <1>8, <1>9, <1>10, <1>11, HostIsOn
<1>15. ASSUME NEW o \in Sides, o # s PROVE HostInv(o)'
  BY <1>1, <1>3, <1>11, <1>12, <1>13, <1>15, OtherStays
<1>16. Shape'
  BY <1>1, <1>3, <1>11, <1>12, <1>13 DEF Shape
<1> QED BY <1>13, <1>14, <1>15, <1>16, InvParts

\* What is altered is not what the invariant looks at.
LEMMA HostStays ==
    ASSUME NEW s \in Sides, HostInv(s), user' = user, plan' = plan, alarms' = alarms,
           port'[s].lcp = port[s].lcp, port'[s].ipcp = port[s].ipcp,
           port'[s].flags = port[s].flags, port'[s].odd = port[s].odd, port'[s].left = port[s].left
    PROVE  HostInv(s)'
<1>1. Layered(port[s]) => Layered(port[s])'
  BY DEF Layered
<1>2. Straight(port[s]) => Straight(port[s])'
  BY DEF Straight
<1>3. \A m \in Machines : port'[s][m] = port[s][m]
  BY DEF Machines
<1> QED BY <1>1, <1>2, <1>3 DEF HostInv

LEMMA FlushSound ==
    ASSUME PppInv, NEW s \in Sides, Flush(s)
    PROVE  PppInv'
<1>1. Shape /\ OneTimerEach /\ \A o \in Sides : HostInv(o)
  BY SaneOf
<1>2. /\ port' = [port EXCEPT ![s].out = <<>>] /\ Keeps([line EXCEPT ![s] = port[s].out])
      /\ alarms' = alarms /\ user' = user /\ turn' = turn /\ plan' = plan /\ faults' = faults
  BY DEF Flush
<1> DEFINE h == [port[s] EXCEPT !.out = <<>>]
<1>3. port[s] \in PortSet /\ port[s].out \in Seq(Packets)
  BY <1>1 DEF Shape, PortSet
<1>4. /\ h \in PortSet /\ h.lcp = port[s].lcp /\ h.ipcp = port[s].ipcp
      /\ h.flags = port[s].flags /\ h.odd = port[s].odd /\ h.left = port[s].left
  <2> DEFINE x == port[s]
             n == <<>>
  <2>1. x \in PortSet /\ n \in Seq(Packets)
    BY <1>3
  <2> HIDE DEF x, n
  <2>2. LET y == [x EXCEPT !.out = n]
        IN  /\ y \in PortSet /\ y.lcp = x.lcp /\ y.ipcp = x.ipcp
            /\ y.flags = x.flags /\ y.odd = x.odd /\ y.left = x.left
    BY <2>1 DEF PortSet
  <2> QED BY <2>2 DEF x, n
<1>5. port' = [port EXCEPT ![s] = h]
  BY <1>2
<1> HIDE DEF h
<1>6. /\ port' \in [Sides -> PortSet] /\ port'[s] = h
      /\ \A o \in Sides : o # s => port'[o] = port[o]
  BY <1>1, <1>4, <1>5 DEF Shape
<1>7. line' \in [Sides -> Seq(Packets)]
  <2>1. [line EXCEPT ![s] = port[s].out] \in [Sides -> Seq(Packets)]
    BY <1>1, <1>3 DEF Shape
  <2> QED BY <1>2, <2>1, KeepsPackets
<1>8. \A o \in Sides : HostInv(o)'
  BY <1>1, <1>2, <1>4, <1>6, HostStays
<1>9. OneTimerEach'
  BY <1>1, <1>2 DEF OneTimerEach
<1>10. Shape'
  BY <1>1, <1>2, <1>6, <1>7 DEF Shape
<1> QED BY <1>8, <1>9, <1>10, InvParts

\* A step that leaves the port and its timers alone.
LEMMA QuietStep ==
    ASSUME PppInv, port' = port, user' = user, plan' = plan, alarms' = alarms
    PROVE  /\ port' \in [Sides -> PortSet] /\ alarms' \in Seq(Sides \X Machines)
           /\ OneTimerEach' /\ \A o \in Sides : HostInv(o)'
<1>1. Shape /\ OneTimerEach /\ \A o \in Sides : HostInv(o)
  BY SaneOf
<1>2. OneTimerEach'
  BY <1>1 DEF OneTimerEach
<1> QED BY <1>1, <1>2, HostStays DEF Shape

LEMMA TailOfPackets ==
    ASSUME Shape, NEW o \in Sides, line[o] # <<>>
    PROVE  /\ Head(line[o]) \in Packets
           /\ [line EXCEPT ![o] = Tail(@)] \in [Sides -> Seq(Packets)]
<1>1. line \in [Sides -> Seq(Packets)] /\ line[o] \in Seq(Packets)
  BY DEF Shape
<1>2. Head(line[o]) \in Packets /\ Tail(line[o]) \in Seq(Packets)
  BY <1>1, HeadTailProperties
<1> QED BY <1>1, <1>2

LEMMA ArriveSound ==
    ASSUME PppInv, NEW s \in Sides, Arrive(s)
    PROVE  PppInv'
<1> DEFINE o == Peer(s)
           pkt == Head(line[o])
           a == At(s, pkt)
           q == ppp_control(a)
<1>1. Sane /\ Shape
  BY SaneOf
<1>2. /\ line[o] # <<>> /\ Keeps([line EXCEPT ![o] = Tail(@)])
      /\ user' = user /\ turn' = turn /\ plan' = plan /\ faults' = faults
      /\ IF Active(s) THEN Becomes(s, q) ELSE port' = port /\ alarms' = alarms
  BY DEF Arrive
<1>3. o \in Sides
  BY DEF Peer, Sides
<1> HIDE DEF o
<1>4. pkt \in Packets /\ line' \in [Sides -> Seq(Packets)]
  BY <1>1, <1>2, <1>3, TailOfPackets, KeepsPackets
<1>5. /\ port' \in [Sides -> PortSet] /\ alarms' \in Seq(Sides \X Machines)
      /\ OneTimerEach' /\ \A h \in Sides : HostInv(h)'
  <2>1. CASE Active(s)
    <3> HIDE DEF pkt
    <3>1. Sound(a) /\ a.pkt = pkt
      BY <1>1, <1>4, AtSound
    <3>2. user[s] = "on" => Good(a)
      BY <1>4, HostGood
    <3> HIDE DEF a
    <3>3. Worked(a, q) /\ (user[s] = "on" => Good(q))
      BY <1>4, <3>1, <3>2, NetworkSound, NetworkGood
    <3> HIDE DEF q
    <3>4. Worked(At(s, pkt), q) /\ Becomes(s, q)
      BY <1>2, <2>1, <3>3 DEF a
    <3> QED BY <1>2, <1>4, <2>1, <3>3, <3>4, HostWorks
  <2>2. CASE ~Active(s)
    BY <1>2, <2>2, QuietStep
  <2> QED BY <2>1, <2>2
<1>6. Shape'
  BY <1>1, <1>2, <1>4, <1>5 DEF Shape
<1> QED BY <1>5, <1>6, InvParts

LEMMA RingSound ==
    ASSUME PppInv, NEW s \in Sides, NEW m \in Machines, Runs(s, m), Ring(s, m), faults' \in Nat
    PROVE  PppInv'
<1> DEFINE a == At(s, NoPacket)
           q == timer_event(a, m)
<1>1. Sane /\ Shape
  BY SaneOf
<1>2. /\ Becomes(s, q) /\ Keeps(line) /\ user' = user /\ turn' = turn /\ plan' = plan
      /\ Active(s) /\ <<s, m>> \in ToSet(alarms)
  BY DEF Ring, Runs
<1>3. Sound(a) /\ a.me = s /\ a.alarms = alarms
  BY <1>1, AtSound
<1>4. user[s] = "on" => Good(a)
  BY HostGood
<1> HIDE DEF a
<1>5. Worked(a, q) /\ (user[s] = "on" => Good(q))
  BY <1>2, <1>3, <1>4, TimerSound, TimerGood DEF Rings
<1> HIDE DEF q
<1>6. /\ port' \in [Sides -> PortSet] /\ alarms' \in Seq(Sides \X Machines)
      /\ OneTimerEach' /\ \A h \in Sides : HostInv(h)'
  BY <1>2, <1>5, HostWorks DEF a
<1>7. line' \in [Sides -> Seq(Packets)]
  BY <1>1, <1>2, KeepsPackets DEF Shape
<1>8. Shape'
  BY <1>1, <1>2, <1>6, <1>7 DEF Shape
<1> QED BY <1>6, <1>8, InvParts

LEMMA LoseSound ==
    ASSUME PppInv, NEW s \in Sides, Lose(s)
    PROVE  PppInv'
<1>1. Shape
  BY SaneOf
<1>2. /\ faults > 0 /\ faults' = faults - 1 /\ line[s] # <<>> /\ line' = [line EXCEPT ![s] = Tail(@)]
      /\ port' = port /\ user' = user /\ turn' = turn /\ plan' = plan /\ alarms' = alarms
  BY DEF Lose
<1>3. /\ port' \in [Sides -> PortSet] /\ alarms' \in Seq(Sides \X Machines)
      /\ OneTimerEach' /\ \A o \in Sides : HostInv(o)'
  BY <1>2, QuietStep
<1>4. line' \in [Sides -> Seq(Packets)]
  BY <1>1, <1>2, TailOfPackets
<1>5. faults' \in Nat
  BY <1>1, <1>2 DEF Shape
<1>6. Shape'
  BY <1>1, <1>2, <1>3, <1>4, <1>5 DEF Shape
<1> QED BY <1>3, <1>6, InvParts

LEMMA MaintainStep ==
    ASSUME PppInv, NEW s \in Sides, Maintain(s)
    PROVE  PppInv'
<1> DEFINE a == At(s, NoPacket)
           q == link_maintain(a)
<1>1. Sane /\ Shape
  BY SaneOf
<1>2. /\ plan.modem /\ Keeps(line) /\ user' = user /\ plan' = plan /\ faults' = faults
      /\ IF Active(s) THEN Becomes(s, q) ELSE port' = port /\ alarms' = alarms
      /\ turn' \in {Peer(s), "any"}
  BY DEF Maintain
<1>3. turn' \in Sides \cup {"any"}
  BY <1>2 DEF Peer, Sides
<1>4. /\ port' \in [Sides -> PortSet] /\ alarms' \in Seq(Sides \X Machines)
      /\ OneTimerEach' /\ \A h \in Sides : HostInv(h)'
  <2>1. CASE Active(s)
    <3>1. Sound(a) /\ a.plan = plan
      BY <1>1, AtSound
    <3>2. user[s] = "on" => Good(a)
      BY HostGood
    <3> HIDE DEF a
    <3>3. Worked(a, q) /\ (user[s] = "on" => Good(q))
      BY <1>2, <3>1, <3>2, MaintainSound, MaintainGood
    <3> HIDE DEF q
    <3> QED BY <1>2, <2>1, <3>3, HostWorks DEF a
  <2>2. CASE ~Active(s)
    BY <1>2, <2>2, QuietStep
  <2> QED BY <2>1, <2>2
<1>5. line' \in [Sides -> Seq(Packets)]
  BY <1>1, <1>2, KeepsPackets DEF Shape
<1>6. Shape'
  BY <1>1, <1>2, <1>3, <1>4, <1>5 DEF Shape
<1> QED BY <1>4, <1>6, InvParts

\* A step of close_ppp: the machines are nobody's but the task's, and the event's.
LEMMA TaskStep ==
    ASSUME PppInv, NEW s \in Sides, NEW q, Sound(q), q.me = s, q.left = "NONE" \/ q.left \in States,
           ToSet(q.alarms) \subseteq ToSet(alarms) \cup {<<s, m>> : m \in Machines},
           Becomes(s, q), plan' = plan, NEW at \in {"closes", "waits"},
           user' = [user EXCEPT ![s] = at],
           at = "closes" => q.left \in States, at = "waits" => q.lcp.event = "NONE"
    PROVE  /\ port' \in [Sides -> PortSet] /\ alarms' \in Seq(Sides \X Machines)
           /\ user' \in [Sides -> {"off", "on", "closes", "waits"}]
           /\ OneTimerEach' /\ \A o \in Sides : HostInv(o)'
<1>1. Sane /\ PppTypes /\ Shape /\ \A o \in Sides : HostInv(o)
  BY SaneOf DEF Sane
<1>2. /\ port' \in [Sides -> PortSet] /\ \A o \in Sides : o # s => port'[o] = port[o]
      /\ port'[s].lcp = q.lcp /\ port'[s].left = q.left
  BY <1>1, BecomesSound
<1>3. /\ alarms' \in Seq(Sides \X Machines) /\ OneTimerEach'
      /\ \A o \in Sides, m \in Machines :
           o # s /\ <<o, m>> \in ToSet(alarms') => <<o, m>> \in ToSet(alarms)
  BY <1>1, StepTimers
<1>4. /\ user' \in [Sides -> {"off", "on", "closes", "waits"}] /\ user'[s] = at
      /\ \A o \in Sides : o # s => user'[o] = user[o]
  BY <1>1 DEF Shape
<1>5. HostInv(s)'
  BY <1>2, <1>4 DEF HostInv
<1>6. ASSUME NEW o \in Sides, o # s PROVE HostInv(o)'
  BY <1>1, <1>2, <1>3, <1>4, <1>6, OtherStays
<1> QED BY <1>2, <1>3, <1>4, <1>5, <1>6

LEMMA LeftSound ==
    ASSUME NEW p, Sound(p), NEW left \in States \cup {"NONE"}
    PROVE  LET q == [p EXCEPT !.left = left]
           IN  /\ Sound(q) /\ q.left = left /\ q.me = p.me /\ q.alarms = p.alarms
               /\ q.lcp = p.lcp
BY DEF Sound, Works

LEMMA CloseSound ==
    ASSUME PppInv, NEW s \in Sides, Close(s)
    PROVE  PppInv'
<1> DEFINE a == At(s, NoPacket)
           f == a.flags \ {"DONE", "DCD_UP"}
           b == [a EXCEPT !.flags = f]
           r == Acts(b, "lcp", "CLOSE", lcp_up_down)
           left == trantab[port[s].lcp.state].CLOSE.new
           q == [r EXCEPT !.left = left]
<1>1. Sane /\ Shape
  BY SaneOf
<1>2. /\ user' = [user EXCEPT ![s] = "closes"] /\ Becomes(s, q)
      /\ line' = line /\ turn' = turn /\ plan' = plan /\ faults' = faults
  BY DEF Close
<1>3. Sound(a) /\ a.me = s /\ a.alarms = alarms /\ a.lcp = port[s].lcp
  BY <1>1, AtSound
<1> HIDE DEF a
<1>4. f \in SUBSET Flags
  BY <1>3 DEF Sound, Works
<1> HIDE DEF f
<1>5. Sound(b) /\ b.me = s /\ b.alarms = alarms /\ b.lcp = port[s].lcp
  BY <1>3, <1>4 DEF Sound, Works
<1> HIDE DEF b
<1>6. "lcp" \in Machines /\ "CLOSE" \in Events
  BY DEF Machines, Events
<1>7. Sound(r) /\ Same(b, r) /\ Rung(b, r, Machines)
  BY <1>5, <1>6, LcpResult DEF Result
<1>8. left \in States
  <2>1. left = Entry(b, "lcp", "CLOSE").new
    BY <1>5 DEF Entry
  <2> QED BY <2>1, <1>5, <1>6, EntryOf
<1> HIDE DEF r, left
<1>9. Sound(q) /\ q.left = left /\ q.me = r.me /\ q.alarms = r.alarms
  BY <1>7, <1>8, LeftSound
<1> HIDE DEF q
<1>10. /\ q.me = s /\ ToSet(q.alarms) \subseteq ToSet(alarms) \cup {<<s, m>> : m \in Machines}
  BY <1>5, <1>7, <1>9 DEF Same, Rung
<1>11. /\ port' \in [Sides -> PortSet] /\ alarms' \in Seq(Sides \X Machines)
       /\ user' \in [Sides -> {"off", "on", "closes", "waits"}]
       /\ OneTimerEach' /\ \A o \in Sides : HostInv(o)'
  <2> DEFINE at == "closes"
  <2>1. at \in {"closes", "waits"} /\ at # "waits" /\ user' = [user EXCEPT ![s] = at]
    BY <1>2
  <2> HIDE DEF at
  <2> QED BY <1>2, <1>8, <1>9, <1>10, <2>1, TaskStep
<1>12. Shape'
  BY <1>1, <1>2, <1>11 DEF Shape
<1> QED BY <1>11, <1>12, InvParts

LEMMA ClosingSound ==
    ASSUME PppInv, NEW s \in Sides, Closing(s)
    PROVE  PppInv'
<1> DEFINE a == At(s, NoPacket)
           b == Leads(a, "lcp", port[s].left)
           r == Chain(b)
           q == [r EXCEPT !.left = "NONE"]
<1>1. Sane /\ Shape /\ HostInv(s)
  BY SaneOf
<1>2. /\ user[s] = "closes" /\ user' = [user EXCEPT ![s] = "waits"] /\ Becomes(s, q) /\ Keeps(line)
      /\ turn' = turn /\ plan' = plan /\ faults' = faults
  BY DEF Closing
<1>3. Sound(a) /\ a.me = s /\ a.alarms = alarms
  BY <1>1, AtSound
<1> HIDE DEF a
<1>4. Sound(b) /\ Same(a, b) /\ ToSet(b.alarms) \subseteq ToSet(a.alarms)
  <2>1. port[s].left \in States
    BY <1>1, <1>2 DEF HostInv
  <2> QED BY <1>3, <2>1, LeadsEach
<1> HIDE DEF b
<1>5. Sound(r) /\ Same(b, r) /\ Rung(b, r, Machines) /\ r.lcp.event = "NONE"
  BY <1>4, ChainSound
<1> HIDE DEF r
<1>6. Sound(q) /\ q.left = "NONE" /\ q.me = r.me /\ q.alarms = r.alarms /\ q.lcp = r.lcp
  BY <1>5, LeftSound
<1> HIDE DEF q
<1>7. /\ q.me = s /\ ToSet(q.alarms) \subseteq ToSet(alarms) \cup {<<s, m>> : m \in Machines}
      /\ q.lcp.event = "NONE"
  BY <1>3, <1>4, <1>5, <1>6 DEF Same, Rung
<1>8. /\ port' \in [Sides -> PortSet] /\ alarms' \in Seq(Sides \X Machines)
      /\ user' \in [Sides -> {"off", "on", "closes", "waits"}]
      /\ OneTimerEach' /\ \A o \in Sides : HostInv(o)'
  <2> DEFINE at == "waits"
  <2>1. at \in {"closes", "waits"} /\ at # "closes" /\ user' = [user EXCEPT ![s] = at]
    BY <1>2
  <2> HIDE DEF at
  <2> QED BY <1>2, <1>6, <1>7, <2>1, TaskStep
<1>9. line' \in [Sides -> Seq(Packets)]
  BY <1>1, <1>2, KeepsPackets DEF Shape
<1>10. Shape'
  BY <1>1, <1>2, <1>8, <1>9 DEF Shape
<1> QED BY <1>8, <1>10, InvParts

LEMMA ClosedSound ==
    ASSUME PppInv, NEW s \in Sides, Closed(s)
    PROVE  PppInv'
<1>1. Shape /\ OneTimerEach /\ \A o \in Sides : HostInv(o)
  BY SaneOf
<1>2. PICK n \in 0 .. Len(line[s]) : line' = [line EXCEPT ![s] = SubSeq(@, 1, n)]
  BY DEF Closed
<1>3. /\ user[s] = "waits" /\ user' = [user EXCEPT ![s] = "off"]
      /\ port' = [port EXCEPT ![s].lcp.state = "INITIAL", ![s].ipcp.state = "INITIAL"]
      /\ plan' = [plan EXCEPT !.closes = @ \ {s}]
      /\ turn' = turn /\ alarms' = alarms /\ faults' = faults
  BY DEF Closed
<1> DEFINE x == [port[s].lcp EXCEPT !.state = "INITIAL"]
           y == [port[s].ipcp EXCEPT !.state = "INITIAL"]
           h == [port[s] EXCEPT !.lcp = x, !.ipcp = y]
<1>4. port[s] \in PortSet /\ port[s].lcp \in MachineSet /\ port[s].ipcp \in MachineSet
  BY <1>1 DEF Shape, PortSet
<1>5. x \in MachineSet /\ y \in MachineSet /\ x.state = "INITIAL" /\ x.event = port[s].lcp.event
  BY <1>4 DEF MachineSet, States
<1>6. port' = [port EXCEPT ![s] = h]
  BY <1>1, <1>3, <1>4 DEF Shape, PortSet
<1> HIDE DEF x, y
<1>7. h \in PortSet /\ h.lcp = x
  BY <1>4, <1>5 DEF PortSet
<1> HIDE DEF h
<1>8. /\ port' \in [Sides -> PortSet] /\ port'[s] = h
      /\ \A o \in Sides : o # s => port'[o] = port[o]
  BY <1>1, <1>6, <1>7 DEF Shape
<1>9. /\ user' \in [Sides -> {"off", "on", "closes", "waits"}] /\ user'[s] = "off"
      /\ \A o \in Sides : o # s => user'[o] = user[o]
  BY <1>1, <1>3 DEF Shape
<1>10. plan' \in PlanSet /\ plan'.modem = plan.modem
  BY <1>1, <1>3 DEF Shape, PlanSet
<1>11. line' \in [Sides -> Seq(Packets)]
  <2>1. line \in [Sides -> Seq(Packets)] /\ line[s] \in Seq(Packets)
    BY <1>1 DEF Shape
  <2>2. SubSeq(line[s], 1, n) \in Seq(Packets)
    BY <2>1, <1>2, SubSeqProperties, LenProperties
  <2> QED BY <1>2, <2>1, <2>2
<1>12. HostInv(s)'
  BY <1>1, <1>3, <1>5, <1>7, <1>8, <1>9 DEF HostInv
<1>13. ASSUME NEW o \in Sides, o # s PROVE HostInv(o)'
  <2>1. \A m \in Machines : <<o, m>> \in ToSet(alarms') => <<o, m>> \in ToSet(alarms)
    BY <1>3
  <2> QED BY <1>1, <1>8, <1>9, <1>10, <1>13, <2>1, OtherStays
<1>14. OneTimerEach'
  BY <1>1, <1>3 DEF OneTimerEach
<1>15. Shape'
  BY <1>1, <1>3, <1>8, <1>9, <1>10, <1>11 DEF Shape
<1> QED BY <1>12, <1>13, <1>14, <1>15, InvParts

LEMMA PppInvKept == PppInv /\ [PppNext]_ppp_vars => PppInv'
<1> SUFFICES ASSUME PppInv, [PppNext]_ppp_vars PROVE PppInv'
  OBVIOUS
<1>1. ASSUME NEW s \in Sides, NEW m \in Machines, Timer(s, m) PROVE PppInv'
  <2>1. Runs(s, m) /\ Ring(s, m) /\ faults' = faults
    BY <1>1 DEF Timer
  <2>2. faults' \in Nat
    BY <2>1, SaneOf DEF Shape
  <2> QED BY <2>1, <2>2, RingSound
<1>2. ASSUME NEW s \in Sides, NEW m \in Machines, TooEarly(s, m) PROVE PppInv'
  <2>1. Runs(s, m) /\ Ring(s, m) /\ faults > 0 /\ faults' = faults - 1
    BY <1>2 DEF TooEarly
  <2>2. faults' \in Nat
    BY <2>1, SaneOf DEF Shape
  <2> QED BY <2>1, <2>2, RingSound
<1>3. ASSUME NEW s \in Sides, Soon(s) PROVE PppInv'
  <2>1. CASE Flush(s)
    BY <2>1, FlushSound
  <2>2. CASE Arrive(s)
    BY <2>2, ArriveSound
  <2>3. CASE Closing(s)
    BY <2>3, ClosingSound
  <2>4. CASE Closed(s)
    BY <2>4, ClosedSound
  <2> QED BY <1>3, <2>1, <2>2, <2>3, <2>4 DEF Soon
<1>4. ASSUME NEW s \in Sides, Later(s) PROVE PppInv'
  <2>1. CASE Lose(s)
    BY <2>1, LoseSound
  <2>2. CASE Close(s)
    BY <2>2, CloseSound
  <2> QED BY <1>2, <1>4, <2>1, <2>2 DEF Later
<1>5. ASSUME NEW s \in Sides, Open(s) PROVE PppInv'
  BY <1>5, OpenSound
<1>6. ASSUME NEW s \in Sides, Maintain(s) PROVE PppInv'
  BY <1>6, MaintainStep
<1>7. CASE Timeout
  BY <1>1, <1>7 DEF Timeout
<1>8. CASE UNCHANGED ppp_vars
  <2>1. /\ port' = port /\ line' = line /\ user' = user /\ turn' = turn /\ plan' = plan
        /\ alarms' = alarms /\ faults' = faults
    BY <1>8 DEF ppp_vars
  <2>2. /\ port' \in [Sides -> PortSet] /\ alarms' \in Seq(Sides \X Machines)
        /\ OneTimerEach' /\ \A o \in Sides : HostInv(o)'
    BY <2>1, QuietStep
  <2>3. Shape'
    BY <2>1, SaneOf DEF Shape
  <2> QED BY <2>2, <2>3, InvParts
<1> QED BY <1>3, <1>4, <1>5, <1>6, <1>7, <1>8 DEF PppNext

\* All that is proved of PPP is in PppInv.
THEOREM PppInvOK == PppSpec => []PppInv
<1>1. PppInit => PppInv
  BY InitSound
<1>2. PppInv /\ [PppNext]_ppp_vars => PppInv'
  BY PppInvKept
<1> QED BY <1>1, <1>2, PTL DEF PppSpec

\* The machines of PPP are in a state of the table, and close_ppp's event leads to one, for
\* all plans: any options, any number of tries and faults.
THEOREM PppTypesOK == PppSpec => []PppTypes
<1>1. PppInv => PppTypes
  BY DEF PppInv
<1> QED BY <1>1, PppInvOK, PTL

\* IPCP is negotiated over an open link only (p_xcp.c:58, p_misc.c:265), whatever the packets,
\* the timers, the modems and the users do, with any number of tries and faults.
THEOREM LayersAlwaysAgree == PppSpec => []LayersAgree
<1>1. PppInv => LayersAgree
  BY DEF PppInv, Layered, LayersAgree, Below
<1> QED BY <1>1, PppInvOK, PTL

\* Without a modem no event that comes to a machine is one its table does not expect
\* (EMPTY, trantab.h:8).
THEOREM OnlyTheExpected == PppSpec => []Expected
<1>1. PppInv => Expected
  BY DEF PppInv, Straight, Expected
<1> QED BY <1>1, PppInvOK, PTL

\* The chain of events in do_automaton ends (p_autom.c:178): no event that an action raised is
\* left when the interrupt returns.
THEOREM NoEventIsLeft == PppSpec => []NothingRaised
<1>1. PppInv => NothingRaised
  BY DEF PppInv
<1> QED BY <1>1, PppInvOK, PTL

\* A restart timer runs only for a machine that waits for an answer (p_autom.c:175), and no
\* machine has two.
THEOREM TimersWaitForAnswers == PppSpec => [](TimersAreDue /\ OneTimerEach)
<1>1. PppInv => TimersAreDue /\ OneTimerEach
  BY DEF PppInv
<1> QED BY <1>1, PppInvOK, PTL
=============================================================================
