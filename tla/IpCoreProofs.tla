---------------------------- MODULE IpCoreProofs ----------------------------
(***************************************************************************)
(* For any number of datagrams, any headers and any use of the network     *)
(* port: every datagram has one owner, nothing leaks, and the protocols    *)
(* read their datagrams in order.                                          *)
(***************************************************************************)
EXTENDS IpCore, FiniteSetTheorems, SequenceLemmas, TLAPS

(***************************************************************************)
(* How often a datagram is linked                                          *)
(***************************************************************************)
Occ(q, d) == {i \in 1 .. Len(q) : q[i] = d}

LEMMA OccFinite ==
    ASSUME NEW q \in Seq(Dgrams), NEW d \in Dgrams
    PROVE  /\ IsFiniteSet(Occ(q, d)) /\ In(q, d) = Cardinality(Occ(q, d)) /\ In(q, d) \in Nat
<1>1. IsFiniteSet(1 .. Len(q))
  BY LenProperties, FS_Interval
<1>2. Occ(q, d) \in SUBSET (1 .. Len(q)) /\ In(q, d) = Cardinality(Occ(q, d))
  BY DEF Occ, In
<1>3. IsFiniteSet(Occ(q, d))
  BY <1>1, <1>2, FS_Subset
<1> QED BY <1>2, <1>3, FS_CardinalityType

\* q is r with e put in at place k.
Inserted(q, r, k, e) ==
    /\ k \in 1 .. Len(r) + 1 /\ Len(q) = Len(r) + 1 /\ q[k] = e
    /\ \A j \in 1 .. Len(r) : q[IF j < k THEN j ELSE j + 1] = r[j]

LEMMA InsertCounts ==
    ASSUME NEW q \in Seq(Dgrams), NEW r \in Seq(Dgrams), NEW k, NEW e, Inserted(q, r, k, e), NEW d \in Dgrams
    PROVE  In(q, d) = In(r, d) + (IF d = e THEN 1 ELSE 0)
<1> DEFINE up(j) == IF j < k THEN j ELSE j + 1
           f == [j \in Occ(r, d) |-> up(j)]
           rest == Occ(q, d) \ {k}
<1>1. Len(q) \in Nat /\ Len(r) \in Nat /\ k \in Nat /\ Len(q) = Len(r) + 1 /\ k \in 1 .. Len(r) + 1
  BY LenProperties DEF Inserted
<1>2. \A j \in 1 .. Len(r) : up(j) \in 1 .. Len(q) /\ up(j) # k /\ q[up(j)] = r[j]
  BY <1>1 DEF Inserted
<1>3. f \in [Occ(r, d) -> rest]
  BY <1>2 DEF Occ
<1>4. \A i, j \in Occ(r, d) : f[i] = f[j] => i = j
  BY <1>1 DEF Occ
<1>5. \A i \in rest : \E j \in Occ(r, d) : f[j] = i
  <2> TAKE i \in rest
  <2> DEFINE j == IF i < k THEN i ELSE i - 1
  <2>1. i \in 1 .. Len(q) /\ i # k /\ q[i] = d
    BY DEF Occ
  <2>2. j \in 1 .. Len(r) /\ up(j) = i
    BY <1>1, <2>1
  <2>3. j \in Occ(r, d)
    BY <1>2, <2>1, <2>2 DEF Occ
  <2> QED BY <2>2, <2>3
<1>6. f \in Bijection(Occ(r, d), rest)
  BY <1>3, <1>4, <1>5 DEF Bijection, Injection, Surjection, IsInjective
<1>7. Cardinality(rest) = Cardinality(Occ(r, d))
  <2>1. ExistsBijection(Occ(r, d), rest)
    BY <1>6 DEF ExistsBijection
  <2> QED BY <2>1, OccFinite, FS_Bijection
<1>8. IsFiniteSet(Occ(q, d)) /\ Cardinality(Occ(q, d)) \in Nat
  BY OccFinite
<1>9. Cardinality(rest) = IF k \in Occ(q, d) THEN Cardinality(Occ(q, d)) - 1 ELSE Cardinality(Occ(q, d))
  BY <1>8, FS_RemoveElement
<1>10. k \in Occ(q, d) <=> d = e
  BY <1>1 DEF Occ, Inserted
<1> QED BY <1>7, <1>8, <1>9, <1>10, OccFinite

LEMMA LinkedCounts ==
    ASSUME NEW q \in Seq(Dgrams)
    PROVE  /\ \A d \in Dgrams : In(q, d) \in Nat
           /\ \A d \in Dgrams : In(q, d) > 0 <=> \E i \in 1 .. Len(q) : q[i] = d
<1>1. ASSUME NEW d \in Dgrams PROVE In(q, d) > 0 <=> \E i \in 1 .. Len(q) : q[i] = d
  <2>1. IsFiniteSet(Occ(q, d)) /\ In(q, d) = Cardinality(Occ(q, d)) /\ In(q, d) \in Nat
    BY OccFinite
  <2>2. Cardinality(Occ(q, d)) = 0 <=> Occ(q, d) = {}
    BY <2>1, FS_EmptySet
  <2> QED BY <2>1, <2>2 DEF Occ
<1> QED BY <1>1, OccFinite

LEMMA EmptyCounts == \A d \in Dgrams : In(<<>>, d) = 0
<1> DEFINE none == <<>>
<1>1. none \in Seq(Dgrams) /\ Len(none) = 0
  BY EmptySeq
<1> SUFFICES \A d \in Dgrams : In(none, d) = 0
  OBVIOUS
<1> HIDE DEF none
<1>2. \A i \in 1 .. Len(none) : FALSE
  BY <1>1
<1>3. \A d \in Dgrams : In(none, d) \in Nat /\ ~(In(none, d) > 0)
  BY <1>1, <1>2, LinkedCounts
<1> QED BY <1>3

LEMMA AppendCounts ==
    ASSUME NEW q \in Seq(Dgrams), NEW e \in Dgrams
    PROVE  /\ Append(q, e) \in Seq(Dgrams)
           /\ \A d \in Dgrams : In(Append(q, e), d) = In(q, d) + (IF d = e THEN 1 ELSE 0)
<1>1. Len(q) \in Nat
  BY LenProperties
<1> DEFINE longer == Append(q, e)
<1>2. longer \in Seq(Dgrams)
  OBVIOUS
<1>3. Inserted(longer, q, Len(q) + 1, e)
  BY <1>1 DEF Inserted
<1> SUFFICES longer \in Seq(Dgrams)
             /\ \A d \in Dgrams : In(longer, d) = In(q, d) + (IF d = e THEN 1 ELSE 0)
  OBVIOUS
<1> HIDE DEF longer
<1> QED BY <1>2, <1>3, InsertCounts

LEMMA FirstCounts ==
    ASSUME NEW q \in Seq(Dgrams), NEW e \in Dgrams
    PROVE  /\ <<e>> \o q \in Seq(Dgrams)
           /\ \A d \in Dgrams : In(<<e>> \o q, d) = In(q, d) + (IF d = e THEN 1 ELSE 0)
<1>1. Len(q) \in Nat
  BY LenProperties
<1> DEFINE long == <<e>> \o q
<1>2. /\ long \in Seq(Dgrams) /\ Len(long) = Len(q) + 1 /\ long[1] = e
      /\ \A i \in 2 .. Len(q) + 1 : long[i] = q[i - 1]
  BY PrependSound
<1> HIDE DEF long
<1>3. Inserted(long, q, 1, e)
  <2>1. \A j \in 1 .. Len(q) : long[j + 1] = q[j]
    BY <1>1, <1>2
  <2> QED BY <1>1, <1>2, <2>1 DEF Inserted
<1>4. long \in Seq(Dgrams) /\ \A d \in Dgrams : In(long, d) = In(q, d) + (IF d = e THEN 1 ELSE 0)
  BY <1>2, <1>3, InsertCounts
<1> QED BY <1>4 DEF long

LEMMA RemoveCounts ==
    ASSUME NEW q \in Seq(Dgrams), NEW i \in 1 .. Len(q)
    PROVE  /\ q[i] \in Dgrams
           /\ RemoveAt(q, i) \in Seq(Dgrams)
           /\ \A d \in Dgrams : In(q, d) = In(RemoveAt(q, i), d) + (IF d = q[i] THEN 1 ELSE 0)
<1>1. Len(q) \in Nat /\ q[i] \in Dgrams
  BY LenProperties, ElementOfSeq
<1>2. /\ RemoveAt(q, i) \in Seq(Dgrams) /\ Len(RemoveAt(q, i)) = Len(q) - 1
      /\ \A j \in 1 .. Len(q) - 1 : RemoveAt(q, i)[j] = IF j < i THEN q[j] ELSE q[j + 1]
  BY RemoveSound
<1>3. Inserted(q, RemoveAt(q, i), i, q[i])
  BY <1>1, <1>2 DEF Inserted
<1> QED BY <1>1, <1>2, <1>3, InsertCounts

LEMMA TailCounts ==
    ASSUME NEW q \in Seq(Dgrams), q # <<>>
    PROVE  /\ Head(q) \in Dgrams /\ In(q, Head(q)) > 0
           /\ Tail(q) \in Seq(Dgrams)
           /\ \A d \in Dgrams : In(q, d) = In(Tail(q), d) + (IF d = Head(q) THEN 1 ELSE 0)
<1>1. Len(q) \in Nat \ {0} /\ Head(q) = q[1]
  BY EmptySeq
<1>2. /\ Head(q) \in Dgrams /\ Tail(q) \in Seq(Dgrams) /\ Len(Tail(q)) = Len(q) - 1
      /\ \A i \in 1 .. Len(Tail(q)) : Tail(q)[i] = q[i + 1]
  BY HeadTailProperties
<1> DEFINE first == Head(q)
           rest  == Tail(q)
<1>3. Inserted(q, rest, 1, first)
  BY <1>1, <1>2 DEF Inserted
<1>4. first \in Dgrams /\ rest \in Seq(Dgrams) /\ first = q[1] /\ 1 \in 1 .. Len(q)
  BY <1>1, <1>2
<1> SUFFICES /\ first \in Dgrams /\ In(q, first) > 0
             /\ rest \in Seq(Dgrams)
             /\ \A d \in Dgrams : In(q, d) = In(rest, d) + (IF d = first THEN 1 ELSE 0)
  OBVIOUS
<1> HIDE DEF first, rest
<1> QED BY <1>3, <1>4, InsertCounts, LinkedCounts

LEMMA FrontCounts ==
    ASSUME NEW q \in Seq(Dgrams), q # <<>>
    PROVE  /\ Last(q) \in Dgrams /\ In(q, Last(q)) > 0
           /\ Front(q) \in Seq(Dgrams) /\ Len(Front(q)) = Len(q) - 1
           /\ \A i \in 1 .. Len(q) - 1 : Front(q)[i] = q[i]
           /\ \A d \in Dgrams : In(q, d) = In(Front(q), d) + (IF d = Last(q) THEN 1 ELSE 0)
<1>1. Len(q) \in Nat \ {0} /\ \A i \in 1 .. Len(q) : q[i] \in Dgrams
  BY EmptySeq, ElementOfSeq
<1>2. Last(q) = q[Len(q)] /\ Last(q) \in Dgrams
  BY <1>1 DEF Last
<1>3. /\ Front(q) \in Seq(Dgrams) /\ Len(Front(q)) = Len(q) - 1
      /\ \A i \in 1 .. Len(q) - 1 : Front(q)[i] = q[i]
  <2>1. /\ SubSeq(q, 1, Len(q) - 1) \in Seq(Dgrams)
        /\ Len(SubSeq(q, 1, Len(q) - 1)) = IF 1 <= Len(q) - 1 THEN Len(q) - 1 - 1 + 1 ELSE 0
        /\ \A i \in 1 .. Len(q) - 1 - 1 + 1 : SubSeq(q, 1, Len(q) - 1)[i] = q[1 + i - 1]
    BY <1>1, SubSeqProperties
  <2>2. Len(q) \in Nat /\ Len(q) >= 1 /\ (~(1 <= Len(q) - 1) => Len(q) - 1 = 0)
    <3>1. \A n \in Nat \ {0} : n \in Nat /\ n >= 1 /\ (~(1 <= n - 1) => n - 1 = 0)
      OBVIOUS
    <3> QED BY <1>1, <3>1
  <2>3. /\ Len(SubSeq(q, 1, Len(q) - 1)) = Len(q) - 1
        /\ \A i \in 1 .. Len(q) - 1 : SubSeq(q, 1, Len(q) - 1)[i] = q[i]
    BY <2>1, <2>2
  <2> QED BY <2>1, <2>3 DEF Front
<1>4. Inserted(q, Front(q), Len(q), Last(q))
  BY <1>1, <1>2, <1>3 DEF Inserted
<1>5. In(q, Last(q)) > 0
  <2>1. \E i \in 1 .. Len(q) : q[i] = Last(q)
    BY <1>1, <1>2
  <2> QED BY <1>2, <2>1, LinkedCounts
<1>6. \A d \in Dgrams : In(q, d) = In(Front(q), d) + (IF d = Last(q) THEN 1 ELSE 0)
  BY <1>3, <1>4, InsertCounts
<1> QED BY <1>2, <1>3, <1>5, <1>6, Zenon

LEMMA TwoCounts ==
    ASSUME NEW q \in Seq(Dgrams), NEW f \in Dgrams, NEW g \in Dgrams
    PROVE  /\ q \o <<f, g>> \in Seq(Dgrams)
           /\ \A d \in Dgrams : In(q \o <<f, g>>, d)
                       = In(q, d) + (IF d = f THEN 1 ELSE 0) + (IF d = g THEN 1 ELSE 0)
<1>1. q \o <<f, g>> = Append(Append(q, f), g) /\ Append(q, f) \in Seq(Dgrams)
  OBVIOUS
<1>2. \A d \in Dgrams : In(Append(q, f), d) = In(q, d) + (IF d = f THEN 1 ELSE 0)
  BY AppendCounts
<1>3. \A d \in Dgrams : In(Append(Append(q, f), g), d) = In(Append(q, f), d) + (IF d = g THEN 1 ELSE 0)
  BY <1>1, AppendCounts
<1> QED BY <1>1, <1>2, <1>3, AppendCounts

(***************************************************************************)
(* The owners of a datagram, added up by ports, protocols and clients      *)
(***************************************************************************)
AtPorts(qs, e) == In(qs["internal"], e) + In(qs["net"], e)
AtProtocols(q, e) == In(q["icmp"], e) + In(q["udp"], e) + In(q["dead"], e)
AtClients(clients, e) == IF e \in clients THEN 1 ELSE 0

LEMMA AtPortsSound ==
    ASSUME NEW qs \in [Ports -> Seq(Dgrams)], NEW e \in Dgrams
    PROVE  AtPorts(qs, e) \in Nat /\ \A p \in Ports : In(qs[p], e) \in Nat /\ In(qs[p], e) <= AtPorts(qs, e)
<1>1. \A p \in Ports : In(qs[p], e) \in Nat
  BY LinkedCounts
<1>2. In(qs["internal"], e) \in Nat /\ In(qs["net"], e) \in Nat
  BY <1>1 DEF Ports
<1> QED BY <1>1, <1>2 DEF Ports, AtPorts

LEMMA AtProtocolsSound ==
    ASSUME NEW q \in [Protocols -> Seq(Dgrams)], NEW e \in Dgrams
    PROVE  /\ AtProtocols(q, e) \in Nat
           /\ \A p \in Protocols : In(q[p], e) \in Nat /\ In(q[p], e) <= AtProtocols(q, e)
<1>1. \A p \in Protocols : In(q[p], e) \in Nat
  BY LinkedCounts
<1>2. In(q["icmp"], e) \in Nat /\ In(q["udp"], e) \in Nat /\ In(q["dead"], e) \in Nat
  BY <1>1 DEF Protocols
<1> QED BY <1>1, <1>2 DEF Protocols, AtProtocols

(* What the changes of one queue do to the sums. *)
\* The queues are the same but for d, which is linked n times more at port p.
PortsDiffer(qs, new, p, d, n) ==
    /\ d \in Dgrams /\ new \in [Ports -> Seq(Dgrams)]
    /\ \A e \in Dgrams : AtPorts(new, e) = AtPorts(qs, e) + (IF e = d THEN n ELSE 0)
    /\ \A e \in Dgrams, r \in Ports :
          In(new[r], e) = In(qs[r], e) + (IF e = d /\ r = p THEN n ELSE 0)

LEMMA PortChanged ==
    ASSUME NEW qs \in [Ports -> Seq(Dgrams)], NEW new \in [Ports -> Seq(Dgrams)], NEW p \in Ports,
           NEW d \in Dgrams, NEW n \in Int,
           \A r \in Ports \ {p} : new[r] = qs[r],
           \A e \in Dgrams : In(new[p], e) = In(qs[p], e) + (IF e = d THEN n ELSE 0)
    PROVE  PortsDiffer(qs, new, p, d, n)
<1>1. \A e \in Dgrams, r \in Ports : In(qs[r], e) \in Nat
  BY LinkedCounts
<1>2. ASSUME NEW e \in Dgrams, NEW r \in Ports
      PROVE  In(new[r], e) = In(qs[r], e) + (IF e = d /\ r = p THEN n ELSE 0)
  BY <1>1
<1>3. ASSUME NEW e \in Dgrams PROVE AtPorts(new, e) = AtPorts(qs, e) + (IF e = d THEN n ELSE 0)
  <2>1. In(qs["internal"], e) \in Nat /\ In(qs["net"], e) \in Nat
    BY <1>1 DEF Ports
  <2>2. /\ In(new["internal"], e) = In(qs["internal"], e) + (IF e = d /\ p = "internal" THEN n ELSE 0)
        /\ In(new["net"], e) = In(qs["net"], e) + (IF e = d /\ p = "net" THEN n ELSE 0)
    BY <1>2 DEF Ports
  <2>3. p \in {"internal", "net"}
    BY DEF Ports
  <2> QED BY <2>1, <2>2, <2>3 DEF AtPorts
<1> QED BY <1>2, <1>3 DEF PortsDiffer

LEMMA PortHeadTaken ==
    ASSUME NEW qs \in [Ports -> Seq(Dgrams)], NEW p \in Ports, qs[p] # <<>>
    PROVE  /\ PortsDiffer(qs, [qs EXCEPT ![p] = Tail(@)], p, Head(qs[p]), -1)
           /\ In(qs[p], Head(qs[p])) > 0
<1> DEFINE q == qs[p]
           d == Head(q)
           t == Tail(q)
           new == [qs EXCEPT ![p] = t]
<1>1. q \in Seq(Dgrams)
  OBVIOUS
<1>2. /\ d \in Dgrams /\ In(q, d) > 0 /\ t \in Seq(Dgrams)
      /\ \A e \in Dgrams : In(q, e) = In(t, e) + (IF e = d THEN 1 ELSE 0)
  BY <1>1, TailCounts
<1> HIDE DEF t, d
<1>3. new \in [Ports -> Seq(Dgrams)] /\ new[p] = t /\ \A r \in Ports \ {p} : new[r] = qs[r]
  BY <1>2
<1> HIDE DEF new
<1>4. \A e \in Dgrams : In(new[p], e) \in Nat
  BY <1>3, LinkedCounts
<1>5. -1 \in Int /\ \A e \in Dgrams : In(new[p], e) = In(q, e) + (IF e = d THEN -1 ELSE 0)
  BY <1>2, <1>3, <1>4
<1>6. PortsDiffer(qs, new, p, d, -1)
  BY <1>2, <1>3, <1>5, PortChanged
<1> QED BY <1>2, <1>6 DEF new, t, d

LEMMA PortAppended ==
    ASSUME NEW qs \in [Ports -> Seq(Dgrams)], NEW p \in Ports, NEW d \in Dgrams
    PROVE  PortsDiffer(qs, [qs EXCEPT ![p] = Append(@, d)], p, d, 1)
<1> DEFINE t == Append(qs[p], d)
           new == [qs EXCEPT ![p] = t]
<1>1. /\ t \in Seq(Dgrams)
      /\ \A e \in Dgrams : In(t, e) = In(qs[p], e) + (IF e = d THEN 1 ELSE 0)
  BY AppendCounts
<1> HIDE DEF t
<1>2. new \in [Ports -> Seq(Dgrams)] /\ new[p] = t /\ \A r \in Ports \ {p} : new[r] = qs[r]
  BY <1>1
<1> HIDE DEF new
<1>3. PortsDiffer(qs, new, p, d, 1)
  <2>1. 1 \in Int /\ \A e \in Dgrams : In(new[p], e) = In(qs[p], e) + (IF e = d THEN 1 ELSE 0)
    BY <1>1, <1>2
  <2> QED BY ONLY <1>2, <2>1, p \in Ports, d \in Dgrams, qs \in [Ports -> Seq(Dgrams)], PortChanged
<1> QED BY <1>3 DEF new, t

\* The same for the queues of the protocols.
ProtocolsDiffer(q, new, d, n) ==
    /\ new \in [Protocols -> Seq(Dgrams)]
    /\ \A e \in Dgrams : AtProtocols(new, e) = AtProtocols(q, e) + (IF e = d THEN n ELSE 0)

LEMMA ProtocolChanged ==
    ASSUME NEW q \in [Protocols -> Seq(Dgrams)], NEW p \in Protocols, NEW t \in Seq(Dgrams),
           NEW d \in Dgrams, NEW n \in Int,
           \A e \in Dgrams : In(t, e) = In(q[p], e) + (IF e = d THEN n ELSE 0)
    PROVE  ProtocolsDiffer(q, [q EXCEPT ![p] = t], d, n)
<1> DEFINE new == [q EXCEPT ![p] = t]
<1>1. new \in [Protocols -> Seq(Dgrams)] /\ new[p] = t /\ \A r \in Protocols \ {p} : new[r] = q[r]
  OBVIOUS
<1> HIDE DEF new
<1>2. \A e \in Dgrams, r \in Protocols : In(q[r], e) \in Nat
  BY LinkedCounts
<1>3. ASSUME NEW e \in Dgrams, NEW r \in Protocols
      PROVE  In(new[r], e) = In(q[r], e) + (IF e = d /\ r = p THEN n ELSE 0)
  BY <1>1, <1>2
<1>4. ASSUME NEW e \in Dgrams
      PROVE  AtProtocols(new, e) = AtProtocols(q, e) + (IF e = d THEN n ELSE 0)
  <2>1. In(q["icmp"], e) \in Nat /\ In(q["udp"], e) \in Nat /\ In(q["dead"], e) \in Nat
    BY <1>2 DEF Protocols
  <2>2. /\ In(new["icmp"], e) = In(q["icmp"], e) + (IF e = d /\ p = "icmp" THEN n ELSE 0)
        /\ In(new["udp"], e) = In(q["udp"], e) + (IF e = d /\ p = "udp" THEN n ELSE 0)
        /\ In(new["dead"], e) = In(q["dead"], e) + (IF e = d /\ p = "dead" THEN n ELSE 0)
    BY <1>3 DEF Protocols
  <2>3. p \in {"icmp", "udp", "dead"}
    BY DEF Protocols
  <2> QED BY <2>1, <2>2, <2>3 DEF AtProtocols
<1> QED BY <1>1, <1>4 DEF ProtocolsDiffer, new

(***************************************************************************)
(* The invariant                                                           *)
(***************************************************************************)
Types ==
    /\ hdr \in [Dgrams -> Headers \cup {Free}]
    /\ receive \in [Ports -> Seq(Dgrams)] /\ send \in [Ports -> Seq(Dgrams)]
    /\ queue \in [Protocols -> Seq(Dgrams)]
    /\ held \subseteq Dgrams
    /\ stale \in BOOLEAN

\* What is allocated has an owner and only one, or was a mask request; what is not is linked at most in the
\* send queue that off_port is discarding.
Owned(d) ==
    /\ hdr[d] # Free => Owners(d) <= 1 /\ (Forgotten(d) \/ Owners(d) >= 1)
    /\ hdr[d] = Free => /\ Owners(d) <= 1
                        /\ Owners(d) = IF off.at = "send" THEN In(send["net"], d) ELSE 0

IInv == Types /\ (~stale => \A d \in Dgrams : Owned(d))

\* How the links of a datagram add up to its owners.
Tallied(e) ==
    /\ AtPorts(receive, e) \in Nat /\ AtPorts(send, e) \in Nat
    /\ AtProtocols(queue, e) \in Nat /\ AtClients(held, e) \in {0, 1}
    /\ Owners(e) = AtPorts(receive, e) + AtPorts(send, e) + AtProtocols(queue, e) + AtClients(held, e)
    /\ In(send["net"], e) \in Nat /\ In(send["internal"], e) \in Nat
    /\ AtPorts(send, e) = In(send["internal"], e) + In(send["net"], e)

LEMMA OwnersSound == Types => \A e \in Dgrams : Tallied(e)
<1> SUFFICES ASSUME Types, NEW e \in Dgrams PROVE Tallied(e)
  OBVIOUS
<1>1. AtPorts(receive, e) \in Nat /\ AtPorts(send, e) \in Nat /\ AtProtocols(queue, e) \in Nat
  BY AtPortsSound, AtProtocolsSound DEF Types
<1>2. /\ In(receive["internal"], e) \in Nat /\ In(receive["net"], e) \in Nat
      /\ In(send["internal"], e) \in Nat /\ In(send["net"], e) \in Nat
  BY AtPortsSound DEF Types, Ports
<1>3. In(queue["icmp"], e) \in Nat /\ In(queue["udp"], e) \in Nat /\ In(queue["dead"], e) \in Nat
  BY AtProtocolsSound DEF Types, Protocols
<1> DEFINE n == IF e \in held THEN 1 ELSE 0
<1>4. n \in {0, 1} /\ AtClients(held, e) = n
  BY DEF AtClients
<1>5. Owners(e) = In(receive["internal"], e) + In(receive["net"], e) + In(send["internal"], e)
                  + In(send["net"], e) + In(queue["icmp"], e) + In(queue["udp"], e) + In(queue["dead"], e) + n
  BY DEF Owners
<1> HIDE DEF n
<1>6. Owners(e) = AtPorts(receive, e) + AtPorts(send, e) + AtProtocols(queue, e) + n
  BY <1>2, <1>3, <1>4, <1>5 DEF AtPorts, AtProtocols
<1> QED BY <1>1, <1>2, <1>4, <1>6 DEF Tallied, AtPorts

LEMMA OwnersSoundNext == Types' => (\A e \in Dgrams : Tallied(e))'
BY OwnersSound, PTL

\* One datagram changes hands and all others stay where they are.
LEMMA OneMoves ==
    ASSUME IInv, ~stale, Types', off'.at = off.at, NEW d \in Dgrams,
           \/ Owners(d)' = IF hdr'[d] = Free THEN 0 ELSE 1
           \/ Forgotten(d)' /\ hdr'[d] # Free /\ Owners(d)' = 0,
           \A e \in Dgrams \ {d} : /\ hdr'[e] = hdr[e] /\ Owners(e)' = Owners(e)
                                   /\ In(send["net"], e)' = In(send["net"], e)
    PROVE  IInv'
<1>1. ASSUME NEW e \in Dgrams \ {d} PROVE Owned(e)'
  BY <1>1 DEF IInv, Owned, Forgotten
<1>2. Owned(d)'
  <2>1. In(send["net"], d)' \in Nat /\ In(send["net"], d)' <= Owners(d)'
    BY OwnersSoundNext DEF Tallied
  <2> QED BY <2>1 DEF Owned, Forgotten
<1> QED BY <1>1, <1>2 DEF IInv

\* What is linked and not being discarded is allocated.
LEMMA LinkedIsAllocated ==
    ASSUME IInv, ~stale, NEW d \in Dgrams, Owners(d) > In(send["net"], d)
    PROVE  hdr[d] # Free /\ Owners(d) = 1
BY OwnersSound DEF IInv, Owned, Tallied

LEMMA OwnsOne ==
    ASSUME IInv, ~stale, NEW d \in Dgrams, hdr[d] # Free, Owners(d) > 0
    PROVE  Owners(d) = 1
BY OwnersSound DEF IInv, Owned, Tallied

LEMMA Nowhere ==
    ASSUME IInv, ~stale, NEW d \in Dgrams, Available(d)
    PROVE  Owners(d) = 0
<1>1. In(send["net"], d) = 0
  <2>1. send["net"] \in Seq(Dgrams)
    BY DEF IInv, Types, Ports
  <2>2. ~(In(send["net"], d) > 0) /\ In(send["net"], d) \in Nat
    BY <2>1, LinkedCounts DEF Available
  <2> QED BY <2>2
<1> QED BY <1>1 DEF IInv, Owned, Available

(***************************************************************************)
(* ICMP_reply and IP_discard: d is freed, or on the way to the internal    *)
(* port as an answer.                                                      *)
(***************************************************************************)
Answered(d, p) == IF p = "internal" /\ hdr'[d] # Free THEN 1 ELSE 0

Settled(d, from) ==
    /\ hdr' \in [Dgrams -> Headers \cup {Free}]
    /\ \A e \in Dgrams \ {d} : hdr'[e] = hdr[e]
    /\ receive' \in [Ports -> Seq(Dgrams)]
    /\ \A e \in Dgrams, p \in Ports :
          In(receive'[p], e) = In(from[p], e) + (IF e = d THEN Answered(d, p) ELSE 0)

LEMMA DiscardSettles ==
    ASSUME Types, NEW d \in Dgrams, NEW from \in [Ports -> Seq(Dgrams)], Discard(d, from)
    PROVE  Settled(d, from)
<1>1. /\ hdr' \in [Dgrams -> Headers \cup {Free}] /\ hdr'[d] = Free
      /\ \A e \in Dgrams \ {d} : hdr'[e] = hdr[e]
  BY DEF Types, Discard
<1>2. receive' = from /\ \A e \in Dgrams, p \in Ports : In(from[p], e) \in Nat
  BY LinkedCounts DEF Discard
<1> QED BY <1>1, <1>2 DEF Settled, Answered

LEMMA AnswerSound ==
    \A h \in Headers : Answer(h, "reply") \in Headers /\ Answer(h, "error") \in Headers
BY DEF Answer, Headers, Protocols, Kinds, Hosts

LEMMA ReplySettles ==
    ASSUME Types, NEW d \in Dgrams, NEW from \in [Ports -> Seq(Dgrams)],
           NEW h \in Headers, NEW kind \in {"reply", "error"}, ICMP_reply(d, h, kind, from)
    PROVE  Settled(d, from)
<1>1. CASE Discard(d, from)
  BY <1>1, DiscardSettles
<1>2. CASE /\ hdr' = [hdr EXCEPT ![d] = Answer(h, kind)]
           /\ receive' = [from EXCEPT !["internal"] = Append(@, d)]
  <2>1. Answer(h, kind) \in Headers /\ Answer(h, kind) # Free
    BY AnswerSound, FreeAssumption
  <2>2. /\ hdr' \in [Dgrams -> Headers \cup {Free}] /\ hdr'[d] # Free
        /\ \A e \in Dgrams \ {d} : hdr'[e] = hdr[e]
    BY <1>2, <2>1 DEF Types
  <2>3. "internal" \in Ports /\ from["internal"] \in Seq(Dgrams)
    BY DEF Ports
  <2>4. /\ Append(from["internal"], d) \in Seq(Dgrams)
        /\ \A e \in Dgrams : In(Append(from["internal"], d), e)
                               = In(from["internal"], e) + (IF e = d THEN 1 ELSE 0)
    BY <2>3, AppendCounts
  <2>5. /\ receive' \in [Ports -> Seq(Dgrams)]
        /\ receive'["internal"] = Append(from["internal"], d)
        /\ \A p \in Ports \ {"internal"} : receive'[p] = from[p]
    BY <1>2, <2>3, <2>4
  <2>6. \A e \in Dgrams, p \in Ports : In(from[p], e) \in Nat
    BY LinkedCounts
  <2>7. ASSUME NEW e \in Dgrams, NEW p \in Ports
        PROVE  In(receive'[p], e) = In(from[p], e) + (IF e = d THEN Answered(d, p) ELSE 0)
    <3>1. CASE p = "internal"
      <4>1. In(receive'[p], e) = In(from[p], e) + (IF e = d THEN 1 ELSE 0)
        BY <2>4, <2>5, <3>1
      <4> QED BY <2>2, <3>1, <4>1 DEF Answered
    <3>2. CASE p # "internal"
      BY <2>5, <2>6, <3>2 DEF Answered
    <3> QED BY <3>1, <3>2
  <2> QED BY <2>2, <2>5, <2>7 DEF Settled
<1> QED BY <1>1, <1>2 DEF ICMP_reply

LEMMA ComplainSettles ==
    ASSUME Types, NEW d \in Dgrams, NEW from \in [Ports -> Seq(Dgrams)],
           hdr[d] \in Headers, Complain(d, from)
    PROVE  Settled(d, from)
BY DiscardSettles, ReplySettles DEF Complain

(***************************************************************************)
(* A datagram is taken from where it was linked and settled.               *)
(***************************************************************************)
\* How many owners are left when it was taken and not settled yet.
Left(from, e) == AtPorts(from, e) + AtPorts(send', e) + AtProtocols(queue', e) + AtClients(held', e)

\* d is taken from one place, and nothing else is.
Taken(d, from) ==
    /\ from \in [Ports -> Seq(Dgrams)] /\ send' \in [Ports -> Seq(Dgrams)]
    /\ queue' \in [Protocols -> Seq(Dgrams)] /\ held' \subseteq Dgrams
    /\ \A e \in Dgrams : Owners(e) = Left(from, e) + (IF e = d THEN 1 ELSE 0)
    /\ \A e \in Dgrams \ {d} : In(send'["net"], e) = In(send["net"], e)

LEMMA SettledKeeps ==
    ASSUME IInv, ~stale, stale' \in BOOLEAN, off'.at = off.at,
           NEW d \in Dgrams, hdr[d] # Free, NEW from, Taken(d, from), Settled(d, from)
    PROVE  IInv'
<1>1. Types'
  BY DEF Types, Taken, Settled
<1>2. ASSUME NEW e \in Dgrams
      PROVE  /\ Left(from, e) \in Nat
             /\ Owners(e)' = Left(from, e) + (IF e = d /\ hdr'[d] # Free THEN 1 ELSE 0)
  <2>1. Tallied(e)'
    BY <1>1, OwnersSoundNext
  <2>2. /\ AtPorts(from, e) \in Nat
        /\ AtPorts(receive', e) = AtPorts(from, e) + (IF e = d /\ hdr'[d] # Free THEN 1 ELSE 0)
    <3>1. In(from["net"], e) \in Nat /\ In(from["internal"], e) \in Nat
      BY AtPortsSound DEF Taken, Ports
    <3>2. /\ In(receive'["net"], e) = In(from["net"], e)
          /\ In(receive'["internal"], e)
               = In(from["internal"], e) + (IF e = d /\ hdr'[d] # Free THEN 1 ELSE 0)
      BY <3>1 DEF Settled, Answered, Ports
    <3> QED BY <3>1, <3>2 DEF AtPorts
  <2> QED BY <2>1, <2>2 DEF Tallied, Left
<1>3. Owners(d)' = IF hdr'[d] = Free THEN 0 ELSE 1
  <2>1. Owners(d) = 1 /\ Left(from, d) = 0
    BY <1>2, OwnsOne DEF Taken
  <2> QED BY <1>2, <2>1
<1>4. \A e \in Dgrams \ {d} : /\ hdr'[e] = hdr[e] /\ Owners(e)' = Owners(e)
                              /\ In(send["net"], e)' = In(send["net"], e)
  BY <1>2 DEF Taken, Settled
<1> QED BY <1>1, <1>3, <1>4, OneMoves

LEMMA ReceiveTaken ==
    ASSUME IInv, ~stale, NEW p \in Ports, receive[p] # <<>>
    PROVE  /\ PortsDiffer(receive, [receive EXCEPT ![p] = Tail(@)], p, Head(receive[p]), -1)
           /\ hdr[Head(receive[p])] # Free /\ Owners(Head(receive[p])) = 1
<1> DEFINE d == Head(receive[p])
           from == [receive EXCEPT ![p] = Tail(@)]
<1>1. receive \in [Ports -> Seq(Dgrams)]
  BY DEF IInv, Types
<1>2. PortsDiffer(receive, from, p, d, -1) /\ In(receive[p], d) > 0
  BY <1>1, PortHeadTaken
<1> HIDE DEF d, from
<1>3. d \in Dgrams
  BY <1>2 DEF PortsDiffer
<1>4. Owners(d) > In(send["net"], d)
  <2>1. AtPorts(receive, d) >= In(receive[p], d) /\ In(receive[p], d) \in Nat
    BY <1>1, <1>3, AtPortsSound
  <2> QED BY <1>2, <1>3, <2>1, OwnersSound DEF IInv, Tallied
<1>5. hdr[d] # Free /\ Owners(d) = 1
  BY <1>3, <1>4, LinkedIsAllocated
<1> QED BY <1>2, <1>5 DEF d, from

LEMMA QueueKeeps ==
    ASSUME IInv, ~stale, NEW p \in Ports, NEW to \in Ports, receive[p] # <<>>,
           Queue(Head(receive[p]), to, [receive EXCEPT ![p] = Tail(@)]),
           UNCHANGED <<hdr, queue, held, off>>
    PROVE  IInv'
<1> DEFINE d == Head(receive[p])
<1>1. /\ PortsDiffer(receive, receive', p, d, -1) /\ hdr[d] # Free /\ Owners(d) = 1
      /\ d \in Dgrams
  BY ReceiveTaken DEF Queue, PortsDiffer
<1>2. PortsDiffer(send, send', to, d, 1)
  <2>1. send' = [send EXCEPT ![to] = Append(@, d)]
    BY DEF Queue
  <2>2. PortsDiffer(send, [send EXCEPT ![to] = Append(@, d)], to, d, 1)
    BY <1>1, PortAppended DEF IInv, Types
  <2> QED BY <2>1, <2>2
<1>3. stale' \in BOOLEAN
  BY DEF Queue, Dangling
<1> HIDE DEF d
<1>4. Types'
  BY <1>1, <1>2, <1>3 DEF IInv, Types, PortsDiffer
<1>5. ASSUME NEW e \in Dgrams PROVE Owners(e)' = Owners(e)
  <2>1. Tallied(e) /\ Tallied(e)'
    BY <1>4, OwnersSound, OwnersSoundNext DEF IInv
  <2>2. AtProtocols(queue, e)' = AtProtocols(queue, e) /\ AtClients(held, e)' = AtClients(held, e)
    OBVIOUS
  <2>3. /\ AtPorts(receive', e) = AtPorts(receive, e) + (IF e = d THEN -1 ELSE 0)
        /\ AtPorts(send', e) = AtPorts(send, e) + (IF e = d THEN 1 ELSE 0)
    BY <1>1, <1>2 DEF PortsDiffer
  <2>4. CASE e = d
    <3>1. AtPorts(receive', e) = AtPorts(receive, e) + -1 /\ AtPorts(send', e) = AtPorts(send, e) + 1
      BY <2>3, <2>4
    <3> QED BY <2>1, <2>2, <3>1 DEF Tallied
  <2>5. CASE e # d
    <3>1. AtPorts(receive', e) = AtPorts(receive, e) + 0 /\ AtPorts(send', e) = AtPorts(send, e) + 0
      BY <2>3, <2>5
    <3> QED BY <2>1, <2>2, <3>1 DEF Tallied
  <2> QED BY <2>4, <2>5
<1>6. \A e \in Dgrams \ {d} : In(send["net"], e)' = In(send["net"], e)
  <2>1. \A e \in Dgrams : Tallied(e)
    BY OwnersSound DEF IInv
  <2> QED BY <1>2, <2>1 DEF PortsDiffer, Ports, Tallied
<1> QED BY <1>1, <1>4, <1>5, <1>6, OneMoves

(***************************************************************************)
(* process_dgram                                                           *)
(***************************************************************************)
LEMMA DropKeeps ==
    ASSUME IInv, ~stale, NEW p \in Ports, receive[p] # <<>>,
           Settled(Head(receive[p]), [receive EXCEPT ![p] = Tail(@)]),
           UNCHANGED <<send, queue, held, off, stale>>
    PROVE  IInv'
<1> DEFINE d == Head(receive[p])
           from == [receive EXCEPT ![p] = Tail(@)]
<1>1. /\ PortsDiffer(receive, from, p, d, -1) /\ hdr[d] # Free /\ Owners(d) = 1
      /\ Settled(d, from)
  BY ReceiveTaken
<1> HIDE DEF d, from
<1>2. /\ send' = send /\ queue' = queue /\ held' = held /\ off' = off /\ stale' = stale
      /\ send \in [Ports -> Seq(Dgrams)] /\ queue \in [Protocols -> Seq(Dgrams)] /\ held \subseteq Dgrams
      /\ stale \in BOOLEAN
  BY DEF IInv, Types
<1>3. ASSUME NEW e \in Dgrams PROVE Owners(e) = Left(from, e) + (IF e = d THEN 1 ELSE 0)
  <2>1. Tallied(e)
    BY OwnersSound DEF IInv
  <2>2. AtPorts(from, e) = AtPorts(receive, e) + (IF e = d THEN -1 ELSE 0)
    BY <1>1 DEF PortsDiffer
  <2>3. Left(from, e) = AtPorts(from, e) + AtPorts(send, e) + AtProtocols(queue, e) + AtClients(held, e)
    BY <1>2 DEF Left
  <2> QED BY <2>1, <2>2, <2>3 DEF Tallied
<1>4. Taken(d, from) /\ d \in Dgrams
  BY <1>1, <1>2, <1>3 DEF Taken, PortsDiffer
<1> QED BY <1>1, <1>2, <1>4, SettledKeeps

LEMMA FragmentKeeps ==
    ASSUME IInv, ~stale, NEW p \in Ports, receive[p] # <<>>,
           fragment(Head(receive[p]), hdr[Head(receive[p])], [receive EXCEPT ![p] = Tail(@)]),
           UNCHANGED <<queue, held, off>>
    PROVE  IInv'
<1>0. /\ PortsDiffer(receive, receive', p, Head(receive[p]), -1)
      /\ hdr[Head(receive[p])] # Free /\ Owners(Head(receive[p])) = 1
  <2>1. receive' = [receive EXCEPT ![p] = Tail(@)]
    BY DEF fragment
  <2> QED BY <2>1, ReceiveTaken
<1>1. PICK d \in Dgrams : /\ d = Head(receive[p])
                         /\ PortsDiffer(receive, receive', p, d, -1) /\ hdr[d] # Free /\ Owners(d) = 1
  <2> DEFINE d == Head(receive[p])
  <2>1. PortsDiffer(receive, receive', p, d, -1) /\ hdr[d] # Free /\ Owners(d) = 1
    BY <1>0
  <2> HIDE DEF d
  <2>2. d \in Dgrams
    BY <2>1 DEF PortsDiffer
  <2>3. d = Head(receive[p])
    BY DEF d
  <2> QED BY <2>1, <2>2, <2>3
<1> DEFINE h == hdr[d]
<1>2. PICK f \in Dgrams \ {d}, g \in Dgrams \ {d} :
        /\ f # g /\ Available(f) /\ Available(g)
        /\ hdr' = [hdr EXCEPT ![d] = Free,
                              ![f] = [h EXCEPT !.size = "fits", !.part = "first"],
                              ![g] = [h EXCEPT !.size = "fits", !.part = "later"]]
        /\ send' = [send EXCEPT !["net"] = @ \o <<f, g>>]
        /\ stale' = Dangling(send["net"])
  BY <1>1 DEF fragment
<1>3. /\ [h EXCEPT !.size = "fits", !.part = "first"] \in Headers
      /\ [h EXCEPT !.size = "fits", !.part = "later"] \in Headers
  <2>1. h \in Headers
    BY <1>1 DEF IInv, Types
  <2> HIDE DEF h
  <2> QED BY <2>1 DEF Headers
<1> HIDE DEF h
<1>4. /\ hdr' \in [Dgrams -> Headers \cup {Free}]
      /\ hdr'[d] = Free /\ hdr'[f] # Free /\ hdr'[g] # Free
      /\ \A e \in Dgrams \ {d, f, g} : hdr'[e] = hdr[e]
  BY <1>1, <1>2, <1>3, FreeAssumption DEF IInv, Types
<1> DEFINE longer == send["net"] \o <<f, g>>
<1>5. /\ longer \in Seq(Dgrams)
      /\ \A e \in Dgrams : In(longer, e)
                             = In(send["net"], e) + (IF e = f THEN 1 ELSE 0) + (IF e = g THEN 1 ELSE 0)
  BY TwoCounts DEF IInv, Types, Ports
<1>6. send' = [send EXCEPT !["net"] = longer]
  BY <1>2
<1> HIDE DEF longer
<1>7. /\ send' \in [Ports -> Seq(Dgrams)] /\ send'["net"] = longer
      /\ send'["internal"] = send["internal"]
  BY <1>5, <1>6 DEF IInv, Types, Ports
<1>8. Types'
  <2>1. stale' \in BOOLEAN
    BY <1>2 DEF Dangling
  <2> QED BY <1>1, <1>4, <1>7, <2>1 DEF IInv, Types, PortsDiffer
<1>9. ASSUME NEW e \in Dgrams
      PROVE  /\ Owners(e)' = Owners(e) + (IF e = d THEN -1 ELSE 0)
                             + (IF e = f THEN 1 ELSE 0) + (IF e = g THEN 1 ELSE 0)
             /\ e \notin {f, g} => In(send["net"], e)' = In(send["net"], e)
             /\ In(send["net"], e)' \in Nat /\ In(send["net"], e)' <= Owners(e)'
             /\ Owners(e) \in Nat
  <2>1. Tallied(e) /\ Tallied(e)'
    BY <1>8, OwnersSound, OwnersSoundNext DEF IInv
  <2>2. AtProtocols(queue, e)' = AtProtocols(queue, e) /\ AtClients(held, e)' = AtClients(held, e)
    OBVIOUS
  <2>3. AtPorts(receive', e) = AtPorts(receive, e) + (IF e = d THEN -1 ELSE 0)
    BY <1>1 DEF PortsDiffer
  <2>4. /\ In(send'["internal"], e) = In(send["internal"], e)
        /\ In(send'["net"], e)
             = In(send["net"], e) + (IF e = f THEN 1 ELSE 0) + (IF e = g THEN 1 ELSE 0)
    BY <1>5, <1>7
  <2>5. AtPorts(send', e) = AtPorts(send, e) + (IF e = f THEN 1 ELSE 0) + (IF e = g THEN 1 ELSE 0)
    <3>1. In(send["internal"], e) \in Nat /\ In(send["net"], e) \in Nat
      BY <2>1 DEF Tallied
    <3> QED BY <2>4, <3>1 DEF AtPorts
  <2>6. /\ AtPorts(receive, e) \in Nat /\ AtPorts(send, e) \in Nat /\ AtProtocols(queue, e) \in Nat
        /\ AtClients(held, e) \in {0, 1} /\ In(send["net"], e) \in Nat
        /\ AtPorts(receive', e) \in Nat /\ AtPorts(send', e) \in Nat
        /\ In(send'["net"], e) \in Nat /\ In(send'["net"], e) <= AtPorts(send', e)
        /\ Owners(e) = AtPorts(receive, e) + AtPorts(send, e) + AtProtocols(queue, e) + AtClients(held, e)
        /\ Owners(e)' = AtPorts(receive', e) + AtPorts(send', e) + AtProtocols(queue, e) + AtClients(held, e)
    BY <2>1, <2>2 DEF Tallied
  <2>7. e \notin {f, g} => In(send["net"], e)' = In(send["net"], e)
    BY <2>4, <2>6
  <2>8. Owners(e)' = Owners(e) + (IF e = d THEN -1 ELSE 0)
                      + (IF e = f THEN 1 ELSE 0) + (IF e = g THEN 1 ELSE 0)
    <3> DEFINE x == IF e = d THEN -1 ELSE 0
               y == IF e = f THEN 1 ELSE 0
               z == IF e = g THEN 1 ELSE 0
    <3>1. x \in Int /\ y \in Int /\ z \in Int
      OBVIOUS
    <3>2. AtPorts(receive', e) = AtPorts(receive, e) + x /\ AtPorts(send', e) = AtPorts(send, e) + y + z
      BY <2>3, <2>5
    <3> HIDE DEF x, y, z
    <3> DEFINE r == AtPorts(receive, e)
               s == AtPorts(send, e)
               q == AtProtocols(queue, e)
               c == AtClients(held, e)
    <3>4. /\ r \in Nat /\ s \in Nat /\ q \in Nat /\ c \in {0, 1} /\ Owners(e) = r + s + q + c
          /\ Owners(e)' = (r + x) + (s + y + z) + q + c
      BY <2>6, <3>2
    <3> HIDE DEF r, s, q, c
    <3>3. Owners(e)' = Owners(e) + x + y + z
      BY <3>1, <3>4
    <3> QED BY ONLY <3>3 DEF x, y, z
  <2>9. In(send["net"], e)' \in Nat /\ In(send["net"], e)' <= Owners(e)' /\ Owners(e) \in Nat
    <3> DEFINE r  == AtPorts(receive, e)
               s  == AtPorts(send, e)
               r1 == AtPorts(receive', e)
               s1 == AtPorts(send', e)
               q  == AtProtocols(queue, e)
               c  == AtClients(held, e)
               n1 == In(send'["net"], e)
    <3>1. /\ r \in Nat /\ s \in Nat /\ q \in Nat /\ c \in {0, 1} /\ Owners(e) = r + s + q + c
          /\ r1 \in Nat /\ s1 \in Nat /\ n1 \in Nat /\ n1 <= s1 /\ Owners(e)' = r1 + s1 + q + c
          /\ In(send["net"], e)' = n1
      BY <2>6
    <3> HIDE DEF r, s, r1, s1, q, c, n1
    <3> QED BY ONLY <3>1
  <2> QED BY ONLY <2>7, <2>8, <2>9
<1>10. Owners(f) = 0 /\ Owners(g) = 0
  BY <1>2, Nowhere
<1>11. Owned(d)' /\ Owned(f)' /\ Owned(g)'
  <2>1. Owners(d)' = 0 /\ Owners(f)' = 1 /\ Owners(g)' = 1
    <3>1. d # f /\ d # g /\ f # g /\ d \in Dgrams /\ f \in Dgrams /\ g \in Dgrams
      BY <1>1, <1>2
    <3>2. Owners(d)' = Owners(d) + -1 + 0 + 0
      BY <1>9, <3>1
    <3>3. Owners(f)' = Owners(f) + 0 + 1 + 0
      BY <1>9, <3>1
    <3>4. Owners(g)' = Owners(g) + 0 + 0 + 1
      BY <1>9, <3>1
    <3> QED BY <1>1, <1>10, <3>2, <3>3, <3>4
  <2>2. In(send["net"], d)' = 0
    <3>1. In(send["net"], d)' \in Nat /\ In(send["net"], d)' <= Owners(d)'
      BY <1>1, <1>9
    <3> QED BY <2>1, <3>1
  <2> QED BY <1>4, <2>1, <2>2 DEF Owned
<1>12. ASSUME NEW e \in Dgrams \ {d, f, g} PROVE Owned(e)'
  <2>1. Owners(e)' = Owners(e) /\ hdr'[e] = hdr[e] /\ In(send["net"], e)' = In(send["net"], e)
    BY <1>4, <1>9
  <2>2. Owned(e) /\ off' = off
    BY DEF IInv
  <2> QED BY <2>1, <2>2 DEF Owned, Forgotten
<1>13. \A e \in Dgrams : Owned(e)'
  <2> TAKE e \in Dgrams
  <2>1. CASE e \in {d, f, g}
    BY <1>11, <2>1
  <2>2. CASE e \notin {d, f, g}
    BY <1>12, <2>2
  <2> QED BY <2>1, <2>2
<1> QED BY <1>8, <1>13 DEF IInv

LEMMA ProcessKeeps ==
    ASSUME IInv, NEW p \in Ports, process_dgram(p)
    PROVE  IInv'
<1> DEFINE d == Head(receive[p])
           h == hdr[d]
           from == [receive EXCEPT ![p] = Tail(@)]
           to == route_it(h.dst)
<1>1. ~stale /\ receive[p] # <<>> /\ queue' = queue /\ held' = held /\ off' = off
  BY DEF process_dgram, Timer
<1>2. /\ Types /\ d \in Dgrams /\ h \in Headers /\ from \in [Ports -> Seq(Dgrams)]
  <2>1. PortsDiffer(receive, from, p, d, -1) /\ h # Free
    BY <1>1, ReceiveTaken
  <2> QED BY <2>1 DEF IInv, Types, PortsDiffer
<1>3. CASE Settled(d, from) /\ UNCHANGED <<send, stale>>
  BY <1>1, <1>3, DropKeeps
<1>4. CASE fragment(d, h, from)
  BY <1>1, <1>4, FragmentKeeps
<1>5. CASE (to = "internal" \/ to = "net") /\ Queue(d, to, from) /\ UNCHANGED hdr
  BY <1>1, <1>5, QueueKeeps DEF Ports
<1>6. (Discard(d, from) \/ Complain(d, from)) => Settled(d, from)
  BY <1>2, DiscardSettles, ComplainSettles
<1>7. \/ (Discard(d, from) \/ Complain(d, from)) /\ UNCHANGED <<send, stale>>
      \/ fragment(d, h, from)
      \/ (to = "internal" \/ to = "net") /\ Queue(d, to, from) /\ UNCHANGED hdr
  BY DEF process_dgram
<1> QED BY <1>3, <1>4, <1>5, <1>6, <1>7

(***************************************************************************)
(* receive_dgram and transmit: the head of a send queue                    *)
(***************************************************************************)
\* d, the head of a send queue, is unlinked. In the queue of the network port
\* it may be one that off_port discarded.
Unlinked(p, d) ==
    /\ p \in Ports /\ send[p] # <<>> /\ d = Head(send[p]) /\ hdr[d] # Free
    /\ send' = [send EXCEPT ![p] = Tail(@)]

LEMMA SendTaken ==
    ASSUME IInv, ~stale, NEW p, NEW d, Unlinked(p, d)
    PROVE  PortsDiffer(send, send', p, d, -1) /\ Owners(d) = 1 /\ In(send[p], d) > 0 /\ d \in Dgrams
<1>1. send \in [Ports -> Seq(Dgrams)] /\ p \in Ports
  BY DEF IInv, Types, Unlinked
<1>2. PortsDiffer(send, send', p, d, -1) /\ In(send[p], d) > 0
  BY <1>1, PortHeadTaken DEF Unlinked
<1>3. d \in Dgrams
  BY <1>2 DEF PortsDiffer
<1>4. Owners(d) > 0
  <2>1. AtPorts(send, d) >= In(send[p], d) /\ In(send[p], d) \in Nat
    BY <1>1, <1>3, AtPortsSound
  <2> QED BY <1>2, <1>3, <2>1, OwnersSound DEF IInv, Tallied
<1>5. Owners(d) = 1
  BY <1>3, <1>4, OwnsOne DEF Unlinked
<1> QED BY <1>2, <1>3, <1>5

LEMMA InternalIsAllocated ==
    ASSUME IInv, ~stale, send["internal"] # <<>>
    PROVE  hdr[Head(send["internal"])] # Free
<1>1. send \in [Ports -> Seq(Dgrams)] /\ "internal" \in Ports
  BY DEF IInv, Types, Ports
<1>2. /\ Head(send["internal"]) \in Dgrams
      /\ In(send["internal"], Head(send["internal"])) > 0
  BY <1>1, TailCounts
<1>3. PICK d \in Dgrams : d = Head(send["internal"]) /\ In(send["internal"], d) > 0
  BY <1>2
<1>4. Owners(d) > In(send["net"], d)
  BY <1>3, OwnersSound DEF IInv, Tallied
<1> QED BY <1>3, <1>4, LinkedIsAllocated

LEMMA SendSettlesKeeps ==
    ASSUME IInv, ~stale, stale' \in BOOLEAN, NEW p, NEW d, Unlinked(p, d), Settled(d, receive),
           UNCHANGED <<queue, held, off>>
    PROVE  IInv'
<1>1. PortsDiffer(send, send', p, d, -1) /\ Owners(d) = 1 /\ d \in Dgrams /\ hdr[d] # Free
  BY SendTaken DEF Unlinked
<1>2. /\ queue' = queue /\ held' = held /\ receive \in [Ports -> Seq(Dgrams)]
      /\ queue \in [Protocols -> Seq(Dgrams)] /\ held \subseteq Dgrams
  BY DEF IInv, Types
<1>3. ASSUME NEW e \in Dgrams PROVE Owners(e) = Left(receive, e) + (IF e = d THEN 1 ELSE 0)
  <2>1. Tallied(e)
    BY OwnersSound DEF IInv
  <2>2. AtPorts(send', e) = AtPorts(send, e) + (IF e = d THEN -1 ELSE 0)
    BY <1>1 DEF PortsDiffer
  <2>3. Left(receive, e)
          = AtPorts(receive, e) + AtPorts(send', e) + AtProtocols(queue, e) + AtClients(held, e)
    BY <1>2 DEF Left
  <2> QED BY <2>1, <2>2, <2>3 DEF Tallied
<1>4. \A e \in Dgrams \ {d} : In(send'["net"], e) = In(send["net"], e)
  <2>1. \A e \in Dgrams : In(send["net"], e) \in Nat
    BY OwnersSound DEF IInv, Tallied
  <2> QED BY <1>1, <2>1 DEF PortsDiffer, Ports
<1>5. Taken(d, receive)
  BY <1>1, <1>2, <1>3, <1>4 DEF Taken, PortsDiffer
<1> QED BY <1>1, <1>5, SettledKeeps

\* d is handed to a protocol or a client: n says whether anybody took it.
LEMMA DeliveredKeeps ==
    ASSUME IInv, ~stale, NEW d, Unlinked("internal", d), UNCHANGED <<receive, off, stale>>,
           hdr' \in [Dgrams -> Headers \cup {Free}], hdr'[d] # Free,
           \A e \in Dgrams \ {d} : hdr'[e] = hdr[e],
           queue' \in [Protocols -> Seq(Dgrams)], held' \subseteq Dgrams,
           NEW n \in {0, 1}, n = 1 \/ Forgotten(d)',
           \A e \in Dgrams : AtProtocols(queue', e) + AtClients(held', e)
                               = AtProtocols(queue, e) + AtClients(held, e) + (IF e = d THEN n ELSE 0)
    PROVE  IInv'
<1>1. PortsDiffer(send, send', "internal", d, -1) /\ Owners(d) = 1 /\ d \in Dgrams
  BY SendTaken
<1>2. Types'
  BY <1>1 DEF IInv, Types, PortsDiffer
<1>3. ASSUME NEW e \in Dgrams PROVE Owners(e)' = Owners(e) + (IF e = d THEN n - 1 ELSE 0)
  <2>1. Tallied(e) /\ Tallied(e)'
    BY <1>2, OwnersSound, OwnersSoundNext DEF IInv
  <2>2. AtPorts(send', e) = AtPorts(send, e) + (IF e = d THEN -1 ELSE 0)
    BY <1>1 DEF PortsDiffer
  <2>3. AtPorts(receive, e)' = AtPorts(receive, e)
    OBVIOUS
  <2>4. AtProtocols(queue', e) + AtClients(held', e)
          = AtProtocols(queue, e) + AtClients(held, e) + (IF e = d THEN n ELSE 0)
    OBVIOUS
  <2> DEFINE x == IF e = d THEN -1 ELSE 0
             y == IF e = d THEN n ELSE 0
             r == AtPorts(receive, e)
             s == AtPorts(send, e)
             q == AtProtocols(queue, e)
             c == AtClients(held, e)
  <2>5. /\ r \in Nat /\ s \in Nat /\ q \in Nat /\ c \in {0, 1} /\ Owners(e) = r + s + q + c
        /\ AtProtocols(queue', e) \in Nat /\ AtClients(held', e) \in {0, 1}
        /\ AtProtocols(queue', e) + AtClients(held', e) = q + c + y
        /\ Owners(e)' = r + (s + x) + AtProtocols(queue', e) + AtClients(held', e)
    BY <2>1, <2>2, <2>3, <2>4 DEF Tallied
  <2>6. x \in Int /\ y \in Int /\ x + y = IF e = d THEN n - 1 ELSE 0
    OBVIOUS
  <2> HIDE DEF x, y, r, s, q, c
  <2>7. Owners(e)' = Owners(e) + (x + y)
    BY <2>5, <2>6
  <2> QED BY <2>6, <2>7
<1>4. Owners(d)' = n
  <2>1. Owners(d)' = Owners(d) + (n - 1)
    BY <1>1, <1>3
  <2> QED BY <1>1, <2>1
<1>5. \A e \in Dgrams \ {d} : Owners(e)' = Owners(e) /\ In(send["net"], e)' = In(send["net"], e)
  <2> TAKE e \in Dgrams \ {d}
  <2>1. Tallied(e)
    BY OwnersSound DEF IInv
  <2>2. In(send'["net"], e) = In(send["net"], e)
    BY <1>1, <2>1 DEF PortsDiffer, Ports, Tallied
  <2>3. Owners(e)' = Owners(e) + 0
    BY <1>3
  <2> QED BY <2>1, <2>2, <2>3 DEF Tallied
<1> QED BY <1>1, <1>2, <1>4, <1>5, OneMoves

LEMMA LinkKeeps ==
    ASSUME IInv, ~stale, NEW d, Unlinked("internal", d), UNCHANGED <<off, stale>>,
           NEW p \in Protocols, NEW h \in Headers, Link(d, h, p)
    PROVE  IInv'
<1>1. d \in Dgrams
  BY SendTaken
<1>2. /\ receive' = receive /\ held' = held /\ held \subseteq Dgrams
      /\ hdr' \in [Dgrams -> Headers \cup {Free}] /\ hdr'[d] # Free
      /\ \A e \in Dgrams \ {d} : hdr'[e] = hdr[e]
  BY <1>1, FreeAssumption DEF Link, IInv, Types
<1>3. ProtocolsDiffer(queue, queue', d, 1)
  <2> DEFINE longer == <<d>> \o queue[p]
  <2>1. queue \in [Protocols -> Seq(Dgrams)] /\ queue[p] \in Seq(Dgrams)
    BY DEF IInv, Types
  <2>2. /\ longer \in Seq(Dgrams)
        /\ \A e \in Dgrams : In(longer, e) = In(queue[p], e) + (IF e = d THEN 1 ELSE 0)
    BY <1>1, <2>1, FirstCounts
  <2>3. queue' = [queue EXCEPT ![p] = longer]
    BY DEF Link
  <2> HIDE DEF longer
  <2>4. ProtocolsDiffer(queue, [queue EXCEPT ![p] = longer], d, 1)
    <3>1. 1 \in Int /\ p \in Protocols
      OBVIOUS
    <3> QED BY ONLY <1>1, <2>1, <2>2, <3>1, ProtocolChanged
  <2> QED BY <2>3, <2>4
<1>4. ASSUME NEW e \in Dgrams
      PROVE  AtProtocols(queue', e) + AtClients(held', e)
               = AtProtocols(queue, e) + AtClients(held, e) + (IF e = d THEN 1 ELSE 0)
  <2>1. AtProtocols(queue', e) = AtProtocols(queue, e) + (IF e = d THEN 1 ELSE 0)
    BY <1>3 DEF ProtocolsDiffer
  <2>2. AtProtocols(queue, e) \in Nat /\ AtClients(held, e) \in {0, 1}
    BY OwnersSound DEF IInv, Tallied
  <2> QED BY <1>2, <2>1, <2>2
<1> QED BY <1>2, <1>3, <1>4, DeliveredKeeps DEF ProtocolsDiffer

LEMMA TakeKeeps ==
    ASSUME IInv, ~stale, NEW d, Unlinked("internal", d), UNCHANGED <<receive, queue, off, stale>>,
           NEW h \in Headers, hdr' = [hdr EXCEPT ![d] = h], held' = held \cup {d}
    PROVE  IInv'
<1>1. d \in Dgrams /\ In(send["internal"], d) > 0 /\ Owners(d) = 1
  BY SendTaken
<1>2. /\ held' \subseteq Dgrams /\ queue' \in [Protocols -> Seq(Dgrams)]
      /\ hdr' \in [Dgrams -> Headers \cup {Free}] /\ hdr'[d] # Free
      /\ \A e \in Dgrams \ {d} : hdr'[e] = hdr[e]
  BY <1>1, FreeAssumption DEF IInv, Types
<1>3. AtClients(held, d) = 0
  BY <1>1, OwnersSound DEF IInv, Tallied
<1>4. ASSUME NEW e \in Dgrams
      PROVE  AtProtocols(queue', e) + AtClients(held', e)
               = AtProtocols(queue, e) + AtClients(held, e) + (IF e = d THEN 1 ELSE 0)
  <2>1. AtClients(held', e) = AtClients(held, e) + (IF e = d THEN 1 ELSE 0)
    BY <1>3 DEF AtClients
  <2>2. AtProtocols(queue, e) \in Nat /\ AtClients(held, e) \in {0, 1}
    BY OwnersSound DEF IInv, Tallied
  <2> QED BY <2>1, <2>2
<1> QED BY <1>2, <1>4, DeliveredKeeps

LEMMA MaskKeeps ==
    ASSUME IInv, ~stale, NEW d, Unlinked("internal", d), Forgotten(d),
           UNCHANGED <<hdr, receive, queue, held, off, stale>>
    PROVE  IInv'
<1>1. ASSUME NEW e \in Dgrams
      PROVE  AtProtocols(queue', e) + AtClients(held', e)
               = AtProtocols(queue, e) + AtClients(held, e) + (IF e = d THEN 0 ELSE 0)
  <2>1. AtProtocols(queue, e) \in Nat /\ AtClients(held, e) \in {0, 1}
    BY OwnersSound DEF IInv, Tallied
  <2> QED BY <2>1
<1>2. Forgotten(d)'
  BY DEF Forgotten
<1> QED BY <1>1, <1>2, DeliveredKeeps DEF IInv, Types, Unlinked

LEMMA DispatchKeeps ==
    ASSUME IInv, ~stale, NEW d, Unlinked("internal", d), UNCHANGED <<off, stale>>,
           NEW p, p = hdr[d].prot, p \in Protocols,
           NEW h \in Headers, h.kind = hdr[d].kind, dispatch(d, h, p)
    PROVE  IInv'
<1>1. Types /\ d \in Dgrams /\ receive \in [Ports -> Seq(Dgrams)] /\ stale' \in BOOLEAN
  BY SendTaken DEF IInv, Types
<1>2. CASE Discard(d, receive) /\ UNCHANGED <<queue, held>>
  BY <1>1, <1>2, DiscardSettles, SendSettlesKeeps
<1>3. CASE ICMP_reply(d, h, "reply", receive) /\ UNCHANGED <<queue, held>>
  BY <1>1, <1>3, ReplySettles, SendSettlesKeeps
<1>4. CASE p = "icmp" /\ h.kind = "mask" /\ ~MaskAgent /\ UNCHANGED <<hdr, receive, queue, held>>
  <2>1. Forgotten(d)
    BY <1>4 DEF Forgotten
  <2> QED BY <1>4, <2>1, MaskKeeps
<1>5. CASE hdr' = [hdr EXCEPT ![d] = h] /\ held' = held \cup {d} /\ UNCHANGED <<receive, queue>>
  BY <1>5, TakeKeeps
<1>6. CASE Link(d, h, p)
  BY <1>6, LinkKeeps
<1> QED BY <1>2, <1>3, <1>4, <1>5, <1>6 DEF dispatch, ICMP_process

LEMMA ReceiveKeeps ==
    ASSUME IInv, receive_dgram
    PROVE  IInv'
<1>1. PICK d : d = Head(send["internal"])
  OBVIOUS
<1>2. ~stale /\ Unlinked("internal", d) /\ UNCHANGED <<off, stale>>
  BY <1>1, InternalIsAllocated DEF receive_dgram, Timer, Unlinked, Ports
<1>3. Types /\ d \in Dgrams /\ receive \in [Ports -> Seq(Dgrams)] /\ stale' \in BOOLEAN
  BY <1>2, SendTaken DEF IInv, Types
<1>4. hdr[d] \in Headers /\ hdr[d].prot \in Protocols
  BY <1>2, <1>3 DEF Types, Unlinked, Headers
<1>5. /\ [hdr[d] EXCEPT !.part = "whole"] \in Headers
      /\ [hdr[d] EXCEPT !.part = "whole"].kind = hdr[d].kind
  BY <1>4 DEF Headers
<1>6. CASE ICMP_reply(d, hdr[d], "error", receive) /\ UNCHANGED <<queue, held>>
  BY <1>2, <1>3, <1>4, <1>6, ReplySettles, SendSettlesKeeps
<1>7. CASE (Complain(d, receive) \/ Discard(d, receive)) /\ UNCHANGED <<queue, held>>
  <2>1. Settled(d, receive)
    BY <1>3, <1>4, <1>7, DiscardSettles, ComplainSettles
  <2> QED BY <1>2, <1>3, <1>7, <2>1, SendSettlesKeeps
<1>8. CASE \E h \in Headers : h.kind = hdr[d].kind /\ dispatch(d, h, hdr[d].prot)
  BY <1>2, <1>4, <1>8, DispatchKeeps
<1> QED BY <1>1, <1>4, <1>5, <1>6, <1>7, <1>8 DEF receive_dgram, reassembly

\* One that was discarded already ends the model.
LEMMA TransmitKeeps ==
    ASSUME IInv, transmit
    PROVE  IInv'
<1>1. PICK d : d = Head(send["net"])
  OBVIOUS
<1>2. /\ ~stale /\ send["net"] # <<>> /\ queue' = queue /\ held' = held /\ off' = off
      /\ send' = [send EXCEPT !["net"] = Tail(@)]
  BY DEF transmit, Timer
<1>3. CASE hdr[d] = Free
  <2>1. stale' /\ stale' \in BOOLEAN /\ UNCHANGED <<hdr, receive>>
    BY <1>1, <1>3 DEF transmit
  <2>2. send \in [Ports -> Seq(Dgrams)] /\ "net" \in Ports
    BY DEF IInv, Types, Ports
  <2>3. send' \in [Ports -> Seq(Dgrams)]
    BY <1>2, <2>2, PortHeadTaken DEF PortsDiffer
  <2> QED BY <1>2, <2>1, <2>3 DEF IInv, Types
<1>4. CASE hdr[d] # Free
  <2>1. Unlinked("net", d)
    BY <1>1, <1>2, <1>4 DEF Unlinked, Ports
  <2>2. /\ Types /\ d \in Dgrams /\ receive \in [Ports -> Seq(Dgrams)] /\ stale' \in BOOLEAN
        /\ hdr[d] \in Headers
    BY <1>1, <1>2, <1>4, <2>1, SendTaken DEF IInv, Types, transmit
  <2>3. Settled(d, receive)
    BY <1>1, <1>4, <2>2, DiscardSettles, ComplainSettles DEF transmit
  <2> QED BY <1>2, <2>1, <2>2, <2>3, SendSettlesKeeps
<1> QED BY <1>3, <1>4

(***************************************************************************)
(* clean_up, and what the clients do                                       *)
(***************************************************************************)
LEMMA CleanKeeps ==
    ASSUME IInv, NEW p \in Protocols, NEW i, clean_up(p, i)
    PROVE  IInv'
<1> DEFINE q == queue[p]
           rest == RemoveAt(q, i)
<1>1. /\ ~stale /\ i \in 1 .. Len(q) /\ UNCHANGED <<send, held, off, stale>>
      /\ queue' = [queue EXCEPT ![p] = rest] /\ Complain(q[i], receive)
  BY DEF clean_up, Timer
<1>2. Types /\ q \in Seq(Dgrams) /\ queue \in [Protocols -> Seq(Dgrams)]
  BY DEF IInv, Types
<1>3. /\ q[i] \in Dgrams /\ rest \in Seq(Dgrams)
      /\ \A e \in Dgrams : In(q, e) = In(rest, e) + (IF e = q[i] THEN 1 ELSE 0)
  BY <1>1, <1>2, RemoveCounts
<1>4. PICK d \in Dgrams : d = q[i]
  BY <1>3
<1> HIDE DEF rest
<1>5. ProtocolsDiffer(queue, [queue EXCEPT ![p] = rest], d, -1)
  <2>1. -1 \in Int /\ p \in Protocols
    OBVIOUS
  <2>2. \A e \in Dgrams : In(q, e) \in Nat /\ In(rest, e) \in Nat
    BY <1>2, <1>3, LinkedCounts
  <2>3. ASSUME NEW e \in Dgrams PROVE In(rest, e) = In(queue[p], e) + (IF e = d THEN -1 ELSE 0)
    BY <1>3, <1>4, <2>2
  <2> QED BY ONLY <1>2, <1>3, <2>1, <2>3, ProtocolChanged
<1>6. ProtocolsDiffer(queue, queue', d, -1)
  BY <1>1, <1>5
<1>7. Owners(d) > In(send["net"], d)
  <2>1. In(q, d) > 0
    <3>1. In(q, d) = In(rest, d) + 1 /\ In(rest, d) \in Nat
      BY <1>3, <1>4, LinkedCounts
    <3> QED BY <3>1
  <2>2. AtProtocols(queue, d) >= In(q, d) /\ In(q, d) \in Nat
    BY <1>2, AtProtocolsSound
  <2> QED BY <2>1, <2>2, OwnersSound DEF IInv, Tallied
<1>8. hdr[d] # Free /\ Owners(d) = 1
  BY <1>1, <1>7, LinkedIsAllocated
<1>9. Settled(d, receive)
  <2>1. Complain(d, receive) /\ hdr[d] \in Headers /\ receive \in [Ports -> Seq(Dgrams)]
    BY <1>1, <1>2, <1>4, <1>8 DEF Types
  <2> QED BY <1>2, <2>1, ComplainSettles
<1>10. ASSUME NEW e \in Dgrams PROVE Owners(e) = Left(receive, e) + (IF e = d THEN 1 ELSE 0)
  <2>1. Tallied(e)
    BY OwnersSound DEF IInv
  <2>2. AtProtocols(queue', e) = AtProtocols(queue, e) + (IF e = d THEN -1 ELSE 0)
    BY <1>6 DEF ProtocolsDiffer
  <2>3. Left(receive, e)
          = AtPorts(receive, e) + AtPorts(send, e) + AtProtocols(queue', e) + AtClients(held, e)
    BY <1>1 DEF Left
  <2> QED BY <2>1, <2>2, <2>3 DEF Tallied
<1>11. Taken(d, receive)
  BY <1>1, <1>2, <1>6, <1>10 DEF Taken, ProtocolsDiffer, Types
<1> QED BY <1>1, <1>2, <1>8, <1>9, <1>11, SettledKeeps DEF Types

\* A new datagram: Arrive, and IP_send.
LEMMA NewKeeps ==
    ASSUME IInv, ~stale, NEW p \in Ports, NEW d \in Dgrams, Available(d), NEW h \in Headers,
           hdr' = [hdr EXCEPT ![d] = h], receive' = [receive EXCEPT ![p] = Append(@, d)],
           UNCHANGED <<send, queue, held, off, stale>>
    PROVE  IInv'
<1>1. PortsDiffer(receive, receive', p, d, 1)
  <2>1. receive \in [Ports -> Seq(Dgrams)]
    BY DEF IInv, Types
  <2> QED BY <2>1, PortAppended
<1>2. /\ hdr' \in [Dgrams -> Headers \cup {Free}] /\ hdr'[d] # Free
      /\ \A e \in Dgrams \ {d} : hdr'[e] = hdr[e]
  BY FreeAssumption DEF IInv, Types
<1>3. Types'
  BY <1>1, <1>2 DEF IInv, Types, PortsDiffer
<1>4. ASSUME NEW e \in Dgrams PROVE Owners(e)' = Owners(e) + (IF e = d THEN 1 ELSE 0)
  <2>1. Tallied(e) /\ Tallied(e)'
    BY <1>3, OwnersSound, OwnersSoundNext DEF IInv
  <2>2. AtPorts(receive', e) = AtPorts(receive, e) + (IF e = d THEN 1 ELSE 0)
    BY <1>1 DEF PortsDiffer
  <2>3. /\ AtPorts(send, e)' = AtPorts(send, e) /\ AtProtocols(queue, e)' = AtProtocols(queue, e)
        /\ AtClients(held, e)' = AtClients(held, e)
    OBVIOUS
  <2> DEFINE x == IF e = d THEN 1 ELSE 0
             r == AtPorts(receive, e)
  <2>4. x \in Int /\ r \in Nat /\ AtPorts(receive', e) = r + x
    BY <2>1, <2>2 DEF Tallied
  <2> HIDE DEF x
  <2>5. Owners(e)' = Owners(e) + x
    BY ONLY <2>1, <2>3, <2>4 DEF Tallied
  <2> QED BY <2>5 DEF x
<1>5. Owners(d)' = 1
  <2>1. Owners(d) = 0
    BY Nowhere
  <2> QED BY <1>4, <2>1
<1>6. ASSUME NEW e \in Dgrams \ {d} PROVE Owners(e)' = Owners(e)
  <2>1. Owners(e)' = Owners(e) + 0 /\ Tallied(e)
    BY <1>4, OwnersSound DEF IInv
  <2> QED BY <2>1 DEF Tallied
<1> QED BY <1>2, <1>3, <1>5, <1>6, OneMoves

LEMMA FetchKeeps ==
    ASSUME IInv, NEW p \in Protocols, IP_fetch(p)
    PROVE  IInv'
<1> DEFINE q == queue[p]
           rest == Front(q)
<1>1. /\ ~stale /\ q # <<>> /\ UNCHANGED <<hdr, receive, send, off, stale>>
      /\ queue' = [queue EXCEPT ![p] = rest] /\ held' = held \cup {Last(q)}
  BY DEF IP_fetch, App
<1>2. Types /\ q \in Seq(Dgrams) /\ queue \in [Protocols -> Seq(Dgrams)]
  BY DEF IInv, Types
<1>3. /\ Last(q) \in Dgrams /\ In(q, Last(q)) > 0 /\ rest \in Seq(Dgrams)
      /\ \A e \in Dgrams : In(q, e) = In(rest, e) + (IF e = Last(q) THEN 1 ELSE 0)
  BY <1>1, <1>2, FrontCounts
<1>4. PICK d \in Dgrams : d = Last(q)
  BY <1>3
<1> HIDE DEF rest
<1>5. ProtocolsDiffer(queue, [queue EXCEPT ![p] = rest], d, -1)
  <2>1. -1 \in Int /\ p \in Protocols
    OBVIOUS
  <2>2. \A e \in Dgrams : In(q, e) \in Nat /\ In(rest, e) \in Nat
    BY <1>2, <1>3, LinkedCounts
  <2>3. ASSUME NEW e \in Dgrams PROVE In(rest, e) = In(queue[p], e) + (IF e = d THEN -1 ELSE 0)
    BY <1>3, <1>4, <2>2
  <2> QED BY ONLY <1>2, <1>3, <2>1, <2>3, ProtocolChanged
<1>6. ProtocolsDiffer(queue, queue', d, -1) /\ held' = held \cup {d}
  BY <1>1, <1>4, <1>5
<1>7. Owners(d) > In(send["net"], d) /\ AtProtocols(queue, d) >= 1
  <2>1. AtProtocols(queue, d) >= In(q, d) /\ In(q, d) \in Nat /\ In(q, d) > 0
    BY <1>2, <1>3, <1>4, AtProtocolsSound
  <2> QED BY <2>1, OwnersSound DEF IInv, Tallied
<1>8. hdr[d] # Free /\ Owners(d) = 1 /\ AtClients(held, d) = 0
  <2>1. hdr[d] # Free /\ Owners(d) = 1
    BY <1>1, <1>7, LinkedIsAllocated
  <2> QED BY <1>7, <2>1, OwnersSound DEF IInv, Tallied
<1>9. Types'
  BY <1>1, <1>2, <1>6 DEF Types, ProtocolsDiffer
<1>10. ASSUME NEW e \in Dgrams PROVE Owners(e)' = Owners(e)
  <2>1. Tallied(e) /\ Tallied(e)'
    BY <1>2, <1>9, OwnersSound, OwnersSoundNext
  <2>2. AtProtocols(queue', e) = AtProtocols(queue, e) + (IF e = d THEN -1 ELSE 0)
    BY <1>6 DEF ProtocolsDiffer
  <2>3. AtClients(held', e) = AtClients(held, e) + (IF e = d THEN 1 ELSE 0)
    BY <1>6, <1>8 DEF AtClients
  <2>4. AtPorts(receive, e)' = AtPorts(receive, e) /\ AtPorts(send, e)' = AtPorts(send, e)
    BY <1>1
  <2> QED BY <2>1, <2>2, <2>3, <2>4 DEF Tallied
<1> QED BY <1>1, <1>8, <1>9, <1>10, OneMoves

LEMMA DiscardKeeps ==
    ASSUME IInv, NEW d \in Dgrams, IP_discard(d)
    PROVE  IInv'
<1>1. /\ ~stale /\ d \in held /\ held' = held \ {d} /\ UNCHANGED <<send, queue, off, stale>>
      /\ Types /\ receive \in [Ports -> Seq(Dgrams)] /\ stale' \in BOOLEAN
  BY DEF IP_discard, App, IInv, Types
<1>2. hdr[d] # Free
  <2>1. Owners(d) > In(send["net"], d)
    <3>1. AtClients(held, d) = 1
      BY <1>1 DEF AtClients
    <3> QED BY <1>1, <3>1, OwnersSound DEF Tallied
  <2> QED BY <1>1, <2>1, LinkedIsAllocated
<1>3. Settled(d, receive)
  BY <1>1, DiscardSettles DEF IP_discard
<1>4. ASSUME NEW e \in Dgrams PROVE Owners(e) = Left(receive, e) + (IF e = d THEN 1 ELSE 0)
  <2>1. Tallied(e)
    BY <1>1, OwnersSound
  <2>2. AtClients(held, e) = AtClients(held', e) + (IF e = d THEN 1 ELSE 0)
    BY <1>1 DEF AtClients
  <2>3. Left(receive, e)
          = AtPorts(receive, e) + AtPorts(send, e) + AtProtocols(queue, e) + AtClients(held', e)
    BY <1>1 DEF Left
  <2>4. AtClients(held', e) \in {0, 1}
    BY DEF AtClients
  <2> QED BY <2>1, <2>2, <2>3, <2>4 DEF Tallied
<1>5. Taken(d, receive)
  BY <1>1, <1>4 DEF Taken, Types
<1> QED BY <1>1, <1>2, <1>3, <1>5, SettledKeeps

(***************************************************************************)
(* off_port: what it discards stays linked until it empties the queue      *)
(***************************************************************************)
IsRecord == off = [at |-> off.at, walk |-> off.walk]

\* Nothing moves, and off_port gets on.
LEMMA StayKeeps ==
    ASSUME IInv, UNCHANGED <<hdr, receive, send, queue, held, stale>>, off.at # "send" \/ off' = off
    PROVE  IInv'
<1>1. Types'
  BY DEF IInv, Types
<1>2. ASSUME ~stale, NEW e \in Dgrams PROVE Owned(e)'
  <2>1. Owners(e)' = Owners(e) /\ In(send["net"], e)' = In(send["net"], e) /\ hdr' = hdr
    BY DEF Owners
  <2>2. In(send["net"], e) \in Nat /\ In(send["net"], e) <= Owners(e)
    BY OwnersSound DEF IInv, Tallied
  <2>3. Owned(e)
    BY <1>2 DEF IInv
  <2>4. CASE off' = off
    BY <2>1, <2>3, <2>4 DEF Owned, Forgotten
  <2>5. CASE off.at # "send"
    BY <2>1, <2>2, <2>3, <2>5 DEF Owned, Forgotten
  <2> QED BY <2>4, <2>5
<1> QED BY <1>1, <1>2 DEF IInv

LEMMA DepleteKeeps ==
    ASSUME IInv, IsRecord, deplete_one
    PROVE  IInv'
<1> DEFINE d == off.walk
           q == send["net"]
<1>1. ~stale /\ off.at = "send" /\ UNCHANGED <<send, queue, held>>
  BY DEF deplete_one, App
<1>2. CASE stale' = TRUE /\ UNCHANGED <<hdr, receive, off>>
  BY <1>1, <1>2 DEF IInv, Types
<1>3. CASE hdr[d] # Free /\ d \in ToSet(q)
  <2>1. Types /\ q \in Seq(Dgrams)
    <3>1. Types /\ send \in [Ports -> Seq(Dgrams)] /\ "net" \in Ports
      BY DEF IInv, Types, Ports
    <3> QED BY ONLY <3>1
  <2>2. PICK i \in 1 .. Len(q) : q[i] = d
    <3>1. d \in {q[i] : i \in DOMAIN q}
      BY <1>3 DEF ToSet
    <3>2. DOMAIN q = 1 .. Len(q)
      BY <2>1, LenProperties
    <3> QED BY <3>1, <3>2
  <2>3. d \in Dgrams
    BY <2>1, <2>2, ElementOfSeq
  <2>4. PICK c \in Dgrams : c = d
    BY <2>3
  <2> HIDE DEF d
  <2>5. In(q, c) > 0
    BY <2>1, <2>2, <2>4, LinkedCounts
  <2>6. Owners(c) = 1 /\ In(send["net"], c) = 1
    <3>1. In(q, c) \in Nat /\ In(q, c) <= Owners(c) /\ Owners(c) > 0
      <4>1. Tallied(c)
        BY <2>1, OwnersSound
      <4> QED BY <2>5, <4>1 DEF Tallied
    <3>2. Owners(c) = 1
      BY <1>1, <1>3, <2>4, <3>1, OwnsOne
    <3> QED BY <2>5, <3>1, <3>2
  <2>7. Discard(c, receive) /\ off'.at = "send" /\ stale' = FALSE
    <3>1. Discard(d, receive) /\ off' = [off EXCEPT !.walk = After(q, d)] /\ stale' = FALSE
      BY <1>3 DEF deplete_one, d
    <3>2. off'.at = "send"
      BY <1>1, <3>1 DEF IsRecord
    <3> QED BY <2>4, <3>1, <3>2
  <2>8. receive' = receive /\ hdr'[c] = Free /\ \A e \in Dgrams \ {c} : hdr'[e] = hdr[e]
    BY <2>1, <2>7 DEF Discard, Types
  <2>9. Types'
    BY <1>1, <2>1, <2>7, <2>8 DEF Types, Discard
  <2>10. ASSUME NEW e \in Dgrams PROVE Owned(e)'
    <3>1. Owners(e)' = Owners(e) /\ In(send["net"], e)' = In(send["net"], e)
      BY <1>1, <2>8 DEF Owners
    <3>2. CASE e = c
      BY <2>6, <2>7, <2>8, <3>1, <3>2 DEF Owned, Forgotten
    <3>3. CASE e # c
      <4>1. Owned(e) /\ hdr'[e] = hdr[e] /\ off'.at = off.at
        BY <1>1, <2>7, <2>8, <3>3 DEF IInv
      <4> QED BY <3>1, <4>1 DEF Owned, Forgotten
    <3> QED BY <3>2, <3>3
  <2> QED BY <2>9, <2>10 DEF IInv
<1> QED BY <1>2, <1>3 DEF deplete_one

LEMMA DepletedKeeps ==
    ASSUME IInv, depleted
    PROVE  IInv'
<1> DEFINE q == send["net"]
           none == <<>>
<1>1. /\ ~stale /\ off.at = "send" /\ off'.at = "flag" /\ UNCHANGED <<hdr, receive, queue, held>>
      /\ send' = [send EXCEPT !["net"] = none] /\ stale' \in BOOLEAN
      /\ ~stale' => \A d \in ToSet(q) : hdr[d] = Free
  BY DEF depleted, App
<1>2. none \in Seq(Dgrams) /\ \A e \in Dgrams : In(none, e) = 0
  BY EmptyCounts
<1> HIDE DEF none
<1>3. Types /\ q \in Seq(Dgrams)
  BY DEF IInv, Types, Ports
<1>4. /\ send' \in [Ports -> Seq(Dgrams)] /\ send'["net"] = none /\ send'["internal"] = send["internal"]
  BY <1>1, <1>2, <1>3 DEF Types, Ports
<1>5. Types'
  BY <1>1, <1>3, <1>4 DEF Types
<1>6. ASSUME ~stale', NEW e \in Dgrams PROVE Owned(e)'
  <2>1. Owned(e) /\ Tallied(e) /\ Tallied(e)'
    BY <1>1, <1>3, <1>5, OwnersSound, OwnersSoundNext DEF IInv
  <2>2. /\ In(send'["net"], e) = 0 /\ In(send'["internal"], e) = In(send["internal"], e)
        /\ AtPorts(receive, e)' = AtPorts(receive, e) /\ AtProtocols(queue, e)' = AtProtocols(queue, e)
        /\ AtClients(held, e)' = AtClients(held, e) /\ hdr' = hdr
    BY <1>1, <1>2, <1>4
  <2>3. Owners(e)' = Owners(e) - In(send["net"], e) /\ Owners(e) \in Nat
    BY <2>1, <2>2 DEF Tallied
  <2>4. CASE hdr[e] = Free
    <3>1. Owners(e)' = 0
      BY <1>1, <2>1, <2>3, <2>4 DEF Owned, Forgotten, Tallied
    <3> QED BY <1>1, <2>2, <2>4, <3>1 DEF Owned, Forgotten
  <2>5. CASE hdr[e] # Free
    <3>1. In(q, e) = 0
      <4>1. ~(In(q, e) > 0)
        BY <1>1, <1>3, <1>6, <2>5, LinkedCounts DEF ToSet
      <4> QED BY <2>1, <4>1 DEF Tallied
    <3>2. Owners(e)' = Owners(e)
      BY <2>3, <3>1
    <3> QED BY <2>1, <2>2, <2>5, <3>2 DEF Owned, Forgotten
  <2> QED BY <2>4, <2>5
<1> QED BY <1>5, <1>6 DEF IInv

(***************************************************************************)
(* The invariant is inductive                                              *)
(***************************************************************************)
LEMMA InitIInv == Init => IInv /\ IsRecord
<1> SUFFICES ASSUME Init PROVE IInv /\ IsRecord
  OBVIOUS
<1>1. IsRecord /\ off.at # "send"
  BY DEF Init, NotOff, IsRecord
<1>2. Types
  <2> DEFINE none == <<>>
  <2>1. none \in Seq(Dgrams) /\ receive = [p \in Ports |-> none] /\ send = [p \in Ports |-> none]
        /\ queue = [p \in Protocols |-> none]
    BY DEF Init
  <2> HIDE DEF none
  <2> QED BY <2>1 DEF Init, Types
<1>3. ASSUME NEW e \in Dgrams PROVE Owned(e)
  <2>1. /\ receive["internal"] = <<>> /\ receive["net"] = <<>> /\ send["internal"] = <<>>
        /\ send["net"] = <<>> /\ queue["icmp"] = <<>> /\ queue["udp"] = <<>> /\ queue["dead"] = <<>>
        /\ held = {} /\ hdr[e] = Free
    BY DEF Init, Ports, Protocols
  <2>2. In(<<>>, e) = 0
    BY EmptyCounts
  <2>3. Owners(e) = 0
    BY <2>1, <2>2 DEF Owners
  <2> QED BY <1>1, <2>1, <2>3 DEF Owned
<1> QED BY <1>1, <1>2, <1>3 DEF IInv

LEMMA NextIInv == IInv /\ IsRecord /\ [Next]_vars => IInv' /\ IsRecord'
<1> SUFFICES ASSUME IInv, IsRecord, [Next]_vars PROVE IInv' /\ IsRecord'
  OBVIOUS
<1>1. CASE \E d \in Dgrams, h \in Arrivals : Arrive(d, h)
  BY <1>1, HeadersAssumption, NewKeeps DEF Arrive, Timer, IsRecord, Ports
<1>2. CASE \E p \in Ports : process_dgram(p)
  <2>1. off' = off
    BY <1>2 DEF process_dgram
  <2> QED BY <1>2, <2>1, ProcessKeeps DEF IsRecord
<1>3. CASE receive_dgram
  <2>1. off' = off
    BY <1>3 DEF receive_dgram
  <2> QED BY <1>3, <2>1, ReceiveKeeps DEF IsRecord
<1>4. CASE transmit
  <2>1. off' = off
    BY <1>4 DEF transmit
  <2> QED BY <1>4, <2>1, TransmitKeeps DEF IsRecord
<1>5. CASE \E p \in Protocols, i \in 1 .. Cardinality(Dgrams) : clean_up(p, i)
  <2>1. off' = off
    BY <1>5 DEF clean_up
  <2> QED BY <1>5, <2>1, CleanKeeps DEF IsRecord
<1>6. CASE \E d \in Dgrams, h \in Sends : IP_send(d, h)
  BY <1>6, HeadersAssumption, NewKeeps DEF IP_send, App, IsRecord, Ports
<1>7. CASE \E p \in Protocols : IP_fetch(p)
  <2>1. off' = off
    BY <1>7 DEF IP_fetch
  <2> QED BY <1>7, <2>1, FetchKeeps DEF IsRecord
<1>8. CASE \E d \in Dgrams : IP_discard(d)
  <2>1. off' = off
    BY <1>8 DEF IP_discard
  <2> QED BY <1>8, <2>1, DiscardKeeps DEF IsRecord
<1>9. CASE UNCHANGED <<hdr, receive, send, queue, held, stale>>
           /\ (off' = off \/ off = NotOff \/ off.at = "flag")
           /\ (off' = off \/ off' = NotOff \/ off' = [at |-> "send", walk |-> First(send["net"])])
  <2>1. off.at # "send" \/ off' = off
    BY <1>9 DEF NotOff
  <2>2. IsRecord'
    BY <1>9 DEF IsRecord, NotOff
  <2> QED BY <1>9, <2>1, <2>2, StayKeeps
<1>10. CASE deplete_one
  <2>1. IsRecord'
    BY <1>10 DEF deplete_one, IsRecord
  <2> QED BY <1>10, <2>1, DepleteKeeps
<1>11. CASE depleted
  <2>1. IsRecord'
    BY <1>11 DEF depleted, IsRecord
  <2> QED BY <1>11, <2>1, DepletedKeeps
<1>12. CASE \/ poll_ports \/ arrived \/ processed("internal", "net") \/ processed("net", "deliver")
            \/ received \/ transmitted \/ cleaned \/ IP_handler \/ on_port \/ Ended \/ UNCHANGED vars
  <2>1. UNCHANGED <<hdr, receive, send, queue, held, stale, off>>
    BY <1>12 DEF poll_ports, arrived, processed, received, transmitted, cleaned, IP_handler, on_port,
       Ended, vars
  <2> QED BY <1>9, <2>1
<1>13. CASE off_port
  BY <1>9, <1>13 DEF off_port
<1>14. CASE port_is_off
  BY <1>9, <1>14 DEF port_is_off
<1> QED BY <1>1, <1>2, <1>3, <1>4, <1>5, <1>6, <1>7, <1>8, <1>10, <1>11, <1>12, <1>13, <1>14
        DEF Next, TimerWork

(***************************************************************************)
(* The theorems                                                            *)
(***************************************************************************)
LEMMA IInvHolds == Spec => [](IInv /\ IsRecord)
BY InitIInv, NextIInv, PTL DEF Spec

\* No datagram is ever in two queues, or in a queue and with a client, and none that
\* was discarded is linked anywhere, but where off_port is still discarding.
THEOREM NeverTwoOwners == Spec => []OneOwner
<1>1. IInv => OneOwner
  <2> SUFFICES ASSUME IInv, ~stale, NEW d \in Dgrams
               PROVE  Owners(d) <= (IF hdr[d] = Free /\ ~Discarded(d) THEN 0 ELSE 1)
    BY DEF OneOwner
  <2>1. Owned(d) /\ Tallied(d)
    BY OwnersSound DEF IInv
  <2> QED BY <2>1 DEF Owned, Tallied, Discarded
<1> QED BY <1>1, IInvHolds, PTL

\* Every datagram there is memory for is with somebody who will discard it or pass it
\* on, but for mask requests that are not answered: ICMP_process forgets these.
THEOREM NeverLost == Spec => []NothingLeaks
<1>1. IInv => NothingLeaks
  <2> SUFFICES ASSUME IInv, ~stale, NEW d \in Allocated PROVE Owners(d) >= 1 \/ Forgotten(d)
    BY DEF NothingLeaks
  <2> QED BY DEF IInv, Owned, Allocated
<1> QED BY <1>1, IInvHolds, PTL

(***************************************************************************)
(* The queues of the protocols are mailboxes                               *)
(***************************************************************************)
boxes == [p \in Protocols |-> Reverse(queue[p])]
readers == <<boxes, held, late>>

LEMMA BoxesInit == Init => Boxes!Init
<1> DEFINE none == <<>>
<1>1. Reverse(none) = none
  <2>1. none \in Seq(Dgrams) /\ Len(none) = 0
    BY EmptySeq
  <2>2. Reverse(none) \in Seq(Dgrams) /\ Len(Reverse(none)) = 0
    BY <2>1, ReverseSound
  <2> QED BY <2>2, EmptySeq
<1> SUFFICES ASSUME Init PROVE Boxes!Init
  OBVIOUS
<1>3. queue = [p \in Protocols |-> none] /\ held = {} /\ late = {}
  BY DEF Init
<1> HIDE DEF none
<1>4. [p \in Protocols |-> Reverse(queue[p])] = [p \in Protocols |-> none]
  BY <1>1, <1>3
<1> QED BY <1>3, <1>4 DEF Boxes!Init, none

\* What is found too old is removed before clean_up ends.
LateInv == late \subseteq Dgrams /\ (late # {} => stage = "clean")

LEMMA LateInit == Init => LateInv
BY DEF Init, LateInv

LEMMA WaitingIsDgrams == Types => Waiting \subseteq Dgrams
<1> SUFFICES ASSUME Types, NEW p \in Protocols PROVE ToSet(queue[p]) \subseteq Dgrams
  BY DEF Waiting
<1>1. queue[p] \in Seq(Dgrams)
  BY DEF Types
<1>2. DOMAIN queue[p] = 1 .. Len(queue[p]) /\ \A i \in 1 .. Len(queue[p]) : queue[p][i] \in Dgrams
  BY <1>1, LenProperties, ElementOfSeq
<1> QED BY <1>2 DEF ToSet

LEMMA LateNext == IInv /\ LateInv /\ [Next]_vars => LateInv'
<1> SUFFICES ASSUME IInv, LateInv, [Next]_vars PROVE LateInv'
  OBVIOUS
<1>1. CASE transmitted
  BY <1>1, WaitingIsDgrams DEF transmitted, NextStage, LateInv, IInv
<1>2. CASE \E p \in Protocols, i \in 1 .. Cardinality(Dgrams) : clean_up(p, i)
  BY <1>2 DEF clean_up, Timer, LateInv
<1>3. CASE cleaned
  BY <1>3 DEF cleaned, LateInv
<1>4. CASE late' = late /\ (stage' = stage \/ stage # "clean")
  BY <1>4 DEF LateInv
<1>5. \/ transmitted \/ cleaned
      \/ \E p \in Protocols, i \in 1 .. Cardinality(Dgrams) : clean_up(p, i)
      \/ late' = late /\ (stage' = stage \/ stage # "clean")
  BY DEF Next, TimerWork, Arrive, poll_ports, process_dgram, receive_dgram, arrived, processed, received,
     transmit, IP_send, IP_fetch, IP_discard, IP_handler, on_port, off_port, deplete_one, depleted,
     port_is_off, Ended, NextStage, Timer, vars
<1> QED BY <1>1, <1>2, <1>3, <1>4, <1>5

\* A place of a box is a place of its queue, and back.
LEMMA BoxPlaces ==
    ASSUME Types, NEW p \in Protocols
    PROVE  /\ boxes[p] \in Seq(Dgrams) /\ Len(boxes[p]) = Len(queue[p])
           /\ \A i \in 1 .. Len(queue[p]) : /\ Len(queue[p]) - i + 1 \in 1 .. Len(queue[p])
                                            /\ boxes[p][Len(queue[p]) - i + 1] = queue[p][i]
                                            /\ boxes[p][i] = queue[p][Len(queue[p]) - i + 1]
<1>1. queue[p] \in Seq(Dgrams) /\ Len(queue[p]) \in Nat
  BY LenProperties DEF Types
<1> DEFINE n == Len(queue[p])
<1>2. /\ boxes[p] \in Seq(Dgrams) /\ Len(boxes[p]) = n
      /\ \A i \in 1 .. n : boxes[p][i] = queue[p][n - i + 1]
  BY <1>1, ReverseSound DEF boxes
<1>3. \A i \in 1 .. n : n - i + 1 \in 1 .. n /\ n - (n - i + 1) + 1 = i
  BY <1>1
<1> HIDE DEF n
<1>4. \A i \in 1 .. n : boxes[p][n - i + 1] = queue[p][i]
  BY <1>2, <1>3
<1> QED BY <1>2, <1>3, <1>4 DEF n

\* Linking in front is the arrival of the last.
LEMMA LinkArrives ==
    ASSUME Types, NEW d \in Dgrams, NEW p \in Protocols, NEW h, Link(d, h, p), late' = late
    PROVE  Boxes!Next
<1> DEFINE longer == <<d>> \o queue[p]
           later  == Append(boxes[p], d)
<1>1. queue[p] \in Seq(Dgrams) /\ queue \in [Protocols -> Seq(Dgrams)]
  BY DEF Types
<1>2. Reverse(longer) = later
  BY <1>1, ReversePrepend DEF boxes
<1>3. queue' = [queue EXCEPT ![p] = longer] /\ held' = held
  BY DEF Link
<1> HIDE DEF longer, later
<1>4. boxes' = [boxes EXCEPT ![p] = later]
  BY <1>1, <1>2, <1>3 DEF boxes
<1>5. Boxes!Arrive(p, d)
  BY <1>3, <1>4 DEF Boxes!Arrive, boxes, later
<1> QED BY <1>5 DEF Boxes!Next

\* What a handler keeps never waited.
LEMMA TakeHands ==
    ASSUME IInv, ~stale, NEW d, Unlinked("internal", d),
           queue' = queue, late' = late, held' = held \cup {d}
    PROVE  Boxes!Next
<1>1. d \in Dgrams /\ In(send["internal"], d) > 0 /\ Owners(d) = 1
  BY SendTaken
<1>2. ASSUME NEW p \in Protocols, NEW i \in 1 .. Len(boxes[p]), boxes[p][i] = d PROVE FALSE
  <2>1. Types /\ queue \in [Protocols -> Seq(Dgrams)] /\ queue[p] \in Seq(Dgrams)
    BY DEF IInv, Types
  <2>2. \E j \in 1 .. Len(queue[p]) : queue[p][j] = d
    BY <1>2, <2>1, BoxPlaces
  <2>3. In(queue[p], d) > 0
    BY <1>1, <2>1, <2>2, LinkedCounts
  <2>4. AtProtocols(queue, d) >= In(queue[p], d) /\ In(queue[p], d) \in Nat
    BY <1>1, <2>1, AtProtocolsSound
  <2>5. Tallied(d)
    BY <1>1, <2>1, OwnersSound
  <2>6. AtPorts(send, d) >= 1 /\ AtProtocols(queue, d) >= 1
    BY <1>1, <2>3, <2>4, <2>5 DEF Tallied
  <2> QED BY <1>1, <2>5, <2>6 DEF Tallied
<1>3. ~Boxes!Waits(d)
  BY <1>2 DEF Boxes!Waits, boxes
<1>4. boxes' = boxes
  BY DEF boxes
<1>5. Boxes!Hand(d)
  BY <1>3, <1>4 DEF Boxes!Hand, boxes
<1> QED BY <1>1, <1>5 DEF Boxes!Next

\* The last of the chain is the oldest of the box.
LEMMA FetchFetches ==
    ASSUME Types, LateInv, NEW p \in Protocols, IP_fetch(p)
    PROVE  Boxes!Next
<1> DEFINE shorter == Front(queue[p])
           next    == Tail(boxes[p])
<1>1. /\ queue[p] \in Seq(Dgrams) /\ queue \in [Protocols -> Seq(Dgrams)] /\ queue[p] # <<>>
      /\ held' = held \cup {Last(queue[p])} /\ late = {} /\ late' = {}
  BY DEF Types, IP_fetch, App, LateInv
<1>2. Reverse(shorter) = next /\ boxes[p] # <<>>
  BY <1>1, ReverseFront DEF boxes
<1>3. queue' = [queue EXCEPT ![p] = shorter]
  BY DEF IP_fetch
<1>4. Head(boxes[p]) = Last(queue[p])
  <2>1. Len(queue[p]) \in Nat /\ Len(queue[p]) > 0
    BY <1>1, LenProperties, EmptySeq
  <2>2. boxes[p][1] = queue[p][Len(queue[p]) - 1 + 1]
    BY <2>1, BoxPlaces
  <2>3. Head(boxes[p]) = boxes[p][1]
    BY <1>2, BoxPlaces
  <2> QED BY <2>1, <2>2, <2>3 DEF Last
<1> HIDE DEF shorter, next
<1>5. boxes' = [boxes EXCEPT ![p] = next]
  BY <1>1, <1>2, <1>3 DEF boxes
<1>6. Boxes!Fetch(p)
  BY <1>1, <1>2, <1>4, <1>5 DEF Boxes!Fetch, boxes, next
<1> QED BY <1>6 DEF Boxes!Next

LEMMA CleanExpires ==
    ASSUME Types, NEW p \in Protocols, NEW i, clean_up(p, i)
    PROVE  Boxes!Next
<1> DEFINE k       == Len(queue[p]) - i + 1
           shorter == RemoveAt(queue[p], i)
           kept    == RemoveAt(boxes[p], k)
<1>1. /\ queue[p] \in Seq(Dgrams) /\ queue \in [Protocols -> Seq(Dgrams)]
      /\ i \in 1 .. Len(queue[p]) /\ queue' = [queue EXCEPT ![p] = shorter]
      /\ queue[p][i] \in late /\ late' = late \ {queue[p][i]} /\ held' = held
  BY DEF Types, clean_up
<1>2. Reverse(shorter) = kept
  BY <1>1, ReverseRemove DEF boxes
<1>3. k \in 1 .. Len(boxes[p]) /\ boxes[p][k] = queue[p][i]
  BY <1>1, BoxPlaces
<1>4. kept = SubSeq(boxes[p], 1, k - 1) \o SubSeq(boxes[p], k + 1, Len(boxes[p]))
  BY DEF RemoveAt
<1> HIDE DEF shorter, kept, k
<1>5. boxes' = [boxes EXCEPT ![p] = kept]
  BY <1>1, <1>2 DEF boxes
<1>6. Boxes!Expire(p, k)
  BY <1>1, <1>3, <1>4, <1>5 DEF Boxes!Expire, boxes
<1> QED BY <1>3, <1>6 DEF Boxes!Next, boxes

\* Only what waits gets too old.
LEMMA TransmittedAges ==
    ASSUME Types, LateInv, transmitted
    PROVE  Boxes!Next
<1>1. late = {} /\ late' \in SUBSET Waiting /\ queue' = queue /\ held' = held /\ late' \subseteq Dgrams
  BY WaitingIsDgrams DEF LateInv, transmitted, Timer
<1>2. ASSUME NEW d \in late' PROVE Boxes!Waits(d)
  <2>1. PICK p \in Protocols : d \in ToSet(queue[p])
    BY <1>1 DEF Waiting
  <2>2. queue[p] \in Seq(Dgrams)
    BY DEF Types
  <2>3. PICK i \in 1 .. Len(queue[p]) : queue[p][i] = d
    BY <2>1, <2>2, LenProperties DEF ToSet
  <2>4. \E j \in 1 .. Len(boxes[p]) : boxes[p][j] = d
    BY <2>3, BoxPlaces
  <2> QED BY <2>4 DEF Boxes!Waits, boxes
<1>3. boxes' = boxes
  BY <1>1 DEF boxes
<1>4. Boxes!Age(late')
  BY <1>1, <1>2, <1>3 DEF Boxes!Age, boxes
<1> QED BY <1>1, <1>4 DEF Boxes!Next

LEMMA BoxesNext == IInv /\ LateInv /\ [Next]_vars => Boxes!Next \/ UNCHANGED readers
<1> SUFFICES ASSUME IInv, LateInv, [Next]_vars PROVE Boxes!Next \/ UNCHANGED readers
  OBVIOUS
<1>1. Types
  BY DEF IInv
<1>2. CASE receive_dgram
  <2>1. PICK d : d = Head(send["internal"])
    OBVIOUS
  <2>2. ~stale /\ Unlinked("internal", d) /\ late' = late
    BY <1>2, <2>1, InternalIsAllocated DEF receive_dgram, Timer, Unlinked, Ports
  <2>3. d \in Dgrams /\ hdr[d].prot \in Protocols
    <3>1. d \in Dgrams /\ hdr[d] # Free
      BY <2>2, SendTaken DEF Unlinked
    <3> QED BY <1>1, <3>1 DEF Types, Headers
  <2>4. \/ UNCHANGED <<queue, held>>
        \/ queue' = queue /\ held' = held \cup {d}
        \/ \E p \in Protocols : \E h : Link(d, h, p)
    BY <1>2, <2>1, <2>3 DEF receive_dgram, reassembly, dispatch, ICMP_process
  <2>5. CASE UNCHANGED <<queue, held>>
    BY <2>2, <2>5 DEF boxes, readers
  <2>6. CASE queue' = queue /\ held' = held \cup {d}
    BY <2>2, <2>6, TakeHands
  <2> QED BY <1>1, <2>2, <2>3, <2>4, <2>5, <2>6, LinkArrives
<1>3. CASE \E p \in Protocols : IP_fetch(p)
  BY <1>1, <1>3, FetchFetches
<1>4. CASE \E p \in Protocols, i \in 1 .. Cardinality(Dgrams) : clean_up(p, i)
  BY <1>1, <1>4, CleanExpires
<1>5. CASE transmitted
  BY <1>1, <1>5, TransmittedAges
<1>6. CASE \E d \in Dgrams : IP_discard(d)
  <2>1. PICK d \in Dgrams : IP_discard(d)
    BY <1>6
  <2>2. boxes' = boxes
    BY <2>1 DEF IP_discard, boxes
  <2>3. Boxes!Discard(d)
    BY <2>1, <2>2 DEF IP_discard, Boxes!Discard, boxes
  <2> QED BY <2>3 DEF Boxes!Next
<1>7. CASE UNCHANGED <<queue, held, late>>
  BY <1>7 DEF boxes, readers
<1>8. \/ receive_dgram \/ transmitted
      \/ \E p \in Protocols : IP_fetch(p)
      \/ \E p \in Protocols, i \in 1 .. Cardinality(Dgrams) : clean_up(p, i)
      \/ \E d \in Dgrams : IP_discard(d)
      \/ UNCHANGED <<queue, held, late>>
  BY DEF Next, TimerWork, Arrive, poll_ports, process_dgram, arrived, processed, received, transmit,
     cleaned, IP_send, IP_handler, on_port, off_port, deplete_one, depleted,
     port_is_off, Ended, vars
<1> QED BY <1>2, <1>3, <1>4, <1>5, <1>6, <1>7, <1>8

\* Whatever happens on the way, a protocol reads what it was sent in the order in which
\* it arrived, and loses unread only what was too old: the queues of the IP layer
\* implement the mailboxes the documentation promises.
THEOREM ReadsInOrder == Spec => ImplementsMailbox
<1>1. Spec => [](IInv /\ LateInv)
  BY IInvHolds, LateInit, LateNext, PTL DEF Spec
<1>2. IInv /\ LateInv /\ [Next]_vars => [Boxes!Next]_readers
  BY BoxesNext
<1> QED BY <1>1, <1>2, BoxesInit, PTL DEF Spec, ImplementsMailbox, Boxes!Spec, readers, boxes
=============================================================================
