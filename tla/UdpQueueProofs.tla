--------------------------- MODULE UdpQueueProofs ---------------------------
(***************************************************************************)
(* For any number of tasks, whatever they call and whatever arrives: the   *)
(* semaphore keeps them apart.                                             *)
(***************************************************************************)
EXTENDS UdpQueue, SequenceLemmas, TLAPS

CallState == [op : Calls \cup {"none"}, at : {"check", "wait", "work", "done"},
              length : Lengths \cup {0}]

IInv ==
    /\ call \in [Callers -> CallState]
    /\ semaphore \in BOOLEAN
    /\ OneWorks

\* The start of a call and its end change nothing at the semaphore.
LEMMA OutsideKeeps ==
    ASSUME IInv, NEW c \in Callers, NEW k \in CallState,
           ~Holds(c), k.at # "work", call' = [call EXCEPT ![c] = k], semaphore' = semaphore
    PROVE  IInv'
<1>1. /\ call' \in [Callers -> CallState]
      /\ \A d \in Callers : Holds(d)' <=> Holds(d)
  BY DEF IInv, Holds
<1> QED BY <1>1 DEF IInv, OneWorks

\* The end of the work makes it free, as nobody else works.
LEMMA LeavesKeeps ==
    ASSUME IInv, NEW c \in Callers, NEW op, Leaves(c, op)
    PROVE  IInv'
<1>1. Holds(c) /\ semaphore' = FALSE /\ call' = [call EXCEPT ![c] = NoCall]
  BY DEF Leaves, Holds, Ends
<1>2. NoCall \in CallState /\ NoCall.at # "work"
  BY DEF NoCall, CallState
<1>3. call' \in [Callers -> CallState] /\ \A d \in Callers : ~Holds(d)'
  BY <1>1, <1>2 DEF IInv, OneWorks, Holds
<1> QED BY <1>1, <1>3 DEF IInv, OneWorks

LEMMA UnchangedKeeps ==
    ASSUME IInv, call' = call, semaphore' = semaphore
    PROVE  IInv'
BY DEF IInv, OneWorks, Holds

\* At first nobody is in a call and the semaphore is free.
THEOREM InitIInv == Init => IInv
<1> SUFFICES ASSUME Init PROVE IInv
  OBVIOUS
<1>1. NoCall \in CallState /\ NoCall.at # "work"
  BY DEF NoCall, CallState
<1> QED BY <1>1 DEF Init, IInv, OneWorks, Holds

\* The semaphore changes only with who works: at req_flag and at the end of the work.
THEOREM NextIInv == IInv /\ [Next]_vars => IInv'
<1> SUFFICES ASSUME IInv, [Next]_vars PROVE IInv'
  OBVIOUS
<1>1. ASSUME NEW d \in Payloads, UDP_handler(d) PROVE IInv'
  BY <1>1, UnchangedKeeps DEF UDP_handler
<1>2. CASE timer_work
  BY <1>2, UnchangedKeeps DEF timer_work, work
<1>3. ASSUME NEW c \in Callers, NEW op \in Calls, NEW length \in Lengths \cup {0},
             poll_receive(c, op, length)
      PROVE  IInv'
  <2> DEFINE k == [op |-> op, at |-> "check", length |-> length]
  <2>1. k \in CallState /\ k.at # "work"
    BY DEF CallState
  <2>2. ~Holds(c)
    BY <1>3 DEF poll_receive, Holds, NoCall
  <2>3. call' = [call EXCEPT ![c] = k] /\ semaphore' = semaphore
    BY <1>3 DEF poll_receive, work
  <2> QED BY <2>1, <2>2, <2>3, OutsideKeeps
<1>4. ASSUME NEW c \in Callers, check(c) PROVE IInv'
  <2>1. ~Holds(c) /\ semaphore' = semaphore
    BY <1>4 DEF check, Holds
  <2>2. CASE Ends(c)
    <3>1. NoCall \in CallState /\ NoCall.at # "work"
      BY DEF NoCall, CallState
    <3> QED BY <2>1, <2>2, <3>1, OutsideKeeps DEF Ends
  <2>3. CASE Goes(c, "wait")
    <3>1. /\ [call[c] EXCEPT !.at = "wait"] \in CallState
          /\ [call[c] EXCEPT !.at = "wait"].at # "work"
      BY DEF IInv, CallState
    <3>2. call' = [call EXCEPT ![c] = [call[c] EXCEPT !.at = "wait"]]
      BY <2>3 DEF Goes
    <3> QED BY <2>1, <3>1, <3>2, OutsideKeeps
  <2> QED BY <1>4, <2>2, <2>3 DEF check
<1>5. ASSUME NEW c \in Callers, req_flag(c) PROVE IInv'
  <2>1. ~Holds(c)
    BY <1>5 DEF req_flag, Holds
  <2>2. CASE ~semaphore /\ semaphore' = TRUE /\ Goes(c, "work")
    <3>1. \A d \in Callers : ~Holds(d)
      BY <2>2 DEF IInv, OneWorks
    <3>2. call' \in [Callers -> CallState] /\ \A d \in Callers : Holds(d)' <=> d = c
      BY <2>2, <3>1 DEF Goes, IInv, CallState, Holds
    <3> QED BY <2>2, <3>2 DEF IInv, OneWorks
  <2>3. CASE Ends(c) /\ semaphore' = semaphore
    <3>1. NoCall \in CallState /\ NoCall.at # "work"
      BY DEF NoCall, CallState
    <3> QED BY <2>1, <2>3, <3>1, OutsideKeeps DEF Ends
  <2> QED BY <1>5, <2>2, <2>3 DEF req_flag
<1>6. ASSUME NEW c \in Callers, CNget_char(c) PROVE IInv'
  BY <1>6, LeavesKeeps DEF CNget_char
<1>7. ASSUME NEW c \in Callers, CNget_NDB(c) PROVE IInv'
  BY <1>7, LeavesKeeps DEF CNget_NDB
<1>8. ASSUME NEW c \in Callers, CNget_block(c) PROVE IInv'
  BY <1>8, LeavesKeeps DEF CNget_block
<1>9. ASSUME NEW c \in Callers, CNgets(c) PROVE IInv'
  BY <1>9, LeavesKeeps DEF CNgets
<1>10. CASE UNCHANGED vars
  BY <1>10, UnchangedKeeps DEF vars
<1> QED BY <1>1, <1>2, <1>3, <1>4, <1>5, <1>6, <1>7, <1>8, <1>9, <1>10 DEF Next

\* Only one task works on the queue of a connection, and the semaphore says whether
\* one does: UDP's CN calls and timer_work around req_flag and rel_flag.
THEOREM OnlyOneWorks == Spec => []OneWorks
<1>1. IInv => OneWorks
  BY DEF IInv
<1> QED BY InitIInv, NextIInv, <1>1, PTL DEF Spec

(***************************************************************************)
(* The data of the blocks, as a stream                                     *)
(***************************************************************************)
Rests(q) == [i \in 1 .. Len(q) |-> Rest(q[i])]
Sized(q) == \A i \in 1 .. Len(q) : q[i].index <= Len(q[i].data)

LEMMA RestType ==
    ASSUME NEW b \in Blocks
    PROVE  /\ Rest(b) \in Seq(Bytes) /\ Len(Rest(b)) \in Nat /\ Remain(b) \in Int
           /\ Len(b.data) \in Nat /\ b.index \in Nat /\ b.data \in Seq(Bytes)
           /\ Len(Rest(b)) = IF Remain(b) > 0 THEN Remain(b) ELSE 0
           /\ b.index <= Len(b.data) => Len(Rest(b)) = Remain(b)
<1>1. b.data \in Seq(Bytes) /\ b.index \in Nat
  BY BytesAssumption DEF Blocks, BytesAssumption
<1>2. Len(b.data) \in Nat /\ \A i \in 1 .. Len(b.data) : b.data[i] \in Bytes
  BY <1>1, LenProperties, ElementOfSeq
<1>3. b.index + 1 \in Int /\ Len(b.data) \in Int /\ \A i \in b.index + 1 .. Len(b.data) : b.data[i] \in Bytes
  BY <1>1, <1>2
<1>4. /\ Rest(b) \in Seq(Bytes)
      /\ Len(Rest(b)) = IF b.index + 1 <= Len(b.data) THEN Len(b.data) - (b.index + 1) + 1 ELSE 0
  BY <1>3, SubSeqProperties DEF Rest
<1> QED BY <1>1, <1>2, <1>4 DEF Remain

LEMMA RestsType ==
    ASSUME NEW q \in Seq(Blocks)
    PROVE  /\ Rests(q) \in Seq(Seq(Bytes)) /\ Len(Rests(q)) = Len(q) /\ Len(q) \in Nat
           /\ \A i \in 1 .. Len(q) : q[i] \in Blocks /\ Rests(q)[i] = Rest(q[i])
<1>1. Len(q) \in Nat /\ \A i \in 1 .. Len(q) : q[i] \in Blocks
  BY LenProperties, ElementOfSeq
<1>2. \A i \in 1 .. Len(q) : Rest(q[i]) \in Seq(Bytes)
  BY <1>1, RestType
<1>3. Rests(q) \in [1 .. Len(q) -> Seq(Bytes)]
  BY <1>2 DEF Rests
<1>4. Rests(q) \in Seq(Seq(Bytes)) /\ Len(Rests(q)) = Len(q)
  BY <1>1, <1>3, SeqDef
<1> QED BY <1>1, <1>4 DEF Rests

LEMMA DataType ==
    ASSUME NEW q \in Seq(Blocks)
    PROVE  Data(q) \in Seq(Bytes) /\ SumOf(q) \in Nat /\ Data(q) = FlattenSeq(Rests(q))
<1>1. Data(q) = FlattenSeq(Rests(q))
  BY DEF Data, Rests
<1>2. FlattenSeq(Rests(q)) \in Seq(Bytes)
  BY RestsType, FlattenConcat
<1> QED BY <1>1, <1>2, LenProperties DEF SumOf

LEMMA DataConcat ==
    ASSUME NEW q \in Seq(Blocks), NEW r \in Seq(Blocks)
    PROVE  /\ q \o r \in Seq(Blocks) /\ Data(q \o r) = Data(q) \o Data(r)
           /\ SumOf(q \o r) = SumOf(q) + SumOf(r)
<1>1. /\ q \o r \in Seq(Blocks) /\ Len(q \o r) = Len(q) + Len(r)
      /\ \A i \in 1 .. Len(q) + Len(r) : (q \o r)[i] = IF i <= Len(q) THEN q[i] ELSE r[i - Len(q)]
  BY ConcatProperties
<1>2. /\ Rests(q) \o Rests(r) \in Seq(Seq(Bytes))
      /\ Len(Rests(q) \o Rests(r)) = Len(q) + Len(r)
      /\ \A i \in 1 .. Len(q) + Len(r) :
           (Rests(q) \o Rests(r))[i] = IF i <= Len(q) THEN Rests(q)[i] ELSE Rests(r)[i - Len(q)]
  <2>1. /\ Rests(q) \in Seq(Seq(Bytes)) /\ Len(Rests(q)) = Len(q)
        /\ Rests(r) \in Seq(Seq(Bytes)) /\ Len(Rests(r)) = Len(r)
    BY RestsType
  <2>2. PICK a, c : a = Rests(q) /\ c = Rests(r)
    OBVIOUS
  <2>3. a \in Seq(Seq(Bytes)) /\ c \in Seq(Seq(Bytes)) /\ Len(a) = Len(q) /\ Len(c) = Len(r)
    BY <2>1, <2>2
  <2>4. /\ a \o c \in Seq(Seq(Bytes)) /\ Len(a \o c) = Len(a) + Len(c)
        /\ \A i \in 1 .. Len(a) + Len(c) : (a \o c)[i] = IF i <= Len(a) THEN a[i] ELSE c[i - Len(a)]
    BY ONLY <2>3, ConcatProperties
  <2> QED BY <2>2, <2>3, <2>4
<1>3. Rests(q \o r) = Rests(q) \o Rests(r)
  <2>1. Rests(q \o r) \in Seq(Seq(Bytes)) /\ Len(Rests(q \o r)) = Len(q) + Len(r)
    BY <1>1, RestsType
  <2>2. ASSUME NEW i \in 1 .. Len(q) + Len(r)
        PROVE  Rests(q \o r)[i] = (Rests(q) \o Rests(r))[i]
    <3>1. Len(q) \in Nat /\ Len(r) \in Nat
      BY RestsType
    <3>2. Rests(q \o r)[i] = Rest((q \o r)[i])
      BY <1>1, RestsType
    <3>3. CASE i <= Len(q)
      <4>1. i \in 1 .. Len(q)
        BY <3>1, <3>3
      <4> QED BY <3>2, <3>3, <4>1, <1>1, <1>2, RestsType
    <3>4. CASE ~(i <= Len(q))
      <4>1. i - Len(q) \in 1 .. Len(r)
        BY <3>1, <3>4
      <4> QED BY <3>2, <3>4, <4>1, <1>1, <1>2, RestsType
    <3> QED BY <3>3, <3>4
  <2> QED BY <2>1, <2>2, <1>2, SeqEqual
<1>4. FlattenSeq(Rests(q) \o Rests(r)) = FlattenSeq(Rests(q)) \o FlattenSeq(Rests(r))
  BY RestsType, FlattenConcat
<1>5. Data(q \o r) = Data(q) \o Data(r)
  BY <1>1, <1>3, <1>4, DataType
<1>6. Data(q) \in Seq(Bytes) /\ Data(r) \in Seq(Bytes)
  BY DataType
<1> QED BY <1>1, <1>5, <1>6, ConcatProperties DEF SumOf

LEMMA DataNone == <<>> \in Seq(Blocks) /\ Data(<<>>) = <<>> /\ SumOf(<<>>) = 0
<1>1. <<>> \in Seq(Blocks) /\ Len(<<>>) = 0
  BY EmptySeq
<1>2. Len(Rests(<<>>)) = 0 /\ Rests(<<>>) \in Seq(Seq(Bytes))
  BY <1>1, RestsType
<1>3. Rests(<<>>) = <<>>
  BY <1>2, EmptySeq
<1>4. FlattenSeq(<<>>) = <<>>
  BY FlattenFew, EmptySeq
<1> QED BY <1>1, <1>3, <1>4, DataType DEF SumOf

LEMMA DataFew ==
    ASSUME NEW b \in Blocks
    PROVE  /\ <<b>> \in Seq(Blocks) /\ Data(<<b>>) = Rest(b)
<1>1. <<b>> \in Seq(Blocks) /\ Len(<<b>>) = 1 /\ <<b>>[1] = b
  OBVIOUS
<1>4. Rest(b) \in Seq(Bytes)
  BY RestType
<1>5. Rests(<<b>>) = <<Rest(b)>>
  <2>1. /\ Rests(<<b>>) \in Seq(Seq(Bytes)) /\ Len(Rests(<<b>>)) = 1
        /\ Rests(<<b>>)[1] = Rest(b)
    <3>1. PICK q : q = <<b>>
      OBVIOUS
    <3>2. q \in Seq(Blocks) /\ Len(q) = 1 /\ q[1] = b
      BY <1>1, <3>1
    <3>3. Rests(q) \in Seq(Seq(Bytes)) /\ Len(Rests(q)) = Len(q) /\ \A i \in 1 .. Len(q) : Rests(q)[i] = Rest(q[i])
      BY <3>2, RestsType
    <3>4. Rests(q)[1] = Rest(b)
      BY <3>2, <3>3
    <3> QED BY <3>1, <3>2, <3>3, <3>4
  <2>2. <<Rest(b)>> \in Seq(Seq(Bytes)) /\ Len(<<Rest(b)>>) = 1 /\ <<Rest(b)>>[1] = Rest(b)
    BY <1>4
  <2> QED BY <2>1, <2>2, SeqEqual
<1>6. FlattenSeq(<<Rest(b)>>) = Rest(b)
  BY <1>4, FlattenFew
<1> QED BY <1>1, <1>5, <1>6, DataType

\* Blocks that were read to their end hold no data.
LEMMA NothingLeft ==
    ASSUME NEW q \in Seq(Blocks), \A i \in 1 .. Len(q) : Remain(q[i]) <= 0
    PROVE  Data(q) = <<>>
<1> DEFINE T == {n \in Nat : \A u \in Seq(Blocks) :
                   Len(u) = n /\ (\A i \in 1 .. n : Remain(u[i]) <= 0) => Data(u) = <<>>}
<1>1. 0 \in T
  BY EmptySeq, DataNone
<1>2. ASSUME NEW n \in Nat, n \in T PROVE n + 1 \in T
  <2> SUFFICES ASSUME NEW u \in Seq(Blocks), Len(u) = n + 1,
                      \A i \in 1 .. n + 1 : Remain(u[i]) <= 0
               PROVE  Data(u) = <<>>
    OBVIOUS
  <2>1. u # <<>>
    BY EmptySeq
  <2>2. PICK v \in Seq(Blocks), b \in Blocks : u = Append(v, b)
    BY <2>1, SequenceEmptyOrAppend
  <2>3. /\ Len(v) \in Nat /\ Len(u) = Len(v) + 1 /\ u[Len(v) + 1] = b
        /\ \A i \in 1 .. Len(v) : u[i] = v[i]
    BY <2>2, AppendProperties, LenProperties
  <2>4. Len(v) = n
    BY <2>3
  <2>5. \A i \in 1 .. n : Remain(v[i]) <= 0
    BY <2>3, <2>4
  <2>6. Data(v) = <<>>
    BY <1>2, <2>4, <2>5
  <2>7. Remain(b) <= 0
    BY <2>3, <2>4
  <2>8. Rest(b) = <<>>
    BY <2>7, RestType, EmptySeq
  <2>9. u = v \o <<b>>
    BY <2>2, AppendIsConcat
  <2>10. Data(u) = Data(v) \o Data(<<b>>) /\ Data(<<b>>) = Rest(b)
    BY <2>9, DataFew, DataConcat
  <2>11. <<>> \o <<>> = <<>>
    BY EmptySeq, ConcatEmptySeq
  <2> QED BY <2>6, <2>8, <2>10, <2>11
<1> HIDE DEF T
<1>3. \A n \in Nat : n \in T
  BY <1>1, <1>2, NatGrows
<1>4. Len(q) \in T
  BY <1>3, RestsType
<1> QED BY <1>4 DEF T

\* The data before a block, in it and behind it.
LEMMA SplitAt ==
    ASSUME NEW q \in Seq(Blocks), NEW i \in 1 .. Len(q)
    PROVE  LET p == SubSeq(q, 1, i - 1)
               f == SubSeq(q, i + 1, Len(q))
           IN  /\ p \in Seq(Blocks) /\ f \in Seq(Blocks) /\ q[i] \in Blocks /\ Len(p) = i - 1
               /\ \A j \in 1 .. i - 1 : p[j] = q[j]
               /\ \A j \in 1 .. Len(f) : i + j \in 1 .. Len(q) /\ f[j] = q[i + j]
               /\ SubSeq(q, i, Len(q)) = <<q[i]>> \o f
               /\ Data(SubSeq(q, i, Len(q))) = Rest(q[i]) \o Data(f)
               /\ Data(q) = Data(p) \o (Rest(q[i]) \o Data(f))
               /\ SumOf(SubSeq(q, 1, i)) = SumOf(p) + Len(Rest(q[i]))
<1> DEFINE p == SubSeq(q, 1, i - 1)
           f == SubSeq(q, i + 1, Len(q))
           h == SubSeq(q, i, Len(q))
<1>1. Len(q) \in Nat /\ \A j \in 1 .. Len(q) : q[j] \in Blocks
  BY RestsType
<1>2. i - 1 \in Int /\ 1 \in Int /\ i + 1 \in Int /\ Len(q) \in Int /\ i \in 1 .. Len(q)
      /\ (\A j \in 1 .. i - 1 : q[j] \in Blocks) /\ \A j \in i + 1 .. Len(q) : q[j] \in Blocks
  BY <1>1
<1>3. /\ p \in Seq(Blocks) /\ Len(p) = IF 1 <= i - 1 THEN i - 1 - 1 + 1 ELSE 0
      /\ \A j \in 1 .. i - 1 - 1 + 1 : p[j] = q[1 + j - 1]
  BY <1>2, SubSeqProperties
<1>4. /\ f \in Seq(Blocks) /\ Len(f) = IF i + 1 <= Len(q) THEN Len(q) - (i + 1) + 1 ELSE 0
      /\ \A j \in 1 .. Len(q) - (i + 1) + 1 : f[j] = q[i + 1 + j - 1]
  BY <1>2, SubSeqProperties
<1> HIDE DEF p, f
<1>5. Len(p) = i - 1 /\ \A j \in 1 .. i - 1 : p[j] = q[j]
  BY <1>2, <1>3
<1>6. \A j \in 1 .. Len(f) : i + j \in 1 .. Len(q) /\ f[j] = q[i + j]
  BY <1>2, <1>4
<1>7. h = <<q[i]>> \o f
  BY <1>1, <1>2, SubSeqRecursiveFirst DEF f
<1>8. q = p \o h
  <2>1. 1 \in 1 .. Len(q) + 1 /\ i - 1 \in 1 - 1 .. Len(q) /\ Len(q) \in i - 1 .. Len(q) /\ i - 1 + 1 = i
    BY <1>1, <1>2
  <2>2. SubSeq(q, 1, i - 1) \o SubSeq(q, i - 1 + 1, Len(q)) = SubSeq(q, 1, Len(q))
    BY <2>1, ConcatAdjacentSubSeq
  <2> QED BY <2>1, <2>2, SubSeqFull DEF p
<1>9. q[i] \in Blocks
  BY <1>1
<1>10. <<q[i]>> \in Seq(Blocks) /\ Data(<<q[i]>>) = Rest(q[i])
  BY <1>9, DataFew
<1>11. h \in Seq(Blocks) /\ Data(h) = Rest(q[i]) \o Data(f)
  BY <1>4, <1>7, <1>10, DataConcat
<1> HIDE DEF h
<1>12. Data(q) = Data(p) \o Data(h)
  BY <1>3, <1>8, <1>11, DataConcat
<1>13. SumOf(SubSeq(q, 1, i)) = SumOf(p) + Len(Rest(q[i]))
  <2>1. SubSeq(q, 1, i) = p \o <<q[i]>>
    BY <1>1, <1>2, SubSeqRecursiveSecond DEF p
  <2>2. SumOf(<<q[i]>>) = Len(Rest(q[i]))
    BY <1>10 DEF SumOf
  <2>3. SumOf(p \o <<q[i]>>) = SumOf(p) + SumOf(<<q[i]>>)
    BY <1>3, <1>10, DataConcat
  <2> QED BY <2>1, <2>2, <2>3, Zenon
<1>14. Data(q) = Data(p) \o (Rest(q[i]) \o Data(f))
  BY <1>11, <1>12
<1>15. SubSeq(q, i, Len(q)) = <<q[i]>> \o f /\ Data(SubSeq(q, i, Len(q))) = Rest(q[i]) \o Data(f)
  BY <1>7, <1>11 DEF h
<1>16. p \in Seq(Blocks) /\ f \in Seq(Blocks)
  BY <1>3, <1>4
<1> QED BY <1>5, <1>6, <1>9, <1>13, <1>14, <1>15, <1>16, Zenon DEF p, f

\* What of the rest of a block is left when n more bytes are read.
LEMMA RestMoves ==
    ASSUME NEW b \in Blocks, b.index <= Len(b.data), NEW n \in 0 .. Remain(b)
    PROVE  LET c == [b EXCEPT !.index = @ + n]
           IN  /\ c \in Blocks /\ c.index <= Len(c.data)
               /\ Rest(c) = SubSeq(Rest(b), n + 1, Len(Rest(b)))
<1> DEFINE c == [b EXCEPT !.index = @ + n]
           m == Len(b.data)
           r == Rest(b)
<1>1. /\ b.data \in Seq(Bytes) /\ b.index \in Nat /\ m \in Nat /\ r \in Seq(Bytes)
      /\ Len(r) = m - b.index /\ Remain(b) = m - b.index
  BY RestType DEF Remain
<1>2. c \in Blocks /\ c.data = b.data /\ c.index = b.index + n /\ c.index <= m
  BY <1>1 DEF Blocks
<1>3. Rest(c) = SubSeq(b.data, b.index + n + 1, m)
  BY <1>2 DEF Rest
<1>4. CASE n = Len(r)
  <2>1. Rest(c) = <<>>
    BY <1>1, <1>3, <1>4, SubSeqEmpty
  <2>2. SubSeq(r, n + 1, Len(r)) = <<>>
    BY <1>1, <1>4, SubSeqEmpty
  <2> QED BY <1>2, <2>1, <2>2
<1>5. CASE n # Len(r)
  <2>1. /\ b.index + 1 \in 1 .. m /\ m \in 1 .. m
        /\ n + 1 \in 1 .. m - (b.index + 1) + 1 /\ Len(r) \in 1 .. m - (b.index + 1) + 1
        /\ (b.index + 1) + (n + 1) - 1 = b.index + n + 1
        /\ (b.index + 1) + Len(r) - 1 = m
    <3>1. PICK x, l, k : x = b.index /\ l = Len(r) /\ k = m
      OBVIOUS
    <3>2. n \in Int /\ x \in Nat /\ k \in Nat /\ l = k - x /\ 0 <= n /\ n < k - x
      BY <1>1, <1>5, <3>1
    <3>3. /\ x + 1 \in 1 .. k /\ k \in 1 .. k
          /\ n + 1 \in 1 .. k - (x + 1) + 1 /\ l \in 1 .. k - (x + 1) + 1
          /\ (x + 1) + (n + 1) - 1 = x + n + 1 /\ (x + 1) + l - 1 = k
      BY ONLY <3>2
    <3> QED BY <3>1, <3>3
  <2>2. SubSeq(SubSeq(b.data, b.index + 1, m), n + 1, Len(r))
          = SubSeq(b.data, (b.index + 1) + (n + 1) - 1, (b.index + 1) + Len(r) - 1)
    <3>1. PICK d, x, y, z : d = b.data /\ x = b.index + 1 /\ y = n + 1 /\ z = Len(r)
      OBVIOUS
    <3>2. d \in Seq(Bytes) /\ Len(d) = m /\ x \in 1 .. Len(d) /\ m \in 1 .. Len(d)
          /\ y \in 1 .. m - x + 1 /\ z \in 1 .. m - x + 1
      BY <1>1, <2>1, <3>1
    <3>3. SubSeq(SubSeq(d, x, m), y, z) = SubSeq(d, x + y - 1, x + z - 1)
      BY ONLY <3>2, SubSeqOfSubSeq
    <3> QED BY <3>1, <3>3
  <2>3. r = SubSeq(b.data, b.index + 1, m)
    BY DEF Rest
  <2> QED BY <1>2, <1>3, <2>1, <2>2, <2>3
<1> QED BY <1>4, <1>5

\* r is what remains of the queue q when k bytes were read.
Taken(q, r, k) ==
    /\ k \in 0 .. SumOf(q)
    /\ r \in Seq(Blocks) /\ Sized(r)
    /\ Data(r) = SubSeq(Data(q), k + 1, SumOf(q))

\* Reading n bytes of a block after all there is before it.
LEMMA CutAt ==
    ASSUME NEW q \in Seq(Blocks), Sized(q), NEW i \in 1 .. Len(q), NEW n \in 0 .. Remain(q[i])
    PROVE  LET p == SubSeq(q, 1, i - 1)
               h == SubSeq(q, i, Len(q))
               f == SubSeq(q, i + 1, Len(q))
           IN  /\ Taken(q, Advance(h, n), SumOf(p) + n)
               /\ n = Remain(q[i]) => Taken(q, f, SumOf(p) + n)
               /\ n = 0 => Taken(q, h, SumOf(p))
<1> DEFINE p == SubSeq(q, 1, i - 1)
           h == SubSeq(q, i, Len(q))
           f == SubSeq(q, i + 1, Len(q))
           b == q[i]
           c == [b EXCEPT !.index = @ + n]
           r == Rest(b)
           k == SumOf(p) + n
<1>1. /\ p \in Seq(Blocks) /\ f \in Seq(Blocks) /\ b \in Blocks
      /\ \A j \in 1 .. Len(f) : i + j \in 1 .. Len(q) /\ f[j] = q[i + j]
      /\ h = <<b>> \o f /\ Data(h) = r \o Data(f)
      /\ Data(q) = Data(p) \o (r \o Data(f))
  BY SplitAt
<1>2. b.index <= Len(b.data) /\ Sized(f)
  BY <1>1 DEF Sized
<1>3. /\ r \in Seq(Bytes) /\ Len(r) \in Nat /\ Len(r) = Remain(b)
      /\ Data(f) \in Seq(Bytes) /\ Data(p) \in Seq(Bytes) /\ SumOf(p) \in Nat /\ SumOf(f) \in Nat
  BY <1>1, <1>2, RestType, DataType
<1> HIDE DEF p, h, f, b, r
<1>4. SumOf(q) = SumOf(p) + Len(r) + SumOf(f) /\ r \o Data(f) \in Seq(Bytes)
      /\ Len(r \o Data(f)) = Len(r) + SumOf(f)
  <2>1. r \o Data(f) \in Seq(Bytes) /\ Len(r \o Data(f)) = Len(r) + Len(Data(f))
    BY <1>3, ConcatProperties
  <2>2. Len(Data(p) \o (r \o Data(f))) = Len(Data(p)) + Len(r \o Data(f))
    BY <1>3, <2>1, ConcatProperties
  <2>3. /\ SumOf(p) = Len(Data(p)) /\ SumOf(f) = Len(Data(f)) /\ SumOf(q) = Len(Data(q))
    BY DEF SumOf
  <2> QED BY <1>1, <1>3, <2>1, <2>2, <2>3
<1>5. k \in 0 .. SumOf(q)
  BY <1>3, <1>4 DEF b
<1>6. SubSeq(Data(q), k + 1, SumOf(q)) = SubSeq(r, n + 1, Len(r)) \o Data(f)
  <2>1. n \in 0 .. Len(r) /\ n \in 0 .. Len(r \o Data(f))
    BY <1>3, <1>4 DEF b
  <2>2. SubSeq(Data(p) \o (r \o Data(f)), Len(Data(p)) + n + 1, Len(Data(p) \o (r \o Data(f))))
          = SubSeq(r \o Data(f), n + 1, Len(r \o Data(f)))
    BY <2>1, <1>3, <1>4, CutSecond
  <2>3. SubSeq(r \o Data(f), n + 1, Len(r \o Data(f))) = SubSeq(r, n + 1, Len(r)) \o Data(f)
    BY <2>1, <1>3, CutFirst
  <2> QED BY <1>1, <2>2, <2>3 DEF SumOf
<1>7. Taken(q, Advance(h, n), k)
  <2>1. c \in Blocks /\ c.index <= Len(c.data) /\ Rest(c) = SubSeq(r, n + 1, Len(r))
    BY <1>1, <1>2, RestMoves DEF r, b
  <2>2. /\ Len(<<b>>) = 1 /\ <<b>>[1] = b /\ <<b>> \in Seq(Blocks) /\ <<b>> # <<>>
        /\ <<c>> \in Seq(Blocks) /\ Len(<<c>>) = 1 /\ <<c>>[1] = c
    BY <1>1, <2>1
  <2>3. /\ h \in Seq(Blocks) /\ Len(h) = 1 + Len(f) /\ h[1] = b /\ Len(f) \in Nat
        /\ \A j \in 2 .. Len(f) + 1 : h[j] = f[j - 1]
    <3>1. Len(f) \in Nat
      BY <1>1, LenProperties
    <3>2. /\ <<b>> \o f \in Seq(Blocks) /\ Len(<<b>> \o f) = Len(f) + 1 /\ (<<b>> \o f)[1] = b
          /\ \A j \in 2 .. Len(f) + 1 : (<<b>> \o f)[j] = f[j - 1]
      BY <1>1, PrependSound
    <3> QED BY <1>1, <3>1, <3>2
  <2>4. Tail(h) = f
    <3>1. h # <<>>
      BY <2>3, EmptySeq
    <3>2. /\ Tail(h) \in Seq(Blocks) /\ Len(Tail(h)) = Len(h) - 1
          /\ \A j \in 1 .. Len(Tail(h)) : Tail(h)[j] = h[j + 1]
      BY <2>3, <3>1, HeadTailProperties
    <3>3. \A j \in 1 .. Len(Tail(h)) : Tail(h)[j] = f[j]
      BY <2>3, <3>2
    <3>4. Len(Tail(h)) = Len(f)
      BY <2>3, <3>2
    <3> QED BY <1>1, <3>2, <3>3, <3>4, SeqEqual
  <2>5. Advance(h, n) = <<c>> \o f
    BY <2>3, <2>4 DEF Advance
  <2>6. /\ <<c>> \o f \in Seq(Blocks) /\ Len(<<c>> \o f) = Len(f) + 1 /\ (<<c>> \o f)[1] = c
        /\ \A j \in 2 .. Len(f) + 1 : (<<c>> \o f)[j] = f[j - 1]
    <3> HIDE DEF c
    <3> QED BY <1>1, <2>1, PrependSound
  <2>7. Sized(<<c>> \o f)
    <3> SUFFICES ASSUME NEW j \in 1 .. Len(f) + 1
                 PROVE  (<<c>> \o f)[j].index <= Len((<<c>> \o f)[j].data)
      BY <2>6 DEF Sized
    <3>1. CASE j = 1
      BY <3>1, <2>1, <2>6
    <3>2. CASE j # 1
      <4>1. j \in 2 .. Len(f) + 1 /\ j - 1 \in 1 .. Len(f)
        BY <3>2, <2>3
      <4>2. (<<c>> \o f)[j] = f[j - 1]
        BY <2>6, <4>1
      <4> QED BY <4>1, <4>2, <1>2 DEF Sized
    <3> QED BY <3>1, <3>2
  <2>8. Data(<<c>> \o f) = Rest(c) \o Data(f)
    <3>1. Data(<<c>>) = Rest(c) /\ <<c>> \in Seq(Blocks)
      BY <2>1, DataFew
    <3> HIDE DEF c
    <3> QED BY <1>1, <3>1, DataConcat
  <2> QED BY <1>5, <1>6, <2>1, <2>5, <2>6, <2>7, <2>8 DEF Taken
<1>8. ASSUME n = Remain(b) PROVE Taken(q, f, k)
  <2>1. SubSeq(r, n + 1, Len(r)) = <<>>
    BY <1>3, <1>8, SubSeqEmpty
  <2>2. <<>> \o Data(f) = Data(f)
    BY <1>3, ConcatEmptySeq
  <2> QED BY <1>1, <1>2, <1>5, <1>6, <2>1, <2>2 DEF Taken
<1>9. ASSUME n = 0 PROVE Taken(q, h, SumOf(p))
  <2>1. SubSeq(r, n + 1, Len(r)) = r /\ k = SumOf(p)
    BY <1>3, <1>9, SubSeqFull
  <2>2. h \in Seq(Blocks) /\ Sized(h)
    <3>1. Len(q) \in Nat /\ \A j \in 1 .. Len(q) : q[j] \in Blocks
      BY RestsType
    <3>2. i \in Int /\ Len(q) \in Int /\ \A j \in i .. Len(q) : q[j] \in Blocks
      BY <3>1
    <3>3. /\ h \in Seq(Blocks) /\ Len(h) = IF i <= Len(q) THEN Len(q) - i + 1 ELSE 0
          /\ \A j \in 1 .. Len(q) - i + 1 : h[j] = q[i + j - 1]
      BY <3>2, SubSeqProperties DEF h
    <3>4. \A j \in 1 .. Len(h) : i + j - 1 \in 1 .. Len(q) /\ h[j] = q[i + j - 1]
      BY <3>1, <3>3
    <3> QED BY <3>3, <3>4 DEF Sized
  <2> QED BY <1>1, <1>5, <1>6, <2>1, <2>2 DEF Taken
<1> QED BY <1>7, <1>8, <1>9 DEF p, h, f, b

(***************************************************************************)
(* The calls read a piece from the front of the data, and count it.        *)
(***************************************************************************)
\* A task that calls CNget_block has the connection to itself, and no delimiter lies
\* in memory behind a block: without the one and without the other the count goes
\* wrong (E_NODATA of CNget_block, and the byte CNgets stops at).
BlockAlone == \A m \in Workloads : \A c, d \in Callers : "get_block" \in m[c] /\ m[d] # {} => c = d
NoneBehind == NewLine \notin Behind

\* What check has found, and still holds when the semaphore is taken.
Passed(k) == /\ k.op = "get_block" => 0 < k.length /\ k.length <= total_data
             /\ k.op = "gets" => k.length > 1

DataInv ==
    /\ makes \in Workloads
    /\ pending \in Seq(Payloads)
    /\ receive_queue \in Seq(Blocks) /\ Sized(receive_queue)
    /\ CountIsTrue
    /\ given \in Seq(Bytes)
    /\ \A c \in Callers : call[c].op # "none" => call[c].op \in makes[c]
    /\ \A c \in Callers : call[c].at \in {"wait", "work"} => Passed(call[c])

Reads(k) ==
    /\ Taken(receive_queue, receive_queue', k)
    /\ total_data' = total_data - k
    /\ given' = given \o SubSeq(Data(receive_queue), 1, k)
    /\ UNCHANGED <<makes, pending>>

\* Before the first block with data there is none, and when there is no such block
\* there is no data at all.
LEMMA FirstIsFirst ==
    ASSUME DataInv
    PROVE  /\ FirstUnread = {} => Data(receive_queue) = <<>>
           /\ \A i \in FirstUnread :
                /\ i \in 1 .. Len(receive_queue) /\ Remain(receive_queue[i]) \in Nat \ {0}
                /\ Data(SubSeq(receive_queue, 1, i - 1)) = <<>>
<1> DEFINE q == receive_queue
           B == {i \in 1 .. Len(q) : Remain(q[i]) > 0}
<1>1. q \in Seq(Blocks) /\ Len(q) \in Nat /\ \A i \in 1 .. Len(q) : Remain(q[i]) \in Int
  BY RestsType, RestType DEF DataInv
<1>2. ASSUME FirstUnread = {} PROVE Data(q) = <<>>
  <2>1. B = {}
    <3> SUFFICES ASSUME B # {} PROVE FALSE
      OBVIOUS
    <3>1. B \subseteq Nat
      BY <1>1
    <3>2. PICK i \in B : \A j \in B : i <= j
      BY <3>1, LeastNat
    <3>3. \A j \in 1 .. i - 1 : Remain(q[j]) <= 0
      <4> SUFFICES ASSUME NEW j \in 1 .. i - 1 PROVE Remain(q[j]) <= 0
        OBVIOUS
      <4>1. j \in 1 .. Len(q) /\ ~(i <= j)
        BY <1>1, <3>1
      <4> QED BY <1>1, <3>2, <4>1
    <3> QED BY <1>2, <3>3 DEF FirstUnread
  <2>2. \A i \in 1 .. Len(q) : Remain(q[i]) <= 0
    BY <1>1, <2>1
  <2> QED BY <1>1, <2>2, NothingLeft
<1>3. ASSUME NEW i \in FirstUnread
      PROVE  i \in 1 .. Len(q) /\ Remain(q[i]) \in Nat \ {0} /\ Data(SubSeq(q, 1, i - 1)) = <<>>
  <2>1. i \in 1 .. Len(q) /\ Remain(q[i]) > 0 /\ \A j \in 1 .. i - 1 : Remain(q[j]) <= 0
    BY DEF FirstUnread
  <2>2. /\ SubSeq(q, 1, i - 1) \in Seq(Blocks) /\ Len(SubSeq(q, 1, i - 1)) = i - 1
        /\ \A j \in 1 .. i - 1 : SubSeq(q, 1, i - 1)[j] = q[j]
    BY <1>1, <2>1, SplitAt
  <2>3. \A j \in 1 .. Len(SubSeq(q, 1, i - 1)) : Remain(SubSeq(q, 1, i - 1)[j]) <= 0
    BY <2>1, <2>2
  <2>4. Remain(q[i]) \in Nat \ {0}
    BY <1>1, <2>1
  <2> QED BY <2>1, <2>2, <2>3, <2>4, NothingLeft
<1> QED BY <1>2, <1>3

\* The front of the data, when the first unread block has at least so much.
LEMMA FrontOfFirst ==
    ASSUME DataInv, NEW i \in FirstUnread, NEW n \in 0 .. Remain(receive_queue[i])
    PROVE  LET q == receive_queue
               r == Rest(q[i])
           IN  /\ SubSeq(Data(q), 1, n) = SubSeq(r, 1, n) /\ SumOf(SubSeq(q, 1, i - 1)) = 0
               /\ r \in Seq(Bytes) /\ Len(r) = Remain(q[i]) /\ Remain(q[i]) \in Nat \ {0}
               /\ Taken(q, Advance(From(i), n), n)
               /\ n = Remain(q[i]) => Taken(q, From(i + 1), n)
               /\ n = 0 => Taken(q, From(i), 0)
<1> DEFINE q == receive_queue
           p == SubSeq(q, 1, i - 1)
           f == SubSeq(q, i + 1, Len(q))
           r == Rest(q[i])
<1>1. q \in Seq(Blocks) /\ Sized(q) /\ i \in 1 .. Len(q) /\ Remain(q[i]) > 0 /\ Data(p) = <<>>
  BY FirstIsFirst DEF DataInv
<1>2. q[i] \in Blocks /\ f \in Seq(Blocks) /\ Data(q) = Data(p) \o (r \o Data(f))
  BY <1>1, SplitAt
<1>3. q[i].index <= Len(q[i].data)
  BY <1>1 DEF Sized
<1>4. r \in Seq(Bytes) /\ Len(r) = Remain(q[i]) /\ Remain(q[i]) \in Nat \ {0}
  BY <1>1, <1>2, <1>3, RestType
<1>5. Data(f) \in Seq(Bytes) /\ SumOf(p) = 0
  BY <1>1, <1>2, DataType, EmptySeq DEF SumOf
<1>6. Data(q) = r \o Data(f)
  <2>1. r \o Data(f) \in Seq(Bytes)
    BY <1>4, <1>5, ConcatProperties
  <2> QED BY <1>1, <1>2, <2>1, ConcatEmptySeq
<1>7. SubSeq(Data(q), 1, n) = SubSeq(r, 1, n)
  BY <1>4, <1>5, <1>6, CutFront
<1>8. /\ Taken(q, Advance(From(i), n), SumOf(p) + n)
      /\ n = Remain(q[i]) => Taken(q, From(i + 1), SumOf(p) + n)
      /\ n = 0 => Taken(q, From(i), SumOf(p))
  BY <1>1, CutAt DEF From
<1>9. SumOf(p) + n = n
  BY <1>4, <1>5
<1> QED BY <1>4, <1>5, <1>7, <1>8, <1>9

\* Nothing is taken of nothing.
LEMMA TakenNone ==
    ASSUME DataInv
    PROVE  /\ Taken(receive_queue, receive_queue, 0)
           /\ Data(receive_queue) = <<>> => Taken(receive_queue, <<>>, 0)
           /\ given = given \o SubSeq(Data(receive_queue), 1, 0)
<1> DEFINE q == receive_queue
<1>1. q \in Seq(Blocks) /\ Sized(q) /\ Data(q) \in Seq(Bytes) /\ SumOf(q) \in Nat
  BY DataType DEF DataInv
<1>2. SubSeq(Data(q), 1, SumOf(q)) = Data(q) /\ SubSeq(Data(q), 1, 0) = <<>>
  BY <1>1, SubSeqFull, SubSeqEmpty DEF SumOf
<1>3. Sized(<<>>)
  BY EmptySeq DEF Sized
<1> QED BY <1>1, <1>2, <1>3, DataNone, ConcatEmptySeq DEF Taken, DataInv

LEMMA LengthType ==
    ASSUME IInv, NEW c \in Callers
    PROVE  call[c].length \in Nat
<1>1. call[c] \in CallState
  BY DEF IInv
<1>2. call[c].length \in Lengths \cup {0}
  BY <1>1 DEF CallState
<1>3. Lengths \cup {0} \subseteq Nat
  BY LengthsAssumption
<1> QED BY <1>2, <1>3

LEMMA GetCharReads ==
    ASSUME DataInv, NEW c \in Callers, CNget_char(c)
    PROVE  \E k \in Nat : Reads(k)
<1> DEFINE q == receive_queue
<1>1. makes' = makes /\ pending' = pending
  BY DEF CNget_char
<1>2. CASE FirstUnread = {} /\ q' = <<>> /\ UNCHANGED <<total_data, given>>
  <2>1. Taken(q, q', 0) /\ given' = given \o SubSeq(Data(q), 1, 0)
    BY <1>2, FirstIsFirst, TakenNone
  <2>2. total_data' = total_data - 0
    BY <1>2, DataType DEF DataInv, CountIsTrue
  <2> QED BY <1>1, <2>1, <2>2 DEF Reads
<1>3. ASSUME NEW i \in FirstUnread,
             q' = Advance(From(i), 1), total_data' = total_data - 1,
             given' = Append(given, Head(Rest(q[i])))
      PROVE  Reads(1)
  <2> DEFINE r == Rest(q[i])
  <2>1. r \in Seq(Bytes) /\ Len(r) \in Nat \ {0} /\ Len(r) = Remain(q[i])
    <3>1. 0 \in 0 .. Remain(q[i])
      BY FirstIsFirst
    <3> QED BY <3>1, FrontOfFirst
  <2> HIDE DEF r
  <2>2. SubSeq(Data(q), 1, 1) = SubSeq(r, 1, 1) /\ Taken(q, Advance(From(i), 1), 1)
    BY <2>1, FrontOfFirst DEF r
  <2>3. SubSeq(r, 1, 1) = <<r[1]>> /\ r[1] \in Bytes /\ Head(r) = r[1]
    <3>1. 1 \in 1 .. Len(r)
      BY <2>1
    <3>2. SubSeq(r, 1, 1) = <<r[1]>> \o SubSeq(r, 2, 1) /\ SubSeq(r, 2, 1) = <<>>
      BY <2>1, <3>1, SubSeqRecursiveFirst, SubSeqEmpty
    <3>3. r[1] \in Bytes
      BY <2>1, <3>1, ElementOfSeq
    <3>4. <<r[1]>> \o <<>> = <<r[1]>>
      BY <3>3, ConcatEmptySeq
    <3>5. Head(r) = r[1]
      OBVIOUS
    <3> QED BY <3>2, <3>3, <3>4, <3>5
  <2>4. Append(given, Head(r)) = given \o <<r[1]>>
    BY <2>3, AppendIsConcat DEF DataInv
  <2> QED BY <1>1, <1>3, <2>2, <2>3, <2>4 DEF Reads, r
<1> QED BY <1>2, <1>3 DEF CNget_char

LEMMA GetNdbReads ==
    ASSUME DataInv, NEW c \in Callers, CNget_NDB(c)
    PROVE  \E k \in Nat : Reads(k)
<1> DEFINE q == receive_queue
<1>1. makes' = makes /\ pending' = pending
  BY DEF CNget_NDB
<1>2. total_data = total_data - 0
  BY DataType DEF DataInv, CountIsTrue
<1>3. CASE FirstUnread = {} /\ q' = <<>> /\ UNCHANGED <<total_data, given>>
  <2>1. Taken(q, q', 0) /\ given' = given \o SubSeq(Data(q), 1, 0)
    BY <1>3, FirstIsFirst, TakenNone
  <2> QED BY <1>1, <1>2, <1>3, <2>1 DEF Reads
<1>4. ASSUME NEW i \in FirstUnread, q' = From(i), UNCHANGED <<total_data, given>>
      PROVE  Reads(0)
  <2>1. 0 \in 0 .. Remain(q[i])
    BY FirstIsFirst
  <2>2. Taken(q, q', 0)
    BY <1>4, <2>1, FrontOfFirst
  <2> QED BY <1>1, <1>2, <1>4, <2>2, TakenNone DEF Reads
<1>5. ASSUME NEW i \in FirstUnread, q' = From(i + 1),
             total_data' = total_data - Remain(q[i]), given' = given \o Rest(q[i])
      PROVE  Reads(Remain(q[i])) /\ Remain(q[i]) \in Nat
  <2> DEFINE n == Remain(q[i])
             r == Rest(q[i])
  <2>1. n \in 0 .. n
    <3>1. q \in Seq(Blocks) /\ i \in 1 .. Len(q) /\ n > 0
      BY FirstIsFirst DEF DataInv
    <3>2. n \in Int
      BY <3>1, RestsType, RestType
    <3> QED BY <3>1, <3>2
  <2>2. /\ SubSeq(Data(q), 1, n) = SubSeq(r, 1, n) /\ Taken(q, From(i + 1), n)
        /\ r \in Seq(Bytes) /\ Len(r) = n /\ n \in Nat
    BY <2>1, FrontOfFirst
  <2>3. SubSeq(r, 1, n) = r
    BY <2>2, SubSeqFull
  <2> HIDE DEF n, r
  <2> QED BY <1>1, <1>5, <2>2, <2>3 DEF Reads, n, r
<1> QED BY <1>3, <1>4, <1>5 DEF CNget_NDB

\* What is in the blocks before one, in that one, and in all.
LEMMA ThroughSound ==
    ASSUME DataInv, NEW i \in 1 .. Len(receive_queue)
    PROVE  /\ Through(i - 1) \in Nat /\ Through(i) \in Nat /\ Remain(receive_queue[i]) \in Nat
           /\ Through(i) = Through(i - 1) + Remain(receive_queue[i])
           /\ Through(i - 1) = SumOf(SubSeq(receive_queue, 1, i - 1))
           /\ Len(Rest(receive_queue[i])) = Remain(receive_queue[i])
           /\ Rest(receive_queue[i]) \in Seq(Bytes)
<1> DEFINE q == receive_queue
<1>1. q \in Seq(Blocks) /\ Sized(q)
  BY DEF DataInv
<1>2. /\ SubSeq(q, 1, i - 1) \in Seq(Blocks) /\ q[i] \in Blocks
      /\ SumOf(SubSeq(q, 1, i)) = SumOf(SubSeq(q, 1, i - 1)) + Len(Rest(q[i]))
  BY <1>1, SplitAt
<1>3. q[i].index <= Len(q[i].data)
  BY <1>1 DEF Sized
<1>4. Len(Rest(q[i])) = Remain(q[i]) /\ Len(Rest(q[i])) \in Nat /\ Rest(q[i]) \in Seq(Bytes)
  BY <1>2, <1>3, RestType
<1>5. SumOf(SubSeq(q, 1, i - 1)) \in Nat
  BY <1>2, DataType
<1> QED BY <1>2, <1>4, <1>5 DEF Through

LEMMA GetBlockReads ==
    ASSUME IInv, DataInv, NEW c \in Callers, CNget_block(c)
    PROVE  \E k \in Nat : Reads(k)
<1> DEFINE q == receive_queue
           n == call[c].length
<1>1. /\ makes' = makes /\ pending' = pending /\ Passed(call[c]) /\ call[c].op = "get_block"
      /\ n \in Nat
  <2>1. makes' = makes /\ pending' = pending /\ call[c].at = "work" /\ call[c].op = "get_block"
    BY DEF CNget_block, Leaves
  <2>2. Passed(call[c])
    BY <2>1 DEF DataInv
  <2> QED BY <2>1, <2>2, LengthType
<1>2. 0 < n /\ n <= SumOf(q) /\ SumOf(q) \in Nat
  BY <1>1, DataType DEF Passed, DataInv, CountIsTrue
<1>3. ~(SumOf(q) < n)
  BY <1>1, <1>2
<1>4. ASSUME NEW i \in 1 .. Len(q), Through(i - 1) < n, n <= Through(i),
             q' = IF n = Through(i) THEN From(i + 1) ELSE Advance(From(i), n - Through(i - 1)),
             total_data' = total_data - n, given' = given \o SubSeq(Data(q), 1, n)
      PROVE  Reads(n)
  <2> DEFINE m == n - Through(i - 1)
  <2>1. /\ Through(i - 1) \in Nat /\ Through(i) \in Nat /\ Remain(q[i]) \in Nat
        /\ Through(i) = Through(i - 1) + Remain(q[i])
        /\ Through(i - 1) = SumOf(SubSeq(q, 1, i - 1))
    BY ThroughSound
  <2>2. m \in 0 .. Remain(q[i]) /\ Through(i - 1) + m = n /\ (n = Through(i) <=> m = Remain(q[i]))
    <3> HIDE DEF n, q
    <3>1. m \in Int /\ 0 <= m /\ m <= Remain(q[i])
      <4>1. Through(i - 1) < n /\ n <= Through(i) /\ n \in Nat
        BY <1>1, <1>4
      <4> QED BY <2>1, <4>1
    <3>2. Through(i - 1) + m = n /\ (n = Through(i) <=> m = Remain(q[i]))
      BY <1>1, <2>1
    <3> QED BY <2>1, <3>1, <3>2
  <2>3. q \in Seq(Blocks) /\ Sized(q)
    BY DEF DataInv
  <2> HIDE DEF m
  <2>4. /\ Taken(q, Advance(From(i), m), SumOf(SubSeq(q, 1, i - 1)) + m)
        /\ m = Remain(q[i]) => Taken(q, From(i + 1), SumOf(SubSeq(q, 1, i - 1)) + m)
    BY <2>2, <2>3, CutAt DEF From
  <2>5. Taken(q, q', n)
    BY <1>4, <2>1, <2>2, <2>4 DEF m
  <2> QED BY <1>1, <1>4, <2>5 DEF Reads
<1> QED BY <1>1, <1>3, <1>4 DEF CNget_block

LEMMA LeastOfTwo ==
    ASSUME NEW a \in Nat, NEW b \in Nat
    PROVE  Min({a, b}) \in {a, b} /\ Min({a, b}) <= a /\ Min({a, b}) <= b
<1>1. {a, b} \subseteq Nat /\ {a, b} # {}
  OBVIOUS
<1> QED BY <1>1, MinIsLeast

\* Before a delimiter, or to the end.
LEMMA BeforeSound ==
    ASSUME NEW r \in Seq(Bytes)
    PROVE  Before(r) \in 0 .. Len(r) /\ (Before(r) < Len(r) => r[Before(r) + 1] = NewLine)
<1> DEFINE T == {j - 1 : j \in {j \in 1 .. Len(r) : r[j] = NewLine}} \cup {Len(r)}
<1>1. Len(r) \in Nat
  BY LenProperties
<1>2. T \subseteq 0 .. Len(r) /\ T # {} /\ T \subseteq Nat
  BY <1>1
<1>3. \A t \in T : t < Len(r) => r[t + 1] = NewLine
  BY <1>1
<1>4. Before(r) = Min(T)
  BY DEF Before
<1> HIDE DEF T
<1>5. Min(T) \in T
  BY <1>2, MinIsLeast
<1> QED BY <1>2, <1>3, <1>4, <1>5

\* There is room left in the buffer at each block that CNgets comes to.
LEMMA RoomLeft ==
    ASSUME IInv, DataInv, NEW c \in Callers, call[c].op = "gets", call[c].at = "work"
    PROVE  \A i \in 1 .. Len(receive_queue) : Comes(c, i) => Room(c, i) \in Nat \ {0}
<1> DEFINE q == receive_queue
           T == {n \in Nat : n + 1 \in 1 .. Len(q) /\ Comes(c, n + 1) => Room(c, n + 1) \in Nat \ {0}}
<1>1. call[c].length \in Nat /\ call[c].length > 1
  <2>1. Passed(call[c])
    BY DEF DataInv
  <2> QED BY <2>1, LengthType DEF Passed
<1>2. Len(q) \in Nat
  BY LenProperties DEF DataInv
<1>3. 0 \in T
  <2>1. SubSeq(q, 1, 0) = <<>>
    BY SubSeqEmpty
  <2>2. Through(0) = 0
    BY <2>1, DataNone DEF Through
  <2> QED BY <1>1, <2>2 DEF Room
<1>4. ASSUME NEW n \in Nat, n \in T PROVE n + 1 \in T
  <2> DEFINE i == n + 1
             r == Rest(q[i])
  <2> SUFFICES ASSUME i + 1 \in 1 .. Len(q), Comes(c, i + 1) PROVE Room(c, i + 1) \in Nat \ {0}
    OBVIOUS
  <2>1. i \in 1 .. Len(q) /\ i \in 1 .. i + 1 - 1 /\ i + 1 - 1 = i
    BY <1>2
  <2>2. Passes(c, i) /\ Comes(c, i)
    BY <2>1 DEF Comes
  <2>3. Room(c, i) \in Nat \ {0}
    BY <1>4, <2>1, <2>2
  <2>4. /\ Through(i - 1) \in Nat /\ Through(i) = Through(i - 1) + Remain(q[i])
        /\ Remain(q[i]) \in Nat /\ Len(r) = Remain(q[i]) /\ r \in Seq(Bytes)
    BY <2>1, ThroughSound
  <2> HIDE DEF i, r
  <2>5. Before(r) \in 0 .. Len(r) /\ (Before(r) < Len(r) => r[Before(r) + 1] = NewLine)
    BY <2>4, BeforeSound
  <2>6. /\ Copied(c, i) = Min({Before(r), Room(c, i)})
        /\ Copied(c, i) \in {Before(r), Room(c, i)}
        /\ Copied(c, i) <= Room(c, i)
    BY <2>3, <2>4, <2>5, LeastOfTwo DEF Copied, r
  <2>7. Copied(c, i) # Room(c, i) /\ ~Hits(c, i)
    BY <2>2 DEF Passes, Fills
  <2>8. Copied(c, i) = Before(r) /\ Before(r) < Room(c, i)
    BY <2>3, <2>4, <2>5, <2>6, <2>7
  <2>9. Before(r) = Remain(q[i])
    BY <2>4, <2>5, <2>7, <2>8 DEF Hits, r
  <2>10. Room(c, i + 1) = call[c].length - 1 - Through(i) /\ Room(c, i) = call[c].length - 1 - Through(i - 1)
    BY <2>1 DEF Room
  <2> QED BY <1>1, <2>3, <2>4, <2>8, <2>9, <2>10
<1> HIDE DEF T
<1>5. \A n \in Nat : n \in T
  BY <1>3, <1>4, NatGrows
<1>6. ASSUME NEW i \in 1 .. Len(q), Comes(c, i) PROVE Room(c, i) \in Nat \ {0}
  <2>1. i - 1 \in Nat /\ i - 1 + 1 = i
    BY <1>2
  <2>2. i - 1 \in T
    BY <1>5, <2>1
  <2> QED BY <1>6, <2>1, <2>2 DEF T
<1> QED BY <1>6

LEMMA GetsReads ==
    ASSUME NoneBehind, IInv, DataInv, NEW c \in Callers, CNgets(c)
    PROVE  \E k \in Nat : Reads(k)
<1> DEFINE q == receive_queue
<1>1. makes' = makes /\ pending' = pending /\ call[c].at = "work" /\ call[c].op = "gets"
  BY DEF CNgets, Leaves
<1>2. q \in Seq(Blocks) /\ Sized(q) /\ Data(q) \in Seq(Bytes) /\ SumOf(q) \in Nat /\ total_data = SumOf(q)
  BY DataType DEF DataInv, CountIsTrue
<1>3. CASE UNCHANGED <<receive_queue, total_data, given>>
  <2>1. total_data' = total_data - 0
    BY <1>2, <1>3
  <2> QED BY <1>1, <1>3, <2>1, TakenNone DEF Reads
<1>4. ASSUME NEW i \in 1 .. Len(q), Comes(c, i), Hits(c, i),
             q' = Advance(From(i), Copied(c, i) + 1),
             total_data' = total_data - (Through(i - 1) + Copied(c, i) + 1),
             given' = given \o Line(c, i)
      PROVE  \E k \in Nat : Reads(k)
  <2> DEFINE r == Rest(q[i])
             n == Copied(c, i) + 1
             k == Through(i - 1) + n
  <2>1. /\ Through(i - 1) \in Nat /\ Remain(q[i]) \in Nat /\ Len(r) = Remain(q[i]) /\ r \in Seq(Bytes)
        /\ Through(i - 1) = SumOf(SubSeq(q, 1, i - 1))
    BY ThroughSound
  <2>2. Room(c, i) \in Nat
    BY <1>1, <1>4, RoomLeft
  <2>3. Before(r) \in Nat
    BY <2>1, BeforeSound
  <2>4. Copied(c, i) \in Nat
    BY <2>2, <2>3, LeastOfTwo DEF Copied, r
  <2>5. Copied(c, i) < Remain(q[i])
    BY <1>4 DEF Hits
  <2>6. n \in 0 .. Remain(q[i])
    BY <2>1, <2>4, <2>5
  <2> HIDE DEF n
  <2>7. Taken(q, Advance(From(i), n), k)
    BY <1>2, <2>1, <2>6, CutAt DEF From
  <2>8. k \in Nat /\ k <= SumOf(q)
    BY <1>2, <2>7 DEF Taken
  <2>9. k = Through(i - 1) + Copied(c, i) + 1
    BY <2>1, <2>4 DEF n
  <2> HIDE DEF k
  <2>10. Min({SumOf(q), k}) = k
    BY <1>2, <2>8, LeastOfTwo
  <2>11. Line(c, i) = SubSeq(Data(q), 1, k)
    BY <2>9, <2>10 DEF Line
  <2>12. Reads(k)
    <3>1. q' = Advance(From(i), n)
      BY <1>4 DEF n
    <3> QED BY <1>1, <1>4, <2>7, <2>9, <2>11, <3>1 DEF Reads
  <2> QED BY <2>8, <2>12
<1>5. CASE \E i \in 1 .. Len(receive_queue) :
             /\ Comes(c, i) /\ (Hits(c, i) \/ (AtEnd(c, i) /\ NewLine \in Behind))
             /\ receive_queue' = Advance(From(i), Copied(c, i) + 1)
             /\ total_data' = total_data - (Through(i - 1) + Copied(c, i) + 1)
             /\ given' = given \o Line(c, i)
  BY <1>4, <1>5 DEF NoneBehind
<1> QED BY <1>3, <1>5 DEF CNgets

\* Who reads counts what it reads, and nobody else counts on what was there.
LEMMA ReadsKeep ==
    ASSUME BlockAlone, IInv, DataInv, NEW c \in Callers, NEW op \in Calls, Leaves(c, op),
           NEW k \in Nat, Reads(k)
    PROVE  DataInv'
<1> DEFINE q == receive_queue
<1>1. /\ Taken(q, q', k) /\ total_data' = total_data - k
      /\ given' = given \o SubSeq(Data(q), 1, k) /\ makes' = makes /\ pending' = pending
  BY DEF Reads
<1>2. q \in Seq(Blocks) /\ Data(q) \in Seq(Bytes) /\ SumOf(q) \in Nat /\ total_data = SumOf(q)
  BY DataType DEF DataInv, CountIsTrue
<1>3. k \in 0 .. Len(Data(q)) /\ \A i \in 1 .. Len(Data(q)) : Data(q)[i] \in Bytes
  BY <1>1, <1>2, ElementOfSeq DEF Taken, SumOf
<1>4. CountIsTrue'
  <2>1. k + 1 \in Int /\ SumOf(q) \in Int /\ \A i \in k + 1 .. SumOf(q) : Data(q)[i] \in Bytes
    BY <1>2, <1>3 DEF SumOf
  <2>2. Len(SubSeq(Data(q), k + 1, SumOf(q))) = IF k + 1 <= SumOf(q) THEN SumOf(q) - (k + 1) + 1 ELSE 0
    BY <2>1, SubSeqProperties
  <2>3. Len(SubSeq(Data(q), k + 1, SumOf(q))) = SumOf(q) - k
    BY <1>2, <1>3, <2>2 DEF SumOf
  <2>4. SumOf(q') = SumOf(q) - k
    BY <1>1, <2>3 DEF Taken, SumOf
  <2> QED BY <1>1, <1>2, <2>4 DEF CountIsTrue, SumOf, Data, Rest
<1>5. given' \in Seq(Bytes)
  <2>1. k \in Int /\ 1 \in Int /\ \A i \in 1 .. k : Data(q)[i] \in Bytes
    BY <1>3
  <2>2. SubSeq(Data(q), 1, k) \in Seq(Bytes)
    BY <2>1, SubSeqProperties
  <2> QED BY <1>1, <2>2, ConcatProperties DEF DataInv
<1>6. call' = [call EXCEPT ![c] = NoCall] /\ call[c].op = op /\ op # "none" /\ call[c].at = "work"
  BY DEF Leaves, Ends, Calls
<1>7. \A d \in Callers : call'[d] = IF d = c THEN NoCall ELSE call[d]
  BY <1>6 DEF IInv
<1>8. \A d \in Callers : call'[d].op # "none" => call'[d].op \in makes'[d]
  BY <1>1, <1>7 DEF DataInv, NoCall
<1>9. ASSUME NEW d \in Callers, call'[d].at \in {"wait", "work"} PROVE Passed(call[d])'
  <2>1. d # c
    BY <1>7, <1>9 DEF NoCall
  <2>2. call'[d] = call[d] /\ Passed(call[d])
    BY <2>1, <1>7, <1>9 DEF DataInv
  <2>3. call[d].op # "get_block"
    <3> SUFFICES ASSUME call[d].op = "get_block" PROVE FALSE
      OBVIOUS
    <3>1. makes \in Workloads /\ "get_block" \in makes[d] /\ makes[c] # {}
      BY <1>6 DEF DataInv
    <3> QED BY <2>1, <3>1 DEF BlockAlone
  <2> QED BY <2>2, <2>3 DEF Passed
<1>10. \A d \in Callers : call'[d].at \in {"wait", "work"} => Passed(call[d])'
  BY <1>9
<1> QED BY <1>1, <1>4, <1>5, <1>8, <1>10 DEF DataInv, Taken

\* Nothing of the data moves.
LEMMA OutsideData ==
    ASSUME IInv, DataInv, NEW c \in Callers, NEW k,
           call' = [call EXCEPT ![c] = k],
           k.op # "none" => k.op \in makes[c],
           k.at \in {"wait", "work"} => Passed(k),
           UNCHANGED <<makes, pending, receive_queue, total_data, given>>
    PROVE  DataInv'
<1>1. \A d \in Callers : call'[d] = IF d = c THEN k ELSE call[d]
  BY DEF IInv
<1>2. \A d \in Callers : call'[d].op # "none" => call'[d].op \in makes'[d]
  BY <1>1 DEF DataInv
<1>3. \A d \in Callers : call'[d].at \in {"wait", "work"} => Passed(call[d])'
  BY <1>1 DEF DataInv, Passed
<1> QED BY <1>2, <1>3 DEF DataInv, CountIsTrue, SumOf, Data, Rest, Sized

LEMMA UnchangedData ==
    ASSUME DataInv, UNCHANGED <<makes, receive_queue, total_data, call, given>>,
           pending' \in Seq(Payloads)
    PROVE  DataInv'
BY DEF DataInv, CountIsTrue, SumOf, Data, Rest, Sized, Passed

\* The blocks timer_work hangs on hold what was pending.
LEMMA NewData ==
    ASSUME DataInv
    PROVE  /\ NewBlocks \in Seq(Blocks) /\ Sized(NewBlocks)
           /\ Data(NewBlocks) = FlattenSeq(pending) /\ FlattenSeq(pending) \in Seq(Bytes)
<1> DEFINE m == Len(pending)
<1>1. m \in Nat /\ \A i \in 1 .. m : pending[i] \in Payloads
  BY LenProperties, ElementOfSeq DEF DataInv
<1>2. \A i \in 1 .. m : pending[i] \in Seq(Bytes) /\ Len(pending[i]) \in Nat
  BY <1>1, BytesAssumption, LenProperties DEF BytesAssumption
<1>3. NewBlocks \in [1 .. m -> Blocks]
  BY <1>1 DEF NewBlocks, Blocks
<1>4. NewBlocks \in Seq(Blocks) /\ Len(NewBlocks) = m
  BY <1>1, <1>3, SeqDef
<1>5. \A i \in 1 .. m : NewBlocks[i].data = pending[i] /\ NewBlocks[i].index = 0
  BY DEF NewBlocks
<1>6. Sized(NewBlocks)
  <2>1. \A i \in 1 .. Len(NewBlocks) : NewBlocks[i].index <= Len(NewBlocks[i].data)
    BY <1>2, <1>4, <1>5
  <2> QED BY <2>1 DEF Sized
<1>7. pending \in Seq(Seq(Bytes))
  <2>1. Payloads \subseteq Seq(Bytes)
    BY BytesAssumption
  <2> QED BY <2>1, SeqMonotonic DEF DataInv
<1>8. Rests(NewBlocks) = pending
  <2>1. Rests(NewBlocks) \in Seq(Seq(Bytes)) /\ Len(Rests(NewBlocks)) = m
        /\ \A i \in 1 .. m : Rests(NewBlocks)[i] = Rest(NewBlocks[i])
    BY <1>4, RestsType
  <2>2. \A i \in 1 .. m : Rest(NewBlocks[i]) = pending[i]
    <3> SUFFICES ASSUME NEW i \in 1 .. m PROVE Rest(NewBlocks[i]) = pending[i]
      OBVIOUS
    <3>1. Rest(NewBlocks[i]) = SubSeq(pending[i], 0 + 1, Len(pending[i]))
      BY <1>5, Zenon DEF Rest
    <3> QED BY <3>1, <1>2, SubSeqFull
  <2> QED BY <2>1, <2>2, <1>7, SeqEqual
<1>9. Data(NewBlocks) = FlattenSeq(pending)
  BY <1>4, <1>8, DataType
<1>10. Data(NewBlocks) \in Seq(Bytes)
  BY <1>4, DataType
<1> QED BY <1>4, <1>6, <1>9, <1>10

\* What the readers see does not change when the timer moves it.
LEMMA WorkKeeps ==
    ASSUME IInv, DataInv, work, makes' = makes, given' = given,
           \A d \in Callers : call'[d].op # "none" => call'[d].op \in makes'[d],
           \A d \in Callers : call'[d].at \in {"wait", "work"} =>
                                call'[d] = call[d]
    PROVE  /\ DataInv'
           /\ Data(receive_queue') \o FlattenSeq(pending') = Data(receive_queue) \o FlattenSeq(pending)
<1> DEFINE q == receive_queue
<1>1. /\ q \in Seq(Blocks) /\ Sized(q) /\ Data(q) \in Seq(Bytes) /\ SumOf(q) \in Nat
      /\ total_data = SumOf(q)
  BY DataType DEF DataInv, CountIsTrue
<1>2. CASE UNCHANGED <<pending, receive_queue, total_data, semaphore>>
  <2>1. \A d \in Callers : call'[d].at \in {"wait", "work"} => Passed(call[d])'
    BY <1>2 DEF DataInv, Passed
  <2> QED BY <1>2, <2>1 DEF DataInv, CountIsTrue, SumOf, Data, Rest, Sized
<1>3. CASE /\ q' = q \o NewBlocks /\ total_data' = total_data + SumOf(NewBlocks)
           /\ pending' = <<>>
  <2>1. /\ NewBlocks \in Seq(Blocks) /\ Sized(NewBlocks)
        /\ Data(NewBlocks) = FlattenSeq(pending) /\ FlattenSeq(pending) \in Seq(Bytes)
        /\ SumOf(NewBlocks) \in Nat
    BY NewData, DataType
  <2>2. /\ q' \in Seq(Blocks) /\ Data(q') = Data(q) \o Data(NewBlocks)
        /\ SumOf(q') = SumOf(q) + SumOf(NewBlocks)
    BY <1>1, <1>3, <2>1, DataConcat
  <2>3. Sized(q')
    <3>1. /\ Len(q) \in Nat /\ Len(NewBlocks) \in Nat /\ Len(q') = Len(q) + Len(NewBlocks)
          /\ \A i \in 1 .. Len(q) + Len(NewBlocks) :
               q'[i] = IF i <= Len(q) THEN q[i] ELSE NewBlocks[i - Len(q)]
      BY <1>1, <1>3, <2>1, ConcatProperties, LenProperties
    <3> SUFFICES ASSUME NEW i \in 1 .. Len(q) + Len(NewBlocks)
                 PROVE  q'[i].index <= Len(q'[i].data)
      BY <3>1 DEF Sized
    <3>2. CASE i <= Len(q)
      BY <3>1, <3>2, <1>1 DEF Sized
    <3>3. CASE ~(i <= Len(q))
      <4>1. i - Len(q) \in 1 .. Len(NewBlocks) /\ q'[i] = NewBlocks[i - Len(q)]
        BY <3>1, <3>3
      <4> QED BY <4>1, <2>1 DEF Sized
    <3> QED BY <3>2, <3>3
  <2>4. CountIsTrue'
    BY <1>1, <1>3, <2>2 DEF CountIsTrue, SumOf, Data, Rest
  <2>5. pending' \in Seq(Payloads)
    BY <1>3, EmptySeq
  <2>6. \A d \in Callers : call'[d].at \in {"wait", "work"} => Passed(call[d])'
    <3> SUFFICES ASSUME NEW d \in Callers, call'[d].at \in {"wait", "work"} PROVE Passed(call[d])'
      OBVIOUS
    <3>1. call'[d] = call[d] /\ Passed(call[d])
      BY DEF DataInv
    <3>2. total_data' >= total_data /\ total_data' \in Nat /\ total_data \in Nat
      BY <1>1, <1>3, <2>1
    <3>3. call[d].op = "get_block" => call[d].length <= total_data'
      BY <3>1, <3>2, LengthType DEF Passed
    <3> QED BY <3>1, <3>3 DEF Passed
  <2>7. Data(q') \o FlattenSeq(pending') = Data(q) \o FlattenSeq(pending)
    <3>1. FlattenSeq(pending') = <<>>
      BY <1>3, FlattenFew, EmptySeq
    <3>2. Data(q') \in Seq(Bytes)
      BY <2>2, DataType
    <3> QED BY <2>1, <2>2, <3>1, <3>2, ConcatEmptySeq
  <2> QED BY <2>2, <2>3, <2>4, <2>5, <2>6, <2>7 DEF DataInv, Sized
<1> QED BY <1>2, <1>3 DEF work

Unread == Data(receive_queue) \o FlattenSeq(pending)

LEMMA UnreadType ==
    ASSUME DataInv
    PROVE  /\ Data(receive_queue) \in Seq(Bytes) /\ FlattenSeq(pending) \in Seq(Bytes)
           /\ Unread \in Seq(Bytes)
BY DataType, NewData, ConcatProperties DEF DataInv, Unread

\* A call that reads takes from the front of the stream, or takes nothing.
LEMMA ReadsIsRead ==
    ASSUME DataInv, NEW k \in Nat, Reads(k)
    PROVE  Reader!Read \/ UNCHANGED <<Unread, given>>
<1> DEFINE d == Data(receive_queue)
           p == FlattenSeq(pending)
<1>1. /\ d \in Seq(Bytes) /\ p \in Seq(Bytes) /\ Unread = d \o p
      /\ k \in 0 .. Len(d) /\ Data(receive_queue') = SubSeq(d, k + 1, Len(d))
      /\ given' = given \o SubSeq(d, 1, k) /\ pending' = pending
  BY UnreadType DEF Reads, Taken, SumOf, Unread
<1>2. Unread' = SubSeq(d, k + 1, Len(d)) \o p
  <2>1. Unread' = Data(receive_queue') \o FlattenSeq(pending')
    BY DEF Unread, Data, Rest
  <2> QED BY <1>1, <2>1
<1> HIDE DEF d, p
<1>3. Unread' = SubSeq(d \o p, k + 1, Len(d \o p)) /\ SubSeq(d \o p, 1, k) = SubSeq(d, 1, k)
  <2>1. Unread' = SubSeq(d \o p, k + 1, Len(d \o p))
    BY <1>1, <1>2, CutFirst
  <2>2. SubSeq(d \o p, 1, k) = SubSeq(d, 1, k)
    BY <1>1, CutFront
  <2> QED BY <2>1, <2>2
<1>4. given' = given \o SubSeq(Unread, 1, k) /\ Unread' = SubSeq(Unread, k + 1, Len(Unread))
  BY <1>1, <1>3
<1>5. CASE k = 0
  <2>1. SubSeq(Unread, 1, 0) = <<>> /\ SubSeq(Unread, 1, Len(Unread)) = Unread
    BY UnreadType, SubSeqEmpty, SubSeqFull
  <2>2. given' = given \o <<>> /\ given \in Seq(Bytes)
    BY <1>4, <1>5, <2>1 DEF DataInv
  <2> QED BY <1>4, <1>5, <2>1, <2>2, ConcatEmptySeq
<1>6. CASE k # 0
  <2>1. k \in 1 .. Len(Unread)
    <3>1. Len(Unread) = Len(d) + Len(p) /\ Len(d) \in Nat /\ Len(p) \in Nat
      BY <1>1, ConcatProperties, LenProperties
    <3> QED BY <1>1, <1>6, <3>1
  <2>2. \E n \in 1 .. Len(Unread) : /\ given' = given \o SubSeq(Unread, 1, n)
                                    /\ Unread' = SubSeq(Unread, n + 1, Len(Unread))
    BY <1>4, <2>1
  <2> QED BY <2>2 DEF Reader!Read, Unread
<1> QED BY <1>5, <1>6

\* A datagram that arrives is hung on behind what is unread.
LEMMA ArrivesBehind ==
    ASSUME DataInv, NEW d \in Payloads, UDP_handler(d)
    PROVE  DataInv' /\ Reader!Arrive
<1>1. /\ pending' = Append(pending, d) /\ receive_queue' = receive_queue /\ given' = given
      /\ UNCHANGED <<makes, total_data, call>> /\ pending \in Seq(Payloads)
  BY DEF UDP_handler, DataInv
<1>2. pending' \in Seq(Payloads)
  BY <1>1, AppendProperties
<1>3. DataInv'
  BY <1>1, <1>2, UnchangedData
<1>4. pending \in Seq(Seq(Bytes)) /\ d \in Seq(Bytes)
  <2>1. Payloads \subseteq Seq(Bytes)
    BY BytesAssumption
  <2> QED BY <1>1, <2>1, SeqMonotonic
<1>5. FlattenSeq(pending') = FlattenSeq(pending) \o d
  BY <1>1, <1>4, FlattenStep
<1>6. /\ Data(receive_queue) \in Seq(Bytes) /\ FlattenSeq(pending) \in Seq(Bytes)
      /\ Unread \in Seq(Bytes)
  BY UnreadType
<1>7. Unread' = Unread \o d
  <2>1. Unread' = Data(receive_queue') \o FlattenSeq(pending')
    BY DEF Unread, Data, Rest
  <2>2. Unread' = Data(receive_queue) \o (FlattenSeq(pending) \o d)
    BY <1>1, <1>5, <2>1
  <2>3. (Data(receive_queue) \o FlattenSeq(pending)) \o d
          = Data(receive_queue) \o (FlattenSeq(pending) \o d)
    <3>1. PICK a, b : a = Data(receive_queue) /\ b = FlattenSeq(pending)
      OBVIOUS
    <3>2. a \in Seq(Bytes) /\ b \in Seq(Bytes) /\ d \in Seq(Bytes)
      BY <1>4, <1>6, <3>1
    <3>3. (a \o b) \o d = a \o (b \o d)
      BY ONLY <3>2, ConcatAssociative
    <3> QED BY <3>1, <3>3
  <2> QED BY <2>2, <2>3 DEF Unread
<1>8. Unread' \in Seq(Bytes) /\ Len(Unread') = Len(Unread) + Len(d) /\ Len(Unread) \in Nat /\ Len(d) \in Nat
  BY <1>4, <1>6, <1>7, ConcatProperties, LenProperties
<1>9. SubSeq(Unread', 1, Len(Unread)) = Unread
  <2>1. Len(Unread) \in 0 .. Len(Unread)
    BY <1>8
  <2>2. SubSeq(Unread \o d, 1, Len(Unread)) = SubSeq(Unread, 1, Len(Unread))
    BY <1>4, <1>6, <2>1, CutFront
  <2> QED BY <1>6, <1>7, <2>2, SubSeqFull
<1>10. \A i \in 1 .. Len(Unread') : Unread'[i] \in Bytes
  BY <1>8, ElementOfSeq
<1>11. Len(Unread') >= Len(Unread)
  BY <1>8
<1>12. Reader!Arrive
  BY <1>1, <1>9, <1>10, <1>11 DEF Reader!Arrive, Unread
<1> QED BY <1>3, <1>12

\* Every step keeps the count, and is a step of the stream or changes nothing of it.
LEMMA NextData ==
    ASSUME BlockAlone, NoneBehind, IInv, DataInv, [Next]_vars
    PROVE  DataInv' /\ (Reader!Arrive \/ Reader!Read \/ UNCHANGED <<Unread, given>>)
<1>1. ASSUME NEW d \in Payloads, UDP_handler(d)
      PROVE  DataInv' /\ Reader!Arrive
  BY <1>1, ArrivesBehind
<1>2. CASE timer_work
  <2>1. work /\ UNCHANGED <<makes, call, given>>
    BY <1>2 DEF timer_work
  <2>2. /\ \A d \in Callers : call'[d].op # "none" => call'[d].op \in makes'[d]
        /\ \A d \in Callers : call'[d].at \in {"wait", "work"} => call'[d] = call[d]
    BY <2>1 DEF DataInv
  <2>3. /\ DataInv'
        /\ Data(receive_queue') \o FlattenSeq(pending') = Data(receive_queue) \o FlattenSeq(pending)
    BY <2>1, <2>2, WorkKeeps
  <2> QED BY <2>1, <2>3 DEF Unread, Data, Rest
<1>3. ASSUME NEW c \in Callers, NEW op \in Calls, NEW length \in Lengths \cup {0},
             poll_receive(c, op, length)
      PROVE  DataInv' /\ UNCHANGED <<Unread, given>>
  <2> DEFINE k == [op |-> op, at |-> "check", length |-> length]
  <2>1. k.op = op /\ k.at = "check" /\ op \in makes[c]
    BY <1>3 DEF poll_receive
  <2> HIDE DEF k
  <2>2. call' = [call EXCEPT ![c] = k] /\ UNCHANGED <<makes, given>>
    BY <1>3 DEF poll_receive, k
  <2>3. CASE UNCHANGED <<pending, receive_queue, total_data, semaphore>>
    <3>1. DataInv'
      BY <2>1, <2>2, <2>3, OutsideData
    <3> QED BY <2>2, <2>3, <3>1 DEF Unread, Data, Rest
  <2>4. CASE work
    <3>1. \A d \in Callers : call'[d] = IF d = c THEN k ELSE call[d]
      BY <2>2 DEF IInv
    <3>2. /\ \A d \in Callers : call'[d].op # "none" => call'[d].op \in makes'[d]
          /\ \A d \in Callers : call'[d].at \in {"wait", "work"} => call'[d] = call[d]
      BY <2>1, <2>2, <3>1 DEF DataInv
    <3>3. /\ DataInv'
          /\ Data(receive_queue') \o FlattenSeq(pending') = Data(receive_queue) \o FlattenSeq(pending)
      BY <2>2, <2>4, <3>2, WorkKeeps
    <3> QED BY <2>2, <3>3 DEF Unread, Data, Rest
  <2> QED BY <1>3, <2>3, <2>4 DEF poll_receive
<1>4. ASSUME NEW c \in Callers, check(c) PROVE DataInv' /\ UNCHANGED <<Unread, given>>
  <2>1. UNCHANGED <<makes, pending, receive_queue, total_data, given>>
    BY <1>4 DEF check
  <2>2. CASE Ends(c)
    <3>1. NoCall.op = "none" /\ NoCall.at = "done"
      BY DEF NoCall
    <3>2. DataInv'
      BY <2>1, <2>2, <3>1, OutsideData DEF Ends
    <3> QED BY <2>1, <3>2 DEF Unread, Data, Rest
  <2>3. CASE ~Refused(call[c]) /\ Goes(c, "wait")
    <3> DEFINE k == [call[c] EXCEPT !.at = "wait"]
    <3>1. k.op = call[c].op /\ k.length = call[c].length /\ call' = [call EXCEPT ![c] = k]
      BY <2>3 DEF Goes, IInv, CallState
    <3> HIDE DEF k
    <3>2. call[c].length \in Nat /\ total_data \in Nat
      BY LengthType, DataType DEF DataInv, CountIsTrue
    <3>3. Passed(k)
      BY <2>3, <3>1, <3>2 DEF Passed, Refused
    <3>4. k.op # "none" => k.op \in makes[c]
      BY <3>1 DEF DataInv
    <3>5. DataInv'
      BY <2>1, <3>1, <3>3, <3>4, OutsideData
    <3> QED BY <2>1, <3>5 DEF Unread, Data, Rest
  <2> QED BY <1>4, <2>2, <2>3 DEF check
<1>5. ASSUME NEW c \in Callers, req_flag(c) PROVE DataInv' /\ UNCHANGED <<Unread, given>>
  <2>1. UNCHANGED <<makes, pending, receive_queue, total_data, given>> /\ call[c].at = "wait"
    BY <1>5 DEF req_flag
  <2>2. CASE Ends(c)
    <3>1. NoCall.op = "none" /\ NoCall.at = "done"
      BY DEF NoCall
    <3>2. DataInv'
      BY <2>1, <2>2, <3>1, OutsideData DEF Ends
    <3> QED BY <2>1, <3>2 DEF Unread, Data, Rest
  <2>3. CASE Goes(c, "work")
    <3> DEFINE k == [call[c] EXCEPT !.at = "work"]
    <3>1. k.op = call[c].op /\ k.length = call[c].length /\ call' = [call EXCEPT ![c] = k]
      BY <2>3 DEF Goes, IInv, CallState
    <3> HIDE DEF k
    <3>2. Passed(k)
      BY <2>1, <3>1 DEF Passed, DataInv
    <3>3. k.op # "none" => k.op \in makes[c]
      BY <3>1 DEF DataInv
    <3>4. DataInv'
      BY <2>1, <3>1, <3>2, <3>3, OutsideData
    <3> QED BY <2>1, <3>4 DEF Unread, Data, Rest
  <2> QED BY <1>5, <2>2, <2>3 DEF req_flag
<1>6. ASSUME NEW c \in Callers,
             CNget_char(c) \/ CNget_NDB(c) \/ CNget_block(c) \/ CNgets(c)
      PROVE  DataInv' /\ (Reader!Read \/ UNCHANGED <<Unread, given>>)
  <2>1. \E k \in Nat : Reads(k)
    BY <1>6, GetCharReads, GetNdbReads, GetBlockReads, GetsReads
  <2>2. \E op \in Calls : Leaves(c, op)
    BY <1>6 DEF CNget_char, CNget_NDB, CNget_block, CNgets, Calls
  <2> QED BY <2>1, <2>2, ReadsKeep, ReadsIsRead
<1>7. CASE UNCHANGED vars
  <2>1. DataInv'
    BY <1>7, UnchangedData DEF vars, DataInv
  <2> QED BY <1>7, <2>1 DEF vars, Unread, Data, Rest
<1> QED BY <1>1, <1>2, <1>3, <1>4, <1>5, <1>6, <1>7 DEF Next

\* At first there is nothing to read.
LEMMA InitData == Init => DataInv /\ Unread = <<>> /\ given = <<>>
<1> SUFFICES ASSUME Init PROVE DataInv /\ Unread = <<>> /\ given = <<>>
  OBVIOUS
<1>1. /\ makes \in Workloads /\ pending = <<>> /\ receive_queue = <<>> /\ total_data = 0
      /\ given = <<>> /\ \A c \in Callers : call[c] = NoCall
  BY DEF Init
<1>2. Sized(<<>>)
  BY EmptySeq DEF Sized
<1>3. <<>> \in Seq(Payloads) /\ <<>> \in Seq(Bytes) /\ Data(<<>>) \in Seq(Bytes)
  BY EmptySeq, DataNone, DataType
<1>4. Unread = <<>>
  <2>1. FlattenSeq(<<>>) = <<>>
    BY <1>3, FlattenFew
  <2>2. <<>> \o <<>> = <<>>
    BY <1>3, ConcatEmptySeq
  <2> QED BY <1>1, <2>1, <2>2, DataNone DEF Unread
<1>5. CountIsTrue
  BY <1>1, DataNone DEF CountIsTrue
<1> QED BY <1>1, <1>2, <1>3, <1>4, <1>5, DataNone DEF DataInv, NoCall

\* CNbyte_count answers how much there is to read, for any number of tasks and whatever
\* they call, if who calls CNget_block has the connection to itself and no delimiter
\* lies in memory behind the data of a datagram.
THEOREM CountStaysTrue == ASSUME BlockAlone, NoneBehind PROVE Spec => []CountIsTrue
<1>1. Init => IInv /\ DataInv
  BY InitIInv, InitData
<1>2. IInv /\ DataInv /\ [Next]_vars => IInv' /\ DataInv'
  BY NextIInv, NextData
<1>3. DataInv => CountIsTrue
  BY DEF DataInv
<1> QED BY <1>1, <1>2, <1>3, PTL DEF Spec

\* Under the same two conditions the readers are given the bytes of the datagrams in
\* the order of arrival, none lost and none twice, however the calls of the tasks, the
\* timer and the arrivals interleave.
THEOREM ReadersGetTheStream == ASSUME BlockAlone, NoneBehind PROVE Spec => ImplementsStream
<1>1. Init => IInv /\ DataInv /\ Reader!Init
  BY InitIInv, InitData DEF Reader!Init, Unread
<1>2. IInv /\ DataInv /\ [Next]_vars
        => IInv' /\ DataInv'
           /\ [Reader!Arrive \/ Reader!Read]_<<Data(receive_queue) \o FlattenSeq(pending), given>>
  BY NextIInv, NextData DEF Unread
<1> QED BY <1>1, <1>2, PTL DEF Spec, ImplementsStream, Reader!Spec
=============================================================================
