--------------------------- MODULE SequenceLemmas ---------------------------
(***************************************************************************)
(* What linking in front of a chain, and unlinking from it anywhere, leave *)
(* where, and the least and the greatest of a set of places.               *)
(***************************************************************************)
EXTENDS Integers, SequencesExt, SequenceTheorems, WellFoundedInduction, TLAPS

(***************************************************************************)
(* Least elements                                                          *)
(***************************************************************************)
\* Less-than is well-founded on the natural numbers.
LEMMA LeastNat ==
    ASSUME NEW T, T \subseteq Nat, T # {}
    PROVE  \E x \in T : \A y \in T : x <= y
<1> DEFINE R == OpToRel(<, Nat)
<1>1. IsWellFoundedOn(R, Nat)
  BY NatLessThanWellFounded
<1>2. ASSUME NEW x \in Nat, NEW y \in Nat, x < y PROVE <<x, y>> \in R
  BY <1>2, Zenon DEF OpToRel
<1> HIDE DEF R
<1>3. PICK x \in T : \A y \in T : ~(<<y, x>> \in R)
  BY <1>1, WFMin
<1>4. ASSUME NEW y \in T PROVE x <= y
  <2>1. y \in Nat /\ x \in Nat
    OBVIOUS
  <2>2. ~(y < x)
    BY <1>2, <1>3, <2>1
  <2> QED BY <2>1, <2>2
<1> QED BY <1>4

\* A set of numbers that holds 0, and with each number the next, holds them all.
LEMMA NatGrows ==
    ASSUME NEW T, 0 \in T, \A n \in Nat : n \in T => n + 1 \in T
    PROVE  \A n \in Nat : n \in T
<1> DEFINE bad == {n \in Nat : n \notin T}
<1> SUFFICES ASSUME bad # {} PROVE FALSE
  OBVIOUS
<1>1. PICK m \in bad : \A n \in bad : m <= n
  BY LeastNat
<1>2. m \in Nat \ {0} /\ m \notin T
  OBVIOUS
<1>3. m - 1 \in Nat /\ ~(m <= m - 1) /\ m - 1 + 1 = m
  BY <1>2
<1>4. m - 1 \in T
  BY <1>1, <1>3
<1> QED BY <1>2, <1>3, <1>4

LEMMA MinIsLeast ==
    ASSUME NEW T, T \subseteq Nat, T # {}
    PROVE  Min(T) \in T /\ \A y \in T : Min(T) <= y
BY LeastNat DEF Min

LEMMA MaxIsGreatest ==
    ASSUME NEW n \in Nat, NEW T, T \subseteq 0 .. n, T # {}
    PROVE  Max(T) \in T /\ \A y \in T : Max(T) >= y
<1> DEFINE U == {n - x : x \in T}
<1>1. \A x \in T : x \in Nat /\ n - x \in Nat
  OBVIOUS
<1>2. U \subseteq Nat /\ U # {}
  BY <1>1
<1>3. PICK u \in U : \A y \in U : u <= y
  BY <1>2, LeastNat
<1>4. PICK x \in T : u = n - x
  OBVIOUS
<1>5. ASSUME NEW y \in T PROVE x >= y
  <2>1. n - x <= n - y
    BY <1>3, <1>4
  <2> QED BY <1>1, <2>1
<1> QED BY <1>5 DEF Max

(***************************************************************************)
(* Chains                                                                  *)
(***************************************************************************)

\* An element linked in front moves all others up by one.
LEMMA PrependSound ==
    ASSUME NEW S, NEW s \in Seq(S), NEW e \in S
    PROVE  /\ <<e>> \o s \in Seq(S) /\ Len(<<e>> \o s) = Len(s) + 1
           /\ (<<e>> \o s)[1] = e
           /\ \A i \in 2 .. Len(s) + 1 : (<<e>> \o s)[i] = s[i - 1]
<1>1. <<e>> \in Seq(S) /\ Len(<<e>>) = 1 /\ <<e>>[1] = e
  OBVIOUS
<1>2. Len(s) \in Nat
  BY LenProperties
<1>3. /\ <<e>> \o s \in Seq(S) /\ Len(<<e>> \o s) = Len(<<e>>) + Len(s)
      /\ \A i \in 1 .. Len(<<e>>) + Len(s) :
            (<<e>> \o s)[i] = IF i <= Len(<<e>>) THEN <<e>>[i] ELSE s[i - Len(<<e>>)]
  BY <1>1, ConcatProperties
<1> QED BY <1>1, <1>2, <1>3

\* What is behind the element that is taken out moves down by one.
LEMMA RemoveSound ==
    ASSUME NEW S, NEW s \in Seq(S), NEW i \in 1 .. Len(s)
    PROVE  /\ RemoveAt(s, i) \in Seq(S) /\ Len(RemoveAt(s, i)) = Len(s) - 1
           /\ \A j \in 1 .. Len(s) - 1 :
                RemoveAt(s, i)[j] = IF j < i THEN s[j] ELSE s[j + 1]
<1> DEFINE left  == SubSeq(s, 1, i - 1)
           right == SubSeq(s, i + 1, Len(s))
<1>1. Len(s) \in Nat /\ i \in Int /\ \A j \in 1 .. Len(s) : s[j] \in S
  BY LenProperties, ElementOfSeq
<1>2. /\ left \in Seq(S) /\ Len(left) = i - 1
      /\ \A j \in 1 .. i - 1 : left[j] = s[j]
  <2>1. /\ left \in Seq(S)
        /\ Len(left) = IF 1 <= i - 1 THEN i - 1 - 1 + 1 ELSE 0
        /\ \A j \in 1 .. i - 1 - 1 + 1 : left[j] = s[1 + j - 1]
    BY <1>1, SubSeqProperties
  <2> QED BY <1>1, <2>1
<1>3. /\ right \in Seq(S) /\ Len(right) = Len(s) - i
      /\ \A j \in 1 .. Len(s) - i : right[j] = s[i + j]
  <2>1. /\ right \in Seq(S)
        /\ Len(right) = IF i + 1 <= Len(s) THEN Len(s) - (i + 1) + 1 ELSE 0
        /\ \A j \in 1 .. Len(s) - (i + 1) + 1 : right[j] = s[i + 1 + j - 1]
    BY <1>1, SubSeqProperties
  <2> QED BY <1>1, <2>1
<1>4. RemoveAt(s, i) = left \o right
  BY DEF RemoveAt
<1> HIDE DEF left, right
<1>5. /\ left \o right \in Seq(S) /\ Len(left \o right) = Len(left) + Len(right)
      /\ \A j \in 1 .. Len(left) + Len(right) :
            (left \o right)[j] = IF j <= Len(left) THEN left[j] ELSE right[j - Len(left)]
  BY <1>2, <1>3, ConcatProperties
<1>6. Len(left) + Len(right) = Len(s) - 1
  BY <1>1, <1>2, <1>3
<1>7. ASSUME NEW j \in 1 .. Len(s) - 1
      PROVE  (left \o right)[j] = IF j < i THEN s[j] ELSE s[j + 1]
  <2>1. CASE j < i
    BY <1>1, <1>2, <1>5, <1>6, <2>1
  <2>2. CASE ~(j < i)
    <3>1. j - (i - 1) \in 1 .. Len(s) - i /\ i + (j - (i - 1)) = j + 1
      BY <1>1, <2>2
    <3>2. (left \o right)[j] = right[j - (i - 1)]
      BY <1>1, <1>2, <1>5, <1>6, <2>2
    <3> QED BY <1>3, <2>2, <3>1, <3>2
  <2> QED BY <2>1, <2>2
<1> QED BY <1>4, <1>5, <1>6, <1>7

\* A chain read from its end.
LEMMA ReverseSound ==
    ASSUME NEW S, NEW s \in Seq(S)
    PROVE  /\ Reverse(s) \in Seq(S) /\ Len(Reverse(s)) = Len(s)
           /\ \A i \in 1 .. Len(s) : Reverse(s)[i] = s[Len(s) - i + 1]
<1> DEFINE n == Len(s)
           r == [i \in 1 .. n |-> s[n - i + 1]]
<1>1. n \in Nat /\ \A i \in 1 .. n : s[i] \in S
  BY LenProperties, ElementOfSeq
<1>2. Reverse(s) = r
  BY DEF Reverse
<1> HIDE DEF n
<1>3. \A i \in 1 .. n : n - i + 1 \in 1 .. n
  BY <1>1
<1>4. r \in [1 .. n -> S] /\ \A i \in 1 .. n : r[i] = s[n - i + 1]
  BY <1>1, <1>3
<1>5. r \in Seq(S)
  BY <1>1, <1>4, SeqDef
<1>6. DOMAIN r = 1 .. n /\ DOMAIN r = 1 .. Len(r) /\ Len(r) \in Nat
  BY <1>4, <1>5, LenProperties
<1> HIDE DEF r
<1>7. Len(r) = n
  <2>1. 1 .. n = 1 .. Len(r)
    BY <1>6
  <2> QED BY <1>1, <1>6, <2>1
<1> QED BY <1>2, <1>4, <1>5, <1>7 DEF n

\* What was linked in front is read last.
LEMMA ReversePrepend ==
    ASSUME NEW S, NEW s \in Seq(S), NEW e \in S
    PROVE  Reverse(<<e>> \o s) = Append(Reverse(s), e)
<1> DEFINE long == <<e>> \o s
           back == Reverse(s)
           lhs  == Reverse(long)
           rhs  == Append(back, e)
<1>1. /\ long \in Seq(S) /\ Len(long) = Len(s) + 1 /\ long[1] = e
      /\ \A i \in 2 .. Len(s) + 1 : long[i] = s[i - 1]
  BY PrependSound
<1>2. /\ back \in Seq(S) /\ Len(back) = Len(s) /\ Len(s) \in Nat
      /\ \A i \in 1 .. Len(s) : back[i] = s[Len(s) - i + 1]
  BY ReverseSound, LenProperties
<1> HIDE DEF long
<1>3. /\ lhs \in Seq(S) /\ Len(lhs) = Len(long)
      /\ \A i \in 1 .. Len(long) : lhs[i] = long[Len(long) - i + 1]
  BY <1>1, ReverseSound
<1> HIDE DEF back
<1>4. /\ rhs \in Seq(S) /\ Len(rhs) = Len(back) + 1 /\ rhs[Len(back) + 1] = e
      /\ \A i \in 1 .. Len(back) : rhs[i] = back[i]
  BY <1>2
<1> HIDE DEF lhs, rhs
<1>5. ASSUME NEW i \in 1 .. Len(s) + 1 PROVE lhs[i] = rhs[i]
  <2>1. CASE i = Len(s) + 1
    <3>1. lhs[i] = long[1]
      <4>1. Len(long) = i /\ i \in 1 .. Len(long) /\ i - i + 1 = 1
        BY <1>1, <1>2, <2>1
      <4>2. lhs[i] = long[Len(long) - i + 1]
        BY <1>3, <4>1
      <4> QED BY <4>1, <4>2
    <3>2. rhs[i] = e
      BY <1>2, <1>4, <2>1
    <3> QED BY <1>1, <3>1, <3>2
  <2>2. CASE i \in 1 .. Len(s)
    <3>1. lhs[i] = long[Len(s) + 1 - i + 1] /\ Len(s) + 1 - i + 1 \in 2 .. Len(s) + 1
      BY <1>1, <1>2, <1>3, <2>2
    <3> DEFINE m == Len(s) + 1 - i + 1
    <3>4. m \in 2 .. Len(s) + 1 /\ m - 1 = Len(s) - i + 1 /\ lhs[i] = long[m]
      BY <1>2, <3>1
    <3> HIDE DEF m
    <3>2. lhs[i] = s[Len(s) - i + 1]
      BY <1>1, <3>4
    <3>3. rhs[i] = s[Len(s) - i + 1]
      BY <1>2, <1>4, <2>2
    <3> QED BY <3>2, <3>3
  <2> QED BY <1>2, <2>1, <2>2
<1>6. lhs = rhs
  <2>1. Len(lhs) = Len(rhs) /\ \A i \in 1 .. Len(lhs) : lhs[i] = rhs[i]
    BY <1>1, <1>2, <1>3, <1>4, <1>5
  <2> QED BY <1>3, <1>4, <2>1, SeqEqual
<1> QED BY <1>6 DEF lhs, rhs, long, back

\* Taking the last one is reading the first.
LEMMA ReverseFront ==
    ASSUME NEW S, NEW s \in Seq(S), s # <<>>
    PROVE  Reverse(s) # <<>> /\ Reverse(Front(s)) = Tail(Reverse(s))
<1> DEFINE short == Front(s)
           back  == Reverse(s)
           lhs   == Reverse(short)
           rhs   == Tail(back)
<1>1. Len(s) \in Nat \ {0} /\ \A i \in 1 .. Len(s) : s[i] \in S
  <2>1. Len(s) \in Nat \ {0}
    BY EmptySeq
  <2> QED BY <2>1, ElementOfSeq
<1>2. /\ short \in Seq(S) /\ Len(short) = Len(s) - 1
      /\ \A i \in 1 .. Len(s) - 1 : short[i] = s[i]
  <2>1. /\ SubSeq(s, 1, Len(s) - 1) \in Seq(S)
        /\ Len(SubSeq(s, 1, Len(s) - 1)) = IF 1 <= Len(s) - 1 THEN Len(s) - 1 - 1 + 1 ELSE 0
        /\ \A i \in 1 .. Len(s) - 1 - 1 + 1 : SubSeq(s, 1, Len(s) - 1)[i] = s[1 + i - 1]
    BY <1>1, SubSeqProperties
  <2>2. Len(s) \in Nat /\ Len(s) >= 1 /\ (~(1 <= Len(s) - 1) => Len(s) - 1 = 0)
    <3>1. Len(s) \in Nat \ {0}
      BY EmptySeq
    <3>2. \A n \in Nat \ {0} : n \in Nat /\ n >= 1 /\ (~(1 <= n - 1) => n - 1 = 0)
      OBVIOUS
    <3> QED BY <3>1, <3>2
  <2>3. /\ Len(SubSeq(s, 1, Len(s) - 1)) = Len(s) - 1
        /\ \A i \in 1 .. Len(s) - 1 : SubSeq(s, 1, Len(s) - 1)[i] = s[i]
    BY <2>1, <2>2
  <2> QED BY <2>1, <2>3 DEF Front
<1>3. /\ back \in Seq(S) /\ Len(back) = Len(s)
      /\ \A i \in 1 .. Len(s) : back[i] = s[Len(s) - i + 1]
  BY ReverseSound
<1> HIDE DEF back, short
<1>4. back # <<>>
  BY <1>1, <1>3, EmptySeq
<1>5. /\ rhs \in Seq(S) /\ Len(rhs) = Len(back) - 1
      /\ \A i \in 1 .. Len(rhs) : rhs[i] = back[i + 1]
  BY <1>3, <1>4, HeadTailProperties
<1>6. /\ lhs \in Seq(S) /\ Len(lhs) = Len(short)
      /\ \A i \in 1 .. Len(short) : lhs[i] = short[Len(short) - i + 1]
  BY <1>2, ReverseSound
<1> HIDE DEF lhs, rhs
<1>7. ASSUME NEW i \in 1 .. Len(s) - 1 PROVE lhs[i] = rhs[i]
  <2>1. lhs[i] = short[Len(s) - 1 - i + 1] /\ Len(s) - 1 - i + 1 \in 1 .. Len(s) - 1
    BY <1>1, <1>2, <1>6
  <2>2. lhs[i] = s[Len(s) - i] /\ Len(s) - 1 - i + 1 = Len(s) - i
    BY <1>1, <1>2, <2>1
  <2>3. rhs[i] = s[Len(s) - (i + 1) + 1] /\ Len(s) - (i + 1) + 1 = Len(s) - i
    BY <1>1, <1>3, <1>5
  <2> QED BY <2>2, <2>3
<1>8. lhs = rhs
  <2>1. Len(lhs) = Len(rhs) /\ \A i \in 1 .. Len(lhs) : lhs[i] = rhs[i]
    BY <1>1, <1>2, <1>3, <1>5, <1>6, <1>7
  <2> QED BY <1>5, <1>6, <2>1, SeqEqual
<1> QED BY <1>4, <1>8 DEF lhs, rhs, short, back

\* Taking one out of the middle takes it out of what is read.
LEMMA ReverseRemove ==
    ASSUME NEW S, NEW s \in Seq(S), NEW i \in 1 .. Len(s)
    PROVE  Reverse(RemoveAt(s, i)) = RemoveAt(Reverse(s), Len(s) - i + 1)
<1> DEFINE n     == Len(s)
           k     == n - i + 1
           short == RemoveAt(s, i)
           back  == Reverse(s)
           lhs   == Reverse(short)
           rhs   == RemoveAt(back, k)
<1>1. n \in Nat /\ i \in 1 .. n /\ k \in 1 .. n
  BY LenProperties
<1>2. /\ short \in Seq(S) /\ Len(short) = n - 1
      /\ \A j \in 1 .. n - 1 : short[j] = IF j < i THEN s[j] ELSE s[j + 1]
  BY RemoveSound
<1>3. /\ back \in Seq(S) /\ Len(back) = n
      /\ \A j \in 1 .. n : back[j] = s[n - j + 1]
  BY ReverseSound
<1> HIDE DEF back, short
<1>4. /\ lhs \in Seq(S) /\ Len(lhs) = n - 1
      /\ \A j \in 1 .. n - 1 : lhs[j] = short[n - 1 - j + 1]
  <2>1. /\ lhs \in Seq(S) /\ Len(lhs) = Len(short)
        /\ \A j \in 1 .. Len(short) : lhs[j] = short[Len(short) - j + 1]
    BY <1>2, ReverseSound
  <2> HIDE DEF lhs, n
  <2> QED BY <1>2, <2>1
<1>5. /\ rhs \in Seq(S) /\ Len(rhs) = n - 1
      /\ \A j \in 1 .. n - 1 : rhs[j] = IF j < k THEN back[j] ELSE back[j + 1]
  <2>1. k \in 1 .. Len(back)
    BY <1>1, <1>3
  <2> HIDE DEF k, n
  <2>2. /\ rhs \in Seq(S) /\ Len(rhs) = Len(back) - 1
        /\ \A j \in 1 .. Len(back) - 1 : rhs[j] = IF j < k THEN back[j] ELSE back[j + 1]
    BY <1>3, <2>1, RemoveSound
  <2> HIDE DEF rhs
  <2> QED BY <1>3, <2>2
<1> HIDE DEF lhs, rhs, n
<1>6. ASSUME NEW j \in 1 .. n - 1 PROVE lhs[j] = rhs[j]
  <2>1. lhs[j] = short[n - j] /\ n - j \in 1 .. n - 1
    BY <1>1, <1>4
  <2>2. CASE j < k
    <3>1. lhs[j] = s[n - j + 1]
      BY <1>1, <1>2, <2>1, <2>2
    <3>2. rhs[j] = s[n - j + 1]
      BY <1>1, <1>3, <1>5, <2>2
    <3> QED BY <3>1, <3>2
  <2>3. CASE ~(j < k)
    <3>1. lhs[j] = s[n - j]
      BY <1>1, <1>2, <2>1, <2>3
    <3>2. rhs[j] = s[n - (j + 1) + 1] /\ n - (j + 1) + 1 = n - j
      BY <1>1, <1>3, <1>5, <2>3
    <3> QED BY <3>1, <3>2
  <2> QED BY <2>2, <2>3
<1>7. lhs = rhs
  <2>1. Len(lhs) = Len(rhs) /\ \A j \in 1 .. Len(lhs) : lhs[j] = rhs[j]
    BY <1>4, <1>5, <1>6
  <2> QED BY <1>4, <1>5, <2>1, SeqEqual
<1> QED BY <1>7 DEF lhs, rhs, short, back, n

(***************************************************************************)
(* The elements of a chain                                                 *)
(***************************************************************************)
\* No element is in the chain twice.
Once(s) == \A i, j \in 1 .. Len(s) : s[i] = s[j] => i = j

LEMMA InSet ==
    ASSUME NEW S, NEW s \in Seq(S)
    PROVE  /\ ToSet(s) \subseteq S /\ Len(s) \in Nat
           /\ \A i \in 1 .. Len(s) : s[i] \in ToSet(s)
           /\ \A e \in ToSet(s) : \E i \in 1 .. Len(s) : s[i] = e
<1>1. Len(s) \in Nat /\ DOMAIN s = 1 .. Len(s) /\ \A i \in 1 .. Len(s) : s[i] \in S
  BY LenProperties, ElementOfSeq
<1> QED BY <1>1 DEF ToSet

\* An element linked in front joins the others.
LEMMA PrependSet ==
    ASSUME NEW S, NEW s \in Seq(S), NEW e \in S
    PROVE  /\ ToSet(<<e>> \o s) = ToSet(s) \cup {e}
           /\ Once(s) /\ e \notin ToSet(s) => Once(<<e>> \o s)
<1> DEFINE long == <<e>> \o s
<1>1. /\ long \in Seq(S) /\ Len(long) = Len(s) + 1 /\ long[1] = e
      /\ \A i \in 2 .. Len(s) + 1 : long[i] = s[i - 1]
  BY PrependSound
<1>2. /\ Len(s) \in Nat /\ \A i \in 1 .. Len(s) : s[i] \in ToSet(s)
      /\ \A d \in ToSet(s) : \E i \in 1 .. Len(s) : s[i] = d
  BY InSet
<1> HIDE DEF long
<1>3. /\ \A i \in 1 .. Len(long) : long[i] \in ToSet(long)
      /\ \A d \in ToSet(long) : \E i \in 1 .. Len(long) : long[i] = d
  BY <1>1, InSet
<1>4. \A i \in 1 .. Len(long) : i # 1 => i - 1 \in 1 .. Len(s) /\ long[i] = s[i - 1]
  <2>1. \A i \in 1 .. Len(s) + 1 : i # 1 => i \in 2 .. Len(s) + 1 /\ i - 1 \in 1 .. Len(s)
    BY <1>2
  <2> QED BY <2>1, <1>1
<1>5. ASSUME NEW d \in ToSet(long) PROVE d \in ToSet(s) \cup {e}
  <2>1. PICK i \in 1 .. Len(long) : long[i] = d
    BY <1>3
  <2> QED BY <2>1, <1>1, <1>2, <1>4
<1>6. ASSUME NEW d \in ToSet(s) PROVE d \in ToSet(long)
  <2>1. PICK i \in 1 .. Len(s) : s[i] = d
    BY <1>2
  <2>2. i + 1 \in 1 .. Len(long) /\ i + 1 \in 2 .. Len(s) + 1 /\ i + 1 - 1 = i
    BY <1>1, <1>2
  <2>3. long[i + 1] = d
    BY <2>1, <2>2, <1>1
  <2> QED BY <2>2, <2>3, <1>3
<1>7. e \in ToSet(long)
  <2>1. 1 \in 1 .. Len(long)
    BY <1>1, <1>2
  <2> QED BY <2>1, <1>1, <1>3
<1>8. ASSUME Once(s), e \notin ToSet(s), NEW i \in 1 .. Len(long), NEW j \in 1 .. Len(long),
             long[i] = long[j]
      PROVE  i = j
  <2>1. i # 1 => long[i] # e
    BY <1>2, <1>4, <1>8
  <2>2. j # 1 => long[j] # e
    BY <1>2, <1>4, <1>8
  <2>3. CASE i # 1 /\ j # 1
    <3>1. i - 1 = j - 1
      BY <2>3, <1>4, <1>8 DEF Once
    <3> QED BY <3>1, <1>1, <1>2
  <2> QED BY <2>1, <2>2, <2>3, <1>1, <1>8
<1> QED BY <1>5, <1>6, <1>7, <1>8 DEF Once, long

\* Without the first, all the others are left.
LEMMA TailSet ==
    ASSUME NEW S, NEW s \in Seq(S), s # <<>>, Once(s)
    PROVE  /\ Head(s) \in ToSet(s)
           /\ ToSet(SubSeq(s, 2, Len(s))) = ToSet(s) \ {Head(s)}
           /\ Once(SubSeq(s, 2, Len(s)))
<1> DEFINE rest == SubSeq(s, 2, Len(s))
<1>1. /\ Len(s) \in Nat \ {0} /\ \A i \in 1 .. Len(s) : s[i] \in ToSet(s) /\ s[i] \in S
      /\ \A d \in ToSet(s) : \E i \in 1 .. Len(s) : s[i] = d
  BY InSet, EmptySeq, ElementOfSeq
<1>2. Head(s) = s[1]
  OBVIOUS
<1>3. /\ rest \in Seq(S) /\ Len(rest) = Len(s) - 1
      /\ \A j \in 1 .. Len(s) - 1 : rest[j] = s[j + 1]
  <2>1. /\ rest \in Seq(S)
        /\ Len(rest) = IF 2 <= Len(s) THEN Len(s) - 2 + 1 ELSE 0
        /\ \A j \in 1 .. Len(s) - 2 + 1 : rest[j] = s[2 + j - 1]
    BY <1>1, SubSeqProperties
  <2> HIDE DEF rest
  <2>2. Len(s) - 2 + 1 = Len(s) - 1 /\ \A j \in 1 .. Len(s) - 1 : 2 + j - 1 = j + 1
    BY <1>1
  <2>3. Len(rest) = Len(s) - 1
    <3>1. \A n \in Nat \ {0} : (IF 2 <= n THEN n - 2 + 1 ELSE 0) = n - 1
      OBVIOUS
    <3> QED BY <3>1, <2>1, <1>1
  <2>4. \A j \in 1 .. Len(s) - 1 : rest[j] = s[j + 1]
    BY <2>1, <2>2
  <2> QED BY <2>1, <2>3, <2>4
<1> HIDE DEF rest
<1>4. /\ \A i \in 1 .. Len(rest) : rest[i] \in ToSet(rest)
      /\ \A d \in ToSet(rest) : \E i \in 1 .. Len(rest) : rest[i] = d
  BY <1>3, InSet
<1>5. \A j \in 1 .. Len(rest) : j + 1 \in 1 .. Len(s) /\ j + 1 # 1 /\ rest[j] = s[j + 1]
  BY <1>1, <1>3
<1>6. 1 \in 1 .. Len(s)
  BY <1>1
<1>7. ASSUME NEW d \in ToSet(rest) PROVE d \in ToSet(s) \ {s[1]}
  <2>1. PICK j \in 1 .. Len(rest) : rest[j] = d
    BY <1>4
  <2>2. j + 1 \in 1 .. Len(s) /\ j + 1 # 1 /\ d = s[j + 1]
    BY <2>1, <1>5
  <2> QED BY <2>2, <1>1, <1>6 DEF Once
<1>8. ASSUME NEW d \in ToSet(s) \ {s[1]} PROVE d \in ToSet(rest)
  <2>1. PICK i \in 1 .. Len(s) : s[i] = d
    BY <1>1
  <2>2. i - 1 \in 1 .. Len(rest) /\ i - 1 \in 1 .. Len(s) - 1 /\ i - 1 + 1 = i
    BY <2>1, <1>1, <1>3, <1>8
  <2>3. rest[i - 1] = d
    BY <2>1, <2>2, <1>3
  <2> QED BY <2>2, <2>3, <1>4
<1>9. ASSUME NEW i \in 1 .. Len(rest), NEW j \in 1 .. Len(rest), rest[i] = rest[j] PROVE i = j
  <2>1. i + 1 = j + 1
    BY <1>5, <1>9 DEF Once
  <2> QED BY <2>1
<1> QED BY <1>1, <1>2, <1>6, <1>7, <1>8, <1>9 DEF Once, rest

(***************************************************************************)
(* Chains of chains.  The recursive function in FlattenSeq exists, which   *)
(* is shown by growing it one place at a time.                             *)
(***************************************************************************)
\* f[i] is what the first i sequences of s make together.
SumAt(s, f, i)  == IF i = 1 THEN s[i] ELSE f[i - 1] \o s[i]
Sums(s, n, f) == f = [i \in 1 .. n |-> SumAt(s, f, i)]

LEMMA SumStep ==
    ASSUME NEW s, NEW f, NEW i \in Nat
    PROVE  SumAt(s, f, i + 1) = IF i = 0 THEN s[i + 1] ELSE f[i] \o s[i + 1]
BY DEF SumAt

LEMMA SumsExist ==
    ASSUME NEW s
    PROVE  \A n \in Nat : \E f : Sums(s, n, f)
<1> DEFINE T == {n \in Nat : \E f : Sums(s, n, f)}
<1>1. 0 \in T
  <2>1. Sums(s, 0, <<>>)
    BY DEF Sums
  <2> QED BY <2>1
<1>2. ASSUME NEW n \in Nat, n \in T PROVE n + 1 \in T
  <2>1. PICK f : Sums(s, n, f)
    BY <1>2
  <2> DEFINE g == [i \in 1 .. n + 1 |-> IF i <= n THEN f[i] ELSE SumAt(s, f, i)]
  <2>2. \A i \in 1 .. n : f[i] = SumAt(s, f, i)
    BY <2>1, Zenon DEF Sums
  <2>3. ASSUME NEW i \in 1 .. n + 1 PROVE g[i] = SumAt(s, g, i)
    <3>1. g[i] = SumAt(s, f, i)
      BY <2>2
    <3>2. i # 1 => g[i - 1] = f[i - 1]
      OBVIOUS
    <3> HIDE DEF g
    <3> QED BY <3>1, <3>2 DEF SumAt
  <2>4. g = [i \in 1 .. n + 1 |-> g[i]]
    OBVIOUS
  <2> HIDE DEF g
  <2>5. Sums(s, n + 1, g)
    BY <2>3, <2>4, Zenon DEF Sums
  <2>6. \E h : Sums(s, n + 1, h)
    BY <2>5
  <2> QED BY <2>6
<1> HIDE DEF T
<1>3. \A n \in Nat : n \in T
  BY <1>1, <1>2, NatGrows
<1> QED BY <1>3 DEF T

LEMMA FlattenIsSum ==
    ASSUME NEW s, Len(s) \in Nat, Len(s) # 0
    PROVE  \E f : Sums(s, Len(s), f) /\ FlattenSeq(s) = f[Len(s)]
<1> DEFINE g == CHOOSE f : Sums(s, Len(s), f)
<1>1. Sums(s, Len(s), g)
  BY SumsExist
<1>2. FlattenSeq(s) = g[Len(s)]
  BY Zenon DEF FlattenSeq, Sums, SumAt
<1> QED BY <1>1, <1>2

Alike(s, t, n) == \A i \in 1 .. n : s[i] = t[i]

\* Sequences that begin alike have the same sums as far as they are alike.
LEMMA SumsAgree ==
    ASSUME NEW n \in Nat, NEW s, NEW f, Sums(s, n, f), NEW t, NEW g, Sums(t, n + 1, g),
           Alike(s, t, n)
    PROVE  Alike(f, g, n)
<1> DEFINE T == {i \in Nat : i \in 1 .. n => f[i] = g[i]}
<1>1. 0 \in T
  OBVIOUS
<1>2. ASSUME NEW i \in Nat, i \in T PROVE i + 1 \in T
  <2> SUFFICES ASSUME i + 1 \in 1 .. n PROVE f[i + 1] = g[i + 1]
    OBVIOUS
  <2>1. i + 1 \in 1 .. n /\ i + 1 \in 1 .. n + 1 /\ s[i + 1] = t[i + 1]
    BY DEF Alike
  <2>2. f[i + 1] = SumAt(s, f, i + 1) /\ g[i + 1] = SumAt(t, g, i + 1)
    BY <2>1, Zenon DEF Sums
  <2>3. i # 0 => f[i] = g[i]
    BY <1>2
  <2> HIDE DEF T
  <2>5. SumAt(s, f, i + 1) = IF i = 0 THEN s[i + 1] ELSE f[i] \o s[i + 1]
    BY SumStep
  <2>6. SumAt(t, g, i + 1) = IF i = 0 THEN t[i + 1] ELSE g[i] \o t[i + 1]
    BY SumStep
  <2> QED BY <2>1, <2>2, <2>3, <2>5, <2>6
<1> HIDE DEF T
<1>3. \A i \in Nat : i \in T
  BY <1>1, <1>2, NatGrows
<1> QED BY <1>3 DEF T, Alike

LEMMA FlattenAppend ==
    ASSUME NEW S, NEW s \in Seq(Seq(S)), NEW e \in Seq(S)
    PROVE  Len(s) # 0 => FlattenSeq(Append(s, e)) = FlattenSeq(s) \o e
<1> SUFFICES ASSUME Len(s) # 0 PROVE FlattenSeq(Append(s, e)) = FlattenSeq(s) \o e
  OBVIOUS
<1> DEFINE l == Append(s, e)
           n == Len(s)
<1>1. n \in Nat /\ Len(l) = n + 1 /\ l[n + 1] = e /\ \A i \in 1 .. n : s[i] = l[i]
  BY AppendProperties, LenProperties
<1>2. PICK f : Sums(s, n, f) /\ FlattenSeq(s) = f[n]
  BY <1>1, FlattenIsSum
<1>3. PICK g : Sums(l, n + 1, g) /\ FlattenSeq(l) = g[n + 1]
  <2>1. Len(l) \in Nat /\ Len(l) # 0
    BY <1>1
  <2>2. \E g : Sums(l, Len(l), g) /\ FlattenSeq(l) = g[Len(l)]
    BY <2>1, FlattenIsSum, Zenon
  <2> QED BY <1>1, <2>2, Zenon
<1>4. Alike(f, g, n)
  <2> HIDE DEF l, n
  <2>2. n \in Nat /\ Sums(s, n, f) /\ Sums(l, n + 1, g)
    BY <1>1, <1>2, <1>3
  <2>3. Alike(s, l, n)
    BY <1>1 DEF Alike
  <2> QED BY <2>2, <2>3, SumsAgree
<1>5. g[n + 1] = SumAt(l, g, n + 1)
  <2>1. n + 1 \in 1 .. n + 1
    BY <1>1
  <2> QED BY <1>3, <2>1, Zenon DEF Sums
<1>6. n \in Nat /\ n \in 1 .. n /\ n + 1 # 1 /\ n + 1 - 1 = n
  BY <1>1
<1>7. g[n + 1] = g[n] \o e
  <2>1. l[n + 1] = e
    BY <1>1
  <2>2. SumAt(l, g, n + 1) = g[n] \o l[n + 1]
    BY <1>6, SumStep
  <2> HIDE DEF l, n
  <2> QED BY <2>1, <2>2, <1>5, <1>6
<1> QED BY <1>2, <1>3, <1>4, <1>6, <1>7 DEF Alike

LEMMA FlattenFew ==
    ASSUME NEW S, NEW e \in Seq(S)
    PROVE  FlattenSeq(<<>>) = <<>> /\ FlattenSeq(<<e>>) = e
<1>1. FlattenSeq(<<>>) = <<>>
  BY Zenon, EmptySeq DEF FlattenSeq
<1>2. Len(<<e>>) = 1 /\ <<e>>[1] = e
  OBVIOUS
<1>3. PICK f : Sums(<<e>>, 1, f) /\ FlattenSeq(<<e>>) = f[1]
  <2>1. Len(<<e>>) \in Nat /\ Len(<<e>>) # 0
    BY <1>2
  <2>2. \E f : Sums(<<e>>, Len(<<e>>), f) /\ FlattenSeq(<<e>>) = f[Len(<<e>>)]
    BY <2>1, FlattenIsSum, Zenon
  <2> QED BY <1>2, <2>2, Zenon
<1>4. f[1] = SumAt(<<e>>, f, 1)
  <2>1. 1 \in 1 .. 1
    OBVIOUS
  <2> QED BY <1>3, <2>1, Zenon DEF Sums
<1> QED BY <1>1, <1>2, <1>3, <1>4, Zenon DEF SumAt

\* The last sequence comes last, and nothing is made of no sequence.
LEMMA FlattenStep ==
    ASSUME NEW S, NEW s \in Seq(Seq(S)), NEW e \in Seq(S)
    PROVE  FlattenSeq(Append(s, e)) = FlattenSeq(s) \o e
<1>1. CASE Len(s) = 0
  <2>1. s = <<>>
    BY <1>1, EmptySeq
  <2>2. Append(s, e) = <<e>>
    BY <2>1
  <2>3. <<>> \o e = e
    BY ConcatEmptySeq
  <2> QED BY <2>1, <2>2, <2>3, FlattenFew
<1> QED BY <1>1, FlattenAppend


\* What a chain of two chains makes is what the first makes and what the second makes.
LEMMA FlattenConcat ==
    ASSUME NEW S, NEW s \in Seq(Seq(S)), NEW t \in Seq(Seq(S))
    PROVE  /\ FlattenSeq(s) \in Seq(S) /\ FlattenSeq(t) \in Seq(S)
           /\ FlattenSeq(s \o t) = FlattenSeq(s) \o FlattenSeq(t)
<1> DEFINE Q == Seq(Seq(S))
           T == {n \in Nat : \A u \in Q : Len(u) = n => FlattenSeq(u) \in Seq(S)}
           U == {n \in Nat : \A u \in Q : Len(u) = n =>
                               FlattenSeq(s \o u) = FlattenSeq(s) \o FlattenSeq(u)}
<1>1. \A u \in Q : Len(u) \in Nat
  BY LenProperties
<1>2. \A u \in Q : \A n \in Nat : Len(u) = n + 1 => \E v \in Q, e \in Seq(S) : u = Append(v, e) /\ Len(v) = n
  <2> SUFFICES ASSUME NEW u \in Q, NEW n \in Nat, Len(u) = n + 1
               PROVE  \E v \in Q, e \in Seq(S) : u = Append(v, e) /\ Len(v) = n
    OBVIOUS
  <2>1. u # <<>>
    BY EmptySeq
  <2>2. PICK v \in Q, e \in Seq(S) : u = Append(v, e)
    BY <2>1, SequenceEmptyOrAppend
  <2>3. Len(u) = Len(v) + 1 /\ Len(v) \in Nat
    BY <2>2, AppendProperties, LenProperties
  <2>4. Len(v) = n
    BY <2>3
  <2> HIDE DEF Q
  <2> QED BY <2>2, <2>4
<1>3. \A u \in Q : Len(u) = 0 => u = <<>>
  BY EmptySeq
<1>4. FlattenSeq(<<>>) = <<>> /\ <<>> \in Seq(S)
  BY FlattenFew, EmptySeq
<1>5. \A n \in Nat : n \in T
  <2>1. 0 \in T
    BY <1>3, <1>4
  <2>2. ASSUME NEW n \in Nat, n \in T PROVE n + 1 \in T
    <3> SUFFICES ASSUME NEW u \in Q, Len(u) = n + 1 PROVE FlattenSeq(u) \in Seq(S)
      OBVIOUS
    <3>1. PICK v \in Q, e \in Seq(S) : u = Append(v, e) /\ Len(v) = n
      BY <1>2
    <3>2. FlattenSeq(v) \in Seq(S)
      BY <2>2, <3>1
    <3>3. FlattenSeq(u) = FlattenSeq(v) \o e
      BY <3>1, FlattenStep
    <3> QED BY <3>2, <3>3, ConcatProperties
  <2> HIDE DEF T
  <2> QED BY <2>1, <2>2, NatGrows
<1>6. \A u \in Q : FlattenSeq(u) \in Seq(S)
  BY <1>1, <1>5
<1>7. \A n \in Nat : n \in U
  <2>1. 0 \in U
    <3>1. s \o <<>> = s /\ FlattenSeq(s) \o <<>> = FlattenSeq(s)
      BY <1>6, ConcatEmptySeq
    <3> QED BY <1>3, <1>4, <3>1
  <2>2. ASSUME NEW n \in Nat, n \in U PROVE n + 1 \in U
    <3> SUFFICES ASSUME NEW u \in Q, Len(u) = n + 1
                 PROVE  FlattenSeq(s \o u) = FlattenSeq(s) \o FlattenSeq(u)
      OBVIOUS
    <3>1. PICK v \in Q, e \in Seq(S) : u = Append(v, e) /\ Len(v) = n
      BY <1>2
    <3>2. FlattenSeq(s \o v) = FlattenSeq(s) \o FlattenSeq(v)
      BY <2>2, <3>1
    <3>3. s \o v \in Q /\ s \o u = Append(s \o v, e)
      <4>1. /\ Append(v, e) = v \o <<e>> /\ <<e>> \in Q /\ s \o v \in Q
            /\ Append(s \o v, e) = (s \o v) \o <<e>>
        BY ConcatProperties, AppendIsConcat
      <4> QED BY <3>1, <4>1, ConcatAssociative
    <3>4. FlattenSeq(u) = FlattenSeq(v) \o e /\ FlattenSeq(s \o u) = FlattenSeq(s \o v) \o e
      BY <3>1, <3>3, FlattenStep
    <3>5. (FlattenSeq(s) \o FlattenSeq(v)) \o e = FlattenSeq(s) \o (FlattenSeq(v) \o e)
      <4>1. FlattenSeq(s) \in Seq(S) /\ FlattenSeq(v) \in Seq(S) /\ e \in Seq(S)
        BY <1>6
      <4>2. PICK a \in Seq(S), b \in Seq(S) : a = FlattenSeq(s) /\ b = FlattenSeq(v)
        BY <4>1
      <4>3. (a \o b) \o e = a \o (b \o e)
        BY ConcatAssociative, SMTT(20)
      <4> QED BY <4>2, <4>3
    <3> QED BY <3>2, <3>4, <3>5
  <2> HIDE DEF U
  <2> QED BY <2>1, <2>2, NatGrows
<1> QED BY <1>1, <1>6, <1>7

(***************************************************************************)
(* What is left behind a place of two chains, or of three                  *)
(***************************************************************************)
LEMMA CutFirst ==
    ASSUME NEW S, NEW r \in Seq(S), NEW f \in Seq(S), NEW n \in 0 .. Len(r)
    PROVE  SubSeq(r \o f, n + 1, Len(r \o f)) = SubSeq(r, n + 1, Len(r)) \o f
<1> DEFINE d == r \o f
           x == SubSeq(r, n + 1, Len(r))
           lhs == SubSeq(d, n + 1, Len(d))
           rhs == x \o f
<1>1. Len(r) \in Nat /\ Len(f) \in Nat /\ \A i \in 1 .. Len(r) : r[i] \in S
  BY LenProperties, ElementOfSeq
<1>2. /\ d \in Seq(S) /\ Len(d) = Len(r) + Len(f)
      /\ \A i \in 1 .. Len(r) + Len(f) : d[i] = IF i <= Len(r) THEN r[i] ELSE f[i - Len(r)]
  BY ConcatProperties
<1>3. /\ x \in Seq(S) /\ Len(x) = Len(r) - n
      /\ \A i \in 1 .. Len(r) - n : x[i] = r[n + i]
  <2>1. n + 1 \in Int /\ Len(r) \in Int /\ \A i \in n + 1 .. Len(r) : r[i] \in S
    BY <1>1
  <2>2. /\ x \in Seq(S) /\ Len(x) = IF n + 1 <= Len(r) THEN Len(r) - (n + 1) + 1 ELSE 0
        /\ \A i \in 1 .. Len(r) - (n + 1) + 1 : x[i] = r[n + 1 + i - 1]
    BY <2>1, SubSeqProperties
  <2> HIDE DEF x
  <2> QED BY <2>2, <1>1
<1>4. /\ lhs \in Seq(S) /\ Len(lhs) = Len(d) - n
      /\ \A i \in 1 .. Len(d) - n : lhs[i] = d[n + i]
  <2> HIDE DEF d
  <2>1. n + 1 \in Int /\ Len(d) \in Int /\ \A i \in n + 1 .. Len(d) : d[i] \in S
    BY <1>1, <1>2, ElementOfSeq
  <2>2. /\ lhs \in Seq(S) /\ Len(lhs) = IF n + 1 <= Len(d) THEN Len(d) - (n + 1) + 1 ELSE 0
        /\ \A i \in 1 .. Len(d) - (n + 1) + 1 : lhs[i] = d[n + 1 + i - 1]
    BY <2>1, SubSeqProperties
  <2>3. n \in Nat /\ Len(d) \in Nat /\ n <= Len(d)
    BY <1>1, <1>2
  <2> HIDE DEF lhs
  <2> QED BY <2>2, <2>3
<1> HIDE DEF x
<1>5. /\ rhs \in Seq(S) /\ Len(rhs) = Len(x) + Len(f)
      /\ \A i \in 1 .. Len(x) + Len(f) : rhs[i] = IF i <= Len(x) THEN x[i] ELSE f[i - Len(x)]
  BY <1>3, ConcatProperties
<1> HIDE DEF d, lhs, rhs
<1>6. Len(lhs) = Len(rhs) /\ \A i \in 1 .. Len(lhs) : lhs[i] = rhs[i]
  <2>1. Len(lhs) = Len(rhs)
    BY <1>1, <1>2, <1>3, <1>4, <1>5
  <2>2. ASSUME NEW i \in 1 .. Len(lhs) PROVE lhs[i] = rhs[i]
    <3>1. lhs[i] = d[n + i] /\ n + i \in 1 .. Len(r) + Len(f)
      BY <1>1, <1>2, <1>4
    <3>2. CASE n + i <= Len(r)
      BY <3>1, <3>2, <1>1, <1>2, <1>3, <1>5
    <3>3. CASE ~(n + i <= Len(r))
      <4>1. rhs[i] = f[i - Len(x)] /\ i - Len(x) = n + i - Len(r)
        BY <3>1, <3>3, <1>1, <1>2, <1>3, <1>4, <1>5
      <4>2. PICK j : j = n + i
        OBVIOUS
      <4>3. d[j] = f[j - Len(r)]
        BY <1>2, <3>1, <3>3, <4>2
      <4> QED BY <3>1, <4>1, <4>2, <4>3
    <3> QED BY <3>2, <3>3
  <2> QED BY <2>1, <2>2
<1>7. lhs = rhs
  BY <1>4, <1>5, <1>6, SeqEqual
<1> QED BY <1>7 DEF lhs, rhs, d, x

LEMMA CutSecond ==
    ASSUME NEW S, NEW p \in Seq(S), NEW x \in Seq(S), NEW n \in 0 .. Len(x)
    PROVE  SubSeq(p \o x, Len(p) + n + 1, Len(p \o x)) = SubSeq(x, n + 1, Len(x))
<1>1. /\ Len(p) \in Nat /\ Len(x) \in Nat /\ p \o x \in Seq(S)
      /\ Len(p \o x) = Len(p) + Len(x)
  BY LenProperties, ConcatProperties
<1>2. CASE n < Len(x)
  <2>1. /\ Len(p) + n + 1 \in Len(p) + 1 .. Len(p) + Len(x)
        /\ Len(p) + Len(x) \in Len(p) + 1 .. Len(p) + Len(x)
        /\ Len(p) + n + 1 - Len(p) = n + 1 /\ Len(p) + Len(x) - Len(p) = Len(x)
    BY <1>1, <1>2
  <2>2. SubSeq(p \o x, Len(p) + n + 1, Len(p) + Len(x))
          = SubSeq(x, Len(p) + n + 1 - Len(p), Len(p) + Len(x) - Len(p))
    BY <2>1, SubSeqOfConcat2
  <2> QED BY <1>1, <2>1, <2>2
<1>3. CASE n = Len(x)
  <2>1. SubSeq(p \o x, Len(p) + n + 1, Len(p \o x)) = <<>>
    BY <1>1, <1>3, SubSeqEmpty
  <2>2. SubSeq(x, n + 1, Len(x)) = <<>>
    BY <1>1, <1>3, SubSeqEmpty
  <2> QED BY <2>1, <2>2
<1> QED BY <1>1, <1>2, <1>3

LEMMA CutFront ==
    ASSUME NEW S, NEW r \in Seq(S), NEW f \in Seq(S), NEW n \in 0 .. Len(r)
    PROVE  /\ SubSeq(r \o f, 1, n) = SubSeq(r, 1, n)
           /\ SubSeq(r, 1, n) \in Seq(S) /\ Len(SubSeq(r, 1, n)) = n
<1>1. Len(r) \in Nat /\ \A i \in 1 .. n : r[i] \in S
  BY LenProperties, ElementOfSeq
<1>2. SubSeq(r, 1, n) \in Seq(S) /\ Len(SubSeq(r, 1, n)) = n
  BY <1>1, SubSeqProperties
<1>3. CASE n = 0
  BY <1>3, SubSeqEmpty
<1>4. CASE n # 0
  <2>1. 1 \in 1 .. Len(r) /\ n \in 1 .. Len(r)
    BY <1>1, <1>4
  <2> QED BY <1>2, <2>1, SubSeqOfConcat1
<1> QED BY <1>2, <1>3, <1>4
=============================================================================
