---------------------------- MODULE KernelProofs ----------------------------
(***************************************************************************)
(* Proofs about what the kernel does of itself: the pseudo-thread and the  *)
(* clock it moves, the life of a datagram, fragmentation and reassembly.   *)
(* For every call delay and every depth of nesting, the thread never loses *)
(* the registers of what it interrupted, and its semaphore is set exactly  *)
(* while it works.  For every ttl, header, time of day and waiting time    *)
(* within the half day the kernel's clock arithmetic covers, a datagram's  *)
(* life is measured truly across midnight, and what leaves the host        *)
(* carries a correct checksum unless it was sent with the largest ttl of   *)
(* all.  For every length, mtu and mixture of datagrams, reassembly never  *)
(* writes behind its buffer, and in a network that delivers each fragment  *)
(* in order it hands on what was sent, and never waits for what has come.  *)
(***************************************************************************)
EXTENDS DgramLife, Thread, Fragm, SequenceLemmas, TLAPS

(***************************************************************************)
(* The pseudo-thread (Thread)                                              *)
(***************************************************************************)
LEMMA ThreadInitInv == ThreadInit => ThreadInv
<1> SUFFICES ASSUME ThreadInit PROVE ThreadInv
  OBVIOUS
<1>1. Len(work) = 0 /\ work \in Seq(Phases)
  BY DEF ThreadInit
<1>2. 1 \in 1 .. CleanPeriod /\ 0 \in 0 .. MaxDepth /\ 0 <= MaxDepth
  BY CleanPeriodAssumption, MaxDepthAssumption
     DEF CleanPeriodAssumption, MaxDepthAssumption
<1>3. ThreadTypes
  <2>1. /\ active \in BOOLEAN /\ tm_sema \in BOOLEAN /\ tm_busy \in BOOLEAN
        /\ tm_exec \subseteq {0, 1}
    BY Zenon DEF ThreadInit
  <2>2. fraction \in Fractions /\ traffic = 1 /\ cleaning = 1 /\ cpu_state = 0
    BY DEF ThreadInit
  <2> QED BY <1>1, <1>2, <2>1, <2>2 DEF ThreadTypes, Depth
<1>4. Depth = 0
  BY <1>1 DEF Depth
<1> QED BY <1>3, <1>4 DEF ThreadInit, ThreadInv

\* A step that moves the innermost activation on leaves the others alone.
LEMMA GotoSound ==
    ASSUME ThreadTypes, NEW phase, At(phase), NEW next \in Phases, Goto(next)
    PROVE  /\ work' \in Seq(Phases)
           /\ Len(work') = Len(work)
           /\ work'[Len(work)] = next
           /\ \A d \in 1 .. Len(work) - 1 : work'[d] = work[d]
BY DEF ThreadTypes, At, Goto, Depth

LEMMA PopSound ==
    ASSUME NEW S, NEW s \in Seq(S), Len(s) > 0
    PROVE  /\ SubSeq(s, 1, Len(s) - 1) \in Seq(S)
           /\ Len(SubSeq(s, 1, Len(s) - 1)) = Len(s) - 1
           /\ \A d \in 1 .. Len(s) - 1 : SubSeq(s, 1, Len(s) - 1)[d] = s[d]
<1> DEFINE t == SubSeq(s, 1, Len(s) - 1)
<1>1. Len(s) \in Nat /\ \A i \in 1 .. Len(s) - 1 : s[i] \in S
  OBVIOUS
<1>2. t \in Seq(S)
  BY <1>1, SubSeqProperties
<1>3. Len(t) = Len(s) - 1
  <2> DEFINE n == Len(s) - 1
  <2>1. n \in Nat
    BY <1>1
  <2>2. \A i \in 1 .. n : s[i] \in S
    BY <1>1
  <2> HIDE DEF n
  <2>3. Len(SubSeq(s, 1, n)) = IF 1 <= n THEN n - 1 + 1 ELSE 0
    BY <2>1, <2>2, SubSeqProperties
  <2>4. Len(SubSeq(s, 1, n)) = n
    BY <2>1, <2>3
  <2> QED BY <2>4 DEF n
<1>4. \A d \in 1 .. Len(s) - 1 : t[d] = s[d]
  BY <1>1
<1> QED BY <1>2, <1>3, <1>4

LEMMA ThreadInvSound == ThreadInv => RegistersIntact /\ SemaphoreTellsWork
<1> SUFFICES ASSUME ThreadInv PROVE RegistersIntact /\ SemaphoreTellsWork
  OBVIOUS
<1>1. Depth \in Nat
  BY DEF ThreadInv, ThreadTypes, Depth
<1>2. \A d \in 1 .. Depth : d < Depth => work[d] = "rte"
  BY <1>1 DEF ThreadInv
<1>3. RegistersIntact
  BY <1>1, <1>2 DEF ThreadInv, RegistersIntact, Unfinished
<1>4. SemaphoreTellsWork
  BY <1>1, <1>2 DEF ThreadInv, SemaphoreTellsWork
<1> QED BY <1>3, <1>4

LEMMA CountDownType == ThreadTypes /\ CountDown => traffic' \in Nat \ {0} /\ cleaning' \in 1 .. CleanPeriod
BY FractionsAssumption, CleanPeriodAssumption
   DEF FractionsAssumption, CleanPeriodAssumption, ThreadTypes, CountDown

LEMMA ThreadNextInv == ThreadInv /\ [ThreadNext]_thread_vars => ThreadInv'
<1> SUFFICES ASSUME ThreadInv, [ThreadNext]_thread_vars PROVE ThreadInv'
  OBVIOUS
<1> USE DEF Depth
<1>0. /\ Len(work) \in Nat
      /\ ThreadTypes
  BY DEF ThreadInv, ThreadTypes
<1>1. ASSUME NEW on \in BOOLEAN, NEW delay \in Fractions, set_sysvars(on, delay)
      PROVE  ThreadInv'
  BY <1>1 DEF ThreadInv, ThreadTypes, set_sysvars
<1>2. CASE Lazy
  BY <1>2, CountDownType DEF ThreadInv, ThreadTypes, Lazy, Due
<1>3. ASSUME NEW level \in Levels, Stale(level)
      PROVE  ThreadInv'
  BY <1>3, CountDownType DEF ThreadInv, ThreadTypes, Stale, Due
<1>4. ASSUME NEW level \in Levels, here_we_go(level)
      PROVE  ThreadInv'
  <2>1. /\ work' \in Seq(Phases)
        /\ Len(work') = Len(work) + 1
        /\ work'[Len(work) + 1] = "testPoll"
        /\ \A d \in 1 .. Len(work) : work'[d] = work[d]
    BY <1>4 DEF ThreadInv, ThreadTypes, here_we_go, Phases
  <2>2. \A d \in 1 .. Len(work) : work[d] = "rte"
    BY <1>0, <1>4 DEF ThreadInv, here_we_go
  <2>3. ThreadTypes'
    BY <1>4, <2>1, CountDownType, MaxDepthAssumption DEF ThreadInv, ThreadTypes, here_we_go, Due
  <2> QED BY <1>0, <1>4, <2>1, <2>2, <2>3 DEF ThreadInv, here_we_go, Unfinished
<1>5. ASSUME NEW phase \in Phases, NEW bit \in {0, 1},
             NEW yes \in Phases \ {"rte"}, NEW no \in Phases \ {"rte"},
             phase \in {"testPoll", "testClean"}, TestBit(phase, bit, yes, no)
      PROVE  ThreadInv'
  <2> DEFINE next == IF bit \in tm_exec THEN yes ELSE no
  <2>1. /\ work' \in Seq(Phases)
        /\ Len(work') = Len(work)
        /\ work'[Len(work)] = next
        /\ \A d \in 1 .. Len(work) - 1 : work'[d] = work[d]
    BY <1>0, <1>5, GotoSound DEF TestBit
  <2>2. ThreadTypes'
    BY <1>5, <2>1 DEF ThreadInv, ThreadTypes, TestBit, counters
  <2> QED BY <1>0, <1>5, <2>1, <2>2 DEF ThreadInv, TestBit, At, Unfinished, counters
<1>6. ASSUME NEW phase \in Unfinished, NEW next \in Phases \ {"rte"}, Pass(phase, next)
      PROVE  ThreadInv'
  <2>1. /\ work' \in Seq(Phases)
        /\ Len(work') = Len(work)
        /\ work'[Len(work)] = next
        /\ \A d \in 1 .. Len(work) - 1 : work'[d] = work[d]
    BY <1>0, <1>6, GotoSound DEF Pass
  <2>2. ThreadTypes'
    BY <1>6, <2>1 DEF ThreadInv, ThreadTypes, Pass, counters
  <2> QED BY <1>0, <1>6, <2>1, <2>2 DEF ThreadInv, Pass, At, Unfinished, counters
<1>7. CASE keep_going
  BY <1>5, <1>6, <1>7 DEF keep_going, Phases, Unfinished
<1>8. CASE release
  <2>1. /\ work' \in Seq(Phases)
        /\ Len(work') = Len(work)
        /\ work'[Len(work)] = "rte"
        /\ \A d \in 1 .. Len(work) - 1 : work'[d] = work[d]
    BY <1>0, <1>8, GotoSound DEF release, Phases
  <2>2. ThreadTypes'
    BY <1>8, <2>1 DEF ThreadInv, ThreadTypes, release, counters
  <2> QED BY <1>0, <1>8, <2>1, <2>2 DEF ThreadInv, release, At, Unfinished, counters
<1>9. CASE rte
  <2>1. /\ Len(work) > 0
        /\ work' \in Seq(Phases)
        /\ Len(work') = Len(work) - 1
        /\ \A d \in 1 .. Len(work) - 1 : work'[d] = work[d]
    <3>1. /\ Len(work) > 0
          /\ work' = SubSeq(work, 1, Len(work) - 1)
          /\ \A i \in 1 .. Len(work) - 1 : work[i] \in Phases
      BY <1>9 DEF ThreadInv, ThreadTypes, rte, At
    <3> QED BY <1>0, <3>1, PopSound DEF ThreadTypes
  <2>2. ThreadTypes'
    <3>1. Len(work') <= MaxDepth
      BY <1>0, <2>1, MaxDepthAssumption DEF ThreadTypes, MaxDepthAssumption
    <3> QED BY <1>0, <1>9, <2>1, <3>1 DEF ThreadTypes, rte, counters
  <2>3. \A d \in 1 .. Len(work') : work'[d] = "rte"
    BY <1>0, <1>9, <2>1 DEF ThreadInv
  <2> QED BY <1>0, <1>9, <2>1, <2>2, <2>3 DEF ThreadInv, rte, At, Unfinished, counters
<1>10. CASE UNCHANGED thread_vars
  BY <1>10 DEF ThreadInv, ThreadTypes, thread_vars
<1> QED
  BY <1>1, <1>2, <1>3, <1>4, <1>7, <1>8, <1>9, <1>10 DEF ThreadNext, my_200_Hz, Work

\* Every variable of the thread keeps its type.
THEOREM ThreadTypeOK == ThreadSpec => []ThreadTypes
<1>1. ThreadInv => ThreadTypes
  BY DEF ThreadInv
<1> QED BY <1>1, ThreadInitInv, ThreadNextInv, PTL DEF ThreadSpec

\* cpu_state, the one place for the registers, is never overwritten by a tick
\* that arrives while they are still needed: my_200_Hz with keep_going.
THEOREM RegistersStayIntact == ThreadSpec => []RegistersIntact
BY ThreadInitInv, ThreadNextInv, ThreadInvSound, PTL DEF ThreadSpec

\* tm_sema is set exactly while an activation works, between here_we_go and
\* the clr.w before rte.
THEOREM SemaphoreIsTrue == ThreadSpec => []SemaphoreTellsWork
BY ThreadInitInv, ThreadNextInv, ThreadInvSound, PTL DEF ThreadSpec

(***************************************************************************)
(* The life of a datagram (DgramLife)                                      *)
(***************************************************************************)
(***************************************************************************)
(* Arithmetic of the clock and of the checksum                             *)
(***************************************************************************)

\* check_sequence tells the distance of two moments less than half a day apart.
LEMMA CheckSequenceExact ==
    ASSUME NEW t \in 0 .. MAX_CLOCK - 1, NEW a \in Nat, NEW b \in Nat,
           a < MAX_CLOCK, b < MAX_CLOCK,
           a - b < MAX_CLOCK \div 2, b - a < MAX_CLOCK \div 2
    PROVE  check_sequence(Wrap(t + a), Wrap(t + b)) = b - a
BY ClockAssumption, SMTT(30) DEF ClockAssumption, check_sequence, Wrap

\* TIMER_elapsed measures less than a day across midnight.
LEMMA ElapsedExact ==
    ASSUME NEW t \in 0 .. MAX_CLOCK - 1, NEW a \in Nat, a < MAX_CLOCK,
           sting_clock = Wrap(t + a)
    PROVE  TIMER_elapsed(t) = a
BY ClockAssumption, SMT DEF ClockAssumption, TIMER_elapsed, Wrap

LEMMA WordSize == MAXWORD \in Nat \ {0} /\ MAXWORD > 1000
BY SMTT(30) DEF MAXWORD

\* The largest word is congruent to zero: what ones' complement sums rest on.
LEMMA Multiple ==
    ASSUME NEW m \in Nat \ {0}, NEW k \in Int
    PROVE  (m * k) % m = 0
BY SMT
LEMMA QuotientAndRest ==
    ASSUME NEW m \in Nat \ {0}, NEW x \in Int
    PROVE  /\ x \div m \in Int /\ x % m \in 0 .. m - 1
           /\ x = m * (x \div m) + (x % m)
BY SMTT(30)
LEMMA OneLess ==
    ASSUME NEW m \in Nat \ {0}, NEW x \in Int, x % m = 0
    PROVE  (x - m) % m = 0
<1> DEFINE k == x \div m
<1>1. k \in Int /\ x = m * k
  BY QuotientAndRest, SMT
<1> HIDE DEF k
<1>2. x - m = m * (k - 1)
  BY <1>1, SMT
<1> QED BY <1>1, <1>2, Multiple, SMT

\* A computed checksum is correct.
LEMMA CheckSumCorrect ==
    ASSUME NEW t \in 0 .. 255, NEW others \in Nat \ {0}
    PROVE  /\ check_sum(t, others) \in 0 .. MAXWORD
           /\ Correct(t, others, check_sum(t, others))
<1> DEFINE s == t * 256 + others
           r == (s - 1) % MAXWORD
           k == (s - 1) \div MAXWORD
           c == MAXWORD - (1 + r)
<1>1. s \in Nat
  BY SMT
<1> HIDE DEF s
<1>2. r \in 0 .. MAXWORD - 1 /\ k \in Int /\ s - 1 = MAXWORD * k + r
  BY <1>1, WordSize, QuotientAndRest, SMT
<1>3. check_sum(t, others) = c
  BY SMT DEF check_sum, s
<1> HIDE DEF r, k
<1>4. s + c = MAXWORD * (k + 1)
  BY <1>1, <1>2, WordSize, SMT
<1>5. (s + c) % MAXWORD = 0
  BY <1>2, <1>4, WordSize, Multiple, SMT
<1>6. c \in 0 .. MAXWORD
  BY <1>2, WordSize, SMT
<1> HIDE DEF c
<1>7. Correct(t, others, c)
  BY <1>5, SMT DEF Correct, s
<1> QED BY <1>3, <1>6, <1>7, SMT

\* Lowering the ttl by one and adding 0x100 to the checksum, with the carry,
\* keeps it correct.
LEMMA LoweredCorrect ==
    ASSUME NEW t \in 1 .. 255, NEW others \in Nat \ {0}, NEW c \in 0 .. MAXWORD,
           Correct(t, others, c)
    PROVE  LET d == Word(c + 256 + (IF c >= MAXWORD - 256 THEN 1 ELSE 0))
           IN  d \in 0 .. MAXWORD /\ Correct(t - 1, others, d)
<1> DEFINE s == t * 256 + others
           d == Word(c + 256 + (IF c >= MAXWORD - 256 THEN 1 ELSE 0))
<1>1. s \in Nat /\ (s + c) % MAXWORD = 0 /\ (t - 1) * 256 + others = s - 256
  BY SMT DEF Correct
<1>2. d \in 0 .. MAXWORD /\ (d = c + 256 \/ d = c + 256 - MAXWORD)
  BY WordSize, SMT DEF Word
<1> HIDE DEF s, d
<1>3. s - 256 + d = s + c \/ s - 256 + d = s + c - MAXWORD
  BY <1>1, <1>2, WordSize, SMT
<1>4. (s - 256 + d) % MAXWORD = 0
  BY <1>1, <1>3, WordSize, OneLess, SMT
<1>5. Correct(t - 1, others, d)
  BY <1>1, <1>4, SMT DEF Correct
<1> QED BY <1>2, <1>5, SMT DEF d

\* What check_dgram_ttl computes: the seconds left, less the one of this hop.
LEMMA QuotientOfSeconds ==
    ASSUME NEW n \in Int
    PROVE  /\ Quotient(n, 1000) > 0 <=> n >= 1000
           /\ n >= 1000 => Quotient(n, 1000) = n \div 1000
BY SMT DEF Quotient

LEMMA SecondsLeft ==
    ASSUME NEW g \in 0 .. 256, NEW a \in Nat, NEW n \in Int,
           n = g * 1000 - a - 1, n >= 1000
    PROVE  n \div 1000 = g - (a \div 1000 + 1)
BY SMT

LEMMA SecondsLeftOwn ==
    ASSUME NEW g \in 0 .. 255, NEW a \in Nat, NEW n \in Int,
           n = (g + 1) * 1000 - a - 2, n >= 1000
    PROVE  n \div 1000 = g - ((a + 1) \div 1000)
BY SMT

LEMMA LifeBounds ==
    ASSUME TypeOK
    PROVE  /\ Life \in Nat /\ Life <= (given.ttl + 1) * 1000
           /\ given.ttl \in 0 .. 255 /\ given.by \in Origins
           /\ age \in Nat /\ then \in 0 .. MAX_CLOCK - 1
           /\ age < MAX_CLOCK \div 2 /\ Life < MAX_CLOCK \div 2 + age
           /\ age + Life < MAX_CLOCK
<1>1. given.ttl \in 0 .. 255 /\ given.by \in Origins
  <2>1. given.ttl \in Ttls /\ given.by \in Origins
    BY SMT DEF TypeOK
  <2>2. given.ttl \in 0 .. 255
    BY <2>1, TtlsAssumption, Zenon DEF TtlsAssumption
  <2> QED BY <2>1, <2>2
<1>2. Life \in Nat /\ Life <= (given.ttl + 1) * 1000
  BY <1>1, SMT DEF Life
<1>3. age \in 0 .. MaxAge /\ then \in 0 .. MAX_CLOCK - 1
  BY SMT DEF TypeOK
<1>4. MaxAge \in Nat /\ MaxAge + (given.ttl + 1) * 1000 < MAX_CLOCK \div 2
  BY <1>1, MaxAgeAssumption, SMT DEF MaxAgeAssumption
<1> QED
  BY <1>1, <1>2, <1>3, <1>4, ClockAssumption, SMT DEF ClockAssumption

(***************************************************************************)
(* The invariant                                                           *)
(***************************************************************************)
LEMMA InitIInv == Init => IInv
<1> SUFFICES ASSUME Init PROVE IInv
  OBVIOUS
<1>1. sting_clock \in 0 .. MAX_CLOCK - 1 /\ then = sting_clock
  BY StartAssumption, Zenon DEF Init, StartAssumption
<1>2. TypeOK
  BY <1>1, ClockAssumption, MaxAgeAssumption, WordSize, SMT
     DEF Init, TypeOK, Places, ClockAssumption, MaxAgeAssumption
<1>3. ClockTrue
  BY <1>1, ClockAssumption, SMT DEF Init, ClockTrue, Wrap, ClockAssumption
<1> QED
  BY <1>2, <1>3 DEF Init, IInv, TimeoutTrue, SumBefore, HopCostsTtl, ExpiresOnTime

\* While it is under way the kernel knows how long a datagram has to live.
LEMMA TimeLeft ==
    ASSUME IInv, at # "none"
    PROVE  /\ check_sequence(sting_clock, timeout) = Life - age
           /\ check_sequence(timeout, sting_clock) = age - Life
<1>1. /\ TypeOK
      /\ sting_clock = Wrap(then + age) /\ timeout = Wrap(then + Life)
  BY DEF IInv, ClockTrue, TimeoutTrue
<1>2. /\ Life \in Nat /\ age \in Nat /\ then \in 0 .. MAX_CLOCK - 1
      /\ age < MAX_CLOCK /\ Life < MAX_CLOCK
      /\ age - Life < MAX_CLOCK \div 2 /\ Life - age < MAX_CLOCK \div 2
  BY <1>1, LifeBounds, ClockAssumption, SMT DEF ClockAssumption
<1> HIDE DEF Life
<1> QED BY <1>1, <1>2, CheckSequenceExact, SMT

LEMMA TickSound ==
    ASSUME IInv, NEW d \in Steps, Tick(d)
    PROVE  IInv'
<1>1. /\ TypeOK /\ at \in {"receive", "send", "queue"}
      /\ age \in Nat /\ then \in 0 .. MAX_CLOCK - 1
      /\ d \in 1 .. MAX_CLOCK - 1 /\ MaxAge \in Nat
  BY LifeBounds, StepsAssumption, MaxAgeAssumption, ZenonT(30)
     DEF IInv, Tick, StepsAssumption, MaxAgeAssumption
<1>2. age' = age + d /\ age' \in 0 .. MaxAge /\ age' < MAX_CLOCK \div 2
  <2>1. MaxAge < MAX_CLOCK \div 2
    BY MaxAgeAssumption, ClockAssumption, SMT DEF MaxAgeAssumption, ClockAssumption
  <2> QED BY <1>1, <2>1, ClockAssumption, SMT DEF Tick, ClockAssumption
<1>3. sting_clock' = Wrap(then + age') /\ sting_clock' \in 0 .. MAX_CLOCK - 1
  BY <1>1, <1>2, ClockAssumption, SMT DEF IInv, ClockTrue, Tick, Wrap, ClockAssumption
<1>4. UNCHANGED <<at, ttl, chksum, rest, timeout, given, then>>
  BY DEF Tick
<1>5. TypeOK' /\ ClockTrue'
  BY <1>1, <1>2, <1>3, <1>4, SMT DEF TypeOK, ClockTrue, Wrap
<1>6. TimeoutTrue' /\ SumBefore'
  BY <1>1, <1>4, SMT DEF IInv, TimeoutTrue, SumBefore, Life, Wrap, Correct
<1> QED
  BY <1>1, <1>4, <1>5, <1>6, Zenon DEF IInv, HopCostsTtl, ExpiresOnTime

\* A datagram is born now: its clock is true and its age is zero.
LEMMA BornNow ==
    ASSUME IInv, at = "none"
    PROVE  /\ sting_clock = then /\ age = 0
           /\ Wrap(sting_clock + Life) \in 0 .. MAX_CLOCK - 1
<1>1. age = 0 /\ sting_clock = Wrap(then + age) /\ TypeOK
  BY DEF IInv, ClockTrue
<1> HIDE DEF Life
<1>2. sting_clock = then
  BY <1>1, LifeBounds, ClockAssumption, SMT DEF Wrap, ClockAssumption
<1> QED BY <1>1, <1>2, LifeBounds, ClockAssumption, SMT DEF Wrap, ClockAssumption

LEMMA SendSound ==
    ASSUME IInv, IP_send
    PROVE  IInv'
<1>1. TypeOK /\ rest \in Nat \ {0} /\ given.ttl \in 0 .. 255
  BY LifeBounds, RestsAssumption, Zenon DEF IInv, TypeOK, RestsAssumption
<1>2. ttl' \in 0 .. 255
  <2>1. ttl' = (given.ttl + 1) % 256
    BY DEF IP_send
  <2> QED BY <1>1, <2>1, SMT
<1>3. chksum' \in 0 .. MAXWORD
  BY <1>1, <1>2, CheckSumCorrect, Zenon DEF IP_send
<1>4. /\ sting_clock = then /\ age = 0
      /\ timeout' = Wrap(then + Life) /\ timeout' \in 0 .. MAX_CLOCK - 1
  <2>1. at = "none" /\ timeout' = Wrap(sting_clock + Life)
    BY <1>1, SMT DEF IP_send, Life, Wrap
  <2> QED BY <2>1, BornNow
<1>5. at' = "receive" /\ UNCHANGED <<sting_clock, rest, given, then, age>>
  BY DEF IP_send
<1>6. TypeOK'
  BY <1>1, <1>2, <1>3, <1>4, <1>5, SMT DEF TypeOK, Places
<1>7. ClockTrue' /\ TimeoutTrue'
  BY <1>4, <1>5, SMT DEF IInv, ClockTrue, TimeoutTrue, Life, Wrap
<1> QED BY <1>5, <1>6, <1>7, Zenon DEF IInv, SumBefore, HopCostsTtl, ExpiresOnTime

LEMMA ReceiveSound ==
    ASSUME IInv, NEW damage \in {0, 1, 255}, set_dgram_ttl(damage)
    PROVE  IInv'
<1>1. TypeOK /\ rest \in Nat \ {0} /\ given.ttl \in 0 .. 255
  BY LifeBounds, RestsAssumption, Zenon DEF IInv, TypeOK, RestsAssumption
<1>2. ttl' \in 0 .. 255
  BY <1>1 DEF set_dgram_ttl
<1>3. chksum' \in 0 .. MAXWORD
  <2>1. check_sum(given.ttl, rest) \in 0 .. MAXWORD
    <3> DEFINE g == given.ttl
    <3>1. g \in 0 .. 255 /\ rest \in Nat \ {0}
      BY <1>1
    <3> HIDE DEF g
    <3>2. check_sum(g, rest) \in 0 .. MAXWORD
      BY <3>1, CheckSumCorrect, Zenon
    <3> QED BY <3>2 DEF g
  <2> QED BY <2>1, WordSize, SMT DEF set_dgram_ttl, Word
<1>4. /\ sting_clock = then /\ age = 0
      /\ timeout' = Wrap(then + Life) /\ timeout' \in 0 .. MAX_CLOCK - 1
  <2>1. at = "none" /\ timeout' = Wrap(sting_clock + Life)
    BY <1>1, SMT DEF set_dgram_ttl, Life, Wrap
  <2> QED BY <2>1, BornNow
<1>5. at' = "receive" /\ UNCHANGED <<sting_clock, rest, given, then, age>>
  BY DEF set_dgram_ttl
<1>6. TypeOK'
  BY <1>1, <1>2, <1>3, <1>4, <1>5, SMT DEF TypeOK, Places
<1>7. ClockTrue' /\ TimeoutTrue'
  BY <1>4, <1>5, SMT DEF IInv, ClockTrue, TimeoutTrue, Life, Wrap
<1> QED BY <1>5, <1>6, <1>7, Zenon DEF IInv, SumBefore, HopCostsTtl, ExpiresOnTime

LEMMA ProcessSound ==
    ASSUME IInv, NEW local \in BOOLEAN, process_dgram(local)
    PROVE  IInv'
<1>1. TypeOK /\ at = "receive" /\ rest \in Nat \ {0}
  BY RestsAssumption, Zenon DEF IInv, TypeOK, RestsAssumption, process_dgram
<1>2. UNCHANGED <<sting_clock, rest, timeout, given, then, age>>
  BY DEF process_dgram
<1>3. ClockTrue' /\ TimeoutTrue'
  BY <1>1, <1>2, SMT DEF IInv, ClockTrue, TimeoutTrue, Life, Wrap
<1>4. at' \in {"discarded", "queue", "send"}
  BY Zenon DEF process_dgram
<1>5. ttl' \in 0 .. 255 /\ chksum' \in 0 .. MAXWORD /\ SumBefore'
  <2>1. CASE ~Correct(ttl, rest, chksum)
    BY <1>1, <2>1, Zenon DEF process_dgram, TypeOK, SumBefore
  <2>2. CASE Correct(ttl, rest, chksum) /\ ttl = 0
    <3>1. ttl' = 255 /\ chksum' \in 0 .. MAXWORD
      <4>1. (0 + 255) % 256 = 255
        BY SMT
      <4>2. /\ ttl' = (ttl + 255) % 256
            /\ chksum' = Word(chksum + 256 + (IF chksum >= MAXWORD - 256 THEN 1 ELSE 0))
        BY <2>2, Zenon DEF process_dgram, LowerTtl
      <4>3. chksum' \in 0 .. MAXWORD
        BY <1>1, <4>2, WordSize, SMT DEF Word, TypeOK
      <4> QED BY <2>2, <4>1, <4>2, <4>3, SMT
    <3> QED BY <3>1, SMT DEF SumBefore
  <2>3. CASE Correct(ttl, rest, chksum) /\ ttl # 0
    <3>1. ttl \in 1 .. 255 /\ chksum \in 0 .. MAXWORD
      BY <1>1, <2>3, SMT DEF TypeOK
    <3>2. /\ ttl' = ttl - 1
          /\ chksum' = Word(chksum + 256 + (IF chksum >= MAXWORD - 256 THEN 1 ELSE 0))
      BY <2>3, <3>1, SMT DEF process_dgram, LowerTtl
    <3>3. chksum' \in 0 .. MAXWORD /\ Correct(ttl', rest, chksum')
      BY <1>1, <2>3, <3>1, <3>2, LoweredCorrect, ZenonT(30)
    <3> QED BY <1>2, <3>1, <3>2, <3>3, SMT DEF SumBefore, Correct
  <2> QED BY <2>1, <2>2, <2>3
<1>6. TypeOK'
  BY <1>1, <1>2, <1>4, <1>5, SMT DEF TypeOK, Places
<1> QED
  BY <1>1, <1>2, <1>3, <1>4, <1>5, <1>6, Zenon DEF IInv, HopCostsTtl, ExpiresOnTime

\* What check_dgram_ttl makes of a datagram's remaining life.
Remain == Quotient(check_sequence(sting_clock, timeout) - 1, 1000)

LEMMA RemainExact ==
    ASSUME IInv, at # "none"
    PROVE  /\ Remain > 0 <=> Life - age >= 1001
           /\ Remain > 0 => /\ Remain \in 1 .. given.ttl
                            /\ given.by = "net" => Remain = given.ttl - (age \div 1000 + 1)
                            /\ given.by # "net" => Remain = given.ttl - ((age + 1) \div 1000)
           /\ Remain \in Int
<1> DEFINE n == Life - age - 1
<1>1. /\ TypeOK /\ given.ttl \in 0 .. 255 /\ age \in Nat /\ Life \in Nat
  BY LifeBounds DEF IInv
<1>2. Remain = Quotient(n, 1000)
  BY TimeLeft DEF Remain
<1>3. n \in Int /\ (n >= 1000 <=> Life - age >= 1001)
  BY <1>1, SMT
<1>4. CASE given.by = "net"
  <2>1. n = given.ttl * 1000 - age - 1
    BY <1>4 DEF Life
  <2> HIDE DEF n
  <2>2. n >= 1000 => n \div 1000 = given.ttl - (age \div 1000 + 1)
    <3> DEFINE g == given.ttl
    <3>1. g \in 0 .. 255 /\ n = g * 1000 - age - 1
      BY <1>1, <2>1
    <3> HIDE DEF g
    <3>2. n >= 1000 => n \div 1000 = g - (age \div 1000 + 1)
      BY <1>1, <1>3, <3>1, SecondsLeft, SMT
    <3> QED BY <3>2 DEF g
  <2>3. n >= 1000 => n \div 1000 \in 1 .. given.ttl
    BY <1>1, <1>3, <2>2, SMT
  <2> QED BY <1>2, <1>3, <1>4, <2>2, <2>3, QuotientOfSeconds, SMT DEF Quotient
<1>5. CASE given.by # "net"
  <2>1. n = (given.ttl + 1) * 1000 - age - 2
    BY <1>1, <1>5, SMT DEF Life
  <2> HIDE DEF n
  <2>2. n >= 1000 => n \div 1000 = given.ttl - ((age + 1) \div 1000)
    <3> DEFINE g == given.ttl
    <3>1. g \in 0 .. 255 /\ n = (g + 1) * 1000 - age - 2
      BY <1>1, <2>1
    <3> HIDE DEF g
    <3>2. n >= 1000 => n \div 1000 = g - ((age + 1) \div 1000)
      BY <1>1, <1>3, <3>1, SecondsLeftOwn, SMT
    <3> QED BY <3>2 DEF g
  <2>3. n >= 1000 => n \div 1000 \in 1 .. given.ttl
    BY <1>1, <1>3, <2>2, SMT
  <2> QED BY <1>1, <1>2, <1>3, <1>5, <2>2, <2>3, QuotientOfSeconds, SMT DEF Quotient
<1> QED BY <1>4, <1>5

LEMMA CheckSound ==
    ASSUME IInv, check_dgram_ttl
    PROVE  /\ IInv'
           /\ at' = "wire" /\ 255 \notin Ttls => WireChecksumCorrect'
<1>1. /\ TypeOK /\ at = "send" /\ rest \in Nat \ {0}
      /\ given.ttl \in 0 .. 255 /\ given.ttl \in Ttls /\ age \in Nat /\ Life \in Nat
  <2>1. TypeOK /\ at = "send" /\ given.ttl \in Ttls /\ rest \in Rests
    BY SMT DEF IInv, TypeOK, check_dgram_ttl
  <2> QED BY <2>1, LifeBounds, RestsAssumption, Zenon DEF RestsAssumption
<1>2. /\ at' = IF Remain <= 0 THEN "expired" ELSE "wire"
      /\ ttl' = Remain % 256
      /\ chksum' = IF ttl # Remain THEN check_sum(Remain % 256, rest) ELSE chksum
      /\ UNCHANGED <<sting_clock, rest, timeout, given, then, age>>
  BY Zenon DEF check_dgram_ttl, Remain
<1>3. /\ Remain > 0 <=> Life - age >= 1001
      /\ Remain > 0 => /\ Remain \in 1 .. given.ttl
                       /\ given.by = "net" => Remain = given.ttl - (age \div 1000 + 1)
                       /\ given.by # "net" => Remain = given.ttl - ((age + 1) \div 1000)
      /\ Remain \in Int
  BY <1>1, RemainExact
<1> HIDE DEF Remain
<1>4. Remain % 256 \in 0 .. 255
  BY <1>3, SMT
<1>5. chksum' \in 0 .. MAXWORD
  <2>1. check_sum(Remain % 256, rest) \in 0 .. MAXWORD
    BY <1>1, <1>4, CheckSumCorrect, Zenon
  <2>2. chksum \in 0 .. MAXWORD
    BY <1>1, Zenon DEF TypeOK
  <2> QED BY <1>2, <2>1, <2>2, Zenon
<1>6. TypeOK' /\ ClockTrue' /\ TimeoutTrue' /\ SumBefore'
  BY <1>1, <1>2, <1>4, <1>5, SMT
     DEF IInv, TypeOK, Places, ClockTrue, TimeoutTrue, SumBefore, Life, Wrap
<1>7. at' = "wire" => Remain > 0 /\ ttl' = Remain
  BY <1>1, <1>2, <1>3, SMT
<1>8. HopCostsTtl'
  BY <1>1, <1>2, <1>3, <1>7, SMT DEF HopCostsTtl
<1>9. ExpiresOnTime'
  BY <1>1, <1>2, <1>3, SMT DEF ExpiresOnTime, LifeTime, Life
<1>10. ASSUME at' = "wire", 255 \notin Ttls
       PROVE  Correct(ttl', rest', chksum')
  <2>1. CASE ttl # Remain
    BY <1>1, <1>2, <1>4, <2>1, CheckSumCorrect, Zenon
  <2>2. CASE ttl = Remain
    <3>1. ttl # 255
      BY <1>1, <1>3, <1>7, <1>10, <2>2, SMT
    <3>2. Correct(ttl, rest, chksum)
      BY <1>1, <3>1, Zenon DEF IInv, SumBefore
    <3> QED BY <1>2, <1>7, <1>10, <2>2, <3>2, Zenon
  <2> QED BY <2>1, <2>2
<1> QED
  BY <1>1, <1>2, <1>6, <1>8, <1>9, <1>10, Zenon DEF IInv, WireChecksumCorrect

LEMMA CleanSound ==
    ASSUME IInv, clean_up
    PROVE  IInv'
<1>1. /\ TypeOK /\ at = "queue" /\ at' = "expired"
      /\ UNCHANGED <<sting_clock, ttl, chksum, rest, timeout, given, then, age>>
  BY DEF IInv, clean_up
<1>2. given.ttl \in 0 .. 255 /\ age \in Nat /\ Life \in Nat
  BY <1>1, LifeBounds
<1>3. age - Life > 0
  BY <1>1, TimeLeft DEF clean_up
<1>4. ExpiresOnTime'
  BY <1>1, <1>2, <1>3, SMT DEF ExpiresOnTime, LifeTime, Life
<1>5. TypeOK' /\ ClockTrue' /\ TimeoutTrue' /\ SumBefore'
  BY <1>1, SMT DEF IInv, TypeOK, Places, ClockTrue, TimeoutTrue, SumBefore, Life, Wrap
<1> QED BY <1>1, <1>4, <1>5, Zenon DEF IInv, HopCostsTtl

LEMMA StutterSound == IInv /\ UNCHANGED vars => IInv'
BY SMT DEF vars, IInv, TypeOK, ClockTrue, TimeoutTrue, SumBefore, HopCostsTtl, ExpiresOnTime,
           Life, LifeTime, Wrap, Correct

LEMMA DoneSound == IInv /\ Done => IInv'
BY StutterSound DEF Done

LEMMA NextIInv == IInv /\ [Next]_vars => IInv'
<1> SUFFICES ASSUME IInv, [Next]_vars PROVE IInv'
  OBVIOUS
<1>1. CASE Next
  BY <1>1, TickSound, SendSound, ReceiveSound, ProcessSound, CheckSound, CleanSound,
     DoneSound DEF Next
<1>2. CASE UNCHANGED vars
  BY <1>2, StutterSound
<1> QED BY <1>1, <1>2

\* The header fields, clocks and times keep their width.
THEOREM LifeTypeOK == Spec => []TypeOK
<1>1. IInv => TypeOK
  BY DEF IInv
<1> QED BY <1>1, InitIInv, NextIInv, PTL DEF Spec

\* A hop costs a second at least, and the rest of the ttl that leaves is the
\* whole seconds the datagram did not spend in the host: check_dgram_ttl.
THEOREM EveryHopCosts == Spec => []HopCostsTtl
<1>1. IInv => HopCostsTtl
  BY DEF IInv
<1> QED BY <1>1, InitIInv, NextIInv, PTL DEF Spec

\* check_dgram_ttl and clean_up drop a datagram when its time is over and not
\* before, at whatever time of day it started.
THEOREM ExpiryIsOnTime == Spec => []ExpiresOnTime
<1>1. IInv => ExpiresOnTime
  BY DEF IInv
<1> QED BY <1>1, InitIInv, NextIInv, PTL DEF Spec

\* TIMER_elapsed is exact for half a day at least.
THEOREM TimerIsTrue == Spec => []ElapsedIsTrue
<1>1. IInv => ElapsedIsTrue
  <2> SUFFICES ASSUME IInv PROVE ElapsedIsTrue
    OBVIOUS
  <2>1. /\ TypeOK /\ sting_clock = Wrap(then + age) /\ age \in Nat
        /\ then \in 0 .. MAX_CLOCK - 1 /\ age < MAX_CLOCK
    BY LifeBounds, ClockAssumption, SMT DEF IInv, ClockTrue, ClockAssumption
  <2> QED BY <2>1, ElapsedExact, Zenon DEF ElapsedIsTrue
<1> QED BY <1>1, InitIInv, NextIInv, PTL DEF Spec

\* The incremental update of the checksum in process_dgram and the recomputed
\* one of check_dgram_ttl agree: unless IP_send is given a ttl of 255, whose
\* successor does not fit the byte, what leaves the host is correct.
THEOREM WireIsCorrect == 255 \notin Ttls => (Spec => []WireChecksumCorrect)
<1> SUFFICES ASSUME 255 \notin Ttls PROVE Spec => []WireChecksumCorrect
  OBVIOUS
<1>1. Init => WireChecksumCorrect
  BY DEF Init, WireChecksumCorrect
<1>2. IInv /\ WireChecksumCorrect /\ [Next]_vars => WireChecksumCorrect'
  <2> SUFFICES ASSUME IInv, WireChecksumCorrect, [Next]_vars, at' = "wire"
               PROVE  WireChecksumCorrect'
    BY DEF WireChecksumCorrect
  <2>1. CASE check_dgram_ttl
    BY <2>1, CheckSound
  <2>2. CASE UNCHANGED vars
    BY <2>2, Zenon DEF vars, WireChecksumCorrect, Correct
  <2> QED
    BY <2>1, <2>2, Zenon DEF Next, Tick, IP_send, set_dgram_ttl, process_dgram, clean_up, Done
<1> QED BY <1>1, <1>2, InitIInv, NextIInv, PTL DEF Spec

(***************************************************************************)
(* Arithmetic (Fragm)                                                      *)
(***************************************************************************)
LEMMA TimesNat == \A a, b \in Nat : a * b \in Nat
OBVIOUS

LEMMA TimesGrows ==
    ASSUME NEW a \in Nat, NEW b \in Nat, NEW n \in Nat, a <= b
    PROVE  a * n <= b * n /\ a * n \in Nat /\ b * n \in Nat
<1>1. PICK c \in Nat : b = a + c
  BY b - a \in Nat
<1>2. b * n = a * n + c * n /\ c * n \in Nat /\ a * n \in Nat
  BY <1>1, TimesNat
<1> QED BY <1>2

\* The quotient is the only number that fits.
LEMMA Divides ==
    ASSUME NEW a \in Nat, NEW n \in Nat \ {0}
    PROVE  /\ a \div n \in Nat /\ a % n \in 0 .. n - 1
           /\ a = (a \div n) * n + (a % n)
<1>1. /\ a \div n \in Int /\ a % n \in 0 .. n - 1
      /\ a = n * (a \div n) + (a % n)
  BY SMTT(30)
<1>2. a \div n \in Nat
  BY SMTT(30)
<1>3. PICK q, r : q = a \div n /\ r = a % n
  OBVIOUS
<1>4. a = n * q + r /\ q \in Nat /\ r \in 0 .. n - 1
  BY <1>1, <1>2, <1>3, Zenon
<1>5. \A i, j \in Nat : i * j = j * i
  OBVIOUS
<1>6. n * q = q * n
  BY <1>4, <1>5, Zenon
<1>7. a = q * n + r
  BY <1>4, <1>6, Zenon
<1> QED BY <1>2, <1>3, <1>4, <1>7, Zenon

LEMMA DividesBy ==
    ASSUME NEW a \in Nat, NEW n \in Nat \ {0}, NEW q \in Nat, NEW r \in 0 .. n - 1, a = q * n + r
    PROVE  a \div n = q /\ a % n = r
<1>1. PICK p, s : p = a \div n /\ s = a % n
  OBVIOUS
<1>2. p \in Nat /\ s \in 0 .. n - 1 /\ a = p * n + s
  BY <1>1, Divides
<1>3. CASE p < q
  <2>1. (p + 1) * n <= q * n
    BY <1>2, <1>3, TimesGrows
  <2>2. (p + 1) * n = p * n + n
    BY <1>2
  <2>3. p * n \in Nat /\ q * n \in Nat
    BY <1>2, TimesNat
  <2> QED BY <1>2, <2>1, <2>2, <2>3
<1>4. CASE q < p
  <2>1. (q + 1) * n <= p * n
    BY <1>2, <1>4, TimesGrows
  <2>2. (q + 1) * n = q * n + n
    OBVIOUS
  <2>3. p * n \in Nat /\ q * n \in Nat
    BY <1>2, TimesNat
  <2> QED BY <1>2, <2>1, <2>2, <2>3
<1>5. CASE p = q
  <2>1. p * n = q * n /\ q * n \in Nat
    BY <1>5, TimesNat
  <2> QED BY <1>1, <1>2, <1>5, <2>1
<1> QED BY <1>2, <1>3, <1>4, <1>5

LEMMA MinOfTwo ==
    ASSUME NEW a \in Nat, NEW b \in Nat
    PROVE  Min({a, b}) = IF a <= b THEN a ELSE b
<1>1. {a, b} \subseteq Nat /\ {a, b} # {}
  OBVIOUS
<1>2. Min({a, b}) \in {a, b} /\ \A y \in {a, b} : Min({a, b}) <= y
  BY <1>1, MinIsLeast
<1> QED BY <1>2

(***************************************************************************)
(* What fragment cuts                                                      *)
(***************************************************************************)
Pieces(length) == {f \in Fragments : Ends(f) <= length}

LEMMA LinkSizes ==
    ASSUME NEW i \in 1 .. Len(Path)
    PROVE  /\ Path[i].first \in Nat \ {0} /\ Path[i].others \in Nat \ {0}
           /\ Path[i].first % BLOCK = 0 /\ Path[i].others % BLOCK = 0
           /\ Len(Path) \in Nat
<1> DEFINE R == [first : Nat \ {0}, others : Nat \ {0}]
<1>1. Path \in Seq(R)
  BY SizesAssumption, Zenon DEF SizesAssumption
<1>2. Path[i].first % BLOCK = 0 /\ Path[i].others % BLOCK = 0
  BY SizesAssumption, Zenon DEF SizesAssumption
<1> HIDE DEF R
<1>3. Path[i] \in R /\ Len(Path) \in Nat
  BY <1>1, ElementOfSeq, LenProperties
<1> QED BY <1>2, <1>3 DEF R

LEMMA BlockSize == BLOCK \in Nat \ {0} /\ BITS \in Nat \ {0} /\ SPARE \in Nat /\ WORD \in Nat \ {0}
BY SizesAssumption DEF SizesAssumption

\* Where the fragments start: at multiples of a block.
LEMMA Starts ==
    ASSUME NEW m, m.first \in Nat \ {0}, m.others \in Nat \ {0},
           m.first % BLOCK = 0, m.others % BLOCK = 0, NEW k \in Nat \ {0}
    PROVE  /\ Start(k, m) \in Nat /\ Start(k, m) \div BLOCK \in Nat
           /\ (Start(k, m) \div BLOCK) * BLOCK = Start(k, m)
           /\ Start(k + 1, m) = Start(k, m) + (IF k = 1 THEN m.first ELSE m.others)
<1> DEFINE a == m.first \div BLOCK
           b == m.others \div BLOCK
<1>1. a \in Nat /\ m.first = a * BLOCK
  <2>1. m.first \in Nat
    OBVIOUS
  <2>2. a \in Nat /\ m.first = a * BLOCK + (m.first % BLOCK)
    BY <2>1, BlockSize, Divides
  <2>3. a * BLOCK \in Nat
    BY <2>2, BlockSize, TimesNat
  <2> HIDE DEF a
  <2> QED BY <2>2, <2>3
<1>2. b \in Nat /\ m.others = b * BLOCK
  <2>1. m.others \in Nat
    OBVIOUS
  <2>2. b \in Nat /\ m.others = b * BLOCK + (m.others % BLOCK)
    BY <2>1, BlockSize, Divides
  <2>3. b * BLOCK \in Nat
    BY <2>2, BlockSize, TimesNat
  <2> HIDE DEF b
  <2> QED BY <2>2, <2>3
<1> HIDE DEF a, b
<1>3. PICK c \in Nat : Start(k, m) = c * BLOCK
  <2>1. CASE k = 1
    <3>1. Start(k, m) = 0 * BLOCK
      BY <2>1, BlockSize DEF Start
    <3> QED BY <3>1
  <2>2. CASE k # 1
    <3>1. PICK j \in Nat : j = k - 2
      BY <2>2
    <3>2. Start(k, m) = a * BLOCK + j * (b * BLOCK)
      BY <1>1, <1>2, <2>2, <3>1 DEF Start
    <3>3. a * BLOCK + j * (b * BLOCK) = (a + j * b) * BLOCK /\ a + j * b \in Nat
      BY <1>1, <1>2, <3>1, BlockSize, TimesNat
    <3> QED BY <3>2, <3>3
  <2> QED BY <2>1, <2>2
<1>4. Start(k, m) \in Nat
  BY <1>3, BlockSize, TimesNat
<1>5. Start(k, m) \div BLOCK = c
  <2>1. Start(k, m) = c * BLOCK + 0 /\ 0 \in 0 .. BLOCK - 1
    BY <1>3, <1>4, BlockSize
  <2> QED BY <1>3, <1>4, <2>1, BlockSize, DividesBy
<1>6. Start(k + 1, m) = Start(k, m) + (IF k = 1 THEN m.first ELSE m.others)
  <2>1. CASE k = 1
    BY <2>1 DEF Start
  <2>2. CASE k # 1
    <3>1. PICK j \in Nat : j = k - 2
      BY <2>2
    <3>2. Start(k, m) = m.first + j * m.others /\ Start(k + 1, m) = m.first + (j + 1) * m.others
      BY <2>2, <3>1 DEF Start
    <3>3. (j + 1) * m.others = j * m.others + m.others /\ j * m.others \in Nat
      BY <3>1, TimesNat
    <3> QED BY <2>2, <3>2, <3>3
  <2> QED BY <2>1, <2>2
<1> QED BY <1>3, <1>4, <1>5, <1>6

\* All but the last are as long as they may be.
LEMMA Sizes ==
    ASSUME NEW m, m.first \in Nat \ {0}, m.others \in Nat \ {0},
           m.first % BLOCK = 0, m.others % BLOCK = 0, NEW len \in Nat, len > m.first
    PROVE  /\ Count(len, m) \in Nat /\ Count(len, m) >= 2
           /\ \A k \in 1 .. Count(len, m) :
                /\ Size(k, len, m) \in Nat \ {0}
                /\ Start(k, m) + Size(k, len, m) = IF k < Count(len, m) THEN Start(k + 1, m) ELSE len
                /\ Start(k, m) + Size(k, len, m) <= len
<1> DEFINE o == m.others
           r == len - m.first
           q == (r + o - 1) \div o
<1>1. r \in Nat \ {0} /\ o \in Nat \ {0} /\ r + o - 1 \in Nat
  OBVIOUS
<1>2. /\ q \in Nat /\ q >= 1 /\ r <= q * o
      /\ (q - 1) * o < r /\ q * o = (q - 1) * o + o /\ (q - 1) * o \in Nat
  <2>1. /\ q \in Nat /\ (r + o - 1) % o \in 0 .. o - 1
        /\ r + o - 1 = q * o + ((r + o - 1) % o)
    BY <1>1, Divides
  <2> HIDE DEF q, r, o
  <2>2. q * o \in Nat
    BY <1>1, <2>1, TimesNat
  <2>3. q # 0
    <3>1. q = 0 => q * o = 0
      BY <1>1
    <3> QED BY <1>1, <2>1, <2>2, <3>1
  <2>4. PICK p \in Nat : p = q - 1
    BY <2>1, <2>3
  <2>5. q * o = p * o + o /\ p * o \in Nat
    BY <1>1, <2>1, <2>4, TimesNat
  <2> QED BY <1>1, <2>1, <2>2, <2>3, <2>4, <2>5
<1>3. Count(len, m) = 1 + q
  BY DEF Count
<1> HIDE DEF q
<1>4. ASSUME NEW k \in 1 .. 1 + q
      PROVE  /\ Size(k, len, m) \in Nat \ {0}
             /\ Start(k, m) + Size(k, len, m) = IF k < 1 + q THEN Start(k + 1, m) ELSE len
             /\ Start(k, m) + Size(k, len, m) <= len
  <2>1. /\ Start(k, m) \in Nat
        /\ Start(k + 1, m) = Start(k, m) + (IF k = 1 THEN m.first ELSE m.others)
    BY <1>2, Starts
  <2>2. Start(k, m) = IF k = 1 THEN 0 ELSE m.first + (k - 2) * o
    BY DEF Start
  <2>3. CASE k = 1
    <3>1. Start(k, m) = 0 /\ Size(k, len, m) = Min({len - 0, m.first})
      BY <2>2, <2>3 DEF Size
    <3>2. Size(k, len, m) = m.first
      BY <3>1, MinOfTwo
    <3> QED BY <1>2, <2>1, <2>3, <3>1, <3>2
  <2>4. CASE k # 1
    <3>1. k - 2 \in Nat /\ q - 1 \in Nat /\ k - 1 \in Nat
      BY <1>2, <2>4
    <3>2. (k - 2) * o \in Nat /\ (k - 2) * o <= (q - 1) * o
      BY <1>1, <1>2, <3>1, TimesGrows
    <3>3. Start(k, m) < len
      BY <1>1, <1>2, <2>2, <2>4, <3>2
    <3>4. Size(k, len, m) = Min({len - Start(k, m), o})
      BY <2>4 DEF Size
    <3>5. Size(k, len, m) = IF len - Start(k, m) <= o THEN len - Start(k, m) ELSE o
      BY <1>1, <2>1, <3>3, <3>4, MinOfTwo
    <3>6. CASE k < 1 + q
      <4>1. (k - 1) * o <= (q - 1) * o /\ (k - 1) * o = (k - 2) * o + o
        BY <1>1, <1>2, <3>1, <3>6, TimesGrows
      <4>2. Start(k, m) + o < len
        BY <1>1, <1>2, <2>2, <2>4, <3>2, <4>1
      <4> QED BY <1>1, <2>1, <2>4, <3>3, <3>5, <3>6, <4>2
    <3>7. CASE k = 1 + q
      <4>1. Start(k, m) = m.first + (q - 1) * o
        BY <2>2, <2>4, <3>7, <1>2
      <4>2. len - Start(k, m) <= o
        BY <1>1, <1>2, <4>1
      <4> QED BY <1>1, <2>1, <3>3, <3>5, <3>7, <4>2
    <3> QED BY <1>2, <3>6, <3>7
  <2> QED BY <2>3, <2>4
<1> QED BY <1>2, <1>3, <1>4

LEMMA FragmentSound ==
    ASSUME NEW f \in Fragments, NEW m, m.first \in Nat \ {0}, m.others \in Nat \ {0},
           m.first % BLOCK = 0, m.others % BLOCK = 0, f.len > m.first
    PROVE  /\ fragment(f, m) \in Seq(Pieces(f.len)) /\ Len(fragment(f, m)) >= 2
           /\ fragment(f, m)[1].ofst = 0
           /\ ~f.more => Chained(fragment(f, m), f.len)
<1> DEFINE n == Count(f.len, m)
           g == fragment(f, m)
<1>1. f.len \in Nat /\ f.more \in BOOLEAN
  BY DEF Fragments
<1>2. /\ n \in Nat /\ n >= 2
      /\ \A k \in 1 .. n :
           /\ Size(k, f.len, m) \in Nat \ {0}
           /\ Start(k, m) + Size(k, f.len, m) = IF k < n THEN Start(k + 1, m) ELSE f.len
           /\ Start(k, m) + Size(k, f.len, m) <= f.len
  BY <1>1, Sizes
<1> HIDE DEF n
<1>3. g = [k \in 1 .. n |-> [ofst |-> Start(k, m) \div BLOCK, len |-> Size(k, f.len, m), more |-> f.more \/ k < n]]
  BY DEF fragment, n
<1> HIDE DEF g
<1>4. ASSUME NEW k \in 1 .. n
      PROVE  /\ g[k].more = (f.more \/ k < n) /\ g[k] \in Pieces(f.len)
             /\ g[k].ofst * BLOCK = Start(k, m)
             /\ Ends(g[k]) = Start(k, m) + Size(k, f.len, m)
  <2>1. g[k] = [ofst |-> Start(k, m) \div BLOCK, len |-> Size(k, f.len, m), more |-> f.more \/ k < n]
    BY <1>3
  <2>2. k \in Nat \ {0}
    BY <1>2
  <2>3. Start(k, m) \in Nat /\ Start(k, m) \div BLOCK \in Nat /\ (Start(k, m) \div BLOCK) * BLOCK = Start(k, m)
    BY <2>2, Starts
  <2>4. g[k] \in Fragments
    BY <1>1, <1>2, <2>1, <2>3 DEF Fragments
  <2>5. g[k].ofst * BLOCK = Start(k, m) /\ Ends(g[k]) = Start(k, m) + Size(k, f.len, m)
    BY <2>1, <2>3 DEF Ends
  <2> QED BY <1>2, <2>1, <2>4, <2>5 DEF Pieces
<1>5. g \in Seq(Pieces(f.len)) /\ Len(g) = n
  BY <1>2, <1>3, <1>4, IsASeq
<1>6. g[1].ofst = 0
  <2>1. 1 \in 1 .. n /\ Start(1, m) = 0
    BY <1>2 DEF Start
  <2>2. g[1].ofst = Start(1, m) \div BLOCK
    BY <1>3, <2>1
  <2>3. 0 \div BLOCK = 0
    BY BlockSize, DividesBy
  <2> QED BY <2>1, <2>2, <2>3
<1>7. ASSUME ~f.more, NEW k \in 1 .. n
      PROVE  g[k].more = (k < n) /\ Ends(g[k]) = IF k < n THEN g[k + 1].ofst * BLOCK ELSE f.len
  <2>1. k < n => k + 1 \in 1 .. n
    BY <1>2
  <2>2. k < n => g[k + 1].ofst * BLOCK = Start(k + 1, m)
    BY <1>4, <2>1
  <2> QED BY <1>2, <1>4, <1>7, <2>2
<1>8. ~f.more => Chained(g, f.len)
  BY <1>5, <1>7 DEF Chained
<1> QED BY <1>2, <1>5, <1>6, <1>8 DEF g

(***************************************************************************)
(* What is sent                                                            *)
(***************************************************************************)
LEMMA PiecesOf ==
    ASSUME NEW L \in Nat, NEW k \in Nat, k <= L
    PROVE  Pieces(k) \subseteq Pieces(L) /\ Seq(Pieces(k)) \subseteq Seq(Pieces(L))
<1>1. ASSUME NEW f \in Pieces(k) PROVE f \in Pieces(L)
  <2>1. f \in Fragments /\ Ends(f) <= k /\ f.ofst \in Nat /\ f.len \in Nat
    BY DEF Pieces, Fragments
  <2>2. f.ofst * BLOCK \in Nat
    BY <2>1, BlockSize, TimesNat
  <2>3. Ends(f) \in Nat
    BY <2>1, <2>2 DEF Ends
  <2> QED BY <2>1, <2>3 DEF Pieces
<1> HIDE DEF Pieces
<1>2. ASSUME NEW s \in Seq(Pieces(k)) PROVE s \in Seq(Pieces(L))
  BY <1>1, Len(s) \in Nat, \A i \in 1 .. Len(s) : s[i] \in Pieces(k), ElementOfSeq, LenProperties, SeqDef
<1> QED BY <1>1, <1>2

LEMMA WholeSound ==
    ASSUME NEW d \in Datagrams
    PROVE  /\ Length[d] \in Nat \ {0}
           /\ Whole(d) \in Pieces(Length[d]) /\ ~Whole(d).more /\ Whole(d).len = Length[d]
           /\ Whole(d).ofst = 0 /\ Ends(Whole(d)) = Length[d]
<1>1. Length[d] \in Nat \ {0}
  BY NetworkAssumption DEF NetworkAssumption
<1>2. 0 * BLOCK = 0
  BY BlockSize
<1> QED BY <1>1, <1>2 DEF Whole, Pieces, Fragments, Ends

LEMMA CrossSound ==
    ASSUME NEW L \in Nat, NEW fs \in Seq(Pieces(L)), NEW i \in 1 .. Len(Path)
    PROVE  Cross(fs, Path[i]) \in Seq(Pieces(L))
<1> DEFINE m == Path[i]
           piece(j) == IF fs[j].len <= m.first THEN <<fs[j]>> ELSE fragment(fs[j], m)
<1>1. ASSUME NEW j \in 1 .. Len(fs) PROVE piece(j) \in Seq(Pieces(L))
  <2>1. fs[j] \in Pieces(L)
    OBVIOUS
  <2>2. fs[j] \in Fragments /\ Ends(fs[j]) <= L /\ fs[j].ofst \in Nat /\ fs[j].len \in Nat \ {0}
    BY <2>1 DEF Pieces, Fragments
  <2>3. fs[j].len <= L
    <3>1. fs[j].ofst * BLOCK \in Nat
      BY <2>2, BlockSize, TimesNat
    <3> QED BY <2>2, <3>1 DEF Ends
  <2>4. CASE fs[j].len <= m.first
    <3>1. piece(j) = <<fs[j]>>
      BY <2>4
    <3> HIDE DEF piece
    <3> QED BY <2>1, <3>1
  <2>5. CASE ~(fs[j].len <= m.first)
    <3>1. m.first \in Nat \ {0} /\ m.others \in Nat \ {0} /\ m.first % BLOCK = 0 /\ m.others % BLOCK = 0
      BY LinkSizes
    <3> HIDE DEF m
    <3>2. fs[j].len > m.first
      BY <2>2, <2>5, <3>1
    <3>3. fragment(fs[j], m) \in Seq(Pieces(fs[j].len))
      BY <2>2, <3>1, <3>2, FragmentSound
    <3>4. fragment(fs[j], m) \in Seq(Pieces(L))
      BY <2>2, <2>3, <3>3, PiecesOf
    <3> QED BY <2>5, <3>4
  <2> QED BY <2>4, <2>5
<1> HIDE DEF piece
<1>2. Len(fs) \in Nat
  OBVIOUS
<1>3. [j \in 1 .. Len(fs) |-> piece(j)] \in Seq(Seq(Pieces(L)))
  BY <1>1, <1>2, IsASeq
<1>4. FlattenSeq([j \in 1 .. Len(fs) |-> piece(j)]) \in Seq(Pieces(L))
  BY <1>3, FlattenConcat
<1> QED BY <1>4 DEF Cross, piece

\* The fragments that have crossed n links.
Crossed(d, n, on) == on = [i \in 0 .. n |-> IF i = 0 THEN <<Whole(d)>> ELSE Cross(on[i - 1], Path[i])]

LEMMA CrossedExists ==
    ASSUME NEW d \in Datagrams
    PROVE  \A n \in Nat : \E on : Crossed(d, n, on)
<1> DEFINE T == {n \in Nat : \E on : Crossed(d, n, on)}
<1>1. 0 \in T
  <2> DEFINE on == [i \in 0 .. 0 |-> <<Whole(d)>>]
  <2>1. on = [i \in 0 .. 0 |-> IF i = 0 THEN <<Whole(d)>> ELSE Cross(on[i - 1], Path[i])]
    BY \A i \in 0 .. 0 : i = 0
  <2> HIDE DEF on
  <2> QED BY <2>1 DEF Crossed
<1>2. ASSUME NEW n \in Nat, n \in T PROVE n + 1 \in T
  <2>1. PICK on : Crossed(d, n, on)
    BY <1>2
  <2> DEFINE up == [i \in 0 .. n + 1 |-> IF i = n + 1 THEN Cross(on[n], Path[n + 1]) ELSE on[i]]
             ok == [i \in 0 .. n + 1 |-> IF i = 0 THEN <<Whole(d)>> ELSE Cross(up[i - 1], Path[i])]
  <2>2. ASSUME NEW i \in 0 .. n + 1 PROVE up[i] = ok[i]
    <3>1. up[i] = IF i = n + 1 THEN Cross(on[n], Path[n + 1]) ELSE on[i]
      OBVIOUS
    <3>2. ok[i] = IF i = 0 THEN <<Whole(d)>> ELSE Cross(up[i - 1], Path[i])
      OBVIOUS
    <3>3. i # n + 1 => on[i] = IF i = 0 THEN <<Whole(d)>> ELSE Cross(on[i - 1], Path[i])
      <4>1. i # n + 1 => i \in 0 .. n
        OBVIOUS
      <4> QED BY <2>1, <4>1, Zenon DEF Crossed
    <3>4. i # 0 => up[i - 1] = on[i - 1]
      <4>1. i # 0 => i - 1 \in 0 .. n + 1 /\ i - 1 # n + 1
        OBVIOUS
      <4> QED BY <4>1
    <3>5. i = n + 1 => i - 1 = n /\ i # 0
      OBVIOUS
    <3> HIDE DEF up, ok
    <3> QED BY <3>1, <3>2, <3>3, <3>4, <3>5
  <2>3. up = ok
    <3>1. up = [i \in 0 .. n + 1 |-> up[i]] /\ ok = [i \in 0 .. n + 1 |-> ok[i]]
      OBVIOUS
    <3> HIDE DEF up, ok
    <3> QED BY <2>2, <3>1
  <2>4. Crossed(d, n + 1, up)
    BY <2>3, Zenon DEF Crossed
  <2> HIDE DEF up
  <2> QED BY <2>4
<1> HIDE DEF T
<1>3. \A n \in Nat : n \in T
  BY <1>1, <1>2, NatGrows
<1> QED BY <1>3 DEF T

LEMMA SentSound ==
    ASSUME NEW d \in Datagrams
    PROVE  Sent(d) \in Seq(Pieces(Length[d]))
<1> DEFINE n  == Len(Path)
           on == CHOOSE f : Crossed(d, n, f)
           T  == {i \in Nat : i <= n => on[i] \in Seq(Pieces(Length[d]))}
<1>1. n \in Nat
  BY SizesAssumption DEF SizesAssumption
<1>2. Crossed(d, n, on)
  BY <1>1, CrossedExists
<1>3. Sent(d) = on[n]
  BY Zenon DEF Sent, Crossed
<1> HIDE DEF on, n
<1>4. ASSUME NEW i \in 0 .. n
      PROVE  on[i] = IF i = 0 THEN <<Whole(d)>> ELSE Cross(on[i - 1], Path[i])
  BY <1>2, Zenon DEF Crossed
<1>5. 0 \in T
  <2>1. on[0] = <<Whole(d)>>
    BY <1>1, <1>4
  <2>2. <<Whole(d)>> \in Seq(Pieces(Length[d]))
    BY WholeSound
  <2> QED BY <2>1, <2>2
<1>6. ASSUME NEW i \in Nat, i \in T PROVE i + 1 \in T
  <2>1. SUFFICES ASSUME i + 1 <= n PROVE on[i + 1] \in Seq(Pieces(Length[d]))
    OBVIOUS
  <2>2. i + 1 \in 0 .. n /\ i + 1 # 0 /\ i + 1 - 1 = i /\ i + 1 \in 1 .. Len(Path) /\ i <= n
    BY <1>1, <2>1 DEF n
  <2>3. on[i] \in Seq(Pieces(Length[d]))
    BY <1>6, <2>2
  <2>4. on[i + 1] = Cross(on[i], Path[i + 1])
    BY <1>4, <2>2
  <2> QED BY <2>2, <2>3, <2>4, WholeSound, CrossSound
<1> HIDE DEF T
<1>7. n \in T
  BY <1>1, <1>5, <1>6, NatGrows
<1> QED BY <1>1, <1>3, <1>7 DEF T

\* What is cut once arrives from the beginning to the end.
LEMMA SentChained ==
    ASSUME CutOnce, NEW d \in Datagrams
    PROVE  Len(Sent(d)) >= 1 /\ Sent(d)[1].ofst = 0 /\ Chained(Sent(d), Length[d])
<1>1. CASE Sent(d) = <<Whole(d)>>
  <2>1. Len(Sent(d)) = 1 /\ Sent(d)[1] = Whole(d)
    BY <1>1
  <2>2. Whole(d).more = FALSE /\ Whole(d).ofst = 0 /\ Ends(Whole(d)) = Length[d]
    BY WholeSound DEF Whole
  <2>3. Chained(Sent(d), Length[d])
    <3>1. ASSUME NEW i \in 1 .. Len(Sent(d))
          PROVE  /\ Sent(d)[i].more = (i < Len(Sent(d)))
                 /\ Ends(Sent(d)[i]) = IF i < Len(Sent(d)) THEN Sent(d)[i + 1].ofst * BLOCK ELSE Length[d]
      <4>1. i = 1 /\ (i < Len(Sent(d))) = FALSE
        BY <2>1
      <4> QED BY <2>1, <2>2, <4>1
    <3> QED BY <3>1, Zenon DEF Chained
  <2> QED BY <2>1, <2>2, <2>3
<1>2. CASE \E i \in 1 .. Len(Path) : Length[d] > Path[i].first /\ Sent(d) = fragment(Whole(d), Path[i])
  <2>1. PICK i \in 1 .. Len(Path) : Length[d] > Path[i].first /\ Sent(d) = fragment(Whole(d), Path[i])
    BY <1>2
  <2>2. Whole(d) \in Fragments /\ Whole(d).len = Length[d] /\ ~Whole(d).more
    BY WholeSound DEF Pieces
  <2>3. PICK m : m = Path[i]
    OBVIOUS
  <2>4. /\ m.first \in Nat \ {0} /\ m.others \in Nat \ {0}
        /\ m.first % BLOCK = 0 /\ m.others % BLOCK = 0
    BY <2>3, LinkSizes
  <2>5. /\ fragment(Whole(d), m) \in Seq(Pieces(Length[d])) /\ Len(fragment(Whole(d), m)) >= 2
        /\ fragment(Whole(d), m)[1].ofst = 0 /\ Chained(fragment(Whole(d), m), Length[d])
    BY <2>1, <2>2, <2>3, <2>4, FragmentSound
  <2>6. Len(fragment(Whole(d), m)) \in Nat
    BY <2>5
  <2> QED BY <2>1, <2>3, <2>5, <2>6
<1> QED BY <1>1, <1>2 DEF CutOnce

\* With one link on the way nothing is cut twice.
LEMMA OneLinkCutsOnce ==
    ASSUME Len(Path) <= 1
    PROVE  CutOnce
<1> SUFFICES ASSUME NEW d \in Datagrams
             PROVE  \/ Sent(d) = <<Whole(d)>>
                    \/ \E i \in 1 .. Len(Path) : Length[d] > Path[i].first /\ Sent(d) = fragment(Whole(d), Path[i])
  BY DEF CutOnce
<1> DEFINE n  == Len(Path)
           on == CHOOSE f : Crossed(d, n, f)
<1>1. n \in {0, 1}
  <2>1. n \in Nat
    BY SizesAssumption DEF SizesAssumption
  <2> QED BY <2>1
<1>2. Crossed(d, n, on)
  BY <1>1, CrossedExists
<1>3. Sent(d) = on[n]
  BY Zenon DEF Sent, Crossed
<1> HIDE DEF on, n
<1>4. ASSUME NEW i \in 0 .. n
      PROVE  on[i] = IF i = 0 THEN <<Whole(d)>> ELSE Cross(on[i - 1], Path[i])
  BY <1>2, Zenon DEF Crossed
<1>5. on[0] = <<Whole(d)>>
  BY <1>1, <1>4
<1>6. CASE n = 0
  BY <1>3, <1>5, <1>6
<1>7. CASE n = 1
  <2>1. on[1] = Cross(on[0], Path[1])
    <3>1. 1 \in 0 .. n /\ 1 # 0 /\ 1 - 1 = 0
      BY <1>7
    <3> QED BY <1>4, <3>1
  <2>2. 1 \in 1 .. Len(Path)
    BY <1>7 DEF n
  <2>3. PICK e : e = IF Whole(d).len <= Path[1].first THEN <<Whole(d)>> ELSE fragment(Whole(d), Path[1])
    OBVIOUS
  <2>4. e \in Seq(Fragments)
    <3>1. Whole(d) \in Fragments /\ Whole(d).len = Length[d] /\ Length[d] \in Nat
      BY WholeSound DEF Pieces
    <3>2. /\ Path[1].first \in Nat \ {0} /\ Path[1].others \in Nat \ {0}
          /\ Path[1].first % BLOCK = 0 /\ Path[1].others % BLOCK = 0
      BY <2>2, LinkSizes
    <3>3. CASE Whole(d).len <= Path[1].first
      BY <2>3, <3>1, <3>3
    <3>4. CASE ~(Whole(d).len <= Path[1].first)
      <4>1. PICK m : m = Path[1]
        OBVIOUS
      <4>2. fragment(Whole(d), m) \in Seq(Pieces(Length[d]))
        BY <3>1, <3>2, <3>4, <4>1, FragmentSound
      <4>3. Seq(Pieces(Length[d])) \subseteq Seq(Fragments)
        BY DEF Pieces
      <4> QED BY <2>3, <3>4, <4>1, <4>2, <4>3
    <3> QED BY <3>3, <3>4
  <2>5. Cross(<<Whole(d)>>, Path[1]) = FlattenSeq(<<e>>)
    <3>1. Len(<<Whole(d)>>) = 1 /\ <<Whole(d)>>[1] = Whole(d)
      OBVIOUS
    <3>2. [i \in 1 .. 1 |-> e] = <<e>>
      OBVIOUS
    <3>3. \A i \in 1 .. 1 : i = 1
      OBVIOUS
    <3>4. PICK w : w = <<Whole(d)>>
      OBVIOUS
    <3>5. [i \in 1 .. Len(w) |-> IF w[i].len <= Path[1].first THEN <<w[i]>> ELSE fragment(w[i], Path[1])]
            = [i \in 1 .. 1 |-> e]
      BY <2>3, <3>1, <3>3, <3>4
    <3> QED BY <3>2, <3>4, <3>5 DEF Cross
  <2>6. FlattenSeq(<<e>>) = e
    BY <2>4, FlattenFew
  <2>7. Sent(d) = e
    BY <1>3, <1>5, <1>7, <2>1, <2>5, <2>6
  <2>8. Whole(d).len = Length[d] /\ Length[d] \in Nat
    BY WholeSound
  <2>9. Path[1].first \in Nat
    BY <2>2, LinkSizes
  <2> QED BY <2>2, <2>3, <2>7, <2>8, <2>9
<1> QED BY <1>1, <1>6, <1>7

(***************************************************************************)
(* What a fragment does to the chain                                       *)
(***************************************************************************)
\* One element of a sequence is replaced, or appended; one is taken out.
Splice(s, p, e) == SubSeq(s, 1, p - 1) \o <<e>> \o SubSeq(s, p + 1, Len(s))

LEMMA Spliced ==
    ASSUME NEW S, NEW s \in Seq(S), NEW p \in 1 .. Len(s) + 1, NEW e \in S,
           NEW t, t = Splice(s, p, e)
    PROVE  /\ t \in Seq(S) /\ Len(t) = (IF p <= Len(s) THEN Len(s) ELSE Len(s) + 1)
           /\ \A i \in 1 .. Len(t) : i # p => i \in 1 .. Len(s) /\ t[i] = s[i]
           /\ \A i \in 1 .. Len(t) : t[i] = IF i = p THEN e ELSE s[i]
<1> DEFINE f == SubSeq(s, 1, p - 1)
           b == SubSeq(s, p + 1, Len(s))
           r == f \o <<e>> \o b
<1>1. Len(s) \in Nat /\ p \in Nat
  OBVIOUS
<1>2. /\ f \in Seq(S) /\ Len(f) = p - 1
      /\ \A i \in 1 .. p - 1 : f[i] = s[i]
  OBVIOUS
<1>3. /\ b \in Seq(S) /\ Len(b) = (IF p <= Len(s) THEN Len(s) - p ELSE 0)
      /\ \A i \in 1 .. Len(b) : b[i] = s[p + i]
  OBVIOUS
<1> HIDE DEF f, b
<1>4. /\ f \o <<e>> \in Seq(S) /\ Len(f \o <<e>>) = p
      /\ \A i \in 1 .. p : (f \o <<e>>)[i] = IF i < p THEN s[i] ELSE e
  BY <1>1, <1>2
<1>5. PICK g : g = f \o <<e>>
  OBVIOUS
<1>6. /\ r \in Seq(S) /\ Len(r) = p + Len(b)
      /\ \A i \in 1 .. p + Len(b) : r[i] = IF i <= p THEN g[i] ELSE b[i - p]
  <2>1. g \in Seq(S) /\ Len(g) = p
    BY <1>4, <1>5
  <2>2. r = g \o b
    BY <1>5
  <2>3. /\ g \o b \in Seq(S) /\ Len(g \o b) = Len(g) + Len(b)
        /\ \A i \in 1 .. Len(g) + Len(b) : (g \o b)[i] = IF i <= Len(g) THEN g[i] ELSE b[i - Len(g)]
    BY <1>3, <2>1, ConcatProperties
  <2> HIDE DEF r
  <2> QED BY <2>1, <2>2, <2>3, Zenon
<1> HIDE DEF r
<1>7. Len(b) \in Nat
  BY <1>1, <1>3
<1>8. ASSUME NEW i \in 1 .. Len(r), i # p PROVE i \in 1 .. Len(s) /\ r[i] = s[i]
  <2>1. CASE i < p
    <3>1. i \in 1 .. p /\ i \in 1 .. p + Len(b) /\ i \in 1 .. Len(s)
      BY <1>1, <1>7, <2>1
    <3>2. r[i] = g[i] /\ g[i] = s[i]
      BY <1>4, <1>5, <1>6, <2>1, <3>1
    <3> QED BY <3>1, <3>2
  <2>2. CASE i > p
    <3>1. i - p \in 1 .. Len(b) /\ p + (i - p) = i /\ i \in 1 .. p + Len(b) /\ ~(i <= p)
      <4>1. Len(r) = p + Len(b)
        BY <1>6
      <4> QED BY <1>1, <1>7, <2>2, <4>1
    <3>2. r[i] = b[i - p]
      BY <1>6, <3>1
    <3>3. b[i - p] = s[p + (i - p)]
      BY <1>3, <3>1
    <3>4. p <= Len(s) /\ i <= Len(s) /\ i \in 1 .. Len(s)
      BY <1>1, <1>3, <1>8, <2>2, <3>1
    <3> QED BY <3>1, <3>2, <3>3, <3>4
  <2> QED BY <1>1, <1>8, <2>1, <2>2
<1>9. r[p] = e
  BY <1>1, <1>4, <1>5, <1>6, <1>7
<1>10. Len(r) = IF p <= Len(s) THEN Len(s) ELSE Len(s) + 1
  BY <1>1, <1>3, <1>6
<1>11. t = r
  BY Zenon DEF Splice, r, f, b
<1>12. \A i \in 1 .. Len(r) : r[i] = IF i = p THEN e ELSE s[i]
  BY <1>8, <1>9
<1> QED BY <1>6, <1>8, <1>10, <1>11, <1>12, Zenon

LEMMA CutOut ==
    ASSUME NEW S, NEW s \in Seq(S), NEW p \in 1 .. Len(s) + 1
    PROVE  LET t == SubSeq(s, 1, p - 1) \o SubSeq(s, p + 1, Len(s))
           IN  /\ t \in Seq(S) /\ Len(t) = (IF p <= Len(s) THEN Len(s) - 1 ELSE Len(s))
               /\ \A i \in 1 .. Len(t) : t[i] = IF i < p THEN s[i] ELSE s[i + 1]
<1> DEFINE f == SubSeq(s, 1, p - 1)
           b == SubSeq(s, p + 1, Len(s))
           t == f \o b
<1>1. Len(s) \in Nat /\ p \in Nat
  OBVIOUS
<1>2. /\ f \in Seq(S) /\ Len(f) = p - 1
      /\ \A i \in 1 .. p - 1 : f[i] = s[i]
  OBVIOUS
<1>3. /\ b \in Seq(S) /\ Len(b) = (IF p <= Len(s) THEN Len(s) - p ELSE 0)
      /\ \A i \in 1 .. Len(b) : b[i] = s[p + i]
  OBVIOUS
<1> HIDE DEF f, b
<1>4. /\ t \in Seq(S) /\ Len(t) = p - 1 + Len(b)
      /\ \A i \in 1 .. p - 1 + Len(b) : t[i] = IF i <= p - 1 THEN f[i] ELSE b[i - (p - 1)]
  <2>1. /\ f \o b \in Seq(S) /\ Len(f \o b) = Len(f) + Len(b)
        /\ \A i \in 1 .. Len(f) + Len(b) : (f \o b)[i] = IF i <= Len(f) THEN f[i] ELSE b[i - Len(f)]
    BY <1>2, <1>3, ConcatProperties
  <2>2. t = f \o b
    OBVIOUS
  <2> HIDE DEF t
  <2> QED BY <1>2, <2>1, <2>2, Zenon
<1> HIDE DEF t
<1>5. Len(b) \in Nat
  BY <1>1, <1>3
<1>6. ASSUME NEW i \in 1 .. Len(t) PROVE t[i] = IF i < p THEN s[i] ELSE s[i + 1]
  <2>1. CASE i < p
    BY <1>1, <1>2, <1>4, <1>5, <2>1
  <2>2. CASE i >= p
    <3>1. i - (p - 1) \in 1 .. Len(b) /\ p + (i - (p - 1)) = i + 1 /\ t[i] = b[i - (p - 1)]
      <4>1. i \in 1 .. p - 1 + Len(b) /\ ~(i <= p - 1) /\ i \in Nat
        BY <1>1, <1>4, <1>5, <2>2
      <4>2. t[i] = b[i - (p - 1)]
        BY <1>4, <4>1
      <4> QED BY <1>1, <1>5, <2>2, <4>1, <4>2
    <3>2. b[i - (p - 1)] = s[p + (i - (p - 1))]
      BY <1>3, <3>1
    <3>3. ~(i < p)
      BY <1>1, <2>2
    <3> QED BY <3>1, <3>2, <3>3, Zenon
  <2> QED BY <1>1, <2>1, <2>2
<1>7. Len(t) = IF p <= Len(s) THEN Len(s) - 1 ELSE Len(s)
  BY <1>1, <1>3, <1>4
<1> QED BY <1>4, <1>6, <1>7, Zenon DEF t, f, b

\* Every resource but the p-th stays, and no other comes.
Shrunk(p) ==
    /\ defrag' \in Seq(Resource)
    /\ \A i \in 1 .. Len(defrag)' : \E j \in 1 .. Len(defrag) :
         /\ j # p /\ j = (IF i < p THEN i ELSE i + 1) /\ defrag'[i] = defrag[j]
    /\ \A j \in 1 .. Len(defrag) : j # p => \E i \in 1 .. Len(defrag)' : defrag'[i] = defrag[j]

\* The p-th resource becomes walk.
Renewed(p, walk) ==
    /\ defrag' \in Seq(Resource) /\ p \in 1 .. Len(defrag)' /\ defrag'[p] = walk
    /\ \A i \in 1 .. Len(defrag)' : i # p => i \in 1 .. Len(defrag) /\ defrag'[i] = defrag[i]
    /\ \A i \in 1 .. Len(defrag) : i \in 1 .. Len(defrag)'

LEMMA RestStays ==
    ASSUME NEW s \in Seq(Resource), NEW p \in 1 .. Len(defrag) + 1, defrag \in Seq(Resource),
           Len(s) = (IF p <= Len(defrag) THEN Len(defrag) - 1 ELSE Len(defrag)), s = defrag',
           \A i \in 1 .. Len(s) : s[i] = IF i < p THEN defrag[i] ELSE defrag[i + 1]
    PROVE  Shrunk(p)
<1>1. Len(defrag) \in Nat /\ p \in Nat
  OBVIOUS
<1>2. ASSUME NEW i \in 1 .. Len(s)
      PROVE  \E j \in 1 .. Len(defrag) : j # p /\ j = (IF i < p THEN i ELSE i + 1) /\ s[i] = defrag[j]
  <2>1. CASE i < p
    <3>1. i \in 1 .. Len(defrag) /\ i # p /\ s[i] = defrag[i]
      BY <1>1, <2>1
    <3> QED BY <2>1, <3>1
  <2>2. CASE ~(i < p)
    <3>1. i + 1 \in 1 .. Len(defrag) /\ i + 1 # p /\ s[i] = defrag[i + 1]
      BY <1>1, <2>2
    <3> QED BY <2>2, <3>1
  <2> QED BY <2>1, <2>2
<1>3. ASSUME NEW j \in 1 .. Len(defrag), j # p
      PROVE  \E i \in 1 .. Len(s) : s[i] = defrag[j]
  <2>1. CASE j < p
    <3>1. j \in 1 .. Len(s) /\ s[j] = defrag[j]
      BY <1>1, <2>1
    <3> QED BY <3>1
  <2>2. CASE j > p
    <3>1. j - 1 \in 1 .. Len(s) /\ ~(j - 1 < p) /\ j - 1 + 1 = j
      BY <1>1, <2>2
    <3>2. s[j - 1] = defrag[j]
      BY <3>1
    <3> QED BY <3>1, <3>2
  <2> QED BY <1>1, <1>3, <2>1, <2>2
<1> QED BY <1>2, <1>3 DEF Shrunk

LEMMA FragmentParts ==
    ASSUME NEW f \in Fragments
    PROVE  /\ f.ofst \in Nat /\ f.len \in Nat \ {0} /\ f.more \in BOOLEAN
           /\ f.ofst * BLOCK \in Nat /\ Ends(f) \in Nat /\ Ends(f) = f.ofst * BLOCK + f.len
           /\ f.len \div BLOCK \in Nat /\ Ends(f) \div BLOCK = f.ofst + f.len \div BLOCK
<1>1. f.ofst \in Nat /\ f.len \in Nat \ {0} /\ f.more \in BOOLEAN
  BY DEF Fragments
<1>2. f.ofst * BLOCK \in Nat
  BY <1>1, BlockSize, TimesNat
<1>3. Ends(f) \in Nat /\ Ends(f) = f.ofst * BLOCK + f.len
  BY <1>1, <1>2 DEF Ends
<1>4. PICK q, r : q = f.len \div BLOCK /\ r = f.len % BLOCK
  OBVIOUS
<1>5. q \in Nat /\ r \in 0 .. BLOCK - 1 /\ f.len = q * BLOCK + r
  BY <1>1, <1>4, BlockSize, Divides
<1>6. f.ofst * BLOCK + q * BLOCK = (f.ofst + q) * BLOCK /\ q * BLOCK \in Nat /\ (f.ofst + q) * BLOCK \in Nat
  BY <1>1, <1>5, BlockSize, TimesNat
<1>7. Ends(f) = (f.ofst + q) * BLOCK + r
  BY <1>2, <1>3, <1>5, <1>6, BlockSize
<1>8. Ends(f) \div BLOCK = f.ofst + q
  <2>1. PICK a, c : a = Ends(f) /\ c = f.ofst + q
    OBVIOUS
  <2>2. a \in Nat /\ c \in Nat /\ a = c * BLOCK + r
    BY <1>1, <1>3, <1>5, <1>7, <2>1
  <2>3. a \div BLOCK = c
    BY <1>5, <2>2, BlockSize, DividesBy
  <2> QED BY <2>1, <2>3
<1> QED BY <1>1, <1>2, <1>3, <1>4, <1>5, <1>8

LEMMA ResourceParts ==
    ASSUME NEW w \in Resource
    PROVE  /\ w.header \in Datagrams \cup {Nobody} /\ w.space \in Nat /\ w.ttl_data \in Nat
           /\ w.have \subseteq Datagrams \X Nat /\ w.bits \subseteq Nat
BY DEF Resource

LEMMA GrownNat ==
    ASSUME NEW w \in Resource, NEW f \in Fragments
    PROVE  Needed(f) \in Nat /\ Grown(w, f) \in Nat
<1>1. Needed(f) \in Nat
  BY FragmentParts, BlockSize, Divides DEF Needed, Ends
<1>2. (Needed(f) + SPARE) % WORD \in Nat
  <2>1. Needed(f) + SPARE \in Nat
    BY <1>1, BlockSize
  <2> QED BY <2>1, BlockSize, Divides
<1> QED BY <1>1, <1>2, ResourceParts DEF Grown

LEMMA StoreSound ==
    ASSUME NEW w \in Resource, NEW d \in Datagrams, NEW f \in Fragments, NEW dirt \in SUBSET Nat
    PROVE  LET v == Store(w, d, f, dirt)
           IN  /\ v \in Resource
               /\ v.space = Grown(w, f) /\ v.bits = w.bits \cup dirt \cup Bitmap(f)
               /\ v.have = {x \in w.have : x[2] \notin Bytes(f)} \cup ({d} \X Bytes(f))
               /\ v.header = (IF f.ofst = 0 THEN d ELSE w.header)
               /\ v.ttl_data = (IF f.more THEN w.ttl_data ELSE Ends(f))
<1> DEFINE v == Store(w, d, f, dirt)
<1>1. v = [header |-> IF f.ofst = 0 THEN d ELSE w.header, space |-> Grown(w, f),
           have |-> {x \in w.have : x[2] \notin Bytes(f)} \cup ({d} \X Bytes(f)),
           bits |-> w.bits \cup dirt \cup Bitmap(f),
           ttl_data |-> IF f.more THEN w.ttl_data ELSE f.ofst * BLOCK + f.len]
  <2>1. w = [header |-> w.header, space |-> w.space, have |-> w.have, bits |-> w.bits, ttl_data |-> w.ttl_data]
    BY DEF Resource
  <2>2. PICK h, s, y, b, t : h = w.header /\ s = w.space /\ y = w.have /\ b = w.bits /\ t = w.ttl_data
    OBVIOUS
  <2>3. PICK n : n = Grown(w, f)
    OBVIOUS
  <2>4. v = [w EXCEPT !.space = n,
                      !.have = {x \in @ : x[2] \notin Bytes(f)} \cup ({d} \X Bytes(f)),
                      !.bits = @ \cup dirt \cup Bitmap(f),
                      !.header = IF f.ofst = 0 THEN d ELSE @,
                      !.ttl_data = IF f.more THEN @ ELSE f.ofst * BLOCK + f.len]
    BY <2>3 DEF Store
  <2> QED BY <2>1, <2>3, <2>4
<1> HIDE DEF v
<1>2. Bytes(f) \subseteq Nat /\ Bitmap(f) \subseteq Nat
  BY FragmentParts DEF Bytes, Bitmap
<1>3. v \in Resource
  <2>1. (IF f.ofst = 0 THEN d ELSE w.header) \in Datagrams \cup {Nobody}
    BY ResourceParts
  <2>2. {x \in w.have : x[2] \notin Bytes(f)} \cup ({d} \X Bytes(f)) \in SUBSET (Datagrams \X Nat)
    BY <1>2, ResourceParts
  <2>3. w.bits \cup dirt \cup Bitmap(f) \in SUBSET Nat
    BY <1>2, ResourceParts
  <2>4. (IF f.more THEN w.ttl_data ELSE f.ofst * BLOCK + f.len) \in Nat /\ Grown(w, f) \in Nat
    BY FragmentParts, ResourceParts, GrownNat
  <2> QED BY <1>1, <2>1, <2>2, <2>3, <2>4 DEF Resource
<1> QED BY <1>1, <1>3, FragmentParts DEF v

\* The place of a datagram is that of its resource, or behind all of the chain.
LEMMA PlaceSound ==
    ASSUME FragTypes, NEW d \in Datagrams, NEW w \in Before(d)
    PROVE  /\ Place(d) \in 1 .. Len(defrag) + 1 /\ w \in Resource
           /\ \/ Place(d) \in 1 .. Len(defrag) /\ w = defrag[Place(d)] /\ w.header = d
              \/ /\ \E was \in net.stale \cup {Nobody} : w = Fresh(was)
                 /\ Place(d) = Len(defrag) + 1 /\ \A j \in 1 .. Len(defrag) : defrag[j].header # d
<1>1. defrag \in Seq(Resource) /\ Len(defrag) \in Nat /\ net \in Networks
  BY DEF FragTypes
<1>2. CASE Matches(d) = {}
  <2>1. PICK was \in net.stale \cup {Nobody} : w = Fresh(was)
    BY <1>2 DEF Before
  <2>2. net.stale \subseteq Datagrams
    BY <1>1, NetworkAssumption DEF NetworkAssumption
  <2>3. w \in Resource
    BY <2>1, <2>2 DEF Fresh, Resource
  <2>4. \A j \in 1 .. Len(defrag) : defrag[j].header # d
    BY <1>2 DEF Matches
  <2>5. Place(d) = Len(defrag) + 1
    BY <1>2 DEF Place
  <2> QED BY <1>1, <2>1, <2>3, <2>4, <2>5
<1>3. CASE Matches(d) # {}
  <2>1. Matches(d) \subseteq Nat
    BY <1>1 DEF Matches
  <2>2. Place(d) \in Matches(d)
    BY <1>3, <2>1, MinIsLeast DEF Place
  <2>3. Place(d) \in 1 .. Len(defrag) /\ defrag[Place(d)].header = d
    BY <2>2 DEF Matches
  <2>4. w = defrag[Place(d)]
    BY <1>3 DEF Before
  <2> QED BY <1>1, <2>3, <2>4
<1> QED BY <1>2, <1>3

\* What reassembly leaves.
Collects(d, f, w, v, p) ==
    /\ w \in Resource /\ v \in Resource /\ p \in 1 .. Len(defrag) + 1
    /\ \E dirt \in SUBSET net.dirt : v = Store(w, d, f, dirt)
    /\ \/ p \in 1 .. Len(defrag) /\ w = defrag[p] /\ w.header = d
       \/ /\ \E was \in net.stale \cup {Nobody} : w = Fresh(was)
          /\ p = Len(defrag) + 1 /\ \A j \in 1 .. Len(defrag) : defrag[j].header # d
    /\ \/ Complete(v) /\ delivered' = delivered \cup {Delivery(v)} /\ Shrunk(p)
       \/ ~Complete(v) /\ delivered' = delivered /\ Renewed(p, v)

LEMMA DirtyNat ==
    ASSUME FragTypes, NEW w, NEW f
    PROVE  Dirty(w, f) \subseteq net.dirt /\ net.dirt \subseteq Nat
<1>1. net \in Networks
  BY DEF FragTypes
<1>2. net.dirt \subseteq Nat
  BY <1>1, NetworkAssumption DEF NetworkAssumption
<1> QED BY <1>2 DEF Dirty

LEMMA ReassemblySound ==
    ASSUME FragTypes, NEW d \in Datagrams, NEW f \in Fragments, reassembly(d, f)
    PROVE  \E w, v, p : Collects(d, f, w, v, p)
<1>1. PICK w \in Before(d) : \E dirt \in SUBSET Dirty(w, f) :
        LET v == Store(w, d, f, dirt)
        IN  IF Complete(v)
              THEN /\ delivered' = delivered \cup {Delivery(v)}
                   /\ defrag' = SubSeq(defrag, 1, Place(d) - 1) \o SubSeq(defrag, Place(d) + 1, Len(defrag))
              ELSE /\ defrag' = SubSeq(defrag, 1, Place(d) - 1) \o <<v>>
                                \o SubSeq(defrag, Place(d) + 1, Len(defrag))
                   /\ UNCHANGED delivered
  BY Zenon DEF reassembly
<1>2. PICK dirt \in SUBSET Dirty(w, f) :
        LET v == Store(w, d, f, dirt)
        IN  IF Complete(v)
              THEN /\ delivered' = delivered \cup {Delivery(v)}
                   /\ defrag' = SubSeq(defrag, 1, Place(d) - 1) \o SubSeq(defrag, Place(d) + 1, Len(defrag))
              ELSE /\ defrag' = SubSeq(defrag, 1, Place(d) - 1) \o <<v>>
                                \o SubSeq(defrag, Place(d) + 1, Len(defrag))
                   /\ UNCHANGED delivered
  BY <1>1, Zenon
<1>3. PICK v, p : v = Store(w, d, f, dirt) /\ p = Place(d)
  OBVIOUS
<1>4. IF Complete(v)
        THEN /\ delivered' = delivered \cup {Delivery(v)}
             /\ defrag' = SubSeq(defrag, 1, p - 1) \o SubSeq(defrag, p + 1, Len(defrag))
        ELSE /\ defrag' = SubSeq(defrag, 1, p - 1) \o <<v>> \o SubSeq(defrag, p + 1, Len(defrag))
             /\ delivered' = delivered
  BY <1>2, <1>3, Zenon
<1>5. dirt \in SUBSET net.dirt /\ dirt \in SUBSET Nat
  BY DirtyNat
<1>6. /\ p \in 1 .. Len(defrag) + 1 /\ w \in Resource
      /\ \/ p \in 1 .. Len(defrag) /\ w = defrag[p] /\ w.header = d
         \/ /\ \E was \in net.stale \cup {Nobody} : w = Fresh(was)
            /\ p = Len(defrag) + 1 /\ \A j \in 1 .. Len(defrag) : defrag[j].header # d
  BY <1>1, <1>3, PlaceSound, Zenon
<1>7. v \in Resource
  BY <1>3, <1>5, <1>6, StoreSound
<1>8. defrag \in Seq(Resource) /\ Len(defrag) \in Nat
  BY DEF FragTypes
<1>9. CASE Complete(v)
  <2>1. PICK s : s = SubSeq(defrag, 1, p - 1) \o SubSeq(defrag, p + 1, Len(defrag))
    OBVIOUS
  <2>2. /\ s \in Seq(Resource) /\ Len(s) = (IF p <= Len(defrag) THEN Len(defrag) - 1 ELSE Len(defrag))
        /\ \A i \in 1 .. Len(s) : s[i] = IF i < p THEN defrag[i] ELSE defrag[i + 1]
    BY <1>6, <1>8, <2>1, CutOut
  <2>3. s = defrag'
    BY <1>4, <1>9, <2>1
  <2>4. Shrunk(p)
    BY <1>6, <1>8, <2>2, <2>3, RestStays
  <2> QED BY <1>3, <1>4, <1>5, <1>6, <1>7, <1>9, <2>4, Zenon DEF Collects
<1>10. CASE ~Complete(v)
  <2>1. PICK s : s = SubSeq(defrag, 1, p - 1) \o <<v>> \o SubSeq(defrag, p + 1, Len(defrag))
    OBVIOUS
  <2>2. /\ s \in Seq(Resource) /\ Len(s) = (IF p <= Len(defrag) THEN Len(defrag) ELSE Len(defrag) + 1)
        /\ s[p] = v /\ \A i \in 1 .. Len(s) : i # p => i \in 1 .. Len(defrag) /\ s[i] = defrag[i]
    <3>1. p \in 1 .. Len(defrag) + 1
      BY <1>6
    <3>3. s = Splice(defrag, p, v)
      BY <2>1, Zenon DEF Splice
    <3>4. /\ s \in Seq(Resource) /\ Len(s) = (IF p <= Len(defrag) THEN Len(defrag) ELSE Len(defrag) + 1)
          /\ \A i \in 1 .. Len(s) : i # p => i \in 1 .. Len(defrag) /\ s[i] = defrag[i]
          /\ \A i \in 1 .. Len(s) : s[i] = IF i = p THEN v ELSE defrag[i]
      BY <1>7, <1>8, <3>1, <3>3, Spliced
    <3>5. p \in 1 .. Len(s)
      BY <1>8, <3>1, <3>4
    <3> QED BY <3>4, <3>5
  <2>3. s = defrag'
    BY <1>4, <1>10, <2>1
  <2>4. p \in 1 .. Len(s) /\ \A i \in 1 .. Len(defrag) : i \in 1 .. Len(s)
    BY <1>6, <1>8, <2>2
  <2>5. Renewed(p, v)
    BY <2>2, <2>3, <2>4, Zenon DEF Renewed
  <2> QED BY <1>3, <1>4, <1>5, <1>6, <1>7, <1>10, <2>5, Zenon DEF Collects
<1> QED BY <1>9, <1>10

(***************************************************************************)
(* More arithmetic                                                         *)
(***************************************************************************)
LEMMA SmallRest ==
    ASSUME NEW n \in Nat \ {0}, NEW a \in Nat, a < n
    PROVE  a % n = a /\ a \div n = 0
<1>1. a = 0 * n + a /\ a \in 0 .. n - 1
  BY 0 * n = 0
<1> QED BY <1>1, DividesBy

LEMMA DividesMonotone ==
    ASSUME NEW a \in Nat, NEW b \in Nat, a <= b, NEW n \in Nat \ {0}
    PROVE  a \div n <= b \div n /\ a \div n \in Nat /\ b \div n \in Nat
<1>1. PICK p, r, q, s : p = a \div n /\ r = a % n /\ q = b \div n /\ s = b % n
  OBVIOUS
<1>2. p \in Nat /\ r \in 0 .. n - 1 /\ a = p * n + r
  BY <1>1, Divides
<1>3. q \in Nat /\ s \in 0 .. n - 1 /\ b = q * n + s
  BY <1>1, Divides
<1>4. CASE q < p
  <2>1. (q + 1) * n <= p * n /\ (q + 1) * n = q * n + n /\ q * n \in Nat /\ p * n \in Nat
    BY <1>2, <1>3, <1>4, TimesGrows, TimesNat
  <2> QED BY <1>2, <1>3, <2>1
<1> QED BY <1>1, <1>2, <1>3, <1>4

\* A datagram of which every block has its bit is complete, unless its last block
\* is full and its last byte of the bits is not.
LEMMA AllBitsComplete ==
    ASSUME NEW v \in Resource, v.ttl_data # 0, v.bits = 0 .. v.ttl_data \div BLOCK,
           v.ttl_data % BLOCK # 0 \/ v.ttl_data % (BLOCK * BITS) = 0
    PROVE  Complete(v)
<1> DEFINE L == v.ttl_data
           N == BLOCK * BITS
<1>1. L \in Nat \ {0} /\ BLOCK \in Nat \ {0} /\ BITS \in Nat \ {0}
  BY BlockSize, ResourceParts
<1>2. N \in Nat \ {0} /\ N = BITS * BLOCK
  <2>1. CASE N = 0
    <3>1. 1 * BITS <= BLOCK * BITS
      BY <1>1, TimesGrows
    <3> QED BY <1>1, <2>1, <3>1
  <2>2. N \in Nat
    BY <1>1, TimesNat
  <2> QED BY <1>1, <2>1, <2>2
<1>3. PICK full, rem : full = L \div N /\ rem = L % N
  OBVIOUS
<1> HIDE DEF N
<1>4. full \in Nat /\ rem \in 0 .. N - 1 /\ L = full * N + rem
  BY <1>1, <1>2, <1>3, Divides
<1>5. PICK c, e : c = rem \div BLOCK /\ e = rem % BLOCK
  OBVIOUS
<1>6. c \in Nat /\ e \in 0 .. BLOCK - 1 /\ rem = c * BLOCK + e
  <2>1. rem \in Nat
    BY <1>2, <1>4
  <2> QED BY <1>1, <1>5, <2>1, Divides
<1>7. c < BITS
  <2>1. CASE BITS <= c
    <3>1. BITS * BLOCK <= c * BLOCK /\ c * BLOCK \in Nat
      BY <1>1, <1>6, <2>1, TimesGrows
    <3> QED BY <1>2, <1>4, <1>6, <3>1
  <2> QED BY <1>1, <1>6, <2>1
<1>8. /\ full * BITS \in Nat /\ L \div BLOCK = full * BITS + c /\ L % BLOCK = e
  <2>1. full * BITS \in Nat /\ c * BLOCK \in Nat
    BY <1>1, <1>4, <1>6, TimesNat
  <2>2. full * N = (full * BITS) * BLOCK
    BY <1>1, <1>2, <1>4
  <2>3. PICK k \in Nat : k = full * BITS
    BY <2>1
  <2>4. k * BLOCK + c * BLOCK = (k + c) * BLOCK
    <3>1. \A x, y, n \in Nat : x * n + y * n = (x + y) * n
      OBVIOUS
    <3> QED BY <1>1, <1>6, <2>3, <3>1
  <2>5. L = (k + c) * BLOCK + e /\ k + c \in Nat
    <3>1. PICK g, h, j : g = k * BLOCK /\ h = c * BLOCK /\ j = (k + c) * BLOCK
      OBVIOUS
    <3>2. g \in Nat /\ h \in Nat /\ g + h = j
      BY <1>1, <1>6, <2>1, <2>3, <2>4, <3>1, TimesNat
    <3>3. full * N = g
      BY <2>2, <2>3, <3>1
    <3>4. L = g + (h + e)
      BY <1>4, <1>6, <3>1, <3>3
    <3>5. e \in Nat /\ c \in Nat
      BY <1>1, <1>6
    <3>6. L = j + e
      BY <3>2, <3>4, <3>5
    <3> HIDE DEF L
    <3> QED BY <2>3, <3>1, <3>5, <3>6
  <2>6. L \div BLOCK = k + c /\ L % BLOCK = e
    BY <1>1, <1>6, <2>5, DividesBy
  <2> QED BY <2>1, <2>3, <2>6
<1>9. PICK k \in Nat : k = full * BITS
  BY <1>8
<1>10. v.bits = 0 .. k + c
  BY <1>8, <1>9
<1>11. PICK needed : needed = (rem + BLOCK - 1) \div BLOCK
  OBVIOUS
<1>12. e # 0 => needed = c + 1
  <2>1. (c + 1) * BLOCK = c * BLOCK + BLOCK /\ c * BLOCK \in Nat
    BY <1>1, <1>6, TimesNat
  <2>2. PICK a, q : a = rem + BLOCK - 1 /\ q = c + 1
    OBVIOUS
  <2>3. e # 0 => a = q * BLOCK + (e - 1) /\ e - 1 \in 0 .. BLOCK - 1 /\ a \in Nat /\ q \in Nat
    BY <1>1, <1>6, <2>1, <2>2
  <2>4. e # 0 => a \div BLOCK = q
    BY <1>1, <2>3, DividesBy
  <2> QED BY <1>11, <2>2, <2>4
<1>13. e = 0 => needed = 0
  <2>1. e = 0 => rem = 0
    BY <1>3, <1>8 DEF N
  <2>2. e = 0 => rem + BLOCK - 1 = BLOCK - 1 /\ BLOCK - 1 \in Nat /\ BLOCK - 1 < BLOCK
    BY <1>1, <2>1
  <2>3. (BLOCK - 1) \div BLOCK = 0
    <3>1. BLOCK - 1 \in Nat /\ BLOCK - 1 < BLOCK
      BY <1>1
    <3> QED BY <1>1, <3>1, SmallRest
  <2> QED BY <1>11, <2>2, <2>3
<1>14. ASSUME NEW b \in 0 .. k + c
       PROVE  b \div BITS = full <=> b \in k .. k + c
  <2>1. CASE b \in k .. k + c
    <3>1. PICK r : r = b - k
      OBVIOUS
    <3>2. b \in Nat /\ r \in 0 .. BITS - 1 /\ b = full * BITS + r
      BY <1>1, <1>6, <1>7, <1>9, <2>1, <3>1
    <3>3. b \div BITS = full
      BY <1>1, <1>4, <3>2, DividesBy
    <3> QED BY <2>1, <3>3
  <2>2. CASE b < k
    <3>1. PICK q, r : q = b \div BITS /\ r = b % BITS
      OBVIOUS
    <3>2. b \in Nat /\ q \in Nat /\ r \in 0 .. BITS - 1 /\ b = q * BITS + r
      <4>1. b \in Nat
        OBVIOUS
      <4> QED BY <1>1, <3>1, <4>1, Divides
    <3>3. q * BITS \in Nat
      BY <1>1, <3>2, TimesNat
    <3>4. q # full
      BY <1>9, <2>2, <3>2, <3>3
    <3> QED BY <2>2, <3>1, <3>4
  <2> QED BY <1>6, <2>1, <2>2
<1>15. 0 .. k - 1 \subseteq v.bits
  <2>1. 0 .. k - 1 \subseteq 0 .. k + c
    BY <1>6
  <2> QED BY <1>10, <2>1
<1>16. e # 0 => {b \in v.bits : b \div BITS = full} = k .. k + needed - 1
  <2>1. k .. k + c \subseteq 0 .. k + c
    BY <1>6
  <2>2. {b \in 0 .. k + c : b \div BITS = full} = k .. k + c
    BY <1>14, <2>1
  <2>3. e # 0 => k + needed - 1 = k + c
    BY <1>6, <1>12
  <2> QED BY <1>10, <2>2, <2>3
<1>17. /\ L # 0 /\ 0 .. full * BITS - 1 \subseteq v.bits
       /\ needed # 0 => {b \in v.bits : b \div BITS = full} = full * BITS .. full * BITS + needed - 1
  BY <1>1, <1>9, <1>13, <1>15, <1>16
<1> QED BY <1>3, <1>11, <1>17, Zenon DEF Complete, N

\* What is complete has its first block.
LEMMA CompleteBegins ==
    ASSUME NEW v \in Resource, Complete(v)
    PROVE  v.ttl_data # 0 /\ 0 \in v.bits
<1> DEFINE L == v.ttl_data
           N == BLOCK * BITS
<1>1. L \in Nat /\ BLOCK \in Nat \ {0} /\ BITS \in Nat \ {0}
  BY BlockSize, ResourceParts
<1>2. N \in Nat \ {0}
  <2>1. CASE N = 0
    <3>1. 1 * BITS <= BLOCK * BITS
      BY <1>1, TimesGrows
    <3> QED BY <1>1, <2>1, <3>1
  <2>2. N \in Nat
    BY <1>1, TimesNat
  <2> QED BY <2>1, <2>2
<1>3. PICK full, rem : full = L \div N /\ rem = L % N
  OBVIOUS
<1>4. PICK needed : needed = (rem + BLOCK - 1) \div BLOCK
  OBVIOUS
<1>5. /\ L # 0 /\ 0 .. full * BITS - 1 \subseteq v.bits
      /\ needed # 0 => {b \in v.bits : b \div BITS = full} = full * BITS .. full * BITS + needed - 1
  BY <1>3, <1>4, Zenon DEF Complete
<1> HIDE DEF N
<1>6. full \in Nat /\ rem \in 0 .. N - 1 /\ L = full * N + rem
  BY <1>1, <1>2, <1>3, Divides
<1>7. CASE full # 0
  <2>1. 1 * BITS <= full * BITS /\ full * BITS \in Nat
    BY <1>1, <1>6, <1>7, TimesGrows
  <2>2. 0 \in 0 .. full * BITS - 1
    BY <1>1, <2>1
  <2> QED BY <1>5, <2>2
<1>8. CASE full = 0
  <2>1. rem >= 1 /\ rem \in Nat
    <3>1. full * N = 0
      BY <1>2, <1>8
    <3> QED BY <1>1, <1>2, <1>5, <1>6, <3>1
  <2>2. needed \in Nat /\ needed >= 1
    <3>1. PICK a : a = rem + BLOCK - 1
      OBVIOUS
    <3>2. a \in Nat /\ BLOCK <= a
      BY <1>1, <2>1, <3>1
    <3>3. BLOCK \div BLOCK = 1
      <4>1. BLOCK = 1 * BLOCK + 0 /\ 0 \in 0 .. BLOCK - 1
        BY <1>1
      <4> QED BY <1>1, <4>1, DividesBy
    <3> QED BY <1>1, <1>4, <3>1, <3>2, <3>3, DividesMonotone
  <2>3. full * BITS = 0
    BY <1>1, <1>8
  <2>4. 0 \in full * BITS .. full * BITS + needed - 1
    BY <2>2, <2>3
  <2> QED BY <1>5, <2>2, <2>4
<1> QED BY <1>5, <1>7, <1>8


(***************************************************************************)
(* What is on its way                                                      *)
(***************************************************************************)
\* A fragment leaves the network, or comes again later.
Leaves(d, i) == wire' = [wire EXCEPT ![d] = RemoveAt(@, i)]

LEMMA WireParts ==
    ASSUME FragTypes, NEW d \in Datagrams
    PROVE  /\ wire[d] \in Seq(Fragments) /\ Len(wire[d]) \in Nat /\ DOMAIN wire = Datagrams
           /\ \A i \in 1 .. Len(wire[d]) : wire[d][i] \in Fragments
           /\ wire[d] # <<>> <=> Len(wire[d]) # 0
<1>1. wire \in [Datagrams -> Seq(Fragments)]
  BY DEF FragTypes
<1>2. wire[d] \in Seq(Fragments) /\ DOMAIN wire = Datagrams
  BY <1>1
<1> QED BY <1>2, LenProperties, ElementOfSeq, EmptySeq

LEMMA WireGoes ==
    ASSUME FragTypes, NEW d \in Datagrams, NEW i \in 1 .. Len(wire[d]), Leaves(d, i)
    PROVE  /\ wire' \in [Datagrams -> Seq(Fragments)]
           /\ \A x \in Datagrams : x # d => wire'[x] = wire[x]
           /\ Len(wire'[d]) = Len(wire[d]) - 1
           /\ \A j \in 1 .. Len(wire'[d]) :
                wire'[d][j] = IF j < i THEN wire[d][j] ELSE wire[d][j + 1]
<1>1. wire \in [Datagrams -> Seq(Fragments)] /\ wire[d] \in Seq(Fragments) /\ Len(wire[d]) \in Nat
  BY WireParts DEF FragTypes
<1>2. PICK s : s = RemoveAt(wire[d], i)
  OBVIOUS
<1>3. /\ s \in Seq(Fragments) /\ Len(s) = Len(wire[d]) - 1
      /\ \A j \in 1 .. Len(wire[d]) - 1 : s[j] = IF j < i THEN wire[d][j] ELSE wire[d][j + 1]
  BY <1>1, <1>2, RemoveSound
<1>4. wire' = [wire EXCEPT ![d] = s]
  BY <1>2 DEF Leaves
<1>5. wire' \in [Datagrams -> Seq(Fragments)] /\ wire'[d] = s /\ \A x \in Datagrams : x # d => wire'[x] = wire[x]
  BY <1>1, <1>3, <1>4
<1> QED BY <1>3, <1>5

LEMMA WithinStays ==
    ASSUME FragTypes, WithinLength, NEW d \in Datagrams, NEW i \in 1 .. Len(wire[d]), Leaves(d, i)
    PROVE  WithinLength'
<1>1. ASSUME NEW x \in Datagrams, NEW j \in 1 .. Len(wire'[x])
      PROVE  Ends(wire'[x][j]) <= Length[x]
  <2>1. CASE x # d
    BY <1>1, <2>1, WireGoes DEF WithinLength
  <2>2. CASE x = d
    <3>1. Len(wire[d]) \in Nat /\ i \in Nat
      BY WireParts
    <3>2. j \in 1 .. Len(wire[d]) - 1
      BY <2>2, WireGoes
    <3>3. PICK k \in 1 .. Len(wire[d]) : wire'[d][j] = wire[d][k]
      <4>1. j \in 1 .. Len(wire[d]) /\ j + 1 \in 1 .. Len(wire[d])
        BY <3>1, <3>2
      <4> QED BY <2>2, <4>1, WireGoes
    <3> QED BY <2>2, <3>3 DEF WithinLength
  <2> QED BY <2>1, <2>2
<1> QED BY <1>1 DEF WithinLength, Ends

\* The first fragment goes: what has passed is what came before it, or ends with it.
LEMMA FirstGoes ==
    ASSUME FragTypes, NEW d \in Datagrams, 1 \in 1 .. Len(wire[d]),
           \A x \in Datagrams : Chained(wire[x], Length[x]), Leaves(d, 1)
    PROVE  /\ \A x \in Datagrams : Chained(wire'[x], Length[x])
           /\ Passed(d)' = Ends(wire[d][1])
           /\ wire'[d] = <<>> => ~wire[d][1].more /\ Ends(wire[d][1]) = Length[d]
<1>1. Len(wire[d]) \in Nat /\ Len(wire[d]) >= 1
  BY WireParts
<1>2. /\ Len(wire'[d]) = Len(wire[d]) - 1 /\ wire'[d] \in Seq(Fragments)
      /\ \A j \in 1 .. Len(wire'[d]) : wire'[d][j] = wire[d][j + 1]
      /\ \A x \in Datagrams : x # d => wire'[x] = wire[x]
  <2>1. 1 \in 1 .. Len(wire[d])
    BY <1>1
  <2>2. \A j \in 1 .. Len(wire'[d]) : ~(j < 1)
    OBVIOUS
  <2> QED BY <2>1, <2>2, WireGoes
<1>3. PICK s, t : s = wire[d] /\ t = wire'[d]
  OBVIOUS
<1>4. \A i \in 1 .. Len(s) : /\ s[i].more = (i < Len(s))
                             /\ Ends(s[i]) = IF i < Len(s) THEN s[i + 1].ofst * BLOCK ELSE Length[d]
  BY <1>3 DEF Chained
<1>5. ASSUME NEW i \in 1 .. Len(t)
      PROVE  /\ t[i].more = (i < Len(t))
             /\ Ends(t[i]) = IF i < Len(t) THEN t[i + 1].ofst * BLOCK ELSE Length[d]
  <2>1. i + 1 \in 1 .. Len(s) /\ (i + 1 < Len(s) <=> i < Len(t)) /\ i \in Nat
    BY <1>1, <1>2, <1>3
  <2>2. t[i] = s[i + 1] /\ (i < Len(t) => t[i + 1] = s[i + 1 + 1])
    <3>1. i < Len(t) => i + 1 \in 1 .. Len(t)
      BY <1>1, <1>2, <1>3
    <3> QED BY <1>2, <1>3, <3>1
  <2> QED BY <1>4, <2>1, <2>2
<1>6. Chained(t, Length[d])
  BY <1>5 DEF Chained
<1>7. CASE t = <<>>
  <2>1. Len(s) = 1
    BY <1>1, <1>2, <1>3, <1>7
  <2>2. ~s[1].more /\ Ends(s[1]) = Length[d]
    <3>1. 1 \in 1 .. Len(s) /\ ~(1 < Len(s))
      BY <2>1
    <3>2. /\ s[1].more = (1 < Len(s))
          /\ Ends(s[1]) = IF 1 < Len(s) THEN s[1 + 1].ofst * BLOCK ELSE Length[d]
      BY <1>4, <3>1, Zenon
    <3> QED BY <3>1, <3>2, Zenon
  <2>3. Passed(d)' = Length[d]
    BY <1>3, <1>7 DEF Passed
  <2> QED BY <1>2, <1>3, <1>6, <2>2, <2>3
<1>8. CASE t # <<>>
  <2>1. Len(t) # 0
    BY <1>2, <1>3, <1>8, EmptySeq
  <2>2. 1 < Len(s) /\ 1 \in 1 .. Len(t) /\ 1 \in 1 .. Len(s)
    BY <1>1, <1>2, <1>3, <2>1
  <2>3. t[1] = s[1 + 1] /\ Ends(s[1]) = s[1 + 1].ofst * BLOCK
    <3>1. Ends(s[1]) = IF 1 < Len(s) THEN s[1 + 1].ofst * BLOCK ELSE Length[d]
      BY <1>4, <2>2, Zenon
    <3> QED BY <1>2, <1>3, <2>2, <3>1, Zenon
  <2>4. Passed(d)' = t[1].ofst * BLOCK
    BY <1>3, <1>8 DEF Passed
  <2> QED BY <1>2, <1>3, <1>6, <1>8, <2>3, <2>4
<1> QED BY <1>7, <1>8

(***************************************************************************)
(* The types, and the room for the data                                    *)
(***************************************************************************)
LEMMA DeliveryTypes ==
    ASSUME NEW v \in Resource
    PROVE  Delivery(v).id = v.header /\ Delivery(v).len = v.ttl_data
BY DEF Delivery

LEMMA CollectsTypes ==
    ASSUME FragTypes, NEW d, NEW f, NEW w, NEW v, NEW p, Collects(d, f, w, v, p)
    PROVE  /\ defrag' \in Seq(Resource)
           /\ \A x \in delivered' : x.id \in Datagrams \cup {Nobody} /\ x.len \in Nat
<1>1. defrag' \in Seq(Resource)
  BY DEF Collects, Shrunk, Renewed
<1>2. ASSUME NEW x \in delivered' PROVE x.id \in Datagrams \cup {Nobody} /\ x.len \in Nat
  <2>1. v \in Resource /\ (x \in delivered \/ x = Delivery(v))
    BY DEF Collects
  <2>2. CASE x \in delivered
    BY <2>2 DEF FragTypes
  <2>3. CASE x = Delivery(v)
    BY <2>1, <2>3, DeliveryTypes, ResourceParts
  <2> QED BY <2>1, <2>2, <2>3
<1> QED BY <1>1, <1>2

\* The buffer is never made smaller, and ends behind the fragment.
LEMMA GrownFits ==
    ASSUME Short, NEW d \in Datagrams, NEW f \in Fragments, Ends(f) <= Length[d], NEW w \in Resource
    PROVE  Grown(w, f) >= w.space /\ Grown(w, f) >= Ends(f) /\ Grown(w, f) \in Nat
<1>1. Length[d] \in Nat /\ Length[d] + SPARE < WORD /\ SPARE \in Nat /\ WORD \in Nat \ {0}
  BY BlockSize, WholeSound DEF Short
<1>2. Ends(f) \in Nat /\ Ends(f) < WORD /\ Ends(f) + SPARE < WORD /\ Ends(f) + SPARE \in Nat
  BY <1>1, FragmentParts
<1>3. Needed(f) = Ends(f)
  <2>1. Ends(f) % WORD = Ends(f)
    BY <1>1, <1>2, SmallRest
  <2> QED BY <2>1 DEF Needed, Ends
<1>4. (Ends(f) + SPARE) % WORD = Ends(f) + SPARE
  BY <1>1, <1>2, SmallRest
<1>5. Grown(w, f) = IF w.space < Ends(f) THEN Ends(f) + SPARE ELSE w.space
  BY <1>3, <1>4 DEF Grown
<1>6. w.space \in Nat
  BY ResourceParts
<1> QED BY <1>1, <1>2, <1>5, <1>6

FitsIn(r) == \A x \in r.have : x[2] < r.space

LEMMA StoreFits ==
    ASSUME Short, NEW d \in Datagrams, NEW f \in Fragments, Ends(f) <= Length[d], NEW w \in Resource,
           FitsIn(w), NEW dirt \in SUBSET Nat, NEW v, v = Store(w, d, f, dirt)
    PROVE  FitsIn(v)
<1>1. /\ v.space = Grown(w, f)
      /\ v.have = {x \in w.have : x[2] \notin Bytes(f)} \cup ({d} \X Bytes(f))
  BY StoreSound
<1>2. Grown(w, f) >= w.space /\ Grown(w, f) >= Ends(f) /\ Grown(w, f) \in Nat /\ w.space \in Nat
  BY GrownFits, ResourceParts
<1>3. ASSUME NEW x \in v.have PROVE x[2] < v.space
  <2>1. CASE x \in w.have
    <3>1. x[2] < w.space /\ x[2] \in Nat
      BY <2>1, ResourceParts DEF FitsIn
    <3> QED BY <1>1, <1>2, <3>1
  <2>2. CASE x \in {d} \X Bytes(f)
    <3>1. x[2] \in Bytes(f)
      BY <2>2
    <3>2. x[2] \in f.ofst * BLOCK .. f.ofst * BLOCK + f.len - 1
      BY <3>1, Zenon DEF Bytes
    <3>3. x[2] < Ends(f) /\ x[2] \in Nat /\ Ends(f) \in Nat
      BY <3>2, FragmentParts
    <3> QED BY <1>1, <1>2, <3>3
  <2> QED BY <1>1, <2>1, <2>2
<1> QED BY <1>3 DEF FitsIn

LEMMA DataStillFits ==
    ASSUME FragTypes, DataFits, NEW d \in Datagrams, NEW f \in Fragments, Ends(f) <= Length[d],
           NEW w, NEW v, NEW p, Collects(d, f, w, v, p)
    PROVE  DataFits'
<1>1. SUFFICES ASSUME Short, NEW i \in 1 .. Len(defrag') PROVE FitsIn(defrag'[i])
  <2>1. Short' <=> Short
    BY DEF Short
  <2> QED BY <1>1, <2>1 DEF DataFits, FitsIn
<1>2. \A j \in 1 .. Len(defrag) : FitsIn(defrag[j])
  BY <1>1 DEF DataFits, FitsIn
<1>3. FitsIn(v)
  <2>1. FitsIn(w)
    <3>1. CASE p \in 1 .. Len(defrag) /\ w = defrag[p]
      BY <1>2, <3>1
    <3>2. CASE \E was \in net.stale \cup {Nobody} : w = Fresh(was)
      BY <3>2 DEF Fresh, FitsIn
    <3> QED BY <3>1, <3>2 DEF Collects
  <2>2. PICK dirt \in SUBSET net.dirt : v = Store(w, d, f, dirt)
    BY DEF Collects
  <2>3. dirt \in SUBSET Nat
    BY DirtyNat
  <2>4. w \in Resource
    BY DEF Collects
  <2> QED BY <1>1, <2>1, <2>2, <2>3, <2>4, StoreFits
<1>4. CASE Shrunk(p)
  <2>1. PICK j \in 1 .. Len(defrag) : defrag'[i] = defrag[j]
    BY <1>4 DEF Shrunk
  <2> QED BY <1>2, <2>1
<1>5. CASE Renewed(p, v)
  <2>1. i # p => i \in 1 .. Len(defrag) /\ defrag'[i] = defrag[i]
    BY <1>5 DEF Renewed
  <2>2. i = p => defrag'[i] = v
    BY <1>5 DEF Renewed
  <2> QED BY <1>2, <1>3, <2>1, <2>2
<1> QED BY <1>4, <1>5 DEF Collects


(***************************************************************************)
(* The benign network                                                      *)
(***************************************************************************)
\* The first fragment of d arrives, and stays on its way if it will come twice.
Comes(d, f, w, v, p) ==
    /\ 1 \in 1 .. Len(wire[d]) /\ f = wire[d][1]
    /\ Collects(d, f, w, v, p)
    /\ wire' = wire \/ Leaves(d, 1)

LEMMA BenignChains ==
    ASSUME Benign, BenignInv
    PROVE  /\ \A d \in Datagrams : Chained(wire[d], Length[d])
           /\ \A i \in 1 .. Len(defrag) : Collected(defrag[i])
           /\ \A i, j \in 1 .. Len(defrag) :
                defrag[i].header = defrag[j].header /\ defrag[i].header # Nobody => i = j
           /\ OnlyWhole
           /\ \A d \in Datagrams : Completes(d) /\ d \notin lost => Pending(d)
BY Zenon DEF BenignInv

LEMMA PassedSound ==
    ASSUME FragTypes, WithinLength, Benign, BenignInv, NEW d \in Datagrams,
           NEW f, NEW w, NEW v, NEW p, Comes(d, f, w, v, p)
    PROVE  /\ f \in Fragments /\ Ends(f) <= Length[d] /\ wire[d] # <<>>
           /\ Passed(d) = f.ofst * BLOCK
           /\ Passed(d)' \in {Passed(d), Ends(f)}
           /\ \A x \in Datagrams : x # d => wire'[x] = wire[x] /\ Passed(x)' = Passed(x)
           /\ \A x \in Datagrams : Chained(wire'[x], Length[x])
           /\ ~f.more => Ends(f) = Length[d]
           /\ wire'[d] = <<>> => ~f.more
<1>1. /\ f \in Fragments /\ Len(wire[d]) \in Nat /\ 1 \in 1 .. Len(wire[d]) /\ f = wire[d][1]
      /\ wire[d] # <<>>
  <2>1. 1 \in 1 .. Len(wire[d]) /\ f = wire[d][1]
    BY DEF Comes
  <2>2. Len(wire[d]) \in Nat /\ wire[d][1] \in Fragments /\ wire[d] # <<>>
    <3>1. Len(wire[d]) \in Nat /\ (wire[d] # <<>> <=> Len(wire[d]) # 0)
          /\ \A i \in 1 .. Len(wire[d]) : wire[d][i] \in Fragments
      BY WireParts
    <3>2. Len(wire[d]) # 0
      BY <2>1, <3>1
    <3> QED BY <2>1, <3>1, <3>2, Zenon
  <2> QED BY <2>1, <2>2, Zenon
<1>2. Ends(f) <= Length[d] /\ Passed(d) = f.ofst * BLOCK
  BY <1>1 DEF WithinLength, Passed
<1>3. \A x \in Datagrams : Chained(wire[x], Length[x])
  BY BenignChains
<1>4. ~f.more => Ends(f) = Length[d]
  <2>1. /\ wire[d][1].more = (1 < Len(wire[d]))
        /\ Ends(wire[d][1]) = IF 1 < Len(wire[d]) THEN wire[d][1 + 1].ofst * BLOCK ELSE Length[d]
    BY <1>1, <1>3, Zenon DEF Chained
  <2> QED BY <1>1, <2>1, Zenon
<1>5. CASE wire' = wire
  <2>1. \A x \in Datagrams : wire'[x] = wire[x] /\ Passed(x)' = Passed(x)
    BY <1>5 DEF Passed
  <2> QED BY <1>1, <1>2, <1>3, <1>4, <2>1
<1>6. CASE Leaves(d, 1)
  <2>1. /\ \A x \in Datagrams : Chained(wire'[x], Length[x])
        /\ Passed(d)' = Ends(f) /\ (wire'[d] = <<>> => ~f.more)
    BY <1>1, <1>3, <1>6, FirstGoes
  <2>2. \A x \in Datagrams : x # d => wire'[x] = wire[x]
    BY <1>1, <1>6, WireGoes
  <2>3. \A x \in Datagrams : x # d => Passed(x)' = Passed(x)
    BY <2>2 DEF Passed
  <2> QED BY <1>1, <1>2, <1>4, <2>1, <2>2, <2>3
<1> QED BY <1>5, <1>6 DEF Comes

\* What is covered stays covered, and the fragment is added.
LEMMA StoreCovers ==
    ASSUME NEW d \in Datagrams, NEW f \in Fragments, NEW w \in Resource, NEW n \in Nat,
           NEW v, v.have = {x \in w.have : x[2] \notin Bytes(f)} \cup ({d} \X Bytes(f)),
           Covers(w, d, n)
    PROVE  Covers(v, d, n) /\ (f.ofst * BLOCK <= n => Covers(v, d, Ends(f)))
<1>1. /\ f.ofst * BLOCK \in Nat /\ Ends(f) = f.ofst * BLOCK + f.len /\ f.len \in Nat
      /\ Bytes(f) = f.ofst * BLOCK .. f.ofst * BLOCK + f.len - 1
  BY FragmentParts DEF Bytes
<1>2. ASSUME NEW b \in Nat, b < n \/ b \in Bytes(f) PROVE <<d, b>> \in v.have
  <2>1. CASE b \in Bytes(f)
    BY <2>1
  <2>2. CASE b \notin Bytes(f)
    <3>1. b \in 0 .. n - 1
      BY <1>2, <2>2
    <3>2. <<d, b>> \in w.have
      BY <3>1 DEF Covers
    <3>3. <<d, b>>[2] \notin Bytes(f)
      BY <2>2
    <3> QED BY <3>2, <3>3
  <2> QED BY <2>1, <2>2
<1>3. Covers(v, d, n)
  <2>1. \A b \in 0 .. n - 1 : b \in Nat /\ b < n
    OBVIOUS
  <2> QED BY <1>2, <2>1 DEF Covers
<1>4. ASSUME f.ofst * BLOCK <= n PROVE Covers(v, d, Ends(f))
  <2>1. \A b \in 0 .. Ends(f) - 1 : b \in Nat /\ (b < n \/ b \in Bytes(f))
    BY <1>1, <1>4
  <2> QED BY <1>2, <2>1 DEF Covers
<1> QED BY <1>3, <1>4

LEMMA FewerCovered ==
    ASSUME NEW v, NEW d, NEW n \in Nat, NEW m \in Nat, m <= n, Covers(v, d, n)
    PROVE  Covers(v, d, m)
BY \A b \in 0 .. m - 1 : b \in 0 .. n - 1 DEF Covers

\* What reassembly begins with, and what it makes of it.
LEMMA BenignStore ==
    ASSUME FragTypes, Benign, NEW d \in Datagrams, NEW f \in Fragments,
           NEW w, NEW v, NEW p, Collects(d, f, w, v, p)
    PROVE  /\ v \in Resource /\ w \in Resource
           /\ v.have = {x \in w.have : x[2] \notin Bytes(f)} \cup ({d} \X Bytes(f))
           /\ v.bits = w.bits \cup Bitmap(f)
           /\ v.header = (IF f.ofst = 0 THEN d ELSE w.header)
           /\ v.ttl_data = (IF f.more THEN w.ttl_data ELSE Ends(f))
           /\ \/ p \in 1 .. Len(defrag) /\ w = defrag[p] /\ w.header = d
              \/ /\ w.header = Nobody /\ w.have = {} /\ w.bits = {} /\ w.ttl_data = 0
                 /\ p = Len(defrag) + 1 /\ \A j \in 1 .. Len(defrag) : defrag[j].header # d
<1>1. /\ w \in Resource /\ v \in Resource
      /\ \E dirt \in SUBSET net.dirt : v = Store(w, d, f, dirt)
      /\ \/ p \in 1 .. Len(defrag) /\ w = defrag[p] /\ w.header = d
         \/ /\ \E was \in net.stale \cup {Nobody} : w = Fresh(was)
            /\ p = Len(defrag) + 1 /\ \A j \in 1 .. Len(defrag) : defrag[j].header # d
  BY Zenon DEF Collects
<1>2. net.dirt = {} /\ net.stale = {}
  BY DEF Benign
<1>3. v = Store(w, d, f, {})
  BY <1>1, <1>2
<1>4. /\ v.have = {x \in w.have : x[2] \notin Bytes(f)} \cup ({d} \X Bytes(f))
      /\ v.bits = w.bits \cup {} \cup Bitmap(f)
      /\ v.header = (IF f.ofst = 0 THEN d ELSE w.header)
      /\ v.ttl_data = (IF f.more THEN w.ttl_data ELSE Ends(f))
  <2>1. {} \in SUBSET Nat
    OBVIOUS
  <2> QED BY <1>1, <1>3, <2>1, StoreSound
<1>5. CASE \E was \in net.stale \cup {Nobody} : w = Fresh(was)
  <2>1. w = Fresh(Nobody)
    BY <1>2, <1>5
  <2>2. w.header = Nobody /\ w.have = {} /\ w.bits = {} /\ w.ttl_data = 0
    BY <2>1 DEF Fresh
  <2> QED BY <1>1, <1>4, <2>2
<1>6. CASE p \in 1 .. Len(defrag) /\ w = defrag[p] /\ w.header = d
  BY <1>1, <1>4, <1>6
<1> QED BY <1>1, <1>5, <1>6


\* The resource that got the fragment is in order again.
LEMMA WalkCollected ==
    ASSUME FragTypes, WithinLength, Benign, BenignInv, NEW d \in Datagrams,
           NEW f, NEW w, NEW v, NEW p, Comes(d, f, w, v, p)
    PROVE  /\ v.header \in {d, Nobody} /\ d # Nobody
           /\ v.header = Nobody => 0 \notin v.bits
           /\ v.header = d =>
                /\ Covers(v, d, Ends(f)) /\ 0 .. Ends(f) \div BLOCK \subseteq v.bits
                /\ v.ttl_data # 0 => v.ttl_data = Length[d] /\ Covers(v, d, Length[d])
                /\ v.bits \subseteq 0 .. Length[d] \div BLOCK
<1>1. /\ f \in Fragments /\ Ends(f) <= Length[d] /\ wire[d] # <<>>
      /\ Passed(d) = f.ofst * BLOCK
      /\ ~f.more => Ends(f) = Length[d]
  BY PassedSound
<1>2. /\ v \in Resource /\ w \in Resource
      /\ v.have = {x \in w.have : x[2] \notin Bytes(f)} \cup ({d} \X Bytes(f))
      /\ v.bits = w.bits \cup Bitmap(f)
      /\ v.header = (IF f.ofst = 0 THEN d ELSE w.header)
      /\ v.ttl_data = (IF f.more THEN w.ttl_data ELSE Ends(f))
      /\ \/ p \in 1 .. Len(defrag) /\ w = defrag[p] /\ w.header = d
         \/ /\ w.header = Nobody /\ w.have = {} /\ w.bits = {} /\ w.ttl_data = 0
            /\ p = Len(defrag) + 1 /\ \A j \in 1 .. Len(defrag) : defrag[j].header # d
  <2>1. Collects(d, f, w, v, p)
    BY DEF Comes
  <2> QED BY <1>1, <2>1, BenignStore
<1>3. d # Nobody
  BY NetworkAssumption DEF NetworkAssumption
<1>4. v.header \in {d, Nobody}
  BY <1>2
<1>5. /\ f.ofst \in Nat /\ f.len \in Nat \ {0} /\ f.ofst * BLOCK \in Nat /\ Ends(f) \in Nat
      /\ f.len \div BLOCK \in Nat /\ Ends(f) \div BLOCK = f.ofst + f.len \div BLOCK
      /\ Ends(f) = f.ofst * BLOCK + f.len
      /\ Length[d] \in Nat \ {0}
  BY <1>1, FragmentParts, WholeSound
<1>6. PICK a, l : a = f.ofst + f.len \div BLOCK /\ l = Length[d] \div BLOCK
  OBVIOUS
<1>7. /\ a \in Nat /\ l \in Nat /\ a <= l /\ f.ofst <= a
      /\ Ends(f) \div BLOCK = a /\ Bitmap(f) = f.ofst .. a
  <2>1. Ends(f) \div BLOCK <= Length[d] \div BLOCK /\ Length[d] \div BLOCK \in Nat
    BY <1>1, <1>5, BlockSize, DividesMonotone
  <2> QED BY <1>5, <1>6, <2>1 DEF Bitmap
<1>8. (f.ofst * BLOCK) \div BLOCK = f.ofst
  <2>1. f.ofst * BLOCK = f.ofst * BLOCK + 0 /\ 0 \in 0 .. BLOCK - 1
    BY <1>5, BlockSize
  <2> QED BY <1>5, <2>1, BlockSize, DividesBy
<1>9. CASE w.header = d
  <2>1. p \in 1 .. Len(defrag) /\ w = defrag[p]
    BY <1>2, <1>3, <1>9
  <2>2. Collected(w)
    BY <2>1, BenignChains
  <2>3. /\ Covers(w, d, f.ofst * BLOCK)
        /\ w.ttl_data # 0 => w.ttl_data = Length[d] /\ Covers(w, d, Length[d])
        /\ 0 .. f.ofst \subseteq w.bits
        /\ w.bits \subseteq 0 .. l
    BY <1>1, <1>6, <1>8, <1>9, <2>2 DEF Collected
  <2>4. Covers(v, d, Ends(f))
    BY <1>2, <1>1, <1>5, <2>3, StoreCovers
  <2>5. 0 .. a \subseteq v.bits /\ v.bits \subseteq 0 .. l
    <3>1. 0 .. a \subseteq (0 .. f.ofst) \cup (f.ofst .. a)
      BY <1>5, <1>7
    <3>2. f.ofst .. a \subseteq 0 .. l
      BY <1>5, <1>7
    <3> QED BY <1>2, <1>7, <2>3, <3>1, <3>2
  <2>6. v.ttl_data # 0 => v.ttl_data = Length[d] /\ Covers(v, d, Length[d])
    <3>1. CASE f.more
      <4>1. v.ttl_data = w.ttl_data
        BY <1>2, <3>1
      <4>2. w.ttl_data # 0 => Covers(v, d, Length[d])
        BY <1>1, <1>2, <1>5, <2>3, StoreCovers
      <4> QED BY <2>3, <4>1, <4>2
    <3>2. CASE ~f.more
      BY <1>1, <1>2, <2>4, <3>2
    <3> QED BY <3>1, <3>2
  <2>7. v.header = d
    BY <1>2, <1>9
  <2> QED BY <1>3, <1>4, <1>6, <1>7, <2>4, <2>5, <2>6, <2>7
<1>10. CASE w.header # d
  <2>1. w.header = Nobody /\ w.have = {} /\ w.bits = {} /\ w.ttl_data = 0
    BY <1>2, <1>10
  <2>2. CASE f.ofst # 0
    <3>1. v.header = Nobody /\ v.bits = f.ofst .. a
      BY <1>2, <1>7, <2>1, <2>2
    <3>2. 0 \notin v.bits
      BY <1>5, <1>7, <2>2, <3>1
    <3> QED BY <1>3, <3>1, <3>2
  <2>3. CASE f.ofst = 0
    <3>1. v.header = d /\ v.bits = 0 .. a
      BY <1>2, <1>7, <2>1, <2>3
    <3>2. Covers(v, d, Ends(f))
      <4>1. Covers(w, d, 0)
        BY DEF Covers
      <4>2. f.ofst * BLOCK <= 0
        BY <2>3, BlockSize
      <4> QED BY <1>1, <1>2, <4>1, <4>2, StoreCovers
    <3>3. v.ttl_data # 0 => v.ttl_data = Length[d] /\ Covers(v, d, Length[d])
      BY <1>1, <1>2, <2>1, <3>2
    <3>4. v.bits \subseteq 0 .. l
      BY <1>7, <3>1
    <3> QED BY <1>3, <1>6, <1>7, <3>1, <3>2, <3>3, <3>4
  <2> QED BY <2>2, <2>3
<1> QED BY <1>9, <1>10

\* In the next state it is in order too, and so is every other one.
LEMMA StaysCollected ==
    ASSUME FragTypes, WithinLength, Benign, BenignInv, NEW d \in Datagrams,
           NEW f, NEW w, NEW v, NEW p, Comes(d, f, w, v, p)
    PROVE  /\ Collected(v)'
           /\ \A j \in 1 .. Len(defrag) : j # p => defrag[j].header # d
           /\ \A r \in Resource : Collected(r) /\ r.header # d => Collected(r)'
<1>1. /\ f \in Fragments /\ Ends(f) <= Length[d] /\ Passed(d) = f.ofst * BLOCK
      /\ Passed(d)' \in {Passed(d), Ends(f)}
      /\ \A x \in Datagrams : x # d => Passed(x)' = Passed(x)
  BY PassedSound
<1>2. /\ v.header \in {d, Nobody} /\ d # Nobody
      /\ v.header = Nobody => 0 \notin v.bits
      /\ v.header = d =>
           /\ Covers(v, d, Ends(f)) /\ 0 .. Ends(f) \div BLOCK \subseteq v.bits
           /\ v.ttl_data # 0 => v.ttl_data = Length[d] /\ Covers(v, d, Length[d])
           /\ v.bits \subseteq 0 .. Length[d] \div BLOCK
  BY WalkCollected
<1>3. PICK n : n = Passed(d)'
  OBVIOUS
<1>4. n \in Nat /\ Ends(f) \in Nat /\ n <= Ends(f)
  <2>1. f.ofst * BLOCK \in Nat /\ Ends(f) \in Nat /\ Ends(f) = f.ofst * BLOCK + f.len /\ f.len \in Nat
    BY <1>1, FragmentParts
  <2> QED BY <1>1, <1>3, <2>1
<1>5. v.header = d => Covers(v, d, n) /\ 0 .. n \div BLOCK \subseteq v.bits
  <2>1. Covers(v, d, Ends(f)) => Covers(v, d, n)
    BY <1>4, FewerCovered
  <2>2. n \div BLOCK <= Ends(f) \div BLOCK /\ n \div BLOCK \in Nat /\ Ends(f) \div BLOCK \in Nat
    BY <1>4, BlockSize, DividesMonotone
  <2>3. 0 .. n \div BLOCK \subseteq 0 .. Ends(f) \div BLOCK
    BY <2>2
  <2> QED BY <1>2, <2>1, <2>3
<1>6. Collected(v)'
  <2>1. v.header = Nobody => 0 \notin v.bits
    BY <1>2
  <2>2. ASSUME NEW x \in Datagrams, v.header = x
        PROVE  /\ Covers(v, x, Passed(x)')
               /\ v.ttl_data # 0 => v.ttl_data = Length[x] /\ Covers(v, x, Length[x])
               /\ 0 .. Passed(x)' \div BLOCK \subseteq v.bits
               /\ v.bits \subseteq 0 .. Length[x] \div BLOCK
    <3>1. x = d
      <4>1. Nobody \notin Datagrams
        BY NetworkAssumption DEF NetworkAssumption
      <4> QED BY <1>2, <2>2, <4>1
    <3> QED BY <1>2, <1>3, <1>5, <2>2, <3>1
  <2> QED BY <2>1, <2>2 DEF Collected, Covers
<1>7. \A j \in 1 .. Len(defrag) : j # p => defrag[j].header # d
  <2>1. \/ p \in 1 .. Len(defrag) /\ defrag[p].header = d
        \/ \A j \in 1 .. Len(defrag) : defrag[j].header # d
    BY DEF Comes, Collects
  <2>2. \A i, j \in 1 .. Len(defrag) :
           defrag[i].header = defrag[j].header /\ defrag[i].header # Nobody => i = j
    BY BenignChains
  <2> QED BY <1>2, <2>1, <2>2, Zenon
<1>8. ASSUME NEW r \in Resource, Collected(r), r.header # d PROVE Collected(r)'
  <2>1. r.header = Nobody => 0 \notin r.bits
    BY <1>8 DEF Collected
  <2>2. ASSUME NEW x \in Datagrams, r.header = x
        PROVE  /\ Covers(r, x, Passed(x)')
               /\ r.ttl_data # 0 => r.ttl_data = Length[x] /\ Covers(r, x, Length[x])
               /\ 0 .. Passed(x)' \div BLOCK \subseteq r.bits
               /\ r.bits \subseteq 0 .. Length[x] \div BLOCK
    <3>1. Passed(x)' = Passed(x)
      BY <1>1, <1>8, <2>2
    <3> QED BY <1>8, <2>2, <3>1 DEF Collected
  <2> QED BY <2>1, <2>2 DEF Collected, Covers
<1> QED BY <1>6, <1>7, <1>8


\* What is delivered is what was sent.
LEMMA DeliveredWhole ==
    ASSUME FragTypes, WithinLength, Benign, BenignInv, NEW d \in Datagrams,
           NEW f, NEW w, NEW v, NEW p, Comes(d, f, w, v, p)
    PROVE  /\ OnlyWhole'
           /\ delivered \subseteq delivered'
           /\ Complete(v) => v.header = d /\ \E x \in delivered' : x.id = d
<1>1. /\ v.header \in {d, Nobody} /\ d # Nobody
      /\ v.header = Nobody => 0 \notin v.bits
      /\ v.header = d =>
           /\ Covers(v, d, Ends(f)) /\ 0 .. Ends(f) \div BLOCK \subseteq v.bits
           /\ v.ttl_data # 0 => v.ttl_data = Length[d] /\ Covers(v, d, Length[d])
           /\ v.bits \subseteq 0 .. Length[d] \div BLOCK
  BY WalkCollected
<1>2. /\ v \in Resource
      /\ \/ Complete(v) /\ delivered' = delivered \cup {Delivery(v)}
         \/ ~Complete(v) /\ delivered' = delivered
  BY DEF Comes, Collects
<1>3. \A x \in delivered : x.whole /\ x.len = Length[x.id]
  BY BenignChains DEF OnlyWhole
<1>4. CASE ~Complete(v)
  BY <1>2, <1>3, <1>4 DEF OnlyWhole
<1>5. CASE Complete(v)
  <2>1. v.ttl_data # 0 /\ 0 \in v.bits
    BY <1>2, <1>5, CompleteBegins
  <2>2. v.header = d /\ v.ttl_data = Length[d] /\ Covers(v, d, Length[d])
    BY <1>1, <2>1
  <2>3. Delivery(v).id = d /\ Delivery(v).len = Length[d]
    BY <1>2, <2>2, DeliveryTypes
  <2>4. {d} \X (0 .. Length[d] - 1) \subseteq v.have
    BY <2>2, Zenon DEF Covers
  <2>5. Delivery(v).whole
    <3>1. {v.header} \X (0 .. v.ttl_data - 1) \subseteq v.have
      BY <2>2, <2>4
    <3> QED BY <3>1 DEF Delivery
  <2> QED BY <1>2, <1>3, <1>5, <2>2, <2>3, <2>5 DEF OnlyWhole
<1> QED BY <1>4, <1>5

\* No two resources are those of the same datagram.
LEMMA OneEach ==
    ASSUME FragTypes, WithinLength, Benign, BenignInv, NEW d \in Datagrams,
           NEW f, NEW w, NEW v, NEW p, Comes(d, f, w, v, p)
    PROVE  /\ \A i \in 1 .. Len(defrag') : \E r : r = defrag'[i] /\ Collected(r)'
           /\ \A i, j \in 1 .. Len(defrag') :
                defrag'[i].header = defrag'[j].header /\ defrag'[i].header # Nobody => i = j
<1>1. /\ Collected(v)'
      /\ \A j \in 1 .. Len(defrag) : j # p => defrag[j].header # d
      /\ \A r \in Resource : Collected(r) /\ r.header # d => Collected(r)'
  BY StaysCollected
<1>2. /\ \A i \in 1 .. Len(defrag) : Collected(defrag[i]) /\ defrag[i] \in Resource
      /\ \A i, j \in 1 .. Len(defrag) :
           defrag[i].header = defrag[j].header /\ defrag[i].header # Nobody => i = j
  <2>1. defrag \in Seq(Resource)
    BY DEF FragTypes
  <2> QED BY <2>1, BenignChains, ElementOfSeq
<1>3. v.header \in {d, Nobody}
  BY WalkCollected
<1>4. CASE Shrunk(p)
  <2>1. ASSUME NEW i \in 1 .. Len(defrag')
        PROVE  \E j \in 1 .. Len(defrag) : j # p /\ j = (IF i < p THEN i ELSE i + 1) /\ defrag'[i] = defrag[j]
    BY <1>4 DEF Shrunk
  <2>2. ASSUME NEW i \in 1 .. Len(defrag') PROVE \E r : r = defrag'[i] /\ Collected(r)'
    <3>1. PICK j \in 1 .. Len(defrag) : j # p /\ defrag'[i] = defrag[j]
      BY <2>1
    <3>2. PICK r : r = defrag[j]
      OBVIOUS
    <3>3. Collected(r)'
      BY <1>1, <1>2, <3>1, <3>2
    <3> QED BY <3>1, <3>2, <3>3
  <2>3. ASSUME NEW i \in 1 .. Len(defrag'), NEW j \in 1 .. Len(defrag'),
               defrag'[i].header = defrag'[j].header, defrag'[i].header # Nobody
        PROVE  i = j
    <3>1. PICK a \in 1 .. Len(defrag) : a = (IF i < p THEN i ELSE i + 1) /\ defrag'[i] = defrag[a]
      BY <2>1
    <3>2. PICK b \in 1 .. Len(defrag) : b = (IF j < p THEN j ELSE j + 1) /\ defrag'[j] = defrag[b]
      BY <2>1
    <3>3. a = b
      BY <1>2, <2>3, <3>1, <3>2
    <3>4. p \in Nat /\ i \in Nat /\ j \in Nat
      BY DEF Comes, Collects
    <3> QED BY <3>1, <3>2, <3>3, <3>4
  <2> QED BY <2>2, <2>3
<1>5. CASE Renewed(p, v)
  <2>1. /\ defrag'[p] = v
        /\ \A i \in 1 .. Len(defrag') : i # p => i \in 1 .. Len(defrag) /\ defrag'[i] = defrag[i]
    BY <1>5 DEF Renewed
  <2>2. ASSUME NEW i \in 1 .. Len(defrag') PROVE \E r : r = defrag'[i] /\ Collected(r)'
    <3>1. CASE i = p
      BY <1>1, <2>1, <3>1
    <3>2. CASE i # p
      <4>1. PICK r : r = defrag[i]
        OBVIOUS
      <4>2. Collected(r)' /\ r = defrag'[i]
        BY <1>1, <1>2, <2>1, <3>2, <4>1
      <4> QED BY <4>2
    <3> QED BY <3>1, <3>2
  <2>3. ASSUME NEW i \in 1 .. Len(defrag'), NEW j \in 1 .. Len(defrag'),
               defrag'[i].header = defrag'[j].header, defrag'[i].header # Nobody
        PROVE  i = j
    <3>1. CASE i # p /\ j # p
      BY <1>2, <2>1, <2>3, <3>1
    <3>2. CASE i = p /\ j # p
      BY <1>1, <1>3, <2>1, <2>3, <3>2
    <3>3. CASE i # p /\ j = p
      BY <1>1, <1>3, <2>1, <2>3, <3>3
    <3> QED BY <3>1, <3>2, <3>3
  <2> QED BY <2>2, <2>3
<1> QED BY <1>4, <1>5 DEF Comes, Collects

\* What is waited for is still to come.
LEMMA StillPending ==
    ASSUME FragTypes, WithinLength, Benign, BenignInv, NEW d \in Datagrams,
           NEW f, NEW w, NEW v, NEW p, Comes(d, f, w, v, p), lost' = lost,
           NEW x \in Datagrams, Completes(x), x \notin lost
    PROVE  Pending(x)'
<1>1. /\ f \in Fragments /\ Ends(f) <= Length[d] /\ wire[d] # <<>>
      /\ Passed(d) = f.ofst * BLOCK
      /\ \A y \in Datagrams : y # d => wire'[y] = wire[y] /\ Passed(y)' = Passed(y)
      /\ ~f.more => Ends(f) = Length[d]
      /\ wire'[d] = <<>> => ~f.more
  BY PassedSound
<1>2. /\ delivered \subseteq delivered'
      /\ Complete(v) => \E y \in delivered' : y.id = d
  BY DeliveredWhole
<1>3. \A j \in 1 .. Len(defrag) : j # p => defrag[j].header # d
  BY StaysCollected
<1>4. Pending(x)
  BY BenignChains
<1>5. CASE \E y \in delivered : y.id = x
  BY <1>2, <1>5 DEF Pending
<1>6. CASE x # d /\ wire[x] # <<>> /\ (Passed(x) = 0 \/ \E i \in 1 .. Len(defrag) : defrag[i].header = x)
  <2>1. wire'[x] # <<>> /\ Passed(x)' = Passed(x)
    BY <1>1, <1>6
  <2>2. ASSUME NEW i \in 1 .. Len(defrag), defrag[i].header = x
        PROVE  \E k \in 1 .. Len(defrag') : defrag'[k].header = x
    <3>1. i # p
      <4>1. p \in 1 .. Len(defrag) => defrag[p].header = d
        <5>1. \/ p \in 1 .. Len(defrag) /\ w = defrag[p] /\ w.header = d
              \/ p = Len(defrag) + 1
          BY DEF Comes, Collects
        <5>2. Len(defrag) \in Nat
          BY DEF FragTypes
        <5> QED BY <5>1, <5>2
      <4> QED BY <1>6, <2>2, <4>1
    <3>2. CASE Shrunk(p)
      <4>1. PICK k \in 1 .. Len(defrag') : defrag'[k] = defrag[i]
        BY <3>1, <3>2 DEF Shrunk
      <4> QED BY <2>2, <4>1
    <3>3. CASE Renewed(p, v)
      <4>1. i \in 1 .. Len(defrag') /\ defrag'[i] = defrag[i]
        BY <3>1, <3>3 DEF Renewed
      <4> QED BY <2>2, <4>1
    <3> QED BY <3>2, <3>3 DEF Comes, Collects
  <2> QED BY <1>6, <2>1, <2>2 DEF Pending
<1>7. CASE x = d /\ (Passed(d) = 0 \/ \E i \in 1 .. Len(defrag) : defrag[i].header = d)
  <2>1. v.header = d /\ v \in Resource /\ v.bits \subseteq 0 .. Length[d] \div BLOCK
        /\ 0 .. Ends(f) \div BLOCK \subseteq v.bits
        /\ v.ttl_data = (IF f.more THEN w.ttl_data ELSE Ends(f))
    <3>1. Collects(d, f, w, v, p)
      BY DEF Comes
    <3>2. /\ v \in Resource
          /\ v.header = (IF f.ofst = 0 THEN d ELSE w.header)
          /\ v.ttl_data = (IF f.more THEN w.ttl_data ELSE Ends(f))
          /\ \/ w.header = d
             \/ \A j \in 1 .. Len(defrag) : defrag[j].header # d
      BY <1>1, <3>1, BenignStore
    <3>3. Passed(d) = 0 => f.ofst = 0
      <4>1. f.ofst \in Nat
        BY <1>1, FragmentParts
      <4>2. f.ofst # 0 => 1 * BLOCK <= f.ofst * BLOCK /\ f.ofst * BLOCK \in Nat
        BY <4>1, BlockSize, TimesGrows
      <4> QED BY <1>1, <4>1, <4>2, BlockSize
    <3>4. v.header = d
      BY <1>7, <3>2, <3>3
    <3> QED BY <3>2, <3>4, WalkCollected
  <2>2. CASE Complete(v)
    BY <1>2, <1>7, <2>2 DEF Pending
  <2>3. CASE ~Complete(v)
    <3>1. p \in 1 .. Len(defrag') /\ defrag'[p].header = d
      BY <2>1, <2>3 DEF Comes, Collects, Renewed
    <3>2. wire'[d] # <<>>
      <4>1. SUFFICES ASSUME wire'[d] = <<>> PROVE FALSE
        OBVIOUS
      <4>2. v.ttl_data = Length[d] /\ Ends(f) = Length[d]
        BY <1>1, <2>1, <4>1
      <4>3. v.bits = 0 .. v.ttl_data \div BLOCK /\ v.ttl_data # 0
        BY <2>1, <4>2, WholeSound
      <4>4. v.ttl_data % BLOCK # 0 \/ v.ttl_data % (BLOCK * BITS) = 0
        BY <1>7, <4>2 DEF Completes
      <4>5. Complete(v)
        BY <2>1, <4>3, <4>4, AllBitsComplete
      <4> QED BY <2>3, <4>5
    <3> QED BY <1>7, <3>1, <3>2 DEF Pending
  <2> QED BY <2>2, <2>3
<1> QED BY <1>4, <1>5, <1>6, <1>7 DEF Pending


(***************************************************************************)
(* The invariant                                                           *)
(***************************************************************************)
LEMMA BenignComes ==
    ASSUME FragTypes, WithinLength, BenignInv, NEW d \in Datagrams,
           NEW f, NEW w, NEW v, NEW p, Benign => Comes(d, f, w, v, p), lost' = lost, net' = net
    PROVE  BenignInv'
<1>1. Benign' <=> Benign
  BY DEF Benign
<1>2. SUFFICES ASSUME Benign
               PROVE  /\ \A x \in Datagrams : Chained(wire'[x], Length[x])
                      /\ (\A i \in 1 .. Len(defrag) : Collected(defrag[i]))'
                      /\ \A i, j \in 1 .. Len(defrag') :
                           defrag'[i].header = defrag'[j].header /\ defrag'[i].header # Nobody => i = j
                      /\ OnlyWhole'
                      /\ \A x \in Datagrams : Completes(x) /\ x \notin lost => Pending(x)'
  BY <1>1, lost' = lost DEF BenignInv, Chained, Completes, Ends
<1>3. Comes(d, f, w, v, p)
  BY <1>2
<1>4. \A x \in Datagrams : Chained(wire'[x], Length[x])
  BY <1>2, <1>3, PassedSound
<1>5. /\ \A i \in 1 .. Len(defrag') : \E r : r = defrag'[i] /\ Collected(r)'
      /\ \A i, j \in 1 .. Len(defrag') :
           defrag'[i].header = defrag'[j].header /\ defrag'[i].header # Nobody => i = j
  BY <1>2, <1>3, OneEach
<1>6. OnlyWhole'
  BY <1>2, <1>3, DeliveredWhole
<1>7. \A x \in Datagrams : Completes(x) /\ x \notin lost => Pending(x)'
  BY <1>2, <1>3, StillPending
<1>8. (\A i \in 1 .. Len(defrag) : Collected(defrag[i]))'
  BY <1>5 DEF Collected, Covers, Passed
<1> QED BY <1>4, <1>5, <1>6, <1>7, <1>8, Zenon

LEMMA ArriveKeeps ==
    ASSUME FragInv, NEW d \in Datagrams, NEW i \in 1 .. Len(wire[d]), arrive(d, i)
    PROVE  FragInv'
<1>1. FragTypes /\ WithinLength /\ DataFits /\ BenignInv
  BY DEF FragInv
<1>2. /\ reassembly(d, wire[d][i]) /\ (net.ordered => i = 1)
      /\ \/ Leaves(d, i) /\ repeats' = repeats
         \/ repeats < Repeats /\ repeats' = repeats + 1 /\ wire' = wire
      /\ net' = net /\ lost' = lost /\ dangling' = dangling
  BY DEF arrive, Arrives, Leaves
<1>3. PICK f : f = wire[d][i]
  OBVIOUS
<1>4. f \in Fragments
  BY <1>1, <1>3, WireParts
<1>5. PICK w, v, p : Collects(d, f, w, v, p)
  BY <1>1, <1>2, <1>3, <1>4, ReassemblySound
<1>6. FragTypes'
  <2>1. wire' \in [Datagrams -> Seq(Fragments)]
    BY <1>1, <1>2, WireGoes DEF FragTypes
  <2>2. /\ defrag' \in Seq(Resource)
        /\ \A x \in delivered' : x.id \in Datagrams \cup {Nobody} /\ x.len \in Nat
    BY <1>1, <1>5, CollectsTypes
  <2>3. repeats' \in 0 .. Repeats
    BY <1>1, <1>2, NetworkAssumption DEF FragTypes, NetworkAssumption
  <2>4. net' \in Networks /\ lost' \subseteq Datagrams /\ dangling' \in BOOLEAN
    BY <1>1, <1>2 DEF FragTypes
  <2> QED BY <2>1, <2>2, <2>3, <2>4 DEF FragTypes, Resource, Fragments
<1>7. WithinLength'
  <2>1. CASE Leaves(d, i)
    BY <1>1, <2>1, WithinStays
  <2>2. CASE wire' = wire
    BY <1>1, <2>2 DEF WithinLength, Ends
  <2> QED BY <1>2, <2>1, <2>2
<1>8. DataFits'
  <2>1. Ends(f) <= Length[d]
    BY <1>1, <1>3 DEF WithinLength
  <2> QED BY <1>1, <1>4, <1>5, <2>1, DataStillFits
<1>9. Benign => Comes(d, f, w, v, p)
  <2>1. Benign => i = 1
    BY <1>2 DEF Benign
  <2> QED BY <1>2, <1>3, <1>5, <2>1 DEF Comes
<1>10. BenignInv'
  BY <1>1, <1>2, <1>9, BenignComes
<1> QED BY <1>6, <1>7, <1>8, <1>10 DEF FragInv

LEMMA LoseKeeps ==
    ASSUME FragInv, NEW d \in Datagrams, NEW i \in 1 .. Len(wire[d]), lose(d, i)
    PROVE  FragInv'
<1>1. FragTypes /\ WithinLength /\ DataFits
  BY DEF FragInv
<1>2. /\ net.losing /\ Leaves(d, i) /\ lost' = lost \cup {d}
      /\ net' = net /\ repeats' = repeats /\ defrag' = defrag
      /\ delivered' = delivered /\ dangling' = dangling
  BY DEF lose, Leaves
<1>3. FragTypes'
  <2>1. wire' \in [Datagrams -> Seq(Fragments)]
    BY <1>1, <1>2, WireGoes
  <2> QED BY <1>1, <1>2, <2>1 DEF FragTypes
<1>4. WithinLength'
  BY <1>1, <1>2, WithinStays
<1>5. DataFits'
  BY <1>1, <1>2 DEF DataFits, Short
<1>6. BenignInv'
  BY <1>2 DEF BenignInv, Benign
<1> QED BY <1>3, <1>4, <1>5, <1>6 DEF FragInv

LEMMA NoReallocKeeps ==
    ASSUME FragInv, NEW d \in Datagrams, NEW i \in 1 .. Len(wire[d]), no_realloc(d, i)
    PROVE  FragInv'
<1>1. FragTypes /\ WithinLength /\ DataFits
  BY DEF FragInv
<1>2. /\ net.losing /\ dangling' = TRUE /\ net' = net /\ wire' = wire /\ repeats' = repeats
      /\ lost' = lost /\ defrag' = defrag /\ delivered' = delivered
  BY DEF no_realloc
<1>3. FragTypes' /\ WithinLength' /\ DataFits'
  BY <1>1, <1>2 DEF FragTypes, WithinLength, Ends, DataFits, Short
<1>4. BenignInv'
  BY <1>2 DEF BenignInv, Benign
<1> QED BY <1>3, <1>4 DEF FragInv

LEMMA CleanKeeps ==
    ASSUME FragInv, NEW i \in 1 .. Len(defrag), clean_defrag(i)
    PROVE  FragInv'
<1>1. FragTypes /\ WithinLength /\ DataFits /\ BenignInv
  BY DEF FragInv
<1>2. /\ defrag' = RemoveAt(defrag, i) /\ lost' = lost \cup {x[1] : x \in defrag[i].have}
      /\ net' = net /\ wire' = wire /\ repeats' = repeats
      /\ delivered' = delivered /\ dangling' = dangling
  BY DEF clean_defrag
<1>3. defrag \in Seq(Resource) /\ Len(defrag) \in Nat /\ i \in Nat
  BY <1>1 DEF FragTypes
<1>4. Shrunk(i)
  <2>1. PICK s : s = RemoveAt(defrag, i)
    OBVIOUS
  <2>2. /\ s \in Seq(Resource) /\ Len(s) = Len(defrag) - 1
        /\ \A j \in 1 .. Len(defrag) - 1 : s[j] = IF j < i THEN defrag[j] ELSE defrag[j + 1]
    BY <1>3, <2>1, RemoveSound
  <2>3. i \in 1 .. Len(defrag) + 1 /\ i <= Len(defrag) /\ s = defrag'
    BY <1>2, <1>3, <2>1
  <2>4. /\ Len(s) = (IF i <= Len(defrag) THEN Len(defrag) - 1 ELSE Len(defrag))
        /\ \A j \in 1 .. Len(s) : s[j] = IF j < i THEN defrag[j] ELSE defrag[j + 1]
    BY <2>2, <2>3
  <2> QED BY <1>3, <2>2, <2>3, <2>4, RestStays
<1>5. ASSUME NEW k \in 1 .. Len(defrag')
      PROVE  \E j \in 1 .. Len(defrag) : j # i /\ j = (IF k < i THEN k ELSE k + 1) /\ defrag'[k] = defrag[j]
  BY <1>4 DEF Shrunk
<1>6. FragTypes'
  <2>1. defrag' \in Seq(Resource)
    BY <1>4 DEF Shrunk
  <2>2. lost' \subseteq Datagrams
    <3>1. defrag[i] \in Resource
      BY <1>3, ElementOfSeq
    <3>2. \A x \in defrag[i].have : x[1] \in Datagrams
      BY <3>1, ResourceParts
    <3> QED BY <1>1, <1>2, <3>2 DEF FragTypes
  <2> QED BY <1>1, <1>2, <2>1, <2>2 DEF FragTypes
<1>7. WithinLength'
  BY <1>1, <1>2 DEF WithinLength, Ends
<1>8. DataFits'
  <2>1. ASSUME Short, NEW k \in 1 .. Len(defrag'), NEW x \in defrag'[k].have
        PROVE  x[2] < defrag'[k].space
    <3>1. PICK j \in 1 .. Len(defrag) : defrag'[k] = defrag[j]
      BY <1>5
    <3> QED BY <1>1, <2>1, <3>1 DEF DataFits
  <2>2. Short' <=> Short
    BY DEF Short
  <2> QED BY <2>1, <2>2 DEF DataFits
<1>9. BenignInv'
  <2>1. Benign' <=> Benign
    BY <1>2 DEF Benign
  <2>2. \A d \in Datagrams : Passed(d)' = Passed(d)
    BY <1>2 DEF Passed
  <2>3. SUFFICES ASSUME Benign
                 PROVE  /\ \A x \in Datagrams : Chained(wire[x], Length[x])
                        /\ \A k \in 1 .. Len(defrag') : Collected(defrag'[k])
                        /\ \A k, j \in 1 .. Len(defrag') :
                             defrag'[k].header = defrag'[j].header /\ defrag'[k].header # Nobody => k = j
                        /\ OnlyWhole
                        /\ \A x \in Datagrams : Completes(x) /\ x \notin lost' => Pending(x)'
    BY <1>2, <2>1 DEF BenignInv, Collected, Covers, Chained, Completes, Ends, OnlyWhole, Passed
  <2>4. /\ \A d \in Datagrams : Chained(wire[d], Length[d])
        /\ \A k \in 1 .. Len(defrag) : Collected(defrag[k])
        /\ \A k, j \in 1 .. Len(defrag) :
             defrag[k].header = defrag[j].header /\ defrag[k].header # Nobody => k = j
        /\ OnlyWhole
        /\ \A d \in Datagrams : Completes(d) /\ d \notin lost => Pending(d)
    BY <1>1, <2>3, BenignChains
  <2>5. \A k \in 1 .. Len(defrag') : Collected(defrag'[k])
    BY <1>5, <2>4
  <2>6. ASSUME NEW k \in 1 .. Len(defrag'), NEW j \in 1 .. Len(defrag'),
               defrag'[k].header = defrag'[j].header, defrag'[k].header # Nobody
        PROVE  k = j
    <3>1. PICK a \in 1 .. Len(defrag) : a = (IF k < i THEN k ELSE k + 1) /\ defrag'[k] = defrag[a]
      BY <1>5
    <3>2. PICK b \in 1 .. Len(defrag) : b = (IF j < i THEN j ELSE j + 1) /\ defrag'[j] = defrag[b]
      BY <1>5
    <3>3. a = b
      BY <2>4, <2>6, <3>1, <3>2
    <3> QED BY <1>3, <3>1, <3>2, <3>3
  <2>7. ASSUME NEW x \in Datagrams, Completes(x), x \notin lost' PROVE Pending(x)'
    <3>1. x \notin lost /\ Pending(x)
      BY <1>2, <2>4, <2>7
    <3>2. CASE \E y \in delivered : y.id = x
      BY <1>2, <3>2 DEF Pending
    <3>3. CASE wire[x] # <<>> /\ Passed(x) = 0
      BY <1>2, <2>2, <3>3 DEF Pending
    <3>4. CASE wire[x] # <<>> /\ Passed(x) # 0 /\ \E k \in 1 .. Len(defrag) : defrag[k].header = x
      <4>1. PICK k \in 1 .. Len(defrag) : defrag[k].header = x
        BY <3>4
      <4>2. CASE k = i
        <5>1. Covers(defrag[i], x, Passed(x))
          BY <2>4, <4>1, <4>2 DEF Collected
        <5>2. Passed(x) \in Nat
          <6>1. Len(wire[x]) \in Nat /\ wire[x] # <<>> /\ Len(wire[x]) # 0
            BY <1>1, <3>4, WireParts
          <6>2. wire[x][1] \in Fragments
            BY <1>1, <6>1, WireParts
          <6> QED BY <3>4, <6>2, FragmentParts DEF Passed
        <5>3. <<x, 0>> \in defrag[i].have
          BY <3>4, <5>1, <5>2 DEF Covers
        <5>4. <<x, 0>>[1] = x
          OBVIOUS
        <5>5. x \in {y[1] : y \in defrag[i].have}
          BY <5>3, <5>4
        <5> QED BY <1>2, <2>7, <5>5
      <4>3. CASE k # i
        <5>1. PICK j \in 1 .. Len(defrag') : defrag'[j] = defrag[k]
          BY <1>4, <4>3 DEF Shrunk
        <5> QED BY <1>2, <3>4, <4>1, <5>1 DEF Pending
      <4> QED BY <4>2, <4>3
    <3> QED BY <3>1, <3>2, <3>3, <3>4 DEF Pending
  <2> QED BY <2>4, <2>5, <2>6, <2>7
<1> QED BY <1>6, <1>7, <1>8, <1>9 DEF FragInv

LEMMA FragStarts == FragInit => FragInv
<1> SUFFICES ASSUME FragInit PROVE FragInv
  OBVIOUS
<1>1. /\ net \in Networks /\ wire = [d \in Datagrams |-> Sent(d)]
      /\ repeats = 0 /\ lost = {} /\ defrag = <<>> /\ delivered = {} /\ dangling = FALSE
  BY DEF FragInit
<1>2. ASSUME NEW d \in Datagrams
      PROVE  /\ wire[d] = Sent(d) /\ Sent(d) \in Seq(Pieces(Length[d])) /\ Sent(d) \in Seq(Fragments)
             /\ \A i \in 1 .. Len(Sent(d)) : Ends(Sent(d)[i]) <= Length[d]
  <2>1. wire[d] = Sent(d) /\ Sent(d) \in Seq(Pieces(Length[d]))
    BY <1>1, SentSound
  <2>2. PICK s : s = Sent(d)
    OBVIOUS
  <2>3. \A i \in 1 .. Len(s) : s[i] \in Pieces(Length[d])
    BY <2>1, <2>2, ElementOfSeq
  <2>4. \A i \in 1 .. Len(s) : s[i] \in Fragments /\ Ends(s[i]) <= Length[d]
    BY <2>3 DEF Pieces
  <2>5. s \in Seq(Fragments)
    <3> HIDE DEF Pieces
    <3>1. s \in Seq(Pieces(Length[d]))
      BY <2>1, <2>2
    <3>2. Len(s) \in Nat /\ s = [i \in 1 .. Len(s) |-> s[i]]
      BY <3>1, LenProperties
    <3> QED BY <2>4, <3>2, IsASeq
  <2> QED BY <2>1, <2>2, <2>4, <2>5
<1>3. FragTypes
  <2>1. wire \in [Datagrams -> Seq(Fragments)]
    BY <1>1, <1>2
  <2>2. defrag \in Seq(Resource) /\ repeats \in 0 .. Repeats
    BY <1>1, NetworkAssumption DEF NetworkAssumption
  <2> QED BY <1>1, <2>1, <2>2 DEF FragTypes
<1>4. WithinLength
  BY <1>2 DEF WithinLength
<1>5. Len(defrag) = 0
  BY <1>1
<1>6. DataFits
  BY <1>5 DEF DataFits
<1>7. ASSUME CutOnce, NEW d \in Datagrams
      PROVE  Chained(wire[d], Length[d]) /\ wire[d] # <<>> /\ Passed(d) = 0
  <2>1. Len(wire[d]) >= 1 /\ wire[d][1].ofst = 0 /\ Chained(wire[d], Length[d])
    BY <1>2, <1>7, SentChained
  <2>2. wire[d] # <<>>
    BY <2>1
  <2>3. 0 * BLOCK = 0
    BY BlockSize
  <2> QED BY <2>1, <2>2, <2>3 DEF Passed
<1>8. BenignInv
  BY <1>1, <1>5, <1>7 DEF BenignInv, Benign, OnlyWhole, Pending
<1> QED BY <1>3, <1>4, <1>6, <1>8 DEF FragInv

LEMMA FragStep == FragInv /\ [FragNext]_frag_vars => FragInv'
<1> SUFFICES ASSUME FragInv, [FragNext]_frag_vars PROVE FragInv'
  OBVIOUS
<1>1. CASE UNCHANGED frag_vars
  <2>1. /\ net' = net /\ wire' = wire /\ repeats' = repeats /\ lost' = lost
        /\ defrag' = defrag /\ delivered' = delivered /\ dangling' = dangling
    BY <1>1 DEF frag_vars
  <2>2. FragTypes' /\ WithinLength' /\ DataFits'
    BY <2>1 DEF FragInv, FragTypes, WithinLength, Ends, DataFits, Short
  <2>3. BenignInv'
    BY <2>1 DEF FragInv, BenignInv, Benign, Collected, Covers, Chained, Completes, Ends, OnlyWhole, Passed, Pending
  <2> QED BY <2>2, <2>3 DEF FragInv
<1>2. CASE \E d \in Datagrams : \E i \in 1 .. Len(wire[d]) : arrive(d, i) \/ lose(d, i) \/ no_realloc(d, i)
  <2>0. PICK d \in Datagrams : \E i \in 1 .. Len(wire[d]) : arrive(d, i) \/ lose(d, i) \/ no_realloc(d, i)
    BY <1>2
  <2>1. PICK i \in 1 .. Len(wire[d]) : arrive(d, i) \/ lose(d, i) \/ no_realloc(d, i)
    BY <2>0
  <2>2. CASE arrive(d, i)
    BY <2>2, ArriveKeeps
  <2>3. CASE lose(d, i)
    BY <2>3, LoseKeeps
  <2>4. CASE no_realloc(d, i)
    BY <2>4, NoReallocKeeps
  <2> QED BY <2>1, <2>2, <2>3, <2>4
<1>3. CASE \E i \in 1 .. Len(defrag) : clean_defrag(i)
  BY <1>3, CleanKeeps
<1> QED BY <1>1, <1>2, <1>3 DEF FragNext

LEMMA FragInvariant == FragSpec => []FragInv
BY FragStarts, FragStep, PTL DEF FragSpec

(***************************************************************************)
(* Fragmentation and reassembly: the theorems                              *)
(***************************************************************************)
\* The chain holds resources, and the network fragments, in every state.
THEOREM FragTypesOK == FragSpec => []FragTypes
<1>1. FragInv => FragTypes
  BY DEF FragInv
<1> QED BY <1>1, FragInvariant, PTL

\* The data is never written behind the buffer, in whatever order the fragments
\* come and however often, lost or not, whatever memory held before, as long as the
\* uint16 holds what is needed with the spare bytes.
THEOREM DataFitsAlways == FragSpec => []DataFits
<1>1. FragInv => DataFits
  BY DEF FragInv
<1> QED BY <1>1, FragInvariant, PTL

\* In a benign network the handler gets the whole datagram that was sent, for every
\* length, every mtu and every number of datagrams that are put together at once.
THEOREM WholeInOrderAlways == FragSpec => []WholeInOrder
<1>1. FragInv => WholeInOrder
  BY DEF FragInv, BenignInv, WholeInOrder
<1> QED BY <1>1, FragInvariant, PTL

\* And no datagram of which everything came waits for more, unless it ends with a full
\* block and a byte of the bits that is not.
THEOREM NoneWaitsAlways == FragSpec => []NoneWaits
<1>1. FragInv => NoneWaits
  BY DEF FragInv, BenignInv, NoneWaits, Pending
<1> QED BY <1>1, FragInvariant, PTL
=============================================================================
