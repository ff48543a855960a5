----------------------------- MODULE DgramLife -----------------------------
(***************************************************************************)
(* Time to live (src/sting/kernel.c, ip.c, protocol.c, thread.s): one      *)
(* datagram from IP_send or from the port that receives it, through        *)
(* process_dgram and the send queue, to the wire or to the queue of a      *)
(* local protocol.  The kernel's clock wraps at midnight, the header       *)
(* checksum is adjusted when the kernel lowers the ttl and recomputed only *)
(* when check_dgram_ttl changes it again.                                  *)
(***************************************************************************)
EXTENDS Integers

CONSTANTS
    MAX_CLOCK,   \* milliseconds of a day, where the clock wraps (86400000)
    Ttls,        \* values of the ttl parameter, or of the ttl field that arrives
    Rests,       \* sums of the other words of the header
    StartClocks, \* times of day at which the datagram comes into being
    Steps,       \* how far the clock moves at once: multiples of the 5 ms tick
    MaxAge       \* bound of the model: how long the datagram is followed

ASSUME ClockAssumption == MAX_CLOCK \in Nat \ {0} /\ MAX_CLOCK % 2 = 0
ASSUME TtlsAssumption  == Ttls \subseteq 0 .. 255
ASSUME RestsAssumption == Rests \subseteq Nat \ {0}
ASSUME StartAssumption == StartClocks \subseteq 0 .. MAX_CLOCK - 1
ASSUME StepsAssumption == Steps \subseteq 1 .. MAX_CLOCK - 1
ASSUME MaxAgeAssumption ==
    MaxAge \in Nat /\ \A t \in 0 .. 256 : MaxAge + t * 1000 < MAX_CLOCK \div 2

MAXWORD == 65535 \* largest unsigned 16-bit word

VARIABLES
    sting_clock, \* milliseconds since midnight
    at,          \* where the datagram is
    ttl, chksum, rest, timeout, \* its header, and its time of expiry
    given,       \* ttl it was sent or received with, and by which of the two
    then, age    \* clock at its birth, and the true time since then

vars == <<sting_clock, at, ttl, chksum, rest, timeout, given, then, age>>

Places  == {"none", "receive", "send", "queue", "wire", "expired", "discarded"}
Origins == {"own", "net"}

TypeOK ==
    /\ sting_clock \in 0 .. MAX_CLOCK - 1
    /\ at \in Places
    /\ ttl \in 0 .. 255 /\ chksum \in 0 .. MAXWORD /\ rest \in Rests
    /\ timeout \in 0 .. MAX_CLOCK - 1
    /\ given \in [ttl : Ttls, by : Origins]
    /\ then \in 0 .. MAX_CLOCK - 1 /\ age \in 0 .. MaxAge

Init ==
    /\ sting_clock \in StartClocks
    /\ at = "none" /\ ttl = 0 /\ chksum = 0 /\ timeout = 0
    /\ rest \in Rests
    /\ given \in [ttl : Ttls, by : Origins]
    /\ then = sting_clock /\ age = 0

\* A sum of two 16-bit words, kept to 16 bits.
Word(n) == IF n > MAXWORD THEN n - MAXWORD - 1 ELSE n

\* Ones' complement: the words of the header and its checksum add up to a
\* multiple of 0xffff.
check_sum(t, others) == MAXWORD - (1 + ((t * 256 + others - 1) % MAXWORD))
Correct(t, others, chk) == (t * 256 + others + chk) % MAXWORD = 0

Wrap(time) == IF time >= MAX_CLOCK THEN time - MAX_CLOCK ELSE time
NoMidnight(first, second) == second - first

\* The distance from one time of day to another, the shorter way round.
check_sequence(first, second) ==
    LET remain == second - first
        up     == IF remain < -MAX_CLOCK \div 2 THEN remain + MAX_CLOCK ELSE remain
    IN  IF up > MAX_CLOCK \div 2 THEN up - MAX_CLOCK ELSE up

TIMER_elapsed(from) ==
    IF sting_clock - from >= 0 THEN sting_clock - from ELSE sting_clock - from + MAX_CLOCK

\* The timer interrupt moves the clock.
Tick(d) ==
    /\ at \in {"receive", "send", "queue"} /\ age + d <= MaxAge
    /\ age' = age + d
    /\ sting_clock' = Wrap(sting_clock + d)
    /\ UNCHANGED <<at, ttl, chksum, rest, timeout, given, then>>

\* The kernel's own datagram lives a second longer: process_dgram will take
\* one from its ttl.
IP_send ==
    /\ at = "none" /\ given.by = "own"
    /\ at' = "receive"
    /\ ttl' = (given.ttl + 1) % 256
    /\ chksum' = check_sum(ttl', rest)
    /\ timeout' = Wrap(sting_clock + (given.ttl + 1) * 1000 - 1)
    /\ UNCHANGED <<sting_clock, rest, given, then, age>>

\* A driver receives a datagram, possibly damaged, and calls set_dgram_ttl.
set_dgram_ttl(damage) ==
    /\ at = "none" /\ given.by = "net"
    /\ at' = "receive"
    /\ ttl' = given.ttl
    /\ chksum' = Word(check_sum(given.ttl, rest) + damage)
    /\ timeout' = Wrap(sting_clock + given.ttl * 1000)
    /\ UNCHANGED <<sting_clock, rest, given, then, age>>

LowerForgetsCarry ==
    /\ ttl' = (ttl + 255) % 256
    /\ chksum' = Word(chksum + 256)
LowerTtl ==
    /\ ttl' = (ttl + 255) % 256
    /\ chksum' = Word(chksum + 256 + (IF chksum >= MAXWORD - 256 THEN 1 ELSE 0))

\* poll_ports takes the datagram from the port; it is routed to another host
\* or to this one.
process_dgram(local) ==
    /\ at = "receive"
    /\ IF ~Correct(ttl, rest, chksum)
         THEN at' = "discarded" /\ UNCHANGED <<ttl, chksum>>
         ELSE at' = (IF local THEN "queue" ELSE "send") /\ LowerTtl
    /\ UNCHANGED <<sting_clock, rest, timeout, given, then, age>>

RoundUp(n, d) == (n + d - 1) \div d
\* C division cuts towards zero.
Quotient(n, d) == IF n >= 0 THEN n \div d ELSE -((-n) \div d)

\* A driver is about to put the datagram on its wire.
check_dgram_ttl ==
    LET remain_ttl == Quotient(check_sequence(sting_clock, timeout) - 1, 1000)
    IN  /\ at = "send"
        /\ at' = IF remain_ttl <= 0 THEN "expired" ELSE "wire"
        /\ ttl' = remain_ttl % 256
        /\ chksum' = IF ttl # remain_ttl THEN check_sum(remain_ttl % 256, rest) ELSE chksum
        /\ UNCHANGED <<sting_clock, rest, timeout, given, then, age>>

\* clean_up expires what no protocol fetched in time.
clean_up ==
    /\ at = "queue"
    /\ check_sequence(timeout, sting_clock) > 0
    /\ at' = "expired"
    /\ UNCHANGED <<sting_clock, ttl, chksum, rest, timeout, given, then, age>>

\* The datagram's way is over, or the model follows it no further.
Done ==
    /\ at \in {"wire", "expired", "discarded"} \/ \A d \in Steps : age + d > MaxAge
    /\ UNCHANGED vars

Next ==
    \/ \E d \in Steps : Tick(d)
    \/ IP_send
    \/ \E damage \in {0, 1, 255} : set_dgram_ttl(damage)
    \/ \E local \in BOOLEAN : process_dgram(local)
    \/ check_dgram_ttl
    \/ clean_up
    \/ Done

Spec == Init /\ [][Next]_vars

(***************************************************************************)
(* Properties                                                              *)
(***************************************************************************)
\* What leaves the host has a correct header checksum: "each router must check
\* the checksum and discard the datagram if the checksum does not match".
WireChecksumCorrect == at = "wire" => Correct(ttl, rest, chksum)

\* A hop costs at least one second of life, more when the datagram waited, and
\* what the host itself sends leaves with at most the ttl it was given.
HopCostsTtl ==
    at = "wire" =>
        /\ ttl >= 1
        /\ ttl = given.ttl - (IF given.by = "net" THEN age \div 1000 + 1 ELSE (age + 1) \div 1000)

\* No datagram is dropped before its time, nor sent after it, even when
\* midnight falls into its life.
LifeTime == given.ttl * 1000 - (IF given.by = "net" THEN 1000 ELSE 1)
ExpiresOnTime ==
    /\ at = "expired" => age >= LifeTime
    /\ at = "wire"    => age < LifeTime

\* TIMER_elapsed measures the true time since a call of TIMER_now, across
\* midnight as well.
ElapsedIsTrue == TIMER_elapsed(then) = age

\* The strengthening that makes these inductive: the clock and the time of
\* expiry are the true times, up to midnights, and a datagram whose ttl has not
\* been wrapped around waits for its driver with a correct checksum.
Life == IF given.by = "net" THEN given.ttl * 1000 ELSE (given.ttl + 1) * 1000 - 1
ClockTrue   == sting_clock = Wrap(then + age)
TimeoutTrue == at = "none" \/ timeout = Wrap(then + Life)
SumBefore   == at = "send" /\ ttl # 255 => Correct(ttl, rest, chksum)
IInv ==
    /\ TypeOK
    /\ at = "none" => age = 0
    /\ ClockTrue
    /\ TimeoutTrue
    /\ SumBefore
    /\ HopCostsTtl
    /\ ExpiresOnTime
=============================================================================
