------------------------------- MODULE Thread -------------------------------
(***************************************************************************)
(* The pseudo-thread of STinG (src/sting/thread.s): the 200 Hz timer       *)
(* interrupt counts down to the next poll_ports and the next clean_up and, *)
(* when one is due, runs them in the background of whatever it interrupted *)
(* with the interrupt level lowered again.  Later ticks may therefore      *)
(* interrupt the work itself.                                              *)
(*                                                                         *)
(* here_we_go and keep_going, up to the instruction that lowers the level, *)
(* run with the timer masked, so a tick that starts the work also saves    *)
(* the registers: they are one step.  The registers saved in cpu_state are *)
(* represented by the depth of the context they belong to: 0 is the        *)
(* application, d is the d-th activation of the work.                      *)
(***************************************************************************)
EXTENDS Naturals, Sequences

CONSTANTS
    Fractions,   \* call delays set_sysvars may set, in ticks
    CleanPeriod, \* ticks between two clean_up (200 in the code)
    MaxDepth     \* bound of the model: activations on the stack

ASSUME FractionsAssumption   == Fractions \subseteq Nat \ {0} /\ Fractions # {}
ASSUME CleanPeriodAssumption == CleanPeriod \in Nat \ {0}
ASSUME MaxDepthAssumption    == MaxDepth \in Nat \ {0}

VARIABLES
    active, fraction,   \* what set_sysvars sets
    traffic, cleaning,  \* countdowns
    tm_exec,            \* work that is due: bit 0 poll_ports, bit 1 clean_up
    tm_sema,            \* the work is on
    tm_busy,            \* the tick before this one found or started work
    work,               \* where each activation of the work is, outermost first
    cpu_state           \* depth of the context whose registers are saved

counters == <<traffic, cleaning>>
thread_vars == <<active, fraction, traffic, cleaning, tm_exec, tm_sema, tm_busy, work, cpu_state>>

Phases == {"testPoll", "poll", "testClean", "clean", "restore", "release", "rte"}
Depth  == Len(work)
Levels == {"low", "high"}  \* interrupt level of the interrupted code: below 4, or not

ThreadTypes ==
    /\ active \in BOOLEAN /\ fraction \in Fractions
    /\ traffic \in Nat \ {0} /\ cleaning \in 1 .. CleanPeriod
    /\ tm_exec \subseteq {0, 1} /\ tm_sema \in BOOLEAN /\ tm_busy \in BOOLEAN
    /\ work \in Seq(Phases) /\ Depth <= MaxDepth
    /\ cpu_state \in 0 .. MaxDepth

ThreadInit ==
    /\ active = FALSE /\ fraction \in Fractions
    /\ traffic = 1 /\ cleaning = 1
    /\ tm_exec = {} /\ tm_sema = FALSE /\ tm_busy = FALSE
    /\ work = <<>> /\ cpu_state = 0

set_sysvars(on, delay) ==
    /\ active' = on /\ fraction' = delay
    /\ UNCHANGED <<traffic, cleaning, tm_exec, tm_sema, tm_busy, work, cpu_state>>

\* The countdowns of one tick, and the work they make due.
Due == (IF traffic = 1 THEN {0} ELSE {}) \cup (IF cleaning = 1 THEN {1} ELSE {})
CountDown ==
    /\ traffic'  = IF traffic = 1 THEN fraction ELSE traffic - 1
    /\ cleaning' = IF cleaning = 1 THEN CleanPeriod ELSE cleaning - 1

\* A tick while the work is on leaves everything to the system handler.
Lazy ==
    /\ tm_sema
    /\ CountDown
    /\ tm_exec' = tm_exec \cup Due
    /\ UNCHANGED <<active, fraction, tm_sema, tm_busy, work, cpu_state>>

Startable(level) == tm_exec \cup Due # {} /\ active /\ level = "low" /\ ~tm_busy

\* A tick that finds nothing to do, or gives the clients their turn.
Stale(level) ==
    /\ ~tm_sema /\ ~Startable(level)
    /\ CountDown
    /\ tm_exec' = tm_exec \cup Due
    /\ tm_busy' = FALSE
    /\ UNCHANGED <<active, fraction, tm_sema, work, cpu_state>>

\* A tick that starts the work in front of the interrupted context.
here_we_go(level) ==
    /\ ~tm_sema /\ Startable(level)
    /\ Depth < MaxDepth
    /\ CountDown
    /\ tm_exec' = tm_exec \cup Due
    /\ tm_busy' = TRUE /\ tm_sema' = TRUE
    /\ cpu_state' = Depth
    /\ work' = Append(work, "testPoll")
    /\ UNCHANGED <<active, fraction>>
\* Only code below level 4 is interrupted in the middle of the work: it runs at
\* the level of what it interrupted.
my_200_Hz(level) ==
    /\ Depth > 0 => level = "low"
    /\ Lazy \/ Stale(level) \/ here_we_go(level)

At(phase) == Depth > 0 /\ work[Depth] = phase
Goto(phase) == work' = [work EXCEPT ![Depth] = phase]

\* bclr: the bit is tested and cleared in one instruction.
TestBit(phase, bit, yes, no) ==
    /\ At(phase)
    /\ Goto(IF bit \in tm_exec THEN yes ELSE no)
    /\ tm_exec' = tm_exec \ {bit}
    /\ UNCHANGED <<active, fraction, counters, tm_sema, tm_busy, cpu_state>>

Pass(phase, next) ==
    /\ At(phase) /\ Goto(next)
    /\ UNCHANGED <<active, fraction, counters, tm_exec, tm_sema, tm_busy, cpu_state>>

\* Plausible slip: the work is announced as finished before clean_up.
SkipsClean == \/ TestBit("testPoll", 0, "poll", "restore")
              \/ Pass("poll", "restore")
              \/ Pass("restore", "release")

\* Plausible slip: tm_sema is cleared before the registers are restored.
ReleasesFirst ==
    \/ TestBit("testPoll", 0, "poll", "testClean")
    \/ Pass("poll", "testClean")
    \/ TestBit("testClean", 1, "clean", "restore")
    \/ /\ At("clean") /\ Goto("restore") /\ tm_sema' = FALSE
       /\ UNCHANGED <<active, fraction, counters, tm_exec, tm_busy, cpu_state>>
    \/ Pass("restore", "release")

keep_going == \/ TestBit("testPoll", 0, "poll", "testClean")
              \/ Pass("poll", "testClean")
              \/ TestBit("testClean", 1, "clean", "restore")
              \/ Pass("clean", "restore")
              \/ Pass("restore", "release")

release ==
    /\ At("release") /\ Goto("rte")
    /\ tm_sema' = FALSE
    /\ UNCHANGED <<active, fraction, counters, tm_exec, tm_busy, cpu_state>>

rte ==
    /\ At("rte")
    /\ work' = SubSeq(work, 1, Depth - 1)
    /\ UNCHANGED <<active, fraction, counters, tm_exec, tm_sema, tm_busy, cpu_state>>

Work == keep_going \/ release \/ rte

ThreadNext ==
    \/ \E on \in BOOLEAN, delay \in Fractions : Depth = 0 /\ set_sysvars(on, delay)
    \/ \E level \in Levels : my_200_Hz(level)
    \/ Work

\* The interrupt runs on by itself; ticks keep coming, and not all of them in
\* the moments when the interrupted code is above level 4.
ThreadFairness == WF_thread_vars(Work) /\ SF_thread_vars(my_200_Hz("low"))
ThreadSpec == ThreadInit /\ [][ThreadNext]_thread_vars /\ ThreadFairness

(***************************************************************************)
(* Properties                                                              *)
(***************************************************************************)
Unfinished == {"testPoll", "poll", "testClean", "clean", "restore"}

\* The one static area cpu_state holds the registers of exactly the context
\* each unfinished activation has to return to: no tick overwrites them, and
\* poll_ports and clean_up are never entered a second time on the same stack.
RegistersIntact == \A d \in 1 .. Depth : work[d] \in Unfinished => cpu_state = d - 1

\* The semaphore is set exactly while an activation works: it is neither lost
\* (two at once) nor left behind (no work ever again).
SemaphoreTellsWork == tm_sema <=> \E d \in 1 .. Depth : work[d] # "rte"

\* The strengthening that makes both inductive: of the activations on the
\* stack only the innermost may still be working.
ThreadInv ==
    /\ ThreadTypes
    /\ \A d \in 1 .. Depth - 1 : work[d] = "rte"
    /\ tm_sema <=> (Depth > 0 /\ work[Depth] # "rte")
    /\ (Depth > 0 /\ work[Depth] \in Unfinished) => cpu_state = Depth - 1

\* While STinG is active, IP traffic that is due is polled, and expired
\* datagrams are cleaned up, however ticks and work interleave.
WorkServed == \A bit \in {0, 1} : bit \in tm_exec ~> (bit \notin tm_exec \/ ~active)
=============================================================================
