------------------------------- MODULE KRMem -------------------------------
(***************************************************************************)
(* The kernel's memory pool (src/sting/setup.c): KRinitialize, KRmalloc,   *)
(* KRfree, KRrealloc and KRgetfree.  Every datagram, connection and queue  *)
(* entry of STinG lives in this pool.                                      *)
(*                                                                         *)
(* Memory is counted in units of one MEM_HDR; a block is the address of    *)
(* its header and `size' counts the header too.  Two contexts call the     *)
(* allocator: the application, which the 200 Hz interrupt may suspend      *)
(* wherever interrupts are not locked, and the interrupt's own work        *)
(* (poll_ports, clean_up, timer handlers), which the application never     *)
(* suspends.  lock_exec makes the list surgery of each call one step; the  *)
(* test of mem_free at the top of KRmalloc runs before the lock.           *)
(***************************************************************************)
EXTENDS Integers

CONSTANTS
    MemSize,   \* units in the pool (ALLOCMEM / sizeof(MEM_HDR))
    MaxReq,    \* largest request made, in units with the header
    NULL

ASSUME MemSizeAssumption == MemSize \in Nat \ {0}
ASSUME MaxReqAssumption  == MaxReq \in Nat \ {0}
ASSUME NullAssumption    == NULL \notin Int

VARIABLES
    mem_free,  \* where the next search of the free list starts, or NULL
    mem_ptr,   \* link of each free block to the next one (0 elsewhere)
    size,      \* size of the block whose header is here (0: no header here)
    used,      \* headers stamped MEM_MAGIC: the blocks handed out
    pc,        \* what each context is in the middle of
    fault      \* TRUE once a NULL mem_free has been dereferenced

vars == <<mem_free, mem_ptr, size, used, pc, fault>>

Units    == 0 .. MemSize - 1
Requests == 1 .. MaxReq
Contexts == {"app", "timer"}

\* A context is idle, past KRmalloc's unlocked test (blk: the block KRrealloc
\* will release afterwards), or about to release blk at the end of KRrealloc.
Idle              == [at |-> "idle", n |-> 0, blk |-> NULL]
Searching(n, blk) == [at |-> "search", n |-> n, blk |-> blk]
Releasing(blk)    == [at |-> "release", n |-> 0, blk |-> blk]

Headers == {a \in Units : size[a] > 0}
Free    == Headers \ used

\* Two headers whose blocks share no unit.
Apart(a, b) == a + size[a] <= b \/ b + size[b] <= a
Disjoint    == \A a, b \in Headers : a # b => Apart(a, b)

TypeOK ==
    /\ mem_free \in Units \cup {NULL}
    /\ mem_ptr \in [Units -> Units]
    /\ size \in [Units -> 0 .. MemSize]
    /\ used \subseteq Units
    /\ pc \in [Contexts -> [at : {"idle", "search", "release"},
                             n : 0 .. MaxReq, blk : Units \cup {NULL}]]
    /\ fault \in BOOLEAN

(***************************************************************************)
(* KRinitialize: one free block linked to itself.                          *)
(***************************************************************************)
Init ==
    /\ mem_free = 0
    /\ mem_ptr = [u \in Units |-> 0]
    /\ size = [u \in Units |-> IF u = 0 THEN MemSize ELSE 0]
    /\ used = {}
    /\ pc = [c \in Contexts |-> Idle]
    /\ fault = FALSE

\* Overlapping blocks, or a link read through NULL: from there on the memory
\* holds anything, and nothing is said of what the machine does.
Corrupted == fault \/ ~Disjoint

\* The interrupt's work runs to its end before the application continues.
MayRun(c) ==
    /\ c = "app" => pc["timer"] = Idle
    /\ ~Corrupted

Goto(c, where) == pc' = [pc EXCEPT ![c] = where]

\* Blocks a client may pass to KRfree or KRrealloc: handed out, and not in
\* the middle of a KRrealloc of another caller.
Claimed == {pc[c].blk : c \in Contexts}

(***************************************************************************)
(* The search of KRmalloc goes once round the ring, the block after        *)
(* mem_free first and mem_free itself last.                                *)
(***************************************************************************)
Distance(a) == IF a > mem_free THEN a - mem_free ELSE a - mem_free + MemSize

Fitting(n) == {a \in Free : size[a] >= n}
Nearest(n, run) ==
    /\ run \in Fitting(n)
    /\ \A a \in Fitting(n) : Distance(run) <= Distance(a)
FirstFit(n, run) == Nearest(n, run)

\* Plausible slips: the link around a block that is taken whole is forgotten; the
\* size of what remains is not written back; a rest of one unit is given along.
TakeForgetsLink(run, prev, n) ==
    /\ IF size[run] = n
         THEN /\ size' = size
              /\ mem_ptr' = [mem_ptr EXCEPT ![run] = 0]
              /\ used' = used \cup {run}
         ELSE /\ size' = [size EXCEPT ![run] = @ - n, ![run + size[run] - n] = n]
              /\ mem_ptr' = mem_ptr
              /\ used' = used \cup {run + size[run] - n}
    /\ mem_free' = IF size[run] = n /\ prev = run THEN NULL ELSE prev
TakeKeepsSize(run, prev, n) ==
    /\ IF size[run] = n
         THEN /\ size' = size
              /\ mem_ptr' = [mem_ptr EXCEPT ![prev] = mem_ptr[run], ![run] = 0]
              /\ used' = used \cup {run}
         ELSE /\ size' = [size EXCEPT ![run + size[run] - n] = n]
              /\ mem_ptr' = mem_ptr
              /\ used' = used \cup {run + size[run] - n}
    /\ mem_free' = IF size[run] = n /\ prev = run THEN NULL ELSE prev
TakeGivesRest(run, prev, n) ==
    /\ IF size[run] <= n + 1
         THEN /\ size' = size
              /\ mem_ptr' = [mem_ptr EXCEPT ![prev] = mem_ptr[run], ![run] = 0]
              /\ used' = used \cup {run}
         ELSE /\ size' = [size EXCEPT ![run] = @ - n, ![run + size[run] - n] = n]
              /\ mem_ptr' = mem_ptr
              /\ used' = used \cup {run + size[run] - n}
    /\ mem_free' = IF size[run] <= n + 1 /\ prev = run THEN NULL ELSE prev
\* The block is cut from the upper end of run, or is the whole of run.
Take(run, prev, n) ==
    /\ IF size[run] = n
         THEN /\ size' = size
              /\ mem_ptr' = [mem_ptr EXCEPT ![prev] = mem_ptr[run], ![run] = 0]
              /\ used' = used \cup {run}
         ELSE /\ size' = [size EXCEPT ![run] = @ - n, ![run + size[run] - n] = n]
              /\ mem_ptr' = mem_ptr
              /\ used' = used \cup {run + size[run] - n}
    /\ mem_free' = IF size[run] = n /\ prev = run THEN NULL ELSE prev

\* The test before the lock: an empty pool is reported at once.
KRmalloc(c, n) ==
    /\ MayRun(c) /\ pc[c] = Idle
    /\ mem_free # NULL
    /\ Goto(c, Searching(n, NULL))
    /\ UNCHANGED <<mem_free, mem_ptr, size, used, fault>>

\* Growing: KRmalloc of the new size; the old block is released only on success.
KRreallocGrow(c, blk, n) ==
    /\ MayRun(c) /\ pc[c] = Idle
    /\ blk \in used \ Claimed
    /\ n > size[blk]
    /\ mem_free # NULL
    /\ Goto(c, Searching(n, blk))
    /\ UNCHANGED <<mem_free, mem_ptr, size, used, fault>>

\* Under the lock: a fitting block is taken.
MallocTake(c) ==
    /\ MayRun(c) /\ pc[c].at = "search"
    /\ mem_free # NULL
    /\ \E run, prev \in Free :
         /\ FirstFit(pc[c].n, run)
         /\ mem_ptr[prev] = run
         /\ Take(run, prev, pc[c].n)
    /\ Goto(c, IF pc[c].blk = NULL THEN Idle ELSE Releasing(pc[c].blk))
    /\ UNCHANGED fault

\* Under the lock: once round the ring and nothing fits, NULL is returned.
MallocFail(c) ==
    /\ MayRun(c) /\ pc[c].at = "search"
    /\ mem_free # NULL
    /\ \A run \in Free : ~FirstFit(pc[c].n, run)
    /\ Goto(c, Idle)
    /\ UNCHANGED <<mem_free, mem_ptr, size, used, fault>>

\* Under the lock: the pool was emptied after the test, and the loop header
\* reads the link of block NULL.
MallocNull(c) ==
    /\ MayRun(c) /\ pc[c].at = "search"
    /\ mem_free = NULL
    /\ fault' = TRUE
    /\ UNCHANGED <<mem_free, mem_ptr, size, used, pc>>

(***************************************************************************)
(* KRfree under the lock.  The walk stops at the free block run that       *)
(* precedes blk, or at the last one of the ring when blk lies beyond it;   *)
(* blk is then joined with its upper and its lower neighbour.              *)
(***************************************************************************)
StopsAt(blk, run) ==
    \/ run < blk /\ blk < mem_ptr[run]
    \/ run >= mem_ptr[run] /\ (blk > run \/ blk < mem_ptr[run])

LinkAlone(blk) ==
    /\ mem_free' = blk
    /\ mem_ptr' = [mem_ptr EXCEPT ![blk] = blk]
    /\ size' = size

\* Plausible slip: joins the lower neighbour without adding the size.
LinkAfterDropsSize(blk, run) ==
    LET below == run + size[run] = blk
    IN  /\ mem_ptr' = IF below THEN mem_ptr
                       ELSE [mem_ptr EXCEPT ![blk] = mem_ptr[run], ![run] = blk]
        /\ size' = IF below THEN [size EXCEPT ![blk] = 0] ELSE size
        /\ mem_free' = run


LinkAfter(blk, run) ==
    LET next  == mem_ptr[run]
        above == blk + size[blk] = next
        below == run + size[run] = blk
        ptr   == IF above THEN mem_ptr[next] ELSE next
        len   == IF above THEN size[blk] + size[next] ELSE size[blk]
        gone  == ((IF above THEN {next} ELSE {}) \ {run}) \cup (IF below THEN {blk} ELSE {})
    IN  /\ mem_ptr' = [u \in Units |->
                         CASE u \in gone -> 0
                           [] u = run /\ below -> ptr
                           [] u = run /\ ~below -> blk
                           [] u = blk /\ ~below -> ptr
                           [] OTHER -> mem_ptr[u]]
        /\ size' = [u \in Units |->
                         CASE u \in gone -> 0
                           [] u = run /\ below -> size[run] + len
                           [] u = blk /\ ~below -> len
                           [] OTHER -> size[u]]
        /\ mem_free' = run

Unlink(blk) ==
    /\ used' = used \ {blk}
    /\ IF mem_free = NULL
         THEN LinkAlone(blk)
         ELSE \E run \in Free : StopsAt(blk, run) /\ LinkAfter(blk, run)

KRfree(c, blk) ==
    /\ MayRun(c) /\ pc[c] = Idle
    /\ blk \in used \ Claimed
    /\ Unlink(blk)
    /\ UNCHANGED <<pc, fault>>

\* The KRfree that ends a KRrealloc: of the old block, or of the cut-off tail.
ReallocRelease(c) ==
    /\ MayRun(c) /\ pc[c].at = "release"
    /\ Unlink(pc[c].blk)
    /\ Goto(c, Idle)
    /\ UNCHANGED fault

\* Shrinking: the upper end of the block becomes a block of its own, stamped
\* MEM_MAGIC so that KRfree accepts it.
Cut(blk, n) ==
    /\ size' = [size EXCEPT ![blk] = n, ![blk + n] = size[blk] - n]
    /\ used' = used \cup {blk + n}

KRreallocShrink(c, blk, n) ==
    /\ MayRun(c) /\ pc[c] = Idle
    /\ blk \in used \ Claimed
    /\ n < size[blk]
    /\ Cut(blk, n)
    /\ Goto(c, Releasing(blk + n))
    /\ UNCHANGED <<mem_free, mem_ptr, fault>>

Next ==
    \E c \in Contexts :
        \/ \E n \in Requests : KRmalloc(c, n)
        \/ \E n \in Requests, blk \in used : KRreallocGrow(c, blk, n)
        \/ \E n \in Requests, blk \in used : KRreallocShrink(c, blk, n)
        \/ MallocTake(c)
        \/ MallocFail(c)
        \/ MallocNull(c)
        \/ \E blk \in used : KRfree(c, blk)
        \/ ReallocRelease(c)
        \/ Corrupted /\ UNCHANGED vars

Spec == Init /\ [][Next]_vars

(***************************************************************************)
(* Properties                                                              *)
(***************************************************************************)
\* The block at the base of the pool is handed out only with the last of the free
\* memory.  The allocator cuts from the upper end of a block, so this is every
\* workload that leaves the first block some slack; see ExclusiveUse for what goes
\* wrong without it.
BaseKept == 0 \in Free \/ Free = {}

\* KRmalloc promises a chunk "for exclusive use by the caller": no block that
\* was handed out shares a unit with another block, handed out or free.
ExclusiveUse == Disjoint

\* No unit of the pool is lost: each lies in some block.
NoUnitLost ==
    \A u \in Units : \E a \in Headers : a <= u /\ u < a + size[a]

\* The free list is one ring in address order through all the free blocks,
\* and mem_free points into it: what both walks of the allocator rely on.
EntryInRing ==
    /\ mem_free = NULL <=> Free = {}
    /\ mem_free # NULL => mem_free \in Free
NoneBetween(a, b) ==
    \A c \in Free : IF a < b THEN c <= a \/ c >= b ELSE b <= c /\ c <= a
LinksInOrder == \A a \in Free : mem_ptr[a] \in Free /\ NoneBetween(a, mem_ptr[a])
RingInOrder == EntryInRing /\ LinksInOrder

\* The strengthening that makes the above inductive: blocks lie in the pool,
\* what is handed out has a header, and a context in the middle of KRrealloc
\* owns the block it is going to release, alone.
InPool == \A a \in Headers : a + size[a] <= MemSize
Owned ==
    /\ used \subseteq Headers
    /\ \A c \in Contexts :
         /\ pc[c].blk # NULL => pc[c].blk \in used
         /\ pc[c].at = "release" => pc[c].blk # NULL
         /\ pc[c].at = "search" => pc[c].n \in Requests
    /\ pc["app"].blk # NULL => pc["app"].blk # pc["timer"].blk
IInv ==
    /\ TypeOK
    /\ InPool
    /\ Owned
    /\ Disjoint => RingInOrder

\* What KRgetfree(TRUE) reports: the largest free block.
Largest == CHOOSE n \in 0 .. MemSize :
               /\ \A a \in Free : size[a] <= n
               /\ Free = {} => n = 0
               /\ Free # {} => \E a \in Free : size[a] = n

\* A request fails exactly when it exceeds what KRgetfree(TRUE) reports.
FailsOnlyWhenLow ==
    ~fault => \A n \in Requests :
        (\E run \in Free : mem_free # NULL /\ FirstFit(n, run)) <=> n <= Largest

\* What the clients own, unit by unit, changes as the abstract pool allows.
Held == UNION {a .. a + size[a] - 1 : a \in used}
Abstract == INSTANCE Pool WITH held <- Held
ImplementsPool == Abstract!Spec

\* KRmalloc returns a block or NULL; it never reads through a NULL mem_free.
NoNullDeref == ~fault
=============================================================================
