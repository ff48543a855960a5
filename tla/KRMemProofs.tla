---------------------------- MODULE KRMemProofs ----------------------------
(***************************************************************************)
(* Proofs about the memory pool of KRMem for every pool size and request   *)
(* size.                                                                   *)
(***************************************************************************)
EXTENDS KRMem, TLAPS

\* What KRinitialize leaves behind satisfies the inductive invariant.
LEMMA InitIInv == Init => IInv /\ Disjoint
<1> SUFFICES ASSUME Init PROVE IInv /\ Disjoint
    OBVIOUS
<1> USE MemSizeAssumption, MaxReqAssumption, NullAssumption
        DEF MemSizeAssumption, MaxReqAssumption, NullAssumption
<1>a. 0 \in Units /\ \A u \in Units : size[u] = IF u = 0 THEN MemSize ELSE 0
    BY DEF Init, Units
<1>1. Headers = {0} /\ Free = {0}
  <2>1. Headers = {0}
      BY <1>a DEF Headers
  <2> QED
      BY <2>1 DEF Init, Free
<1>2. TypeOK
  <2>1. size \in [Units -> 0 .. MemSize] /\ mem_ptr \in [Units -> Units]
      BY <1>a DEF Init
  <2>2. Idle \in [at : {"idle", "search", "release"}, n : 0 .. MaxReq, blk : Units \cup {NULL}]
      BY DEF Idle
  <2> QED
      BY <1>a, <2>1, <2>2 DEF Init, TypeOK
<1>3. InPool /\ Disjoint
    BY <1>1 DEF Init, InPool, Disjoint, Units
<1>4. Owned
    BY <1>1 DEF Init, Owned, Contexts, Idle
<1>5. RingInOrder
    BY <1>1 DEF Init, RingInOrder, EntryInRing, LinksInOrder, NoneBetween, Units
<1> QED
    BY <1>2, <1>3, <1>4, <1>5 DEF IInv

\* The part of IInv that speaks of the list and the blocks.
Sound ==
    /\ mem_free \in Units \cup {NULL}
    /\ mem_ptr \in [Units -> Units]
    /\ size \in [Units -> 0 .. MemSize]
    /\ used \subseteq Headers
    /\ InPool
    /\ Disjoint => RingInOrder

LEMMA IInvIsSound == IInv => Sound
BY DEF IInv, Sound, TypeOK, Owned

LEMMA HeaderTypes ==
    ASSUME Sound
    PROVE  /\ MemSize \in Nat
           /\ \A a \in Headers : /\ a \in Units /\ a \in Nat
                                 /\ size[a] \in Nat /\ size[a] > 0 /\ a + size[a] <= MemSize
           /\ \A a \in Units : size[a] \in Nat /\ (a \notin Headers => size[a] = 0)
<1>1. MemSize \in Nat
    BY MemSizeAssumption DEF MemSizeAssumption
<1>2. \A a \in Units : a \in Nat /\ size[a] \in 0 .. MemSize
    BY <1>1 DEF Units, Sound
<1>3. \A a \in Units : size[a] \in Nat /\ (a \notin Headers => size[a] = 0)
    BY <1>1, <1>2 DEF Headers
<1>4. \A a \in Headers : a \in Units /\ size[a] > 0
    BY DEF Headers
<1>5. \A a \in Headers : a + size[a] <= MemSize
    BY DEF Sound, InPool
<1> QED
    BY <1>1, <1>2, <1>3, <1>4, <1>5

\* A run of the free list that leads back to itself is the only free block.
LEMMA LoopIsAlone ==
    ASSUME Sound, Disjoint, NEW a \in Free, mem_ptr[a] = a
    PROVE  Free = {a}
BY HeaderTypes DEF Sound, RingInOrder, LinksInOrder, NoneBetween, Free

\* Where the walk of KRfree stops, run is the last free block before blk and
\* the block after run is the first one beyond blk, cyclically.
LEMMA StopsBetween ==
    ASSUME Sound, Disjoint, NEW blk \in used, NEW run \in Free, StopsAt(blk, run)
    PROVE  /\ blk \notin Free /\ run # blk /\ mem_ptr[run] \in Free
           /\ run < blk => \A c \in Free : c <= run \/ c > blk
           /\ run < blk => \A c \in Free : c > blk => mem_ptr[run] > blk /\ mem_ptr[run] <= c
           /\ run > blk => \A c \in Free : c <= run /\ mem_ptr[run] <= c
           /\ run > blk => mem_ptr[run] > blk
<1>1. blk \notin Free /\ run # blk /\ mem_ptr[run] \in Free /\ Free \subseteq Units
    BY DEF RingInOrder, LinksInOrder, Sound, Free, Headers
<1>2. blk \in Units
    BY DEF Sound, Headers
<1>3. \A c \in Free : IF run < mem_ptr[run] THEN c <= run \/ c >= mem_ptr[run]
                                           ELSE mem_ptr[run] <= c /\ c <= run
    BY DEF RingInOrder, LinksInOrder, NoneBetween, Sound
<1>4. blk \in Int /\ \A c \in Free : c \in Int
    BY <1>1, <1>2, MemSizeAssumption DEF Units, MemSizeAssumption
<1> QED
    BY <1>1, <1>3, <1>4 DEF StopsAt

\* Freeing into an empty list makes a ring of one block.
LEMMA LinkAloneSound ==
    ASSUME Sound, Disjoint, NEW blk \in used, mem_free = NULL, LinkAlone(blk), used' = used \ {blk}
    PROVE  Sound' /\ Disjoint'
<1>1. Headers' = Headers /\ blk \in Units /\ blk \in Headers
    BY DEF Sound, LinkAlone, Headers
<1>2. Free = {}
    BY DEF Sound, RingInOrder, EntryInRing
<1>3. Free' = {blk}
    BY <1>1, <1>2 DEF Free
<1>4. Disjoint' /\ InPool'
    BY <1>1 DEF Sound, LinkAlone, Disjoint, Apart, InPool
<1>5. mem_ptr' \in [Units -> Units] /\ mem_ptr'[blk] = blk /\ mem_free' = blk
    BY <1>1 DEF Sound, LinkAlone
<1>6. RingInOrder'
    BY <1>1, <1>3, <1>5, HeaderTypes, NullAssumption
    DEF RingInOrder, EntryInRing, LinksInOrder, NoneBetween, NullAssumption
<1> QED
    BY <1>1, <1>4, <1>5, <1>6 DEF Sound, LinkAlone

\* Freeing blk after the free block run: the ring stays a ring in address
\* order.  Only when run is the one free block and blk touches it from below
\* do two headers overlap afterwards; then the base of the pool is not free.
LEMMA LinkAfterSound ==
    ASSUME Sound, Disjoint, NEW blk \in used, NEW run \in Free, StopsAt(blk, run),
           LinkAfter(blk, run), used' = used \ {blk}
    PROVE  Sound' /\ (0 \in Free => Disjoint')
<1> DEFINE next  == mem_ptr[run]
           above == blk + size[blk] = next
           below == run + size[run] = blk
<1>1. RingInOrder
    BY DEF Sound
<1>2. /\ blk \notin Free /\ run # blk /\ next \in Free
      /\ run < blk => \A c \in Free : c <= run \/ c > blk
      /\ run < blk => \A c \in Free : c > blk => next > blk /\ next <= c
      /\ run > blk => \A c \in Free : c <= run /\ next <= c
      /\ run > blk => next > blk
    BY StopsBetween
<1>3. blk \in Headers /\ run \in Headers /\ next \in Headers /\ run \notin used /\ next \notin used
    BY <1>2 DEF Sound, Free
<1>4. /\ MemSize \in Nat
      /\ \A a \in Headers : /\ a \in Units /\ a \in Nat
                            /\ size[a] \in Nat /\ size[a] > 0 /\ a + size[a] <= MemSize
      /\ \A a \in Units : size[a] \in Nat /\ (a \notin Headers => size[a] = 0)
    BY HeaderTypes
<1>5. Free \subseteq Headers /\ \A a \in Headers : a \in Free <=> a \notin used
    BY DEF Free
<1>6. \A a \in Headers : a # blk => Apart(a, blk)
    BY <1>3 DEF Disjoint
<1>7. mem_free' = run /\ run \in Units
    BY <1>3, <1>4 DEF LinkAfter
<1>8. \A a \in Free : mem_ptr[a] \in Free /\ 
          \A c \in Free : IF a < mem_ptr[a] THEN c <= a \/ c >= mem_ptr[a]
                                            ELSE mem_ptr[a] <= c /\ c <= a
    BY <1>1 DEF RingInOrder, LinksInOrder, NoneBetween
<1>9. mem_free' = run /\ run # NULL
    BY <1>3, <1>4, <1>7, NullAssumption DEF NullAssumption
\* blk touches neither neighbour.
<1>10. CASE ~above /\ ~below
  <2>1. /\ mem_ptr' = [u \in Units |-> CASE u = run -> blk [] u = blk -> next [] OTHER -> mem_ptr[u]]
        /\ size' = size
    <3>1. size' = [u \in Units |-> size[u]]
        BY <1>10, <1>3, <1>4 DEF LinkAfter
    <3>2. size = [u \in Units |-> size[u]]
        BY DEF Sound
    <3>3. mem_ptr' = [u \in Units |-> CASE u = run -> blk [] u = blk -> next [] OTHER -> mem_ptr[u]]
        BY <1>10, <1>2, <1>3, <1>4 DEF LinkAfter
    <3> QED
        BY <3>1, <3>2, <3>3
  <2>2. mem_ptr' \in [Units -> Units] /\ size' \in [Units -> 0 .. MemSize]
    BY <2>1, <1>2, <1>3, <1>4 DEF Sound
  <2>3. Headers' = Headers /\ Free' = Free \cup {blk}
    BY <2>1, <1>3, <1>5 DEF Headers, Free
  <2>4. Disjoint' /\ InPool'
    BY <2>1, <2>3 DEF Sound, Disjoint, Apart, InPool
  <2>5. /\ mem_ptr'[run] = blk /\ mem_ptr'[blk] = next
        /\ \A a \in Free : a # run => mem_ptr'[a] = mem_ptr[a]
    BY <2>1, <1>2, <1>3, <1>4, <1>5
  <2>6. RingInOrder'
    <3>1. \A a \in Free' : mem_ptr'[a] \in Free'
        BY <2>3, <2>5, <1>2, <1>8
    <3>2. \A a, c \in Free' : IF a < mem_ptr'[a] THEN c <= a \/ c >= mem_ptr'[a]
                                               ELSE mem_ptr'[a] <= c /\ c <= a
        BY <2>3, <2>5, <1>2, <1>3, <1>4, <1>5, <1>8
    <3>3. LinksInOrder'
        BY <3>1, <3>2 DEF LinksInOrder, NoneBetween
    <3> QED
        BY <3>3, <2>3, <1>9 DEF RingInOrder, EntryInRing
  <2> QED
    BY <2>2, <2>3, <2>4, <2>6, <1>3, <1>7 DEF Sound
\* blk is joined to run, the free block below it.
<1>11. CASE ~above /\ below
  <2>1. /\ mem_ptr' = [u \in Units |-> IF u = blk THEN 0 ELSE mem_ptr[u]]
        /\ size' = [u \in Units |-> CASE u = blk -> 0 [] u = run -> size[run] + size[blk]
                                        [] OTHER -> size[u]]
    BY <1>11, <1>2, <1>3, <1>4 DEF LinkAfter
  <2>2. mem_ptr' \in [Units -> Units] /\ size' \in [Units -> 0 .. MemSize]
    <3>1. size[run] + size[blk] \in 0 .. MemSize /\ 0 \in Units
        BY <1>11, <1>3, <1>4 DEF Units
    <3> QED
        BY <3>1, <2>1, <1>2, <1>3, <1>4 DEF Sound
  <2>3. Headers' = Headers \ {blk} /\ Free' = Free
    BY <2>1, <1>2, <1>3, <1>4, <1>5 DEF Headers, Free
  <2>4. InPool'
    BY <2>1, <2>3, <1>11, <1>3, <1>4 DEF InPool
  <2>5. Disjoint'
    BY <2>1, <2>3, <1>11, <1>3, <1>4, <1>6 DEF Disjoint, Apart
  <2>6. \A a \in Free : mem_ptr'[a] = mem_ptr[a]
    BY <2>1, <1>2, <1>4, <1>5
  <2>7. RingInOrder'
    <3>1. LinksInOrder'
        BY <2>3, <2>6, <1>8 DEF LinksInOrder, NoneBetween
    <3> QED
        BY <3>1, <2>3, <1>9 DEF RingInOrder, EntryInRing
  <2> QED
    BY <2>2, <2>3, <2>4, <2>5, <2>7, <1>3, <1>7 DEF Sound
\* blk lies directly below the only free block: the two overlap.
<1>12. CASE above /\ next = run
  <2>1. /\ mem_ptr' = [u \in Units |-> CASE u = run -> blk [] u = blk -> run [] OTHER -> mem_ptr[u]]
        /\ size' = [u \in Units |-> IF u = blk THEN size[blk] + size[run] ELSE size[u]]
    BY <1>12, <1>2, <1>3, <1>4 DEF LinkAfter
  <2>2. mem_ptr' \in [Units -> Units] /\ size' \in [Units -> 0 .. MemSize]
    <3>1. size[blk] + size[run] \in 0 .. MemSize
        BY <1>12, <1>3, <1>4
    <3> QED
        BY <3>1, <2>1, <1>2, <1>3, <1>4 DEF Sound
  <2>3. Headers' = Headers
    BY <2>1, <1>3, <1>4 DEF Headers
  <2>4. InPool'
    BY <2>1, <2>3, <1>12, <1>3, <1>4 DEF InPool
  <2>5. ~Disjoint'
    <3>1. blk \in Headers' /\ run \in Headers' /\ blk # run
        BY <2>3, <1>2, <1>3
    <3>2. ~(blk + size'[blk] <= run) /\ ~(run + size'[run] <= blk)
        BY <2>1, <1>12, <1>2, <1>3, <1>4
    <3> QED
        BY <3>1, <3>2 DEF Disjoint, Apart
  <2>6. 0 \notin Free
    BY <1>12, <1>3, <1>4, LoopIsAlone
  <2> QED
    BY <2>2, <2>3, <2>4, <2>5, <2>6, <1>3, <1>7 DEF Sound
\* blk fills the hole between two free blocks: all three become one.
<1>13. CASE above /\ next # run /\ below
  <2>0. mem_ptr[next] \in Free /\ mem_ptr[next] # next
    BY <1>13, <1>2, <1>8, LoopIsAlone
  <2>1. /\ mem_ptr' = [u \in Units |-> CASE u \in {next, blk} -> 0 [] u = run -> mem_ptr[next]
                                           [] OTHER -> mem_ptr[u]]
        /\ size' = [u \in Units |-> CASE u \in {next, blk} -> 0
                                        [] u = run -> size[run] + (size[blk] + size[next])
                                        [] OTHER -> size[u]]
    BY <1>13, <1>2, <1>3, <1>4 DEF LinkAfter
  <2>2. mem_ptr' \in [Units -> Units] /\ size' \in [Units -> 0 .. MemSize]
    <3>1. size[run] + (size[blk] + size[next]) \in 0 .. MemSize /\ 0 \in Units
        BY <1>13, <1>3, <1>4 DEF Units
    <3> QED
        BY <3>1, <2>0, <2>1, <1>3, <1>4, <1>5 DEF Sound
  <2>3. Headers' = Headers \ {next, blk} /\ Free' = Free \ {next}
    <3>1. \A u \in Units : size'[u] = CASE u \in {next, blk} -> 0
                                        [] u = run -> size[run] + (size[blk] + size[next])
                                        [] OTHER -> size[u]
        BY <2>1
    <3>2. \A u \in Units : size'[u] > 0 <=> u \in Headers /\ u \notin {next, blk}
        BY <3>1, <1>2, <1>3, <1>4, <1>13
    <3>3. Headers' = Headers \ {next, blk}
        BY <3>2, <1>4 DEF Headers
    <3> QED
        BY <3>3, <1>2, <1>3 DEF Free
  <2>4. InPool'
    BY <2>1, <2>3, <1>13, <1>3, <1>4 DEF InPool
  <2>5. Disjoint'
    BY <2>1, <2>3, <1>13, <1>3, <1>4, <1>6 DEF Disjoint, Apart
  <2>6. /\ mem_ptr'[run] = mem_ptr[next]
        /\ \A a \in Free \ {next} : a # run => mem_ptr'[a] = mem_ptr[a]
    BY <2>1, <1>2, <1>3, <1>4, <1>5, <1>13
  <2>7. \A a \in Free : a # run => mem_ptr[a] # next
    BY <1>2, <1>3, <1>4, <1>5, <1>8
  <2>8. LinksInOrder'
    <3>1. \A a \in Free' : mem_ptr'[a] \in Free'
        BY <2>0, <2>3, <2>6, <2>7, <1>8
    <3>2. \A a, c \in Free' : IF a < mem_ptr'[a] THEN c <= a \/ c >= mem_ptr'[a]
                                               ELSE mem_ptr'[a] <= c /\ c <= a
        BY <2>0, <2>3, <2>6, <1>2, <1>3, <1>4, <1>5, <1>8, <1>13
    <3> QED
        BY <3>1, <3>2 DEF LinksInOrder, NoneBetween
  <2> QED
    BY <2>2, <2>3, <2>4, <2>5, <2>8, <1>3, <1>7, <1>9, <1>13 DEF Sound, RingInOrder, EntryInRing
\* blk is joined to the free block above it only.
<1>14. CASE above /\ next # run /\ ~below
  <2>0. mem_ptr[next] \in Free /\ mem_ptr[next] # next
    BY <1>14, <1>2, <1>8, LoopIsAlone
  <2>1. /\ mem_ptr' = [u \in Units |-> CASE u = next -> 0 [] u = run -> blk [] u = blk -> mem_ptr[next]
                                           [] OTHER -> mem_ptr[u]]
        /\ size' = [u \in Units |-> CASE u = next -> 0 [] u = blk -> size[blk] + size[next]
                                        [] OTHER -> size[u]]
    BY <1>14, <1>2, <1>3, <1>4 DEF LinkAfter
  <2>2. mem_ptr' \in [Units -> Units] /\ size' \in [Units -> 0 .. MemSize]
    <3>1. size[blk] + size[next] \in 0 .. MemSize /\ 0 \in Units
        BY <1>14, <1>3, <1>4 DEF Units
    <3> QED
        BY <3>1, <2>0, <2>1, <1>3, <1>4, <1>5 DEF Sound
  <2>3. Headers' = Headers \ {next} /\ Free' = (Free \ {next}) \cup {blk}
    BY <2>1, <1>2, <1>3, <1>4, <1>5 DEF Headers, Free
  <2>4. InPool'
    BY <2>1, <2>3, <1>14, <1>3, <1>4 DEF InPool
  <2>5. Disjoint'
    BY <2>1, <2>3, <1>14, <1>3, <1>4, <1>6 DEF Disjoint, Apart
  <2>6. /\ mem_ptr'[run] = blk /\ mem_ptr'[blk] = mem_ptr[next]
        /\ \A a \in Free \ {next} : a # run => mem_ptr'[a] = mem_ptr[a]
    BY <2>1, <1>2, <1>3, <1>4, <1>5, <1>14
  <2>7. \A a \in Free : a # run => mem_ptr[a] # next
    BY <1>2, <1>3, <1>4, <1>5, <1>8
  <2>8. LinksInOrder'
    <3>1. \A a \in Free' : mem_ptr'[a] \in Free'
        BY <2>0, <2>3, <2>6, <2>7, <1>8
    <3>2. \A a, c \in Free' : IF a < mem_ptr'[a] THEN c <= a \/ c >= mem_ptr'[a]
                                               ELSE mem_ptr'[a] <= c /\ c <= a
        BY <2>0, <2>3, <2>6, <1>2, <1>3, <1>4, <1>5, <1>8, <1>14
    <3> QED
        BY <3>1, <3>2 DEF LinksInOrder, NoneBetween
  <2> QED
    BY <2>2, <2>3, <2>4, <2>5, <2>8, <1>3, <1>7, <1>9, <1>14 DEF Sound, RingInOrder, EntryInRing
<1> QED
    BY <1>10, <1>11, <1>12, <1>13, <1>14

LEMMA UnlinkSound ==
    ASSUME Sound, Disjoint, NEW blk \in used, Unlink(blk)
    PROVE  Sound' /\ used' = used \ {blk} /\ (BaseKept => Disjoint')
<1>1. CASE mem_free = NULL
    BY <1>1, LinkAloneSound DEF Unlink
<1>2. CASE mem_free # NULL
  <2>1. Free # {}
      BY <1>2 DEF Sound, RingInOrder, EntryInRing
  <2> QED
      BY <1>2, <2>1, LinkAfterSound DEF Unlink, BaseKept
<1> QED
    BY <1>1, <1>2

\* Taking a block out of the list keeps blocks apart and the ring in order.
LEMMA TakeSound ==
    ASSUME Sound, Disjoint, NEW n \in Requests, NEW run \in Free, NEW prev \in Free,
           FirstFit(n, run), mem_ptr[prev] = run, mem_free # NULL, Take(run, prev, n)
    PROVE  Sound' /\ Disjoint' /\ used \subseteq used'
<1>1. RingInOrder
    BY DEF Sound
<1>2. /\ MemSize \in Nat
      /\ \A a \in Headers : /\ a \in Units /\ a \in Nat
                            /\ size[a] \in Nat /\ size[a] > 0 /\ a + size[a] <= MemSize
      /\ \A a \in Units : size[a] \in Nat /\ (a \notin Headers => size[a] = 0)
    BY HeaderTypes
<1>3. run \in Headers /\ prev \in Headers /\ run \notin used /\ prev \notin used
    BY DEF Free
<1>4. n \in Nat /\ n > 0 /\ size[run] >= n
    BY MaxReqAssumption DEF Requests, FirstFit, Nearest, Fitting, MaxReqAssumption
<1>5. Free \subseteq Headers /\ \A a \in Headers : a \in Free <=> a \notin used
    BY DEF Free
<1>6. \A a \in Headers : a # run => Apart(a, run)
    BY <1>3 DEF Disjoint
<1>8. \A a \in Free : mem_ptr[a] \in Free /\ 
          \A c \in Free : IF a < mem_ptr[a] THEN c <= a \/ c >= mem_ptr[a]
                                            ELSE mem_ptr[a] <= c /\ c <= a
    BY <1>1 DEF RingInOrder, LinksInOrder, NoneBetween
\* The whole of run is taken.
<1>9. CASE size[run] = n
  <2>1. /\ size' = size /\ used' = used \cup {run}
        /\ mem_ptr' = [mem_ptr EXCEPT ![prev] = mem_ptr[run], ![run] = 0]
        /\ mem_free' = IF prev = run THEN NULL ELSE prev
    BY <1>9 DEF Take
  <2>2. Headers' = Headers /\ Free' = Free \ {run}
    BY <2>1 DEF Headers, Free
  <2>3. mem_ptr' \in [Units -> Units] /\ mem_free' \in Units \cup {NULL}
    <3>1. 0 \in Units
        BY <1>2, <1>3 DEF Units
    <3> QED
        BY <3>1, <2>1, <1>2, <1>3, <1>5, <1>8 DEF Sound
  <2>4. Disjoint' /\ InPool'
    BY <2>1, <2>2 DEF Sound, Disjoint, Apart, InPool
  <2>5. prev = run => Free = {run}
    BY LoopIsAlone
  <2>6. prev # run => mem_ptr[run] # run
    BY LoopIsAlone
  <2>7. \A a \in Free : a # prev => mem_ptr[a] # run
    BY <1>2, <1>5, <1>8
  <2>8. /\ prev # run => mem_ptr'[prev] = mem_ptr[run]
        /\ \A a \in Free \ {run} : a # prev => mem_ptr'[a] = mem_ptr[a]
    BY <2>1, <1>2, <1>3, <1>5 DEF Sound
  <2>9. LinksInOrder'
    <3>1. \A a \in Free' : mem_ptr'[a] \in Free'
        BY <2>2, <2>5, <2>6, <2>7, <2>8, <1>8
    <3>2. \A a, c \in Free' : IF a < mem_ptr'[a] THEN c <= a \/ c >= mem_ptr'[a]
                                               ELSE mem_ptr'[a] <= c /\ c <= a
        BY <2>2, <2>5, <2>6, <2>8, <1>2, <1>3, <1>5, <1>8
    <3> QED
        BY <3>1, <3>2 DEF LinksInOrder, NoneBetween
  <2>10. EntryInRing'
    <3>1. prev # NULL
        BY <1>2, <1>3, NullAssumption DEF NullAssumption
    <3> QED
        BY <3>1, <2>1, <2>2, <2>5 DEF EntryInRing
  <2> QED
    BY <2>1, <2>2, <2>3, <2>4, <2>9, <2>10, <1>3 DEF Sound, RingInOrder
\* A new block is cut from the upper end of run.
<1>10. CASE size[run] # n
  <2> DEFINE new == run + size[run] - n
  <2>1. /\ size' = [size EXCEPT ![run] = size[run] - n, ![new] = n]
        /\ mem_ptr' = mem_ptr /\ used' = used \cup {new} /\ mem_free' = prev
    BY <1>10, <1>3, <1>2 DEF Take
  <2>2. new \in Units /\ new \in Nat /\ new > run /\ new + n = run + size[run]
    <3>1. run \in Nat /\ size[run] \in Nat /\ size[run] > n /\ run + size[run] <= MemSize
        BY <1>2, <1>3, <1>4, <1>10
    <3> QED
        BY <3>1, <1>2, <1>4 DEF Units
  <2>3. new \notin Headers
    BY <2>2, <1>2, <1>3, <1>4, <1>6 DEF Apart
  <2>4. \A u \in Units : size'[u] = CASE u = run -> size[run] - n [] u = new -> n [] OTHER -> size[u]
    BY <2>1, <2>2, <1>2, <1>3 DEF Sound
  <2>5. Headers' = Headers \cup {new}
    BY <2>2, <2>4, <1>2, <1>3, <1>4, <1>10 DEF Headers
  <2>6. Free' = Free
    BY <2>1, <2>3, <2>5 DEF Free
  <2>7. size' \in [Units -> 0 .. MemSize]
    <3>1. size[run] - n \in 0 .. MemSize /\ n \in 0 .. MemSize
        BY <1>2, <1>3, <1>4
    <3> QED
        BY <3>1, <2>1, <2>2, <1>2, <1>3 DEF Sound
  <2>8. InPool'
    BY <2>2, <2>4, <2>5, <1>2, <1>3, <1>4, <1>10 DEF InPool
  <2>9. Disjoint'
    BY <2>2, <2>4, <2>5, <1>2, <1>3, <1>4, <1>6, <1>10 DEF Disjoint, Apart
  <2>10. RingInOrder'
    <3>1. prev # NULL
        BY <1>2, <1>3, NullAssumption DEF NullAssumption
    <3> QED
        BY <3>1, <2>1, <2>6, <1>1, <1>8 DEF RingInOrder, EntryInRing, LinksInOrder, NoneBetween
  <2> QED
    BY <2>1, <2>5, <2>7, <2>8, <2>9, <2>10, <1>2, <1>3 DEF Sound
<1> QED
    BY <1>9, <1>10

\* Cutting the upper end off a used block keeps blocks apart.
LEMMA ShrinkSound ==
    ASSUME Sound, Disjoint, NEW n \in Requests, NEW blk \in used, n < size[blk],
           Cut(blk, n), UNCHANGED <<mem_free, mem_ptr>>
    PROVE  Sound' /\ Disjoint'
<1> DEFINE new == blk + n
<1>1. RingInOrder
    BY DEF Sound
<1>2. /\ MemSize \in Nat
      /\ \A a \in Headers : /\ a \in Units /\ a \in Nat
                            /\ size[a] \in Nat /\ size[a] > 0 /\ a + size[a] <= MemSize
      /\ \A a \in Units : size[a] \in Nat /\ (a \notin Headers => size[a] = 0)
    BY HeaderTypes
<1>3. blk \in Headers /\ n \in Nat /\ n > 0
    BY MaxReqAssumption DEF Sound, Requests, MaxReqAssumption
<1>4. \A a \in Headers : a # blk => Apart(a, blk)
    BY <1>3 DEF Disjoint
<1>5. new \in Units /\ new \in Nat /\ new > blk
  <2>1. blk \in Nat /\ size[blk] \in Nat /\ blk + size[blk] <= MemSize
    BY <1>2, <1>3
  <2> QED
    BY <2>1, <1>2, <1>3 DEF Units
<1>6. new \notin Headers
    BY <1>2, <1>3, <1>4, <1>5 DEF Apart
<1>c. size' = [size EXCEPT ![blk] = n, ![new] = size[blk] - n] /\ used' = used \cup {new}
    BY DEF Cut
<1>7. \A u \in Units : size'[u] = CASE u = blk -> n [] u = new -> size[blk] - n [] OTHER -> size[u]
    BY <1>2, <1>3, <1>5, <1>c DEF Sound
<1> HIDE DEF new
<1>a. new + (size[blk] - n) = blk + size[blk] /\ size[blk] - n > 0
    BY <1>2, <1>3 DEF new
<1>b. /\ size'[blk] = n /\ size'[new] = size[blk] - n
      /\ \A a \in Headers \ {blk} : size'[a] = size[a]
    BY <1>2, <1>3, <1>5, <1>6, <1>7
<1>8. Headers' = Headers \cup {new}
  <2>1. \A u \in Units : size'[u] > 0 <=> u \in Headers \/ u = new
    BY <1>2, <1>3, <1>5, <1>7, <1>a
  <2> QED
    BY <2>1, <1>2, <1>5 DEF Headers
<1>9. Free' = Free
    BY <1>6, <1>8, <1>c DEF Free
<1>10. size' \in [Units -> 0 .. MemSize]
  <2>1. size[blk] - n \in 0 .. MemSize /\ n \in 0 .. MemSize
    BY <1>2, <1>3
  <2> QED
    BY <2>1, <1>2, <1>3, <1>5, <1>c DEF Sound
<1>11. InPool'
    BY <1>2, <1>3, <1>5, <1>8, <1>a, <1>b DEF InPool
<1>12. Disjoint'
    BY <1>2, <1>3, <1>4, <1>5, <1>8, <1>a, <1>b DEF Disjoint, Apart
<1>13. RingInOrder'
    BY <1>1, <1>9 DEF RingInOrder, EntryInRing, LinksInOrder, NoneBetween
<1> QED
    BY <1>8, <1>10, <1>11, <1>12, <1>13, <1>c DEF Sound

LEMMA SameSound ==
    ASSUME Sound, UNCHANGED <<mem_free, mem_ptr, size, used>>
    PROVE  Sound' /\ Headers' = Headers /\ Disjoint' = Disjoint
BY DEF Sound, InPool, Disjoint, Apart, RingInOrder, EntryInRing, LinksInOrder, NoneBetween, Free, Headers

PcType == [Contexts -> [at : {"idle", "search", "release"}, n : 0 .. MaxReq, blk : Units \cup {NULL}]]

\* What a context goes on to do is of the right type.
LEMMA GotoType ==
    ASSUME pc \in PcType, NEW c \in Contexts, NEW n \in Requests, NEW blk \in Units
    PROVE  /\ Goto(c, Idle) => pc' \in PcType
           /\ Goto(c, Searching(n, NULL)) => pc' \in PcType
           /\ Goto(c, Searching(n, blk)) => pc' \in PcType
           /\ Goto(c, Releasing(blk)) => pc' \in PcType
<1> DEFINE R == [at : {"idle", "search", "release"}, n : 0 .. MaxReq, blk : Units \cup {NULL}]
<1>1. 0 \in 0 .. MaxReq /\ n \in 0 .. MaxReq
    BY MaxReqAssumption DEF MaxReqAssumption, Requests
<1>2. Idle \in R /\ Searching(n, NULL) \in R /\ Searching(n, blk) \in R /\ Releasing(blk) \in R
    BY <1>1 DEF Idle, Searching, Releasing
<1> HIDE DEF R
<1>3. \A r \in R : [pc EXCEPT ![c] = r] \in [Contexts -> R]
    BY DEF PcType, R
<1> QED
    BY <1>2, <1>3 DEF Goto, PcType, R

\* One step of either context keeps the invariant, and keeps the blocks apart
\* as long as the base of the pool is kept.
LEMMA NextIInv ==
    ASSUME IInv, [Next]_vars
    PROVE  IInv' /\ (Disjoint /\ BaseKept => Disjoint')
<1>1. Sound /\ pc \in PcType
    BY IInvIsSound DEF IInv, TypeOK, PcType
<1>2. SUFFICES Sound' /\ Owned' /\ pc' \in PcType /\ fault' \in BOOLEAN /\ (Disjoint /\ BaseKept => Disjoint')
    <2>1. Sound' => used' \subseteq Units
        BY DEF Sound, Headers
    <2> QED
        BY <2>1 DEF Sound, IInv, TypeOK, PcType
<1>3. CASE UNCHANGED vars
  <2>1. Sound' /\ Headers' = Headers /\ Disjoint' = Disjoint
    BY <1>1, <1>3, SameSound DEF vars
  <2> QED
    BY <2>1, <1>1, <1>3 DEF vars, Owned, IInv, TypeOK
<1>a. 0 \in Units
    BY MemSizeAssumption DEF Units, MemSizeAssumption
<1>b. Owned /\ fault \in BOOLEAN /\ used \subseteq Units
    BY DEF IInv, TypeOK
<1>c. \A b \in Units : b # NULL
    BY MemSizeAssumption, NullAssumption DEF Units, MemSizeAssumption, NullAssumption
<1>d. \A c \in Contexts : \A r : Goto(c, r) => pc'[c] = r /\ \A d \in Contexts \ {c} : pc'[d] = pc[d]
    BY <1>1 DEF Goto, PcType
<1> DEFINE Good == Sound' /\ Owned' /\ pc' \in PcType /\ fault' \in BOOLEAN
<1>4. ASSUME NEW c \in Contexts, NEW n \in Requests, KRmalloc(c, n)
      PROVE  Good /\ Disjoint'
  <2>1. Sound' /\ Headers' = Headers /\ Disjoint' /\ used' = used /\ fault' = fault
    BY <1>1, <1>4, SameSound DEF KRmalloc, MayRun, Corrupted
  <2>2. Goto(c, Searching(n, NULL))
    BY <1>4 DEF KRmalloc
  <2>3. Owned'
    BY <2>1, <2>2, <1>b, <1>d DEF Owned, Contexts, Searching
  <2> QED
    BY <2>1, <2>2, <2>3, <1>1, <1>a, <1>b, GotoType
<1>5. ASSUME NEW c \in Contexts, NEW n \in Requests, NEW blk \in used, KRreallocGrow(c, blk, n)
      PROVE  Good /\ Disjoint'
  <2>1. Sound' /\ Headers' = Headers /\ Disjoint' /\ used' = used /\ fault' = fault
    BY <1>1, <1>5, SameSound DEF KRreallocGrow, MayRun, Corrupted
  <2>2. Goto(c, Searching(n, blk)) /\ blk \notin Claimed
    BY <1>5 DEF KRreallocGrow
  <2>3. Owned'
    BY <2>1, <2>2, <1>b, <1>d DEF Owned, Contexts, Searching, Claimed
  <2> QED
    BY <2>1, <2>2, <2>3, <1>1, <1>b, GotoType
<1>6. ASSUME NEW c \in Contexts, NEW n \in Requests, NEW blk \in used, KRreallocShrink(c, blk, n)
      PROVE  Good /\ Disjoint'
  <2>1. Sound' /\ Disjoint' /\ used' = used \cup {blk + n} /\ fault' = fault /\ blk + n \in used'
    BY <1>1, <1>6, ShrinkSound DEF KRreallocShrink, MayRun, Corrupted, Cut
  <2>2. Goto(c, Releasing(blk + n)) /\ blk + n \in Units
    BY <2>1, <1>6 DEF KRreallocShrink, Sound, Headers
  <2>3. blk + n \notin used
    <3>1. blk \in Headers /\ n \in Nat /\ n > 0 /\ n < size[blk] /\ Disjoint
        BY <1>1, <1>6, MaxReqAssumption
           DEF Sound, Requests, MaxReqAssumption, KRreallocShrink, MayRun, Corrupted
    <3>2. blk + n \in Headers => Apart(blk + n, blk)
        BY <3>1, <1>1, HeaderTypes DEF Disjoint
    <3> QED
        BY <3>1, <3>2, <1>1, HeaderTypes DEF Apart, Sound
  <2>4. Owned'
    <3>1. used' \subseteq Headers'
        BY <2>1 DEF Sound
    <3> QED
        BY <3>1, <2>1, <2>2, <2>3, <1>b, <1>c, <1>d DEF Owned, Contexts, Releasing
  <2> QED
    BY <2>1, <2>2, <2>4, <1>1, <1>6, <1>b, GotoType
<1>7. ASSUME NEW c \in Contexts, MallocTake(c)
      PROVE  Good /\ Disjoint'
  <2>1. pc[c].n \in Requests /\ Disjoint /\ pc[c].blk \in used \cup {NULL}
    BY <1>7, <1>b DEF MallocTake, MayRun, Corrupted, Owned
  <2>2. Sound' /\ Disjoint' /\ used \subseteq used' /\ fault' = fault
    BY <2>1, <1>1, <1>7, TakeSound DEF MallocTake
  <2>3. /\ pc[c].blk = NULL => Goto(c, Idle)
        /\ pc[c].blk # NULL => Goto(c, Releasing(pc[c].blk))
    BY <1>7 DEF MallocTake
  <2>4. Owned'
    <3>1. used' \subseteq Headers'
        BY <2>2 DEF Sound
    <3> QED
        BY <3>1, <2>1, <2>2, <2>3, <1>b, <1>d DEF Owned, Contexts, Releasing, Idle
  <2>5. pc' \in PcType
    BY <2>1, <2>3, <1>1, <1>a, <1>b, GotoType
  <2> QED
    BY <2>2, <2>4, <2>5, <1>b
<1>8. ASSUME NEW c \in Contexts, MallocFail(c)
      PROVE  Good /\ Disjoint'
  <2>1. Sound' /\ Headers' = Headers /\ Disjoint' /\ used' = used /\ fault' = fault
    BY <1>1, <1>8, SameSound DEF MallocFail, MayRun, Corrupted
  <2>2. Goto(c, Idle)
    BY <1>8 DEF MallocFail
  <2>3. Owned'
    BY <2>1, <2>2, <1>b, <1>d DEF Owned, Contexts, Idle
  <2>4. pc[c].n \in Requests
    BY <1>8, <1>b DEF MallocFail, Owned
  <2> QED
    BY <2>1, <2>2, <2>3, <2>4, <1>1, <1>a, <1>b, GotoType
<1>9. ASSUME NEW c \in Contexts, MallocNull(c)
      PROVE  Good /\ Disjoint'
  <2>1. Sound' /\ Headers' = Headers /\ Disjoint' /\ used' = used /\ fault' \in BOOLEAN /\ pc' = pc
    BY <1>1, <1>9, SameSound DEF MallocNull, MayRun, Corrupted
  <2> QED
    BY <2>1, <1>1, <1>b DEF Owned
<1>10. ASSUME NEW c \in Contexts, NEW blk \in used, KRfree(c, blk)
       PROVE  Good /\ (BaseKept => Disjoint')
  <2>1. /\ Sound' /\ used' = used \ {blk} /\ (BaseKept => Disjoint')
        /\ fault' = fault /\ pc' = pc /\ blk \notin Claimed
    BY <1>1, <1>10, UnlinkSound DEF KRfree, MayRun, Corrupted
  <2>2. Owned'
    BY <2>1, <1>b DEF Owned, Contexts, Claimed, Sound
  <2> QED
    BY <2>1, <2>2, <1>1, <1>b
<1>11. ASSUME NEW c \in Contexts, ReallocRelease(c)
       PROVE  Good /\ (BaseKept => Disjoint')
  <2> DEFINE blk == pc[c].blk
  <2>1. blk \in used /\ Disjoint /\ Goto(c, Idle)
    BY <1>11, <1>b DEF ReallocRelease, MayRun, Corrupted, Owned
  <2>2. Sound' /\ used' = used \ {blk} /\ (BaseKept => Disjoint') /\ fault' = fault
    BY <2>1, <1>1, <1>11, UnlinkSound DEF ReallocRelease
  <2>3. Owned'
    <3>1. used' \subseteq Headers'
        BY <2>2 DEF Sound
    <3> QED
        BY <3>1, <2>1, <2>2, <1>b, <1>d DEF Owned, Contexts, Idle
  <2>4. pc' \in PcType
    <3>1. Requests # {}
        BY MaxReqAssumption DEF MaxReqAssumption, Requests
    <3> QED
        BY <3>1, <2>1, <1>1, <1>a, GotoType
  <2> QED
    BY <2>2, <2>3, <2>4, <1>b
<1> QED
    BY <1>3, <1>4, <1>5, <1>6, <1>7, <1>8, <1>9, <1>10, <1>11 DEF Next

\* The pool's state is of the right type whatever its clients do, even when
\* its blocks have come to overlap.
THEOREM PoolTypeOK == Spec => []TypeOK
<1>1. Init => IInv
    BY InitIInv
<1>2. IInv /\ [Next]_vars => IInv'
    BY NextIInv
<1>3. IInv => TypeOK
    BY DEF IInv
<1> QED
    BY <1>1, <1>2, <1>3, PTL DEF Spec

\* KRmalloc's promise of "exclusive use" holds, with KRfree and KRrealloc as
\* they are and the interrupt allocating between any two steps, as long as the
\* pool is never so full that the block at its base is handed out.
THEOREM BlocksExclusive == Spec /\ []BaseKept => []ExclusiveUse
<1>1. Init => IInv /\ Disjoint
    BY InitIInv
<1>2. IInv /\ Disjoint /\ BaseKept /\ [Next]_vars => IInv' /\ Disjoint'
    BY NextIInv
<1>3. Disjoint => ExclusiveUse
    BY DEF ExclusiveUse
<1> QED
    BY <1>1, <1>2, <1>3, PTL DEF Spec

\* While no two blocks overlap, the free list is one ring in address order, so
\* both walks of the allocator end.
THEOREM RingStaysInOrder == Spec /\ []BaseKept => []RingInOrder
<1>1. Init => IInv /\ Disjoint
    BY InitIInv
<1>2. IInv /\ Disjoint /\ BaseKept /\ [Next]_vars => IInv' /\ Disjoint'
    BY NextIInv
<1>3. IInv /\ Disjoint => RingInOrder
    BY DEF IInv
<1> QED
    BY <1>1, <1>2, <1>3, PTL DEF Spec

(***************************************************************************)
(* What each call does to the units                                        *)
(***************************************************************************)
Covers(a, u) == a <= u /\ u < a + size[a]

\* A unit is held when a block that was handed out covers it.
HeldIsCovered == \A u : u \in Held <=> u \in Int /\ \E a \in used : Covers(a, u)

LEMMA HeldUnits == Sound => HeldIsCovered
<1> SUFFICES ASSUME Sound PROVE HeldIsCovered
    OBVIOUS
<1>1. \A a \in used : a \in Int /\ size[a] \in Int
    BY HeaderTypes DEF Sound
<1>2. \A u : u \in Held <=> \E a \in used : u \in a .. a + size[a] - 1
    BY DEF Held
<1>3. ASSUME NEW a \in used, NEW u PROVE u \in a .. a + size[a] - 1 <=> u \in Int /\ Covers(a, u)
  <2>1. a \in Int /\ size[a] \in Int
      BY <1>1
  <2> QED
      BY <2>1 DEF Covers
<1> QED
    BY <1>2, <1>3 DEF HeldIsCovered

LEMMA HeldUnitsNext == Sound' => HeldIsCovered'
BY HeldUnits, PTL

\* Two blocks have no unit in common.
LEMMA ApartUnits ==
    ASSUME Sound, Disjoint, NEW a \in Headers, NEW b \in Headers, a # b, NEW u \in Int, Covers(a, u)
    PROVE  ~Covers(b, u)
<1>1. Apart(a, b)
    BY DEF Disjoint
<1>2. a \in Int /\ b \in Int /\ size[a] \in Int /\ size[b] \in Int
    BY HeaderTypes
<1> QED
    BY <1>1, <1>2 DEF Apart, Covers

\* KRfree changes no other block that is handed out, and what its block covered
\* is covered afterwards.
LEMMA UnlinkUnits ==
    ASSUME Sound, Disjoint, NEW blk \in used, Unlink(blk)
    PROVE  /\ \A a \in used : a # blk => size'[a] = size[a]
           /\ NoUnitLost => NoUnitLost'
<1>1. CASE mem_free = NULL
  <2>1. size' = size
      BY <1>1 DEF Unlink, LinkAlone
  <2> QED
      BY <2>1 DEF NoUnitLost, Headers
<1>2. CASE mem_free # NULL
  <2>1. PICK run \in Free : StopsAt(blk, run) /\ LinkAfter(blk, run)
      BY <1>2 DEF Unlink
  <2>2. PICK next : next = mem_ptr[run]
      OBVIOUS
  <2>3. /\ MemSize \in Nat
        /\ \A a \in Headers : /\ a \in Units /\ a \in Nat
                              /\ size[a] \in Nat /\ size[a] > 0 /\ a + size[a] <= MemSize
        /\ \A a \in Units : size[a] \in Nat /\ (a \notin Headers => size[a] = 0)
      BY HeaderTypes
  <2>4. /\ run \in Headers /\ next \in Headers /\ blk \in Headers /\ run # blk /\ next # blk
        /\ run \notin used /\ next \notin used
      BY <2>1, <2>2, StopsBetween DEF Free, Sound
  <2> DEFINE above == blk + size[blk] = next
             below == run + size[run] = blk
             gone  == ((IF above THEN {next} ELSE {}) \ {run}) \cup (IF below THEN {blk} ELSE {})
             len   == IF above THEN size[blk] + size[next] ELSE size[blk]
  <2>5. size' = [u \in Units |-> CASE u \in gone -> 0
                                   [] u = run /\ below -> size[run] + len
                                   [] u = blk /\ ~below -> len
                                   [] OTHER -> size[u]]
      BY <2>1, <2>2 DEF LinkAfter
  <2>6. \A u \in Units : u \notin {run, blk, next} => size'[u] = size[u]
      BY <2>5
  <2>7. /\ run \in Units /\ blk \in Units /\ next \in Units
        /\ size'[run] = IF below THEN size[run] + len ELSE size[run]
        /\ ~below => size'[blk] = len
        /\ ~above /\ next # run => size'[next] = size[next]
      BY <2>3, <2>4, <2>5
  <2> HIDE DEF above, below, gone, len
  <2>8. ASSUME NoUnitLost PROVE NoUnitLost'
    <3>1. SUFFICES ASSUME NEW u \in Units PROVE \E a \in Headers' : Covers(a, u)'
        BY DEF NoUnitLost, Covers
    <3>2. PICK a \in Headers : Covers(a, u)
        BY <2>8 DEF NoUnitLost, Covers
    <3>3. u \in Int /\ a \in Int /\ run \in Int /\ blk \in Int /\ next \in Int
          /\ size[run] \in Nat /\ size[blk] \in Nat /\ size[next] \in Nat /\ size[blk] > 0 /\ size[run] > 0
        BY <2>3, <2>4 DEF Units
    <3>4. len \in Nat /\ len >= size[blk] /\ len > 0 /\ (above => len = size[blk] + size[next])
        BY <3>3 DEF len
    <3>5. CASE a \notin {run, blk, next}
      <4>1. size'[a] = size[a] /\ a \in Headers'
          BY <3>5, <2>3, <2>6 DEF Headers
      <4> QED
          BY <4>1, <3>2 DEF Covers
    <3>6. CASE a = run
      <4>1. size'[run] \in Int /\ size'[run] >= size[run] /\ run \in Headers'
          BY <3>3, <3>4, <2>7 DEF Headers
      <4> QED
          BY <4>1, <3>2, <3>3, <3>6 DEF Covers
    <3>7. CASE a = blk
      <4>1. CASE below
        <5>1. size'[run] = size[run] + len /\ run + size[run] = blk
            BY <4>1, <2>7 DEF below
        <5>2. run \in Headers'
            BY <5>1, <3>3, <3>4, <2>7 DEF Headers
        <5> QED
            BY <5>1, <5>2, <3>2, <3>3, <3>4, <3>7 DEF Covers
      <4>2. CASE ~below
        <5>1. size'[blk] = len /\ blk \in Headers'
            BY <4>2, <3>3, <3>4, <2>7 DEF Headers
        <5> QED
            BY <5>1, <3>2, <3>3, <3>4, <3>7 DEF Covers
      <4> QED
          BY <4>1, <4>2
    <3>8. CASE a = next /\ a # run /\ ~above
      <4>1. size'[a] = size[a] /\ a \in Headers'
          BY <3>8, <2>3, <2>7 DEF Headers
      <4> QED
          BY <4>1, <3>2 DEF Covers
    <3>9. CASE a = next /\ a # run /\ above
      <4>1. len = size[blk] + size[next] /\ blk + size[blk] = next
          BY <3>9, <3>4 DEF above
      <4>2. CASE below
        <5>1. size'[run] = size[run] + len /\ run + size[run] = blk
            BY <4>2, <2>7 DEF below
        <5>2. run \in Headers'
            BY <5>1, <3>3, <3>4, <2>7 DEF Headers
        <5> QED
            BY <4>1, <5>1, <5>2, <3>2, <3>3, <3>4, <3>9 DEF Covers
      <4>3. CASE ~below
        <5>1. size'[blk] = len /\ blk \in Headers'
            BY <4>3, <3>3, <3>4, <2>7 DEF Headers
        <5> QED
            BY <4>1, <5>1, <3>2, <3>3, <3>4, <3>9 DEF Covers
      <4> QED
          BY <4>2, <4>3
    <3> QED
        BY <3>5, <3>6, <3>7, <3>8, <3>9
  <2>9. \A a \in used : a # blk => size'[a] = size[a]
      BY <2>3, <2>4, <2>6 DEF Sound
  <2> QED
      BY <2>8, <2>9
<1> QED
    BY <1>1, <1>2

\* KRfree gives back one piece, which the clients held.
LEMMA UnlinkReleases ==
    ASSUME Sound, Disjoint, NEW blk \in used, Unlink(blk)
    PROVE  [Abstract!Next]_Held
<1> DEFINE piece == blk .. blk + size[blk] - 1
<1>1. Sound' /\ used' = used \ {blk} /\ \A a \in used : a # blk => size'[a] = size[a]
    BY UnlinkSound, UnlinkUnits
<1>2. blk \in Headers /\ used \subseteq Headers /\ blk \in Nat /\ size[blk] \in Nat /\ size[blk] > 0
      /\ blk + size[blk] <= MemSize /\ MemSize \in Nat
    BY HeaderTypes DEF Sound
<1>3. piece \in Abstract!Runs
  <2>1. blk \in 0 .. MemSize - 1 /\ blk + size[blk] - 1 \in 0 .. MemSize - 1 /\ blk \in piece
      BY <1>2
  <2> QED
      BY <2>1 DEF Abstract!Runs
<1>4. \A u : u \in piece <=> u \in Int /\ Covers(blk, u)
    BY <1>2 DEF Covers
<1>5. \A u : u \in Held <=> u \in Int /\ \E a \in used : Covers(a, u)
    BY HeldUnits DEF HeldIsCovered
<1>6. \A u : u \in Held' <=> u \in Int /\ \E a \in used : a # blk /\ Covers(a, u)
  <2>1. \A u : u \in Held' <=> u \in Int /\ \E a \in used' : Covers(a, u)'
      BY <1>1, HeldUnitsNext DEF HeldIsCovered
  <2>2. \A a \in used' : \A u : Covers(a, u)' <=> Covers(a, u)
      BY <1>1 DEF Covers
  <2> QED
      BY <2>1, <2>2, <1>1
<1> HIDE DEF piece
<1>7. Held' = Held \ piece /\ piece \subseteq Held
    BY <1>2, <1>4, <1>5, <1>6, ApartUnits
<1> QED
    BY <1>3, <1>7 DEF Abstract!Next, Abstract!Release

\* KRmalloc takes one piece, from memory nobody held.
LEMMA TakeUnits ==
    ASSUME Sound, Disjoint, NEW n \in Requests, NEW run \in Free, NEW prev \in Free,
           FirstFit(n, run), mem_ptr[prev] = run, mem_free # NULL, Take(run, prev, n)
    PROVE  [Abstract!Next]_Held /\ (NoUnitLost => NoUnitLost')
<1>1. /\ MemSize \in Nat
      /\ \A a \in Headers : /\ a \in Units /\ a \in Nat
                            /\ size[a] \in Nat /\ size[a] > 0 /\ a + size[a] <= MemSize
      /\ \A a \in Units : size[a] \in Nat /\ (a \notin Headers => size[a] = 0)
    BY HeaderTypes
<1>2. n \in Nat /\ n > 0 /\ size[run] >= n /\ n \in 1 .. MaxReq
    BY MaxReqAssumption DEF Requests, FirstFit, Nearest, Fitting, MaxReqAssumption
<1>3. run \in Headers /\ run \notin used /\ used \subseteq Headers
    BY DEF Free, Sound
<1>new. PICK new : new = run + size[run] - n
    OBVIOUS
<1>piece. PICK piece : piece = new .. new + n - 1
    OBVIOUS
<1>4. /\ new \in Nat /\ new >= run /\ new + n = run + size[run] /\ new + n <= MemSize
      /\ (new = run <=> size[run] = n)
  <2>1. run \in Nat /\ size[run] \in Nat /\ run + size[run] <= MemSize
      BY <1>1, <1>3
  <2>2. new \in Int
      BY <1>new, <1>2, <2>1
  <2> QED
      BY <1>new, <1>1, <1>2, <2>1, <2>2
<1>5. Sound'
    BY TakeSound
<1>6. \A b \in Headers : b # run => \A u \in Int : Covers(run, u) => ~Covers(b, u)
    BY <1>3, ApartUnits
<1>7. used' = used \cup {new}
  <2>1. CASE size[run] = n
      BY <2>1, <1>4 DEF Take
  <2>2. CASE size[run] # n
      BY <2>2, <1>new DEF Take
  <2> QED
      BY <2>1, <2>2
<1>8. new \notin Headers \ {run}
  <2>1. Covers(run, new)
      BY <1>1, <1>2, <1>3, <1>4 DEF Covers
  <2>2. \A b \in Headers : Covers(b, b)
      BY <1>1 DEF Covers
  <2> QED
      BY <2>1, <2>2, <1>4, <1>6
<1>9. /\ size'[new] = n /\ new \in Units
      /\ \A a \in Units : a # run /\ a # new => size'[a] = size[a]
      /\ size[run] # n => size'[run] = size[run] - n
  <2>1. new \in Units /\ run \in Units
      BY <1>1, <1>2, <1>3, <1>4 DEF Units
  <2>2. CASE size[run] = n
      BY <2>1, <2>2, <1>4 DEF Take
  <2>3. CASE size[run] # n
    <3>1. size' = [size EXCEPT ![run] = size[run] - n, ![new] = n] /\ new # run
        BY <2>3, <1>new, <1>4 DEF Take
    <3> QED
        BY <3>1, <2>1 DEF Sound
  <2> QED
      BY <2>1, <2>2, <2>3
<1>10. piece \in Abstract!Runs
  <2>1. new \in 0 .. MemSize - 1 /\ new + n - 1 \in 0 .. MemSize - 1 /\ new \in piece
      BY <1>piece, <1>1, <1>2, <1>4
  <2> QED
      BY <1>piece, <2>1 DEF Abstract!Runs
<1>11. new \in piece /\ \A u : u \in piece <=> u \in Int /\ new <= u /\ u < new + n
    BY <1>piece, <1>2, <1>4
<1>12. \A u : u \in Held <=> u \in Int /\ \E a \in used : Covers(a, u)
    BY HeldUnits DEF HeldIsCovered
<1>13. \A u : u \in Held' <=> u \in Int /\ \E a \in used' : Covers(a, u)'
    BY <1>5, HeldUnitsNext DEF HeldIsCovered
<1>15. \A u : u \in piece <=> u \in Int /\ Covers(new, u)'
    BY <1>9, <1>11 DEF Covers
<1>16. \A a \in used : \A u : Covers(a, u)' <=> Covers(a, u)
  <2>1. \A a \in used : a # run /\ a # new /\ a \in Units
      BY <1>1, <1>3, <1>8
  <2> QED
      BY <2>1, <1>9 DEF Covers
<1>17. Held' = Held \cup piece
    BY <1>7, <1>12, <1>13, <1>15, <1>16
<1>18. piece \cap Held = {}
  <2>1. \A u \in piece : u \in Int /\ Covers(run, u)
      BY <1>1, <1>2, <1>3, <1>4, <1>11 DEF Covers
  <2> QED
      BY <2>1, <1>3, <1>6, <1>12
<1>19. Abstract!Next
    BY <1>2, <1>10, <1>11, <1>piece, <1>17, <1>18 DEF Abstract!Next, Abstract!Grant
<1>20. ASSUME NoUnitLost PROVE NoUnitLost'
  <2>1. SUFFICES ASSUME NEW u \in Units PROVE \E a \in Headers' : Covers(a, u)'
      BY DEF NoUnitLost, Covers
  <2>2. PICK a \in Headers : Covers(a, u)
      BY <1>20 DEF NoUnitLost, Covers
  <2>3. u \in Int
      BY <1>1 DEF Units
  <2>4. new \in Headers'
      BY <1>2, <1>9 DEF Headers
  <2>5. CASE a # run
    <3>1. a # new /\ size'[a] = size[a] /\ a \in Headers'
        BY <2>5, <1>1, <1>8, <1>9 DEF Headers
    <3> QED
        BY <3>1, <2>2 DEF Covers
  <2>6. CASE a = run /\ new <= u
      BY <2>2, <2>3, <2>4, <2>6, <1>1, <1>2, <1>3, <1>4, <1>9 DEF Covers
  <2>7. CASE a = run /\ ~(new <= u)
    <3>1. size[run] # n
        BY <2>2, <2>3, <2>7, <1>1, <1>3, <1>4 DEF Covers
    <3>2. size'[run] = size[run] - n /\ run \in Headers'
        BY <3>1, <1>1, <1>2, <1>3, <1>9 DEF Headers
    <3> QED
        BY <3>2, <2>2, <2>3, <2>7, <1>1, <1>2, <1>3, <1>4 DEF Covers
  <2> QED
      BY <2>5, <2>6, <2>7
<1> QED
    BY <1>19, <1>20

\* Cutting a block in two leaves every unit where it was.
LEMMA ShrinkUnits ==
    ASSUME Sound, Disjoint, NEW n \in Requests, NEW blk \in used, n < size[blk],
           Cut(blk, n), UNCHANGED <<mem_free, mem_ptr>>
    PROVE  Held' = Held /\ (NoUnitLost => NoUnitLost')
<1> DEFINE new == blk + n
<1>1. /\ MemSize \in Nat
      /\ \A a \in Headers : /\ a \in Units /\ a \in Nat
                            /\ size[a] \in Nat /\ size[a] > 0 /\ a + size[a] <= MemSize
      /\ \A a \in Units : size[a] \in Nat /\ (a \notin Headers => size[a] = 0)
    BY HeaderTypes
<1>2. blk \in Headers /\ used \subseteq Headers /\ n \in Nat /\ n > 0
    BY MaxReqAssumption DEF Sound, Requests, MaxReqAssumption
<1>3. new \in Units /\ new \in Nat /\ new > blk /\ new < blk + size[blk]
    BY <1>1, <1>2 DEF Units
<1>4. new \notin Headers
  <2>1. Covers(blk, new) /\ (new \in Headers => Covers(new, new))
      BY <1>1, <1>2, <1>3 DEF Covers
  <2> QED
      BY <2>1, <1>2, <1>3, ApartUnits
<1>5. /\ size'[blk] = n /\ size'[new] = size[blk] - n
      /\ \A a \in Units : a # blk /\ a # new => size'[a] = size[a]
      /\ used' = used \cup {new}
  <2>1. size' = [size EXCEPT ![blk] = n, ![new] = size[blk] - n] /\ used' = used \cup {new}
      BY DEF Cut
  <2> QED
      BY <2>1, <1>1, <1>2, <1>3 DEF Sound
<1>6. Sound'
    BY ShrinkSound
<1>7. \A u \in Int : Covers(blk, u) <=> Covers(blk, u)' \/ Covers(new, u)'
    BY <1>1, <1>2, <1>3, <1>5 DEF Covers
<1>8. \A a \in Headers : a # blk => a # new /\ a \in Units /\ \A u : Covers(a, u)' <=> Covers(a, u)
  <2>1. \A a \in Headers : a # blk => a # new /\ a \in Units /\ size'[a] = size[a]
      BY <1>1, <1>4, <1>5
  <2> QED
      BY <2>1 DEF Covers
<1>9. \A u : u \in Held <=> u \in Int /\ \E a \in used : Covers(a, u)
    BY HeldUnits DEF HeldIsCovered
<1>10. \A u : u \in Held' <=> u \in Int /\ \E a \in used' : Covers(a, u)'
    BY <1>6, HeldUnitsNext DEF HeldIsCovered
<1> HIDE DEF new
<1>11. Held' = Held
    BY <1>2, <1>5, <1>7, <1>8, <1>9, <1>10
<1>12. ASSUME NoUnitLost PROVE NoUnitLost'
  <2>1. SUFFICES ASSUME NEW u \in Units PROVE \E a \in Headers' : Covers(a, u)'
      BY DEF NoUnitLost, Covers
  <2>2. PICK a \in Headers : Covers(a, u)
      BY <1>12 DEF NoUnitLost, Covers
  <2>3. u \in Int
      BY <1>1 DEF Units
  <2>4. blk \in Headers' /\ new \in Headers'
      BY <1>1, <1>2, <1>3, <1>5 DEF Headers
  <2>5. CASE a # blk
    <3>1. a \in Headers'
        BY <2>5, <1>1, <1>4, <1>5 DEF Headers
    <3> QED
        BY <3>1, <2>2, <2>5, <1>8
  <2> QED
      BY <2>2, <2>3, <2>4, <2>5, <1>7
<1> QED
    BY <1>11, <1>12

\* Every step of the allocator is a step of the abstract pool or leaves it alone,
\* and loses no unit, even the one after which blocks overlap.
LEMMA NextUnits ==
    ASSUME IInv, [Next]_vars
    PROVE  [Abstract!Next]_Held /\ (NoUnitLost => NoUnitLost')
<1>1. Sound /\ Owned
    BY IInvIsSound DEF IInv
<1>2. ASSUME UNCHANGED <<size, used>> PROVE Held' = Held /\ (NoUnitLost => NoUnitLost')
    BY <1>2 DEF Held, NoUnitLost, Headers
<1>3. ASSUME NEW c \in Contexts, NEW n \in Requests, NEW blk \in used, KRreallocShrink(c, blk, n)
      PROVE  Held' = Held /\ (NoUnitLost => NoUnitLost')
    BY <1>1, <1>3, ShrinkUnits DEF KRreallocShrink, MayRun, Corrupted
<1>4. ASSUME NEW c \in Contexts, MallocTake(c)
      PROVE  [Abstract!Next]_Held /\ (NoUnitLost => NoUnitLost')
  <2>1. pc[c].n \in Requests /\ Disjoint
      BY <1>1, <1>4 DEF MallocTake, MayRun, Corrupted, Owned
  <2> QED
      BY <2>1, <1>1, <1>4, TakeUnits DEF MallocTake
<1>5. ASSUME NEW c \in Contexts, NEW blk \in used, KRfree(c, blk)
      PROVE  [Abstract!Next]_Held /\ (NoUnitLost => NoUnitLost')
    BY <1>1, <1>5, UnlinkReleases, UnlinkUnits DEF KRfree, MayRun, Corrupted
<1>6. ASSUME NEW c \in Contexts, ReallocRelease(c)
      PROVE  [Abstract!Next]_Held /\ (NoUnitLost => NoUnitLost')
  <2>1. pc[c].blk \in used /\ Disjoint
      BY <1>1, <1>6 DEF ReallocRelease, MayRun, Corrupted, Owned
  <2> QED
      BY <2>1, <1>1, <1>6, UnlinkReleases, UnlinkUnits DEF ReallocRelease
<1>7. UNCHANGED vars => UNCHANGED <<size, used>>
    BY DEF vars
<1> QED
    BY <1>2, <1>3, <1>4, <1>5, <1>6, <1>7
    DEF Next, KRmalloc, KRreallocGrow, MallocFail, MallocNull

\* No unit of the pool is ever lost, whatever is allocated, cut, joined and released,
\* and also when the pool has been handed out to its base.
THEOREM EveryUnitKept == Spec => []NoUnitLost
<1>1. Init => NoUnitLost
  <2> SUFFICES ASSUME Init, NEW u \in Units PROVE \E a \in Headers : a <= u /\ u < a + size[a]
      BY DEF NoUnitLost
  <2>1. MemSize \in Nat \ {0} /\ 0 \in Units
      BY MemSizeAssumption DEF MemSizeAssumption, Units
  <2>2. size[0] = MemSize /\ 0 \in Headers
      BY <2>1 DEF Init, Headers
  <2> QED
      BY <2>1, <2>2 DEF Units
<1> QED
    BY <1>1, InitIInv, NextIInv, NextUnits, PTL DEF Spec

\* What the clients hold changes as the abstract pool promises: KRmalloc grants one
\* piece of memory nobody held, KRfree takes back one piece, and KRrealloc is made of
\* the two, for every size of the pool and of the requests.
THEOREM AllocatorImplementsPool == Spec => ImplementsPool
<1>1. Init => Abstract!Init
    BY DEF Init, Held, Abstract!Init
<1> QED
    BY <1>1, InitIInv, NextIInv, NextUnits, PTL DEF Spec, ImplementsPool, Abstract!Spec
=============================================================================
