------------------------------ MODULE Handles ------------------------------
(***************************************************************************)
(* The pool of connection handles (src/sting/protocol.c): PRTCL_request    *)
(* gives out the next handle nobody has, PRTCL_release takes it back, and  *)
(* do_lookup finds what belongs to a handle in the chain of its bucket.    *)
(* Request and release run with interrupts off, so each is one step.       *)
(***************************************************************************)
EXTENDS Integers, SequencesExt, FiniteSetsExt

CONSTANTS
    HANDLES,     \* the number of handles (32765)
    MAX_HANDLE,  \* buckets of cn_array (64)
    Connections, \* what modules associate with a handle
    NULL

ASSUME HandlesAssumption ==
    /\ HANDLES \in Nat \ {0} /\ MAX_HANDLE \in Nat \ {0}
    /\ NULL \notin Connections

VARIABLES
    cn_array,    \* chain of descriptors of each bucket
    next_handle, \* the handle given out last
    searching,   \* TRUE once a request searches without end, interrupts off
    holder       \* history: the connection each handle was given for

pool == <<cn_array, next_handle, searching, holder>>

Handle == 0 .. HANDLES - 1
Bucket(h) == h % MAX_HANDLE
Descriptors == [handle : Handle, anonymous : Connections]

PoolTypeOK ==
    /\ cn_array \in [0 .. MAX_HANDLE - 1 -> Seq(Descriptors)]
    /\ next_handle \in Handle
    /\ searching \in BOOLEAN
    /\ holder \in [Handle -> Connections \cup {NULL}]

PoolInit ==
    /\ cn_array = [b \in 0 .. MAX_HANDLE - 1 |-> <<>>]
    /\ next_handle = 0
    /\ searching = FALSE
    /\ holder = [h \in Handle |-> NULL]

Hits(h) == {i \in 1 .. Len(cn_array[Bucket(h)]) : cn_array[Bucket(h)][i].handle = h}

\* What belongs to the handle, or NULL.
do_lookup(h) ==
    IF Hits(h) = {} THEN NULL ELSE cn_array[Bucket(h)][Min(Hits(h))].anonymous

\* How far the search that starts behind next_handle gets before h.
Tries(h) == (h - next_handle - 1 + HANDLES) % HANDLES
Unused   == {h \in Handle : Hits(h) = {}}
IsNext(h) == h \in Unused /\ \A g \in Unused : Tries(h) <= Tries(g)

Give(h, c) ==
    /\ IsNext(h)
    /\ next_handle' = h
    /\ cn_array' = [cn_array EXCEPT ![Bucket(h)] = <<[handle |-> h, anonymous |-> c]>> \o @]
    /\ UNCHANGED searching

SearchForever ==
    /\ Unused = {} /\ searching' = TRUE
    /\ UNCHANGED <<cn_array, next_handle>>

\* Plausible slip: all that hangs behind the descriptor goes with it.
CutsChain(h) ==
    /\ cn_array' = [cn_array EXCEPT ![Bucket(h)] =
                      IF Hits(h) = {} THEN @ ELSE SubSeq(@, 1, Min(Hits(h)) - 1)]
    /\ UNCHANGED <<next_handle, searching>>
Drop(h) ==
    /\ cn_array' = [cn_array EXCEPT ![Bucket(h)] =
                      IF Hits(h) = {} THEN @ ELSE RemoveAt(@, Min(Hits(h)))]
    /\ UNCHANGED <<next_handle, searching>>

\* The handle it returns, or -1 when there is no memory for a descriptor.
PRTCL_request(h, c) ==
    /\ ~searching
    /\ \/ /\ h \in Handle /\ Give(h, c)
          /\ holder' = [holder EXCEPT ![h] = c]
       \/ h = -1 /\ UNCHANGED pool

\* All handles are taken, and the search for the next one never ends.
NoneLeft ==
    /\ ~searching
    /\ SearchForever
    /\ UNCHANGED holder

\* Also of a handle that nobody has.
PRTCL_release(h) ==
    /\ ~searching
    /\ Drop(h)
    /\ holder' = [holder EXCEPT ![h] = NULL]

\* The pool alone, whatever its clients do.
PoolNext ==
    \/ \E h \in Handle \cup {-1}, c \in Connections : PRTCL_request(h, c)
    \/ NoneLeft
    \/ \E h \in Handle : PRTCL_release(h)

PoolSpec == PoolInit /\ [][PoolNext]_pool

(***************************************************************************)
(* Properties                                                              *)
(***************************************************************************)
\* A handle leads to the connection it was given for until it is released, and
\* to nothing afterwards: whatever else was given and released in its bucket.
LookupIsTrue == \A h \in Handle : do_lookup(h) = holder[h]

\* "PRTCL_request returns a new handle, or -1 if an error occurred."
AlwaysReturns == ~searching
=============================================================================
