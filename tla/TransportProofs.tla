-------------------------- MODULE TransportProofs --------------------------
(***************************************************************************)
(* UDP: for any number of handles and buckets a handle leads to what it    *)
(* was given for, by the pool alone and with the UDP module on top of it,  *)
(* and open connections are found.  TCP: for any numbers, windows and      *)
(* segments the fields of a connection keep their types, and what arrives  *)
(* never exceeds the window.                                               *)
(***************************************************************************)
EXTENDS UdpConn, TcpPair, SequenceLemmas, TLAPS

Chain(h) == cn_array[Bucket(h)]

\* What of a bucket's chain belongs to the handle: one descriptor while somebody holds
\* it, none otherwise.
Recorded(h) ==
    /\ \A i \in Hits(h) : Chain(h)[i].anonymous = holder[h]
    /\ \A i, j \in Hits(h) : i = j
    /\ holder[h] # NULL => Hits(h) # {}

IInv == PoolTypeOK /\ \A h \in Handle : Recorded(h)

(***************************************************************************)
(* Chains                                                                  *)
(***************************************************************************)
LEMMA BucketSound ==
    \A h \in Handle : Bucket(h) \in 0 .. MAX_HANDLE - 1
BY HandlesAssumption DEF Handle, Bucket

LEMMA HitsSound ==
    ASSUME PoolTypeOK, NEW h \in Handle
    PROVE  /\ Chain(h) \in Seq(Descriptors) /\ Len(Chain(h)) \in Nat
           /\ \A i \in 1 .. Len(Chain(h)) : Chain(h)[i] \in Descriptors
           /\ Hits(h) = {i \in 1 .. Len(Chain(h)) : Chain(h)[i].handle = h}
<1>1. Chain(h) \in Seq(Descriptors)
  BY BucketSound DEF PoolTypeOK, Chain
<1> QED BY <1>1, LenProperties, ElementOfSeq DEF Hits, Chain

\* The only place a handle is found at is the least one.
LEMMA MinSound ==
    ASSUME PoolTypeOK, NEW h \in Handle, NEW i \in Hits(h), \A j \in Hits(h) : j = i
    PROVE  Min(Hits(h)) = i
<1>1. i \in Int /\ Hits(h) = {i}
  BY HitsSound
<1> QED BY <1>1 DEF Min

(***************************************************************************)
(* The steps of the pool                                                   *)
(***************************************************************************)
LEMMA NoHandle == -1 \notin Handle
BY HandlesAssumption DEF Handle

LEMMA GiveKeeps ==
    ASSUME IInv, NEW h \in Handle, NEW c \in Connections, PRTCL_request(h, c)
    PROVE  IInv'
<1> DEFINE d   == [handle |-> h, anonymous |-> c]
           new == <<d>> \o Chain(h)
<1>1. Hits(h) = {} /\ next_handle' = h /\ searching' = searching
  BY NoHandle DEF PRTCL_request, Give, IsNext, Unused
<1>2. cn_array' = [cn_array EXCEPT ![Bucket(h)] = new] /\ holder' = [holder EXCEPT ![h] = c]
  BY NoHandle DEF PRTCL_request, Give, Chain
<1>3. d \in Descriptors /\ d.handle = h /\ d.anonymous = c
  BY DEF Descriptors
<1>4. /\ new \in Seq(Descriptors) /\ Len(new) = Len(Chain(h)) + 1 /\ new[1] = d
      /\ \A i \in 2 .. Len(Chain(h)) + 1 : new[i] = Chain(h)[i - 1]
  BY <1>3, HitsSound, PrependSound DEF IInv
<1> HIDE DEF d, new
<1>5. PoolTypeOK'
  BY <1>1, <1>2, <1>4 DEF IInv, PoolTypeOK
<1>6. ASSUME NEW g \in Handle, Bucket(g) # Bucket(h) PROVE Recorded(g)'
  <2>1. Chain(g)' = Chain(g) /\ holder'[g] = holder[g]
    BY <1>2, <1>6, BucketSound DEF IInv, PoolTypeOK, Chain
  <2>2. Hits(g)' = Hits(g)
    BY <2>1, <1>5, HitsSound DEF IInv, Hits, Chain
  <2> QED BY <2>1, <2>2 DEF IInv, Recorded
<1>7. ASSUME NEW g \in Handle, Bucket(g) = Bucket(h) PROVE Recorded(g)'
  <2>1. Chain(g)' = new /\ Chain(g) = Chain(h)
    BY <1>2, <1>7, BucketSound DEF IInv, PoolTypeOK, Chain
  <2>2. Hits(g)' = {i \in 1 .. Len(Chain(h)) + 1 : new[i].handle = g}
    BY <2>1, <1>4 DEF Hits, Chain
  <2>3. Len(Chain(h)) \in Nat
    BY HitsSound DEF IInv
  <2>4. CASE g = h
    <3>1. Hits(g)' = {1}
      <4>1. \A i \in 1 .. Len(Chain(h)) : Chain(h)[i].handle # h
        BY <1>1, HitsSound DEF IInv
      <4> QED BY <4>1, <1>3, <1>4, <2>2, <2>3, <2>4
    <3>2. holder'[g] = c
      BY <1>2, <2>4 DEF IInv, PoolTypeOK
    <3> QED BY <3>1, <3>2, <2>1, <1>3, <1>4 DEF Recorded
  <2>5. CASE g # h
    <3>1. holder'[g] = holder[g]
      BY <1>2, <2>5 DEF IInv, PoolTypeOK
    <3>2. \A i \in Hits(g)' : i - 1 \in Hits(g) /\ new[i] = Chain(g)[i - 1] /\ i \in Int
      <4>1. Hits(g) = {i \in 1 .. Len(Chain(h)) : Chain(h)[i].handle = g}
        BY <2>1, HitsSound DEF IInv
      <4>2. ASSUME NEW i \in Hits(g)'
            PROVE  i \in 2 .. Len(Chain(h)) + 1 /\ new[i].handle = g
        BY <1>3, <1>4, <2>2, <2>3, <2>5
      <4>3. ASSUME NEW i \in Hits(g)'
            PROVE  i - 1 \in 1 .. Len(Chain(h)) /\ new[i] = Chain(h)[i - 1] /\ i \in Int
        BY <1>4, <2>3, <4>2
      <4> QED BY <2>1, <4>1, <4>2, <4>3
    <3>3. \A i \in Hits(g) : i + 1 \in Hits(g)'
      <4>1. \A i \in Hits(g) : i \in 1 .. Len(Chain(h)) /\ Chain(h)[i].handle = g
        BY <2>1, HitsSound DEF IInv
      <4>2. ASSUME NEW i \in Hits(g) PROVE i + 1 \in 2 .. Len(Chain(h)) + 1 /\ new[i + 1] = Chain(h)[i]
        BY <1>4, <2>3, <4>1
      <4> QED BY <2>2, <2>3, <4>1, <4>2
    <3>4. /\ \A i \in Hits(g)' : new[i].anonymous = holder[g]
          /\ \A i, j \in Hits(g)' : i = j
          /\ holder[g] # NULL => Hits(g)' # {}
      BY <3>2, <3>3 DEF IInv, Recorded
    <3> QED BY <3>1, <3>4, <2>1 DEF Recorded
  <2> QED BY <2>4, <2>5
<1> QED BY <1>5, <1>6, <1>7 DEF IInv

LEMMA DropKeeps ==
    ASSUME IInv, NEW h \in Handle, PRTCL_release(h)
    PROVE  IInv'
<1>1. next_handle' = next_handle /\ searching' = searching /\ holder' = [holder EXCEPT ![h] = NULL]
  BY DEF PRTCL_release, Drop
<1>2. CASE Hits(h) = {}
  <2>1. cn_array' = cn_array
    BY <1>2, BucketSound DEF PRTCL_release, Drop, IInv, PoolTypeOK
  <2>2. holder[h] = NULL
    BY <1>2 DEF IInv, Recorded
  <2>3. holder' = holder
    BY <1>1, <2>2 DEF IInv, PoolTypeOK
  <2> QED BY <1>1, <2>1, <2>3 DEF IInv, PoolTypeOK, Recorded, Hits, Chain
<1>3. CASE Hits(h) # {}
  <2>1. PICK m \in Hits(h) : \A j \in Hits(h) : j = m
    BY <1>3 DEF IInv, Recorded
  <2>2. m \in 1 .. Len(Chain(h)) /\ Len(Chain(h)) \in Nat /\ Chain(h)[m].handle = h
    BY HitsSound DEF IInv
  <2> DEFINE new == RemoveAt(Chain(h), m)
  <2>3. cn_array' = [cn_array EXCEPT ![Bucket(h)] = new]
    BY <1>3, <2>1, MinSound DEF PRTCL_release, Drop, IInv, Chain
  <2>4. /\ new \in Seq(Descriptors) /\ Len(new) = Len(Chain(h)) - 1
        /\ \A j \in 1 .. Len(Chain(h)) - 1 : new[j] = IF j < m THEN Chain(h)[j] ELSE Chain(h)[j + 1]
    BY <2>2, HitsSound, RemoveSound DEF IInv
  <2> HIDE DEF new
  <2>5. PoolTypeOK'
    BY <1>1, <2>3, <2>4 DEF IInv, PoolTypeOK
  <2>6. ASSUME NEW g \in Handle, Bucket(g) # Bucket(h) PROVE Recorded(g)'
    <3>1. Chain(g)' = Chain(g) /\ holder'[g] = holder[g]
      BY <1>1, <2>3, <2>6, BucketSound DEF IInv, PoolTypeOK, Chain
    <3>2. Hits(g)' = Hits(g)
      BY <3>1 DEF Hits, Chain
    <3> QED BY <3>1, <3>2 DEF IInv, Recorded
  <2>7. ASSUME NEW g \in Handle, Bucket(g) = Bucket(h) PROVE Recorded(g)'
    <3>1. Chain(g)' = new /\ Chain(g) = Chain(h)
      BY <2>3, <2>7, BucketSound DEF IInv, PoolTypeOK, Chain
    <3>2. Hits(g)' = {i \in 1 .. Len(Chain(h)) - 1 : new[i].handle = g}
      BY <3>1, <2>4 DEF Hits, Chain
    <3>3. \A i \in Hits(g) : i \in 1 .. Len(Chain(h)) /\ Chain(h)[i].handle = g
      BY <3>1, HitsSound DEF IInv
    <3>4. \A i \in 1 .. Len(Chain(h)) : Chain(h)[i].handle = g => i \in Hits(g)
      BY <3>1, HitsSound DEF IInv
    <3>5. CASE g = h
      <4>1. \A i \in 1 .. Len(Chain(h)) : Chain(h)[i].handle = h => i = m
        BY <2>1, <3>4, <3>5
      <4>2. Hits(g)' = {}
        BY <4>1, <2>2, <2>4, <3>2, <3>5
      <4>3. holder'[g] = NULL
        BY <1>1, <3>5 DEF IInv, PoolTypeOK
      <4> QED BY <4>2, <4>3 DEF Recorded
    <3>6. CASE g # h
      <4>1. holder'[g] = holder[g]
        BY <1>1, <3>6 DEF IInv, PoolTypeOK
      <4> DEFINE old(i) == IF i < m THEN i ELSE i + 1
      <4>2. \A i \in Hits(g)' : i \in Int /\ old(i) \in Hits(g) /\ new[i] = Chain(g)[old(i)]
        BY <2>2, <2>4, <3>1, <3>2, <3>4
      <4>3. \A i \in Hits(g) : (i < m => i \in Hits(g)') /\ (i > m => i - 1 \in Hits(g)') /\ i # m
        BY <2>2, <2>4, <3>2, <3>3, <3>6
      <4>4. \A i, j \in Hits(g)' : i = j
        <5>1. \A i, j \in Hits(g)' : old(i) = old(j)
          BY <4>2 DEF IInv, Recorded
        <5> QED BY <5>1, <4>2, <2>2
      <4>5. holder[g] # NULL => Hits(g)' # {}
        <5>1. SUFFICES ASSUME holder[g] # NULL PROVE Hits(g)' # {}
          OBVIOUS
        <5>2. PICK i \in Hits(g) : TRUE
          BY <5>1 DEF IInv, Recorded
        <5>3. i \in Int /\ m \in Int
          BY <2>2, <3>3
        <5> QED BY <4>3, <5>2, <5>3
      <4>6. \A i \in Hits(g)' : new[i].anonymous = holder[g]
        BY <4>2 DEF IInv, Recorded
      <4> QED BY <4>1, <4>4, <4>5, <4>6, <3>1 DEF Recorded
    <3> QED BY <3>5, <3>6
  <2> QED BY <2>5, <2>6, <2>7 DEF IInv
<1> QED BY <1>2, <1>3

LEMMA UnchangedKeeps ==
    ASSUME IInv, cn_array' = cn_array, next_handle' = next_handle, holder' = holder,
           searching' \in BOOLEAN
    PROVE  IInv'
BY DEF IInv, PoolTypeOK, Recorded, Hits, Chain

\* The pool starts with empty chains, and nobody holds a handle.
THEOREM PoolInitIInv == PoolInit => IInv
<1> SUFFICES ASSUME PoolInit PROVE IInv
  OBVIOUS
<1>1. <<>> \in Seq(Descriptors) /\ Len(<<>>) = 0
  BY EmptySeq
<1>2. 0 \in Handle
  BY HandlesAssumption DEF Handle
<1>3. PoolTypeOK
  BY <1>1, <1>2 DEF PoolInit, PoolTypeOK
<1>4. ASSUME NEW h \in Handle PROVE Recorded(h)
  <2>1. Hits(h) = {}
    BY <1>1, BucketSound DEF PoolInit, Hits
  <2>2. holder[h] = NULL
    BY DEF PoolInit
  <2> QED BY <2>1, <2>2 DEF Recorded
<1> QED BY <1>3, <1>4 DEF IInv

\* Every call of the pool keeps its chains.
THEOREM PoolNextIInv == IInv /\ [PoolNext]_pool => IInv'
<1> SUFFICES ASSUME IInv, [PoolNext]_pool PROVE IInv'
  OBVIOUS
<1>1. CASE NoneLeft
  BY <1>1, UnchangedKeeps DEF NoneLeft, SearchForever
<1>2. CASE UNCHANGED pool
  BY <1>2, UnchangedKeeps DEF pool, IInv, PoolTypeOK
<1>3. ASSUME NEW h \in Handle \cup {-1}, NEW c \in Connections, PRTCL_request(h, c) PROVE IInv'
  BY <1>2, <1>3, GiveKeeps, NoHandle DEF PRTCL_request
<1> QED BY <1>1, <1>2, <1>3, DropKeeps DEF PoolNext

\* One descriptor of the right connection, or none, is what the lookup needs.
LEMMA RecordedIsFound == IInv => LookupIsTrue
<1> SUFFICES ASSUME IInv, NEW h \in Handle PROVE do_lookup(h) = holder[h]
  BY DEF LookupIsTrue
<1>1. CASE Hits(h) = {}
  BY <1>1 DEF IInv, Recorded, do_lookup
<1>2. CASE Hits(h) # {}
  <2>1. PICK i \in Hits(h) : \A j \in Hits(h) : j = i
    BY <1>2 DEF IInv, Recorded
  <2>2. do_lookup(h) = Chain(h)[i].anonymous
    BY <1>2, <2>1, MinSound DEF IInv, do_lookup, Chain
  <2> QED BY <2>1, <2>2 DEF IInv, Recorded
<1> QED BY <1>1, <1>2

\* PRTCL_lookup finds what PRTCL_request was given for the handle until PRTCL_release,
\* for any number of handles and buckets and any order of calls.
THEOREM PoolLooksUp == PoolSpec => []LookupIsTrue
<1> QED BY PoolInitIInv, PoolNextIInv, RecordedIsFound, PTL DEF PoolSpec

(***************************************************************************)
(* The UDP module as the pool's client                                     *)
(***************************************************************************)
Slots == Conns \cup {NULL}
TaskState == [at : {"none", "request", "refused", "fill", "read", "link", "free", "release"}, conn : Slots,
              handle : Handle \cup {-1}, port : Ports \cup {0}, host : Hosts \cup {NULL},
              first : Seq(Slots)]

\* UDP_open asks for a structure it has, UDP_close releases a handle it was given.
Carries(k) == /\ k.at = "request" => k.conn \in Conns
              /\ k.at \in {"free", "release"} => k.handle \in Handle

UdpInv ==
    /\ IInv
    /\ root_list \in Seq(Slots)
    /\ task \in [Tasks -> TaskState]
    /\ \A t \in Tasks : Carries(task[t])

\* What goes on in a call of one task leaves the handle of another alone.
LEMMA TaskKeeps ==
    ASSUME UdpInv, NEW t \in Tasks, NEW k \in TaskState, Carries(k),
           task' = [task EXCEPT ![t] = k], root_list' \in Seq(Slots), IInv'
    PROVE  UdpInv'
BY DEF UdpInv

LEMMA NoCallSound == NoCall \in TaskState /\ Carries(NoCall)
<1>1. <<>> \in Seq(Slots)
  BY EmptySeq
<1> QED BY <1>1 DEF NoCall, TaskState, Carries, Slots

LEMMA PoolKept == ASSUME UdpInv, UNCHANGED pool PROVE IInv'
BY PoolNextIInv DEF UdpInv

\* The list is empty at first and no task is in a call.
THEOREM UdpInitInv == Init => UdpInv
<1> SUFFICES ASSUME Init PROVE UdpInv
  OBVIOUS
<1>1. <<>> \in Seq(Slots)
  BY EmptySeq
<1> QED BY <1>1, PoolInitIInv, NoCallSound DEF Init, UdpInv

LEMMA OpenKeeps ==
    ASSUME UdpInv, NEW t \in Tasks, NEW host \in Hosts \cup {NULL}, NEW port \in Ports,
           UDP_open(t, host, port)
    PROVE  UdpInv'
<1>1. root_list' = root_list /\ root_list \in Seq(Slots) /\ IInv'
  BY PoolKept DEF UDP_open, UdpInv
<1>2. CASE UNCHANGED task
  BY <1>1, <1>2 DEF UdpInv
<1>3. CASE ~UNCHANGED task
  <2>1. PICK c \in Conns : task' = [task EXCEPT ![t] = [NoCall EXCEPT !.at = "request", !.conn = c,
                                                                     !.port = port, !.host = host]]
    BY <1>3 DEF UDP_open
  <2> DEFINE k == [NoCall EXCEPT !.at = "request", !.conn = c, !.port = port, !.host = host]
  <2>2. c \in Slots /\ NoCall \in TaskState
    BY NoCallSound DEF Slots
  <2>3. k \in TaskState /\ Carries(k)
    BY <2>2 DEF TaskState, Carries
  <2> QED BY <1>1, <2>1, <2>3, TaskKeeps
<1> QED BY <1>2, <1>3

\* The pool gives a handle or none, and UDP_open goes on with either.
LEMMA RequestKeeps ==
    ASSUME UdpInv, NEW t \in Tasks, request(t)
    PROVE  UdpInv'
<1>1. /\ root_list' = root_list /\ root_list \in Seq(Slots) /\ task[t] \in TaskState
      /\ task[t].conn \in Conns
  BY DEF request, UdpInv, Carries
<1>2. CASE NoneLeft /\ UNCHANGED task
  BY <1>1, <1>2, PoolNextIInv DEF UdpInv, PoolNext
<1>3. ASSUME NEW h \in Handle \cup {-1}, PRTCL_request(h, task[t].conn),
             task' = [task EXCEPT ![t].handle = h, ![t].at = IF h = -1 THEN "refused" ELSE "fill"]
      PROVE  UdpInv'
  <2> DEFINE k == [task[t] EXCEPT !.handle = h, !.at = IF h = -1 THEN "refused" ELSE "fill"]
  <2>1. k \in TaskState /\ Carries(k)
    BY <1>1 DEF TaskState, Carries
  <2>2. task' = [task EXCEPT ![t] = k]
    BY <1>1, <1>3 DEF UdpInv, TaskState
  <2>3. IInv'
    <3>1. PoolNext
      BY <1>1, <1>3 DEF PoolNext, Conns
    <3> QED BY <3>1, PoolNextIInv DEF UdpInv
  <2> HIDE DEF k
  <2> QED BY <1>1, <2>1, <2>2, <2>3, TaskKeeps
<1> QED BY <1>2, <1>3 DEF request

LEMMA CloseKeeps ==
    ASSUME UdpInv, NEW t \in Tasks, NEW h \in Handle, UDP_close(t, h)
    PROVE  UdpInv'
<1>1. IInv'
  BY PoolKept DEF UDP_close
<1>2. do_lookup(h) \in Slots
  BY RecordedIsFound DEF UdpInv, IInv, LookupIsTrue, PoolTypeOK, Slots, Conns
<1>3. root_list' \in Seq(Slots)
  <2>1. Len(root_list) \in Nat /\ \A i \in 1 .. Len(root_list) : root_list[i] \in Slots
    BY LenProperties, ElementOfSeq DEF UdpInv
  <2>2. SubSeq(root_list, 2, Len(root_list)) \in Seq(Slots)
    BY <2>1, SubSeqProperties
  <2> QED BY <2>2 DEF UDP_close, unlink_connect, UdpInv
<1> DEFINE k == [NoCall EXCEPT !.at = "free", !.conn = do_lookup(h), !.handle = h]
<1>4. k \in TaskState /\ Carries(k)
  BY <1>2, NoCallSound DEF NoCall, TaskState, Carries
<1>5. task[t] \in TaskState /\ Carries(task[t])
  BY DEF UdpInv
<1>6. \/ task' = [task EXCEPT ![t] = task[t]]
      \/ task' = [task EXCEPT ![t] = k]
  BY DEF UDP_close
<1> QED BY <1>1, <1>3, <1>4, <1>5, <1>6, TaskKeeps

\* Within a call only the request and the release touch the pool.
LEMMA CallKeeps ==
    ASSUME UdpInv, NEW t \in Tasks, Calls(t)
    PROVE  UdpInv'
<1>1. task[t] \in TaskState /\ Carries(task[t]) /\ root_list \in Seq(Slots)
  BY DEF UdpInv
<1>2. CASE fill(t)
  <2>1. [task[t] EXCEPT !.at = "read"] \in TaskState /\ Carries([task[t] EXCEPT !.at = "read"])
    BY <1>1 DEF TaskState, Carries
  <2>2. task' = [task EXCEPT ![t] = [task[t] EXCEPT !.at = "read"]]
    BY <1>2 DEF fill
  <2> QED BY <1>1, <1>2, <2>1, <2>2, PoolKept, TaskKeeps DEF fill
<1>3. CASE read(t)
  <2> DEFINE k == [task[t] EXCEPT !.at = "link", !.first = root_list]
  <2>1. k \in TaskState /\ Carries(k)
    BY <1>1 DEF TaskState, Carries
  <2>2. task' = [task EXCEPT ![t] = k]
    BY <1>1, <1>3 DEF read, UdpInv, TaskState
  <2> QED BY <1>1, <1>3, <2>1, <2>2, PoolKept, TaskKeeps DEF read
<1>4. CASE link(t)
  <2>1. task[t].conn \in Slots /\ task[t].first \in Seq(Slots)
    BY <1>1 DEF TaskState
  <2>2. <<task[t].conn>> \o task[t].first \in Seq(Slots)
    BY <2>1, PrependSound
  <2> QED BY <1>4, <2>2, NoCallSound, PoolKept, TaskKeeps DEF link
<1>5. CASE free(t)
  <2>1. [task[t] EXCEPT !.at = "release"] \in TaskState /\ Carries([task[t] EXCEPT !.at = "release"])
    BY <1>1, <1>5 DEF TaskState, Carries, free
  <2>2. task' = [task EXCEPT ![t] = [task[t] EXCEPT !.at = "release"]]
    BY <1>5 DEF free
  <2> QED BY <1>1, <1>5, <2>1, <2>2, PoolKept, TaskKeeps DEF free
<1>6. CASE release(t)
  <2>1. task[t].handle \in Handle
    BY <1>1, <1>6 DEF release, Carries
  <2>2. IInv'
    BY <1>6, <2>1, DropKeeps DEF release, UdpInv
  <2> QED BY <1>1, <1>6, <2>2, NoCallSound, TaskKeeps DEF release
<1>7. CASE refused(t)
  BY <1>1, <1>7, NoCallSound, PoolKept, TaskKeeps DEF refused
<1> QED BY <1>2, <1>3, <1>4, <1>5, <1>6, <1>7, RequestKeeps DEF Calls

\* Every step of the UDP module is a call of the pool or leaves it alone.
THEOREM UdpNextInv == UdpInv /\ [Next]_vars => UdpInv'
<1> SUFFICES ASSUME UdpInv, [Next]_vars PROVE UdpInv'
  OBVIOUS
<1>1. ASSUME UNCHANGED pool, UNCHANGED <<root_list, task>> PROVE UdpInv'
  BY <1>1, PoolKept DEF UdpInv
<1>2. ASSUME NEW port \in Ports, NEW host \in Hosts, UDP_handler(port, host) \/ do_ICMP(port, host)
      PROVE  UdpInv'
  BY <1>1, <1>2 DEF UDP_handler, do_ICMP
<1>3. ASSUME NEW h \in Handle, report(h) PROVE UdpInv'
  BY <1>1, <1>3 DEF report
<1>4. CASE Hangs
  BY <1>1, <1>4 DEF Hangs, vars, pool
<1>5. CASE UNCHANGED vars
  BY <1>1, <1>5 DEF vars, pool
<1>6. ASSUME NEW t \in Tasks, NEW host \in Hosts, NoPortLeft(t, host) PROVE UdpInv'
  BY <1>1, <1>6 DEF NoPortLeft
<1> QED BY <1>2, <1>3, <1>4, <1>5, <1>6, OpenKeeps, CloseKeeps, CallKeeps DEF Next

\* The handles of the UDP module lead to their connections, whatever its tasks and
\* the interrupt do: UDP_open and UDP_close over PRTCL_request and PRTCL_release.
THEOREM UdpLooksUp == Spec => []LookupIsTrue
<1>1. UdpInv => LookupIsTrue
  BY RecordedIsFound DEF UdpInv
<1> QED BY UdpInitInv, UdpNextInv, <1>1, PTL DEF Spec

(***************************************************************************)
(* The connections                                                         *)
(***************************************************************************)
Busy(t) == task[t].at # "none"

\* A handle is held until PRTCL_release, but UDP_close frees its connection before;
\* it is settled while no call works on it.
Held(h)    == holder[h] # NULL /\ \A t \in Tasks : task[t].at = "release" => task[t].handle # h
Settled(h) == holder[h] # NULL /\ \A t \in Tasks : Busy(t) => task[t].handle # h

\* Until it is given a handle, UDP_open has the structure in hand.
InHand(t) == task[t].at \in {"request", "refused"}

\* A call has the structure and the handle to itself.
CallOwns(t) ==
    IF InHand(t) THEN task[t].handle = -1 /\ task[t].conn \in Conns
    ELSE IF Busy(t) THEN /\ task[t].handle \in Handle /\ task[t].conn \in Conns
                         /\ holder[task[t].handle] = task[t].conn
    ELSE task[t] = NoCall
CallsApart == \A t, u \in Tasks : /\ Busy(t) /\ Busy(u) /\ task[t].handle = task[u].handle
                                 /\ task[t].handle \in Handle => t = u
HandOwns   == \A t \in Tasks : InHand(t) =>
                 /\ conn[task[t].conn] # NULL
                 /\ \A h \in Handle : Held(h) => holder[h] # task[t].conn
HandsApart == \A t, u \in Tasks : InHand(t) /\ InHand(u) /\ task[t].conn = task[u].conn => t = u

HeldExists == \A h \in Handle : Held(h) => conn[holder[h]] # NULL
HeldOnce   == \A g, h \in Handle : Held(g) /\ Held(h) /\ holder[g] = holder[h] => g = h
AllHeld    == \A c \in Conns : conn[c] # NULL => \/ \E h \in Handle : Held(h) /\ holder[h] = c
                                                \/ \E t \in Tasks : InHand(t) /\ task[t].conn = c

\* The list is made of what is settled, each once.
ListedOnce == Once(root_list)
ListIsSettled ==
    /\ \A c : Listed(c) => \E h \in Handle : Settled(h) /\ holder[h] = c
    /\ \A h \in Handle : Settled(h) => Listed(holder[h])

Ownership ==
    /\ \A t \in Tasks : CallOwns(t)
    /\ CallsApart /\ HandOwns /\ HandsApart /\ HeldExists /\ HeldOnce /\ AllHeld

ConnInv ==
    /\ UdpInv
    /\ conn \in [Conns -> Contents \cup {NULL}]
    /\ Ownership /\ ListedOnce /\ ListIsSettled

LEMMA NullIsNoContents == NULL \notin Conns /\ NULL \notin Contents
BY HandlesAssumption, UdpAssumption DEF Conns

LEMMA SettledIsHeld == ASSUME NEW h, Settled(h) PROVE Held(h)
BY DEF Settled, Held, Busy

\* What is listed exists, and nobody has a call on it that is not about to return.
LEMMA ListedExists ==
    ASSUME ConnInv, NEW c, Listed(c)
    PROVE  c \in Conns /\ conn[c] \in Contents
<1>1. PICK h \in Handle : Settled(h) /\ holder[h] = c
  BY DEF ConnInv, ListIsSettled
<1>2. c \in Conns /\ conn[c] # NULL
  BY <1>1, SettledIsHeld
     DEF ConnInv, Ownership, HeldExists, Settled, UdpInv, IInv, PoolTypeOK, Conns
<1> QED BY <1>2 DEF ConnInv

LEMMA PlaceListed ==
    ASSUME UdpInv
    PROVE  /\ Len(root_list) \in Nat /\ DOMAIN root_list = 1 .. Len(root_list)
           /\ \A i \in 1 .. Len(root_list) : Listed(root_list[i])
           /\ \A c : Listed(c) => \E i \in 1 .. Len(root_list) : root_list[i] = c
<1>1. Len(root_list) \in Nat /\ DOMAIN root_list = 1 .. Len(root_list)
  BY LenProperties DEF UdpInv
<1> QED BY <1>1 DEF Listed, ToSet

LEMMA AnswersTrue == ASSUME UdpInv, NEW h \in Handle PROVE do_lookup(h) = holder[h]
BY RecordedIsFound DEF UdpInv, LookupIsTrue

\* Who may ask: a handle that PRTCL_request gives is held by nobody.
LEMMA GivenIsNew ==
    ASSUME UdpInv, NEW h \in Handle, NEW c \in Conns, PRTCL_request(h, c)
    PROVE  holder[h] = NULL /\ holder' = [holder EXCEPT ![h] = c] /\ searching' = searching
<1>1. Hits(h) = {} /\ holder' = [holder EXCEPT ![h] = c] /\ searching' = searching
  BY NoHandle DEF PRTCL_request, Give, IsNext, Unused
<1> QED BY <1>1 DEF UdpInv, IInv, Recorded

(***************************************************************************)
(* The steps on a connection                                               *)
(***************************************************************************)
\* The interrupt and report change what is in a connection, and not who has it.
LEMMA ContentsKeep ==
    ASSUME ConnInv, UdpInv', UNCHANGED <<holder, root_list, task>>,
           conn' \in [Conns -> Contents \cup {NULL}],
           \A c \in Conns : conn[c] # NULL <=> conn'[c] # NULL
    PROVE  ConnInv'
<1>1. \A h \in Handle : holder[h] \in Conns \cup {NULL}
  BY DEF ConnInv, UdpInv, IInv, PoolTypeOK, Conns
<1>2. \A h : (Held(h)' <=> Held(h)) /\ (Settled(h)' <=> Settled(h))
  BY DEF Held, Settled, Busy
<1>3. \A c : Listed(c)' <=> Listed(c)
  BY DEF Listed
<1>4. \A t \in Tasks : (CallOwns(t)' <=> CallOwns(t)) /\ (Busy(t)' <=> Busy(t)) /\ (InHand(t)' <=> InHand(t))
  BY DEF CallOwns, Busy, InHand
<1>5. HeldExists' /\ HeldOnce' /\ AllHeld' /\ CallsApart'
  BY <1>1, <1>2, <1>4 DEF ConnInv, Ownership, HeldExists, HeldOnce, AllHeld, CallsApart, Held
<1>7. HandOwns' /\ HandsApart'
  BY <1>2, <1>4 DEF ConnInv, Ownership, CallOwns, HandOwns, HandsApart
<1>6. ListedOnce' /\ ListIsSettled'
  BY <1>2, <1>3 DEF ConnInv, ListedOnce, ListIsSettled
<1> QED BY <1>4, <1>5, <1>6, <1>7 DEF ConnInv, Ownership

LEMMA TaskAfter ==
    ASSUME UdpInv, NEW t \in Tasks, NEW k, task' = [task EXCEPT ![t] = k]
    PROVE  task'[t] = k /\ \A u \in Tasks : u # t => task'[u] = task[u]
BY DEF UdpInv

\* A step within a call.
LEMMA CallGoesOn ==
    ASSUME ConnInv, UdpInv', NEW t \in Tasks,
           task[t].at \in {"fill", "read"}, task'[t].at \in {"read", "link"},
           task'[t].handle = task[t].handle, task'[t].conn = task[t].conn,
           \A u \in Tasks : u # t => task'[u] = task[u],
           holder' = holder, root_list' = root_list,
           conn' \in [Conns -> Contents \cup {NULL}],
           \A c \in Conns : conn[c] # NULL <=> conn'[c] # NULL
    PROVE  ConnInv'
<1>1. \A h \in Handle : holder[h] \in Conns \cup {NULL}
  BY DEF ConnInv, UdpInv, IInv, PoolTypeOK, Conns
<1>2. \A u \in Tasks : u # t => task'[u] = task[u]
  OBVIOUS
<1>3. Busy(t) /\ Busy(t)' /\ task[t].at # "release" /\ task'[t].at # "release" /\ ~InHand(t) /\ ~InHand(t)'
  BY DEF Busy, InHand
<1>4. \A u \in Tasks : /\ task'[u].handle = task[u].handle /\ task'[u].conn = task[u].conn
                       /\ Busy(u)' <=> Busy(u)
                       /\ InHand(u)' <=> InHand(u)
                       /\ task'[u].at = "release" <=> task[u].at = "release"
  BY <1>2, <1>3 DEF Busy, InHand
<1>5. \A h : (Held(h)' <=> Held(h)) /\ (Settled(h)' <=> Settled(h))
  BY <1>4 DEF Held, Settled
<1>6. \A c : Listed(c)' <=> Listed(c)
  BY DEF Listed
<1>7. ASSUME NEW u \in Tasks PROVE CallOwns(u)'
  BY <1>2, <1>3, <1>4 DEF CallOwns, ConnInv, Ownership, Busy
<1>8. HeldExists' /\ HeldOnce' /\ AllHeld' /\ CallsApart'
  BY <1>1, <1>4, <1>5 DEF ConnInv, Ownership, HeldExists, HeldOnce, AllHeld, CallsApart, Held
<1>10. HandOwns' /\ HandsApart'
  BY <1>4, <1>5 DEF ConnInv, Ownership, CallOwns, HandOwns, HandsApart
<1>9. ListedOnce' /\ ListIsSettled'
  BY <1>5, <1>6 DEF ConnInv, ListedOnce, ListIsSettled
<1> QED BY <1>7, <1>8, <1>9, <1>10 DEF ConnInv, Ownership

\* A handle of an open call is held, and held alone.
LEMMA CallHolds ==
    ASSUME ConnInv, NEW t \in Tasks, task[t].at \in {"fill", "read", "link", "free"}
    PROVE  /\ task[t].handle \in Handle /\ task[t].conn \in Conns
           /\ holder[task[t].handle] = task[t].conn
           /\ Held(task[t].handle) /\ ~Settled(task[t].handle)
           /\ conn[task[t].conn] \in Contents /\ ~Listed(task[t].conn)
<1> DEFINE h == task[t].handle
           c == task[t].conn
<1>0. Busy(t) /\ ~InHand(t) /\ task[t].at # "release"
  BY DEF Busy, InHand
<1>1. h \in Handle /\ c \in Conns /\ holder[h] = c /\ c # NULL
  BY <1>0, NullIsNoContents DEF ConnInv, Ownership, CallOwns
<1>2. Held(h)
  BY <1>0, <1>1 DEF Held, ConnInv, Ownership, CallsApart, Busy
<1>3. conn[c] \in Contents
  BY <1>1, <1>2 DEF ConnInv, Ownership, HeldExists
<1>4. ~Settled(h)
  BY <1>0 DEF Settled
<1>5. ~Listed(c)
  BY <1>1, <1>2, <1>4, SettledIsHeld DEF ConnInv, ListIsSettled, Ownership, HeldOnce
<1> QED BY <1>1, <1>2, <1>3, <1>4, <1>5

\* Who holds what when a step changes neither the handles nor the list, and nobody
\* with a handle begins or ends a call.
LEMMA HoldersStay ==
    ASSUME ConnInv, UdpInv', UNCHANGED <<holder, root_list>>, NEW t \in Tasks,
           task[t].handle \notin Handle, task'[t].handle \notin Handle,
           \A u \in Tasks : u # t => task'[u] = task[u]
    PROVE  /\ \A g \in Handle : (Held(g)' <=> Held(g)) /\ (Settled(g)' <=> Settled(g))
           /\ CallsApart' /\ HeldOnce' /\ ListedOnce' /\ ListIsSettled'
<1>1. ASSUME NEW g \in Handle
      PROVE  (Held(g)' <=> Held(g)) /\ (Settled(g)' <=> Settled(g))
  <2>1. \A u \in Tasks : /\ (task'[u].at = "release" => task'[u].handle # g)
                               <=> (task[u].at = "release" => task[u].handle # g)
                         /\ (Busy(u)' => task'[u].handle # g) <=> (Busy(u) => task[u].handle # g)
    BY DEF Busy
  <2> QED BY <2>1 DEF Held, Settled
<1>2. CallsApart'
  BY DEF CallsApart, ConnInv, Ownership, Busy
<1>3. HeldOnce'
  BY <1>1 DEF HeldOnce, ConnInv, Ownership
<1>4. ListedOnce' /\ \A c : Listed(c)' <=> Listed(c)
  BY DEF ListedOnce, Listed, ConnInv
<1>5. ListIsSettled'
  BY <1>1, <1>4 DEF ListIsSettled, ConnInv
<1> QED BY <1>1, <1>2, <1>3, <1>4, <1>5

\* UDP_open takes a structure nobody has.
LEMMA OpenOwns ==
    ASSUME ConnInv, NEW t \in Tasks, NEW host \in Hosts \cup {NULL}, NEW port \in Ports,
           UDP_open(t, host, port)
    PROVE  ConnInv'
<1>1. UdpInv'
  BY OpenKeeps DEF ConnInv
<1>2. UNCHANGED <<root_list, holder>> /\ task[t] = NoCall /\ UdpInv
  BY DEF UDP_open, ConnInv, pool
<1>3. CASE UNCHANGED <<conn, task>>
  BY <1>1, <1>2, <1>3, ContentsKeep DEF ConnInv
<1>4. ASSUME NEW c \in Conns, conn[c] = NULL, conn' = [conn EXCEPT ![c] = Raw],
             task' = [task EXCEPT ![t] = [NoCall EXCEPT !.at = "request", !.conn = c,
                                                       !.port = port, !.host = host]]
      PROVE  ConnInv'
  <2> DEFINE k == [NoCall EXCEPT !.at = "request", !.conn = c, !.port = port, !.host = host]
  <2>1. k.at = "request" /\ k.conn = c /\ k.handle = -1
    BY DEF NoCall
  <2> HIDE DEF k
  <2>2. task'[t] = k /\ \A u \in Tasks : u # t => task'[u] = task[u]
    BY <1>2, <1>4, TaskAfter DEF k
  <2>3. Raw \in Contents /\ Raw # NULL
    <3>1. Raw \in Contents
      BY DEF Raw, Contents
    <3> QED BY <3>1, NullIsNoContents
  <2>4. /\ conn' \in [Conns -> Contents \cup {NULL}]
        /\ conn'[c] = Raw /\ \A d \in Conns : d # c => conn'[d] = conn[d]
    BY <1>4, <2>3 DEF ConnInv
  <2>5. task[t].handle \notin Handle /\ task'[t].handle \notin Handle
    BY <1>2, <2>1, <2>2, NoHandle DEF NoCall
  <2>6. /\ \A g \in Handle : Held(g)' <=> Held(g)
        /\ CallsApart' /\ HeldOnce' /\ ListedOnce' /\ ListIsSettled'
    BY <1>1, <1>2, <2>2, <2>5, HoldersStay
  <2>7. ~InHand(t) /\ InHand(t)' /\ \A u \in Tasks : u # t => (InHand(u)' <=> InHand(u))
    BY <1>2, <2>1, <2>2 DEF InHand, NoCall
  <2>8. /\ \A g \in Handle : Held(g) => holder[g] # c
        /\ \A u \in Tasks : InHand(u) => task[u].conn # c
    BY <1>4 DEF ConnInv, Ownership, HeldExists, HandOwns
  <2>9. ASSUME NEW u \in Tasks PROVE CallOwns(u)'
    <3>1. CASE u = t
      BY <3>1, <2>1, <2>2, <2>7 DEF CallOwns
    <3>2. CASE u # t
      BY <3>2, <1>2, <2>2 DEF CallOwns, ConnInv, Ownership, InHand, Busy
    <3> QED BY <3>1, <3>2
  <2>10. HandOwns'
    <3>1. ASSUME NEW u \in Tasks, InHand(u)'
          PROVE  conn'[task'[u].conn] # NULL /\ \A g \in Handle : Held(g) => holder[g] # task'[u].conn
      <4>1. CASE u = t
        BY <4>1, <2>1, <2>2, <2>3, <2>4, <2>8
      <4>2. CASE u # t
        BY <3>1, <4>2, <2>2, <2>4, <2>7, <2>8 DEF ConnInv, Ownership, HandOwns, CallOwns
      <4> QED BY <4>1, <4>2
    <3> QED BY <3>1, <2>6, <1>2 DEF HandOwns
  <2>11. HandsApart'
    BY <2>1, <2>2, <2>7, <2>8 DEF HandsApart, ConnInv, Ownership
  <2>12. HeldExists'
    <3>1. \A h \in Handle : Held(h) => holder[h] \in Conns
      BY <1>2 DEF UdpInv, IInv, PoolTypeOK, Conns, Held
    <3> QED BY <3>1, <1>2, <2>4, <2>6, <2>8 DEF HeldExists, ConnInv, Ownership
  <2>13. AllHeld'
    <3>1. ASSUME NEW d \in Conns, conn'[d] # NULL, d # c
          PROVE  \/ \E h \in Handle : Held(h)' /\ holder'[h] = d
                 \/ \E u \in Tasks : InHand(u)' /\ task'[u].conn = d
      <4>1. \/ \E h \in Handle : Held(h) /\ holder[h] = d
            \/ \E u \in Tasks : InHand(u) /\ task[u].conn = d
        BY <3>1, <2>4 DEF AllHeld, ConnInv, Ownership
      <4> QED BY <4>1, <1>2, <2>2, <2>6, <2>7
    <3> QED BY <3>1, <2>1, <2>2, <2>7 DEF AllHeld
  <2> QED BY <1>1, <2>4, <2>6, <2>9, <2>10, <2>11, <2>12, <2>13 DEF ConnInv, Ownership
<1> QED BY <1>3, <1>4 DEF UDP_open

\* A handle nobody holds is given to a structure that has none; without memory for
\* the descriptor, or without a handle, the structure stays in hand.
LEMMA RequestOwns ==
    ASSUME ConnInv, NEW t \in Tasks, request(t)
    PROVE  ConnInv'
<1>1. UdpInv' /\ UdpInv /\ task[t] \in TaskState
  BY RequestKeeps DEF ConnInv, UdpInv
<1>2. PICK c \in Conns :
         /\ c = task[t].conn /\ InHand(t) /\ Busy(t) /\ task[t].handle = -1 /\ conn[c] # NULL
         /\ \A h \in Handle : Held(h) => holder[h] # c
         /\ \A u \in Tasks : InHand(u) /\ task[u].conn = c => u = t
  BY DEF request, InHand, Busy, ConnInv, Ownership, CallOwns, HandOwns, HandsApart
<1>3. UNCHANGED <<conn, root_list>> /\ conn' \in [Conns -> Contents \cup {NULL}]
  BY DEF request, ConnInv
<1>4. CASE NoneLeft /\ UNCHANGED task
  BY <1>1, <1>3, <1>4, ContentsKeep DEF NoneLeft
<1>5. ASSUME NEW k, k.at = "refused", k.handle = -1, k.conn = c, UNCHANGED holder,
             task' = [task EXCEPT ![t] = k]
      PROVE  ConnInv'
  <2>1. task'[t] = k /\ \A u \in Tasks : u # t => task'[u] = task[u]
    BY <1>1, <1>5, TaskAfter
  <2>2. /\ \A g \in Handle : Held(g)' <=> Held(g)
        /\ CallsApart' /\ HeldOnce' /\ ListedOnce' /\ ListIsSettled'
    BY <1>1, <1>2, <1>3, <1>5, <2>1, NoHandle, HoldersStay
  <2>3. \A u \in Tasks : (InHand(u)' <=> InHand(u)) /\ task'[u].conn = task[u].conn
    BY <1>2, <1>5, <2>1 DEF InHand
  <2>4. ASSUME NEW u \in Tasks PROVE CallOwns(u)'
    <3>1. CASE u = t
      BY <3>1, <1>5, <2>1 DEF CallOwns, InHand
    <3>2. CASE u # t
      BY <3>2, <1>5, <2>1 DEF CallOwns, ConnInv, Ownership, InHand, Busy
    <3> QED BY <3>1, <3>2
  <2>5. HandOwns' /\ HandsApart'
    BY <1>3, <1>5, <2>2, <2>3 DEF HandOwns, HandsApart, ConnInv, Ownership
  <2>6. HeldExists' /\ AllHeld'
    BY <1>3, <1>5, <2>2, <2>3 DEF HeldExists, AllHeld, ConnInv, Ownership
  <2> QED BY <1>1, <1>3, <2>2, <2>4, <2>5, <2>6 DEF ConnInv, Ownership
<1>6. ASSUME NEW h \in Handle, PRTCL_request(h, c), NEW k, k.at = "fill", k.handle = h, k.conn = c,
             task' = [task EXCEPT ![t] = k]
      PROVE  ConnInv'
  <2>1. task'[t] = k /\ \A u \in Tasks : u # t => task'[u] = task[u]
    BY <1>1, <1>6, TaskAfter
  <2>2. holder[h] = NULL /\ holder' = [holder EXCEPT ![h] = c]
    BY <1>1, <1>6, GivenIsNew
  <2>3. holder'[h] = c /\ \A g \in Handle : g # h => holder'[g] = holder[g]
    BY <1>1, <2>2 DEF UdpInv, IInv, PoolTypeOK
  <2>4. /\ Busy(t)' /\ ~InHand(t)'
        /\ \A u \in Tasks : u # t => (Busy(u)' <=> Busy(u)) /\ (InHand(u)' <=> InHand(u))
    BY <1>6, <2>1 DEF Busy, InHand
  <2>5. \A u \in Tasks : Busy(u) => task[u].handle # h
    <3>1. ASSUME NEW u \in Tasks, Busy(u), ~InHand(u)
          PROVE  holder[task[u].handle] = task[u].conn /\ task[u].conn \in Conns
      BY <3>1 DEF ConnInv, Ownership, CallOwns
    <3>2. ASSUME NEW u \in Tasks, InHand(u) PROVE task[u].handle = -1
      BY <3>2 DEF ConnInv, Ownership, CallOwns
    <3> QED BY <3>1, <3>2, <2>2, NullIsNoContents, NoHandle
  <2>6. ASSUME NEW g \in Handle, g # h
        PROVE  (Held(g)' <=> Held(g)) /\ (Settled(g)' <=> Settled(g)) /\ holder'[g] = holder[g]
    <3>1. \A u \in Tasks : /\ (task'[u].at = "release" => task'[u].handle # g)
                                 <=> (task[u].at = "release" => task[u].handle # g)
                           /\ (Busy(u)' => task'[u].handle # g) <=> (Busy(u) => task[u].handle # g)
      BY <1>2, <1>6, <2>1, <2>4, <2>6, NoHandle
    <3> QED BY <3>1, <2>3, <2>6 DEF Held, Settled
  <2>7. ~Held(h) /\ ~Settled(h) /\ ~Settled(h)'
    BY <1>6, <2>1, <2>2, <2>4 DEF Held, Settled
  <2>8. Held(h)'
    BY <1>6, <2>1, <2>3, <2>5, NullIsNoContents DEF Held, Busy
  <2>9. ASSUME NEW u \in Tasks PROVE CallOwns(u)'
    <3>1. CASE u = t
      BY <3>1, <1>6, <2>1, <2>3, <2>4 DEF CallOwns
    <3>2. CASE u # t
      BY <3>2, <2>1, <2>3, <2>4, <2>5 DEF CallOwns, ConnInv, Ownership
    <3> QED BY <3>1, <3>2
  <2>10. CallsApart'
    BY <1>6, <2>1, <2>4, <2>5 DEF CallsApart, ConnInv, Ownership
  <2>11. HandOwns'
    <3>1. ASSUME NEW u \in Tasks, InHand(u)'
          PROVE  /\ conn'[task'[u].conn] # NULL
                 /\ \A g \in Handle : Held(g)' => holder'[g] # task'[u].conn
      <4>1. u # t /\ InHand(u) /\ task'[u] = task[u] /\ task[u].conn # c
        BY <3>1, <2>1, <2>4, <1>2
      <4> QED BY <4>1, <1>3, <2>3, <2>6 DEF ConnInv, Ownership, HandOwns
    <3> QED BY <3>1 DEF HandOwns
  <2>12. HandsApart'
    BY <2>1, <2>4 DEF HandsApart, ConnInv, Ownership
  <2>13. HeldExists'
    BY <1>2, <1>3, <2>3, <2>6 DEF HeldExists, ConnInv, Ownership
  <2>14. HeldOnce'
    BY <1>2, <2>3, <2>6, <2>7 DEF HeldOnce, ConnInv, Ownership
  <2>15. AllHeld'
    <3>1. ASSUME NEW d \in Conns, conn'[d] # NULL, d # c
          PROVE  \/ \E g \in Handle : Held(g)' /\ holder'[g] = d
                 \/ \E u \in Tasks : InHand(u)' /\ task'[u].conn = d
      <4>1. CASE \E g \in Handle : Held(g) /\ holder[g] = d
        BY <4>1, <2>6, <2>7
      <4>2. CASE \E u \in Tasks : InHand(u) /\ task[u].conn = d
        BY <4>2, <3>1, <1>2, <2>1, <2>4
      <4> QED BY <4>1, <4>2, <3>1, <1>3 DEF AllHeld, ConnInv, Ownership
    <3> QED BY <3>1, <2>3, <2>8 DEF AllHeld
  <2>16. ListedOnce' /\ ListIsSettled'
    <3>1. ListedOnce' /\ \A d : Listed(d)' <=> Listed(d)
      BY <1>3 DEF ListedOnce, Listed, ConnInv
    <3> QED BY <3>1, <2>3, <2>6, <2>7 DEF ListIsSettled, ConnInv
  <2> QED BY <1>1, <1>3, <2>9, <2>10, <2>11, <2>12, <2>13, <2>14, <2>15, <2>16 DEF ConnInv, Ownership
<1>7. ASSUME NEW h \in Handle \cup {-1}, PRTCL_request(h, c),
             task' = [task EXCEPT ![t].handle = h, ![t].at = IF h = -1 THEN "refused" ELSE "fill"]
      PROVE  ConnInv'
  <2> DEFINE k == [task[t] EXCEPT !.handle = h, !.at = IF h = -1 THEN "refused" ELSE "fill"]
  <2>1. task' = [task EXCEPT ![t] = k]
    BY <1>1, <1>7 DEF UdpInv, TaskState
  <2>2. k.handle = h /\ k.conn = c /\ k.at = IF h = -1 THEN "refused" ELSE "fill"
    BY <1>1, <1>2 DEF TaskState
  <2> HIDE DEF k
  <2>3. CASE h = -1
    <3>1. UNCHANGED holder
      BY <1>7, <2>3, NoHandle DEF PRTCL_request, pool
    <3> QED BY <3>1, <2>1, <2>2, <2>3, <1>5
  <2>4. CASE h # -1
    BY <1>7, <2>1, <2>2, <2>4, <1>6
  <2> QED BY <2>3, <2>4
<1> QED BY <1>2, <1>4, <1>7 DEF request

\* Refused a handle, UDP_open gives the structure back.
LEMMA RefusedOwns ==
    ASSUME ConnInv, NEW t \in Tasks, refused(t)
    PROVE  ConnInv'
<1>1. UdpInv' /\ UdpInv
  BY CallKeeps DEF ConnInv, Calls
<1>2. PICK c \in Conns :
         /\ c = task[t].conn /\ InHand(t) /\ task[t].handle = -1
         /\ \A h \in Handle : Held(h) => holder[h] # c
         /\ \A u \in Tasks : InHand(u) /\ task[u].conn = c => u = t
  BY DEF refused, InHand, ConnInv, Ownership, CallOwns, HandOwns, HandsApart
<1>3. /\ conn' = [conn EXCEPT ![c] = NULL] /\ task' = [task EXCEPT ![t] = NoCall]
      /\ UNCHANGED <<root_list, holder>>
  BY <1>2 DEF refused, pool
<1>4. task'[t] = NoCall /\ \A u \in Tasks : u # t => task'[u] = task[u]
  BY <1>1, <1>3, TaskAfter
<1>5. /\ conn' \in [Conns -> Contents \cup {NULL}]
      /\ conn'[c] = NULL /\ \A d \in Conns : d # c => conn'[d] = conn[d]
  BY <1>3 DEF ConnInv
<1>6. /\ \A g \in Handle : Held(g)' <=> Held(g)
      /\ CallsApart' /\ HeldOnce' /\ ListedOnce' /\ ListIsSettled'
  <2>1. task[t].handle \notin Handle /\ task'[t].handle \notin Handle
    BY <1>2, <1>4, NoHandle DEF NoCall
  <2> QED BY <2>1, <1>1, <1>3, <1>4, HoldersStay
<1>7. ~InHand(t)' /\ ~Busy(t)' /\ \A u \in Tasks : u # t => (InHand(u)' <=> InHand(u))
  BY <1>4 DEF InHand, Busy, NoCall
<1>8. ASSUME NEW u \in Tasks PROVE CallOwns(u)'
  <2>1. CASE u = t
    BY <2>1, <1>4, <1>7 DEF CallOwns
  <2>2. CASE u # t
    BY <2>2, <1>3, <1>4 DEF CallOwns, ConnInv, Ownership, InHand, Busy
  <2> QED BY <2>1, <2>2
<1>9. HandOwns' /\ HandsApart'
  <2>1. \A u \in Tasks : InHand(u)' => InHand(u) /\ task'[u] = task[u] /\ task[u].conn \in Conns \ {c}
    BY <1>2, <1>4, <1>7 DEF ConnInv, Ownership, CallOwns
  <2> QED BY <2>1, <1>3, <1>5, <1>6 DEF HandOwns, HandsApart, ConnInv, Ownership
<1>10. HeldExists'
  <2>1. \A h \in Handle : Held(h) => holder[h] \in Conns
    BY <1>1 DEF UdpInv, IInv, PoolTypeOK, Conns, Held
  <2> QED BY <2>1, <1>2, <1>3, <1>5, <1>6 DEF HeldExists, ConnInv, Ownership
<1>11. AllHeld'
  <2>1. ASSUME NEW d \in Conns, conn'[d] # NULL
        PROVE  \/ \E g \in Handle : Held(g)' /\ holder'[g] = d
               \/ \E u \in Tasks : InHand(u)' /\ task'[u].conn = d
    <3>1. d # c /\ conn[d] # NULL
      BY <2>1, <1>5
    <3>2. \/ \E g \in Handle : Held(g) /\ holder[g] = d
          \/ \E u \in Tasks : InHand(u) /\ task[u].conn = d
      BY <3>1 DEF AllHeld, ConnInv, Ownership
    <3> QED BY <3>1, <3>2, <1>2, <1>3, <1>4, <1>6, <1>7
  <2> QED BY <2>1 DEF AllHeld
<1> QED BY <1>1, <1>5, <1>6, <1>8, <1>9, <1>10, <1>11 DEF ConnInv, Ownership

\* The structures in hand stay there while a call goes on that has a handle.
LEMMA HandsStay ==
    ASSUME ConnInv, NEW t \in Tasks, ~InHand(t), ~InHand(t)',
           \A u \in Tasks : u # t => task'[u] = task[u],
           \A g \in Handle : Held(g)' => Held(g) /\ holder'[g] = holder[g],
           \A c \in Conns : conn'[c] = NULL =>
             conn[c] = NULL \/ \E h \in Handle : Held(h) /\ holder[h] = c
    PROVE  /\ \A u \in Tasks : (InHand(u)' <=> InHand(u)) /\ (InHand(u) => task'[u] = task[u])
           /\ HandOwns' /\ HandsApart'
<1>1. \A u \in Tasks : (InHand(u)' <=> InHand(u)) /\ (InHand(u) => task'[u] = task[u])
  BY DEF InHand
<1>2. ASSUME NEW u \in Tasks, InHand(u)
      PROVE  /\ conn'[task[u].conn] # NULL
             /\ \A g \in Handle : Held(g)' => holder'[g] # task[u].conn
  <2>1. /\ task[u].conn \in Conns /\ conn[task[u].conn] # NULL
        /\ \A h \in Handle : Held(h) => holder[h] # task[u].conn
    BY <1>2 DEF ConnInv, Ownership, CallOwns, HandOwns
  <2> QED BY <2>1
<1>3. HandOwns'
  BY <1>1, <1>2 DEF HandOwns
<1>4. HandsApart'
  BY <1>1 DEF HandsApart, ConnInv, Ownership
<1> QED BY <1>1, <1>3, <1>4

\* The connection joins the list nobody has changed since UDP_open read it.
LEMMA LinkOwns ==
    ASSUME ConnInv, ListAsRead, NEW t \in Tasks, link(t)
    PROVE  ConnInv'
<1>1. UdpInv' /\ UdpInv
  BY CallKeeps DEF ConnInv, Calls
<1>2. /\ task' = [task EXCEPT ![t] = NoCall] /\ root_list' = <<task[t].conn>> \o root_list
      /\ UNCHANGED <<conn, holder>> /\ Busy(t) /\ task[t].at = "link" /\ ~InHand(t)
  BY DEF link, ListAsRead, pool, Busy, InHand
<1>3. task'[t] = NoCall /\ \A u \in Tasks : u # t => task'[u] = task[u]
  BY <1>1, <1>2, TaskAfter
<1>4. PICK h \in Handle, c \in Conns :
         /\ h = task[t].handle /\ c = task[t].conn /\ holder[h] = c
         /\ Held(h) /\ ~Settled(h) /\ ~Listed(c)
  BY <1>2, CallHolds
<1>5. /\ root_list \in Seq(Slots) /\ c \in Slots /\ root_list' = <<c>> \o root_list
      /\ Once(root_list) /\ c \notin ToSet(root_list)
  BY <1>1, <1>2, <1>4 DEF UdpInv, Slots, ConnInv, ListedOnce, Listed
<1>6. ToSet(<<c>> \o root_list) = ToSet(root_list) \cup {c} /\ Once(<<c>> \o root_list)
  BY <1>5, PrependSet
<1>7. \A d : Listed(d)' <=> d = c \/ Listed(d)
  BY <1>5, <1>6 DEF Listed
<1>8. ListedOnce'
  BY <1>5, <1>6 DEF ListedOnce
<1>9. ~Busy(t)' /\ ~InHand(t)' /\ \A u \in Tasks : u # t => (Busy(u)' <=> Busy(u))
  BY <1>3 DEF Busy, InHand, NoCall
<1>10. ASSUME NEW g \in Handle PROVE Held(g)' <=> Held(g)
  <2>1. \A u \in Tasks : (task'[u].at = "release" => task'[u].handle # g)
                            <=> (task[u].at = "release" => task[u].handle # g)
    BY <1>2, <1>3 DEF NoCall
  <2> QED BY <2>1, <1>2 DEF Held
<1>11. ASSUME NEW g \in Handle, g # h PROVE Settled(g)' <=> Settled(g)
  <2>1. \A u \in Tasks : (Busy(u)' => task'[u].handle # g) <=> (Busy(u) => task[u].handle # g)
    BY <1>9, <1>3, <1>4, <1>11
  <2> QED BY <2>1, <1>2 DEF Settled
<1>12. Settled(h)'
  <2>1. \A u \in Tasks : Busy(u) /\ u # t => task[u].handle # h
    BY <1>2, <1>4 DEF ConnInv, Ownership, CallsApart
  <2> QED BY <2>1, <1>2, <1>3, <1>4, <1>9, NullIsNoContents DEF Settled
<1>13. ASSUME NEW u \in Tasks PROVE CallOwns(u)'
  BY <1>2, <1>3, <1>9 DEF CallOwns, ConnInv, Ownership, InHand
<1>14. CallsApart'
  BY <1>3, <1>9 DEF CallsApart, ConnInv, Ownership
<1>18. /\ \A u \in Tasks : (InHand(u)' <=> InHand(u)) /\ (InHand(u) => task'[u] = task[u])
       /\ HandOwns' /\ HandsApart'
  BY <1>2, <1>3, <1>9, <1>10, HandsStay
<1>15. HeldExists' /\ HeldOnce' /\ AllHeld'
  BY <1>2, <1>10, <1>18 DEF HeldExists, HeldOnce, AllHeld, ConnInv, Ownership
<1>16. ListIsSettled'
  BY <1>2, <1>4, <1>7, <1>11, <1>12 DEF ListIsSettled, ConnInv
<1>17. conn' \in [Conns -> Contents \cup {NULL}]
  BY <1>2 DEF ConnInv
<1> QED BY <1>1, <1>8, <1>13, <1>14, <1>15, <1>16, <1>17, <1>18 DEF ConnInv, Ownership

\* UDP_close takes the first of the list out, and finds it there or never returns.
LEMMA CloseOwns ==
    ASSUME ConnInv, NEW t \in Tasks, NEW h \in Handle, UDP_close(t, h)
    PROVE  ConnInv'
<1>1. UdpInv' /\ UdpInv
  BY CloseKeeps DEF ConnInv
<1>2. PICK c \in Conns : c = holder[h] /\ c # NULL /\ c = do_lookup(h)
  BY <1>1, AnswersTrue DEF UDP_close, UdpInv, IInv, PoolTypeOK, Conns
<1>3. task[t] = NoCall /\ unlink_connect(c) /\ UNCHANGED <<conn, holder>>
  BY <1>2 DEF UDP_close, pool
<1>4. \A u \in Tasks : task[u].handle # h
  BY DEF UDP_close, InCall
<1>5. Settled(h) /\ Held(h) /\ Listed(c)
  <2>1. Settled(h)
    BY <1>2, <1>4 DEF Settled
  <2> QED BY <2>1, <1>2, SettledIsHeld DEF ConnInv, ListIsSettled
<1>6. root_list \in Seq(Slots) /\ root_list # <<>> /\ Once(root_list)
  <2>1. root_list \in Seq(Slots) /\ Once(root_list)
    BY <1>1 DEF UdpInv, ConnInv, ListedOnce
  <2>2. root_list # <<>>
    BY <1>5, EmptySeq DEF Listed, ToSet
  <2> QED BY <2>1, <2>2
<1>7. CASE Head(root_list) # c
  <2>1. UNCHANGED root_list /\ UNCHANGED task
    <3>1. spinning' = TRUE /\ UNCHANGED root_list
      BY <1>3, <1>6, <1>7 DEF unlink_connect
    <3>2. task' = [task EXCEPT ![t] = task[t]]
      BY <3>1 DEF UDP_close
    <3> QED BY <3>1, <3>2, <1>1 DEF UdpInv
  <2> QED BY <2>1, <1>1, <1>3, ContentsKeep DEF ConnInv
<1>8. CASE Head(root_list) = c
  <2>1. /\ UNCHANGED spinning
        /\ root_list' = SubSeq(root_list, 2, Len(root_list))
    BY <1>3, <1>6, <1>8 DEF unlink_connect
  <2>2. ListedOnce' /\ \A d : Listed(d)' <=> Listed(d) /\ d # c
    <3>1. /\ ToSet(SubSeq(root_list, 2, Len(root_list))) = ToSet(root_list) \ {Head(root_list)}
          /\ Once(SubSeq(root_list, 2, Len(root_list)))
      BY <1>6, TailSet
    <3> QED BY <3>1, <2>1, <1>8 DEF ListedOnce, Listed
  <2> DEFINE k == [NoCall EXCEPT !.at = "free", !.conn = c, !.handle = h]
  <2>3. k.at = "free" /\ k.conn = c /\ k.handle = h
    BY DEF NoCall
  <2> HIDE DEF k
  <2>4. task'[t] = k /\ \A u \in Tasks : u # t => task'[u] = task[u]
    <3>1. task' = [task EXCEPT ![t] = IF spinning' THEN task[t] ELSE k]
      BY <1>2 DEF UDP_close, k
    <3>2. CASE spinning'
      BY <3>2, <2>1, <1>3 DEF UDP_close, Runs
    <3>3. CASE ~spinning'
      BY <3>1, <3>3, <1>1, TaskAfter
    <3> QED BY <3>2, <3>3
  <2>5. /\ ~Busy(t) /\ Busy(t)' /\ ~InHand(t) /\ ~InHand(t)'
        /\ \A u \in Tasks : u # t => (Busy(u)' <=> Busy(u))
    BY <1>3, <2>3, <2>4 DEF Busy, InHand, NoCall
  <2>6. ASSUME NEW g \in Handle PROVE Held(g)' <=> Held(g)
    <3>1. \A u \in Tasks : (task'[u].at = "release" => task'[u].handle # g)
                              <=> (task[u].at = "release" => task[u].handle # g)
      BY <2>3, <2>4, <1>3 DEF NoCall
    <3> QED BY <3>1, <1>3 DEF Held
  <2>7. ASSUME NEW g \in Handle, g # h PROVE Settled(g)' <=> Settled(g)
    <3>1. \A u \in Tasks : (Busy(u)' => task'[u].handle # g) <=> (Busy(u) => task[u].handle # g)
      BY <2>3, <2>4, <2>5, <2>7
    <3> QED BY <3>1, <1>3 DEF Settled
  <2>8. ~Settled(h)'
    BY <2>3, <2>4, <2>5 DEF Settled
  <2>9. ASSUME NEW u \in Tasks PROVE CallOwns(u)'
    <3>1. CASE u = t
      BY <3>1, <2>3, <2>4, <2>5, <1>2, <1>3 DEF CallOwns
    <3>2. CASE u # t
      BY <3>2, <2>4, <2>5, <1>3 DEF CallOwns, ConnInv, Ownership, InHand
    <3> QED BY <3>1, <3>2
  <2>10. CallsApart'
    BY <2>3, <2>4, <2>5, <1>4 DEF CallsApart, ConnInv, Ownership
  <2>14. /\ \A u \in Tasks : (InHand(u)' <=> InHand(u)) /\ (InHand(u) => task'[u] = task[u])
         /\ HandOwns' /\ HandsApart'
    BY <1>3, <2>4, <2>5, <2>6, HandsStay
  <2>11. HeldExists' /\ HeldOnce' /\ AllHeld'
    BY <1>3, <2>6, <2>14 DEF HeldExists, HeldOnce, AllHeld, ConnInv, Ownership
  <2>12. ListIsSettled'
    <3>1. \A g \in Handle : Settled(g) /\ holder[g] = c => g = h
      BY <1>2, <1>5, SettledIsHeld DEF ConnInv, Ownership, HeldOnce
    <3>2. ASSUME NEW d, Listed(d)' PROVE \E g \in Handle : Settled(g)' /\ holder'[g] = d
      <4>1. PICK g \in Handle : Settled(g) /\ holder[g] = d
        BY <3>2, <2>2 DEF ConnInv, ListIsSettled
      <4>2. g # h
        BY <4>1, <3>2, <2>2, <1>2
      <4> QED BY <4>1, <4>2, <2>7, <1>3
    <3>3. ASSUME NEW g \in Handle, Settled(g)' PROVE Listed(holder[g])'
      <4>1. g # h /\ Settled(g)
        BY <3>3, <2>7, <2>8
      <4>2. Listed(holder[g]) /\ holder[g] # c
        BY <4>1, <3>1 DEF ConnInv, ListIsSettled
      <4> QED BY <4>2, <2>2, <1>3
    <3> QED BY <3>2, <3>3, <1>3 DEF ListIsSettled
  <2>13. conn' \in [Conns -> Contents \cup {NULL}]
    BY <1>3 DEF ConnInv
  <2> QED BY <2>2, <2>9, <2>10, <2>11, <2>12, <2>13, <2>14, <1>1 DEF ConnInv, Ownership
<1> QED BY <1>7, <1>8

\* The structure goes back while its handle is still given.
LEMMA FreeOwns ==
    ASSUME ConnInv, NEW t \in Tasks, free(t)
    PROVE  ConnInv'
<1>1. UdpInv' /\ UdpInv
  BY CallKeeps DEF ConnInv, Calls
<1>2. /\ task[t].at = "free" /\ conn' = [conn EXCEPT ![task[t].conn] = NULL]
      /\ task' = [task EXCEPT ![t] = [task[t] EXCEPT !.at = "release"]]
      /\ UNCHANGED <<root_list, holder>>
  BY DEF free, pool
<1>3. PICK h \in Handle, c \in Conns :
         /\ h = task[t].handle /\ c = task[t].conn /\ holder[h] = c
         /\ Held(h) /\ ~Settled(h) /\ ~Listed(c) /\ Busy(t) /\ ~InHand(t)
  BY <1>2, CallHolds DEF Busy, InHand
<1>4. /\ conn' \in [Conns -> Contents \cup {NULL}]
      /\ conn'[c] = NULL /\ \A d \in Conns : d # c => conn'[d] = conn[d]
  BY <1>2, <1>3 DEF ConnInv
<1>5. /\ task'[t].at = "release" /\ task'[t].handle = h /\ task'[t].conn = c
      /\ \A u \in Tasks : u # t => task'[u] = task[u]
  <2>1. task[t] \in TaskState
    BY <1>1 DEF UdpInv
  <2> DEFINE k == [task[t] EXCEPT !.at = "release"]
  <2>2. k.at = "release" /\ k.handle = task[t].handle /\ k.conn = task[t].conn
    BY <2>1 DEF TaskState
  <2> HIDE DEF k
  <2>3. task'[t] = k /\ \A u \in Tasks : u # t => task'[u] = task[u]
    BY <1>1, <1>2, TaskAfter DEF k
  <2> QED BY <2>2, <2>3, <1>3
<1>6. \A u \in Tasks : (Busy(u)' <=> Busy(u)) /\ task'[u].handle = task[u].handle
                       /\ task'[u].conn = task[u].conn /\ (InHand(u)' <=> InHand(u))
  BY <1>3, <1>5 DEF Busy, InHand
<1>7. ASSUME NEW g \in Handle PROVE Settled(g)' <=> Settled(g)
  BY <1>2, <1>6 DEF Settled
<1>8. ASSUME NEW g \in Handle, g # h PROVE Held(g)' <=> Held(g)
  <2>1. \A u \in Tasks : (task'[u].at = "release" => task'[u].handle # g)
                            <=> (task[u].at = "release" => task[u].handle # g)
    BY <1>3, <1>5, <1>8
  <2> QED BY <2>1, <1>2 DEF Held
<1>9. ~Held(h)'
  BY <1>5 DEF Held
<1>10. \A g \in Handle : Held(g) /\ holder[g] = c => g = h
  BY <1>3 DEF ConnInv, Ownership, HeldOnce
<1>11. ASSUME NEW u \in Tasks PROVE CallOwns(u)'
  BY <1>2, <1>3, <1>5, <1>6 DEF CallOwns, ConnInv, Ownership
<1>12. CallsApart'
  BY <1>6 DEF CallsApart, ConnInv, Ownership
<1>17. HandOwns' /\ HandsApart'
  BY <1>2, <1>3, <1>4, <1>5, <1>6, <1>8, <1>9, HandsStay
<1>13. HeldExists'
  <2>1. \A g \in Handle : Held(g) => holder[g] \in Conns
    BY <1>1 DEF UdpInv, IInv, PoolTypeOK, Conns, Held
  <2> QED BY <2>1, <1>2, <1>4, <1>8, <1>9, <1>10 DEF HeldExists, ConnInv, Ownership
<1>14. HeldOnce'
  BY <1>2, <1>8, <1>9 DEF HeldOnce, ConnInv, Ownership
<1>15. AllHeld'
  <2>1. ASSUME NEW d \in Conns, conn'[d] # NULL
        PROVE  \/ \E g \in Handle : Held(g)' /\ holder'[g] = d
               \/ \E u \in Tasks : InHand(u)' /\ task'[u].conn = d
    <3>1. d # c /\ conn[d] # NULL
      BY <2>1, <1>4
    <3>2. \/ \E g \in Handle : Held(g) /\ holder[g] = d
          \/ \E u \in Tasks : InHand(u) /\ task[u].conn = d
      BY <3>1 DEF AllHeld, ConnInv, Ownership
    <3> QED BY <3>1, <3>2, <1>2, <1>3, <1>6, <1>8
  <2> QED BY <2>1 DEF AllHeld
<1>16. ListedOnce' /\ ListIsSettled'
  BY <1>2, <1>7 DEF ListedOnce, ListIsSettled, Listed, ConnInv
<1> QED BY <1>1, <1>4, <1>11, <1>12, <1>13, <1>14, <1>15, <1>16, <1>17 DEF ConnInv, Ownership

\* The handle goes back last; its connection may be another's already.
LEMMA ReleaseOwns ==
    ASSUME ConnInv, NEW t \in Tasks, release(t)
    PROVE  ConnInv'
<1>1. UdpInv' /\ UdpInv
  BY CallKeeps DEF ConnInv, Calls
<1>2. /\ task[t].at = "release" /\ task' = [task EXCEPT ![t] = NoCall]
      /\ UNCHANGED <<root_list, conn>>
      /\ holder' = [holder EXCEPT ![task[t].handle] = NULL]
  BY DEF release, PRTCL_release, Drop
<1>3. PICK h \in Handle : h = task[t].handle /\ Busy(t) /\ ~InHand(t) /\ ~Held(h) /\ ~Settled(h)
  BY <1>2 DEF ConnInv, Ownership, CallOwns, Busy, InHand, Held, Settled
<1>4. holder'[h] = NULL /\ \A g \in Handle : g # h => holder'[g] = holder[g]
  BY <1>1, <1>2, <1>3 DEF UdpInv, IInv, PoolTypeOK
<1>5. task'[t] = NoCall /\ \A u \in Tasks : u # t => task'[u] = task[u]
  BY <1>1, <1>2, TaskAfter
<1>6. ~Busy(t)' /\ ~InHand(t)' /\ \A u \in Tasks : u # t => (Busy(u)' <=> Busy(u))
  BY <1>5 DEF Busy, InHand, NoCall
<1>7. \A u \in Tasks : u # t /\ Busy(u) => task[u].handle # h
  BY <1>3 DEF ConnInv, Ownership, CallsApart
<1>8. ~Held(h)' /\ ~Settled(h)'
  BY <1>4 DEF Held, Settled
<1>9. ASSUME NEW g \in Handle, g # h PROVE (Held(g)' <=> Held(g)) /\ (Settled(g)' <=> Settled(g))
  <2>1. \A u \in Tasks : /\ (task'[u].at = "release" => task'[u].handle # g)
                               <=> (task[u].at = "release" => task[u].handle # g)
                         /\ (Busy(u)' => task'[u].handle # g) <=> (Busy(u) => task[u].handle # g)
    BY <1>3, <1>5, <1>6, <1>9 DEF NoCall
  <2> QED BY <2>1, <1>4, <1>9 DEF Held, Settled
<1>10. ASSUME NEW u \in Tasks PROVE CallOwns(u)'
  <2>1. CASE u = t
    BY <2>1, <1>5, <1>6 DEF CallOwns
  <2>2. CASE u # t
    BY <2>2, <1>4, <1>5, <1>6, <1>7 DEF CallOwns, ConnInv, Ownership, InHand
  <2> QED BY <2>1, <2>2
<1>11. CallsApart'
  BY <1>5, <1>6 DEF CallsApart, ConnInv, Ownership
<1>12. HeldExists' /\ HeldOnce'
  BY <1>2, <1>4, <1>8, <1>9 DEF HeldExists, HeldOnce, ConnInv, Ownership
<1>16. /\ \A u \in Tasks : (InHand(u)' <=> InHand(u)) /\ (InHand(u) => task'[u] = task[u])
       /\ HandOwns' /\ HandsApart'
  BY <1>2, <1>3, <1>4, <1>5, <1>6, <1>8, <1>9, HandsStay
<1>13. AllHeld'
  BY <1>2, <1>3, <1>4, <1>9, <1>16 DEF AllHeld, ConnInv, Ownership
<1>14. ListedOnce' /\ ListIsSettled'
  <2>1. \A d : Listed(d)' <=> Listed(d)
    BY <1>2 DEF Listed
  <2> QED BY <2>1, <1>2, <1>3, <1>4, <1>8, <1>9 DEF ListedOnce, ListIsSettled, ConnInv
<1>15. conn' \in [Conns -> Contents \cup {NULL}]
  BY <1>2 DEF ConnInv
<1> QED BY <1>1, <1>10, <1>11, <1>12, <1>13, <1>14, <1>15, <1>16 DEF ConnInv, Ownership

(***************************************************************************)
(* The choice of a connection                                              *)
(***************************************************************************)
LEMMA ChosenSound ==
    ASSUME ConnInv, NEW port \in Ports, NEW host \in Hosts, Places(port, host, FALSE) # {}
    PROVE  /\ Chosen(port, host) \in Places(port, host, FALSE)
           /\ Chosen(port, host) \in 1 .. Len(root_list)
           /\ Places(port, host, TRUE) # {} => Full(root_list[Chosen(port, host)])
<1> DEFINE some == Places(port, host, FALSE)
           full == Places(port, host, TRUE)
<1>1. Len(root_list) \in Nat
  BY PlaceListed DEF ConnInv
<1>2. /\ some \subseteq 1 .. Len(root_list) /\ some \subseteq 0 .. Len(root_list)
      /\ full \subseteq some /\ full \subseteq Nat
      /\ \A i \in full : Full(root_list[i])
  BY <1>1 DEF Places
<1> HIDE DEF some, full
<1>3. CASE full # {}
  <2>1. Min(full) \in full
    BY <1>2, <1>3, MinIsLeast
  <2> QED BY <2>1, <1>2, <1>3 DEF Chosen, some, full
<1>4. CASE full = {}
  <2>1. Max(some) \in some
    BY <1>1, <1>2, MaxIsGreatest DEF some
  <2> QED BY <2>1, <1>2, <1>4 DEF Chosen, some, full
<1> QED BY <1>3, <1>4

\* The connection the datagram goes to is an open one, and its host becomes the sender.
LEMMA HandlerOwns ==
    ASSUME ConnInv, NEW port \in Ports, NEW host \in Hosts, UDP_handler(port, host)
    PROVE  /\ ConnInv'
           /\ \E c \in Conns :
                /\ conn' = [conn EXCEPT ![c] = Bound(c, host)]
                /\ conn[c] \in Contents /\ Fits(c, port, host)
                /\ Places(port, host, TRUE) # {} => Full(c)
<1>1. PICK c \in Conns :
         /\ conn' = [conn EXCEPT ![c] = Bound(c, host)]
         /\ conn[c] \in Contents /\ Fits(c, port, host)
         /\ Places(port, host, TRUE) # {} => Full(c)
  <2> DEFINE c == root_list[Chosen(port, host)]
  <2>1. conn' = [conn EXCEPT ![c] = Bound(c, host)]
    BY DEF UDP_handler
  <2>2. /\ Chosen(port, host) \in Places(port, host, FALSE)
        /\ Chosen(port, host) \in 1 .. Len(root_list)
        /\ Places(port, host, TRUE) # {} => Full(c)
    BY ChosenSound DEF UDP_handler
  <2>3. Fits(c, port, host)
    BY <2>2 DEF Places
  <2>4. c \in Conns /\ conn[c] \in Contents
    BY <2>2, PlaceListed, ListedExists DEF ConnInv
  <2> HIDE DEF c
  <2> QED BY <2>1, <2>2, <2>3, <2>4
<1>2. Bound(c, host) \in Contents
  BY <1>1 DEF Bound, Contents
<1>3. /\ conn' \in [Conns -> Contents \cup {NULL}]
      /\ \A d \in Conns : conn[d] # NULL <=> conn'[d] # NULL
  BY <1>1, <1>2, NullIsNoContents DEF ConnInv
<1>4. UdpInv' /\ UNCHANGED <<holder, root_list, task>>
  <2>1. Next
    BY DEF Next
  <2> QED BY <2>1, UdpNextInv DEF UDP_handler, pool, ConnInv
<1> QED BY <1>1, <1>3, <1>4, ContentsKeep

\* An ICMP error is noted in a connection that is open.
LEMMA IcmpOwns ==
    ASSUME ConnInv, NEW port \in Ports, NEW host \in Hosts, do_ICMP(port, host)
    PROVE  /\ ConnInv'
           /\ \A c \in Conns : conn[c] # NULL => conn'[c].host = conn[c].host
<1> DEFINE hits == {i \in 1 .. Len(root_list) :
                      /\ conn[root_list[i]].port = port
                      /\ conn[root_list[i]].host = host /\ conn[root_list[i]].lhost}
<1>1. hits # {} /\ conn' = [conn EXCEPT ![root_list[Min(hits)]].error = TRUE]
  BY DEF do_ICMP
<1>2. hits \subseteq Nat /\ hits \subseteq 1 .. Len(root_list)
  BY PlaceListed DEF ConnInv
<1> HIDE DEF hits
<1>3. Min(hits) \in 1 .. Len(root_list)
  BY <1>1, <1>2, MinIsLeast
<1>4. PICK c \in Conns : c = root_list[Min(hits)] /\ conn[c] \in Contents
  BY <1>3, PlaceListed, ListedExists DEF ConnInv
<1>5. conn' = [conn EXCEPT ![c] = [conn[c] EXCEPT !.error = TRUE]]
  BY <1>1, <1>4
<1>6. [conn[c] EXCEPT !.error = TRUE] \in Contents /\ [conn[c] EXCEPT !.error = TRUE].host = conn[c].host
  BY <1>4 DEF Contents
<1>7. /\ conn' \in [Conns -> Contents \cup {NULL}]
      /\ \A d \in Conns : conn[d] # NULL <=> conn'[d] # NULL
      /\ \A d \in Conns : conn[d] # NULL => conn'[d].host = conn[d].host
  BY <1>4, <1>5, <1>6, NullIsNoContents DEF ConnInv
<1>8. UdpInv' /\ UNCHANGED <<holder, root_list, task>>
  <2>1. Next
    BY DEF Next
  <2> QED BY <2>1, UdpNextInv DEF do_ICMP, pool, ConnInv
<1> QED BY <1>7, <1>8, ContentsKeep

\* The error is reported by a connection that is open.
LEMMA ReportOwns ==
    ASSUME ConnInv, NEW h \in Handle, report(h)
    PROVE  /\ ConnInv'
           /\ \A c \in Conns : conn[c] # NULL => conn'[c].host = conn[c].host
<1>1. PICK c \in Conns : c = holder[h] /\ c # NULL /\ c = do_lookup(h)
  BY AnswersTrue DEF report, ConnInv, UdpInv, IInv, PoolTypeOK, Conns
<1>2. conn' = [conn EXCEPT ![c].error = FALSE]
  BY <1>1 DEF report
<1>3. Settled(h)
  BY <1>1 DEF report, InCall, Settled
<1>4. conn[c] \in Contents
  BY <1>1, <1>3, ListedExists DEF ConnInv, ListIsSettled
<1>5. conn' = [conn EXCEPT ![c] = [conn[c] EXCEPT !.error = FALSE]]
  BY <1>2, <1>4
<1>6. [conn[c] EXCEPT !.error = FALSE] \in Contents /\ [conn[c] EXCEPT !.error = FALSE].host = conn[c].host
  BY <1>4 DEF Contents
<1>7. /\ conn' \in [Conns -> Contents \cup {NULL}]
      /\ \A d \in Conns : conn[d] # NULL <=> conn'[d] # NULL
      /\ \A d \in Conns : conn[d] # NULL => conn'[d].host = conn[d].host
  BY <1>4, <1>5, <1>6, NullIsNoContents DEF ConnInv
<1>8. UdpInv' /\ UNCHANGED <<holder, root_list, task>>
  <2>1. Next
    BY DEF Next
  <2> QED BY <2>1, UdpNextInv DEF report, pool, ConnInv
<1> QED BY <1>7, <1>8, ContentsKeep

\* UDP_open fills in its own structure, and reads the list.
LEMMA FillReadOwn ==
    ASSUME ConnInv, NEW t \in Tasks, fill(t) \/ read(t)
    PROVE  ConnInv'
<1>1. UdpInv' /\ UdpInv /\ task[t] \in TaskState
  BY CallKeeps DEF ConnInv, Calls, UdpInv
<1>2. CASE fill(t)
  <2>0. PICK k : k = [task[t] EXCEPT !.at = "read"]
    OBVIOUS
  <2> DEFINE new == [host |-> task[t].host, port |-> task[t].port, lhost |-> task[t].host # NULL,
                     error |-> FALSE, raw |-> FALSE]
  <2>1. /\ task[t].at = "fill" /\ task' = [task EXCEPT ![t] = k]
        /\ conn' = [conn EXCEPT ![task[t].conn] = new]
        /\ UNCHANGED <<root_list, holder>>
    BY <2>0, <1>2 DEF fill, pool
  <2>2. k.at = "read" /\ k.handle = task[t].handle /\ k.conn = task[t].conn
    BY <2>0, <1>1 DEF TaskState
  <2>3. new \in Contents
    BY <1>1 DEF TaskState, Contents
  <2>4. PICK c \in Conns : c = task[t].conn /\ conn[c] \in Contents
    BY <2>1, CallHolds
  <2> HIDE DEF new
  <2>5. /\ conn' \in [Conns -> Contents \cup {NULL}]
        /\ \A d \in Conns : conn[d] # NULL <=> conn'[d] # NULL
    BY <2>1, <2>3, <2>4, NullIsNoContents DEF ConnInv
  <2>6. /\ task'[t].at \in {"read", "link"} /\ task[t].at \in {"fill", "read"}
        /\ task'[t].handle = task[t].handle /\ task'[t].conn = task[t].conn
        /\ \A u \in Tasks : u # t => task'[u] = task[u]
    BY <2>1, <2>2, <1>1, TaskAfter
  <2> QED BY <2>1, <2>5, <2>6, <1>1, CallGoesOn
<1>3. CASE read(t)
  <2>0. PICK k : k = [task[t] EXCEPT !.at = "link", !.first = root_list]
    OBVIOUS
  <2>1. /\ task[t].at = "read" /\ task' = [task EXCEPT ![t] = k]
        /\ UNCHANGED <<root_list, holder, conn>>
    BY <2>0, <1>1, <1>3 DEF read, pool, UdpInv, TaskState
  <2>2. k.at = "link" /\ k.handle = task[t].handle /\ k.conn = task[t].conn
    BY <2>0, <1>1 DEF TaskState
  <2>3. /\ conn' \in [Conns -> Contents \cup {NULL}]
        /\ \A d \in Conns : conn[d] # NULL <=> conn'[d] # NULL
    BY <2>1 DEF ConnInv
  <2>4. /\ task'[t].at \in {"read", "link"} /\ task[t].at \in {"fill", "read"}
        /\ task'[t].handle = task[t].handle /\ task'[t].conn = task[t].conn
        /\ \A u \in Tasks : u # t => task'[u] = task[u]
    BY <2>1, <2>2, <1>1, TaskAfter
  <2> QED BY <2>1, <2>3, <2>4, <1>1, CallGoesOn
<1> QED BY <1>2, <1>3

\* The list is empty at first, every structure is free, and no task is in a call.
THEOREM ConnInitInv == Init => ConnInv
<1> SUFFICES ASSUME Init PROVE ConnInv
  OBVIOUS
<1>1. UdpInv
  BY UdpInitInv
<1>2. /\ conn = [c \in Conns |-> NULL] /\ root_list = <<>> /\ task = [t \in Tasks |-> NoCall]
      /\ \A h \in Handle : holder[h] = NULL
  BY DEF Init, PoolInit
<1>3. \A t \in Tasks : task[t] = NoCall /\ ~Busy(t) /\ ~InHand(t)
  BY <1>2 DEF Busy, InHand, NoCall
<1>4. \A h \in Handle : ~Held(h) /\ ~Settled(h)
  BY <1>2 DEF Held, Settled
<1>5. ListedOnce /\ \A c : ~Listed(c)
  <2>1. Len(root_list) = 0
    BY <1>2, EmptySeq
  <2>2. \A i \in 1 .. Len(root_list) : FALSE
    BY <2>1
  <2> QED BY <2>2, <1>1, PlaceListed DEF ListedOnce, Once
<1>6. Ownership
  BY <1>2, <1>3, <1>4 DEF Ownership, CallOwns, CallsApart, HandOwns, HandsApart, HeldExists, HeldOnce, AllHeld
<1> QED BY <1>1, <1>2, <1>4, <1>5, <1>6 DEF ConnInv, ListIsSettled

\* Every step keeps structures, handles and the list together, as long as nobody
\* changes the list under a UDP_open.
THEOREM ConnNextInv == ConnInv /\ ListAsRead /\ [Next]_vars => ConnInv'
<1> SUFFICES ASSUME ConnInv, ListAsRead, [Next]_vars PROVE ConnInv'
  OBVIOUS
<1>1. ASSUME UNCHANGED vars PROVE ConnInv'
  <2>1. UdpInv'
    BY UdpNextInv DEF ConnInv
  <2> QED BY <1>1, <2>1, ContentsKeep DEF vars, ConnInv
<1>2. CASE Hangs
  BY <1>1, <1>2 DEF Hangs
<1>3. ASSUME NEW t \in Tasks, Calls(t) PROVE ConnInv'
  BY <1>3, RequestOwns, RefusedOwns, FillReadOwn, LinkOwns, FreeOwns, ReleaseOwns DEF Calls
<1>4. ASSUME NEW t \in Tasks, NEW host \in Hosts, NoPortLeft(t, host) PROVE ConnInv'
  <2>1. UdpInv'
    BY UdpNextInv DEF ConnInv, Next
  <2> QED BY <1>4, <2>1, ContentsKeep DEF NoPortLeft, pool, ConnInv
<1> QED BY <1>1, <1>2, <1>3, <1>4, OpenOwns, CloseOwns, HandlerOwns, IcmpOwns, ReportOwns DEF Next

\* A connection that is listed keeps its remote host, but for what UDP_handler binds.
LEMMA OnlyHandlerBinds ==
    ASSUME ConnInv, [Next]_vars, NEW c, Listed(c), conn'[c] # NULL, conn'[c].host # conn[c].host
    PROVE  \E port \in Ports, host \in Hosts : UDP_handler(port, host)
<1> SUFFICES ASSUME ~\E port \in Ports, host \in Hosts : UDP_handler(port, host) PROVE FALSE
  OBVIOUS
<1>1. c \in Conns /\ conn[c] # NULL
  BY ListedExists, NullIsNoContents
<1>2. ASSUME NEW d, conn' = [conn EXCEPT ![d] = conn'[d]], d \in Conns => d # c PROVE FALSE
  BY <1>1, <1>2 DEF ConnInv
<1>3. ASSUME NEW t \in Tasks, NEW host \in Hosts \cup {NULL}, NEW port \in Ports, UDP_open(t, host, port)
      PROVE  FALSE
  BY <1>1, <1>3 DEF UDP_open, ConnInv
<1>4. ASSUME NEW t \in Tasks, fill(t) \/ free(t) \/ refused(t) PROVE FALSE
  <2>1. task[t].conn # c
    <3>1. CASE fill(t) \/ free(t)
      BY <3>1, CallHolds DEF fill, free
    <3>2. CASE refused(t)
      <4>1. PICK h \in Handle : Settled(h) /\ holder[h] = c
        BY DEF ConnInv, ListIsSettled
      <4> QED BY <4>1, <3>2, SettledIsHeld DEF refused, InHand, ConnInv, Ownership, HandOwns
    <3> QED BY <1>4, <3>1, <3>2
  <2> QED BY <2>1, <1>1, <1>4 DEF fill, free, refused, ConnInv
<1>5. UNCHANGED conn => FALSE
  OBVIOUS
<1>6. ASSUME NEW t \in Tasks, Calls(t) PROVE FALSE
  BY <1>4, <1>5, <1>6 DEF Calls, request, read, link, release
<1>9. ASSUME NEW t \in Tasks, NEW host \in Hosts, NoPortLeft(t, host) PROVE FALSE
  BY <1>5, <1>9 DEF NoPortLeft
<1>7. ASSUME NEW t \in Tasks, NEW h \in Handle, UDP_close(t, h) PROVE FALSE
  BY <1>5, <1>7 DEF UDP_close
<1>8. ~Hangs /\ ~UNCHANGED vars
  BY <1>5 DEF Hangs, vars
<1> QED BY <1>1, <1>3, <1>6, <1>7, <1>8, <1>9, IcmpOwns, ReportOwns DEF Next

LEMMA FullOneIsFound ==
    ASSUME ConnInv, NEW d, Listed(d), Full(d), NEW port, NEW host, Fits(d, port, host)
    PROVE  Places(port, host, TRUE) # {}
<1>1. PICK i \in 1 .. Len(root_list) : root_list[i] = d
  BY PlaceListed DEF ConnInv
<1> QED BY <1>1 DEF Places

LEMMA BindKeepsWaiting ==
    ASSUME ConnInv, [Next]_vars, NEW c \in Conns, NEW d \in Conns,
           Listed(c), Listed(d), conn[c].host = NULL, conn'[c] # NULL, conn'[c].host # NULL,
           Full(d), conn[d].port = conn[c].port
    PROVE  conn[d].host # conn'[c].host
<1>1. PICK port \in Ports, host \in Hosts : UDP_handler(port, host)
  BY OnlyHandlerBinds
<1>2. PICK b \in Conns :
         /\ conn' = [conn EXCEPT ![b] = Bound(b, host)]
         /\ conn[b] \in Contents /\ Fits(b, port, host)
         /\ Places(port, host, TRUE) # {} => Full(b)
  BY <1>1, HandlerOwns
<1>3. b = c
  BY <1>2 DEF ConnInv
<1>4. conn'[c].host = host
  BY <1>2, <1>3 DEF ConnInv, Bound, Contents
<1>5. Places(port, host, TRUE) = {}
  BY <1>2, <1>3 DEF Full
<1>6. ~Fits(d, port, host)
  BY <1>5, FullOneIsFound
<1> QED BY <1>2, <1>3, <1>4, <1>6 DEF Fits

(***************************************************************************)
(* What UDP promises                                                       *)
(***************************************************************************)
\* Whoever got a handle from UDP_open and did not close it has a connection that
\* exists and is in the list, so datagrams find it, for any number of tasks,
\* structures, handles and hosts.
THEOREM OpenIsReachable == Spec /\ []ListAsRead => []HandleReceives
<1>1. ConnInv => HandleReceives
  <2> SUFFICES ASSUME ConnInv, NEW h \in Handle, holder[h] # NULL, h \notin InCall
               PROVE  conn[holder[h]] # NULL /\ Listed(holder[h])
    BY DEF HandleReceives
  <2>1. Settled(h)
    BY DEF Settled, InCall
  <2>2. Listed(holder[h])
    BY <2>1 DEF ConnInv, ListIsSettled
  <2> QED BY <2>2, ListedExists, NullIsNoContents
<1> QED BY ConnInitInv, ConnNextInv, <1>1, PTL DEF Spec

\* However a UDP_open or a UDP_close ends, every structure that is taken belongs to
\* one handle or to the one call that has it in hand, and a free one to none.
THEOREM StructuresBelong == Spec /\ []ListAsRead => []NothingLeaks
<1>1. ASSUME ConnInv, NEW c \in Conns
      PROVE  IF conn[c] = NULL THEN Rights(c) = {} /\ Hands(c) = {}
             ELSE \/ Hands(c) = {} /\ \E h \in Handle : Rights(c) = {h}
                  \/ Rights(c) = {} /\ \E t \in Tasks : Hands(c) = {t}
  <2>1. \A h : h \in Rights(c) <=> h \in Handle /\ Held(h) /\ holder[h] = c
    BY NullIsNoContents DEF Rights, Held
  <2>2. \A t : t \in Hands(c) <=> t \in Tasks /\ InHand(t) /\ task[t].conn = c
    BY DEF Hands, InHand
  <2>3. CASE conn[c] = NULL
    BY <1>1, <2>1, <2>2, <2>3 DEF ConnInv, Ownership, HeldExists, HandOwns
  <2>4. ASSUME conn[c] # NULL, NEW h \in Handle, Held(h), holder[h] = c
        PROVE  Hands(c) = {} /\ Rights(c) = {h}
    <3>1. \A t : t \notin Hands(c)
      BY <1>1, <2>2, <2>4 DEF ConnInv, Ownership, HandOwns
    <3>2. \A g : g \in Rights(c) <=> g = h
      BY <1>1, <2>1, <2>4 DEF ConnInv, Ownership, HeldOnce
    <3> QED BY <3>1, <3>2
  <2>5. ASSUME conn[c] # NULL, NEW t \in Tasks, InHand(t), task[t].conn = c
        PROVE  Rights(c) = {} /\ Hands(c) = {t}
    <3>1. \A g : g \notin Rights(c)
      BY <1>1, <2>1, <2>5 DEF ConnInv, Ownership, HandOwns
    <3>2. \A u : u \in Hands(c) <=> u = t
      BY <1>1, <2>2, <2>5 DEF ConnInv, Ownership, HandsApart
    <3> QED BY <3>1, <3>2
  <2> QED BY <1>1, <2>3, <2>4, <2>5 DEF ConnInv, Ownership, AllHeld
<1>2. ConnInv => NothingLeaks
  BY <1>1 DEF NothingLeaks
<1> QED BY ConnInitInv, ConnNextInv, <1>2, PTL DEF Spec

\* An endpoint that waits for anybody is not bound to a host that has a connection
\* of its own.
THEOREM WaitingIsKept == Spec /\ []ListAsRead => WaitingStaysOpen
<1> DEFINE Kept == \A c, d \in Conns :
         (/\ Listed(c) /\ Listed(d) /\ conn[c].host = NULL /\ conn'[c] # NULL
          /\ conn'[c].host # NULL /\ Full(d) /\ conn[d].port = conn[c].port)
            => conn[d].host # conn'[c].host
<1>1. ConnInv /\ [Next]_vars => [Kept]_vars
  BY BindKeepsWaiting
<1>2. Spec /\ []ListAsRead => [][Kept]_vars
  BY ConnInitInv, ConnNextInv, <1>1, PTL DEF Spec
<1> QED BY <1>2 DEF WaitingStaysOpen

\* With one task nobody is there to change the list between the two steps.
THEOREM AloneReadsTrue == ASSUME \A t, u \in Tasks : t = u PROVE Spec => []ListAsRead
<1>1. Init => ListAsRead
  BY DEF Init, ListAsRead, NoCall
<1>2. UdpInv /\ ListAsRead /\ [Next]_vars => ListAsRead'
  <2> SUFFICES ASSUME UdpInv, ListAsRead, [Next]_vars PROVE ListAsRead'
    OBVIOUS
  <2>1. ASSUME UNCHANGED <<root_list, task>> PROVE ListAsRead'
    BY <2>1 DEF ListAsRead
  <2>2. ASSUME NEW t \in Tasks, task'[t].at # "link" PROVE ListAsRead'
    BY <2>2 DEF ListAsRead
  <2>3. ASSUME NEW t \in Tasks, NEW host \in Hosts \cup {NULL}, NEW port \in Ports, UDP_open(t, host, port)
        PROVE  ListAsRead'
    <3>1. CASE UNCHANGED task
      BY <3>1, <2>1, <2>3 DEF UDP_open
    <3>2. CASE ~UNCHANGED task
      <4>1. PICK c : task' = [task EXCEPT ![t] =
                [NoCall EXCEPT !.at = "request", !.conn = c, !.port = port, !.host = host]]
        BY <2>3, <3>2 DEF UDP_open
      <4>2. task'[t].at = "request"
        BY <4>1 DEF UdpInv, NoCall
      <4> QED BY <4>2, <2>2
    <3> QED BY <3>1, <3>2
  <2>4. ASSUME NEW t \in Tasks, NEW h \in Handle, UDP_close(t, h) PROVE ListAsRead'
    <3> DEFINE k == [NoCall EXCEPT !.at = "free", !.conn = do_lookup(h), !.handle = h]
    <3>1. task'[t] = NoCall \/ task'[t] = k
      BY <2>4 DEF UDP_close, UdpInv
    <3>2. k.at = "free" /\ NoCall.at = "none"
      BY DEF NoCall
    <3> HIDE DEF k
    <3>3. task'[t].at # "link"
      BY <3>1, <3>2
    <3> QED BY <3>3, <2>2
  <2>5. ASSUME NEW t \in Tasks, read(t) PROVE ListAsRead'
    <3>1. task[t] \in TaskState /\ task' = [task EXCEPT ![t].at = "link", ![t].first = root_list]
          /\ UNCHANGED root_list
      BY <2>5 DEF read, UdpInv
    <3>2. task'[t].first = root_list
      BY <3>1 DEF TaskState, UdpInv
    <3> QED BY <3>1, <3>2 DEF ListAsRead
  <2>6. ASSUME NEW t \in Tasks, fill(t) \/ refused(t) \/ link(t) \/ free(t) \/ release(t) PROVE ListAsRead'
    <3>1. task[t] \in TaskState /\ task \in [Tasks -> TaskState]
      BY DEF UdpInv
    <3>2. \/ task' = [task EXCEPT ![t] = [task[t] EXCEPT !.at = "read"]]
          \/ task' = [task EXCEPT ![t] = NoCall]
          \/ task' = [task EXCEPT ![t] = [task[t] EXCEPT !.at = "release"]]
      BY <2>6 DEF fill, refused, link, free, release
    <3>3. task'[t].at \in {"read", "none", "release"}
      BY <3>1, <3>2 DEF TaskState, NoCall
    <3> QED BY <3>3, <2>2
  <2>10. ASSUME NEW t \in Tasks, request(t) PROVE ListAsRead'
    <3>1. CASE UNCHANGED task
      BY <3>1, <2>1, <2>10 DEF request
    <3>2. CASE ~UNCHANGED task
      <4>1. PICK h : task' = [task EXCEPT ![t].handle = h, ![t].at = IF h = -1 THEN "refused" ELSE "fill"]
        BY <2>10, <3>2 DEF request
      <4>2. task'[t].at \in {"refused", "fill"}
        BY <4>1 DEF UdpInv, TaskState
      <4> QED BY <4>2, <2>2
    <3> QED BY <3>1, <3>2
  <2>11. ASSUME NEW t \in Tasks, NEW host \in Hosts, NoPortLeft(t, host) PROVE ListAsRead'
    BY <2>1, <2>11 DEF NoPortLeft
  <2>7. ASSUME NEW port \in Ports, NEW host \in Hosts, UDP_handler(port, host) \/ do_ICMP(port, host)
        PROVE  ListAsRead'
    BY <2>1, <2>7 DEF UDP_handler, do_ICMP
  <2>8. ASSUME NEW h \in Handle, report(h) PROVE ListAsRead'
    BY <2>1, <2>8 DEF report
  <2>9. Hangs \/ UNCHANGED vars => ListAsRead'
    BY <2>1 DEF Hangs, vars
  <2> QED BY <2>3, <2>4, <2>5, <2>6, <2>7, <2>8, <2>9, <2>10, <2>11 DEF Next, Calls
<1> QED BY UdpInitInv, UdpNextInv, <1>1, <1>2, PTL DEF Spec

(***************************************************************************)
(* Sequence numbers: a sum and a difference are what they are, up to SEQS  *)
(***************************************************************************)
LEMMA RestIs ==
    ASSUME NEW m \in Nat \ {0}, NEW x \in Int
    PROVE  /\ x % m \in 0 .. m - 1 /\ x \div m \in Int
           /\ x = m * (x \div m) + (x % m)
BY SMTT(30)

LEMMA RestSmall ==
    ASSUME NEW m \in Nat \ {0}, NEW x \in Int, -m <= x, x < m + m
    PROVE  x % m \in {x - m, x, x + m} /\ x % m \in 0 .. m - 1
<1>1. PICK q, r : q = x \div m /\ r = x % m
  OBVIOUS
<1>2. r \in 0 .. m - 1 /\ q \in Int /\ x = m * q + r
  BY <1>1, RestIs
<1>3. CASE q >= 2
  <2>1. PICK k \in Nat : q = 2 + k
    BY <1>2, <1>3
  <2>2. m * q = m + m + m * k /\ m * k >= 0
    BY <2>1
  <2> QED BY <1>2, <2>2
<1>4. CASE q <= -2
  <2>1. PICK k \in Nat : q = -2 - k
    BY <1>2, <1>4
  <2>2. m * q = -m - m - m * k /\ m * k >= 0
    BY <2>1
  <2> QED BY <1>2, <2>2
<1>5. CASE q \in -1 .. 1
  <2>1. m * q \in {-m, 0, m}
    BY <1>5
  <2>2. r \in {x - m, x, x + m}
    BY <1>2, <2>1
  <2> QED BY <1>1, <1>2, <2>2
<1> QED BY <1>2, <1>3, <1>4, <1>5

LEMMA Sizes ==
    /\ WINS \in Nat \ {0} /\ MSS \in 1 .. WINS - 1 /\ RCV_WINDOW \in 1 .. WINS - 1
    /\ SEQS \in Nat \ {0} /\ 4 * WINS <= SEQS
BY TcpAssumption

LEMMA HalfIs == SEQS \div 2 \in Nat /\ SEQS = (SEQS \div 2) + (SEQS \div 2)
<1>1. PICK q, r : q = SEQS \div 2 /\ r = SEQS % 2
  OBVIOUS
<1>2. SEQS \in Nat /\ r = 0
  BY <1>1, TcpAssumption
<1>3. q \in Int /\ SEQS = 2 * q + r
  BY <1>1, <1>2, RestIs
<1> QED BY <1>1, <1>2, <1>3

LEMMA PlusIs ==
    ASSUME NEW a \in Sequence, NEW n \in Int, -SEQS <= n, n <= SEQS
    PROVE  Plus(a, n) \in Sequence /\ Plus(a, n) \in {a + n - SEQS, a + n, a + n + SEQS}
<1>1. a + n \in Int /\ -SEQS <= a + n /\ a + n < SEQS + SEQS
  BY Sizes DEF Sequence
<1>2. PICK x \in Int : x = a + n
  BY <1>1
<1>3. PICK r : r = x % SEQS
  OBVIOUS
<1>4. r \in {x - SEQS, x, x + SEQS} /\ r \in 0 .. SEQS - 1
  BY <1>1, <1>2, <1>3, Sizes, RestSmall
<1>5. Plus(a, n) = r
  BY <1>2, <1>3, Zenon DEF Plus
<1> QED BY <1>2, <1>4, <1>5, Sizes DEF Sequence

LEMMA DiffIs ==
    ASSUME NEW a \in Sequence, NEW b \in Sequence
    PROVE  /\ Diff(a, b) \in Int
           /\ -SEQS <= Diff(a, b) + Diff(a, b) /\ Diff(a, b) + Diff(a, b) < SEQS
           /\ Diff(a, b) \in {a - b - SEQS, a - b, a - b + SEQS}
<1>1. PICK h \in Nat : h = SEQS \div 2 /\ SEQS = h + h
  BY HalfIs
<1>2. a - b + h \in Int /\ -SEQS <= a - b + h /\ a - b + h < SEQS + SEQS
  BY <1>1, Sizes DEF Sequence
<1>3. PICK x \in Int : x = a - b + h
  BY <1>2
<1>4. PICK r : r = x % SEQS
  OBVIOUS
<1>5. r \in 0 .. SEQS - 1 /\ r \in {x - SEQS, x, x + SEQS}
  BY <1>2, <1>3, <1>4, RestSmall, Sizes
<1>6. Diff(a, b) = r - h
  BY <1>1, <1>3, <1>4, Zenon DEF Diff
<1> QED BY <1>1, <1>3, <1>5, <1>6 DEF Sequence

(***************************************************************************)
(* Changes of a connection                                                 *)
(***************************************************************************)
Stays(c, d) == d.rnext = c.rnext /\ d.rwin = c.rwin /\ d.recvq = c.recvq /\ d.reseq = c.reseq

LEMMA ConnIs ==
    ASSUME NEW c \in Connecs
    PROVE  /\ c.state \in States /\ c.flags \subseteq Flags /\ c.passive \in BOOLEAN /\ c.rtrn \in BOOLEAN
           /\ c.ini \in Sequence /\ c.unack \in Sequence /\ c.ptr \in Sequence /\ c.next \in Sequence
           /\ c.lwseq \in Sequence /\ c.lwack \in Sequence /\ c.rnext \in Sequence /\ c.lstnext \in Sequence
           /\ c.swin \in Window /\ c.rwin \in Window /\ c.lstwin \in Window
           /\ c.count \in Int /\ c.sendq \in Seq(Data) /\ c.recvq \in Seq(Data)
           /\ c.reseq \in Seq(Segments(Data))
BY DEF Connecs, CONNEC

LEMMA SegIs ==
    ASSUME NEW s \in Segments(Data)
    PROVE  /\ s.seq \in Sequence /\ s.ack \in Sequence /\ s.sync \in BOOLEAN /\ s.isack \in BOOLEAN
           /\ s.fin \in BOOLEAN /\ s.reset \in BOOLEAN /\ s.win \in Window /\ s.data \in Seq(Data)
           /\ Len(s.data) \in Nat
<1>1. s.data \in Seq(Data)
  BY DEF Segments
<1> QED BY <1>1, LenProperties DEF Segments

LEMMA RaiseSound ==
    ASSUME NEW c \in Connecs, NEW f \in Flags
    PROVE  Raise(c, f) \in Connecs /\ Stays(c, Raise(c, f)) /\ Raise(c, f).state = c.state
BY DEF Connecs, CONNEC, Raise, Stays

LEMMA NowSound ==
    ASSUME NEW c \in Connecs, NEW state \in States
    PROVE  Now(c, state) \in Connecs /\ Stays(c, Now(c, state)) /\ Now(c, state).state = state
BY DEF Connecs, CONNEC, Now, Stays

Errors == {"none", "E_UA", "E_RRESET", "E_REFUSE", "E_CNTIMEOUT"}
LEMMA FailsSound ==
    ASSUME NEW c \in Connecs, NEW error \in Errors
    PROVE  Fails(c, error) \in Connecs /\ Stays(c, Fails(c, error)) /\ Fails(c, error).state = c.state
BY DEF Connecs, CONNEC, Fails, Stays, Errors

Results == {"none", "E_NODATA", "E_NORMAL", "E_EOF", "E_RRESET", "E_CNTIMEOUT", "E_BADCLOSE"}
Reasons == {"E_NORMAL", "E_RRESET", "E_CNTIMEOUT", "E_BADCLOSE"}
LEMMA CloseSound ==
    ASSUME NEW c \in Connecs, NEW reason \in Reasons
    PROVE  LET d == close_self(c, reason)
           IN  /\ d \in Connecs /\ d.state = "CLOSED" /\ d.reseq = <<>>
               /\ d.rnext = c.rnext /\ d.rwin = c.rwin /\ d.recvq = c.recvq
<1> DEFINE told == IF ~c.result THEN c.told
                   ELSE IF reason # "E_NORMAL" THEN reason
                   ELSE IF c.count = 0 THEN "E_NORMAL" ELSE "E_EOF"
           d == [c EXCEPT !.rtrn = FALSE, !.reseq = <<>>, !.state = "CLOSED", !.told = told]
<1>1. c.told \in Results
  BY DEF Connecs, CONNEC, Results
<1>2. told \in Results
  BY <1>1 DEF Results, Reasons
<1>3. close_self(c, reason) = d
  BY Zenon DEF close_self
<1> HIDE DEF told
<1>4. <<>> \in Seq(Segments(Data)) /\ "CLOSED" \in States
  BY DEF States
<1>5. /\ d \in Connecs /\ d.state = "CLOSED" /\ d.reseq = <<>>
      /\ d.rnext = c.rnext /\ d.rwin = c.rwin /\ d.recvq = c.recvq
  BY <1>2, <1>4 DEF Connecs, CONNEC, Results
<1> QED BY <1>3, <1>5

LEMMA PlusType == \A a \in Sequence : \A n \in Int : Plus(a, n) \in Sequence
<1>1. ASSUME NEW a \in Sequence, NEW n \in Int PROVE Plus(a, n) \in Sequence
  <2>1. PICK x \in Int : x = a + n
    BY Sizes DEF Sequence
  <2>2. PICK r : r = x % SEQS
    OBVIOUS
  <2>3. r \in 0 .. SEQS - 1
    BY <2>1, <2>2, Sizes, RestIs
  <2> QED BY <2>1, <2>2, <2>3, Zenon DEF Plus, Sequence
<1> QED BY <1>1

LEMMA SyncSound ==
    ASSUME NEW c \in Connecs, NEW ini \in Sequence
    PROVE  LET d == send_sync(c, ini)
           IN  d \in Connecs /\ Stays(c, d) /\ d.state = c.state
<1> DEFINE r == Raise(c, "FORCE")
           n == r.count + 1
           d == [r EXCEPT !.ini = ini, !.lwack = ini, !.unack = ini, !.ptr = ini, !.next = ini, !.count = n]
<1>1. send_sync(c, ini) = d
  BY DEF send_sync
<1>2. r \in Connecs /\ Stays(c, r) /\ r.state = c.state
  BY RaiseSound DEF Flags
<1> HIDE DEF r
<1>3. n \in Int
  BY <1>2, ConnIs
<1> HIDE DEF n
<1>4. d \in Connecs /\ Stays(r, d) /\ d.state = r.state
  BY <1>2, <1>3 DEF Connecs, CONNEC, Stays
<1> QED BY <1>1, <1>2, <1>4 DEF Stays

LEMMA ProcessSound ==
    ASSUME NEW c \in Connecs, NEW s \in Segments(Data)
    PROVE  LET d == process_sync(c, s)
           IN  /\ d \in Connecs /\ d.state = c.state /\ d.rnext = s.seq
               /\ d.rwin = c.rwin /\ d.recvq = c.recvq /\ d.reseq = c.reseq
<1> DEFINE r == Raise(c, "FORCE")
           d == [r EXCEPT !.lwseq = s.seq, !.swin = s.win, !.rnext = s.seq]
<1>1. process_sync(c, s) = d
  BY DEF process_sync
<1>2. r \in Connecs /\ Stays(c, r) /\ r.state = c.state
  BY RaiseSound DEF Flags
<1> HIDE DEF r
<1>3. /\ d \in Connecs /\ d.state = r.state /\ d.rnext = s.seq
      /\ d.rwin = r.rwin /\ d.recvq = r.recvq /\ d.reseq = r.reseq
  BY <1>2, SegIs DEF Connecs, CONNEC
<1> QED BY <1>1, <1>2, <1>3 DEF Stays

(***************************************************************************)
(* Output                                                                  *)
(***************************************************************************)
LEMMA CountsAre ==
    ASSUME NEW c \in Connecs
    PROVE  InFlight(c) \in Nat /\ Usable(c) \in Int /\ Waiting(c) \in Int
<1>1. PICK x \in Int : x = c.ptr - c.unack
  BY ConnIs DEF Sequence
<1>2. PICK r : r = x % SEQS
  OBVIOUS
<1>3. r \in 0 .. SEQS - 1
  BY <1>1, <1>2, Sizes, RestIs
<1>4. InFlight(c) = r
  BY <1>1, <1>2, Zenon DEF InFlight
<1>5. InFlight(c) \in Nat
  BY <1>3, <1>4
<1>6. c.swin \in Int /\ c.count \in Int
  BY ConnIs DEF Window
<1> QED BY <1>5, <1>6 DEF Usable, Waiting

LEMMA BytesSound ==
    ASSUME NEW c \in Connecs, NEW offset \in Int, offset >= 0, NEW size \in Int
    PROVE  /\ Bytes(c, offset, size) \in Seq(Data)
           /\ size <= MSS => Len(Bytes(c, offset, size)) <= MSS
<1> DEFINE n == IF size > 0 THEN size ELSE 0
<1>1. n \in Nat /\ 1 .. size = 1 .. n
  OBVIOUS
<1>2. \A i \in 1 .. n : (IF offset + i <= Len(c.sendq) THEN c.sendq[offset + i] ELSE Junk) \in Data
  <2>1. ASSUME NEW i \in 1 .. n, offset + i <= Len(c.sendq) PROVE c.sendq[offset + i] \in Data
    <3>1. c.sendq \in Seq(Data) /\ offset + i \in 1 .. Len(c.sendq)
      BY <2>1, ConnIs, LenProperties
    <3> QED BY <3>1, ElementOfSeq
  <2> QED BY <2>1 DEF Data
<1>3. Bytes(c, offset, size) \in [1 .. n -> Data]
  BY <1>1, <1>2 DEF Bytes
<1>4. Bytes(c, offset, size) \in Seq(Data) /\ Len(Bytes(c, offset, size)) = n
  BY <1>1, <1>3, LenProperties
<1> QED BY <1>1, <1>4, Sizes

LEMMA SegmentSound ==
    ASSUME NEW c \in Connecs, NEW size \in Int, size <= MSS
    PROVE  Segment(c, size) \in Segs
<1> DEFINE sync == c.ptr = c.ini /\ c.state \in Synchronizing
           fin  == "FIN" \in c.flags /\ Waiting(c) = size /\ size # 0
           raw  == size - (IF sync /\ size > 0 THEN 1 ELSE 0)
           n    == IF fin /\ raw > 0 THEN raw - 1 ELSE raw
           data == prep_segment(c, sync, n)
           ackd == ~(sync /\ c.state = "SYN_SENT")
<1>1. n \in Int /\ n <= MSS
  BY Sizes
<1>2. sync \in BOOLEAN /\ fin \in BOOLEAN /\ ackd \in BOOLEAN
  OBVIOUS
<1>3. Segment(c, size) = [seq |-> c.ptr, ack |-> c.rnext, sync |-> sync, isack |-> ackd,
                          fin |-> fin, reset |-> FALSE, win |-> c.rwin, data |-> data]
  BY DEF Segment
<1> HIDE DEF n, sync, fin, ackd
<1>4. data \in Seq(Data) /\ Len(data) <= MSS
  <2> DEFINE o == IF sync /\ InFlight(c) # 0 THEN InFlight(c) - 1 ELSE InFlight(c)
  <2>1. o \in Int /\ o >= 0
    BY CountsAre
  <2>2. data = Bytes(c, o, n)
    BY DEF prep_segment
  <2> HIDE DEF o
  <2> QED BY <1>1, <2>1, <2>2, BytesSound
<1> HIDE DEF data
<1> QED BY <1>2, <1>3, <1>4, ConnIs DEF Segs, Segments

LEMMA SentSound ==
    ASSUME NEW c \in Connecs, NEW s, NEW size \in Int
    PROVE  LET d == Sent(c, s, size) IN d \in Connecs /\ Stays(c, d) /\ d.state = c.state
<1> DEFINE flags == c.flags \ {"FORCE"}
           ptr == Plus(c.ptr, size)
           next == IF Diff(Plus(c.ptr, size), c.next) > 0 THEN Plus(c.ptr, size) ELSE c.next
           rtrn == IF size # 0 THEN TRUE ELSE c.rtrn /\ InFlight(c) # 0
           d == [c EXCEPT !.flags = flags, !.ptr = ptr, !.next = next, !.rtrn = rtrn,
                          !.lstnext = c.rnext, !.lstwin = c.rwin]
<1>1. Sent(c, s, size) = d
  BY DEF Sent
<1>2. ptr \in Sequence /\ next \in Sequence /\ flags \in SUBSET Flags /\ rtrn \in BOOLEAN
  BY PlusType, ConnIs
<1>3. c.rnext \in Sequence /\ c.rwin \in Window
  BY ConnIs
<1> HIDE DEF flags, ptr, next, rtrn
<1>4. d \in Connecs /\ Stays(c, d) /\ d.state = c.state
  BY <1>2, <1>3 DEF Connecs, CONNEC, Stays
<1> QED BY <1>1, <1>4

\* What output leaves of a connection, and what it sends.
Outputs(c, b) == b.c \in Connecs /\ Stays(c, b.c) /\ b.c.state = c.state /\ b.out \in Seq(Segs)

LEMMA EmitSound ==
    ASSUME NEW c, NEW b, Outputs(c, b)
    PROVE  Outputs(c, Emit(b))
<1> DEFINE size == Least(Waiting(b.c), Least(MSS, Usable(b.c)))
<1>1. size \in Int /\ size <= MSS
  <2>1. Waiting(b.c) \in Int /\ Usable(b.c) \in Int /\ MSS \in Int
    BY CountsAre, Sizes DEF Outputs
  <2> QED BY <2>1 DEF Least
<1> DEFINE s == Segment(b.c, size)
           d == Sent(b.c, s, size)
<1>2. Emit(b) = Outcome(d, Append(b.out, s))
  BY DEF Emit, With
<1> HIDE DEF size
<1>3. s \in Segs
  BY <1>1, SegmentSound DEF Outputs
<1>4. d \in Connecs /\ Stays(b.c, d) /\ d.state = b.c.state
  BY <1>1, SentSound DEF Outputs
<1> HIDE DEF s, d
<1>5. Append(b.out, s) \in Seq(Segs)
  BY <1>3, AppendProperties DEF Outputs
<1> QED BY <1>2, <1>4, <1>5 DEF Outputs, Outcome, Stays


\* f[n] is what n rounds of the loop of do_output leave.
Round(c, f, n)  == IF n = 0 THEN Outcome(c, <<>>) ELSE With(f[n - 1], LAMBDA b : IF Holds(b.c) THEN b ELSE Emit(b))
RoundsOf(c, m, f) == f = [n \in 0 .. m |-> Round(c, f, n)]

LEMMA RoundsExist ==
    ASSUME NEW c
    PROVE  \A m \in Nat : \E f : RoundsOf(c, m, f)
<1> DEFINE T == {m \in Nat : \E f : RoundsOf(c, m, f)}
<1>1. 0 \in T
  <2> DEFINE g == [n \in 0 .. 0 |-> Outcome(c, <<>>)]
  <2>1. \A n \in 0 .. 0 : Round(c, g, n) = Outcome(c, <<>>)
    BY DEF Round
  <2> HIDE DEF g
  <2>2. [n \in 0 .. 0 |-> Round(c, g, n)] = [n \in 0 .. 0 |-> Outcome(c, <<>>)]
    BY <2>1
  <2>3. RoundsOf(c, 0, g)
    BY <2>2 DEF RoundsOf, g
  <2> QED BY <2>3
<1>2. ASSUME NEW m \in Nat, m \in T PROVE m + 1 \in T
  <2>1. PICK f : RoundsOf(c, m, f)
    BY <1>2
  <2> DEFINE g == [n \in 0 .. m + 1 |-> IF n <= m THEN f[n] ELSE Round(c, f, n)]
  <2>2. \A n \in 0 .. m : f[n] = Round(c, f, n)
    BY <2>1, Zenon DEF RoundsOf
  <2>3. ASSUME NEW n \in 0 .. m + 1 PROVE g[n] = Round(c, g, n)
    <3>1. g[n] = Round(c, f, n)
      BY <2>2
    <3>2. n # 0 => g[n - 1] = f[n - 1]
      OBVIOUS
    <3> HIDE DEF g
    <3>3. CASE n = 0
      BY <3>1, <3>3 DEF Round
    <3>4. CASE n # 0
      <4>1. g[n - 1] = f[n - 1]
        BY <3>2, <3>4
      <4> QED BY <3>1, <3>4, <4>1, Zenon DEF Round
    <3> QED BY <3>3, <3>4
  <2>4. g = [n \in 0 .. m + 1 |-> g[n]]
    OBVIOUS
  <2> HIDE DEF g
  <2>5. RoundsOf(c, m + 1, g)
    BY <2>3, <2>4, Zenon DEF RoundsOf
  <2>6. \E h : RoundsOf(c, m + 1, h)
    BY <2>5
  <2> QED BY <2>6
<1> HIDE DEF T
<1>3. \A m \in Nat : m \in T
  BY <1>1, <1>2, NatGrows
<1> QED BY <1>3 DEF T

LEMMA EmittedIs ==
    ASSUME NEW c \in Connecs
    PROVE  /\ Rounds(c) \in Nat
           /\ \E f : RoundsOf(c, Rounds(c), f) /\ Emitted(c) = f[Rounds(c)]
<1> DEFINE g == CHOOSE f : RoundsOf(c, Rounds(c), f)
<1>1. Rounds(c) \in Nat
  BY CountsAre DEF Rounds
<1>2. RoundsOf(c, Rounds(c), g)
  BY <1>1, RoundsExist
<1>3. Emitted(c) = g[Rounds(c)]
  BY Zenon DEF Emitted, RoundsOf, Round
<1> QED BY <1>1, <1>2, <1>3

LEMMA EmittedSound ==
    ASSUME NEW c \in Connecs
    PROVE  Outputs(c, Emitted(c))
<1>0. PICK m \in Nat : \E f : RoundsOf(c, m, f) /\ Emitted(c) = f[m]
  BY EmittedIs
<1>1. PICK f : RoundsOf(c, m, f) /\ Emitted(c) = f[m]
  BY <1>0
<1>2. \A n \in 0 .. m : f[n] = Round(c, f, n)
  BY <1>1, Zenon DEF RoundsOf
<1> DEFINE T == {n \in Nat : n <= m => Outputs(c, f[n])}
<1>3. 0 \in T
  <2>1. f[0] = Outcome(c, <<>>)
    <3>1. 0 \in 0 .. m
      OBVIOUS
    <3>2. f[0] = Round(c, f, 0)
      BY <1>2, <3>1
    <3> QED BY <3>2 DEF Round
  <2>2. Outputs(c, Outcome(c, <<>>))
    BY DEF Outputs, Outcome, Stays
  <2> QED BY <2>1, <2>2
<1>4. ASSUME NEW n \in Nat, n \in T PROVE n + 1 \in T
  <2> SUFFICES ASSUME n + 1 <= m PROVE Outputs(c, f[n + 1])
    OBVIOUS
  <2>1. n + 1 \in 0 .. m /\ n + 1 # 0 /\ n + 1 - 1 = n
    OBVIOUS
  <2>2. PICK k : k = n + 1
    OBVIOUS
  <2>3. f[k] = Round(c, f, k) /\ k # 0 /\ k - 1 = n
    BY <1>2, <2>1, <2>2
  <2>4. f[k] = IF Holds(f[n].c) THEN f[n] ELSE Emit(f[n])
    BY <2>3 DEF Round, With
  <2>5. Outputs(c, f[n])
    BY <1>4
  <2>6. Outputs(c, Emit(f[n]))
    BY <2>5, EmitSound
  <2> QED BY <2>2, <2>4, <2>5, <2>6, Zenon
<1> HIDE DEF T
<1>5. \A n \in Nat : n \in T
  BY <1>3, <1>4, NatGrows
<1>6. Outputs(c, f[m])
  BY <1>5 DEF T
<1> QED BY <1>1, <1>6

LEMMA OutputSound ==
    ASSUME NEW c \in Connecs
    PROVE  Outputs(c, do_output(c))
<1>1. Outputs(c, Outcome(c, <<>>))
  BY DEF Outputs, Outcome, Stays
<1>2. With(c, Emitted) = Emitted(c)
  BY DEF With
<1>3. Outputs(c, Emitted(c))
  BY EmittedSound
<1> QED BY <1>1, <1>2, <1>3, Zenon DEF do_output

(***************************************************************************)
(* The window and what is acknowledged                                     *)
(***************************************************************************)
LEMMA RestOfSeq ==
    ASSUME NEW S, NEW q \in Seq(S), NEW n \in Nat
    PROVE  /\ SubSeq(q, n + 1, Len(q)) \in Seq(S)
           /\ Len(SubSeq(q, n + 1, Len(q))) = IF n <= Len(q) THEN Len(q) - n ELSE 0
<1>1. Len(q) \in Nat /\ \A i \in n + 1 .. Len(q) : q[i] \in S
  BY LenProperties, ElementOfSeq
<1>2. n + 1 \in Int /\ Len(q) \in Int
  BY <1>1
<1>3. /\ SubSeq(q, n + 1, Len(q)) \in Seq(S)
      /\ Len(SubSeq(q, n + 1, Len(q))) = IF n + 1 <= Len(q) THEN Len(q) - (n + 1) + 1 ELSE 0
  BY <1>1, <1>2, SubSeqProperties
<1> QED BY <1>1, <1>3

LEMMA FrontOfSeq ==
    ASSUME NEW S, NEW q \in Seq(S), NEW n \in Int, n <= Len(q)
    PROVE  /\ SubSeq(q, 1, n) \in Seq(S)
           /\ Len(SubSeq(q, 1, n)) = IF n >= 0 THEN n ELSE 0
<1>1. Len(q) \in Nat /\ \A i \in 1 .. n : q[i] \in S
  BY LenProperties, ElementOfSeq
<1>2. /\ SubSeq(q, 1, n) \in Seq(S)
      /\ Len(SubSeq(q, 1, n)) = IF 1 <= n THEN n - 1 + 1 ELSE 0
  BY <1>1, SubSeqProperties
<1> QED BY <1>1, <1>2

\* What changes the sending half alone.
Sends(c, d) == d \in Connecs /\ Stays(c, d) /\ d.state = c.state

LEMMA NewWindowSound ==
    ASSUME NEW c \in Connecs, NEW s \in Segments(Data)
    PROVE  Sends(c, NewWindow(c, s))
<1> DEFINE ptr == IF c.swin = 0 /\ s.win # 0 THEN c.unack ELSE c.ptr
           d == [c EXCEPT !.ptr = ptr, !.swin = s.win, !.lwseq = s.seq, !.lwack = s.ack]
<1>1. NewWindow(c, s) = d \/ NewWindow(c, s) = c
  BY DEF NewWindow
<1>2. ptr \in Sequence
  BY ConnIs
<1> HIDE DEF ptr
<1>3. Sends(c, d)
  BY <1>2, SegIs DEF Connecs, CONNEC, Stays, Sends
<1>4. Sends(c, c)
  BY DEF Stays, Sends
<1> QED BY <1>1, <1>3, <1>4

LEMMA AcknowledgedSound ==
    ASSUME NEW c \in Connecs, NEW s \in Segments(Data), Diff(s.ack, c.unack) > 0
    PROVE  Sends(c, Acknowledged(c, s))
<1> DEFINE all   == Diff(s.ack, c.unack)
           sync  == IF c.ini = c.unack /\ c.state \in Synchronizing THEN 1 ELSE 0
           fin   == IF "FIN" \in c.flags /\ c.count - sync = all - sync /\ all - sync # 0 THEN 1 ELSE 0
           bytes == all - sync - fin
           count == c.count - all
           sendq == SubSeq(c.sendq, bytes + 1, Len(c.sendq))
           rtrn  == s.ack # c.next
           ptr   == IF Diff(c.ptr, s.ack) < 0 THEN s.ack ELSE c.ptr
           d     == [c EXCEPT !.count = count, !.sendq = sendq, !.unack = s.ack, !.rtrn = rtrn, !.ptr = ptr]
<1>1. Acknowledged(c, s) = d
  BY DEF Acknowledged
<1>2. all \in Int /\ all > 0
  BY ConnIs, SegIs, DiffIs
<1> HIDE DEF all
<1>3. bytes \in Nat /\ count \in Int
  <2>1. sync \in {0, 1} /\ fin \in {0, 1} /\ (fin = 1 => all - sync # 0)
    OBVIOUS
  <2> HIDE DEF sync, fin
  <2> QED BY <1>2, <2>1, ConnIs
<1> HIDE DEF bytes, count
<1>4. sendq \in Seq(Data)
  BY <1>3, ConnIs, RestOfSeq
<1>5. rtrn \in BOOLEAN /\ ptr \in Sequence /\ s.ack \in Sequence
  BY ConnIs, SegIs
<1> HIDE DEF sendq, rtrn, ptr
<1>6. Sends(c, d)
  BY <1>3, <1>4, <1>5 DEF Connecs, CONNEC, Stays, Sends
<1> QED BY <1>1, <1>6

LEMMA UpdateSound ==
    ASSUME NEW c \in Connecs, NEW s \in Segments(Data)
    PROVE  Sends(c, update_wind(c, s))
<1> DEFINE new == NewWindow(c, s)
<1>1. Sends(c, Raise(c, "FORCE"))
  BY RaiseSound DEF Sends, Flags
<1>2. Sends(c, new)
  BY NewWindowSound
<1>3. ASSUME Diff(s.ack, c.unack) > 0 PROVE Sends(c, Acknowledged(new, s))
  <2>1. new.unack = c.unack
    BY <1>3 DEF NewWindow
  <2> HIDE DEF new
  <2>2. Sends(new, Acknowledged(new, s))
    BY <1>2, <1>3, <2>1, AcknowledgedSound DEF Sends
  <2> QED BY <1>2, <2>2 DEF Sends, Stays
<1>4. Diff(s.ack, c.unack) \in Int
  BY ConnIs, SegIs, DiffIs
<1>5. update_wind(c, s) \in {Raise(c, "FORCE"), new}
        \/ (Diff(s.ack, c.unack) > 0 /\ update_wind(c, s) = Acknowledged(new, s))
  BY <1>4 DEF update_wind
<1> QED BY <1>1, <1>2, <1>3, <1>5

(***************************************************************************)
(* More of sequence numbers: those near each other are like integers       *)
(***************************************************************************)
LEMMA PlusPlus ==
    ASSUME NEW a \in Sequence, NEW m \in 0 .. WINS + WINS, NEW n \in 0 .. WINS + WINS
    PROVE  Plus(Plus(a, m), n) = Plus(a, m + n)
<1>1. m \in Int /\ n \in Int /\ m + n \in Int /\ -SEQS <= m /\ m <= SEQS /\ -SEQS <= n /\ n <= SEQS
      /\ -SEQS <= m + n /\ m + n <= SEQS
  BY Sizes
<1>2. Plus(a, m) \in Sequence /\ Plus(a, m) \in {a + m - SEQS, a + m, a + m + SEQS}
  BY <1>1, PlusIs
<1>3. /\ Plus(Plus(a, m), n) \in Sequence
      /\ Plus(Plus(a, m), n) \in {Plus(a, m) + n - SEQS, Plus(a, m) + n, Plus(a, m) + n + SEQS}
  BY <1>1, <1>2, PlusIs
<1>4. PICK k : k = m + n
  OBVIOUS
<1>5. Plus(a, k) \in Sequence /\ Plus(a, k) \in {a + k - SEQS, a + k, a + k + SEQS}
  BY <1>1, <1>4, PlusIs
<1>6. PICK p, q, r : p = Plus(a, m) /\ q = Plus(p, n) /\ r = Plus(a, k)
  OBVIOUS
<1>7. q = r
  BY <1>1, <1>2, <1>3, <1>4, <1>5, <1>6, Sizes DEF Sequence
<1> QED BY <1>4, <1>6, <1>7

LEMMA DiffPlus ==
    ASSUME NEW a \in Sequence, NEW m \in 0 .. WINS + WINS - 1, NEW n \in 0 .. WINS + WINS - 1
    PROVE  Diff(Plus(a, m), Plus(a, n)) = m - n
<1>1. m \in Int /\ n \in Int /\ -SEQS <= m /\ m <= SEQS /\ -SEQS <= n /\ n <= SEQS
  BY Sizes
<1>2. PICK p, q : p = Plus(a, m) /\ q = Plus(a, n)
  OBVIOUS
<1>3. p \in Sequence /\ p \in {a + m - SEQS, a + m, a + m + SEQS}
  BY <1>1, <1>2, PlusIs
<1>4. q \in Sequence /\ q \in {a + n - SEQS, a + n, a + n + SEQS}
  BY <1>1, <1>2, PlusIs
<1>5. PICK d : d = Diff(p, q)
  OBVIOUS
<1>6. d \in Int /\ -SEQS <= d + d /\ d + d < SEQS /\ d \in {p - q - SEQS, p - q, p - q + SEQS}
  BY <1>3, <1>4, <1>5, DiffIs
<1>7. d = m - n
  BY <1>1, <1>3, <1>4, <1>6, Sizes DEF Sequence
<1> QED BY <1>2, <1>5, <1>7

LEMMA DiffBack ==
    ASSUME NEW a \in Sequence, NEW b \in Sequence
    PROVE  a = Plus(b, Diff(a, b))
<1>1. PICK d : d = Diff(a, b)
  OBVIOUS
<1>2. d \in Int /\ -SEQS <= d + d /\ d + d < SEQS /\ d \in {a - b - SEQS, a - b, a - b + SEQS}
  BY <1>1, DiffIs
<1>3. PICK p : p = Plus(b, d)
  OBVIOUS
<1>4. p \in Sequence /\ p \in {b + d - SEQS, b + d, b + d + SEQS}
  <2>1. -SEQS <= d /\ d <= SEQS
    BY <1>2, Sizes
  <2> QED BY <1>2, <1>3, <2>1, PlusIs
<1>5. p = a
  BY <1>2, <1>4, Sizes DEF Sequence
<1> QED BY <1>1, <1>3, <1>5

LEMMA DiffStep ==
    ASSUME NEW a \in Sequence, NEW b \in Sequence, Diff(a, b) \in -WINS .. 0
    PROVE  Diff(a, Plus(b, 1)) <= 0
<1>1. PICK d : d = Diff(a, b)
  OBVIOUS
<1>2. d \in Int /\ d \in -WINS .. 0 /\ d \in {a - b - SEQS, a - b, a - b + SEQS}
  BY <1>1, DiffIs
<1>3. PICK p : p = Plus(b, 1)
  OBVIOUS
<1>4. p \in Sequence /\ p \in {b + 1 - SEQS, b + 1, b + 1 + SEQS}
  <2>1. 1 \in Int /\ -SEQS <= 1 /\ 1 <= SEQS
    BY Sizes
  <2> QED BY <1>3, <2>1, PlusIs
<1>5. PICK e : e = Diff(a, p)
  OBVIOUS
<1>6. e \in Int /\ -SEQS <= e + e /\ e + e < SEQS /\ e \in {a - p - SEQS, a - p, a - p + SEQS}
  BY <1>4, <1>5, DiffIs
<1>7. e <= 0
  BY <1>2, <1>4, <1>6, Sizes DEF Sequence
<1> QED BY <1>3, <1>5, <1>7

(***************************************************************************)
(* Trimming: what is left in order is no longer than the window            *)
(***************************************************************************)
LEMMA DupesSound ==
    ASSUME NEW c \in Connecs, NEW s \in Segs
    PROVE  LET u == DropDupes(c, s)
               dupes == Diff(c.rnext, s.seq)
           IN  /\ u \in Segs /\ u.sync = s.sync /\ u.fin = s.fin
               /\ dupes <= 0 => u = s
               /\ dupes > 0  => /\ u.seq = c.rnext
                                /\ Len(u.data) = IF dupes <= Len(s.data) THEN Len(s.data) - dupes ELSE 0
<1> DEFINE dupes == Diff(c.rnext, s.seq)
           data == SubSeq(s.data, dupes + 1, Len(s.data))
           u == [s EXCEPT !.seq = c.rnext, !.data = data]
<1>1. s \in Segments(Data) /\ Len(s.data) <= MSS
  BY DEF Segs
<1>2. dupes \in Int
  BY <1>1, SegIs, ConnIs, DiffIs
<1>3. DropDupes(c, s) = IF dupes <= 0 THEN s ELSE u
  BY DEF DropDupes
<1>4. ASSUME dupes > 0
      PROVE  /\ data \in Seq(Data)
             /\ Len(data) = IF dupes <= Len(s.data) THEN Len(s.data) - dupes ELSE 0
  <2>1. dupes \in Nat /\ s.data \in Seq(Data)
    BY <1>1, <1>2, <1>4, SegIs
  <2> HIDE DEF dupes
  <2> QED BY <2>1, RestOfSeq
<1> HIDE DEF dupes, data
<1>5. ASSUME dupes > 0 PROVE u \in Segs /\ u.sync = s.sync /\ u.fin = s.fin /\ u.seq = c.rnext /\ u.data = data
  <2>1. Len(data) <= MSS
    BY <1>1, <1>2, <1>4, <1>5, SegIs, Sizes
  <2>2. c.rnext \in Sequence
    BY ConnIs
  <2> QED BY <1>1, <1>4, <1>5, <2>1, <2>2 DEF Segs, Segments
<1> QED BY <1>2, <1>3, <1>4, <1>5 DEF dupes

LEMMA ExcessSound ==
    ASSUME NEW c \in Connecs, NEW s \in Segs
    PROVE  LET t == DropExcess(c, s)
               excess == Diff(Plus(s.seq, Len(s.data)), Edge(c))
           IN  /\ t \in Segs /\ t.sync = s.sync /\ t.seq = s.seq
               /\ excess <= 0 => t = s
               /\ excess > 0 /\ ~s.fin => Len(t.data) = IF excess <= Len(s.data) THEN Len(s.data) - excess ELSE 0
<1> DEFINE excess == Diff(Plus(s.seq, Len(s.data)), Plus(c.rnext, c.rwin))
           cut == IF s.fin THEN excess - 1 ELSE excess
           data == SubSeq(s.data, 1, Len(s.data) - cut)
           t == [s EXCEPT !.fin = FALSE, !.data = data]
<1>1. s \in Segments(Data) /\ Len(s.data) <= MSS /\ Len(s.data) \in Nat /\ s.data \in Seq(Data) /\ s.fin \in BOOLEAN
  BY SegIs DEF Segs
<1>2. excess \in Int
  <2>1. s.seq \in Sequence /\ c.rnext \in Sequence /\ c.rwin \in Int /\ Len(s.data) \in Int
    BY <1>1, SegIs, ConnIs DEF Window
  <2> QED BY <2>1, PlusType, DiffIs
<1>3. DropExcess(c, s) = IF excess <= 0 THEN s ELSE t
  BY DEF DropExcess
<1> HIDE DEF excess
<1>4. ASSUME excess > 0
      PROVE  /\ data \in Seq(Data) /\ Len(data) <= MSS
             /\ ~s.fin => Len(data) = IF excess <= Len(s.data) THEN Len(s.data) - excess ELSE 0
  <2>1. cut \in Nat /\ (~s.fin => cut = excess)
    BY <1>1, <1>2, <1>4
  <2> HIDE DEF cut
  <2>2. Len(s.data) - cut \in Int /\ Len(s.data) - cut <= Len(s.data)
    BY <1>1, <2>1
  <2>3. data \in Seq(Data) /\ Len(data) = IF Len(s.data) - cut >= 0 THEN Len(s.data) - cut ELSE 0
    BY <1>1, <2>2, FrontOfSeq
  <2> HIDE DEF data
  <2> QED BY <1>1, <1>2, <2>1, <2>3, Sizes
<1> HIDE DEF data
<1>5. ASSUME excess > 0 PROVE t \in Segs /\ t.sync = s.sync /\ t.seq = s.seq /\ t.data = data
  BY <1>1, <1>4, <1>5 DEF Segs, Segments
<1> QED BY <1>2, <1>3, <1>4, <1>5 DEF excess, Edge

LEMMA DropSound ==
    ASSUME NEW c \in Connecs, NEW s \in Segs
    PROVE  LET t == DropExcess(c, DropDupes(c, s))
           IN  /\ t \in Segs /\ t.sync = s.sync
               /\ Diff(c.rnext, s.seq) >= 0 => t.seq = c.rnext
               /\ ~s.sync /\ FinFits(Edge(c), s) /\ t.seq = c.rnext => Len(t.data) <= c.rwin
<1> DEFINE dupes == Diff(c.rnext, s.seq)
           u == DropDupes(c, s)
           t == DropExcess(c, u)
           excess == Diff(Plus(u.seq, Len(u.data)), Edge(c))
<1>1. /\ s \in Segments(Data) /\ Len(s.data) <= MSS /\ Len(s.data) \in Nat /\ s.seq \in Sequence
      /\ c.rnext \in Sequence /\ c.rwin \in 0 .. WINS - 1 /\ dupes \in Int
  BY SegIs, ConnIs, DiffIs DEF Segs, Window
<1>2. /\ u \in Segs /\ u.sync = s.sync /\ u.fin = s.fin
      /\ dupes <= 0 => u = s
      /\ dupes > 0  => /\ u.seq = c.rnext
                       /\ Len(u.data) = IF dupes <= Len(s.data) THEN Len(s.data) - dupes ELSE 0
  BY DupesSound
<1> HIDE DEF u
<1>3. /\ t \in Segs /\ t.sync = u.sync /\ t.seq = u.seq
      /\ excess <= 0 => t = u
      /\ excess > 0 /\ ~u.fin => Len(t.data) = IF excess <= Len(u.data) THEN Len(u.data) - excess ELSE 0
  BY <1>2, ExcessSound
<1> HIDE DEF t, excess
<1>4. Diff(c.rnext, s.seq) >= 0 => t.seq = c.rnext
  <2>1. CASE dupes = 0
    <3>1. c.rnext = s.seq
      <4>1. dupes \in {c.rnext - s.seq - SEQS, c.rnext - s.seq, c.rnext - s.seq + SEQS}
        BY <1>1, DiffIs
      <4> HIDE DEF dupes
      <4> QED BY <1>1, <2>1, <4>1, Sizes DEF Sequence
    <3> QED BY <1>2, <1>3, <2>1, <3>1
  <2>2. CASE dupes # 0
    BY <1>1, <1>2, <1>3, <2>2
  <2> QED BY <2>1, <2>2
<1>5. ASSUME ~s.sync, FinFits(Edge(c), s), t.seq = c.rnext PROVE Len(t.data) <= c.rwin
  <2>1. u.seq = c.rnext /\ Len(u.data) \in Nat /\ Len(u.data) <= MSS
    BY <1>2, <1>3, <1>5, SegIs DEF Segs
  <2>2. excess = Len(u.data) - c.rwin
    <3>1. Len(u.data) \in 0 .. WINS + WINS - 1 /\ c.rwin \in 0 .. WINS + WINS - 1
      BY <1>1, <2>1, Sizes
    <3> QED BY <1>1, <2>1, <3>1, DiffPlus DEF excess, Edge
  <2>3. CASE excess <= 0
    BY <1>1, <1>3, <2>1, <2>2, <2>3
  <2>4. CASE excess > 0 /\ ~u.fin
    BY <1>1, <1>3, <2>1, <2>2, <2>4
  <2>5. CASE excess > 0 /\ u.fin
    <3>1. Plus(s.seq, Len(s.data)) = Plus(c.rnext, Len(u.data)) /\ Len(s.data) # 0
      <4>1. CASE dupes <= 0
        BY <1>1, <1>2, <2>1, <2>2, <2>5, <4>1
      <4>2. CASE dupes > 0
        <5>1. dupes <= Len(s.data) /\ Len(u.data) = Len(s.data) - dupes /\ Len(s.data) # 0
          BY <1>1, <1>2, <2>1, <2>2, <2>5, <4>2
        <5>2. c.rnext = Plus(s.seq, dupes)
          BY <1>1, DiffBack
        <5>3. dupes \in 0 .. WINS + WINS /\ Len(u.data) \in 0 .. WINS + WINS
          BY <1>1, <2>1, <4>2, <5>1, Sizes
        <5>4. PICK k : k = Len(u.data) /\ dupes + k = Len(s.data)
          BY <1>1, <2>1, <5>1
        <5>5. Plus(Plus(s.seq, dupes), k) = Plus(s.seq, dupes + k)
          BY <1>1, <5>3, <5>4, PlusPlus
        <5> QED BY <5>1, <5>2, <5>4, <5>5
      <4> QED BY <1>1, <4>1, <4>2
    <3>2. s.data # <<>> /\ s.fin
      BY <1>2, <2>5, <3>1
    <3>3. EndOf(s) = Plus(s.seq, Len(s.data))
      BY <1>5 DEF EndOf
    <3>4. Diff(Plus(s.seq, Len(s.data)), Edge(c)) <= 0
      BY <1>5, <3>2, <3>3 DEF FinFits
    <3>5. excess <= 0
      BY <2>1, <3>1, <3>4 DEF excess
    <3> QED BY <2>5, <3>5, <2>2, <2>1, <1>1
  <2> QED BY <1>1, <2>1, <2>2, <2>3, <2>4, <2>5
<1> QED BY <1>2, <1>3, <1>4, <1>5 DEF t, u

LEMMA TrimSound ==
    ASSUME NEW c \in Connecs, NEW s \in Segs, Acceptable(c, s)
    PROVE  LET t == trim_segm(c, s)
               e == IF s.sync /\ c.rnext = s.seq THEN [c EXCEPT !.rnext = Plus(@, 1)] ELSE c
           IN  /\ t.c \in Connecs /\ t.out \in Parked
               /\ t.c.rwin = c.rwin /\ t.c.recvq = c.recvq /\ t.c.reseq = c.reseq
               /\ t.c.state = c.state /\ t.c.flags = c.flags
               /\ t.c = IF c.rwin = 0 THEN c ELSE e
               /\ c.rwin = 0 => t.out = s /\ s.data = <<>> /\ s.seq = c.rnext
               /\ ~s.sync /\ Diff(c.rnext, s.seq) >= 0 => t.out.seq = t.c.rnext
               /\ FinFits(Edge(e), s) /\ t.out.seq = t.c.rnext => Len(t.out.data) <= t.c.rwin
<1> DEFINE c1 == IF s.sync /\ c.rnext = s.seq THEN [c EXCEPT !.rnext = Plus(@, 1)] ELSE c
           s1 == IF s.sync THEN [s EXCEPT !.sync = FALSE, !.seq = Plus(@, 1)] ELSE s
           t1 == DropExcess(c1, DropDupes(c1, s1))
<1>1. /\ s \in Segments(Data) /\ Len(s.data) \in Nat /\ s.data \in Seq(Data) /\ s.seq \in Sequence
      /\ c.rnext \in Sequence /\ c.rwin \in 0 .. WINS - 1
  BY SegIs, ConnIs DEF Segs, Window
<1>2. CASE c.rwin = 0
  <2>1. trim_segm(c, s) = Outcome(c, s)
    BY <1>2 DEF trim_segm
  <2>2. s.seq = c.rnext /\ Numbers(s) = 0
    BY <1>2 DEF Acceptable
  <2>3. Len(s.data) = 0 /\ ~s.sync
    <3> DEFINE a == IF s.sync THEN 1 ELSE 0
               b == IF s.fin THEN 1 ELSE 0
    <3>1. a \in {0, 1} /\ b \in {0, 1} /\ (s.sync => a = 1)
      OBVIOUS
    <3>2. Len(s.data) + a + b = 0
      BY <2>2 DEF Numbers
    <3> HIDE DEF a, b
    <3> QED BY <1>1, <3>1, <3>2
  <2>4. s.data = <<>>
    BY <1>1, <2>3, EmptySeq
  <2>5. s \in Parked
    BY <2>3 DEF Parked
  <2> QED BY <1>1, <1>2, <2>1, <2>2, <2>3, <2>4, <2>5 DEF Outcome
<1>3. CASE c.rwin # 0
  <2>1. trim_segm(c, s) = Outcome(c1, t1)
    BY <1>3, Zenon DEF trim_segm
  <2>2. /\ c1 \in Connecs /\ c1.rwin = c.rwin /\ c1.recvq = c.recvq /\ c1.reseq = c.reseq
        /\ c1.state = c.state /\ c1.flags = c.flags
    <3>1. Plus(c.rnext, 1) \in Sequence
      BY <1>1, PlusType
    <3> QED BY <3>1 DEF Connecs, CONNEC
  <2>3. s1 \in Segs /\ s1.sync = FALSE /\ s1.fin = s.fin /\ s1.data = s.data
    <3>1. Plus(s.seq, 1) \in Sequence
      BY <1>1, PlusType
    <3> QED BY <1>1, <3>1 DEF Segs, Segments
  <2>4. FinFits(Edge(c1), s) => FinFits(Edge(c1), s1)
    <3>1. EndOf(s1) = EndOf(s)
      <4>1. s.sync => s1.seq = Plus(s.seq, 1)
        BY <1>1 DEF Segs, Segments
      <4>2. ~s.sync => s1 = s
        OBVIOUS
      <4> HIDE DEF s1
      <4> QED BY <2>3, <4>1, <4>2 DEF EndOf
    <3> HIDE DEF s1, c1
    <3> QED BY <2>3, <3>1 DEF FinFits
  <2>5. ~s.sync => c1 = c /\ s1 = s
    OBVIOUS
  <2>6. c1 = IF s.sync /\ c.rnext = s.seq THEN [c EXCEPT !.rnext = Plus(@, 1)] ELSE c
    OBVIOUS
  <2> HIDE DEF c1, s1
  <2>7. /\ t1 \in Segs /\ t1.sync = s1.sync
        /\ Diff(c1.rnext, s1.seq) >= 0 => t1.seq = c1.rnext
        /\ ~s1.sync /\ FinFits(Edge(c1), s1) /\ t1.seq = c1.rnext => Len(t1.data) <= c1.rwin
    BY <2>2, <2>3, DropSound
  <2> HIDE DEF t1
  <2>8. t1 \in Parked
    BY <2>3, <2>7 DEF Parked
  <2> QED BY <1>3, <2>1, <2>2, <2>3, <2>4, <2>5, <2>6, <2>7, <2>8 DEF Outcome
<1> QED BY <1>1, <1>2, <1>3

(***************************************************************************)
(* A segment that comes in order                                           *)
(***************************************************************************)
\* In these states data is stored.
Stores(c) == c.state \in {"SYN_RECV", "ESTABLISH", "FIN_WAIT1", "FIN_WAIT2"}
Room(c) == c.rwin + Len(c.recvq) = RCV_WINDOW

\* c with what waits in R, and with the room that the window tells when fit is TRUE.
Sound(fit, R, c) == c \in Connecs /\ c.reseq \in Seq(R) /\ (fit => Room(c))

\* From c to d: where data is still stored it was, and up to the same edge.
SameEdge(c, d) == Stores(d) => Stores(c) /\ Edge(d) = Edge(c)

LEMMA SoundStays ==
    ASSUME NEW fit, NEW R, NEW c, Sound(fit, R, c), NEW d \in Connecs, Stays(c, d)
    PROVE  Sound(fit, R, d) /\ Edge(d) = Edge(c)
BY DEF Sound, Stays, Room, Edge

LEMMA AdvancedSound ==
    ASSUME NEW fit, NEW R, NEW c, Sound(fit, R, c), NEW s \in Segments(Data)
    PROVE  LET a == Advanced(c, s)
           IN  Sound(fit, R, a) /\ Stays(c, a) /\ SameEdge(c, a)
<1> DEFINE u == update_wind(c, s)
           r == Raise(u, "FORCE")
           x == Raise(c, "FORCE")
           Kept(d) == d \in Connecs /\ Stays(c, d)
           w(d) == [d EXCEPT !.rtrn = TRUE]
<1>1. c \in Connecs
  BY DEF Sound
<1>2. Kept(u) /\ u.state = c.state
  BY <1>1, UpdateSound DEF Sends
<1>3. Kept(r) /\ r.state = c.state
  BY <1>2, RaiseSound DEF Flags, Stays
<1>4. Kept(x) /\ x.state = c.state
  BY <1>1, RaiseSound DEF Flags
<1>5. \A d : Kept(d) => Kept(w(d)) /\ w(d).state = d.state
  BY DEF Connecs, CONNEC, Stays
<1>6. ASSUME NEW st \in {"ESTABLISH", "FIN_WAIT2", "TIME_WAIT"} PROVE Kept(Now(u, st)) /\ Now(u, st).state = st
  BY <1>2, NowSound DEF Stays, States
<1>7. \/ c.state = "SYN_RECV" /\ Advanced(c, s) = Now(u, "ESTABLISH")
      \/ c.state = "FIN_WAIT1" /\ Advanced(c, s) \in {Now(u, "FIN_WAIT2"), u}
      \/ c.state = "CLOSING" /\ Advanced(c, s) \in {w(Now(u, "TIME_WAIT")), u}
      \/ c.state = "LAST_ACK" /\ Advanced(c, s) \in {w(r), u}
      \/ c.state = "TIME_WAIT" /\ Advanced(c, s) = w(x)
      \/ Advanced(c, s) = u
  BY DEF Advanced
<1> HIDE DEF u, r, x, w
<1>8. /\ Kept(Advanced(c, s))
      /\ Stores(Advanced(c, s)) => Stores(c)
  <2> USE DEF Stores
  <2>1. CASE c.state = "SYN_RECV" /\ Advanced(c, s) = Now(u, "ESTABLISH")
    BY <2>1, <1>6
  <2>2. CASE c.state = "FIN_WAIT1" /\ Advanced(c, s) \in {Now(u, "FIN_WAIT2"), u}
    BY <2>2, <1>2, <1>6
  <2>3. CASE c.state = "CLOSING" /\ Advanced(c, s) \in {w(Now(u, "TIME_WAIT")), u}
    <3>1. Kept(w(Now(u, "TIME_WAIT"))) /\ w(Now(u, "TIME_WAIT")).state = "TIME_WAIT"
      BY <1>5, <1>6
    <3> QED BY <2>3, <3>1, <1>2
  <2>4. CASE c.state = "LAST_ACK" /\ Advanced(c, s) \in {w(r), u}
    <3>1. Kept(w(r)) /\ w(r).state = c.state
      BY <1>3, <1>5
    <3> QED BY <2>4, <3>1, <1>2
  <2>5. CASE c.state = "TIME_WAIT" /\ Advanced(c, s) = w(x)
    <3>1. Kept(w(x)) /\ w(x).state = c.state
      BY <1>4, <1>5
    <3> QED BY <2>5, <3>1
  <2>6. CASE Advanced(c, s) = u
    BY <2>6, <1>2
  <2> QED BY <1>7, <2>1, <2>2, <2>3, <2>4, <2>5, <2>6
<1>9. Sound(fit, R, Advanced(c, s)) /\ Edge(Advanced(c, s)) = Edge(c)
  BY <1>8, SoundStays
<1> QED BY <1>8, <1>9 DEF SameEdge

LEMMA StoredSound ==
    ASSUME NEW fit, NEW R, NEW c, Sound(fit, R, c), NEW s \in Segs,
           fit /\ Stores(c) => Len(s.data) <= c.rwin
    PROVE  LET d == Stored(c, s)
           IN  /\ Sound(fit, R, d) /\ d.state = c.state
               /\ fit /\ Stores(c) => Edge(d) = Edge(c)
<1> DEFINE r == Raise(c, "FORCE")
           recvq == r.recvq \o s.data
           rnext == Plus(r.rnext, Len(s.data))
           rwin == (r.rwin - Len(s.data)) % WINS
           d == [r EXCEPT !.recvq = recvq, !.rnext = rnext, !.rwin = rwin]
<1>1. /\ c \in Connecs /\ c.reseq \in Seq(R) /\ (fit => Room(c))
      /\ s \in Segments(Data) /\ Len(s.data) \in 0 .. WINS - 1 /\ s.data \in Seq(Data)
  BY SegIs, Sizes DEF Sound, Segs
<1>2. r \in Connecs /\ Stays(c, r) /\ r.state = c.state
  BY <1>1, RaiseSound DEF Flags
<1>3. CASE Stored(c, s) = c
  BY <1>3
<1>4. CASE Stored(c, s) = d /\ Stores(c)
  <2>1. /\ r.recvq = c.recvq /\ r.rnext = c.rnext /\ r.rwin = c.rwin /\ r.reseq = c.reseq
        /\ c.recvq \in Seq(Data) /\ c.rnext \in Sequence /\ c.rwin \in 0 .. WINS - 1
    BY <1>1, <1>2, ConnIs DEF Stays, Window
  <2>2. /\ recvq \in Seq(Data) /\ Len(recvq) = Len(c.recvq) + Len(s.data)
        /\ rnext \in Sequence /\ rnext = Plus(c.rnext, Len(s.data))
    <3>1. recvq \in Seq(Data) /\ Len(recvq) = Len(c.recvq) + Len(s.data)
      <4>1. recvq = c.recvq \o s.data
        BY <2>1
      <4> HIDE DEF recvq
      <4> QED BY <1>1, <2>1, <4>1, ConcatProperties
    <3>2. rnext \in Sequence
      BY <1>1, <2>1, PlusType
    <3> QED BY <2>1, <3>1, <3>2
  <2>3. rwin \in Window /\ (Len(s.data) <= c.rwin => rwin = c.rwin - Len(s.data))
    <3>1. PICK x \in Int : x = r.rwin - Len(s.data)
      BY <1>1, <2>1
    <3>2. x % WINS \in 0 .. WINS - 1 /\ (0 <= x => x % WINS = x)
      <4>1. -WINS <= x /\ x < WINS /\ x < WINS + WINS /\ WINS \in Nat \ {0}
        BY <1>1, <2>1, <3>1, Sizes
      <4>2. PICK y : y = x % WINS
        OBVIOUS
      <4>3. y \in {x - WINS, x, x + WINS} /\ y \in 0 .. WINS - 1
        BY <4>1, <4>2, RestSmall
      <4> QED BY <4>1, <4>2, <4>3, Sizes
    <3>3. rwin = x % WINS
      BY <3>1
    <3> HIDE DEF rwin
    <3>4. PICK y : y = x % WINS
      OBVIOUS
    <3> QED BY <1>1, <2>1, <3>1, <3>2, <3>3, <3>4 DEF Window
  <2> HIDE DEF recvq, rnext, rwin, r
  <2>4. /\ d \in Connecs /\ d.state = c.state /\ d.reseq = c.reseq
        /\ d.recvq = recvq /\ d.rnext = rnext /\ d.rwin = rwin
    BY <1>2, <2>1, <2>2, <2>3 DEF Connecs, CONNEC
  <2> HIDE DEF d
  <2>5. ASSUME fit PROVE Room(d) /\ Edge(d) = Edge(c)
    <3>1. Len(s.data) <= c.rwin /\ rwin = c.rwin - Len(s.data)
      BY <1>4, <2>3, <2>5
    <3>2. Len(c.recvq) \in Nat
      BY <2>1, LenProperties
    <3>3. Room(d)
      <4>1. c.rwin + Len(c.recvq) = RCV_WINDOW
        BY <1>1, <2>5 DEF Room
      <4>2. d.rwin = c.rwin - Len(s.data) /\ Len(d.recvq) = Len(c.recvq) + Len(s.data)
        BY <2>2, <2>4, <3>1
      <4>3. c.rwin \in Int /\ Len(s.data) \in Int /\ Len(c.recvq) \in Int
        BY <1>1, <2>1, <3>2, Sizes
      <4>4. PICK a \in Int, b \in Int, l \in Int : a = c.rwin /\ b = Len(c.recvq) /\ l = Len(s.data)
        BY <4>3
      <4>5. (a - l) + (b + l) = a + b
        OBVIOUS
      <4>6. d.rwin + Len(d.recvq) = RCV_WINDOW
        BY <4>1, <4>2, <4>4, <4>5
      <4> QED BY <4>6, Zenon DEF Room
    <3>4. Plus(Plus(c.rnext, Len(s.data)), rwin) = Plus(c.rnext, c.rwin)
      <4>1. PICK m, n : m = Len(s.data) /\ n = rwin /\ m + n = c.rwin
        BY <1>1, <2>1, <3>1
      <4>2. m \in 0 .. WINS + WINS /\ n \in 0 .. WINS + WINS
        BY <1>1, <2>1, <3>1, <4>1, Sizes
      <4>3. Plus(Plus(c.rnext, m), n) = Plus(c.rnext, m + n)
        BY <2>1, <4>2, PlusPlus
      <4> QED BY <4>1, <4>3
    <3> QED BY <2>2, <2>4, <3>3, <3>4 DEF Edge
  <2> QED BY <1>1, <1>4, <2>4, <2>5 DEF Sound
<1>5. Stored(c, s) = c \/ (Stored(c, s) = d /\ Stores(c))
  BY DEF Stored, Stores
<1> QED BY <1>3, <1>4, <1>5

LEMMA ResetSound ==
    ASSUME NEW s \in Segments(Data)
    PROVE  send_reset(s) \in Seq(Segs)
<1> DEFINE len == Len(s.data) + (IF s.sync THEN 1 ELSE 0) + (IF s.fin THEN 1 ELSE 0)
           seq == IF s.isack THEN s.ack ELSE 0
           ack == IF s.isack THEN 0 ELSE Plus(s.seq, len)
           nak == ~s.isack
           r == [seq |-> seq, ack |-> ack, sync |-> FALSE, isack |-> nak, fin |-> s.fin,
                 reset |-> TRUE, win |-> 0, data |-> <<>>]
<1>1. send_reset(s) = IF s.reset THEN <<>> ELSE <<r>>
  BY DEF send_reset
<1>2. len \in Int
  BY SegIs
<1> HIDE DEF len
<1>3. 0 \in Sequence /\ 0 \in Window
  BY Sizes DEF Sequence, Window
<1>4. seq \in Sequence /\ ack \in Sequence /\ nak \in BOOLEAN
  BY <1>2, <1>3, SegIs, PlusType
<1> HIDE DEF seq, ack, nak
<1>5. r \in Segs
  BY <1>3, <1>4, SegIs, EmptySeq, Sizes DEF Segs, Segments
<1> HIDE DEF r
<1> QED BY <1>1, <1>5

LEMMA AbortSound ==
    ASSUME NEW c \in Connecs
    PROVE  abort_conn(c) \in Seq(Segs)
<1>1. 0 \in Sequence /\ 0 \in Window /\ c.next \in Sequence
  BY ConnIs, Sizes DEF Sequence, Window
<1> QED BY <1>1, EmptySeq, Sizes DEF abort_conn, Segs, Segments

LEMMA ClosedSound ==
    ASSUME NEW fit, NEW R, NEW c, Sound(fit, R, c), NEW reason \in Reasons
    PROVE  Sound(fit, R, close_self(c, reason)) /\ ~Stores(close_self(c, reason))
<1> DEFINE d == close_self(c, reason)
<1>1. /\ d \in Connecs /\ d.state = "CLOSED" /\ d.reseq = <<>>
      /\ d.rnext = c.rnext /\ d.rwin = c.rwin /\ d.recvq = c.recvq
  BY CloseSound DEF Sound
<1> HIDE DEF d
<1>2. Sound(fit, R, d) /\ ~Stores(d)
  BY <1>1, EmptySeq DEF Sound, Room, Stores
<1> QED BY <1>2 DEF d

LEMMA EndedSound ==
    ASSUME NEW fit, NEW R, NEW c, Sound(fit, R, c), NEW s \in Segments(Data)
    PROVE  Sound(fit, R, Ended(c, s)) /\ SameEdge(c, Ended(c, s))
<1> DEFINE r == Raise(c, "FORCE")
           rnext == Plus(r.rnext, 1)
           next == [r EXCEPT !.rnext = rnext]
           w(d) == [d EXCEPT !.rtrn = TRUE]
           Like(d) == d \in Connecs /\ d.reseq = c.reseq /\ d.rwin = c.rwin /\ d.recvq = c.recvq
<1>1. c \in Connecs
  BY DEF Sound
<1>2. Like(r) /\ r.state = c.state /\ r \in Connecs
  BY <1>1, RaiseSound DEF Flags, Stays
<1>3. rnext \in Sequence
  BY <1>2, ConnIs, PlusType
<1> HIDE DEF rnext
<1>4. Like(next)
  BY <1>2, <1>3 DEF Connecs, CONNEC
<1>5. \A d : Like(d) => Like(w(d)) /\ w(d).state = d.state
  BY DEF Connecs, CONNEC
<1>6. ASSUME NEW st \in {"CLOSE_WAIT", "CLOSING", "TIME_WAIT"}
      PROVE  Like(Now(next, st)) /\ Now(next, st).state = st
  <2> HIDE DEF next
  <2>1. st \in States /\ next \in Connecs
    BY <1>4 DEF States
  <2>2. Now(next, st) \in Connecs /\ Stays(next, Now(next, st)) /\ Now(next, st).state = st
    BY <2>1, NowSound
  <2> QED BY <1>4, <2>2 DEF Stays
<1>7. ASSUME s.fin PROVE Like(Ended(c, s)) /\ ~Stores(Ended(c, s))
  <2>1. Ended(c, s) = Finished(r)
    BY <1>7 DEF Ended
  <2>2. \/ Finished(r) \in {Now(next, "CLOSE_WAIT"), Now(next, "CLOSING"), w(Now(next, "TIME_WAIT"))}
        \/ r.state = "TIME_WAIT" /\ Finished(r) = w(r)
        \/ ~Stores(r) /\ Finished(r) = r
    BY DEF Finished, Stores, rnext
  <2>3. Like(w(r)) /\ w(r).state = r.state
    BY <1>2, <1>5
  <2>4. Like(w(Now(next, "TIME_WAIT"))) /\ w(Now(next, "TIME_WAIT")).state = "TIME_WAIT"
    BY <1>5, <1>6
  <2> HIDE DEF r, next, w
  <2>5. CASE Finished(r) \in {Now(next, "CLOSE_WAIT"), Now(next, "CLOSING"), w(Now(next, "TIME_WAIT"))}
    BY <2>1, <2>4, <2>5, <1>6 DEF Stores
  <2>6. CASE r.state = "TIME_WAIT" /\ Finished(r) = w(r)
    BY <2>1, <2>3, <2>6 DEF Stores
  <2>7. CASE ~Stores(r) /\ Finished(r) = r
    BY <2>1, <2>7, <1>2
  <2> QED BY <2>2, <2>5, <2>6, <2>7
<1>8. CASE s.fin
  BY <1>7, <1>8 DEF Sound, Room, SameEdge
<1>9. CASE ~s.fin
  <2>1. Ended(c, s) = c
    BY <1>9 DEF Ended
  <2> QED BY <2>1 DEF SameEdge
<1> QED BY <1>8, <1>9

\* What the loop of do_arrive leaves at each turn.
Turned(fit, R, c, b) ==
    /\ Sound(fit, R, b.c) /\ b.out \in Seq(Segs)
    /\ fit /\ b.on => SameEdge(c, b.c)

LEMMA TakesSound ==
    ASSUME NEW fit, NEW R, NEW c, Sound(fit, R, c), NEW s \in Segs,
           fit /\ Stores(c) => Len(s.data) <= c.rwin
    PROVE  Turned(fit, R, c, Takes(c, s))
<1> DEFINE a == Advanced(c, s)
           listen == Now(c, "LISTEN")
           reset == Fails(close_self(c, "E_RRESET"), "E_RRESET")
           usual == Fails(c, "E_UA")
           normal == close_self(a, "E_NORMAL")
           goes == Ended(Stored(a, s), s)
<1>1. c \in Connecs /\ s \in Segments(Data)
  BY DEF Sound, Segs
<1>2. send_reset(s) \in Seq(Segs) /\ <<>> \in Seq(Segs)
  BY <1>1, ResetSound, EmptySeq
<1>3. Sound(fit, R, listen)
  BY <1>1, NowSound, SoundStays DEF States
<1>4. Sound(fit, R, reset)
  <2>1. Sound(fit, R, close_self(c, "E_RRESET"))
    BY ClosedSound DEF Reasons
  <2>2. reset \in Connecs /\ Stays(close_self(c, "E_RRESET"), reset)
    BY <2>1, FailsSound DEF Sound, Errors
  <2> QED BY <2>1, <2>2, SoundStays
<1>5. Sound(fit, R, usual)
  BY <1>1, FailsSound, SoundStays DEF Errors
<1>6. Sound(fit, R, a) /\ Stays(c, a) /\ SameEdge(c, a)
  BY <1>1, AdvancedSound
<1> HIDE DEF a
<1>7. Sound(fit, R, normal)
  BY <1>6, ClosedSound DEF Reasons
<1>8. Sound(fit, R, goes) /\ (fit => SameEdge(c, goes))
  <2> DEFINE d == Stored(a, s)
  <2>1. fit /\ Stores(a) => Len(s.data) <= a.rwin
    BY <1>6 DEF Stays, SameEdge
  <2>2. Sound(fit, R, d) /\ d.state = a.state /\ (fit /\ Stores(a) => Edge(d) = Edge(a))
    BY <1>6, <2>1, StoredSound
  <2> HIDE DEF d
  <2>3. Sound(fit, R, Ended(d, s)) /\ SameEdge(d, Ended(d, s))
    BY <1>1, <2>2, EndedSound
  <2>4. goes = Ended(d, s)
    BY DEF d
  <2>5. fit => SameEdge(c, Ended(d, s))
    BY <1>6, <2>2, <2>3 DEF SameEdge, Stores
  <2> QED BY <2>3, <2>4, <2>5
<1>9. Takes(c, s) \in {Returns(listen, <<>>), Returns(reset, <<>>), Returns(usual, send_reset(s)),
                       Returns(c, <<>>), Returns(normal, <<>>), Goes(goes)}
  <2>1. With(a, LAMBDA x : IF c.state = "LAST_ACK" /\ x.count = 0
                           THEN Returns(close_self(x, "E_NORMAL"), <<>>)
                           ELSE Goes(Ended(Stored(x, s), s)))
          \in {Returns(normal, <<>>), Goes(goes)}
    BY DEF With
  <2> QED BY <2>1, Zenon DEF Takes, a
<1> HIDE DEF listen, reset, usual, normal, goes
<1>10. \A d, out : Sound(fit, R, d) /\ out \in Seq(Segs) => Turned(fit, R, c, Returns(d, out))
  BY DEF Turned, Returns
<1>11. Turned(fit, R, c, Goes(goes))
  BY <1>2, <1>8 DEF Turned, Goes
<1> QED BY <1>2, <1>3, <1>4, <1>5, <1>7, <1>9, <1>10, <1>11

\* What waits for its turn: with fit, its FINs end before e.
Waits(fit, e) == {r \in Parked : fit => FinFits(e, r)}

LEMMA TakesKeptSound ==
    ASSUME NEW fit, NEW e, NEW b, Sound(fit, Waits(fit, e), b.c), Resumes(b),
           fit /\ Stores(b.c) => Edge(b.c) = e
    PROVE  Turned(fit, Waits(fit, e), b.c, TakesKept(b))
<1> DEFINE R == Waits(fit, e)
           s == Head(b.c.reseq)
           kept == Tail(b.c.reseq)
           rest == [b.c EXCEPT !.reseq = kept]
           t == trim_segm(rest, s)
<1>1. b.c \in Connecs /\ b.c.reseq \in Seq(R) /\ b.c.reseq # <<>> /\ Diff(b.c.rnext, s.seq) >= 0
  BY DEF Sound, Resumes
<1>2. s \in R /\ kept \in Seq(R) /\ kept \in Seq(Segments(Data))
  <2>1. s \in R /\ kept \in Seq(R)
    BY <1>1, HeadTailProperties
  <2>2. R \subseteq Segments(Data)
    BY DEF Waits, Parked, Segs
  <2> QED BY <2>1, <2>2, SeqMonotonic
<1>3. s \in Segs /\ ~s.sync /\ (fit => FinFits(e, s))
  BY <1>2 DEF Waits, Parked
<1>4. /\ rest \in Connecs /\ rest.state = b.c.state /\ rest.rnext = b.c.rnext /\ rest.rwin = b.c.rwin
      /\ rest.recvq = b.c.recvq /\ rest.reseq = kept
  BY <1>1, <1>2 DEF Connecs, CONNEC
<1>5. Sound(fit, R, rest) /\ Edge(rest) = Edge(b.c) /\ (Stores(rest) <=> Stores(b.c))
  BY <1>2, <1>4 DEF Sound, Room, Edge, Stores
<1>6. TakesKept(b) = IF Acceptable(rest, s) THEN With(t, LAMBDA x : Takes(x.c, x.out)) ELSE Goes(rest)
  BY Zenon DEF TakesKept
<1> HIDE DEF R, s, kept, rest
<1>7. Turned(fit, R, b.c, Goes(rest))
  BY <1>5, EmptySeq DEF Turned, Goes, SameEdge
<1>8. ASSUME Acceptable(rest, s) PROVE Turned(fit, R, b.c, Takes(t.c, t.out))
  <2>1. /\ t.c = rest /\ t.out \in Parked
        /\ t.out.seq = t.c.rnext
        /\ FinFits(Edge(rest), s) => Len(t.out.data) <= rest.rwin
    <3>1. (IF s.sync /\ rest.rnext = s.seq THEN [rest EXCEPT !.rnext = Plus(@, 1)] ELSE rest) = rest
      BY <1>3
    <3>2. Diff(rest.rnext, s.seq) >= 0
      BY <1>1, <1>4
    <3>3. /\ t.out \in Parked
          /\ t.c = IF rest.rwin = 0 THEN rest ELSE rest
          /\ t.out.seq = t.c.rnext
          /\ FinFits(Edge(rest), s) /\ t.out.seq = t.c.rnext => Len(t.out.data) <= t.c.rwin
      BY <1>3, <1>4, <1>8, <3>1, <3>2, TrimSound
    <3> HIDE DEF t
    <3> QED BY <3>3
  <2> HIDE DEF t
  <2>2. fit /\ Stores(t.c) => Len(t.out.data) <= t.c.rwin
    BY <1>3, <1>5, <2>1
  <2>3. Turned(fit, R, rest, Takes(t.c, t.out))
    BY <1>5, <2>1, <2>2, TakesSound DEF Parked
  <2> QED BY <1>5, <2>3 DEF Turned, SameEdge
<1>9. With(t, LAMBDA x : Takes(x.c, x.out)) = Takes(t.c, t.out)
  BY DEF With
<1>10. Turned(fit, R, b.c, TakesKept(b))
  BY <1>6, <1>7, <1>8, <1>9
<1> QED BY <1>10 DEF R

\* f[n] is what the loop of do_arrive leaves after n turns.
Turn(c, s, f, n)  == IF n = 0 THEN Takes(c, s) ELSE With(f[n - 1], LAMBDA b : IF Resumes(b) THEN TakesKept(b) ELSE b)
TurnsOf(c, s, m, f) == f = [n \in 0 .. m |-> Turn(c, s, f, n)]

LEMMA TurnsExist ==
    ASSUME NEW c, NEW s
    PROVE  \A m \in Nat : \E f : TurnsOf(c, s, m, f)
<1> DEFINE T == {m \in Nat : \E f : TurnsOf(c, s, m, f)}
<1>1. 0 \in T
  <2> DEFINE g == [n \in 0 .. 0 |-> Takes(c, s)]
  <2>1. \A n \in 0 .. 0 : Turn(c, s, g, n) = Takes(c, s)
    BY DEF Turn
  <2> HIDE DEF g
  <2>2. [n \in 0 .. 0 |-> Turn(c, s, g, n)] = [n \in 0 .. 0 |-> Takes(c, s)]
    BY <2>1
  <2>3. TurnsOf(c, s, 0, g)
    BY <2>2 DEF TurnsOf, g
  <2> QED BY <2>3
<1>2. ASSUME NEW m \in Nat, m \in T PROVE m + 1 \in T
  <2>1. PICK f : TurnsOf(c, s, m, f)
    BY <1>2
  <2> DEFINE g == [n \in 0 .. m + 1 |-> IF n <= m THEN f[n] ELSE Turn(c, s, f, n)]
  <2>2. \A n \in 0 .. m : f[n] = Turn(c, s, f, n)
    BY <2>1, Zenon DEF TurnsOf
  <2>3. ASSUME NEW n \in 0 .. m + 1 PROVE g[n] = Turn(c, s, g, n)
    <3>1. g[n] = Turn(c, s, f, n)
      BY <2>2
    <3>2. n # 0 => g[n - 1] = f[n - 1]
      OBVIOUS
    <3> HIDE DEF g
    <3>3. CASE n = 0
      BY <3>1, <3>3 DEF Turn
    <3>4. CASE n # 0
      <4>1. g[n - 1] = f[n - 1]
        BY <3>2, <3>4
      <4> QED BY <3>1, <3>4, <4>1, Zenon DEF Turn
    <3> QED BY <3>3, <3>4
  <2>4. g = [n \in 0 .. m + 1 |-> g[n]]
    OBVIOUS
  <2> HIDE DEF g
  <2>5. TurnsOf(c, s, m + 1, g)
    BY <2>3, <2>4, Zenon DEF TurnsOf
  <2>6. \E h : TurnsOf(c, s, m + 1, h)
    BY <2>5
  <2> QED BY <2>6
<1> HIDE DEF T
<1>3. \A m \in Nat : m \in T
  BY <1>1, <1>2, NatGrows
<1> QED BY <1>3 DEF T

Good(fit, o) == Sound(fit, Parked, o.c) /\ o.out \in Seq(Segs)

LEMMA InOrderSound ==
    ASSUME NEW fit, NEW c, Sound(fit, Waits(fit, Edge(c)), c), NEW s \in Segs,
           fit /\ Stores(c) => Len(s.data) <= c.rwin
    PROVE  Good(fit, InOrder(c, s))
<1> DEFINE R == Waits(fit, Edge(c))
           m == Len(c.reseq)
           g == CHOOSE f : TurnsOf(c, s, m, f)
           Inv(b) == Turned(fit, R, c, b)
<1>1. m \in Nat
  BY LenProperties DEF Sound
<1> HIDE DEF m
<1>2. TurnsOf(c, s, m, g)
  BY <1>1, TurnsExist
<1>3. InOrder(c, s) = With(g[m], LAMBDA b : IF b.on THEN do_output(b.c) ELSE Outcome(b.c, b.out))
  BY Zenon DEF InOrder, TurnsOf, Turn, m
<1> HIDE DEF g
<1>4. \A n \in 0 .. m : g[n] = Turn(c, s, g, n)
  BY <1>2, Zenon DEF TurnsOf
<1> DEFINE T == {n \in Nat : n <= m => Inv(g[n])}
<1>5. 0 \in T
  <2>1. 0 \in 0 .. m
    BY <1>1
  <2>2. g[0] = Turn(c, s, g, 0)
    BY <1>4, <2>1
  <2>3. g[0] = Takes(c, s)
    BY <2>2 DEF Turn
  <2> QED BY <2>3, TakesSound
<1>6. ASSUME NEW n \in Nat, n \in T PROVE n + 1 \in T
  <2> SUFFICES ASSUME n + 1 <= m PROVE Inv(g[n + 1])
    OBVIOUS
  <2>1. n + 1 \in 0 .. m /\ n + 1 # 0 /\ n + 1 - 1 = n
    BY <1>1
  <2>2. PICK k : k = n + 1
    OBVIOUS
  <2>3. g[k] = Turn(c, s, g, k) /\ k # 0 /\ k - 1 = n
    BY <1>4, <2>1, <2>2
  <2>4. g[k] = IF Resumes(g[n]) THEN TakesKept(g[n]) ELSE g[n]
    BY <2>3 DEF Turn, With
  <2>5. Inv(g[n])
    BY <1>1, <1>6
  <2>6. ASSUME Resumes(g[n]) PROVE Inv(TakesKept(g[n]))
    <3>1. g[n].on
      BY <2>6 DEF Resumes
    <3>2. Sound(fit, R, g[n].c) /\ (fit => SameEdge(c, g[n].c))
      BY <2>5, <3>1 DEF Turned
    <3>3. fit /\ Stores(g[n].c) => Edge(g[n].c) = Edge(c)
      BY <3>2 DEF SameEdge
    <3>4. Turned(fit, R, g[n].c, TakesKept(g[n]))
      BY <2>6, <3>2, <3>3, TakesKeptSound
    <3> QED BY <3>2, <3>4 DEF Turned, SameEdge
  <2> QED BY <2>2, <2>4, <2>5, <2>6, Zenon
<1> HIDE DEF T
<1>7. \A n \in Nat : n \in T
  BY <1>5, <1>6, NatGrows
<1>8. Sound(fit, R, g[m].c) /\ g[m].out \in Seq(Segs)
  BY <1>1, <1>7 DEF T, Turned
<1>9. Sound(fit, Parked, g[m].c)
  <2>1. R \subseteq Parked
    BY DEF Waits
  <2> QED BY <1>8, <2>1, SeqMonotonic DEF Sound
<1>10. Outputs(g[m].c, do_output(g[m].c))
  BY <1>8, OutputSound DEF Sound
<1>11. Good(fit, do_output(g[m].c))
  BY <1>9, <1>10, SoundStays DEF Good, Outputs
<1>12. Good(fit, Outcome(g[m].c, g[m].out))
  BY <1>8, <1>9 DEF Good, Outcome
<1>13. InOrder(c, s) \in {do_output(g[m].c), Outcome(g[m].c, g[m].out)}
  BY <1>3 DEF With
<1> QED BY <1>11, <1>12, <1>13

(***************************************************************************)
(* What arrives                                                            *)
(***************************************************************************)
LEMMA AddSound ==
    ASSUME NEW fit, NEW c, Sound(fit, Parked, c), NEW s \in Parked
    PROVE  Sound(fit, Parked, add_resequ(c, s))
<1> DEFINE I == {i \in 1 .. Len(c.reseq) : Diff(s.seq, c.reseq[i].seq) < 0}
           i == IF I # {} THEN Min(I) ELSE 0
           front == SubSeq(c.reseq, 1, i - 1)
           back == SubSeq(c.reseq, i, Len(c.reseq))
           reseq == IF i = 0 THEN Append(c.reseq, s) ELSE front \o <<s>> \o back
           d == [c EXCEPT !.reseq = reseq]
<1>1. add_resequ(c, s) = d
  BY DEF add_resequ, SelectInSeq, InsertAt
<1>2. c \in Connecs /\ c.reseq \in Seq(Parked) /\ Len(c.reseq) \in Nat
  BY LenProperties DEF Sound
<1>3. i \in 0 .. Len(c.reseq)
  <2>1. I \subseteq Nat
    OBVIOUS
  <2>2. I # {} => Min(I) \in I
    BY <2>1, MinIsLeast
  <2> QED BY <1>2, <2>2
<1> HIDE DEF i
<1>4. reseq \in Seq(Parked)
  <2>1. Append(c.reseq, s) \in Seq(Parked)
    BY <1>2, AppendProperties
  <2>2. ASSUME i # 0 PROVE front \o <<s>> \o back \in Seq(Parked)
    <3>1. front \in Seq(Parked)
      <4>1. i - 1 \in Int /\ i - 1 <= Len(c.reseq)
        BY <1>2, <1>3
      <4> QED BY <1>2, <4>1, FrontOfSeq
    <3>2. back \in Seq(Parked)
      <4>1. i - 1 \in Nat /\ i - 1 + 1 = i
        BY <1>3, <2>2
      <4>2. SubSeq(c.reseq, i - 1 + 1, Len(c.reseq)) \in Seq(Parked)
        BY <1>2, <4>1, RestOfSeq
      <4> QED BY <4>1, <4>2
    <3>3. <<s>> \in Seq(Parked)
      OBVIOUS
    <3> HIDE DEF front, back
    <3>4. front \o <<s>> \in Seq(Parked)
      BY <3>1, <3>3, ConcatProperties
    <3> QED BY <3>2, <3>4, ConcatProperties
  <2> QED BY <2>1, <2>2
<1> HIDE DEF reseq
<1>5. reseq \in Seq(Segments(Data))
  <2>1. Parked \subseteq Segments(Data)
    BY DEF Parked, Segs
  <2> QED BY <1>4, <2>1, SeqMonotonic
<1>6. d \in Connecs /\ d.reseq = reseq /\ d.rwin = c.rwin /\ d.recvq = c.recvq
  BY <1>2, <1>5 DEF Connecs, CONNEC
<1> QED BY <1>1, <1>4, <1>6 DEF Sound, Room

LEMMA WaitsHeld ==
    ASSUME NEW fit, NEW e, NEW c, Sound(fit, Waits(fit, e), c)
    PROVE  Sound(fit, Parked, c)
<1>1. Waits(fit, e) \subseteq Parked
  BY DEF Waits
<1> QED BY <1>1, SeqMonotonic DEF Sound

LEMMA OutputGood ==
    ASSUME NEW fit, NEW c, Sound(fit, Parked, c)
    PROVE  Good(fit, do_output(c)) /\ do_output(c).c.state = c.state
<1>1. Outputs(c, do_output(c))
  BY OutputSound DEF Sound
<1> QED BY <1>1, SoundStays DEF Good, Outputs

LEMMA RaiseGood ==
    ASSUME NEW fit, NEW R, NEW c, Sound(fit, R, c), NEW f \in Flags
    PROVE  Sound(fit, R, Raise(c, f)) /\ Raise(c, f).state = c.state
<1>1. Raise(c, f) \in Connecs /\ Stays(c, Raise(c, f)) /\ Raise(c, f).state = c.state
  BY RaiseSound DEF Sound
<1> QED BY <1>1, SoundStays

LEMMA FailsGood ==
    ASSUME NEW fit, NEW R, NEW c, Sound(fit, R, c), NEW error \in Errors
    PROVE  Sound(fit, R, Fails(c, error))
<1>1. Fails(c, error) \in Connecs /\ Stays(c, Fails(c, error))
  BY FailsSound DEF Sound
<1> QED BY <1>1, SoundStays

LEMMA TrimmedSound ==
    ASSUME NEW fit, NEW c, Sound(fit, Waits(fit, Edge(c)), c), NEW s \in Parked,
           fit /\ s.seq = c.rnext => Len(s.data) <= c.rwin
    PROVE  Good(fit, Trimmed(c, s))
<1> DEFINE t == Fails(close_self(c, "E_CNTIMEOUT"), "E_CNTIMEOUT")
<1>1. Sound(fit, Parked, c) /\ c \in Connecs
  BY WaitsHeld DEF Sound
<1>2. Sound(fit, Parked, t)
  <2>1. Sound(fit, Parked, close_self(c, "E_CNTIMEOUT"))
    BY <1>1, ClosedSound DEF Reasons
  <2> QED BY <2>1, FailsGood DEF Errors
<1>3. abort_conn(c) \in Seq(Segs) /\ <<>> \in Seq(Segs)
  BY <1>1, AbortSound, EmptySeq
<1>4. Sound(fit, Parked, add_resequ(c, s))
  BY <1>1, AddSound
<1>5. ASSUME ~(s.seq # c.rnext /\ (s.data # <<>> \/ s.fin)) PROVE Good(fit, InOrder(c, s))
  <2>1. s \in Segs /\ s.data \in Seq(Data) /\ c.rwin \in Nat
    BY <1>1, SegIs, ConnIs, Sizes DEF Parked, Segs, Window
  <2>2. s.data = <<>> => Len(s.data) = 0
    OBVIOUS
  <2>3. fit /\ Stores(c) => Len(s.data) <= c.rwin
    BY <1>5, <2>1, <2>2
  <2> QED BY <2>1, <2>3, InOrderSound
<1>6. \/ Trimmed(c, s) \in {Outcome(t, abort_conn(c)), Outcome(t, <<>>), Outcome(add_resequ(c, s), <<>>)}
      \/ ~(s.seq # c.rnext /\ (s.data # <<>> \/ s.fin)) /\ Trimmed(c, s) = InOrder(c, s)
  BY Zenon DEF Trimmed
<1> HIDE DEF t
<1>7. \A d, out : Sound(fit, Parked, d) /\ out \in Seq(Segs) => Good(fit, Outcome(d, out))
  BY DEF Good, Outcome
<1> QED BY <1>2, <1>3, <1>4, <1>5, <1>6, <1>7

\* The window as c would have it once the SYN of s is counted.
Counts(c, s) == IF s.sync /\ c.rnext = s.seq THEN [c EXCEPT !.rnext = Plus(@, 1)] ELSE c

LEMMA CheckedSound ==
    ASSUME NEW fit, NEW c, Sound(fit, Parked, c), NEW s \in Segs,
           fit => FinFits(Edge(Counts(c, s)), s) /\ c.reseq \in Seq(Waits(fit, Edge(Counts(c, s))))
    PROVE  Good(fit, Checked(c, s))
<1> DEFINE t == trim_segm(c, s)
           r == Raise(c, "FORCE")
<1>1. c \in Connecs
  BY DEF Sound
<1>2. Good(fit, Outcome(c, <<>>))
  BY EmptySeq DEF Good, Outcome
<1>3. Good(fit, do_output(r))
  BY RaiseGood, OutputGood DEF Flags
<1>4. ASSUME Acceptable(c, s) PROVE Good(fit, Trimmed(t.c, t.out))
  <2> DEFINE e == Counts(c, s)
  <2>1. /\ t.c \in Connecs /\ t.out \in Parked
        /\ t.c.rwin = c.rwin /\ t.c.recvq = c.recvq /\ t.c.reseq = c.reseq
        /\ t.c = IF c.rwin = 0 THEN c ELSE e
        /\ c.rwin = 0 => t.out = s
        /\ FinFits(Edge(e), s) /\ t.out.seq = t.c.rnext => Len(t.out.data) <= t.c.rwin
    BY <1>1, <1>4, TrimSound DEF Counts
  <2>2. t.c = e
    <3>1. c.rwin = 0 => ~s.sync
      BY <2>1 DEF Parked
    <3> QED BY <2>1, <3>1 DEF Counts
  <2> HIDE DEF t, e
  <2>3. Sound(fit, Parked, t.c)
    BY <2>1 DEF Sound, Room
  <2>4. Sound(fit, Waits(fit, Edge(t.c)), t.c)
    <3>1. CASE fit
      BY <2>1, <2>2, <2>3, <3>1 DEF Sound, e
    <3>2. CASE ~fit
      <4>1. Waits(fit, Edge(t.c)) = Parked
        BY <3>2 DEF Waits
      <4> QED BY <2>3, <4>1
    <3> QED BY <3>1, <3>2
  <2> QED BY <2>1, <2>4, TrimmedSound DEF e
<1>5. With(t, LAMBDA x : Trimmed(x.c, x.out)) = Trimmed(t.c, t.out)
  BY DEF With
<1>6. Checked(c, s) \in {Outcome(c, <<>>), do_output(r)}
        \/ (Acceptable(c, s) /\ Checked(c, s) = With(t, LAMBDA x : Trimmed(x.c, x.out)))
  BY Zenon DEF Checked
<1> HIDE DEF t, r
<1> QED BY <1>2, <1>3, <1>4, <1>5, <1>6

\* What FinsFit says of a segment that arrives, and of those that wait.
Fitted(c, s) ==
    /\ FinFits(Edge(Meets(c, s)), s)
    /\ \A i \in 1 .. Len(c.reseq) :
         LET r == c.reseq[i]
         IN  r.fin /\ r.data # <<>> => ~Starts(c) /\ Diff(EndOf(r), Edge(c)) \in -WINS .. 0

LEMMA EndType ==
    ASSUME NEW s \in Segs
    PROVE  EndOf(s) \in Sequence
<1> DEFINE b == IF s.sync THEN Plus(s.seq, 1) ELSE s.seq
<1>1. s \in Segments(Data) /\ Len(s.data) \in Int
  BY SegIs DEF Segs
<1>2. b \in Sequence
  BY <1>1, SegIs, PlusType
<1> HIDE DEF b
<1>3. Plus(b, Len(s.data)) \in Sequence
  BY <1>1, <1>2, PlusType
<1> QED BY <1>3 DEF EndOf, b

LEMMA WaitsFit ==
    ASSUME NEW fit, NEW c, Sound(fit, Parked, c), NEW s \in Segs, fit => Fitted(c, s),
           NEW d, ~Starts(c) => d = c
    PROVE  fit => c.reseq \in Seq(Waits(fit, Edge(Counts(d, s))))
<1> SUFFICES ASSUME fit PROVE c.reseq \in Seq(Waits(fit, Edge(Counts(d, s))))
  OBVIOUS
<1> DEFINE e == Edge(Counts(d, s))
<1>1. c \in Connecs /\ c.reseq \in Seq(Parked) /\ Len(c.reseq) \in Nat /\ c.rnext \in Sequence /\ c.rwin \in 0 .. WINS - 1
  BY ConnIs, LenProperties DEF Sound, Window
<1>2. ASSUME NEW i \in 1 .. Len(c.reseq) PROVE c.reseq[i] \in Waits(fit, e)
  <2> DEFINE r == c.reseq[i]
  <2>1. r \in Parked /\ r \in Segs
    <3>1. r \in Parked
      BY <1>1, ElementOfSeq
    <3> QED BY <3>1 DEF Parked
  <2>2. r.fin /\ r.data # <<>> => ~Starts(c) /\ Diff(EndOf(r), Edge(c)) \in -WINS .. 0
    BY DEF Fitted
  <2> HIDE DEF r
  <2>3. ASSUME r.fin, r.data # <<>> PROVE Diff(EndOf(r), e) <= 0
    <3>1. d = c /\ Diff(EndOf(r), Edge(c)) \in -WINS .. 0
      BY <2>2, <2>3
    <3>2. CASE Counts(c, s) = c
      BY <3>1, <3>2, Sizes DEF e
    <3>3. CASE Counts(c, s) = [c EXCEPT !.rnext = Plus(@, 1)]
      <4>1. Edge(Counts(c, s)) = Plus(Plus(c.rnext, 1), c.rwin)
        BY <1>1, <3>3 DEF Edge, Connecs, CONNEC
      <4>2. Plus(Plus(c.rnext, 1), c.rwin) = Plus(Plus(c.rnext, c.rwin), 1)
        <5>1. PICK w : w = c.rwin
          OBVIOUS
        <5>2. w \in 0 .. WINS + WINS /\ 1 \in 0 .. WINS + WINS /\ 1 + w = w + 1
          BY <1>1, <5>1, Sizes
        <5>3. Plus(Plus(c.rnext, 1), w) = Plus(c.rnext, 1 + w)
          BY <1>1, <5>2, PlusPlus
        <5>4. Plus(Plus(c.rnext, w), 1) = Plus(c.rnext, w + 1)
          BY <1>1, <5>2, PlusPlus
        <5> QED BY <5>1, <5>2, <5>3, <5>4
      <4>3. Edge(c) \in Sequence /\ EndOf(r) \in Sequence
        BY <1>1, <2>1, EndType, PlusType, Sizes DEF Edge
      <4>4. Diff(EndOf(r), Plus(Edge(c), 1)) <= 0
        BY <3>1, <4>3, DiffStep
      <4>5. e = Plus(Edge(c), 1)
        BY <3>1, <4>1, <4>2 DEF e, Edge
      <4> QED BY <4>4, <4>5
    <3>4. Counts(c, s) = c \/ Counts(c, s) = [c EXCEPT !.rnext = Plus(@, 1)]
      BY DEF Counts
    <3> QED BY <3>2, <3>3, <3>4
  <2> HIDE DEF e
  <2>4. r \in Waits(fit, e)
    BY <2>1, <2>3 DEF Waits, FinFits
  <2> QED BY <2>4 DEF r
<1> HIDE DEF e
<1>3. c.reseq = [i \in 1 .. Len(c.reseq) |-> c.reseq[i]]
  BY <1>1, LenProperties
<1>4. c.reseq \in Seq(Waits(fit, e))
  <2>1. PICK n \in Nat : n = Len(c.reseq)
    BY <1>1
  <2>2. c.reseq \in [1 .. n -> Waits(fit, e)]
    BY <1>2, <1>3, <2>1
  <2> QED BY <2>2, SeqDef
<1> QED BY <1>4 DEF e

\* From c to d, which is told by s where the peer's numbers begin.
Begins(c, d, s) == /\ d \in Connecs /\ d.rnext = s.seq /\ d.rwin = c.rwin
                   /\ d.recvq = c.recvq /\ d.reseq = c.reseq

LEMMA SynchronizedSound ==
    ASSUME NEW fit, NEW c, Sound(fit, Parked, c), Starts(c), NEW s \in Segs, fit => Fitted(c, s),
           NEW d, Begins(c, d, s)
    PROVE  Good(fit, Synchronized(d, s))
<1> DEFINE n == Plus(d.rnext, 1)
           next == [d EXCEPT !.rnext = n]
<1>1. Sound(fit, Parked, d) /\ d \in Connecs
  BY DEF Sound, Begins, Room
<1>2. Good(fit, do_output(next))
  <2>1. n \in Sequence
    BY <1>1, ConnIs, PlusType
  <2> HIDE DEF n
  <2>2. next \in Connecs /\ next.rwin = d.rwin /\ next.recvq = d.recvq /\ next.reseq = d.reseq
    BY <1>1, <2>1 DEF Connecs, CONNEC
  <2>3. Sound(fit, Parked, next)
    BY <1>1, <2>2 DEF Sound, Room
  <2> QED BY <2>3, OutputGood
<1>3. Good(fit, Checked(d, s))
  <2>1. fit => d.reseq \in Seq(Waits(fit, Edge(Counts(d, s))))
    BY WaitsFit DEF Begins
  <2>2. Edge(Counts(d, s)) = Edge(Meets(c, s))
    <3>1. c \in Connecs
      BY DEF Sound
    <3> QED BY <1>1, <3>1 DEF Begins, Counts, Meets, Edge, Connecs, CONNEC
  <2>3. fit => FinFits(Edge(Counts(d, s)), s)
    BY <2>2 DEF Fitted
  <2> QED BY <1>1, <2>1, <2>3, CheckedSound
<1>4. With(d, LAMBDA x : Checked(x, s)) = Checked(d, s)
  BY DEF With
<1>5. Synchronized(d, s) \in {With(d, LAMBDA x : Checked(x, s)), do_output(next)}
  BY Zenon DEF Synchronized
<1> HIDE DEF next
<1> QED BY <1>2, <1>3, <1>4, <1>5

LEMMA OutcomeGood ==
    ASSUME NEW fit, NEW c, Sound(fit, Parked, c), NEW out \in Seq(Segs)
    PROVE  Good(fit, Outcome(c, out))
BY DEF Good, Outcome

LEMMA BeginsStays ==
    ASSUME NEW c, NEW d, NEW e \in Connecs, NEW s, Begins(c, d, s), Stays(d, e)
    PROVE  Begins(c, e, s)
BY DEF Begins, Stays

LEMMA ListensSound ==
    ASSUME NEW fit, NEW c, Sound(fit, Parked, c), Starts(c), NEW s \in Segs, fit => Fitted(c, s),
           NEW ini \in Sequence
    PROVE  Good(fit, Listens(c, s, ini))
<1> DEFINE p == process_sync(c, s)
           q == send_sync(p, ini)
           d == Now(q, "SYN_RECV")
<1>1. c \in Connecs /\ s \in Segments(Data)
  BY DEF Sound, Segs
<1>2. Begins(c, p, s)
  BY <1>1, ProcessSound DEF Begins
<1> HIDE DEF p
<1>3. Begins(c, q, s)
  <2>1. p \in Connecs
    BY <1>2 DEF Begins
  <2>2. q \in Connecs /\ Stays(p, q)
    BY <2>1, SyncSound
  <2> QED BY <1>2, <2>2, BeginsStays
<1> HIDE DEF q
<1>4. Begins(c, d, s)
  <2>1. q \in Connecs /\ "SYN_RECV" \in States
    BY <1>3 DEF Begins, States
  <2>2. d \in Connecs /\ Stays(q, d)
    BY <2>1, NowSound
  <2> QED BY <1>3, <2>2, BeginsStays
<1> HIDE DEF d
<1>5. Good(fit, Synchronized(d, s))
  BY <1>4, SynchronizedSound
<1>6. Good(fit, Outcome(c, <<>>)) /\ Good(fit, Outcome(c, send_reset(s)))
  BY <1>1, EmptySeq, ResetSound, OutcomeGood
<1>7. Listens(c, s, ini) \in {Outcome(c, <<>>), Outcome(c, send_reset(s)), Synchronized(d, s)}
  BY Zenon DEF Listens, p, q, d
<1> QED BY <1>5, <1>6, <1>7

LEMMA ConnectsSound ==
    ASSUME NEW fit, NEW c, Sound(fit, Parked, c), Starts(c), NEW s \in Segs, fit => Fitted(c, s)
    PROVE  Good(fit, Connects(c, s))
<1> DEFINE p == process_sync(c, s)
           u == update_wind(p, s)
           declined == Fails(close_self(c, "E_RRESET"), "E_REFUSE")
           usual == Fails(c, "E_UA")
<1>1. c \in Connecs /\ s \in Segments(Data)
  BY DEF Sound, Segs
<1>2. Begins(c, p, s) /\ p \in Connecs
  BY <1>1, ProcessSound DEF Begins
<1> HIDE DEF p
<1>3. Begins(c, u, s) /\ u \in Connecs
  <2>1. u \in Connecs /\ Stays(p, u)
    BY <1>1, <1>2, UpdateSound DEF Sends
  <2> QED BY <1>2, <2>1, BeginsStays
<1> HIDE DEF u
<1>4. \A d : Begins(c, d, s) => Begins(c, Now(d, "ESTABLISH"), s) /\ Begins(c, Now(d, "SYN_RECV"), s)
  <2> SUFFICES ASSUME NEW d, Begins(c, d, s), NEW st \in {"ESTABLISH", "SYN_RECV"}
               PROVE  Begins(c, Now(d, st), s)
    OBVIOUS
  <2>1. d \in Connecs /\ st \in States
    BY DEF Begins, States
  <2>2. Now(d, st) \in Connecs /\ Stays(d, Now(d, st))
    BY <2>1, NowSound
  <2> QED BY <2>2, BeginsStays
<1>5. Good(fit, Synchronized(Now(u, "ESTABLISH"), s)) /\ Good(fit, Synchronized(Now(p, "SYN_RECV"), s))
  BY <1>2, <1>3, <1>4, SynchronizedSound
<1>6. Sound(fit, Parked, declined) /\ Sound(fit, Parked, usual)
  <2>1. Sound(fit, Parked, close_self(c, "E_RRESET"))
    BY ClosedSound DEF Reasons
  <2> QED BY <2>1, FailsGood DEF Errors
<1> HIDE DEF declined, usual
<1>7. Good(fit, Outcome(declined, <<>>)) /\ Good(fit, Outcome(c, <<>>)) /\ Good(fit, Outcome(usual, send_reset(s)))
  BY <1>1, <1>6, EmptySeq, ResetSound, OutcomeGood
<1>8. Connects(c, s) \in {Outcome(usual, send_reset(s)), Outcome(declined, <<>>), Outcome(c, <<>>),
                          Synchronized(Now(u, "ESTABLISH"), s), Synchronized(Now(p, "SYN_RECV"), s)}
  BY Zenon DEF Connects, p, u, declined, usual
<1> QED BY <1>5, <1>7, <1>8

LEMMA ArriveSound ==
    ASSUME NEW fit, NEW c, Sound(fit, Parked, c), NEW s \in Segs, fit => Fitted(c, s), NEW ini \in Sequence
    PROVE  Good(fit, do_arrive(c, s, ini))
<1>1. c \in Connecs /\ s \in Segments(Data)
  BY DEF Sound, Segs
<1>2. CASE c.state = "CLOSED"
  <2>1. Sound(fit, Parked, Fails(c, "E_UA"))
    BY FailsGood DEF Errors
  <2>2. Good(fit, Outcome(Fails(c, "E_UA"), send_reset(s)))
    BY <1>1, <2>1, ResetSound, OutcomeGood
  <2> QED BY <1>2, <2>2 DEF do_arrive
<1>3. CASE c.state = "LISTEN"
  <2>1. Good(fit, Listens(c, s, ini))
    BY <1>3, ListensSound DEF Starts
  <2>2. do_arrive(c, s, ini) = Listens(c, s, ini)
    BY <1>3 DEF do_arrive
  <2> QED BY <2>1, <2>2
<1>4. CASE c.state = "SYN_SENT"
  <2>1. Good(fit, Connects(c, s))
    BY <1>4, ConnectsSound DEF Starts
  <2>2. do_arrive(c, s, ini) = Connects(c, s)
    BY <1>4 DEF do_arrive
  <2> QED BY <2>1, <2>2
<1>5. CASE c.state \notin {"CLOSED", "LISTEN", "SYN_SENT"}
  <2>1. do_arrive(c, s, ini) = Checked(c, s)
    BY <1>5 DEF do_arrive
  <2>2. ~Starts(c)
    BY <1>5 DEF Starts
  <2>3. Meets(c, s) = Counts(c, s)
    BY <2>2 DEF Meets, Counts
  <2>4. fit => FinFits(Edge(Counts(c, s)), s)
    BY <2>3 DEF Fitted
  <2>5. fit => c.reseq \in Seq(Waits(fit, Edge(Counts(c, s))))
    BY WaitsFit
  <2>6. Good(fit, Checked(c, s))
    BY <2>4, <2>5, CheckedSound
  <2> QED BY <2>1, <2>6
<1> QED BY <1>2, <1>3, <1>4, <1>5

(***************************************************************************)
(* The calls and the timers                                                *)
(***************************************************************************)
LEMMA ReceiveSound ==
    ASSUME NEW fit, NEW c, Sound(fit, Parked, c), NEW n \in 1 .. Len(c.recvq)
    PROVE  Good(fit, receive(c, n))
<1> DEFINE recvq == SubSeq(c.recvq, n + 1, Len(c.recvq))
           rwin == (c.rwin + n) % WINS
           r == [c EXCEPT !.recvq = recvq, !.rwin = rwin]
<1>1. /\ c \in Connecs /\ c.recvq \in Seq(Data) /\ Len(c.recvq) \in Nat /\ c.rwin \in 0 .. WINS - 1
      /\ n \in Nat /\ n <= Len(c.recvq) /\ WINS \in Nat \ {0} /\ RCV_WINDOW \in 1 .. WINS - 1
  BY ConnIs, LenProperties, Sizes DEF Sound, Window
<1>2. recvq \in Seq(Data) /\ Len(recvq) = Len(c.recvq) - n
  BY <1>1, RestOfSeq
<1>3. rwin \in Window /\ (fit => rwin = c.rwin + n)
  <2>1. PICK x \in Int : x = c.rwin + n
    BY <1>1
  <2>2. PICK y : y = x % WINS
    OBVIOUS
  <2>3. y \in 0 .. WINS - 1
    BY <1>1, <2>2, RestIs
  <2>4. ASSUME fit PROVE y = x
    <3>1. c.rwin + Len(c.recvq) = RCV_WINDOW
      BY <2>4 DEF Sound, Room
    <3>2. 0 <= x /\ x < WINS /\ -WINS <= x /\ x < WINS + WINS
      BY <1>1, <2>1, <3>1
    <3>3. y \in {x - WINS, x, x + WINS}
      BY <1>1, <2>2, <3>2, RestSmall
    <3> QED BY <1>1, <2>3, <3>2, <3>3
  <2>5. rwin = y
    BY <2>1, <2>2
  <2> QED BY <2>1, <2>3, <2>4, <2>5 DEF Window
<1> HIDE DEF recvq, rwin
<1>4. r \in Connecs /\ r.reseq = c.reseq /\ r.recvq = recvq /\ r.rwin = rwin
  BY <1>1, <1>2, <1>3 DEF Connecs, CONNEC
<1>5. receive(c, n) \in {do_output(Raise(r, "FORCE")), Outcome(r, <<>>)}
  BY DEF receive, recvq, rwin
<1> HIDE DEF r
<1>6. Sound(fit, Parked, r)
  <2>1. ASSUME fit PROVE r.rwin + Len(r.recvq) = RCV_WINDOW
    <3>1. c.rwin + Len(c.recvq) = RCV_WINDOW
      BY <2>1 DEF Sound, Room
    <3>2. r.rwin = c.rwin + n /\ Len(r.recvq) = Len(c.recvq) - n
      BY <1>2, <1>3, <1>4, <2>1
    <3>3. PICK a \in Int, b \in Int : a = c.rwin /\ b = Len(c.recvq)
      BY <1>1
    <3>4. (a + n) + (b - n) = a + b
      BY <1>1
    <3> QED BY <3>1, <3>2, <3>3, <3>4
  <2> QED BY <1>4, <2>1 DEF Sound, Room
<1>7. Good(fit, do_output(Raise(r, "FORCE"))) /\ Good(fit, Outcome(r, <<>>))
  BY <1>6, RaiseGood, OutputGood, OutcomeGood, EmptySeq DEF Flags
<1> QED BY <1>5, <1>7

\* A change of what is sent.
LEMMA SendsGood ==
    ASSUME NEW fit, NEW c, Sound(fit, Parked, c), NEW d \in Connecs, Stays(c, d)
    PROVE  Good(fit, do_output(d))
BY SoundStays, OutputGood

LEMMA SendSound ==
    ASSUME NEW fit, NEW c, Sound(fit, Parked, c), NEW data \in Seq(Data)
    PROVE  Good(fit, TCP_send(c, data))
<1> DEFINE sendq == c.sendq \o data
           count == c.count + Len(data)
           d == [c EXCEPT !.sendq = sendq, !.count = count]
<1>1. c \in Connecs
  BY DEF Sound
<1>2. sendq \in Seq(Data) /\ count \in Int
  BY <1>1, ConnIs, ConcatProperties, LenProperties
<1>3. TCP_send(c, data) = do_output(d)
  BY DEF TCP_send
<1> HIDE DEF sendq, count
<1>4. d \in Connecs /\ Stays(c, d)
  BY <1>1, <1>2 DEF Connecs, CONNEC, Stays
<1> QED BY <1>3, <1>4, SendsGood

LEMMA RetransmitSound ==
    ASSUME NEW fit, NEW c, Sound(fit, Parked, c)
    PROVE  Good(fit, Retransmit(c))
<1>1. c \in Connecs /\ c.unack \in Sequence
  BY ConnIs DEF Sound
<1>2. /\ [c EXCEPT !.rtrn = FALSE, !.ptr = c.unack] \in Connecs
      /\ Stays(c, [c EXCEPT !.rtrn = FALSE, !.ptr = c.unack])
  BY <1>1 DEF Connecs, CONNEC, Stays
<1> QED BY <1>2, SendsGood DEF Retransmit

LEMMA KickSound ==
    ASSUME NEW fit, NEW c, Sound(fit, Parked, c)
    PROVE  Good(fit, CNkick(c))
<1> DEFINE d == [c EXCEPT !.rtrn = FALSE]
<1>1. d \in Connecs /\ Stays(c, d)
  BY DEF Connecs, CONNEC, Stays, Sound
<1> HIDE DEF d
<1>2. Sound(fit, Parked, Raise(d, "FORCE"))
  BY <1>1, SoundStays, RaiseGood DEF Flags
<1>3. Good(fit, do_output(Raise(d, "FORCE")))
  BY <1>2, OutputGood
<1> QED BY <1>3 DEF CNkick, d

LEMMA BlankSound ==
    ASSUME NEW fit
    PROVE  /\ Sound(fit, Parked, Blank) /\ Blank \in Connecs
           /\ \A told \in Results : Sound(fit, Parked, [Blank EXCEPT !.told = told])
<1>1. 0 \in Sequence /\ 0 \in Window /\ RCV_WINDOW \in Window /\ RCV_WINDOW + 0 = RCV_WINDOW
  BY Sizes DEF Sequence, Window
<1>2. Blank \in Connecs
  BY <1>1, EmptySeq DEF Connecs, CONNEC, Blank, States
<1>3. Blank.reseq = <<>> /\ Blank.recvq = <<>> /\ Blank.rwin = RCV_WINDOW
  BY DEF Blank
<1>4. <<>> \in Seq(Parked) /\ RCV_WINDOW + Len(<<>>) = RCV_WINDOW
  BY <1>1, EmptySeq
<1>5. ASSUME NEW told \in Results PROVE Sound(fit, Parked, [Blank EXCEPT !.told = told])
  <2> DEFINE d == [Blank EXCEPT !.told = told]
  <2>1. d \in Connecs /\ Stays(Blank, d)
    BY <1>2 DEF Connecs, CONNEC, Stays, Results
  <2> HIDE DEF d
  <2>2. Sound(fit, Parked, d)
    BY <1>3, <1>4, <2>1 DEF Sound, Stays, Room
  <2> QED BY <2>2 DEF d
<1> QED BY <1>2, <1>3, <1>4, <1>5 DEF Sound, Room

LEMMA DestroySound ==
    ASSUME NEW fit, NEW c \in Connecs
    PROVE  Sound(fit, Parked, destroy_conn(c))
<1>1. c.told \in Results
  BY DEF Connecs, CONNEC, Results
<1>2. destroy_conn(c) = [Blank EXCEPT !.told = c.told]
  BY DEF destroy_conn
<1> QED BY <1>1, <1>2, BlankSound

\* Neither what is told nor whether anything is told matters to the rest.
LEMMA ToldSound ==
    ASSUME NEW fit, NEW c, Sound(fit, Parked, c), NEW told \in Results, NEW result \in BOOLEAN
    PROVE  /\ Sound(fit, Parked, [c EXCEPT !.told = told])
           /\ Sound(fit, Parked, [c EXCEPT !.result = result])
           /\ Sound(fit, Parked, [c EXCEPT !.told = told, !.result = result])
           /\ Sound(fit, Parked, [c EXCEPT !.result = result, !.told = told])
<1>1. [c EXCEPT !.told = told] \in Connecs /\ Stays(c, [c EXCEPT !.told = told])
  BY DEF Sound, Connecs, CONNEC, Results, Stays
<1>2. [c EXCEPT !.result = result] \in Connecs /\ Stays(c, [c EXCEPT !.result = result])
  BY DEF Sound, Connecs, CONNEC, Stays
<1> DEFINE d == [c EXCEPT !.told = told, !.result = result]
<1>3. d \in Connecs /\ Stays(c, d) /\ d = [c EXCEPT !.result = result, !.told = told]
  BY DEF Sound, Connecs, CONNEC, Results, Stays
<1> QED BY <1>1, <1>2, <1>3, SoundStays

LEMMA AtEndSound ==
    ASSUME NEW fit, NEW c, Sound(fit, Parked, c)
    PROVE  Sound(fit, Parked, AtEnd(c))
<1> DEFINE t == Told(c)
           e == close_self(t, "E_CNTIMEOUT")
<1>1. Sound(fit, Parked, t)
  BY ToldSound DEF Told, Results
<1>2. c \in Connecs /\ t \in Connecs
  BY <1>1 DEF Sound
<1> HIDE DEF t
<1>3. e \in Connecs
  BY <1>2, CloseSound DEF Reasons
<1>4. Sound(fit, Parked, destroy_conn(c)) /\ Sound(fit, Parked, destroy_conn(e))
  BY <1>2, <1>3, DestroySound
<1>5. AtEnd(c) \in {c, t, destroy_conn(c), destroy_conn(e)}
  BY Zenon DEF AtEnd, t
<1> QED BY <1>1, <1>4, <1>5

LEMMA WorksOnSound ==
    ASSUME NEW fit, NEW o, Good(fit, o)
    PROVE  Good(fit, WorksOn(o))
<1> DEFINE c == o.c
<1>1. Sound(fit, Parked, c) /\ o.out \in Seq(Segs)
  BY DEF Good
<1>2. WorksOn(o) = Outcome(AtEnd(c), o.out)
  BY DEF WorksOn, With
<1> QED BY <1>1, <1>2, AtEndSound, OutcomeGood

(***************************************************************************)
(* The steps of the two hosts                                              *)
(***************************************************************************)
\* The connections and the network.
Halves(fit) ==
    /\ connec \in [Side -> {c \in Connecs : c.reseq \in Seq(Parked)}]
    /\ net \in [Side -> Seq(Segs)]
    /\ \A s \in Side : Sound(fit, Parked, connec[s])
Calling == [at : {"none", "listen", "finish", "look", "flag", "loop", "leave", "store"}, mode : Modes]
History ==
    /\ plan \in Plans /\ faults \in Nat /\ aborted \in BOOLEAN /\ kicked \in BOOLEAN
    /\ accepted \in [Side -> Seq(Data)] /\ given \in [Side -> Seq(Data)]
    /\ closed \in [Side -> BOOLEAN] /\ call \in [Side -> Calling]
PairInv(fit) == Halves(fit) /\ History

LEMMA HalvesIs ==
    ASSUME NEW fit, Halves(fit), NEW s \in Side
    PROVE  /\ Sound(fit, Parked, connec[s]) /\ connec[s] \in Connecs /\ net[s] \in Seq(Segs)
           /\ Peer(s) \in Side /\ Peer(s) # s
BY DEF Halves, Sound, Side, Peer

LEMMA ReplaceSound ==
    ASSUME NEW fit, Halves(fit), NEW s \in Side, NEW c, Sound(fit, Parked, c),
           connec' = [connec EXCEPT ![s] = c], net' \in [Side -> Seq(Segs)]
    PROVE  Halves(fit)'
<1>1. c \in {d \in Connecs : d.reseq \in Seq(Parked)}
  BY DEF Sound
<1>2. connec' \in [Side -> {d \in Connecs : d.reseq \in Seq(Parked)}]
  BY <1>1 DEF Halves
<1>3. \A t \in Side : connec'[t] = IF t = s THEN c ELSE connec[t]
  BY DEF Halves
<1> QED BY <1>2, <1>3 DEF Halves

LEMMA BecomesSound ==
    ASSUME NEW fit, Halves(fit), NEW s \in Side, NEW c, Sound(fit, Parked, c), NEW out \in Seq(Segs),
           Becomes(s, c, out)
    PROVE  Halves(fit)'
<1>1. Peer(s) \in Side /\ net[Peer(s)] \in Seq(Segs)
  BY HalvesIs DEF Halves
<1>2. net[Peer(s)] \o out \in Seq(Segs)
  BY <1>1, ConcatProperties
<1>3. net' = [net EXCEPT ![Peer(s)] = net[Peer(s)] \o out]
  BY DEF Becomes
<1>4. net' \in [Side -> Seq(Segs)]
  BY <1>2, <1>3 DEF Halves
<1> QED BY <1>4, ReplaceSound DEF Becomes

LEMMA DoesSound ==
    ASSUME NEW fit, Halves(fit), NEW s \in Side, NEW o, Good(fit, o), Does(s, o)
    PROVE  Halves(fit)'
<1>1. Becomes(s, o.c, o.out)
  BY DEF Does
<1> QED BY <1>1, BecomesSound DEF Good

LEMMA OpenStep ==
    ASSUME NEW fit, PairInv(fit), NEW s \in Side, NEW passive, TCP_open(s, passive)
    PROVE  PairInv(fit)'
<1> DEFINE listening == [Blank EXCEPT !.state = "LISTEN", !.passive = TRUE]
           syn == send_sync(Blank, Ini[s])
<1>1. Halves(fit) /\ Blank \in Connecs /\ Sound(fit, Parked, Blank)
  BY BlankSound DEF PairInv
<1>2. CASE passive
  <2>1. listening \in Connecs /\ Stays(Blank, listening)
    BY <1>1 DEF Connecs, CONNEC, States, Stays
  <2>2. Sound(fit, Parked, listening)
    BY <1>1, <2>1, SoundStays
  <2>3. Becomes(s, listening, <<>>)
    BY <1>2 DEF TCP_open
  <2> HIDE DEF listening
  <2> QED BY <1>1, <2>2, <2>3, BecomesSound, EmptySeq DEF PairInv, History, TCP_open
<1>3. CASE ~passive
  <2>1. Ini[s] \in Sequence
    BY PairAssumption
  <2>2. Sound(fit, Parked, syn) /\ syn \in Connecs
    BY <1>1, <2>1, SyncSound, SoundStays
  <2> HIDE DEF syn
  <2>3. Sound(fit, Parked, Now(syn, "SYN_SENT"))
    BY <2>2, NowSound, SoundStays DEF States
  <2>4. Good(fit, do_output(Now(syn, "SYN_SENT")))
    BY <2>3, OutputGood
  <2>5. Does(s, do_output(Now(syn, "SYN_SENT")))
    BY <1>3 DEF TCP_open, syn
  <2> QED BY <1>1, <2>4, <2>5, DoesSound DEF PairInv, History, TCP_open
<1> QED BY <1>2, <1>3

LEMMA SendStep ==
    ASSUME NEW fit, PairInv(fit), NEW s \in Side, Send(s)
    PROVE  PairInv(fit)'
<1>1. Halves(fit) /\ Sound(fit, Parked, connec[s]) /\ accepted[s] \in Seq(Data)
  BY HalvesIs DEF PairInv, History
<1>2. PICK n \in 1 .. plan[s] - Len(accepted[s]) :
        LET data == [i \in 1 .. n |-> Byte(s, Len(accepted[s]) + i)]
        IN  /\ Does(s, TCP_send(connec[s], data))
            /\ accepted' = [accepted EXCEPT ![s] = @ \o data]
  BY DEF Send
<1> DEFINE data == [i \in 1 .. n |-> Byte(s, Len(accepted[s]) + i)]
<1>3. data \in Seq(Data)
  <2>1. Len(accepted[s]) \in Nat /\ n \in Nat
    BY <1>1, LenProperties
  <2>2. \A i \in 1 .. n : Byte(s, Len(accepted[s]) + i) \in Data
    BY <2>1 DEF Byte, Data
  <2>3. data \in [1 .. n -> Data]
    BY <2>2
  <2> HIDE DEF data
  <2> QED BY <2>1, <2>3, SeqDef
<1>4. Does(s, TCP_send(connec[s], data)) /\ accepted' = [accepted EXCEPT ![s] = @ \o data]
  BY <1>2
<1> HIDE DEF data
<1>5. Halves(fit)'
  BY <1>1, <1>3, <1>4, SendSound, DoesSound
<1>6. accepted' \in [Side -> Seq(Data)]
  <2>1. accepted[s] \o data \in Seq(Data)
    BY <1>1, <1>3, ConcatProperties
  <2> QED BY <1>4, <2>1 DEF PairInv, History
<1> QED BY <1>5, <1>6 DEF PairInv, History, Send

LEMMA ReadStep ==
    ASSUME NEW fit, PairInv(fit), NEW s \in Side, Read(s)
    PROVE  PairInv(fit)'
<1>1. /\ Halves(fit) /\ Sound(fit, Parked, connec[s]) /\ given[s] \in Seq(Data)
      /\ connec[s].recvq \in Seq(Data)
  BY HalvesIs, ConnIs DEF PairInv, History
<1>2. PICK n \in 1 .. Len(connec[s].recvq) :
        /\ Does(s, receive(connec[s], n))
        /\ given' = [given EXCEPT ![s] = @ \o SubSeq(connec[s].recvq, 1, n)]
  BY DEF Read
<1>3. Halves(fit)'
  BY <1>1, <1>2, ReceiveSound, DoesSound
<1>4. given' \in [Side -> Seq(Data)]
  <2>1. n \in Int /\ n <= Len(connec[s].recvq)
    BY <1>1, LenProperties
  <2>2. SubSeq(connec[s].recvq, 1, n) \in Seq(Data)
    BY <1>1, <2>1, FrontOfSeq
  <2>3. given[s] \o SubSeq(connec[s].recvq, 1, n) \in Seq(Data)
    BY <1>1, <2>2, ConcatProperties
  <2> QED BY <1>2, <2>3 DEF PairInv, History
<1> QED BY <1>3, <1>4 DEF PairInv, History, Read

LEMMA ReportStep ==
    ASSUME NEW fit, PairInv(fit), NEW s \in Side, Report(s)
    PROVE  PairInv(fit)'
<1> DEFINE d == [connec[s] EXCEPT !.err = "none"]
<1>1. Halves(fit) /\ Sound(fit, Parked, connec[s]) /\ net \in [Side -> Seq(Segs)]
  BY HalvesIs DEF PairInv, Halves
<1>2. d = Fails(connec[s], "none")
  BY DEF Fails
<1>3. Sound(fit, Parked, d)
  BY <1>1, <1>2, FailsGood DEF Errors
<1>4. connec' = [connec EXCEPT ![s] = d] /\ net' = net
  BY DEF Report
<1> HIDE DEF d
<1>5. Halves(fit)'
  BY <1>1, <1>3, <1>4, ReplaceSound
<1> QED BY <1>5 DEF PairInv, History, Report

LEMMA KickStep ==
    ASSUME NEW fit, PairInv(fit), NEW s \in Side, Kick(s)
    PROVE  PairInv(fit)'
<1>1. Halves(fit) /\ Sound(fit, Parked, connec[s])
  BY HalvesIs DEF PairInv
<1>2. Halves(fit)'
  BY <1>1, KickSound, DoesSound DEF Kick
<1> QED BY <1>2 DEF PairInv, History, Kick, Fault

\* What the steps of TCP_close have in common.
LEMMA LeavesSound ==
    ASSUME NEW fit, Halves(fit), NEW s \in Side, NEW c, Sound(fit, Parked, c), Leaves(s, c)
    PROVE  Halves(fit)'
BY ReplaceSound DEF Leaves, Halves

LEMMA CallSound ==
    ASSUME History, NEW s \in Side
    PROVE  /\ \A at \in {"none", "listen", "finish", "look", "flag", "loop", "leave", "store"} :
                GoesOn(s, at) => call' \in [Side -> Calling]
           /\ \A at \in {"none", "listen", "finish"}, mode \in Modes :
                call' = [call EXCEPT ![s] = [at |-> at, mode |-> mode]] => call' \in [Side -> Calling]
<1>1. call \in [Side -> Calling] /\ call[s] \in Calling
  BY DEF History
<1>2. ASSUME NEW at \in {"none", "listen", "finish", "look", "flag", "loop", "leave", "store"}, GoesOn(s, at)
      PROVE  call' \in [Side -> Calling]
  <2> DEFINE new == [call[s] EXCEPT !.at = at]
  <2>1. new \in Calling
    BY <1>1 DEF Calling
  <2>2. call' = [call EXCEPT ![s] = new]
    BY <1>2 DEF GoesOn
  <2> HIDE DEF new
  <2> QED BY <1>1, <2>1, <2>2
<1>3. ASSUME NEW at \in {"none", "listen", "finish"}, NEW mode \in Modes,
             call' = [call EXCEPT ![s] = [at |-> at, mode |-> mode]]
      PROVE  call' \in [Side -> Calling]
  <2>1. [at |-> at, mode |-> mode] \in Calling
    BY DEF Calling
  <2> QED BY <1>1, <1>3, <2>1
<1> QED BY <1>2, <1>3

LEMMA CloseStep ==
    ASSUME NEW fit, PairInv(fit), NEW s \in Side, NEW mode \in Modes, TCP_close(s, mode)
    PROVE  PairInv(fit)'
<1> DEFINE background == mode = "background"
           c == [connec[s] EXCEPT !.result = background]
           eof == [c EXCEPT !.told = "E_EOF"]
<1>1. Halves(fit) /\ History /\ Sound(fit, Parked, connec[s])
  BY HalvesIs DEF PairInv
<1>2. Sound(fit, Parked, c)
  <2>1. background \in BOOLEAN /\ "none" \in Results
    BY DEF Results
  <2> HIDE DEF background
  <2> QED BY <1>1, <2>1, ToldSound
<1>3. /\ \/ Leaves(s, c) \/ Leaves(s, destroy_conn(eof))
      /\ \E at \in {"none", "listen", "finish"} : call' = [call EXCEPT ![s] = [at |-> at, mode |-> mode]]
  BY DEF TCP_close
<1> HIDE DEF c
<1>4. Sound(fit, Parked, destroy_conn(eof))
  <2>1. Sound(fit, Parked, eof)
    BY <1>2, ToldSound DEF Results
  <2> QED BY <2>1, DestroySound DEF Sound
<1> HIDE DEF eof
<1>5. Halves(fit)'
  BY <1>1, <1>2, <1>3, <1>4, LeavesSound
<1>6. call' \in [Side -> Calling]
  BY <1>1, <1>3, CallSound
<1>7. closed' \in [Side -> BOOLEAN] /\ UNCHANGED <<plan, accepted, given, kicked, faults, aborted>>
  BY <1>1 DEF History, TCP_close, ClientOnly
<1> QED BY <1>1, <1>5, <1>6, <1>7 DEF PairInv, History

LEMMA AgainStep ==
    ASSUME NEW fit, PairInv(fit), NEW s \in Side, NEW mode \in Modes, Again(s, mode)
    PROVE  PairInv(fit)'
<1> DEFINE background == mode = "background"
           marked == [connec[s] EXCEPT !.result = background]
           none == [connec[s] EXCEPT !.result = FALSE]
<1>1. Halves(fit) /\ History /\ Sound(fit, Parked, connec[s])
  BY HalvesIs DEF PairInv
<1>2. Sound(fit, Parked, none) /\ Sound(fit, Parked, marked)
  <2>1. background \in BOOLEAN /\ "none" \in Results
    BY DEF Results
  <2> HIDE DEF background
  <2> QED BY <1>1, <2>1, ToldSound
<1>3. \/ Leaves(s, none) /\ UNCHANGED aborted
      \/ Leaves(s, close_self(marked, "E_BADCLOSE")) /\ aborted' = TRUE
  BY DEF Again
<1> HIDE DEF none, marked
<1>4. Sound(fit, Parked, close_self(marked, "E_BADCLOSE"))
  BY <1>2, ClosedSound DEF Reasons
<1>5. Halves(fit)'
  BY <1>1, <1>2, <1>3, <1>4, LeavesSound
<1>6. aborted' \in BOOLEAN
  BY <1>1, <1>3 DEF History
<1>7. UNCHANGED <<plan, accepted, given, kicked, faults, call, closed>>
  BY DEF Again, ClientOnly
<1> QED BY <1>1, <1>5, <1>6, <1>7 DEF PairInv, History

LEMMA UnlistenStep ==
    ASSUME NEW fit, PairInv(fit), NEW s \in Side, Unlisten(s)
    PROVE  PairInv(fit)'
<1> DEFINE r == Raise(close_self(connec[s], "E_NORMAL"), "CLOSING")
           c == [r EXCEPT !.told = "E_NORMAL"]
<1>1. Halves(fit) /\ History /\ Sound(fit, Parked, connec[s])
  BY HalvesIs DEF PairInv
<1>2. Sound(fit, Parked, close_self(connec[s], "E_NORMAL"))
  BY <1>1, ClosedSound DEF Reasons
<1>3. Sound(fit, Parked, r)
  BY <1>2, RaiseGood DEF Flags
<1> HIDE DEF r
<1>4. Sound(fit, Parked, c)
  BY <1>3, ToldSound DEF Results
<1>5. Leaves(s, c) /\ GoesOn(s, "none") /\ aborted' = TRUE
  BY DEF Unlisten, r
<1> HIDE DEF c
<1>6. Halves(fit)' /\ call' \in [Side -> Calling]
  BY <1>1, <1>4, <1>5, LeavesSound, CallSound
<1> QED BY <1>1, <1>5, <1>6 DEF PairInv, History, Unlisten, ClientOnly

LEMMA FinishesStep ==
    ASSUME NEW fit, PairInv(fit), NEW s \in Side, Finishes(s)
    PROVE  PairInv(fit)'
<1> DEFINE r == Raise(connec[s], "FIN")
           count == r.count + 1
           state == IF r.state = "CLOSE_WAIT" THEN "LAST_ACK" ELSE "FIN_WAIT1"
           c == [r EXCEPT !.count = count, !.state = state]
<1>1. Halves(fit) /\ History /\ Sound(fit, Parked, connec[s])
  BY HalvesIs DEF PairInv
<1>2. Sound(fit, Parked, r) /\ r \in Connecs /\ count \in Int /\ state \in States
  <2>1. Sound(fit, Parked, r)
    BY <1>1, RaiseGood DEF Flags
  <2> QED BY <2>1, ConnIs DEF Sound, States
<1>3. Does(s, do_output(c)) /\ (GoesOn(s, "leave") \/ GoesOn(s, "look"))
  BY DEF Finishes
<1> HIDE DEF r, count, state
<1>4. Sound(fit, Parked, c)
  <2>1. c \in Connecs /\ Stays(r, c)
    BY <1>2 DEF Connecs, CONNEC, Stays
  <2> QED BY <1>2, <2>1, SoundStays
<1> HIDE DEF c
<1>5. Halves(fit)'
  BY <1>1, <1>3, <1>4, OutputGood, DoesSound
<1>6. call' \in [Side -> Calling]
  BY <1>1, <1>3, CallSound
<1> QED BY <1>1, <1>5, <1>6 DEF PairInv, History, Finishes, ClientOnly

LEMMA LookStep ==
    ASSUME NEW fit, PairInv(fit), NEW s \in Side, Look(s)
    PROVE  PairInv(fit)'
<1> DEFINE timely == Timely(s)
           freed == destroy_conn([connec[s] EXCEPT !.told = timely])
           waits == [connec[s] EXCEPT !.result = TRUE, !.told = "E_NODATA"]
<1>1. Halves(fit) /\ History /\ Sound(fit, Parked, connec[s]) /\ connec[s] \in Connecs
  BY HalvesIs DEF PairInv
<1>2. timely \in Results
  BY DEF Timely, Results
<1>3. \/ Becomes(s, freed, abort_conn(connec[s])) /\ GoesOn(s, "none") /\ aborted' = TRUE
      \/ Leaves(s, waits) /\ GoesOn(s, "flag") /\ UNCHANGED aborted
  BY DEF Look
<1> HIDE DEF timely
<1>4. Sound(fit, Parked, freed)
  <2>1. Sound(fit, Parked, [connec[s] EXCEPT !.told = timely])
    BY <1>1, <1>2, ToldSound
  <2> QED BY <2>1, DestroySound DEF Sound
<1>5. Sound(fit, Parked, waits)
  BY <1>1, ToldSound DEF Results
<1> HIDE DEF freed, waits
<1>6. Halves(fit)'
  BY <1>1, <1>3, <1>4, <1>5, AbortSound, BecomesSound, LeavesSound
<1>7. call' \in [Side -> Calling]
  BY <1>1, <1>3, CallSound
<1> QED BY <1>1, <1>3, <1>6, <1>7 DEF PairInv, History, Look, ClientOnly

LEMMA FlagStep ==
    ASSUME NEW fit, PairInv(fit), NEW s \in Side, Flag(s)
    PROVE  PairInv(fit)'
<1>1. Halves(fit) /\ History /\ Sound(fit, Parked, connec[s])
  BY HalvesIs DEF PairInv
<1>2. Sound(fit, Parked, Raise(connec[s], "CLOSING"))
  BY <1>1, RaiseGood DEF Flags
<1>3. Sound(fit, Parked, Raise(Raise(connec[s], "CLOSING"), "DISCARD"))
  BY <1>2, RaiseGood DEF Flags
<1>4. \/ Leaves(s, Raise(Raise(connec[s], "CLOSING"), "DISCARD")) /\ GoesOn(s, "loop")
      \/ Leaves(s, Raise(connec[s], "CLOSING")) /\ GoesOn(s, "store")
  BY DEF Flag
<1>5. Halves(fit)'
  BY <1>1, <1>2, <1>3, <1>4, LeavesSound
<1>6. call' \in [Side -> Calling]
  BY <1>1, <1>4, CallSound
<1> QED BY <1>1, <1>5, <1>6 DEF PairInv, History, Flag, ClientOnly

LEMMA ReturnStep ==
    ASSUME NEW fit, PairInv(fit), NEW s \in Side, Return(s)
    PROVE  PairInv(fit)'
<1> DEFINE told == IF connec[s].told = "E_NODATA" THEN Timely(s) ELSE connec[s].told
           done == [connec[s] EXCEPT !.result = FALSE, !.told = told]
           later == [connec[s] EXCEPT !.told = "E_NODATA"]
<1>1. Halves(fit) /\ History /\ Sound(fit, Parked, connec[s]) /\ connec[s] \in Connecs
  BY HalvesIs DEF PairInv
<1>2. told \in Results
  <2>1. connec[s].told \in Results
    BY <1>1 DEF Connecs, CONNEC, Results
  <2> QED BY <2>1 DEF Timely, Results
<1>3. (Leaves(s, done) \/ Leaves(s, later)) /\ GoesOn(s, "none")
  BY DEF Return
<1> HIDE DEF told
<1>4. Sound(fit, Parked, done) /\ Sound(fit, Parked, later)
  BY <1>1, <1>2, ToldSound DEF Results
<1> HIDE DEF done, later
<1>5. Halves(fit)' /\ call' \in [Side -> Calling]
  BY <1>1, <1>3, <1>4, LeavesSound, CallSound
<1> QED BY <1>1, <1>5 DEF PairInv, History, Return, ClientOnly

LEMMA ArrivesSound ==
    ASSUME NEW fit, PairInv(fit), fit => FinsFit, NEW s \in Side, NEW i \in 1 .. Len(net[s])
    PROVE  Good(fit, Arrives(s, net[s][i])) /\ net[s][i] \in Segs
<1> DEFINE seg == net[s][i]
<1>1. Sound(fit, Parked, connec[s]) /\ net[s] \in Seq(Segs)
  BY HalvesIs DEF PairInv
<1>2. seg \in Segs /\ seg \in Segments(Data)
  <2>1. seg \in Segs
    BY <1>1, ElementOfSeq
  <2> QED BY <2>1 DEF Segs
<1>3. fit => Fitted(connec[s], seg)
  BY DEF FinsFit, Fitted
<1>4. Ini[s] \in Sequence
  BY PairAssumption
<1> HIDE DEF seg
<1>5. Good(fit, WorksOn(do_arrive(connec[s], seg, Ini[s])))
  BY <1>1, <1>2, <1>3, <1>4, ArriveSound, WorksOnSound
<1>6. Good(fit, Outcome(connec[s], send_reset(seg)))
  BY <1>1, <1>2, ResetSound, OutcomeGood
<1>7. Good(fit, Arrives(s, seg))
  BY <1>5, <1>6 DEF Arrives
<1> QED BY <1>2, <1>7 DEF seg

LEMMA ReceivesStep ==
    ASSUME NEW fit, PairInv(fit), fit => FinsFit, NEW s \in Side, NEW i \in 1 .. Len(net[s]),
           NEW rest \in Seq(Segs), Receives(s, net[s][i], rest)
    PROVE  Halves(fit)' /\ aborted' \in BOOLEAN
<1> DEFINE seg == net[s][i]
           o == Arrives(s, seg)
<1>1. Halves(fit) /\ Peer(s) \in Side /\ Peer(s) # s /\ net[Peer(s)] \in Seq(Segs)
  <2>1. Halves(fit)
    BY DEF PairInv
  <2>2. Peer(s) \in Side /\ Peer(s) # s
    BY <2>1, HalvesIs
  <2> QED BY <2>1, <2>2, HalvesIs
<1>2. Good(fit, o)
  BY ArrivesSound
<1>3. /\ connec' = [connec EXCEPT ![s] = o.c]
      /\ net' = [net EXCEPT ![s] = rest, ![Peer(s)] = @ \o o.out]
      /\ aborted' = (aborted \/ (connec[s] = Blank /\ ~closed[s])
                       \/ ("DISCARD" \in connec[s].flags /\ seg.data # <<>> /\ o.c.state = "NONE"))
  BY DEF Receives
<1> HIDE DEF o
<1>4. net[Peer(s)] \o o.out \in Seq(Segs)
  BY <1>1, <1>2, ConcatProperties DEF Good
<1>5. net' = [net EXCEPT ![s] = rest, ![Peer(s)] = net[Peer(s)] \o o.out]
  BY <1>1, <1>3 DEF Halves
<1>6. net' \in [Side -> Seq(Segs)]
  BY <1>1, <1>4, <1>5 DEF Halves
<1>7. Halves(fit)'
  BY <1>1, <1>2, <1>3, <1>6, ReplaceSound DEF Good
<1>8. aborted' \in BOOLEAN
  BY <1>3
<1> QED BY <1>7, <1>8

LEMMA WorkStep ==
    ASSUME NEW fit, PairInv(fit), fit => FinsFit, NEW s \in Side, timer_work(s)
    PROVE  PairInv(fit)'
<1>1. net[s] \in Seq(Segs) /\ net[s] # <<>>
  BY HalvesIs DEF PairInv, timer_work
<1>2. Tail(net[s]) \in Seq(Segs) /\ Head(net[s]) = net[s][1] /\ 1 \in 1 .. Len(net[s])
  BY <1>1, HeadTailProperties, EmptySeq
<1>3. Receives(s, net[s][1], Tail(net[s]))
  BY <1>2 DEF timer_work
<1>4. Halves(fit)' /\ aborted' \in BOOLEAN
  BY <1>2, <1>3, ReceivesStep
<1> QED BY <1>3, <1>4 DEF PairInv, History, Receives, timer_work

LEMMA NetworkStep ==
    ASSUME NEW fit, PairInv(fit), fit => FinsFit, NEW s \in Side, NEW i \in 1 .. Len(net[s]),
           Repeats(s, i) \/ Overtakes(s, i) \/ Lose(s, i)
    PROVE  PairInv(fit)'
<1>1. net[s] \in Seq(Segs) /\ RemoveAt(net[s], i) \in Seq(Segs)
  <2>1. net[s] \in Seq(Segs)
    BY HalvesIs DEF PairInv
  <2> QED BY <2>1, RemoveSound
<1>2. CASE Repeats(s, i) \/ Overtakes(s, i)
  <2>1. PICK rest \in Seq(Segs) : Receives(s, net[s][i], rest)
    BY <1>1, <1>2 DEF Repeats, Overtakes
  <2>2. Halves(fit)' /\ aborted' \in BOOLEAN
    BY <2>1, ReceivesStep
  <2> QED BY <1>2, <2>1, <2>2 DEF PairInv, History, Receives, Repeats, Overtakes, Fault
<1>3. CASE Lose(s, i)
  <2>1. net' \in [Side -> Seq(Segs)]
    BY <1>1, <1>3 DEF Lose, PairInv, Halves
  <2>2. UNCHANGED connec
    BY <1>3 DEF Lose
  <2> QED BY <1>3, <2>1, <2>2 DEF PairInv, Halves, History, Lose, Fault
<1> QED BY <1>2, <1>3

LEMMA TimeoutStep ==
    ASSUME NEW fit, PairInv(fit), NEW s \in Side, Timeout(s)
    PROVE  PairInv(fit)'
<1>1. Halves(fit) /\ Sound(fit, Parked, connec[s])
  BY HalvesIs DEF PairInv
<1>2. Good(fit, WorksOn(Retransmit(connec[s])))
  BY <1>1, RetransmitSound, WorksOnSound
<1>3. Halves(fit)'
  BY <1>1, <1>2, DoesSound DEF Timeout
<1>4. faults' \in Nat
  BY DEF PairInv, History, Timeout, Fault
<1> QED BY <1>3, <1>4 DEF PairInv, History, Timeout

LEMMA EndStep ==
    ASSUME NEW fit, PairInv(fit), NEW s \in Side, TimeWaitEnds(s) \/ GiveUp(s) \/ Ends(s)
    PROVE  PairInv(fit)'
<1> DEFINE ended == close_self(connec[s], "E_NORMAL")
           late == close_self(connec[s], "E_CNTIMEOUT")
<1>1. Halves(fit) /\ History /\ Sound(fit, Parked, connec[s])
  BY HalvesIs DEF PairInv
<1>2. Sound(fit, Parked, ended) /\ Sound(fit, Parked, late)
  BY <1>1, ClosedSound DEF Reasons
<1>3. /\ Sound(fit, Parked, AtEnd(ended)) /\ Sound(fit, Parked, AtEnd(connec[s]))
      /\ Sound(fit, Parked, destroy_conn(late))
  BY <1>1, <1>2, AtEndSound, DestroySound DEF Sound
<1>4. <<>> \in Seq(Segs) /\ abort_conn(connec[s]) \in Seq(Segs)
  BY <1>1, AbortSound, EmptySeq DEF Sound
<1>5. \/ Becomes(s, AtEnd(ended), <<>>)
      \/ Becomes(s, AtEnd(connec[s]), <<>>)
      \/ Becomes(s, destroy_conn(late), abort_conn(connec[s]))
  BY DEF TimeWaitEnds, GiveUp, Ends
<1> HIDE DEF ended, late
<1>6. Halves(fit)'
  BY <1>1, <1>3, <1>4, <1>5, BecomesSound
<1>7. aborted' \in BOOLEAN /\ UNCHANGED <<plan, call, accepted, given, closed, kicked, faults>>
  BY <1>1 DEF TimeWaitEnds, GiveUp, Ends, History
<1> QED BY <1>1, <1>6, <1>7 DEF PairInv, History

LEMMA PairSteps ==
    ASSUME NEW fit, PairInv(fit), fit => FinsFit, [TcpNext]_tcp_vars
    PROVE  PairInv(fit)'
<1>1. "A" \in Side /\ "B" \in Side
  BY DEF Side
<1>2. ASSUME NEW passive, TCP_open("A", passive) \/ TCP_open("B", passive) PROVE PairInv(fit)'
  BY <1>1, <1>2, OpenStep
<1>3. ASSUME NEW s \in Side, Send(s) \/ Read(s) \/ Kick(s) PROVE PairInv(fit)'
  BY <1>3, SendStep, ReadStep, KickStep
<1>4. ASSUME NEW s \in Side, NEW mode \in Modes, TCP_close(s, mode) \/ Again(s, mode) \/ Closes(s) PROVE PairInv(fit)'
  BY <1>4, CloseStep, AgainStep, UnlistenStep, FinishesStep, LookStep, FlagStep, ReturnStep DEF Closes
<1>5. ASSUME NEW s \in Side, NEW i \in 1 .. Len(net[s]), Repeats(s, i) \/ Overtakes(s, i) \/ Lose(s, i)
      PROVE  PairInv(fit)'
  BY <1>5, NetworkStep
<1>6. ASSUME NEW s \in Side, Soon(s) PROVE PairInv(fit)'
  BY <1>6, ReportStep, EndStep, WorkStep DEF Soon
<1>7. ASSUME NEW s \in Side, Later(s) \/ GiveUp(s) PROVE PairInv(fit)'
  BY <1>7, EndStep, TimeoutStep DEF Later
<1>8. CASE UNCHANGED tcp_vars
  BY <1>8 DEF tcp_vars, PairInv, Halves, History
<1>9. TcpNext \/ UNCHANGED tcp_vars
  OBVIOUS
<1>10. "wait" \in Modes
  BY DEF Modes
<1> QED BY <1>2, <1>3, <1>4, <1>5, <1>6, <1>7, <1>8, <1>9, <1>10 DEF TcpNext, Over

LEMMA PairStarts ==
    ASSUME NEW fit, TcpInit
    PROVE  PairInv(fit)
<1>1. Sound(fit, Parked, Blank) /\ <<>> \in Seq(Segs) /\ <<>> \in Seq(Data)
  BY BlankSound, EmptySeq
<1>2. Halves(fit)
  BY <1>1 DEF TcpInit, Halves, Sound
<1>3. History
  BY <1>1 DEF TcpInit, History, NotClosing, Calling, Modes
<1> QED BY <1>2, <1>3 DEF PairInv

\* Whatever the network does, the fields of the connections stay what they are
\* declared to be: numbers of the sequence, windows of 16 bits, segments no
\* longer than the peer can take, and what is kept has no SYN left.
THEOREM TcpTypesOK == TcpSpec => []TcpTypes
<1>1. TcpInit => PairInv(FALSE)
  BY PairStarts
<1>2. PairInv(FALSE) /\ [TcpNext]_tcp_vars => PairInv(FALSE)'
  BY PairSteps
<1>3. PairInv(FALSE) => TcpTypes
  BY DEF PairInv, Halves, History, Calling, TcpTypes
<1> QED BY <1>1, <1>2, <1>3, PTL DEF TcpSpec

\* As long as every FIN with data ends in the window, what arrives never exceeds
\* it: the window that do_output announces and the bytes nobody has read are the
\* configured room.
THEOREM WindowIsAlwaysRoom == TcpSpec /\ []FinsFit => []WindowIsRoom
<1>1. TcpInit => PairInv(TRUE)
  BY PairStarts
<1>2. PairInv(TRUE) /\ FinsFit /\ [TcpNext]_tcp_vars => PairInv(TRUE)'
  BY PairSteps
<1>3. PairInv(TRUE) => WindowIsRoom
  BY DEF PairInv, Halves, Sound, Room, WindowIsRoom
<1> QED BY <1>1, <1>2, <1>3, PTL DEF TcpSpec
=============================================================================
