------------------------------ MODULE Resolver ------------------------------
(***************************************************************************)
(* The resolver (src/proto/resolve): the cache of names that all tasks     *)
(* share, the queries to the name servers with their retries, and the file *)
(* the cache is saved to and loaded from.  Tasks are preempted, or give    *)
(* the processor away while they wait for an answer.  What holds the       *)
(* semaphore is one step.  The cursor is read and written without it, each *)
(* word by a step of its own, and [LOAD] lets it go between emptying the   *)
(* list and filling it.  Names and addresses are model values, time is in  *)
(* seconds.                                                                *)
(***************************************************************************)
EXTENDS Integers, SequencesExt, FiniteSetsExt

CONSTANTS
    Tasks,          \* tasks that resolve names
    Names, IPs,     \* domain names and addresses
    Zone,           \* what the servers say: [name, real, ip, ttl]
    Commands,       \* [CNAME] and [ALIAS] commands: [name, ip, ttl, type], ttl 0 for ever
    Servers,        \* number of name servers that are configured
    UDP_MAX_TRIES,
    DNS_CACHE,      \* how many entries the cache may have
    MaxTime,        \* bound of the model: seconds
    Calls,          \* bound of the model: how many calls and restarts there are
    NULL

ASSUME ResolverAssumption ==
    /\ {Servers, UDP_MAX_TRIES, DNS_CACHE, MaxTime, Calls} \subseteq Nat /\ DNS_CACHE > 0 /\ MaxTime > 0
    /\ Zone \subseteq [name : Names, real : Names, ip : IPs, ttl : Nat]
    /\ Commands \subseteq [name : Names, ip : IPs, ttl : Nat, type : {"DNS_A", "DNS_CNAME"}]
    /\ NULL \notin Names \cup IPs

VARIABLES
    cache,      \* the list at cache_root
    cache_num,  \* how many entries it is thought to have
    lost,       \* history: entries that a load dropped without freeing or counting them
    cursor,     \* scan_c_p and scan_d_p, and which of them lead nowhere
    task,       \* the call each task is in
    file,       \* contents of CACHE.DNS
    now,        \* time(NULL)
    spinning,   \* clean_up runs without end
    calls,      \* how many calls and restarts there were
    told        \* history: what servers and users said, and until when it holds

vars == <<cache, cache_num, lost, cursor, task, file, now, spinning, calls, told>>

Updates == [name : Names, ip : IPs, ttl : Nat, type : {"DNS_A", "DNS_CNAME"}]
Entries == [name : Names, ip : IPs, expiry : Nat, used : Nat, alias : Seq([name : Names, expiry : Nat])]

\* What the words of the cursor lead to; an entry that is made anew counts as the same.
Words    == {"entry", "alias"}
Places   == [entry : [name : Names, ip : IPs] \cup {NULL},
             alias : [name : Names, ip : IPs, alias : Names] \cup {NULL}]
Nowhere  == [entry |-> NULL, alias |-> NULL]
At(p)    == [entry |-> p.entry, alias |-> p.alias, astray |-> {}]

\* What a call resolves at its end: a name, the one at the cursor, or nothing.
CURRENT == "current"
NoCall  == [at |-> "none", name |-> NULL, server |-> 0, udp_try |-> 0, todo |-> <<>>,
            to |-> Nowhere, writes |-> <<>>]
InCall  == [at : {"none", "query", "update", "create", "save", "erase", "fill", "rewind", "move", "current", "ask"},
            name : Names \cup {NULL, CURRENT}, server : Nat, udp_try : Nat, todo : Seq(Updates),
            to : Places, writes : {<<>>, <<"entry">>, <<"alias">>, <<"entry", "alias">>, <<"alias", "entry">>}]

TypeOK ==
    /\ cache \in Seq(Entries) /\ file \in Seq(Entries) /\ cache_num \in Int /\ lost \in Nat
    /\ cursor \in [entry : [name : Names, ip : IPs] \cup {NULL},
                   alias : [name : Names, ip : IPs, alias : Names] \cup {NULL}, astray : SUBSET Words]
    /\ task \in [Tasks -> InCall]
    /\ now \in 1 .. MaxTime /\ spinning \in BOOLEAN /\ calls \in 0 .. Calls
    /\ told \subseteq [name : Names, ip : IPs, until : Nat]

Init ==
    /\ cache = <<>> /\ cache_num = 0 /\ lost = 0 /\ cursor = At(Nowhere) /\ file = <<>>
    /\ task = [t \in Tasks |-> NoCall]
    /\ now = 1 /\ spinning = FALSE /\ calls = 0 /\ told = {}

Until(ttl) == IF ttl = 0 THEN 0 ELSE now + ttl

(***************************************************************************)
(* The cache                                                               *)
(***************************************************************************)
Live(e) == e.expiry = 0 \/ e.expiry >= now
\* What is left of a list when its other places are taken out.
AtPlaces(list, places) ==
    FlattenSeq([i \in 1 .. Len(list) |-> IF i \in places THEN <<list[i]>> ELSE <<>>])

\* An alias is kept for ever when its entry is.
\* Plausible slip: aliases are kept as long as their entry.
AllAliases(e) == e
LiveAliases(e) ==
    [e EXCEPT !.alias = AtPlaces(@, {i \in DOMAIN @ : @[i].expiry >= now \/ e.expiry = 0})]
Kept(list) ==
    LET live == AtPlaces(list, {i \in DOMAIN list : Live(list[i])})
    IN  [i \in 1 .. Len(live) |-> LiveAliases(live[i])]

\* Those that were not used for longest go, as long as there are too many; one
\* used in this second is no candidate, and if no other is left the loop goes on.
Candidates(list) == {i \in DOMAIN list : list[i].used < now}
Older(list, i, j) == list[i].used < list[j].used \/ (list[i].used = list[j].used /\ i < j)
Oldest(list, n) ==
    {i \in Candidates(list) : Cardinality({j \in Candidates(list) : Older(list, j, i)}) < n}
Younger(list, n) == AtPlaces(list, DOMAIN list \ Oldest(list, n))

\* Plausible slips: the entry is dropped but still counted; the cursor stays.
CleanedUncounted(list, num) == [list |-> Younger(list, num - DNS_CACHE), num |-> num]
Crushed(list, num) ==
    LET left == Younger(list, num - DNS_CACHE)
    IN  [list |-> left, num |-> num - (Len(list) - Len(left))]
clean_up(list, num) == LET kept == Kept(list) IN Crushed(kept, num - (Len(list) - Len(kept)))

\* The first entry.  What leads nowhere in a list.
Root(list) == [entry |-> IF list = <<>> THEN NULL ELSE [name |-> list[1].name, ip |-> list[1].ip],
               alias |-> NULL]
Is(e, place)        == e.name = place.name /\ e.ip = place.ip
Leads(p, w, list) ==
    p[w] = NULL \/ \E i \in DOMAIN list :
        Is(list[i], p[w]) /\ (w = "entry" \/ \E d \in ToSet(list[i].alias) : d.name = p[w].alias)

StaysAt(old, new, c) == c
CursorAfter(old, new, c) == IF old = new THEN c ELSE At(Root(new))

\* The cache becomes what clean_up leaves of list, if it ever ends.
Cleans(list, num, c) ==
    LET left == clean_up(list, num)
    IN  /\ cache' = left.list /\ cache_num' = left.num /\ spinning' = (left.num > DNS_CACHE)
        /\ cursor' = CursorAfter(list, left.list, c)

Named(e, name) == e.name = name \/ \E d \in ToSet(e.alias) : d.name = name
Touch(e) == [e EXCEPT !.used = now]
Renewed(e, u) == [Touch(e) EXCEPT !.expiry = Until(u.ttl)]
Aliased(e, u) == [Touch(e) EXCEPT !.alias = <<[name |-> u.name, expiry |-> Until(u.ttl)]>> \o @]

\* The addresses of name among the entries of list.
query_name(list, name) == {e.ip : e \in {e \in ToSet(list) : Named(e, name)}}

\* Plausible slip: an entry is looked for by its name only.
UpdatesByName(u, list) ==
    LET is == {i \in DOMAIN list : list[i].name = u.name}
    IN  IF is # {} THEN [list EXCEPT ![Min(is)] = Renewed(@, u)]
        ELSE <<[name |-> u.name, ip |-> u.ip, expiry |-> Until(u.ttl), used |-> now, alias |-> <<>>]>> \o list
UpdatesAddress(u, list) ==
    LET is == {i \in DOMAIN list : list[i].name = u.name /\ list[i].ip = u.ip}
    IN  IF is # {} THEN [list EXCEPT ![Min(is)] = Renewed(@, u)]
        ELSE <<[name |-> u.name, ip |-> u.ip, expiry |-> Until(u.ttl), used |-> now, alias |-> <<>>]>> \o list

\* An alias goes to the first entry with the address; one that exists keeps its
\* expiry.
UpdatesAlias(u, list) ==
    LET is == {i \in DOMAIN list : list[i].ip = u.ip}
        i  == Min(is)
    IN  IF is = {} THEN list
        ELSE IF list[i].name = u.name THEN [list EXCEPT ![i] = Renewed(@, u)]
        ELSE IF Named(list[i], u.name) THEN [list EXCEPT ![i] = Touch(@)]
        ELSE [list EXCEPT ![i] = Aliased(@, u)]

update_cache(u) ==
    LET list == IF u.type = "DNS_A" THEN UpdatesAddress(u, cache) ELSE UpdatesAlias(u, cache)
    IN  Cleans(list, cache_num + Len(list) - Len(cache), cursor) /\ UNCHANGED lost

\* What is in the list is dropped, and the count goes on.  The words of the cursor
\* that were there lead nowhere then.
load_cache(contents) ==
    /\ Cleans(contents, cache_num + Len(contents),
              [cursor EXCEPT !.astray = {w \in Words : ~Leads(cursor, w, contents)}])
    /\ lost' = lost + Len(cache)

(***************************************************************************)
(* The calls                                                               *)
(***************************************************************************)
\* What the cache says, or the beginning of a query to the first server.
Ask(t, name, list) ==
    LET c    == clean_up(list, cache_num)
        hits == query_name(c.list, name)
    IN  /\ cache_num' = c.num /\ spinning' = (c.num > DNS_CACHE)
        /\ cache' = [i \in DOMAIN c.list |-> IF Named(c.list[i], name) THEN Touch(c.list[i]) ELSE c.list[i]]
        /\ task' = [task EXCEPT ![t] = IF hits # {} \/ Servers = 0 THEN NoCall
                      ELSE [NoCall EXCEPT !.at = "query", !.name = name, !.server = 1, !.udp_try = 1]]

Calling(t) == ~spinning /\ task[t] = NoCall /\ calls < Calls /\ calls' = calls + 1
Resolves(t, name) ==
    /\ Ask(t, name, cache)
    /\ cursor' = CursorAfter(cache, clean_up(cache, cache_num).list, cursor)
    /\ UNCHANGED lost
my_resolve(t, name) ==
    /\ Calling(t)
    /\ Resolves(t, name)
    /\ UNCHANGED <<file, now, told>>

\* Ca_first_dom, and the end of load_cache: the root is read, then both words are written.
Rewinds(c) == [c EXCEPT !.at = "move", !.to = Root(cache), !.writes = <<"entry", "alias">>]
Ca_first_dom(t) ==
    /\ Calling(t)
    /\ task' = [task EXCEPT ![t] = Rewinds([NoCall EXCEPT !.name = CURRENT])]
    /\ UNCHANGED <<cache, cache_num, lost, cursor, file, now, spinning, told>>
rewind(t) ==
    /\ ~spinning /\ task[t].at = "rewind"
    /\ task' = [task EXCEPT ![t] = Rewinds(@)]
    /\ UNCHANGED <<cache, cache_num, lost, cursor, file, now, spinning, calls, told>>

\* The alias behind the one at the cursor, or the first of its entry; without one,
\* the next entry.  A cursor that leads nowhere is not followed (bound of the model).
Place(p) == CHOOSE i \in DOMAIN cache : Is(cache[i], p)
NextAlias ==
    LET i == Place(IF cursor.alias = NULL THEN cursor.entry ELSE cursor.alias)
        d == IF cursor.alias = NULL THEN 0
             ELSE CHOOSE d \in DOMAIN cache[i].alias : cache[i].alias[d].name = cursor.alias.alias
    IN  IF d = Len(cache[i].alias) THEN NULL
        ELSE [name |-> cache[i].name, ip |-> cache[i].ip, alias |-> cache[i].alias[d + 1].name]
NextEntry ==
    LET i == Place(cursor.entry)
    IN  IF i = Len(cache) THEN NULL ELSE [name |-> cache[i + 1].name, ip |-> cache[i + 1].ip]
Moves(c) ==
    IF cursor.entry = NULL THEN [c EXCEPT !.at = "current"]
    ELSE [c EXCEPT !.at = "move", !.to = [entry |-> NextEntry, alias |-> NextAlias],
                   !.writes = IF NextAlias = NULL THEN <<"alias", "entry">> ELSE <<"alias">>]
Ca_next_dom(t) ==
    /\ Calling(t) /\ cursor.astray = {}
    /\ task' = [task EXCEPT ![t] = Moves([NoCall EXCEPT !.name = CURRENT])]
    /\ UNCHANGED <<cache, cache_num, lost, cursor, file, now, spinning, told>>

\* A word is written, whatever happened to what it leads to since it was read.
move(t) ==
    LET w == Head(task[t].writes)
        c == [cursor EXCEPT ![w] = task[t].to[w]]
    IN  /\ ~spinning /\ task[t].at = "move"
        /\ cursor' = [c EXCEPT !.astray = IF Leads(c, w, cache) THEN @ \ {w} ELSE @ \cup {w}]
        /\ task' = [task EXCEPT ![t].writes = Tail(@),
                                ![t].at = IF Tail(task[t].writes) = <<>> THEN "current" ELSE @,
                                ![t].to = IF Tail(task[t].writes) = <<>> THEN Nowhere ELSE @]
        /\ UNCHANGED <<cache, cache_num, lost, file, now, spinning, calls, told>>

\* The name at the cursor is resolved; memory that was freed may hold any.
Ca_curr_dom ==
    IF cursor.astray # {} THEN Names \cup {NULL}
    ELSE IF cursor.alias # NULL THEN {cursor.alias.alias}
    ELSE IF cursor.entry # NULL THEN {cursor.entry.name} ELSE {NULL}
current(t) ==
    /\ ~spinning /\ task[t].at = "current"
    /\ \E name \in Ca_curr_dom :
         task' = [task EXCEPT ![t] = IF name = NULL THEN NoCall ELSE [NoCall EXCEPT !.at = "ask", !.name = name]]
    /\ UNCHANGED <<cache, cache_num, lost, cursor, file, now, spinning, calls, told>>

\* [CNAME], [ALIAS] and [SAVE]: what was entered is resolved afterwards, and
\* with [SAVE] the name at the cursor.
Tells(u) == [name |-> u.name, ip |-> u.ip, until |-> Until(u.ttl)]

command(t, u) ==
    /\ Calling(t)
    /\ task' = [task EXCEPT ![t] = [NoCall EXCEPT !.at = "update", !.name = u.name, !.todo = <<u>>]]
    /\ UNCHANGED <<cache, cache_num, lost, cursor, file, now, spinning, told>>

SAVE(t) ==
    /\ Calling(t)
    /\ task' = [task EXCEPT ![t] = [NoCall EXCEPT !.at = "create", !.name = CURRENT]]
    /\ UNCHANGED <<cache, cache_num, lost, cursor, file, now, spinning, told>>

\* The next server is asked, if there is one.
Onwards(c) == IF c.server < Servers THEN [c EXCEPT !.server = @ + 1, !.udp_try = 1] ELSE NoCall
NextServer(t) == task' = [task EXCEPT ![t] = Onwards(@)]

\* Nothing came within DNS_TIMEOUT.
\* Plausible slip: the tries are not counted.
TriesAgain(t) == task[t].at = "query" /\ UNCHANGED task
Expires(t) ==
    /\ task[t].at = "query"
    /\ IF task[t].udp_try < UDP_MAX_TRIES
       THEN task' = [task EXCEPT ![t].udp_try = @ + 1] ELSE NextServer(t)
timeout(t) ==
    /\ ~spinning /\ Expires(t)
    /\ UNCHANGED <<cache, cache_num, lost, cursor, file, now, spinning, calls, told>>

\* An ICMP error, no memory, no answer in the reply, or a truncated one: the
\* query over TCP that follows lacks its last two bytes.
fail(t) ==
    /\ ~spinning /\ task[t].at = "query" /\ NextServer(t)
    /\ UNCHANGED <<cache, cache_num, lost, cursor, file, now, spinning, calls, told>>

\* A reply; one to the last try counts as none.
reply(t, r) ==
    /\ ~spinning /\ task[t].at = "query" /\ r.name = task[t].name
    /\ IF task[t].udp_try >= UDP_MAX_TRIES THEN NextServer(t)
       ELSE task' = [task EXCEPT ![t] = [NoCall EXCEPT !.at = "update",
                       !.todo = <<[name |-> r.real, ip |-> r.ip, ttl |-> r.ttl, type |-> "DNS_A"],
                                  [name |-> r.name, ip |-> r.ip, ttl |-> r.ttl, type |-> "DNS_CNAME"]>>]]
    /\ UNCHANGED <<cache, cache_num, lost, cursor, file, now, spinning, calls, told>>

\* What a call does when an update and its save are over.
After(c) ==
    IF c.todo # <<>> THEN [c EXCEPT !.at = "update"]
    ELSE IF c.name # CURRENT THEN [c EXCEPT !.at = IF c.name = NULL THEN "none" ELSE "ask"]
    ELSE [c EXCEPT !.at = "current"]

\* Without memory nothing is entered and nothing saved.
update(t) ==
    /\ ~spinning /\ task[t].at = "update"
    /\ told' = told \cup {Tells(Head(task[t].todo))}
    /\ LET c == [task[t] EXCEPT !.todo = Tail(@)]
       IN  \/ /\ update_cache(Head(task[t].todo))
              /\ task' = [task EXCEPT ![t] = [c EXCEPT !.at = "create"]]
           \/ task' = [task EXCEPT ![t] = After(c)] /\ UNCHANGED <<cache, cache_num, lost, cursor, spinning>>
    /\ UNCHANGED <<file, now, calls>>

\* save_cache: the file is emptied before the semaphore is taken.
create(t) ==
    /\ ~spinning /\ task[t].at = "create"
    /\ file' = <<>>
    /\ task' = [task EXCEPT ![t].at = "save"]
    /\ UNCHANGED <<cache, cache_num, lost, cursor, now, spinning, calls, told>>
save(t) ==
    /\ ~spinning /\ task[t].at = "save"
    /\ file' = cache
    /\ task' = [task EXCEPT ![t] = After(@)]
    /\ UNCHANGED <<cache, cache_num, lost, cursor, now, spinning, calls, told>>

\* [LOAD]: without the file nothing changes; a list is emptied first.
load(t) ==
    /\ Calling(t)
    /\ \E at \in {"current", IF cache = <<>> THEN "fill" ELSE "erase"} :
         task' = [task EXCEPT ![t] = [NoCall EXCEPT !.at = at, !.name = CURRENT]]
    /\ UNCHANGED <<cache, cache_num, lost, cursor, file, now, spinning, told>>
erase_cache(t) ==
    /\ ~spinning /\ task[t].at = "erase"
    /\ cache' = <<>> /\ cache_num' = 0 /\ lost' = 0 /\ cursor' = At(Nowhere)
    /\ task' = [task EXCEPT ![t].at = "fill"]
    /\ UNCHANGED <<file, now, spinning, calls, told>>

\* The list is read until the file ends or there is no memory, which may be among
\* the aliases of an entry.
UpTo(contents, n, k) == [SubSeq(contents, 1, n) EXCEPT ![n].alias = SubSeq(@, 1, k)]
Readable(contents) ==
    {<<>>} \cup UNION {{UpTo(contents, n, k) : k \in 0 .. Len(contents[n].alias)} : n \in DOMAIN contents}
fill(t) ==
    /\ ~spinning /\ task[t].at = "fill"
    /\ \E list \in Readable(file) : load_cache(list)
    /\ task' = [task EXCEPT ![t].at = "rewind"]
    /\ UNCHANGED <<file, now, calls, told>>

asks(t) ==
    /\ ~spinning /\ task[t].at = "ask"
    /\ Resolves(t, task[t].name)
    /\ UNCHANGED <<file, now, calls, told>>

(***************************************************************************)
(* The machine                                                             *)
(***************************************************************************)
tick ==
    /\ ~spinning /\ now < MaxTime /\ now' = now + 1
    /\ told' = {r \in told : r.until = 0 \/ r.until > now}
    /\ UNCHANGED <<cache, cache_num, lost, cursor, task, file, spinning, calls>>

\* The machine stops, with a file that is being written partly written, starts
\* and loads the cache.  Nobody writes while clean_up does not end.
Halves == IF ~spinning /\ \E t \in Tasks : task[t].at = "save" THEN Readable(cache) ELSE {file}
restart ==
    /\ calls < Calls /\ calls' = calls + 1
    /\ \E f \in Halves : \E list \in Readable(f) :
         LET left == clean_up(list, Len(list))
         IN  /\ file' = f /\ cache' = left.list /\ cache_num' = left.num
             /\ spinning' = (left.num > DNS_CACHE) /\ cursor' = At(Root(left.list))
    /\ lost' = 0
    /\ task' = [t \in Tasks |-> NoCall]
    /\ UNCHANGED <<now, told>>

\* clean_up finds nothing to remove: the machine hangs until it is restarted.
Hangs == spinning /\ UNCHANGED vars
\* The bound of the model is reached.
Rests == calls = Calls /\ UNCHANGED vars

Answered(t) == \E r \in Zone : reply(t, r)
Steps(t) == \/ rewind(t) \/ move(t) \/ current(t) \/ erase_cache(t) \/ fill(t)
            \/ asks(t) \/ update(t) \/ create(t) \/ save(t) \/ timeout(t) \/ fail(t) \/ Answered(t)

Next ==
    \/ \E t \in Tasks : \/ \E z \in Zone : my_resolve(t, z.name)
                        \/ Ca_first_dom(t) \/ Ca_next_dom(t) \/ load(t) \/ SAVE(t)
                        \/ \E u \in Commands : command(t, u)
                        \/ Steps(t)
    \/ tick \/ restart \/ Hangs \/ Rests

\* All that is assumed is that a query that waits is timed out.
Spec == Init /\ [][Next]_vars /\ \A t \in Tasks : WF_vars(timeout(t))

(***************************************************************************)
(* Properties                                                              *)
(***************************************************************************)
\* Whatever the cache would answer now was said by a server or a user, for this
\* name and this address, and still holds; also after the cache was loaded.
AnswersFresh ==
    \A n \in Names : \A ip \in query_name(Kept(cache), n) :
        \E r \in told : r.name = n /\ r.ip = ip /\ (r.until = 0 \/ r.until >= now)

\* The number of entries is what it is thought to be, but for those that a load
\* dropped because they came between its two halves; it is within its limit unless
\* clean_up finds nothing to remove, and no entry is there twice.
CacheIsSound ==
    /\ cache_num = Len(cache) + lost /\ (spinning <=> cache_num > DNS_CACHE)
    /\ \A i, j \in DOMAIN cache : cache[i].name = cache[j].name /\ cache[i].ip = cache[j].ip => i = j

\* The words of the cursor lead to an entry and an alias that exist, whoever removed
\* entries since they were written, unless what they lead to had gone before.
CursorIsSound == \A w \in Words \ cursor.astray : Leads(cursor, w, cache)

\* A query ends, with an answer or without.
QueryEnds == \A t \in Tasks : task[t].at = "query" ~> (task[t].at # "query" \/ spinning)
=============================================================================
