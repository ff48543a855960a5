--------------------------- MODULE ResolverProofs ---------------------------
(***************************************************************************)
(* For any number of tasks, names, servers and entries, and any restarts   *)
(* in between: the count of the resolver's cache is off by what a load     *)
(* dropped between its halves and by nothing else, no entry is there       *)
(* twice, each word of the cursor that was not written too late leads to   *)
(* what is there, and what is answered was said and still holds.           *)
(***************************************************************************)
EXTENDS Resolver, SequenceLemmas, TLAPS

(***************************************************************************)
(* What clean_up leaves of a list                                          *)
(***************************************************************************)
\* t is s without some of its places: each place of t stands for another one of s.
Stands(t, s, I, g) ==
    /\ g \in [1 .. Len(t) -> I]
    /\ \A j, k \in 1 .. Len(t) : g[j] = g[k] => j = k
    /\ \A j \in 1 .. Len(t) : t[j] = s[g[j]]

LEMMA AtPlacesSound ==
    ASSUME NEW S, NEW s \in Seq(S), NEW I, I \subseteq 1 .. Len(s)
    PROVE  /\ AtPlaces(s, I) \in Seq(S) /\ Len(AtPlaces(s, I)) <= Len(s)
           /\ \E g : Stands(AtPlaces(s, I), s, I, g)
<1> DEFINE Piece(i) == IF i \in I THEN <<s[i]>> ELSE <<>>
           Up(n) == [i \in 1 .. n |-> Piece(i)]
           Right(n) == /\ FlattenSeq(Up(n)) \in Seq(S) /\ Len(FlattenSeq(Up(n))) <= n
                       /\ \E g : Stands(FlattenSeq(Up(n)), s, I \cap 1 .. n, g)
           T == {n \in Nat : n <= Len(s) => Right(n)}
<1>1. Len(s) \in Nat /\ \A i \in 1 .. Len(s) : s[i] \in S
  OBVIOUS
<1>2. \A i \in 1 .. Len(s) : Piece(i) \in Seq(S)
  BY <1>1
<1>3. \A n \in Nat : n <= Len(s) => Up(n) \in Seq(Seq(S)) /\ Len(Up(n)) = n
  BY <1>1, <1>2
<1>4. Right(0)
  <2>1. Up(0) = <<>> /\ <<>> \in Seq(S) /\ Len(<<>>) = 0
    OBVIOUS
  <2>2. FlattenSeq(<<>>) = <<>>
    BY <2>1, FlattenFew
  <2> HIDE DEF Up
  <2>3. FlattenSeq(Up(0)) = <<>>
    BY <2>1, <2>2
  <2>4. PICK t : t = FlattenSeq(Up(0))
    OBVIOUS
  <2>5. t = <<>>
    BY <2>3, <2>4
  <2>6. Stands(t, s, I \cap 1 .. 0, <<>>)
    BY <2>5 DEF Stands
  <2>7. t \in Seq(S) /\ Len(t) <= 0
    BY <2>5
  <2> QED BY <2>4, <2>6, <2>7
<1>5. ASSUME NEW n \in Nat, n + 1 <= Len(s), Right(n) PROVE Right(n + 1)
  <2> DEFINE e == Piece(n + 1)
  <2>1. Right(n) /\ n <= Len(s) /\ n + 1 \in 1 .. Len(s)
    <3> HIDE DEF Right
    <3> QED BY <1>1, <1>5
  <2>2. Up(n) \in Seq(Seq(S)) /\ e \in Seq(S) /\ Len(Up(n)) = n
    BY <1>2, <1>3, <2>1
  <2>3. Up(n + 1) = Append(Up(n), e)
    BY <1>2, <1>3, <2>1, <2>2
  <2> HIDE DEF Up
  <2>4. FlattenSeq(Up(n + 1)) = FlattenSeq(Up(n)) \o e
    BY <2>2, <2>3, FlattenStep
  <2>5. PICK t : t = FlattenSeq(Up(n))
    OBVIOUS
  <2>6. PICK g : Stands(t, s, I \cap 1 .. n, g)
    BY <2>1, <2>5
  <2>7. t \in Seq(S) /\ Len(t) \in Nat /\ Len(t) <= n
    BY <2>1, <2>5
  <2>8. CASE n + 1 \notin I
    <3>1. t \o e = t
      BY <2>7, <2>8, ConcatEmptySeq
    <3>2. Stands(t, s, I \cap 1 .. n + 1, g)
      BY <2>6 DEF Stands
    <3> QED BY <2>4, <2>5, <2>7, <3>1, <3>2
  <2>9. CASE n + 1 \in I
    <3> DEFINE u == t \o <<s[n + 1]>>
               h == [j \in 1 .. Len(t) + 1 |-> IF j <= Len(t) THEN g[j] ELSE n + 1]
    <3>1. /\ u \in Seq(S) /\ Len(u) = Len(t) + 1 /\ u[Len(t) + 1] = s[n + 1]
          /\ \A j \in 1 .. Len(t) : u[j] = t[j]
      BY <1>1, <2>1, <2>7
    <3>2. \A j \in 1 .. Len(t) : g[j] \in I /\ g[j] \in 1 .. n /\ h[j] = g[j] /\ h[Len(t) + 1] = n + 1
      <4>1. \A j \in 1 .. Len(t) : g[j] \in I /\ g[j] \in 1 .. n
        <5> HIDE DEF h, u
        <5> QED BY <2>6 DEF Stands
      <4>2. Len(t) + 1 \in 1 .. Len(t) + 1 /\ ~(Len(t) + 1 <= Len(t))
            /\ \A j \in 1 .. Len(t) : j \in 1 .. Len(t) + 1 /\ j <= Len(t)
        <5> HIDE DEF h, u
        <5> QED BY <2>7
      <4> QED BY <4>1, <4>2
    <3>3. h \in [1 .. Len(u) -> I \cap 1 .. n + 1]
      <4>1. Len(u) = Len(t) + 1 /\ n + 1 \in I \cap 1 .. n + 1
        BY <2>9, <3>1
      <4>2. \A j \in 1 .. Len(t) + 1 : j <= Len(t) => j \in 1 .. Len(t)
        BY <2>7
      <4>3. \A j \in 1 .. Len(t) : g[j] \in I \cap 1 .. n + 1
        <5> HIDE DEF h
        <5> QED BY <1>5, <3>2
      <4> HIDE DEF u
      <4> QED BY <4>1, <4>2, <4>3
    <3>4. \A j, k \in 1 .. Len(u) : h[j] = h[k] => j = k
      <4>1. \A j, k \in 1 .. Len(t) : g[j] = g[k] => j = k
        BY <2>6 DEF Stands
      <4>2. \A j \in 1 .. Len(t) : g[j] # n + 1
        <5> HIDE DEF h
        <5> QED BY <3>2
      <4>3. \A j \in 1 .. Len(u) : j \in 1 .. Len(t) \/ j = Len(t) + 1
        BY <2>7, <3>1
      <4>4. h[Len(t) + 1] = n + 1
        BY <2>7
      <4> HIDE DEF u, h
      <4> QED BY <3>2, <4>1, <4>2, <4>3, <4>4
    <3>5. \A j \in 1 .. Len(u) : u[j] = s[h[j]]
      BY <2>6, <2>7, <3>1, <3>2 DEF Stands
    <3>6. Stands(u, s, I \cap 1 .. n + 1, h)
      BY <3>3, <3>4, <3>5 DEF Stands
    <3>7. FlattenSeq(Up(n + 1)) = u
      BY <2>4, <2>5, <2>9
    <3> HIDE DEF u, h
    <3> QED BY <2>7, <3>1, <3>6, <3>7
  <2> QED BY <2>8, <2>9
<1> HIDE DEF Right
<1>6. 0 \in T /\ \A n \in Nat : n \in T => n + 1 \in T
  BY <1>1, <1>4, <1>5
<1>7. ASSUME \A n \in Nat : n \in T PROVE Right(Len(s))
  BY <1>1, <1>7
<1>8. Right(Len(s))
  <2> HIDE DEF T
  <2> QED BY <1>6, <1>7, NatGrows
<1>9. Up(Len(s)) = [i \in 1 .. Len(s) |-> IF i \in I THEN <<s[i]>> ELSE <<>>] /\ I \cap 1 .. Len(s) = I
  OBVIOUS
<1> HIDE DEF Up
<1> QED BY <1>8, <1>9 DEF AtPlaces, Right

(***************************************************************************)
(* What is true of a list                                                  *)
(***************************************************************************)
\* What servers and users may say of names and addresses.
FromServer(r, name, type) == [name |-> name, ip |-> r.ip, ttl |-> r.ttl, type |-> type]
Sayings == Commands \cup {FromServer(r, r.real, "DNS_A") : r \in Zone}
                    \cup {FromServer(r, r.name, "DNS_CNAME") : r \in Zone}

\* No entry is there twice.
Apart(list) ==
    \A i, j \in 1 .. Len(list) : list[i].name = list[j].name /\ list[i].ip = list[j].ip => i = j

\* That name has the address was said, and for as long as expiry says, if that
\* is not past.
Backed(name, ip, expiry, said, time) ==
    expiry = 0 \/ expiry >= time =>
        \E r \in said : /\ r.name = name /\ r.ip = ip
                        /\ r.until = 0 \/ (expiry # 0 /\ r.until >= expiry)

\* An entry and its aliases were said, those without expiry by somebody who said
\* for ever, and aliases with an expiry by somebody who did not.
Honest(e, said, time) ==
    /\ Backed(e.name, e.ip, e.expiry, said, time)
    /\ e.expiry = 0 => \E u \in Sayings : u.ip = e.ip /\ u.ttl = 0
    /\ \A k \in 1 .. Len(e.alias) :
         /\ Backed(e.alias[k].name, e.ip, e.alias[k].expiry, said, time)
         /\ e.alias[k].expiry # 0 =>
              \E u \in Sayings : u.ip = e.ip /\ u.ttl # 0 /\ u.type = "DNS_CNAME"

Sound(list, said, time) ==
    /\ list \in Seq(Entries) /\ Apart(list)
    /\ \A i \in 1 .. Len(list) : Honest(list[i], said, time)

\* The words of a cursor that are not astray lead into the list.
Pointers == [entry : [name : Names, ip : IPs] \cup {NULL},
             alias : [name : Names, ip : IPs, alias : Names] \cup {NULL}, astray : SUBSET Words]
Led(c, list) == \A w \in Words \ c.astray : Leads(c, w, list)

Alias == [name : Names, expiry : Nat]

LEMMA EntryParts ==
    ASSUME NEW e \in Entries
    PROVE  /\ e.name \in Names /\ e.ip \in IPs /\ e.expiry \in Nat /\ e.used \in Nat
           /\ e.alias \in Seq(Alias) /\ Len(e.alias) \in Nat
           /\ \A k \in 1 .. Len(e.alias) : e.alias[k] \in Alias
<1>1. /\ e.name \in Names /\ e.ip \in IPs /\ e.expiry \in Nat /\ e.used \in Nat
      /\ e.alias \in Seq(Alias)
  BY DEF Entries, Alias
<1>2. PICK a : a = e.alias
  OBVIOUS
<1>3. a \in Seq(Alias) /\ Len(a) \in Nat /\ \A k \in 1 .. Len(a) : a[k] \in Alias
  BY <1>1, <1>2
<1> QED BY <1>1, <1>2, <1>3

\* The aliases that are left are among those there were.
LEMMA LiveAliasesSound ==
    ASSUME NEW e \in Entries
    PROVE  /\ LiveAliases(e) \in Entries
           /\ LiveAliases(e).name = e.name /\ LiveAliases(e).ip = e.ip
           /\ LiveAliases(e).expiry = e.expiry
           /\ \A k \in 1 .. Len(LiveAliases(e).alias) : \E j \in 1 .. Len(e.alias) :
                LiveAliases(e).alias[k] = e.alias[j] /\ (e.alias[j].expiry >= now \/ e.expiry = 0)
<1> DEFINE I == {i \in DOMAIN e.alias : e.alias[i].expiry >= now \/ e.expiry = 0}
<1>1. e.alias \in Seq(Alias) /\ I \subseteq 1 .. Len(e.alias)
  BY EntryParts
<1>2. PICK a : a = AtPlaces(e.alias, I)
  OBVIOUS
<1>3. LiveAliases(e) = [e EXCEPT !.alias = a]
  BY <1>2 DEF LiveAliases
<1>4. PICK g : Stands(a, e.alias, I, g)
  BY <1>1, <1>2, AtPlacesSound
<1>5. a \in Seq(Alias)
  BY <1>1, <1>2, AtPlacesSound
<1>6. \A k \in 1 .. Len(a) : g[k] \in I /\ a[k] = e.alias[g[k]]
  BY <1>4 DEF Stands
<1>7. /\ LiveAliases(e) \in Entries /\ LiveAliases(e).alias = a
      /\ LiveAliases(e).name = e.name /\ LiveAliases(e).ip = e.ip
      /\ LiveAliases(e).expiry = e.expiry
  BY <1>3, <1>5 DEF Entries, Alias
<1> QED BY <1>1, <1>6, <1>7

LEMMA AliveHonest ==
    ASSUME NEW e \in Entries, NEW T, Honest(e, T, now)
    PROVE  Honest(LiveAliases(e), T, now)
<1>1. PICK f : f = LiveAliases(e)
  OBVIOUS
<1>2. /\ f.name = e.name /\ f.ip = e.ip /\ f.expiry = e.expiry
      /\ \A k \in 1 .. Len(f.alias) : \E j \in 1 .. Len(e.alias) : f.alias[k] = e.alias[j]
  BY <1>1, LiveAliasesSound
<1>3. Honest(f, T, now)
  BY <1>2 DEF Honest
<1> QED BY <1>1, <1>3

LEMMA KeptSound ==
    ASSUME NEW list \in Seq(Entries)
    PROVE  /\ Kept(list) \in Seq(Entries) /\ Len(Kept(list)) <= Len(list)
           /\ \E g : /\ g \in [1 .. Len(Kept(list)) -> 1 .. Len(list)]
                     /\ \A j, k \in 1 .. Len(Kept(list)) : g[j] = g[k] => j = k
                     /\ \A j \in 1 .. Len(Kept(list)) :
                          Live(list[g[j]]) /\ Kept(list)[j] = LiveAliases(list[g[j]])
<1> DEFINE I == {i \in DOMAIN list : Live(list[i])}
<1>1. I \subseteq 1 .. Len(list) /\ Len(list) \in Nat
  OBVIOUS
<1>2. PICK live : live = AtPlaces(list, I)
  OBVIOUS
<1>3. PICK g : Stands(live, list, I, g)
  BY <1>1, <1>2, AtPlacesSound
<1>4. live \in Seq(Entries) /\ Len(live) <= Len(list) /\ Len(live) \in Nat
  BY <1>1, <1>2, AtPlacesSound
<1>5. Kept(list) = [i \in 1 .. Len(live) |-> LiveAliases(live[i])]
  BY <1>2 DEF Kept
<1>6. \A i \in 1 .. Len(live) : live[i] \in Entries /\ LiveAliases(live[i]) \in Entries
  BY <1>4, LiveAliasesSound
<1>7. Kept(list) \in Seq(Entries) /\ Len(Kept(list)) = Len(live)
  BY <1>4, <1>5, <1>6
<1>8. \A j \in 1 .. Len(live) :
        g[j] \in I /\ live[j] = list[g[j]] /\ Kept(list)[j] = LiveAliases(live[j])
  BY <1>3, <1>5 DEF Stands
<1>9. g \in [1 .. Len(live) -> 1 .. Len(list)] /\ \A j, k \in 1 .. Len(live) : g[j] = g[k] => j = k
  BY <1>1, <1>3 DEF Stands
<1>10. \A j \in 1 .. Len(live) : Live(list[g[j]]) /\ Kept(list)[j] = LiveAliases(list[g[j]])
  BY <1>8
<1> HIDE DEF I
<1>11. PICK kept : kept = Kept(list)
  OBVIOUS
<1>12. /\ Len(kept) = Len(live)
       /\ \A j \in 1 .. Len(kept) : Live(list[g[j]]) /\ kept[j] = LiveAliases(list[g[j]])
  BY <1>7, <1>10, <1>11
<1> QED BY <1>4, <1>7, <1>9, <1>11, <1>12

LEMMA KeptIsSound ==
    ASSUME NEW list, NEW T, Sound(list, T, now)
    PROVE  Sound(Kept(list), T, now)
<1>1. list \in Seq(Entries) /\ Apart(list) /\ \A i \in 1 .. Len(list) : Honest(list[i], T, now)
  BY DEF Sound
<1>2. PICK kept : kept = Kept(list)
  OBVIOUS
<1>3. PICK g : /\ g \in [1 .. Len(kept) -> 1 .. Len(list)]
               /\ \A j, k \in 1 .. Len(kept) : g[j] = g[k] => j = k
               /\ \A j \in 1 .. Len(kept) : kept[j] = LiveAliases(list[g[j]])
  BY <1>1, <1>2, KeptSound
<1>4. \A j \in 1 .. Len(kept) : /\ g[j] \in 1 .. Len(list) /\ list[g[j]] \in Entries
                                /\ kept[j].name = list[g[j]].name /\ kept[j].ip = list[g[j]].ip
                                /\ Honest(kept[j], T, now)
  <2> SUFFICES ASSUME NEW j \in 1 .. Len(kept)
               PROVE  /\ g[j] \in 1 .. Len(list) /\ list[g[j]] \in Entries
                      /\ kept[j].name = list[g[j]].name /\ kept[j].ip = list[g[j]].ip
                      /\ Honest(kept[j], T, now)
    OBVIOUS
  <2>1. PICK e : e = list[g[j]]
    OBVIOUS
  <2>2. g[j] \in 1 .. Len(list) /\ e \in Entries /\ Honest(e, T, now) /\ kept[j] = LiveAliases(e)
    BY <1>1, <1>3, <2>1
  <2> QED BY <2>1, <2>2, LiveAliasesSound, AliveHonest
<1>5. Apart(kept)
  <2> SUFFICES ASSUME NEW j \in 1 .. Len(kept), NEW k \in 1 .. Len(kept),
                      kept[j].name = kept[k].name, kept[j].ip = kept[k].ip
               PROVE  j = k
    BY DEF Apart
  <2>1. PICK a, b : a = g[j] /\ b = g[k]
    OBVIOUS
  <2>2. /\ a \in 1 .. Len(list) /\ b \in 1 .. Len(list)
        /\ list[a].name = list[b].name /\ list[a].ip = list[b].ip
    BY <1>4, <2>1
  <2>3. a = b
    BY <1>1, <2>2 DEF Apart
  <2> QED BY <1>3, <2>1, <2>3
<1>6. kept \in Seq(Entries)
  BY <1>1, <1>2, KeptSound
<1> QED BY <1>2, <1>4, <1>5, <1>6 DEF Sound

\* Places may be taken out of a list.
LEMMA PlacesAreSound ==
    ASSUME NEW list, NEW T, NEW w, Sound(list, T, w), NEW I, I \subseteq 1 .. Len(list)
    PROVE  Sound(AtPlaces(list, I), T, w) /\ Len(AtPlaces(list, I)) <= Len(list)
<1>1. list \in Seq(Entries) /\ Apart(list) /\ \A j \in 1 .. Len(list) : Honest(list[j], T, w)
  BY DEF Sound
<1>2. PICK left : left = AtPlaces(list, I)
  OBVIOUS
<1>3. left \in Seq(Entries) /\ Len(left) <= Len(list) /\ \E g : Stands(left, list, I, g)
  BY <1>1, <1>2, AtPlacesSound
<1>4. PICK g : Stands(left, list, I, g)
  BY <1>3
<1>5. /\ \A j, k \in 1 .. Len(left) : g[j] = g[k] => j = k
      /\ \A j \in 1 .. Len(left) : g[j] \in 1 .. Len(list) /\ left[j] = list[g[j]]
  BY <1>4 DEF Stands
<1>6. Apart(left)
  BY <1>1, <1>5 DEF Apart
<1>7. \A j \in 1 .. Len(left) : Honest(left[j], T, w)
  BY <1>1, <1>5
<1> QED BY <1>2, <1>3, <1>6, <1>7 DEF Sound

\* clean_up leaves a list as sound as it was, and counts what it takes away.
LEMMA CleanIsSound ==
    ASSUME NEW list, NEW T, Sound(list, T, now), NEW num \in Int, NEW c, c = clean_up(list, num)
    PROVE  /\ Sound(c.list, T, now) /\ c.num \in Int
           /\ Len(c.list) <= Len(list)
           /\ c.num - Len(c.list) = num - Len(list)
<1>1. list \in Seq(Entries) /\ Len(list) \in Nat
  BY DEF Sound
<1>2. PICK kept : kept = Kept(list)
  OBVIOUS
<1>3. Sound(kept, T, now) /\ kept \in Seq(Entries) /\ Len(kept) <= Len(list) /\ Len(kept) \in Nat
  BY <1>1, <1>2, KeptIsSound, KeptSound
<1>4. PICK n : n = num - (Len(list) - Len(kept))
  OBVIOUS
<1>5. n \in Int
  BY <1>1, <1>3, <1>4
<1>6. c = Crushed(kept, n)
  BY <1>2, <1>4 DEF clean_up
<1>7. PICK left : left = Younger(kept, n - DNS_CACHE)
  OBVIOUS
<1>8. c.list = left /\ c.num = n - (Len(kept) - Len(left))
  BY <1>6, <1>7 DEF Crushed
<1>9. Sound(left, T, now) /\ Len(left) <= Len(kept)
  <2>1. PICK I : I = DOMAIN kept \ Oldest(kept, n - DNS_CACHE)
    OBVIOUS
  <2>2. I \subseteq 1 .. Len(kept) /\ left = AtPlaces(kept, I)
    BY <1>3, <1>7, <2>1 DEF Younger
  <2> QED BY <1>3, <2>2, PlacesAreSound
<1>10. Len(left) \in Nat
  <2>1. left \in Seq(Entries)
    BY <1>9 DEF Sound
  <2> QED BY <2>1
<1> QED BY <1>1, <1>3, <1>4, <1>5, <1>8, <1>9, <1>10

(***************************************************************************)
(* What the updates make of a list                                         *)
(***************************************************************************)
\* Every entry of old is in new, perhaps with more aliases.
Keeps(old, new) ==
    \A i \in 1 .. Len(old) : \E j \in 1 .. Len(new) :
        /\ new[j].name = old[i].name /\ new[j].ip = old[i].ip
        /\ \A k \in 1 .. Len(old[i].alias) : \E l \in 1 .. Len(new[j].alias) :
             new[j].alias[l].name = old[i].alias[k].name

LEMMA LeadsStill ==
    ASSUME NEW c, NEW old \in Seq(Entries), NEW new \in Seq(Entries), Led(c, old), Keeps(old, new)
    PROVE  Led(c, new)
<1> SUFFICES ASSUME NEW w \in Words \ c.astray, c[w] # NULL PROVE Leads(c, w, new)
  BY DEF Led, Leads
<1>1. PICK i \in 1 .. Len(old) :
        /\ Is(old[i], c[w])
        /\ w = "entry" \/ \E d \in ToSet(old[i].alias) : d.name = c[w].alias
  BY DEF Led, Leads
<1>2. PICK j \in 1 .. Len(new) :
        /\ new[j].name = old[i].name /\ new[j].ip = old[i].ip
        /\ \A k \in 1 .. Len(old[i].alias) : \E l \in 1 .. Len(new[j].alias) :
             new[j].alias[l].name = old[i].alias[k].name
  BY DEF Keeps
<1>3. old[i] \in Entries /\ new[j] \in Entries
  OBVIOUS
<1>4. PICK a, b : a = old[i].alias /\ b = new[j].alias
  OBVIOUS
<1>5. a \in Seq(Alias) /\ b \in Seq(Alias)
  BY <1>3, <1>4, EntryParts
<1>6. ToSet(a) = {a[k] : k \in 1 .. Len(a)} /\ ToSet(b) = {b[k] : k \in 1 .. Len(b)}
  BY <1>5 DEF ToSet
<1>7. w = "entry" \/ \E d \in ToSet(b) : d.name = c[w].alias
  BY <1>1, <1>2, <1>4, <1>6
<1>8. Is(new[j], c[w]) /\ j \in DOMAIN new
  BY <1>1, <1>2 DEF Is
<1> QED BY <1>4, <1>7, <1>8 DEF Leads

LEMMA TouchSound ==
    ASSUME now \in Nat, NEW e \in Entries
    PROVE  /\ Touch(e) \in Entries
           /\ Touch(e).name = e.name /\ Touch(e).ip = e.ip
           /\ Touch(e).expiry = e.expiry /\ Touch(e).alias = e.alias
BY DEF Touch, Entries

LEMMA UntilSound ==
    ASSUME now \in Nat \ {0}, NEW ttl \in Nat
    PROVE  Until(ttl) \in Nat /\ (Until(ttl) = 0 <=> ttl = 0)
BY DEF Until

Put(list, i, e) == [list EXCEPT ![i] = e]

\* An entry takes another's place: the name and address stay.
LEMMA ChangedIsSound ==
    ASSUME NEW list, NEW T, NEW w, Sound(list, T, w), NEW i \in 1 .. Len(list),
           NEW e \in Entries, e.name = list[i].name, e.ip = list[i].ip, Honest(e, T, w)
    PROVE  Sound(Put(list, i, e), T, w) /\ Len(Put(list, i, e)) = Len(list)
<1>1. list \in Seq(Entries) /\ Apart(list) /\ \A j \in 1 .. Len(list) : Honest(list[j], T, w)
  BY DEF Sound
<1>2. PICK new : new = Put(list, i, e)
  OBVIOUS
<1>3. /\ new \in Seq(Entries) /\ Len(new) = Len(list)
      /\ \A j \in 1 .. Len(list) : new[j] = IF j = i THEN e ELSE list[j]
  BY <1>1, <1>2 DEF Put
<1>4. \A j \in 1 .. Len(new) : /\ new[j].name = list[j].name /\ new[j].ip = list[j].ip
                               /\ Honest(new[j], T, w)
  BY <1>1, <1>3
<1>5. Apart(new)
  BY <1>1, <1>3, <1>4 DEF Apart
<1> QED BY <1>2, <1>3, <1>4, <1>5 DEF Sound

LEMMA ChangedKeeps ==
    ASSUME NEW list \in Seq(Entries), NEW i \in 1 .. Len(list),
           NEW e \in Entries, e.name = list[i].name, e.ip = list[i].ip,
           \A k \in 1 .. Len(list[i].alias) : \E l \in 1 .. Len(e.alias) :
               e.alias[l].name = list[i].alias[k].name
    PROVE  Keeps(list, Put(list, i, e))
<1>1. PICK new : new = Put(list, i, e)
  OBVIOUS
<1>2. /\ Len(new) = Len(list)
      /\ \A j \in 1 .. Len(list) : new[j] = IF j = i THEN e ELSE list[j]
  BY <1>1 DEF Put
<1>3. ASSUME NEW j \in 1 .. Len(list)
      PROVE  /\ new[j].name = list[j].name /\ new[j].ip = list[j].ip
             /\ \A k \in 1 .. Len(list[j].alias) : \E l \in 1 .. Len(new[j].alias) :
                  new[j].alias[l].name = list[j].alias[k].name
  <2>1. CASE j = i
    <3>1. new[j] = e
      BY <1>2, <2>1
    <3> QED BY <2>1, <3>1
  <2>2. CASE j # i
    <3>1. new[j] = list[j]
      BY <1>2, <2>2
    <3> QED BY <3>1
  <2> QED BY <2>1, <2>2
<1> QED BY <1>1, <1>2, <1>3 DEF Keeps

\* u was just said.
Spoken(u, T) == now \in Nat \ {0} /\ u \in Updates /\ u \in Sayings /\ Tells(u) \in T

\* What was just said of an entry's name and address is true of the entry.
LEMMA RenewedIsHonest ==
    ASSUME NEW T, NEW u, Spoken(u, T),
           NEW old \in Entries, Honest(old, T, now), old.name = u.name, old.ip = u.ip
    PROVE  /\ Renewed(old, u) \in Entries /\ Honest(Renewed(old, u), T, now)
           /\ Renewed(old, u).name = old.name /\ Renewed(old, u).ip = old.ip
           /\ Renewed(old, u).alias = old.alias
<1>0. now \in Nat \ {0} /\ u \in Updates /\ u \in Sayings /\ Tells(u) \in T
  BY DEF Spoken
<1> DEFINE e == Renewed(old, u)
<1>1. u.ttl \in Nat
  BY <1>0 DEF Updates
<1>2. Until(u.ttl) \in Nat /\ (Until(u.ttl) = 0 <=> u.ttl = 0)
  BY <1>0, <1>1, UntilSound
<1>3. PICK f : f = Touch(old)
  OBVIOUS
<1>4. /\ f \in Entries /\ f.name = old.name /\ f.ip = old.ip /\ f.alias = old.alias
  BY <1>0, <1>3, TouchSound
<1>5. /\ e \in Entries /\ e.name = old.name /\ e.ip = old.ip /\ e.alias = old.alias
      /\ e.expiry = Until(u.ttl)
  BY <1>2, <1>3, <1>4 DEF Entries, Renewed
<1> HIDE DEF e
<1>6. Backed(e.name, e.ip, e.expiry, T, now)
  <2>1. /\ Tells(u).name = e.name /\ Tells(u).ip = e.ip /\ Tells(u).until = e.expiry
    BY <1>5 DEF Tells
  <2> QED BY <1>0, <1>2, <1>5, <2>1 DEF Backed
<1>7. e.expiry = 0 => \E v \in Sayings : v.ip = e.ip /\ v.ttl = 0
  BY <1>0, <1>2, <1>5
<1>8. Honest(e, T, now)
  BY <1>5, <1>6, <1>7 DEF Honest
<1> QED BY <1>5, <1>8 DEF e

LEMMA AddedIsSound ==
    ASSUME NEW list, NEW T, NEW w, Sound(list, T, w), NEW e \in Entries, Honest(e, T, w),
           \A i \in 1 .. Len(list) : ~(list[i].name = e.name /\ list[i].ip = e.ip)
    PROVE  /\ Sound(<<e>> \o list, T, w) /\ Len(<<e>> \o list) = Len(list) + 1
           /\ Keeps(list, <<e>> \o list)
<1>1. list \in Seq(Entries) /\ Apart(list) /\ \A j \in 1 .. Len(list) : Honest(list[j], T, w)
  BY DEF Sound
<1>2. PICK new : new = <<e>> \o list
  OBVIOUS
<1>3. /\ new \in Seq(Entries) /\ Len(new) = Len(list) + 1 /\ new[1] = e
      /\ \A j \in 2 .. Len(list) + 1 : new[j] = list[j - 1]
  BY <1>1, <1>2, PrependSound
<1>4. Len(list) \in Nat
  BY <1>1
<1>5. \A j \in 1 .. Len(new) : j = 1 \/ (j - 1 \in 1 .. Len(list) /\ new[j] = list[j - 1])
  BY <1>3, <1>4
<1>6. Apart(new)
  <2> SUFFICES ASSUME NEW j \in 1 .. Len(new), NEW k \in 1 .. Len(new),
                      new[j].name = new[k].name, new[j].ip = new[k].ip
               PROVE  j = k
    BY DEF Apart
  <2>1. CASE j = 1 \/ k = 1
    BY <1>3, <1>5, <2>1
  <2>2. CASE j # 1 /\ k # 1
    <3>1. PICK a, b : a = j - 1 /\ b = k - 1
      OBVIOUS
    <3>2. a \in 1 .. Len(list) /\ b \in 1 .. Len(list) /\ new[j] = list[a] /\ new[k] = list[b]
      BY <1>5, <2>2, <3>1
    <3>3. a = b
      BY <1>1, <3>2 DEF Apart
    <3> QED BY <1>3, <1>4, <3>1, <3>3
  <2> QED BY <2>1, <2>2
<1>7. \A j \in 1 .. Len(new) : Honest(new[j], T, w)
  BY <1>1, <1>3, <1>5
<1>8. \A i \in 1 .. Len(list) : i + 1 \in 1 .. Len(new) /\ new[i + 1] = list[i]
  BY <1>3, <1>4
<1>9. Keeps(list, new)
  <2> SUFFICES ASSUME NEW i \in 1 .. Len(list)
               PROVE  \E j \in 1 .. Len(new) :
                        /\ new[j].name = list[i].name /\ new[j].ip = list[i].ip
                        /\ \A k \in 1 .. Len(list[i].alias) : \E l \in 1 .. Len(new[j].alias) :
                             new[j].alias[l].name = list[i].alias[k].name
    BY DEF Keeps
  <2> QED BY <1>8
<1> QED BY <1>2, <1>3, <1>6, <1>7, <1>9 DEF Sound

\* A record of an address: the entry with its name and address is renewed, or there
\* is a new one.
LEMMA AddressIsSound ==
    ASSUME NEW T, NEW u, Spoken(u, T),
           NEW list, Sound(list, T, now), NEW new, new = UpdatesAddress(u, list)
    PROVE  /\ Sound(new, T, now) /\ Keeps(list, new)
           /\ Len(new) = Len(list) \/ Len(new) = Len(list) + 1
<1> DEFINE is == {i \in DOMAIN list : list[i].name = u.name /\ list[i].ip = u.ip}
<1>1. list \in Seq(Entries) /\ \A i \in 1 .. Len(list) : list[i] \in Entries /\ Honest(list[i], T, now)
  BY DEF Sound
<1>0. now \in Nat \ {0} /\ u \in Updates /\ u \in Sayings /\ Tells(u) \in T
  BY DEF Spoken
<1>2. CASE is # {}
  <2>1. PICK i : i = Min(is)
    OBVIOUS
  <2>2. i \in is /\ i \in 1 .. Len(list)
    <3>1. is \subseteq Nat
      BY <1>1
    <3>2. i \in is
      <4> HIDE DEF is
      <4> QED BY <1>2, <2>1, <3>1, MinIsLeast
    <3> QED BY <1>1, <3>2
  <2>3. PICK e : e = Renewed(list[i], u)
    OBVIOUS
  <2>4. new = Put(list, i, e)
    BY <1>2, <2>1, <2>3 DEF UpdatesAddress, Put
  <2>5. list[i] \in Entries /\ Honest(list[i], T, now) /\ list[i].name = u.name /\ list[i].ip = u.ip
    BY <1>1, <2>2
  <2>6. PICK old : old = list[i]
    OBVIOUS
  <2>7. /\ e \in Entries /\ Honest(e, T, now)
        /\ e.name = old.name /\ e.ip = old.ip /\ e.alias = old.alias
    <3>1. /\ old \in Entries /\ Honest(old, T, now) /\ old.name = u.name /\ old.ip = u.ip
          /\ e = Renewed(old, u)
      BY <2>3, <2>5, <2>6
    <3> QED BY <3>1, RenewedIsHonest
  <2>8. Sound(new, T, now) /\ Len(new) = Len(list)
    <3>1. Sound(list, T, now) /\ e.name = list[i].name /\ e.ip = list[i].ip
      BY <2>6, <2>7
    <3> QED BY ONLY <2>2, <2>4, <2>7, <3>1, ChangedIsSound
  <2>9. Keeps(list, new)
    BY <1>1, <2>2, <2>4, <2>6, <2>7, ChangedKeeps
  <2> QED BY <2>8, <2>9
<1>3. CASE is = {}
  <2>1. PICK e : e = [name |-> u.name, ip |-> u.ip, expiry |-> Until(u.ttl), used |-> now, alias |-> <<>>]
    OBVIOUS
  <2>2. new = <<e>> \o list
    BY <1>3, <2>1 DEF UpdatesAddress
  <2>3. u.name \in Names /\ u.ip \in IPs /\ u.ttl \in Nat
    BY <1>0 DEF Updates
  <2>4. Until(u.ttl) \in Nat /\ (Until(u.ttl) = 0 <=> u.ttl = 0)
    BY <1>0, <2>3, UntilSound
  <2>5. e \in Entries
    BY <1>0, <2>1, <2>3, <2>4 DEF Entries
  <2>6. /\ e.name = u.name /\ e.ip = u.ip /\ e.expiry = Until(u.ttl) /\ Len(e.alias) = 0
    BY <2>1
  <2>7. Tells(u).name = e.name /\ Tells(u).ip = e.ip /\ Tells(u).until = e.expiry
    BY <2>6 DEF Tells
  <2>8. Honest(e, T, now)
    BY <1>0, <2>4, <2>6, <2>7 DEF Honest, Backed
  <2> QED BY <1>3, <2>2, <2>5, <2>6, <2>8, AddedIsSound
<1> QED BY <1>2, <1>3

LEMMA AliasedIsHonest ==
    ASSUME NEW T, NEW u, Spoken(u, T), u.type = "DNS_CNAME",
           NEW old \in Entries, Honest(old, T, now), old.ip = u.ip
    PROVE  /\ Aliased(old, u) \in Entries /\ Honest(Aliased(old, u), T, now)
           /\ Aliased(old, u).name = old.name /\ Aliased(old, u).ip = old.ip
           /\ \A k \in 1 .. Len(old.alias) : \E l \in 1 .. Len(Aliased(old, u).alias) :
                Aliased(old, u).alias[l].name = old.alias[k].name
<1>1. /\ now \in Nat \ {0} /\ u \in Sayings /\ Tells(u) \in T
      /\ u.name \in Names /\ u.ip \in IPs /\ u.ttl \in Nat
  BY DEF Spoken, Updates
<1>2. Until(u.ttl) \in Nat /\ (Until(u.ttl) = 0 <=> u.ttl = 0)
  BY <1>1, UntilSound
<1>3. PICK d : d = [name |-> u.name, expiry |-> Until(u.ttl)]
  OBVIOUS
<1>4. d \in Alias /\ d.name = u.name /\ d.expiry = Until(u.ttl)
  BY <1>1, <1>2, <1>3 DEF Alias
<1>5. PICK f : f = Touch(old)
  OBVIOUS
<1>6. f \in Entries /\ f.name = old.name /\ f.ip = old.ip /\ f.expiry = old.expiry /\ f.alias = old.alias
  BY <1>1, <1>5, TouchSound
<1>7. PICK a : a = old.alias
  OBVIOUS
<1>8. a \in Seq(Alias) /\ Len(a) \in Nat
  BY <1>7, EntryParts
<1>9. PICK b : b = <<d>> \o a
  OBVIOUS
<1>10. /\ b \in Seq(Alias) /\ Len(b) = Len(a) + 1 /\ b[1] = d
       /\ \A k \in 2 .. Len(a) + 1 : b[k] = a[k - 1]
  BY <1>4, <1>8, <1>9, PrependSound
<1>11. PICK e : e = Aliased(old, u)
  OBVIOUS
<1>12. e = [f EXCEPT !.alias = b]
  BY <1>3, <1>5, <1>6, <1>7, <1>9, <1>11 DEF Aliased
<1>13. /\ e \in Entries /\ e.name = old.name /\ e.ip = old.ip /\ e.expiry = old.expiry
       /\ e.alias = b
  BY <1>6, <1>10, <1>12 DEF Entries, Alias
<1>14. \A k \in 1 .. Len(b) : k = 1 \/ (k - 1 \in 1 .. Len(a) /\ b[k] = a[k - 1])
  BY <1>8, <1>10
<1>15. /\ Backed(d.name, e.ip, d.expiry, T, now)
       /\ d.expiry # 0 => \E v \in Sayings : v.ip = e.ip /\ v.ttl # 0 /\ v.type = "DNS_CNAME"
  <2>1. Tells(u).name = d.name /\ Tells(u).ip = e.ip /\ Tells(u).until = d.expiry
    BY <1>4, <1>13 DEF Tells
  <2> QED BY <1>1, <1>2, <1>4, <1>13, <2>1 DEF Backed
<1>16. Honest(e, T, now)
  <2>1. \A k \in 1 .. Len(a) :
          /\ Backed(a[k].name, e.ip, a[k].expiry, T, now)
          /\ a[k].expiry # 0 =>
               \E v \in Sayings : v.ip = e.ip /\ v.ttl # 0 /\ v.type = "DNS_CNAME"
    BY <1>7, <1>13 DEF Honest
  <2>2. \A k \in 1 .. Len(b) :
          /\ Backed(b[k].name, e.ip, b[k].expiry, T, now)
          /\ b[k].expiry # 0 =>
               \E v \in Sayings : v.ip = e.ip /\ v.ttl # 0 /\ v.type = "DNS_CNAME"
    BY <1>10, <1>14, <1>15, <2>1
  <2>3. /\ Backed(e.name, e.ip, e.expiry, T, now)
        /\ e.expiry = 0 => \E v \in Sayings : v.ip = e.ip /\ v.ttl = 0
    BY <1>13 DEF Honest
  <2> QED BY <1>13, <2>2, <2>3 DEF Honest
<1>17. \A k \in 1 .. Len(a) : k + 1 \in 1 .. Len(b) /\ b[k + 1].name = a[k].name
  BY <1>8, <1>10
<1> QED BY <1>7, <1>11, <1>13, <1>16, <1>17

LEMMA TouchedIsHonest ==
    ASSUME now \in Nat, NEW T, NEW old \in Entries, Honest(old, T, now)
    PROVE  Touch(old) \in Entries /\ Honest(Touch(old), T, now)
<1>1. PICK f : f = Touch(old)
  OBVIOUS
<1>2. f \in Entries /\ f.name = old.name /\ f.ip = old.ip /\ f.expiry = old.expiry /\ f.alias = old.alias
  BY <1>1, TouchSound
<1>3. Honest(f, T, now)
  BY <1>2 DEF Honest
<1> QED BY <1>1, <1>2, <1>3

\* A record of an alias: it goes to the first entry with its address, if it is not
\* there; there is no new entry.
LEMMA AliasIsSound ==
    ASSUME NEW T, NEW u, Spoken(u, T), u.type = "DNS_CNAME",
           NEW list, Sound(list, T, now), NEW new, new = UpdatesAlias(u, list)
    PROVE  Sound(new, T, now) /\ Keeps(list, new) /\ Len(new) = Len(list)
<1> DEFINE is == {i \in DOMAIN list : list[i].ip = u.ip}
<1>1. list \in Seq(Entries) /\ \A i \in 1 .. Len(list) : list[i] \in Entries /\ Honest(list[i], T, now)
  BY DEF Sound
<1>2. CASE is = {}
  <2>1. new = list
    BY <1>2 DEF UpdatesAlias
  <2> QED BY <2>1 DEF Keeps
<1>3. CASE is # {}
  <2>1. PICK i : i = Min(is)
    OBVIOUS
  <2>2. i \in 1 .. Len(list) /\ list[i].ip = u.ip
    <3>1. is \subseteq Nat
      BY <1>1
    <3>2. i \in is
      <4> HIDE DEF is
      <4> QED BY <1>3, <2>1, <3>1, MinIsLeast
    <3> QED BY <1>1, <3>2
  <2>3. PICK old : old = list[i]
    OBVIOUS
  <2>4. old \in Entries /\ Honest(old, T, now) /\ old.ip = u.ip
    BY <1>1, <2>2, <2>3
  <2>5. now \in Nat
    BY DEF Spoken
  <2>6. \E e \in Entries :
          /\ new = Put(list, i, e) /\ Honest(e, T, now) /\ e.name = old.name /\ e.ip = old.ip
          /\ \A k \in 1 .. Len(old.alias) : \E l \in 1 .. Len(e.alias) :
               e.alias[l].name = old.alias[k].name
    <3>1. CASE old.name = u.name
      <4>1. new = Put(list, i, Renewed(old, u))
        BY <1>3, <2>1, <2>3, <3>1 DEF UpdatesAlias, Put
      <4>2. /\ Renewed(old, u) \in Entries /\ Honest(Renewed(old, u), T, now)
            /\ Renewed(old, u).name = old.name /\ Renewed(old, u).ip = old.ip
            /\ Renewed(old, u).alias = old.alias
        BY <2>4, <3>1, RenewedIsHonest
      <4> QED BY <4>1, <4>2
    <3>2. CASE old.name # u.name /\ Named(old, u.name)
      <4>1. new = Put(list, i, Touch(old))
        BY <1>3, <2>1, <2>3, <3>2 DEF UpdatesAlias, Put
      <4>2. /\ Touch(old) \in Entries /\ Honest(Touch(old), T, now)
            /\ Touch(old).name = old.name /\ Touch(old).ip = old.ip /\ Touch(old).alias = old.alias
        BY <2>4, <2>5, TouchedIsHonest, TouchSound
      <4> QED BY <4>1, <4>2
    <3>3. CASE old.name # u.name /\ ~Named(old, u.name)
      <4>1. new = Put(list, i, Aliased(old, u))
        BY <1>3, <2>1, <2>3, <3>3 DEF UpdatesAlias, Put
      <4>2. PICK e : e = Aliased(old, u)
        OBVIOUS
      <4>3. /\ e \in Entries /\ Honest(e, T, now) /\ e.name = old.name /\ e.ip = old.ip
            /\ \A k \in 1 .. Len(old.alias) : \E l \in 1 .. Len(e.alias) :
                 e.alias[l].name = old.alias[k].name
        <5>1. Honest(old, T, now) /\ old.name # u.name /\ ~Named(old, u.name)
          BY <2>4, <3>3
        <5> QED BY <2>4, <4>2, <5>1, AliasedIsHonest
      <4>4. new = Put(list, i, e)
        BY <4>1, <4>2
      <4> QED BY <4>3, <4>4, Zenon
    <3> QED BY <3>1, <3>2, <3>3
  <2>7. PICK e \in Entries :
          /\ new = Put(list, i, e) /\ Honest(e, T, now) /\ e.name = old.name /\ e.ip = old.ip
          /\ \A k \in 1 .. Len(old.alias) : \E l \in 1 .. Len(e.alias) :
               e.alias[l].name = old.alias[k].name
    BY <2>6
  <2>8. Sound(new, T, now) /\ Len(new) = Len(list)
    BY <2>2, <2>3, <2>7, ChangedIsSound
  <2>9. Keeps(list, new)
    BY <1>1, <2>2, <2>3, <2>7, ChangedKeeps
  <2> QED BY <2>8, <2>9
<1> QED BY <1>2, <1>3

(***************************************************************************)
(* The cursor                                                              *)
(***************************************************************************)
LEMMA RootLeads ==
    ASSUME NEW list \in Seq(Entries)
    PROVE  Root(list) \in Places /\ At(Root(list)) \in Pointers /\ Led(At(Root(list)), list)
<1>1. PICK r : r = Root(list)
  OBVIOUS
<1>2. r.alias = NULL /\ (r.entry = NULL \/ (list # <<>> /\ r.entry = [name |-> list[1].name, ip |-> list[1].ip]))
  BY <1>1 DEF Root
<1>3. list # <<>> => 1 \in DOMAIN list /\ list[1] \in Entries
  OBVIOUS
<1>4. list # <<>> => list[1].name \in Names /\ list[1].ip \in IPs
  BY <1>3, EntryParts
<1>5. r \in Places
  <2>1. r.entry \in [name : Names, ip : IPs] \cup {NULL}
    BY <1>2, <1>4
  <2>2. r = [entry |-> r.entry, alias |-> NULL]
    BY <1>1, <1>2 DEF Root
  <2> QED BY <2>1, <2>2 DEF Places
<1>6. At(r) \in Pointers /\ At(r).entry = r.entry /\ At(r).alias = NULL /\ At(r).astray = {}
  BY <1>2, <1>5 DEF At, Places, Pointers
<1>7. r.entry = NULL \/ \E i \in DOMAIN list : Is(list[i], r.entry)
  BY <1>2, <1>3 DEF Is
<1>8. Leads(At(r), "entry", list) /\ Leads(At(r), "alias", list)
  BY <1>6, <1>7 DEF Leads
<1> QED BY <1>1, <1>5, <1>6, <1>8 DEF Led, Words

LEMMA NowhereLeads ==
    ASSUME NEW list
    PROVE  Nowhere \in Places /\ At(Nowhere) \in Pointers /\ Led(At(Nowhere), list)
<1>1. Nowhere \in Places /\ Nowhere.entry = NULL /\ Nowhere.alias = NULL
  BY DEF Nowhere, Places
<1>2. At(Nowhere) \in Pointers /\ At(Nowhere).entry = NULL /\ At(Nowhere).alias = NULL
  BY <1>1 DEF At, Pointers
<1> QED BY <1>1, <1>2 DEF Led, Leads, Words

LEMMA CursorAfterLeads ==
    ASSUME NEW c \in Pointers, NEW old, Led(c, old), NEW new \in Seq(Entries)
    PROVE  CursorAfter(old, new, c) \in Pointers /\ Led(CursorAfter(old, new, c), new)
BY RootLeads DEF CursorAfter

\* [NEXT] reads a place that exists: the cursor is followed when both its words lead
\* somewhere, and that is one entry, as no entry is there twice.
LEMMA PlaceFound ==
    ASSUME Apart(cache), cache \in Seq(Entries), NEW p, NEW i \in 1 .. Len(cache), Is(cache[i], p)
    PROVE  Place(p) = i
<1>1. Place(p) \in DOMAIN cache /\ Is(cache[Place(p)], p)
  BY DEF Place
<1>2. Place(p) \in 1 .. Len(cache)
  BY <1>1
<1> QED BY <1>1, <1>2 DEF Apart, Is

LEMMA NextIsPlace ==
    ASSUME cache \in Seq(Entries), Apart(cache), cursor \in Pointers, Led(cursor, cache),
           cursor.astray = {}, cursor.entry # NULL
    PROVE  [entry |-> NextEntry, alias |-> NextAlias] \in Places
<1>0. Leads(cursor, "entry", cache) /\ Leads(cursor, "alias", cache)
  BY DEF Led, Words
<1>1. PICK e \in 1 .. Len(cache) : Is(cache[e], cursor.entry)
  BY <1>0 DEF Leads
<1>2. NextEntry \in [name : Names, ip : IPs] \cup {NULL}
  <2>1. Place(cursor.entry) = e
    BY <1>1, PlaceFound
  <2>2. CASE e = Len(cache)
    BY <2>1, <2>2 DEF NextEntry
  <2>3. CASE e # Len(cache)
    <3>1. e + 1 \in 1 .. Len(cache)
      BY <2>3
    <3>2. cache[e + 1] \in Entries
      BY <3>1
    <3>3. NextEntry = [name |-> cache[e + 1].name, ip |-> cache[e + 1].ip]
      BY <2>1, <2>3 DEF NextEntry
    <3> QED BY <3>2, <3>3, EntryParts
  <2> QED BY <2>2, <2>3
<1>3. NextAlias \in [name : Names, ip : IPs, alias : Names] \cup {NULL}
  <2>1. PICK p : p = IF cursor.alias = NULL THEN cursor.entry ELSE cursor.alias
    OBVIOUS
  <2>2. PICK i \in 1 .. Len(cache) :
          /\ Is(cache[i], p)
          /\ cursor.alias = NULL \/ \E d \in ToSet(cache[i].alias) : d.name = cursor.alias.alias
    BY <1>0, <1>1, <2>1 DEF Leads
  <2>3. Place(p) = i /\ cache[i] \in Entries
    BY <2>2, PlaceFound
  <2>4. PICK a : a = cache[i].alias
    OBVIOUS
  <2>5. /\ a \in Seq(Alias) /\ Len(a) \in Nat
        /\ cache[i].name \in Names /\ cache[i].ip \in IPs
    BY <2>3, <2>4, EntryParts
  <2>6. PICK d : d = IF cursor.alias = NULL THEN 0 ELSE CHOOSE k \in DOMAIN a : a[k].name = cursor.alias.alias
    OBVIOUS
  <2>7. d \in 0 .. Len(a)
    <3>1. CASE cursor.alias = NULL
      BY <2>5, <2>6, <3>1
    <3>2. CASE cursor.alias # NULL
      <4>1. \E k \in DOMAIN a : a[k].name = cursor.alias.alias
        BY <2>2, <2>4, <3>2 DEF ToSet
      <4>2. d \in DOMAIN a
        BY <2>6, <3>2, <4>1
      <4> QED BY <2>5, <4>2
    <3> QED BY <3>1, <3>2
  <2>8. NextAlias = IF d = Len(a) THEN NULL
                    ELSE [name |-> cache[i].name, ip |-> cache[i].ip, alias |-> a[d + 1].name]
    BY <2>1, <2>3, <2>4, <2>6 DEF NextAlias
  <2>9. CASE d = Len(a)
    BY <2>8, <2>9
  <2>10. CASE d # Len(a)
    <3>1. d + 1 \in 1 .. Len(a)
      BY <2>5, <2>7, <2>10
    <3>2. a[d + 1] \in Alias
      BY <2>5, <3>1
    <3>3. a[d + 1].name \in Names
      BY <3>2 DEF Alias
    <3> QED BY <2>5, <2>8, <2>10, <3>3
  <2> QED BY <2>9, <2>10
<1> QED BY <1>2, <1>3 DEF Places

(***************************************************************************)
(* The invariant                                                           *)
(***************************************************************************)
\* The cache, what is thought of it, and the cursor.
CacheOK ==
    /\ Sound(cache, told, now) /\ lost \in Nat /\ cache_num = Len(cache) + lost
    /\ spinning \in BOOLEAN /\ (spinning <=> cache_num > DNS_CACHE)
    /\ cursor \in Pointers /\ Led(cursor, cache)

FileOK == Sound(file, told, now)

\* A call that is about to enter something has something to enter, which was said;
\* one that writes the cursor has a word to write.
GoodCalls == {c \in InCall : /\ c.todo \in Seq(Sayings) /\ (c.at = "update" => c.todo # <<>>)
                             /\ c.at = "move" => c.writes # <<>>}

IInv ==
    /\ CacheOK /\ FileOK
    /\ task \in [Tasks -> GoodCalls]
    /\ now \in 1 .. MaxTime /\ calls \in 0 .. Calls
    /\ told \subseteq [name : Names, ip : IPs, until : Nat]

LEMMA SizesAreNat ==
    DNS_CACHE \in Nat /\ MaxTime \in Nat \ {0} /\ Calls \in Nat /\ Servers \in Nat
BY ResolverAssumption DEF ResolverAssumption

LEMMA IInvIsTypeOK == IInv => TypeOK
<1> SUFFICES ASSUME IInv PROVE TypeOK
  OBVIOUS
<1>1. cache \in Seq(Entries) /\ file \in Seq(Entries) /\ cache_num \in Int /\ lost \in Nat
  <2>1. cache \in Seq(Entries) /\ cache_num = Len(cache) + lost /\ lost \in Nat
    BY DEF IInv, CacheOK, Sound
  <2> QED BY <2>1 DEF IInv, FileOK, Sound
<1>2. task \in [Tasks -> InCall]
  BY DEF IInv, GoodCalls
<1> QED BY <1>1, <1>2 DEF IInv, CacheOK, TypeOK, Pointers

\* More may be said; what was said is true until it is past.
LEMMA SaidMore ==
    ASSUME NEW list, NEW w, NEW T, NEW V, T \subseteq V, Sound(list, T, w)
    PROVE  Sound(list, V, w)
<1>1. \A n, i, x : Backed(n, i, x, T, w) => Backed(n, i, x, V, w)
  BY DEF Backed
<1>2. \A e : Honest(e, T, w) => Honest(e, V, w)
  BY <1>1 DEF Honest
<1> QED BY <1>2 DEF Sound

LEMMA TimePasses ==
    ASSUME NEW list, NEW T, NEW w \in Nat, NEW V, Sound(list, T, w),
           T \subseteq [name : Names, ip : IPs, until : Nat],
           V = {r \in T : r.until = 0 \/ r.until > w}
    PROVE  Sound(list, V, w + 1)
<1>1. ASSUME NEW n, NEW i, NEW x \in Nat, Backed(n, i, x, T, w) PROVE Backed(n, i, x, V, w + 1)
  <2> SUFFICES ASSUME x = 0 \/ x >= w + 1
               PROVE  \E r \in V : /\ r.name = n /\ r.ip = i
                                   /\ r.until = 0 \/ (x # 0 /\ r.until >= x)
    BY DEF Backed
  <2>1. x = 0 \/ x >= w
    OBVIOUS
  <2>2. PICK r \in T : /\ r.name = n /\ r.ip = i
                       /\ r.until = 0 \/ (x # 0 /\ r.until >= x)
    BY <1>1, <2>1 DEF Backed
  <2>3. r.until \in Nat
    BY <2>2
  <2>4. r \in V
    BY <2>2, <2>3
  <2> QED BY <2>2, <2>4
<1>2. ASSUME NEW e \in Entries, Honest(e, T, w) PROVE Honest(e, V, w + 1)
  <2>1. e.expiry \in Nat /\ \A k \in 1 .. Len(e.alias) : e.alias[k].expiry \in Nat
    <3>1. \A k \in 1 .. Len(e.alias) : e.alias[k] \in Alias
      BY EntryParts
    <3> QED BY <3>1, EntryParts DEF Alias
  <2>2. Backed(e.name, e.ip, e.expiry, V, w + 1)
    BY <1>1, <1>2, <2>1 DEF Honest
  <2>3. \A k \in 1 .. Len(e.alias) : Backed(e.alias[k].name, e.ip, e.alias[k].expiry, V, w + 1)
    BY <1>1, <1>2, <2>1 DEF Honest
  <2> QED BY <1>2, <2>2, <2>3 DEF Honest
<1>3. list \in Seq(Entries) /\ Apart(list) /\ \A j \in 1 .. Len(list) : Honest(list[j], T, w)
  BY DEF Sound
<1>4. \A j \in 1 .. Len(list) : Honest(list[j], V, w + 1)
  BY <1>2, <1>3
<1> QED BY <1>3, <1>4 DEF Sound

LEMMA FrontIsSound ==
    ASSUME NEW list, NEW T, NEW w, Sound(list, T, w), NEW n \in 1 .. Len(list)
    PROVE  /\ Sound(SubSeq(list, 1, n), T, w) /\ Len(SubSeq(list, 1, n)) = n
           /\ SubSeq(list, 1, n)[n] = list[n]
<1>1. list \in Seq(Entries) /\ Apart(list) /\ \A j \in 1 .. Len(list) : Honest(list[j], T, w)
  BY DEF Sound
<1>2. PICK half : half = SubSeq(list, 1, n)
  OBVIOUS
<1>3. half \in Seq(Entries) /\ Len(half) = n /\ \A j \in 1 .. n : half[j] = list[j]
  BY <1>1, <1>2
<1>4. Len(list) \in Nat
  BY <1>1
<1>5. \A j \in 1 .. n : j \in 1 .. Len(list)
  BY <1>4
<1>6. Apart(half)
  BY <1>1, <1>3, <1>5 DEF Apart
<1>7. \A j \in 1 .. Len(half) : Honest(half[j], T, w)
  BY <1>1, <1>3, <1>5
<1> QED BY <1>2, <1>3, <1>4, <1>6, <1>7 DEF Sound

\* An entry some of whose aliases were not read.
LEMMA FewerAliases ==
    ASSUME NEW e \in Entries, NEW T, NEW w, Honest(e, T, w), NEW k \in 0 .. Len(e.alias),
           NEW f, f = [e EXCEPT !.alias = SubSeq(e.alias, 1, k)]
    PROVE  f \in Entries /\ f.name = e.name /\ f.ip = e.ip /\ Honest(f, T, w)
<1>1. PICK b : b = e.alias
  OBVIOUS
<1>2. PICK a : a = SubSeq(b, 1, k)
  OBVIOUS
<1>3. b \in Seq(Alias) /\ Len(b) \in Nat
  BY <1>1, EntryParts
<1>4. a \in Seq(Alias) /\ Len(a) = k /\ \A j \in 1 .. k : a[j] = b[j]
  BY <1>1, <1>2, <1>3
<1>5. f = [e EXCEPT !.alias = a]
  BY <1>1, <1>2
<1>6. f \in Entries /\ f.name = e.name /\ f.ip = e.ip /\ f.expiry = e.expiry /\ f.alias = a
  BY <1>4, <1>5 DEF Entries, Alias
<1>7. \A j \in 1 .. Len(a) : j \in 1 .. Len(b) /\ a[j] = b[j]
  BY <1>1, <1>3, <1>4
<1>8. Honest(f, T, w)
  BY <1>1, <1>6, <1>7 DEF Honest
<1> QED BY <1>6, <1>8

\* A file that was written or read in part holds a part of the cache.
LEMMA HalfIsSound ==
    ASSUME NEW list, NEW T, NEW w, Sound(list, T, w), NEW half \in Readable(list)
    PROVE  Sound(half, T, w)
<1>1. CASE half = <<>>
  BY <1>1 DEF Sound, Apart
<1>2. ASSUME NEW n \in DOMAIN list, NEW k \in 0 .. Len(list[n].alias), half = UpTo(list, n, k)
      PROVE  Sound(half, T, w)
  <2>1. list \in Seq(Entries) /\ n \in 1 .. Len(list) /\ list[n] \in Entries
    BY DEF Sound
  <2>2. PICK front : front = SubSeq(list, 1, n)
    OBVIOUS
  <2>3. Sound(front, T, w) /\ Len(front) = n /\ front[n] = list[n]
    BY <2>1, <2>2, FrontIsSound
  <2>4. PICK e : e = front[n]
    OBVIOUS
  <2>5. PICK f : f = [e EXCEPT !.alias = SubSeq(@, 1, k)]
    OBVIOUS
  <2>6. /\ front \in Seq(Entries) /\ Apart(front) /\ n \in 1 .. Len(front)
        /\ \A j \in 1 .. Len(front) : Honest(front[j], T, w)
    BY <2>1, <2>3 DEF Sound
  <2>7. f \in Entries /\ f.name = e.name /\ f.ip = e.ip /\ Honest(f, T, w)
    <3>1. e \in Entries /\ Honest(e, T, w) /\ k \in 0 .. Len(e.alias)
      BY <2>1, <2>3, <2>4, <2>6
    <3>2. f = [e EXCEPT !.alias = SubSeq(e.alias, 1, k)]
      BY <2>5
    <3> QED BY <3>1, <3>2, FewerAliases
  <2>8. half = [front EXCEPT ![n] = f]
    BY <1>2, <2>2, <2>4, <2>5 DEF UpTo
  <2>9. /\ half \in Seq(Entries) /\ Len(half) = Len(front)
        /\ \A j \in 1 .. Len(front) : half[j] = IF j = n THEN f ELSE front[j]
    BY <2>6, <2>7, <2>8
  <2>10. \A j \in 1 .. Len(half) : /\ half[j].name = front[j].name /\ half[j].ip = front[j].ip
                                   /\ Honest(half[j], T, w)
    BY <2>4, <2>6, <2>7, <2>9
  <2>11. Apart(half)
    BY <2>6, <2>9, <2>10 DEF Apart
  <2> QED BY <2>9, <2>10, <2>11 DEF Sound
<1>3. half = <<>> \/ \E n \in DOMAIN list : half \in {UpTo(list, n, k) : k \in 0 .. Len(list[n].alias)}
  BY DEF Readable
<1>4. ASSUME half # <<>> PROVE Sound(half, T, w)
  <2>1. PICK n \in DOMAIN list : half \in {UpTo(list, n, k) : k \in 0 .. Len(list[n].alias)}
    BY <1>3, <1>4
  <2>2. PICK k \in 0 .. Len(list[n].alias) : half = UpTo(list, n, k)
    BY <2>1
  <2> QED BY <1>2, <2>2
<1> QED BY <1>1, <1>4

LEMMA TouchedIsSound ==
    ASSUME now \in Nat, NEW list, NEW T, Sound(list, T, now), NEW name,
           NEW new, new = [i \in DOMAIN list |-> IF Named(list[i], name) THEN Touch(list[i]) ELSE list[i]]
    PROVE  Sound(new, T, now) /\ Len(new) = Len(list) /\ Keeps(list, new)
<1>1. list \in Seq(Entries) /\ Apart(list) /\ \A j \in 1 .. Len(list) : Honest(list[j], T, now)
  BY DEF Sound
<1>2. Len(list) \in Nat /\ DOMAIN list = 1 .. Len(list) /\ \A j \in 1 .. Len(list) : list[j] \in Entries
  BY <1>1
<1>3. ASSUME NEW j \in 1 .. Len(list)
      PROVE  /\ new[j] \in Entries /\ Honest(new[j], T, now)
             /\ new[j].name = list[j].name /\ new[j].ip = list[j].ip /\ new[j].alias = list[j].alias
  <2>1. PICK old : old = list[j]
    OBVIOUS
  <2>2. old \in Entries /\ Honest(old, T, now)
    BY <1>1, <1>2, <2>1
  <2>3. new[j] = Touch(old) \/ new[j] = old
    BY <1>2, <2>1
  <2>4. /\ Touch(old) \in Entries /\ Honest(Touch(old), T, now) /\ Touch(old).name = old.name
        /\ Touch(old).ip = old.ip /\ Touch(old).alias = old.alias
    BY <2>2, TouchedIsHonest, TouchSound
  <2> QED BY <2>1, <2>2, <2>3, <2>4
<1>4. new \in Seq(Entries) /\ Len(new) = Len(list)
  <2>1. DOMAIN new = 1 .. Len(list)
    BY <1>2
  <2>2. new = [j \in 1 .. Len(list) |-> new[j]]
    BY <1>2
  <2> QED BY <1>2, <1>3, <2>1, <2>2
<1>5. Apart(new)
  <2> SUFFICES ASSUME NEW j \in 1 .. Len(list), NEW k \in 1 .. Len(list),
                      new[j].name = new[k].name, new[j].ip = new[k].ip
               PROVE  j = k
    BY <1>4 DEF Apart
  <2>1. list[j].name = list[k].name /\ list[j].ip = list[k].ip
    BY <1>3
  <2> QED BY <1>1, <2>1 DEF Apart
<1>6. Keeps(list, new)
  BY <1>3, <1>4 DEF Keeps
<1> QED BY <1>3, <1>4, <1>5, <1>6 DEF Sound

(***************************************************************************)
(* The steps                                                               *)
(***************************************************************************)
LEMMA NoCallIsGood == NoCall \in GoodCalls /\ NoCall.at = "none" /\ NoCall.todo = <<>>
<1>1. NoCall.at = "none" /\ NoCall.todo = <<>>
  BY DEF NoCall
<1>2. <<>> \in Seq(Updates) /\ <<>> \in Seq(Sayings) /\ Nowhere \in Places
  BY DEF Nowhere, Places
<1>3. NoCall \in InCall
  BY <1>2 DEF NoCall, InCall
<1> QED BY <1>1, <1>3, <1>2 DEF GoodCalls

\* A call that only changes where it is, unless it enters or writes next.
Ats == {"none", "query", "create", "save", "erase", "fill", "rewind", "current", "ask"}

LEMMA AtIsGood ==
    ASSUME NEW c \in InCall, c.todo \in Seq(Sayings), NEW at \in Ats
    PROVE  [c EXCEPT !.at = at] \in GoodCalls
<1>1. PICK q : q = [c EXCEPT !.at = at]
  OBVIOUS
<1>2. q.at = at /\ q.todo = c.todo /\ q \in InCall
  BY <1>1 DEF InCall, Ats
<1>3. at # "update" /\ at # "move"
  BY DEF Ats
<1> QED BY <1>1, <1>2, <1>3 DEF GoodCalls

\* A call that begins.
LEMMA BegunIsGood ==
    ASSUME NEW at \in Ats, NEW name \in Names \cup {NULL, CURRENT}
    PROVE  [NoCall EXCEPT !.at = at, !.name = name] \in GoodCalls
<1>1. PICK q : q = [NoCall EXCEPT !.name = name]
  OBVIOUS
<1>2. NoCall \in InCall /\ NoCall.todo \in Seq(Sayings)
  BY NoCallIsGood DEF GoodCalls
<1>3. q \in InCall /\ q.todo = NoCall.todo
  BY <1>1, <1>2 DEF InCall
<1>4. [NoCall EXCEPT !.at = at, !.name = name] = [q EXCEPT !.at = at]
  BY <1>1, <1>2 DEF InCall
<1> QED BY <1>2, <1>3, <1>4, AtIsGood

\* A call that is about to write the cursor.
LEMMA WritesIsGood ==
    ASSUME NEW c \in InCall, c.todo \in Seq(Sayings), NEW to \in Places,
           NEW writes \in {<<"alias">>, <<"entry", "alias">>, <<"alias", "entry">>}
    PROVE  [c EXCEPT !.at = "move", !.to = to, !.writes = writes] \in GoodCalls
<1>1. PICK q : q = [c EXCEPT !.at = "move", !.to = to, !.writes = writes]
  OBVIOUS
<1>2. q.at = "move" /\ q.todo = c.todo /\ q.writes = writes /\ q \in InCall
  BY <1>1 DEF InCall
<1>3. writes # <<>>
  <2>1. <<"alias">> # <<>> /\ <<"entry", "alias">> # <<>> /\ <<"alias", "entry">> # <<>>
    OBVIOUS
  <2> QED BY <2>1
<1> QED BY <1>1, <1>2, <1>3 DEF GoodCalls

LEMMA InitIInv == Init => IInv
<1> SUFFICES ASSUME Init PROVE IInv
  OBVIOUS
<1>1. /\ cache = <<>> /\ file = <<>> /\ cache_num = 0 /\ lost = 0 /\ cursor = At(Nowhere)
      /\ spinning = FALSE /\ told = {}
  BY DEF Init
<1>2. Sound(<<>>, told, now)
  BY DEF Sound, Apart
<1>3. CacheOK
  <2>1. Len(cache) = 0 /\ DNS_CACHE \in Nat
    BY <1>1, SizesAreNat
  <2>2. (spinning <=> cache_num > DNS_CACHE) /\ cache_num = Len(cache) + lost /\ lost \in Nat
    BY <1>1, <2>1
  <2>3. cursor \in Pointers /\ Led(cursor, cache)
    BY <1>1, NowhereLeads
  <2>4. Sound(cache, told, now) /\ spinning \in BOOLEAN
    BY <1>1, <1>2
  <2> QED BY <2>2, <2>3, <2>4 DEF CacheOK
<1>4. FileOK
  BY <1>1, <1>2 DEF FileOK
<1>5. NoCall \in GoodCalls
  BY NoCallIsGood
<1>6. task \in [Tasks -> GoodCalls]
  BY <1>5 DEF Init
<1>7. now \in 1 .. MaxTime /\ calls \in 0 .. Calls
  BY SizesAreNat DEF Init
<1> QED BY <1>1, <1>3, <1>4, <1>6, <1>7 DEF IInv

\* What is left of a list, and of the count of it, is a cache; what the count is
\* off by stays.
LEMMA CleanedIsCache ==
    ASSUME NEW T, NEW list, Sound(list, T, now), NEW num \in Int, NEW c, c = clean_up(list, num),
           NEW new, Sound(new, T, now), Len(new) = Len(c.list),
           cache' = new, cache_num' = c.num, spinning' = (c.num > DNS_CACHE),
           lost' \in Nat, num = Len(list) + lost',
           told' = T, now' = now, cursor' \in Pointers, Led(cursor', new)
    PROVE  CacheOK'
<1>1. Len(list) \in Nat /\ Len(c.list) \in Nat
  <2>1. list \in Seq(Entries) /\ Sound(c.list, T, now)
    BY CleanIsSound DEF Sound
  <2>2. c.list \in Seq(Entries)
    BY <2>1 DEF Sound
  <2> QED BY <2>1, <2>2
<1>2. c.num - Len(c.list) = num - Len(list) /\ c.num \in Int
  BY CleanIsSound
<1>3. cache_num' = Len(cache') + lost'
  BY <1>1, <1>2
<1>4. spinning' \in BOOLEAN /\ (spinning' <=> c.num > DNS_CACHE)
  <2> DEFINE TooMany == c.num > DNS_CACHE
  <2>1. spinning' = TooMany
    OBVIOUS
  <2>2. TooMany \in BOOLEAN
    OBVIOUS
  <2> HIDE DEF TooMany
  <2>3. spinning' \in BOOLEAN /\ (spinning' <=> TooMany)
    BY ONLY <2>1, <2>2, Zenon
  <2> QED BY <2>3 DEF TooMany
<1>5. Sound(cache', told', now') /\ Led(cursor', cache')
  OBVIOUS
<1> QED BY <1>3, <1>4, <1>5 DEF CacheOK

LEMMA CacheStays ==
    ASSUME CacheOK, UNCHANGED <<cache, cache_num, lost, cursor, spinning, now>>, told \subseteq told'
    PROVE  CacheOK'
<1>1. Sound(cache, told', now)
  BY SaidMore DEF CacheOK
<1> QED BY <1>1 DEF CacheOK

LEMMA FileStays ==
    ASSUME FileOK, UNCHANGED <<file, now>>, told \subseteq told'
    PROVE  FileOK'
<1>1. Sound(file, told', now)
  BY SaidMore DEF FileOK
<1> QED BY <1>1 DEF FileOK

LEMMA CallsChange ==
    ASSUME task \in [Tasks -> GoodCalls], NEW t \in Tasks, NEW c \in GoodCalls,
           task' = [task EXCEPT ![t] = c]
    PROVE  task' \in [Tasks -> GoodCalls]
OBVIOUS

\* An update makes a cache of a cache.
LEMMA UpdateSound ==
    ASSUME CacheOK, ~spinning, now \in Nat \ {0}, now' = now, told \subseteq told',
           NEW u, Spoken(u, told'), update_cache(u)
    PROVE  CacheOK'
<1> DEFINE list == IF u.type = "DNS_A" THEN UpdatesAddress(u, cache) ELSE UpdatesAlias(u, cache)
<1>1. PICK T : T = told'
  OBVIOUS
<1>2. Sound(cache, T, now) /\ Spoken(u, T) /\ cache \in Seq(Entries)
  BY <1>1, SaidMore DEF CacheOK, Sound
<1>3. u.type = "DNS_A" \/ u.type = "DNS_CNAME"
  BY DEF Spoken, Updates
<1>4. PICK new : new = list
  OBVIOUS
<1>5. Sound(new, T, now) /\ Keeps(cache, new) /\ (Len(new) = Len(cache) \/ Len(new) = Len(cache) + 1)
  <2>1. CASE u.type = "DNS_A"
    <3>1. new = UpdatesAddress(u, cache)
      BY <1>4, <2>1
    <3> QED BY <1>2, <3>1, AddressIsSound
  <2>2. CASE u.type = "DNS_CNAME"
    <3>1. new = UpdatesAlias(u, cache)
      BY <1>4, <2>2
    <3> QED BY <1>2, <2>2, <3>1, AliasIsSound
  <2> QED BY <1>3, <2>1, <2>2
<1>6. PICK num : num = cache_num + Len(new) - Len(cache)
  OBVIOUS
<1>7. Cleans(new, num, cursor) /\ lost' = lost
  BY <1>4, <1>6 DEF update_cache
<1> HIDE DEF list
<1>8. lost \in Nat /\ num \in Int /\ num = Len(new) + lost'
  <2>1. Len(cache) \in Nat /\ Len(new) \in Nat /\ cache_num = Len(cache) + lost /\ lost \in Nat
    BY <1>2, <1>5 DEF CacheOK, Sound
  <2> QED BY <1>6, <1>7, <2>1
<1>9. PICK c : c = clean_up(new, num)
  OBVIOUS
<1>10. /\ cache' = c.list /\ cache_num' = c.num /\ spinning' = (c.num > DNS_CACHE)
       /\ cursor' = CursorAfter(new, c.list, cursor)
  BY <1>7, <1>9 DEF Cleans
<1>11. Sound(c.list, T, now)
  BY ONLY <1>5, <1>8, <1>9, CleanIsSound
<1>12. cursor' \in Pointers /\ Led(cursor', c.list)
  <2>1. cursor \in Pointers /\ new \in Seq(Entries) /\ c.list \in Seq(Entries)
    BY <1>5, <1>11 DEF CacheOK, Sound
  <2>2. Led(cursor, new)
    BY <1>2, <1>5, <2>1, LeadsStill DEF CacheOK
  <2> QED BY <1>10, <2>1, <2>2, CursorAfterLeads
<1>13. lost' \in Nat /\ told' = T /\ now' = now
  BY <1>1, <1>7, <1>8
<1> QED BY ONLY <1>5, <1>8, <1>9, <1>10, <1>11, <1>12, <1>13, CleanedIsCache

\* A question leaves a cache, whose entries are those clean_up left.
LEMMA AskSound ==
    ASSUME CacheOK, now \in Nat, UNCHANGED <<now, told>>, NEW t, NEW name, Ask(t, name, cache),
           UNCHANGED lost, NEW d, d = clean_up(cache, cache_num),
           Led(cursor', d.list), cursor' \in Pointers
    PROVE  CacheOK'
<1>1. /\ Sound(cache, told, now) /\ cache_num = Len(cache) + lost /\ lost \in Nat
      /\ cache_num \in Int
  <2>1. /\ Sound(cache, told, now) /\ cache_num = Len(cache) + lost /\ lost \in Nat
        /\ cache \in Seq(Entries)
    BY DEF CacheOK, Sound
  <2> QED BY <2>1
<1>2. PICK c : c = d.list
  OBVIOUS
<1>3. Sound(c, told, now)
  BY <1>1, <1>2, CleanIsSound
<1>4. PICK new : new = [i \in DOMAIN c |-> IF Named(c[i], name) THEN Touch(c[i]) ELSE c[i]]
  OBVIOUS
<1>5. cache' = new /\ cache_num' = d.num /\ spinning' = (d.num > DNS_CACHE)
  BY <1>2, <1>4 DEF Ask
<1>6. Sound(new, told, now) /\ Len(new) = Len(c) /\ Keeps(c, new)
  BY ONLY now \in Nat, <1>3, <1>4, TouchedIsSound
<1>7. Led(cursor', new)
  <2>1. c \in Seq(Entries) /\ new \in Seq(Entries)
    BY <1>3, <1>6 DEF Sound
  <2> QED BY <1>2, <1>6, <2>1, LeadsStill
<1>8. PICK T : T = told
  OBVIOUS
<1>9. /\ Sound(cache, T, now) /\ Sound(new, T, now) /\ Len(new) = Len(d.list)
      /\ lost' \in Nat /\ cache_num = Len(cache) + lost' /\ told' = T /\ now' = now
  BY <1>1, <1>2, <1>6, <1>8
<1> QED BY ONLY cursor' \in Pointers, d = clean_up(cache, cache_num),
           <1>1, <1>5, <1>7, <1>9, CleanedIsCache

LEMMA ResolvesSound ==
    ASSUME CacheOK, now \in Nat, UNCHANGED <<now, told>>, NEW t, NEW name, Resolves(t, name)
    PROVE  CacheOK'
<1>1. /\ Sound(cache, told, now) /\ cursor \in Pointers /\ Led(cursor, cache)
      /\ cache_num \in Int
  <2>1. /\ Sound(cache, told, now) /\ cache_num = Len(cache) + lost /\ lost \in Nat
        /\ cache \in Seq(Entries) /\ cursor \in Pointers /\ Led(cursor, cache)
    BY DEF CacheOK, Sound
  <2> QED BY <2>1
<1>2. PICK d : d = clean_up(cache, cache_num)
  OBVIOUS
<1>3. d.list \in Seq(Entries)
  <2>1. Sound(d.list, told, now)
    BY <1>1, <1>2, CleanIsSound
  <2> QED BY <2>1 DEF Sound
<1>4. cursor' = CursorAfter(cache, d.list, cursor) /\ Ask(t, name, cache) /\ lost' = lost
  BY <1>2 DEF Resolves
<1>5. cursor' \in Pointers /\ Led(cursor', d.list)
  BY <1>1, <1>3, <1>4, CursorAfterLeads
<1> QED BY <1>2, <1>4, <1>5, AskSound

\* A query that begins.
LEMMA AskedIsGood ==
    ASSUME task \in [Tasks -> GoodCalls], NEW t \in Tasks, NEW name \in Names \cup {NULL, CURRENT},
           Ask(t, name, cache)
    PROVE  task' \in [Tasks -> GoodCalls]
<1> DEFINE q == [NoCall EXCEPT !.at = "query", !.name = name, !.server = 1, !.udp_try = 1]
<1>1. q \in GoodCalls
  <2>1. NoCall \in InCall /\ NoCall.todo \in Seq(Sayings)
    BY NoCallIsGood DEF GoodCalls
  <2>2. q.at = "query" /\ q.todo = NoCall.todo /\ q \in InCall
    BY <2>1 DEF InCall
  <2> HIDE DEF q
  <2> QED BY <2>1, <2>2 DEF GoodCalls
<1>2. PICK hits : hits = query_name(clean_up(cache, cache_num).list, name)
  OBVIOUS
<1>3. task' = [task EXCEPT ![t] = IF hits # {} \/ Servers = 0 THEN NoCall ELSE q]
  BY <1>2 DEF Ask
<1> HIDE DEF q
<1>4. PICK c \in GoodCalls : task' = [task EXCEPT ![t] = c]
  BY <1>1, <1>3, NoCallIsGood
<1> QED BY <1>4, CallsChange

\* What was read from the file is a cache, but for what is counted on.
LEMMA LoadSound ==
    ASSUME CacheOK, NEW contents, Sound(contents, told, now), UNCHANGED <<now, told>>,
           load_cache(contents)
    PROVE  CacheOK'
<1>1. /\ Len(cache) \in Nat /\ lost \in Nat /\ cache_num = Len(cache) + lost
      /\ cursor \in Pointers /\ contents \in Seq(Entries) /\ Len(contents) \in Nat
  BY DEF CacheOK, Sound
<1>2. PICK num : num = cache_num + Len(contents)
  OBVIOUS
<1>3. PICK p : p = [cursor EXCEPT !.astray = {w \in Words : ~Leads(cursor, w, contents)}]
  OBVIOUS
<1>4. p \in Pointers /\ Led(p, contents)
  <2>1. /\ p.astray = {w \in Words : ~Leads(cursor, w, contents)} /\ p.entry = cursor.entry
        /\ p.alias = cursor.alias /\ p \in Pointers
    BY <1>1, <1>3 DEF Pointers
  <2>2. \A w \in Words : p[w] = cursor[w]
    BY <2>1 DEF Words
  <2>3. \A w \in Words : Leads(p, w, contents) <=> Leads(cursor, w, contents)
    BY <2>2 DEF Leads
  <2> QED BY <2>1, <2>3 DEF Led
<1>5. PICK c : c = clean_up(contents, num)
  OBVIOUS
<1>6. /\ cache' = c.list /\ cache_num' = c.num /\ spinning' = (c.num > DNS_CACHE)
      /\ cursor' = CursorAfter(contents, c.list, p) /\ lost' = lost + Len(cache)
  BY <1>2, <1>3, <1>5 DEF load_cache, Cleans
<1>7. num \in Int /\ lost' \in Nat /\ num = Len(contents) + lost'
  BY <1>1, <1>2, <1>6
<1>8. PICK T : T = told
  OBVIOUS
<1>9. Sound(contents, T, now) /\ told' = T /\ now' = now
  BY <1>8
<1>10. Sound(c.list, T, now)
  BY <1>5, <1>7, <1>9, CleanIsSound
<1>11. cursor' \in Pointers /\ Led(cursor', c.list)
  <2>1. c.list \in Seq(Entries)
    BY <1>10 DEF Sound
  <2> QED BY <1>4, <1>6, <2>1, CursorAfterLeads
<1> QED BY ONLY <1>5, <1>6, <1>7, <1>9, <1>10, <1>11, CleanedIsCache

LEMMA RestartSound ==
    ASSUME NEW list, Sound(list, told, now), UNCHANGED <<now, told>>,
           NEW left, left = clean_up(list, Len(list)),
           cache' = left.list, cache_num' = left.num, spinning' = (left.num > DNS_CACHE),
           cursor' = At(Root(left.list)), lost' = 0
    PROVE  CacheOK'
<1>1. list \in Seq(Entries) /\ Len(list) \in Int /\ lost' \in Nat /\ Len(list) = Len(list) + lost'
  <2>1. list \in Seq(Entries)
    BY DEF Sound
  <2> QED BY <2>1
<1>2. PICK T : T = told
  OBVIOUS
<1>3. Sound(list, T, now) /\ told' = T /\ now' = now
  BY <1>2
<1>4. Sound(left.list, T, now)
  BY <1>1, <1>3, CleanIsSound
<1>5. cursor' \in Pointers /\ Led(cursor', left.list)
  <2>1. left.list \in Seq(Entries)
    BY <1>4 DEF Sound
  <2> QED BY <2>1, RootLeads
<1>6. PICK num : num = Len(list)
  OBVIOUS
<1>7. num \in Int /\ num = Len(list) + lost' /\ left = clean_up(list, num)
  BY <1>1, <1>6
<1> QED BY <1>1, <1>3, <1>4, <1>5, <1>7, CleanedIsCache

\* A word that is written leads to what is there or is astray, and what is not
\* written stays as it is.
LEMMA MoveSound ==
    ASSUME CacheOK, task \in [Tasks -> GoodCalls], UNCHANGED <<now, told>>, NEW t \in Tasks, move(t)
    PROVE  CacheOK' /\ task' \in [Tasks -> GoodCalls]
<1>1. PICK q : q = task[t]
  OBVIOUS
<1>2. /\ q \in InCall /\ q.todo \in Seq(Sayings) /\ q.to \in Places
      /\ q.writes \in {<<"entry">>, <<"alias">>, <<"entry", "alias">>, <<"alias", "entry">>}
  <2>1. q.at = "move" /\ q \in GoodCalls
    BY <1>1 DEF move
  <2> QED BY <2>1 DEF GoodCalls, InCall
<1>3. PICK w : w = Head(q.writes)
  OBVIOUS
<1>4. PICK rest : rest = Tail(q.writes)
  OBVIOUS
<1>5. w \in Words /\ rest \in {<<>>, <<"entry">>, <<"alias">>}
  <2>1. \A x, y : Head(<<x>>) = x /\ Tail(<<x>>) = <<>> /\ Head(<<x, y>>) = x /\ Tail(<<x, y>>) = <<y>>
    OBVIOUS
  <2> QED BY <1>2, <1>3, <1>4, <2>1 DEF Words
<1>6. PICK c : c = [cursor EXCEPT ![w] = q.to[w]]
  OBVIOUS
<1>7. /\ cursor' = [c EXCEPT !.astray = IF Leads(c, w, cache) THEN @ \ {w} ELSE @ \cup {w}]
      /\ UNCHANGED <<cache, cache_num, lost, spinning>>
      /\ task' = [task EXCEPT ![t].writes = Tail(@),
                              ![t].at = IF Tail(task[t].writes) = <<>> THEN "current" ELSE @,
                              ![t].to = IF Tail(task[t].writes) = <<>> THEN Nowhere ELSE @]
  BY <1>1, <1>3, <1>6 DEF move
<1>8. cursor' \in Pointers /\ Led(cursor', cache)
  <2>1. cursor \in Pointers /\ Led(cursor, cache)
    BY DEF CacheOK
  <2>2. PICK a : a = IF Leads(c, w, cache) THEN cursor.astray \ {w} ELSE cursor.astray \cup {w}
    OBVIOUS
  <2>3. /\ c \in Pointers /\ c.astray = cursor.astray /\ c[w] = q.to[w]
        /\ \A v \in Words \ {w} : c[v] = cursor[v]
    <3>1. CASE w = "entry"
      BY <1>2, <1>6, <2>1, <3>1 DEF Pointers, Places, Words
    <3>2. CASE w = "alias"
      BY <1>2, <1>6, <2>1, <3>2 DEF Pointers, Places, Words
    <3> QED BY <1>5, <3>1, <3>2 DEF Words
  <2>4. a \subseteq Words
    BY <1>5, <2>1, <2>2 DEF Pointers
  <2>5. PICK p : p = [c EXCEPT !.astray = a]
    OBVIOUS
  <2>6. cursor' = p
    BY <1>7, <2>2, <2>3, <2>5
  <2>7. p \in Pointers /\ p.astray = a /\ p.entry = c.entry /\ p.alias = c.alias
    BY <2>3, <2>4, <2>5 DEF Pointers
  <2>8. \A v \in Words : p[v] = c[v]
    BY <2>7 DEF Words
  <2>9. \A v \in Words : Leads(p, v, cache) <=> Leads(c, v, cache)
    BY <2>8 DEF Leads
  <2>10. \A v \in Words \ {w} : Leads(c, v, cache) <=> Leads(cursor, v, cache)
    BY <2>3 DEF Leads
  <2>11. \A v \in Words \ a : Leads(c, v, cache)
    BY <2>1, <2>2, <2>10 DEF Led
  <2> QED BY <2>6, <2>7, <2>9, <2>11 DEF Led
<1>9. CacheOK'
  BY <1>7, <1>8 DEF CacheOK
<1>10. \E d \in GoodCalls : task' = [task EXCEPT ![t] = d]
  <2>1. PICK at, to : at = (IF rest = <<>> THEN "current" ELSE "move") /\ to = IF rest = <<>> THEN Nowhere ELSE q.to
    OBVIOUS
  <2>2. q.at = "move"
    BY <1>1 DEF move
  <2>3. PICK d : d = [q EXCEPT !.writes = rest, !.at = at, !.to = to]
    OBVIOUS
  <2>4. Nowhere \in Places /\ <<"entry">> # <<>> /\ <<"alias">> # <<>>
    BY NowhereLeads
  <2>5. to \in Places /\ at \in {"current", "move"} /\ (at = "move" => rest # <<>>)
    BY <1>2, <2>1, <2>4
  <2>6. d \in InCall /\ d.todo = q.todo /\ d.at = at /\ d.writes = rest
    BY <1>2, <1>5, <2>3, <2>5 DEF InCall
  <2>7. d \in GoodCalls
    BY <1>2, <2>5, <2>6 DEF GoodCalls
  <2>8. task' = [task EXCEPT ![t] = d]
    BY <1>1, <1>4, <1>7, <2>1, <2>2, <2>3
  <2> QED BY <2>7, <2>8
<1> QED BY <1>9, <1>10, CallsChange

\* What is left of a call once an entry was made or saved.
LEMMA AfterIsGood ==
    ASSUME NEW c \in InCall, c.todo \in Seq(Sayings)
    PROVE  After(c) \in GoodCalls
<1>1. CASE c.todo # <<>>
  <2>1. After(c) = [c EXCEPT !.at = "update"]
    BY <1>1 DEF After
  <2>2. After(c) \in InCall /\ After(c).todo = c.todo /\ After(c).at = "update"
    BY <2>1 DEF InCall
  <2> QED BY <1>1, <2>2 DEF GoodCalls
<1>2. CASE c.todo = <<>>
  <2>1. PICK at \in {"none", "ask", "current"} : After(c) = [c EXCEPT !.at = at]
    BY <1>2 DEF After
  <2>2. at \in Ats
    BY DEF Ats
  <2> QED BY <2>1, <2>2, AtIsGood
<1> QED BY <1>1, <1>2

LEMMA SentIsGood ==
    ASSUME NEW r \in Zone
    PROVE  /\ FromServer(r, r.real, "DNS_A") \in Updates \cap Sayings
           /\ FromServer(r, r.name, "DNS_CNAME") \in Updates \cap Sayings
<1>1. r.name \in Names /\ r.real \in Names /\ r.ip \in IPs /\ r.ttl \in Nat
  BY ResolverAssumption DEF ResolverAssumption
<1> QED BY <1>1 DEF FromServer, Updates, Sayings

LEMMA NextServerGood ==
    ASSUME task \in [Tasks -> GoodCalls], NEW t \in Tasks, task[t].at = "query", NextServer(t)
    PROVE  task' \in [Tasks -> GoodCalls]
<1>1. PICK c : c = task[t]
  OBVIOUS
<1>2. c \in InCall /\ c.todo \in Seq(Sayings) /\ c.at = "query"
  BY <1>1 DEF GoodCalls
<1> DEFINE q == [c EXCEPT !.server = @ + 1, !.udp_try = 1]
<1>3. q \in InCall /\ q.todo = c.todo /\ q.at = "query"
  <2>1. PICK n : n = c.server + 1
    OBVIOUS
  <2>2. n \in Nat
    BY <1>2, <2>1 DEF InCall
  <2>3. q = [c EXCEPT !.server = n, !.udp_try = 1]
    BY <1>2, <2>1 DEF InCall
  <2> HIDE DEF q
  <2> QED BY <1>2, <2>2, <2>3 DEF InCall
<1>4. q \in GoodCalls
  BY <1>2, <1>3 DEF GoodCalls
<1>5. Onwards(c) \in GoodCalls
  BY <1>4, NoCallIsGood DEF Onwards
<1>6. task' = [task EXCEPT ![t] = Onwards(c)]
  BY <1>1 DEF NextServer
<1> QED BY <1>5, <1>6, CallsChange

\* The steps of a query leave the cache and the file alone.
LEMMA QueryKeeps ==
    ASSUME IInv, NEW t \in Tasks, timeout(t) \/ fail(t) \/ Answered(t)
    PROVE  task' \in [Tasks -> GoodCalls]
<1>1. task \in [Tasks -> GoodCalls]
  BY DEF IInv
<1>2. PICK c : c = task[t]
  OBVIOUS
<1>3. c \in InCall /\ c.todo \in Seq(Sayings)
  BY <1>1, <1>2 DEF GoodCalls
<1>4. CASE timeout(t)
  <2>1. c.at = "query"
    BY <1>2, <1>4 DEF timeout, Expires
  <2>2. CASE c.udp_try < UDP_MAX_TRIES
    <3> DEFINE q == [c EXCEPT !.udp_try = @ + 1]
    <3>1. q \in InCall /\ q.todo = c.todo /\ q.at = "query"
      <4>1. PICK n : n = c.udp_try + 1
        OBVIOUS
      <4>2. n \in Nat
        BY <1>3, <4>1 DEF InCall
      <4>3. q = [c EXCEPT !.udp_try = n]
        BY <4>1
      <4> HIDE DEF q
      <4> QED BY <1>3, <2>1, <4>2, <4>3 DEF InCall
    <3>2. q \in GoodCalls
      BY <1>3, <3>1 DEF GoodCalls
    <3>3. task' = [task EXCEPT ![t] = q]
      BY <1>2, <1>4, <2>2 DEF timeout, Expires
    <3> HIDE DEF q
    <3> QED BY <1>1, <3>2, <3>3, CallsChange
  <2>3. CASE ~(c.udp_try < UDP_MAX_TRIES)
    BY <1>1, <1>2, <1>4, <2>1, <2>3, NextServerGood DEF timeout, Expires
  <2> QED BY <2>2, <2>3
<1>5. CASE fail(t)
  BY <1>1, <1>5, NextServerGood DEF fail
<1>6. CASE Answered(t)
  <2>1. PICK r \in Zone : reply(t, r)
    BY <1>6 DEF Answered
  <2>2. CASE task[t].udp_try >= UDP_MAX_TRIES
    BY <1>1, <2>1, <2>2, NextServerGood DEF reply
  <2>3. CASE ~(task[t].udp_try >= UDP_MAX_TRIES)
    <3>1. PICK u, v : u = FromServer(r, r.real, "DNS_A") /\ v = FromServer(r, r.name, "DNS_CNAME")
      OBVIOUS
    <3>2. u \in Updates /\ u \in Sayings /\ v \in Updates /\ v \in Sayings
      BY <3>1, SentIsGood
    <3>3. <<u, v>> \in Seq(Updates) /\ <<u, v>> \in Seq(Sayings) /\ <<u, v>> # <<>>
      BY <3>2
    <3> DEFINE q == [NoCall EXCEPT !.at = "update", !.todo = <<u, v>>]
    <3>4. q \in InCall /\ q.todo = <<u, v>> /\ q.at = "update"
      <4>1. NoCall \in InCall
        BY NoCallIsGood DEF GoodCalls
      <4>2. PICK todo : todo = <<u, v>>
        OBVIOUS
      <4>3. q = [NoCall EXCEPT !.at = "update", !.todo = todo] /\ todo \in Seq(Updates)
        BY <3>3, <4>2
      <4>4. q \in InCall /\ q.todo = todo /\ q.at = "update"
        <5> HIDE DEF q
        <5> QED BY <4>1, <4>3 DEF InCall
      <4> QED BY <4>2, <4>4
    <3>5. q \in GoodCalls
      <4> HIDE DEF q
      <4> QED BY <3>3, <3>4 DEF GoodCalls
    <3>6. task' = [task EXCEPT ![t] = q]
      BY <2>1, <2>3, <3>1 DEF reply, FromServer
    <3> HIDE DEF q
    <3> QED BY <1>1, <3>5, <3>6, CallsChange
  <2> QED BY <2>2, <2>3
<1> QED BY <1>4, <1>5, <1>6

\* An entry is made, and what is said is remembered.
LEMMA UpdateKeeps ==
    ASSUME IInv, NEW t \in Tasks, update(t)
    PROVE  IInv'
<1>1. /\ CacheOK /\ FileOK /\ task \in [Tasks -> GoodCalls] /\ now \in 1 .. MaxTime
      /\ told \subseteq [name : Names, ip : IPs, until : Nat]
  BY DEF IInv
<1>2. PICK c : c = task[t]
  OBVIOUS
<1>3. c \in InCall /\ c.todo \in Seq(Sayings) /\ c.todo \in Seq(Updates) /\ c.todo # <<>>
  BY <1>1, <1>2 DEF GoodCalls, InCall, update
<1>4. PICK todo : todo = c.todo
  OBVIOUS
<1>5. PICK u : u = Head(todo)
  OBVIOUS
<1>6. u \in Sayings /\ u \in Updates /\ Tail(todo) \in Seq(Sayings) /\ Tail(todo) \in Seq(Updates)
  BY <1>3, <1>4, <1>5
<1>7. u.name \in Names /\ u.ip \in IPs /\ u.ttl \in Nat
  BY <1>6 DEF Updates
<1>8. now \in Nat \ {0}
  BY <1>1, SizesAreNat
<1>9. told' = told \cup {Tells(u)} /\ UNCHANGED <<file, now, calls>>
  BY <1>2, <1>4, <1>5 DEF update
<1>10. Tells(u) \in [name : Names, ip : IPs, until : Nat]
  BY <1>7, <1>8, UntilSound DEF Tells
<1>11. told' \subseteq [name : Names, ip : IPs, until : Nat]
  BY <1>1, <1>9, <1>10
<1>12. FileOK'
  BY <1>1, <1>9, FileStays
<1>13. PICK d : d = [c EXCEPT !.todo = Tail(todo)]
  OBVIOUS
<1>14. d \in InCall /\ d.todo = Tail(todo)
  BY <1>3, <1>6, <1>13 DEF InCall
<1>15. CacheOK' /\ task' \in [Tasks -> GoodCalls]
  <2>1. \/ update_cache(u) /\ task' = [task EXCEPT ![t] = [d EXCEPT !.at = "create"]]
        \/ task' = [task EXCEPT ![t] = After(d)] /\ UNCHANGED <<cache, cache_num, lost, cursor, spinning>>
    BY <1>2, <1>4, <1>5, <1>13 DEF update
  <2>2. CASE update_cache(u) /\ task' = [task EXCEPT ![t] = [d EXCEPT !.at = "create"]]
    <3>1. Spoken(u, told')
      BY <1>6, <1>8, <1>9 DEF Spoken
    <3>2. ~spinning
      BY DEF update
    <3>3. CacheOK'
      BY <1>1, <1>8, <1>9, <2>2, <3>1, <3>2, UpdateSound
    <3>4. PICK e : e = [d EXCEPT !.at = "create"]
      OBVIOUS
    <3>5. e \in InCall /\ e.todo = Tail(todo) /\ e.at = "create"
      BY <1>14, <3>4 DEF InCall
    <3>6. e \in GoodCalls
      BY <1>6, <3>5 DEF GoodCalls
    <3>7. task' \in [Tasks -> GoodCalls]
      BY <1>1, <2>2, <3>4, <3>6, CallsChange
    <3> QED BY <3>3, <3>7
  <2>3. CASE task' = [task EXCEPT ![t] = After(d)] /\ UNCHANGED <<cache, cache_num, lost, cursor, spinning>>
    <3>1. CacheOK'
      BY <1>1, <1>9, <2>3, CacheStays
    <3>2. After(d) \in GoodCalls
      BY <1>6, <1>14, AfterIsGood
    <3> QED BY <1>1, <2>3, <3>1, <3>2, CallsChange
  <2> QED BY <2>1, <2>2, <2>3
<1> QED BY <1>9, <1>11, <1>12, <1>15 DEF IInv

LEMMA NextIInv == IInv /\ [Next]_vars => IInv'
<1> SUFFICES ASSUME IInv, [Next]_vars PROVE IInv'
  OBVIOUS
<1>1. /\ CacheOK /\ FileOK /\ task \in [Tasks -> GoodCalls] /\ now \in 1 .. MaxTime /\ calls \in 0 .. Calls
      /\ told \subseteq [name : Names, ip : IPs, until : Nat]
  BY DEF IInv
<1>2. now \in Nat \ {0} /\ calls \in Nat
  BY <1>1, SizesAreNat
<1>3. calls < Calls /\ calls' = calls + 1 => calls' \in 0 .. Calls
  BY <1>1, <1>2, SizesAreNat
<1>4. /\ Sound(cache, told, now) /\ Apart(cache) /\ cache \in Seq(Entries)
      /\ cursor \in Pointers /\ Led(cursor, cache)
  BY <1>1 DEF CacheOK, Sound
<1>5. \A t \in Tasks : task[t] \in InCall /\ task[t].todo \in Seq(Sayings)
  BY <1>1 DEF GoodCalls
<1>6. CURRENT \in Names \cup {NULL, CURRENT} /\ NoCall \in InCall /\ NoCall.todo \in Seq(Sayings)
  BY NoCallIsGood DEF GoodCalls
\* A step that leaves the cache, the file and the clock as they are, and makes a
\* good call of one.
<1>7. ASSUME UNCHANGED <<cache, cache_num, lost, cursor, file, now, spinning, told>>, calls' \in 0 .. Calls,
             NEW t \in Tasks, NEW q \in GoodCalls, task' = [task EXCEPT ![t] = q]
      PROVE  IInv'
  <2>1. CacheOK' /\ FileOK'
    BY <1>1, <1>7, CacheStays, FileStays
  <2>2. task' \in [Tasks -> GoodCalls]
    BY <1>1, <1>7, CallsChange
  <2> QED BY <1>1, <1>7, <2>1, <2>2 DEF IInv
<1>8. ASSUME NEW t \in Tasks, NEW z \in Zone, my_resolve(t, z.name) PROVE IInv'
  <2>1. UNCHANGED <<file, now, told>> /\ Resolves(t, z.name) /\ calls' \in 0 .. Calls
    BY <1>3, <1>8 DEF my_resolve, Calling
  <2>2. CacheOK'
    BY <1>1, <1>2, <2>1, ResolvesSound
  <2>3. FileOK'
    BY <1>1, <2>1, FileStays
  <2>4. z.name \in Names
    BY ResolverAssumption DEF ResolverAssumption
  <2>5. task' \in [Tasks -> GoodCalls]
    BY <1>1, <2>1, <2>4, AskedIsGood DEF Resolves
  <2> QED BY <1>1, <2>1, <2>2, <2>3, <2>5 DEF IInv
<1>9. ASSUME NEW t \in Tasks, Ca_first_dom(t) \/ rewind(t) PROVE IInv'
  <2>1. PICK c \in {[NoCall EXCEPT !.name = CURRENT], task[t]} :
          /\ UNCHANGED <<cache, cache_num, lost, cursor, file, now, spinning, told>> /\ calls' \in 0 .. Calls
          /\ task' = [task EXCEPT ![t] = Rewinds(c)]
    BY <1>1, <1>3, <1>9 DEF Ca_first_dom, rewind, Calling
  <2>2. c \in InCall /\ c.todo \in Seq(Sayings)
    <3>1. CASE c = task[t]
      BY <1>5, <3>1
    <3>2. CASE c = [NoCall EXCEPT !.name = CURRENT]
      BY <1>6, <3>2 DEF InCall
    <3> QED BY <3>1, <3>2
  <2>3. Root(cache) \in Places
    BY <1>4, RootLeads
  <2>4. Rewinds(c) = [c EXCEPT !.at = "move", !.to = Root(cache), !.writes = <<"entry", "alias">>]
    BY DEF Rewinds
  <2>5. Rewinds(c) \in GoodCalls
    BY <2>2, <2>3, <2>4, WritesIsGood
  <2> QED BY <1>7, <2>1, <2>5
<1>10. ASSUME NEW t \in Tasks, Ca_next_dom(t) PROVE IInv'
  <2>1. PICK c : c = [NoCall EXCEPT !.name = CURRENT]
    OBVIOUS
  <2>2. /\ UNCHANGED <<cache, cache_num, lost, cursor, file, now, spinning, told>> /\ calls' \in 0 .. Calls
        /\ task' = [task EXCEPT ![t] = Moves(c)] /\ cursor.astray = {}
    BY <1>3, <1>10, <2>1 DEF Ca_next_dom, Calling
  <2>3. c \in InCall /\ c.todo \in Seq(Sayings)
    BY <1>6, <2>1 DEF InCall
  <2>4. Moves(c) \in GoodCalls
    <3>1. CASE cursor.entry = NULL
      <4>1. Moves(c) = [c EXCEPT !.at = "current"] /\ "current" \in Ats
        BY <3>1 DEF Moves, Ats
      <4> QED BY <2>3, <4>1, AtIsGood
    <3>2. CASE cursor.entry # NULL
      <4>1. PICK to : to = [entry |-> NextEntry, alias |-> NextAlias]
        OBVIOUS
      <4>2. PICK writes \in {<<"alias">>, <<"alias", "entry">>} :
              Moves(c) = [c EXCEPT !.at = "move", !.to = to, !.writes = writes]
        BY <3>2, <4>1 DEF Moves
      <4>3. to \in Places
        BY <1>4, <2>2, <3>2, <4>1, NextIsPlace
      <4>4. writes \in {<<"alias">>, <<"entry", "alias">>, <<"alias", "entry">>}
        OBVIOUS
      <4>5. [c EXCEPT !.at = "move", !.to = to, !.writes = writes] \in GoodCalls
        BY ONLY <2>3, <4>3, <4>4, WritesIsGood
      <4> QED BY <4>2, <4>5
    <3> QED BY <3>1, <3>2
  <2> QED BY <1>7, <2>2, <2>4
<1>11. ASSUME NEW t \in Tasks, load(t) \/ SAVE(t) PROVE IInv'
  <2>1. PICK at \in {"current", "fill", "erase", "create"} :
          /\ UNCHANGED <<cache, cache_num, lost, cursor, file, now, spinning, told>> /\ calls' \in 0 .. Calls
          /\ task' = [task EXCEPT ![t] = [NoCall EXCEPT !.at = at, !.name = CURRENT]]
    BY <1>3, <1>11 DEF load, SAVE, Calling
  <2>2. at \in Ats
    BY DEF Ats
  <2>3. [NoCall EXCEPT !.at = at, !.name = CURRENT] \in GoodCalls
    BY <1>6, <2>2, BegunIsGood
  <2> QED BY <1>7, <2>1, <2>3
<1>12. ASSUME NEW t \in Tasks, NEW u \in Commands, command(t, u) PROVE IInv'
  <2>1. /\ UNCHANGED <<cache, cache_num, lost, cursor, file, now, spinning, told>> /\ calls' \in 0 .. Calls
        /\ task' = [task EXCEPT ![t] = [NoCall EXCEPT !.at = "update", !.name = u.name, !.todo = <<u>>]]
    BY <1>3, <1>12 DEF command, Calling
  <2>2. PICK q : q = [NoCall EXCEPT !.at = "update", !.name = u.name, !.todo = <<u>>]
    OBVIOUS
  <2>3. u \in Updates /\ u \in Sayings /\ u.name \in Names
    BY ResolverAssumption DEF ResolverAssumption, Updates, Sayings
  <2>4. q \in GoodCalls
    <3>1. <<u>> \in Seq(Updates) /\ <<u>> \in Seq(Sayings) /\ <<u>> # <<>>
      BY <2>3
    <3>2. q \in InCall /\ q.todo = <<u>> /\ q.at = "update"
      BY <1>6, <2>2, <2>3, <3>1 DEF InCall
    <3> QED BY <3>1, <3>2 DEF GoodCalls
  <2> QED BY <1>7, <2>1, <2>2, <2>4
<1>13. ASSUME NEW t \in Tasks, move(t) PROVE IInv'
  <2>1. UNCHANGED <<file, now, calls, told>>
    BY <1>13 DEF move
  <2>2. CacheOK' /\ task' \in [Tasks -> GoodCalls]
    BY <1>1, <1>13, <2>1, MoveSound
  <2>3. FileOK'
    BY <1>1, <2>1, FileStays
  <2> QED BY <1>1, <2>1, <2>2, <2>3 DEF IInv
<1>14. ASSUME NEW t \in Tasks, current(t) PROVE IInv'
  <2>1. PICK name \in Ca_curr_dom :
          task' = [task EXCEPT ![t] = IF name = NULL THEN NoCall ELSE [NoCall EXCEPT !.at = "ask", !.name = name]]
    BY <1>14 DEF current
  <2>2. UNCHANGED <<cache, cache_num, lost, cursor, file, now, spinning, calls, told>>
    BY <1>14 DEF current
  <2>3. name \in Names \cup {NULL}
    BY <1>4, <2>1 DEF Ca_curr_dom, Pointers
  <2>4. [NoCall EXCEPT !.at = "ask", !.name = name] \in GoodCalls
    <3>1. "ask" \in Ats
      BY DEF Ats
    <3> QED BY <2>3, <3>1, BegunIsGood
  <2>5. PICK q \in GoodCalls : task' = [task EXCEPT ![t] = q]
    BY <2>1, <2>4, NoCallIsGood
  <2> QED BY <1>1, <1>7, <2>2, <2>5
<1>15. ASSUME NEW t \in Tasks, erase_cache(t) PROVE IInv'
  <2>1. /\ cache' = <<>> /\ cache_num' = 0 /\ lost' = 0 /\ cursor' = At(Nowhere) /\ ~spinning
        /\ UNCHANGED <<file, now, spinning, calls, told>>
        /\ task' = [task EXCEPT ![t].at = "fill"]
    BY <1>15 DEF erase_cache
  <2>2. CacheOK'
    <3>1. Sound(<<>>, told', now')
      BY DEF Sound, Apart
    <3>2. Len(cache') = 0 /\ lost' \in Nat /\ cache_num' = Len(cache') + lost' /\ ~(cache_num' > DNS_CACHE)
      BY <2>1, SizesAreNat
    <3>3. spinning' \in BOOLEAN /\ ~spinning'
      BY <1>1, <2>1 DEF CacheOK
    <3>4. cursor' \in Pointers /\ Led(cursor', cache')
      BY <2>1, NowhereLeads
    <3> QED BY <2>1, <3>1, <3>2, <3>3, <3>4 DEF CacheOK
  <2>3. FileOK'
    BY <1>1, <2>1, FileStays
  <2>4. task' \in [Tasks -> GoodCalls]
    <3>1. [task[t] EXCEPT !.at = "fill"] \in GoodCalls
      <4>1. "fill" \in Ats
        BY DEF Ats
      <4> QED BY <1>5, <4>1, AtIsGood
    <3>2. task' = [task EXCEPT ![t] = [task[t] EXCEPT !.at = "fill"]]
      BY <2>1
    <3> QED BY <1>1, <3>1, <3>2, CallsChange
  <2> QED BY <1>1, <2>1, <2>2, <2>3, <2>4 DEF IInv
<1>16. ASSUME NEW t \in Tasks, fill(t) PROVE IInv'
  <2>1. PICK list \in Readable(file) : load_cache(list)
    BY <1>16 DEF fill
  <2>2. UNCHANGED <<file, now, calls, told>> /\ task' = [task EXCEPT ![t].at = "rewind"]
    BY <1>16 DEF fill
  <2>3. Sound(list, told, now)
    BY <1>1, <2>1, HalfIsSound DEF FileOK
  <2>4. CacheOK'
    BY <1>1, <2>1, <2>2, <2>3, LoadSound
  <2>5. FileOK'
    BY <1>1, <2>2, FileStays
  <2>6. task' \in [Tasks -> GoodCalls]
    <3>1. [task[t] EXCEPT !.at = "rewind"] \in GoodCalls
      <4>1. "rewind" \in Ats
        BY DEF Ats
      <4> QED BY <1>5, <4>1, AtIsGood
    <3>2. task' = [task EXCEPT ![t] = [task[t] EXCEPT !.at = "rewind"]]
      BY <2>2
    <3> QED BY <1>1, <3>1, <3>2, CallsChange
  <2> QED BY <1>1, <2>2, <2>4, <2>5, <2>6 DEF IInv
<1>17. ASSUME NEW t \in Tasks, asks(t) PROVE IInv'
  <2>1. UNCHANGED <<file, now, calls, told>> /\ Resolves(t, task[t].name)
    BY <1>17 DEF asks
  <2>2. CacheOK' /\ FileOK'
    BY <1>1, <1>2, <2>1, ResolvesSound, FileStays
  <2>3. task[t].name \in Names \cup {NULL, CURRENT}
    BY <1>5 DEF InCall
  <2>4. task' \in [Tasks -> GoodCalls]
    BY <1>1, <2>1, <2>3, AskedIsGood DEF Resolves
  <2> QED BY <1>1, <2>1, <2>2, <2>4 DEF IInv
<1>18. ASSUME NEW t \in Tasks, create(t) \/ save(t) PROVE IInv'
  <2>1. PICK c : c = task[t]
    OBVIOUS
  <2>2. c \in InCall /\ c.todo \in Seq(Sayings)
    BY <1>5, <2>1
  <2>3. /\ UNCHANGED <<cache, cache_num, lost, cursor, now, spinning, calls, told>>
        /\ file' = <<>> \/ file' = cache
    BY <1>18 DEF create, save
  <2>4. CacheOK'
    BY <1>1, <2>3, CacheStays
  <2>5. FileOK'
    <3>1. Sound(<<>>, told, now)
      BY DEF Sound, Apart
    <3> QED BY <1>4, <2>3, <3>1 DEF FileOK
  <2>6. \E q \in GoodCalls : task' = [task EXCEPT ![t] = q]
    <3>1. CASE create(t)
      <4>1. [c EXCEPT !.at = "save"] \in GoodCalls
        <5>1. "save" \in Ats
          BY DEF Ats
        <5> QED BY <2>2, <5>1, AtIsGood
      <4>2. task' = [task EXCEPT ![t] = [c EXCEPT !.at = "save"]]
        BY <2>1, <3>1 DEF create
      <4> QED BY <4>1, <4>2
    <3>2. CASE save(t)
      <4>1. task' = [task EXCEPT ![t] = After(c)]
        BY <2>1, <3>2 DEF save
      <4> QED BY <2>2, <4>1, AfterIsGood
    <3> QED BY <1>18, <3>1, <3>2
  <2>7. task' \in [Tasks -> GoodCalls]
    BY <1>1, <2>6, CallsChange
  <2> QED BY <1>1, <2>3, <2>4, <2>5, <2>7 DEF IInv
<1>19. ASSUME NEW t \in Tasks, timeout(t) \/ fail(t) \/ Answered(t) PROVE IInv'
  <2>1. UNCHANGED <<cache, cache_num, lost, cursor, file, now, spinning, calls, told>>
    BY <1>19 DEF timeout, fail, Answered, reply
  <2>2. CacheOK' /\ FileOK'
    BY <1>1, <2>1, CacheStays, FileStays
  <2>3. task' \in [Tasks -> GoodCalls]
    BY <1>19, QueryKeeps
  <2> QED BY <1>1, <2>1, <2>2, <2>3 DEF IInv
<1>20. ASSUME NEW t \in Tasks, update(t) PROVE IInv'
  BY <1>20, UpdateKeeps
<1>21. CASE tick
  <2>1. /\ now < MaxTime /\ now' = now + 1 /\ told' = {r \in told : r.until = 0 \/ r.until > now}
        /\ UNCHANGED <<cache, cache_num, lost, cursor, task, file, spinning, calls>>
    BY <1>21 DEF tick
  <2>2. PICK V : V = {r \in told : r.until = 0 \/ r.until > now}
    OBVIOUS
  <2>3. Sound(cache, V, now + 1) /\ Sound(file, V, now + 1)
    BY <1>1, <1>2, <1>4, <2>2, TimePasses DEF FileOK
  <2>4. CacheOK' /\ FileOK'
    BY <1>1, <2>1, <2>2, <2>3 DEF CacheOK, FileOK
  <2>5. now' \in 1 .. MaxTime
    BY <1>1, <1>2, <2>1, SizesAreNat
  <2>6. told' \subseteq [name : Names, ip : IPs, until : Nat]
    BY <1>1, <2>1
  <2> QED BY <1>1, <2>1, <2>4, <2>5, <2>6 DEF IInv
<1>22. CASE restart
  <2>0. PICK f \in Halves : \E list \in Readable(f) :
          LET left == clean_up(list, Len(list))
          IN  /\ file' = f /\ cache' = left.list /\ cache_num' = left.num
              /\ spinning' = (left.num > DNS_CACHE) /\ cursor' = At(Root(left.list))
    BY <1>22 DEF restart
  <2>1. PICK list \in Readable(f) :
          LET left == clean_up(list, Len(list))
          IN  /\ file' = f /\ cache' = left.list /\ cache_num' = left.num
              /\ spinning' = (left.num > DNS_CACHE) /\ cursor' = At(Root(left.list))
    BY <2>0
  <2>2. UNCHANGED <<now, told>> /\ lost' = 0 /\ calls' \in 0 .. Calls /\ task' = [t \in Tasks |-> NoCall]
    BY <1>3, <1>22 DEF restart
  <2>3. Sound(f, told, now)
    <3>1. CASE f = file
      BY <1>1, <3>1 DEF FileOK
    <3>2. CASE f # file
      <4>1. f \in Readable(cache)
        BY <2>1, <3>2 DEF Halves
      <4> QED BY <1>4, <4>1, HalfIsSound
    <3> QED BY <3>1, <3>2
  <2>4. Sound(list, told, now)
    BY <2>1, <2>3, HalfIsSound
  <2>5. PICK left : left = clean_up(list, Len(list))
    OBVIOUS
  <2>6. CacheOK'
    BY <2>1, <2>2, <2>4, <2>5, RestartSound
  <2>7. FileOK'
    BY <2>1, <2>2, <2>3 DEF FileOK
  <2>8. task' \in [Tasks -> GoodCalls]
    BY <2>2, NoCallIsGood
  <2> QED BY <1>1, <2>2, <2>6, <2>7, <2>8 DEF IInv
<1>23. CASE UNCHANGED vars
  BY <1>1, <1>23, CacheStays, FileStays DEF IInv, vars
<1> QED BY <1>8, <1>9, <1>10, <1>11, <1>12, <1>13, <1>14, <1>15, <1>16, <1>17, <1>18, <1>19, <1>20,
           <1>21, <1>22, <1>23
        DEF Next, Steps, Hangs, Rests

(***************************************************************************)
(* The theorems                                                            *)
(***************************************************************************)
LEMMA IInvStays == Spec => []IInv
<1>1. Init => IInv
  BY InitIInv
<1>2. IInv /\ [Next]_vars => IInv'
  BY NextIInv
<1> QED BY <1>1, <1>2, PTL DEF Spec

\* The cache, the cursor, the file and the calls are what the code takes them
\* for, whatever is resolved, saved, loaded and restarted.
THEOREM ResolverTypeOK == Spec => []TypeOK
BY IInvStays, IInvIsTypeOK, PTL

\* cache_num is the number of entries and of those a load dropped since the list was
\* last emptied, clean_up only runs without end while that is too many, and no name
\* has an address twice, through updates by several tasks between any steps, expiries
\* and loads, in one piece or in part.
THEOREM CacheStaysSound == Spec => []CacheIsSound
<1>1. IInv => CacheIsSound
  <2> SUFFICES ASSUME IInv PROVE CacheIsSound
    OBVIOUS
  <2>1. /\ cache \in Seq(Entries) /\ Apart(cache) /\ cache_num = Len(cache) + lost
        /\ (spinning <=> cache_num > DNS_CACHE)
    BY DEF IInv, CacheOK, Sound
  <2>2. DOMAIN cache = 1 .. Len(cache)
    BY <2>1
  <2> QED BY <2>1, <2>2 DEF CacheIsSound, Apart
<1> QED BY <1>1, IInvStays, PTL

\* A word of the cursor that led somewhere when it was written leads to an entry, or
\* an alias of it, that is in the cache, whoever updates and cleans it afterwards;
\* only a load may lead it astray.
THEOREM CursorStaysSound == Spec => []CursorIsSound
<1>1. IInv => CursorIsSound
  BY DEF IInv, CacheOK, Led, CursorIsSound
<1> QED BY <1>1, IInvStays, PTL

\* Who says that an address holds for ever is not contradicted by an alias of it
\* with an expiry: such an alias would stay as long as the entry does, since
\* clean_up keeps every alias of an entry without expiry.
AliasesAlike == \A u, v \in Sayings : u.ip = v.ip /\ u.ttl = 0 /\ v.type = "DNS_CNAME" => v.ttl = 0

\* What is left of an entry after clean_up was said and holds.
LEMMA AliveIsSaid ==
    ASSUME AliasesAlike, now \in Nat \ {0}, told \subseteq [name : Names, ip : IPs, until : Nat],
           NEW old \in Entries, Live(old), Honest(old, told, now),
           NEW n, Named(LiveAliases(old), n)
    PROVE  \E r \in told : r.name = n /\ r.ip = old.ip /\ (r.until = 0 \/ r.until >= now)
<1> DEFINE Said(x) == \E r \in told : /\ r.name = n /\ r.ip = old.ip
                                      /\ r.until = 0 \/ (x # 0 /\ r.until >= x)
           Holds == \E r \in told : r.name = n /\ r.ip = old.ip /\ (r.until = 0 \/ r.until >= now)
<1>1. PICK e : e = LiveAliases(old)
  OBVIOUS
<1>2. e \in Entries /\ e.name = old.name /\ \A k \in 1 .. Len(e.alias) : \E j \in 1 .. Len(old.alias) :
        e.alias[k] = old.alias[j] /\ (old.alias[j].expiry >= now \/ old.expiry = 0)
  BY <1>1, LiveAliasesSound
<1>3. ASSUME NEW x \in Nat, x = 0 \/ x >= now, Said(x) PROVE Holds
  <2>1. PICK r \in told : r.name = n /\ r.ip = old.ip /\ (r.until = 0 \/ (x # 0 /\ r.until >= x))
    BY <1>3
  <2>2. r.until \in Nat
    BY <2>1
  <2>3. r.until = 0 \/ r.until >= now
    BY <1>3, <2>1, <2>2
  <2> QED BY <2>1, <2>3
<1>4. CASE old.name = n
  <2>1. old.expiry \in Nat /\ (old.expiry = 0 \/ old.expiry >= now)
    BY EntryParts DEF Live
  <2>2. Said(old.expiry)
    BY <1>4, <2>1 DEF Honest, Backed
  <2> HIDE DEF Said, Holds
  <2>3. Holds
    BY <1>3, <2>1, <2>2
  <2> QED BY <2>3 DEF Holds
<1>5. CASE old.name # n
  <2>1. \E d \in ToSet(e.alias) : d.name = n
    BY <1>1, <1>2, <1>5 DEF Named
  <2>2. PICK a : a = e.alias
    OBVIOUS
  <2>3. a \in Seq(Alias)
    BY <1>2, <2>2, EntryParts
  <2>4. PICK k \in 1 .. Len(a) : a[k].name = n
    BY <2>1, <2>2, <2>3 DEF ToSet
  <2>5. PICK j \in 1 .. Len(old.alias) :
          e.alias[k] = old.alias[j] /\ (old.alias[j].expiry >= now \/ old.expiry = 0)
    BY <1>2, <2>2, <2>4
  <2>6. PICK d : d = old.alias[j]
    OBVIOUS
  <2>7. d \in Alias /\ d.name = n /\ (d.expiry >= now \/ old.expiry = 0)
    BY <2>2, <2>4, <2>5, <2>6, EntryParts
  <2>8. d.expiry \in Nat
    BY <2>7 DEF Alias
  <2>9. /\ Backed(d.name, old.ip, d.expiry, told, now)
        /\ d.expiry # 0 => \E v \in Sayings : v.ip = old.ip /\ v.ttl # 0 /\ v.type = "DNS_CNAME"
        /\ old.expiry = 0 => \E u \in Sayings : u.ip = old.ip /\ u.ttl = 0
    BY <2>6 DEF Honest
  <2>10. d.expiry = 0 \/ d.expiry >= now
    BY <2>7, <2>9 DEF AliasesAlike
  <2>11. Said(d.expiry)
    BY <2>7, <2>9, <2>10 DEF Backed
  <2> HIDE DEF Said, Holds
  <2>12. Holds
    BY <1>3, <2>8, <2>10, <2>11
  <2> QED BY <2>12 DEF Holds
<1> QED BY <1>4, <1>5

\* Whatever the cache answers was said by a server or a user for this name and
\* address and still holds, whichever task learnt it, whoever renewed, saved or
\* loaded it, unless a name is an alias for a time of an address that is for ever.
THEOREM AnswersAreFresh ==
    ASSUME AliasesAlike
    PROVE  Spec => []AnswersFresh
<1>1. IInv => AnswersFresh
  <2> SUFFICES ASSUME IInv, NEW n \in Names, NEW ip \in query_name(Kept(cache), n)
               PROVE  \E r \in told : r.name = n /\ r.ip = ip /\ (r.until = 0 \/ r.until >= now)
    BY DEF AnswersFresh
  <2>1. /\ cache \in Seq(Entries) /\ \A i \in 1 .. Len(cache) : Honest(cache[i], told, now)
        /\ now \in Nat \ {0} /\ told \subseteq [name : Names, ip : IPs, until : Nat]
    BY SizesAreNat DEF IInv, CacheOK, Sound
  <2>2. PICK kept : kept = Kept(cache)
    OBVIOUS
  <2>3. kept \in Seq(Entries)
    BY <2>1, <2>2, KeptSound
  <2>4. PICK g : /\ g \in [1 .. Len(kept) -> 1 .. Len(cache)]
                 /\ \A j \in 1 .. Len(kept) : Live(cache[g[j]]) /\ kept[j] = LiveAliases(cache[g[j]])
    BY <2>1, <2>2, KeptSound
  <2>5. PICK e \in ToSet(kept) : Named(e, n) /\ ip = e.ip
    BY <2>2 DEF query_name
  <2>6. PICK j \in 1 .. Len(kept) : e = kept[j]
    BY <2>3, <2>5 DEF ToSet
  <2>7. PICK old : old = cache[g[j]]
    OBVIOUS
  <2>8. old \in Entries /\ Honest(old, told, now) /\ Live(old) /\ e = LiveAliases(old)
    BY <2>1, <2>4, <2>6, <2>7
  <2>9. ip = old.ip
    BY <2>5, <2>8, LiveAliasesSound
  <2> QED BY <2>1, <2>5, <2>8, <2>9, AliveIsSaid
<1> QED BY <1>1, IInvStays, PTL
=============================================================================
