---------------------------- MODULE Router_proofs ----------------------------
(***************************************************************************)
(* Proofs about what a request to the Router passes through, for every     *)
(* number of keys, replicas, requests and sizes of the cache: the records  *)
(* of scoped keys follow the sandboxes they are for, what a replica        *)
(* accepts is as fresh as its cache promises, a client that waits as long  *)
(* as it was told is not refused again, and what a user is granted stays   *)
(* within the bucket and what flowed into it.                              *)
(***************************************************************************)
EXTENDS ApiKeys, RateLimits, Sums, FiniteSetTheorems, TLAPS

-----------------------------------------------------------------------------
(* The cache.                                                              *)

Cached == [items : [Keys -> Entry \union {None}], order : Seq(Keys)]

\* What TypeOK says of each cache.
WellKept(c) ==
  /\ Len(c.order) <= CacheSize /\ IsInjective(c.order)
  /\ ToSet(c.order) = {k \in Keys : c.items[k] # None}

\* The first occurrence of an element that occurs once.
LEMMA RemoveOnce ==
  ASSUME NEW K, NEW s \in Seq(K), IsInjective(s), NEW i \in 1..Len(s)
  PROVE  RemoveFirst(s, s[i]) = SubSeq(s, 1, i - 1) \o SubSeq(s, i + 1, Len(s))
<1> DEFINE I == {j \in 1..Len(s) : s[j] = s[i]}
<1>1. I = {i}
  BY DEF IsInjective
<1>2. Min({i}) = i
  BY DEF Min
<1>3. SelectInSeq(s, LAMBDA v : v = s[i]) = i
  BY <1>1, <1>2 DEF SelectInSeq
<1> QED BY <1>3 DEF RemoveFirst, RemoveAt

LEMMA ConcatLaws ==
  ASSUME NEW K, NEW a \in Seq(K), NEW b \in Seq(K)
  PROVE  /\ a \o b \in Seq(K) /\ Len(a \o b) = Len(a) + Len(b)
         /\ DOMAIN (a \o b) = 1..(Len(a) + Len(b))
         /\ \A j \in 1..(Len(a) + Len(b)) :
              (a \o b)[j] = IF j <= Len(a) THEN a[j] ELSE b[j - Len(a)]
OBVIOUS

\* RemoveFirst takes an element out of a sequence without repetitions.
LEMMA RemoveFirstKeeps ==
  ASSUME NEW K, NEW s \in Seq(K), IsInjective(s), NEW x \in K
  PROVE  LET t == RemoveFirst(s, x) IN
           /\ t \in Seq(K) /\ Len(t) <= Len(s) /\ IsInjective(t)
           /\ ToSet(t) = ToSet(s) \ {x}
<1>1. CASE \A i \in 1..Len(s) : s[i] # x
  <2>1. RemoveFirst(s, x) = s
    BY <1>1 DEF RemoveFirst
  <2> QED BY <2>1, <1>1 DEF ToSet
<1>2. CASE \E i \in 1..Len(s) : s[i] = x
  <2>1. PICK i \in 1..Len(s) : s[i] = x
    BY <1>2
  <2> DEFINE t == SubSeq(s, 1, i - 1) \o SubSeq(s, i + 1, Len(s))
  <2>2. RemoveFirst(s, x) = t
    BY <2>1, RemoveOnce
  <2> DEFINE u == SubSeq(s, 1, i - 1)
             w == SubSeq(s, i + 1, Len(s))
  <2>a. /\ u \in Seq(K) /\ Len(u) = i - 1 /\ i \in Nat /\ Len(s) \in Nat
        /\ \A j \in 1..(i - 1) : u[j] = s[j]
    OBVIOUS
  <2>b. /\ w \in Seq(K) /\ Len(w) = Len(s) - i
        /\ \A j \in 1..(Len(s) - i) : w[j] = s[i + j]
    OBVIOUS
  <2>c. t = u \o w
    OBVIOUS
  <2> HIDE DEF u, w, t
  <2>3. t \in Seq(K) /\ Len(s) \in Nat /\ i \in Nat /\ Len(t) = Len(s) - 1 /\ DOMAIN t = 1..(Len(s) - 1)
    <3>1. Len(u) + Len(w) = Len(s) - 1
      BY <2>a, <2>b
    <3> QED BY <3>1, <2>a, <2>b, <2>c, ConcatLaws
  <2>4. \A j \in 1..(Len(s) - 1) : t[j] = IF j < i THEN s[j] ELSE s[j + 1]
    <3> SUFFICES ASSUME NEW j \in 1..(Len(s) - 1)
                 PROVE  t[j] = IF j < i THEN s[j] ELSE s[j + 1]
      OBVIOUS
    <3>1. t[j] = IF j <= Len(u) THEN u[j] ELSE w[j - Len(u)]
      <4>1. j \in 1..(Len(u) + Len(w))
        BY <2>a, <2>b
      <4>2. \A m \in 1..(Len(u) + Len(w)) :
              (u \o w)[m] = IF m <= Len(u) THEN u[m] ELSE w[m - Len(u)]
        BY <2>a, <2>b, ConcatLaws
      <4> QED BY <4>1, <4>2, <2>c
    <3>2. CASE j < i
      <4>1. j <= Len(u) /\ j \in 1..(i - 1)
        BY <3>2, <2>a
      <4> QED BY <4>1, <3>1, <3>2, <2>a
    <3>3. CASE ~(j < i)
      <4>1. ~(j <= Len(u)) /\ j - Len(u) = j - i + 1 /\ j - i + 1 \in 1..(Len(s) - i)
        BY <3>3, <2>a
      <4>2. w[j - i + 1] = s[i + (j - i + 1)]
        BY <4>1, <2>b
      <4>3. i + (j - i + 1) = j + 1
        BY <2>a
      <4> QED BY <4>1, <4>2, <4>3, <3>1, <3>3
    <3> QED BY <3>2, <3>3
  <2>4a. DOMAIN s = 1..Len(s)
    OBVIOUS
  <2>5. IsInjective(t)
    <3>1. ASSUME NEW a \in 1..(Len(s) - 1), NEW b \in 1..(Len(s) - 1), t[a] = t[b]
          PROVE  a = b
      <4> DEFINE at(j) == IF j < i THEN j ELSE j + 1
      <4>1. at(a) \in 1..Len(s) /\ at(b) \in 1..Len(s)
        BY <2>3
      <4>2. t[a] = s[at(a)] /\ t[b] = s[at(b)]
        BY <2>4
      <4>3. at(a) = at(b)
        BY <3>1, <4>1, <4>2, <2>4a DEF IsInjective
      <4> QED BY <4>3, <2>3
    <3> QED BY <3>1, <2>3 DEF IsInjective
  <2>6. ToSet(t) = ToSet(s) \ {x}
    <3>1. ASSUME NEW y \in ToSet(t)
          PROVE  y \in ToSet(s) \ {x}
      <4>1. PICK j \in 1..(Len(s) - 1) : y = t[j]
        BY <2>3, <3>1 DEF ToSet
      <4>2. /\ j \in 1..Len(s) /\ j + 1 \in 1..Len(s)
            /\ (j < i /\ j # i) \/ (~(j < i) /\ j + 1 # i)
        BY <2>3, <4>1
      <4>3. PICK m \in 1..Len(s) : y = s[m] /\ m # i
        BY <2>4, <4>1, <4>2
      <4> QED BY <4>3, <2>1, <2>4a DEF ToSet, IsInjective
    <3>2. ASSUME NEW y \in ToSet(s) \ {x}
          PROVE  y \in ToSet(t)
      <4>1. PICK m \in 1..Len(s) : y = s[m] /\ m # i
        BY <3>2, <2>1 DEF ToSet
      <4>2. CASE m < i
        <5>1. m \in 1..(Len(s) - 1)
          BY <4>1, <4>2, <2>3
        <5>2. t[m] = y
          BY <5>1, <4>1, <4>2, <2>4
        <5> QED BY <5>1, <5>2, <2>3 DEF ToSet
      <4>3. CASE m > i
        <5>1. m - 1 \in 1..(Len(s) - 1) /\ ~(m - 1 < i) /\ (m - 1) + 1 = m
          BY <4>1, <4>3, <2>3
        <5>2. t[m - 1] = s[(m - 1) + 1]
          BY <5>1, <2>4
        <5>2a. t[m - 1] = y
          BY <5>1, <5>2, <4>1
        <5> QED BY <5>1, <5>2a, <2>3 DEF ToSet
      <4> QED BY <4>1, <4>2, <4>3, <2>3
    <3> QED BY <3>1, <3>2
  <2> QED BY <2>2, <2>3, <2>5, <2>6
<1> QED BY <1>1, <1>2

LEMMA TwoFields ==
  ASSUME NEW I, NEW J, NEW K, NEW c \in [items : [K -> I], order : J],
         NEW k \in K, NEW x \in I, NEW r \in J
  PROVE  LET d == [c EXCEPT !.items[k] = x, !.order = r] IN
           /\ d.items = [c.items EXCEPT ![k] = x] /\ d.order = r
           /\ d \in [items : [K -> I], order : J]
OBVIOUS

\* LRUCache.Remove keeps items and order in step.
LEMMA RemoveKeeps ==
  ASSUME NEW c \in Cached, WellKept(c), NEW k \in Keys
  PROVE  /\ CacheRemove(c, k) \in Cached /\ WellKept(CacheRemove(c, k))
         /\ \A j \in Keys : CacheRemove(c, k).items[j] = IF j = k THEN None ELSE c.items[j]
<1> DEFINE d == CacheRemove(c, k)
<1>a. /\ RemoveFirst(c.order, k) \in Seq(Keys)
      /\ LET t == RemoveFirst(c.order, k) IN
           /\ Len(t) <= Len(c.order) /\ IsInjective(t) /\ ToSet(t) = ToSet(c.order) \ {k}
  BY RemoveFirstKeeps DEF Cached, WellKept
<1>1. /\ d.items = [c.items EXCEPT ![k] = None] /\ d.order = RemoveFirst(c.order, k)
      /\ d \in Cached
  BY <1>a, TwoFields DEF Cached, CacheRemove
<1> HIDE DEF d
<1>2. /\ d.order \in Seq(Keys) /\ Len(d.order) <= Len(c.order) /\ IsInjective(d.order)
      /\ ToSet(d.order) = ToSet(c.order) \ {k}
  BY <1>a, <1>1
<1>3. Len(d.order) <= CacheSize
  BY CacheAssumption, <1>2 DEF WellKept, Cached
<1>4. \A j \in Keys : d.items[j] = IF j = k THEN None ELSE c.items[j]
  BY <1>1 DEF Cached
<1>6. ToSet(d.order) = {j \in Keys : d.items[j] # None}
  BY <1>2, <1>4 DEF WellKept
<1>7. WellKept(d)
  BY <1>2, <1>3, <1>6 DEF WellKept
<1> QED BY <1>1, <1>4, <1>7 DEF d

\* As many entries as names in the order.
LEMMA EntriesCount ==
  ASSUME NEW c \in Cached, WellKept(c)
  PROVE  Cardinality({k \in Keys : c.items[k] # None}) = Len(c.order)
<1> DEFINE S == {k \in Keys : c.items[k] # None}
           n == Len(c.order)
<1>1. n \in Nat /\ DOMAIN c.order = 1..n
  BY DEF Cached
<1>2. c.order \in [1..n -> S]
  BY <1>1 DEF WellKept, ToSet, Cached
<1>3. \A a, b \in 1..n : c.order[a] = c.order[b] => a = b
  BY <1>1 DEF WellKept, IsInjective
<1>4. \A x \in S : \E a \in 1..n : c.order[a] = x
  BY <1>1 DEF WellKept, ToSet
<1>5. c.order \in Bijection(1..n, S)
  BY <1>1, <1>2, <1>3, <1>4 DEF Bijection, Injection, Surjection, IsInjective
<1>6. ExistsBijection(1..n, S)
  BY <1>5 DEF ExistsBijection
<1> QED BY <1>1, <1>6, FS_CountingElements

\* The eviction makes room for one more, and loses at most one entry.
LEMMA EvictionKeeps ==
  ASSUME NEW c \in Cached, WellKept(c)
  PROVE  LET d == EvictOldest(c) IN
           /\ d \in Cached /\ WellKept(d) /\ Len(d.order) < CacheSize
           /\ \A j \in Keys : d.items[j] \in {None, c.items[j]}
<1> DEFINE d == EvictOldest(c)
<1>1. Len(c.order) \in Nat /\ (c.order # <<>> <=> Len(c.order) > 0)
  BY DEF Cached
<1>2. CASE ~(Len(c.order) >= CacheSize /\ c.order # <<>>)
  <2>1. d = c
    BY <1>2, EntriesCount DEF EvictOldest
  <2>2. Len(c.order) < CacheSize
    BY CacheAssumption, <1>1, <1>2
  <2> QED BY <2>1, <2>2
<1>3. CASE Len(c.order) >= CacheSize /\ c.order # <<>>
  <2> DEFINE h == Head(c.order)
  <2>1. /\ h \in Keys /\ Tail(c.order) \in Seq(Keys) /\ Len(Tail(c.order)) = Len(c.order) - 1
        /\ h = c.order[1] /\ \A i \in 1..(Len(c.order) - 1) : Tail(c.order)[i] = c.order[i + 1]
    BY <1>3 DEF Cached
  <2>2. d = [items |-> [c.items EXCEPT ![h] = None], order |-> Tail(c.order)]
    BY <1>3, EntriesCount DEF EvictOldest, Cached
  <2>3. \A j \in Keys : d.items[j] = IF j = h THEN None ELSE c.items[j]
    BY <2>1, <2>2 DEF Cached
  <2>4. d \in Cached
    BY <2>1, <2>2 DEF Cached
  <2>5. Len(d.order) < CacheSize
    BY CacheAssumption, <2>1, <2>2, <1>1 DEF WellKept
  <2>6. IsInjective(d.order)
    <3>1. DOMAIN d.order = 1..(Len(c.order) - 1) /\ DOMAIN c.order = 1..Len(c.order)
      BY <2>1, <2>2 DEF Cached
    <3>2. ASSUME NEW a \in 1..(Len(c.order) - 1), NEW b \in 1..(Len(c.order) - 1), d.order[a] = d.order[b]
          PROVE  a = b
      <4>1. d.order[a] = c.order[a + 1] /\ d.order[b] = c.order[b + 1]
        BY <2>1, <2>2
      <4>2. a + 1 \in 1..Len(c.order) /\ b + 1 \in 1..Len(c.order)
        BY <1>1
      <4>3. a + 1 = b + 1
        BY <3>1, <3>2, <4>1, <4>2 DEF WellKept, IsInjective
      <4> QED BY <4>3
    <3> QED BY <3>1, <3>2 DEF IsInjective
  <2>7. ToSet(d.order) = ToSet(c.order) \ {h}
    <3>1. DOMAIN d.order = 1..(Len(c.order) - 1) /\ DOMAIN c.order = 1..Len(c.order)
      BY <2>1, <2>2 DEF Cached
    <3>2. ASSUME NEW y \in ToSet(d.order)
          PROVE  y \in ToSet(c.order) \ {h}
      <4>1. PICK i \in 1..(Len(c.order) - 1) : y = c.order[i + 1]
        BY <3>1, <3>2, <2>1, <2>2 DEF ToSet
      <4>2. i + 1 \in 1..Len(c.order) /\ 1 \in 1..Len(c.order) /\ i + 1 # 1
        BY <4>1, <1>1
      <4> QED BY <4>1, <4>2, <2>1, <3>1 DEF WellKept, IsInjective, ToSet
    <3>3. ASSUME NEW y \in ToSet(c.order) \ {h}
          PROVE  y \in ToSet(d.order)
      <4>1. PICK i \in 1..Len(c.order) : y = c.order[i] /\ i # 1
        BY <3>1, <3>3, <2>1 DEF ToSet
      <4>2. i - 1 \in 1..(Len(c.order) - 1) /\ (i - 1) + 1 = i
        BY <4>1, <1>1
      <4>3. d.order[i - 1] = y
        BY <4>1, <4>2, <2>1, <2>2
      <4> QED BY <4>2, <4>3, <3>1 DEF ToSet
    <3> QED BY <3>2, <3>3
  <2>8. ToSet(d.order) = {j \in Keys : d.items[j] # None}
    BY <2>3, <2>7 DEF WellKept
  <2> HIDE DEF d
  <2>9. Len(d.order) <= CacheSize
    BY CacheAssumption, <2>4, <2>5 DEF Cached
  <2>10. WellKept(d)
    BY <2>6, <2>8, <2>9 DEF WellKept
  <2> QED BY <2>3, <2>4, <2>5, <2>10 DEF d
<1> QED BY <1>2, <1>3

\* LRUCache.Put keeps items and order in step, and the size of the cache.
LEMMA PutKeeps ==
  ASSUME NEW c \in Cached, WellKept(c), NEW k \in Keys, NEW e \in Entry
  PROVE  /\ CachePut(c, k, e) \in Cached /\ WellKept(CachePut(c, k, e))
         /\ CachePut(c, k, e).items[k] = e
         /\ \A j \in Keys \ {k} : CachePut(c, k, e).items[j] \in {None, c.items[j]}
<1> DEFINE p == CachePut(c, k, e)
           d == EvictOldest(c)
<1>0. e # None
  BY KeysAssumption, BoundsAssumption DEF Entry, Times, Record, Never
<1>1. CASE c.items[k] # None
  <2>1. p = [items |-> [c.items EXCEPT ![k] = e], order |-> c.order]
    BY <1>1 DEF CachePut, Cached
  <2>2. \A j \in Keys : p.items[j] = IF j = k THEN e ELSE c.items[j]
    BY <2>1 DEF Cached
  <2>3. p \in Cached
    BY <2>1 DEF Cached
  <2>4. {j \in Keys : p.items[j] # None} = {j \in Keys : c.items[j] # None}
    BY <1>0, <1>1, <2>2
  <2>5. WellKept(p)
    BY <2>1, <2>4 DEF WellKept
  <2> HIDE DEF p
  <2> QED BY <2>2, <2>3, <2>5 DEF p
<1>2. CASE c.items[k] = None
  <2>1. /\ d \in Cached /\ WellKept(d) /\ Len(d.order) < CacheSize
        /\ \A j \in Keys : d.items[j] \in {None, c.items[j]}
    BY EvictionKeeps
  <2> HIDE DEF d
  <2>2. d.items[k] = None
    BY <1>2, <2>1
  <2>3. p = [items |-> [d.items EXCEPT ![k] = e], order |-> Append(d.order, k)]
    BY <1>2, <2>1 DEF CachePut, Cached, d
  <2>4. \A j \in Keys : p.items[j] = IF j = k THEN e ELSE d.items[j]
    BY <2>1, <2>3 DEF Cached
  <2>5. p \in Cached
    BY <2>1, <2>3 DEF Cached
  <2>6. /\ Len(d.order) \in Nat /\ DOMAIN d.order = 1..Len(d.order)
        /\ DOMAIN p.order = 1..(Len(d.order) + 1)
        /\ Len(p.order) = Len(d.order) + 1
        /\ \A i \in 1..Len(d.order) : p.order[i] = d.order[i]
        /\ p.order[Len(d.order) + 1] = k
    BY <2>1, <2>3 DEF Cached
  <2>7. k \notin ToSet(d.order)
    BY <2>1, <2>2 DEF WellKept
  <2>8. ToSet(p.order) = ToSet(d.order) \union {k}
    <3> HIDE DEF p
    <3>1. ASSUME NEW y \in ToSet(p.order)
          PROVE  y \in ToSet(d.order) \union {k}
      <4>1. PICK i \in 1..(Len(d.order) + 1) : y = p.order[i]
        BY <2>6, <3>1 DEF ToSet
      <4>2. i \in 1..Len(d.order) \/ i = Len(d.order) + 1
        BY <4>1, <2>6
      <4> QED BY <4>1, <4>2, <2>6 DEF ToSet
    <3>2. ASSUME NEW y \in ToSet(d.order)
          PROVE  y \in ToSet(p.order)
      <4>1. PICK i \in 1..Len(d.order) : y = d.order[i]
        BY <2>6, <3>2 DEF ToSet
      <4>2. i \in 1..(Len(d.order) + 1)
        BY <4>1, <2>6
      <4> QED BY <4>1, <4>2, <2>6 DEF ToSet
    <3>3. Len(d.order) + 1 \in 1..(Len(d.order) + 1)
      BY <2>6
    <3> QED BY <3>1, <3>2, <3>3, <2>6 DEF ToSet
  <2>9. IsInjective(p.order)
    <3> HIDE DEF p
    <3>1. \A i \in 1..Len(d.order) : d.order[i] # k
      BY <2>6, <2>7 DEF ToSet
    <3>2. \A a, b \in 1..Len(d.order) : d.order[a] = d.order[b] => a = b
      BY <2>1, <2>6 DEF WellKept, IsInjective
    <3>3. SUFFICES ASSUME NEW a \in 1..(Len(d.order) + 1), NEW b \in 1..(Len(d.order) + 1),
                          p.order[a] = p.order[b]
                   PROVE  a = b
      BY <2>6 DEF IsInjective
    <3>4. /\ a \in 1..Len(d.order) \/ a = Len(d.order) + 1
          /\ b \in 1..Len(d.order) \/ b = Len(d.order) + 1
      BY <2>6
    <3> QED BY <3>1, <3>2, <3>3, <3>4, <2>6
  <2>10. Len(p.order) <= CacheSize
    BY CacheAssumption, <2>1, <2>6
  <2>11. ToSet(p.order) = {j \in Keys : p.items[j] # None}
    BY <1>0, <2>1, <2>4, <2>8 DEF WellKept
  <2> HIDE DEF p
  <2>12. WellKept(p)
    BY <2>9, <2>10, <2>11 DEF WellKept
  <2> QED BY <2>1, <2>4, <2>5, <2>12 DEF p
<1> QED BY <1>1, <1>2

-----------------------------------------------------------------------------
(* Types.                                                                  *)

SandboxTypes ==
  /\ sb \in [phase : {"none", "creating", "running", "deleting"}, uid : 0..MaxLives]
  /\ plain \in Secret /\ token \in Token /\ seen \in BOOLEAN
  /\ pod \in [key : ScopedKeys \union {None}, token : Token]
  /\ mint \in [pc : {"idle", "key", "record", "secret", "ready"},
               key : ScopedKeys \union {None}, fresh : BOOLEAN]
  /\ minted \subseteq ScopedKeys

StoreTypes ==
  /\ recs \in [Keys -> Record \union {None}] /\ gone \in [Keys -> Times \union {None}]
  /\ quiet \in BOOLEAN /\ faults \in 0..MaxFaults /\ now \in Times

RouterTypes ==
  /\ val \in [Requests -> Validation]
  /\ revoke \in [Replicas -> [pc : {"idle", "evict"}, key : Keys \union {None}]]
  /\ evicted \subseteq Keys \X Replicas

CacheTypes ==
  /\ cache \in [Replicas -> Cached]
  /\ \A r \in Replicas : WellKept(cache[r])

LEMMA TypeParts == TypeOK <=> SandboxTypes /\ StoreTypes /\ RouterTypes /\ CacheTypes
BY Zenon DEF TypeOK, SandboxTypes, StoreTypes, RouterTypes, CacheTypes, Cached, WellKept

LEMMA TypePartsNext == TypeOK' <=> SandboxTypes' /\ StoreTypes' /\ RouterTypes' /\ CacheTypes'
BY TypeParts, PTL

\* A key whose record is, or was, in the store.
KeyKnown(k) == Stored(k) \/ gone[k] # None

\* What a reconcile that creates the Secrets has in hand.
ControllerInv ==
  /\ sb.phase # "none" => sb.uid > 0
  /\ plain # None => KeyKnown(plain.key)
  /\ MountedKeyWorks
  /\ mint.pc \in {"record", "secret"} => mint.key # None
  /\ mint.pc = "secret" => mint.fresh /\ KeyKnown(mint.key)
  /\ mint.pc # "idle" => sb.phase = "creating"

\* While no call has failed: the one key a sandbox has, the reconcile that makes
\* it and the Secret that keeps it.
QuietInv ==
  /\ plain # None /\ sb.phase # "none" => plain.uid = sb.uid
  /\ mint.pc \in {"record", "secret"} /\ mint.fresh => plain = None
  /\ mint.pc = "record" /\ ~mint.fresh => plain # None /\ plain.key = mint.key
  /\ \A k \in ScopedKeys : Stored(k) =>
       /\ sb.phase # "none"
       /\ \/ plain # None /\ plain.key = k
          \/ mint.pc = "secret" /\ mint.key = k

\* A copy of a record of k that expires at e is the record rec, if it is still
\* there, or the one deleted at del.
Copies(e, k, rec, del) ==
  /\ rec # None \/ del # None
  /\ rec # None => rec = e
  /\ k \in ScopedKeys => e = Never

RecordsInv ==
  \A k \in Keys : /\ Stored(k) => gone[k] = None
                  /\ k \in ScopedKeys => recs[k] \in {None, Never}
                  /\ gone[k] # None => gone[k] <= now

\* An entry is no younger than the deletion of its record.
EntriesInv ==
  \A r \in Replicas, k \in Keys : LET e == cache[r].items[k] IN e # None =>
    /\ Copies(e.exp, k, recs[k], gone[k]) /\ e.at <= now
    /\ gone[k] # None => e.at <= gone[k]

\* No time passes between the lookup of a record and its way into the cache.
ValidationsInv ==
  \A v \in Requests : LET k == val[v].key IN
    /\ val[v].pc \in {"lookup", "put", "ok"} => k \in Keys /\ val[v].at \in Replicas
    /\ val[v].pc = "put" =>
         /\ Copies(val[v].exp, k, recs[k], gone[k]) /\ now <= val[v].exp
         /\ gone[k] # None => gone[k] = now
    /\ val[v].pc = "ok" =>
         /\ KeyKnown(k) /\ val[v].time <= now
         /\ Stored(k) => val[v].time <= recs[k]
         /\ gone[k] # None => val[v].time < gone[k] + TTL

EvictionsInv ==
  /\ \A r \in Replicas : revoke[r].pc = "evict" => revoke[r].key # None
  /\ \A k \in Keys, r \in Replicas :
       <<k, r>> \in evicted /\ ~Stored(k) => cache[r].items[k] = None /\ ~Filling(k, r)

LEMMA NoneIsNoData ==
  /\ None \notin Keys /\ None \notin Replicas /\ None \notin Times /\ None \notin Record
  /\ None \notin [key : ScopedKeys, uid : 1..MaxLives] /\ None \notin [uid : 1..MaxLives]
  /\ None \notin Entry
  /\ Never \in Nat /\ Never \in Record /\ \A t \in Times : t \in Nat /\ t < Never
<1>1. Times \subseteq Nat /\ Record \subseteq Nat /\ Never \in Nat /\ \A t \in Times : t < Never
  BY BoundsAssumption DEF Times, Record, Never
<1>2. 1..MaxLives \subseteq Nat
  BY BoundsAssumption
<1>3. /\ [key : ScopedKeys, uid : 1..MaxLives] \subseteq [key : ScopedKeys, uid : Nat]
      /\ [uid : 1..MaxLives] \subseteq [uid : Nat]
      /\ Entry \subseteq [at : Nat, exp : Nat]
  BY <1>1, <1>2 DEF Entry
<1> QED BY <1>1, <1>3, KeysAssumption DEF Keys, Record

LEMMA ControllerTypes ==
  ASSUME SandboxTypes, StoreTypes, ControllerInv, Next
  PROVE  SandboxTypes'
<1> USE DEF SandboxTypes, ControllerInv
<1>1. CASE EnsureToken
  <2>1. sb.uid \in 1..MaxLives
    BY <1>1 DEF EnsureToken
  <2> QED BY <1>1, <2>1, BoundsAssumption DEF EnsureToken, Token
<1>2. CASE ReadKey
  <2>1. plain # None => plain.key \in ScopedKeys
    BY DEF Secret
  <2>2. PICK k \in ScopedKeys, f \in BOOLEAN : mint' = [pc |-> "record", key |-> k, fresh |-> f]
    BY <1>2, <2>1 DEF ReadKey
  <2>3. minted' \subseteq ScopedKeys
    BY <1>2 DEF ReadKey
  <2> QED BY <1>2, <2>2, <2>3 DEF ReadKey
<1>3. CASE EnsureRecord
  BY <1>3 DEF EnsureRecord
<1>4. CASE WriteSecret
  <2>1. sb.uid \in 1..MaxLives
    BY <1>4 DEF WriteSecret
  <2> QED BY <1>4, <2>1 DEF WriteSecret, Secret
<1>5. CASE StartPod
  BY <1>5 DEF StartPod, Secret
<1>6. CASE Crash
  BY <1>6 DEF Crash
<1>7. CASE Finalize
  BY <1>7 DEF Finalize
<1>8. CASE CreateSandbox
  BY <1>8, BoundsAssumption DEF CreateSandbox
<1>9. CASE Resume
  BY <1>9 DEF Resume, Token
<1>10. CASE Delete
  BY <1>10 DEF Delete, Token
<1>11. CASE Sync
  BY <1>11 DEF Sync
<1>12. CASE Collect
  BY <1>12 DEF Collect, Secret, Token
<1>13. CASE Router
  BY <1>13 DEF Router, CreateKey, Validate, Lookup, Fill, Answered, Revoke, sandboxVars
<1>14. CASE Tick
  BY <1>14 DEF Tick, sandboxVars
<1> QED
  BY <1>1, <1>2, <1>3, <1>4, <1>5, <1>6, <1>7, <1>8, <1>9, <1>10, <1>11, <1>12, <1>13, <1>14
  DEF Next, Controller, Cluster
LEMMA StoreKeepsTypes ==
  ASSUME StoreTypes, ControllerInv, SandboxTypes, Next
  PROVE  StoreTypes'
<1> USE NoneIsNoData DEF StoreTypes
<1>1. ASSUME NEW k \in Keys, NEW e \in Record, Store(k, e)
      PROVE  recs' \in [Keys -> Record \union {None}] /\ gone' \in [Keys -> Times \union {None}]
  BY <1>1 DEF Store
<1>2. ASSUME NEW k \in Keys, Unstore(k)
      PROVE  recs' \in [Keys -> Record \union {None}] /\ gone' \in [Keys -> Times \union {None}]
  BY <1>2 DEF Unstore
<1>3. CASE EnsureToken \/ WriteSecret \/ StartPod \/ Resume \/ Delete \/ Sync \/ Collect
  BY <1>3 DEF EnsureToken, WriteSecret, StartPod, Resume, Delete, Sync, Collect
<1>4. CASE ReadKey \/ CreateSandbox
  BY <1>4 DEF ReadKey, CreateSandbox
<1>5. CASE Crash
  <2>1. faults' \in 0..MaxFaults
    BY <1>5, BoundsAssumption DEF Crash
  <2> QED BY <1>5, <2>1 DEF Crash
<1>6. CASE EnsureRecord
  <2>1. mint.key \in Keys
    BY <1>6 DEF EnsureRecord, ControllerInv, SandboxTypes, Keys
  <2>2. faults' \in 0..MaxFaults
    BY <1>6, BoundsAssumption DEF EnsureRecord
  <2>3. recs' \in [Keys -> Record \union {None}] /\ gone' \in [Keys -> Times \union {None}]
    BY <1>6, <1>1, <2>1 DEF EnsureRecord
  <2> QED BY <1>6, <2>2, <2>3 DEF EnsureRecord
<1>7. CASE Finalize
  <2>1. plain # None => plain.key \in Keys
    BY DEF SandboxTypes, Secret, Keys
  <2>2. recs' \in [Keys -> Record \union {None}] /\ gone' \in [Keys -> Times \union {None}]
    BY <1>7, <1>2, <2>1 DEF Finalize
  <2> QED BY <1>7, <2>2 DEF Finalize
<1>8. ASSUME NEW k \in UserKeys, NEW e \in Record, CreateKey(k, e)
      PROVE  StoreTypes'
  <2>1. k \in Keys
    BY DEF Keys
  <2>2. recs' \in [Keys -> Record \union {None}] /\ gone' \in [Keys -> Times \union {None}]
    BY <1>1, <1>8, <2>1 DEF CreateKey
  <2> QED BY <1>8, <2>2 DEF CreateKey
<1>9. ASSUME NEW r \in Replicas, Revoke(r)
      PROVE  StoreTypes'
  <2>1. recs' \in [Keys -> Record \union {None}] /\ gone' \in [Keys -> Times \union {None}]
    BY <1>2, <1>9 DEF Revoke, Revoking, RevokeKey, InvalidateHash
  <2> QED BY <1>9, <2>1 DEF Revoke
<1>10. ASSUME NEW v \in Requests, (\E k \in Keys, r \in Replicas : Validate(v, k, r)) \/ Lookup(v) \/ Fill(v) \/ Answered(v)
       PROVE  StoreTypes'
  BY <1>10 DEF Validate, Lookup, Fill, Answered
<1>11. CASE Tick
  BY <1>11, BoundsAssumption DEF Tick, Times
<1> QED
  BY <1>3, <1>4, <1>5, <1>6, <1>7, <1>8, <1>9, <1>10, <1>11 DEF Next, Controller, Cluster, Router

LEMMA RouterKeepsTypes ==
  ASSUME RouterTypes, StoreTypes, ValidationsInv, EvictionsInv, Next
  PROVE  RouterTypes'
<1> USE NoneIsNoData DEF RouterTypes
<1>1. CASE Controller \/ Cluster \/ Tick
  BY <1>1 DEF Controller, Cluster, EnsureToken, ReadKey, EnsureRecord, WriteSecret, StartPod, Crash,
              Finalize, CreateSandbox, Resume, Delete, Sync, Collect, Tick, Unstore, routerVars
<1>2. ASSUME NEW k \in UserKeys, NEW e \in Record, CreateKey(k, e)
      PROVE  RouterTypes'
  BY <1>2 DEF CreateKey, routerVars
<1>3. ASSUME NEW v \in Requests, NEW k \in Keys, NEW r \in Replicas, Validate(v, k, r)
      PROVE  RouterTypes'
  <2>1. PICK pc \in {"lookup", "denied", "ok"} :
          val' = [val EXCEPT ![v] = [NewValidation EXCEPT !.pc = pc, !.key = k, !.at = r, !.time = now]]
    BY <1>3, Zenon DEF Validate, Hit
  <2>2. [NewValidation EXCEPT !.pc = pc, !.key = k, !.at = r, !.time = now] \in Validation
    BY BoundsAssumption DEF NewValidation, Validation, StoreTypes, Times
  <2> QED BY <1>3, <2>1, <2>2 DEF Validate
<1>4. ASSUME NEW v \in Requests, Lookup(v) \/ Fill(v) \/ Answered(v)
      PROVE  RouterTypes'
  <2>1. NewValidation \in Validation
    BY BoundsAssumption DEF NewValidation, Validation, Times
  <2>2. ASSUME NEW pc \in {"ok", "denied"}
        PROVE  Answer(v, pc) \in [Requests -> Validation]
    <3>0. val[v] \in Validation /\ now \in Times
      BY DEF StoreTypes
    <3>1. [val[v] EXCEPT !.pc = pc, !.time = now] \in Validation
      BY <3>0 DEF Validation
    <3>2. Answer(v, pc) = [val EXCEPT ![v] = [val[v] EXCEPT !.pc = pc, !.time = now]]
      BY DEF Answer
    <3> QED BY <3>1, <3>2
  <2>3. CASE Lookup(v)
    <3>1. CASE \E pc \in {"ok", "denied"} : val' = Answer(v, pc)
      BY <2>3, <3>1, <2>2 DEF Lookup
    <3>2. CASE Stored(val[v].key) /\ val' = [val EXCEPT ![v].pc = "put", ![v].exp = recs[val[v].key]]
      <4>1. recs[val[v].key] \in Record
        BY <3>2, <2>3 DEF StoreTypes, Stored, Lookup, ValidationsInv
      <4>2. [val[v] EXCEPT !.pc = "put", !.exp = recs[val[v].key]] \in Validation
        BY <4>1 DEF Validation
      <4>3. val' = [val EXCEPT ![v] = [val[v] EXCEPT !.pc = "put", !.exp = recs[val[v].key]]]
        BY <3>2
      <4> QED BY <2>3, <4>2, <4>3 DEF Lookup
    <3> QED BY <2>3, <3>1, <3>2 DEF Lookup
  <2>4. CASE Fill(v)
    BY <2>4, <2>2 DEF Fill
  <2>5. CASE Answered(v)
    BY <2>5, <2>1 DEF Answered
  <2> QED BY <1>4, <2>3, <2>4, <2>5
<1>5. ASSUME NEW r \in Replicas, Revoke(r)
      PROVE  RouterTypes'
  <2>1. CASE InvalidateHash(r)
    BY <1>5, <2>1 DEF Revoke, InvalidateHash, Evicted, EvictionsInv
  <2>2. CASE \E k \in Keys : RevokeKey(k, r)
    BY <1>5, <2>2 DEF Revoke, RevokeKey, Unstore
  <2> QED BY <1>5, <2>1, <2>2 DEF Revoke, Revoking
<1> QED
  BY <1>1, <1>2, <1>3, <1>4, <1>5 DEF Next, Router
LEMMA CacheKeepsTypes ==
  ASSUME RouterTypes, StoreTypes, CacheTypes, ValidationsInv, EvictionsInv, Next
  PROVE  CacheTypes'
<1>1. ASSUME NEW r \in Replicas, NEW c \in Cached, WellKept(c), cache' = [cache EXCEPT ![r] = c]
      PROVE  CacheTypes'
  BY <1>1 DEF CacheTypes
<1>2. CASE Controller \/ Cluster \/ Tick
  BY <1>2 DEF Controller, Cluster, EnsureToken, ReadKey, EnsureRecord, WriteSecret, StartPod, Crash,
              Finalize, CreateSandbox, Resume, Delete, Sync, Collect, Tick, routerVars, CacheTypes
<1>3. ASSUME NEW k \in UserKeys, NEW e \in Record, CreateKey(k, e)
      PROVE  CacheTypes'
  BY <1>3 DEF CreateKey, routerVars, CacheTypes
<1>4. ASSUME NEW v \in Requests, NEW k \in Keys, NEW r \in Replicas, Validate(v, k, r)
      PROVE  CacheTypes'
  <2>1. cache' = cache \/ cache' = [cache EXCEPT ![r] = CacheRemove(cache[r], k)]
    BY <1>4 DEF Validate, Hit
  <2> QED BY <2>1, <1>1, RemoveKeeps DEF CacheTypes
<1>5. ASSUME NEW v \in Requests, Lookup(v) \/ Answered(v)
      PROVE  CacheTypes'
  BY <1>5 DEF Lookup, Answered, CacheTypes
<1>6. ASSUME NEW v \in Requests, Fill(v)
      PROVE  CacheTypes'
  <2> DEFINE k == val[v].key
             r == val[v].at
             e == [at |-> now, exp |-> val[v].exp]
  <2>1. k \in Keys /\ r \in Replicas /\ e \in Entry
    BY <1>6 DEF Fill, ValidationsInv, RouterTypes, StoreTypes, Validation, Entry
  <2>2. cache' = [cache EXCEPT ![r] = CachePut(cache[r], k, e)]
    BY <1>6 DEF Fill
  <2> HIDE DEF k, r, e
  <2> QED BY <2>1, <2>2, <1>1, PutKeeps DEF CacheTypes
<1>7. ASSUME NEW r \in Replicas, Revoke(r)
      PROVE  CacheTypes'
  <2>1. CASE InvalidateHash(r)
    <3>1. revoke[r].key \in Keys
      BY <2>1 DEF InvalidateHash, EvictionsInv, RouterTypes
    <3>2. cache' = [cache EXCEPT ![r] = CacheRemove(cache[r], revoke[r].key)]
      BY <2>1 DEF InvalidateHash
    <3> QED BY <3>1, <3>2, <1>1, RemoveKeeps DEF CacheTypes
  <2>2. CASE \E k \in Keys : RevokeKey(k, r)
    BY <2>2 DEF RevokeKey, CacheTypes
  <2> QED BY <1>7, <2>1, <2>2 DEF Revoke, Revoking
<1> QED
  BY <1>2, <1>3, <1>4, <1>5, <1>6, <1>7 DEF Next, Router
-----------------------------------------------------------------------------
(* The records and the sandboxes.                                          *)

LEMMA KnownStays ==
  ASSUME StoreTypes, SandboxTypes, ControllerInv, RecordsInv, Next
  PROVE  RecordsInv' /\ \A k \in Keys : KeyKnown(k) => KeyKnown(k)'
<1> USE NoneIsNoData
<1>1. ASSUME NEW k \in Keys, NEW e \in Record, Store(k, e), k \in ScopedKeys => e = Never, now' = now
      PROVE  RecordsInv' /\ \A j \in Keys : KeyKnown(j) => KeyKnown(j)'
  BY <1>1 DEF Store, Stored, KeyKnown, RecordsInv, StoreTypes
<1>2. ASSUME NEW k \in Keys, Unstore(k), now' = now
      PROVE  RecordsInv' /\ \A j \in Keys : KeyKnown(j) => KeyKnown(j)'
  BY <1>2 DEF Unstore, Stored, KeyKnown, RecordsInv, StoreTypes
<1>3. ASSUME UNCHANGED <<recs, gone, now>>
      PROVE  RecordsInv' /\ \A j \in Keys : KeyKnown(j) => KeyKnown(j)'
  BY <1>3 DEF Stored, KeyKnown, RecordsInv
<1>4. ASSUME UNCHANGED <<recs, gone>>, now' = now + 1
      PROVE  RecordsInv' /\ \A j \in Keys : KeyKnown(j) => KeyKnown(j)'
  BY <1>4, BoundsAssumption DEF Stored, KeyKnown, RecordsInv, StoreTypes, Times
<1>5. CASE EnsureRecord
  <2>1. mint.key \in Keys
    BY <1>5 DEF EnsureRecord, ControllerInv, SandboxTypes, Keys
  <2> QED BY <1>5, <2>1, <1>1, <1>3 DEF EnsureRecord
<1>6. CASE Finalize
  <2>1. plain # None => plain.key \in Keys
    BY DEF SandboxTypes, Secret, Keys
  <2> QED BY <1>6, <2>1, <1>2, <1>3 DEF Finalize
<1>7. ASSUME NEW k \in UserKeys, NEW e \in Record, CreateKey(k, e)
      PROVE  RecordsInv' /\ \A j \in Keys : KeyKnown(j) => KeyKnown(j)'
  BY <1>7, <1>1, KeysAssumption DEF CreateKey, Keys
<1>8. ASSUME NEW r \in Replicas, Revoke(r)
      PROVE  RecordsInv' /\ \A j \in Keys : KeyKnown(j) => KeyKnown(j)'
  <2>1. now' = now
    BY <1>8 DEF Revoke
  <2> QED BY <1>8, <2>1, <1>2, <1>3 DEF Revoke, Revoking, RevokeKey, InvalidateHash
<1>9. CASE Tick
  BY <1>9, <1>4 DEF Tick
<1>10. CASE EnsureToken \/ ReadKey \/ WriteSecret \/ StartPod \/ Crash \/ Cluster
  BY <1>10, <1>3 DEF EnsureToken, ReadKey, WriteSecret, StartPod, Crash, Cluster,
                     CreateSandbox, Resume, Delete, Sync, Collect
<1>11. ASSUME NEW v \in Requests, (\E k \in Keys, r \in Replicas : Validate(v, k, r)) \/ Lookup(v) \/ Fill(v) \/ Answered(v)
       PROVE  RecordsInv' /\ \A j \in Keys : KeyKnown(j) => KeyKnown(j)'
  BY <1>11, <1>3 DEF Validate, Lookup, Fill, Answered
<1> QED
  BY <1>5, <1>6, <1>7, <1>8, <1>9, <1>10, <1>11 DEF Next, Controller, Router

LEMMA ControllerStep ==
  ASSUME StoreTypes, SandboxTypes, ControllerInv, RecordsInv, Next
  PROVE  ControllerInv'
<1> DEFINE known(k) == recs[k] # None \/ gone[k] # None
           known1(k) == recs'[k] # None \/ gone'[k] # None
<1>1. \A k \in Keys : known(k) => known1(k)
  BY KnownStays DEF KeyKnown, Stored
<1>2. /\ plain # None => plain.key \in Keys
      /\ pod.key # None => pod.key \in Keys
      /\ mint.key # None => mint.key \in Keys
  BY DEF SandboxTypes, Secret, Keys
<1>3. /\ sb.phase # "none" => sb.uid > 0
      /\ plain # None => known(plain.key)
      /\ pod.key # None => known(pod.key)
      /\ mint.pc \in {"record", "secret"} => mint.key # None
      /\ mint.pc = "secret" => mint.fresh /\ known(mint.key)
      /\ mint.pc # "idle" => sb.phase = "creating"
  BY DEF ControllerInv, MountedKeyWorks, KeyKnown, Stored
<1>4. SUFFICES /\ sb'.phase # "none" => sb'.uid > 0
               /\ plain' # None => known1(plain'.key)
               /\ pod'.key # None => known1(pod'.key)
               /\ mint'.pc \in {"record", "secret"} => mint'.key # None
               /\ mint'.pc = "secret" => mint'.fresh /\ known1(mint'.key)
               /\ mint'.pc # "idle" => sb'.phase = "creating"
  BY DEF ControllerInv, MountedKeyWorks, KeyKnown, Stored
<1> HIDE DEF known, known1
<1>5. CASE UNCHANGED sandboxVars
  BY <1>1, <1>2, <1>3, <1>5 DEF sandboxVars
<1>6. CASE EnsureToken
  BY <1>1, <1>2, <1>3, <1>6 DEF EnsureToken, SandboxTypes
<1>7. CASE ReadKey
  <2>1. plain # None => plain.key # None
    BY NoneIsNoData DEF SandboxTypes, Secret, Keys
  <2>2. mint'.pc = "record" /\ mint'.key # None
    BY <1>7, <2>1, NoneIsNoData DEF ReadKey, Keys
  <2> QED BY <1>1, <1>2, <1>3, <1>7, <2>2 DEF ReadKey
<1>8. CASE EnsureRecord
  <2>1. mint'.pc = "secret" => known1(mint.key) /\ mint.fresh
    <3>1. mint.key \in Keys
      BY <1>2, <1>3, <1>8 DEF EnsureRecord
    <3> QED
      BY <1>8, <3>1, NoneIsNoData DEF EnsureRecord, SandboxTypes, Stored, Store, StoreTypes, known1
  <2>2. mint' = [mint EXCEPT !.pc = mint'.pc] /\ mint'.pc \in {"secret", "ready", "idle"}
    BY <1>8 DEF EnsureRecord, SandboxTypes
  <2>3. mint'.key = mint.key /\ mint'.fresh = mint.fresh
    BY <2>2 DEF SandboxTypes
  <2> QED BY <1>1, <1>2, <1>3, <1>8, <2>1, <2>2, <2>3 DEF EnsureRecord
<1>9. CASE WriteSecret
  <2>1. mint'.pc = "ready" /\ known(mint.key) /\ mint.key \in Keys
    BY <1>2, <1>3, <1>9 DEF WriteSecret, SandboxTypes
  <2>2. plain' # None => plain'.key \in Keys /\ known(plain'.key)
    BY <1>2, <1>3, <1>9, <2>1 DEF WriteSecret
  <2> QED BY <1>1, <1>2, <1>3, <1>9, <2>1, <2>2 DEF WriteSecret
<1>10. CASE StartPod
  BY <1>1, <1>2, <1>3, <1>10 DEF StartPod, SandboxTypes
<1>11. CASE Crash
  BY <1>1, <1>2, <1>3, <1>11 DEF Crash
<1>12. CASE Finalize
  <2>1. sb'.phase = "none" /\ mint.pc = "idle"
    BY <1>3, <1>12 DEF Finalize, SandboxTypes
  <2> QED BY <1>1, <1>2, <1>3, <1>12, <2>1 DEF Finalize
<1>13. CASE CreateSandbox
  <2>1. sb'.phase = "creating" /\ sb'.uid > 0 /\ mint.pc = "idle"
    BY <1>3, <1>13, BoundsAssumption DEF CreateSandbox, SandboxTypes
  <2> QED BY <1>1, <1>2, <1>3, <1>13, <2>1 DEF CreateSandbox
<1>14. CASE Resume
  <2>1. sb'.phase = "creating" /\ sb'.uid > 0 /\ pod'.key = None
    BY <1>3, <1>14 DEF Resume, SandboxTypes
  <2> QED BY <1>1, <1>2, <1>3, <1>14, <2>1 DEF Resume
<1>15. CASE Delete
  <2>1. sb'.phase = "deleting" /\ sb'.uid > 0 /\ pod'.key = None
    BY <1>3, <1>15 DEF Delete, SandboxTypes
  <2> QED BY <1>1, <1>2, <1>3, <1>15, <2>1 DEF Delete
<1>16. CASE Sync
  BY <1>1, <1>2, <1>3, <1>16 DEF Sync
<1>17. CASE Collect
  BY <1>1, <1>2, <1>3, <1>17 DEF Collect
<1>18. CASE Router \/ Tick
  <2>1. UNCHANGED sandboxVars
    BY <1>18 DEF Router, Tick, CreateKey, Validate, Lookup, Fill, Answered, Revoke
  <2> QED BY <1>5, <2>1
<1> QED
  BY <1>6, <1>7, <1>8, <1>9, <1>10, <1>11, <1>12, <1>13, <1>14, <1>15, <1>16, <1>17, <1>18
  DEF Next, Controller, Cluster

LEMMA QuietStep ==
  ASSUME StoreTypes, SandboxTypes, ControllerInv, RecordsInv, quiet => QuietInv, Next
  PROVE  quiet' => QuietInv'
<1> SUFFICES ASSUME quiet' PROVE QuietInv'
  OBVIOUS
<1> DEFINE kept == \A k \in ScopedKeys : recs'[k] # None => recs[k] # None
<1>1. quiet
  BY DEF Next, Controller, Cluster, Router, EnsureToken, ReadKey, EnsureRecord, WriteSecret, StartPod,
         Crash, Finalize, CreateSandbox, Resume, Delete, Sync, Collect, CreateKey, Validate, Lookup,
         Fill, Answered, Revoke, Tick
<1>2. /\ plain # None /\ sb.phase # "none" => plain.uid = sb.uid
      /\ mint.pc \in {"record", "secret"} /\ mint.fresh => plain = None
      /\ mint.pc = "record" /\ ~mint.fresh => plain # None /\ plain.key = mint.key
      /\ \A k \in ScopedKeys : recs[k] # None =>
           /\ sb.phase # "none"
           /\ \/ plain # None /\ plain.key = k
              \/ mint.pc = "secret" /\ mint.key = k
  BY <1>1 DEF QuietInv, Stored
<1>3. SUFFICES
        /\ plain' # None /\ sb'.phase # "none" => plain'.uid = sb'.uid
        /\ mint'.pc \in {"record", "secret"} /\ mint'.fresh => plain' = None
        /\ mint'.pc = "record" /\ ~mint'.fresh => plain' # None /\ plain'.key = mint'.key
        /\ \A k \in ScopedKeys : recs'[k] # None =>
             /\ sb'.phase # "none"
             /\ \/ plain' # None /\ plain'.key = k
                \/ mint'.pc = "secret" /\ mint'.key = k
  BY DEF QuietInv, Stored
<1>4. /\ mint.pc # "idle" => sb.phase = "creating"
      /\ mint.pc = "secret" => mint.fresh
  BY DEF ControllerInv
<1>5. CASE EnsureToken
  BY <1>2, <1>4, <1>5 DEF EnsureToken, SandboxTypes
<1>6. CASE ReadKey
  BY <1>2, <1>4, <1>6 DEF ReadKey, SandboxTypes
<1>7. CASE EnsureRecord
  <2>1. faults' = faults
    BY <1>7, BoundsAssumption DEF EnsureRecord, StoreTypes
  <2>2. /\ mint'.pc = IF mint.fresh THEN "secret" ELSE "ready"
        /\ mint'.key = mint.key /\ mint'.fresh = mint.fresh
    BY <1>7 DEF EnsureRecord, SandboxTypes
  <2>3. \A k \in ScopedKeys : recs'[k] # None => recs[k] # None \/ k = mint.key
    BY <1>7 DEF EnsureRecord, Store, StoreTypes, Keys
  <2>4. mint.fresh \in BOOLEAN /\ mint.pc = "record" /\ sb.phase = "creating" /\ UNCHANGED <<sb, plain>>
    BY <1>4, <1>7 DEF EnsureRecord, SandboxTypes
  <2> QED BY <1>2, <2>2, <2>3, <2>4
<1>8. CASE WriteSecret
  <2>1. plain = None /\ plain' = [key |-> mint.key, uid |-> sb.uid] /\ mint'.pc = "ready"
    BY <1>2, <1>4, <1>8 DEF WriteSecret, SandboxTypes
  <2>2. plain'.key = mint.key /\ plain'.uid = sb.uid /\ sb' = sb /\ recs' = recs
    BY <1>8, <2>1 DEF WriteSecret
  <2>3. plain' # None
    <3>1. mint.key \in ScopedKeys /\ sb.uid \in 1..MaxLives
      BY <1>4, <1>8 DEF WriteSecret, SandboxTypes, ControllerInv
    <3> QED BY <2>1, <3>1, NoneIsNoData
  <2>4. \A k \in ScopedKeys : recs[k] # None => sb.phase # "none" /\ mint.key = k
    BY <1>2, <2>1
  <2> QED BY <2>1, <2>2, <2>3, <2>4
<1>9. CASE StartPod
  BY <1>2, <1>4, <1>9 DEF StartPod, SandboxTypes
<1>10. CASE Crash
  BY <1>10 DEF Crash
<1>11. CASE Finalize
  <2>1. sb'.phase = "none" /\ mint.pc = "idle"
    BY <1>4, <1>11 DEF Finalize, SandboxTypes
  <2>2. plain # None => seen
    BY <1>11 DEF Finalize
  <2>3. \A k \in ScopedKeys : recs'[k] = None
    BY <1>2, <1>11, <2>1, <2>2 DEF Finalize, Unstore, Stored, StoreTypes, Keys
  <2> QED BY <1>2, <1>11, <2>1, <2>3 DEF Finalize
<1>12. CASE CreateSandbox
  <2>1. plain = None /\ mint.pc = "idle"
    BY <1>4, <1>12 DEF CreateSandbox
  <2> QED BY <1>2, <1>12, <2>1 DEF CreateSandbox
<1>13. CASE Resume
  BY <1>2, <1>4, <1>13 DEF Resume, SandboxTypes
<1>14. CASE Delete
  BY <1>2, <1>4, <1>14 DEF Delete, SandboxTypes
<1>15. CASE Sync
  BY <1>2, <1>15 DEF Sync
<1>16. CASE Collect
  BY <1>2, <1>4, <1>16 DEF Collect, Owned
<1>17. CASE Router \/ Tick
  <2>1. UNCHANGED <<sb, plain, mint>>
    BY <1>17 DEF Router, Tick, CreateKey, Validate, Lookup, Fill, Answered, Revoke, sandboxVars
  <2>2. \A k \in ScopedKeys : recs'[k] # None => recs[k] # None
    BY <1>17, KeysAssumption
    DEF Router, Tick, CreateKey, Validate, Lookup, Fill, Answered, Revoke, Revoking, RevokeKey,
        InvalidateHash, Store, Unstore, StoreTypes, Keys
  <2> QED BY <1>2, <2>1, <2>2
<1> QED
  BY <1>5, <1>6, <1>7, <1>8, <1>9, <1>10, <1>11, <1>12, <1>13, <1>14, <1>15, <1>16, <1>17
  DEF Next, Controller, Cluster
-----------------------------------------------------------------------------
(* The caches of the Router.                                               *)

\* What a step does to the record of a key: nothing, it deletes it, or it makes it.
Deleted(k) ==
  /\ recs[k] # None /\ recs'[k] = None /\ gone'[k] = now /\ now' = now
  /\ \A r \in Replicas : <<k, r>> \notin evicted'
Made(k) ==
  /\ recs[k] = None /\ recs'[k] # None /\ gone'[k] = None /\ now' = now
  /\ IF k \in ScopedKeys THEN recs'[k] = Never ELSE gone[k] = None

LEMMA StoreSteps ==
  ASSUME StoreTypes, SandboxTypes, ControllerInv, Next, NEW k \in Keys
  PROVE  (recs'[k] = recs[k] /\ gone'[k] = gone[k]) \/ Deleted(k) \/ Made(k)
<1> DEFINE goal == (recs'[k] = recs[k] /\ gone'[k] = gone[k]) \/ Deleted(k) \/ Made(k)
<1> USE NoneIsNoData
<1>4. SUFFICES goal
  OBVIOUS
<1>1. ASSUME NEW j \in Keys, NEW e \in Record, ~Stored(j), Store(j, e), now' = now,
             j \in ScopedKeys => e = Never, j \in ScopedKeys \/ gone[j] = None
      PROVE  goal
  BY <1>1 DEF Store, Stored, StoreTypes, Made
<1>2. ASSUME NEW j \in Keys, Stored(j), Unstore(j), now' = now
      PROVE  goal
  <2>1. CASE j = k
    <3>1. \A r \in Replicas : <<k, r>> \notin evicted'
      BY <1>2, <2>1 DEF Unstore
    <3> QED BY <1>2, <2>1, <3>1 DEF Unstore, Stored, StoreTypes, Deleted
  <2>2. CASE j # k
    BY <1>2, <2>2 DEF Unstore, StoreTypes
  <2> QED BY <2>1, <2>2
<1>3. CASE UNCHANGED <<recs, gone>>
  BY <1>3
<1> HIDE DEF goal
<1>5. CASE EnsureRecord
  <2>1. mint.key \in Keys /\ mint.key \in ScopedKeys
    BY <1>5 DEF EnsureRecord, ControllerInv, SandboxTypes, Keys
  <2> QED BY <1>5, <2>1, <1>1, <1>3 DEF EnsureRecord
<1>6. CASE Finalize
  <2>1. plain # None => plain.key \in Keys
    BY DEF SandboxTypes, Secret, Keys
  <2> QED BY <1>6, <2>1, <1>2, <1>3 DEF Finalize
<1>7. ASSUME NEW j \in UserKeys, NEW e \in Record, CreateKey(j, e)
      PROVE  goal
  BY <1>7, <1>1, KeysAssumption DEF CreateKey, Keys
<1>8. ASSUME NEW r \in Replicas, Revoke(r)
      PROVE  goal
  <2>1. now' = now
    BY <1>8 DEF Revoke
  <2> QED BY <1>8, <2>1, <1>2, <1>3 DEF Revoke, Revoking, RevokeKey, InvalidateHash
<1>9. CASE Tick
  BY <1>9, <1>3 DEF Tick
<1>10. CASE EnsureToken \/ ReadKey \/ WriteSecret \/ StartPod \/ Crash \/ Cluster
  BY <1>10, <1>3 DEF EnsureToken, ReadKey, WriteSecret, StartPod, Crash, Cluster,
                     CreateSandbox, Resume, Delete, Sync, Collect
<1>11. ASSUME NEW v \in Requests,
              (\E j \in Keys, r \in Replicas : Validate(v, j, r)) \/ Lookup(v) \/ Fill(v) \/ Answered(v)
       PROVE  goal
  BY <1>11, <1>3 DEF Validate, Lookup, Fill, Answered
<1> QED BY <1>5, <1>6, <1>7, <1>8, <1>9, <1>10, <1>11 DEF Next, Controller, Router

\* A copy of a record stays one, whatever becomes of the record.
LEMMA CopiesStay ==
  ASSUME StoreTypes, SandboxTypes, ControllerInv, Next,
         NEW k \in Keys, NEW e, Copies(e, k, recs[k], gone[k])
  PROVE  Copies(e, k, recs'[k], gone'[k])
<1>1. now # None
  BY NoneIsNoData DEF StoreTypes
<1> QED BY <1>1, StoreSteps DEF Deleted, Made, Copies

\* What a step does to an entry: nothing, it removes it, or a validation makes it.
LEMMA EntrySteps ==
  ASSUME RouterTypes, StoreTypes, CacheTypes, ValidationsInv, EvictionsInv, Next,
         NEW r \in Replicas, NEW k \in Keys
  PROVE  \/ cache'[r].items[k] \in {None, cache[r].items[k]}
         \/ \E v \in Requests :
              /\ Fill(v) /\ val[v].key = k /\ val[v].at = r
              /\ cache'[r].items[k] = [at |-> now, exp |-> val[v].exp]
<1> DEFINE keeps == cache'[r].items[k] \in {None, cache[r].items[k]}
<1>1. CASE cache' = cache
  BY <1>1
<1>2. ASSUME NEW s \in Replicas, NEW j \in Keys, cache' = [cache EXCEPT ![s] = CacheRemove(cache[s], j)]
      PROVE  keeps
  <2>1. CASE s = r
    <3>1. cache[r] \in Cached /\ WellKept(cache[r])
      BY DEF CacheTypes
    <3>2. CacheRemove(cache[r], j).items[k] \in {None, cache[r].items[k]}
      BY <3>1, RemoveKeeps
    <3> QED BY <1>2, <2>1, <3>2 DEF CacheTypes
  <2>2. CASE s # r
    BY <1>2, <2>2 DEF CacheTypes
  <2> QED BY <2>1, <2>2
<1>3. CASE Controller \/ Cluster \/ Tick
  BY <1>3, <1>1 DEF Controller, Cluster, EnsureToken, ReadKey, EnsureRecord, WriteSecret, StartPod, Crash,
              Finalize, CreateSandbox, Resume, Delete, Sync, Collect, Tick, routerVars
<1>4. CASE \E j \in UserKeys, e \in Record : CreateKey(j, e)
  BY <1>4, <1>1 DEF CreateKey, routerVars
<1>5. CASE \E v \in Requests, j \in Keys, s \in Replicas : Validate(v, j, s)
  BY <1>5, <1>1, <1>2 DEF Validate, Hit
<1>6. CASE \E v \in Requests : Lookup(v) \/ Answered(v)
  BY <1>6, <1>1 DEF Lookup, Answered
<1>7. CASE \E s \in Replicas : Revoke(s)
  <2>1. PICK s \in Replicas : Revoke(s)
    BY <1>7
  <2>2. CASE InvalidateHash(s)
    <3>1. revoke[s].key \in Keys
      BY <2>2 DEF InvalidateHash, EvictionsInv, RouterTypes
    <3> QED BY <2>2, <3>1, <1>2 DEF InvalidateHash
  <2>3. CASE \E j \in Keys : RevokeKey(j, s)
    BY <2>3, <1>1 DEF RevokeKey
  <2> QED BY <2>1, <2>2, <2>3 DEF Revoke, Revoking
<1>8. CASE \E v \in Requests : Fill(v)
  <2>1. PICK v \in Requests : Fill(v)
    BY <1>8
  <2>2. PICK s \in Replicas, j \in Keys, e \in Entry :
          /\ s = val[v].at /\ j = val[v].key /\ e = [at |-> now, exp |-> val[v].exp]
    BY <2>1 DEF Fill, ValidationsInv, RouterTypes, StoreTypes, Validation, Entry
  <2>3. cache' = [cache EXCEPT ![s] = CachePut(cache[s], j, e)]
    BY <2>1, <2>2 DEF Fill
  <2>4. CASE s # r
    BY <2>3, <2>4 DEF CacheTypes
  <2>5. CASE s = r
    <3>1. cache[r] \in Cached /\ WellKept(cache[r])
      BY DEF CacheTypes
    <3>2. cache'[r] = CachePut(cache[r], j, e)
      BY <2>3, <2>5 DEF CacheTypes
    <3>3. CASE j = k
      <4>1. cache'[r].items[k] = e
        BY <3>1, <3>2, <3>3, PutKeeps
      <4> QED BY <2>1, <2>2, <2>5, <3>3, <4>1
    <3>4. CASE j # k
      BY <3>1, <3>2, <3>4, PutKeeps
    <3> QED BY <3>3, <3>4
  <2> QED BY <2>4, <2>5
<1> QED
  BY <1>3, <1>4, <1>5, <1>6, <1>7, <1>8 DEF Next, Router

LEMMA EntriesStep ==
  ASSUME StoreTypes, SandboxTypes, RouterTypes, CacheTypes, ControllerInv, RecordsInv,
         EntriesInv, ValidationsInv, EvictionsInv, Next
  PROVE  EntriesInv'
<1> USE NoneIsNoData
<1>1. SUFFICES ASSUME NEW r \in Replicas, NEW k \in Keys, cache'[r].items[k] # None
               PROVE  /\ Copies(cache'[r].items[k].exp, k, recs'[k], gone'[k]) /\ cache'[r].items[k].at <= now'
                      /\ gone'[k] # None => cache'[r].items[k].at <= gone'[k]
  BY DEF EntriesInv
<1>2. now \in Nat /\ now' \in Nat /\ now <= now'
  <2>1. now' = now \/ now' = now + 1
    BY DEF Next, Controller, Cluster, Router, EnsureToken, ReadKey, EnsureRecord, WriteSecret, StartPod,
           Crash, Finalize, CreateSandbox, Resume, Delete, Sync, Collect, CreateKey, Validate, Lookup,
           Fill, Answered, Revoke, Tick
  <2> QED BY <2>1 DEF StoreTypes
<1>3. CASE cache'[r].items[k] \in {None, cache[r].items[k]}
  <2>1. PICK e \in Entry : e = cache[r].items[k] /\ e = cache'[r].items[k]
    BY <1>1, <1>3 DEF CacheTypes, Cached
  <2>2. Copies(e.exp, k, recs[k], gone[k]) /\ e.at <= now /\ (gone[k] # None => e.at <= gone[k])
    BY <1>1, <2>1 DEF EntriesInv
  <2>3. Copies(e.exp, k, recs'[k], gone'[k])
    BY <2>2, CopiesStay
  <2>4. e.at \in Nat /\ e.at <= now'
    BY <1>2, <2>2 DEF Entry
  <2>5. gone'[k] # None => e.at <= gone'[k]
    BY <2>2, StoreSteps DEF Deleted, Made
  <2> QED BY <2>1, <2>3, <2>4, <2>5
<1>4. ASSUME NEW v \in Requests, Fill(v), val[v].key = k, val[v].at = r,
             cache'[r].items[k] = [at |-> now, exp |-> val[v].exp]
      PROVE  /\ Copies(cache'[r].items[k].exp, k, recs'[k], gone'[k]) /\ cache'[r].items[k].at <= now'
             /\ gone'[k] # None => cache'[r].items[k].at <= gone'[k]
  <2>1. PICK e \in Record : e = val[v].exp
    BY DEF RouterTypes, Validation
  <2>2. Copies(e, k, recs[k], gone[k]) /\ (gone[k] # None => gone[k] = now)
    BY <1>4, <2>1 DEF Fill, ValidationsInv
  <2>3. Copies(e, k, recs'[k], gone'[k])
    BY <2>2, CopiesStay
  <2>4. gone' = gone
    BY <1>4 DEF Fill
  <2> QED BY <1>2, <1>4, <2>1, <2>2, <2>3, <2>4
<1>5. \/ cache'[r].items[k] \in {None, cache[r].items[k]}
      \/ \E v \in Requests :
           /\ Fill(v) /\ val[v].key = k /\ val[v].at = r
           /\ cache'[r].items[k] = [at |-> now, exp |-> val[v].exp]
  BY EntrySteps
<1> QED BY <1>3, <1>4, <1>5, Zenon
\* A step of another request leaves a validation alone.
LEMMA ValidationSteps ==
  ASSUME RouterTypes, Next, NEW v \in Requests
  PROVE  \/ val'[v] = val[v]
         \/ \E k \in Keys, r \in Replicas : Validate(v, k, r)
         \/ Lookup(v) \/ Fill(v) \/ Answered(v)
<1>1. CASE val' = val
  BY <1>1
<1>2. CASE Controller \/ Cluster \/ Tick \/ \E r \in Replicas : Revoke(r)
  BY <1>2, <1>1 DEF Controller, Cluster, EnsureToken, ReadKey, EnsureRecord, WriteSecret, StartPod, Crash,
              Finalize, CreateSandbox, Resume, Delete, Sync, Collect, Tick, routerVars, Revoke
<1>3. CASE \E j \in UserKeys, e \in Record : CreateKey(j, e)
  BY <1>3, <1>1 DEF CreateKey, routerVars
<1>4. ASSUME NEW w \in Requests, w # v,
             (\E k \in Keys, r \in Replicas : Validate(w, k, r)) \/ Lookup(w) \/ Fill(w) \/ Answered(w)
      PROVE  val'[v] = val[v]
  BY <1>4 DEF Validate, Hit, Lookup, Fill, Answered, Answer, RouterTypes
<1> QED BY <1>2, <1>3, <1>4 DEF Next, Router

\* Time stands still while a record that was read is not yet cached.
LEMMA TimeFlows ==
  ASSUME StoreTypes, Next
  PROVE  /\ now \in Nat /\ now' \in Nat /\ now <= now'
         /\ now' # now => Tick
<1>1. now' = now \/ (now' = now + 1 /\ Tick)
  BY DEF Next, Controller, Cluster, Router, EnsureToken, ReadKey, EnsureRecord, WriteSecret, StartPod,
         Crash, Finalize, CreateSandbox, Resume, Delete, Sync, Collect, CreateKey, Validate, Lookup,
         Fill, Answered, Revoke, Tick
<1> QED BY <1>1, NoneIsNoData DEF StoreTypes

LEMMA ValidationsStep ==
  ASSUME StoreTypes, SandboxTypes, RouterTypes, CacheTypes, ControllerInv, RecordsInv,
         EntriesInv, ValidationsInv, EvictionsInv, Next
  PROVE  ValidationsInv'
<1> DEFINE Good(w, rec, del, t) ==
      /\ w.pc \in {"lookup", "put", "ok"} => w.key \in Keys /\ w.at \in Replicas
      /\ w.pc = "put" =>
           /\ Copies(w.exp, w.key, rec[w.key], del[w.key]) /\ t <= w.exp
           /\ del[w.key] # None => del[w.key] = t
      /\ w.pc = "ok" =>
           /\ rec[w.key] # None \/ del[w.key] # None
           /\ w.time <= t
           /\ rec[w.key] # None => w.time <= rec[w.key]
           /\ del[w.key] # None => w.time < del[w.key] + TTL
<1> USE NoneIsNoData
<1>1. SUFFICES ASSUME NEW v \in Requests
               PROVE  Good(val'[v], recs', gone', now')
  BY DEF ValidationsInv, KeyKnown, Stored
<1>2. Good(val[v], recs, gone, now)
  BY DEF ValidationsInv, KeyKnown, Stored
<1> HIDE DEF Good
<1>3. val[v] \in Validation
  BY DEF RouterTypes
<1>4. now \in Times /\ now \in Nat /\ now' \in Nat /\ now <= now' /\ (now' # now => Tick)
  BY TimeFlows DEF StoreTypes
<1>5. CASE val'[v] = val[v]
  <2>1. CASE val[v].pc = "put"
    <3>1. now' = now
      BY <1>4, <2>1 DEF Tick
    <3>2. Copies(val[v].exp, val[v].key, recs'[val[v].key], gone'[val[v].key])
      BY <1>2, <2>1, CopiesStay DEF Good
    <3>3. gone'[val[v].key] # None => gone'[val[v].key] = now
      BY <1>2, <2>1, StoreSteps DEF Good, Deleted, Made
    <3> QED BY <1>2, <1>5, <2>1, <3>1, <3>2, <3>3 DEF Good
  <2>2. CASE val[v].pc = "ok"
    <3> DEFINE k == val[v].key
    <3>1. PICK t \in Times : t = val[v].time
      BY <1>3 DEF Validation
    <3>2. /\ k \in Keys /\ val[v].at \in Replicas /\ (recs[k] # None \/ gone[k] # None) /\ t <= now
          /\ recs[k] # None => t <= recs[k]
          /\ gone[k] # None => t < gone[k] + TTL
      BY <1>2, <2>2, <3>1 DEF Good
    <3> HIDE DEF k
    <3>3. (recs'[k] = recs[k] /\ gone'[k] = gone[k]) \/ Deleted(k) \/ Made(k)
      BY <3>2, StoreSteps
    <3>4. t <= now' /\ t < now + TTL /\ t <= Never
      <4>1. t \in Nat /\ t < Never /\ Never \in Nat
        BY NoneIsNoData
      <4> QED BY <4>1, <1>4, <3>2, CacheAssumption
    <3>5. /\ recs'[k] # None \/ gone'[k] # None
          /\ recs'[k] # None => t <= recs'[k]
          /\ gone'[k] # None => t < gone'[k] + TTL
      BY <1>4, <3>2, <3>3, <3>4 DEF Deleted, Made
    <3> QED BY <1>5, <2>2, <3>1, <3>2, <3>4, <3>5 DEF Good, k
  <2>3. CASE val[v].pc \notin {"put", "ok"}
    BY <1>2, <1>5, <2>3 DEF Good
  <2> QED BY <2>1, <2>2, <2>3
<1>6. ASSUME NEW k \in Keys, NEW r \in Replicas, Validate(v, k, r)
      PROVE  Good(val'[v], recs', gone', now')
  <2>1. PICK pc \in {"lookup", "denied", "ok"} :
          /\ val' = [val EXCEPT ![v] = [NewValidation EXCEPT !.pc = pc, !.key = k, !.at = r, !.time = now]]
          /\ pc = "ok" => LET e == cache[r].items[k] IN e # None /\ ~KeyExpired(e) /\ ~Aged(e)
    BY <1>6, Zenon DEF Validate, Hit
  <2>2. /\ val'[v].pc = pc /\ val'[v].key = k /\ val'[v].at = r /\ val'[v].time = now
    BY <2>1 DEF RouterTypes, NewValidation
  <2>3. UNCHANGED <<recs, gone, now>>
    BY <1>6 DEF Validate
  <2>4. CASE pc = "ok"
    <3>1. PICK e \in Entry : e = cache[r].items[k]
      BY <2>1, <2>4 DEF CacheTypes, Cached
    <3>2. PICK a \in Times, x \in Record : a = e.at /\ x = e.exp
      BY DEF Entry
    <3>3. /\ Copies(x, k, recs[k], gone[k]) /\ a <= now
          /\ gone[k] # None => a <= gone[k]
      BY <3>1, <3>2 DEF EntriesInv
    <3>4. now <= x /\ now - a < TTL
      <4>1. ~(now > e.exp) /\ ~(now - e.at >= TTL)
        BY <2>1, <2>4, <3>1 DEF KeyExpired, Expired, Aged
      <4>2. a \in Nat /\ x \in Nat
        BY BoundsAssumption DEF Times, Record, Never
      <4> QED BY <4>1, <4>2, <3>2, <1>4, CacheAssumption
    <3>5. gone[k] # None => gone[k] \in Nat
      BY DEF StoreTypes
    <3>6. gone[k] # None => now < gone[k] + TTL
      BY <1>4, <3>3, <3>4, <3>5, CacheAssumption
    <3>7. /\ recs[k] # None \/ gone[k] # None
          /\ recs[k] # None => now <= recs[k]
      BY <3>3, <3>4 DEF Copies
    <3> QED BY <1>4, <2>2, <2>3, <2>4, <3>6, <3>7 DEF Good
  <2> QED BY <2>2, <2>3, <2>4 DEF Good
<1>7. CASE Lookup(v)
  <2> DEFINE k == val[v].key
  <2>1. k \in Keys /\ val[v].at \in Replicas /\ UNCHANGED <<recs, gone, now>>
    BY <1>2, <1>7 DEF Lookup, Good
  <2>2. CASE Stored(k) /\ ~Expired(recs[k]) /\ val' = [val EXCEPT ![v].pc = "put", ![v].exp = recs[k]]
    <3>1. val'[v].pc = "put" /\ val'[v].exp = recs[k] /\ val'[v].key = k /\ val'[v].at = val[v].at
      BY <1>3, <2>2 DEF RouterTypes, Validation
    <3>2. gone[k] = None /\ recs[k] # None /\ (k \in ScopedKeys => recs[k] = Never)
      BY <2>1, <2>2 DEF RecordsInv, Stored
    <3>3. now <= recs[k]
      <4>1. recs[k] \in Nat
        BY <2>1, <3>2, BoundsAssumption DEF StoreTypes, Record, Times, Never
      <4> QED BY <4>1, <2>2, <1>4 DEF Expired
    <3> HIDE DEF k
    <3>4. Copies(recs[k], k, recs[k], gone[k])
      BY <3>2 DEF Copies
    <3> QED BY <2>1, <3>1, <3>2, <3>3, <3>4 DEF Good
  <2>3. CASE val' = Answer(v, "denied")
    <3>1. val'[v].pc = "denied"
      BY <1>3, <2>3 DEF RouterTypes, Validation, Answer
    <3> QED BY <3>1 DEF Good
  <2> QED BY <1>7, <2>2, <2>3 DEF Lookup
<1>8. CASE Fill(v)
  <2> DEFINE k == val[v].key
  <2>1. /\ val'[v].pc = "ok" /\ val'[v].key = k /\ val'[v].at = val[v].at /\ val'[v].time = now
        /\ UNCHANGED <<recs, gone, now>>
    BY <1>3, <1>8 DEF Fill, Answer, RouterTypes, Validation
  <2>2. PICK x \in Record : x = val[v].exp
    BY <1>3 DEF Validation
  <2>3. /\ k \in Keys /\ val[v].at \in Replicas
        /\ Copies(x, k, recs[k], gone[k]) /\ now <= x /\ (gone[k] # None => gone[k] = now)
    BY <1>2, <1>8, <2>2 DEF Fill, Good
  <2> HIDE DEF k
  <2>4. now < now + TTL /\ now <= now
    BY <1>4, CacheAssumption
  <2> QED BY <2>1, <2>3, <2>4 DEF Good, Copies
<1>9. CASE Answered(v)
  <2>1. val'[v].pc = "idle"
    BY <1>9 DEF Answered, RouterTypes, NewValidation
  <2> QED BY <2>1 DEF Good
<1> QED BY <1>5, <1>6, <1>7, <1>8, <1>9, ValidationSteps

LEMMA EvictionsStep ==
  ASSUME StoreTypes, SandboxTypes, RouterTypes, CacheTypes, ControllerInv, RecordsInv,
         EntriesInv, ValidationsInv, EvictionsInv, Next
  PROVE  EvictionsInv'
<1> USE NoneIsNoData
<1>1. ASSUME NEW r \in Replicas, revoke'[r].pc = "evict"
      PROVE  revoke'[r].key # None
  <2>1. CASE revoke' = revoke
    BY <1>1, <2>1 DEF EvictionsInv
  <2>2. CASE \E s \in Replicas : Revoke(s)
    BY <1>1, <2>2 DEF Revoke, Revoking, RevokeKey, InvalidateHash, EvictionsInv, RouterTypes
  <2> QED
    BY <2>1, <2>2
    DEF Next, Controller, Cluster, Router, EnsureToken, ReadKey, EnsureRecord, WriteSecret, StartPod,
        Crash, Finalize, CreateSandbox, Resume, Delete, Sync, Collect, CreateKey, Validate, Lookup,
        Fill, Answered, Tick, routerVars
<1>2. ASSUME NEW k \in Keys, NEW r \in Replicas, <<k, r>> \in evicted', recs'[k] = None
      PROVE  cache'[r].items[k] = None /\ ~Filling(k, r)'
  <2>1. SUFFICES /\ cache'[r].items[k] = None
                 /\ \A v \in Requests : ~(val'[v].pc = "put" /\ val'[v].key = k /\ val'[v].at = r)
    BY DEF Filling
  <2>2. CASE <<k, r>> \in evicted
    <3>1. recs[k] = None /\ recs'[k] = recs[k]
      BY <1>2, StoreSteps DEF Deleted, Made
    <3>2. /\ cache[r].items[k] = None
          /\ \A v \in Requests : ~(val[v].pc = "put" /\ val[v].key = k /\ val[v].at = r)
      BY <2>2, <3>1 DEF EvictionsInv, Stored, Filling
    <3>3. cache'[r].items[k] = None
      <4>1. ASSUME NEW v \in Requests, Fill(v), val[v].key = k, val[v].at = r
            PROVE  FALSE
        BY <3>2, <4>1 DEF Fill
      <4>2. \/ cache'[r].items[k] \in {None, cache[r].items[k]}
            \/ \E v \in Requests :
                 /\ Fill(v) /\ val[v].key = k /\ val[v].at = r
                 /\ cache'[r].items[k] = [at |-> now, exp |-> val[v].exp]
        BY EntrySteps
      <4> QED BY <3>2, <4>1, <4>2
    <3>4. ASSUME NEW v \in Requests, val'[v].pc = "put", val'[v].key = k, val'[v].at = r
          PROVE  FALSE
      <4>1. CASE val'[v] = val[v]
        BY <3>2, <3>4, <4>1
      <4>2. CASE Lookup(v)
        <5>1. Stored(val[v].key) /\ val'[v].key = val[v].key
          BY <3>4, <4>2 DEF Lookup, Answer, RouterTypes, Validation
        <5> QED BY <3>1, <3>4, <5>1 DEF Stored
      <4>3. CASE Fill(v) \/ Answered(v)
        BY <3>4, <4>3 DEF Fill, Answered, Answer, NewValidation, RouterTypes, Validation
      <4>4. ASSUME NEW j \in Keys, NEW s \in Replicas, Validate(v, j, s)
            PROVE  FALSE
        <5>1. PICK pc \in {"lookup", "denied", "ok"} :
                val' = [val EXCEPT ![v] = [NewValidation EXCEPT !.pc = pc, !.key = j, !.at = s, !.time = now]]
          BY <4>4, Zenon DEF Validate, Hit
        <5> QED BY <3>4, <5>1 DEF RouterTypes, NewValidation
      <4> QED BY <4>1, <4>2, <4>3, <4>4, ValidationSteps
    <3> QED BY <3>3, <3>4
  <2>3. CASE <<k, r>> \notin evicted
    <3>1. PICK s \in Replicas : Revoke(s) /\ InvalidateHash(s)
      BY <1>2, <2>3
      DEF Next, Controller, Cluster, Router, EnsureToken, ReadKey, EnsureRecord, WriteSecret, StartPod,
          Crash, Finalize, CreateSandbox, Resume, Delete, Sync, Collect, CreateKey, Validate, Lookup,
          Fill, Answered, Tick, routerVars, Unstore, Revoke, Revoking, RevokeKey
    <3>2. ~Filling(revoke[s].key, s) /\ revoke[s].key = k /\ s = r
      BY <1>2, <2>3, <3>1 DEF InvalidateHash, Evicted
    <3>3. cache'[r] = CacheRemove(cache[r], k)
      BY <3>1, <3>2 DEF InvalidateHash, CacheTypes
    <3>4. cache'[r].items[k] = None
      BY <3>3, RemoveKeeps DEF CacheTypes
    <3>5. val' = val
      BY <3>1 DEF Revoke
    <3> QED BY <3>2, <3>4, <3>5 DEF Filling
  <2> QED BY <2>2, <2>3
<1> QED BY <1>1, <1>2 DEF EvictionsInv, Stored
-----------------------------------------------------------------------------
(* The theorems.                                                           *)

KeysInv ==
  /\ TypeOK /\ ControllerInv /\ (quiet => QuietInv)
  /\ RecordsInv /\ EntriesInv /\ ValidationsInv /\ EvictionsInv

LEMMA KeysInit == Init => KeysInv
<1> SUFFICES ASSUME Init PROVE KeysInv
  OBVIOUS
<1> USE NoneIsNoData
<1>1. SandboxTypes
  <2>1. PICK n \in 0..MaxLives : sb = [phase |-> "none", uid |-> n]
    BY DEF Init
  <2> QED BY <2>1 DEF Init, SandboxTypes, Secret, Token
<1>2. StoreTypes
  BY BoundsAssumption DEF Init, StoreTypes, Times
<1>3. RouterTypes
  <2>1. NewValidation \in Validation /\ [NewValidation EXCEPT !.pc = "off"] \in Validation
    BY BoundsAssumption DEF NewValidation, Validation, Times
  <2> QED BY <2>1 DEF Init, RouterTypes
<1>4. CacheTypes
  <2>1. /\ <<>> \in Seq(Keys) /\ Len(<<>>) = 0 /\ ToSet(<<>>) = {} /\ IsInjective(<<>>)
    BY DEF ToSet, IsInjective
  <2> DEFINE c == [items |-> [k \in Keys |-> None], order |-> <<>>]
  <2>2. c \in Cached
    BY <2>1 DEF Cached
  <2>3. {k \in Keys : c.items[k] # None} = {}
    OBVIOUS
  <2>4. WellKept(c)
    BY <2>1, <2>3, CacheAssumption DEF WellKept
  <2> HIDE DEF c
  <2>5. cache = [r \in Replicas |-> c]
    BY DEF Init, c
  <2> QED BY <2>2, <2>4, <2>5 DEF CacheTypes
<1>5. /\ \A k \in Keys : recs[k] = None /\ gone[k] = None
      /\ \A r \in Replicas, k \in Keys : cache[r].items[k] = None
      /\ \A v \in Requests : val[v].pc \in {"idle", "off"}
      /\ \A r \in Replicas : revoke[r].pc = "idle"
  BY DEF Init, NewValidation
<1>6. ControllerInv /\ QuietInv
  BY <1>5 DEF Init, ControllerInv, QuietInv, MountedKeyWorks, Stored, Keys
<1>7. RecordsInv /\ EntriesInv /\ ValidationsInv /\ EvictionsInv
  BY <1>5 DEF Init, RecordsInv, EntriesInv, ValidationsInv, EvictionsInv, Stored
<1> QED BY <1>1, <1>2, <1>3, <1>4, <1>6, <1>7, TypeParts DEF KeysInv

LEMMA KeysStep == KeysInv /\ [Next]_vars => KeysInv'
<1> SUFFICES ASSUME KeysInv, [Next]_vars PROVE KeysInv'
  OBVIOUS
<1>1. SandboxTypes /\ StoreTypes /\ RouterTypes /\ CacheTypes
  BY TypeParts DEF KeysInv
<1>2. CASE Next
  <2>1. TypeOK'
    BY <1>1, <1>2, ControllerTypes, StoreKeepsTypes, RouterKeepsTypes, CacheKeepsTypes, TypePartsNext
    DEF KeysInv
  <2>2. RecordsInv' /\ ControllerInv'
    BY <1>1, <1>2, KnownStays, ControllerStep DEF KeysInv
  <2>3. quiet' => QuietInv'
    BY <1>1, <1>2, QuietStep DEF KeysInv
  <2>4. EntriesInv' /\ ValidationsInv' /\ EvictionsInv'
    BY <1>1, <1>2, EntriesStep, ValidationsStep, EvictionsStep DEF KeysInv
  <2> QED BY <2>1, <2>2, <2>3, <2>4 DEF KeysInv
<1>3. CASE UNCHANGED vars
  <2>1. TypeOK'
    BY <1>3 DEF KeysInv, TypeOK, vars, sandboxVars, routerVars
  <2>2. ControllerInv' /\ (quiet' => QuietInv') /\ RecordsInv'
    BY <1>3 DEF KeysInv, ControllerInv, QuietInv, RecordsInv, MountedKeyWorks, Stored, KeyKnown,
                vars, sandboxVars, routerVars
  <2>3. EntriesInv' /\ ValidationsInv' /\ EvictionsInv'
    BY <1>3 DEF KeysInv, EntriesInv, ValidationsInv, EvictionsInv, Filling, Stored, KeyKnown,
                vars, sandboxVars, routerVars
  <2> QED BY <2>1, <2>2, <2>3 DEF KeysInv
<1> QED BY <1>2, <1>3

\* The key in a pod's environment has a record until somebody deletes it, however
\* often the reconcile that makes the two is cut short, and a sandbox deleted
\* without a crash or a stale read leaves no record behind (scoped_key.go:99-283).
THEOREM KeysAlwaysFollow == Spec => []KeysFollowSandbox
<1>1. KeysInv => KeysFollowSandbox
  BY DEF KeysInv, KeysFollowSandbox, ControllerInv, QuietInv, QuietLeavesNothing
<1> QED BY <1>1, KeysInit, KeysStep, PTL DEF Spec

\* A replica accepts a key neither after its expiry nor once its entries of before
\* the deletion of the record have aged; the key evicted on the replica that
\* deleted it stays out of the cache there, unless a validation had read its record
\* (auth/apikey.go:75-131, apikey_handlers.go:219-251).
THEOREM AcceptedKeysStayFresh == Spec => []AcceptedKeysAreFresh
<1>1. KeysInv => AcceptedKeysAreFresh
  <2> SUFFICES ASSUME KeysInv PROVE AcceptedKeysAreFresh
    OBVIOUS
  <2>1. StaleIsBounded /\ ExpiredIsRefused
    BY DEF KeysInv, ValidationsInv, StaleIsBounded, ExpiredIsRefused
  <2>2. EvictedStaysOut
    BY DEF KeysInv, EvictionsInv, EvictedStaysOut
  <2> QED BY <2>1, <2>2 DEF KeysInv, AcceptedKeysAreFresh
<1> QED BY <1>1, KeysInit, KeysStep, PTL DEF Spec
-----------------------------------------------------------------------------
(* The rate limiter.                                                       *)

LEMMA MinMax ==
  ASSUME NEW a \in Int, NEW b \in Int
  PROVE  /\ Min({a, b}) = IF a <= b THEN a ELSE b
         /\ Max({a, b}) = IF a >= b THEN a ELSE b
<1>1. PICK m \in {a, b} : \A y \in {a, b} : m <= y
  OBVIOUS
<1>2. PICK x \in {a, b} : \A y \in {a, b} : x >= y
  OBVIOUS
<1> QED BY <1>1, <1>2 DEF Min, Max

\* The delay on the wire is longer than the delay.
LEMMA RetryIsLater ==
  ASSUME NEW d \in Nat
  PROVE  RetryAfter(d) \in Nat /\ RetryAfter(d) > d
BY BurstsAssumption DEF RetryAfter

LEMMA Bursts ==
  ASSUME NEW l \in Layers
  PROVE  Burst(l) \in Nat \ {0} /\ LimiterTTL \in Nat /\ l # Nothing
BY BurstsAssumption, TTLAssumption, NothingAssumption DEF Burst, Layers

LEMMA NothingIsNoBucket == Nothing \notin Bucket /\ Nothing \notin Nat
<1>1. Bucket \subseteq [seen : Nat, tokens : Int, last : Nat, lastEvent : Nat]
  BY BatchesAssumption DEF Bucket, Clock
<1> QED BY <1>1, NothingAssumption

\* Limiter.advance: at most the burst, no less than before, and a token a tick.
LEMMA TokensLaw ==
  ASSUME NEW l \in Layers, NEW b \in Bucket, NEW t \in Clock
  PROVE  /\ TokensAt(l, b, t) \in Int /\ TokensAt(l, b, t) <= Burst(l)
         /\ b.last <= t => TokensAt(l, b, t) = IF Burst(l) <= b.tokens + (t - b.last)
                                             THEN Burst(l) ELSE b.tokens + (t - b.last)
<1>1. b.last \in Nat /\ t \in Nat /\ b.tokens \in Int /\ Burst(l) \in Nat
  BY BatchesAssumption, Bursts DEF Bucket, Clock
<1>2. Min({t, b.last}) = IF t <= b.last THEN t ELSE b.last
  BY <1>1, MinMax
<1>3. PICK m \in Nat : m = Min({t, b.last})
  BY <1>1, <1>2
<1>4. PICK x \in Int : x = b.tokens + (t - m)
  BY <1>1, <1>3
<1>5. TokensAt(l, b, t) = Min({Burst(l), x})
  BY <1>3, <1>4 DEF TokensAt
<1>6. TokensAt(l, b, t) = IF Burst(l) <= x THEN Burst(l) ELSE x
  BY <1>1, <1>5, MinMax
<1> QED BY <1>1, <1>2, <1>3, <1>4, <1>6

\* What a request of that many items takes from a bucket.
CostAt(l, n) == IF l = "addr" \/ n = 0 THEN 1 ELSE n

Sound(l, b) == b # Nothing => b.tokens <= Burst(l) /\ b.last <= clock

\* A call on its way, and what is promised to one that was refused.
CallInv(call) ==
  /\ call.pc \in {"idle", "off"} => call.layer = "addr"
  /\ call.pc # "cancel" => call.act = Nothing
  /\ call.pc \in {"reserve", "cancel"} =>
       /\ call.at = clock
       /\ buckets[call.layer] # Nothing /\ buckets[call.layer].seen = clock
  /\ call.pc = "take" /\ call.told # Nothing => call.due # Nothing /\ call.due <= clock

\* The bucket will have what the call needs when the call may come again.
Promised(call) ==
  LET b == buckets[call.told]
      n == CostAt(call.told, call.batch) IN
  n <= Burst(call.told) /\ (b # Nothing => b.tokens + (call.due - b.last) >= n)

Reserved(call) ==
  LET b == buckets[call.layer]
      n == CostAt(call.layer, call.batch) IN
  /\ b.last = clock /\ b.lastEvent = call.act
  /\ call.act >= clock /\ call.act - clock >= -b.tokens
  /\ b.tokens + n <= Burst(call.layer) /\ n <= Burst(call.layer)

AloneInv(call) ==
  call.alone =>
    /\ /\ call.told # Nothing /\ call.due # Nothing /\ call.pc \in {"idle", "take"}
       /\ ~(call.told = "addr" /\ call.layer = "user")
       => Promised(call)
    /\ call.pc = "cancel" /\ call.act # Nothing => Reserved(call)
    /\ call.pc = "reserve" => call.told # call.layer

LimiterInv ==
  /\ LimiterTypeOK
  /\ \A l \in Layers : Sound(l, buckets[l])
  /\ \A c \in Clients : CallInv(calls[c]) /\ AloneInv(calls[c])
\* Another call's step takes away no more than the promise to be alone.
LEMMA Undisturbed ==
  ASSUME NEW c \in Clients, NEW d \in Clients, c # d, NEW f \in [Clients -> Call]
  PROVE  /\ Disturb(c, f) \in [Clients -> Call]
         /\ Disturb(c, f)[c] = f[c]
         /\ Disturb(c, f)[d] = [f[d] EXCEPT !.alone = FALSE]
<1>1. \A x \in Call : [x EXCEPT !.alone = FALSE] \in Call
  BY DEF Call
<1> QED BY <1>1 DEF Disturb

\* What a call's step leaves of the others: buckets may change, but stay buckets
\* of the same instant.
LEMMA OthersKept ==
  ASSUME LimiterInv, NEW d \in Clients, NEW q, q = [calls[d] EXCEPT !.alone = FALSE],
         calls'[d] = q, clock' = clock,
         \A l \in Layers : buckets[l] # Nothing /\ buckets[l].seen = clock
                         => buckets'[l] # Nothing /\ buckets'[l].seen = clock
  PROVE  CallInv(calls[d])' /\ AloneInv(calls[d])'
<1>1. calls[d] \in Call /\ CallInv(calls[d])
  BY DEF LimiterInv, LimiterTypeOK
<1>2. /\ q.pc = calls[d].pc /\ q.layer = calls[d].layer /\ q.at = calls[d].at /\ q.act = calls[d].act
      /\ q.due = calls[d].due /\ q.told = calls[d].told /\ q.alone = FALSE /\ q.layer \in Layers
  BY <1>1 DEF Call
<1>3. CallInv(calls[d])'
  BY <1>1, <1>2 DEF CallInv
<1>4. AloneInv(calls[d])'
  BY <1>2 DEF AloneInv
<1> QED BY <1>3, <1>4

\* AllowN, on a bucket there already or made full.
LEMMA FoundLaw ==
  ASSUME LimiterInv, NEW l \in Layers
  PROVE  /\ Found(l) \in Bucket /\ Sound(l, Found(l)) /\ Found(l).seen = clock /\ Found(l) # Nothing
         /\ buckets[l] = Nothing => Found(l).tokens = Burst(l) /\ Found(l).last = clock
         /\ buckets[l] # Nothing =>
              Found(l).tokens = buckets[l].tokens /\ Found(l).last = buckets[l].last
<1>1. clock \in Clock /\ clock \in Nat /\ Burst(l) \in Nat
  BY BatchesAssumption, Bursts DEF LimiterInv, LimiterTypeOK, Clock
<1>2. CASE buckets[l] = Nothing
  <2>1. Found(l) = [seen |-> clock, tokens |-> Burst(l), last |-> clock, lastEvent |-> 0]
    BY <1>2 DEF Found
  <2>2. Found(l) \in Bucket
    BY <1>1, <2>1 DEF Bucket
  <2> QED BY <1>1, <1>2, <2>1, <2>2, NothingIsNoBucket DEF Sound
<1>3. CASE buckets[l] # Nothing
  <2>1. buckets[l] \in Bucket /\ Sound(l, buckets[l])
    BY <1>3 DEF LimiterInv, LimiterTypeOK
  <2>2. Found(l) = [buckets[l] EXCEPT !.seen = clock]
    BY <1>3 DEF Found
  <2>3. Found(l) \in Bucket
    BY <1>1, <2>1, <2>2 DEF Bucket
  <2>4. /\ Found(l).seen = clock /\ Found(l).tokens = buckets[l].tokens
        /\ Found(l).last = buckets[l].last
    BY <2>1, <2>2 DEF Bucket
  <2> QED BY <1>3, <2>1, <2>3, <2>4, NothingIsNoBucket DEF Sound
<1> QED BY <1>2, <1>3

\* A promise is kept: whoever was told when to come is let through.
LEMMA PromiseHolds ==
  ASSUME LimiterInv, NEW c \in Clients, Take(c), calls[c].alone, calls[c].told = calls[c].layer
  PROVE  Allows(calls[c].layer, Cost(c))
<1>1. PICK l \in Layers, n \in Batches \union {0}, due \in Nat :
        /\ l = calls[c].layer /\ l = calls[c].told /\ n = calls[c].batch /\ due = calls[c].due
        /\ due <= clock
  <2>1. calls[c] \in Call /\ CallInv(calls[c]) /\ calls[c].pc = "take"
    BY DEF LimiterInv, LimiterTypeOK, Take
  <2>2. calls[c].layer \in Layers /\ calls[c].batch \in Batches \union {0} /\ calls[c].due \in Nat \union {Nothing}
    BY <2>1 DEF Call
  <2>3. calls[c].told # Nothing
    BY <2>2, Bursts
  <2>4. calls[c].due # Nothing /\ calls[c].due <= clock
    BY <2>1, <2>3 DEF CallInv
  <2> QED BY <2>2, <2>4
<1>2. Promised(calls[c])
  <2>1. ~(calls[c].told = "addr" /\ calls[c].layer = "user")
    OBVIOUS
  <2>2. calls[c].told # Nothing /\ calls[c].due # Nothing /\ calls[c].pc \in {"idle", "take"}
    BY <1>1, Bursts, NothingIsNoBucket DEF Take
  <2>3. AloneInv(calls[c])
    BY DEF LimiterInv
  <2> QED BY <2>1, <2>2, <2>3 DEF AloneInv
<1>3. PICK m \in Nat \ {0} : m = Cost(c) /\ m = CostAt(l, n)
  BY <1>1, BatchesAssumption DEF Cost, CostAt
<1>4. /\ m <= Burst(l)
      /\ buckets[l] # Nothing => buckets[l].tokens + (due - buckets[l].last) >= m
  BY <1>1, <1>2, <1>3 DEF Promised
<1>5. /\ Found(l) \in Bucket /\ Sound(l, Found(l)) /\ Found(l) # Nothing
      /\ buckets[l] = Nothing => Found(l).tokens = Burst(l) /\ Found(l).last = clock
      /\ buckets[l] # Nothing => Found(l).tokens = buckets[l].tokens /\ Found(l).last = buckets[l].last
  BY FoundLaw
<1>6. PICK k \in Int, last \in Nat, now1 \in Nat, size \in Nat :
        k = Found(l).tokens /\ last = Found(l).last /\ now1 = clock /\ size = Burst(l)
  <2>1. clock \in Nat
    BY BatchesAssumption DEF Clock, LimiterInv, LimiterTypeOK
  <2>2. Found(l).tokens \in Int /\ Found(l).last \in Nat
    BY <1>5, BatchesAssumption DEF Bucket, Clock
  <2> QED BY <2>1, <2>2, Bursts
<1>7. last <= now1 /\ k + (now1 - last) >= m /\ m <= size
  <2>1. last <= now1 /\ m <= size /\ due <= now1
    BY <1>1, <1>4, <1>5, <1>6 DEF Sound
  <2>2. CASE buckets[l] = Nothing
    BY <2>1, <2>2, <1>4, <1>5, <1>6
  <2>3. CASE buckets[l] # Nothing
    BY <2>1, <2>3, <1>4, <1>5, <1>6
  <2> QED BY <2>1, <2>2, <2>3
<1>8. TokensAt(l, Found(l), now1) = IF size <= k + (now1 - last) THEN size ELSE k + (now1 - last)
  BY <1>5, <1>6, <1>7, TokensLaw DEF LimiterInv, LimiterTypeOK
<1>9. TokensAt(l, Found(l), clock) >= m
  BY <1>6, <1>7, <1>8
<1> QED BY <1>1, <1>3, <1>4, <1>9 DEF Allows
LEMMA CostLaw ==
  ASSUME NEW c, calls[c] \in Call
  PROVE  /\ Cost(c) = CostAt(calls[c].layer, calls[c].batch) /\ Cost(c) \in Nat \ {0}
         /\ calls[c].layer \in Layers /\ calls[c].act \in Nat \union {Nothing}
<1>a. /\ calls[c].layer \in Layers /\ calls[c].act \in Nat \union {Nothing}
      /\ calls[c].batch \in Batches \union {0}
  BY DEF Call
<1>b. PICK n \in Batches \union {0} : n = calls[c].batch
  BY <1>a
<1>c. n \in Nat
  BY BatchesAssumption
<1>1. /\ calls[c].layer \in Layers /\ calls[c].act \in Nat \union {Nothing}
      /\ calls[c].batch \in Nat
  BY <1>a, <1>b, <1>c
<1> QED BY <1>1 DEF Cost, CostAt

\* A step of one call on one bucket.
LEMMA CallStep ==
  ASSUME LimiterInv, NEW c \in Clients, NEW q \in Call, NEW l \in Layers, NEW b \in Bucket,
         calls' = Disturb(c, [calls EXCEPT ![c] = q]), buckets' = [buckets EXCEPT ![l] = b],
         clock' = clock, granted' \in [Clock -> Nat], crowded' \in BOOLEAN, Sound(l, b),
         buckets[l] # Nothing => b.seen \in {clock, buckets[l].seen},
         CallInv(q)', AloneInv(q)'
  PROVE  LimiterInv'
<1>1. calls \in [Clients -> Call] /\ buckets \in [Layers -> Bucket \union {Nothing}] /\ clock \in Clock
  BY DEF LimiterInv, LimiterTypeOK
<1>2. PICK f \in [Clients -> Call] : f = [calls EXCEPT ![c] = q]
  BY <1>1
<1>3. calls' \in [Clients -> Call] /\ calls'[c] = q
  BY <1>1, <1>2, Undisturbed DEF Disturb
<1>4. \A k \in Layers : buckets'[k] = IF k = l THEN b ELSE buckets[k]
  BY <1>1
<1>5. buckets' \in [Layers -> Bucket \union {Nothing}]
  BY <1>1
<1>6. \A k \in Layers : Sound(k, buckets'[k])
  BY <1>4 DEF LimiterInv
<1>7. \A k \in Layers : (buckets[k] # Nothing => buckets[k].tokens <= Burst(k))
  BY DEF LimiterInv, LimiterTypeOK
<1>8. LimiterTypeOK'
  BY <1>1, <1>3, <1>5, <1>6 DEF LimiterTypeOK, Sound
<1>9. \A k \in Layers : Sound(k, buckets[k])'
  BY <1>6 DEF Sound
<1>10. ASSUME NEW d \in Clients
       PROVE  CallInv(calls[d])' /\ AloneInv(calls[d])'
  <2>1. CASE d = c
    BY <1>3, <2>1 DEF CallInv, AloneInv, Promised, Reserved
  <2>2. CASE d # c
    <3>1. PICK x : x = [calls[d] EXCEPT !.alone = FALSE]
      OBVIOUS
    <3>2. calls'[d] = x
      <4>1. f[d] = calls[d]
        BY <1>1, <1>2, <2>2
      <4>2. Disturb(c, f)[d] = [f[d] EXCEPT !.alone = FALSE]
        BY <2>2, Undisturbed
      <4> QED BY <1>2, <3>1, <4>1, <4>2
    <3>3. \A k \in Layers : buckets[k] # Nothing /\ buckets[k].seen = clock
                           => buckets'[k] # Nothing /\ buckets'[k].seen = clock
      BY <1>4, NothingIsNoBucket
    <3> QED BY <3>1, <3>2, <3>3, OthersKept
  <2> QED BY <2>1, <2>2
<1> QED BY <1>8, <1>9, <1>10 DEF LimiterInv

LEMMA ArriveStep ==
  ASSUME LimiterInv, NEW c \in Clients, Arrive(c)
  PROVE  LimiterInv'
<1>1. calls \in [Clients -> Call] /\ CallInv(calls[c]) /\ AloneInv(calls[c]) /\ calls[c].pc = "idle"
  BY DEF LimiterInv, LimiterTypeOK, Arrive
<1>2. ASSUME NEW q \in Call, calls' = [calls EXCEPT ![c] = q], CallInv(q), AloneInv(q)
      PROVE  LimiterInv'
  <2>1. UNCHANGED <<buckets, granted, crowded, clock>>
    BY DEF Arrive
  <2>2. \A d \in Clients : calls'[d] = IF d = c THEN q ELSE calls[d]
    BY <1>1, <1>2
  <2>3. ASSUME NEW d \in Clients
        PROVE  CallInv(calls[d])' /\ AloneInv(calls[d])'
    BY <1>2, <2>1, <2>2 DEF LimiterInv, CallInv, AloneInv, Promised, Reserved
  <2>4. LimiterTypeOK' /\ \A l \in Layers : Sound(l, buckets[l])'
    BY <1>1, <1>2, <2>1 DEF LimiterInv, LimiterTypeOK, Sound
  <2> QED BY <2>3, <2>4 DEF LimiterInv
<1>3. ASSUME NEW n \in Batches, NEW a \in BOOLEAN,
             calls' = [calls EXCEPT ![c] = [IdleCall EXCEPT !.pc = "take", !.batch = n, !.alone = a]]
      PROVE  LimiterInv'
  <2> DEFINE q == [IdleCall EXCEPT !.pc = "take", !.batch = n, !.alone = a]
  <2>1. q \in Call
    <3>1. IdleCall \in Call
      BY BatchesAssumption DEF IdleCall, Call, Clock, Layers
    <3> QED BY <3>1 DEF Call
  <2>2. q.pc = "take" /\ q.told = Nothing /\ q.act = Nothing
    BY DEF IdleCall
  <2> HIDE DEF q
  <2>3. CallInv(q) /\ AloneInv(q)
    BY <2>2 DEF CallInv, AloneInv
  <2> QED BY <1>2, <1>3, <2>1, <2>3 DEF q
<1>4. CASE calls[c].due # Nothing /\ calls[c].due <= clock /\ calls' = [calls EXCEPT ![c].pc = "take"]
  <2> DEFINE q == [calls[c] EXCEPT !.pc = "take"]
  <2>1. q \in Call
    BY <1>1 DEF Call
  <2>2. /\ q.pc = "take" /\ q.layer = calls[c].layer /\ q.batch = calls[c].batch /\ q.act = calls[c].act
        /\ q.due = calls[c].due /\ q.told = calls[c].told /\ q.alone = calls[c].alone
    BY <1>1 DEF Call
  <2>3. calls' = [calls EXCEPT ![c] = q]
    BY <1>4
  <2> HIDE DEF q
  <2>4. CallInv(q)
    BY <1>1, <1>4, <2>2 DEF CallInv
  <2>5. AloneInv(q)
    BY <1>1, <2>2 DEF AloneInv, Promised, CallInv
  <2> QED BY <1>2, <2>1, <2>3, <2>4, <2>5
<1> QED BY <1>3, <1>4 DEF Arrive

LEMMA TakeStep ==
  ASSUME LimiterInv, NEW c \in Clients, Take(c)
  PROVE  LimiterInv'
<1>1. /\ calls \in [Clients -> Call] /\ CallInv(calls[c]) /\ AloneInv(calls[c]) /\ calls[c].pc = "take"
      /\ clock \in Clock /\ clock \in Nat /\ granted \in [Clock -> Nat] /\ crowded \in BOOLEAN
      /\ buckets \in [Layers -> Bucket \union {Nothing}]
  BY BatchesAssumption DEF LimiterInv, LimiterTypeOK, Take, Clock
<1>2. PICK l \in Layers, n \in Nat \ {0}, m \in Batches \union {0} :
        l = calls[c].layer /\ n = Cost(c) /\ m = calls[c].batch
  <2>1. calls[c] \in Call /\ calls[c].batch \in Batches \union {0}
    BY <1>1 DEF Call
  <2> QED BY <2>1, CostLaw
<1>3. PICK b \in Bucket : b = Found(l) /\ Sound(l, b) /\ b.seen = clock /\ b # Nothing
  BY FoundLaw
<1>4. PICK k \in Int : k = TokensAt(l, b, clock) /\ k <= Burst(l)
  BY <1>1, <1>3, TokensLaw
<1>5. CASE Allows(l, n)
  <2>a. PICK x \in Int : x = k - n
    BY <1>2, <1>4
  <2>b. [b EXCEPT !.tokens = x, !.last = clock, !.lastEvent = clock] \in Bucket
    BY <1>1, <1>3 DEF Bucket
  <2>c. PICK b1 \in Bucket : b1 = [b EXCEPT !.tokens = x, !.last = clock, !.lastEvent = clock]
    BY <2>b
  <2>1. b1.tokens = x /\ b1.last = clock /\ b1.seen = clock
    BY <1>3, <2>c DEF Bucket
  <2>2. Sound(l, b1)
    BY <1>1, <1>2, <1>4, <2>a, <2>1, Bursts DEF Sound
  <2>3. buckets' = [buckets EXCEPT ![l] = b1]
    BY <1>2, <1>3, <1>4, <1>5, <2>a, <2>c DEF Take
  <2>4. CASE l = "addr"
    <3>a. [calls[c] EXCEPT !.layer = "user"] \in Call
      BY <1>1 DEF Call, Layers
    <3>1. PICK q \in Call : q = [calls[c] EXCEPT !.layer = "user"]
      BY <3>a
    <3>2. /\ q.pc = "take" /\ q.layer = "user" /\ q.batch = calls[c].batch /\ q.act = calls[c].act
          /\ q.due = calls[c].due /\ q.told = calls[c].told /\ q.alone = calls[c].alone
      BY <1>1, <3>1 DEF Call
    <3>3. calls' = Disturb(c, [calls EXCEPT ![c] = q]) /\ granted' = granted /\ crowded' \in BOOLEAN /\ clock' = clock
      BY <1>1, <1>2, <1>5, <2>4, <3>1 DEF Take
    <3>4. CallInv(q)'
      BY <1>1, <3>2, <3>3 DEF CallInv
    <3>5. ASSUME q.alone, q.told # Nothing, q.due # Nothing, q.told # "addr"
          PROVE  Promised(q)'
      <4>1. q.told = "user"
        BY <3>1, <3>5 DEF Call, Layers
      <4>2. buckets'["user"] = buckets["user"]
        BY <1>1, <2>3, <2>4 DEF Layers
      <4>3. Promised(calls[c])
        BY <1>1, <3>2, <3>5 DEF AloneInv
      <4> QED BY <3>2, <4>1, <4>2, <4>3 DEF Promised
    <3>6. AloneInv(q)'
      BY <3>2, <3>5 DEF AloneInv
    <3> QED
      BY <1>1, <2>1, <2>2, <2>3, <3>1, <3>3, <3>4, <3>6, CallStep
  <2>5. CASE l = "user"
    <3>1. IdleCall \in Call /\ IdleCall.pc = "idle" /\ IdleCall.layer = "addr" /\ IdleCall.act = Nothing
          /\ IdleCall.told = Nothing
      BY BatchesAssumption DEF IdleCall, Call, Clock, Layers
    <3>2. /\ calls' = Disturb(c, [calls EXCEPT ![c] = IdleCall]) /\ crowded' \in BOOLEAN /\ clock' = clock
          /\ granted' = [granted EXCEPT ![clock] = @ + m]
      BY <1>1, <1>2, <1>5, <2>5 DEF Take
    <3>3. granted' \in [Clock -> Nat]
      BY <1>1, <1>2, <3>2, BatchesAssumption
    <3>4. CallInv(IdleCall)' /\ AloneInv(IdleCall)'
      BY <3>1 DEF CallInv, AloneInv
    <3> QED BY <1>1, <2>1, <2>2, <2>3, <3>1, <3>2, <3>3, <3>4, CallStep
  <2> QED BY <2>4, <2>5 DEF Layers
<1>6. CASE ~Allows(l, n)
  <2>a. [calls[c] EXCEPT !.pc = "reserve", !.at = clock] \in Call
    BY <1>1 DEF Call
  <2>1. PICK q \in Call : q = [calls[c] EXCEPT !.pc = "reserve", !.at = clock]
    BY <2>a
  <2>2. /\ q.pc = "reserve" /\ q.layer = l /\ q.at = clock /\ q.act = calls[c].act
        /\ q.told = calls[c].told /\ q.alone = calls[c].alone
    BY <1>1, <1>2, <2>1 DEF Call
  <2>3. /\ calls' = Disturb(c, [calls EXCEPT ![c] = q]) /\ granted' = granted /\ crowded' \in BOOLEAN /\ clock' = clock
        /\ buckets' = [buckets EXCEPT ![l] = b]
    BY <1>1, <1>2, <1>3, <1>6, <2>1 DEF Take
  <2>4. buckets'[l] = b
    BY <1>1, <2>3
  <2>5. CallInv(q)'
    BY <1>1, <1>3, <2>2, <2>3, <2>4 DEF CallInv
  <2>6. ~(q.alone /\ q.told = q.layer)
    BY <1>2, <1>6, <2>2, PromiseHolds
  <2>7. AloneInv(q)'
    BY <2>2, <2>6 DEF AloneInv
  <2> QED BY <1>1, <1>3, <2>1, <2>3, <2>5, <2>7, CallStep
<1> QED BY <1>5, <1>6
LEMMA ReserveStep ==
  ASSUME LimiterInv, NEW c \in Clients, Reserve(c)
  PROVE  LimiterInv'
<1>1. /\ calls \in [Clients -> Call] /\ CallInv(calls[c]) /\ AloneInv(calls[c]) /\ calls[c].pc = "reserve"
      /\ clock \in Clock /\ clock \in Nat /\ granted \in [Clock -> Nat] /\ crowded \in BOOLEAN
      /\ buckets \in [Layers -> Bucket \union {Nothing}]
  BY BatchesAssumption DEF LimiterInv, LimiterTypeOK, Reserve, Clock
<1>2. PICK l \in Layers, n \in Nat \ {0} :
        l = calls[c].layer /\ n = Cost(c) /\ n = CostAt(l, calls[c].batch)
  BY <1>1, CostLaw
<1>3. buckets[l] # Nothing /\ calls[c].at = clock /\ buckets[l].seen = clock
  BY <1>1, <1>2 DEF CallInv
<1>4. PICK b \in Bucket : b = buckets[l] /\ Sound(l, b) /\ b.seen = clock
  BY <1>1, <1>3 DEF LimiterInv
<1>5. PICK k \in Int : k = TokensAt(l, b, clock) /\ k <= Burst(l)
  BY <1>1, <1>4, TokensLaw
<1>6. PICK left \in Int : left = k - n
  BY <1>2, <1>5
<1>7. PICK act \in Nat : act = clock + Max({0, -left}) /\ act >= clock /\ act - clock >= -left
  <2>1. Max({0, -left}) = IF 0 >= -left THEN 0 ELSE -left
    BY MinMax
  <2> QED BY <1>1, <2>1
<1>8. CASE n > Burst(l)
  <2>a. [calls[c] EXCEPT !.pc = "cancel"] \in Call
    BY <1>1 DEF Call
  <2>1. PICK q \in Call : q = [calls[c] EXCEPT !.pc = "cancel"]
    BY <2>a
  <2>2. q.pc = "cancel" /\ q.layer = l /\ q.at = clock /\ q.act = Nothing
    BY <1>1, <1>2, <1>3, <2>1 DEF Call, CallInv
  <2>3. /\ calls' = Disturb(c, [calls EXCEPT ![c] = q]) /\ granted' = granted /\ crowded' \in BOOLEAN /\ clock' = clock
        /\ buckets' = buckets
    BY <1>1, <1>2, <1>8, <2>1 DEF Reserve
  <2>4. buckets' = [buckets EXCEPT ![l] = b]
    BY <1>1, <1>4, <2>3
  <2>5. CallInv(q)' /\ AloneInv(q)'
    BY <1>3, <2>2, <2>3 DEF CallInv, AloneInv
  <2> QED BY <1>1, <1>4, <2>3, <2>4, <2>5, CallStep
<1>9. CASE ~(n > Burst(l))
  <2>a. [calls[c] EXCEPT !.pc = "cancel", !.act = act] \in Call
    BY <1>1 DEF Call
  <2>1. PICK q \in Call : q = [calls[c] EXCEPT !.pc = "cancel", !.act = act]
    BY <2>a
  <2>2. q.pc = "cancel" /\ q.layer = l /\ q.at = clock /\ q.act = act /\ q.batch = calls[c].batch
    BY <1>1, <1>2, <1>3, <2>1 DEF Call
  <2>b. [b EXCEPT !.tokens = left, !.last = clock, !.lastEvent = act] \in Bucket
    BY <1>1 DEF Bucket
  <2>3. PICK b1 \in Bucket : b1 = [b EXCEPT !.tokens = left, !.last = clock, !.lastEvent = act]
    BY <2>b
  <2>4. b1.tokens = left /\ b1.last = clock /\ b1.lastEvent = act /\ b1.seen = clock
    BY <1>4, <2>3 DEF Bucket
  <2>5. /\ calls' = Disturb(c, [calls EXCEPT ![c] = q]) /\ granted' = granted /\ crowded' \in BOOLEAN /\ clock' = clock
        /\ buckets' = [buckets EXCEPT ![l] = b1]
    BY <1>2, <1>3, <1>4, <1>5, <1>6, <1>7, <1>9, <2>1, <2>3 DEF Reserve
  <2>6. left + n <= Burst(l) /\ n <= Burst(l) /\ left <= Burst(l)
    BY <1>2, <1>5, <1>6, <1>9, Bursts
  <2>7. Sound(l, b1)
    BY <1>1, <2>4, <2>6 DEF Sound
  <2>8. buckets'[l] = b1
    BY <1>1, <2>5
  <2>9. CallInv(q)'
    BY <2>2, <2>4, <2>5, <2>8, NothingIsNoBucket DEF CallInv
  <2>10. Reserved(q)'
    BY <1>2, <1>7, <2>2, <2>4, <2>5, <2>6, <2>8 DEF Reserved
  <2>11. AloneInv(q)'
    BY <2>2, <2>10 DEF AloneInv
  <2> QED BY <1>1, <2>4, <2>5, <2>7, <2>9, <2>11, CallStep
<1> QED BY <1>8, <1>9

\* What a cancellation leaves in the bucket.
LEMMA RestoredLaw ==
  ASSUME NEW l \in Layers, NEW b \in Bucket, NEW act \in Nat \union {Nothing}, NEW n \in Nat \ {0},
         clock \in Clock, Sound(l, b)
  PROVE  /\ Restored(l, b, act, n) \in Bucket /\ Sound(l, Restored(l, b, act, n))
         /\ Restored(l, b, act, n).seen = b.seen
         /\ act # Nothing /\ b.last = clock /\ b.lastEvent = act /\ act >= clock /\ b.tokens + n <= Burst(l)
            => Restored(l, b, act, n).tokens = b.tokens + n /\ Restored(l, b, act, n).last = clock
<1>1. clock \in Nat /\ b.lastEvent \in Nat /\ b.tokens \in Int /\ Burst(l) \in Nat
  BY BatchesAssumption, Bursts DEF Bucket, Clock
<1>2. CASE act = Nothing
  BY <1>2 DEF Restored
<1>3. CASE act # Nothing
  <2>1. act \in Nat
    BY <1>3
  <2>2. PICK back \in Int : back = n - (b.lastEvent - act)
    BY <1>1, <2>1
  <2>3. PICK k \in Int : /\ k = TokensAt(l, b, clock)
                         /\ b.last <= clock => k = IF Burst(l) <= b.tokens + (clock - b.last)
                                                 THEN Burst(l) ELSE b.tokens + (clock - b.last)
    BY TokensLaw
  <2>4. CASE act < clock \/ back <= 0
    <3>1. Restored(l, b, act, n) = b
      BY <2>2, <2>4 DEF Restored
    <3>2. b.lastEvent = act => back = n
      BY <2>1, <2>2
    <3>3. ~(b.lastEvent = act /\ act >= clock)
      BY <1>1, <2>1, <2>4, <3>2
    <3> QED BY <3>1, <3>3
  <2>5. CASE ~(act < clock \/ back <= 0)
    <3>1. PICK t \in Int : t = Min({Burst(l), k + back}) /\ t = IF Burst(l) <= k + back THEN Burst(l) ELSE k + back
      BY <1>1, <2>2, <2>3, MinMax
    <3>2. PICK e \in Nat : e = IF act = b.lastEvent /\ act - n >= clock THEN act - n ELSE b.lastEvent
      BY <1>1, <2>1
    <3>3. Restored(l, b, act, n) = [b EXCEPT !.tokens = t, !.last = clock, !.lastEvent = e]
      <4>1. Restored(l, b, act, n) =
              [b EXCEPT !.tokens = Min({Burst(l), TokensAt(l, b, clock) + (n - (b.lastEvent - act))}),
                        !.last = clock,
                        !.lastEvent = IF act = b.lastEvent /\ act - n >= clock THEN act - n ELSE b.lastEvent]
        BY <1>3, <2>2, <2>5 DEF Restored
      <4> QED BY <2>2, <2>3, <3>1, <3>2, <4>1
    <3>a. [b EXCEPT !.tokens = t, !.last = clock, !.lastEvent = e] \in Bucket
      BY <1>1 DEF Bucket
    <3>b. PICK r \in Bucket : r = [b EXCEPT !.tokens = t, !.last = clock, !.lastEvent = e]
      BY <3>a
    <3>4. r = Restored(l, b, act, n) /\ r.tokens = t /\ r.last = clock /\ r.seen = b.seen
      BY <3>3, <3>b DEF Bucket
    <3>5. t <= Burst(l)
      <4>1. PICK m \in Int : m = k + back
        BY <2>2, <2>3
      <4>2. t = IF Burst(l) <= m THEN Burst(l) ELSE m
        BY <3>1, <4>1
      <4> QED BY <1>1, <4>2
    <3>6. Sound(l, r)
      BY <1>1, <3>4, <3>5 DEF Sound
    <3>7. ASSUME b.last = clock, b.lastEvent = act, b.tokens + n <= Burst(l)
          PROVE  t = b.tokens + n
      <4>1. back = n
        BY <2>1, <2>2, <3>7
      <4>2. k = b.tokens
        <5>1. b.tokens <= Burst(l) /\ b.tokens + (clock - b.last) = b.tokens /\ b.last <= clock
          BY <1>1, <3>7
        <5>2. k = IF Burst(l) <= b.tokens THEN Burst(l) ELSE b.tokens
          BY <2>3, <5>1
        <5> QED BY <1>1, <5>1, <5>2
      <4> QED BY <1>1, <3>1, <3>7, <4>1, <4>2
    <3> QED BY <3>4, <3>6, <3>7
  <2> QED BY <2>4, <2>5
<1> QED BY <1>2, <1>3

LEMMA RefuseStep ==
  ASSUME LimiterInv, NEW c \in Clients, Refuse(c)
  PROVE  LimiterInv'
<1>1. /\ calls \in [Clients -> Call] /\ CallInv(calls[c]) /\ AloneInv(calls[c]) /\ calls[c].pc = "cancel"
      /\ clock \in Clock /\ clock \in Nat /\ granted \in [Clock -> Nat] /\ crowded \in BOOLEAN
      /\ buckets \in [Layers -> Bucket \union {Nothing}]
  BY BatchesAssumption DEF LimiterInv, LimiterTypeOK, Refuse, Clock
<1>2. PICK l \in Layers, n \in Nat \ {0}, act \in Nat \union {Nothing} :
        /\ l = calls[c].layer /\ n = Cost(c) /\ n = CostAt(l, calls[c].batch) /\ act = calls[c].act
  BY <1>1, CostLaw
<1>3. buckets[l] # Nothing
  BY <1>1, <1>2 DEF CallInv
<1>4. PICK b \in Bucket : b = buckets[l] /\ Sound(l, b)
  BY <1>1, <1>3 DEF LimiterInv
<1>5. PICK b1 \in Bucket : /\ b1 = Restored(l, b, act, n) /\ Sound(l, b1) /\ b1.seen = b.seen
                           /\ act # Nothing /\ Reserved(calls[c])
                               => b1.tokens = b.tokens + n /\ b1.last = clock
  <2>1. PICK r : r = Restored(l, b, act, n)
    OBVIOUS
  <2>2. /\ r \in Bucket /\ Sound(l, r) /\ r.seen = b.seen
        /\ act # Nothing /\ b.last = clock /\ b.lastEvent = act /\ act >= clock /\ b.tokens + n <= Burst(l)
           => r.tokens = b.tokens + n /\ r.last = clock
    BY <1>1, <1>4, <2>1, RestoredLaw
  <2>3. Reserved(calls[c]) => b.last = clock /\ b.lastEvent = act /\ act >= clock /\ b.tokens + n <= Burst(l)
    BY <1>2, <1>4 DEF Reserved
  <2> QED BY <2>1, <2>2, <2>3
<1>6. PICK due \in Nat \union {Nothing} :
        /\ due = IF act = Nothing THEN Nothing ELSE clock + RetryAfter(Max({0, act - clock}))
        /\ act # Nothing => due \in Nat /\ due >= act
  <2>1. CASE act = Nothing
    BY <2>1
  <2>2. CASE act # Nothing
    <3>1. PICK d \in Nat : d = Max({0, act - clock}) /\ d >= act - clock
      <4>1. PICK z \in Int : z = act - clock
        BY <1>1, <2>2
      <4>2. Max({0, z}) = IF 0 >= z THEN 0 ELSE z
        BY MinMax
      <4> QED BY <4>1, <4>2
    <3>2. PICK w \in Nat : w = RetryAfter(d) /\ w > d
      BY RetryIsLater
    <3>3. clock + w \in Nat /\ clock + w >= act
      BY <1>1, <2>2, <3>1, <3>2
    <3> QED BY <2>2, <3>1, <3>2, <3>3
  <2> QED BY <2>1, <2>2
<1>a. [IdleCall EXCEPT !.batch = calls[c].batch, !.due = due, !.told = l, !.alone = calls[c].alone] \in Call
  <2>1. IdleCall \in Call
    BY BatchesAssumption DEF IdleCall, Call, Clock, Layers
  <2> QED BY <1>1, <2>1 DEF Call
<1>7. PICK q \in Call :
        q = [IdleCall EXCEPT !.batch = calls[c].batch, !.due = due, !.told = l, !.alone = calls[c].alone]
  BY <1>a
<1>8. /\ q.pc = "idle" /\ q.layer = "addr" /\ q.act = Nothing /\ q.batch = calls[c].batch /\ q.due = due
      /\ q.told = l /\ q.alone = calls[c].alone
  BY <1>7 DEF IdleCall
<1>9. /\ calls' = Disturb(c, [calls EXCEPT ![c] = q]) /\ granted' = granted /\ crowded' \in BOOLEAN /\ clock' = clock
      /\ buckets' = [buckets EXCEPT ![l] = b1]
  <2>1. granted' = granted /\ crowded' \in BOOLEAN /\ clock' = clock
    BY <1>1 DEF Refuse
  <2>2. buckets' = [buckets EXCEPT ![l] = Restored(l, buckets[l], act, n)]
    BY <1>2 DEF Refuse
  <2>3. calls' = Disturb(c, [calls EXCEPT ![c] = q])
    BY <1>2, <1>6, <1>7 DEF Refuse
  <2> QED BY <1>4, <1>5, <2>1, <2>2, <2>3
<1>10. buckets'[l] = b1
  BY <1>1, <1>9
<1>11. CallInv(q)'
  BY <1>8 DEF CallInv
<1>12. ASSUME q.alone, due # Nothing
       PROVE  Promised(q)'
  <2>1. act \in Nat /\ due \in Nat /\ due >= act /\ act # Nothing
    BY <1>6, <1>12, NothingIsNoBucket
  <2>2. /\ Reserved(calls[c])
    BY <1>1, <1>2, <1>8, <1>12, <2>1 DEF AloneInv
  <2>3. PICK k \in Int : k = b.tokens
    BY DEF Bucket
  <2>4. act >= clock /\ act - clock >= -k /\ k + n <= Burst(l) /\ n <= Burst(l)
    BY <1>2, <1>4, <2>2, <2>3 DEF Reserved
  <2>5. b1.tokens = k + n /\ b1.last = clock
    <3>1. b1.tokens = b.tokens + n /\ b1.last = clock
      BY <1>5, <2>1, <2>2
    <3> QED BY <2>3, <3>1
  <2>6. (k + n) + (due - clock) >= n
    BY <1>1, <1>2, <2>1, <2>3, <2>4
  <2> QED BY <1>2, <1>8, <1>10, <2>4, <2>5, <2>6 DEF Promised
<1>13. AloneInv(q)'
  BY <1>8, <1>12 DEF AloneInv
<1>14. Sound(l, b1) /\ (buckets[l] # Nothing => b1.seen \in {clock, buckets[l].seen})
  BY <1>4, <1>5
<1> QED BY <1>1, <1>9, <1>11, <1>13, <1>14, CallStep

LEMMA LimiterStart == LimiterInit => LimiterInv
<1> SUFFICES ASSUME LimiterInit PROVE LimiterInv
  OBVIOUS
<1>1. IdleCall \in Call /\ [IdleCall EXCEPT !.pc = "off"] \in Call
  <2>1. IdleCall \in Call
    BY BatchesAssumption DEF IdleCall, Call, Clock, Layers
  <2> QED BY <2>1 DEF Call
<1>2. LimiterTypeOK
  <2>1. crowded \in BOOLEAN
    BY DEF LimiterInit
  <2>2. /\ buckets \in [Layers -> Bucket \union {Nothing}] /\ calls \in [Clients -> Call]
        /\ granted \in [Clock -> Nat] /\ clock \in Clock
    BY <1>1, BatchesAssumption DEF LimiterInit, Clock
  <2>3. \A l \in Layers : buckets[l] = Nothing
    BY DEF LimiterInit
  <2> QED BY <2>1, <2>2, <2>3 DEF LimiterTypeOK
<1>3. ASSUME NEW c \in Clients
      PROVE  calls[c].pc \in {"idle", "off"} /\ calls[c].layer = "addr" /\ calls[c].act = Nothing
             /\ calls[c].told = Nothing
  BY DEF LimiterInit, IdleCall
<1>4. \A c \in Clients : CallInv(calls[c]) /\ AloneInv(calls[c])
  BY <1>3 DEF CallInv, AloneInv
<1>5. \A l \in Layers : Sound(l, buckets[l])
  BY DEF LimiterInit, Sound
<1> QED BY <1>2, <1>4, <1>5 DEF LimiterInv

LEMMA LimiterStep == LimiterInv /\ [LimiterNext]_limiterVars => LimiterInv'
<1> SUFFICES ASSUME LimiterInv, [LimiterNext]_limiterVars PROVE LimiterInv'
  OBVIOUS
<1>1. CASE \E c \in Clients : Arrive(c) \/ Take(c) \/ Reserve(c) \/ Refuse(c)
  BY <1>1, ArriveStep, TakeStep, ReserveStep, RefuseStep
<1>2. CASE Sweep
  <2>1. /\ UNCHANGED <<calls, granted, crowded, clock>> /\ clock \in Clock /\ clock \in Nat
        /\ buckets \in [Layers -> Bucket \union {Nothing}]
    BY <1>2, BatchesAssumption DEF Sweep, LimiterInv, LimiterTypeOK, Clock
  <2>2. \A l \in Layers : \/ buckets'[l] = buckets[l]
                          \/ buckets'[l] = Nothing /\ (buckets[l] # Nothing => buckets[l].seen # clock)
    <3> SUFFICES ASSUME NEW l \in Layers, buckets[l] # Nothing, buckets'[l] # buckets[l]
                 PROVE  buckets'[l] = Nothing /\ buckets[l].seen # clock
      BY <1>2 DEF Sweep
    <3>1. buckets'[l] = Nothing /\ buckets[l].seen + LimiterTTL < clock
      BY <1>2 DEF Sweep
    <3>2. buckets[l].seen \in Nat /\ LimiterTTL \in Nat
      BY <2>1, Bursts, BatchesAssumption DEF Bucket, Clock
    <3> QED BY <2>1, <3>1, <3>2
  <2>3. LimiterTypeOK' /\ \A l \in Layers : Sound(l, buckets[l])'
    <3>1. buckets' \in [Layers -> Bucket \union {Nothing}]
      BY <1>2, <2>1 DEF Sweep
    <3> QED BY <2>1, <2>2, <3>1 DEF LimiterInv, LimiterTypeOK, Sound
  <2>4. ASSUME NEW c \in Clients
        PROVE  CallInv(calls[c])' /\ AloneInv(calls[c])'
    <3>1. calls[c] \in Call /\ calls'[c] = calls[c] /\ CallInv(calls[c]) /\ AloneInv(calls[c])
      BY <2>1 DEF LimiterInv, LimiterTypeOK
    <3>2. calls[c].layer \in Layers /\ calls[c].told \in Layers \union {Nothing}
      BY <3>1 DEF Call
    <3>3. calls[c].pc \in {"reserve", "cancel"} => buckets'[calls[c].layer] = buckets[calls[c].layer]
      BY <2>2, <3>1, <3>2 DEF CallInv
    <3>4. CallInv(calls[c])'
      BY <2>1, <3>1, <3>3 DEF CallInv
    <3>5. calls[c].told # Nothing => buckets'[calls[c].told] \in {Nothing, buckets[calls[c].told]}
      BY <2>2, <3>2
    <3>6. calls[c].told # Nothing /\ Promised(calls[c]) => Promised(calls[c])'
      BY <2>1, <3>5 DEF Promised
    <3>7. calls[c].pc = "cancel" /\ Reserved(calls[c]) => Reserved(calls[c])'
      BY <2>1, <3>3 DEF Reserved
    <3>8. AloneInv(calls[c])'
      BY <2>1, <3>1, <3>6, <3>7 DEF AloneInv
    <3> QED BY <3>4, <3>8
  <2> QED BY <2>3, <2>4 DEF LimiterInv
<1>3. CASE Pass
  <2>1. /\ UNCHANGED <<buckets, calls, granted, crowded>> /\ clock' = clock + 1 /\ clock' \in Clock /\ clock \in Nat
        /\ \A c \in Clients : calls[c].pc \notin {"reserve", "cancel"}
    BY <1>3, BatchesAssumption DEF Pass, LimiterInv, LimiterTypeOK, Clock
  <2>2. LimiterTypeOK'
    BY <2>1 DEF LimiterInv, LimiterTypeOK
  <2>3. ASSUME NEW l \in Layers
        PROVE  Sound(l, buckets[l])'
    <3>1. buckets[l] # Nothing => buckets[l].last \in Nat
      BY BatchesAssumption DEF LimiterInv, LimiterTypeOK, Bucket, Clock
    <3> QED BY <2>1, <3>1 DEF Sound, LimiterInv
  <2>4. ASSUME NEW c \in Clients
        PROVE  CallInv(calls[c])' /\ AloneInv(calls[c])'
    <3>1. calls[c] \in Call /\ calls'[c] = calls[c] /\ CallInv(calls[c]) /\ AloneInv(calls[c])
      BY <2>1 DEF LimiterInv, LimiterTypeOK
    <3>2. calls[c].due # Nothing => calls[c].due \in Nat
      BY <3>1 DEF Call
    <3>3. CallInv(calls[c])'
      BY <2>1, <3>1, <3>2 DEF CallInv
    <3>4. AloneInv(calls[c])'
      BY <2>1, <3>1 DEF AloneInv, Promised
    <3> QED BY <3>3, <3>4
  <2> QED BY <2>2, <2>3, <2>4 DEF LimiterInv
<1>4. CASE UNCHANGED limiterVars
  BY <1>4 DEF limiterVars, LimiterInv, LimiterTypeOK, Sound, CallInv, AloneInv, Promised, Reserved
<1> QED BY <1>1, <1>2, <1>3, <1>4 DEF LimiterNext

\* A client that was refused while nobody else used its buckets, waits for as long
\* as Retry-After says and asks again, is not refused by the bucket that told it
\* to wait, swept or not in between (ratelimit.go:289-299, :452-464).
THEOREM RetriesAreServed == LimiterSpec => []RetryIsServed
<1>1. LimiterInv => RetryIsServed
  BY DEF LimiterInv, RetryIsServed, AloneInv
<1> QED BY <1>1, LimiterStart, LimiterStep, PTL DEF LimiterSpec

\* No bucket ever holds more tokens than its burst, whatever is given back to it by
\* reservations cancelled late or after others (ratelimit.go:270-299).
THEOREM BucketsAreBounded == LimiterSpec => []LimiterTypeOK
<1>1. LimiterInv => LimiterTypeOK
  BY DEF LimiterInv
<1> QED BY <1>1, LimiterStart, LimiterStep, PTL DEF LimiterSpec
-----------------------------------------------------------------------------
(* The budget.                                                             *)

\* What the user's bucket holds now, what is reserved of it, and what it gave.
Level == IF buckets["user"] = Nothing THEN UserBurst ELSE TokensAt("user", buckets["user"], clock)
Holding == [c \in Clients |-> IF Holds(c) THEN Cost(c) ELSE 0]
Held == Sum(Holding, Clients)
Served(from, to) == Sum(granted, from..to)

\* Nothing is granted in the future, nor since the bucket was last looked at.
GrantsAreSeen ==
  /\ \A t \in Clock : t > clock => granted[t] = 0
  /\ buckets["user"] # Nothing =>
       /\ buckets["user"].seen <= clock
       /\ \A t \in Clock : t > buckets["user"].seen => granted[t] = 0

Within == \A from \in Clock : \A to \in Clock : from <= to => Served(from, to) <= UserBurst + (to - from)

\* What was given, is left and is to be given back is within the budget, too.
LeftWithin ==
  \A from \in Clock : \A to \in Clock : from <= clock /\ clock <= to =>
    Served(from, to) + Level + Held <= UserBurst + (clock - from)

\* A reservation acts when the debt is paid at the latest, and no later than
\* lastEvent; one of several is of one token, and acts at a time of its own.
Acts(c) ==
  Holds(c) =>
    /\ calls[c].act >= clock /\ (calls[c].act = clock \/ calls[c].act - clock <= -Level)
    /\ calls[c].act <= buckets["user"].lastEvent
    /\ \A d \in Clients \ {c} : Holds(d) =>
         Cost(c) = 1 /\ (calls[c].act = clock \/ calls[d].act = clock \/ calls[c].act # calls[d].act)

BudgetInv ==
  /\ GrantsAreSeen
  /\ ~crowded => Within /\ LeftWithin /\ \A c \in Clients : Acts(c)


LEMMA TickSets ==
  ASSUME NEW from \in Clock, NEW to \in Clock
  PROVE  from..to \in SUBSET Clock /\ IsFiniteSet(from..to) /\ from \in Nat /\ to \in Nat
<1>1. from \in Nat /\ to \in Nat /\ LastTick \in Nat
  BY BatchesAssumption DEF Clock
<1>2. IsFiniteSet(from..to)
  BY <1>1, FS_Interval
<1> QED BY <1>1, <1>2 DEF Clock

LEMMA ServedType ==
  ASSUME LimiterInv, NEW from \in Clock, NEW to \in Clock
  PROVE  Served(from, to) \in Nat
<1>1. granted \in [Clock -> Int] /\ \A t \in Clock : granted[t] >= 0
  BY DEF LimiterInv, LimiterTypeOK
<1> QED BY <1>1, TickSets, SumNat DEF Served

LEMMA LevelType ==
  ASSUME LimiterInv
  PROVE  /\ Level \in Int /\ Level <= UserBurst /\ clock \in Clock /\ clock \in Nat
         /\ Burst("user") = UserBurst /\ UserBurst \in Nat \ {0} /\ "user" \in Layers
<1>1. Burst("user") = UserBurst /\ "user" \in Layers /\ UserBurst \in Nat \ {0}
  BY BurstsAssumption DEF Burst, Layers
<1>2. clock \in Clock /\ clock \in Nat
  BY BatchesAssumption DEF LimiterInv, LimiterTypeOK, Clock
<1>3. buckets["user"] # Nothing => buckets["user"] \in Bucket
  BY <1>1 DEF LimiterInv, LimiterTypeOK
<1> QED BY <1>1, <1>2, <1>3, TokensLaw DEF Level

LEMMA HeldType ==
  ASSUME LimiterInv
  PROVE  /\ Holding \in [Clients -> Int] /\ Held \in Nat
         /\ (\A c \in Clients : ~Holds(c)) => Held = 0
<1>1. \A c \in Clients : Holding[c] \in Nat
  BY CostLaw DEF LimiterInv, LimiterTypeOK, Holding
<1>2. Holding \in [Clients -> Int] /\ \A c \in Clients : Holding[c] >= 0
  BY <1>1 DEF Holding
<1>3. Held \in Nat
  BY <1>2, ClientsAssumption, SumNat DEF Held
<1>4. ASSUME \A c \in Clients : ~Holds(c)
      PROVE  Held = 0
  <2>1. \A c \in Clients \ {} : Holding[c] = 0
    BY <1>4 DEF Holding
  <2>2. Sum(Holding, Clients) = Sum(Holding, {})
    BY <1>2, <2>1, ClientsAssumption, SumSupport
  <2> QED BY <2>2, SumEmpty DEF Held
<1> QED BY <1>2, <1>3, <1>4

\* The bucket a reservation is held in is there, and was looked at in this tick.
LEMMA HolderSees ==
  ASSUME LimiterInv, NEW c \in Clients, Holds(c)
  PROVE  /\ buckets["user"] # Nothing /\ buckets["user"].seen = clock /\ buckets["user"] \in Bucket
         /\ calls[c].act \in Nat /\ Cost(c) \in Nat \ {0}
<1>1. calls[c] \in Call /\ CallInv(calls[c]) /\ calls[c].pc = "cancel" /\ calls[c].layer = "user"
      /\ calls[c].act # Nothing
  BY DEF LimiterInv, LimiterTypeOK, Holds
<1>2. calls[c].act \in Nat /\ Cost(c) \in Nat \ {0}
  BY <1>1, CostLaw
<1>3. buckets["user"] # Nothing /\ buckets["user"].seen = clock
  BY <1>1 DEF CallInv
<1> QED BY <1>2, <1>3, LevelType DEF LimiterInv, LimiterTypeOK

\* A step of one call leaves what the others hold.
LEMMA OthersHold ==
  ASSUME LimiterInv, NEW c \in Clients, NEW f \in [Clients -> Call], \A d \in Clients \ {c} : f[d] = calls[d],
         calls' = Disturb(c, f)
  PROVE  /\ calls'[c] = f[c]
         /\ \A d \in Clients \ {c} :
              /\ Holds(d)' <=> Holds(d)
              /\ Cost(d)' = Cost(d) /\ calls'[d].act = calls[d].act
<1>1. calls'[c] = f[c]
  BY DEF Disturb
<1>2. ASSUME NEW d \in Clients \ {c}
      PROVE  calls'[d].pc = calls[d].pc /\ calls'[d].layer = calls[d].layer /\ calls'[d].act = calls[d].act
             /\ calls'[d].batch = calls[d].batch
  <2>1. calls'[d] = [calls[d] EXCEPT !.alone = FALSE] /\ calls[d] \in Call
    BY <1>2 DEF Disturb
  <2> QED BY <2>1 DEF Call
<1> QED BY <1>1, <1>2 DEF Holds, Cost

\* A step that leaves what the user's bucket holds and what is reserved of it.
LEMMA BudgetKept ==
  ASSUME LimiterInv, BudgetInv, clock' = clock, granted' = granted, crowded' = crowded, Level' = Level,
         \A c \in Clients : /\ Holds(c)' <=> Holds(c)
                            /\ Holds(c) => Cost(c)' = Cost(c) /\ calls'[c].act = calls[c].act
                                           /\ buckets'["user"].lastEvent = buckets["user"].lastEvent,
         buckets'["user"] # Nothing =>
           \/ buckets'["user"].seen = clock
           \/ buckets["user"] # Nothing /\ buckets'["user"].seen = buckets["user"].seen
  PROVE  BudgetInv'
<1>1. Holding' = Holding
  BY DEF Holding
<1>2. Held' = Held
  BY <1>1 DEF Held
<1>3. GrantsAreSeen'
  BY LevelType DEF BudgetInv, GrantsAreSeen
<1>4. Within => Within'
  BY DEF Within, Served
<1>5. LeftWithin => LeftWithin'
  BY <1>2 DEF LeftWithin, Served
<1>6. ASSUME NEW c \in Clients, \A d \in Clients : Acts(d)
      PROVE  Acts(c)'
  BY <1>6 DEF Acts
<1> QED BY <1>3, <1>4, <1>5, <1>6 DEF BudgetInv


LEMMA ArriveBudget ==
  ASSUME LimiterInv, BudgetInv, NEW c \in Clients, Arrive(c)
  PROVE  BudgetInv'
<1>1. UNCHANGED <<buckets, granted, crowded, clock>> /\ calls \in [Clients -> Call] /\ calls[c].pc = "idle"
  BY DEF Arrive, LimiterInv, LimiterTypeOK
<1>2. calls'[c].pc = "take" /\ \A d \in Clients \ {c} : calls'[d] = calls[d]
  <2>1. CASE \E n \in Batches : calls' = [calls EXCEPT ![c] = [IdleCall EXCEPT !.pc = "take", !.batch = n,
                                           !.alone = \A d \in Clients \ {c} : ~InFlight(d)]]
    BY <1>1, <2>1 DEF IdleCall
  <2>2. CASE calls' = [calls EXCEPT ![c].pc = "take"]
    BY <1>1, <2>2 DEF Call
  <2> QED BY <2>1, <2>2 DEF Arrive
<1>3. \A d \in Clients : /\ Holds(d)' <=> Holds(d)
                         /\ Holds(d) => Cost(d)' = Cost(d) /\ calls'[d].act = calls[d].act
  BY <1>1, <1>2 DEF Holds, Cost
<1>4. Level' = Level
  BY <1>1 DEF Level, TokensAt
<1> QED BY <1>1, <1>3, <1>4, BudgetKept

\* Looking for the user's bucket, making it when there is none, gives it nothing.
LEMMA FoundLevel ==
  ASSUME LimiterInv
  PROVE  TokensAt("user", Found("user"), clock) = Level
<1>1. /\ Found("user") \in Bucket /\ Sound("user", Found("user")) /\ Found("user") # Nothing
      /\ buckets["user"] = Nothing => Found("user").tokens = Burst("user") /\ Found("user").last = clock
      /\ buckets["user"] # Nothing =>
           Found("user").tokens = buckets["user"].tokens /\ Found("user").last = buckets["user"].last
  BY FoundLaw, LevelType
<1>2. CASE buckets["user"] = Nothing
  <2>1. TokensAt("user", Found("user"), clock) =
          IF Burst("user") <= UserBurst + (clock - clock) THEN Burst("user") ELSE UserBurst + (clock - clock)
    BY <1>1, <1>2, LevelType, TokensLaw
  <2> QED BY <1>2, <2>1, LevelType DEF Level
<1>3. CASE buckets["user"] # Nothing
  BY <1>1, <1>3 DEF Level, TokensAt
<1> QED BY <1>2, <1>3

LEMMA TakeBudget ==
  ASSUME LimiterInv, BudgetInv, NEW c \in Clients, Take(c)
  PROVE  BudgetInv'
<1>1. /\ calls \in [Clients -> Call] /\ calls[c] \in Call /\ calls[c].pc = "take"
      /\ buckets \in [Layers -> Bucket \union {Nothing}] /\ clock' = clock /\ crowded' = crowded
  BY DEF LimiterInv, LimiterTypeOK, Take
<1>2. PICK l \in Layers, n \in Nat \ {0} : l = calls[c].layer /\ n = Cost(c)
  BY <1>1, CostLaw
<1>3. PICK b \in Bucket : b = Found(l) /\ Sound(l, b) /\ b.seen = clock /\ b # Nothing
  BY FoundLaw
<1>4. ASSUME NEW f \in [Clients -> Call], \A d \in Clients \ {c} : f[d] = calls[d], f[c].pc # "cancel",
             calls' = Disturb(c, f)
      PROVE  \A d \in Clients : /\ Holds(d)' <=> Holds(d)
                                /\ Holds(d) => Cost(d)' = Cost(d) /\ calls'[d].act = calls[d].act
  <2>1. ~Holds(c) /\ ~Holds(c)'
    BY <1>1, <1>4, OthersHold DEF Holds
  <2> QED BY <1>4, <2>1, OthersHold
<1>5. CASE ~Allows(l, n)
  <2>1. /\ granted' = granted /\ buckets' = [buckets EXCEPT ![l] = b]
        /\ calls' = Disturb(c, [calls EXCEPT ![c].pc = "reserve", ![c].at = clock])
    BY <1>2, <1>3, <1>5 DEF Take
  <2>2. PICK f : f = [calls EXCEPT ![c].pc = "reserve", ![c].at = clock]
    OBVIOUS
  <2>3. /\ f \in [Clients -> Call] /\ \A d \in Clients \ {c} : f[d] = calls[d]
        /\ f[c].pc = "reserve"
    BY <1>1, <2>2, LevelType DEF Call
  <2>4. \A d \in Clients : /\ Holds(d)' <=> Holds(d)
                           /\ Holds(d) => Cost(d)' = Cost(d) /\ calls'[d].act = calls[d].act
    BY <1>4, <2>1, <2>2, <2>3
  <2>5. CASE l = "addr"
    <3>1. buckets'["user"] = buckets["user"]
      BY <1>1, <2>1, <2>5 DEF Layers
    <3>2. Level' = Level
      BY <1>1, <3>1 DEF Level, TokensAt
    <3> QED BY <1>1, <2>1, <2>4, <3>1, <3>2, BudgetKept
  <2>6. CASE l = "user"
    <3>1. buckets'["user"] = b
      BY <1>1, <2>1, <2>6
    <3>2. Level' = Level
      <4>1. Level' = TokensAt("user", b, clock)
        BY <1>1, <1>3, <3>1 DEF Level, TokensAt
      <4> QED BY <1>3, <2>6, <4>1, FoundLevel
    <3>3. ASSUME NEW d \in Clients, Holds(d)
          PROVE  b.lastEvent = buckets["user"].lastEvent
      <4>1. buckets["user"] # Nothing /\ buckets["user"] \in Bucket
        BY <3>3, HolderSees
      <4>2. b = [buckets["user"] EXCEPT !.seen = clock]
        BY <1>3, <2>6, <4>1 DEF Found
      <4> QED BY <4>1, <4>2 DEF Bucket
    <3> QED BY <1>1, <1>3, <2>1, <2>4, <3>1, <3>2, <3>3, BudgetKept
  <2> QED BY <2>5, <2>6 DEF Layers
<1>6. CASE Allows(l, n) /\ l = "addr"
  <2>1. /\ granted' = granted /\ calls' = Disturb(c, [calls EXCEPT ![c].layer = "user"])
        /\ \E x : buckets' = [buckets EXCEPT !["addr"] = x]
    BY <1>2, <1>6 DEF Take
  <2>2. PICK f : f = [calls EXCEPT ![c].layer = "user"]
    OBVIOUS
  <2>3. f \in [Clients -> Call] /\ (\A d \in Clients \ {c} : f[d] = calls[d]) /\ f[c].pc = "take"
    BY <1>1, <2>2, LevelType DEF Call
  <2>4. buckets'["user"] = buckets["user"]
    BY <1>1, <2>1 DEF Layers
  <2>5. Level' = Level
    BY <1>1, <2>4 DEF Level, TokensAt
  <2> QED BY <1>1, <1>4, <2>1, <2>2, <2>3, <2>4, <2>5, BudgetKept
<1>7. CASE Allows(l, n) /\ l = "user"
  <2>1. PICK k \in Int : k = Level /\ k = TokensAt("user", b, clock) /\ k >= n /\ k <= UserBurst
    BY <1>3, <1>7, FoundLevel, LevelType DEF Allows
  <2>2. PICK m \in Nat : m = calls[c].batch /\ m <= n
    <3>1. calls[c].batch \in Nat
      <4>1. PICK j \in Batches \union {0} : j = calls[c].batch
        BY <1>1 DEF Call
      <4>2. j \in Nat
        BY BatchesAssumption
      <4> QED BY <4>1, <4>2
    <3>2. calls[c].batch <= n
      BY <1>2, <1>7, <3>1 DEF Cost
    <3> QED BY <3>1, <3>2
  <2>3. PICK x \in Int : x = k - n
    BY <1>2, <2>1
  <2>4. /\ granted' = [granted EXCEPT ![clock] = @ + m] /\ calls' = Disturb(c, [calls EXCEPT ![c] = IdleCall])
        /\ buckets' = [buckets EXCEPT !["user"] = [b EXCEPT !.tokens = x, !.last = clock, !.lastEvent = clock]]
    BY <1>2, <1>3, <1>7, <2>1, <2>2, <2>3 DEF Take
  <2>5. [b EXCEPT !.tokens = x, !.last = clock, !.lastEvent = clock] \in Bucket
    BY LevelType DEF Bucket
  <2>6. PICK b1 \in Bucket : b1 = [b EXCEPT !.tokens = x, !.last = clock, !.lastEvent = clock]
    BY <2>5
  <2>7. b1.tokens = x /\ b1.last = clock /\ b1.lastEvent = clock /\ b1.seen = clock /\ b1 # Nothing
    BY <1>3, <2>6, NothingIsNoBucket DEF Bucket
  <2>8. buckets'["user"] = b1
    BY <1>1, <1>7, <2>4, <2>6
  <2>9. Level' = x
    <3>1. Level' = TokensAt("user", b1, clock)
      BY <1>1, <2>7, <2>8 DEF Level, TokensAt
    <3>2. TokensAt("user", b1, clock) = IF UserBurst <= x + (clock - clock) THEN UserBurst ELSE x + (clock - clock)
      BY <2>7, LevelType, TokensLaw
    <3> QED BY <1>2, <2>1, <2>3, <3>1, <3>2, LevelType
  <2>10. \A d \in Clients : /\ Holds(d)' <=> Holds(d)
                            /\ Holds(d) => Cost(d)' = Cost(d) /\ calls'[d].act = calls[d].act
    <3>1. IdleCall \in Call /\ IdleCall.pc = "idle"
      BY BatchesAssumption DEF IdleCall, Call, Clock, Layers
    <3>2. PICK f \in [Clients -> Call] : f = [calls EXCEPT ![c] = IdleCall]
      BY <1>1, <3>1
    <3>3. (\A d \in Clients \ {c} : f[d] = calls[d]) /\ f[c].pc = "idle"
      BY <1>1, <3>1, <3>2
    <3> QED BY <1>4, <2>4, <3>2, <3>3
  <2>11. Held' = Held
    <3>1. Holding' = Holding
      BY <2>10 DEF Holding
    <3> QED BY <3>1 DEF Held
  <2>12. granted \in [Clock -> Int] /\ granted' \in [Clock -> Int] /\ granted[clock] \in Nat
         /\ granted'[clock] = granted[clock] + m /\ \A t \in Clock \ {clock} : granted'[t] = granted[t]
    BY <2>4, LevelType DEF LimiterInv, LimiterTypeOK
  <2>a. PICK g \in [Clock -> Int] : g = granted'
    BY <2>12
  <2>b. granted \in [Clock -> Int]
    BY <2>12
  <2>13. ASSUME NEW from \in Clock, NEW to \in Clock
         PROVE  Served(from, to)' = IF from <= clock /\ clock <= to THEN Served(from, to) + m ELSE Served(from, to)
    <3>a. PICK S \in SUBSET Clock : S = from..to /\ IsFiniteSet(S)
      BY TickSets
    <3>b. IsFiniteSet(S)
      BY <3>a
    <3>1. CASE from <= clock /\ clock <= to
      <4>1. clock \in S
        BY <3>1, <3>a, TickSets, LevelType
      <4>2. \A t \in S \ {clock} : g[t] = granted[t]
        BY <2>12, <2>a
      <4>3. Sum(g, S) = Sum(granted, S) + g[clock] - granted[clock]
        BY <2>b, <3>b, <4>1, <4>2, SumUpdate
      <4>4. Served(from, to)' = Served(from, to) + (granted[clock] + m) - granted[clock]
        BY <2>12, <2>a, <3>a, <4>3 DEF Served
      <4> QED BY <2>12, <3>1, <4>4, ServedType
    <3>2. CASE ~(from <= clock /\ clock <= to)
      <4>1. clock \notin S
        BY <3>2, <3>a, TickSets, LevelType
      <4>2. \A t \in S : granted[t] = g[t]
        BY <2>12, <2>a, <4>1
      <4>3. Sum(granted, S) = Sum(g, S)
        BY <2>b, <3>b, <4>2, SumAgree
      <4> QED BY <2>a, <3>2, <3>a, <4>3 DEF Served
    <3> QED BY <3>1, <3>2
  <2>14. GrantsAreSeen'
    BY <1>1, <2>7, <2>8, <2>12, LevelType DEF BudgetInv, GrantsAreSeen, Clock
  <2>15. ASSUME LeftWithin, NEW from \in Clock, NEW to \in Clock, from <= clock, clock <= to
         PROVE  Served(from, to)' + Level' + Held' <= UserBurst + (clock - from)
    <3>1. PICK s \in Nat, h \in Nat : s = Served(from, to) /\ h = Held
      BY ServedType, HeldType
    <3>2. s + k + h <= UserBurst + (clock - from) /\ Served(from, to)' = s + m
      BY <2>1, <2>13, <2>15, <3>1 DEF LeftWithin
    <3>3. (s + m) + x + h <= s + k + h
      BY <1>2, <2>1, <2>2, <2>3, <3>1
    <3>4. PICK r \in Int : r = UserBurst + (clock - from)
      BY LevelType, TickSets
    <3>5. (s + m) + x + h <= r
      BY <1>2, <2>1, <2>2, <2>3, <3>1, <3>2, <3>3, <3>4
    <3> QED BY <2>9, <2>11, <3>1, <3>2, <3>4, <3>5
  <2>16. LeftWithin => LeftWithin'
    BY <1>1, <2>15 DEF LeftWithin
  <2>17. ASSUME Within, LeftWithin, NEW from \in Clock, NEW to \in Clock, from <= to
         PROVE  Served(from, to)' <= UserBurst + (to - from)
    <3>1. CASE from <= clock /\ clock <= to
      <4>1. PICK s \in Int : s = Served(from, to)'
        BY <2>13, <2>17, <3>1, ServedType
      <4>2. s + x + Held <= UserBurst + (clock - from)
        BY <2>9, <2>11, <2>15, <2>17, <3>1, <4>1
      <4>3. x >= 0 /\ Held \in Nat
        BY <1>2, <2>1, <2>3, HeldType
      <4> QED BY <2>3, <3>1, <4>1, <4>2, <4>3, LevelType, TickSets
    <3>2. CASE ~(from <= clock /\ clock <= to)
      BY <2>13, <2>17, <3>2 DEF Within
    <3> QED BY <3>1, <3>2
  <2>18. Within /\ LeftWithin => Within'
    BY <2>17 DEF Within
  <2>19. ASSUME NEW d \in Clients, Acts(d)
         PROVE  Acts(d)'
    <3> SUFFICES ASSUME Holds(d) PROVE Acts(d)'
      BY <2>10 DEF Acts
    <3>1. calls[d].act = clock
      <4>1. PICK a \in Nat : a = calls[d].act
        BY HolderSees
      <4>2. a >= clock /\ (a = clock \/ a - clock <= -k)
        BY <2>1, <2>19, <4>1 DEF Acts
      <4> QED BY <1>2, <2>1, <4>1, <4>2, LevelType
    <3>2. calls'[d].act = clock' /\ buckets'["user"].lastEvent = clock' /\ clock \in Nat
      BY <1>1, <2>7, <2>8, <2>10, <3>1, LevelType
    <3>3. \A e \in Clients \ {d} : Holds(e)' => Cost(d)' = 1
      BY <2>10, <2>19 DEF Acts
    <3> QED BY <1>1, <3>2, <3>3 DEF Acts
  <2> QED BY <1>1, <2>14, <2>16, <2>18, <2>19 DEF BudgetInv
<1> QED BY <1>5, <1>6, <1>7 DEF Layers


LEMMA ReserveBudget ==
  ASSUME LimiterInv, BudgetInv, NEW c \in Clients, Reserve(c)
  PROVE  BudgetInv'
<1>1. /\ calls \in [Clients -> Call] /\ calls[c] \in Call /\ CallInv(calls[c]) /\ calls[c].pc = "reserve"
      /\ buckets \in [Layers -> Bucket \union {Nothing}] /\ clock' = clock /\ granted' = granted
  BY DEF LimiterInv, LimiterTypeOK, Reserve
<1>2. PICK l \in Layers, n \in Nat \ {0} : l = calls[c].layer /\ n = Cost(c)
  BY <1>1, CostLaw
<1>3. buckets[l] # Nothing /\ calls[c].at = clock /\ buckets[l].seen = clock /\ calls[c].act = Nothing
  BY <1>1, <1>2 DEF CallInv
<1>4. PICK b \in Bucket : b = buckets[l]
  BY <1>1, <1>3
<1>5. ASSUME NEW f \in [Clients -> Call], \A d \in Clients \ {c} : f[d] = calls[d], ~(f[c].layer = "user" /\ f[c].act # Nothing),
             calls' = Disturb(c, f)
      PROVE  \A d \in Clients : /\ Holds(d)' <=> Holds(d)
                                /\ Holds(d) => Cost(d)' = Cost(d) /\ calls'[d].act = calls[d].act
  <2>1. ~Holds(c) /\ ~Holds(c)'
    BY <1>1, <1>5, OthersHold DEF Holds
  <2> QED BY <1>5, <2>1, OthersHold
<1>6. CASE n > Burst(l)
  <2>1. /\ buckets' = buckets /\ crowded' = crowded
        /\ calls' = Disturb(c, [calls EXCEPT ![c].pc = "cancel"])
    BY <1>2, <1>6 DEF Reserve
  <2>2. PICK f : f = [calls EXCEPT ![c].pc = "cancel"]
    OBVIOUS
  <2>3. f \in [Clients -> Call] /\ (\A d \in Clients \ {c} : f[d] = calls[d]) /\ f[c].act = Nothing
    BY <1>1, <1>3, <2>2 DEF Call
  <2>4. Level' = Level
    BY <1>1, <2>1 DEF Level, TokensAt
  <2> QED BY <1>1, <1>5, <2>1, <2>2, <2>3, <2>4, BudgetKept
<1>7. CASE ~(n > Burst(l))
  <2>1. PICK k \in Int : k = TokensAt(l, b, clock)
    BY LevelType, TokensLaw
  <2>2. PICK left \in Int : left = k - n
    BY <1>2, <2>1
  <2>3. PICK act \in Nat : act = clock + Max({0, -left}) /\ act = IF left >= 0 THEN clock ELSE clock - left
    <3>1. PICK z \in Int : z = -left
      OBVIOUS
    <3>2. Max({0, z}) = IF 0 >= z THEN 0 ELSE z
      BY MinMax
    <3> QED BY <3>1, <3>2, LevelType
  <2>4. /\ crowded' = (crowded \/ Crowds(c))
        /\ calls' = Disturb(c, [calls EXCEPT ![c].pc = "cancel", ![c].act = act])
        /\ buckets' = [buckets EXCEPT ![l] = [b EXCEPT !.tokens = left, !.last = clock, !.lastEvent = act]]
    BY <1>2, <1>3, <1>4, <1>7, <2>1, <2>2, <2>3 DEF Reserve
  <2>5. PICK f : f = [calls EXCEPT ![c].pc = "cancel", ![c].act = act]
    OBVIOUS
  <2>6. /\ f \in [Clients -> Call] /\ \A d \in Clients \ {c} : f[d] = calls[d]
        /\ f[c].pc = "cancel" /\ f[c].act = act /\ f[c].layer = l /\ f[c].batch = calls[c].batch
    BY <1>1, <1>2, <2>5 DEF Call
  <2>7. CASE l = "addr"
    <3>1. buckets'["user"] = buckets["user"]
      BY <1>1, <2>4, <2>7 DEF Layers
    <3>2. Level' = Level
      BY <1>1, <3>1 DEF Level, TokensAt
    <3>3. crowded' = crowded
      BY <1>2, <2>4, <2>7, LevelType DEF Crowds, LimiterInv, LimiterTypeOK
    <3>4. f[c].layer # "user"
      BY <2>6, <2>7
    <3> QED BY <1>1, <1>5, <2>4, <2>5, <2>6, <3>1, <3>2, <3>3, <3>4, BudgetKept
  <2>8. CASE l = "user"
    <3>1. [b EXCEPT !.tokens = left, !.last = clock, !.lastEvent = act] \in Bucket
      BY LevelType DEF Bucket
    <3>2. PICK b1 \in Bucket : b1 = [b EXCEPT !.tokens = left, !.last = clock, !.lastEvent = act]
      BY <3>1
    <3>3. b1.tokens = left /\ b1.last = clock /\ b1.lastEvent = act /\ b1.seen = clock /\ b1 # Nothing
      BY <1>3, <1>4, <3>2, NothingIsNoBucket DEF Bucket
    <3>4. buckets'["user"] = b1
      BY <1>1, <2>4, <2>8, <3>2
    <3>5. k = Level /\ k <= UserBurst
      BY <1>3, <1>4, <2>1, <2>8, LevelType DEF Level
    <3>6. Level' = left
      <4>1. Level' = TokensAt("user", b1, clock)
        BY <1>1, <3>3, <3>4 DEF Level, TokensAt
      <4>2. TokensAt("user", b1, clock) = IF UserBurst <= left + (clock - clock) THEN UserBurst ELSE left + (clock - clock)
        BY <3>3, LevelType, TokensLaw
      <4> QED BY <1>2, <2>2, <3>5, <4>1, <4>2, LevelType
    <3>7. /\ ~Holds(c) /\ Holds(c)' /\ Cost(c)' = n /\ calls'[c].act = act
          /\ \A d \in Clients \ {c} : /\ Holds(d)' <=> Holds(d)
                                      /\ Cost(d)' = Cost(d) /\ calls'[d].act = calls[d].act
      <4>1. calls'[c] = f[c]
        BY <2>4, <2>5, <2>6, OthersHold
      <4>2. Holds(c)' /\ Cost(c)' = n
        BY <1>2, <2>6, <2>8, <4>1, NothingIsNoBucket DEF Holds, Cost
      <4> QED BY <1>1, <2>4, <2>5, <2>6, <4>1, <4>2, OthersHold DEF Holds
    <3>8. Held' = Held + n
      <4>1. Holding \in [Clients -> Int]
        BY HeldType
      <4>2. \A d \in Clients : Holding'[d] = IF d = c THEN n ELSE Holding[d]
        BY <3>7 DEF Holding
      <4>3. Holding'= [d \in Clients |-> IF d = c THEN n ELSE Holding[d]]
        BY <4>2 DEF Holding
      <4>4. PICK g \in [Clients -> Int] : g = Holding'
        BY <4>1, <4>3
      <4>5. g[c] = n /\ Holding[c] = 0 /\ \A d \in Clients \ {c} : g[d] = Holding[d]
        BY <3>7, <4>2, <4>4 DEF Holding
      <4>6. Sum(g, Clients) = Sum(Holding, Clients) + g[c] - Holding[c]
        BY <4>1, <4>5, ClientsAssumption, SumUpdate
      <4>7. Held' = Held + n - 0
        BY <4>4, <4>5, <4>6 DEF Held
      <4> QED BY <4>7, HeldType
    <3>9. GrantsAreSeen'
      BY <1>1, <3>3, <3>4, LevelType DEF BudgetInv, GrantsAreSeen, Clock
    <3>10. Within => Within'
      BY <1>1 DEF Within, Served
    <3>11. LeftWithin => LeftWithin'
      <4> SUFFICES ASSUME LeftWithin, NEW from \in Clock, NEW to \in Clock, from <= clock, clock <= to
                   PROVE  Served(from, to) + left + (Held + n) <= UserBurst + (clock - from)
        BY <1>1, <3>6, <3>8 DEF LeftWithin, Served
      <4>1. PICK s \in Nat, h \in Nat : s = Served(from, to) /\ h = Held
        BY ServedType, HeldType
      <4>2. s + k + h <= UserBurst + (clock - from)
        BY <3>5, <4>1 DEF LeftWithin
      <4> QED BY <1>2, <2>2, <4>1, <4>2, LevelType, TickSets
    <3>12. ASSUME ~Crowds(c), NEW d \in Clients, \A e \in Clients : Acts(e)
           PROVE  Acts(d)'
      <4>1. ASSUME NEW e \in Clients \ {c}, Holds(e)
            PROVE  /\ n = 1 /\ Cost(e) = 1
                   /\ calls[e].act \in Nat /\ calls[e].act >= clock
                   /\ calls[e].act = clock \/ calls[e].act - clock <= -k
                   /\ calls[e].act <= act /\ (calls[e].act = clock \/ act = clock \/ calls[e].act # act)
        <5>1. n = 1 /\ Cost(e) = 1
          BY <1>2, <2>8, <3>12, <4>1 DEF Crowds
        <5>2. PICK a \in Nat : a = calls[e].act
          BY <4>1, HolderSees
        <5>3. a >= clock /\ (a = clock \/ a - clock <= -k)
          BY <3>5, <3>12, <4>1, <5>2 DEF Acts
        <5>4. a <= act /\ (a = clock \/ a # act)
          BY <2>2, <2>3, <5>1, <5>3, LevelType
        <5> QED BY <5>1, <5>2, <5>3, <5>4
      <4>2. act >= clock /\ (act = clock \/ act - clock <= -left)
        BY <2>2, <2>3, LevelType
      <4>3. CASE d = c
        <5>1. ASSUME NEW e \in Clients \ {c}, Holds(e)'
              PROVE  n = 1 /\ (act = clock \/ calls'[e].act = clock \/ act # calls'[e].act)
          <6>1. Holds(e) /\ calls'[e].act = calls[e].act
            BY <3>7, <5>1
          <6> QED BY <4>1, <6>1
        <5> QED BY <1>1, <3>3, <3>4, <3>6, <3>7, <4>2, <4>3, <5>1 DEF Acts
      <4>4. CASE d # c /\ Holds(d)
        <5>1. PICK a \in Nat : /\ a = calls[d].act /\ a = calls'[d].act /\ a >= clock
                               /\ (a = clock \/ a - clock <= -k) /\ a <= act /\ (a = clock \/ act = clock \/ a # act)
          BY <3>7, <4>1, <4>4
        <5>2. a = clock \/ a - clock <= -left
          BY <1>2, <2>2, <5>1, LevelType
        <5>3. ASSUME NEW e \in Clients \ {d}, Holds(e)'
              PROVE  Cost(d)' = 1 /\ (a = clock \/ calls'[e].act = clock \/ a # calls'[e].act)
          <6>1. Cost(d)' = 1
            BY <3>7, <4>1, <4>4
          <6>2. CASE e = c
            BY <3>7, <5>1, <6>1, <6>2
          <6>3. CASE e # c
            BY <3>7, <3>12, <4>4, <5>1, <5>3, <6>1, <6>3 DEF Acts
          <6> QED BY <6>2, <6>3
        <5> QED BY <1>1, <3>3, <3>4, <3>6, <5>1, <5>2, <5>3 DEF Acts
      <4>5. CASE d # c /\ ~Holds(d)
        BY <3>7, <4>5 DEF Acts
      <4> QED BY <4>3, <4>4, <4>5
    <3> QED BY <2>4, <3>9, <3>10, <3>11, <3>12 DEF BudgetInv
  <2> QED BY <2>7, <2>8 DEF Layers
<1> QED BY <1>6, <1>7


\* What a cancellation does to what the bucket holds.
LEMMA RestoredLevel ==
  ASSUME NEW b \in Bucket, NEW act \in Nat, NEW n \in Nat \ {0}, clock \in Clock,
         NEW back \in Int, back = n - (b.lastEvent - act)
  PROVE  /\ act < clock \/ back <= 0 => Restored("user", b, act, n) = b
         /\ act >= clock /\ back > 0 =>
              /\ TokensAt("user", Restored("user", b, act, n), clock) <= TokensAt("user", b, clock) + back
              /\ Restored("user", b, act, n).lastEvent \in Nat
              /\ Restored("user", b, act, n).lastEvent
                   = IF act = b.lastEvent /\ act - n >= clock THEN act - n ELSE b.lastEvent
         /\ Restored("user", b, act, n).seen = b.seen /\ Restored("user", b, act, n) \in Bucket
<1>1. clock \in Nat /\ b.lastEvent \in Nat /\ Burst("user") \in Nat /\ "user" \in Layers
  BY BatchesAssumption, Bursts DEF Bucket, Clock, Layers
<1>2. PICK k \in Int : k = TokensAt("user", b, clock)
  BY <1>1, TokensLaw
<1>a. act # Nothing
  BY NothingIsNoBucket
<1>3. CASE act < clock \/ back <= 0
  BY <1>1, <1>3 DEF Restored
<1>4. CASE act >= clock /\ back > 0
  <2>1. PICK t \in Int : t = Min({Burst("user"), k + back}) /\ t <= k + back
    <3>1. PICK z \in Int : z = k + back
      OBVIOUS
    <3>2. Min({Burst("user"), z}) = IF Burst("user") <= z THEN Burst("user") ELSE z
      BY <1>1, MinMax
    <3> QED BY <1>1, <3>1, <3>2
  <2>2. PICK e \in Nat : e = IF act = b.lastEvent /\ act - n >= clock THEN act - n ELSE b.lastEvent
    BY <1>1
  <2>3. Restored("user", b, act, n) =
          [b EXCEPT !.tokens = Min({Burst("user"), TokensAt("user", b, clock) + (n - (b.lastEvent - act))}),
                    !.last = clock,
                    !.lastEvent = IF act = b.lastEvent /\ act - n >= clock THEN act - n ELSE b.lastEvent]
    BY <1>1, <1>4, <1>a DEF Restored
  <2>4. Restored("user", b, act, n) = [b EXCEPT !.tokens = t, !.last = clock, !.lastEvent = e]
    BY <1>2, <2>1, <2>2, <2>3
  <2>5. [b EXCEPT !.tokens = t, !.last = clock, !.lastEvent = e] \in Bucket
    BY DEF Bucket
  <2>6. PICK r \in Bucket : r = [b EXCEPT !.tokens = t, !.last = clock, !.lastEvent = e]
    BY <2>5
  <2>7. r = Restored("user", b, act, n) /\ r.tokens = t /\ r.last = clock /\ r.lastEvent = e /\ r.seen = b.seen
    BY <2>4, <2>6 DEF Bucket
  <2>8. TokensAt("user", r, clock) = IF Burst("user") <= t + (clock - clock) THEN Burst("user") ELSE t + (clock - clock)
    BY <1>1, <2>7, TokensLaw
  <2>9. TokensAt("user", r, clock) <= k + back
    BY <1>1, <1>2, <2>1, <2>8
  <2> QED BY <1>1, <1>2, <1>4, <2>2, <2>7, <2>9
<1> QED BY <1>1, <1>3, <1>4

LEMMA RefuseBudget ==
  ASSUME LimiterInv, BudgetInv, NEW c \in Clients, Refuse(c)
  PROVE  BudgetInv'
<1>1. /\ calls \in [Clients -> Call] /\ calls[c] \in Call /\ CallInv(calls[c]) /\ calls[c].pc = "cancel"
      /\ buckets \in [Layers -> Bucket \union {Nothing}] /\ clock \in Clock
      /\ clock' = clock /\ granted' = granted /\ crowded' = crowded
  BY DEF LimiterInv, LimiterTypeOK, Refuse
<1>2. PICK l \in Layers, n \in Nat \ {0} : l = calls[c].layer /\ n = Cost(c)
  BY <1>1, CostLaw
<1>3. /\ buckets' = [buckets EXCEPT ![l] = Restored(l, buckets[l], calls[c].act, n)]
      /\ ~Holds(c)'
      /\ \A d \in Clients \ {c} : /\ Holds(d)' <=> Holds(d)
                                  /\ Cost(d)' = Cost(d) /\ calls'[d].act = calls[d].act
  <2>1. PICK due : calls' = Disturb(c, [calls EXCEPT ![c] = [IdleCall EXCEPT !.batch = calls[c].batch, !.due = due,
                                                  !.told = calls[c].layer, !.alone = calls[c].alone]])
    BY DEF Refuse
  <2>2. \A d \in Clients : calls'[d] = IF d = c THEN [IdleCall EXCEPT !.batch = calls[c].batch, !.due = due,
                                                  !.told = calls[c].layer, !.alone = calls[c].alone]
                                       ELSE [calls[d] EXCEPT !.alone = FALSE]
    BY <1>1, <2>1 DEF Disturb
  <2>3. calls'[c].pc = "idle"
    BY <2>2 DEF IdleCall
  <2>4. ASSUME NEW d \in Clients \ {c}
        PROVE  calls'[d].pc = calls[d].pc /\ calls'[d].layer = calls[d].layer /\ calls'[d].act = calls[d].act
               /\ calls'[d].batch = calls[d].batch
    <3>1. calls'[d] = [calls[d] EXCEPT !.alone = FALSE] /\ calls[d] \in Call
      BY <1>1, <2>2
    <3> QED BY <3>1 DEF Call
  <2>5. buckets' = [buckets EXCEPT ![l] = Restored(l, buckets[l], calls[c].act, n)]
    BY <1>2 DEF Refuse
  <2> QED BY <2>3, <2>4, <2>5 DEF Holds, Cost
<1>4. CASE ~Holds(c)
  <2>1. buckets'["user"] = buckets["user"]
    <3>1. CASE l = "addr"
      BY <1>1, <1>3, <3>1 DEF Layers
    <3>2. CASE l = "user"
      BY <1>1, <1>2, <1>3, <1>4, <3>2 DEF Holds, Restored
    <3> QED BY <3>1, <3>2 DEF Layers
  <2>2. Level' = Level
    BY <1>1, <2>1 DEF Level, TokensAt
  <2> QED BY <1>1, <1>3, <1>4, <2>1, <2>2, BudgetKept
<1>5. CASE Holds(c)
  <2>1. /\ l = "user" /\ buckets["user"] # Nothing /\ buckets["user"].seen = clock
    BY <1>2, <1>5, HolderSees DEF Holds
  <2>2. PICK b \in Bucket, act \in Nat : b = buckets["user"] /\ act = calls[c].act
    BY <1>5, HolderSees
  <2>3. PICK k \in Int, last \in Nat : k = Level /\ k = TokensAt("user", b, clock) /\ last = b.lastEvent
    BY <2>1, <2>2, LevelType DEF Level, Bucket
  <2>4. PICK back \in Int : back = n - (last - act)
    BY <1>2
  <2>5. PICK r \in Bucket : /\ r = Restored("user", b, act, n) /\ r.seen = b.seen
                            /\ act < clock \/ back <= 0 => r = b
                            /\ act >= clock /\ back > 0 =>
                                 /\ TokensAt("user", r, clock) <= k + back
                                 /\ r.lastEvent = IF act = last /\ act - n >= clock THEN act - n ELSE last
    BY <1>1, <2>3, <2>4, RestoredLevel
  <2>6. buckets'["user"] = r /\ r # Nothing
    BY <1>1, <1>3, <2>1, <2>2, <2>5, NothingIsNoBucket
  <2>7. PICK k1 \in Int, last1 \in Nat : k1 = Level' /\ last1 = r.lastEvent /\ k1 = TokensAt("user", r, clock)
    <3>1. Level' = TokensAt("user", r, clock)
      BY <1>1, <2>6 DEF Level, TokensAt
    <3>2. TokensAt("user", r, clock) \in Int /\ r.lastEvent \in Nat
      BY <1>1, LevelType, TokensLaw DEF Bucket
    <3> QED BY <3>1, <3>2
  <2>8. /\ act < clock \/ back <= 0 => k1 = k /\ last1 = last
        /\ act >= clock /\ back > 0 => k1 <= k + back /\ last1 = IF act = last /\ act - n >= clock THEN act - n ELSE last
    BY <2>3, <2>5, <2>7
  <2>9. Held' = Held - n
    <3>1. Holding \in [Clients -> Int]
      BY HeldType
    <3>2. \A d \in Clients : Holding'[d] = IF d = c THEN 0 ELSE Holding[d]
      BY <1>3 DEF Holding
    <3>3. Holding' = [d \in Clients |-> IF d = c THEN 0 ELSE Holding[d]]
      BY <3>2 DEF Holding
    <3>4. PICK g \in [Clients -> Int] : g = Holding'
      BY <3>1, <3>3
    <3>5. g[c] = 0 /\ Holding[c] = n /\ \A d \in Clients \ {c} : g[d] = Holding[d]
      BY <1>2, <1>5, <3>2, <3>4 DEF Holding
    <3>6. Sum(g, Clients) = Sum(Holding, Clients) + g[c] - Holding[c]
      BY <3>1, <3>5, ClientsAssumption, SumUpdate
    <3>7. Held' = Held + 0 - n
      BY <3>4, <3>5, <3>6 DEF Held
    <3> QED BY <3>7, HeldType
  <2>10. GrantsAreSeen'
    BY <1>1, <2>1, <2>2, <2>5, <2>6, LevelType DEF BudgetInv, GrantsAreSeen, Clock
  <2>11. Within => Within'
    BY <1>1 DEF Within, Served
  <2>12. ASSUME ~crowded
         PROVE  act <= last /\ k1 <= k + n
    <3>1. act <= last /\ act >= clock
      BY <1>5, <2>2, <2>3, <2>12 DEF BudgetInv, Acts
    <3> QED BY <1>2, <2>4, <2>8, <3>1, LevelType
  <2>13. ASSUME ~crowded, LeftWithin
         PROVE  LeftWithin'
    <3> SUFFICES ASSUME NEW from \in Clock, NEW to \in Clock, from <= clock, clock <= to
                 PROVE  Served(from, to) + k1 + (Held - n) <= UserBurst + (clock - from)
      BY <1>1, <2>7, <2>9 DEF LeftWithin, Served
    <3>1. PICK s \in Nat, h \in Nat : s = Served(from, to) /\ h = Held
      BY ServedType, HeldType
    <3>2. s + k + h <= UserBurst + (clock - from)
      BY <2>3, <2>13, <3>1 DEF LeftWithin
    <3> QED BY <1>2, <2>12, <2>13, <3>1, <3>2, LevelType, TickSets
  <2>14. ASSUME ~crowded, NEW d \in Clients, \A e \in Clients : Acts(e)
         PROVE  Acts(d)'
    <3> SUFFICES ASSUME Holds(d), d # c PROVE Acts(d)'
      BY <1>3 DEF Acts
    <3>1. PICK a \in Nat : a = calls[d].act /\ a = calls'[d].act
      BY <1>3, HolderSees
    <3>2. a >= clock /\ (a = clock \/ a - clock <= -k) /\ a <= last /\ (a = clock \/ act = clock \/ a # act)
      BY <1>5, <2>2, <2>3, <2>14, <3>1 DEF Acts
    <3>3. n = 1 /\ act >= clock /\ (act = clock \/ act - clock <= -k) /\ act <= last
      BY <1>2, <1>5, <2>2, <2>3, <2>14 DEF Acts
    <3>4. (a = clock \/ a - clock <= -k1) /\ a <= last1
      <4>1. CASE back <= 0
        BY <2>8, <3>2, <3>3, <4>1
      <4>2. CASE back > 0
        <5>1. act = last /\ back = 1
          BY <2>4, <3>3, <4>2
        <5>2. k1 <= k + 1 /\ last1 = IF act - 1 >= clock THEN act - 1 ELSE act
          BY <2>8, <3>3, <4>2, <5>1
        <5>3. CASE a = clock
          BY <3>2, <3>3, <5>2, <5>3, LevelType
        <5>4. CASE a # clock
          <6>1. a > clock /\ a <= act /\ a # act /\ act - clock <= -k
            BY <3>2, <3>3, <5>1, <5>4, LevelType
          <6> QED BY <5>2, <6>1, LevelType
        <5> QED BY <5>3, <5>4
      <4> QED BY <4>1, <4>2
    <3>5. ASSUME NEW e \in Clients \ {d}, Holds(e)'
          PROVE  Cost(d)' = 1 /\ (a = clock \/ calls'[e].act = clock \/ a # calls'[e].act)
      <4>1. e # c
        BY <1>3, <3>5
      <4> QED BY <1>3, <2>14, <3>1, <3>5, <4>1 DEF Acts
    <3> QED BY <1>1, <2>6, <2>7, <3>1, <3>2, <3>4, <3>5 DEF Acts
  <2> QED BY <1>1, <2>10, <2>11, <2>13, <2>14 DEF BudgetInv
<1> QED BY <1>4, <1>5

LEMMA SweepBudget ==
  ASSUME LimiterInv, BudgetInv, Sweep
  PROVE  BudgetInv'
<1>1. /\ UNCHANGED <<calls, granted, crowded, clock>> /\ clock \in Clock /\ clock \in Nat
      /\ buckets \in [Layers -> Bucket \union {Nothing}] /\ granted \in [Clock -> Int]
      /\ \A t \in Clock : granted[t] \in Nat
  BY LevelType DEF Sweep, LimiterInv, LimiterTypeOK
<1>2. \/ buckets'["user"] = buckets["user"]
      \/ buckets'["user"] = Nothing /\ buckets["user"] # Nothing /\ buckets["user"].seen + LimiterTTL < clock
  <2>1. "user" \in Layers
    BY LevelType
  <2>2. buckets' = [l \in Layers |-> IF buckets[l] # Nothing /\ buckets[l].seen + LimiterTTL < clock
                                     THEN Nothing ELSE buckets[l]]
    BY DEF Sweep
  <2>3. buckets'["user"] = IF buckets["user"] # Nothing /\ buckets["user"].seen + LimiterTTL < clock
                            THEN Nothing ELSE buckets["user"]
    BY <2>1, <2>2
  <2> QED BY <2>3
<1>3. \A c \in Clients : (Holds(c)' <=> Holds(c)) /\ Cost(c)' = Cost(c)
  BY <1>1 DEF Holds, Cost
<1>4. CASE buckets'["user"] = buckets["user"]
  <2>1. Level' = Level
    BY <1>1, <1>4 DEF Level, TokensAt
  <2> QED BY <1>1, <1>3, <1>4, <2>1, BudgetKept
<1>5. CASE buckets'["user"] = Nothing /\ buckets["user"] # Nothing /\ buckets["user"].seen + LimiterTTL < clock
  <2>1. PICK last \in Clock : last = buckets["user"].seen /\ last \in Nat
    BY <1>1, <1>5, LevelType, BatchesAssumption DEF Bucket, Clock
  <2>2. last + UserBurst < clock
    <3>1. LimiterTTL \in Nat /\ LimiterTTL >= UserBurst
      BY TTLAssumption
    <3> QED BY <1>1, <1>5, <2>1, <3>1, LevelType
  <2>3. \A c \in Clients : ~Holds(c)
    BY <1>1, <2>1, <2>2, HolderSees, LevelType
  <2>4. Held' = 0
    <3>1. Holding' = Holding
      BY <1>3 DEF Holding
    <3> QED BY <2>3, <3>1, HeldType DEF Held
  <2>5. Level' = UserBurst
    BY <1>5 DEF Level
  <2>6. \A t \in Clock : t > last => granted[t] = 0
    BY <1>5, <2>1 DEF BudgetInv, GrantsAreSeen
  <2>7. GrantsAreSeen'
    BY <1>1, <1>5 DEF BudgetInv, GrantsAreSeen
  <2>8. Within => Within'
    BY <1>1 DEF Within, Served
  <2>9. ASSUME Within
        PROVE  LeftWithin'
    <3> SUFFICES ASSUME NEW from \in Clock, NEW to \in Clock, from <= clock, clock <= to
                 PROVE  Served(from, to) + UserBurst + 0 <= UserBurst + (clock - from)
      BY <1>1, <2>4, <2>5 DEF LeftWithin, Served
    <3>1. PICK S \in SUBSET Clock : S = from..to
      BY TickSets
    <3>2. IsFiniteSet(S)
      BY <3>1, TickSets
    <3>3. CASE from <= last
      <4>1. PICK R \in SUBSET S : R = from..last
        BY <1>1, <2>1, <2>2, <3>1, <3>3, LevelType, TickSets
      <4>2. \A t \in S \ R : granted[t] = 0
        BY <2>1, <2>6, <3>1, <4>1, TickSets
      <4>3. Sum(granted, S) = Sum(granted, R)
        <5>1. granted \in [Clock -> Int]
          BY <1>1
        <5> QED BY <3>2, <4>2, <5>1, SumSupport
      <4>4. Served(from, to) = Served(from, last)
        BY <3>1, <4>1, <4>3 DEF Served
      <4>5. Served(from, last) <= UserBurst + (last - from)
        BY <2>1, <2>9, <3>3 DEF Within
      <4>6. PICK s \in Nat, j \in Nat : s = Served(from, last) /\ j = from
        BY <2>1, ServedType, TickSets
      <4>7. s + UserBurst <= UserBurst + (clock - j)
        BY <1>1, <2>1, <2>2, <4>5, <4>6, LevelType
      <4> QED BY <4>4, <4>6, <4>7, LevelType
    <3>4. CASE ~(from <= last)
      <4>1. \A t \in S \ {} : granted[t] = 0
        BY <2>1, <2>6, <3>1, <3>4, TickSets
      <4>2. Sum(granted, S) = Sum(granted, {})
        <5>1. granted \in [Clock -> Int]
          BY <1>1
        <5> QED BY <3>2, <4>1, <5>1, SumSupport
      <4>3. Served(from, to) = 0
        BY <3>1, <4>2, SumEmpty DEF Served
      <4> QED BY <1>1, <4>3, LevelType, TickSets
    <3> QED BY <3>3, <3>4
  <2>10. \A c \in Clients : Acts(c)'
    BY <1>3, <2>3 DEF Acts
  <2> QED BY <1>1, <2>7, <2>8, <2>9, <2>10 DEF BudgetInv
<1> QED BY <1>2, <1>4, <1>5

LEMMA PassBudget ==
  ASSUME LimiterInv, BudgetInv, Pass
  PROVE  BudgetInv'
<1>1. /\ UNCHANGED <<buckets, calls, granted, crowded>> /\ clock' = clock + 1 /\ clock' \in Clock /\ clock \in Nat
      /\ \A c \in Clients : ~Holds(c) /\ ~Holds(c)'
  BY LevelType, BatchesAssumption DEF Pass, Clock, Holds
<1>2. Held = 0 /\ Held' = 0
  <2>1. Held = 0
    BY <1>1, HeldType
  <2>2. Holding' = Holding
    BY <1>1 DEF Holding
  <2> QED BY <2>1, <2>2 DEF Held
<1>3. PICK k \in Int, k1 \in Int : k = Level /\ k1 = Level' /\ k1 <= k + 1 /\ k1 <= UserBurst
  <2>1. CASE buckets["user"] = Nothing
    BY <1>1, <2>1, LevelType DEF Level
  <2>2. CASE buckets["user"] # Nothing
    <3>1. PICK b \in Bucket : b = buckets["user"] /\ b.last <= clock
      BY <2>2, LevelType DEF LimiterInv, LimiterTypeOK, Sound
    <3>2. b.last \in Nat /\ b.tokens \in Int
      BY <3>1, BatchesAssumption DEF Bucket, Clock
    <3>3. Level = IF UserBurst <= b.tokens + (clock - b.last) THEN UserBurst ELSE b.tokens + (clock - b.last)
      BY <2>2, <3>1, LevelType, TokensLaw DEF Level
    <3>4. Level' = TokensAt("user", b, clock + 1)
      BY <1>1, <2>2, <3>1 DEF Level, TokensAt
    <3>5. clock + 1 \in Clock /\ b.last <= clock + 1
      BY <1>1, <3>1, <3>2
    <3>6. PICK w \in Clock : w = clock + 1
      BY <3>5
    <3>7. TokensAt("user", b, w) = IF UserBurst <= b.tokens + (w - b.last) THEN UserBurst ELSE b.tokens + (w - b.last)
      BY <3>5, <3>6, LevelType, TokensLaw
    <3> QED BY <3>1, <3>2, <3>3, <3>4, <3>6, <3>7, LevelType
  <2> QED BY <2>1, <2>2
<1>4. GrantsAreSeen'
  <2>1. \A t \in Clock : t \in Nat
    BY BatchesAssumption DEF Clock
  <2>2. buckets["user"] # Nothing => buckets["user"].seen \in Nat
    BY <2>1, LevelType DEF LimiterInv, LimiterTypeOK, Bucket
  <2> QED BY <1>1, <2>1, <2>2 DEF BudgetInv, GrantsAreSeen
<1>5. Within => Within'
  BY <1>1 DEF Within, Served
<1>6. ASSUME LeftWithin
      PROVE  LeftWithin'
  <2> SUFFICES ASSUME NEW from \in Clock, NEW to \in Clock, from <= clock + 1, clock + 1 <= to
               PROVE  Served(from, to) + k1 + 0 <= UserBurst + ((clock + 1) - from)
    BY <1>1, <1>2, <1>3 DEF LeftWithin, Served
  <2>1. CASE from <= clock
    <3>1. PICK s \in Nat : s = Served(from, to)
      BY ServedType
    <3>2. clock <= to
      BY LevelType, TickSets
    <3>3. s + k + 0 <= UserBurst + (clock - from)
      BY <1>2, <1>3, <1>6, <2>1, <3>1, <3>2, LevelType DEF LeftWithin
    <3> QED BY <1>3, <3>1, <3>3, LevelType, TickSets
  <2>2. CASE ~(from <= clock)
    <3>1. PICK S \in SUBSET Clock : S = from..to
      BY TickSets
    <3>2. IsFiniteSet(S)
      BY <3>1, TickSets
    <3>3. \A t \in S \ {} : granted[t] = 0
      BY <2>2, <3>1, LevelType, TickSets DEF BudgetInv, GrantsAreSeen
    <3>4. Sum(granted, S) = Sum(granted, {})
      <4>1. granted \in [Clock -> Int]
        BY DEF LimiterInv, LimiterTypeOK
      <4> QED BY <3>2, <3>3, <4>1, SumSupport
    <3>5. Served(from, to) = 0
      BY <3>1, <3>4, SumEmpty DEF Served
    <3>6. from = clock + 1
      BY <2>2, LevelType, TickSets
    <3> QED BY <1>3, <3>5, <3>6, LevelType
  <2> QED BY <2>1, <2>2
<1>7. \A c \in Clients : Acts(c)'
  BY <1>1 DEF Acts
<1> QED BY <1>1, <1>4, <1>5, <1>6, <1>7 DEF BudgetInv

LEMMA BudgetStart == LimiterInit => LimiterInv /\ BudgetInv
<1> SUFFICES ASSUME LimiterInit PROVE LimiterInv /\ BudgetInv
  OBVIOUS
<1>1. LimiterInv
  BY LimiterStart
<1>2. \A c \in Clients : ~Holds(c)
  BY DEF LimiterInit, IdleCall, Holds
<1>3. Held = 0
  BY <1>1, <1>2, HeldType
<1>4. buckets["user"] = Nothing /\ clock = 0 /\ \A t \in Clock : granted[t] = 0
  BY DEF LimiterInit, Layers
<1>5. Level = UserBurst
  BY <1>4 DEF Level
<1>6. ASSUME NEW from \in Clock, NEW to \in Clock
      PROVE  Served(from, to) = 0
  <2>1. PICK S \in SUBSET Clock : S = from..to
    BY TickSets
  <2>2. IsFiniteSet(S)
    BY <2>1, TickSets
  <2>3. \A t \in S \ {} : granted[t] = 0
    BY <1>4
  <2>4. Sum(granted, S) = Sum(granted, {})
    <3>1. granted \in [Clock -> Int]
      BY <1>1 DEF LimiterInv, LimiterTypeOK
    <3> QED BY <2>2, <2>3, <3>1, SumSupport
  <2> QED BY <2>1, <2>4, SumEmpty DEF Served
<1>7. Within
  BY <1>1, <1>6, LevelType, TickSets DEF Within
<1>8. LeftWithin
  BY <1>1, <1>3, <1>4, <1>5, <1>6, LevelType, TickSets DEF LeftWithin
<1> QED BY <1>1, <1>2, <1>4, <1>7, <1>8 DEF BudgetInv, GrantsAreSeen, Acts

LEMMA BudgetStep == LimiterInv /\ BudgetInv /\ [LimiterNext]_limiterVars => LimiterInv' /\ BudgetInv'
<1> SUFFICES ASSUME LimiterInv, BudgetInv, [LimiterNext]_limiterVars PROVE BudgetInv'
  BY LimiterStep
<1>1. CASE UNCHANGED limiterVars
  <2>1. UNCHANGED <<buckets, calls, granted, crowded, clock>>
    BY <1>1 DEF limiterVars
  <2>2. Level' = Level /\ \A c \in Clients : (Holds(c)' <=> Holds(c)) /\ Cost(c)' = Cost(c)
    BY <2>1 DEF Level, TokensAt, Holds, Cost
  <2> QED BY <2>1, <2>2, BudgetKept
<1> QED BY <1>1, ArriveBudget, TakeBudget, ReserveBudget, RefuseBudget, SweepBudget, PassBudget DEF LimiterNext

\* A user is let through no more between any two ticks than the burst and a token a
\* tick, for every size of the buckets, number of clients and mix of requests and
\* batches, refusals and sweeps: but for a refused batch that holds its reservation
\* together with another refusal (ratelimit.go:282-314).
THEOREM BudgetIsKept == LimiterSpec => []BudgetHolds
<1>1. LimiterInv /\ BudgetInv => BudgetHolds
  <2> SUFFICES ASSUME LimiterInv, Within PROVE ServedWithinBudget
    BY DEF BudgetInv, BudgetHolds, LimiterInv
  <2> SUFFICES ASSUME NEW from \in Clock, NEW to \in from..LastTick
               PROVE  MapThenSumSet(LAMBDA t : granted[t], from..to) <= UserBurst + (to - from)
    BY DEF ServedWithinBudget
  <2>1. to \in Clock /\ from <= to
    BY BatchesAssumption DEF Clock
  <2>2. Served(from, to) <= UserBurst + (to - from)
    BY <2>1 DEF Within
  <2> QED BY <2>2 DEF Served, Sum
<1> QED BY <1>1, BudgetStart, BudgetStep, PTL DEF LimiterSpec
=============================================================================
