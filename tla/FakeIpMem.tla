----------------------------- MODULE FakeIpMem -----------------------------
(* FakeDns over InMemStore (app/dns/fakeip/mem_store.rs), which keeps the two
   directions of the mapping in two LRU caches of the same capacity.  A cache is
   the sequence of its <<key, value>> entries, least recently used first.  The
   store never waits, so a call of FakeDns under its lock is one step. *)
EXTENDS FakeIpPool, FiniteSets, Sequences, Functions

CONSTANT Sizes    \* capacities to consider (1000 in the code)

VARIABLES
    size,      \* capacity of each cache, which never changes
    offset,
    itoh,      \* cache from address to host
    htoi       \* cache from host to address

vars == <<size, offset, itoh, htoi>>

----------------------------------------------------------------------------
(* lru_time_cache::LruCache *)

Keys(c) == {c[i][1] : i \in DOMAIN c}
Get(c, k) == (CHOOSE e \in Range(c) : e[1] = k)[2]
Remove(c, k) == SelectSeq(c, LAMBDA e : e[1] # k)

\* Mutant: nothing is evicted.
InsertUnbounded(c, k, v) == Append(Remove(c, k), <<k, v>>)

\* insert evicts the least recently used entry of a full cache.
Insert(c, k, v) ==
    LET d == Append(Remove(c, k), <<k, v>>)
    IN  IF Len(d) > size THEN Tail(d) ELSE d

\* get_mut: a hit makes the entry the most recently used one.
Touch(c, k) == IF k \in Keys(c) THEN Append(Remove(c, k), <<k, Get(c, k)>>) ELSE c

----------------------------------------------------------------------------
(* InMemStore *)

\* Mutant: only the cache that is asked notes the use.
GetByHostOneSided(h) ==
    /\ htoi' = Touch(htoi, h)
    /\ UNCHANGED itoh

\* get_by_host, on a hit: both entries of the pair become the most recent.
GetByHost(h) ==
    /\ htoi' = Touch(htoi, h)
    /\ itoh' = Touch(itoh, Get(htoi, h))

\* get_by_ip, on a hit.
GetByIp(i) ==
    /\ itoh' = Touch(itoh, i)
    /\ htoi' = Touch(htoi, Get(itoh, i))

\* Mutant: the other direction is kept.
DelByIpOneSided(i) == [i |-> Remove(itoh, i), h |-> htoi]

\* del_by_ip takes the host of the address out of the other cache.
DelByIp(i) ==
    IF i \in Keys(itoh)
    THEN [i |-> Remove(itoh, i), h |-> Remove(htoi, Get(itoh, i))]
    ELSE [i |-> itoh, h |-> htoi]

----------------------------------------------------------------------------
(* FakeDns *)

TypeOK ==
    /\ offset \in Offsets
    /\ itoh \in Seq(Ips \X Hosts) /\ htoi \in Seq(Hosts \X Ips)
    /\ Len(itoh) <= size /\ Len(htoi) <= size

Init ==
    /\ size \in Sizes
    /\ offset = 0 /\ itoh = <<>> /\ htoi = <<>>

LookupHit(h) ==
    /\ h \in Keys(htoi)
    /\ GetByHost(h)
    /\ UNCHANGED <<size, offset>>

\* lookup of a host without an address: get, put_by_ip, pub_by_host.
LookupMiss(h) ==
    /\ h \notin Keys(htoi)
    /\ LET o == NextOffset(offset, Keys(itoh))
           store == IF Full(offset, Keys(itoh)) THEN DelByIp(Ip(o))
                    ELSE [i |-> itoh, h |-> htoi]
       IN  /\ offset' = o
           /\ itoh' = Insert(store.i, Ip(o), h)
           /\ htoi' = Insert(store.h, h, Ip(o))
    /\ UNCHANGED size

ReverseLookup(i) ==
    /\ i \in Keys(itoh)
    /\ GetByIp(i)
    /\ UNCHANGED <<size, offset>>

Next ==
    \/ \E h \in Hosts : LookupHit(h)
    \/ \E h \in Hosts : LookupMiss(h)
    \/ \E i \in Ips : ReverseLookup(i)

Spec == Init /\ [][Next]_vars

----------------------------------------------------------------------------
(* Properties *)

\* The two caches evict on their own, and still they hold the same pairs: every
\* address known for a host leads back to that host and the other way round.
CachesAgree ==
    {<<e[2], e[1]>> : e \in Range(itoh)} = Range(htoi)

\* A pair is given up only when the pool is exhausted or the caches are full: a
\* host that was not asked for keeps its address when there is room.
RoomKeepsPairs ==
    [][\A h \in Keys(htoi) :
          Len(htoi) < size /\ Cardinality(Keys(itoh)) < Modulus
             => h \in Keys(htoi') /\ Get(htoi', h) = Get(htoi, h)]_vars
=============================================================================
