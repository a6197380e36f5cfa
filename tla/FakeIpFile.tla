----------------------------- MODULE FakeIpFile -----------------------------
(* FakeDns over FileStore: the two directions of the mapping live in the Db of
   the cache file (app/profile/mod.rs), which a task writes to disk every ten
   seconds and which a new process reads back.

   A lookup holds the lock of FakeDns from beginning to end, but waits for the
   lock of the cache file at every call of the store.  Between two calls the
   flush task may take its snapshot, the process may die, and the lookup itself
   may be dropped: `resolve' drops the IPv4 lookup when the IPv6 one answers
   first, and the API drops the handler of a client that has gone. *)
EXTENDS FakeIpPool

CONSTANTS
    None,
    Other,           \* an address outside the subnet
    StoreSelected,   \* profile.store-selected, which starts the flush task
    Cut              \* values whose text is the beginning of the text of a value

ASSUME FileAssumption ==
    /\ None \notin Hosts \cup Ips \cup {Other}
    /\ Other \notin Ips
    /\ StoreSelected \in BOOLEAN
    /\ DOMAIN Cut = Hosts \cup Ips \cup {Other}
    /\ \A v \in Hosts : Cut[v] \subseteq Hosts
    /\ \A v \in Ips \cup {Other} : Cut[v] \subseteq Ips \cup {Other}
    /\ \A v \in DOMAIN Cut : \A w \in Cut[v] : Cut[w] \subseteq Cut[v]

VARIABLES
    offset,
    itoh, htoi,      \* ip_to_host and host_to_ip of the Db in memory
    pc,              \* where the lookup that holds the lock of FakeDns waits
    host, current,   \* its host, and the offset it started from
    disk,            \* the two tables that were last to be written to the file
    whole,           \* FALSE while they are written, and when that has failed
    recent           \* history: the address given last, until a lookup is dropped
                     \* or the process restarted

fakedns == <<offset, pc, host, current, recent>>
vars == <<fakedns, itoh, htoi, disk, whole>>

\* The type of ip_to_host and host_to_ip.
IpToHost == [Ips -> Hosts \cup {None}]
HostToIp == [Hosts -> Ips \cup {Other, None}]
Tables == [i : IpToHost, h : HostToIp]

NoHost == [i \in Ips |-> None]
NoIp == [h \in Hosts |-> None]
Empty == [i |-> NoHost, h |-> NoIp]

TypeOK ==
    /\ offset \in Offsets /\ current \in Offsets
    /\ itoh \in IpToHost /\ htoi \in HostToIp
    /\ pc \in {"idle", "search", "del", "put", "pub"}
    /\ host \in Hosts \cup {None}
    /\ pc = "idle" <=> host = None
    /\ disk \in Tables
    /\ whole \in BOOLEAN
    /\ recent \in Ips \cup {None}

Init ==
    /\ offset = 0 /\ current = 0 /\ pc = "idle" /\ host = None
    /\ itoh = NoHost /\ htoi = NoIp
    /\ disk = Empty /\ whole = TRUE /\ recent = None

----------------------------------------------------------------------------
(* FakeDns::lookup and FakeDns::get *)

\* The lookup is over, and its locals with it.
Leave == pc' = "idle" /\ host' = None /\ current' = 0

\* get_by_host finds nothing; a host with an address is answered at once.
Lookup(h) ==
    /\ pc = "idle"
    /\ htoi[h] = None
    /\ pc' = "search" /\ host' = h /\ current' = offset
    /\ UNCHANGED <<offset, itoh, htoi, disk, whole, recent>>

\* Mutant: the first address that is in use is taken from its host.
SearchOnce ==
    /\ pc = "search"
    /\ LET o == (offset + 1) % Modulus
       IN  /\ offset' = o
           /\ pc' = IF itoh[Ip(o)] = None THEN "put" ELSE "del"
    /\ UNCHANGED <<host, current, itoh, htoi, disk, whole, recent>>

\* Mutant: the search that comes back to its start takes that address.
SearchNoStep ==
    /\ pc = "search"
    /\ LET o == (offset + 1) % Modulus
       IN  /\ offset' = o
           /\ pc' = IF o = current THEN "del" ELSE IF itoh[Ip(o)] = None THEN "put" ELSE "search"
    /\ UNCHANGED <<host, current, itoh, htoi, disk, whole, recent>>

\* One turn of the loop of `get'.
Search ==
    /\ pc = "search"
    /\ LET o == (offset + 1) % Modulus
       IN  \/ /\ o = current
              /\ offset' = (o + 1) % Modulus
              /\ pc' = "del"
           \/ /\ o # current
              /\ offset' = o
              /\ pc' = IF itoh[Ip(o)] = None THEN "put" ELSE "search"
    /\ UNCHANGED <<host, current, itoh, htoi, disk, whole, recent>>

\* Mutant: the host keeps the address it lost.
DelHalf ==
    /\ pc = "del"
    /\ itoh' = [itoh EXCEPT ![Ip(offset)] = None]
    /\ pc' = "put"
    /\ UNCHANGED <<offset, host, current, htoi, disk, whole, recent>>

\* del_by_ip: the pool is used up, the address loses its host.
Del ==
    /\ pc = "del"
    /\ itoh' = [itoh EXCEPT ![Ip(offset)] = None]
    /\ htoi' = [h \in Hosts |-> IF h = itoh[Ip(offset)] THEN None ELSE htoi[h]]
    /\ pc' = "put"
    /\ UNCHANGED <<offset, host, current, disk, whole, recent>>

\* put_by_ip, the end of `get'.
Put ==
    /\ pc = "put"
    /\ itoh' = [itoh EXCEPT ![Ip(offset)] = host]
    /\ pc' = "pub"
    /\ UNCHANGED <<offset, host, current, htoi, disk, whole, recent>>

\* pub_by_host, the end of `lookup'.
Pub ==
    /\ pc = "pub"
    /\ htoi' = [htoi EXCEPT ![host] = Ip(offset)]
    /\ Leave /\ recent' = Ip(offset)
    /\ UNCHANGED <<offset, itoh, disk, whole>>

\* The future is dropped while it waits for the lock of the cache file.
Cancel ==
    /\ pc # "idle"
    /\ Leave /\ recent' = None
    /\ UNCHANGED <<offset, itoh, htoi, disk, whole>>

----------------------------------------------------------------------------
(* The flush task of ThreadSafeCacheFile::new and CacheFile::new *)

\* The tables that hold some entries of f, the last of which may end in the middle
\* of its value.
Parts(f) ==
    {[x \in DOMAIN f |-> IF x \in S THEN f[x] ELSE None] : S \in SUBSET DOMAIN f}

CutShort(f, x) == IF f[x] = None THEN {} ELSE {[g EXCEPT ![x] = v] : g \in Parts(f), v \in Cut[f[x]]}

Truncated(f) == Parts(f) \cup UNION {CutShort(f, x) : x \in DOMAIN f}

\* What a process may read from a file that ends early.  ip_to_host comes before
\* host_to_ip, each in any order; a file that does not parse is an empty Db.
Torn(s) ==
    {[i |-> t, h |-> NoIp] : t \in Truncated(s.i)} \cup {[i |-> s.i, h |-> t] : t \in Truncated(s.h)}

\* Mutant: the copy is taken once, before the loop.
FlushStale ==
    /\ StoreSelected
    /\ whole' = FALSE
    /\ UNCHANGED <<fakedns, itoh, htoi, disk>>

\* The last write ended or, on a full disk say, failed half way, which the task
\* only logs.  The tables are copied under the lock; fs::write truncates the file.
FlushStart ==
    /\ StoreSelected
    /\ disk' = [i |-> itoh, h |-> htoi] /\ whole' = FALSE
    /\ UNCHANGED <<fakedns, itoh, htoi>>

FlushEnd ==
    /\ ~whole
    /\ whole' = TRUE
    /\ UNCHANGED <<fakedns, itoh, htoi, disk>>

\* The process ends at any point, in the middle of a write too, and a new one
\* starts with what is in the file.
Restart ==
    /\ disk' \in IF whole THEN {disk} ELSE Torn(disk)
    /\ whole' = TRUE
    /\ itoh' = disk'.i /\ htoi' = disk'.h
    /\ offset' = 0 /\ Leave /\ recent' = None

Next ==
    \/ \E h \in Hosts : Lookup(h)
    \/ Search
    \/ Del
    \/ Put
    \/ Pub
    \/ Cancel
    \/ FlushStart
    \/ FlushEnd
    \/ Restart

Spec == Init /\ [][Next]_vars

----------------------------------------------------------------------------
(* Properties *)

\* An answer leads back to its host, or is the beginning of an address that does.
LeadsBack(s) ==
    \A h \in Hosts : s.h[h] # None =>
        \/ s.h[h] \in Ips /\ s.i[s.h[h]] = h
        \/ \E i \in Ips : s.i[i] = h /\ s.h[h] \in Cut[i]

\* The address lookup answers for a host is one that reverse_lookup leads back
\* to that host, in every state that cancelled lookups, recycled addresses, flushes
\* and restarts from half-written files leave behind.  The one exception the code
\* allows: a file that ended inside an address (profile/mod.rs:58) leaves its host
\* with the address it was cut down to, for as long as the whole address leads back
\* to the host, and never longer.
AnswersLeadBack == LeadsBack([i |-> itoh, h |-> htoi])

\* The address that was given last is not the one that `get' takes from its host
\* next: a client that has just been answered is about to connect to it.  Excepted
\* are a dropped lookup, which leaves the offset where its search was, a restart,
\* which begins at 0 again, and a subnet with a single address.
NewestKept == pc = "del" /\ Modulus > 1 => Ip(offset) # recent

\* A lookup takes an address from its host only when it has found every other
\* address, but the one its search started from, in use.
RoomKeepsPairs ==
    [][\A i \in Ips :
          itoh[i] # None /\ itoh'[i] # itoh[i] /\ pc' # "idle"
          => \A o \in Offsets \ {current} : itoh[Ip(o)] # None]_vars

\* persistence fakeip: an address that its host keeps reaches the file.
PersistedEventually ==
    \A h \in Hosts :
        htoi[h] # None ~> (htoi[h] = None \/ (whole /\ disk.h[h] = htoi[h]))
=============================================================================
