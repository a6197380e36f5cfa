------------------------------ MODULE MCFakeIp ------------------------------
(* FakeDns with the store that profile.store-fake-ip asks for: `store' is chosen
   once, and the variables of the other store keep their initial values.

   Three addresses.  A subnet really offers 2^k - 3 of them, five in a /29, but
   nothing in the code depends on that form; three are enough for a search that
   passes an address in use, finds a free one or comes back to its start. *)
EXTENDS FakeIpFile

CONSTANTS
    MemHosts,    \* the hosts asked for when the store is in memory
    MemSizes     \* one below and one above the number of addresses

\* One name is the beginning of another.  The text of an address may begin with that
\* of another address of the subnet, 198.18.0.25 with 198.18.0.2, or with that of one
\* outside, as in 10.0.0.96/27; a single subnet hardly has both.
LongName == CHOOSE h \in Hosts : TRUE
LongIp == Ip(Modulus - 1)

MCCut ==
    [v \in Hosts \cup Ips \cup {Other} |->
        CASE v = LongName -> Hosts \ {LongName}
          [] v = LongIp -> {LongIp - 1, Other}
          [] OTHER -> {}]

VARIABLES store, size, memOffset, memItoh, memHtoi

Mem == INSTANCE FakeIpMem WITH
          Hosts <- MemHosts, Sizes <- MemSizes,
          offset <- memOffset, itoh <- memItoh, htoi <- memHtoi

memVars == <<size, memOffset, memItoh, memHtoi>>

MCInit ==
    /\ store \in {"memory", "file"}
    /\ Init /\ Mem!Init
    /\ store = "file" => size = CHOOSE s \in MemSizes : TRUE

MCNext ==
    \/ store = "memory" /\ Mem!Next /\ UNCHANGED <<store, vars>>
    \/ store = "file" /\ Next /\ UNCHANGED <<store, memVars>>

\* The flush task wakes up every ten seconds.  A write may fail, but a disk on
\* which every write fails persists nothing.
MCSpec ==
    /\ MCInit /\ [][MCNext]_<<store, vars, memVars>>
    /\ WF_vars(store = "file" /\ FlushStart) /\ SF_vars(store = "file" /\ FlushEnd)

----------------------------------------------------------------------------
(* Properties *)

\* The state of both stores has its type; the caches of InMemStore stay within
\* their capacity.
MCTypeOK == TypeOK /\ Mem!TypeOK

\* InMemStore: the two LRU caches hold the same pairs, when they evict and when
\* FakeDns::get recycles an address.
MemCachesAgree == Mem!CachesAgree

\* Either store: FakeDns::get takes an address from a host only when the pool is
\* exhausted, or in memory when the caches are full.
PairsKept == RoomKeepsPairs /\ Mem!RoomKeepsPairs
=============================================================================
