------------------------------ MODULE Balance ------------------------------
(* loadbalance::Handler with its three strategies (loadbalance/helpers.rs), for
   sessions of one key.  A dial gathers the proxies first and then takes the lock
   of the strategy, which it holds until the strategy has returned. *)
EXTENDS Naturals, Sequences, FiniteSets

CONSTANTS
    Proxies,
    NoProxy,
    BalanceLists,   \* the lists of proxies the group may gather
    Dials,
    Jumps           \* the buckets jump_hash visits for the key
MaxRetry == 5
NoIndex == 99       \* -1 as usize, and no entry in the cache: past every list

VARIABLES
    strategy,    \* "rr", "hash" or "sticky", which never changes
    members,     \* what the providers hold
    health,      \* the proxies that ProxyManager calls alive
    turn,        \* `index' of strategy_rr
    sticky,      \* lru_cache[key] of strategy_sticky_session
    held,        \* the dial that is in the strategy, {} if none
    mine,        \* [dial |-> the list it gathered, <<>> before that]
    try,         \* tries the strategy has made
    probe,       \* `index' of strategy_sticky_session
    picked,      \* history: the last proxy taken
    pickedFrom,  \* history: the list it was taken from
    kept,        \* history: the last proxy taken is alive and cached ever since
    allUp        \* history: every proxy has been alive since the strategy began

history == <<picked, pickedFrom, kept, allUp>>
vars == <<strategy, members, health, turn, sticky, held, mine, try, probe, history>>

\* A type invariant: at most one dial is in the strategy.
TypeOK ==
    /\ strategy \in {"rr", "hash", "sticky"}
    /\ members \in BalanceLists /\ health \subseteq Proxies
    /\ turn \in Nat /\ sticky \in Nat
    /\ held \subseteq Dials /\ Cardinality(held) <= 1
    /\ mine \in [Dials -> BalanceLists \cup {<<>>}]
    /\ try \in 0 .. MaxRetry /\ probe \in Nat
    /\ picked \in Proxies \cup {NoProxy} /\ pickedFrom \in BalanceLists \cup {<<>>}
    /\ kept \in BOOLEAN /\ allUp \in BOOLEAN

Init ==
    /\ strategy \in {"rr", "hash", "sticky"}
    /\ members \in BalanceLists /\ health = Proxies
    /\ turn = 0 /\ sticky = NoIndex
    /\ held = {} /\ mine = [d \in Dials |-> <<>>]
    /\ try = 0 /\ probe = NoIndex
    /\ picked = NoProxy /\ pickedFrom = <<>> /\ kept = FALSE /\ allUp = FALSE

----------------------------------------------------------------------------

\* jump_hash: the last bucket it visits below the number of buckets.
jump_hash(buckets) ==
    IF buckets = 0 THEN NoIndex
    ELSE CHOOSE j \in Jumps : j < buckets /\ \A k \in Jumps : k < buckets => k <= j

\* A dial has its list; an empty one panics in strategy_rr.
Gather(d) ==
    /\ mine[d] = <<>>
    /\ mine' = [mine EXCEPT ![d] = members]
    /\ UNCHANGED <<strategy, members, health, turn, sticky, held, try, probe, history>>

\* The strategy returns proxy number i of d's list, and the lock is released.
Take(d, i) ==
    /\ picked' = mine[d][i + 1]
    /\ pickedFrom' = mine[d]
    /\ kept' = (mine[d][i + 1] \in health)
    /\ mine' = [mine EXCEPT ![d] = <<>>]
    /\ held' = {} /\ try' = 0 /\ probe' = NoIndex
    /\ allUp' = FALSE
    /\ UNCHANGED <<strategy, members, health>>

\* strategy_rr
RoundRobin(d) ==
    /\ strategy = "rr" /\ held = {} /\ mine[d] # <<>>
    /\ turn' = (turn + 1) % Len(mine[d])
    /\ Take(d, turn')
    /\ UNCHANGED sticky

\* strategy_consistent_hashring: the first try succeeds.
Consistent(d) ==
    /\ strategy = "hash" /\ held = {} /\ mine[d] # <<>>
    /\ Take(d, jump_hash(Len(mine[d])))
    /\ UNCHANGED <<turn, sticky>>

----------------------------------------------------------------------------
(* strategy_sticky_session.  A key changed by the time falls into any bucket. *)

Buckets(d) == 0 .. Len(mine[d]) - 1

\* Mutant: the lock is released before the strategy is run.
StickyBeginUnlocked(d) ==
    /\ strategy = "sticky" /\ d \notin held /\ mine[d] # <<>>
    /\ held' = held \cup {d}
    /\ IF sticky # NoIndex THEN probe' = sticky ELSE probe' \in Buckets(d)
    /\ try' = 1
    /\ allUp' = (health = Proxies)
    /\ UNCHANGED <<strategy, members, health, turn, sticky, mine, picked, pickedFrom, kept>>

StickyBegin(d) ==
    /\ strategy = "sticky" /\ held = {} /\ mine[d] # <<>>
    /\ held' = {d}
    /\ IF sticky # NoIndex THEN probe' = sticky ELSE probe' \in Buckets(d)
    /\ try' = 1
    /\ allUp' = (health = Proxies)
    /\ UNCHANGED <<strategy, members, health, turn, sticky, mine, picked, pickedFrom, kept>>

Usable(d) == probe < Len(mine[d]) /\ mine[d][probe + 1] \in health

\* Mutant: the proxy is used and not remembered.
StickyHitForgets(d) ==
    /\ held = {d} /\ Usable(d)
    /\ sticky' = NoIndex
    /\ Take(d, probe)
    /\ UNCHANGED turn

\* The proxy is alive: it is cached, unless it came from the cache, and used.
StickyHit(d) ==
    /\ held = {d} /\ Usable(d)
    /\ sticky' = probe
    /\ Take(d, probe)
    /\ UNCHANGED turn

\* It is not alive, or its index is past the end of a shorter list.
StickyRetry(d) ==
    /\ held = {d} /\ ~Usable(d) /\ try < MaxRetry
    /\ try' = try + 1
    /\ probe' \in Buckets(d)
    /\ UNCHANGED <<strategy, members, health, turn, sticky, held, mine, history>>

\* Mutant: an index past the end of the list ends the search.
StickyFailEarly(d) ==
    /\ held = {d} /\ ~Usable(d) /\ (try = MaxRetry \/ probe >= Len(mine[d]))
    /\ sticky' = 0
    /\ mine' = [mine EXCEPT ![d] = <<>>]
    /\ held' = {} /\ try' = 0 /\ probe' = NoIndex
    /\ kept' = FALSE
    /\ UNCHANGED <<strategy, members, health, turn, picked, pickedFrom, allUp>>

\* "no proxy found": index 0 is cached.
StickyFail(d) ==
    /\ held = {d} /\ ~Usable(d) /\ try = MaxRetry
    /\ sticky' = 0
    /\ mine' = [mine EXCEPT ![d] = <<>>]
    /\ held' = {} /\ try' = 0 /\ probe' = NoIndex
    /\ kept' = FALSE
    /\ UNCHANGED <<strategy, members, health, turn, picked, pickedFrom, allUp>>

\* The entry is 10 minutes old, or 1024 newer ones push it out.
Expire ==
    /\ strategy = "sticky" /\ held = {} /\ sticky # NoIndex
    /\ sticky' = NoIndex
    /\ kept' = FALSE
    /\ UNCHANGED <<strategy, members, health, turn, held, mine, try, probe, picked, pickedFrom, allUp>>

----------------------------------------------------------------------------
(* The providers and the registry *)

Publish ==
    /\ members' \in BalanceLists \ {members}
    /\ UNCHANGED <<strategy, health, turn, sticky, held, mine, try, probe, history>>

\* A health result arrives.
Report(p) ==
    /\ strategy = "sticky"
    /\ health' = IF p \in health THEN health \ {p} ELSE health \cup {p}
    /\ kept' = (kept /\ picked \in health')
    /\ allUp' = (allUp /\ health' = Proxies)
    /\ UNCHANGED <<strategy, members, turn, sticky, held, mine, try, probe, picked, pickedFrom>>

Next ==
    \/ \E d \in Dials : Gather(d)
    \/ \E d \in Dials : RoundRobin(d)
    \/ \E d \in Dials : Consistent(d)
    \/ \E d \in Dials : StickyBegin(d)
    \/ \E d \in Dials : StickyHit(d)
    \/ \E d \in Dials : StickyRetry(d)
    \/ \E d \in Dials : StickyFail(d)
    \/ Expire
    \/ Publish
    \/ \E p \in Proxies : Report(p)

Spec == Init /\ [][Next]_vars

----------------------------------------------------------------------------
(* Properties *)

OneMoreProxy(short, long) == Len(long) = Len(short) + 1 /\ SubSeq(long, 1, Len(short)) = short

\* A session keeps its proxy.  Consistent hashing: the same list never moves it, and
\* a list that gains or loses its last proxy moves it only to or from that proxy.
\* Sticky sessions: it stays as long as its proxy is alive, the list is the same, the
\* entry has not expired and no dial has failed since, though the cache holds an index
\* and dials from other lists can be waiting.
SessionAffinity ==
    [][\A d \in Dials :
        /\ Consistent(d) /\ picked # NoProxy =>
            /\ mine[d] = pickedFrom => picked' = picked
            /\ OneMoreProxy(pickedFrom, mine[d]) => picked' \in {picked, mine[d][Len(mine[d])]}
            /\ OneMoreProxy(mine[d], pickedFrom) =>
                  picked' = picked \/ picked = pickedFrom[Len(pickedFrom)]
        /\ StickyHit(d) /\ kept /\ mine[d] = pickedFrom => picked' = picked]_vars

\* Sticky sessions: no dial fails while every proxy is alive, not even when the
\* cached index is past the end of a list that has become shorter.
StickyFindsAlive == [][\A d \in Dials : StickyFail(d) => ~allUp]_vars
=============================================================================
