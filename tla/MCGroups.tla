------------------------------ MODULE MCGroups ------------------------------
(* The outbound groups: a select group, a fallback or url-test group over the
   registry of health results, or a load-balance group.  `kind' is chosen once, and
   the variables of the other groups keep their initial values. *)
EXTENDS Selector

CONSTANTS a, b, c, BalanceDials, MaxDelay, MaxTests, Tolerance

Proxies == {a, b, c}

\* The group's own list is there or not; the other provider is not yet loaded,
\* repeats a name, or moves one to another place.
MCOwnLists == {<<>>, <<a>>}
MCProviderLists == {<<>>, <<a, b>>, <<b, c>>}

\* Lists of different lengths and orders.
ScanLists == {<<a, b, c>>, <<c, b>>}

\* Lists that grow, shrink and change their order.
BalanceLists == {<<a, b>>, <<a, b, c>>, <<c, a>>}

\* A key that stays in bucket 0 until a third bucket comes.
Jumps == {0, 2}

VARIABLES
    kind,
    group, flag, last, pushing, ran, step, seen, pos, best, bestDelay, cached, was,
    steady, racy,
    strategy, members, health, turn, sticky, held, mine, try, probe, picked,
    pickedFrom, kept, allUp

Scan == INSTANCE GroupScan
Lb == INSTANCE Balance WITH Dials <- BalanceDials, NoProxy <- NoName

scanVars == <<group, flag, last, pushing, ran, step, seen, pos, best, bestDelay, cached,
              was, steady, racy>>
balanceVars == <<strategy, members, health, turn, sticky, held, mine, try, probe, picked,
                 pickedFrom, kept, allUp>>

Kinds == {"select", "scan", "balance"}

\* Before a scan group starts its proxies failed, were slow or had no test.
Earlier == {0, MaxDelay, Scan!Unknown}

\* One initial state of the groups that are not there.
MCInit ==
    /\ kind \in Kinds
    /\ IF kind = "select" THEN Init
       ELSE Init /\ remember /\ own = <<a>> /\ list = <<>> /\ file = NoName
    /\ IF kind = "scan" THEN Scan!Init /\ last \in [Proxies -> Earlier]
       ELSE Scan!Init /\ group = "fallback" /\ last = [p \in Proxies |-> 0]
    /\ IF kind = "balance" THEN Lb!Init
       ELSE Lb!Init /\ strategy = "rr" /\ members = <<a, b>>

MCNext ==
    \/ kind = "select" /\ Next /\ UNCHANGED <<kind, scanVars, balanceVars>>
    \/ kind = "scan" /\ Scan!Next /\ UNCHANGED <<kind, vars, balanceVars>>
    \/ kind = "balance" /\ Lb!Next /\ UNCHANGED <<kind, vars, scanVars>>

MCSpec == MCInit /\ [][MCNext]_<<kind, vars, scanVars, balanceVars>>

----------------------------------------------------------------------------
(* Properties *)

\* The state of every group has its type; one dial at a time is in the strategy of
\* a load-balance group.
MCTypeOK == TypeOK /\ Scan!TypeOK /\ Lb!TypeOK

\* fallback::find_alive_proxy takes the first proxy that is alive, as far as that
\* did not change while it looked.
FallbackByPriority == Scan!FallbackByPriority

\* urltest::fastest takes the fastest proxy, as far as results did not change.
UrlTestFastest == Scan!UrlTestFastest

\* urltest::fastest and ProxyManager: no proxy is the fastest by a test that failed,
\* but for results that arrive at once.
FailedNotFastest == Scan!FailedNotFastest

\* strategy_consistent_hashring and strategy_sticky_session keep a session with its
\* proxy.
SessionAffinity == Lb!SessionAffinity

\* strategy_sticky_session fails only when a proxy was dead.
StickyFindsAlive == Lb!StickyFindsAlive
=============================================================================
