----------------------------- MODULE GroupScan -----------------------------
(* ProxyManager, the registry of health results, and the two groups that scan it:
   fallback (find_alive_proxy) and url-test (fastest).

   url_test publishes its result in two steps, the alive flag and then the delay,
   each under the lock of the registry; tests of one proxy run concurrently (health
   checks of several providers, delay requests).  A scan takes the lock anew for
   every flag and every delay it reads.  A delay of 0 is the default that
   a failed test records. *)
EXTENDS Naturals, Sequences, FiniteSets

CONSTANTS
    Proxies,
    ScanLists,     \* the lists of proxies a group may gather; an empty one panics
    MaxDelay,
    MaxTests,      \* bound: tests in a behaviour
    Tolerance

Unknown == MaxDelay + Tolerance + 1   \* longer than every delay: Duration::MAX

VARIABLES
    group,      \* "fallback" or "urltest", which never changes
    flag,       \* [p |-> "new", "up" or "down"]: ProxyState.alive
    last,       \* [p |-> last delay, Unknown if delay_history is empty]
    pushing,    \* results of tests whose flag is set and whose delay is not
    ran,        \* number of tests so far
    step,       \* where the scan is
    seen,       \* the list it gathered
    pos,        \* the position it looks at
    best, bestDelay,   \* `fastest' and `fastest_delay'
    cached,     \* fastest_proxy_index
    was,        \* what cached was when the scan began (current_fastest_index)
    steady,     \* history: proxies whose state has not changed since then
    racy        \* history: proxies of which a test published while a scan or another
                \* of its tests was under way, and none has published alone since

registry == <<flag, last, pushing, ran, racy>>
scan == <<step, seen, pos, best, bestDelay, cached, was>>
vars == <<group, registry, scan, steady>>

Results == 0 .. MaxDelay     \* 0: the test failed
Alive(p) == flag[p] # "down"
LastDelay(p) == IF Alive(p) THEN last[p] ELSE Unknown

\* A type invariant: what the scan holds is a position of its list and a delay
\* it can have read.
TypeOK ==
    /\ group \in {"fallback", "urltest"}
    /\ flag \in [Proxies -> {"new", "up", "down"}]
    /\ last \in [Proxies -> Results \cup {Unknown}]
    /\ pushing \subseteq [test : 1 .. MaxTests, proxy : Proxies, delay : Results]
    /\ ran \in 0 .. MaxTests
    /\ step \in {"idle", "first", "firstDelay", "look", "alive", "delay", "keep", "done"}
    /\ seen \in ScanLists \cup {<<>>} /\ cached \in Nat /\ was \in Nat
    /\ step # "idle" => best \in DOMAIN seen /\ pos \in 1 .. Len(seen) + 1
    /\ step \in {"alive", "delay", "keep"} => pos \in DOMAIN seen
    /\ bestDelay \in Results \cup {Unknown}
    /\ steady \subseteq Proxies /\ racy \subseteq Proxies

\* Some proxies have been tested before, one test at a time.
Init ==
    /\ group \in {"fallback", "urltest"}
    /\ last \in [Proxies -> Results \cup {Unknown}]
    /\ flag = [p \in Proxies |-> CASE last[p] = 0 -> "down"
                                  [] last[p] = Unknown -> "new"
                                  [] OTHER -> "up"]
    /\ pushing = {} /\ ran = 0
    /\ step = "idle" /\ seen = <<>> /\ pos = 1
    /\ best = 1 /\ bestDelay = Unknown
    /\ cached = 0 /\ was = 0
    /\ steady = {} /\ racy = {}

----------------------------------------------------------------------------
(* ProxyManager::url_test *)

\* Mutant: a test that fails leaves the flag alone.
ReportFlagOk(p, d) == [flag EXCEPT ![p] = IF d > 0 THEN "up" ELSE @]

\* report_alive, which makes the entry of a new proxy.
ReportFlag(p, d) == [flag EXCEPT ![p] = IF d > 0 THEN "up" ELSE "down"]

Publishing == {t.proxy : t \in pushing}

\* A test of p ends with delay d.
Report(p, d) ==
    /\ ran < MaxTests
    /\ ran' = ran + 1
    /\ flag' = ReportFlag(p, d)
    /\ pushing' = pushing \cup {[test |-> ran + 1, proxy |-> p, delay |-> d]}
    /\ racy' = IF p \in Publishing \/ step # "idle" THEN racy \cup {p} ELSE racy \ {p}
    /\ steady' = IF flag'[p] = flag[p] THEN steady ELSE steady \ {p}
    /\ UNCHANGED <<group, last, scan>>

\* The delay goes to the end of delay_history.
Push(t) ==
    /\ pushing' = pushing \ {t}
    /\ last' = [last EXCEPT ![t.proxy] = t.delay]
    /\ steady' = IF last'[t.proxy] = last[t.proxy] THEN steady ELSE steady \ {t.proxy}
    /\ UNCHANGED <<group, flag, ran, racy, scan>>

----------------------------------------------------------------------------
(* get_proxies_from_providers begins a scan of either group *)

Gather ==
    /\ step = "idle"
    /\ seen' \in ScanLists
    /\ pos' = 1 /\ best' = 1 /\ bestDelay' = Unknown
    /\ was' = IF cached < Len(seen') THEN cached ELSE Len(seen') - 1
    /\ step' = IF group = "fallback" THEN "look" ELSE "first"
    /\ steady' = Proxies /\ racy' = racy \cup Publishing
    /\ UNCHANGED <<group, cached, flag, last, pushing, ran>>

\* The caller connects through seen[best].
Finish ==
    /\ step = "done"
    /\ step' = "idle" /\ seen' = <<>> /\ pos' = 1 /\ best' = 1 /\ bestDelay' = Unknown
    /\ was' = 0 /\ steady' = {}
    /\ UNCHANGED <<group, cached, registry>>

----------------------------------------------------------------------------
(* fallback::Handler::find_alive_proxy *)

\* Mutant: the last proxy is taken without a look.
FallbackLookShort ==
    /\ group = "fallback" /\ step = "look" /\ pos <= Len(seen)
    /\ \/ (Alive(seen[pos]) \/ pos = Len(seen)) /\ best' = pos /\ step' = "done" /\ UNCHANGED pos
       \/ ~Alive(seen[pos]) /\ pos < Len(seen) /\ pos' = pos + 1 /\ UNCHANGED <<best, step>>
    /\ UNCHANGED <<group, seen, bestDelay, cached, was, registry, steady>>

FallbackLook ==
    /\ group = "fallback" /\ step = "look" /\ pos <= Len(seen)
    /\ \/ Alive(seen[pos]) /\ best' = pos /\ step' = "done" /\ UNCHANGED pos
       \/ ~Alive(seen[pos]) /\ pos' = pos + 1 /\ UNCHANGED <<best, step>>
    /\ UNCHANGED <<group, seen, bestDelay, cached, was, registry, steady>>

\* No proxy is alive: the first one is used.
FallbackNone ==
    /\ group = "fallback" /\ step = "look" /\ pos > Len(seen)
    /\ step' = "done"
    /\ UNCHANGED <<group, seen, pos, best, bestDelay, cached, was, registry, steady>>

----------------------------------------------------------------------------
(* urltest::Handler::fastest.  last_delay reads the flag, then the delay. *)

FirstAlive ==
    /\ step = "first"
    /\ IF Alive(seen[1]) THEN step' = "firstDelay" /\ UNCHANGED pos
                         ELSE step' = "look" /\ pos' = 2
    /\ UNCHANGED <<group, seen, best, bestDelay, cached, was, registry, steady>>

FirstDelay ==
    /\ step = "firstDelay"
    /\ bestDelay' = last[seen[1]]
    /\ step' = "look" /\ pos' = 2
    /\ UNCHANGED <<group, seen, best, cached, was, registry, steady>>

\* A proxy that is not alive is passed over.
UrlTestLook ==
    /\ group = "urltest" /\ step = "look" /\ pos <= Len(seen)
    /\ IF Alive(seen[pos]) THEN step' = "alive" /\ UNCHANGED pos
                          ELSE pos' = pos + 1 /\ UNCHANGED step
    /\ UNCHANGED <<group, seen, best, bestDelay, cached, was, registry, steady>>

DelayAlive ==
    /\ step = "alive"
    /\ step' = IF Alive(seen[pos]) THEN "delay" ELSE "keep"
    /\ UNCHANGED <<group, seen, pos, best, bestDelay, cached, was, registry, steady>>

\* Mutant: the comparison is the wrong way round once a delay is known.
CompareSlower ==
    /\ step = "delay"
    /\ IF last[seen[pos]] < bestDelay \/ bestDelay < last[seen[pos]]
          THEN best' = pos /\ bestDelay' = last[seen[pos]]
          ELSE UNCHANGED <<best, bestDelay>>
    /\ step' = "keep"
    /\ UNCHANGED <<group, seen, pos, cached, was, registry, steady>>

Compare ==
    /\ step = "delay"
    /\ IF last[seen[pos]] < bestDelay
          THEN best' = pos /\ bestDelay' = last[seen[pos]]
          ELSE UNCHANGED <<best, bestDelay>>
    /\ step' = "keep"
    /\ UNCHANGED <<group, seen, pos, cached, was, registry, steady>>

\* `fast_not_exist': the loop, which begins at the second proxy, has not met the
\* remembered one.
FastNotExist == was + 1 \notin 2 .. pos

\* What the scan remembers for the next one.  No scan returns it.
Keep ==
    /\ step = "keep"
    /\ cached' =
         IF \/ FastNotExist \/ Alive(seen[best])
            \/ LET d == LastDelay(seen[was + 1]) IN d # Unknown /\ d > bestDelay + Tolerance
         THEN best - 1 ELSE cached
    /\ pos' = pos + 1 /\ step' = "look"
    /\ UNCHANGED <<group, seen, best, bestDelay, was, registry, steady>>

UrlTestEnd ==
    /\ group = "urltest" /\ step = "look" /\ pos > Len(seen)
    /\ step' = "done"
    /\ UNCHANGED <<group, seen, pos, best, bestDelay, cached, was, registry, steady>>

Next ==
    \/ \E p \in Proxies, d \in Results : Report(p, d)
    \/ \E t \in pushing : Push(t)
    \/ Gather
    \/ Finish
    \/ FallbackLook
    \/ FallbackNone
    \/ FirstAlive
    \/ FirstDelay
    \/ UrlTestLook
    \/ DelayAlive
    \/ Compare
    \/ Keep
    \/ UrlTestEnd

Spec == Init /\ [][Next]_vars

----------------------------------------------------------------------------
(* Properties *)

Settled(p) == p \in steady
Position(p) == CHOOSE i \in DOMAIN seen : seen[i] = p
Listed == {seen[i] : i \in DOMAIN seen}

\* fallback: whatever results arrive while it scans, the group takes no proxy that
\* was dead all the time while another was alive all the time, and passes over no
\* proxy that was alive all the time; when all stay dead it takes the first.
FallbackByPriority ==
    group = "fallback" /\ step = "done" =>
        /\ \A q \in Listed \cap steady : Alive(q) =>
              /\ Position(q) >= best
              /\ ~(Settled(seen[best]) /\ ~Alive(seen[best]))
        /\ (\A q \in Listed : Settled(q) /\ ~Alive(q)) => best = 1

\* url-test: of the proxies whose results did not change during the scan, none is
\* faster than the one taken, and a dead one is taken only when it is the first.
UrlTestFastest ==
    group = "urltest" /\ step = "done" /\ Settled(seen[best]) =>
        /\ \A q \in Listed \cap steady : LastDelay(q) >= LastDelay(seen[best])
        /\ ~Alive(seen[best]) => best = 1

\* url-test: the delay 0 of a failed test makes no proxy the fastest, as the alive
\* flag keeps `fastest' from reading it, unless a test of that proxy published its
\* flag and its delay (remote_content_manager/mod.rs:845 and 858) around a read of the
\* scan or of another test, and none has published alone since.
FailedNotFastest ==
    group = "urltest" /\ step = "done" /\ bestDelay = 0 => seen[best] \in racy
=============================================================================
