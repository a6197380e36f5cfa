# A TLA+ model of clash-rs

clash-rs is a rule-based proxy. Inbound listeners accept connections and packets
of local clients; the dispatcher looks up the destination, asks the router for an
outbound, and copies bytes between the two; DNS, outbound groups, remote providers
and a REST API work beside it. It is one process of concurrent tokio tasks which
share locks, channels and atomics, and whose futures are dropped wherever they wait
when a client goes away. This project models the parts in which that concurrency,
cancellation, timers and the cache file decide whether the program is right.

Paths below are relative to `src/clash-lib/src/` unless they begin with another
crate's name. `PROJECT.json` has the components, the runs, the lines every
definition stands for, the hazards and the findings in machine-readable form.

## 1. The parts of the system

| part | state | operations | what is hard in it | modelled by |
|---|---|---|---|---|
| runtime and reload (`lib.rs`), `/configs` (`app/api/handlers/config.rs`) | `GlobalState` and its mutex, reload channel, task handles, generations of components | start, PUT, PATCH, GET, reload, shutdown | a lock held across a wait, disconnects, failing loads, sockets of tasks that are aborted and not awaited | `Reload` |
| UDP dispatch (`app/dispatcher/dispatcher_impl.rs`) | session table, channels, ages | packet in, session built, reply out, cleaning, close | aborts between spawn and insertion, a full channel, idle timeout | `UdpDispatch` |
| connection tracking (`app/dispatcher/statistics_manager.rs`, `tracked.rs`) | connection list, counters | track, untrack, close, close_all, snapshot, ticker | untrack is a task of its own, counters read at different moments | `Tracker` |
| stream copy (`common/io`) | two buffers, timers, counts | read, write, flush, shutdown, half-close timeout | partial reads and writes, ends that stall | `Relay` |
| fake-IP DNS (`app/dns/fakeip`), cache file (`app/profile`) | pool offset, two tables or two LRU caches, file | lookup, reverse lookup, recycle, flush, restart | dropped lookups, torn files, eviction | `FakeIpPool`, `FakeIpMem`, `FakeIpFile` |
| proxy providers (`app/remote_content_manager/providers`), health check | vehicle, local file, hash, list, checks | initialize, pull, update request, health check | content applied after the lock is released | `Provider` |
| select group, PUT `/proxies`, its part of the cache file | index, stored name, flush tasks | select, dial, flush, reload, crash | an index into a list that changes, old flush tasks | `Selector` |
| fallback and url-test groups, proxy manager | flags, delays, cached index | test, scan | results that arrive during a scan | `GroupScan` |
| load-balance group | index, sticky cache | dial by one of three strategies | lists of other lengths, dead proxies | `Balance` |
| TCP dispatch | – | reverse lookup, route, track, copy | | partly: `Relay`, `Tracker` |
| router, rules, rule providers | rules, content | match, update | the search while content is replaced | partly: `Provider` |
| DNS resolvers, clients, DHCP, `clash-dns` | answer caches, clients, lease | exchange | main and fallback servers, reconnection | – |
| outbound manager | handlers, groups, providers | build | order of the groups | partly: `Selector` |
| inbound manager, listeners | listeners by options | start, stop, restart, change ports and addresses | keys that change or collide | partly: `Reload` |
| relay and smart groups | penalties, site statistics | dial | weights that decay | – |
| TUN, `clash-netstack` | ring buffers, wakers | poll, read, write | lost wake-ups | – |
| inbound and outbound protocols, transports | framing | | byte streams, cryptography | – |
| configuration, converters, tries, geo databases, HTTP, TLS, logging, program, FFI | | | sequential or library code | – |

The parts meet at few points: the reload replaces all of them by a new generation;
dispatch uses a group, which uses the proxy manager and the providers; fake-IP and
the select groups share the cache file; the API reaches into the connection list,
the groups, the providers and the reload.

## 2. The modules

Every wait of the code (an `await` that can be pending, a lock, a channel) is a
boundary between two actions, and what runs between two waits is one action. Where
several threads use atomics, each access is an action. A request whose client goes
away is a `Cancel`, `Disconnect` or `Abort` action, enabled wherever the handler
waits. Names are those of the code. Data are numbers and model values; definitions
whose comment begins with "Mutant" are wrong versions of the definition after them,
used to see that a property notices.

`Reload`
: The handlers of `/configs` are processes with a `pc`, the reload task is `rpc`,
  and `lockq` is the fair queue of the `GlobalState` mutex. A generation is a number;
  `origin` says which request it came from, `api` and `dns` which handles `GlobalState`
  owns. A listener is a socket: a service, a generation and an address. It is `starting`
  until its task has run as far as its bind, then `bound`, or `refused` by the socket
  that has the address; one that was aborted is `dying`, and keeps its address, until its
  task is dropped. Inbound and API listeners are bound by the tasks spawned for them, DNS
  listeners by the creation of the components, before the old ones are aborted. A config may
  need downloads (`load = "remote"`), which may never end.

`UdpDispatch`
: One call of `dispatch_datagram`: `t1` and `t2`, and for each session its
  `w_handle` and `r_handle`, with channels of capacity `ChanCap`, the table `map` and the
  cleaner (`Scan`, `Tick`). The choice of outbound is part of a packet.

`Tracker`
: Streams are `new`, `tracking`, `open` or `gone`; `notify` is the oneshot through
  which they are told to close, `woken` the copies that were woken by traffic and have
  not gone back to wait: only these are polled, and only a poll looks at `notify`.
  `UntrackOnDrop` is the build option on which the
  `Drop` of `TrackedStream` depends, `Spliced` the connections copied by `splice`.

`Relay`
: Both directions of `CopyBidirectional` with `CopyBuffer`, or the zero-copy twin when
  `zero` holds. Bytes are numbered in the order in which their sender wrote them.

`FakeIpPool`, `FakeIpMem`, `FakeIpFile`, composed in `MCFakeIp`
: The arithmetic of the pool, and `FakeDns` over either store. In memory a lookup is
  one action, as its store never waits; over the file it is one per call of the
  store. `whole` is FALSE while the tables in `disk` are written and when that has
  failed; what a new process reads is then any prefix of their text (`Torn`), which may
  end inside a name or an address (`Cut`: the texts a text begins with).

`Provider`
: `initialize`, the pull loop and the requests are processes that share the lock of the
  `Fetcher` (`writer`) and that of the provider (`applying`). Contents are numbered. A
  read may fail, and that of an Http vehicle may never end (`stalled`).

`Selector`, `GroupScan`, `Balance`, composed in `MCGroups`
: `Selector` has the request, the store and its flush task, reloads and crashes.
  `GroupScan` has one action per lock that `find_alive_proxy` and `fastest` take.
  `Balance` has the strategies for the sessions of one key; `jump_hash` is the set of
  buckets it visits.

In `MCFakeIp` and `MCGroups` a variable that is chosen once says which of the stores,
or which kind of group, is there. The variables of the others keep their initial values.

### History variables

Several properties hold except after a race that the code really has. The race is then
a history variable, set where it happens and used nowhere else, so that the property says
exactly what remains true: `muddled` (`Provider`: the newest content was dropped or
overtaken), `tangled` (`Selector`: two selections overlapped or one was cut in half),
`steady` and `racy` (`GroupScan`: nothing changed during the scan; a test published while
a scan or another test of its proxy was under way), `recent` (`FakeIpFile`: the address given
last, until a lookup is dropped), `refused` (`Reload`: which socket stood in the way of which
bind), `kept` and `allUp` (`Balance`).

## 3. The runs

### `reload`
Two PUTs, of configs that load, fail in either of two ways or wait for a server, with the
addresses of the running generation, with others or without listeners; a PATCH of the bind
address or a GET; one client may disconnect. `AnswerMeansLoaded`: a 204 means that the components
of that very request were created. `LoadedOnce`: no request is loaded twice and no broken config
becomes a generation. `NewestServes`: between reloads only the newest generation has API and DNS
listeners, and one it lacks was refused its address by an older generation. That does happen:
a reload that keeps the DNS address creates the new listener while the old one has it, and
no abort is awaited. `ListenersUp`: the inbound listeners of the newest generation listen
where its manager says, unless an older generation, whose listeners may run on, has the
address, or the client of a PATCH left in the middle of a restart. `AnsweredUnlessBlocked`: every
request is answered unless two reloads collide or a server does not answer a download of
`create_components`.

### `reload_deadlock` (violated)
`EveryRequestAnswered`: a PUT waits for its answer while it holds the `GlobalState` mutex.
A second PUT, queued on the mutex when the first is answered, gets it before the reload task,
which then waits for the mutex while the PUT waits for the reload task. The API stops.

### `udp`
Two clients, one of which sends to two destinations, three packets, a channel of one.
`SessionsTracked`: no session runs outside the table but one caught by the abort of `t1`
between spawn and insertion. `ReplyToItsSource`: a reply reaches a client that wrote to that
remote. `SendUnblocks`: a remote that never reads does not block the loop of all clients
for ever. `CloseStops`: the close signal ends all tasks.

### `tracker`
Two connections, one of them spliced; closes, a snapshot, the ticker. `OpenListed`,
`EndedUnlisted`: the list agrees with the streams, sooner or later. `SnapshotConsistent`: no
snapshot shows connections with more bytes than the whole program.
`ClosedEnds`: an order to close reaches its connection, which ends at its next traffic unless
it is spliced. An idle one does not end: `try_recv` registers no waker.

### `tracker_nodrop` (violated)
The same `EndedUnlisted` for a build other than linux with `zero_copy`, in which
`TrackedStream` has no `Drop`: a finished connection stays in the list for ever.

### `relay`
Three bytes each way through buffers of two. `InOrder`, `EofAfterData`,
`CountsExact`: what arrives, when its end arrives, and what is reported.
`FlushedEventually`: no data stay in a writer's buffer while its reader waits.
`HalfClosedEnds`: a half-closed connection ends.

### `fakeip`
Memory: four hosts, three addresses, caches smaller and larger than the pool. File: two
hosts, three addresses, any number of flushes, cancellations and restarts. `AnswersLeadBack`:
an answered address leads back to its host, or is the beginning of an address that does, which
is what a file that ended inside that address leaves behind. `NewestKept`: the address given
last is not the next to be recycled, unless a lookup was dropped or the process restarted.
`MemCachesAgree`: the two LRU caches hold the same pairs. `PairsKept`: an address is taken
away only when there is no other. `PersistedEventually`: pairs reach the disk.

### `fakeip_unflushed` (violated)
`PersistedEventually` with `store-fake-ip` on and `store-selected` off: the flush task is
not started.

### `provider`
One request beside `initialize` and the pull loop, from any local file, with two contents
and one that does not parse. `ServesHash`: list, health check and hash agree when nothing is
under way, except after `muddled`, which does happen: the content is applied after the lock
is released. `FollowsRemote`: what the vehicle keeps showing comes to be served, unless a read
stalls, `initialize` has failed, or that very content was lost or overtaken after its
hash was stored. `ListsTested`: every list is tested or replaced.

### `groups`
Three proxies. Select: two requests, a dial, a reload or a crash, a provider that changes its
list. `SelectionHonoured`: a dial takes what was selected if its list is the one in which the
selection was looked up. `StoredIsSelected`: what would be restored is what is
dialled. Scan: earlier results and two more tests, during scans or between them.
`FallbackByPriority` and `UrlTestFastest`: the choice is right among the proxies that did not
change. `FailedNotFastest`: `fastest` takes a proxy for the delay 0 of a failed test only when
a test of that proxy published its flag and its delay around a read of the scan, or mixed with
those of another test, and none has published alone since. This does happen.
Balance: two dials, three lists. `SessionAffinity`: consistent hashing moves few sessions
and sticky ones stay. `StickyFindsAlive`: a dial fails only if some proxy was dead.

### `groups_first` (violated)
`SelectedOrFirst`: the comment of `selected_proxy` promises the selected proxy or the first,
but the index of the selection points to another proxy after a provider update.

### `groups_flush` (violated)
`SelectionStaysStored`: after a reload the flush task of the old cache store goes on
writing its own selection over the one that the new store has written.

### Bounds

`MaxDisconnects`, `MaxPackets`, `MaxReplies`, `MaxBytes`, `MaxShots`, `MaxSend`, `MaxContent`,
`MaxStores`, `MaxTests` are bounds of the runs; the guards that use them are the only
difference from the code. They are just large enough for the cases that matter: two
requests to collide and a third party to look on; a channel to be full and one more packet;
a buffer to be filled, emptied and filled again; a pool to be exhausted; a list to
change between a lookup and its use; two tests to publish at once. Channels of the
code hold 32 entries and tables a thousand; nothing in the code depends on the number.

### Fairness

Weak fairness of a task's next step: tokio polls every task that was woken. Of timers and the
clock: they fire. Of peers, clients and remotes nothing is assumed: they may stay silent,
stall or leave, so `WSend`, `RRecv` (`UdpDispatch`), `Write`, `Send`, `Fin` (`Relay`), `Accept`
(`Reload`), `Wake` (`Tracker`) and all requests are not fair. The reload task is not fair while it
waits for a download (`WaitsForRemote`), and a read of a vehicle is not once it has stalled
(`Stall`): both have no timeout after they are connected. Strong fairness is used for
`FlushEnd`, as a disk on which every write fails persists nothing, and for the waiters of the
`Fetcher`'s lock, which tokio serves in order. A shutdown of a socket is assumed to complete.
A run checks deadlock unless requests or bytes can be used up.

## 4. The proofs

`ReloadProofs` proves, for every set of clients, every assignment of requests and every
bound, `SpecTypeOK`, `SpecAnswerMeansLoaded`, `SpecLoadedOnce` and `SpecNewestServes`. The
invariants are not inductive by themselves. `AnswerMeansLoaded` needs to know what each state of
a oneshot means (`ReplyInv`: a config is nowhere, in the channel, with the reload task,
dropped or loaded, and the oneshot tells which), `LoadedOnce` that a config in the channel is
not also with the reload task, and `NewestServes` what serves in each phase of the
reload and which binds were refused by whom (`ServeInv`), all of which rest on who owns the
mutex (`LockInv`). The proof has one lemma per action. `ReloadInvariant` holds the inductive
invariant and the initial states, `ReloadPutInvariant` and `ReloadPatchInvariant` the handlers,
`ReloadCreateInvariant` and `ReloadSwapInvariant` the reload task, `ReloadProofs` the listeners
and the theorems. The assumption is `ReloadAssumption`, the types of the constants.

`FakeIpProofs` proves `SpecAnswersLeadBack` and `SpecNewestKept` for every subnet of at least a
/30, every set of hosts and every `Cut`, of which it uses that the beginning of a beginning is a
beginning. The inductive invariant of the first adds `FileInv`: the lookup on its way owns its
address, and the file is as good as the memory, whole or torn, because `ip_to_host` is
written before `host_to_ip` (`TornLeadsBack`). An address cut short stays harmless to the
invariant because recycling the whole address removes the answer of its host too. The second
adds `RecentInv`: a search begins at the address given last.

Liveness, the LRU caches, the copy and the groups are only model-checked. Liveness
under fairness is out of the prover's reach.

## 5. What is not modelled, and the plan

Not planned: formatting, parsing of configurations and share links, cryptography,
sockets, routes and other calls of the operating system, logging, command line, FFI.
Memory is sequentially consistent, although `TrackedDatagram` counts with `Relaxed`.
Times are not modelled beyond the order of timers. Not covered within what is modelled: a
local copy of a provider that cannot be written; the packet loss and site statistics of the proxy manager; the delays that
`/group/:name/delay` reports, which are matched by position; the panic of a group whose
providers are all empty.

Planned, in this order:

1. *DNS.* `ip_exchange` with policy, main and fallback servers and the geoip cache kept in the cache
   file; `dns_client` reconnecting under concurrent queries; the DHCP client, which
   moves its expiry before the probe has succeeded. Properties: an answer comes from a server
   the configuration allows; a verdict does not outlive its time; one failed probe does not
   leave stale servers for a whole lease.
2. *Inbound manager.* The listeners by options, with `change_ports` and `set_allow_lan`,
   composed with `Reload`. Properties: a PATCH takes effect; no listener is
   lost when two sets of options become equal.
3. *Dispatch of TCP and the router.* Reverse lookup, rule matching against a reference
   definition, rule providers that are being replaced, composed with fake-IP: a
   connection to a fake address is routed by its name.
4. *Outbound manager.* The order in which groups are built (`dag_sort`) as an algorithm, compared
   with a definition of acyclic graphs; references between groups and providers.
5. *Network stack and TUN.* Ring buffers and wakers; refinement of a byte channel.
6. *Smart and relay groups; the datagram sessions of the QUIC protocols; the buffers of
   transports*, as refinements of the channel of 5.
7. *Proofs.* The inductive invariants of `UdpDispatch` (`SessionsTracked`), `Relay` (`InOrder`,
   `CountsExact`), `Provider` (`ServesHash`), `Selector` (`StoredIsSelected`), `GroupScan` and `Balance`.
