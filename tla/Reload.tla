------------------------------- MODULE Reload -------------------------------
(***************************************************************************)
(* The control plane of the runtime: the reload task of lib.rs::start, the *)
(* REST handlers of /configs (PUT, PATCH, GET) and the locks, channels and *)
(* background tasks they share.                                            *)
(*                                                                         *)
(* A configuration load creates a GENERATION of components (dispatcher,    *)
(* inbound manager, DNS listener, API listener).  Generation 0 is the one  *)
(* `start' creates; the n-th load that gets through create_components      *)
(* creates generation n.  A request is served by the API listener of the   *)
(* generation that accepted it and keeps using the components of that      *)
(* generation, also after a reload.                                        *)
(*                                                                         *)
(* The tokio Mutex around GlobalState is fair: its waiters are served in   *)
(* the order of their lock() calls.  The sequence `lockq' is that queue;   *)
(* its head owns the lock.                                                 *)
(*                                                                         *)
(* A listener is a socket of a service (inbound, API or DNS), of a         *)
(* generation, on an address.  An address can be bound again only after    *)
(* the socket that holds it was dropped, which for an aborted task is some *)
(* time after the abort unless somebody awaits it.  Other programs leave   *)
(* the addresses alone.                                                    *)
(***************************************************************************)
EXTENDS Naturals, Sequences

CONSTANTS
    Clients,        \* clients of the API
    Requests,       \* what the clients may send, each one request
    Addrs,          \* addresses a listener can be given
    StartCfg,       \* the configuration of generation 0
    MaxDisconnects  \* bound: clients that close the connection early

(* A PUT, by what loading its config comes to.                             *)
Loads == {"good",          \* parses, components are created
          "remote",        \* the same, but files are fetched from a server
          "parse_error",   \* Config::try_parse fails
          "create_error",  \* create_components fails
          "absent"}        \* no payload, and no path or a path without a file

(* A PATCH, by what it changes.                                            *)
Changes == {"plain",       \* mode, log level, ipv6
            "rebuild",     \* a port, or allow_lan: the listeners restart
            "bind",        \* bind_address: they restart on another address
            "invalid"}     \* a bind_address that is none

(* What a request carries.  dns.listen is a set of addresses, one for each *)
(* protocol; `api' is empty without external_controller; a PATCH uses      *)
(* `inbound' only and a GET nothing.                                       *)
Bodies == [load : Loads \cup Changes \cup {"get"},
           inbound : Addrs, api : SUBSET Addrs, dns : SUBSET Addrs]

ASSUME ReloadAssumption ==
    /\ Requests \subseteq [Clients -> Bodies]
    /\ StartCfg \in Bodies
    /\ MaxDisconnects \in Nat
    /\ "reloader" \notin Clients

VARIABLES
    runtime,    \* the future select_all(tasks) of `start'
    lockq,      \* queue of the GlobalState mutex, head = owner
    chan,       \* reload_tx/reload_rx, capacity 1: clients whose config waits
    pc,         \* control state of each request's handler
    cfg,        \* body of each request
    gen,        \* generation whose API listener accepted the request
    oneshot,    \* the done/wait channel of each PUT
    rpc,        \* control state of the reload task
    cur,        \* client whose config the reload task is working on
    origin,     \* origin[g] = client whose PUT created generation g
    opts,       \* opts[g] = address in the inbound manager of generation g
    starting,   \* sockets whose listener task was spawned and has not bound
    bound,      \* sockets that listen
    dying,      \* sockets of aborted tasks that are not dropped yet
    api,        \* GlobalState.api_listener_handle (a set of at most one)
    dns,        \* GlobalState.dns_listener_handle (a set of at most one)
    disconnects,
    refused     \* history: <<s, t>> if the last bind of s found t in its way

lockVars   == <<lockq, chan, oneshot>>
clientVars == <<pc, cfg, gen, disconnects>>
sockVars   == <<starting, bound, dying, refused>>
genVars    == <<origin, opts, sockVars, api, dns>>
vars == <<runtime, lockVars, clientVars, rpc, cur, genVars>>

Reloader  == "reloader"
None      == "none"
ChanCap   == 1
Newest    == Len(origin)
Gens      == 0 .. Newest
Final     == {"ok", "refused", "panicked", "gone"}

IsPut(c)   == cfg[c].load \in Loads
IsPatch(c) == cfg[c].load \in Changes
GenCfg(g)  == IF g = 0 THEN StartCfg ELSE cfg[origin[g]]

Sock(svc, g, a) == [svc |-> svc, gen |-> g, addr |-> a]
SocksOf(svc, g, as) == {Sock(svc, g, a) : a \in as}
Of(svc, gs, S) == {s \in S : s.svc = svc /\ s.gen \in gs}
ApiSocks(g) == SocksOf("api", g, GenCfg(g).api)
DnsSocks(g) == SocksOf("dns", g, GenCfg(g).dns)
Same(s, t) == s.svc = t.svc /\ s.addr = t.addr
(* The socket, listening or aborted, that holds the address of s.          *)
Holders(s) == {t \in bound \cup dying : Same(s, t)}

Running    == runtime = "running"
Holds(p)   == lockq # <<>> /\ Head(lockq) = p
Acquire(p) == lockq' = Append(lockq, p)
Release    == lockq' = Tail(lockq)
Goto(c, l) == pc' = [pc EXCEPT ![c] = l]
Leave(p) ==
    \E i \in 1 .. Len(lockq) :
        /\ lockq[i] = p
        /\ lockq' = [j \in 1 .. Len(lockq) - 1 |->
                        IF j < i THEN lockq[j] ELSE lockq[j + 1]]

(* `start' has run and the listeners of generation 0 are up.               *)
Init ==
    /\ runtime = "running"
    /\ lockq = <<>> /\ chan = <<>>
    /\ pc = [c \in Clients |-> "idle"]
    /\ cfg \in Requests
    /\ gen = [c \in Clients |-> 0]
    /\ oneshot = [c \in Clients |-> "none"]
    /\ rpc = "recv" /\ cur = None
    /\ origin = <<>>
    /\ opts = [g \in {0} |-> StartCfg.inbound]
    /\ bound = {Sock("inbound", 0, StartCfg.inbound)}
                 \cup SocksOf("api", 0, StartCfg.api) \cup SocksOf("dns", 0, StartCfg.dns)
    /\ starting = {} /\ dying = {} /\ refused = {}
    /\ api = {g \in {0} : StartCfg.api # {}}
    /\ dns = {g \in {0} : StartCfg.dns # {}}
    /\ disconnects = 0

-----------------------------------------------------------------------------
(* The inbound manager of a generation                                     *)

(* start_all_listeners, first loop: every listener there is a handle of is *)
(* aborted and its end awaited.                                            *)
StopListeners(g) ==
    /\ starting' = starting \ Of("inbound", {g}, starting)
    /\ bound' = bound \ Of("inbound", {g}, bound)

(* start_all_listeners, second loop: new listeners are spawned, on the     *)
(* address the options have now.                                           *)
StartListeners(g) == {Sock("inbound", g, opts[g])}

(* shutdown: the listeners are aborted and nobody waits for their end.     *)
ShutdownListeners(g) ==
    /\ StopListeners(g)
    /\ dying' = dying \cup Of("inbound", {g}, bound)

-----------------------------------------------------------------------------
(* REST handlers                                                           *)

(* InboundManager::set_bind_address: the listeners are left as they are.   *)
SetBindAddress(g, a) == opts' = [opts EXCEPT ![g] = a]

(* A request reaches an API listener and its handler calls                 *)
(* global_state.lock(); patch_configs calls set_bind_address before that.  *)
Accept(c) ==
    /\ Running
    /\ pc[c] = "idle"
    /\ cfg[c].load # "invalid"
    /\ \E s \in bound :
          /\ s.svc = "api"
          /\ gen' = [gen EXCEPT ![c] = s.gen]
          /\ IF cfg[c].load = "bind" THEN SetBindAddress(s.gen, cfg[c].inbound)
                                     ELSE UNCHANGED opts
    /\ Goto(c, "lock")
    /\ Acquire(c)
    /\ UNCHANGED <<chan, oneshot, cfg, disconnects, runtime, rpc, cur,
                   origin, sockVars, api, dns>>

(* get_configs: everything after the lock only reads.                      *)
Get(c) ==
    /\ Running
    /\ cfg[c].load = "get" /\ pc[c] = "lock" /\ Holds(c)
    /\ Goto(c, "ok")
    /\ Release
    /\ UNCHANGED <<chan, oneshot, cfg, gen, disconnects, runtime, rpc, cur, genVars>>

(* update_configs: the request carries nothing that can be loaded.         *)
PutRefused(c) ==
    /\ Running
    /\ pc[c] = "lock" /\ Holds(c)
    /\ cfg[c].load = "absent"
    /\ Goto(c, "refused")
    /\ Release
    /\ UNCHANGED <<chan, oneshot, cfg, gen, disconnects, runtime, rpc, cur, genVars>>

(* Mutant: the reload channel is unbounded.                                *)
PutSendUnbounded(c) ==
    /\ Running
    /\ pc[c] = "lock" /\ Holds(c)
    /\ IsPut(c) /\ cfg[c].load # "absent"
    /\ chan' = Append(chan, c)
    /\ oneshot' = [oneshot EXCEPT ![c] = "open"]
    /\ Goto(c, "wait")
    /\ UNCHANGED <<lockq, cfg, gen, disconnects, runtime, rpc, cur, genVars>>

(* update_configs: reload_tx.send((cfg, done)).await, the lock being held. *)
PutSend(c) ==
    /\ Running
    /\ pc[c] = "lock" /\ Holds(c)
    /\ IsPut(c) /\ cfg[c].load # "absent"
    /\ Len(chan) < ChanCap
    /\ chan' = Append(chan, c)
    /\ oneshot' = [oneshot EXCEPT ![c] = "open"]
    /\ Goto(c, "wait")
    /\ UNCHANGED <<lockq, cfg, gen, disconnects, runtime, rpc, cur, genVars>>

(* wait.await.unwrap(): the answer, or a panic when `done' was dropped.    *)
PutAnswer(c) ==
    /\ Running
    /\ pc[c] = "wait" /\ oneshot[c] \in {"sent", "dropped"}
    /\ Goto(c, IF oneshot[c] = "sent" THEN "ok" ELSE "panicked")
    /\ Release
    /\ UNCHANGED <<chan, oneshot, cfg, gen, disconnects, runtime, rpc, cur, genVars>>

(* Mutant: the aborted listeners are not awaited.                          *)
PatchStopNoAwait(c) ==
    /\ Running
    /\ pc[c] = "lock" /\ Holds(c)
    /\ cfg[c].load \in {"rebuild", "bind"}
    /\ ShutdownListeners(gen[c])
    /\ Goto(c, "restart")
    /\ UNCHANGED <<lockVars, cfg, gen, disconnects, runtime, rpc, cur,
                   origin, opts, refused, api, dns>>

(* patch_configs, a change that needs the listeners rebuilt:               *)
(* inbound_manager.restart() stops them under one write lock ...           *)
PatchStop(c) ==
    /\ Running
    /\ pc[c] = "lock" /\ Holds(c)
    /\ cfg[c].load \in {"rebuild", "bind"}
    /\ StopListeners(gen[c])
    /\ Goto(c, "restart")
    /\ UNCHANGED <<lockVars, cfg, gen, disconnects, runtime, rpc, cur,
                   origin, opts, dying, refused, api, dns>>

(* ... and starts them under another one.  change_ports left the ports as  *)
(* they were: it picks the listeners whose port already is the new one.    *)
PatchStart(c) ==
    /\ Running
    /\ pc[c] = "restart"
    /\ starting' = starting \cup StartListeners(gen[c])
    /\ Goto(c, "ok")
    /\ Release
    /\ UNCHANGED <<chan, oneshot, cfg, gen, disconnects, runtime, rpc, cur,
                   origin, opts, bound, dying, refused, api, dns>>

(* patch_configs, a change of mode, log level or ipv6 only.                *)
PatchPlain(c) ==
    /\ Running
    /\ pc[c] = "lock" /\ Holds(c)
    /\ cfg[c].load = "plain"
    /\ Goto(c, "ok")
    /\ Release
    /\ UNCHANGED <<chan, oneshot, cfg, gen, disconnects, runtime, rpc, cur, genVars>>

(* patch_configs with an unparsable bind address returns before the lock.  *)
PatchInvalid(c) ==
    /\ Running
    /\ pc[c] = "idle"
    /\ cfg[c].load = "invalid"
    /\ \E s \in bound : s.svc = "api"
    /\ Goto(c, "refused")
    /\ UNCHANGED <<lockVars, cfg, gen, disconnects, runtime, rpc, cur, genVars>>

(* The client closes its connection; the server drops the handler, its     *)
(* mutex guard or place in the queue, and the receiving end of the oneshot.*)
Disconnect(c) ==
    /\ Running
    /\ pc[c] \in {"lock", "wait", "restart"}
    /\ disconnects < MaxDisconnects
    /\ disconnects' = disconnects + 1
    /\ Leave(c)
    /\ Goto(c, "gone")
    /\ UNCHANGED <<chan, oneshot, cfg, gen, runtime, rpc, cur, genVars>>

-----------------------------------------------------------------------------
(* The reload task                                                         *)

(* Mutant: `done' is kept alive when the config does not parse.            *)
ReloadRecvKeepsDone ==
    /\ Running
    /\ rpc = "recv" /\ chan # <<>>
    /\ chan' = Tail(chan)
    /\ IF cfg[Head(chan)].load = "parse_error"
       THEN UNCHANGED <<rpc, cur>>
       ELSE rpc' = "create" /\ cur' = Head(chan)
    /\ UNCHANGED <<lockq, oneshot, clientVars, runtime, genVars>>

(* Mutant: the request is answered before its components are created.      *)
ReloadRecvAnswersEarly ==
    /\ Running
    /\ rpc = "recv" /\ chan # <<>>
    /\ chan' = Tail(chan)
    /\ oneshot' = [oneshot EXCEPT ![Head(chan)] = "sent"]
    /\ rpc' = "create" /\ cur' = Head(chan)
    /\ UNCHANGED <<lockq, clientVars, runtime, genVars>>

(* reload_rx.recv(), then try_parse: on an error the task logs and goes    *)
(* on, dropping `done'.                                                    *)
ReloadRecv ==
    /\ Running
    /\ rpc = "recv" /\ chan # <<>>
    /\ chan' = Tail(chan)
    /\ LET c == Head(chan) IN
       \/ /\ cfg[c].load = "parse_error"
          /\ oneshot' = [oneshot EXCEPT ![c] = "dropped"]
          /\ UNCHANGED <<rpc, cur>>
       \/ /\ cfg[c].load # "parse_error"
          /\ rpc' = "create" /\ cur' = c
          /\ UNCHANGED oneshot
    /\ UNCHANGED <<lockq, clientVars, runtime, genVars>>

(* Mutant: what could be created is used as the new generation.            *)
ReloadCreateFailsGoesOn ==
    /\ Running
    /\ rpc = "create" /\ cfg[cur].load \in {"create_error", "remote"}
    /\ origin' = Append(origin, cur)
    /\ opts' = [g \in 0 .. Newest + 1 |-> IF g \in Gens THEN opts[g] ELSE cfg[cur].inbound]
    /\ rpc' = "stop"
    /\ UNCHANGED <<lockVars, clientVars, runtime, cur, sockVars, api, dns>>

(* create_components(..).await? ends the task, and with it select_all.  A  *)
(* download that fails does the same.                                      *)
ReloadCreateFails ==
    /\ Running
    /\ rpc = "create" /\ cfg[cur].load \in {"create_error", "remote"}
    /\ runtime' = "failed"
    /\ UNCHANGED <<lockVars, clientVars, rpc, cur, genVars>>

(* get_dns_listener, the last step of create_components: it binds the      *)
(* addresses that nobody holds, and the listener of the running generation *)
(* still holds its own.  An error is logged, and without any socket there  *)
(* is no listener.                                                         *)
NewDns     == SocksOf("dns", Newest + 1, cfg[cur].dns)
DnsBound   == {s \in NewDns : Holders(s) = {}}
DnsRefused == UNION {{s} \X Holders(s) : s \in NewDns}

(* The components exist; done.send(()).unwrap() panics when the handler    *)
(* that waited is gone.                                                    *)
ReloadCreated ==
    /\ Running
    /\ rpc = "create" /\ cfg[cur].load \in {"good", "remote"}
    /\ origin' = Append(origin, cur)
    /\ opts' = [g \in 0 .. Newest + 1 |-> IF g \in Gens THEN opts[g] ELSE cfg[cur].inbound]
    /\ bound' = bound \cup DnsBound
    /\ refused' = refused \cup DnsRefused
    /\ \/ /\ pc[cur] = "wait"
          /\ oneshot' = [oneshot EXCEPT ![cur] = "sent"]
          /\ rpc' = "stop"
          /\ UNCHANGED runtime
       \/ /\ pc[cur] # "wait"
          /\ runtime' = "panicked"
          /\ UNCHANGED <<oneshot, rpc>>
    /\ UNCHANGED <<lockq, chan, clientVars, cur, starting, dying, api, dns>>

(* inbound_manager.shutdown() on the manager captured by the task, which   *)
(* is the one of generation 0 (the loop body's `let inbound_manager' only  *)
(* shadows it), then global_state.lock().  shutdown aborts and does not    *)
(* wait.                                                                   *)
ReloadStop ==
    /\ Running
    /\ rpc = "stop"
    /\ ShutdownListeners(0)
    /\ Acquire(Reloader)
    /\ rpc' = "lock"
    /\ UNCHANGED <<chan, oneshot, clientVars, runtime, cur, origin, opts, refused, api, dns>>

(* Mutant: the DNS listener of the old generation is not aborted.          *)
ReloadAbortForgetsDns ==
    /\ Running
    /\ rpc = "lock" /\ Holds(Reloader)
    /\ starting' = starting \ Of("api", api, starting)
    /\ bound' = bound \ Of("api", api, bound)
    /\ dying' = dying \cup Of("api", api, bound)
    /\ api' = {}
    /\ rpc' = "install"
    /\ UNCHANGED <<lockVars, clientVars, runtime, cur, origin, opts, refused, dns>>

(* The handles in GlobalState are taken and their tasks aborted; nobody    *)
(* waits for their end.                                                    *)
ReloadAbort ==
    /\ Running
    /\ rpc = "lock" /\ Holds(Reloader)
    /\ starting' = starting \ Of("api", api, starting)
    /\ LET ended == Of("api", api, bound) \cup Of("dns", dns, bound) IN
       /\ bound' = bound \ ended
       /\ dying' = dying \cup ended
    /\ api' = {} /\ dns' = {}
    /\ rpc' = "install"
    /\ UNCHANGED <<lockVars, clientVars, runtime, cur, origin, opts, refused>>

(* The new generation's inbound and API listeners are spawned, and its DNS *)
(* listener if it has a socket; the handles are stored and the guard is    *)
(* dropped at the end of the body.                                         *)
ReloadInstall ==
    /\ Running
    /\ rpc = "install"
    /\ starting' = starting \cup StartListeners(Newest) \cup ApiSocks(Newest)
    /\ api' = {g \in {Newest} : GenCfg(Newest).api # {}}
    /\ dns' = {g \in {Newest} : Of("dns", {Newest}, bound) # {}}
    /\ Release
    /\ rpc' = "recv" /\ cur' = None
    /\ UNCHANGED <<chan, oneshot, clientVars, runtime, origin, opts, bound, dying, refused>>

-----------------------------------------------------------------------------
(* Listeners                                                               *)

(* A spawned listener binds its address and listens; the task of one that  *)
(* cannot logs the error and ends.                                         *)
Bind(s) ==
    /\ Running
    /\ s \in starting
    /\ starting' = starting \ {s}
    /\ bound' = bound \cup {t \in {s} : Holders(s) = {}}
    /\ refused' = {p \in refused : p[1] # s} \cup ({s} \X Holders(s))
    /\ UNCHANGED <<lockVars, clientVars, runtime, rpc, cur, origin, opts, dying, api, dns>>

(* The runtime drops an aborted task, and with it the socket.              *)
Drop(s) ==
    /\ Running
    /\ s \in dying
    /\ dying' = dying \ {s}
    /\ UNCHANGED <<lockVars, clientVars, runtime, rpc, cur, origin, opts,
                   starting, bound, refused, api, dns>>

(* shutdown() clears the senders of the runtime controller, or ctrl-c:     *)
(* `start' returns, and the runtime drops its tasks and their sockets.     *)
Shutdown ==
    /\ Running
    /\ runtime' = "stopped"
    /\ starting' = {} /\ bound' = {} /\ dying' = {} /\ refused' = {}
    /\ UNCHANGED <<lockVars, clientVars, rpc, cur, origin, opts, api, dns>>

-----------------------------------------------------------------------------
Handler(c) ==
    \/ Get(c) \/ PutRefused(c) \/ PutSend(c) \/ PutAnswer(c)
    \/ PatchStop(c) \/ PatchStart(c) \/ PatchPlain(c)

ReloadTask ==
    \/ ReloadRecv \/ ReloadCreateFails \/ ReloadCreated
    \/ ReloadStop \/ ReloadAbort \/ ReloadInstall

Next ==
    \/ \E c \in Clients : \/ Accept(c) \/ Handler(c)
                          \/ PatchInvalid(c) \/ Disconnect(c)
    \/ ReloadTask
    \/ \E s \in starting : Bind(s)
    \/ \E s \in dying : Drop(s)
    \/ Shutdown

Spec == Init /\ [][Next]_vars

(* The reload task waits for a server: the client of the downloads has a   *)
(* timeout for the connection and none for the answer.                     *)
WaitsForRemote == rpc = "create" /\ cfg[cur].load = "remote"

(* The tokio scheduler polls every task that was woken.  Clients promise   *)
(* nothing, a server need not answer, and nobody need ever shut the        *)
(* runtime down.                                                           *)
Fairness ==
    /\ \A c \in Clients : WF_vars(Handler(c))
    /\ WF_vars(~WaitsForRemote /\ ReloadTask)

FairSpec == Spec /\ Fairness

-----------------------------------------------------------------------------
(* Properties                                                              *)

Socks == [svc : {"inbound", "api", "dns"}, gen : Gens, addr : Addrs]

(* Every variable has its type.                                            *)
TypeOK ==
    /\ runtime \in {"running", "stopped", "failed", "panicked"}
    /\ lockq \in Seq(Clients \cup {Reloader})
    /\ chan \in Seq(Clients) /\ Len(chan) =< ChanCap
    /\ pc \in [Clients -> {"idle", "lock", "wait", "restart"} \cup Final]
    /\ cfg \in [Clients -> Bodies]
    /\ gen \in [Clients -> Gens]
    /\ oneshot \in [Clients -> {"none", "open", "sent", "dropped"}]
    /\ rpc \in {"recv", "create", "stop", "lock", "install"}
    /\ cur \in Clients \cup {None}
    /\ origin \in Seq(Clients)
    /\ opts \in [Gens -> Addrs]
    /\ starting \subseteq Socks /\ bound \subseteq Socks /\ dying \subseteq Socks
    /\ refused \subseteq Socks \X Socks
    /\ api \subseteq Gens /\ dns \subseteq Gens
    /\ disconnects \in 0 .. MaxDisconnects

(* PUT /configs answers 204 only when the components of that very request  *)
(* were created, whatever other requests, failures and disconnects did in  *)
(* between (update_configs with the oneshot, lib.rs reload task).          *)
AnswerMeansLoaded ==
    \A c \in Clients :
        IsPut(c) /\ pc[c] = "ok" => \E g \in 1 .. Newest : origin[g] = c

(* Every generation stems from a different PUT with a loadable config: a   *)
(* request is never loaded twice and a broken config never replaces the    *)
(* running one (the `continue' and the `?' of the reload task).            *)
LoadedOnce ==
    /\ \A g \in 1 .. Newest : cfg[origin[g]].load \in {"good", "remote"}
    /\ \A g, h \in 1 .. Newest : origin[g] = origin[h] => g = h

(* The last bind of s failed because of a socket of an older generation.   *)
RefusedByOlder(s) == \E p \in refused : p[1] = s /\ p[2].gen < s.gen

(* Between two reloads only the newest generation has API and DNS          *)
(* listeners, whose handles are in GlobalState (lib.rs takes, aborts and   *)
(* replaces them).  Each of them listens, or is about to, unless an older  *)
(* generation's socket stood in the way of its bind: the DNS listener is   *)
(* created before the old one is aborted, and no abort is awaited.         *)
NewestServes ==
    Running /\ rpc \in {"recv", "create"} =>
        /\ \A s \in starting \cup bound :
              /\ s.svc = "api" => s.gen = Newest /\ api = {Newest}
              /\ s.svc = "dns" => s.gen = Newest /\ dns = {Newest}
        /\ api \cup dns \subseteq {Newest}
        /\ \A s \in ApiSocks(Newest) \cup DnsSocks(Newest) :
              s \in starting \cup bound \/ RefusedByOlder(s)

(* While no listener is being restarted the newest generation's inbound    *)
(* listeners listen on the address its manager has, whatever PATCHes to    *)
(* this or to an older generation, reloads and aborts did in between       *)
(* (manager.rs: "If a listener is already running, it will be restarted"). *)
(* The exceptions: a PATCH whose client left before the listeners were     *)
(* started again, and a bind that met the socket of an older generation,   *)
(* never one of its own.                                                   *)
ListenersUp ==
    Running /\ rpc \in {"recv", "create"}
        /\ (\A c \in Clients : IsPatch(c) => pc[c] \in {"idle", "ok", "refused"})
        /\ Of("inbound", {Newest}, starting) = {}
    => LET s == Sock("inbound", Newest, opts[Newest])
       IN  s \in bound \/ RefusedByOlder(s)

(* A PUT sent before the previous reload has finished: its handler owns    *)
(* GlobalState and waits for the reload task, which waits for GlobalState. *)
ReloadsCollide ==
    /\ rpc = "lock"
    /\ \E c \in Clients : pc[c] = "wait" /\ Holds(c) /\ oneshot[c] = "open"

(* Every accepted request is eventually answered, unless its client left   *)
(* or the runtime ended.                                                   *)
EveryRequestAnswered ==
    \A c \in Clients : pc[c] = "lock" ~> (pc[c] \in Final \/ runtime # "running")

(* The collision of two reloads and a server that does not answer the      *)
(* downloads of create_components are the only ways not to be answered: no *)
(* other order of requests, failures and disconnects blocks a handler on   *)
(* the lock, the channel or the oneshot.                                   *)
AnsweredUnlessBlocked ==
    \A c \in Clients :
        pc[c] = "lock" ~> \/ pc[c] \in Final \/ runtime # "running"
                          \/ ReloadsCollide \/ WaitsForRemote
=============================================================================
