-------------------------- MODULE ReloadInvariant ---------------------------
(* The inductive invariant of Reload, facts about its conjuncts, and that  *)
(* the initial states satisfy it.                                          *)
EXTENDS Reload, SequenceTheorems, TLAPS

(* Who owns the GlobalState mutex: a handler from the moment it sent its   *)
(* config or started to restart the listeners, the reload task while it    *)
(* installs a generation.                                                  *)
LockInv ==
    /\ \A c \in Clients : pc[c] \in {"wait", "restart"} => Holds(c)
    /\ \A c \in Clients : pc[c] = "wait" => IsPut(c)
    /\ \A c \in Clients : pc[c] = "restart" => IsPatch(c)
    /\ rpc = "install" => Holds(Reloader)

Loaded(c) == \E g \in 1 .. Newest : origin[g] = c

(* Where a config is: nowhere, in the channel, with the reload task,       *)
(* dropped, or loaded; the oneshot tells these apart.                      *)
ReplyInv ==
    /\ \A c \in Clients : pc[c] \in {"idle", "lock"} => oneshot[c] = "none"
    /\ \A i \in 1 .. Len(chan) : oneshot[chan[i]] = "open"
    /\ rpc = "create" => cur \in Clients /\ oneshot[cur] = "open"
    /\ rpc = "create" => \A i \in 1 .. Len(chan) : chan[i] # cur
    /\ \A c \in Clients : oneshot[c] = "sent" => Loaded(c)
    /\ runtime = "running" => \A g \in 1 .. Newest : oneshot[origin[g]] = "sent"

(* Whose API and DNS sockets there are in each phase of the reload task:   *)
(* from the creation of a generation to the abort of the one before, both  *)
(* may have DNS sockets, and only the older one has an API listener.  The  *)
(* socket of a spawned API listener never existed before.                  *)
ServeInv ==
    /\ \A s \in starting : s.svc # "dns"
    /\ runtime = "running" =>
       /\ \A s \in starting : s.svc = "api" => s \notin bound \cup dying
       /\ rpc \in {"recv", "create"} =>
             /\ \A s \in starting \cup bound :
                   /\ s.svc = "api" => s.gen = Newest /\ api = {Newest}
                   /\ s.svc = "dns" => s.gen = Newest /\ dns = {Newest}
             /\ api \cup dns \subseteq {Newest}
             /\ \A s \in ApiSocks(Newest) : s \in starting \cup bound \/ RefusedByOlder(s)
       /\ \A s \in DnsSocks(Newest) : s \in bound \/ RefusedByOlder(s)
       /\ rpc \in {"stop", "lock"} =>
             \A s \in starting \cup bound :
                   /\ s.svc = "api" => s.gen \in api
                   /\ s.svc = "dns" => s.gen = Newest \/ s.gen \in dns
       /\ rpc \in {"stop", "lock"} => Newest \notin dns
       /\ rpc = "install" =>
             \A s \in starting \cup bound :
                   /\ s.svc # "api"
                   /\ s.svc = "dns" => s.gen = Newest
       /\ rpc \in {"stop", "lock", "install"} =>
             \A s \in starting \cup bound \cup dying : s.svc = "api" => s.gen # Newest

Inv == TypeOK /\ LockInv /\ ReplyInv /\ ServeInv /\ AnswerMeansLoaded /\ LoadedOnce

(* A non-empty sequence of length at most one.                             *)
LEMMA Singleton ==
  ASSUME NEW S, NEW q \in Seq(S), q # <<>>, Len(q) =< 1
  PROVE  Len(q) = 1 /\ q[1] = Head(q) /\ Head(q) \in S /\ Tail(q) = <<>>
  <1>1. Len(q) = 1
    <2>1. Len(q) \in Nat \ {0}  BY EmptySeq
    <2>2. QED  BY <2>1
  <1>2. q[1] = Head(q) /\ Head(q) \in S
    BY <1>1, HeadTailProperties
  <1>3. Tail(q) \in Seq(S) /\ Len(Tail(q)) = 0
    BY <1>1, HeadTailProperties
  <1>4. Tail(q) = <<>>
    BY <1>3, EmptySeq
  <1>5. QED  BY <1>1, <1>2, <1>4

(* What updating a function at one point does to every point.              *)
LEMMA ExceptAt ==
  ASSUME NEW S, NEW T, NEW f \in [S -> T], NEW x \in S, NEW v
  PROVE  \A y \in S : [f EXCEPT ![x] = v][y] = IF y = x THEN v ELSE f[y]
  OBVIOUS

(* Queueing for the lock does not take it from its owner.                  *)
LEMMA OwnerKeeps ==
  ASSUME TypeOK, NEW p \in Clients \cup {Reloader}, Acquire(p),
         NEW o \in Clients \cup {Reloader}, Holds(o)
  PROVE  Holds(o)'
  <1>1. lockq \in Seq(Clients \cup {Reloader}) /\ lockq # <<>> /\ Len(lockq) \in Nat
    BY DEF TypeOK, Holds
  <1>2. Len(lockq) # 0
    BY <1>1, EmptySeq
  <1>3. lockq' # <<>> /\ Head(lockq') = lockq'[1]
    BY <1>1, <1>2 DEF Acquire
  <1>4. lockq'[1] = lockq[1]
    BY <1>1, <1>2 DEF Acquire
  <1>5. Head(lockq) = lockq[1]
    BY <1>1, <1>2
  <1>6. QED
    BY <1>3, <1>4, <1>5 DEF Holds

(* ServeInv is about API and DNS sockets only, and a reload that has just  *)
(* begun, or stopped the inbound listeners, changes none.                  *)
LEMMA ServeKept ==
  ASSUME ServeInv, UNCHANGED <<runtime, origin, cfg, refused, api, dns>>,
         \/ rpc' = rpc
         \/ rpc = "recv" /\ rpc' = "create"
         \/ rpc = "stop" /\ rpc' = "lock",
         \A s : s.svc # "inbound" => /\ s \in starting' <=> s \in starting
                                     /\ s \in bound' <=> s \in bound
                                     /\ s \in dying' <=> s \in dying
  PROVE  ServeInv'
  <1>1. Newest' = Newest /\ ApiSocks(Newest)' = ApiSocks(Newest)
                         /\ DnsSocks(Newest)' = DnsSocks(Newest)
    BY DEF Newest, ApiSocks, DnsSocks, SocksOf, GenCfg
  <1>2. \A s : RefusedByOlder(s)' <=> RefusedByOlder(s)
    BY DEF RefusedByOlder
  <1>3. /\ \A s \in ApiSocks(Newest) : s.svc = "api"
        /\ \A s \in DnsSocks(Newest) : s.svc = "dns"
    BY DEF ApiSocks, DnsSocks, SocksOf, Sock
  <1>4. QED
    BY <1>1, <1>2, <1>3 DEF ServeInv

(* The initial state satisfies the inductive invariant.                    *)
LEMMA InitInv == Init => Inv
  <1> SUFFICES ASSUME Init PROVE Inv
    OBVIOUS
  <1>1. Newest = 0 /\ Gens = {0} /\ GenCfg(Newest) = StartCfg
    BY DEF Init, Newest, Gens, GenCfg
  <1>2. cfg \in [Clients -> Bodies] /\ StartCfg.inbound \in Addrs
        /\ StartCfg.api \subseteq Addrs /\ StartCfg.dns \subseteq Addrs
    BY ReloadAssumption DEF Init, Bodies
  <1>3. TypeOK
    <2>1. bound \subseteq Socks
      BY <1>1, <1>2 DEF Init, Socks, SocksOf, Sock
    <2>2. opts \in [Gens -> Addrs]
      BY <1>1, <1>2 DEF Init
    <2>3. api \subseteq Gens /\ dns \subseteq Gens
      BY <1>1 DEF Init
    <2>4. gen \in [Clients -> Gens]
      BY <1>1 DEF Init
    <2>5. QED
      BY <1>2, <2>1, <2>2, <2>3, <2>4, ReloadAssumption
         DEF Init, TypeOK, Final, ChanCap, Reloader, None
  <1>4. LockInv /\ ReplyInv /\ ServeInv
    <2>1. LockInv /\ ReplyInv
      BY ReloadAssumption DEF Init, LockInv, ReplyInv, Loaded, Holds, Newest, Reloader, None
    <2>2. \A s \in bound : /\ s.svc = "api" => s.gen = Newest /\ api = {Newest}
                           /\ s.svc = "dns" => s.gen = Newest /\ dns = {Newest}
      BY <1>1 DEF Init, SocksOf, Sock
    <2>3. api \cup dns \subseteq {Newest} /\ starting = {} /\ rpc = "recv"
      BY <1>1 DEF Init
    <2>4. ApiSocks(Newest) \subseteq bound /\ DnsSocks(Newest) \subseteq bound
      BY <1>1 DEF Init, ApiSocks, DnsSocks
    <2>5. QED
      BY <2>1, <2>2, <2>3, <2>4 DEF ServeInv
  <1>5. AnswerMeansLoaded /\ LoadedOnce
    BY DEF Init, AnswerMeansLoaded, LoadedOnce, Loaded, Newest
  <1>6. QED
    BY <1>3, <1>4, <1>5 DEF Inv
=============================================================================
