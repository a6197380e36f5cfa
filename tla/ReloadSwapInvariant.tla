------------------------ MODULE ReloadSwapInvariant -------------------------
(* The reload task keeps the invariant of Reload while it replaces the     *)
(* listeners of the old generation by those of the new one.                *)
EXTENDS ReloadInvariant

(* ReloadStop preserves the inductive invariant.                           *)
LEMMA ReloadStopInv ==
  ASSUME Inv, ReloadStop
  PROVE  Inv'
  <1> USE ReloadAssumption DEF sockVars, ReloadStop, ShutdownListeners, StopListeners, Running, Goto, lockVars, clientVars, genVars
  <1>1. TypeOK'
    <2>1. Gens' = Gens /\ Socks' = Socks
      BY DEF Gens, Newest, Socks
    <2>2. starting' \subseteq Socks /\ bound' \subseteq Socks /\ dying' \subseteq Socks
      BY DEF Inv, TypeOK, Of
    <2>3. lockq' \in Seq(Clients \cup {Reloader})
      BY DEF Inv, TypeOK, Acquire
    <2>4. QED  BY <2>1, <2>2, <2>3 DEF Inv, TypeOK
  <1>2. LockInv'
    <2>1. TypeOK /\ LockInv /\ Acquire(Reloader)
      BY DEF Inv
    <2>2. \A o \in Clients \cup {Reloader} : Holds(o) => Holds(o)'
      BY <2>1, OwnerKeeps
    <2>3. rpc' = "install" => rpc = "install"
      OBVIOUS
    <2>4. \A d \in Clients : pc'[d] \in {"wait", "restart"} => pc'[d] = pc[d]
      BY <2>1 DEF TypeOK
    <2>5. QED
      BY <2>1, <2>2, <2>3, <2>4 DEF LockInv, IsPut, IsPatch
  <1>3. ReplyInv'
    BY DEF Inv, ReplyInv, LockInv, TypeOK, Loaded, Newest, Final, ChanCap, Gens, Holds, Acquire, Release, Leave, Reloader
  <1>4. ServeInv'
    BY ServeKept DEF Inv, Of
  <1>5. AnswerMeansLoaded'
    BY DEF Inv, AnswerMeansLoaded, LockInv, ReplyInv, TypeOK, Loaded, IsPut, IsPatch, Loads, Changes, Newest, Final, Holds, Acquire, Release, Leave, Reloader
  <1>6. LoadedOnce'
    BY DEF Inv, LoadedOnce, ReplyInv, TypeOK, Newest, Holds, Acquire, Release, Leave, Reloader
  <1>7. QED  BY <1>1, <1>2, <1>3, <1>4, <1>5, <1>6 DEF Inv

(* ReloadAbort preserves the inductive invariant.                          *)
LEMMA ReloadAbortInv ==
  ASSUME Inv, ReloadAbort
  PROVE  Inv'
  <1> USE ReloadAssumption DEF sockVars, ReloadAbort, Running, Goto, lockVars, clientVars, genVars
  <1>1. TypeOK'
    <2>1. Gens' = Gens /\ Socks' = Socks
      BY DEF Gens, Newest, Socks
    <2>2. starting' \subseteq Socks /\ bound' \subseteq Socks /\ dying' \subseteq Socks
      BY DEF Inv, TypeOK, Of
    <2>3. QED  BY <2>1, <2>2 DEF Inv, TypeOK
  <1>2. LockInv'
    BY DEF Inv, LockInv, IsPut, IsPatch, Loads, Changes, TypeOK, Final, Holds, Acquire, Release, Leave, Reloader
  <1>3. ReplyInv'
    BY DEF Inv, ReplyInv, LockInv, TypeOK, Loaded, Newest, Final, ChanCap, Gens, Holds, Acquire, Release, Leave, Reloader
  <1>4. ServeInv'
    <2>1. Newest' = Newest /\ DnsSocks(Newest)' = DnsSocks(Newest)
          /\ (\A s : RefusedByOlder(s)' <=> RefusedByOlder(s))
      BY DEF Newest, DnsSocks, SocksOf, GenCfg, RefusedByOlder
    <2>2. \A s \in DnsSocks(Newest) : s.svc = "dns" /\ s.gen = Newest
      BY DEF DnsSocks, SocksOf, Sock
    <2>3. ServeInv
      BY DEF Inv
    <2>4. \A s \in starting' \cup bound' :
             /\ s.svc # "api"
             /\ s.svc = "dns" => s.gen = Newest
      BY <2>3 DEF ServeInv, Of
    <2>5. \A s \in DnsSocks(Newest) : s \in bound' \/ RefusedByOlder(s)
      BY <2>2, <2>3 DEF ServeInv, Of
    <2>6. starting' \cup bound' \cup dying' \subseteq starting \cup bound \cup dying
      BY DEF Of
    <2>7. QED
      BY <2>1, <2>3, <2>4, <2>5, <2>6 DEF ServeInv
  <1>5. AnswerMeansLoaded'
    BY DEF Inv, AnswerMeansLoaded, LockInv, ReplyInv, TypeOK, Loaded, IsPut, IsPatch, Loads, Changes, Newest, Final, Holds, Acquire, Release, Leave, Reloader
  <1>6. LoadedOnce'
    BY DEF Inv, LoadedOnce, ReplyInv, TypeOK, Newest, Holds, Acquire, Release, Leave, Reloader
  <1>7. QED  BY <1>1, <1>2, <1>3, <1>4, <1>5, <1>6 DEF Inv

(* ReloadInstall preserves the inductive invariant.                        *)
LEMMA ReloadInstallInv ==
  ASSUME Inv, ReloadInstall
  PROVE  Inv'
  <1> USE ReloadAssumption DEF sockVars, ReloadInstall, StartListeners, Running, Goto, lockVars, clientVars, genVars
  <1>r. runtime = "running"
    OBVIOUS
  <1>1. TypeOK'
    <2>1. lockq # <<>>
      BY DEF Inv, LockInv, Holds
    <2>2. lockq \in Seq(Clients \cup {Reloader})
      BY DEF Inv, TypeOK
    <2>3. lockq' \in Seq(Clients \cup {Reloader})
      BY <2>1, <2>2, HeadTailProperties DEF Release
    <2>4. Newest \in Gens /\ Gens' = Gens /\ Socks' = Socks
      BY DEF Inv, TypeOK, Gens, Newest, Socks
    <2>5. GenCfg(Newest) \in Bodies
      <3> HIDE DEF ReloadInstall
      <3>1. origin \in Seq(Clients) /\ cfg \in [Clients -> Bodies] /\ StartCfg \in Bodies
        BY DEF Inv, TypeOK
      <3>2. Newest \in Nat /\ (Newest # 0 => origin[Newest] \in Clients)
        BY <3>1 DEF Newest
      <3>3. QED  BY <3>1, <3>2 DEF GenCfg
    <2>6. opts[Newest] \in Addrs /\ GenCfg(Newest).api \subseteq Addrs
      BY <2>4, <2>5 DEF Inv, TypeOK, Bodies
    <2>7. ApiSocks(Newest) \subseteq Socks /\ Sock("inbound", Newest, opts[Newest]) \in Socks
      BY <2>4, <2>6 DEF Socks, ApiSocks, SocksOf, Sock
    <2>8. starting' \subseteq Socks /\ api' \subseteq Gens /\ dns' \subseteq Gens
      BY <2>4, <2>7 DEF Inv, TypeOK
    <2>9. QED  BY <2>3, <2>4, <2>8 DEF Inv, TypeOK
  <1>2. LockInv'
    BY DEF Inv, LockInv, IsPut, IsPatch, Loads, Changes, TypeOK, Final, Holds, Acquire, Release, Leave, Reloader
  <1>3. ReplyInv'
    BY DEF Inv, ReplyInv, LockInv, TypeOK, Loaded, Newest, Final, ChanCap, Gens, Holds, Acquire, Release, Leave, Reloader
  <1>4. ServeInv'
    <2>1. Newest' = Newest /\ DnsSocks(Newest)' = DnsSocks(Newest)
          /\ ApiSocks(Newest)' = ApiSocks(Newest)
          /\ (\A s : RefusedByOlder(s)' <=> RefusedByOlder(s))
      BY DEF Newest, ApiSocks, DnsSocks, SocksOf, GenCfg, RefusedByOlder
    <2>2. \A s \in ApiSocks(Newest) : s.svc = "api" /\ s.gen = Newest
                                    /\ api' = {Newest}
      BY DEF ApiSocks, SocksOf, Sock
    <2>3. ServeInv
      BY DEF Inv
    <2>4. \A s \in starting' : \/ s \in starting \/ s \in ApiSocks(Newest)
                               \/ s.svc = "inbound"
      <3>1. starting' = starting \cup StartListeners(Newest) \cup ApiSocks(Newest)
        OBVIOUS
      <3> HIDE DEF ReloadInstall
      <3>2. \A s \in StartListeners(Newest) : s.svc = "inbound"
        BY DEF StartListeners, Sock
      <3>3. QED  BY <3>1, <3>2
    <2>5. \A s \in bound : s.svc = "dns" => s.gen = Newest /\ dns' = {Newest}
      BY <2>3 DEF ServeInv, Of
    <2>6. api' \cup dns' \subseteq {Newest}
      OBVIOUS
    <2>7. bound' = bound /\ dying' = dying /\ rpc' = "recv" /\ rpc = "install"
          /\ ApiSocks(Newest) \subseteq starting'
      OBVIOUS
    <2> HIDE DEF ReloadInstall
    <2>8. \A s \in starting' : s.svc # "dns"
      BY <2>2, <2>3, <2>4 DEF ServeInv
    <2>9. \A s \in starting' : s.svc = "api" => s \notin bound \cup dying
      BY <1>r, <2>2, <2>3, <2>4, <2>7 DEF ServeInv
    <2>10. \A s \in starting' \cup bound :
              /\ s.svc = "api" => s.gen = Newest /\ api' = {Newest}
              /\ s.svc = "dns" => s.gen = Newest /\ dns' = {Newest}
      BY <1>r, <2>2, <2>3, <2>4, <2>5, <2>7, <2>8 DEF ServeInv
    <2>11. QED
      BY <1>r, <2>1, <2>3, <2>6, <2>7, <2>8, <2>9, <2>10 DEF ServeInv
  <1>5. AnswerMeansLoaded'
    BY DEF Inv, AnswerMeansLoaded, IsPut, Newest
  <1>6. LoadedOnce'
    BY DEF Inv, LoadedOnce, ReplyInv, TypeOK, Newest, Holds, Acquire, Release, Leave, Reloader
  <1>7. QED  BY <1>1, <1>2, <1>3, <1>4, <1>5, <1>6 DEF Inv
=============================================================================
