----------------------- MODULE ReloadCreateInvariant ------------------------
(* The reload task keeps the invariant of Reload from the receipt of a     *)
(* configuration to the creation of its components.                        *)
EXTENDS ReloadInvariant

(* ReloadRecv preserves the inductive invariant.                           *)
LEMMA ReloadRecvInv ==
  ASSUME Inv, ReloadRecv
  PROVE  Inv'
  <1> USE ReloadAssumption DEF sockVars, ReloadRecv, Running, Goto, lockVars, clientVars, genVars
  <1> DEFINE c == Head(chan)
  <1>a. Len(chan) = 1 /\ chan[1] = c /\ c \in Clients /\ oneshot[c] = "open"
    <2>1. chan \in Seq(Clients) /\ Len(chan) =< 1 /\ chan # <<>>
      BY DEF Inv, TypeOK, ChanCap
    <2>2. Len(chan) = 1 /\ chan[1] = c /\ c \in Clients
      BY <2>1, Singleton
    <2> HIDE DEF c, ReloadRecv
    <2>3. \A i \in 1 .. Len(chan) : oneshot[chan[i]] = "open"
      BY DEF Inv, ReplyInv
    <2>4. oneshot[chan[1]] = "open"
      BY <2>2, <2>3
    <2>5. QED  BY <2>2, <2>4
  <1>b. chan' = <<>>
    BY Singleton DEF Inv, TypeOK, ChanCap
  <1>c. \/ /\ oneshot' = [oneshot EXCEPT ![c] = "dropped"]
           /\ rpc' = rpc /\ cur' = cur
        \/ /\ rpc' = "create" /\ cur' = c
           /\ oneshot' = oneshot
    OBVIOUS
  <1>d. \A d \in Clients : oneshot'[d] = oneshot[d]
                           \/ (oneshot[d] = "open" /\ oneshot'[d] = "dropped")
    <2>1. oneshot \in [Clients -> {"none", "open", "sent", "dropped"}]
      BY DEF Inv, TypeOK
    <2>2. \A d \in Clients : [oneshot EXCEPT ![c] = "dropped"][d]
                               = IF d = c THEN "dropped" ELSE oneshot[d]
      BY <1>a, <2>1, ExceptAt
    <2>3. QED  BY <1>a, <1>c, <2>2
  <1> HIDE DEF c, ReloadRecv
  <1>e. runtime = "running" /\ UNCHANGED <<lockq, clientVars, runtime, genVars>>
    BY DEF ReloadRecv
  <1>1. TypeOK'
    <2>1. oneshot' \in [Clients -> {"none", "open", "sent", "dropped"}]
      BY <1>a, <1>c DEF Inv, TypeOK
    <2>2. chan' \in Seq(Clients) /\ Len(chan') =< ChanCap
      BY <1>b DEF ChanCap
    <2>3. /\ rpc' \in {"recv", "create", "stop", "lock", "install"}
          /\ cur' \in Clients \cup {None}
      BY <1>a, <1>c DEF Inv, TypeOK
    <2>4. QED  BY <1>e, <2>1, <2>2, <2>3 DEF Inv, TypeOK, Gens, Newest, Socks
  <1>2. LockInv'
    <2>1. rpc' = rpc \/ rpc' = "create"
      BY <1>c
    <2>2. QED  BY <1>e, <2>1 DEF Inv, LockInv, IsPut, IsPatch, Holds
  <1>3. ReplyInv'
    <2>1. \A g \in 1 .. Newest : origin[g] \in Clients
      BY DEF Inv, TypeOK, Newest
    <2>2. rpc' = "create" => cur' \in Clients /\ oneshot'[cur'] = "open"
      BY <1>a, <1>c DEF ReloadRecv
    <2>3. \A d \in Clients : pc[d] \in {"idle", "lock"} => oneshot'[d] = "none"
      BY <1>d DEF Inv, ReplyInv
    <2>4. \A d \in Clients : oneshot'[d] = "sent" => Loaded(d)
      BY <1>d DEF Inv, ReplyInv
    <2>5. \A g \in 1 .. Newest : oneshot'[origin[g]] = "sent"
      BY <1>d, <1>e, <2>1 DEF Inv, ReplyInv
    <2>6. Len(chan') = 0
      BY <1>b
    <2>7. QED  BY <1>e, <2>2, <2>3, <2>4, <2>5, <2>6 DEF ReplyInv, Loaded, Newest
  <1>4. ServeInv'
    <2>1. rpc' \in {"recv", "create"} /\ rpc = "recv"
      BY <1>c DEF ReloadRecv
    <2>2. QED  BY <1>e, <2>1, ServeKept DEF Inv
  <1>5. AnswerMeansLoaded'
    BY <1>e DEF Inv, AnswerMeansLoaded, IsPut, Newest
  <1>6. LoadedOnce'
    BY <1>e DEF Inv, LoadedOnce, Newest
  <1>7. QED  BY <1>1, <1>2, <1>3, <1>4, <1>5, <1>6 DEF Inv

(* ReloadCreateFails preserves the inductive invariant.                    *)
LEMMA ReloadCreateFailsInv ==
  ASSUME Inv, ReloadCreateFails
  PROVE  Inv'
  <1> USE ReloadAssumption DEF sockVars, ReloadCreateFails, Running, Goto, lockVars, clientVars, genVars
  <1>1. TypeOK'
    BY DEF Inv, TypeOK, Final, ChanCap, Gens, Newest, Socks, Holds, Acquire, Release, Leave, Reloader
  <1>2. LockInv'
    BY DEF Inv, LockInv, IsPut, IsPatch, Loads, Changes, TypeOK, Final, Holds, Acquire, Release, Leave, Reloader
  <1>3. ReplyInv'
    BY DEF Inv, ReplyInv, LockInv, TypeOK, Loaded, Newest, Final, ChanCap, Gens, Holds, Acquire, Release, Leave, Reloader
  <1>4. ServeInv'
    BY DEF Inv, ServeInv
  <1>5. AnswerMeansLoaded'
    BY DEF Inv, AnswerMeansLoaded, LockInv, ReplyInv, TypeOK, Loaded, IsPut, IsPatch, Loads, Changes, Newest, Final, Holds, Acquire, Release, Leave, Reloader
  <1>6. LoadedOnce'
    BY DEF Inv, LoadedOnce, ReplyInv, TypeOK, Newest, Holds, Acquire, Release, Leave, Reloader
  <1>7. QED  BY <1>1, <1>2, <1>3, <1>4, <1>5, <1>6 DEF Inv

(* ReloadCreated preserves the inductive invariant.                        *)
LEMMA ReloadCreatedInv ==
  ASSUME Inv, ReloadCreated
  PROVE  Inv'
  <1> USE ReloadAssumption DEF sockVars, ReloadCreated, Running, Goto, lockVars, clientVars, genVars
  <1>0. /\ cur \in Clients /\ oneshot[cur] = "open"
        /\ origin \in Seq(Clients) /\ origin' \in Seq(Clients)
        /\ Len(origin) \in Nat /\ Len(origin') = Len(origin) + 1
        /\ \A g \in 1 .. Len(origin) : origin'[g] = origin[g]
        /\ origin'[Len(origin) + 1] = cur
    BY DEF Inv, TypeOK, ReplyInv
  <1>1. TypeOK'
    <2>1. Gens \subseteq Gens'
      BY <1>0 DEF Gens, Newest
    <2>2. oneshot' \in [Clients -> {"none", "open", "sent", "dropped"}]
      BY <1>0 DEF Inv, TypeOK
    <2>3. gen \in [Clients -> Gens']
      BY <2>1 DEF Inv, TypeOK
    <2>4. Gens' = 0 .. Newest + 1 /\ Newest + 1 \in Gens' /\ Newest \in Nat
      <3> HIDE DEF ReloadCreated
      <3>1. Newest \in Nat /\ Newest' = Newest + 1
        BY <1>0 DEF Newest
      <3>2. Gens' = 0 .. Newest'
        BY DEF Gens
      <3>3. QED  BY <3>1, <3>2
    <2>5. cfg[cur].inbound \in Addrs /\ cfg[cur].dns \subseteq Addrs
      BY <1>0 DEF Inv, TypeOK, Bodies
    <2>6. opts' \in [Gens' -> Addrs]
      BY <2>4, <2>5 DEF Inv, TypeOK, Gens
    <2>7. Socks \subseteq Socks' /\ NewDns \subseteq Socks'
      <3> HIDE DEF ReloadCreated
      <3>1. Socks' = [svc : {"inbound", "api", "dns"}, gen : Gens', addr : Addrs]
        BY DEF Socks
      <3>2. Socks \subseteq Socks'
        BY <2>1, <3>1 DEF Socks
      <3>3. NewDns \subseteq Socks'
        BY <2>4, <2>5, <3>1 DEF NewDns, SocksOf, Sock
      <3>4. QED  BY <3>2, <3>3
    <2>8. starting' \subseteq Socks' /\ bound' \subseteq Socks' /\ dying' \subseteq Socks'
      BY <2>7 DEF Inv, TypeOK, DnsBound
    <2>9. refused' \subseteq Socks' \X Socks'
      BY <2>7 DEF Inv, TypeOK, DnsRefused, Holders
    <2>10. api' \subseteq Gens' /\ dns' \subseteq Gens'
      BY <2>1 DEF Inv, TypeOK
    <2>11. /\ runtime' \in {"running", "stopped", "failed", "panicked"}
           /\ rpc' \in {"recv", "create", "stop", "lock", "install"}
      BY DEF Inv, TypeOK
    <2>12. UNCHANGED <<lockq, chan, pc, cfg, gen, disconnects, cur>>
      OBVIOUS
    <2> HIDE DEF ReloadCreated
    <2>13. QED
      BY <1>0, <2>2, <2>3, <2>6, <2>8, <2>9, <2>10, <2>11, <2>12 DEF Inv, TypeOK
  <1>2. LockInv'
    BY DEF Inv, LockInv, IsPut, IsPatch, Loads, Changes, TypeOK, Final, Holds, Acquire, Release, Leave, Reloader
  <1>3. ReplyInv'
    <2>1. \A c \in Clients : oneshot'[c] = oneshot[c] \/ (c = cur /\ oneshot'[c] = "sent")
      <3>1. oneshot' = [oneshot EXCEPT ![cur] = "sent"] \/ oneshot' = oneshot
        OBVIOUS
      <3>2. oneshot \in [Clients -> {"none", "open", "sent", "dropped"}]
        BY DEF Inv, TypeOK
      <3>3. CASE oneshot' = [oneshot EXCEPT ![cur] = "sent"]
        <4>1. \A c \in Clients : [oneshot EXCEPT ![cur] = "sent"][c]
                                   = IF c = cur THEN "sent" ELSE oneshot[c]
          BY <1>0, <3>2, ExceptAt
        <4>2. QED  BY <3>3, <4>1
      <3>4. CASE oneshot' = oneshot
        BY <3>4
      <3>5. QED  BY <3>1, <3>3, <3>4
    <2>2. \A c \in Clients : Loaded(c) => Loaded(c)'
      BY <1>0 DEF Loaded, Newest
    <2>3. Loaded(cur)'
      BY <1>0 DEF Loaded, Newest
    <2>4. \A i \in 1 .. Len(chan) : chan[i] \in Clients /\ chan[i] # cur
      BY DEF Inv, TypeOK, ReplyInv
    <2>5. \A c \in Clients : pc[c] \in {"idle", "lock"} => oneshot'[c] = "none"
      BY <1>0, <2>1 DEF Inv, ReplyInv, TypeOK
    <2>6. \A c \in Clients : oneshot'[c] = "sent" => Loaded(c)'
      BY <2>1, <2>2, <2>3 DEF Inv, ReplyInv
    <2>7. ASSUME runtime' = "running", NEW g \in 1 .. Len(origin')
          PROVE  oneshot'[origin'[g]] = "sent"
      <3>1. oneshot'[cur] = "sent"
        BY <1>0, <2>7 DEF Inv, TypeOK
      <3>2. CASE g = Len(origin) + 1
        BY <1>0, <3>1, <3>2
      <3>3. CASE g \in 1 .. Len(origin)
        BY <1>0, <2>1, <3>1, <3>3 DEF Inv, ReplyInv, Newest
      <3> HIDE DEF ReloadCreated
      <3>4. QED  BY <1>0, <3>2, <3>3
    <2>8. rpc' = "create" => cur' \in Clients /\ oneshot'[cur'] = "open"
      BY <1>0
    <2>9. \A i \in 1 .. Len(chan) : oneshot'[chan[i]] = "open"
      BY <2>1, <2>4 DEF Inv, ReplyInv
    <2>10. QED  BY <2>4, <2>5, <2>6, <2>7, <2>8, <2>9 DEF ReplyInv, Newest
  <1>4. ServeInv'
    <2>1. Newest \in Nat /\ Newest' = Newest + 1
      BY <1>0 DEF Newest
    <2>2. DnsSocks(Newest)' = NewDns
      <3>1. DnsSocks(Newest)' = SocksOf("dns", Newest', GenCfg(Newest)'.dns)
        BY DEF DnsSocks, SocksOf, Sock
      <3>2. GenCfg(Newest)' = cfg'[origin'[Newest']]
        <4> HIDE DEF ReloadCreated
        <4>1. Newest' # 0
          BY <2>1
        <4>2. QED  BY <4>1 DEF GenCfg
      <3>3. origin'[Newest'] = cur /\ cfg' = cfg
        BY <1>0, <2>1 DEF Newest
      <3>4. QED  BY <2>1, <3>1, <3>2, <3>3 DEF NewDns
    <2>3. \A s \in NewDns : s.svc = "dns" /\ s.gen = Newest + 1
      BY DEF NewDns, SocksOf, Sock
    <2>4. \A s \in starting \cup bound \cup dying : s.gen \in Nat /\ s.gen < Newest + 1
      BY <1>0 DEF Inv, TypeOK, Socks, Gens, Newest
    <2>5. ASSUME NEW s \in NewDns, s \notin bound'
          PROVE  RefusedByOlder(s)'
      <3>1. PICK u \in Holders(s) : TRUE
        BY <2>5 DEF DnsBound
      <3>2. u \in bound \cup dying
        BY <3>1 DEF Holders
      <3>3. <<s, u>> \in refused'
        BY <3>1 DEF DnsRefused
      <3>4. <<s, u>>[1] = s /\ <<s, u>>[2].gen < s.gen
        BY <2>3, <2>4, <3>2
      <3>5. QED  BY <3>3, <3>4 DEF RefusedByOlder
    <2>6. \A s \in bound' : s \in bound \/ s \in NewDns
      BY DEF DnsBound
    <2> HIDE DEF ReloadCreated
    <2>7. rpc = "create" /\ runtime = "running" /\ starting' = starting /\ dying' = dying
          /\ api' = api /\ dns' = dns /\ bound \subseteq bound'
          /\ (runtime' = "running" => rpc' = "stop")
      BY DEF ReloadCreated
    <2>8. ServeInv
      BY DEF Inv
    <2>9. \A s \in starting : s.svc = "api" => s \notin bound' \cup dying'
      BY <2>3, <2>6, <2>7, <2>8 DEF ServeInv
    <2>10. \A s \in starting' \cup bound' :
              /\ s.svc = "api" => s.gen \in api'
              /\ s.svc = "dns" => s.gen = Newest' \/ s.gen \in dns'
      BY <2>1, <2>3, <2>6, <2>7, <2>8 DEF ServeInv
    <2>11. Newest' \notin dns'
      BY <2>1, <2>7, <2>8 DEF ServeInv
    <2>12. \A s \in starting' \cup bound' \cup dying' : s.svc = "api" => s.gen # Newest'
      BY <2>1, <2>3, <2>4, <2>6, <2>7
    <2>13. QED
      BY <2>2, <2>5, <2>7, <2>8, <2>9, <2>10, <2>11, <2>12 DEF ServeInv
  <1>5. AnswerMeansLoaded'
    BY DEF Inv, AnswerMeansLoaded, LockInv, ReplyInv, TypeOK, Loaded, IsPut, IsPatch, Loads, Changes, Newest, Final, Holds, Acquire, Release, Leave, Reloader
  <1>6. LoadedOnce'
    BY DEF Inv, LoadedOnce, ReplyInv, TypeOK, Newest, Holds, Acquire, Release, Leave, Reloader
  <1>7. QED  BY <1>1, <1>2, <1>3, <1>4, <1>5, <1>6 DEF Inv
=============================================================================
