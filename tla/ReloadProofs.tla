---------------------------- MODULE ReloadProofs ----------------------------
(* What holds of Reload for every set of clients and every bound: the      *)
(* listeners and the end of the runtime keep the inductive invariant too,  *)
(* and the properties follow from it.                                      *)
EXTENDS ReloadPutInvariant, ReloadPatchInvariant, ReloadCreateInvariant, ReloadSwapInvariant

(* Bind preserves the inductive invariant.                                 *)
LEMMA BindInv ==
  ASSUME Inv, NEW s \in starting, Bind(s)
  PROVE  Inv'
  <1> USE ReloadAssumption DEF sockVars, Bind, Running, lockVars, clientVars
  <1>1. TypeOK'
    <2>1. s \in Socks /\ Socks' = Socks /\ Gens' = Gens
      BY DEF Inv, TypeOK, Socks, Gens, Newest
    <2>2. refused' \subseteq Socks \X Socks
      BY <2>1 DEF Inv, TypeOK, Holders
    <2>3. starting' \subseteq Socks /\ bound' \subseteq Socks /\ dying' \subseteq Socks
      BY <2>1 DEF Inv, TypeOK
    <2>4. QED  BY <2>1, <2>2, <2>3 DEF Inv, TypeOK, Final
  <1>2. LockInv'
    BY DEF Inv, LockInv, IsPut, IsPatch, Holds
  <1>3. ReplyInv'
    BY DEF Inv, ReplyInv, Loaded, Newest
  <1>4. ServeInv'
    <2>1. Newest' = Newest /\ DnsSocks(Newest)' = DnsSocks(Newest)
          /\ ApiSocks(Newest)' = ApiSocks(Newest)
      BY DEF Newest, ApiSocks, DnsSocks, SocksOf, GenCfg
    <2>2. /\ \A u \in ApiSocks(Newest) : u.svc = "api" /\ u.gen = Newest
          /\ \A u \in DnsSocks(Newest) : u.svc = "dns"
      BY DEF ApiSocks, DnsSocks, SocksOf, Sock
    <2>3. ServeInv /\ s.svc # "dns" /\ runtime = "running"
      BY DEF Inv, ServeInv
    <2>4. starting' \cup bound' \subseteq starting \cup bound /\ bound \subseteq bound'
          /\ dying' = dying /\ rpc' = rpc /\ api' = api /\ dns' = dns
          /\ starting' = starting \ {s}
      OBVIOUS
    <2>5. \A u : u # s /\ RefusedByOlder(u) => RefusedByOlder(u)'
      BY DEF RefusedByOlder
    <2>6. ASSUME s \in ApiSocks(Newest), s \notin bound'
          PROVE  RefusedByOlder(s)'
      <3>1. PICK u \in Holders(s) : TRUE
        BY <2>6
      <3>2. u \in bound \cup dying /\ u.svc = s.svc /\ u.addr = s.addr
        BY <3>1 DEF Holders, Same
      <3>3. u # s /\ u \in Socks /\ s \in Socks
        BY <2>2, <2>3, <2>6, <3>2 DEF ServeInv, Inv, TypeOK
      <3>4. u.gen # s.gen
        BY <3>2, <3>3 DEF Socks
      <3>5. u.gen < s.gen
        BY <2>2, <2>6, <3>3, <3>4 DEF Socks, Gens, Newest, Inv, TypeOK
      <3>6. <<s, u>> \in refused'
        BY <3>1
      <3>7. QED  BY <3>5, <3>6 DEF RefusedByOlder
    <2>7. \A u \in DnsSocks(Newest) : u \in bound' \/ RefusedByOlder(u)'
      BY <2>2, <2>3, <2>4, <2>5 DEF ServeInv
    <2>8. rpc \in {"recv", "create"} =>
             \A u \in ApiSocks(Newest) : u \in starting' \cup bound' \/ RefusedByOlder(u)'
      BY <2>3, <2>4, <2>5, <2>6 DEF ServeInv
    <2>9. \A u \in starting' : u.svc = "api" => u \notin bound' \cup dying'
      BY <2>3 DEF ServeInv
    <2> HIDE DEF Bind
    <2>10. QED
      BY <2>1, <2>3, <2>4, <2>7, <2>8, <2>9 DEF ServeInv
  <1>5. AnswerMeansLoaded'
    BY DEF Inv, AnswerMeansLoaded, IsPut, Newest
  <1>6. LoadedOnce'
    BY DEF Inv, LoadedOnce, Newest
  <1>7. QED  BY <1>1, <1>2, <1>3, <1>4, <1>5, <1>6 DEF Inv

(* Drop preserves the inductive invariant.                                 *)
LEMMA DropInv ==
  ASSUME Inv, NEW s \in dying, Drop(s)
  PROVE  Inv'
  <1> USE ReloadAssumption DEF sockVars, Drop, Running, lockVars, clientVars
  <1>1. TypeOK'
    BY DEF Inv, TypeOK, Final, Gens, Newest, Socks
  <1>2. LockInv'
    BY DEF Inv, LockInv, IsPut, IsPatch, Holds
  <1>3. ReplyInv'
    BY DEF Inv, ReplyInv, Loaded, Newest
  <1>4. ServeInv'
    <2>1. Newest' = Newest /\ DnsSocks(Newest)' = DnsSocks(Newest)
          /\ ApiSocks(Newest)' = ApiSocks(Newest)
          /\ (\A u : RefusedByOlder(u)' <=> RefusedByOlder(u))
      BY DEF Newest, ApiSocks, DnsSocks, SocksOf, GenCfg, RefusedByOlder
    <2>2. QED  BY <2>1 DEF Inv, ServeInv
  <1>5. AnswerMeansLoaded'
    BY DEF Inv, AnswerMeansLoaded, IsPut, Newest
  <1>6. LoadedOnce'
    BY DEF Inv, LoadedOnce, Newest
  <1>7. QED  BY <1>1, <1>2, <1>3, <1>4, <1>5, <1>6 DEF Inv

(* Shutdown preserves the inductive invariant.                             *)
LEMMA ShutdownInv ==
  ASSUME Inv, Shutdown
  PROVE  Inv'
  <1> USE ReloadAssumption DEF sockVars, Shutdown, Running, Goto, lockVars, clientVars, genVars
  <1>1. TypeOK'
    BY DEF Inv, TypeOK, Final, ChanCap, Gens, Newest, Socks, Holds, Acquire, Release, Leave, Reloader
  <1>2. LockInv'
    BY DEF Inv, LockInv, IsPut, IsPatch, Loads, Changes, TypeOK, Final, Holds, Acquire, Release, Leave, Reloader
  <1>3. ReplyInv'
    BY DEF Inv, ReplyInv, LockInv, TypeOK, Loaded, Newest, Final, ChanCap, Gens, Holds, Acquire, Release, Leave, Reloader
  <1>4. ServeInv'
    BY DEF Inv, ServeInv
  <1>5. AnswerMeansLoaded'
    BY DEF Inv, AnswerMeansLoaded, LockInv, ReplyInv, TypeOK, Loaded, IsPut, IsPatch, Loads, Changes, Newest, Final, Holds, Acquire, Release, Leave, Reloader
  <1>6. LoadedOnce'
    BY DEF Inv, LoadedOnce, ReplyInv, TypeOK, Newest, Holds, Acquire, Release, Leave, Reloader
  <1>7. QED  BY <1>1, <1>2, <1>3, <1>4, <1>5, <1>6 DEF Inv

(* Every step of the specification preserves the inductive invariant.      *)
LEMMA NextInv == Inv /\ [Next]_vars => Inv'
  <1> SUFFICES ASSUME Inv, [Next]_vars PROVE Inv'
    OBVIOUS
  <1>1. CASE Next
    <2>2. ASSUME NEW c \in Clients,
                 Accept(c) \/ Handler(c) \/ PatchInvalid(c) \/ Disconnect(c)
          PROVE  Inv'
      BY <2>2, AcceptInv, GetInv, PutRefusedInv, PutSendInv, PutAnswerInv,
         PatchStopInv, PatchStartInv, PatchPlainInv, PatchInvalidInv, DisconnectInv
         DEF Handler
    <2>3. CASE ReloadTask
      BY <2>3, ReloadRecvInv, ReloadCreateFailsInv, ReloadCreatedInv,
         ReloadStopInv, ReloadAbortInv, ReloadInstallInv DEF ReloadTask
    <2>4. CASE Shutdown
      BY <2>4, ShutdownInv
    <2>5. CASE (\E s \in starting : Bind(s)) \/ (\E s \in dying : Drop(s))
      BY <2>5, BindInv, DropInv
    <2>6. QED  BY <1>1, <2>2, <2>3, <2>4, <2>5 DEF Next
  <1>2. CASE UNCHANGED vars
    <2> USE <1>2 DEF vars, lockVars, clientVars, genVars, sockVars
    <2>1. TypeOK'  BY DEF Inv, TypeOK, Gens, Newest, Socks
    <2>2. LockInv'  BY DEF Inv, LockInv, IsPut, IsPatch, Holds
    <2>3. ReplyInv'  BY DEF Inv, ReplyInv, Loaded, Newest
    <2>4. ServeInv'  BY ServeKept DEF Inv
    <2>5. AnswerMeansLoaded' /\ LoadedOnce'
      BY DEF Inv, AnswerMeansLoaded, LoadedOnce, IsPut, Newest
    <2>6. QED  BY <2>1, <2>2, <2>3, <2>4, <2>5 DEF Inv
  <1>3. QED  BY <1>1, <1>2

(* The inductive invariant always holds.                                   *)
THEOREM SpecInv == Spec => []Inv
  BY InitInv, NextInv, PTL DEF Spec

(* Every variable of the control plane keeps its type.                     *)
THEOREM SpecTypeOK == Spec => []TypeOK
  <1>1. Inv => TypeOK  BY DEF Inv
  <1>2. QED  BY <1>1, SpecInv, PTL

(* A PUT /configs that is answered with 204 had its components created,    *)
(* for any number of concurrent requests, failures and disconnects.        *)
THEOREM SpecAnswerMeansLoaded == Spec => []AnswerMeansLoaded
  <1>1. Inv => AnswerMeansLoaded  BY DEF Inv
  <1>2. QED  BY <1>1, SpecInv, PTL

(* No request is loaded twice and no broken config becomes a generation.   *)
THEOREM SpecLoadedOnce == Spec => []LoadedOnce
  <1>1. Inv => LoadedOnce  BY DEF Inv
  <1>2. QED  BY <1>1, SpecInv, PTL

(* Between reloads only the newest generation has API and DNS listeners,   *)
(* GlobalState holds the handles of those tasks, and each address of its   *)
(* config is listened on, or about to be, unless the socket of an older    *)
(* generation was in the way: for any sequence of reloads, with addresses  *)
(* kept or changed, and any delay between an abort and the end of a task.  *)
THEOREM SpecNewestServes == Spec => []NewestServes
  <1>1. Inv => NewestServes  BY DEF Inv, ServeInv, NewestServes, Running
  <1>2. QED  BY <1>1, SpecInv, PTL
=============================================================================
