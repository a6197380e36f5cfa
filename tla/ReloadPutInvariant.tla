------------------------- MODULE ReloadPutInvariant -------------------------
(* Accepting a request, GET and PUT /configs keep the invariant of Reload. *)
EXTENDS ReloadInvariant

(* Accept preserves the inductive invariant.                               *)
LEMMA AcceptInv ==
  ASSUME Inv, NEW c \in Clients, Accept(c)
  PROVE  Inv'
  <1> USE ReloadAssumption DEF sockVars, Accept, SetBindAddress, Running, Goto, lockVars, clientVars, genVars
  <1>1. TypeOK'
    <2>1. Gens' = Gens /\ Socks' = Socks
      BY DEF Gens, Newest, Socks
    <2>2. PICK s \in bound : /\ gen' = [gen EXCEPT ![c] = s.gen]
                            /\ opts' = IF cfg[c].load = "bind"
                                       THEN [opts EXCEPT ![s.gen] = cfg[c].inbound] ELSE opts
      OBVIOUS
    <2>3. s.gen \in Gens /\ cfg[c].inbound \in Addrs
      BY DEF Inv, TypeOK, Socks, Bodies
    <2>4. gen' \in [Clients -> Gens] /\ opts' \in [Gens -> Addrs]
      BY <2>2, <2>3 DEF Inv, TypeOK
    <2>5. lockq' \in Seq(Clients \cup {Reloader})
      BY DEF Inv, TypeOK, Acquire
    <2>6. pc' \in [Clients -> {"idle", "lock", "wait", "restart"} \cup Final]
      BY DEF Inv, TypeOK
    <2>7. QED  BY <2>1, <2>4, <2>5, <2>6 DEF Inv, TypeOK
  <1>2. LockInv'
    <2>1. TypeOK /\ LockInv /\ Acquire(c)
      BY DEF Inv
    <2>2. \A o \in Clients \cup {Reloader} : Holds(o) => Holds(o)'
      BY <2>1, OwnerKeeps
    <2>3. rpc' = "install" => rpc = "install"
      OBVIOUS
    <2>4. \A d \in Clients : pc'[d] \in {"wait", "restart"} => pc'[d] = pc[d]
      BY <2>1 DEF TypeOK
    <2>5. QED
      BY <2>1, <2>2, <2>3, <2>4 DEF LockInv, IsPut, IsPatch
  <1>3. ReplyInv'
    BY DEF Inv, ReplyInv, LockInv, TypeOK, Loaded, Newest, Final, ChanCap, Gens, Holds, Acquire, Release, Leave, Reloader
  <1>4. ServeInv'
    BY ServeKept DEF Inv
  <1>5. AnswerMeansLoaded'
    BY DEF Inv, AnswerMeansLoaded, LockInv, ReplyInv, TypeOK, Loaded, IsPut, IsPatch, Loads, Changes, Newest, Final, Holds, Acquire, Release, Leave, Reloader
  <1>6. LoadedOnce'
    BY DEF Inv, LoadedOnce, ReplyInv, TypeOK, Newest, Holds, Acquire, Release, Leave, Reloader
  <1>7. QED  BY <1>1, <1>2, <1>3, <1>4, <1>5, <1>6 DEF Inv

(* Get preserves the inductive invariant.                                  *)
LEMMA GetInv ==
  ASSUME Inv, NEW c \in Clients, Get(c)
  PROVE  Inv'
  <1> USE ReloadAssumption DEF sockVars, Get, Running, Goto, lockVars, clientVars, genVars
  <1>1. TypeOK'
    BY SMTT(30) DEF Inv, TypeOK, Final, ChanCap, Gens, Newest, Socks, Holds, Acquire, Release, Leave, Reloader
  <1>2. LockInv'
    BY DEF Inv, LockInv, IsPut, IsPatch, Loads, Changes, TypeOK, Final, Holds, Acquire, Release, Leave, Reloader
  <1>3. ReplyInv'
    BY DEF Inv, ReplyInv, LockInv, TypeOK, Loaded, Newest, Final, ChanCap, Gens, Holds, Acquire, Release, Leave, Reloader
  <1>4. ServeInv'
    BY ServeKept DEF Inv
  <1>5. AnswerMeansLoaded'
    BY DEF Inv, AnswerMeansLoaded, LockInv, ReplyInv, TypeOK, Loaded, IsPut, IsPatch, Loads, Changes, Newest, Final, Holds, Acquire, Release, Leave, Reloader
  <1>6. LoadedOnce'
    BY DEF Inv, LoadedOnce, ReplyInv, TypeOK, Newest, Holds, Acquire, Release, Leave, Reloader
  <1>7. QED  BY <1>1, <1>2, <1>3, <1>4, <1>5, <1>6 DEF Inv

(* PutRefused preserves the inductive invariant.                           *)
LEMMA PutRefusedInv ==
  ASSUME Inv, NEW c \in Clients, PutRefused(c)
  PROVE  Inv'
  <1> USE ReloadAssumption DEF sockVars, PutRefused, Running, Goto, lockVars, clientVars, genVars
  <1>1. TypeOK'
    BY SMTT(30) DEF Inv, TypeOK, Final, ChanCap, Gens, Newest, Socks, Holds, Acquire, Release, Leave, Reloader
  <1>2. LockInv'
    BY DEF Inv, LockInv, IsPut, IsPatch, Loads, Changes, TypeOK, Final, Holds, Acquire, Release, Leave, Reloader
  <1>3. ReplyInv'
    BY DEF Inv, ReplyInv, LockInv, TypeOK, Loaded, Newest, Final, ChanCap, Gens, Holds, Acquire, Release, Leave, Reloader
  <1>4. ServeInv'
    BY ServeKept DEF Inv
  <1>5. AnswerMeansLoaded'
    BY DEF Inv, AnswerMeansLoaded, LockInv, ReplyInv, TypeOK, Loaded, IsPut, IsPatch, Loads, Changes, Newest, Final, Holds, Acquire, Release, Leave, Reloader
  <1>6. LoadedOnce'
    BY DEF Inv, LoadedOnce, ReplyInv, TypeOK, Newest, Holds, Acquire, Release, Leave, Reloader
  <1>7. QED  BY <1>1, <1>2, <1>3, <1>4, <1>5, <1>6 DEF Inv

(* PutSend preserves the inductive invariant.                              *)
LEMMA PutSendInv ==
  ASSUME Inv, NEW c \in Clients, PutSend(c)
  PROVE  Inv'
  <1> USE ReloadAssumption DEF sockVars, PutSend, Running, Goto, lockVars, clientVars, genVars
  <1>1. TypeOK'
    BY SMTT(30) DEF Inv, TypeOK, Final, ChanCap, Gens, Newest, Socks, Holds, Acquire, Release, Leave, Reloader
  <1>2. LockInv'
    BY DEF Inv, LockInv, IsPut, IsPatch, Loads, Changes, TypeOK, Final, Holds, Acquire, Release, Leave, Reloader
  <1>3. ReplyInv'
    <2>1. chan \in Seq(Clients) /\ Len(chan) \in Nat /\ Len(chan) < 1 /\ chan' = Append(chan, c)
      BY DEF Inv, TypeOK, ChanCap
    <2>2. Len(chan') = 1 /\ chan'[1] = c
      BY <2>1
    <2>3. oneshot[c] = "none" /\ pc[c] = "lock"
      BY DEF Inv, ReplyInv
    <2>4. \A d \in Clients : oneshot'[d] = IF d = c THEN "open" ELSE oneshot[d]
      BY DEF Inv, TypeOK
    <2>5. \A d \in Clients : pc'[d] = IF d = c THEN "wait" ELSE pc[d]
      BY DEF Inv, TypeOK
    <2>6. runtime = "running" /\ UNCHANGED <<runtime, rpc, cur, origin>>
      OBVIOUS
    <2>7. ReplyInv /\ origin \in Seq(Clients) /\ Newest \in Nat /\ Newest' = Newest
      BY <2>6 DEF Inv, TypeOK, Newest
    <2>8. \A g \in 1 .. Newest : origin[g] \in Clients
      BY <2>7 DEF Newest
    <2> HIDE DEF PutSend
    <2>9. \A d \in Clients : pc'[d] \in {"idle", "lock"} => oneshot'[d] = "none"
      BY <2>4, <2>5, <2>7 DEF ReplyInv
    <2>10. \A i \in 1 .. Len(chan') : chan'[i] = c /\ oneshot'[chan'[i]] = "open"
      BY <2>2, <2>4
    <2>11. rpc' = "create" => cur' \in Clients /\ cur' # c /\ oneshot'[cur'] = "open"
      BY <2>3, <2>4, <2>6, <2>7 DEF ReplyInv
    <2>12. \A d \in Clients : oneshot'[d] = "sent" => Loaded(d)'
      <3>1. \A d : Loaded(d)' <=> Loaded(d)
        BY <2>6, <2>7 DEF Loaded
      <3>2. QED  BY <2>4, <2>7, <3>1 DEF ReplyInv
    <2>13. \A g \in 1 .. Newest' : oneshot'[origin'[g]] = "sent"
      <3>1. \A g \in 1 .. Newest : oneshot[origin[g]] = "sent"
        BY <2>6, <2>7 DEF ReplyInv
      <3>2. QED  BY <2>3, <2>4, <2>6, <2>7, <2>8, <3>1
    <2>14. QED  BY <2>9, <2>10, <2>11, <2>12, <2>13 DEF ReplyInv
  <1>4. ServeInv'
    BY ServeKept DEF Inv
  <1>5. AnswerMeansLoaded'
    BY DEF Inv, AnswerMeansLoaded, LockInv, ReplyInv, TypeOK, Loaded, IsPut, IsPatch, Loads, Changes, Newest, Final, Holds, Acquire, Release, Leave, Reloader
  <1>6. LoadedOnce'
    BY DEF Inv, LoadedOnce, ReplyInv, TypeOK, Newest, Holds, Acquire, Release, Leave, Reloader
  <1>7. QED  BY <1>1, <1>2, <1>3, <1>4, <1>5, <1>6 DEF Inv

(* PutAnswer preserves the inductive invariant.                            *)
LEMMA PutAnswerInv ==
  ASSUME Inv, NEW c \in Clients, PutAnswer(c)
  PROVE  Inv'
  <1> USE ReloadAssumption DEF sockVars, PutAnswer, Running, Goto, lockVars, clientVars, genVars
  <1>1. TypeOK'
    BY SMTT(30) DEF Inv, LockInv, TypeOK, Final, ChanCap, Gens, Newest, Socks, Holds, Acquire, Release, Leave, Reloader
  <1>2. LockInv'
    BY DEF Inv, LockInv, IsPut, IsPatch, Loads, Changes, TypeOK, Final, Holds, Acquire, Release, Leave, Reloader
  <1>3. ReplyInv'
    BY DEF Inv, ReplyInv, LockInv, TypeOK, Loaded, Newest, Final, ChanCap, Gens, Holds, Acquire, Release, Leave, Reloader
  <1>4. ServeInv'
    BY ServeKept DEF Inv
  <1>5. AnswerMeansLoaded'
    <2> SUFFICES ASSUME NEW d \in Clients, IsPut(d), pc'[d] = "ok"
                 PROVE  (\E g \in 1 .. Newest : origin[g] = d)'
      BY DEF AnswerMeansLoaded, IsPut
    <2>1. origin' = origin
      OBVIOUS
    <2>2. CASE d = c
      <3>1. oneshot[c] = "sent"
        BY <2>2 DEF Inv, TypeOK
      <3>2. QED  BY <2>1, <2>2, <3>1 DEF Inv, ReplyInv, Loaded, Newest
    <2>3. CASE d # c
      <3>1. pc[d] = "ok"
        BY <2>3 DEF Inv, TypeOK
      <3>2. QED  BY <2>1, <3>1 DEF Inv, AnswerMeansLoaded, Newest
    <2>4. QED  BY <2>2, <2>3
  <1>6. LoadedOnce'
    BY DEF Inv, LoadedOnce, ReplyInv, TypeOK, Newest, Holds, Acquire, Release, Leave, Reloader
  <1>7. QED  BY <1>1, <1>2, <1>3, <1>4, <1>5, <1>6 DEF Inv
=============================================================================
