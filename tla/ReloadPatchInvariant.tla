------------------------ MODULE ReloadPatchInvariant ------------------------
(* PATCH /configs and a disconnect keep the invariant of Reload.           *)
EXTENDS ReloadInvariant

(* PatchStop preserves the inductive invariant.                            *)
LEMMA PatchStopInv ==
  ASSUME Inv, NEW c \in Clients, PatchStop(c)
  PROVE  Inv'
  <1> USE ReloadAssumption DEF sockVars, PatchStop, StopListeners, Running, Goto, lockVars, clientVars, genVars
  <1>1. TypeOK'
    BY SMTT(30) DEF Inv, TypeOK, Final, ChanCap, Gens, Newest, Socks, Holds, Acquire, Release, Leave, Reloader
  <1>2. LockInv'
    BY DEF Inv, LockInv, IsPut, IsPatch, Loads, Changes, TypeOK, Final, Holds, Acquire, Release, Leave, Reloader
  <1>3. ReplyInv'
    BY DEF Inv, ReplyInv, LockInv, TypeOK, Loaded, Newest, Final, ChanCap, Gens, Holds, Acquire, Release, Leave, Reloader
  <1>4. ServeInv'
    BY ServeKept DEF Inv, Of
  <1>5. AnswerMeansLoaded'
    BY DEF Inv, AnswerMeansLoaded, LockInv, ReplyInv, TypeOK, Loaded, IsPut, IsPatch, Loads, Changes, Newest, Final, Holds, Acquire, Release, Leave, Reloader
  <1>6. LoadedOnce'
    BY DEF Inv, LoadedOnce, ReplyInv, TypeOK, Newest, Holds, Acquire, Release, Leave, Reloader
  <1>7. QED  BY <1>1, <1>2, <1>3, <1>4, <1>5, <1>6 DEF Inv

(* PatchStart preserves the inductive invariant.                           *)
LEMMA PatchStartInv ==
  ASSUME Inv, NEW c \in Clients, PatchStart(c)
  PROVE  Inv'
  <1> USE ReloadAssumption DEF sockVars, PatchStart, StartListeners, Running, Goto, lockVars, clientVars, genVars
  <1>1. TypeOK'
    <2>1. lockq # <<>>
      BY DEF Inv, LockInv, Holds
    <2>2. lockq' \in Seq(Clients \cup {Reloader})
      BY <2>1 DEF Inv, TypeOK, Release
    <2>3. Gens' = Gens /\ Socks' = Socks
      BY DEF Gens, Newest, Socks
    <2>4. starting' \subseteq Socks
      BY DEF Inv, TypeOK, Socks, Sock
    <2>5. QED  BY <2>2, <2>3, <2>4 DEF Inv, TypeOK, Final
  <1>2. LockInv'
    BY DEF Inv, LockInv, IsPut, IsPatch, Loads, Changes, TypeOK, Final, Holds, Acquire, Release, Leave, Reloader
  <1>3. ReplyInv'
    BY DEF Inv, ReplyInv, LockInv, TypeOK, Loaded, Newest, Final, ChanCap, Gens, Holds, Acquire, Release, Leave, Reloader
  <1>4. ServeInv'
    BY ServeKept DEF Inv, Sock
  <1>5. AnswerMeansLoaded'
    <2>1. ~IsPut(c)
      BY DEF Inv, LockInv, IsPut, IsPatch, Loads, Changes
    <2>2. \A d \in Clients : d # c => pc'[d] = pc[d]
      BY DEF Inv, TypeOK
    <2>3. QED  BY <2>1, <2>2 DEF Inv, AnswerMeansLoaded, IsPut, Newest
  <1>6. LoadedOnce'
    BY DEF Inv, LoadedOnce, ReplyInv, TypeOK, Newest, Holds, Acquire, Release, Leave, Reloader
  <1>7. QED  BY <1>1, <1>2, <1>3, <1>4, <1>5, <1>6 DEF Inv

(* PatchPlain preserves the inductive invariant.                           *)
LEMMA PatchPlainInv ==
  ASSUME Inv, NEW c \in Clients, PatchPlain(c)
  PROVE  Inv'
  <1> USE ReloadAssumption DEF sockVars, PatchPlain, Running, Goto, lockVars, clientVars, genVars
  <1>1. TypeOK'
    BY SMTT(30) DEF Inv, TypeOK, Final, ChanCap, Gens, Newest, Socks, Holds, Acquire, Release, Leave, Reloader
  <1>2. LockInv'
    BY DEF Inv, LockInv, IsPut, IsPatch, Loads, Changes, TypeOK, Final, Holds, Acquire, Release, Leave, Reloader
  <1>3. ReplyInv'
    BY DEF Inv, ReplyInv, LockInv, TypeOK, Loaded, Newest, Final, ChanCap, Gens, Holds, Acquire, Release, Leave, Reloader
  <1>4. ServeInv'
    BY ServeKept DEF Inv
  <1>5. AnswerMeansLoaded'
    BY DEF Inv, AnswerMeansLoaded, LockInv, ReplyInv, TypeOK, Loaded, IsPut, IsPatch, Loads, Changes, Newest, Final, Holds, Acquire, Release, Leave, Reloader
  <1>6. LoadedOnce'
    BY DEF Inv, LoadedOnce, ReplyInv, TypeOK, Newest, Holds, Acquire, Release, Leave, Reloader
  <1>7. QED  BY <1>1, <1>2, <1>3, <1>4, <1>5, <1>6 DEF Inv

(* PatchInvalid preserves the inductive invariant.                         *)
LEMMA PatchInvalidInv ==
  ASSUME Inv, NEW c \in Clients, PatchInvalid(c)
  PROVE  Inv'
  <1> USE ReloadAssumption DEF sockVars, PatchInvalid, Running, Goto, lockVars, clientVars, genVars
  <1>1. TypeOK'
    BY SMTT(30) DEF Inv, TypeOK, Final, ChanCap, Gens, Newest, Socks, Holds, Acquire, Release, Leave, Reloader
  <1>2. LockInv'
    BY DEF Inv, LockInv, IsPut, IsPatch, Loads, Changes, TypeOK, Final, Holds, Acquire, Release, Leave, Reloader
  <1>3. ReplyInv'
    BY DEF Inv, ReplyInv, LockInv, TypeOK, Loaded, Newest, Final, ChanCap, Gens, Holds, Acquire, Release, Leave, Reloader
  <1>4. ServeInv'
    BY ServeKept DEF Inv
  <1>5. AnswerMeansLoaded'
    BY DEF Inv, AnswerMeansLoaded, LockInv, ReplyInv, TypeOK, Loaded, IsPut, IsPatch, Loads, Changes, Newest, Final, Holds, Acquire, Release, Leave, Reloader
  <1>6. LoadedOnce'
    BY DEF Inv, LoadedOnce, ReplyInv, TypeOK, Newest, Holds, Acquire, Release, Leave, Reloader
  <1>7. QED  BY <1>1, <1>2, <1>3, <1>4, <1>5, <1>6 DEF Inv

(* Disconnect preserves the inductive invariant.                           *)
LEMMA DisconnectInv ==
  ASSUME Inv, NEW c \in Clients, Disconnect(c)
  PROVE  Inv'
  <1> USE ReloadAssumption DEF sockVars, Disconnect, Running, Goto, lockVars, clientVars, genVars
  <1>1. TypeOK'
    <2>1. lockq' \in Seq(Clients \cup {Reloader})
      <3>1. lockq \in Seq(Clients \cup {Reloader})
        BY DEF Inv, TypeOK
      <3>2. PICK i \in 1 .. Len(lockq) :
               lockq' = [j \in 1 .. Len(lockq) - 1 |->
                           IF j < i THEN lockq[j] ELSE lockq[j + 1]]
        BY DEF Leave
      <3>3. Len(lockq) - 1 \in Nat
        BY <3>1, <3>2
      <3>4. \A j \in 1 .. Len(lockq) - 1 : lockq'[j] \in Clients \cup {Reloader}
        BY <3>1, <3>2
      <3>5. QED
        BY <3>2, <3>3, <3>4
    <2>2. pc' \in [Clients -> {"idle", "lock", "wait", "restart"} \cup Final]
      BY DEF Inv, TypeOK, Final
    <2>3. disconnects' \in 0 .. MaxDisconnects
      BY DEF Inv, TypeOK
    <2>4. QED
      BY <2>1, <2>2, <2>3, SMTT(30) DEF Inv, TypeOK, Gens, Newest, Socks
  <1>2. LockInv'
    <2>1. ASSUME NEW p, p # c, Holds(p)
          PROVE  Holds(p)'
      <3>1. PICK i \in 1 .. Len(lockq) :
               /\ lockq[i] = c
               /\ lockq' = [j \in 1 .. Len(lockq) - 1 |->
                              IF j < i THEN lockq[j] ELSE lockq[j + 1]]
        BY DEF Leave
      <3>2. lockq \in Seq(Clients \cup {Reloader}) /\ Len(lockq) \in Nat /\ lockq[1] = p
        BY <2>1 DEF Inv, TypeOK, Holds
      <3>3. i > 1
        BY <2>1, <3>1, <3>2
      <3>4. Len(lockq') = Len(lockq) - 1 /\ lockq'[1] = p
        BY <3>1, <3>2, <3>3
      <3>5. lockq' # <<>> /\ Head(lockq') = lockq'[1]
        <4>1. lockq' \in Seq(Clients \cup {Reloader})
          BY <1>1 DEF TypeOK
        <4>2. Len(lockq') >= 1
          BY <3>1, <3>2, <3>3, <3>4
        <4>3. QED  BY <4>1, <4>2
      <3>6. QED  BY <3>4, <3>5 DEF Holds
    <2>2. ASSUME NEW d \in Clients
          PROVE  pc'[d] = IF d = c THEN "gone" ELSE pc[d]
      BY DEF Inv, TypeOK
    <2>3. QED  BY <2>1, <2>2 DEF Inv, LockInv, IsPut, IsPatch, Reloader
  <1>3. ReplyInv'
    BY DEF Inv, ReplyInv, LockInv, TypeOK, Loaded, Newest, Final, ChanCap, Gens, Holds, Acquire, Release, Leave, Reloader
  <1>4. ServeInv'
    BY ServeKept DEF Inv
  <1>5. AnswerMeansLoaded'
    BY DEF Inv, AnswerMeansLoaded, LockInv, ReplyInv, TypeOK, Loaded, IsPut, IsPatch, Loads, Changes, Newest, Final, Holds, Acquire, Release, Leave, Reloader
  <1>6. LoadedOnce'
    BY DEF Inv, LoadedOnce, ReplyInv, TypeOK, Newest, Holds, Acquire, Release, Leave, Reloader
  <1>7. QED  BY <1>1, <1>2, <1>3, <1>4, <1>5, <1>6 DEF Inv
=============================================================================
