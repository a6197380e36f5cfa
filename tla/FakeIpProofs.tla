---------------------------- MODULE FakeIpProofs ----------------------------
(* For every subnet, every set of hosts and every way in which the text of an
   address or a name may begin with that of another: the address that lookup
   answers leads back to its host, whatever lookups are cancelled and however often
   the process is restarted from a file that a flush left unfinished.  And the
   address that was given last is not taken from its host next. *)
EXTENDS FakeIpFile, TLAPS

\* What makes AnswersLeadBack inductive: the lookup on its way owns its address, and
\* the file is as good as the memory.
FileInv ==
    /\ pc = "put" => itoh[Ip(offset)] = None
    /\ pc = "pub" => itoh[Ip(offset)] = host
    /\ LeadsBack(disk)

\* What makes NewestKept inductive: a search begins at the address given last.
RecentInv ==
    /\ pc = "idle" /\ recent # None => recent = Ip(offset)
    /\ pc \in {"search", "del"} /\ recent # None => recent = Ip(current)
    /\ pc = "del" => offset = (current + 1) % Modulus

\* The inductive invariants; the second rests on the first.
IInv == TypeOK /\ AnswersLeadBack /\ FileInv

\* The loop of `get' stays within the subnet.
LEMMA OffsetInRange ==
    ASSUME NEW o \in Offsets
    PROVE  (o + 1) % Modulus \in Offsets
BY PoolAssumption DEF Offsets, Modulus, MaxIp, MinIp

LEMMA IpInPool ==
    ASSUME NEW o \in Offsets
    PROVE  Ip(o) \in Ips
BY DEF Ips

LEMMA InitIInv ==
    ASSUME Init
    PROVE  IInv /\ RecentInv
<1>1. 0 \in Offsets
  BY PoolAssumption DEF Offsets, Modulus, MaxIp, MinIp
<1>2. Empty \in Tables /\ LeadsBack(Empty)
  BY DEF Empty, Tables, IpToHost, HostToIp, NoHost, NoIp, LeadsBack
<1>3. TypeOK
  BY <1>1, <1>2 DEF Init, TypeOK, NoHost, NoIp, IpToHost, HostToIp
<1>4. AnswersLeadBack
  BY DEF Init, AnswersLeadBack, LeadsBack, NoIp
<1> QED
  BY <1>2, <1>3, <1>4 DEF Init, IInv, FileInv, RecentInv

\* A truncated table has the type of the whole one, if the values it may be cut
\* down to have.
LEMMA TruncatedType ==
    ASSUME NEW X, NEW V, NEW f \in [X -> V \cup {None}],
           \A v \in V : Cut[v] \subseteq V,
           NEW g \in Truncated(f)
    PROVE  g \in [X -> V \cup {None}]
<1>1. Parts(f) \subseteq [X -> V \cup {None}]
  BY DEF Parts
<1>2. ASSUME NEW x \in X PROVE CutShort(f, x) \subseteq [X -> V \cup {None}]
  <2> SUFFICES ASSUME f[x] # None, NEW e \in Parts(f), NEW v \in Cut[f[x]]
               PROVE  [e EXCEPT ![x] = v] \in [X -> V \cup {None}]
    BY DEF CutShort
  <2>1. f[x] \in V
    OBVIOUS
  <2>2. v \in V
    BY <2>1
  <2> QED
    BY <1>1, <2>2
<1> QED
  BY <1>1, <1>2 DEF Truncated

\* A file that ends early keeps an answer only with its way back, because ip_to_host
\* precedes host_to_ip.  The answer it ends in may be cut short, once more perhaps.
LEMMA TornLeadsBack ==
    ASSUME NEW s \in Tables, LeadsBack(s), NEW d \in Torn(s)
    PROVE  LeadsBack(d)
<1>1. ASSUME NEW t \in Truncated(s.i), d = [i |-> t, h |-> NoIp] PROVE LeadsBack(d)
  BY <1>1 DEF NoIp, LeadsBack
<1>2. ASSUME NEW t \in Truncated(s.h), d = [i |-> s.i, h |-> t] PROVE LeadsBack(d)
  <2>0. s.h \in HostToIp /\ DOMAIN s.h = Hosts
    BY DEF Tables, HostToIp
  <2> SUFFICES ASSUME NEW h \in Hosts, t[h] # None
               PROVE  \/ t[h] \in Ips /\ s.i[t[h]] = h
                      \/ \E i \in Ips : s.i[i] = h /\ t[h] \in Cut[i]
    BY <1>2 DEF LeadsBack
  <2>1. ASSUME NEW g \in Parts(s.h)
        PROVE  DOMAIN g = Hosts /\ (g[h] = s.h[h] \/ g[h] = None)
    BY <2>0 DEF Parts
  <2>2. CASE t[h] = s.h[h]
    BY <2>2 DEF LeadsBack
  <2>3. CASE t[h] # s.h[h]
    <3>1. t \notin Parts(s.h)
      BY <2>1, <2>3
    <3>2. PICK x \in Hosts : t \in CutShort(s.h, x)
      BY <2>0, <3>1 DEF Truncated
    <3>3. PICK g \in Parts(s.h), v \in Cut[s.h[x]] : s.h[x] # None /\ t = [g EXCEPT ![x] = v]
      BY <3>2 DEF CutShort
    <3>4. x = h /\ t[h] = v
      BY <2>1, <2>3, <3>3
    <3>5. CASE s.h[h] \in Ips /\ s.i[s.h[h]] = h
      BY <3>3, <3>4, <3>5
    <3>6. ASSUME NEW i \in Ips, s.i[i] = h, s.h[h] \in Cut[i]
          PROVE  t[h] \in Cut[i]
      BY <3>3, <3>4, <3>6, FileAssumption
    <3> QED
      BY <3>3, <3>4, <3>5, <3>6 DEF LeadsBack
  <2> QED
    BY <2>2, <2>3
<1> QED
  BY <1>1, <1>2 DEF Torn

\* A truncated file holds tables.
LEMMA TornTables ==
    ASSUME NEW s \in Tables, NEW d \in Torn(s)
    PROVE  d \in Tables
<1>0. s.i \in IpToHost /\ s.h \in HostToIp /\ NoIp \in HostToIp
  BY DEF Tables, NoIp, HostToIp
<1>1. ASSUME NEW t \in Truncated(s.i) PROVE t \in IpToHost
  BY <1>0, TruncatedType, FileAssumption DEF IpToHost
<1>2. ASSUME NEW t \in Truncated(s.h) PROVE t \in HostToIp
  <2>1. s.h \in [Hosts -> (Ips \cup {Other}) \cup {None}]
    BY <1>0 DEF HostToIp
  <2>2. t \in [Hosts -> (Ips \cup {Other}) \cup {None}]
    BY <2>1, TruncatedType, FileAssumption
  <2> QED
    BY <2>2 DEF HostToIp
<1> QED
  BY <1>0, <1>1, <1>2 DEF Torn, Tables

LEMMA SearchIInv ==
    ASSUME IInv, Search
    PROVE  IInv'
<1> DEFINE o == (offset + 1) % Modulus
<1>1. o \in Offsets /\ (o + 1) % Modulus \in Offsets
  BY OffsetInRange DEF IInv, TypeOK
<1>2. TypeOK'
  BY <1>1 DEF IInv, TypeOK, Search
<1>3. AnswersLeadBack' /\ LeadsBack(disk)'
  BY DEF IInv, FileInv, AnswersLeadBack, LeadsBack, Search
<1>4. (pc = "put" => itoh[Ip(offset)] = None)' /\ (pc = "pub" => itoh[Ip(offset)] = host)'
  BY DEF IInv, Search
<1> QED
  BY <1>2, <1>3, <1>4 DEF IInv, FileInv

LEMMA DelIInv ==
    ASSUME IInv, Del
    PROVE  IInv'
<1>0. Ip(offset) \in Ips
  BY IpInPool DEF IInv, TypeOK
<1>1. TypeOK'
  BY <1>0, FileAssumption DEF IInv, TypeOK, Del, IpToHost, HostToIp
<1>2. AnswersLeadBack'
  <2> SUFFICES ASSUME NEW h \in Hosts, htoi'[h] # None
               PROVE  \/ htoi'[h] \in Ips /\ itoh'[htoi'[h]] = h
                      \/ \E i \in Ips : itoh'[i] = h /\ htoi'[h] \in Cut[i]
    BY DEF AnswersLeadBack, LeadsBack
  <2>1. htoi'[h] = htoi[h] /\ h # itoh[Ip(offset)]
    BY DEF Del
  <2>2. \/ htoi[h] \in Ips /\ itoh[htoi[h]] = h
        \/ \E i \in Ips : itoh[i] = h /\ htoi[h] \in Cut[i]
    BY <2>1 DEF IInv, AnswersLeadBack, LeadsBack
  <2>3. \A i \in Ips : itoh[i] = h => itoh'[i] = h
    BY <1>0, <2>1 DEF Del, IInv, TypeOK, IpToHost
  <2> QED
    BY <2>1, <2>2, <2>3
<1>3. LeadsBack(disk)'
  BY DEF IInv, FileInv, LeadsBack, Del
<1>4. (pc = "put" => itoh[Ip(offset)] = None)' /\ (pc = "pub" => itoh[Ip(offset)] = host)'
  BY <1>0 DEF IInv, TypeOK, IpToHost, Del
<1> QED
  BY <1>1, <1>2, <1>3, <1>4 DEF IInv, FileInv

\* The address was free, so that no answer needs it yet.
LEMMA PutIInv ==
    ASSUME IInv, Put
    PROVE  IInv'
<1>0. Ip(offset) \in Ips /\ itoh[Ip(offset)] = None
  BY IpInPool DEF IInv, TypeOK, FileInv, Put
<1>1. TypeOK'
  BY <1>0 DEF IInv, TypeOK, Put, IpToHost, HostToIp
<1>2. AnswersLeadBack'
  <2> SUFFICES ASSUME NEW h \in Hosts, htoi[h] # None
               PROVE  \/ htoi[h] \in Ips /\ itoh'[htoi[h]] = h
                      \/ \E i \in Ips : itoh'[i] = h /\ htoi[h] \in Cut[i]
    BY DEF AnswersLeadBack, LeadsBack, Put
  <2>1. \/ htoi[h] \in Ips /\ itoh[htoi[h]] = h
        \/ \E i \in Ips : itoh[i] = h /\ htoi[h] \in Cut[i]
    BY DEF IInv, AnswersLeadBack, LeadsBack
  <2>2. \A i \in Ips : itoh[i] = h => itoh'[i] = h
    BY <1>0, FileAssumption DEF Put, IInv, TypeOK, IpToHost
  <2> QED
    BY <2>1, <2>2
<1>3. LeadsBack(disk)'
  BY DEF IInv, FileInv, LeadsBack, Put
<1>4. (pc = "put" => itoh[Ip(offset)] = None)' /\ (pc = "pub" => itoh[Ip(offset)] = host)'
  BY <1>0 DEF IInv, TypeOK, IpToHost, Put
<1> QED
  BY <1>1, <1>2, <1>3, <1>4 DEF IInv, FileInv

LEMMA PubIInv ==
    ASSUME IInv, Pub
    PROVE  IInv'
<1>0. Ip(offset) \in Ips /\ host \in Hosts /\ itoh[Ip(offset)] = host
  BY IpInPool DEF IInv, TypeOK, FileInv, Pub
<1>1. TypeOK'
  <2>1. 0 \in Offsets
    BY PoolAssumption DEF Offsets, Modulus, MaxIp, MinIp
  <2> QED
    BY <1>0, <2>1 DEF IInv, TypeOK, Pub, Leave, IpToHost, HostToIp
<1>2. AnswersLeadBack'
  BY <1>0 DEF IInv, TypeOK, AnswersLeadBack, LeadsBack, HostToIp, Pub
<1>3. LeadsBack(disk)'
  BY DEF IInv, FileInv, LeadsBack, Pub
<1> QED
  BY <1>1, <1>2, <1>3 DEF IInv, FileInv, Pub, Leave

LEMMA RestartIInv ==
    ASSUME IInv, Restart
    PROVE  IInv'
<1>1. 0 \in Offsets
  BY PoolAssumption DEF Offsets, Modulus, MaxIp, MinIp
<1>2. disk' \in Tables /\ LeadsBack(disk')
  BY TornTables, TornLeadsBack DEF IInv, TypeOK, FileInv, Restart
<1>3. TypeOK'
  BY <1>1, <1>2 DEF IInv, TypeOK, Restart, Leave, Tables
<1>4. AnswersLeadBack'
  BY <1>2 DEF AnswersLeadBack, LeadsBack, Restart
<1> QED
  BY <1>2, <1>3, <1>4 DEF IInv, FileInv, LeadsBack, Restart, Leave

LEMMA NextIInv ==
    ASSUME IInv, [Next]_vars
    PROVE  IInv'
<1> USE DEF IInv, TypeOK, AnswersLeadBack, FileInv, LeadsBack
<1>1. ASSUME NEW h \in Hosts, Lookup(h) PROVE IInv'
  BY <1>1, FileAssumption DEF Lookup
<1>2. CASE Cancel
  <2>1. 0 \in Offsets
    BY PoolAssumption DEF Offsets, Modulus, MaxIp, MinIp
  <2> QED
    BY <1>2, <2>1 DEF Cancel, Leave
<1>3. CASE FlushEnd
  BY <1>3 DEF FlushEnd, fakedns
<1>4. CASE FlushStart
  <2>1. disk' \in Tables
    BY <1>4 DEF FlushStart, Tables
  <2>2. LeadsBack(disk')
    BY <1>4 DEF FlushStart
  <2> QED
    BY <1>4, <2>1, <2>2 DEF FlushStart, fakedns
<1>5. CASE UNCHANGED vars
  BY <1>5 DEF vars, fakedns
<1> QED
  BY <1>1, <1>2, <1>3, <1>4, <1>5, SearchIInv, DelIInv, PutIInv, PubIInv,
     RestartIInv DEF Next

\* A search that comes back to its start goes one address on.
LEMMA NextIsOther ==
    ASSUME NEW o \in Offsets, Modulus > 1
    PROVE  (o + 1) % Modulus # o
<1>1. o \in Nat /\ Modulus \in Nat /\ o < Modulus
  BY PoolAssumption DEF Offsets, Modulus, MaxIp, MinIp
<1>2. CASE o + 1 = Modulus
  <2>1. (o + 1) % Modulus = 0
    BY <1>1, <1>2
  <2> QED
    BY <1>2, <2>1
<1>3. CASE o + 1 < Modulus
  <2>1. (o + 1) % Modulus = o + 1
    BY <1>1, <1>3
  <2> QED
    BY <1>1, <2>1
<1> QED
  BY <1>1, <1>2, <1>3

LEMMA NextRecentInv ==
    ASSUME TypeOK, RecentInv, [Next]_vars
    PROVE  RecentInv'
<1> USE DEF RecentInv
<1>1. ASSUME NEW h \in Hosts, Lookup(h) PROVE RecentInv'
  BY <1>1 DEF Lookup
<1>2. CASE Search
  BY <1>2 DEF Search
<1>3. CASE Del \/ Put
  BY <1>3 DEF Del, Put
<1>4. CASE Pub \/ Cancel \/ Restart
  BY <1>4 DEF Pub, Cancel, Restart, Leave
<1>5. CASE FlushStart \/ FlushEnd
  BY <1>5 DEF FlushStart, FlushEnd, fakedns
<1>6. CASE UNCHANGED vars
  BY <1>6 DEF vars, fakedns
<1> QED
  BY <1>1, <1>2, <1>3, <1>4, <1>5, <1>6 DEF Next

\* lookup and reverse_lookup of FakeDns over the cache file agree in every
\* reachable state, for any subnet and any number of hosts, but for an answer that a
\* file cut short while its whole address leads back to the host.
THEOREM SpecAnswersLeadBack == Spec => []AnswersLeadBack
<1>1. Spec => []IInv
  BY InitIInv, NextIInv, PTL DEF Spec
<1>2. IInv => AnswersLeadBack
  BY DEF IInv
<1> QED
  BY <1>1, <1>2, PTL

\* FakeDns::get never takes the address that was given last, unless a lookup has been
\* dropped or the process restarted since.
THEOREM SpecNewestKept == Spec => []NewestKept
<1>1. Spec => []IInv
  BY InitIInv, NextIInv, PTL DEF Spec
<1>2. IInv /\ RecentInv /\ [Next]_vars => RecentInv'
  BY NextRecentInv DEF IInv
<1>3. Spec => []RecentInv
  BY <1>1, <1>2, InitIInv, PTL DEF Spec
<1>4. IInv /\ RecentInv => NewestKept
  <2> SUFFICES ASSUME IInv, RecentInv, pc = "del", Modulus > 1, Ip(offset) = recent
               PROVE  FALSE
    BY DEF NewestKept
  <2>1. offset \in Offsets /\ current \in Offsets /\ Offsets \subseteq Nat
    BY PoolAssumption DEF IInv, TypeOK, Offsets, Modulus, MaxIp, MinIp
  <2>2. offset # current
    BY <2>1, NextIsOther DEF RecentInv
  <2>3. recent # None
    BY <2>1, IpInPool, FileAssumption
  <2>4. Ip(offset) = Ip(current)
    BY <2>3 DEF RecentInv
  <2> QED
    BY <2>1, <2>2, <2>4 DEF Ip, MinIp
<1> QED
  BY <1>1, <1>3, <1>4, PTL
=============================================================================
