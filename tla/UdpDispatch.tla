---------------------------- MODULE UdpDispatch ----------------------------
(* One call of Dispatcher::dispatch_datagram (app/dispatcher/dispatcher_impl.rs):
   the tasks it spawns and the table of outbound UDP sessions they share.

     t1       reads the packets of the inbound, picks the outbound, finds or
              builds the session of (outbound, source) and queues the packet;
     w_handle one per session, writes the queued packets to the remote;
     r_handle one per session, rewrites what the remote sends back ("NAT") and
              passes it to t2;
     t2       writes the replies to the inbound;
     cleaner  scans the table every timeout and stops the idle sessions.

   A packet is numbered by its arrival; a session has the number of the packet
   that made t1 build it.  Every wait of the code is a boundary between two
   actions.  Writing to the remote may block for ever. *)
EXTENDS Naturals, Sequences, FiniteSets, TLC

CONSTANTS
    Sources,      \* addresses of the local clients
    Dests,        \* addresses the clients send to
    Outbounds,    \* names of the outbound handlers
    Flows,        \* the packets the clients send and where they are routed
    ChanCap,      \* capacity of the mpsc channels (32 in the code)
    Timeout,      \* the ten seconds of TimeoutUdpSessionManager, in clock ticks
    MaxPackets,   \* bound: packets the inbound delivers
    MaxReplies,   \* bound: replies the remotes send
    None, Recv, Stop   \* no packet; a task waiting for input; a task that ended

Ids == 1 .. MaxPackets
Packet == [src : Sources, dst : Dests, out : Outbounds]
Reply == [from : Dests, src : Dests, dst : Sources]

ASSUME UdpAssumption ==
    /\ ChanCap \in Nat \ {0}
    /\ Timeout \in Nat \ {0}
    /\ Flows \subseteq Packet
    /\ MaxPackets \in Nat /\ MaxReplies \in Nat
    /\ Recv # Stop /\ {Recv, Stop} \cap (Packet \cup Reply) = {}

VARIABLES
    t1, t2,       \* program counters of the two tasks
    pkt,          \* the packet in t1's hands: its source, destination and outbound
    target,       \* the session whose sender t1 holds
    count,        \* packets read so far
    session,      \* what a session was built from: outbound, source, first destination
    map,          \* the sessions in the OutboundHandleMap
    age,          \* ticks since the `last' of a session
    phase,        \* ticks since the cleaner's interval fired
    fwd,          \* the channel of a session: packets waiting for w_handle
    rtask, wtask, \* the two tasks of a session
    wire,         \* the packets a session has sent to the remote
    back,         \* the channel to t2
    replies,      \* number of replies the remotes have sent
    delivered,    \* what t2 wrote to the inbound: from, src and dst of a reply
    closing       \* the oneshot returned by dispatch_datagram

t1Vars == <<t1, pkt, target, count>>
timeVars == <<age, phase>>
taskVars == <<rtask, wtask>>
backVars == <<t2, back, replies, delivered>>
vars == <<t1Vars, session, map, timeVars, fwd, taskVars, wire,
          backVars, closing>>

\* Every session has been built when r_handle and w_handle have been spawned.
Built == {i \in Ids : session[i] # None}
Key(i) == <<session[i].out, session[i].src>>

\* A type invariant: every task is at one of its waits and the channels hold at
\* most what tokio lets them hold.
TypeOK ==
    /\ t1 \in {"next", "lookup", "connect", "insert", "send", "stop"}
    /\ t2 \in {"run", "stop"}
    /\ pkt \in Packet \cup {None} /\ target \in 0 .. MaxPackets
    /\ count \in 0 .. MaxPackets
    /\ session \in [Ids -> Packet \cup {None}]
    /\ map \in SUBSET Ids
    /\ age \in [Ids -> 0 .. Timeout] /\ phase \in 0 .. Timeout
    /\ \A i \in Ids : fwd[i] \in Seq(Packet) /\ Len(fwd[i]) <= ChanCap
    /\ rtask \in [Ids -> Reply \cup {Recv, Stop}]
    /\ wtask \in [Ids -> Packet \cup {Recv, Stop}]
    /\ wire \in [Ids -> SUBSET Packet]
    /\ back \in Seq(Reply) /\ Len(back) <= ChanCap
    /\ replies \in 0 .. MaxReplies
    /\ delivered \in SUBSET Reply
    /\ closing \in {"open", "signalled"}

Live(i) == rtask[i] # Stop \/ wtask[i] # Stop

\* Mutant: sessions with packets in their queue are not idle.
ExpiredAndDrained(i) == age[i] >= Timeout /\ fwd[i] = <<>>

\* The timeout of a session has elapsed.
Expired(i) == age[i] >= Timeout

Init ==
    /\ t1 = "next" /\ t2 = "run" /\ pkt = None /\ target = 0 /\ count = 0
    /\ session = [i \in Ids |-> None]
    /\ map = {}
    /\ age = [i \in Ids |-> 0]
    /\ phase = Timeout                   \* an interval fires at once
    /\ fwd = [i \in Ids |-> <<>>]
    /\ rtask = [i \in Ids |-> Stop]
    /\ wtask = [i \in Ids |-> Stop]
    /\ wire = [i \in Ids |-> {}]
    /\ back = <<>> /\ replies = 0 /\ delivered = {}
    /\ closing = "open"

----------------------------------------------------------------------------
(* t1 *)

\* A packet arrives.  A packet whose destination cannot be looked up is dropped
\* and leaves no trace; otherwise the mode, the router and the active proxy of a
\* group, which may all change from packet to packet, give the outbound.
T1Next(p) ==
    /\ t1 = "next" /\ count < MaxPackets
    /\ count' = count + 1
    /\ pkt' = p
    /\ t1' = "lookup"
    /\ UNCHANGED <<target, session, map, timeVars, fwd, taskVars, wire, backVars, closing>>

\* Mutant: the table is searched by outbound only.
SessionOfAnySource(p) == {i \in map : session[i].out = p.out}

SessionOf(p) == {i \in map : Key(i) = <<p.out, p.src>>}

\* get_outbound_sender_mut: a hit refreshes the session's access time.
T1Lookup ==
    /\ t1 = "lookup"
    /\ \/ /\ SessionOf(pkt) = {}
          /\ t1' = "connect"
          /\ UNCHANGED <<target, age>>
       \/ \E i \in SessionOf(pkt) :
            /\ t1' = "send" /\ target' = i
            /\ age' = [age EXCEPT ![i] = 0]
    /\ UNCHANGED <<pkt, count, session, map, phase, fwd, taskVars,
                   wire, backVars, closing>>

\* connect_datagram fails: the packet is dropped.
T1ConnectFails ==
    /\ t1 = "connect"
    /\ t1' = "next" /\ pkt' = None
    /\ UNCHANGED <<target, count, session, map, timeVars, fwd,
                   taskVars, wire, backVars, closing>>

\* The outbound is connected and the two tasks of the session are spawned.
T1Connect ==
    /\ t1 = "connect"
    /\ session' = [session EXCEPT ![count] = pkt]
    /\ rtask' = [rtask EXCEPT ![count] = Recv]
    /\ wtask' = [wtask EXCEPT ![count] = Recv]
    /\ t1' = "insert" /\ target' = count
    /\ UNCHANGED <<pkt, count, map, timeVars, fwd, wire, backVars,
                   closing>>

T1Insert ==
    /\ t1 = "insert"
    /\ map' = (map \ SessionOf(pkt)) \cup {target}
    /\ age' = [age EXCEPT ![target] = 0]
    /\ t1' = "send"
    /\ UNCHANGED <<pkt, target, count, session, phase, fwd, taskVars,
                   wire, backVars, closing>>

\* Mutant: the channel to w_handle is unbounded.
T1SendUnbounded ==
    /\ t1 = "send"
    /\ fwd' = [fwd EXCEPT ![target] = Append(@, pkt)]
    /\ t1' = "next" /\ pkt' = None /\ target' = 0
    /\ UNCHANGED <<count, session, map, timeVars, taskVars, wire,
                   backVars, closing>>

\* The packet is queued, or the send fails because w_handle is gone and the
\* packet is dropped.  A full channel makes t1 wait.
T1Send ==
    /\ t1 = "send"
    /\ \/ /\ wtask[target] = Stop
          /\ UNCHANGED fwd
       \/ /\ wtask[target] # Stop /\ Len(fwd[target]) < ChanCap
          /\ fwd' = [fwd EXCEPT ![target] = Append(@, pkt)]
    /\ t1' = "next" /\ pkt' = None /\ target' = 0
    /\ UNCHANGED <<count, session, map, timeVars, taskVars, wire,
                   backVars, closing>>

\* t1 ends and drops its TimeoutUdpSessionManager: the cleaner is aborted, the
\* table is dropped, and the drop aborts the tasks of every session in it.
T1Stop ==
    /\ t1' = "stop" /\ pkt' = None /\ target' = 0
    /\ map' = {}
    /\ rtask' = [i \in Ids |-> IF i \in map THEN Stop ELSE rtask[i]]
    /\ wtask' = [i \in Ids |-> IF i \in map THEN Stop ELSE wtask[i]]
    /\ fwd' = [i \in Ids |-> IF i \in map THEN <<>> ELSE fwd[i]]
    /\ UNCHANGED <<count, session, timeVars, wire, backVars, closing>>

\* The inbound's stream of packets ends.
T1Eof == t1 = "next" /\ T1Stop

\* The abort of t1, at whichever wait it is.
T1Abort == closing = "signalled" /\ t1 # "stop" /\ T1Stop

----------------------------------------------------------------------------
(* The tasks of a session, t2 and the cleaner *)

\* w_handle takes the next packet; it ends when no sender is left, neither in
\* the table nor in t1's hands.
WRecv(i) ==
    /\ wtask[i] = Recv
    /\ \/ /\ fwd[i] # <<>>
          /\ wtask' = [wtask EXCEPT ![i] = Head(fwd[i])]
          /\ fwd' = [fwd EXCEPT ![i] = Tail(@)]
       \/ /\ fwd[i] = <<>> /\ i \notin map
          /\ target # i
          /\ wtask' = [wtask EXCEPT ![i] = Stop]
          /\ UNCHANGED fwd
    /\ UNCHANGED <<t1Vars, session, map, timeVars, rtask, wire,
                   backVars, closing>>

\* remote_w.send: an error is only logged.
WSend(i) ==
    /\ wtask[i] \in Packet
    /\ wire' = [wire EXCEPT ![i] = @ \cup {wtask[i]}]
    /\ wtask' = [wtask EXCEPT ![i] = Recv]
    /\ UNCHANGED <<t1Vars, session, map, timeVars, fwd, rtask,
                   backVars, closing>>

\* The address translation of r_handle: the session's own source, and the
\* destination of the packet the session was built for.
Translate(i, from) ==
    [from |-> from, src |-> session[i].dst, dst |-> session[i].src]

\* A remote the session has written to answers.
RRecv(i, from) ==
    /\ rtask[i] = Recv /\ from \in {p.dst : p \in wire[i]} /\ replies < MaxReplies
    /\ replies' = replies + 1
    /\ rtask' = [rtask EXCEPT ![i] = Translate(i, from)]
    /\ UNCHANGED <<t1Vars, session, map, timeVars, fwd, wtask, wire,
                   t2, back, delivered, closing>>

\* The remote closes the association and r_handle ends.
REof(i) ==
    /\ rtask[i] = Recv
    /\ rtask' = [rtask EXCEPT ![i] = Stop]
    /\ UNCHANGED <<t1Vars, session, map, timeVars, fwd, wtask, wire,
                   backVars, closing>>

\* The reply is passed to t2, or dropped when t2 is gone.
RSend(i) ==
    /\ rtask[i] \in Reply
    /\ \/ t2 = "stop" /\ UNCHANGED back
       \/ t2 = "run" /\ Len(back) < ChanCap /\ back' = Append(back, rtask[i])
    /\ rtask' = [rtask EXCEPT ![i] = Recv]
    /\ UNCHANGED <<t1Vars, session, map, timeVars, fwd, wtask, wire,
                   t2, replies, delivered, closing>>

T2Deliver ==
    /\ t2 = "run" /\ back # <<>>
    /\ delivered' = delivered \cup {Head(back)}
    /\ back' = Tail(back)
    /\ UNCHANGED <<t1Vars, session, map, timeVars, fwd, taskVars,
                   wire, t2, replies, closing>>

\* Mutant: the signal aborts t1 only.
T2StopDrained ==
    /\ t2 = "run" /\ back = <<>> /\ t1 = "stop" /\ \A i \in Ids : rtask[i] = Stop
    /\ t2' = "stop"
    /\ UNCHANGED <<t1Vars, session, map, timeVars, fwd, taskVars,
                   wire, back, replies, delivered, closing>>

\* t2 ends when t1 and every r_handle have dropped their sender, or by abort.
T2Stop ==
    /\ t2 = "run"
    /\ \/ closing = "signalled"
       \/ back = <<>> /\ t1 = "stop" /\ \A i \in Ids : rtask[i] = Stop
    /\ t2' = "stop" /\ back' = <<>>
    /\ UNCHANGED <<t1Vars, session, map, timeVars, fwd, taskVars,
                   wire, replies, delivered, closing>>

\* Mutant: the cleaner drops the handles of the session without aborting them.
ScanDetaches ==
    /\ t1 # "stop" /\ phase = Timeout
    /\ phase' = 0
    /\ map' = {i \in map : ~ Expired(i)}
    /\ UNCHANGED <<t1Vars, session, age, fwd, taskVars, wire,
                   backVars, closing>>

\* The cleaner's scan: the sessions idle for the timeout are aborted and leave
\* the table.
Scan ==
    /\ t1 # "stop" /\ phase = Timeout
    /\ phase' = 0
    /\ LET gone == {i \in map : Expired(i)} IN
         /\ map' = map \ gone
         /\ rtask' = [i \in Ids |-> IF i \in gone THEN Stop ELSE rtask[i]]
         /\ wtask' = [i \in Ids |-> IF i \in gone THEN Stop ELSE wtask[i]]
         /\ fwd' = [i \in Ids |-> IF i \in gone THEN <<>> ELSE fwd[i]]
    /\ UNCHANGED <<t1Vars, session, age, wire, backVars, closing>>

Tick ==
    /\ t1 # "stop"
    /\ phase < Timeout \/ \E i \in map : age[i] < Timeout
    /\ phase' = IF phase < Timeout THEN phase + 1 ELSE phase
    /\ age' = [i \in Ids |-> IF i \in map /\ age[i] < Timeout
                             THEN age[i] + 1 ELSE age[i]]
    /\ UNCHANGED <<t1Vars, session, map, fwd, taskVars, wire,
                   backVars, closing>>

----------------------------------------------------------------------------
(* The rest of the program *)

\* The inbound uses the close sender.  When it drops it the tasks just run on.
Close ==
    /\ closing = "open"
    /\ closing' = "signalled"
    /\ UNCHANGED <<t1Vars, session, map, timeVars, fwd, taskVars,
                   wire, backVars>>

\* Nothing is left to run.
Done ==
    /\ t1 = "stop" /\ t2 = "stop"
    /\ UNCHANGED vars

Next ==
    \/ \E p \in Flows : T1Next(p)
    \/ T1Lookup
    \/ T1ConnectFails
    \/ T1Connect
    \/ T1Insert
    \/ T1Send
    \/ T1Eof
    \/ T1Abort
    \/ \E i \in Ids : WRecv(i)
    \/ \E i \in Ids : WSend(i)
    \/ \E i \in Ids, d \in Dests : RRecv(i, d)
    \/ \E i \in Ids : REof(i)
    \/ \E i \in Ids : RSend(i)
    \/ T2Deliver
    \/ T2Stop
    \/ Scan
    \/ Tick
    \/ Close
    \/ Done

Spec == Init /\ [][Next]_vars

\* The executor keeps polling ready tasks and the clock advances.  Nothing is
\* assumed of the remotes: WSend, RRecv and REof may never happen, a connect may
\* hang, and the inbound may be silent.
Fairness ==
    /\ WF_vars(T1Lookup) /\ WF_vars(T1Insert) /\ WF_vars(T1Send)
    /\ WF_vars(T1Abort)
    /\ WF_vars(T2Deliver) /\ WF_vars(T2Stop)
    /\ WF_vars(Scan) /\ WF_vars(Tick)
    /\ \A i \in Ids : WF_vars(WRecv(i)) /\ WF_vars(RSend(i))

FairSpec == Spec /\ Fairness

----------------------------------------------------------------------------
(* Properties *)

\* The session t1 was about to insert when it was aborted: its JoinHandles are
\* dropped, which detaches the tasks.
Orphan(i) == t1 = "stop" /\ i = count

\* No session's tasks run outside the table, where the cleaner would never find
\* them: a live session is in the table, is the one t1 is inserting, or was
\* caught between its spawn and its insertion by the abort of t1; a session that
\* lost its place still drains at most its own queue.  A key has one session.
SessionsTracked ==
    /\ \A i \in Ids : Live(i) =>
          i \in map \/ (t1 = "insert" /\ i = count) \/ Orphan(i)
    /\ \A i, j \in map : Key(i) = Key(j) => i = j

\* However the sessions of different clients and outbounds interleave, a reply
\* is given to a client that sent a packet to the remote that answers, and it
\* appears to come from an address that client sent a packet to.
ReplyToItsSource ==
    \A m \in delivered :
        \E i \in Built :
            /\ \E p \in wire[i] : p.src = m.dst /\ p.dst = m.from
            /\ \E p \in wire[i] : p.src = m.dst /\ p.dst = m.src

\* A remote that stops reading blocks w_handle, fills the channel of its session
\* and blocks t1, which serves every client of the inbound.  The cleaner ends
\* that: t1 is never blocked for ever on one session.
SendUnblocks == (t1 = "send") ~> (t1 # "send")

\* After the close signal both tasks end, and with them every session but one
\* caught between its spawn and its insertion.
CloseStops ==
    (closing = "signalled") ~>
        (t1 = "stop" /\ t2 = "stop" /\ \A i \in Ids : Live(i) => i = count)
=============================================================================
