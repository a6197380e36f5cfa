------------------------------ MODULE Tracker ------------------------------
(* The list of live connections and the traffic counters behind GET and DELETE
   /connections: Manager (app/dispatcher/statistics_manager.rs) and
   TrackedStream (app/dispatcher/tracked.rs).

   A stream registers itself with a oneshot sender; the API closes it by
   sending on that oneshot, which the stream looks at whenever it is polled.
   It does so with try_recv, which registers no waker: what wakes the copy is
   the traffic of either side, or nothing.
   Upload and download are counted alike, and the model has one of them.  Every
   atomic access is a step of its own. *)
EXTENDS Naturals, FiniteSets, FiniteSetsExt

CONSTANTS
    Conns,          \* connections
    UntrackOnDrop,  \* TrackedStream has its Drop: linux with zero_copy only
    Spliced,        \* connections copied by zero_copy_bidirectional
    MaxBytes,       \* bound: bytes counted in all
    MaxShots        \* bound: snapshots taken

ASSUME TrackerAssumption ==
    /\ IsFiniteSet(Conns)
    /\ UntrackOnDrop \in BOOLEAN
    /\ Spliced \subseteq Conns
    /\ MaxBytes \in Nat /\ MaxShots \in Nat

VARIABLES
    conn,         \* the life of a TrackedStream
    io,           \* where a stream is in counting a byte
    woken,        \* streams whose copy was woken and has not gone back to wait
    connections,  \* keys of the ConnectionMap
    lock,         \* who holds the mutex of the ConnectionMap across a wait
    notify,       \* the oneshot of a connection, as its receiver sees it
    tasks,        \* tasks spawned by untrack and close
    ordered,      \* connections the API was asked to close
    temp, total,  \* upload_temp and upload_total of the Manager
    count,        \* upload_total of a TrackerInfo
    kick,         \* where the ticker of kick_off is
    blip,         \* upload_blip, the rate shown for the last second
    left, sum,    \* snapshot: entries still to visit, and their bytes so far
    report,       \* the last snapshot taken
    shots

connVars == <<conn, io, woken, notify, ordered>>
listVars == <<connections, lock, tasks>>
byteVars == <<temp, total, count>>
kickVars == <<kick, blip>>
snapVars == <<left, sum, report, shots>>
vars == <<connVars, listVars, byteVars, kickVars, snapVars>>

\* A type invariant: a stream counts bytes only while it is open.
TypeOK ==
    /\ conn \in [Conns -> {"new", "tracking", "open", "gone"}]
    /\ io \in [Conns -> {"idle", "total", "count"}]
    /\ \A c \in Conns : io[c] # "idle" => conn[c] = "open"
    /\ woken \subseteq Conns /\ connections \subseteq Conns
    /\ lock \in {"free", "snapshot"}
    /\ notify \in [Conns -> {"empty", "sent", "closed"}]
    /\ tasks \subseteq {"untrack", "close"} \X Conns
    /\ ordered \subseteq Conns
    /\ temp \in 0 .. MaxBytes /\ total \in 0 .. MaxBytes
    /\ count \in [Conns -> Nat]
    /\ kick \in {"tick", "reset"} /\ blip \in 0 .. MaxBytes
    /\ left \subseteq Conns /\ sum \in Nat
    /\ report \in [sum : Nat, total : Nat] /\ shots \in 0 .. MaxShots

Init ==
    /\ conn = [c \in Conns |-> "new"] /\ io = [c \in Conns |-> "idle"] /\ woken = {}
    /\ connections = {} /\ lock = "free" /\ tasks = {}
    /\ notify = [c \in Conns |-> "empty"] /\ ordered = {}
    /\ temp = 0 /\ total = 0 /\ count = [c \in Conns |-> 0]
    /\ kick = "tick" /\ blip = 0
    /\ left = {} /\ sum = 0 /\ report = [sum |-> 0, total |-> 0] /\ shots = 0

----------------------------------------------------------------------------
(* A stream *)

\* TrackedStream::new, up to the wait for the mutex.
New(c) ==
    /\ conn[c] = "new"
    /\ conn' = [conn EXCEPT ![c] = "tracking"]
    /\ UNCHANGED <<io, woken, notify, ordered, listVars, byteVars, kickVars, snapVars>>

\* Manager::track, after which the copy begins to poll.
Track(c) ==
    /\ conn[c] = "tracking" /\ lock = "free"
    /\ connections' = connections \cup {c}
    /\ conn' = [conn EXCEPT ![c] = "open"]
    /\ woken' = woken \cup {c}
    /\ UNCHANGED <<io, notify, ordered, lock, tasks, byteVars, kickVars, snapVars>>

\* Mutant: the stream is dropped without untrack.
DropSilent(c) ==
    /\ conn' = [conn EXCEPT ![c] = "gone"]
    /\ io' = [io EXCEPT ![c] = "idle"] /\ woken' = woken \ {c}
    /\ UNCHANGED <<tasks, notify, ordered, connections, lock, byteVars, kickVars, snapVars>>

\* TrackedStream::drop.
Drop(c) ==
    /\ conn' = [conn EXCEPT ![c] = "gone"]
    /\ io' = [io EXCEPT ![c] = "idle"] /\ woken' = woken \ {c}
    /\ tasks' = IF UntrackOnDrop THEN tasks \cup {<<"untrack", c>>} ELSE tasks
    /\ UNCHANGED <<notify, ordered, connections, lock, byteVars, kickVars, snapVars>>

\* Mutant: the copy is cancelled between two counters.
FinishMidway(c) ==
    /\ conn[c] \in {"tracking", "open"}
    /\ conn' = [conn EXCEPT ![c] = "gone"]
    /\ tasks' = IF UntrackOnDrop THEN tasks \cup {<<"untrack", c>>} ELSE tasks
    /\ UNCHANGED <<io, woken, notify, ordered, connections, lock, byteVars, kickVars, snapVars>>

\* The copy ends of itself, or the task waiting in track is dropped.
Finish(c) ==
    /\ conn[c] \in {"tracking", "open"} /\ io[c] = "idle"
    /\ Drop(c)

\* Traffic of either side wakes the copy.
Wake(c) ==
    /\ conn[c] = "open" /\ c \notin woken
    /\ woken' = woken \cup {c}
    /\ UNCHANGED <<conn, io, notify, ordered, listVars, byteVars, kickVars, snapVars>>

\* The copy polls its streams until they are pending.
Polled(c) == conn[c] = "open" /\ io[c] = "idle" /\ c \in woken

\* A poll that finds no order to close goes on to the stream below.  The spliced
\* copy reads that one directly and never looks for an order.
GoesOn(c) == notify[c] = "empty" \/ c \in Spliced

\* Mutant: a poll looks only for a dropped sender.
PollDropped(c) ==
    /\ Polled(c) /\ c \notin Spliced /\ notify[c] = "closed"
    /\ Drop(c)

\* A poll finds the oneshot used or its sender gone: BrokenPipe ends the copy.
PollClosed(c) ==
    /\ Polled(c) /\ ~GoesOn(c)
    /\ Drop(c)

\* A poll finds nothing to move: the copy waits for traffic, and only for that.
PollPending(c) ==
    /\ Polled(c) /\ GoesOn(c)
    /\ woken' = woken \ {c}
    /\ UNCHANGED <<conn, io, notify, ordered, listVars, byteVars, kickVars, snapVars>>

\* Mutant: the stream's own counter is raised before the manager's.
PushCountFirst(c) ==
    /\ Polled(c) /\ GoesOn(c)
    /\ total + Cardinality({d \in Conns : io[d] = "total"}) < MaxBytes
    /\ temp' = temp + 1 /\ count' = [count EXCEPT ![c] = @ + 1]
    /\ io' = [io EXCEPT ![c] = "total"]
    /\ UNCHANGED <<conn, woken, notify, ordered, listVars, total, kickVars, snapVars>>

\* poll_read or poll_write moved a byte: push_uploaded adds it to upload_temp,
PushTemp(c) ==
    /\ Polled(c) /\ GoesOn(c)
    /\ total + Cardinality({d \in Conns : io[d] = "total"}) < MaxBytes
    /\ temp' = temp + 1
    /\ io' = [io EXCEPT ![c] = "total"]
    /\ UNCHANGED <<conn, woken, notify, ordered, listVars, total, count, kickVars, snapVars>>

\* then to upload_total,
PushTotal(c) ==
    /\ io[c] = "total"
    /\ total' = total + 1
    /\ io' = [io EXCEPT ![c] = "count"]
    /\ UNCHANGED <<conn, woken, notify, ordered, listVars, temp, count, kickVars, snapVars>>

\* and the stream adds it to its own TrackerInfo.
PushCount(c) ==
    /\ io[c] = "count"
    /\ count' = [count EXCEPT ![c] = @ + 1]
    /\ io' = [io EXCEPT ![c] = "idle"]
    /\ UNCHANGED <<conn, woken, notify, ordered, listVars, temp, total, kickVars, snapVars>>

Poll(c) == PollClosed(c) \/ PollPending(c) \/ PushTemp(c)

----------------------------------------------------------------------------
(* The manager *)

\* Mutant: close removes the entry and forgets to send.
CloseOneSilent(c) == [notify EXCEPT ![c] = "empty"]

\* Sending on the oneshot of a removed entry.
CloseOne(c) == [notify EXCEPT ![c] = "sent"]

\* The task spawned by untrack.
Untrack(c) ==
    /\ <<"untrack", c>> \in tasks /\ lock = "free"
    /\ tasks' = tasks \ {<<"untrack", c>>}
    /\ connections' = connections \ {c}
    /\ notify' = IF c \in connections THEN [notify EXCEPT ![c] = "closed"] ELSE notify
    /\ UNCHANGED <<conn, io, woken, ordered, lock, byteVars, kickVars, snapVars>>

\* DELETE /connections/:id: close spawns a task and the answer is sent at once.
Close(c) ==
    /\ c \notin ordered /\ c \in connections
    /\ ordered' = ordered \cup {c}
    /\ tasks' = tasks \cup {<<"close", c>>}
    /\ UNCHANGED <<conn, io, woken, notify, connections, lock, byteVars, kickVars, snapVars>>

CloseTask(c) ==
    /\ <<"close", c>> \in tasks /\ lock = "free"
    /\ tasks' = tasks \ {<<"close", c>>}
    /\ connections' = connections \ {c}
    /\ notify' = IF c \in connections THEN CloseOne(c) ELSE notify
    /\ UNCHANGED <<conn, io, woken, ordered, lock, byteVars, kickVars, snapVars>>

\* DELETE /connections.
CloseAll ==
    /\ lock = "free" /\ connections # {}
    /\ ordered' = ordered \cup connections
    /\ notify' = [c \in Conns |-> IF c \in connections THEN "sent" ELSE notify[c]]
    /\ connections' = {}
    /\ UNCHANGED <<conn, io, woken, lock, tasks, byteVars, kickVars, snapVars>>

\* GET /connections: the mutex is held from here to the end of the snapshot.
SnapBegin ==
    /\ lock = "free" /\ shots < MaxShots
    /\ lock' = "snapshot" /\ left' = connections /\ sum' = 0 /\ shots' = shots + 1
    /\ UNCHANGED <<connVars, connections, tasks, byteVars, kickVars, report>>

SnapVisit(c) ==
    /\ lock = "snapshot" /\ c \in left
    /\ left' = left \ {c} /\ sum' = sum + count[c]
    /\ UNCHANGED <<connVars, listVars, byteVars, kickVars, report, shots>>

SnapEnd ==
    /\ lock = "snapshot" /\ left = {}
    /\ lock' = "free" /\ report' = [sum |-> sum, total |-> total]
    /\ UNCHANGED <<connVars, connections, tasks, byteVars, kickVars, left, sum, shots>>

\* kick_off, every second: upload_temp is copied to upload_blip ...
KickBlip ==
    /\ kick = "tick" /\ temp > 0
    /\ blip' = temp
    /\ kick' = "reset"
    /\ UNCHANGED <<connVars, listVars, byteVars, snapVars>>

\* ... and then set to zero, losing what was added in between.
KickReset ==
    /\ kick = "reset"
    /\ temp' = 0
    /\ kick' = "tick"
    /\ UNCHANGED <<connVars, listVars, total, count, blip, snapVars>>

Next ==
    \/ \E c \in Conns : New(c)
    \/ \E c \in Conns : Track(c)
    \/ \E c \in Conns : Finish(c)
    \/ \E c \in Conns : Wake(c)
    \/ \E c \in Conns : Poll(c)
    \/ \E c \in Conns : PushTotal(c)
    \/ \E c \in Conns : PushCount(c)
    \/ \E c \in Conns : Untrack(c)
    \/ \E c \in Conns : Close(c)
    \/ \E c \in Conns : CloseTask(c)
    \/ CloseAll
    \/ SnapBegin
    \/ \E c \in Conns : SnapVisit(c)
    \/ SnapEnd
    \/ KickBlip
    \/ KickReset

Spec == Init /\ [][Next]_vars

\* The executor runs spawned tasks, a snapshot in progress and a copy that was
\* woken.  Of the two ends nothing is assumed: a connection may be idle for ever,
\* and need not end of itself.
Fairness ==
    /\ \A c \in Conns :
         /\ WF_vars(Untrack(c)) /\ WF_vars(CloseTask(c)) /\ WF_vars(SnapVisit(c))
         /\ WF_vars(Poll(c)) /\ WF_vars(PushTotal(c)) /\ WF_vars(PushCount(c))
    /\ WF_vars(SnapEnd)

FairSpec == Spec /\ Fairness

----------------------------------------------------------------------------
(* Properties *)

\* A connection that carries traffic and was not told to stop is listed, so the
\* API can show it and close it.
OpenListed ==
    \A c \in Conns : conn[c] = "open" /\ notify[c] = "empty" => c \in connections

\* A snapshot never shows connections with more traffic than the whole program:
\* the manager counts a byte before the stream does, and the snapshot reads the
\* streams before the manager.
SnapshotConsistent == report.sum <= report.total

\* What untrack is for, "it is called in Drop" (statistics_manager.rs:97): a
\* connection that ended leaves the list, although the removal is a task of its
\* own that races with close, close_all and snapshots.
EndedUnlisted ==
    \A c \in Conns : (conn[c] = "gone") ~> (c \notin connections)

\* What the API answers, "connection {id} closed" (api/handlers/connection.rs:91),
\* comes to: a connection that was to be closed has been told so, or has ended,
\* whatever untrack, close_all and snapshots do to its entry meanwhile; and one that
\* has been told ends at its next traffic.  Excepted is a spliced connection, where
\* nobody looks at the order.  An idle one does not end.
ClosedEnds ==
    \A c \in Conns :
        /\ (c \in ordered) ~> (notify[c] # "empty" \/ conn[c] = "gone")
        /\ c \notin Spliced =>
              (notify[c] # "empty" /\ c \in woken) ~> (conn[c] = "gone")
=============================================================================
