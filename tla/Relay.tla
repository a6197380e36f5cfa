------------------------------- MODULE Relay -------------------------------
(* Copying between the two streams of a proxied connection: CopyBidirectional
   and CopyBuffer of common/io/mod.rs, and their zero-copy twins of
   common/io/splice.rs.

   "up" copies from a to b, "down" from b to a.  The code polls both directions
   in one loop; here a step of either may come whenever its stream is ready,
   and a step that is not ready is one the stream does not take.  Bytes are
   numbered in the order their sender wrote them. *)
EXTENDS Naturals, Sequences, SequencesExt

CONSTANTS
    BufSize,     \* capacity of a copy buffer (or pipe)
    MaxSend      \* bound: bytes a sender writes in each direction

ASSUME RelayAssumption ==
    /\ BufSize \in Nat \ {0}
    /\ MaxSend \in Nat

Dirs == {"up", "down"}
Other(d) == IF d = "up" THEN "down" ELSE "up"

VARIABLES
    zero,           \* the connection is copied by the zero-copy twin
    sent, fin,      \* what the sender of a direction has written, and its end
    taken,          \* bytes read from the sender's stream
    state,          \* TransferState
    buf, pos,       \* CopyBuffer: the bytes of the last read, how many were written
    readDone, needFlush, amt,
    out,            \* bytes the receiving stream accepted
    seen,           \* how many of them it has flushed to the receiver
    shut,           \* poll_shutdown has completed
    delay,          \* the half-close timer of a direction
    counted,        \* a_to_b_count and b_to_a_count
    tracked,        \* bytes reported to the statistics
    result          \* output of the future

peerVars == <<zero, sent, fin>>
bufVars == <<taken, buf, pos, readDone, needFlush, amt, out, seen>>
endVars == <<state, shut, delay, counted, result>>
vars == <<peerVars, bufVars, endVars, tracked>>

Cap(d) == Len(buf[d])
Unread(d) == sent[d] - taken[d]
Empty(d) == pos[d] = Cap(d)

\* A type invariant: a buffer holds at most its capacity.
TypeOK ==
    /\ zero \in BOOLEAN
    /\ sent \in [Dirs -> 0 .. MaxSend] /\ fin \in [Dirs -> BOOLEAN]
    /\ \A d \in Dirs : taken[d] \in 0 .. sent[d]
    /\ state \in [Dirs -> {"running", "shutting", "done"}]
    /\ \A d \in Dirs :
         /\ buf[d] \in Seq(Nat) /\ Cap(d) <= BufSize
         /\ pos[d] \in 0 .. Cap(d)
         /\ out[d] \in Seq(Nat) /\ seen[d] \in 0 .. Len(out[d])
    /\ readDone \in [Dirs -> BOOLEAN] /\ needFlush \in [Dirs -> BOOLEAN]
    /\ amt \in [Dirs -> Nat] /\ counted \in [Dirs -> Nat] /\ tracked \in [Dirs -> Nat]
    /\ shut \in [Dirs -> BOOLEAN]
    /\ delay \in [Dirs -> {"none", "armed", "fired"}]
    /\ result \in {"pending", "ok", "left", "right", "other"}

Init ==
    /\ zero \in BOOLEAN
    /\ sent = [d \in Dirs |-> 0] /\ fin = [d \in Dirs |-> FALSE]
    /\ taken = [d \in Dirs |-> 0]
    /\ state = [d \in Dirs |-> "running"]
    /\ buf = [d \in Dirs |-> <<>>] /\ pos = [d \in Dirs |-> 0]
    /\ readDone = [d \in Dirs |-> FALSE] /\ needFlush = [d \in Dirs |-> FALSE]
    /\ amt = [d \in Dirs |-> 0]
    /\ out = [d \in Dirs |-> <<>>] /\ seen = [d \in Dirs |-> 0]
    /\ shut = [d \in Dirs |-> FALSE]
    /\ delay = [d \in Dirs |-> "none"]
    /\ counted = [d \in Dirs |-> 0] /\ tracked = [d \in Dirs |-> 0]
    /\ result = "pending"

----------------------------------------------------------------------------
(* The two ends of the connection *)

Send(d) ==
    /\ result = "pending" /\ ~ fin[d] /\ sent[d] < MaxSend
    /\ sent' = [sent EXCEPT ![d] = @ + 1]
    /\ UNCHANGED <<zero, fin, bufVars, endVars, tracked>>

Fin(d) ==
    /\ result = "pending" /\ ~ fin[d]
    /\ fin' = [fin EXCEPT ![d] = TRUE]
    /\ UNCHANGED <<zero, sent, bufVars, endVars, tracked>>

----------------------------------------------------------------------------
(* CopyBuffer::poll_copy *)

Copying(d) == result = "pending" /\ state[d] = "running"

\* TrackedStream counts b's bytes when it reads and when it writes them; the
\* zero-copy twin counts a direction when it is over.
TrackIo(d, op, n) ==
    tracked' = IF ~ zero /\ (op = "read") = (d = "down")
               THEN [tracked EXCEPT ![d] = @ + n] ELSE tracked

\* Mutant: the buffer is refilled while bytes of the last read are in it.
EmptyEarly(d) == pos[d] > 0 \/ Cap(d) = 0

\* The buffer may be filled: all of the last read was written.
Drained(d) == Empty(d)

\* Mutant: a read is not limited to the buffer.
ReadUnbounded(d) ==
    /\ Copying(d) /\ Drained(d) /\ ~ readDone[d] /\ Unread(d) > 0
    /\ buf' = [buf EXCEPT ![d] = [i \in 1 .. Unread(d) |-> taken[d] + i]]
    /\ taken' = [taken EXCEPT ![d] = sent[d]]
    /\ TrackIo(d, "read", Unread(d))
    /\ pos' = [pos EXCEPT ![d] = 0]
    /\ UNCHANGED <<peerVars, readDone, needFlush, amt, out, seen, endVars>>

\* The empty buffer is filled with what the stream has.
Read(d) ==
    /\ Copying(d) /\ Drained(d) /\ ~ readDone[d]
    /\ \E n \in 1 .. BufSize :
         /\ n <= Unread(d)
         /\ buf' = [buf EXCEPT ![d] = [i \in 1 .. n |-> taken[d] + i]]
         /\ taken' = [taken EXCEPT ![d] = @ + n]
         /\ TrackIo(d, "read", n)
    /\ pos' = [pos EXCEPT ![d] = 0]
    /\ UNCHANGED <<peerVars, readDone, needFlush, amt, out, seen, endVars>>

ReadEof(d) ==
    /\ Copying(d) /\ Empty(d) /\ ~ readDone[d]
    /\ fin[d] /\ Unread(d) = 0
    /\ readDone' = [readDone EXCEPT ![d] = TRUE]
    /\ UNCHANGED <<peerVars, taken, buf, pos, needFlush, amt, out, seen, endVars,
                   tracked>>

\* Mutant: no flush while the reader has nothing.
ReadPendingLazy(d) ==
    /\ FALSE
    /\ UNCHANGED vars

\* The reader has nothing: flush the writer.
ReadPending(d) ==
    /\ Copying(d) /\ Empty(d) /\ ~ readDone[d]
    /\ Unread(d) = 0 /\ ~ fin[d] /\ needFlush[d]
    /\ seen' = [seen EXCEPT ![d] = Len(out[d])]
    /\ needFlush' = [needFlush EXCEPT ![d] = FALSE]
    /\ UNCHANGED <<peerVars, taken, buf, pos, readDone, amt, out, endVars, tracked>>

\* Mutant: a partial write is counted as the whole buffer.
WriteCountsAll(d) ==
    /\ Copying(d) /\ ~ Empty(d)
    /\ \E n \in 1 .. BufSize :
         /\ n <= Cap(d) - pos[d]
         /\ out' = [out EXCEPT ![d] = @ \o SubSeq(buf[d], pos[d] + 1, pos[d] + n)]
         /\ pos' = [pos EXCEPT ![d] = @ + n]
         /\ amt' = [amt EXCEPT ![d] = @ + Cap(d) - pos[d]]
         /\ TrackIo(d, "write", n)
    /\ needFlush' = [needFlush EXCEPT ![d] = TRUE]
    /\ UNCHANGED <<peerVars, taken, buf, readDone, seen, endVars>>

\* The receiving stream takes some of the buffer.
Write(d) ==
    /\ Copying(d) /\ ~ Empty(d)
    /\ \E n \in 1 .. BufSize :
         /\ n <= Cap(d) - pos[d]
         /\ out' = [out EXCEPT ![d] = @ \o SubSeq(buf[d], pos[d] + 1, pos[d] + n)]
         /\ pos' = [pos EXCEPT ![d] = @ + n]
         /\ amt' = [amt EXCEPT ![d] = @ + n]
         /\ TrackIo(d, "write", n)
    /\ needFlush' = [needFlush EXCEPT ![d] = TRUE]
    /\ UNCHANGED <<peerVars, taken, buf, readDone, seen, endVars>>

\* A stream may also flush what it has of its own accord.
AutoFlush(d) ==
    /\ result = "pending" /\ seen[d] < Len(out[d])
    /\ seen' = [seen EXCEPT ![d] = Len(out[d])]
    /\ UNCHANGED <<peerVars, taken, buf, pos, readDone, needFlush, amt, out,
                   endVars, tracked>>

\* Mutant: end of input ends the copy, whatever is left in the buffer.
CopyDoneEarly(d) ==
    /\ Copying(d) /\ fin[d]
    /\ state' = [state EXCEPT ![d] = "shutting"]
    /\ UNCHANGED <<peerVars, bufVars, shut, delay, counted, result, tracked>>

\* Everything is written and the sender is done: flush and begin the shutdown.
CopyDone(d) ==
    /\ Copying(d) /\ Empty(d) /\ readDone[d]
    /\ seen' = [seen EXCEPT ![d] = Len(out[d])]
    /\ state' = [state EXCEPT ![d] = "shutting"]
    /\ UNCHANGED <<peerVars, taken, buf, pos, readDone, needFlush, amt, out, shut,
                   delay, counted, result, tracked>>

----------------------------------------------------------------------------
(* CopyBidirectional::poll *)

Failed(d) == IF d = "up" THEN "left" ELSE "right"

\* A read, write or flush fails.  The twin counts the direction that failed.
CopyError(d) ==
    /\ Copying(d)
    /\ result' = IF zero THEN "other" ELSE Failed(d)
    /\ tracked' = IF zero THEN [tracked EXCEPT ![d] = @ + amt[d]] ELSE tracked
    /\ UNCHANGED <<peerVars, bufVars, state, shut, delay, counted>>

\* Mutant: the half-close timer is never armed.
ArmNone(d) == delay

\* The end of one direction arms the timer of the other.
Arm(d) == [delay EXCEPT ![Other(d)] = "armed"]

\* poll_shutdown completes.
Shutdown(d) ==
    /\ result = "pending" /\ state[d] = "shutting"
    /\ state' = [state EXCEPT ![d] = "done"]
    /\ shut' = [shut EXCEPT ![d] = TRUE]
    /\ counted' = [counted EXCEPT ![d] = @ + amt[d]]
    /\ tracked' = IF zero THEN [tracked EXCEPT ![d] = @ + amt[d]] ELSE tracked
    /\ delay' = Arm(d)
    /\ result' = IF state[Other(d)] = "done" THEN "ok" ELSE "pending"
    /\ UNCHANGED <<peerVars, bufVars>>

ShutdownError(d) ==
    /\ result = "pending" /\ state[d] = "shutting"
    /\ result' = Failed(d)
    /\ UNCHANGED <<peerVars, bufVars, state, shut, delay, counted, tracked>>

\* Ten seconds pass.
Elapse(d) ==
    /\ result = "pending" /\ delay[d] = "armed"
    /\ delay' = [delay EXCEPT ![d] = "fired"]
    /\ UNCHANGED <<peerVars, bufVars, state, shut, counted, tracked, result>>

\* The copy is waiting when its timer is polled: what it still holds is dropped.
Expire(d) ==
    /\ Copying(d) /\ delay[d] = "fired"
    /\ Empty(d) /\ ~ readDone[d] => Unread(d) = 0 /\ ~ fin[d]
    /\ state' = [state EXCEPT ![d] = "shutting"]
    /\ UNCHANGED <<peerVars, bufVars, shut, delay, counted, tracked, result>>

Next ==
    \/ \E d \in Dirs : Send(d)
    \/ \E d \in Dirs : Fin(d)
    \/ \E d \in Dirs : Read(d)
    \/ \E d \in Dirs : ReadEof(d)
    \/ \E d \in Dirs : ReadPending(d)
    \/ \E d \in Dirs : Write(d)
    \/ \E d \in Dirs : AutoFlush(d)
    \/ \E d \in Dirs : CopyDone(d)
    \/ \E d \in Dirs : CopyError(d)
    \/ \E d \in Dirs : Shutdown(d)
    \/ \E d \in Dirs : ShutdownError(d)
    \/ \E d \in Dirs : Elapse(d)
    \/ \E d \in Dirs : Expire(d)

Spec == Init /\ [][Next]_vars

\* A ready future is polled again and timers fire.  Nothing is assumed of the
\* two ends: they may neither send, nor finish, nor take what is written (Write
\* is not fair).  Closing the write side of a socket does complete.
Fairness ==
    \A d \in Dirs :
        /\ WF_vars(Read(d)) /\ WF_vars(ReadEof(d)) /\ WF_vars(ReadPending(d))
        /\ WF_vars(CopyDone(d)) /\ WF_vars(Shutdown(d))
        /\ WF_vars(Elapse(d)) /\ WF_vars(Expire(d))

FairSpec == Spec /\ Fairness

----------------------------------------------------------------------------
(* Properties *)

\* What the receiver gets is what the sender wrote, from the first byte on:
\* nothing is skipped, repeated or reordered by reads and writes of any size.
InOrder == \A d \in Dirs : out[d] = [i \in 1 .. Len(out[d]) |-> i]

\* A receiver sees the end of the stream only after it has been given every byte
\* that was sent, unless the half-close timer of that direction cut it short.
EofAfterData ==
    \A d \in Dirs :
        state[d] # "running" /\ delay[d] # "fired" =>
            fin[d] /\ Len(out[d]) = sent[d] /\ seen[d] = sent[d]

\* What the future reports, and what the statistics were told, is what crossed.
CountsExact ==
    result = "ok" =>
        \A d \in Dirs : /\ counted[d] = Len(out[d])
                        /\ tracked[d] = IF zero \/ d = "up" THEN Len(out[d]) ELSE taken[d]

\* "Try flushing when the reader has no progress to avoid deadlock when the
\* reader depends on buffered writer" (io/mod.rs): written bytes do not stay in
\* the stream's buffer while both ends wait for each other.
FlushedEventually ==
    \A d \in Dirs :
        (Copying(d) /\ Empty(d) /\ seen[d] < Len(out[d]))
            ~> (seen[d] = Len(out[d]) \/ ~ Copying(d) \/ ~ Empty(d))

\* Once one direction has ended the connection ends, even if the other end
\* neither sends, nor closes, nor reads: the half-close timers see to it.
HalfClosedEnds == (\E d \in Dirs : state[d] = "done") ~> (result # "pending")
=============================================================================
