--------------------------- MODULE MCUdpDispatch ---------------------------
(* Instances of UdpDispatch for TLC. *)
EXTENDS UdpDispatch

CONSTANTS s1, s2, d1, d2, o1

MCSources == {s1, s2}
MCDests == {d1, d2}
MCOutbounds == {o1}

\* Two clients of one outbound, one of which sends to two destinations.  A second
\* outbound would tell sessions apart the way a second client does.
MCFlows == {[src |-> s1, dst |-> d1, out |-> o1], [src |-> s1, dst |-> d2, out |-> o1],
            [src |-> s2, dst |-> d1, out |-> o1]}
=============================================================================
