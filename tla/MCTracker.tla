----------------------------- MODULE MCTracker -----------------------------
(* Instances of Tracker for TLC. *)
EXTENDS Tracker

CONSTANTS c1, c2

MCConns == {c1, c2}
MCSpliced == {c2}
=============================================================================
