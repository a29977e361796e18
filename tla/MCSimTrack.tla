----------------------------- MODULE MCSimTrack ----------------------------
(* Instances of the simulation track for TLC.                              *)
EXTENDS SimTrack
=============================================================================
