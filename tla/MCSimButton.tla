---------------------------- MODULE MCSimButton ----------------------------
(* The simulation track's button in milliseconds, with the source's delay. *)
EXTENDS SimButton
=============================================================================
