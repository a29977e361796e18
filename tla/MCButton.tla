------------------------------ MODULE MCButton -----------------------------
(* The application's button in milliseconds, with the source's delay.      *)
EXTENDS Button
=============================================================================
