------------------------------- MODULE MCShell ------------------------------
(* Two shells, a table of two rows and one name more than it holds.        *)
EXTENDS Shell

MCNames  == 1 .. 3
MCBehind == {Empty, Junk}
============================================================================
