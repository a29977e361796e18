------------------------------- MODULE MCApp -------------------------------
(* The application on small tick counts; the .cfg files choose the         *)
(* platform, the components built in and the shell commands in use.        *)
EXTENDS App
=============================================================================
