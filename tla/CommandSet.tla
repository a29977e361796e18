----------------------------- MODULE CommandSet ----------------------------
(***************************************************************************)
(* What the dynamic commands of the shell sample promise: a bounded set of *)
(* names, and answers that tell the truth about it.                        *)
(***************************************************************************)
EXTENDS Integers, FiniteSets

CONSTANTS
    Names,    \* what is a command name: up to 32 alphanumerical characters
    Strings,  \* what the user may type instead of one
    Limit     \* how many commands there may be

VARIABLES
    commands,  \* the names that have been added
    answer     \* the last command, its argument and its outcome

Init == commands = {} /\ answer = <<"none">>

Room == Cardinality(commands) < Limit

(* A free name is accepted as long as there is room.  Whether the empty    *)
(* string is, is left open.                                                *)
Add(s) ==
    \/ /\ s \notin commands /\ Room
       /\ commands' = commands \cup {s}
       /\ answer' = <<"add", s, "done">>
    \/ /\ ~(s \in Names \ commands /\ Room)
       /\ answer' = <<"add", s, "refused">>
       /\ UNCHANGED commands

Execute(s) ==
    /\ answer' = <<"execute", s, IF s \in commands THEN "done" ELSE "refused">>
    /\ UNCHANGED commands

Remove(s) ==
    /\ answer' = <<"remove", s, IF s \in commands THEN "done" ELSE "refused">>
    /\ commands' = commands \ {s}

Next == \E s \in Names \cup Strings : Add(s) \/ Execute(s) \/ Remove(s)

Spec == Init /\ [][Next]_<<commands, answer>>
============================================================================
