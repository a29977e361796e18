--------------------------------- MODULE Bypass -------------------------------
(***************************************************************************)
(* The command "bypass" of the shell sample, samples/04_shell/src/main.c:  *)
(* it hands the input of a shell, chunk by chunk, to a callback that looks *)
(* for ctrl-x ctrl-q.  The statics are shared by all instances of the      *)
(* shell, whose threads have one priority.  Only their printing blocks,    *)
(* and while it does in_use refuses the other shells: a command and a call *)
(* of the callback are one step each.                                      *)
(***************************************************************************)
EXTENDS Integers, SequencesExt

CONSTANTS
    SHELLS,    \* the instances of the shell
    MAX_CHUNK  \* bytes that a shell reads at a time

Byte  == {"ctrl_x", "ctrl_q", "other"}
Heard == {"plain", "after_x", "escaped"}
Chunk == UNION { [1 .. len -> Byte] : len \in 1 .. MAX_CHUNK }

VARIABLES
    in_use,    \* static of set_bypass()
    tail,      \* static of bypass_cb(): the last byte of the last chunk
    bypassed,  \* the shells with the callback installed
    heard      \* history: what the bytes of this bypass have come to

bypass_vars == <<in_use, tail, bypassed, heard>>

BypassInit ==
    /\ in_use = FALSE
    /\ tail = "other"
    /\ bypassed = {}
    /\ heard = "escaped"

----------------------------------------------------------------------------
(* Mutant: a second shell is not refused.                                  *)
BusyNever(bypass) == FALSE

Busy(bypass) == bypass /\ in_use

SetBypass(sh, bypass) ==
    IF Busy(bypass)
    THEN UNCHANGED <<in_use, bypassed>>
    ELSE /\ in_use' = ~in_use
         /\ bypassed' = IF bypass THEN bypassed \cup {sh} ELSE bypassed \ {sh}

CmdBypass(sh) ==
    /\ SetBypass(sh, TRUE)
    /\ heard' = IF bypassed' = bypassed THEN heard ELSE "plain"
    /\ UNCHANGED tail

Escapes(data) ==
    \/ tail = "ctrl_x" /\ data[1] = "ctrl_q"
    \/ \E i \in 1 .. Len(data) - 1 : data[i] = "ctrl_x" /\ data[i + 1] = "ctrl_q"

(* Mutant: tail keeps its value.                                           *)
ClearedTailNever == tail

ClearedTail == "other"

(* History: the user's view, byte by byte.                                 *)
Hears(so_far, byte) ==
    CASE so_far = "escaped"                          -> "escaped"
      [] so_far = "after_x" /\ byte = "ctrl_q"       -> "escaped"
      [] so_far # "escaped" /\ byte = "ctrl_x"       -> "after_x"
      [] OTHER                                       -> "plain"

(* so_far[i] is what they have come to after the first i bytes of data.    *)
HearsAll(data) ==
    \E so_far \in [0 .. Len(data) -> Heard] :
        /\ so_far[0] = heard /\ heard' = so_far[Len(data)]
        /\ \A i \in 1 .. Len(data) : so_far[i] = Hears(so_far[i - 1], data[i])

(* What follows the escape sequence in its chunk is dropped.               *)
BypassCb(sh, data) ==
    /\ sh \in bypassed
    /\ HearsAll(data)
    /\ IF Escapes(data)
       THEN SetBypass(sh, FALSE) /\ tail' = ClearedTail
       ELSE tail' = Last(data) /\ UNCHANGED <<in_use, bypassed>>

----------------------------------------------------------------------------
(* One shell at most is bypassed, and in_use, which set_bypass() toggles   *)
(* and never compares with what is installed, tells whether one is.        *)
BypassInv ==
    /\ in_use \in BOOLEAN /\ tail \in Byte /\ bypassed \subseteq SHELLS
    /\ in_use <=> bypassed # {}
    /\ \A sh, other \in bypassed : sh = other

(* "Bypass started, press ctrl-x ctrl-q to escape": a bypass ends when and *)
(* only when the bytes typed since its start contain ctrl-x ctrl-q,        *)
(* however the shell cut them into chunks and whatever an earlier bypass   *)
(* left in tail.                                                           *)
EscapeEndsBypass == bypassed = {} <=> heard = "escaped"

(* The inductive invariant: all the callback has to remember of what it    *)
(* was given is whether the last byte was ctrl-x, and no bypass inherits   *)
(* that from the one before.                                               *)
EscapeInv ==
    /\ EscapeEndsBypass
    /\ heard \in Heard
    /\ bypassed = {} => tail = "other"
    /\ bypassed # {} => (heard = "after_x" <=> tail = "ctrl_x")
============================================================================
