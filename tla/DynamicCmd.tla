----------------------------- MODULE DynamicCmd ----------------------------
(***************************************************************************)
(* The table of dynamic commands of the shell sample, dynamic_cmd.c.  The  *)
(* threads of all shells have one priority and no command blocks before it *)
(* is done with the table, so a command is one step.                       *)
(*                                                                         *)
(* A row holds a string.  Strings are numbered so that strcmp() compares   *)
(* their numbers; the empty string is the smallest.                        *)
(***************************************************************************)
EXTENDS Integers, FiniteSets, Functions

CONSTANTS
    MAX_CMD_CNT,  \* rows of the table
    NAMES,        \* numbers of names that are alphanumerical and short enough
    BEHIND        \* what the bytes behind the table may read as

Empty == 0   \* ""
Bad   == -1  \* what the user types that is too long or has other characters
Junk  == -2  \* bytes that no argument compares equal to

(* The linker puts other data of the program behind the table.             *)
ASSUME DynamicCmdAssumption ==
    /\ MAX_CMD_CNT \in Nat \ {0}
    /\ NAMES \subseteq Nat \ {Empty}
    /\ BEHIND \subseteq {Empty, Junk} /\ BEHIND # {}

VARIABLES
    dynamic_cmd_buffer,
    dynamic_cmd_cnt,
    answer  \* history: the last command, its argument and its outcome

vars == <<dynamic_cmd_buffer, dynamic_cmd_cnt, answer>>

Row   == 0 .. MAX_CMD_CNT - 1
InUse == 0 .. dynamic_cmd_cnt - 1

TypeOK ==
    /\ dynamic_cmd_buffer \in [Row -> NAMES \cup {Empty, Junk}]
    /\ dynamic_cmd_cnt \in 0 .. MAX_CMD_CNT

Init ==
    /\ dynamic_cmd_buffer = [idx \in Row |-> Empty]
    /\ dynamic_cmd_cnt = 0
    /\ answer = <<"none">>

----------------------------------------------------------------------------
(* Mutant: names are not compared.                                         *)
DuplicateNever(s) == FALSE

(* Unused rows are compared too.                                           *)
Duplicate(s) == \E idx \in Row : dynamic_cmd_buffer[idx] = s

(* The outcomes of qsort() on the first n rows.                            *)
QSort(rows, n) ==
    { [idx \in Row |-> IF idx < n THEN rows[from[idx]] ELSE rows[idx]] :
        from \in { f \in Bijection(0 .. n - 1, 0 .. n - 1) :
                     \A i, j \in 0 .. n - 1 : i < j => rows[f[i]] <= rows[f[j]] } }

Refuses(s) == dynamic_cmd_cnt >= MAX_CMD_CNT \/ s = Bad \/ Duplicate(s)

CmdDynamicAdd(s) ==
    /\ answer' = <<"add", s, IF Refuses(s) THEN "refused" ELSE "done">>
    /\ IF Refuses(s)
       THEN UNCHANGED <<dynamic_cmd_buffer, dynamic_cmd_cnt>>
       ELSE /\ dynamic_cmd_cnt' = dynamic_cmd_cnt + 1
            /\ dynamic_cmd_buffer' \in
                 QSort([dynamic_cmd_buffer EXCEPT ![dynamic_cmd_cnt] = s], dynamic_cmd_cnt')

(* The rows in use that hold s.                                            *)
Found(s) == { idx \in InUse : dynamic_cmd_buffer[idx] = s }

CmdDynamicExecute(s) ==
    /\ answer' = <<"execute", s, IF Found(s) = {} THEN "refused" ELSE "done">>
    /\ UNCHANGED <<dynamic_cmd_buffer, dynamic_cmd_cnt>>

(* Mutant: only the rows in use are moved.                                 *)
MovedInUse(idx) == dynamic_cmd_cnt - idx - 1

(* How many rows memmove() moves: the rows behind idx and one unused row.  *)
Moved(idx) == dynamic_cmd_cnt - idx

(* When the table is full, that row is the memory behind the table.        *)
Shifted(idx, behind) ==
    [i \in Row |->
       IF idx <= i /\ i < idx + Moved(idx)
       THEN IF i + 1 \in Row THEN dynamic_cmd_buffer[i + 1] ELSE behind
       ELSE dynamic_cmd_buffer[i]]

CmdDynamicRemove(s) ==
    /\ answer' = <<"remove", s, IF Found(s) = {} THEN "refused" ELSE "done">>
    /\ \/ /\ Found(s) = {}
          /\ UNCHANGED <<dynamic_cmd_buffer, dynamic_cmd_cnt>>
       \/ \E idx \in Found(s) :
            /\ \A i \in Found(s) : idx <= i
            /\ IF idx = MAX_CMD_CNT - 1
               THEN dynamic_cmd_buffer' = [dynamic_cmd_buffer EXCEPT ![idx] = Empty]
               ELSE \E behind \in BEHIND : dynamic_cmd_buffer' = Shifted(idx, behind)
            /\ dynamic_cmd_cnt' = dynamic_cmd_cnt - 1

Next == \E s \in NAMES \cup {Empty, Bad} :
            CmdDynamicAdd(s) \/ CmdDynamicExecute(s) \/ CmdDynamicRemove(s)

Spec == Init /\ [][Next]_vars

----------------------------------------------------------------------------
(* The rows in use are what dynamic_cmd_get() hands to the shell's         *)
(* completion, which needs them sorted; they are distinct.                 *)
Sorted ==
    \A i, j \in InUse : i < j => dynamic_cmd_buffer[i] < dynamic_cmd_buffer[j]

(* No row behind them holds a name, which cmd_dynamic_add() would take for *)
(* a duplicate.                                                            *)
UnusedRowsHoldNoName ==
    \A idx \in Row \ InUse : dynamic_cmd_buffer[idx] \in {Empty, Junk}

(* The inductive invariant: whatever was added and removed, up to the full *)
(* table and back, the rows in use are sorted and distinct and a removed   *)
(* name is nowhere.                                                        *)
TableInv ==
    /\ TypeOK
    /\ Sorted
    /\ \A idx \in InUse : dynamic_cmd_buffer[idx] \in NAMES \cup {Empty}
    /\ UnusedRowsHoldNoName

(* The table is a set of names: a free name is accepted as long as there   *)
(* is room, a name is executed and removed if and only if it was added and *)
(* not removed since, and no other name is touched.                        *)
Commands == INSTANCE CommandSet WITH
    Names <- NAMES, Strings <- {Empty, Bad}, Limit <- MAX_CMD_CNT,
    commands <- { dynamic_cmd_buffer[idx] : idx \in InUse }

ImplementsCommandSet == Commands!Spec
============================================================================
