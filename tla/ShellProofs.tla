------------------------------ MODULE ShellProofs ----------------------------
(***************************************************************************)
(* The shell sample.  The table of dynamic commands, for every size of the *)
(* table and every set of names: it is sorted and implements a bounded     *)
(* set.  The bypass and the loopback on the UART, for any number of shells *)
(* and any chunks of input: what is shared has one user at a time.         *)
(***************************************************************************)
EXTENDS Shell, FiniteSetTheorems, WellFoundedInduction, TLAPS

(* The names in use.                                                       *)
Used == { dynamic_cmd_buffer[idx] : idx \in InUse }

LEMMA Constants ==
    /\ MAX_CMD_CNT \in Nat \ {0}
    /\ NAMES \subseteq Int /\ NAMES \cup {Empty} \subseteq Nat
    /\ Empty \notin NAMES /\ Junk \notin NAMES /\ Bad \notin NAMES
    /\ Empty \in Int /\ Junk \in Int /\ Bad \in Int
    /\ Empty # Junk /\ Empty # Bad /\ Junk # Bad
    /\ BEHIND \subseteq {Empty, Junk} /\ BEHIND # {}
BY DynamicCmdAssumption DEF Empty, Bad, Junk

LEMMA TableInit == Init => TableInv
BY Constants DEF Init, TableInv, TypeOK, Sorted, UnusedRowsHoldNoName, Row, InUse

(* What qsort() makes of n distinct rows, and that it keeps their set.     *)
LEMMA QSortSorts ==
    ASSUME NEW rows \in [Row -> NAMES \cup {Empty, Junk}], NEW n \in 0 .. MAX_CMD_CNT,
           \A i \in 0 .. n - 1 : rows[i] \in NAMES \cup {Empty},
           \A i, j \in 0 .. n - 1 : i # j => rows[i] # rows[j],
           NEW sorted \in QSort(rows, n)
    PROVE  /\ sorted \in [Row -> NAMES \cup {Empty, Junk}]
           /\ \A i \in 0 .. n - 1 : sorted[i] \in NAMES \cup {Empty}
           /\ \A i, j \in 0 .. n - 1 : i < j => sorted[i] < sorted[j]
           /\ \A i \in Row : i >= n => sorted[i] = rows[i]
           /\ { sorted[i] : i \in 0 .. n - 1 } = { rows[i] : i \in 0 .. n - 1 }
<1> DEFINE S == 0 .. n - 1
<1>1. PICK f \in Bijection(S, S) :
         /\ \A i, j \in S : i < j => rows[f[i]] <= rows[f[j]]
         /\ sorted = [idx \in Row |-> IF idx < n THEN rows[f[idx]] ELSE rows[idx]]
  BY DEF QSort
<1>2. /\ f \in [S -> S]
      /\ \A i, j \in S : f[i] = f[j] => i = j
      /\ \A j \in S : \E i \in S : f[i] = j
  BY DEF Bijection, Injection, Surjection, IsInjective
<1>3. S \subseteq Row /\ \A i \in S : i \in Int /\ i < n
  BY Constants DEF Row
<1>4. \A i \in S : sorted[i] = rows[f[i]]  BY <1>1, <1>3
<1>5. sorted \in [Row -> NAMES \cup {Empty, Junk}]
  <2>1. \A idx \in Row : idx < n => idx \in S  BY Constants DEF Row
  <2> QED BY <1>1, <1>2, <1>3, <2>1
<1>6. \A i \in S : sorted[i] \in NAMES \cup {Empty}  BY <1>2, <1>4
<1>7. ASSUME NEW i \in S, NEW j \in S, i < j PROVE sorted[i] < sorted[j]
  <2>1. rows[f[i]] <= rows[f[j]]  BY <1>1, <1>7
  <2>2. rows[f[i]] # rows[f[j]]
    <3>1. f[i] \in S /\ f[j] \in S  BY <1>2
    <3>2. f[i] # f[j]  BY <1>2, <1>3, <1>7
    <3> QED BY <3>1, <3>2
  <2>3. rows[f[i]] \in Nat /\ rows[f[j]] \in Nat  BY <1>2, Constants
  <2> QED BY <2>1, <2>2, <2>3, <1>4
<1>8. \A i \in Row : i >= n => sorted[i] = rows[i]  BY <1>1, Constants DEF Row
<1>9. { sorted[i] : i \in S } = { rows[i] : i \in S }
  <2> HIDE DEF S
  <2>1. \A i \in S : f[i] \in S  BY <1>2
  <2>2. \A i \in S : \E j \in S : sorted[i] = rows[j]  BY <1>4, <2>1
  <2>3. \A j \in S : \E i \in S : sorted[i] = rows[j]  BY <1>2, <1>4
  <2> QED BY <2>2, <2>3
<1> QED BY <1>5, <1>6, <1>7, <1>8, <1>9

(* A command that is added.                                                *)
LEMMA AddSucceeds ==
    ASSUME TableInv, NEW s \in NAMES \cup {Empty, Bad}, CmdDynamicAdd(s), ~Refuses(s)
    PROVE  TableInv' /\ Used' = Used \cup {s} /\ s \notin Used /\ dynamic_cmd_cnt < MAX_CMD_CNT
<1> DEFINE cnt  == dynamic_cmd_cnt
           rows == [dynamic_cmd_buffer EXCEPT ![cnt] = s]
           n    == cnt + 1
           T    == 0 .. n - 1
<1>1. /\ cnt \in 0 .. MAX_CMD_CNT - 1 /\ cnt \in Row
      /\ s \in NAMES \cup {Empty}
      /\ \A idx \in Row : dynamic_cmd_buffer[idx] # s
  BY Constants DEF Refuses, Duplicate, TableInv, TypeOK, Row
<1>2. /\ cnt' = n /\ n \in 0 .. MAX_CMD_CNT
      /\ dynamic_cmd_buffer' \in QSort(rows, n)
  BY <1>1, Constants DEF CmdDynamicAdd
<1>3. /\ T \subseteq Row /\ T = InUse \cup {cnt} /\ n = cnt + 1 /\ cnt \notin InUse /\ InUse' = T
      /\ InUse \subseteq Row
  BY <1>1, <1>2, Constants DEF InUse, Row
<1>4. rows \in [Row -> NAMES \cup {Empty, Junk}]  BY <1>1 DEF TableInv, TypeOK
<1>5. rows[cnt] = s /\ \A i \in Row \ {cnt} : rows[i] = dynamic_cmd_buffer[i]
  BY <1>1 DEF TableInv, TypeOK
<1>6. \A i \in T : rows[i] \in NAMES \cup {Empty}
  BY <1>1, <1>3, <1>5 DEF TableInv
<1>7. \A i, j \in InUse : i # j => dynamic_cmd_buffer[i] # dynamic_cmd_buffer[j]
  <2>0. /\ \A i \in InUse : i \in Int
        /\ \A i \in InUse : dynamic_cmd_buffer[i] \in NAMES \cup {Empty}
    BY DEF TableInv, InUse
  <2>1. \A i \in InUse : i \in Int /\ dynamic_cmd_buffer[i] \in Nat
    BY <2>0, Constants
  <2>2. \A i, j \in InUse : i < j => dynamic_cmd_buffer[i] < dynamic_cmd_buffer[j]
    BY DEF TableInv, Sorted
  <2> QED BY <2>1, <2>2
<1>8. \A i, j \in T : i # j => rows[i] # rows[j]
  BY <1>1, <1>3, <1>5, <1>7
<1> HIDE DEF rows, n
<1>9. /\ dynamic_cmd_buffer' \in [Row -> NAMES \cup {Empty, Junk}]
      /\ \A i \in T : dynamic_cmd_buffer'[i] \in NAMES \cup {Empty}
      /\ \A i, j \in T : i < j => dynamic_cmd_buffer'[i] < dynamic_cmd_buffer'[j]
      /\ \A i \in Row : i >= n => dynamic_cmd_buffer'[i] = rows[i]
      /\ { dynamic_cmd_buffer'[i] : i \in T } = { rows[i] : i \in T }
  <2> DEFINE srt == dynamic_cmd_buffer'
  <2> HIDE DEF T
  <2>1. /\ \A i \in 0 .. n - 1 : rows[i] \in NAMES \cup {Empty}
        /\ \A i, j \in 0 .. n - 1 : i # j => rows[i] # rows[j]
    BY <1>6, <1>8 DEF T
  <2>2. /\ dynamic_cmd_buffer' \in [Row -> NAMES \cup {Empty, Junk}]
        /\ \A i \in 0 .. n - 1 : dynamic_cmd_buffer'[i] \in NAMES \cup {Empty}
        /\ \A i, j \in 0 .. n - 1 : i < j => dynamic_cmd_buffer'[i] < dynamic_cmd_buffer'[j]
        /\ \A i \in Row : i >= n => dynamic_cmd_buffer'[i] = rows[i]
        /\ { dynamic_cmd_buffer'[i] : i \in 0 .. n - 1 } = { rows[i] : i \in 0 .. n - 1 }
    <3>1. n \in 0 .. MAX_CMD_CNT /\ srt \in QSort(rows, n)
      BY <1>2
    <3> HIDE DEF srt
    <3>2. /\ srt \in [Row -> NAMES \cup {Empty, Junk}]
          /\ \A i \in 0 .. n - 1 : srt[i] \in NAMES \cup {Empty}
          /\ \A i, j \in 0 .. n - 1 : i < j => srt[i] < srt[j]
          /\ \A i \in Row : i >= n => srt[i] = rows[i]
          /\ { srt[i] : i \in 0 .. n - 1 } = { rows[i] : i \in 0 .. n - 1 }
      BY <1>4, <2>1, <3>1, QSortSorts
    <3> QED BY <3>2 DEF srt
  <2> QED BY <2>2, Zenon DEF T
<1>10. UnusedRowsHoldNoName'
  <2> SUFFICES ASSUME NEW idx \in Row \ T
               PROVE  dynamic_cmd_buffer'[idx] \in {Empty, Junk}
    BY <1>3 DEF UnusedRowsHoldNoName, Row
  <2>1. idx >= n /\ idx # cnt /\ idx \notin InUse  BY <1>1, <1>3 DEF Row
  <2> QED BY <2>1, <1>5, <1>9 DEF TableInv, UnusedRowsHoldNoName
<1>11. TableInv'
  <2>1. TypeOK'  BY <1>2, <1>9 DEF TypeOK, Row
  <2>2. Sorted'  BY <1>3, <1>9 DEF Sorted
  <2> QED BY <2>1, <2>2, <1>3, <1>9, <1>10 DEF TableInv
<1>12. { rows[i] : i \in T } = Used \cup {s}  BY <1>3, <1>5 DEF Used
<1>13. s \notin Used  BY <1>1, <1>3 DEF Used
<1>14. Used' = Used \cup {s}
  <2>1. Used' = { dynamic_cmd_buffer'[i] : i \in T }  BY <1>3 DEF Used
  <2> QED BY <2>1, <1>9, <1>12
<1>15. dynamic_cmd_cnt < MAX_CMD_CNT  BY <1>1, Constants
<1> QED BY <1>11, <1>13, <1>14, <1>15

(* A row in use is taken out and the rows in use behind it move up.        *)
LEMMA RowTakenOut ==
    ASSUME TableInv, NEW idx \in InUse,
           dynamic_cmd_cnt' = dynamic_cmd_cnt - 1,
           dynamic_cmd_buffer' \in [Row -> NAMES \cup {Empty, Junk}],
           \A i \in InUse : i < dynamic_cmd_cnt - 1 =>
              dynamic_cmd_buffer'[i] = IF i < idx THEN dynamic_cmd_buffer[i]
                                       ELSE dynamic_cmd_buffer[i + 1],
           \A i \in Row : i >= dynamic_cmd_cnt - 1 => dynamic_cmd_buffer'[i] \in {Empty, Junk}
    PROVE  TableInv' /\ Used' = Used \ {dynamic_cmd_buffer[idx]}
<1> DEFINE cnt    == dynamic_cmd_cnt
           tbl    == dynamic_cmd_buffer
           old(i) == IF i < idx THEN i ELSE i + 1
<1>1. /\ cnt \in 1 .. MAX_CMD_CNT /\ cnt - 1 \in 0 .. MAX_CMD_CNT
      /\ idx \in 0 .. cnt - 1
      /\ InUse = 0 .. cnt - 1 /\ InUse' = 0 .. cnt - 2 /\ InUse \subseteq Row
  BY Constants DEF TableInv, TypeOK, InUse, Row
<1>2. \A i \in InUse' : i \in InUse /\ i < cnt - 1 /\ i \in Int  BY <1>1
<1>3. \A i \in InUse' : old(i) \in InUse \ {idx} /\ tbl'[i] = tbl[old(i)]
  <2> TAKE i \in InUse'
  <2>1. CASE i < idx  BY <2>1, <1>1, <1>2
  <2>2. CASE ~(i < idx)  BY <2>2, <1>1, <1>2
  <2> QED BY <2>1, <2>2
<1>4. \A i, j \in InUse' : i < j => old(i) < old(j)  BY <1>1, <1>2
<1>5. \A k \in InUse \ {idx} : \E i \in InUse' : k = old(i)
  <2> TAKE k \in InUse \ {idx}
  <2>1. CASE k < idx
    <3>1. k \in InUse' /\ k = old(k)  BY <2>1, <1>1
    <3> QED BY <3>1
  <2>2. CASE k > idx
    <3>1. k - 1 \in InUse' /\ k = old(k - 1)  BY <2>2, <1>1
    <3> QED BY <3>1
  <2> QED BY <2>1, <2>2, <1>1
<1>6. \A i \in InUse : tbl[i] \in Nat /\ tbl[i] \in NAMES \cup {Empty}
  BY Constants DEF TableInv
<1> HIDE DEF old
<1>7. TypeOK'  BY <1>1 DEF TypeOK, Row
<1>8. Sorted'  BY <1>3, <1>4 DEF Sorted, TableInv
<1>9. \A i \in InUse' : tbl'[i] \in NAMES \cup {Empty}  BY <1>3, <1>6
<1>10. UnusedRowsHoldNoName'
  <2>1. \A i \in Row \ InUse' : i >= cnt - 1  BY <1>1 DEF Row
  <2>2. Row' = Row  BY DEF Row
  <2> QED BY <2>1, <2>2 DEF UnusedRowsHoldNoName
<1>11. TableInv'  BY <1>7, <1>8, <1>9, <1>10 DEF TableInv
<1>12. \A k \in InUse : k # idx => tbl[k] # tbl[idx]
  <2>1. \A k \in InUse : k \in Int /\ idx \in Int  BY <1>1
  <2>2. \A i, j \in InUse : i < j => tbl[i] < tbl[j]  BY DEF TableInv, Sorted
  <2> QED BY <2>1, <2>2, <1>6
<1>13. Used' = { tbl[k] : k \in InUse \ {idx} }
  <2>1. Used' = { tbl'[i] : i \in InUse' }  BY DEF Used
  <2>2. \A i \in InUse' : \E k \in InUse \ {idx} : tbl'[i] = tbl[k]  BY <1>3
  <2>3. \A k \in InUse \ {idx} : \E i \in InUse' : tbl'[i] = tbl[k]  BY <1>3, <1>5
  <2> QED BY <2>1, <2>2, <2>3
<1>14. Used' = Used \ {tbl[idx]}  BY <1>12, <1>13 DEF Used
<1> QED BY <1>11, <1>14

(* A command that is removed, from a table that is full or not.            *)
LEMMA RemoveSucceeds ==
    ASSUME TableInv, NEW s \in NAMES \cup {Empty, Bad}, CmdDynamicRemove(s), Found(s) # {}
    PROVE  TableInv' /\ Used' = Used \ {s}
<1> DEFINE cnt == dynamic_cmd_cnt
           tbl == dynamic_cmd_buffer
<1>1. PICK idx \in Found(s) :
        /\ IF idx = MAX_CMD_CNT - 1
           THEN tbl' = [tbl EXCEPT ![idx] = Empty]
           ELSE \E behind \in BEHIND : tbl' = Shifted(idx, behind)
        /\ cnt' = cnt - 1
  BY DEF CmdDynamicRemove
<1>2. /\ cnt \in 1 .. MAX_CMD_CNT /\ idx \in 0 .. cnt - 1 /\ idx \in Row
      /\ idx \in InUse /\ tbl[idx] = s /\ InUse \subseteq Row
      /\ MAX_CMD_CNT \in Nat
  BY Constants DEF Found, TableInv, TypeOK, InUse, Row
<1>3. tbl \in [Row -> NAMES \cup {Empty, Junk}]  BY DEF TableInv, TypeOK
<1>4. \A i \in Row : i >= cnt => tbl[i] \in {Empty, Junk}
  BY <1>2 DEF TableInv, UnusedRowsHoldNoName, InUse, Row
<1>5. CASE idx = MAX_CMD_CNT - 1
  <2>1. tbl' = [tbl EXCEPT ![idx] = Empty] /\ cnt = MAX_CMD_CNT  BY <1>1, <1>2, <1>5
  <2>2. tbl' \in [Row -> NAMES \cup {Empty, Junk}]  BY <2>1, <1>3
  <2>3. \A i \in InUse : i < cnt - 1 => i < idx /\ tbl'[i] = tbl[i]
    BY <2>1, <1>2, <1>3, <1>5 DEF InUse
  <2>4. \A i \in Row : i >= cnt - 1 => tbl'[i] \in {Empty, Junk}
    BY <2>1, <1>2, <1>3, <1>5 DEF Row
  <2> QED BY <1>1, <1>2, <2>2, <2>3, <2>4, RowTakenOut
<1>6. CASE idx # MAX_CMD_CNT - 1
  <2>1. PICK behind \in {Empty, Junk} : tbl' = Shifted(idx, behind)
    BY <1>1, <1>6, Constants
  <2>2. idx + Moved(idx) = cnt  BY <1>2 DEF Moved
  <2>3. tbl' = [i \in Row |->
                  IF idx <= i /\ i < cnt
                  THEN IF i + 1 \in Row THEN tbl[i + 1] ELSE behind
                  ELSE tbl[i]]
    BY <2>1, <2>2 DEF Shifted
  <2>4. tbl' \in [Row -> NAMES \cup {Empty, Junk}]  BY <2>3, <1>3
  <2>5. \A i \in InUse : i < cnt - 1 => tbl'[i] = IF i < idx THEN tbl[i] ELSE tbl[i + 1]
    BY <2>3, <1>2 DEF InUse, Row
  <2>6. \A i \in Row : i >= cnt - 1 => tbl'[i] \in {Empty, Junk}
    <3> SUFFICES ASSUME NEW i \in Row, i >= cnt - 1 PROVE tbl'[i] \in {Empty, Junk}
      OBVIOUS
    <3>1. CASE i = cnt - 1
      <4>1. tbl'[i] = IF i + 1 \in Row THEN tbl[i + 1] ELSE behind  BY <3>1, <2>3, <1>2
      <4>2. i + 1 \in Row => tbl[i + 1] \in {Empty, Junk}  BY <3>1, <1>2, <1>4
      <4> QED BY <4>1, <4>2
    <3>2. CASE i # cnt - 1
      <4>1. i >= cnt  BY <3>2, <1>2 DEF Row
      <4> QED BY <4>1, <2>3, <1>2, <1>4 DEF Row
    <3> QED BY <3>1, <3>2
  <2> QED BY <1>1, <1>2, <2>4, <2>5, <2>6, RowTakenOut
<1> QED BY <1>5, <1>6

(* A command that is found is in use, and conversely.                      *)
LEMMA FoundIsUsed == \A s : Found(s) # {} <=> s \in Used
BY DEF Found, Used

(* A command that is refused, executed or not found changes nothing.       *)
LEMMA TableUnchanged ==
    ASSUME TableInv, UNCHANGED <<dynamic_cmd_buffer, dynamic_cmd_cnt>>
    PROVE  TableInv' /\ Used' = Used
BY DEF TableInv, TypeOK, Sorted, UnusedRowsHoldNoName, InUse, Row, Used

LEMMA TableStep == TableInv /\ [Next]_vars => TableInv'
<1> SUFFICES ASSUME TableInv, [Next]_vars PROVE TableInv'  OBVIOUS
<1>1. ASSUME NEW s \in NAMES \cup {Empty, Bad}, CmdDynamicAdd(s) PROVE TableInv'
  <2>1. CASE Refuses(s)  BY <2>1, <1>1, TableUnchanged DEF CmdDynamicAdd
  <2>2. CASE ~Refuses(s)  BY <2>2, <1>1, AddSucceeds
  <2> QED BY <2>1, <2>2
<1>2. ASSUME NEW s \in NAMES \cup {Empty, Bad}, CmdDynamicExecute(s) PROVE TableInv'
  BY <1>2, TableUnchanged DEF CmdDynamicExecute
<1>3. ASSUME NEW s \in NAMES \cup {Empty, Bad}, CmdDynamicRemove(s) PROVE TableInv'
  <2>1. CASE Found(s) = {}  BY <2>1, <1>3, TableUnchanged DEF CmdDynamicRemove
  <2>2. CASE Found(s) # {}  BY <2>2, <1>3, RemoveSucceeds
  <2> QED BY <2>1, <2>2
<1>4. CASE UNCHANGED vars  BY <1>4, TableUnchanged DEF vars
<1> QED BY <1>1, <1>2, <1>3, <1>4 DEF Next

(* The inductive invariant of the table: sorted, distinct, and no name in  *)
(* an unused row.                                                          *)
THEOREM DynamicCmdInvariant == Spec => []TableInv
BY TableInit, TableStep, PTL DEF Spec

(* There are as many names as rows in use.                                 *)
LEMMA UsedCardinality ==
    ASSUME TableInv
    PROVE  Cardinality(Used) = dynamic_cmd_cnt
<1> DEFINE f == [i \in InUse |-> dynamic_cmd_buffer[i]]
<1>1. dynamic_cmd_cnt \in 0 .. MAX_CMD_CNT /\ dynamic_cmd_cnt \in Nat
  BY Constants DEF TableInv, TypeOK
<1>2. \A i \in InUse : i \in Int /\ dynamic_cmd_buffer[i] \in Nat
  <2>1. /\ \A i \in InUse : i \in Int
        /\ \A i \in InUse : dynamic_cmd_buffer[i] \in NAMES \cup {Empty}
    BY DEF TableInv, InUse
  <2> QED BY <2>1, Constants
<1>3. \A i, j \in InUse : i < j => dynamic_cmd_buffer[i] < dynamic_cmd_buffer[j]
  BY DEF TableInv, Sorted
<1>4. \A i, j \in InUse : dynamic_cmd_buffer[i] = dynamic_cmd_buffer[j] => i = j
  BY <1>2, <1>3
<1>5. f \in Bijection(InUse, Used)
  BY <1>4 DEF Bijection, Injection, Surjection, IsInjective, Used
<1>6. IsFiniteSet(InUse) /\ Cardinality(InUse) = dynamic_cmd_cnt
  BY <1>1, FS_Interval DEF InUse
<1> QED BY <1>5, <1>6, FS_Bijection DEF ExistsBijection

(* cmd_dynamic_add() accepts what the abstract set accepts.                *)
LEMMA AddIsAdd ==
    ASSUME TableInv, NEW s \in NAMES \cup {Empty, Bad}, CmdDynamicAdd(s)
    PROVE  Commands!Add(s)
<1>1. Cardinality(Used) = dynamic_cmd_cnt  BY UsedCardinality
<1>2. ~Refuses(s) => s \notin Used /\ Cardinality(Used) < MAX_CMD_CNT
  BY <1>1, AddSucceeds
<1>3. s \in NAMES \ Used /\ Cardinality(Used) < MAX_CMD_CNT => ~Refuses(s)
  <2> SUFFICES ASSUME s \in NAMES \ Used, Cardinality(Used) < MAX_CMD_CNT
               PROVE  ~Refuses(s)
    OBVIOUS
  <2>1. s # Bad /\ s # Empty /\ s # Junk  BY Constants
  <2>2. ~Duplicate(s)
    BY <2>1 DEF Duplicate, Used, TableInv, UnusedRowsHoldNoName
  <2>3. ~(dynamic_cmd_cnt >= MAX_CMD_CNT)  BY <1>1, Constants DEF TableInv, TypeOK
  <2> QED BY <2>1, <2>2, <2>3 DEF Refuses
<1>4. Used' = IF ~Refuses(s) THEN Used \cup {s} ELSE Used
  <2>1. CASE Refuses(s)  BY <2>1, TableUnchanged DEF CmdDynamicAdd
  <2>2. CASE ~Refuses(s)  BY <2>2, AddSucceeds
  <2> QED BY <2>1, <2>2
<1>5. answer' = <<"add", s, IF Refuses(s) THEN "refused" ELSE "done">>
  BY DEF CmdDynamicAdd
<1>6. Commands!Room <=> Cardinality(Used) < MAX_CMD_CNT
  BY DEF Commands!Room, Commands!Cardinality, Cardinality, Used
<1> QED BY <1>2, <1>3, <1>4, <1>5, <1>6 DEF Commands!Add, Used

(* The table implements the bounded set of names.                          *)
THEOREM DynamicCmdImplementsCommandSet == Spec => ImplementsCommandSet
<1>1. Init => Commands!Init
  BY DEF Init, Commands!Init, InUse
<1>2. TableInv /\ [Next]_vars => [Commands!Next]_<<Used, answer>>
  <2> SUFFICES ASSUME TableInv, [Next]_vars
               PROVE  Commands!Next \/ UNCHANGED <<Used, answer>>
    OBVIOUS
  <2>1. ASSUME NEW s \in NAMES \cup {Empty, Bad}, CmdDynamicAdd(s) PROVE Commands!Next
    BY <2>1, AddIsAdd DEF Commands!Next
  <2>2. ASSUME NEW s \in NAMES \cup {Empty, Bad}, CmdDynamicExecute(s) PROVE Commands!Next
    <3>1. Used' = Used /\ (Found(s) # {} <=> s \in Used)
      BY <2>2, TableUnchanged, FoundIsUsed DEF CmdDynamicExecute
    <3>2. Commands!Execute(s)
      <4>1. answer' = <<"execute", s, IF s \in Used THEN "done" ELSE "refused">>
        BY <2>2, <3>1 DEF CmdDynamicExecute
      <4> QED BY <3>1, <4>1 DEF Commands!Execute, Used
    <3> QED BY <3>2 DEF Commands!Next
  <2>3. ASSUME NEW s \in NAMES \cup {Empty, Bad}, CmdDynamicRemove(s) PROVE Commands!Next
    <3>1. Found(s) # {} <=> s \in Used  BY FoundIsUsed
    <3>2. Used' = Used \ {s}
      <4>1. CASE Found(s) = {}
        BY <4>1, <2>3, <3>1, TableUnchanged DEF CmdDynamicRemove
      <4>2. CASE Found(s) # {}  BY <4>2, <2>3, RemoveSucceeds
      <4> QED BY <4>1, <4>2
    <3>3. Commands!Remove(s)
      <4>1. answer' = <<"remove", s, IF s \in Used THEN "done" ELSE "refused">>
        BY <2>3, <3>1 DEF CmdDynamicRemove
      <4> QED BY <3>2, <4>1 DEF Commands!Remove, Used
    <3> QED BY <3>3 DEF Commands!Next
  <2>4. CASE UNCHANGED vars
    BY <2>4, TableUnchanged DEF vars
  <2> QED BY <2>1, <2>2, <2>3, <2>4 DEF Next
<1> QED BY <1>1, <1>2, DynamicCmdInvariant, PTL
        DEF Spec, ImplementsCommandSet, Commands!Spec, Used
----------------------------------------------------------------------------
(* The sample as a whole uses the table as DynamicCmd says: shells that    *)
(* are bypassed or released leave it alone.                                *)
LEMMA ShellUsesTable == ShellSpec => Spec
<1>1. ShellInit => Init  BY DEF ShellInit
<1>2. [ShellNext]_shell_vars => [Next]_vars
  BY DEF ShellNext, shell_vars, DynamicCmdStep, BypassStep, UartReleaseStep,
         TypeStep, HandlerStep
<1> QED BY <1>1, <1>2, PTL DEF ShellSpec, Spec

(* Whatever else the shells do, their dynamic commands are a bounded set   *)
(* of names.                                                               *)
THEOREM ShellImplementsCommandSet == ShellSpec => ImplementsCommandSet
BY ShellUsesTable, DynamicCmdImplementsCommandSet, PTL

----------------------------------------------------------------------------
LEMMA CmdBypassKeepsInv ==
    ASSUME BypassInv, NEW sh \in SHELLS, CmdBypass(sh)
    PROVE  BypassInv'
<1>1. CASE in_use
  BY <1>1 DEF CmdBypass, SetBypass, Busy, BypassInv
<1>2. CASE ~in_use
  <2>1. in_use' = TRUE /\ bypassed' = {sh} /\ tail' = tail
    BY <1>2 DEF CmdBypass, SetBypass, Busy, BypassInv
  <2> QED BY <2>1 DEF BypassInv
<1> QED BY <1>1, <1>2

LEMMA BypassCbKeepsInv ==
    ASSUME BypassInv, NEW sh \in SHELLS, NEW data \in Chunk, BypassCb(sh, data)
    PROVE  BypassInv'
<1>1. in_use = TRUE /\ bypassed = {sh}  BY DEF BypassCb, BypassInv
<1>2. CASE Escapes(data)
  <2>1. in_use' = FALSE /\ bypassed' = {} /\ tail' = "other"
    BY <1>1, <1>2 DEF BypassCb, SetBypass, Busy, ClearedTail
  <2> QED BY <2>1 DEF BypassInv, Byte
<1>3. CASE ~Escapes(data)
  <2>1. UNCHANGED <<in_use, bypassed>> /\ tail' = Last(data)
    BY <1>3 DEF BypassCb
  <2>2. Last(data) \in Byte
    <3>1. PICK len \in 1 .. MAX_CHUNK : data \in [1 .. len -> Byte]  BY DEF Chunk
    <3>2. data \in Seq(Byte) /\ Len(data) = len /\ len \in 1 .. len
      BY <3>1, ShellAssumption
    <3> QED BY <3>1, <3>2 DEF Last
  <2> QED BY <2>1, <2>2 DEF BypassInv
<1> QED BY <1>2, <1>3

(* One shell at most is bypassed, and in_use tells whether one is.         *)
THEOREM BypassInvariant == ShellSpec => []BypassInv
<1>1. ShellInit => BypassInv
  BY DEF ShellInit, BypassInit, BypassInv, Byte
<1>2. BypassInv /\ [ShellNext]_shell_vars => BypassInv'
  <2> SUFFICES ASSUME BypassInv, [ShellNext]_shell_vars PROVE BypassInv'
    OBVIOUS
  <2>1. CASE BypassStep
    BY <2>1, CmdBypassKeepsInv, BypassCbKeepsInv DEF BypassStep
  <2>2. CASE UNCHANGED bypass_vars
    BY <2>2 DEF bypass_vars, BypassInv
  <2> QED BY <2>1, <2>2 DEF ShellNext, shell_vars, DynamicCmdStep, UartReleaseStep,
                            TypeStep, HandlerStep
<1> QED BY <1>1, <1>2, PTL DEF ShellSpec

----------------------------------------------------------------------------
(* A set of naturals that holds 0 and the successors of its members holds  *)
(* all of them: otherwise it would lack a least one.                       *)
LEMMA NatSetInduction ==
    ASSUME NEW S \in SUBSET Nat, 0 \in S, \A n \in S : n + 1 \in S
    PROVE  S = Nat
<1> DEFINE Less == OpToRel(<, Nat)
<1> SUFFICES ASSUME Nat \ S # {} PROVE FALSE
  OBVIOUS
<1>1. PICK n \in Nat \ S : \A k \in Nat \ S : <<k, n>> \notin Less
  BY NatLessThanWellFounded, WFMin
<1>2. n - 1 \in Nat /\ n - 1 < n
  OBVIOUS
<1>3. <<n - 1, n>> \in Less
  BY <1>2 DEF OpToRel
<1>4. n - 1 \in S
  BY <1>1, <1>2, <1>3
<1> QED BY <1>2, <1>4

(* Byte by byte, what is heard of a chunk is what the callback finds in it *)
(* with nothing but tail for memory.                                       *)
LEMMA HearsWhatEscapes ==
    ASSUME EscapeInv, heard # "escaped", NEW data \in Chunk, HearsAll(data)
    PROVE  /\ heard' \in Heard
           /\ heard' = "escaped" <=> Escapes(data)
           /\ ~Escapes(data) => (heard' = "after_x" <=> Last(data) = "ctrl_x")
<1>1. PICK len \in Nat \ {0} : data \in [1 .. len -> Byte]
  BY ShellAssumption DEF Chunk
<1>2. data \in Seq(Byte) /\ Len(data) = len
  BY <1>1
<1>3. PICK so_far \in [0 .. len -> Heard] :
        /\ so_far[0] = heard /\ heard' = so_far[len]
        /\ \A i \in 1 .. len : so_far[i] = Hears(so_far[i - 1], data[i])
  BY <1>2 DEF HearsAll
<1> DEFINE Before(i)  == IF i = 0 THEN tail ELSE data[i]
           Escaped(i) == \E j \in 0 .. i - 1 : Before(j) = "ctrl_x" /\ data[j + 1] = "ctrl_q"
           Right(i)   == /\ so_far[i] = "escaped" <=> Escaped(i)
                         /\ so_far[i] # "escaped" =>
                              (so_far[i] = "after_x" <=> Before(i) = "ctrl_x")
           S == {i \in Nat : i <= len => Right(i)}
<1>4. 0 \in S
  <2>1. ~Escaped(0)
    OBVIOUS
  <2>2. heard = "after_x" <=> tail = "ctrl_x"
    BY DEF EscapeInv, EscapeEndsBypass
  <2> QED BY <1>3, <2>1, <2>2
<1>5. ASSUME NEW n \in S PROVE n + 1 \in S
  <2> SUFFICES ASSUME n + 1 <= len PROVE Right(n + 1)
    OBVIOUS
  <2>1. n \in Nat /\ Right(n) /\ n \in 0 .. len /\ n + 1 \in 1 .. len
    OBVIOUS
  <2>2. so_far[n + 1] = Hears(so_far[n], data[n + 1])
    BY <1>3, <2>1
  <2>3. Escaped(n + 1) <=> Escaped(n) \/ (Before(n) = "ctrl_x" /\ data[n + 1] = "ctrl_q")
    <3>1. 0 .. (n + 1) - 1 = (0 .. n - 1) \cup {n}
      BY <2>1
    <3> HIDE DEF Before
    <3> QED BY <3>1
  <2>4. Before(n + 1) = data[n + 1] /\ data[n + 1] \in Byte /\ so_far[n] \in Heard
    BY <1>1, <1>3, <2>1
  <2> HIDE DEF Before, Escaped
  <2> QED BY <2>1, <2>2, <2>3, <2>4 DEF Hears, Byte, Heard
<1>6. S = Nat
  <2> HIDE DEF Right
  <2>1. S \in SUBSET Nat
    OBVIOUS
  <2> HIDE DEF S
  <2> QED BY <1>4, <1>5, <2>1, NatSetInduction
<1>7. Right(len)
  BY <1>6
<1>8. Escaped(len) <=> Escapes(data)
  <2>1. 0 .. len - 1 = {0} \cup 1 .. len - 1
    BY <1>1
  <2>2. \A j \in 1 .. len - 1 : Before(j) = data[j]
    OBVIOUS
  <2>3. Before(0) = tail
    OBVIOUS
  <2> HIDE DEF Before
  <2> QED BY <1>2, <2>1, <2>2, <2>3 DEF Escapes
<1>9. Before(len) = Last(data)
  BY <1>1, <1>2 DEF Last
<1>10. heard' = so_far[len] /\ heard' \in Heard
  BY <1>1, <1>3
<1> HIDE DEF Before, Escaped
<1> QED BY <1>7, <1>8, <1>9, <1>10

LEMMA BypassCbKeepsEscape ==
    ASSUME BypassInv, EscapeInv, NEW sh \in SHELLS, NEW data \in Chunk, BypassCb(sh, data)
    PROVE  EscapeInv'
<1>1. in_use = TRUE /\ bypassed = {sh} /\ heard # "escaped"
  BY DEF BypassCb, BypassInv, EscapeInv, EscapeEndsBypass
<1>2. /\ heard' \in Heard
      /\ heard' = "escaped" <=> Escapes(data)
      /\ ~Escapes(data) => (heard' = "after_x" <=> Last(data) = "ctrl_x")
  BY <1>1, HearsWhatEscapes DEF BypassCb
<1>3. CASE Escapes(data)
  <2>1. bypassed' = {} /\ tail' = "other"
    BY <1>1, <1>3 DEF BypassCb, SetBypass, Busy, ClearedTail
  <2> QED BY <1>2, <1>3, <2>1 DEF EscapeInv, EscapeEndsBypass
<1>4. CASE ~Escapes(data)
  <2>1. bypassed' = {sh} /\ tail' = Last(data)
    BY <1>1, <1>4 DEF BypassCb
  <2> QED BY <1>2, <1>4, <2>1 DEF EscapeInv, EscapeEndsBypass
<1> QED BY <1>3, <1>4

LEMMA CmdBypassKeepsEscape ==
    ASSUME BypassInv, EscapeInv, NEW sh \in SHELLS, CmdBypass(sh)
    PROVE  EscapeInv'
<1>1. CASE in_use
  BY <1>1 DEF CmdBypass, SetBypass, Busy, EscapeInv, EscapeEndsBypass
<1>2. CASE ~in_use
  <2>1. bypassed = {} /\ bypassed' = {sh} /\ tail' = "other" /\ heard' = "plain"
    BY <1>2 DEF CmdBypass, SetBypass, Busy, BypassInv, EscapeInv
  <2> QED BY <2>1 DEF EscapeInv, EscapeEndsBypass, Heard
<1> QED BY <1>1, <1>2

(* The last byte is all of the past that a bypass needs to know.           *)
THEOREM EscapeInvariant == ShellSpec => []EscapeInv
<1>1. ShellInit => EscapeInv
  BY DEF ShellInit, BypassInit, EscapeInv, EscapeEndsBypass, Heard
<1>2. BypassInv /\ EscapeInv /\ [ShellNext]_shell_vars => EscapeInv'
  <2> SUFFICES ASSUME BypassInv, EscapeInv, [ShellNext]_shell_vars PROVE EscapeInv'
    OBVIOUS
  <2>1. CASE BypassStep
    BY <2>1, CmdBypassKeepsEscape, BypassCbKeepsEscape DEF BypassStep
  <2>2. CASE UNCHANGED bypass_vars
    BY <2>2 DEF bypass_vars, EscapeInv, EscapeEndsBypass
  <2> QED BY <2>1, <2>2 DEF ShellNext, shell_vars, DynamicCmdStep, UartReleaseStep,
                            TypeStep, HandlerStep
<1> QED BY <1>1, <1>2, BypassInvariant, PTL DEF ShellSpec

(* A bypass ends when and only when ctrl-x ctrl-q was typed, for chunks of *)
(* any length and however they cut the sequence.                           *)
THEOREM ShellEscapeEndsBypass == ShellSpec => []EscapeEndsBypass
<1>1. EscapeInv => EscapeEndsBypass
  BY DEF EscapeInv
<1> QED BY <1>1, EscapeInvariant, PTL

----------------------------------------------------------------------------
(* The interrupt handler asks for the shell only when the UART is at rest, *)
(* and only once.                                                          *)
LEMMA CallbackKeepsInv ==
    ASSUME UartInv, DirectUartCallback
    PROVE  UartInv'
<1>1. /\ owner = "loopback" /\ owner' = "loopback" /\ work = 0 /\ irq_driven /\ ~timer
      /\ irq_driven' = irq_driven /\ timer' = timer
  BY DEF DirectUartCallback, UartInv, Quiet
<1>2. TxEnabled \in BOOLEAN  BY DEF TxEnabled, UartInv
<1>3. CASE TxNotReady
  BY <1>1, <1>2, <1>3 DEF TxNotReady, UartInv
<1>4. CASE FillFifo
  BY <1>1, <1>4 DEF FillFifo, UartInv
<1>5. CASE ByteSent
  <2>1. tx_irq' = FALSE /\ tx_busy' = FALSE /\ sending' = FALSE
    BY <1>5 DEF ByteSent, TxBusyAfter, UartInv
  <2>2. CASE Received = "x"
    <3>1. rx_irq' = FALSE /\ work' = 1
      BY <1>1, <1>5, <2>2 DEF ByteSent, RxAfterX, ShellReinitTrigger
    <3> QED BY <1>1, <2>1, <3>1 DEF UartInv, Quiet
  <2>3. CASE Received # "x"
    <3>1. rx_irq' = rx_irq /\ work' = 0
      BY <1>1, <1>5, <2>3 DEF ByteSent
    <3>2. timer' \in BOOLEAN /\ irq_driven' \in BOOLEAN /\ rx_irq' \in BOOLEAN
      BY <1>1, <3>1 DEF UartInv
    <3>3. ~timer' /\ irq_driven'  BY <1>1
    <3>4. owner' = "loopback" /\ work' = 0  BY <1>1, <3>1
    <3>5. ~(owner' # "loopback" \/ work' = 1)  BY <3>4
    <3> QED BY <2>1, <3>2, <3>3, <3>4, <3>5 DEF UartInv
  <2> QED BY <2>2, <2>3
<1> QED BY <1>3, <1>4, <1>5 DEF DirectUartCallback

(* The same for the timer that polls.                                      *)
LEMMA PollKeepsInv ==
    ASSUME UartInv, UartPollTimeout
    PROVE  UartInv'
<1>1. owner = "loopback" /\ work = 0 /\ ~irq_driven
  BY DEF UartPollTimeout, UartInv, Quiet
<1>2. UNCHANGED <<irq_driven, owner, uart_irq_vars>>  BY DEF UartPollTimeout
<1>3. CASE Contains(rx_fifo, "x")
  <2>1. timer' = FALSE /\ work' = 1
    BY <1>1, <1>3 DEF UartPollTimeout, ShellReinitTrigger
  <2> QED BY <1>1, <1>2, <2>1 DEF UartInv, Quiet, uart_irq_vars
<1>4. CASE ~Contains(rx_fifo, "x")
  BY <1>1, <1>2, <1>4 DEF UartPollTimeout, UartInv, Quiet, uart_irq_vars
<1> QED BY <1>3, <1>4

(* The work item is never initialised while it is queued, and from then    *)
(* until the next release no handler of the loopback runs.                 *)
THEOREM UartInvariant == ShellSpec => []UartInv
<1>1. ShellInit => UartInv
  <2> SUFFICES ASSUME UartInit PROVE UartInv
    BY DEF ShellInit
  <2>1. Quiet  BY DEF UartInit, Quiet
  <2>2. work = 0 /\ owner = "shell" /\ irq_driven \in BOOLEAN  BY DEF UartInit
  <2>3. /\ timer \in BOOLEAN /\ sending \in BOOLEAN
        /\ rx_irq \in BOOLEAN /\ tx_irq \in BOOLEAN /\ tx_busy \in BOOLEAN
    BY DEF UartInit
  <2> QED BY <2>1, <2>2, <2>3 DEF UartInv, Quiet
<1>2. UartInv /\ [ShellNext]_shell_vars => UartInv'
  <2> SUFFICES ASSUME UartInv, [ShellNext]_shell_vars PROVE UartInv'
    OBVIOUS
  <2>1. CASE CmdUartRelease
    BY <2>1 DEF CmdUartRelease, UartInv, Quiet, uart_irq_vars
  <2>2. CASE ShellUninitCb
    BY <2>2 DEF ShellUninitCb, UartInv, Quiet
  <2>3. CASE \E byte \in {"x", "other"} : Type(byte)
    BY <2>3 DEF Type, UartInv, Quiet, uart_irq_vars
  <2>4. CASE TxDone
    BY <2>4 DEF TxDone, UartInv, Quiet
  <2>5. CASE DirectUartCallback  BY <2>5, CallbackKeepsInv
  <2>6. CASE UartPollTimeout  BY <2>6, PollKeepsInv
  <2>7. CASE ShellInitFromWork
    BY <2>7 DEF ShellInitFromWork, UartInv, Quiet, uart_irq_vars
  <2>8. CASE UNCHANGED uart_vars
    BY <2>8 DEF uart_vars, uart_irq_vars, UartInv, Quiet
  <2> QED BY <2>1, <2>2, <2>3, <2>4, <2>5, <2>6, <2>7, <2>8
          DEF ShellNext, shell_vars, DynamicCmdStep, BypassStep, UartReleaseStep,
              TypeStep, HandlerStep, UartHandler
<1> QED BY <1>1, <1>2, PTL DEF ShellSpec
============================================================================
