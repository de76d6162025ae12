---------------------------- MODULE SymbolTables ----------------------------
(***************************************************************************)
(* What the symbols of procedure levels promise: one table for each level, *)
(* level 0 being the global one.  A name may be abbreviated, and what an   *)
(* ambiguous abbreviation stands for is not told.                          *)
(***************************************************************************)
EXTENDS Integers

CONSTANTS Names, Prefixes, Values, MaxLevel

VARIABLES
  level,    \* of the current procedure
  table,    \* level -> its symbols
  scope,    \* level -> the other tables that it sees
  read      \* the value that was read last

tablesVars == <<level, table, scope, read>>

Begins(n, m) == <<n, m>> \in Prefixes
Abbreviated(n, symbols) == {e \in symbols : Begins(e.min, n) /\ Begins(n, e.name)}

\* The levels whose symbols are visible.
Visible == {level} \cup {l \in 1..level - 1 : "LOCAL" \in scope[level]}
                   \cup {l \in {0} : "GLOBAL" \in scope[level]}

Read(n) ==
  /\ \/ /\ \A l \in Visible : Abbreviated(n, table[l]) = {}
        /\ read' = ""
     \/ \E l \in Visible :
          /\ \A m \in Visible : m > l => Abbreviated(n, table[m]) = {}
          /\ \E e \in Abbreviated(n, table[l]) : read' = e.value
  /\ UNCHANGED <<level, table, scope>>

\* A name has one symbol in a table.
Define(l, n, min, v) ==
  /\ l \in {0, level}
  /\ table' = [table EXCEPT ![l] = {e \in @ : e.name # n} \cup {[name |-> n, min |-> min, value |-> v]}]
  /\ UNCHANGED <<level, scope, read>>

Undefine(l, n) ==
  /\ l \in {0, level}
  /\ \E e \in Abbreviated(n, table[l]) : table' = [table EXCEPT ![l] = @ \ {e}]
  /\ UNCHANGED <<level, scope, read>>

\* Every symbol whose name begins so, and no other.
Delete(pattern, levels) ==
  /\ table' = [l \in DOMAIN table |->
                 IF l \in levels THEN {e \in table[l] : pattern # "*" /\ ~Begins(pattern, e.name)}
                 ELSE table[l]]
  /\ UNCHANGED <<level, scope, read>>

SetScope(s) ==
  /\ scope' = [scope EXCEPT ![level] = s]
  /\ UNCHANGED <<level, table, read>>

\* A procedure begins with its parameters, and sees what its caller sees.
Enter ==
  /\ level < MaxLevel
  /\ level' = level + 1
  /\ table' = [table EXCEPT ![level + 1] = table'[level + 1]]
  /\ table'[level + 1] \subseteq [name: Names, min: Names, value: Values]
  /\ scope' = [scope EXCEPT ![level + 1] = scope[level]]
  /\ UNCHANGED read

\* Its symbols end with it.
Leave ==
  /\ level > 1
  /\ level' = level - 1
  /\ table' = [table EXCEPT ![level] = {}]
  /\ scope' = [scope EXCEPT ![level] = {}]
  /\ UNCHANGED read

TablesInit ==
  /\ level = 1
  /\ table = [l \in 0..MaxLevel |-> {}]
  /\ scope = [l \in 0..MaxLevel |-> IF l <= 1 THEN {"LOCAL", "GLOBAL"} ELSE {}]
  /\ read = ""

TablesNext ==
  \/ \E n \in Names : Read(n)
  \/ \E l \in 0..level, n \in Names :
       Undefine(l, n) \/ \E min \in Names, v \in Values : Begins(min, n) /\ Define(l, n, min, v)
  \/ \E pattern \in Names \cup {"*"}, levels \in {{0}, {level}, 0..level} : Delete(pattern, levels)
  \/ \E s \in SUBSET {"LOCAL", "GLOBAL"} : SetScope(s)
  \/ Enter
  \/ Leave

TablesSpec == TablesInit /\ [][TablesNext]_tablesVars
=============================================================================
