------------------------------ MODULE Symbols -------------------------------
(***************************************************************************)
(* Symbols: the list of each procedure level, symbol_put, symbol_get,      *)
(* symbol_del_lvl and the commands on them.  DELETE/SYMBOL is a loop over  *)
(* lists that it shortens: each round is a step.                           *)
(*                                                                         *)
(* Every search starts at the front and leaves the cursor of the list      *)
(* where it ends, so that a new symbol comes last and a deleted one is the *)
(* one that was found: the lists are sequences.  Text is replaced by the   *)
(* relation "begins with" between names.                                   *)
(***************************************************************************)
EXTENDS Integers, Sequences

CONSTANTS
  Names,
  Prefixes,     \* the pairs <<n, m>> such that m begins with n
  Values,       \* of symbols; "" is the empty one
  Parameters,   \* P1 to P8
  Patterns,     \* of DELETE/SYMBOL; "*" stands for /ALL and for a pattern that begins with '*'
  MaxLevel,
  MaxSymbols    \* level -> symbols for which there is memory in its list

ASSUME SymbolBounds == MaxLevel \in Nat \ {0} /\ MaxSymbols \in [0..MaxLevel -> Nat]
ASSUME ParametersAssumption ==
  /\ Parameters \in Seq(Names) /\ "" \in Values
  /\ \A i, j \in DOMAIN Parameters : Parameters[i] = Parameters[j] => i = j
ASSUME PatternsAssumption == Patterns \subseteq Names \cup {"*"}
ASSUME PrefixAssumption ==
  /\ Prefixes \subseteq Names \X Names
  /\ \A n \in Names : <<n, n>> \in Prefixes
  /\ \A n, m \in Names : <<n, m>> \in Prefixes /\ <<m, n>> \in Prefixes => n = m
  /\ \A n, m, k \in Names : <<n, m>> \in Prefixes /\ <<m, k>> \in Prefixes => <<n, k>> \in Prefixes
  /\ \A n, m, k \in Names :
       <<n, k>> \in Prefixes /\ <<m, k>> \in Prefixes => <<n, m>> \in Prefixes \/ <<m, n>> \in Prefixes

VARIABLES
  D,
  symbol_list,        \* of dcl[0], the global one, to dcl[MaxLevel]
  symbol_scope,
  EXP_string_value,   \* what symbol_get delivered last, here or to another caller
  ss,                 \* DELETE/SYMBOL: where the scan is, NoScan outside the command
  before              \* observation only: the lists when the command began

vars == <<D, symbol_list, symbol_scope, EXP_string_value, ss, before>>

Begins(n, m) == <<n, m>> \in Prefixes

\* The part of a name before its '*' is the shortest way to write it.
Symbol == [name: Names, min: Names, value: Values]
Levels == 0..MaxLevel
Scopes == {"LOCAL", "GLOBAL"}
Scan == [pattern: Patterns, from: {"ALL", "GLOBAL", "LOCAL"}, name: Names, level: Levels, num: Nat]
NoScan == << >>

(***************************************************************************)
(* Searching a list.                                                       *)
(***************************************************************************)
Matches(n, e) == Begins(e.min, n) /\ Begins(n, e.name)
Found(n, list) == {i \in DOMAIN list : Matches(n, list[i])}
First(S) == CHOOSE i \in S : \A j \in S : i <= j
Last(S) == CHOOSE i \in S : \A j \in S : i >= j
WithoutRow(list, k) == [i \in 1..Len(list) - 1 |-> IF i < k THEN list[i] ELSE list[i + 1]]

\* symbol_get: its own level, the levels around it, the global one.  An empty value is
\* found like any other.  $STATUS and $SEVERITY, which are no symbols, are left out.
Searched == {D} \cup {l \in 1..D - 1 : "LOCAL" \in symbol_scope[D]}
                \cup {l \in {0} : "GLOBAL" \in symbol_scope[D]}
symbol_get(n) ==
  LET levels == {l \in Searched : Found(n, symbol_list[l]) # {}}
  IN  IF levels = {} THEN ""
      ELSE LET list == symbol_list[Last(levels)] IN list[First(Found(n, list))].value

PutAbbreviated(list, e, max) ==
  IF Found(e.name, list) # {} THEN [list EXCEPT ![First(Found(e.name, list))] = e]
  ELSE IF Len(list) < max THEN Append(list, e) ELSE list

\* symbol_put: the name is compared as a whole.  The value of a part of a symbol,
\* name[offset,length], is one of Values too.
Put(list, e, max) ==
  LET rows == {i \in DOMAIN list : list[i].name = e.name}
  IN  IF rows # {} THEN [list EXCEPT ![First(rows)] = e]
      ELSE IF Len(list) < max THEN Append(list, e) ELSE list

symbol_put(l, n, min, v) ==
  symbol_list' = [symbol_list EXCEPT ![l] = Put(@, [name |-> n, min |-> min, value |-> v], MaxSymbols[l])]

DeletedButLast(list, n) ==
  LET rows == {i \in Found(n, list) : i < Len(list)}
  IN  IF rows # {} THEN WithoutRow(list, First(rows)) ELSE list
Deleted(list, n) ==
  IF Found(n, list) # {} THEN WithoutRow(list, First(Found(n, list))) ELSE list
symbol_del_lvl(l, n) == symbol_list' = [symbol_list EXCEPT ![l] = Deleted(@, n)]

(***************************************************************************)
(* The commands.                                                           *)
(***************************************************************************)
KeepLevels == UNCHANGED <<D, symbol_scope>>
Ended == UNCHANGED <<ss, before>>

\* A symbol in an expression or between apostrophes.
Substitute(n) ==
  /\ EXP_string_value' = symbol_get(n)
  /\ KeepLevels /\ Ended /\ UNCHANGED symbol_list

\* "=" with an empty result deletes what the name abbreviates; a name with '*' is
\* the name of no symbol.
dcl_sym_assign(l, n, min, v) ==
  /\ IF v # "" THEN symbol_put(l, n, min, v)
     ELSE IF min = n THEN symbol_del_lvl(l, n) ELSE UNCHANGED symbol_list
  /\ KeepLevels /\ Ended /\ UNCHANGED EXP_string_value

dcl_string_assign(l, n, min, v) ==
  /\ symbol_put(l, n, min, v)
  /\ KeepLevels /\ Ended /\ UNCHANGED EXP_string_value

dcl_inquire(l, n, v) == dcl_string_assign(l, n, n, v)
dcl_read(n, v) == dcl_string_assign(D, n, n, v)

\* The NO forms toggle.
ScopeWith(scope, word) ==
  CASE word = "NOLOCAL"  -> IF "LOCAL" \in scope THEN scope \ {"LOCAL"} ELSE scope \cup {"LOCAL"}
    [] word = "NOGLOBAL" -> IF "GLOBAL" \in scope THEN scope \ {"GLOBAL"} ELSE scope \cup {"GLOBAL"}
    [] OTHER             -> scope \cup {word}
dcl_set_symbol(word) ==
  /\ symbol_scope' = [symbol_scope EXCEPT ![D] = ScopeWith(@, word)]
  /\ Ended /\ UNCHANGED <<D, symbol_list, EXP_string_value>>

(***************************************************************************)
(* DELETE/SYMBOL                                                           *)
(***************************************************************************)

\* symbol_first and symbol_next: the row after row num of level l, or of a later level.
NextRow(lists, l, num) ==
  IF num < Len(lists[l]) THEN <<l, num + 1>>
  ELSE LET later == {m \in l + 1..D : lists[m] # << >>}
       IN  IF later = {} THEN << >> ELSE <<First(later), 1>>

ScanTo(lists, row, pattern, from) ==
  ss' = IF row = << >> THEN NoScan
        ELSE [pattern |-> pattern, from |-> from, name |-> lists[row[1]][row[2]].name,
              level |-> row[1], num |-> row[2]]

dcl_del_symbol(pattern, from) ==
  /\ ScanTo(symbol_list, NextRow(symbol_list, 0, 0), pattern, from)
  /\ before' = IF ss' = NoScan THEN before ELSE symbol_list
  /\ KeepLevels /\ UNCHANGED <<symbol_list, EXP_string_value>>

Selected ==
  /\ ss.pattern = "*" \/ Begins(ss.pattern, ss.name)
  /\ ss.from = "GLOBAL" => ss.level = 0
  /\ ss.from = "LOCAL" => ss.level = D

ScannedOnward(num) == num
ScannedAfter(num) == num - 1

DeleteRound ==
  /\ IF Selected THEN symbol_del_lvl(ss.level, ss.name) ELSE UNCHANGED symbol_list
  /\ LET num == IF Selected THEN ScannedAfter(ss.num) ELSE ss.num
     IN  ScanTo(symbol_list', NextRow(symbol_list', ss.level, num), ss.pattern, ss.from)
  /\ before' = IF ss' = NoScan THEN << >> ELSE before
  /\ KeepLevels /\ UNCHANGED EXP_string_value

(***************************************************************************)
(* Procedure levels.                                                       *)
(***************************************************************************)
Given(values) ==
  [i \in DOMAIN Parameters |-> [name |-> Parameters[i], min |-> Parameters[i], value |-> values[i]]]

dcl_enter_proc_level(values) ==
  /\ D < MaxLevel
  /\ D' = D + 1
  /\ symbol_list' = [symbol_list EXCEPT ![D + 1] = Given(values)]
  /\ symbol_scope' = [symbol_scope EXCEPT ![D + 1] = symbol_scope[D]]
  /\ Ended /\ UNCHANGED EXP_string_value

dcl_exit_proc_level ==
  /\ D > 1
  /\ D' = D - 1
  /\ symbol_list' = [symbol_list EXCEPT ![D] = << >>]
  /\ symbol_scope' = [symbol_scope EXCEPT ![D] = {}]
  /\ Ended /\ UNCHANGED EXP_string_value

(***************************************************************************)
(* The specification.                                                      *)
(***************************************************************************)
Init ==
  /\ D = 1
  /\ symbol_list = [l \in Levels |-> << >>]
  /\ symbol_scope = [l \in Levels |-> IF l <= 1 THEN Scopes ELSE {}]
  /\ EXP_string_value = ""
  /\ ss = NoScan
  /\ before = << >>

Assignment ==
  \/ \E n \in Names, v \in Values : dcl_read(n, v)
  \/ \E l \in {0, D}, n \in Names, v \in Values :
       \/ dcl_inquire(l, n, v)
       \/ \E min \in {m \in Names : Begins(m, n)} :
            dcl_sym_assign(l, n, min, v) \/ dcl_string_assign(l, n, min, v)

Command ==
  \/ \E n \in Names : Substitute(n)
  \/ Assignment
  \/ \E word \in {"LOCAL", "NOLOCAL", "GLOBAL", "NOGLOBAL"} : dcl_set_symbol(word)
  \/ \E pattern \in Patterns, from \in {"ALL", "GLOBAL", "LOCAL"} : dcl_del_symbol(pattern, from)
  \/ \E values \in [DOMAIN Parameters -> Values] : dcl_enter_proc_level(values)
  \/ dcl_exit_proc_level

Next == (ss = NoScan /\ Command) \/ (ss # NoScan /\ DeleteRound)

\* The loop of DELETE/SYMBOL waits for nothing.
Spec == Init /\ [][Next]_vars /\ WF_vars(ss # NoScan /\ DeleteRound)

(***************************************************************************)
(* Properties.                                                             *)
(***************************************************************************)
\* Types; a level that is not entered has no symbols and sees nothing; in a list no
\* name comes twice, though names are found by their abbreviations.
SymbolsTypeOK ==
  /\ D \in 1..MaxLevel
  /\ symbol_list \in [Levels -> Seq(Symbol)]
  /\ symbol_scope \in [Levels -> SUBSET Scopes]
  /\ \A l \in Levels : l > D => symbol_list[l] = << >> /\ symbol_scope[l] = {}
  /\ \A l \in Levels : \A i, j \in DOMAIN symbol_list[l] :
       symbol_list[l][i].name = symbol_list[l][j].name => i = j
  /\ EXP_string_value \in Values
  /\ ss = NoScan \/ ss \in Scan

\* Seen from outside, DELETE/SYMBOL is one step that deletes the symbols its pattern
\* selects and no other, and every symbol that is read is the one of the innermost
\* visible level.
TableOf(list) == {list[i] : i \in DOMAIN list}
Tables ==
  INSTANCE SymbolTables WITH
    level <- D,
    table <- [l \in Levels |-> TableOf((IF ss = NoScan THEN symbol_list ELSE before)[l])],
    scope <- symbol_scope,
    read <- EXP_string_value
ImplementsTables == Tables!TablesSpec

\* DELETE/SYMBOL ends, though it goes back a row for each symbol that it deletes.
DeleteEnds == ss # NoScan ~> ss = NoScan
=============================================================================
