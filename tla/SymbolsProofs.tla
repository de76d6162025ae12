--------------------------- MODULE SymbolsProofs ----------------------------
(***************************************************************************)
(* The lists of symbols are tables, and DELETE/SYMBOL, which scans lists   *)
(* that it shortens, deletes in its loop exactly what its pattern selects, *)
(* for any names, abbreviations, levels and lengths.                       *)
(***************************************************************************)
EXTENDS Symbols, TLAPS, SequenceTheorems, NaturalsInduction, WellFoundedInduction

(***************************************************************************)
(* First and Last.                                                         *)
(***************************************************************************)
LEMMA FirstIsLeast ==
  ASSUME NEW S, S \subseteq Nat, S # {}
  PROVE  First(S) \in S /\ \A j \in S : First(S) <= j
<1> DEFINE R == OpToRel(<, Nat)
<1>1. IsWellFoundedOn(R, Nat)
  BY NatLessThanWellFounded
<1>2. \E m \in S : \A n \in S : <<n, m>> \notin R
  BY <1>1, WFMin
<1>3. \A m, n \in Nat : <<n, m>> \in R <=> n < m
  BY DEF OpToRel
<1> HIDE DEF R
<1>4. \E m \in S : \A n \in S : ~(n < m)
  BY <1>2, <1>3
<1>5. \E m \in S : \A n \in S : m <= n
  BY <1>4
<1> QED BY <1>5 DEF First

LEMMA LastIsGreatest ==
  ASSUME NEW n \in Nat, NEW S, S \subseteq 0..n, S # {}
  PROVE  Last(S) \in S /\ \A j \in S : Last(S) >= j
<1> DEFINE T == {n - i : i \in S}
<1>1. T \subseteq Nat /\ T # {}
  <2>1. \A i \in S : n - i \in Nat
    OBVIOUS
  <2>2. T \subseteq Nat
    BY <2>1
  <2> QED BY <2>2
<1>2. First(T) \in T /\ \A j \in T : First(T) <= j
  BY <1>1, FirstIsLeast
<1>3. PICK i \in S : First(T) = n - i
  BY <1>2
<1>4. ASSUME NEW j \in S PROVE i >= j
  <2>1. n - i <= n - j
    BY <1>2, <1>3
  <2> QED BY <2>1
<1> QED BY <1>4 DEF Last

(***************************************************************************)
(* One list.                                                               *)
(***************************************************************************)

\* A name comes once in a list, and every symbol is found by its own name.
ListOK(list) ==
  /\ list \in Seq(Symbol)
  /\ \A i \in DOMAIN list : Begins(list[i].min, list[i].name)
  /\ \A i, j \in DOMAIN list : list[i].name = list[j].name => i = j

\* What can be stored.
Storable(e) == e \in Symbol /\ Begins(e.min, e.name)

LEMMA RowsAreNumbers ==
  ASSUME NEW list \in Seq(Symbol)
  PROVE  /\ DOMAIN list = 1..Len(list) /\ Len(list) \in Nat /\ DOMAIN list \subseteq Nat
         /\ \A i \in DOMAIN list : list[i] \in Symbol
BY LenProperties, ElementOfSeq

\* symbol_put leaves one symbol of the name, the new one, unless there is no memory.
LEMMA PutDefines ==
  ASSUME NEW list, ListOK(list), NEW e, Storable(e), NEW max \in Nat
  PROVE  /\ ListOK(Put(list, e, max))
         /\ \/ Put(list, e, max) = list
            \/ TableOf(Put(list, e, max)) = {x \in TableOf(list) : x.name # e.name} \cup {e}
<1> DEFINE rows == {i \in DOMAIN list : list[i].name = e.name}
<1>1. /\ list \in Seq(Symbol) /\ DOMAIN list = 1..Len(list) /\ Len(list) \in Nat /\ rows \subseteq Nat
      /\ \A i \in DOMAIN list : list[i] \in Symbol
  BY RowsAreNumbers DEF ListOK
<1>2. CASE rows # {}
  <2> DEFINE k == First(rows)
             new == [list EXCEPT ![k] = e]
  <2>1. k \in rows
    BY <1>1, <1>2, FirstIsLeast
  <2> HIDE DEF k
  <2>2. Put(list, e, max) = new
    BY <1>2 DEF Put, k
  <2>3. k \in DOMAIN list /\ list[k].name = e.name
    BY <2>1
  <2>4. new \in Seq(Symbol)
    BY <1>1, <2>3, ExceptSeq DEF Storable
  <2>5. /\ DOMAIN new = DOMAIN list /\ new[k] = e
        /\ \A i \in DOMAIN list : i # k => new[i] = list[i]
    BY <2>3
  <2> HIDE DEF new, rows
  <2>6. ListOK(new)
    BY <2>3, <2>4, <2>5 DEF ListOK, Storable
  <2>7. TableOf(new) = {x \in TableOf(list) : x.name # e.name} \cup {e}
    <3>1. \A i \in DOMAIN list : list[i].name = e.name <=> i = k
      BY <2>3 DEF ListOK
    <3> QED BY <2>3, <2>5, <3>1 DEF TableOf
  <2> QED BY <2>2, <2>6, <2>7
<1>3. CASE rows = {} /\ Len(list) < max
  <2> DEFINE new == Append(list, e)
  <2>1. Put(list, e, max) = new
    BY <1>3 DEF Put
  <2>2. /\ new \in Seq(Symbol) /\ DOMAIN new = 1..Len(list) + 1
        /\ new[Len(list) + 1] = e /\ \A i \in 1..Len(list) : new[i] = list[i]
    BY <1>1, AppendProperties DEF Storable
  <2> HIDE DEF new
  <2>3. \A i \in 1..Len(list) : list[i].name # e.name
    BY <1>1, <1>3
  <2>4. \A i \in DOMAIN new : i \in 1..Len(list) \/ i = Len(list) + 1
    BY <1>1, <2>2
  <2>5. 1..Len(list) \subseteq DOMAIN new /\ Len(list) + 1 \in DOMAIN new
    BY <1>1, <2>2
  <2>6. ListOK(new)
    BY <1>1, <2>2, <2>3, <2>4 DEF ListOK, Storable
  <2>7. TableOf(new) = {x \in TableOf(list) : x.name # e.name} \cup {e}
    BY <1>1, <2>2, <2>3, <2>4, <2>5 DEF TableOf
  <2> QED BY <2>1, <2>6, <2>7
<1>4. CASE rows = {} /\ ~(Len(list) < max)
  BY <1>4 DEF Put
<1> QED BY <1>2, <1>3, <1>4

\* flex_delete takes one symbol out.
LEMMA RowTakenOut ==
  ASSUME NEW list, ListOK(list), NEW k \in DOMAIN list
  PROVE  /\ ListOK(WithoutRow(list, k))
         /\ Len(WithoutRow(list, k)) = Len(list) - 1
         /\ \A i \in DOMAIN list : i < k => WithoutRow(list, k)[i] = list[i]
         /\ TableOf(WithoutRow(list, k)) = TableOf(list) \ {list[k]}
<1> DEFINE new == WithoutRow(list, k)
           From(i) == IF i < k THEN i ELSE i + 1
<1>1. /\ list \in Seq(Symbol) /\ DOMAIN list = 1..Len(list) /\ Len(list) \in Nat /\ k \in 1..Len(list)
      /\ \A i \in DOMAIN list : list[i] \in Symbol
  BY RowsAreNumbers DEF ListOK
<1>2. Len(list) - 1 \in Nat
  BY <1>1
<1>3. DOMAIN new = 1..Len(list) - 1 /\ \A i \in DOMAIN new : new[i] = list[From(i)]
  BY DEF WithoutRow
<1>4. \A i \in DOMAIN new : From(i) \in DOMAIN list /\ From(i) # k
  BY <1>1, <1>3
<1>5. \A i, j \in DOMAIN new : From(i) = From(j) => i = j
  BY <1>1, <1>3
<1>6. \A j \in DOMAIN list : j # k => \E i \in DOMAIN new : From(i) = j
  <2> SUFFICES ASSUME NEW j \in DOMAIN list, j # k PROVE \E i \in DOMAIN new : From(i) = j
    OBVIOUS
  <2>1. CASE j < k
    <3>1. j \in DOMAIN new /\ From(j) = j
      BY <1>1, <1>3, <2>1
    <3> QED BY <3>1
  <2>2. CASE j > k
    <3>1. j - 1 \in DOMAIN new /\ From(j - 1) = j
      BY <1>1, <1>3, <2>2
    <3> QED BY <3>1
  <2> QED BY <1>1, <2>1, <2>2
<1>7. \A i \in DOMAIN list : i < k => i \in DOMAIN new /\ From(i) = i
  BY <1>1, <1>3
<1>8. new \in Seq(Symbol) /\ Len(new) = Len(list) - 1
  <2>1. \A i \in 1..Len(list) - 1 : (IF i < k THEN list[i] ELSE list[i + 1]) \in Symbol
    BY <1>1
  <2>2. new \in [1..Len(list) - 1 -> Symbol]
    BY <2>1 DEF WithoutRow
  <2> HIDE DEF new
  <2> QED BY <1>2, <2>2, SeqDef, LenProperties
<1> HIDE DEF new, From
<1>9. ListOK(new)
  BY <1>3, <1>4, <1>5, <1>8 DEF ListOK
<1>10. TableOf(new) = TableOf(list) \ {list[k]}
  <2>1. \A j \in DOMAIN list : j # k <=> list[j] # list[k]
    BY DEF ListOK
  <2>2. ASSUME NEW x \in TableOf(new) PROVE x \in TableOf(list) \ {list[k]}
    BY <1>3, <1>4, <2>1 DEF TableOf
  <2>3. ASSUME NEW x \in TableOf(list) \ {list[k]} PROVE x \in TableOf(new)
    <3>1. PICK j \in DOMAIN list : x = list[j]
      BY DEF TableOf
    <3>2. j # k
      BY <3>1
    <3> QED BY <1>3, <1>6, <3>1, <3>2 DEF TableOf
  <2> QED BY <2>2, <2>3
<1> QED BY <1>3, <1>7, <1>8, <1>9, <1>10 DEF new

\* A search finds the first symbol that the name abbreviates.
LEMMA SearchFinds ==
  ASSUME NEW list, ListOK(list), NEW n, Found(n, list) # {}
  PROVE  /\ First(Found(n, list)) \in Found(n, list)
         /\ \A i \in Found(n, list) : First(Found(n, list)) <= i
BY FirstIsLeast, RowsAreNumbers DEF Found, ListOK

LEMMA DeletedTakesOne ==
  ASSUME NEW list, ListOK(list), NEW n
  PROVE  /\ ListOK(Deleted(list, n))
         /\ \/ Deleted(list, n) = list
            \/ \E i \in Found(n, list) : TableOf(Deleted(list, n)) = TableOf(list) \ {list[i]}
<1>1. CASE Found(n, list) # {}
  <2> DEFINE k == First(Found(n, list))
  <2>1. k \in Found(n, list) /\ Deleted(list, n) = WithoutRow(list, k)
    BY <1>1, SearchFinds DEF Deleted
  <2> HIDE DEF k
  <2> QED BY <2>1, RowTakenOut DEF Found
<1>2. CASE Found(n, list) = {}
  BY <1>2 DEF Deleted
<1> QED BY <1>1, <1>2

\* A procedure begins with a list of its parameters.
LEMMA ParametersListed ==
  ASSUME NEW values \in [DOMAIN Parameters -> Values]
  PROVE  ListOK(Given(values)) /\ TableOf(Given(values)) \subseteq Symbol
<1>1. /\ DOMAIN Parameters = 1..Len(Parameters) /\ Len(Parameters) \in Nat
      /\ \A i \in DOMAIN Parameters : Parameters[i] \in Names
  BY ParametersAssumption, LenProperties, ElementOfSeq
<1>2. /\ DOMAIN Given(values) = DOMAIN Parameters
      /\ \A i \in DOMAIN Parameters :
           Given(values)[i] = [name |-> Parameters[i], min |-> Parameters[i], value |-> values[i]]
  BY DEF Given
<1>3. \A i \in DOMAIN Parameters : Given(values)[i] \in Symbol
  BY <1>1, <1>2 DEF Symbol
<1>4. Given(values) \in [DOMAIN Parameters -> Symbol]
  BY <1>3 DEF Given
<1>5. Given(values) \in Seq(Symbol)
  BY <1>1, <1>4, SeqDef
<1>6. \A i \in DOMAIN Parameters : Begins(Given(values)[i].min, Given(values)[i].name)
  BY <1>1, <1>2, PrefixAssumption DEF Begins
<1>7. \A i, j \in DOMAIN Parameters : Given(values)[i].name = Given(values)[j].name => i = j
  <2> SUFFICES ASSUME NEW i \in DOMAIN Parameters, NEW j \in DOMAIN Parameters,
                      Given(values)[i].name = Given(values)[j].name
               PROVE  i = j
    OBVIOUS
  <2>1. Given(values)[i].name = Parameters[i] /\ Given(values)[j].name = Parameters[j]
    BY <1>2
  <2> QED BY <2>1, ParametersAssumption
<1> QED BY <1>2, <1>3, <1>5, <1>6, <1>7 DEF ListOK, TableOf

(***************************************************************************)
(* The lists of all levels, and the tables that SymbolTables sees.         *)
(***************************************************************************)
ListsOK(lists, d) ==
  /\ d \in 1..MaxLevel
  /\ lists \in [Levels -> Seq(Symbol)]
  /\ \A l \in Levels : ListOK(lists[l]) /\ (l > d => lists[l] = << >>)

ScopesOK ==
  /\ symbol_scope \in [Levels -> SUBSET Scopes]
  /\ \A l \in Levels : l > D => symbol_scope[l] = {}
  /\ EXP_string_value \in Values

TablesOf(lists) == [l \in Levels |-> TableOf(lists[l])]
Shown == TablesOf(IF ss = NoScan THEN symbol_list ELSE before)

\* The steps of SymbolTables, in the terms of Symbols.
LEMMA TableOperations ==
  /\ \A n : Tables!Read(n) <=>
       /\ \/ /\ \A l \in Searched : \A e \in Shown[l] : ~Matches(n, e)
             /\ EXP_string_value' = ""
          \/ \E l \in Searched :
               /\ \A m \in Searched : m > l => \A e \in Shown[m] : ~Matches(n, e)
               /\ \E e \in Shown[l] : Matches(n, e) /\ EXP_string_value' = e.value
       /\ UNCHANGED <<D, Shown, symbol_scope>>
  /\ \A l, n, min, v : Tables!Define(l, n, min, v) <=>
       /\ l \in {0, D}
       /\ Shown' = [Shown EXCEPT ![l] = {e \in @ : e.name # n} \cup {[name |-> n, min |-> min, value |-> v]}]
       /\ UNCHANGED <<D, symbol_scope, EXP_string_value>>
  /\ \A l, n : Tables!Undefine(l, n) <=>
       /\ l \in {0, D}
       /\ \E e \in Shown[l] : Matches(n, e) /\ Shown' = [Shown EXCEPT ![l] = @ \ {e}]
       /\ UNCHANGED <<D, symbol_scope, EXP_string_value>>
  /\ \A pattern, levels : Tables!Delete(pattern, levels) <=>
       /\ Shown' = [l \in Levels |->
            IF l \in levels THEN {e \in Shown[l] : pattern # "*" /\ ~Begins(pattern, e.name)} ELSE Shown[l]]
       /\ UNCHANGED <<D, symbol_scope, EXP_string_value>>
  /\ \A s : Tables!SetScope(s) <=>
       /\ symbol_scope' = [symbol_scope EXCEPT ![D] = s]
       /\ UNCHANGED <<D, Shown, EXP_string_value>>
  /\ Tables!Enter <=>
       /\ D < MaxLevel /\ D' = D + 1
       /\ Shown' = [Shown EXCEPT ![D + 1] = Shown'[D + 1]]
       /\ Shown'[D + 1] \subseteq Symbol
       /\ symbol_scope' = [symbol_scope EXCEPT ![D + 1] = symbol_scope[D]]
       /\ UNCHANGED EXP_string_value
  /\ Tables!Leave <=>
       /\ D > 1 /\ D' = D - 1
       /\ Shown' = [Shown EXCEPT ![D] = {}]
       /\ symbol_scope' = [symbol_scope EXCEPT ![D] = {}]
       /\ UNCHANGED EXP_string_value
<1>1. \A n : Tables!Read(n) <=>
       /\ \/ /\ \A l \in Searched : \A e \in Shown[l] : ~Matches(n, e)
             /\ EXP_string_value' = ""
          \/ \E l \in Searched :
               /\ \A m \in Searched : m > l => \A e \in Shown[m] : ~Matches(n, e)
               /\ \E e \in Shown[l] : Matches(n, e) /\ EXP_string_value' = e.value
       /\ UNCHANGED <<D, Shown, symbol_scope>>
  <2>1. Tables!Visible = Searched
    BY DEF Tables!Visible, Searched
  <2>2. \A n, symbols : Tables!Abbreviated(n, symbols) = {e \in symbols : Matches(n, e)}
    BY DEF Tables!Abbreviated, Tables!Begins, Matches, Begins
  <2> QED BY <2>1, <2>2 DEF Tables!Read, Shown, TablesOf
<1>2. \A l, n, min, v : Tables!Define(l, n, min, v) <=>
       /\ l \in {0, D}
       /\ Shown' = [Shown EXCEPT ![l] = {e \in @ : e.name # n} \cup {[name |-> n, min |-> min, value |-> v]}]
       /\ UNCHANGED <<D, symbol_scope, EXP_string_value>>
  BY DEF Tables!Define, Shown, TablesOf
<1>3. \A l, n : Tables!Undefine(l, n) <=>
       /\ l \in {0, D}
       /\ \E e \in Shown[l] : Matches(n, e) /\ Shown' = [Shown EXCEPT ![l] = @ \ {e}]
       /\ UNCHANGED <<D, symbol_scope, EXP_string_value>>
  BY DEF Tables!Undefine, Tables!Abbreviated, Tables!Begins, Matches, Begins, Shown, TablesOf
<1>4. \A pattern, levels : Tables!Delete(pattern, levels) <=>
       /\ Shown' = [l \in Levels |->
            IF l \in levels THEN {e \in Shown[l] : pattern # "*" /\ ~Begins(pattern, e.name)} ELSE Shown[l]]
       /\ UNCHANGED <<D, symbol_scope, EXP_string_value>>
  <2>1. DOMAIN Shown = Levels
    BY DEF Shown, TablesOf
  <2> QED BY <2>1 DEF Tables!Delete, Tables!Begins, Begins, Shown, TablesOf
<1>5. \A s : Tables!SetScope(s) <=>
       /\ symbol_scope' = [symbol_scope EXCEPT ![D] = s]
       /\ UNCHANGED <<D, Shown, EXP_string_value>>
  BY DEF Tables!SetScope, Shown, TablesOf
<1>6. Tables!Enter <=>
       /\ D < MaxLevel /\ D' = D + 1
       /\ Shown' = [Shown EXCEPT ![D + 1] = Shown'[D + 1]]
       /\ Shown'[D + 1] \subseteq Symbol
       /\ symbol_scope' = [symbol_scope EXCEPT ![D + 1] = symbol_scope[D]]
       /\ UNCHANGED EXP_string_value
  BY DEF Tables!Enter, Shown, TablesOf, Symbol
<1>7. Tables!Leave <=>
       /\ D > 1 /\ D' = D - 1
       /\ Shown' = [Shown EXCEPT ![D] = {}]
       /\ symbol_scope' = [symbol_scope EXCEPT ![D] = {}]
       /\ UNCHANGED EXP_string_value
  BY DEF Tables!Leave, Shown, TablesOf
<1> QED BY <1>1, <1>2, <1>3, <1>4, <1>5, <1>6, <1>7

\* Nothing is being deleted, before the step and after it.
AtRest == ss = NoScan /\ ss' = NoScan

LEMMA ShownAtRest == AtRest => Shown = TablesOf(symbol_list) /\ Shown' = TablesOf(symbol_list')
BY DEF AtRest, Shown, TablesOf

\* One list changes, the levels stay.
LEMMA OneListChanges ==
  ASSUME ListsOK(symbol_list, D), ScopesOK, AtRest, NEW l \in {0, D}, NEW list, ListOK(list),
         symbol_list' = [symbol_list EXCEPT ![l] = list], KeepLevels, UNCHANGED EXP_string_value
  PROVE  /\ ListsOK(symbol_list', D') /\ ScopesOK'
         /\ Shown' = [Shown EXCEPT ![l] = TableOf(list)]
<1>1. D \in 1..MaxLevel /\ D' = D /\ l \in Levels /\ ~(l > D)
  BY SymbolBounds DEF ListsOK, Levels, KeepLevels
<1>2. list \in Seq(Symbol)
  BY DEF ListOK
<1>3. /\ symbol_list' \in [Levels -> Seq(Symbol)] /\ symbol_list'[l] = list
      /\ \A m \in Levels : m # l => symbol_list'[m] = symbol_list[m]
  BY <1>1, <1>2 DEF ListsOK
<1>4. ListsOK(symbol_list', D')
  BY <1>1, <1>3 DEF ListsOK
<1>5. ScopesOK'
  BY DEF ScopesOK, KeepLevels
<1>6. Shown' = [Shown EXCEPT ![l] = TableOf(list)]
  BY <1>1, <1>3, ShownAtRest DEF TablesOf
<1> QED BY <1>4, <1>5, <1>6

\* What SymbolTables may do: one of its operations, or nothing.
TableStep == [Tables!TablesNext]_(Tables!tablesVars)

LEMMA TableSteps ==
  ASSUME D \in 1..MaxLevel
  PROVE  /\ \A n \in Names : Tables!Read(n) => TableStep
         /\ \A l \in {0, D}, n \in Names : Tables!Undefine(l, n) => TableStep
         /\ \A l \in {0, D}, n, min \in Names, v \in Values :
              Begins(min, n) /\ Tables!Define(l, n, min, v) => TableStep
         /\ \A pattern \in Names \cup {"*"}, levels \in {{0}, {D}, 0..D} :
              Tables!Delete(pattern, levels) => TableStep
         /\ \A s \in SUBSET {"LOCAL", "GLOBAL"} : Tables!SetScope(s) => TableStep
         /\ Tables!Enter \/ Tables!Leave => TableStep
         /\ UNCHANGED <<D, Shown, symbol_scope, EXP_string_value>> => TableStep
<1>1. UNCHANGED <<D, Shown, symbol_scope, EXP_string_value>> => TableStep
  BY DEF TableStep, Tables!tablesVars, Shown, TablesOf
<1>2. \A l \in {0, D} : l \in 0..D
  BY SymbolBounds
<1>3. \A l \in {0, D}, n \in Names : Tables!Undefine(l, n) => Tables!TablesNext
  BY <1>2 DEF Tables!TablesNext
<1>4. \A l \in {0, D}, n, min \in Names, v \in Values :
        Begins(min, n) /\ Tables!Define(l, n, min, v) => Tables!TablesNext
  BY <1>2 DEF Tables!TablesNext, Tables!Begins, Begins
<1>5. /\ \A n \in Names : Tables!Read(n) => Tables!TablesNext
      /\ \A pattern \in Names \cup {"*"}, levels \in {{0}, {D}, 0..D} :
           Tables!Delete(pattern, levels) => Tables!TablesNext
      /\ \A s \in SUBSET {"LOCAL", "GLOBAL"} : Tables!SetScope(s) => Tables!TablesNext
      /\ Tables!Enter \/ Tables!Leave => Tables!TablesNext
  BY DEF Tables!TablesNext
<1> QED BY <1>1, <1>3, <1>4, <1>5 DEF TableStep

(***************************************************************************)
(* The commands other than DELETE/SYMBOL.                                  *)
(***************************************************************************)
Sound == ListsOK(symbol_list, D) /\ ScopesOK
Refines == Sound' /\ TableStep

LEMMA SubstituteReads ==
  ASSUME Sound, AtRest, NEW n \in Names, Substitute(n)
  PROVE  Refines
<1> DEFINE levels == {l \in Searched : Found(n, symbol_list[l]) # {}}
<1>1. /\ Searched \subseteq Levels /\ Searched \subseteq 0..MaxLevel
      /\ UNCHANGED <<D, symbol_scope, symbol_list>> /\ EXP_string_value' = symbol_get(n)
  <2>1. /\ D \in 1..MaxLevel /\ MaxLevel \in Nat
    BY SymbolBounds DEF Sound, ListsOK
  <2> QED BY <2>1 DEF Searched, Levels, Substitute, KeepLevels
<1>2. \A l \in Levels : Shown[l] = TableOf(symbol_list[l]) /\ ListOK(symbol_list[l])
  BY ShownAtRest DEF Sound, ListsOK, TablesOf
<1>3. UNCHANGED Shown
  BY <1>1, ShownAtRest DEF TablesOf
<1>4. \A l \in Levels : Found(n, symbol_list[l]) = {} => \A e \in Shown[l] : ~Matches(n, e)
  BY <1>2 DEF Found, TableOf
<1>5. EXP_string_value' \in Values /\ Tables!Read(n)
  <2>1. CASE levels = {}
    <3>1. EXP_string_value' = ""
      BY <1>1, <2>1 DEF symbol_get
    <3>2. \A l \in Searched : \A e \in Shown[l] : ~Matches(n, e)
      BY <1>1, <1>4, <2>1
    <3> QED BY <1>1, <1>3, <3>1, <3>2, TableOperations, ParametersAssumption
  <2>2. CASE levels # {}
    <3>1. PICK l : l = Last(levels)
      OBVIOUS
    <3>2. l \in levels /\ \A m \in levels : l >= m
      <4>1. levels \subseteq 0..MaxLevel /\ MaxLevel \in Nat
        BY <1>1, SymbolBounds
      <4> HIDE DEF levels
      <4> QED BY <2>2, <3>1, <4>1, LastIsGreatest
    <3>3. l \in Searched /\ l \in Levels /\ Found(n, symbol_list[l]) # {}
      BY <1>1, <3>2
    <3>4. PICK k : k = First(Found(n, symbol_list[l]))
      OBVIOUS
    <3>5. k \in Found(n, symbol_list[l])
      BY <1>2, <3>3, <3>4, SearchFinds
    <3>6. k \in DOMAIN symbol_list[l] /\ Matches(n, symbol_list[l][k])
      BY <3>5 DEF Found
    <3>7. EXP_string_value' = symbol_list[l][k].value
      BY <1>1, <2>2, <3>1, <3>4 DEF symbol_get
    <3>8. symbol_list[l][k] \in Symbol
      BY <1>2, <3>3, <3>6, RowsAreNumbers DEF ListOK
    <3>9. symbol_list[l][k] \in Shown[l]
      BY <1>2, <3>3, <3>6 DEF TableOf
    <3>10. \A m \in Searched : m > l => m \notin levels
      BY <1>1, <3>2, <3>3 DEF Levels
    <3>11. \A m \in Searched : m > l => \A e \in Shown[m] : ~Matches(n, e)
      BY <1>1, <1>4, <3>10
    <3> QED BY <1>1, <1>3, <3>3, <3>6, <3>7, <3>8, <3>9, <3>11, TableOperations DEF Symbol
  <2> QED BY <2>1, <2>2
<1>6. Sound'
  BY <1>1, <1>5 DEF Sound, ScopesOK
<1>7. D \in 1..MaxLevel
  BY DEF Sound, ListsOK
<1> QED BY <1>5, <1>6, <1>7, TableSteps DEF Refines

LEMMA StoringDefines ==
  ASSUME Sound, AtRest, NEW l \in {0, D}, NEW n \in Names, NEW min \in Names, NEW v \in Values, Begins(min, n),
         symbol_put(l, n, min, v), KeepLevels, UNCHANGED EXP_string_value
  PROVE  Refines
<1>1. D \in 1..MaxLevel /\ l \in Levels /\ ListOK(symbol_list[l]) /\ MaxSymbols[l] \in Nat
  BY SymbolBounds DEF Sound, ListsOK, Levels
<1>2. PICK e : e = [name |-> n, min |-> min, value |-> v]
  OBVIOUS
<1>3. Storable(e) /\ e.name = n
  BY <1>2 DEF Storable, Symbol
<1>4. PICK list : list = Put(symbol_list[l], e, MaxSymbols[l])
  OBVIOUS
<1>5. /\ ListOK(list)
      /\ \/ list = symbol_list[l]
         \/ TableOf(list) = {x \in TableOf(symbol_list[l]) : x.name # n} \cup {e}
  BY <1>1, <1>3, <1>4, PutDefines
<1>6. symbol_list' = [symbol_list EXCEPT ![l] = list]
  BY <1>2, <1>4 DEF symbol_put
<1>7. Sound' /\ Shown' = [Shown EXCEPT ![l] = TableOf(list)]
  BY <1>5, <1>6, OneListChanges DEF Sound
<1>8. /\ DOMAIN Shown = Levels /\ Shown = [m \in Levels |-> Shown[m]]
      /\ Shown[l] = TableOf(symbol_list[l])
  BY <1>1, ShownAtRest DEF TablesOf
<1>9. CASE list = symbol_list[l]
  <2>1. UNCHANGED <<D, Shown, symbol_scope, EXP_string_value>>
    BY <1>1, <1>7, <1>8, <1>9 DEF KeepLevels
  <2> QED BY <1>1, <1>7, <2>1, TableSteps DEF Refines
<1>10. CASE TableOf(list) = {x \in TableOf(symbol_list[l]) : x.name # n} \cup {e}
  <2>1. Shown' = [Shown EXCEPT ![l] = {x \in @ : x.name # n} \cup {[name |-> n, min |-> min, value |-> v]}]
    BY <1>2, <1>7, <1>8, <1>10
  <2>2. Tables!Define(l, n, min, v)
    BY <2>1, TableOperations DEF KeepLevels
  <2> QED BY <1>1, <1>7, <2>2, TableSteps DEF Refines
<1> QED BY <1>5, <1>9, <1>10

LEMMA DeletingUndefines ==
  ASSUME Sound, AtRest, NEW l \in {0, D}, NEW n \in Names,
         symbol_del_lvl(l, n), KeepLevels, UNCHANGED EXP_string_value
  PROVE  Refines
<1>1. D \in 1..MaxLevel /\ l \in Levels /\ ListOK(symbol_list[l])
  BY SymbolBounds DEF Sound, ListsOK, Levels
<1>2. PICK list : list = Deleted(symbol_list[l], n)
  OBVIOUS
<1>3. /\ ListOK(list)
      /\ \/ list = symbol_list[l]
         \/ \E i \in Found(n, symbol_list[l]) : TableOf(list) = TableOf(symbol_list[l]) \ {symbol_list[l][i]}
  BY <1>1, <1>2, DeletedTakesOne
<1>4. symbol_list' = [symbol_list EXCEPT ![l] = list]
  BY <1>2 DEF symbol_del_lvl
<1>5. Sound' /\ Shown' = [Shown EXCEPT ![l] = TableOf(list)]
  BY <1>3, <1>4, OneListChanges DEF Sound
<1>6. /\ DOMAIN Shown = Levels /\ Shown = [m \in Levels |-> Shown[m]]
      /\ Shown[l] = TableOf(symbol_list[l])
  BY <1>1, ShownAtRest DEF TablesOf
<1>7. CASE list = symbol_list[l]
  <2>1. UNCHANGED <<D, Shown, symbol_scope, EXP_string_value>>
    BY <1>1, <1>5, <1>6, <1>7 DEF KeepLevels
  <2> QED BY <1>1, <1>5, <2>1, TableSteps DEF Refines
<1>8. ASSUME NEW i \in Found(n, symbol_list[l]), TableOf(list) = TableOf(symbol_list[l]) \ {symbol_list[l][i]}
      PROVE  Refines
  <2>1. symbol_list[l][i] \in Shown[l] /\ Matches(n, symbol_list[l][i])
    BY <1>6 DEF Found, TableOf
  <2>2. Shown' = [Shown EXCEPT ![l] = @ \ {symbol_list[l][i]}]
    BY <1>5, <1>6, <1>8
  <2>3. Tables!Undefine(l, n)
    BY <2>1, <2>2, TableOperations DEF KeepLevels
  <2> QED BY <1>1, <1>5, <2>3, TableSteps DEF Refines
<1> QED BY <1>3, <1>7, <1>8

LEMMA NothingChanges ==
  ASSUME Sound, AtRest, UNCHANGED <<D, symbol_list, symbol_scope, EXP_string_value>>
  PROVE  Refines
<1>1. UNCHANGED Shown /\ D \in 1..MaxLevel
  BY ShownAtRest DEF TablesOf, Sound, ListsOK
<1>2. Sound'
  BY DEF Sound, ScopesOK
<1> QED BY <1>1, <1>2, TableSteps DEF Refines

LEMMA AssignmentRefines ==
  ASSUME Sound, AtRest, Assignment
  PROVE  Refines
<1>1. \A n \in Names : Begins(n, n)
  BY PrefixAssumption DEF Begins
<1>2. ASSUME NEW l \in {0, D}, NEW n \in Names, NEW min \in Names, NEW v \in Values,
             Begins(min, n), dcl_string_assign(l, n, min, v)
      PROVE  Refines
  BY <1>2, StoringDefines DEF dcl_string_assign
<1>3. ASSUME NEW l \in {0, D}, NEW n \in Names, NEW min \in Names, NEW v \in Values,
             Begins(min, n), dcl_sym_assign(l, n, min, v)
      PROVE  Refines
  <2>1. KeepLevels /\ UNCHANGED EXP_string_value
    BY <1>3 DEF dcl_sym_assign
  <2>2. CASE v # ""
    <3>1. symbol_put(l, n, min, v)
      BY <1>3, <2>2 DEF dcl_sym_assign
    <3> QED BY <1>3, <2>1, <3>1, StoringDefines
  <2>3. CASE v = "" /\ min = n
    <3>1. symbol_del_lvl(l, n)
      BY <1>3, <2>3 DEF dcl_sym_assign
    <3> QED BY <2>1, <3>1, DeletingUndefines
  <2>4. CASE v = "" /\ min # n
    <3>1. UNCHANGED symbol_list
      BY <1>3, <2>4 DEF dcl_sym_assign
    <3> QED BY <2>1, <3>1, NothingChanges DEF KeepLevels
  <2> QED BY <2>2, <2>3, <2>4
<1> QED BY <1>1, <1>2, <1>3 DEF Assignment, dcl_read, dcl_inquire

LEMMA SetSymbolSetsScope ==
  ASSUME Sound, AtRest, NEW word \in {"LOCAL", "NOLOCAL", "GLOBAL", "NOGLOBAL"}, dcl_set_symbol(word)
  PROVE  Refines
<1>1. PICK s : s = ScopeWith(symbol_scope[D], word)
  OBVIOUS
<1>2. D \in 1..MaxLevel /\ D \in Levels /\ symbol_scope[D] \in SUBSET Scopes
  BY SymbolBounds DEF Sound, ListsOK, ScopesOK, Levels
<1>3. s \in SUBSET Scopes
  BY <1>1, <1>2 DEF ScopeWith, Scopes
<1>4. symbol_scope' = [symbol_scope EXCEPT ![D] = s] /\ UNCHANGED <<D, symbol_list, EXP_string_value>>
  BY <1>1 DEF dcl_set_symbol
<1>5. UNCHANGED Shown
  BY <1>4, ShownAtRest DEF TablesOf
<1>6. Sound'
  <2>1. \A l \in Levels : l > D => l # D
    BY <1>2 DEF Levels
  <2> QED BY <1>2, <1>3, <1>4, <2>1 DEF Sound, ScopesOK
<1>7. Tables!SetScope(s)
  BY <1>4, <1>5, TableOperations
<1> QED BY <1>2, <1>3, <1>6, <1>7, TableSteps DEF Refines, Scopes

LEMMA EnteringRefines ==
  ASSUME Sound, AtRest, NEW values \in [DOMAIN Parameters -> Values], dcl_enter_proc_level(values)
  PROVE  Refines
<1>1. PICK list : list = Given(values)
  OBVIOUS
<1>2. ListOK(list) /\ TableOf(list) \subseteq Symbol /\ list \in Seq(Symbol)
  BY <1>1, ParametersListed DEF ListOK
<1>3. /\ D \in 1..MaxLevel /\ D \in Levels /\ D + 1 \in Levels /\ D + 1 \in 1..MaxLevel
      /\ \A l \in Levels : l > D + 1 => l > D /\ l # D + 1
      /\ D < MaxLevel /\ D' = D + 1
  BY SymbolBounds DEF Sound, ListsOK, Levels, dcl_enter_proc_level
<1>4. /\ symbol_list' = [symbol_list EXCEPT ![D + 1] = list]
      /\ symbol_scope' = [symbol_scope EXCEPT ![D + 1] = symbol_scope[D]]
      /\ UNCHANGED EXP_string_value
  BY <1>1 DEF dcl_enter_proc_level
<1>5. ListsOK(symbol_list', D')
  BY <1>2, <1>3, <1>4 DEF Sound, ListsOK
<1>6. ScopesOK'
  BY <1>3, <1>4 DEF Sound, ScopesOK
<1>7. Shown' = [Shown EXCEPT ![D + 1] = TableOf(list)]
  BY <1>3, <1>4, ShownAtRest DEF TablesOf, Sound, ListsOK
<1>8. D + 1 \in DOMAIN Shown
  BY <1>3, ShownAtRest DEF TablesOf
<1>9. Shown'[D + 1] = TableOf(list)
  BY <1>7, <1>8
<1>10. Tables!Enter
  <2>1. Shown' = [Shown EXCEPT ![D + 1] = Shown'[D + 1]] /\ Shown'[D + 1] \subseteq Symbol
    BY <1>2, <1>7, <1>9, Zenon
  <2>2. D < MaxLevel /\ D' = D + 1
    BY <1>3
  <2> QED BY <1>4, <2>1, <2>2, TableOperations
<1> QED BY <1>3, <1>5, <1>6, <1>10, TableSteps DEF Refines, Sound

LEMMA LeavingRefines ==
  ASSUME Sound, AtRest, dcl_exit_proc_level
  PROVE  Refines
<1>1. /\ D \in 1..MaxLevel /\ D \in Levels /\ D - 1 \in 1..MaxLevel
      /\ \A l \in Levels : l > D - 1 => l > D \/ l = D
      /\ D > 1 /\ D' = D - 1
  BY SymbolBounds DEF Sound, ListsOK, Levels, dcl_exit_proc_level
<1>2. /\ symbol_list' = [symbol_list EXCEPT ![D] = << >>]
      /\ symbol_scope' = [symbol_scope EXCEPT ![D] = {}]
      /\ UNCHANGED EXP_string_value
  BY DEF dcl_exit_proc_level
<1>3. ListOK(<< >>) /\ TableOf(<< >>) = {}
  BY DEF ListOK, TableOf
<1>4. ListsOK(symbol_list', D')
  BY <1>1, <1>2, <1>3 DEF Sound, ListsOK
<1>5. ScopesOK'
  BY <1>1, <1>2 DEF Sound, ScopesOK
<1>6. Shown' = [Shown EXCEPT ![D] = {}]
  BY <1>1, <1>2, <1>3, ShownAtRest DEF TablesOf, Sound, ListsOK
<1>7. Tables!Leave
  BY <1>1, <1>2, <1>6, TableOperations
<1> QED BY <1>1, <1>4, <1>5, <1>7, TableSteps DEF Refines, Sound

(***************************************************************************)
(* DELETE/SYMBOL.                                                          *)
(***************************************************************************)

\* The symbols of level l that the command is to delete, d being the current level.
Selects(pattern, from, d, l, e) ==
  /\ pattern = "*" \/ Begins(pattern, e.name)
  /\ from = "GLOBAL" => l = 0
  /\ from = "LOCAL" => l = d

Spared(pattern, from, d, l, list) == {e \in TableOf(list) : ~Selects(pattern, from, d, l, e)}

\* What the scan has passed, to row num of a level, holds nothing that is to be deleted.
Passed(pattern, from, d, lists, level, num) ==
  \A l \in Levels : \A i \in DOMAIN lists[l] :
    l < level \/ (l = level /\ i <= num) => ~Selects(pattern, from, d, l, lists[l][i])

\* Against the lists as they were: only selected symbols are gone.
OnlySelectedGone(pattern, from, d, lists, old) ==
  \A l \in Levels :
    /\ Spared(pattern, from, d, l, lists[l]) = Spared(pattern, from, d, l, old[l])
    /\ l > d => old[l] = << >>

\* Where the scan stands, and that it has only deleted what it was to delete.
ScanOK(s, d, lists, old) ==
  /\ s \in Scan
  /\ s.level \in 0..d /\ s.num \in DOMAIN lists[s.level]
  /\ s.name = lists[s.level][s.num].name
  /\ Passed(s.pattern, s.from, d, lists, s.level, s.num - 1)
  /\ OnlySelectedGone(s.pattern, s.from, d, lists, old)

\* symbol_first and symbol_next come to the next row of all levels, and to none only
\* behind the last.
LEMMA NextRowFollows ==
  ASSUME NEW lists, ListsOK(lists, D), NEW pattern, NEW from, NEW l \in 0..D, NEW num \in 0..Len(lists[l]),
         Passed(pattern, from, D, lists, l, num)
  PROVE  \/ /\ NextRow(lists, l, num) = << >>
            /\ \A m \in Levels : \A i \in DOMAIN lists[m] : ~Selects(pattern, from, D, m, lists[m][i])
         \/ \E m \in 0..D : \E i \in DOMAIN lists[m] :
              NextRow(lists, l, num) = <<m, i>> /\ Passed(pattern, from, D, lists, m, i - 1)
<1>1. /\ D \in 1..MaxLevel /\ MaxLevel \in Nat /\ 0..D \subseteq Levels /\ Levels \subseteq Nat
      /\ \A m \in Levels : m > D => lists[m] = << >>
  BY SymbolBounds DEF ListsOK, Levels
<1>2. \A m \in Levels : lists[m] \in Seq(Symbol) /\ DOMAIN lists[m] = 1..Len(lists[m]) /\ Len(lists[m]) \in Nat
  BY RowsAreNumbers DEF ListsOK
<1>3. CASE num < Len(lists[l])
  <2>1. num + 1 \in DOMAIN lists[l] /\ num + 1 - 1 = num
    BY <1>1, <1>2, <1>3
  <2> QED BY <1>3, <2>1 DEF NextRow
<1> DEFINE later == {m \in l + 1..D : lists[m] # << >>}
<1>4. \A m \in Levels : m > l => m \in later \/ lists[m] = << >>
  BY <1>1 DEF Levels
<1>5. \A m \in Levels : lists[m] = << >> => DOMAIN lists[m] = {}
  <2>1. DOMAIN << >> = {}
    OBVIOUS
  <2> QED BY <2>1, Zenon
<1>6. \A m \in Levels : m < l \/ m = l \/ m > l
  BY <1>1
<1>7. ASSUME ~(num < Len(lists[l])), NEW m \in Levels, m <= l, NEW i \in DOMAIN lists[m]
      PROVE  ~Selects(pattern, from, D, m, lists[m][i])
  <2>1. CASE m = l
    <3>1. l \in Levels /\ i \in 1..Len(lists[l]) /\ Len(lists[l]) \in Nat
      BY <1>1, <1>2, <1>7, <2>1
    <3>2. i <= num
      BY <1>7, <3>1
    <3> QED BY <1>7, <2>1, <3>2 DEF Passed
  <2>2. CASE m # l
    <3>1. m < l
      BY <1>1, <1>7, <2>2
    <3> QED BY <1>7, <3>1 DEF Passed
  <2> QED BY <2>1, <2>2
<1>8. CASE ~(num < Len(lists[l])) /\ later = {}
  <2>1. NextRow(lists, l, num) = << >>
    BY <1>8 DEF NextRow
  <2>2. ASSUME NEW m \in Levels, NEW i \in DOMAIN lists[m] PROVE ~Selects(pattern, from, D, m, lists[m][i])
    <3>1. m <= l
      <4>1. ~(m > l)
        BY <1>4, <1>5, <1>8
      <4> QED BY <1>1, <4>1
    <3> QED BY <1>7, <1>8, <3>1
  <2> QED BY <2>1, <2>2
<1>9. CASE ~(num < Len(lists[l])) /\ later # {}
  <2>1. PICK m : m = First(later)
    OBVIOUS
  <2>2. m \in later /\ \A k \in later : m <= k
    <3>1. later \subseteq Nat
      BY <1>1
    <3> HIDE DEF later
    <3> QED BY <1>9, <2>1, <3>1, FirstIsLeast
  <2>3. NextRow(lists, l, num) = <<m, 1>>
    BY <1>9, <2>1 DEF NextRow
  <2>4. m \in 0..D /\ m \in Levels /\ m > l /\ lists[m] # << >>
    BY <1>1, <2>2
  <2>5. 1 \in DOMAIN lists[m]
    <3>1. Len(lists[m]) # 0
      BY <1>2, <2>4, EmptySeq
    <3> QED BY <1>2, <2>4, <3>1
  <2>6. Passed(pattern, from, D, lists, m, 1 - 1)
    <3> SUFFICES ASSUME NEW k \in Levels, NEW i \in DOMAIN lists[k], k < m \/ (k = m /\ i <= 1 - 1)
                 PROVE  ~Selects(pattern, from, D, k, lists[k][i])
      BY DEF Passed
    <3>1. i \in 1..Len(lists[k]) /\ Len(lists[k]) \in Nat
      BY <1>2
    <3>2. k < m
      <4>1. i \in Nat /\ i >= 1
        BY <3>1
      <4>2. ~(i <= 1 - 1)
        BY <4>1
      <4> QED BY <4>2, Zenon
    <3>3. k \notin later
      BY <1>1, <2>2, <2>4, <3>2
    <3>4. k <= l
      BY <1>1, <1>4, <1>5, <1>6, <3>3
    <3> QED BY <1>7, <1>9, <3>4
  <2> QED BY <2>3, <2>4, <2>5, <2>6
<1> QED BY <1>3, <1>8, <1>9

AllPassed(pattern, from, d, lists) ==
  \A m \in Levels : \A i \in DOMAIN lists[m] : ~Selects(pattern, from, d, m, lists[m][i])

\* The scan stands at the next row, or it has passed them all.
LEMMA ScanGoesOn ==
  ASSUME NEW lists, ListsOK(lists, D), NEW pattern \in Patterns, NEW from \in {"ALL", "GLOBAL", "LOCAL"},
         NEW l \in 0..D, NEW num \in 0..Len(lists[l]), Passed(pattern, from, D, lists, l, num),
         NEW old, OnlySelectedGone(pattern, from, D, lists, old),
         ScanTo(lists, NextRow(lists, l, num), pattern, from)
  PROVE  \/ ss' = NoScan /\ AllPassed(pattern, from, D, lists)
         \/ ss' # NoScan /\ ScanOK(ss', D, lists, old)
<1>1. CASE /\ NextRow(lists, l, num) = << >>
           /\ \A m \in Levels : \A i \in DOMAIN lists[m] : ~Selects(pattern, from, D, m, lists[m][i])
  BY <1>1 DEF ScanTo, AllPassed
<1>2. ASSUME NEW m \in 0..D, NEW i \in DOMAIN lists[m], NextRow(lists, l, num) = <<m, i>>,
             Passed(pattern, from, D, lists, m, i - 1)
      PROVE  ss' # NoScan /\ ScanOK(ss', D, lists, old)
  <2> DEFINE s == [pattern |-> pattern, from |-> from, name |-> lists[m][i].name, level |-> m, num |-> i]
  <2>1. <<m, i>> # << >>
    OBVIOUS
  <2>2. ss' = s
    BY <1>2, <2>1 DEF ScanTo
  <2>3. m \in Levels /\ lists[m] \in Seq(Symbol)
    BY SymbolBounds DEF ListsOK, Levels
  <2>4. lists[m][i] \in Symbol /\ i \in Nat
    BY <2>3, RowsAreNumbers
  <2>5. s \in Scan
    BY <2>3, <2>4 DEF Scan, Symbol
  <2>6. s # NoScan
    <3>1. "num" \in DOMAIN s /\ DOMAIN NoScan = {}
      BY DEF NoScan
    <3> QED BY <3>1
  <2>7. /\ s.level = m /\ s.num = i /\ s.name = lists[m][i].name
        /\ s.pattern = pattern /\ s.from = from
    OBVIOUS
  <2> HIDE DEF s
  <2>8. ScanOK(s, D, lists, old)
    <3>1. Passed(s.pattern, s.from, D, lists, s.level, s.num - 1)
      BY <1>2, <2>7
    <3>2. OnlySelectedGone(s.pattern, s.from, D, lists, old)
      BY <2>7
    <3>3. s.level \in 0..D /\ s.num \in DOMAIN lists[s.level] /\ s.name = lists[s.level][s.num].name
      BY <2>7
    <3> QED BY <2>5, <3>1, <3>2, <3>3 DEF ScanOK
  <2> QED BY <2>2, <2>6, <2>8
<1>3. \/ /\ NextRow(lists, l, num) = << >>
         /\ \A m \in Levels : \A i \in DOMAIN lists[m] : ~Selects(pattern, from, D, m, lists[m][i])
      \/ \E m \in 0..D : \E i \in DOMAIN lists[m] :
           NextRow(lists, l, num) = <<m, i>> /\ Passed(pattern, from, D, lists, m, i - 1)
  BY NextRowFollows
<1> QED BY <1>1, <1>2, <1>3, Zenon

SymbolsInv == Sound /\ (ss = NoScan \/ ScanOK(ss, D, symbol_list, before))

LEMMA DeleteBegins ==
  ASSUME Sound, ss = NoScan, NEW pattern \in Patterns, NEW from \in {"ALL", "GLOBAL", "LOCAL"},
         dcl_del_symbol(pattern, from)
  PROVE  SymbolsInv' /\ TableStep
<1>1. /\ ListsOK(symbol_list, D) /\ D \in 1..MaxLevel /\ UNCHANGED <<D, symbol_scope, symbol_list, EXP_string_value>>
      /\ ScanTo(symbol_list, NextRow(symbol_list, 0, 0), pattern, from)
      /\ before' = IF ss' = NoScan THEN before ELSE symbol_list
  BY DEF Sound, ListsOK, dcl_del_symbol, KeepLevels
<1>2. 0 \in Levels /\ 0 \in 0..D /\ \A l \in Levels : symbol_list[l] \in Seq(Symbol) /\ ~(l < 0)
  BY <1>1, SymbolBounds DEF ListsOK, Levels
<1>3. 0 \in 0..Len(symbol_list[0])
  BY <1>2, LenProperties
<1>4. Passed(pattern, from, D, symbol_list, 0, 0)
  <2>1. \A l \in Levels : \A i \in DOMAIN symbol_list[l] : ~(l < 0 \/ (l = 0 /\ i <= 0))
    BY <1>2, RowsAreNumbers
  <2> QED BY <2>1 DEF Passed
<1>5. OnlySelectedGone(pattern, from, D, symbol_list, symbol_list)
  BY <1>1 DEF OnlySelectedGone, ListsOK
<1>6. \/ ss' = NoScan
      \/ ss' # NoScan /\ ScanOK(ss', D, symbol_list, symbol_list)
  BY <1>1, <1>2, <1>3, <1>4, <1>5, ScanGoesOn
<1>7. Sound'
  BY <1>1 DEF Sound, ScopesOK
<1>8. CASE ss' = NoScan
  BY <1>1, <1>7, <1>8, NothingChanges DEF AtRest, SymbolsInv, Refines
<1>9. CASE ss' # NoScan
  <2>1. before' = symbol_list
    BY <1>1, <1>9
  <2>2. Shown = TablesOf(symbol_list) /\ Shown' = TablesOf(symbol_list)
    BY <1>9, <2>1 DEF Shown, TablesOf
  <2>3. TableStep
    BY <1>1, <2>2, TableSteps
  <2> QED BY <1>1, <1>6, <1>7, <1>9, <2>1, <2>3 DEF SymbolsInv
<1> QED BY <1>8, <1>9

\* The symbol that symbol_del_lvl finds by its name is the one at the scan: an earlier one
\* that the name abbreviates would have been selected too.
LEMMA ScannedIsFound ==
  ASSUME NEW list, ListOK(list), NEW k \in DOMAIN list, NEW pattern \in Patterns,
         pattern = "*" \/ Begins(pattern, list[k].name),
         \A i \in DOMAIN list : i < k => ~(pattern = "*" \/ Begins(pattern, list[i].name))
  PROVE  Deleted(list, list[k].name) = WithoutRow(list, k)
<1> DEFINE n == list[k].name
<1>1. /\ list \in Seq(Symbol) /\ DOMAIN list \subseteq Nat
      /\ \A i \in DOMAIN list : list[i] \in Symbol /\ list[i].name \in Names /\ list[i].min \in Names
  BY RowsAreNumbers DEF ListOK, Symbol
<1>2. k \in Found(n, list)
  BY <1>1, PrefixAssumption DEF Found, Matches, ListOK, Begins
<1>3. \A i \in Found(n, list) : pattern = "*" \/ Begins(pattern, list[i].name)
  <2> SUFFICES ASSUME NEW i \in Found(n, list), pattern # "*" PROVE Begins(pattern, list[i].name)
    OBVIOUS
  <2>1. Begins(pattern, n) /\ Begins(n, list[i].name) /\ i \in DOMAIN list
    BY DEF Found, Matches
  <2>2. pattern \in Names
    BY <2>1, PrefixAssumption DEF Begins
  <2> QED BY <1>1, <2>1, <2>2, PrefixAssumption DEF Begins
<1>4. PICK f : f = First(Found(n, list))
  OBVIOUS
<1>5. f \in Found(n, list) /\ f <= k
  BY <1>2, <1>4, SearchFinds
<1>6. f \in DOMAIN list /\ ~(f < k)
  BY <1>3, <1>5 DEF Found
<1>7. f = k
  BY <1>1, <1>5, <1>6
<1> QED BY <1>2, <1>4, <1>7 DEF Deleted

\* A round of the loop passes the row at the scan, or takes it out.
LEMMA RoundPasses ==
  ASSUME Sound, ScanOK(ss, D, symbol_list, before), DeleteRound
  PROVE  \E lists : \E num \in 0..Len(lists[ss.level]) :
           /\ lists = symbol_list' /\ ListsOK(lists, D)
           /\ Passed(ss.pattern, ss.from, D, lists, ss.level, num)
           /\ OnlySelectedGone(ss.pattern, ss.from, D, lists, before)
           /\ ScanTo(lists, NextRow(lists, ss.level, num), ss.pattern, ss.from)
<1> DEFINE l == ss.level
           k == ss.num
           list == symbol_list[l]
           Chosen(m, e) == Selects(ss.pattern, ss.from, D, m, e)
<1>1. /\ D \in 1..MaxLevel /\ l \in 0..D /\ l \in Levels /\ ListOK(list) /\ list \in Seq(Symbol)
      /\ k \in DOMAIN list /\ ss.name = list[k].name /\ ss.pattern \in Patterns
      /\ \A m \in Levels : m \in Nat
  <2>1. D \in 1..MaxLevel /\ \A m \in Levels : ListOK(symbol_list[m])
    BY DEF Sound, ListsOK
  <2>2. l \in 0..D /\ k \in DOMAIN list /\ ss.name = list[k].name
    BY DEF ScanOK
  <2>3. ss.pattern \in Patterns
    BY DEF ScanOK, Scan
  <2>4. l \in Levels /\ \A m \in Levels : m \in Nat
    BY <2>1, <2>2, SymbolBounds DEF Levels
  <2> HIDE DEF l
  <2>5. ListOK(list) /\ list \in Seq(Symbol)
    BY <2>1, <2>4 DEF ListOK
  <2> QED BY <2>1, <2>2, <2>3, <2>4, <2>5
<1>2. DOMAIN list = 1..Len(list) /\ Len(list) \in Nat /\ k \in Nat /\ k - 1 \in 0..Len(list) - 1
  BY <1>1, RowsAreNumbers
<1>3. /\ \A i \in DOMAIN list : i <= k - 1 => ~Chosen(l, list[i])
      /\ \A m \in Levels : m < l => \A i \in DOMAIN symbol_list[m] : ~Chosen(m, symbol_list[m][i])
  BY <1>1 DEF ScanOK, Passed
<1>4. OnlySelectedGone(ss.pattern, ss.from, D, symbol_list, before)
  BY DEF ScanOK
<1>5. Selected <=> Chosen(l, list[k])
  BY <1>1 DEF Selected, Selects
<1>6. CASE Selected
  <2> DEFINE short == WithoutRow(list, k)
             new == [symbol_list EXCEPT ![l] = short]
  <2>1. \A i \in DOMAIN list : i < k => ~(ss.pattern = "*" \/ Begins(ss.pattern, list[i].name))
    <3>1. (ss.from = "GLOBAL" => l = 0) /\ (ss.from = "LOCAL" => l = D)
      BY <1>6 DEF Selected
    <3>2. \A i \in DOMAIN list : i < k => ~Chosen(l, list[i])
      BY <1>2, <1>3
    <3> QED BY <3>1, <3>2 DEF Selects
  <2>2. ss.pattern = "*" \/ Begins(ss.pattern, list[k].name)
    BY <1>1, <1>6 DEF Selected
  <2>3. Deleted(list, ss.name) = short
    BY <1>1, <2>1, <2>2, ScannedIsFound
  <2>4. new = symbol_list'
    BY <1>6, <2>3 DEF DeleteRound, symbol_del_lvl
  <2>5. /\ ListOK(short) /\ Len(short) = Len(list) - 1
        /\ \A i \in DOMAIN list : i < k => short[i] = list[i]
        /\ TableOf(short) = TableOf(list) \ {list[k]}
    BY <1>1, RowTakenOut
  <2> HIDE DEF short
  <2>6. /\ new \in [Levels -> Seq(Symbol)] /\ new[l] = short
        /\ \A m \in Levels : m # l => new[m] = symbol_list[m]
    BY <1>1, <2>5 DEF Sound, ListsOK, ListOK
  <2> HIDE DEF new
  <2>7. ListsOK(new, D)
    <3>1. \A m \in Levels : m > D => m # l
      BY <1>1
    <3> QED BY <2>5, <2>6, <3>1 DEF Sound, ListsOK
  <2>8. \A i \in DOMAIN short : i <= k - 1 => i \in DOMAIN list /\ i < k
    <3>1. DOMAIN short = 1..Len(short)
      BY <2>5, RowsAreNumbers DEF ListOK
    <3> QED BY <1>2, <2>5, <3>1
  <2>9. Passed(ss.pattern, ss.from, D, new, l, k - 1)
    <3>1. \A i \in DOMAIN new[l] : i <= k - 1 => ~Chosen(l, new[l][i])
      BY <1>3, <2>5, <2>6, <2>8
    <3>2. \A m \in Levels : m < l => m # l
      BY <1>1
    <3>3. \A m \in Levels : m < l => \A i \in DOMAIN new[m] : ~Chosen(m, new[m][i])
      BY <1>3, <2>6, <3>2
    <3> QED BY <3>1, <3>3 DEF Passed
  <2>10. OnlySelectedGone(ss.pattern, ss.from, D, new, before)
    <3>1. Spared(ss.pattern, ss.from, D, l, short) = Spared(ss.pattern, ss.from, D, l, list)
      BY <1>5, <1>6, <2>5 DEF Spared
    <3>2. \A m \in Levels :
            Spared(ss.pattern, ss.from, D, m, new[m]) = Spared(ss.pattern, ss.from, D, m, symbol_list[m])
      BY <2>6, <3>1
    <3> QED BY <1>4, <3>2 DEF OnlySelectedGone
  <2>11. ScanTo(new, NextRow(new, l, k - 1), ss.pattern, ss.from)
    BY <1>6, <2>4 DEF DeleteRound, ScannedAfter
  <2>12. k - 1 \in 0..Len(new[l])
    BY <1>2, <2>5, <2>6
  <2> QED BY <2>4, <2>7, <2>9, <2>10, <2>11, <2>12
<1>7. CASE ~Selected
  <2>1. symbol_list' = symbol_list /\ ScanTo(symbol_list, NextRow(symbol_list, l, k), ss.pattern, ss.from)
    BY <1>7 DEF DeleteRound
  <2>2. Passed(ss.pattern, ss.from, D, symbol_list, l, k)
    <3>1. \A i \in DOMAIN list : i <= k => i <= k - 1 \/ i = k
      BY <1>2
    <3>2. \A i \in DOMAIN list : i <= k => ~Chosen(l, list[i])
      BY <1>3, <1>5, <1>7, <3>1
    <3> QED BY <1>3, <3>2 DEF Passed
  <2>3. k \in 0..Len(symbol_list[l])
    BY <1>1, <1>2
  <2> QED BY <1>4, <2>1, <2>2, <2>3 DEF Sound
<1> QED BY <1>6, <1>7

\* The loop ends with exactly the selected symbols gone.
LEMMA RoundDeletes ==
  ASSUME Sound, ss # NoScan, ScanOK(ss, D, symbol_list, before), DeleteRound
  PROVE  SymbolsInv' /\ TableStep
<1>1. PICK lists : \E num \in 0..Len(lists[ss.level]) :
           /\ lists = symbol_list' /\ ListsOK(lists, D)
           /\ Passed(ss.pattern, ss.from, D, lists, ss.level, num)
           /\ OnlySelectedGone(ss.pattern, ss.from, D, lists, before)
           /\ ScanTo(lists, NextRow(lists, ss.level, num), ss.pattern, ss.from)
  BY RoundPasses
<1>2. PICK num \in 0..Len(lists[ss.level]) :
           /\ lists = symbol_list' /\ ListsOK(lists, D)
           /\ Passed(ss.pattern, ss.from, D, lists, ss.level, num)
           /\ OnlySelectedGone(ss.pattern, ss.from, D, lists, before)
           /\ ScanTo(lists, NextRow(lists, ss.level, num), ss.pattern, ss.from)
  BY <1>1
<1>3. ss.pattern \in Patterns /\ ss.from \in {"ALL", "GLOBAL", "LOCAL"} /\ ss.level \in 0..D
  BY DEF ScanOK, Scan
<1>4. UNCHANGED <<D, symbol_scope, EXP_string_value>> /\ before' = (IF ss' = NoScan THEN << >> ELSE before)
  BY DEF DeleteRound, KeepLevels
<1>5. Sound' /\ D \in 1..MaxLevel
  BY <1>2, <1>4 DEF Sound, ScopesOK, ListsOK
<1>6. \/ ss' = NoScan /\ AllPassed(ss.pattern, ss.from, D, lists)
      \/ ss' # NoScan /\ ScanOK(ss', D, lists, before)
  BY <1>2, <1>3, ScanGoesOn
<1>7. CASE ss' # NoScan /\ ScanOK(ss', D, lists, before)
  <2>1. before' = before
    BY <1>4, <1>7
  <2>2. UNCHANGED Shown
    BY <1>7, <2>1 DEF Shown, TablesOf
  <2> QED BY <1>2, <1>4, <1>5, <1>7, <2>1, <2>2, TableSteps DEF SymbolsInv
<1>8. CASE ss' = NoScan /\ AllPassed(ss.pattern, ss.from, D, lists)
  <2>1. PICK levels : levels = IF ss.from = "GLOBAL" THEN {0} ELSE IF ss.from = "LOCAL" THEN {D} ELSE 0..D
    OBVIOUS
  <2>2. levels \in {{0}, {D}, 0..D}
    BY <2>1
  <2>3. \A l \in 0..D : l \in levels <=> (ss.from = "GLOBAL" => l = 0) /\ (ss.from = "LOCAL" => l = D)
    BY <1>3, <2>1
  <2>4. levels \subseteq 0..D
    BY <1>5, <2>1
  <2>5. Shown = TablesOf(before) /\ Shown' = TablesOf(lists)
    BY <1>2, <1>8 DEF Shown, TablesOf
  <2>6. ASSUME NEW l \in Levels
        PROVE  TableOf(lists[l]) = IF l \in levels
                 THEN {e \in TableOf(before[l]) : ss.pattern # "*" /\ ~Begins(ss.pattern, e.name)}
                 ELSE TableOf(before[l])
    <3>1. TableOf(lists[l]) = Spared(ss.pattern, ss.from, D, l, lists[l])
      BY <1>8 DEF AllPassed, Spared, TableOf
    <3>2. TableOf(lists[l]) = Spared(ss.pattern, ss.from, D, l, before[l])
      BY <1>2, <3>1 DEF OnlySelectedGone
    <3>3. CASE l > D
      <4>1. TableOf(before[l]) = {}
        <5>1. before[l] = << >>
          BY <1>2, <3>3 DEF OnlySelectedGone
        <5> QED BY <5>1 DEF TableOf
      <4> QED BY <3>2, <4>1 DEF Spared
    <3>4. CASE ~(l > D)
      <4>1. l \in 0..D
        BY <1>5, <3>4, SymbolBounds DEF Levels
      <4>2. \A e : Selects(ss.pattern, ss.from, D, l, e) <=>
                     l \in levels /\ (ss.pattern = "*" \/ Begins(ss.pattern, e.name))
        BY <2>3, <4>1 DEF Selects
      <4>3. TableOf(lists[l]) =
              {e \in TableOf(before[l]) : ~(l \in levels /\ (ss.pattern = "*" \/ Begins(ss.pattern, e.name)))}
        BY <3>2, <4>2 DEF Spared
      <4>4. l \in levels =>
              {e \in TableOf(before[l]) : ~(l \in levels /\ (ss.pattern = "*" \/ Begins(ss.pattern, e.name)))}
                = {e \in TableOf(before[l]) : ss.pattern # "*" /\ ~Begins(ss.pattern, e.name)}
        OBVIOUS
      <4>5. l \notin levels =>
              {e \in TableOf(before[l]) : ~(l \in levels /\ (ss.pattern = "*" \/ Begins(ss.pattern, e.name)))}
                = TableOf(before[l])
        OBVIOUS
      <4> QED BY <4>3, <4>4, <4>5, Zenon
    <3> QED BY <3>3, <3>4
  <2>7. Shown' = [l \in Levels |->
            IF l \in levels THEN {e \in Shown[l] : ss.pattern # "*" /\ ~Begins(ss.pattern, e.name)} ELSE Shown[l]]
    BY <2>5, <2>6 DEF TablesOf
  <2>8. Tables!Delete(ss.pattern, levels)
    <3>1. Tables!Delete(ss.pattern, levels) <=>
            /\ Shown' = [l \in Levels |->
                 IF l \in levels THEN {e \in Shown[l] : ss.pattern # "*" /\ ~Begins(ss.pattern, e.name)} ELSE Shown[l]]
            /\ UNCHANGED <<D, symbol_scope, EXP_string_value>>
      BY TableOperations, Zenon
    <3> QED BY <1>4, <2>7, <3>1
  <2>9. ss.pattern \in Names \cup {"*"}
    BY <1>3, PatternsAssumption
  <2> QED BY <1>5, <1>8, <2>2, <2>8, <2>9, TableSteps DEF SymbolsInv
<1> QED BY <1>6, <1>7, <1>8

(***************************************************************************)
(* The theorems.                                                           *)
(***************************************************************************)
LEMMA SymbolsBegin == Init => SymbolsInv /\ Tables!TablesInit
<1> SUFFICES ASSUME Init PROVE SymbolsInv /\ Tables!TablesInit
  OBVIOUS
<1>1. 1 \in 1..MaxLevel /\ \A l \in Levels : l > 1 <=> ~(l <= 1)
  BY SymbolBounds DEF Levels
<1>2. ListOK(<< >>) /\ << >> \in Seq(Symbol) /\ TableOf(<< >>) = {}
  BY DEF ListOK, TableOf
<1>3. ListsOK(symbol_list, D)
  BY <1>1, <1>2 DEF Init, ListsOK
<1>4. ScopesOK
  BY <1>1, ParametersAssumption DEF Init, ScopesOK
<1>5. Shown = [l \in 0..MaxLevel |-> {}]
  BY <1>2 DEF Init, Shown, TablesOf, Levels
<1>6. Tables!TablesInit
  BY <1>5 DEF Tables!TablesInit, Init, Shown, TablesOf, Levels, Scopes
<1> QED BY <1>3, <1>4, <1>6 DEF SymbolsInv, Sound, Init

LEMMA SymbolsGoOn == SymbolsInv /\ [Next]_vars => SymbolsInv' /\ TableStep
<1> SUFFICES ASSUME SymbolsInv, [Next]_vars PROVE SymbolsInv' /\ TableStep
  OBVIOUS
<1>1. Sound
  BY DEF SymbolsInv
<1>2. CASE ss = NoScan /\ Command
  <2>1. ASSUME AtRest, Refines PROVE SymbolsInv' /\ TableStep
    BY <2>1 DEF AtRest, Refines, SymbolsInv
  <2>2. ASSUME NEW n \in Names, Substitute(n) PROVE SymbolsInv' /\ TableStep
    <3>1. AtRest
      BY <1>2, <2>2 DEF AtRest, Substitute, Ended
    <3> QED BY <1>1, <2>1, <2>2, <3>1, SubstituteReads
  <2>3. CASE Assignment
    <3>1. AtRest
      BY <1>2, <2>3 DEF AtRest, Assignment, dcl_read, dcl_inquire, dcl_sym_assign, dcl_string_assign, Ended
    <3> QED BY <1>1, <2>1, <2>3, <3>1, AssignmentRefines
  <2>4. ASSUME NEW word \in {"LOCAL", "NOLOCAL", "GLOBAL", "NOGLOBAL"}, dcl_set_symbol(word)
        PROVE  SymbolsInv' /\ TableStep
    <3>1. AtRest
      BY <1>2, <2>4 DEF AtRest, dcl_set_symbol, Ended
    <3> QED BY <1>1, <2>1, <2>4, <3>1, SetSymbolSetsScope
  <2>5. ASSUME NEW pattern \in Patterns, NEW from \in {"ALL", "GLOBAL", "LOCAL"}, dcl_del_symbol(pattern, from)
        PROVE  SymbolsInv' /\ TableStep
    BY <1>1, <1>2, <2>5, DeleteBegins
  <2>6. ASSUME NEW values \in [DOMAIN Parameters -> Values], dcl_enter_proc_level(values)
        PROVE  SymbolsInv' /\ TableStep
    <3>1. AtRest
      BY <1>2, <2>6 DEF AtRest, dcl_enter_proc_level, Ended
    <3> QED BY <1>1, <2>1, <2>6, <3>1, EnteringRefines
  <2>7. CASE dcl_exit_proc_level
    <3>1. AtRest
      BY <1>2, <2>7 DEF AtRest, dcl_exit_proc_level, Ended
    <3> QED BY <1>1, <2>1, <2>7, <3>1, LeavingRefines
  <2> QED BY <1>2, <2>2, <2>3, <2>4, <2>5, <2>6, <2>7 DEF Command
<1>3. CASE ss # NoScan /\ DeleteRound
  BY <1>1, <1>3, RoundDeletes DEF SymbolsInv
<1>4. CASE UNCHANGED vars
  <2>1. UNCHANGED <<D, symbol_list, symbol_scope, EXP_string_value, ss, before>>
    BY <1>4 DEF vars
  <2>2. SymbolsInv'
    BY <2>1 DEF SymbolsInv, Sound, ScopesOK
  <2>3. UNCHANGED <<D, Shown, symbol_scope, EXP_string_value>> /\ D \in 1..MaxLevel
    BY <1>1, <2>1 DEF Shown, TablesOf, Sound, ListsOK
  <2> QED BY <2>2, <2>3, TableSteps
<1> QED BY <1>2, <1>3, <1>4 DEF Next

LEMMA SymbolsInvTypes == SymbolsInv => SymbolsTypeOK
<1> SUFFICES ASSUME SymbolsInv PROVE SymbolsTypeOK
  OBVIOUS
<1>1. ListsOK(symbol_list, D) /\ ScopesOK
  BY DEF SymbolsInv, Sound
<1>2. ss = NoScan \/ ss \in Scan
  BY DEF SymbolsInv, ScanOK
<1> QED BY <1>1, <1>2 DEF SymbolsTypeOK, ListsOK, ListOK, ScopesOK

\* In no list comes a name twice, whatever abbreviations symbols are stored with, found by
\* and deleted by; what a level leaves behind is gone.
THEOREM SymbolsAlwaysTyped == Spec => []SymbolsTypeOK
<1>1. Init => SymbolsInv
  BY SymbolsBegin
<1>2. SymbolsInv /\ [Next]_vars => SymbolsInv'
  BY SymbolsGoOn
<1>3. SymbolsInv => SymbolsTypeOK
  BY SymbolsInvTypes
<1> QED BY <1>1, <1>2, <1>3, PTL DEF Spec

\* The lists are one table per level: a symbol that is read is the one of the innermost visible
\* level, storing replaces one symbol, and DELETE/SYMBOL, round by round over lists that it
\* shortens, deletes all that its pattern selects and nothing else.
THEOREM ListsAreTables == Spec => ImplementsTables
<1>1. Init => SymbolsInv /\ Tables!TablesInit
  BY SymbolsBegin
<1>2. SymbolsInv /\ [Next]_vars => SymbolsInv' /\ [Tables!TablesNext]_(Tables!tablesVars)
  BY SymbolsGoOn DEF TableStep
<1> QED BY <1>1, <1>2, PTL DEF Spec, ImplementsTables, Tables!TablesSpec
=============================================================================
