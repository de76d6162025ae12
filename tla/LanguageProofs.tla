--------------------------- MODULE LanguageProofs ---------------------------
(***************************************************************************)
(* Theorems about the language of the procedures: what F$SEARCH delivers,  *)
(* for every set of streams, patterns and files on the disk; which day a   *)
(* word names, for every calendar and after any other words; and what      *)
(* cmd_parse_line finds in a line, for every table of parameters and       *)
(* qualifiers.                                                             *)
(***************************************************************************)
EXTENDS FileSearch, Times, CommandLine, FiniteSetTheorems, NaturalsInduction, WellFoundedInduction, TLAPS

(***************************************************************************)
(* Functions that are defined by recursion satisfy their equations because *)
(* a function does; what holds of all their values, holds because there is *)
(* no least number at which it does not.                                   *)
(***************************************************************************)
LEMMA LeastNumber ==
  ASSUME NEW T, T \subseteq Nat, T # {}
  PROVE  \E m \in T : \A n \in T : m <= n
<1> DEFINE R == OpToRel(<, Nat)
<1>1. IsWellFoundedOn(R, Nat)
  BY NatLessThanWellFounded
<1>2. \E m \in T : \A n \in T : <<n, m>> \notin R
  BY <1>1, WFMin
<1>3. \A m, n \in Nat : <<n, m>> \in R <=> n < m
  BY DEF OpToRel
<1> HIDE DEF R
<1>4. \E m \in T : \A n \in T : ~(n < m)
  BY <1>2, <1>3
<1> QED BY <1>4

(***************************************************************************)
(* Searches.                                                               *)
(***************************************************************************)
SearchSpec == SearchInit /\ [][\E s \in Streams, spec \in Patterns : f_search(s, spec)]_searchVars

\* What a stream has delivered are the files of its specification that it has not left,
\* each once.
Delivered(names, spec, left) ==
  /\ left \subseteq Matches[spec]
  /\ names \in Seq(Matches[spec])
  /\ {names[i] : i \in DOMAIN names} = Matches[spec] \ left
  /\ Len(names) = Cardinality(Matches[spec] \ left)

Opened(s) == search[s].filespec \in Patterns /\ Delivered(seen[s], search[s].filespec, search[s].left)
SearchInv ==
  /\ DOMAIN search = Streams /\ DOMAIN seen = Streams
  /\ \A s \in Streams : search[s] = Unused \/ Opened(s)

LEMMA UnusedHasNoSpec == Unused.filespec \notin Patterns
BY PatternsAssumption DEF Unused

LEMMA OpenedStays ==
  ASSUME NEW s \in Streams, search'[s] = search[s], seen'[s] = seen[s], search[s] = Unused \/ Opened(s)
  PROVE  search'[s] = Unused \/ Opened(s)'
<1>1. CASE search[s] = Unused
  BY <1>1
<1>2. CASE Opened(s)
  BY <1>2 DEF Opened, Delivered
<1> QED BY <1>1, <1>2

LEMMA NothingDelivered ==
  ASSUME NEW spec \in Patterns
  PROVE  Delivered(<< >>, spec, Matches[spec])
<1>1. Matches[spec] \ Matches[spec] = {}
  OBVIOUS
<1>2. Cardinality({}) = 0
  BY FS_EmptySet
<1>3. << >> \in Seq(Matches[spec]) /\ Len(<< >>) = 0 /\ {<< >>[i] : i \in DOMAIN << >>} = {}
  OBVIOUS
<1> QED BY <1>1, <1>2, <1>3 DEF Delivered

LEMMA OneMoreDelivered ==
  ASSUME NEW spec \in Patterns, NEW names, NEW left, Delivered(names, spec, left), NEW f \in left
  PROVE  Delivered(Append(names, f), spec, left \ {f})
<1> DEFINE M == Matches[spec]
<1>1. left \subseteq M /\ names \in Seq(M) /\ f \in M
  BY DEF Delivered
<1>2. PICK n \in Nat : n = Len(names)
  BY <1>1
<1>3. {names[i] : i \in DOMAIN names} = M \ left
  BY DEF Delivered
<1>4. n = Cardinality(M \ left)
  BY <1>2 DEF Delivered
<1>5. IsFiniteSet(M \ left)
  BY FilesAssumption, FS_Subset
<1>6. M \ (left \ {f}) = (M \ left) \cup {f} /\ f \notin M \ left
  BY <1>1
<1>7. Cardinality(M \ (left \ {f})) = n + 1
  BY <1>4, <1>5, <1>6, FS_AddElement
<1> HIDE DEF M
<1>8. Append(names, f) \in Seq(M) /\ Len(Append(names, f)) = n + 1
  BY <1>1, <1>2
<1>9. {Append(names, f)[i] : i \in DOMAIN Append(names, f)} = M \ (left \ {f})
  <2>1. DOMAIN names = 1..n /\ DOMAIN Append(names, f) = 1..n + 1
    BY <1>1, <1>2, <1>8
  <2>2. \A i \in 1..n : Append(names, f)[i] = names[i]
    BY <1>1, <1>2
  <2>3. Append(names, f)[n + 1] = f
    BY <1>1, <1>2
  <2>4. 1..n + 1 = 1..n \cup {n + 1}
    OBVIOUS
  <2> QED BY <2>1, <2>2, <2>3, <2>4, <1>3, <1>6
<1> QED BY <1>1, <1>7, <1>8, <1>9 DEF Delivered, M

\* What a call of F$SEARCH goes on with is consistent.
LEMMA ContinuedDelivered ==
  ASSUME SearchInv, NEW s \in Streams, NEW spec \in Patterns
  PROVE  Delivered(SeenBefore(s, spec), spec, Continued(s, spec))
<1>1. CASE search[s].filespec = spec
  <2>1. search[s] # Unused
    BY <1>1, UnusedHasNoSpec
  <2>2. Opened(s)
    BY <2>1 DEF SearchInv
  <2> QED BY <1>1, <2>2 DEF Opened, SeenBefore, Continued
<1>2. CASE search[s].filespec # spec
  BY <1>2, NothingDelivered DEF SeenBefore, Continued
<1> QED BY <1>1, <1>2

LEMMA SearchInvNext ==
  ASSUME SearchInv, NEW s \in Streams, NEW spec \in Patterns, f_search(s, spec)
  PROVE  SearchInv'
<1>1. ASSUME NEW f \in Continued(s, spec),
             search' = [search EXCEPT ![s] = [filespec |-> spec, left |-> Continued(s, spec) \ {f}]],
             seen' = [seen EXCEPT ![s] = Append(SeenBefore(s, spec), f)]
      PROVE  SearchInv'
  <2>1. Delivered(Append(SeenBefore(s, spec), f), spec, Continued(s, spec) \ {f})
    BY ContinuedDelivered, OneMoreDelivered
  <2>2. search'[s].filespec = spec /\ search'[s].left = Continued(s, spec) \ {f}
    BY <1>1 DEF SearchInv
  <2>3. seen'[s] = Append(SeenBefore(s, spec), f)
    BY <1>1 DEF SearchInv
  <2>4. \A t \in Streams : t # s => search'[t] = search[t] /\ seen'[t] = seen[t]
    BY <1>1 DEF SearchInv
  <2>5. DOMAIN search' = Streams /\ DOMAIN seen' = Streams
    BY <1>1 DEF SearchInv
  <2>6. Opened(s)'
    BY <2>1, <2>2, <2>3 DEF Opened, Delivered
  <2>7. \A t \in Streams : t # s => search'[t] = Unused \/ Opened(t)'
    BY <2>4, OpenedStays DEF SearchInv
  <2>8. SearchInv' <=> /\ DOMAIN search' = Streams /\ DOMAIN seen' = Streams
                      /\ \A t \in Streams : search'[t] = Unused \/ Opened(t)'
    BY DEF SearchInv, Unused
  <2> QED BY <2>5, <2>6, <2>7, <2>8
<1>2. ASSUME search' = [search EXCEPT ![s] = Unused], seen' = [seen EXCEPT ![s] = << >>]
      PROVE  SearchInv'
  <2>1. search'[s] = Unused /\ DOMAIN search' = Streams /\ DOMAIN seen' = Streams
    BY <1>2 DEF SearchInv
  <2>2. \A t \in Streams : t # s => search'[t] = search[t] /\ seen'[t] = seen[t]
    BY <1>2 DEF SearchInv
  <2>3. \A t \in Streams : t # s => search'[t] = Unused \/ Opened(t)'
    BY <2>2, OpenedStays DEF SearchInv
  <2>4. SearchInv' <=> /\ DOMAIN search' = Streams /\ DOMAIN seen' = Streams
                      /\ \A t \in Streams : search'[t] = Unused \/ Opened(t)'
    BY DEF SearchInv, Unused
  <2> QED BY <2>1, <2>3, <2>4
<1> QED BY <1>1, <1>2 DEF f_search

LEMMA SearchStepComplete ==
  ASSUME SearchInv, NEW t \in Streams, NEW spec \in Patterns, f_search(t, spec),
         NEW s \in Streams, search[s] # Unused, search[s].filespec = asked', search'[s] = Unused
  PROVE  /\ Len(seen[s]) = Cardinality(Matches[search[s].filespec])
         /\ {seen[s][i] : i \in DOMAIN seen[s]} = Matches[search[s].filespec]
<1>1. asked' = spec /\ search[s].filespec = spec
  BY DEF f_search
<1>2. Continued(t, spec) = {} /\ search' = [search EXCEPT ![t] = Unused]
  <2>1. ASSUME NEW f, search' = [search EXCEPT ![t] = [filespec |-> spec, left |-> Continued(t, spec) \ {f}]]
        PROVE  FALSE
    <3>1. search'[t].filespec = spec
      BY <2>1 DEF SearchInv
    <3>2. s # t => search'[s] = search[s]
      BY <2>1 DEF SearchInv
    <3> QED BY <3>1, <3>2, UnusedHasNoSpec
  <2> QED BY <2>1 DEF f_search
<1>3. s = t
  BY <1>2 DEF SearchInv
<1>4. Opened(s) /\ search[s].left = {}
  BY <1>1, <1>2, <1>3 DEF SearchInv, Continued
<1>5. Matches[spec] \ {} = Matches[spec]
  OBVIOUS
<1> QED BY <1>1, <1>4, <1>5 DEF Opened, Delivered

\* A search that comes to its end has delivered each file of its specification, and each once,
\* however the calls for different streams and with different specifications are interleaved
\* (f_search).
THEOREM SearchAlwaysComplete == SearchSpec => SearchComplete
<1>1. SearchInit => SearchInv
  BY DEF SearchInit, SearchInv
<1>2. SearchInv /\ [\E s \in Streams, spec \in Patterns : f_search(s, spec)]_searchVars => SearchInv'
  <2>1. SearchInv /\ UNCHANGED searchVars => SearchInv'
    BY DEF SearchInv, Opened, Delivered, searchVars
  <2> QED BY <2>1, SearchInvNext
<1>3. SearchInv /\ [\E s \in Streams, spec \in Patterns : f_search(s, spec)]_searchVars =>
        [\A s \in Streams :
           search[s] # Unused /\ search[s].filespec = asked' /\ search'[s] = Unused =>
             /\ Len(seen[s]) = Cardinality(Matches[search[s].filespec])
             /\ {seen[s][i] : i \in DOMAIN seen[s]} = Matches[search[s].filespec]]_searchVars
  BY SearchStepComplete
<1> QED BY <1>1, <1>2, <1>3, PTL DEF SearchSpec, SearchComplete

(***************************************************************************)
(* The calendar.  Before is defined by recursion; the days up to a month   *)
(* in closed form satisfy its equation.                                    *)
(***************************************************************************)
LastMonth == 12 * (LastYear - FirstYear + 1)
\* The leap years before a year, and the days before a month.
LeapYears(y) == (y + 3) \div 4 - (y + 99) \div 100 + (y + 399) \div 400
InYear(m) == <<0, 31, 59, 90, 120, 151, 181, 212, 243, 273, 304, 334>>[m + 1]
DaysTo(y, m) == 365 * y + LeapYears(y) + InYear(m) + (IF m > 1 /\ LeapYear(y) THEN 1 ELSE 0)

LEMMA OneMoreLeapYear ==
  ASSUME NEW y \in Nat
  PROVE  LeapYears(y) \in Int /\ LeapYears(y + 1) = LeapYears(y) + (IF LeapYear(y) THEN 1 ELSE 0)
<1>1. (y + 4) \div 4 = (y + 3) \div 4 + (IF y % 4 = 0 THEN 1 ELSE 0)
  OBVIOUS
<1>2. (y + 100) \div 100 = (y + 99) \div 100 + (IF y % 100 = 0 THEN 1 ELSE 0)
  OBVIOUS
<1>3. (y + 400) \div 400 = (y + 399) \div 400 + (IF y % 400 = 0 THEN 1 ELSE 0)
  OBVIOUS
<1>4. (y % 400 = 0 => y % 100 = 0) /\ (y % 100 = 0 => y % 4 = 0)
  OBVIOUS
<1>5. (y + 3) \div 4 \in Int /\ (y + 99) \div 100 \in Int /\ (y + 399) \div 400 \in Int
  OBVIOUS
<1>6. y + 1 + 3 = y + 4 /\ y + 1 + 99 = y + 100 /\ y + 1 + 399 = y + 400
  OBVIOUS
<1> QED BY <1>1, <1>2, <1>3, <1>4, <1>5, <1>6 DEF LeapYears, LeapYear

LEMMA OneMoreMonth ==
  ASSUME NEW y \in Nat, NEW m \in 0..11
  PROVE  /\ DaysTo(y, m) \in Int
         /\ m < 11 => DaysTo(y, m + 1) = DaysTo(y, m) + Length(y, m)
         /\ m = 11 => DaysTo(y + 1, 0) = DaysTo(y, m) + Length(y, m)
<1>1. PICK leap \in {0, 1} : leap = IF LeapYear(y) THEN 1 ELSE 0
  OBVIOUS
<1>2. PICK l \in Int : l = LeapYears(y) /\ LeapYears(y + 1) = l + leap
  BY <1>1, OneMoreLeapYear
<1>3. \A k \in 0..11 : DaysTo(y, k) = 365 * y + l + InYear(k) + (IF k > 1 THEN leap ELSE 0)
                         /\ InYear(k) \in Int
  BY <1>1, <1>2 DEF DaysTo, InYear
<1>4. DaysTo(y + 1, 0) = 365 * (y + 1) + l + leap
  BY <1>2 DEF DaysTo, InYear
<1>5. m < 11 => InYear(m + 1) = InYear(m) + (IF m = 1 THEN 28 ELSE Length(y, m))
  BY DEF InYear, Length
<1>6. m = 1 => Length(y, m) = 28 + leap
  BY <1>1 DEF Length
<1>7. m = 11 => InYear(m) = 334 /\ Length(y, m) = 31
  BY DEF InYear, Length
<1>8. Length(y, m) \in Int
  BY DEF Length
<1>9. CASE m = 11
  BY <1>9, <1>3, <1>4, <1>7, <1>1
<1>10. CASE m < 11
  <2>1. m + 1 \in 0..11
    BY <1>10
  <2>2. CASE m = 1
    BY <2>2, <2>1, <1>3, <1>5, <1>6, <1>1
  <2>3. CASE m # 1
    BY <2>3, <2>1, <1>10, <1>3, <1>5, <1>8, <1>1
  <2> QED BY <2>2, <2>3
<1> QED BY <1>9, <1>10

LEMMA MonthsCounted ==
  ASSUME NEW y \in FirstYear..LastYear, NEW m \in 0..11
  PROVE  /\ MonthNumber(y, m) \in 0..LastMonth - 1
         /\ FirstYear + MonthNumber(y, m) \div 12 = y /\ MonthNumber(y, m) % 12 = m
<1>1. PICK a \in 0..LastYear - FirstYear : a = y - FirstYear
  BY YearsAssumption
<1>2. MonthNumber(y, m) = 12 * a + m /\ FirstYear + a = y
  BY <1>1, YearsAssumption DEF MonthNumber
<1>3. (12 * a + m) \div 12 = a /\ (12 * a + m) % 12 = m
  BY YearsAssumption
<1>4. 12 * a + m \in 0..LastMonth - 1
  BY YearsAssumption DEF LastMonth
<1> QED BY <1>2, <1>3, <1>4

LEMMA MonthsNumbered ==
  ASSUME NEW k \in 0..LastMonth - 1
  PROVE  \E y \in FirstYear..LastYear, m \in 0..11 : k = MonthNumber(y, m)
<1>0. k \in Nat
  OBVIOUS
<1>1. k \div 12 \in 0..LastYear - FirstYear /\ k % 12 \in 0..11 /\ k = 12 * (k \div 12) + (k % 12)
  BY <1>0, YearsAssumption DEF LastMonth
<1>2. FirstYear + k \div 12 \in FirstYear..LastYear
  BY <1>1, YearsAssumption
<1>3. k = MonthNumber(FirstYear + k \div 12, k % 12)
  BY <1>1, YearsAssumption DEF MonthNumber
<1> QED BY <1>1, <1>2, <1>3

Step(f, k) ==
  IF k = 0 THEN 0 ELSE f[k - 1] + Length(FirstYear + (k - 1) \div 12, (k - 1) % 12)

\* Before satisfies its equation.
LEMMA BeforeIs ==
  Before = [k \in 0..LastMonth |-> Step(Before, k)]
<1> DEFINE At(k) == DaysTo(FirstYear + k \div 12, k % 12) - DaysTo(FirstYear, 0)
           table == [k \in 0..LastMonth |-> At(k)]
<1>1. Before = CHOOSE f : f = [k \in 0..LastMonth |-> Step(f, k)]
  BY DEF Before, LastMonth, Step
<1>2. \A k \in 0..LastMonth : table[k] = Step(table, k)
  <2> SUFFICES ASSUME NEW k \in 0..LastMonth PROVE table[k] = Step(table, k)
    OBVIOUS
  <2>1. LastMonth \in Nat
    BY YearsAssumption DEF LastMonth
  <2>2. CASE k = 0
    <3>1. At(0) = 0
      <4>1. 0 \div 12 = 0 /\ 0 % 12 = 0 /\ FirstYear + 0 = FirstYear
        BY YearsAssumption
      <4>2. DaysTo(FirstYear, 0) \in Int
        BY YearsAssumption, OneMoreMonth
      <4> QED BY <4>1, <4>2
    <3> QED BY <2>2, <3>1, <2>1 DEF Step
  <2>3. CASE k # 0
    <3>1. k - 1 \in 0..LastMonth - 1 /\ k - 1 \in 0..LastMonth /\ (k - 1) + 1 = k
      BY <2>1, <2>3
    <3>2. PICK y \in FirstYear..LastYear, m \in 0..11 : k - 1 = MonthNumber(y, m)
      BY <3>1, MonthsNumbered
    <3>3. y \in Nat /\ FirstYear + (k - 1) \div 12 = y /\ (k - 1) % 12 = m
      <4>1. FirstYear + MonthNumber(y, m) \div 12 = y /\ MonthNumber(y, m) % 12 = m
        BY MonthsCounted
      <4> QED BY <3>2, <4>1, YearsAssumption
    <3>4. At(k) = At(k - 1) + Length(y, m)
      <4> DEFINE a == DaysTo(FirstYear, 0)
      <4>0. a \in Int /\ DaysTo(y, m) \in Int /\ Length(y, m) \in Int
        BY <3>3, YearsAssumption, OneMoreMonth DEF Length
      <4>1. At(k - 1) = DaysTo(y, m) - a
        BY <3>3
      <4>2. CASE m < 11
        <5>1. FirstYear + k \div 12 = y /\ k % 12 = m + 1
          BY <4>2, <3>1, <3>2, YearsAssumption DEF MonthNumber
        <5>2. DaysTo(y, m + 1) = DaysTo(y, m) + Length(y, m)
          BY <4>2, <3>3, OneMoreMonth
        <5>3. At(k) = DaysTo(y, m + 1) - a
          BY <5>1
        <5> HIDE DEF At, a
        <5> QED BY <4>0, <4>1, <5>2, <5>3
      <4>3. CASE m = 11
        <5>1. FirstYear + k \div 12 = y + 1 /\ k % 12 = 0
          <6>1. PICK n \in Nat : FirstYear + n = y /\ k = 12 * (n + 1)
            BY <4>3, <3>1, <3>2, YearsAssumption DEF MonthNumber
          <6>2. (12 * (n + 1)) \div 12 = n + 1 /\ (12 * (n + 1)) % 12 = 0
            OBVIOUS
          <6> QED BY <6>1, <6>2, YearsAssumption
        <5>2. DaysTo(y + 1, 0) = DaysTo(y, m) + Length(y, m)
          BY <4>3, <3>3, OneMoreMonth
        <5>3. At(k) = DaysTo(y + 1, 0) - a
          BY <5>1
        <5> HIDE DEF At, a
        <5> QED BY <4>0, <4>1, <5>2, <5>3
      <4> QED BY <4>2, <4>3
    <3>5. table[k] = At(k) /\ table[k - 1] = At(k - 1)
      BY <3>1
    <3> HIDE DEF At, table
    <3> QED BY <2>3, <3>3, <3>4, <3>5 DEF Step
  <2> QED BY <2>2, <2>3
<1>3. table = [k \in 0..LastMonth |-> Step(table, k)]
  <2> DEFINE again == [k \in 0..LastMonth |-> Step(table, k)]
  <2>1. \A k \in 0..LastMonth : table[k] = again[k]
    BY <1>2
  <2> QED BY <2>1
<1> HIDE DEF table
<1> QED BY <1>1, <1>3

LEMMA BeforeSteps ==
  /\ Before[0] = 0
  /\ \A k \in 1..LastMonth :
       Before[k] = Before[k - 1] + Length(FirstYear + (k - 1) \div 12, (k - 1) % 12)
<1>1. LastMonth \in Nat
  BY YearsAssumption DEF LastMonth
<1>2. \A k \in 0..LastMonth : Before[k] = Step(Before, k)
  BY BeforeIs
<1> QED BY <1>1, <1>2 DEF Step

LEMMA BeforeType == \A k \in 0..LastMonth : Before[k] \in Int
<1> DEFINE T == {k \in 0..LastMonth : Before[k] \notin Int}
<1> SUFFICES ASSUME T # {} PROVE FALSE
  OBVIOUS
<1>0. T \subseteq Nat /\ LastMonth \in Nat
  BY YearsAssumption DEF LastMonth
<1>1. PICK k \in T : \A n \in T : k <= n
  BY <1>0, LeastNumber
<1>2. k \in 1..LastMonth
  BY BeforeSteps
<1>3. k - 1 \in 0..LastMonth /\ k - 1 \notin T
  BY <1>0, <1>1, <1>2
<1>4. \A y, m : Length(y, m) \in Int
  BY DEF Length
<1>5. Before[k - 1] \in Int
  BY <1>3
<1> QED BY <1>2, <1>4, <1>5, BeforeSteps

\* A month begins as many days after the one before as that one has.
LEMMA MonthBegins ==
  ASSUME NEW y \in FirstYear..LastYear, NEW m \in 0..11
  PROVE  /\ Before[MonthNumber(y, m)] \in Int /\ Length(y, m) \in 28..31
         /\ Before[MonthNumber(y, m) + 1] = Before[MonthNumber(y, m)] + Length(y, m)
<1>1. PICK k : k = MonthNumber(y, m)
  OBVIOUS
<1>2. k \in 0..LastMonth - 1 /\ FirstYear + k \div 12 = y /\ k % 12 = m
  BY <1>1, MonthsCounted
<1>3. k + 1 \in 1..LastMonth /\ (k + 1) - 1 = k /\ k \in 0..LastMonth
  BY <1>2, YearsAssumption DEF LastMonth
<1>4. Before[k + 1] = Before[k] + Length(y, m)
  BY <1>2, <1>3, BeforeSteps
<1>5. Length(y, m) \in 28..31
  BY DEF Length
<1> QED BY <1>1, <1>3, <1>4, <1>5, BeforeType

\* A day lies in the month that localtime finds.
Date(st, day) ==
  /\ st.year \in FirstYear..LastYear /\ st.mon \in 0..11 /\ st.mday \in 1..Length(st.year, st.mon)
  /\ day = Before[MonthNumber(st.year, st.mon)] + st.mday - 1

LEMMA DateFound ==
  ASSUME NEW day \in Days
  PROVE  Date(localtime(day), day)
<1>1. LastMonth \in Nat /\ LastMonth # 0 /\ day \in 0..Before[LastMonth] - 1
  BY YearsAssumption DEF LastMonth, Days
<1>2. Before[LastMonth] \in Int
  BY <1>1, BeforeType
<1> DEFINE T == {k \in 0..LastMonth : day < Before[k]}
           In(x) == /\ Before[MonthNumber(x[1], x[2])] <= day
                    /\ day < Before[MonthNumber(x[1], x[2]) + 1]
           ym == CHOOSE x \in Months : In(x)
<1>3. LastMonth \in T
  BY <1>1, <1>2
<1>4. PICK k \in T : \A n \in T : k <= n
  <2>1. T \subseteq Nat
    BY <1>1
  <2> QED BY <1>3, <2>1, LeastNumber
<1>5. k \in 1..LastMonth
  BY <1>1, <1>4, BeforeSteps
<1>6. k - 1 \in 0..LastMonth - 1 /\ k - 1 \in 0..LastMonth /\ k - 1 \notin T /\ (k - 1) + 1 = k
  BY <1>1, <1>4, <1>5
<1>7. Before[k - 1] <= day
  BY <1>1, <1>6, BeforeType
<1>8. PICK y \in FirstYear..LastYear, m \in 0..11 : k - 1 = MonthNumber(y, m)
  BY <1>6, MonthsNumbered
<1>9. <<y, m>> \in Months /\ In(<<y, m>>)
  BY <1>4, <1>6, <1>7, <1>8 DEF Months
<1>10. ym \in Months /\ In(ym)
  BY <1>9
<1>20. localtime(day) = [year |-> ym[1], mon |-> ym[2], mday |-> day - Before[MonthNumber(ym[1], ym[2])] + 1]
  BY DEF localtime
<1> HIDE DEF ym
<1>11. PICK a \in FirstYear..LastYear, b \in 0..11 : ym = <<a, b>>
  BY <1>10 DEF Months
<1>12. PICK first : first = Before[MonthNumber(a, b)]
  OBVIOUS
<1>13. first <= day /\ day < Before[MonthNumber(a, b) + 1]
  BY <1>10, <1>11, <1>12
<1>14. localtime(day) = [year |-> a, mon |-> b, mday |-> day - first + 1]
  BY <1>11, <1>12, <1>20
<1>15. first \in Int /\ Length(a, b) \in 28..31 /\ day < first + Length(a, b)
  BY <1>12, <1>13, MonthBegins
<1>16. day - first + 1 \in 1..Length(a, b) /\ day = first + (day - first + 1) - 1
  BY <1>1, <1>2, <1>13, <1>15
<1>17. PICK st : st = localtime(day)
  OBVIOUS
<1>18. st.year = a /\ st.mon = b /\ st.mday = day - first + 1
  BY <1>14, <1>17
<1> HIDE DEF In, T
<1> QED BY <1>12, <1>16, <1>17, <1>18 DEF Date

(***************************************************************************)
(* The words.                                                              *)
(***************************************************************************)
LEMMA DayAfterIsNext ==
  ASSUME NEW day \in Int, NEW st, Date(st, day), DM1 \in Nat, DM1 >= 28
  PROVE  DayAfter(st) = day + 1
<1>1. PICK y \in FirstYear..LastYear, m \in 0..11, d \in Int : y = st.year /\ m = st.mon /\ d = st.mday
  <2>1. Length(st.year, st.mon) \in Int
    BY DEF Length
  <2> QED BY <2>1 DEF Date
<1>2. PICK first : first = Before[MonthNumber(y, m)]
  OBVIOUS
<1>3. first \in Int /\ Length(y, m) \in 28..31 /\ Before[MonthNumber(y, m) + 1] = first + Length(y, m)
  BY <1>2, MonthBegins
<1>4. d \in 1..Length(y, m) /\ day = first + d - 1
  BY <1>1, <1>2 DEF Date
<1>5. Length(y, m) <= DM(m, February(st))
  BY <1>1 DEF DM, Length, February, LeapYear
<1>6. y \in Nat
  BY YearsAssumption
<1>7. CASE d < DM(m, February(st))
  <2>1. DayAfter(st) = first + (d + 1) - 1
    BY <1>1, <1>2, <1>7 DEF DayAfter, mktime
  <2> QED BY <1>3, <1>4, <2>1
<1>8. CASE ~(d < DM(m, February(st))) /\ m < 11
  <2>1. DM(m, February(st)) \in Int
    BY <1>1 DEF DM, Length, February
  <2>2. d = Length(y, m)
    BY <1>3, <1>4, <1>5, <1>8, <2>1
  <2>3. MonthNumber(y, m + 1) = MonthNumber(y, m) + 1
    BY <1>6, YearsAssumption DEF MonthNumber
  <2>4. DayAfter(st) = Before[MonthNumber(y, m) + 1] + 1 - 1
    BY <1>1, <1>8, <2>3 DEF DayAfter, mktime
  <2> QED BY <1>3, <1>4, <2>2, <2>4
<1>9. CASE ~(d < DM(m, February(st))) /\ m = 11
  <2>1. DM(m, February(st)) \in Int
    BY <1>1 DEF DM, Length, February
  <2>2. d = Length(y, m)
    BY <1>3, <1>4, <1>5, <1>9, <2>1
  <2>3. MonthNumber(y + 1, 0) = MonthNumber(y, m) + 1
    BY <1>6, <1>9, YearsAssumption DEF MonthNumber
  <2>4. DayAfter(st) = Before[MonthNumber(y, m) + 1] + 1 - 1
    BY <1>1, <1>9, <2>3 DEF DayAfter, mktime
  <2> QED BY <1>3, <1>4, <2>2, <2>4
<1> QED BY <1>7, <1>8, <1>9

LEMMA DayBeforeIsLast ==
  ASSUME NEW day \in Int, day > 0, NEW st, Date(st, day),
         st.mon = 2 /\ st.mday = 1 => February(st) = Length(st.year, 1)
  PROVE  DayBefore(st) = day - 1
<1>1. PICK y \in FirstYear..LastYear, m \in 0..11, d \in Int : y = st.year /\ m = st.mon /\ d = st.mday
  <2>1. Length(st.year, st.mon) \in Int
    BY DEF Length
  <2> QED BY <2>1 DEF Date
<1>2. PICK first : first = Before[MonthNumber(y, m)]
  OBVIOUS
<1>3. first \in Int /\ Length(y, m) \in 28..31
  BY <1>2, MonthBegins
<1>4. d \in 1..Length(y, m) /\ day = first + d - 1
  BY <1>1, <1>2 DEF Date
<1>6. y \in Nat
  BY YearsAssumption
<1>7. CASE d > 1
  <2>1. DayBefore(st) = first + (d - 1) - 1
    BY <1>1, <1>2, <1>7 DEF DayBefore, mktime
  <2> QED BY <1>3, <1>4, <2>1
<1>8. CASE d = 1 /\ m > 0
  <2>1. m - 1 \in 0..11 /\ MonthNumber(y, m - 1) + 1 = MonthNumber(y, m)
    BY <1>6, <1>8, YearsAssumption DEF MonthNumber
  <2>2. PICK earlier \in Int : /\ earlier = Before[MonthNumber(y, m - 1)]
                               /\ first = earlier + Length(y, m - 1) /\ Length(y, m - 1) \in Int
    BY <1>2, <2>1, MonthBegins
  <2>3. DM(m - 1, February(st)) = Length(y, m - 1)
    BY <1>1, <1>8 DEF DM, Length
  <2>4. DayBefore(st) = earlier + Length(y, m - 1) - 1
    BY <1>1, <1>8, <2>2, <2>3 DEF DayBefore, mktime
  <2> QED BY <1>4, <1>8, <2>2, <2>4
<1>9. CASE d = 1 /\ m = 0
  <2>1. y # FirstYear
    <3>1. y = FirstYear => MonthNumber(y, m) = 0
      BY <1>9, YearsAssumption DEF MonthNumber
    <3> QED BY <3>1, <1>2, <1>4, <1>9, BeforeSteps
  <2>2. y - 1 \in FirstYear..LastYear /\ MonthNumber(y - 1, 11) + 1 = MonthNumber(y, m)
    BY <1>6, <1>9, <2>1, YearsAssumption DEF MonthNumber
  <2>3. PICK earlier \in Int : /\ earlier = Before[MonthNumber(y - 1, 11)]
                               /\ first = earlier + Length(y - 1, 11)
    BY <1>2, <2>2, MonthBegins
  <2>4. DM(11, February(st)) = 31 /\ Length(y - 1, 11) = 31
    BY DEF DM, Length
  <2>5. DayBefore(st) = earlier + 31 - 1
    BY <1>1, <1>9, <2>3, <2>4 DEF DayBefore, mktime
  <2> QED BY <1>4, <1>9, <2>3, <2>4, <2>5
<1> QED BY <1>4, <1>7, <1>8, <1>9

LEMMA DeltaAdded ==
  ASSUME NEW day \in Int, NEW d \in Int, NEW time, time = Plus(day, 0, d)
  PROVE  DayMinutes * time.day + time.minute - d = DayMinutes * day
<1>1. PICK q \in Int, r \in Int : q = (0 + d) \div DayMinutes /\ r = (0 + d) % DayMinutes
  BY DEF DayMinutes
<1>2. 1440 * q + r = d
  BY <1>1 DEF DayMinutes
<1>3. time.day = day + q /\ time.minute = r
  BY <1>1 DEF Plus
<1>4. 1440 * (day + q) + r - d = 1440 * day
  BY <1>2
<1>5. DayMinutes * time.day + time.minute - d = 1440 * (day + q) + r - d
  BY <1>3 DEF DayMinutes
<1> QED BY <1>4, <1>5 DEF DayMinutes

\* The session begins with the table as it is compiled (dcltime.c:31), on any day but the first of the
\* calendar; the fields of a date are what is written.
Fields == UNION {[F -> Int] : F \in SUBSET {"year", "mon", "mday", "minute"}}
TimeInit == DM1 = 28 /\ today \in Days \ {0} /\ clock \in Clocks
TimeNext == Now \/ Today \/ Yesterday \/ Tomorrow \/ (\E fields \in Fields : Absolute(fields)) \/ NextDay
TimeSpec == TimeInit /\ [][TimeNext]_timeVars

TimeInv == DM1 \in Nat /\ DM1 >= 28 /\ today \in Days \ {0}

LEMMA DaysAreNumbers == Days \subseteq Nat
<1>1. LastMonth \in Nat
  BY YearsAssumption DEF LastMonth
<1>2. Before[LastMonth] \in Int
  BY <1>1, BeforeType
<1> QED BY <1>2 DEF Days, LastMonth

LEMMA TimeInvNext ==
  ASSUME TimeInv, TimeNext
  PROVE  TimeInv'
<1>1. CASE \E text, day, minute, february :
             Read(text, day, minute, february) /\ february \in {DM1, February(localtime(today))}
  <2>1. February(localtime(today)) \in {DM1, DM1 + 1}
    BY DEF February
  <2> QED BY <1>1, <2>1 DEF Read, TimeInv
<1>2. CASE NextDay
  BY <1>2, DaysAreNumbers DEF NextDay, TimeInv
<1> QED BY <1>1, <1>2 DEF TimeNext, Now, Today, Yesterday, Tomorrow, Absolute

NamesDay ==
  reads' # reads =>
    /\ said' = "TODAY" => DayNamed(today)'
    /\ said' = "TOMORROW" => DayNamed(today + 1)'
    /\ said' = "YESTERDAY" =>
         LET st == localtime(today)
         IN DayNamed(today - 1)' \/ (st.mon = 2 /\ st.mday = 1 /\ ~FebruaryKept(st)')

LEMMA ReadNames ==
  ASSUME NEW text, NEW day \in Int, NEW february, Read(text, day, 0, february)
  PROVE  said' = text /\ DM1' = february /\ today' = today
         /\ DayMinutes * ttime'.day + ttime'.minute - delta' = DayMinutes * day
BY DeltaAdded, DeltasAssumption DEF Read

LEMMA DayIsNamed ==
  ASSUME TimeInv, TimeNext
  PROVE  NamesDay
<1> DEFINE st == localtime(today)
<1>1. today \in Int /\ today > 0 /\ Date(st, today)
  BY DateFound, DaysAreNumbers DEF TimeInv
<1>2. CASE Now \/ (\E fields \in Fields : Absolute(fields))
  <2>1. said' \in {"NOW", "ABSOLUTE"}
    BY <1>2 DEF Now, Absolute, Read
  <2> QED BY <2>1 DEF NamesDay
<1>3. CASE Today
  <2>1. said' = "TODAY" /\ today' = today
        /\ DayMinutes * ttime'.day + ttime'.minute - delta' = DayMinutes * today
    BY <1>1, <1>3, ReadNames DEF Today
  <2> QED BY <2>1 DEF NamesDay, DayNamed
<1>4. CASE Tomorrow
  <2>1. DayAfter(st) = today + 1
    BY <1>1, DayAfterIsNext DEF TimeInv
  <2>2. /\ said' = "TOMORROW" /\ today' = today
        /\ DayMinutes * ttime'.day + ttime'.minute - delta' = DayMinutes * (today + 1)
    BY <1>1, <1>4, <2>1, ReadNames DEF Tomorrow
  <2> QED BY <2>2 DEF NamesDay, DayNamed
<1>5. CASE Yesterday /\ ~(st.mon = 2 /\ st.mday = 1 /\ February(st) # Length(st.year, 1))
  <2>1. DayBefore(st) = today - 1
    BY <1>1, <1>5, DayBeforeIsLast
  <2>2. /\ said' = "YESTERDAY" /\ today' = today
        /\ DayMinutes * ttime'.day + ttime'.minute - delta' = DayMinutes * (today - 1)
    BY <1>1, <1>5, <2>1, ReadNames DEF Yesterday
  <2> QED BY <2>2 DEF NamesDay, DayNamed
<1>6. CASE Yesterday /\ st.mon = 2 /\ st.mday = 1 /\ February(st) # Length(st.year, 1)
  <2>1. said' = "YESTERDAY" /\ today' = today /\ DM1' = February(st)
    BY <1>6 DEF Yesterday, Read
  <2>2. ~FebruaryKept(st)'
    BY <1>6, <2>1 DEF FebruaryKept
  <2> QED BY <1>6, <2>1, <2>2 DEF NamesDay
<1>7. CASE NextDay
  BY <1>7 DEF NextDay, NamesDay
<1> QED BY <1>2, <1>3, <1>4, <1>5, <1>6, <1>7 DEF TimeNext

\* TODAY, TOMORROW and YESTERDAY name their days (tm_str_to_long), whatever words were read before and
\* however many days have passed; only on the first of March may YESTERDAY be wrong, when the table
\* has not February's length.
THEOREM DayAlwaysNamed == TimeSpec => NamesItsDay
<1>1. TimeInit => TimeInv
  BY DEF TimeInit, TimeInv
<1>2. TimeInv /\ [TimeNext]_timeVars => TimeInv'
  BY TimeInvNext DEF TimeInv, timeVars
<1>3. TimeInv /\ [TimeNext]_timeVars => [NamesDay]_timeVars
  BY DayIsNamed
<1>4. NamesItsDay <=> [][NamesDay]_timeVars
  BY DEF NamesItsDay, NamesDay
<1> QED BY <1>1, <1>2, <1>3, <1>4, PTL DEF TimeSpec

(***************************************************************************)
(* Command lines.  Parsed takes the words one after the other: what it has *)
(* found is, at each of them, what the words before say.                   *)
(***************************************************************************)
LineTyped ==
  /\ words \in Seq(Word \cup Key) /\ rp \in Seq(SUBSET {"MANDATORY", "EXPR"})
  /\ SEVERITY \in Int /\ STATUS \in Int

LEMMA WordIs ==
  ASSUME LineTyped, NEW k \in DOMAIN words
  PROVE  /\ k \in Nat /\ k >= 1 /\ k <= Len(words)
         /\ IsKey(k) => words[k].matches \in SUBSET Qualifiers /\ IsFiniteSet(words[k].matches)
         /\ ~IsKey(k) => words[k].kind = "text" /\ words[k].text \in ParamTexts /\ words[k].equals \in BOOLEAN
<1>1. words[k] \in Word \cup Key /\ k \in 1..Len(words) /\ Len(words) \in Nat
  BY DEF LineTyped
<1>2. CASE words[k] \in Key
  <2>1. words[k].kind = "key" /\ words[k].matches \in SUBSET Qualifiers
    BY <1>2, KeysAssumption DEF Key
  <2> QED BY <1>1, <2>1, KeysAssumption, FS_Subset DEF IsKey
<1>3. CASE words[k] \in Word
  BY <1>1, <1>3 DEF Word, IsKey
<1> QED BY <1>1, <1>2, <1>3

\* The parameters among the first words.
PlainBefore(a) == {j \in Plain : j < a}

LEMMA PlainCounted ==
  ASSUME LineTyped, NEW a \in Nat
  PROVE  /\ IsFiniteSet(PlainBefore(a)) /\ Cardinality(PlainBefore(a)) \in Nat
         /\ a \notin Plain => PlainBefore(a + 1) = PlainBefore(a)
         /\ a \in Plain => Number(a) = Cardinality(PlainBefore(a)) + 1
                           /\ Cardinality(PlainBefore(a + 1)) = Number(a)
         /\ \A k \in PlainBefore(a) : Number(k) \in 1..Cardinality(PlainBefore(a))
<1>1. Plain \subseteq 1..Len(words) /\ Len(words) \in Nat /\ Plain \subseteq Nat
  BY DEF Plain, LineTyped
<1>2. IsFiniteSet(Plain)
  <2>1. IsFiniteSet(1..Len(words)) /\ Plain \in SUBSET (1..Len(words))
    BY <1>1, FS_Interval
  <2> QED BY <2>1, FS_Subset
<1>3. ASSUME NEW S \in SUBSET Plain PROVE IsFiniteSet(S) /\ Cardinality(S) \in Nat
  BY <1>2, FS_Subset, FS_CardinalityType
<1>4. ASSUME NEW k \in Plain
      PROVE  Number(k) = Cardinality(PlainBefore(k)) + 1
  <2>1. {j \in Plain : j <= k} = PlainBefore(k) \cup {k} /\ k \notin PlainBefore(k)
    <3>1. \A j \in Plain : j \in Nat
      BY <1>1
    <3>2. \A j \in Plain : j <= k <=> j \in PlainBefore(k) \cup {k}
      BY <1>4, <3>1 DEF PlainBefore
    <3>3. PlainBefore(k) \cup {k} \subseteq Plain /\ k \notin PlainBefore(k)
      BY <1>4, <3>1 DEF PlainBefore
    <3> QED BY <3>2, <3>3
  <2>2. IsFiniteSet(PlainBefore(k))
    BY <1>3 DEF PlainBefore
  <2>3. Cardinality(PlainBefore(k) \cup {k}) = Cardinality(PlainBefore(k)) + 1
    BY <2>1, <2>2, FS_AddElement
  <2> QED BY <2>1, <2>3 DEF Number
<1>5. PlainBefore(a) \in SUBSET Plain
  BY DEF PlainBefore
<1>9. /\ {j \in Plain : j < a + 1} = {j \in Plain : j <= a}
      /\ a \notin Plain => {j \in Plain : j < a + 1} = {j \in Plain : j < a}
  <2>1. \A j \in Plain : j \in Nat
    BY <1>1
  <2>2. \A j \in Plain : (j < a + 1 <=> j <= a) /\ (j <= a <=> j < a \/ j = a)
    BY <2>1
  <2>3. {j \in Plain : j < a + 1} = {j \in Plain : j <= a}
    BY <2>2
  <2>4. a \notin Plain => \A j \in Plain : j < a + 1 <=> j < a
    BY <2>2
  <2>5. a \notin Plain => {j \in Plain : j < a + 1} = {j \in Plain : j < a}
    BY <2>4
  <2> QED BY <2>3, <2>5
<1>6. a \notin Plain => PlainBefore(a + 1) = PlainBefore(a)
  BY <1>9, Zenon DEF PlainBefore
<1>7. a \in Plain => Cardinality(PlainBefore(a + 1)) = Number(a)
  <2>1. PlainBefore(a + 1) = {j \in Plain : j <= a}
    BY <1>9, Zenon DEF PlainBefore
  <2> QED BY <2>1 DEF Number
<1>8. ASSUME NEW k \in PlainBefore(a) PROVE Number(k) \in 1..Cardinality(PlainBefore(a))
  <2>1. k \in Plain /\ k < a /\ k \in Nat
    BY <1>1 DEF PlainBefore
  <2>2. {j \in Plain : j <= k} \subseteq PlainBefore(a) /\ PlainBefore(k) \in SUBSET Plain
    <3>1. \A j \in Plain : j <= k => j < a
      BY <1>1, <2>1
    <3> QED BY <3>1 DEF PlainBefore
  <2>3. Cardinality({j \in Plain : j <= k}) <= Cardinality(PlainBefore(a))
    BY <1>3, <1>5, <2>2, FS_Subset
  <2>4. Number(k) <= Cardinality(PlainBefore(a))
    BY <2>3 DEF Number
  <2>5. Number(k) = Cardinality(PlainBefore(k)) + 1 /\ Cardinality(PlainBefore(k)) \in Nat
    BY <1>3, <1>4, <2>1, <2>2
  <2> QED BY <1>3, <1>5, <2>4, <2>5
<1> QED BY <1>3, <1>4, <1>5, <1>6, <1>7, <1>8

(***************************************************************************)
(* What has been found in the words before st.at.                          *)
(***************************************************************************)
ParseState ==
  [at: 1..Len(words) + 1, p: 0..Len(rp), param: [DOMAIN rp -> ParamTexts],
   qual: [Qualifiers -> ParamTexts \cup {Absent}], end: {"none", "error", "extraneous", "expression"},
   SEVERITY: Int, STATUS: Int]

Valued(k, q) == IsValue(k) /\ words[k - 1].matches = {q}
Given(k, q) == IsKey(k) /\ words[k].matches = {q}
Found(a, n, values, quals) ==
  /\ \A j \in DOMAIN words : j < a => Counts(j)
  /\ \A j \in DOMAIN words : j < a /\ IsKey(j) => Cardinality(words[j].matches) = 1
  /\ n = Cardinality(PlainBefore(a))
  /\ \A k \in PlainBefore(a) : Number(k) \in DOMAIN rp /\ values[Number(k)] = words[k].text
  /\ \A q \in Qualifiers : quals[q] = Absent <=> ~\E k \in DOMAIN words : k < a /\ Given(k, q)
  /\ \A q \in Qualifiers, k \in DOMAIN words :
       k < a /\ Valued(k, q) /\ (\A j \in DOMAIN words : k < j /\ j < a => ~Valued(j, q))
       => quals[q] = words[k].text
  /\ a \in DOMAIN words => ~IsValue(a)
\* No word from a on counts, but for a parameter too many.
NoneLeft(a) ==
  \A k \in DOMAIN words : Counts(k) => k < a \/ (k \in Plain /\ Number(k) > Len(rp))
ParseInv(st) ==
  /\ st \in ParseState
  /\ st.end = "error" => Wrong
  /\ st.end # "error" => Found(st.at, st.p, st.param, st.qual)
  /\ st.end = "none" => \A j \in DOMAIN words : j < st.at => ~Ends(j)
  /\ st.end \in {"extraneous", "expression"} => NoneLeft(st.at)

LEMMA ParsingStarts ==
  ASSUME LineTyped
  PROVE  ParseInv(Parsing) /\ Parsing.at = 1
<1>1. Len(words) \in Nat /\ DOMAIN words = 1..Len(words) /\ Len(rp) \in Nat /\ DOMAIN rp = 1..Len(rp)
  BY DEF LineTyped
<1>2. Parsing \in ParseState
  BY <1>1, TextsAssumption DEF Parsing, ParseState, LineTyped
<1>3. Plain \subseteq DOMAIN words
  BY DEF Plain
<1>4. PlainBefore(1) = {} /\ Cardinality({}) = 0
  BY <1>1, <1>3, FS_EmptySet DEF PlainBefore
<1>5. 1 \in DOMAIN words => ~IsValue(1)
  BY DEF IsValue
<1>6. PICK st : st = Parsing
  OBVIOUS
<1>7. st.at = 1 /\ st.p = 0 /\ st.end = "none" /\ st.qual = [q \in Qualifiers |-> Absent]
  BY <1>6 DEF Parsing
<1>8. Found(1, 0, st.param, st.qual)
  <2>1. \A j \in DOMAIN words : ~(j < 1)
    BY <1>1
  <2>2. \A q \in Qualifiers : st.qual[q] = Absent
    BY <1>7
  <2>3. PlainBefore(1) = {} /\ Cardinality(PlainBefore(1)) = 0
    BY <1>4
  <2> QED BY <2>1, <2>2, <2>3, <1>5 DEF Found
<1> QED BY <1>1, <1>2, <1>6, <1>7, <1>8 DEF ParseInv

\* A qualifier, with the value that follows it.
LEMMA QualifierTaken ==
  ASSUME LineTyped, NEW st, ParseInv(st), st.end = "none", st.at \in DOMAIN words,
         NEW q \in Qualifiers, IsKey(st.at), words[st.at].matches = {q}
  PROVE  ParseInv(TakeQualifier(st, q)) /\ TakeQualifier(st, q).at > st.at
<1> DEFINE a == st.at
           valued == /\ q \in WithValue
                     /\ st.at + 1 \in DOMAIN words
                     /\ words[st.at + 1].kind = "text" /\ words[st.at + 1].equals
           new == TakeQualifier(st, q)
<1>20. Len(words) \in Nat /\ DOMAIN words = 1..Len(words)
  BY DEF LineTyped
<1>21. a \in 1..Len(words)
  BY <1>20
<1>22. st \in ParseState
  BY DEF ParseInv
<1>1. Len(words) \in Nat /\ DOMAIN words = 1..Len(words) /\ a \in 1..Len(words) /\ st \in ParseState
  BY <1>20, <1>21, <1>22
<1>2. valued <=> a + 1 \in DOMAIN words /\ IsValue(a + 1)
  <2>1. a + 1 \in DOMAIN words => (~IsKey(a + 1) <=> words[a + 1].kind = "text")
    BY WordIs DEF IsKey
  <2>2. a + 1 > 1 /\ (a + 1) - 1 = a
    BY <1>1
  <2> QED BY <2>1, <2>2, KeysAssumption DEF IsValue
<1>3. PICK b : b = a + (IF valued THEN 2 ELSE 1)
  OBVIOUS
<1>4. /\ new.at = b /\ new.p = st.p /\ new.param = st.param /\ new.end = "none"
      /\ new.qual = [st.qual EXCEPT ![q] = IF valued THEN words[a + 1].text
                                           ELSE IF st.qual[q] = Absent THEN Empty ELSE st.qual[q]]
      /\ new.SEVERITY = st.SEVERITY /\ new.STATUS = st.STATUS
  BY <1>1, <1>3 DEF TakeQualifier, ParseState
<1>5. b \in 1..Len(words) + 1 /\ b > a
  BY <1>1, <1>3
<1>6. \A j \in DOMAIN words : j < b => j < a \/ j = a \/ (j = a + 1 /\ IsValue(a + 1))
  BY <1>1, <1>2, <1>3
<1>7. a \notin Plain /\ (valued => a + 1 \notin Plain)
  BY <1>2 DEF Plain
<1>8. PlainBefore(b) = PlainBefore(a)
  <2>1. a \in Nat /\ a + 1 \in Nat /\ (a + 1) + 1 = a + 2
    BY <1>1
  <2>2. PlainBefore(a + 1) = PlainBefore(a)
    BY <1>7, <2>1, PlainCounted
  <2>3. valued => PlainBefore(a + 2) = PlainBefore(a + 1)
    BY <1>7, <2>1, PlainCounted
  <2> QED BY <1>3, <2>2, <2>3
<1>9. \A j \in DOMAIN words : j < b => ~Ends(j)
  <2>1. \A j \in DOMAIN words : j < a => ~Ends(j)
    BY DEF ParseInv
  <2> QED BY <1>2, <1>6, <1>7, <2>1 DEF Ends, Plain
<1>10. Found(a, st.p, st.param, st.qual)
  BY DEF ParseInv
<1> HIDE DEF valued, new
<1>11. \A j \in DOMAIN words : j < b => Counts(j)
  BY <1>1, <1>5, <1>9 DEF Counts
<1>12. \A j \in DOMAIN words : j < b /\ IsKey(j) => Cardinality(words[j].matches) = 1
  <2>1. Cardinality({q}) = 1
    BY FS_Singleton
  <2>2. IsValue(a + 1) => ~IsKey(a + 1)
    BY DEF IsValue
  <2> QED BY <1>6, <1>10, <2>1, <2>2 DEF Found
<1>13. ASSUME NEW r \in Qualifiers
       PROVE  new.qual[r] = Absent <=> ~\E k \in DOMAIN words : k < b /\ Given(k, r)
  <2>1. st.qual[r] = Absent <=> ~\E k \in DOMAIN words : k < a /\ Given(k, r)
    BY <1>10 DEF Found
  <2>2. IsValue(a + 1) => ~Given(a + 1, r)
    BY DEF IsValue, Given
  <2>3. CASE r = q
    <3>1. new.qual[r] # Absent
      <4>1. valued => words[a + 1].text \in ParamTexts
        BY <1>2, WordIs DEF IsValue
      <4>2. new.qual[r] = IF valued THEN words[a + 1].text
                          ELSE IF st.qual[q] = Absent THEN Empty ELSE st.qual[q]
        BY <1>1, <1>4, <2>3 DEF ParseState
      <4> QED BY <4>1, <4>2, TextsAssumption
    <3>2. a < b /\ Given(a, r)
      BY <1>5, <2>3 DEF Given
    <3> QED BY <3>1, <3>2
  <2>4. CASE r # q
    <3>1. new.qual[r] = st.qual[r]
      BY <1>1, <1>4, <2>4 DEF ParseState
    <3>2. ~Given(a, r)
      BY <2>4 DEF Given
    <3>3. \A k \in DOMAIN words : k < b /\ Given(k, r) => k < a
      BY <1>6, <2>2, <3>2
    <3>4. \A k \in DOMAIN words : k < a => k < b
      BY <1>1, <1>5
    <3> QED BY <2>1, <3>1, <3>3, <3>4
  <2> QED BY <2>3, <2>4
<1>14. ASSUME NEW r \in Qualifiers, NEW k \in DOMAIN words, k < b, Valued(k, r),
              \A j \in DOMAIN words : k < j /\ j < b => ~Valued(j, r)
       PROVE  new.qual[r] = words[k].text
  <2>1. k # a
    BY <1>14 DEF Valued, IsValue
  <2>2. CASE k = a + 1
    <3>1. r = q /\ valued
      <4>1. k - 1 = a /\ IsValue(a + 1) /\ words[a].matches = {r}
        <5>1. k - 1 = a
          BY <1>1, <2>2
        <5> QED BY <1>14, <2>2, <5>1 DEF Valued
      <4> QED BY <1>2, <1>14, <2>2, <4>1
    <3> QED BY <1>1, <1>4, <2>2, <3>1 DEF ParseState
  <2>3. CASE k < a
    <3>1. st.qual[r] = words[k].text
      <4>1. \A j \in DOMAIN words : k < j /\ j < a => ~Valued(j, r)
        BY <1>1, <1>5, <1>14
      <4> QED BY <1>10, <1>14, <2>3, <4>1 DEF Found
    <3>2. st.qual[r] # Absent
      <4>1. words[k].text \in ParamTexts
        BY <1>14, WordIs DEF Valued, IsValue
      <4> QED BY <3>1, <4>1, TextsAssumption
    <3>3. r = q => ~valued
      <4>1. r = q /\ valued => a + 1 \in DOMAIN words /\ Valued(a + 1, r) /\ a + 1 < b /\ k < a + 1
        BY <1>1, <1>2, <1>3, <2>3 DEF Valued
      <4> QED BY <1>14, <4>1
    <3> QED BY <1>1, <1>4, <3>1, <3>2, <3>3 DEF ParseState
  <2> QED BY <1>6, <1>14, <2>1, <2>2, <2>3
<1>15. b \in DOMAIN words => ~IsValue(b)
  <2>1. CASE valued
    <3>1. b > 1 /\ b - 1 = a + 1 /\ ~IsKey(a + 1)
      BY <1>1, <1>2, <1>3, <2>1 DEF IsValue
    <3> QED BY <3>1 DEF IsValue
  <2>2. CASE ~valued
    BY <1>1, <1>2, <1>3, <2>2
  <2> QED BY <2>1, <2>2
<1>16. Found(b, st.p, new.param, new.qual)
  <2>1. st.p = Cardinality(PlainBefore(b))
    BY <1>8, <1>10 DEF Found
  <2>2. \A k \in PlainBefore(b) : Number(k) \in DOMAIN rp /\ new.param[Number(k)] = words[k].text
    BY <1>4, <1>8, <1>10 DEF Found
  <2> QED BY <1>11, <1>12, <1>13, <1>14, <1>15, <2>1, <2>2 DEF Found
<1>17. new \in ParseState
  <2>1. valued => words[a + 1].text \in ParamTexts
    BY <1>2, WordIs DEF IsValue
  <2>2. new = [st EXCEPT !.at = b, !.qual = new.qual]
    BY <1>1, <1>3, <1>4 DEF new, valued, TakeQualifier, ParseState
  <2>3. new.qual \in [Qualifiers -> ParamTexts \cup {Absent}]
    BY <1>1, <1>4, <2>1, TextsAssumption DEF ParseState
  <2> QED BY <1>1, <1>5, <2>2, <2>3 DEF ParseState
<1>18. ParseInv(new)
  BY <1>4, <1>9, <1>16, <1>17 DEF ParseInv
<1> QED BY <1>4, <1>5, <1>18 DEF new

LEMMA StoppedTyped ==
  ASSUME NEW st \in ParseState, NEW why \in {"error", "extraneous"}, NEW severity \in Int
  PROVE  Stop(st, why, severity) \in ParseState /\ Stop(st, why, severity).end = why
<1>1. PICK status \in Int : status = 19
  OBVIOUS
<1>2. PICK new : new = [st EXCEPT !.end = why, !.SEVERITY = severity, !.STATUS = status]
  OBVIOUS
<1>3. new = Stop(st, why, severity)
  BY <1>1, <1>2 DEF Stop
<1>4. why \in {"none", "error", "extraneous", "expression"}
  OBVIOUS
<1>5. new \in ParseState
  BY <1>1, <1>2, <1>4 DEF ParseState
<1>6. new.end = why
  BY <1>2 DEF ParseState
<1> QED BY <1>3, <1>5, <1>6

\* A parameter, an expression among them, or one too many.
LEMMA TextTaken ==
  ASSUME LineTyped, NEW st, ParseInv(st), st.end = "none", st.at \in DOMAIN words, ~IsKey(st.at)
  PROVE  LET new == TakeText(st, words[st.at])
         IN  ParseInv(new) /\ (new.end = "none" => new.at > st.at)
<1>1. PICK a : a = st.at
  OBVIOUS
<1>2. Len(words) \in Nat /\ DOMAIN words = 1..Len(words) /\ Len(rp) \in Nat /\ DOMAIN rp = 1..Len(rp)
  BY DEF LineTyped
<1>3. a \in 1..Len(words) /\ st \in ParseState /\ st.p \in 0..Len(rp)
  BY <1>1, <1>2 DEF ParseInv, ParseState
<1>4. Found(a, st.p, st.param, st.qual) /\ \A j \in DOMAIN words : j < a => ~Ends(j)
  BY <1>1 DEF ParseInv
<1>5. a \in DOMAIN words /\ a \in Plain
  BY <1>1, <1>4 DEF Found, Plain
<1>6. /\ Number(a) = st.p + 1 /\ Cardinality(PlainBefore(a + 1)) = st.p + 1
      /\ \A k \in PlainBefore(a) : Number(k) \in 1..st.p
      /\ a + 1 \in Nat /\ a \in Nat
  <2>1. a \in Nat /\ a + 1 \in Nat
    BY <1>3
  <2>2. st.p = Cardinality(PlainBefore(a))
    BY <1>4 DEF Found
  <2> QED BY <1>5, <2>1, <2>2, PlainCounted
<1>7. Counts(a)
  BY <1>4 DEF Counts
<1>8. PICK new : new = TakeText(st, words[a])
  OBVIOUS
<1>9. CASE st.p = Len(rp)
  <2>1. new = [st EXCEPT !.end = "extraneous", !.SEVERITY = 1, !.STATUS = 19]
    BY <1>8, <1>9 DEF TakeText, Stop
  <2>2. new.end = "extraneous" /\ new.at = a /\ new.p = st.p /\ new.param = st.param /\ new.qual = st.qual
    BY <1>1, <1>3, <2>1 DEF ParseState
  <2>3. new \in ParseState
    <3>1. new = Stop(st, "extraneous", 1)
      BY <2>1 DEF Stop
    <3> QED BY <1>3, <3>1, StoppedTyped
  <2>4. Ends(a) /\ Number(a) > Len(rp)
    BY <1>2, <1>5, <1>6, <1>9 DEF Ends
  <2>5. NoneLeft(a)
    <3>1. ASSUME NEW k \in DOMAIN words, Counts(k) PROVE k < a \/ k = a
      <4>1. ~(a < k)
        BY <1>5, <2>4, <3>1 DEF Counts
      <4> QED BY <1>2, <1>3, <4>1
    <3> QED BY <1>5, <2>4, <3>1 DEF NoneLeft
  <2> QED BY <1>1, <1>4, <1>8, <2>2, <2>3, <2>5 DEF ParseInv
<1>10. CASE st.p # Len(rp)
  <2> DEFINE n == st.p + 1
  <2>1. n \in DOMAIN rp /\ n \in 1..Len(rp) /\ n = Number(a)
    BY <1>2, <1>3, <1>6, <1>10
  <2>2. PICK end : end = IF "EXPR" \in rp[n] THEN "expression" ELSE "none"
    OBVIOUS
  <2>3. new = [st EXCEPT !.at = a + 1, !.p = n, !.param = [st.param EXCEPT ![n] = words[a].text], !.end = end]
    BY <1>1, <1>3, <1>8, <1>10, <2>2 DEF TakeText, ParseState
  <2> HIDE DEF n
  <2>4. /\ new.end = end /\ new.at = a + 1 /\ new.p = n /\ new.qual = st.qual
        /\ new.param = [st.param EXCEPT ![n] = words[a].text]
    BY <1>3, <2>3 DEF ParseState
  <2>5. words[a].text \in ParamTexts
    BY <1>1, <1>5, WordIs
  <2>6. new \in ParseState
    <3>1. new.param \in [DOMAIN rp -> ParamTexts]
      BY <1>3, <2>4, <2>5 DEF ParseState
    <3>2. a + 1 \in 1..Len(words) + 1 /\ n \in 0..Len(rp)
      BY <1>2, <1>3, <2>1
    <3>3. end \in {"none", "error", "extraneous", "expression"}
      BY <2>2
    <3> QED BY <1>3, <2>3, <2>4, <3>1, <3>2, <3>3 DEF ParseState
  <2>7. \A j \in DOMAIN words : j < a + 1 => j < a \/ j = a
    BY <1>2, <1>3
  <2>8. \A j \in DOMAIN words : j < a => j < a + 1
    BY <1>2, <1>3
  <2>9. Found(a + 1, n, new.param, new.qual)
    <3>1. \A j \in DOMAIN words : j < a + 1 => Counts(j)
      BY <1>4, <1>7, <2>7 DEF Found
    <3>2. \A j \in DOMAIN words : j < a + 1 /\ IsKey(j) => Cardinality(words[j].matches) = 1
      BY <1>1, <1>4, <2>7 DEF Found
    <3>3. n = Cardinality(PlainBefore(a + 1))
      BY <1>6, <2>1
    <3>4. ASSUME NEW k \in PlainBefore(a + 1)
          PROVE  Number(k) \in DOMAIN rp /\ new.param[Number(k)] = words[k].text
      <4>1. k \in Plain /\ k < a + 1 /\ k \in DOMAIN words
        BY DEF PlainBefore, Plain
      <4>2. CASE k = a
        BY <1>3, <2>1, <2>4, <4>2 DEF ParseState
      <4>3. CASE k < a
        <5>1. k \in PlainBefore(a)
          BY <4>1, <4>3 DEF PlainBefore
        <5>2. Number(k) \in DOMAIN rp /\ st.param[Number(k)] = words[k].text
          BY <1>4, <5>1 DEF Found
        <5>3. Number(k) # n
          BY <1>3, <1>6, <2>1, <5>1
        <5> QED BY <1>3, <2>4, <5>2, <5>3 DEF ParseState
      <4> QED BY <2>7, <4>1, <4>2, <4>3
    <3>5. ASSUME NEW q \in Qualifiers
          PROVE  new.qual[q] = Absent <=> ~\E k \in DOMAIN words : k < a + 1 /\ Given(k, q)
      <4>1. st.qual[q] = Absent <=> ~\E k \in DOMAIN words : k < a /\ Given(k, q)
        BY <1>4 DEF Found
      <4>2. ~Given(a, q)
        BY <1>1 DEF Given
      <4> QED BY <2>4, <2>7, <2>8, <4>1, <4>2
    <3>6. ASSUME NEW q \in Qualifiers, NEW k \in DOMAIN words, k < a + 1, Valued(k, q),
                 \A j \in DOMAIN words : k < j /\ j < a + 1 => ~Valued(j, q)
          PROVE  new.qual[q] = words[k].text
      <4>1. k # a
        BY <1>5, <3>6 DEF Plain, Valued
      <4>2. k < a
        BY <2>7, <3>6, <4>1
      <4>3. \A j \in DOMAIN words : k < j /\ j < a => ~Valued(j, q)
        BY <2>8, <3>6
      <4> QED BY <1>4, <2>4, <3>6, <4>2, <4>3 DEF Found
    <3>7. ~IsValue(a + 1)
      <4>1. (a + 1) - 1 = a /\ ~IsKey(a)
        BY <1>1, <1>6
      <4> QED BY <4>1 DEF IsValue
    <3> QED BY <3>1, <3>2, <3>3, <3>4, <3>5, <3>6, <3>7 DEF Found
  <2>10. CASE "EXPR" \in rp[n]
    <3>1. Ends(a)
      BY <1>5, <2>1, <2>10 DEF Ends
    <3>2. NoneLeft(a + 1)
      <4>1. ASSUME NEW k \in DOMAIN words, Counts(k) PROVE k < a + 1
        <5>1. ~(a < k)
          BY <1>5, <3>1, <4>1 DEF Counts
        <5> QED BY <1>2, <1>3, <5>1
      <4> QED BY <4>1 DEF NoneLeft
    <3> QED BY <1>1, <1>8, <2>2, <2>4, <2>6, <2>9, <2>10, <3>2 DEF ParseInv
  <2>11. CASE "EXPR" \notin rp[n]
    <3>1. ~Ends(a)
      BY <1>2, <2>1, <2>11 DEF Ends
    <3>2. \A j \in DOMAIN words : j < a + 1 => ~Ends(j)
      BY <1>4, <2>7, <3>1
    <3>3. a + 1 > a
      BY <1>6
    <3> QED BY <1>1, <1>8, <2>2, <2>4, <2>6, <2>9, <2>11, <3>2, <3>3 DEF ParseInv
  <2> QED BY <2>10, <2>11
<1> QED BY <1>9, <1>10

LEMMA WordTaken ==
  ASSUME LineTyped, NEW st, ParseInv(st), st.end = "none", st.at \in DOMAIN words
  PROVE  ParseInv(Take(st)) /\ (Take(st).end = "none" => Take(st).at > st.at)
<1>1. CASE ~IsKey(st.at)
  BY <1>1, TextTaken DEF Take, IsKey
<1>2. CASE IsKey(st.at) /\ Cardinality(words[st.at].matches) = 1
  <2>1. PICK matches \in SUBSET Qualifiers : matches = words[st.at].matches /\ IsFiniteSet(matches)
    BY <1>2, WordIs
  <2>2. PICK q : matches = {q}
    BY <1>2, <2>1, FS_Singleton
  <2>3. q \in Qualifiers /\ (CHOOSE r \in matches : TRUE) = q
    BY <2>1, <2>2
  <2>4. Take(st) = TakeQualifier(st, q)
    BY <1>2, <2>1, <2>3 DEF Take, TakeKey, IsKey
  <2> QED BY <1>2, <2>1, <2>2, <2>3, <2>4, QualifierTaken
<1>3. CASE IsKey(st.at) /\ Cardinality(words[st.at].matches) # 1
  <2>1. PICK new : new = Take(st)
    OBVIOUS
  <2>2. new = Stop(st, "error", 2)
    BY <1>3, <2>1 DEF Take, TakeKey, IsKey
  <2>3. new \in ParseState /\ new.end = "error"
    <3>1. st \in ParseState
      BY DEF ParseInv
    <3> QED BY <2>2, <3>1, StoppedTyped
  <2>4. Wrong
    <3>1. Counts(st.at)
      BY DEF ParseInv, Counts
    <3> QED BY <1>3, <3>1 DEF Wrong
  <2> QED BY <2>1, <2>3, <2>4 DEF ParseInv
<1> QED BY <1>1, <1>2, <1>3

(***************************************************************************)
(* The walk from word to word.  A function that satisfies the equation of  *)
(* Parsed on a longer and longer beginning of the numbers exists.          *)
(***************************************************************************)
Going(st) == IF st.end # "none" \/ st.at \notin DOMAIN words THEN st ELSE Take(st)
Walk(f, n) == f = [k \in 0..n |-> IF k = 0 THEN Parsing ELSE Going(f[k - 1])]

LEMMA WalkExists ==
  ASSUME NEW n \in Nat
  PROVE  \E f : Walk(f, n)
<1> DEFINE T == {m \in Nat : ~\E f : Walk(f, m)}
<1> SUFFICES ASSUME T # {} PROVE FALSE
  OBVIOUS
<1>1. PICK m \in T : \A k \in T : m <= k
  BY LeastNumber
<1>2. CASE m = 0
  <2> DEFINE f == [k \in 0..0 |-> Parsing]
  <2>1. Walk(f, 0)
    <3>1. \A k \in 0..0 : k = 0
      OBVIOUS
    <3> QED BY <3>1 DEF Walk
  <2> QED BY <1>2, <2>1
<1>3. CASE m # 0
  <2>1. m - 1 \in Nat /\ m - 1 \notin T
    BY <1>1, <1>3
  <2>2. PICK f : Walk(f, m - 1)
    BY <2>1
  <2> DEFINE g == [k \in 0..m |-> IF k = m THEN Going(f[m - 1]) ELSE f[k]]
             h == [k \in 0..m |-> IF k = 0 THEN Parsing ELSE Going(g[k - 1])]
  <2>3. \A k \in 0..m - 1 : f[k] = IF k = 0 THEN Parsing ELSE Going(f[k - 1])
    BY <2>2 DEF Walk
  <2>4. \A k \in 0..m : g[k] = h[k]
    <3> SUFFICES ASSUME NEW k \in 0..m PROVE g[k] = h[k]
      OBVIOUS
    <3>1. CASE k = m
      <4>1. m - 1 \in 0..m /\ g[m - 1] = f[m - 1]
        BY <1>3, <2>1
      <4> QED BY <1>3, <3>1, <4>1
    <3>2. CASE k # m /\ k # 0
      <4>1. k \in 0..m - 1 /\ k - 1 \in 0..m /\ k - 1 # m
        BY <2>1, <3>2
      <4> QED BY <2>3, <3>2, <4>1
    <3>3. CASE k = 0
      BY <1>3, <2>1, <2>3, <3>3
    <3> QED BY <3>1, <3>2, <3>3
  <2>5. g = h
    BY <2>4
  <2>6. Walk(g, m)
    BY <2>5 DEF Walk
  <2> QED BY <2>6
<1> QED BY <1>2, <1>3

LEMMA LineParsed ==
  ASSUME LineTyped
  PROVE  ParseInv(Parsed) /\ (Parsed.end = "none" => Parsed.at \notin DOMAIN words)
<1>1. PICK n \in Nat : n = Len(words) /\ DOMAIN words = 1..n
  BY DEF LineTyped
<1> DEFINE after == CHOOSE f : Walk(f, n)
<1>2. Parsed = after[n]
  BY <1>1 DEF Parsed, Walk, Going
<1>3. Walk(after, n)
  BY WalkExists
<1> HIDE DEF after
<1>4. \A k \in 0..n : after[k] = IF k = 0 THEN Parsing ELSE Going(after[k - 1])
  BY <1>3 DEF Walk
<1> DEFINE Fine(k) == ParseInv(after[k]) /\ (after[k].end = "none" => after[k].at > k)
           T == {k \in 0..n : ~Fine(k)}
<1>5. T = {}
  <2> SUFFICES ASSUME T # {} PROVE FALSE
    OBVIOUS
  <2>1. T \subseteq Nat
    OBVIOUS
  <2>2. PICK k \in T : \A j \in T : k <= j
    BY <2>1, LeastNumber
  <2>3. k # 0
    <3>1. after[0] = Parsing
      BY <1>4
    <3>2. Fine(0)
      BY <3>1, ParsingStarts
    <3> QED BY <3>2
  <2>4. k - 1 \in 0..n /\ k \in 0..n /\ k - 1 \notin T
    BY <2>2, <2>3
  <2>5. PICK st : st = after[k - 1] /\ after[k] = Going(st)
    BY <1>4, <2>3, <2>4
  <2>6. ParseInv(st) /\ (st.end = "none" => st.at > k - 1)
    BY <2>4, <2>5
  <2>7. st.at \in 1..n + 1
    BY <1>1, <2>6 DEF ParseInv, ParseState
  <2>8. CASE st.end # "none" \/ st.at \notin DOMAIN words
    <3>1. after[k] = st
      BY <2>5, <2>8 DEF Going
    <3>2. st.end = "none" => st.at > k
      BY <1>1, <2>4, <2>7, <2>8
    <3> QED BY <2>6, <3>1, <3>2
  <2>9. CASE st.end = "none" /\ st.at \in DOMAIN words
    <3>1. after[k] = Take(st)
      BY <2>5, <2>9 DEF Going
    <3>2. ParseInv(Take(st)) /\ (Take(st).end = "none" => Take(st).at > st.at)
      BY <2>6, <2>9, WordTaken
    <3>3. Take(st).at \in 1..n + 1
      BY <1>1, <3>2 DEF ParseInv, ParseState
    <3>4. Fine(k)
      BY <2>4, <2>6, <2>7, <2>9, <3>1, <3>2, <3>3
    <3> QED BY <3>4
  <2> QED BY <2>8, <2>9
<1>6. Fine(n)
  BY <1>5
<1>7. Parsed.at \in 1..n + 1
  BY <1>1, <1>2, <1>6 DEF ParseInv, ParseState
<1> QED BY <1>1, <1>2, <1>6, <1>7

(***************************************************************************)
(* From the line to the command.                                           *)
(***************************************************************************)
Understood(values, quals) ==
  /\ \A k \in Plain : Counts(k) /\ Number(k) <= Len(rp) /\ words[k].text # Empty =>
                       values[Number(k)] = words[k].text
  /\ \A q \in Qualifiers :
       LET given == {k \in DOMAIN words : IsValue(k) /\ Names(k - 1, q)}
       IN /\ quals[q] = Absent <=> ~\E k \in DOMAIN words : Names(k, q)
          /\ \A k \in given : (\A j \in given : j <= k) => quals[q] = words[k].text

LEMMA ParsedIsUnderstood ==
  ASSUME LineTyped
  PROVE  /\ Parsed \in ParseState
         /\ Parsed.end = "error" <=> Wrong
         /\ ~Wrong => Understood(Parsed.param, Parsed.qual)
<1>1. PICK st : st = Parsed
  OBVIOUS
<1>2. ParseInv(st) /\ (st.end = "none" => st.at \notin DOMAIN words)
  BY <1>1, LineParsed
<1>3. Len(words) \in Nat /\ DOMAIN words = 1..Len(words) /\ Len(rp) \in Nat /\ DOMAIN rp = 1..Len(rp)
  BY DEF LineTyped
<1>4. PICK a \in 1..Len(words) + 1 : a = st.at
  BY <1>2 DEF ParseInv, ParseState
<1>5. ASSUME st.end # "error" PROVE ~Wrong /\ Understood(st.param, st.qual)
  <2>1. Found(a, st.p, st.param, st.qual)
    BY <1>2, <1>4, <1>5 DEF ParseInv
  <2>2. NoneLeft(a)
    <3>1. CASE st.end = "none"
      <4>1. \A k \in DOMAIN words : k < a
        BY <1>2, <1>3, <1>4, <3>1
      <4> QED BY <4>1 DEF NoneLeft
    <3>2. CASE st.end # "none"
      <4>1. st.end \in {"extraneous", "expression"}
        BY <1>2, <1>5, <3>2 DEF ParseInv, ParseState
      <4> QED BY <1>2, <1>4, <4>1 DEF ParseInv
    <3> QED BY <3>1, <3>2
  <2>3. \A k \in DOMAIN words : k < a => Counts(k)
    BY <2>1 DEF Found
  <2>4. \A k \in DOMAIN words : Counts(k) /\ IsKey(k) => k < a
    BY <2>2 DEF NoneLeft, Plain
  <2>5. ~Wrong
    BY <2>1, <2>4 DEF Wrong, Found
  <2>6. ASSUME NEW k \in Plain, Counts(k), Number(k) <= Len(rp)
        PROVE  st.param[Number(k)] = words[k].text
    <3>1. k \in Nat /\ k \in DOMAIN words
      BY <1>3 DEF Plain
    <3>2. Number(k) \in Nat
      BY <3>1, PlainCounted
    <3>3. k \in PlainBefore(a)
      BY <1>3, <2>2, <2>6, <3>1, <3>2 DEF NoneLeft, PlainBefore
    <3> QED BY <2>1, <3>3 DEF Found
  <2>7. ASSUME NEW q \in Qualifiers
        PROVE  \A k \in DOMAIN words : Names(k, q) <=> k < a /\ Given(k, q)
    BY <2>3, <2>4 DEF Names, Given
  <2>8. ASSUME NEW q \in Qualifiers
        PROVE  st.qual[q] = Absent <=> ~\E k \in DOMAIN words : Names(k, q)
    BY <2>1, <2>7 DEF Found
  <2>9. ASSUME NEW q \in Qualifiers, NEW k \in DOMAIN words
        PROVE  IsValue(k) /\ Names(k - 1, q) <=> k < a /\ Valued(k, q)
    <3>1. CASE IsValue(k) /\ Names(k - 1, q)
      <4>1. k - 1 \in DOMAIN words /\ k - 1 < a /\ words[k - 1].matches = {q}
        BY <2>7, <3>1 DEF Names
      <4>2. k # a
        BY <2>1, <3>1 DEF Found
      <4> QED BY <1>3, <1>4, <3>1, <4>1, <4>2 DEF Valued
    <3>2. CASE k < a /\ Valued(k, q)
      <4>1. IsValue(k) /\ k > 1 /\ IsKey(k - 1) /\ words[k - 1].matches = {q}
        BY <3>2 DEF Valued, IsValue
      <4>2. k - 1 \in DOMAIN words /\ k - 1 < a
        BY <1>3, <1>4, <3>2, <4>1
      <4>3. Counts(k - 1)
        BY <2>3, <4>2
      <4> QED BY <3>2, <4>1, <4>2, <4>3 DEF Names
    <3> QED BY <3>1, <3>2
  <2>10. ASSUME NEW q \in Qualifiers, NEW k \in DOMAIN words, IsValue(k), Names(k - 1, q),
                \A j \in DOMAIN words : IsValue(j) /\ Names(j - 1, q) => j <= k
         PROVE  st.qual[q] = words[k].text
    <3>1. k < a /\ Valued(k, q)
      BY <2>9, <2>10
    <3>2. \A j \in DOMAIN words : k < j /\ j < a => ~Valued(j, q)
      <4> SUFFICES ASSUME NEW j \in DOMAIN words, k < j, j < a, Valued(j, q) PROVE FALSE
        OBVIOUS
      <4>1. j <= k
        BY <2>9, <2>10
      <4> QED BY <1>3, <4>1
    <3> QED BY <2>1, <3>1, <3>2 DEF Found
  <2> QED BY <2>5, <2>6, <2>8, <2>10 DEF Understood
<1>6. st.end = "error" => Wrong
  BY <1>2 DEF ParseInv
<1> QED BY <1>1, <1>2, <1>5, <1>6 DEF ParseInv

\* A command is looked at with the table of its parameters; the line is typed, then parsed.
LineInit ==
  /\ phase = "line" /\ words = << >> /\ p = 0 /\ param = << >> /\ qual = << >>
  /\ rp \in Tables /\ terminal \in BOOLEAN
  /\ retcod = "DCL_OK" /\ SEVERITY = 0 /\ STATUS = 0
LineNext ==
  \/ \E w \in Word \cup Key : Type(w)
  \/ Parse
  \/ \E t \in ParamTexts : Answer(t)
  \/ GiveUp
LineSpec == LineInit /\ [][LineNext]_lineVars

ParameterInv ==
  phase # "line" =>
    /\ phase \in {"prompt", "done"} /\ param \in [DOMAIN rp -> ParamTexts]
    /\ phase = "prompt" => Missing(param) # {}
    /\ phase = "done" /\ retcod = "DCL_OK" => Missing(param) = {}
    /\ Wrong => phase = "done" /\ retcod = "DCL_ERROR"
    /\ ~Wrong => Understood(param, qual)
CommandInv == LineTyped /\ ParameterInv

LEMMA ParseUnderstands ==
  ASSUME CommandInv, Parse
  PROVE  CommandInv'
<1>1. PICK st : st = Parsed
  OBVIOUS
<1>2. /\ st \in ParseState
      /\ st.end = "error" <=> Wrong
      /\ ~Wrong => Understood(st.param, st.qual)
  BY <1>1, ParsedIsUnderstood DEF CommandInv
<1>3. UNCHANGED <<rp, words>> /\ param' = st.param /\ qual' = st.qual
  BY <1>1 DEF Parse
<1>4. PICK missing : missing = (st.end # "error" /\ Missing(st.param) # {})
  OBVIOUS
<1>5. /\ phase' = (IF missing /\ terminal THEN "prompt" ELSE "done")
      /\ retcod' = (IF st.end = "error" \/ (missing /\ ~terminal) THEN "DCL_ERROR" ELSE "DCL_OK")
      /\ SEVERITY' \in {2, st.SEVERITY} /\ STATUS' \in {19, st.STATUS}
  BY <1>1, <1>4 DEF Parse
<1>6. (Wrong' <=> Wrong) /\ (Understood(st.param, st.qual)' <=> Understood(st.param, st.qual))
      /\ Missing(st.param)' = Missing(st.param)
  BY <1>3 DEF Wrong, Understood, Missing, Counts, Ends, Names, Number, Plain, IsKey, IsValue
<1>7. LineTyped'
  BY <1>2, <1>3, <1>5 DEF CommandInv, LineTyped, ParseState
<1>8. param' \in [DOMAIN rp' -> ParamTexts]
  BY <1>2, <1>3 DEF ParseState
<1>9. Missing(param)' = Missing(st.param) /\ (Understood(param, qual)' <=> Understood(st.param, st.qual))
  BY <1>3, <1>6 DEF Missing, Understood, Wrong, Counts, Ends, Names, Number, Plain, IsKey, IsValue
<1>10. ParameterInv'
  BY <1>2, <1>4, <1>5, <1>6, <1>8, <1>9 DEF ParameterInv
<1> QED BY <1>7, <1>10 DEF CommandInv

LEMMA AnswerUnderstood ==
  ASSUME CommandInv, NEW t \in ParamTexts, Answer(t)
  PROVE  CommandInv'
<1>1. /\ phase = "prompt" /\ UNCHANGED <<rp, words, terminal, p, qual, retcod, SEVERITY, STATUS>>
      /\ param' = [param EXCEPT ![Asked] = t]
      /\ phase' = IF Missing(param') = {} THEN "done" ELSE "prompt"
  BY DEF Answer
<1>2. param \in [DOMAIN rp -> ParamTexts] /\ Missing(param) # {} /\ ~Wrong /\ Understood(param, qual)
  BY <1>1 DEF CommandInv, ParameterInv
<1>3. Missing(param) \subseteq Nat
  BY DEF Missing, CommandInv, LineTyped
<1>4. Asked \in Missing(param)
  BY <1>2, <1>3, LeastNumber DEF Asked
<1>5. param[Asked] = Empty /\ Asked \in DOMAIN rp
  BY <1>4 DEF Missing
<1>6. \A i \in DOMAIN rp : i # Asked => param'[i] = param[i]
  BY <1>1, <1>2
<1>7. param' \in [DOMAIN rp -> ParamTexts]
  BY <1>1, <1>2, <1>5
<1>8. (Wrong' <=> Wrong) /\ Missing(param)' = Missing(param')
  BY <1>1 DEF Wrong, Missing, Counts, Ends, Number, Plain, IsKey, IsValue
<1>9. ASSUME NEW k \in Plain, Counts(k), Number(k) <= Len(rp), words[k].text # Empty
      PROVE  param'[Number(k)] = words[k].text
  <2>1. param[Number(k)] = words[k].text
    BY <1>2, <1>9 DEF Understood
  <2>2. k \in Nat /\ Len(rp) \in Nat /\ DOMAIN rp = 1..Len(rp)
    BY DEF CommandInv, LineTyped, Plain
  <2>3. Number(k) \in 1..Len(rp)
    BY <1>9, <2>2, PlainCounted DEF CommandInv
  <2> QED BY <1>5, <1>6, <1>9, <2>1, <2>2, <2>3
<1>10. Understood(param', qual)
  BY <1>2, <1>9 DEF Understood
<1>11. Understood(param, qual)' <=> Understood(param', qual)
  BY <1>1 DEF Understood, Counts, Ends, Names, Number, Plain, IsKey, IsValue
<1>12. LineTyped' /\ DOMAIN rp' = DOMAIN rp
  BY <1>1 DEF CommandInv, LineTyped
<1> QED BY <1>1, <1>2, <1>7, <1>8, <1>10, <1>11, <1>12 DEF CommandInv, ParameterInv

LEMMA CommandInvNext ==
  ASSUME CommandInv, LineNext
  PROVE  CommandInv'
<1>1. ASSUME NEW w \in Word \cup Key, Type(w) PROVE CommandInv'
  <2>1. phase' = "line" /\ words' \in Seq(Word \cup Key) /\ UNCHANGED <<rp, SEVERITY, STATUS>>
    BY <1>1 DEF Type, CommandInv, LineTyped
  <2> QED BY <2>1 DEF CommandInv, LineTyped, ParameterInv
<1>2. CASE GiveUp
  <2>1. phase = "prompt" /\ phase' = "done" /\ retcod' = "DCL_ERROR"
        /\ UNCHANGED <<rp, words, terminal, p, param, qual, SEVERITY, STATUS>>
    BY <1>2 DEF GiveUp
  <2>2. /\ (Wrong' <=> Wrong)
        /\ (Understood(param, qual)' <=> Understood(param, qual))
        /\ Missing(param)' = Missing(param)
    BY <2>1 DEF Wrong, Understood, Missing, Counts, Ends, Names, Number, Plain, IsKey, IsValue
  <2> QED BY <2>1, <2>2 DEF CommandInv, LineTyped, ParameterInv
<1> QED BY <1>1, <1>2, ParseUnderstands, AnswerUnderstood DEF LineNext

\* cmd_parse_line finds in every line the parameters and the qualifiers that are there, refuses what it
\* must, and hands no command on without its mandatory parameters, for every table of parameters and
\* qualifiers.
THEOREM LineAlwaysUnderstood == LineSpec => []LineUnderstood
<1>1. LineInit => CommandInv
  BY TablesAssumption DEF LineInit, CommandInv, LineTyped, ParameterInv
<1>2. CommandInv /\ [LineNext]_lineVars => CommandInv'
  <2>1. CommandInv /\ UNCHANGED lineVars => CommandInv'
    <3> SUFFICES ASSUME CommandInv, UNCHANGED lineVars PROVE CommandInv'
      OBVIOUS
    <3>1. /\ (Wrong' <=> Wrong)
          /\ (Understood(param, qual)' <=> Understood(param, qual))
          /\ Missing(param)' = Missing(param)
      BY DEF lineVars, Wrong, Understood, Missing, Counts, Ends, Names, Number, Plain, IsKey, IsValue
    <3> QED BY <3>1 DEF lineVars, CommandInv, LineTyped, ParameterInv
  <2> QED BY <2>1, CommandInvNext
<1>3. CommandInv => LineUnderstood
  BY DEF CommandInv, ParameterInv, LineUnderstood, Understood
<1> QED BY <1>1, <1>2, <1>3, PTL DEF LineSpec
=============================================================================
