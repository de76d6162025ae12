-------------------------- MODULE LineEditorProofs --------------------------
(***************************************************************************)
(* The line ends where its NUL is, whatever the keys do to it; RECALL      *)
(* takes its own line off the list and nothing else; and what the cells    *)
(* and the list show is the text of TextLine: every key does to them what  *)
(* it does to the text.                                                    *)
(***************************************************************************)
EXTENDS LineEditor, TLAPS, SequenceTheorems, WellFoundedInduction

(***************************************************************************)
(* Lists, whatever their elements are.                                     *)
(***************************************************************************)
IsList(l) == \E S : l \in Seq(S)

LEMMA ListFacts ==
  ASSUME NEW l, IsList(l)
  PROVE  /\ Len(l) \in Nat /\ DOMAIN l = 1..Len(l) /\ l \in Seq(Range(l))
         /\ l = << >> <=> Len(l) = 0
<1>1. PICK S : l \in Seq(S)
  BY DEF IsList
<1>2. Len(l) \in Nat /\ DOMAIN l = 1..Len(l)
  BY <1>1, LenProperties
<1>3. l \in Seq(Range(l))
  <2>1. l \in [1..Len(l) -> Range(l)]
    BY <1>1, <1>2 DEF Range
  <2> QED BY <1>2, <2>1, SeqDef
<1> QED BY <1>1, <1>2, <1>3, EmptySeq

LEMMA ListOver ==
  ASSUME NEW l, IsList(l), NEW S, Range(l) \subseteq S
  PROVE  l \in Seq(S)
<1>1. l \in Seq(Range(l))
  BY ListFacts
<1>2. \A i \in 1..Len(l) : l[i] \in S
  BY <1>1, ElementOfSeq
<1>3. l \in [1..Len(l) -> S] /\ Len(l) \in Nat
  BY <1>1, <1>2, LenProperties
<1> QED BY <1>3, SeqDef

LEMMA FunctionIsList ==
  ASSUME NEW n \in Nat, NEW l, DOMAIN l = 1..n, l = [i \in 1..n |-> l[i]]
  PROVE  IsList(l) /\ Len(l) = n
<1>1. l \in [1..n -> {l[i] : i \in 1..n}]
  OBVIOUS
<1>2. l \in Seq({l[i] : i \in 1..n})
  BY <1>1, SeqDef
<1> QED BY <1>2, LenProperties DEF IsList

LEMMA MinOfTwo == \A m, n \in Int : Min({m, n}) = IF m <= n THEN m ELSE n
<1> SUFFICES ASSUME NEW m \in Int, NEW n \in Int PROVE Min({m, n}) = IF m <= n THEN m ELSE n
  OBVIOUS
<1> DEFINE k == IF m <= n THEN m ELSE n
<1>1. k \in {m, n} /\ \A y \in {m, n} : k <= y
  OBVIOUS
<1>2. \A x \in {m, n} : (\A y \in {m, n} : x <= y) => x = k
  OBVIOUS
<1> QED BY <1>1, <1>2 DEF Min

\* The first n elements of a list.
FirstOf(l, n) == SubSeq(l, 1, Min({Len(l), n}))

LEMMA FirstOfList ==
  ASSUME NEW l, IsList(l), NEW n \in Nat
  PROVE  /\ IsList(FirstOf(l, n))
         /\ Len(FirstOf(l, n)) = IF Len(l) <= n THEN Len(l) ELSE n
         /\ \A i \in 1..Len(FirstOf(l, n)) : FirstOf(l, n)[i] = l[i]
<1> DEFINE m == Min({Len(l), n})
<1>1. l \in Seq(Range(l)) /\ Len(l) \in Nat
  BY ListFacts
<1>2. m \in Nat /\ m <= Len(l) /\ m <= n /\ m = IF Len(l) <= n THEN Len(l) ELSE n
  BY <1>1, MinOfTwo
<1> HIDE DEF m
<1>3. 1 \in Int /\ m \in Int /\ \A i \in 1..m : l[i] \in Range(l)
  BY <1>1, <1>2, LenProperties DEF Range
<1>4. /\ SubSeq(l, 1, m) \in Seq(Range(l))
      /\ Len(SubSeq(l, 1, m)) = IF 1 <= m THEN m - 1 + 1 ELSE 0
      /\ \A i \in 1..m - 1 + 1 : SubSeq(l, 1, m)[i] = l[1 + i - 1]
  BY <1>2, <1>3, SubSeqProperties
<1>5. Len(SubSeq(l, 1, m)) = m
  BY <1>2, <1>4
<1>6. \A i \in 1..m : SubSeq(l, 1, m)[i] = l[i]
  <2> SUFFICES ASSUME NEW i \in 1..m PROVE SubSeq(l, 1, m)[i] = l[i]
    OBVIOUS
  <2>1. i \in 1..m - 1 + 1 /\ 1 + i - 1 = i
    BY <1>2
  <2> QED BY <1>4, <2>1
<1>7. IsList(SubSeq(l, 1, m))
  BY <1>4 DEF IsList
<1>8. FirstOf(l, n) = SubSeq(l, 1, m)
  BY DEF FirstOf, m
<1> QED BY <1>2, <1>5, <1>6, <1>7, <1>8

LEMMA SameElements ==
  ASSUME NEW k, IsList(k), NEW l, IsList(l), Len(k) = Len(l), \A i \in 1..Len(l) : k[i] = l[i]
  PROVE  k = l
<1> DEFINE S == Range(k) \cup Range(l)
<1>1. k \in Seq(S) /\ l \in Seq(S)
  BY ListOver
<1> HIDE DEF S
<1> QED BY <1>1, SeqEqual

LEMMA FirstOfFirst ==
  ASSUME NEW l, IsList(l), NEW n \in Nat
  PROVE  FirstOf(FirstOf(l, n), n) = FirstOf(l, n)
<1> DEFINE k == FirstOf(l, n)
<1>1. IsList(k) /\ Len(l) \in Nat /\ Len(k) = IF Len(l) <= n THEN Len(l) ELSE n
  BY FirstOfList, ListFacts
<1> HIDE DEF k
<1>2. IsList(FirstOf(k, n)) /\ Len(FirstOf(k, n)) = Len(k) /\ \A i \in 1..Len(k) : FirstOf(k, n)[i] = k[i]
  BY <1>1, FirstOfList
<1>3. FirstOf(k, n) = k
  BY <1>1, <1>2, SameElements
<1> QED BY <1>3 DEF k

\* A line on the top of the list.
LEMMA LongerList ==
  ASSUME NEW l, IsList(l), NEW x
  PROVE  /\ IsList(<<x>> \o l) /\ Len(<<x>> \o l) = Len(l) + 1
         /\ (<<x>> \o l)[1] = x /\ \A i \in 1..Len(l) : (<<x>> \o l)[i + 1] = l[i]
<1> DEFINE S == Range(l) \cup {x}
<1>1. l \in Seq(S) /\ <<x>> \in Seq(S) /\ Len(l) \in Nat
  BY ListOver, ListFacts
<1> HIDE DEF S
<1>2. Len(<<x>>) = 1 /\ <<x>>[1] = x
  OBVIOUS
<1>3. /\ <<x>> \o l \in Seq(S) /\ Len(<<x>> \o l) = 1 + Len(l)
      /\ \A i \in 1..1 + Len(l) : (<<x>> \o l)[i] = IF i <= 1 THEN <<x>>[i] ELSE l[i - 1]
  BY <1>1, <1>2, ConcatProperties
<1>4. ASSUME NEW i \in 1..Len(l) PROVE (<<x>> \o l)[i + 1] = l[i]
  <2>1. i + 1 \in 1..1 + Len(l) /\ ~(i + 1 <= 1) /\ i + 1 - 1 = i
    BY <1>1
  <2> QED BY <1>3, <2>1
<1>5. (<<x>> \o l)[1] = x
  <2>1. 1 \in 1..1 + Len(l)
    BY <1>1
  <2> QED BY <1>2, <1>3, <2>1
<1> QED BY <1>1, <1>3, <1>4, <1>5 DEF IsList

LEMMA TailOfList ==
  ASSUME NEW l, IsList(l), l # << >>
  PROVE  IsList(Tail(l)) /\ Len(Tail(l)) = Len(l) - 1 /\ \A i \in 1..Len(l) - 1 : Tail(l)[i] = l[i + 1]
<1>1. l \in Seq(Range(l))
  BY ListFacts
<1>2. Tail(l) \in Seq(Range(l)) /\ Len(Tail(l)) = Len(l) - 1 /\ \A i \in 1..Len(l) - 1 : Tail(l)[i] = l[i + 1]
  BY <1>1, HeadTailProperties
<1> QED BY <1>2 DEF IsList

\* The list without a line that has just joined it: what the limit took off its end is not
\* among the first n.
LEMMA LineTakenOff ==
  ASSUME NEW l, IsList(l), NEW x, NEW n \in Nat
  PROVE  /\ FirstOf(<<x>> \o l, n + 1) # << >>
         /\ Tail(FirstOf(<<x>> \o l, n + 1)) = FirstOf(l, n)
<1> DEFINE longer == <<x>> \o l
           k == FirstOf(longer, n + 1)
<1>1. IsList(longer) /\ Len(longer) = Len(l) + 1 /\ (\A i \in 1..Len(l) : longer[i + 1] = l[i])
  BY LongerList
<1>2. Len(l) \in Nat /\ n + 1 \in Nat
  BY ListFacts
<1> HIDE DEF longer
<1>3. /\ IsList(k) /\ Len(k) = (IF Len(longer) <= n + 1 THEN Len(longer) ELSE n + 1)
      /\ \A i \in 1..Len(k) : k[i] = longer[i]
  BY <1>1, <1>2, FirstOfList
<1> HIDE DEF k
<1>4. Len(k) = (IF Len(l) <= n THEN Len(l) ELSE n) + 1
  BY <1>1, <1>2, <1>3
<1>5. k # << >>
  BY <1>2, <1>3, <1>4, ListFacts
<1>6. IsList(Tail(k)) /\ Len(Tail(k)) = Len(k) - 1 /\ \A i \in 1..Len(k) - 1 : Tail(k)[i] = k[i + 1]
  BY <1>3, <1>5, TailOfList
<1>7. /\ IsList(FirstOf(l, n)) /\ Len(FirstOf(l, n)) = (IF Len(l) <= n THEN Len(l) ELSE n)
      /\ \A i \in 1..Len(FirstOf(l, n)) : FirstOf(l, n)[i] = l[i]
  BY FirstOfList
<1>8. Len(Tail(k)) = Len(FirstOf(l, n))
  BY <1>2, <1>4, <1>6, <1>7
<1>9. ASSUME NEW i \in 1..Len(FirstOf(l, n)) PROVE Tail(k)[i] = FirstOf(l, n)[i]
  <2>1. i \in 1..Len(k) - 1 /\ i + 1 \in 1..Len(k) /\ i \in 1..Len(l)
    BY <1>2, <1>4, <1>7
  <2>2. Tail(k)[i] = k[i + 1] /\ k[i + 1] = longer[i + 1] /\ longer[i + 1] = l[i]
    BY <1>1, <1>3, <1>6, <2>1
  <2> QED BY <1>7, <2>2
<1>10. Tail(k) = FirstOf(l, n)
  BY <1>6, <1>7, <1>8, <1>9, SameElements
<1> QED BY <1>5, <1>10 DEF k, longer

(***************************************************************************)
(* RECALL.                                                                 *)
(***************************************************************************)

\* From the prompt to the command the list is the one that was there at the prompt, but for
\* the line that was entered.
RecallInv ==
  /\ IsList(list) /\ IsList(shown)
  /\ phase \in {"line", "entered"} => list = shown
  /\ RecallTyped => \E x : list = Limited(<<x>> \o shown)

LEMMA LimitedIsFirst == \A l : Limited(l) = FirstOf(l, MAX_KBD_STACK + 1)
BY DEF Limited, FirstOf

LEMMA LimitedIsList == ASSUME NEW l, IsList(l) PROVE IsList(Limited(l)) /\ Len(Limited(l)) <= MAX_KBD_STACK + 1
<1>1. MAX_KBD_STACK + 1 \in Nat /\ Len(l) \in Nat
  BY ListBounds, ListFacts
<1> QED BY <1>1, LimitedIsFirst, FirstOfList

LEMMA PromptKeepsRecall ==
  ASSUME RecallInv, dcl_read_kbd \/ Ask \/ ContinueLine
  PROVE  RecallInv'
<1>1. phase' \in {"line", "entered"} /\ list' = list /\ shown' = list
  BY DEF dcl_read_kbd, Ask, ContinueLine, Begin
<1>2. ~RecallTyped'
  BY <1>1 DEF RecallTyped
<1> QED BY <1>1, <1>2 DEF RecallInv

LEMMA KeyKeepsRecall ==
  ASSUME RecallInv, EditKey
  PROVE  RecallInv'
<1>1. phase = "line" /\ phase' \in {"line", "entered"} /\ list' = list /\ shown' = shown
  <2>1. ASSUME KeyPressed PROVE phase = "line" /\ list' = list /\ shown' = shown
    BY <2>1 DEF KeyPressed, promptVars
  <2>2. CASE ToggleInsert \/ MoveCursor \/ Backspace \/ DeleteChar \/ EraseToEnd \/ EraseToStart
    BY <2>1, <2>2 DEF ToggleInsert, MoveCursor, Backspace, DeleteChar, EraseToEnd, EraseToStart, Typed, Stay
  <2>3. ASSUME NEW ch, Character(ch) PROVE phase = "line" /\ phase' \in {"line", "entered"} /\ list' = list /\ shown' = shown
    BY <2>1, <2>3 DEF Character
  <2>4. CASE Up \/ Down
    BY <2>1, <2>4 DEF Up, Down, Show, Stay
  <2>5. ASSUME NEW k, FunctionKey(k) PROVE phase = "line" /\ phase' \in {"line", "entered"} /\ list' = list /\ shown' = shown
    BY <2>1, <2>5 DEF FunctionKey
  <2>6. CASE Enter \/ Abandon
    BY <2>1, <2>6 DEF Enter, Abandon
  <2>7. CASE Tab
    BY <2>7 DEF Tab, Stay, promptVars
  <2> QED BY <2>2, <2>3, <2>4, <2>5, <2>6, <2>7 DEF EditKey
<1>2. ~RecallTyped'
  BY <1>1 DEF RecallTyped
<1> QED BY <1>1, <1>2 DEF RecallInv

\* A RECALL that differs from the last line joins the list, and is no longer than an element.
LEMMA KeepingKeepsRecall ==
  ASSUME RecallInv, KeepLine
  PROVE  RecallInv'
<1>1. phase = "entered" /\ list = shown /\ IsList(list) /\ w' = w /\ shown' = shown
  BY DEF KeepLine, RecallInv, promptVars
<1>2. PICK same \in SameAsLast :
        list' = IF Line = << >> \/ same THEN list ELSE Limited(<<NodeOf(Line)>> \o list)
  BY DEF KeepLine
<1>3. IsList(list')
  BY <1>1, <1>2, LongerList, LimitedIsList
<1>4. ASSUME RecallTyped' PROVE \E x : list' = Limited(<<x>> \o shown)
  <2>1. phase' = "run" /\ Command' = RecallText /\ w = 0 /\ (list # << >> => NodeText(list[1]) # RecallText)
    BY <1>1, <1>4 DEF RecallTyped
  <2>2. buffer' = buffer
    BY <2>1 DEF KeepLine, Continued
  <2>3. Line = RecallText
    BY <2>1, <2>2 DEF Line, Command
  <2>4. RecallText # << >> /\ SubSeq(Line, 1, Min({Len(Line), NodeLen})) = RecallText
    <3>1. IsList(RecallText) /\ Len(RecallText) # 0 /\ Len(RecallText) <= NodeLen /\ NodeLen \in Nat
      BY RecallAssumption, ListBounds DEF IsList
    <3>2. Len(FirstOf(RecallText, NodeLen)) = Len(RecallText)
      BY <3>1, FirstOfList
    <3>3. FirstOf(RecallText, NodeLen) = RecallText
      BY <3>1, <3>2, FirstOfList, SameElements
    <3> QED BY <2>3, <3>1, <3>3, ListFacts DEF FirstOf
  <2>5. SameAsLast = {FALSE}
    BY <2>1, <2>4 DEF SameAsLast
  <2>6. list' = Limited(<<NodeOf(Line)>> \o list)
    BY <1>2, <2>3, <2>4, <2>5
  <2> QED BY <1>1, <2>6
<1>5. phase' \notin {"line", "entered"}
  BY DEF KeepLine
<1> QED BY <1>1, <1>3, <1>4, <1>5 DEF RecallInv

LEMMA OthersAreList ==
  ASSUME IsList(list)
  PROVE  IsList(Others)
BY TailOfList DEF Others

LEMMA RestartedList ==
  ASSUME IsList(list), Restart
  PROVE  IsList(list') /\ Len(list') <= MAX_KBD_STACK + 1
<1> DEFINE texts == Texts(list)
           file == Reverse(texts)
           nodes == [i \in DOMAIN file |-> NodeOf(NoBlankEnd(file[i]))]
           back == Reverse(nodes)
<1>1. IsList(texts) /\ Len(texts) \in Nat
  <2>1. DOMAIN texts = 1..Len(list) /\ Len(list) \in Nat /\ texts = [i \in 1..Len(list) |-> texts[i]]
    BY ListFacts DEF Texts
  <2> HIDE DEF texts
  <2> QED BY <2>1, FunctionIsList
<1> HIDE DEF texts
<1>2. DOMAIN file = 1..Len(texts)
  BY DEF Reverse
<1> HIDE DEF file
<1>3. IsList(nodes) /\ Len(nodes) \in Nat
  <2>1. DOMAIN nodes = 1..Len(texts) /\ nodes = [i \in 1..Len(texts) |-> nodes[i]]
    BY <1>2
  <2> HIDE DEF nodes
  <2> QED BY <1>1, <2>1, FunctionIsList
<1>4. list' = Limited(back)
  BY DEF Restart, file, texts
<1> HIDE DEF nodes
<1>5. IsList(back)
  <2>1. DOMAIN back = 1..Len(nodes) /\ back = [i \in 1..Len(nodes) |-> back[i]]
    BY DEF Reverse
  <2> HIDE DEF back
  <2> QED BY <1>3, <2>1, FunctionIsList
<1> QED BY <1>4, <1>5, LimitedIsList

LEMMA CommandKeepsRecall ==
  ASSUME RecallInv, dcl_recall \/ RecallErase \/ OtherCommand \/ Restart
  PROVE  RecallInv'
<1>1. Ran /\ IsList(list)
  BY DEF dcl_recall, RecallErase, OtherCommand, Restart, RecallInv
<1>2. phase' = "prompt" /\ shown' = << >> /\ ~RecallTyped'
  BY <1>1 DEF Ran, RecallTyped
<1>3. IsList(<< >>)
  <2>1. << >> \in Seq({})
    OBVIOUS
  <2> QED BY <2>1 DEF IsList
<1>4. IsList(list')
  <2>1. CASE dcl_recall
    BY <1>1, <2>1, OthersAreList DEF dcl_recall
  <2>2. CASE RecallErase
    BY <1>3, <2>2 DEF RecallErase
  <2>3. CASE OtherCommand
    BY <1>1, <2>3 DEF OtherCommand
  <2>4. CASE Restart
    BY <1>1, <2>4, RestartedList
  <2> QED BY <2>1, <2>2, <2>3, <2>4
<1> QED BY <1>2, <1>3, <1>4 DEF RecallInv

LEMMA RecallBegins == Init => RecallInv
<1>1. IsList(<< >>)
  <2>1. << >> \in Seq({})
    OBVIOUS
  <2> QED BY <2>1 DEF IsList
<1> QED BY <1>1 DEF Init, RecallInv, RecallTyped

LEMMA RecallGoesOn == RecallInv /\ [Next]_vars => RecallInv'
<1> SUFFICES ASSUME RecallInv, [Next]_vars PROVE RecallInv'
  OBVIOUS
<1>1. CASE Next
  BY <1>1, PromptKeepsRecall, KeyKeepsRecall, KeepingKeepsRecall, CommandKeepsRecall DEF Next
<1>2. CASE UNCHANGED vars
  <2>1. UNCHANGED <<list, shown, phase, w, buffer>>
    BY <1>2 DEF vars, lineVars, promptVars
  <2>2. RecallTyped' <=> RecallTyped
    BY <2>1 DEF RecallTyped, Command
  <2> QED BY <2>1, <2>2 DEF RecallInv
<1> QED BY <1>1, <1>2

LEMMA RecallTakesItself ==
  ASSUME RecallInv, Next, RecallTyped, list' # << >>
  PROVE  SubSeq(list', 1, Min({Len(list'), MAX_KBD_STACK})) = SubSeq(shown, 1, Min({Len(shown), MAX_KBD_STACK}))
<1>1. PICK x : list = Limited(<<x>> \o shown)
  BY DEF RecallInv
<1>2. IsList(shown) /\ MAX_KBD_STACK \in Nat
  BY ListBounds DEF RecallInv
<1>3. phase = "run" /\ Command = RecallText
  BY DEF RecallTyped
<1>4. list # << >> /\ Tail(list) = FirstOf(shown, MAX_KBD_STACK)
  BY <1>1, <1>2, LimitedIsFirst, LineTakenOff
<1>5. dcl_recall \/ RecallErase \/ OtherCommand \/ Restart
  <2>1. ~(dcl_read_kbd \/ Ask \/ KeepLine \/ ContinueLine)
    BY <1>3 DEF dcl_read_kbd, Ask, KeepLine, ContinueLine
  <2>2. ~EditKey
    BY <1>3 DEF EditKey, ToggleInsert, MoveCursor, Backspace, DeleteChar, EraseToEnd, EraseToStart, Typed, Character,
                Up, Down, Show, FunctionKey, Enter, Abandon, Tab, KeyPressed
  <2> QED BY <2>1, <2>2 DEF Next
<1>6. list' = Tail(list)
  BY <1>3, <1>4, <1>5 DEF dcl_recall, RecallErase, OtherCommand, Restart, Others
<1>7. FirstOf(list', MAX_KBD_STACK) = FirstOf(shown, MAX_KBD_STACK)
  BY <1>2, <1>4, <1>6, FirstOfFirst
<1> QED BY <1>7 DEF FirstOf

\* RECALL of a number finds what it would have found before it was typed, for any commands
\* and any size of the list: typing RECALL pushes no line out that can be asked for.
THEOREM RecallNeverLeavesATrace == Spec => RecallLeavesNoTrace
<1>1. Init => RecallInv
  BY RecallBegins
<1>2. RecallInv /\ [Next]_vars => RecallInv'
  BY RecallGoesOn
<1>3. RecallInv /\ [Next]_vars =>
        [RecallTyped /\ list' # << >> =>
           SubSeq(list', 1, Min({Len(list'), MAX_KBD_STACK})) = SubSeq(shown, 1, Min({Len(shown), MAX_KBD_STACK}))]_vars
  BY RecallTakesItself
<1> QED BY <1>1, <1>2, <1>3, PTL DEF Spec, RecallLeavesNoTrace

(***************************************************************************)
(* Strings in cells.                                                       *)
(***************************************************************************)
IsText(s) == IsList(s) /\ NUL \notin Range(s)
IsBuffer(b) == DOMAIN b = 0..Cells - 1 /\ b[Cells - 1] = NUL
EndsAt(b, i, n) == n \in Nat /\ i + n < Cells /\ b[i + n] = NUL /\ \A m \in 0..n - 1 : b[i + m] # NUL

LEMMA CellsAre == Cells \in Nat /\ NodeLen \in Nat /\ NodeLen < Cells /\ Cells - 1 \in Nat
BY ListBounds, LengthsAssumption

LEMMA LeastNumber ==
  ASSUME NEW T, T \subseteq Nat, T # {}
  PROVE  \E m \in T : \A n \in T : m <= n
<1> DEFINE R == OpToRel(<, Nat)
<1>1. IsWellFoundedOn(R, Nat)
  BY NatLessThanWellFounded
<1>2. PICK m \in T : \A n \in T : ~(<<n, m>> \in R)
  BY <1>1, WFMin
<1>3. \A n \in T : ~(n < m)
  BY <1>2 DEF OpToRel
<1> QED BY <1>3

\* In cells whose last is a NUL the length of a string is where it ends.
LEMMA StringEnds ==
  ASSUME NEW b, IsBuffer(b), NEW i \in 0..Cells - 1
  PROVE  EndsAt(b, i, StringLen(b, i))
<1> DEFINE Stop(n) == i + n \notin DOMAIN b \/ b[i + n] = NUL
           T == {n \in 0..Cells : Stop(n)}
<1>1. Cells - 1 - i \in T /\ T \subseteq Nat
  <2>1. Cells - 1 - i \in 0..Cells /\ i + (Cells - 1 - i) = Cells - 1
    BY CellsAre
  <2> QED BY <2>1 DEF IsBuffer
<1>2. PICK m \in T : \A n \in T : m <= n
  BY <1>1, LeastNumber
<1>3. m \in 0..Cells /\ Stop(m) /\ \A k \in 0..m - 1 : ~Stop(k)
  BY <1>2, CellsAre
<1> DEFINE Ends(n) == /\ i + n \notin DOMAIN b \/ b[i + n] = NUL
                      /\ \A k \in 0..n - 1 : i + k \in DOMAIN b /\ b[i + k] # NUL
<1>4. \E n \in 0..Cells : Ends(n)
  BY <1>3
<1>5. PICK n : n = StringLen(b, i)
  OBVIOUS
<1>6. n \in 0..Cells /\ Ends(n)
  BY <1>4, <1>5 DEF StringLen
<1>7. i + n < Cells
  <2> SUFFICES ASSUME i + n >= Cells PROVE FALSE
    BY <1>6, CellsAre
  <2>1. Cells - 1 - i \in 0..n - 1 /\ i + (Cells - 1 - i) = Cells - 1
    BY <1>6, CellsAre
  <2> QED BY <1>6, <2>1 DEF IsBuffer
<1>8. i + n \in DOMAIN b
  BY <1>6, <1>7, CellsAre DEF IsBuffer
<1> QED BY <1>5, <1>6, <1>7, <1>8 DEF EndsAt

LEMMA EndIsUnique ==
  ASSUME NEW b, NEW i \in Nat, NEW m, EndsAt(b, i, m), NEW n, EndsAt(b, i, n)
  PROVE  m = n
<1>1. m \in Nat /\ n \in Nat
  BY DEF EndsAt
<1>2. CASE m < n
  BY <1>1, <1>2 DEF EndsAt
<1>3. CASE n < m
  BY <1>1, <1>3 DEF EndsAt
<1> QED BY <1>1, <1>2, <1>3

LEMMA LengthIs ==
  ASSUME NEW b, IsBuffer(b), NEW i \in 0..Cells - 1, NEW n
  PROVE  n = StringLen(b, i) <=> EndsAt(b, i, n)
<1>1. EndsAt(b, i, StringLen(b, i)) /\ i \in Nat
  BY StringEnds
<1> QED BY <1>1, EndIsUnique

LEMMA Assigned ==
  ASSUME IsBuffer(buffer), w \in Nat, NEW f
  PROVE  /\ DOMAIN Assign(f) = 0..Cells - 1
         /\ \A i \in Int : w + i \in 0..Cells - 1 =>
              Assign(f)[w + i] = IF i \in DOMAIN f THEN f[i] ELSE buffer[w + i]
<1>1. DOMAIN Assign(f) = 0..Cells - 1
  BY DEF Assign, IsBuffer
<1>2. ASSUME NEW i \in Int, w + i \in 0..Cells - 1
      PROVE  Assign(f)[w + i] = IF i \in DOMAIN f THEN f[i] ELSE buffer[w + i]
  <2>1. (w + i) - w = i
    OBVIOUS
  <2> QED BY <1>2, <2>1 DEF Assign, IsBuffer
<1> QED BY <1>1, <1>2

\* The last cell stays a NUL where nothing else goes there.
LEMMA EndKept ==
  ASSUME IsBuffer(buffer), w \in Nat, NEW f, \A i \in Int : i \in DOMAIN f /\ w + i = Cells - 1 => f[i] = NUL
  PROVE  IsBuffer(Assign(f))
<1>1. Cells - 1 - w \in Int /\ w + (Cells - 1 - w) = Cells - 1 /\ Cells - 1 \in 0..Cells - 1
  BY CellsAre
<1>2. Assign(f)[Cells - 1] = IF Cells - 1 - w \in DOMAIN f THEN f[Cells - 1 - w] ELSE buffer[Cells - 1]
  BY <1>1, Assigned
<1> QED BY <1>1, <1>2, Assigned DEF IsBuffer

(***************************************************************************)
(* The inductive invariant: the cells, the list and the search of TAB.     *)
(* The last of the cells is always a NUL, a line ends before it, and a     *)
(* word that TAB completes begins in the line.                             *)
(***************************************************************************)
LineOK(b, n, p) == EndsAt(b, w, n) /\ p \in 0..n

CellsInv ==
  /\ IsBuffer(buffer)
  /\ w \in Nat /\ maxlen \in Nat /\ w + maxlen < Cells /\ w + NodeLen < Cells
  /\ phase = "line" => LineOK(buffer, cc, pos)
  /\ phase = "continue" => use = "commands" /\ StringLen(buffer, 0) - 1 \in 0..Cells - NodeLen - 1

ListInv ==
  /\ IsList(list) /\ Len(list) <= MAX_KBD_STACK + 1
  /\ phase = "line" => at \in 0..Len(list)
  /\ phase \notin {"line", "entered"} => at = 0

SearchInv ==
  /\ tab \in [on : BOOLEAN, open : BOOLEAN, cell : Int, rest : SUBSET Files]
  /\ tab.on \/ tab.open => phase = "line" /\ tab.cell \in 0..cc /\ IsText(szSearch)
  /\ szSearch = Unset \/ IsText(szSearch)
  /\ fFile => IsText(found)

UsableKey == {k \in Key : k.echo \/ k.terminate}

EditorInv ==
  /\ phase \in {"prompt", "line", "entered", "continue", "run"}
  /\ use \in {"commands"} \cup DOMAIN Length
  /\ keydef \in [Keys -> UsableKey \cup {NoKey}]
  /\ CellsInv /\ ListInv /\ SearchInv

(***************************************************************************)
(* What each key does to the cells.                                        *)
(***************************************************************************)
Editing == IsBuffer(buffer) /\ w \in Nat /\ maxlen \in Nat /\ w + maxlen < Cells /\ w + NodeLen < Cells
           /\ LineOK(buffer, cc, pos)

LEMMA LineFacts ==
  ASSUME Editing
  PROVE  /\ w \in Nat /\ cc \in Nat /\ pos \in 0..cc /\ w + cc < Cells /\ w \in 0..Cells - 1
         /\ buffer[w + cc] = NUL /\ \A m \in 0..cc - 1 : buffer[w + m] # NUL
BY CellsAre DEF Editing, LineOK, EndsAt

\* The cells f are assigned: the line then ends at cell n.
Holds(f, i) == IF i \in DOMAIN f THEN f[i] ELSE buffer[w + i]

LEMMA EditedLine ==
  ASSUME Editing, NEW f, NEW n \in Nat, w + n < Cells,
         \A i \in 0..n - 1 : Holds(f, i) # NUL, Holds(f, n) = NUL,
         \A i \in Int : i \in DOMAIN f /\ w + i = Cells - 1 => f[i] = NUL
  PROVE  IsBuffer(Assign(f)) /\ EndsAt(Assign(f), w, n)
<1>1. IsBuffer(buffer) /\ w \in Nat
  BY DEF Editing
<1>2. \A i \in 0..n : Assign(f)[w + i] = Holds(f, i)
  <2>1. \A i \in 0..n : i \in Int /\ w + i \in 0..Cells - 1
    BY <1>1, CellsAre
  <2> QED BY <1>1, <2>1, Assigned DEF Holds
<1>3. EndsAt(Assign(f), w, n)
  BY <1>2 DEF EndsAt
<1> QED BY <1>1, <1>3, EndKept

LEMMA ClosedCells ==
  ASSUME Editing, NEW p \in 0..cc - 1
  PROVE  IsBuffer(Close(p)) /\ EndsAt(Close(p), w, cc - 1)
<1> DEFINE f == [i \in p..cc - 1 |-> IF i = cc - 1 THEN NUL ELSE Cell(i + 1)]
<1>1. cc \in Nat /\ w \in Nat /\ w + cc < Cells /\ (\A m \in 0..cc - 1 : buffer[w + m] # NUL)
  BY LineFacts
<1>2. \A i \in Int : i \in DOMAIN f /\ w + i = Cells - 1 => f[i] = NUL
  BY <1>1, CellsAre
<1>3. \A i \in 0..cc - 1 - 1 : Holds(f, i) # NUL
  <2> SUFFICES ASSUME NEW i \in 0..cc - 1 - 1 PROVE Holds(f, i) # NUL
    OBVIOUS
  <2>1. i \in 0..cc - 1 /\ i + 1 \in 0..cc - 1 /\ i # cc - 1
    BY <1>1
  <2>2. buffer[w + i] # NUL /\ Cell(i + 1) # NUL
    BY <1>1, <2>1 DEF Cell
  <2> QED BY <2>1, <2>2 DEF Holds
<1>4. cc - 1 \in Nat /\ w + (cc - 1) < Cells /\ cc - 1 \in p..cc - 1
  BY <1>1, CellsAre
<1>5. Holds(f, cc - 1) = NUL
  BY <1>4 DEF Holds
<1> HIDE DEF f
<1>6. IsBuffer(Assign(f)) /\ EndsAt(Assign(f), w, cc - 1)
  BY <1>2, <1>3, <1>4, <1>5, EditedLine
<1> QED BY <1>6 DEF Close, f

LEMMA CursorMoves ==
  ASSUME Editing, MoveCursor
  PROVE  IsBuffer(buffer') /\ LineOK(buffer', cc', pos')
<1>1. buffer' = buffer /\ cc' = cc /\ w' = w
  BY DEF MoveCursor, Typed, KeyPressed, promptVars
<1>2. pos \in 0..cc /\ cc \in Nat
  BY LineFacts
<1>3. pos' \in 0..cc
  BY <1>2 DEF MoveCursor
<1> QED BY <1>1, <1>3 DEF Editing, LineOK, EndsAt

LEMMA CharacterGoes ==
  ASSUME Editing, Backspace \/ DeleteChar
  PROVE  IsBuffer(buffer') /\ LineOK(buffer', cc', pos')
<1>1. w' = w /\ pos \in 0..cc /\ cc \in Nat
  BY LineFacts DEF Backspace, DeleteChar, Typed, KeyPressed, promptVars
<1>2. CASE Backspace
  <2>1. pos - 1 \in 0..cc - 1 /\ buffer' = Close(pos - 1) /\ cc' = cc - 1 /\ pos' = pos - 1
    BY <1>1, <1>2 DEF Backspace
  <2>2. IsBuffer(buffer') /\ EndsAt(buffer', w, cc')
    BY <2>1, ClosedCells
  <2> QED BY <1>1, <2>1, <2>2 DEF LineOK
<1>3. CASE DeleteChar
  <2>1. pos \in 0..cc - 1 /\ buffer' = Close(pos) /\ cc' = cc - 1 /\ pos' = pos
    BY <1>1, <1>3 DEF DeleteChar
  <2>2. IsBuffer(buffer') /\ EndsAt(buffer', w, cc')
    BY <2>1, ClosedCells
  <2> QED BY <1>1, <2>1, <2>2 DEF LineOK
<1> QED BY <1>2, <1>3

LEMMA PartGoes ==
  ASSUME Editing, EraseToEnd \/ EraseToStart
  PROVE  IsBuffer(buffer') /\ LineOK(buffer', cc', pos')
<1>1. w' = w /\ pos \in 0..cc /\ cc \in Nat /\ w \in Nat /\ w + cc < Cells /\ pos \in Nat
  BY LineFacts DEF EraseToEnd, EraseToStart, Typed, KeyPressed, promptVars
<1>2. buffer[w + cc] = NUL /\ \A m \in 0..cc - 1 : buffer[w + m] # NUL
  BY LineFacts
<1>3. CASE EraseToEnd
  <2> DEFINE f == [i \in {pos} |-> NUL]
  <2>1. \A i \in Int : i \in DOMAIN f /\ w + i = Cells - 1 => f[i] = NUL
    OBVIOUS
  <2>2. Holds(f, pos) = NUL
    BY DEF Holds
  <2>3. \A i \in 0..pos - 1 : Holds(f, i) # NUL
    <3> SUFFICES ASSUME NEW i \in 0..pos - 1 PROVE Holds(f, i) # NUL
      OBVIOUS
    <3>1. i \in 0..cc - 1 /\ i # pos
      BY <1>1
    <3> QED BY <1>2, <3>1 DEF Holds
  <2>4. buffer' = Assign(f) /\ cc' = pos /\ pos' = pos
    BY <1>3 DEF EraseToEnd
  <2> HIDE DEF f
  <2>5. w + pos < Cells
    BY <1>1, CellsAre
  <2>6. IsBuffer(Assign(f)) /\ EndsAt(Assign(f), w, pos)
    BY <1>1, <2>1, <2>2, <2>3, <2>5, EditedLine
  <2> QED BY <1>1, <2>4, <2>6 DEF LineOK
<1>4. CASE EraseToStart
  <2> DEFINE f == [i \in 0..cc - 1 |-> IF i < cc - pos THEN Cell(i + pos) ELSE NUL]
  <2>1. \A i \in Int : i \in DOMAIN f /\ w + i = Cells - 1 => f[i] = NUL
    BY <1>1, CellsAre
  <2>2. Holds(f, cc - pos) = NUL
    BY <1>1, <1>2 DEF Holds
  <2>3. \A i \in 0..cc - pos - 1 : Holds(f, i) # NUL
    <3> SUFFICES ASSUME NEW i \in 0..cc - pos - 1 PROVE Holds(f, i) # NUL
      OBVIOUS
    <3>1. i \in 0..cc - 1 /\ i + pos \in 0..cc - 1 /\ i < cc - pos
      BY <1>1
    <3> QED BY <1>2, <3>1 DEF Holds, Cell
  <2>4. buffer' = Assign(f) /\ cc' = cc - pos /\ pos' = 0
    BY <1>4 DEF EraseToStart
  <2>5. cc - pos \in Nat /\ w + (cc - pos) < Cells
    BY <1>1, CellsAre
  <2> HIDE DEF f
  <2>6. IsBuffer(Assign(f)) /\ EndsAt(Assign(f), w, cc - pos)
    BY <2>1, <2>2, <2>3, <2>5, EditedLine
  <2> QED BY <1>1, <2>4, <2>5, <2>6 DEF LineOK
<1> QED BY <1>3, <1>4

LEMMA CharactersAre ==
  ASSUME use \in {"commands"} \cup DOMAIN Length, NEW ch \in Chars[use]
  PROVE  ch # NUL
<1>1. use \in DOMAIN Chars /\ NUL \notin UNION Range(Chars)
  BY TextsAssumption
<1>2. Chars[use] \in Range(Chars)
  BY <1>1 DEF Range
<1> QED BY <1>1, <1>2

LEMMA CharacterEnters ==
  ASSUME Editing, NEW ch, ch # NUL, Character(ch)
  PROVE  IsBuffer(buffer') /\ LineOK(buffer', cc', pos')
<1>1. w' = w /\ pos' = pos + 1 /\ cc < maxlen
  BY DEF Character, KeyPressed, promptVars
<1>2. /\ pos \in 0..cc /\ cc \in Nat /\ w \in Nat /\ pos \in Nat
      /\ buffer[w + cc] = NUL /\ \A m \in 0..cc - 1 : buffer[w + m] # NUL
  BY LineFacts
<1>3. maxlen \in Nat /\ w + maxlen < Cells /\ w + cc + 1 < Cells
  BY <1>1, <1>2, CellsAre DEF Editing
<1>4. CASE pos < cc /\ ~insert_mode
  <2> DEFINE f == [i \in {pos} |-> ch]
  <2>1. \A i \in Int : i \in DOMAIN f /\ w + i = Cells - 1 => f[i] = NUL
    BY <1>2, <1>3, <1>4, CellsAre
  <2>2. Holds(f, cc) = NUL
    BY <1>2, <1>4 DEF Holds
  <2>3. \A i \in 0..cc - 1 : Holds(f, i) # NUL
    BY <1>2 DEF Holds
  <2>4. buffer' = Assign(f) /\ cc' = cc
    BY <1>4 DEF Character
  <2> HIDE DEF f
  <2>5. w + cc < Cells
    BY LineFacts
  <2>6. IsBuffer(Assign(f)) /\ EndsAt(Assign(f), w, cc)
    BY <1>2, <2>1, <2>2, <2>3, <2>5, EditedLine
  <2>7. pos' \in 0..cc
    BY <1>1, <1>2, <1>4
  <2> QED BY <1>1, <2>4, <2>6, <2>7 DEF LineOK
<1>5. CASE ~(pos < cc /\ ~insert_mode)
  <2> DEFINE f == [i \in pos..cc + 1 |-> IF i = pos THEN ch ELSE IF i = cc + 1 THEN NUL ELSE Cell(i - 1)]
  <2>1. \A i \in Int : i \in DOMAIN f /\ w + i = Cells - 1 => f[i] = NUL
    BY <1>2, <1>3, CellsAre
  <2>2. Holds(f, cc + 1) = NUL
    BY <1>2 DEF Holds
  <2>3. \A i \in 0..cc + 1 - 1 : Holds(f, i) # NUL
    <3> SUFFICES ASSUME NEW i \in 0..cc + 1 - 1 PROVE Holds(f, i) # NUL
      OBVIOUS
    <3>1. CASE i < pos
      <4>1. i \notin pos..cc + 1 /\ i \in 0..cc - 1
        BY <1>2, <3>1
      <4> QED BY <1>2, <4>1 DEF Holds
    <3>2. CASE i = pos
      BY <1>2, <3>2 DEF Holds
    <3>3. CASE i > pos
      <4>1. i \in pos..cc + 1 /\ i # pos /\ i # cc + 1 /\ i - 1 \in 0..cc - 1
        BY <1>2, <3>3
      <4> QED BY <1>2, <4>1 DEF Holds, Cell
    <3> QED BY <1>2, <3>1, <3>2, <3>3
  <2>4. buffer' = Assign(f) /\ cc' = cc + 1
    BY <1>5 DEF Character
  <2> HIDE DEF f
  <2>5. cc + 1 \in Nat /\ w + (cc + 1) < Cells
    BY <1>2, <1>3, CellsAre
  <2>6. IsBuffer(Assign(f)) /\ EndsAt(Assign(f), w, cc + 1)
    <3>1. PICK n : n = cc + 1
      OBVIOUS
    <3>2. n \in Nat /\ w + n < Cells /\ Holds(f, n) = NUL /\ \A i \in 0..n - 1 : Holds(f, i) # NUL
      BY <1>2, <2>2, <2>3, <2>5, <3>1
    <3>3. IsBuffer(Assign(f)) /\ EndsAt(Assign(f), w, n)
      BY <2>1, <3>2, EditedLine
    <3> QED BY <3>1, <3>3
  <2>7. pos' \in 0..cc + 1
    BY <1>1, <1>2
  <2> QED BY <1>1, <2>4, <2>6, <2>7 DEF LineOK
<1> QED BY <1>4, <1>5

\* A text that is copied to the line, with the NUL that ends it.
LEMMA CopyFits ==
  ASSUME Editing, NEW i \in Int, NEW s, IsText(s), w + i + Len(s) < Cells
  PROVE  IsBuffer(CopyTo(i, s))
<1> DEFINE f == [j \in i..i + Len(s) |-> IF j = i + Len(s) THEN NUL ELSE s[j - i + 1]]
<1>1. Len(s) \in Nat /\ w \in Nat /\ IsBuffer(buffer)
  BY ListFacts DEF IsText, Editing
<1>2. \A j \in Int : j \in DOMAIN f /\ w + j = Cells - 1 => f[j] = NUL
  BY <1>1, CellsAre
<1> HIDE DEF f
<1>3. IsBuffer(Assign(f))
  BY <1>1, <1>2, EndKept
<1> QED BY <1>3 DEF f, CopyTo

LEMMA NoTextIsText == IsText(<< >>) /\ Len(<< >>) = 0
<1>1. << >> \in Seq({}) /\ Len(<< >>) = 0
  BY EmptySeq
<1>2. Range(<< >>) = {}
  BY DEF Range
<1> QED BY <1>1, <1>2 DEF IsText, IsList

LEMMA ElementShows ==
  ASSUME Editing, NEW n
  PROVE  IsBuffer(CopyNode(n))
<1> DEFINE f == [j \in 0..NodeLen - 1 |-> n[j]]
<1>1. w \in Nat /\ IsBuffer(buffer) /\ w + NodeLen < Cells
  BY DEF Editing
<1>2. \A j \in Int : j \in DOMAIN f => w + j # Cells - 1
  BY <1>1, CellsAre
<1> HIDE DEF f
<1>3. IsBuffer(Assign(f))
  BY <1>1, <1>2, EndKept
<1> QED BY <1>3 DEF f, CopyNode

LEMMA ShownLine ==
  ASSUME Editing, NEW i, Show(i)
  PROVE  IsBuffer(buffer') /\ LineOK(buffer', cc', pos')
<1>1. w' = w /\ cc' = StringLen(buffer', w) /\ pos' = cc' /\ w \in 0..Cells - 1 /\ w \in Nat
  BY LineFacts DEF Show, KeyPressed, promptVars
<1>2. IsBuffer(buffer')
  <2>1. IsBuffer(CopyTo(0, << >>))
    <3>1. w + 0 + 0 < Cells
      BY <1>1, CellsAre
    <3> QED BY <3>1, NoTextIsText, CopyFits
  <2> QED BY <2>1, ElementShows DEF Show
<1>3. EndsAt(buffer', w, cc')
  BY <1>1, <1>2, StringEnds
<1> QED BY <1>1, <1>2, <1>3 DEF LineOK, EndsAt

LEMMA MaxOfTwo == \A m, n \in Int : Max({m, n}) = IF m >= n THEN m ELSE n
<1> SUFFICES ASSUME NEW m \in Int, NEW n \in Int PROVE Max({m, n}) = IF m >= n THEN m ELSE n
  OBVIOUS
<1> DEFINE k == IF m >= n THEN m ELSE n
<1>1. k \in {m, n} /\ \A y \in {m, n} : k >= y
  OBVIOUS
<1>2. \A x \in {m, n} : (\A y \in {m, n} : x >= y) => x = k
  OBVIOUS
<1> QED BY <1>1, <1>2 DEF Max

LEMMA GreatestNumber ==
  ASSUME NEW T, T \subseteq Nat, T # {}, NEW n \in Nat, \A x \in T : x <= n
  PROVE  Max(T) \in T /\ \A x \in T : x <= Max(T)
<1> DEFINE D == {n - x : x \in T}
<1>1. D \subseteq Nat /\ D # {}
  <2>1. \A x \in T : n - x \in Nat
    OBVIOUS
  <2> QED BY <2>1
<1>2. PICK d \in D : \A e \in D : d <= e
  BY <1>1, LeastNumber
<1>3. PICK m \in T : d = n - m
  BY <1>2
<1>4. \A x \in T : n - m <= n - x
  BY <1>2, <1>3
<1>5. \A x \in T : m >= x
  BY <1>3, <1>4
<1>6. Max(T) \in T /\ \A x \in T : Max(T) >= x
  BY <1>3, <1>5 DEF Max
<1> QED BY <1>6

LEMMA StringIsText ==
  ASSUME NEW b, IsBuffer(b), NEW i \in 0..Cells - 1
  PROVE  IsText(StringAt(b, i)) /\ Len(StringAt(b, i)) = StringLen(b, i)
<1>1. PICK n : n = StringLen(b, i)
  OBVIOUS
<1>2. n \in Nat /\ \A m \in 0..n - 1 : b[i + m] # NUL
  BY <1>1, StringEnds DEF EndsAt
<1>3. PICK s : s = [k \in 1..n |-> b[i + k - 1]]
  OBVIOUS
<1>4. s = StringAt(b, i)
  BY <1>1, <1>3 DEF StringAt
<1>5. IsList(s) /\ Len(s) = n
  BY <1>2, <1>3, FunctionIsList
<1>6. \A k \in 1..n : s[k] # NUL
  <2> SUFFICES ASSUME NEW k \in 1..n PROVE s[k] # NUL
    OBVIOUS
  <2>1. k - 1 \in 0..n - 1 /\ i + k - 1 = i + (k - 1)
    BY <1>2
  <2> QED BY <1>2, <1>3, <2>1
<1>7. NUL \notin Range(s)
  BY <1>3, <1>6 DEF Range
<1> QED BY <1>1, <1>4, <1>5, <1>7 DEF IsText

LEMMA PartIsList ==
  ASSUME NEW l, IsList(l), NEW m \in 1..Len(l) + 1, NEW n \in 0..Len(l)
  PROVE  IsList(SubSeq(l, m, n))
<1>1. l \in Seq(Range(l)) /\ Len(l) \in Nat
  BY ListFacts
<1>2. \A i \in m..n : l[i] \in Range(l)
  BY <1>1, LenProperties DEF Range
<1>3. SubSeq(l, m, n) \in Seq(Range(l))
  BY <1>1, <1>2, SubSeqProperties
<1> QED BY <1>3 DEF IsList

LEMMA KeysAre ==
  ASSUME keydef \in [Keys -> UsableKey \cup {NoKey}], NEW i \in Keys, keydef[i] # NoKey
  PROVE  /\ keydef[i].echo \/ keydef[i].terminate
         /\ IsText(keydef[i].value) /\ Len(keydef[i].value) <= NodeLen
<1>1. keydef[i] \in KeyDefs /\ (keydef[i].echo \/ keydef[i].terminate)
  BY DEF UsableKey, Key
<1>2. keydef[i].value \in KeyTexts
  BY <1>1 DEF KeyTexts
<1>3. \A s \in KeyTexts : IsText(s) /\ Len(s) <= NodeLen
  BY TextsAssumption DEF IsText, IsList
<1> QED BY <1>1, <1>2, <1>3

LEMMA KeyLineFits ==
  ASSUME Editing, NEW k, IsText(k.value), Len(k.value) <= NodeLen
  PROVE  IsBuffer(KeyLine(k))
<1>1. w \in Nat /\ maxlen \in Nat /\ w + maxlen < Cells /\ w + NodeLen < Cells /\ IsBuffer(buffer) /\ Len(k.value) \in Nat
  BY ListFacts DEF Editing, IsText
<1>2. CASE k.erase
  <2>1. w + 0 + Len(k.value) < Cells
    BY <1>1, CellsAre
  <2> QED BY <1>2, <2>1, CopyFits DEF KeyLine
<1>3. CASE ~k.erase
  <2> DEFINE rest == IF insert_mode THEN SubSeq(Line, pos + 1, cc) ELSE << >>
             length == Min({Max({Len(k.value), Len(rest)}), maxlen})
             f == [i \in 0..length - 1 |-> IF i < Len(rest) THEN rest[i + 1] ELSE k.value[i + 1]]
  <2>1. Len(rest) \in Nat
    <3>1. cc = StringLen(buffer, w) /\ pos \in 0..cc /\ cc \in Nat /\ w \in 0..Cells - 1
      BY LineFacts, LengthIs DEF Editing, LineOK
    <3>2. IsList(Line) /\ Len(Line) = cc
      BY <1>1, <3>1, StringIsText DEF Line, IsText
    <3>3. pos + 1 \in 1..Len(Line) + 1 /\ cc \in 0..Len(Line)
      BY <3>1, <3>2
    <3>4. IsList(SubSeq(Line, pos + 1, cc))
      BY <3>2, <3>3, PartIsList
    <3>5. IsList(rest)
      BY <3>4, NoTextIsText DEF IsText
    <3> HIDE DEF rest
    <3> QED BY <3>5, ListFacts
  <2>2. length \in Int /\ length <= maxlen
    <3> HIDE DEF rest
    <3>1. PICK m : m = Max({Len(k.value), Len(rest)})
      OBVIOUS
    <3>2. m \in Int
      <4>1. Len(k.value) \in Int /\ Len(rest) \in Int
        BY <1>1, <2>1
      <4> QED BY <3>1, <4>1, MaxOfTwo
    <3>3. length = Min({m, maxlen}) /\ maxlen \in Int
      BY <1>1, <3>1
    <3> QED BY <3>2, <3>3, MinOfTwo
  <2>3. \A i \in Int : i \in DOMAIN f /\ w + i = Cells - 1 => f[i] = NUL
    <3> HIDE DEF length, rest
    <3> QED BY <1>1, <2>2, CellsAre
  <2>4. KeyLine(k) = Assign(f)
    BY <1>3 DEF KeyLine
  <2> HIDE DEF f
  <2> QED BY <1>1, <2>3, <2>4, EndKept
<1> QED BY <1>2, <1>3

LEMMA KeyTyped ==
  ASSUME Editing, NEW k, IsText(k.value), Len(k.value) <= NodeLen, k.echo \/ k.terminate, FunctionKey(k)
  PROVE  IsBuffer(buffer') /\ (phase' = "line" => LineOK(buffer', cc', pos'))
<1>1. w' = w /\ buffer' = KeyLine(k) /\ cc' = StringLen(buffer', w') /\ w \in 0..Cells - 1
  BY LineFacts DEF FunctionKey, KeyPressed, promptVars
<1>2. IsBuffer(buffer')
  BY <1>1, KeyLineFits
<1>3. EndsAt(buffer', w, cc')
  BY <1>1, <1>2, StringEnds
<1>4. phase' = "line" => pos' = cc'
  BY DEF FunctionKey
<1> QED BY <1>1, <1>2, <1>3, <1>4 DEF LineOK, EndsAt

(***************************************************************************)
(* TAB.  The word begins in the line; when it leaves the cells the model   *)
(* stops, since the line then has no end in them.                          *)
(***************************************************************************)
LEMMA WordInLine ==
  ASSUME Editing, pos > 0
  PROVE  /\ WordCell \in 0..cc
         /\ Cell(WordCell) = NUL => WordCell = cc /\ cc > 0
<1>1. /\ cc \in Nat /\ pos \in 0..cc /\ pos \in Nat
      /\ Cell(cc) = NUL /\ \A m \in 0..cc - 1 : Cell(m) # NUL
  BY LineFacts DEF Cell
<1>2. BLANK # NUL /\ AT # NUL
  BY TextsAssumption
<1>3. Back \in 0..pos /\ (Back = 0 \/ Blank(Back))
  <2> DEFINE T == {0} \cup {i \in 0..pos : Blank(i)}
  <2>1. T \subseteq Nat /\ T # {} /\ \A x \in T : x <= pos
    BY <1>1
  <2>2. Max(T) \in T
    BY <1>1, <2>1, GreatestNumber
  <2> QED BY <1>1, <2>2 DEF Back
<1> DEFINE p == AfterBlank
<1>4. p \in 0..cc
  <2>1. CASE Blank(Back)
    <3>1. Back # cc
      BY <1>1, <1>2, <2>1 DEF Blank
    <3>2. Back + 1 \in 0..cc
      BY <1>1, <1>3, <3>1
    <3> QED BY <2>1, <3>2 DEF AfterBlank
  <2>2. CASE ~Blank(Back)
    BY <1>1, <1>3, <2>2 DEF AfterBlank
  <2> QED BY <2>1, <2>2
<1> HIDE DEF p
<1>5. WordCell \in 0..cc
  <2>1. CASE Cell(p) = AT
    <3>1. p # cc
      BY <1>1, <1>2, <2>1
    <3>2. p + 1 \in 0..cc
      BY <1>1, <1>4, <3>1
    <3> QED BY <2>1, <3>2 DEF WordCell, p
  <2>2. CASE Cell(p) # AT
    BY <1>4, <2>2 DEF WordCell, p
  <2> QED BY <2>1, <2>2
<1>6. PICK q : q = WordCell
  OBVIOUS
<1>7. Cell(q) = NUL => q = cc
  <2>1. q \in 0..cc /\ (q \in 0..cc - 1 \/ q = cc)
    BY <1>1, <1>5, <1>6
  <2> QED BY <1>1, <2>1
<1> QED BY <1>1, <1>5, <1>6, <1>7

LEMMA CompletedLine ==
  ASSUME Editing, NEW i \in 0..cc, NEW s, IsText(s), w + StringLen(CopyTo(i, s), w) < Cells
  PROVE  IsBuffer(CopyTo(i, s)) /\ StringLen(CopyTo(i, s), w) = i + Len(s)
<1> DEFINE f == [j \in i..i + Len(s) |-> IF j = i + Len(s) THEN NUL ELSE s[j - i + 1]]
<1>1. /\ w \in Nat /\ cc \in Nat /\ w + cc < Cells /\ i \in Nat /\ w \in 0..Cells - 1
      /\ (\A m \in 0..cc - 1 : buffer[w + m] # NUL) /\ IsBuffer(buffer)
  BY LineFacts DEF Editing
<1>2. PICK n : n = i + Len(s)
  OBVIOUS
<1>3. Len(s) \in Nat /\ n \in Nat /\ DOMAIN s = 1..Len(s)
  BY <1>1, <1>2, ListFacts DEF IsText
<1>4. Holds(f, n) = NUL
  BY <1>1, <1>2, <1>3 DEF Holds
<1>5. \A m \in 0..n - 1 : Holds(f, m) # NUL
  <2> SUFFICES ASSUME NEW m \in 0..n - 1 PROVE Holds(f, m) # NUL
    OBVIOUS
  <2>1. CASE m < i
    <3>1. m \notin i..i + Len(s) /\ m \in 0..cc - 1
      BY <1>1, <1>3, <2>1
    <3> QED BY <1>1, <3>1 DEF Holds
  <2>2. CASE m >= i
    <3>1. m \in i..i + Len(s) /\ m # i + Len(s) /\ m - i + 1 \in 1..Len(s)
      BY <1>1, <1>2, <1>3, <2>2
    <3>2. s[m - i + 1] # NUL
      BY <1>3, <3>1 DEF IsText, Range
    <3> QED BY <3>1, <3>2 DEF Holds
  <2> QED BY <1>1, <1>3, <2>1, <2>2
<1>6. CopyTo(i, s) = Assign(f)
  BY DEF CopyTo
<1>7. DOMAIN f = i..i + Len(s)
  OBVIOUS
<1> HIDE DEF f
<1>8. CASE w + n < Cells
  <2>1. \A j \in Int : j \in DOMAIN f /\ w + j = Cells - 1 => f[j] = NUL
    <3> SUFFICES ASSUME NEW j \in Int, j \in DOMAIN f, w + j = Cells - 1 PROVE f[j] = NUL
      OBVIOUS
    <3>1. j = n
      BY <1>1, <1>2, <1>3, <1>7, <1>8, CellsAre
    <3> QED BY <1>4, <3>1 DEF Holds
  <2>2. IsBuffer(Assign(f)) /\ EndsAt(Assign(f), w, n)
    BY <1>3, <1>4, <1>5, <1>8, <2>1, EditedLine
  <2>3. n = StringLen(Assign(f), w)
    BY <1>1, <2>2, LengthIs
  <2> QED BY <1>2, <1>6, <2>2, <2>3
<1>9. CASE w + n >= Cells
  <2>1. PICK b : b = Assign(f)
    OBVIOUS
  <2>2. DOMAIN b = 0..Cells - 1
    BY <1>1, <2>1, Assigned
  <2>3. \A m \in 0..Cells - 1 - w : w + m \in DOMAIN b /\ b[w + m] # NUL
    <3> SUFFICES ASSUME NEW m \in 0..Cells - 1 - w PROVE w + m \in DOMAIN b /\ b[w + m] # NUL
      OBVIOUS
    <3>1. m \in Int /\ w + m \in 0..Cells - 1 /\ m \in 0..n - 1
      BY <1>1, <1>3, <1>9, CellsAre
    <3>2. b[w + m] = Holds(f, m)
      BY <1>1, <2>1, <3>1, Assigned DEF Holds
    <3> QED BY <1>5, <2>2, <3>1, <3>2
  <2> DEFINE Ends(k) == /\ w + k \notin DOMAIN b \/ b[w + k] = NUL
                        /\ \A m \in 0..k - 1 : w + m \in DOMAIN b /\ b[w + m] # NUL
  <2>4. Cells - w \in 0..Cells /\ Ends(Cells - w)
    <3>1. Cells - w \in 0..Cells /\ w + (Cells - w) = Cells /\ Cells - w - 1 = Cells - 1 - w /\ Cells \notin DOMAIN b
      BY <1>1, <2>2, CellsAre
    <3> QED BY <2>3, <3>1
  <2>5. PICK k : k = StringLen(b, w)
    OBVIOUS
  <2>6. k \in 0..Cells /\ Ends(k)
    BY <2>4, <2>5 DEF StringLen
  <2>7. w + k < Cells
    BY <1>6, <2>1, <2>5
  <2>8. k \in 0..Cells - 1 - w
    BY <1>1, <2>6, <2>7, CellsAre
  <2> QED BY <2>3, <2>6, <2>8
<1> QED BY <1>1, <1>3, <1>8, <1>9, CellsAre

LEMMA WordCompleted ==
  ASSUME Editing, NEW i \in 0..cc, NEW word, IsText(word), NEW file, NEW name, file => IsText(name),
         Complete(i, word, file, name), cc' = StringLen(buffer', w), w + cc' < Cells
  PROVE  /\ IsBuffer(buffer') /\ EndsAt(buffer', w, cc') /\ i \in 0..cc'
         /\ szSearch' = word /\ (fFile' => IsText(found'))
<1>1. PICK s : s = IF file THEN name ELSE word
  OBVIOUS
<1>2. IsText(s) /\ buffer' = CopyTo(i, s)
  BY <1>1 DEF Complete
<1>3. w + StringLen(CopyTo(i, s), w) < Cells
  BY <1>2
<1>4. IsBuffer(CopyTo(i, s)) /\ StringLen(CopyTo(i, s), w) = i + Len(s)
  BY <1>2, <1>3, CompletedLine
<1>5. cc \in Nat /\ w \in 0..Cells - 1 /\ Len(s) \in Nat
  BY <1>2, LineFacts, ListFacts DEF IsText
<1>6. i \in 0..cc'
  BY <1>2, <1>4, <1>5
<1>7. EndsAt(buffer', w, cc')
  BY <1>2, <1>4, <1>5, StringEnds
<1>8. szSearch' = word /\ (fFile' => IsText(found'))
  BY DEF Complete
<1> QED BY <1>2, <1>4, <1>6, <1>7, <1>8

LEMMA FilesAreTexts == \A s \in Files \cup Leftovers : IsText(s)
BY TextsAssumption DEF IsText, IsList

LEMMA SearchBegins ==
  ASSUME Editing, SearchInv, phase' = "line", ~tab.open, NEW i \in 0..cc, NEW word, IsText(word),
         tab.on => i = tab.cell, SearchFirst(i, word), cc' = StringLen(buffer', w), w + cc' < Cells
  PROVE  IsBuffer(buffer') /\ EndsAt(buffer', w, cc') /\ SearchInv'
<1>1. tab \in [on : BOOLEAN, open : BOOLEAN, cell : Int, rest : SUBSET Files] /\ (fFile => IsText(found))
  BY DEF SearchInv
<1>2. CASE Matches(word) = {} /\ tab' = tab /\ Complete(i, word, fFile, found)
  <2>1. /\ IsBuffer(buffer') /\ EndsAt(buffer', w, cc') /\ i \in 0..cc'
        /\ szSearch' = word /\ (fFile' => IsText(found'))
    BY <1>1, <1>2, WordCompleted
  <2> QED BY <1>1, <1>2, <2>1 DEF SearchInv
<1>3. ASSUME NEW name \in Matches(word),
             tab' = [on |-> TRUE, open |-> TRUE, cell |-> i, rest |-> Matches(word) \ {name}],
             Complete(i, word, TRUE, name)
      PROVE  IsBuffer(buffer') /\ EndsAt(buffer', w, cc') /\ SearchInv'
  <2>1. Matches(word) \subseteq Files
    BY DEF Matches
  <2>2. IsText(name)
    BY <2>1, FilesAreTexts
  <2>3. /\ IsBuffer(buffer') /\ EndsAt(buffer', w, cc') /\ i \in 0..cc'
        /\ szSearch' = word /\ (fFile' => IsText(found'))
    BY <1>3, <2>2, WordCompleted
  <2>4. i \in Int
    OBVIOUS
  <2>5. tab' \in [on : BOOLEAN, open : BOOLEAN, cell : Int, rest : SUBSET Files] /\ tab'.cell = i
    BY <1>3, <2>1, <2>4
  <2> QED BY <2>3, <2>5 DEF SearchInv
<1> QED BY <1>2, <1>3 DEF SearchFirst

LEMMA SearchGoesOn ==
  ASSUME Editing, SearchInv, phase = "line", phase' = "line", tab.open, SearchNext,
         cc' = StringLen(buffer', w), w + cc' < Cells
  PROVE  IsBuffer(buffer') /\ EndsAt(buffer', w, cc') /\ SearchInv'
<1>1. /\ tab \in [on : BOOLEAN, open : BOOLEAN, cell : Int, rest : SUBSET Files]
      /\ tab.cell \in 0..cc /\ IsText(szSearch)
  BY DEF SearchInv
<1>2. CASE tab.rest = {} /\ tab' = [tab EXCEPT !.open = FALSE] /\ Complete(tab.cell, szSearch, FALSE, << >>)
  <2>1. /\ IsBuffer(buffer') /\ EndsAt(buffer', w, cc') /\ tab.cell \in 0..cc'
        /\ szSearch' = szSearch /\ (fFile' => IsText(found'))
    BY <1>1, <1>2, WordCompleted
  <2>2. tab' \in [on : BOOLEAN, open : BOOLEAN, cell : Int, rest : SUBSET Files] /\ tab'.cell = tab.cell
    BY <1>1, <1>2
  <2> QED BY <1>1, <2>1, <2>2 DEF SearchInv
<1>3. ASSUME NEW name \in tab.rest, tab' = [tab EXCEPT !.rest = @ \ {name}], Complete(tab.cell, szSearch, TRUE, name)
      PROVE  IsBuffer(buffer') /\ EndsAt(buffer', w, cc') /\ SearchInv'
  <2>1. IsText(name)
    BY <1>1, FilesAreTexts
  <2>2. /\ IsBuffer(buffer') /\ EndsAt(buffer', w, cc') /\ tab.cell \in 0..cc'
        /\ szSearch' = szSearch /\ (fFile' => IsText(found'))
    BY <1>1, <1>3, <2>1, WordCompleted
  <2>3. tab' \in [on : BOOLEAN, open : BOOLEAN, cell : Int, rest : SUBSET Files] /\ tab'.cell = tab.cell
    BY <1>1, <1>3
  <2> QED BY <1>1, <2>2, <2>3 DEF SearchInv
<1> QED BY <1>2, <1>3 DEF SearchNext

LEMMA NothingSearched ==
  ASSUME Editing, SearchInv, phase' = "line", ~tab.open, ~tab.on, pos > 0, Cell(WordCell) = NUL,
         SearchUnset(WordCell), cc' = StringLen(buffer', w), w + cc' < Cells
  PROVE  IsBuffer(buffer') /\ EndsAt(buffer', w, cc') /\ SearchInv'
<1>1. WordCell = cc /\ cc > 0 /\ cc \in Nat /\ w \in 0..Cells - 1
  BY WordInLine, LineFacts
<1>2. PICK i \in {cc, cc - 1} : \E s : IsText(s) /\ buffer' = CopyTo(i, s)
  BY <1>1, FilesAreTexts, NoTextIsText DEF SearchUnset
<1>3. PICK s : IsText(s) /\ buffer' = CopyTo(i, s)
  BY <1>2
<1>4. i \in 0..cc
  BY <1>1
<1>5. w + StringLen(CopyTo(i, s), w) < Cells
  BY <1>3
<1>6. IsBuffer(buffer')
  BY <1>3, <1>4, <1>5, CompletedLine
<1>7. EndsAt(buffer', w, cc')
  BY <1>1, <1>6, StringEnds
<1>8. tab' = tab /\ szSearch' = szSearch /\ fFile' = fFile /\ found' = found
  BY DEF SearchUnset, tabVars
<1>9. SearchInv'
  BY <1>8 DEF SearchInv
<1> QED BY <1>6, <1>7, <1>9

LEMMA TabKeepsLine ==
  ASSUME Editing, SearchInv, Tab
  PROVE  IsBuffer(buffer') /\ LineOK(buffer', cc', pos') /\ SearchInv'
<1>1. /\ phase = "line" /\ phase' = "line" /\ pos > 0 /\ w' = w
      /\ cc' = StringLen(buffer', w) /\ pos' = cc' /\ w + cc' < Cells
  BY DEF Tab, Stay, InMemory, promptVars
<1>2. WordCell \in 0..cc
  BY <1>1, WordInLine
<1>3. w + WordCell \in 0..Cells - 1 /\ IsBuffer(buffer)
  BY <1>2, LineFacts, CellsAre DEF Editing
<1>4. IsText(StringAt(buffer, w + WordCell))
  BY <1>3, StringIsText
<1>5. tab.on \/ tab.open => tab.cell \in 0..cc /\ IsText(szSearch)
  BY DEF SearchInv
<1>6. szSearch = Unset \/ IsText(szSearch)
  BY DEF SearchInv
<1>7. CASE tab.open
  <2>1. SearchNext
    BY <1>7 DEF Tab
  <2> QED BY <1>1, <1>7, <2>1, SearchGoesOn DEF LineOK, EndsAt
<1>8. CASE ~tab.open /\ tab.on
  <2>1. SearchFirst(tab.cell, szSearch)
    BY <1>8 DEF Tab
  <2>2. IsBuffer(buffer') /\ EndsAt(buffer', w, cc') /\ SearchInv'
    BY <1>1, <1>5, <1>8, <2>1, SearchBegins
  <2> QED BY <1>1, <2>2 DEF LineOK, EndsAt
<1>9. CASE ~tab.open /\ ~tab.on
  <2>1. \/ SearchFirst(WordCell, StringAt(buffer, w + WordCell))
        \/ szSearch # Unset /\ SearchFirst(WordCell, szSearch)
        \/ Cell(WordCell) = NUL /\ SearchUnset(WordCell)
    BY <1>9 DEF Tab
  <2>2. ASSUME NEW word, IsText(word), SearchFirst(WordCell, word)
        PROVE  IsBuffer(buffer') /\ EndsAt(buffer', w, cc') /\ SearchInv'
    BY <1>1, <1>2, <1>9, <2>2, SearchBegins
  <2>3. CASE Cell(WordCell) = NUL /\ SearchUnset(WordCell)
    BY <1>1, <1>9, <2>3, NothingSearched DEF LineOK, EndsAt
  <2>4. IsBuffer(buffer') /\ EndsAt(buffer', w, cc') /\ SearchInv'
    BY <1>4, <1>6, <2>1, <2>2, <2>3 DEF LineOK
  <2> QED BY <1>1, <2>4 DEF LineOK, EndsAt
<1> QED BY <1>7, <1>8, <1>9

(***************************************************************************)
(* The steps.                                                              *)
(***************************************************************************)
LEMMA KeyKeepsEditor ==
  ASSUME EditorInv, EditKey
  PROVE  EditorInv'
<1>1. phase = "line" /\ UNCHANGED <<use, w, maxlen, keydef, list>> /\ at' \in 0..Len(list')
  <2>1. phase = "line" /\ UNCHANGED <<use, w, maxlen, keydef, list>> /\ (Up \/ Down \/ at' = at)
    BY DEF EditKey, ToggleInsert, MoveCursor, Backspace, DeleteChar, EraseToEnd, EraseToStart, Typed, Character,
           FunctionKey, Enter, Abandon, Tab, KeyPressed, promptVars, Up, Down, Show
  <2>2. at \in 0..Len(list) /\ Len(list) \in Nat
    BY <2>1, ListFacts DEF EditorInv, ListInv
  <2>3. Up \/ Down => at' \in 0..Len(list)
    BY <2>2 DEF Up, Down, Show
  <2> QED BY <2>1, <2>2, <2>3
<1>2. Editing /\ SearchInv
  BY <1>1 DEF EditorInv, CellsInv, Editing
<1>3. /\ IsBuffer(buffer') /\ phase' \in {"line", "entered"} /\ SearchInv'
      /\ phase' = "line" => LineOK(buffer', cc', pos')
  <2>1. ASSUME KeyPressed
        PROVE  w' = w /\ SearchInv'
    <3>1. NoSearch \in [on : BOOLEAN, open : BOOLEAN, cell : Int, rest : SUBSET Files] /\ ~NoSearch.on /\ ~NoSearch.open
      BY DEF NoSearch
    <3>2. tab' = NoSearch /\ szSearch' = szSearch /\ fFile' = fFile /\ found' = found /\ w' = w
      BY <2>1 DEF KeyPressed, promptVars
    <3> QED BY <1>2, <3>1, <3>2 DEF SearchInv
  <2>2. CASE ToggleInsert
    <3>1. buffer' = buffer /\ cc' = cc /\ pos' = pos /\ phase' = "line" /\ KeyPressed
      BY <1>1, <2>2 DEF ToggleInsert, Stay, lineVars
    <3> QED BY <1>2, <2>1, <3>1 DEF Editing, LineOK, EndsAt
  <2>3. CASE MoveCursor \/ Backspace \/ DeleteChar \/ EraseToEnd \/ EraseToStart
    <3>1. KeyPressed /\ phase' = "line"
      BY <1>1, <2>3 DEF MoveCursor, Backspace, DeleteChar, EraseToEnd, EraseToStart, Typed, Stay
    <3> QED BY <1>2, <2>1, <2>3, <3>1, CursorMoves, CharacterGoes, PartGoes
  <2>4. ASSUME NEW ch \in Chars[use], Character(ch)
        PROVE  /\ IsBuffer(buffer') /\ phase' \in {"line", "entered"} /\ SearchInv'
               /\ phase' = "line" => LineOK(buffer', cc', pos')
    <3>1. KeyPressed /\ phase' \in {"line", "entered"}
      BY <2>4 DEF Character
    <3>2. ch # NUL
      BY CharactersAre DEF EditorInv
    <3> QED BY <1>2, <2>1, <2>4, <3>1, <3>2, CharacterEnters
  <2>5. ASSUME NEW i, Show(i)
        PROVE  /\ IsBuffer(buffer') /\ phase' \in {"line", "entered"} /\ SearchInv'
               /\ phase' = "line" => LineOK(buffer', cc', pos')
    <3>1. KeyPressed /\ phase' = "line"
      BY <1>1, <2>5 DEF Show, Stay
    <3> QED BY <1>2, <2>1, <2>5, <3>1, ShownLine
  <2>6. ASSUME NEW i \in Keys, FunctionKey(keydef[i])
        PROVE  /\ IsBuffer(buffer') /\ phase' \in {"line", "entered"} /\ SearchInv'
               /\ phase' = "line" => LineOK(buffer', cc', pos')
    <3>1. KeyPressed /\ phase' \in {"line", "entered"} /\ keydef[i] # NoKey
      BY <2>6 DEF FunctionKey
    <3>2. /\ keydef[i].echo \/ keydef[i].terminate
          /\ IsText(keydef[i].value) /\ Len(keydef[i].value) <= NodeLen
      BY <3>1, KeysAre DEF EditorInv
    <3> QED BY <1>2, <2>1, <2>6, <3>1, <3>2, KeyTyped
  <2>7. CASE Enter
    <3>1. KeyPressed /\ phase' = "entered" /\ buffer' = buffer
      BY <2>7 DEF Enter, lineVars
    <3> QED BY <1>2, <2>1, <3>1 DEF Editing
  <2>8. CASE Abandon
    <3>1. KeyPressed /\ phase' = "entered" /\ buffer' = CopyTo(0, << >>)
      BY <2>8 DEF Abandon
    <3>2. w + 0 + 0 < Cells
      BY LineFacts, <1>2, CellsAre
    <3>3. IsBuffer(buffer')
      BY <1>2, <3>1, <3>2, NoTextIsText, CopyFits
    <3> QED BY <2>1, <3>1, <3>3
  <2>9. CASE Tab
    <3>1. phase' = "line"
      BY <1>1, <2>9 DEF Tab, Stay
    <3> QED BY <1>2, <2>9, <3>1, TabKeepsLine
  <2> QED BY <2>2, <2>3, <2>4, <2>5, <2>6, <2>7, <2>8, <2>9 DEF EditKey, Up, Down
<1>4. CellsInv'
  BY <1>1, <1>3 DEF EditorInv, CellsInv, LineOK
<1>5. ListInv'
  BY <1>1, <1>3 DEF EditorInv, ListInv
<1> QED BY <1>1, <1>3, <1>4, <1>5 DEF EditorInv

LEMMA BegunLine ==
  ASSUME EditorInv, NEW b, NEW i, NEW n, Begin(b, i, n), IsBuffer(b), i \in Nat, n \in Nat, i + n < Cells, i + NodeLen < Cells,
         phase \in {"prompt", "continue"}, phase' \in {"line", "entered"}, list' = list
  PROVE  EditorInv'
<1>1. /\ buffer' = b /\ w' = i /\ cc' = StringLen(b, i) /\ pos' = cc' /\ maxlen' = n
      /\ UNCHANGED <<tab, szSearch, fFile, found, at, keydef, use>>
  BY DEF Begin, tabVars
<1>2. i \in 0..Cells - 1
  BY CellsAre
<1>3. EndsAt(b, i, cc')
  BY <1>1, <1>2, StringEnds
<1>4. LineOK(buffer, cc, pos)'
  BY <1>1, <1>3 DEF LineOK, EndsAt
<1>5. CellsInv'
  BY <1>1, <1>4 DEF CellsInv
<1>6. ListInv'
  <2>1. at' = 0 /\ IsList(list) /\ Len(list) <= MAX_KBD_STACK + 1 /\ Len(list) \in Nat
    BY <1>1, ListFacts DEF EditorInv, ListInv
  <2> QED BY <2>1 DEF ListInv
<1>7. SearchInv'
  BY <1>1 DEF EditorInv, SearchInv
<1> QED BY <1>1, <1>5, <1>6, <1>7 DEF EditorInv

LEMMA WipedCells ==
  ASSUME IsBuffer(buffer), NEW i
  PROVE  IsBuffer(Wiped(i))
<1>1. Cells - 1 \in 0..Cells - 1
  BY CellsAre
<1> QED BY <1>1 DEF IsBuffer, Wiped

LEMMA NoStringInCells == IsBuffer(NoString)
<1>1. Cells - 1 \in 0..Cells - 1
  BY CellsAre
<1> QED BY <1>1 DEF IsBuffer, NoString

LEMMA UsedCells ==
  ASSUME IsBuffer(buffer), NEW b \in Used
  PROVE  IsBuffer(b) /\ IsBuffer([b EXCEPT ![0] = NUL])
<1>1. Cells - 1 \in 0..Cells - 1
  BY CellsAre
<1>2. PICK c : b = [j \in 0..Cells - 1 |-> IF j = Cells - 1 THEN NUL ELSE c]
  BY DEF Used, IsBuffer
<1> QED BY <1>1, <1>2 DEF IsBuffer

LEMMA PromptKeepsEditor ==
  ASSUME EditorInv, dcl_read_kbd \/ Ask \/ ContinueLine
  PROVE  EditorInv'
<1>1. IsBuffer(buffer)
  BY DEF EditorInv, CellsInv
<1>2. 0 \in Nat /\ NodeLen \in Nat /\ 0 + NodeLen < Cells
  BY CellsAre
<1>3. CASE dcl_read_kbd
  <2>1. PICK b : b = (IF recall THEN buffer ELSE Wiped(0))
    OBVIOUS
  <2>2. IsBuffer(b)
    BY <1>1, <2>1, WipedCells
  <2>3. Begin(b, 0, NodeLen) /\ phase = "prompt" /\ phase' = "line"
    BY <1>3, <2>1 DEF dcl_read_kbd
  <2>4. list' = list
    BY <2>3 DEF Begin
  <2> QED BY <1>2, <2>2, <2>3, <2>4, BegunLine
<1>4. CASE Ask
  <2>1. PICK b \in {NoString} \cup {[used EXCEPT ![0] = NUL] : used \in Used} : Begin(b, 0, Length[use])
    BY <1>4 DEF Ask
  <2>2. IsBuffer(b)
    BY <1>1, NoStringInCells, UsedCells
  <2>3. phase = "prompt" /\ phase' \in {"line", "entered"} /\ list' = list /\ use \in DOMAIN Length
    BY <1>4, <2>1 DEF Ask, Begin, EditorInv
  <2>4. Length[use] \in Nat /\ 0 + Length[use] < Cells
    BY <2>3, LengthsAssumption
  <2> QED BY <1>2, <2>1, <2>2, <2>3, <2>4, BegunLine
<1>5. CASE ContinueLine
  <2>1. PICK end : end = StringLen(buffer, 0) - 1
    OBVIOUS
  <2>2. Begin(Wiped(end), end, NodeLen) /\ phase = "continue" /\ phase' = "line"
    BY <1>5, <2>1 DEF ContinueLine
  <2>3. end \in 0..Cells - NodeLen - 1
    BY <2>1, <2>2 DEF EditorInv, CellsInv
  <2>4. end \in Nat /\ end + NodeLen < Cells
    BY <2>3, CellsAre
  <2>5. list' = list /\ IsBuffer(Wiped(end))
    BY <1>1, <2>2, WipedCells DEF Begin
  <2> QED BY <1>2, <2>2, <2>4, <2>5, BegunLine
<1> QED BY <1>3, <1>4, <1>5

\* Away from a line nothing is searched and the list has no current element.
LEMMA AwayKeepsEditor ==
  ASSUME EditorInv, phase' \in {"prompt", "continue", "run"}, IsBuffer(buffer'), UNCHANGED <<use, w, maxlen>>,
         keydef' \in [Keys -> UsableKey \cup {NoKey}], IsList(list'), Len(list') <= MAX_KBD_STACK + 1, at' = 0, SearchInv',
         phase' = "continue" => use = "commands" /\ StringLen(buffer', 0) - 1 \in 0..Cells - NodeLen - 1
  PROVE  EditorInv'
<1>1. CellsInv'
  BY DEF EditorInv, CellsInv
<1>2. ListInv'
  BY DEF ListInv
<1> QED BY <1>1, <1>2 DEF EditorInv

LEMMA KeepingKeepsEditor ==
  ASSUME EditorInv, KeepLine
  PROVE  EditorInv'
<1>1. /\ UNCHANGED <<use, w, maxlen, keydef>> /\ at' = 0
      /\ tab' = NoSearch /\ szSearch' = Unset /\ ~fFile'
  BY DEF KeepLine, Return, promptVars
<1>2. IsBuffer(buffer)
  BY DEF EditorInv, CellsInv
<1>3. IsBuffer(buffer')
  BY <1>2, NoStringInCells DEF KeepLine
<1>4. IsList(list') /\ Len(list') <= MAX_KBD_STACK + 1
  <2>1. IsList(list) /\ Len(list) <= MAX_KBD_STACK + 1
    BY DEF EditorInv, ListInv
  <2>2. IsList(<<NodeOf(Line)>> \o list)
    BY <2>1, LongerList
  <2>3. list' \in {list, Limited(<<NodeOf(Line)>> \o list)}
    BY DEF KeepLine
  <2> QED BY <2>1, <2>2, <2>3, LimitedIsList
<1>5. phase' \in {"prompt", "continue", "run"}
  BY DEF KeepLine
<1>6. phase' = "continue" => use = "commands" /\ StringLen(buffer', 0) - 1 \in 0..Cells - NodeLen - 1
  <2> SUFFICES ASSUME phase' = "continue" PROVE use = "commands" /\ StringLen(buffer', 0) - 1 \in 0..Cells - NodeLen - 1
    OBVIOUS
  <2>1. Continued
    BY DEF KeepLine
  <2>2. PICK n : n = StringLen(buffer, 0)
    OBVIOUS
  <2>3. use = "commands" /\ n - 1 >= 0 /\ n - 1 < Cells - NodeLen
    BY <2>1, <2>2 DEF Continued
  <2>4. buffer' = buffer
    BY <2>3 DEF KeepLine
  <2>5. n \in Nat
    <3>1. 0 \in 0..Cells - 1
      BY CellsAre
    <3> QED BY <1>2, <2>2, <3>1, StringEnds DEF EndsAt
  <2>6. n - 1 \in 0..Cells - NodeLen - 1
    BY <2>3, <2>5, CellsAre
  <2> QED BY <2>2, <2>3, <2>4, <2>6
<1>7. SearchInv'
  <2>1. NoSearch \in [on : BOOLEAN, open : BOOLEAN, cell : Int, rest : SUBSET Files] /\ ~NoSearch.on /\ ~NoSearch.open
    BY DEF NoSearch
  <2> QED BY <1>1, <2>1 DEF SearchInv
<1>8. keydef' \in [Keys -> UsableKey \cup {NoKey}]
  BY <1>1 DEF EditorInv
<1> QED BY <1>1, <1>3, <1>4, <1>5, <1>6, <1>7, <1>8, AwayKeepsEditor

LEMMA KeyCommandKeepsKeys ==
  ASSUME keydef \in [Keys -> UsableKey \cup {NoKey}], KeyCommand
  PROVE  keydef' \in [Keys -> UsableKey \cup {NoKey}]
<1>1. ASSUME NEW name \in KeyNames, NEW k \in Key, dcl_define_key(name, k)
      PROVE  keydef' \in [Keys -> UsableKey \cup {NoKey}]
  <2>1. k \in UsableKey
    BY <1>1 DEF dcl_define_key, UsableKey
  <2> QED BY <1>1, <2>1 DEF dcl_define_key
<1>2. ASSUME NEW name \in KeyNames, dcl_del_key(name)
      PROVE  keydef' \in [Keys -> UsableKey \cup {NoKey}]
  BY <1>2 DEF dcl_del_key
<1>3. CASE DeleteAllKeys
  BY <1>3 DEF DeleteAllKeys
<1> QED BY <1>1, <1>2, <1>3 DEF KeyCommand

LEMMA RecalledCells ==
  ASSUME IsBuffer(buffer), NEW used \in Used, NEW n
  PROVE  IsBuffer([j \in DOMAIN buffer |-> IF j < NodeLen THEN n[j] ELSE used[j]])
<1>1. Cells - 1 \in 0..Cells - 1 /\ ~(Cells - 1 < NodeLen)
  BY CellsAre
<1>2. used[Cells - 1] = NUL
  BY UsedCells DEF IsBuffer
<1> QED BY <1>1, <1>2 DEF IsBuffer

LEMMA CommandKeepsEditor ==
  ASSUME EditorInv, dcl_recall \/ RecallErase \/ OtherCommand \/ Restart
  PROVE  EditorInv'
<1>1. Ran
  BY DEF dcl_recall, RecallErase, OtherCommand, Restart
<1>2. /\ phase = "run" /\ phase' = "prompt" /\ UNCHANGED <<use, w, maxlen, at>>
      /\ UNCHANGED <<tab, szSearch, fFile, found>>
  BY <1>1 DEF Ran, tabVars
<1>3. /\ IsBuffer(buffer) /\ IsList(list) /\ Len(list) <= MAX_KBD_STACK + 1 /\ at' = 0
      /\ keydef \in [Keys -> UsableKey \cup {NoKey}]
  BY <1>2 DEF EditorInv, CellsInv, ListInv
<1>4. SearchInv'
  BY <1>2 DEF EditorInv, SearchInv
<1>5. IsBuffer(buffer')
  <2>1. CASE dcl_recall
    <3>1. PICK used \in Used :
            \/ \E n : buffer' = [j \in DOMAIN buffer |-> IF j < NodeLen THEN n[j] ELSE used[j]]
            \/ buffer' = [used EXCEPT ![0] = NUL]
            \/ buffer' = used
      BY <2>1 DEF dcl_recall
    <3> QED BY <1>3, <3>1, RecalledCells, UsedCells
  <2>2. CASE RecallErase \/ OtherCommand
    BY <1>3, <2>2, UsedCells DEF RecallErase, OtherCommand
  <2>3. CASE Restart
    BY <2>3, NoStringInCells DEF Restart
  <2> QED BY <2>1, <2>2, <2>3
<1>6. IsList(list') /\ Len(list') <= MAX_KBD_STACK + 1
  <2>1. CASE dcl_recall
    <3>1. list' = Others
      BY <2>1 DEF dcl_recall
    <3>2. Len(list) \in Nat /\ MAX_KBD_STACK \in Nat
      BY <1>3, ListFacts, ListBounds
    <3>3. Len(list') <= MAX_KBD_STACK + 1
      BY <1>3, <3>1, <3>2, TailOfList DEF Others
    <3> QED BY <1>3, <3>1, <3>3, OthersAreList
  <2>2. CASE RecallErase
    BY <2>2, NoTextIsText, ListBounds DEF RecallErase, IsText
  <2>3. CASE OtherCommand
    BY <1>3, <2>3 DEF OtherCommand
  <2>4. CASE Restart
    BY <1>3, <2>4, RestartedList
  <2> QED BY <2>1, <2>2, <2>3, <2>4
<1>7. keydef' \in [Keys -> UsableKey \cup {NoKey}]
  <2>1. CASE dcl_recall \/ RecallErase
    BY <1>3, <2>1 DEF dcl_recall, RecallErase
  <2>2. CASE OtherCommand
    BY <1>3, <2>2, KeyCommandKeepsKeys DEF OtherCommand
  <2>3. CASE Restart
    BY <2>3 DEF Restart
  <2> QED BY <2>1, <2>2, <2>3
<1> QED BY <1>2, <1>3, <1>4, <1>5, <1>6, <1>7, AwayKeepsEditor

LEMMA EditorBegins == Init => EditorInv
<1> SUFFICES ASSUME Init PROVE EditorInv
  OBVIOUS
<1>1. /\ phase = "prompt" /\ buffer = NoString /\ w = 0 /\ maxlen = 0 /\ list = << >> /\ at = 0
      /\ tab = NoSearch /\ szSearch = Unset /\ fFile = FALSE /\ use \in {"commands"} \cup DOMAIN Length
  BY DEF Init
<1>2. CellsInv
  BY <1>1, NoStringInCells, CellsAre DEF CellsInv
<1>3. ListInv
  BY <1>1, NoTextIsText, ListBounds DEF ListInv, IsText
<1>4. SearchInv
  <2>1. NoSearch \in [on : BOOLEAN, open : BOOLEAN, cell : Int, rest : SUBSET Files] /\ ~NoSearch.on /\ ~NoSearch.open
    BY DEF NoSearch
  <2> QED BY <1>1, <2>1 DEF SearchInv
<1>5. keydef \in [Keys -> UsableKey \cup {NoKey}]
  BY DEF Init, UsableKey, Key
<1> QED BY <1>1, <1>2, <1>3, <1>4, <1>5 DEF EditorInv

LEMMA EditorGoesOn == EditorInv /\ [Next]_vars => EditorInv'
<1> SUFFICES ASSUME EditorInv, [Next]_vars PROVE EditorInv'
  OBVIOUS
<1>1. CASE Next
  BY <1>1, PromptKeepsEditor, KeyKeepsEditor, KeepingKeepsEditor, CommandKeepsEditor DEF Next
<1>2. CASE UNCHANGED vars
  BY <1>2 DEF vars, lineVars, tabVars, promptVars, EditorInv, CellsInv, ListInv, SearchInv, LineOK, IsBuffer, EndsAt, StringLen
<1> QED BY <1>1, <1>2

LEMMA EditorInvIsTyped == EditorInv => EditorTypeOK
<1> SUFFICES ASSUME EditorInv PROVE EditorTypeOK
  OBVIOUS
<1>1. phase = "line" => cc = StringLen(buffer, w) /\ pos \in 0..cc /\ w + cc < Cells
  <2> SUFFICES ASSUME phase = "line" PROVE cc = StringLen(buffer, w) /\ pos \in 0..cc /\ w + cc < Cells
    OBVIOUS
  <2>1. Editing
    BY DEF EditorInv, CellsInv, Editing
  <2> QED BY <2>1, LineFacts, LengthIs DEF Editing, LineOK
<1>2. keydef \in [Keys -> Key \cup {NoKey}]
  BY DEF EditorInv, UsableKey
<1> QED BY <1>1, <1>2 DEF EditorInv, ListInv, EditorTypeOK

\* Whatever keys are pressed, at whatever prompt, the line that is edited is a
\* string that ends where cc says, in the cells of dcl_line, with the cursor in
\* it: the counts and the NULs that termio_ansi.c writes apart never disagree.
THEOREM LineAlwaysEnds == Spec => []EditorTypeOK
<1>1. EditorInv => EditorTypeOK
  BY EditorInvIsTyped
<1>2. Init => EditorInv
  BY EditorBegins
<1>3. EditorInv /\ [Next]_vars => EditorInv'
  BY EditorGoesOn
<1> QED BY <1>1, <1>2, <1>3, PTL DEF Spec

(***************************************************************************)
(* The text that the cells hold, on each side of the cursor.               *)
(***************************************************************************)
LeftOf(b, i, p) == SubSeq(StringAt(b, i), 1, Min({p, Len(StringAt(b, i))}))
RightOf(b, i, p) == SubSeq(StringAt(b, i), p + 1, Len(StringAt(b, i)))

LEMMA PartOf ==
  ASSUME NEW l, IsList(l), NEW m \in Nat, NEW n \in 0..Len(l), m <= n
  PROVE  /\ IsList(SubSeq(l, m + 1, n)) /\ Len(SubSeq(l, m + 1, n)) = n - m
         /\ \A i \in 1..n - m : SubSeq(l, m + 1, n)[i] = l[m + i]
<1>1. l \in Seq(Range(l)) /\ Len(l) \in Nat
  BY ListFacts
<1>2. m + 1 \in Int /\ n \in Int /\ \A i \in m + 1..n : l[i] \in Range(l)
  BY <1>1, LenProperties DEF Range
<1>3. /\ SubSeq(l, m + 1, n) \in Seq(Range(l))
      /\ Len(SubSeq(l, m + 1, n)) = IF m + 1 <= n THEN n - (m + 1) + 1 ELSE 0
      /\ \A i \in 1..n - (m + 1) + 1 : SubSeq(l, m + 1, n)[i] = l[m + 1 + i - 1]
  BY <1>2, SubSeqProperties
<1>4. Len(SubSeq(l, m + 1, n)) = n - m
  BY <1>1, <1>3
<1>5. \A i \in 1..n - m : SubSeq(l, m + 1, n)[i] = l[m + i]
  <2> SUFFICES ASSUME NEW i \in 1..n - m PROVE SubSeq(l, m + 1, n)[i] = l[m + i]
    OBVIOUS
  <2>1. i \in 1..n - (m + 1) + 1 /\ m + 1 + i - 1 = m + i
    BY <1>1
  <2> QED BY <1>3, <2>1
<1> QED BY <1>3, <1>4, <1>5 DEF IsList

LEMMA Joined ==
  ASSUME NEW k, IsList(k), NEW l, IsList(l)
  PROVE  /\ IsList(k \o l) /\ Len(k \o l) = Len(k) + Len(l)
         /\ \A i \in 1..Len(k) : (k \o l)[i] = k[i]
         /\ \A i \in 1..Len(l) : (k \o l)[Len(k) + i] = l[i]
<1> DEFINE S == Range(k) \cup Range(l)
<1>1. k \in Seq(S) /\ l \in Seq(S) /\ Len(k) \in Nat /\ Len(l) \in Nat
  BY ListOver, ListFacts
<1> HIDE DEF S
<1>2. k \o l \in Seq(S) /\ Len(k \o l) = Len(k) + Len(l)
  BY <1>1, ConcatProperties
<1>3. \A i \in 1..Len(k) + Len(l) : (k \o l)[i] = IF i <= Len(k) THEN k[i] ELSE l[i - Len(k)]
  BY <1>1, ConcatProperties
<1>4. \A i \in 1..Len(k) : (k \o l)[i] = k[i]
  BY <1>1, <1>3
<1>5. \A i \in 1..Len(l) : (k \o l)[Len(k) + i] = l[i]
  <2> SUFFICES ASSUME NEW i \in 1..Len(l) PROVE (k \o l)[Len(k) + i] = l[i]
    OBVIOUS
  <2>1. Len(k) + i \in 1..Len(k) + Len(l) /\ ~(Len(k) + i <= Len(k)) /\ Len(k) + i - Len(k) = i
    BY <1>1
  <2> QED BY <1>3, <2>1
<1> QED BY <1>2, <1>4, <1>5 DEF IsList

\* The two sides of a text, wherever it is divided.
LEMMA Divided ==
  ASSUME NEW l, IsList(l), NEW p \in 0..Len(l)
  PROVE  SubSeq(l, 1, p) \o SubSeq(l, p + 1, Len(l)) = l
<1> DEFINE a == SubSeq(l, 1, p)
           b == SubSeq(l, p + 1, Len(l))
<1>1. Len(l) \in Nat
  BY ListFacts
<1>2. IsList(a) /\ Len(a) = p /\ \A i \in 1..p : a[i] = l[i]
  <2>1. /\ IsList(SubSeq(l, 0 + 1, p)) /\ Len(SubSeq(l, 0 + 1, p)) = p - 0
        /\ \A i \in 1..p - 0 : SubSeq(l, 0 + 1, p)[i] = l[0 + i]
    BY <1>1, PartOf
  <2>2. 0 + 1 = 1 /\ p - 0 = p /\ \A i \in 1..p : 0 + i = i
    BY <1>1
  <2> QED BY <2>1, <2>2
<1>3. IsList(b) /\ Len(b) = Len(l) - p /\ \A i \in 1..Len(l) - p : b[i] = l[p + i]
  BY <1>1, PartOf
<1> HIDE DEF a, b
<1>4. IsList(a) /\ IsList(b) /\ Len(a) = p /\ Len(b) = Len(l) - p
  BY <1>2, <1>3
<1>5. PICK c : c = a \o b
  OBVIOUS
<1>6. /\ IsList(c) /\ Len(c) = Len(a) + Len(b)
      /\ \A i \in 1..Len(a) : c[i] = a[i]
      /\ \A i \in 1..Len(b) : c[Len(a) + i] = b[i]
  <2>1. /\ IsList(a \o b) /\ Len(a \o b) = Len(a) + Len(b)
        /\ \A i \in 1..Len(a) : (a \o b)[i] = a[i]
        /\ \A i \in 1..Len(b) : (a \o b)[Len(a) + i] = b[i]
    BY <1>4, Joined, SMTT(30)
  <2> QED BY <1>5, <2>1
<1>7. IsList(c) /\ Len(c) = Len(l)
  BY <1>1, <1>4, <1>6
<1>8. \A i \in 1..Len(l) : c[i] = l[i]
  <2> SUFFICES ASSUME NEW i \in 1..Len(l) PROVE c[i] = l[i]
    OBVIOUS
  <2>1. CASE i <= p
    BY <1>1, <1>2, <1>4, <1>6, <2>1
  <2>2. CASE i > p
    <3>1. PICK j : j = i - p
      OBVIOUS
    <3>2. j \in 1..Len(l) - p /\ p + j = i
      BY <1>1, <2>2, <3>1
    <3>3. c[p + j] = b[j]
      BY <1>4, <1>6, <3>2
    <3> QED BY <1>3, <3>2, <3>3
  <2> QED BY <1>1, <2>1, <2>2
<1>9. c = l
  BY <1>7, <1>8, SameElements
<1> QED BY <1>5, <1>9 DEF a, b

LEMMA ReadCells ==
  ASSUME NEW b, IsBuffer(b), NEW i \in 0..Cells - 1, NEW n, EndsAt(b, i, n)
  PROVE  /\ IsText(StringAt(b, i)) /\ Len(StringAt(b, i)) = n /\ n \in Nat
         /\ \A k \in 1..n : StringAt(b, i)[k] = b[i + k - 1]
<1>1. n = StringLen(b, i) /\ n \in Nat
  BY LengthIs DEF EndsAt
<1>2. IsText(StringAt(b, i)) /\ Len(StringAt(b, i)) = n
  BY <1>1, StringIsText
<1>3. \A k \in 1..n : StringAt(b, i)[k] = b[i + k - 1]
  BY <1>1 DEF StringAt
<1> QED BY <1>1, <1>2, <1>3

SidesSpell(b, i, n, p) ==
  /\ IsList(LeftOf(b, i, p)) /\ Len(LeftOf(b, i, p)) = p
  /\ \A k \in 1..p : LeftOf(b, i, p)[k] = b[i + k - 1]
  /\ IsList(RightOf(b, i, p)) /\ Len(RightOf(b, i, p)) = n - p
  /\ \A k \in 1..n - p : RightOf(b, i, p)[k] = b[i + p + k - 1]

LEMMA Sides ==
  ASSUME NEW b, IsBuffer(b), NEW i \in 0..Cells - 1, NEW n, EndsAt(b, i, n), NEW p \in 0..n
  PROVE  SidesSpell(b, i, n, p)
<1>1. PICK s : s = StringAt(b, i)
  OBVIOUS
<1>2. IsList(s) /\ Len(s) = n /\ n \in Nat /\ \A k \in 1..n : s[k] = b[i + k - 1]
  BY <1>1, ReadCells DEF IsText
<1>3. p \in Nat /\ p \in 0..Len(s) /\ p <= n /\ n \in 0..Len(s)
  BY <1>2
<1>4. Min({p, Len(s)}) = p
  BY <1>2, <1>3, MinOfTwo
<1>5. /\ IsList(SubSeq(s, 0 + 1, p)) /\ Len(SubSeq(s, 0 + 1, p)) = p - 0
      /\ \A k \in 1..p - 0 : SubSeq(s, 0 + 1, p)[k] = s[0 + k]
  BY <1>2, <1>3, PartOf
<1>6. LeftOf(b, i, p) = SubSeq(s, 1, p)
  BY <1>1, <1>4 DEF LeftOf
<1>7. IsList(LeftOf(b, i, p)) /\ Len(LeftOf(b, i, p)) = p /\ \A k \in 1..p : LeftOf(b, i, p)[k] = s[k]
  <2>1. 0 + 1 = 1 /\ p - 0 = p /\ \A k \in 1..p : 0 + k = k
    BY <1>3
  <2> QED BY <1>5, <1>6, <2>1
<1>8. /\ IsList(SubSeq(s, p + 1, n)) /\ Len(SubSeq(s, p + 1, n)) = n - p
      /\ \A k \in 1..n - p : SubSeq(s, p + 1, n)[k] = s[p + k]
  BY <1>2, <1>3, PartOf
<1>9. RightOf(b, i, p) = SubSeq(s, p + 1, n)
  BY <1>1, <1>2 DEF RightOf
<1>10. \A k \in 1..p : s[k] = b[i + k - 1]
  BY <1>2, <1>3
<1>11. \A k \in 1..n - p : s[p + k] = b[i + p + k - 1]
  <2> SUFFICES ASSUME NEW k \in 1..n - p PROVE s[p + k] = b[i + p + k - 1]
    OBVIOUS
  <2>1. p + k \in 1..n /\ i + (p + k) - 1 = i + p + k - 1
    BY <1>2, <1>3
  <2> QED BY <1>2, <2>1
<1> QED BY <1>7, <1>8, <1>9, <1>10, <1>11 DEF SidesSpell

\* The cursor divides the text, and is behind it if it is past the end.
LEMMA SidesJoin ==
  ASSUME NEW b, IsBuffer(b), NEW i \in 0..Cells - 1, NEW p \in Nat
  PROVE  LeftOf(b, i, p) \o RightOf(b, i, p) = StringAt(b, i)
<1>1. PICK s : s = StringAt(b, i)
  OBVIOUS
<1>2. IsList(s) /\ Len(s) \in Nat
  BY <1>1, StringIsText, ListFacts DEF IsText
<1>3. PICK m : m = Min({p, Len(s)})
  OBVIOUS
<1>4. LeftOf(b, i, p) = SubSeq(s, 1, m) /\ RightOf(b, i, p) = SubSeq(s, p + 1, Len(s))
  BY <1>1, <1>3 DEF LeftOf, RightOf
<1>5. CASE p <= Len(s)
  <2>1. m = p /\ p \in 0..Len(s)
    BY <1>2, <1>3, <1>5, MinOfTwo
  <2>2. SubSeq(s, 1, p) \o SubSeq(s, p + 1, Len(s)) = s
    BY <1>2, <2>1, Divided
  <2> QED BY <1>1, <1>4, <2>1, <2>2
<1>6. CASE p > Len(s)
  <2>1. m = Len(s) /\ Len(s) \in 0..Len(s)
    BY <1>2, <1>3, <1>6, MinOfTwo
  <2>2. SubSeq(s, 1, Len(s)) \o SubSeq(s, Len(s) + 1, Len(s)) = s
    BY <1>2, <2>1, Divided
  <2>3. s \in Seq(Range(s))
    BY <1>2, ListFacts
  <2>4. SubSeq(s, p + 1, Len(s)) = << >> /\ SubSeq(s, Len(s) + 1, Len(s)) = << >>
    BY <1>2, <1>6, <2>3
  <2> QED BY <1>1, <1>4, <2>1, <2>2, <2>4
<1> QED BY <1>2, <1>5, <1>6

(***************************************************************************)
(* The steps of TextLine, in terms of the cells.                           *)
(***************************************************************************)
LeftText == LeftOf(buffer, w, pos)
RightText == RightOf(buffer, w, pos)
Stage == IF phase = "line" THEN "editing" ELSE IF phase = "entered" THEN "entered" ELSE "away"

LEMMA TextState ==
  /\ LeftText = SubSeq(Line, 1, Min({pos, Len(Line)}))
  /\ RightText = SubSeq(Line, pos + 1, Len(Line))
BY DEF LeftText, RightText, LeftOf, RightOf, Line

LEMMA TextKeys ==
  /\ TL!KeyPressed <=> Stage = "editing" /\ Stage' \in {"editing", "entered"} /\ Texts(list)' = Texts(list)
  /\ TL!Type <=>
       /\ UNCHANGED <<insert_mode, fFile, at>>
       /\ LeftText' # << >> /\ TL!Cut(LeftText', Len(LeftText') - 1) = LeftText
       /\ RightText' = IF insert_mode \/ RightText = << >> THEN RightText ELSE Tail(RightText)
  /\ TL!EraseText <=>
       /\ UNCHANGED <<insert_mode, fFile, at>>
       /\ \/ LeftText # << >> /\ LeftText' = TL!Cut(LeftText, Len(LeftText) - 1) /\ RightText' = RightText
          \/ RightText # << >> /\ LeftText' = LeftText /\ RightText' = Tail(RightText)
          \/ LeftText' = << >> /\ RightText' = RightText
          \/ LeftText' = LeftText /\ RightText' = << >>
  /\ TL!Move <=> UNCHANGED <<insert_mode, fFile, at>> /\ LeftText' \o RightText' = LeftText \o RightText
  /\ TL!Change <=> UNCHANGED <<LeftText, RightText, fFile, at>>
  /\ TL!FunctionKey <=>
       /\ UNCHANGED <<insert_mode, fFile, at>>
       /\ LeftText' \o RightText' \in KeyTexts \/ Len(LeftText' \o RightText') >= Len(LeftText \o RightText)
  /\ TL!Enter <=>
       /\ Stage' = "entered" /\ UNCHANGED <<insert_mode, fFile, at>>
       /\ UNCHANGED <<LeftText, RightText>> \/ LeftText' \o RightText' = << >>
BY TextState DEF TL!KeyPressed, TL!Type, TL!EraseText, TL!Move, TL!Change, TL!FunctionKey, TL!Enter, TL!Text,
       LeftText, RightText, LeftOf, RightOf, Line, Stage

LEMMA TextCopies ==
  /\ TL!Recall <=>
       /\ UNCHANGED <<insert_mode, fFile>>
       /\ at' \in {IF at = Len(Texts(list)) THEN 0 ELSE at + 1, IF at = 0 THEN Len(Texts(list)) ELSE at - 1}
       /\ RightText' = << >>
       /\ IF at' = 0 THEN LeftText' = << >>
          ELSE /\ TL!Begins(Texts(list)[at'], LeftText')
               /\ Len(Texts(list)[at']) < NodeLen => LeftText' = Texts(list)[at']
  /\ TL!Complete <=>
       /\ UNCHANGED <<insert_mode, at>>
       /\ LeftText # << >> /\ RightText' = << >>
       /\ TL!NoWord \/ TL!Begins(TL!Cut(LeftText \o RightText, TL!BeforeWord), LeftText')
       /\ fFile \/ TL!NoWord \/ TL!Begins(LeftText \o RightText, LeftText')
BY TextState DEF TL!Recall, TL!Complete, TL!Text, LeftText, RightText, LeftOf, RightOf, Line

\* The word begins after the last blank at or before the cursor.
LEMMA TextWord ==
  /\ TL!Blanks = {i \in 1..TL!Least(Len(LeftText) + 1, Len(LeftText \o RightText)) : (LeftText \o RightText)[i] = BLANK}
  /\ TL!BeforeWord = IF TL!Blanks = {} THEN 0 ELSE CHOOSE i \in TL!Blanks : \A j \in TL!Blanks : j <= i
  /\ TL!NoWord <=> SubSeq(LeftText \o RightText, TL!BeforeWord + 1, Len(LeftText \o RightText)) \in {<< >>, <<AT>>}
BY TextState DEF TL!Blanks, TL!BeforeWord, TL!NoWord, TL!Text, LeftText, RightText, LeftOf, RightOf, Line

LEMMA TextPrompts ==
  /\ TL!Begin <=>
       /\ Stage = "away" /\ Stage' \in {"editing", "entered"}
       /\ RightText' = << >> /\ ~fFile' /\ at' = 0 /\ Texts(list)' = Texts(list)
  /\ TL!Keep <=>
       /\ Stage = "entered" /\ Stage' = "away"
       /\ LET text == LeftText \o RightText
              new == TL!Cut(text, NodeLen)
              longer == TL!Cut(<<new>> \o Texts(list), MAX_KBD_STACK + 1)
              last == IF Texts(list) = << >> THEN << >> ELSE Texts(list)[1]
          IN  Texts(list)' \in CASE text = << >> -> {Texts(list)}
                                 [] text # << >> /\ new # last -> {longer}
                                 [] OTHER -> IF Len(new) < NodeLen THEN {Texts(list)} ELSE {Texts(list), longer}
  /\ TL!Between <=>
       /\ Stage = "away" /\ Stage' = "away"
       /\ \/ /\ Len(Texts(list)') = Len(Texts(list))
             /\ \A i \in DOMAIN Texts(list) : TL!BlankEnd(Texts(list)'[i], Texts(list)[i])
          \/ Texts(list)' = << >>
          \/ Texts(list) # << >> /\ Texts(list)' = Tail(Texts(list))
BY TextState DEF TL!Begin, TL!Keep, TL!Between, TL!SameLines, TL!Text, LeftText, RightText, LeftOf, RightOf, Line, Stage

LEMMA TextNextIs ==
  TL!TextNext <=>
    \/ TL!Begin \/ TL!Keep \/ TL!Between
    \/ /\ TL!KeyPressed
       /\ TL!Type \/ TL!EraseText \/ TL!Move \/ TL!Change \/ TL!Recall \/ TL!Complete \/ TL!FunctionKey \/ TL!Enter
BY DEF TL!TextNext

LEMMA Cuts ==
  ASSUME NEW s, IsList(s), NEW n \in Nat
  PROVE  /\ IsList(TL!Cut(s, n)) /\ Len(TL!Cut(s, n)) = IF n < Len(s) THEN n ELSE Len(s)
         /\ \A i \in 1..Len(TL!Cut(s, n)) : TL!Cut(s, n)[i] = s[i]
<1>1. Len(s) \in Nat
  BY ListFacts
<1>2. PICK m : m = IF n < Len(s) THEN n ELSE Len(s)
  OBVIOUS
<1>3. m \in 0..Len(s) /\ 0 <= m
  BY <1>1, <1>2
<1>4. /\ IsList(SubSeq(s, 0 + 1, m)) /\ Len(SubSeq(s, 0 + 1, m)) = m - 0
      /\ \A i \in 1..m - 0 : SubSeq(s, 0 + 1, m)[i] = s[0 + i]
  BY <1>3, PartOf
<1>5. TL!Cut(s, n) = SubSeq(s, 1, m)
  BY <1>2 DEF TL!Cut, TL!Least
<1>6. 0 + 1 = 1 /\ m - 0 = m /\ \A i \in 1..m : 0 + i = i
  BY <1>3
<1> QED BY <1>2, <1>4, <1>5, <1>6

\* One text begins another if it is not longer and has the same elements.
LEMMA BeginsIf ==
  ASSUME NEW s, IsList(s), NEW t, IsList(t), Len(s) <= Len(t), \A i \in 1..Len(s) : s[i] = t[i]
  PROVE  TL!Begins(s, t)
<1>1. Len(s) \in Nat /\ Len(t) \in Nat
  BY ListFacts
<1>2. IsList(TL!Cut(t, Len(s))) /\ Len(TL!Cut(t, Len(s))) = Len(s) /\ \A i \in 1..Len(s) : TL!Cut(t, Len(s))[i] = t[i]
  BY <1>1, Cuts
<1>3. TL!Cut(t, Len(s)) = s
  BY <1>2, SameElements
<1> QED BY <1>3 DEF TL!Begins

(***************************************************************************)
(* Each key does to the text what it does to the cells.                    *)
(***************************************************************************)
LEMMA Before ==
  ASSUME Editing
  PROVE  /\ IsList(LeftText) /\ Len(LeftText) = pos /\ \A k \in 1..pos : LeftText[k] = buffer[w + k - 1]
         /\ IsList(RightText) /\ Len(RightText) = cc - pos
         /\ \A k \in 1..cc - pos : RightText[k] = buffer[w + pos + k - 1]
         /\ LeftText = << >> <=> pos = 0
         /\ RightText = << >> <=> pos = cc
<1>1. IsBuffer(buffer) /\ w \in 0..Cells - 1 /\ EndsAt(buffer, w, cc) /\ pos \in 0..cc /\ cc \in Nat
  BY LineFacts DEF Editing, LineOK
<1>2. /\ IsList(LeftText) /\ Len(LeftText) = pos /\ \A k \in 1..pos : LeftText[k] = buffer[w + k - 1]
      /\ IsList(RightText) /\ Len(RightText) = cc - pos
      /\ \A k \in 1..cc - pos : RightText[k] = buffer[w + pos + k - 1]
  <2>1. SidesSpell(buffer, w, cc, pos)
    BY <1>1, Sides
  <2> QED BY <2>1 DEF SidesSpell, LeftText, RightText
<1>3. LeftText = << >> <=> pos = 0
  BY <1>2, ListFacts
<1>4. RightText = << >> <=> pos = cc
  BY <1>1, <1>2, ListFacts
<1> QED BY <1>2, <1>3, <1>4

LEMMA After ==
  ASSUME Editing, w' = w, IsBuffer(buffer'), LineOK(buffer', cc', pos')
  PROVE  /\ IsList(LeftText') /\ Len(LeftText') = pos' /\ \A k \in 1..pos' : LeftText'[k] = buffer'[w + k - 1]
         /\ IsList(RightText') /\ Len(RightText') = cc' - pos'
         /\ \A k \in 1..cc' - pos' : RightText'[k] = buffer'[w + pos' + k - 1]
         /\ LeftText' = << >> <=> pos' = 0
         /\ RightText' = << >> <=> pos' = cc'
<1>1. w \in 0..Cells - 1 /\ EndsAt(buffer', w, cc') /\ pos' \in 0..cc' /\ cc' \in Nat
  BY LineFacts DEF LineOK, EndsAt
<1>2. LeftText' = LeftOf(buffer', w, pos') /\ RightText' = RightOf(buffer', w, pos')
  BY DEF LeftText, RightText
<1>3. /\ IsList(LeftText') /\ Len(LeftText') = pos' /\ \A k \in 1..pos' : LeftText'[k] = buffer'[w + k - 1]
      /\ IsList(RightText') /\ Len(RightText') = cc' - pos'
      /\ \A k \in 1..cc' - pos' : RightText'[k] = buffer'[w + pos' + k - 1]
  <2>1. SidesSpell(buffer', w, cc', pos')
    BY <1>1, Sides
  <2> QED BY <1>2, <2>1 DEF SidesSpell
<1>4. LeftText' = << >> <=> pos' = 0
  BY <1>3, ListFacts
<1>5. RightText' = << >> <=> pos' = cc'
  BY <1>1, <1>3, ListFacts
<1> QED BY <1>3, <1>4, <1>5

\* The whole text, wherever the cursor is.
LEMMA WholeText ==
  ASSUME Editing
  PROVE  /\ LeftText \o RightText = StringAt(buffer, w) /\ IsText(StringAt(buffer, w))
         /\ Len(StringAt(buffer, w)) = cc /\ \A k \in 1..cc : StringAt(buffer, w)[k] = buffer[w + k - 1]
<1>1. IsBuffer(buffer) /\ w \in 0..Cells - 1 /\ EndsAt(buffer, w, cc) /\ pos \in Nat
  BY LineFacts DEF Editing, LineOK
<1> QED BY <1>1, SidesJoin, ReadCells DEF LeftText, RightText

LEMMA WholeTextAfter ==
  ASSUME Editing, w' = w, IsBuffer(buffer'), pos' \in Nat
  PROVE  LeftText' \o RightText' = StringAt(buffer', w)
<1>1. w \in 0..Cells - 1
  BY LineFacts
<1>2. LeftText' = LeftOf(buffer', w, pos') /\ RightText' = RightOf(buffer', w, pos')
  BY DEF LeftText, RightText
<1> QED BY <1>1, <1>2, SidesJoin

LEMMA TailPart ==
  ASSUME NEW l, IsList(l), l # << >>
  PROVE  IsList(Tail(l)) /\ Len(Tail(l)) = Len(l) - 1 /\ \A k \in 1..Len(l) - 1 : Tail(l)[k] = l[k + 1]
BY TailOfList

LEMMA ClosedReads ==
  ASSUME Editing, NEW p \in 0..cc - 1, NEW i \in 0..cc - 1 - 1
  PROVE  Close(p)[w + i] = IF i < p THEN buffer[w + i] ELSE buffer[w + i + 1]
<1> DEFINE f == [j \in p..cc - 1 |-> IF j = cc - 1 THEN NUL ELSE Cell(j + 1)]
<1>1. cc \in Nat /\ w \in Nat /\ w + cc < Cells /\ IsBuffer(buffer)
  BY LineFacts DEF Editing
<1>2. i \in Int /\ w + i \in 0..Cells - 1
  BY <1>1, CellsAre
<1>3. Assign(f)[w + i] = IF i \in DOMAIN f THEN f[i] ELSE buffer[w + i]
  BY <1>1, <1>2, Assigned
<1>4. CASE i < p
  BY <1>1, <1>2, <1>3, <1>4 DEF Close
<1>5. CASE i >= p
  <2>1. i \in p..cc - 1 /\ i # cc - 1
    BY <1>1, <1>5
  <2>2. f[i] = buffer[w + (i + 1)] /\ w + (i + 1) = w + i + 1
    BY <1>1, <1>2, <2>1 DEF Cell
  <2> QED BY <1>2, <1>3, <1>5, <2>1, <2>2 DEF Close
<1> QED BY <1>2, <1>4, <1>5

TextKey ==
  /\ TL!KeyPressed
  /\ TL!Type \/ TL!EraseText \/ TL!Move \/ TL!Change \/ TL!Recall \/ TL!Complete \/ TL!FunctionKey \/ TL!Enter

LEMMA KeyIsPressed ==
  ASSUME phase = "line", phase' \in {"line", "entered"}, list' = list
  PROVE  TL!KeyPressed
<1>1. Stage = "editing" /\ Stage' \in {"editing", "entered"}
  BY DEF Stage
<1>2. Texts(list)' = Texts(list)
  BY DEF Texts
<1> QED BY <1>1, <1>2, TextKeys

LEMMA BackspaceErases ==
  ASSUME Editing, Backspace
  PROVE  TL!EraseText
<1>1. /\ pos > 0 /\ buffer' = Close(pos - 1) /\ cc' = cc - 1 /\ pos' = pos - 1
      /\ w' = w /\ insert_mode' = insert_mode /\ at' = at /\ fFile' = fFile
  BY DEF Backspace, Typed, KeyPressed, promptVars
<1>2. pos \in 0..cc /\ cc \in Nat /\ pos \in Nat /\ w \in Nat
  BY LineFacts
<1>3. IsBuffer(buffer') /\ LineOK(buffer', cc', pos')
  BY CharacterGoes
<1>4. \A i \in 0..cc - 1 - 1 : buffer'[w + i] = IF i < pos - 1 THEN buffer[w + i] ELSE buffer[w + i + 1]
  <2>1. pos - 1 \in 0..cc - 1
    BY <1>1, <1>2
  <2> QED BY <1>1, <2>1, ClosedReads
<1>5. IsList(TL!Cut(LeftText, pos - 1)) /\ Len(TL!Cut(LeftText, pos - 1)) = pos - 1
      /\ \A k \in 1..pos - 1 : TL!Cut(LeftText, pos - 1)[k] = LeftText[k]
  <2>1. pos - 1 \in Nat /\ IsList(LeftText) /\ Len(LeftText) = pos
    BY <1>1, <1>2, Before
  <2> QED BY <1>2, <2>1, Cuts
<1>6. LeftText' = TL!Cut(LeftText, pos - 1)
  <2>1. IsList(LeftText') /\ Len(LeftText') = pos - 1 /\ \A k \in 1..pos - 1 : LeftText'[k] = buffer'[w + k - 1]
    BY <1>1, <1>3, After
  <2>2. \A k \in 1..pos - 1 : buffer'[w + k - 1] = LeftText[k]
    <3> SUFFICES ASSUME NEW k \in 1..pos - 1 PROVE buffer'[w + k - 1] = LeftText[k]
      OBVIOUS
    <3>1. k - 1 \in 0..cc - 1 - 1 /\ k - 1 < pos - 1 /\ k \in 1..pos /\ w + (k - 1) = w + k - 1
      BY <1>1, <1>2
    <3> QED BY <1>4, <3>1, Before
  <2> QED BY <1>5, <2>1, <2>2, SameElements
<1>7. RightText' = RightText
  <2>1. /\ IsList(RightText') /\ Len(RightText') = cc - pos
        /\ \A k \in 1..cc - pos : RightText'[k] = buffer'[w + (pos - 1) + k - 1]
    BY <1>1, <1>2, <1>3, After
  <2>2. \A k \in 1..cc - pos : buffer'[w + (pos - 1) + k - 1] = RightText[k]
    <3> SUFFICES ASSUME NEW k \in 1..cc - pos PROVE buffer'[w + (pos - 1) + k - 1] = RightText[k]
      OBVIOUS
    <3>1. PICK i : i = pos - 1 + k - 1
      OBVIOUS
    <3>2. /\ i \in 0..cc - 1 - 1 /\ ~(i < pos - 1) /\ w + (pos - 1) + k - 1 = w + i
          /\ w + i + 1 = w + pos + k - 1
      BY <1>1, <1>2, <3>1
    <3>3. buffer'[w + i] = buffer[w + i + 1]
      BY <1>4, <3>2
    <3> QED BY <3>2, <3>3, Before
  <2> QED BY <2>1, <2>2, Before, SameElements
<1>8. LeftText # << >> /\ Len(LeftText) = pos
  BY <1>1, <1>2, Before
<1> QED BY <1>1, <1>6, <1>7, <1>8, TextKeys

LEMMA DeleteErases ==
  ASSUME Editing, DeleteChar
  PROVE  TL!EraseText
<1>1. /\ pos < cc /\ buffer' = Close(pos) /\ cc' = cc - 1 /\ pos' = pos
      /\ w' = w /\ insert_mode' = insert_mode /\ at' = at /\ fFile' = fFile
  BY DEF DeleteChar, Typed, KeyPressed, promptVars
<1>2. pos \in 0..cc /\ cc \in Nat /\ pos \in Nat /\ w \in Nat
  BY LineFacts
<1>3. IsBuffer(buffer') /\ LineOK(buffer', cc', pos')
  BY CharacterGoes
<1>4. \A i \in 0..cc - 1 - 1 : buffer'[w + i] = IF i < pos THEN buffer[w + i] ELSE buffer[w + i + 1]
  <2>1. pos \in 0..cc - 1
    BY <1>1, <1>2
  <2> QED BY <1>1, <2>1, ClosedReads
<1>5. LeftText' = LeftText
  <2>1. IsList(LeftText') /\ Len(LeftText') = pos /\ \A k \in 1..pos : LeftText'[k] = buffer'[w + k - 1]
    BY <1>1, <1>3, After
  <2>2. \A k \in 1..pos : buffer'[w + k - 1] = LeftText[k]
    <3> SUFFICES ASSUME NEW k \in 1..pos PROVE buffer'[w + k - 1] = LeftText[k]
      OBVIOUS
    <3>1. k - 1 \in 0..cc - 1 - 1 /\ k - 1 < pos /\ w + (k - 1) = w + k - 1
      BY <1>1, <1>2
    <3> QED BY <1>4, <3>1, Before
  <2> QED BY <2>1, <2>2, Before, SameElements
<1>6. RightText # << >>
  BY <1>1, <1>2, Before
<1>7. RightText' = Tail(RightText)
  <2>1. /\ IsList(RightText') /\ Len(RightText') = cc - 1 - pos
        /\ \A k \in 1..cc - 1 - pos : RightText'[k] = buffer'[w + pos + k - 1]
    BY <1>1, <1>2, <1>3, After
  <2>2. /\ IsList(Tail(RightText)) /\ Len(Tail(RightText)) = cc - pos - 1
        /\ \A k \in 1..cc - pos - 1 : Tail(RightText)[k] = RightText[k + 1]
    BY <1>6, Before, TailPart
  <2>3. \A k \in 1..cc - 1 - pos : buffer'[w + pos + k - 1] = Tail(RightText)[k]
    <3> SUFFICES ASSUME NEW k \in 1..cc - 1 - pos PROVE buffer'[w + pos + k - 1] = Tail(RightText)[k]
      OBVIOUS
    <3>1. PICK i : i = pos + k - 1
      OBVIOUS
    <3>2. /\ i \in 0..cc - 1 - 1 /\ ~(i < pos) /\ w + pos + k - 1 = w + i
          /\ w + i + 1 = w + pos + (k + 1) - 1 /\ k + 1 \in 1..cc - pos /\ k \in 1..cc - pos - 1
      BY <1>1, <1>2, <3>1
    <3>3. buffer'[w + i] = buffer[w + i + 1]
      BY <1>4, <3>2
    <3>4. RightText[k + 1] = buffer[w + pos + (k + 1) - 1]
      BY <3>2, Before
    <3> QED BY <2>2, <3>2, <3>3, <3>4
  <2>4. cc - 1 - pos = cc - pos - 1
    BY <1>2
  <2> QED BY <2>1, <2>2, <2>3, <2>4, SameElements
<1> QED BY <1>1, <1>5, <1>6, <1>7, TextKeys

LEMMA CursorMovesOnly ==
  ASSUME Editing, MoveCursor
  PROVE  TL!Move
<1>1. /\ buffer' = buffer /\ w' = w /\ pos \in 0..cc /\ cc \in Nat
      /\ insert_mode' = insert_mode /\ at' = at /\ fFile' = fFile
  BY LineFacts DEF MoveCursor, Typed, KeyPressed, promptVars
<1>2. pos' \in Nat /\ IsBuffer(buffer')
  BY <1>1, CursorMoves DEF LineOK, EndsAt
<1>3. LeftText' \o RightText' = LeftText \o RightText
  BY <1>1, <1>2, WholeText, WholeTextAfter
<1> QED BY <1>1, <1>3, TextKeys

LEMMA ToggleChanges ==
  ASSUME ToggleInsert
  PROVE  TL!Change
<1>1. UNCHANGED <<buffer, w, pos, at, fFile>>
  BY DEF ToggleInsert, KeyPressed, lineVars, promptVars
<1>2. LeftText' = LeftText /\ RightText' = RightText
  BY <1>1 DEF LeftText, RightText
<1> QED BY <1>1, <1>2, TextKeys

\* A side of the text after a step is known by its cells.
LEMMA LeftIs ==
  ASSUME Editing, w' = w, IsBuffer(buffer'), LineOK(buffer', cc', pos'),
         NEW l, IsList(l), Len(l) = pos', \A k \in 1..pos' : l[k] = buffer'[w + k - 1]
  PROVE  LeftText' = l
<1>1. IsList(LeftText') /\ Len(LeftText') = pos' /\ \A k \in 1..pos' : LeftText'[k] = buffer'[w + k - 1]
  BY After
<1> QED BY <1>1, SameElements

LEMMA RightIs ==
  ASSUME Editing, w' = w, IsBuffer(buffer'), LineOK(buffer', cc', pos'),
         NEW l, IsList(l), Len(l) = cc' - pos', \A k \in 1..cc' - pos' : l[k] = buffer'[w + pos' + k - 1]
  PROVE  RightText' = l
<1>1. /\ IsList(RightText') /\ Len(RightText') = cc' - pos'
      /\ \A k \in 1..cc' - pos' : RightText'[k] = buffer'[w + pos' + k - 1]
  BY After
<1> QED BY <1>1, SameElements

LEMMA EndErased ==
  ASSUME Editing, EraseToEnd
  PROVE  TL!EraseText
<1>1. /\ buffer' = Assign([i \in {pos} |-> NUL]) /\ cc' = pos /\ pos' = pos
      /\ w' = w /\ insert_mode' = insert_mode /\ at' = at /\ fFile' = fFile
  BY DEF EraseToEnd, Typed, KeyPressed, promptVars
<1>2. pos \in 0..cc /\ cc \in Nat /\ pos \in Nat /\ w \in Nat /\ w + cc < Cells /\ IsBuffer(buffer)
  BY LineFacts DEF Editing
<1>3. IsBuffer(buffer') /\ LineOK(buffer', cc', pos')
  BY PartGoes
<1>4. \A k \in 1..pos : LeftText[k] = buffer'[w + k - 1]
  <2> SUFFICES ASSUME NEW k \in 1..pos PROVE LeftText[k] = buffer'[w + k - 1]
    OBVIOUS
  <2>1. k - 1 \in Int /\ w + (k - 1) \in 0..Cells - 1 /\ k - 1 # pos /\ w + (k - 1) = w + k - 1
    BY <1>2, CellsAre
  <2>2. buffer'[w + (k - 1)] = buffer[w + (k - 1)]
    BY <1>1, <1>2, <2>1, Assigned
  <2> QED BY <2>1, <2>2, Before
<1>5. LeftText' = LeftText
  BY <1>1, <1>3, <1>4, Before, LeftIs
<1>6. RightText' = << >>
  BY <1>1, <1>3, After
<1> QED BY <1>1, <1>5, <1>6, TextKeys

LEMMA StartErased ==
  ASSUME Editing, EraseToStart
  PROVE  TL!EraseText
<1> DEFINE f == [i \in 0..cc - 1 |-> IF i < cc - pos THEN Cell(i + pos) ELSE NUL]
<1>1. /\ buffer' = Assign(f) /\ cc' = cc - pos /\ pos' = 0
      /\ w' = w /\ insert_mode' = insert_mode /\ at' = at /\ fFile' = fFile
  BY DEF EraseToStart, Typed, KeyPressed, promptVars
<1>2. pos \in 0..cc /\ cc \in Nat /\ pos \in Nat /\ w \in Nat /\ w + cc < Cells /\ IsBuffer(buffer)
  BY LineFacts DEF Editing
<1>3. IsBuffer(buffer') /\ LineOK(buffer', cc', pos')
  BY PartGoes
<1>4. \A k \in 1..cc - pos : RightText[k] = buffer'[w + 0 + k - 1]
  <2> SUFFICES ASSUME NEW k \in 1..cc - pos PROVE RightText[k] = buffer'[w + 0 + k - 1]
    OBVIOUS
  <2>1. /\ k - 1 \in 0..cc - 1 /\ w + (k - 1) \in 0..Cells - 1 /\ k - 1 < cc - pos
        /\ w + 0 + k - 1 = w + (k - 1) /\ w + (k - 1 + pos) = w + pos + k - 1 /\ k - 1 \in Int
    BY <1>2, CellsAre
  <2>2. buffer'[w + (k - 1)] = f[k - 1]
    <3> HIDE DEF f
    <3>1. DOMAIN f = 0..cc - 1
      BY DEF f
    <3> QED BY <1>1, <1>2, <2>1, <3>1, Assigned
  <2>3. f[k - 1] = buffer[w + pos + k - 1]
    BY <2>1 DEF Cell
  <2> QED BY <2>1, <2>2, <2>3, Before
<1>5. cc - pos = cc - pos - 0
  BY <1>2
<1>6. RightText' = RightText
  BY <1>1, <1>3, <1>4, <1>5, Before, RightIs
<1>7. LeftText' = << >>
  BY <1>1, <1>3, After
<1> QED BY <1>1, <1>6, <1>7, TextKeys

LEMMA TypedCells ==
  ASSUME Editing, NEW ch, Character(ch), NEW i \in 0..cc' - 1
  PROVE  buffer'[w + i] = IF i < pos THEN buffer[w + i] ELSE IF i = pos THEN ch
                          ELSE IF pos < cc /\ ~insert_mode THEN buffer[w + i] ELSE buffer[w + i - 1]
<1>1. pos \in 0..cc /\ cc \in Nat /\ pos \in Nat /\ w \in Nat /\ w + cc < Cells /\ IsBuffer(buffer)
  BY LineFacts DEF Editing
<1>2. cc < maxlen /\ maxlen \in Nat /\ w + maxlen < Cells
  BY DEF Character, Editing
<1>3. CASE pos < cc /\ ~insert_mode
  <2> DEFINE f == [j \in {pos} |-> ch]
  <2>1. buffer' = Assign(f) /\ cc' = cc
    BY <1>3 DEF Character
  <2>2. i \in Int /\ w + i \in 0..Cells - 1
    BY <1>1, <2>1, CellsAre
  <2>3. Assign(f)[w + i] = IF i \in DOMAIN f THEN f[i] ELSE buffer[w + i]
    <3> HIDE DEF f
    <3> QED BY <1>1, <2>2, Assigned
  <2> QED BY <1>1, <1>3, <2>1, <2>2, <2>3
<1>4. CASE ~(pos < cc /\ ~insert_mode)
  <2> DEFINE f == [j \in pos..cc + 1 |-> IF j = pos THEN ch ELSE IF j = cc + 1 THEN NUL ELSE Cell(j - 1)]
  <2>1. buffer' = Assign(f) /\ cc' = cc + 1
    BY <1>4 DEF Character
  <2>2. i \in Int /\ w + i \in 0..Cells - 1 /\ i # cc + 1 /\ w + (i - 1) = w + i - 1 /\ i <= cc
    BY <1>1, <1>2, <2>1, CellsAre
  <2>3. Assign(f)[w + i] = IF i \in DOMAIN f THEN f[i] ELSE buffer[w + i]
    <3> HIDE DEF f
    <3> QED BY <1>1, <2>2, Assigned
  <2>4. i >= pos => i \in DOMAIN f /\ f[i] = IF i = pos THEN ch ELSE buffer[w + i - 1]
    BY <1>1, <2>2 DEF Cell
  <2>5. i < pos => i \notin DOMAIN f
    BY <1>1, <2>2
  <2> HIDE DEF f
  <2> QED BY <1>1, <1>4, <2>1, <2>2, <2>3, <2>4, <2>5
<1> QED BY <1>3, <1>4

LEMMA CharacterTypes ==
  ASSUME Editing, NEW ch, ch # NUL, Character(ch)
  PROVE  TL!Type
<1>1. pos' = pos + 1 /\ w' = w /\ insert_mode' = insert_mode /\ at' = at /\ fFile' = fFile
  BY DEF Character, KeyPressed, promptVars
<1>2. pos \in 0..cc /\ cc \in Nat /\ pos \in Nat /\ w \in Nat
  BY LineFacts
<1>3. IsBuffer(buffer') /\ LineOK(buffer', cc', pos')
  BY CharacterEnters
<1>4. cc' = IF pos < cc /\ ~insert_mode THEN cc ELSE cc + 1
  BY DEF Character
<1>5. IsList(LeftText') /\ Len(LeftText') = pos + 1 /\ \A k \in 1..pos + 1 : LeftText'[k] = buffer'[w + k - 1]
  BY <1>1, <1>3, After
<1>6. LeftText' # << >>
  BY <1>1, <1>2, <1>3, After
<1>7. TL!Cut(LeftText', Len(LeftText') - 1) = LeftText
  <2>1. Len(LeftText') - 1 = pos
    BY <1>2, <1>5
  <2>2. PICK l : l = LeftText'
    OBVIOUS
  <2>3. /\ IsList(TL!Cut(l, pos)) /\ Len(TL!Cut(l, pos)) = pos
        /\ \A k \in 1..pos : TL!Cut(l, pos)[k] = l[k]
    <3>1. IsList(l) /\ Len(l) = pos + 1
      BY <1>5, <2>2
    <3>2. /\ IsList(TL!Cut(l, pos)) /\ Len(TL!Cut(l, pos)) = IF pos < Len(l) THEN pos ELSE Len(l)
          /\ \A k \in 1..Len(TL!Cut(l, pos)) : TL!Cut(l, pos)[k] = l[k]
      BY <1>2, <3>1, Cuts
    <3>3. pos < Len(l)
      BY <1>2, <3>1
    <3> QED BY <3>2, <3>3
  <2>4. \A k \in 1..pos : l[k] = LeftText[k]
    <3> SUFFICES ASSUME NEW k \in 1..pos PROVE l[k] = LeftText[k]
      OBVIOUS
    <3>1. k - 1 \in 0..cc' - 1 /\ k - 1 < pos /\ w + (k - 1) = w + k - 1 /\ k \in 1..pos + 1
      BY <1>2, <1>4
    <3>2. buffer'[w + (k - 1)] = buffer[w + (k - 1)]
      BY <3>1, TypedCells
    <3> QED BY <1>5, <2>2, <3>1, <3>2, Before
  <2>5. TL!Cut(l, pos) = LeftText
    BY <2>3, <2>4, Before, SameElements
  <2> QED BY <2>1, <2>2, <2>5
<1>8. CASE pos < cc /\ ~insert_mode
  <2>1. cc' = cc /\ RightText # << >> /\ ~insert_mode
    BY <1>2, <1>4, <1>8, Before
  <2>2. /\ IsList(Tail(RightText)) /\ Len(Tail(RightText)) = cc - pos - 1
        /\ \A k \in 1..cc - pos - 1 : Tail(RightText)[k] = RightText[k + 1]
    BY <2>1, Before, TailPart
  <2>3. Len(Tail(RightText)) = cc' - pos'
    BY <1>1, <1>2, <2>1, <2>2
  <2>4. \A k \in 1..cc' - pos' : Tail(RightText)[k] = buffer'[w + pos' + k - 1]
    <3> SUFFICES ASSUME NEW k \in 1..cc' - pos' PROVE Tail(RightText)[k] = buffer'[w + pos' + k - 1]
      OBVIOUS
    <3>1. PICK i : i = pos + k
      OBVIOUS
    <3>2. /\ i \in 0..cc' - 1 /\ ~(i < pos) /\ i # pos /\ w + pos' + k - 1 = w + i
          /\ w + pos + (k + 1) - 1 = w + i /\ k \in 1..cc - pos - 1 /\ k + 1 \in 1..cc - pos
      BY <1>1, <1>2, <2>1, <3>1
    <3>3. buffer'[w + i] = buffer[w + i]
      BY <1>8, <3>2, TypedCells
    <3>4. RightText[k + 1] = buffer[w + pos + (k + 1) - 1]
      BY <3>2, Before
    <3> QED BY <2>2, <3>2, <3>3, <3>4
  <2>5. RightText' = Tail(RightText)
    BY <1>1, <1>3, <2>2, <2>3, <2>4, RightIs
  <2> QED BY <1>1, <1>6, <1>7, <2>1, <2>5, TextKeys
<1>9. CASE ~(pos < cc /\ ~insert_mode)
  <2>1. cc' = cc + 1 /\ (insert_mode \/ RightText = << >>)
    BY <1>2, <1>4, <1>9, Before
  <2>2. Len(RightText) = cc' - pos'
    <3>1. Len(RightText) = cc - pos
      BY Before
    <3> QED BY <1>1, <1>2, <2>1, <3>1
  <2>3. \A k \in 1..cc' - pos' : RightText[k] = buffer'[w + pos' + k - 1]
    <3> SUFFICES ASSUME NEW k \in 1..cc' - pos' PROVE RightText[k] = buffer'[w + pos' + k - 1]
      OBVIOUS
    <3>1. PICK i : i = pos + k
      OBVIOUS
    <3>2. /\ i \in 0..cc' - 1 /\ ~(i < pos) /\ i # pos /\ w + pos' + k - 1 = w + i
          /\ w + pos + k - 1 = w + i - 1 /\ k \in 1..cc - pos
      BY <1>1, <1>2, <2>1, <3>1
    <3>3. buffer'[w + i] = buffer[w + i - 1]
      BY <1>9, <3>2, TypedCells
    <3>4. RightText[k] = buffer[w + pos + k - 1]
      BY <3>2, Before
    <3> QED BY <3>2, <3>3, <3>4
  <2>4. RightText' = RightText
    BY <1>1, <1>3, <2>2, <2>3, Before, RightIs
  <2> QED BY <1>1, <1>6, <1>7, <2>1, <2>4, TextKeys
<1> QED BY <1>8, <1>9

\* The elements of the list are arrays of NodeLen cells.
NodesHaveCells == \A i \in 1..Len(list) : DOMAIN list[i] = 0..NodeLen - 1

LEMMA NodeEnds ==
  ASSUME NEW b, DOMAIN b = 0..NodeLen - 1
  PROVE  /\ StringLen(b, 0) \in 0..NodeLen /\ \A m \in 0..StringLen(b, 0) - 1 : b[m] # NUL
         /\ StringLen(b, 0) < NodeLen => b[StringLen(b, 0)] = NUL
<1> DEFINE Stop(n) == 0 + n \notin DOMAIN b \/ b[0 + n] = NUL
           Ends(n) == Stop(n) /\ \A m \in 0..n - 1 : 0 + m \in DOMAIN b /\ b[0 + m] # NUL
           T == {n \in 0..Cells : Stop(n)}
<1>1. NodeLen \in T /\ T \subseteq Nat
  BY CellsAre
<1>2. PICK m \in T : \A n \in T : m <= n
  BY <1>1, LeastNumber
<1>3. m \in 0..Cells /\ Stop(m) /\ \A k \in 0..m - 1 : ~Stop(k)
  BY <1>2, CellsAre
<1>4. \E n \in 0..Cells : Ends(n)
  BY <1>3
<1>5. PICK n : n = StringLen(b, 0)
  OBVIOUS
<1>6. n \in 0..Cells /\ Ends(n)
  BY <1>4, <1>5 DEF StringLen
<1>7. n <= NodeLen
  <2> SUFFICES ASSUME n > NodeLen PROVE FALSE
    BY <1>6, CellsAre
  <2>1. NodeLen \in 0..n - 1 /\ 0 + NodeLen \notin DOMAIN b
    BY <1>6, CellsAre
  <2> QED BY <1>6, <2>1
<1>8. \A k \in 0..n - 1 : b[k] # NUL
  <2>1. \A k \in 0..n - 1 : 0 + k = k
    BY <1>6
  <2> QED BY <1>6, <2>1
<1>9. n < NodeLen => b[n] = NUL
  <2>1. n < NodeLen => 0 + n \in DOMAIN b /\ 0 + n = n
    BY <1>6, CellsAre
  <2> QED BY <1>6, <2>1
<1> QED BY <1>5, <1>6, <1>7, <1>8, <1>9, CellsAre

LEMMA NodeTextIs ==
  ASSUME NEW b, DOMAIN b = 0..NodeLen - 1
  PROVE  /\ IsText(NodeText(b)) /\ Len(NodeText(b)) = StringLen(b, 0) /\ StringLen(b, 0) \in 0..NodeLen
         /\ \A k \in 1..StringLen(b, 0) : NodeText(b)[k] = b[k - 1]
<1>1. PICK n : n = StringLen(b, 0)
  OBVIOUS
<1>2. n \in Nat /\ n \in 0..NodeLen /\ \A m \in 0..n - 1 : b[m] # NUL
  <2>1. n \in 0..NodeLen /\ \A m \in 0..n - 1 : b[m] # NUL
    BY <1>1, NodeEnds
  <2> QED BY <2>1, CellsAre
<1>3. PICK s : s = [k \in 1..n |-> b[0 + k - 1]]
  OBVIOUS
<1>4. s = NodeText(b)
  BY <1>1, <1>3 DEF NodeText, StringAt
<1>5. IsList(s) /\ Len(s) = n
  BY <1>2, <1>3, FunctionIsList
<1>6. \A k \in 1..n : s[k] = b[k - 1]
  <2> SUFFICES ASSUME NEW k \in 1..n PROVE s[k] = b[k - 1]
    OBVIOUS
  <2>1. 0 + k - 1 = k - 1
    BY <1>2
  <2> QED BY <1>3, <2>1
<1>7. \A k \in 1..n : s[k] # NUL
  <2>1. \A k \in 1..n : k - 1 \in 0..n - 1
    BY <1>2
  <2> QED BY <1>2, <1>6, <2>1
<1>8. NUL \notin Range(s)
  BY <1>3, <1>7 DEF Range
<1> QED BY <1>1, <1>2, <1>4, <1>5, <1>6, <1>8 DEF IsText

LEMMA TextsAre ==
  ASSUME IsList(list)
  PROVE  /\ Len(list) \in Nat /\ Len(Texts(list)) = Len(list) /\ DOMAIN Texts(list) = 1..Len(list)
         /\ IsList(Texts(list)) /\ \A i \in 1..Len(list) : Texts(list)[i] = NodeText(list[i])
<1>1. DOMAIN list = 1..Len(list) /\ Len(list) \in Nat
  BY ListFacts
<1>2. PICK l : l = Texts(list)
  OBVIOUS
<1>3. DOMAIN l = 1..Len(list) /\ l = [i \in 1..Len(list) |-> l[i]] /\ \A i \in 1..Len(list) : l[i] = NodeText(list[i])
  BY <1>1, <1>2 DEF Texts
<1>4. IsList(l) /\ Len(l) = Len(list)
  BY <1>1, <1>3, FunctionIsList
<1> QED BY <1>1, <1>2, <1>3, <1>4

\* An element that is copied to the line with its cells begins it, and is the
\* whole of it if it has an end.
LEMMA NodeCopied ==
  ASSUME Editing, NEW b, DOMAIN b = 0..NodeLen - 1, buffer' = CopyNode(b), w' = w, cc' = StringLen(buffer', w), pos' = cc'
  PROVE  /\ RightText' = << >>
         /\ TL!Begins(NodeText(b), LeftText') /\ (Len(NodeText(b)) < NodeLen => LeftText' = NodeText(b))
<1> DEFINE f == [j \in 0..NodeLen - 1 |-> b[j]]
<1>1. w \in Nat /\ w \in 0..Cells - 1 /\ w + NodeLen < Cells /\ IsBuffer(buffer)
  BY LineFacts DEF Editing
<1>2. IsBuffer(buffer')
  BY ElementShows
<1>3. EndsAt(buffer', w, cc') /\ cc' \in Nat
  BY <1>1, <1>2, StringEnds DEF EndsAt
<1>4. LineOK(buffer', cc', pos')
  BY <1>3 DEF LineOK, EndsAt
<1>5. \A j \in 0..NodeLen - 1 : buffer'[w + j] = b[j]
  <2> SUFFICES ASSUME NEW j \in 0..NodeLen - 1 PROVE buffer'[w + j] = b[j]
    OBVIOUS
  <2>1. j \in Int /\ w + j \in 0..Cells - 1
    BY <1>1, CellsAre
  <2>2. buffer' = Assign(f)
    BY DEF CopyNode
  <2>3. Assign(f)[w + j] = IF j \in DOMAIN f THEN f[j] ELSE buffer[w + j]
    <3> HIDE DEF f
    <3> QED BY <1>1, <2>1, Assigned
  <2> QED BY <2>2, <2>3
<1> HIDE DEF f
<1>6. PICK n : n = StringLen(b, 0)
  OBVIOUS
<1>7. /\ IsList(NodeText(b)) /\ Len(NodeText(b)) = n /\ n \in 0..NodeLen
      /\ \A k \in 1..n : NodeText(b)[k] = b[k - 1]
  BY <1>6, NodeTextIs DEF IsText
<1>8. (\A m \in 0..n - 1 : b[m] # NUL) /\ (n < NodeLen => b[n] = NUL)
  BY <1>6, NodeEnds
<1>9. n \in Nat /\ n <= cc'
  <2>1. n \in Nat
    BY <1>7, CellsAre
  <2>2. \A m \in 0..n - 1 : buffer'[w + m] # NUL
    BY <1>5, <1>7, <1>8, <2>1, CellsAre
  <2>3. buffer'[w + cc'] = NUL
    BY <1>3 DEF EndsAt
  <2> QED BY <1>3, <2>1, <2>2, <2>3
<1>10. n < NodeLen => cc' = n
  <2> SUFFICES ASSUME n < NodeLen PROVE cc' = n
    OBVIOUS
  <2>1. n \in 0..NodeLen - 1 /\ buffer'[w + n] = NUL
    BY <1>5, <1>8, <1>9, CellsAre
  <2>2. \A m \in 0..cc' - 1 : buffer'[w + m] # NUL
    BY <1>3 DEF EndsAt
  <2> QED BY <1>3, <1>9, <2>1, <2>2
<1>11. IsList(LeftText') /\ Len(LeftText') = cc' /\ \A k \in 1..cc' : LeftText'[k] = buffer'[w + k - 1]
  BY <1>2, <1>4, After
<1>12. RightText' = << >>
  BY <1>2, <1>4, After
<1>13. \A k \in 1..n : NodeText(b)[k] = LeftText'[k]
  <2> SUFFICES ASSUME NEW k \in 1..n PROVE NodeText(b)[k] = LeftText'[k]
    OBVIOUS
  <2>1. k - 1 \in 0..NodeLen - 1 /\ w + (k - 1) = w + k - 1 /\ k \in 1..cc'
    BY <1>1, <1>3, <1>7, <1>9, CellsAre
  <2> QED BY <1>5, <1>7, <1>11, <2>1
<1>14. TL!Begins(NodeText(b), LeftText')
  BY <1>7, <1>9, <1>11, <1>13, BeginsIf
<1>15. n < NodeLen => LeftText' = NodeText(b)
  BY <1>7, <1>10, <1>11, <1>13, SameElements
<1> QED BY <1>7, <1>12, <1>14, <1>15

\* A line that has become empty.
LEMMA LineEmptied ==
  ASSUME Editing, buffer' = CopyTo(0, << >>)
  PROVE  IsBuffer(buffer') /\ EndsAt(buffer', w, 0) /\ StringLen(buffer', w) = 0
<1>1. w \in Nat /\ w \in 0..Cells - 1 /\ IsBuffer(buffer)
  BY LineFacts DEF Editing
<1>2. IsBuffer(buffer')
  <2>1. w + 0 + 0 < Cells
    BY <1>1, CellsAre
  <2> QED BY <2>1, NoTextIsText, CopyFits
<1>3. buffer'[w + 0] = NUL
  <2> DEFINE f == [j \in 0..0 + Len(<< >>) |-> IF j = 0 + Len(<< >>) THEN NUL ELSE << >>[j - 0 + 1]]
  <2>1. 0 \in DOMAIN f /\ f[0] = NUL
    BY NoTextIsText
  <2>2. buffer' = Assign(f)
    BY DEF CopyTo
  <2> HIDE DEF f
  <2>3. 0 \in Int /\ w + 0 \in 0..Cells - 1
    BY <1>1
  <2>4. Assign(f)[w + 0] = IF 0 \in DOMAIN f THEN f[0] ELSE buffer[w + 0]
    BY <1>1, <2>3, Assigned
  <2> QED BY <2>1, <2>2, <2>4
<1>4. EndsAt(buffer', w, 0)
  BY <1>1, <1>3, CellsAre DEF EndsAt
<1> QED BY <1>1, <1>2, <1>4, LengthIs

LEMMA LineRecalled ==
  ASSUME Editing, IsList(list), NodesHaveCells, at \in 0..Len(list), Up \/ Down
  PROVE  TL!Recall
<1>1. Len(list) \in Nat
  BY ListFacts
<1>2. PICK i : Show(i) /\ i \in {IF at = Len(list) THEN 0 ELSE at + 1, IF at = 0 THEN Len(list) ELSE at - 1}
  BY DEF Up, Down
<1>3. i \in 0..Len(list)
  BY <1>1, <1>2
<1>4. /\ at' = i /\ cc' = StringLen(buffer', w) /\ pos' = cc' /\ w' = w
      /\ insert_mode' = insert_mode /\ fFile' = fFile
  BY <1>2 DEF Show, KeyPressed, promptVars
<1>5. at' \in {IF at = Len(Texts(list)) THEN 0 ELSE at + 1, IF at = 0 THEN Len(Texts(list)) ELSE at - 1}
  BY <1>2, <1>4, TextsAre
<1>6. CASE i = 0
  <2>1. buffer' = CopyTo(0, << >>)
    BY <1>2, <1>6 DEF Show
  <2>2. IsBuffer(buffer') /\ cc' = 0 /\ LineOK(buffer', cc', pos')
    BY <1>4, <2>1, LineEmptied DEF LineOK, EndsAt
  <2>3. LeftText' = << >> /\ RightText' = << >>
    BY <1>4, <2>2, After
  <2> QED BY <1>4, <1>5, <1>6, <2>3, TextCopies
<1>7. CASE i # 0
  <2>1. i \in 1..Len(list)
    BY <1>1, <1>3, <1>7
  <2>2. PICK b : b = list[i]
    OBVIOUS
  <2>3. DOMAIN b = 0..NodeLen - 1 /\ buffer' = CopyNode(b)
    BY <1>2, <1>7, <2>1, <2>2 DEF Show, NodesHaveCells
  <2>4. /\ RightText' = << >>
        /\ TL!Begins(NodeText(b), LeftText') /\ (Len(NodeText(b)) < NodeLen => LeftText' = NodeText(b))
    BY <1>4, <2>3, NodeCopied
  <2>5. Texts(list)[at'] = NodeText(b) /\ at' # 0
    BY <1>4, <1>7, <2>1, <2>2, TextsAre
  <2> QED BY <1>4, <1>5, <2>4, <2>5, TextCopies
<1> QED BY <1>6, <1>7

\* The cells of a text that is copied to the line, and what comes before it.
LEMMA CopiedCells ==
  ASSUME Editing, NEW i \in 0..cc, NEW s, IsText(s), w + i + Len(s) < Cells, NEW j \in 0..i + Len(s) - 1
  PROVE  CopyTo(i, s)[w + j] = IF j < i THEN buffer[w + j] ELSE s[j - i + 1]
<1> DEFINE f == [k \in i..i + Len(s) |-> IF k = i + Len(s) THEN NUL ELSE s[k - i + 1]]
<1>1. w \in Nat /\ cc \in Nat /\ i \in Nat /\ Len(s) \in Nat /\ IsBuffer(buffer)
  BY LineFacts, ListFacts DEF IsText, Editing
<1>2. j \in Int /\ w + j \in 0..Cells - 1 /\ j # i + Len(s)
  BY <1>1, CellsAre
<1>3. CopyTo(i, s) = Assign(f)
  BY DEF CopyTo
<1>4. Assign(f)[w + j] = IF j \in DOMAIN f THEN f[j] ELSE buffer[w + j]
  <2> HIDE DEF f
  <2> QED BY <1>1, <1>2, Assigned
<1>5. j >= i => j \in DOMAIN f /\ f[j] = s[j - i + 1]
  BY <1>1, <1>2
<1>6. j < i => j \notin DOMAIN f
  BY <1>1
<1> HIDE DEF f
<1> QED BY <1>1, <1>2, <1>3, <1>4, <1>5, <1>6

LEMMA KeyTextAlone ==
  ASSUME Editing, NEW s, IsText(s), Len(s) <= NodeLen, buffer' = CopyTo(0, s)
  PROVE  StringAt(buffer', w) = s
<1>1. w \in Nat /\ w \in 0..Cells - 1 /\ w + NodeLen < Cells /\ cc \in Nat /\ Len(s) \in Nat /\ 0 \in 0..cc
  BY LineFacts, ListFacts DEF Editing, IsText
<1>2. w + 0 + Len(s) < Cells
  BY <1>1, CellsAre
<1>3. IsBuffer(buffer')
  BY <1>2, CopyFits
<1>4. w + StringLen(CopyTo(0, s), w) < Cells
  BY <1>1, <1>3, StringEnds DEF EndsAt
<1>5. StringLen(buffer', w) = 0 + Len(s)
  BY <1>1, <1>4, CompletedLine
<1>6. EndsAt(buffer', w, Len(s))
  <2>1. Len(s) = StringLen(buffer', w)
    BY <1>1, <1>5
  <2> QED BY <1>1, <1>3, <2>1, StringEnds
<1>7. /\ IsText(StringAt(buffer', w)) /\ Len(StringAt(buffer', w)) = Len(s)
      /\ \A k \in 1..Len(s) : StringAt(buffer', w)[k] = buffer'[w + k - 1]
  BY <1>1, <1>3, <1>6, ReadCells
<1>8. \A k \in 1..Len(s) : buffer'[w + k - 1] = s[k]
  <2> SUFFICES ASSUME NEW k \in 1..Len(s) PROVE buffer'[w + k - 1] = s[k]
    OBVIOUS
  <2>1. k - 1 \in 0..0 + Len(s) - 1 /\ ~(k - 1 < 0) /\ k - 1 - 0 + 1 = k /\ w + (k - 1) = w + k - 1
    BY <1>1
  <2>2. CopyTo(0, s)[w + (k - 1)] = IF k - 1 < 0 THEN buffer[w + (k - 1)] ELSE s[k - 1 - 0 + 1]
    BY <1>1, <1>2, <2>1, CopiedCells
  <2> QED BY <2>1, <2>2
<1> QED BY <1>7, <1>8, SameElements DEF IsText

\* The text of a key that does not erase the line leaves no NUL in it.
LEMMA KeyTextLengthens ==
  ASSUME Editing, NEW k, IsText(k.value), Len(k.value) <= NodeLen, ~k.erase, buffer' = KeyLine(k)
  PROVE  Len(StringAt(buffer', w)) >= cc
<1> DEFINE rest == IF insert_mode THEN SubSeq(Line, pos + 1, cc) ELSE << >>
           length == Min({Max({Len(k.value), Len(rest)}), maxlen})
           f == [i \in 0..length - 1 |-> IF i < Len(rest) THEN rest[i + 1] ELSE k.value[i + 1]]
<1>1. /\ w \in Nat /\ w \in 0..Cells - 1 /\ w + cc < Cells /\ maxlen \in Nat /\ pos \in 0..cc /\ pos \in Nat /\ cc \in Nat
      /\ IsBuffer(buffer) /\ IsList(k.value) /\ Len(k.value) \in Nat /\ EndsAt(buffer, w, cc)
      /\ \A m \in 0..cc - 1 : buffer[w + m] # NUL
  BY LineFacts, ListFacts DEF Editing, LineOK, IsText
<1>2. IsList(rest) /\ Len(rest) \in Nat /\ \A m \in 1..Len(rest) : rest[m] # NUL
  <2>1. IsText(Line) /\ Len(Line) = cc
    BY <1>1, ReadCells DEF Line
  <2>2. /\ IsList(SubSeq(Line, pos + 1, cc)) /\ Len(SubSeq(Line, pos + 1, cc)) = cc - pos
        /\ \A m \in 1..cc - pos : SubSeq(Line, pos + 1, cc)[m] = Line[pos + m]
    <3>1. cc \in 0..Len(Line) /\ pos <= cc
      BY <1>1, <2>1
    <3> QED BY <1>1, <2>1, <3>1, PartOf DEF IsText
  <2>3. \A m \in 1..cc - pos : pos + m \in 1..cc
    BY <1>1
  <2>4. \A m \in 1..cc : Line[m] # NUL
    <3>1. DOMAIN Line = 1..cc
      BY <2>1, ListFacts DEF IsText
    <3> QED BY <2>1, <3>1 DEF IsText, Range
  <2>5. CASE insert_mode
    BY <1>1, <2>2, <2>3, <2>4, <2>5
  <2>6. CASE ~insert_mode
    <3>1. rest = << >>
      BY <2>6
    <3> HIDE DEF rest
    <3> QED BY <3>1, NoTextIsText DEF IsText
  <2> QED BY <2>5, <2>6
<1> HIDE DEF rest
<1>3. length \in Int /\ (length <= Len(k.value) \/ length <= Len(rest)) /\ length <= maxlen
  <2>1. PICK m : m = Max({Len(k.value), Len(rest)})
    OBVIOUS
  <2>2. m \in Int /\ (m = Len(k.value) \/ m = Len(rest))
    <3>1. Len(k.value) \in Int /\ Len(rest) \in Int
      BY <1>1, <1>2
    <3> QED BY <2>1, <3>1, MaxOfTwo
  <2>3. length = Min({m, maxlen}) /\ maxlen \in Int
    BY <1>1, <2>1
  <2>4. length = IF m <= maxlen THEN m ELSE maxlen
    BY <2>2, <2>3, MinOfTwo
  <2> HIDE DEF length
  <2> QED BY <2>2, <2>3, <2>4
<1>4. buffer' = Assign(f)
  BY DEF KeyLine, rest
<1> HIDE DEF length
<1>5. \A i \in 0..length - 1 : f[i] # NUL
  <2> SUFFICES ASSUME NEW i \in 0..length - 1 PROVE f[i] # NUL
    OBVIOUS
  <2>1. CASE i < Len(rest)
    <3>1. i + 1 \in 1..Len(rest)
      BY <1>2, <1>3, <2>1
    <3> QED BY <1>2, <2>1, <3>1
  <2>2. CASE ~(i < Len(rest))
    <3>1. i + 1 \in 1..Len(k.value)
      BY <1>1, <1>2, <1>3, <2>2
    <3>2. k.value[i + 1] # NUL
      <4>1. DOMAIN k.value = 1..Len(k.value)
        BY <1>1, ListFacts
      <4> QED BY <3>1, <4>1 DEF IsText, Range
    <3> QED BY <2>2, <3>2
  <2> QED BY <2>1, <2>2
<1>6. DOMAIN f = 0..length - 1
  OBVIOUS
<1> HIDE DEF f
<1>7. \A m \in 0..cc - 1 : buffer'[w + m] # NUL
  <2> SUFFICES ASSUME NEW m \in 0..cc - 1 PROVE buffer'[w + m] # NUL
    OBVIOUS
  <2>1. m \in Int /\ w + m \in 0..Cells - 1
    BY <1>1, CellsAre
  <2>2. buffer'[w + m] = IF m \in DOMAIN f THEN f[m] ELSE buffer[w + m]
    BY <1>1, <1>4, <2>1, Assigned
  <2> QED BY <1>1, <1>5, <1>6, <2>2
<1>8. IsBuffer(buffer')
  BY KeyLineFits
<1>9. PICK n : n = StringLen(buffer', w)
  OBVIOUS
<1>10. n \in Nat /\ buffer'[w + n] = NUL /\ Len(StringAt(buffer', w)) = n
  BY <1>1, <1>8, <1>9, StringEnds, StringIsText DEF EndsAt
<1>11. n >= cc
  BY <1>1, <1>7, <1>10
<1> QED BY <1>10, <1>11

LEMMA KeyTextGoes ==
  ASSUME Editing, keydef \in [Keys -> UsableKey \cup {NoKey}], NEW i \in Keys, FunctionKey(keydef[i])
  PROVE  TL!FunctionKey
<1>1. PICK k : k = keydef[i]
  OBVIOUS
<1>2. k # NoKey /\ IsText(k.value) /\ Len(k.value) <= NodeLen /\ k.value \in KeyTexts
  <2>1. k # NoKey
    BY <1>1 DEF FunctionKey
  <2>2. IsText(k.value) /\ Len(k.value) <= NodeLen
    BY <1>1, <2>1, KeysAre
  <2>3. k \in KeyDefs
    BY <1>1, <2>1 DEF UsableKey, Key
  <2> QED BY <2>1, <2>2, <2>3 DEF KeyTexts
<1>3. /\ buffer' = KeyLine(k) /\ cc' = StringLen(buffer', w) /\ (pos' = cc' \/ pos' = pos)
      /\ w' = w /\ insert_mode' = insert_mode /\ at' = at /\ fFile' = fFile
  BY <1>1 DEF FunctionKey, KeyPressed, promptVars
<1>4. IsBuffer(buffer')
  BY <1>2, <1>3, KeyLineFits
<1>5. pos' \in Nat
  <2>1. w \in 0..Cells - 1 /\ cc \in Nat /\ pos \in 0..cc
    BY LineFacts
  <2>2. cc' \in Nat
    BY <1>3, <1>4, <2>1, StringEnds DEF EndsAt
  <2> QED BY <1>3, <2>1, <2>2
<1>6. LeftText' \o RightText' = StringAt(buffer', w)
  BY <1>3, <1>4, <1>5, WholeTextAfter
<1>7. CASE k.erase
  <2>1. buffer' = CopyTo(0, k.value)
    BY <1>3, <1>7 DEF KeyLine
  <2>2. LeftText' \o RightText' \in KeyTexts
    BY <1>2, <1>6, <2>1, KeyTextAlone
  <2> QED BY <1>3, <2>2, TextKeys
<1>8. CASE ~k.erase
  <2>1. Len(LeftText' \o RightText') >= Len(LeftText \o RightText)
    BY <1>2, <1>3, <1>6, <1>8, KeyTextLengthens, WholeText
  <2> QED BY <1>3, <2>1, TextKeys
<1> QED BY <1>7, <1>8

LEMMA LineEnters ==
  ASSUME Editing, Enter \/ Abandon
  PROVE  TL!Enter
<1>1. /\ phase' = "entered" /\ w' = w /\ insert_mode' = insert_mode /\ at' = at /\ fFile' = fFile
  BY DEF Enter, Abandon, KeyPressed, promptVars
<1>2. Stage' = "entered"
  BY <1>1 DEF Stage
<1>3. CASE Enter
  <2>1. buffer' = buffer /\ pos' = pos
    BY <1>3 DEF Enter, lineVars
  <2>2. LeftText' = LeftText /\ RightText' = RightText
    BY <1>1, <2>1 DEF LeftText, RightText
  <2> QED BY <1>1, <1>2, <2>2, TextKeys
<1>4. CASE Abandon
  <2>1. buffer' = CopyTo(0, << >>) /\ pos' = pos
    BY <1>4 DEF Abandon
  <2>2. IsBuffer(buffer') /\ EndsAt(buffer', w, 0)
    BY <2>1, LineEmptied
  <2>3. w \in 0..Cells - 1 /\ pos' \in Nat
    BY <2>1, LineFacts
  <2>4. IsList(StringAt(buffer', w)) /\ Len(StringAt(buffer', w)) = 0
    BY <2>2, <2>3, ReadCells DEF IsText
  <2>5. LeftText' \o RightText' = << >>
    BY <1>1, <2>2, <2>3, <2>4, WholeTextAfter, ListFacts
  <2> QED BY <1>1, <1>2, <2>5, TextKeys
<1> QED BY <1>3, <1>4

(***************************************************************************)
(* TAB.  What is searched has no blank in it, and stays in its cells while *)
(* it is searched: the last blank at or before the cursor stays before it. *)
(***************************************************************************)
NamesWithoutBlanks == \A f \in Files : BLANK \notin Range(f)

WordInv ==
  /\ tab.open => tab.on /\ fFile
  /\ tab.on => pos = cc /\ BLANK \notin Range(szSearch) /\ \A j \in tab.cell..cc - 1 : buffer[w + j] # BLANK
  /\ tab.on /\ ~tab.open =>
       /\ ~fFile /\ cc = tab.cell + Len(szSearch)
       /\ \A j \in 1..Len(szSearch) : buffer[w + (tab.cell + j - 1)] = szSearch[j]

\* The line after TAB: its cells to cell i, and a text.
Ends(l, i, s) ==
  /\ IsList(l) /\ Len(l) = i + Len(s)
  /\ \A k \in 1..i : l[k] = buffer[w + k - 1]
  /\ \A k \in 1..Len(s) : l[i + k] = s[k]

TabTo(i, s) ==
  /\ buffer' = CopyTo(i, s) /\ w' = w /\ cc' = StringLen(buffer', w) /\ pos' = cc' /\ w + cc' < Cells

LEMMA TabCells ==
  ASSUME Editing, NEW i \in 0..cc, NEW s, IsText(s), TabTo(i, s)
  PROVE  /\ IsBuffer(buffer') /\ LineOK(buffer', cc', pos') /\ cc' = i + Len(s)
         /\ \A j \in 0..i - 1 : buffer'[w + j] = buffer[w + j]
         /\ \A j \in 1..Len(s) : buffer'[w + (i + j - 1)] = s[j]
<1>1. /\ w \in Nat /\ w \in 0..Cells - 1 /\ cc \in Nat /\ i \in Nat /\ Len(s) \in Nat
      /\ buffer' = CopyTo(i, s) /\ cc' = StringLen(buffer', w) /\ pos' = cc' /\ w + cc' < Cells
  BY LineFacts, ListFacts DEF TabTo, IsText
<1>2. w + StringLen(CopyTo(i, s), w) < Cells
  BY <1>1
<1>3. IsBuffer(buffer') /\ cc' = i + Len(s)
  BY <1>1, <1>2, CompletedLine
<1>4. w + i + Len(s) < Cells
  BY <1>1, <1>3, CellsAre
<1>5. LineOK(buffer', cc', pos')
  <2>1. EndsAt(buffer', w, cc')
    BY <1>1, <1>3, StringEnds
  <2> QED BY <1>1, <2>1 DEF LineOK, EndsAt
<1>6. \A j \in 0..i + Len(s) - 1 : buffer'[w + j] = IF j < i THEN buffer[w + j] ELSE s[j - i + 1]
  BY <1>1, <1>4, CopiedCells
<1>7. \A j \in 0..i - 1 : buffer'[w + j] = buffer[w + j]
  <2>1. \A j \in 0..i - 1 : j \in 0..i + Len(s) - 1 /\ j < i
    BY <1>1
  <2> QED BY <1>6, <2>1
<1>8. \A j \in 1..Len(s) : buffer'[w + (i + j - 1)] = s[j]
  <2> SUFFICES ASSUME NEW j \in 1..Len(s) PROVE buffer'[w + (i + j - 1)] = s[j]
    OBVIOUS
  <2>1. i + j - 1 \in 0..i + Len(s) - 1 /\ ~(i + j - 1 < i) /\ i + j - 1 - i + 1 = j
    BY <1>1
  <2> QED BY <1>6, <2>1
<1> QED BY <1>3, <1>5, <1>7, <1>8

LEMMA TabSides ==
  ASSUME Editing, NEW i \in 0..cc, NEW s, IsText(s), TabTo(i, s)
  PROVE  RightText' = << >> /\ Ends(LeftText', i, s)
<1>1. w \in Nat /\ cc \in Nat /\ i \in Nat /\ Len(s) \in Nat /\ w' = w /\ pos' = cc'
  BY LineFacts, ListFacts DEF TabTo, IsText
<1>2. /\ IsBuffer(buffer') /\ LineOK(buffer', cc', pos') /\ cc' = i + Len(s)
      /\ \A j \in 0..i - 1 : buffer'[w + j] = buffer[w + j]
      /\ \A j \in 1..Len(s) : buffer'[w + (i + j - 1)] = s[j]
  BY TabCells
<1>3. IsList(LeftText') /\ Len(LeftText') = cc' /\ (\A k \in 1..cc' : LeftText'[k] = buffer'[w + k - 1]) /\ RightText' = << >>
  BY <1>1, <1>2, After
<1>4. \A k \in 1..i : LeftText'[k] = buffer[w + k - 1]
  <2> SUFFICES ASSUME NEW k \in 1..i PROVE LeftText'[k] = buffer[w + k - 1]
    OBVIOUS
  <2>1. k - 1 \in 0..i - 1 /\ w + (k - 1) = w + k - 1 /\ k \in 1..cc'
    BY <1>1, <1>2
  <2> QED BY <1>2, <1>3, <2>1
<1>5. \A k \in 1..Len(s) : LeftText'[i + k] = s[k]
  <2> SUFFICES ASSUME NEW k \in 1..Len(s) PROVE LeftText'[i + k] = s[k]
    OBVIOUS
  <2>1. i + k \in 1..cc' /\ w + (i + k) - 1 = w + (i + k - 1)
    BY <1>1, <1>2
  <2> QED BY <1>2, <1>3, <2>1
<1> QED BY <1>2, <1>3, <1>4, <1>5 DEF Ends

LEMMA BackIs ==
  ASSUME Editing
  PROVE  /\ Back \in 0..pos /\ (Back = 0 \/ Blank(Back)) /\ \A j \in 0..pos : Blank(j) => j <= Back
         /\ Blank(Back) => Back < cc
<1>1. cc \in Nat /\ pos \in 0..cc /\ pos \in Nat /\ Cell(cc) = NUL
  BY LineFacts DEF Cell
<1> DEFINE T == {0} \cup {j \in 0..pos : Blank(j)}
<1>2. T \subseteq Nat /\ T # {} /\ \A x \in T : x <= pos
  BY <1>1
<1>3. Max(T) \in T /\ \A x \in T : x <= Max(T)
  BY <1>1, <1>2, GreatestNumber
<1>4. Back \in 0..pos /\ (Back = 0 \/ Blank(Back)) /\ \A j \in 0..pos : Blank(j) => j <= Back
  BY <1>1, <1>3 DEF Back
<1>5. Blank(Back) => Back # cc
  BY <1>1, TextsAssumption DEF Blank
<1> QED BY <1>1, <1>4, <1>5

\* What TextLine calls the word begins where the code finds it.
LEMMA BeforeWordIs ==
  ASSUME Editing
  PROVE  TL!BeforeWord = AfterBlank /\ AfterBlank \in 0..cc
<1>1. cc \in Nat /\ pos \in 0..cc /\ pos \in Nat /\ w \in Nat
  BY LineFacts
<1>2. PICK t : t = StringAt(buffer, w)
  OBVIOUS
<1>3. LeftText \o RightText = t /\ Len(t) = cc /\ \A k \in 1..cc : t[k] = buffer[w + k - 1]
  BY <1>2, WholeText
<1>4. Len(LeftText) = pos
  BY Before
<1>5. PICK m : m = IF pos + 1 < cc THEN pos + 1 ELSE cc
  OBVIOUS
<1>6. m \in Nat /\ m <= cc /\ m <= pos + 1 /\ (m = cc \/ m = pos + 1)
  BY <1>1, <1>5
<1>7. TL!Blanks = {j \in 1..m : t[j] = BLANK}
  BY <1>3, <1>4, <1>5, TextWord DEF TL!Least
<1>8. \A j \in 1..m : t[j] = BLANK <=> Blank(j - 1)
  <2> SUFFICES ASSUME NEW j \in 1..m PROVE t[j] = BLANK <=> Blank(j - 1)
    OBVIOUS
  <2>1. j \in 1..cc /\ w + (j - 1) = w + j - 1
    BY <1>1, <1>6
  <2> QED BY <1>3, <2>1 DEF Blank, Cell
<1>9. /\ Back \in 0..pos /\ (Back = 0 \/ Blank(Back)) /\ (\A j \in 0..pos : Blank(j) => j <= Back)
      /\ Blank(Back) => Back < cc
  BY BackIs
<1>10. CASE Blank(Back)
  <2>1. Back + 1 \in 1..m /\ Back + 1 - 1 = Back
    BY <1>1, <1>6, <1>9, <1>10
  <2>2. Back + 1 \in TL!Blanks
    <3>1. PICK q : q = Back + 1
      OBVIOUS
    <3>2. q \in 1..m /\ q - 1 = Back
      BY <1>1, <1>6, <1>9, <1>10, <3>1
    <3>3. t[q] = BLANK
      BY <1>8, <1>10, <3>2
    <3> QED BY <1>7, <3>1, <3>2, <3>3
  <2>3. \A j \in TL!Blanks : j \in Nat /\ j <= Back + 1
    <3> SUFFICES ASSUME NEW j \in TL!Blanks PROVE j \in Nat /\ j <= Back + 1
      OBVIOUS
    <3>1. j \in 1..m /\ Blank(j - 1)
      BY <1>7, <1>8
    <3>2. j - 1 \in 0..pos
      BY <1>1, <1>6, <3>1
    <3> QED BY <1>1, <1>6, <1>9, <3>1, <3>2
  <2>4. \A x \in TL!Blanks : (\A j \in TL!Blanks : j <= x) => x = Back + 1
    BY <1>1, <1>9, <2>2, <2>3
  <2>5. \A j \in TL!Blanks : j <= Back + 1
    BY <2>3
  <2>6. (CHOOSE i \in TL!Blanks : \A j \in TL!Blanks : j <= i) = Back + 1
    BY <2>2, <2>4, <2>5
  <2>7. TL!BeforeWord = Back + 1
    BY <2>2, <2>6, TextWord
  <2>8. Back + 1 \in 0..cc
    BY <1>1, <1>9, <1>10
  <2> QED BY <1>10, <2>7, <2>8 DEF AfterBlank
<1>11. CASE ~Blank(Back)
  <2>1. Back = 0 /\ \A j \in 0..pos : ~Blank(j)
    BY <1>9, <1>11
  <2>2. TL!Blanks = {}
    <3>1. \A j \in 1..m : j - 1 \in 0..pos
      BY <1>1, <1>6
    <3> QED BY <1>7, <1>8, <2>1, <3>1
  <2>3. TL!BeforeWord = 0
    BY <2>2, TextWord
  <2> QED BY <1>1, <1>11, <2>1, <2>3 DEF AfterBlank
<1> QED BY <1>10, <1>11

LEMMA NoWordAtEnd ==
  ASSUME Editing, pos > 0, Cell(WordCell) = NUL
  PROVE  TL!NoWord
<1>1. WordCell = cc /\ cc \in Nat /\ w \in Nat
  BY WordInLine, LineFacts
<1>2. PICK p : p = AfterBlank
  OBVIOUS
<1>3. p \in 0..cc /\ TL!BeforeWord = p
  BY <1>2, BeforeWordIs
<1>4. PICK t : t = StringAt(buffer, w)
  OBVIOUS
<1>5. LeftText \o RightText = t /\ IsList(t) /\ Len(t) = cc /\ \A k \in 1..cc : t[k] = buffer[w + k - 1]
  BY <1>4, WholeText DEF IsText
<1>6. /\ IsList(SubSeq(t, p + 1, cc)) /\ Len(SubSeq(t, p + 1, cc)) = cc - p
      /\ \A k \in 1..cc - p : SubSeq(t, p + 1, cc)[k] = t[p + k]
  <2>1. p \in Nat /\ cc \in 0..Len(t) /\ p <= cc
    BY <1>1, <1>3, <1>5
  <2> QED BY <1>5, <2>1, PartOf
<1>7. CASE Cell(p) = AT
  <2>1. p + 1 = cc
    BY <1>1, <1>2, <1>7 DEF WordCell
  <2>2. Len(SubSeq(t, p + 1, cc)) = 1 /\ SubSeq(t, p + 1, cc)[1] = t[p + 1] /\ t[p + 1] = AT
    <3>1. cc - p = 1 /\ 1 \in 1..cc - p /\ p + 1 \in 1..cc /\ w + (p + 1) - 1 = w + p
      BY <1>1, <1>3, <2>1
    <3> QED BY <1>5, <1>6, <1>7, <3>1 DEF Cell
  <2>3. IsList(<<AT>>) /\ Len(<<AT>>) = 1 /\ <<AT>>[1] = AT
    <3>1. <<AT>> \in Seq({AT})
      OBVIOUS
    <3> QED BY <3>1 DEF IsList
  <2>4. \A k \in 1..1 : SubSeq(t, p + 1, cc)[k] = <<AT>>[k]
    <3>1. \A k \in 1..1 : k = 1
      OBVIOUS
    <3> QED BY <2>2, <2>3, <3>1
  <2>5. SubSeq(t, p + 1, cc) = <<AT>>
    BY <1>6, <2>2, <2>3, <2>4, SameElements
  <2> QED BY <1>3, <1>5, <2>5, TextWord
<1>8. CASE Cell(p) # AT
  <2>1. p = cc
    BY <1>1, <1>2, <1>8 DEF WordCell
  <2>2. Len(SubSeq(t, p + 1, cc)) = 0
    BY <1>1, <1>6, <2>1
  <2>3. SubSeq(t, p + 1, cc) = << >>
    BY <1>6, <2>2, ListFacts
  <2> QED BY <1>3, <1>5, <2>3, TextWord
<1> QED BY <1>7, <1>8

LEMMA WordReplaced ==
  ASSUME Editing, NEW i \in 0..cc, NEW s, IsText(s), TabTo(i, s), AfterBlank <= i
  PROVE  TL!Begins(TL!Cut(LeftText \o RightText, TL!BeforeWord), LeftText')
<1>1. cc \in Nat /\ i \in Nat /\ Len(s) \in Nat
  BY LineFacts, ListFacts DEF IsText
<1>2. PICK p : p = AfterBlank
  OBVIOUS
<1>3. p \in Nat /\ p <= i /\ p <= cc /\ TL!BeforeWord = p
  BY <1>1, <1>2, BeforeWordIs
<1>4. PICK t : t = StringAt(buffer, w)
  OBVIOUS
<1>5. LeftText \o RightText = t /\ IsList(t) /\ Len(t) = cc /\ \A k \in 1..cc : t[k] = buffer[w + k - 1]
  BY <1>4, WholeText DEF IsText
<1>6. PICK c : c = TL!Cut(t, p)
  OBVIOUS
<1>7. IsList(c) /\ Len(c) = p /\ \A k \in 1..p : c[k] = t[k]
  <2>1. /\ IsList(TL!Cut(t, p)) /\ Len(TL!Cut(t, p)) = IF p < Len(t) THEN p ELSE Len(t)
        /\ \A k \in 1..Len(TL!Cut(t, p)) : TL!Cut(t, p)[k] = t[k]
    BY <1>3, <1>5, Cuts
  <2>2. Len(TL!Cut(t, p)) = p
    BY <1>1, <1>3, <1>5, <2>1
  <2> QED BY <1>6, <2>1, <2>2
<1>8. PICK l : l = LeftText'
  OBVIOUS
<1>9. IsList(l) /\ Len(l) = i + Len(s) /\ \A k \in 1..i : l[k] = buffer[w + k - 1]
  BY <1>8, TabSides DEF Ends
<1>10. \A k \in 1..p : c[k] = l[k]
  BY <1>1, <1>3, <1>5, <1>7, <1>9
<1>11. Len(c) <= Len(l)
  BY <1>1, <1>3, <1>7, <1>9
<1>12. TL!Begins(c, l)
  BY <1>7, <1>9, <1>10, <1>11, BeginsIf
<1> QED BY <1>3, <1>5, <1>6, <1>8, <1>12

\* A text goes where a word that begins it was.
Extends(s, word) == Len(word) <= Len(s) /\ \A j \in 1..Len(word) : s[j] = word[j]

LEMMA WordGrows ==
  ASSUME Editing, NEW i \in 0..cc, NEW s, IsText(s), TabTo(i, s), NEW word, IsList(word), cc = i + Len(word),
         \A j \in 1..Len(word) : buffer[w + (i + j - 1)] = word[j], Extends(s, word)
  PROVE  TL!Begins(LeftText \o RightText, LeftText')
<1>1. cc \in Nat /\ i \in Nat /\ w \in Nat /\ Len(s) \in Nat /\ Len(word) \in Nat
  BY LineFacts, ListFacts DEF IsText
<1>2. PICK t : t = StringAt(buffer, w)
  OBVIOUS
<1>3. LeftText \o RightText = t /\ IsList(t) /\ Len(t) = cc /\ \A k \in 1..cc : t[k] = buffer[w + k - 1]
  BY <1>2, WholeText DEF IsText
<1>4. PICK l : l = LeftText'
  OBVIOUS
<1>5. /\ IsList(l) /\ Len(l) = i + Len(s)
      /\ \A k \in 1..i : l[k] = buffer[w + k - 1]
      /\ \A k \in 1..Len(s) : l[i + k] = s[k]
  BY <1>4, TabSides DEF Ends
<1>6. \A k \in 1..cc : t[k] = l[k]
  <2> SUFFICES ASSUME NEW k \in 1..cc PROVE t[k] = l[k]
    OBVIOUS
  <2>1. CASE k <= i
    BY <1>1, <1>3, <1>5, <2>1
  <2>2. CASE k > i
    <3>1. PICK j : j = k - i
      OBVIOUS
    <3>2. j \in 1..Len(word) /\ j \in 1..Len(s) /\ i + j = k /\ w + (i + j - 1) = w + k - 1
      <4>1. PICK m \in Nat : m = Len(word)
        BY <1>1
      <4>2. PICK n \in Nat : n = Len(s)
        BY <1>1
      <4>3. PICK c \in Nat : c = cc
        BY <1>1
      <4>4. m <= n
        BY <4>1, <4>2 DEF Extends
      <4>5. c = i + m /\ k \in 1..c
        BY <4>1, <4>3
      <4>6. j \in 1..m /\ j \in 1..n /\ i + j = k
        BY <1>1, <2>2, <3>1, <4>4, <4>5
      <4>7. w + (i + j - 1) = w + k - 1
        BY <1>1, <4>5, <4>6
      <4> QED BY <4>1, <4>2, <4>6, <4>7
    <3>3. t[k] = word[j]
      BY <1>3, <3>2
    <3>4. l[k] = s[j] /\ s[j] = word[j]
      BY <1>5, <3>2 DEF Extends
    <3> QED BY <3>3, <3>4
  <2> QED BY <1>1, <2>1, <2>2
<1>7. Len(t) <= Len(l)
  BY <1>1, <1>3, <1>5 DEF Extends
<1>8. TL!Begins(t, l)
  BY <1>3, <1>5, <1>6, <1>7, BeginsIf
<1> QED BY <1>3, <1>4, <1>8

LEMMA MatchesBegin ==
  ASSUME NEW word, IsList(word), NEW name \in Matches(word)
  PROVE  IsText(name) /\ name \in Files /\ Extends(name, word) /\ (BLANK \notin Range(name) => BLANK \notin Range(word))
<1>1. name \in Files /\ SubSeq(name, 1, Min({Len(word), Len(name)})) = word
  BY DEF Matches
<1>2. IsText(name)
  BY <1>1, FilesAreTexts
<1>3. Len(name) \in Nat /\ Len(word) \in Nat /\ DOMAIN name = 1..Len(name) /\ DOMAIN word = 1..Len(word)
  BY <1>2, ListFacts DEF IsText
<1>4. Min({Len(word), Len(name)}) = Min({Len(name), Len(word)})
  <2>1. {Len(word), Len(name)} = {Len(name), Len(word)}
    OBVIOUS
  <2> QED BY <2>1
<1>5. FirstOf(name, Len(word)) = word
  BY <1>1, <1>4 DEF FirstOf
<1>6. /\ Len(word) = IF Len(name) <= Len(word) THEN Len(name) ELSE Len(word)
      /\ \A j \in 1..Len(word) : word[j] = name[j]
  <2>1. IsList(name)
    BY <1>2 DEF IsText
  <2>2. PICK n \in Nat : n = Len(word)
    BY <1>3
  <2>3. /\ Len(FirstOf(name, n)) = IF Len(name) <= n THEN Len(name) ELSE n
        /\ \A j \in 1..Len(FirstOf(name, n)) : FirstOf(name, n)[j] = name[j]
    BY <2>1, FirstOfList
  <2>4. FirstOf(name, n) = word
    BY <1>5, <2>2
  <2> QED BY <2>2, <2>3, <2>4
<1>7. Extends(name, word)
  <2>1. PICK m : m = Len(name)
    OBVIOUS
  <2>2. PICK n : n = Len(word)
    OBVIOUS
  <2>3. m \in Nat /\ n \in Nat /\ n = IF m <= n THEN m ELSE n
    BY <1>3, <1>6, <2>1, <2>2
  <2>4. n <= m
    BY <2>3
  <2> QED BY <1>6, <2>1, <2>2, <2>4 DEF Extends
<1>8. BLANK \notin Range(name) => BLANK \notin Range(word)
  <2>1. \A j \in 1..Len(word) : j \in DOMAIN name
    BY <1>3, <1>7 DEF Extends
  <2> QED BY <1>3, <1>6, <2>1 DEF Range
<1> QED BY <1>1, <1>2, <1>7, <1>8

LEMMA TabWithoutBlanks ==
  ASSUME Editing, NEW i \in 0..cc, NEW s, IsText(s), TabTo(i, s), BLANK \notin Range(s)
  PROVE  \A j \in i..cc' - 1 : buffer'[w + j] # BLANK
<1>1. cc \in Nat /\ i \in Nat /\ Len(s) \in Nat /\ DOMAIN s = 1..Len(s)
  BY LineFacts, ListFacts DEF IsText
<1>2. cc' = i + Len(s) /\ \A j \in 1..Len(s) : buffer'[w + (i + j - 1)] = s[j]
  BY TabCells
<1> SUFFICES ASSUME NEW j \in i..cc' - 1 PROVE buffer'[w + j] # BLANK
  OBVIOUS
<1>3. PICK k : k = j - i + 1
  OBVIOUS
<1>4. k \in 1..Len(s) /\ i + k - 1 = j
  BY <1>1, <1>2, <1>3
<1>5. buffer'[w + j] = s[k]
  BY <1>2, <1>4
<1> QED BY <1>1, <1>4, <1>5 DEF Range

\* While a file is searched the last blank stays before the word.
LEMMA BlankStaysBefore ==
  ASSUME Editing, WordInv, tab.on, tab.cell \in 0..cc
  PROVE  AfterBlank <= tab.cell
<1>1. cc \in Nat /\ w \in Nat /\ pos = cc /\ \A j \in tab.cell..cc - 1 : buffer[w + j] # BLANK
  BY LineFacts DEF WordInv
<1>2. Back \in 0..cc /\ (Back = 0 \/ Blank(Back)) /\ (Blank(Back) => Back < cc)
  BY <1>1, BackIs
<1>3. CASE Blank(Back)
  <2>1. Back \notin tab.cell..cc - 1
    BY <1>1, <1>3 DEF Blank, Cell
  <2>2. Back + 1 <= tab.cell
    BY <1>1, <1>2, <1>3, <2>1
  <2> QED BY <1>3, <2>2 DEF AfterBlank
<1>4. CASE ~Blank(Back)
  BY <1>1, <1>2, <1>4 DEF AfterBlank
<1> QED BY <1>3, <1>4

LEMMA TabCompletesAs ==
  ASSUME Editing, pos > 0, insert_mode' = insert_mode, at' = at,
         NEW i \in 0..cc, NEW s, IsText(s), TabTo(i, s),
         TL!NoWord \/ AfterBlank <= i,
         fFile \/ TL!NoWord \/ TL!Begins(LeftText \o RightText, LeftText')
  PROVE  TL!Complete
<1>1. RightText' = << >>
  BY TabSides
<1>2. LeftText # << >>
  <2>1. pos \in 0..cc /\ cc \in Nat
    BY LineFacts
  <2> QED BY <2>1, Before
<1>3. TL!NoWord \/ TL!Begins(TL!Cut(LeftText \o RightText, TL!BeforeWord), LeftText')
  BY WordReplaced
<1> QED BY <1>1, <1>2, <1>3, TextCopies

\* What is searched for the first time, or again when it has been found no more.
LEMMA SearchCompletes ==
  ASSUME NamesWithoutBlanks, Editing, SearchInv, WordInv, ~tab.open, pos > 0, insert_mode' = insert_mode, at' = at,
         w' = w, cc' = StringLen(buffer', w), pos' = cc', w + cc' < Cells,
         NEW i \in 0..cc, NEW word, IsText(word), SearchFirst(i, word), tab.on => i = tab.cell /\ word = szSearch,
         TL!NoWord \/ AfterBlank <= i,
         TL!NoWord \/ (cc = i + Len(word) /\ \A j \in 1..Len(word) : buffer[w + (i + j - 1)] = word[j])
  PROVE  TL!Complete /\ WordInv'
<1>1. cc \in Nat /\ i \in Nat /\ w \in Nat /\ IsList(word) /\ Len(word) \in Nat
  BY LineFacts, ListFacts DEF IsText
<1>2. CASE Matches(word) = {} /\ tab' = tab /\ Complete(i, word, fFile, found)
  <2>1. PICK s : s = IF fFile THEN found ELSE word
    OBVIOUS
  <2>2. IsText(s)
    BY <2>1 DEF SearchInv
  <2>3. TabTo(i, s) /\ szSearch' = word /\ fFile' = fFile
    BY <1>2, <2>1 DEF Complete, TabTo
  <2>4. fFile \/ TL!NoWord \/ TL!Begins(LeftText \o RightText, LeftText')
    <3> SUFFICES ASSUME ~fFile, ~TL!NoWord PROVE TL!Begins(LeftText \o RightText, LeftText')
      OBVIOUS
    <3>1. s = word /\ Extends(s, word)
      BY <1>1, <2>1 DEF Extends
    <3> QED BY <1>1, <2>2, <2>3, <3>1, WordGrows
  <2>5. TL!Complete
    BY <2>2, <2>3, <2>4, TabCompletesAs
  <2>6. WordInv'
    <3>1. CASE ~tab.on
      BY <1>2, <3>1 DEF WordInv
    <3>2. CASE tab.on
      <4>1. i = tab.cell /\ word = szSearch /\ ~fFile /\ s = word /\ BLANK \notin Range(word)
        BY <2>1, <3>2 DEF WordInv
      <4>2. cc' = i + Len(s) /\ \A j \in 1..Len(s) : buffer'[w + (i + j - 1)] = s[j]
        BY <2>2, <2>3, TabCells
      <4>3. \A j \in i..cc' - 1 : buffer'[w + j] # BLANK
        BY <2>2, <2>3, <4>1, TabWithoutBlanks
      <4> QED BY <1>2, <2>3, <3>2, <4>1, <4>2, <4>3 DEF WordInv
    <3> QED BY <3>1, <3>2
  <2> QED BY <2>5, <2>6
<1>3. ASSUME NEW name \in Matches(word),
             tab' = [on |-> TRUE, open |-> TRUE, cell |-> i, rest |-> Matches(word) \ {name}],
             Complete(i, word, TRUE, name)
      PROVE  TL!Complete /\ WordInv'
  <2>1. IsText(name) /\ name \in Files /\ Extends(name, word) /\ (BLANK \notin Range(name) => BLANK \notin Range(word))
    BY <1>1, MatchesBegin
  <2>2. BLANK \notin Range(name) /\ BLANK \notin Range(word)
    BY <2>1 DEF NamesWithoutBlanks
  <2>3. TabTo(i, name) /\ szSearch' = word /\ fFile'
    BY <1>3 DEF Complete, TabTo
  <2>4. TL!NoWord \/ TL!Begins(LeftText \o RightText, LeftText')
    BY <1>1, <2>1, <2>3, WordGrows
  <2>5. TL!Complete
    BY <2>1, <2>3, <2>4, TabCompletesAs
  <2>6. \A j \in i..cc' - 1 : buffer'[w + j] # BLANK
    BY <2>1, <2>2, <2>3, TabWithoutBlanks
  <2>7. tab'.on /\ tab'.open /\ tab'.cell = i
    BY <1>3
  <2>8. WordInv'
    BY <2>2, <2>3, <2>6, <2>7 DEF WordInv
  <2> QED BY <2>5, <2>8
<1> QED BY <1>2, <1>3 DEF SearchFirst

LEMMA NextCompletes ==
  ASSUME NamesWithoutBlanks, Editing, SearchInv, WordInv, tab.open, SearchNext, pos > 0, insert_mode' = insert_mode, at' = at,
         w' = w, cc' = StringLen(buffer', w), pos' = cc', w + cc' < Cells
  PROVE  TL!Complete /\ WordInv'
<1>1. PICK i : i = tab.cell
  OBVIOUS
<1>2. /\ i \in 0..cc /\ IsText(szSearch) /\ tab.on /\ fFile /\ BLANK \notin Range(szSearch) /\ tab.rest \subseteq Files
      /\ tab \in [on : BOOLEAN, open : BOOLEAN, cell : Int, rest : SUBSET Files]
  BY <1>1 DEF SearchInv, WordInv
<1>3. AfterBlank <= i
  BY <1>1, <1>2, BlankStaysBefore
<1>4. CASE tab.rest = {} /\ tab' = [tab EXCEPT !.open = FALSE] /\ Complete(tab.cell, szSearch, FALSE, << >>)
  <2>1. TabTo(i, szSearch) /\ szSearch' = szSearch /\ ~fFile'
    BY <1>1, <1>4 DEF Complete, TabTo
  <2>2. TL!Complete
    BY <1>2, <1>3, <2>1, TabCompletesAs
  <2>3. cc' = i + Len(szSearch) /\ \A j \in 1..Len(szSearch) : buffer'[w + (i + j - 1)] = szSearch[j]
    BY <1>2, <2>1, TabCells
  <2>4. \A j \in i..cc' - 1 : buffer'[w + j] # BLANK
    BY <1>2, <2>1, TabWithoutBlanks
  <2>5. ~tab'.open /\ tab'.cell = i
    BY <1>1, <1>2, <1>4
  <2>6. WordInv'
    BY <1>2, <2>1, <2>3, <2>4, <2>5 DEF WordInv
  <2> QED BY <2>2, <2>6
<1>5. ASSUME NEW name \in tab.rest, tab' = [tab EXCEPT !.rest = @ \ {name}], Complete(tab.cell, szSearch, TRUE, name)
      PROVE  TL!Complete /\ WordInv'
  <2>1. IsText(name) /\ BLANK \notin Range(name)
    BY <1>2, FilesAreTexts DEF NamesWithoutBlanks
  <2>2. TabTo(i, name) /\ szSearch' = szSearch /\ fFile'
    BY <1>1, <1>5 DEF Complete, TabTo
  <2>3. TL!Complete
    BY <1>2, <1>3, <2>1, <2>2, TabCompletesAs
  <2>4. \A j \in i..cc' - 1 : buffer'[w + j] # BLANK
    BY <1>2, <2>1, <2>2, TabWithoutBlanks
  <2>5. tab'.on /\ tab'.open /\ tab'.cell = i
    BY <1>1, <1>2, <1>5
  <2>6. WordInv'
    BY <1>2, <2>2, <2>4, <2>5 DEF WordInv
  <2> QED BY <2>3, <2>6
<1> QED BY <1>4, <1>5 DEF SearchNext

\* The rest of a line is the string that begins in one of its cells.
LEMMA RestOfLine ==
  ASSUME Editing, NEW i \in 0..cc
  PROVE  /\ IsText(StringAt(buffer, w + i)) /\ cc = i + Len(StringAt(buffer, w + i))
         /\ \A j \in 1..Len(StringAt(buffer, w + i)) : buffer[w + (i + j - 1)] = StringAt(buffer, w + i)[j]
<1>1. /\ w \in Nat /\ cc \in Nat /\ i \in Nat /\ w + cc < Cells /\ IsBuffer(buffer)
      /\ buffer[w + cc] = NUL /\ \A m \in 0..cc - 1 : buffer[w + m] # NUL
  BY LineFacts DEF Editing
<1>2. PICK n : n = cc - i
  OBVIOUS
<1>3. PICK k : k = w + i
  OBVIOUS
<1>4. n \in Nat /\ k \in 0..Cells - 1 /\ k + n = w + cc
  BY <1>1, <1>2, <1>3, CellsAre
<1>5. \A m \in 0..n - 1 : buffer[k + m] # NUL
  <2>1. \A m \in 0..n - 1 : i + m \in 0..cc - 1 /\ w + (i + m) = k + m
    BY <1>1, <1>2, <1>3
  <2> QED BY <1>1, <2>1
<1>6. EndsAt(buffer, k, n)
  BY <1>1, <1>4, <1>5 DEF EndsAt
<1>7. PICK s : s = StringAt(buffer, k)
  OBVIOUS
<1>8. IsText(s) /\ Len(s) = n /\ \A j \in 1..n : s[j] = buffer[k + j - 1]
  BY <1>1, <1>4, <1>6, <1>7, ReadCells
<1>9. cc = i + Len(s)
  BY <1>1, <1>2, <1>8
<1>10. \A j \in 1..Len(s) : buffer[w + (i + j - 1)] = s[j]
  <2>1. \A j \in 1..n : k + j - 1 = w + (i + j - 1)
    BY <1>1, <1>3, <1>4
  <2> QED BY <1>8, <2>1
<1> QED BY <1>3, <1>7, <1>8, <1>9, <1>10

LEMMA TabCompletes ==
  ASSUME NamesWithoutBlanks, Editing, SearchInv, WordInv, Tab
  PROVE  TL!Complete /\ WordInv'
<1>1. /\ pos > 0 /\ w' = w /\ cc' = StringLen(buffer', w) /\ pos' = cc' /\ w + cc' < Cells
      /\ insert_mode' = insert_mode /\ at' = at
  BY DEF Tab, Stay, InMemory, promptVars
<1>2. CASE tab.open
  <2>1. SearchNext
    BY <1>2 DEF Tab
  <2> QED BY <1>1, <1>2, <2>1, NextCompletes
<1>3. CASE ~tab.open /\ tab.on
  <2>1. SearchFirst(tab.cell, szSearch)
    BY <1>3 DEF Tab
  <2>2. PICK i : i = tab.cell
    OBVIOUS
  <2>3. i \in 0..cc /\ IsText(szSearch)
    BY <1>3, <2>2 DEF SearchInv
  <2>4. AfterBlank <= i
    BY <1>3, <2>2, <2>3, BlankStaysBefore
  <2>5. cc = i + Len(szSearch) /\ \A j \in 1..Len(szSearch) : buffer[w + (i + j - 1)] = szSearch[j]
    BY <1>3, <2>2 DEF WordInv
  <2> QED BY <1>1, <1>3, <2>1, <2>2, <2>3, <2>4, <2>5, SearchCompletes
<1>4. CASE ~tab.open /\ ~tab.on
  <2>1. PICK i : i = WordCell
    OBVIOUS
  <2>2. i \in 0..cc /\ AfterBlank <= i
    <3>1. AfterBlank \in 0..cc
      BY BeforeWordIs
    <3> QED BY <1>1, <2>1, <3>1, WordInLine DEF WordCell
  <2>3. CASE Cell(i) # NUL
    <3>1. SearchFirst(i, StringAt(buffer, w + i))
      BY <1>4, <2>1, <2>3 DEF Tab
    <3>2. PICK word : word = StringAt(buffer, w + i)
      OBVIOUS
    <3>3. IsText(word) /\ cc = i + Len(word) /\ \A j \in 1..Len(word) : buffer[w + (i + j - 1)] = word[j]
      BY <2>2, <3>2, RestOfLine
    <3> QED BY <1>1, <1>4, <2>2, <3>1, <3>2, <3>3, SearchCompletes
  <2>4. CASE Cell(i) = NUL
    <3>1. TL!NoWord
      BY <1>1, <2>1, <2>4, NoWordAtEnd
    <3>2. CASE szSearch # Unset
      <4>1. SearchFirst(i, szSearch)
        BY <1>4, <2>1, <2>4, <3>2 DEF Tab
      <4>2. IsText(szSearch)
        BY <3>2 DEF SearchInv
      <4> QED BY <1>1, <1>4, <2>2, <3>1, <4>1, <4>2, SearchCompletes
    <3>3. CASE szSearch = Unset
      <4>1. SearchUnset(i)
        BY <1>4, <2>1, <2>4, <3>3 DEF Tab
      <4>2. i = cc /\ cc > 0 /\ cc \in Nat
        BY <1>1, <2>1, <2>4, WordInLine, LineFacts
      <4>3. PICK k \in {cc, cc - 1} : \E s : IsText(s) /\ buffer' = CopyTo(k, s)
        BY <4>1, <4>2, FilesAreTexts, NoTextIsText DEF SearchUnset
      <4>4. PICK s : IsText(s) /\ buffer' = CopyTo(k, s)
        BY <4>3
      <4>5. k \in 0..cc /\ TabTo(k, s)
        BY <1>1, <4>2, <4>4 DEF TabTo
      <4>6. TL!Complete
        BY <1>1, <3>1, <4>4, <4>5, TabCompletesAs
      <4>7. tab' = tab
        BY <4>1 DEF SearchUnset, tabVars
      <4>8. WordInv'
        BY <1>4, <4>7 DEF WordInv
      <4> QED BY <4>6, <4>8
    <3> QED BY <3>2, <3>3
  <2> QED BY <2>3, <2>4
<1> QED BY <1>2, <1>3, <1>4

(***************************************************************************)
(* The list: an element holds as much of a text as it has cells.           *)
(***************************************************************************)
TextInv ==
  /\ NodesHaveCells /\ pos \in Nat
  /\ phase \notin {"line", "entered"} => ~fFile
  /\ WordInv

LEMMA NodeHoldsText ==
  ASSUME NEW s, IsText(s)
  PROVE  DOMAIN NodeOf(s) = 0..NodeLen - 1 /\ NodeText(NodeOf(s)) = TL!Cut(s, NodeLen)
<1>1. PICK l : l = Len(s)
  OBVIOUS
<1>2. l \in Nat /\ DOMAIN s = 1..l /\ IsList(s)
  BY <1>1, ListFacts DEF IsText
<1>3. l \in Nat /\ NodeLen \in Nat
  BY <1>2, CellsAre
<1>4. PICK b : b = NodeOf(s)
  OBVIOUS
<1>5. DOMAIN b = 0..NodeLen - 1 /\ \A j \in 0..NodeLen - 1 : b[j] = IF j < l THEN s[j + 1] ELSE NUL
  BY <1>1, <1>4 DEF NodeOf
<1>6. \A j \in 0..l - 1 : s[j + 1] # NUL
  <2>1. \A j \in 0..l - 1 : j + 1 \in DOMAIN s
    BY <1>2
  <2> QED BY <2>1 DEF IsText, Range
<1>7. PICK m : m = StringLen(b, 0)
  OBVIOUS
<1>8. m \in 0..NodeLen /\ (\A k \in 0..m - 1 : b[k] # NUL) /\ (m < NodeLen => b[m] = NUL)
  BY <1>5, <1>7, NodeEnds
<1>9. PICK n : n = IF NodeLen < l THEN NodeLen ELSE l
  OBVIOUS
<1>10. n \in Nat /\ n <= NodeLen /\ n <= l /\ (n = NodeLen \/ n = l)
  BY <1>3, <1>9
<1>11. m = n
  <2>1. m \in Nat /\ m <= NodeLen
    BY <1>3, <1>8
  <2>2. CASE m < n
    <3>1. m \in 0..NodeLen - 1 /\ m < l /\ m \in 0..l - 1 /\ m < NodeLen
      BY <1>3, <1>10, <2>1, <2>2
    <3> QED BY <1>5, <1>6, <1>8, <3>1
  <2>3. CASE m > n
    <3>1. n \in 0..m - 1 /\ n \in 0..NodeLen - 1 /\ ~(n < l)
      BY <1>3, <1>10, <2>1, <2>3
    <3> QED BY <1>5, <1>8, <3>1
  <2> QED BY <1>10, <2>1, <2>2, <2>3
<1>12. PICK t : t = NodeText(b)
  OBVIOUS
<1>13. IsList(t) /\ Len(t) = n /\ \A k \in 1..n : t[k] = b[k - 1]
  BY <1>5, <1>7, <1>11, <1>12, NodeTextIs DEF IsText
<1>14. PICK c : c = TL!Cut(s, NodeLen)
  OBVIOUS
<1>15. IsList(c) /\ Len(c) = n /\ \A k \in 1..n : c[k] = s[k]
  BY <1>1, <1>2, <1>3, <1>9, <1>14, Cuts
<1>16. \A k \in 1..n : t[k] = c[k]
  <2> SUFFICES ASSUME NEW k \in 1..n PROVE t[k] = c[k]
    OBVIOUS
  <2>1. k - 1 \in 0..NodeLen - 1 /\ k - 1 < l /\ k - 1 + 1 = k
    BY <1>3, <1>10
  <2> QED BY <1>5, <1>13, <1>15, <2>1
<1>17. t = c
  BY <1>13, <1>15, <1>16, SameElements
<1> QED BY <1>4, <1>5, <1>12, <1>14, <1>17

\* A list is limited and so are the texts of its elements.
LEMMA LimitedTexts ==
  ASSUME NEW l, IsList(l)
  PROVE  /\ IsList(Texts(l)) /\ Len(Texts(l)) = Len(l)
         /\ IsList(Limited(l)) /\ Texts(Limited(l)) = TL!Cut(Texts(l), MAX_KBD_STACK + 1)
<1>1. PICK e : e = Len(l)
  OBVIOUS
<1>2. PICK m : m = MAX_KBD_STACK + 1
  OBVIOUS
<1>3. e \in Nat /\ m \in Nat /\ DOMAIN l = 1..e
  BY <1>1, <1>2, ListFacts, ListBounds
<1>4. PICK t : t = Texts(l)
  OBVIOUS
<1>5. IsList(t) /\ Len(t) = e /\ \A i \in 1..e : t[i] = NodeText(l[i])
  <2>1. DOMAIN t = 1..e /\ t = [i \in 1..e |-> t[i]] /\ \A i \in 1..e : t[i] = NodeText(l[i])
    BY <1>3, <1>4 DEF Texts
  <2> QED BY <1>3, <2>1, FunctionIsList
<1>6. PICK k : k = Limited(l)
  OBVIOUS
<1>7. PICK n : n = IF e <= m THEN e ELSE m
  OBVIOUS
<1>8. n \in Nat /\ n <= e /\ n = IF m < e THEN m ELSE e
  BY <1>3, <1>7
<1>9. IsList(k) /\ Len(k) = n /\ \A i \in 1..n : k[i] = l[i]
  BY <1>1, <1>2, <1>3, <1>6, <1>7, FirstOfList, LimitedIsFirst
<1>10. DOMAIN k = 1..n
  BY <1>9, ListFacts
<1>11. PICK u : u = Texts(k)
  OBVIOUS
<1>12. IsList(u) /\ Len(u) = n /\ \A i \in 1..n : u[i] = NodeText(k[i])
  <2>1. DOMAIN u = 1..n /\ u = [i \in 1..n |-> u[i]] /\ \A i \in 1..n : u[i] = NodeText(k[i])
    BY <1>10, <1>11 DEF Texts
  <2> QED BY <1>8, <2>1, FunctionIsList
<1>13. PICK c : c = TL!Cut(t, m)
  OBVIOUS
<1>14. IsList(c) /\ Len(c) = n /\ \A i \in 1..n : c[i] = t[i]
  <2>1. /\ IsList(TL!Cut(t, m)) /\ Len(TL!Cut(t, m)) = (IF m < Len(t) THEN m ELSE Len(t))
        /\ \A i \in 1..Len(TL!Cut(t, m)) : TL!Cut(t, m)[i] = t[i]
    BY <1>3, <1>5, Cuts
  <2>2. Len(TL!Cut(t, m)) = n
    BY <1>5, <1>8, <2>1
  <2> QED BY <1>13, <2>1, <2>2
<1>15. \A i \in 1..n : u[i] = c[i]
  <2>1. \A i \in 1..n : i \in 1..e
    BY <1>3, <1>8
  <2> QED BY <1>5, <1>9, <1>12, <1>14, <2>1
<1>16. u = c
  BY <1>12, <1>14, <1>15, SameElements
<1> QED BY <1>1, <1>2, <1>4, <1>5, <1>6, <1>9, <1>11, <1>13, <1>16

\* A line that joins the list.
LEMMA LongerTexts ==
  ASSUME NEW l, IsList(l), NEW x
  PROVE  Texts(<<x>> \o l) = <<NodeText(x)>> \o Texts(l)
<1>1. PICK k : k = <<x>> \o l
  OBVIOUS
<1>2. IsList(k) /\ Len(k) = Len(l) + 1 /\ k[1] = x /\ \A i \in 1..Len(l) : k[i + 1] = l[i]
  BY <1>1, LongerList
<1>3. Len(l) \in Nat /\ DOMAIN l = 1..Len(l) /\ DOMAIN k = 1..Len(k)
  BY <1>2, ListFacts
<1>4. PICK t : t = Texts(l)
  OBVIOUS
<1>5. IsList(t) /\ Len(t) = Len(l) /\ \A i \in 1..Len(l) : t[i] = NodeText(l[i])
  BY <1>3, <1>4, LimitedTexts DEF Texts
<1>6. PICK u : u = Texts(k)
  OBVIOUS
<1>7. IsList(u) /\ Len(u) = Len(l) + 1 /\ \A i \in 1..Len(l) + 1 : u[i] = NodeText(k[i])
  BY <1>2, <1>3, <1>6, LimitedTexts DEF Texts
<1>8. PICK v : v = <<NodeText(x)>> \o t
  OBVIOUS
<1>9. IsList(v) /\ Len(v) = Len(t) + 1 /\ v[1] = NodeText(x) /\ \A i \in 1..Len(t) : v[i + 1] = t[i]
  BY <1>5, <1>8, LongerList
<1>10. \A i \in 1..Len(l) + 1 : u[i] = v[i]
  <2> SUFFICES ASSUME NEW i \in 1..Len(l) + 1 PROVE u[i] = v[i]
    OBVIOUS
  <2>1. CASE i = 1
    BY <1>2, <1>7, <1>9, <2>1
  <2>2. CASE i # 1
    <3>1. PICK j : j = i - 1
      OBVIOUS
    <3>2. j \in 1..Len(l) /\ j + 1 = i
      BY <1>3, <2>2, <3>1
    <3>3. u[i] = NodeText(k[i]) /\ k[i] = l[j]
      BY <1>2, <1>7, <3>2
    <3>4. v[i] = t[j] /\ t[j] = NodeText(l[j])
      BY <1>5, <1>9, <3>2
    <3> QED BY <3>3, <3>4
  <2> QED BY <2>1, <2>2
<1>11. u = v
  BY <1>5, <1>7, <1>9, <1>10, SameElements
<1> QED BY <1>1, <1>4, <1>6, <1>8, <1>11

LEMMA LineKept ==
  ASSUME EditorInv, TextInv, KeepLine
  PROVE  TL!Keep
<1>1. phase = "entered" /\ IsList(list) /\ Len(list) \in Nat /\ NodeLen \in Nat /\ NodeLen > 0
  BY ListFacts, ListBounds, RecallAssumption DEF KeepLine, EditorInv, ListInv
<1>2. Stage = "entered" /\ Stage' = "away"
  BY DEF KeepLine, Stage
<1>3. PICK t : t = Line
  OBVIOUS
<1>4. LeftText \o RightText = t /\ IsText(t) /\ Len(t) \in Nat
  <2>1. IsBuffer(buffer) /\ w \in 0..Cells - 1 /\ pos \in Nat
    BY CellsAre DEF EditorInv, CellsInv, TextInv
  <2> QED BY <1>3, <2>1, SidesJoin, StringIsText, ListFacts DEF Line, LeftText, RightText, IsText
<1>5. PICK l : l = Texts(list)
  OBVIOUS
<1>6. PICK new : new = TL!Cut(t, NodeLen)
  OBVIOUS
<1>7. PICK longer : longer = TL!Cut(<<new>> \o l, MAX_KBD_STACK + 1)
  OBVIOUS
<1>8. PICK last : last = IF l = << >> THEN << >> ELSE l[1]
  OBVIOUS
<1>9. TL!Keep <=>
        Texts(list)' \in CASE t = << >> -> {l}
                           [] t # << >> /\ new # last -> {longer}
                           [] OTHER -> IF Len(new) < NodeLen THEN {l} ELSE {l, longer}
  BY <1>2, <1>4, <1>5, <1>6, <1>7, <1>8, TextPrompts
<1>10. PICK same \in SameAsLast : list' = IF t = << >> \/ same THEN list ELSE Limited(<<NodeOf(t)>> \o list)
  BY <1>3 DEF KeepLine
<1>11. ~(t = << >> \/ same) => Texts(list)' = longer
  <2> SUFFICES ASSUME ~(t = << >> \/ same) PROVE Texts(list)' = longer
    OBVIOUS
  <2>1. PICK k : k = <<NodeOf(t)>> \o list
    OBVIOUS
  <2>2. list' = Limited(k)
    BY <1>10, <2>1
  <2>3. IsList(k) /\ Texts(k) = <<NodeText(NodeOf(t))>> \o l
    BY <1>1, <1>5, <2>1, LongerList, LongerTexts
  <2>4. NodeText(NodeOf(t)) = new
    BY <1>4, <1>6, NodeHoldsText
  <2>5. Texts(Limited(k)) = TL!Cut(Texts(k), MAX_KBD_STACK + 1)
    BY <2>3, LimitedTexts
  <2>6. Texts(list)' = Texts(Limited(k))
    BY <2>2 DEF Texts
  <2> QED BY <1>7, <2>3, <2>4, <2>5, <2>6
<1>12. t = << >> \/ same => Texts(list)' = l
  BY <1>5, <1>10 DEF Texts
<1>13. new = SubSeq(t, 1, Min({Len(t), NodeLen})) /\ (t # << >> => new # << >>)
  <2>1. new = FirstOf(t, NodeLen)
    <3>1. IsList(new) /\ Len(new) = (IF NodeLen < Len(t) THEN NodeLen ELSE Len(t)) /\ \A i \in 1..Len(new) : new[i] = t[i]
      BY <1>1, <1>4, <1>6, Cuts DEF IsText
    <3>2. PICK f : f = FirstOf(t, NodeLen)
      OBVIOUS
    <3>3. IsList(f) /\ Len(f) = (IF Len(t) <= NodeLen THEN Len(t) ELSE NodeLen) /\ \A i \in 1..Len(f) : f[i] = t[i]
      BY <1>1, <1>4, <3>2, FirstOfList DEF IsText
    <3>4. Len(new) = Len(f)
      BY <1>1, <1>4, <3>1, <3>3
    <3>5. \A i \in 1..Len(f) : new[i] = f[i]
      BY <3>1, <3>3, <3>4
    <3> QED BY <3>1, <3>2, <3>3, <3>4, <3>5, SameElements
  <2>2. IsList(new) /\ Len(new) = (IF NodeLen < Len(t) THEN NodeLen ELSE Len(t))
    BY <1>1, <1>4, <1>6, Cuts DEF IsText
  <2>3. t # << >> => Len(t) # 0
    BY <1>4, ListFacts DEF IsText
  <2>4. t # << >> => Len(new) # 0
    BY <1>1, <1>4, <2>2, <2>3
  <2> QED BY <2>1, <2>2, <2>4, ListFacts DEF FirstOf
<1>14. list # << >> => Len(list) > 0 /\ l # << >> /\ l[1] = NodeText(list[1]) /\ DOMAIN list[1] = 0..NodeLen - 1
  <2> SUFFICES ASSUME list # << >>
               PROVE  Len(list) > 0 /\ l # << >> /\ l[1] = NodeText(list[1]) /\ DOMAIN list[1] = 0..NodeLen - 1
    OBVIOUS
  <2>1. Len(list) > 0 /\ 1 \in 1..Len(list)
    BY <1>1, ListFacts
  <2>2. l[1] = NodeText(list[1]) /\ Len(l) = Len(list) /\ IsList(l)
    BY <1>1, <1>5, <2>1, TextsAre
  <2>3. l # << >>
    BY <1>1, <2>1, <2>2, ListFacts
  <2> QED BY <2>1, <2>2, <2>3 DEF TextInv, NodesHaveCells
<1>15. list = << >> => l = << >>
  <2> SUFFICES ASSUME list = << >> PROVE l = << >>
    OBVIOUS
  <2>1. Len(l) = 0 /\ IsList(l)
    BY <1>1, <1>5, TextsAre, ListFacts
  <2> QED BY <2>1, ListFacts
<1>16. CASE t = << >>
  BY <1>9, <1>12, <1>16
<1>17. CASE t # << >> /\ new # last
  <2>1. ~same
    <3>1. CASE list = << >>
      BY <1>10, <3>1 DEF SameAsLast
    <3>2. CASE list # << >>
      <4>1. NodeText(list[1]) # SubSeq(Line, 1, Min({Len(Line), NodeLen}))
        BY <1>3, <1>8, <1>13, <1>14, <1>17, <3>2
      <4> QED BY <1>10, <3>2, <4>1 DEF SameAsLast
    <3> QED BY <3>1, <3>2
  <2> QED BY <1>9, <1>11, <1>17, <2>1
<1>18. CASE t # << >> /\ new = last
  <2>1. list # << >>
    BY <1>8, <1>13, <1>15, <1>18
  <2>2. new = NodeText(list[1])
    BY <1>8, <1>14, <1>18, <2>1
  <2>3. Len(new) = StringLen(list[1], 0)
    BY <1>14, <2>1, <2>2, NodeTextIs
  <2>4. Len(new) < NodeLen => same
    <3> SUFFICES ASSUME Len(new) < NodeLen PROVE same
      OBVIOUS
    <3>1. SameAsLast = {TRUE}
      BY <1>3, <1>13, <2>1, <2>2, <2>3 DEF SameAsLast
    <3> QED BY <1>10, <3>1
  <2>5. Texts(list)' \in {l, longer}
    BY <1>11, <1>12
  <2>6. Len(new) < NodeLen => Texts(list)' = l
    BY <1>12, <2>4
  <2>7. Texts(list)' \in IF Len(new) < NodeLen THEN {l} ELSE {l, longer}
    BY <2>5, <2>6
  <2> QED BY <1>9, <1>18, <2>7
<1> QED BY <1>16, <1>17, <1>18

(***************************************************************************)
(* Away from the editor.                                                   *)
(***************************************************************************)
LEMMA SameText ==
  ASSUME NEW t, IsList(t)
  PROVE  TL!BlankEnd(t, t)
<1>1. Len(t) \in Nat
  BY ListFacts
<1>2. TL!Begins(t, t)
  BY <1>1, BeginsIf
<1>3. \A i \in Len(t) + 1..Len(t) : FALSE
  BY <1>1
<1> QED BY <1>2, <1>3 DEF TL!BlankEnd

LEMMA BlankEndLost ==
  ASSUME NEW t, IsList(t)
  PROVE  /\ IsList(NoBlankEnd(t)) /\ Len(NoBlankEnd(t)) <= Len(t)
         /\ Range(NoBlankEnd(t)) \subseteq Range(t) /\ TL!BlankEnd(NoBlankEnd(t), t)
<1>1. PICK n : n = Len(t)
  OBVIOUS
<1>2. n \in Nat /\ DOMAIN t = 1..n
  BY <1>1, ListFacts
<1> DEFINE T == {0} \cup {i \in DOMAIN t : t[i] # BLANK}
<1>3. T \subseteq Nat /\ T # {} /\ \A x \in T : x <= n
  BY <1>2
<1>4. PICK m : m = Max(T)
  OBVIOUS
<1>5. m \in T /\ \A x \in T : x <= m
  BY <1>2, <1>3, <1>4, GreatestNumber
<1>6. m \in 0..n /\ \A i \in m + 1..n : t[i] = BLANK
  <2>1. m \in 0..n
    BY <1>2, <1>3, <1>5
  <2>2. \A i \in m + 1..n : i \in DOMAIN t /\ ~(i <= m)
    BY <1>2, <2>1
  <2>3. \A i \in m + 1..n : i \notin T
    BY <1>5, <2>2
  <2> QED BY <2>1, <2>2, <2>3
<1>7. PICK s : s = NoBlankEnd(t)
  OBVIOUS
<1>8. s = SubSeq(t, 1, m)
  BY <1>4, <1>7 DEF NoBlankEnd
<1>9. IsList(s) /\ Len(s) = m /\ \A i \in 1..m : s[i] = t[i]
  <2>1. /\ IsList(SubSeq(t, 0 + 1, m)) /\ Len(SubSeq(t, 0 + 1, m)) = m - 0
        /\ \A i \in 1..m - 0 : SubSeq(t, 0 + 1, m)[i] = t[0 + i]
    BY <1>1, <1>2, <1>6, PartOf
  <2>2. 0 + 1 = 1 /\ m - 0 = m /\ \A i \in 1..m : 0 + i = i
    BY <1>6
  <2> QED BY <1>8, <2>1, <2>2
<1>10. Range(s) \subseteq Range(t)
  <2>1. DOMAIN s = 1..m
    BY <1>9, ListFacts
  <2>2. \A i \in 1..m : i \in DOMAIN t
    BY <1>2, <1>6
  <2> QED BY <1>9, <2>1, <2>2 DEF Range
<1>11. Len(s) <= Len(t)
  BY <1>1, <1>2, <1>6, <1>9
<1>12. TL!Begins(s, t)
  BY <1>9, <1>11, BeginsIf
<1>13. TL!BlankEnd(s, t)
  BY <1>1, <1>6, <1>9, <1>12 DEF TL!BlankEnd
<1> QED BY <1>7, <1>9, <1>10, <1>11, <1>13

\* A text that came from an element goes back into one.
LEMMA TextReturns ==
  ASSUME NEW s, IsText(s), Len(s) <= NodeLen
  PROVE  NodeText(NodeOf(s)) = s
<1>1. Len(s) \in Nat /\ NodeLen \in Nat /\ IsList(s)
  BY ListFacts, CellsAre DEF IsText
<1>2. PICK c : c = TL!Cut(s, NodeLen)
  OBVIOUS
<1>3. IsList(c) /\ Len(c) = (IF NodeLen < Len(s) THEN NodeLen ELSE Len(s)) /\ \A i \in 1..Len(c) : c[i] = s[i]
  BY <1>1, <1>2, Cuts
<1>4. Len(c) = Len(s)
  BY <1>1, <1>3
<1>5. c = s
  BY <1>1, <1>3, <1>4, SameElements
<1> QED BY <1>2, <1>5, NodeHoldsText

\* What a restart makes of an element.
LEMMA NodeRestarted ==
  ASSUME NEW b, DOMAIN b = 0..NodeLen - 1
  PROVE  /\ DOMAIN NodeOf(NoBlankEnd(NodeText(b))) = 0..NodeLen - 1
         /\ TL!BlankEnd(NodeText(NodeOf(NoBlankEnd(NodeText(b)))), NodeText(b))
<1>1. PICK t : t = NodeText(b)
  OBVIOUS
<1>2. IsText(t) /\ Len(t) \in 0..NodeLen
  BY <1>1, NodeTextIs
<1>3. PICK s : s = NoBlankEnd(t)
  OBVIOUS
<1>4. IsText(s) /\ Len(s) <= Len(t) /\ TL!BlankEnd(s, t)
  BY <1>2, <1>3, BlankEndLost DEF IsText
<1>5. Len(s) <= NodeLen
  <2>1. Len(s) \in Nat /\ NodeLen \in Nat
    BY <1>4, ListFacts, CellsAre DEF IsText
  <2> QED BY <1>2, <1>4, <2>1
<1>6. NodeText(NodeOf(s)) = s
  BY <1>4, <1>5, TextReturns
<1> QED BY <1>1, <1>3, <1>4, <1>6, NodeHoldsText

\* The list is written from its end and read from its beginning.
LEMMA ListRestarted ==
  ASSUME IsList(list), Len(list) <= MAX_KBD_STACK + 1, Restart
  PROVE  /\ IsList(list') /\ Len(list') = Len(list)
         /\ \A i \in 1..Len(list) : list'[i] = NodeOf(NoBlankEnd(NodeText(list[i])))
<1>1. PICK n : n = Len(list)
  OBVIOUS
<1>2. n \in Nat /\ n <= MAX_KBD_STACK + 1 /\ MAX_KBD_STACK + 1 \in Nat
  BY <1>1, ListFacts, ListBounds
<1>3. PICK texts : texts = Texts(list)
  OBVIOUS
<1>4. IsList(texts) /\ Len(texts) = n /\ \A i \in 1..n : texts[i] = NodeText(list[i])
  BY <1>1, <1>3, TextsAre
<1>5. PICK file : file = Reverse(texts)
  OBVIOUS
<1>6. DOMAIN file = 1..n /\ \A i \in 1..n : file[i] = texts[n - i + 1]
  BY <1>4, <1>5 DEF Reverse
<1>7. PICK nodes : nodes = [i \in DOMAIN file |-> NodeOf(NoBlankEnd(file[i]))]
  OBVIOUS
<1>8. Len(nodes) = n /\ \A i \in 1..n : nodes[i] = NodeOf(NoBlankEnd(file[i]))
  <2>1. DOMAIN nodes = 1..n /\ nodes = [i \in 1..n |-> nodes[i]] /\ \A i \in 1..n : nodes[i] = NodeOf(NoBlankEnd(file[i]))
    BY <1>6, <1>7
  <2> QED BY <1>2, <2>1, FunctionIsList
<1>9. PICK back : back = Reverse(nodes)
  OBVIOUS
<1>10. IsList(back) /\ Len(back) = n /\ \A i \in 1..n : back[i] = nodes[n - i + 1]
  <2>1. DOMAIN back = 1..n /\ back = [i \in 1..n |-> back[i]] /\ \A i \in 1..n : back[i] = nodes[n - i + 1]
    BY <1>8, <1>9 DEF Reverse
  <2> QED BY <1>2, <2>1, FunctionIsList
<1>11. \A i \in 1..n : back[i] = NodeOf(NoBlankEnd(NodeText(list[i])))
  <2> SUFFICES ASSUME NEW i \in 1..n PROVE back[i] = NodeOf(NoBlankEnd(NodeText(list[i])))
    OBVIOUS
  <2>1. PICK j : j = n - i + 1
    OBVIOUS
  <2>2. j \in 1..n /\ n - j + 1 = i
    BY <1>2, <2>1
  <2>3. back[i] = nodes[j] /\ nodes[j] = NodeOf(NoBlankEnd(file[j])) /\ file[j] = texts[i]
    BY <1>6, <1>8, <1>10, <2>1, <2>2
  <2> QED BY <1>4, <2>3
<1>12. list' = Limited(back)
  BY <1>3, <1>5, <1>7, <1>9 DEF Restart
<1>13. PICK k : k = Limited(back)
  OBVIOUS
<1>14. IsList(k) /\ Len(k) = n /\ \A i \in 1..n : k[i] = back[i]
  BY <1>2, <1>10, <1>13, FirstOfList, LimitedIsFirst
<1> QED BY <1>1, <1>11, <1>12, <1>13, <1>14

LEMMA TextsTaken ==
  ASSUME IsList(list), list # << >>
  PROVE  Texts(list) # << >> /\ Texts(Tail(list)) = Tail(Texts(list))
<1>1. PICK n : n = Len(list)
  OBVIOUS
<1>2. n \in Nat /\ n # 0 /\ DOMAIN list = 1..n
  BY <1>1, ListFacts
<1>3. PICK t : t = Texts(list)
  OBVIOUS
<1>4. IsList(t) /\ Len(t) = n /\ (\A i \in 1..n : t[i] = NodeText(list[i])) /\ t # << >>
  BY <1>1, <1>2, <1>3, TextsAre, ListFacts
<1>5. PICK r : r = Tail(list)
  OBVIOUS
<1>6. IsList(r) /\ Len(r) = n - 1 /\ \A i \in 1..n - 1 : r[i] = list[i + 1]
  BY <1>1, <1>5, TailOfList
<1>7. PICK u : u = Texts(r)
  OBVIOUS
<1>8. IsList(u) /\ Len(u) = n - 1 /\ \A i \in 1..n - 1 : u[i] = NodeText(r[i])
  <2>1. DOMAIN r = 1..n - 1 /\ n - 1 \in Nat
    BY <1>2, <1>6, ListFacts
  <2>2. DOMAIN u = 1..n - 1 /\ u = [i \in 1..n - 1 |-> u[i]] /\ \A i \in 1..n - 1 : u[i] = NodeText(r[i])
    BY <1>7, <2>1 DEF Texts
  <2> QED BY <2>1, <2>2, FunctionIsList
<1>9. PICK v : v = Tail(t)
  OBVIOUS
<1>10. IsList(v) /\ Len(v) = n - 1 /\ \A i \in 1..n - 1 : v[i] = t[i + 1]
  BY <1>4, <1>9, TailOfList
<1>11. \A i \in 1..n - 1 : u[i] = v[i]
  <2> SUFFICES ASSUME NEW i \in 1..n - 1 PROVE u[i] = v[i]
    OBVIOUS
  <2>1. i + 1 \in 1..n
    BY <1>2
  <2> QED BY <1>4, <1>6, <1>8, <1>10, <2>1
<1>12. u = v
  BY <1>8, <1>10, <1>11, SameElements
<1> QED BY <1>3, <1>4, <1>5, <1>7, <1>9, <1>12

LEMMA NoTexts == Texts(<< >>) = << >>
<1>1. IsList(<< >>) /\ Len(<< >>) = 0
  BY NoTextIsText DEF IsText
<1>2. PICK t : t = Texts(<< >>)
  OBVIOUS
<1>3. IsList(t) /\ Len(t) = 0
  BY <1>1, <1>2, LimitedTexts
<1> QED BY <1>2, <1>3, ListFacts

LEMMA CommandsBetween ==
  ASSUME EditorInv, TextInv, dcl_recall \/ RecallErase \/ OtherCommand \/ Restart
  PROVE  TL!Between /\ NodesHaveCells'
<1>1. Ran
  BY DEF dcl_recall, RecallErase, OtherCommand, Restart
<1>2. Stage = "away" /\ Stage' = "away" /\ phase = "run"
  BY <1>1 DEF Ran, Stage
<1>3. IsList(list) /\ Len(list) <= MAX_KBD_STACK + 1 /\ NodesHaveCells /\ Len(list) \in Nat
  BY ListFacts DEF EditorInv, ListInv, TextInv
<1>4. PICK l : l = Texts(list)
  OBVIOUS
<1>5. IsList(l) /\ Len(l) = Len(list) /\ DOMAIN l = 1..Len(list) /\ \A i \in 1..Len(list) : l[i] = NodeText(list[i])
  BY <1>3, <1>4, TextsAre
<1>6. TL!Between <=>
        \/ Len(Texts(list)') = Len(l) /\ \A i \in DOMAIN l : TL!BlankEnd(Texts(list)'[i], l[i])
        \/ Texts(list)' = << >>
        \/ l # << >> /\ Texts(list)' = Tail(l)
  BY <1>2, <1>4, TextPrompts
<1>7. CASE list' = list
  <2>1. Texts(list)' = l
    BY <1>4, <1>7 DEF Texts
  <2>2. \A i \in 1..Len(list) : IsList(l[i])
    BY <1>3, <1>5, NodeTextIs DEF NodesHaveCells, IsText
  <2>3. \A i \in DOMAIN l : TL!BlankEnd(l[i], l[i])
    BY <1>5, <2>2, SameText
  <2> QED BY <1>3, <1>6, <1>7, <2>1, <2>3 DEF NodesHaveCells
<1>8. CASE list' = << >>
  <2>1. Texts(list)' = Texts(<< >>)
    BY <1>8 DEF Texts
  <2>2. Len(<< >>) = 0
    BY NoTextIsText
  <2> QED BY <1>6, <1>8, <2>1, <2>2, NoTexts DEF NodesHaveCells
<1>9. CASE list # << >> /\ list' = Tail(list)
  <2>1. Texts(list)' = Texts(Tail(list))
    BY <1>9 DEF Texts
  <2>2. TL!Between
    BY <1>3, <1>4, <1>6, <1>9, <2>1, TextsTaken
  <2>3. Len(Tail(list)) = Len(list) - 1 /\ \A i \in 1..Len(list) - 1 : Tail(list)[i] = list[i + 1]
    BY <1>3, <1>9, TailOfList
  <2>4. \A i \in 1..Len(list) - 1 : i + 1 \in 1..Len(list)
    BY <1>3
  <2>5. \A i \in 1..Len(list) - 1 : DOMAIN Tail(list)[i] = 0..NodeLen - 1
    BY <1>3, <2>3, <2>4 DEF NodesHaveCells
  <2> QED BY <1>9, <2>2, <2>3, <2>5 DEF NodesHaveCells
<1>10. CASE Restart
  <2>1. PICK k : k = list'
    OBVIOUS
  <2>2. IsList(k) /\ Len(k) = Len(list) /\ \A i \in 1..Len(list) : k[i] = NodeOf(NoBlankEnd(NodeText(list[i])))
    BY <1>3, <1>10, <2>1, ListRestarted
  <2>3. PICK u : u = Texts(k)
    OBVIOUS
  <2>4. DOMAIN k = 1..Len(list)
    BY <2>2, ListFacts
  <2>5. Len(u) = Len(list) /\ \A i \in 1..Len(list) : u[i] = NodeText(k[i])
    BY <2>2, <2>3, <2>4, LimitedTexts DEF Texts
  <2>6. \A i \in 1..Len(list) : /\ DOMAIN NodeOf(NoBlankEnd(NodeText(list[i]))) = 0..NodeLen - 1
                                /\ TL!BlankEnd(NodeText(NodeOf(NoBlankEnd(NodeText(list[i])))), NodeText(list[i]))
    BY <1>3, NodeRestarted DEF NodesHaveCells
  <2>7. \A i \in 1..Len(list) : DOMAIN k[i] = 0..NodeLen - 1 /\ TL!BlankEnd(u[i], l[i])
    BY <1>5, <2>2, <2>5, <2>6
  <2>8. Texts(list)' = u
    BY <2>1, <2>3 DEF Texts
  <2>9. TL!Between
    BY <1>5, <1>6, <2>5, <2>7, <2>8
  <2>10. NodesHaveCells'
    BY <2>1, <2>2, <2>7 DEF NodesHaveCells
  <2> QED BY <2>9, <2>10
<1>11. list' = list \/ list' = << >> \/ (list # << >> /\ list' = Tail(list)) \/ Restart
  BY DEF dcl_recall, RecallErase, OtherCommand, Others
<1> QED BY <1>7, <1>8, <1>9, <1>10, <1>11

(***************************************************************************)
(* Every step of the editor is a step of TextLine.                         *)
(***************************************************************************)
LEMMA PromptBegins ==
  ASSUME EditorInv, TextInv, dcl_read_kbd \/ Ask \/ ContinueLine
  PROVE  TL!Begin /\ TextInv'
<1>1. PICK b : \E i, n : Begin(b, i, n)
  BY DEF dcl_read_kbd, Ask, ContinueLine
<1>2. PICK i : \E n : Begin(b, i, n)
  BY <1>1
<1>3. /\ buffer' = b /\ w' = i /\ cc' = StringLen(b, i) /\ pos' = cc'
      /\ UNCHANGED <<tab, szSearch, fFile, list, at>>
  BY <1>2 DEF Begin, tabVars
<1>4. phase \in {"prompt", "continue"} /\ phase' \in {"line", "entered"}
  BY DEF dcl_read_kbd, Ask, ContinueLine
<1>5. EditorInv'
  BY PromptKeepsEditor
<1>6. IsBuffer(b) /\ i \in 0..Cells - 1
  <2>1. IsBuffer(b) /\ i \in Nat /\ i + NodeLen < Cells
    BY <1>3, <1>5 DEF EditorInv, CellsInv
  <2> QED BY <2>1, CellsAre
<1>7. PICK n : n = StringLen(b, i)
  OBVIOUS
<1>8. EndsAt(b, i, n) /\ n \in Nat /\ n \in 0..n
  BY <1>6, <1>7, StringEnds DEF EndsAt
<1>9. RightOf(b, i, n) = << >>
  <2>1. SidesSpell(b, i, n, n)
    BY <1>6, <1>8, Sides
  <2>2. IsList(RightOf(b, i, n)) /\ Len(RightOf(b, i, n)) = n - n /\ n - n = 0
    BY <1>8, <2>1 DEF SidesSpell
  <2> QED BY <2>2, ListFacts
<1>10. RightText' = << >>
  BY <1>3, <1>7, <1>9 DEF RightText
<1>11. Stage = "away" /\ Stage' \in {"editing", "entered"}
  BY <1>4 DEF Stage
<1>12. ~fFile' /\ at' = 0 /\ Texts(list)' = Texts(list)
  BY <1>3, <1>4 DEF TextInv, EditorInv, ListInv, Texts
<1>13. TL!Begin
  BY <1>10, <1>11, <1>12, TextPrompts
<1>14. ~tab.on /\ ~tab.open
  BY <1>4 DEF EditorInv, SearchInv
<1>15. WordInv'
  BY <1>3, <1>14 DEF WordInv
<1>16. pos' \in Nat /\ NodesHaveCells'
  BY <1>3, <1>7, <1>8 DEF TextInv, NodesHaveCells
<1> QED BY <1>4, <1>13, <1>15, <1>16 DEF TextInv

LEMMA KeyEdits ==
  ASSUME NamesWithoutBlanks, EditorInv, TextInv, EditKey
  PROVE  TextKey /\ TextInv'
<1>1. /\ phase = "line" /\ phase' \in {"line", "entered"} /\ list' = list
  BY DEF EditKey, ToggleInsert, MoveCursor, Backspace, DeleteChar, EraseToEnd, EraseToStart, Typed, Stay, Character,
         FunctionKey, Enter, Abandon, Tab, KeyPressed, Up, Down, Show
<1>2. Editing /\ SearchInv /\ WordInv /\ IsList(list) /\ NodesHaveCells /\ at \in 0..Len(list)
  BY <1>1 DEF EditorInv, CellsInv, Editing, ListInv, TextInv
<1>3. TL!KeyPressed
  BY <1>1, KeyIsPressed
<1>4. NodesHaveCells'
  BY <1>1, <1>2 DEF NodesHaveCells
<1>5. pos \in Nat
  BY DEF TextInv
<1>6. \A b, n, p : LineOK(b, n, p) => p \in Nat
  BY DEF LineOK, EndsAt
<1>7. ASSUME KeyPressed
      PROVE  WordInv'
  <2>1. tab' = NoSearch /\ ~NoSearch.on /\ ~NoSearch.open
    BY <1>7 DEF KeyPressed, NoSearch
  <2> QED BY <2>1 DEF WordInv
<1> DEFINE Edited == TextKey /\ pos' \in Nat /\ WordInv'
<1>8. ASSUME ToggleInsert
      PROVE  Edited
  <2>1. pos' = pos /\ KeyPressed
    BY <1>8 DEF ToggleInsert, lineVars
  <2> QED BY <1>3, <1>5, <1>7, <1>8, <2>1, ToggleChanges DEF TextKey
<1>9. ASSUME MoveCursor
      PROVE  Edited
  <2>1. LineOK(buffer', cc', pos') /\ KeyPressed
    BY <1>2, <1>9, CursorMoves DEF MoveCursor, Typed
  <2>2. pos' \in Nat
    BY <1>6, <2>1
  <2> QED BY <1>2, <1>3, <1>7, <1>9, <2>1, <2>2, CursorMovesOnly DEF TextKey
<1>10. ASSUME Backspace \/ DeleteChar
       PROVE  Edited
  <2>1. LineOK(buffer', cc', pos') /\ KeyPressed
    BY <1>2, <1>10, CharacterGoes DEF Backspace, DeleteChar, Typed
  <2>2. pos' \in Nat
    BY <1>6, <2>1
  <2> QED BY <1>2, <1>3, <1>7, <1>10, <2>1, <2>2, BackspaceErases, DeleteErases DEF TextKey
<1>11. ASSUME EraseToEnd \/ EraseToStart
       PROVE  Edited
  <2>1. LineOK(buffer', cc', pos') /\ KeyPressed
    BY <1>2, <1>11, PartGoes DEF EraseToEnd, EraseToStart, Typed
  <2>2. pos' \in Nat
    BY <1>6, <2>1
  <2> QED BY <1>2, <1>3, <1>7, <1>11, <2>1, <2>2, EndErased, StartErased DEF TextKey
<1>12. ASSUME NEW ch \in Chars[use], Character(ch)
       PROVE  Edited
  <2>1. ch # NUL
    BY CharactersAre DEF EditorInv
  <2>2. LineOK(buffer', cc', pos') /\ KeyPressed
    BY <1>2, <1>12, <2>1, CharacterEnters DEF Character
  <2>3. pos' \in Nat
    BY <1>6, <2>2
  <2> QED BY <1>2, <1>3, <1>7, <1>12, <2>1, <2>2, <2>3, CharacterTypes DEF TextKey
<1>13. ASSUME Up \/ Down
       PROVE  Edited
  <2>1. PICK i : Show(i)
    BY <1>13 DEF Up, Down
  <2>2. LineOK(buffer', cc', pos') /\ KeyPressed
    BY <1>2, <2>1, ShownLine DEF Show
  <2>3. pos' \in Nat
    BY <1>6, <2>2
  <2>4. TL!Recall
    BY <1>2, <1>13, LineRecalled
  <2> QED BY <1>3, <1>7, <2>2, <2>3, <2>4 DEF TextKey
<1>14. ASSUME NEW i \in Keys, FunctionKey(keydef[i])
       PROVE  Edited
  <2>1. KeyPressed /\ keydef[i] # NoKey /\ (pos' = cc' \/ pos' = pos) /\ cc' = StringLen(buffer', w)
    <3>1. KeyPressed /\ w' = w
      BY <1>14 DEF FunctionKey, KeyPressed, promptVars
    <3> QED BY <1>14, <3>1 DEF FunctionKey
  <2>2. keydef \in [Keys -> UsableKey \cup {NoKey}]
    BY DEF EditorInv
  <2>3. TL!FunctionKey
    BY <1>2, <1>14, <2>2, KeyTextGoes
  <2>4. cc' \in Nat
    <3>1. EditorInv'
      BY KeyKeepsEditor
    <3>2. IsBuffer(buffer') /\ w \in 0..Cells - 1
      BY <1>2, <3>1, LineFacts DEF EditorInv, CellsInv
    <3> QED BY <2>1, <3>2, StringEnds DEF EndsAt
  <2> QED BY <1>3, <1>5, <1>7, <2>1, <2>3, <2>4 DEF TextKey
<1>15. ASSUME Enter \/ Abandon
       PROVE  Edited
  <2>1. pos' = pos /\ KeyPressed
    BY <1>15 DEF Enter, Abandon, lineVars
  <2> QED BY <1>2, <1>3, <1>5, <1>7, <1>15, <2>1, LineEnters DEF TextKey
<1>16. ASSUME Tab
       PROVE  Edited
  <2>1. LineOK(buffer', cc', pos')
    BY <1>2, <1>16, TabKeepsLine
  <2>2. pos' \in Nat
    BY <1>6, <2>1
  <2> QED BY <1>2, <1>3, <1>16, <2>2, TabCompletes DEF TextKey
<1>17. Edited
  <2> HIDE DEF Edited
  <2> QED BY <1>8, <1>9, <1>10, <1>11, <1>12, <1>13, <1>14, <1>15, <1>16 DEF EditKey
<1> QED BY <1>1, <1>4, <1>17 DEF TextInv

LEMMA KeepingKeepsText ==
  ASSUME EditorInv, TextInv, KeepLine
  PROVE  TextInv'
<1>1. /\ pos' = 0 /\ ~fFile' /\ tab' = NoSearch /\ ~NoSearch.on /\ ~NoSearch.open
  BY DEF KeepLine, Return, NoSearch
<1>2. WordInv'
  BY <1>1 DEF WordInv
<1>3. IsList(list) /\ Len(list) \in Nat /\ NodesHaveCells
  BY ListFacts DEF EditorInv, ListInv, TextInv
<1>4. PICK n : n = NodeOf(Line)
  OBVIOUS
<1>5. DOMAIN n = 0..NodeLen - 1
  BY <1>4 DEF NodeOf
<1>6. PICK k : k = <<n>> \o list
  OBVIOUS
<1>7. IsList(k) /\ Len(k) = Len(list) + 1 /\ k[1] = n /\ \A i \in 1..Len(list) : k[i + 1] = list[i]
  BY <1>3, <1>6, LongerList
<1>8. \A i \in 1..Len(list) + 1 : DOMAIN k[i] = 0..NodeLen - 1
  <2> SUFFICES ASSUME NEW i \in 1..Len(list) + 1 PROVE DOMAIN k[i] = 0..NodeLen - 1
    OBVIOUS
  <2>1. CASE i = 1
    BY <1>5, <1>7, <2>1
  <2>2. CASE i # 1
    <3>1. PICK j : j = i - 1
      OBVIOUS
    <3>2. j \in 1..Len(list) /\ j + 1 = i
      BY <1>3, <2>2, <3>1
    <3>3. k[i] = list[j]
      BY <1>7, <3>2
    <3> QED BY <1>3, <3>2, <3>3 DEF NodesHaveCells
  <2> QED BY <2>1, <2>2
<1>9. NodesHaveCells'
  <2>1. list' = list \/ list' = Limited(k)
    BY <1>4, <1>6 DEF KeepLine
  <2>2. CASE list' = list
    BY <1>3, <2>2 DEF NodesHaveCells
  <2>3. CASE list' = Limited(k)
    <3>1. PICK m : m = MAX_KBD_STACK + 1
      OBVIOUS
    <3>2. PICK l : l = FirstOf(k, m)
      OBVIOUS
    <3>3. m \in Nat /\ Len(k) \in Nat
      BY <1>7, <3>1, ListFacts, ListBounds
    <3>4. Len(l) = (IF Len(k) <= m THEN Len(k) ELSE m) /\ \A i \in 1..Len(l) : l[i] = k[i]
      BY <1>7, <3>2, <3>3, FirstOfList
    <3>5. \A i \in 1..Len(l) : i \in 1..Len(list) + 1
      BY <1>7, <3>3, <3>4
    <3>6. \A i \in 1..Len(l) : DOMAIN l[i] = 0..NodeLen - 1
      BY <1>8, <3>4, <3>5
    <3>7. list' = l
      BY <2>3, <3>1, <3>2, LimitedIsFirst
    <3> QED BY <3>6, <3>7 DEF NodesHaveCells
  <2> QED BY <2>1, <2>2, <2>3
<1> QED BY <1>1, <1>2, <1>9 DEF TextInv

LEMMA CommandsKeepText ==
  ASSUME EditorInv, TextInv, dcl_recall \/ RecallErase \/ OtherCommand \/ Restart
  PROVE  TextInv'
<1>1. Ran
  BY DEF dcl_recall, RecallErase, OtherCommand, Restart
<1>2. phase = "run" /\ UNCHANGED <<pos, tab, szSearch, fFile>>
  BY <1>1 DEF Ran, tabVars
<1>3. ~tab.on /\ ~tab.open /\ ~fFile
  BY <1>2 DEF EditorInv, SearchInv, TextInv
<1>4. WordInv'
  BY <1>2, <1>3 DEF WordInv
<1> QED BY <1>2, <1>3, <1>4, CommandsBetween DEF TextInv

LEMMA TextBegins ==
  ASSUME Init
  PROVE  TL!TextInit /\ TextInv
<1>1. phase = "prompt" /\ list = << >> /\ pos = 0 /\ ~fFile /\ tab = NoSearch /\ ~NoSearch.on /\ ~NoSearch.open
  BY DEF Init, NoSearch
<1>2. Texts(list) = << >> /\ Len(list) = 0
  BY <1>1, NoTexts, NoTextIsText
<1>3. TL!TextInit
  BY <1>1, <1>2 DEF TL!TextInit
<1>4. TextInv
  BY <1>1, <1>2 DEF TextInv, WordInv, NodesHaveCells
<1> QED BY <1>3, <1>4

LEMMA TextGoesOn ==
  ASSUME NamesWithoutBlanks, EditorInv, TextInv, [Next]_vars
  PROVE  [TL!TextNext]_(TL!textVars) /\ TextInv'
<1>1. CASE dcl_read_kbd \/ Ask \/ ContinueLine
  BY <1>1, PromptBegins, TextNextIs
<1>2. CASE EditKey
  BY <1>2, KeyEdits, TextNextIs DEF TextKey
<1>3. CASE KeepLine
  BY <1>3, LineKept, KeepingKeepsText, TextNextIs
<1>4. CASE dcl_recall \/ RecallErase \/ OtherCommand \/ Restart
  BY <1>4, CommandsBetween, CommandsKeepText, TextNextIs
<1>5. CASE UNCHANGED vars
  <2>1. UNCHANGED <<phase, buffer, w, pos, cc, insert_mode, fFile, tab, szSearch, list, at>>
    BY <1>5 DEF vars, lineVars, tabVars, promptVars
  <2>2. UNCHANGED TL!textVars
    BY <2>1 DEF TL!textVars, Line, StringAt, StringLen, Texts
  <2>3. TextInv'
    BY <2>1 DEF TextInv, WordInv, NodesHaveCells
  <2> QED BY <2>2, <2>3
<1> QED BY <1>1, <1>2, <1>3, <1>4, <1>5 DEF Next

\* The cells of termio_ansi.c, with its counts and its NULs, and the elements of
\* recall.c hold a text with a cursor and a list of lines: each key does to them
\* what it does to the text, and nothing that a key, a recalled line, TAB or the
\* command before has left behind the line comes back into it.  A name with a
\* blank in it breaks the promise of TAB: the next TAB replaces all of it, and
\* what comes before the last blank is more than what comes before the name.
THEOREM TextIsEdited == NamesWithoutBlanks /\ Spec => ImplementsTextLine
<1>1. Init => TL!TextInit /\ EditorInv /\ TextInv
  BY TextBegins, EditorBegins
<1>2. NamesWithoutBlanks /\ EditorInv /\ TextInv /\ [Next]_vars => [TL!TextNext]_(TL!textVars) /\ EditorInv' /\ TextInv'
  BY TextGoesOn, EditorGoesOn
<1>3. SUFFICES ASSUME NamesWithoutBlanks
               PROVE  Spec => ImplementsTextLine
  OBVIOUS
<1>4. EditorInv /\ TextInv /\ [Next]_vars => [TL!TextNext]_(TL!textVars) /\ EditorInv' /\ TextInv'
  BY <1>2, <1>3
<1> QED BY <1>1, <1>4, PTL DEF Spec, ImplementsTextLine, TL!TextSpec
=============================================================================
