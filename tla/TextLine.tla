------------------------------ MODULE TextLine ------------------------------
(***************************************************************************)
(* What the line editor promises: a text with a cursor, edited one key at  *)
(* a time, beside the list of the lines entered before, newest first.      *)
(***************************************************************************)
EXTENDS Integers, Sequences

CONSTANTS
  NodeLen,       \* the cells of an element of the list
  MaxList,       \* the lines the list keeps
  KeyTexts,      \* what function keys stand for
  BLANK, AT      \* the marks before the last word

VARIABLES
  stage,         \* "away" from the editor, "editing", "entered"
  left, right,   \* the text on each side of the cursor
  insert,        \* insert mode, against overstrike
  named,         \* the last TAB has put the name of a file
  list,
  at             \* the line of the list that is shown, 0 for none

textVars == <<stage, left, right, insert, named, list, at>>

Text == left \o right
Least(m, n) == IF m < n THEN m ELSE n
Cut(s, n) == SubSeq(s, 1, Least(n, Len(s)))
Begins(s, t) == Cut(t, Len(s)) = s

Begin ==
  /\ stage = "away" /\ stage' \in {"editing", "entered"}
  /\ right' = << >> /\ ~named' /\ at' = 0 /\ UNCHANGED list

\* Every key, with what it does to the text.
KeyPressed == stage = "editing" /\ stage' \in {"editing", "entered"} /\ UNCHANGED list

Type ==
  /\ UNCHANGED <<insert, named, at>>
  /\ left' # << >> /\ Cut(left', Len(left') - 1) = left
  /\ right' = IF insert \/ right = << >> THEN right ELSE Tail(right)

EraseText ==
  /\ UNCHANGED <<insert, named, at>>
  /\ \/ left # << >> /\ left' = Cut(left, Len(left) - 1) /\ right' = right
     \/ right # << >> /\ left' = left /\ right' = Tail(right)
     \/ left' = << >> /\ right' = right
     \/ left' = left /\ right' = << >>

Move == UNCHANGED <<insert, named, at>> /\ left' \o right' = Text

\* Insert mode and overstrike; a search for a file may end with any key.
Change == UNCHANGED <<left, right, named, at>>

\* The next or the previous line of the list; a full one has lost its end.
Recall ==
  /\ UNCHANGED <<insert, named>>
  /\ at' \in {IF at = Len(list) THEN 0 ELSE at + 1, IF at = 0 THEN Len(list) ELSE at - 1}
  /\ right' = << >>
  /\ IF at' = 0 THEN left' = << >>
     ELSE Begins(list[at'], left') /\ (Len(list[at']) < NodeLen => left' = list[at'])

\* TAB replaces the word at the cursor, and what comes before it stays.  It
\* completes the word, unless a name is there already, of this or another word.
Blanks == {i \in 1..Least(Len(left) + 1, Len(Text)) : Text[i] = BLANK}
BeforeWord == IF Blanks = {} THEN 0 ELSE CHOOSE i \in Blanks : \A j \in Blanks : j <= i
NoWord == SubSeq(Text, BeforeWord + 1, Len(Text)) \in {<< >>, <<AT>>}
Complete ==
  /\ UNCHANGED <<insert, at>>
  /\ left # << >> /\ right' = << >>
  /\ NoWord \/ Begins(Cut(Text, BeforeWord), left')
  /\ named \/ NoWord \/ Begins(Text, left')

\* A function key puts its text alone, or leaves more text than there was.
FunctionKey ==
  /\ UNCHANGED <<insert, named, at>>
  /\ left' \o right' \in KeyTexts \/ Len(left' \o right') >= Len(Text)

\* The line as it is; CTRL/C, CTRL/Z and ESCAPE leave nothing.
Enter ==
  /\ stage' = "entered" /\ UNCHANGED <<insert, named, at>>
  /\ UNCHANGED <<left, right>> \/ left' \o right' = << >>

\* A line that differs from the last one joins the list and the oldest leaves;
\* a full element has no end to compare.
Keep ==
  /\ stage = "entered" /\ stage' = "away"
  /\ LET new == Cut(Text, NodeLen)
         longer == Cut(<<new>> \o list, MaxList)
         last == IF list = << >> THEN << >> ELSE list[1]
     IN  list' \in CASE Text = << >> -> {list}
                     [] Text # << >> /\ new # last -> {longer}
                     [] OTHER -> IF Len(new) < NodeLen THEN {list} ELSE {list, longer}

\* Away from the editor: RECALL takes its own line off, or clears the list; a
\* session ends and another begins, and the blank ends of the lines are lost.
BlankEnd(s, t) == Begins(s, t) /\ \A i \in Len(s) + 1..Len(t) : t[i] = BLANK
SameLines == Len(list') = Len(list) /\ \A i \in DOMAIN list : BlankEnd(list'[i], list[i])
Between ==
  /\ stage = "away" /\ stage' = "away"
  /\ SameLines \/ list' = << >> \/ (list # << >> /\ list' = Tail(list))

TextNext ==
  \/ Begin \/ Keep \/ Between
  \/ /\ KeyPressed
     /\ Type \/ EraseText \/ Move \/ Change \/ Recall \/ Complete \/ FunctionKey \/ Enter

TextInit == stage = "away" /\ list = << >>
TextSpec == TextInit /\ [][TextNext]_textVars
=============================================================================
