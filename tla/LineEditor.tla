----------------------------- MODULE LineEditor -----------------------------
(***************************************************************************)
(* The editor of one line (termio_ansi.c), the lines kept for it           *)
(* (keyboard.c, recall.c) and the prompts that use it: a command line with *)
(* its continuations (dcl.c) and the answer to a question.  The list of    *)
(* the commands and that of the answers never meet: a behaviour has one.   *)
(***************************************************************************)
EXTENDS FunctionKeys, SequencesExt

CONSTANTS
  Chars,             \* what is typed at each prompt
  NUL, BLANK, AT, DASH,
  Files,             \* the names TAB may find
  Unset, Leftovers,  \* what an array that was not set may hold
  Residues,          \* what a command may leave in the cells of dcl_line
  RecallText,        \* a RECALL command, its specifier left out
  NodeLen,           \* 256: the cells of an element, and the longest command
  Cells,             \* 1024: the cells of dcl_line
  Length,            \* the questions, and how long their answers may be
  MAX_KBD_STACK,     \* 64
  TabAt,             \* bound: the prompts where TAB is pressed
  MaxLines           \* bound: the lines typed at each prompt

ASSUME ListBounds == MAX_KBD_STACK \in Nat /\ NodeLen \in Nat
ASSUME LengthsAssumption == Cells \in Nat /\ NodeLen < Cells /\ \A q \in DOMAIN Length : Length[q] \in 0..Cells - 1
ASSUME RecallAssumption == RecallText \in Seq(Range(RecallText)) /\ Len(RecallText) \in 1..NodeLen
\* No text has a NUL in it, and what is typed in DEFINE/KEY fits a line.
ASSUME TextsAssumption ==
  /\ DOMAIN Chars = {"commands"} \cup DOMAIN Length /\ NUL \notin {BLANK, AT} \cup UNION Range(Chars)
  /\ \A s \in Files \cup Leftovers \cup KeyTexts : s \in Seq(Range(s)) /\ NUL \notin Range(s)
  /\ \A s \in KeyTexts : Len(s) <= NodeLen
  /\ NoKey \notin KeyDefs

VARIABLES
  use,               \* the prompt: commands, or a question
  phase,             \* "prompt", "line", "entered", "run"
  buffer, w,         \* the cells, and where the line that is edited begins
  pos, cc, maxlen,
  insert_mode, default_insert_mode,
  tab,               \* the search of TAB: fTab, its handle, the cell of the word
  szSearch,          \* the word
  fFile, found,      \* a name has been found, and which
  list, at,          \* the elements of the list and its current one
  recall,            \* the line of the next prompt is there already
  shown,             \* the list when the last prompt was answered
  lines

lineVars == <<buffer, pos, cc>>
tabVars == <<tab, szSearch, fFile, found>>
promptVars == <<use, w, maxlen, default_insert_mode, keydef, recall, shown, lines>>
vars == <<phase, lineVars, insert_mode, tabVars, list, at, promptVars>>

(***************************************************************************)
(* Cells: a string ends at the first NUL.                                  *)
(***************************************************************************)
StringLen(f, i) ==
  CHOOSE n \in 0..Cells : /\ i + n \notin DOMAIN f \/ f[i + n] = NUL
                         /\ \A m \in 0..n - 1 : i + m \in DOMAIN f /\ f[i + m] # NUL
StringAt(f, i) == [n \in 1..StringLen(f, i) |-> f[i + n - 1]]

Cell(i) == buffer[w + i]
Assign(f) == [j \in DOMAIN buffer |-> IF j - w \in DOMAIN f THEN f[j - w] ELSE buffer[j]]
CopyTo(i, s) == Assign([j \in i..i + Len(s) |-> IF j = i + Len(s) THEN NUL ELSE s[j - i + 1]])
CopyNodeText(n) == Assign([j \in 0..Len(StringAt(n, 0)) - 1 |-> n[j]])
CopyNode(n) == Assign([j \in 0..NodeLen - 1 |-> n[j]])
Line == StringAt(buffer, w)

\* Bound: TAB may repeat a word until it has left dcl_line.
InMemory == w + cc' < Cells

NodeOf(s) == [j \in 0..NodeLen - 1 |-> IF j < Len(s) THEN s[j + 1] ELSE NUL]
NodeText(n) == StringAt(n, 0)
Texts(l) == [i \in DOMAIN l |-> NodeText(l[i])]

NoSearch == [on |-> FALSE, open |-> FALSE, cell |-> 0, rest |-> {}]

(***************************************************************************)
(* Keys.  Every key but TAB ends the search of a file.                     *)
(***************************************************************************)
KeyPressed ==
  /\ phase = "line"
  /\ tab' = NoSearch
  /\ UNCHANGED <<szSearch, fFile, found, list, promptVars>>
Stay == phase' = phase
Typed == KeyPressed /\ Stay /\ UNCHANGED <<insert_mode, at>>

ToggleInsert ==
  KeyPressed /\ Stay /\ insert_mode' = ~insert_mode /\ UNCHANGED <<lineVars, at>>

\* Left, right, home and end.
MoveCursor ==
  /\ Typed
  /\ pos' \in (IF pos > 0 THEN {pos - 1} ELSE {}) \cup (IF pos < cc THEN {pos + 1} ELSE {}) \cup {0, cc}
  /\ UNCHANGED <<buffer, cc>>

\* The cells after cell p move down by one.
Close(p) == Assign([i \in p..cc - 1 |-> IF i = cc - 1 THEN NUL ELSE Cell(i + 1)])

Backspace == Typed /\ pos > 0 /\ buffer' = Close(pos - 1) /\ cc' = cc - 1 /\ pos' = pos - 1
DeleteChar == Typed /\ pos < cc /\ buffer' = Close(pos) /\ cc' = cc - 1 /\ pos' = pos
EraseToEnd == Typed /\ buffer' = Assign([i \in {pos} |-> NUL]) /\ cc' = pos /\ pos' = pos
EraseToStart ==
  /\ Typed
  /\ buffer' = Assign([i \in 0..cc - 1 |-> IF i < cc - pos THEN Cell(i + pos) ELSE NUL])
  /\ cc' = cc - pos /\ pos' = 0

\* A character: only one typed at the end enters the line when it fills it.
CharacterUnended(ch) ==
  /\ KeyPressed /\ UNCHANGED <<insert_mode, at>>
  /\ cc < maxlen
  /\ pos' = pos + 1
  /\ IF pos < cc /\ ~insert_mode
     THEN buffer' = Assign([i \in {pos} |-> ch]) /\ cc' = cc
     ELSE /\ buffer' = Assign([i \in pos..cc |-> IF i = pos THEN ch ELSE Cell(i - 1)])
          /\ cc' = cc + 1
  /\ phase' = IF pos = cc /\ cc + 1 = maxlen THEN "entered" ELSE "line"

Character(ch) ==
  /\ KeyPressed /\ UNCHANGED <<insert_mode, at>>
  /\ cc < maxlen
  /\ pos' = pos + 1
  /\ IF pos < cc /\ ~insert_mode
     THEN buffer' = Assign([i \in {pos} |-> ch]) /\ cc' = cc
     ELSE /\ buffer' = Assign([i \in pos..cc + 1 |-> IF i = pos THEN ch ELSE IF i = cc + 1 THEN NUL ELSE Cell(i - 1)])
          /\ cc' = cc + 1
  /\ phase' = IF pos = cc /\ cc + 1 = maxlen THEN "entered" ELSE "line"

\* Up and down: an element is copied with its cells, its end or not.
Show(i) ==
  /\ KeyPressed /\ Stay /\ UNCHANGED insert_mode
  /\ at' = i
  /\ buffer' = IF i = 0 THEN CopyTo(0, << >>) ELSE CopyNode(list[i])
  /\ cc' = StringLen(buffer', w) /\ pos' = cc'
Up == Show(IF at = Len(list) THEN 0 ELSE at + 1)
Down == Show(IF at = 0 THEN Len(list) ELSE at - 1)

\* Without /ERASE the text of the key goes to the beginning of the line; in insert
\* mode what is after the cursor goes there too, over it; no NUL ends them.
KeyLine(k) ==
  IF k.erase THEN CopyTo(0, k.value)
  ELSE LET rest == IF insert_mode THEN SubSeq(Line, pos + 1, cc) ELSE << >>
           length == Min({Max({Len(k.value), Len(rest)}), maxlen})
       IN  Assign([i \in 0..length - 1 |-> IF i < Len(rest) THEN rest[i + 1] ELSE k.value[i + 1]])
FunctionKey(k) ==
  /\ KeyPressed /\ UNCHANGED <<insert_mode, at>>
  /\ k # NoKey
  /\ buffer' = KeyLine(k)
  /\ cc' = StringLen(buffer', w)
  /\ pos' = IF k.erase \/ k.echo THEN cc' ELSE pos
  /\ phase' = IF k.terminate THEN "entered" ELSE "line"

Enter == KeyPressed /\ phase' = "entered" /\ UNCHANGED <<lineVars, insert_mode, at>>

\* CTRL/C, CTRL/Y, CTRL/Z and ESCAPE.
Abandon ==
  /\ KeyPressed /\ phase' = "entered" /\ UNCHANGED <<pos, insert_mode, at>>
  /\ buffer' = CopyTo(0, << >>) /\ cc' = 0

(***************************************************************************)
(* TAB.                                                                    *)
(***************************************************************************)
\* The word begins after the last blank at or before the cursor, and after @.
Blank(i) == Cell(i) = BLANK
Back == Max({0} \cup {i \in 0..pos : Blank(i)})
AfterBlank == IF Blank(Back) THEN Back + 1 ELSE Back
WordCell == IF Cell(AfterBlank) = AT THEN AfterBlank + 1 ELSE AfterBlank

Matches(word) == {f \in Files : SubSeq(f, 1, Min({Len(word), Len(f)})) = word}

\* The name of a file, or the word again.
Complete(i, word, file, name) ==
  /\ szSearch' = word /\ fFile' = file /\ found' = name
  /\ buffer' = CopyTo(i, IF file THEN name ELSE word)

\* _findfirst finds no file: fFile is what it was before.
SearchFirst(i, word) ==
  \/ Matches(word) = {} /\ tab' = tab /\ Complete(i, word, fFile, found)
  \/ \E name \in Matches(word) :
       /\ tab' = [on |-> TRUE, open |-> TRUE, cell |-> i, rest |-> Matches(word) \ {name}]
       /\ Complete(i, word, TRUE, name)
SearchNext ==
  \/ tab.rest = {} /\ tab' = [tab EXCEPT !.open = FALSE] /\ Complete(tab.cell, szSearch, FALSE, << >>)
  \/ \E name \in tab.rest : tab' = [tab EXCEPT !.rest = @ \ {name}] /\ Complete(tab.cell, szSearch, TRUE, name)

\* szSearch was never set: it names no file, and goes to the line less its
\* last character, or the last character of the line goes.
SearchUnset(i) ==
  /\ buffer' \in {CopyTo(i, s) : s \in Leftovers} \cup {CopyTo(i - 1, << >>)}
  /\ UNCHANGED tabVars

\* An empty word is not searched, but the one before.
Tab ==
  /\ phase = "line" /\ Stay /\ use \in TabAt /\ pos > 0
  /\ UNCHANGED <<insert_mode, list, at, promptVars>>
  /\ IF tab.open THEN SearchNext
     ELSE IF tab.on THEN SearchFirst(tab.cell, szSearch)
     ELSE IF Cell(WordCell) # NUL THEN SearchFirst(WordCell, StringAt(buffer, w + WordCell))
     ELSE IF szSearch # Unset THEN SearchFirst(WordCell, szSearch)
     ELSE SearchUnset(WordCell)
  /\ cc' = StringLen(buffer', w) /\ pos' = cc'
  /\ InMemory

EditKey ==
  \/ ToggleInsert \/ MoveCursor \/ Backspace \/ DeleteChar \/ EraseToEnd \/ EraseToStart
  \/ \E ch \in Chars[use] : Character(ch)
  \/ Up \/ Down \/ \E k \in {keydef[i] : i \in Keys} : FunctionKey(k)
  \/ Enter \/ Abandon \/ Tab

(***************************************************************************)
(* Prompts.                                                                *)
(***************************************************************************)
\* kbdread calls tio_get_one_line: the text that is there is edited.
Begin(b, at0, length) ==
  /\ buffer' = b /\ w' = at0
  /\ cc' = StringLen(b, at0) /\ pos' = cc'
  /\ maxlen' = length
  /\ insert_mode' = default_insert_mode
  /\ UNCHANGED <<tabVars, list, at, keydef, default_insert_mode, use>>

Wiped(from) == [j \in DOMAIN buffer |-> IF j \in from..from + NodeLen - 1 THEN NUL ELSE buffer[j]]
NoString == [j \in 0..Cells - 1 |-> NUL]

\* What a string of any length has left in the cells.
Used == {[j \in DOMAIN buffer |-> IF j = Cells - 1 THEN NUL ELSE c] : c \in Residues}

dcl_read_kbd ==
  /\ use = "commands" /\ phase = "prompt" /\ lines < MaxLines[use]
  /\ Begin(IF recall THEN buffer ELSE Wiped(0), 0, NodeLen)
  /\ phase' = "line" /\ recall' = FALSE /\ shown' = list /\ lines' = lines + 1

\* INQUIRE clears its value, a confirmation only ends an array that was not
\* set; the first key of INQUIRE may not come in time.
Ask ==
  /\ use # "commands" /\ phase = "prompt" /\ lines < MaxLines[use]
  /\ \E b \in {NoString} \cup {[used EXCEPT ![0] = NUL] : used \in Used} : Begin(b, 0, Length[use])
  /\ phase' \in {"line", "entered"} /\ lines' = lines + 1
  /\ shown' = list /\ UNCHANGED recall

\* The variables of tio_get_one_line are no more, and every use of the list
\* sets its current element anew.
Return ==
  /\ pos' = 0 /\ cc' = 0 /\ insert_mode' = FALSE /\ at' = 0
  /\ tab' = NoSearch /\ szSearch' = Unset /\ fFile' = FALSE /\ found' = << >>

\* The rest of kbdread.  An element of NodeLen characters has no NUL, and
\* strcmp goes on into what follows it.
SameAsLast ==
  IF list = << >> THEN {FALSE}
  ELSE IF NodeText(list[1]) # SubSeq(Line, 1, Min({Len(Line), NodeLen})) THEN {FALSE}
  ELSE IF StringLen(list[1], 0) < NodeLen THEN {TRUE} ELSE BOOLEAN
Limited(l) == SubSeq(l, 1, Min({Len(l), MAX_KBD_STACK + 1}))

Continued == LET end == StringLen(buffer, 0) - 1
             IN  use = "commands" /\ end >= 0 /\ end < Cells - NodeLen /\ buffer[end] = DASH

KeepLine ==
  /\ phase = "entered"
  /\ \E same \in SameAsLast :
       list' = IF Line = << >> \/ same THEN list ELSE Limited(<<NodeOf(Line)>> \o list)
  /\ phase' = IF Continued THEN "continue" ELSE IF use = "commands" THEN "run" ELSE "prompt"
  /\ buffer' = IF use = "commands" THEN buffer ELSE NoString
  /\ Return /\ UNCHANGED promptVars

\* A line that ends with a dash goes on in its place.
ContinueLine ==
  /\ phase = "continue" /\ lines < MaxLines[use]
  /\ LET end == StringLen(buffer, 0) - 1 IN Begin(Wiped(end), end, NodeLen)
  /\ phase' = "line" /\ shown' = list /\ lines' = lines + 1 /\ UNCHANGED recall

(***************************************************************************)
(* Commands on the list, the keys and the mode.                            *)
(***************************************************************************)
Command == StringAt(buffer, 0)
Ran ==
  /\ phase = "run" /\ phase' = "prompt"
  /\ shown' = << >> /\ UNCHANGED <<pos, cc, insert_mode, tabVars, at, use, w, maxlen, lines>>

\* The RECALL that was typed leaves the list before anything else.
OthersAndIt == list
Others == IF list = << >> THEN list ELSE Tail(list)

\* By its number, or the last one that begins with the specifier.
Recalled ==
  {i \in 1..MAX_KBD_STACK : i <= Len(Others)} \cup
  {i \in DOMAIN Others : \E n \in 1..Len(NodeText(Others[i])) :
     \A j \in 1..i - 1 : SubSeq(NodeText(Others[j]), 1, n) # SubSeq(NodeText(Others[i]), 1, n)}

dcl_recall ==
  /\ Ran /\ Command = RecallText /\ list' = Others
  /\ \E used \in Used :
       \/ Others # << >> /\ recall' = TRUE
          /\ \E i \in Recalled : buffer' = [j \in DOMAIN buffer |-> IF j < NodeLen THEN Others[i][j] ELSE used[j]]
       \/ Others = << >> /\ recall' = recall /\ buffer' = [used EXCEPT ![0] = NUL]
       \/ recall' = recall /\ buffer' = used     \* /ALL, /SAVE, or no such command
  /\ UNCHANGED <<default_insert_mode, keydef>>

RecallErase ==
  /\ Ran /\ Command = RecallText /\ list' = << >> /\ buffer' \in Used
  /\ UNCHANGED <<recall, default_insert_mode, keydef>>

OtherCommand ==
  /\ Ran /\ Command # RecallText
  /\ \/ KeyCommand /\ UNCHANGED default_insert_mode
     \/ default_insert_mode' = ~default_insert_mode /\ UNCHANGED keydef     \* SET TERMINAL
     \/ UNCHANGED <<default_insert_mode, keydef>>
  /\ buffer' \in Used /\ UNCHANGED <<list, recall>>

\* dcl_end writes the list, dcl_init reads it: the ends of the lines that are
\* blank are lost, and the oldest lines come first.
NoBlankEnd(s) == SubSeq(s, 1, Max({0} \cup {i \in DOMAIN s : s[i] # BLANK}))
Restart ==
  /\ Ran /\ Command # RecallText
  /\ LET file == Reverse(Texts(list)) IN list' = Limited(Reverse([i \in DOMAIN file |-> NodeOf(NoBlankEnd(file[i]))]))
  /\ buffer' = NoString /\ recall' = FALSE
  /\ keydef' = [i \in Keys |-> NoKey] /\ default_insert_mode' \in BOOLEAN

Init ==
  /\ use \in {"commands"} \cup DOMAIN Length /\ phase = "prompt"
  /\ buffer = NoString /\ w = 0
  /\ pos = 0 /\ cc = 0 /\ maxlen = 0
  /\ default_insert_mode \in BOOLEAN /\ insert_mode = FALSE
  /\ tab = NoSearch /\ szSearch = Unset /\ fFile = FALSE /\ found = << >>
  /\ list = << >> /\ at = 0
  /\ recall = FALSE /\ shown = << >>
  /\ keydef \in {[i \in Keys |-> IF i = 0 THEN k ELSE NoKey] : k \in {NoKey} \cup {d \in KeyDefs : d.echo \/ d.terminate}}
  /\ lines = 0

Next ==
  \/ dcl_read_kbd \/ Ask \/ EditKey \/ KeepLine \/ ContinueLine
  \/ dcl_recall \/ RecallErase \/ OtherCommand \/ Restart

Spec == Init /\ [][Next]_vars

(***************************************************************************)
(* Properties.                                                             *)
(***************************************************************************)
\* The line that is edited is a string: its length is cc, wherever NULs have
\* been left, and the cursor is in it.  termio_ansi.c writes cells and counts
\* them apart.
EditorTypeOK ==
  /\ phase \in {"prompt", "line", "entered", "continue", "run"}
  /\ phase = "line" => cc = StringLen(buffer, w) /\ pos \in 0..cc /\ w + cc < Cells
  /\ Len(list) <= MAX_KBD_STACK + 1
  /\ phase = "line" => at \in 0..Len(list)
  /\ keydef \in [Keys -> Key \cup {NoKey}]

\* The editor edits a text with a cursor and keeps the lines: whatever cells
\* the keys leave behind the line, none comes back into it.
TL == INSTANCE TextLine WITH
  stage <- IF phase = "line" THEN "editing" ELSE IF phase = "entered" THEN "entered" ELSE "away",
  left <- SubSeq(Line, 1, Min({pos, Len(Line)})),
  right <- SubSeq(Line, pos + 1, Len(Line)),
  insert <- insert_mode, named <- fFile,
  list <- Texts(list),
  MaxList <- MAX_KBD_STACK + 1
ImplementsTextLine == TL!TextSpec

\* A RECALL that was typed on one line leaves the commands that can be asked
\* for by number as they were (recall.hlp:23), also where the list is full.
RecallTyped == phase = "run" /\ Command = RecallText /\ w = 0 /\ (shown # << >> => NodeText(shown[1]) # RecallText)
RecallLeavesNoTrace ==
  [][RecallTyped /\ list' # << >> => SubSeq(list', 1, Min({Len(list'), MAX_KBD_STACK})) = SubSeq(shown, 1, Min({Len(shown), MAX_KBD_STACK}))]_vars
=============================================================================
