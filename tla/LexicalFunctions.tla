-------------------------- MODULE LexicalFunctions --------------------------
(***************************************************************************)
(* Lexical functions on texts (lexical.c) and their substitution in the    *)
(* command line (dcl.c).  A text is a sequence of ASCII codes, in which a  *)
(* name - F$LENGTH, an edit, a symbol - is one character with a code of    *)
(* its own.                                                                *)
(***************************************************************************)
EXTENDS Expressions

CONSTANT symbol_names   \* a sequence: the names of symbols that can be written

Bang == 33
Quote == 34
Open == 40
Close == 41
Comma == 44
Blanks == {9, 32}

FunctionNames ==
  <<"CHR", "CVUI", "EDIT", "ELEMENT", "EXTRACT", "INTEGER", "LENGTH", "LOCATE", "STRING", "TYPE">>
EditNames == <<"COLLAPSE", "COMPRESS", "LOWERCASE", "TRIM", "UNCOMMENT", "UPCASE">>
TypeNames == <<"integer", "string", "undefined">>
Words == FunctionNames \o EditNames \o TypeNames \o symbol_names
Code(name) == 255 + CHOOSE k \in DOMAIN Words : Words[k] = name
NameOf(c) == IF c > 255 THEN Words[c - 255] ELSE ""

(***************************************************************************)
(* From a text to the tokens of Expressions.  Operators with dots are left *)
(* out.                                                                    *)
(***************************************************************************)
OperatorName(c) == IF c \in 40..47 \ {46} THEN <<"(", ")", "*", "+", ",", "-", ".", "/">>[c - 39] ELSE "unknown"
From(s, k) == SubSeq(s, k, Len(s))
FirstAt(s, stops) ==
  CHOOSE k \in 1..Len(s) + 1 :
    (k = Len(s) + 1 \/ s[k] \in stops) /\ \A j \in 1..k - 1 : s[j] \notin stops
FirstNotAt(s, codes) == FirstAt(s, ToSet(s) \ codes)

\* The places of s that are in a set, and what is there.
InOrder(s, at) == SelectSeq([k \in DOMAIN s |-> k], LAMBDA k : k \in at)
Kept(s, at) == LET order == InOrder(s, at) IN [k \in DOMAIN order |-> s[order[k]]]
\* Inside quotes, of which the closing one is outside.
Quoting(s, k) == Cardinality({j \in 1..k : s[j] = Quote}) % 2 = 1

\* s is what follows the opening quote.  Two quotes are one.
ClosingQuote(s) ==
  CHOOSE k \in 1..Len(s) + 1 :
    LET Closes(j) == s[j] = Quote /\ Quoting(s, j) /\ (j = Len(s) \/ s[j + 1] # Quote)
    IN (k = Len(s) + 1 \/ Closes(k)) /\ \A j \in 1..k - 1 : ~Closes(j)
EXP_get_string(s, end) ==
  [text |-> Kept(s, {k \in 1..end - 1 : s[k] = Quote => Quoting(s, k)}), rest |-> From(s, end + 1)]

RECURSIVE EXP_tokens(_)
AfterString(string) == <<Value(string.text)>> \o EXP_tokens(string.rest)
AfterDigits(s, end) == <<Value(SubSeq(s, 1, end - 1))>> \o EXP_tokens(From(s, end))
EXP_tokens(s) ==
  IF s = << >> THEN << >>
  ELSE CASE s[1] = 32 -> EXP_tokens(Tail(s))
         [] s[1] \in Digits -> AfterDigits(s, FirstNotAt(s, Digits))
         [] s[1] = Quote -> AfterString(EXP_get_string(Tail(s), ClosingQuote(Tail(s))))
         [] s[1] > 255 -> <<Value(EXP_get_symbol(NameOf(s[1])))>> \o EXP_tokens(Tail(s))
         [] OTHER -> <<Operator(OperatorName(s[1]))>> \o EXP_tokens(Tail(s))
EXP_value(text) == EXP_compute(EXP_tokens(text)).text

(***************************************************************************)
(* What each function makes of the values of its arguments.                *)
(***************************************************************************)
f_chr(n) == IF (n % 256) = 0 THEN << >> ELSE <<n % 256>>

\* A negative offset passes the whole string, a negative length takes all of the rest.
f_extract(offset, length, s) ==
  LET rest == IF offset < 0 THEN << >> ELSE From(s, offset + 1)
  IN IF length < 0 THEN rest ELSE SubSeq(rest, 1, IF length < Len(rest) THEN length ELSE Len(rest))

OccursAt(t, s, k) == SubSeq(s, k, k + Len(t) - 1) = t
f_locate(t, s) ==
  LET at == {k \in 1..Len(s) - Len(t) + 1 : OccursAt(t, s, k)}
  IN IF at = {} THEN Len(s) ELSE (CHOOSE k \in at : \A j \in at : k <= j) - 1

\* strtok: delimiters in a row are one.  An element that is not there is the delimiter.
f_element(n, delim, s) ==
  LET d == SubSeq(delim, 1, IF delim = << >> THEN 0 ELSE 1)
      begins == InOrder(s, {k \in DOMAIN s : <<s[k]>> # d /\ (k = 1 \/ <<s[k - 1]>> = d)})
      rest == From(s, begins[n + 1])
  IN IF n + 1 \in DOMAIN begins THEN SubSeq(rest, 1, FirstAt(rest, ToSet(d)) - 1) ELSE d

\* The first bit asked for is never looked at.
IsBitSet(s, bit) == (s[bit \div 8 + 1] \div 2^(7 - (bit % 8))) % 2
cvui(start, length, s) ==
  IF (start + length) \div 8 + 1 > Len(s) \/ length > 32 THEN 0
  ELSE FoldLeft(LAMBDA n, i : 2 * n + IsBitSet(s, start + i), 0, [i \in 1..length - 1 |-> i])

Upper(c) == IF c \in 97..122 THEN c - 32 ELSE c
f_edit(s, edit) ==
  LET loose == {k \in DOMAIN s : ~Quoting(s, k)}
      blank == {k \in DOMAIN s : s[k] \in Blanks}
      inked == DOMAIN s \ blank
  IN CASE edit = "COLLAPSE" -> Kept(s, DOMAIN s \ (blank \cap loose))
       [] edit = "COMPRESS" -> Kept(s, {k \in DOMAIN s : ~(k \in loose /\ {k - 1, k} \subseteq blank)})
       [] edit = "LOWERCASE" -> [k \in DOMAIN s |-> IF k \in loose THEN Lower(s)[k] ELSE s[k]]
       [] edit = "UPCASE" -> [k \in DOMAIN s |-> IF k \in loose THEN Upper(s[k]) ELSE s[k]]
       [] edit = "TRIM" -> Kept(s, {k \in DOMAIN s : \E i, j \in inked : i <= k /\ k <= j})
       [] edit = "UNCOMMENT" -> Kept(s, {k \in DOMAIN s : \A j \in 1..k : ~(s[j] = Bang /\ j \in loose)})
       [] OTHER -> << >>

\* F$TYPE looks up the text itself.
f_type(text) ==
  LET name == IF Len(text) = 1 THEN NameOf(text[1]) ELSE ""
  IN CASE name \notin DOMAIN symbol_value -> <<Code("undefined")>>
       [] name \in DOMAIN symbol_value /\ EXP_isnumber(symbol_value[name]) -> <<Code("integer")>>
       [] OTHER -> <<Code("string")>>

Call(name, v) ==
  CASE name = "CHR" -> f_chr(atol(v[1]))
    [] name = "CVUI" -> Decimal(cvui(atol(v[1]), atol(v[2]), v[3]))
    [] name = "EDIT" -> f_edit(v[1], IF Len(v[2]) = 1 THEN NameOf(v[2][1]) ELSE "")
    [] name = "ELEMENT" -> f_element(atol(v[1]), v[2], v[3])
    [] name = "EXTRACT" -> f_extract(atol(v[1]), atol(v[2]), v[3])
    [] name = "INTEGER" -> Decimal(atol(v[1]))
    [] name = "LENGTH" -> Decimal(Len(v[1]))
    [] name = "LOCATE" -> Decimal(f_locate(v[1], v[2]))
    [] name = "STRING" -> v[1]

(***************************************************************************)
(* A call in the line: its arguments, its value as it is written.          *)
(***************************************************************************)
Separators == {Comma, Close}
Arity(name) ==
  CASE name \in {"CVUI", "ELEMENT", "EXTRACT"} -> 3
    [] name \in {"EDIT", "LOCATE"} -> 2
    [] OTHER -> 1
EndOf(name, k) == IF k = Arity(name) /\ name \in {"CVUI", "EDIT", "ELEMENT"} THEN {Close} ELSE Separators

\* s is what follows the opening parenthesis.  An argument ends at a separator wherever it is.
Arguments(name, s) ==
  LET rest[k \in 1..3] == IF k = 1 THEN s ELSE From(rest[k - 1], FirstAt(rest[k - 1], Separators) + 1)
  IN [k \in 1..Arity(name) |-> SubSeq(rest[k], 1, FirstAt(rest[k], EndOf(name, k)) - 1)]

\* A text is put in quotes, those in it are not doubled; the NUL of F$CHR(0) ends it early, and an
\* edit that is none leaves nothing.
ValueAsWritten(name, v, value) ==
  CASE name \in {"INTEGER", "LENGTH", "LOCATE"} -> value
    [] name = "CHR" /\ value = << >> -> <<Quote>>
    [] name = "EDIT" /\ v[2] \notin {<<Code(e)>> : e \in ToSet(EditNames)} -> << >>
    [] OTHER -> <<Quote>> \o value \o <<Quote>>

Called(name, v) == ValueAsWritten(name, v, Call(name, v))
f_lexical(name, arguments) ==
  IF name = "TYPE" THEN <<Quote>> \o f_type(arguments[1]) \o <<Quote>>
  ELSE Called(name, [k \in DOMAIN arguments |-> EXP_value(arguments[k])])

\* Where the parenthesis that opens first in s is closed, 0 if nowhere.
next_parenthesis(s) ==
  LET open == FirstAt(s, {Open})
      Balance(k) == Cardinality({j \in open..k : s[j] = Open}) - Cardinality({j \in open..k : s[j] = Close})
      closes == {k \in open..Len(s) : Balance(k) = 0}
  IN IF closes = {} THEN 0 ELSE CHOOSE k \in closes : \A j \in closes : k <= j

\* From the last name to the first.  A name without parentheses loses its F.
Dollar == 36
InParentheses(call) == From(call, FirstAt(call, {Open}) + 1)
Replacement(call) == f_lexical(NameOf(call[1]), Arguments(NameOf(call[1]), InParentheses(call)))
Substituted(line, i, end) ==
  SubSeq(line, 1, i - 1)
    \o IF end = 0 THEN <<Quote, Quote, Dollar>> \o From(line, i + 1)
       ELSE Replacement(SubSeq(line, i, i + end - 1)) \o From(line, i + end)
IsFunction(c) == NameOf(c) \in ToSet(FunctionNames)
LastFunction(line, before) ==
  CHOOSE i \in 0..before - 1 :
    (i = 0 \/ IsFunction(line[i])) /\ \A j \in i + 1..before - 1 : ~IsFunction(line[j])
RECURSIVE TranslateFrom(_, _)
TranslateFrom(line, i) ==
  IF i = 0 THEN line
  ELSE LET translated == Substituted(line, i, next_parenthesis(From(line, i)))
       IN TranslateFrom(translated, LastFunction(translated, i))
dcl_translate_lexicals(line) == TranslateFrom(line, LastFunction(line, Len(line) + 1))

(***************************************************************************)
(* What a call means: the function of what its arguments mean.  A call is  *)
(* written with arguments that are texts or calls.                         *)
(***************************************************************************)
Text(s) == [name |-> "", text |-> s, args |-> << >>]
CallOf(name, args) == [name |-> name, text |-> << >>, args |-> args]

RECURSIVE Written(_), Meaning(_)
Written(x) ==
  IF x.name = "" THEN x.text
  ELSE <<Code(x.name), Open>>
         \o FlattenSeq([k \in DOMAIN x.args |-> (IF k = 1 THEN << >> ELSE <<Comma>>) \o Written(x.args[k])])
         \o <<Close>>
ArgumentValues(x) == [k \in DOMAIN x.args |-> Meaning(x.args[k])]
Meaning(x) == IF x.name = "" THEN EXP_value(x.text) ELSE Call(x.name, ArgumentValues(x))
MeantText(x) ==
  IF x.name = "" THEN x.text
  ELSE IF x.name = "TYPE" THEN <<Quote>> \o f_type(x.args[1].text) \o <<Quote>>
  ELSE Called(x.name, ArgumentValues(x))

\* Nothing in the argument ends it early: no separator, no parenthesis, and what a call gives has no
\* quotes but those around it.
Places(s, c) == {k \in DOMAIN s : s[k] = c}
Unharmed(text, ends, called) ==
  /\ \A c \in ends \cup {Open, Close} : Places(text, c) = {}
  /\ called => Cardinality(Places(text, Quote)) \in {0, 2}
RECURSIVE Harmless(_)
Harmless(x) ==
  \A k \in DOMAIN x.args :
    Unharmed(MeantText(x.args[k]), EndOf(x.name, k), x.args[k].name # "") /\ Harmless(x.args[k])

\* lexical.c:540: F$LOCATE finds the first place where F$EXTRACT takes the string, the elements are
\* the string without its delimiters, and an edit that is done leaves nothing for itself to do.
TextLaws(s, parts) ==
  /\ \A t \in parts :
       /\ f_locate(t, s) = Len(s) \/ f_extract(f_locate(t, s), Len(t), s) = t
       /\ \A k \in 0..Len(s) - Len(t) : f_extract(k, Len(t), s) = t => f_locate(t, s) <= k
  /\ \A d \in parts :
       LET Element(n) == IF f_element(n, d, s) = d THEN << >> ELSE f_element(n, d, s)
       IN FlattenSeq([k \in DOMAIN s |-> Element(k - 1)]) = SelectSeq(s, LAMBDA c : <<c>> # d)
  /\ \A e \in ToSet(EditNames) : f_edit(f_edit(s, e), e) = f_edit(s, e)

\* dcl.c:1259: calls are substituted from the right, so that an inner one is a text when the outer
\* one is read again: a call, and each of two in a line, gives what its parts mean.
Twice(s) == s \o <<43>> \o s
TranslatedTo(line, text) ==
  \A twice \in BOOLEAN :
    dcl_translate_lexicals(IF twice THEN Twice(line) ELSE line) = IF twice THEN Twice(text) ELSE text
CallsNested(x) ==
  Harmless(x) => TranslatedTo(Written(x), MeantText(x))
=============================================================================
