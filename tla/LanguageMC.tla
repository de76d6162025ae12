----------------------------- MODULE LanguageMC -----------------------------
(***************************************************************************)
(* Small instances of what the commands are made of: a behaviour is about  *)
(* one subject.  Expressions and file names are typed piece by piece, and  *)
(* what they say is looked at after each.                                  *)
(***************************************************************************)
EXTENDS Precedence, LexicalFunctions, FormattedOutput, FileNames, CommandLine, Times, FileSearch, TLC

CONSTANTS
  Subjects,
  Vocabularies,   \* sets of tokens; an expression is of one
  MaxTokens,      \* bound
  MaxPieces,      \* bound: the directives of a format
  MaxNames        \* bound: the directories of a path

VARIABLES subject, vocabulary, typed

textVars == <<subject, vocabulary, typed>>
allVars == <<textVars, lineVars, timeVars, searchVars>>

(***************************************************************************)
(* Expressions.                                                            *)
(***************************************************************************)
Ascii(c) == <<c>>
Number_(digits) == [kind |-> "number", base |-> 10, digits |-> digits]
Oper(name) == [kind |-> "operator", name |-> name]
String(text) == [kind |-> "string", text |-> text]
Symbol(name) == [kind |-> "symbol", name |-> name]
Tokens(lexemes) == {EXP_get_token(x) : x \in lexemes}

\* 0, 1, 12 and %X1A; "a", "A" and "ba"; a symbol that is -2 and one that is not defined.
SymbolValues == [TWO |-> <<Minus, 50>>]
SymbolNames == <<"TWO", "UNDEFINED">>
Numbers == {Number_(<<49>>), [kind |-> "number", base |-> 16, digits |-> <<49, 65>>]}
Zero == Number_(<<48>>)
Parentheses == {Oper("("), Oper(")")}
Arithmetic == Numbers \cup Parentheses \cup {Zero, Oper("*"), Oper("/"), Oper("-"), Oper("+")}
Logic ==
  {Number_(<<51>>), Number_(<<49>>), Symbol("TWO"), Oper(".NOT."), Oper(".AND."), Oper(".OR."),
   Oper(".EQ."), Oper("+"), Oper("*")}
Comparisons == {Number_(<<49, 50>>), Symbol("TWO")} \cup {Oper(o) : o \in NumberTests \cup {","}}
Strings ==
  {String(<<97>>), String(<<98, 65>>), Number_(<<55>>), Symbol("UNDEFINED"), Oper("+"), Oper("-"), Oper(",")}
    \cup {Oper(o) : o \in TextTests}
Broken == {Zero, String(<<97>>), Oper("("), Oper(")"), Oper("-"), Oper("*"), Oper("unknown")}
SomeVocabularies == {Arithmetic, Logic, Strings, Comparisons, Broken}

TypeToken ==
  /\ subject = "expression" /\ Len(typed) < MaxTokens
  /\ \E t \in Tokens(vocabulary) : typed' = Append(typed, t)
  /\ UNCHANGED <<subject, vocabulary, lineVars, timeVars, searchVars>>

(***************************************************************************)
(* Lexical functions: a call is written first with texts, then as an       *)
(* argument of another.  Formats are written directive by directive.       *)
(***************************************************************************)
InQuotes(s) == Text(<<Quote>> \o s \o <<Quote>>)
NumberTexts == {Text(<<Code("TWO")>>), Text(<<49, 43, 49>>)}
\* "a/b", "a//b!" and "( a  ""a  A"" a )"; "/", "a" and the comma.
StringTexts ==
  {InQuotes(<<97, 47, 98>>), InQuotes(<<97, 47, 47, 98, Bang>>),
   InQuotes(<<32, 97, 32, 9, 34, 34, 97, 32, 32, 65, 34, 34, 32, 97, 32>>)}
PartTexts == {InQuotes(<<47>>), InQuotes(<<97>>), InQuotes(<<Comma>>)}
EditTexts == {InQuotes(<<Code(e)>>) : e \in ToSet(EditNames)}
              \cup {InQuotes(<<Code("COMPRESS"), Comma, Code("TRIM")>>)}
SymbolTexts == {Text(<<Code(s)>>) : s \in ToSet(symbol_names)}
ArgumentTexts ==
  [CHR |-> <<NumberTexts>>, CVUI |-> <<{Text(<<48>>), Text(<<52>>)}, {Text(<<52>>), Text(<<49, 43, 49>>)}, StringTexts>>,
   EDIT |-> <<StringTexts, EditTexts>>, ELEMENT |-> <<NumberTexts, PartTexts, StringTexts>>,
   EXTRACT |-> <<NumberTexts, NumberTexts, StringTexts>>, INTEGER |-> <<NumberTexts>>,
   LENGTH |-> <<StringTexts>>, LOCATE |-> <<PartTexts, StringTexts>>, STRING |-> <<NumberTexts \cup StringTexts>>,
   TYPE |-> <<SymbolTexts>>]
\* The calls of a function of which argument k, if not 0, is call.
CallsWith(name, k, call) ==
  {CallOf(name, args) : args \in {a \in [1..Arity(name) -> UNION {ArgumentTexts[name][i] : i \in 1..Arity(name)} \cup {call}] :
                                    \A i \in DOMAIN a : IF i = k THEN a[i] = call ELSE a[i] \in ArgumentTexts[name][i]}}
\* A call is no argument of F$TYPE, which takes a name, nor a number of F$CVUI, where it may be negative.
MayHave(name) == CASE name = "TYPE" -> {} [] name = "CVUI" -> {3} [] OTHER -> 1..Arity(name)

WriteCall ==
  /\ subject = "call"
  /\ \/ typed = << >> /\ \E name \in ToSet(FunctionNames) : \E c \in CallsWith(name, 0, Text(<< >>)) : typed' = <<c>>
     \/ /\ Len(typed) = 1 /\ typed[1].name # "TYPE"
        /\ \E name \in ToSet(FunctionNames) : \E k \in MayHave(name) :
             \E c \in CallsWith(name, k, typed[1]) : typed' = Append(typed, c)
  /\ UNCHANGED <<subject, vocabulary, lineVars, timeVars, searchVars>>

StringValues(x) == {EXP_value(x.args[k].text) : k \in DOMAIN x.args}

Directives ==
  {Fixed(97), Directive(NoDigits, FALSE, NoDigits, Kind("AS")), Directive(3, FALSE, NoDigits, Kind("AS")),
   Directive(2, TRUE, 4, Kind("AS")), Directive(2, TRUE, NoDigits, Kind("AS")), Directive(Sharp, TRUE, Sharp, Kind("AS")),
   Directive(NoDigits, FALSE, NoDigits, Conversion("X", "B")), Directive(4, FALSE, NoDigits, Conversion("O", "W")),
   Directive(2, TRUE, 3, Conversion("S", "L")), Directive(NoDigits, FALSE, NoDigits, Conversion("U", "B")),
   Directive(NoDigits, FALSE, NoDigits, Conversion("Z", "W")), Directive(Sharp, FALSE, NoDigits, Conversion("Z", "L")),
   Directive(3, FALSE, NoDigits, Character(42)), Directive(2, TRUE, 0, Kind("newline")),
   Directive(NoDigits, FALSE, NoDigits, Kind("D")), Directive(NoDigits, FALSE, NoDigits, Kind("-")),
   Directive(2, TRUE, NoDigits, Kind("-")), Directive(NoDigits, FALSE, NoDigits, Kind("+"))}
TypeDirective ==
  /\ subject = "format" /\ Len(typed) < MaxPieces
  /\ \E d \in Directives : typed' = Append(typed, d)
  /\ UNCHANGED <<subject, vocabulary, lineVars, timeVars, searchVars>>
\* "3", "11", "ab", "3", "7", and "ab", "2", "3", "11", ""; the time is one character.
Inputs == {<<<<51>>, <<49, 49>>, <<97, 98>>, <<51>>, <<55>>>>, <<<<97, 98>>, <<50>>, <<51>>, <<49, 49>>, << >>>>}

\* expr.c and lexical.c: every expression has the value of its operators' ranks, or is reported;
\* every call has that of its function, wherever it is written, and every format that of its directives.
Computed ==
  /\ subject = "expression" => ValueByRank(typed) /\ ErrorsReported(typed)
  /\ subject = "call" /\ typed # << >> =>
       CallsNested(typed[Len(typed)]) /\ \A s \in StringValues(typed[1]) : TextLaws(s, {<<47>>, <<97>>, << >>})
  /\ subject = "format" => \A args \in Inputs : FormattedInOrder(typed, args, <<68>>)

(***************************************************************************)
(* File names.                                                             *)
(***************************************************************************)
DirectoryNames == {<<"a">>, <<"b", "c">>, <<"d", "-">>, <<"000000">>, Parent}
Drives == {<< >>, <<"C", ":">>}
FileParts == {<< >>, <<"f">>, <<"f", ".", "x">>}
Residues == {"[", ".", "x"}
SomeLogicals ==
  (<<"L">> :> <<"C", ":", "[", "z", "]">>) @@ (<<"M">> :> <<"C", ":", Slash, "y", Slash>>)
    @@ (<<"K">> :> <<"L", ":">>)

TypeDirectory ==
  /\ subject = "name" /\ Len(typed) < MaxNames
  /\ \E d \in DirectoryNames : typed' = Append(typed, d)
  /\ UNCHANGED <<subject, vocabulary, lineVars, timeVars, searchVars>>

\* Every name, also on a device that is a logical name, survives the form of the commands, and every
\* directory F$DIRECTORY and SET DEFAULT.
NamesKept ==
  subject = "name" =>
    \A before \in Residues :
      /\ DefaultRestored(typed, <<Slash, "z", Slash>>, before)
      /\ \A file \in FileParts :
           /\ \A absolute \in BOOLEAN, drive \in Drives : NameKept(absolute, typed, drive, file, before)
           /\ \A device \in DOMAIN logical : OnDevice(device, typed, file, before)

(***************************************************************************)
(* Command lines, times and searches.                                      *)
(***************************************************************************)
SomeTables == {<<{"MANDATORY"}, {"MANDATORY"}>>, <<{"MANDATORY"}, {}>>, <<{"EXPR"}>>}
\* "B" has a value; "C1" and "C2" begin alike.
SomeKeys == {{"B"}, {"C1"}, {"C1", "C2"}, {}}

OnLine == /\ subject = "command"
          /\ \/ \E w \in Word \cup Key : Type(w)
             \/ Parse
             \/ \E t \in ParamTexts : Answer(t)
             \/ GiveUp
          /\ UNCHANGED <<textVars, timeVars, searchVars>>

LastDay == 2   \* bound: of a month
SomeDeltas == {0, 800, -1500}
SomeFields == {[mday |-> 31, mon |-> 1], [mon |-> 11], [year |-> FirstYear, minute |-> 0]}
OnTime == /\ subject = "time"
          /\ \/ Now \/ Today \/ Yesterday \/ Tomorrow
             \/ \E f \in SomeFields : Absolute(f)
             \/ localtime(today).mday # LastDay /\ NextDay
          /\ UNCHANGED <<textVars, lineVars, searchVars>>

SomeMatches == [COM |-> {"a.com", "b.com"}, DAT |-> {"a.dat"}, NONE |-> {}]
OnSearch == /\ subject = "search"
            /\ \E s \in Streams, spec \in Patterns : f_search(s, spec)
            /\ UNCHANGED <<textVars, lineVars, timeVars>>

\* The days around the end of February and of the year, in a session that may be of years.
FirstDays == {mktime(y, m, 27) : y \in FirstYear..LastYear - 1, m \in {1, 11}}

Init ==
  /\ subject \in Subjects
  /\ vocabulary \in IF subject = "expression" THEN Vocabularies ELSE {{}}
  /\ typed = << >>
  /\ phase = "line" /\ words = << >> /\ p = 0 /\ param = << >> /\ qual = << >>
  /\ rp \in IF subject = "command" THEN Tables ELSE {<< >>}
  /\ terminal \in IF subject = "command" THEN BOOLEAN ELSE {FALSE}
  /\ retcod = "DCL_OK" /\ SEVERITY = 0 /\ STATUS = 0
  /\ ttime = [day |-> 0, minute |-> 0] /\ said = "" /\ delta = 0 /\ reads = 0
  /\ today \in IF subject = "time" THEN FirstDays ELSE {0}
  /\ DM1 \in IF subject = "time" THEN 28..30 ELSE {28}
  /\ clock \in IF subject = "time" THEN Clocks ELSE {0}
  /\ SearchInit
Next == TypeToken \/ WriteCall \/ TypeDirective \/ TypeDirectory \/ OnLine \/ OnTime \/ OnSearch
Spec == Init /\ [][Next]_allVars
=============================================================================
