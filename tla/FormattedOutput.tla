-------------------------- MODULE FormattedOutput --------------------------
(***************************************************************************)
(* fao (lexical.c), the formatting of F$FAO.  A format is a sequence of    *)
(* fixed characters and directives: ! count ( length command ), where the  *)
(* count, the parentheses and the length may be missing.  Numbers are      *)
(* shorter than their 64 bits, and negative only where !S takes them.      *)
(***************************************************************************)
EXTENDS Expressions

NoDigits == -1   \* a number that is not written
Sharp == -2      \* "#": the number is the next argument

Directive(count, grouped, length, command) ==
  [command |-> command, count |-> count, grouped |-> grouped, length |-> length]
\* Commands: a string; a conversion and its size; a character, as often as the length says; what is
\* inserted; the time; arguments taken back and passed.
Kind(kind) == [kind |-> kind]
Conversion(kind, size) == [kind |-> kind, size |-> size]
Character(c) == [kind |-> "*", char |-> c]
Fixed(c) == Directive(NoDigits, FALSE, NoDigits, [kind |-> "fixed", char |-> c])
Special == [newline |-> <<13, 10>>, tab |-> <<9>>, page |-> <<12>>, bang |-> <<33>>]

(***************************************************************************)
(* Fields.                                                                 *)
(***************************************************************************)
Copies(n, s) == FlattenSeq([k \in 1..n |-> s])
Fill(c, n) == [i \in 1..n |-> c]
Fitted(s, width) == SubSeq(s, 1, IF width < Len(s) THEN width ELSE Len(s)) \o Fill(32, width - Len(s))
Behind(c, s, width) == Fill(c, width - Len(s)) \o s
InDigits(n, base) ==
  LET Digit(d) == IF d < 10 THEN 48 + d ELSE 55 + d
      numeral[k \in Nat] == IF k < base THEN <<Digit(k)>> ELSE Append(numeral[k \div base], Digit(k % base))
  IN numeral[n]
Signed(n) == IF n < 0 THEN Decimal(n) ELSE <<32>> \o Decimal(n)

\* The cases of a size fall through to those of the larger ones, which find the length set.
DefaultLength(conversion) ==
  CASE conversion.kind = "O" -> [B |-> 3, W |-> 6, L |-> 11][conversion.size]
    [] conversion.kind = "X" -> [B |-> 2, W |-> 4, L |-> 8][conversion.size]
    [] OTHER -> 1
Converted(kind, n, width) ==
  CASE kind = "O" -> Behind(48, InDigits(n, 8), width)
    [] kind = "X" -> Behind(48, InDigits(n, 16), width)
    [] kind = "Z" -> Behind(48, InDigits(n, 10), width)
    [] kind = "U" -> Behind(32, InDigits(n, 10), width)
    [] kind = "S" -> Behind(32, Signed(n), width)
NumberField(conversion, s, length) ==
  Converted(conversion.kind, atol(s), IF length = 0 THEN DefaultLength(conversion) ELSE length)

(***************************************************************************)
(* One directive after another: the result so far, the arguments used, and *)
(* help, the last number that was written in the format.                   *)
(***************************************************************************)
arg(args, a) == IF a + 1 \in DOMAIN args THEN args[a + 1] ELSE << >>

\* The length of the first string that has one is that of the strings after it.
RECURSIVE StringFields(_, _, _, _)
StringFields(args, a, repeat, length) ==
  IF repeat = 0 THEN << >>
  ELSE LET width == IF length = 0 THEN Len(arg(args, a)) ELSE length
       IN Fitted(arg(args, a), width) \o StringFields(args, a + 1, repeat - 1, width)

\* Without digits of its own a length is help, a "#" outside parentheses is passed over, and one
\* inside them is taken for the count.
CountRead(args, r, d) == IF d.count = Sharp THEN atol(arg(args, r.a)) ELSE IF d.count = NoDigits THEN r.help ELSE d.count
ArgsRead(d) == (IF d.count = Sharp THEN 1 ELSE 0) + (IF d.length = Sharp THEN 1 ELSE 0)
HelpAfter(r, d) == IF d.length >= 0 THEN d.length ELSE IF d.count >= 0 THEN d.count ELSE r.help
LengthRead(r, d) == IF d.length = Sharp THEN 0 ELSE HelpAfter(r, d)
AtLeastOne(n) == IF n = 0 THEN 1 ELSE n
RepeatRead(args, r, d) ==
  IF ~d.grouped THEN 1
  ELSE IF d.length = Sharp THEN AtLeastOne(atol(arg(args, r.a + ArgsRead(d) - 1)))
  ELSE AtLeastOne(CountRead(args, r, d))

Insert(r, text, used) == [r EXCEPT !.result = @ \o text, !.a = @ + used]
Command(args, r, command, repeat, length, time) ==
  CASE command.kind = "fixed" -> Insert(r, <<command.char>>, 0)
    [] command.kind = "AS" -> Insert(r, StringFields(args, r.a, repeat, length), repeat)
    [] command.kind \in {"O", "X", "Z", "U", "S"} ->
         Insert(r, FlattenSeq([k \in 1..repeat |-> NumberField(command, arg(args, r.a + k - 1), length)]), repeat)
    [] command.kind = "*" -> Insert(r, Fill(command.char, length), 0)
    [] command.kind \in DOMAIN Special -> Insert(r, Copies(repeat, Special[command.kind]), 0)
    [] command.kind = "D" -> [Insert(r, Fitted(time, IF length = 0 THEN Len(time) ELSE length), 1) EXCEPT !.help = 0]
    [] command.kind = "-" -> [r EXCEPT !.a = IF @ < repeat THEN 0 ELSE @ - repeat]
    [] command.kind = "+" -> [r EXCEPT !.a = @ + repeat]

WithNumbersRead(r, d) == [r EXCEPT !.a = @ + ArgsRead(d), !.help = HelpAfter(r, d)]
Piece(args, r, d, time) ==
  Command(args, WithNumbersRead(r, d), d.command, RepeatRead(args, r, d), LengthRead(r, d), time)
fao(format, args, time) ==
  FoldLeft(LAMBDA r, d : Piece(args, r, d, time), [result |-> << >>, a |-> 0, help |-> 0], format).result

(***************************************************************************)
(* What a format says, directive by directive (lexicals.hlp, F$FAO): each  *)
(* has the length written in it, or that of its value, and takes the       *)
(* arguments after those of the directives before it.                      *)
(***************************************************************************)
Times(d) == IF d.grouped THEN AtLeastOne(d.count) ELSE 1
OwnLength(d) == IF d.grouped THEN d.length ELSE d.count
TakesArguments(d) == d.command.kind \in {"AS", "O", "X", "Z", "U", "S", "D"}
ArgumentsPassed(d) ==
  CASE d.command.kind = "-" -> -Times(d)
    [] d.command.kind = "+" \/ TakesArguments(d) -> Times(d)
    [] OTHER -> 0
PassedBefore(format, k) == FoldLeft(LAMBDA n, d : n + ArgumentsPassed(d), 0, SubSeq(format, 1, k - 1))

FieldOf(command, s, length, time) ==
  CASE command.kind = "AS" -> Fitted(s, IF length = NoDigits THEN Len(s) ELSE length)
    [] command.kind = "D" -> Fitted(time, IF length = NoDigits THEN Len(time) ELSE length)
    [] OTHER -> NumberField(command, s, IF length = NoDigits THEN 0 ELSE length)
Said(args, d, before, time) ==
  CASE d.command.kind = "fixed" -> <<d.command.char>>
    [] TakesArguments(d) ->
         FlattenSeq([k \in 1..Times(d) |-> FieldOf(d.command, arg(args, before + k - 1), OwnLength(d), time)])
    [] d.command.kind = "*" -> Fill(d.command.char, OwnLength(d))
    [] d.command.kind \in DOMAIN Special -> Copies(Times(d), Special[d.command.kind])
    [] OTHER -> << >>
FormatSaid(format, args, time) ==
  FlattenSeq([k \in DOMAIN format |-> Said(args, format[k], PassedBefore(format, k), time)])

\* No number stands for another: none by "#", none that a directive without its own would take over,
\* and arguments are taken back only after they were passed.
Numbered(d) == d.count # NoDigits \/ d.length # NoDigits
NeedsLength(d) == TakesArguments(d) \/ d.command.kind = "*"
InPlainForm(format) ==
  /\ \A k \in DOMAIN format : PassedBefore(format, k + 1) >= 0
  /\ \A k \in DOMAIN format :
       /\ Sharp \notin {format[k].count, format[k].length}
       /\ format[k].grouped => format[k].count # NoDigits /\ format[k].command.kind # "D"
       /\ NeedsLength(format[k]) /\ OwnLength(format[k]) = NoDigits => \A j \in 1..k : ~Numbered(format[j])

\* lexical.c:2025: such a format gives what each of its directives says.
FormattedInOrder(format, args, time) == InPlainForm(format) => fao(format, args, time) = FormatSaid(format, args, time)
=============================================================================
