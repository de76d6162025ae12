---------------------------- MODULE Expressions -----------------------------
(***************************************************************************)
(* Expressions (expr.c): EXP_compute over the tokens of a text.  A text is *)
(* a sequence of ASCII codes.  The result is the text that is delivered,   *)
(* with the errors that were displayed, each of which sets $SEVERITY to 2. *)
(***************************************************************************)
EXTENDS Integers, Sequences, FiniteSets, SequencesExt

CONSTANT symbol_value   \* the symbols that have a value, and it

(***************************************************************************)
(* Numbers and texts.  Minus is '-', the digits are 48 to 57.              *)
(***************************************************************************)
Minus == 45
Digits == 48..57

EXP_isnumber(s) == s # << >> /\ \A i \in DOMAIN s : s[i] \in Digits \/ (i = 1 /\ s[i] = Minus)

Decimal(n) ==
  LET digits[k \in Nat] == IF k < 10 THEN <<48 + k>> ELSE Append(digits[k \div 10], 48 + (k % 10))
  IN IF n < 0 THEN <<Minus>> \o digits[-n] ELSE digits[n]

DigitValue(c) == IF c \in Digits THEN c - 48 ELSE IF c \in 65..70 THEN c - 55 ELSE c - 87
InBase(base, digits) == FoldLeft(LAMBDA n, c : n * base + DigitValue(c), 0, digits)

\* What atol reads: the digits that begin a text, after its sign.
atol(s) ==
  LET negative == s # << >> /\ s[1] = Minus
      from == IF negative THEN 2 ELSE 1
      digits == {k \in from..Len(s) : \A j \in from..k : s[j] \in Digits}
      n == InBase(10, SubSeq(s, from, from + Cardinality(digits) - 1))
  IN IF negative THEN -n ELSE n

Lower(s) == [i \in DOMAIN s |-> IF s[i] \in 65..90 THEN s[i] + 32 ELSE s[i]]
SameText(s, t) == Lower(s) = Lower(t)
Precedes(s, t) ==
  \E k \in 0..Len(s) :
    /\ k < Len(t) /\ SameText(SubSeq(s, 1, k), SubSeq(t, 1, k))
    /\ k = Len(s) \/ Lower(s)[k + 1] < Lower(t)[k + 1]

\* s without the first text in it that is t.
str_reduce(s, t) ==
  LET at == {i \in 1..Len(s) - Len(t) + 1 : SameText(SubSeq(s, i, i + Len(t) - 1), t)}
      first == CHOOSE i \in at : \A j \in at : i <= j
  IN IF at = {} THEN s ELSE SubSeq(s, 1, first - 1) \o SubSeq(s, first + Len(t), Len(s))

\* Bit by bit, of numbers in two's complement.
BitAnd(n, m) ==
  LET and[i, j \in Int] ==
        IF i = 0 THEN 0 ELSE IF i = -1 THEN j ELSE 2 * and[i \div 2, j \div 2] + ((i % 2) * (j % 2))
  IN and[n, m]
BitNot(n) == -n - 1
BitOr(n, m) == BitNot(BitAnd(BitNot(n), BitNot(m)))

\* C divides toward zero.
Quotient(n, m) ==
  LET Abs(k) == IF k < 0 THEN -k ELSE k
      q == Abs(n) \div Abs(m)
  IN IF (n < 0) = (m < 0) THEN q ELSE -q

(***************************************************************************)
(* Operators.                                                              *)
(***************************************************************************)
Factors == {"*", "/"}
NumberTests == {".EQ.", ".GE.", ".GT.", ".LE.", ".LT.", ".NE."}
TextTests == {".EQS.", ".GES.", ".GTS.", ".LES.", ".LTS.", ".NES."}
Terms == {"+", ",", "-", ".AND.", ".OR."} \cup NumberTests \cup TextTests
Signs == {"-", ".NOT."}

Truth(b) == IF b THEN Decimal(1) ELSE Decimal(0)
NumberTest(oper, n, m) ==
  \/ oper = ".EQ." /\ n = m
  \/ oper = ".GE." /\ n >= m
  \/ oper = ".GT." /\ n > m
  \/ oper = ".LE." /\ n <= m
  \/ oper = ".LT." /\ n < m
  \/ oper = ".NE." /\ n # m
TextTest(oper, s, t) ==
  \/ oper = ".EQS." /\ SameText(s, t)
  \/ oper = ".GES." /\ ~Precedes(s, t)
  \/ oper = ".GTS." /\ Precedes(t, s)
  \/ oper = ".LES." /\ ~Precedes(t, s)
  \/ oper = ".LTS." /\ Precedes(s, t)
  \/ oper = ".NES." /\ ~SameText(s, t)

Operate(oper, s, t) ==
  LET n == atol(s)
      m == atol(t)
      numbers == EXP_isnumber(s) /\ EXP_isnumber(t)
  IN CASE oper = "+" -> IF numbers THEN Decimal(n + m) ELSE s \o t
       [] oper = "-" -> IF numbers THEN Decimal(n - m) ELSE str_reduce(s, t)
       [] oper = "," -> s \o t
       [] oper = "*" -> Decimal(n * m)
       [] oper = "/" -> IF m = 0 THEN s ELSE Decimal(Quotient(n, m))
       [] oper = ".AND." -> Decimal(BitAnd(n, m))
       [] oper = ".OR." -> Decimal(BitOr(n, m))
       [] oper \in NumberTests -> Truth(NumberTest(oper, n, m))
       [] oper \in TextTests -> Truth(TextTest(oper, s, t))
OperateAlone(oper, s) == Decimal(IF oper = "-" THEN -atol(s) ELSE BitNot(atol(s)))

(***************************************************************************)
(* Tokens: a value with its text, or an operator.                          *)
(***************************************************************************)
Value(text) == [token |-> "value", text |-> text]
Operator(oper) == [token |-> oper, text |-> << >>]

\* A decimal number keeps the digits it was written with.
EXP_get_number(base, digits) == IF base = 10 THEN digits ELSE Decimal(InBase(base, digits))
EXP_get_symbol(name) == IF name \in DOMAIN symbol_value THEN symbol_value[name] ELSE << >>
EXP_get_token(lexeme) ==
  CASE lexeme.kind = "number" -> Value(EXP_get_number(lexeme.base, lexeme.digits))
    [] lexeme.kind = "string" -> Value(lexeme.text)
    [] lexeme.kind = "symbol" -> Value(EXP_get_symbol(lexeme.name))
    [] lexeme.kind = "operator" -> Operator(lexeme.name)

(***************************************************************************)
(* The parser: an operand, or operands joined by the operators of a rank,  *)
(* from the token at a place on.  "at" is the first token not consumed.    *)
(***************************************************************************)
Result(text, at, errors) == [text |-> text, at |-> at, errors |-> errors]
ZeroDivision(oper, t) == IF oper = "/" /\ atol(t) = 0 THEN {"division by zero"} ELSE {}

Token(tokens, i) == IF i \in DOMAIN tokens THEN tokens[i].token ELSE "end"
JoinedInSilence(oper, r, o) ==
  Result(Operate(oper, r.text, o.text), o.at, r.errors \cup ZeroDivision(oper, o.text))
Joined(oper, r, o) ==
  Result(Operate(oper, r.text, o.text), o.at, r.errors \cup o.errors \cup ZeroDivision(oper, o.text))

RECURSIVE EXP_expression(_, _), EXP_term(_, _), EXP_factor(_, _), EXP_terminal(_, _),
          MoreTerms(_, _), MoreFactors(_, _)

MoreTerms(tokens, r) ==
  IF Token(tokens, r.at) \notin Terms THEN r
  ELSE MoreTerms(tokens, Joined(Token(tokens, r.at), r, EXP_term(tokens, r.at + 1)))
EXP_expression(tokens, i) == MoreTerms(tokens, EXP_term(tokens, i))

MoreFactors(tokens, r) ==
  IF Token(tokens, r.at) \notin Factors THEN r
  ELSE MoreFactors(tokens, Joined(Token(tokens, r.at), r, EXP_factor(tokens, r.at + 1)))
EXP_term(tokens, i) == MoreFactors(tokens, EXP_factor(tokens, i))

EXP_factor(tokens, i) ==
  IF Token(tokens, i) \notin Signs THEN EXP_terminal(tokens, i)
  ELSE [EXP_terminal(tokens, i + 1) EXCEPT !.text = OperateAlone(Token(tokens, i), @)]

\* A token that is no operand is consumed in silence.
EXP_terminal(tokens, i) ==
  IF Token(tokens, i) = "("
  THEN LET e == EXP_expression(tokens, i + 1)
       IN Result(e.text, e.at + 1, e.errors \cup IF Token(tokens, e.at) = ")" THEN {} ELSE {") expected"})
  ELSE Result(IF Token(tokens, i) = "value" THEN tokens[i].text ELSE << >>, i + 1, {})

EndErrors(token) ==
  CASE token = "end" -> {}
    [] token = "unknown" -> {"invalid syntax"}
    [] OTHER -> {"end of line expected"}
Ended(tokens, r) == [r EXCEPT !.errors = @ \cup EndErrors(Token(tokens, r.at))]
EXP_compute(tokens) == Ended(tokens, EXP_expression(tokens, 1))
=============================================================================
