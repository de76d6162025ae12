----------------------------- MODULE Precedence -----------------------------
(***************************************************************************)
(* What the value of an expression is, told by the precedence of the       *)
(* operators alone: the operator that is applied last is, of those outside *)
(* parentheses, the rightmost of the lowest precedence.                    *)
(***************************************************************************)
EXTENDS Expressions

Is(tokens, k, kinds) == k \in DOMAIN tokens /\ tokens[k].token \in kinds
EndsOperand(tokens, k) == Is(tokens, k, {"value", ")"})
StartsOperand(tokens, k) == Is(tokens, k, {"value", "("})
\* Between token k - 1 and token k an operator has an operand on its left, or none.
IsBinary(tokens, k) == Is(tokens, k, Terms \cup Factors) /\ EndsOperand(tokens, k - 1)
IsUnary(tokens, k) == Is(tokens, k, Signs) /\ ~EndsOperand(tokens, k - 1)

Count(tokens, token, k) == Cardinality({j \in 1..k - 1 : tokens[j].token = token})
Depth(tokens, k) == Count(tokens, "(", k) - Count(tokens, ")", k)

\* An operand follows where one is expected, nothing else does.
OperandFollows(tokens, k) ==
  IF EndsOperand(tokens, k)
  THEN k = Len(tokens) \/ Is(tokens, k + 1, {")"}) \/ IsBinary(tokens, k + 1)
  ELSE StartsOperand(tokens, k + 1) \/ (IsUnary(tokens, k + 1) /\ ~IsUnary(tokens, k))
WellFormed(tokens) ==
  /\ \A k \in 0..Len(tokens) : OperandFollows(tokens, k)
  /\ \A k \in DOMAIN tokens : Depth(tokens, k + 1) >= 0
  /\ Depth(tokens, Len(tokens) + 1) = 0

LacksOperand(tokens) ==
  \E k \in 0..Len(tokens) : ~EndsOperand(tokens, k) /\ ~OperandFollows(tokens, k)

\* The operators of tokens i to j that are outside parentheses.
Outside(tokens, i, j) ==
  {k \in i..j : /\ Depth(tokens, k) = Depth(tokens, i)
                /\ IsBinary(tokens, k) \/ (k = i /\ IsUnary(tokens, k))}

\* The precedence of the operators in expr.c; the table of src/help/specify.hlp has six of them.
Rank(tokens, k) ==
  IF IsUnary(tokens, k) THEN 3 ELSE IF tokens[k].token \in Factors THEN 2 ELSE 1
LastApplied(tokens, opers) ==
  CHOOSE k \in opers :
    \A l \in opers : \/ Rank(tokens, k) < Rank(tokens, l)
                     \/ Rank(tokens, k) = Rank(tokens, l) /\ l <= k

RECURSIVE Evaluate(_, _, _)
ValueOfOperator(tokens, i, j, k) ==
  IF IsUnary(tokens, k) THEN OperateAlone(tokens[k].token, Evaluate(tokens, k + 1, j))
  ELSE Operate(tokens[k].token, Evaluate(tokens, i, k - 1), Evaluate(tokens, k + 1, j))
Evaluate(tokens, i, j) ==
  IF i = j THEN tokens[i].text
  ELSE IF Outside(tokens, i, j) = {} THEN Evaluate(tokens, i + 1, j - 1)
  ELSE ValueOfOperator(tokens, i, j, LastApplied(tokens, Outside(tokens, i, j)))

(***************************************************************************)
(* What is delivered for a sequence of tokens.                             *)
(***************************************************************************)

\* expr.c:94: a well-formed expression has the value its operators give it, those of a rank from
\* left to right, and no other error than a division by zero.
ValueByRank(tokens) ==
  WellFormed(tokens) =>
    \E errors \in SUBSET {"division by zero"} :
      EXP_compute(tokens) = Result(Evaluate(tokens, 1, Len(tokens)), Len(tokens) + 1, errors)

\* expr.c:521: an expression that is not well formed is reported, unless an operand is missing:
\* the message for that is commented out.
ErrorsReported(tokens) ==
  ~WellFormed(tokens) /\ ~LacksOperand(tokens) => EXP_compute(tokens).errors \ {"division by zero"} # {}
=============================================================================
