--------------------------- MODULE DclConditions ---------------------------
(***************************************************************************)
(* Conditional blocks and loops.  IF, WHILE push a condition code on the   *)
(* stack of the procedure level, ENDIF and ENDWHILE pop it; WHILE and      *)
(* REPEAT keep the lines to loop back to in two tables of their own, which *)
(* no level owns.                                                          *)
(***************************************************************************)
EXTENDS DclState

KeepBlocks == UNCHANGED <<dcl_state, C, D, dcl_subr, streams>>
KeepLoops == UNCHANGED <<loopVars, undefined>>

CC == dcl[D].cc
SetCC(cc) == dcl' = [dcl EXCEPT ![D].cc = cc]

PushConditionOffByOne(c, s) ==
  \/ Len(CC) <= MaxCond /\ SetCC(<<c>> \o CC) /\ Finish(s)
  \/ Len(CC) > MaxCond /\ UNCHANGED dcl /\ Finish(2)

\* A block begins, or "Too much nested IF conditions".
PushCondition(c, s) ==
  \/ Len(CC) < MaxCond /\ SetCC(<<c>> \o CC) /\ Finish(s)
  \/ Len(CC) >= MaxCond /\ UNCHANGED dcl /\ Finish(2)

\* The entries of while_table and repeat_table start at index 0.
InBounds(i, max) == i \in 0..max - 1

(***************************************************************************)
(* IF, THEN, ELSE, ENDIF.                                                  *)
(***************************************************************************)
If ==
  /\ Executing("if")
  /\ NEXT_LINE /\ KeepBlocks /\ KeepLoops
  /\ \/ Skipping /\ UNCHANGED dcl /\ Finish(0)
     \/ ~Skipping /\ ~Active /\ PushCondition(FALSE, 0)
     \/ /\ ~Idle /\ Arg = "BAD" /\ UNCHANGED dcl /\ Finish(2)
     \/ /\ ~Idle /\ Arg # "BAD"
        /\ \E c \in Truth :
             \/ Rest = << >> /\ PushCondition(c, Failure)
             \/ /\ Rest # << >> /\ UNCHANGED dcl
                /\ IF c THEN FinishWith(Tail(Rest), 2) ELSE Finish(Failure)

Then ==
  /\ Executing("then")
  /\ NEXT_LINE /\ KeepBlocks /\ KeepLoops
  /\ UNCHANGED dcl
  /\ IF Idle THEN Finish(0) ELSE FinishWith(Rest, 2)

\* ELSE turns the innermost condition over, whatever the ones around it are.
Else ==
  /\ Executing("else")
  /\ NEXT_LINE /\ KeepBlocks /\ KeepLoops
  /\ \/ Skipping /\ UNCHANGED dcl /\ Finish(0)
     \/ ~Skipping /\ CC = << >> /\ UNCHANGED dcl /\ Finish(2)
     \/ /\ ~Skipping /\ CC # << >>
        /\ SetCC(<<~Head(CC)>> \o Tail(CC))
        /\ IF Head(CC) THEN Finish(0) ELSE FinishWith(Rest, 2)

EndIfWhenActive ==
  /\ Executing("endif")
  /\ NEXT_LINE /\ KeepBlocks /\ KeepLoops
  /\ \/ Idle /\ UNCHANGED dcl /\ Finish(0)
     \/ ~Idle /\ CC = << >> /\ UNCHANGED dcl /\ Finish(2)
     \/ ~Idle /\ CC # << >> /\ SetCC(Tail(CC)) /\ Finish(0)

EndIf ==
  /\ Executing("endif")
  /\ NEXT_LINE /\ KeepBlocks /\ KeepLoops
  /\ \/ Skipping /\ UNCHANGED dcl /\ Finish(0)
     \/ ~Skipping /\ CC = << >> /\ UNCHANGED dcl /\ Finish(2)
     \/ ~Skipping /\ CC # << >> /\ SetCC(Tail(CC)) /\ Finish(0)

(***************************************************************************)
(* WHILE, ENDWHILE.                                                        *)
(***************************************************************************)

\* The line ENDWHILE goes back to.
WhileStartAfter == cmd[C].ln + 1
WhileStart == cmd[C].ln

\* A true condition enters the loop, unless ENDWHILE has just come back to it.
EnterWhile ==
  IF while_flag = 0 /\ while_idx < MaxWhile
  THEN /\ InBounds(while_idx + 1, MaxWhile)
       /\ while_idx' = while_idx + 1
       /\ while_table' = [while_table EXCEPT ![while_idx + 1] = WhileStart]
  ELSE UNCHANGED <<while_idx, while_table>>

LeaveWhile ==
  /\ while_idx > -MaxDrift
  /\ while_idx' = while_idx - 1
  /\ UNCHANGED while_table

\* In a skipped definition WHILE returns before NEXT_LINE.
While ==
  /\ Executing("while")
  /\ KeepBlocks
  /\ UNCHANGED <<repeat_table, repeat_idx>>
  /\ \/ /\ Skipping
        /\ Finish(0) /\ UNCHANGED <<cmd, dcl, while_table, while_idx, while_flag, undefined>>
     \/ /\ ~Skipping
        /\ NEXT_LINE
        /\ while_flag' = 0
        /\ UNCHANGED undefined
        /\ \/ ~Active /\ PushCondition(FALSE, 0) /\ UNCHANGED <<while_table, while_idx>>
           \/ /\ Active /\ Arg = "BAD"
              /\ Finish(2) /\ UNCHANGED <<dcl, while_table, while_idx>>
           \/ /\ Active /\ Arg # "BAD"
              /\ \E c \in Truth : /\ IF c THEN EnterWhile ELSE LeaveWhile
                                  /\ PushCondition(c, Failure)

EndWhile ==
  /\ Executing("endwhile")
  /\ KeepBlocks
  /\ UNCHANGED <<while_table, while_idx, repeat_table, repeat_idx, undefined>>
  /\ \/ Skipping /\ NEXT_LINE /\ UNCHANGED <<dcl, while_flag>> /\ Finish(0)
     \/ ~Skipping /\ CC = << >> /\ NEXT_LINE /\ UNCHANGED <<dcl, while_flag>> /\ Finish(2)
     \/ /\ ~Skipping /\ CC # << >>
        /\ SetCC(Tail(CC))
        /\ Finish(0)
        /\ IF Head(CC)
           THEN /\ InBounds(while_idx, MaxWhile)
                /\ cmd' = [cmd EXCEPT ![C].ln = while_table[while_idx]]
                /\ while_flag' = 1
           ELSE NEXT_LINE /\ UNCHANGED while_flag

(***************************************************************************)
(* REPEAT, UNTIL.                                                          *)
(***************************************************************************)
\* The line UNTIL goes back to, NEXT_LINE having run.
RepeatStart == NextLine(cmd)[C].ln

Repeat ==
  /\ Executing("repeat")
  /\ NEXT_LINE /\ KeepBlocks
  /\ UNCHANGED <<dcl, while_table, while_idx, while_flag, undefined>>
  /\ \/ Idle /\ UNCHANGED <<repeat_table, repeat_idx>> /\ Finish(0)
     \/ /\ ~Idle /\ repeat_idx < MaxRepeat
        /\ InBounds(repeat_idx + 1, MaxRepeat)
        /\ repeat_idx' = repeat_idx + 1
        /\ repeat_table' = [repeat_table EXCEPT ![repeat_idx + 1] = RepeatStart]
        /\ Finish(0)
     \/ ~Idle /\ repeat_idx >= MaxRepeat /\ UNCHANGED <<repeat_table, repeat_idx>> /\ Finish(2)

Until ==
  /\ Executing("until")
  /\ KeepBlocks
  /\ UNCHANGED <<dcl, while_table, while_idx, while_flag, repeat_table, undefined>>
  /\ \/ Idle /\ NEXT_LINE /\ UNCHANGED repeat_idx /\ Finish(0)
     \/ ~Idle /\ Arg = "BAD" /\ NEXT_LINE /\ UNCHANGED repeat_idx /\ Finish(2)
     \/ /\ ~Idle /\ Arg # "BAD"
        /\ Finish(Failure)
        /\ \E c \in Truth :
             \/ /\ c /\ repeat_idx > -MaxDrift
                /\ NEXT_LINE /\ repeat_idx' = repeat_idx - 1
             \/ /\ ~c /\ InBounds(repeat_idx, MaxRepeat)
                /\ cmd' = [cmd EXCEPT ![C].ln = repeat_table[repeat_idx]]
                /\ UNCHANGED repeat_idx

\* A loop table is read or written outside its bounds.
LoopOutOfBounds ==
  /\ \/ /\ Executing("while") /\ Arg # "BAD" /\ TRUE \in Truth
        /\ while_flag = 0 /\ while_idx < MaxWhile /\ ~InBounds(while_idx + 1, MaxWhile)
     \/ Executing("endwhile") /\ CC # << >> /\ ~InBounds(while_idx, MaxWhile)
     \/ /\ Executing("repeat")
        /\ repeat_idx < MaxRepeat /\ ~InBounds(repeat_idx + 1, MaxRepeat)
     \/ /\ Executing("until") /\ Arg # "BAD" /\ FALSE \in Truth
        /\ ~InBounds(repeat_idx, MaxRepeat)
  /\ ~Idle
  /\ Undefined

ConditionCommand ==
  If \/ Then \/ Else \/ EndIf \/ While \/ EndWhile \/ Repeat \/ Until \/ LoopOutOfBounds
=============================================================================
