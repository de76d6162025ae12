-------------------------------- MODULE DclMC --------------------------------
(***************************************************************************)
(* Small worlds for TLC: the procedures on disk, the command line of the   *)
(* program, and what is typed.  A family is every procedure of up to n     *)
(* lines over a vocabulary, so that no order of the commands is left out.  *)
(***************************************************************************)
EXTENDS DclProperties, SequencesExt

SysFiles == {"SYS$DCL:login", "SYS$LOGIN:login", "SYS$LOGIN:logout", "SYS$DCL:logout"}
MCNames == SysFiles \cup {"main", "file", "other", "sub", "here"}

\* Lines.
L(op) == <<W(op)>>
La(op, arg) == <<Wa(op, arg)>>
Label(name, rest) == <<Wa("label", name)>> \o rest
IfThen(line) == <<W("if"), W("then")>> \o line
OnThen(condition, line) == <<Wa("on", condition), W("then")>> \o line
Output(op, arg) == <<[op |-> op, arg |-> arg, out |-> TRUE]>>
GoesOn(line) == line \o <<W("-")>>

Family(lines, n) == UNION {[1..k -> lines] : k \in 0..n}

\* One procedure, main, run by the command line.
Main(family) == {[f \in {"main"} |-> p] : p \in family}
\* main and a file it may run.
MainAnd(family, files) == {[f \in {"main", "file"} |-> IF f = "main" THEN p ELSE q] : p \in family, q \in files}

RunMain == {La("at", "main")}
NoLine == {<< >>}

(***************************************************************************)
(* Levels.                                                                 *)
(***************************************************************************)
SubBody == <<Label("sub", L("subroutine")), L("cmd"), L("endsubroutine")>>
WithSub(family) == {p \o SubBody : p \in family}

LevelLines ==
  {L("cmd"), La("at", "file"), Output("call", "sub"), La("gosub", "here"), L("exit"), L("return")}
FileLines == {L("cmd"), L("exit"), L("return"), La("at", "other"), L("endsubroutine")}
LevelPrograms ==
  MainAnd({p \o <<L("exit"), Label("here", La("at", "file")), L("return")>> : p \in WithSub(Family(LevelLines, 2))},
          Family(FileLines, 1))

(***************************************************************************)
(* Blocks: every well-formed procedure of up to six lines.                 *)
(***************************************************************************)
BlockLines == {L("if"), <<W("then"), W("cmd")>>, L("else"), <<W("else"), W("cmd")>>, L("endif"), L("cmd")}
SingleIfs == {IfThen(L("cmd")), IfThen(IfThen(L("cmd")))}

\* A single-line IF, alone or around another one, before the blocks.
BlockPrograms ==
  LET blocks == {p \in Family(BlockLines, 6) : WellFormed(p)}
  IN  Main(blocks \cup {<<one>> \o p : one \in SingleIfs, p \in {q \in blocks : Len(q) <= 4}})

\* An IF in the branch that is skipped, with its ELSE.
NestedElsePrograms ==
  Main({<<La("if", "FALSE"), L("if"), L("cmd"), L("else"), L("cmd"), L("endif"), L("endif")>>})

(***************************************************************************)
(* Loops.                                                                  *)
(***************************************************************************)
RepeatLines == {L("repeat"), L("until"), L("cmd"), L("if"), L("endif")}

WhileLines == RepeatLines \cup {L("while"), L("endwhile")}

NestPrograms ==
  Main({p \in Family(RepeatLines, 6) : WellFormed(p)} \cup {p \in Family(WhileLines, 5) : WellFormed(p)})

\* A loop in each branch of an IF.
Loop(op) == <<L(op), L("cmd"), L(Closer[op])>>
BranchPrograms ==
  Main({<<L("if")>> \o Loop(a) \o <<L("else")>> \o Loop(b) \o <<L("endif")>> : a, b \in {"while", "repeat"}})

\* The loops of examples/while.dcl.
NestedWhilePrograms ==
  Main({<<L("while"), L("cmd"), L("while"), L("cmd"), L("endwhile"), L("endwhile")>>})

\* Any use of the loop commands, well formed or not.
LoopLines == {L("while"), L("endwhile"), L("repeat"), L("until"), L("if"), L("endif"), La("while", "BAD"), La("until", "ERR")}
LoopPrograms == Main(Family(LoopLines, 3))

\* Well-formed blocks and loops.
NestedPrograms == BlockPrograms \cup NestPrograms \cup BranchPrograms

(***************************************************************************)
(* Subroutines.                                                            *)
(***************************************************************************)
CallLines == {L("cmd"), La("at", "file"), La("call", "sub"), La("gosub", "here"), L("exit")}
Bodies == {L("cmd"), L("exit"), La("gosub", "here"), La("at", "file")}
WithBody(family) ==
  {p \o <<Label("sub", L("subroutine")), line, L("endsubroutine"), L("exit"), Label("here", L("return"))>> :
     p \in family, line \in Bodies}
CallPrograms == MainAnd(WithBody(Family(CallLines, 2)), {<< >>, <<L("exit")>>, <<La("call", "sub")>>})

\* The example of call.hlp: a subroutine that runs another file and goes on.
FileInSubroutine ==
  MainAnd({<<La("call", "sub"), L("exit"), Label("sub", L("subroutine")), La("at", "file"), L("cmd"), L("endsubroutine")>>},
          {<<L("cmd")>>})

\* Lines that go on, up to the last one of a file, before and after those that call.
ContinuedLines ==
  {L("cmd"), GoesOn(L("cmd")), GoesOn(La("gosub", "here")), La("gosub", "here"), GoesOn(L("exit"))}
ContinuedPrograms ==
  Main({p \o <<L("exit"), Label("here", L("cmd"))>> \o end :
          p \in Family(ContinuedLines, 3), end \in {<<L("return")>>, <<GoesOn(L("return"))>>}})

(***************************************************************************)
(* Errors.                                                                 *)
(***************************************************************************)
ErrorLines ==
  {L("cmd"), IfThen(L("cmd")), La("if", "ERR"), La("at", "file"), La("call", "sub"),
   OnThen("WARNING", L("exit")), L("set_noon"), L("set_on"), L("unknown"), La("at", "other"),
   La("exit", "ERR"), La("return", "BAD")}
ErrorPrograms == MainAnd(WithSub(Family(ErrorLines, 2)), Family({L("cmd"), La("on", "BAD")}, 1))

(***************************************************************************)
(* Signals: a procedure that loops until CTRL/C, as in break.dcl.          *)
(***************************************************************************)
BreakPrograms ==
  Main({<<on, control>> \o loop :
          on \in {OnThen("CONTROL_Y", La("goto", "sub")), OnThen("CONTROL_Y", L("cmd")), L("cmd")},
          control \in {L("cmd"), La("set_nocontrol", "CONTROL_Y"), La("set_control", "BAD")},
          loop \in {<<Label("here", L("cmd")), La("goto", "here"), Label("sub", L("cmd"))>>,
                    <<IfThen(L("cmd")), Label("sub", L("cmd"))>>}})

\* Without jumps, a CTRL/C may come anywhere, also at lines that go on.
QuietPrograms ==
  Main({<<OnThen("CONTROL_Y", line), first, IfThen(IfThen(L("cmd"))), L("if"), <<W("then"), W("cmd")>>,
          <<W("else"), W("cmd")>>, L("endif"), last>> :
          line \in {L("cmd"), IfThen(L("cmd")), L("set_noon")},
          first, last \in {L("cmd"), GoesOn(IfThen(L("cmd")))}})

SignalPrograms == BreakPrograms \cup QuietPrograms

(***************************************************************************)
(* The session: any of the four procedures may be there.                   *)
(***************************************************************************)
SessionPrograms ==
  {[f \in present \cup {"main"} |-> IF f = "main" THEN main ELSE body] :
     present \in SUBSET SysFiles,
     body \in {<<L("cmd")>>, <<L("exit")>>},
     main \in {<< >>, <<L("logout")>>, <<L("cmd"), La("at", "other")>>, <<L("set_step"), L("cmd")>>}}
SessionArgs == {<< >>, La("at", "main"), L("cmd")}
SessionLines == {L("logout"), La("at", "main"), L("exit"), La("goto", "here"), L("label"), L("cancel")}

(***************************************************************************)
(* The STEP prompt.                                                        *)
(***************************************************************************)
StepPrograms ==
  MainAnd({<<L("set_step")>> \o p \o <<Label("here", L("cmd"))>> : p \in Family({L("cmd"), La("at", "file"), L("set_nostep"), La("io", "here")}, 2)},
          {<< >>, <<Label("here", L("cmd"))>>})
StepLines == {L("step"), L("resume"), La("io", "here")}

\* One REPEAT more than repeat_table has entries for.
RepeatOverflow == Main({[i \in 1..5 |-> L("repeat")]})

\* Every use of the levels, every misuse of the loops, and the STEP prompt; and well-formed blocks
\* and loops.
ProcedurePrograms == LevelPrograms \cup CallPrograms \cup LoopPrograms \cup RepeatOverflow \cup StepPrograms
                     \cup ContinuedPrograms \cup NestedWhilePrograms
AllPrograms == ProcedurePrograms \cup NestedPrograms

\* Errors and signals.
EventPrograms == ErrorPrograms \cup SignalPrograms
=============================================================================
