------------------------------ MODULE DclState ------------------------------
(***************************************************************************)
(* The state the command interpreter of PC-DCL keeps while it executes     *)
(* command procedures, and the helpers its handlers share.                 *)
(*                                                                         *)
(* A command line is a sequence of words, the verb first: the rest of the  *)
(* line after THEN, ELSE or ON ... THEN is its tail, as in the code, which *)
(* copies the rest of dcl_line over dcl_line and processes it again.  A    *)
(* word keeps what decides the flow of control: the verb, the label, file  *)
(* or condition it names ("BAD" when cmd_parse_line rejects the line), and *)
(* whether /OUTPUT is present.  A line of a procedure that goes on in the  *)
(* next one ends in the word "-".                                          *)
(***************************************************************************)
EXTENDS Integers, Sequences

CONSTANTS
  Names,      \* labels and names of command procedures
  Programs,   \* the contents the procedure files may have
  ArgLines,   \* the command lines the program may be started with
  Keyboard,   \* the lines that may be typed at the prompt
  Outcomes,   \* the severities an ordinary command may end with
  MaxLevel,   \* last valid index of dcl[] and of cmd[]
  MaxCond,    \* deepest condition level, the last index of cc[]
  MaxWhile,   \* MAX_WHILE
  MaxRepeat   \* MAX_REPEAT

\* Bounds that the code does not have: they keep TLC's state space finite.
CONSTANTS
  MaxTyped,   \* lines typed in a session
  MaxBreaks,  \* CTRL/C signals in a session
  MaxGosub,   \* return addresses on one stack
  MaxNest,    \* nested calls of dcl_process_command_line
  MaxDrift    \* how far below zero while_idx may fall

Verbs ==
  { "cmd", "io", "unknown", "label", "goto", "gosub", "call", "return", "exit",
    "at", "subroutine", "endsubroutine", "if", "then", "else", "endif",
    "while", "endwhile", "repeat", "until", "on", "set_on", "set_noon",
    "set_control", "set_nocontrol", "logout", "set_step", "set_nostep",
    "step", "resume", "cancel", "-" }

Conditions == { "WARNING", "ERROR", "SEVERE_ERROR", "CONTROL_Y" }

\* An expression has either value, unless it is one of the first two constants;
\* the third one is in error and has a value all the same.
Values == { "TRUE", "FALSE", "ERR" }

Word == [op: Verbs, arg: Names \cup Conditions \cup Values \cup {"", "BAD"}, out: BOOLEAN]
Line == Seq(Word)

W(op) == [op |-> op, arg |-> "", out |-> FALSE]
Wa(op, arg) == [op |-> op, arg |-> arg, out |-> FALSE]

ASSUME BoundsAssumption ==
  /\ MaxLevel \in Nat /\ MaxLevel >= 2
  /\ {MaxCond, MaxWhile, MaxRepeat} \subseteq Nat \ {0}
  /\ {MaxTyped, MaxBreaks, MaxGosub, MaxNest, MaxDrift} \subseteq Nat

ASSUME InputsAssumption ==
  /\ \A t \in Programs : DOMAIN t \subseteq Names /\ \A f \in DOMAIN t : t[f] \in Seq(Line)
  /\ ArgLines \subseteq Line
  /\ Keyboard \subseteq Line
  /\ Outcomes \subseteq {0, 1, 2, 4}

ASSUME NamesAssumption ==
  {"SYS$DCL:login", "SYS$LOGIN:login", "SYS$LOGIN:logout", "SYS$DCL:logout"} \subseteq Names

\* Only the lines of procedures go on.  (The keyboard reads on by itself.)
ASSUME ContinuationAssumption ==
  /\ \A line \in ArgLines \cup Keyboard : \A i \in DOMAIN line : line[i].op # "-"
  /\ \A t \in Programs : \A f \in DOMAIN t : \A n \in DOMAIN t[f] :
       \A i \in DOMAIN t[f][n] : t[f][n][i].op = "-" => i = Len(t[f][n])

VARIABLES
  text,       \* the command procedures on disk: file name -> lines
  args,       \* the command line of the program, << >> when interactive
  dcl_state,
  C, cmd,     \* command levels: one per open procedure file
  D, dcl,     \* procedure levels: one per file or CALLed subroutine
  dcl_subr,   \* CALLed subroutines that have not ended
  streams,    \* output files that are open, named by the level that opened them
  EXCPT, SEVERITY,
  frames,     \* the nested calls of dcl_process_command_line, innermost first
  while_table, while_idx, while_flag, repeat_table, repeat_idx,
  CTRL_Y, CONTROL_Y_ALLOWED,
  STEP, STEP_loop,
  typed, breaks,
  undefined   \* the C program has no meaning any more: the model stops

fileVars  == <<text, args>>
levelVars == <<C, cmd, D, dcl, dcl_subr, streams>>
callVars  == <<EXCPT, SEVERITY, frames>>
loopVars  == <<while_table, while_idx, while_flag, repeat_table, repeat_idx>>
stepVars  == <<STEP, STEP_loop>>
breakVars == <<CTRL_Y, CONTROL_Y_ALLOWED, breaks>>
vars == <<fileVars, dcl_state, levelVars, callVars, loopVars, breakVars,
          stepVars, typed, undefined>>

(***************************************************************************)
(* Levels.  Index 0 of both arrays is only used at start-up and level 1 is *)
(* the keyboard; leaving a level clears its entry.                         *)
(***************************************************************************)
Levels == 1..MaxLevel

CmdLevel == [file: Names \cup {""}, ln: Int, stop: 0..3, subr: BOOLEAN, stack: Seq(Int)]
NoCmd == [file |-> "", ln |-> 0, stop |-> 0, subr |-> FALSE, stack |-> << >>]

\* SYS_OUTPUT is 0 for the terminal, else the level that opened the file.
ProcLevel == [cc: Seq(BOOLEAN), ON: BOOLEAN, ON_severity: 0..3,
              ON_error_command: Line, ON_break_command: Line, SYS_OUTPUT: 0..MaxLevel]
NoProc == [cc |-> << >>, ON |-> FALSE, ON_severity |-> 0,
           ON_error_command |-> << >>, ON_break_command |-> << >>, SYS_OUTPUT |-> 0]

States == {"INIT", "INIT_HOME", "LOGIN", "LOGIN_HOME", "ARG", "RUN",
           "LOGOUT_HOME", "LOGOUT", "EXIT", "ENDED"}

\* cc holds the condition codes above the base one, which is always 1.
Active == IF dcl[D].cc = << >> THEN TRUE ELSE Head(dcl[D].cc)

\* The skipping of a SUBROUTINE definition, and of a block whose condition is false.
Skipping == cmd[C].subr
Idle == Skipping \/ ~Active

(***************************************************************************)
(* dcl_process_command_line and its nested calls.  A call reads its line,  *)
(* first through the STEP prompt ("step"), runs the command ("run"), then  *)
(* the ON command ("on"), then the CTRL/Y command ("break").               *)
(***************************************************************************)
\* ln is the line number that the STEP prompt saves and restores.
Frame == [line: Line, exc: 0..2, phase: {"step", "run", "on", "break"}, ln: Int]
Call(line, exc) == [line |-> line, exc |-> exc, phase |-> "run", ln |-> 0]

\* The innermost call goes on to another phase.
At(phase) == <<[Head(frames) EXCEPT !.phase = phase]>> \o Tail(frames)
InPhase(phase) == ~undefined /\ frames # << >> /\ Head(frames).phase = phase

\* A label in front of a command is dropped, except at the keyboard.
Command ==
  LET line == Head(frames).line
  IN  IF C > 1 /\ line # << >> /\ Head(line).op = "label" THEN Tail(line) ELSE line

Verb == IF Command = << >> THEN "" ELSE Head(Command).op
Arg == Head(Command).arg
Rest == Tail(Command)
Truth == IF Arg \in {"TRUE", "FALSE"} THEN {Arg = "TRUE"} ELSE BOOLEAN

\* The severity that parsing the line and computing its expression leave.
Failure == IF Arg \in {"BAD", "ERR"} THEN 2 ELSE 0

\* The interpreter is about to execute a command whose verb is op.
Executing(op) == InPhase("run") /\ Verb = op

\* The handler returns with severity s,
Finish(s) ==
  /\ SEVERITY' = s
  /\ frames' = At("on")
  /\ UNCHANGED EXCPT

\* or processes another line as the last thing it does.
FinishWith(line, exc) ==
  /\ Len(frames) < MaxNest
  /\ SEVERITY' = 0
  /\ EXCPT' = exc
  /\ frames' = <<Call(line, exc)>> \o At("on")

NextLineAlways(lines) == [lines EXCEPT ![C].ln = @ + 1]

\* NEXT_LINE(), on a value of cmd; the line is numbered at the current level.
NextLine(lines) == IF EXCPT = 0 THEN [lines EXCEPT ![C].ln = @ + 1] ELSE lines
NEXT_LINE == cmd' = NextLine(cmd)

\* A line of a procedure that ends in "-".
Continued(line) == line # << >> /\ line[Len(line)].op = "-"
FirstPart(line) == SubSeq(line, 1, Len(line) - 1)

\* What runs with line number n: rcld copies the line that follows a continued one
\* over it, from its start, so that the first part is lost, but at the end of the file.
RunLines(p, n) ==
  IF n \in DOMAIN p THEN {p[n]}
  ELSE {FirstPart(p[i]) : i \in {i \in DOMAIN p : i = Len(p) /\ n = i + 1 /\ Continued(p[i])}}

\* The label table: the search stops at the first line that has the label.
Lines == IF cmd[C].file \in DOMAIN text THEN text[cmd[C].file] ELSE << >>
LinesOf(label) ==
  {i \in DOMAIN Lines : /\ Lines[i] # << >>
                        /\ Lines[i][1].op = "label" /\ Lines[i][1].arg = label}
LineOf(label) == CHOOSE i \in LinesOf(label) : \A j \in LinesOf(label) : i <= j
Found(label) == label # "BAD" /\ LinesOf(label) # {}
IsSubroutine(label) ==
  LET line == Lines[LineOf(label)] IN Len(line) > 1 /\ line[2].op = "subroutine"

\* The index of an array leaves its bounds, or an absent parameter is read.
Undefined ==
  /\ undefined' = TRUE
  /\ UNCHANGED <<dcl_state, levelVars, EXCPT, SEVERITY, frames, loopVars>>
=============================================================================
