--------------------------- MODULE DclProperties ---------------------------
(***************************************************************************)
(* What the command interpreter guarantees, and what its documentation     *)
(* says it guarantees.                                                     *)
(***************************************************************************)
EXTENDS DclSession, FiniteSets

Ended == dcl_state = "ENDED"
Lesser(a, b) == IF a < b THEN a ELSE b

\* Every variable has its type: the levels stay within dcl[] and cmd[],
\* and the condition codes within cc[].
TypeOK ==
  /\ text \in Programs /\ args \in ArgLines
  /\ dcl_state \in States
  /\ C \in 0..MaxLevel /\ cmd \in [Levels -> CmdLevel]
  /\ D \in 0..MaxLevel /\ dcl \in [Levels -> ProcLevel]
  /\ \A l \in Levels : Len(dcl[l].cc) <= MaxCond
  /\ dcl_subr \in Nat /\ streams \subseteq Levels
  /\ EXCPT \in 0..2 /\ SEVERITY \in 0..4 /\ frames \in Seq(Frame)
  /\ while_table \in [0..MaxWhile - 1 -> Int] /\ while_idx \in Int /\ while_flag \in 0..1
  /\ repeat_table \in [0..MaxRepeat - 1 -> Int] /\ repeat_idx \in Int
  /\ {CTRL_Y, CONTROL_Y_ALLOWED, STEP, STEP_loop, undefined} \subseteq BOOLEAN
  /\ typed \in Nat /\ breaks \in Nat

(***************************************************************************)
(* Levels.                                                                 *)
(***************************************************************************)

\* The two level stacks, kept by different handlers, agree: there is one
\* procedure level for each open file and one for each CALLed subroutine
\* that has not ended, so leaving a level never takes the terminal's.
LevelsAgree == ~Ended => C >= 1 /\ D = C + dcl_subr

\* A level that is not in use holds nothing of the procedure that used it
\* before: no condition, ON command, label, line or return address.
UnusedLevelsClear ==
  \A l \in Levels : (l > C => cmd[l] = NoCmd) /\ (l > D => dcl[l] = NoProc)

\* A procedure never touches the levels below the one it leaves or enters:
\* its callers find their lines, conditions and ON commands as they were.
OuterLevelsKept ==
  [][\/ Ended'
     \/ \A l \in Levels : /\ l < Lesser(C, C') => cmd'[l] = cmd[l]
                          /\ l < Lesser(D, D') => dcl'[l] = dcl[l]]_vars

\* The line main() runs in a procedure is the one its line number names, through
\* lines that go on, nested calls, ON commands and the STEP prompt.
RunsItsOwnLine ==
  InPhase("run") /\ Len(frames) = 1 /\ C > 1 /\ Head(frames).exc = 0
    /\ Head(frames).line # << >>
  => Head(frames).line \in RunLines(Lines, cmd[C].ln)

HasVerb(line, ops) == \E i \in DOMAIN line : line[i].op \in ops

LineBefore(l, n, ops) ==
  /\ cmd[l].file \in DOMAIN text
  /\ \E line \in RunLines(text[cmd[l].file], n - 1) : HasVerb(line, ops)

\* gosub.hlp:59, return.hlp:3: RETURN goes to the line after the GOSUB, and
\* ENDSUBROUTINE to the line after the CALL: so does every address kept.
ReturnsAfterCall ==
  \A l \in 2..C : \A i \in DOMAIN cmd[l].stack :
    LineBefore(l, cmd[l].stack[i], {"gosub", "call"})

\* Above the terminal, the files and then the CALLed subroutines.
Running == [i \in 1..D |-> IF i = 1 THEN "terminal" ELSE IF i <= C THEN "file" ELSE "subroutine"]
Promise == INSTANCE Activations WITH active <- Running

\* However "@" and CALL are mixed, what ends is the subroutine that began last and, when
\* none runs, the file that began last: no step ends two, or one below another of its kind.
ActivationsOrdered == Promise!Spec

\* call.hlp:132: a subroutine that has run another procedure file goes on, and ends at its
\* own ENDSUBROUTINE.
EndsItsCall == Executing("endsubroutine") /\ ~Skipping => dcl_subr # 0

(***************************************************************************)
(* Blocks and loops.                                                       *)
(***************************************************************************)

\* main() is about to read a line of a procedure.
AtLine == MainLoop /\ C > 1 /\ dcl_state \in {"LOGIN", "LOGIN_HOME", "RUN"}

\* A line that opens a block: the single-line IF does not.
OpensBlock(line) == line # << >> /\ (Head(line).op = "while" \/ (Head(line).op = "if" /\ Len(line) = 1))
ClosesBlock(line) == line # << >> /\ Head(line).op \in {"endif", "endwhile"}
LinesBefore(P(_)) == {i \in DOMAIN Lines : i < cmd[C].ln /\ P(Lines[i])}

\* Every line that opens a block has the line of its kind that closes it.
Closer == [if |-> "endif", repeat |-> "until", while |-> "endwhile"]
Opening(line) == OpensBlock(line) \/ line = <<W("repeat")>>
Closing(line) == ClosesBlock(line) \/ line = <<W("until")>>
BlocksOpen(p, k) == Cardinality({i \in 1..k : Opening(p[i])}) - Cardinality({i \in 1..k : Closing(p[i])})
Closes(p, i, j) ==
  /\ Closing(p[j]) /\ i < j /\ BlocksOpen(p, j) < BlocksOpen(p, i)
  /\ \A k \in i + 1..j - 1 : BlocksOpen(p, k) >= BlocksOpen(p, i)
WellNested(p) ==
  /\ \A j \in DOMAIN p : BlocksOpen(p, j) >= 0
  /\ \A i \in DOMAIN p : Opening(p[i]) =>
       \E j \in DOMAIN p : Closes(p, i, j) /\ Head(p[j]).op = Closer[Head(p[i]).op]

\* Line j is in the block that line i opens, or is the first of a block in it.
Within(p, i, j) == i < j /\ Opening(p[i]) /\ \A k \in i..j - 1 : BlocksOpen(p, k) >= BlocksOpen(p, i)

\* The commands, blocks and loops that the code counts well: the words of a block begin
\* their line; an IF that fits on its line is in no block, where a false condition
\* around it would push a code that no ENDIF pops; THEN and ELSE are an IF's.
BlockWords == {"cmd", "if", "then", "else", "endif", "while", "endwhile", "repeat", "until"}
BlockLine(p, i) ==
  /\ ~HasVerb(p[i], Verbs \ BlockWords)
  /\ Len(p[i]) > 1 =>
       /\ Head(p[i]).op \in {"if", "then", "else"} /\ p[i][Len(p[i])].op = "cmd"
       /\ \A k \in 2..Len(p[i]) : p[i][k].op \in {"if", "then", "cmd"}
       /\ HasVerb(p[i], {"if"}) => BlocksOpen(p, i) = 0
  /\ p[i] # << >> /\ Head(p[i]).op \in {"then", "else"} =>
       \E j \in DOMAIN p : /\ Head(p[j]).op = "if" /\ Within(p, j, i)
                           /\ BlocksOpen(p, i) = BlocksOpen(p, j)
WellFormed(p) == WellNested(p) /\ \A i \in DOMAIN p : BlockLine(p, i)

\* WHILE and ENDWHILE find the line to go back to when no WHILE is in another: one that
\* is false at once takes the entry of the loop around it.
WhilesApart(p) ==
  \A i, j \in DOMAIN p : HasVerb(p[i], {"while"}) /\ HasVerb(p[j], {"while"}) => ~Within(p, i, j)

\* main() runs a well-formed procedure, the only one of the session.
Structured == C = 2 /\ DOMAIN text = {cmd[C].file} /\ WellFormed(Lines)

BlockDepth ==
  Len(dcl[D].cc) = Cardinality(LinesBefore(OpensBlock)) - Cardinality(LinesBefore(ClosesBlock))

\* The REPEATs around the current line, outermost first.
OpenRepeats ==
  LET open(i) == /\ Lines[i] = <<W("repeat")>>
                 /\ \A j \in i..cmd[C].ln - 1 :
                      Cardinality({k \in i..j : HasVerb(Lines[k], {"repeat"})})
                        > Cardinality({k \in i..j : HasVerb(Lines[k], {"until"})})
  IN  {i \in 1..Lesser(cmd[C].ln - 1, Len(Lines)) : open(i)}
RepeatTable ==
  /\ repeat_idx = Cardinality(OpenRepeats)
  /\ {repeat_table[i] : i \in 1..repeat_idx} = {i + 1 : i \in OpenRepeats}

\* At every line of a well-formed procedure whose WHILEs are not nested, its condition codes are
\* those of the blocks around the line, whichever branches were taken, skipped or rejected, and
\* repeat_table holds, for each REPEAT around it, the line that follows: UNTIL loops back to its
\* own REPEAT.
BlocksKept ==
  AtLine /\ Structured /\ WhilesApart(Lines) => BlockDepth /\ (~AtEof /\ Active => RepeatTable)

Jumps == {"at", "goto", "gosub", "call", "return", "exit", "io", "while", "endwhile", "repeat", "until"}
Straight == \A i \in DOMAIN Lines : ~HasVerb(Lines[i], Jumps)

\* The words of the STEP prompt, which leave the line to it.
StepWords == {"step", "resume"}

\* The call that main() made, the outermost one.
Outer(calls) == calls[Len(calls)]

\* A line that main() ran in a procedure without jumps is passed exactly once, while the commands
\* it nests, their ON commands and their CTRL/Y commands run and after them: cmd[C].ln neither
\* stays at it nor passes another one that would run.  (The first part of a line that goes on
\* never runs; neither ON, CTRL/Y nor a subroutine runs a procedure file here.)
LineConsumedOnce ==
  /\ ~undefined /\ frames # << >> /\ C > 1 /\ Straight
  /\ Outer(frames).phase \in {"on", "break"} /\ Outer(frames).exc = 0
  /\ Outer(frames).line # << >> /\ ~HasVerb(Outer(frames).line, Jumps \cup StepWords)
  => Outer(frames).line \in RunLines(Lines, cmd[C].ln - 1)

\* if.hlp:6: the commands of a block run when its expression and those of
\* the blocks around it have selected it.
EnclosingTrue ==
  \A l \in Levels : LET cc == dcl[l].cc
                    IN  cc # << >> /\ Head(cc) => \A i \in DOMAIN cc : cc[i]

\* ENDWHILE goes back to the WHILE of its own loop, in a well-formed procedure whose
\* WHILEs are not nested, but may be in IFs and REPEATs and follow each other.
EndWhileLoopsToWhile ==
  [][InPhase("run") /\ Verb = "endwhile" /\ while_flag' = 1 /\ Structured /\ WhilesApart(Lines)
       => /\ cmd'[C].ln \in DOMAIN Lines /\ HasVerb(Lines[cmd'[C].ln], {"while"})
          /\ Closes(Lines, cmd'[C].ln, cmd[C].ln)]_vars

(***************************************************************************)
(* Errors, signals and the session.                                        *)
(***************************************************************************)
DefaultOn(level) == level.ON /\ level.ON_severity = 2 /\ level.ON_error_command = <<W("exit")>>

\* An error is never passed over: with the default ON, main() reads no line of
\* a procedure while the last command's error has not been acted upon, be it of
\* a command nested in IFs, of a missing file or of a subroutine.  (After a
\* CTRL/Y, ON does not look at the error of the command that CTRL/Y runs.)
ErrorAnswered == AtLine /\ breaks = 0 /\ DefaultOn(dcl[D]) => SEVERITY < 2

\* A CTRL/C that comes while a command runs is answered.
BreakServed == (CTRL_Y /\ frames # << >>) ~> ~CTRL_Y

\* Without backward jumps, a session that nobody has to type in ends, and
\* never by an index out of bounds, whatever fails and whenever CTRL/C comes.
Jumpless ==
  \A f \in DOMAIN text : \A i \in DOMAIN text[f] :
    ~HasVerb(text[f][i], {"goto", "while", "endwhile", "repeat", "until"})
Terminates == Jumpless ~> Ended

\* The procedures that the program runs by itself do not nest in another one
\* (as long as login and logout procedures run no other procedure).
SessionAtTerminal ==
  MainLoop /\ dcl_state \in {"INIT_HOME", "ARG", "LOGOUT_HOME"} => C = 1 /\ D = 1

\* LOGOUT at the prompt ends the session, whatever logout procedures exist
\* (the STEP prompt, which no session has to answer, is off).
LogoutEnds == (dcl_state = "LOGOUT" /\ C = 1 /\ ~STEP) ~> Ended
=============================================================================
