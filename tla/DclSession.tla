----------------------------- MODULE DclSession -----------------------------
(***************************************************************************)
(* The command interpreter of PC-DCL: main(), which walks through the      *)
(* login and logout procedures, reads lines from the keyboard or from the  *)
(* current procedure, and runs each through dcl_process_command_line with  *)
(* its ON and CTRL/Y commands and its STEP prompt.                         *)
(***************************************************************************)
EXTENDS DclLevels, DclConditions

InteractionCommandKeeps ==
  UNCHANGED <<dcl_state, C, D, dcl_subr, streams, loopVars, undefined>>

(***************************************************************************)
(* The commands that neither transfer control nor open a block.            *)
(***************************************************************************)

\* An empty line, and a verb that does its work and ends with some severity.
Empty ==
  /\ Executing("")
  /\ NEXT_LINE /\ Finish(0)
  /\ UNCHANGED dcl /\ InteractionCommandKeeps

OrdinaryStuck ==
  /\ Executing("cmd")
  /\ \/ Idle /\ UNCHANGED cmd /\ Finish(0)
     \/ ~Idle /\ NEXT_LINE /\ \E s \in Outcomes : Finish(s)
  /\ UNCHANGED dcl /\ InteractionCommandKeeps

Ordinary ==
  /\ Executing("cmd")
  /\ NEXT_LINE
  /\ \/ Idle /\ Finish(0)
     \/ ~Idle /\ \E s \in Outcomes : Finish(s)
  /\ UNCHANGED dcl /\ InteractionCommandKeeps

\* OPEN, READ, WRITE, CLOSE with /ERROR=label: failing is a nested GOTO.
FileCommand ==
  /\ Executing("io")
  /\ NEXT_LINE
  /\ \/ Finish(0)
     \/ ~Idle /\ FinishWith(<<Wa("goto", Arg)>>, 0)
  /\ UNCHANGED dcl /\ InteractionCommandKeeps

\* A verb that is not in the table is a host command or an error; it runs
\* whatever the condition codes are.
Unknown ==
  /\ Executing("unknown") \/ Executing("label")
  /\ NEXT_LINE
  /\ \E s \in {0, 2} : Finish(s)
  /\ UNCHANGED dcl /\ InteractionCommandKeeps

\* SET ON, SET NOON
SetOn(op, value) ==
  /\ Executing(op)
  /\ NEXT_LINE /\ Finish(0)
  /\ IF Idle THEN UNCHANGED dcl ELSE dcl' = [dcl EXCEPT ![D].ON = value]
  /\ InteractionCommandKeeps

SeverityOf(condition) ==
  CASE condition = "WARNING" -> 1 [] condition = "ERROR" -> 2 [] OTHER -> 3

\* ON condition THEN command, also in a block whose condition is false.
On ==
  /\ Executing("on")
  /\ NEXT_LINE
  /\ \/ Skipping /\ UNCHANGED dcl /\ Finish(0)
     \/ /\ ~Skipping /\ (Arg \notin Conditions \/ Rest = << >>)
        /\ UNCHANGED dcl /\ Finish(2)
     \/ /\ ~Skipping /\ Arg \in Conditions /\ Rest # << >>
        /\ Finish(0)
        /\ IF Arg = "CONTROL_Y" THEN dcl' = [dcl EXCEPT ![D].ON_break_command = Tail(Rest)]
           ELSE dcl' = [dcl EXCEPT ![D].ON_severity = SeverityOf(Arg),
                                   ![D].ON_error_command = Tail(Rest)]
  /\ InteractionCommandKeeps

\* SET STEP, SET NOSTEP, and the words of the STEP prompt.
SetStep(op, value) ==
  /\ Executing(op)
  /\ NEXT_LINE /\ Finish(0)
  /\ STEP' = IF Idle THEN STEP ELSE value
  /\ UNCHANGED <<dcl, STEP_loop>> /\ InteractionCommandKeeps

StepWord(op, value) ==
  /\ Executing(op)
  /\ Finish(0)
  /\ STEP_loop' = FALSE /\ STEP' = value
  /\ UNCHANGED <<cmd, dcl>> /\ InteractionCommandKeeps

Cancel ==
  /\ Executing("cancel")
  /\ ExitLevel(0) /\ Finish(IF Skipping THEN 0 ELSE Failure)
  /\ STEP_loop' = FALSE /\ STEP' = FALSE
  /\ UNCHANGED loopVars

\* SET CONTROL=Y, SET NOCONTROL=Y, where C is as good as Y.  A wrong letter
\* may come before or after a right one.
SetControl(op, value) ==
  /\ Executing(op)
  /\ \/ /\ ~Idle /\ Arg = "" /\ Undefined /\ UNCHANGED CONTROL_Y_ALLOWED
     \/ /\ Idle \/ Arg # ""
        /\ NEXT_LINE /\ Finish(IF Idle THEN 0 ELSE Failure)
        /\ CONTROL_Y_ALLOWED' \in IF Idle THEN {CONTROL_Y_ALLOWED}
                                  ELSE IF Arg = "BAD" THEN {CONTROL_Y_ALLOWED, value}
                                  ELSE {value}
        /\ UNCHANGED dcl /\ InteractionCommandKeeps

PlainCommand ==
  Empty \/ Ordinary \/ FileCommand \/ Unknown \/ On
  \/ SetOn("set_on", TRUE) \/ SetOn("set_noon", FALSE)

StepCommand ==
  SetStep("set_step", TRUE) \/ SetStep("set_nostep", FALSE)
  \/ StepWord("step", STEP) \/ StepWord("resume", FALSE) \/ Cancel

ControlCommand == SetControl("set_control", TRUE) \/ SetControl("set_nocontrol", FALSE)

\* dcl_command
Execute ==
  /\ InPhase("run")
  /\ \/ (LevelCommand \/ ConditionCommand \/ PlainCommand)
        /\ UNCHANGED <<stepVars, CONTROL_Y_ALLOWED>>
     \/ StepCommand /\ UNCHANGED CONTROL_Y_ALLOWED
     \/ ControlCommand /\ UNCHANGED stepVars
  /\ UNCHANGED <<fileVars, CTRL_Y, breaks, typed>>

(***************************************************************************)
(* After a command: the ON command of the level that is current by then,   *)
(* and the CTRL/Y command.                                                 *)
(***************************************************************************)
EndOfCommandKeeps ==
  UNCHANGED <<fileVars, dcl_state, levelVars, loopVars, stepVars, CONTROL_Y_ALLOWED,
              breaks, typed, undefined>>

\* A command run by IF, THEN or ELSE is looked after like one of the file.
Checked == Head(frames).exc # 1
OnFiresAbove == dcl[D].ON /\ Checked /\ SEVERITY > dcl[D].ON_severity
OnFires == dcl[D].ON /\ Checked /\ SEVERITY # 0 /\ SEVERITY >= dcl[D].ON_severity

OnError ==
  /\ InPhase("on")
  /\ IF OnFires
     THEN /\ Len(frames) < MaxNest
          /\ frames' = <<Call(dcl[D].ON_error_command, 1)>> \o At("break")
          /\ EXCPT' = 1 /\ SEVERITY' = 0
     ELSE /\ frames' = At("break")
          /\ EXCPT' = IF Head(frames).exc = 2 THEN 0 ELSE EXCPT
          /\ UNCHANGED SEVERITY
  /\ UNCHANGED CTRL_Y
  /\ EndOfCommandKeeps

OnBreakUncleared ==
  /\ InPhase("break")
  /\ IF CTRL_Y THEN frames' = <<Call(dcl[D].ON_break_command, 1)>> \o Tail(frames)
               ELSE frames' = Tail(frames)
  /\ EXCPT' = 1 /\ SEVERITY' = 0 /\ UNCHANGED CTRL_Y
  /\ EndOfCommandKeeps

OnBreak ==
  /\ InPhase("break")
  /\ IF CTRL_Y
     THEN /\ frames' = <<Call(dcl[D].ON_break_command, 1)>> \o Tail(frames)
          /\ EXCPT' = 1 /\ SEVERITY' = 0
          /\ CTRL_Y' = FALSE
     ELSE /\ frames' = Tail(frames)
          /\ UNCHANGED <<EXCPT, SEVERITY, CTRL_Y>>
  /\ EndOfCommandKeeps

(***************************************************************************)
(* main(): the next line, by dcl_state.                                    *)
(***************************************************************************)
MainLoop == ~undefined /\ frames = << >>
MainLoopKeeps == UNCHANGED <<fileVars, loopVars, breakVars>>

\* dcl_process_command_line(0) begins.
Process(line) == frames' = <<Call(line, 0)>> /\ SEVERITY' = 0 /\ EXCPT' = 0

Login(state, file, next) ==
  /\ MainLoop /\ dcl_state = state
  /\ dcl_state' = next
  /\ Process(<<Wa("at", file)>>)
  /\ UNCHANGED <<levelVars, stepVars, typed, undefined>> /\ MainLoopKeeps

LogoutFileUnstopped(state, file, stop) ==
  /\ MainLoop /\ dcl_state = state
  /\ dcl_state' = "RUN"
  /\ cmd' = [cmd EXCEPT ![C].stop = 0]
  /\ Process(<<Wa("at", file)>>)
  /\ UNCHANGED <<C, D, dcl, dcl_subr, streams, stepVars, typed, undefined>> /\ MainLoopKeeps

LogoutFile(state, file, stop) ==
  /\ MainLoop /\ dcl_state = state
  /\ dcl_state' = "RUN"
  /\ cmd' = [cmd EXCEPT ![C].stop = stop]
  /\ Process(<<Wa("at", file)>>)
  /\ UNCHANGED <<C, D, dcl, dcl_subr, streams, stepVars, typed, undefined>> /\ MainLoopKeeps

\* The command line of the program; the session ends after it.
Arguments ==
  /\ MainLoop /\ dcl_state = "ARG"
  /\ dcl_state' = "RUN"
  /\ cmd' = IF args = << >> THEN cmd ELSE [cmd EXCEPT ![C].stop = 1]
  /\ Process(args)
  /\ UNCHANGED <<C, D, dcl, dcl_subr, streams, stepVars, typed, undefined>> /\ MainLoopKeeps

Reading == MainLoop /\ dcl_state \in {"LOGIN", "LOGIN_HOME", "RUN"}

\* A line is typed at the prompt.
ReadKbd ==
  /\ Reading /\ C = 1 /\ cmd[C].stop = 0
  /\ typed < MaxTyped /\ typed' = typed + 1
  /\ \E line \in Keyboard : Process(line)
  /\ UNCHANGED <<dcl_state, levelVars, stepVars, undefined>> /\ MainLoopKeeps

\* The procedure that the command line named has ended.
Stopped ==
  /\ Reading /\ C = 1 /\ cmd[C].stop # 0
  /\ dcl_state' = "EXIT"
  /\ Process(<< >>)
  /\ UNCHANGED <<levelVars, stepVars, typed, undefined>> /\ MainLoopKeeps

AtEof == cmd[C].ln \notin DOMAIN Lines

\* The line waits at the STEP prompt, or is executed at once.
Stepped(line, ln) ==
  /\ frames' = <<[line |-> line, exc |-> 0, phase |-> IF STEP THEN "step" ELSE "run",
                  ln |-> IF STEP THEN ln ELSE 0]>>
  /\ SEVERITY' = 0 /\ EXCPT' = 0
  /\ STEP_loop' = STEP
  /\ UNCHANGED <<STEP, typed>>

\* The lines that go on are passed, and the one that follows them is what is read.
ReadLine ==
  /\ Reading /\ C > 1 /\ ~AtEof
  /\ \E ln \in cmd[C].ln..Len(Lines) + 1 :
       /\ \A n \in cmd[C].ln..ln - 1 : Continued(Lines[n])
       /\ ln \in DOMAIN Lines => ~Continued(Lines[ln])
       /\ cmd' = [cmd EXCEPT ![C].ln = ln]
       /\ \E line \in RunLines(Lines, ln) : Stepped(line, ln)
  /\ UNCHANGED <<dcl_state, C, D, dcl, dcl_subr, streams, undefined>> /\ MainLoopKeeps

\* The end of a file is an EXIT, and an empty line at the level it leads to.
ReadEof ==
  /\ Reading /\ C > 1 /\ AtEof
  /\ ExitLevel(1)
  /\ Stepped(<< >>, cmd'[C'].ln)
  /\ MainLoopKeeps

\* The STEP prompt: lines are typed and executed until a word ends the loop.
StepPrompt ==
  /\ InPhase("step") /\ STEP_loop
  /\ typed < MaxTyped /\ typed' = typed + 1
  /\ \E line \in Keyboard : frames' = <<Call(line, 1)>> \o frames
  /\ SEVERITY' = 0 /\ EXCPT' = 1
  /\ UNCHANGED <<dcl_state, levelVars, stepVars, undefined>> /\ MainLoopKeeps

StepDoneThere ==
  /\ InPhase("step") /\ ~STEP_loop
  /\ Process(Head(frames).line)
  /\ UNCHANGED <<dcl_state, levelVars, stepVars, typed, undefined>> /\ MainLoopKeeps

StepDone ==
  /\ InPhase("step") /\ ~STEP_loop
  /\ cmd' = [cmd EXCEPT ![C].ln = Head(frames).ln]
  /\ Process(Head(frames).line)
  /\ UNCHANGED <<dcl_state, C, D, dcl, dcl_subr, streams, stepVars, typed, undefined>>
  /\ MainLoopKeeps

\* dcl_end: every level is left and the streams of the levels are closed, one
\* that two levels share twice.  (Index 0, not modelled, is left too.)
End ==
  /\ MainLoop /\ dcl_state = "EXIT"
  /\ dcl_state' = "ENDED"
  /\ C' = 0 /\ D' = 0
  /\ cmd' = [l \in Levels |-> NoCmd] /\ dcl' = [l \in Levels |-> NoProc]
  /\ streams' = streams \ {dcl[l].SYS_OUTPUT : l \in 1..D}
  /\ undefined' = \E l \in 1..D :
                    LET out == dcl[l].SYS_OUTPUT
                    IN  out # 0 /\ (out \notin streams \/ \E m \in 1..l - 1 : dcl[m].SYS_OUTPUT = out)
  /\ UNCHANGED <<dcl_subr, callVars, stepVars, typed>> /\ MainLoopKeeps

(***************************************************************************)
(* catch_int: a signal may come between any two steps.                     *)
(***************************************************************************)
CtrlC ==
  /\ ~undefined /\ dcl_state # "ENDED"
  /\ breaks < MaxBreaks /\ breaks' = breaks + 1
  /\ CTRL_Y' = (CTRL_Y \/ CONTROL_Y_ALLOWED)
  /\ UNCHANGED <<fileVars, dcl_state, levelVars, callVars, loopVars, CONTROL_Y_ALLOWED,
                 stepVars, typed, undefined>>

(***************************************************************************)
(* dcl_init, and the specification.                                        *)
(***************************************************************************)
Init ==
  /\ text \in Programs /\ args \in ArgLines
  /\ dcl_state = "INIT"
  /\ C = 1 /\ cmd = [l \in Levels |-> NoCmd]
  /\ D = 1 /\ dcl = [l \in Levels |-> NoProc]
  /\ dcl_subr = 0 /\ streams = {}
  /\ EXCPT = 0 /\ SEVERITY = 0 /\ frames = << >>
  /\ while_table = [i \in 0..MaxWhile - 1 |-> 0] /\ while_idx = 0 /\ while_flag = 0
  /\ repeat_table = [i \in 0..MaxRepeat - 1 |-> 0] /\ repeat_idx = 0
  /\ CTRL_Y = FALSE /\ CONTROL_Y_ALLOWED = TRUE
  /\ STEP = FALSE /\ STEP_loop = FALSE
  /\ typed = 0 /\ breaks = 0
  /\ undefined = FALSE

NextCommandLine ==
  \/ Login("INIT", "SYS$DCL:login", "LOGIN")
  \/ Login("INIT_HOME", "SYS$LOGIN:login", "LOGIN_HOME")
  \/ Arguments
  \/ LogoutFile("LOGOUT_HOME", "SYS$LOGIN:logout", 2)
  \/ LogoutFile("LOGOUT", "SYS$DCL:logout", 3)
  \/ Stopped \/ ReadLine \/ ReadEof \/ StepDone \/ End

\* What the program does by itself, and what its user does to it.
Program == NextCommandLine \/ Execute \/ OnError \/ OnBreak
User == ReadKbd \/ StepPrompt \/ CtrlC

Next == Program \/ User
Spec == Init /\ [][Next]_vars

\* The interpreter keeps running; nobody has to type, nor to press CTRL/C.
FairSpec == Spec /\ WF_vars(Program)
=============================================================================
