----------------------------- MODULE DclLevels -----------------------------
(***************************************************************************)
(* Transfers of control: procedure files (@, EXIT, end of file, LOGOUT),   *)
(* internal subroutines (CALL, SUBROUTINE, ENDSUBROUTINE), GOSUB, RETURN   *)
(* and GOTO, with the two level stacks they push and pop.                  *)
(***************************************************************************)
EXTENDS DclState

\* What the handlers of this module leave to the other parts of the state.
KeepLevels == UNCHANGED <<C, D, dcl, dcl_subr, streams, undefined>>
KeepCommands == UNCHANGED <<dcl_state, loopVars>>

\* The prologue of most handlers: a command in a skipped region is stepped over.
Skip == Idle /\ NEXT_LINE /\ Finish(0) /\ KeepLevels

\* An error found once NEXT_LINE has run, and one found before it.
Reject == NEXT_LINE /\ Finish(2) /\ KeepLevels
RejectInPlace == UNCHANGED cmd /\ Finish(2) /\ KeepLevels

(***************************************************************************)
(* Entering and leaving levels.                                            *)
(***************************************************************************)

\* A procedure level starts with its own output file when it names one that
\* can be opened, else it shares the stream of the level below.  Its CTRL/Y
\* command is what the entry holds.
EnterProcLevel(out) ==
  \E opened \in IF out THEN BOOLEAN ELSE {FALSE} :
    /\ D' = D + 1
    /\ streams' = IF opened THEN streams \cup {D + 1} ELSE streams
    /\ dcl' = [dcl EXCEPT ![D + 1] =
                 [cc |-> << >>, ON |-> TRUE, ON_severity |-> 2,
                  ON_error_command |-> <<W("exit")>>,
                  ON_break_command |-> dcl[D + 1].ON_break_command,
                  SYS_OUTPUT |-> IF opened THEN D + 1 ELSE IF out THEN 0 ELSE dcl[D].SYS_OUTPUT]]

ExitProcLevelUncleared ==
  /\ D' = D - 1
  /\ UNCHANGED <<dcl, streams, undefined>>

\* The stream is closed even when the level below still writes to it.
ExitProcLevel ==
  LET out == dcl[D].SYS_OUTPUT
  IN  /\ D' = D - 1
      /\ dcl' = [dcl EXCEPT ![D] = NoProc]
      /\ streams' = streams \ {out}
      /\ undefined' = (out # 0 /\ out \notin streams)

\* A command level starts at the first line; whether it is in a skipped
\* definition is what the entry holds.
EnterCmdLevel(file) ==
  /\ C' = C + 1
  /\ cmd' = [NextLine(cmd) EXCEPT ![C + 1] = [file |-> file, ln |-> 1, stop |-> 0,
                                             subr |-> cmd[C + 1].subr, stack |-> << >>]]

EnterFile(file, out) ==
  IF file \in DOMAIN text
  THEN IF D = MaxLevel THEN Undefined
       ELSE /\ EnterProcLevel(out)
            /\ EnterCmdLevel(file)
            /\ Finish(0)
            /\ UNCHANGED <<dcl_state, dcl_subr, undefined>>
  ELSE /\ NEXT_LINE
       /\ KeepLevels
       /\ \/ /\ dcl_state = "LOGIN" /\ dcl_state' = "INIT_HOME" /\ Finish(0)
          \/ /\ dcl_state = "LOGIN_HOME" /\ dcl_state' = "ARG" /\ Finish(0)
          \/ /\ dcl_state \notin {"LOGIN", "LOGIN_HOME"}
             /\ cmd[C].stop = 2
             /\ dcl_state' = "EXIT" /\ Finish(0)
          \/ /\ dcl_state \notin {"LOGIN", "LOGIN_HOME"}
             /\ cmd[C].stop # 2
             /\ UNCHANGED dcl_state /\ Finish(2)

\* The session state that follows the end of a file, from the stop code of
\* the level that ran it.
AfterFile(stop) ==
  CASE stop = 1 -> "LOGOUT_HOME"
    [] stop = 2 -> "LOGOUT"
    [] stop = 3 -> "EXIT"
    [] OTHER    -> CASE dcl_state = "LOGIN"      -> "INIT_HOME"
                     [] dcl_state = "LOGIN_HOME" -> "ARG"
                     [] OTHER                    -> dcl_state

\* lines is cmd as dcl_exit has changed it so far; at the end of a file the
\* line number of the level that is left current goes back by one.
ExitFile(lines, back) ==
  IF C > 1
  THEN /\ ExitProcLevel
       /\ C' = C - 1
       /\ cmd' = [lines EXCEPT ![C] = NoCmd, ![C - 1].ln = @ - back]
       /\ dcl_state' = AfterFile(cmd[C - 1].stop)
       /\ UNCHANGED dcl_subr
  ELSE /\ cmd' = [NextLine(lines) EXCEPT ![C].ln = @ - back]
       /\ KeepLevels
       /\ UNCHANGED dcl_state

\* The newest return address, of a CALL or of a GOSUB, if there is one.
Popped(lines) ==
  LET stack == lines[C].stack
  IN  IF stack = << >> THEN lines
      ELSE [lines EXCEPT ![C].ln = Head(stack), ![C].stack = Tail(stack)]

ExitSubroutine(lines, back) ==
  LET left == IF cmd[C].stack = << >> THEN NextLine(lines) ELSE Popped(lines)
  IN  /\ dcl_subr' = dcl_subr - 1
      /\ cmd' = [left EXCEPT ![C].ln = @ - back]
      /\ IF D > 1 THEN ExitProcLevel ELSE UNCHANGED <<D, dcl, streams, undefined>>
      /\ UNCHANGED <<C, dcl_state>>

ExitLevelOfFile(back) ==
  \/ Skipping /\ NEXT_LINE /\ KeepLevels /\ UNCHANGED dcl_state
  \/ ~Skipping /\ ExitFile(NextLine(cmd), back)

\* dcl_exit: it does not look at the condition codes.
ExitLevel(back) ==
  LET lines == NextLine(cmd)
  IN  \/ /\ Skipping
         /\ cmd' = [lines EXCEPT ![C].ln = @ - back]
         /\ KeepLevels /\ UNCHANGED dcl_state
      \/ ~Skipping /\ dcl_subr # 0 /\ ExitSubroutine(lines, back)
      \/ ~Skipping /\ dcl_subr = 0 /\ ExitFile(lines, back)

(***************************************************************************)
(* The handlers.                                                           *)
(***************************************************************************)
Goto ==
  /\ Executing("goto")
  /\ KeepCommands
  /\ \/ Skip
     \/ ~Idle /\ Arg = "BAD" /\ RejectInPlace
     \/ ~Idle /\ Arg # "BAD" /\ ~Found(Arg) /\ Reject
     \/ /\ ~Idle /\ Found(Arg)
        /\ cmd' = [cmd EXCEPT ![C].ln = LineOf(Arg)]
        /\ Finish(0) /\ KeepLevels

PushOwnLine == [cmd EXCEPT ![C].ln = LineOf(Arg), ![C].stack = <<cmd[C].ln>> \o @]

\* The return address is the line after the current one.
PushReturn == [cmd EXCEPT ![C].ln = LineOf(Arg), ![C].stack = <<cmd[C].ln + 1>> \o @]

Gosub ==
  /\ Executing("gosub")
  /\ KeepCommands
  /\ \/ Skip
     \/ ~Idle /\ (C <= 1 \/ Arg = "BAD") /\ RejectInPlace
     \/ ~Idle /\ C > 1 /\ Arg # "BAD" /\ ~Found(Arg) /\ Reject
     \/ /\ ~Idle /\ C > 1 /\ Found(Arg)
        /\ Len(cmd[C].stack) < MaxGosub
        /\ cmd' = PushReturn
        /\ Finish(0) /\ KeepLevels

BeginSubroutineUncounted(out) == dcl_subr' = dcl_subr /\ EnterProcLevel(out)
BeginSubroutine(out) == dcl_subr' = dcl_subr + 1 /\ EnterProcLevel(out)

CallSubroutine ==
  /\ Executing("call")
  /\ UNCHANGED loopVars
  /\ \/ Skip /\ UNCHANGED dcl_state
     \/ ~Idle /\ (C <= 1 \/ Arg = "BAD") /\ RejectInPlace /\ UNCHANGED dcl_state
     \/ /\ ~Idle /\ C > 1 /\ Arg # "BAD"
        /\ Found(Arg) => ~IsSubroutine(Arg)
        /\ Reject /\ UNCHANGED dcl_state
     \/ /\ ~Idle /\ C > 1 /\ Found(Arg) /\ IsSubroutine(Arg)
        /\ Len(cmd[C].stack) < MaxGosub
        /\ IF D = MaxLevel THEN Undefined
           ELSE /\ cmd' = PushReturn
                /\ BeginSubroutine(Head(Command).out)
                /\ Finish(0)
                /\ UNCHANGED <<C, dcl_state, undefined>>

ReturnOfCaller ==
  /\ Executing("return")
  /\ KeepCommands /\ KeepLevels
  /\ cmd' = IF C > 1 /\ cmd[C].stack = << >> THEN [NextLine(cmd) EXCEPT ![C - 1].stack = << >>]
            ELSE Popped(NextLine(cmd))
  /\ Finish(Failure)

\* RETURN takes the newest address, whoever pushed it.
Return ==
  /\ Executing("return")
  /\ KeepCommands /\ KeepLevels
  /\ cmd' = IF Idle THEN NextLine(cmd) ELSE Popped(NextLine(cmd))
  /\ Finish(IF Idle THEN 0 ELSE Failure)

\* Met in sequence, a SUBROUTINE opens a definition that is stepped over.
Subroutine ==
  /\ Executing("subroutine")
  /\ KeepCommands /\ KeepLevels
  /\ cmd' = IF dcl_subr = 0 THEN [NextLine(cmd) EXCEPT ![C].subr = TRUE] ELSE NextLine(cmd)
  /\ Finish(IF Skipping THEN 2 ELSE 0)

EndSubroutine ==
  /\ Executing("endsubroutine")
  /\ UNCHANGED loopVars
  /\ \/ dcl_subr # 0 /\ ExitSubroutine(cmd, 0) /\ Finish(0)
     \/ /\ dcl_subr = 0 /\ Skipping
        /\ cmd' = [NextLine(cmd) EXCEPT ![C].subr = FALSE]
        /\ Finish(0) /\ KeepLevels /\ UNCHANGED dcl_state
     \/ dcl_subr = 0 /\ ~Skipping /\ Reject /\ UNCHANGED dcl_state

Exit ==
  /\ Executing("exit")
  /\ ExitLevel(0) /\ Finish(IF Skipping THEN 0 ELSE Failure)
  /\ UNCHANGED loopVars

\* @file: no test of the condition codes nor of a skipped definition.
ProcedureFile ==
  /\ Executing("at")
  /\ UNCHANGED loopVars
  /\ IF Arg = "BAD" THEN RejectInPlace /\ UNCHANGED dcl_state
     ELSE EnterFile(Arg, Head(Command).out)

LogoutFromHome ==
  /\ Executing("logout")
  /\ cmd' = [NextLine(cmd) EXCEPT ![C].stop = 1]
  /\ dcl_state' = "LOGOUT_HOME"
  /\ Finish(0) /\ KeepLevels /\ UNCHANGED loopVars

Logout ==
  /\ Executing("logout")
  /\ cmd' = [NextLine(cmd) EXCEPT ![C].stop = 1]
  /\ dcl_state' = "LOGOUT"
  /\ Finish(0) /\ KeepLevels /\ UNCHANGED loopVars

LevelCommand ==
  \/ Goto \/ Gosub \/ CallSubroutine \/ Return \/ Subroutine \/ EndSubroutine
  \/ Exit \/ ProcedureFile \/ Logout
=============================================================================
