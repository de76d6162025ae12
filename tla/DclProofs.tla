----------------------------- MODULE DclProofs -----------------------------
(***************************************************************************)
(* Theorems about the levels of the command interpreter, for every         *)
(* procedure, keyboard input and array size: the counters of the two level *)
(* arrays agree, everything has its type, and the arrays hold what their   *)
(* procedures put there.                                                   *)
(***************************************************************************)
EXTENDS DclProperties, SequenceTheorems, WellFoundedInduction, TLAPS

(***************************************************************************)
(* The two level stacks agree.                                             *)
(***************************************************************************)

\* LevelsAgree, with what an induction needs: the counters are numbers, and
\* nothing runs once the session has ended.
LevelsInv ==
  /\ C \in Nat /\ D \in Nat /\ dcl_subr \in Nat
  /\ dcl_state = "ENDED" => frames = << >>
  /\ dcl_state # "ENDED" => C >= 1 /\ D = C + dcl_subr

\* What a step may do to the levels: nothing, begin or end a file, begin or end
\* a subroutine.
SameLevels == UNCHANGED <<C, D, dcl_subr>>
LevelStep ==
  /\ dcl_state' # "ENDED"
  /\ \/ SameLevels
     \/ C' = C + 1 /\ D' = D + 1 /\ dcl_subr' = dcl_subr
     \/ C > 1 /\ dcl_subr = 0 /\ C' = C - 1 /\ D' = D - 1 /\ dcl_subr' = dcl_subr
     \/ C' = C /\ D' = D + 1 /\ dcl_subr' = dcl_subr + 1
     \/ dcl_subr # 0 /\ C' = C /\ dcl_subr' = dcl_subr - 1 /\ D' = (IF D > 1 THEN D - 1 ELSE D)

LEMMA LevelStepKeeps == LevelsInv /\ dcl_state # "ENDED" /\ LevelStep => LevelsInv'
BY DEF LevelsInv, LevelStep, SameLevels

LEMMA ExitLevelSteps ==
  ASSUME NEW back, LevelsInv, dcl_state # "ENDED", ExitLevel(back)
  PROVE  LevelStep
<1>1. CASE KeepLevels /\ UNCHANGED dcl_state
  BY <1>1 DEF LevelStep, SameLevels, KeepLevels
<1>2. CASE dcl_subr # 0 /\ ExitSubroutine(NextLine(cmd), back)
  BY <1>2 DEF LevelStep, ExitSubroutine, ExitProcLevel, LevelsInv
<1>3. CASE dcl_subr = 0 /\ ExitFile(NextLine(cmd), back)
  <2>1. CASE C > 1
    BY <1>3, <2>1 DEF LevelStep, ExitFile, ExitProcLevel, AfterFile, LevelsInv
  <2>2. CASE ~(C > 1)
    BY <1>3, <2>2 DEF LevelStep, SameLevels, ExitFile, KeepLevels, LevelsInv
  <2> QED BY <2>1, <2>2
<1> QED BY <1>1, <1>2, <1>3 DEF ExitLevel

LEMMA LevelCommandSteps ==
  ASSUME LevelsInv, dcl_state # "ENDED", LevelCommand
  PROVE  LevelStep
<1>1. CASE Goto
  BY <1>1 DEF Goto, KeepCommands, Skip, Reject, RejectInPlace, KeepLevels, LevelStep, SameLevels
<1>2. CASE Gosub
  BY <1>2 DEF Gosub, KeepCommands, Skip, Reject, RejectInPlace, KeepLevels, LevelStep, SameLevels
<1>3. CASE CallSubroutine
  <2>1. CASE (Skip \/ Reject \/ RejectInPlace) /\ UNCHANGED dcl_state
    BY <2>1 DEF Skip, Reject, RejectInPlace, KeepLevels, LevelStep, SameLevels
  <2>2. CASE Undefined
    BY <2>2 DEF Undefined, levelVars, LevelStep, SameLevels
  <2>3. CASE BeginSubroutine(Head(Command).out) /\ UNCHANGED <<C, dcl_state, undefined>>
    BY <2>3 DEF BeginSubroutine, EnterProcLevel, LevelStep
  <2> QED BY <1>3, <2>1, <2>2, <2>3 DEF CallSubroutine
<1>4. CASE Return
  BY <1>4 DEF Return, KeepCommands, KeepLevels, LevelStep, SameLevels
<1>5. CASE Subroutine
  BY <1>5 DEF Subroutine, KeepCommands, KeepLevels, LevelStep, SameLevels
<1>6. CASE EndSubroutine
  <2>1. CASE dcl_subr # 0 /\ ExitSubroutine(cmd, 0)
    BY <2>1 DEF LevelStep, ExitSubroutine, ExitProcLevel, LevelsInv
  <2>2. CASE KeepLevels /\ UNCHANGED dcl_state
    BY <2>2 DEF KeepLevels, LevelStep, SameLevels
  <2> QED BY <1>6, <2>1, <2>2 DEF EndSubroutine, Reject
<1>7. CASE Exit
  BY <1>7, ExitLevelSteps DEF Exit
<1>8. CASE ProcedureFile
  <2>1. CASE RejectInPlace /\ UNCHANGED dcl_state
    BY <2>1 DEF RejectInPlace, KeepLevels, LevelStep, SameLevels
  <2>2. CASE EnterFile(Arg, Head(Command).out)
    <3>1. CASE Undefined
      BY <3>1 DEF Undefined, levelVars, LevelStep, SameLevels
    <3>2. CASE /\ EnterProcLevel(Head(Command).out) /\ EnterCmdLevel(Arg)
               /\ UNCHANGED <<dcl_state, dcl_subr, undefined>>
      BY <3>2 DEF EnterProcLevel, EnterCmdLevel, LevelStep
    <3>3. CASE KeepLevels /\ dcl_state' \in {dcl_state, "INIT_HOME", "ARG", "EXIT"}
      BY <3>3 DEF KeepLevels, LevelStep, SameLevels
    <3> QED BY <2>2, <3>1, <3>2, <3>3 DEF EnterFile
  <2> QED BY <1>8, <2>1, <2>2 DEF ProcedureFile
<1>9. CASE Logout
  BY <1>9 DEF Logout, KeepLevels, LevelStep, SameLevels
<1> QED BY <1>1, <1>2, <1>3, <1>4, <1>5, <1>6, <1>7, <1>8, <1>9 DEF LevelCommand

LEMMA ConditionCommandSteps ==
  ASSUME dcl_state # "ENDED", ConditionCommand
  PROVE  LevelStep
<1>1. CASE If \/ Then \/ Else \/ EndIf
  BY <1>1 DEF If, Then, Else, EndIf, KeepBlocks, LevelStep, SameLevels
<1>2. CASE While \/ EndWhile \/ Repeat \/ Until
  BY <1>2 DEF While, EndWhile, Repeat, Until, KeepBlocks, LevelStep, SameLevels
<1>3. CASE LoopOutOfBounds
  BY <1>3 DEF LoopOutOfBounds, Undefined, levelVars, LevelStep, SameLevels
<1> QED BY <1>1, <1>2, <1>3 DEF ConditionCommand

LEMMA ExecuteSteps ==
  ASSUME LevelsInv, dcl_state # "ENDED", Execute
  PROVE  LevelStep
<1>1. CASE LevelCommand
  BY <1>1, LevelCommandSteps
<1>2. CASE ConditionCommand
  BY <1>2, ConditionCommandSteps
<1>3. CASE PlainCommand
  BY <1>3 DEF PlainCommand, Empty, Ordinary, FileCommand, Unknown, On, SetOn,
              InteractionCommandKeeps, LevelStep, SameLevels
<1>4. CASE StepCommand
  <2>1. CASE Cancel
    BY <2>1, ExitLevelSteps DEF Cancel
  <2>2. CASE ~Cancel
    BY <1>4, <2>2 DEF StepCommand, SetStep, StepWord, InteractionCommandKeeps, LevelStep, SameLevels
  <2> QED BY <2>1, <2>2
<1>5. CASE ControlCommand
  BY <1>5 DEF ControlCommand, SetControl, InteractionCommandKeeps, Undefined, levelVars,
              LevelStep, SameLevels
<1> QED BY <1>1, <1>2, <1>3, <1>4, <1>5 DEF Execute

LEMMA NextCommandLineSteps ==
  ASSUME LevelsInv, dcl_state # "ENDED", NextCommandLine, ~End
  PROVE  LevelStep
<1>1. CASE \/ Login("INIT", "SYS$DCL:login", "LOGIN") \/ Login("INIT_HOME", "SYS$LOGIN:login", "LOGIN_HOME")
  BY <1>1 DEF Login, levelVars, LevelStep, SameLevels
<1>2. CASE LogoutFile("LOGOUT_HOME", "SYS$LOGIN:logout", 2) \/ LogoutFile("LOGOUT", "SYS$DCL:logout", 3)
  BY <1>2 DEF LogoutFile, LevelStep, SameLevels
<1>3. CASE Arguments \/ Stopped \/ ReadLine \/ StepDone
  BY <1>3 DEF Arguments, Stopped, ReadLine, StepDone, levelVars, LevelStep, SameLevels
<1>4. CASE ReadEof
  BY <1>4, ExitLevelSteps DEF ReadEof
<1> QED BY <1>1, <1>2, <1>3, <1>4 DEF NextCommandLine

\* Of every step but the end of the session.
LEMMA NextSteps ==
  ASSUME LevelsInv, dcl_state # "ENDED", Next, ~End
  PROVE  LevelStep
<1>1. CASE NextCommandLine
  BY <1>1, NextCommandLineSteps
<1>2. CASE Execute
  BY <1>2, ExecuteSteps
<1>3. CASE OnError \/ OnBreak
  BY <1>3 DEF OnError, OnBreak, EndOfCommandKeeps, levelVars, LevelStep, SameLevels
<1>4. CASE User
  BY <1>4 DEF User, ReadKbd, StepPrompt, CtrlC, levelVars, LevelStep, SameLevels
<1> QED BY <1>1, <1>2, <1>3, <1>4 DEF Next, Program

\* A session that has ended does nothing more.
LEMMA EndedStays ==
  ASSUME LevelsInv, [Next]_vars, dcl_state = "ENDED"
  PROVE  UNCHANGED vars
<1>1. frames = << >>
  BY DEF LevelsInv
<1> QED BY <1>1 DEF Next, Program, User, NextCommandLine, Login, Arguments, LogoutFile, Stopped, ReadLine,
                    ReadEof, StepDone, End, Execute, OnError, OnBreak, ReadKbd, StepPrompt, CtrlC, Reading, InPhase

LEMMA NextKeepsLevels ==
  ASSUME LevelsInv, [Next]_vars
  PROVE  LevelsInv'
<1>1. CASE UNCHANGED vars
  BY <1>1 DEF vars, levelVars, callVars, LevelsInv
<1>2. CASE End
  BY <1>2 DEF End, MainLoop, callVars, LevelsInv
<1>3. CASE dcl_state # "ENDED" /\ Next /\ ~End
  BY <1>3, NextSteps, LevelStepKeeps
<1> QED BY <1>1, <1>2, <1>3, EndedStays

\* There is one procedure level for each open file and for each CALLed
\* subroutine, whatever procedures run and however they end.
THEOREM LevelsAlwaysAgree == Spec => []LevelsAgree
<1>1. Init => LevelsInv
  BY DEF Init, LevelsInv
<1>2. LevelsInv /\ [Next]_vars => LevelsInv'
  BY NextKeepsLevels
<1>3. LevelsInv => LevelsAgree
  BY DEF LevelsInv, LevelsAgree, Ended
<1> QED BY <1>1, <1>2, <1>3, PTL DEF Spec

-----------------------------------------------------------------------------
(***************************************************************************)
(* Type correctness: the level arrays and the condition codes never leave  *)
(* their bounds, and every stack holds what it should.                     *)
(***************************************************************************)

(***************************************************************************)
(* The parts of TypeOK, and the facts every step starts from.              *)
(***************************************************************************)
CallsOK == EXCPT \in 0..2 /\ SEVERITY \in 0..4 /\ frames \in Seq(Frame)
CmdOK == cmd \in [Levels -> CmdLevel]
DclOK == dcl \in [Levels -> ProcLevel] /\ \A l \in Levels : Len(dcl[l].cc) <= MaxCond
LevelsOK == C \in 0..MaxLevel /\ D \in 0..MaxLevel /\ dcl_subr \in Nat /\ streams \subseteq Levels
LoopsOK ==
  /\ while_table \in [0..MaxWhile - 1 -> Int] /\ while_idx \in Int /\ while_flag \in 0..1
  /\ repeat_table \in [0..MaxRepeat - 1 -> Int] /\ repeat_idx \in Int
RestOK ==
  /\ text \in Programs /\ args \in ArgLines
  /\ CTRL_Y \in BOOLEAN /\ CONTROL_Y_ALLOWED \in BOOLEAN
  /\ STEP \in BOOLEAN /\ STEP_loop \in BOOLEAN
  /\ typed \in Nat /\ breaks \in Nat
StateOK == dcl_state \in States /\ undefined \in BOOLEAN

Typed == CallsOK /\ CmdOK /\ DclOK /\ LevelsOK /\ LoopsOK /\ RestOK /\ StateOK

LEMMA TypedIsTypeOK == Typed <=> TypeOK
BY DEF Typed, CallsOK, CmdOK, DclOK, LevelsOK, LoopsOK, RestOK, StateOK, TypeOK

\* In a session that has not ended both current levels are in use.
Live == Typed /\ LevelsInv /\ dcl_state # "ENDED"

LEMMA CurrentLevels == Live => C \in Levels /\ D \in Levels /\ C <= D /\ D = C + dcl_subr
BY BoundsAssumption DEF Live, Typed, LevelsOK, LevelsInv, Levels

(***************************************************************************)
(* Frames.                                                                 *)
(***************************************************************************)
LEMMA Words ==
  /\ \A op \in Verbs : W(op) \in Word
  /\ \A op \in Verbs, arg \in Names \cup Conditions \cup Values \cup {"", "BAD"} : Wa(op, arg) \in Word
BY DEF W, Wa, Word

LEMMA CommandType ==
  ASSUME CallsOK, frames # << >>
  PROVE  /\ Head(frames) \in Frame /\ Tail(frames) \in Seq(Frame)
         /\ Command \in Line
         /\ Command # << >> => Rest \in Line /\ Head(Command) \in Word
<1>1. Head(frames) \in Frame /\ Tail(frames) \in Seq(Frame)
  BY DEF CallsOK
<1>2. Head(frames).line \in Line
  BY <1>1 DEF Frame
<1>3. Command \in Line
  BY <1>2 DEF Command, Line
<1> QED BY <1>1, <1>3 DEF Line, Rest

LEMMA FinishType ==
  ASSUME CallsOK, frames # << >>, NEW s \in 0..4, Finish(s)
  PROVE  CallsOK'
<1>1. At("on") \in Seq(Frame)
  <2>1. [Head(frames) EXCEPT !.phase = "on"] \in Frame
    BY CommandType DEF Frame
  <2> QED BY <2>1, CommandType DEF At
<1> QED BY <1>1 DEF CallsOK, Finish

LEMMA FinishWithType ==
  ASSUME CallsOK, frames # << >>, NEW line \in Line, NEW exc \in 0..2, FinishWith(line, exc)
  PROVE  CallsOK'
<1>1. At("on") \in Seq(Frame)
  <2>1. [Head(frames) EXCEPT !.phase = "on"] \in Frame
    BY CommandType DEF Frame
  <2> QED BY <2>1, CommandType DEF At
<1>2. Call(line, exc) \in Frame
  BY DEF Call, Frame
<1> QED BY <1>1, <1>2 DEF CallsOK, FinishWith

(***************************************************************************)
(* Lines and levels.                                                       *)
(***************************************************************************)

\* The fields of a command level, and what may be stored in them.
LEMMA CmdFields ==
  ASSUME NEW lines \in [Levels -> CmdLevel], NEW l \in Levels
  PROVE  /\ lines[l].ln \in Int /\ lines[l].stack \in Seq(Int)
         /\ \A level \in CmdLevel : [lines EXCEPT ![l] = level] \in [Levels -> CmdLevel]
         /\ \A n \in Int : [lines EXCEPT ![l].ln = n] \in [Levels -> CmdLevel]
         /\ \A n \in 0..3 : [lines EXCEPT ![l].stop = n] \in [Levels -> CmdLevel]
         /\ \A b \in BOOLEAN : [lines EXCEPT ![l].subr = b] \in [Levels -> CmdLevel]
         /\ \A s \in Seq(Int) : [lines EXCEPT ![l].stack = s] \in [Levels -> CmdLevel]
<1>1. lines[l] \in CmdLevel
  OBVIOUS
<1>2. \A level \in CmdLevel : [lines EXCEPT ![l] = level] \in [Levels -> CmdLevel]
  OBVIOUS
<1>3. /\ \A n \in Int : [lines[l] EXCEPT !.ln = n] \in CmdLevel
      /\ \A n \in 0..3 : [lines[l] EXCEPT !.stop = n] \in CmdLevel
      /\ \A b \in BOOLEAN : [lines[l] EXCEPT !.subr = b] \in CmdLevel
      /\ \A s \in Seq(Int) : [lines[l] EXCEPT !.stack = s] \in CmdLevel
  BY <1>1 DEF CmdLevel
<1>4. lines[l].ln \in Int /\ lines[l].stack \in Seq(Int)
  BY <1>1 DEF CmdLevel
<1> QED BY <1>2, <1>3, <1>4

\* A line number that moves is still one.
LEMMA MovedLine ==
  ASSUME NEW lines \in [Levels -> CmdLevel], NEW l \in Levels, NEW n \in 0..1
  PROVE  /\ [lines EXCEPT ![l].ln = lines[l].ln + n] \in [Levels -> CmdLevel]
         /\ [lines EXCEPT ![l].ln = lines[l].ln - n] \in [Levels -> CmdLevel]
<1>1. lines[l].ln \in Int
  BY CmdFields
<1>2. \A k \in Int : [lines EXCEPT ![l].ln = k] \in [Levels -> CmdLevel]
  BY CmdFields
<1>3. lines[l].ln + n \in Int /\ lines[l].ln - n \in Int
  BY <1>1
<1> QED BY <1>2, <1>3

\* NEXT_LINE changes the line number of the current level, to a number.
LEMMA NextLineType ==
  ASSUME Live, NEW lines \in [Levels -> CmdLevel]
  PROVE  NextLine(lines) \in [Levels -> CmdLevel]
<1>1. C \in Levels
  BY CurrentLevels
<1>2. 1 \in 0..1
  OBVIOUS
<1>3. [lines EXCEPT ![C].ln = lines[C].ln + 1] \in [Levels -> CmdLevel]
  BY <1>1, <1>2, MovedLine
<1> QED BY <1>3 DEF NextLine

\* So do RETURN and the other users of the stack of return addresses.
LEMMA PoppedType ==
  ASSUME Live, NEW lines \in [Levels -> CmdLevel]
  PROVE  Popped(lines) \in [Levels -> CmdLevel]
<1>1. CASE lines[C].stack # << >>
  <2> DEFINE top == Head(lines[C].stack)
  <2> DEFINE moved == [lines EXCEPT ![C].ln = top]
  <2>1. lines[C].stack \in Seq(Int)
    BY CurrentLevels, CmdFields
  <2>2. top \in Int /\ Tail(lines[C].stack) \in Seq(Int)
    BY <1>1, <2>1
  <2> HIDE DEF top
  <2>3. moved \in [Levels -> CmdLevel]
    BY <2>2, CurrentLevels, CmdFields
  <2>4. Popped(lines) = [moved EXCEPT ![C].stack = Tail(lines[C].stack)]
    BY <1>1, CurrentLevels DEF Popped, top
  <2> HIDE DEF moved
  <2>5. [moved EXCEPT ![C].stack = Tail(lines[C].stack)] \in [Levels -> CmdLevel]
    BY <2>2, <2>3, CurrentLevels, CmdFields
  <2> QED BY <2>4, <2>5
<1>2. CASE lines[C].stack = << >>
  BY <1>2 DEF Popped
<1> QED BY <1>1, <1>2

\* A set of numbers has a least one.
LEMMA LeastNumber ==
  ASSUME NEW T, T \subseteq Nat, T # {}
  PROVE  \E m \in T : \A n \in T : m <= n
<1> DEFINE R == OpToRel(<, Nat)
<1>1. IsWellFoundedOn(R, Nat)
  BY NatLessThanWellFounded
<1>2. \E m \in T : \A n \in T : <<n, m>> \notin R
  BY <1>1, WFMin
<1>3. \A m, n \in Nat : <<n, m>> \in R <=> n < m
  BY DEF OpToRel
<1> HIDE DEF R
<1>4. \E m \in T : \A n \in T : ~(n < m)
  BY <1>2, <1>3
<1> QED BY <1>4

\* So a label that is found is at a line of the file.
LEMMA FoundType ==
  ASSUME Live, NEW label, Found(label)
  PROVE  LineOf(label) \in Nat
<1>1. Lines \in Seq(Line)
  BY InputsAssumption DEF Live, Typed, RestOK, Lines
<1>2. LinesOf(label) \subseteq Nat /\ LinesOf(label) # {}
  BY <1>1 DEF Found, LinesOf
<1>3. \E i \in LinesOf(label) : \A j \in LinesOf(label) : i <= j
  BY <1>2, LeastNumber
<1> QED BY <1>2, <1>3 DEF LineOf

(***************************************************************************)
(* What a transfer of control may change.                                  *)
(***************************************************************************)
Shape == CmdOK /\ DclOK /\ LevelsOK /\ StateOK

\* Every level is well formed, and stays so when a level is replaced.
LEMMA NoLevels == NoCmd \in CmdLevel /\ NoProc \in ProcLevel
BY BoundsAssumption DEF NoCmd, NoProc, CmdLevel, ProcLevel, Line

LEMMA ProcReplaced ==
  ASSUME DclOK, NEW l \in Levels, NEW level \in ProcLevel, Len(level.cc) <= MaxCond,
         dcl' = [dcl EXCEPT ![l] = level]
  PROVE  DclOK'
BY DEF DclOK

LEMMA EnterProcLevelType ==
  ASSUME Live, D < MaxLevel, NEW out \in BOOLEAN, EnterProcLevel(out)
  PROVE  DclOK' /\ streams' \subseteq Levels /\ D' \in Levels
<1>1. D \in Levels /\ D + 1 \in Levels
  BY CurrentLevels, BoundsAssumption DEF Levels
<1>2. PICK opened \in BOOLEAN :
        /\ streams' = IF opened THEN streams \cup {D + 1} ELSE streams
        /\ dcl' = [dcl EXCEPT ![D + 1] =
                     [cc |-> << >>, ON |-> TRUE, ON_severity |-> 2,
                      ON_error_command |-> <<W("exit")>>,
                      ON_break_command |-> dcl[D + 1].ON_break_command,
                      SYS_OUTPUT |-> IF opened THEN D + 1 ELSE IF out THEN 0 ELSE dcl[D].SYS_OUTPUT]]
  BY DEF EnterProcLevel
<1> DEFINE output == IF opened THEN D + 1 ELSE IF out THEN 0 ELSE dcl[D].SYS_OUTPUT
<1> DEFINE new == [cc |-> << >>, ON |-> TRUE, ON_severity |-> 2,
                   ON_error_command |-> <<W("exit")>>,
                   ON_break_command |-> dcl[D + 1].ON_break_command, SYS_OUTPUT |-> output]
<1>3. dcl[D].SYS_OUTPUT \in 0..MaxLevel /\ dcl[D + 1].ON_break_command \in Line
  BY <1>1 DEF Live, Typed, DclOK, ProcLevel
<1>4. output \in 0..MaxLevel
  BY <1>1, <1>3, BoundsAssumption DEF Levels
<1>5. <<W("exit")>> \in Line
  BY DEF W, Line, Word, Verbs
<1>6. new \in ProcLevel /\ new.cc = << >>
  <2>1. << >> \in Seq(BOOLEAN)
    OBVIOUS
  <2> HIDE DEF output
  <2> QED BY <1>3, <1>4, <1>5, <2>1 DEF ProcLevel
<1>7. dcl' = [dcl EXCEPT ![D + 1] = new]
  BY <1>2
<1>8. DclOK'
  <2> HIDE DEF new
  <2>1. Len(new.cc) <= MaxCond
    BY <1>6, BoundsAssumption
  <2> QED BY <1>1, <1>6, <1>7, <2>1, ProcReplaced DEF Live, Typed
<1> QED BY <1>1, <1>2, <1>8 DEF Live, Typed, LevelsOK, EnterProcLevel

LEMMA ExitProcLevelType ==
  ASSUME Live, ExitProcLevel
  PROVE  DclOK' /\ streams' \subseteq Levels /\ D' = D - 1 /\ undefined' \in BOOLEAN
<1>1. dcl' = [dcl EXCEPT ![D] = NoProc] /\ Len(NoProc.cc) <= MaxCond
  BY BoundsAssumption DEF ExitProcLevel, NoProc
<1>2. DclOK'
  BY <1>1, NoLevels, CurrentLevels, ProcReplaced DEF Live, Typed
<1> QED BY <1>2 DEF ExitProcLevel, Live, Typed, LevelsOK

LEMMA AfterFileType ==
  ASSUME Live, NEW stop \in 0..3
  PROVE  AfterFile(stop) \in States
BY DEF AfterFile, States, Live, Typed, StateOK

\* The handlers that end a file or a subroutine.
LEMMA KeepLevelsType ==
  ASSUME Live, KeepLevels, CmdOK', dcl_state' \in States
  PROVE  Shape'
BY DEF KeepLevels, Shape, Live, Typed, DclOK, LevelsOK, StateOK

LEMMA ExitFileType ==
  ASSUME Live, NEW back \in 0..1, NEW lines \in [Levels -> CmdLevel], ExitFile(lines, back)
  PROVE  Shape'
<1>1. CASE C > 1
  <2>1. C \in Levels /\ C - 1 \in Levels
    BY <1>1, CurrentLevels, BoundsAssumption DEF Levels
  <2> DEFINE left == [lines EXCEPT ![C] = NoCmd]
  <2>2. left \in [Levels -> CmdLevel]
    BY <2>1, NoLevels, CmdFields
  <2>3. cmd' = [left EXCEPT ![C - 1].ln = left[C - 1].ln - back]
    <3>1. left[C - 1] = lines[C - 1]
      BY <2>1, BoundsAssumption DEF Levels
    <3>2. cmd' = [left EXCEPT ![C - 1].ln = lines[C - 1].ln - back]
      BY <1>1 DEF ExitFile
    <3> QED BY <3>1, <3>2
  <2>4. CmdOK'
    <3> HIDE DEF left
    <3> QED BY <2>1, <2>2, <2>3, MovedLine DEF CmdOK
  <2>5. dcl_state' \in States
    <3>1. cmd[C - 1].stop \in 0..3
      BY <2>1 DEF Live, Typed, CmdOK, CmdLevel
    <3> QED BY <1>1, <3>1, AfterFileType DEF ExitFile
  <2>6. DclOK' /\ streams' \subseteq Levels /\ D' = D - 1 /\ undefined' \in BOOLEAN
    BY <1>1, ExitProcLevelType DEF ExitFile
  <2>7. LevelsOK'
    <3>1. C' = C - 1 /\ dcl_subr' = dcl_subr
      BY <1>1 DEF ExitFile
    <3>2. C \in 0..MaxLevel /\ D \in 0..MaxLevel /\ dcl_subr \in Nat /\ C <= D
      BY CurrentLevels DEF Live, Typed, LevelsOK
    <3>3. C - 1 \in 0..MaxLevel /\ D - 1 \in 0..MaxLevel
      BY <1>1, <3>2, BoundsAssumption
    <3> QED BY <2>6, <3>1, <3>2, <3>3 DEF LevelsOK
  <2> QED BY <2>4, <2>5, <2>6, <2>7 DEF Shape, StateOK
<1>2. CASE ~(C > 1)
  <2> DEFINE next == NextLine(lines)
  <2>1. next \in [Levels -> CmdLevel]
    BY NextLineType
  <2>2. cmd' = [next EXCEPT ![C].ln = next[C].ln - back]
    BY <1>2 DEF ExitFile
  <2>3. CmdOK'
    <3> HIDE DEF next
    <3> QED BY <2>1, <2>2, CurrentLevels, MovedLine DEF CmdOK
  <2> QED BY <1>2, <2>3, KeepLevelsType DEF ExitFile, Live, Typed, StateOK
<1> QED BY <1>1, <1>2

LEMMA ExitSubroutineType ==
  ASSUME Live, dcl_subr # 0, NEW back \in 0..1, NEW lines \in [Levels -> CmdLevel],
         ExitSubroutine(lines, back)
  PROVE  Shape'
<1> DEFINE left == IF cmd[C].stack = << >> THEN NextLine(lines) ELSE Popped(lines)
<1>1. left \in [Levels -> CmdLevel]
  BY NextLineType, PoppedType
<1>2. cmd' = [left EXCEPT ![C].ln = left[C].ln - back]
  BY DEF ExitSubroutine
<1>3. CmdOK'
  <2> HIDE DEF left
  <2> QED BY <1>1, <1>2, CurrentLevels, MovedLine DEF CmdOK
<1>4. D > 1 /\ dcl_subr' = dcl_subr - 1 /\ dcl_subr' \in Nat
  BY CurrentLevels DEF Live, Typed, LevelsOK, Levels, ExitSubroutine
<1>5. DclOK' /\ streams' \subseteq Levels /\ D' = D - 1 /\ undefined' \in BOOLEAN
  BY <1>4, ExitProcLevelType DEF ExitSubroutine
<1>6. LevelsOK'
  <2>1. C' = C
    BY DEF ExitSubroutine
  <2>2. C \in 0..MaxLevel /\ D \in 0..MaxLevel
    BY DEF Live, Typed, LevelsOK
  <2>3. D - 1 \in 0..MaxLevel
    BY <1>4, <2>2, BoundsAssumption
  <2> QED BY <1>4, <1>5, <2>1, <2>2, <2>3 DEF LevelsOK
<1> QED BY <1>3, <1>5, <1>6 DEF Shape, StateOK, ExitSubroutine, Live, Typed

LEMMA ExitLevelType ==
  ASSUME Live, NEW back \in 0..1, ExitLevel(back)
  PROVE  Shape'
<1>1. NextLine(cmd) \in [Levels -> CmdLevel]
  BY NextLineType DEF Live, Typed, CmdOK
<1>2. CASE /\ cmd' = [NextLine(cmd) EXCEPT ![C].ln = @ - back]
           /\ KeepLevels /\ UNCHANGED dcl_state
  <2>1. CmdOK'
    BY <1>1, <1>2, CurrentLevels, MovedLine DEF CmdOK
  <2> QED BY <1>2, <2>1, KeepLevelsType DEF Live, Typed, StateOK
<1> QED BY <1>1, <1>2, ExitSubroutineType, ExitFileType DEF ExitLevel

(***************************************************************************)
(* The handlers that transfer control.                                     *)
(***************************************************************************)

\* A handler that only moves to the next line and ends.
LEMMA NextLineOnly ==
  ASSUME Live, KeepLevels, dcl_state' \in States, NEXT_LINE \/ UNCHANGED cmd
  PROVE  Shape'
<1>1. CmdOK'
  BY NextLineType DEF NEXT_LINE, Live, Typed, CmdOK
<1> QED BY <1>1, KeepLevelsType

LEMMA FinishTypes ==
  ASSUME Live, frames # << >>, NEW s \in 0..4, Finish(s)
  PROVE  CallsOK'
BY FinishType DEF Live, Typed

\* A handler that parses and computes ends well or with an error.
LEMMA FailureIsSeverity ==
  /\ Failure \in {0, 2}
  /\ Finish(Failure) => Finish(0) \/ Finish(2)
  /\ Finish(IF Idle THEN 0 ELSE Failure) => Finish(0) \/ Finish(2)
  /\ Finish(IF Skipping THEN 0 ELSE Failure) => Finish(0) \/ Finish(2)
<1>1. Failure = 0 \/ Failure = 2
  BY DEF Failure
<1> QED BY <1>1 DEF Finish

\* A step over a command, or an error of it.
LEMMA SkipType ==
  ASSUME Live, frames # << >>, Skip \/ Reject \/ RejectInPlace, dcl_state' \in States
  PROVE  Shape' /\ CallsOK'
BY FinishTypes, NextLineOnly DEF Skip, Reject, RejectInPlace

LEMMA UndefinedType ==
  ASSUME Live, Undefined
  PROVE  Shape' /\ CallsOK' /\ LoopsOK'
BY DEF Undefined, Shape, CmdOK, DclOK, LevelsOK, StateOK, CallsOK, LoopsOK, levelVars, loopVars, Live, Typed

\* The address that GOSUB and CALL keep, and the line they go to.
LEMMA PushReturnType ==
  ASSUME Live, Found(Arg)
  PROVE  PushReturn \in [Levels -> CmdLevel]
<1> DEFINE there == [cmd EXCEPT ![C].ln = LineOf(Arg)]
<1> DEFINE stack == <<cmd[C].ln + 1>> \o cmd[C].stack
<1>1. cmd \in [Levels -> CmdLevel] /\ C \in Levels
  BY CurrentLevels DEF Live, Typed, CmdOK
<1>2. LineOf(Arg) \in Int
  BY FoundType
<1>3. there \in [Levels -> CmdLevel]
  BY <1>1, <1>2, CmdFields
<1>4. stack \in Seq(Int)
  <2>1. cmd[C].ln \in Int /\ cmd[C].stack \in Seq(Int)
    BY <1>1, CmdFields
  <2>2. <<cmd[C].ln + 1>> \in Seq(Int)
    BY <2>1
  <2> QED BY <2>1, <2>2
<1>5. PushReturn = [there EXCEPT ![C].stack = stack]
  BY <1>1 DEF PushReturn
<1> HIDE DEF there, stack
<1> QED BY <1>1, <1>3, <1>4, <1>5, CmdFields

LEMMA GotoType ==
  ASSUME Live, frames # << >>, Goto
  PROVE  Shape' /\ CallsOK' /\ LoopsOK'
<1>1. dcl_state' \in States /\ LoopsOK'
  BY DEF Goto, KeepCommands, loopVars, LoopsOK, StateOK, Live, Typed
<1>2. CASE Skip \/ Reject \/ RejectInPlace
  BY <1>1, <1>2, SkipType
<1>3. CASE Found(Arg) /\ cmd' = [cmd EXCEPT ![C].ln = LineOf(Arg)] /\ Finish(0) /\ KeepLevels
  <2>1. LineOf(Arg) \in Int
    BY <1>3, FoundType
  <2>2. CmdOK'
    BY <1>3, <2>1, CurrentLevels, CmdFields DEF Live, Typed, CmdOK
  <2> QED BY <1>1, <1>3, <2>2, KeepLevelsType, FinishTypes
<1> QED BY <1>1, <1>2, <1>3 DEF Goto

LEMMA GosubType ==
  ASSUME Live, frames # << >>, Gosub
  PROVE  Shape' /\ CallsOK' /\ LoopsOK'
<1>1. dcl_state' \in States /\ LoopsOK'
  BY DEF Gosub, KeepCommands, loopVars, LoopsOK, StateOK, Live, Typed
<1>2. CASE Skip \/ Reject \/ RejectInPlace
  BY <1>1, <1>2, SkipType
<1>3. CASE Found(Arg) /\ cmd' = PushReturn /\ Finish(0) /\ KeepLevels
  BY <1>1, <1>3, PushReturnType, KeepLevelsType, FinishTypes DEF CmdOK
<1> QED BY <1>1, <1>2, <1>3 DEF Gosub

LEMMA CallSubroutineType ==
  ASSUME Live, frames # << >>, CallSubroutine
  PROVE  Shape' /\ CallsOK' /\ LoopsOK'
<1>1. LoopsOK'
  BY DEF CallSubroutine, loopVars, LoopsOK, Live, Typed
<1>2. CASE (Skip \/ Reject \/ RejectInPlace) /\ UNCHANGED dcl_state
  BY <1>1, <1>2, SkipType DEF Live, Typed, StateOK
<1>3. CASE Undefined
  BY <1>3, UndefinedType
<1>4. CASE /\ Found(Arg) /\ D # MaxLevel /\ Command # << >>
           /\ cmd' = PushReturn /\ BeginSubroutine(Head(Command).out) /\ Finish(0)
           /\ UNCHANGED <<C, dcl_state, undefined>>
  <2>1. Head(Command).out \in BOOLEAN
    BY <1>4, CommandType DEF Live, Typed, Word
  <2>2. D < MaxLevel
    BY <1>4, CurrentLevels, BoundsAssumption DEF Levels
  <2>3. DclOK' /\ streams' \subseteq Levels /\ D' \in Levels
    BY <1>4, <2>1, <2>2, EnterProcLevelType DEF BeginSubroutine
  <2>4. LevelsOK'
    BY <1>4, <2>3, BoundsAssumption DEF BeginSubroutine, LevelsOK, Live, Typed, Levels
  <2>5. CmdOK' /\ StateOK'
    BY <1>4, PushReturnType DEF CmdOK, StateOK, Live, Typed
  <2> QED BY <1>1, <1>4, <2>3, <2>4, <2>5, FinishTypes DEF Shape
<1>5. Command # << >>
  BY DEF CallSubroutine, Executing, Verb
<1> QED BY <1>1, <1>2, <1>3, <1>4, <1>5 DEF CallSubroutine

\* RETURN, SUBROUTINE and LOGOUT only change lines.
LEMMA LineCommandType ==
  ASSUME Live, frames # << >>, Return \/ Subroutine \/ Logout
  PROVE  Shape' /\ CallsOK' /\ LoopsOK'
<1>1. NextLine(cmd) \in [Levels -> CmdLevel] /\ C \in Levels
  BY NextLineType, CurrentLevels DEF Live, Typed, CmdOK
<1> DEFINE next == NextLine(cmd)
<1>2. CASE Return
  BY <1>1, <1>2, PoppedType, KeepLevelsType, FinishTypes, FailureIsSeverity
     DEF Return, KeepCommands, loopVars, CmdOK, LoopsOK, StateOK, Live, Typed
<1>3. CASE Subroutine
  <2>1. cmd' \in {next, [next EXCEPT ![C].subr = TRUE]}
    BY <1>3 DEF Subroutine
  <2>2. CmdOK'
    <3> HIDE DEF next
    <3>1. next \in [Levels -> CmdLevel]
      BY <1>1 DEF next
    <3>2. \A b \in BOOLEAN : [next EXCEPT ![C].subr = b] \in [Levels -> CmdLevel]
      BY <1>1, <3>1, CmdFields
    <3> QED BY <2>1, <3>1, <3>2 DEF CmdOK
  <2> QED BY <1>3, <2>2, KeepLevelsType, FinishTypes
          DEF Subroutine, KeepCommands, loopVars, LoopsOK, StateOK, Live, Typed
<1>4. CASE Logout
  <2>1. cmd' = [next EXCEPT ![C].stop = 1]
    BY <1>4 DEF Logout
  <2>2. CmdOK'
    <3> HIDE DEF next
    <3>1. next \in [Levels -> CmdLevel]
      BY <1>1 DEF next
    <3>2. \A n \in 0..3 : [next EXCEPT ![C].stop = n] \in [Levels -> CmdLevel]
      BY <1>1, <3>1, CmdFields
    <3> QED BY <2>1, <3>2 DEF CmdOK
  <2>3. dcl_state' \in States
    BY <1>4 DEF Logout, States
  <2> QED BY <1>4, <2>2, <2>3, KeepLevelsType, FinishTypes
          DEF Logout, loopVars, LoopsOK, Live, Typed
<1> QED BY <1>2, <1>3, <1>4

LEMMA EndSubroutineType ==
  ASSUME Live, frames # << >>, EndSubroutine
  PROVE  Shape' /\ CallsOK' /\ LoopsOK'
<1>1. LoopsOK' /\ CallsOK'
  BY FinishTypes DEF EndSubroutine, Reject, loopVars, LoopsOK, Live, Typed
<1>2. CASE dcl_subr # 0 /\ ExitSubroutine(cmd, 0)
  BY <1>1, <1>2, ExitSubroutineType DEF Live, Typed, CmdOK
<1>3. CASE cmd' = [NextLine(cmd) EXCEPT ![C].subr = FALSE] /\ KeepLevels /\ UNCHANGED dcl_state
  <2> DEFINE next == NextLine(cmd)
  <2>1. next \in [Levels -> CmdLevel]
    BY NextLineType DEF Live, Typed, CmdOK
  <2>2. cmd' = [next EXCEPT ![C].subr = FALSE]
    BY <1>3
  <2>3. CmdOK'
    <3> HIDE DEF next
    <3>1. \A b \in BOOLEAN : [next EXCEPT ![C].subr = b] \in [Levels -> CmdLevel]
      BY <2>1, CurrentLevels, CmdFields
    <3> QED BY <2>2, <3>1 DEF CmdOK
  <2> QED BY <1>1, <1>3, <2>3, KeepLevelsType DEF Live, Typed, StateOK
<1>4. CASE Reject /\ UNCHANGED dcl_state
  BY <1>1, <1>4, SkipType DEF Live, Typed, StateOK
<1> QED BY <1>2, <1>3, <1>4 DEF EndSubroutine

LEMMA ExitType ==
  ASSUME Live, frames # << >>, ExitLevel(0), UNCHANGED loopVars,
         Finish(IF Skipping THEN 0 ELSE Failure)
  PROVE  Shape' /\ CallsOK' /\ LoopsOK'
<1>1. Shape'
  BY ExitLevelType
<1>2. CallsOK'
  BY FinishTypes, FailureIsSeverity
<1> QED BY <1>1, <1>2 DEF loopVars, LoopsOK, Live, Typed

\* The first line of the file is the current one of the level that it gets.
LEMMA ProcedureFileType ==
  ASSUME Live, frames # << >>, ProcedureFile
  PROVE  Shape' /\ CallsOK' /\ LoopsOK'
<1>1. LoopsOK'
  BY DEF ProcedureFile, loopVars, LoopsOK, Live, Typed
<1>2. CASE RejectInPlace /\ UNCHANGED dcl_state
  BY <1>1, <1>2, SkipType DEF Live, Typed, StateOK
<1>3. CASE Undefined
  BY <1>3, UndefinedType
<1> DEFINE out == Head(Command).out
<1> DEFINE new == [file |-> Arg, ln |-> 1, stop |-> 0, subr |-> cmd[C + 1].subr, stack |-> << >>]
<1> DEFINE next == NextLine(cmd)
<1>4. CASE /\ Arg \in DOMAIN text /\ D # MaxLevel /\ Command # << >>
           /\ EnterProcLevel(out) /\ EnterCmdLevel(Arg)
           /\ Finish(0) /\ UNCHANGED <<dcl_state, dcl_subr, undefined>>
  <2>1. Head(Command).out \in BOOLEAN
    BY <1>4, CommandType DEF Live, Typed, Word
  <2>2. D < MaxLevel /\ C + 1 \in Levels
    BY <1>4, CurrentLevels, BoundsAssumption DEF Levels
  <2>3. DclOK' /\ streams' \subseteq Levels /\ D' \in Levels
    BY <1>4, <2>1, <2>2, EnterProcLevelType
  <2>4. new \in CmdLevel
    <3>1. Arg \in Names
      BY <1>4, InputsAssumption DEF Live, Typed, RestOK
    <3>2. cmd[C + 1].subr \in BOOLEAN
      BY <2>2 DEF Live, Typed, CmdOK, CmdLevel
    <3>3. \A f \in Names, b \in BOOLEAN :
            [file |-> f, ln |-> 1, stop |-> 0, subr |-> b, stack |-> << >>] \in CmdLevel
      <4>1. << >> \in Seq(Int) /\ 0 \in 0..3 /\ 1 \in Int
        OBVIOUS
      <4>2. ASSUME NEW f \in Names \cup {""}, NEW n \in Int, NEW s \in 0..3,
                   NEW b \in BOOLEAN, NEW k \in Seq(Int)
            PROVE  [file |-> f, ln |-> n, stop |-> s, subr |-> b, stack |-> k] \in CmdLevel
        BY DEF CmdLevel
      <4> QED BY <4>1, <4>2
    <3> QED BY <3>1, <3>2, <3>3
  <2>5. next \in [Levels -> CmdLevel]
    BY NextLineType DEF Live, Typed, CmdOK
  <2>6. cmd' = [next EXCEPT ![C + 1] = new]
    BY <1>4 DEF EnterCmdLevel
  <2>7. CmdOK'
    <3> HIDE DEF next, new
    <3> QED BY <2>2, <2>4, <2>5, <2>6, CmdFields DEF CmdOK
  <2>8. LevelsOK'
    BY <1>4, <2>2, <2>3, BoundsAssumption DEF EnterCmdLevel, LevelsOK, Live, Typed, Levels
  <2> QED BY <1>1, <1>4, <2>3, <2>7, <2>8, FinishTypes DEF Shape, StateOK, Live, Typed
<1>5. CASE NEXT_LINE /\ KeepLevels /\ dcl_state' \in States /\ (Finish(0) \/ Finish(2))
  BY <1>1, <1>5, NextLineOnly, FinishTypes
<1>6. Command # << >>
  BY DEF ProcedureFile, Executing, Verb
<1>7. {dcl_state, "INIT_HOME", "ARG", "EXIT"} \subseteq States
  BY DEF States, Live, Typed, StateOK
<1> QED BY <1>2, <1>3, <1>4, <1>5, <1>6, <1>7 DEF ProcedureFile, EnterFile

LEMMA LevelCommandType ==
  ASSUME Live, frames # << >>, LevelCommand
  PROVE  Shape' /\ CallsOK' /\ LoopsOK'
BY GotoType, GosubType, CallSubroutineType, LineCommandType, EndSubroutineType, ExitType, ProcedureFileType
   DEF LevelCommand, Exit

(***************************************************************************)
(* The handlers of blocks and loops.                                       *)
(***************************************************************************)
LEMMA KeepBlocksType ==
  ASSUME Live, KeepBlocks, CmdOK', DclOK', undefined' \in BOOLEAN
  PROVE  Shape'
BY DEF KeepBlocks, Shape, LevelsOK, StateOK, Live, Typed

LEMMA NEXT_LINE_Type ==
  ASSUME Live, NEXT_LINE
  PROVE  CmdOK'
BY NextLineType DEF NEXT_LINE, CmdOK, Live, Typed

\* The condition codes of the current level.
LEMMA CCType ==
  ASSUME Live
  PROVE  /\ CC \in Seq(BOOLEAN) /\ Len(CC) <= MaxCond
         /\ CC # << >> => /\ Head(CC) \in BOOLEAN
                          /\ Tail(CC) \in Seq(BOOLEAN) /\ Len(Tail(CC)) = Len(CC) - 1
<1>1. dcl[D] \in ProcLevel /\ Len(dcl[D].cc) <= MaxCond
  BY CurrentLevels DEF Live, Typed, DclOK
<1>2. CC \in Seq(BOOLEAN) /\ Len(CC) <= MaxCond
  BY <1>1 DEF CC, ProcLevel
<1> QED BY <1>2

LEMMA SetCCType ==
  ASSUME Live, NEW cc \in Seq(BOOLEAN), Len(cc) <= MaxCond, SetCC(cc)
  PROVE  DclOK'
<1>1. dcl[D] \in ProcLevel /\ D \in Levels
  BY CurrentLevels DEF Live, Typed, DclOK
<1> DEFINE level == [dcl[D] EXCEPT !.cc = cc]
<1>2. level \in ProcLevel
  BY <1>1 DEF ProcLevel
<1>3. level.cc = cc
  BY <1>1 DEF ProcLevel
<1>4. dcl' = [dcl EXCEPT ![D] = level]
  BY DEF SetCC
<1> HIDE DEF level
<1> QED BY <1>1, <1>2, <1>3, <1>4, ProcReplaced DEF Live, Typed

\* ENDIF and ENDWHILE leave the innermost block.
LEMMA PoppedCCType ==
  ASSUME Live, CC # << >>, SetCC(Tail(CC))
  PROVE  DclOK'
<1> DEFINE cc == Tail(CC)
<1>1. cc \in Seq(BOOLEAN) /\ Len(cc) <= MaxCond
  BY CCType, BoundsAssumption
<1> HIDE DEF cc
<1>2. SetCC(cc)
  BY DEF cc
<1> QED BY <1>1, <1>2, SetCCType

LEMMA PushConditionType ==
  ASSUME Live, frames # << >>, NEW c \in BOOLEAN, NEW s \in {0, 2}, PushCondition(c, s)
  PROVE  DclOK' /\ CallsOK'
<1>1. CASE Len(CC) < MaxCond /\ SetCC(<<c>> \o CC) /\ Finish(s)
  <2> DEFINE cc == <<c>> \o CC
  <2>1. <<c>> \in Seq(BOOLEAN) /\ CC \in Seq(BOOLEAN)
    BY CCType
  <2>2. cc \in Seq(BOOLEAN) /\ Len(cc) = Len(CC) + 1
    BY <2>1
  <2>3. Len(cc) <= MaxCond
    BY <1>1, <2>1, <2>2, BoundsAssumption
  <2> HIDE DEF cc
  <2>4. SetCC(cc)
    BY <1>1 DEF cc
  <2>5. CallsOK'
    BY <1>1, FinishTypes
  <2> QED BY <2>2, <2>3, <2>4, <2>5, SetCCType
<1>2. CASE UNCHANGED dcl /\ Finish(2)
  BY <1>2, FinishTypes DEF DclOK, Live, Typed
<1> QED BY <1>1, <1>2 DEF PushCondition

\* The lines that IF, THEN and ELSE run: the rest of their own.
LEMMA RestType ==
  ASSUME Live, frames # << >>, Command # << >>
  PROVE  Rest \in Line /\ (Rest # << >> => Tail(Rest) \in Line)
BY CommandType DEF Line, Live, Typed

LEMMA BlockCommandType ==
  ASSUME Live, frames # << >>, If \/ Then \/ Else \/ EndIf
  PROVE  Shape' /\ CallsOK' /\ LoopsOK'
<1>1. LoopsOK' /\ CmdOK' /\ undefined' \in BOOLEAN
  BY NEXT_LINE_Type DEF If, Then, Else, EndIf, KeepLoops, loopVars, LoopsOK, StateOK, Live, Typed
<1>2. KeepBlocks /\ Command # << >>
  BY DEF If, Then, Else, EndIf, Executing, Verb
<1>3. UNCHANGED dcl => DclOK'
  BY DEF DclOK, Live, Typed
<1>4. Finish(0) \/ Finish(2) \/ Finish(Failure) => CallsOK'
  BY FinishTypes, FailureIsSeverity
<1>5. FinishWith(Rest, 2) \/ (Rest # << >> /\ FinishWith(Tail(Rest), 2)) => CallsOK'
  <2>1. Rest \in Line /\ (Rest # << >> => Tail(Rest) \in Line)
    BY <1>2, RestType
  <2> QED BY <2>1, FinishWithType DEF Live, Typed
<1>6. CASE If
  <2>1. CASE /\ UNCHANGED dcl
             /\ \/ Finish(0) \/ Finish(2) \/ Finish(Failure)
                \/ Rest # << >> /\ FinishWith(Tail(Rest), 2)
    BY <2>1, <1>1, <1>2, <1>3, <1>4, <1>5, KeepBlocksType
  <2>2. CASE PushCondition(FALSE, 0) \/ \E c \in Truth : PushCondition(c, Failure)
    <3>1. Truth \subseteq BOOLEAN
      BY DEF Truth
    <3>2. DclOK' /\ CallsOK'
      BY <2>2, <3>1, PushConditionType, FailureIsSeverity
    <3> QED BY <3>2, <1>1, <1>2, KeepBlocksType
  <2> QED BY <1>6, <2>1, <2>2 DEF If
<1>7. CASE Then
  <2>1. UNCHANGED dcl /\ (Finish(0) \/ FinishWith(Rest, 2))
    BY <1>7 DEF Then
  <2> QED BY <2>1, <1>1, <1>2, <1>3, <1>4, <1>5, KeepBlocksType
<1>8. CASE Else
  <2>1. Finish(0) \/ Finish(2) \/ FinishWith(Rest, 2)
    BY <1>8 DEF Else
  <2>2. UNCHANGED dcl \/ (CC # << >> /\ SetCC(<<~Head(CC)>> \o Tail(CC)))
    BY <1>8 DEF Else
  <2>3. ASSUME CC # << >>, SetCC(<<~Head(CC)>> \o Tail(CC)) PROVE DclOK'
    <3> DEFINE c == ~Head(CC)
    <3> DEFINE cc == <<c>> \o Tail(CC)
    <3>1. Tail(CC) \in Seq(BOOLEAN) /\ Len(Tail(CC)) = Len(CC) - 1
      BY <2>3, CCType
    <3>2. c \in BOOLEAN
      OBVIOUS
    <3>3. SetCC(cc)
      BY <2>3
    <3> HIDE DEF c
    <3>4. <<c>> \in Seq(BOOLEAN)
      BY <3>2
    <3>5. cc \in Seq(BOOLEAN) /\ Len(cc) <= MaxCond
      BY <3>1, <3>4, CCType, BoundsAssumption
    <3> HIDE DEF cc
    <3> QED BY <3>3, <3>5, SetCCType
  <2> QED BY <2>1, <2>2, <2>3, <1>1, <1>2, <1>3, <1>4, <1>5, KeepBlocksType
<1>9. CASE EndIf
  <2>1. Finish(0) \/ Finish(2)
    BY <1>9 DEF EndIf
  <2>2. UNCHANGED dcl \/ (CC # << >> /\ SetCC(Tail(CC)))
    BY <1>9 DEF EndIf
  <2> QED BY <2>1, <2>2, <1>1, <1>2, <1>3, <1>4, PoppedCCType, KeepBlocksType
<1> QED BY <1>6, <1>7, <1>8, <1>9

\* Going back to a line of a loop table.
LEMMA LoopBackType ==
  ASSUME Live, NEW n \in Int, cmd' = [cmd EXCEPT ![C].ln = n]
  PROVE  CmdOK'
<1>1. cmd \in [Levels -> CmdLevel] /\ C \in Levels
  BY CurrentLevels DEF Live, Typed, CmdOK
<1> QED BY <1>1, CmdFields DEF CmdOK

LEMMA WhileType ==
  ASSUME Live, frames # << >>, While
  PROVE  Shape' /\ CallsOK' /\ LoopsOK'
<1>1. CmdOK' /\ undefined' \in BOOLEAN /\ KeepBlocks
  BY NEXT_LINE_Type DEF While, CmdOK, StateOK, Live, Typed
<1>2. while_flag' \in 0..1 /\ UNCHANGED <<repeat_table, repeat_idx>>
  <2>1. (while_flag' = while_flag \/ while_flag' = 0) /\ UNCHANGED <<repeat_table, repeat_idx>>
    BY DEF While
  <2> QED BY <2>1 DEF LoopsOK, Live, Typed
<1>3. UNCHANGED dcl => DclOK'
  BY DEF DclOK, Live, Typed
<1>4. UNCHANGED <<while_table, while_idx>> => LoopsOK'
  BY <1>2 DEF LoopsOK, Live, Typed
<1>5. ASSUME EnterWhile PROVE LoopsOK'
  <2>1. CASE UNCHANGED <<while_idx, while_table>>
    BY <2>1, <1>4
  <2>2. CASE /\ while_idx' = while_idx + 1 /\ InBounds(while_idx + 1, MaxWhile)
             /\ while_table' = [while_table EXCEPT ![while_idx + 1] = WhileStart]
    <3>1. WhileStart \in Int
      <4>1. cmd \in [Levels -> CmdLevel] /\ C \in Levels
        BY CurrentLevels DEF Live, Typed, CmdOK
      <4> QED BY <4>1, CmdFields DEF WhileStart
    <3> QED BY <2>2, <3>1, <1>2 DEF InBounds, LoopsOK, Live, Typed
  <2> QED BY <1>5, <2>1, <2>2 DEF EnterWhile
<1>6. ASSUME LeaveWhile PROVE LoopsOK'
  BY <1>6, <1>2 DEF LeaveWhile, LoopsOK, Live, Typed
<1>7. CASE UNCHANGED <<dcl, while_table, while_idx>> /\ (Finish(0) \/ Finish(2))
  BY <1>7, <1>1, <1>3, <1>4, FinishTypes, KeepBlocksType
<1>8. CASE PushCondition(FALSE, 0) /\ UNCHANGED <<while_table, while_idx>>
  BY <1>8, <1>1, <1>4, PushConditionType, KeepBlocksType
<1>9. CASE \E c \in Truth : (IF c THEN EnterWhile ELSE LeaveWhile) /\ PushCondition(c, Failure)
  <2>1. Truth \subseteq BOOLEAN
    BY DEF Truth
  <2>2. PICK c \in BOOLEAN : (EnterWhile \/ LeaveWhile) /\ PushCondition(c, Failure)
    BY <1>9, <2>1
  <2>3. DclOK' /\ CallsOK'
    BY <2>2, PushConditionType, FailureIsSeverity
  <2> QED BY <2>2, <2>3, <1>1, <1>5, <1>6, KeepBlocksType
<1> QED BY <1>7, <1>8, <1>9 DEF While

LEMMA EndWhileType ==
  ASSUME Live, frames # << >>, EndWhile
  PROVE  Shape' /\ CallsOK' /\ LoopsOK'
<1>1. LoopsOK' /\ undefined' \in BOOLEAN /\ KeepBlocks
  <2>1. /\ while_flag' = while_flag \/ while_flag' = 1
        /\ UNCHANGED <<while_table, while_idx, repeat_table, repeat_idx, undefined>>
        /\ KeepBlocks
    BY DEF EndWhile
  <2> QED BY <2>1 DEF LoopsOK, StateOK, Live, Typed
<1>2. Finish(0) \/ Finish(2)
  BY DEF EndWhile
<1>3. CallsOK'
  BY <1>2, FinishTypes
<1>4. UNCHANGED dcl \/ (CC # << >> /\ SetCC(Tail(CC)))
  BY DEF EndWhile
<1>5. DclOK'
  BY <1>4, PoppedCCType DEF DclOK, Live, Typed
<1>6. \/ NEXT_LINE
      \/ InBounds(while_idx, MaxWhile) /\ cmd' = [cmd EXCEPT ![C].ln = while_table[while_idx]]
  BY DEF EndWhile
<1>7. InBounds(while_idx, MaxWhile) => while_table[while_idx] \in Int
  BY DEF InBounds, LoopsOK, Live, Typed
<1>8. CmdOK'
  BY <1>6, <1>7, NEXT_LINE_Type, LoopBackType
<1> QED BY <1>1, <1>3, <1>5, <1>8, KeepBlocksType

LEMMA RepeatType ==
  ASSUME Live, frames # << >>, Repeat \/ Until
  PROVE  Shape' /\ CallsOK' /\ LoopsOK'
<1>1. /\ undefined' \in BOOLEAN /\ KeepBlocks /\ UNCHANGED dcl
      /\ UNCHANGED <<while_table, while_idx, while_flag>>
  BY DEF Repeat, Until, StateOK, Live, Typed
<1>2. Finish(0) \/ Finish(2)
  <2>1. Finish(0) \/ Finish(2) \/ Finish(Failure)
    BY DEF Repeat, Until
  <2> QED BY <2>1, FailureIsSeverity
<1>3. CallsOK' /\ DclOK'
  BY <1>1, <1>2, FinishTypes DEF DclOK, Live, Typed
<1>4. LoopsOK'
  <2>1. CASE Repeat
    <3>1. RepeatStart \in Int
      <4>1. NextLine(cmd) \in [Levels -> CmdLevel] /\ C \in Levels
        BY NextLineType, CurrentLevels DEF Live, Typed, CmdOK
      <4> QED BY <4>1, CmdFields DEF RepeatStart
    <3> QED BY <2>1, <3>1, <1>1 DEF Repeat, InBounds, LoopsOK, Live, Typed
  <2>2. CASE Until
    BY <2>2, <1>1 DEF Until, LoopsOK, Live, Typed
  <2> QED BY <2>1, <2>2
<1>5. CmdOK'
  <2>1. \/ NEXT_LINE
        \/ InBounds(repeat_idx, MaxRepeat) /\ cmd' = [cmd EXCEPT ![C].ln = repeat_table[repeat_idx]]
    BY DEF Repeat, Until
  <2>2. InBounds(repeat_idx, MaxRepeat) => repeat_table[repeat_idx] \in Int
    BY DEF InBounds, LoopsOK, Live, Typed
  <2> QED BY <2>1, <2>2, NEXT_LINE_Type, LoopBackType
<1> QED BY <1>1, <1>3, <1>4, <1>5, KeepBlocksType

LEMMA ConditionCommandType ==
  ASSUME Live, frames # << >>, ConditionCommand
  PROVE  Shape' /\ CallsOK' /\ LoopsOK'
BY BlockCommandType, WhileType, EndWhileType, RepeatType, UndefinedType
   DEF ConditionCommand, LoopOutOfBounds

(***************************************************************************)
(* The other commands.                                                     *)
(***************************************************************************)

\* SET ON, ON and CONTROL_Y store in the current procedure level.
LEMMA ProcFields ==
  ASSUME Live
  PROVE  /\ \A b \in BOOLEAN : dcl' = [dcl EXCEPT ![D].ON = b] => DclOK'
         /\ \A line \in Line : dcl' = [dcl EXCEPT ![D].ON_break_command = line] => DclOK'
         /\ \A n \in 0..3 : \A line \in Line :
              dcl' = [dcl EXCEPT ![D].ON_severity = n, ![D].ON_error_command = line] => DclOK'
<1>1. dcl[D] \in ProcLevel /\ Len(dcl[D].cc) <= MaxCond /\ D \in Levels /\ DclOK
  BY CurrentLevels DEF Live, Typed, DclOK
<1>2. ASSUME NEW b \in BOOLEAN, dcl' = [dcl EXCEPT ![D].ON = b] PROVE DclOK'
  <2> DEFINE level == [dcl[D] EXCEPT !.ON = b]
  <2>1. level \in ProcLevel /\ level.cc = dcl[D].cc /\ dcl' = [dcl EXCEPT ![D] = level]
    BY <1>1, <1>2 DEF ProcLevel
  <2> HIDE DEF level
  <2> QED BY <1>1, <2>1, ProcReplaced
<1>3. ASSUME NEW line \in Line, dcl' = [dcl EXCEPT ![D].ON_break_command = line] PROVE DclOK'
  <2> DEFINE level == [dcl[D] EXCEPT !.ON_break_command = line]
  <2>1. level \in ProcLevel /\ level.cc = dcl[D].cc /\ dcl' = [dcl EXCEPT ![D] = level]
    BY <1>1, <1>3 DEF ProcLevel
  <2> HIDE DEF level
  <2> QED BY <1>1, <2>1, ProcReplaced
<1>4. ASSUME NEW n \in 0..3, NEW line \in Line,
             dcl' = [dcl EXCEPT ![D].ON_severity = n, ![D].ON_error_command = line]
      PROVE  DclOK'
  <2> DEFINE first == [dcl[D] EXCEPT !.ON_severity = n]
  <2> DEFINE level == [first EXCEPT !.ON_error_command = line]
  <2>1. first \in ProcLevel /\ first.cc = dcl[D].cc
    BY <1>1 DEF ProcLevel
  <2>2. dcl' = [dcl EXCEPT ![D] = level]
    BY <1>1, <1>4
  <2> HIDE DEF first
  <2>3. level \in ProcLevel /\ level.cc = first.cc
    BY <2>1 DEF ProcLevel
  <2> HIDE DEF level
  <2> QED BY <1>1, <2>1, <2>2, <2>3, ProcReplaced
<1> QED BY <1>2, <1>3, <1>4

LEMMA KeepsType ==
  ASSUME Live, InteractionCommandKeeps, CmdOK', DclOK'
  PROVE  Shape' /\ LoopsOK'
BY DEF InteractionCommandKeeps, Shape, LevelsOK, StateOK, LoopsOK, loopVars, Live, Typed

\* The nested GOTO of a command that fails with /ERROR=label.
LEMMA ErrorLabelType ==
  ASSUME Live, frames # << >>, Executing("io"), FinishWith(<<Wa("goto", Arg)>>, 0)
  PROVE  CallsOK'
<1>1. Command # << >>
  BY DEF Executing, Verb
<1>2. Arg \in Names \cup Conditions \cup Values \cup {"", "BAD"}
  BY <1>1, CommandType DEF Arg, Word, Live, Typed
<1>3. "goto" \in Verbs
  BY DEF Verbs
<1>4. Wa("goto", Arg) \in Word
  BY <1>2, <1>3, Words
<1>5. <<Wa("goto", Arg)>> \in Line
  BY <1>4 DEF Line
<1> QED BY <1>5, FinishWithType DEF Live, Typed

LEMMA PlainCommandType ==
  ASSUME Live, frames # << >>, PlainCommand
  PROVE  Shape' /\ CallsOK' /\ LoopsOK'
<1>1. NEXT_LINE /\ InteractionCommandKeeps
  BY DEF PlainCommand, Empty, Ordinary, FileCommand, Unknown, On, SetOn
<1>2. CmdOK'
  BY <1>1, NEXT_LINE_Type
<1>3. UNCHANGED dcl => DclOK'
  BY DEF DclOK, Live, Typed
<1>4. CASE Empty \/ Ordinary \/ Unknown
  <2>1. UNCHANGED dcl /\ \E s \in Outcomes \cup {0, 2} : Finish(s)
    BY <1>4 DEF Empty, Ordinary, Unknown
  <2>2. Outcomes \cup {0, 2} \subseteq 0..4
    BY InputsAssumption
  <2>3. CallsOK'
    BY <2>1, <2>2, FinishTypes
  <2> QED BY <2>1, <2>3, <1>1, <1>2, <1>3, KeepsType
<1>5. CASE FileCommand
  <2>1. UNCHANGED dcl /\ CallsOK'
    BY <1>5, FinishTypes, ErrorLabelType DEF FileCommand
  <2> QED BY <2>1, <1>1, <1>2, <1>3, KeepsType
<1>6. CASE SetOn("set_on", TRUE) \/ SetOn("set_noon", FALSE)
  <2>1. Finish(0) /\ (UNCHANGED dcl \/ \E b \in BOOLEAN : dcl' = [dcl EXCEPT ![D].ON = b])
    BY <1>6 DEF SetOn
  <2> QED BY <2>1, <1>1, <1>2, <1>3, ProcFields, FinishTypes, KeepsType
<1>7. CASE On
  <2>1. Finish(0) \/ Finish(2)
    BY <1>7 DEF On
  <2>2. CASE Rest # << >>
    <3>1. Command # << >>
      BY <1>7 DEF On, Executing, Verb
    <3>2. Tail(Rest) \in Line
      BY <2>2, <3>1, RestType
    <3>3. SeverityOf(Arg) \in 0..3
      BY DEF SeverityOf
    <3>4. \/ UNCHANGED dcl
          \/ dcl' = [dcl EXCEPT ![D].ON_break_command = Tail(Rest)]
          \/ dcl' = [dcl EXCEPT ![D].ON_severity = SeverityOf(Arg), ![D].ON_error_command = Tail(Rest)]
      BY <1>7 DEF On
    <3>5. DclOK'
      BY <3>2, <3>3, <3>4, <1>3, ProcFields
    <3> QED BY <2>1, <3>5, <1>1, <1>2, FinishTypes, KeepsType
  <2>3. CASE Rest = << >>
    BY <1>7, <2>1, <2>3, <1>1, <1>2, <1>3, FinishTypes, KeepsType DEF On
  <2> QED BY <2>2, <2>3
<1> QED BY <1>4, <1>5, <1>6, <1>7 DEF PlainCommand

LEMMA StepCommandType ==
  ASSUME Live, frames # << >>, StepCommand
  PROVE  Shape' /\ CallsOK' /\ LoopsOK' /\ STEP' \in BOOLEAN /\ STEP_loop' \in BOOLEAN
<1>1. STEP' \in BOOLEAN /\ STEP_loop' \in BOOLEAN
  BY DEF StepCommand, SetStep, StepWord, Cancel, RestOK, Live, Typed
<1>2. CASE Cancel
  BY <1>1, <1>2, ExitType DEF Cancel
<1>3. CASE ~Cancel
  <2>1. (NEXT_LINE \/ UNCHANGED cmd) /\ Finish(0) /\ UNCHANGED dcl /\ InteractionCommandKeeps
    BY <1>3 DEF StepCommand, SetStep, StepWord
  <2>2. CmdOK' /\ DclOK'
    BY <2>1, NEXT_LINE_Type DEF CmdOK, DclOK, Live, Typed
  <2> QED BY <1>1, <2>1, <2>2, FinishTypes, KeepsType
<1> QED BY <1>2, <1>3

LEMMA ControlCommandType ==
  ASSUME Live, frames # << >>, ControlCommand
  PROVE  Shape' /\ CallsOK' /\ LoopsOK' /\ CONTROL_Y_ALLOWED' \in BOOLEAN
<1>1. CONTROL_Y_ALLOWED' \in BOOLEAN
  BY DEF ControlCommand, SetControl, Undefined, RestOK, Live, Typed
<1>2. CASE Undefined
  BY <1>1, <1>2, UndefinedType
<1>3. CASE /\ NEXT_LINE /\ UNCHANGED dcl /\ InteractionCommandKeeps
           /\ Finish(IF Idle THEN 0 ELSE Failure)
  <2>1. CmdOK' /\ DclOK'
    BY <1>3, NEXT_LINE_Type DEF DclOK, Live, Typed
  <2>2. CallsOK'
    BY <1>3, FinishTypes, FailureIsSeverity
  <2> QED BY <1>1, <1>3, <2>1, <2>2, KeepsType
<1> QED BY <1>2, <1>3 DEF ControlCommand, SetControl

LEMMA ExecuteType ==
  ASSUME Live, Execute
  PROVE  Typed'
<1>1. frames # << >>
  BY DEF Execute, InPhase
<1>2. STEP \in BOOLEAN /\ STEP_loop \in BOOLEAN /\ CONTROL_Y_ALLOWED \in BOOLEAN
  BY DEF RestOK, Live, Typed
<1>3. /\ Shape' /\ CallsOK' /\ LoopsOK'
      /\ STEP' \in BOOLEAN /\ STEP_loop' \in BOOLEAN /\ CONTROL_Y_ALLOWED' \in BOOLEAN
  <2>1. CASE /\ LevelCommand \/ ConditionCommand \/ PlainCommand
             /\ UNCHANGED <<stepVars, CONTROL_Y_ALLOWED>>
    BY <1>1, <1>2, <2>1, LevelCommandType, ConditionCommandType, PlainCommandType DEF stepVars
  <2>2. CASE StepCommand /\ UNCHANGED CONTROL_Y_ALLOWED
    BY <1>1, <1>2, <2>2, StepCommandType
  <2>3. CASE ControlCommand /\ UNCHANGED stepVars
    BY <1>1, <1>2, <2>3, ControlCommandType DEF stepVars
  <2> QED BY <2>1, <2>2, <2>3 DEF Execute
<1>4. UNCHANGED <<fileVars, CTRL_Y, breaks, typed>>
  BY DEF Execute
<1>5. RestOK'
  BY <1>3, <1>4 DEF fileVars, RestOK, Live, Typed
<1> QED BY <1>3, <1>5 DEF Shape, Typed

(***************************************************************************)
(* After a command, main() and the user.                                   *)
(***************************************************************************)

\* A nested call of dcl_process_command_line on top of other calls.
LEMMA CallType ==
  ASSUME NEW line \in Line, NEW exc \in 0..2, NEW rest \in Seq(Frame)
  PROVE  <<Call(line, exc)>> \o rest \in Seq(Frame)
<1>1. Call(line, exc) \in Frame
  BY DEF Call, Frame
<1> QED BY <1>1

LEMMA AtType ==
  ASSUME Live, frames # << >>, NEW phase \in {"step", "run", "on", "break"}
  PROVE  At(phase) \in Seq(Frame)
<1>1. [Head(frames) EXCEPT !.phase = phase] \in Frame
  BY CommandType DEF Frame, Live, Typed
<1> QED BY <1>1, CommandType DEF At, Live, Typed

LEMMA EndOfCommandType ==
  ASSUME Live, OnError \/ OnBreak
  PROVE  Typed'
<1>1. frames # << >> /\ EndOfCommandKeeps /\ CTRL_Y' \in BOOLEAN
  BY DEF OnError, OnBreak, InPhase, RestOK, Live, Typed
<1>2. dcl[D].ON_error_command \in Line /\ dcl[D].ON_break_command \in Line
  BY CurrentLevels DEF Live, Typed, DclOK, ProcLevel
<1>3. frames' \in Seq(Frame)
  <2>1. Tail(frames) \in Seq(Frame) /\ At("break") \in Seq(Frame)
    BY <1>1, CommandType, AtType DEF Live, Typed
  <2>2. \/ frames' \in {Tail(frames), At("break")}
        \/ frames' = <<Call(dcl[D].ON_error_command, 1)>> \o At("break")
        \/ frames' = <<Call(dcl[D].ON_break_command, 1)>> \o Tail(frames)
    BY DEF OnError, OnBreak
  <2>3. 1 \in 0..2
    OBVIOUS
  <2> QED BY <1>2, <2>1, <2>2, <2>3, CallType
<1>4. CallsOK'
  <2>1. EXCPT' \in {EXCPT, 0, 1} /\ SEVERITY' \in {SEVERITY, 0}
    BY DEF OnError, OnBreak
  <2> QED BY <1>3, <2>1 DEF CallsOK, Live, Typed
<1>5. CmdOK' /\ DclOK' /\ LevelsOK' /\ LoopsOK' /\ StateOK'
  BY <1>1 DEF EndOfCommandKeeps, levelVars, loopVars, CmdOK, DclOK, LevelsOK, LoopsOK, StateOK, Live, Typed
<1>6. RestOK'
  BY <1>1 DEF EndOfCommandKeeps, fileVars, stepVars, RestOK, Live, Typed
<1> QED BY <1>4, <1>5, <1>6 DEF Typed

LEMMA ProcessType ==
  ASSUME NEW line \in Line, Process(line)
  PROVE  CallsOK'
<1>1. Call(line, 0) \in Frame
  BY DEF Call, Frame
<1> QED BY <1>1 DEF Process, CallsOK

LEMMA SteppedType ==
  ASSUME Live, NEW line \in Line, NEW ln \in Int, Stepped(line, ln)
  PROVE  CallsOK' /\ STEP' \in BOOLEAN /\ STEP_loop' \in BOOLEAN /\ typed' \in Nat
<1>1. frames' = <<[line |-> line, exc |-> 0, phase |-> IF STEP THEN "step" ELSE "run",
                   ln |-> IF STEP THEN ln ELSE 0]>>
  BY DEF Stepped
<1>2. frames' \in Seq(Frame)
  BY <1>1 DEF Frame
<1> QED BY <1>2 DEF Stepped, CallsOK, RestOK, Live, Typed

\* What main() leaves alone keeps its type.
LEMMA MainLoopType ==
  ASSUME Live, MainLoopKeeps, Shape', CallsOK',
         STEP' \in BOOLEAN, STEP_loop' \in BOOLEAN, typed' \in Nat
  PROVE  Typed'
BY DEF MainLoopKeeps, fileVars, loopVars, breakVars, Shape, LoopsOK, RestOK, Live, Typed

LEMMA AtLineType ==
  ASSUME NEW file \in Names
  PROVE  <<Wa("at", file)>> \in Line
<1>1. "at" \in Verbs
  BY DEF Verbs
<1>2. Wa("at", file) \in Word
  BY <1>1, Words
<1> QED BY <1>2 DEF Line

LEMMA LoginType ==
  ASSUME Live, NEW state, NEW file \in Names, NEW next \in States, Login(state, file, next)
  PROVE  Typed'
<1>1. CallsOK'
  BY AtLineType, ProcessType DEF Login
<1>2. Shape' /\ STEP' \in BOOLEAN /\ STEP_loop' \in BOOLEAN /\ typed' \in Nat
  BY DEF Login, levelVars, stepVars, Shape, CmdOK, DclOK, LevelsOK, StateOK, RestOK, Live, Typed
<1> QED BY <1>1, <1>2, MainLoopType DEF Login

\* A stop code is stored in the current level.
LEMMA StopType ==
  ASSUME Live, NEW stop \in 0..3, cmd' = [cmd EXCEPT ![C].stop = stop]
  PROVE  CmdOK'
<1>1. cmd \in [Levels -> CmdLevel] /\ C \in Levels
  BY CurrentLevels DEF Live, Typed, CmdOK
<1> QED BY <1>1, CmdFields DEF CmdOK

LEMMA LogoutFileType ==
  ASSUME Live, NEW state, NEW file \in Names, NEW stop \in 0..3, LogoutFile(state, file, stop)
  PROVE  Typed'
<1>1. CallsOK' /\ CmdOK'
  BY AtLineType, ProcessType, StopType DEF LogoutFile
<1>2. Shape' /\ STEP' \in BOOLEAN /\ STEP_loop' \in BOOLEAN /\ typed' \in Nat
  BY <1>1 DEF LogoutFile, stepVars, Shape, DclOK, LevelsOK, StateOK, States, RestOK, Live, Typed
<1> QED BY <1>1, <1>2, MainLoopType DEF LogoutFile

LEMMA ArgumentsType ==
  ASSUME Live, Arguments
  PROVE  Typed'
<1>1. args \in Line
  BY InputsAssumption DEF RestOK, Live, Typed
<1>2. CallsOK'
  BY <1>1, ProcessType DEF Arguments
<1>3. CmdOK'
  <2>1. UNCHANGED cmd \/ cmd' = [cmd EXCEPT ![C].stop = 1]
    BY DEF Arguments
  <2>2. 1 \in 0..3
    OBVIOUS
  <2> QED BY <2>1, <2>2, StopType DEF CmdOK, Live, Typed
<1>4. Shape' /\ STEP' \in BOOLEAN /\ STEP_loop' \in BOOLEAN /\ typed' \in Nat
  BY <1>3 DEF Arguments, stepVars, Shape, DclOK, LevelsOK, StateOK, States, RestOK, Live, Typed
<1> QED BY <1>2, <1>4, MainLoopType DEF Arguments

\* The lines of a procedure are command lines.
LEMMA FirstPartType ==
  ASSUME NEW line \in Line, line # << >>
  PROVE  FirstPart(line) \in Line /\ Len(FirstPart(line)) = Len(line) - 1
         /\ \A i \in DOMAIN FirstPart(line) : i \in DOMAIN line /\ FirstPart(line)[i] = line[i]
<1>1. PICK n \in Nat \ {0} : n = Len(line) /\ DOMAIN line = 1..n /\ line \in Seq(Word)
  BY EmptySeq DEF Line
<1>2. \A i \in 1..n - 1 : line[i] \in Word /\ i \in 1..n
  BY <1>1
<1>3. FirstPart(line) = SubSeq(line, 1, n - 1) /\ n - 1 \in Nat
  BY <1>1 DEF FirstPart
<1>4. /\ SubSeq(line, 1, n - 1) \in Seq(Word) /\ Len(SubSeq(line, 1, n - 1)) = n - 1
      /\ \A i \in 1..n - 1 : SubSeq(line, 1, n - 1)[i] = line[i]
  BY <1>2, <1>3, SubSeqProperties
<1>5. DOMAIN SubSeq(line, 1, n - 1) = 1..n - 1
  BY <1>4
<1> QED BY <1>1, <1>2, <1>3, <1>4, <1>5 DEF Line

LEMMA RunLinesType ==
  ASSUME NEW p \in Seq(Line), NEW n \in Int, NEW line \in RunLines(p, n)
  PROVE  line \in Line
<1>1. CASE n \in DOMAIN p
  BY <1>1 DEF RunLines
<1>2. CASE n \notin DOMAIN p
  <2>1. PICK i \in DOMAIN p : line = FirstPart(p[i]) /\ Continued(p[i])
    BY <1>2 DEF RunLines
  <2>2. p[i] \in Line /\ p[i] # << >>
    BY <2>1 DEF Continued
  <2> QED BY <2>1, <2>2, FirstPartType
<1> QED BY <1>1, <1>2

LEMMA ReadLineType ==
  ASSUME Live, ReadLine
  PROVE  Typed'
<1>1. Lines \in Seq(Line)
  BY InputsAssumption DEF Live, Typed, RestOK, Lines
<1>2. cmd \in [Levels -> CmdLevel] /\ C \in Levels
  BY CurrentLevels DEF Live, Typed, CmdOK
<1>3. cmd[C].ln \in Int /\ Len(Lines) \in Nat
  <2>1. cmd[C].ln \in Int
    BY <1>2, CmdFields
  <2>2. Len(Lines) \in Nat
    BY <1>1
  <2> QED BY <2>1, <2>2
<1>4. PICK ln \in cmd[C].ln..Len(Lines) + 1 :
        cmd' = [cmd EXCEPT ![C].ln = ln] /\ \E line \in RunLines(Lines, ln) : Stepped(line, ln)
  BY DEF ReadLine
<1>5. ln \in Int
  BY <1>3
<1>6. PICK line \in RunLines(Lines, ln) : Stepped(line, ln)
  BY <1>4
<1>7. line \in Line
  BY <1>1, <1>5, RunLinesType
<1>8. CallsOK' /\ STEP' \in BOOLEAN /\ STEP_loop' \in BOOLEAN /\ typed' \in Nat
  BY <1>5, <1>6, <1>7, SteppedType
<1>9. CmdOK'
  BY <1>2, <1>4, <1>5, CmdFields DEF CmdOK
<1>10. Shape'
  BY <1>9 DEF ReadLine, Shape, DclOK, LevelsOK, StateOK, Live, Typed
<1> QED BY <1>8, <1>10, MainLoopType DEF ReadLine

\* The level that is current after the end of a file has a line number too.
LEMMA ReadEofType ==
  ASSUME Live, ReadEof
  PROVE  Typed'
<1>1. Shape'
  BY ExitLevelType DEF ReadEof
<1>2. C' \in Levels
  <2>1. LevelsInv' /\ dcl_state' # "ENDED"
    BY ExitLevelSteps, LevelStepKeeps DEF ReadEof, Live, LevelStep
  <2> QED BY <1>1, <2>1, BoundsAssumption DEF LevelsInv, Shape, LevelsOK, Levels
<1>3. cmd'[C'].ln \in Int
  BY <1>1, <1>2 DEF Shape, CmdOK, CmdLevel
<1>4. << >> \in Line
  BY DEF Line
<1>5. CallsOK' /\ STEP' \in BOOLEAN /\ STEP_loop' \in BOOLEAN /\ typed' \in Nat
  BY <1>3, <1>4, SteppedType DEF ReadEof
<1> QED BY <1>1, <1>5, MainLoopType DEF ReadEof

\* A line that is typed, at the prompt or at that of STEP.
LEMMA TypedLineType ==
  ASSUME Live, ReadKbd \/ StepPrompt
  PROVE  Typed'
<1>1. Keyboard \subseteq Line
  BY InputsAssumption
<1>2. CallsOK'
  <2>1. CASE ReadKbd
    BY <2>1, <1>1, ProcessType DEF ReadKbd
  <2>2. CASE StepPrompt
    <3>1. PICK line \in Line : frames' = <<Call(line, 1)>> \o frames
      BY <2>2, <1>1 DEF StepPrompt
    <3>2. frames' \in Seq(Frame)
      BY <3>1, CallType DEF CallsOK, Live, Typed
    <3> QED BY <2>2, <3>2 DEF StepPrompt, CallsOK
  <2> QED BY <2>1, <2>2
<1>3. Shape' /\ STEP' \in BOOLEAN /\ STEP_loop' \in BOOLEAN /\ typed' \in Nat
  BY DEF ReadKbd, StepPrompt, levelVars, stepVars, Shape, CmdOK, DclOK, LevelsOK, StateOK, RestOK, Live, Typed
<1> QED BY <1>2, <1>3, MainLoopType DEF ReadKbd, StepPrompt

LEMMA StoppedType ==
  ASSUME Live, Stopped
  PROVE  Typed'
<1>1. CallsOK'
  <2>1. << >> \in Line
    BY DEF Line
  <2> QED BY <2>1, ProcessType DEF Stopped
<1>2. Shape' /\ STEP' \in BOOLEAN /\ STEP_loop' \in BOOLEAN /\ typed' \in Nat
  BY DEF Stopped, levelVars, stepVars, Shape, CmdOK, DclOK, LevelsOK, StateOK, States, RestOK, Live, Typed
<1> QED BY <1>1, <1>2, MainLoopType DEF Stopped

\* The line number that the STEP prompt restores is the one it saved.
LEMMA StepDoneType ==
  ASSUME Live, StepDone
  PROVE  Typed'
<1>1. Head(frames) \in Frame
  BY CommandType DEF StepDone, InPhase, Live, Typed
<1>2. Head(frames).line \in Line /\ Head(frames).ln \in Int
  BY <1>1 DEF Frame
<1>3. CallsOK'
  BY <1>2, ProcessType DEF StepDone
<1>4. CmdOK'
  <2>1. cmd' = [cmd EXCEPT ![C].ln = Head(frames).ln]
    BY DEF StepDone
  <2> QED BY <1>2, <2>1, LoopBackType
<1>5. Shape' /\ STEP' \in BOOLEAN /\ STEP_loop' \in BOOLEAN /\ typed' \in Nat
  BY <1>4 DEF StepDone, stepVars, Shape, DclOK, LevelsOK, StateOK, RestOK, Live, Typed
<1> QED BY <1>3, <1>5, MainLoopType DEF StepDone

LEMMA EndType ==
  ASSUME Live, End
  PROVE  Typed'
<1>1. CmdOK'
  BY NoLevels DEF End, CmdOK
<1>2. DclOK'
  <2>1. dcl' = [l \in Levels |-> NoProc]
    BY DEF End
  <2>2. Len(NoProc.cc) = 0
    BY DEF NoProc
  <2> QED BY <2>1, <2>2, NoLevels, BoundsAssumption DEF DclOK
<1>3. LevelsOK' /\ StateOK' /\ CallsOK'
  BY BoundsAssumption DEF End, callVars, LevelsOK, StateOK, CallsOK, States, Live, Typed
<1>4. STEP' \in BOOLEAN /\ STEP_loop' \in BOOLEAN /\ typed' \in Nat
  BY DEF End, stepVars, RestOK, Live, Typed
<1> QED BY <1>1, <1>2, <1>3, <1>4, MainLoopType DEF End, Shape

LEMMA CtrlCType ==
  ASSUME Live, CtrlC
  PROVE  Typed'
<1>1. CTRL_Y' \in BOOLEAN /\ breaks' \in Nat
  BY DEF CtrlC, RestOK, Live, Typed
<1>2. CmdOK' /\ DclOK' /\ LevelsOK' /\ LoopsOK' /\ StateOK' /\ CallsOK'
  BY DEF CtrlC, levelVars, loopVars, callVars, CmdOK, DclOK, LevelsOK, LoopsOK, StateOK, CallsOK, Live, Typed
<1>3. RestOK'
  BY <1>1 DEF CtrlC, fileVars, stepVars, RestOK, Live, Typed
<1> QED BY <1>2, <1>3 DEF Typed

(***************************************************************************)
(* The invariant.                                                          *)
(***************************************************************************)
LEMMA InitTyped == Init => Typed
<1> SUFFICES ASSUME Init PROVE Typed
  OBVIOUS
<1>1. CmdOK /\ CallsOK
  BY NoLevels DEF Init, CmdOK, CallsOK
<1>2. DclOK
  <2>1. Len(NoProc.cc) = 0
    BY DEF NoProc
  <2> QED BY <2>1, NoLevels, BoundsAssumption DEF Init, DclOK
<1>3. LevelsOK
  BY BoundsAssumption DEF Init, LevelsOK
<1>4. LoopsOK
  BY DEF Init, LoopsOK
<1>5. RestOK /\ StateOK
  BY DEF Init, RestOK, StateOK, States
<1> QED BY <1>1, <1>2, <1>3, <1>4, <1>5 DEF Typed

LEMMA UnchangedType == Typed /\ UNCHANGED vars => Typed'
BY DEF vars, fileVars, levelVars, callVars, loopVars, stepVars, breakVars,
       Typed, CallsOK, CmdOK, DclOK, LevelsOK, LoopsOK, RestOK, StateOK

LEMMA NextTyped ==
  ASSUME Typed, LevelsInv, [Next]_vars
  PROVE  Typed'
<1>1. CASE dcl_state = "ENDED"
  BY <1>1, EndedStays, UnchangedType
<1>2. CASE dcl_state # "ENDED"
  <2>1. Live
    BY <1>2 DEF Live
  <2>2. CASE NextCommandLine
    <3>1. {"SYS$DCL:login", "SYS$LOGIN:login", "SYS$LOGIN:logout", "SYS$DCL:logout"} \subseteq Names
      BY NamesAssumption
    <3>2. {"LOGIN", "LOGIN_HOME"} \subseteq States /\ {2, 3} \subseteq 0..3
      BY DEF States
    <3> QED BY <2>1, <2>2, <3>1, <3>2, LoginType, ArgumentsType, LogoutFileType, StoppedType, ReadLineType,
               ReadEofType, StepDoneType, EndType DEF NextCommandLine
  <2>3. CASE Execute \/ OnError \/ OnBreak
    BY <2>1, <2>3, ExecuteType, EndOfCommandType
  <2>4. CASE User
    BY <2>1, <2>4, TypedLineType, CtrlCType DEF User
  <2> QED BY <2>2, <2>3, <2>4, UnchangedType DEF Next, Program
<1> QED BY <1>1, <1>2

\* The interpreter's variables always have their types: neither level counter
\* leaves its array, no procedure level holds more condition codes than cc[]
\* has room for, and only command lines are ever executed.
THEOREM AlwaysTyped == Spec => []TypeOK
<1>1. Init => Typed /\ LevelsInv
  BY InitTyped DEF Init, LevelsInv
<1>2. Typed /\ LevelsInv /\ [Next]_vars => (Typed /\ LevelsInv)'
  BY NextTyped, NextKeepsLevels
<1>3. Typed => TypeOK
  BY TypedIsTypeOK
<1> QED BY <1>1, <1>2, <1>3, PTL DEF Spec

-----------------------------------------------------------------------------
(***************************************************************************)
(* What a procedure leaves in the two level arrays: nothing above the      *)
(* current levels, and below them what its callers had there.              *)
(***************************************************************************)

(***************************************************************************)
(* What a step may do to the entries of an array whose current level goes  *)
(* from c to n: it changes none below both, and clears what it leaves.     *)
(***************************************************************************)
EntriesStep(new, old, c, n, none) ==
  \A l \in Levels :
    /\ l < Lesser(c, n) => new[l] = old[l]
    /\ l > n => new[l] = none \/ (l > c /\ new[l] = old[l])
CmdStep == EntriesStep(cmd', cmd, C, C', NoCmd)
DclStep == EntriesStep(dcl', dcl, D, D', NoProc)
EntriesKept == CmdStep /\ DclStep

\* Most steps stay on their level and change no entry but its own.
CmdHere(lines) == DOMAIN lines = Levels /\ \A l \in Levels : l # C => lines[l] = cmd[l]
CmdOnly == C' = C /\ CmdHere(cmd')
DclOnly == D' = D /\ \A l \in Levels : l # D => dcl'[l] = dcl[l]

LEMMA OnlyHere ==
  ASSUME Live
  PROVE  (CmdOnly => CmdStep) /\ (DclOnly => DclStep)
<1>1. C \in Int /\ D \in Int /\ \A l \in Levels : l \in Int
  BY CurrentLevels DEF Levels
<1>2. CmdOnly => CmdStep
  BY <1>1 DEF CmdOnly, CmdHere, CmdStep, EntriesStep, Lesser
<1>3. DclOnly => DclStep
  BY <1>1 DEF DclOnly, DclStep, EntriesStep, Lesser
<1> QED BY <1>2, <1>3

\* What the handlers do to the entry of the command level they run at.
LEMMA CmdChanges ==
  ASSUME Live, NEW lines, CmdHere(lines)
  PROVE  /\ CmdHere(NextLine(lines)) /\ CmdHere(Popped(lines))
         /\ \A x : CmdHere([lines EXCEPT ![C].ln = x])
         /\ \A x : CmdHere([lines EXCEPT ![C].stop = x])
         /\ \A x : CmdHere([lines EXCEPT ![C].subr = x])
BY DEF CmdHere, NextLine, Popped

LEMMA CmdItself == Live => CmdHere(cmd) /\ CmdHere(NextLine(cmd))
BY DEF CmdHere, NextLine, Live, Typed, CmdOK

LEMMA DclChanges ==
  ASSUME Live, D' = D
  PROVE  /\ UNCHANGED dcl => DclOnly
         /\ \A x : dcl' = [dcl EXCEPT ![D].cc = x] => DclOnly
         /\ \A x : dcl' = [dcl EXCEPT ![D].ON = x] => DclOnly
         /\ \A x : dcl' = [dcl EXCEPT ![D].ON_break_command = x] => DclOnly
         /\ \A x, y : dcl' = [dcl EXCEPT ![D].ON_severity = x, ![D].ON_error_command = y] => DclOnly
BY DEF DclOnly, Live, Typed, DclOK

(***************************************************************************)
(* Entering and leaving levels.                                            *)
(***************************************************************************)
LEMMA EnterKeeps ==
  ASSUME Live, NEW out, EnterProcLevel(out)
  PROVE  DclStep
<1>1. D \in Int /\ \A l \in Levels : l \in Int
  BY CurrentLevels DEF Levels
<1>2. D' = D + 1 /\ \A l \in Levels : l # D + 1 => dcl'[l] = dcl[l]
  BY DEF EnterProcLevel, Live, Typed, DclOK
<1> QED BY <1>1, <1>2 DEF DclStep, EntriesStep, Lesser

LEMMA ExitKeeps ==
  ASSUME Live, ExitProcLevel
  PROVE  DclStep
<1>1. D \in Levels /\ \A l \in Levels : l \in Int
  BY CurrentLevels DEF Levels
<1>2. D' = D - 1 /\ dcl'[D] = NoProc /\ \A l \in Levels : l # D => dcl'[l] = dcl[l]
  BY <1>1 DEF ExitProcLevel, Live, Typed, DclOK
<1> QED BY <1>1, <1>2 DEF DclStep, EntriesStep, Lesser

LEMMA ExitFileKeeps ==
  ASSUME Live, NEW back, NEW lines, CmdHere(lines), ExitFile(lines, back)
  PROVE  EntriesKept
<1>1. CASE C > 1
  <2>1. C \in Levels /\ C - 1 \in Levels /\ \A l \in Levels : l \in Int
    BY <1>1, CurrentLevels, BoundsAssumption DEF Levels
  <2>2. C' = C - 1 /\ cmd' = [lines EXCEPT ![C] = NoCmd, ![C - 1].ln = @ - back] /\ ExitProcLevel
    BY <1>1 DEF ExitFile
  <2>3. cmd'[C] = NoCmd /\ \A l \in Levels : l # C /\ l # C - 1 => cmd'[l] = cmd[l]
    BY <2>1, <2>2 DEF CmdHere
  <2>4. CmdStep
    <3> SUFFICES ASSUME NEW l \in Levels
                 PROVE  /\ l < C - 1 => cmd'[l] = cmd[l]
                        /\ l > C - 1 => cmd'[l] = NoCmd \/ (l > C /\ cmd'[l] = cmd[l])
      <4>1. C' = C - 1 /\ Lesser(C, C') = C - 1
        BY <2>1, <2>2 DEF Lesser
      <4> QED BY <4>1 DEF CmdStep, EntriesStep
    <3>1. C \in Int /\ l \in Int
      BY <2>1
    <3> QED BY <2>3, <3>1
  <2> QED BY <2>2, <2>4, ExitKeeps DEF EntriesKept
<1>2. CASE ~(C > 1)
  <2>1. CmdHere(NextLine(lines))
    BY CmdChanges
  <2>2. cmd' = [NextLine(lines) EXCEPT ![C].ln = @ - back] /\ C' = C /\ D' = D /\ UNCHANGED dcl
    BY <1>2 DEF ExitFile, KeepLevels
  <2>3. CmdOnly /\ DclOnly
    BY <2>1, <2>2, CmdChanges, DclChanges DEF CmdOnly
  <2> QED BY <2>3, OnlyHere DEF EntriesKept
<1> QED BY <1>1, <1>2

LEMMA ExitSubroutineKeeps ==
  ASSUME Live, dcl_subr # 0, NEW back, NEW lines, CmdHere(lines), ExitSubroutine(lines, back)
  PROVE  EntriesKept
<1> DEFINE left == IF cmd[C].stack = << >> THEN NextLine(lines) ELSE Popped(lines)
<1>1. CmdHere(left)
  BY CmdChanges
<1>2. cmd' = [left EXCEPT ![C].ln = left[C].ln - back] /\ C' = C
  BY DEF ExitSubroutine
<1>3. CmdOnly
  <2> HIDE DEF left
  <2> QED BY <1>1, <1>2, CmdChanges DEF CmdOnly
<1>4. D > 1
  BY CurrentLevels DEF Live, Typed, LevelsOK, Levels
<1>5. DclStep
  BY <1>4, ExitKeeps DEF ExitSubroutine
<1> QED BY <1>3, <1>5, OnlyHere DEF EntriesKept

LEMMA ExitLevelKeeps ==
  ASSUME Live, NEW back, ExitLevel(back)
  PROVE  EntriesKept
<1>1. CmdHere(NextLine(cmd))
  BY CmdItself
<1>2. CASE cmd' = [NextLine(cmd) EXCEPT ![C].ln = @ - back] /\ KeepLevels
  <2>1. CmdOnly /\ DclOnly
    BY <1>1, <1>2, CmdChanges, DclChanges DEF CmdOnly, KeepLevels
  <2> QED BY <2>1, OnlyHere DEF EntriesKept
<1> QED BY <1>1, <1>2, ExitFileKeeps, ExitSubroutineKeeps DEF ExitLevel

(***************************************************************************)
(* The handlers.                                                           *)
(***************************************************************************)
LEMMA HereKeeps ==
  ASSUME Live, CmdOnly, DclOnly
  PROVE  EntriesKept
BY OnlyHere DEF EntriesKept

LEMMA SameKeeps == Live /\ UNCHANGED <<C, cmd, D, dcl>> => EntriesKept
BY CmdItself, DclChanges, HereKeeps DEF CmdOnly

LEMMA NextLineKeeps ==
  ASSUME Live, NEXT_LINE \/ UNCHANGED cmd, UNCHANGED C, DclOnly
  PROVE  EntriesKept
<1>1. CmdOnly
  BY CmdItself DEF NEXT_LINE, CmdOnly
<1> QED BY <1>1, HereKeeps

\* A handler that leaves the levels as they are and moves to some line.
LEMMA MoveKeeps ==
  ASSUME Live, NEW x, cmd' = [cmd EXCEPT ![C].ln = x], UNCHANGED C, DclOnly
  PROVE  EntriesKept
<1>1. CmdOnly
  BY CmdItself, CmdChanges DEF CmdOnly
<1> QED BY <1>1, HereKeeps

LEMMA SkipKeeps == Live /\ (Skip \/ Reject \/ RejectInPlace) /\ C' = C => EntriesKept
<1> SUFFICES ASSUME Live, Skip \/ Reject \/ RejectInPlace, C' = C PROVE EntriesKept
  OBVIOUS
<1>1. (NEXT_LINE \/ UNCHANGED cmd) /\ UNCHANGED <<D, dcl>>
  BY DEF Skip, Reject, RejectInPlace, KeepLevels
<1>2. DclOnly
  BY <1>1, DclChanges
<1> QED BY <1>1, <1>2, NextLineKeeps

\* GOSUB and CALL push their return address at the level they run at.
LEMMA PushReturnHere == Live /\ cmd' = PushReturn /\ C' = C => CmdOnly
<1> SUFFICES ASSUME Live, cmd' = PushReturn, C' = C PROVE CmdOnly
  OBVIOUS
<1>1. cmd \in [Levels -> CmdLevel]
  BY DEF Live, Typed, CmdOK
<1> QED BY <1>1 DEF PushReturn, CmdOnly, CmdHere

LEMMA UndefinedKeeps == Live /\ Undefined => EntriesKept
BY SameKeeps DEF Undefined, levelVars

LEMMA EnterFileKeeps ==
  ASSUME Live, NEW file, NEW out, EnterFile(file, out)
  PROVE  EntriesKept
<1>1. CASE Undefined
  BY <1>1, UndefinedKeeps
<1>2. CASE NEXT_LINE /\ KeepLevels
  BY <1>2, NextLineKeeps, DclChanges DEF KeepLevels
<1>3. CASE EnterProcLevel(out) /\ EnterCmdLevel(file)
  <2>1. C \in Int /\ \A l \in Levels : l \in Int
    BY CurrentLevels DEF Levels
  <2>2. C' = C + 1 /\ \A l \in Levels : l # C /\ l # C + 1 => cmd'[l] = cmd[l]
    BY <1>3, CmdItself DEF EnterCmdLevel, CmdHere
  <2>3. CmdStep
    BY <2>1, <2>2 DEF CmdStep, EntriesStep, Lesser
  <2> QED BY <1>3, <2>3, EnterKeeps DEF EntriesKept
<1> QED BY <1>1, <1>2, <1>3 DEF EnterFile

LEMMA LevelCommandKeeps ==
  ASSUME Live, LevelCommand
  PROVE  EntriesKept
<1>1. UNCHANGED <<D, dcl>> => DclOnly
  BY DclChanges
<1>2. CASE Goto
  <2>1. KeepLevels
    BY <1>2 DEF Goto, Skip, Reject, RejectInPlace
  <2> QED BY <1>1, <1>2, <2>1, SkipKeeps, MoveKeeps DEF Goto, KeepLevels
<1>3. CASE Gosub
  <2>1. KeepLevels
    BY <1>3 DEF Gosub, Skip, Reject, RejectInPlace
  <2> QED BY <1>1, <1>3, <2>1, SkipKeeps, PushReturnHere, HereKeeps DEF Gosub, KeepLevels
<1>4. CASE CallSubroutine
  <2>1. CASE Skip \/ Reject \/ RejectInPlace
    BY <2>1, SkipKeeps DEF Skip, Reject, RejectInPlace, KeepLevels
  <2>2. CASE Undefined
    BY <2>2, UndefinedKeeps
  <2>3. CASE cmd' = PushReturn /\ BeginSubroutine(Head(Command).out) /\ UNCHANGED C
    BY <2>3, PushReturnHere, OnlyHere, EnterKeeps DEF BeginSubroutine, EntriesKept
  <2> QED BY <1>4, <2>1, <2>2, <2>3 DEF CallSubroutine
<1>5. CASE Return
  <2>1. CmdOnly
    BY <1>5, CmdItself, CmdChanges DEF Return, KeepLevels, CmdOnly
  <2> QED BY <1>1, <1>5, <2>1, HereKeeps DEF Return, KeepLevels
<1>6. CASE Subroutine
  <2>1. CmdOnly
    BY <1>6, CmdItself, CmdChanges DEF Subroutine, KeepLevels, CmdOnly
  <2> QED BY <1>1, <1>6, <2>1, HereKeeps DEF Subroutine, KeepLevels
<1>7. CASE EndSubroutine
  <2>1. CASE dcl_subr # 0 /\ ExitSubroutine(cmd, 0)
    BY <2>1, CmdItself, ExitSubroutineKeeps
  <2>2. CASE cmd' = [NextLine(cmd) EXCEPT ![C].subr = FALSE] /\ KeepLevels
    <3>1. CmdOnly
      BY <2>2, CmdItself, CmdChanges DEF KeepLevels, CmdOnly
    <3> QED BY <1>1, <2>2, <3>1, HereKeeps DEF KeepLevels
  <2>3. CASE Reject
    BY <2>3, SkipKeeps DEF Reject, KeepLevels
  <2> QED BY <1>7, <2>1, <2>2, <2>3 DEF EndSubroutine
<1>8. CASE Exit
  BY <1>8, ExitLevelKeeps DEF Exit
<1>9. CASE ProcedureFile
  BY <1>9, SkipKeeps, EnterFileKeeps DEF ProcedureFile, RejectInPlace, KeepLevels
<1>10. CASE Logout
  <2>1. CmdOnly
    BY <1>10, CmdItself, CmdChanges DEF Logout, KeepLevels, CmdOnly
  <2> QED BY <1>1, <1>10, <2>1, HereKeeps DEF Logout, KeepLevels
<1> QED BY <1>2, <1>3, <1>4, <1>5, <1>6, <1>7, <1>8, <1>9, <1>10 DEF LevelCommand

\* The blocks and loops change the condition codes of their level and its line.
LEMMA SetCCKeeps == Live /\ D' = D /\ (UNCHANGED dcl \/ \E cc : SetCC(cc)) => DclOnly
BY DclChanges DEF SetCC

LEMMA ConditionCommandKeeps ==
  ASSUME Live, ConditionCommand
  PROVE  EntriesKept
<1>1. CASE LoopOutOfBounds
  BY <1>1, UndefinedKeeps DEF LoopOutOfBounds
<1>2. CASE ~LoopOutOfBounds
  <2>1. UNCHANGED <<C, D>>
    BY <1>2 DEF ConditionCommand, If, Then, Else, EndIf, While, EndWhile, Repeat, Until, KeepBlocks
  <2>2. UNCHANGED dcl \/ \E cc : SetCC(cc)
    BY <1>2 DEF ConditionCommand, If, Then, Else, EndIf, While, EndWhile, Repeat, Until, PushCondition
  <2>3. DclOnly
    BY <2>1, <2>2, SetCCKeeps
  <2>4. \/ NEXT_LINE \/ UNCHANGED cmd
        \/ \E x : cmd' = [cmd EXCEPT ![C].ln = x]
    BY <1>2 DEF ConditionCommand, If, Then, Else, EndIf, While, EndWhile, Repeat, Until
  <2> QED BY <2>1, <2>3, <2>4, NextLineKeeps, MoveKeeps
<1> QED BY <1>1, <1>2

LEMMA ExecuteKeeps ==
  ASSUME Live, Execute
  PROVE  EntriesKept
<1>1. CASE LevelCommand \/ ConditionCommand
  BY <1>1, LevelCommandKeeps, ConditionCommandKeeps
<1>2. CASE PlainCommand
  <2>1. NEXT_LINE /\ InteractionCommandKeeps
    BY <1>2 DEF PlainCommand, Empty, Ordinary, FileCommand, Unknown, On, SetOn
  <2>2. \/ UNCHANGED dcl
        \/ \E x : dcl' = [dcl EXCEPT ![D].ON = x] \/ dcl' = [dcl EXCEPT ![D].ON_break_command = x]
        \/ \E x, y : dcl' = [dcl EXCEPT ![D].ON_severity = x, ![D].ON_error_command = y]
    BY <1>2 DEF PlainCommand, Empty, Ordinary, FileCommand, Unknown, On, SetOn
  <2>3. DclOnly
    BY <2>1, <2>2, DclChanges DEF InteractionCommandKeeps
  <2> QED BY <2>1, <2>3, NextLineKeeps DEF InteractionCommandKeeps
<1>3. CASE StepCommand
  <2>1. CASE Cancel
    BY <2>1, ExitLevelKeeps DEF Cancel
  <2>2. CASE ~Cancel
    <3>1. (NEXT_LINE \/ UNCHANGED cmd) /\ UNCHANGED <<C, D, dcl>>
      BY <1>3, <2>2 DEF StepCommand, SetStep, StepWord, InteractionCommandKeeps
    <3> QED BY <3>1, DclChanges, NextLineKeeps
  <2> QED BY <2>1, <2>2
<1>4. CASE ControlCommand
  <2>1. CASE Undefined
    BY <2>1, UndefinedKeeps
  <2>2. CASE NEXT_LINE /\ UNCHANGED dcl /\ InteractionCommandKeeps
    BY <2>2, DclChanges, NextLineKeeps DEF InteractionCommandKeeps
  <2> QED BY <1>4, <2>1, <2>2 DEF ControlCommand, SetControl
<1> QED BY <1>1, <1>2, <1>3, <1>4 DEF Execute

(***************************************************************************)
(* Every step.                                                             *)
(***************************************************************************)
LEMMA NextKeepsEntries ==
  ASSUME Live, [Next]_vars, ~End
  PROVE  EntriesKept
<1>1. CASE Execute
  BY <1>1, ExecuteKeeps
<1>2. CASE ReadEof
  BY <1>2, ExitLevelKeeps DEF ReadEof
<1>3. CASE \/ LogoutFile("LOGOUT_HOME", "SYS$LOGIN:logout", 2)
           \/ LogoutFile("LOGOUT", "SYS$DCL:logout", 3) \/ Arguments
  <2>1. UNCHANGED <<C, D, dcl>> /\ (UNCHANGED cmd \/ \E x : cmd' = [cmd EXCEPT ![C].stop = x])
    BY <1>3 DEF LogoutFile, Arguments
  <2>2. CmdOnly /\ DclOnly
    BY <2>1, CmdItself, CmdChanges, DclChanges DEF CmdOnly
  <2> QED BY <2>2, HereKeeps
<1>4. CASE StepDone \/ ReadLine
  <2>1. UNCHANGED <<C, D, dcl>> /\ \E x : cmd' = [cmd EXCEPT ![C].ln = x]
    BY <1>4 DEF StepDone, ReadLine
  <2> QED BY <2>1, MoveKeeps, DclChanges
<1>5. CASE \/ Login("INIT", "SYS$DCL:login", "LOGIN") \/ Login("INIT_HOME", "SYS$LOGIN:login", "LOGIN_HOME")
           \/ Stopped \/ OnError \/ OnBreak \/ User \/ UNCHANGED vars
  <2>1. UNCHANGED levelVars
    BY <1>5 DEF Login, Stopped, OnError, OnBreak, EndOfCommandKeeps, User, ReadKbd, StepPrompt, CtrlC, vars
  <2> QED BY <2>1, SameKeeps DEF levelVars
<1> QED BY <1>1, <1>2, <1>3, <1>4, <1>5 DEF Next, Program, NextCommandLine

LEMMA NextKeepsClear ==
  ASSUME Typed, LevelsInv, UnusedLevelsClear, [Next]_vars
  PROVE  UnusedLevelsClear'
<1>1. CASE UNCHANGED vars
  BY <1>1 DEF vars, levelVars, UnusedLevelsClear
<1>2. CASE End
  <2>1. cmd' = [l \in Levels |-> NoCmd] /\ dcl' = [l \in Levels |-> NoProc]
    BY <1>2 DEF End
  <2> QED BY <2>1 DEF UnusedLevelsClear
<1>3. CASE dcl_state # "ENDED" /\ ~End
  <2>1. EntriesKept
    BY <1>3, NextKeepsEntries DEF Live
  <2> QED BY <2>1 DEF EntriesKept, CmdStep, DclStep, EntriesStep, UnusedLevelsClear
<1> QED BY <1>1, <1>2, <1>3, EndedStays

\* The code relies on it: EnterProcLevel and EnterCmdLevel take the CTRL/Y command and
\* the flag of a skipped definition from the entry that they reuse.  So a procedure starts
\* with those of no procedure before it, however that one ended.
THEOREM UnusedLevelsAlwaysClear == Spec => []UnusedLevelsClear
<1>1. Init => UnusedLevelsClear
  BY DEF Init, UnusedLevelsClear
<1>2. Init => Typed /\ LevelsInv
  BY InitTyped DEF Init, LevelsInv
<1>3. Typed /\ LevelsInv /\ UnusedLevelsClear /\ [Next]_vars => (Typed /\ LevelsInv /\ UnusedLevelsClear)'
  BY NextTyped, NextKeepsLevels, NextKeepsClear
<1> QED BY <1>1, <1>2, <1>3, PTL DEF Spec

\* Whatever a procedure does, and however it or a subroutine ends, the levels of its
\* callers are as they were: their lines, return addresses, conditions and ON commands.
THEOREM OuterLevelsAlwaysKept == Spec => OuterLevelsKept
<1>1. Init => Typed /\ LevelsInv
  BY InitTyped DEF Init, LevelsInv
<1>2. Typed /\ LevelsInv /\ [Next]_vars => (Typed /\ LevelsInv)'
  BY NextTyped, NextKeepsLevels
<1>3. Typed /\ LevelsInv /\ [Next]_vars =>
        [\/ Ended'
         \/ \A l \in Levels : /\ l < Lesser(C, C') => cmd'[l] = cmd[l]
                              /\ l < Lesser(D, D') => dcl'[l] = dcl[l]]_vars
  <2> SUFFICES ASSUME Typed, LevelsInv, Next, ~(UNCHANGED vars)
               PROVE  \/ Ended'
                      \/ \A l \in Levels : /\ l < Lesser(C, C') => cmd'[l] = cmd[l]
                                           /\ l < Lesser(D, D') => dcl'[l] = dcl[l]
    OBVIOUS
  <2>1. CASE End
    BY <2>1 DEF End, Ended
  <2>2. CASE ~End
    <3>1. EntriesKept
      BY <2>2, EndedStays, NextKeepsEntries DEF Live
    <3> QED BY <3>1 DEF EntriesKept, CmdStep, DclStep, EntriesStep
  <2> QED BY <2>1, <2>2
<1> QED BY <1>1, <1>2, <1>3, PTL DEF Spec, OuterLevelsKept

(***************************************************************************)
(* The levels are the activations that Activations promises.               *)
(***************************************************************************)

Stack(c, d) == [i \in 1..d |-> IF i = 1 THEN "terminal" ELSE IF i <= c THEN "file" ELSE "subroutine"]
Activation == {"terminal", "file", "subroutine"}

LEMMA StackShape ==
  ASSUME NEW c \in Nat, NEW d \in Nat
  PROVE  Stack(c, d) \in Seq(Activation) /\ Len(Stack(c, d)) = d
<1>1. Stack(c, d) \in [1..d -> Activation]
  BY DEF Stack, Activation
<1> QED BY <1>1

\* A subroutine begins on top of the stack.
LEMMA StackGrows ==
  ASSUME NEW c \in Nat \ {0}, NEW d \in Nat, c <= d
  PROVE  Stack(c, d + 1) = Append(Stack(c, d), "subroutine")
<1>1. /\ Stack(c, d) \in Seq(Activation) /\ Len(Stack(c, d)) = d
      /\ Stack(c, d + 1) \in Seq(Activation) /\ Len(Stack(c, d + 1)) = d + 1
  BY StackShape
<1>2. /\ Append(Stack(c, d), "subroutine") \in Seq(Activation) /\ Len(Append(Stack(c, d), "subroutine")) = d + 1
      /\ \A i \in 1..d : Append(Stack(c, d), "subroutine")[i] = Stack(c, d)[i]
      /\ Append(Stack(c, d), "subroutine")[d + 1] = "subroutine"
  BY <1>1, AppendProperties DEF Activation
<1>3. \A i \in 1..d + 1 : Stack(c, d + 1)[i] = IF i <= d THEN Stack(c, d)[i] ELSE "subroutine"
  BY DEF Stack
<1> QED BY <1>1, <1>2, <1>3, SeqEqual

LEMMA BetweenProperties ==
  ASSUME NEW S, NEW a \in Seq(S), NEW x \in S, NEW b \in Seq(S)
  PROVE  /\ a \o <<x>> \o b \in Seq(S) /\ Len(a \o <<x>> \o b) = Len(a) + 1 + Len(b)
         /\ \A i \in 1..Len(a) : (a \o <<x>> \o b)[i] = a[i]
         /\ (a \o <<x>> \o b)[Len(a) + 1] = x
         /\ \A i \in 1..Len(b) : (a \o <<x>> \o b)[Len(a) + 1 + i] = b[i]
<1>1. PICK m \in Nat : m = Len(a)
  OBVIOUS
<1>2. PICK n \in Nat : n = Len(b)
  OBVIOUS
<1>3. <<x>> \in Seq(S) /\ Len(<<x>>) = 1 /\ <<x>>[1] = x
  OBVIOUS
<1>4. PICK t : t = a \o <<x>>
  OBVIOUS
<1>5. t \in Seq(S) /\ Len(t) = m + 1 /\ \A i \in 1..m + 1 : t[i] = IF i <= m THEN a[i] ELSE <<x>>[i - m]
  BY <1>1, <1>3, <1>4, ConcatProperties
<1>6. (\A i \in 1..m : t[i] = a[i]) /\ t[m + 1] = x
  <2>1. \A i \in 1..m : i \in 1..m + 1 /\ i <= m
    OBVIOUS
  <2>2. m + 1 \in 1..m + 1 /\ ~(m + 1 <= m) /\ (m + 1) - m = 1
    OBVIOUS
  <2> QED BY <1>3, <1>5, <2>1, <2>2
<1>7. /\ t \o b \in Seq(S) /\ Len(t \o b) = (m + 1) + n
      /\ \A i \in 1..(m + 1) + n : (t \o b)[i] = IF i <= m + 1 THEN t[i] ELSE b[i - (m + 1)]
  <2>1. t \in Seq(S) /\ b \in Seq(S)
    BY <1>5
  <2>2. /\ t \o b \in Seq(S) /\ Len(t \o b) = Len(t) + Len(b)
        /\ \A i \in 1..Len(t) + Len(b) : (t \o b)[i] = IF i <= Len(t) THEN t[i] ELSE b[i - Len(t)]
    BY <2>1, ConcatProperties
  <2>3. Len(t) = m + 1 /\ Len(b) = n
    BY <1>2, <1>5
  <2> QED BY <2>2, <2>3
<1>8. (\A i \in 1..m + 1 : (t \o b)[i] = t[i]) /\ \A i \in 1..n : (t \o b)[m + 1 + i] = b[i]
  <2>1. \A i \in 1..m + 1 : i \in 1..(m + 1) + n /\ i <= m + 1
    OBVIOUS
  <2>2. \A i \in 1..n : m + 1 + i \in 1..(m + 1) + n /\ ~(m + 1 + i <= m + 1) /\ (m + 1 + i) - (m + 1) = i
    OBVIOUS
  <2> QED BY <1>7, <2>1, <2>2
<1>9. (\A i \in 1..m : i \in 1..m + 1) /\ m + 1 \in 1..m + 1
  OBVIOUS
<1> QED BY <1>1, <1>2, <1>4, <1>6, <1>7, <1>8, <1>9

\* A file begins above the files and below the subroutines.
LEMMA StackInserts ==
  ASSUME NEW c \in Nat \ {0}, NEW d \in Nat, c <= d
  PROVE  Stack(c + 1, d + 1) = Promise!InsertAt(Stack(c, d), c + 1, "file")
<1> DEFINE s == Stack(c, d)
           files == SubSeq(s, 1, c)
           subs == SubSeq(s, c + 1, d)
           inserted == files \o <<"file">> \o subs
<1>1. /\ s \in Seq(Activation) /\ Len(s) = d
      /\ Stack(c + 1, d + 1) \in Seq(Activation) /\ Len(Stack(c + 1, d + 1)) = d + 1
  BY StackShape
<1>2. \A i \in 1..d : s[i] \in Activation
  BY DEF Stack, Activation
<1>3. files \in Seq(Activation) /\ Len(files) = c /\ \A i \in 1..c : files[i] = s[i]
  <2>1. \A i \in 1..c : s[i] \in Activation
    BY <1>2
  <2>2. 1 + c - 1 = c
    OBVIOUS
  <2> QED BY <2>1, <2>2, SubSeqProperties
<1>4. subs \in Seq(Activation) /\ Len(subs) = d - c /\ \A i \in 1..d - c : subs[i] = s[c + i]
  <2>1. \A i \in c + 1..d : s[i] \in Activation
    BY <1>2
  <2>2. c + 1 \in Nat /\ d - (c + 1) + 1 = d - c /\ \A i \in 1..d - c : (c + 1) + i - 1 = c + i
    OBVIOUS
  <2> QED BY <2>1, <2>2, SubSeqProperties
<1>5. "file" \in Activation
  BY DEF Activation
<1>6. /\ inserted \in Seq(Activation) /\ Len(inserted) = Len(files) + 1 + Len(subs)
      /\ \A i \in 1..Len(files) : inserted[i] = files[i]
      /\ inserted[Len(files) + 1] = "file"
      /\ \A i \in 1..Len(subs) : inserted[Len(files) + 1 + i] = subs[i]
  <2>1. PICK a \in Seq(Activation), b \in Seq(Activation) : a = files /\ b = subs
    BY <1>3, <1>4
  <2>2. /\ a \o <<"file">> \o b \in Seq(Activation) /\ Len(a \o <<"file">> \o b) = Len(a) + 1 + Len(b)
        /\ \A i \in 1..Len(a) : (a \o <<"file">> \o b)[i] = a[i]
        /\ (a \o <<"file">> \o b)[Len(a) + 1] = "file"
        /\ \A i \in 1..Len(b) : (a \o <<"file">> \o b)[Len(a) + 1 + i] = b[i]
    BY <1>5, BetweenProperties
  <2> QED BY <2>1, <2>2
<1>7. /\ Len(inserted) = d + 1
      /\ \A i \in 1..d + 1 : inserted[i] = IF i <= c THEN s[i] ELSE IF i = c + 1 THEN "file" ELSE s[i - 1]
  <2> HIDE DEF s, files, subs, inserted
  <2>1. c + 1 + (d - c) = d + 1
    OBVIOUS
  <2>2. Len(inserted) = c + 1 + (d - c)
    BY <1>3, <1>4, <1>6
  <2>3. \A i \in 1..c : inserted[i] = s[i]
    BY <1>3, <1>6
  <2>4. inserted[c + 1] = "file"
    BY <1>3, <1>6
  <2>5. \A i \in 1..d - c : inserted[c + 1 + i] = s[c + i]
    BY <1>3, <1>4, <1>6
  <2>6. \A i \in 1..d + 1 : i \in 1..c \/ i = c + 1 \/ (~(i <= c) /\ i # c + 1 /\ i - (c + 1) \in 1..d - c)
    OBVIOUS
  <2>7. \A i \in 1..d + 1 : c + 1 + (i - (c + 1)) = i /\ c + (i - (c + 1)) = i - 1 /\ (i \in 1..c => i <= c) /\ ~(c + 1 <= c)
    OBVIOUS
  <2> QED BY <2>1, <2>2, <2>3, <2>4, <2>5, <2>6, <2>7
<1>8. \A i \in 1..d + 1 :
        Stack(c + 1, d + 1)[i] = IF i <= c THEN s[i] ELSE IF i = c + 1 THEN "file" ELSE s[i - 1]
  BY DEF Stack
<1>9. Stack(c + 1, d + 1) = inserted
  <2> HIDE DEF inserted
  <2> QED BY <1>1, <1>6, <1>7, <1>8, SeqEqual
<1>10. (c + 1) - 1 = c
  OBVIOUS
<1> QED BY <1>1, <1>9, <1>10 DEF Promise!InsertAt

LEMMA StackShrinks ==
  ASSUME NEW c \in Nat, NEW d \in Nat, 1 < d, NEW e \in Nat, e = c \/ (e = c - 1 /\ c = d)
  PROVE  Stack(e, d - 1) = Promise!Front(Stack(c, d))
<1> d - 1 \in Nat
  OBVIOUS
<1>1. /\ Stack(c, d) \in Seq(Activation) /\ Len(Stack(c, d)) = d
      /\ Stack(e, d - 1) \in Seq(Activation) /\ Len(Stack(e, d - 1)) = d - 1
  BY StackShape
<1>2. \A i \in 1..d - 1 : Stack(c, d)[i] \in Activation
  BY DEF Stack, Activation
<1>3. /\ SubSeq(Stack(c, d), 1, d - 1) \in Seq(Activation) /\ Len(SubSeq(Stack(c, d), 1, d - 1)) = d - 1
      /\ \A i \in 1..d - 1 : SubSeq(Stack(c, d), 1, d - 1)[i] = Stack(c, d)[i]
  BY <1>2, SubSeqProperties
<1>4. \A i \in 1..d - 1 : Stack(e, d - 1)[i] = Stack(c, d)[i]
  BY DEF Stack
<1> QED BY <1>1, <1>3, <1>4, SeqEqual DEF Promise!Front

LEMMA RunningIsStack == Running = Stack(C, D) /\ Running' = Stack(C', D')
BY DEF Running, Stack

\* Whatever a step does to the levels, it begins one activation or ends the newest.
LEMMA StepsInOrder ==
  ASSUME LevelsInv, LevelStep, dcl_state # "ENDED"
  PROVE  Promise!Next \/ UNCHANGED Running
<1>1. C \in Nat \ {0} /\ D \in Nat /\ C <= D /\ D = C + dcl_subr /\ dcl_subr \in Nat
  BY DEF LevelsInv
<1>2. Running = Stack(C, D) /\ Running' = Stack(C', D') /\ Len(Running) = D
  BY <1>1, RunningIsStack, StackShape
<1>3. CASE SameLevels
  BY <1>2, <1>3 DEF SameLevels
<1>4. CASE C' = C + 1 /\ D' = D + 1 /\ dcl_subr' = dcl_subr
  <2>1. Running' = Promise!InsertAt(Running, C + 1, "file")
    BY <1>1, <1>2, <1>4, StackInserts
  <2>2. C + 1 \in 2..D + 1
    BY <1>1
  <2>3. \A j \in 2..D : Running[j] = IF j < C + 1 THEN "file" ELSE "subroutine"
    BY <1>1, <1>2 DEF Stack
  <2> QED BY <1>2, <2>1, <2>2, <2>3 DEF Promise!Next, Promise!BeginFile
<1>5. CASE C' = C /\ D' = D + 1
  <2>1. Running' = Append(Running, "subroutine")
    BY <1>1, <1>2, <1>5, StackGrows
  <2> QED BY <2>1 DEF Promise!Next, Promise!BeginSubroutine
<1>6. CASE dcl_subr # 0 /\ C' = C /\ D' = IF D > 1 THEN D - 1 ELSE D
  <2>1. 1 < D /\ D' = D - 1
    BY <1>1, <1>6
  <2>2. Running' = Promise!Front(Running)
    BY <1>1, <1>2, <1>6, <2>1, StackShrinks
  <2> QED BY <1>2, <2>1, <2>2 DEF Promise!Next, Promise!EndNewest
<1>7. CASE C > 1 /\ dcl_subr = 0 /\ C' = C - 1 /\ D' = D - 1
  <2>1. 1 < D /\ C' \in Nat
    BY <1>1, <1>7
  <2>2. Running' = Promise!Front(Running)
    BY <1>1, <1>2, <1>7, <2>1, StackShrinks
  <2> QED BY <1>2, <2>1, <2>2 DEF Promise!Next, Promise!EndNewest
<1> QED BY <1>3, <1>4, <1>5, <1>6, <1>7 DEF LevelStep

\* However files and subroutines run one another, a step begins one or ends one, and what
\* ends is the newest subroutine, or the newest file when no subroutine runs: the level
\* arrays implement Activations.
THEOREM ActivationsAlwaysOrdered == Spec => ActivationsOrdered
<1>1. Init => LevelsInv
  BY DEF Init, LevelsInv
<1>2. LevelsInv /\ [Next]_vars => LevelsInv'
  BY NextKeepsLevels
<1>3. Init => Promise!Init
  <2> SUFFICES ASSUME Init PROVE Promise!Init
    OBVIOUS
  <2>1. Running = Stack(1, 1) /\ Len(Stack(1, 1)) = 1 /\ Stack(1, 1) \in Seq(Activation)
    BY RunningIsStack, StackShape DEF Init
  <2>2. Stack(1, 1)[1] = "terminal" /\ <<"terminal">> \in Seq(Activation) /\ Len(<<"terminal">>) = 1
    BY DEF Stack, Activation
  <2>3. Running = <<"terminal">>
    BY <2>1, <2>2, SeqEqual
  <2> QED BY <2>3 DEF Promise!Init
<1>4. LevelsInv /\ [Next]_vars => [Promise!Next]_Running
  <2> SUFFICES ASSUME LevelsInv, [Next]_vars PROVE Promise!Next \/ UNCHANGED Running
    OBVIOUS
  <2>1. CASE UNCHANGED vars
    BY <2>1, RunningIsStack DEF vars, levelVars
  <2>2. CASE End
    <3>1. Running' = Stack(0, 0)
      BY <2>2, RunningIsStack DEF End
    <3>2. Stack(0, 0) = << >>
      BY StackShape
    <3> QED BY <3>1, <3>2 DEF Promise!Next, Promise!Leave
  <2>3. CASE dcl_state # "ENDED" /\ Next /\ ~End
    BY <2>3, NextSteps, StepsInOrder
  <2> QED BY <2>1, <2>2, <2>3, EndedStays
<1> QED BY <1>1, <1>2, <1>3, <1>4, PTL DEF Spec, ActivationsOrdered, Promise!Spec
============================================================================
