--------------------------- MODULE DclLineProofs ---------------------------
(***************************************************************************)
(* What becomes of a command of a procedure, for every procedure, keyboard *)
(* input and array size: its error is answered, its line is the one that   *)
(* its line number names and is passed once, and RETURN finds the line     *)
(* after the call.                                                         *)
(***************************************************************************)
EXTENDS DclProofs

(***************************************************************************)
(* The nested calls of dcl_process_command_line.                           *)
(***************************************************************************)
CallsIn(s) == {s[i] : i \in DOMAIN s}

\* The lines that wait while the STEP prompt runs others.
Waiting(s) == {call \in CallsIn(s) : call.phase = "step"}
NoneRuns(s) == \A call \in CallsIn(s) : call.phase # "run"

LEMMA EntryOnTop ==
  ASSUME NEW S, NEW call, NEW s \in Seq(S)
  PROVE  /\ CallsIn(<<call>> \o s) = {call} \cup CallsIn(s)
         /\ Head(<<call>> \o s) = call /\ Tail(<<call>> \o s) = s /\ <<call>> \o s # << >>
<1>1. PICK n \in Nat : n = Len(s) /\ DOMAIN s = 1..n
  OBVIOUS
<1>2. /\ DOMAIN (<<call>> \o s) = 1..n + 1
      /\ (<<call>> \o s)[1] = call /\ \A i \in 1..n : (<<call>> \o s)[i + 1] = s[i]
  BY <1>1
<1>3. \A i \in 1..n + 1 : i = 1 \/ (i - 1 \in 1..n /\ (<<call>> \o s)[i] = s[i - 1])
  <2>1. \A i \in 1..n + 1 : i = 1 \/ (i - 1 \in 1..n /\ i = (i - 1) + 1)
    BY <1>1
  <2> QED BY <1>2, <2>1
<1>4. \A i \in 1..n : i + 1 \in 1..n + 1 /\ 1 \in 1..n + 1
  BY <1>1
<1>5. CallsIn(<<call>> \o s) \subseteq {call} \cup CallsIn(s)
  BY <1>1, <1>2, <1>3 DEF CallsIn
<1>6. call \in CallsIn(<<call>> \o s)
  <2>1. 1 \in 1..n + 1
    BY <1>1
  <2> QED BY <1>2, <2>1 DEF CallsIn
<1>7. \A i \in 1..n : s[i] \in CallsIn(<<call>> \o s)
  BY <1>2, <1>4 DEF CallsIn
<1>8. CallsIn(s) \subseteq CallsIn(<<call>> \o s)
  BY <1>1, <1>7 DEF CallsIn
<1> QED BY <1>5, <1>6, <1>8

LEMMA CallOnTop ==
  ASSUME NEW call, NEW s \in Seq(Frame)
  PROVE  /\ CallsIn(<<call>> \o s) = {call} \cup CallsIn(s)
         /\ Head(<<call>> \o s) = call /\ Tail(<<call>> \o s) = s /\ <<call>> \o s # << >>
BY EntryOnTop

LEMMA TailEntries ==
  ASSUME NEW S, NEW s \in Seq(S), s # << >>
  PROVE  /\ Tail(s) \in Seq(S) /\ Head(s) = s[1] /\ 1 \in DOMAIN s
         /\ \A i \in DOMAIN Tail(s) : i + 1 \in DOMAIN s /\ Tail(s)[i] = s[i + 1]
         /\ CallsIn(Tail(s)) \subseteq CallsIn(s)
<1>1. PICK n \in Nat \ {0} : n = Len(s) /\ DOMAIN s = 1..n
  BY EmptySeq
<1>2. DOMAIN Tail(s) = 1..n - 1 /\ \A i \in 1..n - 1 : Tail(s)[i] = s[i + 1]
  BY <1>1
<1>3. \A i \in 1..n - 1 : i + 1 \in 1..n
  BY <1>1
<1>4. Tail(s) \in Seq(S) /\ Head(s) = s[1] /\ 1 \in 1..n
  BY <1>1
<1> QED BY <1>1, <1>2, <1>3, <1>4 DEF CallsIn

LEMMA VerbOfLine ==
  ASSUME NEW line \in Line, line # << >>
  PROVE  /\ \E i \in DOMAIN line : line[i] = Head(line)
         /\ Tail(line) # << >> => \E i \in DOMAIN line : line[i] = Head(Tail(line))
<1>1. line \in Seq(Word)
  BY DEF Line
<1>2. Tail(line) # << >> => 1 \in DOMAIN Tail(line) /\ Head(Tail(line)) = Tail(line)[1]
  BY <1>1, TailEntries
<1> QED BY <1>1, <1>2, TailEntries

LEMMA CallBelow ==
  ASSUME NEW s \in Seq(Frame), s # << >>
  PROVE  CallsIn(s) = {Head(s)} \cup CallsIn(Tail(s)) /\ Tail(s) \in Seq(Frame) /\ s = <<Head(s)>> \o Tail(s)
<1>1. Tail(s) \in Seq(Frame) /\ s = <<Head(s)>> \o Tail(s)
  OBVIOUS
<1> QED BY <1>1, CallOnTop

LEMMA OneCall ==
  ASSUME NEW s \in Seq(Frame), Len(s) = 1
  PROVE  s # << >> /\ Tail(s) = << >>
<1>1. s # << >>
  BY EmptySeq
<1>2. Tail(s) \in Seq(Frame) /\ Len(Tail(s)) = 0
  BY <1>1, HeadTailProperties
<1> QED BY <1>1, <1>2, EmptySeq

\* What a step does to the calls: the newest one goes on, calls another line, is
\* replaced or ends, or main() makes a first call.
GoesOn(phase) == (InPhase("run") /\ phase = "on") \/ (InPhase("on") /\ phase = "break")
CallsStep ==
  \/ UNCHANGED frames
  \/ \E phase \in {"on", "break"} : GoesOn(phase) /\ frames' = At(phase)
  \/ \E line : \E exc \in {0, 2} : InPhase("run") /\ frames' = <<Call(line, exc)>> \o At("on")
  \/ InPhase("on") /\ frames' = <<Call(dcl[D].ON_error_command, 1)>> \o At("break")
  \/ InPhase("break") /\ CTRL_Y /\ frames' = <<Call(dcl[D].ON_break_command, 1)>> \o Tail(frames)
  \/ InPhase("break") /\ frames' = Tail(frames)
  \/ \E line : InPhase("step") /\ frames' = <<Call(line, 1)>> \o frames
FirstCall == \E call : call.exc = 0 /\ call.phase \in {"step", "run"} /\ frames' = <<call>>

LEMMA HeadAt ==
  ASSUME Live, frames # << >>, NEW phase
  PROVE  /\ At(phase) # << >> /\ Head(At(phase)) = [Head(frames) EXCEPT !.phase = phase]
         /\ Head(At(phase)).phase = phase /\ Head(At(phase)).exc = Head(frames).exc
         /\ Head(At(phase)).line = Head(frames).line
<1>1. Head(frames) \in Frame /\ Tail(frames) \in Seq(Frame)
  BY CallBelow DEF Live, Typed, CallsOK
<1>2. At(phase) # << >> /\ Head(At(phase)) = [Head(frames) EXCEPT !.phase = phase]
  BY <1>1, CallOnTop DEF At
<1> QED BY <1>1, <1>2 DEF Frame

LEMMA HeadOnTop ==
  ASSUME Live, frames # << >>, NEW call
  PROVE  /\ \A phase \in {"on", "break"} : Head(<<call>> \o At(phase)) = call
         /\ Head(<<call>> \o Tail(frames)) = call /\ Head(<<call>> \o frames) = call
<1>1. frames \in Seq(Frame) /\ Tail(frames) \in Seq(Frame)
  BY CallBelow DEF Live, Typed, CallsOK
<1>2. \A phase \in {"on", "break"} : At(phase) \in Seq(Frame)
  BY AtType
<1> QED BY <1>1, <1>2, CallOnTop

\* What a handler leaves to the calls.
HandlerStep ==
  \/ UNCHANGED <<frames, SEVERITY, EXCPT, C, cmd, D, dcl, dcl_subr, dcl_state>>
  \/ Finish(SEVERITY')
  \/ \E line : \E exc \in {0, 2} : FinishWith(line, exc)

LEMMA FinishIsStep == (\E s : Finish(s)) => Finish(SEVERITY')
BY DEF Finish

LEMMA ExecuteHandles ==
  ASSUME Live, Execute
  PROVE  HandlerStep
<1>1. frames # << >> /\ Rest = Tail(Command)
  BY DEF Execute, InPhase, Rest
<1>2. CASE Undefined
  BY <1>2 DEF Undefined, levelVars, HandlerStep
<1>3. CASE \E s : Finish(s)
  BY <1>3, FinishIsStep DEF HandlerStep
<1>4. ASSUME ~Undefined, ~(\E s : Finish(s))
      PROVE  \/ FinishWith(Tail(Rest), 2) /\ Executing("if") /\ Rest # << >>
             \/ FinishWith(Rest, 2) /\ (Executing("then") \/ Executing("else"))
             \/ FinishWith(<<Wa("goto", Arg)>>, 0) /\ Executing("io")
  <2>1. CASE LevelCommand
    <3>1. \E s : Finish(s)
      BY <1>4, <2>1 DEF LevelCommand, Goto, Gosub, CallSubroutine, Return, Subroutine, EndSubroutine, Exit,
            ProcedureFile, Logout, EnterFile, Skip, Reject, RejectInPlace
    <3> QED BY <1>4, <3>1
  <2>2. CASE ConditionCommand
    BY <1>4, <2>2 DEF ConditionCommand, If, Then, Else, EndIf, While, EndWhile, Repeat, Until, LoopOutOfBounds,
          PushCondition
  <2>3. CASE PlainCommand
    BY <1>4, <2>3 DEF PlainCommand, Empty, Ordinary, FileCommand, Unknown, On, SetOn
  <2>4. CASE StepCommand \/ ControlCommand
    BY <1>4, <2>4 DEF StepCommand, SetStep, StepWord, Cancel, ControlCommand, SetControl
  <2> QED BY <2>1, <2>2, <2>3, <2>4 DEF Execute
<1> QED BY <1>2, <1>3, <1>4 DEF HandlerStep

\* The line that main() runs next.
LEMMA FirstLine ==
  ASSUME NextCommandLine \/ ReadKbd, ~End
  PROVE  /\ FirstCall /\ (MainLoop \/ StepDone)
         /\ SEVERITY' = 0 /\ EXCPT' = 0 /\ UNCHANGED <<CTRL_Y, breaks>>
<1>1. ASSUME NEW line, Process(line)
      PROVE  FirstCall /\ SEVERITY' = 0 /\ EXCPT' = 0
  BY <1>1 DEF Process, FirstCall, Call
<1>2. ASSUME NEW line, NEW ln, Stepped(line, ln)
      PROVE  FirstCall /\ SEVERITY' = 0 /\ EXCPT' = 0
  BY <1>2 DEF Stepped, FirstCall
<1>3. CASE \/ Login("INIT", "SYS$DCL:login", "LOGIN") \/ Login("INIT_HOME", "SYS$LOGIN:login", "LOGIN_HOME")
           \/ LogoutFile("LOGOUT_HOME", "SYS$LOGIN:logout", 2) \/ LogoutFile("LOGOUT", "SYS$DCL:logout", 3)
           \/ Arguments \/ ReadKbd \/ Stopped
  BY <1>1, <1>3 DEF Login, LogoutFile, Arguments, ReadKbd, Stopped, Reading, MainLoopKeeps, breakVars
<1>4. CASE ReadLine \/ ReadEof
  <2>1. MainLoop /\ UNCHANGED <<CTRL_Y, breaks>> /\ \E line : \E ln : Stepped(line, ln)
    BY <1>4 DEF ReadLine, ReadEof, Reading, MainLoopKeeps, breakVars
  <2> QED BY <1>2, <2>1
<1>5. CASE StepDone
  BY <1>1, <1>5 DEF StepDone, MainLoopKeeps, breakVars
<1> QED BY <1>3, <1>4, <1>5 DEF NextCommandLine

LEMMA NextCalls ==
  ASSUME Live, [Next]_vars, ~End
  PROVE  CallsStep \/ (FirstCall /\ (MainLoop \/ StepDone))
<1>1. CASE Execute
  <2>1. HandlerStep /\ InPhase("run")
    BY <1>1, ExecuteHandles DEF Execute
  <2>2. GoesOn("on")
    BY <2>1 DEF GoesOn
  <2> QED BY <2>1, <2>2 DEF HandlerStep, Finish, FinishWith, CallsStep
<1>2. CASE OnError
  <2>1. InPhase("on")
    BY <1>2 DEF OnError
  <2>2. GoesOn("break")
    BY <2>1 DEF GoesOn
  <2> QED BY <1>2, <2>1, <2>2 DEF OnError, CallsStep
<1>3. CASE OnBreak
  BY <1>3 DEF OnBreak, CallsStep
<1>4. CASE CtrlC \/ UNCHANGED vars
  BY <1>4 DEF CtrlC, callVars, vars, CallsStep
<1>5. CASE StepPrompt
  BY <1>5 DEF StepPrompt, CallsStep
<1>6. CASE NextCommandLine \/ ReadKbd
  BY <1>6, FirstLine
<1> QED BY <1>1, <1>2, <1>3, <1>4, <1>5, <1>6 DEF Next, Program, User

\* Only the newest call runs a command; the others wait for it.
NewestRuns == frames # << >> => NoneRuns(Tail(frames))

LEMMA WaitingOnTop ==
  ASSUME NEW call, NEW s \in Seq(Frame)
  PROVE  /\ Waiting(<<call>> \o s) = (IF call.phase = "step" THEN {call} ELSE {}) \cup Waiting(s)
         /\ NoneRuns(<<call>> \o s) <=> call.phase # "run" /\ NoneRuns(s)
<1>1. PICK calls : calls = CallsIn(s)
  OBVIOUS
<1>2. CallsIn(<<call>> \o s) = {call} \cup calls
  BY <1>1, CallOnTop
<1>3. Waiting(<<call>> \o s) = (IF call.phase = "step" THEN {call} ELSE {}) \cup Waiting(s)
  BY <1>1, <1>2 DEF Waiting
<1>4. NoneRuns(<<call>> \o s) <=> call.phase # "run" /\ NoneRuns(s)
  BY <1>1, <1>2 DEF NoneRuns
<1> QED BY <1>3, <1>4

\* A line that waits goes on waiting until main() runs it, and is the line it was.
LEMMA WaitingStays ==
  ASSUME Live, NewestRuns, CallsStep
  PROVE  NewestRuns' /\ Waiting(frames') = Waiting(frames)
<1>1. CASE UNCHANGED frames
  BY <1>1 DEF NewestRuns
<1>2. CASE ~UNCHANGED frames
  <2> DEFINE top == Head(frames)
             rest == Tail(frames)
  <2>1. frames \in Seq(Frame) /\ frames # << >> /\ frames = <<top>> \o rest /\ rest \in Seq(Frame)
    BY <1>2, CallBelow DEF CallsStep, GoesOn, InPhase, Live, Typed, CallsOK
  <2>2. top \in Frame
    BY <2>1
  <2>3. /\ Waiting(frames) = (IF top.phase = "step" THEN {top} ELSE {}) \cup Waiting(rest)
        /\ NoneRuns(rest)
    BY <2>1, WaitingOnTop DEF NewestRuns
  <2>4. ASSUME NEW phase \in {"on", "break"}
        PROVE  LET called == [top EXCEPT !.phase = phase]
               IN  /\ At(phase) = <<called>> \o rest /\ At(phase) \in Seq(Frame) /\ At(phase) # << >>
                   /\ Waiting(At(phase)) = Waiting(rest) /\ NoneRuns(At(phase)) /\ Tail(At(phase)) = rest
    <3> DEFINE called == [top EXCEPT !.phase = phase]
    <3>1. called \in Frame /\ called.phase = phase
      BY <2>2 DEF Frame
    <3>2. At(phase) = <<called>> \o rest
      BY DEF At
    <3> HIDE DEF called, top, rest
    <3>3. <<called>> \o rest \in Seq(Frame)
      BY <2>1, <3>1
    <3>4. Waiting(<<called>> \o rest) = Waiting(rest) /\ NoneRuns(<<called>> \o rest)
      BY <2>1, <2>3, <3>1, WaitingOnTop
    <3>5. Tail(<<called>> \o rest) = rest /\ <<called>> \o rest # << >>
      BY <2>1, CallOnTop
    <3> QED BY <3>2, <3>3, <3>4, <3>5 DEF called
  <2> HIDE DEF top, rest
  <2>5. ASSUME NEW phase \in {"on", "break"}, GoesOn(phase), frames' = At(phase)
        PROVE  NewestRuns' /\ Waiting(frames') = Waiting(frames)
    <3>1. top.phase # "step"
      BY <2>5 DEF GoesOn, InPhase, top
    <3> QED BY <2>3, <2>4, <2>5, <3>1 DEF NewestRuns
  <2>6. ASSUME NEW line, NEW exc, NEW s \in Seq(Frame), NoneRuns(s), frames' = <<Call(line, exc)>> \o s
        PROVE  NewestRuns' /\ Waiting(frames') = Waiting(s)
    <3>1. PICK call : call = Call(line, exc)
      OBVIOUS
    <3>3. call.phase = "run" /\ frames' = <<call>> \o s
      BY <2>6, <3>1 DEF Call
    <3>4. Waiting(<<call>> \o s) = Waiting(s)
      BY <2>6, <3>3, WaitingOnTop
    <3>5. Tail(<<call>> \o s) = s
      BY <2>6, CallOnTop
    <3>2. Waiting(frames') = Waiting(s) /\ Tail(frames') = s
      BY <3>3, <3>4, <3>5
    <3> QED BY <2>6, <3>2 DEF NewestRuns
  <2>7. ASSUME NEW line, NEW exc, NEW phase \in {"on", "break"}, GoesOn(phase),
               frames' = <<Call(line, exc)>> \o At(phase)
        PROVE  NewestRuns' /\ Waiting(frames') = Waiting(frames)
    <3>1. top.phase # "step"
      BY <2>7 DEF GoesOn, InPhase, top
    <3> QED BY <2>3, <2>4, <2>6, <2>7, <3>1
  <2>8. ASSUME NEW line, NEW exc, InPhase("break"), frames' = <<Call(line, exc)>> \o Tail(frames)
        PROVE  NewestRuns' /\ Waiting(frames') = Waiting(frames)
    <3>1. top.phase # "step" /\ Tail(frames) = rest
      BY <2>8 DEF InPhase, top, rest
    <3> QED BY <2>1, <2>3, <2>6, <2>8, <3>1
  <2>9. ASSUME InPhase("break"), frames' = Tail(frames)
        PROVE  NewestRuns' /\ Waiting(frames') = Waiting(frames)
    <3>1. top.phase # "step" /\ frames' = rest
      BY <2>9 DEF InPhase, top, rest
    <3>2. frames' # << >> => CallsIn(Tail(frames')) \subseteq CallsIn(rest)
      BY <2>1, <3>1, CallBelow
    <3> QED BY <2>3, <3>1, <3>2 DEF NewestRuns, NoneRuns
  <2>10. ASSUME NEW line, InPhase("step"), frames' = <<Call(line, 1)>> \o frames
        PROVE  NewestRuns' /\ Waiting(frames') = Waiting(frames)
    <3>1. NoneRuns(frames)
      BY <2>1, <2>3, <2>10, WaitingOnTop DEF InPhase, top
    <3> QED BY <2>1, <2>6, <2>10, <3>1
  <2>11. InPhase("run") => GoesOn("on")
    BY Zenon DEF GoesOn
  <2>12. InPhase("on") => GoesOn("break")
    BY Zenon DEF GoesOn
  <2> QED BY <1>2, <2>5, <2>7, <2>8, <2>9, <2>10, <2>11, <2>12 DEF CallsStep
<1> QED BY <1>1, <1>2

LEMMA FirstCallAlone ==
  ASSUME NEW call, frames' = <<call>>
  PROVE  NewestRuns' /\ Waiting(frames') \subseteq {call} /\ Head(frames') = call
<1>1. CallsIn(frames') = {call} /\ Tail(frames') = << >> /\ CallsIn(<< >>) = {}
  BY DEF CallsIn
<1> QED BY <1>1 DEF NewestRuns, NoneRuns, Waiting

(***************************************************************************)
(* Errors are answered.                                                    *)
(***************************************************************************)

\* The ON command of a level, as ON and SET ON have left it.
SameOn ==
  /\ D' = D /\ dcl'[D].ON = dcl[D].ON /\ dcl'[D].ON_severity = dcl[D].ON_severity
  /\ dcl'[D].ON_error_command = dcl[D].ON_error_command

LEMMA OnKept ==
  ASSUME Live, D' = D, UNCHANGED dcl \/ \E cc : SetCC(cc)
  PROVE  SameOn
<1>1. D \in Levels /\ dcl \in [Levels -> ProcLevel]
  BY CurrentLevels DEF Live, Typed, DclOK
<1>2. dcl[D] \in ProcLevel
  BY <1>1
<1>3. \A cc : dcl' = [dcl EXCEPT ![D].cc = cc] => dcl'[D] = [dcl[D] EXCEPT !.cc = cc]
  BY <1>1
<1>4. \A cc : LET level == [dcl[D] EXCEPT !.cc = cc]
              IN  /\ level.ON = dcl[D].ON /\ level.ON_severity = dcl[D].ON_severity
                  /\ level.ON_error_command = dcl[D].ON_error_command
  BY <1>2 DEF ProcLevel
<1>5. CASE UNCHANGED dcl
  BY <1>5 DEF SameOn
<1>6. ASSUME NEW cc, SetCC(cc) PROVE SameOn
  <2>1. dcl'[D] = [dcl[D] EXCEPT !.cc = cc]
    BY <1>3, <1>6 DEF SetCC
  <2> QED BY <1>4, <2>1 DEF SameOn
<1> QED BY <1>5, <1>6

LEMMA ExitLevelLeaves ==
  ASSUME Live, NEW back, ExitLevel(back)
  PROVE  D' < D \/ SameOn
<1>1. D \in Int
  BY CurrentLevels DEF Levels
<1>2. UNCHANGED <<D, dcl>> => SameOn
  BY OnKept
<1>3. ExitProcLevel => D' < D
  BY <1>1 DEF ExitProcLevel
<1> QED BY <1>2, <1>3 DEF ExitLevel, ExitSubroutine, ExitFile, KeepLevels

\* A command that fails begins no level, and changes no ON command.
LEMMA ErrorKeepsOn ==
  ASSUME Live, Execute, SEVERITY' >= 2
  PROVE  UNCHANGED <<frames, SEVERITY, D, dcl>> \/ (Finish(SEVERITY') /\ (D' < D \/ SameOn))
<1>1. ~Finish(0) /\ SEVERITY' # 0
  BY DEF Finish
<1>2. (\E s : Finish(s)) => Finish(SEVERITY')
  BY FinishIsStep
<1>3. UNCHANGED <<D, dcl>> => SameOn
  BY OnKept
<1>4. CASE Undefined
  BY <1>4 DEF Undefined, levelVars
<1>5. CASE ~Undefined
  <2>1. CASE LevelCommand
    <3>1. \/ KeepLevels /\ \E s : Finish(s)
          \/ ExitLevel(0) /\ \E s : Finish(s)
      BY <1>1, <1>5, <2>1 DEF LevelCommand, Goto, Gosub, CallSubroutine, Return, Subroutine, EndSubroutine, Exit,
            ProcedureFile, Logout, EnterFile, Skip, Reject, RejectInPlace
    <3> QED BY <1>2, <1>3, <3>1, ExitLevelLeaves DEF KeepLevels
  <2>2. CASE ConditionCommand
    <3>1. \E s : Finish(s)
      BY <1>1, <1>5, <2>2 DEF ConditionCommand, If, Then, Else, EndIf, While, EndWhile, Repeat, Until,
            LoopOutOfBounds, PushCondition, FinishWith
    <3>2. D' = D /\ (UNCHANGED dcl \/ \E cc : SetCC(cc))
      BY <1>5, <2>2 DEF ConditionCommand, If, Then, Else, EndIf, While, EndWhile, Repeat, Until,
            LoopOutOfBounds, PushCondition, KeepBlocks
    <3> QED BY <1>2, <3>1, <3>2, OnKept
  <2>3. CASE PlainCommand
    <3>1. UNCHANGED <<D, dcl>> /\ \E s : Finish(s)
      BY <1>1, <2>3 DEF PlainCommand, Empty, Ordinary, FileCommand, Unknown, On, SetOn,
            InteractionCommandKeeps, FinishWith
    <3> QED BY <1>2, <1>3, <3>1
  <2>4. CASE Cancel
    BY <1>2, <2>4, ExitLevelLeaves DEF Cancel
  <2>5. CASE (StepCommand \/ ControlCommand) /\ ~Cancel
    <3>1. UNCHANGED <<D, dcl>> /\ \E s : Finish(s)
      BY <1>1, <1>5, <2>5 DEF StepCommand, SetStep, StepWord, ControlCommand, SetControl, InteractionCommandKeeps
    <3> QED BY <1>2, <1>3, <3>1
  <2> QED BY <2>1, <2>2, <2>3, <2>4, <2>5 DEF Execute
<1> QED BY <1>4, <1>5

\* The default ON command succeeds.
LEMMA DefaultSucceeds ==
  ASSUME Execute, Head(frames).line = <<W("exit")>>
  PROVE  ~(SEVERITY' >= 2 /\ Finish(SEVERITY'))
<1>0. Command # << >> /\ Head(Command).op = "exit" /\ Head(Command).arg = ""
  <2>1. \A w : Head(<<w>>) = w /\ <<w>> # << >>
    OBVIOUS
  <2>2. W("exit").op = "exit" /\ W("exit").arg = ""
    BY DEF W
  <2>3. Command = <<W("exit")>>
    BY <2>1, <2>2 DEF Command
  <2> QED BY <2>1, <2>2, <2>3
<1>1. \A op : Executing(op) => op = "exit"
  BY <1>0 DEF Executing, Verb
<1>2. Arg = ""
  BY <1>0 DEF Arg
<1>3. Failure = 0
  BY <1>2 DEF Failure
<1>4. Exit
  <2>1. ~ConditionCommand
    BY <1>1 DEF ConditionCommand, If, Then, Else, EndIf, While, EndWhile, Repeat, Until, LoopOutOfBounds
  <2>2. ~PlainCommand /\ ~StepCommand /\ ~ControlCommand
    BY <1>1 DEF PlainCommand, Empty, Ordinary, FileCommand, Unknown, On, SetOn,
          StepCommand, SetStep, StepWord, Cancel, ControlCommand, SetControl
  <2>3. LevelCommand => Exit
    BY <1>1 DEF LevelCommand, Goto, Gosub, CallSubroutine, Return, Subroutine, EndSubroutine, ProcedureFile, Logout
  <2> QED BY <2>1, <2>2, <2>3 DEF Execute
<1> QED BY <1>3, <1>4 DEF Exit, Finish

\* No ON command ends a procedure or a subroutine with an error of its own, as
\* ON ... THEN EXIT does with a status.  Such an error reaches the level below
\* unanswered: ON does not look at what an ON command leaves.
HandsNoErrorOn == InPhase("run") /\ Head(frames).exc = 1 /\ D' < D => SEVERITY' < 2
OnHandsNoErrorOn == [][HandsNoErrorOn]_vars

\* An error that the default ON command has to answer, and the calls that will see it:
\* a line at the STEP prompt, which starts afresh, or a command that ON looks after.
Unanswered == breaks = 0 /\ dcl_state # "ENDED" /\ SEVERITY >= 2 /\ DefaultOn(dcl[D])
Noticed == Waiting(frames) # {} \/ (frames # << >> /\ Head(frames).phase = "on" /\ Checked)

\* What ON does not look after is an ON command.
Unchecked == breaks = 0 /\ frames # << >> /\ Head(frames).phase = "run" /\ ~Checked
IsOnCommand == Waiting(frames) # {} \/ (dcl[D].ON /\ Head(frames).line = dcl[D].ON_error_command)

ErrorInv ==
  /\ breaks = 0 => ~CTRL_Y
  /\ NewestRuns
  /\ Unanswered => Noticed
  /\ Unchecked => IsOnCommand

LEMMA FreshAnswers ==
  ASSUME FirstCall, SEVERITY' = 0, NewestRuns', (breaks = 0 => ~CTRL_Y)'
  PROVE  ErrorInv'
<1>1. PICK call : call.exc = 0 /\ frames' = <<call>>
  BY DEF FirstCall
<1>2. Head(frames').exc = 0
  BY <1>1, FirstCallAlone
<1>3. ~Unanswered'
  BY DEF Unanswered
<1>4. Checked'
  BY <1>2 DEF Checked
<1>5. ~Unchecked'
  BY <1>4 DEF Unchecked
<1> QED BY <1>3, <1>5 DEF ErrorInv

LEMMA NextAnswers ==
  ASSUME Live, ErrorInv, [Next]_vars, [HandsNoErrorOn]_vars, ~End, Typed'
  PROVE  ErrorInv'
<1>1. frames \in Seq(Frame) /\ frames' \in Seq(Frame) /\ breaks \in Nat /\ SEVERITY \in 0..4
  BY DEF Live, Typed, CallsOK, RestOK
<1>2. dcl_state # "ENDED"
  BY DEF Live
<1>3. NewestRuns /\ (breaks = 0 => ~CTRL_Y)
  BY DEF ErrorInv
<1>4. CASE UNCHANGED vars
  BY <1>4 DEF vars, levelVars, callVars, breakVars, ErrorInv, NewestRuns, Unanswered, Noticed, Unchecked, IsOnCommand,
        Checked, DefaultOn
<1>5. CASE CtrlC
  <2>1. breaks' # 0 /\ UNCHANGED frames
    BY <1>1, <1>5 DEF CtrlC, callVars
  <2> QED BY <1>3, <2>1 DEF ErrorInv, NewestRuns, Unanswered, Unchecked
<1>6. CASE Execute
  <2>1. InPhase("run") /\ frames # << >> /\ Head(frames).phase = "run" /\ UNCHANGED <<breaks, CTRL_Y>>
    BY <1>6 DEF Execute, InPhase
  <2>2. HandlerStep
    BY <1>6, ExecuteHandles
  <2>3. CallsStep
    <3>1. GoesOn("on")
      BY <2>1 DEF GoesOn
    <3> QED BY <2>1, <2>2, <3>1 DEF HandlerStep, Finish, FinishWith, CallsStep
  <2>4. NewestRuns' /\ Waiting(frames') = Waiting(frames)
    BY <1>3, <2>3, WaitingStays
  <2>5. Unanswered' => Noticed'
    <3> SUFFICES ASSUME Unanswered', Waiting(frames) = {}
                 PROVE  Noticed'
      BY <2>4 DEF Noticed
    <3>1. breaks = 0 /\ SEVERITY' >= 2 /\ DefaultOn(dcl[D])'
      BY <2>1 DEF Unanswered
    <3>2. CASE UNCHANGED <<frames, SEVERITY, D, dcl>>
      BY <1>2, <2>1, <3>1, <3>2 DEF ErrorInv, Unanswered, Noticed, Checked
    <3>3. CASE Finish(SEVERITY') /\ (D' < D \/ SameOn)
      <4>1. frames' # << >> /\ Head(frames').phase = "on" /\ Head(frames').exc = Head(frames).exc
        BY <2>1, <3>3, HeadAt DEF Finish
      <4>2. CASE Head(frames).exc # 1
        BY <4>1, <4>2 DEF Noticed, Checked
      <4>3. CASE Head(frames).exc = 1
        <5>1. ~(D' < D)
          <6>1. SEVERITY' \in 0..4 /\ ~(SEVERITY' < 2)
            BY <3>1 DEF Typed, CallsOK
          <6>2. ~(UNCHANGED vars)
            BY <2>1, <4>1 DEF vars, callVars
          <6> QED BY <2>1, <4>3, <6>1, <6>2 DEF HandsNoErrorOn
        <5>2. SameOn /\ dcl[D].ON_error_command = <<W("exit")>>
          BY <3>1, <3>3, <5>1 DEF SameOn, DefaultOn
        <5>3. Head(frames).line = <<W("exit")>>
          BY <2>1, <3>1, <4>3, <5>2 DEF ErrorInv, Unchecked, IsOnCommand, Checked
        <5> QED BY <1>6, <3>1, <3>3, <5>3, DefaultSucceeds
      <4> QED BY <4>2, <4>3
    <3> QED BY <1>6, <3>1, <3>2, <3>3, ErrorKeepsOn
  <2>6. Unchecked' => IsOnCommand'
    <3>1. CASE UNCHANGED <<frames, D, dcl>>
      BY <2>1, <3>1 DEF ErrorInv, Unchecked, IsOnCommand, Checked
    <3>2. CASE Finish(SEVERITY')
      <4>1. Head(frames').phase = "on"
        BY <2>1, <3>2, HeadAt DEF Finish
      <4> QED BY <4>1 DEF Unchecked
    <3>3. CASE \E line : \E exc \in {0, 2} : FinishWith(line, exc)
      <4>1. Head(frames').exc \in {0, 2}
        BY <2>1, <3>3, HeadOnTop DEF FinishWith, Call
      <4> QED BY <4>1 DEF Unchecked, Checked
    <3> QED BY <2>2, <3>1, <3>2, <3>3 DEF HandlerStep
  <2> QED BY <1>3, <2>1, <2>4, <2>5, <2>6 DEF ErrorInv
<1>7. CASE OnError
  <2>1. InPhase("on") /\ frames # << >> /\ Head(frames).phase = "on" /\ UNCHANGED <<D, dcl, breaks, CTRL_Y, dcl_state>>
    BY <1>7 DEF OnError, InPhase, EndOfCommandKeeps, levelVars
  <2>2. CallsStep
    <3>1. GoesOn("break")
      BY <2>1 DEF GoesOn
    <3> QED BY <1>7, <2>1, <3>1 DEF OnError, CallsStep
  <2>3. NewestRuns' /\ Waiting(frames') = Waiting(frames)
    BY <1>3, <2>2, WaitingStays
  <2>4. CASE OnFires
    <3>1. SEVERITY' = 0 /\ Head(frames') = Call(dcl[D].ON_error_command, 1) /\ dcl[D].ON
      BY <1>7, <2>1, <2>4, HeadOnTop DEF OnError, OnFires
    <3>2. IsOnCommand'
      BY <2>1, <3>1 DEF IsOnCommand, Call
    <3> QED BY <1>3, <2>1, <2>3, <3>1, <3>2 DEF ErrorInv, Unanswered
  <2>5. CASE ~OnFires
    <3>1. UNCHANGED SEVERITY /\ frames' = At("break")
      BY <1>7, <2>5 DEF OnError
    <3>2. Head(frames').phase = "break"
      BY <2>1, <3>1, HeadAt
    <3>3. Unanswered => Waiting(frames) # {}
      BY <1>1, <2>1, <2>5 DEF ErrorInv, Unanswered, Noticed, OnFires, DefaultOn
    <3>4. Unanswered' => Noticed'
      BY <2>1, <2>3, <3>1, <3>3 DEF Unanswered, Noticed
    <3> QED BY <1>3, <2>1, <2>3, <3>2, <3>4 DEF ErrorInv, Unchecked
  <2> QED BY <2>4, <2>5
<1>8. CASE OnBreak
  <2>1. InPhase("break") /\ frames # << >> /\ Head(frames).phase = "break" /\ UNCHANGED <<D, dcl, breaks, dcl_state>>
    BY <1>8 DEF OnBreak, InPhase, EndOfCommandKeeps, levelVars
  <2>2. CallsStep
    BY <1>8, <2>1 DEF OnBreak, CallsStep
  <2>3. NewestRuns' /\ Waiting(frames') = Waiting(frames)
    BY <1>3, <2>2, WaitingStays
  <2>4. (breaks = 0 => ~CTRL_Y)'
    BY <1>3, <1>8, <2>1 DEF OnBreak
  <2>5. CASE breaks # 0
    BY <2>1, <2>3, <2>4, <2>5 DEF ErrorInv, Unanswered, Unchecked
  <2>6. CASE breaks = 0
    <3>1. frames' = Tail(frames) /\ UNCHANGED SEVERITY
      BY <1>3, <1>8, <2>6 DEF OnBreak
    <3>2. Unanswered' => Noticed'
      BY <2>1, <2>3, <3>1 DEF ErrorInv, Unanswered, Noticed
    <3>3. frames' # << >> => Head(frames').phase # "run"
      BY <1>1, <1>3, <2>1, <3>1, CallBelow DEF NewestRuns, NoneRuns
    <3> QED BY <2>3, <2>4, <3>2, <3>3 DEF ErrorInv, Unchecked
  <2> QED BY <2>5, <2>6
<1>9. CASE StepPrompt
  <2>1. InPhase("step") /\ SEVERITY' = 0 /\ UNCHANGED <<breaks, CTRL_Y>>
        /\ \E line : frames' = <<Call(line, 1)>> \o frames
    BY <1>9 DEF StepPrompt, MainLoopKeeps, breakVars
  <2>2. CallsStep
    BY <2>1 DEF CallsStep
  <2>3. NewestRuns' /\ Waiting(frames') = Waiting(frames)
    BY <1>3, <2>2, WaitingStays
  <2>4. Waiting(frames) # {}
    BY <1>1, <2>1, CallBelow DEF InPhase, Waiting
  <2> QED BY <1>3, <2>1, <2>3, <2>4 DEF ErrorInv, Unanswered, IsOnCommand
<1>10. CASE NextCommandLine \/ ReadKbd
  <2>1. FirstCall /\ SEVERITY' = 0 /\ UNCHANGED <<breaks, CTRL_Y>>
    BY <1>10, FirstLine
  <2>2. NewestRuns'
    BY <2>1, FirstCallAlone DEF FirstCall
  <2> QED BY <1>3, <2>1, <2>2, FreshAnswers
<1> QED BY <1>4, <1>5, <1>6, <1>7, <1>8, <1>9, <1>10 DEF Next, Program, User

LEMMA EndAnswers ==
  ASSUME ErrorInv, End
  PROVE  ErrorInv'
<1>1. frames' = << >> /\ dcl_state' = "ENDED" /\ UNCHANGED <<CTRL_Y, breaks>>
  BY DEF End, MainLoop, callVars, MainLoopKeeps, breakVars
<1> QED BY <1>1 DEF ErrorInv, NewestRuns, Unanswered, Unchecked

\* An error is never passed over: with the default ON, main() reads no line of a procedure
\* while the last command's error has not been acted upon, however deeply the command was
\* nested and whatever level it began or ended, if no ON command ends a level with an
\* error of its own.
THEOREM ErrorAlwaysAnswered == Spec /\ OnHandsNoErrorOn => []ErrorAnswered
<1> DEFINE Inv == Typed /\ LevelsInv /\ ErrorInv
<1>1. Init => Inv
  <2>1. Init => ErrorInv
    BY DEF Init, ErrorInv, NewestRuns, Unanswered, Unchecked
  <2> QED BY <2>1, InitTyped DEF Init, LevelsInv
<1>2. Inv /\ [Next]_vars /\ [HandsNoErrorOn]_vars => Inv'
  <2> SUFFICES ASSUME Inv, [Next]_vars, [HandsNoErrorOn]_vars PROVE ErrorInv'
    BY NextTyped, NextKeepsLevels
  <2>1. CASE End
    BY <2>1, EndAnswers
  <2>2. CASE ~End /\ dcl_state # "ENDED"
    BY <2>2, NextTyped, NextAnswers DEF Live
  <2>3. CASE dcl_state = "ENDED"
    <3>1. UNCHANGED vars
      BY <2>3, EndedStays
    <3> QED BY <3>1 DEF vars, levelVars, callVars, breakVars, ErrorInv, NewestRuns, Unanswered, Noticed, Unchecked,
          IsOnCommand, Checked, DefaultOn
  <2> QED BY <2>1, <2>2, <2>3
<1>3. Inv => ErrorAnswered
  <2> SUFFICES ASSUME Inv, AtLine, breaks = 0, DefaultOn(dcl[D]) PROVE SEVERITY < 2
    BY DEF ErrorAnswered
  <2>1. frames = << >> /\ dcl_state # "ENDED" /\ SEVERITY \in 0..4
    BY DEF AtLine, MainLoop, Typed, CallsOK
  <2>2. ~Noticed
    BY <2>1 DEF Noticed, Waiting, CallsIn
  <2> QED BY <2>1, <2>2 DEF ErrorInv, Unanswered
<1> QED BY <1>1, <1>2, <1>3, PTL DEF Spec, OnHandsNoErrorOn

(***************************************************************************)
(* What a step does to the fields of the command levels.                   *)
(***************************************************************************)

\* Every level keeps its file and its stop code, and its stack of return addresses, or
\* all of them but the newest.
Same(lines) ==
  /\ lines \in [Levels -> CmdLevel]
  /\ \A l \in Levels : lines[l].file = cmd[l].file /\ lines[l].stop = cmd[l].stop /\ lines[l].stack = cmd[l].stack
KeptAt(lines, l) ==
  /\ lines[l].file = cmd[l].file /\ lines[l].stop = cmd[l].stop
  /\ \/ lines[l].stack = cmd[l].stack
     \/ cmd[l].stack # << >> /\ lines[l].stack = Tail(cmd[l].stack)
Kept(lines) == lines \in [Levels -> CmdLevel] /\ \A l \in Levels : KeptAt(lines, l)

LEMMA LineOnly ==
  ASSUME NEW lines \in [Levels -> CmdLevel], NEW k \in Levels, NEW x, NEW l \in Levels
  PROVE  LET new == [lines EXCEPT ![k].ln = x]
         IN  new[l].file = lines[l].file /\ new[l].stop = lines[l].stop /\ new[l].stack = lines[l].stack
<1>1. lines[l] \in CmdLevel /\ lines[k] \in CmdLevel
  OBVIOUS
<1> QED BY <1>1 DEF CmdLevel

LEMMA StackOnly ==
  ASSUME NEW lines \in [Levels -> CmdLevel], NEW k \in Levels, NEW x, NEW l \in Levels
  PROVE  LET new == [lines EXCEPT ![k].stack = x]
         IN  new[l].file = lines[l].file /\ new[l].stop = lines[l].stop
             /\ new[l].stack = IF l = k THEN x ELSE lines[l].stack
<1>1. lines[l] \in CmdLevel /\ lines[k] \in CmdLevel
  OBVIOUS
<1> QED BY <1>1 DEF CmdLevel

LEMMA FlagOnly ==
  ASSUME NEW lines \in [Levels -> CmdLevel], NEW k \in Levels, NEW x, NEW l \in Levels
  PROVE  LET flag == [lines EXCEPT ![k].subr = x]
             stop == [lines EXCEPT ![k].stop = x]
         IN  /\ flag[l].file = lines[l].file /\ flag[l].stop = lines[l].stop /\ flag[l].stack = lines[l].stack
             /\ stop[l].file = lines[l].file /\ stop[l].stack = lines[l].stack
             /\ stop[l].stop = IF l = k THEN x ELSE lines[l].stop
<1>1. lines[l] \in CmdLevel /\ lines[k] \in CmdLevel
  OBVIOUS
<1> QED BY <1>1 DEF CmdLevel

LEMMA SameIsKept == \A lines : Same(lines) => Kept(lines)
BY DEF Same, Kept, KeptAt

LEMMA KeptMoves ==
  ASSUME Live, NEW lines, Kept(lines), NEW x \in Int
  PROVE  Kept([lines EXCEPT ![C].ln = x])
<1>1. C \in Levels /\ lines \in [Levels -> CmdLevel]
  BY CurrentLevels DEF Kept
<1> DEFINE new == [lines EXCEPT ![C].ln = x]
<1>2. new \in [Levels -> CmdLevel]
  BY <1>1, CmdFields
<1>3. \A l \in Levels : new[l].file = lines[l].file /\ new[l].stop = lines[l].stop /\ new[l].stack = lines[l].stack
  BY <1>1, LineOnly
<1> HIDE DEF new
<1>4. Kept(new)
  BY <1>2, <1>3 DEF Kept, KeptAt
<1> QED BY <1>4 DEF new

LEMMA SameMoves ==
  ASSUME Live, NEW lines, Same(lines), NEW x \in Int
  PROVE  Same([lines EXCEPT ![C].ln = x])
<1>1. C \in Levels /\ lines \in [Levels -> CmdLevel]
  BY CurrentLevels DEF Same
<1> DEFINE new == [lines EXCEPT ![C].ln = x]
<1>2. new \in [Levels -> CmdLevel]
  BY <1>1, CmdFields
<1>3. \A l \in Levels : new[l].file = lines[l].file /\ new[l].stop = lines[l].stop /\ new[l].stack = lines[l].stack
  BY <1>1, LineOnly
<1> HIDE DEF new
<1>4. Same(new)
  BY <1>2, <1>3 DEF Same
<1> QED BY <1>4 DEF new

LEMMA LineNumbers ==
  ASSUME Live, NEW lines \in [Levels -> CmdLevel]
  PROVE  /\ C \in Levels /\ lines[C].ln \in Int /\ lines[C].stack \in Seq(Int)
         /\ \A back \in 0..1 : lines[C].ln - back \in Int /\ lines[C].ln + back \in Int
<1>1. C \in Levels
  BY CurrentLevels
<1>2. lines[C].ln \in Int /\ lines[C].stack \in Seq(Int)
  BY <1>1, CmdFields
<1> QED BY <1>1, <1>2

LEMMA SameCmd ==
  ASSUME Live
  PROVE  Same(cmd) /\ Same(NextLine(cmd)) /\ Same(NextLine(NextLine(cmd)))
<1>1. Same(cmd)
  BY DEF Same, Live, Typed, CmdOK
<1>2. \A lines : Same(lines) => Same(NextLine(lines))
  <2> SUFFICES ASSUME NEW lines, Same(lines) PROVE Same(NextLine(lines))
    OBVIOUS
  <2>1. lines[C].ln + 1 \in Int
    BY LineNumbers DEF Same
  <2>2. Same([lines EXCEPT ![C].ln = lines[C].ln + 1])
    BY <2>1, SameMoves
  <2> QED BY <2>2 DEF NextLine
<1> QED BY <1>1, <1>2

LEMMA PoppedKeeps ==
  ASSUME Live, NEW lines, Same(lines)
  PROVE  Kept(Popped(lines))
<1>1. CASE lines[C].stack # << >>
  <2> DEFINE top == Head(lines[C].stack)
             moved == [lines EXCEPT ![C].ln = top]
             new == [moved EXCEPT ![C].stack = Tail(lines[C].stack)]
  <2>1. C \in Levels /\ lines[C].stack \in Seq(Int)
    BY LineNumbers DEF Same
  <2>2. top \in Int
    BY <1>1, <2>1
  <2>3. Same(moved) /\ Popped(lines) = new
    BY <1>1, <2>1, <2>2, SameMoves DEF Popped
  <2> HIDE DEF top, moved
  <2>4. /\ moved \in [Levels -> CmdLevel]
        /\ \A l \in Levels : moved[l].file = cmd[l].file /\ moved[l].stop = cmd[l].stop /\ moved[l].stack = cmd[l].stack
    BY <2>3 DEF Same
  <2>5. \A l \in Levels : /\ new[l].file = moved[l].file /\ new[l].stop = moved[l].stop
                          /\ new[l].stack = IF l = C THEN Tail(lines[C].stack) ELSE moved[l].stack
    BY <2>1, <2>4, StackOnly
  <2>6. Popped(lines) \in [Levels -> CmdLevel]
    BY PoppedType DEF Same
  <2>7. lines[C].stack = cmd[C].stack
    BY <2>1 DEF Same
  <2> HIDE DEF new
  <2> QED BY <1>1, <2>3, <2>4, <2>5, <2>6, <2>7 DEF Kept, KeptAt
<1>2. CASE lines[C].stack = << >>
  BY <1>2, SameIsKept DEF Popped
<1> QED BY <1>1, <1>2

\* What a step may do to one level: keep it, begin or end its file, set its stop code,
\* or push the line after the current one.
Entered(l) == (l > C \/ l > C') /\ cmd'[l].stop = 0 /\ cmd'[l].stack = << >>
StopSet(l) == l = C /\ C' = C /\ cmd'[l].file = cmd[l].file /\ cmd'[l].stack = cmd[l].stack
CallMade(l) ==
  /\ l = C /\ C > 1 /\ C' = C /\ cmd'[l].file = cmd[l].file /\ cmd'[l].stop = cmd[l].stop
  /\ cmd'[l].stack = <<cmd[C].ln + 1>> \o cmd[l].stack
Calling == Executing("gosub") \/ Executing("call")

FieldsKept == \A l \in Levels : KeptAt(cmd', l) \/ Entered(l)

\* What it does to the session.
FileEnds ==
  C > 1 /\ dcl_subr = 0 /\ dcl_subr' = dcl_subr /\ C' = C - 1 /\ dcl_state' = AfterFile(cmd[C - 1].stop)
SubroutineEnds == C' = C /\ dcl_subr # 0 /\ dcl_subr' = dcl_subr - 1 /\ dcl_state' = dcl_state
SessionSame == UNCHANGED <<C, dcl_subr, dcl_state>>

LEMMA KeptFields == Kept(cmd') => FieldsKept
BY DEF Kept, FieldsKept

LEMMA ExitFileFields ==
  ASSUME Live, dcl_subr = 0, NEW back \in 0..1, NEW lines, Same(lines), Same(NextLine(lines)), ExitFile(lines, back)
  PROVE  FieldsKept /\ (FileEnds \/ SessionSame)
<1>1. CASE C > 1
  <2> DEFINE left == [lines EXCEPT ![C] = NoCmd]
  <2>1. C \in Levels /\ C - 1 \in Levels /\ C - 1 # C /\ C - 1 < C /\ \A l \in Levels : l \in Int
    BY <1>1, CurrentLevels, BoundsAssumption DEF Levels
  <2>2. left \in [Levels -> CmdLevel]
    BY <2>1, NoLevels, CmdFields DEF Same
  <2>3. /\ cmd' = [left EXCEPT ![C - 1].ln = lines[C - 1].ln - back]
        /\ C' = C - 1 /\ dcl_subr' = dcl_subr /\ dcl_state' = AfterFile(cmd[C - 1].stop)
    BY <1>1, <2>1 DEF ExitFile
  <2>4. \A l \in Levels : cmd'[l].file = left[l].file /\ cmd'[l].stop = left[l].stop /\ cmd'[l].stack = left[l].stack
    <3> HIDE DEF left
    <3> QED BY <2>1, <2>2, <2>3, LineOnly
  <2>5. \A l \in Levels : l # C => left[l] = lines[l]
    BY <2>1 DEF Same
  <2>6. left[C] = NoCmd
    BY <2>1 DEF Same
  <2> HIDE DEF left
  <2>7. \A l \in Levels : l # C => KeptAt(cmd', l)
    BY <2>4, <2>5 DEF KeptAt, Same
  <2>8. Entered(C)
    <3>1. NoCmd.stop = 0 /\ NoCmd.stack = << >>
      BY DEF NoCmd
    <3>2. C > C'
      BY <2>1, <2>3
    <3> QED BY <2>1, <2>4, <2>6, <3>1, <3>2 DEF Entered
  <2> QED BY <1>1, <2>3, <2>7, <2>8 DEF FieldsKept, FileEnds
<1>2. CASE ~(C > 1)
  <2> DEFINE next == NextLine(lines)
  <2>1. cmd' = [next EXCEPT ![C].ln = next[C].ln - back] /\ SessionSame
    BY <1>2 DEF ExitFile, KeepLevels, SessionSame
  <2>2. Same(cmd')
    <3>1. next[C].ln - back \in Int
      BY LineNumbers DEF Same
    <3> HIDE DEF next
    <3> QED BY <2>1, <3>1, SameMoves DEF next
  <2> QED BY <2>1, <2>2, SameIsKept, KeptFields
<1> QED BY <1>1, <1>2

LEMMA ExitSubroutineFields ==
  ASSUME Live, dcl_subr # 0, NEW back \in 0..1, NEW lines, Same(lines), Same(NextLine(lines)),
         ExitSubroutine(lines, back)
  PROVE  FieldsKept /\ SubroutineEnds
<1> DEFINE left == IF cmd[C].stack = << >> THEN NextLine(lines) ELSE Popped(lines)
<1>1. Kept(left)
  BY SameIsKept, PoppedKeeps
<1>2. cmd' = [left EXCEPT ![C].ln = left[C].ln - back] /\ SubroutineEnds
  BY DEF ExitSubroutine, SubroutineEnds
<1>3. Kept(cmd')
  <2> HIDE DEF left
  <2>1. left[C].ln - back \in Int
    BY <1>1, LineNumbers DEF Kept
  <2> QED BY <1>1, <1>2, <2>1, KeptMoves
<1> QED BY <1>2, <1>3, KeptFields

LEMMA ExitLevelFields ==
  ASSUME Live, NEW back \in 0..1, ExitLevel(back)
  PROVE  FieldsKept /\ (FileEnds \/ SubroutineEnds \/ SessionSame)
<1> DEFINE lines == NextLine(cmd)
<1>1. Same(lines) /\ Same(NextLine(lines))
  BY SameCmd
<1>2. CASE cmd' = [lines EXCEPT ![C].ln = lines[C].ln - back] /\ KeepLevels /\ UNCHANGED dcl_state
  <2> HIDE DEF lines
  <2>1. lines[C].ln - back \in Int
    BY <1>1, LineNumbers DEF Same
  <2>2. Same(cmd')
    BY <1>1, <1>2, <2>1, SameMoves
  <2> QED BY <1>2, <2>2, SameIsKept, KeptFields DEF KeepLevels, SessionSame
<1> QED BY <1>1, <1>2, ExitFileFields, ExitSubroutineFields DEF ExitLevel

FileBegins == Executing("at") /\ C' = C + 1 /\ UNCHANGED <<dcl_subr, dcl_state>>
FileMissing ==
  /\ Executing("at") /\ UNCHANGED <<C, dcl_subr>>
  /\ \/ dcl_state = "LOGIN" /\ dcl_state' = "INIT_HOME"
     \/ dcl_state = "LOGIN_HOME" /\ dcl_state' = "ARG"
     \/ dcl_state \notin {"LOGIN", "LOGIN_HOME"} /\ dcl_state' \in {dcl_state, "EXIT"}
SubroutineBegins == Executing("call") /\ C > 1 /\ C' = C /\ dcl_subr' = dcl_subr + 1 /\ dcl_state' = dcl_state
LoggedOut == Executing("logout") /\ UNCHANGED <<C, dcl_subr>> /\ dcl_state' = "LOGOUT"

SessionStep ==
  \/ SessionSame \/ FileEnds \/ SubroutineEnds
  \/ FileBegins \/ FileMissing \/ SubroutineBegins \/ LoggedOut
FieldsStep ==
  \A l \in Levels :
    \/ KeptAt(cmd', l) \/ Entered(l)
    \/ Executing("logout") /\ StopSet(l)
    \/ Calling /\ CallMade(l)

LEMMA SameLinesKept ==
  ASSUME Live, cmd' \in {cmd, NextLine(cmd)}
  PROVE  FieldsKept
BY SameCmd, SameIsKept, KeptFields

LEMMA MovedKept ==
  ASSUME Live, NEW x, cmd' = [cmd EXCEPT ![C].ln = x]
  PROVE  FieldsKept
<1>1. C \in Levels /\ cmd \in [Levels -> CmdLevel]
  BY CurrentLevels DEF Live, Typed, CmdOK
<1> QED BY <1>1, LineOnly DEF FieldsKept, KeptAt

LEMMA PushedFields ==
  ASSUME Live, C > 1, C' = C, cmd' = PushReturn
  PROVE  \A l \in Levels : KeptAt(cmd', l) \/ CallMade(l)
<1> DEFINE there == [cmd EXCEPT ![C].ln = LineOf(Arg)]
           stack == <<cmd[C].ln + 1>> \o cmd[C].stack
<1>1. C \in Levels /\ cmd \in [Levels -> CmdLevel]
  BY CurrentLevels DEF Live, Typed, CmdOK
<1>2. \A l \in Levels : l # C => cmd'[l] = cmd[l]
  BY <1>1 DEF PushReturn
<1>3. cmd'[C] = [cmd[C] EXCEPT !.ln = LineOf(Arg), !.stack = stack]
  BY <1>1 DEF PushReturn
<1>4. cmd[C] \in CmdLevel
  BY <1>1
<1>5. cmd'[C].file = cmd[C].file /\ cmd'[C].stop = cmd[C].stop /\ cmd'[C].stack = stack
  <2> HIDE DEF stack
  <2> QED BY <1>3, <1>4 DEF CmdLevel
<1> QED BY <1>2, <1>5 DEF KeptAt, CallMade

LEMMA FlagFields ==
  ASSUME Live, NEW x
  PROVE  /\ cmd' = [NextLine(cmd) EXCEPT ![C].subr = x] => FieldsKept
         /\ cmd' = [NextLine(cmd) EXCEPT ![C].stop = x] /\ C' = C => \A l \in Levels : KeptAt(cmd', l) \/ StopSet(l)
<1> DEFINE next == NextLine(cmd)
<1>1. C \in Levels /\ Same(next)
  BY CurrentLevels, SameCmd
<1> HIDE DEF next
<1>2. next \in [Levels -> CmdLevel]
  BY <1>1 DEF Same
<1>3. cmd' = [next EXCEPT ![C].subr = x] => FieldsKept
  BY <1>1, <1>2, FlagOnly DEF FieldsKept, KeptAt, Same
<1>4. cmd' = [next EXCEPT ![C].stop = x] /\ C' = C => \A l \in Levels : KeptAt(cmd', l) \/ StopSet(l)
  BY <1>1, <1>2, FlagOnly DEF KeptAt, StopSet, Same
<1> QED BY <1>3, <1>4 DEF next

LEMMA EnteredFields ==
  ASSUME Live, NEW file, EnterCmdLevel(file)
  PROVE  FieldsKept
<1>1. Same(NextLine(cmd)) /\ C \in Int /\ C' = C + 1
  BY SameCmd, CurrentLevels DEF EnterCmdLevel, Levels
<1>2. \A l \in Levels : l # C + 1 => cmd'[l] = NextLine(cmd)[l]
  BY <1>1 DEF EnterCmdLevel, Same
<1>3. C + 1 \in Levels => cmd'[C + 1].stop = 0 /\ cmd'[C + 1].stack = << >>
  BY <1>1 DEF EnterCmdLevel, Same
<1>4. C + 1 \in Levels => Entered(C + 1)
  BY <1>1, <1>3 DEF Entered
<1>5. \A l \in Levels : l # C + 1 => KeptAt(cmd', l)
  BY <1>1, <1>2 DEF Same, KeptAt
<1> QED BY <1>4, <1>5 DEF FieldsKept

LEMMA KeptStep ==
  ASSUME FieldsKept, SessionSame \/ FileEnds \/ SubroutineEnds
  PROVE  FieldsStep /\ SessionStep
BY DEF FieldsKept, FieldsStep, SessionStep

LEMMA EnterFileFields ==
  ASSUME Live, Executing("at"), NEW file, NEW out, EnterFile(file, out)
  PROVE  FieldsStep /\ SessionStep
<1>1. CASE Undefined
  BY <1>1, SameLinesKept, KeptStep DEF Undefined, levelVars, SessionSame
<1>2. CASE EnterCmdLevel(file) /\ UNCHANGED <<dcl_state, dcl_subr>>
  <2>1. FileBegins
    BY <1>2 DEF EnterCmdLevel, FileBegins
  <2> QED BY <1>2, <2>1, EnteredFields DEF FieldsStep, FieldsKept, SessionStep
<1>3. CASE ~Undefined /\ file \notin DOMAIN text
  <2>1. NEXT_LINE /\ KeepLevels
    BY <1>3 DEF EnterFile
  <2>2. FileMissing
    BY <1>3, <2>1 DEF EnterFile, FileMissing, KeepLevels
  <2>3. FieldsKept
    BY <2>1, SameLinesKept DEF NEXT_LINE
  <2> QED BY <2>2, <2>3 DEF FieldsStep, FieldsKept, SessionStep
<1> QED BY <1>1, <1>2, <1>3 DEF EnterFile

LEMMA LevelCommandFields ==
  ASSUME Live, LevelCommand
  PROVE  FieldsStep /\ SessionStep
<1>1. ASSUME NEXT_LINE \/ UNCHANGED cmd, KeepLevels, UNCHANGED dcl_state
      PROVE  FieldsStep /\ SessionStep
  BY <1>1, SameLinesKept, KeptStep DEF NEXT_LINE, KeepLevels, SessionSame
<1>2. ASSUME Skip \/ Reject \/ RejectInPlace, UNCHANGED dcl_state
      PROVE  FieldsStep /\ SessionStep
  BY <1>1, <1>2 DEF Skip, Reject, RejectInPlace
<1>3. CASE Goto
  <2>1. CASE cmd' = [cmd EXCEPT ![C].ln = LineOf(Arg)] /\ KeepLevels /\ KeepCommands
    BY <2>1, MovedKept, KeptStep DEF KeepLevels, KeepCommands, SessionSame
  <2> QED BY <1>2, <1>3, <2>1 DEF Goto, KeepCommands
<1>4. CASE Gosub
  <2>1. CASE cmd' = PushReturn /\ C > 1 /\ KeepLevels /\ KeepCommands
    BY <1>4, <2>1, PushedFields DEF KeepLevels, KeepCommands, SessionSame, SessionStep, FieldsStep, Calling, Gosub
  <2> QED BY <1>2, <1>4, <2>1 DEF Gosub, KeepCommands
<1>5. CASE CallSubroutine
  <2>1. CASE Undefined
    BY <2>1, SameLinesKept, KeptStep DEF Undefined, levelVars, SessionSame
  <2>2. CASE C > 1 /\ cmd' = PushReturn /\ BeginSubroutine(Head(Command).out) /\ UNCHANGED <<C, dcl_state>>
    <3>1. SubroutineBegins /\ Calling
      BY <1>5, <2>2 DEF BeginSubroutine, SubroutineBegins, Calling, CallSubroutine
    <3> QED BY <2>2, <3>1, PushedFields DEF SessionStep, FieldsStep
  <2> QED BY <1>2, <1>5, <2>1, <2>2 DEF CallSubroutine
<1>6. CASE Return
  <2>1. Kept(cmd')
    BY <1>6, SameCmd, SameIsKept, PoppedKeeps DEF Return
  <2> QED BY <1>6, <2>1, KeptFields, KeptStep DEF Return, KeepLevels, KeepCommands, SessionSame
<1>7. CASE Subroutine
  <2>1. FieldsKept
    BY <1>7, SameLinesKept, FlagFields DEF Subroutine
  <2> QED BY <1>7, <2>1, KeptStep DEF Subroutine, KeepLevels, KeepCommands, SessionSame
<1>8. CASE EndSubroutine
  <2>1. CASE dcl_subr # 0 /\ ExitSubroutine(cmd, 0)
    BY <2>1, SameCmd, ExitSubroutineFields, KeptStep
  <2>2. CASE cmd' = [NextLine(cmd) EXCEPT ![C].subr = FALSE] /\ KeepLevels /\ UNCHANGED dcl_state
    BY <2>2, FlagFields, KeptStep DEF KeepLevels, SessionSame
  <2> QED BY <1>2, <1>8, <2>1, <2>2 DEF EndSubroutine
<1>9. CASE Exit
  BY <1>9, ExitLevelFields, KeptStep DEF Exit
<1>10. CASE ProcedureFile
  BY <1>2, <1>10, EnterFileFields DEF ProcedureFile
<1>11. CASE Logout
  <2>1. LoggedOut /\ \A l \in Levels : KeptAt(cmd', l) \/ StopSet(l)
    BY <1>11, FlagFields DEF Logout, LoggedOut, KeepLevels
  <2> QED BY <1>11, <2>1 DEF SessionStep, FieldsStep, Logout
<1> QED BY <1>3, <1>4, <1>5, <1>6, <1>7, <1>8, <1>9, <1>10, <1>11 DEF LevelCommand

\* Of the commands only these change a field other than the line number and the flag of a
\* skipped definition: a file or a subroutine begins or ends, GOSUB, RETURN, LOGOUT.
LEMMA ExecuteFields ==
  ASSUME Live, Execute
  PROVE  FieldsStep /\ SessionStep
<1>1. ASSUME NEXT_LINE \/ UNCHANGED cmd, UNCHANGED <<C, dcl_subr, dcl_state>>
      PROVE  FieldsStep /\ SessionStep
  BY <1>1, SameLinesKept, KeptStep DEF NEXT_LINE, SessionSame
<1>2. CASE Undefined
  BY <1>1, <1>2 DEF Undefined, levelVars
<1>3. CASE ConditionCommand /\ ~Undefined
  <2>1. \/ NEXT_LINE \/ UNCHANGED cmd
        \/ \E x : cmd' = [cmd EXCEPT ![C].ln = x]
    BY <1>3 DEF ConditionCommand, If, Then, Else, EndIf, While, EndWhile, Repeat, Until, LoopOutOfBounds
  <2>2. UNCHANGED <<C, dcl_subr, dcl_state>>
    BY <1>3 DEF ConditionCommand, If, Then, Else, EndIf, While, EndWhile, Repeat, Until, LoopOutOfBounds, KeepBlocks
  <2> QED BY <1>1, <2>1, <2>2, MovedKept, KeptStep DEF SessionSame
<1>4. CASE PlainCommand \/ ((StepCommand \/ ControlCommand) /\ ~Cancel /\ ~Undefined)
  BY <1>1, <1>4 DEF PlainCommand, Empty, Ordinary, FileCommand, Unknown, On, SetOn, StepCommand, SetStep, StepWord,
        ControlCommand, SetControl, InteractionCommandKeeps
<1>5. CASE Cancel
  BY <1>5, ExitLevelFields, KeptStep DEF Cancel
<1> QED BY <1>2, <1>3, <1>4, <1>5, LevelCommandFields DEF Execute

(***************************************************************************)
(* The session.                                                            *)
(***************************************************************************)

\* The procedures that the program runs by itself run no other procedure, and LOGOUT is
\* a command of the terminal.
SystemFilesApart ==
  /\ Executing("at") => \/ dcl_state \in {"RUN", "EXIT"}
                        \/ C = 1 /\ dcl_state \in {"LOGIN", "LOGIN_HOME"}
  /\ Executing("logout") => C = 1

AtTerminal == {"INIT", "INIT_HOME", "ARG", "LOGOUT_HOME", "LOGOUT"}

\* The states of main() that run a system file are reached at the terminal, for only its
\* stop code leads to them, and the login procedures do not nest.
SessionInv ==
  dcl_state # "ENDED" =>
    /\ C = 1 => dcl_subr = 0
    /\ \A l \in Levels : l > 1 => cmd[l].stop = 0
    /\ dcl_state \in AtTerminal => C = 1
    /\ dcl_state \in {"LOGIN", "LOGIN_HOME"} => C <= 2

LEMMA StopsStay ==
  ASSUME Live, SessionInv, SystemFilesApart, FieldsStep
  PROVE  \A l \in Levels : l > 1 => cmd'[l].stop = 0
<1> SUFFICES ASSUME NEW l \in Levels, l > 1 PROVE cmd'[l].stop = 0
  OBVIOUS
<1>1. cmd[l].stop = 0
  BY DEF SessionInv, Live
<1>2. l \in Int /\ C \in Int
  BY CurrentLevels DEF Levels
<1>3. ~(Executing("logout") /\ StopSet(l))
  BY <1>2 DEF SystemFilesApart, StopSet
<1> QED BY <1>1, <1>3 DEF FieldsStep, KeptAt, Entered, CallMade

LEMMA SessionStays ==
  ASSUME Live, SessionInv, SystemFilesApart, SessionStep, \A l \in Levels : l > 1 => cmd'[l].stop = 0
  PROVE  SessionInv'
<1>1. C \in Levels /\ C \in Int /\ C >= 1 /\ dcl_subr \in Nat
  BY CurrentLevels DEF Levels, Live, Typed, LevelsOK
<1>2. /\ C = 1 => dcl_subr = 0
      /\ dcl_state \in AtTerminal => C = 1
      /\ dcl_state \in {"LOGIN", "LOGIN_HOME"} => C <= 2
  BY DEF SessionInv, Live
<1>3. CASE SessionSame \/ LoggedOut
  BY <1>2, <1>3 DEF SessionSame, LoggedOut, SessionInv, SystemFilesApart
<1>4. CASE SubroutineEnds \/ SubroutineBegins
  BY <1>1, <1>2, <1>4 DEF SubroutineEnds, SubroutineBegins, SessionInv
<1>5. CASE FileBegins
  <2>1. C' # 1 /\ C' \in Int /\ dcl_state' = dcl_state
    BY <1>1, <1>5 DEF FileBegins
  <2>2. dcl_state \notin AtTerminal /\ (dcl_state \in {"LOGIN", "LOGIN_HOME"} => C' = 2)
    BY <1>5 DEF FileBegins, SystemFilesApart, AtTerminal
  <2> QED BY <2>1, <2>2 DEF SessionInv
<1>6. CASE FileMissing
  BY <1>2, <1>6 DEF FileMissing, SystemFilesApart, SessionInv, AtTerminal
<1>7. CASE FileEnds
  <2>1. C > 1 /\ C' = C - 1 /\ dcl_subr' = 0 /\ dcl_state' = AfterFile(cmd[C - 1].stop) /\ dcl_state \notin AtTerminal
    BY <1>1, <1>2, <1>7 DEF FileEnds
  <2>2. CASE C = 2
    BY <2>1, <2>2 DEF SessionInv
  <2>3. CASE C # 2
    <3>1. C - 1 \in Levels /\ C - 1 > 1
      BY <1>1, <2>1, <2>3, BoundsAssumption DEF Levels
    <3>2. cmd[C - 1].stop = 0
      BY <3>1 DEF SessionInv, Live
    <3>3. dcl_state \notin {"LOGIN", "LOGIN_HOME"}
      BY <1>1, <1>2, <2>1, <2>3
    <3>4. dcl_state' = dcl_state
      BY <2>1, <3>2, <3>3 DEF AfterFile
    <3> QED BY <1>1, <2>1, <3>1, <3>3, <3>4 DEF SessionInv
  <2> QED BY <2>2, <2>3
<1> QED BY <1>3, <1>4, <1>5, <1>6, <1>7 DEF SessionStep

LEMMA NextKeepsSession ==
  ASSUME Live, SessionInv, SystemFilesApart, [Next]_vars, ~End
  PROVE  SessionInv'
<1>1. CASE Execute
  BY <1>1, ExecuteFields, StopsStay, SessionStays
<1>2. CASE ReadEof
  <2>1. FieldsStep /\ SessionStep
    BY <1>2, ExitLevelFields, KeptStep DEF ReadEof
  <2> QED BY <2>1, StopsStay, SessionStays
<1>3. CASE LogoutFile("LOGOUT_HOME", "SYS$LOGIN:logout", 2) \/ LogoutFile("LOGOUT", "SYS$DCL:logout", 3) \/ Arguments
  <2>1. C = 1 /\ C' = 1 /\ dcl_subr' = dcl_subr /\ dcl_state' = "RUN" /\ dcl_subr = 0
    BY <1>3 DEF LogoutFile, Arguments, SessionInv, AtTerminal, Live
  <2>2. UNCHANGED cmd \/ \E x : cmd' = [cmd EXCEPT ![1].stop = x]
    BY <1>3, <2>1 DEF LogoutFile, Arguments
  <2>3. \A l \in Levels : l > 1 => cmd'[l] = cmd[l]
    BY <2>2 DEF Live, Typed, CmdOK
  <2> QED BY <2>1, <2>3 DEF SessionInv, AtTerminal, Live
<1>4. CASE StepDone \/ ReadLine
  <2>1. SessionSame /\ \E x : cmd' = [cmd EXCEPT ![C].ln = x]
    BY <1>4 DEF StepDone, ReadLine, SessionSame
  <2>2. FieldsKept
    BY <2>1, MovedKept
  <2> QED BY <2>1, <2>2, KeptStep, StopsStay, SessionStays
<1>5. CASE Login("INIT", "SYS$DCL:login", "LOGIN") \/ Login("INIT_HOME", "SYS$LOGIN:login", "LOGIN_HOME") \/ Stopped
  <2>1. UNCHANGED <<C, cmd, dcl_subr>> /\ C = 1 /\ dcl_state' \in {"LOGIN", "LOGIN_HOME", "EXIT"}
    BY <1>5 DEF Login, Stopped, levelVars, SessionInv, AtTerminal, Live
  <2> QED BY <2>1 DEF SessionInv, AtTerminal, Live
<1>6. CASE OnError \/ OnBreak \/ User \/ UNCHANGED vars
  <2>1. UNCHANGED <<C, cmd, dcl_subr, dcl_state>>
    BY <1>6 DEF OnError, OnBreak, EndOfCommandKeeps, User, ReadKbd, StepPrompt, CtrlC, vars, levelVars
  <2> QED BY <2>1 DEF SessionInv
<1> QED BY <1>1, <1>2, <1>3, <1>4, <1>5, <1>6 DEF Next, Program, NextCommandLine

\* The invariants of every session.
Session == Typed /\ LevelsInv /\ SessionInv

LEMMA SessionStart == Init => Session
<1>1. Init => SessionInv
  <2> SUFFICES ASSUME Init PROVE SessionInv
    OBVIOUS
  <2>1. \A l \in Levels : cmd[l].stop = 0
    BY DEF Init, NoCmd
  <2>2. C = 1 /\ dcl_subr = 0
    BY DEF Init
  <2> QED BY <2>1, <2>2 DEF SessionInv
<1> QED BY <1>1, InitTyped DEF Init, LevelsInv, Session

LEMMA SessionNext ==
  ASSUME Session, SystemFilesApart, [Next]_vars
  PROVE  Session'
<1>1. Typed' /\ LevelsInv'
  BY NextTyped, NextKeepsLevels DEF Session
<1>2. CASE End
  BY <1>1, <1>2 DEF End, SessionInv, Session
<1>3. CASE dcl_state = "ENDED"
  <2>1. dcl_state' = "ENDED"
    BY <1>3, EndedStays DEF vars, Session
  <2> QED BY <1>1, <2>1 DEF SessionInv, Session
<1>4. CASE ~End /\ dcl_state # "ENDED"
  BY <1>1, <1>4, NextKeepsSession DEF Session, Live
<1> QED BY <1>2, <1>3, <1>4

\* The login procedures, the program's command line and the logout procedures run from the
\* terminal and never inside another procedure, however the procedure before them ended, if
\* the login and logout procedures run no others and LOGOUT is typed.
THEOREM SessionAlwaysAtTerminal == Spec /\ []SystemFilesApart => []SessionAtTerminal
<1>1. Session => SessionAtTerminal
  <2> SUFFICES ASSUME Session, dcl_state \in {"INIT_HOME", "ARG", "LOGOUT_HOME"} PROVE C = 1 /\ D = 1
    BY DEF SessionAtTerminal
  <2> QED BY DEF Session, SessionInv, AtTerminal, LevelsInv
<1> QED BY <1>1, SessionStart, SessionNext, PTL DEF Spec

(***************************************************************************)
(* The line that runs.                                                     *)
(***************************************************************************)

\* No level begins or ends while a line waits for the commands of the STEP prompt, as
\* CANCEL and @ begin and end one: the line would then run at the level they lead to.
LevelWaits == Waiting(frames) # {} => C' = C
NoLevelChangesAtStep == [][LevelWaits]_vars

\* Every line that waits, and the one that main() runs, is that of its line number.
Numbered(line, ln) == line # << >> => line \in RunLines(Lines, ln)
Direct == InPhase("run") /\ Tail(frames) = << >> /\ C > 1 /\ Head(frames).exc = 0
LineInv ==
  /\ NewestRuns
  /\ \A call \in Waiting(frames) : call.line # << >> => C > 1 /\ Numbered(call.line, call.ln)
  /\ Direct => Numbered(Head(frames).line, cmd[C].ln)

LEMMA LinesStay ==
  ASSUME Live, text' = text, C' = C, cmd'[C].file = cmd[C].file
  PROVE  Lines' = Lines
BY DEF Lines

LEMMA FileStays ==
  ASSUME Live, FieldsStep, C' = C
  PROVE  cmd'[C].file = cmd[C].file
<1>1. C \in Levels /\ ~(C > C)
  BY CurrentLevels DEF Levels
<1> QED BY <1>1 DEF FieldsStep, KeptAt, Entered, StopSet, CallMade

LEMMA TextStays == [Next]_vars => UNCHANGED fileVars
BY DEF Next, Program, User, NextCommandLine, Login, Arguments, LogoutFile, Stopped, ReadLine, ReadEof, StepDone, End,
       Execute, OnError, OnBreak, ReadKbd, StepPrompt, CtrlC, MainLoopKeeps, EndOfCommandKeeps, vars

\* What waits stays the line it was.
LEMMA WaitingStaysNumbered ==
  ASSUME Live, LineInv, text' = text, CallsStep, Waiting(frames) # {} => C' = C /\ cmd'[C].file = cmd[C].file
  PROVE  /\ NewestRuns'
         /\ \A call \in Waiting(frames') : call.line # << >> => C' > 1 /\ Numbered(call.line, call.ln)'
<1>1. NewestRuns' /\ Waiting(frames') = Waiting(frames)
  BY WaitingStays DEF LineInv
<1>2. CASE Waiting(frames) = {}
  BY <1>1, <1>2
<1>3. CASE Waiting(frames) # {}
  <2>1. C' = C /\ Lines' = Lines
    BY <1>3, LinesStay
  <2> QED BY <1>1, <2>1 DEF LineInv, Numbered
<1> QED BY <1>2, <1>3

\* The numbers of the lines that may be read.
LEMMA LinesRead ==
  ASSUME Live
  PROVE  cmd[C].ln..Len(Lines) + 1 \subseteq Int
<1>1. cmd[C].ln \in Int
  BY LineNumbers DEF Live, Typed, CmdOK
<1>2. Lines \in Seq(Line)
  BY InputsAssumption DEF Live, Typed, RestOK, Lines
<1>3. Len(Lines) + 1 \in Int
  BY <1>2
<1> QED BY <1>1, <1>3

LEMMA NextNumbers ==
  ASSUME Live, SessionInv, LineInv, SystemFilesApart, [LevelWaits]_vars, [Next]_vars, ~End
  PROVE  LineInv'
<1>1. text' = text
  BY TextStays DEF fileVars
<1>2. C \in Levels /\ frames \in Seq(Frame) /\ (frames # << >> => NoneRuns(Tail(frames)))
  BY CurrentLevels DEF Live, Typed, CallsOK, LineInv, NewestRuns
<1>3. CASE UNCHANGED <<frames, C, cmd>> /\ (~undefined \/ undefined' = undefined)
  <2>1. Lines' = Lines
    BY <1>1, <1>3, LinesStay
  <2> QED BY <1>3, <2>1 DEF LineInv, NewestRuns, Direct, InPhase, Numbered
<1>4. CASE Execute /\ ~UNCHANGED <<frames, C, cmd>>
  <2>1. InPhase("run") /\ frames # << >> /\ GoesOn("on")
    BY <1>4 DEF Execute, InPhase, GoesOn
  <2>2. HandlerStep
    BY <1>4, ExecuteHandles
  <2>3. CallsStep
    BY <2>1, <2>2 DEF HandlerStep, Finish, FinishWith, CallsStep
  <2>4. Waiting(frames) # {} => C' = C /\ cmd'[C].file = cmd[C].file
    BY <1>4, ExecuteFields, FileStays DEF LevelWaits, vars, callVars, levelVars
  <2>5. ~Direct'
    <3>1. CASE Finish(SEVERITY')
      BY <2>1, <3>1, HeadAt DEF Finish, Direct, InPhase
    <3>2. CASE \E line : \E exc \in {0, 2} : FinishWith(line, exc)
      <4>1. At("on") # << >> /\ At("on") \in Seq(Frame)
        BY <2>1, HeadAt, AtType
      <4>2. Tail(frames') = At("on")
        BY <3>2, <4>1, CallOnTop DEF FinishWith
      <4> QED BY <4>1, <4>2 DEF Direct
    <3> QED BY <1>4, <2>2, <3>1, <3>2 DEF HandlerStep
  <2> QED BY <1>1, <2>3, <2>4, <2>5, WaitingStaysNumbered DEF LineInv
<1>5. CASE OnError \/ OnBreak
  <2>1. frames # << >> /\ UNCHANGED <<C, cmd>>
    BY <1>5 DEF OnError, OnBreak, InPhase, EndOfCommandKeeps, levelVars
  <2>2. CallsStep
    <3>1. OnError => GoesOn("break")
      BY DEF OnError, GoesOn
    <3> QED BY <1>5, <3>1 DEF OnError, OnBreak, CallsStep
  <2>3. ~Direct'
    <3>1. CASE OnError
      <4>1. At("break") # << >> /\ At("break") \in Seq(Frame) /\ Head(At("break")).phase = "break"
        BY <2>1, HeadAt, AtType
      <4>2. frames' = At("break") \/ \E call : frames' = <<call>> \o At("break")
        BY <3>1 DEF OnError
      <4>3. frames' = At("break") \/ Tail(frames') = At("break")
        BY <4>1, <4>2, CallOnTop
      <4> QED BY <4>1, <4>3 DEF Direct, InPhase
    <3>2. CASE OnBreak
      <4>1. CASE frames' = Tail(frames)
        <5>1. frames' # << >> => Head(frames').phase # "run"
          BY <1>2, <2>1, <4>1, CallBelow DEF NoneRuns
        <5> QED BY <5>1 DEF Direct, InPhase
      <4>2. CASE \E line : frames' = <<Call(line, 1)>> \o Tail(frames)
        <5>1. Head(frames').exc = 1
          BY <2>1, <4>2, HeadOnTop DEF Call
        <5> QED BY <5>1 DEF Direct
      <4> QED BY <3>2, <4>1, <4>2 DEF OnBreak
    <3> QED BY <1>5, <3>1, <3>2
  <2> QED BY <1>1, <2>1, <2>2, <2>3, WaitingStaysNumbered DEF LineInv
<1>6. CASE StepPrompt
  <2>1. UNCHANGED <<C, cmd>> /\ frames # << >> /\ \E line : frames' = <<Call(line, 1)>> \o frames
    BY <1>6 DEF StepPrompt, InPhase, levelVars
  <2>2. CallsStep
    BY <1>6, <2>1 DEF StepPrompt, CallsStep
  <2>3. Tail(frames') = frames
    BY <1>2, <2>1, CallOnTop
  <2> QED BY <1>1, <2>1, <2>2, <2>3, WaitingStaysNumbered DEF LineInv, Direct
<1>7. ASSUME NEW line, Process(line), C' > 1 => Numbered(line, cmd[C].ln)'
      PROVE  LineInv'
  <2>1. frames' = <<Call(line, 0)>> /\ Call(line, 0).phase = "run" /\ Call(line, 0).line = line
    BY <1>7 DEF Process, Call
  <2>2. NewestRuns' /\ Waiting(frames') = {} /\ Head(frames') = Call(line, 0)
    BY <2>1, FirstCallAlone DEF Waiting
  <2> QED BY <1>7, <2>1, <2>2 DEF LineInv, Direct
<1>8. CASE NextCommandLine \/ ReadKbd
  <2>1. CASE \/ Login("INIT", "SYS$DCL:login", "LOGIN") \/ Login("INIT_HOME", "SYS$LOGIN:login", "LOGIN_HOME")
             \/ LogoutFile("LOGOUT_HOME", "SYS$LOGIN:logout", 2) \/ LogoutFile("LOGOUT", "SYS$DCL:logout", 3)
             \/ Arguments \/ ReadKbd
    <3>1. C' = 1 /\ \E line : Process(line)
      BY <2>1 DEF Login, LogoutFile, Arguments, ReadKbd, levelVars, SessionInv, AtTerminal, Live
    <3> QED BY <1>7, <3>1
  <2>2. CASE Stopped
    BY <1>7, <2>2 DEF Stopped, Numbered
  <2>3. ASSUME NEW line, NEW ln, Stepped(line, ln), line # << >> => /\ C' > 1 /\ Numbered(line, ln)'
                                                                  /\ ln = cmd'[C'].ln
        PROVE  LineInv'
    <3>1. PICK call : /\ frames' = <<call>> /\ call.line = line /\ (call.phase = "step" => call.ln = ln)
      BY <2>3 DEF Stepped
    <3>2. NewestRuns' /\ Waiting(frames') \subseteq {call} /\ Head(frames') = call
      BY <3>1, FirstCallAlone
    <3>3. \A w \in Waiting(frames') : w = call /\ w.phase = "step"
      BY <3>2 DEF Waiting
    <3>4. line # << >> => Numbered(line, cmd[C].ln)'
      BY <2>3
    <3>5. Direct' => Numbered(Head(frames).line, cmd[C].ln)'
      BY <3>1, <3>2, <3>4 DEF Numbered
    <3> QED BY <2>3, <3>1, <3>2, <3>3, <3>5 DEF LineInv, Numbered
  <2>5. CASE ReadLine
    <3>1. PICK ln \in Int : \E line \in RunLines(Lines, ln) :
                               C > 1 /\ C' = C /\ cmd' = [cmd EXCEPT ![C].ln = ln] /\ Stepped(line, ln)
      BY <1>2, <2>5, LinesRead DEF ReadLine
    <3>2. PICK line \in RunLines(Lines, ln) : Stepped(line, ln)
      BY <3>1
    <3>3. cmd'[C].file = cmd[C].file /\ cmd'[C].ln = ln
      <4>1. cmd[C] \in CmdLevel /\ cmd \in [Levels -> CmdLevel]
        BY <1>2 DEF Live, Typed, CmdOK
      <4> QED BY <1>2, <3>1, <4>1 DEF CmdLevel
    <3>4. Lines' = Lines
      BY <1>1, <3>1, <3>3, LinesStay
    <3>5. line # << >> => C' > 1 /\ Numbered(line, ln)' /\ ln = cmd'[C'].ln
      BY <3>1, <3>2, <3>3, <3>4 DEF Numbered
    <3> QED BY <2>3, <3>2, <3>5
  <2>6. CASE ReadEof
    BY <2>3, <2>6 DEF ReadEof
  <2>4. CASE StepDone
    <3>1. Head(frames) \in Waiting(frames)
      BY <1>2, <2>4, CallBelow DEF StepDone, InPhase, Waiting
    <3>2. C' = C /\ cmd' = [cmd EXCEPT ![C].ln = Head(frames).ln] /\ Process(Head(frames).line)
      BY <2>4 DEF StepDone
    <3>3. cmd'[C].file = cmd[C].file /\ cmd'[C].ln = Head(frames).ln
      <4>1. cmd[C] \in CmdLevel /\ cmd \in [Levels -> CmdLevel]
        BY <1>2 DEF Live, Typed, CmdOK
      <4> QED BY <1>2, <3>2, <4>1 DEF CmdLevel
    <3>4. Lines' = Lines
      BY <1>1, <3>2, <3>3, LinesStay
    <3>5. PICK line : line = Head(frames).line
      OBVIOUS
    <3>6. Numbered(line, cmd[C].ln)'
      BY <3>1, <3>2, <3>3, <3>4, <3>5 DEF LineInv, Numbered
    <3> QED BY <1>7, <3>2, <3>5, <3>6
  <2> QED BY <1>8, <2>1, <2>2, <2>4, <2>5, <2>6 DEF NextCommandLine
<1>9. CtrlC \/ UNCHANGED vars => UNCHANGED <<frames, C, cmd, undefined>>
  BY DEF CtrlC, vars, levelVars, callVars
<1>10. Execute => ~undefined
  BY DEF Execute, InPhase
<1> QED BY <1>3, <1>4, <1>5, <1>6, <1>8, <1>9, <1>10 DEF Next, Program, User

LEMMA LineStart == Init => LineInv
BY DEF Init, LineInv, NewestRuns, Waiting, CallsIn, Direct, InPhase

LEMMA LineNext ==
  ASSUME Session, LineInv, SystemFilesApart, [LevelWaits]_vars, [Next]_vars
  PROVE  LineInv'
<1>1. CASE End \/ dcl_state = "ENDED"
  <2>1. frames' = << >>
    BY <1>1, EndedStays DEF End, MainLoop, callVars, vars, Session, LevelsInv
  <2> QED BY <2>1 DEF LineInv, NewestRuns, Waiting, CallsIn, Direct, InPhase
<1>2. CASE ~End /\ dcl_state # "ENDED"
  BY <1>2, NextNumbers DEF Session, Live
<1> QED BY <1>1, <1>2

\* The line that main() runs in a procedure is the one its line number names, whatever
\* the lines before it jumped to, called or ran and wherever ON and the STEP prompt came
\* in, if no level begins or ends at the STEP prompt and the files of the session are apart.
THEOREM AlwaysRunsItsOwnLine == Spec /\ []SystemFilesApart /\ NoLevelChangesAtStep => []RunsItsOwnLine
<1>1. Session /\ LineInv => RunsItsOwnLine
  <2> SUFFICES ASSUME Session, LineInv, InPhase("run"), Len(frames) = 1, C > 1, Head(frames).exc = 0
               PROVE  Numbered(Head(frames).line, cmd[C].ln)
    BY DEF RunsItsOwnLine, Numbered
  <2>1. Tail(frames) = << >>
    BY OneCall DEF Session, Typed, CallsOK
  <2> QED BY <2>1 DEF LineInv, Direct
<1> QED BY <1>1, LineStart, LineNext, SessionStart, SessionNext, PTL DEF Spec, NoLevelChangesAtStep

(***************************************************************************)
(* Return addresses.                                                       *)
(***************************************************************************)

\* GOSUB and CALL are lines of their procedure: not what IF ... THEN, ON or the STEP prompt
\* runs, for which the line number has gone on and the address is one too far.
CallsAreLines == Calling /\ C > 1 => Len(frames) = 1 /\ Head(frames).exc = 0

CallOps == {"gosub", "call"}
AddressesOK(l) == \A n \in CallsIn(cmd[l].stack) : LineBefore(l, n, CallOps)
StackInv == \A l \in Levels : l > 1 => AddressesOK(l)

\* An address stays behind its call as long as the level keeps its file.
LEMMA AddressesStay ==
  ASSUME Live, text' = text, NEW l \in Levels, AddressesOK(l), KeptAt(cmd', l) \/ StopSet(l)
  PROVE  AddressesOK(l)'
<1>1. cmd'[l].file = cmd[l].file /\ cmd[l].stack \in Seq(Int)
  BY DEF KeptAt, StopSet, Live, Typed, CmdOK, CmdLevel
<1>2. CallsIn(cmd'[l].stack) \subseteq CallsIn(cmd[l].stack)
  <2>1. ASSUME cmd[l].stack # << >>
        PROVE  CallsIn(Tail(cmd[l].stack)) \subseteq CallsIn(cmd[l].stack)
    BY <1>1, <2>1, TailEntries
  <2> QED BY <2>1 DEF KeptAt, StopSet
<1> QED BY <1>1, <1>2 DEF AddressesOK, LineBefore

\* The line before the address that a GOSUB or a CALL keeps is its own.
LEMMA AddressOfCall ==
  ASSUME Live, LineInv, Calling, CallsAreLines, C > 1
  PROVE  LineBefore(C, cmd[C].ln + 1, CallOps)
<1>1. InPhase("run") /\ Verb \in CallOps /\ frames \in Seq(Frame)
  BY DEF Calling, Executing, CallOps, Live, Typed, CallsOK
<1>2. Direct
  BY <1>1, OneCall DEF CallsAreLines, Direct
<1> DEFINE line == Head(frames).line
<1>3. line \in Line
  BY <1>1, CommandType DEF InPhase, Frame, Live, Typed
<1>4. line # << >> /\ HasVerb(line, CallOps)
  <2>1. Command # << >> /\ Head(Command).op \in CallOps
    BY <1>1 DEF Verb, CallOps
  <2>2. CASE Command = line
    BY <1>3, <2>1, <2>2, VerbOfLine DEF HasVerb
  <2>3. CASE line # << >> /\ Command = Tail(line)
    BY <1>3, <2>1, <2>3, VerbOfLine DEF HasVerb
  <2> QED BY <2>2, <2>3 DEF Command
<1>5. line \in RunLines(Lines, cmd[C].ln)
  BY <1>2, <1>4 DEF LineInv, Numbered
<1>6. Lines = text[cmd[C].file] /\ cmd[C].file \in DOMAIN text
  <2>1. Lines # << >>
    BY <1>5 DEF RunLines
  <2> QED BY <2>1 DEF Lines
<1>7. cmd[C].ln \in Int /\ (cmd[C].ln + 1) - 1 = cmd[C].ln
  BY LineNumbers DEF Live, Typed, CmdOK
<1> QED BY <1>4, <1>5, <1>6, <1>7 DEF LineBefore

LEMMA FieldsKeepAddresses ==
  ASSUME Live, LineInv, CallsAreLines, StackInv, text' = text, FieldsStep
  PROVE  StackInv'
<1> SUFFICES ASSUME NEW l \in Levels, l > 1 PROVE AddressesOK(l)'
  BY DEF StackInv
<1>1. AddressesOK(l)
  BY DEF StackInv
<1>2. CASE KeptAt(cmd', l) \/ StopSet(l)
  BY <1>1, <1>2, AddressesStay
<1>3. CASE Entered(l)
  <2>1. cmd'[l].stack = << >>
    BY <1>3 DEF Entered
  <2> QED BY <2>1 DEF AddressesOK, CallsIn
<1>4. CASE Calling /\ CallMade(l)
  <2>1. l = C /\ C > 1 /\ cmd'[l].file = cmd[l].file /\ cmd'[l].stack = <<cmd[l].ln + 1>> \o cmd[l].stack
    BY <1>4 DEF CallMade
  <2>2. LineBefore(l, cmd[l].ln + 1, CallOps)
    BY <1>4, <2>1, AddressOfCall
  <2>3. cmd[l].stack \in Seq(Int)
    BY CmdFields DEF Live, Typed, CmdOK
  <2>4. CallsIn(cmd'[l].stack) = {cmd[l].ln + 1} \cup CallsIn(cmd[l].stack)
    BY <2>1, <2>3, EntryOnTop
  <2> QED BY <1>1, <2>1, <2>2, <2>4 DEF AddressesOK, LineBefore
<1> QED BY <1>2, <1>3, <1>4 DEF FieldsStep

LEMMA NextKeepsAddresses ==
  ASSUME Live, LineInv, CallsAreLines, StackInv, [Next]_vars, ~End
  PROVE  StackInv'
<1>1. text' = text
  BY TextStays DEF fileVars
<1>2. C \in Levels /\ cmd \in [Levels -> CmdLevel]
  BY CurrentLevels DEF Live, Typed, CmdOK
<1>3. (\A l \in Levels : cmd'[l].file = cmd[l].file /\ cmd'[l].stack = cmd[l].stack) => StackInv'
  BY <1>1 DEF StackInv, AddressesOK, LineBefore
<1>4. CASE Execute
  BY <1>1, <1>4, ExecuteFields, FieldsKeepAddresses
<1>5. CASE ReadEof
  <2>1. FieldsStep
    BY <1>5, ExitLevelFields, KeptStep DEF ReadEof
  <2> QED BY <1>1, <2>1, FieldsKeepAddresses
<1>6. CASE LogoutFile("LOGOUT_HOME", "SYS$LOGIN:logout", 2) \/ LogoutFile("LOGOUT", "SYS$DCL:logout", 3) \/ Arguments
  <2>1. UNCHANGED cmd \/ \E x : cmd' = [cmd EXCEPT ![C].stop = x]
    BY <1>6 DEF LogoutFile, Arguments
  <2>2. \A l \in Levels : cmd'[l].file = cmd[l].file /\ cmd'[l].stack = cmd[l].stack
    <3> SUFFICES ASSUME NEW l \in Levels, NEW x, cmd' = [cmd EXCEPT ![C].stop = x]
                 PROVE  cmd'[l].file = cmd[l].file /\ cmd'[l].stack = cmd[l].stack
      BY <2>1
    <3> QED BY <1>2, FlagOnly
  <2> QED BY <1>3, <2>2
<1>7. CASE StepDone \/ ReadLine
  <2>1. \E x : cmd' = [cmd EXCEPT ![C].ln = x]
    BY <1>7 DEF StepDone, ReadLine
  <2>2. \A l \in Levels : cmd'[l].file = cmd[l].file /\ cmd'[l].stack = cmd[l].stack
    BY <1>2, <2>1, LineOnly
  <2> QED BY <1>3, <2>2
<1>8. CASE \/ Login("INIT", "SYS$DCL:login", "LOGIN") \/ Login("INIT_HOME", "SYS$LOGIN:login", "LOGIN_HOME")
           \/ Stopped \/ OnError \/ OnBreak \/ User \/ UNCHANGED vars
  <2>1. UNCHANGED cmd
    BY <1>8 DEF Login, Stopped, OnError, OnBreak, EndOfCommandKeeps, User, ReadKbd, StepPrompt,
          CtrlC, vars, levelVars
  <2> QED BY <1>3, <2>1
<1> QED BY <1>4, <1>5, <1>6, <1>7, <1>8 DEF Next, Program, NextCommandLine

\* Every address that RETURN and ENDSUBROUTINE will take is that of the line after a GOSUB
\* or a CALL of the procedure that is running at that level, however the addresses of
\* both were mixed, if GOSUB and CALL are lines of their own.
THEOREM AlwaysReturnsAfterCall ==
  Spec /\ []SystemFilesApart /\ NoLevelChangesAtStep /\ []CallsAreLines => []ReturnsAfterCall
<1>1. Init => StackInv
  <2> SUFFICES ASSUME Init PROVE \A l \in Levels : cmd[l].stack = << >>
    BY DEF StackInv, AddressesOK, CallsIn
  <2> QED BY DEF Init, NoCmd
<1>2. Session /\ LineInv /\ StackInv /\ CallsAreLines /\ [Next]_vars => StackInv'
  <2> SUFFICES ASSUME Session, LineInv, StackInv, CallsAreLines, [Next]_vars PROVE StackInv'
    OBVIOUS
  <2>1. CASE End
    <3>1. \A l \in Levels : cmd'[l].stack = << >>
      BY <2>1 DEF End, NoCmd
    <3> QED BY <3>1 DEF StackInv, AddressesOK, CallsIn
  <2>2. CASE dcl_state = "ENDED"
    <3>1. text' = text /\ cmd' = cmd
      BY <2>2, EndedStays DEF vars, fileVars, levelVars, Session
    <3> QED BY <3>1 DEF StackInv, AddressesOK, LineBefore
  <2>3. CASE ~End /\ dcl_state # "ENDED"
    BY <2>3, NextKeepsAddresses DEF Session, Live
  <2> QED BY <2>1, <2>2, <2>3
<1>3. Session /\ StackInv => ReturnsAfterCall
  <2> SUFFICES ASSUME Session, StackInv, NEW l \in 2..C, NEW i \in DOMAIN cmd[l].stack
               PROVE  LineBefore(l, cmd[l].stack[i], CallOps)
    BY DEF ReturnsAfterCall, CallOps
  <2>1. l \in Levels /\ l > 1
    <3>1. C \in 0..MaxLevel /\ MaxLevel \in Nat
      BY BoundsAssumption DEF Session, Typed, LevelsOK
    <3> QED BY <3>1 DEF Levels
  <2> QED BY <2>1 DEF StackInv, AddressesOK, CallsIn
<1> QED BY <1>1, <1>2, <1>3, LineStart, LineNext, SessionStart, SessionNext, PTL DEF Spec, NoLevelChangesAtStep

(***************************************************************************)
(* Each line once.                                                         *)
(***************************************************************************)

\* The STEP prompt begins and ends no level and sets no ON command, and no ON or
\* CTRL/Y command runs a procedure file: its lines would end where others began.
StepLeavesLevels == Waiting(frames) # {} => UNCHANGED <<C, D>> /\ ~Executing("on")
NothingBeginsAtStep == [][StepLeavesLevels]_vars
OnRunsNoFile == Executing("at") => \A call \in CallsIn(frames) : call.exc # 1

\* Nor does a subroutine: the GOTO of its ON command would look in that file for its label.
NoFileInSubroutine == [][dcl_subr # 0 => C' <= C]_<<C, dcl_subr>>

HasJump(line) == HasVerb(line, Jumps)
Default == <<W("exit")>>

\* The file of a level has a jump.
LinesAt(l) == IF cmd[l].file \in DOMAIN text THEN text[cmd[l].file] ELSE << >>
Jumpy(l) == \E i \in DOMAIN LinesAt(l) : HasJump(LinesAt(l)[i])

\* A level goes on to another by a jump of its own lines, and but for the default ON
\* command the jumps that ON and CTRL/Y make for it are of its lines.
CallersJump == \A l \in Levels : 1 < l /\ l < C => Jumpy(l)
SubroutineJumps == C > 1 /\ dcl_subr # 0 => Jumpy(C)
OnHasJump(l) ==
  \/ HasJump(dcl[l].ON_error_command) /\ dcl[l].ON_error_command # Default
  \/ HasJump(dcl[l].ON_break_command)
OnJumps == \A l \in Levels : 1 < l /\ l <= D /\ OnHasJump(l) => Jumpy(Lesser(l, C))
LevelJumps == CallersJump /\ SubroutineJumps /\ OnJumps

\* So are those of the line that runs: its nested commands are parts of it.
NewestJumps ==
  InPhase("run") /\ Waiting(frames) = {} /\ C > 1 /\ HasJump(Head(frames).line) /\ Head(frames).line # Default
  => Jumpy(C)
OwnJumps ==
  InPhase("run") /\ HasJump(Head(frames).line) /\ (\A call \in CallsIn(frames) : call.exc # 1)
  => HasJump(Outer(frames).line)
LineJumps == NewestJumps /\ OwnJumps

\* The line of main() is passed when it runs, and its nested commands do not count.
First == InPhase("run") /\ Tail(frames) = << >> /\ Head(frames).exc = 0
Passing ==
  /\ ~undefined /\ frames # << >> /\ Waiting(frames) = {} /\ C > 1 /\ ~Jumpy(C)
  /\ Outer(frames).phase # "run" /\ Outer(frames).exc = 0
  /\ Outer(frames).line # << >> /\ ~HasVerb(Outer(frames).line, Jumps \cup StepWords)
Passed == Outer(frames).line \in RunLines(Lines, cmd[C].ln - 1)
PassedInv ==
  /\ First => EXCPT = 0
  /\ Passing => Passed /\ (Head(frames).phase = "run" => EXCPT # 0)

\* Only the line of main() waits at the STEP prompt.
StepOutermost == Waiting(frames) # {} => Outer(frames).phase = "step"

OnceInv == LevelJumps /\ LineJumps /\ PassedInv /\ StepOutermost

(***************************************************************************)
(* The outermost call.                                                     *)
(***************************************************************************)
LEMMA OuterOnTop ==
  ASSUME NEW S, NEW call, NEW s \in Seq(S)
  PROVE  Outer(<<call>> \o s) = IF s = << >> THEN call ELSE Outer(s)
<1>1. PICK n \in Nat : n = Len(s) /\ DOMAIN s = 1..n
  OBVIOUS
<1>2. Len(<<call>> \o s) = n + 1 /\ (<<call>> \o s)[1] = call /\ \A i \in 1..n : (<<call>> \o s)[i + 1] = s[i]
  <2>1. DOMAIN (<<call>> \o s) = 1..n + 1 /\ Len(<<call>> \o s) = n + 1
    BY <1>1
  <2>2. (<<call>> \o s)[1] = call
    BY <1>1
  <2>3. \A i \in 1..n : (<<call>> \o s)[i + 1] = s[i]
    BY <1>1
  <2> QED BY <2>1, <2>2, <2>3
<1>3. CASE s = << >>
  <2>1. n = 0
    BY <1>1, <1>3
  <2> QED BY <1>2, <1>3, <2>1 DEF Outer
<1>4. CASE s # << >>
  <2>1. n \in 1..n
    BY <1>1, <1>4, EmptySeq
  <2> QED BY <1>1, <1>2, <1>4, <2>1 DEF Outer
<1> QED BY <1>3, <1>4

LEMMA OuterIsCall ==
  ASSUME NEW S, NEW s \in Seq(S), s # << >>
  PROVE  Outer(s) \in CallsIn(s) /\ (Tail(s) = << >> => Outer(s) = Head(s))
         /\ (Tail(s) # << >> => Outer(s) = Outer(Tail(s)))
<1>1. Tail(s) \in Seq(S) /\ s = <<Head(s)>> \o Tail(s)
  OBVIOUS
<1>2. Outer(s) = IF Tail(s) = << >> THEN Head(s) ELSE Outer(Tail(s))
  <2>1. PICK call : call = Head(s)
    OBVIOUS
  <2>2. PICK rest \in Seq(S) : rest = Tail(s)
    BY <1>1
  <2>3. s = <<call>> \o rest
    BY <1>1, <2>1, <2>2
  <2>4. Outer(<<call>> \o rest) = IF rest = << >> THEN call ELSE Outer(rest)
    BY OuterOnTop
  <2> QED BY <2>1, <2>2, <2>3, <2>4
<1>3. Outer(s) \in CallsIn(s)
  <2>1. PICK n \in Nat : n = Len(s) /\ DOMAIN s = 1..n
    OBVIOUS
  <2>2. n \in 1..n
    BY <2>1, EmptySeq
  <2> QED BY <2>1, <2>2 DEF Outer, CallsIn
<1> QED BY <1>2, <1>3

\* The call that main() made stays outermost, whichever others it waits for.
LEMMA OuterAt ==
  ASSUME Live, frames # << >>, NEW phase \in {"on", "break"}
  PROVE  LET s == At(phase)
         IN  /\ s \in Seq(Frame) /\ s # << >> /\ Outer(s).line = Outer(frames).line /\ Outer(s).exc = Outer(frames).exc
             /\ Tail(frames) # << >> => Outer(s) = Outer(frames)
             /\ Tail(frames) = << >> => Outer(frames) = Head(frames) /\ Outer(s).phase = phase
             /\ \A call : Outer(<<call>> \o s) = Outer(s)
<1>1. frames \in Seq(Frame) /\ Tail(frames) \in Seq(Frame)
  BY CallBelow DEF Live, Typed, CallsOK
<1>2. PICK top : top = [Head(frames) EXCEPT !.phase = phase]
  OBVIOUS
<1>3. top.line = Head(frames).line /\ top.exc = Head(frames).exc /\ top.phase = phase
  BY <1>1, <1>2, HeadAt
<1>4. At(phase) = <<top>> \o Tail(frames)
  BY <1>2 DEF At
<1>5. At(phase) \in Seq(Frame) /\ At(phase) # << >>
  BY HeadAt, AtType
<1>6. Outer(At(phase)) = IF Tail(frames) = << >> THEN top ELSE Outer(Tail(frames))
  <2>1. PICK rest \in Seq(Frame) : rest = Tail(frames)
    BY <1>1
  <2>2. Outer(<<top>> \o rest) = IF rest = << >> THEN top ELSE Outer(rest)
    BY OuterOnTop
  <2> QED BY <1>4, <2>1, <2>2
<1>7. Outer(frames) = IF Tail(frames) = << >> THEN Head(frames) ELSE Outer(Tail(frames))
  BY <1>1, OuterIsCall
<1>8. \A call : Outer(<<call>> \o At(phase)) = Outer(At(phase))
  <2>1. PICK s \in Seq(Frame) : s = At(phase) /\ s # << >>
    BY <1>5
  <2> QED BY <2>1, OuterOnTop
<1> QED BY <1>3, <1>5, <1>6, <1>7, <1>8

LEMMA StepStaysOutermost ==
  ASSUME Live, NewestRuns, StepOutermost, CallsStep
  PROVE  StepOutermost'
<1>1. CASE UNCHANGED frames
  BY <1>1 DEF StepOutermost
<1>2. CASE ~UNCHANGED frames
  <2> SUFFICES ASSUME Waiting(frames') # {} PROVE Outer(frames').phase = "step"
    BY DEF StepOutermost
  <2>1. frames \in Seq(Frame) /\ frames # << >> /\ Tail(frames) \in Seq(Frame)
    BY <1>2, CallBelow DEF CallsStep, GoesOn, InPhase, Live, Typed, CallsOK
  <2>2. Outer(frames).phase = "step"
    BY WaitingStays DEF StepOutermost
  <2>3. Head(frames).phase # "step" => Tail(frames) # << >> /\ Outer(frames) = Outer(Tail(frames))
    BY <2>1, <2>2, OuterIsCall
  <2>4. PICK rest \in Seq(Frame) : rest = Tail(frames)
    BY <2>1
  <2>5. CASE \E phase \in {"on", "break"} : GoesOn(phase) /\ frames' = At(phase)
    BY <2>1, <2>2, <2>3, <2>5, OuterAt DEF GoesOn, InPhase
  <2>6. CASE \/ \E line : \E exc \in {0, 2} : InPhase("run") /\ frames' = <<Call(line, exc)>> \o At("on")
             \/ InPhase("on") /\ frames' = <<Call(dcl[D].ON_error_command, 1)>> \o At("break")
    <3>1. Head(frames).phase # "step"
      BY <2>6 DEF InPhase
    <3>2. Tail(frames) # << >>
      BY <2>3, <3>1
    <3>3. \A phase \in {"on", "break"} : \A call : Outer(<<call>> \o At(phase)) = Outer(frames)
      <4> SUFFICES ASSUME NEW phase \in {"on", "break"}, NEW call
                   PROVE  Outer(<<call>> \o At(phase)) = Outer(frames)
        OBVIOUS
      <4>1. Outer(At(phase)) = Outer(frames) /\ \A x : Outer(<<x>> \o At(phase)) = Outer(At(phase))
        BY <2>1, <3>2, OuterAt
      <4> QED BY <4>1
    <3>4. \E phase \in {"on", "break"} : \E call : frames' = <<call>> \o At(phase)
      BY <2>6
    <3> QED BY <2>2, <3>3, <3>4
  <2>7. CASE \/ InPhase("break") /\ CTRL_Y /\ frames' = <<Call(dcl[D].ON_break_command, 1)>> \o Tail(frames)
             \/ InPhase("break") /\ frames' = Tail(frames)
    <3>1. Head(frames).phase # "step"
      BY <2>7 DEF InPhase
    <3>2. rest # << >> /\ Outer(frames) = Outer(rest)
      BY <2>3, <2>4, <3>1
    <3>3. \A call : Outer(<<call>> \o rest) = Outer(rest)
      <4> SUFFICES ASSUME NEW call PROVE Outer(<<call>> \o rest) = Outer(rest)
        OBVIOUS
      <4>1. Outer(<<call>> \o rest) = IF rest = << >> THEN call ELSE Outer(rest)
        BY <2>4, OuterOnTop
      <4> QED BY <3>2, <4>1
    <3>4. frames' = rest \/ \E call : frames' = <<call>> \o rest
      BY <2>4, <2>7
    <3>5. Outer(frames') = Outer(rest)
      BY <3>3, <3>4
    <3> QED BY <2>2, <3>2, <3>5
  <2>8. CASE \E line : InPhase("step") /\ frames' = <<Call(line, 1)>> \o frames
    <3>1. \A call : Outer(<<call>> \o frames) = Outer(frames)
      BY <2>1, OuterOnTop
    <3> QED BY <2>2, <2>8, <3>1
  <2> QED BY <1>2, <2>5, <2>6, <2>7, <2>8 DEF CallsStep
<1> QED BY <1>1, <1>2

LEMMA StepIsOutermost ==
  ASSUME FirstCall
  PROVE  StepOutermost'
<1>1. PICK call : frames' = <<call>>
  BY DEF FirstCall
<1>2. Outer(frames') = call /\ CallsIn(frames') = {call}
  BY <1>1 DEF Outer, CallsIn
<1> QED BY <1>2 DEF StepOutermost, Waiting

(***************************************************************************)
(* The words of a line.                                                    *)
(***************************************************************************)
LEMMA VerbsOfTail ==
  ASSUME NEW line \in Line, line # << >>, NEW ops
  PROVE  /\ HasVerb(Tail(line), ops) => HasVerb(line, ops)
         /\ Head(line).op \in ops => HasVerb(line, ops)
<1>1. line \in Seq(Word)
  BY DEF Line
<1>2. /\ \A i \in DOMAIN Tail(line) : i + 1 \in DOMAIN line /\ Tail(line)[i] = line[i + 1]
      /\ Head(line) = line[1] /\ 1 \in DOMAIN line
  BY <1>1, TailEntries
<1> QED BY <1>2 DEF HasVerb

\* What runs has the words of a line of the file.
LEMMA WordsOfFile ==
  ASSUME NEW p \in Seq(Line), NEW n, NEW line \in RunLines(p, n), NEW ops, HasVerb(line, ops)
  PROVE  \E i \in DOMAIN p : HasVerb(p[i], ops)
<1>1. CASE n \in DOMAIN p
  BY <1>1 DEF RunLines
<1>2. CASE n \notin DOMAIN p
  <2>1. PICK i \in DOMAIN p : line = FirstPart(p[i]) /\ Continued(p[i])
    BY <1>2 DEF RunLines
  <2>2. p[i] \in Line /\ p[i] # << >>
    BY <2>1 DEF Continued
  <2>3. \A k \in DOMAIN FirstPart(p[i]) : k \in DOMAIN p[i] /\ FirstPart(p[i])[k] = p[i][k]
    BY <2>2, FirstPartType
  <2>4. HasVerb(p[i], ops)
    BY <2>1, <2>3 DEF HasVerb
  <2> QED BY <2>4
<1> QED BY <1>1, <1>2

LEMMA NoVerbs == \A ops : ~HasVerb(<< >>, ops)
BY DEF HasVerb

\* The words of the command, and those it runs, are words of its line.
LEMMA WordsOfCommand ==
  ASSUME Live, frames # << >>, NEW ops
  PROVE  LET line == Head(frames).line
         IN  /\ Verb \in ops /\ "" \notin ops => HasVerb(line, ops)
             /\ Command # << >> /\ HasVerb(Rest, ops) => HasVerb(line, ops)
             /\ Command # << >> /\ Rest # << >> /\ HasVerb(Tail(Rest), ops) => HasVerb(line, ops)
<1> DEFINE line == Head(frames).line
<1>1. line \in Line /\ Command \in Line /\ (Command # << >> => Rest \in Line) /\ Rest = Tail(Command)
  BY CommandType DEF Live, Typed, Frame, Rest
<1>2. HasVerb(Command, ops) => HasVerb(line, ops)
  <2>1. Command = line \/ (line # << >> /\ Command = Tail(line))
    BY DEF Command
  <2> QED BY <1>1, <2>1, VerbsOfTail
<1>3. Verb \in ops /\ "" \notin ops => HasVerb(Command, ops)
  <2>1. Verb \in ops /\ "" \notin ops => Command # << >> /\ Head(Command).op \in ops
    BY DEF Verb
  <2> QED BY <1>1, <2>1, VerbsOfTail
<1>4. Command # << >> /\ HasVerb(Rest, ops) => HasVerb(Command, ops)
  BY <1>1, VerbsOfTail
<1>5. Command # << >> /\ Rest # << >> /\ HasVerb(Tail(Rest), ops) => HasVerb(Command, ops)
  BY <1>1, <1>4, VerbsOfTail
<1> HIDE DEF line
<1>6. /\ Verb \in ops /\ "" \notin ops => HasVerb(line, ops)
      /\ Command # << >> /\ HasVerb(Rest, ops) => HasVerb(line, ops)
      /\ Command # << >> /\ Rest # << >> /\ HasVerb(Tail(Rest), ops) => HasVerb(line, ops)
  BY <1>2, <1>3, <1>4, <1>5
<1> QED BY <1>6 DEF line

\* The default ON command is an EXIT.
LEMMA DefaultVerb == Head(frames).line = Default => Verb = "exit"
<1>1. \A w : Head(<<w>>) = w /\ <<w>> # << >>
  OBVIOUS
<1>2. W("exit").op = "exit"
  BY DEF W
<1>3. Head(frames).line = Default => Command = Default
  BY <1>1, <1>2 DEF Command, Default
<1> QED BY <1>1, <1>2, <1>3 DEF Verb, Default

\* A handler that runs another line stays on its level, and the line is a part of its own
\* but for the label of OPEN, READ, WRITE and CLOSE.
LEMMA NestedLine ==
  ASSUME Live, Execute, ~Finish(SEVERITY'), ~Undefined
  PROVE  /\ C' = C /\ NEXT_LINE /\ Verb # "exit"
         /\ \E line : \E exc \in {0, 2} :
              /\ FinishWith(line, exc)
              /\ HasJump(line) => HasJump(Head(frames).line)
              /\ exc = 2 \/ HasJump(Head(frames).line)
<1>1. frames # << >> /\ ~(\E s : Finish(s))
  BY FinishIsStep DEF Execute, InPhase
<1>2. \/ /\ FinishWith(Rest, 2) \/ (Rest # << >> /\ FinishWith(Tail(Rest), 2))
         /\ Verb \in {"if", "then", "else"} /\ C' = C /\ NEXT_LINE
      \/ FinishWith(<<Wa("goto", Arg)>>, 0) /\ Verb = "io" /\ C' = C /\ NEXT_LINE
  <2>1. ~LevelCommand
    BY <1>1 DEF LevelCommand, Goto, Gosub, CallSubroutine, Return, Subroutine, EndSubroutine, Exit,
          ProcedureFile, Logout, EnterFile, Skip, Reject, RejectInPlace
  <2>2. CASE ConditionCommand
    BY <1>1, <2>2 DEF ConditionCommand, If, Then, Else, EndIf, While, EndWhile, Repeat, Until, LoopOutOfBounds,
          PushCondition,
          Executing, KeepBlocks
  <2>3. CASE PlainCommand
    BY <1>1, <2>3 DEF PlainCommand, Empty, Ordinary, FileCommand, Unknown, On, SetOn, Executing,
          InteractionCommandKeeps
  <2>4. ~StepCommand /\ ~ControlCommand
    BY <1>1 DEF StepCommand, SetStep, StepWord, Cancel, ControlCommand, SetControl
  <2> QED BY <2>1, <2>2, <2>3, <2>4 DEF Execute
<1>3. Command # << >> /\ "" \notin Jumps /\ "io" \in Jumps
  BY <1>2 DEF Verb, Jumps
<1>4. HasJump(Rest) => HasJump(Head(frames).line)
  BY <1>1, <1>3, WordsOfCommand DEF HasJump
<1>5. Rest # << >> /\ HasJump(Tail(Rest)) => HasJump(Head(frames).line)
  BY <1>1, <1>3, WordsOfCommand DEF HasJump
<1>6. Verb = "io" => HasJump(Head(frames).line)
  BY <1>1, <1>3, WordsOfCommand DEF HasJump
<1> QED BY <1>2, <1>4, <1>5, <1>6

(***************************************************************************)
(* The ON commands of the levels.                                          *)
(***************************************************************************)

\* What a step leaves of the commands of ON and CTRL/Y: those it finds, those of a new
\* level, or at the current one what ON names.
CommandsKept(l) ==
  l <= D /\ dcl'[l].ON_error_command = dcl[l].ON_error_command /\ dcl'[l].ON_break_command = dcl[l].ON_break_command
CommandsNew(l) == l = D + 1 /\ dcl'[l].ON_error_command = Default /\ dcl'[l].ON_break_command = << >>
CommandGiven(l) ==
  /\ l = D /\ Executing("on") /\ Rest # << >> /\ UNCHANGED <<C, D>>
  /\ dcl'[l].ON_error_command \in {dcl[l].ON_error_command, Tail(Rest)}
  /\ dcl'[l].ON_break_command \in {dcl[l].ON_break_command, Tail(Rest)}
OnStep == \A l \in Levels : l <= D' => CommandsKept(l) \/ CommandsNew(l) \/ CommandGiven(l)

LEMMA ExitLevelOn ==
  ASSUME Live, NEW back, ExitLevel(back)
  PROVE  OnStep
<1>1. D \in Int /\ (\A l \in Levels : l \in Int) /\ dcl \in [Levels -> ProcLevel]
  BY CurrentLevels DEF Levels, Live, Typed, DclOK
<1>2. UNCHANGED <<D, dcl>> => OnStep
  BY DEF OnStep, CommandsKept
<1>3. ExitProcLevel => OnStep
  <2> SUFFICES ASSUME ExitProcLevel, NEW l \in Levels, l <= D' PROVE CommandsKept(l)
    BY DEF OnStep
  <2>1. l <= D /\ l # D
    BY <1>1 DEF ExitProcLevel
  <2>2. dcl'[l] = dcl[l]
    BY <1>1, <2>1 DEF ExitProcLevel
  <2> QED BY <2>1, <2>2 DEF CommandsKept
<1> QED BY <1>2, <1>3 DEF ExitLevel, ExitSubroutine, ExitFile, KeepLevels

LEMMA EnterProcLevelOn ==
  ASSUME Live, UnusedLevelsClear, NEW out, EnterProcLevel(out)
  PROVE  OnStep
<1>1. D \in Int /\ (\A l \in Levels : l \in Int) /\ dcl \in [Levels -> ProcLevel] /\ D' = D + 1
  BY CurrentLevels DEF Levels, Live, Typed, DclOK, EnterProcLevel
<1> SUFFICES ASSUME NEW l \in Levels, l <= D' PROVE CommandsKept(l) \/ CommandsNew(l)
  BY DEF OnStep
<1>2. CASE l = D + 1
  <2>1. l > D
    BY <1>1, <1>2
  <2>2. dcl[l] = NoProc
    BY <2>1 DEF UnusedLevelsClear
  <2>3. dcl[l].ON_break_command = << >>
    BY <2>2 DEF NoProc
  <2>4. dcl'[l].ON_error_command = <<W("exit")>> /\ dcl'[l].ON_break_command = dcl[l].ON_break_command
    BY <1>1, <1>2 DEF EnterProcLevel
  <2> QED BY <1>2, <2>3, <2>4 DEF CommandsNew, Default
<1>3. CASE l # D + 1
  <2>1. dcl'[l] = dcl[l] /\ l <= D
    BY <1>1, <1>3 DEF EnterProcLevel
  <2> QED BY <2>1 DEF CommandsKept
<1> QED BY <1>2, <1>3

LEMMA FieldOn ==
  ASSUME Live, D' = D, NEW x
  PROVE  /\ dcl' = dcl => OnStep
         /\ dcl' = [dcl EXCEPT ![D].cc = x] => OnStep
         /\ dcl' = [dcl EXCEPT ![D].ON = x] => OnStep
<1>1. D \in Levels /\ dcl \in [Levels -> ProcLevel]
  BY CurrentLevels DEF Live, Typed, DclOK
<1> SUFFICES ASSUME NEW l \in Levels, l <= D'
             PROVE  /\ dcl' = dcl => CommandsKept(l)
                    /\ dcl' = [dcl EXCEPT ![D].cc = x] => CommandsKept(l)
                    /\ dcl' = [dcl EXCEPT ![D].ON = x] => CommandsKept(l)
  BY DEF OnStep
<1>2. dcl' = dcl => CommandsKept(l)
  BY DEF CommandsKept
<1>3. dcl[D] \in ProcLevel
  BY <1>1
<1>4. LET cc == [dcl[D] EXCEPT !.cc = x]
          on == [dcl[D] EXCEPT !.ON = x]
      IN  /\ cc.ON_error_command = dcl[D].ON_error_command /\ cc.ON_break_command = dcl[D].ON_break_command
          /\ on.ON_error_command = dcl[D].ON_error_command /\ on.ON_break_command = dcl[D].ON_break_command
  BY <1>3 DEF ProcLevel
<1>5. dcl' = [dcl EXCEPT ![D].cc = x] => dcl'[l] = IF l = D THEN [dcl[D] EXCEPT !.cc = x] ELSE dcl[l]
  BY <1>1
<1>6. dcl' = [dcl EXCEPT ![D].ON = x] => dcl'[l] = IF l = D THEN [dcl[D] EXCEPT !.ON = x] ELSE dcl[l]
  BY <1>1
<1>7. dcl' = [dcl EXCEPT ![D].cc = x] => CommandsKept(l)
  BY <1>4, <1>5 DEF CommandsKept
<1>8. dcl' = [dcl EXCEPT ![D].ON = x] => CommandsKept(l)
  BY <1>4, <1>6 DEF CommandsKept
<1> QED BY <1>2, <1>7, <1>8

LEMMA OnGives ==
  ASSUME Live, On
  PROVE  OnStep
<1>1. D \in Levels /\ dcl \in [Levels -> ProcLevel] /\ D' = D /\ C' = C /\ Executing("on")
  BY CurrentLevels DEF Live, Typed, DclOK, On, InteractionCommandKeeps
<1>2. CASE UNCHANGED dcl
  BY <1>1, <1>2, FieldOn
<1>3. CASE Rest # << >> /\ (\/ dcl' = [dcl EXCEPT ![D].ON_break_command = Tail(Rest)]
                             \/ dcl' = [dcl EXCEPT ![D].ON_severity = SeverityOf(Arg),
                                                     ![D].ON_error_command = Tail(Rest)])
  <2> SUFFICES ASSUME NEW l \in Levels, l <= D' PROVE CommandsKept(l) \/ CommandGiven(l)
    BY DEF OnStep
  <2>1. dcl[l] \in ProcLevel /\ dcl[D] \in ProcLevel
    BY <1>1
  <2>2. CASE l # D
    BY <1>1, <1>3, <2>2 DEF CommandsKept
  <2>3. CASE l = D
    <3>1. PICK words : words = Tail(Rest)
      OBVIOUS
    <3>2. PICK s : s = SeverityOf(Arg)
      OBVIOUS
    <3>3. \/ dcl' = [dcl EXCEPT ![D].ON_break_command = words]
          \/ dcl' = [dcl EXCEPT ![D].ON_severity = s, ![D].ON_error_command = words]
      BY <1>3, <3>1, <3>2
    <3>4. /\ dcl'[D].ON_error_command \in {dcl[D].ON_error_command, words}
          /\ dcl'[D].ON_break_command \in {dcl[D].ON_break_command, words}
      BY <1>1, <2>1, <3>3 DEF ProcLevel
    <3> QED BY <1>1, <1>3, <2>3, <3>1, <3>4 DEF CommandGiven
  <2> QED BY <2>2, <2>3
<1> QED BY <1>2, <1>3 DEF On

LEMMA ExecuteOn ==
  ASSUME Live, UnusedLevelsClear, Execute
  PROVE  OnStep
<1>1. UNCHANGED <<D, dcl>> => OnStep
  BY FieldOn
<1>2. CASE Undefined
  BY <1>1, <1>2 DEF Undefined, levelVars
<1>3. CASE LevelCommand /\ ~Undefined
  <2>1. \/ UNCHANGED <<D, dcl>>
        \/ \E out : EnterProcLevel(out)
        \/ ExitLevel(0)
        \/ ExitSubroutine(cmd, 0)
    BY <1>3 DEF LevelCommand, Goto, Gosub, CallSubroutine, Return, Subroutine, EndSubroutine, Exit,
          ProcedureFile, Logout, EnterFile, Skip, Reject, RejectInPlace, KeepLevels, BeginSubroutine
  <2>2. ExitSubroutine(cmd, 0) => UNCHANGED <<D, dcl>> \/ ExitProcLevel
    BY DEF ExitSubroutine
  <2>3. ExitProcLevel => OnStep
    <3>1. D \in Int /\ (\A l \in Levels : l \in Int) /\ dcl \in [Levels -> ProcLevel]
      BY CurrentLevels DEF Levels, Live, Typed, DclOK
    <3> QED BY <3>1 DEF ExitProcLevel, OnStep, CommandsKept
  <2> QED BY <1>1, <2>1, <2>2, <2>3, ExitLevelOn, EnterProcLevelOn
<1>4. CASE ConditionCommand /\ ~Undefined
  <2>1. D' = D /\ (UNCHANGED dcl \/ \E cc : SetCC(cc))
    BY <1>4 DEF ConditionCommand, If, Then, Else, EndIf, While, EndWhile, Repeat, Until,
          LoopOutOfBounds, PushCondition, KeepBlocks
  <2> QED BY <2>1, FieldOn DEF SetCC
<1>5. CASE PlainCommand
  <2>1. On \/ (D' = D /\ (UNCHANGED dcl \/ \E x : dcl' = [dcl EXCEPT ![D].ON = x]))
    BY <1>5 DEF PlainCommand, Empty, Ordinary, FileCommand, Unknown, SetOn, InteractionCommandKeeps
  <2> QED BY <2>1, FieldOn, OnGives
<1>6. CASE StepCommand
  BY <1>1, <1>6, ExitLevelOn DEF StepCommand, SetStep, StepWord, Cancel, InteractionCommandKeeps
<1>7. CASE ControlCommand /\ ~Undefined
  BY <1>1, <1>7 DEF ControlCommand, SetControl, InteractionCommandKeeps
<1> QED BY <1>2, <1>3, <1>4, <1>5, <1>6, <1>7 DEF Execute

(***************************************************************************)
(* Where the jumps of a level come from.                                   *)
(***************************************************************************)
LEMMA NothingAdded == \A c, d, n \in Nat : d = c + n /\ n = 0 => d = c
OBVIOUS

LEMMA LevelNumbers ==
  ASSUME Live
  PROVE  /\ C \in Int /\ D \in Int /\ D = C + dcl_subr /\ dcl_subr \in Nat /\ C >= 1
         /\ \A l \in Levels : l \in Int /\ l >= 1
         /\ \A l \in Int : 1 <= l /\ l <= C => l \in Levels
BY CurrentLevels, BoundsAssumption DEF Levels, Live, Typed, LevelsOK

LEMMA JumpyStays ==
  ASSUME Live, LevelsInv', text' = text, FieldsStep, NEW l \in Levels, l <= C, l <= C'
  PROVE  Jumpy(l)' <=> Jumpy(l)
<1>1. C \in Int /\ C' \in Int /\ l \in Int
  BY LevelNumbers DEF LevelsInv
<1>2. ~Entered(l)
  <2>1. ~(l > C) /\ ~(l > C')
    BY <1>1
  <2> QED BY <2>1 DEF Entered
<1>3. cmd'[l].file = cmd[l].file
  BY <1>2 DEF FieldsStep, KeptAt, StopSet, CallMade
<1> QED BY <1>3 DEF Jumpy, LinesAt

\* The command that runs is not the default one unless it is an EXIT.
LEMMA JumpsOfLine ==
  ASSUME Live, SessionInv, LineJumps, InPhase("run"), Waiting(frames) = {}, C > 1, HasJump(Head(frames).line),
         Verb # "exit"
  PROVE  Jumpy(C)
BY DefaultVerb DEF LineJumps, NewestJumps

LEMMA VerbJumps ==
  ASSUME Live, SessionInv, LineJumps, InPhase("run"), Waiting(frames) = {}, C > 1, Verb \in Jumps \ {"exit"}
  PROVE  Jumpy(C)
<1>1. "" \notin Jumps /\ frames # << >>
  BY DEF Jumps, InPhase
<1>2. HasJump(Head(frames).line)
  BY <1>1, WordsOfCommand DEF HasJump
<1> QED BY <1>2, JumpsOfLine

\* A step that may change the levels.
LevelMoves ==
  /\ text' = text /\ FieldsStep /\ SessionStep /\ OnStep
  /\ LevelsInv' /\ dcl_state' # "ENDED" /\ (dcl_subr # 0 => C' <= C)

LEMMA CallersStay ==
  ASSUME Live, SessionInv, LevelJumps, LineJumps, StepLeavesLevels, LevelMoves
  PROVE  CallersJump' /\ SubroutineJumps'
<1>1. C \in Int /\ D \in Int /\ C >= 1 /\ C \in Levels /\ dcl_subr \in Nat
  BY LevelNumbers, CurrentLevels
<1>2. \A l \in Levels : l <= C /\ l <= C' => (Jumpy(l)' <=> Jumpy(l))
  BY JumpyStays DEF LevelMoves
<1>3. CallersJump /\ SubroutineJumps /\ \A l \in Levels : l \in Int
  BY LevelNumbers DEF LevelJumps
<1>4. CASE FileBegins
  <2>1. C' = C + 1 /\ dcl_subr' = 0 /\ Verb = "at" /\ InPhase("run")
    BY <1>1, <1>4 DEF FileBegins, LevelMoves, Executing
  <2>2. Waiting(frames) = {}
    BY <1>1, <2>1 DEF StepLeavesLevels
  <2>3. C > 1 => Jumpy(C)
    <3>1. "at" \in Jumps \ {"exit"}
      BY DEF Jumps
    <3> QED BY <2>1, <2>2, <3>1, VerbJumps
  <2>4. \A l \in Levels : 1 < l /\ l < C' => l <= C /\ l <= C' /\ (l < C \/ l = C)
    BY <1>1, <1>3, <2>1
  <2>5. CallersJump'
    BY <1>2, <1>3, <2>3, <2>4 DEF CallersJump
  <2> QED BY <2>1, <2>5 DEF SubroutineJumps
<1>5. CASE FileEnds
  <2>1. C' = C - 1 /\ dcl_subr' = 0
    BY <1>5 DEF FileEnds
  <2>2. \A l \in Levels : 1 < l /\ l < C' => l <= C /\ l <= C' /\ l < C
    BY <1>1, <1>3, <2>1
  <2>3. CallersJump'
    BY <1>2, <1>3, <2>2 DEF CallersJump
  <2> QED BY <2>1, <2>3 DEF SubroutineJumps
<1>6. CASE C' = C
  <2>1. \A l \in Levels : l <= C => (Jumpy(l)' <=> Jumpy(l))
    BY <1>2, <1>6
  <2>2. CallersJump'
    <3>1. \A l \in Levels : 1 < l /\ l < C' => l <= C /\ l < C
      BY <1>1, <1>3, <1>6
    <3> QED BY <1>3, <2>1, <3>1 DEF CallersJump
  <2>3. Jumpy(C)' <=> Jumpy(C)
    <3>1. C <= C
      BY <1>1
    <3> QED BY <1>1, <1>6, <2>1, <3>1 DEF Jumpy, LinesAt
  <2>4. CASE SubroutineBegins
    <3>1. Verb = "call" /\ InPhase("run") /\ C > 1 /\ dcl_subr' = dcl_subr + 1
      BY <2>4 DEF SubroutineBegins, Executing
    <3>2. D' = C' + dcl_subr' /\ D = C + dcl_subr
      BY LevelNumbers DEF LevelMoves, LevelsInv
    <3>3. Waiting(frames) = {}
      BY <1>1, <1>6, <3>1, <3>2 DEF StepLeavesLevels
    <3>4. "call" \in Jumps \ {"exit"}
      BY DEF Jumps
    <3>5. Jumpy(C)
      BY <3>1, <3>3, <3>4, VerbJumps
    <3> QED BY <2>2, <2>3, <3>5 DEF SubroutineJumps
  <2>5. CASE dcl_subr' # 0 => dcl_subr # 0
    <3>1. C' > 1 /\ dcl_subr' # 0 => Jumpy(C)'
      BY <1>3, <1>6, <2>3, <2>5 DEF SubroutineJumps
    <3> QED BY <2>2, <3>1 DEF SubroutineJumps
  <2>6. SubroutineBegins \/ (dcl_subr' # 0 => dcl_subr # 0)
    BY <1>1, <1>6 DEF LevelMoves, SessionStep, SessionSame, FileEnds, FileBegins, FileMissing, LoggedOut,
          SubroutineEnds
  <2> QED BY <2>4, <2>5, <2>6
<1> QED BY <1>4, <1>5, <1>6 DEF LevelMoves, SessionStep, SessionSame, FileMissing, LoggedOut, SubroutineBegins,
      SubroutineEnds

LEMMA OnJumpsStay ==
  ASSUME Live, SessionInv, LevelJumps, LineJumps, StepLeavesLevels, LevelMoves
  PROVE  OnJumps'
<1>1. C \in Int /\ D \in Int /\ C >= 1 /\ C \in Levels /\ dcl_subr \in Nat /\ D = C + dcl_subr
  BY LevelNumbers, CurrentLevels
<1>2. C' \in Nat /\ D' \in Nat /\ dcl_subr' \in Nat /\ D' = C' + dcl_subr' /\ C' >= 1
  BY DEF LevelMoves, LevelsInv
<1>3. \A l \in Levels : l <= C /\ l <= C' => (Jumpy(l)' <=> Jumpy(l))
  BY JumpyStays DEF LevelMoves
<1>4. C = 1 => dcl_subr = 0
  BY DEF SessionInv, Live
<1>5. C' = C \/ (dcl_subr' = 0 /\ dcl_subr = 0)
  BY <1>1 DEF LevelMoves, SessionStep, SessionSame, FileBegins, FileEnds, FileMissing, LoggedOut,
        SubroutineBegins, SubroutineEnds
<1> SUFFICES ASSUME NEW l \in Levels, 1 < l, l <= D', OnHasJump(l)'
             PROVE  Jumpy(Lesser(l, C))'
  BY DEF OnJumps
<1>6. l \in Int
  BY LevelNumbers
<1>7. PICK k \in Int : k = Lesser(l, C)
  BY <1>1, <1>6 DEF Lesser
<1>8. l <= D => k = Lesser(l, C') /\ k \in Levels /\ k <= C /\ k <= C'
  <2>1. l <= D => k <= C /\ k <= C' /\ 1 <= k /\ k = Lesser(l, C')
    <3>1. CASE C' = C
      BY <1>1, <1>6, <1>7, <3>1 DEF Lesser
    <3>2. CASE dcl_subr' = 0 /\ dcl_subr = 0
      <4>1. D = C
        BY <1>1, <3>2
      <4>2. D' = C'
        BY <1>2, <3>2, NothingAdded
      <4>3. l <= D => l <= C /\ l <= C'
        BY <4>1, <4>2
      <4> QED BY <1>1, <1>2, <1>6, <1>7, <4>3 DEF Lesser
    <3> QED BY <1>5, <3>1, <3>2
  <2> QED BY <2>1, LevelNumbers
<1>9. l <= D /\ OnHasJump(l) => Jumpy(k)
  BY <1>7 DEF LevelJumps, OnJumps
<1>10. l <= D /\ Jumpy(k) => Jumpy(Lesser(l, C))'
  <2> SUFFICES ASSUME l <= D, Jumpy(k) PROVE Jumpy(Lesser(l, C))'
    OBVIOUS
  <2>1. Jumpy(k)'
    BY <1>3, <1>8
  <2> QED BY <1>8, <2>1 DEF Jumpy, LinesAt
<1>11. CASE CommandsKept(l)
  <2>1. l <= D /\ OnHasJump(l)
    BY <1>11 DEF CommandsKept, OnHasJump
  <2> QED BY <1>9, <1>10, <2>1
<1>12. CASE CommandsNew(l)
  <2>1. ~OnHasJump(l)'
    BY <1>12, NoVerbs DEF CommandsNew, OnHasJump, HasJump
  <2> QED BY <2>1
<1>13. CASE CommandGiven(l)
  <2>1. l = D /\ l <= D /\ C > 1 /\ InPhase("run") /\ Verb = "on" /\ Rest # << >> /\ k = C
    BY <1>1, <1>4, <1>6, <1>7, <1>13 DEF CommandGiven, Executing, Lesser
  <2>2. OnHasJump(l) \/ HasJump(Tail(Rest))
    BY <1>13 DEF CommandGiven, OnHasJump
  <2>3. ASSUME HasJump(Tail(Rest))
        PROVE  Jumpy(C)
    <3>1. Waiting(frames) = {}
      BY <1>13 DEF CommandGiven, StepLeavesLevels
    <3>2. Command # << >> /\ frames # << >>
      BY <2>1 DEF Verb, InPhase
    <3>3. HasJump(Head(frames).line)
      BY <2>1, <2>3, <3>2, WordsOfCommand DEF HasJump
    <3> QED BY <2>1, <3>1, <3>3, JumpsOfLine
  <2> QED BY <1>9, <1>10, <2>1, <2>2, <2>3
<1> QED BY <1>11, <1>12, <1>13 DEF LevelMoves, OnStep

\* A step that leaves the files, the levels and the ON commands.
LevelsRest ==
  UNCHANGED <<text, C, D, dcl, dcl_subr>> /\ \A l \in Levels : cmd'[l].file = cmd[l].file

LEMMA RestKeepsJumps ==
  ASSUME Live, LevelJumps, LevelsRest
  PROVE  LevelJumps' /\ (Jumpy(C)' <=> Jumpy(C)) /\ Lines' = Lines
<1>1. C \in Levels
  BY CurrentLevels
<1>2. \A l \in Levels : Jumpy(l)' <=> Jumpy(l)
  BY DEF LevelsRest, Jumpy, LinesAt
<1>3. \A l \in Levels : Lesser(l, C) \in Levels
  BY <1>1 DEF Lesser
<1>4. Jumpy(C)' <=> Jumpy(C)
  BY <1>1 DEF LevelsRest, Jumpy, LinesAt
<1>5. CallersJump' /\ SubroutineJumps'
  BY <1>2, <1>4 DEF LevelsRest, LevelJumps, CallersJump, SubroutineJumps
<1>6. OnJumps'
  <2> SUFFICES ASSUME NEW l \in Levels, 1 < l, l <= D', OnHasJump(l)'
               PROVE  Jumpy(Lesser(l, C))'
    BY DEF OnJumps
  <2>1. l <= D /\ OnHasJump(l)
    BY DEF LevelsRest, OnHasJump
  <2>2. Jumpy(Lesser(l, C))
    BY <2>1 DEF LevelJumps, OnJumps
  <2>3. cmd'[Lesser(l, C)].file = cmd[Lesser(l, C)].file
    BY <1>3 DEF LevelsRest
  <2> QED BY <2>2, <2>3 DEF LevelsRest, Jumpy, LinesAt, Lesser
<1> QED BY <1>1, <1>4, <1>5, <1>6 DEF LevelJumps, LevelsRest, Lines

(***************************************************************************)
(* The lines that run.                                                     *)
(***************************************************************************)
NoneExcepted(s) == \A call \in CallsIn(s) : call.exc # 1

LEMMA ExceptionsAt ==
  ASSUME Live, frames # << >>, NEW phase \in {"on", "break"}
  PROVE  NoneExcepted(At(phase)) <=> NoneExcepted(frames)
<1>1. frames \in Seq(Frame) /\ Tail(frames) \in Seq(Frame) /\ CallsIn(frames) = {Head(frames)} \cup CallsIn(Tail(frames))
  BY CallBelow DEF Live, Typed, CallsOK
<1>2. PICK top : top = [Head(frames) EXCEPT !.phase = phase]
  OBVIOUS
<1>3. top.exc = Head(frames).exc
  BY <1>1, <1>2, HeadAt
<1>4. At(phase) = <<top>> \o Tail(frames)
  BY <1>2 DEF At
<1>5. CallsIn(At(phase)) = {top} \cup CallsIn(Tail(frames))
  BY <1>1, <1>4, CallOnTop
<1> QED BY <1>1, <1>3, <1>5 DEF NoneExcepted

\* What a handler calls is on top of its own call.
LEMMA CalledOnTop ==
  ASSUME Live, frames # << >>, NEW phase \in {"on", "break"}, NEW line, NEW exc,
         frames' = <<Call(line, exc)>> \o At(phase)
  PROVE  /\ Head(frames').phase = "run" /\ Head(frames').line = line /\ Head(frames').exc = exc
         /\ Tail(frames') = At(phase) /\ Tail(frames') # << >> /\ Outer(frames') = Outer(At(phase))
         /\ NoneExcepted(frames') <=> exc # 1 /\ NoneExcepted(frames)
<1>1. PICK call : call = Call(line, exc)
  OBVIOUS
<1>2. call.phase = "run" /\ call.line = line /\ call.exc = exc
  BY <1>1 DEF Call
<1>3. PICK s \in Seq(Frame) : s = At(phase) /\ s # << >>
  BY HeadAt, AtType
<1>4. frames' = <<call>> \o s
  BY <1>1, <1>3
<1>5. /\ CallsIn(<<call>> \o s) = {call} \cup CallsIn(s)
      /\ Head(<<call>> \o s) = call /\ Tail(<<call>> \o s) = s
  BY CallOnTop
<1>6. Outer(<<call>> \o s) = Outer(s)
  BY <1>3, OuterOnTop
<1>7. NoneExcepted(frames') <=> call.exc # 1 /\ NoneExcepted(s)
  BY <1>4, <1>5 DEF NoneExcepted
<1>8. NoneExcepted(s) <=> NoneExcepted(frames)
  BY <1>3, ExceptionsAt
<1> QED BY <1>2, <1>3, <1>4, <1>5, <1>6, <1>7, <1>8

\* A command that is no jump goes on to the next line, unless it is of the STEP prompt.
LEMMA LineAdvances ==
  ASSUME Live, Execute, C > 1, C' = C, dcl_subr = 0, ~undefined', Verb \notin Jumps \ {"exit"}
  PROVE  cmd'[C].ln = NextLine(cmd)[C].ln \/ (Verb \in StepWords /\ cmd'[C].ln = cmd[C].ln)
<1>1. C \in Levels /\ C \in Int /\ C - 1 # C
  BY LevelNumbers, CurrentLevels
<1>2. NextLine(cmd) \in [Levels -> CmdLevel] /\ NextLine(cmd)[C] \in CmdLevel /\ NextLine(cmd)[C].ln \in Int
  BY <1>1, NextLineType, LineNumbers DEF Live, Typed, CmdOK
<1>3. ~Undefined /\ (NEXT_LINE => cmd'[C].ln = NextLine(cmd)[C].ln)
  BY DEF Undefined, NEXT_LINE
<1>4. \A x : /\ cmd' = [NextLine(cmd) EXCEPT ![C].subr = x] => cmd'[C].ln = NextLine(cmd)[C].ln
             /\ cmd' = [NextLine(cmd) EXCEPT ![C].stop = x] => cmd'[C].ln = NextLine(cmd)[C].ln
  BY <1>1, <1>2 DEF CmdLevel
<1>5. ExitLevel(0) => cmd'[C].ln = NextLine(cmd)[C].ln
  <2> SUFFICES ASSUME ExitLevel(0) PROVE cmd'[C].ln = NextLine(cmd)[C].ln
    OBVIOUS
  <2>1. cmd' = [NextLine(cmd) EXCEPT ![C].ln = NextLine(cmd)[C].ln - 0]
    BY <1>1 DEF ExitLevel, ExitFile
  <2>2. PICK next \in [Levels -> CmdLevel] : next = NextLine(cmd)
    BY <1>2
  <2>3. PICK n \in Int : n = next[C].ln /\ n - 0 = n
    BY <1>2, <2>2
  <2>4. cmd' = [next EXCEPT ![C].ln = n] /\ next[C] \in CmdLevel
    BY <1>1, <2>1, <2>2, <2>3
  <2>5. cmd'[C].ln = n
    BY <1>1, <2>4 DEF CmdLevel
  <2> QED BY <2>2, <2>3, <2>5
<1>6. CASE LevelCommand
  <2>1. Subroutine \/ EndSubroutine \/ Exit \/ Logout
    BY <1>6 DEF LevelCommand, Goto, Gosub, CallSubroutine, Return, ProcedureFile, Executing, Jumps
  <2> QED BY <1>3, <1>4, <1>5, <2>1 DEF Subroutine, EndSubroutine, Exit, Logout, Reject
<1>7. CASE ConditionCommand
  <2>1. NEXT_LINE
    BY <1>3, <1>7 DEF ConditionCommand, If, Then, Else, EndIf, While, EndWhile, Repeat, Until, LoopOutOfBounds,
          Executing, Jumps
  <2> QED BY <1>3, <2>1
<1>8. CASE PlainCommand \/ ControlCommand
  <2>1. NEXT_LINE
    BY <1>3, <1>8 DEF PlainCommand, Empty, Ordinary, FileCommand, Unknown, On, SetOn, ControlCommand, SetControl
  <2> QED BY <1>3, <2>1
<1>9. CASE StepCommand
  <2>1. \/ NEXT_LINE \/ ExitLevel(0)
        \/ UNCHANGED cmd /\ Verb \in {"step", "resume"}
    BY <1>9 DEF StepCommand, SetStep, StepWord, Cancel, Executing
  <2> QED BY <1>3, <1>5, <2>1 DEF StepWords
<1> QED BY <1>6, <1>7, <1>8, <1>9 DEF Execute

\* A handler leaves the levels, or moves them.
LEMMA ExecuteMoves ==
  ASSUME Live, SessionInv, UnusedLevelsClear, Execute, dcl_subr # 0 => C' <= C
  PROVE  LevelMoves
<1>1. text' = text /\ FieldsStep /\ SessionStep /\ OnStep
  BY ExecuteFields, ExecuteOn DEF Execute, fileVars
<1>2. LevelStep
  BY ExecuteSteps DEF Live
<1> QED BY <1>1, <1>2, LevelStepKeeps DEF LevelMoves, LevelStep, Live

LEMMA ReadEofMoves ==
  ASSUME Live, SessionInv, ReadEof, dcl_subr # 0 => C' <= C
  PROVE  LevelMoves
<1>1. text' = text /\ FieldsStep /\ SessionStep /\ OnStep
  BY ExitLevelFields, KeptStep, ExitLevelOn DEF ReadEof, MainLoopKeeps, fileVars
<1>2. LevelStep
  BY ExitLevelSteps DEF Live, ReadEof
<1> QED BY <1>1, <1>2, LevelStepKeeps DEF LevelMoves, LevelStep, Live

LEMMA LevelJumpsStay ==
  ASSUME Live, SessionInv, LevelJumps, LineJumps, StepLeavesLevels, LevelMoves
  PROVE  LevelJumps' /\ (C' = C => (Jumpy(C)' <=> Jumpy(C)) /\ Lines' = Lines)
<1>1. C \in Levels /\ C <= C
  BY LevelNumbers, CurrentLevels
<1>2. C' = C => cmd'[C].file = cmd[C].file
  BY FileStays DEF LevelMoves
<1>3. C' = C => (Jumpy(C)' <=> Jumpy(C)) /\ Lines' = Lines
  BY <1>2 DEF LevelMoves, Jumpy, LinesAt, Lines
<1> QED BY <1>3, CallersStay, OnJumpsStay DEF LevelJumps

\* The line that main() reads is one of its file.
LEMMA FirstJumps ==
  ASSUME FirstCall, LineInv', Lines' \in Seq(Line)
  PROVE  LineJumps'
<1>1. PICK call : call.exc = 0 /\ frames' = <<call>>
  BY DEF FirstCall
<1>2. Head(frames') = call /\ Tail(frames') = << >> /\ Outer(frames') = call
  BY <1>1 DEF Outer
<1>3. OwnJumps'
  BY <1>2 DEF OwnJumps
<1>4. NewestJumps'
  <2> SUFFICES ASSUME InPhase("run")', C' > 1, HasJump(Head(frames').line) PROVE Jumpy(C)'
    BY DEF NewestJumps
  <2>1. Numbered(Head(frames).line, cmd[C].ln)'
    BY <1>1, <1>2 DEF LineInv, Direct
  <2>2. Head(frames').line # << >>
    BY NoVerbs DEF HasJump
  <2>3. Head(frames').line \in RunLines(Lines', cmd'[C'].ln)
    BY <2>1, <2>2 DEF Numbered, RunLines, FirstPart, Continued
  <2>4. \E i \in DOMAIN Lines' : HasJump(Lines'[i])
    BY <2>3, WordsOfFile DEF HasJump
  <2> QED BY <2>4 DEF Jumpy, LinesAt, Lines
<1> QED BY <1>3, <1>4 DEF LineJumps

LEMMA ExecuteJumps ==
  ASSUME Live, SessionInv, LineInv, LevelJumps, LineJumps, StepLeavesLevels, LevelMoves, Execute
  PROVE  LineJumps'
<1>1. InPhase("run") /\ frames # << >> /\ ~undefined
  BY DEF Execute, InPhase
<1>2. CASE Undefined
  BY <1>2 DEF Undefined, LineJumps, NewestJumps, OwnJumps, InPhase
<1>3. CASE Finish(SEVERITY')
  <2>1. Head(frames').phase = "on"
    BY <1>1, <1>3, HeadAt DEF Finish
  <2> QED BY <2>1 DEF LineJumps, NewestJumps, OwnJumps, InPhase
<1>4. CASE ~Finish(SEVERITY') /\ ~Undefined
  <2>1. C' = C /\ Verb # "exit"
    BY <1>4, NestedLine
  <2>0. PICK line : \E exc \in {0, 2} : FinishWith(line, exc) /\ (HasJump(line) => HasJump(Head(frames).line))
    BY <1>4, NestedLine
  <2>2. PICK exc \in {0, 2} : FinishWith(line, exc) /\ (HasJump(line) => HasJump(Head(frames).line))
    BY <2>0
  <2>3. frames' = <<Call(line, exc)>> \o At("on")
    BY <2>2 DEF FinishWith
  <2>4. /\ Head(frames').line = line /\ Outer(frames') = Outer(At("on"))
        /\ NoneExcepted(frames') <=> exc # 1 /\ NoneExcepted(frames)
    BY <1>1, <2>3, CalledOnTop
  <2>5. Waiting(frames') = Waiting(frames)
    <3>1. CallsStep
      BY <1>1, <2>3 DEF CallsStep
    <3> QED BY <3>1, WaitingStays DEF LineInv
  <2>6. Outer(frames').line = Outer(frames).line
    BY <1>1, <2>4, OuterAt
  <2>7. OwnJumps'
    BY <1>1, <2>2, <2>4, <2>6 DEF OwnJumps, NoneExcepted, LineJumps
  <2>8. Jumpy(C)' <=> Jumpy(C)
    BY <2>1, LevelJumpsStay
  <2>9. NewestJumps'
    <3> SUFFICES ASSUME Waiting(frames') = {}, C' > 1, HasJump(line) PROVE Jumpy(C)'
      BY <2>4 DEF NewestJumps
    <3> QED BY <1>1, <2>1, <2>2, <2>5, <2>8, JumpsOfLine
  <2> QED BY <2>7, <2>9 DEF LineJumps
<1> QED BY <1>2, <1>3, <1>4

\* The command that ON or CTRL/Y runs is that of its level.
LEMMA OnCommandJumps ==
  ASSUME Live, SessionInv, LevelJumps, LevelsRest, ~NoneExcepted(frames)',
         \/ Head(frames').line = dcl[D].ON_error_command
         \/ Head(frames').line = dcl[D].ON_break_command
  PROVE  LineJumps'
<1>1. OwnJumps'
  BY DEF OwnJumps, NoneExcepted
<1>2. NewestJumps'
  <2> SUFFICES ASSUME C > 1, HasJump(Head(frames').line), Head(frames').line # Default
               PROVE  Jumpy(C)'
    BY DEF NewestJumps, LevelsRest
  <2>1. OnHasJump(D)
    BY DEF OnHasJump
  <2>2. D \in Levels /\ 1 < D /\ D <= D /\ Lesser(D, C) = C
    BY LevelNumbers, CurrentLevels DEF Lesser
  <2>3. Jumpy(C)
    BY <2>1, <2>2 DEF LevelJumps, OnJumps
  <2> QED BY <2>3, RestKeepsJumps
<1> QED BY <1>1, <1>2 DEF LineJumps

\* A step after which no command runs, or the same.
LEMMA NoneStarts ==
  ASSUME Live, LevelJumps, LineJumps, LevelsRest, UNCHANGED <<frames, undefined>> \/ ~InPhase("run")'
  PROVE  LineJumps'
<1>1. Jumpy(C)' <=> Jumpy(C)
  BY RestKeepsJumps
<1>2. CASE ~InPhase("run")'
  BY <1>2 DEF LineJumps, NewestJumps, OwnJumps
<1>3. CASE UNCHANGED <<frames, undefined>>
  <2>1. OwnJumps'
    BY <1>3 DEF LineJumps, OwnJumps, InPhase
  <2>2. NewestJumps'
    BY <1>1, <1>3 DEF LineJumps, NewestJumps, InPhase, LevelsRest
  <2> QED BY <2>1, <2>2 DEF LineJumps
<1> QED BY <1>2, <1>3

\* Every step but those of the handlers, of the end of a file and of main() leaves the levels.
LEMMA StepsRest ==
  ASSUME Live, OnError \/ OnBreak \/ StepPrompt \/ CtrlC \/ UNCHANGED vars
  PROVE  LevelsRest
BY DEF LevelsRest, OnError, OnBreak, EndOfCommandKeeps, StepPrompt, CtrlC, MainLoopKeeps, vars, levelVars, fileVars

LEMMA MainRests ==
  ASSUME Live, NextCommandLine \/ ReadKbd, ~End, ~ReadEof
  PROVE  LevelsRest
<1>1. C \in Levels /\ cmd \in [Levels -> CmdLevel]
  BY CurrentLevels DEF Live, Typed, CmdOK
<1>2. UNCHANGED <<text, C, D, dcl, dcl_subr>>
  BY DEF NextCommandLine, Login, Arguments, LogoutFile, Stopped, ReadLine, StepDone, ReadKbd, MainLoopKeeps,
        levelVars, fileVars
<1>3. UNCHANGED cmd \/ \E x : cmd' = [cmd EXCEPT ![C].stop = x] \/ cmd' = [cmd EXCEPT ![C].ln = x]
  BY DEF NextCommandLine, Login, Arguments, LogoutFile, Stopped, ReadLine, StepDone, ReadKbd, levelVars
<1>4. \A l \in Levels : cmd'[l].file = cmd[l].file
  <2> SUFFICES ASSUME NEW l \in Levels PROVE cmd'[l].file = cmd[l].file
    OBVIOUS
  <2>1. ASSUME NEW x, cmd' = [cmd EXCEPT ![C].stop = x] PROVE cmd'[l].file = cmd[l].file
    BY <1>1, <2>1, FlagOnly
  <2>2. ASSUME NEW x, cmd' = [cmd EXCEPT ![C].ln = x] PROVE cmd'[l].file = cmd[l].file
    BY <1>1, <2>2, LineOnly
  <2> QED BY <1>3, <2>1, <2>2
<1> QED BY <1>2, <1>4 DEF LevelsRest

LEMMA OtherJumps ==
  ASSUME Live, SessionInv, LineInv, LevelJumps, LineJumps, OnError \/ OnBreak \/ StepPrompt \/ CtrlC \/ UNCHANGED vars
  PROVE  LineJumps'
<1>1. LevelsRest
  BY StepsRest
<1>2. frames \in Seq(Frame)
  BY DEF Live, Typed, CallsOK
<1>3. CASE OnError
  <2>1. frames # << >>
    BY <1>3 DEF OnError, InPhase
  <2>2. CASE OnFires
    <3>1. frames' = <<Call(dcl[D].ON_error_command, 1)>> \o At("break")
      BY <1>3, <2>2 DEF OnError
    <3>2. Head(frames').line = dcl[D].ON_error_command /\ ~NoneExcepted(frames')
      BY <2>1, <3>1, CalledOnTop
    <3> QED BY <1>1, <3>2, OnCommandJumps DEF NoneExcepted
  <2>3. CASE ~OnFires
    <3>1. Head(frames').phase = "break"
      BY <1>3, <2>1, <2>3, HeadAt DEF OnError
    <3> QED BY <1>1, <3>1, NoneStarts DEF InPhase
  <2> QED BY <2>2, <2>3
<1>4. CASE OnBreak
  <2>1. frames # << >> /\ Tail(frames) \in Seq(Frame)
    BY <1>2, <1>4, CallBelow DEF OnBreak, InPhase
  <2>2. CASE CTRL_Y
    <3>1. PICK call : call = Call(dcl[D].ON_break_command, 1)
      OBVIOUS
    <3>2. frames' = <<call>> \o Tail(frames)
      BY <1>4, <2>2, <3>1 DEF OnBreak
    <3>3. call.line = dcl[D].ON_break_command /\ call.exc = 1
      BY <3>1 DEF Call
    <3>4. Head(frames') = call /\ call \in CallsIn(frames')
      BY <2>1, <3>2, CallOnTop
    <3>5. ~NoneExcepted(frames')
      BY <3>3, <3>4 DEF NoneExcepted
    <3> QED BY <1>1, <3>3, <3>4, <3>5, OnCommandJumps DEF NoneExcepted
  <2>3. CASE ~CTRL_Y
    <3>1. frames' = Tail(frames) /\ NoneRuns(Tail(frames))
      BY <1>4, <2>1, <2>3 DEF OnBreak, LineInv, NewestRuns
    <3>2. ~InPhase("run")'
      BY <2>1, <3>1, CallBelow DEF InPhase, NoneRuns
    <3> QED BY <1>1, <3>2, NoneStarts
  <2> QED BY <2>2, <2>3
<1>5. CASE StepPrompt
  <2>1. frames # << >>
    BY <1>5 DEF StepPrompt, InPhase
  <2>2. PICK line : frames' = <<Call(line, 1)>> \o frames
    BY <1>5 DEF StepPrompt
  <2>3. PICK call : call = Call(line, 1)
    OBVIOUS
  <2>4. call.exc = 1 /\ CallsIn(frames') = {call} \cup CallsIn(frames)
    BY <1>2, <2>2, <2>3, CallOnTop DEF Call
  <2>5. Head(frames) \in Waiting(frames)
    BY <1>2, <1>5, <2>1, CallBelow DEF StepPrompt, InPhase, Waiting
  <2>6. Waiting(frames') # {}
    BY <2>4, <2>5 DEF Waiting
  <2> QED BY <2>4, <2>6 DEF LineJumps, NewestJumps, OwnJumps
<1>6. CASE CtrlC \/ UNCHANGED vars
  <2>1. UNCHANGED <<frames, undefined>>
    BY <1>6 DEF CtrlC, vars, callVars
  <2> QED BY <1>1, <2>1, NoneStarts
<1> QED BY <1>3, <1>4, <1>5, <1>6

(***************************************************************************)
(* The line of main(), once it has run.                                    *)
(***************************************************************************)

\* While a line runs alone, EXCPT is the one that main() has set.
LEMMA FirstStays ==
  ASSUME Live, LineInv, First => EXCPT = 0, [Next]_vars, ~End
  PROVE  First' => EXCPT' = 0
<1>1. frames \in Seq(Frame)
  BY DEF Live, Typed, CallsOK
<1>2. CASE UNCHANGED <<frames, EXCPT>> /\ (InPhase("run")' => InPhase("run"))
  BY <1>2 DEF First
<1>3. CASE Execute
  <2>1. InPhase("run") /\ frames # << >>
    BY <1>3 DEF Execute, InPhase
  <2>2. CASE UNCHANGED <<frames, EXCPT>>
    BY <1>2, <2>1, <2>2
  <2>3. CASE Finish(SEVERITY')
    BY <2>1, <2>3, HeadAt DEF Finish, First, InPhase
  <2>4. CASE \E line : \E exc \in {0, 2} : FinishWith(line, exc)
    <3>1. Tail(frames') # << >>
      BY <2>1, <2>4, CalledOnTop DEF FinishWith
    <3> QED BY <3>1 DEF First
  <2> QED BY <1>3, <2>2, <2>3, <2>4, ExecuteHandles DEF HandlerStep
<1>4. CASE OnError
  <2>1. frames # << >>
    BY <1>4 DEF OnError, InPhase
  <2>2. Head(frames').phase = "break" \/ Tail(frames') # << >>
    BY <1>4, <2>1, HeadAt, CalledOnTop DEF OnError
  <2> QED BY <2>2 DEF First, InPhase
<1>5. CASE OnBreak \/ StepPrompt
  <2>1. frames # << >> /\ Tail(frames) \in Seq(Frame)
    BY <1>1, <1>5, CallBelow DEF OnBreak, StepPrompt, InPhase
  <2>2. CASE \E line : frames' = <<Call(line, 1)>> \o Tail(frames) \/ frames' = <<Call(line, 1)>> \o frames
    <3>1. Head(frames').exc = 1
      BY <2>1, <2>2, HeadOnTop DEF Call
    <3> QED BY <3>1 DEF First
  <2>3. CASE frames' = Tail(frames)
    <3>1. frames' # << >> => Head(frames').phase # "run"
      BY <2>1, <2>3, CallBelow DEF LineInv, NewestRuns, NoneRuns
    <3> QED BY <3>1 DEF First, InPhase
  <2> QED BY <1>5, <2>2, <2>3 DEF OnBreak, StepPrompt
<1>6. CASE NextCommandLine \/ ReadKbd
  BY <1>6, FirstLine
<1>7. CtrlC \/ UNCHANGED vars => UNCHANGED <<frames, EXCPT, undefined>>
  BY DEF CtrlC, vars, callVars
<1> QED BY <1>2, <1>3, <1>4, <1>5, <1>6, <1>7 DEF Next, Program, User, InPhase

\* The line is passed by its own command.
LEMMA FirstPasses ==
  ASSUME Live, SessionInv, LineInv, SubroutineJumps, First => EXCPT = 0, Execute, Tail(frames) = << >>,
         Head(frames).exc = 0,
         C > 1, C' = C, ~undefined', ~Jumpy(C), Lines' = Lines,
         Head(frames).line # << >>, ~HasVerb(Head(frames).line, Jumps \cup StepWords)
  PROVE  Head(frames).line \in RunLines(Lines', cmd'[C].ln - 1)
<1>1. InPhase("run") /\ frames # << >>
  BY DEF Execute, InPhase
<1>2. EXCPT = 0
  BY <1>1 DEF First
<1>3. Head(frames).line \in RunLines(Lines, cmd[C].ln)
  BY <1>1 DEF LineInv, Direct, Numbered
<1>4. Verb \notin Jumps \cup StepWords
  <2>1. "" \notin Jumps \cup StepWords
    BY DEF Jumps, StepWords
  <2> QED BY <1>1, <2>1, WordsOfCommand
<1>5. dcl_subr = 0
  BY DEF SubroutineJumps
<1>6. cmd'[C].ln = NextLine(cmd)[C].ln
  BY <1>4, <1>5, LineAdvances
<1>7. C \in Levels /\ cmd \in [Levels -> CmdLevel] /\ cmd[C] \in CmdLevel /\ cmd[C].ln \in Int
  BY CurrentLevels, LineNumbers DEF Live, Typed, CmdOK
<1>8. PICK n \in Int : n = cmd[C].ln /\ (n + 1) - 1 = n
  BY <1>7
<1>9. cmd'[C].ln = n + 1
  <2>1. PICK m \in Int : m = n + 1
    OBVIOUS
  <2>2. NextLine(cmd) = [cmd EXCEPT ![C].ln = m]
    BY <1>2, <1>8, <2>1 DEF NextLine
  <2>3. NextLine(cmd)[C] = [cmd[C] EXCEPT !.ln = m]
    BY <1>7, <2>2
  <2>4. NextLine(cmd)[C].ln = m
    BY <1>7, <2>3 DEF CmdLevel
  <2> QED BY <1>6, <2>1, <2>4
<1> QED BY <1>3, <1>8, <1>9

\* The commands that it runs leave it so.
LEMMA NestedPasses ==
  ASSUME Live, SessionInv, SubroutineJumps, LineJumps, Execute, EXCPT # 0, Waiting(frames) = {},
         C > 1, C' = C, ~undefined', ~Jumpy(C)
  PROVE  cmd'[C].ln = cmd[C].ln
<1>1. InPhase("run") /\ dcl_subr = 0
  BY DEF Execute, SubroutineJumps
<1>2. Verb \notin Jumps \ {"exit"}
  BY <1>1, VerbJumps
<1>3. NextLine(cmd) = cmd
  BY DEF NextLine
<1> QED BY <1>1, <1>2, <1>3, LineAdvances

\* What a handler leaves of it.
LEMMA ExecutePasses ==
  ASSUME Live, SessionInv, LineInv, OnceInv, OnRunsNoFile, StepLeavesLevels, LevelMoves, Execute, Passing'
  PROVE  Passed' /\ (Head(frames').phase = "run" => EXCPT' # 0)
<1>1. InPhase("run") /\ frames # << >> /\ Head(frames).phase = "run" /\ text' = text
  BY DEF Execute, InPhase, LevelMoves
<1>2. ~undefined' /\ ~Undefined /\ ~undefined
  BY <1>1 DEF Passing, Undefined, InPhase
<1>3. LevelJumps /\ LineJumps /\ PassedInv /\ SubroutineJumps /\ (First => EXCPT = 0)
  BY DEF OnceInv, LevelJumps, PassedInv
<1>4. CASE UNCHANGED <<frames, SEVERITY, EXCPT, C, cmd, D, dcl, dcl_subr, dcl_state>>
  <2>1. Passing
    BY <1>1, <1>2, <1>4 DEF Passing, Jumpy, LinesAt
  <2> QED BY <1>1, <1>3, <1>4, <2>1 DEF PassedInv, Passed, Lines
<1>5. CASE Finish(SEVERITY') \/ \E line : \E exc \in {0, 2} : FinishWith(line, exc)
  <2>1. CallsStep
    BY <1>1, <1>5 DEF Finish, FinishWith, CallsStep, GoesOn
  <2>2. Waiting(frames) = {}
    BY <2>1, WaitingStays DEF Passing, LineInv
  <2>3. Outer(frames') = Outer(At("on"))
    <3>1. ASSUME NEW line, NEW exc, frames' = <<Call(line, exc)>> \o At("on")
          PROVE  Outer(frames') = Outer(At("on"))
      BY <1>1, <3>1, CalledOnTop
    <3> QED BY <1>5, <3>1 DEF Finish, FinishWith
  <2>4. /\ Outer(frames').line = Outer(frames).line /\ Outer(frames').exc = Outer(frames).exc
        /\ Tail(frames) # << >> => Outer(frames') = Outer(frames)
        /\ Tail(frames) = << >> => Outer(frames) = Head(frames)
    BY <1>1, <2>3, OuterAt
  <2>5. /\ Outer(frames).exc = 0 /\ Outer(frames').phase # "run" /\ Outer(frames).line # << >>
        /\ ~HasVerb(Outer(frames).line, Jumps \cup StepWords) /\ C' > 1 /\ ~Jumpy(C)'
    BY <2>4 DEF Passing
  <2>6. ~HasJump(Outer(frames).line)
    BY <2>5 DEF HasJump, HasVerb
  <2>7. ~FileBegins
    <3> SUFFICES ASSUME Executing("at") PROVE FALSE
      BY DEF FileBegins
    <3>1. "at" \in Jumps /\ "" \notin Jumps
      BY DEF Jumps
    <3>2. HasJump(Head(frames).line)
      BY <1>1, <3>1, WordsOfCommand DEF Executing, HasJump
    <3> QED BY <1>1, <1>3, <2>6, <3>2 DEF OnRunsNoFile, LineJumps, OwnJumps
  <2>8. ~FileEnds
    <3> SUFFICES ASSUME FileEnds PROVE FALSE
      OBVIOUS
    <3>1. C \in Int /\ C' = C - 1 /\ C' > 1 /\ LevelsInv'
      BY <2>5, LevelNumbers DEF FileEnds, LevelMoves
    <3>2. PICK l \in Int : l = C - 1
      BY <3>1
    <3>3. l = C' /\ 1 < l /\ l < C /\ l <= C /\ l <= C' /\ 1 <= l
      BY <3>1, <3>2
    <3>4. l \in Levels
      BY <3>3, LevelNumbers
    <3>5. Jumpy(l)
      BY <1>3, <3>3, <3>4 DEF LevelJumps, CallersJump
    <3>6. Jumpy(l)'
      BY <1>1, <3>1, <3>3, <3>4, <3>5, JumpyStays DEF LevelMoves
    <3> QED BY <2>5, <3>3, <3>6 DEF Jumpy, LinesAt
  <2>9. C' = C
    BY <2>7, <2>8 DEF LevelMoves, SessionStep, SessionSame, FileMissing, LoggedOut, SubroutineBegins, SubroutineEnds
  <2>10. Lines' = Lines /\ ~Jumpy(C) /\ C > 1
    BY <1>3, <2>5, <2>9, LevelJumpsStay
  <2>11. Passed'
    <3>1. CASE Tail(frames) = << >>
      <4>1. Head(frames).exc = 0 /\ Head(frames).line # << >> /\ ~HasVerb(Head(frames).line, Jumps \cup StepWords)
        BY <2>4, <2>5, <3>1
      <4>2. Head(frames).line \in RunLines(Lines', cmd'[C].ln - 1)
        BY <1>2, <1>3, <2>9, <2>10, <3>1, <4>1, FirstPasses
      <4> QED BY <2>4, <2>9, <3>1, <4>2 DEF Passed
    <3>2. CASE Tail(frames) # << >>
      <4>1. Passing
        BY <1>1, <1>2, <2>2, <2>4, <2>5, <2>10, <3>2 DEF Passing
      <4>2. Passed /\ EXCPT # 0
        BY <1>1, <1>3, <4>1 DEF PassedInv
      <4>3. cmd'[C].ln = cmd[C].ln
        BY <1>2, <1>3, <2>2, <2>9, <2>10, <4>2, NestedPasses
      <4> QED BY <2>4, <2>9, <2>10, <4>2, <4>3 DEF Passed
    <3> QED BY <3>1, <3>2
  <2>12. CASE Finish(SEVERITY')
    <3>1. Head(frames').phase = "on"
      BY <1>1, <2>12, HeadAt DEF Finish
    <3> QED BY <2>11, <3>1
  <2>13. CASE ~Finish(SEVERITY')
    <3>1. ~HasJump(Head(frames).line)
      <4>1. Verb # "exit"
        BY <1>2, <2>13, NestedLine
      <4> QED BY <1>1, <1>3, <2>2, <2>10, <4>1, JumpsOfLine
    <3>2. \E line : FinishWith(line, 2)
      BY <1>2, <2>13, <3>1, NestedLine
    <3> QED BY <2>11, <3>2 DEF FinishWith
  <2> QED BY <2>12, <2>13
<1> QED BY <1>4, <1>5, ExecuteHandles DEF HandlerStep

\* What the steps after a command leave of it.
LEMMA RestPasses ==
  ASSUME Live, LineInv, LevelJumps, PassedInv, LevelsRest, UNCHANGED cmd, Passing', ~undefined, frames # << >>,
         Waiting(frames) = {},
         /\ Outer(frames').line = Outer(frames).line /\ Outer(frames').exc = Outer(frames).exc
         /\ Outer(frames).phase # "run"
  PROVE  Passed'
<1>1. Lines' = Lines /\ C' = C /\ (Jumpy(C)' <=> Jumpy(C))
  BY RestKeepsJumps DEF LevelsRest
<1>2. Passing
  BY <1>1 DEF Passing
<1>3. Passed
  BY <1>2 DEF PassedInv
<1> QED BY <1>1, <1>3 DEF Passed

LEMMA OtherPasses ==
  ASSUME Live, LineInv, LevelJumps, PassedInv, OnError \/ OnBreak \/ StepPrompt \/ CtrlC \/ UNCHANGED vars, Passing'
  PROVE  Passed' /\ (Head(frames').phase = "run" => EXCPT' # 0)
<1>1. LevelsRest /\ UNCHANGED cmd
  BY StepsRest DEF OnError, OnBreak, EndOfCommandKeeps, StepPrompt, CtrlC, vars, levelVars
<1>2. frames \in Seq(Frame) /\ NewestRuns
  BY DEF Live, Typed, CallsOK, LineInv
<1>3. CASE OnError
  <2>1. frames # << >> /\ ~undefined /\ Head(frames).phase = "on"
    BY <1>3 DEF OnError, InPhase
  <2>2. \/ frames' = At("break")
        \/ frames' = <<Call(dcl[D].ON_error_command, 1)>> \o At("break") /\ EXCPT' = 1
    BY <1>3 DEF OnError
  <2>3. CallsStep
    <3>1. GoesOn("break")
      BY <1>3 DEF OnError, GoesOn
    <3> QED BY <1>3, <3>1 DEF OnError, CallsStep
  <2>4. Waiting(frames) = {}
    BY <1>2, <2>3, WaitingStays DEF Passing
  <2>5. Outer(frames') = Outer(At("break"))
    BY <2>1, <2>2, CalledOnTop
  <2>6. /\ Outer(frames').line = Outer(frames).line /\ Outer(frames').exc = Outer(frames).exc
        /\ Tail(frames) # << >> => Outer(frames') = Outer(frames)
        /\ Tail(frames) = << >> => Outer(frames) = Head(frames)
    BY <2>1, <2>5, OuterAt
  <2>7. Outer(frames).phase # "run"
    BY <2>1, <2>6 DEF Passing
  <2>8. Passed'
    BY <1>1, <2>1, <2>4, <2>6, <2>7, RestPasses
  <2>9. Head(frames').phase = "break" \/ EXCPT' # 0
    BY <2>1, <2>2, HeadAt
  <2> QED BY <2>8, <2>9
<1>4. CASE OnBreak
  <2>1. frames # << >> /\ ~undefined /\ Head(frames).phase = "break"
    BY <1>4 DEF OnBreak, InPhase
  <2>2. PICK rest \in Seq(Frame) : rest = Tail(frames)
    BY <1>2, <2>1, CallBelow
  <2>3. PICK call : call = Call(dcl[D].ON_break_command, 1)
    OBVIOUS
  <2>4. frames' = rest \/ (frames' = <<call>> \o rest /\ EXCPT' = 1 /\ call.exc = 1)
    BY <1>4, <2>2, <2>3 DEF OnBreak, Call
  <2>5. Outer(<<call>> \o rest) = IF rest = << >> THEN call ELSE Outer(rest)
    BY <2>2, OuterOnTop
  <2>6. rest # << >> /\ Outer(frames') = Outer(rest)
    <3>1. frames' # << >> /\ Outer(frames').exc = 0
      BY DEF Passing
    <3>2. CASE frames' = rest
      BY <3>1, <3>2
    <3>3. CASE frames' = <<call>> \o rest /\ call.exc = 1
      <4>1. Outer(frames') = IF rest = << >> THEN call ELSE Outer(rest)
        BY <2>5, <3>3
      <4> QED BY <3>1, <3>3, <4>1
    <3> QED BY <2>4, <3>2, <3>3
  <2>7. Outer(frames') = Outer(frames)
    BY <1>2, <2>1, <2>2, <2>6, OuterIsCall
  <2>8. CallsStep
    BY <1>4 DEF OnBreak, CallsStep
  <2>9. Waiting(frames) = {}
    BY <1>2, <2>8, WaitingStays DEF Passing
  <2>10. Passed'
    <3>1. Outer(frames).phase # "run"
      BY <2>7 DEF Passing
    <3> QED BY <1>1, <2>1, <2>7, <2>9, <3>1, RestPasses
  <2>11. frames' = rest => Head(frames').phase # "run"
    BY <1>2, <2>1, <2>2, <2>6, CallBelow DEF NewestRuns, NoneRuns
  <2> QED BY <2>4, <2>10, <2>11
<1>5. CASE StepPrompt
  <2>1. InPhase("step") /\ frames # << >> /\ CallsStep
    BY <1>5 DEF StepPrompt, CallsStep, InPhase
  <2>2. Head(frames) \in Waiting(frames)
    BY <1>2, <2>1, CallBelow DEF InPhase, Waiting
  <2>3. Waiting(frames') # {}
    BY <1>2, <2>1, <2>2, WaitingStays
  <2> QED BY <2>3 DEF Passing
<1>6. CASE CtrlC \/ UNCHANGED vars
  <2>1. UNCHANGED <<frames, undefined, EXCPT>>
    BY <1>6 DEF CtrlC, vars, callVars
  <2>2. Lines' = Lines /\ C' = C /\ (Jumpy(C)' <=> Jumpy(C))
    BY <1>1, RestKeepsJumps DEF LevelsRest
  <2>3. Passing
    BY <2>1, <2>2 DEF Passing
  <2> QED BY <1>1, <2>1, <2>2, <2>3 DEF PassedInv, Passed
<1> QED BY <1>3, <1>4, <1>5, <1>6

\* The line that main() runs next is not passed yet.
LEMMA FirstIsNotPassing == FirstCall => ~Passing'
<1> SUFFICES ASSUME FirstCall, Waiting(frames') = {}, Outer(frames').phase # "run" PROVE FALSE
  BY DEF Passing
<1>1. PICK call : call.phase \in {"step", "run"} /\ frames' = <<call>>
  BY DEF FirstCall
<1>2. Outer(frames') = call /\ CallsIn(frames') = {call}
  BY <1>1 DEF Outer, CallsIn
<1> QED BY <1>1, <1>2 DEF Waiting

LEMMA NextKeepsOnce ==
  ASSUME Live, SessionInv, LineInv, LineInv', UnusedLevelsClear, OnceInv, OnRunsNoFile, StepLeavesLevels,
         dcl_subr # 0 => C' <= C, [Next]_vars, ~End
  PROVE  OnceInv'
<1>1. LevelJumps /\ LineJumps /\ PassedInv /\ (First => EXCPT = 0)
  BY DEF OnceInv, PassedInv
<1>2. First' => EXCPT' = 0
  BY <1>1, FirstStays
<1>3. StepOutermost'
  <2>1. CallsStep => StepOutermost'
    BY StepStaysOutermost DEF OnceInv, LineInv
  <2> QED BY <2>1, NextCalls, StepIsOutermost
<1>4. Lines' \in Seq(Line)
  <2>1. text' \in Programs
    BY TextStays DEF fileVars, Live, Typed, RestOK
  <2> QED BY <2>1, InputsAssumption DEF Lines
<1>5. CASE Execute
  <2>1. LevelMoves
    BY <1>5, ExecuteMoves
  <2>2. LevelJumps' /\ LineJumps'
    BY <1>1, <1>5, <2>1, LevelJumpsStay, ExecuteJumps
  <2>3. Passing' => Passed' /\ (Head(frames').phase = "run" => EXCPT' # 0)
    BY <1>5, <2>1, ExecutePasses
  <2> QED BY <1>2, <1>3, <2>2, <2>3 DEF OnceInv, PassedInv
<1>6. CASE OnError \/ OnBreak \/ StepPrompt \/ CtrlC \/ UNCHANGED vars
  <2>1. LevelJumps'
    BY <1>1, <1>6, StepsRest, RestKeepsJumps
  <2>2. LineJumps'
    BY <1>1, <1>6, OtherJumps
  <2>3. Passing' => Passed' /\ (Head(frames').phase = "run" => EXCPT' # 0)
    BY <1>1, <1>6, OtherPasses
  <2> QED BY <1>2, <1>3, <2>1, <2>2, <2>3 DEF OnceInv, PassedInv
<1>7. CASE NextCommandLine \/ ReadKbd
  <2>1. FirstCall
    BY <1>7, FirstLine
  <2>2. LineJumps' /\ ~Passing'
    BY <1>4, <2>1, FirstJumps, FirstIsNotPassing
  <2>3. LevelJumps'
    <3>1. CASE ReadEof
      BY <1>1, <3>1, ReadEofMoves, LevelJumpsStay
    <3>2. CASE ~ReadEof
      BY <1>1, <1>7, <3>2, MainRests, RestKeepsJumps
    <3> QED BY <3>1, <3>2
  <2> QED BY <1>2, <1>3, <2>2, <2>3 DEF OnceInv, PassedInv
<1> QED BY <1>5, <1>6, <1>7 DEF Next, Program, User

\* Nothing runs before the session and after it.
LEMMA OnceWhenIdle ==
  ASSUME frames = << >>, C \in Nat, C <= 1, D = C
  PROVE  OnceInv
<1>1. LevelJumps
  <2>1. \A l \in Levels : l \in Int
    BY DEF Levels
  <2>2. \A l \in Levels : ~(1 < l /\ l < C) /\ ~(1 < l /\ l <= D)
    BY <2>1
  <2> QED BY <2>2 DEF LevelJumps, CallersJump, SubroutineJumps, OnJumps
<1>2. LineJumps /\ PassedInv /\ StepOutermost
  BY DEF LineJumps, NewestJumps, OwnJumps, PassedInv, First, Passing, InPhase, StepOutermost, Waiting, CallsIn
<1> QED BY <1>1, <1>2 DEF OnceInv

LEMMA OnceEnds ==
  ASSUME frames' = << >>, C' = 0, D' = 0
  PROVE  OnceInv'
<1>1. LevelJumps'
  <2>1. \A l \in Levels : l \in Int
    BY DEF Levels
  <2>2. \A l \in Levels : ~(1 < l /\ l < C') /\ ~(1 < l /\ l <= D')
    BY <2>1
  <2> QED BY <2>2 DEF LevelJumps, CallersJump, SubroutineJumps, OnJumps
<1>2. LineJumps' /\ PassedInv' /\ StepOutermost'
  BY DEF LineJumps, NewestJumps, OwnJumps, PassedInv, First, Passing, InPhase, StepOutermost, Waiting, CallsIn
<1> QED BY <1>1, <1>2 DEF OnceInv

\* Every line that main() runs in a procedure without jumps is passed exactly once, while
\* the commands it nests, ON and CTRL/Y run and after them, and none runs again; of a line
\* that goes on, only what follows its first part runs.  What ON and CTRL/Y run is no
\* procedure file, a subroutine runs none, the commands of the STEP prompt begin and end no
\* level, and the files of the session are apart.
THEOREM LineAlwaysConsumedOnce ==
  Spec /\ []SystemFilesApart /\ NothingBeginsAtStep /\ NoFileInSubroutine /\ []OnRunsNoFile => []LineConsumedOnce
<1> DEFINE Inv == Session /\ LineInv /\ UnusedLevelsClear /\ OnceInv
<1>1. Init => Inv
  <2> SUFFICES ASSUME Init PROVE Inv
    OBVIOUS
  <2>1. frames = << >> /\ C \in Nat /\ C <= 1 /\ D = C /\ UnusedLevelsClear
    BY DEF Init, UnusedLevelsClear
  <2> QED BY <2>1, SessionStart, LineStart, OnceWhenIdle
<1>2. Inv /\ [Next]_vars /\ SystemFilesApart /\ OnRunsNoFile /\ [StepLeavesLevels]_vars
        /\ [dcl_subr # 0 => C' <= C]_<<C, dcl_subr>> => Inv'
  <2> SUFFICES ASSUME Inv, [Next]_vars, SystemFilesApart, OnRunsNoFile, [StepLeavesLevels]_vars,
                      [dcl_subr # 0 => C' <= C]_<<C, dcl_subr>>
               PROVE  Inv'
    OBVIOUS
  <2>1. [LevelWaits]_vars
    BY DEF StepLeavesLevels, LevelWaits
  <2>2. Session' /\ LineInv' /\ UnusedLevelsClear'
    BY <2>1, SessionNext, LineNext, NextKeepsClear DEF Session
  <2>3. dcl_subr # 0 => C' <= C
    BY DEF Session, LevelsInv
  <2>4. CASE UNCHANGED vars
    <3>1. UNCHANGED <<text, C, D, dcl, dcl_subr, cmd, frames, undefined, EXCPT>>
      BY <2>4 DEF vars, levelVars, callVars, fileVars
    <3>2. LevelJumps' /\ LineJumps'
      BY <3>1 DEF OnceInv, LevelJumps, CallersJump, SubroutineJumps, OnJumps, OnHasJump, Jumpy, LinesAt, LineJumps,
            NewestJumps, OwnJumps, InPhase
    <3>3. PassedInv'
      BY <3>1 DEF OnceInv, PassedInv, First, Passing, Passed, Jumpy, LinesAt, InPhase, Lines
    <3>4. StepOutermost'
      BY <3>1 DEF OnceInv, StepOutermost
    <3> QED BY <2>2, <3>2, <3>3, <3>4 DEF OnceInv
  <2>5. CASE End
    BY <2>2, <2>5, OnceEnds DEF End, MainLoop, callVars
  <2>6. CASE ~End /\ ~(UNCHANGED vars)
    <3>1. dcl_state # "ENDED"
      BY <2>6, EndedStays DEF Session
    <3>2. OnceInv'
      BY <2>2, <2>3, <2>6, <3>1, NextKeepsOnce DEF Session, Live
    <3> QED BY <2>2, <3>2
  <2> QED BY <2>4, <2>5, <2>6
<1>3. Inv => LineConsumedOnce
  <2> SUFFICES ASSUME Inv, ~undefined, frames # << >>, C > 1, Straight, Outer(frames).phase \in {"on", "break"},
                      Outer(frames).exc = 0, Outer(frames).line # << >>,
                      ~HasVerb(Outer(frames).line, Jumps \cup StepWords)
               PROVE  Passed
    BY DEF LineConsumedOnce, Passed
  <2>1. Waiting(frames) = {}
    BY DEF OnceInv, StepOutermost
  <2>2. ~Jumpy(C)
    BY DEF Straight, Jumpy, HasJump, LinesAt, Lines
  <2>3. Passing
    BY <2>1, <2>2 DEF Passing
  <2> QED BY <2>3 DEF OnceInv, PassedInv
<1> QED BY <1>1, <1>2, <1>3, PTL DEF Spec, NothingBeginsAtStep, NoFileInSubroutine
=============================================================================
