---------------------------- MODULE FileCommands ----------------------------
(***************************************************************************)
(* DELETE, COPY, RENAME, APPEND, TYPE, PRINT and SET FILE: the search that *)
(* they share, /CONFIRM, /SUBDIR, and what each does to a file.            *)
(*                                                                         *)
(* A path is a sequence of names, a name a pair <<file, type>>.  What the  *)
(* operating system lists of a directory that changes while it is listed   *)
(* is external: it shows every entry that is there all the time, in any    *)
(* order, and may show the others.                                         *)
(*                                                                         *)
(* The commands are typed at the prompt.  Left out: hidden files and /ALL, *)
(* patterns without wildcards that name a directory (but for DELETE), the  *)
(* listings of TYPE, and files longer than the buffers of the C library.   *)
(***************************************************************************)
EXTENDS Integers, Sequences, FiniteSets

CONSTANTS
  Files, Types,   \* the parts of names
  Ways,           \* way to write a path -> what it has before the default directory
  Dotted,         \* the names that "*.*" finds: all on Windows, those with a type on Unix
  Pieces,         \* what files are made of
  Commands,       \* that the user may give
  Disks,          \* initial files and directories
  MaxCommands, MaxEvents   \* bounds of given and events

VARIABLES
  files, dirs,
  command,      \* NoCommand or the one that runs
  param,        \* its DEL_PARAM, COP_PARAM, ..., and the patterns it has not begun to search
  scans,        \* open searches, innermost first
  found,        \* the file in hand
  at,           \* next: in the search; ask, answer: dcl_confirm; do: the command proper
  SUBDIR, CTRL_Y, HARDERR, _SEVERITY,
  undefined,    \* a stream has been closed twice, or memory read that nothing has set
  full,         \* the disk is full
  given,        \* commands so far
  events        \* CTRL/C, removals by other programs and full disks so far

\* Observation only: the answer about the file in hand (ALL and QUIT stay), and the files that
\* the command selected when it began and has not come to.
VARIABLES said, pending

vars == <<files, dirs, command, param, scans, found, at, SUBDIR, CTRL_Y, HARDERR, _SEVERITY,
          undefined, full, given, events, said, pending>>

Names == Files \X Types
Erased == 255
Dates == {1, 2}    \* before the session, and since
File == [data: Seq(Pieces \cup {Erased}), date: Dates]
Verbs == {"DELETE", "COPY", "RENAME", "APPEND", "TYPE", "PRINT", "SETFILE"}
FileSpec == [way: DOMAIN Ways, dir: Seq(Names), file: Files \cup {"*", ""}, type: Types \cup {"*", ""}]
Qualifiers == {"CONFIRM", "SUBDIR", "NEW", "NOREPLACE", "ERASE", "SETUP"}
Command == [verb: Verbs, from: Seq(FileSpec), to: FileSpec, quals: SUBSET Qualifiers, dates: SUBSET Dates]
NoCommand == << >>
Nothing == << >>

Parent(p) == SubSeq(p, 1, Len(p) - 1)
Last(p) == p[Len(p)]

\* A name has a file part, and may have no type.
ASSUME NamesAssumption ==
  /\ {"*", ""} \cap Files = {} /\ "*" \notin Types /\ "" \in Types
  /\ Ways \in [DOMAIN Ways -> Seq(Names)]
  /\ Erased \notin Pieces
ASSUME CommandsAssumption == Commands \subseteq Command
\* Files and directories are a tree.
ASSUME DisksAssumption ==
  \A d \in Disks : /\ << >> \in d.dirs /\ d.dirs \subseteq Seq(Names)
                   /\ DOMAIN d.files \subseteq Seq(Names) \ d.dirs
                   /\ d.files \in [DOMAIN d.files -> File]
                   /\ \A p \in (d.dirs \cup DOMAIN d.files) \ {<< >>} : Parent(p) \in d.dirs
ASSUME FileBounds == MaxCommands \in Nat /\ MaxEvents \in Nat

(***************************************************************************)
(* Paths and files.                                                        *)
(***************************************************************************)
Begins(s, t) == Len(s) <= Len(t) /\ SubSeq(t, 1, Len(s)) = s
Below(p, dir) == p # dir /\ Begins(dir, p)
Path(x) == Append(x.dir, x.name)
Entries(dir) == {Last(p) : p \in {q \in DOMAIN files \cup dirs : q # << >> /\ Parent(q) = dir}}

Data(p) == IF p \in DOMAIN files THEN files[p].data ELSE << >>
Date(p) == IF p \in DOMAIN files THEN files[p].date ELSE 0
With(p, f) == [q \in DOMAIN files \cup {p} |-> IF q = p THEN f ELSE files[q]]
Without(p) == [q \in DOMAIN files \ {p} |-> files[q]]
Written(p, data) == With(p, [data |-> data, date |-> 2])

\* Whether a file can be made, or opened to be written, at a path.
Writable(p, tree) == p \notin tree /\ Parent(p) \in tree

(***************************************************************************)
(* What a pattern stands for.  fnmatch wants the dot of "*.*";             *)
(* cvfs_cmp_file_name, which DELETE uses, does not.  A pattern without a   *)
(* type is the name of a file without a type.                              *)
(***************************************************************************)
Wild(s) == "*" \in {s.file, s.type}
Matches(s, n) ==
  /\ s.file \in {"*", n[1]}
  /\ s.type = n[2] \/ (s.type = "*" /\ (command.verb = "DELETE" \/ n \in Dotted))
Selected(p) == Date(p) \in command.dates
Has(q) == q \in command.quals

\* All that a search for s comes to, directory after directory.
Reaches(s, p) ==
  /\ Matches(s, Last(p))
  /\ \/ Parent(p) = s.dir
     \/ /\ Has("SUBDIR") /\ Below(Parent(p), s.dir)
        /\ command.verb = "DELETE" \/ \A i \in Len(s.dir) + 1 .. Len(p) - 1 : p[i] \in Dotted

(***************************************************************************)
(* The search.                                                             *)
(***************************************************************************)
Top == scans[1]
Scan(s, dir, pass) ==
  [spec |-> [s EXCEPT !.dir = dir], pass |-> pass, shown |-> {}, due |-> Entries(dir)]

\* An entry that is removed is not due any more, and one of that name may come back.
Forget(p) ==
  scans' = [i \in DOMAIN scans |->
              IF scans[i].spec.dir = Parent(p)
              THEN [scans[i] EXCEPT !.shown = @ \ {Last(p)}, !.due = @ \ {Last(p)}]
              ELSE scans[i]]

\* The pattern that _findfirst is given: that of the command, "*.*" for directories, "*" for DELETE.
\* Mutant: subdirectories are searched by the pattern for files.
ListedByPattern(n) == Top.pass = "all" \/ Matches(Top.spec, n)
Listed(n) ==
  CASE Top.pass = "files" -> Matches(Top.spec, n)
    [] Top.pass = "dirs"  -> n \in Dotted
    [] Top.pass = "all"   -> TRUE

\* CTRL/C sets both flags, and reading the keyboard clears the first.  The search for
\* subdirectories does not test the second.
StoppedByKey == CTRL_Y    \* mutant
Stopped == CTRL_Y \/ (HARDERR /\ Top.pass # "dirs")

NoOffer == UNCHANGED <<param, found, at, said>>

\* The beginning of the function that the search calls: dcldelf_do_it and so on.  The
\* dates of directories are not modelled: one may be selected or not.
Offer(dir, n, isdir) ==
  \/ /\ isdir \/ Selected(Append(dir, n))
     /\ param' = [param EXCEPT !.file_nb = TRUE]
     /\ at' = IF param.confirm THEN "ask" ELSE IF param.ok THEN "do" ELSE "next"
     /\ found' = IF at' = "next" THEN Nothing ELSE [way |-> Top.spec.way, dir |-> dir, name |-> n]
     /\ said' = IF said \in {"ALL", "QUIT"} THEN said ELSE ""
  \/ /\ IF isdir THEN command.dates # Dates ELSE ~Selected(Append(dir, n))
     /\ NoOffer

Show(n) == [Top EXCEPT !.shown = @ \cup {n}]
Enter(n, pass) ==
  /\ scans' = <<Scan(Top.spec, Append(Top.spec.dir, n), pass), Show(n)>> \o Tail(scans)
  /\ NoOffer

dcl_searchdir(n, isdir) ==
  IF Top.pass = "dirs" /\ isdir THEN Enter(n, "files")
  ELSE /\ scans' = <<Show(n)>> \o Tail(scans)
       /\ IF Top.pass = "files" /\ ~isdir THEN Offer(Top.spec.dir, n, FALSE) ELSE NoOffer

dcl_del_searchdir(n, isdir) ==
  IF isdir /\ Has("SUBDIR") THEN Enter(n, "all")
  ELSE /\ scans' = <<Show(n)>> \o Tail(scans)
       /\ IF Matches(Top.spec, n) /\ (isdir => ~Wild(Top.spec)) THEN Offer(Top.spec.dir, n, isdir) ELSE NoOffer

Running == command # NoCommand /\ ~undefined
Searching == Running /\ at = "next"

NextFile ==
  /\ Searching /\ scans # << >> /\ ~Stopped
  /\ \E n \in Entries(Top.spec.dir) \ Top.shown :
       /\ Listed(n)
       /\ LET isdir == Append(Top.spec.dir, n) \in dirs
          IN  IF command.verb = "DELETE" THEN dcl_del_searchdir(n, isdir) ELSE dcl_searchdir(n, isdir)
  /\ UNCHANGED <<files, dirs, command, SUBDIR, CTRL_Y, HARDERR, _SEVERITY, undefined, full, given, events, pending>>

\* DELETE/SUBDIR comes to a directory after what is in it, whatever has stopped it there.
EndSearch ==
  /\ Searching /\ scans # << >>
  /\ Stopped \/ \A n \in Top.due \ Top.shown : ~Listed(n)
  /\ IF Top.pass = "files" /\ Has("SUBDIR")
     THEN /\ scans' = <<Scan(Top.spec, Top.spec.dir, "dirs")>> \o Tail(scans)
          /\ SUBDIR' = TRUE
          /\ NoOffer
     ELSE /\ scans' = Tail(scans)
          /\ UNCHANGED SUBDIR
          /\ IF Top.pass = "all" /\ Len(scans) > 1 /\ Matches(Top.spec, Last(Top.spec.dir))
             THEN Offer(Parent(Top.spec.dir), Last(Top.spec.dir), TRUE)
             ELSE NoOffer
  /\ UNCHANGED <<files, dirs, command, CTRL_Y, HARDERR, _SEVERITY, undefined, full, given, events, pending>>

KeptPattern == param    \* mutant
NextParam == [param EXCEPT !.rest = Tail(@)]

\* dcl_searchdirlst
NextPattern ==
  /\ Searching /\ scans = << >> /\ param.rest # << >>
  /\ LET s == Head(param.rest)
     IN  scans' = <<Scan(s, s.dir, IF command.verb = "DELETE" THEN "all" ELSE "files")>>
  /\ param' = NextParam
  /\ UNCHANGED <<files, dirs, command, found, at, SUBDIR, CTRL_Y, HARDERR, _SEVERITY, undefined, full, given, events,
                 said, pending>>

(***************************************************************************)
(* dcl_confirm: the prompt, kbdread, and what the answer sets.             *)
(***************************************************************************)
Ask ==
  /\ at = "ask"
  /\ CTRL_Y' = FALSE
  /\ at' = "answer"
  /\ UNCHANGED <<files, dirs, command, param, scans, found, SUBDIR, HARDERR, _SEVERITY, undefined, full, given, events,
                 said, pending>>

\* A word that is none of these is asked for again.
Understood(word) == IF word = "NO" /\ CTRL_Y' THEN "QUIT" ELSE word

\* Mutant: QUIT is NO.
AnsweredOnce(answer) ==
  [param EXCEPT !.ok = answer \in {"YES", "ALL"}, !.confirm = answer # "ALL"]
Answered(answer) ==
  [param EXCEPT !.ok = answer \in {"YES", "ALL"}, !.confirm = answer \notin {"ALL", "QUIT"}]

\* CTRL/Y at the prompt is a key.
Answer ==
  /\ at = "answer"
  /\ \E word \in {"YES", "NO", "ALL", "QUIT"}, key \in BOOLEAN :
       /\ key => word = "NO"
       /\ CTRL_Y' = (CTRL_Y \/ key)
       /\ param' = Answered(Understood(word))
       /\ said' = Understood(word)
  /\ at' = IF param'.ok THEN "do" ELSE "next"
  /\ found' = IF param'.ok THEN found ELSE Nothing
  /\ pending' = pending \ {Path(found)}
  /\ UNCHANGED <<files, dirs, command, scans, SUBDIR, HARDERR, _SEVERITY, undefined, full, given, events>>

(***************************************************************************)
(* The commands proper.  Each may fail wherever the operating system may   *)
(* refuse, and leaves _SEVERITY as it is when it does not.                 *)
(***************************************************************************)
Doing(verb) ==
  /\ at = "do" /\ command.verb = verb
  /\ at' = "next" /\ found' = Nothing
  /\ pending' = pending \ {Path(found)}
  /\ UNCHANGED <<command, SUBDIR, CTRL_Y, HARDERR, full, given, events, said>>

Fail == _SEVERITY' = 2 /\ UNCHANGED undefined
Succeed == UNCHANGED <<_SEVERITY, undefined>>

\* /ERASE overwrites the file first, and may fail half way.
DeleteFile ==
  /\ Doing("DELETE") /\ Path(found) \notin dirs
  /\ \/ /\ Path(found) \in DOMAIN files
        /\ files' = Without(Path(found)) /\ Forget(Path(found))
        /\ Succeed
     \/ /\ \/ UNCHANGED files
           \/ /\ Has("ERASE") /\ Path(found) \in DOMAIN files
              /\ \E n \in 1 .. Len(Data(Path(found))) :
                   files' = Written(Path(found),
                                    [i \in DOMAIN Data(Path(found)) |->
                                       IF i <= n THEN Erased ELSE Data(Path(found))[i]])
        /\ UNCHANGED scans
        /\ Fail
  /\ UNCHANGED <<dirs, param>>

DeleteDir ==
  /\ Doing("DELETE") /\ Path(found) \in dirs
  /\ \/ /\ Entries(Path(found)) = {}
        /\ dirs' = dirs \ {Path(found)} /\ Forget(Path(found))
        /\ Succeed
     \/ UNCHANGED <<dirs, scans>> /\ Fail
  /\ UNCHANGED <<files, param>>

\* What the second parameter of COPY and RENAME stands for.
Into(s) == IF Append(s.dir, <<s.file, s.type>>) \in dirs
           THEN [s EXCEPT !.dir = Append(s.dir, <<s.file, s.type>>), !.file = "*", !.type = "*"] ELSE s
Filled(s, omitted, n) ==
  <<IF s.file \in omitted THEN n[1] ELSE s.file, IF s.type \in omitted THEN n[2] ELSE s.type>>
Target == LET s == Into(param.to)
          IN  [way |-> s.way, dir |-> s.dir, name |-> Filled(s, {"*", ""}, found.name)]

\* /SUBDIR appends the directory of the file without its first component.
Components == Ways[found.way] \o found.dir
\* Mutant: all files of a tree are copied to one directory.
CopyTargetFlat == Target
CopyTarget == IF SUBDIR THEN [Target EXCEPT !.dir = @ \o Tail(Components)] ELSE Target

MakeDir(dir) ==
  IF dir # << >> /\ Parent(dir) \in dirs /\ dir \notin DOMAIN files THEN dirs \cup {dir} ELSE dirs

TooOld == Has("NEW") /\ Date(Path(found)) <= Date(Path(Target))

CopyNothing ==
  /\ Doing("COPY") /\ TooOld
  /\ Succeed
  /\ UNCHANGED <<files, dirs, param, scans>>

\* dir1[1] is read though dir1 is empty.
CopyUndefined ==
  /\ Doing("COPY") /\ ~TooOld
  /\ SUBDIR /\ Components = << >>
  /\ undefined' = TRUE
  /\ UNCHANGED <<files, dirs, param, scans, _SEVERITY>>

\* Mutant: a file is copied to itself.
ConflictOfNames == Path(CopyTarget) \in DOMAIN files /\ Has("NOREPLACE")
\* The test for the same file compares what the two paths are written like.
Conflict == Path(CopyTarget) \in DOMAIN files /\ (Has("NOREPLACE") \/ CopyTarget = found)

\* What is left in a buffer is written by fclose, which is not tested.
filecopy ==
  LET dst == Path(CopyTarget)
      src == IF dst = Path(found) THEN << >> ELSE Data(Path(found))
  IN  /\ Path(found) \in DOMAIN files /\ Writable(dst, dirs') /\ ~Conflict
      /\ \E n \in 0 .. Len(src) :
           /\ n < Len(src) => full
           /\ files' = Written(dst, SubSeq(src, 1, n))
           /\ Succeed \/ (n < Len(src) /\ Fail)

vms_copy ==
  /\ Doing("COPY") /\ ~TooOld
  /\ ~(SUBDIR /\ Components = << >>)
  /\ \/ dirs' = MakeDir(CopyTarget.dir) /\ filecopy
     \/ dirs' \in {dirs, MakeDir(CopyTarget.dir)} /\ UNCHANGED files /\ Fail
  /\ UNCHANGED <<param, scans>>

\* Where there is a file already, Unix replaces it and Windows fails.
vms_rename ==
  /\ Doing("RENAME")
  /\ \/ /\ Path(found) \in DOMAIN files /\ Writable(Path(Target), dirs)
        /\ files' = [q \in (DOMAIN files \ {Path(found)}) \cup {Path(Target)} |->
                       IF q = Path(Target) THEN files[Path(found)] ELSE files[q]]
        /\ IF Path(Target) = Path(found) THEN UNCHANGED scans ELSE Forget(Path(found))
        /\ Succeed
     \/ UNCHANGED <<files, scans>> /\ Fail
  /\ UNCHANGED <<dirs, param>>

\* The wildcards of the second parameter are replaced for good by the first file.  CTRL/C
\* while the file is copied is one that has come before: any part may have been copied.
\* Whether fputc and fclose fail is not tested.  A path that ends in a slash is not opened.
UnfilledTarget == Into(param.to)    \* mutant: the wildcards stay
AppendTarget ==
  LET s == Into(param.to)
      n == Filled(s, {"*"}, found.name)
  IN  [s EXCEPT !.file = n[1], !.type = n[2]]

vms_append ==
  /\ Doing("APPEND")
  /\ param' = [param EXCEPT !.to = AppendTarget]
  /\ \/ LET dst == Append(AppendTarget.dir, <<AppendTarget.file, AppendTarget.type>>)
            src == Data(Path(found))
        IN  /\ Path(found) \in DOMAIN files /\ Writable(dst, dirs) /\ AppendTarget.file # ""
            /\ \E n \in 0 .. Len(src) :
                 /\ n < Len(src) => HARDERR \/ full
                 /\ files' = IF n = 0 /\ dst \in DOMAIN files THEN files
                             ELSE Written(dst, Data(dst) \o SubSeq(src, 1, n))
            /\ _SEVERITY' = IF HARDERR THEN 2 ELSE _SEVERITY
            /\ UNCHANGED undefined
     \/ UNCHANGED files /\ Fail
  /\ UNCHANGED <<dirs, scans>>

dcltype_do_it ==
  /\ Doing("TYPE")
  /\ (Succeed /\ (Path(found) \in DOMAIN files \/ HARDERR)) \/ Fail
  /\ UNCHANGED <<files, dirs, param, scans>>

\* All ways but the one of a /SETUP file that cannot be opened close the streams twice, or
\* one that was not opened.
vms_print ==
  /\ Doing("PRINT")
  /\ \/ undefined' = TRUE /\ UNCHANGED <<param, _SEVERITY>>
     \/ Has("SETUP") /\ param' = [param EXCEPT !.ok = FALSE, !.confirm = FALSE] /\ Fail
  /\ UNCHANGED <<files, dirs, scans>>

\* SET FILE/DATE with a date before the session.
dclsetf_do_it ==
  /\ Doing("SETFILE")
  /\ \/ Path(found) \in DOMAIN files /\ files' = [files EXCEPT ![Path(found)].date = 1] /\ Succeed
     \/ UNCHANGED files /\ Fail
  /\ UNCHANGED <<dirs, param, scans>>

(***************************************************************************)
(* A command from its line to its end.                                     *)
(***************************************************************************)
\* The list of patterns is one to DELETE, which finds nothing.
FirstParam(c) ==
  [confirm |-> "CONFIRM" \in c.quals, ok |-> TRUE, file_nb |-> FALSE, to |-> c.to,
   rest |-> IF c.verb = "DELETE" /\ Len(c.from) > 1 THEN << >> ELSE c.from]

Begin(c) ==
  /\ command = NoCommand /\ given < MaxCommands
  /\ command' = c /\ given' = given + 1
  /\ param' = FirstParam(c)
  /\ SUBDIR' = (SUBDIR /\ c.verb # "COPY")
  /\ CTRL_Y' = FALSE /\ HARDERR' = FALSE /\ _SEVERITY' = 0
  /\ said' = ""
  /\ UNCHANGED <<files, dirs, scans, found, at, undefined, full, events>>
  /\ pending' = {p \in DOMAIN files : Selected(p) /\ \E i \in DOMAIN param.rest : Reaches(param.rest[i], p)}'

SearchDone == Searching /\ scans = << >> /\ param.rest = << >>

Finish ==
  /\ SearchDone
  /\ command' = NoCommand /\ param' = Nothing
  /\ _SEVERITY' = IF param.file_nb THEN _SEVERITY ELSE 1
  /\ said' = "" /\ pending' = {}
  /\ UNCHANGED <<files, dirs, scans, found, at, SUBDIR, CTRL_Y, HARDERR, undefined, full, given, events>>

\* catch_int
CtrlC ==
  /\ Running /\ events < MaxEvents
  /\ CTRL_Y' = TRUE /\ HARDERR' = TRUE
  /\ events' = events + 1
  /\ UNCHANGED <<files, dirs, command, param, scans, found, at, SUBDIR, _SEVERITY, undefined, full, given, said, pending>>

\* Another program removes a file.
Removed ==
  /\ Running /\ events < MaxEvents
  /\ \E p \in DOMAIN files : files' = Without(p) /\ Forget(p) /\ pending' = pending \ {p}
  /\ events' = events + 1
  /\ UNCHANGED <<dirs, command, param, found, at, SUBDIR, CTRL_Y, HARDERR, _SEVERITY, undefined, full, given, said>>

DiskFills ==
  /\ Running /\ events < MaxEvents /\ ~full
  /\ full' = TRUE
  /\ events' = events + 1
  /\ UNCHANGED <<files, dirs, command, param, scans, found, at, SUBDIR, CTRL_Y, HARDERR, _SEVERITY, undefined,
                 given, said, pending>>

Init ==
  /\ \E d \in Disks : files = d.files /\ dirs = d.dirs
  /\ command = NoCommand /\ param = Nothing /\ scans = << >> /\ found = Nothing /\ at = "next"
  /\ SUBDIR = FALSE /\ CTRL_Y = FALSE /\ HARDERR = FALSE /\ _SEVERITY = 0 /\ undefined = FALSE /\ full = FALSE
  /\ given = 0 /\ events = 0 /\ said = "" /\ pending = {}

Treat ==
  \/ DeleteFile \/ DeleteDir
  \/ CopyNothing \/ CopyUndefined \/ vms_copy
  \/ vms_rename \/ vms_append \/ dcltype_do_it \/ vms_print \/ dclsetf_do_it

Search == NextPattern \/ NextFile \/ EndSearch \/ Finish
User == (\E c \in Commands : Begin(c)) \/ Answer
Next == Search \/ Ask \/ Treat \/ User \/ CtrlC \/ Removed \/ DiskFills

\* The program goes on by itself; the user need not answer.
Spec == Init /\ [][Next]_vars /\ WF_vars(Search \/ Ask \/ Treat)

(***************************************************************************)
(* Properties.                                                             *)
(***************************************************************************)

\* Every variable has its type, and files and directories are a tree.
FileTypeOK ==
  /\ dirs \subseteq Seq(Names) /\ DOMAIN files \subseteq Seq(Names)
  /\ files \in [DOMAIN files -> File]
  /\ dirs \cap DOMAIN files = {}
  /\ \A p \in (dirs \cup DOMAIN files) \ {<< >>} : Parent(p) \in dirs
  /\ \/ command = NoCommand /\ scans = << >> /\ at = "next"
     \/ /\ command \in Commands
        /\ param.to \in FileSpec /\ param.rest \in Seq(FileSpec)
        /\ {param.confirm, param.ok, param.file_nb} \subseteq BOOLEAN
  /\ \A i \in DOMAIN scans : scans[i].pass \in {"files", "dirs", "all"}
  /\ at \in {"next", "ask", "answer", "do"} /\ (at = "next" <=> found = Nothing)
  /\ {SUBDIR, CTRL_Y, HARDERR, undefined, full} \subseteq BOOLEAN /\ _SEVERITY \in 0 .. 2
  /\ said \in {"", "YES", "NO", "ALL", "QUIT"}

\* /CONFIRM as the help has it (copy.hlp): no file is treated before the user has agreed to
\* this file or to all, and after ALL or QUIT there is no prompt any more.  The answers are
\* kept in two flags of the command (dcl_confirm and its eight callers).
Confirmed ==
  command # NoCommand /\ Has("CONFIRM") =>
    /\ at = "do" => said \in {"YES", "ALL"}
    /\ at \in {"ask", "answer"} => said \notin {"ALL", "QUIT"}

\* When a command has searched all its patterns, it has come to each file that it selected
\* when it began and that is still there and selected: deleting, renaming and creating
\* files while the directory is listed makes it miss none.  QUIT and CTRL/C end it before.
NothingMissed ==
  SearchDone /\ (param.confirm \/ param.ok) /\ ~CTRL_Y /\ ~HARDERR =>
    \A p \in pending : ~Selected(p)

\* COPY/SUBDIR of a directory to another, not inside it, that ends without an error has made a
\* copy of each file at the same place below the target (vms_copy composes the path and makes
\* directories on the way), when nobody interferes and the disk is not full.
TreeCopied ==
  /\ SearchDone /\ command.verb = "COPY" /\ command.quals = {"SUBDIR"} /\ Len(command.from) = 1
  /\ _SEVERITY = 0 /\ events = 0
  => LET s == command.from[1]
         target == Into(command.to)
     IN  Len(Ways[s.way] \o s.dir) = 1 /\ target # command.to /\ ~Begins(s.dir, target.dir) =>
           \A p \in DOMAIN files : Reaches(s, p) /\ Selected(p) =>
             Data(target.dir \o Tail(p)) = Data(p)

\* What COPY and APPEND read is not lost: a file that is copied or appended, even to itself,
\* begins with what it was.  For COPY both paths must be written in the same way
\* (filecopy.c compares them as strings).
SourceKept ==
  [][\A p \in DOMAIN files :
       /\ at = "do" /\ p = Path(found) /\ events' = events
       /\ command.verb = "APPEND" \/ (command.verb = "COPY" /\ found.way = command.to.way)
       => Begins(files[p].data, Data(p)')]_vars

\* After CTRL/C no command comes to another file: at most it ends what it does with the one
\* in hand, though the keyboard routine clears CTRL_Y at the prompt and the search of
\* subdirectories goes on.  DELETE/SUBDIR still comes to the directories it is in.
BreakStops ==
  [][HARDERR /\ HARDERR' /\ at = "next" /\ at' # "next" =>
       command.verb = "DELETE" /\ Path(found)' \in dirs]_vars

\* Every command ends, but for the user who does not answer: what it creates or renames
\* does not keep its search busy.
CommandEnds == command # NoCommand ~> command = NoCommand \/ at = "answer" \/ undefined
=============================================================================
