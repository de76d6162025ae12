------------------------- MODULE FileCommandsProofs -------------------------
(***************************************************************************)
(* No file is treated without the user's agreement, the files and          *)
(* directories stay a tree, CTRL/C stops a command, what COPY and APPEND   *)
(* read is kept, and a search misses no file, for any commands, disks and  *)
(* bounds.                                                                 *)
(***************************************************************************)
EXTENDS FileCommands, TLAPS, SequenceTheorems, WellFoundedInduction

(***************************************************************************)
(* The prompts of /CONFIRM.                                                *)
(***************************************************************************)

\* The two flags of the command and what the user has said last.
FlagsKnown ==
  /\ {"confirm", "ok"} \subseteq DOMAIN param
  /\ param.confirm \in BOOLEAN /\ param.ok \in BOOLEAN

FlagsAgree ==
  /\ ~param.confirm /\ param.ok => said = "ALL"
  /\ said \in {"ALL", "QUIT"} => ~param.confirm
  /\ said = "QUIT" => ~param.ok

\* Confirmed is not inductive: whether Offer asks depends on the flags, not on what was said.
ConfirmedInv ==
  /\ command = NoCommand => at = "next"
  /\ command # NoCommand => FlagsKnown
  /\ command # NoCommand /\ Has("CONFIRM") => FlagsAgree
  /\ Confirmed

\* The flags change together with what was said, or not at all.
Same == UNCHANGED <<command, param, at, said>>

LEMMA SameKeeps == ASSUME ConfirmedInv, Same PROVE ConfirmedInv'
  BY DEF ConfirmedInv, Confirmed, FlagsKnown, FlagsAgree, Has, Same

\* What the search does to a command, whatever it finds.
LEMMA OfferKeeps ==
  ASSUME ConfirmedInv, command # NoCommand, at = "next", UNCHANGED command,
         NEW dir, NEW n, NEW isdir, Offer(dir, n, isdir) \/ NoOffer
  PROVE  ConfirmedInv'
<1>1. CASE NoOffer
  BY <1>1, SameKeeps DEF NoOffer, Same
<1>2. CASE /\ param' = [param EXCEPT !.file_nb = TRUE]
           /\ at' = IF param.confirm THEN "ask" ELSE IF param.ok THEN "do" ELSE "next"
           /\ said' = IF said \in {"ALL", "QUIT"} THEN said ELSE ""
  <2>1. FlagsKnown' /\ param'.confirm = param.confirm /\ param'.ok = param.ok
    BY <1>2 DEF ConfirmedInv, FlagsKnown
  <2>2. QED
    BY <1>2, <2>1 DEF ConfirmedInv, Confirmed, FlagsKnown, FlagsAgree, Has
<1>3. QED
  BY <1>1, <1>2 DEF Offer

LEMMA SearchKeeps == ASSUME ConfirmedInv, NextFile \/ EndSearch PROVE ConfirmedInv'
<1>1. CASE NextFile
  <2>1. command # NoCommand /\ at = "next" /\ UNCHANGED command
    BY <1>1 DEF NextFile, Searching, Running
  <2>2. \E dir, n, isdir : Offer(dir, n, isdir) \/ NoOffer
    BY <1>1 DEF NextFile, dcl_searchdir, dcl_del_searchdir, Enter
  <2>3. QED
    BY <2>1, <2>2, OfferKeeps
<1>2. CASE EndSearch
  <2>1. command # NoCommand /\ at = "next" /\ UNCHANGED command
    BY <1>2 DEF EndSearch, Searching, Running
  <2>2. \E dir, n, isdir : Offer(dir, n, isdir) \/ NoOffer
    BY <1>2 DEF EndSearch
  <2>3. QED
    BY <2>1, <2>2, OfferKeeps
<1>3. QED
  BY <1>1, <1>2

LEMMA AnswerKeeps == ASSUME ConfirmedInv, Answer PROVE ConfirmedInv'
<1>1. at = "answer" /\ command # NoCommand /\ UNCHANGED command
  BY DEF Answer, ConfirmedInv
<1>2. PICK word \in {"YES", "NO", "ALL", "QUIT"} :
        param' = Answered(Understood(word)) /\ said' = Understood(word)
  BY DEF Answer
<1>3. Understood(word) \in {"YES", "NO", "ALL", "QUIT"}
  BY <1>2 DEF Understood
<1>4. /\ FlagsKnown'
      /\ param'.ok = (said' \in {"YES", "ALL"})
      /\ param'.confirm = (said' \notin {"ALL", "QUIT"})
  BY <1>1, <1>2, <1>3 DEF Answered, ConfirmedInv, FlagsKnown
<1>5. at' = IF param'.ok THEN "do" ELSE "next"
  BY DEF Answer
<1>6. QED
  BY <1>1, <1>2, <1>3, <1>4, <1>5 DEF ConfirmedInv, Confirmed, FlagsKnown, FlagsAgree, Has

\* Of the commands proper only PRINT touches the flags: it clears both.
LEMMA TreatKeeps == ASSUME ConfirmedInv, Treat PROVE ConfirmedInv'
<1>1. at = "do" /\ at' = "next" /\ command # NoCommand /\ UNCHANGED <<command, said>>
  BY DEF Treat, DeleteFile, DeleteDir, CopyNothing, CopyUndefined, vms_copy, vms_rename, vms_append,
         dcltype_do_it, vms_print, dclsetf_do_it, Doing, ConfirmedInv
<1>2. \/ UNCHANGED param
      \/ param' = [param EXCEPT !.to = AppendTarget]
      \/ param' = [param EXCEPT !.ok = FALSE, !.confirm = FALSE]
  BY DEF Treat, DeleteFile, DeleteDir, CopyNothing, CopyUndefined, vms_copy, vms_rename, vms_append,
         dcltype_do_it, vms_print, dclsetf_do_it
<1>3. /\ FlagsKnown'
      /\ \/ param'.ok = param.ok /\ param'.confirm = param.confirm
         \/ param'.ok = FALSE /\ param'.confirm = FALSE
  BY <1>1, <1>2 DEF ConfirmedInv, FlagsKnown
<1>4. QED
  BY <1>1, <1>3 DEF ConfirmedInv, Confirmed, FlagsKnown, FlagsAgree, Has

LEMMA BeginKeeps == ASSUME ConfirmedInv, NEW c, Begin(c) PROVE ConfirmedInv'
<1>1. at' = "next" /\ command' = c /\ said' = ""
  BY DEF Begin, ConfirmedInv
<1>2. PICK rest : param' = [confirm |-> "CONFIRM" \in c.quals, ok |-> TRUE, file_nb |-> FALSE,
                            to |-> c.to, rest |-> rest]
  BY Zenon DEF Begin, FirstParam
<1>3. FlagsKnown' /\ param'.confirm = ("CONFIRM" \in c.quals) /\ param'.ok = TRUE
  BY <1>2 DEF FlagsKnown
<1>4. QED
  BY <1>1, <1>3 DEF ConfirmedInv, Confirmed, FlagsAgree, Has

LEMMA StepKeeps == ASSUME ConfirmedInv, [Next]_vars PROVE ConfirmedInv'
<1>1. CASE NextFile \/ EndSearch
  BY <1>1, SearchKeeps
<1>2. CASE NextPattern
  <2>1. /\ command # NoCommand /\ at = "next" /\ UNCHANGED <<command, at, said>>
        /\ param' = [param EXCEPT !.rest = Tail(@)]
    BY <1>2 DEF NextPattern, NextParam, Searching, Running
  <2>2. FlagsKnown' /\ param'.confirm = param.confirm /\ param'.ok = param.ok
    BY <2>1 DEF ConfirmedInv, FlagsKnown
  <2>3. QED
    BY <2>1, <2>2 DEF ConfirmedInv, Confirmed, FlagsAgree, Has
<1>3. CASE Finish
  <2>1. command' = NoCommand /\ at' = "next"
    BY <1>3 DEF Finish, SearchDone, Searching
  <2>2. QED
    BY <2>1 DEF ConfirmedInv, Confirmed
<1>4. CASE Ask
  <2>1. at = "ask" /\ at' = "answer" /\ UNCHANGED <<command, param, said>>
    BY <1>4 DEF Ask
  <2>2. QED
    BY <2>1 DEF ConfirmedInv, Confirmed, FlagsKnown, FlagsAgree, Has
<1>5. CASE Treat
  BY <1>5, TreatKeeps
<1>6. CASE \E c \in Commands : Begin(c)
  BY <1>6, BeginKeeps
<1>7. CASE Answer
  BY <1>7, AnswerKeeps
<1>8. CASE CtrlC \/ Removed \/ DiskFills
  BY <1>8, SameKeeps DEF CtrlC, Removed, DiskFills, Same
<1>9. CASE UNCHANGED vars
  BY <1>9, SameKeeps DEF vars, Same
<1>10. QED
  BY <1>1, <1>2, <1>3, <1>4, <1>5, <1>6, <1>7, <1>8, <1>9 DEF Next, Search, User

\* /CONFIRM does what copy.hlp says of YES, NO, ALL and QUIT, whatever the files, the patterns,
\* the order in which the directory is listed, and the user, other programs and CTRL/C do
\* meanwhile.
THEOREM AlwaysConfirmed == Spec => []Confirmed
<1>1. Init => ConfirmedInv
  BY DEF Init, ConfirmedInv, Confirmed
<1>2. ConfirmedInv /\ [Next]_vars => ConfirmedInv'
  BY StepKeeps
<1>3. ConfirmedInv => Confirmed
  BY DEF ConfirmedInv
<1>4. QED
  BY <1>1, <1>2, <1>3, PTL DEF Spec

(***************************************************************************)
(* Paths.                                                                  *)
(***************************************************************************)
LEMMA ParentAndLast ==
  ASSUME NEW S, NEW p \in Seq(S), p # << >>
  PROVE  /\ Len(p) \in Nat \ {0}
         /\ Parent(p) \in Seq(S) /\ Len(Parent(p)) = Len(p) - 1
         /\ \A i \in 1 .. Len(p) - 1 : Parent(p)[i] = p[i]
         /\ Last(p) \in S
<1>1. Len(p) \in Nat \ {0}
  BY EmptySeq
<1>2. \A i \in 1 .. Len(p) - 1 : p[i] \in S
  BY <1>1, ElementOfSeq
<1>3. Last(p) \in S
  BY <1>1, ElementOfSeq DEF Last
<1> DEFINE m == Len(p) - 1
<1>4. m \in Nat
  BY <1>1
<1>5. 1 \in Int /\ m \in Int /\ \A i \in 1 .. m : p[i] \in S
  BY <1>2, <1>4
<1> HIDE DEF m
<1>6. /\ SubSeq(p, 1, m) \in Seq(S)
      /\ Len(SubSeq(p, 1, m)) = IF 1 <= m THEN m - 1 + 1 ELSE 0
      /\ \A i \in 1 .. m - 1 + 1 : SubSeq(p, 1, m)[i] = p[1 + i - 1]
  BY <1>5, SubSeqProperties
<1>7. Len(SubSeq(p, 1, m)) = m
  BY <1>4, <1>6
<1>8. \A i \in 1 .. m : SubSeq(p, 1, m)[i] = p[i]
  <2> SUFFICES ASSUME NEW i \in 1 .. m PROVE SubSeq(p, 1, m)[i] = p[i]
    OBVIOUS
  <2>1. m - 1 + 1 = m /\ 1 + i - 1 = i
    BY <1>4
  <2> QED BY <1>6, <2>1
<1> QED BY <1>1, <1>3, <1>6, <1>7, <1>8 DEF Parent, m

LEMMA AppendedPath ==
  ASSUME NEW S, NEW dir \in Seq(S), NEW n \in S
  PROVE  LET p == Append(dir, n)
         IN  /\ p \in Seq(S) /\ p # << >> /\ Len(p) = Len(dir) + 1
             /\ Parent(p) = dir /\ Last(p) = n
<1> DEFINE p == Append(dir, n)
<1>1. /\ p \in Seq(S) /\ p # << >> /\ Len(p) = Len(dir) + 1 /\ Len(dir) \in Nat
      /\ \A i \in 1 .. Len(dir) : p[i] = dir[i]
      /\ p[Len(dir) + 1] = n
  BY AppendProperties, LenProperties
<1> HIDE DEF p
<1>2. Last(p) = n
  BY <1>1 DEF Last
<1>3. Parent(p) = dir
  <2>1. Parent(p) \in Seq(S) /\ Len(Parent(p)) = Len(dir) /\ \A i \in 1 .. Len(dir) : Parent(p)[i] = dir[i]
    BY <1>1, ParentAndLast
  <2> QED BY <2>1, SeqEqual
<1> QED BY <1>1, <1>2, <1>3 DEF p

LEMMA PathIsParentAndLast ==
  ASSUME NEW S, NEW p \in Seq(S), p # << >>
  PROVE  Append(Parent(p), Last(p)) = p
<1>1. /\ Len(p) \in Nat \ {0} /\ Parent(p) \in Seq(S) /\ Len(Parent(p)) = Len(p) - 1
      /\ \A i \in 1 .. Len(p) - 1 : Parent(p)[i] = p[i]
      /\ Last(p) \in S /\ Last(p) = p[Len(p)]
  BY ParentAndLast DEF Last
<1> DEFINE q == Append(Parent(p), Last(p))
<1>2. /\ q \in Seq(S) /\ Len(q) = Len(p) - 1 + 1
      /\ \A i \in 1 .. Len(p) - 1 : q[i] = Parent(p)[i]
      /\ q[Len(p) - 1 + 1] = Last(p)
  BY <1>1, AppendProperties
<1> HIDE DEF q
<1>3. Len(q) = Len(p) /\ \A i \in 1 .. Len(p) : q[i] = p[i]
  BY <1>1, <1>2
<1>4. q = p
  BY <1>2, <1>3, SeqEqual
<1> QED BY <1>4 DEF q

(***************************************************************************)
(* Types.  FileTypeOK says nothing of the file in hand and of what the     *)
(* open searches hold.                                                     *)
(***************************************************************************)
FoundFile == [way: DOMAIN Ways, dir: Seq(Names), name: Names]
OpenScan == [spec: FileSpec, pass: {"files", "dirs", "all"}, shown: SUBSET Names, due: SUBSET Names]
Params == [confirm: BOOLEAN, ok: BOOLEAN, file_nb: BOOLEAN, to: FileSpec, rest: Seq(FileSpec)]

TreeOK(fs, ds) ==
  /\ ds \subseteq Seq(Names) /\ << >> \in ds
  /\ DOMAIN fs \subseteq Seq(Names) /\ ds \cap DOMAIN fs = {}
  /\ fs \in [DOMAIN fs -> File]
  /\ \A p \in (ds \cup DOMAIN fs) \ {<< >>} : Parent(p) \in ds
ScansOK == scans \in Seq(OpenScan)
CommandOK ==
  \/ command = NoCommand /\ scans = << >> /\ at = "next"
  \/ command \in Commands /\ param \in Params
\* The directories of the open searches lie in each other, the innermost first.
NestOK ==
  /\ \A i \in 1 .. Len(scans) - 1 :
       scans[i].spec.dir # << >> /\ Parent(scans[i].spec.dir) = scans[i + 1].spec.dir
  /\ \A i, j \in 1 .. Len(scans) : i < j => Len(scans[j].spec.dir) < Len(scans[i].spec.dir)
HandOK ==
  /\ at \in {"next", "ask", "answer", "do"}
  /\ at = "next" => found = Nothing
  /\ at # "next" => found \in FoundFile /\ command # NoCommand
FlagsOK ==
  /\ SUBDIR \in BOOLEAN /\ CTRL_Y \in BOOLEAN /\ HARDERR \in BOOLEAN /\ undefined \in BOOLEAN /\ full \in BOOLEAN
  /\ _SEVERITY \in 0 .. 2
  /\ said \in {"", "YES", "NO", "ALL", "QUIT"}

FileInv == TreeOK(files, dirs) /\ ScansOK /\ NestOK /\ CommandOK /\ HandOK /\ FlagsOK

LEMMA RecordsAreSomething ==
  /\ \A c \in Command : c # NoCommand
  /\ \A f \in FoundFile : f # Nothing
<1>1. DOMAIN << >> = {}
  <2>1. << >> \in Seq({}) /\ Len(<< >>) = 0
    BY EmptySeq
  <2> QED BY <2>1, LenProperties
<1>2. \A c \in Command : "verb" \in DOMAIN c
  BY DEF Command
<1>3. \A f \in FoundFile : "name" \in DOMAIN f
  BY DEF FoundFile
<1> QED BY <1>1, <1>2, <1>3, Zenon DEF NoCommand, Nothing

LEMMA TypesFollow == FileInv => FileTypeOK
<1> SUFFICES ASSUME FileInv PROVE FileTypeOK
  OBVIOUS
<1>1. TreeOK(files, dirs)
  BY DEF FileInv
<1>2. at = "next" <=> found = Nothing
  BY RecordsAreSomething DEF FileInv, HandOK
<1>3. \/ command = NoCommand /\ scans = << >> /\ at = "next"
      \/ /\ command \in Commands
         /\ param.to \in FileSpec /\ param.rest \in Seq(FileSpec)
         /\ {param.confirm, param.ok, param.file_nb} \subseteq BOOLEAN
  BY DEF FileInv, CommandOK, Params
<1>4. \A i \in DOMAIN scans : scans[i].pass \in {"files", "dirs", "all"}
  <2>1. \A i \in DOMAIN scans : scans[i] \in OpenScan
    BY LenProperties, ElementOfSeq DEF FileInv, ScansOK
  <2> QED BY <2>1 DEF OpenScan
<1> QED BY <1>1, <1>2, <1>3, <1>4 DEF FileInv, FileTypeOK, TreeOK, HandOK, FlagsOK

(***************************************************************************)
(* What the commands do to the tree.                                       *)
(***************************************************************************)
LEMMA WithKeepsTree ==
  ASSUME NEW ds, TreeOK(files, ds), NEW p \in Seq(Names), p \notin ds, Parent(p) \in ds, NEW f \in File
  PROVE  TreeOK(With(p, f), ds)
BY DEF TreeOK, With

LEMMA WithoutKeepsTree ==
  ASSUME NEW ds, TreeOK(files, ds), NEW p
  PROVE  TreeOK(Without(p), ds)
BY DEF TreeOK, Without

LEMMA RenamedKeepsTree ==
  ASSUME NEW ds, TreeOK(files, ds), NEW p \in DOMAIN files, NEW q \in Seq(Names), q \notin ds, Parent(q) \in ds
  PROVE  TreeOK([r \in (DOMAIN files \ {p}) \cup {q} |-> IF r = q THEN files[p] ELSE files[r]], ds)
BY DEF TreeOK

LEMMA MakeDirKeepsTree ==
  ASSUME TreeOK(files, dirs), NEW dir \in Seq(Names)
  PROVE  TreeOK(files, MakeDir(dir))
BY DEF TreeOK, MakeDir

LEMMA RemovedDirKeepsTree ==
  ASSUME TreeOK(files, dirs), NEW p \in dirs \ {<< >>}, Entries(p) = {}
  PROVE  TreeOK(files, dirs \ {p})
<1>1. \A q \in (dirs \cup DOMAIN files) \ {<< >>} : Parent(q) # p
  BY DEF Entries
<1> QED BY <1>1 DEF TreeOK

LEMMA EntriesAreNames ==
  ASSUME TreeOK(files, dirs), NEW dir
  PROVE  Entries(dir) \subseteq Names
<1> SUFFICES ASSUME NEW p \in DOMAIN files \cup dirs, p # << >> PROVE Last(p) \in Names
  BY DEF Entries
<1>1. p \in Seq(Names)
  BY DEF TreeOK
<1> QED BY <1>1, ParentAndLast

\* Where the file in hand is, and where those are that COPY, RENAME and APPEND make.
LEMMA FoundPath ==
  ASSUME FileInv, at # "next"
  PROVE  /\ found \in FoundFile /\ found.dir \in Seq(Names) /\ found.name \in Names
         /\ Path(found) \in Seq(Names) /\ Path(found) # << >>
         /\ Parent(Path(found)) = found.dir /\ Last(Path(found)) = found.name
<1>1. found \in FoundFile
  BY DEF FileInv, HandOK
<1>2. found.dir \in Seq(Names) /\ found.name \in Names
  BY <1>1 DEF FoundFile
<1> QED BY <1>1, <1>2, AppendedPath DEF Path

LEMMA IntoIsSpec ==
  ASSUME NEW s \in FileSpec, TreeOK(files, dirs)
  PROVE  Into(s) \in FileSpec
<1> DEFINE d == Append(s.dir, <<s.file, s.type>>)
<1>1. d \in dirs => d \in Seq(Names)
  BY DEF TreeOK
<1>2. CASE d \in dirs
  <2>1. Into(s) = [s EXCEPT !.dir = d, !.file = "*", !.type = "*"]
    BY <1>2 DEF Into
  <2> HIDE DEF d
  <2> QED BY <1>1, <1>2, <2>1 DEF FileSpec
<1>3. CASE d \notin dirs
  BY <1>3 DEF Into
<1> QED BY <1>2, <1>3

LEMMA TargetIsFile ==
  ASSUME FileInv, at # "next"
  PROVE  Target \in FoundFile
<1>1. found.name \in Files \X Types
  BY FoundPath DEF Names
<1>2. param.to \in FileSpec /\ TreeOK(files, dirs)
  BY DEF FileInv, CommandOK, HandOK, Params
<1> DEFINE s == Into(param.to)
<1>3. s \in FileSpec
  BY <1>2, IntoIsSpec
<1> HIDE DEF s
<1>4. s.way \in DOMAIN Ways /\ s.dir \in Seq(Names) /\ s.file \in Files \cup {"*", ""} /\ s.type \in Types \cup {"*", ""}
  BY <1>3 DEF FileSpec
<1>5. Filled(s, {"*", ""}, found.name) \in Names
  BY <1>1, <1>4 DEF Filled, Names
<1> QED BY <1>4, <1>5 DEF Target, FoundFile, s

LEMMA CopyTargetIsFile ==
  ASSUME FileInv, at # "next", ~(SUBDIR /\ Components = << >>)
  PROVE  CopyTarget \in FoundFile /\ CopyTarget.way = Target.way
<1>1. Target \in FoundFile
  BY TargetIsFile
<1>2. CASE ~SUBDIR
  BY <1>1, <1>2 DEF CopyTarget
<1>3. CASE SUBDIR
  <2>1. found.way \in DOMAIN Ways /\ found.dir \in Seq(Names)
    BY FoundPath DEF FoundFile
  <2>2. Ways[found.way] \in Seq(Names)
    BY <2>1, NamesAssumption
  <2>3. Components \in Seq(Names) /\ Components # << >>
    BY <1>3, <2>1, <2>2, ConcatProperties DEF Components
  <2>4. Tail(Components) \in Seq(Names)
    BY <2>3, HeadTailProperties
  <2>5. Target.dir \in Seq(Names)
    BY <1>1 DEF FoundFile
  <2> DEFINE d == Target.dir \o Tail(Components)
  <2>6. d \in Seq(Names)
    BY <2>4, <2>5, ConcatProperties
  <2>7. CopyTarget = [Target EXCEPT !.dir = d]
    BY <1>3 DEF CopyTarget
  <2> HIDE DEF d
  <2> QED BY <1>1, <2>6, <2>7 DEF FoundFile
<1> QED BY <1>2, <1>3

LEMMA FilePath ==
  ASSUME NEW f \in FoundFile
  PROVE  Path(f) \in Seq(Names) /\ Path(f) # << >> /\ Parent(Path(f)) = f.dir /\ Last(Path(f)) = f.name
<1>1. f.dir \in Seq(Names) /\ f.name \in Names
  BY DEF FoundFile
<1> QED BY <1>1, AppendedPath DEF Path

LEMMA DataIsPieces ==
  ASSUME TreeOK(files, dirs), NEW p
  PROVE  Data(p) \in Seq(Pieces \cup {Erased})
<1>1. p \in DOMAIN files => files[p] \in File
  BY DEF TreeOK
<1>2. << >> \in Seq(Pieces \cup {Erased})
  BY EmptySeq
<1> QED BY <1>1, <1>2 DEF Data, File

(***************************************************************************)
(* What a step does to the open searches.                                  *)
(***************************************************************************)
LEMMA TopReplaced ==
  ASSUME NEW S, NEW s \in Seq(S), s # << >>, NEW x \in S
  PROVE  LET t == <<x>> \o Tail(s)
         IN  /\ t \in Seq(S) /\ Len(t) = Len(s) /\ t[1] = x
             /\ \A i \in 2 .. Len(s) : t[i] = s[i]
<1>1. Tail(s) \in Seq(S) /\ Len(Tail(s)) = Len(s) - 1 /\ \A i \in 1 .. Len(Tail(s)) : Tail(s)[i] = s[i + 1]
  BY HeadTailProperties
<1>2. Len(s) \in Nat \ {0}
  BY EmptySeq
<1>3. <<x>> \in Seq(S) /\ Len(<<x>>) = 1 /\ <<x>>[1] = x
  OBVIOUS
<1> DEFINE one == <<x>>
           rest == Tail(s)
           t == one \o rest
<1> HIDE DEF one, rest
<1>4. /\ t \in Seq(S) /\ Len(t) = Len(one) + Len(rest)
      /\ \A i \in 1 .. Len(one) + Len(rest) : t[i] = IF i <= Len(one) THEN one[i] ELSE rest[i - Len(one)]
  BY <1>1, <1>3, ConcatProperties DEF one, rest
<1> HIDE DEF t
<1>5. Len(one) = 1 /\ one[1] = x /\ Len(rest) = Len(s) - 1 /\ \A i \in 1 .. Len(s) - 1 : rest[i] = s[i + 1]
  BY <1>1, <1>3 DEF one, rest
<1>6. Len(t) = Len(s) /\ t[1] = x
  BY <1>2, <1>4, <1>5
<1>7. \A i \in 2 .. Len(s) : t[i] = s[i]
  <2> SUFFICES ASSUME NEW i \in 2 .. Len(s) PROVE t[i] = s[i]
    OBVIOUS
  <2>1. t[i] = rest[i - 1]
    BY <1>2, <1>4, <1>5
  <2>2. i - 1 \in 1 .. Len(s) - 1 /\ i - 1 + 1 = i
    BY <1>2
  <2> QED BY <1>5, <2>1, <2>2
<1> QED BY <1>4, <1>6, <1>7 DEF t, one, rest

LEMMA TopPushed ==
  ASSUME NEW S, NEW s \in Seq(S), s # << >>, NEW x \in S, NEW y \in S
  PROVE  LET t == <<x, y>> \o Tail(s)
         IN  /\ t \in Seq(S) /\ Len(t) = Len(s) + 1 /\ t[1] = x /\ t[2] = y
             /\ \A i \in 2 .. Len(s) : t[i + 1] = s[i]
<1>1. Tail(s) \in Seq(S) /\ Len(Tail(s)) = Len(s) - 1 /\ \A i \in 1 .. Len(Tail(s)) : Tail(s)[i] = s[i + 1]
  BY HeadTailProperties
<1>2. Len(s) \in Nat \ {0}
  BY EmptySeq
<1>3. <<x, y>> \in Seq(S) /\ Len(<<x, y>>) = 2 /\ <<x, y>>[1] = x /\ <<x, y>>[2] = y
  OBVIOUS
<1> DEFINE two == <<x, y>>
           rest == Tail(s)
           t == two \o rest
<1> HIDE DEF two, rest
<1>4. /\ t \in Seq(S) /\ Len(t) = Len(two) + Len(rest)
      /\ \A i \in 1 .. Len(two) + Len(rest) : t[i] = IF i <= Len(two) THEN two[i] ELSE rest[i - Len(two)]
  BY <1>1, <1>3, ConcatProperties DEF two, rest
<1> HIDE DEF t
<1>5. /\ Len(two) = 2 /\ two[1] = x /\ two[2] = y
      /\ Len(rest) = Len(s) - 1 /\ \A i \in 1 .. Len(s) - 1 : rest[i] = s[i + 1]
  BY <1>1, <1>3 DEF two, rest
<1>6. Len(t) = Len(s) + 1 /\ t[1] = x /\ t[2] = y
  BY <1>2, <1>4, <1>5
<1>7. \A i \in 2 .. Len(s) : t[i + 1] = s[i]
  <2> SUFFICES ASSUME NEW i \in 2 .. Len(s) PROVE t[i + 1] = s[i]
    OBVIOUS
  <2>1. t[i + 1] = rest[i + 1 - 2]
    BY <1>2, <1>4, <1>5
  <2>2. i + 1 - 2 \in 1 .. Len(s) - 1 /\ i + 1 - 2 + 1 = i
    BY <1>2
  <2> QED BY <1>5, <2>1, <2>2
<1> QED BY <1>4, <1>6, <1>7 DEF t, two, rest

\* Forget takes a name off the searches of its directory and changes nothing else of them.
LEMMA ForgetChanges ==
  ASSUME ScansOK, NEW p, Forget(p)
  PROVE  /\ ScansOK' /\ Len(scans') = Len(scans)
         /\ \A i \in 1 .. Len(scans) :
              /\ scans'[i].spec = scans[i].spec /\ scans'[i].pass = scans[i].pass
              /\ scans[i].spec.dir # Parent(p) => scans'[i] = scans[i]
              /\ scans'[i].shown \subseteq scans[i].shown
              /\ scans[i].due \ {Last(p)} \subseteq scans'[i].due
<1>1. Len(scans) \in Nat /\ DOMAIN scans = 1 .. Len(scans) /\ \A i \in 1 .. Len(scans) : scans[i] \in OpenScan
  BY LenProperties, ElementOfSeq DEF ScansOK
<1> DEFINE new(i) == IF scans[i].spec.dir = Parent(p)
                     THEN [scans[i] EXCEPT !.shown = @ \ {Last(p)}, !.due = @ \ {Last(p)}]
                     ELSE scans[i]
<1>2. scans' = [i \in 1 .. Len(scans) |-> new(i)]
  BY <1>1 DEF Forget
<1>3. ASSUME NEW i \in 1 .. Len(scans)
      PROVE  /\ new(i) \in OpenScan /\ new(i).spec = scans[i].spec /\ new(i).pass = scans[i].pass
             /\ scans[i].spec.dir # Parent(p) => new(i) = scans[i]
             /\ new(i).shown \subseteq scans[i].shown
             /\ scans[i].due \ {Last(p)} \subseteq new(i).due
  BY <1>1 DEF OpenScan
<1> HIDE DEF new
<1>4. scans' \in Seq(OpenScan) /\ Len(scans') = Len(scans)
  BY <1>1, <1>2, <1>3
<1>5. \A i \in 1 .. Len(scans) : scans'[i] = new(i)
  BY <1>2
<1> QED BY <1>3, <1>4, <1>5 DEF ScansOK

LEMMA TopIsScan ==
  ASSUME ScansOK, scans # << >>
  PROVE  /\ Top \in OpenScan /\ Top.spec \in FileSpec /\ Top.spec.dir \in Seq(Names)
         /\ Len(scans) \in Nat \ {0} /\ Tail(scans) \in Seq(OpenScan)
         /\ Len(Tail(scans)) = Len(scans) - 1
         /\ \A i \in 1 .. Len(scans) - 1 : Tail(scans)[i] = scans[i + 1]
<1>1. Len(scans) \in Nat \ {0}
  BY EmptySeq DEF ScansOK
<1>2. Top \in OpenScan
  BY <1>1, ElementOfSeq DEF ScansOK, Top
<1>3. /\ Tail(scans) \in Seq(OpenScan) /\ Len(Tail(scans)) = Len(scans) - 1
      /\ \A i \in 1 .. Len(Tail(scans)) : Tail(scans)[i] = scans[i + 1]
  BY HeadTailProperties DEF ScansOK
<1> QED BY <1>1, <1>2, <1>3 DEF OpenScan, FileSpec

\* How the searches lie in each other when one is replaced, entered and left.
LEMMA NestSame ==
  ASSUME NestOK, ScansOK, Len(scans') = Len(scans), \A i \in 1 .. Len(scans) : scans'[i].spec.dir = scans[i].spec.dir
  PROVE  NestOK'
<1> DEFINE k == Len(scans)
           dir(i) == scans[i].spec.dir
           dirp(i) == scans'[i].spec.dir
<1>1. k \in Nat /\ Len(scans') = k /\ \A i \in 1 .. k : dirp(i) = dir(i)
  BY LenProperties DEF ScansOK
<1>2. /\ \A i \in 1 .. k - 1 : dir(i) # << >> /\ Parent(dir(i)) = dir(i + 1)
      /\ \A i, j \in 1 .. k : i < j => Len(dir(j)) < Len(dir(i))
  BY DEF NestOK
<1>3. NestOK' <=> /\ \A i \in 1 .. Len(scans') - 1 : dirp(i) # << >> /\ Parent(dirp(i)) = dirp(i + 1)
                  /\ \A i, j \in 1 .. Len(scans') : i < j => Len(dirp(j)) < Len(dirp(i))
  BY DEF NestOK
<1> HIDE DEF k, dir, dirp
<1>4. \A i \in 1 .. k - 1 : i \in 1 .. k /\ i + 1 \in 1 .. k
  BY <1>1
<1> QED BY <1>1, <1>2, <1>3, <1>4

LEMMA NestEntered ==
  ASSUME NestOK, ScansOK, scans # << >>, NEW n \in Names,
         Len(scans') = Len(scans) + 1,
         scans'[1].spec.dir = Append(scans[1].spec.dir, n),
         \A i \in 1 .. Len(scans) : scans'[i + 1].spec.dir = scans[i].spec.dir
  PROVE  NestOK'
<1> DEFINE k == Len(scans)
           new == Append(scans[1].spec.dir, n)
           dir(i) == scans[i].spec.dir
           dirp(i) == scans'[i].spec.dir
<1>1. k \in Nat \ {0} /\ \A i \in 1 .. k : dir(i) \in Seq(Names)
  <2>1. k \in Nat \ {0} /\ \A i \in 1 .. k : scans[i] \in OpenScan
    BY EmptySeq, ElementOfSeq DEF ScansOK
  <2> QED BY <2>1 DEF OpenScan, FileSpec
<1>2. new \in Seq(Names) /\ new # << >> /\ Parent(new) = dir(1) /\ Len(new) = Len(dir(1)) + 1
  BY <1>1, AppendedPath
<1>3. /\ \A i \in 1 .. k - 1 : dir(i) # << >> /\ Parent(dir(i)) = dir(i + 1)
      /\ \A i, j \in 1 .. k : i < j => Len(dir(j)) < Len(dir(i))
      /\ \A i \in 1 .. k : Len(dir(i)) \in Nat
  BY <1>1, LenProperties DEF NestOK
<1>4. Len(scans') = k + 1 /\ dirp(1) = new /\ \A i \in 1 .. k : dirp(i + 1) = dir(i)
  OBVIOUS
<1>5. NestOK' <=> /\ \A i \in 1 .. Len(scans') - 1 : dirp(i) # << >> /\ Parent(dirp(i)) = dirp(i + 1)
                  /\ \A i, j \in 1 .. Len(scans') : i < j => Len(dirp(j)) < Len(dirp(i))
  BY DEF NestOK
<1> HIDE DEF k, new, dir, dirp
<1>6. \A i \in 2 .. k + 1 : dirp(i) = dir(i - 1)
  BY <1>1, <1>4
<1>7. ASSUME NEW i \in 1 .. k PROVE dirp(i) # << >> /\ Parent(dirp(i)) = dirp(i + 1)
  <2>1. CASE i = 1
    BY <1>1, <1>2, <1>4, <2>1
  <2>2. CASE i # 1
    <3>1. i - 1 \in 1 .. k - 1 /\ i - 1 + 1 = i /\ i \in 2 .. k + 1
      BY <1>1, <2>2
    <3> QED BY <1>3, <1>4, <1>6, <3>1
  <2> QED BY <2>1, <2>2
<1>8. ASSUME NEW i \in 1 .. k + 1, NEW j \in 1 .. k + 1, i < j PROVE Len(dirp(j)) < Len(dirp(i))
  <2>1. j \in 2 .. k + 1 /\ j - 1 \in 1 .. k /\ dirp(j) = dir(j - 1)
    BY <1>1, <1>6, <1>8
  <2>2. CASE i = 1
    <3>1. Len(dir(j - 1)) <= Len(dir(1))
      BY <1>1, <1>3, <2>1
    <3> QED BY <1>1, <1>2, <1>3, <1>4, <2>1, <2>2, <3>1
  <2>3. CASE i # 1
    <3>1. i \in 2 .. k + 1 /\ i - 1 \in 1 .. k /\ i - 1 < j - 1
      BY <1>1, <1>8, <2>3
    <3> QED BY <1>3, <1>6, <2>1, <3>1
  <2> QED BY <2>2, <2>3
<1>9. Len(scans') = k + 1 /\ Len(scans') - 1 = k
  BY <1>1, <1>4
<1> QED BY <1>5, <1>7, <1>8, <1>9

LEMMA NestLeft ==
  ASSUME NestOK, ScansOK, scans # << >>, scans' = Tail(scans)
  PROVE  NestOK'
<1>1. /\ Len(scans) \in Nat \ {0} /\ Len(Tail(scans)) = Len(scans) - 1
      /\ \A i \in 1 .. Len(scans) - 1 : Tail(scans)[i] = scans[i + 1]
  BY TopIsScan
<1> QED BY <1>1 DEF NestOK

LEMMA NewScan ==
  ASSUME TreeOK(files, dirs), NEW s \in FileSpec, NEW dir \in Seq(Names), NEW pass \in {"files", "dirs", "all"}
  PROVE  LET new == Scan(s, dir, pass)
         IN  /\ new \in OpenScan /\ new.pass = pass /\ new.shown = {} /\ new.due = Entries(dir)
             /\ new.spec = [s EXCEPT !.dir = dir]
             /\ new.spec.dir = dir /\ new.spec.file = s.file /\ new.spec.type = s.type /\ new.spec.way = s.way
<1>1. [s EXCEPT !.dir = dir] \in FileSpec
  BY DEF FileSpec
<1>2. /\ [s EXCEPT !.dir = dir].dir = dir /\ [s EXCEPT !.dir = dir].file = s.file
      /\ [s EXCEPT !.dir = dir].type = s.type /\ [s EXCEPT !.dir = dir].way = s.way
  BY DEF FileSpec
<1>3. Entries(dir) \subseteq Names
  BY EntriesAreNames
<1> QED BY <1>1, <1>2, <1>3 DEF Scan, OpenScan

LEMMA ShownTop ==
  ASSUME ScansOK, scans # << >>, NEW n \in Names
  PROVE  /\ Show(n) \in OpenScan /\ Show(n).spec = Top.spec /\ Show(n).pass = Top.pass
         /\ Show(n).due = Top.due /\ Show(n).shown = Top.shown \cup {n}
BY TopIsScan DEF Show, OpenScan

(***************************************************************************)
(* The steps keep the types.                                               *)
(***************************************************************************)
LEMMA OfferTyped ==
  ASSUME FileInv, command # NoCommand, at = "next", scans # << >>, UNCHANGED command,
         NEW dir \in Seq(Names), NEW n \in Names, NEW isdir, Offer(dir, n, isdir) \/ NoOffer
  PROVE  /\ param \in Params /\ param' \in Params
         /\ CommandOK' /\ HandOK' /\ said' \in {"", "YES", "NO", "ALL", "QUIT"}
<1>1. command \in Commands /\ param \in Params
  BY DEF FileInv, CommandOK
<1>2. said \in {"", "YES", "NO", "ALL", "QUIT"} /\ HandOK
  BY DEF FileInv, FlagsOK
<1>3. CASE NoOffer
  BY <1>1, <1>2, <1>3 DEF NoOffer, CommandOK, HandOK
<1>4. CASE /\ param' = [param EXCEPT !.file_nb = TRUE]
           /\ at' = IF param.confirm THEN "ask" ELSE IF param.ok THEN "do" ELSE "next"
           /\ found' = IF at' = "next" THEN Nothing ELSE [way |-> Top.spec.way, dir |-> dir, name |-> n]
           /\ said' = IF said \in {"ALL", "QUIT"} THEN said ELSE ""
  <2>1. param' \in Params
    BY <1>1, <1>4 DEF Params
  <2>2. [way |-> Top.spec.way, dir |-> dir, name |-> n] \in FoundFile
    BY TopIsScan DEF FileInv, FileSpec, FoundFile
  <2>3. HandOK'
    BY <1>4, <2>2 DEF HandOK
  <2> QED BY <1>1, <1>2, <1>4, <2>1, <2>3 DEF CommandOK
<1> QED BY <1>3, <1>4 DEF Offer

LEMMA ShowTyped ==
  ASSUME ScansOK, scans # << >>, NEW n \in Names, scans' = <<Show(n)>> \o Tail(scans)
  PROVE  /\ ScansOK' /\ Len(scans') = Len(scans) /\ scans'[1] = Show(n)
         /\ \A i \in 2 .. Len(scans) : scans'[i] = scans[i]
<1>1. Show(n) \in OpenScan
  BY ShownTop
<1> QED BY <1>1, TopReplaced DEF ScansOK

LEMMA EnterTyped ==
  ASSUME TreeOK(files, dirs), ScansOK, scans # << >>, NEW n \in Names, NEW pass \in {"files", "dirs", "all"},
         scans' = <<Scan(Top.spec, Append(Top.spec.dir, n), pass), Show(n)>> \o Tail(scans)
  PROVE  /\ ScansOK' /\ Len(scans') = Len(scans) + 1
         /\ scans'[1] = Scan(Top.spec, Append(Top.spec.dir, n), pass) /\ scans'[2] = Show(n)
         /\ \A i \in 2 .. Len(scans) : scans'[i + 1] = scans[i]
<1>1. Show(n) \in OpenScan
  BY ShownTop
<1>2. Append(Top.spec.dir, n) \in Seq(Names)
  BY TopIsScan, AppendedPath
<1>3. Scan(Top.spec, Append(Top.spec.dir, n), pass) \in OpenScan
  BY <1>2, TopIsScan, NewScan
<1> QED BY <1>1, <1>3, TopPushed DEF ScansOK

LEMMA ShowKeepsDirs ==
  ASSUME ScansOK, scans # << >>, NEW n \in Names, scans' = <<Show(n)>> \o Tail(scans)
  PROVE  /\ ScansOK' /\ Len(scans') = Len(scans)
         /\ \A i \in 1 .. Len(scans) : scans'[i].spec = scans[i].spec /\ scans'[i].spec.dir = scans[i].spec.dir
                                       /\ scans'[i].pass = scans[i].pass
<1>1. /\ ScansOK' /\ Len(scans') = Len(scans) /\ scans'[1] = Show(n)
      /\ \A i \in 2 .. Len(scans) : scans'[i] = scans[i]
  BY ShowTyped
<1>2. Show(n).spec = Top.spec /\ Show(n).pass = Top.pass /\ Len(scans) \in Nat \ {0}
  BY ShownTop, TopIsScan
<1> QED BY <1>1, <1>2 DEF Top

LEMMA EnterKeepsDirs ==
  ASSUME TreeOK(files, dirs), ScansOK, scans # << >>, NEW n \in Names, NEW pass \in {"files", "dirs", "all"},
         scans' = <<Scan(Top.spec, Append(Top.spec.dir, n), pass), Show(n)>> \o Tail(scans)
  PROVE  /\ ScansOK' /\ Len(scans') = Len(scans) + 1
         /\ scans'[1].spec.dir = Append(scans[1].spec.dir, n) /\ scans'[1].pass = pass
         /\ \A i \in 1 .. Len(scans) : scans'[i + 1].spec = scans[i].spec /\ scans'[i + 1].spec.dir = scans[i].spec.dir
                                       /\ scans'[i + 1].pass = scans[i].pass
<1> DEFINE new == Scan(Top.spec, Append(Top.spec.dir, n), pass)
<1>1. /\ ScansOK' /\ Len(scans') = Len(scans) + 1 /\ scans'[1] = new /\ scans'[2] = Show(n)
      /\ \A i \in 2 .. Len(scans) : scans'[i + 1] = scans[i]
  BY EnterTyped
<1>2. Show(n).spec = Top.spec /\ Show(n).pass = Top.pass
  BY ShownTop
<1>3. Top.spec \in FileSpec /\ Top.spec.dir \in Seq(Names) /\ Len(scans) \in Nat \ {0}
  BY TopIsScan
<1>4. Append(Top.spec.dir, n) \in Seq(Names)
  BY <1>3, AppendedPath
<1>5. new.spec.dir = Append(Top.spec.dir, n) /\ new.pass = pass
  BY <1>3 DEF Scan, FileSpec
<1> HIDE DEF new
<1>6. ASSUME NEW i \in 1 .. Len(scans)
      PROVE  scans'[i + 1].spec = scans[i].spec /\ scans'[i + 1].pass = scans[i].pass
  <2>1. CASE i = 1
    <3>1. scans'[i + 1] = Show(n) /\ scans[i] = Top
      BY <1>1, <2>1 DEF Top
    <3> QED BY <1>2, <3>1
  <2>2. CASE i # 1
    <3>1. i \in 2 .. Len(scans)
      BY <1>3, <2>2
    <3> QED BY <1>1, <3>1
  <2> QED BY <2>1, <2>2
<1>7. scans'[1].spec.dir = Append(scans[1].spec.dir, n) /\ scans'[1].pass = pass
  BY <1>1, <1>5 DEF Top
<1> QED BY <1>1, <1>6, <1>7

LEMMA NextFileTyped ==
  ASSUME FileInv, NextFile
  PROVE  FileInv'
<1>1. /\ command # NoCommand /\ at = "next" /\ scans # << >>
      /\ UNCHANGED <<files, dirs, command, SUBDIR, CTRL_Y, HARDERR, _SEVERITY, undefined, full>>
  BY DEF NextFile, Searching, Running
<1>2. PICK n \in Entries(Top.spec.dir) :
        LET isdir == Append(Top.spec.dir, n) \in dirs
        IN  IF command.verb = "DELETE" THEN dcl_del_searchdir(n, isdir) ELSE dcl_searchdir(n, isdir)
  BY DEF NextFile
<1>3. TreeOK(files, dirs) /\ ScansOK /\ NestOK /\ n \in Names
  BY EntriesAreNames DEF FileInv
<1>4. /\ \/ scans' = <<Show(n)>> \o Tail(scans)
         \/ \E pass \in {"files", "all"} :
              scans' = <<Scan(Top.spec, Append(Top.spec.dir, n), pass), Show(n)>> \o Tail(scans)
      /\ \E isdir : Offer(Top.spec.dir, n, isdir) \/ NoOffer
  BY <1>2 DEF dcl_searchdir, dcl_del_searchdir, Enter
<1>5. Top.spec.dir \in Seq(Names)
  BY <1>1, <1>3, TopIsScan
<1>6. CommandOK' /\ HandOK' /\ said' \in {"", "YES", "NO", "ALL", "QUIT"}
  BY <1>1, <1>3, <1>4, <1>5, OfferTyped
<1>7. CASE scans' = <<Show(n)>> \o Tail(scans)
  <2>1. /\ ScansOK' /\ Len(scans') = Len(scans)
        /\ \A i \in 1 .. Len(scans) : scans'[i].spec.dir = scans[i].spec.dir
    BY <1>1, <1>3, <1>7, ShowKeepsDirs
  <2>2. NestOK'
    BY <1>3, <2>1, NestSame
  <2> QED BY <1>1, <1>3, <1>6, <2>1, <2>2 DEF FileInv, FlagsOK
<1>8. ASSUME NEW pass \in {"files", "all"},
             scans' = <<Scan(Top.spec, Append(Top.spec.dir, n), pass), Show(n)>> \o Tail(scans)
      PROVE  FileInv'
  <2>1. /\ ScansOK' /\ Len(scans') = Len(scans) + 1
        /\ scans'[1].spec.dir = Append(scans[1].spec.dir, n)
        /\ \A i \in 1 .. Len(scans) : scans'[i + 1].spec.dir = scans[i].spec.dir
    BY <1>1, <1>3, <1>8, EnterKeepsDirs
  <2>2. NestOK'
    BY <1>1, <1>3, <2>1, NestEntered
  <2> QED BY <1>1, <1>3, <1>6, <2>1, <2>2 DEF FileInv, FlagsOK
<1> QED BY <1>4, <1>7, <1>8

LEMMA EndSearchTyped ==
  ASSUME FileInv, EndSearch
  PROVE  FileInv'
<1>1. /\ command # NoCommand /\ at = "next" /\ scans # << >>
      /\ UNCHANGED <<files, dirs, command, CTRL_Y, HARDERR, _SEVERITY, undefined, full>>
  BY DEF EndSearch, Searching, Running
<1>2. TreeOK(files, dirs) /\ ScansOK /\ NestOK
  BY DEF FileInv
<1>3. Top.spec \in FileSpec /\ Top.spec.dir \in Seq(Names) /\ Len(scans) \in Nat \ {0} /\ Tail(scans) \in Seq(OpenScan)
  BY <1>1, <1>2, TopIsScan
<1>4. CASE scans' = <<Scan(Top.spec, Top.spec.dir, "dirs")>> \o Tail(scans) /\ SUBDIR' = TRUE /\ NoOffer
  <2>1. Scan(Top.spec, Top.spec.dir, "dirs") \in OpenScan /\ Scan(Top.spec, Top.spec.dir, "dirs").spec.dir = Top.spec.dir
    <3>1. Scan(Top.spec, Top.spec.dir, "dirs").spec.dir = Top.spec.dir
      BY <1>3 DEF Scan, FileSpec
    <3> QED BY <1>2, <1>3, <3>1, NewScan
  <2>2. /\ ScansOK' /\ Len(scans') = Len(scans) /\ scans'[1] = Scan(Top.spec, Top.spec.dir, "dirs")
        /\ \A i \in 2 .. Len(scans) : scans'[i] = scans[i]
    BY <1>1, <1>2, <1>4, <2>1, TopReplaced DEF ScansOK
  <2>3. CommandOK' /\ HandOK'
    BY <1>1, <1>4 DEF NoOffer, FileInv, CommandOK, HandOK
  <2>4. \A i \in 1 .. Len(scans) : scans'[i].spec.dir = scans[i].spec.dir
    BY <1>3, <2>1, <2>2 DEF Top
  <2>5. NestOK'
    BY <1>2, <2>2, <2>4, NestSame
  <2> QED BY <1>1, <1>2, <1>4, <2>2, <2>3, <2>5 DEF FileInv, FlagsOK, NoOffer
<1>5. CASE /\ scans' = Tail(scans) /\ UNCHANGED SUBDIR
           /\ IF Top.pass = "all" /\ Len(scans) > 1 /\ Matches(Top.spec, Last(Top.spec.dir))
              THEN Offer(Parent(Top.spec.dir), Last(Top.spec.dir), TRUE)
              ELSE NoOffer
  <2>1. ScansOK' /\ NestOK'
    BY <1>1, <1>2, <1>3, <1>5, NestLeft DEF ScansOK
  <2>2. CASE NoOffer
    BY <1>1, <1>2, <1>5, <2>1, <2>2 DEF NoOffer, FileInv, FlagsOK, CommandOK, HandOK
  <2>3. CASE Offer(Parent(Top.spec.dir), Last(Top.spec.dir), TRUE) /\ Len(scans) > 1
    <3>1. Top.spec.dir # << >>
      BY <1>2, <1>3, <2>3 DEF NestOK, Top
    <3>2. Parent(Top.spec.dir) \in Seq(Names) /\ Last(Top.spec.dir) \in Names
      BY <1>3, <3>1, ParentAndLast
    <3>3. CommandOK' /\ HandOK' /\ said' \in {"", "YES", "NO", "ALL", "QUIT"}
      BY <1>1, <2>3, <3>2, OfferTyped
    <3> QED BY <1>1, <1>2, <1>5, <2>1, <3>3 DEF FileInv, FlagsOK
  <2> QED BY <1>5, <2>2, <2>3
<1> QED BY <1>4, <1>5 DEF EndSearch

\* A command proper leaves the search as it is, but for the name of what is gone.
LEMMA DoneTyped ==
  ASSUME FileInv, NEW verb, Doing(verb), TreeOK(files', dirs'), param' \in Params,
         _SEVERITY' \in 0 .. 2, undefined' \in BOOLEAN, NEW p, UNCHANGED scans \/ Forget(p)
  PROVE  FileInv'
<1>1. /\ at = "do" /\ at' = "next" /\ found' = Nothing
      /\ UNCHANGED <<command, SUBDIR, CTRL_Y, HARDERR, full, said>>
  BY DEF Doing
<1>2. ScansOK /\ NestOK /\ command \in Commands /\ FlagsOK
  BY <1>1 DEF FileInv, CommandOK
<1>3. ScansOK' /\ NestOK'
  <2>1. CASE UNCHANGED scans
    BY <1>2, <2>1 DEF ScansOK, NestOK
  <2>2. CASE Forget(p)
    <3>1. /\ ScansOK' /\ Len(scans') = Len(scans)
          /\ \A i \in 1 .. Len(scans) : scans'[i].spec.dir = scans[i].spec.dir
      BY <1>2, <2>2, ForgetChanges
    <3> QED BY <1>2, <3>1, NestSame
  <2> QED BY <2>1, <2>2
<1>4. CommandOK' /\ HandOK' /\ FlagsOK'
  BY <1>1, <1>2 DEF CommandOK, HandOK, FlagsOK
<1> QED BY <1>3, <1>4 DEF FileInv

LEMMA DoingHas ==
  ASSUME FileInv, NEW verb, Doing(verb)
  PROVE  /\ at = "do" /\ TreeOK(files, dirs) /\ param \in Params /\ _SEVERITY \in 0 .. 2 /\ undefined \in BOOLEAN
         /\ Path(found) \in Seq(Names) /\ Path(found) # << >>
<1>1. at = "do"
  BY DEF Doing
<1> QED BY <1>1, FoundPath DEF FileInv, CommandOK, HandOK, FlagsOK

LEMMA ChangedFileTyped ==
  ASSUME TreeOK(files, dirs), NEW ds, TreeOK(files, ds), NEW p \in Seq(Names), Writable(p, ds),
         NEW data \in Seq(Pieces \cup {Erased})
  PROVE  TreeOK(Written(p, data), ds)
<1>1. [data |-> data, date |-> 2] \in File
  BY DEF File, Dates
<1> QED BY <1>1, WithKeepsTree DEF Written, Writable

LEMMA DeleteTyped ==
  ASSUME FileInv, DeleteFile \/ DeleteDir
  PROVE  FileInv'
<1> DEFINE p == Path(found)
<1>1. CASE DeleteFile
  <2>1. Doing("DELETE") /\ p \notin dirs /\ UNCHANGED <<dirs, param>> /\ _SEVERITY' \in {_SEVERITY, 2} /\ UNCHANGED undefined
    BY <1>1 DEF DeleteFile, Succeed, Fail
  <2>2. /\ TreeOK(files, dirs) /\ param \in Params /\ _SEVERITY \in 0 .. 2 /\ undefined \in BOOLEAN
        /\ p \in Seq(Names) /\ p # << >>
    BY <2>1, DoingHas
  <2>3. UNCHANGED scans \/ Forget(p)
    BY <1>1 DEF DeleteFile
  <2>4. TreeOK(files', dirs)
    <3>1. CASE files' = Without(p)
      BY <2>2, <3>1, WithoutKeepsTree
    <3>2. CASE UNCHANGED files
      BY <2>2, <3>2
    <3>3. ASSUME p \in DOMAIN files, NEW n \in 1 .. Len(Data(p)),
                 files' = Written(p, [i \in DOMAIN Data(p) |-> IF i <= n THEN Erased ELSE Data(p)[i]])
          PROVE  TreeOK(files', dirs)
      <4> DEFINE old == Data(p)
                 new == [i \in DOMAIN old |-> IF i <= n THEN Erased ELSE old[i]]
      <4>1. old \in Seq(Pieces \cup {Erased})
        BY <2>2, DataIsPieces
      <4> HIDE DEF old
      <4>2. new \in Seq(Pieces \cup {Erased})
        BY <4>1
      <4>3. Writable(p, dirs)
        BY <2>1, <2>2, <3>3 DEF TreeOK, Writable
      <4>4. files' = Written(p, new)
        BY <3>3 DEF old
      <4> HIDE DEF new, p
      <4> QED BY <2>2, <4>2, <4>3, <4>4, ChangedFileTyped
    <3> QED BY <1>1, <3>1, <3>2, <3>3 DEF DeleteFile
  <2> HIDE DEF p
  <2> QED BY <2>1, <2>2, <2>3, <2>4, DoneTyped
<1>2. CASE DeleteDir
  <2>1. Doing("DELETE") /\ p \in dirs /\ UNCHANGED <<files, param>> /\ _SEVERITY' \in {_SEVERITY, 2} /\ UNCHANGED undefined
    BY <1>2 DEF DeleteDir, Succeed, Fail
  <2>2. /\ TreeOK(files, dirs) /\ param \in Params /\ _SEVERITY \in 0 .. 2 /\ undefined \in BOOLEAN
        /\ p \in Seq(Names) /\ p # << >>
    BY <2>1, DoingHas
  <2>3. UNCHANGED scans \/ Forget(p)
    BY <1>2 DEF DeleteDir
  <2>4. UNCHANGED dirs \/ (Entries(p) = {} /\ dirs' = dirs \ {p})
    BY <1>2 DEF DeleteDir
  <2> HIDE DEF p
  <2>5. TreeOK(files, dirs')
    BY <2>1, <2>2, <2>4, RemovedDirKeepsTree
  <2> QED BY <2>1, <2>2, <2>3, <2>5, DoneTyped
<1> QED BY <1>1, <1>2

LEMMA FirstPieces ==
  ASSUME NEW S, NEW s \in Seq(S), NEW n \in 0 .. Len(s)
  PROVE  SubSeq(s, 1, n) \in Seq(S)
<1>1. Len(s) \in Nat /\ \A i \in 1 .. n : s[i] \in S
  BY LenProperties, ElementOfSeq
<1> QED BY <1>1, SubSeqProperties

LEMMA CopyTyped ==
  ASSUME FileInv, CopyNothing \/ CopyUndefined \/ vms_copy
  PROVE  FileInv'
<1>1. Doing("COPY") /\ UNCHANGED <<param, scans>>
  BY DEF CopyNothing, CopyUndefined, vms_copy
<1>2. /\ TreeOK(files, dirs) /\ param \in Params /\ _SEVERITY \in 0 .. 2 /\ undefined \in BOOLEAN
      /\ Path(found) \in Seq(Names) /\ at # "next"
  BY <1>1, DoingHas
<1>3. _SEVERITY' \in 0 .. 2 /\ undefined' \in BOOLEAN
  <2>1. _SEVERITY' \in {_SEVERITY, 2} /\ undefined' \in {undefined, TRUE}
    <3>1. CASE CopyNothing \/ CopyUndefined
      BY <3>1 DEF CopyNothing, CopyUndefined, Succeed
    <3>2. CASE vms_copy
      <4>1. filecopy => Succeed \/ Fail
        BY Zenon DEF filecopy
      <4> QED BY <3>2, <4>1 DEF vms_copy, Succeed, Fail
    <3> QED BY <3>1, <3>2
  <2>2. _SEVERITY' \in 0 .. 2
    BY <1>2, <2>1
  <2>3. undefined' \in BOOLEAN
    BY <1>2, <2>1, Zenon
  <2> QED BY <2>2, <2>3
<1>4. TreeOK(files', dirs')
  <2>1. CASE CopyNothing \/ CopyUndefined
    BY <1>2, <2>1 DEF CopyNothing, CopyUndefined
  <2>2. CASE vms_copy
    <3>1. CopyTarget \in FoundFile
      BY <1>2, <2>2, CopyTargetIsFile DEF vms_copy
    <3>2. CopyTarget.dir \in Seq(Names) /\ Path(CopyTarget) \in Seq(Names)
      BY <3>1, FilePath DEF FoundFile
    <3>3. TreeOK(files, dirs')
      <4>1. dirs' \in {dirs, MakeDir(CopyTarget.dir)}
        BY <2>2 DEF vms_copy
      <4> QED BY <1>2, <3>2, <4>1, MakeDirKeepsTree
    <3>4. CASE filecopy
      <4> DEFINE dst == Path(CopyTarget)
                 src == IF dst = Path(found) THEN << >> ELSE Data(Path(found))
      <4>1. src \in Seq(Pieces \cup {Erased})
        BY <1>2, DataIsPieces, EmptySeq
      <4>2. Writable(dst, dirs') /\ \E n \in 0 .. Len(src) : files' = Written(dst, SubSeq(src, 1, n))
        BY <3>4 DEF filecopy
      <4>3. dst \in Seq(Names)
        BY <3>2
      <4> HIDE DEF dst, src
      <4>4. PICK n \in 0 .. Len(src) : files' = Written(dst, SubSeq(src, 1, n))
        BY <4>2
      <4>5. SubSeq(src, 1, n) \in Seq(Pieces \cup {Erased})
        BY <4>1, FirstPieces
      <4> QED BY <1>2, <3>3, <4>2, <4>3, <4>4, <4>5, ChangedFileTyped
    <3>5. CASE UNCHANGED files
      BY <3>3, <3>5
    <3> QED BY <2>2, <3>4, <3>5 DEF vms_copy
  <2> QED BY <2>1, <2>2
<1> QED BY <1>1, <1>2, <1>3, <1>4, DoneTyped

LEMMA RenameTyped ==
  ASSUME FileInv, vms_rename
  PROVE  FileInv'
<1> DEFINE p == Path(found)
           q == Path(Target)
<1>1. Doing("RENAME") /\ UNCHANGED <<dirs, param>> /\ _SEVERITY' \in {_SEVERITY, 2} /\ UNCHANGED undefined
  BY DEF vms_rename, Succeed, Fail
<1>2. /\ TreeOK(files, dirs) /\ param \in Params /\ _SEVERITY \in 0 .. 2 /\ undefined \in BOOLEAN
      /\ p \in Seq(Names) /\ at # "next"
  BY <1>1, DoingHas
<1>3. UNCHANGED scans \/ Forget(p)
  BY DEF vms_rename
<1>4. \/ UNCHANGED files
      \/ /\ p \in DOMAIN files /\ Writable(q, dirs)
         /\ files' = [r \in (DOMAIN files \ {p}) \cup {q} |-> IF r = q THEN files[p] ELSE files[r]]
  BY DEF vms_rename
<1>5. q \in Seq(Names)
  BY <1>2, TargetIsFile, FilePath
<1> HIDE DEF p, q
<1>6. TreeOK(files', dirs)
  <2>1. CASE UNCHANGED files
    BY <1>2, <2>1
  <2>2. CASE /\ p \in DOMAIN files /\ Writable(q, dirs)
             /\ files' = [r \in (DOMAIN files \ {p}) \cup {q} |-> IF r = q THEN files[p] ELSE files[r]]
    <3>1. TreeOK([r \in (DOMAIN files \ {p}) \cup {q} |-> IF r = q THEN files[p] ELSE files[r]], dirs)
      BY <1>2, <1>5, <2>2, RenamedKeepsTree DEF Writable
    <3> QED BY <2>2, <3>1
  <2> QED BY <1>4, <2>1, <2>2
<1> QED BY <1>1, <1>2, <1>3, <1>6, DoneTyped

\* What APPEND writes to.
LEMMA AppendTargetIsSpec ==
  ASSUME FileInv, at # "next"
  PROVE  LET dst == Append(AppendTarget.dir, <<AppendTarget.file, AppendTarget.type>>)
         IN  /\ AppendTarget \in FileSpec /\ AppendTarget.file \in Files \cup {""} /\ AppendTarget.type \in Types
             /\ AppendTarget.file # "" => dst \in Seq(Names) /\ dst # << >>
<1>1. found.name \in Files \X Types
  BY FoundPath DEF Names
<1>2. param.to \in FileSpec /\ TreeOK(files, dirs)
  BY DEF FileInv, CommandOK, HandOK, Params
<1> DEFINE s == Into(param.to)
           f == IF s.file \in {"*"} THEN found.name[1] ELSE s.file
           t == IF s.type \in {"*"} THEN found.name[2] ELSE s.type
<1>3. s \in FileSpec
  BY <1>2, IntoIsSpec
<1>4. AppendTarget = [s EXCEPT !.file = f, !.type = t]
  BY DEF AppendTarget, Filled
<1> HIDE DEF s
<1>5. s.way \in DOMAIN Ways /\ s.dir \in Seq(Names) /\ s.file \in Files \cup {"*", ""} /\ s.type \in Types \cup {"*", ""}
  BY <1>3 DEF FileSpec
<1>6. f \in Files \cup {""} /\ t \in Types
  BY <1>1, <1>5, NamesAssumption
<1> HIDE DEF f, t
<1>7. /\ AppendTarget \in FileSpec /\ AppendTarget.file = f /\ AppendTarget.type = t
      /\ AppendTarget.dir \in Seq(Names)
  BY <1>3, <1>4, <1>5, <1>6 DEF FileSpec
<1>8. f # "" => <<f, t>> \in Names
  BY <1>6 DEF Names
<1> QED BY <1>6, <1>7, <1>8, AppendedPath

LEMMA AppendTyped ==
  ASSUME FileInv, vms_append
  PROVE  FileInv'
<1> DEFINE to == AppendTarget
           dst == Append(AppendTarget.dir, <<AppendTarget.file, AppendTarget.type>>)
           src == Data(Path(found))
<1>1. Doing("APPEND") /\ UNCHANGED <<dirs, scans>> /\ _SEVERITY' \in {_SEVERITY, 2} /\ UNCHANGED undefined
  BY DEF vms_append, Fail
<1>2. /\ TreeOK(files, dirs) /\ param \in Params /\ _SEVERITY \in 0 .. 2 /\ undefined \in BOOLEAN
      /\ Path(found) \in Seq(Names) /\ at # "next"
  BY <1>1, DoingHas
<1>3. param' = [param EXCEPT !.to = to] /\ to \in FileSpec
  BY <1>2, AppendTargetIsSpec DEF vms_append
<1>4. \/ UNCHANGED files
      \/ /\ Writable(dst, dirs) /\ to.file # ""
         /\ \E n \in 0 .. Len(src) : files' = Written(dst, Data(dst) \o SubSeq(src, 1, n))
  BY DEF vms_append
<1>5. to.file # "" => dst \in Seq(Names)
  BY <1>2, AppendTargetIsSpec
<1>6. src \in Seq(Pieces \cup {Erased}) /\ Data(dst) \in Seq(Pieces \cup {Erased})
  BY <1>2, DataIsPieces
<1> HIDE DEF to, dst, src
<1>7. param' \in Params
  BY <1>2, <1>3 DEF Params
<1>8. TreeOK(files', dirs)
  <2>1. CASE UNCHANGED files
    BY <1>2, <2>1
  <2>2. ASSUME NEW n \in 0 .. Len(src), Writable(dst, dirs), to.file # "",
               files' = Written(dst, Data(dst) \o SubSeq(src, 1, n))
        PROVE  TreeOK(files', dirs)
    <3> DEFINE new == Data(dst) \o SubSeq(src, 1, n)
    <3>1. SubSeq(src, 1, n) \in Seq(Pieces \cup {Erased})
      BY <1>6, FirstPieces
    <3>2. new \in Seq(Pieces \cup {Erased})
      BY <1>6, <3>1, ConcatProperties
    <3>3. files' = Written(dst, new)
      BY <2>2
    <3> HIDE DEF new
    <3> QED BY <1>2, <1>5, <2>2, <3>2, <3>3, ChangedFileTyped
  <2> QED BY <1>4, <2>1, <2>2
<1> QED BY <1>1, <1>2, <1>7, <1>8, DoneTyped

LEMMA OthersTyped ==
  ASSUME FileInv, dcltype_do_it \/ vms_print \/ dclsetf_do_it
  PROVE  FileInv'
<1> DEFINE p == Path(found)
<1>1. PICK verb : Doing(verb) /\ UNCHANGED <<dirs, scans>>
  BY DEF dcltype_do_it, vms_print, dclsetf_do_it
<1>2. TreeOK(files, dirs) /\ param \in Params /\ _SEVERITY \in 0 .. 2 /\ undefined \in BOOLEAN
  BY <1>1, DoingHas
<1>3. _SEVERITY' \in 0 .. 2 /\ undefined' \in BOOLEAN
  <2>1. _SEVERITY' \in {_SEVERITY, 2} /\ undefined' \in {undefined, TRUE}
    BY Zenon DEF dcltype_do_it, vms_print, dclsetf_do_it, Succeed, Fail
  <2>2. _SEVERITY' \in 0 .. 2
    BY <1>2, <2>1
  <2>3. undefined' \in BOOLEAN
    BY <1>2, <2>1, Zenon
  <2> QED BY <2>2, <2>3
<1>4. param' \in Params
  <2>1. UNCHANGED param \/ param' = [param EXCEPT !.ok = FALSE, !.confirm = FALSE]
    BY DEF dcltype_do_it, vms_print, dclsetf_do_it
  <2> QED BY <1>2, <2>1 DEF Params
<1>5. UNCHANGED files \/ (p \in DOMAIN files /\ files' = [files EXCEPT ![p].date = 1])
  BY DEF dcltype_do_it, vms_print, dclsetf_do_it
<1> HIDE DEF p
<1>6. TreeOK(files', dirs')
  <2>1. CASE UNCHANGED files
    BY <1>1, <1>2, <2>1
  <2>2. CASE p \in DOMAIN files /\ files' = [files EXCEPT ![p].date = 1]
    <3>1. files[p] \in File
      BY <1>2, <2>2 DEF TreeOK
    <3>2. [files[p] EXCEPT !.date = 1] \in File
      BY <3>1 DEF File, Dates
    <3>3. files' = [files EXCEPT ![p] = [files[p] EXCEPT !.date = 1]]
      BY <2>2
    <3> QED BY <1>1, <1>2, <2>2, <3>2, <3>3 DEF TreeOK
  <2> QED BY <1>5, <2>1, <2>2
<1> QED BY <1>1, <1>2, <1>3, <1>4, <1>6, DoneTyped

LEMMA PromptTyped ==
  ASSUME FileInv, Ask \/ Answer
  PROVE  FileInv'
<1>1. TreeOK(files, dirs) /\ ScansOK /\ NestOK /\ FlagsOK
  BY DEF FileInv
<1>2. at # "next" /\ UNCHANGED <<files, dirs, command, scans, SUBDIR, HARDERR, _SEVERITY, undefined, full>>
  BY DEF Ask, Answer
<1>3. found \in FoundFile /\ command \in Commands /\ command # NoCommand /\ param \in Params
  BY <1>2 DEF FileInv, HandOK, CommandOK
<1>4. TreeOK(files', dirs') /\ ScansOK' /\ NestOK'
  BY <1>1, <1>2 DEF ScansOK, NestOK
<1>5. CASE Ask
  <2>1. CommandOK' /\ HandOK' /\ FlagsOK'
    BY <1>1, <1>2, <1>3, <1>5 DEF Ask, CommandOK, HandOK, FlagsOK
  <2> QED BY <1>4, <2>1 DEF FileInv
<1>6. CASE Answer
  <2>1. PICK word \in {"YES", "NO", "ALL", "QUIT"}, key \in BOOLEAN :
          /\ CTRL_Y' = (CTRL_Y \/ key)
          /\ param' = Answered(Understood(word))
          /\ said' = Understood(word)
    BY <1>6 DEF Answer
  <2>2. Understood(word) \in {"YES", "NO", "ALL", "QUIT"}
    BY DEF Understood
  <2>3. param' \in Params
    <3> DEFINE w == Understood(word)
               ok == w \in {"YES", "ALL"}
               confirm == w \notin {"ALL", "QUIT"}
    <3>1. param' = [param EXCEPT !.ok = ok, !.confirm = confirm]
      BY <2>1 DEF Answered
    <3>2. ok \in BOOLEAN /\ confirm \in BOOLEAN
      OBVIOUS
    <3> HIDE DEF ok, confirm
    <3> QED BY <1>3, <3>1, <3>2 DEF Params
  <2>4. CTRL_Y' \in BOOLEAN
    BY <2>1
  <2>5. CommandOK' /\ FlagsOK'
    BY <1>1, <1>2, <1>3, <2>1, <2>2, <2>3, <2>4 DEF CommandOK, FlagsOK
  <2>6. HandOK'
    BY <1>2, <1>3, <1>6 DEF Answer, HandOK
  <2> QED BY <1>4, <2>5, <2>6 DEF FileInv
<1> QED BY <1>5, <1>6

\* What is not a command that is done, nor the search in a directory.
LEMMA OtherStepsTyped ==
  ASSUME FileInv, NextPattern \/ Finish \/ CtrlC \/ Removed \/ DiskFills \/ (\E c \in Commands : Begin(c))
  PROVE  FileInv'
<1>1. TreeOK(files, dirs) /\ ScansOK /\ NestOK /\ FlagsOK /\ HandOK /\ CommandOK
  BY DEF FileInv
<1>2. CASE NextPattern
  <2> DEFINE s == Head(param.rest)
             pass == IF command.verb = "DELETE" THEN "all" ELSE "files"
             new == Scan(s, s.dir, pass)
  <2>1. /\ command # NoCommand /\ scans = << >> /\ param.rest # << >>
        /\ UNCHANGED <<files, dirs, command, found, at, SUBDIR, CTRL_Y, HARDERR, _SEVERITY, undefined, full, said>>
        /\ param' = [param EXCEPT !.rest = Tail(@)]
        /\ scans' = <<new>>
    BY <1>2 DEF NextPattern, Searching, Running, NextParam
  <2>2. command \in Commands /\ param \in Params /\ param.rest \in Seq(FileSpec)
    BY <1>1, <2>1 DEF CommandOK, Params
  <2>3. s \in FileSpec /\ Tail(param.rest) \in Seq(FileSpec)
    BY <2>1, <2>2, HeadTailProperties
  <2>4. pass \in {"files", "dirs", "all"}
    OBVIOUS
  <2> HIDE DEF s, pass
  <2>5. s.dir \in Seq(Names)
    BY <2>3 DEF FileSpec
  <2>6. new \in OpenScan
    BY <1>1, <2>3, <2>4, <2>5, NewScan
  <2> HIDE DEF new
  <2>7. scans' \in Seq(OpenScan) /\ Len(scans') = 1
    BY <2>1, <2>6
  <2>8. NestOK' /\ ScansOK'
    BY <2>7 DEF NestOK, ScansOK
  <2>9. CommandOK' /\ HandOK' /\ FlagsOK'
    BY <1>1, <2>1, <2>2, <2>3 DEF CommandOK, HandOK, FlagsOK, Params
  <2> QED BY <1>1, <2>1, <2>8, <2>9 DEF FileInv
<1>3. CASE Finish
  <2>1. /\ at = "next" /\ scans = << >> /\ command # NoCommand
        /\ UNCHANGED <<files, dirs, scans, found, at, SUBDIR, CTRL_Y, HARDERR, undefined, full>>
        /\ command' = NoCommand /\ said' = "" /\ _SEVERITY' \in {_SEVERITY, 1}
    BY <1>3 DEF Finish, SearchDone, Searching, Running
  <2>2. TreeOK(files', dirs') /\ ScansOK' /\ NestOK'
    BY <1>1, <2>1 DEF ScansOK, NestOK
  <2>3. CommandOK' /\ HandOK'
    BY <1>1, <2>1 DEF CommandOK, HandOK
  <2>4. _SEVERITY' \in 0 .. 2
    <3>1. _SEVERITY \in 0 .. 2
      BY <1>1, Zenon DEF FlagsOK
    <3>2. _SEVERITY' = _SEVERITY \/ _SEVERITY' = 1
      BY <2>1, Zenon
    <3> QED BY <3>1, <3>2
  <2>5. FlagsOK'
    BY <1>1, <2>1, <2>4 DEF FlagsOK
  <2> QED BY <2>2, <2>3, <2>5 DEF FileInv
<1>4. CASE CtrlC \/ DiskFills
  <2>1. /\ UNCHANGED <<files, dirs, command, param, scans, found, at, SUBDIR, _SEVERITY, undefined, said>>
        /\ CTRL_Y' \in {CTRL_Y, TRUE} /\ HARDERR' \in {HARDERR, TRUE} /\ full' \in {full, TRUE}
    BY <1>4 DEF CtrlC, DiskFills
  <2>2. TreeOK(files', dirs') /\ ScansOK' /\ NestOK' /\ CommandOK' /\ HandOK'
    BY <1>1, <2>1 DEF ScansOK, NestOK, CommandOK, HandOK
  <2>3. FlagsOK'
    BY <1>1, <2>1, Zenon DEF FlagsOK
  <2> QED BY <2>2, <2>3 DEF FileInv
<1>5. CASE Removed
  <2>1. PICK p \in DOMAIN files : files' = Without(p) /\ Forget(p)
    BY <1>5 DEF Removed
  <2>2. /\ command # NoCommand
        /\ UNCHANGED <<dirs, command, param, found, at, SUBDIR, CTRL_Y, HARDERR, _SEVERITY, undefined, full, said>>
    BY <1>5 DEF Removed, Running
  <2>3. TreeOK(files', dirs')
    BY <1>1, <2>1, <2>2, WithoutKeepsTree
  <2>4. /\ ScansOK' /\ Len(scans') = Len(scans)
        /\ \A i \in 1 .. Len(scans) : scans'[i].spec.dir = scans[i].spec.dir
    BY <1>1, <2>1, ForgetChanges
  <2>5. NestOK'
    BY <1>1, <2>4, NestSame
  <2> QED BY <1>1, <2>2, <2>3, <2>4, <2>5 DEF FileInv, CommandOK, HandOK, FlagsOK
<1>6. ASSUME NEW c \in Commands, Begin(c) PROVE FileInv'
  <2>1. /\ command = NoCommand /\ command' = c
        /\ param' = FirstParam(c)
        /\ SUBDIR' = (SUBDIR /\ c.verb # "COPY")
        /\ CTRL_Y' = FALSE /\ HARDERR' = FALSE /\ _SEVERITY' = 0 /\ said' = ""
        /\ UNCHANGED <<files, dirs, scans, found, at, undefined, full>>
    BY <1>6 DEF Begin
  <2>2. c \in Command
    BY CommandsAssumption
  <2>3. FirstParam(c) \in Params
    <3>1. c.from \in Seq(FileSpec) /\ c.to \in FileSpec /\ << >> \in Seq(FileSpec)
      BY <2>2, EmptySeq DEF Command
    <3> QED BY <3>1 DEF FirstParam, Params
  <2>4. at = "next"
    BY <1>1, <2>1, <2>2, RecordsAreSomething DEF HandOK
  <2>5. CommandOK' /\ HandOK'
    BY <1>1, <2>1, <2>3, <2>4 DEF CommandOK, HandOK
  <2>6. SUBDIR' \in BOOLEAN
    BY <2>1
  <2>7. _SEVERITY' \in 0 .. 2
    <3>1. _SEVERITY' = 0
      BY <2>1, Zenon
    <3> QED BY <3>1
  <2>8. FlagsOK'
    BY <1>1, <2>1, <2>6, <2>7, Zenon DEF FlagsOK
  <2> QED BY <1>1, <2>1, <2>5, <2>8 DEF FileInv, ScansOK, NestOK
<1> QED BY <1>2, <1>3, <1>4, <1>5, <1>6

LEMMA FileSteps ==
  ASSUME FileInv, [Next]_vars
  PROVE  FileInv'
<1>1. CASE Search
  BY <1>1, NextFileTyped, EndSearchTyped, OtherStepsTyped DEF Search
<1>2. CASE Ask \/ Answer
  BY <1>2, PromptTyped
<1>3. CASE Treat
  BY <1>3, DeleteTyped, CopyTyped, RenameTyped, AppendTyped, OthersTyped DEF Treat
<1>4. CASE CtrlC \/ Removed \/ DiskFills \/ \E c \in Commands : Begin(c)
  BY <1>4, OtherStepsTyped
<1>5. CASE UNCHANGED vars
  BY <1>5 DEF vars, FileInv, ScansOK, NestOK, CommandOK, HandOK, FlagsOK
<1> QED BY <1>1, <1>2, <1>3, <1>4, <1>5 DEF Next, User

LEMMA FileInit == Init => FileInv
<1> SUFFICES ASSUME Init PROVE FileInv
  OBVIOUS
<1>1. PICK d \in Disks : files = d.files /\ dirs = d.dirs
  BY DEF Init
<1>2. TreeOK(files, dirs)
  BY <1>1, DisksAssumption DEF TreeOK
<1>3. scans = << >> /\ Len(scans) = 0 /\ scans \in Seq(OpenScan)
  BY EmptySeq DEF Init
<1>4. CommandOK /\ HandOK
  BY DEF Init, CommandOK, HandOK
<1>5. _SEVERITY \in 0 .. 2
  <2>1. _SEVERITY = 0
    BY Zenon DEF Init
  <2> QED BY <2>1
<1>6. FlagsOK
  BY <1>5, Zenon DEF Init, FlagsOK
<1> QED BY <1>2, <1>3, <1>4, <1>6 DEF FileInv, ScansOK, NestOK

LEMMA FileInvAlways == Spec => []FileInv
<1>1. FileInv /\ [Next]_vars => FileInv'
  BY FileSteps
<1> QED BY FileInit, <1>1, PTL DEF Spec

(***************************************************************************)
(* Every variable has its type, and the files and directories are a tree   *)
(* whose leaves alone are files: COPY and APPEND make files in directories *)
(* only, COPY/SUBDIR makes no directory where there is a file, and DELETE  *)
(* removes no directory that has entries.                                  *)
(***************************************************************************)
THEOREM FilesAlwaysATree == Spec => []FileTypeOK
BY FileInvAlways, TypesFollow, PTL

(***************************************************************************)
(* What BreakStops and SourceKept rest on: DELETE alone searches in one    *)
(* pass, the directories it is in are there, what it has in hand is in the *)
(* innermost of them, and COPY keeps its second parameter.                 *)
(***************************************************************************)
PassesOK == \A i \in 1 .. Len(scans) : scans[i].pass = "all" <=> command.verb = "DELETE"
ScanDirsThere == command.verb = "DELETE" => \A i \in 1 .. Len(scans) - 1 : scans[i].spec.dir \in dirs
HandInTop == command.verb = "DELETE" /\ at # "next" => scans # << >> /\ found.dir = scans[1].spec.dir
ToKept == command.verb = "COPY" => param.to = command.to

CommandInv ==
  /\ command # NoCommand => PassesOK /\ ScanDirsThere /\ HandInTop /\ ToKept
  /\ events \in Nat

LEMMA SearchStays ==
  ASSUME CommandInv, command # NoCommand, UNCHANGED command, events' \in Nat,
         Len(scans') = Len(scans), Len(scans) \in Nat,
         \A i \in 1 .. Len(scans) : scans'[i].spec.dir = scans[i].spec.dir /\ scans'[i].pass = scans[i].pass,
         command.verb = "DELETE" => \A i \in 1 .. Len(scans) - 1 : scans[i].spec.dir \in dirs',
         command.verb = "COPY" => param'.to = param.to,
         HandInTop'
  PROVE  CommandInv'
<1>1. PassesOK'
  BY DEF CommandInv, PassesOK
<1>2. ScanDirsThere'
  BY DEF ScanDirsThere
<1>3. ToKept'
  BY DEF CommandInv, ToKept
<1> QED BY <1>1, <1>2, <1>3 DEF CommandInv

LEMMA OfferFinds ==
  ASSUME at = "next", NEW dir, NEW n, NEW isdir, Offer(dir, n, isdir), at' # "next"
  PROVE  found' = [way |-> Top.spec.way, dir |-> dir, name |-> n]
BY DEF Offer, NoOffer

LEMMA NextFileCommand ==
  ASSUME FileInv, CommandInv, NextFile
  PROVE  CommandInv'
<1>1. /\ command # NoCommand /\ at = "next" /\ scans # << >> /\ ~Stopped
      /\ UNCHANGED <<dirs, command, events>>
  BY DEF NextFile, Searching, Running
<1>2. PICK n \in Entries(Top.spec.dir) :
        LET isdir == Append(Top.spec.dir, n) \in dirs
        IN  IF command.verb = "DELETE" THEN dcl_del_searchdir(n, isdir) ELSE dcl_searchdir(n, isdir)
  BY DEF NextFile
<1>3. TreeOK(files, dirs) /\ ScansOK /\ NestOK /\ n \in Names /\ param \in Params
  BY <1>1, EntriesAreNames DEF FileInv, CommandOK
<1>4. PassesOK /\ ScanDirsThere /\ ToKept /\ events \in Nat /\ Len(scans) \in Nat \ {0}
  BY <1>1, <1>3, TopIsScan DEF CommandInv
<1>5. param'.to = param.to
  <2>1. param' = param \/ param' = [param EXCEPT !.file_nb = TRUE]
    BY <1>2 DEF dcl_searchdir, dcl_del_searchdir, Enter, Offer, NoOffer
  <2> QED BY <1>3, <2>1 DEF Params
<1>6. at' # "next" => found'.dir = scans[1].spec.dir /\ scans' = <<Show(n)>> \o Tail(scans)
  <2> SUFFICES ASSUME at' # "next" PROVE found'.dir = scans[1].spec.dir /\ scans' = <<Show(n)>> \o Tail(scans)
    OBVIOUS
  <2>1. ~NoOffer
    BY <1>1 DEF NoOffer
  <2>2. scans' = <<Show(n)>> \o Tail(scans) /\ \E isdir : Offer(Top.spec.dir, n, isdir)
    BY <1>2, <2>1 DEF dcl_searchdir, dcl_del_searchdir, Enter
  <2>3. found' = [way |-> Top.spec.way, dir |-> Top.spec.dir, name |-> n]
    BY <1>1, <2>2, OfferFinds
  <2> QED BY <2>2, <2>3 DEF Top
<1>7. CASE scans' = <<Show(n)>> \o Tail(scans)
  <2>1. /\ Len(scans') = Len(scans) /\ ScansOK'
        /\ \A i \in 1 .. Len(scans) : scans'[i].spec.dir = scans[i].spec.dir /\ scans'[i].pass = scans[i].pass
    BY <1>1, <1>3, <1>7, ShowKeepsDirs
  <2>2. scans' # << >> /\ scans'[1].spec.dir = scans[1].spec.dir
    BY <1>4, <2>1
  <2>3. HandInTop'
    BY <1>6, <2>2 DEF HandInTop
  <2> QED BY <1>1, <1>4, <1>5, <2>1, <2>3, SearchStays DEF ScanDirsThere
<1>8. ASSUME NEW pass \in {"files", "all"}, pass = "all" <=> command.verb = "DELETE",
             Append(Top.spec.dir, n) \in dirs, at' = "next",
             scans' = <<Scan(Top.spec, Append(Top.spec.dir, n), pass), Show(n)>> \o Tail(scans)
      PROVE  CommandInv'
  <2> DEFINE k == Len(scans)
             dir(i) == scans[i].spec.dir
             dirp(i) == scans'[i].spec.dir
             passp(i) == scans'[i].pass
  <2>1. /\ Len(scans') = k + 1
        /\ dirp(1) = Append(Top.spec.dir, n) /\ passp(1) = pass
        /\ \A i \in 1 .. k : dirp(i + 1) = dir(i) /\ passp(i + 1) = scans[i].pass
    BY <1>1, <1>3, <1>8, EnterKeepsDirs DEF Top
  <2>2. /\ PassesOK' <=> \A i \in 1 .. Len(scans') : passp(i) = "all" <=> command.verb = "DELETE"
        /\ ScanDirsThere' <=> (command.verb = "DELETE" => \A i \in 1 .. Len(scans') - 1 : dirp(i) \in dirs)
    BY <1>1 DEF PassesOK, ScanDirsThere
  <2>3. /\ \A i \in 1 .. k : scans[i].pass = "all" <=> command.verb = "DELETE"
        /\ command.verb = "DELETE" => \A i \in 1 .. k - 1 : dir(i) \in dirs
    BY <1>4 DEF PassesOK, ScanDirsThere
  <2> HIDE DEF k, dir, dirp, passp
  <2>4. k \in Nat \ {0}
    BY <1>4 DEF k
  <2>5. ASSUME NEW i \in 1 .. k + 1 PROVE passp(i) = "all" <=> command.verb = "DELETE"
    <3>1. CASE i = 1
      BY <1>8, <2>1, <3>1
    <3>2. CASE i # 1
      <4>1. i - 1 \in 1 .. k /\ i - 1 + 1 = i
        BY <2>4, <3>2
      <4> QED BY <2>1, <2>3, <4>1
    <3> QED BY <3>1, <3>2
  <2>6. ASSUME command.verb = "DELETE", NEW i \in 1 .. k PROVE dirp(i) \in dirs
    <3>1. CASE i = 1
      BY <1>8, <2>1, <3>1
    <3>2. CASE i # 1
      <4>1. i - 1 \in 1 .. k - 1 /\ i - 1 \in 1 .. k /\ i - 1 + 1 = i
        BY <2>4, <3>2
      <4> QED BY <2>1, <2>3, <2>6, <4>1
    <3> QED BY <3>1, <3>2
  <2>7. Len(scans') = k + 1 /\ Len(scans') - 1 = k
    BY <2>1, <2>4
  <2>8. PassesOK' /\ ScanDirsThere'
    <3>1. PassesOK'
      BY <2>2, <2>5, <2>7
    <3>2. ScanDirsThere'
      BY <2>2, <2>6, <2>7
    <3> QED BY <3>1, <3>2
  <2>9. HandInTop' /\ ToKept'
    BY <1>1, <1>4, <1>5, <1>8 DEF HandInTop, ToKept
  <2> QED BY <1>1, <1>4, <2>8, <2>9 DEF CommandInv
<1>9. \/ scans' = <<Show(n)>> \o Tail(scans)
      \/ \E pass \in {"files", "all"} :
           /\ pass = "all" <=> command.verb = "DELETE"
           /\ Append(Top.spec.dir, n) \in dirs /\ at' = "next"
           /\ scans' = <<Scan(Top.spec, Append(Top.spec.dir, n), pass), Show(n)>> \o Tail(scans)
  BY <1>1, <1>2 DEF dcl_searchdir, dcl_del_searchdir, Enter, NoOffer
<1> QED BY <1>7, <1>8, <1>9

LEMMA EndSearchCommand ==
  ASSUME FileInv, CommandInv, EndSearch
  PROVE  CommandInv'
<1>1. /\ command # NoCommand /\ at = "next" /\ scans # << >> /\ UNCHANGED <<dirs, command, events>>
  BY DEF EndSearch, Searching, Running
<1>2. ScansOK /\ NestOK /\ TreeOK(files, dirs) /\ param \in Params
  BY <1>1 DEF FileInv, CommandOK
<1>3. PassesOK /\ ScanDirsThere /\ ToKept /\ events \in Nat
  BY <1>1 DEF CommandInv
<1>4. /\ Len(scans) \in Nat \ {0} /\ Top.spec \in FileSpec
      /\ Len(Tail(scans)) = Len(scans) - 1
      /\ \A i \in 1 .. Len(scans) - 1 : Tail(scans)[i] = scans[i + 1]
  BY <1>1, <1>2, TopIsScan
<1>5. param'.to = param.to
  <2>1. param' = param \/ param' = [param EXCEPT !.file_nb = TRUE]
    BY DEF EndSearch, Offer, NoOffer
  <2> QED BY <1>2, <2>1 DEF Params
<1>6. CASE scans' = <<Scan(Top.spec, Top.spec.dir, "dirs")>> \o Tail(scans) /\ NoOffer /\ Top.pass = "files"
  <2> DEFINE new == Scan(Top.spec, Top.spec.dir, "dirs")
  <2>1. new \in OpenScan
    BY <1>2, <1>4, NewScan DEF FileSpec
  <2>2. new.spec.dir = scans[1].spec.dir /\ new.pass = "dirs"
    BY <1>4 DEF Scan, FileSpec, Top
  <2> HIDE DEF new
  <2>3. /\ Len(scans') = Len(scans) /\ scans'[1] = new
        /\ \A i \in 2 .. Len(scans) : scans'[i] = scans[i]
    BY <1>1, <1>2, <1>6, <2>1, TopReplaced DEF ScansOK, new
  <2>4. command.verb # "DELETE"
    BY <1>3, <1>4, <1>6 DEF PassesOK, Top
  <2>5. ASSUME NEW i \in 1 .. Len(scans) PROVE scans'[i].pass = "all" <=> command.verb = "DELETE"
    <3>1. CASE i = 1
      BY <2>2, <2>3, <2>4, <3>1
    <3>2. CASE i # 1
      <4>1. i \in 2 .. Len(scans)
        BY <1>4, <3>2
      <4> QED BY <1>3, <2>3, <4>1 DEF PassesOK
    <3> QED BY <3>1, <3>2
  <2>6. PassesOK' /\ ScanDirsThere' /\ HandInTop'
    BY <1>1, <2>3, <2>4, <2>5 DEF PassesOK, ScanDirsThere, HandInTop
  <2> QED BY <1>1, <1>3, <1>5, <2>6 DEF CommandInv, ToKept
<1>7. CASE /\ scans' = Tail(scans)
           /\ IF Top.pass = "all" /\ Len(scans) > 1 /\ Matches(Top.spec, Last(Top.spec.dir))
              THEN Offer(Parent(Top.spec.dir), Last(Top.spec.dir), TRUE)
              ELSE NoOffer
  <2>1. Len(scans') = Len(scans) - 1 /\ \A i \in 1 .. Len(scans) - 1 : scans'[i] = scans[i + 1]
    BY <1>4, <1>7
  <2>2. PassesOK'
    BY <1>1, <1>3, <1>4, <2>1 DEF PassesOK
  <2>3. ScanDirsThere'
    BY <1>1, <1>3, <1>4, <2>1 DEF ScanDirsThere
  <2>4. HandInTop'
    <3> SUFFICES ASSUME at' # "next" PROVE scans' # << >> /\ found'.dir = scans'[1].spec.dir
      BY DEF HandInTop
    <3>1. Len(scans) > 1 /\ found'.dir = Parent(Top.spec.dir)
      <4>1. ~NoOffer
        BY <1>1 DEF NoOffer
      <4>2. Len(scans) > 1 /\ Offer(Parent(Top.spec.dir), Last(Top.spec.dir), TRUE)
        BY <1>7, <4>1
      <4>3. found' = [way |-> Top.spec.way, dir |-> Parent(Top.spec.dir), name |-> Last(Top.spec.dir)]
        BY <1>1, <4>2, OfferFinds
      <4> QED BY <4>2, <4>3
    <3>2. Parent(scans[1].spec.dir) = scans[2].spec.dir
      BY <1>2, <1>4, <3>1 DEF NestOK
    <3>3. scans'[1] = scans[2] /\ Len(scans') # 0
      BY <1>4, <2>1, <3>1
    <3>4. scans' # << >>
      <4>1. scans' \in Seq(OpenScan)
        BY <1>1, <1>2, <1>7, TopIsScan
      <4> QED BY <3>3, <4>1, EmptySeq
    <3> QED BY <3>1, <3>2, <3>3, <3>4 DEF Top
  <2> QED BY <1>1, <1>3, <1>5, <2>2, <2>3, <2>4 DEF CommandInv, ToKept
<1> QED BY <1>6, <1>7 DEF EndSearch

LEMMA TreatCommand ==
  ASSUME FileInv, CommandInv, Treat
  PROVE  CommandInv'
<1>1. PICK verb : Doing(verb)
  BY DEF Treat, DeleteFile, DeleteDir, CopyNothing, CopyUndefined, vms_copy, vms_rename, vms_append,
         dcltype_do_it, vms_print, dclsetf_do_it
<1>2. at = "do" /\ at' = "next" /\ command.verb = verb /\ UNCHANGED <<command, events>>
  BY <1>1 DEF Doing
<1>3. ScansOK /\ NestOK /\ command # NoCommand /\ found \in FoundFile
  BY <1>2 DEF FileInv, HandOK
<1>4. ScanDirsThere /\ HandInTop /\ events \in Nat
  BY <1>3 DEF CommandInv
<1>5. UNCHANGED scans \/ Forget(Path(found))
  BY DEF Treat, DeleteFile, DeleteDir, CopyNothing, CopyUndefined, vms_copy, vms_rename, vms_append,
         dcltype_do_it, vms_print, dclsetf_do_it
<1>6. /\ Len(scans') = Len(scans) /\ Len(scans) \in Nat
      /\ \A i \in 1 .. Len(scans) : scans'[i].spec.dir = scans[i].spec.dir /\ scans'[i].pass = scans[i].pass
  <2>1. CASE UNCHANGED scans
    BY <1>3, <2>1, LenProperties DEF ScansOK
  <2>2. CASE Forget(Path(found))
    BY <1>3, <2>2, ForgetChanges, LenProperties DEF ScansOK
  <2> QED BY <1>5, <2>1, <2>2
<1>7. command.verb = "COPY" => UNCHANGED param
  BY <1>2 DEF Treat, DeleteFile, DeleteDir, CopyNothing, CopyUndefined, vms_copy, vms_rename, vms_append,
         dcltype_do_it, vms_print, dclsetf_do_it, Doing
<1>8. ASSUME command.verb = "DELETE", NEW i \in 1 .. Len(scans) - 1
      PROVE  scans[i].spec.dir \in dirs'
  <2>1. scans[i].spec.dir \in dirs
    BY <1>4, <1>8 DEF ScanDirsThere
  <2>2. dirs' = dirs \/ dirs' = dirs \ {Path(found)}
    BY <1>2, <1>8 DEF Treat, DeleteFile, DeleteDir, CopyNothing, CopyUndefined, vms_copy, vms_rename, vms_append,
                      dcltype_do_it, vms_print, dclsetf_do_it, Doing
  <2>3. Path(found) # scans[i].spec.dir
    <3>1. found.dir = scans[1].spec.dir /\ found.dir \in Seq(Names) /\ found.name \in Names
      BY <1>2, <1>3, <1>4, <1>8 DEF HandInTop, FoundFile
    <3>2. Len(Path(found)) = Len(scans[1].spec.dir) + 1
      BY <3>1, AppendedPath DEF Path
    <3>3. i = 1 \/ Len(scans[i].spec.dir) < Len(scans[1].spec.dir)
      BY <1>3, <1>6 DEF NestOK
    <3>4. scans[1].spec.dir \in Seq(Names) /\ scans[i].spec.dir \in Seq(Names)
      <4>1. scans[i] \in OpenScan
        BY <1>3, <1>6, ElementOfSeq DEF ScansOK
      <4> QED BY <3>1, <4>1 DEF OpenScan, FileSpec
    <3>5. Len(scans[1].spec.dir) \in Nat /\ Len(scans[i].spec.dir) \in Nat
      BY <3>4, LenProperties
    <3>6. Len(scans[i].spec.dir) # Len(Path(found))
      BY <3>2, <3>3, <3>5
    <3> QED BY <3>6
  <2> QED BY <2>1, <2>2, <2>3
<1>9. HandInTop'
  BY <1>2 DEF HandInTop
<1> QED BY <1>2, <1>3, <1>4, <1>6, <1>7, <1>8, <1>9, SearchStays

LEMMA OtherStepsCommand ==
  ASSUME FileInv, CommandInv,
         \/ NextPattern \/ Finish \/ Ask \/ Answer \/ CtrlC \/ Removed \/ DiskFills \/ (\E c \in Commands : Begin(c))
         \/ UNCHANGED vars
  PROVE  CommandInv'
<1>1. ScansOK /\ Len(scans) \in Nat /\ events \in Nat
  BY LenProperties DEF FileInv, ScansOK, CommandInv
<1>2. CASE NextPattern
  <2> DEFINE s == Head(param.rest)
             pass == IF command.verb = "DELETE" THEN "all" ELSE "files"
             new == Scan(s, s.dir, pass)
  <2>1. /\ command # NoCommand /\ at = "next" /\ at' = "next" /\ UNCHANGED <<command, events>>
        /\ param' = [param EXCEPT !.rest = Tail(@)]
        /\ scans' = <<new>>
    BY <1>2 DEF NextPattern, Searching, Running, NextParam
  <2>2. new.pass = pass
    BY DEF Scan
  <2>3. Len(scans') = 1 /\ scans'[1].pass = pass
    BY <2>1, <2>2
  <2> HIDE DEF new
  <2>4. PassesOK' /\ ScanDirsThere'
    BY <2>1, <2>3 DEF PassesOK, ScanDirsThere
  <2>5. HandInTop'
    BY <2>1 DEF HandInTop
  <2>6. ToKept'
    <3>1. param \in Params
      BY <2>1 DEF FileInv, CommandOK
    <3>2. param'.to = param.to
      BY <2>1, <3>1 DEF Params
    <3> QED BY <2>1, <3>2 DEF CommandInv, ToKept
  <2> QED BY <1>1, <2>1, <2>4, <2>5, <2>6 DEF CommandInv
<1>3. CASE Finish
  BY <1>1, <1>3 DEF Finish, CommandInv
<1>4. CASE Ask
  <2>1. at # "next" /\ command # NoCommand /\ UNCHANGED <<dirs, command, param, scans, found, events>>
    BY <1>4 DEF Ask, FileInv, HandOK
  <2> QED BY <1>1, <2>1 DEF CommandInv, PassesOK, ScanDirsThere, HandInTop, ToKept
<1>5. CASE Answer
  <2>1. /\ at # "next" /\ command # NoCommand /\ UNCHANGED <<dirs, command, scans, events>>
        /\ at' # "next" => found' = found
    BY <1>5 DEF Answer, FileInv, HandOK
  <2>2. param'.to = param.to
    <3>1. param \in Params
      BY <2>1 DEF FileInv, CommandOK
    <3>2. PICK word : param' = Answered(Understood(word))
      BY <1>5 DEF Answer
    <3> QED BY <3>1, <3>2 DEF Answered, Params
  <2> QED BY <1>1, <2>1, <2>2 DEF CommandInv, PassesOK, ScanDirsThere, HandInTop, ToKept
<1>6. CASE CtrlC \/ DiskFills
  <2>1. command # NoCommand /\ UNCHANGED <<dirs, command, param, scans, found, at>> /\ events' \in Nat
    BY <1>1, <1>6 DEF CtrlC, DiskFills, Running
  <2> QED BY <2>1 DEF CommandInv, PassesOK, ScanDirsThere, HandInTop, ToKept
<1>7. CASE Removed
  <2>1. PICK p : Forget(p)
    BY <1>7 DEF Removed
  <2>2. command # NoCommand /\ UNCHANGED <<dirs, command, param, found, at>> /\ events' \in Nat
    BY <1>1, <1>7 DEF Removed, Running
  <2>3. /\ ScansOK' /\ Len(scans') = Len(scans)
        /\ \A i \in 1 .. Len(scans) : scans'[i].spec.dir = scans[i].spec.dir /\ scans'[i].pass = scans[i].pass
    BY <1>1, <2>1, ForgetChanges
  <2>4. HandInTop'
    <3> SUFFICES ASSUME command.verb = "DELETE", at # "next" PROVE scans' # << >> /\ found.dir = scans'[1].spec.dir
      BY <2>2 DEF HandInTop
    <3>1. scans # << >> /\ found.dir = scans[1].spec.dir
      BY <2>2 DEF CommandInv, HandInTop
    <3>2. Len(scans) \in Nat \ {0}
      BY <1>1, <3>1, EmptySeq DEF ScansOK
    <3>3. scans' # << >>
      BY <2>3, <3>2
    <3> QED BY <2>3, <3>1, <3>2, <3>3
  <2> QED BY <1>1, <2>2, <2>3, <2>4, SearchStays DEF CommandInv, ScanDirsThere
<1>8. ASSUME NEW c \in Commands, Begin(c) PROVE CommandInv'
  <2>1. command = NoCommand /\ command' = c /\ param' = FirstParam(c) /\ UNCHANGED <<scans, at, events>>
    BY <1>8 DEF Begin
  <2>2. at = "next" /\ scans = << >>
    BY <2>1, CommandsAssumption, RecordsAreSomething DEF FileInv, CommandOK
  <2>3. Len(scans') = 0
    BY <2>1, <2>2
  <2>4. PassesOK' /\ ScanDirsThere' /\ HandInTop'
    BY <2>1, <2>2, <2>3 DEF PassesOK, ScanDirsThere, HandInTop
  <2>5. ToKept'
    BY <2>1 DEF ToKept, FirstParam
  <2> QED BY <1>1, <2>1, <2>4, <2>5 DEF CommandInv
<1>9. CASE UNCHANGED vars
  BY <1>9 DEF vars, CommandInv, PassesOK, ScanDirsThere, HandInTop, ToKept
<1> QED BY <1>2, <1>3, <1>4, <1>5, <1>6, <1>7, <1>8, <1>9

LEMMA CommandSteps ==
  ASSUME FileInv, CommandInv, [Next]_vars
  PROVE  CommandInv'
BY NextFileCommand, EndSearchCommand, TreatCommand, OtherStepsCommand DEF Next, Search, User

LEMMA CommandInvAlways == Spec => [](FileInv /\ CommandInv)
<1>1. Init => CommandInv
  <2>1. Init => command = NoCommand /\ events = 0
    BY Zenon DEF Init
  <2>2. 0 \in Nat
    OBVIOUS
  <2> QED BY <2>1, <2>2 DEF CommandInv
<1>2. FileInv /\ CommandInv /\ [Next]_vars => CommandInv'
  BY CommandSteps
<1> QED BY <1>1, <1>2, FileInit, FileSteps, PTL DEF Spec

(***************************************************************************)
(* After CTRL/C no command comes to another file, but DELETE/SUBDIR to the *)
(* directories it is in: the searches that go on are those for directories *)
(* (find.c), and those list no file.                                       *)
(***************************************************************************)
THEOREM BreakAlwaysStops == Spec => BreakStops
<1>1. ASSUME FileInv, CommandInv, [Next]_vars, HARDERR, at = "next", at' # "next"
      PROVE  command.verb = "DELETE" /\ Path(found)' \in dirs
  <2>1. NextFile \/ EndSearch
    BY <1>1 DEF Next, Search, User, NextPattern, Finish, Ask, Answer, CtrlC, Removed, DiskFills, Begin, vars,
                Treat, DeleteFile, DeleteDir, CopyNothing, CopyUndefined, vms_copy, vms_rename, vms_append,
                dcltype_do_it, vms_print, dclsetf_do_it, Doing
  <2>2. command # NoCommand /\ scans # << >> /\ ScansOK /\ NestOK
    BY <1>1, <2>1 DEF NextFile, EndSearch, Searching, Running, FileInv
  <2>3. Len(scans) \in Nat \ {0} /\ Top.spec.dir \in Seq(Names)
    BY <2>2, TopIsScan
  <2>4. Top.pass = "all" <=> command.verb = "DELETE"
    BY <1>1, <2>2, <2>3 DEF CommandInv, PassesOK, Top
  <2>5. ~NoOffer
    BY <1>1 DEF NoOffer
  <2>6. CASE NextFile
    <3>1. Top.pass = "dirs"
      BY <1>1, <2>6 DEF NextFile, Stopped
    <3>2. command.verb # "DELETE"
      BY <2>4, <3>1
    <3>3. PICK n : dcl_searchdir(n, Append(Top.spec.dir, n) \in dirs)
      BY <2>6, <3>2 DEF NextFile
    <3>4. NoOffer
      BY <3>1, <3>3 DEF dcl_searchdir, Enter
    <3> QED BY <2>5, <3>4
  <2>7. CASE EndSearch
    <3>1. Top.pass = "all" /\ Len(scans) > 1 /\ Offer(Parent(Top.spec.dir), Last(Top.spec.dir), TRUE)
      BY <2>5, <2>7 DEF EndSearch
    <3>2. found' = [way |-> Top.spec.way, dir |-> Parent(Top.spec.dir), name |-> Last(Top.spec.dir)]
      BY <1>1, <3>1, OfferFinds
    <3>3. Top.spec.dir # << >> /\ Top.spec.dir \in dirs
      BY <1>1, <2>2, <2>3, <2>4, <3>1 DEF NestOK, CommandInv, ScanDirsThere, Top
    <3>4. Path(found)' = Append(Parent(Top.spec.dir), Last(Top.spec.dir))
      BY <3>2 DEF Path
    <3> QED BY <2>3, <2>4, <3>1, <3>3, <3>4, PathIsParentAndLast
  <2> QED BY <2>1, <2>6, <2>7
<1>2. FileInv /\ CommandInv /\ [Next]_vars =>
        [HARDERR /\ HARDERR' /\ at = "next" /\ at' # "next" => command.verb = "DELETE" /\ Path(found)' \in dirs]_vars
  BY <1>1
<1> QED BY <1>2, CommandInvAlways, PTL DEF Spec, BreakStops

LEMMA BeginsItself ==
  ASSUME NEW S, NEW s \in Seq(S)
  PROVE  Begins(s, s) /\ \A t \in Seq(S) : Begins(s, s \o t)
<1>1. Len(s) \in Nat /\ \A i \in 1 .. Len(s) : s[i] \in S
  BY LenProperties, ElementOfSeq
<1>2. ASSUME NEW u \in Seq(S), Len(s) <= Len(u), \A i \in 1 .. Len(s) : u[i] = s[i]
      PROVE  Begins(s, u)
  <2> DEFINE m == Len(s)
  <2>1. m \in Nat /\ 1 \in Int /\ m \in Int /\ \A i \in 1 .. m : u[i] \in S
    BY <1>1, <1>2
  <2>2. SubSeq(s, 1, m) = s
    OBVIOUS
  <2> HIDE DEF m
  <2>3. /\ SubSeq(u, 1, m) \in Seq(S)
        /\ Len(SubSeq(u, 1, m)) = IF 1 <= m THEN m - 1 + 1 ELSE 0
        /\ \A i \in 1 .. m - 1 + 1 : SubSeq(u, 1, m)[i] = u[1 + i - 1]
    BY <2>1, SubSeqProperties
  <2>4. Len(SubSeq(u, 1, m)) = m
    BY <2>1, <2>3
  <2>5. \A i \in 1 .. m : SubSeq(u, 1, m)[i] = u[i]
    <3> SUFFICES ASSUME NEW i \in 1 .. m PROVE SubSeq(u, 1, m)[i] = u[i]
      OBVIOUS
    <3>1. m - 1 + 1 = m /\ 1 + i - 1 = i
      BY <2>1
    <3> QED BY <2>3, <3>1
  <2>6. SubSeq(u, 1, m) = s
    BY <1>2, <2>3, <2>4, <2>5, SeqEqual DEF m
  <2> QED BY <1>2, <2>6 DEF Begins, m
<1>3. Begins(s, s)
  BY <1>1, <1>2
<1>4. ASSUME NEW t \in Seq(S) PROVE Begins(s, s \o t)
  <2>1. /\ s \o t \in Seq(S) /\ Len(s \o t) = Len(s) + Len(t) /\ Len(t) \in Nat
        /\ \A i \in 1 .. Len(s) + Len(t) : (s \o t)[i] = IF i <= Len(s) THEN s[i] ELSE t[i - Len(s)]
    BY ConcatProperties, LenProperties
  <2>2. Len(s) <= Len(s \o t) /\ \A i \in 1 .. Len(s) : (s \o t)[i] = s[i]
    BY <1>1, <2>1
  <2> QED BY <1>2, <2>1, <2>2
<1> QED BY <1>3, <1>4

(***************************************************************************)
(* What COPY and APPEND read is not lost, even when a file is copied or    *)
(* appended to itself: filecopy.c's test for the same file suffices when   *)
(* the two paths are written in the same way, because the second parameter *)
(* keeps its way, and each file found has that of its pattern.             *)
(***************************************************************************)
THEOREM SourceAlwaysKept == Spec => SourceKept
<1>1. ASSUME FileInv, CommandInv, Next, NEW p \in DOMAIN files, at = "do", p = Path(found), events' = events,
             command.verb = "APPEND" \/ (command.verb = "COPY" /\ found.way = command.to.way)
      PROVE  Begins(files[p].data, Data(p)')
  <2>1. TreeOK(files, dirs) /\ found \in FoundFile /\ command # NoCommand /\ param \in Params /\ events \in Nat
    BY <1>1 DEF FileInv, HandOK, CommandOK, CommandInv
  <2> DEFINE S == Pieces \cup {Erased}
  <2>2. files[p].data \in Seq(S)
    BY <2>1 DEF TreeOK, File
  <2>3. Begins(files[p].data, files[p].data) /\ \A t \in Seq(S) : Begins(files[p].data, files[p].data \o t)
    BY <2>2, BeginsItself
  <2> HIDE DEF S
  <2>4. Treat
    <3>1. events + 1 # events
      BY <2>1
    <3> QED BY <1>1, <2>1, <3>1 DEF Next, Search, User, NextPattern, NextFile, EndSearch, Finish, SearchDone, Searching,
                                Ask, Answer, CtrlC, Removed, DiskFills, Begin
  <2>5. CASE command.verb = "APPEND"
    <3>1. vms_append
      BY <2>4, <2>5 DEF Treat, DeleteFile, DeleteDir, CopyNothing, CopyUndefined, vms_copy, vms_rename, vms_append,
                        dcltype_do_it, vms_print, dclsetf_do_it, Doing
    <3> DEFINE dst == Append(AppendTarget.dir, <<AppendTarget.file, AppendTarget.type>>)
               src == Data(p)
    <3>2. \/ UNCHANGED files
          \/ \E n \in 0 .. Len(src) : files' = Written(dst, Data(dst) \o SubSeq(src, 1, n))
      BY <1>1, <3>1 DEF vms_append
    <3>3. src \in Seq(S) /\ src = files[p].data
      BY <2>1, DataIsPieces DEF S, Data
    <3> HIDE DEF dst, src
    <3>4. CASE UNCHANGED files
      BY <2>3, <3>4 DEF Data
    <3>5. ASSUME NEW n \in 0 .. Len(src), files' = Written(dst, Data(dst) \o SubSeq(src, 1, n))
          PROVE  Begins(files[p].data, Data(p)')
      <4>1. CASE p = dst
        <5>1. Data(p)' = files[p].data \o SubSeq(src, 1, n)
          BY <3>5, <4>1 DEF Written, With, Data
        <5>2. SubSeq(src, 1, n) \in Seq(S)
          BY <3>3, FirstPieces
        <5> QED BY <2>3, <5>1, <5>2
      <4>2. CASE p # dst
        <5>1. Data(p)' = files[p].data
          BY <3>5, <4>2 DEF Written, With, Data
        <5> QED BY <2>3, <5>1
      <4> QED BY <4>1, <4>2
    <3> QED BY <3>2, <3>4, <3>5
  <2>6. CASE command.verb = "COPY" /\ found.way = command.to.way
    <3>1. CopyNothing \/ CopyUndefined \/ vms_copy
      BY <2>4, <2>6 DEF Treat, DeleteFile, DeleteDir, CopyNothing, CopyUndefined, vms_copy, vms_rename, vms_append,
                        dcltype_do_it, vms_print, dclsetf_do_it, Doing
    <3>2. CASE UNCHANGED files
      BY <2>3, <3>2 DEF Data
    <3>3. CASE filecopy /\ ~(SUBDIR /\ Components = << >>)
      <4>1. CopyTarget \in FoundFile /\ CopyTarget.way = Target.way
        BY <1>1, <3>3, CopyTargetIsFile
      <4>2. Target.way = found.way
        <5>1. param.to = command.to /\ param.to \in FileSpec
          BY <1>1, <2>1, <2>6 DEF CommandInv, ToKept, Params
        <5>2. Into(param.to).way = param.to.way
          BY <5>1 DEF Into, FileSpec
        <5> QED BY <2>6, <5>1, <5>2 DEF Target
      <4>3. p # Path(CopyTarget)
        <5> SUFFICES ASSUME p = Path(CopyTarget) PROVE FALSE
          OBVIOUS
        <5>1. CopyTarget.dir = found.dir /\ CopyTarget.name = found.name
          BY <1>1, <2>1, <4>1, FilePath
        <5>2. CopyTarget = found
          BY <2>1, <4>1, <4>2, <5>1 DEF FoundFile
        <5> QED BY <3>3, <5>2 DEF filecopy, Conflict
      <4>4. PICK data : files' = Written(Path(CopyTarget), data)
        BY <3>3 DEF filecopy
      <4>5. Data(p)' = files[p].data
        BY <4>3, <4>4 DEF Written, With, Data
      <4> QED BY <2>3, <4>5
    <3> QED BY <3>1, <3>2, <3>3 DEF CopyNothing, CopyUndefined, vms_copy
  <2> QED BY <1>1, <2>5, <2>6
<1>2. FileInv /\ CommandInv /\ [Next]_vars =>
        [\A p \in DOMAIN files :
           /\ at = "do" /\ p = Path(found) /\ events' = events
           /\ command.verb = "APPEND" \/ (command.verb = "COPY" /\ found.way = command.to.way)
           => Begins(files[p].data, Data(p)')]_vars
  BY <1>1
<1> QED BY <1>2, CommandInvAlways, PTL DEF Spec, SourceKept

(***************************************************************************)
(* Which directories a path goes through.                                  *)
(***************************************************************************)
Leads(d, p) == Len(d) < Len(p) /\ \A i \in 1 .. Len(d) : p[i] = d[i]

LEMMA LeastOf ==
  ASSUME NEW T, T \subseteq Nat, T # {}
  PROVE  \E m \in T : \A n \in T : m <= n
<1> DEFINE R == OpToRel(<, Nat)
<1>1. IsWellFoundedOn(R, Nat)
  BY NatLessThanWellFounded
<1>2. \E m \in T : \A n \in T : <<n, m>> \notin R
  BY <1>1, WFMin
<1>3. \A m, n \in Nat : <<n, m>> \in R <=> n < m
  BY DEF OpToRel
<1> HIDE DEF R
<1>4. \E m \in T : \A n \in T : ~(n < m)
  BY <1>2, <1>3
<1> QED BY <1>4

LEMMA BeginningOf ==
  ASSUME NEW S, NEW p \in Seq(S), NEW k \in 0 .. Len(p)
  PROVE  LET q == SubSeq(p, 1, k)
         IN  /\ q \in Seq(S) /\ Len(q) = k /\ \A i \in 1 .. k : q[i] = p[i]
             /\ k # 0 => q # << >> /\ Parent(q) = SubSeq(p, 1, k - 1) /\ Last(q) = p[k]
<1>1. Len(p) \in Nat /\ \A i \in 1 .. Len(p) : p[i] \in S
  BY LenProperties, ElementOfSeq
<1>2. ASSUME NEW m \in 0 .. Len(p)
      PROVE  SubSeq(p, 1, m) \in Seq(S) /\ Len(SubSeq(p, 1, m)) = m /\ \A i \in 1 .. m : SubSeq(p, 1, m)[i] = p[i]
  <2>1. m \in Nat /\ m \in Int /\ 1 \in Int /\ \A i \in 1 .. m : p[i] \in S
    BY <1>1
  <2>2. /\ SubSeq(p, 1, m) \in Seq(S)
        /\ Len(SubSeq(p, 1, m)) = IF 1 <= m THEN m - 1 + 1 ELSE 0
        /\ \A i \in 1 .. m - 1 + 1 : SubSeq(p, 1, m)[i] = p[1 + i - 1]
    BY <2>1, SubSeqProperties
  <2>3. Len(SubSeq(p, 1, m)) = m
    BY <2>1, <2>2
  <2>4. ASSUME NEW i \in 1 .. m PROVE SubSeq(p, 1, m)[i] = p[i]
    <3>1. m - 1 + 1 = m /\ 1 + i - 1 = i
      BY <2>1
    <3> QED BY <2>2, <3>1
  <2> QED BY <2>2, <2>3, <2>4
<1> DEFINE q == SubSeq(p, 1, k)
           r == SubSeq(p, 1, k - 1)
<1>3. q \in Seq(S) /\ Len(q) = k /\ \A i \in 1 .. k : q[i] = p[i]
  BY <1>2
<1>4. ASSUME k # 0 PROVE q # << >> /\ Parent(q) = r /\ Last(q) = p[k]
  <2>1. k - 1 \in 0 .. Len(p) /\ k \in 1 .. k /\ k \in Nat
    BY <1>1, <1>4
  <2>2. r \in Seq(S) /\ Len(r) = k - 1 /\ \A i \in 1 .. k - 1 : r[i] = p[i]
    BY <1>2, <2>1
  <2> HIDE DEF q, r
  <2>3. q # << >>
    BY <1>3, <1>4, EmptySeq
  <2>4. Last(q) = p[k]
    BY <1>3, <2>1 DEF Last
  <2>5. Parent(q) \in Seq(S) /\ Len(Parent(q)) = k - 1 /\ \A i \in 1 .. k - 1 : Parent(q)[i] = q[i]
    BY <1>3, <2>3, ParentAndLast
  <2>6. \A i \in 1 .. k - 1 : Parent(q)[i] = r[i]
    BY <1>3, <2>1, <2>2, <2>5
  <2>7. Parent(q) = r
    BY <2>2, <2>5, <2>6, SeqEqual
  <2> QED BY <2>3, <2>4, <2>7
<1> QED BY <1>3, <1>4

\* Every beginning of a path is a directory.
LEMMA BeginningsAreDirs ==
  ASSUME TreeOK(files, dirs), NEW p \in dirs \cup DOMAIN files, NEW k \in 0 .. Len(p) - 1
  PROVE  SubSeq(p, 1, k) \in dirs
<1> DEFINE n == Len(p)
           q(j) == SubSeq(p, 1, j)
           T == {j \in 0 .. n - 1 : q(n - 1 - j) \notin dirs}
<1>1. p \in Seq(Names) /\ n \in Nat /\ p # << >>
  <2>1. p \in Seq(Names)
    BY DEF TreeOK
  <2>2. n \in Nat /\ (p = << >> => n = 0)
    BY <2>1, EmptySeq
  <2> QED BY <2>1, <2>2
<1>2. \A r \in (dirs \cup DOMAIN files) \ {<< >>} : Parent(r) \in dirs
  BY DEF TreeOK
<1>3. q(n - 1) \in dirs
  BY <1>1, <1>2 DEF Parent
<1>4. ASSUME NEW j \in 1 .. n, q(j) \in dirs PROVE q(j - 1) \in dirs
  <2>1. j \in 0 .. n /\ j # 0
    BY <1>1
  <2>2. q(j) # << >> /\ Parent(q(j)) = q(j - 1)
    BY <1>1, <2>1, BeginningOf
  <2> QED BY <1>2, <1>4, <2>2
<1>5. T = {}
  <2> SUFFICES ASSUME T # {} PROVE FALSE
    OBVIOUS
  <2>1. T \subseteq Nat
    BY <1>1
  <2>2. PICK m \in T : \A j \in T : m <= j
    BY <2>1, LeastOf
  <2>3. m \in 0 .. n - 1 /\ q(n - 1 - m) \notin dirs
    BY <2>2
  <2> HIDE DEF q
  <2>4. m # 0
    <3>1. n - 1 - 0 = n - 1
      BY <1>1
    <3> QED BY <1>3, <2>3, <3>1
  <2>5. m - 1 \in 0 .. n - 1 /\ n - 1 - (m - 1) = n - m /\ n - m \in 1 .. n /\ n - m - 1 = n - 1 - m /\ ~(m <= m - 1)
    BY <1>1, <2>3, <2>4
  <2>6. q(n - m) \in dirs
    BY <2>2, <2>5
  <2>7. q(n - m - 1) \in dirs
    BY <1>4, <2>5, <2>6
  <2> QED BY <2>3, <2>5, <2>7
<1>6. n - 1 - k \in 0 .. n - 1 /\ n - 1 - (n - 1 - k) = k
  BY <1>1
<1> HIDE DEF q, n
<1>7. q(k) \in dirs
  BY <1>5, <1>6
<1> QED BY <1>7 DEF q

\* The next directory on the way to a file, or the file itself.
LEMMA NextOnTheWay ==
  ASSUME TreeOK(files, dirs), NEW p \in DOMAIN files, NEW d \in Seq(Names), Leads(d, p)
  PROVE  LET n == p[Len(d) + 1]
         IN  /\ n \in Names /\ n \in Entries(d)
             /\ Len(p) = Len(d) + 1 => Append(d, n) = p /\ Parent(p) = d /\ Last(p) = n /\ p \notin dirs
             /\ Len(p) # Len(d) + 1 => Append(d, n) \in dirs /\ Leads(Append(d, n), p)
<1> DEFINE k == Len(d) + 1
           n == p[k]
           q == SubSeq(p, 1, k)
<1>1. p \in Seq(Names) /\ Len(p) \in Nat /\ Len(d) \in Nat /\ p \notin dirs
  BY LenProperties DEF TreeOK
<1>2. k \in 1 .. Len(p) /\ k \in 0 .. Len(p) /\ k - 1 = Len(d) /\ k # 0
  BY <1>1 DEF Leads
<1>3. n \in Names
  BY <1>1, <1>2, ElementOfSeq
<1>4. /\ q \in Seq(Names) /\ Len(q) = k /\ \A i \in 1 .. k : q[i] = p[i]
      /\ q # << >> /\ Parent(q) = SubSeq(p, 1, k - 1) /\ Last(q) = n
  BY <1>1, <1>2, BeginningOf
<1>5. SubSeq(p, 1, k - 1) = d
  <2>1. k - 1 \in 0 .. Len(p)
    BY <1>1, <1>2
  <2>2. /\ SubSeq(p, 1, k - 1) \in Seq(Names) /\ Len(SubSeq(p, 1, k - 1)) = k - 1
        /\ \A i \in 1 .. k - 1 : SubSeq(p, 1, k - 1)[i] = p[i]
    BY <1>1, <2>1, BeginningOf
  <2> QED BY <1>2, <2>2, SeqEqual DEF Leads
<1>6. q = Append(d, n)
  BY <1>4, <1>5, PathIsParentAndLast
<1>7. CASE Len(p) = k
  <2>1. q = p
    BY <1>1, <1>4, <1>7, SeqEqual
  <2>2. Parent(p) = d /\ Last(p) = n
    BY <1>4, <1>5, <2>1
  <2>3. p # << >>
    BY <1>4, <2>1
  <2>4. n \in Entries(d)
    BY <2>2, <2>3 DEF Entries
  <2> QED BY <1>1, <1>3, <1>6, <1>7, <2>1, <2>2, <2>4
<1>8. CASE Len(p) # k
  <2>1. k \in 0 .. Len(p) - 1
    BY <1>1, <1>2, <1>8
  <2>2. q \in dirs
    BY <2>1, BeginningsAreDirs
  <2>3. n \in Entries(d)
    BY <1>4, <1>5, <2>2 DEF Entries
  <2>4. Leads(q, p)
    BY <1>4, <2>1 DEF Leads
  <2> QED BY <1>3, <1>6, <1>8, <2>2, <2>3, <2>4
<1> QED BY <1>7, <1>8

(***************************************************************************)
(* NothingMissed.  A file that the command has still to come to is in      *)
(* hand, is reached by a pattern that it has not begun, or is covered by   *)
(* an open search: by the entry of its directory that leads to the file,   *)
(* which the operating system has still to show.                           *)
(***************************************************************************)
Dots(p, k) == \A i \in k .. Len(p) - 1 : p[i] \in Dotted
CoveredBy(p, sc) ==
  LET k == Len(sc.spec.dir) + 1
      waits == p[k] \in sc.due \ sc.shown
  IN  /\ Leads(sc.spec.dir, p)
      /\ Matches(sc.spec, Last(p))
      /\ \/ sc.pass = "files" /\ Len(p) = k /\ waits
         \/ sc.pass = "files" /\ Len(p) # k /\ Has("SUBDIR") /\ Dots(p, k)
         \/ sc.pass = "dirs" /\ Len(p) # k /\ Has("SUBDIR") /\ Dots(p, k) /\ waits
         \/ sc.pass = "all" /\ (Len(p) = k \/ Has("SUBDIR")) /\ waits
Covered(p) ==
  \/ at # "next" /\ p = Path(found)
  \/ \E i \in DOMAIN param.rest : Reaches(param.rest[i], p)
  \/ \E i \in 1 .. Len(scans) : CoveredBy(p, scans[i])

\* QUIT, CTRL/C and PRINT that cannot read its /SETUP file end a command early.
Ended == HARDERR \/ ~(param.confirm \/ param.ok)
KeyEnds == CTRL_Y => Ended
AskedOnly == at \in {"ask", "answer"} => param.confirm
\* A file that is written has the date 2, and RENAME takes the date along.
PendingSelected == \A p \in pending : Selected(p) \/ (Date(p) = 2 /\ command.verb # "RENAME")
RenamedSelected ==
  command.verb = "RENAME" /\ at # "next" /\ Path(found) \in DOMAIN files => Selected(Path(found))
AllCovered == Ended \/ \A p \in pending : Selected(p) => Covered(p)

MissInv ==
  command # NoCommand =>
    pending \subseteq DOMAIN files /\ KeyEnds /\ AskedOnly /\ PendingSelected /\ RenamedSelected /\ AllCovered

LEMMA ReachedIsLed ==
  ASSUME NEW p \in Seq(Names), p # << >>, NEW s \in FileSpec, Reaches(s, p)
  PROVE  LET k == Len(s.dir) + 1
         IN  /\ Leads(s.dir, p) /\ Matches(s, Last(p))
             /\ Len(p) = k \/ (Has("SUBDIR") /\ (command.verb = "DELETE" \/ Dots(p, k)))
<1>1. p \in Seq(Names) /\ s.dir \in Seq(Names) /\ Matches(s, Last(p)) /\ p # << >>
  BY DEF FileSpec, Reaches
<1>2. /\ Len(p) \in Nat \ {0} /\ Parent(p) \in Seq(Names) /\ Len(Parent(p)) = Len(p) - 1
      /\ \A i \in 1 .. Len(p) - 1 : Parent(p)[i] = p[i]
  BY <1>1, ParentAndLast
<1>3. Len(s.dir) \in Nat
  BY <1>1, LenProperties
<1>4. CASE Parent(p) = s.dir
  <2>1. Leads(s.dir, p) /\ Len(p) = Len(s.dir) + 1
    BY <1>2, <1>3, <1>4 DEF Leads
  <2> QED BY <1>1, <2>1
<1>5. CASE Has("SUBDIR") /\ Below(Parent(p), s.dir)
           /\ (command.verb = "DELETE" \/ \A i \in Len(s.dir) + 1 .. Len(p) - 1 : p[i] \in Dotted)
  <2>1. Len(s.dir) <= Len(Parent(p)) /\ SubSeq(Parent(p), 1, Len(s.dir)) = s.dir
    BY <1>5 DEF Below, Begins
  <2>2. Len(s.dir) \in 0 .. Len(Parent(p))
    BY <1>2, <1>3, <2>1
  <2>3. \A i \in 1 .. Len(s.dir) : SubSeq(Parent(p), 1, Len(s.dir))[i] = Parent(p)[i]
    BY <1>2, <2>2, BeginningOf
  <2>4. \A i \in 1 .. Len(s.dir) : p[i] = s.dir[i]
    BY <1>2, <1>3, <2>1, <2>2, <2>3
  <2>5. Leads(s.dir, p)
    BY <1>2, <1>3, <2>1, <2>4 DEF Leads
  <2> QED BY <1>1, <1>5, <2>5 DEF Dots
<1> QED BY <1>4, <1>5 DEF Reaches

\* A search that begins covers all that is before it.
LEMMA NewScanCovers ==
  ASSUME TreeOK(files, dirs), NEW p \in DOMAIN files, NEW s \in FileSpec, NEW d \in Seq(Names),
         NEW pass \in {"files", "dirs", "all"}, Leads(d, p), Matches(s, Last(p)),
         \/ pass = "files" /\ (Len(p) = Len(d) + 1 \/ (Has("SUBDIR") /\ Dots(p, Len(d) + 1)))
         \/ pass = "dirs" /\ Len(p) # Len(d) + 1 /\ Has("SUBDIR") /\ Dots(p, Len(d) + 1)
         \/ pass = "all" /\ (Len(p) = Len(d) + 1 \/ Has("SUBDIR"))
  PROVE  CoveredBy(p, Scan(s, d, pass))
<1> DEFINE sc == Scan(s, d, pass)
<1>1. /\ sc.pass = pass /\ sc.shown = {} /\ sc.due = Entries(d)
      /\ sc.spec.dir = d /\ sc.spec.file = s.file /\ sc.spec.type = s.type
  BY DEF Scan, FileSpec
<1>2. p[Len(d) + 1] \in Entries(d)
  BY NextOnTheWay
<1> HIDE DEF sc
<1>3. Matches(sc.spec, Last(p))
  BY <1>1 DEF Matches
<1>4. CoveredBy(p, sc)
  BY <1>1, <1>2, <1>3 DEF CoveredBy
<1> QED BY <1>4 DEF sc

\* Showing an entry uncovers what lies on its way only.
LEMMA ShownCovers ==
  ASSUME ScansOK, scans # << >>, NEW n \in Names, NEW p, CoveredBy(p, Top),
         \/ p[Len(Top.spec.dir) + 1] # n
         \/ Top.pass = "files" /\ Len(p) # Len(Top.spec.dir) + 1
  PROVE  CoveredBy(p, Show(n))
<1>1. /\ Show(n).spec = Top.spec /\ Show(n).pass = Top.pass
      /\ Show(n).due = Top.due /\ Show(n).shown = Top.shown \cup {n}
  BY ShownTop
<1> HIDE DEF Top
<1> QED BY <1>1 DEF CoveredBy

LEMMA CoverageMoves ==
  ASSUME NEW p, NEW sc, NEW j \in 1 .. Len(scans'), UNCHANGED command, scans'[j] = sc, CoveredBy(p, sc)
  PROVE  Covered(p)'
<1>1. CoveredBy(p, scans[j])'
  BY DEF CoveredBy, Matches, Has
<1> QED BY <1>1 DEF Covered

LEMMA ReachStays ==
  ASSUME NEW p, UNCHANGED command, param'.rest = param.rest,
         \E i \in DOMAIN param.rest : Reaches(param.rest[i], p)
  PROVE  Covered(p)'
<1>1. (\E i \in DOMAIN param.rest : Reaches(param.rest[i], p))'
  BY DEF Reaches, Matches, Has
<1> QED BY <1>1 DEF Covered

\* What Offer does to a command that has not ended.
LEMMA Offered ==
  ASSUME at = "next", NEW dir, NEW n, Offer(dir, n, FALSE), Selected(Append(dir, n)), ~Ended
  PROVE  at' # "next" /\ found' = [way |-> Top.spec.way, dir |-> dir, name |-> n]
<1>1. /\ at' = IF param.confirm THEN "ask" ELSE IF param.ok THEN "do" ELSE "next"
      /\ found' = IF at' = "next" THEN Nothing ELSE [way |-> Top.spec.way, dir |-> dir, name |-> n]
  BY DEF Offer
<1>2. at' # "next"
  BY <1>1 DEF Ended
<1> QED BY <1>1, <1>2

LEMMA SearchKeepsFlags ==
  ASSUME FileInv, command # NoCommand, at = "next", NEW dir, NEW n, NEW isdir, Offer(dir, n, isdir) \/ NoOffer
  PROVE  /\ param'.confirm = param.confirm /\ param'.ok = param.ok /\ param'.rest = param.rest
         /\ at' \in {"next", "ask", "do"} /\ (at' = "ask" => param.confirm)
<1>1. param \in Params
  BY DEF FileInv, CommandOK
<1>2. CASE NoOffer
  BY <1>1, <1>2 DEF NoOffer
<1>3. CASE /\ param' = [param EXCEPT !.file_nb = TRUE]
           /\ at' = IF param.confirm THEN "ask" ELSE IF param.ok THEN "do" ELSE "next"
  BY <1>1, <1>3 DEF Params
<1> QED BY <1>2, <1>3 DEF Offer

\* A file that the innermost search covers is covered still when that shows an entry.
LEMMA TopCovers ==
  ASSUME FileInv, CommandInv, NextFile, NEW n \in Entries(Top.spec.dir),
         Listed(n),
         IF command.verb = "DELETE" THEN dcl_del_searchdir(n, Append(Top.spec.dir, n) \in dirs)
         ELSE dcl_searchdir(n, Append(Top.spec.dir, n) \in dirs),
         NEW p \in DOMAIN files, Selected(p), ~Ended, CoveredBy(p, Top)
  PROVE  Covered(p)'
<1> DEFINE d == Top.spec.dir
           k == Len(d) + 1
           q == Append(d, n)
           isdir == q \in dirs
<1>1. command # NoCommand /\ at = "next" /\ scans # << >> /\ UNCHANGED command
  BY DEF NextFile, Searching, Running
<1>2. TreeOK(files, dirs) /\ ScansOK /\ n \in Names /\ PassesOK
  BY <1>1, EntriesAreNames DEF FileInv, CommandInv
<1>3. Top.spec \in FileSpec /\ d \in Seq(Names) /\ Len(scans) \in Nat \ {0}
  BY <1>1, <1>2, TopIsScan
<1>4. Leads(d, p) /\ Matches(Top.spec, Last(p)) /\ Top.pass \in {"files", "dirs", "all"}
  BY DEF CoveredBy
<1>5. /\ Len(p) = k => Append(d, p[k]) = p /\ Last(p) = p[k] /\ p \notin dirs
      /\ Len(p) # k => Append(d, p[k]) \in dirs /\ Leads(Append(d, p[k]), p)
  BY <1>2, <1>3, <1>4, NextOnTheWay
<1>6. Top.pass = "all" <=> command.verb = "DELETE"
  BY <1>2, <1>3 DEF PassesOK, Top
<1>7. ASSUME scans' = <<Show(n)>> \o Tail(scans), p[k] # n \/ (Top.pass = "files" /\ Len(p) # k)
      PROVE  Covered(p)'
  <2>1. CoveredBy(p, Show(n))
    BY <1>1, <1>2, <1>7, ShownCovers
  <2>2. scans'[1] = Show(n) /\ 1 \in 1 .. Len(scans')
    BY <1>1, <1>2, <1>3, <1>7, ShowTyped
  <2> QED BY <1>1, <2>1, <2>2, CoverageMoves
<1>8. ASSUME p[k] = n, Len(p) = k, Offer(d, n, FALSE) PROVE Covered(p)'
  <2>1. q = p
    BY <1>5, <1>8
  <2>2. at' # "next" /\ found' = [way |-> Top.spec.way, dir |-> d, name |-> n]
    BY <1>1, <1>8, <2>1, Offered
  <2>3. Path(found)' = p
    BY <2>1, <2>2 DEF Path
  <2> QED BY <2>2, <2>3 DEF Covered
<1>9. ASSUME NEW pass \in {"files", "all"}, Top.pass = "dirs" => pass = "files", Top.pass = "all" => pass = "all",
             Top.pass # "files", q \in dirs, scans' = <<Scan(Top.spec, q, pass), Show(n)>> \o Tail(scans)
      PROVE  Covered(p)'
  <2>1. /\ Len(scans') = Len(scans) + 1
        /\ scans'[1] = Scan(Top.spec, q, pass) /\ scans'[2] = Show(n)
    BY <1>1, <1>2, <1>9, EnterTyped
  <2>2. CASE p[k] # n
    <3>1. CoveredBy(p, Show(n))
      BY <1>1, <1>2, <2>2, ShownCovers
    <3>2. 2 \in 1 .. Len(scans')
      BY <1>3, <2>1
    <3> QED BY <1>1, <2>1, <3>1, <3>2, CoverageMoves
  <2>3. CASE p[k] = n
    <3>1. Len(p) # k /\ Leads(q, p)
      BY <1>5, <1>9, <2>3
    <3>2. q \in Seq(Names) /\ Len(q) = k
      BY <1>2, <1>3, AppendedPath
    <3>3. Has("SUBDIR") /\ (Top.pass = "dirs" => Dots(p, k))
      BY <1>9, <3>1 DEF CoveredBy
    <3>4. Top.pass = "dirs" => Dots(p, k + 1)
      <4>1. k \in Int /\ Len(p) \in Int
        BY <1>2, <1>3, LenProperties DEF TreeOK
      <4>2. \A i \in k + 1 .. Len(p) - 1 : i \in k .. Len(p) - 1
        BY <4>1
      <4> QED BY <3>3, <4>2 DEF Dots
    <3>5. \/ pass = "files" /\ Has("SUBDIR") /\ Dots(p, Len(q) + 1)
          \/ pass = "all" /\ Has("SUBDIR")
      <4>1. CASE Top.pass = "dirs"
        BY <1>9, <3>2, <3>3, <3>4, <4>1
      <4>2. CASE Top.pass = "all"
        BY <1>9, <3>3, <4>2
      <4> QED BY <1>4, <1>9, <4>1, <4>2
    <3> HIDE DEF q
    <3>6. CoveredBy(p, Scan(Top.spec, q, pass))
      BY <1>2, <1>3, <1>4, <3>1, <3>2, <3>5, NewScanCovers
    <3>7. 1 \in 1 .. Len(scans')
      BY <1>3, <2>1
    <3> QED BY <1>1, <2>1, <3>6, <3>7, CoverageMoves
  <2> QED BY <2>2, <2>3
<1>10. CASE command.verb = "DELETE"
  <2>1. Top.pass = "all" /\ dcl_del_searchdir(n, isdir) /\ (Len(p) = k \/ Has("SUBDIR"))
    BY <1>6, <1>10 DEF CoveredBy
  <2>2. CASE isdir /\ Has("SUBDIR")
    <3>1. scans' = <<Scan(Top.spec, q, "all"), Show(n)>> \o Tail(scans)
      BY <2>1, <2>2 DEF dcl_del_searchdir, Enter
    <3> QED BY <1>9, <2>1, <2>2, <3>1
  <2>3. CASE ~(isdir /\ Has("SUBDIR"))
    <3>1. scans' = <<Show(n)>> \o Tail(scans)
      BY <2>1, <2>3 DEF dcl_del_searchdir
    <3>2. CASE p[k] # n
      BY <1>7, <3>1, <3>2
    <3>3. CASE p[k] = n
      <4>1. Len(p) = k /\ ~isdir /\ Matches(Top.spec, n)
        BY <1>4, <1>5, <2>1, <2>3, <3>3
      <4>2. Offer(d, n, isdir) /\ isdir = FALSE
        BY <2>1, <2>3, <4>1 DEF dcl_del_searchdir
      <4> QED BY <1>8, <3>3, <4>1, <4>2
    <3> QED BY <3>2, <3>3
  <2> QED BY <2>2, <2>3
<1>11. CASE command.verb # "DELETE"
  <2>1. Top.pass \in {"files", "dirs"} /\ dcl_searchdir(n, isdir)
    BY <1>4, <1>6, <1>11
  <2>2. CASE Top.pass = "dirs" /\ isdir
    <3>1. scans' = <<Scan(Top.spec, q, "files"), Show(n)>> \o Tail(scans)
      BY <2>1, <2>2 DEF dcl_searchdir, Enter
    <3> QED BY <1>9, <2>2, <3>1
  <2>3. CASE ~(Top.pass = "dirs" /\ isdir)
    <3>1. scans' = <<Show(n)>> \o Tail(scans)
      BY <2>1, <2>3 DEF dcl_searchdir
    <3>2. CASE p[k] # n \/ (Top.pass = "files" /\ Len(p) # k)
      BY <1>7, <3>1, <3>2
    <3>3. CASE p[k] = n /\ ~(Top.pass = "files" /\ Len(p) # k)
      <4>1. Top.pass = "files" /\ Len(p) = k
        <5>1. Top.pass = "dirs" => Len(p) # k
          BY DEF CoveredBy
        <5> QED BY <1>5, <2>1, <2>3, <3>3, <5>1
      <4>2. ~isdir
        BY <1>5, <3>3, <4>1
      <4>3. Offer(d, n, FALSE)
        BY <2>1, <4>1, <4>2 DEF dcl_searchdir
      <4> QED BY <1>8, <3>3, <4>1, <4>3
    <3> QED BY <3>2, <3>3
  <2> QED BY <2>2, <2>3
<1> QED BY <1>10, <1>11

\* What the search leaves of MissInv to show.
LEMMA SearchMiss ==
  ASSUME FileInv, MissInv, command # NoCommand, at = "next",
         UNCHANGED <<files, command, CTRL_Y, HARDERR, pending>>,
         NEW dir, NEW n, NEW isdir, Offer(dir, n, isdir) \/ NoOffer,
         ~NoOffer /\ command.verb = "RENAME" => isdir = FALSE,
         ~Ended => \A p \in pending : Selected(p) => Covered(p)'
  PROVE  MissInv'
<1>1. /\ param'.confirm = param.confirm /\ param'.ok = param.ok
      /\ at' \in {"next", "ask", "do"} /\ (at' = "ask" => param.confirm)
  BY SearchKeepsFlags
<1>2. pending \subseteq DOMAIN files /\ KeyEnds /\ PendingSelected
  BY DEF MissInv
<1>3. Ended' <=> Ended
  BY <1>1, Zenon DEF Ended
<1>4. KeyEnds' /\ AskedOnly'
  BY <1>1, <1>2, <1>3 DEF KeyEnds, AskedOnly
<1>5. ASSUME NEW p PROVE Date(p)' = Date(p) /\ (Selected(p)' <=> Selected(p))
  BY DEF Selected, Date
<1>6. PendingSelected'
  BY <1>2, <1>5 DEF PendingSelected
<1>7. AllCovered'
  <2> SUFFICES ASSUME ~Ended, NEW p \in pending, Selected(p)' PROVE Covered(p)'
    BY <1>3 DEF AllCovered
  <2> QED BY <1>5
<1>8. RenamedSelected'
  <2> SUFFICES ASSUME command.verb = "RENAME", at' # "next" PROVE Selected(Path(found))'
    BY DEF RenamedSelected
  <2>1. Offer(dir, n, FALSE) /\ ~NoOffer
    BY DEF NoOffer
  <2>2. Selected(Append(dir, n))
    BY <2>1 DEF Offer
  <2>3. found' = [way |-> Top.spec.way, dir |-> dir, name |-> n]
    BY <2>1, OfferFinds
  <2>4. Path(found)' = Append(dir, n)
    BY <2>3 DEF Path
  <2> QED BY <2>2, <2>4 DEF Selected, Date
<1> QED BY <1>2, <1>4, <1>6, <1>7, <1>8 DEF MissInv

LEMMA NextFileMiss ==
  ASSUME FileInv, CommandInv, MissInv, NextFile
  PROVE  MissInv'
<1>1. /\ command # NoCommand /\ at = "next" /\ scans # << >>
      /\ UNCHANGED <<files, command, CTRL_Y, HARDERR, pending>>
  BY DEF NextFile, Searching, Running
<1>2. PICK n \in Entries(Top.spec.dir) :
        /\ Listed(n)
        /\ IF command.verb = "DELETE" THEN dcl_del_searchdir(n, Append(Top.spec.dir, n) \in dirs)
           ELSE dcl_searchdir(n, Append(Top.spec.dir, n) \in dirs)
  BY DEF NextFile
<1>3. TreeOK(files, dirs) /\ ScansOK /\ n \in Names /\ Len(scans) \in Nat \ {0}
  BY <1>1, EntriesAreNames, TopIsScan DEF FileInv
<1>4. PICK isdir :
        /\ Offer(Top.spec.dir, n, isdir) \/ NoOffer
        /\ ~NoOffer /\ command.verb = "RENAME" => isdir = FALSE
  <2>1. CASE NoOffer
    <3> QED BY <2>1
  <2>2. CASE ~NoOffer
    <3>1. command.verb = "DELETE" => Offer(Top.spec.dir, n, Append(Top.spec.dir, n) \in dirs)
      BY <1>2, <2>2 DEF dcl_del_searchdir, Enter
    <3>2. command.verb # "DELETE" => Offer(Top.spec.dir, n, FALSE)
      BY <1>2, <2>2 DEF dcl_searchdir, Enter
    <3> QED BY <3>1, <3>2
  <2> QED BY <2>1, <2>2
<1>5. param'.rest = param.rest
  BY <1>1, <1>4, SearchKeepsFlags
<1>6. ASSUME ~Ended, NEW p \in pending, Selected(p) PROVE Covered(p)'
  <2>1. p \in DOMAIN files /\ Covered(p)
    BY <1>1, <1>6 DEF MissInv, AllCovered
  <2>2. CASE \E i \in DOMAIN param.rest : Reaches(param.rest[i], p)
    BY <1>1, <1>5, <2>2, ReachStays
  <2>3. CASE CoveredBy(p, Top)
    BY <1>2, <1>6, <2>1, <2>3, TopCovers
  <2>4. ASSUME NEW i \in 2 .. Len(scans), CoveredBy(p, scans[i]) PROVE Covered(p)'
    <3>1. CASE scans' = <<Show(n)>> \o Tail(scans)
      <4>1. Len(scans') = Len(scans) /\ scans'[i] = scans[i]
        BY <1>1, <1>3, <3>1, ShowTyped
      <4>2. i \in 1 .. Len(scans')
        BY <1>3, <4>1
      <4> QED BY <1>1, <2>4, <4>1, <4>2, CoverageMoves
    <3>2. ASSUME NEW pass \in {"files", "all"},
                 scans' = <<Scan(Top.spec, Append(Top.spec.dir, n), pass), Show(n)>> \o Tail(scans)
          PROVE  Covered(p)'
      <4>1. Len(scans') = Len(scans) + 1 /\ scans'[i + 1] = scans[i]
        BY <1>1, <1>3, <3>2, EnterTyped
      <4>2. i + 1 \in 1 .. Len(scans')
        BY <1>3, <4>1
      <4> QED BY <1>1, <2>4, <4>1, <4>2, CoverageMoves
    <3>3. \/ scans' = <<Show(n)>> \o Tail(scans)
          \/ \E pass \in {"files", "all"} :
               scans' = <<Scan(Top.spec, Append(Top.spec.dir, n), pass), Show(n)>> \o Tail(scans)
      BY <1>2 DEF dcl_searchdir, dcl_del_searchdir, Enter
    <3> QED BY <3>1, <3>2, <3>3
  <2>5. \A i \in 1 .. Len(scans) : i = 1 \/ i \in 2 .. Len(scans)
    BY <1>3
  <2> QED BY <1>1, <2>1, <2>2, <2>3, <2>4, <2>5 DEF Covered, Top
<1> QED BY <1>1, <1>4, <1>6, SearchMiss

LEMMA EndSearchMiss ==
  ASSUME FileInv, CommandInv, MissInv, EndSearch
  PROVE  MissInv'
<1>1. /\ command # NoCommand /\ at = "next" /\ scans # << >>
      /\ UNCHANGED <<files, command, CTRL_Y, HARDERR, pending>>
  BY DEF EndSearch, Searching, Running
<1>2. TreeOK(files, dirs) /\ ScansOK /\ Len(scans) \in Nat \ {0} /\ Top.spec \in FileSpec /\ Top.spec.dir \in Seq(Names)
  BY <1>1, TopIsScan DEF FileInv
<1> DEFINE here == Offer(Parent(Top.spec.dir), Last(Top.spec.dir), TRUE)
<1>3. Top.pass = "all" <=> command.verb = "DELETE"
  BY <1>1, <1>2 DEF CommandInv, PassesOK, Top
<1>4. NoOffer \/ (here /\ command.verb = "DELETE")
  BY <1>3 DEF EndSearch
<1>5. param'.rest = param.rest
  BY <1>1, <1>4, SearchKeepsFlags
<1>6. ~Ended => \A n \in Top.due \ Top.shown : ~Listed(n)
  BY <1>1 DEF EndSearch, Stopped, MissInv, KeyEnds, Ended
<1>7. ASSUME ~Ended, NEW p \in pending, Selected(p) PROVE Covered(p)'
  <2>1. p \in DOMAIN files /\ Covered(p)
    BY <1>1, <1>7 DEF MissInv, AllCovered
  <2>2. CASE \E i \in DOMAIN param.rest : Reaches(param.rest[i], p)
    BY <1>1, <1>5, <2>2, ReachStays
  <2>3. CASE CoveredBy(p, Top)
    <3> DEFINE d == Top.spec.dir
               k == Len(d) + 1
    <3>1. Leads(d, p) /\ Matches(Top.spec, Last(p))
      BY <2>3 DEF CoveredBy
    <3>2. Len(p) = k => Last(p) = p[k]
      BY <1>2, <2>1, <3>1, NextOnTheWay
    <3>3. p[k] \in Dotted \/ ~(Dots(p, k) /\ Len(p) # k)
      <4>1. Len(p) # k => k \in k .. Len(p) - 1
        <5>1. Len(p) \in Nat /\ Len(d) \in Nat
          BY <1>2, <2>1, LenProperties DEF TreeOK
        <5> QED BY <3>1, <5>1 DEF Leads
      <4> QED BY <4>1 DEF Dots
    <3>4. Top.pass = "files" /\ Len(p) # k /\ Has("SUBDIR") /\ Dots(p, k)
      <4>1. p[k] \notin Top.due \ Top.shown \/ ~Listed(p[k])
        BY <1>6, <1>7
      <4> QED BY <2>3, <3>1, <3>2, <3>3, <4>1 DEF CoveredBy, Listed
    <3>5. scans' = <<Scan(Top.spec, d, "dirs")>> \o Tail(scans)
      BY <3>4 DEF EndSearch
    <3>6. CoveredBy(p, Scan(Top.spec, d, "dirs"))
      BY <1>2, <2>1, <3>1, <3>4, NewScanCovers
    <3>7. Scan(Top.spec, d, "dirs") \in OpenScan
      BY <1>2, NewScan
    <3>8. scans'[1] = Scan(Top.spec, d, "dirs") /\ Len(scans') = Len(scans)
      BY <1>1, <1>2, <3>5, <3>7, TopReplaced DEF ScansOK
    <3>9. 1 \in 1 .. Len(scans')
      BY <1>2, <3>8
    <3> QED BY <1>1, <3>6, <3>8, <3>9, CoverageMoves
  <2>4. ASSUME NEW i \in 2 .. Len(scans), CoveredBy(p, scans[i]) PROVE Covered(p)'
    <3>1. CASE scans' = Tail(scans)
      <4>1. /\ Len(Tail(scans)) = Len(scans) - 1
            /\ \A j \in 1 .. Len(scans) - 1 : Tail(scans)[j] = scans[j + 1]
        BY <1>1, <1>2, TopIsScan
      <4>2. i - 1 \in 1 .. Len(scans) - 1 /\ i - 1 + 1 = i
        BY <1>2
      <4>3. scans'[i - 1] = scans[i] /\ i - 1 \in 1 .. Len(scans')
        BY <3>1, <4>1, <4>2
      <4> QED BY <1>1, <2>4, <4>3, CoverageMoves
    <3>2. CASE scans' = <<Scan(Top.spec, Top.spec.dir, "dirs")>> \o Tail(scans)
      <4>1. Scan(Top.spec, Top.spec.dir, "dirs") \in OpenScan
        BY <1>2, NewScan
      <4>2. Len(scans') = Len(scans) /\ scans'[i] = scans[i]
        BY <1>1, <1>2, <3>2, <4>1, TopReplaced DEF ScansOK
      <4>3. i \in 1 .. Len(scans')
        BY <1>2, <4>2
      <4> QED BY <1>1, <2>4, <4>2, <4>3, CoverageMoves
    <3> QED BY <3>1, <3>2 DEF EndSearch
  <2>5. \A i \in 1 .. Len(scans) : i = 1 \/ i \in 2 .. Len(scans)
    BY <1>2
  <2> QED BY <1>1, <2>1, <2>2, <2>3, <2>4, <2>5 DEF Covered, Top
<1>8. ~NoOffer /\ command.verb = "RENAME" => TRUE = FALSE
  BY <1>4
<1> QED BY <1>1, <1>4, <1>7, <1>8, SearchMiss

\* What is gone did not lead to another file.
LEMMA ForgetCovers ==
  ASSUME FileInv, NEW q \in Seq(Names), q # << >>, Forget(q), q \in DOMAIN files \/ Entries(q) = {},
         NEW p \in DOMAIN files, p # q, NEW i \in 1 .. Len(scans), CoveredBy(p, scans[i])
  PROVE  CoveredBy(p, scans'[i])
<1> DEFINE d == scans[i].spec.dir
           k == Len(d) + 1
<1>1. TreeOK(files, dirs) /\ ScansOK
  BY DEF FileInv
<1>2. /\ scans'[i].spec = scans[i].spec /\ scans'[i].pass = scans[i].pass
      /\ d # Parent(q) => scans'[i] = scans[i]
      /\ scans'[i].shown \subseteq scans[i].shown
      /\ scans[i].due \ {Last(q)} \subseteq scans'[i].due
  BY <1>1, ForgetChanges
<1>3. d \in Seq(Names) /\ Leads(d, p)
  <2>1. scans[i] \in OpenScan
    BY <1>1, ElementOfSeq, LenProperties DEF ScansOK
  <2> QED BY <2>1 DEF OpenScan, FileSpec, CoveredBy
<1>4. /\ Len(p) = k => Append(d, p[k]) = p
      /\ Len(p) # k => Append(d, p[k]) \in dirs /\ Leads(Append(d, p[k]), p)
  BY <1>1, <1>3, NextOnTheWay
<1>5. ASSUME d = Parent(q) PROVE p[k] # Last(q)
  <2> SUFFICES ASSUME p[k] = Last(q) PROVE FALSE
    OBVIOUS
  <2>1. Append(d, p[k]) = q
    BY <1>5, PathIsParentAndLast
  <2>2. q \in dirs /\ Leads(q, p)
    BY <1>4, <2>1
  <2>3. Entries(q) = {}
    BY <1>1, <2>2 DEF TreeOK
  <2>4. p[Len(q) + 1] \in Entries(q)
    BY <1>1, <2>2, NextOnTheWay
  <2> QED BY <2>3, <2>4
<1>6. p[k] \in scans[i].due \ scans[i].shown => p[k] \in scans'[i].due \ scans'[i].shown
  BY <1>2, <1>5
<1> QED BY <1>2, <1>6 DEF CoveredBy

LEMMA DoneMiss ==
  ASSUME FileInv, MissInv, NEW verb, Doing(verb),
         DOMAIN files \ {Path(found)} \subseteq DOMAIN files',
         \A p \in pending \ {Path(found)} : \/ Date(p)' = Date(p)
                                            \/ Date(p)' = 2 /\ verb # "RENAME"
                                            \/ verb = "RENAME" /\ Selected(p)',
         \/ UNCHANGED scans
         \/ Forget(Path(found)) /\ (Path(found) \in DOMAIN files \/ Entries(Path(found)) = {}),
         param'.rest = param.rest,
         (param'.confirm = param.confirm /\ param'.ok = param.ok) \/ ~(param'.confirm \/ param'.ok)
  PROVE  MissInv'
<1> DEFINE q == Path(found)
<1>1. /\ at = "do" /\ at' = "next" /\ command.verb = verb
      /\ UNCHANGED <<command, CTRL_Y, HARDERR>>
      /\ pending' = pending \ {q}
  BY DEF Doing
<1>2. command # NoCommand /\ q \in Seq(Names) /\ q # << >> /\ ScansOK
  BY <1>1, FoundPath DEF FileInv, HandOK
<1>3. pending \subseteq DOMAIN files /\ KeyEnds /\ PendingSelected /\ AllCovered
  BY <1>2 DEF MissInv
<1>4. Ended => Ended'
  BY <1>1, Zenon DEF Ended
<1>5. pending' \subseteq DOMAIN files' /\ KeyEnds' /\ AskedOnly' /\ RenamedSelected'
  BY <1>1, <1>3, <1>4 DEF KeyEnds, AskedOnly, RenamedSelected
<1>6. ASSUME NEW p \in pending'
      PROVE  /\ Selected(p)' \/ (Date(p)' = 2 /\ verb # "RENAME")
             /\ Selected(p)' => Selected(p)
  <2>1. p \in pending \ {q}
    BY <1>1
  <2>2. Selected(p) \/ (Date(p) = 2 /\ verb # "RENAME")
    BY <1>1, <1>3, <2>1 DEF PendingSelected
  <2>3. \/ Date(p)' = Date(p)
        \/ Date(p)' = 2 /\ verb # "RENAME"
        \/ verb = "RENAME" /\ Selected(p)'
    BY <2>1
  <2>4. (Selected(p)' <=> Date(p)' \in command.dates) /\ (Selected(p) <=> Date(p) \in command.dates)
    BY <1>1 DEF Selected
  <2> QED BY <2>2, <2>3, <2>4
<1>7. PendingSelected'
  BY <1>1, <1>6 DEF PendingSelected
<1>8. AllCovered'
  <2> SUFFICES ASSUME ~Ended, NEW p \in pending', Selected(p)' PROVE Covered(p)'
    BY <1>4 DEF AllCovered
  <2>1. p \in pending \ {q} /\ p \in DOMAIN files /\ Covered(p)
    BY <1>1, <1>3, <1>6 DEF AllCovered
  <2>2. CASE \E i \in DOMAIN param.rest : Reaches(param.rest[i], p)
    BY <1>1, <2>2, ReachStays
  <2>3. ASSUME NEW i \in 1 .. Len(scans), CoveredBy(p, scans[i]) PROVE Covered(p)'
    <3>1. Len(scans') = Len(scans)
      BY <1>2, ForgetChanges
    <3>2. CoveredBy(p, scans'[i])
      <4>1. CASE UNCHANGED scans
        BY <2>3, <4>1
      <4>2. CASE Forget(q) /\ (q \in DOMAIN files \/ Entries(q) = {})
        <5> HIDE DEF q
        <5> QED BY <1>2, <2>1, <2>3, <4>2, ForgetCovers
      <4> QED BY <4>1, <4>2
    <3> QED BY <1>1, <3>1, <3>2, CoverageMoves
  <2> QED BY <2>1, <2>2, <2>3 DEF Covered
<1> QED BY <1>1, <1>5, <1>7, <1>8 DEF MissInv

LEMMA WrittenDates ==
  ASSUME NEW r, NEW data, files' = Written(r, data)
  PROVE  /\ DOMAIN files \subseteq DOMAIN files'
         /\ \A p : Date(p)' = IF p = r THEN 2 ELSE Date(p)
<1>1. files' = [q \in DOMAIN files \cup {r} |-> IF q = r THEN [data |-> data, date |-> 2] ELSE files[q]]
  BY DEF Written, With
<1> QED BY <1>1 DEF Date

LEMMA TreatMiss ==
  ASSUME FileInv, MissInv, Treat
  PROVE  MissInv'
<1> DEFINE q == Path(found)
           Dated(verb) == \A p \in pending \ {q} : \/ Date(p)' = Date(p)
                                                   \/ Date(p)' = 2 /\ verb # "RENAME"
                                                   \/ verb = "RENAME" /\ Selected(p)'
           Kept == UNCHANGED scans \/ (Forget(q) /\ (q \in DOMAIN files \/ Entries(q) = {}))
           Flags == /\ param'.rest = param.rest
                    /\ \/ param'.confirm = param.confirm /\ param'.ok = param.ok
                       \/ ~(param'.confirm \/ param'.ok)
<1>1. PICK verb : Doing(verb)
  BY DEF Treat, DeleteFile, DeleteDir, CopyNothing, CopyUndefined, vms_copy, vms_rename, vms_append,
         dcltype_do_it, vms_print, dclsetf_do_it
<1>2. /\ at = "do" /\ command.verb = verb /\ UNCHANGED command
  BY <1>1 DEF Doing
<1>3. command # NoCommand /\ param \in Params /\ TreeOK(files, dirs)
  BY <1>2 DEF FileInv, HandOK, CommandOK
<1>4. Kept
  BY DEF Treat, DeleteFile, DeleteDir, CopyNothing, CopyUndefined, vms_copy, vms_rename, vms_append,
         dcltype_do_it, vms_print, dclsetf_do_it
<1>5. Flags
  <2>1. \/ UNCHANGED param
        \/ param' = [param EXCEPT !.to = AppendTarget]
        \/ param' = [param EXCEPT !.ok = FALSE, !.confirm = FALSE]
    BY DEF Treat, DeleteFile, DeleteDir, CopyNothing, CopyUndefined, vms_copy, vms_rename, vms_append,
           dcltype_do_it, vms_print, dclsetf_do_it
  <2> QED BY <1>3, <2>1 DEF Params
<1>6. DOMAIN files \ {q} \subseteq DOMAIN files' /\ Dated(verb)
  <2>1. CASE UNCHANGED files
    BY <2>1 DEF Date
  <2>2. CASE files' = Without(q)
    BY <2>2 DEF Without, Date
  <2>3. ASSUME NEW r, NEW data, files' = Written(r, data), r = q \/ verb # "RENAME"
        PROVE  DOMAIN files \ {q} \subseteq DOMAIN files' /\ Dated(verb)
    BY <2>3, WrittenDates
  <2>4. CASE vms_rename /\ ~UNCHANGED files
    <3> DEFINE r == Path(Target)
    <3>1. /\ verb = "RENAME" /\ q \in DOMAIN files
          /\ files' = [s \in (DOMAIN files \ {q}) \cup {r} |-> IF s = r THEN files[q] ELSE files[s]]
      BY <1>2, <2>4 DEF vms_rename, Doing
    <3>2. Selected(q)
      BY <1>2, <1>3, <3>1 DEF MissInv, RenamedSelected
    <3> HIDE DEF q, r
    <3>3. DOMAIN files \ {q} \subseteq DOMAIN files'
      BY <3>1
    <3>4. \A p : p # r /\ p # q => Date(p)' = Date(p)
      BY <3>1 DEF Date
    <3>5. ASSUME NEW p, p = r PROVE Selected(p)'
      <4>1. Date(p)' = Date(q)
        BY <3>1, <3>5 DEF Date
      <4> QED BY <1>2, <3>2, <4>1 DEF Selected
    <3>6. ASSUME NEW p \in pending \ {q} PROVE Date(p)' = Date(p) \/ Selected(p)'
      BY <3>4, <3>5
    <3> QED BY <3>1, <3>3, <3>6
  <2>5. CASE dclsetf_do_it /\ ~UNCHANGED files
    <3>1. files' = [files EXCEPT ![q].date = 1]
      BY <2>5 DEF dclsetf_do_it
    <3> QED BY <3>1 DEF Date
  <2>6. CASE DeleteFile
    BY <2>1, <2>2, <2>3, <2>6 DEF DeleteFile
  <2>7. CASE vms_copy
    <3>1. verb # "RENAME"
      BY <1>2, <2>7 DEF vms_copy, Doing
    <3> QED BY <2>1, <2>3, <2>7, <3>1 DEF vms_copy, filecopy
  <2>8. CASE vms_append
    <3>1. verb # "RENAME"
      BY <1>2, <2>8 DEF vms_append, Doing
    <3> QED BY <2>1, <2>3, <2>8, <3>1 DEF vms_append
  <2>9. CASE DeleteDir \/ CopyNothing \/ CopyUndefined \/ dcltype_do_it \/ vms_print
    BY <2>1, <2>9 DEF DeleteDir, CopyNothing, CopyUndefined, dcltype_do_it, vms_print
  <2> QED BY <2>1, <2>4, <2>5, <2>6, <2>7, <2>8, <2>9 DEF Treat
<1> QED BY <1>1, <1>4, <1>5, <1>6, DoneMiss

\* Steps that leave the search and the files alone.
LEMMA CoverageStays ==
  ASSUME NEW p, UNCHANGED <<command, scans>>, param'.rest = param.rest, Covered(p),
         at # "next" /\ p = Path(found) => at' # "next" /\ UNCHANGED found
  PROVE  Covered(p)'
<1>1. CASE at # "next" /\ p = Path(found)
  BY <1>1 DEF Covered, Path
<1>2. CASE \E i \in DOMAIN param.rest : Reaches(param.rest[i], p)
  BY <1>2, ReachStays
<1>3. CASE \E i \in 1 .. Len(scans) : CoveredBy(p, scans[i])
  BY <1>3, CoverageMoves
<1> QED BY <1>1, <1>2, <1>3 DEF Covered

LEMMA PromptMiss ==
  ASSUME FileInv, MissInv, Ask \/ Answer
  PROVE  MissInv'
<1>1. at \in {"ask", "answer"} /\ UNCHANGED <<files, command, scans, HARDERR>>
  BY DEF Ask, Answer
<1>2. command # NoCommand /\ param \in Params
  BY <1>1 DEF FileInv, HandOK, CommandOK
<1>3. pending \subseteq DOMAIN files /\ KeyEnds /\ param.confirm /\ PendingSelected /\ RenamedSelected /\ AllCovered
  BY <1>1, <1>2 DEF MissInv, AskedOnly
<1>4. Ended => HARDERR
  BY <1>3 DEF Ended
<1>5. ASSUME NEW p PROVE Date(p)' = Date(p) /\ (Selected(p)' <=> Selected(p))
  BY <1>1 DEF Selected, Date
<1>6. CASE Ask
  <2>1. CTRL_Y' = FALSE /\ at' = "answer" /\ UNCHANGED <<param, found, pending>>
    BY <1>6 DEF Ask
  <2>2. KeyEnds' /\ AskedOnly'
    BY <1>3, <2>1 DEF KeyEnds, AskedOnly
  <2>3. PendingSelected'
    BY <1>1, <1>3, <1>5, <2>1 DEF PendingSelected
  <2>4. RenamedSelected'
    BY <1>1, <1>3, <2>1 DEF RenamedSelected, Selected, Date, Path
  <2>5. AllCovered'
    <3>1. CASE Ended
      BY <1>1, <1>4, <3>1 DEF AllCovered, Ended
    <3>2. ASSUME ~Ended, NEW p \in pending', Selected(p)' PROVE Covered(p)'
      <4>1. Covered(p)
        BY <1>3, <1>5, <2>1, <3>2 DEF AllCovered
      <4> QED BY <1>1, <2>1, <4>1, CoverageStays
    <3> QED BY <3>1, <3>2 DEF AllCovered
  <2> QED BY <1>1, <1>3, <2>1, <2>2, <2>3, <2>4, <2>5 DEF MissInv
<1>7. CASE Answer
  <2>1. at = "answer" /\ pending' = pending \ {Path(found)}
    BY <1>7 DEF Answer
  <2>2. PICK word \in {"YES", "NO", "ALL", "QUIT"}, key \in BOOLEAN :
          /\ key => word = "NO"
          /\ CTRL_Y' = (CTRL_Y \/ key)
          /\ param' = Answered(Understood(word))
    BY <1>7 DEF Answer
  <2>3. /\ param'.rest = param.rest
        /\ Understood(word) = "QUIT" => ~param'.confirm /\ ~param'.ok
    BY <1>2, <2>2 DEF Answered, Params
  <2>4. KeyEnds'
    <3> SUFFICES ASSUME CTRL_Y' PROVE Ended'
      BY DEF KeyEnds
    <3>1. CASE key
      BY <2>2, <2>3, <3>1 DEF Understood, Ended
    <3>2. CASE CTRL_Y
      BY <1>1, <1>3, <1>4, <3>2 DEF KeyEnds, Ended
    <3> QED BY <2>2, <3>1, <3>2
  <2>5. at' \in {"do", "next"} /\ (at' # "next" => UNCHANGED found)
    BY <1>7 DEF Answer
  <2>6. AskedOnly'
    BY <2>5 DEF AskedOnly
  <2>7. PendingSelected'
    BY <1>1, <1>3, <1>5, <2>1 DEF PendingSelected
  <2>8. RenamedSelected'
    BY <1>1, <1>3, <2>1, <2>5 DEF RenamedSelected, Selected, Date, Path
  <2>9. AllCovered'
    <3>1. CASE Ended
      BY <1>1, <1>4, <3>1 DEF AllCovered, Ended
    <3>2. ASSUME ~Ended, NEW p \in pending', Selected(p)' PROVE Covered(p)'
      <4>1. Covered(p) /\ p # Path(found)
        BY <1>3, <1>5, <2>1, <3>2 DEF AllCovered
      <4> QED BY <1>1, <2>3, <4>1, CoverageStays
    <3> QED BY <3>1, <3>2 DEF AllCovered
  <2> QED BY <1>1, <1>3, <2>1, <2>4, <2>6, <2>7, <2>8, <2>9 DEF MissInv
<1> QED BY <1>6, <1>7

LEMMA NextPatternMiss ==
  ASSUME FileInv, MissInv, NextPattern
  PROVE  MissInv'
<1> DEFINE s == Head(param.rest)
           pass == IF command.verb = "DELETE" THEN "all" ELSE "files"
<1>1. /\ command # NoCommand /\ at = "next" /\ scans = << >> /\ param.rest # << >>
      /\ UNCHANGED <<files, command, found, at, CTRL_Y, HARDERR, pending>>
      /\ param' = [param EXCEPT !.rest = Tail(@)]
      /\ scans' = <<Scan(s, s.dir, pass)>>
  BY DEF NextPattern, Searching, Running, NextParam
<1>2. TreeOK(files, dirs) /\ param \in Params /\ param.rest \in Seq(FileSpec) /\ Len(scans) = 0
  BY <1>1 DEF FileInv, CommandOK, Params
<1>3. /\ s \in FileSpec /\ Len(param.rest) \in Nat \ {0} /\ s = param.rest[1]
      /\ Tail(param.rest) \in Seq(FileSpec)
      /\ Len(Tail(param.rest)) = Len(param.rest) - 1
      /\ \A i \in 1 .. Len(Tail(param.rest)) : Tail(param.rest)[i] = param.rest[i + 1]
      /\ DOMAIN param.rest = 1 .. Len(param.rest) /\ DOMAIN Tail(param.rest) = 1 .. Len(Tail(param.rest))
  BY <1>1, <1>2, EmptySeq, HeadTailProperties, LenProperties
<1>4. s.dir \in Seq(Names) /\ pass \in {"files", "dirs", "all"}
  BY <1>3 DEF FileSpec
<1>5. pending \subseteq DOMAIN files /\ KeyEnds /\ PendingSelected /\ AllCovered
  BY <1>1 DEF MissInv
<1>6. param'.confirm = param.confirm /\ param'.ok = param.ok /\ param'.rest = Tail(param.rest)
  BY <1>1, <1>2 DEF Params
<1>7. Ended' <=> Ended
  BY <1>1, <1>6, Zenon DEF Ended
<1>8. KeyEnds' /\ AskedOnly' /\ RenamedSelected'
  BY <1>1, <1>5, <1>7 DEF KeyEnds, AskedOnly, RenamedSelected
<1>9. ASSUME NEW p PROVE Date(p)' = Date(p) /\ (Selected(p)' <=> Selected(p))
  BY <1>1 DEF Selected, Date
<1>10. PendingSelected'
  BY <1>1, <1>5, <1>9 DEF PendingSelected
<1>11. AllCovered'
  <2> SUFFICES ASSUME ~Ended, NEW p \in pending', Selected(p)' PROVE Covered(p)'
    BY <1>7 DEF AllCovered
  <2>1. p \in DOMAIN files /\ Covered(p)
    BY <1>1, <1>5, <1>9 DEF AllCovered
  <2>2. PICK i \in 1 .. Len(param.rest) : Reaches(param.rest[i], p)
    BY <1>1, <1>2, <1>3, <2>1 DEF Covered
  <2>3. CASE i = 1
    <3>1. Reaches(s, p)
      BY <1>3, <2>2, <2>3
    <3> HIDE DEF s
    <3>2. /\ Leads(s.dir, p) /\ Matches(s, Last(p))
          /\ Len(p) = Len(s.dir) + 1 \/ (Has("SUBDIR") /\ (command.verb = "DELETE" \/ Dots(p, Len(s.dir) + 1)))
      <4>1. p \in Seq(Names) /\ p # << >>
        BY <1>2, <2>1 DEF TreeOK
      <4> QED BY <1>3, <3>1, <4>1, ReachedIsLed
    <3>3. CoveredBy(p, Scan(s, s.dir, pass))
      BY <1>2, <1>3, <1>4, <2>1, <3>2, NewScanCovers
    <3>4. scans'[1] = Scan(s, s.dir, pass) /\ 1 \in 1 .. Len(scans')
      BY <1>1
    <3> QED BY <1>1, <3>3, <3>4, CoverageMoves
  <2>4. CASE i # 1
    <3>1. i - 1 \in 1 .. Len(param.rest) - 1 /\ i - 1 + 1 = i
      BY <1>3, <2>4
    <3>2. i - 1 \in DOMAIN Tail(param.rest) /\ Tail(param.rest)[i - 1] = param.rest[i]
      BY <1>3, <3>1
    <3>3. Reaches(param.rest[i - 1], p)'
      BY <1>1, <1>6, <2>2, <3>2 DEF Reaches, Matches, Has
    <3> QED BY <1>6, <3>2, <3>3 DEF Covered
  <2> QED BY <2>3, <2>4
<1> QED BY <1>1, <1>5, <1>8, <1>10, <1>11 DEF MissInv

LEMMA OtherStepsMiss ==
  ASSUME FileInv, MissInv,
         Finish \/ CtrlC \/ Removed \/ DiskFills \/ (\E c \in Commands : Begin(c)) \/ UNCHANGED vars
  PROVE  MissInv'
<1>1. CASE Finish
  BY <1>1 DEF Finish, MissInv
<1>2. CASE CtrlC
  <2>1. HARDERR' = TRUE /\ command # NoCommand
        /\ UNCHANGED <<files, command, param, scans, found, at, pending>>
    BY <1>2 DEF CtrlC, Running
  <2>2. Ended'
    BY <2>1, Zenon DEF Ended
  <2>3. pending \subseteq DOMAIN files /\ AskedOnly /\ PendingSelected /\ RenamedSelected
    BY <2>1 DEF MissInv
  <2>4. pending' \subseteq DOMAIN files' /\ AskedOnly' /\ PendingSelected' /\ RenamedSelected'
    BY <2>1, <2>3 DEF AskedOnly, PendingSelected, RenamedSelected, Selected, Date, Path
  <2> QED BY <2>2, <2>4 DEF MissInv, KeyEnds, AllCovered
<1>3. CASE DiskFills \/ UNCHANGED vars
  <2>1. UNCHANGED <<files, command, param, scans, found, at, pending, CTRL_Y, HARDERR>>
    BY <1>3 DEF DiskFills, vars
  <2>2. Ended' <=> Ended
    BY <2>1, Zenon DEF Ended
  <2>3. ASSUME command # NoCommand PROVE AllCovered'
    <3>1. AllCovered
      BY <2>3 DEF MissInv
    <3> SUFFICES ASSUME ~Ended, NEW p \in pending, Selected(p)' PROVE Covered(p)'
      BY <2>1, <2>2 DEF AllCovered
    <3>2. Covered(p)
      BY <2>1, <3>1 DEF AllCovered, Selected, Date
    <3> QED BY <2>1, <3>2, CoverageStays
  <2>4. ASSUME command # NoCommand PROVE (pending \subseteq DOMAIN files /\ KeyEnds /\ AskedOnly)'
    BY <2>1, <2>2, <2>4 DEF MissInv, KeyEnds, AskedOnly
  <2>5. ASSUME command # NoCommand PROVE (PendingSelected /\ RenamedSelected)'
    BY <2>1, <2>5 DEF MissInv, PendingSelected, RenamedSelected, Selected, Date, Path
  <2> QED BY <2>1, <2>3, <2>4, <2>5 DEF MissInv
<1>4. CASE Removed
  <2>1. /\ command # NoCommand
        /\ UNCHANGED <<dirs, command, param, found, at, CTRL_Y, HARDERR>>
    BY <1>4 DEF Removed, Running
  <2>2. PICK q \in DOMAIN files : files' = Without(q) /\ Forget(q) /\ pending' = pending \ {q}
    BY <1>4 DEF Removed
  <2>3. pending \subseteq DOMAIN files /\ KeyEnds /\ AskedOnly /\ PendingSelected /\ RenamedSelected /\ AllCovered
    BY <2>1 DEF MissInv
  <2>4. Ended' <=> Ended
    BY <2>1, Zenon DEF Ended
  <2>5. ASSUME NEW p, p # q PROVE Date(p)' = Date(p) /\ (Selected(p)' <=> Selected(p))
    BY <2>1, <2>2, <2>5 DEF Selected, Date, Without
  <2>6. DOMAIN files' = DOMAIN files \ {q}
    BY <2>2 DEF Without
  <2>7. pending' \subseteq DOMAIN files' /\ KeyEnds' /\ AskedOnly'
    BY <2>1, <2>2, <2>3, <2>4, <2>6 DEF KeyEnds, AskedOnly
  <2>8. PendingSelected'
    BY <2>1, <2>2, <2>3, <2>5 DEF PendingSelected
  <2>9. RenamedSelected'
    <3> SUFFICES ASSUME command.verb = "RENAME", at # "next", Path(found) \in DOMAIN files' PROVE Selected(Path(found))'
      BY <2>1 DEF RenamedSelected, Path
    <3>1. Path(found) # q /\ Selected(Path(found))
      BY <2>3, <2>6 DEF RenamedSelected
    <3> QED BY <2>1, <2>2, <2>6, <3>1 DEF Selected, Date, Without, Path
  <2>10. AllCovered'
    <3> SUFFICES ASSUME ~Ended, NEW p \in pending', Selected(p)' PROVE Covered(p)'
      BY <2>4 DEF AllCovered
    <3>1. p # q /\ p \in DOMAIN files /\ Covered(p)
      BY <2>2, <2>3, <2>5 DEF AllCovered
    <3>2. CASE at # "next" /\ p = Path(found)
      BY <2>1, <3>2 DEF Covered, Path
    <3>3. CASE \E i \in DOMAIN param.rest : Reaches(param.rest[i], p)
      BY <2>1, <3>3, ReachStays
    <3>4. ASSUME NEW i \in 1 .. Len(scans), CoveredBy(p, scans[i]) PROVE Covered(p)'
      <4>1. q \in Seq(Names) /\ q # << >> /\ ScansOK
        BY <2>2 DEF FileInv, TreeOK
      <4>2. Len(scans') = Len(scans)
        BY <2>2, <4>1, ForgetChanges
      <4>3. CoveredBy(p, scans'[i])
        BY <2>2, <3>1, <3>4, <4>1, ForgetCovers
      <4> QED BY <2>1, <4>2, <4>3, CoverageMoves
    <3> QED BY <3>1, <3>2, <3>3, <3>4 DEF Covered
  <2> QED BY <2>7, <2>8, <2>9, <2>10 DEF MissInv
<1>5. ASSUME NEW c \in Commands, Begin(c) PROVE MissInv'
  <2>1. /\ CTRL_Y' = FALSE /\ UNCHANGED <<files, scans, found, at>>
        /\ pending' = {p \in DOMAIN files : Selected(p) /\ \E i \in DOMAIN param.rest : Reaches(param.rest[i], p)}'
    BY <1>5 DEF Begin
  <2>2. at = "next"
    BY <1>5, CommandsAssumption, RecordsAreSomething DEF Begin, FileInv, CommandOK
  <2>3. ASSUME NEW p \in pending' PROVE p \in DOMAIN files' /\ Selected(p)' /\ Covered(p)'
    BY <2>1, <2>3 DEF Covered
  <2>4. pending' \subseteq DOMAIN files' /\ PendingSelected' /\ AllCovered'
    BY <2>3 DEF PendingSelected, AllCovered
  <2>5. KeyEnds' /\ AskedOnly' /\ RenamedSelected'
    BY <2>1, <2>2 DEF KeyEnds, AskedOnly, RenamedSelected
  <2> QED BY <2>4, <2>5 DEF MissInv
<1> QED BY <1>1, <1>2, <1>3, <1>4, <1>5

LEMMA MissSteps ==
  ASSUME FileInv, CommandInv, MissInv, [Next]_vars
  PROVE  MissInv'
BY NextFileMiss, EndSearchMiss, NextPatternMiss, TreatMiss, PromptMiss, OtherStepsMiss DEF Next, Search, User

LEMMA EndMisses == MissInv => NothingMissed
<1> SUFFICES ASSUME MissInv, SearchDone, param.confirm \/ param.ok, ~CTRL_Y, ~HARDERR, NEW p \in pending, Selected(p)
             PROVE  FALSE
  BY DEF NothingMissed
<1>1. command # NoCommand /\ at = "next" /\ scans = << >> /\ param.rest = << >>
  BY DEF SearchDone, Searching, Running
<1>2. Len(scans) = 0 /\ DOMAIN param.rest = {}
  <2>1. << >> \in Seq({}) /\ Len(<< >>) = 0
    BY EmptySeq
  <2> QED BY <1>1, <2>1, LenProperties
<1>3. Covered(p)
  BY <1>1 DEF MissInv, AllCovered, Ended
<1> QED BY <1>1, <1>2, <1>3 DEF Covered

(***************************************************************************)
(* When a command has searched all its patterns it has come to each file   *)
(* that it selected when it began and that is still there and selected:    *)
(* what it deletes, renames and creates on the way, and what others        *)
(* remove, hides no file from the searches of find.c and delete.c.         *)
(***************************************************************************)
THEOREM NothingIsMissed == Spec => []NothingMissed
<1>1. Init => MissInv
  <2>1. Init => command = NoCommand
    BY Zenon DEF Init
  <2> QED BY <2>1 DEF MissInv
<1>2. FileInv /\ CommandInv /\ MissInv /\ [Next]_vars => MissInv'
  BY MissSteps
<1>3. Spec => []MissInv
  BY <1>1, <1>2, CommandInvAlways, PTL DEF Spec
<1> QED BY <1>3, EndMisses, PTL

(***************************************************************************)
(* TreeCopied.  The paths of a tree and of its copy.                       *)
(***************************************************************************)
LEMMA Rest ==
  ASSUME NEW S, NEW p \in Seq(S), p # << >>
  PROVE  /\ Tail(p) \in Seq(S) /\ Len(p) \in Nat \ {0} /\ Len(Tail(p)) = Len(p) - 1
         /\ \A i \in 1 .. Len(p) - 1 : Tail(p)[i] = p[i + 1]
<1>1. Len(p) \in Nat \ {0}
  BY EmptySeq
<1> QED BY <1>1, HeadTailProperties

\* A path below a directory, moved to another.
Moved(a, p) == a \o Tail(p)

LEMMA MovedPath ==
  ASSUME NEW S, NEW a \in Seq(S), NEW p \in Seq(S), p # << >>
  PROVE  LET q == a \o Tail(p)
         IN  /\ q \in Seq(S) /\ Len(a) \in Nat /\ Len(p) \in Nat \ {0} /\ Len(q) = Len(a) + (Len(p) - 1)
             /\ \A i \in 1 .. Len(a) : q[i] = a[i]
             /\ \A i \in 1 .. Len(p) - 1 : q[Len(a) + i] = p[i + 1]
<1> DEFINE t == Tail(p)
           q == a \o t
<1>1. t \in Seq(S) /\ Len(p) \in Nat \ {0} /\ Len(t) = Len(p) - 1 /\ \A i \in 1 .. Len(p) - 1 : t[i] = p[i + 1]
  BY Rest
<1> HIDE DEF t
<1>2. Len(a) \in Nat
  BY LenProperties
<1>3. /\ q \in Seq(S) /\ Len(q) = Len(a) + Len(t)
      /\ \A i \in 1 .. Len(a) + Len(t) : q[i] = IF i <= Len(a) THEN a[i] ELSE t[i - Len(a)]
  BY <1>1, ConcatProperties
<1> HIDE DEF q
<1>4. ASSUME NEW i \in 1 .. Len(a) PROVE q[i] = a[i]
  <2>1. i \in 1 .. Len(a) + Len(t) /\ i <= Len(a)
    BY <1>1, <1>2
  <2> QED BY <1>3, <2>1
<1>5. ASSUME NEW i \in 1 .. Len(p) - 1 PROVE q[Len(a) + i] = p[i + 1]
  <2>1. Len(a) + i \in 1 .. Len(a) + Len(t) /\ ~(Len(a) + i <= Len(a)) /\ Len(a) + i - Len(a) = i
    BY <1>1, <1>2
  <2>2. q[Len(a) + i] = t[i]
    BY <1>3, <2>1
  <2> QED BY <1>1, <2>2
<1> QED BY <1>1, <1>2, <1>3, <1>4, <1>5 DEF q, t

\* Moving keeps files of one directory apart.
LEMMA MovedApart ==
  ASSUME NEW S, NEW a \in Seq(S), NEW p \in Seq(S), NEW q \in Seq(S), p # << >>, q # << >>, p[1] = q[1],
         a \o Tail(p) = a \o Tail(q)
  PROVE  p = q
<1> DEFINE m == a \o Tail(p)
<1>1. /\ Len(a) \in Nat /\ Len(p) \in Nat \ {0} /\ Len(m) = Len(a) + (Len(p) - 1)
      /\ \A i \in 1 .. Len(p) - 1 : m[Len(a) + i] = p[i + 1]
  BY MovedPath
<1>2. /\ Len(q) \in Nat \ {0} /\ Len(m) = Len(a) + (Len(q) - 1)
      /\ \A i \in 1 .. Len(q) - 1 : m[Len(a) + i] = q[i + 1]
  BY MovedPath
<1> HIDE DEF m
<1>3. Len(p) = Len(q)
  BY <1>1, <1>2
<1>4. ASSUME NEW i \in 1 .. Len(p) PROVE p[i] = q[i]
  <2>1. CASE i = 1
    BY <2>1
  <2>2. CASE i # 1
    <3>1. i - 1 \in 1 .. Len(p) - 1 /\ i - 1 + 1 = i
      BY <1>1, <2>2
    <3> QED BY <1>1, <1>2, <1>3, <3>1
  <2> QED BY <2>1, <2>2
<1> QED BY <1>3, <1>4, SeqEqual

\* The file of a directory that is moved to a is in the directory moved to a.
LEMMA MovedFile ==
  ASSUME NEW S, NEW a \in Seq(S), NEW d \in Seq(S), d # << >>, NEW n \in S
  PROVE  Append(Moved(a, d), n) = Moved(a, Append(d, n))
<1> DEFINE l == a \o Tail(d)
           u == Append(l, n)
           p == Append(d, n)
           v == a \o Tail(p)
<1>1. /\ l \in Seq(S) /\ Len(a) \in Nat /\ Len(d) \in Nat \ {0} /\ Len(l) = Len(a) + (Len(d) - 1)
      /\ \A i \in 1 .. Len(a) : l[i] = a[i]
      /\ \A i \in 1 .. Len(d) - 1 : l[Len(a) + i] = d[i + 1]
  BY MovedPath
<1> HIDE DEF l
<1>2. u \in Seq(S) /\ Len(u) = Len(l) + 1 /\ (\A i \in 1 .. Len(l) : u[i] = l[i]) /\ u[Len(l) + 1] = n
  BY <1>1, AppendProperties
<1>3. p \in Seq(S) /\ p # << >> /\ Len(p) = Len(d) + 1 /\ (\A i \in 1 .. Len(d) : p[i] = d[i]) /\ p[Len(d) + 1] = n
  BY AppendProperties
<1> HIDE DEF p, u
<1>4. /\ v \in Seq(S) /\ Len(v) = Len(a) + (Len(p) - 1)
      /\ \A i \in 1 .. Len(a) : v[i] = a[i]
      /\ \A i \in 1 .. Len(p) - 1 : v[Len(a) + i] = p[i + 1]
  <2>1. p \in Seq(S) /\ p # << >>
    BY <1>3
  <2> QED BY <2>1, MovedPath
<1> HIDE DEF v
<1>5. Len(u) = Len(v)
  <2>1. PICK k \in Nat, m \in Nat : k = Len(a) /\ m = Len(d)
    BY <1>1
  <2>2. Len(l) = k + (m - 1) /\ Len(p) = m + 1
    BY <1>1, <1>3, <2>1
  <2>3. Len(u) = k + m
    BY <1>2, <2>1, <2>2
  <2>4. Len(v) = k + m
    BY <1>4, <2>1, <2>2
  <2> QED BY <2>3, <2>4
<1>6. ASSUME NEW i \in 1 .. Len(u) PROVE u[i] = v[i]
  <2>1. CASE i <= Len(a)
    <3>1. i \in 1 .. Len(a) /\ i \in 1 .. Len(l)
      BY <1>1, <1>2, <2>1
    <3> QED BY <1>1, <1>2, <1>4, <3>1
  <2>2. CASE i > Len(a) /\ i < Len(u)
    <3>1. PICK j \in Int : j = i - Len(a)
      <4>1. i - Len(a) \in Int
        BY <1>1, <2>2
      <4> QED BY <4>1
    <3>2. i = Len(a) + j /\ j \in 1 .. Len(d) - 1 /\ i \in 1 .. Len(l) /\ j \in 1 .. Len(p) - 1 /\ j + 1 \in 1 .. Len(d)
      BY <1>1, <1>2, <1>3, <2>2, <3>1
    <3>3. u[i] = d[j + 1]
      BY <1>1, <1>2, <3>2
    <3>4. v[i] = p[j + 1] /\ p[j + 1] = d[j + 1]
      BY <1>3, <1>4, <3>2
    <3> QED BY <3>3, <3>4
  <2>3. CASE i = Len(u)
    <3>1. i = Len(l) + 1 /\ i = Len(a) + Len(d) /\ Len(d) \in 1 .. Len(p) - 1
      BY <1>1, <1>2, <1>3, <2>3
    <3>2. u[i] = n /\ v[i] = p[Len(d) + 1]
      BY <1>2, <1>4, <3>1
    <3> QED BY <1>3, <3>2
  <2>4. Len(u) \in Nat
    BY <1>1, <1>2
  <2> QED BY <2>1, <2>2, <2>3, <2>4, <1>1
<1>7. u = v
  BY <1>2, <1>4, <1>5, <1>6, SeqEqual
<1> QED BY <1>7 DEF u, v, p, l, Moved

LEMMA OneComponent ==
  ASSUME NEW S, NEW a \in Seq(S), NEW d \in Seq(S), Len(d) = 1
  PROVE  a \o Tail(d) = a
<1> DEFINE q == a \o Tail(d)
<1>1. d # << >>
  BY EmptySeq
<1>2. /\ q \in Seq(S) /\ Len(a) \in Nat /\ Len(q) = Len(a) + (Len(d) - 1) /\ \A i \in 1 .. Len(a) : q[i] = a[i]
  BY <1>1, MovedPath
<1> HIDE DEF q
<1>3. Len(q) = Len(a)
  BY <1>2
<1>4. q = a
  BY <1>2, <1>3, SeqEqual
<1> QED BY <1>4 DEF q
(***************************************************************************)
(* COPY/SUBDIR of one directory to another, outside of it.                 *)
(***************************************************************************)
Source == command.from[1]
Goal == Append(command.to.dir, <<command.to.file, command.to.type>>)
CopiesTree ==
  /\ command # NoCommand /\ command.verb = "COPY" /\ command.quals = {"SUBDIR"} /\ Len(command.from) = 1
  /\ Len(Ways[Source.way] \o Source.dir) = 1 /\ ~Begins(Source.dir, Goal)

\* The hypothesis: the second parameter of COPY/SUBDIR names a directory that is there.  Else
\* the files get its name and type, and a directory may be made of that name on the way.
TargetsThere ==
  command # NoCommand /\ command.verb = "COPY" /\ command.quals = {"SUBDIR"} => Into(command.to) # command.to

InSource(dir) == dir # << >> /\ dir[1] = Source.dir[1]
Copied(p) == Data(Goal \o Tail(p)) = Data(p)

Unprompted == ~param.confirm /\ param.ok /\ at \in {"next", "do"}
OnlySource == \A i \in DOMAIN param.rest : param.rest[i] = Source
\* Before it has set SUBDIR the search is in the first directory, and lists files.
ScansInSource ==
  \A i \in 1 .. Len(scans) :
    /\ InSource(scans[i].spec.dir) /\ scans[i].spec.way = Source.way
    /\ ~SUBDIR => scans[i].spec.dir = Source.dir /\ scans[i].pass = "files"
HandInSource ==
  at = "do" => InSource(found.dir) /\ found.way = Source.way /\ (~SUBDIR => found.dir = Source.dir)
Uninterrupted == events = 0 => ~CTRL_Y /\ ~HARDERR
CopiedOrPending ==
  events = 0 /\ _SEVERITY = 0 =>
    \A p \in DOMAIN files : Reaches(Source, p) /\ Selected(p) => p \in pending \/ Copied(p)

CopyInv ==
  /\ events = 0 => ~full
  /\ CopiesTree => Unprompted /\ OnlySource /\ ScansInSource /\ HandInSource /\ Uninterrupted /\ CopiedOrPending

LEMMA TreesApart ==
  ASSUME FileInv, CopiesTree, TargetsThere
  PROVE  /\ Source \in FileSpec /\ Source.dir \in Seq(Names) /\ Len(Source.dir) = 1 /\ Source.dir # << >>
         /\ Ways[Source.way] = << >>
         /\ Goal \in dirs /\ Goal \in Seq(Names) /\ Goal # << >> /\ Goal[1] # Source.dir[1]
         /\ Into(command.to).dir = Goal /\ Into(command.to).file = "*" /\ Into(command.to).type = "*"
<1>1. command \in Command /\ TreeOK(files, dirs)
  BY CommandsAssumption DEF FileInv, CommandOK, CopiesTree
<1>2. command.from \in Seq(FileSpec) /\ command.to \in FileSpec
  BY <1>1 DEF Command
<1>3. Source \in FileSpec
  <2>1. 1 \in 1 .. Len(command.from)
    BY DEF CopiesTree
  <2> QED BY <1>2, <2>1, ElementOfSeq DEF Source
<1>4. Source.dir \in Seq(Names) /\ Source.way \in DOMAIN Ways
  BY <1>3 DEF FileSpec
<1>5. Ways[Source.way] \in Seq(Names)
  BY <1>4, NamesAssumption
<1>6. Goal \in dirs
  BY DEF TargetsThere, CopiesTree, Into, Goal
<1>7. Into(command.to) = [command.to EXCEPT !.dir = Goal, !.file = "*", !.type = "*"]
  BY <1>6 DEF Into, Goal
<1>8. Goal \in Seq(Names) /\ Goal # << >>
  <2>1. Goal \in Seq(Names)
    BY <1>1, <1>6 DEF TreeOK
  <2> DEFINE S == Names \cup {<<command.to.file, command.to.type>>}
  <2>2. command.to.dir \in Seq(S) /\ <<command.to.file, command.to.type>> \in S
    <3>1. command.to.dir \in Seq(Names)
      BY <1>2 DEF FileSpec
    <3>2. Names \subseteq S
      OBVIOUS
    <3> HIDE DEF S
    <3>3. command.to.dir \in Seq(S)
      BY <3>1, <3>2
    <3> QED BY <3>3 DEF S
  <2> HIDE DEF S
  <2>3. Goal # << >>
    BY <2>2, AppendProperties DEF Goal
  <2> QED BY <2>1, <2>3
<1>9. Into(command.to).dir = Goal /\ Into(command.to).file = "*" /\ Into(command.to).type = "*"
  <2> HIDE DEF Goal
  <2> QED BY <1>2, <1>7 DEF FileSpec
<1>10. Len(Goal) \in Nat \ {0}
  BY <1>8, EmptySeq
<1>11. ASSUME NEW k \in Nat, k = Len(Source.dir), k <= Len(Goal), \A i \in 1 .. k : Goal[i] = Source.dir[i]
       PROVE  FALSE
  <2>1. k \in 0 .. Len(Goal)
    BY <1>10, <1>11
  <2>2. SubSeq(Goal, 1, k) \in Seq(Names) /\ Len(SubSeq(Goal, 1, k)) = k /\ \A i \in 1 .. k : SubSeq(Goal, 1, k)[i] = Goal[i]
    BY <1>8, <2>1, BeginningOf
  <2>3. SubSeq(Goal, 1, k) = Source.dir
    BY <1>4, <1>11, <2>2, SeqEqual
  <2>4. Begins(Source.dir, Goal)
    BY <1>11, <2>3 DEF Begins
  <2> QED BY <2>4 DEF CopiesTree
<1>12. PICK k \in Nat, m \in Nat : k = Len(Source.dir) /\ m = Len(Ways[Source.way])
  BY <1>4, <1>5, LenProperties
<1>13. m + k = 1
  <2>1. Len(Ways[Source.way] \o Source.dir) = Len(Ways[Source.way]) + Len(Source.dir)
    BY <1>4, <1>5, ConcatProperties
  <2> QED BY <1>12, <2>1 DEF CopiesTree
<1>14. k # 0
  BY <1>10, <1>11, <1>12
<1>15. k = 1 /\ m = 0
  BY <1>13, <1>14
<1>16. Ways[Source.way] = << >> /\ Source.dir # << >>
  <2>1. Len(Ways[Source.way]) = 0 /\ Len(Source.dir) # 0
    BY <1>12, <1>15
  <2>2. Ways[Source.way] = << >>
    BY <1>5, <2>1, EmptySeq
  <2>3. Source.dir # << >>
    BY <1>4, <2>1, EmptySeq
  <2> QED BY <2>2, <2>3
<1>17. Goal[1] # Source.dir[1]
  <2>1. 1 <= Len(Goal)
    BY <1>10
  <2>2. 1 \in Nat /\ 1 = Len(Source.dir)
    BY <1>12, <1>15
  <2>3. Goal[1] = Source.dir[1] => \A i \in 1 .. 1 : Goal[i] = Source.dir[i]
    OBVIOUS
  <2> QED BY <1>11, <2>1, <2>2, <2>3
<1> QED BY <1>3, <1>4, <1>6, <1>8, <1>9, <1>12, <1>15, <1>16, <1>17

LEMMA ReachedInSource ==
  ASSUME FileInv, CopiesTree, TargetsThere, NEW p \in Seq(Names), p # << >>, Reaches(Source, p)
  PROVE  p[1] = Source.dir[1]
<1>1. Source \in FileSpec /\ Len(Source.dir) = 1
  BY TreesApart
<1> DEFINE s == Source
<1>2. s \in FileSpec /\ Reaches(s, p)
  BY <1>1
<1> HIDE DEF s
<1>3. Leads(s.dir, p)
  BY <1>2, ReachedIsLed
<1>4. 1 \in 1 .. Len(s.dir)
  BY <1>1 DEF s
<1>5. p[1] = s.dir[1]
  BY <1>3, <1>4 DEF Leads
<1> QED BY <1>5 DEF s

\* A copy is not in the tree that is copied, and no two files have the same.
LEMMA CopyApart ==
  ASSUME FileInv, CopiesTree, TargetsThere, NEW q \in Seq(Names), q # << >>, q[1] = Source.dir[1],
         NEW p \in Seq(Names), p # << >>, p[1] = Source.dir[1]
  PROVE  p # Goal \o Tail(q) /\ (Goal \o Tail(p) = Goal \o Tail(q) => p = q)
<1>2. Goal \in Seq(Names) /\ Goal # << >> /\ Goal[1] # Source.dir[1]
  BY TreesApart
<1>3. 1 \in 1 .. Len(Goal)
  <2>1. Len(Goal) \in Nat \ {0}
    BY <1>2, EmptySeq
  <2> QED BY <2>1
<1>4. (Goal \o Tail(q))[1] = Goal[1]
  BY <1>2, <1>3, MovedPath
<1>5. Goal \o Tail(p) = Goal \o Tail(q) => p = q
  BY <1>2, MovedApart
<1> QED BY <1>2, <1>4, <1>5

\* Where COPY puts the file in hand.
LEMMA CopyGoes ==
  ASSUME FileInv, CommandInv, CopiesTree, TargetsThere, HandInSource, at = "do"
  PROVE  /\ Path(CopyTarget) = Goal \o Tail(Path(found)) /\ Components # << >>
         /\ Path(found) \in Seq(Names) /\ Path(found) # << >> /\ Path(found)[1] = Source.dir[1]
<1>1. /\ found.dir \in Seq(Names) /\ found.name \in Names
      /\ Path(found) \in Seq(Names) /\ Path(found) # << >>
  BY FoundPath
<1>2. /\ found.dir # << >> /\ found.dir[1] = Source.dir[1] /\ found.way = Source.way
      /\ ~SUBDIR => found.dir = Source.dir
  BY DEF HandInSource, InSource
<1>3. /\ Goal \in Seq(Names) /\ Ways[Source.way] = << >> /\ Len(Source.dir) = 1
      /\ Into(command.to).dir = Goal /\ Into(command.to).file = "*" /\ Into(command.to).type = "*"
  BY TreesApart
<1>4. Components = found.dir
  BY <1>1, <1>2, <1>3, ConcatEmptySeq DEF Components
<1>5. Path(found)[1] = Source.dir[1]
  <2>1. 1 \in 1 .. Len(found.dir)
    <3>1. Len(found.dir) \in Nat \ {0}
      BY <1>1, <1>2, EmptySeq
    <3> QED BY <3>1
  <2> QED BY <1>1, <1>2, <2>1, AppendProperties DEF Path
<1>6. param.to = command.to
  BY DEF CommandInv, ToKept, CopiesTree
<1>7. Target.dir = Goal /\ Target.name = found.name
  <2>1. <<found.name[1], found.name[2]>> = found.name
    BY <1>1 DEF Names
  <2> DEFINE s == Into(command.to)
  <2>2. Filled(s, {"*", ""}, found.name) = found.name
    BY <1>3, <2>1 DEF Filled
  <2>3. Target = [way |-> s.way, dir |-> s.dir, name |-> Filled(s, {"*", ""}, found.name)]
    BY <1>6 DEF Target
  <2> HIDE DEF s
  <2>4. Target.dir = s.dir /\ Target.name = Filled(s, {"*", ""}, found.name)
    BY <2>3
  <2> QED BY <1>3, <2>2, <2>4 DEF s
<1>8. CopyTarget.dir = Goal \o Tail(found.dir) /\ CopyTarget.name = found.name
  <2> DEFINE t == Target
  <2>1. t \in FoundFile
    BY TargetIsFile
  <2>2. t.dir = Goal /\ t.name = found.name
    BY <1>7
  <2>3. CopyTarget = IF SUBDIR THEN [t EXCEPT !.dir = @ \o Tail(found.dir)] ELSE t
    BY <1>4 DEF CopyTarget
  <2> HIDE DEF t, Goal
  <2>4. CASE SUBDIR
    <3> DEFINE d == Goal \o Tail(found.dir)
    <3>1. CopyTarget = [t EXCEPT !.dir = d]
      BY <2>1, <2>2, <2>3, <2>4 DEF FoundFile
    <3> HIDE DEF d
    <3>2. CopyTarget.dir = d /\ CopyTarget.name = t.name
      BY <2>1, <3>1 DEF FoundFile
    <3> QED BY <2>2, <3>2 DEF d
  <2>5. CASE ~SUBDIR
    <3>1. Goal \o Tail(found.dir) = Goal
      BY <1>1, <1>2, <1>3, <2>5, OneComponent
    <3> QED BY <2>2, <2>3, <2>5, <3>1
  <2> QED BY <2>4, <2>5
<1>9. Append(Goal \o Tail(found.dir), found.name) = Goal \o Tail(Append(found.dir, found.name))
  <2>1. Goal \in Seq(Names) /\ found.dir \in Seq(Names) /\ found.dir # << >> /\ found.name \in Names
    BY <1>1, <1>2, <1>3
  <2>2. Append(Moved(Goal, found.dir), found.name) = Moved(Goal, Append(found.dir, found.name))
    BY <2>1, MovedFile
  <2> QED BY <2>2 DEF Moved
<1> QED BY <1>1, <1>2, <1>4, <1>5, <1>8, <1>9 DEF Path
(***************************************************************************)
(* The steps keep CopyInv.                                                 *)
(***************************************************************************)
LEMMA CopyingHas ==
  ASSUME CopyInv, CopiesTree
  PROVE  Unprompted /\ OnlySource /\ ScansInSource /\ HandInSource /\ Uninterrupted /\ CopiedOrPending
BY DEF CopyInv

LEMMA SameCommand ==
  ASSUME UNCHANGED command
  PROVE  (CopiesTree' <=> CopiesTree) /\ Source' = Source /\ Goal' = Goal
BY DEF CopiesTree, Source, Goal

\* Steps that treat no file.
LEMMA NoneCopied ==
  ASSUME UNCHANGED <<files, command, pending, events, _SEVERITY>>, CopiedOrPending
  PROVE  CopiedOrPending'
BY DEF CopiedOrPending, Source, Goal, Reaches, Matches, Selected, Date, Has, Copied, Data

LEMMA AnyCopied ==
  ASSUME events' # 0
  PROVE  Uninterrupted' /\ CopiedOrPending'
BY DEF Uninterrupted, CopiedOrPending

LEMMA OfferUnprompted ==
  ASSUME FileInv, CopiesTree, Unprompted, OnlySource, at = "next", UNCHANGED command,
         NEW dir, NEW n, NEW isdir, Offer(dir, n, isdir) \/ NoOffer
  PROVE  /\ Unprompted' /\ OnlySource'
         /\ at' = "do" => found' = [way |-> Top.spec.way, dir |-> dir, name |-> n]
<1>1. command # NoCommand
  BY DEF CopiesTree
<1>2. /\ param'.confirm = param.confirm /\ param'.ok = param.ok /\ param'.rest = param.rest
      /\ at' \in {"next", "ask", "do"} /\ (at' = "ask" => param.confirm)
  BY <1>1, SearchKeepsFlags
<1>3. Unprompted' /\ OnlySource'
  BY <1>2 DEF Unprompted, OnlySource, Source
<1>4. at' = "do" => found' = [way |-> Top.spec.way, dir |-> dir, name |-> n]
  BY OfferFinds DEF NoOffer
<1> QED BY <1>3, <1>4

\* What the file in hand is when the search shows a file.
LEMMA HandFromTop ==
  ASSUME ScansOK, scans # << >>, ScansInSource, UNCHANGED <<command, SUBDIR>>,
         NEW n, at' = "do" => found' = [way |-> Top.spec.way, dir |-> Top.spec.dir, name |-> n]
  PROVE  HandInSource'
<1>1. 1 \in 1 .. Len(scans)
  BY TopIsScan
<1>2. InSource(Top.spec.dir) /\ Top.spec.way = Source.way /\ (~SUBDIR => Top.spec.dir = Source.dir)
  BY <1>1 DEF ScansInSource, Top
<1> DEFINE way == Top.spec.way
           dir == Top.spec.dir
<1>3. InSource(dir) /\ way = Source.way /\ (~SUBDIR => dir = Source.dir)
  BY <1>2
<1>4. at' = "do" => found' = [way |-> way, dir |-> dir, name |-> n]
  OBVIOUS
<1> HIDE DEF way, dir
<1>5. at' = "do" => found'.way = way /\ found'.dir = dir
  BY <1>4
<1> QED BY <1>3, <1>5 DEF HandInSource, InSource, Source

LEMMA ScanSpec ==
  ASSUME TreeOK(files, dirs), NEW s \in FileSpec, NEW dir \in Seq(Names), NEW pass \in {"files", "dirs", "all"}
  PROVE  LET new == Scan(s, dir, pass)
         IN  new \in OpenScan /\ new.spec.dir = dir /\ new.spec.way = s.way /\ new.pass = pass
<1>1. Scan(s, dir, pass) \in OpenScan
  BY NewScan
<1>2. Scan(s, dir, pass).spec.dir = dir /\ Scan(s, dir, pass).spec.way = s.way /\ Scan(s, dir, pass).pass = pass
  BY DEF Scan, FileSpec
<1> QED BY <1>1, <1>2

LEMMA NextFileCopies ==
  ASSUME FileInv, CommandInv, CopyInv, CopiesTree, NextFile
  PROVE  Unprompted' /\ OnlySource' /\ ScansInSource' /\ HandInSource'
<1>1. /\ at = "next" /\ scans # << >> /\ UNCHANGED <<files, dirs, command, SUBDIR>>
  BY DEF NextFile, Searching
<1>2. PICK n \in Entries(Top.spec.dir) : dcl_searchdir(n, Append(Top.spec.dir, n) \in dirs)
  <2>1. command.verb # "DELETE"
    BY DEF CopiesTree
  <2> QED BY <2>1 DEF NextFile
<1>3. TreeOK(files, dirs) /\ ScansOK /\ n \in Names
  BY EntriesAreNames DEF FileInv
<1>4. Unprompted /\ OnlySource /\ ScansInSource
  BY CopyingHas
<1>5. Len(scans) \in Nat \ {0} /\ Top.spec.dir \in Seq(Names) /\ Top.spec \in FileSpec
  BY <1>1, <1>3, TopIsScan
<1>6. \E isdir : Offer(Top.spec.dir, n, isdir) \/ NoOffer
  BY <1>2 DEF dcl_searchdir, Enter
<1>7. Unprompted' /\ OnlySource'
      /\ (at' = "do" => found' = [way |-> Top.spec.way, dir |-> Top.spec.dir, name |-> n])
  BY <1>1, <1>4, <1>6, OfferUnprompted
<1>8. HandInSource'
  BY <1>1, <1>3, <1>4, <1>7, HandFromTop
<1>9. CASE scans' = <<Show(n)>> \o Tail(scans)
  <2>1. /\ Len(scans') = Len(scans)
        /\ \A i \in 1 .. Len(scans) : scans'[i].spec = scans[i].spec /\ scans'[i].pass = scans[i].pass
    BY <1>1, <1>3, <1>9, ShowKeepsDirs
  <2>2. ScansInSource'
    BY <1>1, <1>4, <2>1 DEF ScansInSource, InSource, Source
  <2> QED BY <1>7, <1>8, <2>2
<1>10. CASE Top.pass = "dirs" /\ Enter(n, "files")
  <2> DEFINE new == Scan(Top.spec, Append(Top.spec.dir, n), "files")
             k == Len(scans)
  <2>1. /\ Append(Top.spec.dir, n) \in Seq(Names) /\ Append(Top.spec.dir, n) # << >>
    BY <1>3, <1>5, AppendedPath
  <2>2. InSource(Top.spec.dir) /\ Top.spec.way = Source.way /\ SUBDIR
    <3>1. 1 \in 1 .. Len(scans)
      BY <1>5
    <3> QED BY <1>4, <1>10, <3>1 DEF ScansInSource, Top
  <2>3. InSource(Append(Top.spec.dir, n))
    <3>1. 1 \in 1 .. Len(Top.spec.dir)
      <4>1. Len(Top.spec.dir) \in Nat \ {0}
        BY <1>5, <2>2, EmptySeq DEF InSource
      <4> QED BY <4>1
    <3>2. Append(Top.spec.dir, n)[1] = Top.spec.dir[1]
      BY <1>3, <1>5, <3>1, AppendProperties
    <3> QED BY <2>1, <2>2, <3>2 DEF InSource
  <2>4. new.spec.dir = Append(Top.spec.dir, n) /\ new.spec.way = Top.spec.way
    <3> DEFINE s == Top.spec
               d == Append(s.dir, n)
    <3>1. s \in FileSpec /\ d \in Seq(Names)
      BY <1>5, <2>1
    <3> HIDE DEF s, d
    <3>2. Scan(s, d, "files").spec.dir = d /\ Scan(s, d, "files").spec.way = s.way
      BY <1>3, <3>1, ScanSpec
    <3> QED BY <3>2 DEF s, d
  <2>5. /\ Len(scans') = k + 1 /\ scans'[1] = new
        /\ \A i \in 1 .. k : scans'[i + 1].spec = scans[i].spec /\ scans'[i + 1].pass = scans[i].pass
    BY <1>1, <1>3, <1>10, EnterTyped, EnterKeepsDirs DEF Enter
  <2>6. \A i \in 1 .. k : InSource(scans[i].spec.dir) /\ scans[i].spec.way = Source.way
    BY <1>4 DEF ScansInSource
  <2>7. k \in Nat
    BY <1>5
  <2> HIDE DEF new, k
  <2>8. ASSUME NEW i \in 1 .. k + 1
        PROVE  InSource(scans'[i].spec.dir) /\ scans'[i].spec.way = Source.way
    <3>1. CASE i = 1
      BY <2>2, <2>3, <2>4, <2>5, <3>1
    <3>2. CASE i # 1
      <4>1. i - 1 \in 1 .. k /\ i - 1 + 1 = i
        BY <2>7, <3>2
      <4>2. scans'[i].spec = scans[i - 1].spec
        BY <2>5, <4>1
      <4> QED BY <2>6, <4>1, <4>2
    <3> QED BY <3>1, <3>2
  <2>9. ScansInSource'
    BY <1>1, <2>2, <2>5, <2>8 DEF ScansInSource, InSource, Source
  <2> QED BY <1>7, <1>8, <2>9
<1> QED BY <1>2, <1>9, <1>10 DEF dcl_searchdir

LEMMA EndSearchCopies ==
  ASSUME FileInv, CommandInv, CopyInv, CopiesTree, EndSearch
  PROVE  Unprompted' /\ OnlySource' /\ ScansInSource' /\ HandInSource'
<1>1. /\ at = "next" /\ scans # << >> /\ UNCHANGED <<files, dirs, command>>
  BY DEF EndSearch, Searching
<1>2. TreeOK(files, dirs) /\ ScansOK
  BY DEF FileInv
<1>3. Unprompted /\ OnlySource /\ ScansInSource
  BY CopyingHas
<1>4. /\ Len(scans) \in Nat \ {0} /\ Top.spec \in FileSpec /\ Top.spec.dir \in Seq(Names)
      /\ Len(Tail(scans)) = Len(scans) - 1
      /\ \A i \in 1 .. Len(scans) - 1 : Tail(scans)[i] = scans[i + 1]
  BY <1>1, <1>2, TopIsScan
<1>5. Top.pass # "all"
  BY <1>4 DEF CommandInv, PassesOK, CopiesTree, Top
<1>6. NoOffer
  BY <1>5 DEF EndSearch
<1>7. Unprompted' /\ OnlySource' /\ at' = "next"
  BY <1>1, <1>3, <1>6 DEF NoOffer, Unprompted, OnlySource, Source
<1>8. HandInSource'
  BY <1>7 DEF HandInSource
<1>9. CASE scans' = <<Scan(Top.spec, Top.spec.dir, "dirs")>> \o Tail(scans) /\ SUBDIR' = TRUE
  <2> DEFINE new == Scan(Top.spec, Top.spec.dir, "dirs")
  <2>1. new \in OpenScan /\ new.spec.dir = Top.spec.dir /\ new.spec.way = Top.spec.way
    BY <1>2, <1>4, ScanSpec
  <2> HIDE DEF new
  <2>2. /\ Len(scans') = Len(scans) /\ scans'[1] = new
        /\ \A i \in 2 .. Len(scans) : scans'[i] = scans[i]
    BY <1>1, <1>2, <1>9, <2>1, TopReplaced DEF ScansOK, new
  <2>3. \A i \in 1 .. Len(scans) : InSource(scans[i].spec.dir) /\ scans[i].spec.way = Source.way
    BY <1>3 DEF ScansInSource
  <2>4. ASSUME NEW i \in 1 .. Len(scans)
        PROVE  InSource(scans'[i].spec.dir) /\ scans'[i].spec.way = Source.way
    <3>1. CASE i = 1
      BY <2>1, <2>2, <2>3, <3>1 DEF Top
    <3>2. CASE i # 1
      <4>1. i \in 2 .. Len(scans)
        BY <1>4, <3>2
      <4> QED BY <2>2, <2>3, <4>1
    <3> QED BY <3>1, <3>2
  <2>5. ScansInSource'
    BY <1>1, <1>9, <2>2, <2>4 DEF ScansInSource, InSource, Source
  <2> QED BY <1>7, <1>8, <2>5
<1>10. CASE scans' = Tail(scans) /\ UNCHANGED SUBDIR
  <2>1. ASSUME NEW i \in 1 .. Len(scans')
        PROVE  i + 1 \in 1 .. Len(scans) /\ scans'[i] = scans[i + 1]
    BY <1>4, <1>10
  <2>2. ScansInSource'
    BY <1>1, <1>3, <1>10, <2>1 DEF ScansInSource, InSource, Source
  <2> QED BY <1>7, <1>8, <2>2
<1> QED BY <1>9, <1>10 DEF EndSearch

LEMMA NextPatternCopies ==
  ASSUME FileInv, CopyInv, CopiesTree, TargetsThere, NextPattern
  PROVE  Unprompted' /\ OnlySource' /\ ScansInSource' /\ HandInSource'
<1>1. /\ at = "next" /\ param.rest # << >> /\ UNCHANGED <<files, dirs, command, at, SUBDIR>>
      /\ param' = [param EXCEPT !.rest = Tail(@)]
      /\ scans' = <<Scan(Head(param.rest), Head(param.rest).dir, "files")>>
  BY DEF NextPattern, Searching, NextParam, CopiesTree
<1>2. command # NoCommand /\ Unprompted /\ OnlySource
  BY CopyingHas DEF CopiesTree
<1>3. param \in Params /\ param.rest \in Seq(FileSpec) /\ TreeOK(files, dirs)
  BY <1>2 DEF FileInv, CommandOK, Params
<1>4. /\ Len(param.rest) \in Nat \ {0} /\ Head(param.rest) = param.rest[1]
      /\ Len(Tail(param.rest)) = Len(param.rest) - 1
      /\ \A i \in 1 .. Len(Tail(param.rest)) : Tail(param.rest)[i] = param.rest[i + 1]
      /\ DOMAIN param.rest = 1 .. Len(param.rest) /\ DOMAIN Tail(param.rest) = 1 .. Len(Tail(param.rest))
  BY <1>1, <1>3, EmptySeq, HeadTailProperties, LenProperties
<1>5. Head(param.rest) = Source
  BY <1>2, <1>4 DEF OnlySource
<1>6. Unprompted' /\ OnlySource'
  <2>1. param'.confirm = param.confirm /\ param'.ok = param.ok /\ param'.rest = Tail(param.rest)
    BY <1>1, <1>3 DEF Params
  <2>2. ASSUME NEW i \in DOMAIN Tail(param.rest) PROVE Tail(param.rest)[i] = Source
    <3>1. i + 1 \in DOMAIN param.rest /\ Tail(param.rest)[i] = param.rest[i + 1]
      BY <1>4
    <3> QED BY <1>2, <3>1 DEF OnlySource
  <2> QED BY <1>1, <1>2, <2>1, <2>2 DEF Unprompted, OnlySource, Source
<1>7. ScansInSource'
  <2> DEFINE new == Scan(Source, Source.dir, "files")
  <2>1. Source \in FileSpec /\ Source.dir \in Seq(Names) /\ Source.dir # << >>
    BY TreesApart
  <2>2. new.spec.dir = Source.dir /\ new.spec.way = Source.way /\ new.pass = "files"
    BY <1>3, <2>1, ScanSpec
  <2>3. Len(scans') = 1 /\ scans'[1] = new
    BY <1>1, <1>5
  <2> HIDE DEF new
  <2>4. \A i \in 1 .. Len(scans') : scans'[i] = new
    BY <2>3
  <2> QED BY <1>1, <2>1, <2>2, <2>4 DEF ScansInSource, InSource, Source
<1>8. HandInSource'
  BY <1>1 DEF HandInSource
<1> QED BY <1>6, <1>7, <1>8
LEMMA WrittenData ==
  ASSUME NEW r, NEW data, files' = Written(r, data)
  PROVE  /\ DOMAIN files' = DOMAIN files \cup {r} /\ Data(r)' = data
         /\ \A p : p # r => Data(p)' = Data(p) /\ Date(p)' = Date(p)
<1>1. files' = [q \in DOMAIN files \cup {r} |-> IF q = r THEN [data |-> data, date |-> 2] ELSE files[q]]
  BY DEF Written, With
<1> QED BY <1>1 DEF Data, Date

\* The heart of it: what is copied is a whole file, goes to its place, and to the place of no other.
LEMMA FileCopied ==
  ASSUME FileInv, CommandInv, CopyInv, CopiesTree, TargetsThere, vms_copy, events = 0, _SEVERITY' = 0
  PROVE  CopiedOrPending'
<1>1. at = "do" /\ UNCHANGED <<command, full, events>> /\ pending' = pending \ {Path(found)}
  BY DEF vms_copy, Doing
<1>2. HandInSource /\ CopiedOrPending /\ ~full
  BY CopyingHas DEF CopyInv
<1>3. PICK q, dst : q = Path(found) /\ dst = Path(CopyTarget)
  OBVIOUS
<1>4. dst = Goal \o Tail(q) /\ q \in Seq(Names) /\ q # << >> /\ q[1] = Source.dir[1] /\ pending' = pending \ {q}
  BY <1>1, <1>2, <1>3, CopyGoes
<1>5. PICK src : src = IF dst = q THEN << >> ELSE Data(q)
  OBVIOUS
<1>6. PICK n \in 0 .. Len(src) :
        (n < Len(src) => full) /\ files' = Written(dst, SubSeq(src, 1, n)) /\ (Succeed \/ Fail)
  <2>1. ~Fail
    BY DEF Fail
  <2>2. filecopy
    BY <2>1 DEF vms_copy
  <2> QED BY <1>3, <1>5, <2>2 DEF filecopy
<1>7. _SEVERITY = 0
  BY <1>6 DEF Succeed, Fail
<1>8. dst # q /\ src = Data(q) /\ src \in Seq(Pieces \cup {Erased})
  <2>1. dst # q
    BY <1>4, CopyApart
  <2> QED BY <1>5, <2>1, DataIsPieces DEF FileInv
<1>9. SubSeq(src, 1, n) = src
  <2>1. Len(src) \in Nat
    BY <1>8, LenProperties
  <2>2. n = Len(src)
    BY <1>2, <1>6, <2>1
  <2> QED BY <1>8, <2>2
<1>10. /\ DOMAIN files' = DOMAIN files \cup {dst} /\ Data(dst)' = src
       /\ \A p : p # dst => Data(p)' = Data(p) /\ Date(p)' = Date(p)
  <2>1. files' = Written(dst, src)
    BY <1>6, <1>9
  <2> QED BY <2>1, WrittenData
<1>11. Goal' = Goal /\ Source' = Source
  BY <1>1, SameCommand
<1>12. ASSUME NEW p \in DOMAIN files', Reaches(Source, p)', Selected(p)'
       PROVE  p \in pending' \/ Copied(p)'
  <2>1. Reaches(Source, p)
    BY <1>1, <1>12 DEF Reaches, Matches, Has, Source
  <2>2. p \in Seq(Names) /\ p # << >>
    <3>1. TreeOK(files', dirs')
      BY FileSteps DEF FileInv, Next, Treat
    <3> QED BY <3>1 DEF TreeOK
  <2>3. p[1] = Source.dir[1]
    BY <2>1, <2>2, ReachedInSource
  <2>4. p # dst /\ (p # q => Goal \o Tail(p) # dst)
    BY <1>4, <2>2, <2>3, CopyApart
  <2>5. Data(p)' = Data(p) /\ Date(p)' = Date(p) /\ p \in DOMAIN files
    BY <1>10, <2>4
  <2>6. PICK x : x = Goal \o Tail(p)
    OBVIOUS
  <2>7. (Copied(p)' <=> Data(x)' = Data(p)') /\ (Copied(p) <=> Data(x) = Data(p))
    BY <1>11, <2>6 DEF Copied, Data
  <2>8. CASE p = q
    <3>1. x = dst
      BY <1>4, <2>6, <2>8
    <3>2. Data(x)' = src
      BY <1>10, <3>1
    <3> QED BY <1>8, <2>5, <2>7, <2>8, <3>2
  <2>9. CASE p # q
    <3>1. Selected(p)
      BY <1>1, <1>12, <2>5 DEF Selected
    <3>2. p \in pending \/ Copied(p)
      BY <1>2, <1>7, <2>1, <2>5, <3>1 DEF CopiedOrPending
    <3>3. x # dst
      BY <2>4, <2>6, <2>9
    <3>4. Data(x)' = Data(x)
      BY <1>10, <3>3
    <3> QED BY <1>4, <2>5, <2>7, <2>9, <3>2, <3>4
  <2> QED BY <2>8, <2>9
<1> QED BY <1>12 DEF CopiedOrPending

LEMMA TreatCopies ==
  ASSUME FileInv, CommandInv, CopyInv, CopiesTree, TargetsThere, Treat
  PROVE  CopyInv'
<1>1. CopyNothing \/ CopyUndefined \/ vms_copy
  BY DEF Treat, DeleteFile, DeleteDir, CopyNothing, CopyUndefined, vms_copy, vms_rename, vms_append,
         dcltype_do_it, vms_print, dclsetf_do_it, Doing, CopiesTree
<1>2. /\ at = "do" /\ at' = "next" /\ UNCHANGED <<command, param, scans, SUBDIR, CTRL_Y, HARDERR, full, events>>
  BY <1>1 DEF CopyNothing, CopyUndefined, vms_copy, Doing
<1>3. Unprompted /\ OnlySource /\ ScansInSource /\ HandInSource /\ Uninterrupted
  BY CopyingHas
<1>4. vms_copy
  <2>1. ~Has("NEW")
    BY DEF CopiesTree, Has
  <2>2. Components # << >>
    BY <1>2, <1>3, CopyGoes
  <2> QED BY <1>1, <2>1, <2>2 DEF CopyNothing, TooOld, CopyUndefined
<1>5. CopiedOrPending'
  <2>1. CASE events = 0 /\ _SEVERITY' = 0
    BY <1>4, <2>1, FileCopied
  <2>2. CASE ~(events = 0 /\ _SEVERITY' = 0)
    BY <1>2, <2>2 DEF CopiedOrPending
  <2> QED BY <2>1, <2>2
<1>6. Unprompted' /\ OnlySource' /\ ScansInSource' /\ HandInSource' /\ Uninterrupted'
  BY <1>2, <1>3 DEF Unprompted, OnlySource, ScansInSource, HandInSource, Uninterrupted, InSource, Source
<1> QED BY <1>2, <1>5, <1>6 DEF CopyInv

LEMMA BeginCopies ==
  ASSUME FileInv, CopyInv, NEW c \in Commands, Begin(c)
  PROVE  CopyInv'
<1>1. /\ command = NoCommand /\ command' = c /\ param' = FirstParam(c)
      /\ SUBDIR' = (SUBDIR /\ c.verb # "COPY") /\ CTRL_Y' = FALSE /\ HARDERR' = FALSE
      /\ UNCHANGED <<files, dirs, scans, at, full, events>>
      /\ pending' = {p \in DOMAIN files : Selected(p) /\ \E i \in DOMAIN param.rest : Reaches(param.rest[i], p)}'
  BY DEF Begin
<1>2. scans = << >> /\ at = "next" /\ c \in Command
  BY <1>1, CommandsAssumption, RecordsAreSomething DEF FileInv, CommandOK
<1>3. Len(scans') = 0
  BY <1>1, <1>2
<1> SUFFICES ASSUME CopiesTree'
             PROVE  Unprompted' /\ OnlySource' /\ ScansInSource' /\ HandInSource' /\ Uninterrupted' /\ CopiedOrPending'
  BY <1>1 DEF CopyInv
<1>4. c.verb = "COPY" /\ c.quals = {"SUBDIR"} /\ Len(c.from) = 1 /\ Source' = c.from[1]
  BY <1>1 DEF CopiesTree, Source
<1>5. param' = [confirm |-> "CONFIRM" \in c.quals, ok |-> TRUE, file_nb |-> FALSE, to |-> c.to, rest |-> c.from]
  BY <1>1, <1>4 DEF FirstParam
<1>6. ~param'.confirm /\ param'.ok /\ param'.rest = c.from
  BY <1>4, <1>5
<1>7. DOMAIN c.from = {1}
  <2>1. c.from \in Seq(FileSpec)
    BY <1>2 DEF Command
  <2>2. DOMAIN c.from = 1 .. 1
    BY <1>4, <2>1, LenProperties
  <2> QED BY <2>2
<1>8. Unprompted' /\ OnlySource' /\ ScansInSource' /\ HandInSource' /\ Uninterrupted'
  BY <1>1, <1>2, <1>3, <1>4, <1>6, <1>7 DEF Unprompted, OnlySource, ScansInSource, HandInSource, Uninterrupted
<1>9. ASSUME NEW p \in DOMAIN files', Reaches(Source, p)', Selected(p)' PROVE p \in pending'
  <2>1. 1 \in DOMAIN param'.rest /\ param'.rest[1] = Source'
    BY <1>4, <1>6, <1>7
  <2>2. Reaches(param.rest[1], p)'
    BY <1>9, <2>1
  <2> QED BY <1>1, <1>9, <2>1, <2>2
<1> QED BY <1>8, <1>9 DEF CopiedOrPending
LEMMA CopySteps ==
  ASSUME FileInv, CommandInv, CopyInv, TargetsThere, [Next]_vars
  PROVE  CopyInv'
<1>1. CASE NextFile \/ EndSearch \/ NextPattern
  <2>1. UNCHANGED <<files, command, pending, events, _SEVERITY, CTRL_Y, HARDERR, full>>
    BY <1>1 DEF NextFile, EndSearch, NextPattern
  <2>2. ASSUME CopiesTree
        PROVE  /\ Unprompted' /\ OnlySource' /\ ScansInSource' /\ HandInSource'
               /\ Uninterrupted' /\ CopiedOrPending'
    <3>1. Unprompted' /\ OnlySource' /\ ScansInSource' /\ HandInSource'
      BY <1>1, <2>2, NextFileCopies, EndSearchCopies, NextPatternCopies
    <3>2. Uninterrupted' /\ CopiedOrPending'
      BY <2>1, <2>2, CopyingHas, NoneCopied DEF Uninterrupted
    <3> QED BY <3>1, <3>2
  <2>3. CopiesTree' <=> CopiesTree
    BY <2>1, SameCommand
  <2> QED BY <2>1, <2>2, <2>3 DEF CopyInv
<1>2. CASE Finish
  <2>1. ~CopiesTree' /\ UNCHANGED <<full, events>>
    BY <1>2 DEF Finish, CopiesTree
  <2> QED BY <2>1 DEF CopyInv
<1>3. CASE Ask \/ Answer
  <2>1. at \in {"ask", "answer"} /\ UNCHANGED <<command, full, events>>
    BY <1>3 DEF Ask, Answer
  <2>2. ~CopiesTree
    BY <2>1, CopyingHas DEF Unprompted
  <2>3. ~CopiesTree'
    BY <2>1, <2>2, SameCommand
  <2> QED BY <2>1, <2>3 DEF CopyInv
<1>4. CASE Treat
  <2>1. CASE CopiesTree
    BY <1>4, <2>1, TreatCopies
  <2>2. CASE ~CopiesTree
    <3>1. UNCHANGED <<command, full, events>>
      BY <1>4 DEF Treat, DeleteFile, DeleteDir, CopyNothing, CopyUndefined, vms_copy, vms_rename, vms_append,
                  dcltype_do_it, vms_print, dclsetf_do_it, Doing
    <3>2. ~CopiesTree'
      BY <2>2, <3>1, SameCommand
    <3> QED BY <3>1, <3>2 DEF CopyInv
  <2> QED BY <2>1, <2>2
<1>5. CASE \E c \in Commands : Begin(c)
  BY <1>5, BeginCopies
<1>6. CASE CtrlC \/ Removed \/ DiskFills
  <2>1. events \in Nat /\ events' = events + 1
    BY <1>6 DEF CtrlC, Removed, DiskFills, CommandInv
  <2>2. events' # 0
    BY <2>1
  <2>3. UNCHANGED <<command, param, found, at, SUBDIR>>
    BY <1>6 DEF CtrlC, Removed, DiskFills
  <2>4. /\ Len(scans') = Len(scans)
        /\ \A i \in 1 .. Len(scans) : scans'[i].spec = scans[i].spec /\ scans'[i].pass = scans[i].pass
    <3>1. UNCHANGED scans \/ \E p : Forget(p)
      BY <1>6 DEF CtrlC, Removed, DiskFills
    <3>2. ScansOK
      BY DEF FileInv
    <3>3. ASSUME NEW p, Forget(p)
          PROVE  /\ Len(scans') = Len(scans)
                 /\ \A i \in 1 .. Len(scans) : scans'[i].spec = scans[i].spec /\ scans'[i].pass = scans[i].pass
      BY <3>2, <3>3, ForgetChanges
    <3> QED BY <3>1, <3>3
  <2>5. ASSUME CopiesTree
        PROVE  Unprompted' /\ OnlySource' /\ ScansInSource' /\ HandInSource'
    <3>1. Unprompted /\ OnlySource /\ ScansInSource /\ HandInSource
      BY <2>5, CopyingHas
    <3>2. ScansInSource'
      BY <2>3, <2>4, <3>1 DEF ScansInSource, InSource, Source
    <3> QED BY <2>3, <3>1, <3>2 DEF Unprompted, OnlySource, HandInSource, InSource, Source
  <2>6. CopiesTree' <=> CopiesTree
    BY <2>3, SameCommand
  <2> QED BY <2>2, <2>5, <2>6, AnyCopied DEF CopyInv
<1>7. CASE UNCHANGED vars
  <2>1. CopiesTree' <=> CopiesTree
    BY <1>7, SameCommand DEF vars
  <2>2. ASSUME CopiesTree
        PROVE  /\ Unprompted' /\ OnlySource' /\ ScansInSource' /\ HandInSource'
               /\ Uninterrupted' /\ CopiedOrPending'
    <3>1. Unprompted' /\ OnlySource' /\ ScansInSource' /\ HandInSource' /\ Uninterrupted'
      BY <1>7, <2>2, CopyingHas
         DEF vars, Unprompted, OnlySource, ScansInSource, HandInSource, Uninterrupted, InSource, Source
    <3>2. CopiedOrPending'
      BY <1>7, <2>2, CopyingHas, NoneCopied DEF vars
    <3> QED BY <3>1, <3>2
  <2>3. UNCHANGED <<full, events>>
    BY <1>7 DEF vars
  <2> QED BY <2>1, <2>2, <2>3 DEF CopyInv
<1> QED BY <1>1, <1>2, <1>3, <1>4, <1>5, <1>6, <1>7 DEF Next, Search, User

\* At its end nothing is pending, so that all is copied.
LEMMA CopyEnds ==
  ASSUME FileInv, CopyInv, NothingMissed, TargetsThere
  PROVE  TreeCopied
<1> SUFFICES ASSUME SearchDone, command.verb = "COPY", command.quals = {"SUBDIR"}, Len(command.from) = 1,
                    _SEVERITY = 0, events = 0,
                    Len(Ways[Source.way] \o Source.dir) = 1, Into(command.to) # command.to,
                    ~Begins(Source.dir, Into(command.to).dir),
                    NEW p \in DOMAIN files, Reaches(Source, p), Selected(p)
             PROVE  Data(Into(command.to).dir \o Tail(p)) = Data(p)
  BY DEF TreeCopied, Source
<1>1. command # NoCommand
  BY DEF SearchDone, Searching, Running
<1>2. Into(command.to).dir = Goal
  <2>1. command.to \in FileSpec
    <3>1. command \in Command
      BY <1>1, CommandsAssumption DEF FileInv, CommandOK
    <3> QED BY <3>1 DEF Command
  <2>2. Into(command.to) = [command.to EXCEPT !.dir = Goal, !.file = "*", !.type = "*"]
    BY DEF Into, Goal
  <2> HIDE DEF Goal
  <2> QED BY <2>1, <2>2 DEF FileSpec
<1>3. CopiesTree
  BY <1>1, <1>2 DEF CopiesTree
<1>4. Unprompted /\ Uninterrupted /\ CopiedOrPending
  BY <1>3, CopyingHas
<1>5. p \notin pending
  BY <1>4 DEF NothingMissed, Unprompted, Uninterrupted
<1>6. Copied(p)
  BY <1>4, <1>5 DEF CopiedOrPending
<1> QED BY <1>2, <1>6 DEF Copied

(***************************************************************************)
(* COPY/SUBDIR copies the whole tree, where the directory it copies to is  *)
(* there: vms_copy puts each file in its own place, none in the tree that  *)
(* it copies, whatever the order in which the directories are listed and   *)
(* though it makes directories and files while they are.                   *)
(***************************************************************************)
THEOREM TreeAlwaysCopied == Spec /\ []TargetsThere => []TreeCopied
<1>1. Init => CopyInv
  <2>1. Init => command = NoCommand /\ full = FALSE
    BY Zenon DEF Init
  <2> QED BY <2>1 DEF CopyInv, CopiesTree
<1>2. FileInv /\ CommandInv /\ CopyInv /\ TargetsThere /\ [Next]_vars => CopyInv'
  BY CopySteps
<1>3. FileInv /\ CopyInv /\ NothingMissed /\ TargetsThere => TreeCopied
  BY CopyEnds
<1>4. Spec /\ []TargetsThere => []CopyInv
  BY <1>1, <1>2, CommandInvAlways, PTL DEF Spec
<1> QED BY <1>3, <1>4, CommandInvAlways, NothingIsMissed, PTL
=============================================================================
