----------------------------- MODULE FileNames ------------------------------
(***************************************************************************)
(* File specifications (xcvfs.c): from the form of the program to the one  *)
(* of the commands, "[a.b]file.ext" where FILESPECS is VMS, and back.  A   *)
(* text is a sequence of characters; "000000" is the six zeros.            *)
(***************************************************************************)
EXTENDS Integers, Sequences, SequencesExt

CONSTANT logical   \* the logical names that have a value, and it

Slash == "\\"
LastSlash(s) == SelectLastInSeq(s, LAMBDA c : c = Slash)

(***************************************************************************)
(* Logical names: ten translations at most, each of the whole text and,    *)
(* where that has no value, of the text without its last ':'.              *)
(***************************************************************************)
MaxTranslations == 10
logical_get(name) == IF name \in DOMAIN logical THEN logical[name] ELSE << >>
WithoutColon(name) == IF name # << >> /\ Last(name) = ":" THEN Front(name) ELSE name

\* The name that is asked for next is the value, or what is left of the name.
cvfs_translate_logical(s) ==
  LET save[i \in 0..MaxTranslations] ==
        LET name == save[i - 1]
            value == IF logical_get(name) # << >> THEN logical_get(name) ELSE logical_get(WithoutColon(name))
        IN IF i = 0 THEN s ELSE IF value = << >> THEN name ELSE value
  IN save[MaxTranslations]

(***************************************************************************)
(* A text is taken apart from its beginning.                               *)
(***************************************************************************)
Split(s, n) == [part |-> SubSeq(s, 1, n), rest |-> SubSeq(s, n + 1, Len(s))]

Colon(s) == SelectInSeq(s, LAMBDA c : c = ":")
cvfs_get_device(s) == Split(s, Colon(s))
cvfs_get_drive(s) == [Split(s, Colon(s)) EXCEPT !.part = IF Colon(s) = 0 THEN @ ELSE <<s[1], ":">>]

EndWithSlash(path) == IF path # << >> /\ Last(path) # Slash THEN Append(path, Slash) ELSE path

PathCharacterPointed(st, c, next, dots) ==
  CASE c = "[" ->
         IF st.path # << >> THEN [st EXCEPT !.path = Append(@, c)]
         ELSE IF next \in {"]", "."} THEN st ELSE [st EXCEPT !.path = <<Slash>>]
    [] c = "]" -> [st EXCEPT !.path = EndWithSlash(@)]
    [] c = "." ->
         [st EXCEPT !.point = @ + 1,
                    !.path = IF st.point # 0 \/ dots THEN @
                             ELSE IF Len(@) = 1 /\ ~st.root THEN << >> ELSE EndWithSlash(@)]
    [] c = "-" -> [st EXCEPT !.path = IF Len(@) = 1 THEN <<".", ".">> ELSE Append(@, c)]
    [] c = "000000" ->
         IF Len(st.path) = 1 THEN [st EXCEPT !.path = EndWithSlash(@), !.root = TRUE]
         ELSE [st EXCEPT !.path = Append(@, c)]
    [] OTHER -> [st EXCEPT !.path = Append(@, c)]

\* One character c of "[...]", followed by next; dots tells that it begins "...".
PathCharacter(st, c, next, dots) ==
  CASE c = "[" ->
         IF st.path # << >> THEN [st EXCEPT !.path = Append(@, c)]
         ELSE IF next \in {"]", "."} THEN st ELSE [st EXCEPT !.path = <<Slash>>]
    [] c = "]" -> [st EXCEPT !.path = EndWithSlash(@)]
    [] c = "." ->
         [st EXCEPT !.point = @ + 1,
                    !.path = IF st.point # 0 \/ dots THEN @
                             ELSE IF Len(@) = 1 /\ ~st.root THEN << >> ELSE EndWithSlash(@)]
    [] c = "-" -> [st EXCEPT !.path = IF Len(@) = 1 THEN <<".", ".">> ELSE Append(@, c)]
    [] c = "000000" ->
         IF Len(st.path) = 1 THEN [st EXCEPT !.path = EndWithSlash(@), !.root = TRUE]
         ELSE [st EXCEPT !.path = Append(@, c)]
    [] OTHER -> [st EXCEPT !.path = Append(@, c), !.point = 0]

\* s ends with the bracket, or does not close it.
InBrackets(s) ==
  LET Char(i) == IF i \in DOMAIN s THEN s[i] ELSE ""
      after[i \in 0..Len(s)] ==
        IF i = 0 THEN [path |-> << >>, point |-> 0, root |-> FALSE]
        ELSE PathCharacter(after[i - 1], s[i], Char(i + 1), \A j \in i..i + 2 : Char(j) = ".")
  IN after[Len(s)]

Path(path, recurse, rest) == [part |-> path, recurse |-> recurse, rest |-> rest]
VmsPath(st, rest) == Path(st.path, st.point = 3, rest)
cvfs_get_path(s) ==
  IF s # << >> /\ s[1] = "["
  THEN LET n == IF Contains(s, "]") THEN SelectInSeq(s, LAMBDA c : c = "]") ELSE Len(s)
       IN VmsPath(InBrackets(SubSeq(s, 1, n)), SubSeq(s, n + 1, Len(s)))
  ELSE LET n == LastSlash(s) IN Path(SubSeq(s, 1, n), FALSE, SubSeq(s, n + 1, Len(s)))

(***************************************************************************)
(* From the form of the commands.  The name of the node and the version    *)
(* are dropped; a device may be a logical name, its path comes first.      *)
(***************************************************************************)
WithoutNode(s) ==
  LET node == {i \in 1..Len(s) - 2 : s[i] = ":" /\ s[i + 1] = ":"}
  IN IF node = {} THEN s ELSE SubSeq(s, 2 + (CHOOSE i \in node : \A j \in node : i <= j), Len(s))
WithoutVersion(s) ==
  LET version == SelectInSeq(s, LAMBDA c : c = ";")
  IN IF version = 0 THEN s ELSE SubSeq(s, 1, version - 1)
Bracketed(s) == [i \in DOMAIN s |-> CASE s[i] = "<" -> "[" [] s[i] = ">" -> "]" [] OTHER -> s[i]]

Internal(work, path) ==
  [internal |-> work.part \o cvfs_get_path(work.rest).part \o path.part \o path.rest, recurse |-> path.recurse]
OfDevice(device) ==
  Internal(cvfs_get_device(cvfs_translate_logical(device.part)), cvfs_get_path(device.rest))
cvfs_vms_to_dos(external) ==
  OfDevice(cvfs_get_device(Bracketed(cvfs_translate_logical(WithoutVersion(WithoutNode(external))))))

\* A list is recursive when one of its specifications is.
cvfs_lst_to_dos(list) ==
  LET names == [i \in DOMAIN list |-> cvfs_vms_to_dos(list[i])]
  IN [internal |-> [i \in DOMAIN list |-> names[i].internal],
      recurse |-> \E i \in DOMAIN list : names[i].recurse]

(***************************************************************************)
(* To the form of the commands.  When neither drive nor path came out, the *)
(* character looked at is the one before the caller's array.               *)
(***************************************************************************)
InVmsForm(s) ==
  LET Dots(i) == i \in DOMAIN s /\ s[i] = "." /\ i + 1 \in DOMAIN s /\ s[i + 1] = "."
      skipped[i \in Nat] == i > 1 /\ Dots(i - 1) /\ ~skipped[i - 1]
      Written(i) ==
        CASE skipped[i] -> << >>
          [] s[i] = Slash -> IF i = 1 THEN << >> ELSE <<".">>
          [] s[i] = "." -> IF Dots(i) THEN <<"-">> ELSE << >>
          [] OTHER -> <<s[i]>>
      open == IF s = << >> THEN << >> ELSE IF s[1] \in {Slash, "."} THEN <<"[">> ELSE <<"[", ".">>
  IN open \o FlattenSeq([i \in DOMAIN s |-> Written(i)])

Closed(out, before) ==
  CASE out = << >> -> IF before = "[" THEN <<"]">> ELSE out
    [] Last(out) = "[" -> Append(out, "]")
    [] Last(out) = "." -> Append(Front(out), "]")
    [] OTHER -> out
InBracketsAfter(drive, path, before) == Closed(drive.part \o InVmsForm(path.part), before) \o path.rest
cvfs_dos_to_vms(internal, before) ==
  LET drive == cvfs_get_drive(internal)
  IN InBracketsAfter(drive, cvfs_get_path(drive.rest), before)

(***************************************************************************)
(* F$DIRECTORY, and SET DEFAULT with what it delivered: where the process  *)
(* is afterwards.  A directory is a path that ends with a slash; chdir     *)
(* refuses the empty name.                                                 *)
(***************************************************************************)
f_directory(cwd, before) == cvfs_dos_to_vms(Append(IF cwd = <<Slash>> THEN cwd ELSE Front(cwd), Slash), before)
Changed(cwd, dos) ==
  CASE dos = << >> -> cwd
    [] Head(dos) = Slash -> EndWithSlash(dos)
    [] OTHER -> cwd \o EndWithSlash(dos)
dcl_change_dir(vms, cwd) == Changed(cwd, cvfs_vms_to_dos(vms).internal)

(***************************************************************************)
(* Names as drive, directories and file.                                   *)
(***************************************************************************)
Directories(absolute, names) ==
  (IF absolute THEN <<Slash>> ELSE << >>) \o FlattenSeq([i \in DOMAIN names |-> Append(names[i], Slash)])

\* Names that the form of the commands can say: no root, no directory of zeros, a dot only in "..",
\* in front, and below the current directory none that begins with one letter and a dot or "-".
Parent == <<".", ".">>
Sayable(absolute, names) ==
  /\ absolute => names # << >>
  /\ \A i \in DOMAIN names :
       /\ names[i] # <<"000000">>
       /\ Contains(names[i], ".") => i = 1 /\ names[i] = Parent /\ ~absolute
  /\ names # << >> =>
       /\ Head(names)[1] # "-"
       /\ absolute \/ (IF Len(Head(names)) = 1 THEN Len(names) = 1 ELSE Head(names)[2] # "-")

\* A name can be written with a node, a version, angle brackets and, from the root on, "000000".
FromRoot(vms) ==
  LET n == SelectInSeq(vms, LAMBDA c : c = "[")
  IN SubSeq(vms, 1, n) \o <<"000000", ".">> \o SubSeq(vms, n + 1, Len(vms))
Angled(vms) == [i \in DOMAIN vms |-> CASE vms[i] = "[" -> "<" [] vms[i] = "]" -> ">" [] OTHER -> vms[i]]
Spellings(vms, absolute) ==
  {vms, <<"n", ":", ":">> \o vms, vms \o <<";", "1">>, Angled(vms), IF absolute THEN FromRoot(vms) ELSE vms}

\* xcvfs.c:34, specify.hlp:96: a name goes to the form of the commands and comes back the same,
\* however that is written, one whose directories are in brackets, and searched below only where
\* "..." says so.
InForm(vms) == ~Contains(vms, Slash)
NameKept(absolute, names, drive, file, before) ==
  Sayable(absolute, names) /\ (drive # << >> \/ names # << >> \/ (file # << >> /\ before # "[")) =>
    LET name == drive \o Directories(absolute, names) \o file
    IN /\ InForm(cvfs_dos_to_vms(name, before))
       /\ \A vms \in Spellings(cvfs_dos_to_vms(name, before), absolute) :
            cvfs_vms_to_dos(vms) = [internal |-> name, recurse |-> FALSE]

\* define.hlp:64: a name below the current directory that is given with a logical name as its
\* device is below the directory that stands for it, also in a list with other names.
OnDevice(device, names, file, before) ==
  Sayable(FALSE, names) /\ names # << >> /\ Head(names) # Parent =>
    LET below == Directories(FALSE, names) \o file
        vms == Append(device, ":") \o cvfs_dos_to_vms(below, before)
    IN cvfs_lst_to_dos(<<file, vms>>) =
         [internal |-> <<file, cvfs_vms_to_dos(device).internal \o below>>, recurse |-> FALSE]

\* lexicals.hlp:270: SET DEFAULT with what F$DIRECTORY has saved restores the directory, the root
\* left out.
DefaultRestored(names, cwd, before) ==
  Sayable(TRUE, names) =>
    dcl_change_dir(f_directory(Directories(TRUE, names), before), cwd) = Directories(TRUE, names)
=============================================================================
