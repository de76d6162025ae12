---------------------------- MODULE LogicalFiles ----------------------------
(***************************************************************************)
(* Logical names and the files opened through them: LOGICAL_TABLE and      *)
(* dclfile[], with OPEN, CLOSE, READ, WRITE, DEFINE, ASSIGN, ALLOCATE and  *)
(* DEASSIGN.                                                               *)
(*                                                                         *)
(* The records of a file have one length, so a file is a sequence and a    *)
(* position in it is the number of records before it.  What is written is  *)
(* on disk at once, and a file in use cannot be deleted.  What a command   *)
(* prints, and the label it goes to, are left to DclSession.               *)
(***************************************************************************)
EXTENDS Integers, Sequences

CONSTANTS
  FileNames,      \* the logical names of OPEN, CLOSE, READ and WRITE
  DefinedNames,   \* the logical names of DEFINE, ASSIGN and ALLOCATE
  SystemNames,    \* the logical names dcl_init_default_logicals defines
  Files,          \* file specifications, the values of logical names
  Records,        \* what WRITE may write
  Content,        \* what the records of a file may hold
  Disks,          \* what the disk may hold at the start
  Qualifiers,     \* the combinations of /READ, /WRITE and /APPEND given to OPEN
  LOGICAL_MAX,
  Slots           \* the length of dclfile[]

CONSTANT MaxRecords   \* records a file may grow to: not a bound of the code

ASSUME SizesAssumption == LOGICAL_MAX \in Nat /\ Slots \in Nat \ {0} /\ MaxRecords \in Nat
\* "gap" is what fills the records before one that is written past the end.
ASSUME RecordsAssumption == Records \cup {"gap"} \subseteq Content
ASSUME DisksAssumption == \A d \in Disks : DOMAIN d \subseteq Files /\ d \in [DOMAIN d -> Seq(Content)]
ASSUME QualifiersAssumption == Qualifiers \subseteq SUBSET {"READ", "WRITE", "APPEND"}

VARIABLES
  LOGICAL_TABLE,
  dclfile,
  disk,         \* the files that exist: file -> records
  undefined     \* a stream is used after fclose, or read when it was just written

\* Observation only: the number of the record that each name read last since its
\* OPEN, and whether that READ is the last command of the name.
VARIABLE seen

vars == <<LOGICAL_TABLE, dclfile, disk, undefined, seen>>

Names == FileNames \cup DefinedNames \cup SystemNames
LOG_USER == 0
LOG_ALLOC == 1
LOG_SYSTEM == 2

\* A stream of the C library.  A stream that is closed is kept where the program
\* keeps the pointer; by is the logical name that OPEN gave it.
Stream == [file: Files, by: Names, pos: Nat, append: BOOLEAN, wrote: BOOLEAN, closed: BOOLEAN]
NULL == << >>

\* mode is empty for a name that no OPEN made; its filenum is 0 all the same.
Entry == [name: Names, value: Files, system_flag: 0..2, filenum: 0..Slots - 1,
          mode: SUBSET {"READ", "WRITE", "APPEND"}, recl: BOOLEAN, rptr: Nat, wptr: Nat]
Unused == << >>

Plain(n, v, flag) ==
  [name |-> n, value |-> v, system_flag |-> flag, filenum |-> 0,
   mode |-> {}, recl |-> FALSE, rptr |-> 0, wptr |-> 0]

(***************************************************************************)
(* LOGICAL_TABLE                                                           *)
(***************************************************************************)
Rows == 1..LOGICAL_MAX
Taken == {i \in Rows : LOGICAL_TABLE[i] # Unused}
Matches(n) == {i \in Taken : LOGICAL_TABLE[i].name = n}
First(rows) == CHOOSE i \in rows : \A j \in rows : i <= j

\* xlogical_get
Found(n) == Matches(n) # {}
Get(n) == LOGICAL_TABLE[First(Matches(n))]

\* xlogical_put: a name of a higher kind is not replaced, and a full table not
\* extended.
PutAnew(e) ==
  LOGICAL_TABLE' = IF Taken # Rows THEN [LOGICAL_TABLE EXCEPT ![First(Rows \ Taken)] = e] ELSE LOGICAL_TABLE
Put(e) ==
  LOGICAL_TABLE' =
    IF Found(e.name)
    THEN IF Get(e.name).system_flag <= e.system_flag
         THEN [LOGICAL_TABLE EXCEPT ![First(Matches(e.name))] = e]
         ELSE LOGICAL_TABLE
    ELSE IF Taken # Rows THEN [LOGICAL_TABLE EXCEPT ![First(Rows \ Taken)] = e] ELSE LOGICAL_TABLE

\* logical_del
DelAny(n) ==
  LOGICAL_TABLE' = IF Found(n) THEN [LOGICAL_TABLE EXCEPT ![First(Matches(n))] = Unused] ELSE LOGICAL_TABLE
Del(n) ==
  LOGICAL_TABLE' =
    IF Found(n) /\ Get(n).system_flag # LOG_SYSTEM
    THEN [LOGICAL_TABLE EXCEPT ![First(Matches(n))] = Unused]
    ELSE LOGICAL_TABLE

(***************************************************************************)
(* Helpers of the commands.                                                *)
(***************************************************************************)
Used(n) == seen' = [seen EXCEPT ![n].now = FALSE]

Failed(n) ==
  /\ Used(n)
  /\ UNCHANGED <<LOGICAL_TABLE, dclfile, disk, undefined>>

\* The C library is called with a stream it does not know any more.
Undefined(n) ==
  /\ undefined' = TRUE
  /\ UNCHANGED <<LOGICAL_TABLE, dclfile, disk, seen>>

SlotOf(n) == Get(n).filenum
Open(s) == dclfile[s] # NULL /\ ~dclfile[s].closed

\* Record number r of a file is written; a gap before it is filled.
Written(records, r, rec) ==
  [i \in 1..(IF r > Len(records) THEN r ELSE Len(records)) |->
     IF i = r THEN rec ELSE IF i <= Len(records) THEN records[i] ELSE "gap"]

(***************************************************************************)
(* OPEN                                                                    *)
(***************************************************************************)
ModeOf(qualifiers) == IF qualifiers = {} THEN {"READ"} ELSE qualifiers

\* fopen with "w", with "a", and with "r" or "r+".
Creates(mode) == mode \in {{"WRITE"}, {"APPEND"}}
Opened(f, mode) ==
  CASE mode = {"WRITE"}  -> [g \in DOMAIN disk \cup {f} |-> IF g = f THEN << >> ELSE disk[g]]
    [] mode = {"APPEND"} -> [g \in DOMAIN disk \cup {f} |-> IF g \in DOMAIN disk THEN disk[g] ELSE << >>]
    [] OTHER             -> disk

FreeSlotsAndClosed == {s \in 0..Slots - 1 : ~Open(s)}
FreeSlots == {s \in 0..Slots - 1 : dclfile[s] = NULL}

PlaceStream(n, f, mode, recl) ==
  LET s == First(FreeSlots)
  IN  /\ dclfile' = [dclfile EXCEPT ![s] =
                       [file |-> f, by |-> n, pos |-> 0, append |-> mode = {"APPEND"},
                        wrote |-> FALSE, closed |-> FALSE]]
      /\ Put([name |-> n, value |-> f, system_flag |-> LOG_USER, filenum |-> s, mode |-> mode,
              recl |-> recl, rptr |-> 0, wptr |-> IF "APPEND" \in mode THEN Len(disk'[f]) ELSE 0])
      /\ seen' = [seen EXCEPT ![n] = [rec |-> 0, now |-> FALSE]]

\* With every slot taken the stream that fopen gave is lost.
DclOpen(n, f, qualifiers, recl) ==
  LET mode == ModeOf(qualifiers)
  IN  \/ Failed(n)
      \/ /\ ~({"WRITE", "APPEND"} \subseteq mode)
         /\ Creates(mode) \/ f \in DOMAIN disk
         /\ disk' = Opened(f, mode)
         /\ IF FreeSlots # {} THEN PlaceStream(n, f, mode, recl)
                              ELSE Used(n) /\ UNCHANGED <<LOGICAL_TABLE, dclfile>>
         /\ UNCHANGED undefined

(***************************************************************************)
(* CLOSE [/DISPOSITION=DELETE]                                             *)
(***************************************************************************)
NotInUse(f, s) == ~\E t \in 0..Slots - 1 : t # s /\ Open(t) /\ dclfile[t].file = f

\* The name and the slot are given up,
Forget(n, slots) ==
  /\ Del(n)
  /\ dclfile' = [s \in 0..Slots - 1 |-> IF s \in slots THEN NULL ELSE dclfile[s]]
  /\ seen' = [seen EXCEPT ![n] = [rec |-> 0, now |-> FALSE]]

\* or the command ends when unlink fails, the stream being closed already.
Unlink(n, slots) ==
  \/ /\ dclfile' = [s \in 0..Slots - 1 |->
                      IF s \in slots /\ dclfile[s] # NULL THEN [dclfile[s] EXCEPT !.closed = TRUE]
                      ELSE dclfile[s]]
     /\ Used(n)
     /\ UNCHANGED <<LOGICAL_TABLE, disk>>
  \/ \E f \in DOMAIN disk :
       /\ slots # {} /\ f = Get(n).value /\ NotInUse(f, SlotOf(n))
       /\ disk' = [g \in DOMAIN disk \ {f} |-> disk[g]]
       /\ Forget(n, slots)

DclClose(n, delete) ==
  LET slots == IF Found(n) THEN {SlotOf(n)} ELSE {}
      given == {s \in slots : dclfile[s] # NULL}
  IN  \/ (\E s \in given : dclfile[s].closed) /\ Undefined(n)
      \/ \* fclose fails: the stream is gone, its slot is not.
         \E s \in given :
           /\ ~dclfile[s].closed
           /\ dclfile' = [dclfile EXCEPT ![s].closed = TRUE]
           /\ Used(n)
           /\ UNCHANGED <<LOGICAL_TABLE, disk, undefined>>
      \/ /\ \A s \in given : ~dclfile[s].closed
         /\ IF delete THEN Unlink(n, slots) ELSE Forget(n, slots) /\ UNCHANGED disk
         /\ UNCHANGED undefined

(***************************************************************************)
(* READ [/RRN=record] and WRITE                                            *)
(***************************************************************************)

\* The name leads to a stream, and was opened for it.
Usable(n, modes) == Found(n) /\ dclfile[SlotOf(n)] # NULL /\ Get(n).mode \cap modes # {}

\* /RRN only moves the pointers of a file with fixed-length records.
RptrOf(n, rrn) == IF rrn = 0 THEN Get(n).rptr ELSE IF Get(n).recl THEN rrn - 1 ELSE 0

\* A text file is read where its stream is, a record file where rptr says.
PosOf(n, rptr) == IF Get(n).recl THEN rptr ELSE dclfile[SlotOf(n)].pos

\* A record file is positioned before every use: where its stream is does not matter.
Move(n, pos, wrote) ==
  dclfile' = IF Get(n).recl THEN dclfile
             ELSE [dclfile EXCEPT ![SlotOf(n)].pos = pos, ![SlotOf(n)].wrote = wrote]

ReadRecordPast(n, rptr, pos, sure) ==
  LET f == dclfile[SlotOf(n)].file
      records == IF f \in DOMAIN disk THEN disk[f] ELSE << >>
  IN  \/ /\ pos < Len(records)
         /\ Move(n, pos + 1, FALSE)
         /\ Put([Get(n) EXCEPT !.system_flag = LOG_USER, !.rptr = pos + 1, !.wptr = pos + 1])
         /\ seen' = [seen EXCEPT ![n] = [rec |-> pos + 1, now |-> sure]]
      \/ /\ pos >= Len(records)
         /\ Move(n, pos, FALSE)
         /\ Used(n)
         /\ UNCHANGED LOGICAL_TABLE

ReadRecord(n, rptr, pos, sure) ==
  LET f == dclfile[SlotOf(n)].file
      records == IF f \in DOMAIN disk THEN disk[f] ELSE << >>
  IN  \/ /\ pos < Len(records)
         /\ Move(n, pos + 1, FALSE)
         /\ Put([Get(n) EXCEPT !.system_flag = LOG_USER, !.rptr = pos + 1, !.wptr = rptr])
         /\ seen' = [seen EXCEPT ![n] = [rec |-> pos + 1, now |-> sure]]
      \/ /\ pos >= Len(records)
         /\ Move(n, pos, FALSE)
         /\ Used(n)
         /\ UNCHANGED LOGICAL_TABLE

DclRead(n, rrn) ==
  \/ ~Usable(n, {"READ"}) /\ Failed(n)
  \/ /\ Usable(n, {"READ"})
     /\ LET stream == dclfile[SlotOf(n)]
            rptr == RptrOf(n, rrn)
        IN  \/ (stream.closed \/ stream.wrote) /\ Undefined(n)
            \/ ~stream.closed /\ Failed(n)
            \/ /\ ~(stream.closed \/ stream.wrote)
               /\ ReadRecord(n, rptr, PosOf(n, rptr), Get(n).recl \/ rrn = 0)
               /\ UNCHANGED <<disk, undefined>>

WriteRecordBoth(n, rec, r) ==
  LET f == dclfile[SlotOf(n)].file
  IN  /\ r <= MaxRecords
      /\ disk' = [disk EXCEPT ![f] = Written(disk[f], r, rec)]
      /\ Move(n, r, TRUE)
      /\ Put([Get(n) EXCEPT !.system_flag = LOG_USER, !.wptr = r, !.rptr = r])
      /\ Used(n)

WriteRecord(n, rec, r) ==
  LET f == dclfile[SlotOf(n)].file
  IN  /\ r <= MaxRecords
      /\ disk' = [disk EXCEPT ![f] = Written(disk[f], r, rec)]
      /\ Move(n, r, TRUE)
      /\ Put([Get(n) EXCEPT !.system_flag = LOG_USER, !.wptr = r])
      /\ Used(n)

\* A stream opened with "a" writes at the end, wherever fseek has put it.
DclWrite(n, rec) ==
  \/ ~Usable(n, {"WRITE", "APPEND"}) /\ Failed(n)
  \/ /\ Usable(n, {"WRITE", "APPEND"})
     /\ LET stream == dclfile[SlotOf(n)]
        IN  \/ stream.closed /\ Undefined(n)
            \/ /\ ~stream.closed   \* fwrite or fputs fails
               /\ Move(n, Get(n).wptr, TRUE)
               /\ Used(n)
               /\ UNCHANGED <<LOGICAL_TABLE, disk, undefined>>
            \/ /\ ~stream.closed
               /\ WriteRecord(n, rec, 1 + IF stream.append THEN Len(disk[stream.file]) ELSE Get(n).wptr)
               /\ UNCHANGED undefined

(***************************************************************************)
(* DEFINE and ASSIGN, ALLOCATE, DEASSIGN and DEALLOCATE                    *)
(***************************************************************************)
Named(n, v, flag) ==
  /\ Put(Plain(n, v, flag))
  /\ UNCHANGED <<dclfile, disk, undefined, seen>>

DefineLogical(n, v) == Named(n, v, LOG_USER)
Assign(v, n) == Named(n, v, LOG_USER)
Allocate(v, n) == Named(n, v, LOG_ALLOC)

\* SET DEFAULT and the prompt define SYS$DISK again.
SetDisk(n, v) == Named(n, v, LOG_SYSTEM)

Deassign(n) ==
  /\ Del(n)
  /\ UNCHANGED <<dclfile, disk, undefined, seen>>

\* /ALL deletes the name that an uninitialized variable holds, if any.
DeassignAll ==
  /\ \/ UNCHANGED LOGICAL_TABLE
     \/ \E n \in Names : Del(n)
  /\ UNCHANGED <<dclfile, disk, undefined, seen>>

(***************************************************************************)
(* The specification.                                                      *)
(***************************************************************************)
SystemTable ==
  {t \in [Rows -> {Unused} \cup {Plain(n, f, LOG_SYSTEM) : n \in SystemNames, f \in Files}] :
     /\ \A n \in SystemNames : \E i \in Rows : t[i] # Unused /\ t[i].name = n
     /\ \A i, j \in Rows : t[i] # Unused /\ t[j] # Unused /\ t[i].name = t[j].name => i = j
     /\ \A i \in Rows : t[i] # Unused => \A j \in 1..i : t[j] # Unused}

Init ==
  /\ LOGICAL_TABLE \in SystemTable
  /\ dclfile = [s \in 0..Slots - 1 |-> NULL]
  /\ disk \in Disks
  /\ undefined = FALSE
  /\ seen = [n \in FileNames |-> [rec |-> 0, now |-> FALSE]]

FileCommand(n) ==
  \/ \E f \in Files, qualifiers \in Qualifiers, recl \in BOOLEAN :
       DclOpen(n, f, qualifiers, recl)
  \/ \E delete \in BOOLEAN : DclClose(n, delete)
  \/ \E rrn \in 0..MaxRecords : DclRead(n, rrn)
  \/ \E rec \in Records : DclWrite(n, rec)

NameCommand ==
  \/ \E n \in DefinedNames \cup SystemNames, v \in Files :
       DefineLogical(n, v) \/ Assign(v, n) \/ Allocate(v, n)
  \/ \E n \in SystemNames, v \in Files : SetDisk(n, v)
  \/ \E n \in Names : Deassign(n)
  \/ DeassignAll

Next == ~undefined /\ (NameCommand \/ \E n \in FileNames : FileCommand(n))
Spec == Init /\ [][Next]_vars

(***************************************************************************)
(* Properties.                                                             *)
(***************************************************************************)
\* Types, and no name is twice in LOGICAL_TABLE.
FilesTypeOK ==
  /\ LOGICAL_TABLE \in [Rows -> {Unused} \cup Entry]
  /\ \A i, j \in Taken : LOGICAL_TABLE[i].name = LOGICAL_TABLE[j].name => i = j
  /\ dclfile \in [0..Slots - 1 -> {NULL} \cup Stream]
  /\ DOMAIN disk \subseteq Files /\ disk \in [DOMAIN disk -> Seq(Content)]
  /\ undefined \in BOOLEAN
  /\ seen \in [FileNames -> [rec: Nat, now: BOOLEAN]]

\* A name that OPEN has put in LOGICAL_TABLE leads through its filenum to the
\* stream that this OPEN, of the same name and file, put in dclfile: whatever other
\* names are opened, closed, deassigned and redefined, and after fclose, unlink or
\* a search for free places has failed.
LeadsToItsFile ==
  \A i \in Taken : LOGICAL_TABLE[i].mode # {} =>
    LET stream == dclfile[LOGICAL_TABLE[i].filenum]
    IN  stream # NULL /\ stream.by = LOGICAL_TABLE[i].name /\ stream.file = LOGICAL_TABLE[i].value

\* CLOSE only closes what OPEN opened under the same name: every other name that
\* leads to an open stream before leads to it afterwards.
ClosesItsFile ==
  [][\A n \in FileNames, delete \in BOOLEAN :
       DclClose(n, delete) =>
         \A s \in 0..Slots - 1 : Open(s) /\ dclfile[s].by # n => dclfile'[s] = dclfile[s]]_vars

\* The names the program defines itself stay in LOGICAL_TABLE, at their place and
\* with their rank, whatever is opened, defined and deassigned.
SystemNamesStay ==
  [][\A i \in Taken : LOGICAL_TABLE[i].system_flag = LOG_SYSTEM =>
       \E v \in Files : LOGICAL_TABLE'[i] = Plain(LOGICAL_TABLE[i].name, v, LOG_SYSTEM)]_vars

\* READ without /RRN delivers the record after the one that the name read last, the
\* first one after OPEN, whatever was written in between and through which names.
ReadsNext ==
  [][\A n \in FileNames :
       seen'[n].now /\ DclRead(n, 0) => seen'[n].rec = seen[n].rec + 1]_vars

\* WRITE right after a READ of the same name puts its record in the place of the one
\* that was read and leaves the others of the file alone.
RewritesWhatWasRead ==
  [][\A n \in FileNames, rec \in Records :
       /\ seen[n].now /\ disk' # disk /\ DclWrite(n, rec)
       /\ seen[n].rec \in DOMAIN disk[Get(n).value]
       => disk' = [disk EXCEPT ![Get(n).value][seen[n].rec] = rec]]_vars
=============================================================================
