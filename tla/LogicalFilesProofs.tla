------------------------- MODULE LogicalFilesProofs -------------------------
(***************************************************************************)
(* Every name that OPEN made leads to the stream of its own file, as long  *)
(* as no name is used both for files and for definitions.                  *)
(***************************************************************************)
EXTENDS LogicalFiles, FiniteSetTheorems, SequenceTheorems, TLAPS

(***************************************************************************)
(* The first row of a set of rows.                                         *)
(***************************************************************************)

\* A set of natural numbers has a least element, the one First chooses: from the
\* well-foundedness of strict inclusion on the intervals 0..i.
LEMMA FirstIsLeast ==
  ASSUME NEW S \in SUBSET Nat, S # {}
  PROVE  First(S) \in S /\ \A j \in S : First(S) <= j
<1> DEFINE T == {0..i : i \in S}
           R == StrictSubsetOrdering(Nat)
<1>1. T \subseteq FiniteSubsetsOf(Nat)
  <2> SUFFICES ASSUME NEW i \in S PROVE 0..i \in FiniteSubsetsOf(Nat)
    OBVIOUS
  <2>1. IsFiniteSet(0..i)
    BY FS_Interval
  <2> QED BY <2>1 DEF FiniteSubsetsOf
<1>2. IsWellFoundedOn(R, FiniteSubsetsOf(Nat))
  BY FS_StrictSubsetOrderingWellFounded
<1>3. T # {}
  OBVIOUS
<1> HIDE DEF T, R
<1>4. PICK x \in T : \A y \in T : ~(<<y, x>> \in R)
  BY <1>1, <1>2, <1>3, WFMin
<1>5. PICK i \in S : x = 0..i
  BY <1>4 DEF T
<1>6. ASSUME NEW j \in S, j < i PROVE FALSE
  <2>1. 0..j \in T
    BY DEF T
  <2>2. 0..j \subseteq 0..i /\ 0..j # 0..i
    <3>1. i \in 0..i /\ i \notin 0..j
      BY <1>6
    <3> QED BY <1>6, <3>1
  <2>3. <<0..j, 0..i>> \in (SUBSET Nat) \X (SUBSET Nat)
    OBVIOUS
  <2>4. <<0..j, x>> \in R
    BY <1>5, <2>2, <2>3 DEF R, StrictSubsetOrdering
  <2> QED BY <1>4, <2>1, <2>4
<1>7. \A j \in S : i <= j
  BY <1>6
<1> QED BY <1>7 DEF First

LEMMA RowsAreNumbers == Rows \subseteq Nat
BY SizesAssumption DEF Rows

(***************************************************************************)
(* LOGICAL_TABLE after Put and Del.                                        *)
(***************************************************************************)
TableOK(t) ==
  /\ t \in [Rows -> {Unused} \cup Entry]
  /\ \A i, j \in Rows : t[i] # Unused /\ t[j] # Unused /\ t[i].name = t[j].name => i = j

\* The row that Get finds.
LEMMA GetIsRow ==
  ASSUME NEW n, Found(n), TableOK(LOGICAL_TABLE)
  PROVE  /\ First(Matches(n)) \in Rows
         /\ LOGICAL_TABLE[First(Matches(n))] = Get(n)
         /\ Get(n) # Unused /\ Get(n) \in Entry /\ Get(n).name = n
         /\ \A i \in Rows : LOGICAL_TABLE[i] # Unused /\ LOGICAL_TABLE[i].name = n
                              => i = First(Matches(n))
<1>1. First(Matches(n)) \in Matches(n)
  BY FirstIsLeast, RowsAreNumbers DEF Found, Matches, Taken
<1> QED BY <1>1 DEF Matches, Taken, Get, TableOK

\* Put changes at most one row, into the new entry, and no name comes twice.
LEMMA PutKeepsTable ==
  ASSUME TableOK(LOGICAL_TABLE), NEW e \in Entry, e # Unused, Put(e)
  PROVE  /\ TableOK(LOGICAL_TABLE')
         /\ \A i \in Rows : LOGICAL_TABLE'[i] = LOGICAL_TABLE[i] \/ LOGICAL_TABLE'[i] = e
<1>1. CASE Found(e.name)
  <2> DEFINE k == First(Matches(e.name))
  <2>1. /\ k \in Rows /\ LOGICAL_TABLE[k] # Unused /\ LOGICAL_TABLE[k].name = e.name
    BY <1>1, GetIsRow
  <2> HIDE DEF k
  <2>2. LOGICAL_TABLE' = LOGICAL_TABLE \/ LOGICAL_TABLE' = [LOGICAL_TABLE EXCEPT ![k] = e]
    BY <1>1 DEF Put, k
  <2> QED BY <2>1, <2>2 DEF TableOK
<1>2. CASE ~Found(e.name) /\ Taken # Rows
  <2> DEFINE k == First(Rows \ Taken)
  <2>1. k \in Rows \ Taken
    BY <1>2, FirstIsLeast, RowsAreNumbers DEF Taken
  <2> HIDE DEF k
  <2>2. LOGICAL_TABLE' = [LOGICAL_TABLE EXCEPT ![k] = e]
    BY <1>2 DEF Put, k
  <2>3. \A i \in Rows : LOGICAL_TABLE[i] # Unused => LOGICAL_TABLE[i].name # e.name
    BY <1>2 DEF Found, Matches, Taken
  <2> QED BY <2>1, <2>2, <2>3 DEF TableOK
<1>3. CASE ~Found(e.name) /\ Taken = Rows
  BY <1>3 DEF Put
<1> QED BY <1>1, <1>2, <1>3

\* Del empties at most one row, the one with the name unless it is the system's.
LEMMA DelKeepsTable ==
  ASSUME TableOK(LOGICAL_TABLE), NEW n, Del(n)
  PROVE  /\ TableOK(LOGICAL_TABLE')
         /\ \A i \in Rows : LOGICAL_TABLE'[i] = LOGICAL_TABLE[i] \/ LOGICAL_TABLE'[i] = Unused
         /\ \A i \in Rows : LOGICAL_TABLE'[i] # Unused /\ LOGICAL_TABLE'[i].name = n
                              => LOGICAL_TABLE'[i].system_flag = LOG_SYSTEM
<1>1. CASE Found(n) /\ Get(n).system_flag # LOG_SYSTEM
  <2> DEFINE k == First(Matches(n))
  <2>1. k \in Rows /\ \A i \in Rows : LOGICAL_TABLE[i] # Unused /\ LOGICAL_TABLE[i].name = n => i = k
    BY <1>1, GetIsRow
  <2> HIDE DEF k
  <2>2. LOGICAL_TABLE' = [LOGICAL_TABLE EXCEPT ![k] = Unused]
    BY <1>1 DEF Del, k
  <2> QED BY <2>1, <2>2 DEF TableOK
<1>2. CASE Found(n) /\ Get(n).system_flag = LOG_SYSTEM
  <2>1. LOGICAL_TABLE' = LOGICAL_TABLE
    BY <1>2 DEF Del
  <2> QED BY <1>2, <2>1, GetIsRow DEF TableOK
<1>3. CASE ~Found(n)
  <2>1. LOGICAL_TABLE' = LOGICAL_TABLE
    BY <1>3 DEF Del
  <2> QED BY <1>3, <2>1 DEF Found, Matches, Taken, TableOK
<1> QED BY <1>1, <1>2, <1>3

(***************************************************************************)
(* The inductive invariant.  What LeadsToItsFile lacks: a name was opened  *)
(* if and only if it is one that only OPEN gives, so that CLOSE does not   *)
(* take the filenum of a name that was defined; it never gets the rank of  *)
(* the system's names, which CLOSE would leave in the table; and the file  *)
(* of an open stream exists, so that WRITE knows its length.               *)
(***************************************************************************)
RowOK(e, streams) ==
  e # Unused =>
    /\ e.mode # {} <=> e.name \in FileNames
    /\ e.mode # {} => /\ e.system_flag # LOG_SYSTEM
                      /\ streams[e.filenum] # NULL
                      /\ streams[e.filenum].by = e.name
                      /\ streams[e.filenum].file = e.value
RowsOK == \A i \in Rows : RowOK(LOGICAL_TABLE[i], dclfile)
StreamsOK == \A s \in 0..Slots - 1 : Open(s) => dclfile[s].file \in DOMAIN disk
DiskOK(d) == DOMAIN d \subseteq Files /\ d \in [DOMAIN d -> Seq(Content)]

FilesInv == FilesTypeOK /\ RowsOK /\ StreamsOK

LEMMA TypesByPart ==
  FilesTypeOK <=> /\ TableOK(LOGICAL_TABLE)
                  /\ dclfile \in [0..Slots - 1 -> {NULL} \cup Stream]
                  /\ DiskOK(disk)
                  /\ undefined \in BOOLEAN
                  /\ seen \in [FileNames -> [rec: Nat, now: BOOLEAN]]
BY DEF FilesTypeOK, TableOK, DiskOK, Taken

LEMMA RecordsAreNotEmpty ==
  /\ \A e \in Entry : e # Unused
  /\ \A stream \in Stream : stream # NULL
<1>1. DOMAIN << >> = {}
  <2>1. << >> \in Seq({}) /\ Len(<< >>) = 0
    BY EmptySeq
  <2> QED BY <2>1, LenProperties
<1>2. \A e \in Entry : "name" \in DOMAIN e
  BY DEF Entry
<1>3. \A stream \in Stream : "file" \in DOMAIN stream
  BY DEF Stream
<1> QED BY <1>1, <1>2, <1>3, Zenon DEF Unused, NULL

\* A name of OPEN in the table leads to a stream of its own.
LEMMA GetIsOpened ==
  ASSUME FilesInv, NEW n \in FileNames, Found(n)
  PROVE  /\ Get(n) \in Entry /\ Get(n).name = n
         /\ SlotOf(n) \in 0..Slots - 1
         /\ Get(n).system_flag # LOG_SYSTEM /\ Get(n).mode # {}
         /\ dclfile[SlotOf(n)] \in Stream
         /\ dclfile[SlotOf(n)].by = n /\ dclfile[SlotOf(n)].file = Get(n).value
<1>1. TableOK(LOGICAL_TABLE) /\ dclfile \in [0..Slots - 1 -> {NULL} \cup Stream]
  BY TypesByPart DEF FilesInv
<1>2. /\ First(Matches(n)) \in Rows /\ LOGICAL_TABLE[First(Matches(n))] = Get(n)
      /\ Get(n) # Unused /\ Get(n) \in Entry /\ Get(n).name = n
  BY <1>1, GetIsRow
<1>3. RowOK(Get(n), dclfile)
  BY <1>2 DEF FilesInv, RowsOK
<1>4. SlotOf(n) \in 0..Slots - 1
  BY <1>2 DEF SlotOf, Entry
<1> QED BY <1>1, <1>2, <1>3, <1>4 DEF RowOK, SlotOf

\* Rows stay sound when no stream they lead to changes its file or its name, and
\* every new row is sound.
LEMMA RowsStaySound ==
  ASSUME FilesInv,
         \A s \in 0..Slots - 1 : dclfile[s] # NULL =>
           dclfile'[s] # NULL /\ dclfile'[s].by = dclfile[s].by /\ dclfile'[s].file = dclfile[s].file,
         \A i \in Rows : \/ LOGICAL_TABLE'[i] = LOGICAL_TABLE[i]
                         \/ RowOK(LOGICAL_TABLE'[i], dclfile')
  PROVE  RowsOK'
<1> SUFFICES ASSUME NEW i \in Rows, LOGICAL_TABLE'[i] = LOGICAL_TABLE[i]
    PROVE RowOK(LOGICAL_TABLE[i], dclfile')
  BY DEF RowsOK
<1> DEFINE e == LOGICAL_TABLE[i]
<1>1. RowOK(e, dclfile)
  BY DEF FilesInv, RowsOK
<1>2. e # Unused => e.filenum \in 0..Slots - 1
  BY DEF FilesInv, FilesTypeOK, Entry
<1> QED BY <1>1, <1>2 DEF RowOK

\* Writing a record into a sequence of records leaves a sequence of records.
LEMMA WrittenIsContent ==
  ASSUME NEW records \in Seq(Content), NEW r \in Nat, NEW rec \in Records
  PROVE  Written(records, r, rec) \in Seq(Content)
<1> DEFINE m == IF r > Len(records) THEN r ELSE Len(records)
           item(i) == IF i = r THEN rec ELSE IF i <= Len(records) THEN records[i] ELSE "gap"
<1>1. m \in Nat
  OBVIOUS
<1>2. ASSUME NEW i \in 1..m PROVE item(i) \in Content
  BY <1>2, RecordsAssumption
<1> HIDE DEF m, item
<1>3. [i \in 1..m |-> item(i)] \in Seq(Content)
  BY <1>1, <1>2
<1> QED BY <1>3 DEF Written, m, item

(***************************************************************************)
(* The steps.                                                              *)
(***************************************************************************)
LEMMA SeenTyped ==
  ASSUME FilesTypeOK, NEW n \in FileNames,
         Used(n) \/ \E rec \in Nat, now \in BOOLEAN : seen' = [seen EXCEPT ![n] = [rec |-> rec, now |-> now]]
  PROVE  seen' \in [FileNames -> [rec: Nat, now: BOOLEAN]]
<1> DEFINE S == [rec: Nat, now: BOOLEAN]
<1>1. seen \in [FileNames -> S] /\ seen[n] \in S
  BY DEF FilesTypeOK
<1>2. CASE Used(n)
  <2>1. [seen[n] EXCEPT !.now = FALSE] \in S
    BY <1>1
  <2>2. seen' = [seen EXCEPT ![n] = [seen[n] EXCEPT !.now = FALSE]]
    BY <1>2 DEF Used
  <2> HIDE DEF S
  <2>3. seen' \in [FileNames -> S]
    BY <1>1, <2>1, <2>2
  <2> QED BY <2>3 DEF S
<1>3. ASSUME NEW rec \in Nat, NEW now \in BOOLEAN, seen' = [seen EXCEPT ![n] = [rec |-> rec, now |-> now]]
      PROVE  seen' \in [FileNames -> S]
  <2>1. [rec |-> rec, now |-> now] \in S
    OBVIOUS
  <2> HIDE DEF S
  <2> QED BY <1>1, <1>3, <2>1
<1> QED BY <1>2, <1>3

\* A step that leaves the table, the streams and the disk alone.
LEMMA NothingMoves ==
  ASSUME FilesInv, UNCHANGED <<LOGICAL_TABLE, dclfile, disk>>,
         undefined' \in BOOLEAN, seen' \in [FileNames -> [rec: Nat, now: BOOLEAN]]
  PROVE  FilesInv'
<1>1. FilesTypeOK'
  BY TypesByPart DEF FilesInv, FilesTypeOK, Taken
<1>2. RowsOK' /\ StreamsOK'
  BY DEF FilesInv, RowsOK, StreamsOK, Open
<1> QED BY <1>1, <1>2 DEF FilesInv

LEMMA FailedStep ==
  ASSUME FilesInv, NEW n \in FileNames, Failed(n) \/ Undefined(n)
  PROVE  FilesInv'
<1>1. CASE Failed(n)
  <2>1. seen' \in [FileNames -> [rec: Nat, now: BOOLEAN]]
    BY <1>1, SeenTyped DEF Failed, FilesInv
  <2> QED BY <1>1, <2>1, NothingMoves DEF Failed, FilesInv, FilesTypeOK
<1>2. CASE Undefined(n)
  BY <1>2, NothingMoves DEF Undefined, FilesInv, FilesTypeOK
<1> QED BY <1>1, <1>2

LEMMA OpenStep ==
  ASSUME FilesInv, NEW n \in FileNames, NEW f \in Files, NEW qualifiers \in Qualifiers,
         NEW recl \in BOOLEAN, DclOpen(n, f, qualifiers, recl)
  PROVE  FilesInv'
<1> DEFINE mode == ModeOf(qualifiers)
<1>1. mode \in SUBSET {"READ", "WRITE", "APPEND"} /\ mode # {}
  BY QualifiersAssumption DEF ModeOf
<1>2. \/ Failed(n)
      \/ /\ Creates(mode) \/ f \in DOMAIN disk
         /\ disk' = Opened(f, mode)
         /\ \/ FreeSlots # {} /\ PlaceStream(n, f, mode, recl)
            \/ Used(n) /\ UNCHANGED <<LOGICAL_TABLE, dclfile>>
         /\ UNCHANGED undefined
  BY DEF DclOpen
<1> HIDE DEF mode
<1>3. SUFFICES ASSUME Creates(mode) \/ f \in DOMAIN disk, disk' = Opened(f, mode), UNCHANGED undefined,
                      \/ FreeSlots # {} /\ PlaceStream(n, f, mode, recl)
                      \/ Used(n) /\ UNCHANGED <<LOGICAL_TABLE, dclfile>>
               PROVE  FilesInv'
  BY <1>2, FailedStep
<1>4. TableOK(LOGICAL_TABLE) /\ DiskOK(disk) /\ undefined \in BOOLEAN
      /\ dclfile \in [0..Slots - 1 -> {NULL} \cup Stream]
  BY TypesByPart DEF FilesInv
<1>5. DiskOK(disk') /\ DOMAIN disk \subseteq DOMAIN disk' /\ f \in DOMAIN disk'
  <2>1. << >> \in Seq(Content)
    BY EmptySeq
  <2> QED BY <1>3, <1>4, <2>1 DEF Opened, Creates, DiskOK
<1>6. CASE Used(n) /\ UNCHANGED <<LOGICAL_TABLE, dclfile>>
  <2>1. RowsOK' /\ StreamsOK'
    BY <1>5, <1>6 DEF FilesInv, RowsOK, StreamsOK, Open
  <2>2. seen' \in [FileNames -> [rec: Nat, now: BOOLEAN]]
    BY <1>6, SeenTyped DEF FilesInv
  <2> QED BY <1>3, <1>4, <1>5, <1>6, <2>1, <2>2 DEF FilesInv, FilesTypeOK, TableOK, Taken, DiskOK
<1>7. CASE FreeSlots # {} /\ PlaceStream(n, f, mode, recl)
  <2> DEFINE s == First(FreeSlots)
             stream == [file |-> f, by |-> n, pos |-> 0, append |-> mode = {"APPEND"},
                        wrote |-> FALSE, closed |-> FALSE]
             e == [name |-> n, value |-> f, system_flag |-> LOG_USER, filenum |-> s, mode |-> mode,
                   recl |-> recl, rptr |-> 0, wptr |-> IF "APPEND" \in mode THEN Len(disk'[f]) ELSE 0]
  <2>1. /\ dclfile' = [dclfile EXCEPT ![s] = stream] /\ Put(e)
        /\ seen' = [seen EXCEPT ![n] = [rec |-> 0, now |-> FALSE]]
    BY <1>7 DEF PlaceStream
  <2>2. s \in 0..Slots - 1 /\ dclfile[s] = NULL
    <3>1. FreeSlots \in SUBSET Nat
      BY SizesAssumption DEF FreeSlots
    <3>2. s \in FreeSlots
      BY <1>7, <3>1, FirstIsLeast
    <3> QED BY <3>2 DEF FreeSlots
  <2> HIDE DEF s
  <2>3. stream \in Stream /\ stream # NULL
    <3>1. stream \in Stream
      BY DEF Stream, Names
    <3> QED BY <3>1, RecordsAreNotEmpty
  <2>4. e \in Entry /\ e # Unused
    <3>1. Len(disk'[f]) \in Nat
      BY <1>5 DEF DiskOK
    <3>2. e \in Entry
      BY <1>1, <2>2, <3>1 DEF Entry, Names, LOG_USER
    <3> QED BY <3>2, RecordsAreNotEmpty
  <2>5. RowOK(e, dclfile')
    BY <1>1, <1>4, <2>1, <2>2, <2>3 DEF RowOK, LOG_USER, LOG_SYSTEM
  <2>6. e.name = n
    OBVIOUS
  <2>7. dclfile' \in [0..Slots - 1 -> {NULL} \cup Stream]
    BY <1>4, <2>1, <2>2, <2>3
  <2>8. \A t \in 0..Slots - 1 : dclfile[t] # NULL => dclfile'[t] = dclfile[t]
    BY <1>4, <2>1, <2>2
  <2>9. StreamsOK'
    <3> SUFFICES ASSUME NEW t \in 0..Slots - 1, Open(t)' PROVE dclfile'[t].file \in DOMAIN disk'
      BY DEF StreamsOK
    <3>1. CASE t = s
      BY <1>4, <1>5, <2>1, <2>2, <3>1
    <3>2. CASE t # s
      BY <1>4, <1>5, <2>1, <3>2 DEF FilesInv, StreamsOK, Open
    <3> QED BY <3>1, <3>2
  <2> HIDE DEF e, stream
  <2>10. TableOK(LOGICAL_TABLE') /\ \A i \in Rows : LOGICAL_TABLE'[i] = LOGICAL_TABLE[i] \/ LOGICAL_TABLE'[i] = e
    BY <1>4, <2>1, <2>4, PutKeepsTable
  <2>11. RowsOK'
    BY <2>5, <2>8, <2>10, RowsStaySound
  <2>12. seen' \in [FileNames -> [rec: Nat, now: BOOLEAN]]
    BY <2>1, SeenTyped DEF FilesInv
  <2> QED BY <1>3, <1>4, <1>5, <2>7, <2>9, <2>10, <2>11, <2>12 DEF FilesInv, FilesTypeOK, TableOK, Taken, DiskOK
<1> QED BY <1>3, <1>6, <1>7

\* CLOSE gives up the row of n, unless its rank forbids it, and the slot it leads to:
\* no other row leads there.
LEMMA ForgetStep ==
  ASSUME FilesInv, NEW n \in FileNames, NEW slots,
         slots = IF Found(n) THEN {SlotOf(n)} ELSE {},
         Forget(n, slots), undefined' = undefined,
         DiskOK(disk'),
         \A s \in 0..Slots - 1 : s \notin slots /\ Open(s) => dclfile[s].file \in DOMAIN disk'
  PROVE  FilesInv'
<1>1. TableOK(LOGICAL_TABLE) /\ undefined \in BOOLEAN
      /\ dclfile \in [0..Slots - 1 -> {NULL} \cup Stream]
  BY TypesByPart DEF FilesInv
<1>2. /\ Del(n)
      /\ dclfile' = [s \in 0..Slots - 1 |-> IF s \in slots THEN NULL ELSE dclfile[s]]
      /\ seen' = [seen EXCEPT ![n] = [rec |-> 0, now |-> FALSE]]
  BY DEF Forget
<1>3. /\ TableOK(LOGICAL_TABLE')
      /\ \A i \in Rows : LOGICAL_TABLE'[i] = LOGICAL_TABLE[i] \/ LOGICAL_TABLE'[i] = Unused
      /\ \A i \in Rows : LOGICAL_TABLE'[i] # Unused /\ LOGICAL_TABLE'[i].name = n
                           => LOGICAL_TABLE'[i].system_flag = LOG_SYSTEM
  BY <1>1, <1>2, DelKeepsTable
<1>4. RowsOK'
  <2> SUFFICES ASSUME NEW i \in Rows, LOGICAL_TABLE'[i] # Unused PROVE RowOK(LOGICAL_TABLE'[i], dclfile')
    BY DEF RowsOK, RowOK
  <2> DEFINE e == LOGICAL_TABLE[i]
  <2>1. LOGICAL_TABLE'[i] = e /\ e # Unused /\ RowOK(e, dclfile)
    BY <1>3 DEF FilesInv, RowsOK
  <2>2. e.filenum \in 0..Slots - 1
    BY <1>1, <2>1 DEF TableOK, Entry
  <2>3. CASE e.mode = {}
    BY <2>1, <2>3 DEF RowOK
  <2>4. CASE e.mode # {}
    <3>1. e.name # n
      BY <1>3, <2>1, <2>4 DEF RowOK
    <3>2. dclfile[e.filenum].by # n
      BY <2>1, <2>4, <3>1 DEF RowOK
    <3>3. e.filenum \notin slots
      BY <3>2, GetIsOpened
    <3>4. dclfile'[e.filenum] = dclfile[e.filenum]
      BY <1>2, <2>2, <3>3
    <3> QED BY <2>1, <2>4, <3>4 DEF RowOK
  <2> QED BY <2>3, <2>4
<1>5. StreamsOK'
  BY <1>2 DEF StreamsOK, Open
<1>6. dclfile' \in [0..Slots - 1 -> {NULL} \cup Stream]
  BY <1>1, <1>2
<1>7. seen' \in [FileNames -> [rec: Nat, now: BOOLEAN]]
  BY <1>2, SeenTyped DEF FilesInv
<1> QED BY <1>1, <1>3, <1>4, <1>5, <1>6, <1>7 DEF FilesInv, FilesTypeOK, TableOK, Taken, DiskOK

\* A step that only marks streams closed, or moves them, and leaves the rest.
LEMMA StreamsMove ==
  ASSUME FilesInv, UNCHANGED <<disk, undefined>>,
         TableOK(LOGICAL_TABLE'),
         \A i \in Rows : \/ LOGICAL_TABLE'[i] = LOGICAL_TABLE[i]
                         \/ RowOK(LOGICAL_TABLE'[i], dclfile'),
         dclfile' \in [0..Slots - 1 -> {NULL} \cup Stream],
         \A s \in 0..Slots - 1 :
           /\ dclfile[s] = NULL <=> dclfile'[s] = NULL
           /\ dclfile[s] # NULL => /\ dclfile'[s].by = dclfile[s].by /\ dclfile'[s].file = dclfile[s].file
                                   /\ dclfile[s].closed => dclfile'[s].closed,
         seen' \in [FileNames -> [rec: Nat, now: BOOLEAN]]
  PROVE  FilesInv'
<1>1. RowsOK'
  BY RowsStaySound
<1>2. StreamsOK'
  BY DEF FilesInv, StreamsOK, Open
<1> QED BY <1>1, <1>2 DEF FilesInv, FilesTypeOK, TableOK, Taken

LEMMA CloseStep ==
  ASSUME FilesInv, NEW n \in FileNames, NEW delete \in BOOLEAN, DclClose(n, delete)
  PROVE  FilesInv'
<1> DEFINE slots == IF Found(n) THEN {SlotOf(n)} ELSE {}
<1>1. TableOK(LOGICAL_TABLE) /\ DiskOK(disk)
      /\ dclfile \in [0..Slots - 1 -> {NULL} \cup Stream]
  BY TypesByPart DEF FilesInv
<1>2. slots \subseteq 0..Slots - 1
  BY GetIsOpened
<1>3. \/ Undefined(n)
      \/ \E s \in slots : /\ dclfile[s] # NULL
                          /\ dclfile' = [dclfile EXCEPT ![s].closed = TRUE]
                          /\ Used(n) /\ UNCHANGED <<LOGICAL_TABLE, disk, undefined>>
      \/ Unlink(n, slots) /\ UNCHANGED undefined
      \/ Forget(n, slots) /\ UNCHANGED <<disk, undefined>>
  BY DEF DclClose
<1> HIDE DEF slots
<1>4. CASE Undefined(n)
  BY <1>4, FailedStep
<1>5. ASSUME NEW s \in slots, dclfile[s] # NULL,
             dclfile' = [dclfile EXCEPT ![s].closed = TRUE],
             Used(n), UNCHANGED <<LOGICAL_TABLE, disk, undefined>>
      PROVE  FilesInv'
  <2>1. dclfile[s] \in Stream /\ s \in 0..Slots - 1
    BY <1>1, <1>2, <1>5
  <2>2. [dclfile[s] EXCEPT !.closed = TRUE] \in Stream
    BY <2>1 DEF Stream
  <2>3. dclfile' = [dclfile EXCEPT ![s] = [dclfile[s] EXCEPT !.closed = TRUE]]
    BY <1>5
  <2>4. /\ [dclfile[s] EXCEPT !.closed = TRUE].by = dclfile[s].by
        /\ [dclfile[s] EXCEPT !.closed = TRUE].file = dclfile[s].file
        /\ [dclfile[s] EXCEPT !.closed = TRUE].closed
    BY <2>1 DEF Stream
  <2>5. seen' \in [FileNames -> [rec: Nat, now: BOOLEAN]]
    BY <1>5, SeenTyped DEF FilesInv
  <2> QED BY <1>1, <1>5, <2>1, <2>2, <2>3, <2>4, <2>5, StreamsMove, RecordsAreNotEmpty
<1>6. CASE Unlink(n, slots) /\ UNCHANGED undefined
  <2>1. ASSUME dclfile' = [s \in 0..Slots - 1 |->
                             IF s \in slots /\ dclfile[s] # NULL THEN [dclfile[s] EXCEPT !.closed = TRUE]
                             ELSE dclfile[s]],
               Used(n), UNCHANGED <<LOGICAL_TABLE, disk>>
        PROVE  FilesInv'
    <3>1. \A s \in 0..Slots - 1 : dclfile[s] # NULL =>
            /\ [dclfile[s] EXCEPT !.closed = TRUE] \in Stream
            /\ [dclfile[s] EXCEPT !.closed = TRUE].by = dclfile[s].by
            /\ [dclfile[s] EXCEPT !.closed = TRUE].file = dclfile[s].file
            /\ [dclfile[s] EXCEPT !.closed = TRUE].closed
      BY <1>1 DEF Stream
    <3>2. seen' \in [FileNames -> [rec: Nat, now: BOOLEAN]]
      BY <2>1, SeenTyped DEF FilesInv
    <3> QED BY <1>1, <1>6, <2>1, <3>1, <3>2, StreamsMove, RecordsAreNotEmpty
  <2>2. ASSUME NEW f \in DOMAIN disk, slots # {}, f = Get(n).value, NotInUse(f, SlotOf(n)),
               disk' = [g \in DOMAIN disk \ {f} |-> disk[g]],
               Forget(n, slots)
        PROVE  FilesInv'
    <3>1. DiskOK(disk')
      BY <1>1, <2>2 DEF DiskOK
    <3>2. \A s \in 0..Slots - 1 : s \notin slots /\ Open(s) => dclfile[s].file \in DOMAIN disk'
      BY <2>2 DEF NotInUse, FilesInv, StreamsOK, slots
    <3> QED BY <1>6, <2>2, <3>1, <3>2, ForgetStep DEF slots
  <2> QED BY <1>6, <2>1, <2>2 DEF Unlink
<1>7. CASE Forget(n, slots) /\ UNCHANGED <<disk, undefined>>
  BY <1>1, <1>7, ForgetStep DEF slots, FilesInv, StreamsOK
<1> QED BY <1>3, <1>4, <1>5, <1>6, <1>7

\* The stream that READ and WRITE leave behind is the one they found, moved.
LEMMA MoveKeepsStreams ==
  ASSUME FilesInv, NEW n \in FileNames, Found(n), NEW pos \in Nat, NEW wrote \in BOOLEAN, Move(n, pos, wrote)
  PROVE  /\ dclfile' \in [0..Slots - 1 -> {NULL} \cup Stream]
         /\ \A s \in 0..Slots - 1 :
              /\ dclfile[s] = NULL <=> dclfile'[s] = NULL
              /\ dclfile[s] # NULL => /\ dclfile'[s].by = dclfile[s].by /\ dclfile'[s].file = dclfile[s].file
                                      /\ dclfile'[s].closed = dclfile[s].closed
<1> DEFINE k == SlotOf(n)
           stream == dclfile[k]
           moved == [stream EXCEPT !.pos = pos, !.wrote = wrote]
<1>1. dclfile \in [0..Slots - 1 -> {NULL} \cup Stream]
  BY TypesByPart DEF FilesInv
<1>2. k \in 0..Slots - 1 /\ stream \in Stream
  BY GetIsOpened
<1> HIDE DEF k
<1>3. moved \in Stream /\ moved.by = stream.by /\ moved.file = stream.file /\ moved.closed = stream.closed
  BY <1>2 DEF Stream
<1>4. dclfile' = dclfile \/ dclfile' = [dclfile EXCEPT ![k] = moved]
  BY DEF Move, k
<1> HIDE DEF moved
<1> QED BY <1>1, <1>2, <1>3, <1>4, RecordsAreNotEmpty

Repointed(g, rptr, wptr) == [g EXCEPT !.system_flag = LOG_USER, !.rptr = rptr, !.wptr = wptr]

LEMMA NewPointers ==
  ASSUME NEW g \in Entry, NEW rptr \in Nat, NEW wptr \in Nat
  PROVE  LET new == Repointed(g, rptr, wptr)
         IN  /\ new \in Entry
             /\ new.name = g.name /\ new.value = g.value /\ new.filenum = g.filenum
             /\ new.mode = g.mode /\ new.system_flag = LOG_USER
<1> DEFINE ranked == [g EXCEPT !.system_flag = LOG_USER]
           read == [ranked EXCEPT !.rptr = rptr]
           new == [read EXCEPT !.wptr = wptr]
<1>1. ranked \in Entry
  BY DEF Entry, LOG_USER
<1>2. /\ ranked.name = g.name /\ ranked.value = g.value /\ ranked.filenum = g.filenum
      /\ ranked.mode = g.mode /\ ranked.system_flag = LOG_USER
  BY DEF Entry
<1> HIDE DEF ranked
<1>3. read \in Entry
  BY <1>1 DEF Entry
<1>4. /\ read.name = ranked.name /\ read.value = ranked.value /\ read.filenum = ranked.filenum
      /\ read.mode = ranked.mode /\ read.system_flag = ranked.system_flag
  BY <1>1 DEF Entry
<1> HIDE DEF read
<1>5. new \in Entry
  BY <1>3 DEF Entry
<1>6. /\ new.name = read.name /\ new.value = read.value /\ new.filenum = read.filenum
      /\ new.mode = read.mode /\ new.system_flag = read.system_flag
  BY <1>3 DEF Entry
<1>7. Repointed(g, rptr, wptr) = new
  BY DEF Repointed, new, read, ranked
<1> HIDE DEF new
<1> QED BY <1>2, <1>4, <1>5, <1>6, <1>7, Zenon

\* The entry that READ and WRITE put back is the one they found, with new pointers.
LEMMA PointersMove ==
  ASSUME FilesInv, NEW n \in FileNames, Found(n), NEW rptr \in Nat, NEW wptr \in Nat,
         NEW pos \in Nat, NEW wrote \in BOOLEAN, Move(n, pos, wrote),
         Put([Get(n) EXCEPT !.system_flag = LOG_USER, !.rptr = rptr, !.wptr = wptr])
  PROVE  /\ TableOK(LOGICAL_TABLE')
         /\ \A i \in Rows : \/ LOGICAL_TABLE'[i] = LOGICAL_TABLE[i]
                            \/ RowOK(LOGICAL_TABLE'[i], dclfile')
<1> DEFINE e == Repointed(Get(n), rptr, wptr)
<1>1. /\ Get(n) \in Entry /\ Get(n).name = n /\ Get(n).mode # {} /\ Get(n).filenum \in 0..Slots - 1
      /\ dclfile[Get(n).filenum] # NULL
      /\ dclfile[Get(n).filenum].by = n /\ dclfile[Get(n).filenum].file = Get(n).value
  BY GetIsOpened, RecordsAreNotEmpty DEF SlotOf
<1>2. /\ e \in Entry
      /\ e.name = n /\ e.value = Get(n).value /\ e.filenum = Get(n).filenum
      /\ e.mode = Get(n).mode /\ e.system_flag = LOG_USER
  BY <1>1, NewPointers
<1> HIDE DEF e
<1>3. RowOK(e, dclfile')
  BY <1>1, <1>2, MoveKeepsStreams DEF RowOK, LOG_USER, LOG_SYSTEM
<1>4. TableOK(LOGICAL_TABLE) /\ e # Unused
  BY <1>2, TypesByPart, RecordsAreNotEmpty DEF FilesInv
<1>5. Put(e)
  BY DEF e, Repointed
<1> QED BY <1>2, <1>3, <1>4, <1>5, PutKeepsTable

LEMMA ReadStep ==
  ASSUME FilesInv, NEW n \in FileNames, NEW rrn \in 0..MaxRecords, DclRead(n, rrn)
  PROVE  FilesInv'
<1> DEFINE rptr == RptrOf(n, rrn)
           pos == PosOf(n, rptr)
           f == dclfile[SlotOf(n)].file
           records == IF f \in DOMAIN disk THEN disk[f] ELSE << >>
           now == Get(n).recl \/ rrn = 0
<1>1. CASE Failed(n) \/ Undefined(n)
  BY <1>1, FailedStep
<1>2. ASSUME Found(n), ReadRecord(n, rptr, pos, now), UNCHANGED <<disk, undefined>>
      PROVE  FilesInv'
  <2>1. /\ Get(n) \in Entry /\ SlotOf(n) \in 0..Slots - 1 /\ dclfile[SlotOf(n)] \in Stream
    BY <1>2, GetIsOpened
  <2>2. rptr \in Nat /\ pos \in Nat /\ now \in BOOLEAN
    BY <2>1, SizesAssumption DEF RptrOf, PosOf, Entry, Stream
  <2>3. TableOK(LOGICAL_TABLE)
    BY TypesByPart DEF FilesInv
  <2> HIDE DEF rptr, pos, now
  <2>4. \/ /\ Move(n, pos + 1, FALSE)
           /\ Put([Get(n) EXCEPT !.system_flag = LOG_USER, !.rptr = pos + 1, !.wptr = rptr])
           /\ seen' = [seen EXCEPT ![n] = [rec |-> pos + 1, now |-> now]]
        \/ Move(n, pos, FALSE) /\ Used(n) /\ UNCHANGED LOGICAL_TABLE
    BY <1>2 DEF ReadRecord
  <2>5. seen' \in [FileNames -> [rec: Nat, now: BOOLEAN]]
    <3>1. pos + 1 \in Nat
      BY <2>2
    <3> QED BY <2>2, <2>4, <3>1, SeenTyped DEF FilesInv
  <2>6. CASE /\ Move(n, pos + 1, FALSE)
             /\ Put([Get(n) EXCEPT !.system_flag = LOG_USER, !.rptr = pos + 1, !.wptr = rptr])
    <3>1. pos + 1 \in Nat
      BY <2>2
    <3>2. /\ TableOK(LOGICAL_TABLE')
          /\ \A i \in Rows : \/ LOGICAL_TABLE'[i] = LOGICAL_TABLE[i]
                             \/ RowOK(LOGICAL_TABLE'[i], dclfile')
      BY <1>2, <2>2, <2>6, <3>1, PointersMove
    <3> QED BY <1>2, <2>2, <2>5, <2>6, <3>1, <3>2, MoveKeepsStreams, StreamsMove
  <2>7. CASE Move(n, pos, FALSE) /\ UNCHANGED LOGICAL_TABLE
    BY <1>2, <2>2, <2>3, <2>5, <2>7, MoveKeepsStreams, StreamsMove
  <2> QED BY <2>4, <2>6, <2>7
<1> QED BY <1>1, <1>2 DEF DclRead, Usable

LEMMA WriteStep ==
  ASSUME FilesInv, NEW n \in FileNames, NEW rec \in Records, DclWrite(n, rec)
  PROVE  FilesInv'
<1> DEFINE stream == dclfile[SlotOf(n)]
           f == stream.file
           r == 1 + IF stream.append THEN Len(disk[f]) ELSE Get(n).wptr
<1>1. CASE Failed(n) \/ Undefined(n)
  BY <1>1, FailedStep
<1>2. ASSUME Found(n), stream # NULL, ~stream.closed, UNCHANGED undefined,
             \/ Move(n, Get(n).wptr, TRUE) /\ Used(n) /\ UNCHANGED <<LOGICAL_TABLE, disk>>
             \/ WriteRecord(n, rec, r)
      PROVE  FilesInv'
  <2>1. /\ Get(n) \in Entry /\ SlotOf(n) \in 0..Slots - 1 /\ stream \in Stream
    BY <1>2, GetIsOpened
  <2>2. TableOK(LOGICAL_TABLE) /\ DiskOK(disk) /\ undefined \in BOOLEAN
    BY TypesByPart DEF FilesInv
  <2>3. f \in DOMAIN disk
    BY <1>2, <2>1 DEF FilesInv, StreamsOK, Open
  <2>4. Get(n).wptr \in Nat /\ Get(n).rptr \in Nat
    BY <2>1 DEF Entry
  <2>5. r \in Nat /\ disk[f] \in Seq(Content)
    <3>1. disk[f] \in Seq(Content)
      BY <2>2, <2>3 DEF DiskOK
    <3>2. Len(disk[f]) \in Nat
      BY <3>1
    <3> QED BY <2>4, <3>1, <3>2
  <2>6. CASE Move(n, Get(n).wptr, TRUE) /\ Used(n) /\ UNCHANGED <<LOGICAL_TABLE, disk>>
    <3>1. seen' \in [FileNames -> [rec: Nat, now: BOOLEAN]]
      BY <2>6, SeenTyped DEF FilesInv
    <3> QED BY <1>2, <2>2, <2>4, <2>6, <3>1, MoveKeepsStreams, StreamsMove
  <2>7. CASE WriteRecord(n, rec, r)
    <3> HIDE DEF r
    <3>1. /\ disk' = [disk EXCEPT ![f] = Written(disk[f], r, rec)]
          /\ Move(n, r, TRUE) /\ Used(n)
          /\ Put([Get(n) EXCEPT !.system_flag = LOG_USER, !.wptr = r])
      BY <2>7 DEF WriteRecord
    <3>2. [Get(n) EXCEPT !.system_flag = LOG_USER, !.wptr = r]
            = [Get(n) EXCEPT !.system_flag = LOG_USER, !.rptr = Get(n).rptr, !.wptr = r]
      BY <2>1, <2>4, <2>5 DEF Entry
    <3>3. /\ TableOK(LOGICAL_TABLE')
          /\ \A i \in Rows : \/ LOGICAL_TABLE'[i] = LOGICAL_TABLE[i]
                             \/ RowOK(LOGICAL_TABLE'[i], dclfile')
      BY <1>2, <2>4, <2>5, <3>1, <3>2, PointersMove
    <3>4. /\ dclfile' \in [0..Slots - 1 -> {NULL} \cup Stream]
          /\ \A s \in 0..Slots - 1 :
              /\ dclfile[s] = NULL <=> dclfile'[s] = NULL
              /\ dclfile[s] # NULL => /\ dclfile'[s].by = dclfile[s].by /\ dclfile'[s].file = dclfile[s].file
                                      /\ dclfile'[s].closed = dclfile[s].closed
      BY <1>2, <2>5, <3>1, MoveKeepsStreams
    <3>5. RowsOK'
      BY <3>3, <3>4, RowsStaySound
    <3>6. DiskOK(disk') /\ DOMAIN disk' = DOMAIN disk
      <4>1. Written(disk[f], r, rec) \in Seq(Content)
        BY <2>5, WrittenIsContent
      <4> HIDE DEF f
      <4> QED BY <2>2, <2>3, <3>1, <4>1 DEF DiskOK
    <3>7. StreamsOK'
      BY <3>4, <3>6 DEF FilesInv, StreamsOK, Open
    <3>8. seen' \in [FileNames -> [rec: Nat, now: BOOLEAN]]
      BY <3>1, SeenTyped DEF FilesInv
    <3> QED BY <1>2, <2>2, <3>3, <3>4, <3>5, <3>6, <3>7, <3>8 DEF FilesInv, FilesTypeOK, TableOK, Taken, DiskOK
  <2> QED BY <1>2, <2>6, <2>7
<1> QED BY <1>1, <1>2 DEF DclWrite, Usable

(***************************************************************************)
(* The theorems.  A name given both to OPEN and to DEFINE is excluded: for *)
(* such a name LeadsToItsFile is false.                                    *)
(***************************************************************************)
Separate == FileNames \cap (DefinedNames \cup SystemNames) = {}

LEMMA NameStep ==
  ASSUME Separate, FilesInv, NameCommand
  PROVE  FilesInv'
<1>1. UNCHANGED <<dclfile, disk, undefined, seen>>
  BY DEF NameCommand, DefineLogical, Assign, Allocate, SetDisk, Deassign, DeassignAll, Named
<1>2. \/ UNCHANGED LOGICAL_TABLE
      \/ \E n \in Names : Del(n)
      \/ \E n \in DefinedNames \cup SystemNames, v \in Files, flag \in 0..2 : Put(Plain(n, v, flag))
  BY DEF NameCommand, DefineLogical, Assign, Allocate, SetDisk, Deassign, DeassignAll, Named,
         LOG_USER, LOG_ALLOC, LOG_SYSTEM
<1>3. TableOK(LOGICAL_TABLE) /\ dclfile \in [0..Slots - 1 -> {NULL} \cup Stream]
      /\ seen \in [FileNames -> [rec: Nat, now: BOOLEAN]]
  BY TypesByPart DEF FilesInv
<1>4. SUFFICES /\ TableOK(LOGICAL_TABLE')
               /\ \A i \in Rows : \/ LOGICAL_TABLE'[i] = LOGICAL_TABLE[i]
                                  \/ RowOK(LOGICAL_TABLE'[i], dclfile')
  BY <1>1, <1>3, StreamsMove
<1>5. CASE UNCHANGED LOGICAL_TABLE
  BY <1>3, <1>5
<1>6. ASSUME NEW n \in Names, Del(n)
      PROVE  /\ TableOK(LOGICAL_TABLE')
             /\ \A i \in Rows : \/ LOGICAL_TABLE'[i] = LOGICAL_TABLE[i]
                                \/ RowOK(LOGICAL_TABLE'[i], dclfile')
  BY <1>3, <1>6, DelKeepsTable DEF RowOK
<1>7. ASSUME NEW n \in DefinedNames \cup SystemNames, NEW v \in Files, NEW flag \in 0..2, Put(Plain(n, v, flag))
      PROVE  /\ TableOK(LOGICAL_TABLE')
             /\ \A i \in Rows : \/ LOGICAL_TABLE'[i] = LOGICAL_TABLE[i]
                                \/ RowOK(LOGICAL_TABLE'[i], dclfile')
  <2>1. Plain(n, v, flag) \in Entry /\ Plain(n, v, flag).name = n /\ Plain(n, v, flag).mode = {}
    BY SizesAssumption DEF Plain, Entry, Names
  <2>2. RowOK(Plain(n, v, flag), dclfile')
    BY <2>1 DEF RowOK, Separate
  <2> QED BY <1>3, <1>7, <2>1, <2>2, PutKeepsTable, RecordsAreNotEmpty
<1> QED BY <1>2, <1>5, <1>6, <1>7

LEMMA FilesInit ==
  ASSUME Separate, Init
  PROVE  FilesInv
<1>1. LOGICAL_TABLE \in [Rows -> {Unused} \cup {Plain(n, f, LOG_SYSTEM) : n \in SystemNames, f \in Files}]
      /\ \A i, j \in Rows : LOGICAL_TABLE[i] # Unused /\ LOGICAL_TABLE[j] # Unused
                             /\ LOGICAL_TABLE[i].name = LOGICAL_TABLE[j].name => i = j
  BY DEF Init, SystemTable
<1>2. \A n \in SystemNames, f \in Files :
        /\ Plain(n, f, LOG_SYSTEM) \in Entry
        /\ Plain(n, f, LOG_SYSTEM).mode = {} /\ Plain(n, f, LOG_SYSTEM).name = n
  BY SizesAssumption DEF Plain, Entry, Names, LOG_SYSTEM
<1>3. TableOK(LOGICAL_TABLE)
  BY <1>1, <1>2 DEF TableOK
<1>4. RowsOK
  BY <1>1, <1>2 DEF RowsOK, RowOK, Separate
<1>5. StreamsOK /\ dclfile \in [0..Slots - 1 -> {NULL} \cup Stream]
  BY DEF Init, StreamsOK, Open
<1>6. DiskOK(disk)
  BY DisksAssumption DEF Init, DiskOK
<1>7. undefined \in BOOLEAN /\ seen \in [FileNames -> [rec: Nat, now: BOOLEAN]]
  BY DEF Init
<1> QED BY <1>3, <1>4, <1>5, <1>6, <1>7, TypesByPart DEF FilesInv

LEMMA FilesNext ==
  ASSUME Separate, FilesInv, [Next]_vars
  PROVE  FilesInv'
<1>1. CASE NameCommand
  BY <1>1, NameStep
<1>2. ASSUME NEW n \in FileNames, FileCommand(n)
      PROVE  FilesInv'
  BY <1>2, OpenStep, CloseStep, ReadStep, WriteStep DEF FileCommand
<1>3. CASE UNCHANGED vars
  BY <1>3, NothingMoves DEF vars, FilesInv, FilesTypeOK
<1> QED BY <1>1, <1>2, <1>3 DEF Next

\* The logical names, the streams and the disk have their types, and no name is twice
\* in LOGICAL_TABLE, for any number of names, rows and slots.
THEOREM FilesAlwaysTyped ==
  ASSUME Separate
  PROVE  Spec => []FilesTypeOK
<1>1. Init => FilesInv
  BY FilesInit
<1>2. FilesInv /\ [Next]_vars => FilesInv'
  BY FilesNext
<1>3. FilesInv => FilesTypeOK
  BY DEF FilesInv
<1> QED BY <1>1, <1>2, <1>3, PTL DEF Spec

\* A name that OPEN put in LOGICAL_TABLE leads to the stream of that OPEN in every
\* reachable state, for any number of names, rows and slots.
THEOREM AlwaysLeadsToItsFile ==
  ASSUME Separate
  PROVE  Spec => []LeadsToItsFile
<1>1. Init => FilesInv
  BY FilesInit
<1>2. FilesInv /\ [Next]_vars => FilesInv'
  BY FilesNext
<1>3. FilesInv => LeadsToItsFile
  BY DEF FilesInv, RowsOK, RowOK, LeadsToItsFile, Taken
<1> QED BY <1>1, <1>2, <1>3, PTL DEF Spec

(***************************************************************************)
(* The names of the system.  No separation of the names is needed: a row   *)
(* of rank LOG_SYSTEM is one that the program defined, whatever name it    *)
(* has, so that OPEN, READ and WRITE never replace it.                     *)
(***************************************************************************)
RankOK(e) ==
  e # Unused =>
    /\ {"name", "system_flag"} \subseteq DOMAIN e
    /\ e.system_flag \in 0..2
    /\ e.system_flag = LOG_SYSTEM => \E v \in Files : e = Plain(e.name, v, LOG_SYSTEM)

RanksOK ==
  /\ LOGICAL_TABLE = [i \in Rows |-> LOGICAL_TABLE[i]]
  /\ \A i \in Rows : RankOK(LOGICAL_TABLE[i])

\* What a step does to a row.
RowKept(i) ==
  /\ RankOK(LOGICAL_TABLE'[i])
  /\ LOGICAL_TABLE[i] # Unused /\ LOGICAL_TABLE[i].system_flag = LOG_SYSTEM =>
       \E v \in Files : LOGICAL_TABLE'[i] = Plain(LOGICAL_TABLE[i].name, v, LOG_SYSTEM)
RanksKept ==
  /\ LOGICAL_TABLE' = [i \in Rows |-> LOGICAL_TABLE'[i]]
  /\ \A i \in Rows : RowKept(i)

LEMMA SameTableKeepsRanks ==
  ASSUME RanksOK, LOGICAL_TABLE' = LOGICAL_TABLE
  PROVE  RanksKept
BY DEF RanksOK, RanksKept, RowKept, RankOK

\* The row where a found name is.
LEMMA FoundRow ==
  ASSUME NEW n, Found(n)
  PROVE  /\ First(Matches(n)) \in Rows
         /\ LOGICAL_TABLE[First(Matches(n))] # Unused
         /\ LOGICAL_TABLE[First(Matches(n))].name = n
         /\ Get(n) = LOGICAL_TABLE[First(Matches(n))]
<1>1. First(Matches(n)) \in Matches(n)
  BY FirstIsLeast, RowsAreNumbers DEF Found, Matches, Taken
<1> QED BY <1>1 DEF Matches, Taken, Get

\* An entry replaces a system row only when it is a system row of the same name.
LEMMA PutKeepsRanks ==
  ASSUME RanksOK, NEW e, e # Unused, RankOK(e), Put(e)
  PROVE  RanksKept
<1>1. CASE Found(e.name)
  <2> DEFINE k == First(Matches(e.name))
  <2>1. k \in Rows /\ LOGICAL_TABLE[k] # Unused /\ LOGICAL_TABLE[k].name = e.name /\ Get(e.name) = LOGICAL_TABLE[k]
    BY <1>1, FoundRow
  <2>2. CASE LOGICAL_TABLE' = LOGICAL_TABLE
    BY <2>2, SameTableKeepsRanks
  <2>3. CASE LOGICAL_TABLE' # LOGICAL_TABLE
    <3> HIDE DEF k
    <3>1. Get(e.name).system_flag <= e.system_flag /\ LOGICAL_TABLE' = [LOGICAL_TABLE EXCEPT ![k] = e]
      BY <1>1, <2>3 DEF Put, k
    <3>2. LOGICAL_TABLE[k].system_flag = LOG_SYSTEM => e.system_flag = LOG_SYSTEM
      BY <2>1, <3>1 DEF RankOK, RanksOK, LOG_SYSTEM
    <3>3. RowKept(k)
      <4>1. LOGICAL_TABLE'[k] = e
        BY <2>1, <3>1 DEF RanksOK
      <4> QED BY <2>1, <3>2, <4>1 DEF RowKept, RankOK
    <3>4. ASSUME NEW i \in Rows, i # k PROVE RowKept(i)
      <4>1. LOGICAL_TABLE'[i] = LOGICAL_TABLE[i]
        BY <3>1, <3>4 DEF RanksOK
      <4> QED BY <4>1 DEF RanksOK, RowKept, RankOK
    <3>5. LOGICAL_TABLE' = [i \in Rows |-> LOGICAL_TABLE'[i]]
      BY <3>1 DEF RanksOK
    <3> QED BY <3>3, <3>4, <3>5 DEF RanksKept
  <2> QED BY <2>2, <2>3
<1>2. CASE ~Found(e.name) /\ Taken # Rows
  <2> DEFINE k == First(Rows \ Taken)
  <2>1. k \in Rows /\ LOGICAL_TABLE[k] = Unused
    <3>1. k \in Rows \ Taken
      BY <1>2, FirstIsLeast, RowsAreNumbers DEF Taken
    <3> QED BY <3>1 DEF Taken
  <2> HIDE DEF k
  <2>2. LOGICAL_TABLE' = [LOGICAL_TABLE EXCEPT ![k] = e]
    BY <1>2 DEF Put, k
  <2>3. LOGICAL_TABLE'[k] = e /\ \A i \in Rows : i # k => LOGICAL_TABLE'[i] = LOGICAL_TABLE[i]
    BY <2>1, <2>2 DEF RanksOK
  <2>4. LOGICAL_TABLE' = [i \in Rows |-> LOGICAL_TABLE'[i]]
    BY <2>2 DEF RanksOK
  <2>5. \A i \in Rows : RowKept(i)
    BY <2>1, <2>3 DEF RanksOK, RowKept, RankOK
  <2> QED BY <2>4, <2>5 DEF RanksKept
<1>3. CASE ~Found(e.name) /\ Taken = Rows
  BY <1>3, SameTableKeepsRanks DEF Put
<1> QED BY <1>1, <1>2, <1>3

LEMMA DelKeepsRanks ==
  ASSUME RanksOK, NEW n, Del(n)
  PROVE  RanksKept
<1>1. CASE LOGICAL_TABLE' = LOGICAL_TABLE
  BY <1>1, SameTableKeepsRanks
<1>2. CASE LOGICAL_TABLE' # LOGICAL_TABLE
  <2> DEFINE k == First(Matches(n))
  <2>1. Found(n) /\ Get(n).system_flag # LOG_SYSTEM /\ LOGICAL_TABLE' = [LOGICAL_TABLE EXCEPT ![k] = Unused]
    BY <1>2 DEF Del
  <2>2. k \in Rows /\ Get(n) = LOGICAL_TABLE[k]
    BY <2>1, FoundRow
  <2> HIDE DEF k
  <2>3. LOGICAL_TABLE'[k] = Unused /\ \A i \in Rows : i # k => LOGICAL_TABLE'[i] = LOGICAL_TABLE[i]
    BY <2>1, <2>2 DEF RanksOK
  <2>4. LOGICAL_TABLE' = [i \in Rows |-> LOGICAL_TABLE'[i]]
    BY <2>1 DEF RanksOK
  <2>5. \A i \in Rows : RowKept(i)
    BY <2>1, <2>2, <2>3 DEF RanksOK, RowKept, RankOK
  <2> QED BY <2>4, <2>5 DEF RanksKept
<1> QED BY <1>1, <1>2

\* An entry of a user's rank, such as OPEN, READ and WRITE put.
LEMMA UserRank ==
  ASSUME NEW e, {"name", "system_flag"} \subseteq DOMAIN e, e.system_flag = LOG_USER
  PROVE  e # Unused /\ RankOK(e)
<1>1. DOMAIN << >> = {}
  <2>1. << >> \in Seq({}) /\ Len(<< >>) = 0
    BY EmptySeq
  <2> QED BY <2>1, LenProperties
<1>2. e # Unused
  BY <1>1, Zenon DEF Unused
<1> QED BY <1>2 DEF RankOK, LOG_USER, LOG_SYSTEM

\* READ and WRITE put back what they found, with the rank of a user's name.
LEMMA PutBackKeepsRanks ==
  ASSUME RanksOK, NEW n, Found(n), NEW rptr, NEW wptr,
         \/ Put([Get(n) EXCEPT !.system_flag = LOG_USER, !.rptr = rptr, !.wptr = wptr])
         \/ Put([Get(n) EXCEPT !.system_flag = LOG_USER, !.wptr = wptr])
  PROVE  RanksKept
<1> DEFINE ranked == [Get(n) EXCEPT !.system_flag = LOG_USER]
           read == [ranked EXCEPT !.rptr = rptr]
           written == [ranked EXCEPT !.wptr = wptr]
           both == [read EXCEPT !.wptr = wptr]
           Sound(e) == {"name", "system_flag"} \subseteq DOMAIN e /\ e.system_flag = LOG_USER
<1>1. {"name", "system_flag"} \subseteq DOMAIN Get(n)
  BY FoundRow DEF RanksOK, RankOK
<1>2. Sound(ranked)
  BY <1>1
<1>3. Put(both) \/ Put(written)
  OBVIOUS
<1> HIDE DEF ranked
<1>4. Sound(read) /\ Sound(written)
  BY <1>2
<1> HIDE DEF read
<1>5. Sound(both)
  BY <1>4
<1> HIDE DEF both, written
<1> QED BY <1>3, <1>4, <1>5, UserRank, PutKeepsRanks

LEMMA OpenKeepsRanks ==
  ASSUME RanksOK, NEW n, NEW f, NEW qualifiers, NEW recl, DclOpen(n, f, qualifiers, recl)
  PROVE  RanksKept
<1> DEFINE mode == ModeOf(qualifiers)
           e == [name |-> n, value |-> f, system_flag |-> LOG_USER, filenum |-> First(FreeSlots),
                 mode |-> mode, recl |-> recl, rptr |-> 0,
                 wptr |-> IF "APPEND" \in mode THEN Len(disk'[f]) ELSE 0]
<1>1. LOGICAL_TABLE' = LOGICAL_TABLE \/ Put(e)
  BY DEF DclOpen, Failed, PlaceStream
<1>2. {"name", "system_flag"} \subseteq DOMAIN e /\ e.system_flag = LOG_USER
  OBVIOUS
<1> HIDE DEF e
<1> QED BY <1>1, <1>2, UserRank, PutKeepsRanks, SameTableKeepsRanks

LEMMA CommandsKeepRanks ==
  ASSUME RanksOK, NEW n \in FileNames, FileCommand(n)
  PROVE  RanksKept
<1>1. ASSUME NEW f, NEW qualifiers, NEW recl, DclOpen(n, f, qualifiers, recl)
      PROVE  RanksKept
  BY <1>1, OpenKeepsRanks
<1>2. ASSUME NEW delete, DclClose(n, delete)
      PROVE  RanksKept
  <2>1. LOGICAL_TABLE' = LOGICAL_TABLE \/ Del(n)
    BY <1>2 DEF DclClose, Undefined, Unlink, Forget
  <2> QED BY <2>1, DelKeepsRanks, SameTableKeepsRanks
<1>3. ASSUME NEW rrn, DclRead(n, rrn)
      PROVE  RanksKept
  <2>1. \/ LOGICAL_TABLE' = LOGICAL_TABLE
        \/ /\ Found(n)
           /\ \E rptr, wptr :
                Put([Get(n) EXCEPT !.system_flag = LOG_USER, !.rptr = rptr, !.wptr = wptr])
    BY <1>3, Zenon DEF DclRead, ReadRecord, Failed, Undefined, Usable
  <2>2. ASSUME Found(n), NEW rptr, NEW wptr,
               Put([Get(n) EXCEPT !.system_flag = LOG_USER, !.rptr = rptr, !.wptr = wptr])
        PROVE  RanksKept
    BY <2>2, PutBackKeepsRanks, Zenon
  <2> QED BY <2>1, <2>2, SameTableKeepsRanks, Zenon
<1>4. ASSUME NEW rec, DclWrite(n, rec)
      PROVE  RanksKept
  <2>1. \/ LOGICAL_TABLE' = LOGICAL_TABLE
        \/ Found(n) /\ \E wptr : Put([Get(n) EXCEPT !.system_flag = LOG_USER, !.wptr = wptr])
    BY <1>4, Zenon DEF DclWrite, WriteRecord, Failed, Undefined, Usable
  <2>2. ASSUME Found(n), NEW wptr, Put([Get(n) EXCEPT !.system_flag = LOG_USER, !.wptr = wptr])
        PROVE  RanksKept
    BY <2>2, PutBackKeepsRanks, Zenon
  <2> QED BY <2>1, <2>2, SameTableKeepsRanks, Zenon
<1> QED BY <1>1, <1>2, <1>3, <1>4 DEF FileCommand

LEMMA PlainRank ==
  ASSUME NEW n, NEW v \in Files, NEW flag \in 0..2
  PROVE  RankOK(Plain(n, v, flag))
BY DEF RankOK, Plain

LEMMA NamesKeepRanks ==
  ASSUME RanksOK, NameCommand
  PROVE  RanksKept
<1>1. \/ LOGICAL_TABLE' = LOGICAL_TABLE
      \/ \E n \in Names : Del(n)
      \/ \E n \in Names, v \in Files, flag \in 0..2 : Put(Plain(n, v, flag))
  BY DEF NameCommand, DefineLogical, Assign, Allocate, SetDisk, Deassign, DeassignAll, Named,
         LOG_USER, LOG_ALLOC, LOG_SYSTEM, Names
<1>2. ASSUME NEW n \in Names, NEW v \in Files, NEW flag \in 0..2, Put(Plain(n, v, flag))
      PROVE  RanksKept
  <2> DEFINE e == Plain(n, v, flag)
  <2>1. RankOK(e)
    BY PlainRank
  <2>2. e # Unused
    <3>1. e \in Entry
      BY SizesAssumption DEF Plain, Entry
    <3> QED BY <3>1, RecordsAreNotEmpty
  <2> HIDE DEF e
  <2>3. Put(e)
    BY <1>2 DEF e
  <2> QED BY <2>1, <2>2, <2>3, PutKeepsRanks
<1> QED BY <1>1, <1>2, DelKeepsRanks, SameTableKeepsRanks

\* The names the program defines keep their place in LOGICAL_TABLE and their rank in
\* every step, for any number of names, rows and slots, and whatever names OPEN,
\* DEFINE and ALLOCATE are given, those of the system among them.
THEOREM SystemNamesAlwaysStay == Spec => SystemNamesStay
<1>1. ASSUME Init PROVE RanksOK
  <2>1. LOGICAL_TABLE \in [Rows -> {Unused} \cup {Plain(n, f, LOG_SYSTEM) : n \in SystemNames, f \in Files}]
    BY <1>1 DEF Init, SystemTable
  <2>2. \A n \in SystemNames, f \in Files : RankOK(Plain(n, f, LOG_SYSTEM))
    BY PlainRank DEF LOG_SYSTEM
  <2>3. RankOK(Unused)
    BY DEF RankOK
  <2> QED BY <2>1, <2>2, <2>3 DEF RanksOK
<1>2. ASSUME RanksOK, [Next]_vars PROVE RanksKept
  <2>1. CASE Next
    BY <1>2, <2>1, CommandsKeepRanks, NamesKeepRanks DEF Next
  <2>2. CASE UNCHANGED vars
    BY <1>2, <2>2, SameTableKeepsRanks DEF vars
  <2> QED BY <1>2, <2>1, <2>2
<1>3. RanksKept => RanksOK'
  BY DEF RanksKept, RowKept, RanksOK
<1>4. RanksOK /\ [Next]_vars => \A i \in Taken : LOGICAL_TABLE[i].system_flag = LOG_SYSTEM =>
        \E v \in Files : LOGICAL_TABLE'[i] = Plain(LOGICAL_TABLE[i].name, v, LOG_SYSTEM)
  BY <1>2 DEF RanksKept, RowKept, Taken
<1> QED BY <1>1, <1>2, <1>3, <1>4, PTL DEF Spec, SystemNamesStay

(***************************************************************************)
(* What READ and WRITE find.  The pointers of a name, where its stream is  *)
(* and the record it read last agree: for a record file rptr says where to *)
(* read, for a text file the stream does as long as nothing is written,    *)
(* and after a READ wptr is one behind.                                    *)
(***************************************************************************)
PointerOK(e, streams, at) ==
  e # Unused /\ e.mode # {} =>
    LET stream == streams[e.filenum]
        last == at[e.name]
    IN  /\ e.system_flag = LOG_USER
        /\ e.rptr = last.rec
        /\ stream.append <=> e.mode = {"APPEND"}
        /\ IF e.recl THEN ~stream.wrote ELSE stream.wrote \/ stream.pos = last.rec
        /\ last.now => ~stream.closed /\ ~stream.wrote /\ e.wptr + 1 = last.rec /\ "READ" \in e.mode
PointersOK == \A i \in Rows : PointerOK(LOGICAL_TABLE[i], dclfile, seen)

LEMMA OwnPointers ==
  ASSUME FilesInv, PointersOK, NEW n \in FileNames, Found(n)
  PROVE  /\ Get(n).system_flag = LOG_USER
         /\ Get(n).rptr = seen[n].rec
         /\ dclfile[SlotOf(n)].append <=> Get(n).mode = {"APPEND"}
         /\ IF Get(n).recl THEN ~dclfile[SlotOf(n)].wrote
                           ELSE dclfile[SlotOf(n)].wrote \/ dclfile[SlotOf(n)].pos = seen[n].rec
         /\ seen[n].now => /\ ~dclfile[SlotOf(n)].closed /\ ~dclfile[SlotOf(n)].wrote
                           /\ Get(n).wptr + 1 = seen[n].rec /\ "READ" \in Get(n).mode
<1>1. TableOK(LOGICAL_TABLE)
  BY TypesByPart DEF FilesInv
<1>2. /\ First(Matches(n)) \in Rows /\ LOGICAL_TABLE[First(Matches(n))] = Get(n)
      /\ Get(n) # Unused /\ Get(n).name = n
  BY <1>1, GetIsRow
<1>3. PointerOK(Get(n), dclfile, seen)
  BY <1>2 DEF PointersOK
<1> QED BY <1>2, <1>3, GetIsOpened DEF PointerOK, SlotOf

\* A command of n leaves the pointers, the stream and the last record of every other
\* name alone, and the rows of n are sound afterwards.
LEMMA PointersKept ==
  ASSUME FilesInv, PointersOK, NEW n \in FileNames,
         \A i \in Rows : \/ LOGICAL_TABLE'[i] = LOGICAL_TABLE[i]
                         \/ LOGICAL_TABLE'[i] = Unused
                         \/ LOGICAL_TABLE'[i] # Unused /\ LOGICAL_TABLE'[i].name = n,
         \A s \in 0..Slots - 1 : dclfile[s] # NULL /\ dclfile[s].by # n => dclfile'[s] = dclfile[s],
         \A m \in FileNames : m # n => seen'[m] = seen[m],
         \A i \in Rows : LOGICAL_TABLE'[i] # Unused /\ LOGICAL_TABLE'[i].name = n =>
                           PointerOK(LOGICAL_TABLE'[i], dclfile', seen')
  PROVE  PointersOK'
<1> SUFFICES ASSUME NEW i \in Rows PROVE PointerOK(LOGICAL_TABLE'[i], dclfile', seen')
  BY DEF PointersOK
<1> DEFINE e == LOGICAL_TABLE[i]
<1> SUFFICES ASSUME LOGICAL_TABLE'[i] = e, e # Unused, e.name # n, e.mode # {}
             PROVE  PointerOK(e, dclfile', seen')
  BY DEF PointerOK
<1>1. PointerOK(e, dclfile, seen) /\ RowOK(e, dclfile)
  BY DEF PointersOK, FilesInv, RowsOK
<1>2. e.filenum \in 0..Slots - 1
  BY DEF FilesInv, FilesTypeOK, Entry
<1>3. dclfile'[e.filenum] = dclfile[e.filenum] /\ seen'[e.name] = seen[e.name]
  BY <1>1, <1>2 DEF RowOK
<1> HIDE DEF e
<1> QED BY <1>1, <1>3 DEF PointerOK

\* Putting an entry of n makes it the only row of n, if n has a row at all.
LEMMA PutIsOwnRow ==
  ASSUME FilesInv, PointersOK, NEW n \in FileNames, NEW e \in Entry, e.name = n, e.system_flag = LOG_USER, Put(e)
  PROVE  \A i \in Rows : \/ LOGICAL_TABLE'[i] = LOGICAL_TABLE[i] /\ (LOGICAL_TABLE[i] # Unused => LOGICAL_TABLE[i].name # n)
                         \/ LOGICAL_TABLE'[i] = e
<1>1. TableOK(LOGICAL_TABLE)
  BY TypesByPart DEF FilesInv
<1>2. CASE Found(n)
  <2> DEFINE k == First(Matches(n))
  <2>1. k \in Rows /\ \A i \in Rows : LOGICAL_TABLE[i] # Unused /\ LOGICAL_TABLE[i].name = n => i = k
    BY <1>1, <1>2, GetIsRow
  <2> HIDE DEF k
  <2>2. Get(n).system_flag <= e.system_flag
    BY <1>2, OwnPointers DEF LOG_USER
  <2>3. LOGICAL_TABLE' = [LOGICAL_TABLE EXCEPT ![k] = e]
    BY <1>2, <2>2 DEF Put, k
  <2> QED BY <1>1, <2>1, <2>3 DEF TableOK
<1>3. CASE ~Found(n)
  <2>1. \A i \in Rows : LOGICAL_TABLE[i] # Unused => LOGICAL_TABLE[i].name # n
    BY <1>3 DEF Found, Matches, Taken
  <2>2. e # Unused
    BY RecordsAreNotEmpty
  <2>3. \A i \in Rows : LOGICAL_TABLE'[i] = LOGICAL_TABLE[i] \/ LOGICAL_TABLE'[i] = e
    BY <1>1, <2>2, PutKeepsTable
  <2> QED BY <2>1, <2>3
<1> QED BY <1>2, <1>3

\* A command of n that fails or finds the end of the file, and moves no stream but
\* that of n.
LEMMA NothingRead ==
  ASSUME FilesInv, PointersOK, NEW n \in FileNames, Used(n), UNCHANGED LOGICAL_TABLE,
         \A s \in 0..Slots - 1 : dclfile[s] # NULL /\ dclfile[s].by # n => dclfile'[s] = dclfile[s],
         Found(n) => /\ dclfile'[SlotOf(n)].append = dclfile[SlotOf(n)].append
                     /\ \/ /\ dclfile'[SlotOf(n)].wrote = dclfile[SlotOf(n)].wrote
                           /\ dclfile'[SlotOf(n)].pos = dclfile[SlotOf(n)].pos
                        \/ ~Get(n).recl /\ dclfile'[SlotOf(n)].wrote
  PROVE  PointersOK'
<1>1. TableOK(LOGICAL_TABLE) /\ seen \in [FileNames -> [rec: Nat, now: BOOLEAN]]
  BY TypesByPart DEF FilesInv
<1>2. seen'[n].rec = seen[n].rec /\ seen'[n].now = FALSE /\ \A m \in FileNames : m # n => seen'[m] = seen[m]
  BY <1>1 DEF Used
<1>3. ASSUME NEW i \in Rows, LOGICAL_TABLE'[i] # Unused, LOGICAL_TABLE'[i].name = n
      PROVE  PointerOK(LOGICAL_TABLE'[i], dclfile', seen')
  <2>1. i \in Matches(n) /\ Found(n)
    BY <1>3 DEF Matches, Taken, Found
  <2>2. LOGICAL_TABLE'[i] = Get(n)
    BY <1>1, <1>3, <2>1, GetIsRow
  <2>3. Get(n).name = n
    BY <1>3, <2>2
  <2> QED BY <1>2, <2>1, <2>2, <2>3, OwnPointers DEF PointerOK, SlotOf
<1> QED BY <1>2, <1>3, PointersKept

LEMMA FailedPointers ==
  ASSUME FilesInv, PointersOK, NEW n \in FileNames, Failed(n) \/ Undefined(n)
  PROVE  PointersOK'
<1>1. CASE Failed(n)
  BY <1>1, NothingRead DEF Failed
<1>2. CASE Undefined(n)
  BY <1>2 DEF Undefined, PointersOK
<1> QED BY <1>1, <1>2

LEMMA OpenPointers ==
  ASSUME FilesInv, PointersOK, NEW n \in FileNames, NEW f \in Files, NEW qualifiers \in Qualifiers,
         NEW recl \in BOOLEAN, DclOpen(n, f, qualifiers, recl), FilesInv'
  PROVE  PointersOK'
<1> DEFINE mode == ModeOf(qualifiers)
           s == First(FreeSlots)
           stream == [file |-> f, by |-> n, pos |-> 0, append |-> mode = {"APPEND"},
                      wrote |-> FALSE, closed |-> FALSE]
           e == [name |-> n, value |-> f, system_flag |-> LOG_USER, filenum |-> s, mode |-> mode,
                 recl |-> recl, rptr |-> 0, wptr |-> IF "APPEND" \in mode THEN Len(disk'[f]) ELSE 0]
<1>1. CASE Failed(n)
  BY <1>1, FailedPointers
<1>2. CASE Used(n) /\ UNCHANGED <<LOGICAL_TABLE, dclfile>>
  BY <1>2, NothingRead
<1>3. CASE disk' = Opened(f, mode) /\ (Creates(mode) \/ f \in DOMAIN disk)
           /\ FreeSlots # {} /\ PlaceStream(n, f, mode, recl)
  <2>1. s \in 0..Slots - 1 /\ dclfile[s] = NULL
    <3>1. FreeSlots \in SUBSET Nat
      BY SizesAssumption DEF FreeSlots
    <3>2. s \in FreeSlots
      BY <1>3, <3>1, FirstIsLeast
    <3> QED BY <3>2 DEF FreeSlots
  <2>2. /\ dclfile' = [dclfile EXCEPT ![s] = stream] /\ Put(e)
        /\ seen' = [seen EXCEPT ![n] = [rec |-> 0, now |-> FALSE]]
    BY <1>3 DEF PlaceStream
  <2>3. mode \in SUBSET {"READ", "WRITE", "APPEND"}
    BY QualifiersAssumption DEF ModeOf
  <2>4. f \in DOMAIN disk'
    BY <1>3 DEF Opened, Creates
  <2>5. DiskOK(disk')
    <3>1. DOMAIN disk' \subseteq Files /\ disk' \in [DOMAIN disk' -> Seq(Content)]
      BY DEF FilesInv, FilesTypeOK
    <3> QED BY <3>1 DEF DiskOK
  <2>6. e \in Entry /\ e.name = n /\ e.system_flag = LOG_USER /\ e.filenum = s /\ e.rptr = 0 /\ e.mode = mode
    <3>1. Len(disk'[f]) \in Nat
      BY <2>4, <2>5 DEF DiskOK
    <3> QED BY <2>1, <2>3, <3>1 DEF Entry, Names, LOG_USER
  <2>7. dclfile \in [0..Slots - 1 -> {NULL} \cup Stream] /\ seen \in [FileNames -> [rec: Nat, now: BOOLEAN]]
    BY TypesByPart DEF FilesInv
  <2> HIDE DEF s
  <2>8. /\ dclfile'[s] = stream
        /\ \A t \in 0..Slots - 1 : dclfile[t] # NULL /\ dclfile[t].by # n => dclfile'[t] = dclfile[t]
    BY <2>1, <2>2, <2>7
  <2>9. seen'[n] = [rec |-> 0, now |-> FALSE] /\ \A m \in FileNames : m # n => seen'[m] = seen[m]
    BY <2>2, <2>7
  <2>10. /\ stream.append <=> mode = {"APPEND"}
         /\ stream.pos = 0 /\ ~stream.wrote
    OBVIOUS
  <2> HIDE DEF e, stream, mode
  <2>11. PointerOK(e, dclfile', seen')
    BY <2>6, <2>8, <2>9, <2>10 DEF PointerOK
  <2>12. \A i \in Rows : \/ LOGICAL_TABLE'[i] = LOGICAL_TABLE[i]
                            /\ (LOGICAL_TABLE[i] # Unused => LOGICAL_TABLE[i].name # n)
                         \/ LOGICAL_TABLE'[i] = e
    BY <2>2, <2>6, PutIsOwnRow
  <2>13. e # Unused
    BY <2>6, RecordsAreNotEmpty
  <2> QED BY <2>6, <2>8, <2>9, <2>11, <2>12, <2>13, PointersKept
<1> QED BY <1>1, <1>2, <1>3 DEF DclOpen

LEMMA ForgetPointers ==
  ASSUME FilesInv, PointersOK, NEW n \in FileNames, NEW slots,
         slots = IF Found(n) THEN {SlotOf(n)} ELSE {}, Forget(n, slots)
  PROVE  PointersOK'
<1>1. TableOK(LOGICAL_TABLE) /\ seen \in [FileNames -> [rec: Nat, now: BOOLEAN]]
  BY TypesByPart DEF FilesInv
<1>2. /\ Del(n)
      /\ dclfile' = [s \in 0..Slots - 1 |-> IF s \in slots THEN NULL ELSE dclfile[s]]
      /\ seen' = [seen EXCEPT ![n] = [rec |-> 0, now |-> FALSE]]
  BY DEF Forget
<1>3. /\ \A i \in Rows : LOGICAL_TABLE'[i] = LOGICAL_TABLE[i] \/ LOGICAL_TABLE'[i] = Unused
      /\ \A i \in Rows : LOGICAL_TABLE'[i] # Unused /\ LOGICAL_TABLE'[i].name = n
                           => LOGICAL_TABLE'[i].system_flag = LOG_SYSTEM
  BY <1>1, <1>2, DelKeepsTable
<1>4. \A i \in Rows : LOGICAL_TABLE'[i] # Unused => LOGICAL_TABLE'[i].name # n
  <2> SUFFICES ASSUME NEW i \in Rows, LOGICAL_TABLE'[i] # Unused, LOGICAL_TABLE'[i].name = n
      PROVE FALSE
    OBVIOUS
  <2>1. LOGICAL_TABLE[i] = LOGICAL_TABLE'[i] /\ i \in Matches(n) /\ Found(n)
    BY <1>3 DEF Matches, Taken, Found
  <2>2. LOGICAL_TABLE[i] = Get(n)
    BY <1>1, <2>1, GetIsRow
  <2>3. Get(n).system_flag # LOG_SYSTEM
    BY <2>1, GetIsOpened
  <2> QED BY <1>3, <2>1, <2>2, <2>3
<1>5. \A s \in 0..Slots - 1 : dclfile[s] # NULL /\ dclfile[s].by # n => dclfile'[s] = dclfile[s]
  BY <1>2, GetIsOpened
<1>6. \A m \in FileNames : m # n => seen'[m] = seen[m]
  BY <1>1, <1>2
<1> QED BY <1>3, <1>4, <1>5, <1>6, PointersKept

LEMMA ClosePointers ==
  ASSUME FilesInv, PointersOK, NEW n \in FileNames, NEW delete \in BOOLEAN, DclClose(n, delete)
  PROVE  PointersOK'
<1> DEFINE slots == IF Found(n) THEN {SlotOf(n)} ELSE {}
<1>1. dclfile \in [0..Slots - 1 -> {NULL} \cup Stream]
  BY TypesByPart DEF FilesInv
<1>2. \A s \in slots : /\ s = SlotOf(n) /\ Found(n) /\ s \in 0..Slots - 1
                       /\ dclfile[s] \in Stream /\ dclfile[s].by = n
  BY GetIsOpened
<1>3. \/ Undefined(n)
      \/ \E s \in slots : /\ dclfile' = [dclfile EXCEPT ![s].closed = TRUE]
                          /\ Used(n) /\ UNCHANGED LOGICAL_TABLE
      \/ /\ dclfile' = [s \in 0..Slots - 1 |->
                          IF s \in slots /\ dclfile[s] # NULL THEN [dclfile[s] EXCEPT !.closed = TRUE]
                          ELSE dclfile[s]]
         /\ Used(n) /\ UNCHANGED LOGICAL_TABLE
      \/ Forget(n, slots)
  BY DEF DclClose, Unlink
<1>4. Found(n) => SlotOf(n) \in slots
  OBVIOUS
<1>5. slots = IF Found(n) THEN {SlotOf(n)} ELSE {}
  OBVIOUS
<1> HIDE DEF slots
<1>6. \A stream \in Stream : /\ [stream EXCEPT !.closed = TRUE].append = stream.append
                             /\ [stream EXCEPT !.closed = TRUE].wrote = stream.wrote
                             /\ [stream EXCEPT !.closed = TRUE].pos = stream.pos
  BY DEF Stream
<1>7. ASSUME NEW s \in slots, dclfile' = [dclfile EXCEPT ![s].closed = TRUE], Used(n), UNCHANGED LOGICAL_TABLE
      PROVE  PointersOK'
  <2>1. /\ dclfile'[s] = [dclfile[s] EXCEPT !.closed = TRUE]
        /\ \A t \in 0..Slots - 1 : t # s => dclfile'[t] = dclfile[t]
    BY <1>1, <1>2, <1>7
  <2>2. \A t \in 0..Slots - 1 : dclfile[t] # NULL /\ dclfile[t].by # n => dclfile'[t] = dclfile[t]
    BY <1>2, <2>1
  <2>3. /\ dclfile'[SlotOf(n)].append = dclfile[SlotOf(n)].append
        /\ dclfile'[SlotOf(n)].wrote = dclfile[SlotOf(n)].wrote
        /\ dclfile'[SlotOf(n)].pos = dclfile[SlotOf(n)].pos
    <3>1. s = SlotOf(n) /\ dclfile[s] \in Stream
      BY <1>2
    <3> QED BY <1>6, <2>1, <3>1
  <2> QED BY <1>7, <2>2, <2>3, NothingRead
<1>8. CASE /\ dclfile' = [s \in 0..Slots - 1 |->
                            IF s \in slots /\ dclfile[s] # NULL THEN [dclfile[s] EXCEPT !.closed = TRUE]
                            ELSE dclfile[s]]
           /\ Used(n) /\ UNCHANGED LOGICAL_TABLE
  <2>1. \A t \in 0..Slots - 1 : dclfile[t] # NULL /\ dclfile[t].by # n => dclfile'[t] = dclfile[t]
    BY <1>2, <1>8
  <2>2. \A s \in slots : dclfile'[s] = [dclfile[s] EXCEPT !.closed = TRUE]
    BY <1>2, <1>8, RecordsAreNotEmpty
  <2>3. Found(n) => /\ dclfile'[SlotOf(n)].append = dclfile[SlotOf(n)].append
                    /\ dclfile'[SlotOf(n)].wrote = dclfile[SlotOf(n)].wrote
                    /\ dclfile'[SlotOf(n)].pos = dclfile[SlotOf(n)].pos
    BY <1>2, <1>4, <1>6, <2>2
  <2> QED BY <1>8, <2>1, <2>3, NothingRead
<1> QED BY <1>3, <1>5, <1>7, <1>8, FailedPointers, ForgetPointers

\* Where the stream of n is after READ and WRITE, and where the others are.
LEMMA MoveMovesOwn ==
  ASSUME FilesInv, NEW n \in FileNames, Found(n), NEW pos \in Nat, NEW wrote \in BOOLEAN, Move(n, pos, wrote)
  PROVE  /\ \A s \in 0..Slots - 1 : dclfile[s] # NULL /\ dclfile[s].by # n => dclfile'[s] = dclfile[s]
         /\ dclfile'[SlotOf(n)].append = dclfile[SlotOf(n)].append
         /\ dclfile'[SlotOf(n)].closed = dclfile[SlotOf(n)].closed
         /\ IF Get(n).recl
            THEN dclfile'[SlotOf(n)] = dclfile[SlotOf(n)]
            ELSE dclfile'[SlotOf(n)].pos = pos /\ dclfile'[SlotOf(n)].wrote = wrote
<1> DEFINE k == SlotOf(n)
           stream == dclfile[k]
           there == [stream EXCEPT !.pos = pos]
           moved == [there EXCEPT !.wrote = wrote]
<1>1. dclfile \in [0..Slots - 1 -> {NULL} \cup Stream]
  BY TypesByPart DEF FilesInv
<1>2. k \in 0..Slots - 1 /\ stream \in Stream /\ stream.by = n
  BY GetIsOpened
<1>3. IF Get(n).recl THEN dclfile' = dclfile ELSE dclfile' = [dclfile EXCEPT ![k] = moved]
  BY DEF Move
<1> HIDE DEF k
<1>4. there \in Stream /\ there.append = stream.append /\ there.closed = stream.closed /\ there.pos = pos
  BY <1>2 DEF Stream
<1> HIDE DEF there
<1>5. moved.append = there.append /\ moved.closed = there.closed /\ moved.pos = there.pos /\ moved.wrote = wrote
  BY <1>4 DEF Stream
<1> HIDE DEF moved
<1>6. CASE Get(n).recl
  BY <1>3, <1>6 DEF k
<1>7. CASE ~Get(n).recl
  <2>1. dclfile'[k] = moved /\ \A s \in 0..Slots - 1 : s # k => dclfile'[s] = dclfile[s]
    BY <1>1, <1>2, <1>3, <1>7
  <2>2. \A s \in 0..Slots - 1 : dclfile[s].by # n => dclfile'[s] = dclfile[s]
    BY <1>2, <2>1
  <2> QED BY <1>4, <1>5, <1>7, <2>1, <2>2 DEF k
<1> QED BY <1>6, <1>7

\* The command puts the entry back with new pointers.
LEMMA PutBackPointers ==
  ASSUME FilesInv, PointersOK, NEW n \in FileNames, Found(n), NEW pos \in Nat, NEW wrote \in BOOLEAN,
         Move(n, pos, wrote), NEW rptr \in Nat, NEW wptr \in Nat,
         Put(Repointed(Get(n), rptr, wptr)),
         \A m \in FileNames : m # n => seen'[m] = seen[m],
         seen'[n].rec = rptr,
         IF Get(n).recl THEN TRUE ELSE wrote \/ pos = rptr,
         seen'[n].now => /\ ~dclfile[SlotOf(n)].closed /\ (Get(n).recl \/ ~wrote)
                         /\ wptr + 1 = rptr /\ "READ" \in Get(n).mode
  PROVE  PointersOK'
<1> DEFINE e == Repointed(Get(n), rptr, wptr)
<1>1. Get(n) \in Entry /\ Get(n).name = n
  BY GetIsOpened
<1>2. /\ e \in Entry /\ e.name = n /\ e.filenum = SlotOf(n)
      /\ e.mode = Get(n).mode /\ e.system_flag = LOG_USER
  BY <1>1, NewPointers, ZenonT(30) DEF SlotOf
<1>3. e.rptr = rptr /\ e.wptr = wptr /\ e.recl = Get(n).recl
  BY <1>1 DEF Repointed, Entry
<1>4. Put(e)
  OBVIOUS
<1> HIDE DEF e
<1>5. PointerOK(e, dclfile', seen')
  BY <1>2, <1>3, MoveMovesOwn, OwnPointers DEF PointerOK
<1>6. \A i \in Rows : \/ LOGICAL_TABLE'[i] = LOGICAL_TABLE[i]
                         /\ (LOGICAL_TABLE[i] # Unused => LOGICAL_TABLE[i].name # n)
                      \/ LOGICAL_TABLE'[i] = e
  BY <1>2, <1>4, PutIsOwnRow
<1>7. e # Unused
  BY <1>2, RecordsAreNotEmpty
<1>8. \A s \in 0..Slots - 1 : dclfile[s] # NULL /\ dclfile[s].by # n => dclfile'[s] = dclfile[s]
  BY MoveMovesOwn
<1> QED BY <1>2, <1>5, <1>6, <1>7, <1>8, PointersKept

\* READ delivers the record after the last one.
LEMMA RecordRead ==
  ASSUME FilesInv, PointersOK, NEW n \in FileNames, Found(n), ~dclfile[SlotOf(n)].wrote,
         NEW rrn \in Nat
  PROVE  LET rptr == RptrOf(n, rrn)
             pos == PosOf(n, rptr)
         IN  /\ rptr \in Nat /\ pos \in Nat
             /\ Get(n).recl => pos = rptr
             /\ ~Get(n).recl => pos = dclfile[SlotOf(n)].pos /\ pos = seen[n].rec
             /\ rrn = 0 => rptr = seen[n].rec /\ pos = seen[n].rec
<1>1. Get(n) \in Entry /\ dclfile[SlotOf(n)] \in Stream
  BY GetIsOpened
<1>2. Get(n).rptr \in Nat /\ dclfile[SlotOf(n)].pos \in Nat
  BY <1>1 DEF Entry, Stream
<1> QED BY <1>2, OwnPointers DEF RptrOf, PosOf

LEMMA ReadPointers ==
  ASSUME FilesInv, PointersOK, NEW n \in FileNames, NEW rrn \in 0..MaxRecords, DclRead(n, rrn)
  PROVE  PointersOK'
<1> DEFINE rptr == RptrOf(n, rrn)
           pos == PosOf(n, rptr)
           now == Get(n).recl \/ rrn = 0
<1>1. CASE Failed(n) \/ Undefined(n)
  BY <1>1, FailedPointers
<1>2. ASSUME Usable(n, {"READ"}), ~dclfile[SlotOf(n)].closed, ~dclfile[SlotOf(n)].wrote, ReadRecord(n, rptr, pos, now)
      PROVE  PointersOK'
  <2>1. Found(n) /\ "READ" \in Get(n).mode
    BY <1>2 DEF Usable
  <2>2. rrn \in Nat
    BY SizesAssumption
  <2>3. /\ rptr \in Nat /\ pos \in Nat
        /\ Get(n).recl => pos = rptr
        /\ ~Get(n).recl => pos = dclfile[SlotOf(n)].pos /\ pos = seen[n].rec
        /\ rrn = 0 => rptr = seen[n].rec /\ pos = seen[n].rec
    BY <1>2, <2>1, <2>2, RecordRead
  <2>4. now => pos = rptr
    BY <2>3
  <2> HIDE DEF rptr, pos, now
  <2>5. seen \in [FileNames -> [rec: Nat, now: BOOLEAN]]
    BY TypesByPart DEF FilesInv
  <2>6. CASE /\ Move(n, pos + 1, FALSE)
             /\ Put(Repointed(Get(n), pos + 1, rptr))
             /\ seen' = [seen EXCEPT ![n] = [rec |-> pos + 1, now |-> now]]
    <3>1. seen'[n] = [rec |-> pos + 1, now |-> now] /\ \A m \in FileNames : m # n => seen'[m] = seen[m]
      BY <2>5, <2>6
    <3>2. pos + 1 \in Nat
      BY <2>3
    <3>3. seen'[n].rec = pos + 1
      BY <3>1
    <3>4. seen'[n].now => rptr + 1 = pos + 1
      BY <2>4, <3>1
    <3> QED BY <1>2, <2>1, <2>3, <2>6, <3>1, <3>2, <3>3, <3>4, PutBackPointers
  <2>7. CASE Move(n, pos, FALSE) /\ Used(n) /\ UNCHANGED LOGICAL_TABLE
    <3>1. /\ \A s \in 0..Slots - 1 : dclfile[s] # NULL /\ dclfile[s].by # n => dclfile'[s] = dclfile[s]
          /\ dclfile'[SlotOf(n)].append = dclfile[SlotOf(n)].append
          /\ IF Get(n).recl
             THEN dclfile'[SlotOf(n)] = dclfile[SlotOf(n)]
             ELSE dclfile'[SlotOf(n)].pos = pos /\ dclfile'[SlotOf(n)].wrote = FALSE
      BY <2>1, <2>3, <2>7, MoveMovesOwn
    <3>2. dclfile[SlotOf(n)].wrote = FALSE
      <4>1. dclfile[SlotOf(n)] \in Stream
        BY <2>1, GetIsOpened
      <4> QED BY <1>2, <4>1 DEF Stream
    <3>3. /\ dclfile'[SlotOf(n)].wrote = dclfile[SlotOf(n)].wrote
          /\ dclfile'[SlotOf(n)].pos = dclfile[SlotOf(n)].pos
      BY <2>3, <3>1, <3>2
    <3> QED BY <2>7, <3>1, <3>3, NothingRead
  <2> QED BY <1>2, <2>6, <2>7 DEF ReadRecord, Repointed
<1> QED BY <1>1, <1>2 DEF DclRead

LEMMA WritePointers ==
  ASSUME FilesInv, PointersOK, NEW n \in FileNames, NEW rec \in Records, DclWrite(n, rec)
  PROVE  PointersOK'
<1> DEFINE stream == dclfile[SlotOf(n)]
           r == 1 + IF stream.append THEN Len(disk[stream.file]) ELSE Get(n).wptr
<1>1. CASE Failed(n) \/ Undefined(n)
  BY <1>1, FailedPointers
<1>2. ASSUME Found(n), stream # NULL, ~stream.closed,
             \/ Move(n, Get(n).wptr, TRUE) /\ Used(n) /\ UNCHANGED LOGICAL_TABLE
             \/ WriteRecord(n, rec, r)
      PROVE  PointersOK'
  <2>1. /\ Get(n) \in Entry /\ SlotOf(n) \in 0..Slots - 1 /\ stream \in Stream
    BY <1>2, GetIsOpened
  <2>2. Get(n).wptr \in Nat /\ Get(n).rptr \in Nat /\ Get(n).rptr = seen[n].rec
    BY <1>2, <2>1, OwnPointers DEF Entry
  <2>3. seen \in [FileNames -> [rec: Nat, now: BOOLEAN]]
    BY TypesByPart DEF FilesInv
  <2>4. CASE Move(n, Get(n).wptr, TRUE) /\ Used(n) /\ UNCHANGED LOGICAL_TABLE
    <3>1. /\ \A s \in 0..Slots - 1 : dclfile[s] # NULL /\ dclfile[s].by # n => dclfile'[s] = dclfile[s]
          /\ dclfile'[SlotOf(n)].append = stream.append
          /\ IF Get(n).recl THEN dclfile'[SlotOf(n)] = stream ELSE dclfile'[SlotOf(n)].wrote = TRUE
      BY <1>2, <2>2, <2>4, MoveMovesOwn
    <3>2. \/ dclfile'[SlotOf(n)].wrote = stream.wrote /\ dclfile'[SlotOf(n)].pos = stream.pos
          \/ ~Get(n).recl /\ dclfile'[SlotOf(n)].wrote
      BY <3>1
    <3> HIDE DEF stream
    <3> QED BY <2>4, <3>1, <3>2, NothingRead DEF stream
  <2>5. CASE WriteRecord(n, rec, r)
    <3>1. disk[stream.file] \in Seq(Content)
      <4>1. stream.file \in DOMAIN disk
        BY <1>2, <2>1 DEF FilesInv, StreamsOK, Open
      <4> QED BY <4>1, TypesByPart DEF FilesInv, DiskOK
    <3>2. r \in Nat
      <4>1. Len(disk[stream.file]) \in Nat
        BY <3>1
      <4>2. r = 1 + Len(disk[stream.file]) \/ r = 1 + Get(n).wptr
        OBVIOUS
      <4> HIDE DEF r, stream
      <4> QED BY <2>2, <4>1, <4>2
    <3> HIDE DEF r
    <3>3. /\ Move(n, r, TRUE) /\ Used(n)
          /\ Put([Get(n) EXCEPT !.system_flag = LOG_USER, !.wptr = r])
      BY <2>5 DEF WriteRecord
    <3>4. [Get(n) EXCEPT !.system_flag = LOG_USER, !.wptr = r] = Repointed(Get(n), Get(n).rptr, r)
      BY <2>1, <2>2, <3>2 DEF Entry, Repointed
    <3>5. /\ seen'[n].rec = Get(n).rptr /\ seen'[n].now = FALSE
          /\ \A m \in FileNames : m # n => seen'[m] = seen[m]
      BY <2>2, <2>3, <3>3 DEF Used
    <3>6. Put(Repointed(Get(n), Get(n).rptr, r))
      BY <3>3, <3>4
    <3> QED BY <1>2, <2>2, <3>2, <3>3, <3>5, <3>6, PutBackPointers
  <2> QED BY <1>2, <2>4, <2>5
<1> QED BY <1>1, <1>2 DEF DclWrite, Usable

LEMMA NamePointers ==
  ASSUME Separate, FilesInv, PointersOK, NameCommand
  PROVE  PointersOK'
<1>1. UNCHANGED <<dclfile, seen>>
  BY DEF NameCommand, DefineLogical, Assign, Allocate, SetDisk, Deassign, DeassignAll, Named
<1>2. TableOK(LOGICAL_TABLE)
  BY TypesByPart DEF FilesInv
<1>3. \A i \in Rows : LOGICAL_TABLE'[i] = LOGICAL_TABLE[i] \/ PointerOK(LOGICAL_TABLE'[i], dclfile', seen')
  <2>1. \/ UNCHANGED LOGICAL_TABLE
        \/ \E n \in Names : Del(n)
        \/ \E n \in Names, v \in Files, flag \in 0..2 : Put(Plain(n, v, flag))
    BY DEF NameCommand, DefineLogical, Assign, Allocate, SetDisk, Deassign, DeassignAll, Named,
           LOG_USER, LOG_ALLOC, LOG_SYSTEM, Names
  <2>2. ASSUME NEW n \in Names, Del(n)
        PROVE  \A i \in Rows : LOGICAL_TABLE'[i] = LOGICAL_TABLE[i] \/ LOGICAL_TABLE'[i] = Unused
    BY <1>2, <2>2, DelKeepsTable
  <2>3. ASSUME NEW n \in Names, NEW v \in Files, NEW flag \in 0..2, Put(Plain(n, v, flag))
        PROVE  \A i \in Rows : \/ LOGICAL_TABLE'[i] = LOGICAL_TABLE[i]
                               \/ PointerOK(LOGICAL_TABLE'[i], dclfile', seen')
    <3>1. Plain(n, v, flag) \in Entry /\ Plain(n, v, flag).mode = {}
      BY SizesAssumption DEF Plain, Entry
    <3>2. PointerOK(Plain(n, v, flag), dclfile', seen')
      BY <3>1 DEF PointerOK
    <3> QED BY <1>2, <2>3, <3>1, <3>2, PutKeepsTable, RecordsAreNotEmpty
  <2>4. PointerOK(Unused, dclfile', seen')
    BY DEF PointerOK
  <2> QED BY <2>1, <2>2, <2>3, <2>4
<1> QED BY <1>1, <1>3 DEF PointersOK

LEMMA PointersNext ==
  ASSUME Separate, FilesInv, PointersOK, [Next]_vars
  PROVE  PointersOK'
<1>1. FilesInv'
  BY FilesNext
<1>2. CASE NameCommand
  BY <1>2, NamePointers
<1>3. ASSUME NEW n \in FileNames, FileCommand(n)
      PROVE  PointersOK'
  BY <1>1, <1>3, OpenPointers, ClosePointers, ReadPointers, WritePointers DEF FileCommand
<1>4. CASE UNCHANGED vars
  BY <1>4 DEF vars, PointersOK
<1> QED BY <1>2, <1>3, <1>4 DEF Next

LEMMA PointersInit ==
  ASSUME Init
  PROVE  PointersOK
<1>1. LOGICAL_TABLE \in [Rows -> {Unused} \cup {Plain(n, f, LOG_SYSTEM) : n \in SystemNames, f \in Files}]
  BY DEF Init, SystemTable
<1>2. \A n \in SystemNames, f \in Files : Plain(n, f, LOG_SYSTEM).mode = {}
  BY DEF Plain
<1> QED BY <1>1, <1>2 DEF PointersOK, PointerOK

\* READ delivers the record after the one its name read last, for any number of names,
\* files and slots, whatever is opened, written, closed and defined in between.
THEOREM ReadsAlwaysNext ==
  ASSUME Separate
  PROVE  Spec => ReadsNext
<1>1. Init => FilesInv /\ PointersOK
  BY FilesInit, PointersInit
<1>2. FilesInv /\ PointersOK /\ [Next]_vars => (FilesInv /\ PointersOK)'
  BY FilesNext, PointersNext
<1>3. FilesInv /\ PointersOK =>
        \A n \in FileNames : seen'[n].now /\ DclRead(n, 0) => seen'[n].rec = seen[n].rec + 1
  <2> SUFFICES ASSUME FilesInv, PointersOK, NEW n \in FileNames, seen'[n].now, DclRead(n, 0)
               PROVE  seen'[n].rec = seen[n].rec + 1
    OBVIOUS
  <2> DEFINE rptr == RptrOf(n, 0)
             pos == PosOf(n, rptr)
             now == Get(n).recl \/ 0 = 0
  <2>1. seen \in [FileNames -> [rec: Nat, now: BOOLEAN]]
    BY TypesByPart DEF FilesInv
  <2>2. ~Used(n)
    BY <2>1 DEF Used
  <2>3. Found(n) /\ ~dclfile[SlotOf(n)].wrote /\ seen' = [seen EXCEPT ![n] = [rec |-> pos + 1, now |-> now]]
    <3>1. CASE Failed(n)
      BY <2>2, <3>1 DEF Failed
    <3>2. CASE Found(n) /\ (dclfile[SlotOf(n)].closed \/ dclfile[SlotOf(n)].wrote) /\ Undefined(n)
      BY <3>2, OwnPointers DEF Undefined
    <3>3. CASE Found(n) /\ ~dclfile[SlotOf(n)].wrote /\ ReadRecord(n, rptr, pos, now)
      BY <2>2, <3>3 DEF ReadRecord
    <3> QED BY <3>1, <3>2, <3>3 DEF DclRead, Usable
  <2>4. pos = seen[n].rec
    BY <2>3, RecordRead
  <2> HIDE DEF pos, now
  <2> QED BY <2>1, <2>3, <2>4
<1> QED BY <1>1, <1>2, <1>3, PTL DEF Spec, ReadsNext

\* WRITE puts its record in the place of the one its name has just read, and leaves
\* every other record and file alone, for any number of names, files and slots.
THEOREM AlwaysRewritesWhatWasRead ==
  ASSUME Separate
  PROVE  Spec => RewritesWhatWasRead
<1>1. Init => FilesInv /\ PointersOK
  BY FilesInit, PointersInit
<1>2. FilesInv /\ PointersOK /\ [Next]_vars => (FilesInv /\ PointersOK)'
  BY FilesNext, PointersNext
<1>3. FilesInv /\ PointersOK =>
        \A n \in FileNames, rec \in Records :
          /\ seen[n].now /\ disk' # disk /\ DclWrite(n, rec)
          /\ seen[n].rec \in DOMAIN disk[Get(n).value]
          => disk' = [disk EXCEPT ![Get(n).value][seen[n].rec] = rec]
  <2> SUFFICES ASSUME FilesInv, PointersOK, NEW n \in FileNames, NEW rec \in Records,
                      seen[n].now, disk' # disk, DclWrite(n, rec),
                      seen[n].rec \in DOMAIN disk[Get(n).value]
               PROVE  disk' = [disk EXCEPT ![Get(n).value][seen[n].rec] = rec]
    OBVIOUS
  <2> DEFINE f == Get(n).value
             stream == dclfile[SlotOf(n)]
             r == 1 + IF stream.append THEN Len(disk[stream.file]) ELSE Get(n).wptr
  <2>1. Found(n) /\ ~stream.closed /\ WriteRecord(n, rec, r)
    BY DEF DclWrite, Failed, Undefined, Usable
  <2>2. /\ Get(n) \in Entry /\ SlotOf(n) \in 0..Slots - 1 /\ stream \in Stream /\ stream.file = f
    BY <2>1, GetIsOpened
  <2>3. ~stream.append /\ Get(n).wptr + 1 = seen[n].rec /\ Get(n).wptr \in Nat
    BY <2>1, <2>2, OwnPointers DEF Entry
  <2>4. r = seen[n].rec
    BY <2>3
  <2>5. f \in DOMAIN disk /\ disk[f] \in Seq(Content)
    <3>1. f \in DOMAIN disk
      BY <2>1, <2>2, RecordsAreNotEmpty DEF FilesInv, StreamsOK, Open
    <3> QED BY <3>1, TypesByPart DEF FilesInv, DiskOK
  <2>6. disk' = [disk EXCEPT ![f] = Written(disk[f], r, rec)]
    BY <2>1, <2>2 DEF WriteRecord
  <2> HIDE DEF f, stream, r
  <2>7. Written(disk[f], r, rec) = [disk[f] EXCEPT ![r] = rec]
    <3>1. r \in 1..Len(disk[f]) /\ DOMAIN disk[f] = 1..Len(disk[f]) /\ Len(disk[f]) \in Nat
      BY <2>4, <2>5 DEF f
    <3>2. (IF r > Len(disk[f]) THEN r ELSE Len(disk[f])) = Len(disk[f])
      BY <3>1
    <3>3. Written(disk[f], r, rec) = [i \in 1..Len(disk[f]) |-> IF i = r THEN rec ELSE disk[f][i]]
      BY <3>1, <3>2 DEF Written
    <3> QED BY <2>5, <3>1, <3>3
  <2> QED BY <2>4, <2>6, <2>7 DEF f
<1> QED BY <1>1, <1>2, <1>3, PTL DEF Spec, RewritesWhatWasRead
=============================================================================
