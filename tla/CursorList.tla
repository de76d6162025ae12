----------------------------- MODULE CursorList -----------------------------
(***************************************************************************)
(* What flexlist.c promises: a sequence with a cursor, 0 where there is no *)
(* current element.                                                        *)
(***************************************************************************)
EXTENDS Integers, Sequences

CONSTANTS Data, NONE, Numbers   \* Numbers: those an element can be asked by

VARIABLES
  seq,
  pos,
  out    \* what the last operation has handed back

listVars == <<seq, pos, out>>

At(i) == IF i \in 1..Len(seq) THEN seq[i] ELSE NONE
Without(i) == [j \in 1..Len(seq) - 1 |-> IF j < i THEN seq[j] ELSE seq[j + 1]]

Push(d) ==
  /\ seq' = <<d>> \o seq
  /\ pos' = IF pos = 0 THEN 0 ELSE pos + 1
  /\ out' = d

Pop ==
  /\ seq' = IF seq = << >> THEN seq ELSE Tail(seq)
  /\ pos' = IF pos = 0 THEN 0 ELSE pos - 1
  /\ out' = At(1)

Enqueue(d) == seq' = Append(seq, d) /\ pos' = pos /\ out' = d

\* After the current element, or in front.
Insert(d) ==
  /\ seq' = SubSeq(seq, 1, pos) \o <<d>> \o SubSeq(seq, pos + 1, Len(seq))
  /\ pos' = pos + 1
  /\ out' = d

\* The element before the deleted one is the next current one.
Delete ==
  /\ seq' = IF pos = 0 THEN seq ELSE Without(pos)
  /\ pos' = IF pos = 0 THEN 0 ELSE pos - 1
  /\ out' = At(pos)

MoveTo(i) == pos' = i /\ out' = At(i) /\ seq' = seq

Goto(i) == MoveTo(IF i \in 1..Len(seq) THEN i ELSE 0)
Next == MoveTo(IF pos = Len(seq) THEN 0 ELSE pos + 1)
Previous == MoveTo(IF pos = 0 THEN Len(seq) ELSE pos - 1)

Put(d) ==
  /\ seq' = IF pos = 0 THEN seq ELSE [seq EXCEPT ![pos] = d]
  /\ out' = IF pos = 0 THEN NONE ELSE d
  /\ pos' = pos

Store(d, i) ==
  /\ pos' = IF i \in 1..Len(seq) THEN i ELSE 0
  /\ seq' = IF i \in 1..Len(seq) THEN [seq EXCEPT ![i] = d] ELSE seq
  /\ out' = IF i \in 1..Len(seq) THEN d ELSE NONE

Clear == seq' = << >> /\ pos' = 0 /\ out' = NONE

Read(i) == out' = At(i) /\ UNCHANGED <<seq, pos>>

\* The operation finds no memory.
Refused == out' = NONE /\ UNCHANGED <<seq, pos>>

Init == seq = << >> /\ pos = 0 /\ out = NONE

Operation ==
  \/ \E d \in Data : Push(d) \/ Enqueue(d) \/ Insert(d) \/ Put(d)
  \/ \E d \in Data, i \in Numbers : Store(d, i)
  \/ \E i \in Numbers : Goto(i)
  \/ Pop \/ Delete \/ Next \/ Previous \/ Clear \/ Read(1) \/ Read(pos) \/ Refused

ListSpec == Init /\ [][Operation]_listVars
=============================================================================
