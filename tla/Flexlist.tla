------------------------------ MODULE Flexlist ------------------------------
(***************************************************************************)
(* flexlist.c: a doubly linked list with a current node, the stack of      *)
(* return addresses, the symbols of a level and the commands of RECALL.    *)
(***************************************************************************)
EXTENDS Integers, FiniteSets

CONSTANTS Addresses, NULL, Data, NONE

ASSUME NullAssumption == NULL \notin Addresses
ASSUME AddressesAssumption == IsFiniteSet(Addresses)

VARIABLES
  node,        \* the allocated nodes: address -> next, prev, data
  front, rear, current,
  ncurrent,    \* the number of the current node, 0 without one
  nodes,
  out          \* what the last operation has handed back

vars == <<node, front, rear, current, ncurrent, nodes, out>>
ends == <<front, rear>>

Allocated == DOMAIN node
Node == [next: Addresses \cup {NULL}, prev: Addresses \cup {NULL}, data: Data]

\* Assignments through a pointer that may be NULL, when the code tests it.
WithNext(n, a, b) == IF a = NULL THEN n ELSE [n EXCEPT ![a].next = b]
WithPrev(n, a, b) == IF a = NULL THEN n ELSE [n EXCEPT ![a].prev = b]
Free(n, a) == [b \in DOMAIN n \ {a} |-> n[b]]
New(a, x) == [b \in Allocated \cup {a} |-> IF b = a THEN x ELSE node[b]]

DataOf(a) == IF a = NULL THEN NONE ELSE node[a].data

(***************************************************************************)
(* Stack and queue primitives.                                             *)
(***************************************************************************)
\* malloc fails, the list is empty, or there is no current node.
Nothing == out' = NONE /\ UNCHANGED <<node, front, rear, current, ncurrent, nodes>>

pushdptr(a, d) ==
  /\ node' = WithPrev(New(a, [next |-> front, prev |-> NULL, data |-> d]), front, a)
  /\ front' = a
  /\ rear' = IF front = NULL THEN a ELSE rear
  /\ nodes' = nodes + 1
  /\ ncurrent' = IF ncurrent = 0 THEN 0 ELSE ncurrent + 1
  /\ current' = current
  /\ out' = d

CursorAfterPopUncounted ==
  /\ current' = IF current = front THEN NULL ELSE current
  /\ ncurrent' = IF current = front THEN 0 ELSE ncurrent
CursorAfterPop ==
  /\ ncurrent' = IF ncurrent = 0 THEN 0 ELSE ncurrent - 1
  /\ current' = IF ncurrent = 1 THEN NULL ELSE current

popd ==
  \/ front = NULL /\ Nothing
  \/ /\ front # NULL
     /\ LET next == node[front].next
        IN  /\ node' = Free(IF front = rear THEN node ELSE WithPrev(node, next, NULL), front)
            /\ rear' = IF front = rear THEN NULL ELSE rear
            /\ front' = next
     /\ nodes' = nodes - 1
     /\ CursorAfterPop
     /\ out' = node[front].data

topdptr == out' = DataOf(front) /\ UNCHANGED <<node, ends, current, ncurrent, nodes>>

iquedptr(a, d) ==
  /\ node' = WithNext(New(a, [next |-> NULL, prev |-> rear, data |-> d]), rear, a)
  /\ front' = IF rear = NULL THEN a ELSE front
  /\ rear' = a
  /\ nodes' = nodes + 1
  /\ out' = d
  /\ UNCHANGED <<current, ncurrent>>

(***************************************************************************)
(* The current node.                                                       *)
(***************************************************************************)
\* The node i links from a.
Forward(a, i) ==
  LET at[k \in 0..i] == IF k = 0 THEN a ELSE node[at[k - 1]].next IN at[i]
Backward(a, i) ==
  LET at[k \in 0..i] == IF k = 0 THEN a ELSE node[at[k - 1]].prev IN at[i]

\* The walk to loc starts at the current node or at an end, whichever seems nearer.
WalkFromRear(loc) ==
  IF loc > ncurrent /\ ncurrent # 0 THEN nodes \div 2 + ncurrent \div 2 < loc
  ELSE ncurrent = 0 /\ nodes \div 2 < loc
WalkFromCurrent(loc) == ncurrent # 0 /\ (loc > ncurrent \/ ncurrent \div 2 < loc)

Located(loc) ==
  CASE loc = ncurrent                       -> current
    [] loc # ncurrent /\ WalkFromRear(loc) -> Backward(rear, nodes - loc)
    [] loc # ncurrent /\ ~WalkFromRear(loc) /\ WalkFromCurrent(loc) ->
         IF loc > ncurrent THEN Forward(current, loc - ncurrent) ELSE Backward(current, ncurrent - loc)
    [] OTHER                                -> Forward(front, loc - 1)

Within(loc) == loc \in 1..nodes
MakeCurrent(loc) ==
  /\ current' = IF Within(loc) THEN Located(loc) ELSE NULL
  /\ ncurrent' = IF Within(loc) THEN loc ELSE 0

mkcdptr(loc) ==
  /\ MakeCurrent(loc)
  /\ out' = IF Within(loc) THEN DataOf(Located(loc)) ELSE NONE
  /\ UNCHANGED <<node, ends, nodes>>

(***************************************************************************)
(* List primitives.                                                        *)
(***************************************************************************)
insdptr(a, d) ==
  LET next == IF current = NULL THEN front ELSE node[current].next
      new == [next |-> next, prev |-> current, data |-> d]
  IN  /\ node' = WithNext(WithPrev(New(a, new), next, a), current, a)
      /\ rear' = IF next = NULL THEN a ELSE rear
      /\ front' = IF current = NULL THEN a ELSE front
      /\ current' = a
      /\ ncurrent' = ncurrent + 1
      /\ nodes' = nodes + 1
      /\ out' = d

LinkedRoundOneWay(next, prev) == WithPrev(node, next, prev)
LinkedRound(next, prev) == WithNext(WithPrev(node, next, prev), prev, next)

deld ==
  \/ current = NULL /\ Nothing
  \/ /\ current # NULL
     /\ LET next == node[current].next
            prev == node[current].prev
        IN  /\ node' = Free(LinkedRound(next, prev), current)
            /\ rear' = IF next = NULL THEN prev ELSE rear
            /\ front' = IF prev = NULL THEN next ELSE front
            /\ current' = prev
     /\ ncurrent' = ncurrent - 1
     /\ nodes' = nodes - 1
     /\ out' = node[current].data

NextNumber(next) == IF next = NULL THEN 0 ELSE ncurrent + 1

nextdptr ==
  LET next == IF current = NULL THEN front ELSE node[current].next
  IN  /\ current' = next
      /\ ncurrent' = NextNumber(next)
      /\ out' = DataOf(next)
      /\ UNCHANGED <<node, ends, nodes>>

prevdptr ==
  LET prev == IF current = NULL THEN rear ELSE node[current].prev
  IN  /\ current' = prev
      /\ ncurrent' = IF current = NULL THEN nodes ELSE ncurrent - 1
      /\ out' = DataOf(prev)
      /\ UNCHANGED <<node, ends, nodes>>

getd == out' = DataOf(current) /\ UNCHANGED <<node, ends, current, ncurrent, nodes>>

putd(d) ==
  /\ node' = IF current = NULL THEN node ELSE [node EXCEPT ![current].data = d]
  /\ out' = IF current = NULL THEN NONE ELSE d
  /\ UNCHANGED <<ends, current, ncurrent, nodes>>

(***************************************************************************)
(* Array primitives, and clrFlist.                                         *)
(***************************************************************************)
stod(d, loc) ==
  /\ MakeCurrent(loc)
  /\ node' = IF Within(loc) THEN [node EXCEPT ![Located(loc)].data = d] ELSE node
  /\ out' = IF Within(loc) THEN d ELSE NONE
  /\ UNCHANGED <<ends, nodes>>

rcld(loc) == mkcdptr(loc)

clrFlist ==
  /\ node' = << >>
  /\ front' = NULL /\ rear' = NULL /\ current' = NULL
  /\ ncurrent' = 0 /\ nodes' = 0
  /\ out' = NONE

Init ==
  /\ node = << >>
  /\ front = NULL /\ rear = NULL /\ current = NULL
  /\ ncurrent = 0 /\ nodes = 0
  /\ out = NONE

Next ==
  \/ \E a \in Addresses \ Allocated, d \in Data : pushdptr(a, d) \/ iquedptr(a, d) \/ insdptr(a, d)
  \/ \E d \in Data : putd(d)
  \/ \E loc \in 0..nodes + 1 : mkcdptr(loc) \/ rcld(loc) \/ \E d \in Data : stod(d, loc)
  \/ popd \/ topdptr \/ deld \/ nextdptr \/ prevdptr \/ getd \/ clrFlist \/ Nothing

Spec == Init /\ [][Next]_vars

(***************************************************************************)
(* Properties.                                                             *)
(***************************************************************************)

\* The nodes from front to rear.
Path ==
  LET at[k \in 1..nodes] ==
        IF k = 1 THEN front ELSE IF at[k - 1] \in Allocated THEN node[at[k - 1]].next ELSE NULL
  IN  at

\* Types; the number of the current node is that of a node.
FlexTypeOK ==
  /\ Allocated \subseteq Addresses
  /\ \A a \in Allocated : node[a] \in Node
  /\ {front, rear, current} \subseteq Addresses \cup {NULL}
  /\ nodes \in 0..Cardinality(Addresses) /\ ncurrent \in 0..nodes

\* The links of the two directions agree, both ends are the ends, no node is lost, and
\* the current node is the one that ncurrent counts to: the two ways in which the code
\* keeps its place, which mkcdptr mixes, never differ.
WellLinked ==
  /\ FlexTypeOK
  /\ {Path[k] : k \in 1..nodes} = Allocated /\ nodes = Cardinality(Allocated)
  /\ front = (IF nodes = 0 THEN NULL ELSE Path[1]) /\ rear = (IF nodes = 0 THEN NULL ELSE Path[nodes])
  /\ \A k \in 1..nodes : /\ node[Path[k]].prev = IF k = 1 THEN NULL ELSE Path[k - 1]
                         /\ node[Path[k]].next = IF k = nodes THEN NULL ELSE Path[k + 1]
  /\ ncurrent \in 0..nodes /\ current = IF ncurrent = 0 THEN NULL ELSE Path[ncurrent]

\* The list behaves as a sequence with a cursor, in what it holds and in what every
\* operation hands back, wherever mkcdptr starts its walk.
List == INSTANCE CursorList WITH
  seq <- [k \in 1..nodes |-> node[Path[k]].data],
  pos <- ncurrent,
  Numbers <- 0..Cardinality(Addresses) + 1
ImplementsCursorList == List!ListSpec
=============================================================================
