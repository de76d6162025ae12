--------------------------- MODULE FlexlistProofs ---------------------------
(***************************************************************************)
(* The list is well linked after any sequence of operations, and behaves   *)
(* as a sequence with a cursor, for any number of nodes and any data.      *)
(***************************************************************************)
EXTENDS Flexlist, TLAPS, SequenceTheorems, FiniteSetTheorems, NaturalsInduction, WellFoundedInduction

(***************************************************************************)
(* Walks along the links.  Path, Forward and Backward are functions        *)
(* defined by recursion; that they are what they look like follows from a  *)
(* function that satisfies their equation, and from the least index at     *)
(* which another one could differ.                                         *)
(***************************************************************************)
LEMMA LeastNumber ==
  ASSUME NEW T, T \subseteq Nat, T # {}
  PROVE  \E m \in T : \A n \in T : m <= n
<1> DEFINE R == OpToRel(<, Nat)
<1>1. IsWellFoundedOn(R, Nat)
  BY NatLessThanWellFounded
<1>2. \E m \in T : \A n \in T : <<n, m>> \notin R
  BY <1>1, WFMin
<1>3. \A m, n \in Nat : <<n, m>> \in R <=> n < m
  BY DEF OpToRel
<1> HIDE DEF R
<1>4. \E m \in T : \A n \in T : ~(n < m)
  BY <1>2, <1>3
<1> QED BY <1>4

\* Two functions that go on alike from every number on which they agree are alike.
GoOnAlike(f, g, T) == \A k \in T : (k - 1 \in T => f[k - 1] = g[k - 1]) => f[k] = g[k]
Alike(f, g, T) == \A k \in T : f[k] = g[k]

LEMMA SameWalk ==
  ASSUME NEW T, T \subseteq Nat, NEW f, NEW g, GoOnAlike(f, g, T)
  PROVE  Alike(f, g, T)
<1> DEFINE Differ == {k \in T : f[k] # g[k]}
<1> SUFFICES ASSUME Differ # {} PROVE FALSE
  BY DEF Alike
<1>1. PICK k \in Differ : \A j \in Differ : k <= j
  <2>1. Differ \subseteq Nat
    OBVIOUS
  <2> HIDE DEF Differ
  <2> QED BY <2>1, LeastNumber
<1>2. k \in T /\ f[k] # g[k] /\ k \in Nat
  OBVIOUS
<1>3. k - 1 \notin Differ
  BY <1>1, <1>2
<1>4. k - 1 \in T => f[k - 1] = g[k - 1]
  BY <1>3
<1> HIDE DEF Differ
<1> QED BY <1>2, <1>4 DEF GoOnAlike

PathOf(nd, fr, n) ==
  LET at[k \in 1..n] ==
        IF k = 1 THEN fr ELSE IF at[k - 1] \in DOMAIN nd THEN nd[at[k - 1]].next ELSE NULL
  IN  at

Follows(p, nd, fr, n) ==
  /\ p = [k \in 1..n |-> p[k]]
  /\ n > 0 => p[1] = fr
  /\ \A k \in 1..n - 1 : p[k] \in DOMAIN nd /\ nd[p[k]].next = p[k + 1]

LEMMA PathIs ==
  ASSUME NEW nd, NEW fr, NEW n \in Nat, NEW p, Follows(p, nd, fr, n)
  PROVE  PathOf(nd, fr, n) = p
<1> USE DEF Follows
<1> DEFINE Path1(f) == [k \in 1..n |->
             IF k = 1 THEN fr ELSE IF f[k - 1] \in DOMAIN nd THEN nd[f[k - 1]].next ELSE NULL]
           at == CHOOSE f : f = Path1(f)
<1>1. PathOf(nd, fr, n) = at
  BY DEF PathOf
<1>2. p = Path1(p)
  <2>1. \A k \in 1..n : p[k] = Path1(p)[k]
    <3> SUFFICES ASSUME NEW k \in 1..n PROVE p[k] = Path1(p)[k]
      OBVIOUS
    <3>1. CASE k = 1
      BY <3>1
    <3>2. CASE k # 1
      <4>1. k - 1 \in 1..n - 1 /\ (k - 1) + 1 = k
        BY <3>2
      <4>2. p[k - 1] \in DOMAIN nd /\ nd[p[k - 1]].next = p[(k - 1) + 1]
        BY <4>1
      <4> QED BY <3>2, <4>1, <4>2
    <3> QED BY <3>1, <3>2
  <2> QED BY <2>1
<1>3. at = Path1(at)
  BY <1>2
<1> HIDE DEF at
<1>4. \A k \in 1..n : at[k] = Path1(at)[k]
  BY <1>3
<1>5. at = [k \in 1..n |-> at[k]]
  BY <1>3
<1>6. GoOnAlike(at, p, 1..n)
  <2> SUFFICES ASSUME NEW k \in 1..n, k - 1 \in 1..n => at[k - 1] = p[k - 1] PROVE at[k] = p[k]
    BY DEF GoOnAlike
  <2>1. CASE k = 1
    BY <1>4, <2>1
  <2>2. CASE k # 1
    <3>1. k - 1 \in 1..n - 1 /\ (k - 1) + 1 = k
      BY <2>2
    <3>2. p[k - 1] \in DOMAIN nd /\ nd[p[k - 1]].next = p[(k - 1) + 1]
      BY <3>1
    <3> QED BY <1>4, <2>2, <3>1, <3>2
  <2> QED BY <2>1, <2>2
<1>7. Alike(at, p, 1..n)
  <2>1. 1..n \subseteq Nat
    OBVIOUS
  <2> QED BY <1>6, <2>1, SameWalk
<1> QED BY <1>1, <1>5, <1>7 DEF Alike

\* A walk of i steps from the node j of a path ends at the node j + i, or j - i.
LEMMA ForwardIs ==
  ASSUME NEW i \in Nat, NEW j \in Nat, NEW p,
         \A k \in j..j + i - 1 : node[p[k]].next = p[k + 1]
  PROVE  Forward(p[j], i) = p[j + i]
<1> DEFINE Walk(f) == [k \in 0..i |-> IF k = 0 THEN p[j] ELSE node[f[k - 1]].next]
           at == CHOOSE f : f = Walk(f)
           q == [k \in 0..i |-> p[j + k]]
<1>1. Forward(p[j], i) = at[i]
  BY DEF Forward
<1>2. q = Walk(q)
  <2> SUFFICES ASSUME NEW k \in 0..i PROVE q[k] = Walk(q)[k]
    OBVIOUS
  <2>1. CASE k = 0
    BY <2>1
  <2>2. CASE k # 0
    <3>1. k - 1 \in 0..i /\ j + (k - 1) \in j..j + i - 1 /\ (j + (k - 1)) + 1 = j + k
      BY <2>2
    <3>2. node[p[j + (k - 1)]].next = p[(j + (k - 1)) + 1]
      BY <3>1
    <3>3. q[k - 1] = p[j + (k - 1)] /\ q[k] = p[j + k]
      BY <3>1
    <3> QED BY <2>2, <3>1, <3>2, <3>3
  <2> QED BY <2>1, <2>2
<1>3. at = Walk(at)
  BY <1>2
<1> HIDE DEF at
<1>4. \A k \in 0..i : at[k] = Walk(at)[k] /\ q[k] = Walk(q)[k]
  BY <1>2, <1>3
<1>5. GoOnAlike(at, q, 0..i)
  <2> SUFFICES ASSUME NEW k \in 0..i, k - 1 \in 0..i => at[k - 1] = q[k - 1] PROVE at[k] = q[k]
    BY DEF GoOnAlike
  <2> HIDE DEF q
  <2> QED BY <1>4
<1>6. Alike(at, q, 0..i)
  <2>1. 0..i \subseteq Nat
    OBVIOUS
  <2> HIDE DEF q
  <2> QED BY <1>5, <2>1, SameWalk
<1>7. at[i] = q[i]
  BY <1>6 DEF Alike
<1> QED BY <1>1, <1>7

LEMMA BackwardIs ==
  ASSUME NEW i \in Nat, NEW j \in Nat, NEW p,
         \A k \in j - i + 1..j : node[p[k]].prev = p[k - 1]
  PROVE  Backward(p[j], i) = p[j - i]
<1> DEFINE Walk(f) == [k \in 0..i |-> IF k = 0 THEN p[j] ELSE node[f[k - 1]].prev]
           at == CHOOSE f : f = Walk(f)
           q == [k \in 0..i |-> p[j - k]]
<1>1. Backward(p[j], i) = at[i]
  BY DEF Backward
<1>2. q = Walk(q)
  <2> SUFFICES ASSUME NEW k \in 0..i PROVE q[k] = Walk(q)[k]
    OBVIOUS
  <2>1. CASE k = 0
    BY <2>1
  <2>2. CASE k # 0
    <3>1. k - 1 \in 0..i /\ j - (k - 1) \in j - i + 1..j /\ (j - (k - 1)) - 1 = j - k
      BY <2>2
    <3>2. node[p[j - (k - 1)]].prev = p[(j - (k - 1)) - 1]
      BY <3>1
    <3>3. q[k - 1] = p[j - (k - 1)] /\ q[k] = p[j - k]
      BY <3>1
    <3> QED BY <2>2, <3>1, <3>2, <3>3
  <2> QED BY <2>1, <2>2
<1>3. at = Walk(at)
  BY <1>2
<1> HIDE DEF at
<1>4. \A k \in 0..i : at[k] = Walk(at)[k] /\ q[k] = Walk(q)[k]
  BY <1>2, <1>3
<1>5. GoOnAlike(at, q, 0..i)
  <2> SUFFICES ASSUME NEW k \in 0..i, k - 1 \in 0..i => at[k - 1] = q[k - 1] PROVE at[k] = q[k]
    BY DEF GoOnAlike
  <2> HIDE DEF q
  <2> QED BY <1>4
<1>6. Alike(at, q, 0..i)
  <2>1. 0..i \subseteq Nat
    OBVIOUS
  <2> HIDE DEF q
  <2> QED BY <1>5, <2>1, SameWalk
<1>7. at[i] = q[i]
  BY <1>6 DEF Alike
<1> QED BY <1>1, <1>7

(***************************************************************************)
(* A list of nodes.  p lists the addresses from front to rear, and NULL    *)
(* stands before the first and after the last.                             *)
(***************************************************************************)
Nth(p, n, k) == IF k \in 1..n THEN p[k] ELSE NULL

Chain(p, nd, n) ==
  /\ n \in Nat
  /\ DOMAIN nd \subseteq Addresses /\ nd = [a \in DOMAIN nd |-> nd[a]]
  /\ \A a \in DOMAIN nd : nd[a] \in Node
  /\ p \in [1..n -> DOMAIN nd]
  /\ \A a \in DOMAIN nd : \E k \in 1..n : a = p[k]
  /\ \A j, k \in 1..n : p[j] = p[k] => j = k
  /\ \A k \in 1..n : nd[p[k]].next = Nth(p, n, k + 1) /\ nd[p[k]].prev = Nth(p, n, k - 1)

Elements(p, nd, n) == [k \in 1..n |-> nd[p[k]].data]

InsertedIn(s, n, i, x) == [k \in 1..n + 1 |-> IF k <= i THEN s[k] ELSE IF k = i + 1 THEN x ELSE s[k - 1]]
TakenFrom(s, n, i) == [k \in 1..n - 1 |-> IF k < i THEN s[k] ELSE s[k + 1]]

LEMMA InsertionKeepsChain ==
  ASSUME NEW p, NEW nd, NEW n, Chain(p, nd, n), NEW i \in 0..n,
         NEW a \in Addresses \ DOMAIN nd, NEW d \in Data,
         NEW nd2, DOMAIN nd2 = DOMAIN nd \cup {a}, nd2 = [b \in DOMAIN nd2 |-> nd2[b]],
         nd2[a] = [next |-> Nth(p, n, i + 1), prev |-> Nth(p, n, i), data |-> d],
         \A b \in DOMAIN nd : /\ nd2[b] \in Node
                              /\ nd2[b].next = IF b = Nth(p, n, i) THEN a ELSE nd[b].next
                              /\ nd2[b].prev = IF b = Nth(p, n, i + 1) THEN a ELSE nd[b].prev
                              /\ nd2[b].data = nd[b].data
  PROVE  /\ Chain(InsertedIn(p, n, i, a), nd2, n + 1)
         /\ Elements(InsertedIn(p, n, i, a), nd2, n + 1) = InsertedIn(Elements(p, nd, n), n, i, d)
<1> DEFINE q == InsertedIn(p, n, i, a)
<1>1. n \in Nat /\ i \in Nat /\ i <= n /\ n + 1 \in Nat
  BY DEF Chain
<1>2. /\ \A k \in 1..n : p[k] \in DOMAIN nd /\ p[k] # a /\ p[k] # NULL /\ p[k] \in Addresses
      /\ \A j, k \in 1..n : p[j] = p[k] => j = k
      /\ a # NULL
  BY NullAssumption DEF Chain
<1>3. /\ \A k \in 1..n + 1 : q[k] = IF k <= i THEN p[k] ELSE IF k = i + 1 THEN a ELSE p[k - 1]
      /\ DOMAIN q = 1..n + 1 /\ q = [k \in 1..n + 1 |-> q[k]]
  BY DEF InsertedIn
<1> HIDE DEF q
<1>4. \A k \in 1..n + 1 : \/ k <= i /\ k \in 1..n /\ q[k] = p[k]
                          \/ k = i + 1 /\ q[k] = a
                          \/ k > i + 1 /\ k - 1 \in 1..n /\ q[k] = p[k - 1]
  BY <1>1, <1>3
<1>5. q \in [1..n + 1 -> DOMAIN nd2]
  <2>1. \A k \in 1..n + 1 : q[k] \in DOMAIN nd2
    BY <1>2, <1>4
  <2> QED BY <1>3, <2>1
<1>6. \A b \in DOMAIN nd2 : \E k \in 1..n + 1 : b = q[k]
  <2> SUFFICES ASSUME NEW b \in DOMAIN nd2 PROVE \E k \in 1..n + 1 : b = q[k]
    OBVIOUS
  <2>1. CASE b = a
    <3>1. i + 1 \in 1..n + 1 /\ ~(i + 1 <= i)
      BY <1>1
    <3>2. q[i + 1] = a
      BY <1>3, <3>1
    <3> QED BY <2>1, <3>1, <3>2
  <2>2. CASE b \in DOMAIN nd
    <3>1. PICK k \in 1..n : b = p[k]
      BY <2>2 DEF Chain
    <3>2. CASE k <= i
      <4>1. k \in 1..n + 1 /\ q[k] = p[k]
        BY <1>1, <1>3, <3>2
      <4> QED BY <3>1, <4>1
    <3>3. CASE k > i
      <4>1. k + 1 \in 1..n + 1 /\ ~(k + 1 <= i) /\ k + 1 # i + 1 /\ (k + 1) - 1 = k
        BY <1>1, <3>3
      <4>2. q[k + 1] = p[k]
        BY <1>3, <4>1
      <4> QED BY <3>1, <4>1, <4>2
    <3> QED BY <1>1, <3>2, <3>3
  <2> QED BY <2>1, <2>2
<1>7. \A j, k \in 1..n + 1 : q[j] = q[k] => j = k
  BY <1>1, <1>2, <1>4
<1>8. \A b \in DOMAIN nd2 : nd2[b] \in Node
  <2>1. nd2[a] \in Node
    <3>1. Nth(p, n, i + 1) \in Addresses \cup {NULL} /\ Nth(p, n, i) \in Addresses \cup {NULL}
      BY <1>2 DEF Nth
    <3> QED BY <3>1 DEF Node
  <2> QED BY <2>1
<1>9. ASSUME NEW k \in 1..n + 1
      PROVE  nd2[q[k]].next = Nth(q, n + 1, k + 1) /\ nd2[q[k]].prev = Nth(q, n + 1, k - 1)
  <2>1. CASE k <= i
    <3>1. k \in 1..n /\ q[k] = p[k] /\ k + 1 \in 1..n + 1
      BY <1>1, <1>3, <2>1
    <3>2. /\ nd[p[k]].next = Nth(p, n, k + 1) /\ nd[p[k]].prev = Nth(p, n, k - 1)
          /\ p[k] = Nth(p, n, i) <=> k = i
          /\ p[k] # Nth(p, n, i + 1)
      BY <1>1, <1>2, <2>1, <3>1 DEF Chain, Nth
    <3>3. nd2[p[k]].next = (IF k = i THEN a ELSE Nth(p, n, k + 1)) /\ nd2[p[k]].prev = Nth(p, n, k - 1)
      BY <1>2, <3>1, <3>2
    <3>4. Nth(q, n + 1, k + 1) = IF k = i THEN a ELSE Nth(p, n, k + 1)
      BY <1>1, <1>3, <2>1, <3>1 DEF Nth
    <3>5. Nth(q, n + 1, k - 1) = Nth(p, n, k - 1)
      BY <1>1, <1>3, <2>1, <3>1 DEF Nth
    <3> QED BY <3>1, <3>3, <3>4, <3>5
  <2>2. CASE k = i + 1
    <3>1. q[k] = a
      BY <1>1, <1>3, <2>2
    <3>2. Nth(q, n + 1, k + 1) = Nth(p, n, i + 1)
      BY <1>1, <1>3, <2>2 DEF Nth
    <3>3. Nth(q, n + 1, k - 1) = Nth(p, n, i)
      BY <1>1, <1>3, <2>2 DEF Nth
    <3> QED BY <3>1, <3>2, <3>3
  <2>3. CASE k > i + 1
    <3> DEFINE l == k - 1
    <3>1. l \in 1..n /\ q[k] = p[l] /\ l > i /\ k = l + 1
      BY <1>1, <1>3, <2>3
    <3> HIDE DEF l
    <3>2. /\ nd[p[l]].next = Nth(p, n, l + 1) /\ nd[p[l]].prev = Nth(p, n, l - 1)
          /\ p[l] = Nth(p, n, i + 1) <=> l = i + 1
          /\ p[l] # Nth(p, n, i)
      BY <1>1, <1>2, <3>1 DEF Chain, Nth
    <3>3. nd2[p[l]].prev = (IF l = i + 1 THEN a ELSE Nth(p, n, l - 1)) /\ nd2[p[l]].next = Nth(p, n, l + 1)
      BY <1>2, <3>1, <3>2
    <3>4. Nth(q, n + 1, k - 1) = IF l = i + 1 THEN a ELSE Nth(p, n, l - 1)
      BY <1>1, <1>3, <3>1 DEF Nth
    <3>5. Nth(q, n + 1, k + 1) = Nth(p, n, l + 1)
      BY <1>1, <1>3, <3>1 DEF Nth
    <3> QED BY <3>1, <3>3, <3>4, <3>5
  <2> QED BY <1>1, <2>1, <2>2, <2>3
<1>10. Chain(q, nd2, n + 1)
  <2>1. DOMAIN nd2 \subseteq Addresses
    BY DEF Chain
  <2> QED BY <1>1, <1>5, <1>6, <1>7, <1>8, <1>9, <2>1 DEF Chain
<1>11. Elements(q, nd2, n + 1) = InsertedIn(Elements(p, nd, n), n, i, d)
  <2>1. ASSUME NEW k \in 1..n + 1
        PROVE  Elements(q, nd2, n + 1)[k] = InsertedIn(Elements(p, nd, n), n, i, d)[k]
    <3>1. Elements(q, nd2, n + 1)[k] = nd2[q[k]].data
      BY DEF Elements
    <3>2. \A j \in 1..n : Elements(p, nd, n)[j] = nd[p[j]].data /\ nd2[p[j]].data = nd[p[j]].data
      BY <1>2 DEF Elements
    <3>3. InsertedIn(Elements(p, nd, n), n, i, d)[k]
            = IF k <= i THEN Elements(p, nd, n)[k] ELSE IF k = i + 1 THEN d ELSE Elements(p, nd, n)[k - 1]
      BY DEF InsertedIn
    <3>4. nd2[a].data = d
      OBVIOUS
    <3> QED BY <1>1, <1>4, <3>1, <3>2, <3>3, <3>4
  <2>2. /\ Elements(q, nd2, n + 1) = [k \in 1..n + 1 |-> Elements(q, nd2, n + 1)[k]]
        /\ InsertedIn(Elements(p, nd, n), n, i, d) = [k \in 1..n + 1 |-> InsertedIn(Elements(p, nd, n), n, i, d)[k]]
    BY DEF Elements, InsertedIn
  <2> QED BY <2>1, <2>2
<1> QED BY <1>10, <1>11 DEF q

LEMMA RemovalKeepsChain ==
  ASSUME NEW p, NEW nd, NEW n, Chain(p, nd, n), NEW i \in 1..n,
         NEW nd2, DOMAIN nd2 = DOMAIN nd \ {p[i]}, nd2 = [b \in DOMAIN nd2 |-> nd2[b]],
         \A b \in DOMAIN nd2 : /\ nd2[b] \in Node
                               /\ nd2[b].next = IF b = Nth(p, n, i - 1) THEN Nth(p, n, i + 1) ELSE nd[b].next
                               /\ nd2[b].prev = IF b = Nth(p, n, i + 1) THEN Nth(p, n, i - 1) ELSE nd[b].prev
                               /\ nd2[b].data = nd[b].data
  PROVE  /\ Chain(TakenFrom(p, n, i), nd2, n - 1)
         /\ Elements(TakenFrom(p, n, i), nd2, n - 1) = TakenFrom(Elements(p, nd, n), n, i)
<1> DEFINE q == TakenFrom(p, n, i)
<1>1. n \in Nat /\ i \in Nat /\ 1 <= i /\ i <= n /\ n - 1 \in Nat
  BY DEF Chain
<1>2. /\ \A k \in 1..n : p[k] \in DOMAIN nd /\ p[k] # NULL
      /\ \A j, k \in 1..n : p[j] = p[k] => j = k
  BY NullAssumption DEF Chain
<1>3. /\ \A k \in 1..n - 1 : q[k] = IF k < i THEN p[k] ELSE p[k + 1]
      /\ DOMAIN q = 1..n - 1 /\ q = [k \in 1..n - 1 |-> q[k]]
  BY DEF TakenFrom
<1> HIDE DEF q
<1>4. \A k \in 1..n - 1 : \/ k < i /\ k \in 1..n /\ q[k] = p[k]
                          \/ k >= i /\ k + 1 \in 1..n /\ q[k] = p[k + 1]
  BY <1>1, <1>3
<1>5. q \in [1..n - 1 -> DOMAIN nd2]
  <2>1. ASSUME NEW k \in 1..n - 1 PROVE q[k] \in DOMAIN nd2
    <3>1. PICK j \in 1..n : q[k] = p[j] /\ j # i
      BY <1>1, <1>4
    <3> QED BY <1>2, <3>1
  <2> QED BY <1>3, <2>1
<1>6. \A b \in DOMAIN nd2 : \E k \in 1..n - 1 : b = q[k]
  <2> SUFFICES ASSUME NEW b \in DOMAIN nd2 PROVE \E k \in 1..n - 1 : b = q[k]
    OBVIOUS
  <2>1. PICK k \in 1..n : b = p[k]
    BY DEF Chain
  <2>2. k # i
    BY <2>1
  <2>3. CASE k < i
    <3>1. k \in 1..n - 1 /\ q[k] = p[k]
      BY <1>1, <1>3, <2>3
    <3> QED BY <2>1, <3>1
  <2>4. CASE k > i
    <3>1. k - 1 \in 1..n - 1 /\ ~(k - 1 < i) /\ (k - 1) + 1 = k
      BY <1>1, <2>4
    <3>2. q[k - 1] = p[k]
      BY <1>3, <3>1
    <3> QED BY <2>1, <3>1, <3>2
  <2> QED BY <1>1, <2>2, <2>3, <2>4
<1>7. \A j, k \in 1..n - 1 : q[j] = q[k] => j = k
  BY <1>1, <1>2, <1>4
<1>8. ASSUME NEW k \in 1..n - 1
      PROVE  nd2[q[k]].next = Nth(q, n - 1, k + 1) /\ nd2[q[k]].prev = Nth(q, n - 1, k - 1)
  <2>0. q[k] \in DOMAIN nd2
    BY <1>5
  <2>1. CASE k < i
    <3>1. k \in 1..n /\ q[k] = p[k] /\ k + 1 \in 1..n
      BY <1>1, <1>3, <2>1
    <3>2. /\ nd[p[k]].next = Nth(p, n, k + 1) /\ nd[p[k]].prev = Nth(p, n, k - 1)
          /\ p[k] = Nth(p, n, i - 1) <=> k = i - 1
          /\ p[k] # Nth(p, n, i + 1)
      BY <1>1, <1>2, <2>1, <3>1 DEF Chain, Nth
    <3>3. /\ nd2[p[k]].next = (IF k = i - 1 THEN Nth(p, n, i + 1) ELSE Nth(p, n, k + 1))
          /\ nd2[p[k]].prev = Nth(p, n, k - 1)
      BY <2>0, <3>1, <3>2
    <3>4. Nth(q, n - 1, k + 1) = IF k = i - 1 THEN Nth(p, n, i + 1) ELSE Nth(p, n, k + 1)
      BY <1>1, <1>3, <2>1, <3>1 DEF Nth
    <3>5. Nth(q, n - 1, k - 1) = Nth(p, n, k - 1)
      BY <1>1, <1>3, <2>1, <3>1 DEF Nth
    <3> QED BY <3>1, <3>3, <3>4, <3>5
  <2>2. CASE k >= i
    <3> DEFINE l == k + 1
    <3>1. l \in 1..n /\ q[k] = p[l] /\ l > i /\ k = l - 1
      BY <1>1, <1>3, <2>2, SMTT(30)
    <3> HIDE DEF l
    <3>2. /\ nd[p[l]].next = Nth(p, n, l + 1) /\ nd[p[l]].prev = Nth(p, n, l - 1)
          /\ p[l] = Nth(p, n, i + 1) <=> l = i + 1
          /\ p[l] # Nth(p, n, i - 1)
      BY <1>1, <1>2, <3>1 DEF Chain, Nth
    <3>3. /\ nd2[p[l]].prev = (IF l = i + 1 THEN Nth(p, n, i - 1) ELSE Nth(p, n, l - 1))
          /\ nd2[p[l]].next = Nth(p, n, l + 1)
      BY <2>0, <3>1, <3>2
    <3>4. Nth(q, n - 1, k - 1) = IF l = i + 1 THEN Nth(p, n, i - 1) ELSE Nth(p, n, l - 1)
      BY <1>1, <1>3, <3>1 DEF Nth
    <3>5. Nth(q, n - 1, k + 1) = Nth(p, n, l + 1)
      BY <1>1, <1>3, <3>1 DEF Nth
    <3> QED BY <3>1, <3>3, <3>4, <3>5
  <2> QED BY <1>1, <2>1, <2>2
<1>9. Chain(q, nd2, n - 1)
  <2>1. DOMAIN nd2 \subseteq Addresses
    BY DEF Chain
  <2> QED BY <1>1, <1>5, <1>6, <1>7, <1>8, <2>1 DEF Chain
<1>10. Elements(q, nd2, n - 1) = TakenFrom(Elements(p, nd, n), n, i)
  <2>1. ASSUME NEW k \in 1..n - 1
        PROVE  Elements(q, nd2, n - 1)[k] = TakenFrom(Elements(p, nd, n), n, i)[k]
    <3>1. Elements(q, nd2, n - 1)[k] = nd2[q[k]].data /\ q[k] \in DOMAIN nd2
      BY <1>5 DEF Elements
    <3>2. nd2[q[k]].data = nd[q[k]].data
      BY <3>1
    <3>3. \A j \in 1..n : Elements(p, nd, n)[j] = nd[p[j]].data
      BY DEF Elements
    <3>4. TakenFrom(Elements(p, nd, n), n, i)[k]
            = IF k < i THEN Elements(p, nd, n)[k] ELSE Elements(p, nd, n)[k + 1]
      BY DEF TakenFrom
    <3> QED BY <1>1, <1>4, <3>1, <3>2, <3>3, <3>4
  <2>2. /\ Elements(q, nd2, n - 1) = [k \in 1..n - 1 |-> Elements(q, nd2, n - 1)[k]]
        /\ TakenFrom(Elements(p, nd, n), n, i) = [k \in 1..n - 1 |-> TakenFrom(Elements(p, nd, n), n, i)[k]]
    BY DEF Elements, TakenFrom
  <2> QED BY <2>1, <2>2, ZenonT(30)
<1> QED BY <1>9, <1>10 DEF q

Stored(nd, a, d) == [nd EXCEPT ![a].data = d]

LEMMA StoringKeepsChain ==
  ASSUME NEW p, NEW nd, NEW n, Chain(p, nd, n), NEW i \in 1..n, NEW d \in Data,
         NEW nd2, nd2 = Stored(nd, p[i], d)
  PROVE  Chain(p, nd2, n) /\ Elements(p, nd2, n) = [Elements(p, nd, n) EXCEPT ![i] = d]
<1>0. nd2 = [nd EXCEPT ![p[i]].data = d]
  BY DEF Stored
<1>1. /\ \A k \in 1..n : p[k] \in DOMAIN nd
      /\ \A j, k \in 1..n : p[j] = p[k] => j = k
      /\ \A a \in DOMAIN nd : nd[a] \in Node
  BY DEF Chain
<1>2. DOMAIN nd2 = DOMAIN nd /\ nd2 = [a \in DOMAIN nd2 |-> nd2[a]]
  BY <1>0
<1>3. ASSUME NEW a \in DOMAIN nd
      PROVE  /\ nd2[a] \in Node
             /\ nd2[a].next = nd[a].next /\ nd2[a].prev = nd[a].prev
             /\ nd2[a].data = IF a = p[i] THEN d ELSE nd[a].data
  <2>1. nd[a] \in Node
    BY <1>1
  <2>2. nd2[a] = IF a = p[i] THEN [nd[a] EXCEPT !.data = d] ELSE nd[a]
    BY <1>0
  <2> QED BY <2>1, <2>2 DEF Node
<1>4. \A k \in 1..n : nd2[p[k]].next = nd[p[k]].next /\ nd2[p[k]].prev = nd[p[k]].prev
  BY <1>1, <1>3
<1>5. Chain(p, nd2, n)
  BY <1>2, <1>3, <1>4 DEF Chain
<1>6. Elements(p, nd2, n) = [Elements(p, nd, n) EXCEPT ![i] = d]
  <2>1. ASSUME NEW k \in 1..n PROVE Elements(p, nd2, n)[k] = [Elements(p, nd, n) EXCEPT ![i] = d][k]
    <3>1. nd2[p[k]].data = IF k = i THEN d ELSE nd[p[k]].data
      BY <1>1, <1>3
    <3> QED BY <3>1 DEF Elements
  <2> QED BY <2>1 DEF Elements
<1> QED BY <1>5, <1>6

\* The links that insdptr, pushdptr and iquedptr make, and those that deld and popd undo.
LEMMA LinkedIn ==
  ASSUME NEW p, Chain(p, node, nodes), NEW i \in 0..nodes, NEW a \in Addresses \ Allocated, NEW d \in Data
  PROVE  LET nx  == Nth(p, nodes, i + 1)
             pv  == Nth(p, nodes, i)
             nd2 == WithNext(WithPrev(New(a, [next |-> nx, prev |-> pv, data |-> d]), nx, a), pv, a)
         IN  /\ Chain(InsertedIn(p, nodes, i, a), nd2, nodes + 1)
             /\ Elements(InsertedIn(p, nodes, i, a), nd2, nodes + 1)
                  = InsertedIn(Elements(p, node, nodes), nodes, i, d)
<1> DEFINE nx  == Nth(p, nodes, i + 1)
           pv  == Nth(p, nodes, i)
           x   == [next |-> nx, prev |-> pv, data |-> d]
           nd0 == New(a, x)
           nd1 == WithPrev(nd0, nx, a)
           nd2 == WithNext(nd1, pv, a)
<1>1. /\ nodes \in Nat /\ a # NULL /\ a \notin DOMAIN node
      /\ \A k \in 1..nodes : p[k] \in DOMAIN node /\ p[k] # NULL
      /\ \A j, k \in 1..nodes : p[j] = p[k] => j = k
      /\ \A b \in DOMAIN node : node[b] \in Node /\ b \in Addresses
  BY NullAssumption DEF Chain, Allocated
<1>2. /\ nx = NULL \/ nx \in DOMAIN node
      /\ pv = NULL \/ pv \in DOMAIN node
      /\ nx # NULL => nx # pv
      /\ NULL \notin DOMAIN node
  BY <1>1, NullAssumption DEF Nth
<1> HIDE DEF nx, pv, x
<1>3. /\ DOMAIN nd0 = DOMAIN node \cup {a} /\ nd0[a] = x
      /\ \A b \in DOMAIN node : nd0[b] = node[b]
      /\ nd0 = [b \in DOMAIN nd0 |-> nd0[b]]
  BY <1>1 DEF New, Allocated
<1> HIDE DEF nd0
<1>4. /\ DOMAIN nd1 = DOMAIN nd0 /\ nd1[a] = x
      /\ nd1 = [b \in DOMAIN nd1 |-> nd1[b]]
      /\ \A b \in DOMAIN node : nd1[b] = IF b = nx THEN [node[b] EXCEPT !.prev = a] ELSE node[b]
  <2>1. CASE nx = NULL
    BY <1>2, <1>3, <2>1 DEF WithPrev
  <2>2. CASE nx # NULL
    <3>1. nd1 = [nd0 EXCEPT ![nx].prev = a]
      BY <2>2 DEF WithPrev
    <3> HIDE DEF nd1
    <3> QED BY <1>1, <1>2, <1>3, <2>2, <3>1
  <2> QED BY <2>1, <2>2
<1> HIDE DEF nd1
<1>5. /\ DOMAIN nd2 = DOMAIN nd0 /\ nd2[a] = x
      /\ nd2 = [b \in DOMAIN nd2 |-> nd2[b]]
      /\ \A b \in DOMAIN node : nd2[b] = IF b = pv THEN [nd1[b] EXCEPT !.next = a] ELSE nd1[b]
  <2>1. CASE pv = NULL
    BY <1>2, <1>4, <2>1 DEF WithNext
  <2>2. CASE pv # NULL
    <3>1. nd2 = [nd1 EXCEPT ![pv].next = a]
      BY <2>2 DEF WithNext
    <3> HIDE DEF nd2
    <3> QED BY <1>1, <1>2, <1>3, <1>4, <2>2, <3>1
  <2> QED BY <2>1, <2>2
<1> HIDE DEF nd2
<1>6. ASSUME NEW b \in DOMAIN node
      PROVE  /\ nd2[b] \in Node
             /\ nd2[b].next = IF b = pv THEN a ELSE node[b].next
             /\ nd2[b].prev = IF b = nx THEN a ELSE node[b].prev
             /\ nd2[b].data = node[b].data
  <2>1. node[b] \in Node /\ a \in Addresses \cup {NULL}
    BY <1>1
  <2>2. CASE b = nx /\ b # pv
    <3>1. nd2[b] = [node[b] EXCEPT !.prev = a]
      BY <1>4, <1>5, <2>2
    <3> QED BY <2>1, <2>2, <3>1 DEF Node
  <2>3. CASE b # nx /\ b = pv
    <3>1. nd2[b] = [node[b] EXCEPT !.next = a]
      BY <1>4, <1>5, <2>3
    <3> QED BY <2>1, <2>3, <3>1 DEF Node
  <2>4. CASE b # nx /\ b # pv
    BY <1>4, <1>5, <2>1, <2>4 DEF Node
  <2> QED BY <1>2, <2>2, <2>3, <2>4
<1>7. DOMAIN nd2 = DOMAIN node \cup {a}
  BY <1>3, <1>5
<1>8. nd2[a] = [next |-> Nth(p, nodes, i + 1), prev |-> Nth(p, nodes, i), data |-> d]
  BY <1>5 DEF x, nx, pv
<1>9. \A b \in DOMAIN node : /\ nd2[b] \in Node
                             /\ nd2[b].next = IF b = Nth(p, nodes, i) THEN a ELSE node[b].next
                             /\ nd2[b].prev = IF b = Nth(p, nodes, i + 1) THEN a ELSE node[b].prev
                             /\ nd2[b].data = node[b].data
  BY <1>6 DEF nx, pv
<1>10. a \in Addresses \ DOMAIN node
  BY DEF Allocated
<1>11. /\ Chain(InsertedIn(p, nodes, i, a), nd2, nodes + 1)
       /\ Elements(InsertedIn(p, nodes, i, a), nd2, nodes + 1)
            = InsertedIn(Elements(p, node, nodes), nodes, i, d)
  BY <1>5, <1>7, <1>8, <1>9, <1>10, InsertionKeepsChain, SMTT(30)
<1> QED BY <1>11 DEF nd2, nd1, nd0, x, nx, pv

LEMMA LinkedOut ==
  ASSUME NEW p, Chain(p, node, nodes), NEW i \in 1..nodes
  PROVE  LET nx  == Nth(p, nodes, i + 1)
             pv  == Nth(p, nodes, i - 1)
             nd2 == Free(WithNext(WithPrev(node, nx, pv), pv, nx), p[i])
         IN  /\ Chain(TakenFrom(p, nodes, i), nd2, nodes - 1)
             /\ Elements(TakenFrom(p, nodes, i), nd2, nodes - 1)
                  = TakenFrom(Elements(p, node, nodes), nodes, i)
<1> DEFINE nx  == Nth(p, nodes, i + 1)
           pv  == Nth(p, nodes, i - 1)
           nd1 == WithPrev(node, nx, pv)
           nd2 == WithNext(nd1, pv, nx)
           nd3 == Free(nd2, p[i])
<1>1. /\ nodes \in Nat
      /\ \A k \in 1..nodes : p[k] \in DOMAIN node /\ p[k] # NULL
      /\ \A j, k \in 1..nodes : p[j] = p[k] => j = k
      /\ \A b \in DOMAIN node : node[b] \in Node /\ b \in Addresses
      /\ node = [b \in DOMAIN node |-> node[b]]
  BY NullAssumption DEF Chain
<1>2. /\ nx = NULL \/ nx \in DOMAIN node
      /\ pv = NULL \/ pv \in DOMAIN node
      /\ nx # NULL => nx # pv
      /\ NULL \notin DOMAIN node
      /\ nx \in Addresses \cup {NULL} /\ pv \in Addresses \cup {NULL}
  BY <1>1, NullAssumption DEF Nth
<1> HIDE DEF nx, pv
<1>4. /\ DOMAIN nd1 = DOMAIN node
      /\ nd1 = [b \in DOMAIN nd1 |-> nd1[b]]
      /\ \A b \in DOMAIN node : nd1[b] = IF b = nx THEN [node[b] EXCEPT !.prev = pv] ELSE node[b]
  <2>1. CASE nx = NULL
    BY <1>1, <1>2, <2>1 DEF WithPrev
  <2>2. CASE nx # NULL
    <3>1. nd1 = [node EXCEPT ![nx].prev = pv]
      BY <2>2 DEF WithPrev
    <3> HIDE DEF nd1
    <3> QED BY <1>1, <1>2, <2>2, <3>1
  <2> QED BY <2>1, <2>2
<1> HIDE DEF nd1
<1>5. /\ DOMAIN nd2 = DOMAIN node
      /\ \A b \in DOMAIN node : nd2[b] = IF b = pv THEN [nd1[b] EXCEPT !.next = nx] ELSE nd1[b]
  <2>1. CASE pv = NULL
    BY <1>2, <1>4, <2>1 DEF WithNext
  <2>2. CASE pv # NULL
    <3>1. nd2 = [nd1 EXCEPT ![pv].next = nx]
      BY <2>2 DEF WithNext
    <3> HIDE DEF nd2
    <3> QED BY <1>1, <1>2, <1>4, <2>2, <3>1
  <2> QED BY <2>1, <2>2
<1> HIDE DEF nd2
<1>6. /\ DOMAIN nd3 = DOMAIN node \ {p[i]} /\ nd3 = [b \in DOMAIN nd3 |-> nd3[b]]
      /\ \A b \in DOMAIN nd3 : nd3[b] = nd2[b]
  BY <1>5 DEF Free
<1> HIDE DEF nd3
<1>7. ASSUME NEW b \in DOMAIN nd3
      PROVE  /\ nd3[b] \in Node
             /\ nd3[b].next = IF b = pv THEN nx ELSE node[b].next
             /\ nd3[b].prev = IF b = nx THEN pv ELSE node[b].prev
             /\ nd3[b].data = node[b].data
  <2>1. node[b] \in Node /\ b \in DOMAIN node /\ nd3[b] = nd2[b]
    BY <1>1, <1>6
  <2>2. CASE b = nx /\ b # pv
    BY <1>2, <1>4, <1>5, <2>1, <2>2 DEF Node
  <2>3. CASE b # nx /\ b = pv
    BY <1>2, <1>4, <1>5, <2>1, <2>3 DEF Node
  <2>4. CASE b # nx /\ b # pv
    BY <1>4, <1>5, <2>1, <2>4 DEF Node
  <2> QED BY <1>2, <2>1, <2>2, <2>3, <2>4
<1>8. \A b \in DOMAIN nd3 :
        /\ nd3[b] \in Node
        /\ nd3[b].next = IF b = Nth(p, nodes, i - 1) THEN Nth(p, nodes, i + 1) ELSE node[b].next
        /\ nd3[b].prev = IF b = Nth(p, nodes, i + 1) THEN Nth(p, nodes, i - 1) ELSE node[b].prev
        /\ nd3[b].data = node[b].data
  BY <1>7 DEF nx, pv
<1>9. /\ Chain(TakenFrom(p, nodes, i), nd3, nodes - 1)
      /\ Elements(TakenFrom(p, nodes, i), nd3, nodes - 1)
           = TakenFrom(Elements(p, node, nodes), nodes, i)
  BY <1>6, <1>8, RemovalKeepsChain
<1> QED BY <1>9 DEF nd3, nd2, nd1, nx, pv

(***************************************************************************)
(* The cursor.                                                             *)
(***************************************************************************)
Placed(p) ==
  /\ Chain(p, node, nodes)
  /\ front = Nth(p, nodes, 1) /\ rear = Nth(p, nodes, nodes)
  /\ ncurrent \in 0..nodes /\ current = Nth(p, nodes, ncurrent)

\* The list is what some sequence of addresses says: the code has the links alone.
ListInv == \E p : Placed(p)

LEMMA PlacedFacts ==
  ASSUME NEW p, Placed(p)
  PROVE  /\ nodes \in Nat /\ ncurrent \in Nat /\ ncurrent <= nodes
         /\ \A k \in 1..nodes : /\ p[k] \in Allocated /\ p[k] # NULL
                                /\ node[p[k]].next = Nth(p, nodes, k + 1)
                                /\ node[p[k]].prev = Nth(p, nodes, k - 1)
                                /\ node[p[k]].data \in Data
         /\ front = NULL <=> nodes = 0
         /\ rear = NULL <=> nodes = 0
         /\ current = NULL <=> ncurrent = 0
         /\ ncurrent # 0 => ncurrent \in 1..nodes /\ current = p[ncurrent]
         /\ front = rear <=> nodes <= 1
<1>1. nodes \in Nat /\ ncurrent \in Nat /\ ncurrent <= nodes
  BY DEF Placed, Chain
<1>2. \A k \in 1..nodes : p[k] \in DOMAIN node /\ p[k] # NULL
  BY NullAssumption DEF Placed, Chain
<1>3. \A k \in 1..nodes : node[p[k]] \in Node
  BY <1>2 DEF Placed, Chain
<1>4. \A k \in 1..nodes : node[p[k]].data \in Data
  BY <1>3 DEF Node
<1>5. \A k \in 1..nodes : node[p[k]].next = Nth(p, nodes, k + 1) /\ node[p[k]].prev = Nth(p, nodes, k - 1)
  BY DEF Placed, Chain
<1>6. /\ front = NULL <=> nodes = 0
      /\ rear = NULL <=> nodes = 0
      /\ current = NULL <=> ncurrent = 0
      /\ ncurrent # 0 => ncurrent \in 1..nodes /\ current = p[ncurrent]
  BY <1>1, <1>2 DEF Placed, Nth
<1>7. \A j, k \in 1..nodes : p[j] = p[k] => j = k
  BY DEF Placed, Chain
<1>8. front = rear <=> nodes <= 1
  <2>1. front = Nth(p, nodes, 1) /\ rear = Nth(p, nodes, nodes)
    BY DEF Placed
  <2>2. CASE nodes = 0
    BY <2>1, <2>2 DEF Nth
  <2>3. CASE nodes # 0
    BY <1>1, <1>7, <2>1, <2>3 DEF Nth
  <2> QED BY <2>2, <2>3
<1> QED BY <1>1, <1>2, <1>4, <1>5, <1>6, <1>8 DEF Allocated

\* The three starts of the walk lead to the same node.
LEMMA LocatedIs ==
  ASSUME NEW p, Placed(p), NEW loc \in 1..nodes
  PROVE  Located(loc) = p[loc]
<1>1. /\ nodes \in Nat /\ ncurrent \in Nat /\ ncurrent <= nodes
      /\ \A k \in 1..nodes : /\ node[p[k]].next = Nth(p, nodes, k + 1)
                             /\ node[p[k]].prev = Nth(p, nodes, k - 1)
      /\ ncurrent # 0 => ncurrent \in 1..nodes /\ current = p[ncurrent]
  BY PlacedFacts
<1>2. \A k \in 1..nodes - 1 : node[p[k]].next = p[k + 1]
  <2> SUFFICES ASSUME NEW k \in 1..nodes - 1 PROVE node[p[k]].next = p[k + 1]
    OBVIOUS
  <2>1. k \in 1..nodes /\ k + 1 \in 1..nodes
    BY <1>1
  <2> QED BY <1>1, <2>1 DEF Nth
<1>3. \A k \in 2..nodes : node[p[k]].prev = p[k - 1]
  <2> SUFFICES ASSUME NEW k \in 2..nodes PROVE node[p[k]].prev = p[k - 1]
    OBVIOUS
  <2>1. k \in 1..nodes /\ k - 1 \in 1..nodes
    BY <1>1
  <2> QED BY <1>1, <2>1 DEF Nth
<1>4. loc \in Nat /\ 1 <= loc /\ loc <= nodes
  BY <1>1
<1>5. CASE loc = ncurrent
  BY <1>1, <1>4, <1>5 DEF Located
<1>6. CASE loc # ncurrent /\ WalkFromRear(loc)
  <2> DEFINE i == nodes - loc
  <2>1. i \in Nat /\ nodes \in Nat /\ nodes - i = loc /\ nodes - i + 1 >= 2
    BY <1>1, <1>4
  <2>2. \A k \in nodes - i + 1..nodes : node[p[k]].prev = p[k - 1]
    BY <1>1, <1>3, <2>1
  <2>3. rear = p[nodes]
    BY <1>1, <1>4 DEF Placed, Nth
  <2>4. Located(loc) = Backward(p[nodes], i)
    BY <1>6, <2>3 DEF Located
  <2> HIDE DEF i
  <2>5. Backward(p[nodes], i) = p[nodes - i]
    BY <2>1, <2>2, BackwardIs
  <2> QED BY <2>1, <2>4, <2>5
<1>7. CASE loc # ncurrent /\ ~WalkFromRear(loc) /\ WalkFromCurrent(loc) /\ loc > ncurrent
  <2> DEFINE i == loc - ncurrent
  <2>1. i \in Nat /\ ncurrent \in Nat /\ ncurrent + i = loc /\ ncurrent + i - 1 <= nodes - 1 /\ ncurrent >= 1
    BY <1>1, <1>4, <1>7 DEF WalkFromCurrent
  <2>2. \A k \in ncurrent..ncurrent + i - 1 : node[p[k]].next = p[k + 1]
    BY <1>1, <1>2, <2>1
  <2>3. Located(loc) = Forward(p[ncurrent], i)
    BY <1>1, <1>7, <2>1 DEF Located
  <2> HIDE DEF i
  <2>4. Forward(p[ncurrent], i) = p[ncurrent + i]
    BY <2>1, <2>2, ForwardIs
  <2> QED BY <2>1, <2>3, <2>4
<1>8. CASE loc # ncurrent /\ ~WalkFromRear(loc) /\ WalkFromCurrent(loc) /\ ~(loc > ncurrent)
  <2> DEFINE i == ncurrent - loc
  <2>1. i \in Nat /\ ncurrent \in Nat /\ ncurrent - i = loc /\ ncurrent - i + 1 >= 2 /\ ncurrent >= 1
    BY <1>1, <1>4, <1>8 DEF WalkFromCurrent
  <2>2. \A k \in ncurrent - i + 1..ncurrent : node[p[k]].prev = p[k - 1]
    BY <1>1, <1>3, <2>1
  <2>3. Located(loc) = Backward(p[ncurrent], i)
    BY <1>1, <1>8, <2>1 DEF Located
  <2> HIDE DEF i
  <2>4. Backward(p[ncurrent], i) = p[ncurrent - i]
    BY <2>1, <2>2, BackwardIs
  <2> QED BY <2>1, <2>3, <2>4
<1>9. CASE loc # ncurrent /\ ~WalkFromRear(loc) /\ ~WalkFromCurrent(loc)
  <2> DEFINE i == loc - 1
  <2>1. i \in Nat /\ 1 \in Nat /\ 1 + i = loc /\ 1 + i - 1 <= nodes - 1
    BY <1>1, <1>4
  <2>2. \A k \in 1..1 + i - 1 : node[p[k]].next = p[k + 1]
    BY <1>1, <1>2, <2>1
  <2>3. front = p[1]
    BY <1>1, <1>4 DEF Placed, Nth
  <2>4. Located(loc) = Forward(p[1], i)
    BY <1>9, <2>3 DEF Located
  <2> HIDE DEF i
  <2>5. Forward(p[1], i) = p[1 + i]
    BY <2>1, <2>2, ForwardIs
  <2> QED BY <2>1, <2>4, <2>5
<1> QED BY <1>5, <1>6, <1>7, <1>8, <1>9

LEMMA NextAndPrevious ==
  ASSUME NEW p, Placed(p)
  PROVE  /\ (IF current = NULL THEN front ELSE node[current].next) = Nth(p, nodes, ncurrent + 1)
         /\ (IF current = NULL THEN rear ELSE node[current].prev)
              = Nth(p, nodes, IF ncurrent = 0 THEN nodes ELSE ncurrent - 1)
<1>1. /\ nodes \in Nat /\ ncurrent \in Nat
      /\ \A k \in 1..nodes : /\ node[p[k]].next = Nth(p, nodes, k + 1)
                             /\ node[p[k]].prev = Nth(p, nodes, k - 1)
      /\ current = NULL <=> ncurrent = 0
      /\ ncurrent # 0 => ncurrent \in 1..nodes /\ current = p[ncurrent]
  BY PlacedFacts
<1>2. front = Nth(p, nodes, 1) /\ rear = Nth(p, nodes, nodes)
  BY DEF Placed
<1>3. CASE ncurrent = 0
  BY <1>1, <1>2, <1>3
<1>4. CASE ncurrent # 0
  BY <1>1, <1>4
<1> QED BY <1>3, <1>4

LEMMA DataOfNth ==
  ASSUME NEW p, Placed(p), NEW k \in Int
  PROVE  DataOf(Nth(p, nodes, k)) = IF k \in 1..nodes THEN node[p[k]].data ELSE NONE
<1>1. \A j \in 1..nodes : p[j] # NULL
  BY PlacedFacts
<1> QED BY <1>1 DEF DataOf, Nth

(***************************************************************************)
(* What the changes of p are to the sequence.                              *)
(***************************************************************************)
LEMMA InsertionIs ==
  ASSUME NEW S, NEW s \in Seq(S), NEW i \in 0..Len(s), NEW x \in S
  PROVE  /\ InsertedIn(s, Len(s), i, x) = SubSeq(s, 1, i) \o <<x>> \o SubSeq(s, i + 1, Len(s))
         /\ i = 0 => InsertedIn(s, Len(s), i, x) = <<x>> \o s
         /\ i = Len(s) => InsertedIn(s, Len(s), i, x) = Append(s, x)
<1> DEFINE n == Len(s)
           t == InsertedIn(s, n, i, x)
           b == SubSeq(s, 1, i)
           e == SubSeq(s, i + 1, n)
<1>1. n \in Nat /\ \A k \in 1..n : s[k] \in S
  BY ElementOfSeq, LenProperties
<1>2. t \in Seq(S) /\ Len(t) = n + 1
      /\ \A k \in 1..n + 1 : t[k] = IF k <= i THEN s[k] ELSE IF k = i + 1 THEN x ELSE s[k - 1]
  <2>1. \A k \in 1..n + 1 : (IF k <= i THEN s[k] ELSE IF k = i + 1 THEN x ELSE s[k - 1]) \in S
    BY <1>1
  <2>2. t \in [1..n + 1 -> S] /\ n + 1 \in Nat
    BY <1>1, <2>1 DEF InsertedIn
  <2>3. t \in Seq(S)
    BY <2>2, SeqDef
  <2>4. DOMAIN t = 1..n + 1
    BY <2>2
  <2> QED BY <1>1, <2>2, <2>3, <2>4, LenProperties DEF InsertedIn
<1>3. <<x>> \in Seq(S) /\ Len(<<x>>) = 1 /\ <<x>>[1] = x
  OBVIOUS
<1>4. b \in Seq(S) /\ Len(b) = i /\ \A k \in 1..i : b[k] = s[k]
  <2>1. 1 \in Int /\ i \in Int /\ \A k \in 1..i : s[k] \in S
    BY <1>1
  <2>2. Len(b) = (IF 1 <= i THEN i - 1 + 1 ELSE 0) /\ b \in Seq(S)
        /\ \A k \in 1..i - 1 + 1 : b[k] = s[1 + k - 1]
    BY <2>1, SubSeqProperties
  <2> HIDE DEF b
  <2> QED BY <1>1, <2>2
<1>5. e \in Seq(S) /\ Len(e) = n - i /\ \A k \in 1..n - i : e[k] = s[i + k]
  <2>1. i + 1 \in Int /\ n \in Int /\ \A k \in i + 1..n : s[k] \in S
    BY <1>1
  <2>2. Len(e) = (IF i + 1 <= n THEN n - (i + 1) + 1 ELSE 0) /\ e \in Seq(S)
        /\ \A k \in 1..n - (i + 1) + 1 : e[k] = s[(i + 1) + k - 1]
    BY <2>1, SubSeqProperties
  <2> HIDE DEF e
  <2>3. Len(e) = n - i /\ n - (i + 1) + 1 = n - i /\ \A k \in Int : (i + 1) + k - 1 = i + k
    BY <1>1, <2>2, SMTT(30)
  <2> QED BY <2>2, <2>3
<1> HIDE DEF b, e, t, n
<1>6. b \o <<x>> \in Seq(S) /\ Len(b \o <<x>>) = i + 1
      /\ \A k \in 1..i + 1 : (b \o <<x>>)[k] = IF k <= i THEN s[k] ELSE x
  <2>1. Len(b \o <<x>>) = Len(b) + Len(<<x>>) /\ b \o <<x>> \in Seq(S)
        /\ \A k \in 1..Len(b) + Len(<<x>>) : (b \o <<x>>)[k] = IF k <= Len(b) THEN b[k] ELSE <<x>>[k - Len(b)]
    BY <1>3, <1>4, ConcatProperties
  <2> QED BY <1>3, <1>4, <2>1
<1>7. t = b \o <<x>> \o e
  <2> DEFINE c == b \o <<x>>
  <2>1. Len(c \o e) = Len(c) + Len(e) /\ c \o e \in Seq(S)
        /\ \A k \in 1..Len(c) + Len(e) : (c \o e)[k] = IF k <= Len(c) THEN c[k] ELSE e[k - Len(c)]
    BY <1>5, <1>6, ConcatProperties
  <2> HIDE DEF c
  <2>2. c \in Seq(S) /\ Len(c) = i + 1 /\ \A k \in 1..i + 1 : c[k] = IF k <= i THEN s[k] ELSE x
    BY <1>6 DEF c
  <2>3. Len(c \o e) = n + 1
    BY <1>1, <1>5, <2>1, <2>2
  <2>4. \A k \in 1..n + 1 : (c \o e)[k] = IF k <= i + 1 THEN c[k] ELSE e[k - (i + 1)]
    BY <1>1, <1>5, <2>1, <2>2
  <2> DEFINE u == c \o e
  <2>5. \A k \in 1..n + 1 : u[k] = IF k <= i + 1 THEN c[k] ELSE e[k - (i + 1)]
    BY <2>4
  <2>6. u \in Seq(S) /\ Len(u) = n + 1
    BY <2>1, <2>3
  <2> HIDE DEF u
  <2>7. ASSUME NEW k \in 1..n + 1 PROVE t[k] = u[k]
    <3>1. k \in Int /\ i \in Int
      BY <1>1 DEF n
    <3>2. CASE k <= i
      BY <1>2, <2>2, <2>5, <3>1, <3>2, SMTT(30)
    <3>3. CASE k = i + 1
      BY <1>2, <2>2, <2>5, <3>1, <3>3
    <3>4. CASE k > i + 1
      <4>1. u[k] = e[k - (i + 1)] /\ t[k] = s[k - 1]
        BY <1>2, <2>5, <3>1, <3>4
      <4>2. k - (i + 1) \in 1..n - i /\ i + (k - (i + 1)) = k - 1
        BY <1>1, <3>1, <3>4
      <4>3. e[k - (i + 1)] = s[i + (k - (i + 1))]
        BY <1>5, <4>2
      <4> QED BY <4>1, <4>2, <4>3
    <3> QED BY <3>1, <3>2, <3>3, <3>4
  <2>8. t = u
    BY <1>2, <2>6, <2>7, SeqEqual
  <2> QED BY <2>8 DEF u, c
<1>8. i = 0 => t = <<x>> \o s
  <2> SUFFICES ASSUME i = 0 PROVE t = <<x>> \o s
    OBVIOUS
  <2>1. Len(<<x>> \o s) = Len(<<x>>) + Len(s) /\ <<x>> \o s \in Seq(S)
        /\ \A k \in 1..Len(<<x>>) + Len(s) : (<<x>> \o s)[k] = IF k <= Len(<<x>>) THEN <<x>>[k] ELSE s[k - Len(<<x>>)]
    BY <1>3, ConcatProperties
  <2>2. Len(<<x>> \o s) = n + 1 /\ \A k \in 1..n + 1 : t[k] = (<<x>> \o s)[k]
    BY <1>1, <1>2, <1>3, <2>1 DEF n
  <2> QED BY <1>2, <2>1, <2>2, SeqEqual
<1>9. i = n => t = Append(s, x)
  <2> SUFFICES ASSUME i = n PROVE t = Append(s, x)
    OBVIOUS
  <2>1. /\ Append(s, x) \in Seq(S) /\ Len(Append(s, x)) = n + 1
        /\ \A k \in 1..n : Append(s, x)[k] = s[k]
        /\ Append(s, x)[n + 1] = x
    BY AppendProperties DEF n
  <2>2. \A k \in 1..n + 1 : t[k] = Append(s, x)[k]
    BY <1>1, <1>2, <2>1
  <2> QED BY <1>2, <2>1, <2>2, SeqEqual
<1> QED BY <1>7, <1>8, <1>9 DEF t, b, e, n

LEMMA RemovalIs ==
  ASSUME NEW S, NEW s \in Seq(S), s # << >>
  PROVE  TakenFrom(s, Len(s), 1) = Tail(s)
<1>1. Len(s) \in Nat \ {0} /\ \A k \in 1..Len(s) : s[k] \in S
  BY EmptySeq, ElementOfSeq
<1> DEFINE n == Len(s)
           t == TakenFrom(s, n, 1)
<1>2. t \in Seq(S) /\ Len(t) = n - 1 /\ \A k \in 1..n - 1 : t[k] = s[k + 1]
  <2>1. n - 1 \in Nat /\ t \in [1..n - 1 -> S] /\ \A k \in 1..n - 1 : t[k] = s[k + 1]
    BY <1>1 DEF TakenFrom
  <2>2. t \in Seq(S)
    BY <2>1, SeqDef
  <2>3. DOMAIN t = 1..n - 1
    BY <2>1
  <2> QED BY <1>1, <2>1, <2>2, <2>3, LenProperties
<1>3. Tail(s) \in Seq(S) /\ Len(Tail(s)) = n - 1 /\ \A k \in 1..n - 1 : Tail(s)[k] = s[k + 1]
  BY HeadTailProperties
<1> QED BY <1>2, <1>3, SeqEqual

(***************************************************************************)
(* The steps.  Contents is the sequence that CursorList speaks of.         *)
(***************************************************************************)
Contents == [k \in 1..nodes |-> node[Path[k]].data]

LEMMA PathOfChain ==
  ASSUME NEW p, NEW nd, NEW n, Chain(p, nd, n), NEW fr, fr = Nth(p, n, 1)
  PROVE  PathOf(nd, fr, n) = p
<1>1. n \in Nat /\ p = [k \in 1..n |-> p[k]] /\ \A k \in 1..n : p[k] \in DOMAIN nd
  BY DEF Chain
<1>2. n > 0 => p[1] = fr
  BY <1>1 DEF Nth
<1>3. \A k \in 1..n - 1 : p[k] \in DOMAIN nd /\ nd[p[k]].next = p[k + 1]
  <2> SUFFICES ASSUME NEW k \in 1..n - 1 PROVE p[k] \in DOMAIN nd /\ nd[p[k]].next = p[k + 1]
    OBVIOUS
  <2>1. k \in 1..n /\ k + 1 \in 1..n
    BY <1>1
  <2>2. nd[p[k]].next = Nth(p, n, k + 1)
    BY <2>1 DEF Chain
  <2> QED BY <1>1, <2>1, <2>2 DEF Nth
<1>4. Follows(p, nd, fr, n)
  BY <1>1, <1>2, <1>3 DEF Follows
<1> QED BY <1>1, <1>4, PathIs

LEMMA ElementsAreData ==
  ASSUME NEW p, NEW nd, NEW n, Chain(p, nd, n)
  PROVE  /\ Elements(p, nd, n) \in Seq(Data) /\ Len(Elements(p, nd, n)) = n
         /\ \A k \in 1..n : Elements(p, nd, n)[k] = nd[p[k]].data
<1>1. n \in Nat /\ \A k \in 1..n : nd[p[k]] \in Node
  BY DEF Chain
<1>2. \A k \in 1..n : nd[p[k]].data \in Data
  BY <1>1 DEF Node
<1>3. /\ Elements(p, nd, n) \in [1..n -> Data]
      /\ \A k \in 1..n : Elements(p, nd, n)[k] = nd[p[k]].data
      /\ DOMAIN Elements(p, nd, n) = 1..n
  BY <1>2 DEF Elements
<1>4. Elements(p, nd, n) \in Seq(Data)
  BY <1>1, <1>3, SeqDef
<1> QED BY <1>1, <1>3, <1>4, LenProperties

LEMMA ContentsAre ==
  ASSUME NEW p, Placed(p)
  PROVE  /\ Path = p /\ Contents = Elements(p, node, nodes)
         /\ Contents \in Seq(Data) /\ Len(Contents) = nodes
         /\ \A k \in 1..nodes : Contents[k] = node[p[k]].data
<1>1. Path = PathOf(node, front, nodes)
  BY DEF Path, PathOf, Allocated
<1>2. Chain(p, node, nodes) /\ front = Nth(p, nodes, 1)
  BY DEF Placed
<1>3. Path = p
  BY <1>1, <1>2, PathOfChain
<1>4. Contents = Elements(p, node, nodes)
  BY <1>3 DEF Contents, Elements
<1> QED BY <1>2, <1>3, <1>4, ElementsAreData

LEMMA ContentsAfter ==
  ASSUME NEW q, Placed(q)'
  PROVE  Contents' = Elements(q, node', nodes')
<1>1. Path' = PathOf(node', front', nodes')
  BY DEF Path, PathOf, Allocated
<1>2. Chain(q, node', nodes') /\ front' = Nth(q, nodes', 1)
  BY DEF Placed
<1>3. Path' = q
  BY <1>1, <1>2, PathOfChain
<1> QED BY <1>3 DEF Contents, Elements

LEMMA InsertStep ==
  ASSUME NEW p, Placed(p), NEW i \in 0..nodes, NEW a \in Addresses \ Allocated, NEW d \in Data,
         node' = WithNext(WithPrev(New(a, [next |-> Nth(p, nodes, i + 1), prev |-> Nth(p, nodes, i), data |-> d]),
                                   Nth(p, nodes, i + 1), a),
                          Nth(p, nodes, i), a),
         front' = IF i = 0 THEN a ELSE front,
         rear' = IF i = nodes THEN a ELSE rear,
         nodes' = nodes + 1,
         ncurrent' \in 0..nodes + 1,
         current' = Nth(InsertedIn(p, nodes, i, a), nodes + 1, ncurrent')
  PROVE  ListInv' /\ Contents' = InsertedIn(Contents, nodes, i, d)
<1>0. PICK q : q = InsertedIn(p, nodes, i, a)
  OBVIOUS
<1>1. Chain(p, node, nodes) /\ nodes \in Nat /\ front = Nth(p, nodes, 1) /\ rear = Nth(p, nodes, nodes)
  BY PlacedFacts DEF Placed
<1>2. Chain(q, node', nodes') /\ Elements(q, node', nodes') = InsertedIn(Elements(p, node, nodes), nodes, i, d)
  BY <1>0, <1>1, LinkedIn
<1>3. \A k \in 1..nodes + 1 : q[k] = IF k <= i THEN p[k] ELSE IF k = i + 1 THEN a ELSE p[k - 1]
  BY <1>0 DEF InsertedIn
<1>4. front' = Nth(q, nodes', 1)
  <2>1. 1 \in 1..nodes' /\ Nth(q, nodes', 1) = q[1] /\ q[1] = (IF 1 <= i THEN p[1] ELSE IF 1 = i + 1 THEN a ELSE p[0])
    BY <1>1, <1>3 DEF Nth
  <2>2. CASE i = 0
    BY <2>1, <2>2
  <2>3. CASE i # 0
    BY <1>1, <2>1, <2>3 DEF Nth
  <2> QED BY <2>2, <2>3
<1>5. rear' = Nth(q, nodes', nodes')
  <2> DEFINE m == nodes + 1
  <2>1. m \in 1..nodes + 1 /\ m - 1 = nodes /\ Nth(q, nodes', nodes') = q[m]
    BY <1>1 DEF Nth
  <2>2. q[m] = (IF m <= i THEN p[m] ELSE IF m = i + 1 THEN a ELSE p[m - 1])
    BY <1>3, <2>1
  <2>3. CASE i = nodes
    BY <1>1, <2>1, <2>2, <2>3
  <2>4. CASE i # nodes
    BY <1>1, <2>1, <2>2, <2>4 DEF Nth
  <2> QED BY <2>3, <2>4
<1>6. ncurrent' \in 0..nodes' /\ current' = Nth(q, nodes', ncurrent')
  BY <1>0
<1>7. Placed(q)'
  BY <1>2, <1>4, <1>5, <1>6 DEF Placed
<1>8. Contents' = InsertedIn(Contents, nodes, i, d)
  BY <1>2, <1>7, ContentsAfter, ContentsAre
<1> QED BY <1>7, <1>8 DEF ListInv

LEMMA RemoveStep ==
  ASSUME NEW p, Placed(p), NEW i \in 1..nodes,
         node' = Free(WithNext(WithPrev(node, Nth(p, nodes, i + 1), Nth(p, nodes, i - 1)),
                               Nth(p, nodes, i - 1), Nth(p, nodes, i + 1)),
                      p[i]),
         front' = IF i = 1 THEN Nth(p, nodes, 2) ELSE front,
         rear' = IF i = nodes THEN Nth(p, nodes, nodes - 1) ELSE rear,
         nodes' = nodes - 1,
         ncurrent' \in 0..nodes - 1,
         current' = Nth(TakenFrom(p, nodes, i), nodes - 1, ncurrent')
  PROVE  ListInv' /\ Contents' = TakenFrom(Contents, nodes, i)
<1>0. PICK q : q = TakenFrom(p, nodes, i)
  OBVIOUS
<1>1. Chain(p, node, nodes) /\ nodes \in Nat /\ front = Nth(p, nodes, 1) /\ rear = Nth(p, nodes, nodes)
  BY PlacedFacts DEF Placed
<1>2. Chain(q, node', nodes') /\ Elements(q, node', nodes') = TakenFrom(Elements(p, node, nodes), nodes, i)
  BY <1>0, <1>1, LinkedOut
<1>3. \A k \in 1..nodes - 1 : q[k] = IF k < i THEN p[k] ELSE p[k + 1]
  BY <1>0 DEF TakenFrom
<1>4. front' = Nth(q, nodes', 1)
  <2>1. CASE nodes = 1
    BY <1>1, <2>1 DEF Nth
  <2>2. CASE nodes # 1
    <3>1. 1 \in 1..nodes - 1 /\ Nth(q, nodes', 1) = q[1] /\ q[1] = (IF 1 < i THEN p[1] ELSE p[1 + 1])
      BY <1>1, <1>3, <2>2 DEF Nth
    <3> QED BY <1>1, <2>2, <3>1 DEF Nth
  <2> QED BY <2>1, <2>2
<1>5. rear' = Nth(q, nodes', nodes')
  <2>1. CASE nodes = 1
    BY <1>1, <2>1 DEF Nth
  <2>2. CASE nodes # 1
    <3> DEFINE m == nodes - 1
    <3>1. m \in 1..nodes - 1 /\ m \in 1..nodes /\ m + 1 = nodes /\ Nth(q, nodes', nodes') = q[m]
      BY <1>1, <2>2 DEF Nth
    <3>2. q[m] = (IF m < i THEN p[m] ELSE p[m + 1])
      BY <1>3, <3>1
    <3>3. CASE i = nodes
      BY <1>1, <3>1, <3>2, <3>3 DEF Nth
    <3>4. CASE i # nodes
      BY <1>1, <3>1, <3>2, <3>4 DEF Nth
    <3> QED BY <3>3, <3>4
  <2> QED BY <2>1, <2>2
<1>6. ncurrent' \in 0..nodes' /\ current' = Nth(q, nodes', ncurrent')
  BY <1>0
<1>7. Placed(q)'
  BY <1>2, <1>4, <1>5, <1>6 DEF Placed
<1>8. Contents' = TakenFrom(Contents, nodes, i)
  BY <1>2, <1>7, ContentsAfter, ContentsAre
<1> QED BY <1>7, <1>8 DEF ListInv

\* A step that at most moves the cursor.
LEMMA MoveStep ==
  ASSUME NEW p, Placed(p), UNCHANGED <<node, front, rear, nodes>>,
         ncurrent' \in 0..nodes, current' = Nth(p, nodes, ncurrent')
  PROVE  ListInv' /\ Contents' = Contents
<1>1. Placed(p)'
  BY DEF Placed
<1>2. Contents' = Contents
  BY <1>1, ContentsAfter, ContentsAre
<1> QED BY <1>1, <1>2 DEF ListInv

LEMMA StoreStep ==
  ASSUME NEW p, Placed(p), NEW i \in 1..nodes, NEW d \in Data,
         node' = [node EXCEPT ![p[i]].data = d], UNCHANGED <<front, rear, nodes>>,
         ncurrent' \in 0..nodes, current' = Nth(p, nodes, ncurrent')
  PROVE  ListInv' /\ Contents' = [Contents EXCEPT ![i] = d]
<1>1. Chain(p, node, nodes)
  BY DEF Placed
<1>2. Chain(p, node', nodes') /\ Elements(p, node', nodes') = [Elements(p, node, nodes) EXCEPT ![i] = d]
  <2>1. PICK nd2 : nd2 = node'
    OBVIOUS
  <2>2. nd2 = Stored(node, p[i], d)
    BY <2>1 DEF Stored
  <2>3. Chain(p, nd2, nodes) /\ Elements(p, nd2, nodes) = [Elements(p, node, nodes) EXCEPT ![i] = d]
    BY <1>1, <2>2, StoringKeepsChain
  <2> QED BY <2>1, <2>3
<1>3. Placed(p)'
  BY <1>2 DEF Placed
<1>4. Contents' = [Contents EXCEPT ![i] = d]
  BY <1>2, <1>3, ContentsAfter, ContentsAre
<1> QED BY <1>3, <1>4 DEF ListInv

(***************************************************************************)
(* Each operation is one of CursorList's.                                  *)
(***************************************************************************)
\* Those of CursorList, in terms of Contents.
LEMMA ListOperations ==
  /\ \A d : List!Push(d) <=> /\ Contents' = <<d>> \o Contents
                             /\ ncurrent' = (IF ncurrent = 0 THEN 0 ELSE ncurrent + 1) /\ out' = d
  /\ List!Pop <=> /\ Contents' = (IF Contents = << >> THEN Contents ELSE Tail(Contents))
                  /\ ncurrent' = (IF ncurrent = 0 THEN 0 ELSE ncurrent - 1)
                  /\ out' = (IF 1 \in 1..Len(Contents) THEN Contents[1] ELSE NONE)
  /\ \A d : List!Enqueue(d) <=> Contents' = Append(Contents, d) /\ ncurrent' = ncurrent /\ out' = d
  /\ \A d : List!Insert(d) <=>
       /\ Contents' = SubSeq(Contents, 1, ncurrent) \o <<d>> \o SubSeq(Contents, ncurrent + 1, Len(Contents))
       /\ ncurrent' = ncurrent + 1 /\ out' = d
  /\ List!Delete <=> /\ Contents' = (IF ncurrent = 0 THEN Contents ELSE TakenFrom(Contents, Len(Contents), ncurrent))
                     /\ ncurrent' = (IF ncurrent = 0 THEN 0 ELSE ncurrent - 1)
                     /\ out' = (IF ncurrent \in 1..Len(Contents) THEN Contents[ncurrent] ELSE NONE)
  /\ \A i : List!MoveTo(i) <=> /\ ncurrent' = i /\ Contents' = Contents
                               /\ out' = (IF i \in 1..Len(Contents) THEN Contents[i] ELSE NONE)
  /\ \A d : List!Put(d) <=> /\ Contents' = (IF ncurrent = 0 THEN Contents ELSE [Contents EXCEPT ![ncurrent] = d])
                            /\ out' = (IF ncurrent = 0 THEN NONE ELSE d) /\ ncurrent' = ncurrent
  /\ \A d, i : List!Store(d, i) <=>
       /\ ncurrent' = (IF i \in 1..Len(Contents) THEN i ELSE 0)
       /\ Contents' = (IF i \in 1..Len(Contents) THEN [Contents EXCEPT ![i] = d] ELSE Contents)
       /\ out' = (IF i \in 1..Len(Contents) THEN d ELSE NONE)
  /\ List!Clear <=> Contents' = << >> /\ ncurrent' = 0 /\ out' = NONE
  /\ \A i : List!Read(i) <=> /\ out' = (IF i \in 1..Len(Contents) THEN Contents[i] ELSE NONE)
                             /\ Contents' = Contents /\ ncurrent' = ncurrent
  /\ List!Refused <=> out' = NONE /\ Contents' = Contents /\ ncurrent' = ncurrent
  /\ \A i, j : j = (IF i \in 1..Len(Contents) THEN i ELSE 0) /\ List!MoveTo(j) => List!Goto(i)
  /\ \A j : j = (IF ncurrent = Len(Contents) THEN 0 ELSE ncurrent + 1) /\ List!MoveTo(j) => List!Next
  /\ \A j : j = (IF ncurrent = 0 THEN Len(Contents) ELSE ncurrent - 1) /\ List!MoveTo(j) => List!Previous
<1>1. \A d : List!Push(d) <=> /\ Contents' = <<d>> \o Contents
                             /\ ncurrent' = (IF ncurrent = 0 THEN 0 ELSE ncurrent + 1) /\ out' = d
  BY DEF List!Push, Contents
<1>2. List!Pop <=> /\ Contents' = (IF Contents = << >> THEN Contents ELSE Tail(Contents))
                  /\ ncurrent' = (IF ncurrent = 0 THEN 0 ELSE ncurrent - 1)
                  /\ out' = (IF 1 \in 1..Len(Contents) THEN Contents[1] ELSE NONE)
  BY DEF List!Pop, List!At, Contents
<1>3. \A d : List!Enqueue(d) <=> Contents' = Append(Contents, d) /\ ncurrent' = ncurrent /\ out' = d
  BY DEF List!Enqueue, Contents
<1>4. \A d : List!Insert(d) <=>
       /\ Contents' = SubSeq(Contents, 1, ncurrent) \o <<d>> \o SubSeq(Contents, ncurrent + 1, Len(Contents))
       /\ ncurrent' = ncurrent + 1 /\ out' = d
  BY DEF List!Insert, Contents
<1>5. List!Delete <=> /\ Contents' = (IF ncurrent = 0 THEN Contents ELSE TakenFrom(Contents, Len(Contents), ncurrent))
                     /\ ncurrent' = (IF ncurrent = 0 THEN 0 ELSE ncurrent - 1)
                     /\ out' = (IF ncurrent \in 1..Len(Contents) THEN Contents[ncurrent] ELSE NONE)
  BY DEF List!Delete, List!Without, List!At, Contents, TakenFrom
<1>6. \A i : List!MoveTo(i) <=> /\ ncurrent' = i /\ Contents' = Contents
                               /\ out' = (IF i \in 1..Len(Contents) THEN Contents[i] ELSE NONE)
  BY DEF List!MoveTo, List!At, Contents
<1>7. \A d : List!Put(d) <=> /\ Contents' = (IF ncurrent = 0 THEN Contents ELSE [Contents EXCEPT ![ncurrent] = d])
                            /\ out' = (IF ncurrent = 0 THEN NONE ELSE d) /\ ncurrent' = ncurrent
  BY DEF List!Put, Contents
<1>8. \A d, i : List!Store(d, i) <=>
       /\ ncurrent' = (IF i \in 1..Len(Contents) THEN i ELSE 0)
       /\ Contents' = (IF i \in 1..Len(Contents) THEN [Contents EXCEPT ![i] = d] ELSE Contents)
       /\ out' = (IF i \in 1..Len(Contents) THEN d ELSE NONE)
  BY DEF List!Store, Contents
<1>9. List!Clear <=> Contents' = << >> /\ ncurrent' = 0 /\ out' = NONE
  BY DEF List!Clear, Contents
<1>10. \A i : List!Read(i) <=> /\ out' = (IF i \in 1..Len(Contents) THEN Contents[i] ELSE NONE)
                             /\ Contents' = Contents /\ ncurrent' = ncurrent
  BY DEF List!Read, List!At, Contents
<1>11. List!Refused <=> out' = NONE /\ Contents' = Contents /\ ncurrent' = ncurrent
  BY DEF List!Refused, Contents
<1>12. \A i, j : j = (IF i \in 1..Len(Contents) THEN i ELSE 0) /\ List!MoveTo(j) => List!Goto(i)
  BY DEF List!Goto, List!MoveTo, Contents
<1>13. \A j : j = (IF ncurrent = Len(Contents) THEN 0 ELSE ncurrent + 1) /\ List!MoveTo(j) => List!Next
  BY DEF List!Next, List!MoveTo, Contents
<1>14. \A j : j = (IF ncurrent = 0 THEN Len(Contents) ELSE ncurrent - 1) /\ List!MoveTo(j) => List!Previous
  BY DEF List!Previous, List!MoveTo, Contents
<1> QED BY <1>1, <1>2, <1>3, <1>4, <1>5, <1>6, <1>7, <1>8, <1>9, <1>10, <1>11, <1>12, <1>13, <1>14

LEMMA ListInit == Init => ListInv /\ List!Init
<1> SUFFICES ASSUME Init PROVE ListInv /\ List!Init
  OBVIOUS
<1> DEFINE p == << >>
<1>1. Chain(p, node, nodes)
  BY DEF Init, Chain
<1>2. Placed(p)
  BY <1>1 DEF Init, Placed, Nth
<1>3. Contents \in Seq(Data) /\ Len(Contents) = 0
  BY <1>2, ContentsAre DEF Init
<1>4. Contents = << >>
  BY <1>3, EmptySeq
<1>5. List!Init
  BY <1>4 DEF List!Init, Init, Contents
<1> QED BY <1>2, <1>5 DEF ListInv

\* A new node takes an address, so there are never more nodes than addresses.
LEMMA NodesBounded ==
  ASSUME NEW p, Placed(p)
  PROVE  nodes \in 0..Cardinality(Addresses) /\ nodes = Cardinality(Allocated) /\ Cardinality(Addresses) \in Nat
<1>1. /\ nodes \in Nat /\ p \in [1..nodes -> DOMAIN node] /\ Allocated \in SUBSET Addresses
      /\ \A a \in Allocated : \E k \in 1..nodes : a = p[k]
      /\ \A j, k \in 1..nodes : p[j] = p[k] => j = k
  BY DEF Placed, Chain, Allocated
<1>2. p \in Bijection(1..nodes, Allocated)
  <2>1. p \in [1..nodes -> Allocated]
    BY <1>1 DEF Allocated
  <2>2. p \in Injection(1..nodes, Allocated)
    BY <1>1, <2>1 DEF Injection, IsInjective
  <2>3. p \in Surjection(1..nodes, Allocated)
    BY <1>1, <2>1 DEF Surjection
  <2> QED BY <2>2, <2>3 DEF Bijection
<1>3. ExistsBijection(1..nodes, Allocated)
  BY <1>2 DEF ExistsBijection
<1>4. Cardinality(Allocated) = nodes
  BY <1>1, <1>3, FS_CountingElements
<1>5. Cardinality(Allocated) <= Cardinality(Addresses) /\ Cardinality(Addresses) \in Nat
  BY <1>1, AddressesAssumption, FS_Subset, FS_CardinalityType
<1> QED BY <1>1, <1>4, <1>5

LEMMA PushStep ==
  ASSUME NEW p, Placed(p), NEW a \in Addresses \ Allocated, NEW d \in Data, pushdptr(a, d)
  PROVE  ListInv' /\ List!Push(d)
<1>1. /\ nodes \in Nat /\ ncurrent \in Nat /\ ncurrent <= nodes /\ 0 \in 0..nodes
      /\ front = Nth(p, nodes, 0 + 1) /\ NULL = Nth(p, nodes, 0) /\ current = Nth(p, nodes, ncurrent)
      /\ rear = NULL <=> nodes = 0
      /\ front = NULL <=> nodes = 0
  BY PlacedFacts DEF Placed, Nth
<1>2. node' = WithNext(WithPrev(New(a, [next |-> Nth(p, nodes, 0 + 1), prev |-> Nth(p, nodes, 0), data |-> d]),
                                Nth(p, nodes, 0 + 1), a),
                       Nth(p, nodes, 0), a)
  BY <1>1 DEF pushdptr, WithNext
<1>3. front' = IF 0 = 0 THEN a ELSE front
  BY DEF pushdptr
<1>4. rear' = IF 0 = nodes THEN a ELSE rear
  BY <1>1 DEF pushdptr
<1>5. nodes' = nodes + 1 /\ ncurrent' = (IF ncurrent = 0 THEN 0 ELSE ncurrent + 1) /\ out' = d /\ current' = current
  BY DEF pushdptr
<1>6. ncurrent' \in 0..nodes + 1
  BY <1>1, <1>5
<1>7. current' = Nth(InsertedIn(p, nodes, 0, a), nodes + 1, ncurrent')
  <2>1. CASE ncurrent = 0
    BY <1>1, <1>5, <2>1 DEF Nth
  <2>2. CASE ncurrent # 0
    <3>1. ncurrent \in 1..nodes /\ ncurrent + 1 \in 1..nodes + 1
      BY <1>1, <2>2
    <3>2. InsertedIn(p, nodes, 0, a)[ncurrent + 1] = p[ncurrent]
      BY <1>1, <3>1 DEF InsertedIn
    <3> QED BY <1>1, <1>5, <2>2, <3>1, <3>2 DEF Nth
  <2> QED BY <2>1, <2>2
<1>8. ListInv' /\ Contents' = InsertedIn(Contents, nodes, 0, d)
  BY <1>1, <1>2, <1>3, <1>4, <1>5, <1>6, <1>7, InsertStep
<1>9. Contents' = <<d>> \o Contents
  <2>1. Contents \in Seq(Data) /\ Len(Contents) = nodes
    BY ContentsAre
  <2> QED BY <1>1, <1>8, <2>1, InsertionIs
<1> QED BY <1>5, <1>8, <1>9, ListOperations

LEMMA EnqueueStep ==
  ASSUME NEW p, Placed(p), NEW a \in Addresses \ Allocated, NEW d \in Data, iquedptr(a, d)
  PROVE  ListInv' /\ List!Enqueue(d)
<1>1. /\ nodes \in Nat /\ ncurrent \in Nat /\ ncurrent <= nodes /\ nodes \in 0..nodes
      /\ rear = Nth(p, nodes, nodes) /\ NULL = Nth(p, nodes, nodes + 1) /\ current = Nth(p, nodes, ncurrent)
      /\ rear = NULL <=> nodes = 0
  BY PlacedFacts DEF Placed, Nth
<1>2. node' = WithNext(WithPrev(New(a, [next |-> Nth(p, nodes, nodes + 1), prev |-> Nth(p, nodes, nodes), data |-> d]),
                                Nth(p, nodes, nodes + 1), a),
                       Nth(p, nodes, nodes), a)
  BY <1>1 DEF iquedptr, WithPrev
<1>3. front' = IF nodes = 0 THEN a ELSE front
  BY <1>1 DEF iquedptr
<1>4. rear' = IF nodes = nodes THEN a ELSE rear
  BY DEF iquedptr
<1>5. nodes' = nodes + 1 /\ ncurrent' = ncurrent /\ out' = d /\ current' = current
  BY DEF iquedptr
<1>6. ncurrent' \in 0..nodes + 1
  BY <1>1, <1>5
<1>7. current' = Nth(InsertedIn(p, nodes, nodes, a), nodes + 1, ncurrent')
  <2>1. CASE ncurrent = 0
    BY <1>1, <1>5, <2>1 DEF Nth
  <2>2. CASE ncurrent # 0
    <3>1. ncurrent \in 1..nodes /\ ncurrent \in 1..nodes + 1
      BY <1>1, <2>2
    <3>2. InsertedIn(p, nodes, nodes, a)[ncurrent] = p[ncurrent]
      BY <1>1, <3>1 DEF InsertedIn
    <3> QED BY <1>1, <1>5, <2>2, <3>1, <3>2 DEF Nth
  <2> QED BY <2>1, <2>2
<1>8. ListInv' /\ Contents' = InsertedIn(Contents, nodes, nodes, d)
  BY <1>1, <1>2, <1>3, <1>4, <1>5, <1>6, <1>7, InsertStep
<1>9. Contents' = Append(Contents, d)
  <2>1. Contents \in Seq(Data) /\ Len(Contents) = nodes
    BY ContentsAre
  <2> QED BY <1>1, <1>8, <2>1, InsertionIs
<1> QED BY <1>5, <1>8, <1>9, ListOperations

LEMMA InsertionStep ==
  ASSUME NEW p, Placed(p), NEW a \in Addresses \ Allocated, NEW d \in Data, insdptr(a, d)
  PROVE  ListInv' /\ List!Insert(d)
<1> DEFINE i == ncurrent
<1>1. /\ nodes \in Nat /\ ncurrent \in Nat /\ ncurrent <= nodes /\ ncurrent \in 0..nodes
      /\ current = Nth(p, nodes, ncurrent)
      /\ current = NULL <=> ncurrent = 0
  BY PlacedFacts DEF Placed
<1> DEFINE nx == Nth(p, nodes, ncurrent + 1)
<1>2. (IF current = NULL THEN front ELSE node[current].next) = nx
  BY NextAndPrevious
<1>3. /\ node' = WithNext(WithPrev(New(a, [next |-> nx, prev |-> current, data |-> d]), nx, a), current, a)
      /\ rear' = IF nx = NULL THEN a ELSE rear
      /\ front' = IF current = NULL THEN a ELSE front
      /\ current' = a
      /\ ncurrent' = ncurrent + 1
      /\ nodes' = nodes + 1
      /\ out' = d
  BY <1>2 DEF insdptr
<1>4. node' = WithNext(WithPrev(New(a, [next |-> Nth(p, nodes, ncurrent + 1), prev |-> Nth(p, nodes, ncurrent),
                                        data |-> d]),
                                Nth(p, nodes, ncurrent + 1), a),
                       Nth(p, nodes, ncurrent), a)
  BY <1>1, <1>3
<1>5. nx = NULL <=> ncurrent = nodes
  <2>1. \A k \in 1..nodes : p[k] # NULL
    BY PlacedFacts
  <2> QED BY <1>1, <2>1 DEF Nth
<1>6. /\ front' = IF ncurrent = 0 THEN a ELSE front
      /\ rear' = IF ncurrent = nodes THEN a ELSE rear
  BY <1>1, <1>3, <1>5
<1>7. ncurrent' \in 0..nodes + 1
  BY <1>1, <1>3
<1>8. current' = Nth(InsertedIn(p, nodes, ncurrent, a), nodes + 1, ncurrent')
  <2>1. ncurrent + 1 \in 1..nodes + 1 /\ ~(ncurrent + 1 <= ncurrent)
    BY <1>1
  <2>2. InsertedIn(p, nodes, ncurrent, a)[ncurrent + 1] = a
    BY <2>1 DEF InsertedIn
  <2> QED BY <1>3, <2>1, <2>2 DEF Nth
<1>9. ListInv' /\ Contents' = InsertedIn(Contents, nodes, ncurrent, d)
  BY <1>1, <1>3, <1>4, <1>6, <1>7, <1>8, InsertStep
<1>10. Contents' = SubSeq(Contents, 1, ncurrent) \o <<d>> \o SubSeq(Contents, ncurrent + 1, Len(Contents))
  <2>1. Contents \in Seq(Data) /\ Len(Contents) = nodes
    BY ContentsAre
  <2> QED BY <1>1, <1>9, <2>1, InsertionIs, ZenonT(30)
<1> QED BY <1>3, <1>9, <1>10, ListOperations

LEMMA NothingStep ==
  ASSUME NEW p, Placed(p), Nothing
  PROVE  ListInv' /\ List!Refused
<1>1. /\ UNCHANGED <<node, front, rear, nodes>> /\ out' = NONE
      /\ ncurrent' = ncurrent /\ current' = current
  BY DEF Nothing
<1>2. ncurrent' \in 0..nodes /\ current' = Nth(p, nodes, ncurrent')
  BY <1>1 DEF Placed
<1>3. ListInv' /\ Contents' = Contents
  BY <1>1, <1>2, MoveStep
<1> QED BY <1>1, <1>3, ListOperations

LEMMA PopStep ==
  ASSUME NEW p, Placed(p), popd
  PROVE  ListInv' /\ (List!Pop \/ List!Refused)
<1>1. /\ nodes \in Nat /\ ncurrent \in Nat /\ ncurrent <= nodes
      /\ front = Nth(p, nodes, 1) /\ rear = Nth(p, nodes, nodes) /\ current = Nth(p, nodes, ncurrent)
      /\ front = NULL <=> nodes = 0
      /\ front = rear <=> nodes <= 1
  BY PlacedFacts DEF Placed
<1>2. CASE front = NULL /\ Nothing
  BY <1>2, NothingStep
<1>3. CASE front # NULL
  <2>1. 1 \in 1..nodes /\ front = p[1] /\ nodes >= 1
    BY <1>1, <1>3 DEF Nth
  <2>2. node[front].next = Nth(p, nodes, 2) /\ Nth(p, nodes, 0) = NULL
    BY <2>1, PlacedFacts DEF Nth
  <2> DEFINE nx == Nth(p, nodes, 2)
  <2>3. /\ node' = Free(IF front = rear THEN node ELSE WithPrev(node, nx, NULL), front)
        /\ rear' = IF front = rear THEN NULL ELSE rear
        /\ front' = nx
        /\ nodes' = nodes - 1
        /\ ncurrent' = IF ncurrent = 0 THEN 0 ELSE ncurrent - 1
        /\ current' = IF ncurrent = 1 THEN NULL ELSE current
        /\ out' = node[front].data
    BY <1>3, <2>2 DEF popd, CursorAfterPop
  <2>4. front = rear => nx = NULL
    BY <1>1 DEF Nth
  <2>5. node' = Free(WithNext(WithPrev(node, nx, NULL), NULL, nx), p[1])
    BY <2>1, <2>3, <2>4 DEF WithNext, WithPrev
  <2>6. node' = Free(WithNext(WithPrev(node, Nth(p, nodes, 1 + 1), Nth(p, nodes, 1 - 1)),
                              Nth(p, nodes, 1 - 1), Nth(p, nodes, 1 + 1)),
                     p[1])
    <3>1. 1 + 1 = 2 /\ 1 - 1 = 0
      OBVIOUS
    <3> QED BY <2>2, <2>5, <3>1
  <2>7. /\ front' = IF 1 = 1 THEN Nth(p, nodes, 2) ELSE front
        /\ rear' = IF 1 = nodes THEN Nth(p, nodes, nodes - 1) ELSE rear
    <3>1. 1 = nodes => Nth(p, nodes, nodes - 1) = NULL
      BY DEF Nth
    <3>2. front = rear <=> 1 = nodes
      BY <1>1, <2>1
    <3> QED BY <2>3, <3>1, <3>2
  <2>8. ncurrent' \in 0..nodes - 1
    BY <1>1, <2>1, <2>3
  <2>9. current' = Nth(TakenFrom(p, nodes, 1), nodes - 1, ncurrent')
    <3>1. CASE ncurrent \in {0, 1}
      BY <1>1, <2>3, <3>1 DEF Nth
    <3>2. CASE ncurrent \notin {0, 1}
      <4>1. ncurrent - 1 \in 1..nodes - 1 /\ ncurrent \in 1..nodes /\ (ncurrent - 1) + 1 = ncurrent
        BY <1>1, <3>2
      <4>2. TakenFrom(p, nodes, 1)[ncurrent - 1] = p[ncurrent]
        BY <4>1 DEF TakenFrom
      <4> QED BY <1>1, <2>3, <3>2, <4>1, <4>2 DEF Nth
    <3> QED BY <3>1, <3>2
  <2>10. ListInv' /\ Contents' = TakenFrom(Contents, nodes, 1)
    BY <2>1, <2>3, <2>6, <2>7, <2>8, <2>9, RemoveStep
  <2>11. Contents \in Seq(Data) /\ Len(Contents) = nodes /\ Contents[1] = node[front].data
    BY <2>1, ContentsAre
  <2>12. Contents # << >>
    BY <2>1, <2>11
  <2>13. Contents' = Tail(Contents)
    BY <2>10, <2>11, <2>12, RemovalIs
  <2>14. out' = IF 1 \in 1..Len(Contents) THEN Contents[1] ELSE NONE
    BY <2>1, <2>3, <2>11
  <2> QED BY <2>3, <2>10, <2>12, <2>13, <2>14, ListOperations
<1> QED BY <1>2, <1>3 DEF popd

LEMMA DeletionStep ==
  ASSUME NEW p, Placed(p), deld
  PROVE  ListInv' /\ (List!Delete \/ List!Refused)
<1>1. /\ nodes \in Nat /\ ncurrent \in Nat /\ ncurrent <= nodes
      /\ front = Nth(p, nodes, 1) /\ rear = Nth(p, nodes, nodes)
      /\ current = NULL <=> ncurrent = 0
      /\ ncurrent # 0 => ncurrent \in 1..nodes /\ current = p[ncurrent]
      /\ \A k \in 1..nodes : p[k] # NULL
  BY PlacedFacts DEF Placed
<1>2. CASE current = NULL /\ Nothing
  BY <1>2, NothingStep
<1>3. CASE current # NULL
  <2>1. ncurrent \in 1..nodes /\ ncurrent # 0 /\ current = p[ncurrent]
    BY <1>1, <1>3
  <2> DEFINE nx == Nth(p, nodes, ncurrent + 1)
             pv == Nth(p, nodes, ncurrent - 1)
  <2>2. node[current].next = nx /\ node[current].prev = pv
    BY <2>1, PlacedFacts
  <2>3. /\ node' = Free(WithNext(WithPrev(node, nx, pv), pv, nx), p[ncurrent])
        /\ rear' = IF nx = NULL THEN pv ELSE rear
        /\ front' = IF pv = NULL THEN nx ELSE front
        /\ current' = pv
        /\ ncurrent' = ncurrent - 1
        /\ nodes' = nodes - 1
        /\ out' = node[current].data
    BY <1>3, <2>1, <2>2 DEF deld, LinkedRound
  <2>4. nx = NULL <=> ncurrent = nodes
    BY <1>1, <2>1 DEF Nth
  <2>5. pv = NULL <=> ncurrent = 1
    BY <1>1, <2>1 DEF Nth
  <2>6. front' = IF ncurrent = 1 THEN Nth(p, nodes, 2) ELSE front
    BY <2>3, <2>5
  <2>7. rear' = IF ncurrent = nodes THEN Nth(p, nodes, nodes - 1) ELSE rear
    BY <2>3, <2>4
  <2>8. ncurrent' \in 0..nodes - 1
    BY <1>1, <2>1, <2>3
  <2>9. current' = Nth(TakenFrom(p, nodes, ncurrent), nodes - 1, ncurrent')
    <3>1. CASE ncurrent = 1
      BY <1>1, <2>3, <2>5, <3>1 DEF Nth
    <3>2. CASE ncurrent # 1
      <4>1. ncurrent - 1 \in 1..nodes - 1 /\ ncurrent - 1 \in 1..nodes /\ ncurrent - 1 < ncurrent
        BY <1>1, <2>1, <3>2
      <4>2. TakenFrom(p, nodes, ncurrent)[ncurrent - 1] = p[ncurrent - 1]
        BY <4>1 DEF TakenFrom
      <4> QED BY <2>3, <4>1, <4>2 DEF Nth
    <3> QED BY <3>1, <3>2
  <2>10. ListInv' /\ Contents' = TakenFrom(Contents, nodes, ncurrent)
    BY <2>1, <2>3, <2>6, <2>7, <2>8, <2>9, RemoveStep
  <2>11. Len(Contents) = nodes /\ Contents[ncurrent] = node[current].data
    BY <2>1, ContentsAre
  <2> QED BY <2>1, <2>3, <2>10, <2>11, ListOperations
<1> QED BY <1>2, <1>3 DEF deld

\* The cursor moves to the place i, 0 being none, and hands back what is there.
LEMMA CursorStep ==
  ASSUME NEW p, Placed(p), NEW i \in 0..nodes, UNCHANGED <<node, front, rear, nodes>>,
         ncurrent' = i, current' = Nth(p, nodes, i), out' = DataOf(Nth(p, nodes, i))
  PROVE  ListInv' /\ List!MoveTo(i)
<1>1. ListInv' /\ Contents' = Contents
  BY MoveStep
<1>2. i \in Int /\ nodes \in Nat
  BY PlacedFacts
<1>3. out' = IF i \in 1..nodes THEN node[p[i]].data ELSE NONE
  BY <1>2, DataOfNth
<1>4. Len(Contents) = nodes /\ \A k \in 1..nodes : Contents[k] = node[p[k]].data
  BY ContentsAre
<1> QED BY <1>1, <1>3, <1>4, ListOperations

LEMMA SeekStep ==
  ASSUME NEW p, Placed(p), NEW loc \in 0..nodes + 1, mkcdptr(loc)
  PROVE  ListInv' /\ List!Goto(loc)
<1>1. nodes \in Nat /\ loc \in Int
  BY PlacedFacts
<1>2. UNCHANGED <<node, front, rear, nodes>>
  BY DEF mkcdptr, ends
<1>3. Len(Contents) = nodes
  BY ContentsAre
<1>4. CASE loc \in 1..nodes
  <2>1. Located(loc) = p[loc] /\ Nth(p, nodes, loc) = p[loc]
    BY <1>4, LocatedIs DEF Nth
  <2>2. ncurrent' = loc /\ current' = Nth(p, nodes, loc) /\ out' = DataOf(Nth(p, nodes, loc))
    BY <1>4, <2>1 DEF mkcdptr, MakeCurrent, Within
  <2>3. ListInv' /\ List!MoveTo(loc)
    BY <1>1, <1>2, <1>4, <2>2, CursorStep
  <2> QED BY <1>3, <1>4, <2>3, ListOperations
<1>5. CASE loc \notin 1..nodes
  <2>1. Nth(p, nodes, 0) = NULL /\ 0 \in 0..nodes
    BY <1>1 DEF Nth
  <2>2. ncurrent' = 0 /\ current' = Nth(p, nodes, 0) /\ out' = DataOf(Nth(p, nodes, 0))
    BY <1>5, <2>1 DEF mkcdptr, MakeCurrent, Within, DataOf
  <2>3. ListInv' /\ List!MoveTo(0)
    BY <1>1, <1>2, <2>1, <2>2, CursorStep
  <2> QED BY <1>3, <1>5, <2>3, ListOperations
<1> QED BY <1>4, <1>5

LEMMA NextStep ==
  ASSUME NEW p, Placed(p), nextdptr
  PROVE  ListInv' /\ List!Next
<1>1. nodes \in Nat /\ ncurrent \in Nat /\ ncurrent <= nodes /\ \A k \in 1..nodes : p[k] # NULL
  BY PlacedFacts
<1>2. PICK i : i = IF ncurrent = nodes THEN 0 ELSE ncurrent + 1
  OBVIOUS
<1>3. /\ current' = Nth(p, nodes, ncurrent + 1) /\ out' = DataOf(Nth(p, nodes, ncurrent + 1))
      /\ ncurrent' = NextNumber(Nth(p, nodes, ncurrent + 1))
      /\ UNCHANGED <<node, front, rear, nodes>>
  BY NextAndPrevious DEF nextdptr, ends
<1>4. Nth(p, nodes, ncurrent + 1) = Nth(p, nodes, i) /\ ncurrent' = i /\ i \in 0..nodes
  BY <1>1, <1>2, <1>3 DEF Nth, NextNumber
<1>5. ListInv' /\ List!MoveTo(i)
  BY <1>3, <1>4, CursorStep
<1>6. Len(Contents) = nodes
  BY ContentsAre
<1> QED BY <1>2, <1>5, <1>6, ListOperations

LEMMA PreviousStep ==
  ASSUME NEW p, Placed(p), prevdptr
  PROVE  ListInv' /\ List!Previous
<1>1. /\ nodes \in Nat /\ ncurrent \in Nat /\ ncurrent <= nodes
      /\ current = NULL <=> ncurrent = 0
  BY PlacedFacts
<1>2. PICK i : i = IF ncurrent = 0 THEN nodes ELSE ncurrent - 1
  OBVIOUS
<1>3. /\ current' = Nth(p, nodes, i) /\ out' = DataOf(Nth(p, nodes, i))
      /\ UNCHANGED <<node, front, rear, nodes>>
      /\ ncurrent' = IF current = NULL THEN nodes ELSE ncurrent - 1
  BY <1>2, NextAndPrevious DEF prevdptr, ends
<1>4. ncurrent' = i /\ i \in 0..nodes
  BY <1>1, <1>2, <1>3
<1>5. ListInv' /\ List!MoveTo(i)
  BY <1>3, <1>4, CursorStep
<1>6. Len(Contents) = nodes
  BY ContentsAre
<1> QED BY <1>2, <1>5, <1>6, ListOperations

LEMMA PutStep ==
  ASSUME NEW p, Placed(p), NEW d \in Data, putd(d)
  PROVE  ListInv' /\ List!Put(d)
<1>1. /\ nodes \in Nat /\ ncurrent \in 0..nodes /\ current = Nth(p, nodes, ncurrent)
      /\ current = NULL <=> ncurrent = 0
      /\ ncurrent # 0 => ncurrent \in 1..nodes /\ current = p[ncurrent]
  BY PlacedFacts DEF Placed
<1>2. UNCHANGED <<front, rear, nodes>> /\ ncurrent' = ncurrent /\ current' = current
  BY DEF putd, ends
<1>3. CASE ncurrent = 0
  <2>1. node' = node /\ out' = NONE
    BY <1>1, <1>3 DEF putd
  <2>2. ListInv' /\ Contents' = Contents
    BY <1>1, <1>2, <2>1, MoveStep
  <2> QED BY <1>2, <1>3, <2>1, <2>2, ListOperations
<1>4. CASE ncurrent # 0
  <2>1. node' = [node EXCEPT ![p[ncurrent]].data = d] /\ out' = d
    BY <1>1, <1>4 DEF putd
  <2>2. ListInv' /\ Contents' = [Contents EXCEPT ![ncurrent] = d]
    BY <1>1, <1>2, <1>4, <2>1, StoreStep
  <2> QED BY <1>2, <1>4, <2>1, <2>2, ListOperations
<1> QED BY <1>3, <1>4

LEMMA StodStep ==
  ASSUME NEW p, Placed(p), NEW d \in Data, NEW loc \in 0..nodes + 1, stod(d, loc)
  PROVE  ListInv' /\ List!Store(d, loc)
<1>1. nodes \in Nat /\ loc \in Int
  BY PlacedFacts
<1>2. UNCHANGED <<front, rear, nodes>>
  BY DEF stod, ends
<1>3. Len(Contents) = nodes
  BY ContentsAre
<1>4. CASE loc \in 1..nodes
  <2>1. Located(loc) = p[loc] /\ Nth(p, nodes, loc) = p[loc]
    BY <1>4, LocatedIs DEF Nth
  <2>2. ncurrent' = loc /\ current' = Nth(p, nodes, ncurrent') /\ out' = d /\ ncurrent' \in 0..nodes
    BY <1>1, <1>4, <2>1 DEF stod, MakeCurrent, Within
  <2>3. node' = [node EXCEPT ![p[loc]].data = d]
    BY <1>4, <2>1 DEF stod, Within
  <2>4. ListInv' /\ Contents' = [Contents EXCEPT ![loc] = d]
    BY <1>2, <1>4, <2>2, <2>3, StoreStep
  <2> QED BY <1>3, <1>4, <2>2, <2>4, ListOperations
<1>5. CASE loc \notin 1..nodes
  <2>1. node' = node /\ out' = NONE /\ ncurrent' = 0 /\ current' = NULL
    BY <1>5 DEF stod, MakeCurrent, Within
  <2>2. ncurrent' \in 0..nodes /\ current' = Nth(p, nodes, ncurrent')
    BY <1>1, <2>1 DEF Nth
  <2>3. ListInv' /\ Contents' = Contents
    BY <1>2, <2>1, <2>2, MoveStep
  <2> QED BY <1>3, <1>5, <2>1, <2>3, ListOperations
<1> QED BY <1>4, <1>5

LEMMA ReadStep ==
  ASSUME NEW p, Placed(p), topdptr \/ getd
  PROVE  ListInv' /\ (List!Read(1) \/ List!Read(ncurrent))
<1>1. /\ UNCHANGED <<node, front, rear, nodes>>
      /\ ncurrent' = ncurrent /\ current' = current
  BY DEF topdptr, getd, ends
<1>2. ncurrent \in 0..nodes /\ current = Nth(p, nodes, ncurrent) /\ front = Nth(p, nodes, 1) /\ nodes \in Nat
  BY PlacedFacts DEF Placed
<1>3. ListInv' /\ Contents' = Contents
  BY <1>1, <1>2, MoveStep
<1>4. Len(Contents) = nodes /\ \A k \in 1..nodes : Contents[k] = node[p[k]].data
  BY ContentsAre
<1>5. CASE topdptr
  <2>1. out' = IF 1 \in 1..nodes THEN node[p[1]].data ELSE NONE
    BY <1>2, <1>5, DataOfNth DEF topdptr
  <2> QED BY <1>1, <1>3, <1>4, <2>1, ListOperations
<1>6. CASE getd
  <2>1. out' = IF ncurrent \in 1..nodes THEN node[p[ncurrent]].data ELSE NONE
    BY <1>2, <1>6, DataOfNth DEF getd
  <2> QED BY <1>1, <1>3, <1>4, <2>1, ListOperations
<1> QED BY <1>5, <1>6

LEMMA ClearStep ==
  ASSUME clrFlist
  PROVE  ListInv' /\ List!Clear
<1> DEFINE p == << >>
<1>1. Chain(p, node', nodes')
  BY DEF clrFlist, Chain
<1>2. Placed(p)'
  BY <1>1 DEF clrFlist, Placed, Nth
<1>3. Contents' = Elements(p, node', nodes') /\ nodes' = 0
  BY <1>2, ContentsAfter DEF clrFlist
<1>4. Contents' = << >>
  BY <1>3 DEF Elements
<1> QED BY <1>2, <1>4, ListOperations DEF ListInv, clrFlist

LEMMA NextIsAnOperation ==
  ASSUME NEW p, Placed(p), Next
  PROVE  ListInv' /\ List!Operation
<1> DEFINE Numbers == 0..Cardinality(Addresses) + 1
<1>1. nodes \in 0..Cardinality(Addresses) /\ Cardinality(Addresses) \in Nat
  BY NodesBounded
<1>2. \A loc \in 0..nodes + 1 : loc \in Numbers
  BY <1>1
<1>3. /\ \A d \in Data : List!Push(d) \/ List!Enqueue(d) \/ List!Insert(d) \/ List!Put(d) => List!Operation
      /\ \A d \in Data, i \in Numbers : List!Store(d, i) => List!Operation
      /\ \A i \in Numbers : List!Goto(i) => List!Operation
      /\ List!Pop \/ List!Delete \/ List!Next \/ List!Previous \/ List!Clear => List!Operation
      /\ List!Read(1) \/ List!Read(ncurrent) \/ List!Refused => List!Operation
  BY DEF List!Operation
<1> HIDE DEF Numbers
<1>4. ASSUME NEW a \in Addresses \ Allocated, NEW d \in Data, pushdptr(a, d) \/ iquedptr(a, d) \/ insdptr(a, d)
      PROVE  ListInv' /\ List!Operation
  BY <1>3, <1>4, PushStep, EnqueueStep, InsertionStep
<1>5. ASSUME NEW d \in Data, putd(d) PROVE ListInv' /\ List!Operation
  BY <1>3, <1>5, PutStep
<1>6. ASSUME NEW loc \in 0..nodes + 1, mkcdptr(loc) \/ rcld(loc) PROVE ListInv' /\ List!Operation
  <2>1. mkcdptr(loc)
    BY <1>6 DEF rcld
  <2> QED BY <1>2, <1>3, <2>1, SeekStep
<1>7. ASSUME NEW loc \in 0..nodes + 1, NEW d \in Data, stod(d, loc) PROVE ListInv' /\ List!Operation
  BY <1>2, <1>3, <1>7, StodStep
<1>8. CASE popd \/ deld
  BY <1>3, <1>8, PopStep, DeletionStep
<1>9. CASE nextdptr \/ prevdptr
  BY <1>3, <1>9, NextStep, PreviousStep
<1>10. CASE topdptr \/ getd
  BY <1>3, <1>10, ReadStep
<1>11. CASE clrFlist \/ Nothing
  BY <1>3, <1>11, ClearStep, NothingStep
<1> QED BY <1>4, <1>5, <1>6, <1>7, <1>8, <1>9, <1>10, <1>11 DEF Next

LEMMA StutterKeepsList ==
  ASSUME ListInv, UNCHANGED vars
  PROVE  ListInv' /\ UNCHANGED List!listVars
<1>1. PICK p : Placed(p)
  BY DEF ListInv
<1>2. UNCHANGED <<node, front, rear, nodes>> /\ UNCHANGED <<current, ncurrent, out>>
  BY DEF vars
<1>3. ncurrent' \in 0..nodes /\ current' = Nth(p, nodes, ncurrent')
  BY <1>1, <1>2 DEF Placed
<1>4. ListInv' /\ Contents' = Contents
  BY <1>1, <1>2, <1>3, MoveStep
<1> QED BY <1>2, <1>4 DEF List!listVars, Contents

LEMMA ListInvLinks == ListInv => WellLinked
<1> SUFFICES ASSUME NEW p, Placed(p) PROVE WellLinked
  BY DEF ListInv
<1>1. /\ nodes \in Nat /\ ncurrent \in 0..nodes
      /\ front = Nth(p, nodes, 1) /\ rear = Nth(p, nodes, nodes) /\ current = Nth(p, nodes, ncurrent)
  BY PlacedFacts DEF Placed
<1>2. Path = p
  BY ContentsAre
<1>3. nodes \in 0..Cardinality(Addresses) /\ nodes = Cardinality(Allocated)
  BY NodesBounded
<1>4. /\ Allocated \subseteq Addresses
      /\ \A a \in Allocated : node[a] \in Node
      /\ p \in [1..nodes -> Allocated]
      /\ \A a \in Allocated : \E k \in 1..nodes : a = p[k]
  BY DEF Placed, Chain, Allocated
<1>5. FlexTypeOK
  <2>1. \A k \in Int : Nth(p, nodes, k) \in Addresses \cup {NULL}
    BY <1>4 DEF Nth
  <2>2. {front, rear, current} \subseteq Addresses \cup {NULL}
    BY <1>1, <2>1
  <2> QED BY <1>1, <1>3, <1>4, <2>2 DEF FlexTypeOK
<1>6. {Path[k] : k \in 1..nodes} = Allocated
  BY <1>2, <1>4
<1>7. ASSUME NEW k \in 1..nodes
      PROVE  /\ node[Path[k]].prev = IF k = 1 THEN NULL ELSE Path[k - 1]
             /\ node[Path[k]].next = IF k = nodes THEN NULL ELSE Path[k + 1]
  <2>1. node[p[k]].next = Nth(p, nodes, k + 1) /\ node[p[k]].prev = Nth(p, nodes, k - 1)
    BY PlacedFacts
  <2> QED BY <1>1, <1>2, <2>1 DEF Nth
<1>8. /\ front = (IF nodes = 0 THEN NULL ELSE Path[1]) /\ rear = (IF nodes = 0 THEN NULL ELSE Path[nodes])
      /\ current = IF ncurrent = 0 THEN NULL ELSE Path[ncurrent]
  BY <1>1, <1>2 DEF Nth
<1> QED BY <1>1, <1>3, <1>5, <1>6, <1>7, <1>8 DEF WellLinked

(***************************************************************************)
(* The theorems.                                                           *)
(***************************************************************************)

\* The links forward and backward agree, no node is lost and no address is used twice, and
\* the pointer to the current node and its number say the same, after any operations.
THEOREM AlwaysWellLinked == Spec => []WellLinked
<1>1. Init => ListInv
  BY ListInit
<1>2. ListInv /\ [Next]_vars => ListInv'
  BY NextIsAnOperation, StutterKeepsList DEF ListInv
<1>3. ListInv => WellLinked
  BY ListInvLinks
<1> QED BY <1>1, <1>2, <1>3, PTL DEF Spec

\* Whatever is pushed, queued, inserted, deleted and sought, the linked list holds and hands
\* back what a sequence with a cursor would: CursorList is implemented, for any number of
\* nodes and wherever the walk of mkcdptr begins.
THEOREM ListIsASequence == Spec => ImplementsCursorList
<1>1. Init => ListInv /\ List!Init
  BY ListInit
<1>2. ListInv /\ [Next]_vars => ListInv' /\ [List!Operation]_List!listVars
  BY NextIsAnOperation, StutterKeepsList DEF ListInv
<1> QED BY <1>1, <1>2, PTL DEF Spec, ImplementsCursorList, List!ListSpec
=============================================================================
