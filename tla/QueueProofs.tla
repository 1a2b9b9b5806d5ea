---------------------------- MODULE QueueProofs ----------------------------
(***************************************************************************)
(* Proofs about Queue for any memory and any elements: the linked list has *)
(* no leak and no dangling pointer, and implements the queue of Fifo.      *)
(***************************************************************************)
EXTENDS Queue, FiniteSetTheorems, SequenceTheorems, WellFoundedInduction,
        TLAPS

USE BlocksAssumption

(* s lists the nodes from the front: all different, each with a data block *)
(* of its own that is no node, and nothing else is in use.                 *)
Links(s) == /\ front = IF size = 0 THEN NULL ELSE s[1]
            /\ rear  = IF size = 0 THEN NULL ELSE s[size]
            /\ \A i \in 1 .. size :
                 heap[s[i]].next = IF i = size THEN NULL ELSE s[i + 1]

Distinct(s) ==
  \A i, j \in 1 .. size :
    /\ s[i] = s[j] => i = j
    /\ heap[s[i]].data = heap[s[j]].data => i = j
    /\ heap[s[i]].data # s[j]

Filled(s) == \A i \in 1 .. size : /\ heap[s[i]].data \in Blocks
                                  /\ heap[heap[s[i]].data].elem \in Elems

InUse(s) == live = {s[i] : i \in 1 .. size} \cup
                   {heap[s[i]].data : i \in 1 .. size}

IsList(s) == /\ s \in [1 .. size -> Blocks]
             /\ Links(s) /\ Distinct(s) /\ Filled(s) /\ InUse(s)

TwoEach == Cardinality(live) = 2 * size

IInv == TypeOK /\ TwoEach /\ \E s : IsList(s)
-----------------------------------------------------------------------------
(* Facts about numbers and sequences.                                      *)

(* A set of naturals that is not empty has a least element. *)
LEMMA LeastNatural ==
  ASSUME NEW T \in SUBSET Nat, T # {}
  PROVE  \E x \in T : \A y \in T : ~ (y < x)
  <1> DEFINE R == OpToRel(<, Nat)
  <1>1. IsWellFoundedOn(R, Nat)
    BY NatLessThanWellFounded
  <1>2. \A x, y \in Nat : y < x => <<y, x>> \in R
    BY DEF OpToRel
  <1> HIDE DEF R
  <1>3. PICK x \in T : \A y \in T : ~ (<<y, x>> \in R)
    BY <1>1, WFMin
  <1>4. ASSUME NEW y \in T PROVE ~ (y < x)
    BY <1>2, <1>3
  <1> QED
    BY <1>4

LEMMA SequenceIs ==
  ASSUME NEW S, NEW n \in Nat, NEW q \in [1 .. n -> S]
  PROVE  q \in Seq(S) /\ Len(q) = n
  OBVIOUS

LEMMA AppendIs ==
  ASSUME NEW S, NEW n \in Nat, NEW q \in [1 .. n -> S], NEW e \in S
  PROVE  Append(q, e) = [i \in 1 .. n + 1 |-> IF i = n + 1 THEN e ELSE q[i]]
  <1> DEFINE a == Append(q, e)
  <1>1. q \in Seq(S) /\ Len(q) = n
    BY SequenceIs
  <1>2. /\ a \in Seq(S) /\ Len(a) = n + 1
        /\ \A i \in 1 .. n : a[i] = q[i]
        /\ a[n + 1] = e
    BY <1>1, AppendProperties
  <1> HIDE DEF a
  <1>3. a \in [1 .. n + 1 -> S]
    BY <1>2, LenProperties
  <1>4. a = [i \in 1 .. n + 1 |-> IF i = n + 1 THEN e ELSE q[i]]
    BY <1>2, <1>3
  <1> QED
    BY <1>4 DEF a

LEMMA TailIs ==
  ASSUME NEW S, NEW n \in Nat \ {0}, NEW q \in [1 .. n -> S]
  PROVE  /\ q # << >> /\ Head(q) = q[1]
         /\ Tail(q) = [i \in 1 .. n - 1 |-> q[i + 1]]
  <1>1. q \in Seq(S) /\ Len(q) = n
    BY SequenceIs
  <1>2. q # << >> /\ Head(q) = q[1]
    BY <1>1
  <1> DEFINE a == Tail(q)
  <1>3. /\ a \in Seq(S) /\ Len(a) = n - 1
        /\ \A i \in 1 .. n - 1 : a[i] = q[i + 1]
    BY <1>1, <1>2, HeadTailProperties
  <1> HIDE DEF a
  <1>4. a \in [1 .. n - 1 -> S]
    BY <1>3, LenProperties
  <1>5. a = [i \in 1 .. n - 1 |-> q[i + 1]]
    BY <1>3, <1>4
  <1> QED
    BY <1>2, <1>5 DEF a

LEMMA EmptyIs ==
  ASSUME NEW q, q = [i \in 1 .. 0 |-> q[i]]
  PROVE  q = << >>
  OBVIOUS
-----------------------------------------------------------------------------
(* What node, Nodes, Datas and Contents are of a list.                     *)

LEMMA NodeUnfolds ==
  ASSUME NEW f, f = [i \in Nat |-> IF i = 0 THEN front ELSE At(f[i - 1]).next]
  PROVE  node = [i \in Nat |-> IF i = 0 THEN front ELSE At(node[i - 1]).next]
  BY DEF node

LEMMA NodeIs ==
  ASSUME TypeOK, NEW s, IsList(s)
  PROVE  \A i \in Nat : node[i] = IF i < size THEN s[i + 1] ELSE NULL
  <1> DEFINE f == [i \in Nat |-> IF i < size THEN s[i + 1] ELSE NULL]
  <1>0. size \in Nat /\ s \in [1 .. size -> Blocks]
    BY DEF TypeOK, IsList
  <1>1. f[0] = front
    BY <1>0 DEF IsList, Links
  <1>2. ASSUME NEW i \in Nat \ {0} PROVE f[i] = At(f[i - 1]).next
    <2>1. CASE i - 1 < size
      <3>1. f[i - 1] = s[i] /\ i \in 1 .. size
        BY <1>0, <2>1
      <3>2. At(s[i]) = heap[s[i]]
        BY <1>0, <3>1 DEF At
      <3> QED
        BY <1>0, <3>1, <3>2 DEF IsList, Links
    <2>2. CASE ~ (i - 1 < size)
      BY <1>0, <2>2 DEF At, Blank
    <2> QED
      BY <2>1, <2>2
  <1>3. f = [i \in Nat |-> IF i = 0 THEN front ELSE At(f[i - 1]).next]
    BY <1>1, <1>2
  <1> HIDE DEF f
  <1>4. node = [i \in Nat |-> IF i = 0 THEN front ELSE At(node[i - 1]).next]
    BY <1>3, NodeUnfolds
  <1> DEFINE T == {i \in Nat : node[i] # f[i]}
  <1>5. SUFFICES ASSUME T # {} PROVE FALSE
    BY DEF f
  <1>6. PICK i \in T : \A j \in T : ~ (j < i)
    BY <1>5, LeastNatural
  <1>7. i # 0
    BY <1>1, <1>4
  <1>8. i - 1 \in Nat /\ i - 1 \notin T
    BY <1>6, <1>7
  <1>9. node[i - 1] = f[i - 1]
    BY <1>8
  <1>10. node[i] = At(node[i - 1]).next /\ f[i] = At(f[i - 1]).next
    BY <1>2, <1>4, <1>7
  <1> QED
    BY <1>9, <1>10

Elements(s) == [i \in 1 .. size |-> heap[heap[s[i]].data].elem]

(* The list is what its nodes say.                                         *)
ListFacts ==
  \A s : TypeOK /\ IsList(s) =>
    /\ Nodes = {s[i] : i \in 1 .. size}
    /\ Datas = {heap[s[i]].data : i \in 1 .. size}
    /\ Contents = Elements(s)
    /\ Contents \in [1 .. size -> Elems]

LEMMA ListIs == ListFacts
  <1> USE DEF ListFacts
  <1> TAKE s
  <1> HAVE TypeOK /\ IsList(s)
  <1>0. size \in Nat /\ s \in [1 .. size -> Blocks]
    BY DEF TypeOK, IsList
  <1>1. \A i \in 1 .. size : node[i - 1] = s[i]
    BY <1>0, NodeIs
  <1>2. \A i \in 0 .. size - 1 : node[i] = s[i + 1]
    BY <1>0, NodeIs
  <1>3. Nodes = {s[i] : i \in 1 .. size}
    BY <1>0, <1>1, <1>2 DEF Nodes
  <1>4. \A i \in 1 .. size : At(s[i]) = heap[s[i]]
    BY <1>0 DEF At
  <1>5. Datas = {heap[s[i]].data : i \in 1 .. size}
    BY <1>3, <1>4 DEF Datas
  <1>6. \A i \in 1 .. size : At(heap[s[i]].data) = heap[heap[s[i]].data]
    BY DEF At, IsList, Filled
  <1>7. Contents = Elements(s)
    BY <1>1, <1>4, <1>6 DEF Contents, Elements
  <1>8. Elements(s) \in [1 .. size -> Elems]
    BY DEF Elements, IsList, Filled
  <1> QED
    BY <1>3, <1>5, <1>7, <1>8

(* The same of the state after a step. *)
LEMMA ListIsNext == ListFacts'
  BY ListIs, PTL
-----------------------------------------------------------------------------
(* The steps that keep the list.                                           *)

LEMMA SameList ==
  ASSUME IInv, UNCHANGED <<list, heap, live>>, TypeOK'
  PROVE  IInv' /\ Contents' = Contents
  <1>1. PICK s : IsList(s)
    BY DEF IInv
  <1>2. front' = front /\ rear' = rear /\ size' = size
    BY DEF list
  <1>3. IsList(s)' /\ TwoEach'
    <2>1. Links(s)' /\ Distinct(s)'
      BY <1>2, <1>1 DEF IsList, Links, Distinct
    <2>2. Filled(s)' /\ InUse(s)'
      BY <1>2, <1>1 DEF IsList, Filled, InUse
    <2>3. TwoEach'
      BY <1>2 DEF IInv, TwoEach
    <2> QED
      BY <1>2, <1>1, <2>1, <2>2, <2>3 DEF IsList
  <1>4. Elements(s)' = Elements(s)
    BY DEF Elements, list
  <1>5. Contents = Elements(s) /\ Contents' = Elements(s)'
    BY <1>1, <1>3, ListIs, ListIsNext DEF IInv, ListFacts
  <1> QED
    BY <1>3, <1>4, <1>5 DEF IInv

LEMMA EnqueueKeeps ==
  ASSUME IInv, NEW e \in Elems, Enqueue(e)
  PROVE  IInv' /\ Contents' = Append(Contents, e)
  <1>1. PICK s : IsList(s)
    BY DEF IInv
  <1>2. PICK n \in Blocks \ live, d \in Blocks \ live :
          /\ n # d
          /\ live' = live \cup {n, d}
          /\ front' = IF IsFirst THEN n ELSE front
          /\ heap' = IF IsFirst
                     THEN [heap EXCEPT ![n] = NodeOf(d), ![d] = ElemOf(e)]
                     ELSE [[heap EXCEPT ![n] = NodeOf(d), ![d] = ElemOf(e)]
                             EXCEPT ![rear].next = n]
          /\ rear' = n /\ size' = size + 1
          /\ Returns(TRUE, None)
    BY DEF Enqueue
  <1>3. /\ size \in Nat /\ s \in [1 .. size -> Blocks]
        /\ heap \in [Blocks -> Cells] /\ live \subseteq Blocks
    BY <1>1 DEF IInv, TypeOK, IsList
  <1>4. /\ NodeOf(d) \in Cells /\ NodeOf(d).data = d /\ NodeOf(d).next = NULL
        /\ ElemOf(e) \in Cells /\ ElemOf(e).elem = e
    BY DEF NodeOf, ElemOf, Blank, Cells, Pointers
  <1>5. IsFirst <=> size = 0
    BY <1>3, <1>1 DEF IsFirst, IsList, Links
  <1>6. size > 0 => rear = s[size] /\ rear \in Blocks /\ rear \in live
    BY <1>3, <1>1 DEF IsList, Links, InUse
  <1>7. \A i \in 1 .. size :
          s[i] \in live /\ heap[s[i]].data \in live /\ heap[s[i]].data \in Blocks
    BY <1>1 DEF IsList, InUse, Filled
  <1> PICK t : t = [i \in 1 .. size + 1 |-> IF i = size + 1 THEN n ELSE s[i]]
    OBVIOUS
  <1>8. heap'[n] = NodeOf(d) /\ heap'[d] = ElemOf(e)
    BY <1>3, <1>2, <1>4, <1>5, <1>6
  <1>9. \A b \in live : /\ heap'[b].data = heap[b].data
                        /\ heap'[b].elem = heap[b].elem
                        /\ b # rear \/ size = 0 => heap'[b].next = heap[b].next
                        /\ b = rear /\ size > 0 => heap'[b].next = n
    BY <1>3, <1>2, <1>5, <1>6 DEF Cells
  <1>10. size' = size + 1
    BY <1>2
  <1>11. TypeOK'
    <2>1. heap' \in [Blocks -> Cells]
      <3> DEFINE filled == [heap EXCEPT ![n] = NodeOf(d), ![d] = ElemOf(e)]
      <3>1. filled \in [Blocks -> Cells]
        BY <1>3, <1>4
      <3>2. heap' = IF IsFirst THEN filled ELSE [filled EXCEPT ![rear].next = n]
        BY <1>2
      <3> HIDE DEF filled
      <3>3. n \in Pointers
        BY DEF Pointers
      <3> QED
        BY <1>5, <1>6, <3>1, <3>2, <3>3 DEF Cells
    <2> QED
      BY <1>3, <1>2, <2>1 DEF TypeOK, IInv, Returns, Pointers
  <1>12. IsList(t)'
    <2>1. t \in [1 .. size' -> Blocks]
      BY <1>3, <1>2
    <2>2. Links(t)'
      <3>1. front' = t[1] /\ rear' = t[size']
        BY <1>3, <1>1, <1>2, <1>5 DEF IsList, Links
      <3>2. heap'[t[size + 1]].next = NULL
        BY <1>3, <1>4, <1>8
      <3>3. ASSUME NEW i \in 1 .. size PROVE heap'[t[i]].next = t[i + 1]
        <4>1. t[i] = s[i] /\ s[i] \in live
          BY <1>3, <1>7
        <4>2. CASE i = size
          BY <1>3, <1>6, <1>9, <4>1, <4>2
        <4>3. CASE i # size
          <5>1. s[i] # rear
            BY <1>3, <1>1, <1>6, <4>3 DEF IsList, Distinct
          <5> QED
            BY <1>3, <1>1, <1>9, <4>1, <4>3, <5>1 DEF IsList, Links
        <4> QED
          BY <4>2, <4>3
      <3>4. \A i \in 1 .. size + 1 :
              heap'[t[i]].next = IF i = size + 1 THEN NULL ELSE t[i + 1]
        <4>1. \A i \in 1 .. size + 1 : i = size + 1 \/ i \in 1 .. size
          BY <1>3
        <4>2. \A i \in 1 .. size : i # size + 1
          BY <1>3
        <4> QED
          BY ONLY <3>2, <3>3, <4>1, <4>2
      <3>5. size + 1 # 0 /\ front' = t[1] /\ rear' = t[size + 1]
        BY <1>3, <1>10, <3>1
      <3> QED
        BY <1>10, <3>4, <3>5 DEF Links
    <2>3. \A i \in 1 .. size' : heap'[t[i]].data =
             IF i = size + 1 THEN d ELSE heap[s[i]].data
      BY <1>3, <1>2, <1>4, <1>7, <1>8, <1>9
    <2>4. Distinct(t)'
      <3>1. \A i \in 1 .. size : s[i] # n /\ s[i] # d /\ heap[s[i]].data # n
                                   /\ heap[s[i]].data # d
        BY <1>2, <1>7
      <3> QED
        BY <1>3, <1>1, <1>2, <2>3, <3>1 DEF IsList, Distinct
    <2>5. Filled(t)'
      <3>1. \A i \in 1 .. size + 1 :
              heap'[t[i]].data = IF i = size + 1 THEN d ELSE heap[s[i]].data
        BY <1>10, <2>3
      <3>2. \A i \in 1 .. size : heap'[heap[s[i]].data].elem \in Elems
        BY <1>1, <1>7, <1>9 DEF IsList, Filled
      <3>3. heap'[d].elem \in Elems
        BY <1>4, <1>8
      <3>4. d \in Blocks /\ \A i \in 1 .. size : heap[s[i]].data \in Blocks
        BY <1>7
      <3> QED
        BY <1>3, <1>10, <3>1, <3>2, <3>3, <3>4 DEF Filled
    <2>6. InUse(t)'
      <3>1. {t[i] : i \in 1 .. size + 1} = {s[i] : i \in 1 .. size} \cup {n}
        BY <1>3
      <3>2. {heap'[t[i]].data : i \in 1 .. size + 1} =
              {heap[s[i]].data : i \in 1 .. size} \cup {d}
        <4>1. heap'[t[size + 1]].data = d /\ size + 1 \in 1 .. size + 1
          BY <1>3, <1>10, <2>3
        <4>2. \A i \in 1 .. size : /\ heap'[t[i]].data = heap[s[i]].data
                                   /\ i \in 1 .. size + 1
          BY <1>3, <1>10, <2>3
        <4>3. \A i \in 1 .. size + 1 : i = size + 1 \/ i \in 1 .. size
          BY <1>3
        <4> QED
          BY ONLY <4>1, <4>2, <4>3
      <3> QED
        <4>1. live = {s[i] : i \in 1 .. size} \cup {heap[s[i]].data : i \in 1 .. size}
          BY <1>1 DEF IsList, InUse
        <4>2. live' = live \cup {n, d}
          BY <1>2
        <4>3. live' = {t[i] : i \in 1 .. size + 1} \cup
                      {heap'[t[i]].data : i \in 1 .. size + 1}
          BY <3>1, <3>2, <4>1, <4>2
        <4> QED
          BY <1>10, <4>3 DEF InUse
    <2> QED
      BY <2>1, <2>2, <2>4, <2>5, <2>6 DEF IsList
  <1>13. TwoEach'
    <2>1. IsFiniteSet(live)
      BY <1>3, FS_Subset
    <2>2. /\ IsFiniteSet(live \cup {n})
          /\ Cardinality(live \cup {n}) = Cardinality(live) + 1
      BY <1>2, <2>1, FS_AddElement
    <2>3. Cardinality((live \cup {n}) \cup {d}) = Cardinality(live) + 1 + 1
      BY <1>2, <2>2, FS_AddElement
    <2>4. live' = (live \cup {n}) \cup {d}
      BY <1>2
    <2> QED
      <3>1. Cardinality(live) = 2 * size
        BY DEF IInv, TwoEach
      <3>2. Cardinality(live') = Cardinality(live) + 1 + 1
        BY <2>3, <2>4
      <3> QED
        BY ONLY <1>3, <1>10, <3>1, <3>2 DEF TwoEach
  <1>14. Contents' = Append(Contents, e)
    <2>1. Contents' = Elements(t)'
      BY <1>11, <1>12, ListIsNext DEF ListFacts
    <2>2. Elements(t)' = [i \in 1 .. size + 1 |->
                            IF i = size + 1 THEN e ELSE Elements(s)[i]]
      <3>1. \A i \in 1 .. size : /\ t[i] = s[i] /\ t[i] # n
                                 /\ heap'[t[i]].data = heap[s[i]].data
        BY <1>2, <1>3, <1>7, <1>9
      <3>2. \A i \in 1 .. size : heap'[heap'[t[i]].data].elem = Elements(s)[i]
        BY <1>7, <1>9, <3>1 DEF Elements
      <3>3. heap'[heap'[t[size + 1]].data].elem = e
        BY <1>3, <1>4, <1>8
      <3>4. \A i \in 1 .. size + 1 : i # size + 1 => i \in 1 .. size
        BY <1>3
      <3>5. Elements(t)' = [i \in 1 .. size + 1 |-> heap'[heap'[t[i]].data].elem]
        BY <1>10 DEF Elements
      <3> QED
        BY ONLY <3>2, <3>3, <3>4, <3>5
    <2>3. Contents = Elements(s) /\ Contents \in [1 .. size -> Elems]
      BY <1>1, ListIs DEF IInv, ListFacts
    <2> QED
      <3>1. Append(Contents, e) = [i \in 1 .. size + 1 |->
                                     IF i = size + 1 THEN e ELSE Contents[i]]
        <4>1. size \in Nat
          BY <1>3
        <4>2. Contents \in [1 .. size -> Elems]
          BY <2>3
        <4>3. e \in Elems
          OBVIOUS
        <4> QED
          BY ONLY <4>1, <4>2, <4>3, AppendIs
      <3> QED
        BY ONLY <2>1, <2>2, <2>3, <3>1, Zenon
  <1> QED
    BY <1>11, <1>12, <1>13, <1>14 DEF IInv

LEMMA DequeueKeeps ==
  ASSUME IInv, Dequeue, ~queue_is_empty
  PROVE  /\ IInv' /\ Contents # << >>
         /\ Contents' = Tail(Contents) /\ Returns(TRUE, Head(Contents))
  <1>1. PICK s : IsList(s)
    BY DEF IInv
  <1> DEFINE n == s[1]
             d == heap[n].data
  <1>2. /\ size \in Nat /\ s \in [1 .. size -> Blocks]
        /\ heap \in [Blocks -> Cells] /\ live \subseteq Blocks
    BY <1>1 DEF IInv, TypeOK, IsList
  <1>3. size # 0 /\ front = n /\ 1 \in 1 .. size
    BY <1>1, <1>2 DEF IsList, Links, queue_is_empty
  <1>4. /\ n \in Blocks /\ d \in Blocks /\ n # d /\ n \in live /\ d \in live
        /\ heap[d].elem \in Elems
        /\ heap[n].next = IF size = 1 THEN NULL ELSE s[2]
    BY <1>1, <1>2, <1>3 DEF IsList, Links, Distinct, Filled, InUse
  <1>5. /\ Returns(TRUE, heap[d].elem)
        /\ front' = heap[n].next
        /\ rear' = IF heap[n].next = NULL THEN NULL ELSE rear
        /\ live' = live \ {n, d}
        /\ heap' = [b \in Blocks |-> IF b \in {n, d} THEN Blank ELSE heap[b]]
    BY <1>3 DEF Dequeue, Free, RearAfter
  <1>6. size' = size - 1
    BY <1>3 DEF Dequeue
  <1> PICK t : t = [i \in 1 .. size - 1 |-> s[i + 1]]
    OBVIOUS
  <1>7. \A i \in 1 .. size - 1 : t[i] = s[i + 1] /\ i + 1 \in 1 .. size /\ i + 1 # 1
    BY <1>2
  <1>8. \A i \in 1 .. size - 1 :
          /\ s[i + 1] # n /\ s[i + 1] # d
          /\ heap[s[i + 1]].data # n /\ heap[s[i + 1]].data # d
    BY <1>1, <1>3, <1>7 DEF IsList, Distinct
  <1>9. \A i \in 1 .. size - 1 :
          /\ s[i + 1] \in Blocks /\ heap[s[i + 1]].data \in Blocks
          /\ heap[heap[s[i + 1]].data].elem \in Elems
    BY <1>1, <1>2, <1>7 DEF IsList, Filled
  <1>10. \A i \in 1 .. size - 1 :
           /\ heap'[t[i]] = heap[s[i + 1]]
           /\ heap'[heap[s[i + 1]].data] = heap[heap[s[i + 1]].data]
    BY <1>5, <1>7, <1>8, <1>9
  <1>11. TypeOK'
    <2>1. heap' \in [Blocks -> Cells]
      BY <1>2, <1>5 DEF Blank, Cells, Pointers
    <2>2. front' \in Pointers /\ rear' \in Pointers
      BY <1>2, <1>4, <1>5 DEF IInv, TypeOK, Cells, Pointers
    <2>3. live' \subseteq Blocks /\ size' \in Nat
      BY <1>2, <1>3, <1>5, <1>6
    <2>4. ret' \in [ok : BOOLEAN, elem : Elems \cup {None}]
      BY <1>4, <1>5 DEF Returns
    <2> QED
      BY <2>1, <2>2, <2>3, <2>4 DEF TypeOK
  <1>12. IsList(t)'
    <2>1. t \in [1 .. size' -> Blocks]
      BY <1>6, <1>7, <1>9
    <2>2. Links(t)'
      <3>1. CASE size = 1
        BY <1>4, <1>5, <1>6, <3>1 DEF Links
      <3>2. CASE size # 1
        <4>1. front' = t[1]
          BY <1>2, <1>3, <1>4, <1>5, <1>7, <3>2
        <4>2. rear = s[size] /\ t[size - 1] = s[size]
          BY <1>1, <1>2, <1>3, <1>7, <3>2 DEF IsList, Links
        <4>3. rear' = t[size - 1]
          BY <1>2, <1>3, <1>4, <1>5, <3>2, <4>2
        <4>4. \A i \in 1 .. size - 1 :
                heap[s[i + 1]].next = IF i + 1 = size THEN NULL ELSE s[i + 2]
          BY <1>1, <1>2, <1>7 DEF IsList, Links
        <4>5. \A i \in 1 .. size - 1 :
                heap'[t[i]].next = IF i = size - 1 THEN NULL ELSE t[i + 1]
          BY <1>2, <1>7, <1>10, <4>4
        <4>6. size - 1 # 0
          BY <1>2, <3>2
        <4> QED
          BY <1>6, <4>1, <4>3, <4>5, <4>6 DEF Links
      <3> QED
        BY <3>1, <3>2
    <2>3. Distinct(t)'
      <3>1. \A i, j \in 1 .. size - 1 :
              /\ s[i + 1] = s[j + 1] => i + 1 = j + 1
              /\ heap[s[i + 1]].data = heap[s[j + 1]].data => i + 1 = j + 1
              /\ heap[s[i + 1]].data # s[j + 1]
        BY <1>1, <1>7 DEF IsList, Distinct
      <3>2. \A i, j \in 1 .. size - 1 :
              /\ t[i] = t[j] => i = j
              /\ heap'[t[i]].data = heap'[t[j]].data => i = j
              /\ heap'[t[i]].data # t[j]
        BY <1>2, <1>7, <1>10, <3>1
      <3> QED
        BY <1>6, <3>2 DEF Distinct
    <2>4. Filled(t)'
      BY <1>6, <1>9, <1>10 DEF Filled
    <2>5. InUse(t)'
      <3>1. {s[i] : i \in 1 .. size} = {t[i] : i \in 1 .. size - 1} \cup {n}
        <4>1. \A i \in 1 .. size : i # 1 => i - 1 \in 1 .. size - 1 /\ t[i - 1] = s[i]
          BY <1>2, <1>7
        <4> QED
          BY <1>3, <1>7, <4>1
      <3>2. {heap[s[i]].data : i \in 1 .. size} =
              {heap'[t[i]].data : i \in 1 .. size - 1} \cup {d}
        <4>1. \A i \in 1 .. size : i # 1 =>
                i - 1 \in 1 .. size - 1 /\ heap'[t[i - 1]].data = heap[s[i]].data
          BY <1>2, <1>7, <1>10
        <4> QED
          BY <1>3, <1>7, <1>10, <4>1
      <3> DEFINE A == {t[i] : i \in 1 .. size - 1}
                 B == {heap'[t[i]].data : i \in 1 .. size - 1}
      <3>3. n \notin A \cup B /\ d \notin A \cup B
        BY <1>7, <1>8, <1>10
      <3>4. live = (A \cup {n}) \cup (B \cup {d})
        BY <1>1, <3>1, <3>2 DEF IsList, InUse
      <3>5. live' = A \cup B
        <4> HIDE DEF A, B, n, d
        <4> QED
          BY <1>5, <3>3, <3>4
      <3> QED
        BY <1>6, <3>5 DEF InUse
    <2> QED
      BY <2>1, <2>2, <2>3, <2>4, <2>5 DEF IsList
  <1>13. TwoEach'
    <2>1. IsFiniteSet(live)
      BY <1>2, FS_Subset
    <2>2. /\ IsFiniteSet(live \ {n})
          /\ Cardinality(live \ {n}) = Cardinality(live) - 1
      BY <1>4, <2>1, FS_RemoveElement
    <2>3. Cardinality((live \ {n}) \ {d}) = Cardinality(live) - 1 - 1
      <3>1. d \in live \ {n}
        BY <1>4
      <3>2. Cardinality((live \ {n}) \ {d}) = Cardinality(live \ {n}) - 1
        <4> HIDE DEF n, d
        <4> QED
          BY <2>2, <3>1, FS_RemoveElement
      <3> QED
        BY <2>2, <3>2
    <2>4. live' = (live \ {n}) \ {d}
      BY <1>5
    <2> QED
      <3>1. Cardinality(live) = 2 * size
        BY DEF IInv, TwoEach
      <3>2. Cardinality(live') = Cardinality(live) - 1 - 1
        BY <2>3, <2>4
      <3> QED
        BY ONLY <1>2, <1>6, <3>1, <3>2 DEF TwoEach
  <1>14. Contents = Elements(s) /\ Contents \in [1 .. size -> Elems]
    BY <1>1, ListIs DEF IInv, ListFacts
  <1>15. /\ Contents # << >> /\ Head(Contents) = Contents[1]
         /\ Tail(Contents) = [i \in 1 .. size - 1 |-> Contents[i + 1]]
    <2>1. size \in Nat \ {0}
      BY <1>2, <1>3
    <2>2. Contents \in [1 .. size -> Elems]
      BY <1>14
    <2> QED
      BY ONLY <2>1, <2>2, TailIs, Zenon
  <1>16. Contents' = Elements(t)'
    BY <1>11, <1>12, ListIsNext DEF ListFacts
  <1>17. Elements(t)' = [i \in 1 .. size - 1 |-> Elements(s)[i + 1]]
    BY <1>2, <1>6, <1>7, <1>10 DEF Elements
  <1>18. Contents[1] = heap[d].elem
    BY <1>3, <1>14 DEF Elements
  <1> QED
    BY <1>5, <1>11, <1>12, <1>13, <1>14, <1>15, <1>16, <1>17, <1>18 DEF IInv, Returns

LEMMA DestroyKeeps ==
  ASSUME IInv, Destroy
  PROVE  IInv' /\ Contents' = << >>
  <1>1. PICK s : IsList(s)
    BY DEF IInv
  <1>2. /\ size \in Nat /\ s \in [1 .. size -> Blocks]
        /\ heap \in [Blocks -> Cells] /\ live \subseteq Blocks
    BY <1>1 DEF IInv, TypeOK, IsList
  <1>3. size <= Cardinality(Blocks)
    <2>1. s \in Injection(1 .. size, Blocks)
      BY <1>1, <1>2 DEF IsList, Distinct, Injection, IsInjective
    <2>2. Cardinality(1 .. size) = size
      BY <1>2, FS_Interval
    <2> QED
      BY <2>1, <2>2, FS_Injection
  <1> DEFINE walk == {node[i] : i \in 0 .. Cardinality(Blocks)} \ {NULL}
  <1>4. \A i \in 1 .. size : s[i] \in walk
    <2>1. \A i \in 1 .. size : /\ i - 1 \in Nat /\ i - 1 < size
                               /\ i - 1 \in 0 .. Cardinality(Blocks)
                               /\ s[i] \in Blocks
      BY <1>2, <1>3, FS_CardinalityType
    <2>2. \A i \in 1 .. size : node[i - 1] = s[i]
      BY <1>1, <1>2, <2>1, NodeIs DEF IInv
    <2> QED
      BY <2>1, <2>2
  <1>5. /\ front' = NULL /\ rear' = NULL /\ size' = 0
        /\ live' = live \ (walk \cup {heap[n].data : n \in walk})
        /\ heap' = [b \in Blocks |->
                      IF b \in walk \cup {heap[n].data : n \in walk}
                      THEN Blank ELSE heap[b]]
        /\ Returns(TRUE, None)
    BY DEF Destroy, Free
  <1> HIDE DEF walk
  <1>6. live' = {}
    BY <1>1, <1>4, <1>5 DEF IsList, InUse
  <1>7. TypeOK'
    <2>1. heap' \in [Blocks -> Cells]
      BY <1>2, <1>5 DEF Blank, Cells, Pointers
    <2> QED
      BY <1>5, <1>6, <2>1 DEF TypeOK, Pointers, Returns
  <1> PICK t : t = [i \in 1 .. 0 |-> NULL]
    OBVIOUS
  <1>8. IsList(t)'
    BY <1>5, <1>6 DEF IsList, Links, Distinct, Filled, InUse
  <1>9. TwoEach'
    <2>1. Cardinality(live') = 0
      BY <1>6, FS_EmptySet
    <2>2. size' = 0
      BY <1>5
    <2> QED
      BY <2>1, <2>2 DEF TwoEach
  <1>10. Contents' = << >>
    BY <1>5, <1>7, <1>8, ListIsNext, EmptyIs DEF ListFacts, Elements
  <1> QED
    BY <1>7, <1>8, <1>9, <1>10 DEF IInv
-----------------------------------------------------------------------------
LEMMA InitList == Init => IInv /\ Contents = << >>
  <1> SUFFICES ASSUME Init PROVE IInv /\ Contents = << >>
    OBVIOUS
  <1>1. TypeOK
    BY DEF Init, TypeOK, Blank, Cells, Pointers
  <1> PICK t : t = [i \in 1 .. 0 |-> NULL]
    OBVIOUS
  <1>2. IsList(t)
    BY DEF Init, IsList, Links, Distinct, Filled, InUse
  <1>3. TwoEach
    BY FS_EmptySet DEF Init, TwoEach
  <1>4. Contents = << >>
    BY <1>1, <1>2, ListIs, EmptyIs DEF ListFacts, Elements, Init
  <1> QED
    BY <1>1, <1>2, <1>3, <1>4 DEF IInv

(* What Contents says of an empty list and of its first element.           *)
LEMMA ContentsFirst ==
  ASSUME IInv
  PROVE  /\ queue_is_empty => Contents = << >>
         /\ ~queue_is_empty => /\ Contents # << >>
                               /\ Head(Contents) = heap[heap[front].data].elem
                               /\ Head(Contents) \in Elems
  <1>1. PICK s : IsList(s)
    BY DEF IInv
  <1>2. Contents = Elements(s) /\ Contents \in [1 .. size -> Elems] /\ size \in Nat
    BY <1>1, ListIs DEF IInv, ListFacts, TypeOK
  <1>3. CASE size = 0
    <2>1. queue_is_empty
      BY <1>1, <1>3 DEF queue_is_empty, IsList, Links
    <2>2. Contents = << >>
      BY <1>2, <1>3, EmptyIs
    <2> QED
      BY <2>1, <2>2
  <1>4. CASE size # 0
    <2>1. front = s[1] /\ s[1] \in Blocks /\ 1 \in 1 .. size
      BY <1>1, <1>2, <1>4 DEF IsList, Links
    <2>2. ~queue_is_empty
      BY <2>1 DEF queue_is_empty
    <2>3. size \in Nat \ {0} /\ Contents \in [1 .. size -> Elems]
      BY <1>2, <1>4
    <2>4. Contents # << >> /\ Head(Contents) = Contents[1]
      BY ONLY <2>3, TailIs, Zenon
    <2>5. Contents[1] = heap[heap[front].data].elem /\ Contents[1] \in Elems
      BY <1>2, <2>1 DEF Elements
    <2> QED
      BY <2>2, <2>4, <2>5
  <1> QED
    BY <1>3, <1>4

(* Every step keeps the list and is a step of Fifo.  An enqueue that fails *)
(* where there are no elements is one of its calls on an empty queue.      *)
LEMMA StepMaps ==
  IInv /\ [Next]_vars => IInv' /\ [Abstract!FifoNext]_<<Contents, ret>>
  <1> SUFFICES ASSUME IInv, [Next]_vars
               PROVE  IInv' /\ [Abstract!FifoNext]_<<Contents, ret>>
    OBVIOUS
  <1>1. CASE \E e \in Elems : Enqueue(e)
    <2>1. PICK e \in Elems : Enqueue(e)
      BY <1>1
    <2>2. IInv' /\ Contents' = Append(Contents, e) /\ Returns(TRUE, None)
      BY <2>1, EnqueueKeeps DEF Enqueue
    <2>3. Abstract!Enqueue(e)
      BY <2>2 DEF Abstract!Enqueue, Abstract!Returns, Returns
    <2> QED
      BY <2>2, <2>3 DEF Abstract!FifoNext
  <1>2. CASE EnqueueFails
    <2>1. UNCHANGED <<list, heap, live>> /\ Returns(FALSE, None)
      BY <1>2 DEF EnqueueFails, LeftOver
    <2>2. TypeOK'
      BY <2>1 DEF IInv, TypeOK, list, Returns
    <2>3. IInv' /\ Contents' = Contents
      BY <2>1, <2>2, SameList
    <2>4. CASE Elems # {}
      <3>1. PICK e \in Elems : TRUE
        BY <2>4
      <3>2. Abstract!Enqueue(e)
        BY <2>1, <2>3 DEF Abstract!Enqueue, Abstract!Returns, Returns
      <3> QED
        BY <2>3, <3>1, <3>2 DEF Abstract!FifoNext
    <2>5. CASE Elems = {}
      <3>1. Contents = << >>
        BY <2>5, ContentsFirst
      <3>2. Abstract!Dequeue
        BY <2>1, <2>3, <3>1 DEF Abstract!Dequeue, Abstract!Returns, Returns
      <3> QED
        BY <2>3, <3>2 DEF Abstract!FifoNext
    <2> QED
      BY <2>4, <2>5
  <1>3. CASE Dequeue
    <2>1. CASE ~queue_is_empty
      <3>1. /\ IInv' /\ Contents # << >>
            /\ Contents' = Tail(Contents) /\ Returns(TRUE, Head(Contents))
        BY <1>3, <2>1, DequeueKeeps
      <3>2. Abstract!Dequeue
        BY <3>1 DEF Abstract!Dequeue, Abstract!Returns, Returns
      <3> QED
        BY <3>1, <3>2 DEF Abstract!FifoNext
    <2>2. CASE queue_is_empty
      <3>1. UNCHANGED <<list, heap, live>> /\ Returns(FALSE, None)
        BY <1>3, <2>2 DEF Dequeue
      <3>2. TypeOK'
        BY <3>1 DEF IInv, TypeOK, list, Returns
      <3>3. IInv' /\ Contents' = Contents /\ Contents = << >>
        BY <2>2, <3>1, <3>2, SameList, ContentsFirst
      <3>4. Abstract!Dequeue
        BY <3>1, <3>3 DEF Abstract!Dequeue, Abstract!Returns, Returns
      <3> QED
        BY <3>3, <3>4 DEF Abstract!FifoNext
    <2> QED
      BY <2>1, <2>2
  <1>4. CASE Peek
    <2>1. UNCHANGED <<list, heap, live>>
      BY <1>4 DEF Peek
    <2>2. IF queue_is_empty THEN Returns(FALSE, None)
          ELSE Returns(TRUE, Head(Contents)) /\ Head(Contents) \in Elems
      BY <1>4, ContentsFirst DEF Peek
    <2>3. TypeOK'
      <3>1. \E b \in BOOLEAN, e \in Elems \cup {None} : Returns(b, e)
        BY <2>2
      <3>2. ret' \in [ok : BOOLEAN, elem : Elems \cup {None}]
        BY <3>1 DEF Returns
      <3> QED
        BY <2>1, <3>2 DEF IInv, TypeOK, list
    <2>4. IInv' /\ Contents' = Contents
      BY <2>1, <2>3, SameList
    <2>5. Abstract!Peek
      BY <2>2, <2>4, ContentsFirst DEF Abstract!Peek, Abstract!Returns, Returns
    <2> QED
      BY <2>4, <2>5 DEF Abstract!FifoNext
  <1>5. CASE Destroy
    <2>1. IInv' /\ Contents' = << >> /\ Returns(TRUE, None)
      BY <1>5, DestroyKeeps DEF Destroy
    <2>2. Abstract!Destroy
      BY <2>1 DEF Abstract!Destroy, Abstract!Returns, Returns
    <2> QED
      BY <2>1, <2>2 DEF Abstract!FifoNext
  <1>6. CASE UNCHANGED vars
    <2>1. UNCHANGED <<list, heap, live>> /\ ret' = ret
      BY <1>6 DEF vars
    <2>2. TypeOK'
      BY <2>1 DEF IInv, TypeOK, list
    <2>3. IInv' /\ Contents' = Contents
      BY <2>1, <2>2, SameList
    <2> QED
      BY <2>1, <2>3
  <1> QED
    BY <1>1, <1>2, <1>3, <1>4, <1>5, <1>6 DEF Next

LEMMA IInvAlways == Spec => []IInv
  <1>1. Init => IInv
    BY InitList
  <1>2. IInv /\ [Next]_vars => IInv'
    BY StepMaps
  <1> QED
    BY <1>1, <1>2, PTL DEF Spec

(* The pointers, the count and the blocks of the queue are what queue.c    *)
(* takes them for.                                                         *)
THEOREM TypeCorrect == Spec => []TypeOK
  <1>1. IInv => TypeOK
    BY DEF IInv
  <1> QED
    BY <1>1, IInvAlways, PTL

(* The list reaches exactly the blocks in use, two to an element: nothing  *)
(* is freed that can be reached, and nothing leaks.                        *)
THEOREM NothingLeaks == Spec => []NoLeak
  <1>1. IInv => NoLeak
    <2> SUFFICES ASSUME IInv PROVE NoLeak
      OBVIOUS
    <2>1. PICK s : IsList(s)
      BY DEF IInv
    <2>2. /\ Nodes = {s[i] : i \in 1 .. size}
          /\ Datas = {heap[s[i]].data : i \in 1 .. size}
      BY <2>1, ListIs DEF IInv, ListFacts
    <2> QED
      BY <2>1, <2>2 DEF IInv, NoLeak, IsList, InUse, TwoEach
  <1> QED
    BY <1>1, IInvAlways, PTL

(* The linked list is a first-in first-out sequence of elements, whatever  *)
(* malloc hands out and whenever it fails.                                 *)
THEOREM Refinement == Spec => ImplementsFifo
  <1>1. Init => Abstract!FifoInit
    BY InitList DEF Init, Abstract!FifoInit
  <1>2. IInv /\ [Next]_vars => [Abstract!FifoNext]_<<Contents, ret>>
    BY StepMaps
  <1> QED
    BY <1>1, <1>2, IInvAlways, PTL
       DEF Spec, ImplementsFifo, Abstract!FifoSpec, Abstract!fvars
=============================================================================
