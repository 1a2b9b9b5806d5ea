------------------------------- MODULE Queue -------------------------------
(***************************************************************************)
(* The linked list of queue.c behind ClntQue and TaskQue.  A call runs     *)
(* under the mutex of its queue (or before and after all threads), so each *)
(* is one action; what it may get wrong is pointers and memory.  malloc    *)
(* fails at any call, and hands out any block that is free, those freed    *)
(* before included.                                                        *)
(*                                                                         *)
(* A definition no action uses is a plausible slip in the definition that  *)
(* follows it, kept to show that a property would notice.                  *)
(***************************************************************************)
EXTENDS Integers, Sequences, FiniteSets

CONSTANTS Blocks,  \* the addresses malloc may return
          Elems,   \* the elements callers put in
          NULL, None

ASSUME BlocksAssumption ==
  IsFiniteSet(Blocks) /\ NULL \notin Blocks /\ None \notin Elems

VARIABLES front, rear, size,  \* the Queue
          heap,               \* heap[b]: block b, as a node and as an element
          live,               \* the blocks allocated and not freed
          ret                 \* what the last call returned
list == <<front, rear, size>>
vars == <<list, heap, live, ret>>

Pointers == Blocks \cup {NULL}
Cells    == [data : Pointers, next : Pointers, elem : Elems \cup {None}]

(* Whatever a block holds that is not in use: nobody looks. *)
Blank     == [data |-> NULL, next |-> NULL, elem |-> None]
ElemOf(e) == [Blank EXCEPT !.elem = e]

NextUnset(d) == [Blank EXCEPT !.data = d, !.next = None]
NodeOf(d)    == [Blank EXCEPT !.data = d]

(* queue_init *)
Init == /\ front = NULL /\ rear = NULL /\ size = 0
        /\ heap = [b \in Blocks |-> Blank] /\ live = {}
        /\ ret = [ok |-> TRUE, elem |-> None]

Returns(b, e) == ret' = [ok |-> b, elem |-> e]

queue_is_empty == front = NULL
-----------------------------------------------------------------------------
IsFirst == rear = NULL

(* queue_enqueue, with the memory it needs: the first node becomes front   *)
(* and rear, another one follows the rear.                                 *)
Enqueue(e) ==
  \E n, d \in Blocks \ live :
    LET filled == [heap EXCEPT ![n] = NodeOf(d), ![d] = ElemOf(e)]
    IN /\ n # d
       /\ live' = live \cup {n, d}
       /\ front' = IF IsFirst THEN n ELSE front
       /\ heap'  = IF IsFirst THEN filled ELSE [filled EXCEPT ![rear].next = n]
       /\ rear' = n
       /\ size' = size + 1
       /\ Returns(TRUE, None)

KeptNode(n) == {n}
LeftOver(n) == {}

(* queue_enqueue without: the first malloc fails, or the second does and   *)
(* the node is freed.                                                      *)
EnqueueFails ==
  /\ \/ UNCHANGED live
     \/ \E n \in Blocks \ live : live' = live \cup LeftOver(n)
  /\ Returns(FALSE, None)
  /\ UNCHANGED <<list, heap>>

RearKept(f)  == rear
RearAfter(f) == IF f = NULL THEN NULL ELSE rear

Free(bs) == /\ live' = live \ bs
            /\ heap' = [b \in Blocks |-> IF b \in bs THEN Blank ELSE heap[b]]

Dequeue ==
  \/ /\ ~queue_is_empty
     /\ Returns(TRUE, heap[heap[front].data].elem)
     /\ front' = heap[front].next
     /\ rear' = RearAfter(heap[front].next)
     /\ Free({front, heap[front].data})
     /\ size' = size - 1
  \/ /\ queue_is_empty
     /\ Returns(FALSE, None)
     /\ UNCHANGED <<list, heap, live>>

Peek == /\ IF queue_is_empty THEN Returns(FALSE, None)
           ELSE Returns(TRUE, heap[heap[front].data].elem)
        /\ UNCHANGED <<list, heap, live>>

At(p) == IF p = NULL THEN Blank ELSE heap[p]

(* The i-th node from the front. *)
node[i \in Nat] == IF i = 0 THEN front ELSE At(node[i - 1]).next

Nodes == {node[i] : i \in 0 .. size - 1}
Datas == {At(n).data : n \in Nodes}

(* queue_destroy walks the list to its end; whoever wants another queue    *)
(* calls queue_init.                                                       *)
Destroy == /\ LET walk == {node[i] : i \in 0 .. Cardinality(Blocks)} \ {NULL}
              IN  Free(walk \cup {heap[n].data : n \in walk})
           /\ front' = NULL /\ rear' = NULL /\ size' = 0
           /\ Returns(TRUE, None)

Next == \/ \E e \in Elems : Enqueue(e)
        \/ EnqueueFails \/ Dequeue \/ Peek \/ Destroy

Spec == Init /\ [][Next]_vars
-----------------------------------------------------------------------------
(* Properties                                                              *)

TypeOK == /\ front \in Pointers /\ rear \in Pointers /\ size \in Nat
          /\ heap \in [Blocks -> Cells] /\ live \subseteq Blocks
          /\ ret \in [ok : BOOLEAN, elem : Elems \cup {None}]

(* Every block in use is reached from front, and every block reached is in *)
(* use: two to an element, none of them freed, none of them leaked.        *)
NoLeak == /\ live = Nodes \cup Datas
          /\ Cardinality(live) = 2 * size

(* The list is a first-in first-out sequence, through which every call     *)
(* returns what it should, and queue_is_empty and queue_size are about it. *)
Contents == [i \in 1 .. size |-> At(At(node[i - 1]).data).elem]

Abstract == INSTANCE Fifo WITH queue <- Contents

ImplementsFifo == Abstract!FifoSpec
=============================================================================
