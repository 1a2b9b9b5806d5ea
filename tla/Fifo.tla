------------------------------- MODULE Fifo -------------------------------
(***************************************************************************)
(* What queue.c promises its callers: a sequence of elements, first in     *)
(* first out, and what each call returns.  Any call that needs memory may  *)
(* fail, and then changes nothing.                                         *)
(***************************************************************************)
EXTENDS Sequences

CONSTANTS Elems, None

VARIABLES queue, \* the elements, the oldest first
          ret    \* what the last call returned: ok, and the element copied
                 \*   out, or None
fvars == <<queue, ret>>

Returns(b, e) == ret' = [ok |-> b, elem |-> e]

FifoInit == queue = <<>> /\ ret = [ok |-> TRUE, elem |-> None]

Enqueue(e) == \/ queue' = Append(queue, e) /\ Returns(TRUE, None)
              \/ UNCHANGED queue /\ Returns(FALSE, None)

Dequeue == \/ /\ queue # <<>>
              /\ queue' = Tail(queue) /\ Returns(TRUE, Head(queue))
           \/ queue = <<>> /\ UNCHANGED queue /\ Returns(FALSE, None)

Peek == /\ UNCHANGED queue
        /\ IF queue = <<>> THEN Returns(FALSE, None)
           ELSE Returns(TRUE, Head(queue))

Destroy == queue' = <<>> /\ Returns(TRUE, None)

FifoNext == (\E e \in Elems : Enqueue(e)) \/ Dequeue \/ Peek \/ Destroy

FifoSpec == FifoInit /\ [][FifoNext]_fvars
=============================================================================
