----------------------------- MODULE FifoQueue ------------------------------
(***************************************************************************)
(* What a bounded queue promises: elements come out in the order in which  *)
(* they went in, each of them once, and never more than Capacity of them   *)
(* are inside.  base/bounded_queue.h implements it (module BoundedQueue).  *)
(***************************************************************************)
EXTENDS Naturals, Sequences

CONSTANTS Consumers, Element, Capacity

VARIABLES queue,  \* the elements inside, oldest first
          taken   \* the element that each consumer has taken last

vars == <<queue, taken>>

Init ==
    /\ queue = <<>>
    /\ taken \in [Consumers -> Element]

Put(e) ==
    /\ Len(queue) < Capacity
    /\ queue' = Append(queue, e)
    /\ UNCHANGED taken

Take(c) ==
    /\ queue # <<>>
    /\ taken' = [taken EXCEPT ![c] = Head(queue)]
    /\ queue' = Tail(queue)

Next == \/ \E e \in Element : Put(e)
        \/ \E c \in Consumers : Take(c)

Spec == Init /\ [][Next]_vars
=============================================================================
