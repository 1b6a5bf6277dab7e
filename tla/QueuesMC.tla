------------------------------- MODULE QueuesMC ------------------------------
(* The two queues of base/: a ring of four slots, whose end is passed and     *)
(* which two producers fill at the same time, and a list of nodes whose       *)
(* memory is used again.  They share no state: one of them runs, and the      *)
(* other stays as it is.                                                      *)
EXTENDS BoundedQueue, UnboundedQueue

CONSTANTS p1, p2, c1, c2, e1, e2, n1, n2, n3

VARIABLE queue   \* the one that runs

TwoProducers == {p1, p2}
TwoConsumers == {c1, c2}
TwoElements == {e1, e2}

ThreeNodes == {n1, n2, n3}

allVars == <<queue, vars, unboundedVars>>

\* Which of the nodes is the first makes no difference.
EitherInit == queue \in {"bounded", "two consumers", "one consumer"} /\ Init /\ ListInit /\ list_head = n1

Rests(t) == list_pc'[t] = "idle"

\* Each producer of the ring has one kind of element.
Own(p) == element'[p] \in {NoElement, IF p = p1 THEN e1 ELSE e2}

EitherNext ==
    /\ \/ queue = "bounded" /\ Next /\ (\A p \in Producers : Own(p)) /\ UNCHANGED unboundedVars
       \/ queue = "two consumers" /\ ListNext /\ Rests(p2) /\ UNCHANGED vars
       \/ queue = "one consumer" /\ ListNext /\ Rests(c2) /\ UNCHANGED vars
    /\ UNCHANGED queue

\* The fairness of FairSpec.
EitherSpec ==
    /\ EitherInit /\ [][EitherNext]_allVars
    /\ \A p \in Producers : WF_vars(queue = "bounded" /\ EnqueueStep(p))
    /\ \A c \in Consumers : WF_vars(queue = "bounded" /\ DequeueStep(c))
==============================================================================
