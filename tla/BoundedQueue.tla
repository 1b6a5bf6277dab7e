---------------------------- MODULE BoundedQueue ----------------------------
(***************************************************************************)
(* base/bounded_queue.h: a ring of pool_size_ elements shared by any       *)
(* number of producers and consumers.  Tickets are drawn from tail_, an    *)
(* element is visible once commit_ has passed its ticket, and consumers    *)
(* move head_, which is the ticket of the element taken last.              *)
(*                                                                         *)
(* Every access of an atomic is a step.  An element is two words, and it   *)
(* is copied word by word, because Dequeue copies it before it knows       *)
(* whether the element is its own: head_ may move on during the copy and   *)
(* the slot be written again.                                              *)
(*                                                                         *)
(* pc[p] of a producer:   "idle", "check" (queue full?), "cas" (tail_),    *)
(*                        "low", "high" (copying in), "commit"             *)
(* pc[c] of a consumer:   "idle", "check" (queue empty?), "low", "high"    *)
(*                        (copying out), "cas" (head_)                     *)
(* Size, which changes nothing, is left out; the waiting of WaitDequeue is *)
(* in module ThreadPool.                                                   *)
(***************************************************************************)
EXTENDS Integers, Sequences

CONSTANTS Producers, Consumers,
          Element,
          NoElement,     \* what a default constructed element holds
          InitSize,      \* the argument of Init
          MaxTickets     \* bound: elements enqueued

ASSUME ThreadsAssumption ==
    Producers \cap Consumers = {} /\ NoElement \notin Element
ASSUME SizesAssumption ==
    InitSize \in Nat \ {0} /\ MaxTickets \in Nat

pool_size == InitSize + 2

VARIABLES
    head, tail, commit,  \* head_, tail_, commit_
    low, high,           \* the two words of every slot of pool_
    pc,
    old_tail, element,   \* a producer's local copy of tail_, and its argument
    old_head,            \* a consumer's local copy of head_
    out_low, out_high,   \* what a consumer has copied out
    taken                \* the element that a consumer has dequeued last

sharedVars == <<head, tail, commit, low, high>>
producerVars == <<old_tail, element>>
consumerVars == <<old_head, out_low, out_high, taken>>
vars == <<sharedVars, pc, producerVars, consumerVars>>

Thread == Producers \cup Consumers
GetIndex(num) == num % pool_size
Slot == 0 .. pool_size - 1

Full == tail - head = pool_size - 1

Init ==
    /\ head = 0 /\ tail = 1 /\ commit = 1
    /\ low = [i \in Slot |-> NoElement]
    /\ high = [i \in Slot |-> NoElement]
    /\ pc = [t \in Thread |-> "idle"]
    /\ old_tail = [p \in Producers |-> 0]
    /\ element = [p \in Producers |-> NoElement]
    /\ old_head = [c \in Consumers |-> 0]
    /\ out_low = [c \in Consumers |-> NoElement]
    /\ out_high = [c \in Consumers |-> NoElement]
    /\ taken = [c \in Consumers |-> NoElement]

Goto(t, s) == pc' = [pc EXCEPT ![t] = s]

-----------------------------------------------------------------------------
(* Enqueue *)

BeginEnqueue(p, e) ==
    /\ pc[p] = "idle"
    /\ tail <= MaxTickets
    /\ element' = [element EXCEPT ![p] = e]
    /\ old_tail' = [old_tail EXCEPT ![p] = tail]
    /\ Goto(p, "check")
    /\ UNCHANGED <<sharedVars, consumerVars>>

\* Mutant: refuses one element early.
EnqueueRefusedEarly(p) ==
    /\ pc[p] = "check"
    /\ GetIndex(old_tail[p] + 2) = GetIndex(head)
    /\ Goto(p, "idle")
    /\ UNCHANGED <<sharedVars, producerVars, consumerVars>>

\* The queue is full: return false.
EnqueueRefused(p) ==
    /\ pc[p] = "check"
    /\ GetIndex(old_tail[p] + 1) = GetIndex(head)
    /\ Goto(p, "idle")
    /\ UNCHANGED <<sharedVars, producerVars, consumerVars>>

CheckRoom(p) ==
    /\ pc[p] = "check"
    /\ GetIndex(old_tail[p] + 1) # GetIndex(head)
    /\ Goto(p, "cas")
    /\ UNCHANGED <<sharedVars, producerVars, consumerVars>>

DrawTicket(p) ==
    /\ pc[p] = "cas"
    /\ tail = old_tail[p]
    /\ tail <= MaxTickets
    /\ tail' = old_tail[p] + 1
    /\ Goto(p, "low")
    /\ UNCHANGED <<head, commit, low, high, old_tail, element, consumerVars>>

\* tail_ has moved since it was loaded.
DrawTicketFails(p) ==
    /\ pc[p] = "cas"
    /\ tail # old_tail[p]
    /\ old_tail' = [old_tail EXCEPT ![p] = tail]
    /\ Goto(p, "check")
    /\ UNCHANGED <<sharedVars, element, consumerVars>>

\* compare_exchange_weak may also fail when it has not.
DrawTicketSpurious(p) ==
    /\ pc[p] = "cas"
    /\ tail = old_tail[p]
    /\ Goto(p, "check")
    /\ UNCHANGED <<sharedVars, producerVars, consumerVars>>

StoreLow(p) ==
    /\ pc[p] = "low"
    /\ low' = [low EXCEPT ![GetIndex(old_tail[p])] = element[p]]
    /\ Goto(p, "high")
    /\ UNCHANGED <<head, tail, commit, high, producerVars, consumerVars>>

StoreHigh(p) ==
    /\ pc[p] = "high"
    /\ high' = [high EXCEPT ![GetIndex(old_tail[p])] = element[p]]
    /\ Goto(p, "commit")
    /\ UNCHANGED <<head, tail, commit, low, producerVars, consumerVars>>

\* It waits for the producers with smaller tickets.
Commit(p) ==
    /\ pc[p] = "commit"
    /\ commit = old_tail[p]
    /\ commit' = old_tail[p] + 1
    /\ Goto(p, "idle")
    /\ UNCHANGED <<head, tail, low, high, producerVars, consumerVars>>

-----------------------------------------------------------------------------
(* Dequeue *)

BeginDequeue(c) ==
    /\ pc[c] = "idle"
    /\ old_head' = [old_head EXCEPT ![c] = head]
    /\ Goto(c, "check")
    /\ UNCHANGED <<sharedVars, producerVars, out_low, out_high, taken>>

\* The queue is empty: return false.
DequeueRefused(c) ==
    /\ pc[c] = "check"
    /\ old_head[c] + 1 = commit
    /\ Goto(c, "idle")
    /\ UNCHANGED <<sharedVars, producerVars, consumerVars>>

CheckElement(c) ==
    /\ pc[c] = "check"
    /\ old_head[c] + 1 # commit
    /\ Goto(c, "low")
    /\ UNCHANGED <<sharedVars, producerVars, consumerVars>>

CopyLow(c) ==
    /\ pc[c] = "low"
    /\ out_low' = [out_low EXCEPT ![c] = low[GetIndex(old_head[c] + 1)]]
    /\ Goto(c, "high")
    /\ UNCHANGED <<sharedVars, producerVars, old_head, out_high, taken>>

CopyHigh(c) ==
    /\ pc[c] = "high"
    /\ out_high' = [out_high EXCEPT ![c] = high[GetIndex(old_head[c] + 1)]]
    /\ Goto(c, "cas")
    /\ UNCHANGED <<sharedVars, producerVars, old_head, out_low, taken>>

\* Mutant: a plain store instead of a compare-and-swap.
AdvanceHeadStores(c) ==
    /\ pc[c] = "cas"
    /\ head' = old_head[c] + 1
    /\ taken' = [taken EXCEPT ![c] = out_low[c]]
    /\ Goto(c, "idle")
    /\ UNCHANGED <<tail, commit, low, high, producerVars, old_head, out_low, out_high>>

AdvanceHead(c) ==
    /\ pc[c] = "cas"
    /\ head = old_head[c]
    /\ head' = old_head[c] + 1
    /\ taken' = [taken EXCEPT ![c] = out_low[c]]
    /\ Goto(c, "idle")
    /\ UNCHANGED <<tail, commit, low, high, producerVars, old_head, out_low, out_high>>

\* Mutant: tries again with the old value of head_.
AdvanceHeadFailsForever(c) ==
    /\ pc[c] = "cas"
    /\ head # old_head[c]
    /\ Goto(c, "check")
    /\ UNCHANGED <<sharedVars, producerVars, consumerVars>>

\* head_ has moved: the copy is thrown away.
AdvanceHeadFails(c) ==
    /\ pc[c] = "cas"
    /\ head # old_head[c]
    /\ old_head' = [old_head EXCEPT ![c] = head]
    /\ Goto(c, "check")
    /\ UNCHANGED <<sharedVars, producerVars, out_low, out_high, taken>>

AdvanceHeadSpurious(c) ==
    /\ pc[c] = "cas"
    /\ head = old_head[c]
    /\ Goto(c, "check")
    /\ UNCHANGED <<sharedVars, producerVars, consumerVars>>

-----------------------------------------------------------------------------
EnqueueStep(p) ==
    \/ EnqueueRefused(p) \/ CheckRoom(p) \/ DrawTicket(p) \/ DrawTicketFails(p)
    \/ StoreLow(p) \/ StoreHigh(p) \/ Commit(p)

DequeueStep(c) ==
    \/ DequeueRefused(c) \/ CheckElement(c) \/ CopyLow(c) \/ CopyHigh(c)
    \/ AdvanceHead(c) \/ AdvanceHeadFails(c)

Next ==
    \/ \E p \in Producers : \/ \E e \in Element : BeginEnqueue(p, e)
                            \/ DrawTicketSpurious(p) \/ EnqueueStep(p)
    \/ \E c \in Consumers : BeginDequeue(c) \/ AdvanceHeadSpurious(c) \/ DequeueStep(c)

Spec == Init /\ [][Next]_vars

\* A thread that is inside Enqueue or Dequeue goes on; nobody has to call
\* them.
FairSpec ==
    /\ Spec
    /\ \A p \in Producers : WF_vars(EnqueueStep(p))
    /\ \A c \in Consumers : WF_vars(DequeueStep(c))

-----------------------------------------------------------------------------
(* Properties *)

Word == Element \cup {NoElement}

TypeOK ==
    /\ head \in 0 .. MaxTickets /\ tail \in 1 .. MaxTickets + 1 /\ commit \in 1 .. MaxTickets + 1
    /\ low \in [Slot -> Word] /\ high \in [Slot -> Word]
    /\ pc \in [Thread -> {"idle", "check", "cas", "low", "high", "commit"}]
    /\ old_tail \in [Producers -> 0 .. MaxTickets + 1] /\ element \in [Producers -> Word]
    /\ old_head \in [Consumers -> 0 .. MaxTickets] /\ taken \in [Consumers -> Word]
    /\ out_low \in [Consumers -> Word] /\ out_high \in [Consumers -> Word]

\* The three counters keep their order and the ring is never overfilled,
\* although the test for room compares two indexes that are taken at
\* different moments and are only equal modulo pool_size_.
CountersInOrder ==
    /\ head < commit
    /\ commit <= tail
    /\ tail - head < pool_size

\* The elements that consumers can see.
Content == [i \in 1 .. commit - head - 1 |-> low[GetIndex(head + i)]]

\* The queue implements the abstract FIFO queue: an element goes in when its
\* ticket is committed and comes out when head_ moves past it.
Fifo == INSTANCE FifoQueue WITH Element <- Word, Capacity <- InitSize, queue <- Content
ImplementsFifo == Fifo!Spec

\* What Dequeue hands over has been copied while its slot was left alone: its
\* two words belong to the same Enqueue.
DequeuedIsWhole ==
    [][\A c \in Consumers : head' # head /\ pc[c] = "cas" /\ pc'[c] = "idle"
            => out_low[c] = out_high[c] /\ out_low[c] \in Element]_vars

\* Dequeue says that the queue is empty only when it is, although it compares
\* a head_ that it loaded earlier with a commit_ that it loads now.
EmptyIsEmpty ==
    [][\A c \in Consumers : pc[c] = "check" /\ pc'[c] = "idle" => commit = head + 1]_vars

\* Enqueue refuses only when the queue is full, or when consumers have since
\* taken every element up to the ticket it was about to draw: its old value of
\* tail_ then meets head_ in the ring although there may be room.
RefusedWhenFull ==
    [][\A p \in Producers :
          pc[p] = "check" /\ pc'[p] = "idle" => Full \/ head > old_tail[p]]_vars

\* As long as somebody is in Dequeue and there is something to take, elements
\* are taken: the consumers may make each other try again, but not all of them.
\* Only spurious failures without end can keep them from it.
SomebodyTakes ==
    \/ []<>(commit = head + 1 \/ \A c \in Consumers : pc[c] = "idle")
    \/ []<><<\E c \in Consumers : AdvanceHead(c) \/ AdvanceHeadSpurious(c)>>_vars
=============================================================================
