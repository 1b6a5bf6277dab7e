--------------------------- MODULE UnboundedQueue ---------------------------
(***************************************************************************)
(* The linked queue of base/unbounded_queue.h.  A node is memory: Enqueue  *)
(* allocates it, the second of its two references to be released deletes   *)
(* it, and its address may then be used again.                             *)
(*                                                                         *)
(* release() runs without a guard: a thread that has decremented the count *)
(* loads it in a step of its own, when the other thread may have deleted   *)
(* the node.  A thread that has a pointer to a deleted node is stale; what *)
(* it does with the pointer is undefined, so the model records it in fault *)
(* and goes no further.                                                    *)
(*                                                                         *)
(* list_pc[t]: "idle"; "cas", before the compare-and-swap; "link", before  *)
(* old_tail->next = node; "read", before old_head->next; "copy", before    *)
(* the element is copied; "count", before size_; "release", "test",        *)
(* "delete": in release()                                                  *)
(***************************************************************************)
EXTENDS Integers, Sequences, FiniteSets

CONSTANTS Enqueuers, Dequeuers,
          Nodes,      \* the addresses of nodes
          NoNode,
          MaxCalls,   \* bound: calls per thread
          MaxClears,  \* bound: calls of Clear
          SizeLimit   \* bound: size_ counts modulo SizeLimit, in the code 2^64

ASSUME ListAssumption ==
    /\ IsFiniteSet(Enqueuers) /\ IsFiniteSet(Dequeuers) /\ IsFiniteSet(Nodes)
    /\ Enqueuers \cap Dequeuers = {} /\ NoNode \notin Nodes
    /\ MaxCalls \in Nat /\ MaxClears \in Nat /\ SizeLimit \in Nat \ {0}

Threads == Enqueuers \cup Dequeuers
Elements == (Threads \X (1 .. MaxCalls)) \cup {NoNode}

VARIABLES
    list_head, list_tail, size,
    live,               \* the addresses that are allocated
    data, next_node, refs,   \* the fields of the nodes
    list_pc, calls, clears,
    old,                \* old_tail and old_head
    node,               \* node and head_next
    received,   \* *element
    stale,      \* history: threads with a pointer to a node deleted since
    fault,      \* history: the use that was made of such a pointer
    chain,      \* history: the nodes from head_ on, in the order in which tail_ was moved
    list_taken, \* history: the element in the node that head_ was moved to
    refused     \* history: consumers whose last Dequeue has returned false

nodeVars == <<live, data, next_node, refs>>
localVars == <<old, node, received>>
historyVars == <<chain, list_taken, refused>>
unboundedVars == <<list_head, list_tail, size, nodeVars, list_pc, calls, clears, localVars, stale, fault, historyVars>>

ListInit ==
    /\ \E n \in Nodes : list_head = n /\ list_tail = n /\ live = {n} /\ chain = <<n>>
    /\ size = 0
    /\ data = [n \in Nodes |-> NoNode] /\ next_node = [n \in Nodes |-> NoNode]
    /\ refs = [n \in Nodes |-> 2]
    /\ list_pc = [t \in Threads |-> "idle"] /\ calls = [t \in Threads |-> 0] /\ clears = 0
    /\ old = [t \in Threads |-> NoNode] /\ node = [t \in Threads |-> NoNode]
    /\ received = [t \in Threads |-> NoNode]
    /\ stale = {} /\ fault = "none"
    /\ list_taken = [c \in Dequeuers |-> NoNode] /\ refused = {}

ListGoto(t, s) == list_pc' = [list_pc EXCEPT ![t] = s]

At(t, s) == fault = "none" /\ list_pc[t] = s

\* What thread t does next with its pointer to a node.
Use(t) ==
    CASE list_pc[t] \in {"read", "link"} -> "next"
      [] list_pc[t] = "copy" -> "data"
      [] list_pc[t] \in {"release", "test", "delete"} -> "release"
      [] t \in Dequeuers /\ list_pc[t] = "cas" /\ list_head = old[t] -> "head"
      [] OTHER -> "none"

\* The node is gone, and if its address is in use again it is another node.
UseDeletedNode(t) ==
    /\ fault = "none"
    /\ t \in stale /\ Use(t) # "none"
    /\ fault' = Use(t)
    /\ UNCHANGED <<list_head, list_tail, size, nodeVars, list_pc, calls, clears, localVars, stale, historyVars>>

Uses(t) == t \notin stale /\ UNCHANGED fault

-----------------------------------------------------------------------------
(* Enqueue *)

AllocateNode(p) ==
    /\ At(p, "idle") /\ calls[p] < MaxCalls
    /\ \E n \in Nodes \ live :
        /\ live' = live \cup {n}
        /\ data' = [data EXCEPT ![n] = <<p, calls[p] + 1>>]
        /\ next_node' = [next_node EXCEPT ![n] = NoNode]
        /\ refs' = [refs EXCEPT ![n] = 2]
        /\ node' = [node EXCEPT ![p] = n]
    /\ calls' = [calls EXCEPT ![p] = @ + 1]
    /\ old' = [old EXCEPT ![p] = list_tail]
    /\ ListGoto(p, "cas")
    /\ UNCHANGED <<list_head, list_tail, size, clears, received, stale, fault, historyVars>>

\* Mutant: a plain store.
MoveTailAnyway(p) ==
    /\ At(p, "cas")
    /\ list_tail' = node[p]
    /\ chain' = Append(chain, node[p])
    /\ stale' = stale \ {p}
    /\ ListGoto(p, "link")
    /\ UNCHANGED <<list_head, size, nodeVars, calls, clears, localVars, fault, list_taken, refused>>

\* A node that is gone and back is as good a tail: only its address counts.
MoveTail(p) ==
    /\ At(p, "cas")
    /\ list_tail = old[p]
    /\ list_tail' = node[p]
    /\ chain' = Append(chain, node[p])
    /\ stale' = stale \ {p}
    /\ ListGoto(p, "link")
    /\ UNCHANGED <<list_head, size, nodeVars, calls, clears, localVars, fault, list_taken, refused>>

MoveTailFails(p) ==
    /\ At(p, "cas")
    /\ list_tail # old[p]
    /\ old' = [old EXCEPT ![p] = list_tail]
    /\ stale' = stale \ {p}
    /\ UNCHANGED <<list_head, list_tail, size, nodeVars, list_pc, calls, clears, node, received, fault, historyVars>>

LinkNode(p) ==
    /\ At(p, "link")
    /\ Uses(p)
    /\ next_node' = [next_node EXCEPT ![old[p]] = node[p]]
    /\ ListGoto(p, "release")
    /\ UNCHANGED <<list_head, list_tail, size, live, data, refs, calls, clears, localVars, stale, historyVars>>

CountUp(p) ==
    /\ p \in Enqueuers /\ At(p, "count")
    /\ size' = (size + 1) % SizeLimit
    /\ ListGoto(p, "idle")
    /\ UNCHANGED <<list_head, list_tail, nodeVars, calls, clears, localVars, stale, fault, historyVars>>

-----------------------------------------------------------------------------
(* Dequeue *)

LoadHead(c) ==
    /\ At(c, "idle") /\ calls[c] < MaxCalls
    /\ calls' = [calls EXCEPT ![c] = @ + 1]
    /\ old' = [old EXCEPT ![c] = list_head]
    /\ refused' = refused \ {c}
    /\ ListGoto(c, "read")
    /\ UNCHANGED <<list_head, list_tail, size, nodeVars, clears, node, received, stale, fault, chain, list_taken>>

ReadNext(c) ==
    /\ At(c, "read")
    /\ Uses(c)
    /\ node' = [node EXCEPT ![c] = next_node[old[c]]]
    /\ IF next_node[old[c]] = NoNode
       THEN refused' = refused \cup {c} /\ ListGoto(c, "idle")
       ELSE ListGoto(c, "cas") /\ UNCHANGED refused
    /\ UNCHANGED <<list_head, list_tail, size, nodeVars, calls, clears, old, received, stale, chain, list_taken>>

MoveHead(c) ==
    /\ At(c, "cas")
    /\ list_head = old[c]
    /\ Uses(c)
    /\ list_head' = node[c]
    /\ list_taken' = [list_taken EXCEPT ![c] = data[node[c]]]
    /\ chain' = Tail(chain)
    /\ ListGoto(c, "copy")
    /\ UNCHANGED <<list_tail, size, nodeVars, calls, clears, localVars, stale, refused>>

MoveHeadFails(c) ==
    /\ At(c, "cas")
    /\ list_head # old[c]
    /\ old' = [old EXCEPT ![c] = list_head]
    /\ stale' = stale \ {c}
    /\ ListGoto(c, "read")
    /\ UNCHANGED <<list_head, list_tail, size, nodeVars, calls, clears, node, received, fault, historyVars>>

CopyElement(c) ==
    /\ At(c, "copy")
    /\ Uses(c)
    /\ received' = [received EXCEPT ![c] = data[node[c]]]
    /\ ListGoto(c, "count")
    /\ UNCHANGED <<list_head, list_tail, size, nodeVars, calls, clears, old, node, stale, historyVars>>

CountDown(c) ==
    /\ c \in Dequeuers /\ At(c, "count")
    /\ size' = (size - 1) % SizeLimit
    /\ ListGoto(c, "release")
    /\ UNCHANGED <<list_head, list_tail, nodeVars, calls, clears, localVars, stale, fault, historyVars>>

-----------------------------------------------------------------------------
(* Node::release *)

Decrement(t) ==
    /\ At(t, "release")
    /\ Uses(t)
    /\ refs' = [refs EXCEPT ![old[t]] = @ - 1]
    /\ ListGoto(t, "test")
    /\ UNCHANGED <<list_head, list_tail, size, live, data, next_node, calls, clears, localVars, stale, historyVars>>

Released(t) == ListGoto(t, IF t \in Enqueuers THEN "count" ELSE "idle")

\* Mutant: the last reference but one deletes the node.
TestCountEarly(t) ==
    /\ At(t, "test")
    /\ Uses(t)
    /\ IF refs[old[t]] <= 1 THEN ListGoto(t, "delete") ELSE Released(t)
    /\ UNCHANGED <<list_head, list_tail, size, nodeVars, calls, clears, localVars, stale, historyVars>>

TestCount(t) ==
    /\ At(t, "test")
    /\ Uses(t)
    /\ IF refs[old[t]] = 0 THEN ListGoto(t, "delete") ELSE Released(t)
    /\ UNCHANGED <<list_head, list_tail, size, nodeVars, calls, clears, localVars, stale, historyVars>>

\* The threads that may still use a pointer to the node n.
Pointing(n) ==
    {t \in Threads : \/ old[t] = n /\ list_pc[t] # "idle" /\ ~(t \in Enqueuers /\ list_pc[t] = "count")
                     \/ node[t] = n /\ list_pc[t] \in {"cas", "link", "copy"}}

DeleteNode(t) ==
    /\ At(t, "delete")
    /\ Uses(t)
    /\ live' = live \ {old[t]}
    /\ stale' = stale \cup (Pointing(old[t]) \ {t})
    /\ Released(t)
    /\ UNCHANGED <<list_head, list_tail, size, data, next_node, refs, calls, clears, localVars, historyVars>>

-----------------------------------------------------------------------------
Quiet == fault = "none" /\ \A t \in Threads : list_pc[t] = "idle"

\* The nodes from n on, by next: what Destroy deletes.
Reached(n) ==
    {m \in Nodes :
        \A S \in SUBSET Nodes :
            (n \in S /\ \A k \in S : next_node[k] # NoNode => next_node[k] \in S) => m \in S}

Destroyed == Reached(list_head)

ResetSize == size' = 0

\* Destroy and Reset, which no other call may accompany.
Clear ==
    /\ Quiet
    /\ clears < MaxClears /\ clears' = clears + 1
    /\ \E n \in Nodes \ (live \ Destroyed) :
        /\ list_head' = n /\ list_tail' = n /\ chain' = <<n>>
        /\ live' = (live \ Destroyed) \cup {n}
        /\ next_node' = [next_node EXCEPT ![n] = NoNode] /\ refs' = [refs EXCEPT ![n] = 2]
    /\ ResetSize
    /\ UNCHANGED <<data, list_pc, calls, localVars, stale, fault, list_taken, refused>>

\* Also a use of a deleted node anywhere else.
release(t) == Decrement(t) \/ TestCount(t) \/ DeleteNode(t) \/ UseDeletedNode(t)

EnqueueOn(p) ==
    \/ MoveTail(p) \/ MoveTailFails(p) \/ LinkNode(p) \/ release(p) \/ CountUp(p)

DequeueOn(c) ==
    \/ ReadNext(c) \/ MoveHead(c) \/ MoveHeadFails(c)
    \/ CopyElement(c) \/ CountDown(c) \/ release(c)

ListNext ==
    \/ \E p \in Enqueuers : AllocateNode(p) \/ EnqueueOn(p)
    \/ \E c \in Dequeuers : LoadHead(c) \/ DequeueOn(c)
    \/ Clear

ListSpec == ListInit /\ [][ListNext]_unboundedVars

-----------------------------------------------------------------------------
(* Properties *)

ListTypeOK ==
    /\ list_head \in Nodes /\ list_tail \in Nodes
    /\ size \in 0 .. SizeLimit - 1
    /\ live \in SUBSET Nodes
    /\ data \in [Nodes -> Elements]
    /\ next_node \in [Nodes -> Nodes \cup {NoNode}]
    /\ refs \in [Nodes -> 0 .. 2]
    /\ list_pc \in [Threads -> {"idle", "cas", "link", "read", "copy", "count", "release", "test", "delete"}]
    /\ calls \in [Threads -> 0 .. MaxCalls] /\ clears \in 0 .. MaxClears
    /\ old \in [Threads -> Nodes \cup {NoNode}] /\ node \in [Threads -> Nodes \cup {NoNode}]
    /\ received \in [Threads -> Elements]
    /\ stale \in SUBSET Threads /\ fault \in {"none", "next", "head", "data", "release"}
    /\ chain \in Seq(Nodes) /\ list_taken \in [Dequeuers -> Elements]
    /\ refused \in SUBSET Dequeuers

\* Elements leave in the order in which producers moved tail_, each of them
\* once, although a node may be reached only some time after it became last.
\* Clear drops what is inside.
Inside == [i \in 1 .. Len(chain) - 1 |-> data[chain[i + 1]]]

ListFifo == INSTANCE FifoQueue WITH
    Consumers <- Dequeuers, Element <- Elements, queue <- Inside, taken <- list_taken, Capacity <- Cardinality(Nodes)

ListIsFifo ==
    /\ ListFifo!Init
    /\ [][ListFifo!Next \/ (Quiet /\ Inside' = <<>> /\ UNCHANGED list_taken)]_<<Inside, list_taken>>

\* A call of Dequeue that has copied an element has copied the one it took: the
\* node that became the head is not deleted in between.
CopiedIsTaken ==
    fault = "none" =>
        \A c \in Dequeuers :
            (list_pc[c] \in {"count", "release", "test", "delete"}) => received[c] = list_taken[c]

\* No node leaks: when no call is under way, the nodes that are allocated are
\* the sentinel and one for each element.
AllReclaimed ==
    Quiet => live = Reached(list_head) /\ Cardinality(live) = Len(Inside) + 1

\* size_ is adjusted after the fact and may wrap, but only by the calls that are
\* under way: when all have returned it is the number of elements.
Counting(T, states) == Cardinality({t \in T : list_pc[t] \in states})

SizeAccounts ==
    fault = "none" =>
        size = (Len(Inside)
                  + Counting(Dequeuers, {"copy", "count"})
                  - Counting(Enqueuers, {"link", "release", "test", "delete", "count"})) % SizeLimit

\* Dequeue reports an empty queue only if it is, or if a producer has moved
\* tail_ and has not linked its node yet.
RefusesWhenUnlinked ==
    [][\A c \in Dequeuers :
        (c \notin refused /\ c \in refused') =>
            Inside = <<>> \/ \E p \in Enqueuers : list_pc[p] = "link"]_unboundedVars

\* As long as one thread consumes, the unguarded test in release() is the only
\* place where a node is used that another thread has deleted: next and data
\* are read, and head_ is moved, while the nodes are there.
OneConsumes == \A c, d \in Dequeuers : calls[c] > 0 /\ calls[d] > 0 => c = d

OnlyReleaseIsUndefined == OneConsumes => fault \in {"none", "release"}

\* With one consumer only release() uses a node that is gone.  With two, Dequeue
\* does so, too; but until that happens Dequeue copies the element it took, no node
\* leaks, and size_ is exact up to the calls under way.
OneConsumerIsSafe ==
    OnlyReleaseIsUndefined /\ ListTypeOK /\ CopiedIsTaken /\ AllReclaimed /\ SizeAccounts

\* The list is a FIFO queue, too, from which Clear drops what is inside; and it
\* reports that it is empty only if it is, or while a producer has not linked
\* its node.
ListImplementsFifo == ListIsFifo /\ RefusesWhenUnlinked
=============================================================================
