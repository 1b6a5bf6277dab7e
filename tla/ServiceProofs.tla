--------------------------- MODULE ServiceProofs ----------------------------
(***************************************************************************)
(* Proofs about BoundedQueue, for any threads, any elements, any size and  *)
(* any number of tickets, about the ThreadPool over such a queue, for any  *)
(* clients, workers and tasks, about the MulticastNotifier, for any        *)
(* threads, announcements and descriptors, and about the Logger, for any   *)
(* threads, lengths and numbers of lines.                                  *)
(*                                                                         *)
(* Queue.                                                                  *)
(* The slots of a window of fewer than pool_size consecutive tickets are   *)
(* distinct (IndexDiffers).  CountersInOrder keeps the tickets between     *)
(* head and tail in such a window, so that a producer that holds a ticket  *)
(* never stores into a committed slot, and the slot a consumer copies from *)
(* does not change while head_ is the value it has loaded.  Room carries   *)
(* the test for room, made with an old value of head_, over to the         *)
(* compare-and-swap on tail_.                                              *)
(*                                                                         *)
(* Pool.  The task of a client that is inside Enqueue is nobody else's and *)
(* has not gone into the queue, so each step that hands a task on adds it  *)
(* at one place and removes it at one.                                     *)
(*                                                                         *)
(* Multicast.  The exchange on is_shutdown_ lets one thread through to the *)
(* closing, and how far it has come says for which sockets the fields      *)
(* stand (Progress); before that they are the sockets, so what a call has  *)
(* read is its own (InHand).                                               *)
(*                                                                         *)
(* Logger.  The files that can be found grow in number and in length, so a *)
(* line that is whole in one stays so (KeptStays); who has not been raced  *)
(* is alone between his first part and his return (LogsAlone), so he ends  *)
(* the file of m_fout with what he has written (WrittenSoFar).             *)
(***************************************************************************)
EXTENDS BoundedQueue, ThreadPool, MulticastNotifier, Logger, SequenceTheorems, FiniteSetTheorems, TLAPS

-----------------------------------------------------------------------------
(* Indexes *)

LEMMA Division ==
    ASSUME NEW N \in Nat \ {0}, NEW a \in Nat
    PROVE  /\ a % N \in 0 .. N - 1
           /\ a \div N \in Nat
           /\ a = N * (a \div N) + (a % N)
BY SMT

LEMMA Multiples ==
    ASSUME NEW N \in Nat \ {0}, NEW x \in Int, NEW y \in Int, x < y
    PROVE  N * y - N * x >= N
<1>1. N * y - N * x = N * (y - x)
  BY SMT
<1>2. y - x >= 1
  BY SMT
<1>3. N * (y - x) >= N
  BY <1>2, SMT
<1>. QED  BY <1>1, <1>3, SMT

\* Two tickets less than N apart are in different slots of a ring of N.
LEMMA Modulo ==
    ASSUME NEW N \in Nat \ {0}, NEW a \in Nat, NEW b \in Nat, a < b
    PROVE  /\ b - a < N => a % N # b % N
           /\ b - a = N => a % N = b % N
<1>. DEFINE x == a \div N
            y == b \div N
            X == N * x
            Y == N * y
            r == a % N
            s == b % N
<1>1. /\ x \in Nat /\ a = X + r /\ r \in 0 .. N - 1
      /\ y \in Nat /\ b = Y + s /\ s \in 0 .. N - 1
  BY Division
<1>2. X \in Nat /\ Y \in Nat
  BY <1>1, SMT
<1>3. x < y => Y - X >= N
  BY <1>1, Multiples
<1>4. y < x => X - Y >= N
  BY <1>1, Multiples
<1>5. x = y => X = Y
  OBVIOUS
<1>6. x + 1 < y => Y - X >= 2 * N
  <2>1. x + 1 < y => Y - N * (x + 1) >= N
    BY <1>1, Multiples
  <2>2. N * (x + 1) = X + N
    BY <1>1, SMT
  <2>. HIDE DEF X, Y
  <2>. QED  BY <1>2, <2>1, <2>2, SMT
<1>7. y = x + 1 => Y = X + N
  <2>1. N * (x + 1) = N * x + N
    BY <1>1, SMT
  <2>. QED  BY <2>1
<1>. HIDE DEF x, y, X, Y, r, s
<1>8. b - a < N => r # s
  BY <1>1, <1>2, <1>3, <1>4, <1>5, SMT
<1>9. b - a = N => r = s
  <2>1. x = y \/ y < x \/ y = x + 1 \/ x + 1 < y
    BY <1>1, SMT
  <2>. QED  BY <1>1, <1>2, <1>4, <1>5, <1>6, <1>7, <2>1, SMT
<1>. QED  BY <1>8, <1>9 DEF r, s

LEMMA PoolSize == pool_size \in Nat \ {0} /\ pool_size >= 3 /\ InitSize = pool_size - 2
BY SizesAssumption DEF pool_size

LEMMA IndexInSlot == \A k \in Nat : GetIndex(k) \in Slot
BY PoolSize, Division DEF GetIndex, Slot

LEMMA IndexDiffers ==
    \A a, b \in Nat : a < b /\ b - a < pool_size => GetIndex(a) # GetIndex(b)
BY PoolSize, Modulo DEF GetIndex

LEMMA IndexWraps ==
    \A a, b \in Nat : b - a = pool_size => GetIndex(a) = GetIndex(b)
<1>. SUFFICES ASSUME NEW a \in Nat, NEW b \in Nat, b - a = pool_size
              PROVE  GetIndex(a) = GetIndex(b)
  OBVIOUS
<1>1. a < b
  BY PoolSize
<1>. QED  BY <1>1, PoolSize, Modulo DEF GetIndex

-----------------------------------------------------------------------------
(* The inductive invariant *)

Holding(p) == pc[p] \in {"low", "high", "commit"}

\* Every thread is where its kind of thread can be.
Places ==
    /\ \A p \in Producers : pc[p] \in {"idle", "check", "cas", "low", "high", "commit"}
    /\ \A c \in Consumers : pc[c] \in {"idle", "check", "cas", "low", "high"}
    /\ \A p \in Producers : pc[p] # "idle" => element[p] \in Element

\* Tickets between commit and tail belong to one producer each.
Tickets ==
    /\ \A p \in Producers : old_tail[p] <= tail
    /\ \A p \in Producers : Holding(p) => commit <= old_tail[p] /\ old_tail[p] < tail
    /\ \A p, q \in Producers : Holding(p) /\ Holding(q) /\ p # q => old_tail[p] # old_tail[q]

\* The room that was found is still there when tail_ is swapped.
Room ==
    \A p \in Producers :
        pc[p] = "cas" /\ old_tail[p] = tail => tail + 1 - head < pool_size

\* What a producer has stored stays in its slot.
Stored ==
    \A p \in Producers :
        /\ pc[p] \in {"high", "commit"} => low[GetIndex(old_tail[p])] = element[p]
        /\ pc[p] = "commit" => high[GetIndex(old_tail[p])] = element[p]

\* Committed elements are whole.
Whole ==
    \A k \in Nat : head < k /\ k < commit =>
        low[GetIndex(k)] = high[GetIndex(k)] /\ low[GetIndex(k)] \in Element

\* A consumer whose head is still current has copied the current words.
Copies ==
    /\ \A c \in Consumers : old_head[c] <= head
    /\ \A c \in Consumers : pc[c] \in {"low", "high", "cas"} => old_head[c] + 1 < commit
    /\ \A c \in Consumers : old_head[c] = head =>
          /\ pc[c] \in {"high", "cas"} => out_low[c] = low[GetIndex(head + 1)]
          /\ pc[c] = "cas" => out_high[c] = high[GetIndex(head + 1)]

IInv ==
    /\ TypeOK /\ CountersInOrder
    /\ Places /\ Tickets /\ Room /\ Stored /\ Whole /\ Copies

LEMMA InitIInv == Init => IInv
BY ThreadsAssumption, SizesAssumption, PoolSize
   DEF Init, IInv, TypeOK, CountersInOrder, Places, Tickets, Room, Stored, Whole, Copies,
       Holding, Thread, Word, Slot

USE ThreadsAssumption, SizesAssumption, PoolSize DEF Thread, Word, Goto

LEMMA Step ==
    ASSUME IInv, Next
    PROVE IInv'
<1>. USE DEF IInv
<1>1. ASSUME NEW p \in Producers, NEW e \in Element, BeginEnqueue(p, e)
      PROVE  IInv'
  <2>. USE <1>1 DEF BeginEnqueue, sharedVars, consumerVars
  <2>1. TypeOK' /\ CountersInOrder'
    BY DEF TypeOK, CountersInOrder, Full
  <2>2. Places' /\ Tickets' /\ Room'
    BY DEF TypeOK, CountersInOrder, Places, Tickets, Room, Holding
  <2>3. Stored' /\ Whole' /\ Copies'
    BY DEF TypeOK, Stored, Whole, Copies
  <2>. QED  BY <2>1, <2>2, <2>3
<1>2. ASSUME NEW p \in Producers, EnqueueRefused(p) \/ DrawTicketSpurious(p)
             \/ DrawTicketFails(p)
      PROVE  IInv'
  BY <1>2 DEF EnqueueRefused, DrawTicketSpurious, DrawTicketFails, sharedVars,
         producerVars, consumerVars,
         TypeOK, CountersInOrder, Places, Tickets, Room, Stored, Whole, Copies, Holding
<1>3. ASSUME NEW p \in Producers, CheckRoom(p)
      PROVE  IInv'
  <2>. USE <1>3 DEF CheckRoom, sharedVars, producerVars, consumerVars
  <2>1. TypeOK' /\ CountersInOrder' /\ Places' /\ Tickets'
    BY DEF TypeOK, CountersInOrder, Places, Tickets, Holding
  <2>2. old_tail[p] = tail => tail + 1 - head < pool_size
    BY IndexWraps DEF TypeOK, CountersInOrder
  <2>3. Room'
    BY <2>2 DEF TypeOK, Room
  <2>4. Stored' /\ Whole' /\ Copies'
    BY DEF TypeOK, Stored, Whole, Copies
  <2>. QED  BY <2>1, <2>3, <2>4
<1>4. ASSUME NEW p \in Producers, DrawTicket(p) PROVE IInv'
  BY <1>4 DEF DrawTicket, consumerVars,
         TypeOK, CountersInOrder, Places, Tickets, Room, Stored, Whole, Copies, Holding
<1>5. ASSUME NEW p \in Producers, StoreLow(p)
      PROVE  IInv'
  <2>. USE <1>5 DEF StoreLow, producerVars, consumerVars
  <2>1. TypeOK' /\ CountersInOrder' /\ Places' /\ Tickets' /\ Room'
    BY IndexInSlot DEF TypeOK, CountersInOrder, Places, Tickets, Room, Holding
  <2>2. \A k \in Nat : head < k /\ k < tail /\ k # old_tail[p] =>
            GetIndex(k) # GetIndex(old_tail[p])
    <3>1. /\ old_tail[p] \in Nat /\ head < old_tail[p] /\ old_tail[p] < tail
          /\ head \in Nat /\ tail \in Nat /\ tail - head < pool_size
      BY DEF TypeOK, CountersInOrder, Tickets, Holding
    <3>2. ASSUME NEW k \in Nat, head < k, k < tail, k # old_tail[p]
          PROVE  GetIndex(k) # GetIndex(old_tail[p])
      <4>1. \/ k < old_tail[p] /\ old_tail[p] - k < pool_size
            \/ old_tail[p] < k /\ k - old_tail[p] < pool_size
        BY <3>1, <3>2
      <4>. QED  BY <3>1, <4>1, IndexDiffers
    <3>. QED  BY <3>2
  <2>3. \A k \in Nat : head < k /\ k < tail /\ k # old_tail[p] =>
            low'[GetIndex(k)] = low[GetIndex(k)]
    BY <2>2, IndexInSlot DEF TypeOK
  <2>4. low'[GetIndex(old_tail[p])] = element[p]
    BY IndexInSlot DEF TypeOK
  <2>5. Stored'
    BY <2>3, <2>4 DEF TypeOK, CountersInOrder, Tickets, Holding, Stored
  <2>6. Whole' /\ Copies'
    BY <2>3 DEF TypeOK, CountersInOrder, Tickets, Holding, Whole, Copies
  <2>. QED  BY <2>1, <2>5, <2>6
<1>6. ASSUME NEW p \in Producers, StoreHigh(p) PROVE IInv'
  BY <1>6, IndexDiffers, IndexInSlot DEF StoreHigh, producerVars, consumerVars,
         TypeOK, CountersInOrder, Places, Tickets, Room, Stored, Whole, Copies, Holding
<1>7. ASSUME NEW p \in Producers, Commit(p)
      PROVE  IInv'
  <2>. USE <1>7 DEF Commit, producerVars, consumerVars
  <2>1. TypeOK' /\ CountersInOrder' /\ Places'
    BY DEF TypeOK, CountersInOrder, Places, Tickets, Holding
  <2>2. Tickets'
    BY DEF TypeOK, Places, Tickets, Holding
  <2>3. Room' /\ Stored'
    BY DEF TypeOK, Places, Room, Stored
  <2>4. Whole'
    BY DEF TypeOK, Places, Tickets, Holding, Stored, Whole
  <2>5. Copies'
    BY DEF TypeOK, CountersInOrder, Tickets, Holding, Copies
  <2>. QED  BY <2>1, <2>2, <2>3, <2>4, <2>5
<1>8. ASSUME NEW c \in Consumers, BeginDequeue(c) \/ DequeueRefused(c)
             \/ CheckElement(c) \/ AdvanceHeadFails(c) \/ AdvanceHeadSpurious(c)
      PROVE  IInv'
  BY <1>8 DEF BeginDequeue, DequeueRefused, CheckElement, AdvanceHeadFails,
         AdvanceHeadSpurious, sharedVars, producerVars, consumerVars,
         TypeOK, CountersInOrder, Places, Tickets, Room, Stored, Whole, Copies, Holding
<1>9. ASSUME NEW c \in Consumers, CopyLow(c) \/ CopyHigh(c) PROVE IInv'
  BY <1>9, IndexInSlot DEF CopyLow, CopyHigh, sharedVars, producerVars, consumerVars,
         TypeOK, CountersInOrder, Places, Tickets, Room, Stored, Whole, Copies, Holding
<1>10. ASSUME NEW c \in Consumers, AdvanceHead(c) PROVE IInv'
  BY <1>10 DEF AdvanceHead, producerVars,
         TypeOK, CountersInOrder, Places, Tickets, Room, Stored, Whole, Copies, Holding
<1>. QED  BY <1>1, <1>2, <1>3, <1>4, <1>5, <1>6, <1>7, <1>8, <1>9, <1>10
         DEF Next, EnqueueStep, DequeueStep

USE DEF IInv

LEMMA Invariant == Spec => []IInv
<1>1. IInv /\ UNCHANGED vars => IInv'
  BY DEF vars, sharedVars, producerVars, consumerVars, TypeOK, CountersInOrder,
         Places, Tickets, Room, Stored, Whole, Copies, Holding
<1>. QED  BY InitIInv, Step, <1>1, PTL DEF Spec
-----------------------------------------------------------------------------
(* Theorems *)

\* The counters stay below the bound on tickets and every variable keeps its
\* type.
THEOREM TypeCorrect == Spec => []TypeOK
BY Invariant, PTL

\* head_ < commit_ <= tail_, and the ring is never overfilled.
THEOREM CountersCorrect == Spec => []CountersInOrder
BY Invariant, PTL

\* Dequeue never returns a torn element.
THEOREM DequeuesWhole == Spec => DequeuedIsWhole
<1>1. ASSUME IInv, [Next]_vars, NEW c \in Consumers,
             head' # head, pc[c] = "cas", pc'[c] = "idle"
      PROVE  out_low[c] = out_high[c] /\ out_low[c] \in Element
  <2>1. AdvanceHead(c)
    BY <1>1 DEF Next, EnqueueStep, DequeueStep, BeginEnqueue, EnqueueRefused, CheckRoom,
         DrawTicket, DrawTicketFails, DrawTicketSpurious, StoreLow, StoreHigh, Commit,
         BeginDequeue, DequeueRefused, CheckElement, CopyLow, CopyHigh, AdvanceHead,
         AdvanceHeadFails, AdvanceHeadSpurious,
         vars, sharedVars, TypeOK
  <2>2. head \in Nat /\ head < head + 1 /\ head + 1 < commit
    BY <1>1, <2>1 DEF AdvanceHead, Copies, TypeOK
  <2>3. low[GetIndex(head + 1)] = high[GetIndex(head + 1)] /\ low[GetIndex(head + 1)] \in Element
    BY <1>1, <2>2 DEF Whole
  <2>. QED  BY <1>1, <2>1, <2>3 DEF AdvanceHead, Copies
<1>2. IInv /\ [Next]_vars =>
        [\A c \in Consumers : head' # head /\ pc[c] = "cas" /\ pc'[c] = "idle"
            => out_low[c] = out_high[c] /\ out_low[c] \in Element]_vars
  BY <1>1
<1>. QED  BY <1>2, Invariant, PTL DEF Spec, DequeuedIsWhole

\* Dequeue finds the queue empty only when it is.
THEOREM EmptyCorrect == Spec => EmptyIsEmpty
<1>1. ASSUME IInv, [Next]_vars, NEW c \in Consumers, pc[c] = "check", pc'[c] = "idle"
      PROVE  commit = head + 1
  <2>1. DequeueRefused(c)
    BY <1>1 DEF Next, EnqueueStep, DequeueStep, BeginEnqueue, EnqueueRefused, CheckRoom,
         DrawTicket, DrawTicketFails, DrawTicketSpurious, StoreLow, StoreHigh, Commit,
         BeginDequeue, DequeueRefused, CheckElement, CopyLow, CopyHigh, AdvanceHead,
         AdvanceHeadFails, AdvanceHeadSpurious,
         vars, TypeOK
  <2>. QED  BY <1>1, <2>1 DEF DequeueRefused, Copies, TypeOK, CountersInOrder
<1>2. IInv /\ [Next]_vars =>
        [\A c \in Consumers : pc[c] = "check" /\ pc'[c] = "idle" => commit = head + 1]_vars
  BY <1>1
<1>. QED  BY <1>2, Invariant, PTL DEF Spec, EmptyIsEmpty

\* Enqueue refuses only when the queue is full, or when its old value of tail_
\* has been overtaken by head_.
THEOREM RefusalCorrect == Spec => RefusedWhenFull
<1>1. ASSUME IInv, [Next]_vars, NEW p \in Producers, pc[p] = "check", pc'[p] = "idle"
      PROVE  Full \/ head > old_tail[p]
  <2>1. EnqueueRefused(p)
    BY <1>1 DEF Next, EnqueueStep, DequeueStep, BeginEnqueue, EnqueueRefused, CheckRoom,
         DrawTicket, DrawTicketFails, DrawTicketSpurious, StoreLow, StoreHigh, Commit,
         BeginDequeue, DequeueRefused, CheckElement, CopyLow, CopyHigh, AdvanceHead,
         AdvanceHeadFails, AdvanceHeadSpurious, vars, TypeOK
  <2>2. /\ head \in Nat /\ tail \in Nat /\ old_tail[p] \in Nat
        /\ old_tail[p] <= tail /\ tail - head < pool_size
    BY <1>1 DEF TypeOK, CountersInOrder, Tickets
  <2>3. CASE head <= old_tail[p]
    <3>1. GetIndex(head) = GetIndex(old_tail[p] + 1)
      BY <2>1 DEF EnqueueRefused
    <3>2. old_tail[p] + 1 \in Nat /\ head < old_tail[p] + 1
      BY <2>2, <2>3
    <3>3. ~(old_tail[p] + 1 - head < pool_size)
      BY <2>2, <3>1, <3>2, IndexDiffers
    <3>. QED  BY <2>2, <2>3, <3>3 DEF Full
  <2>. QED  BY <2>2, <2>3
<1>2. IInv /\ [Next]_vars =>
        [\A p \in Producers :
            pc[p] = "check" /\ pc'[p] = "idle" => Full \/ head > old_tail[p]]_vars
  BY <1>1
<1>. QED  BY <1>2, Invariant, PTL DEF Spec, RefusedWhenFull

-----------------------------------------------------------------------------
(* Refinement *)

ContentIsSeq ==
    /\ Content \in Seq(Word)
    /\ Len(Content) = commit - head - 1
    /\ \A i \in 1 .. commit - head - 1 : Content[i] = low[GetIndex(head + i)]

LEMMA ContentSeq == IInv => ContentIsSeq
<1>. SUFFICES ASSUME IInv  PROVE ContentIsSeq
  OBVIOUS
<1>1. commit - head - 1 \in Nat /\ head \in Nat
  BY DEF TypeOK, CountersInOrder
<1>2. \A i \in 1 .. commit - head - 1 : low[GetIndex(head + i)] \in Word
  BY <1>1, IndexInSlot DEF TypeOK
<1>3. Content \in [1 .. commit - head - 1 -> Word]
  BY <1>2 DEF Content
<1>4. Content \in Seq(Word)
  BY <1>1, <1>3, SeqDef
<1>5. Len(Content) = commit - head - 1
  BY <1>1, <1>3, <1>4
<1>. QED  BY <1>4, <1>5 DEF Content, ContentIsSeq

LEMMA ContentSeqPrimed == IInv' => ContentIsSeq'
BY ContentSeq, PTL

\* A committed ticket puts one element in.
LEMMA CommitPuts ==
    ASSUME IInv, IInv', NEW p \in Producers, Commit(p)
    PROVE  Fifo!Put(element[p])
<1>. USE DEF Commit, consumerVars
<1>1. /\ head \in Nat /\ commit \in Nat /\ commit = old_tail[p] /\ commit' = commit + 1
      /\ head' = head /\ low' = low /\ taken' = taken
      /\ commit - head - 1 < InitSize /\ commit - head - 1 \in Nat
  BY DEF TypeOK, CountersInOrder, Tickets, Holding
<1>2. element[p] \in Word /\ low[GetIndex(commit)] = element[p]
  BY <1>1 DEF Places, Stored
<1>3. Append(Content, element[p]) \in Seq(Word)
  BY <1>2, ContentSeq DEF ContentIsSeq
<1>4. Len(Append(Content, element[p])) = commit - head
  BY <1>1, <1>2, ContentSeq DEF ContentIsSeq
<1>5. ASSUME NEW i \in 1 .. commit - head
      PROVE  Append(Content, element[p])[i] = low[GetIndex(head + i)]
  <2>1. CASE i = commit - head
    <3>0. Len(Content) = commit - head - 1 /\ head \in Nat /\ commit \in Nat
      BY <1>1, ContentSeq DEF ContentIsSeq
    <3>1. head + i = commit /\ i = Len(Content) + 1
      BY <2>1, <3>0
    <3>2. Append(Content, element[p])[i] = element[p]
      BY <1>2, <3>1, ContentSeq DEF ContentIsSeq
    <3>. QED  BY <1>2, <3>1, <3>2
  <2>2. CASE i # commit - head
    <3>1. /\ Len(Content) = commit - head - 1 /\ Content \in Seq(Word)
          /\ head \in Nat /\ commit \in Nat
      BY <1>1, ContentSeq DEF ContentIsSeq
    <3>2. i \in 1 .. commit - head - 1 /\ i \in 1 .. Len(Content)
      BY <2>2, <3>1
    <3>3. Append(Content, element[p])[i] = Content[i]
      BY <1>2, <3>1, <3>2
    <3>. QED  BY <3>2, <3>3, ContentSeq DEF ContentIsSeq
  <2>. QED  BY <2>1, <2>2
<1>6. Content' = Append(Content, element[p])
  <2>1. /\ Content' \in Seq(Word) /\ Len(Content') = commit - head
        /\ \A i \in 1 .. commit - head : Content'[i] = low[GetIndex(head + i)]
    <3>1. commit' - head' - 1 = commit - head
      BY <1>1
    <3>. QED  BY <1>1, <3>1, ContentSeqPrimed DEF ContentIsSeq
  <2>. QED  BY <1>3, <1>4, <1>5, <2>1, SeqEqual
<1>. QED  BY <1>1, <1>6, ContentSeq DEF ContentIsSeq, Fifo!Put

\* Moving head_ takes the oldest element out.
LEMMA AdvanceTakes ==
    ASSUME IInv, IInv', NEW c \in Consumers, AdvanceHead(c)
    PROVE  Fifo!Take(c)
<1>. USE DEF AdvanceHead
<1>1. /\ head \in Nat /\ commit \in Nat /\ head = old_head[c] /\ head' = head + 1
      /\ head + 1 < commit /\ commit' = commit /\ low' = low
  BY DEF TypeOK, Copies
<1>2. out_low[c] = low[GetIndex(head + 1)]
  BY <1>1 DEF Copies
<1>3. Content # <<>> /\ Head(Content) = out_low[c]
  <2>1. Len(Content) >= 1 /\ Content \in Seq(Word) /\ Content[1] = low[GetIndex(head + 1)]
    BY <1>1, ContentSeq DEF ContentIsSeq
  <2>. QED  BY <1>2, <2>1
<1>4. /\ Tail(Content) \in Seq(Word) /\ Len(Tail(Content)) = commit - head - 2
      /\ \A i \in 1 .. commit - head - 2 : Tail(Content)[i] = Content[i + 1]
  <2>1. /\ Len(Content) = commit - head - 1 /\ Content \in Seq(Word)
        /\ head \in Nat /\ commit \in Nat
    BY <1>1, ContentSeq DEF ContentIsSeq
  <2>2. /\ Tail(Content) \in Seq(Word) /\ Len(Tail(Content)) = Len(Content) - 1
        /\ \A i \in 1 .. Len(Tail(Content)) : Tail(Content)[i] = Content[i + 1]
    BY <1>3, <2>1, HeadTailProperties
  <2>. QED  BY <2>1, <2>2
<1>5. ASSUME NEW i \in 1 .. commit - head - 2
      PROVE  Tail(Content)[i] = low[GetIndex(head + 1 + i)]
  <2>1. i + 1 \in 1 .. commit - head - 1 /\ head + (i + 1) = head + 1 + i
    BY <1>1
  <2>. QED  BY <1>4, <2>1, ContentSeq DEF ContentIsSeq
<1>6. /\ Content' \in Seq(Word) /\ Len(Content') = commit - head - 2
      /\ \A i \in 1 .. commit - head - 2 : Content'[i] = low[GetIndex(head + 1 + i)]
  <2>1. commit' - head' - 1 = commit - head - 2
    BY <1>1
  <2>. QED  BY <1>1, <2>1, ContentSeqPrimed DEF ContentIsSeq
<1>7. Content' = Tail(Content)
  <2>1. \A i \in 1 .. Len(Content') : Content'[i] = Tail(Content)[i]
    BY <1>5, <1>6
  <2>. QED  BY <1>4, <1>6, <2>1, SeqEqual
<1>. QED  BY <1>3, <1>7 DEF Fifo!Take

\* No other step can be seen.
LEMMA OthersStutter ==
    ASSUME IInv, IInv', Next,
           \A p \in Producers : ~Commit(p), \A c \in Consumers : ~AdvanceHead(c)
    PROVE  UNCHANGED <<Content, taken>>
<1>1. head' = head /\ commit' = commit /\ taken' = taken
  BY DEF Next, EnqueueStep, DequeueStep, BeginEnqueue, EnqueueRefused, CheckRoom,
         DrawTicket, DrawTicketFails, DrawTicketSpurious, StoreLow, StoreHigh,
         BeginDequeue, DequeueRefused, CheckElement, CopyLow, CopyHigh,
         AdvanceHeadFails, AdvanceHeadSpurious,
         sharedVars, consumerVars
<1>2. ASSUME NEW i \in 1 .. commit - head - 1
      PROVE  low'[GetIndex(head + i)] = low[GetIndex(head + i)]
  <2>1. CASE low' = low
    BY <2>1
  <2>2. CASE low' # low
    <3>1. PICK p \in Producers : StoreLow(p)
      BY <2>2 DEF Next, EnqueueStep, DequeueStep, BeginEnqueue, EnqueueRefused, CheckRoom,
         DrawTicket, DrawTicketFails, DrawTicketSpurious, StoreHigh,
         BeginDequeue, DequeueRefused, CheckElement, CopyLow, CopyHigh,
         AdvanceHeadFails, AdvanceHeadSpurious,
         sharedVars, consumerVars
    <3>2. /\ head + i \in Nat /\ old_tail[p] \in Nat
          /\ head + i < old_tail[p] /\ old_tail[p] - (head + i) < pool_size
      BY <3>1 DEF StoreLow, TypeOK, CountersInOrder, Tickets, Holding
    <3>3. GetIndex(head + i) # GetIndex(old_tail[p])
      BY <3>2, IndexDiffers
    <3>. QED  BY <3>1, <3>2, <3>3, IndexInSlot DEF StoreLow, TypeOK
  <2>. QED  BY <2>1, <2>2
<1>3. Content' = Content
  BY <1>1, <1>2 DEF Content
<1>. QED  BY <1>1, <1>3

\* The ring is a FIFO queue: what is committed and not yet taken is the
\* content of the abstract queue.
THEOREM Refinement == Spec => ImplementsFifo
<1>1. Init => Fifo!Init
  BY DEF Init, Content, Fifo!Init
<1>2. IInv /\ IInv' /\ [Next]_vars => [Fifo!Next]_(Fifo!vars)
  <2>. SUFFICES ASSUME IInv, IInv', [Next]_vars  PROVE [Fifo!Next]_(Fifo!vars)
    OBVIOUS
  <2>1. CASE UNCHANGED vars
    BY <2>1 DEF vars, sharedVars, consumerVars, Fifo!vars, Content
  <2>2. ASSUME NEW p \in Producers, Commit(p)  PROVE Fifo!Next
    <3>1. element[p] \in Word
      BY <2>2 DEF TypeOK
    <3>. QED  BY <2>2, <3>1, CommitPuts DEF Fifo!Next
  <2>3. ASSUME NEW c \in Consumers, AdvanceHead(c)  PROVE Fifo!Next
    BY <2>3, AdvanceTakes DEF Fifo!Next
  <2>4. CASE Next /\ (\A p \in Producers : ~Commit(p)) /\ (\A c \in Consumers : ~AdvanceHead(c))
    BY <2>4, OthersStutter DEF Fifo!vars
  <2>. QED  BY <2>1, <2>2, <2>3, <2>4
<1>. QED  BY <1>1, <1>2, Invariant, PTL DEF Spec, ImplementsFifo, Fifo!Spec

-----------------------------------------------------------------------------
(* The pool of threads *)

Coming == {c \in Clients : tpc[c] \in {"stop?", "push"}}
Running == {w \in Workers : tpc[w] = "run"}

PoolPlaces ==
    /\ tpc \in [PoolThread -> {"idle", "stop?", "push", "notify", "break?", "take", "wait",
                               "asleep", "run", "ended"}]
    /\ started \in Seq(Task) /\ \A w \in Running : mine[w] \in Task

\* What a client brings is new, and no other client brings it.
Fresh ==
    /\ accepted \subseteq 1 .. created
    /\ \A c \in Coming :
          /\ mine[c] \in 1 .. created \ accepted
          /\ \A d \in Coming : mine[d] = mine[c] => c = d

InHands == {mine[w] : w \in Running}

Accounted ==
    /\ accepted = Range(tasks) \cup Range(started) \cup InHands
    /\ Cardinality(accepted) = Len(tasks) + Len(started) + Cardinality(Running)

PoolInv == PoolTypeOK /\ PoolPlaces /\ Fresh /\ Accounted

LEMMA InitPool == PoolInit => PoolInv
<1> SUFFICES ASSUME PoolInit PROVE PoolInv
  OBVIOUS
<1> USE PoolAssumption DEF PoolInit, PoolThread
<1>1. PoolTypeOK
  <2>1. tasks \in Seq(Task) /\ Len(tasks) <= MaxTaskNum
    OBVIOUS
  <2>2. \A t \in Clients : t \notin Workers
    OBVIOUS
  <2>3. mine \in [PoolThread -> 0 .. MaxTasks] /\ before \in [Clients -> 0 .. MaxTasks]
    OBVIOUS
  <2>4. /\ \A c \in Clients : tpc[c] = "idle"
        /\ \A w \in Workers : tpc[w] = "stop?"
    BY <2>2
  <2>5. created \in 0 .. MaxTasks /\ accepted \subseteq Task /\ refused \subseteq Task /\ missed \subseteq Workers
    OBVIOUS
  <2>6. stop \in BOOLEAN /\ break_all \in BOOLEAN /\ dpc = "idle"
    OBVIOUS
  <2> QED
    BY <2>1, <2>3, <2>4, <2>5, <2>6 DEF PoolTypeOK
<1>2. Coming = {} /\ Running = {}
  BY DEF Coming, Running
<1>3. PoolPlaces /\ Fresh
  BY <1>2 DEF PoolPlaces, Fresh
<1>4. Accounted
  <2>1. Range(tasks) = {} /\ Range(started) = {}
    BY DEF Range
  <2>2. InHands = {}
    BY <1>2 DEF InHands
  <2> QED
    BY <1>2, <2>1, <2>2, FS_EmptySet DEF Accounted
<1> QED
  BY <1>1, <1>3, <1>4 DEF PoolInv

LEMMA RangeOfAppend ==
    ASSUME NEW S, NEW s \in Seq(S), NEW e \in S
    PROVE  Range(Append(s, e)) = Range(s) \cup {e}
<1>1. DOMAIN Append(s, e) = DOMAIN s \cup {Len(s) + 1}
  OBVIOUS
<1>2. \A i \in DOMAIN s : Append(s, e)[i] = s[i]
  OBVIOUS
<1>3. Append(s, e)[Len(s) + 1] = e
  OBVIOUS
<1> QED
  BY <1>1, <1>2, <1>3 DEF Range

LEMMA RangeOfTail ==
    ASSUME NEW S, NEW s \in Seq(S), s # <<>>
    PROVE  Range(s) = {Head(s)} \cup Range(Tail(s))
<1>1. Len(s) > 0 /\ Head(s) = s[1] /\ Len(Tail(s)) = Len(s) - 1
  OBVIOUS
<1>2. \A i \in 1 .. Len(s) - 1 : Tail(s)[i] = s[i + 1]
  OBVIOUS
<1>3. DOMAIN s = 1 .. Len(s) /\ DOMAIN Tail(s) = 1 .. Len(s) - 1
  OBVIOUS
<1>4. \A i \in 1 .. Len(s) : i = 1 \/ i - 1 \in 1 .. Len(s) - 1
  BY <1>1
<1>5. \A i \in 1 .. Len(s) : s[i] \in {Head(s)} \cup Range(Tail(s))
  <2> SUFFICES ASSUME NEW i \in 1 .. Len(s), i # 1 PROVE s[i] \in Range(Tail(s))
    BY <1>1
  <2>1. i - 1 \in 1 .. Len(s) - 1 /\ Tail(s)[i - 1] = s[(i - 1) + 1] /\ (i - 1) + 1 = i
    BY <1>2, <1>4
  <2> QED
    BY <2>1, <1>3 DEF Range
<1>6. Head(s) \in Range(s)
  BY <1>1, <1>3 DEF Range
<1>7. \A i \in 1 .. Len(s) - 1 : Tail(s)[i] \in Range(s)
  <2> SUFFICES ASSUME NEW i \in 1 .. Len(s) - 1 PROVE Tail(s)[i] \in Range(s)
    OBVIOUS
  <2>1. i + 1 \in 1 .. Len(s) /\ Tail(s)[i] = s[i + 1]
    BY <1>1, <1>2
  <2> QED
    BY <2>1, <1>3 DEF Range
<1>8. Range(s) \subseteq {Head(s)} \cup Range(Tail(s))
  BY <1>3, <1>5 DEF Range
<1>9. Range(Tail(s)) \subseteq Range(s)
  BY <1>3, <1>7 DEF Range
<1> QED
  BY <1>6, <1>8, <1>9

\* The sets that are counted are finite, and no more tasks go in than there are.
LEMMA PoolIsFinite ==
    ASSUME PoolTypeOK, Fresh
    PROVE  /\ IsFiniteSet(accepted) /\ Cardinality(accepted) \in 0 .. created
           /\ IsFiniteSet(Running)
<1>1. created \in Nat
  BY PoolAssumption DEF PoolTypeOK
<1>2. IsFiniteSet(1 .. created) /\ Cardinality(1 .. created) = created
  BY <1>1, FS_Interval
<1>3. IsFiniteSet(accepted) /\ Cardinality(accepted) <= created
  <2>1. accepted \in SUBSET (1 .. created)
    BY DEF Fresh
  <2> QED
    BY <1>2, <2>1, FS_Subset
<1>4. Cardinality(accepted) \in Nat
  BY <1>3, FS_CardinalityType
<1>5. IsFiniteSet(Running)
  BY PoolAssumption, FS_Subset DEF Running
<1> QED
  BY <1>1, <1>3, <1>4, <1>5


\* A step that neither brings a task nor hands one on.
LEMMA AccountsStand ==
    ASSUME PoolInv, UNCHANGED <<tasks, mine, started, accepted, created>>,
           Running' = Running, Coming' \subseteq Coming
    PROVE  Fresh' /\ Accounted'
<1>1. InHands' = InHands
  BY DEF InHands
<1> QED
  BY <1>1 DEF PoolInv, Fresh, Accounted

LEMMA PoolStep == PoolInv /\ [PoolNext]_poolVars => PoolInv'
<1> SUFFICES ASSUME PoolInv, [PoolNext]_poolVars PROVE PoolInv'
  OBVIOUS
<1>0. /\ IsFiniteSet(accepted) /\ Cardinality(accepted) \in 0 .. created
      /\ IsFiniteSet(Running) /\ created \in Nat /\ created <= MaxTasks
  BY PoolIsFinite, PoolAssumption DEF PoolInv, PoolTypeOK
<1>1. CASE UNCHANGED poolVars
  BY <1>1 DEF poolVars, queueVars, histVars, PoolInv, PoolTypeOK, PoolPlaces, Fresh, Accounted,
              Coming, Running, InHands
<1>2. ASSUME NEW c \in Clients, BeginPoolEnqueue(c) PROVE PoolInv'
  <2> DEFINE k == created + 1
  <2>1. /\ created' = k /\ k \in Task /\ mine' = [mine EXCEPT ![c] = k]
        /\ tpc' = [tpc EXCEPT ![c] = "stop?"] /\ tpc[c] = "idle"
        /\ UNCHANGED <<tasks, stop, break_all, dpc, accepted, refused, started, missed, before>>
    BY <1>0, <1>2, PoolAssumption DEF BeginPoolEnqueue, PoolGoto, Task, queueVars
  <2>2. c \in PoolThread /\ c \notin Workers /\ c \notin Coming /\ c \notin Running
    BY <2>1, PoolAssumption DEF PoolThread, Coming, Running
  <2>3. Running' = Running /\ Coming' = Coming \cup {c}
    BY <2>1, <2>2 DEF PoolInv, PoolPlaces, Running, Coming, PoolThread
  <2>4. /\ mine'[c] = k
        /\ \A t \in PoolThread : t # c => mine'[t] = mine[t]
    BY <2>1, <2>2 DEF PoolInv, PoolTypeOK
  <2>5. InHands' = InHands
    BY <2>2, <2>3, <2>4 DEF InHands, Running, PoolThread
  <2>6. Fresh'
    <3>1. 1 .. created \subseteq 1 .. created' /\ k \in 1 .. created' /\ k \notin 1 .. created
      BY <1>0, <2>1
    <3>2. \A d \in Coming : d \in PoolThread
      BY DEF Coming, PoolThread
    <3> QED
      BY <2>1, <2>2, <2>3, <2>4, <3>1, <3>2 DEF PoolInv, Fresh
  <2>7. Accounted'
    BY <2>1, <2>3, <2>5 DEF PoolInv, Accounted
  <2>8. PoolPlaces'
    BY <2>1, <2>2, <2>3, <2>4 DEF PoolInv, PoolPlaces, Running, PoolThread
  <2>9. PoolTypeOK'
    BY <1>0, <2>1, <2>2, PoolAssumption DEF PoolInv, PoolTypeOK, PoolPlaces, Task, PoolThread
  <2> QED
    BY <2>6, <2>7, <2>8, <2>9 DEF PoolInv
<1>3. ASSUME NEW c \in Clients, PushTask(c) PROVE PoolInv'
  <2> DEFINE k == mine[c]
  <2>1. /\ tasks' = Append(tasks, k) /\ accepted' = accepted \cup {k} /\ Len(tasks) < MaxTaskNum
        /\ tpc' = [tpc EXCEPT ![c] = "notify"] /\ tpc[c] = "push"
        /\ UNCHANGED <<stop, break_all, dpc, mine, created, refused, started, missed, before>>
    BY <1>3 DEF PushTask, PoolGoto
  <2>2. c \in PoolThread /\ c \notin Workers /\ c \in Coming /\ c \notin Running
    BY <2>1, PoolAssumption DEF PoolThread, Coming, Running
  <2>3. k \in 1 .. created /\ k \notin accepted /\ k \in Task
    BY <1>0, <2>2, PoolAssumption DEF PoolInv, Fresh, Task
  <2>4. Running' = Running /\ Coming' = Coming \ {c}
    BY <2>1, <2>2 DEF PoolInv, PoolPlaces, Running, Coming, PoolThread
  <2>5. InHands' = InHands
    BY <2>1, <2>4 DEF InHands
  <2>6. Fresh'
    BY <2>1, <2>2, <2>3, <2>4 DEF PoolInv, Fresh
  <2>7. tasks \in Seq(Task) /\ Len(tasks) \in Nat
    BY DEF PoolInv, PoolTypeOK
  <2>8. Accounted'
    <3>1. Range(tasks') = Range(tasks) \cup {k}
      BY <2>1, <2>3, <2>7, RangeOfAppend
    <3>2. Cardinality(accepted') = Cardinality(accepted) + 1
      BY <1>0, <2>1, <2>3, FS_AddElement
    <3>3. Len(tasks') = Len(tasks) + 1
      BY <2>1, <2>7
    <3>4. Len(started) \in Nat /\ Cardinality(Running) \in Nat
      BY <1>0, FS_CardinalityType DEF PoolInv, PoolPlaces
    <3> QED
      BY <2>1, <2>4, <2>5, <2>7, <3>1, <3>2, <3>3, <3>4 DEF PoolInv, Accounted
  <2>9. PoolPlaces'
    BY <2>1, <2>2, <2>4 DEF PoolInv, PoolPlaces, PoolThread
  <2>10. PoolTypeOK'
    <3>1. tasks' \in Seq(Task) /\ Len(tasks') <= MaxTaskNum
      BY <2>1, <2>3, <2>7, PoolAssumption
    <3>2. accepted' \subseteq Task
      BY <2>1, <2>3 DEF PoolInv, PoolTypeOK
    <3>3. \A t \in PoolThread : tpc'[t] = IF t = c THEN "notify" ELSE tpc[t]
      BY <2>1, <2>2 DEF PoolInv, PoolPlaces
    <3> QED
      BY <2>1, <2>2, <3>1, <3>2, <3>3 DEF PoolInv, PoolTypeOK, PoolThread
  <2> QED
    BY <2>6, <2>8, <2>9, <2>10 DEF PoolInv
<1>4. ASSUME NEW w \in Workers, TakeTask(w) PROVE PoolInv'
  <2> DEFINE k == Head(tasks)
  <2>1. /\ tasks # <<>> /\ tasks' = Tail(tasks) /\ mine' = [mine EXCEPT ![w] = k]
        /\ tpc' = [tpc EXCEPT ![w] = "run"] /\ tpc[w] = "take"
        /\ UNCHANGED <<stop, break_all, dpc, before, created, accepted, refused, started, missed>>
    BY <1>4 DEF TakeTask, PoolGoto, histVars
  <2>2. w \in PoolThread /\ w \notin Clients /\ w \notin Coming /\ w \notin Running
    BY <2>1, PoolAssumption DEF PoolThread, Coming, Running
  <2>3. tasks \in Seq(Task) /\ Len(tasks) \in Nat /\ Len(tasks) > 0 /\ k \in Task
    BY <2>1 DEF PoolInv, PoolTypeOK
  <2>4. Running' = Running \cup {w} /\ Coming' = Coming
    BY <2>1, <2>2 DEF PoolInv, PoolPlaces, Running, Coming, PoolThread
  <2>5. mine'[w] = k /\ \A t \in PoolThread : t # w => mine'[t] = mine[t]
    BY <2>1, <2>2 DEF PoolInv, PoolTypeOK
  <2>6. InHands' = InHands \cup {k}
    BY <2>2, <2>4, <2>5 DEF InHands, Running, PoolThread
  <2>7. Fresh'
    <3>1. \A d \in Coming : d \in PoolThread /\ d # w
      BY <2>2 DEF Coming, PoolThread
    <3> QED
      BY <2>1, <2>4, <2>5, <3>1 DEF PoolInv, Fresh
  <2>8. Accounted'
    <3>1. Range(tasks) = {k} \cup Range(tasks')
      BY <2>1, <2>3, RangeOfTail
    <3>2. Len(tasks') = Len(tasks) - 1
      BY <2>1, <2>3
    <3>3. Cardinality(Running') = Cardinality(Running) + 1 /\ Cardinality(Running) \in Nat
      BY <1>0, <2>2, <2>4, FS_AddElement, FS_CardinalityType
    <3>4. Len(started) \in Nat
      BY DEF PoolInv, PoolPlaces
    <3> QED
      BY <2>1, <2>3, <2>6, <3>1, <3>2, <3>3, <3>4 DEF PoolInv, Accounted
  <2>9. PoolPlaces'
    <3>1. \A v \in Running' : mine'[v] \in Task
      BY <2>2, <2>3, <2>4, <2>5 DEF PoolInv, PoolPlaces, Running, PoolThread
    <3> QED
      BY <2>1, <2>2, <3>1 DEF PoolInv, PoolPlaces
  <2>10. PoolTypeOK'
    <3>1. tasks' \in Seq(Task) /\ Len(tasks') <= MaxTaskNum
      BY <2>1, <2>3, PoolAssumption DEF PoolInv, PoolTypeOK
    <3>2. mine' \in [PoolThread -> 0 .. MaxTasks]
      <4>1. Task \subseteq 0 .. MaxTasks
        BY PoolAssumption DEF Task
      <4>2. mine \in [PoolThread -> 0 .. MaxTasks]
        BY DEF PoolInv, PoolTypeOK
      <4> HIDE DEF k
      <4> QED
        BY <2>1, <2>3, <4>1, <4>2
    <3>3. \A t \in PoolThread : tpc'[t] = IF t = w THEN "run" ELSE tpc[t]
      BY <2>1, <2>2 DEF PoolInv, PoolPlaces
    <3> QED
      BY <2>1, <2>2, <3>1, <3>2, <3>3 DEF PoolInv, PoolTypeOK, PoolThread
  <2> QED
    BY <2>7, <2>8, <2>9, <2>10 DEF PoolInv
<1>5. ASSUME NEW w \in Workers, RunTask(w) PROVE PoolInv'
  <2>1. /\ started' = Append(started, mine[w])
        /\ tpc' = [tpc EXCEPT ![w] = "stop?"] /\ tpc[w] = "run"
        /\ UNCHANGED <<tasks, stop, break_all, dpc, mine, before, created, accepted, refused, missed>>
    BY <1>5 DEF RunTask, PoolGoto, queueVars
  <2>2. w \in PoolThread /\ w \notin Clients /\ w \in Running
    BY <2>1, PoolAssumption DEF PoolThread, Running
  <2>3. mine[w] \in Task /\ started \in Seq(Task) /\ Len(started) \in Nat
    BY <2>2 DEF PoolInv, PoolPlaces
  <2>4. Running' = Running \ {w} /\ Coming' = Coming
    BY <2>1, <2>2 DEF PoolInv, PoolPlaces, Running, Coming, PoolThread
  <2>5. InHands = InHands' \cup {mine[w]}
    BY <2>1, <2>2, <2>4 DEF InHands
  <2>6. Accounted'
    <3>1. Range(started') = Range(started) \cup {mine[w]}
      BY <2>1, <2>3, RangeOfAppend
    <3>2. Len(started') = Len(started) + 1
      BY <2>1, <2>3
    <3>3. Cardinality(Running') = Cardinality(Running) - 1 /\ Cardinality(Running) \in Nat
      BY <1>0, <2>2, <2>4, FS_RemoveElement, FS_CardinalityType
    <3>4. Len(tasks) \in Nat
      BY DEF PoolInv, PoolTypeOK
    <3> QED
      BY <2>1, <2>3, <2>5, <3>1, <3>2, <3>3, <3>4 DEF PoolInv, Accounted
  <2>7. Fresh'
    BY <2>1, <2>4 DEF PoolInv, Fresh
  <2>8. PoolPlaces'
    BY <2>1, <2>2, <2>3, <2>4 DEF PoolInv, PoolPlaces
  <2>9. PoolTypeOK'
    <3>1. \A t \in PoolThread : tpc'[t] = IF t = w THEN "stop?" ELSE tpc[t]
      BY <2>1, <2>2 DEF PoolInv, PoolPlaces
    <3> QED
      BY <2>1, <2>2, <3>1 DEF PoolInv, PoolTypeOK, PoolThread
  <2> QED
    BY <2>6, <2>7, <2>8, <2>9 DEF PoolInv
<1> DEFINE Stands == /\ UNCHANGED <<tasks, mine, started, accepted, created>>
                     /\ Running' = Running /\ Coming' \subseteq Coming
                     /\ PoolTypeOK' /\ PoolPlaces'
<1>6. ASSUME Stands PROVE PoolInv'
  BY <1>6, AccountsStand DEF PoolInv
<1> USE DEF PoolInv, PoolTypeOK, PoolPlaces, PoolThread, Running, Coming, queueVars, histVars
<1>7. ASSUME NEW c \in Clients, TestStop(c) PROVE Stands
  <2>1. c \notin Workers
    BY PoolAssumption
  <2>2. Cardinality(accepted) \in 0 .. MaxTasks
    BY <1>0, PoolAssumption
  <2>3. mine[c] \in Task
    BY <1>0, <1>7 DEF TestStop, Fresh, Task
  <2> QED
    BY <1>7, <2>1, <2>2, <2>3 DEF TestStop, PoolGoto
<1>8. ASSUME NEW c \in Clients, DropTask(c) PROVE Stands
  <2>1. c \notin Workers
    BY PoolAssumption
  <2>2. mine[c] \in Task
    BY <1>0, <1>8 DEF DropTask, Fresh, Task
  <2> QED
    BY <1>8, <2>1, <2>2 DEF DropTask, PoolGoto
<1>9. ASSUME NEW c \in Clients, NotifyOne(c) PROVE Stands
  <2>1. \A t \in Clients : t \notin Workers
    BY PoolAssumption
  <2>2. CASE Asleep = {}
    BY <1>9, <2>1, <2>2 DEF NotifyOne, PoolGoto
  <2>3. CASE Asleep # {}
    BY <1>9, <2>1, <2>3 DEF NotifyOne, Asleep
  <2> QED
    BY <2>2, <2>3
<1>10. ASSUME NEW w \in Workers,
              \/ WorkerTestStop(w) \/ TestBreak(w) \/ NothingToTake(w)
              \/ Sleep(w) \/ SpuriousWakeup(w)
       PROVE  Stands
  <2>1. w \notin Clients
    BY PoolAssumption
  <2>2. CASE WorkerTestStop(w)
    BY <2>1, <2>2 DEF WorkerTestStop, PoolGoto
  <2>3. CASE TestBreak(w)
    BY <2>1, <2>3 DEF TestBreak, PoolGoto
  <2>4. CASE NothingToTake(w)
    BY <2>1, <2>4 DEF NothingToTake, PoolGoto
  <2>5. CASE Sleep(w)
    BY <2>1, <2>5 DEF Sleep, PoolGoto
  <2>6. CASE SpuriousWakeup(w)
    BY <2>1, <2>6 DEF SpuriousWakeup, PoolGoto
  <2> QED
    BY <1>10, <2>2, <2>3, <2>4, <2>5, <2>6
<1>11. ASSUME BeginDestroy \/ SetBreakAll \/ Join PROVE Stands
  BY <1>11 DEF BeginDestroy, SetBreakAll, Join
<1>12. ASSUME NotifyAll PROVE Stands
  <2>1. \A t \in Clients : t \notin Workers
    BY PoolAssumption
  <2> QED
    BY <1>12, <2>1 DEF NotifyAll, Asleep
<1> HIDE DEF Stands
<1> QED
  BY <1>1, <1>2, <1>3, <1>4, <1>5, <1>6, <1>7, <1>8, <1>9, <1>10, <1>11, <1>12
  DEF PoolNext, ClientStep, WorkerStep, DestroyStep

LEMMA PoolInvariance == PoolSpec => []PoolInv
<1> QED
  BY InitPool, PoolStep, PTL DEF PoolSpec

\* The variables of the pool keep their types; the queue is never over its size.
THEOREM PoolTypes == PoolSpec => []PoolTypeOK
<1>1. PoolInv => PoolTypeOK
  BY DEF PoolInv
<1> QED
  BY <1>1, PoolInvariance, PTL

\* Between Enqueue, the queue and the workers no task that was accepted is lost,
\* and none runs twice, also while the pool is being destroyed.
THEOREM TasksAreSomewhere == PoolSpec => []TaskIsSomewhere
<1>1. PoolInv => TaskIsSomewhere
  BY DEF PoolInv, Accounted, InHands, Running, TaskIsSomewhere
<1> QED
  BY <1>1, PoolInvariance, PTL

-----------------------------------------------------------------------------
(* MulticastNotifier: the invariant *)

\* Where a thread is in the constructor, in a call, or in Shutdown.
Making == {"socket", "socket2", "join"}
Calling == {"notify", "send", "listen", "poll", "receive", "take"}
Closing == {"close", "forget", "close2", "forget2"}

\* notify_fd and listen_fd stand for the sockets of the notifier and for nothing
\* else, or there is none.
NotifyIsOwn == \A f \in Fds : open[f] = "notify" <=> f = notify_fd
ListenIsOwn == \A f \in Fds : open[f] = "listen" <=> f = listen_fd
NoNotify == \A f \in Fds : open[f] # "notify"
NoListen == \A f \in Fds : open[f] # "listen"

\* Until the constructor returns only its thread is beyond call_once; it has not
\* called back before it closes, and what it has not opened is -1.
MakerIsAlone ==
    /\ ~made => \A t \in Threads : thread_pc[t] # "none" => t = maker /\ thread_pc[t] \in Making \cup Closing
    /\ made => \A t \in Threads : thread_pc[t] \notin Making
    /\ \A t \in Threads : thread_pc[t] \in Making => ~is_shutdown
    /\ made /\ ~is_shutdown => notify_fd \in Fds /\ listen_fd \in Fds
    /\ \A t \in Threads : thread_pc[t] = "socket" => notify_fd = -1 /\ listen_fd = -1
    /\ \A t \in Threads : thread_pc[t] = "socket2" => notify_fd \in Fds /\ listen_fd = -1
    /\ \A t \in Threads : thread_pc[t] = "join" => notify_fd \in Fds /\ listen_fd \in Fds
    /\ maker = None => ~made /\ ~is_shutdown /\ notify_fd = -1 /\ listen_fd = -1

\* The exchange on is_shutdown_ lets one thread through.
OneCloses ==
    \A t \in Threads : thread_pc[t] \in Closing =>
        is_shutdown /\ \A u \in Threads : thread_pc[u] \in Closing => u = t

\* How far the thread that closes has come says what the fields stand for; when
\* there is none any more, both sockets are gone.
Progress ==
    /\ \A t \in Threads :
        /\ thread_pc[t] = "close" => NotifyIsOwn
        /\ thread_pc[t] \in {"close", "forget", "close2"} => ListenIsOwn
        /\ thread_pc[t] \in {"forget", "close2", "forget2"} => NoNotify
        /\ thread_pc[t] = "forget2" => NoListen
    /\ is_shutdown /\ (\A t \in Threads : thread_pc[t] \notin Closing) => NoNotify /\ NoListen

\* Until somebody shuts down, a call has the descriptor of its socket in hand.
InHand ==
    ~is_shutdown => \A t \in Threads :
        /\ thread_pc[t] = "send" => fd[t] = notify_fd
        /\ thread_pc[t] \in {"poll", "take"} => fd[t] = listen_fd

MulticastInv ==
    /\ MulticastTypeOK /\ MakerIsAlone /\ OneCloses /\ Progress /\ InHand
    /\ ClosedWereItsOwn /\ ForeignOnlyIfShutDown

-----------------------------------------------------------------------------
(* MulticastNotifier: types *)

\* The invariant holds initially.
LEMMA MulticastInitEstablishes == MulticastInit => MulticastInv
  <1> SUFFICES ASSUME MulticastInit PROVE MulticastInv
    OBVIOUS
  <1> USE MulticastAssumption
  <1>1. MulticastTypeOK
    <2>1. open \in [Fds -> {"free", "notify", "listen", "other"}] /\ thread_pc \in [Threads -> Label]
          /\ fd \in [Threads -> Fds \cup {-1}]
      BY DEF MulticastInit, Label
    <2>2. buffer \in Seq(Infos) /\ Len(buffer) <= BufferSize
      BY DEF MulticastInit
    <2>3. \A f \in Fds : (open[f] = "notify" <=> f = notify_fd) /\ (open[f] = "listen" <=> f = listen_fd)
      BY DEF MulticastInit, Fds
    <2> QED
      BY <2>1, <2>2, <2>3 DEF MulticastInit, MulticastTypeOK
  <1>2. MakerIsAlone /\ OneCloses /\ Progress /\ InHand /\ ClosedWereItsOwn /\ ForeignOnlyIfShutDown
    BY DEF MulticastInit, MakerIsAlone, OneCloses, Progress, InHand, ClosedWereItsOwn, ForeignOnlyIfShutDown, Closing, Making
  <1> QED
    BY <1>1, <1>2 DEF MulticastInv

\* A thread moves from one label to another and the others stay.
ThreadMoves(t, from, to) ==
    /\ thread_pc[t] \in from /\ thread_pc' \in [Threads -> Label]
    /\ thread_pc'[t] \in to /\ \A u \in Threads : u # t => thread_pc'[u] = thread_pc[u]

\* What every step of a thread does to its label.
LEMMA EachMoves ==
    ASSUME MulticastTypeOK, NEW t \in Threads
    PROVE  /\ Instance(t) => ThreadMoves(t, {"none"}, {"socket", "idle"})
           /\ OpenNotifySocket(t) => ThreadMoves(t, {"socket"}, {"socket2"})
           /\ OpenListenSocket(t) => ThreadMoves(t, {"socket2"}, {"join"})
           /\ JoinGroup(t) => ThreadMoves(t, {"join"}, {"idle"})
           /\ InitFails(t) => ThreadMoves(t, Making, {"close"})
           /\ Notify(t) => ThreadMoves(t, {"idle"}, {"notify"})
           /\ Listen(t) => ThreadMoves(t, {"idle"}, {"listen"})
           /\ ReadNotifyFd(t) => ThreadMoves(t, {"notify"}, {"send"})
           /\ SendTo(t) => ThreadMoves(t, {"send"}, {"idle"})
           /\ ReadListenFd(t) => ThreadMoves(t, {"listen"}, {"poll"})
           /\ Poll(t) => ThreadMoves(t, {"poll"}, {"receive", "idle"})
           /\ ReadListenFdAgain(t) => ThreadMoves(t, {"receive"}, {"take"})
           /\ ReceiveFrom(t) => ThreadMoves(t, {"take"}, {"idle"})
           /\ Shutdown(t) => ThreadMoves(t, {"idle"}, {IF is_shutdown THEN "idle" ELSE "close"})
           /\ CloseNotifySocket(t) => ThreadMoves(t, {"close"}, {"forget"})
           /\ ForgetNotifySocket(t) => ThreadMoves(t, {"forget"}, {"close2"})
           /\ CloseListenSocket(t) => ThreadMoves(t, {"close2"}, {"forget2"})
           /\ ForgetListenSocket(t) => ThreadMoves(t, {"forget2"}, {"idle"})
  <1> DEFINE Moves(from, l) == thread_pc[t] \in from /\ ThreadGoto(t, l)
  <1>1. ASSUME NEW from, NEW l \in Label, Moves(from, l) PROVE ThreadMoves(t, from, {l})
    BY <1>1 DEF ThreadGoto, ThreadMoves, MulticastTypeOK
  <1> HIDE DEF Moves
  <1>2. ASSUME NEW from, NEW to, NEW wide, to \subseteq wide, ThreadMoves(t, from, to) PROVE ThreadMoves(t, from, wide)
    BY <1>2 DEF ThreadMoves
  <1>3. Instance(t) => \E l \in {"socket", "idle"} : Moves({"none"}, l)
    BY DEF Instance, Moves
  <1>4. OpenNotifySocket(t) => Moves({"socket"}, "socket2")
    BY DEF OpenNotifySocket, Moves
  <1>5. OpenListenSocket(t) => Moves({"socket2"}, "join")
    BY DEF OpenListenSocket, Moves
  <1>6. JoinGroup(t) => Moves({"join"}, "idle")
    BY DEF JoinGroup, Moves
  <1>7. InitFails(t) => Moves(Making, "close")
    BY DEF InitFails, Moves, Making
  <1>8. (Notify(t) => Moves({"idle"}, "notify")) /\ (Listen(t) => Moves({"idle"}, "listen"))
    BY DEF Notify, Listen, Moves
  <1>9. (ReadNotifyFd(t) => Moves({"notify"}, "send")) /\ (ReadListenFd(t) => Moves({"listen"}, "poll"))
    BY DEF ReadNotifyFd, ReadListenFd, Moves
  <1>10. (SendTo(t) => Moves({"send"}, "idle")) /\ (ReadListenFdAgain(t) => Moves({"receive"}, "take"))
    BY DEF SendTo, ReadListenFdAgain, Moves
  <1>11. (Poll(t) => \E l \in {"receive", "idle"} : Moves({"poll"}, l)) /\ (ReceiveFrom(t) => Moves({"take"}, "idle"))
    BY DEF Poll, ReceiveFrom, Moves
  <1>12. Shutdown(t) => Moves({"idle"}, IF is_shutdown THEN "idle" ELSE "close")
    BY DEF Shutdown, Moves
  <1>13. (CloseNotifySocket(t) => Moves({"close"}, "forget")) /\ (ForgetNotifySocket(t) => Moves({"forget"}, "close2"))
    BY DEF CloseNotifySocket, ForgetNotifySocket, Moves
  <1>14. (CloseListenSocket(t) => Moves({"close2"}, "forget2")) /\ (ForgetListenSocket(t) => Moves({"forget2"}, "idle"))
    BY DEF CloseListenSocket, ForgetListenSocket, Moves
  <1>15. {"none", "idle", "socket", "socket2", "join", "notify", "send", "listen", "poll", "receive",
          "take", "close", "forget", "close2", "forget2"} \subseteq Label
    BY DEF Label
  <1>16. Instance(t) => ThreadMoves(t, {"none"}, {"socket", "idle"})
    <2> SUFFICES ASSUME Instance(t) PROVE ThreadMoves(t, {"none"}, {"socket", "idle"})
      OBVIOUS
    <2>1. PICK l \in {"socket", "idle"} : Moves({"none"}, l)
      BY <1>3
    <2>2. ThreadMoves(t, {"none"}, {l})
      BY <2>1, <1>1, <1>15
    <2> QED
      BY <2>2, <1>2
  <1>17. Poll(t) => ThreadMoves(t, {"poll"}, {"receive", "idle"})
    <2> SUFFICES ASSUME Poll(t) PROVE ThreadMoves(t, {"poll"}, {"receive", "idle"})
      OBVIOUS
    <2>1. PICK l \in {"receive", "idle"} : Moves({"poll"}, l)
      BY <1>11
    <2>2. ThreadMoves(t, {"poll"}, {l})
      BY <2>1, <1>1, <1>15
    <2> QED
      BY <2>2, <1>2
  <1>18. Shutdown(t) => ThreadMoves(t, {"idle"}, {IF is_shutdown THEN "idle" ELSE "close"})
    BY <1>1, <1>12, <1>15
  <1> QED
    BY <1>1, <1>4, <1>5, <1>6, <1>7, <1>8, <1>9, <1>10, <1>11, <1>13, <1>14, <1>15, <1>16, <1>17, <1>18

\* The kinds of steps: those outside the notifier, calls of Notify and Listen,
\* and those of the constructor and of Shutdown, which are told apart.
SameSockets ==
    \A f \in Fds : (open'[f] = "notify" <=> open[f] = "notify") /\ (open'[f] = "listen" <=> open[f] = "listen")
Outside == SameSockets /\ UNCHANGED <<sockets, is_shutdown, instance, thread_pc, fd, closed, foreign>>
Calls(t) == 
    /\ ThreadMoves(t, {"idle"} \cup Calling, {"idle"} \cup Calling)
    /\ UNCHANGED <<sockets, is_shutdown, instance, open, closed>>

\* Every step is of one of these kinds.
LEMMA MulticastSteps ==
    ASSUME MulticastTypeOK, [MulticastNext]_multicastVars
    PROVE  \/ Outside
           \/ \E t \in Threads :
                \/ Calls(t) /\ (Notify(t) \/ Listen(t) \/ ReadNotifyFd(t) \/ SendTo(t) \/ ReadListenFd(t) \/ Poll(t)
                                \/ ReadListenFdAgain(t) \/ ReceiveFrom(t))
                \/ Instance(t) \/ OpenNotifySocket(t) \/ OpenListenSocket(t) \/ JoinGroup(t) \/ InitFails(t)
                \/ Shutdown(t) \/ CloseNotifySocket(t) \/ ForgetNotifySocket(t) \/ CloseListenSocket(t) \/ ForgetListenSocket(t)
  <1>1. ASSUME NEW i \in Infos, OthersNotify(i) \/ Arrive(i) \/ Lose(i) PROVE Outside
    BY <1>1 DEF OthersNotify, Arrive, Lose, Outside, SameSockets, history
  <1>2. CASE Elsewhere
    BY <1>2 DEF Elsewhere, Outside, SameSockets, history, Lowest, MulticastTypeOK
  <1>3. CASE UNCHANGED multicastVars
    BY <1>3 DEF multicastVars, Outside, SameSockets, history
  <1>4. ASSUME NEW t \in Threads,
               Notify(t) \/ Listen(t) \/ ReadNotifyFd(t) \/ SendTo(t) \/ ReadListenFd(t) \/ Poll(t)
                   \/ ReadListenFdAgain(t) \/ ReceiveFrom(t)
        PROVE  Calls(t)
    <2>1. \E from, to : /\ ThreadMoves(t, from, to) /\ from \subseteq {"idle"} \cup Calling
                        /\ to \subseteq {"idle"} \cup Calling
      BY <1>4, EachMoves DEF Calling
    <2>2. ThreadMoves(t, {"idle"} \cup Calling, {"idle"} \cup Calling)
      BY <2>1 DEF ThreadMoves
    <2>3. UNCHANGED <<sockets, is_shutdown, instance, open, closed>>
      BY <1>4 DEF Notify, Listen, ReadNotifyFd, SendTo, ReadListenFd, Poll, ReadListenFdAgain, ReceiveFrom, history
    <2> QED
      BY <2>2, <2>3 DEF Calls
  <1> QED
    BY <1>1, <1>2, <1>3, <1>4 DEF MulticastNext, MulticastStep

\* Every step keeps the fields, the descriptors and what stands in the group.
LEMMA FieldTypes ==
    ASSUME MulticastInv, [MulticastNext]_multicastVars
    PROVE  /\ notify_fd' \in Fds \cup {-1} /\ listen_fd' \in Fds \cup {-1}
           /\ is_shutdown' \in BOOLEAN /\ made' \in BOOLEAN /\ in_group' \in BOOLEAN
           /\ maker' \in Threads \cup {None}
           /\ open' \in [Fds -> {"free", "notify", "listen", "other"}]
           /\ fd' \in [Threads -> Fds \cup {-1}]
  <1> DEFINE Fields == /\ notify_fd \in Fds \cup {-1} /\ listen_fd \in Fds \cup {-1}
                       /\ is_shutdown \in BOOLEAN /\ made \in BOOLEAN /\ in_group \in BOOLEAN
                       /\ maker \in Threads \cup {None}
                       /\ open \in [Fds -> {"free", "notify", "listen", "other"}]
                       /\ fd \in [Threads -> Fds \cup {-1}]
  <1>0. Fields
    BY DEF MulticastInv, MulticastTypeOK
  <1>1. ASSUME NEW t \in Threads, Instance(t) \/ JoinGroup(t) \/ InitFails(t) \/ Shutdown(t) \/ ForgetNotifySocket(t) \/ ForgetListenSocket(t)
        PROVE  Fields'
    BY <1>0, <1>1 DEF Instance, JoinGroup, InitFails, Shutdown, ForgetNotifySocket, ForgetListenSocket, sockets, instance, network
  <1>2. ASSUME NEW t \in Threads, OpenNotifySocket(t) \/ OpenListenSocket(t) \/ CloseNotifySocket(t) \/ CloseListenSocket(t)
        PROVE  Fields'
    BY <1>0, <1>2 DEF OpenNotifySocket, OpenListenSocket, CloseNotifySocket, CloseListenSocket, sockets, instance, network
  <1>3. ASSUME NEW t \in Threads, Notify(t) \/ Listen(t) \/ ReadNotifyFd(t) \/ ReadListenFd(t) \/ ReadListenFdAgain(t)
        PROVE  Fields'
    BY <1>0, <1>3 DEF Notify, Listen, ReadNotifyFd, ReadListenFd, ReadListenFdAgain, sockets, instance, network
  <1>4. ASSUME NEW t \in Threads, SendTo(t) \/ Poll(t) \/ ReceiveFrom(t)
        PROVE  Fields'
    BY <1>0, <1>4 DEF SendTo, Poll, ReceiveFrom, sockets, instance, network
  <1>5. ASSUME NEW i \in Infos, OthersNotify(i) \/ Arrive(i) \/ Lose(i) PROVE Fields'
    BY <1>0, <1>5 DEF OthersNotify, Arrive, Lose, sockets, instance, network
  <1>6. CASE Elsewhere
    BY <1>0, <1>6 DEF Elsewhere, sockets, instance, network
  <1>7. CASE UNCHANGED multicastVars
    BY <1>0, <1>7 DEF multicastVars, sockets, instance, network
  <1>8. Fields'
    BY <1>1, <1>2, <1>3, <1>4, <1>5, <1>6, <1>7 DEF MulticastNext, MulticastStep
  <1> QED
    BY <1>8

\* The buffer holds announcements and never more than BufferSize.
LEMMA BufferStep ==
    ASSUME MulticastInv, [MulticastNext]_multicastVars
    PROVE  buffer' \in Seq(Infos) /\ Len(buffer') <= BufferSize /\ group' \subseteq Infos
  <1> DEFINE Datagrams == buffer \in Seq(Infos) /\ Len(buffer) <= BufferSize /\ group \subseteq Infos
  <1> USE MulticastAssumption
  <1>0. Datagrams
    BY DEF MulticastInv, MulticastTypeOK
  <1>1. ASSUME NEW i \in Infos, OthersNotify(i) \/ Arrive(i) \/ Lose(i) PROVE Datagrams'
    BY <1>0, <1>1 DEF OthersNotify, Arrive, Lose
  <1>2. ASSUME NEW t \in Threads, SendTo(t) \/ ReceiveFrom(t) \/ CloseListenSocket(t) PROVE Datagrams'
    <2>1. CASE SendTo(t)
      BY <1>0, <2>1 DEF SendTo
    <2>2. CASE CloseListenSocket(t)
      <3>1. group' = group /\ (buffer' = buffer \/ buffer' = <<>>)
        BY <2>2 DEF CloseListenSocket
      <3>2. <<>> \in Seq(Infos) /\ Len(<<>>) = 0
        OBVIOUS
      <3>3. CASE buffer' = <<>>
        BY <1>0, <3>1, <3>2, <3>3
      <3> QED
        BY <1>0, <3>1, <3>3
    <2>3. ASSUME buffer # <<>> PROVE Tail(buffer) \in Seq(Infos) /\ Len(Tail(buffer)) <= BufferSize
      BY <1>0, <2>3
    <2>4. CASE ReceiveFrom(t)
      <3>1. group' = group /\ (buffer' = buffer \/ (buffer # <<>> /\ buffer' = Tail(buffer)))
        BY <2>4 DEF ReceiveFrom
      <3> QED
        BY <3>1, <2>3, <1>0
    <2> QED
      BY <1>2, <2>1, <2>2, <2>4
  <1>3. ASSUME NEW t \in Threads,
               \/ Instance(t) \/ JoinGroup(t) \/ InitFails(t) \/ Shutdown(t) \/ ForgetNotifySocket(t) \/ ForgetListenSocket(t)
               \/ OpenNotifySocket(t) \/ OpenListenSocket(t) \/ CloseNotifySocket(t)
               \/ Notify(t) \/ Listen(t) \/ ReadNotifyFd(t) \/ ReadListenFd(t) \/ ReadListenFdAgain(t) \/ Poll(t)
        PROVE  UNCHANGED <<buffer, group>>
    BY <1>3 DEF Instance, JoinGroup, InitFails, Shutdown, ForgetNotifySocket, ForgetListenSocket, OpenNotifySocket, OpenListenSocket,
       CloseNotifySocket, Notify, Listen, ReadNotifyFd, ReadListenFd, ReadListenFdAgain, Poll, network
  <1>4. CASE Elsewhere \/ UNCHANGED multicastVars
    BY <1>0, <1>4 DEF Elsewhere, multicastVars, network
  <1>5. Datagrams'
    BY <1>0, <1>1, <1>2, <1>3, <1>4 DEF MulticastNext, MulticastStep
  <1> QED
    BY <1>5

\* A thread's label stays one.
LEMMA LabelStep ==
    ASSUME MulticastInv, [MulticastNext]_multicastVars
    PROVE  thread_pc' \in [Threads -> Label]
  <1>1. MulticastTypeOK /\ thread_pc \in [Threads -> Label]
    BY DEF MulticastInv, MulticastTypeOK
  <1>2. CASE Outside
    BY <1>1, <1>2 DEF Outside
  <1>3. CASE \E t \in Threads : Calls(t)
    BY <1>3 DEF Calls, ThreadMoves
  <1>4. ASSUME NEW t \in Threads,
               \/ Instance(t) \/ OpenNotifySocket(t) \/ OpenListenSocket(t) \/ JoinGroup(t) \/ InitFails(t) \/ Shutdown(t)
               \/ CloseNotifySocket(t) \/ ForgetNotifySocket(t) \/ CloseListenSocket(t) \/ ForgetListenSocket(t)
        PROVE  thread_pc' \in [Threads -> Label]
    BY <1>1, <1>4, EachMoves DEF ThreadMoves
  <1> QED
    BY <1>1, <1>2, <1>3, <1>4, MulticastSteps

-----------------------------------------------------------------------------
(* MulticastNotifier: the parts of the invariant *)

\* Only the thread in call_once makes the notifier, and once it has returned with
\* both sockets they stay until somebody shuts down.
LEMMA MakerStep == MulticastInv /\ [MulticastNext]_multicastVars => MakerIsAlone'
  <1> SUFFICES ASSUME MulticastInv, [MulticastNext]_multicastVars PROVE MakerIsAlone'
    OBVIOUS
  <1> USE MulticastAssumption
  <1>0. MulticastTypeOK /\ MakerIsAlone
    BY DEF MulticastInv
  <1>1. CASE Outside
    BY <1>0, <1>1 DEF Outside, MakerIsAlone, sockets, instance
  <1>2. ASSUME NEW t \in Threads, Calls(t) PROVE MakerIsAlone'
    BY <1>0, <1>2 DEF Calls, ThreadMoves, MakerIsAlone, sockets, instance, Calling, Making, Closing
  <1>3. ASSUME NEW t \in Threads, Instance(t) PROVE MakerIsAlone'
    <2>1. ThreadMoves(t, {"none"}, {"socket", "idle"}) /\ UNCHANGED <<notify_fd, listen_fd, is_shutdown, made>>
      BY <1>0, <1>3, EachMoves DEF Instance, sockets
    <2>2. CASE made
      <3>1. maker' = maker /\ thread_pc'[t] = "idle"
        BY <1>0, <1>3, <2>2 DEF Instance, ThreadGoto, MakerIsAlone, MulticastTypeOK
      <3> QED
        BY <1>0, <2>1, <2>2, <3>1 DEF ThreadMoves, MakerIsAlone, Making, Closing
    <2>3. CASE ~made
      <3>1. maker = None /\ maker' = t /\ thread_pc'[t] = "socket"
        BY <1>0, <1>3, <2>3 DEF Instance, ThreadGoto, MulticastTypeOK
      <3>2. \A u \in Threads : thread_pc[u] = "none"
        BY <1>0, <2>3, <3>1 DEF MakerIsAlone
      <3>3. ~is_shutdown
        BY <1>0, <3>1 DEF MakerIsAlone
      <3> QED
        BY <1>0, <2>1, <2>3, <3>1, <3>2, <3>3 DEF ThreadMoves, MakerIsAlone, Making, Closing
    <2> QED
      BY <2>2, <2>3
  <1>4. ASSUME NEW t \in Threads, OpenNotifySocket(t) PROVE MakerIsAlone'
    BY <1>0, <1>4, EachMoves DEF OpenNotifySocket, ThreadMoves, MakerIsAlone, instance, Making, Closing
  <1>5. ASSUME NEW t \in Threads, OpenListenSocket(t) PROVE MakerIsAlone'
    BY <1>0, <1>5, EachMoves DEF OpenListenSocket, ThreadMoves, MakerIsAlone, instance, Making, Closing
  <1>6. ASSUME NEW t \in Threads, JoinGroup(t) PROVE MakerIsAlone'
    BY <1>0, <1>6, EachMoves DEF JoinGroup, ThreadMoves, MakerIsAlone, sockets, Making, Closing
  <1>7. ASSUME NEW t \in Threads, InitFails(t) PROVE MakerIsAlone'
    BY <1>0, <1>7, EachMoves DEF InitFails, ThreadMoves, MakerIsAlone, sockets, instance, Making, Closing
  <1>8. ASSUME NEW t \in Threads, Shutdown(t) PROVE MakerIsAlone'
    BY <1>0, <1>8, EachMoves DEF Shutdown, ThreadMoves, MakerIsAlone, sockets, instance, Making, Closing
  <1>9. ASSUME NEW t \in Threads, CloseNotifySocket(t) \/ CloseListenSocket(t) PROVE MakerIsAlone'
    <2>1. ThreadMoves(t, Closing, Closing)
      BY <1>0, <1>9, EachMoves DEF ThreadMoves, Closing
    <2>2. UNCHANGED <<notify_fd, listen_fd, is_shutdown, maker, made>>
      BY <1>9 DEF CloseNotifySocket, CloseListenSocket, sockets, instance
    <2> QED
      BY <1>0, <2>1, <2>2 DEF ThreadMoves, MakerIsAlone, Making, Closing
  <1>10. ASSUME NEW t \in Threads, ForgetNotifySocket(t) PROVE MakerIsAlone'
    BY <1>0, <1>10, EachMoves DEF ForgetNotifySocket, ThreadMoves, MakerIsAlone, instance, Making, Closing, MulticastInv, OneCloses
  <1>11. ASSUME NEW t \in Threads, ForgetListenSocket(t) PROVE MakerIsAlone'
    BY <1>0, <1>11, EachMoves DEF ForgetListenSocket, ThreadMoves, MakerIsAlone, Making, Closing, MulticastInv, OneCloses
  <1> QED
    BY <1>0, <1>1, <1>2, <1>3, <1>4, <1>5, <1>6, <1>7, <1>8, <1>9, <1>10, <1>11, MulticastSteps

\* Whoever sets is_shutdown first closes, and nobody else does.
LEMMA OneClosesStep == MulticastInv /\ [MulticastNext]_multicastVars => OneCloses'
  <1> SUFFICES ASSUME MulticastInv, [MulticastNext]_multicastVars PROVE OneCloses'
    OBVIOUS
  <1>0. MulticastTypeOK /\ MakerIsAlone /\ OneCloses
    BY DEF MulticastInv
  <1>1. CASE Outside
    BY <1>0, <1>1 DEF Outside, OneCloses
  <1>2. ASSUME NEW t \in Threads, Calls(t) PROVE OneCloses'
    BY <1>0, <1>2 DEF Calls, ThreadMoves, OneCloses, Calling, Closing
  <1>3. ASSUME NEW t \in Threads, Instance(t) \/ OpenNotifySocket(t) \/ OpenListenSocket(t) \/ JoinGroup(t) PROVE OneCloses'
    <2>1. is_shutdown' = is_shutdown
      BY <1>3 DEF Instance, OpenNotifySocket, OpenListenSocket, JoinGroup
    <2> QED
      BY <1>0, <1>3, <2>1, EachMoves DEF ThreadMoves, OneCloses, Closing
  <1>4. ASSUME NEW t \in Threads, InitFails(t) PROVE OneCloses'
    BY <1>0, <1>4, EachMoves DEF InitFails, ThreadMoves, OneCloses, MakerIsAlone, Closing, Making
  <1>5. ASSUME NEW t \in Threads, Shutdown(t) PROVE OneCloses'
    BY <1>0, <1>5, EachMoves DEF Shutdown, ThreadMoves, OneCloses, Closing
  <1>6. ASSUME NEW t \in Threads,
               CloseNotifySocket(t) \/ ForgetNotifySocket(t) \/ CloseListenSocket(t) \/ ForgetListenSocket(t)
        PROVE  OneCloses'
    <2>1. is_shutdown' = is_shutdown
      BY <1>6 DEF CloseNotifySocket, ForgetNotifySocket, CloseListenSocket, ForgetListenSocket
    <2> QED
      BY <1>0, <1>6, <2>1, EachMoves DEF ThreadMoves, OneCloses, Closing
  <1> QED
    BY <1>0, <1>1, <1>2, <1>3, <1>4, <1>5, <1>6, MulticastSteps

\* What has been closed is forgotten in order, and the fields stand for what is
\* still open.
LEMMA ProgressStep == MulticastInv /\ [MulticastNext]_multicastVars => Progress'
  <1> SUFFICES ASSUME MulticastInv, [MulticastNext]_multicastVars PROVE Progress'
    OBVIOUS
  <1> USE MulticastAssumption
  <1>0. MulticastTypeOK /\ MakerIsAlone /\ OneCloses /\ Progress
    BY DEF MulticastInv
  <1>1. CASE Outside
    BY <1>0, <1>1 DEF Outside, SameSockets, Progress, NotifyIsOwn, ListenIsOwn, NoNotify, NoListen, sockets
  <1>2. ASSUME NEW t \in Threads, Calls(t) PROVE Progress'
    BY <1>0, <1>2 DEF Calls, ThreadMoves, Progress, NotifyIsOwn, ListenIsOwn, NoNotify, NoListen, sockets, Calling, Closing
  <1>3. ASSUME NEW t \in Threads, Instance(t) PROVE Progress'
    <2>1. UNCHANGED <<notify_fd, listen_fd, is_shutdown, open>> /\ ThreadMoves(t, {"none"}, {"socket", "idle"})
      BY <1>0, <1>3, EachMoves DEF Instance, sockets
    <2> QED
      BY <1>0, <2>1 DEF ThreadMoves, Progress, NotifyIsOwn, ListenIsOwn, NoNotify, NoListen, Closing
  <1>4. ASSUME NEW t \in Threads, OpenNotifySocket(t) \/ OpenListenSocket(t) \/ JoinGroup(t) PROVE Progress'
    <2>1. ~is_shutdown /\ \A u \in Threads : thread_pc[u] \notin Closing
      BY <1>0, <1>4 DEF OpenNotifySocket, OpenListenSocket, JoinGroup, MakerIsAlone, Making, OneCloses
    <2>2. ~is_shutdown' /\ \A u \in Threads : thread_pc'[u] \notin Closing
      <3>1. ThreadMoves(t, Making, {"socket2", "join", "idle"})
        BY <1>0, <1>4, EachMoves DEF ThreadMoves, Making
      <3>2. is_shutdown' = is_shutdown
        BY <1>4 DEF OpenNotifySocket, OpenListenSocket, JoinGroup
      <3> QED
        BY <2>1, <3>1, <3>2 DEF ThreadMoves, Closing
    <2> QED
      BY <2>2 DEF Progress, Closing
  <1>5. ASSUME NEW t \in Threads, InitFails(t) PROVE Progress'
    <2>1. NotifyIsOwn /\ ListenIsOwn /\ (\A u \in Threads : thread_pc[u] \notin Closing)
      BY <1>0, <1>5 DEF InitFails, MakerIsAlone, Making, OneCloses, MulticastTypeOK, NotifyIsOwn, ListenIsOwn
    <2>2. UNCHANGED <<notify_fd, listen_fd, open>> /\ ThreadMoves(t, Making, {"close"})
      BY <1>0, <1>5, EachMoves DEF InitFails, sockets
    <2> QED
      BY <2>1, <2>2 DEF ThreadMoves, Progress, NotifyIsOwn, ListenIsOwn, NoNotify, NoListen, Closing
  <1>6. ASSUME NEW t \in Threads, Shutdown(t) PROVE Progress'
    <2>1. UNCHANGED <<notify_fd, listen_fd, open>> /\ is_shutdown'
          /\ ThreadMoves(t, {"idle"}, {IF is_shutdown THEN "idle" ELSE "close"})
      BY <1>0, <1>6, EachMoves DEF Shutdown, sockets
    <2>2. ~is_shutdown => NotifyIsOwn /\ ListenIsOwn /\ \A u \in Threads : thread_pc[u] \notin Closing
      BY <1>0 DEF MulticastTypeOK, NotifyIsOwn, ListenIsOwn, OneCloses
    <2> QED
      BY <1>0, <2>1, <2>2 DEF ThreadMoves, Progress, NotifyIsOwn, ListenIsOwn, NoNotify, NoListen, Closing
  <1>7. ASSUME NEW t \in Threads,
               CloseNotifySocket(t) \/ ForgetNotifySocket(t) \/ CloseListenSocket(t) \/ ForgetListenSocket(t)
        PROVE  Progress'
    <2>0. thread_pc[t] \in Closing /\ is_shutdown /\ \A u \in Threads : u # t => thread_pc[u] \notin Closing
      BY <1>0, <1>7 DEF CloseNotifySocket, ForgetNotifySocket, CloseListenSocket, ForgetListenSocket, OneCloses, Closing
    <2>1. CASE CloseNotifySocket(t)
      <3>1. ThreadMoves(t, {"close"}, {"forget"}) /\ UNCHANGED <<notify_fd, listen_fd, is_shutdown>>
        BY <1>0, <2>1, EachMoves DEF CloseNotifySocket, sockets
      <3>2. NoNotify' /\ ListenIsOwn'
        <4>1. NotifyIsOwn /\ ListenIsOwn /\ notify_fd \in Fds \cup {-1} /\ listen_fd' = listen_fd
          BY <1>0, <2>1 DEF CloseNotifySocket, sockets, Progress, MulticastTypeOK
        <4>2. CASE notify_fd = -1
          <5>1. open' = open /\ NoNotify
            BY <2>1, <4>1, <4>2 DEF CloseNotifySocket, NoNotify, NotifyIsOwn, Fds
          <5> QED
            BY <4>1, <5>1 DEF NoNotify, ListenIsOwn
        <4>3. CASE notify_fd # -1
          <5>1. open' = [open EXCEPT ![notify_fd] = "free"] /\ notify_fd \in Fds /\ open[notify_fd] = "notify"
            BY <2>1, <4>1, <4>3 DEF CloseNotifySocket, NotifyIsOwn
          <5>2. \A f \in Fds : open'[f] = IF f = notify_fd THEN "free" ELSE open[f]
            BY <1>0, <5>1 DEF MulticastTypeOK
          <5> QED
            BY <4>1, <5>1, <5>2 DEF NoNotify, ListenIsOwn, NotifyIsOwn
        <4> QED
          BY <4>2, <4>3
      <3> QED
        BY <2>0, <3>1, <3>2 DEF ThreadMoves, Progress, Closing
    <2>2. CASE ForgetNotifySocket(t)
      <3>1. ThreadMoves(t, {"forget"}, {"close2"})
        BY <1>0, <2>2, EachMoves
      <3>2. NoNotify' /\ ListenIsOwn'
        BY <1>0, <2>2 DEF ForgetNotifySocket, Progress, NoNotify, ListenIsOwn
      <3> QED
        BY <2>0, <3>1, <3>2 DEF ThreadMoves, Progress, Closing
    <2>3. CASE CloseListenSocket(t)
      <3>1. ThreadMoves(t, {"close2"}, {"forget2"})
        BY <1>0, <2>3, EachMoves
      <3>2. NoNotify' /\ NoListen'
        BY <1>0, <2>3 DEF CloseListenSocket, sockets, Progress, NoNotify, NoListen, ListenIsOwn, MulticastTypeOK, Fds
      <3> QED
        BY <2>0, <3>1, <3>2 DEF ThreadMoves, Progress, Closing
    <2>4. CASE ForgetListenSocket(t)
      <3>1. ThreadMoves(t, {"forget2"}, {"idle"})
        BY <1>0, <2>4, EachMoves
      <3>2. NoNotify' /\ NoListen'
        BY <1>0, <2>4 DEF ForgetListenSocket, Progress, NoNotify, NoListen
      <3> QED
        BY <2>0, <3>1, <3>2 DEF ThreadMoves, Progress, Closing
    <2> QED
      BY <1>7, <2>1, <2>2, <2>3, <2>4
  <1> QED
    BY <1>0, <1>1, <1>2, <1>3, <1>4, <1>5, <1>6, <1>7, MulticastSteps

\* The fields of a notifier change only before it is made and when it shuts down,
\* so what a call has read is still the socket.
LEMMA InHandStep == MulticastInv /\ [MulticastNext]_multicastVars => InHand'
  <1> SUFFICES ASSUME MulticastInv, [MulticastNext]_multicastVars, ~is_shutdown' PROVE InHand'
    BY DEF InHand
  <1>0. MulticastTypeOK /\ MakerIsAlone /\ OneCloses /\ InHand
    BY DEF MulticastInv
  <1>1. CASE Outside
    BY <1>0, <1>1 DEF Outside, InHand, sockets
  <1>2. ASSUME NEW t \in Threads,
               Notify(t) \/ Listen(t) \/ ReadNotifyFd(t) \/ SendTo(t) \/ ReadListenFd(t) \/ Poll(t)
                   \/ ReadListenFdAgain(t) \/ ReceiveFrom(t)
        PROVE  InHand'
    <2>1. CASE Notify(t) \/ Listen(t)
      <3>1. UNCHANGED <<notify_fd, listen_fd, is_shutdown, fd>> /\ ThreadMoves(t, {"idle"}, {"notify", "listen"})
        BY <1>0, <2>1, EachMoves DEF Notify, Listen, sockets, ThreadMoves
      <3> QED
        BY <1>0, <3>1 DEF ThreadMoves, InHand
    <2>2. CASE ReadNotifyFd(t)
      <3>1. UNCHANGED <<notify_fd, listen_fd, is_shutdown>> /\ ThreadMoves(t, {"notify"}, {"send"})
            /\ fd' = [fd EXCEPT ![t] = notify_fd]
        BY <1>0, <2>2, EachMoves DEF ReadNotifyFd, sockets
      <3> QED
        BY <1>0, <3>1 DEF ThreadMoves, InHand, MulticastTypeOK
    <2>3. CASE ReadListenFd(t) \/ ReadListenFdAgain(t)
      <3>1. UNCHANGED <<notify_fd, listen_fd, is_shutdown>> /\ ThreadMoves(t, {"listen", "receive"}, {"poll", "take"})
            /\ fd' = [fd EXCEPT ![t] = listen_fd]
        BY <1>0, <2>3, EachMoves DEF ReadListenFd, ReadListenFdAgain, sockets, ThreadMoves
      <3> QED
        BY <1>0, <3>1 DEF ThreadMoves, InHand, MulticastTypeOK
    <2>4. CASE SendTo(t) \/ Poll(t) \/ ReceiveFrom(t)
      <3>1. UNCHANGED <<notify_fd, listen_fd, is_shutdown, fd>> /\ ThreadMoves(t, {"send", "poll", "take"}, {"idle", "receive"})
        BY <1>0, <2>4, EachMoves DEF SendTo, Poll, ReceiveFrom, sockets, ThreadMoves
      <3> QED
        BY <1>0, <3>1 DEF ThreadMoves, InHand
    <2> QED
      BY <1>2, <2>1, <2>2, <2>3, <2>4
  <1>3. ASSUME NEW t \in Threads, Instance(t) PROVE InHand'
    <2>1. UNCHANGED <<notify_fd, listen_fd, is_shutdown, fd>> /\ ThreadMoves(t, {"none"}, {"socket", "idle"})
      BY <1>0, <1>3, EachMoves DEF Instance, sockets
    <2> QED
      BY <1>0, <2>1 DEF ThreadMoves, InHand
  <1>4. ASSUME NEW t \in Threads, OpenNotifySocket(t) \/ OpenListenSocket(t) \/ JoinGroup(t) PROVE InHand'
    <2>1. \A u \in Threads : thread_pc[u] # "none" => u = t
      BY <1>0, <1>4 DEF OpenNotifySocket, OpenListenSocket, JoinGroup, MakerIsAlone, Making
    <2>2. ThreadMoves(t, Making, {"socket2", "join", "idle"})
      BY <1>0, <1>4, EachMoves DEF ThreadMoves, Making
    <2> QED
      BY <2>1, <2>2 DEF ThreadMoves, InHand
  <1>5. ASSUME NEW t \in Threads,
               \/ InitFails(t) \/ Shutdown(t) \/ CloseNotifySocket(t) \/ ForgetNotifySocket(t)
               \/ CloseListenSocket(t) \/ ForgetListenSocket(t)
        PROVE  is_shutdown'
    BY <1>0, <1>5 DEF InitFails, Shutdown, CloseNotifySocket, ForgetNotifySocket, CloseListenSocket, ForgetListenSocket, OneCloses, Closing
  <1> QED
    BY <1>0, <1>1, <1>2, <1>3, <1>4, <1>5, MulticastSteps

\* Only what the fields stand for is closed.
LEMMA ClosedStep == MulticastInv /\ [MulticastNext]_multicastVars => ClosedWereItsOwn'
  <1> SUFFICES ASSUME MulticastInv, [MulticastNext]_multicastVars PROVE ClosedWereItsOwn'
    OBVIOUS
  <1>0. MulticastTypeOK /\ Progress /\ ClosedWereItsOwn
    BY DEF MulticastInv
  <1>1. ASSUME NEW t \in Threads, CloseNotifySocket(t) PROVE ClosedWereItsOwn'
    BY <1>0, <1>1 DEF CloseNotifySocket, Progress, NotifyIsOwn, ClosedWereItsOwn, MulticastTypeOK, Is, Fds
  <1>2. ASSUME NEW t \in Threads, CloseListenSocket(t) PROVE ClosedWereItsOwn'
    BY <1>0, <1>2 DEF CloseListenSocket, Progress, ListenIsOwn, ClosedWereItsOwn, MulticastTypeOK, Is, Fds
  <1>3. ASSUME \/ Outside \/ \E t \in Threads : Calls(t)
               \/ \E t \in Threads : \/ Instance(t) \/ OpenNotifySocket(t) \/ OpenListenSocket(t) \/ JoinGroup(t) \/ InitFails(t)
                                     \/ Shutdown(t) \/ ForgetNotifySocket(t) \/ ForgetListenSocket(t)
        PROVE  closed' = closed
    BY <1>3 DEF Outside, Calls, Instance, OpenNotifySocket, OpenListenSocket, JoinGroup, InitFails, Shutdown, ForgetNotifySocket,
       ForgetListenSocket, history
  <1> QED
    BY <1>0, <1>1, <1>2, <1>3, MulticastSteps DEF ClosedWereItsOwn

\* A call meets a descriptor of somebody else only after a shutdown.
LEMMA ForeignStep == MulticastInv /\ [MulticastNext]_multicastVars => ForeignOnlyIfShutDown'
  <1> SUFFICES ASSUME MulticastInv, [MulticastNext]_multicastVars PROVE ForeignOnlyIfShutDown'
    OBVIOUS
  <1>0. MulticastTypeOK /\ MakerIsAlone /\ InHand /\ ForeignOnlyIfShutDown /\ OneCloses
    BY DEF MulticastInv
  <1>1. ASSUME NEW t \in Threads, SendTo(t) \/ Poll(t) \/ ReceiveFrom(t), ~is_shutdown PROVE foreign' = foreign
    <2>1. made
      BY <1>0, <1>1 DEF SendTo, Poll, ReceiveFrom, MakerIsAlone, Making, Closing
    <2>2. notify_fd \in Fds /\ listen_fd \in Fds /\ open[notify_fd] = "notify" /\ open[listen_fd] = "listen"
      BY <1>0, <1>1, <2>1 DEF MakerIsAlone, MulticastTypeOK
    <2>3. SendTo(t) => Is(fd[t]) = "notify"
      BY <1>0, <1>1, <2>2 DEF SendTo, InHand, Is
    <2>4. Poll(t) \/ ReceiveFrom(t) => Is(fd[t]) = "listen"
      BY <1>0, <1>1, <2>2 DEF Poll, ReceiveFrom, InHand, Is
    <2> QED
      BY <1>1, <2>3, <2>4 DEF SendTo, Poll, ReceiveFrom
  <1>2. ASSUME \/ Outside
               \/ \E t \in Threads :
                    \/ Notify(t) \/ Listen(t) \/ ReadNotifyFd(t) \/ ReadListenFd(t) \/ ReadListenFdAgain(t)
                    \/ Instance(t) \/ OpenNotifySocket(t) \/ OpenListenSocket(t) \/ JoinGroup(t) \/ InitFails(t)
                    \/ Shutdown(t) \/ CloseNotifySocket(t) \/ ForgetNotifySocket(t) \/ CloseListenSocket(t) \/ ForgetListenSocket(t)
        PROVE  foreign' = foreign
    BY <1>2 DEF Outside, Notify, Listen, ReadNotifyFd, ReadListenFd, ReadListenFdAgain, Instance, OpenNotifySocket, OpenListenSocket,
       JoinGroup, InitFails, Shutdown, CloseNotifySocket, ForgetNotifySocket, CloseListenSocket, ForgetListenSocket, history
  <1>3. is_shutdown => is_shutdown'
    <2>1. ASSUME NEW t \in Threads,
                 \/ Instance(t) \/ OpenNotifySocket(t) \/ OpenListenSocket(t) \/ JoinGroup(t) \/ InitFails(t)
                 \/ Shutdown(t) \/ CloseNotifySocket(t) \/ ForgetNotifySocket(t) \/ CloseListenSocket(t) \/ ForgetListenSocket(t)
          PROVE  is_shutdown' \in {is_shutdown, TRUE}
      BY <2>1 DEF Instance, OpenNotifySocket, OpenListenSocket, JoinGroup, InitFails, Shutdown,
         CloseNotifySocket, ForgetNotifySocket, CloseListenSocket, ForgetListenSocket
    <2> QED
      BY <1>0, <2>1, MulticastSteps DEF Outside, Calls
  <1>4. CASE foreign' = foreign
    BY <1>0, <1>3, <1>4 DEF ForeignOnlyIfShutDown
  <1>5. CASE is_shutdown
    BY <1>3, <1>5 DEF ForeignOnlyIfShutDown
  <1> QED
    BY <1>0, <1>1, <1>2, <1>4, <1>5, MulticastSteps
\* The rest of the type: while nobody shuts down the fields stand for the sockets,
\* and a socket in the group is open.
LEMMA OwnStep == MulticastInv /\ [MulticastNext]_multicastVars => (~is_shutdown => NotifyIsOwn /\ ListenIsOwn)'
  <1> SUFFICES ASSUME MulticastInv, [MulticastNext]_multicastVars, ~is_shutdown' PROVE NotifyIsOwn' /\ ListenIsOwn'
    OBVIOUS
  <1>0. MulticastTypeOK /\ MakerIsAlone /\ OneCloses
    BY DEF MulticastInv
  <1>1. ASSUME ~is_shutdown PROVE NotifyIsOwn /\ ListenIsOwn
    BY <1>0, <1>1 DEF MulticastTypeOK, NotifyIsOwn, ListenIsOwn
  <1>2. CASE Outside
    BY <1>1, <1>2 DEF Outside, SameSockets, NotifyIsOwn, ListenIsOwn, sockets
  <1>3. ASSUME NEW t \in Threads, Calls(t) \/ Instance(t) \/ JoinGroup(t) PROVE NotifyIsOwn' /\ ListenIsOwn'
    <2>1. UNCHANGED <<notify_fd, listen_fd, open, is_shutdown>>
      BY <1>3 DEF Calls, Instance, JoinGroup, sockets
    <2> QED
      BY <1>1, <2>1 DEF NotifyIsOwn, ListenIsOwn
  <1>4. ASSUME NEW t \in Threads, OpenNotifySocket(t) PROVE NotifyIsOwn' /\ ListenIsOwn'
    <2>1. is_shutdown' = is_shutdown /\ listen_fd' = listen_fd /\ listen_fd = -1 /\ notify_fd = -1
      BY <1>0, <1>4 DEF OpenNotifySocket, MakerIsAlone
    <2>2. PICK f \in Fds : open[f] = "free" /\ notify_fd' = f /\ open' = [open EXCEPT ![f] = "notify"]
      BY <1>4 DEF OpenNotifySocket, Lowest
    <2>3. \A g \in Fds : open'[g] = IF g = f THEN "notify" ELSE open[g]
      BY <1>0, <2>2 DEF MulticastTypeOK
    <2>4. -1 \notin Fds
      BY DEF Fds
    <2> QED
      BY <1>1, <2>1, <2>2, <2>3, <2>4 DEF NotifyIsOwn, ListenIsOwn
  <1>5. ASSUME NEW t \in Threads, OpenListenSocket(t) PROVE NotifyIsOwn' /\ ListenIsOwn'
    <2>1. is_shutdown' = is_shutdown /\ notify_fd' = notify_fd /\ listen_fd = -1
      BY <1>0, <1>5 DEF OpenListenSocket, MakerIsAlone
    <2>2. PICK f \in Fds : open[f] = "free" /\ listen_fd' = f /\ open' = [open EXCEPT ![f] = "listen"]
      BY <1>5 DEF OpenListenSocket, Lowest
    <2>3. \A g \in Fds : open'[g] = IF g = f THEN "listen" ELSE open[g]
      BY <1>0, <2>2 DEF MulticastTypeOK
    <2>4. -1 \notin Fds
      BY DEF Fds
    <2> QED
      BY <1>1, <2>1, <2>2, <2>3, <2>4 DEF NotifyIsOwn, ListenIsOwn
  <1>6. ASSUME NEW t \in Threads,
               \/ InitFails(t) \/ Shutdown(t) \/ CloseNotifySocket(t) \/ ForgetNotifySocket(t)
               \/ CloseListenSocket(t) \/ ForgetListenSocket(t)
        PROVE  is_shutdown'
    BY <1>0, <1>6 DEF InitFails, Shutdown, CloseNotifySocket, ForgetNotifySocket, CloseListenSocket, ForgetListenSocket, OneCloses, Closing
  <1> QED
    BY <1>0, <1>2, <1>3, <1>4, <1>5, <1>6, MulticastSteps

\* A socket in the group is open: it is joined by the thread that has opened it,
\* and leaves when it is closed.
LEMMA JoinedStep == MulticastInv /\ [MulticastNext]_multicastVars => (in_group => \E f \in Fds : open[f] = "listen")'
  <1> SUFFICES ASSUME MulticastInv, [MulticastNext]_multicastVars, in_group' PROVE \E f \in Fds : open'[f] = "listen"
    OBVIOUS
  <1>0. MulticastTypeOK /\ MakerIsAlone /\ Progress
    BY DEF MulticastInv
  <1>1. ASSUME in_group PROVE \E f \in Fds : open[f] = "listen"
    BY <1>0, <1>1 DEF MulticastTypeOK
  <1>2. ASSUME NEW i \in Infos, OthersNotify(i) \/ Arrive(i) \/ Lose(i) PROVE UNCHANGED <<open, in_group>>
    BY <1>2 DEF OthersNotify, Arrive, Lose, network
  <1>3. CASE Elsewhere
    BY <1>0, <1>1, <1>3 DEF Elsewhere, network, MulticastTypeOK, Lowest
  <1>4. ASSUME NEW t \in Threads,
               \/ Notify(t) \/ Listen(t) \/ ReadNotifyFd(t) \/ SendTo(t) \/ ReadListenFd(t) \/ Poll(t)
               \/ ReadListenFdAgain(t) \/ ReceiveFrom(t) \/ Instance(t) \/ InitFails(t) \/ Shutdown(t)
               \/ ForgetNotifySocket(t) \/ ForgetListenSocket(t)
        PROVE  UNCHANGED <<open, in_group>>
    BY <1>4 DEF Notify, Listen, ReadNotifyFd, SendTo, ReadListenFd, Poll, ReadListenFdAgain, ReceiveFrom, Instance, InitFails, Shutdown,
       ForgetNotifySocket, ForgetListenSocket, network
  <1>5. ASSUME NEW t \in Threads, OpenNotifySocket(t) \/ OpenListenSocket(t) PROVE \E f \in Fds : open'[f] = "listen"
    <2>1. in_group
      BY <1>5 DEF OpenNotifySocket, OpenListenSocket, network
    <2> QED
      BY <1>0, <1>1, <1>5, <2>1 DEF OpenNotifySocket, OpenListenSocket, Lowest, MulticastTypeOK
  <1>6. ASSUME NEW t \in Threads, JoinGroup(t) PROVE \E f \in Fds : open'[f] = "listen"
    BY <1>0, <1>6 DEF JoinGroup, MakerIsAlone, Making, MulticastTypeOK
  <1>7. ASSUME NEW t \in Threads, CloseNotifySocket(t) PROVE \E f \in Fds : open'[f] = "listen"
    <2>1. in_group
      BY <1>7 DEF CloseNotifySocket, network
    <2>2. NotifyIsOwn
      BY <1>0, <1>7 DEF CloseNotifySocket, Progress
    <2> QED
      BY <1>0, <1>1, <1>7, <2>1, <2>2 DEF CloseNotifySocket, NotifyIsOwn, MulticastTypeOK
  <1>8. ASSUME NEW t \in Threads, CloseListenSocket(t) PROVE \E f \in Fds : open'[f] = "listen"
    <2>1. ListenIsOwn
      BY <1>0, <1>8 DEF CloseListenSocket, Progress
    <2>2. listen_fd # -1 => ~in_group'
      BY <1>8 DEF CloseListenSocket
    <2>3. listen_fd = -1 => UNCHANGED <<open, in_group>>
      BY <1>8 DEF CloseListenSocket
    <2> QED
      BY <1>1, <2>2, <2>3
  <1> QED
    BY <1>1, <1>2, <1>3, <1>4, <1>5, <1>6, <1>7, <1>8 DEF MulticastNext, MulticastStep, multicastVars, network

-----------------------------------------------------------------------------
(* MulticastNotifier: the theorem *)

\* Sockets are closed once and by one thread, none is left after a shutdown, also
\* of a constructor that failed half way, and before one no call uses a descriptor
\* of somebody else: for any threads and descriptors.
THEOREM SocketsAreItsOwn == MulticastSpec => []ClosesItsOwn
  <1>1. MulticastInv /\ [MulticastNext]_multicastVars => MulticastInv'
    <2> SUFFICES ASSUME MulticastInv, [MulticastNext]_multicastVars PROVE MulticastInv'
      OBVIOUS
    <2>1. MulticastTypeOK'
      BY FieldTypes, BufferStep, LabelStep, OwnStep, JoinedStep DEF MulticastTypeOK, NotifyIsOwn, ListenIsOwn
    <2> QED
      BY <2>1, MakerStep, OneClosesStep, ProgressStep, InHandStep, ClosedStep, ForeignStep DEF MulticastInv
  <1>2. MulticastInv => ClosesItsOwn
    BY DEF MulticastInv, ClosesItsOwn, Progress, NoSocketIsLeft, NoNotify, NoListen, Closing
  <1> QED
    BY <1>1, <1>2, MulticastInitEstablishes, PTL DEF MulticastSpec

-----------------------------------------------------------------------------
(* Logger: invariant *)

LogPlaces == {"idle", "header", "space", "content", "newline", "test", "close", "rename", "reopen"}

Pieces == Nat \X LogPlaces

LogTypes ==
    /\ files \in Seq(Seq(Pieces))
    /\ fout \in 0 .. Len(files) /\ log \in 0 .. Len(files)
    /\ rotated \in [Seconds -> 0 .. Len(files)] /\ replaced \subseteq 0 .. Len(files)
    /\ now \in Seconds /\ begun \in Nat
    /\ log_pc \in [Loggers -> LogPlaces]
    /\ line \in [Loggers -> 0 .. begun]
    /\ fail \in BOOLEAN /\ named \in BOOLEAN /\ app \in BOOLEAN

\* Whose line nobody has raced is alone.
LogsAlone == \A t \in Busy : line[t] \notin raced => Busy = {t}

\* The last i pieces of the file f are the first i parts of the line n.
EndsWith(f, n, i) ==
    /\ f # 0 /\ Len(files[f]) >= i
    /\ \A j \in 1 .. i : files[f][Len(files[f]) - i + j] = <<n, Parts[j]>>

WholeLine(f, n) == \E i \in 1 .. Len(files[f]) - 3 : \A j \in 1 .. 4 : files[f][i + j - 1] = <<n, Parts[j]>>

Reachable == (Named \cup replaced) \ {0}

Kept(n) == \E f \in Reachable : WholeLine(f, n)

\* How much of its line an undisturbed thread has written.
WrittenSoFar ==
    \A t \in Busy :
        line[t] \notin raced \cup astray =>
            /\ \A i \in 2 .. 4 : log_pc[t] = Parts[i] => EndsWith(fout, line[t], i - 1)
            /\ log_pc[t] \in {"test", "close", "rename", "reopen"} => Kept(line[t])

StreamIsReachable == fout # 0 => fout \in Reachable

\* What the stream is, as long as nobody has raced.
AppIsServed ==
    raced = {} =>
        /\ fout \in {0, log}
        /\ app => named
        /\ \A t \in Busy : app \/ line[t] \in unopened
        /\ (app /\ \A t \in Loggers : log_pc[t] \notin {"rename", "reopen"}) => fout # 0 /\ ~fail
        /\ \A t \in Loggers :
               /\ log_pc[t] = "rename" => fout = 0 /\ (app => log # 0 /\ ~fail)
               /\ log_pc[t] = "reopen" => fout = 0 /\ log = 0

\* Lines are numbered by their begin.
LinesAreBegun == \A f \in 1 .. Len(files) : \A n \in LinesOf(f) : n <= begun

\* Where the files and the line under way stand, as long as nobody has raced.
FilesArePlaced ==
    raced = {} =>
        /\ \A s \in Seconds : rotated[s] # 0 => s <= now /\ rotated[s] # log
        /\ \A t \in Busy : log_pc[t] # "reopen" =>
               /\ \A s \in Seconds : \A n \in LinesOf(rotated[s]) : n < line[t]
               /\ \A n \in LinesOf(log) : n <= line[t]

LogInv ==
    /\ LogTypes
    /\ LogsAlone /\ WrittenSoFar /\ StreamIsReachable
    /\ AppIsServed /\ LinesAreBegun /\ FilesArePlaced
    /\ LogIsKept

-----------------------------------------------------------------------------
(* Logger: what the steps do to the files *)

FileOpens ==
    /\ files' \in Seq(Seq(Pieces)) /\ Len(files') = Len(files) + 1
    /\ files'[Len(files) + 1] = <<>>
    /\ \A f \in 1 .. Len(files) : files'[f] = files[f]

FileGrows(t) ==
    /\ files' \in Seq(Seq(Pieces)) /\ Len(files') = Len(files)
    /\ files'[fout] = Append(files[fout], <<line[t], log_pc[t]>>)
    /\ \A f \in 1 .. Len(files) : f # fout => files'[f] = files[f]

LEMMA OpenEffect ==
    ASSUME LogTypes, OpenFile
    PROVE  \/ fout # 0 /\ fail' = TRUE /\ UNCHANGED <<fout, log, files>>
           \/ fout = 0 /\ log # 0 /\ fail' = FALSE /\ fout' = log /\ UNCHANGED <<log, files>>
           \/ fout = 0 /\ log = 0 /\ fail' = FALSE /\ log' = Len(files) + 1 /\ log' # 0 /\ fout' = log' /\ FileOpens
<1>1. CASE fout = 0 /\ log = 0
  <2>1. files' = Append(files, <<>>) /\ <<>> \in Seq(Pieces)
    BY <1>1, EmptySeq DEF OpenFile
  <2>2. FileOpens
    BY <2>1, AppendProperties DEF FileOpens, LogTypes
  <2>3. Len(files) + 1 # 0
    BY DEF LogTypes
  <2> QED
    BY <1>1, <2>2, <2>3 DEF OpenFile
<1> QED
  BY <1>1 DEF OpenFile

LEMMA InsertEffect ==
    ASSUME LogTypes, NEW t \in Loggers, Insert(t)
    PROVE  \/ fout # 0 /\ ~fail /\ FileGrows(t) /\ UNCHANGED <<fail, astray>>
           \/ fail' = TRUE /\ astray' = astray \cup {line[t]} /\ UNCHANGED files /\ (fout = 0 \/ fail)
<1>1. CASE fout # 0 /\ ~fail
  <2> DEFINE piece == <<line[t], log_pc[t]>>
  <2>1. piece \in Pieces
    BY DEF LogTypes, Pieces
  <2>2. fout \in 1 .. Len(files) /\ files[fout] \in Seq(Pieces)
    BY <1>1, ElementOfSeq DEF LogTypes
  <2>3. files' = [files EXCEPT ![fout] = Append(files[fout], piece)]
    BY <1>1 DEF Insert
  <2>4. Append(files[fout], piece) \in Seq(Pieces)
    BY <2>1, <2>2, AppendProperties
  <2> HIDE DEF piece
  <2>5. /\ files' \in Seq(Seq(Pieces)) /\ Len(files') = Len(files)
        /\ \A f \in 1 .. Len(files) : files'[f] = IF f = fout THEN Append(files[fout], piece) ELSE files[f]
    BY <2>2, <2>3, <2>4, ExceptSeq DEF LogTypes
  <2>6. FileGrows(t)
    BY <2>2, <2>5 DEF FileGrows, piece
  <2> QED
    BY <1>1, <2>6 DEF Insert
<1> QED
  BY <1>1 DEF Insert

LogMoves(t) ==
    \/ Open(t) \/ Close(t) \/ Log(t)
    \/ Insert(t) \/ Test(t) \/ RotateClose(t) \/ Rename(t) \/ Reopen(t)

LEMMA LogSteps ==
    ASSUME [LoggerNext]_loggerVars
    PROVE  \/ \E t \in Loggers : LogMoves(t)
           \/ Tick
           \/ UNCHANGED loggerVars
BY DEF LoggerNext, LogMoves

\* A step opens a file, adds a piece to one, or leaves them as they are.
LEMMA FilesMove ==
    ASSUME LogTypes, NEW t \in Loggers, LogMoves(t)
    PROVE  \/ UNCHANGED files
           \/ FileOpens
           \/ fout # 0 /\ FileGrows(t)
<1>1. CASE Open(t)
  BY <1>1, OpenEffect DEF Open
<1>2. CASE Reopen(t)
  BY <1>2, OpenEffect DEF Reopen
<1>3. CASE Insert(t)
  BY <1>3, InsertEffect
<1>4. CASE Close(t) \/ Log(t) \/ Test(t) \/ RotateClose(t) \/ Rename(t)
  BY <1>4 DEF Close, Log, Test, RotateClose, Rename, fileVars
<1> QED
  BY <1>1, <1>2, <1>3, <1>4 DEF LogMoves

LEMMA LineNumbers ==
    ASSUME LogTypes, NEW f \in 0 .. Len(files), NEW n \in LinesOf(f)
    PROVE  n \in Nat
<1>1. f \in 1 .. Len(files)
  BY DEF LinesOf, LogTypes
<1>2. files[f] \in Seq(Pieces)
  BY <1>1, ElementOfSeq DEF LogTypes
<1>3. PICK piece \in Range(files[f]) : n = piece[1]
  BY <1>1 DEF LinesOf
<1>4. piece \in Pieces
  BY <1>2, <1>3, ElementOfSeq, LenProperties DEF Range
<1> QED
  BY <1>3, <1>4 DEF Pieces

LEMMA LinesStay ==
    ASSUME NEW f, files'[f] = files[f]
    PROVE  LinesOf(f)' = LinesOf(f)
BY DEF LinesOf

LEMMA LinesOpen ==
    ASSUME LogTypes, FileOpens
    PROVE  /\ \A f \in 0 .. Len(files) : LinesOf(f)' = LinesOf(f)
           /\ \A f : f = Len(files) + 1 => LinesOf(f)' = {}
<1>1. \A f \in 1 .. Len(files) : LinesOf(f)' = LinesOf(f)
  BY LinesStay DEF FileOpens
<1>2. LinesOf(0)' = LinesOf(0)
  BY DEF LinesOf
<1>3. Len(files) \in Nat
  BY DEF LogTypes
<1>4. \A f \in 0 .. Len(files) : f = 0 \/ f \in 1 .. Len(files)
  BY <1>3
<1>5. Range(<<>>) = {}
  <2>1. DOMAIN <<>> = {}
    OBVIOUS
  <2> QED
    BY <2>1 DEF Range
<1>6. ASSUME NEW f, files'[f] = <<>>  PROVE LinesOf(f)' = {}
  BY <1>5, <1>6 DEF LinesOf
<1>7. \A f : f = Len(files) + 1 => LinesOf(f)' = {}
  BY <1>6 DEF FileOpens
<1> QED
  BY <1>1, <1>2, <1>4, <1>7

LEMMA LinesGrow ==
    ASSUME LogTypes, NEW t \in Loggers, fout # 0, FileGrows(t)
    PROVE  \A f \in 0 .. Len(files) :
               LinesOf(f)' = IF f = fout THEN LinesOf(f) \cup {line[t]} ELSE LinesOf(f)
<1> SUFFICES ASSUME NEW f \in 0 .. Len(files)
             PROVE  LinesOf(f)' = IF f = fout THEN LinesOf(f) \cup {line[t]} ELSE LinesOf(f)
  OBVIOUS
<1>1. CASE f = fout
  <2> DEFINE piece == <<line[t], log_pc[t]>>
  <2>1. f \in 1 .. Len(files) /\ files[f] \in Seq(Pieces) /\ piece \in Pieces
    BY <1>1, ElementOfSeq DEF LogTypes, Pieces
  <2>2. files'[f] = Append(files[f], piece)
    BY <1>1 DEF FileGrows
  <2>3. piece[1] = line[t]
    OBVIOUS
  <2> HIDE DEF piece
  <2>4. Range(files'[f]) = Range(files[f]) \cup {piece}
    BY <2>1, <2>2, RangeOfAppend
  <2>5. {p[1] : p \in Range(files'[f])} = {p[1] : p \in Range(files[f])} \cup {piece[1]}
    BY <2>4
  <2> QED
    BY <1>1, <2>1, <2>3, <2>5 DEF LinesOf
<1>2. CASE f = 0
  BY <1>2 DEF LinesOf
<1>3. CASE f # fout /\ f # 0
  <2>1. f \in 1 .. Len(files) /\ files'[f] = files[f]
    <3>1. Len(files) \in Nat
      BY DEF LogTypes
    <3>2. f \in 1 .. Len(files)
      BY <1>3, <3>1
    <3> QED
      BY <1>3, <3>2 DEF FileGrows
  <2> QED
    BY <1>3, <2>1, LinesStay
<1> QED
  BY <1>1, <1>2, <1>3

\* Files only grow, and none is lost.
LEMMA WholeStays ==
    ASSUME LogTypes, NEW t \in Loggers, LogMoves(t), NEW f \in 1 .. Len(files), NEW n, WholeLine(f, n)
    PROVE  WholeLine(f, n)'
<1>1. files[f] \in Seq(Pieces)
  BY ElementOfSeq DEF LogTypes
<1>2. PICK i \in 1 .. Len(files[f]) - 3 : \A j \in 1 .. 4 : files[f][i + j - 1] = <<n, Parts[j]>>
  BY DEF WholeLine
<1>3. \/ files'[f] = files[f]
      \/ files'[f] = Append(files[f], <<line[t], log_pc[t]>>)
  BY FilesMove DEF FileOpens, FileGrows
<1>4. <<line[t], log_pc[t]>> \in Pieces
  BY DEF LogTypes, Pieces
<1>5. /\ Len(files'[f]) >= Len(files[f]) /\ Len(files[f]) \in Nat /\ Len(files'[f]) \in Nat
      /\ \A k \in 1 .. Len(files[f]) : files'[f][k] = files[f][k]
  BY <1>1, <1>3, <1>4, AppendProperties, LenProperties
<1>6. i \in 1 .. Len(files'[f]) - 3 /\ \A j \in 1 .. 4 : i + j - 1 \in 1 .. Len(files[f])
  BY <1>5
<1> QED
  BY <1>2, <1>5, <1>6 DEF WholeLine

LEMMA ReachableAreFiles == LogTypes => Reachable \subseteq 1 .. Len(files)
<1> SUFFICES ASSUME LogTypes, NEW f \in Reachable  PROVE f \in 1 .. Len(files)
  OBVIOUS
<1>1. Len(files) \in Nat
  BY DEF LogTypes
<1>2. \A s \in Seconds : rotated[s] \in 0 .. Len(files)
  BY DEF LogTypes
<1>3. f \in 0 .. Len(files) /\ f # 0
  BY <1>2 DEF LogTypes, Reachable, Named
<1> QED
  BY <1>1, <1>3

LEMMA ReachableStay ==
    ASSUME LogTypes, NEW t \in Loggers, LogMoves(t)
    PROVE  Reachable \subseteq Reachable'
<1>1. CASE UNCHANGED rotated /\ UNCHANGED replaced /\ (log = 0 \/ log' = log)
  BY <1>1 DEF Reachable, Named
<1>2. CASE Rename(t) /\ named /\ log # 0
  <2>1. /\ rotated' = [rotated EXCEPT ![now] = log] /\ replaced' = replaced \cup {rotated[now]}
        /\ now \in Seconds /\ DOMAIN rotated = Seconds
    BY <1>2 DEF Rename, Stamp, LogTypes
  <2>2. /\ rotated'[now] = log
        /\ \A s \in Seconds : s # now => rotated'[s] = rotated[s]
    BY <2>1
  <2>3. log \in Named' /\ \A s \in Seconds : rotated[s] \in Named' \cup replaced'
    BY <2>1, <2>2 DEF Named
  <2> QED
    BY <2>1, <2>3 DEF Reachable, Named
<1>3. CASE Rename(t) /\ ~(named /\ log # 0)
  BY <1>1, <1>3 DEF Rename
<1>4. CASE Open(t)
  BY <1>1, <1>4, OpenEffect DEF Open
<1>5. CASE Reopen(t)
  BY <1>1, <1>5, OpenEffect DEF Reopen
<1>6. CASE Close(t) \/ Log(t) \/ Insert(t) \/ Test(t) \/ RotateClose(t)
  BY <1>1, <1>6 DEF Close, Log, Insert, Test, RotateClose, Return, fileVars, historyVars
<1> QED
  BY <1>2, <1>3, <1>4, <1>5, <1>6 DEF LogMoves

LEMMA KeptStays ==
    ASSUME LogTypes, NEW t \in Loggers, LogMoves(t), NEW n, Kept(n)
    PROVE  Kept(n)'
<1>1. PICK f \in Reachable : WholeLine(f, n)
  BY DEF Kept
<1>2. f \in 1 .. Len(files) /\ f \in Reachable'
  BY ReachableAreFiles, ReachableStay
<1>3. WholeLine(f, n)'
  BY <1>1, <1>2, WholeStays
<1> QED
  BY <1>2, <1>3 DEF Kept

-----------------------------------------------------------------------------
(* Logger: each part is kept *)

LEMMA LogInitEstablishes == LoggerInit => LogInv
<1> SUFFICES ASSUME LoggerInit PROVE LogInv
  OBVIOUS
<1>1. files = <<>> /\ Len(files) = 0 /\ files \in Seq(Seq(Pieces))
  BY EmptySeq DEF LoggerInit
<1>2. Busy = {}
  BY DEF LoggerInit, Busy
<1>3. 0 \in Seconds
  BY LoggerAssumption DEF Seconds
<1>4. LogTypes
  BY <1>1, <1>3 DEF LoggerInit, LogTypes, LogPlaces
<1>5. LogsAlone /\ WrittenSoFar
  BY <1>2 DEF LogsAlone, WrittenSoFar
<1>6. StreamIsReachable /\ AppIsServed
  BY <1>2 DEF LoggerInit, StreamIsReachable, AppIsServed
<1>7. LinesAreBegun /\ FilesArePlaced
  BY <1>1, <1>2 DEF LoggerInit, LinesAreBegun, FilesArePlaced
<1>8. LogIsKept
  BY DEF LoggerInit, LogIsKept, LinesAreKept, FilesAreInOrder, AstrayIfClosedOrRaced, Precede, LinesOf
<1> QED
  BY <1>4, <1>5, <1>6, <1>7, <1>8 DEF LogInv

LEMMA PartsAre ==
    /\ Len(Parts) = 4 /\ DOMAIN Parts = 1 .. 4
    /\ Parts[1] = "header" /\ Parts[2] = "space" /\ Parts[3] = "content" /\ Parts[4] = "newline"
BY DEF Parts

LEMMA InsertGoes ==
    ASSUME NEW t \in Loggers, Insert(t)
    PROVE  \/ log_pc[t] = Parts[1] /\ log_pc' = [log_pc EXCEPT ![t] = Parts[2]]
           \/ log_pc[t] = Parts[2] /\ log_pc' = [log_pc EXCEPT ![t] = Parts[3]]
           \/ log_pc[t] = Parts[3] /\ log_pc' = [log_pc EXCEPT ![t] = Parts[4]]
           \/ log_pc[t] = Parts[4] /\ log_pc' = [log_pc EXCEPT ![t] = "test"]
<1>1. PICK i \in 1 .. 4 : /\ log_pc[t] = Parts[i]
                         /\ log_pc' = [log_pc EXCEPT ![t] = IF i < 4 THEN Parts[i + 1] ELSE "test"]
  BY PartsAre DEF Insert, LogGoto
<1>2. /\ i = 1 => i < 4 /\ i + 1 = 2
      /\ i = 2 => i < 4 /\ i + 1 = 3
      /\ i = 3 => i < 4 /\ i + 1 = 4
      /\ i = 4 => ~(i < 4)
  OBVIOUS
<1>3. CASE i = 1
  BY <1>1, <1>2, <1>3
<1>4. CASE i = 2
  BY <1>1, <1>2, <1>4
<1>5. CASE i = 3
  BY <1>1, <1>2, <1>5
<1>6. CASE i = 4
  BY <1>1, <1>2, <1>6
<1> QED
  BY <1>3, <1>4, <1>5, <1>6

\* Numbers of files stay in range.
LEMMA OpenNumbers ==
    ASSUME LogTypes, OpenFile
    PROVE  /\ files' \in Seq(Seq(Pieces)) /\ Len(files') \in Nat /\ Len(files') >= Len(files)
           /\ fout' \in 0 .. Len(files') /\ log' \in 0 .. Len(files')
<1>0. Len(files) \in Nat /\ files \in Seq(Seq(Pieces)) /\ fout \in 0 .. Len(files) /\ log \in 0 .. Len(files)
  BY DEF LogTypes
<1>1. CASE fout # 0
  <2>1. fout' = fout /\ log' = log /\ files' = files
    BY <1>1, OpenEffect
  <2> QED
    BY <1>0, <2>1
<1>2. CASE fout = 0 /\ log # 0
  <2>1. fout' = log /\ log' = log /\ files' = files
    BY <1>2, OpenEffect
  <2> QED
    BY <1>0, <2>1
<1>3. CASE fout = 0 /\ log = 0
  <2>1. log' = Len(files) + 1 /\ fout' = log' /\ files' \in Seq(Seq(Pieces)) /\ Len(files') = Len(files) + 1
    BY <1>3, OpenEffect DEF FileOpens
  <2> QED
    BY <1>0, <2>1
<1> QED
  BY <1>1, <1>2, <1>3

LEMMA NumbersStay ==
    ASSUME LogTypes, Len(files') \in Nat, Len(files') >= Len(files), UNCHANGED <<rotated, replaced>>
    PROVE  rotated' \in [Seconds -> 0 .. Len(files')] /\ replaced' \subseteq 0 .. Len(files')
<1>1. Len(files) \in Nat
  BY DEF LogTypes
<1>2. 0 .. Len(files) \subseteq 0 .. Len(files')
  BY <1>1
<1> QED
  BY <1>2 DEF LogTypes

LEMMA LogTypesStep == LogTypes /\ [LoggerNext]_loggerVars => LogTypes'
<1> SUFFICES ASSUME LogTypes, [LoggerNext]_loggerVars PROVE LogTypes'
  OBVIOUS
<1> DEFINE Labels == log_pc' \in [Loggers -> LogPlaces]
           Lines == begun' \in Nat /\ line' \in [Loggers -> 0 .. begun']
           Rest == now' \in Seconds /\ fail' \in BOOLEAN /\ named' \in BOOLEAN /\ app' \in BOOLEAN
           Numbers == /\ files' \in Seq(Seq(Pieces))
                      /\ fout' \in 0 .. Len(files') /\ log' \in 0 .. Len(files')
                      /\ rotated' \in [Seconds -> 0 .. Len(files')] /\ replaced' \subseteq 0 .. Len(files')
<1>1. CASE UNCHANGED loggerVars
  BY <1>1 DEF loggerVars, streamVars, fileVars, historyVars, LogTypes
<1>2. CASE Tick
  <2>1. now' \in Seconds
    BY <1>2, LoggerAssumption DEF Tick, LogTypes, Seconds
  <2> QED
    BY <1>2, <2>1 DEF Tick, streamVars, fileVars, historyVars, LogTypes
<1>3. ASSUME NEW t \in Loggers, LogMoves(t) PROVE LogTypes'
  <2> USE DEF LogGoto, Return, streamVars, fileVars, historyVars
  <2>0. Len(files) \in Nat
    BY DEF LogTypes
  <2>1. CASE Open(t)
    <3>1. Labels /\ Lines /\ Rest
      BY <2>1, OpenEffect DEF Open, LogTypes
    <3>2. Numbers
      BY <2>1, OpenNumbers, NumbersStay DEF Open
    <3> QED
      BY <3>1, <3>2 DEF LogTypes
  <2>2. CASE Close(t)
    <3>1. Labels /\ Lines /\ Rest
      BY <2>2 DEF Close, CloseFile, LogTypes
    <3>2. Numbers
      BY <2>0, <2>2 DEF Close, CloseFile, LogTypes
    <3> QED
      BY <3>1, <3>2 DEF LogTypes
  <2>3. CASE Log(t)
    <3>1. Labels /\ Rest
      BY <2>3 DEF Log, LogTypes, LogPlaces
    <3>2. Lines
      BY <2>3 DEF Log, LogTypes
    <3>3. Numbers
      BY <2>3 DEF Log, LogTypes
    <3> QED
      BY <3>1, <3>2, <3>3 DEF LogTypes
  <2>4. CASE Insert(t)
    <3>1. Labels
      <4>1. PICK place \in LogPlaces : log_pc' = [log_pc EXCEPT ![t] = place]
        BY <2>4, InsertGoes, PartsAre DEF LogPlaces
      <4> QED
        BY <4>1 DEF LogTypes
    <3>2. Lines /\ Rest
      BY <2>4, InsertEffect DEF Insert, LogTypes
    <3>3. Numbers
      BY <2>4, InsertEffect DEF Insert, LogTypes, FileGrows
    <3> QED
      BY <3>1, <3>2, <3>3 DEF LogTypes
  <2>5. CASE Test(t)
    BY <2>5 DEF Test, LogTypes, LogPlaces
  <2>6. CASE RotateClose(t)
    BY <2>6 DEF RotateClose, CloseFile, LogTypes, LogPlaces
  <2>7. CASE Rename(t)
    <3>1. Labels /\ Lines /\ Rest
      BY <2>7 DEF Rename, LogTypes, LogPlaces
    <3>2. Numbers
      <4>1. now \in Seconds /\ log \in 0 .. Len(files) /\ 0 \in 0 .. Len(files)
        BY <2>0 DEF LogTypes
      <4>2. rotated' \in [Seconds -> 0 .. Len(files)] /\ log' \in 0 .. Len(files)
        BY <2>7, <4>1 DEF Rename, Stamp, LogTypes
      <4>3. replaced' \subseteq 0 .. Len(files)
        <5>1. rotated[now] \in 0 .. Len(files) /\ replaced \subseteq 0 .. Len(files)
          BY <4>1 DEF LogTypes
        <5>2. replaced' = replaced \/ replaced' = replaced \cup {rotated[now]}
          BY <2>7 DEF Rename, Stamp
        <5> QED
          BY <5>1, <5>2
      <4>4. UNCHANGED <<files, fout>>
        BY <2>7 DEF Rename
      <4> QED
        BY <4>2, <4>3, <4>4 DEF LogTypes
    <3> QED
      BY <3>1, <3>2 DEF LogTypes
  <2>8. CASE Reopen(t)
    <3>1. Labels /\ Lines /\ Rest
      BY <2>8, OpenEffect DEF Reopen, LogTypes, LogPlaces
    <3>2. Numbers
      BY <2>8, OpenNumbers, NumbersStay DEF Reopen
    <3> QED
      BY <3>1, <3>2 DEF LogTypes
  <2> QED
    BY <1>3, <2>1, <2>2, <2>3, <2>4, <2>5, <2>6, <2>7, <2>8 DEF LogMoves
<1> QED
  BY <1>1, <1>2, <1>3, LogSteps

\* The steps in Logger of a thread that is there.
Works(t) == Insert(t) \/ Test(t) \/ RotateClose(t) \/ Rename(t) \/ Reopen(t)

LEMMA WorksFrame ==
    ASSUME LogTypes, NEW t \in Loggers, Works(t)
    PROVE  /\ t \in Busy /\ Busy' \subseteq Busy
           /\ UNCHANGED <<line, raced, unopened, app, named, begun, now>>
           /\ \A u \in Loggers : u # t => log_pc'[u] = log_pc[u]
<1>1. CASE Insert(t)
  <2>1. log_pc[t] # "idle"
    BY <1>1, InsertGoes, PartsAre
  <2>2. UNCHANGED <<line, raced, unopened, app, named, begun, now>>
    BY <1>1 DEF Insert
  <2>3. \A u \in Loggers : u # t => log_pc'[u] = log_pc[u]
    BY <1>1, InsertGoes DEF LogTypes
  <2> QED
    BY <2>1, <2>2, <2>3 DEF Busy
<1>2. CASE Test(t) \/ RotateClose(t) \/ Rename(t) \/ Reopen(t)
  BY <1>2 DEF Test, RotateClose, Rename, Reopen, LogGoto, Return, LogTypes, historyVars, Busy
<1> QED
  BY <1>1, <1>2 DEF Works

LEMMA AloneStep == LogTypes /\ LogsAlone /\ [LoggerNext]_loggerVars => LogsAlone'
<1> SUFFICES ASSUME LogTypes, LogsAlone, [LoggerNext]_loggerVars PROVE LogsAlone'
  OBVIOUS
<1>1. CASE Tick \/ UNCHANGED loggerVars
  BY <1>1 DEF loggerVars, Tick, LogsAlone, Busy, historyVars
<1>2. ASSUME NEW t \in Loggers, LogMoves(t) PROVE LogsAlone'
  <2> USE DEF Busy
  <2>1. CASE Log(t) /\ ~fail
    <3>1. Busy' = Busy \cup {t} /\ \A u \in Busy : line'[u] = line[u]
      BY <2>1 DEF Log, LogGoto, LogTypes
    <3>2. line'[t] = begun'
      BY <2>1 DEF Log, LogTypes
    <3>3. CASE Busy = {}
      BY <3>1, <3>3 DEF LogsAlone
    <3>4. CASE Busy # {}
      <4>1. \A u \in Busy' : line'[u] \in raced'
        BY <2>1, <3>1, <3>2, <3>4 DEF Log
      <4> QED
        BY <4>1 DEF LogsAlone
    <3> QED
      BY <3>3, <3>4
  <2>2. CASE Log(t) /\ fail
    <3>1. Busy' = Busy /\ raced' = raced /\ \A u \in Busy : line'[u] = line[u]
      BY <2>2 DEF Log, LogTypes
    <3> QED
      BY <3>1 DEF LogsAlone
  <2>3. CASE Open(t) \/ Close(t)
    <3>1. Busy' = Busy /\ raced \subseteq raced' /\ line' = line
      BY <2>3 DEF Open, Close
    <3> QED
      BY <3>1 DEF LogsAlone
  <2>4. CASE Insert(t) \/ Test(t) \/ RotateClose(t) \/ Rename(t) \/ Reopen(t)
    <3>1. t \in Busy /\ Busy' \subseteq Busy /\ raced' = raced /\ line' = line
      BY <2>4, WorksFrame DEF Works, Busy
    <3> QED
      BY <3>1 DEF LogsAlone
  <2> QED
    BY <1>2, <2>1, <2>2, <2>3, <2>4 DEF LogMoves
<1> QED
  BY <1>1, <1>2, LogSteps

LEMMA StreamStep == LogTypes /\ StreamIsReachable /\ [LoggerNext]_loggerVars => StreamIsReachable'
<1> SUFFICES ASSUME LogTypes, StreamIsReachable, [LoggerNext]_loggerVars PROVE StreamIsReachable'
  OBVIOUS
<1>1. CASE Tick \/ UNCHANGED loggerVars
  BY <1>1 DEF loggerVars, Tick, StreamIsReachable, Reachable, Named, streamVars, fileVars, historyVars
<1>2. ASSUME NEW t \in Loggers, LogMoves(t) PROVE StreamIsReachable'
  <2>1. Reachable \subseteq Reachable'
    BY <1>2, ReachableStay
  <2>2. CASE fout' = fout \/ fout' = 0
    BY <2>1, <2>2 DEF StreamIsReachable
  <2>3. CASE fout' = log'
    BY <2>3 DEF StreamIsReachable, Reachable, Named
  <2>4. fout' = fout \/ fout' = 0 \/ fout' = log'
    <3>1. CASE Open(t)
      BY <3>1, OpenEffect DEF Open
    <3>2. CASE Reopen(t)
      BY <3>2, OpenEffect DEF Reopen
    <3>3. CASE Close(t) \/ Log(t) \/ Insert(t) \/ Test(t) \/ RotateClose(t) \/ Rename(t)
      BY <3>3 DEF Close, Log, Insert, Test, RotateClose, Rename, CloseFile, streamVars
    <3> QED
      BY <1>2, <3>1, <3>2, <3>3 DEF LogMoves
  <2> QED
    BY <2>2, <2>3, <2>4
<1> QED
  BY <1>1, <1>2, LogSteps

LEMMA EndGrows ==
    ASSUME LogTypes, NEW t \in Loggers, fout # 0, FileGrows(t), NEW i \in 1 .. 4,
           log_pc[t] = Parts[i], i # 1 => EndsWith(fout, line[t], i - 1)
    PROVE  \A f, n : f = fout /\ n = line[t] => EndsWith(f, n, i)'
<1> SUFFICES ASSUME NEW f, NEW n, f = fout, n = line[t] PROVE EndsWith(f, n, i)'
  OBVIOUS
<1> DEFINE piece == <<n, log_pc[t]>>
<1>1. f \in 1 .. Len(files) /\ f # 0
  BY DEF LogTypes
<1>2. files[f] \in Seq(Pieces) /\ piece \in Pieces
  BY <1>1, ElementOfSeq DEF LogTypes, Pieces
<1>3. piece = <<n, Parts[i]>>
  OBVIOUS
<1> HIDE DEF piece
<1>4. files'[f] = Append(files[f], piece)
  BY DEF FileGrows, piece
<1>5. /\ Len(files'[f]) = Len(files[f]) + 1 /\ Len(files[f]) \in Nat
      /\ \A k \in 1 .. Len(files[f]) : files'[f][k] = files[f][k]
      /\ files'[f][Len(files[f]) + 1] = piece
  BY <1>2, <1>4, AppendProperties, LenProperties
<1>6. CASE i = 1
  BY <1>1, <1>3, <1>5, <1>6 DEF EndsWith
<1>7. CASE i # 1
  <2>1. /\ Len(files[f]) >= i - 1
        /\ \A j \in 1 .. i - 1 : files[f][Len(files[f]) - (i - 1) + j] = <<n, Parts[j]>>
    BY <1>7 DEF EndsWith
  <2>2. Len(files'[f]) >= i
    BY <1>5, <2>1
  <2>3. ASSUME NEW j \in 1 .. i PROVE files'[f][Len(files'[f]) - i + j] = <<n, Parts[j]>>
    <3>1. Len(files'[f]) - i + j = Len(files[f]) - (i - 1) + j
      BY <1>5
    <3>2. CASE j = i
      <4>1. Len(files'[f]) - i + j = Len(files[f]) + 1
        BY <1>5, <3>2
      <4> QED
        BY <1>3, <1>5, <3>2, <4>1
    <3>3. CASE j < i
      <4>1. j \in 1 .. i - 1 /\ Len(files[f]) - (i - 1) + j \in 1 .. Len(files[f])
        BY <1>5, <2>1, <3>3
      <4> QED
        BY <1>5, <2>1, <3>1, <4>1
    <3> QED
      BY <3>2, <3>3
  <2> QED
    BY <1>1, <2>2, <2>3 DEF EndsWith
<1> QED
  BY <1>6, <1>7

LEMMA EndIsWhole ==
    ASSUME NEW f \in 1 .. Len(files'), NEW n, files' \in Seq(Seq(Pieces)), EndsWith(f, n, 4)'
    PROVE  WholeLine(f, n)'
<1>1. Len(files'[f]) \in Nat /\ Len(files'[f]) >= 4
  <2>1. files'[f] \in Seq(Pieces)
    BY ElementOfSeq
  <2> QED
    BY <2>1 DEF EndsWith
<1>2. PICK i : i = Len(files'[f]) - 3
  OBVIOUS
<1>3. i \in 1 .. Len(files'[f]) - 3
  BY <1>1, <1>2
<1>4. \A j \in 1 .. 4 : i + j - 1 = Len(files'[f]) - 4 + j
  BY <1>1, <1>2
<1>5. \A j \in 1 .. 4 : files'[f][i + j - 1] = <<n, Parts[j]>>
  BY <1>4 DEF EndsWith
<1> QED
  BY <1>3, <1>5 DEF WholeLine

LEMMA FilesSame ==
    ASSUME UNCHANGED <<files, fout, log, rotated, replaced>>, NEW n
    PROVE  /\ Kept(n)' = Kept(n)
           /\ \A i \in 1 .. 4 : EndsWith(fout, n, i)' = EndsWith(fout, n, i)
<1>1. Reachable' = Reachable
  BY DEF Reachable, Named
<1>2. \A f : WholeLine(f, n)' = WholeLine(f, n)
  BY DEF WholeLine
<1> QED
  BY <1>1, <1>2 DEF Kept, EndsWith

LEMMA WrittenStep == LogInv /\ [LoggerNext]_loggerVars => WrittenSoFar'
<1> SUFFICES ASSUME LogInv, [LoggerNext]_loggerVars PROVE WrittenSoFar'
  OBVIOUS
<1> USE DEF LogInv
<1>1. CASE Tick \/ UNCHANGED loggerVars
  <2>1. UNCHANGED <<files, fout, log, rotated, replaced, line, raced, astray, log_pc>> /\ Busy' = Busy
    BY <1>1 DEF loggerVars, Tick, Busy, streamVars, fileVars, historyVars
  <2>2. ASSUME NEW u \in Busy, line[u] \notin raced \cup astray
        PROVE  /\ \A i \in 2 .. 4 : log_pc'[u] = Parts[i] => EndsWith(fout, line[u], i - 1)'
               /\ log_pc'[u] \in {"test", "close", "rename", "reopen"} => Kept(line[u])'
    <3>1. PICK n : n = line[u]
      OBVIOUS
    <3>2. \A i \in 2 .. 4 : log_pc[u] = Parts[i] => EndsWith(fout, n, i - 1)'
      BY <2>1, <2>2, <3>1, FilesSame DEF WrittenSoFar
    <3>3. log_pc[u] \in {"test", "close", "rename", "reopen"} => Kept(n)'
      BY <2>1, <2>2, <3>1, FilesSame DEF WrittenSoFar
    <3> QED
      BY <2>1, <3>1, <3>2, <3>3
  <2> QED
    BY <2>1, <2>2 DEF WrittenSoFar
<1>2. ASSUME NEW t \in Loggers, LogMoves(t), NEW u \in Busy', line'[u] \notin raced' \cup astray'
      PROVE  /\ \A i \in 2 .. 4 : log_pc'[u] = Parts[i] => EndsWith(fout, line[u], i - 1)'
             /\ log_pc'[u] \in {"test", "close", "rename", "reopen"} => Kept(line[u])'
  <2>1. CASE Log(t) /\ t = u
    <3>1. log_pc'[t] = "header"
      BY <1>2, <2>1 DEF Log, LogGoto, LogTypes, Busy
    <3> QED
      BY <2>1, <3>1, PartsAre
  <2>2. CASE Log(t) /\ t # u
    <3>1. u \in Busy /\ line'[u] = line[u] /\ log_pc'[u] = log_pc[u] /\ raced \subseteq raced'
          /\ UNCHANGED <<files, fout, log, rotated, replaced, astray>>
      BY <2>2 DEF Log, LogGoto, LogTypes, Busy, streamVars, fileVars
    <3> QED
      <4>1. PICK n : n = line[u]
        OBVIOUS
      <4>2. \A i \in 2 .. 4 : log_pc[u] = Parts[i] => EndsWith(fout, n, i - 1)'
        BY <1>2, <3>1, <4>1, FilesSame DEF WrittenSoFar
      <4>3. log_pc[u] \in {"test", "close", "rename", "reopen"} => Kept(n)'
        BY <1>2, <3>1, <4>1, FilesSame DEF WrittenSoFar
      <4> QED
        BY <3>1, <4>1, <4>2, <4>3
  <2>3. CASE Open(t) \/ Close(t)
    <3>1. u \in Busy /\ line'[u] \in raced'
      BY <2>3 DEF Open, Close, Busy
    <3> QED
      BY <1>2, <3>1
  <2>4. CASE Works(t)
    <3>1. u \in Busy /\ t \in Busy /\ line' = line /\ raced' = raced /\ line[u] \notin raced /\ u = t
      BY <1>2, <2>4, WorksFrame DEF LogsAlone
    <3>2. ASSUME NEW n, Kept(n) PROVE Kept(n)'
      BY <1>2, <3>2, KeptStays
    <3>3. CASE Insert(t)
      <4>1. /\ fout # 0 /\ FileGrows(t) /\ astray' = astray /\ fout' = fout
        BY <1>2, <3>1, <3>3, InsertEffect DEF Insert
      <4>2. PICK i \in 1 .. 4 : /\ log_pc[t] = Parts[i]
                               /\ log_pc'[t] = IF i < 4 THEN Parts[i + 1] ELSE "test"
        BY <3>3, PartsAre DEF Insert, LogGoto, LogTypes
      <4>3. i # 1 => EndsWith(fout, line[t], i - 1)
        BY <1>2, <3>1, <4>1, <4>2 DEF WrittenSoFar
      <4>4. PICK f, n : f = fout /\ n = line[t]
        OBVIOUS
      <4>5. EndsWith(f, n, i)' /\ fout' = f /\ line'[t] = n /\ f # 0
        BY <3>1, <4>1, <4>2, <4>3, <4>4, EndGrows
      <4>6. CASE i < 4
        <5>1. log_pc'[u] = Parts[i + 1] /\ i + 1 \in 2 .. 4
          BY <3>1, <4>2, <4>6
        <5>2. \A k \in 2 .. 4 : Parts[k] = Parts[i + 1] => k = i + 1
          BY <5>1, PartsAre
        <5>3. Parts[i + 1] \notin {"test", "close", "rename", "reopen"}
          BY <5>1, PartsAre
        <5> QED
          BY <3>1, <4>5, <5>1, <5>2, <5>3
      <4>7. CASE i = 4
        <5>1. LogTypes' /\ StreamIsReachable'
          BY LogTypesStep, StreamStep
        <5>2. f \in Reachable' /\ f \in 1 .. Len(files')
          BY <4>5, <5>1 DEF StreamIsReachable, LogTypes
        <5>3. WholeLine(f, n)'
          BY <4>5, <4>7, <5>1, <5>2, EndIsWhole DEF LogTypes
        <5>4. Kept(n)'
          BY <5>2, <5>3 DEF Kept
        <5> QED
          BY <3>1, <4>2, <4>5, <4>7, <5>4, PartsAre
      <4> QED
        BY <4>6, <4>7
    <3>4. CASE Test(t) \/ RotateClose(t) \/ Rename(t) \/ Reopen(t)
      <4>1. /\ log_pc[t] \in {"test", "close", "rename", "reopen"}
            /\ log_pc'[t] \in {"idle", "close", "rename", "reopen"}
            /\ astray' = astray
        BY <3>4 DEF Test, RotateClose, Rename, Reopen, LogGoto, Return, LogTypes, historyVars
      <4> QED
        BY <1>2, <3>1, <3>2, <4>1, PartsAre DEF WrittenSoFar
    <3> QED
      BY <2>4, <3>3, <3>4 DEF Works
  <2> QED
    BY <1>2, <2>1, <2>2, <2>3, <2>4 DEF LogMoves, Works
<1> QED
  BY <1>1, <1>2, LogSteps DEF WrittenSoFar

\* As long as nobody has raced, who works in Logger is alone there, and who
\* comes finds nobody.
LEMMA Undisturbed ==
    ASSUME LogInv, NEW t \in Loggers, LogMoves(t), raced' = {}
    PROVE  /\ raced = {}
           /\ Open(t) \/ Close(t) \/ (Log(t) /\ ~fail) => Busy = {}
           /\ Works(t) => Busy = {t}
<1>1. CASE Open(t) \/ Close(t)
  <2>1. log_pc[t] = "idle" /\ raced' = raced \cup {line[u] : u \in Busy}
    BY <1>1 DEF Open, Close
  <2>2. raced = {} /\ Busy = {}
    BY <2>1
  <2> QED
    BY <2>2, WorksFrame DEF LogInv
<1>2. CASE Log(t)
  <2>1. log_pc[t] = "idle" /\ raced = {} /\ (~fail => Busy = {})
    BY <1>2 DEF Log
  <2> QED
    BY <2>1, WorksFrame DEF Open, Close, Busy, LogInv
<1>3. CASE Works(t)
  <2>1. t \in Busy /\ raced = {}
    BY <1>3, WorksFrame DEF LogInv
  <2>2. Busy = {t}
    BY <2>1 DEF LogInv, LogsAlone
  <2> QED
    BY <2>1, <2>2 DEF Open, Close, Log, Busy
<1> QED
  BY <1>1, <1>2, <1>3 DEF LogMoves, Works

LEMMA ServedStep == LogInv /\ [LoggerNext]_loggerVars => AppIsServed'
<1> SUFFICES ASSUME LogInv, [LoggerNext]_loggerVars, raced' = {} PROVE AppIsServed'
  BY DEF AppIsServed
<1>1. CASE Tick \/ UNCHANGED loggerVars
  BY <1>1 DEF LogInv, loggerVars, Tick, AppIsServed, Busy, streamVars, fileVars, historyVars
<1>2. ASSUME NEW t \in Loggers, LogMoves(t) PROVE AppIsServed'
  <2> USE DEF AppIsServed, Busy
  <2>0. /\ raced = {}
        /\ fout \in {0, log} /\ (app => named)
        /\ \A u \in Busy : app \/ line[u] \in unopened
        /\ (app /\ \A u \in Loggers : log_pc[u] \notin {"rename", "reopen"}) => fout # 0 /\ ~fail
        /\ \A u \in Loggers :
               /\ log_pc[u] = "rename" => fout = 0 /\ (app => log # 0 /\ ~fail)
               /\ log_pc[u] = "reopen" => fout = 0 /\ log = 0
    BY <1>2, Undisturbed DEF LogInv
  <2>1. CASE Open(t)
    <3>1. \A u \in Loggers : log_pc'[u] = "idle"
      BY <1>2, <2>1, Undisturbed DEF Open
    <3>2. /\ app' = (fout = 0) /\ named'
          /\ fout' \in {0, log'} /\ (fout = 0 => fout' # 0 /\ ~fail')
      BY <2>0, <2>1, OpenEffect DEF Open, LogInv, LogTypes
    <3> QED
      BY <3>1, <3>2
  <2>2. CASE Close(t)
    <3>1. \A u \in Loggers : log_pc'[u] = "idle"
      BY <1>2, <2>2, Undisturbed DEF Close
    <3>2. ~app' /\ fout' = 0
      BY <2>2 DEF Close, CloseFile
    <3> QED
      BY <3>1, <3>2
  <2>3. CASE Log(t) /\ fail
    <3>1. /\ \A u \in Busy : line'[u] = line[u]
          /\ UNCHANGED <<log_pc, fout, log, app, named, fail>> /\ unopened \subseteq unopened'
      BY <2>3 DEF Log, LogInv, LogTypes, streamVars, fileVars
    <3> QED
      BY <2>0, <3>1
  <2>4. CASE Log(t) /\ ~fail
    <3>1. /\ UNCHANGED <<fout, log, app, named, fail>>
          /\ app \/ line'[t] \in unopened'
          /\ log_pc'[t] = "header"
          /\ \A u \in Loggers : u # t => log_pc'[u] = log_pc[u]
      BY <2>4 DEF Log, LogGoto, LogInv, LogTypes, streamVars, fileVars
    <3>2. \A u \in Loggers : log_pc[u] = "idle"
      BY <1>2, <2>4, Undisturbed
    <3> QED
      BY <2>0, <3>1, <3>2
  <2>5. CASE Works(t)
    <3>1. /\ \A u \in Loggers : u # t => log_pc[u] = "idle" /\ log_pc'[u] = "idle"
          /\ t \in Busy
          /\ UNCHANGED <<line, unopened, app, named>>
      BY <1>2, <2>5, Undisturbed, WorksFrame DEF LogInv
    <3>2. \A u \in Busy' : app' \/ line'[u] \in unopened'
      BY <2>0, <3>1
    <3>3. CASE Insert(t)
      <4>1. log_pc[t] \notin {"rename", "reopen"} /\ log_pc'[t] \notin {"rename", "reopen"}
        BY <3>3, InsertGoes, PartsAre DEF LogInv, LogTypes
      <4>2. fout' = fout /\ log' = log
        BY <3>3 DEF Insert
      <4>3. app => fout # 0 /\ ~fail
        BY <2>0, <3>1, <4>1
      <4>4. app => ~fail'
        BY <3>3, <4>3, InsertEffect DEF LogInv
      <4> QED
        BY <2>0, <3>1, <3>2, <4>1, <4>2, <4>3, <4>4
    <3>4. CASE Test(t)
      <4>1. log_pc[t] = "test" /\ log_pc'[t] \in {"idle", "close"} /\ UNCHANGED <<fout, log, fail>>
        BY <3>4 DEF Test, LogGoto, Return, LogInv, LogTypes, streamVars, fileVars
      <4> QED
        BY <2>0, <3>1, <3>2, <4>1
    <3>5. CASE RotateClose(t)
      <4>1. log_pc[t] = "close" /\ log_pc'[t] = "rename" /\ fout' = 0 /\ fail' = (fail \/ fout = 0) /\ log' = log
        BY <3>5 DEF RotateClose, CloseFile, LogGoto, LogInv, LogTypes, fileVars
      <4> QED
        BY <2>0, <3>1, <3>2, <4>1
    <3>6. CASE Rename(t)
      <4>1. /\ log_pc[t] = "rename" /\ UNCHANGED <<fout, fail>>
            /\ IF named /\ log # 0 THEN log_pc'[t] = "reopen" /\ log' = 0 ELSE log_pc'[t] = "idle" /\ log' = log
        BY <3>6 DEF Rename, LogGoto, LogInv, LogTypes, streamVars
      <4> QED
        BY <2>0, <3>1, <3>2, <4>1
    <3>7. CASE Reopen(t)
      <4>1. log_pc[t] = "reopen" /\ log_pc'[t] = "idle" /\ fout = 0 /\ log = 0
        BY <2>0, <3>7 DEF Reopen, LogGoto, Return, LogInv, LogTypes
      <4>2. fout' = log' /\ fout' # 0 /\ ~fail'
        BY <3>7, <4>1, OpenEffect DEF Reopen, LogInv, LogTypes
      <4> QED
        BY <2>0, <3>1, <3>2, <4>1, <4>2
    <3> QED
      BY <2>5, <3>3, <3>4, <3>5, <3>6, <3>7 DEF Works
  <2> QED
    BY <1>2, <2>1, <2>2, <2>3, <2>4, <2>5 DEF LogMoves, Works
<1> QED
  BY <1>1, <1>2, LogSteps

LEMMA BegunStep == LogInv /\ [LoggerNext]_loggerVars => LinesAreBegun'
<1> SUFFICES ASSUME LogInv, [LoggerNext]_loggerVars, NEW f \in 1 .. Len(files'), NEW n, n \in LinesOf(f)'
             PROVE  n <= begun'
  BY DEF LinesAreBegun
<1>0. /\ Len(files) \in Nat /\ begun \in Nat
      /\ \A t \in Loggers : line[t] \in 0 .. begun
  BY DEF LogInv, LogTypes
<1>1. CASE Tick \/ UNCHANGED loggerVars
  <2>1. files' = files /\ begun' = begun
    BY <1>1 DEF loggerVars, Tick, fileVars
  <2> QED
    BY <2>1 DEF LogInv, LinesAreBegun, LinesOf
<1>2. ASSUME NEW t \in Loggers, LogMoves(t) PROVE n <= begun'
  <2>1. begun' = begun \/ begun' = begun + 1
    BY <1>2 DEF LogMoves, Open, Close, Log, Insert, Test, RotateClose, Rename, Reopen
  <2>2. CASE UNCHANGED files
    <3>1. n \in LinesOf(f) /\ f \in 1 .. Len(files)
      BY <2>2 DEF LinesOf
    <3>2. n <= begun /\ n \in Int
      BY <3>1, LineNumbers DEF LogInv, LinesAreBegun
    <3> QED
      BY <1>0, <2>1, <3>2
  <2>3. CASE FileOpens
    <3>1. f \in 1 .. Len(files) /\ n \in LinesOf(f)
      <4>1. f \in 1 .. Len(files) \/ f = Len(files) + 1
        BY <1>0, <2>3 DEF FileOpens
      <4>2. f # Len(files) + 1
        BY <2>3, LinesOpen DEF LogInv
      <4>3. f \in 0 .. Len(files)
        BY <1>0, <4>1, <4>2
      <4> QED
        BY <2>3, <4>1, <4>2, <4>3, LinesOpen DEF LogInv
    <3>2. n <= begun /\ n \in Int
      BY <3>1, LineNumbers DEF LogInv, LinesAreBegun
    <3> QED
      BY <1>0, <2>1, <3>2
  <2>4. CASE fout # 0 /\ FileGrows(t)
    <3>1. f \in 1 .. Len(files) /\ (n \in LinesOf(f) \/ n = line[t])
      <4>1. f \in 1 .. Len(files) /\ f \in 0 .. Len(files)
        BY <1>0, <2>4 DEF FileGrows
      <4>2. LinesOf(f)' = IF f = fout THEN LinesOf(f) \cup {line[t]} ELSE LinesOf(f)
        BY <2>4, <4>1, LinesGrow DEF LogInv
      <4> QED
        BY <4>1, <4>2
    <3>2. n <= begun /\ n \in Int
      BY <1>0, <3>1, LineNumbers DEF LogInv, LinesAreBegun
    <3> QED
      BY <1>0, <2>1, <3>2
  <2> QED
    BY <1>2, <2>2, <2>3, <2>4, FilesMove DEF LogInv
<1> QED
  BY <1>1, <1>2, LogSteps

\* Labels and order, of any names of files and any lines in them.
Ordered(rot, l, Lines(_)) ==
    /\ \A r, s \in Seconds : r < s => \A m \in Lines(rot[r]), n \in Lines(rot[s]) : m < n
    /\ \A r \in Seconds : \A m \in Lines(rot[r]), n \in Lines(l) : m < n

NewLines(f) == IF f = 0 THEN {} ELSE {piece[1] : piece \in Range(files'[f])}

LEMMA LinesAreNew == \A f : LinesOf(f)' = NewLines(f)
BY DEF LinesOf, NewLines

LEMMA OrderedPrimed ==
    raced' = {} => (FilesAreInOrder' <=> Ordered(rotated', log', NewLines))
BY DEF FilesAreInOrder, Precede, LinesOf, NewLines, Ordered

PlacedAnew(busy) ==
    /\ \A s \in Seconds : rotated'[s] # 0 => s <= now' /\ rotated'[s] # log'
    /\ \A t \in busy : log_pc'[t] # "reopen" =>
           /\ \A s \in Seconds : \A n \in NewLines(rotated'[s]) : n < line'[t]
           /\ \A n \in NewLines(log') : n <= line'[t]

LEMMA PlacedPrimed == PlacedAnew(Busy') => FilesArePlaced'
BY DEF FilesArePlaced, PlacedAnew, LinesOf, NewLines

\* Steps after which the names are those of the same files, with the same lines.
LEMMA SameNames ==
    ASSUME LogInv, raced = {}, raced' = {}, UNCHANGED rotated,
           \A f \in 0 .. Len(files) : NewLines(f) = LinesOf(f),
           log' = log \/ NewLines(log') = {}
    PROVE  FilesAreInOrder'
<1>1. \A r \in Seconds : rotated[r] \in 0 .. Len(files)
  BY DEF LogInv, LogTypes
<1>2. NewLines(log') \subseteq LinesOf(log)
  BY DEF LogInv, LogTypes
<1>3. Ordered(rotated', log', NewLines)
  BY <1>1, <1>2 DEF LogInv, LogIsKept, FilesAreInOrder, Precede, Ordered
<1> QED
  BY <1>3, OrderedPrimed

LEMMA PlacedStep == LogInv /\ [LoggerNext]_loggerVars => FilesArePlaced' /\ FilesAreInOrder'
<1> SUFFICES ASSUME LogInv, [LoggerNext]_loggerVars, raced' = {} PROVE FilesArePlaced' /\ FilesAreInOrder'
  BY DEF FilesArePlaced, FilesAreInOrder
<1>1. CASE Tick \/ UNCHANGED loggerVars
  <2>1. /\ UNCHANGED <<files, rotated, log, raced, log_pc, line>> /\ (now' = now \/ now' = now + 1)
    BY <1>1 DEF loggerVars, Tick, streamVars, fileVars, historyVars
  <2>2. Busy' = Busy /\ \A f : LinesOf(f)' = LinesOf(f)
    BY <2>1 DEF Busy, LinesOf
  <2>3. \A s \in Seconds : s \in Int /\ (s <= now => s <= now')
    BY <2>1 DEF LogInv, LogTypes, Seconds
  <2>4. FilesArePlaced'
    BY <2>1, <2>2, <2>3, LinesAreNew, PlacedPrimed DEF LogInv, FilesArePlaced, PlacedAnew
  <2>5. FilesAreInOrder'
    BY <2>1, <2>2, LinesAreNew, SameNames
  <2> QED
    BY <2>4, <2>5
<1>2. ASSUME NEW t \in Loggers, LogMoves(t) PROVE FilesArePlaced' /\ FilesAreInOrder'
  <2>0. /\ raced = {}
        /\ \A s \in Seconds : rotated[s] # 0 => s <= now /\ rotated[s] # log
        /\ \A u \in Busy : log_pc[u] # "reopen" =>
               /\ \A s \in Seconds : \A n \in LinesOf(rotated[s]) : n < line[u]
               /\ \A n \in LinesOf(log) : n <= line[u]
    BY <1>2, Undisturbed DEF LogInv, FilesArePlaced
  <2>r. /\ \A s \in Seconds : rotated[s] \in 0 .. Len(files)
        /\ log \in 0 .. Len(files) /\ fout \in 0 .. Len(files)
        /\ Len(files) \in Nat
    BY DEF LogInv, LogTypes
  <2>1. CASE UNCHANGED <<files, rotated, log, now>> /\ Works(t)
    <3>1. Busy' \subseteq Busy /\ line' = line /\ (t \in Busy' /\ log_pc[t] = "reopen" => log_pc'[t] = "reopen")
      BY <2>1, WorksFrame, InsertGoes, PartsAre
         DEF LogInv, LogTypes, Works, Test, RotateClose, Rename, Reopen, LogGoto, Return, Busy
    <3>2. Busy = {t}
      BY <1>2, <2>1, Undisturbed
    <3>3. \A f : LinesOf(f) = NewLines(f)
      BY <2>1 DEF LinesOf, NewLines
    <3>4. PlacedAnew(Busy')
      BY <2>0, <2>1, <3>1, <3>2, <3>3 DEF PlacedAnew
    <3> QED
      BY <2>0, <2>1, <3>3, <3>4, PlacedPrimed, SameNames
  <2>2. CASE Open(t) \/ Reopen(t)
    <3>1. Busy' = {}
      <4>1. CASE Open(t)
        <5>1. Busy = {} /\ log_pc' = log_pc
          BY <1>2, <4>1, Undisturbed DEF Open
        <5> QED
          BY <5>1 DEF Busy
      <4>2. CASE Reopen(t)
        <5>1. Busy = {t} /\ log_pc'[t] = "idle" /\ Busy' \subseteq Busy
          BY <1>2, <4>2, Undisturbed, WorksFrame DEF Reopen, LogGoto, Return, LogInv, LogTypes, Works
        <5> QED
          BY <5>1 DEF Busy
      <4> QED
        BY <2>2, <4>1, <4>2
    <3>2. OpenFile /\ rotated' = rotated /\ now' = now
      BY <2>2 DEF Open, Reopen
    <3>3. \/ log' = log /\ files' = files
          \/ log = 0 /\ log' = Len(files) + 1 /\ FileOpens
      BY <3>2, OpenEffect DEF LogInv
    <3>4. CASE log' = log /\ files' = files
      <4>1. \A f : NewLines(f) = LinesOf(f)
        BY <3>4 DEF LinesOf, NewLines
      <4>2. PlacedAnew(Busy')
        BY <2>0, <3>1, <3>2, <3>4 DEF PlacedAnew
      <4> QED
        BY <2>0, <3>2, <3>4, <4>1, <4>2, PlacedPrimed, SameNames
    <3>5. CASE log = 0 /\ log' = Len(files) + 1 /\ FileOpens
      <4>1. /\ \A f \in 0 .. Len(files) : NewLines(f) = LinesOf(f)
            /\ NewLines(log') = {}
        BY <3>5, LinesOpen, LinesAreNew DEF LogInv
      <4>2. PlacedAnew(Busy')
        BY <2>0, <2>r, <3>1, <3>2, <3>5 DEF PlacedAnew
      <4> QED
        BY <2>0, <3>2, <4>1, <4>2, PlacedPrimed, SameNames
    <3> QED
      BY <3>3, <3>4, <3>5
  <2>3. CASE Close(t) \/ (Log(t) /\ fail)
    <3>1. /\ UNCHANGED <<files, rotated, log, now, log_pc>> /\ Busy' = Busy
          /\ \A u \in Busy : line'[u] = line[u]
      BY <2>3 DEF Close, Log, fileVars, Busy, LogInv, LogTypes
    <3>3. \A f : NewLines(f) = LinesOf(f)
      BY <3>1 DEF LinesOf, NewLines
    <3>4. PlacedAnew(Busy')
      BY <2>0, <3>1, <3>3 DEF PlacedAnew
    <3> QED
      BY <2>0, <3>1, <3>3, <3>4, PlacedPrimed, SameNames
  <2>4. CASE Log(t) /\ ~fail
    <3>1. /\ UNCHANGED <<files, rotated, log, now>>
          /\ Busy' = Busy \cup {t} /\ line'[t] = begun + 1
      BY <2>4 DEF Log, LogGoto, fileVars, Busy, LogInv, LogTypes
    <3>2. Busy' = {t}
      BY <1>2, <2>4, <3>1, Undisturbed
    <3>3. \A f : NewLines(f) = LinesOf(f)
      BY <3>1 DEF LinesOf, NewLines
    <3>4. \A f \in 0 .. Len(files) : \A n \in LinesOf(f) : n < begun + 1
      <4> SUFFICES ASSUME NEW f \in 0 .. Len(files), NEW n \in LinesOf(f) PROVE n < begun + 1
        OBVIOUS
      <4>1. f \in 1 .. Len(files)
        BY DEF LinesOf
      <4>2. n <= begun /\ n \in Nat /\ begun \in Nat
        BY <4>1, LineNumbers DEF LogInv, LinesAreBegun, LogTypes
      <4> QED
        BY <4>2
    <3>5. \A f \in 0 .. Len(files) : \A n \in LinesOf(f) : n <= begun + 1
      BY <3>4, LineNumbers DEF LogInv, LogTypes
    <3>6. PlacedAnew(Busy')
      BY <2>0, <2>r, <3>1, <3>2, <3>3, <3>4, <3>5 DEF PlacedAnew
    <3> QED
      BY <2>0, <3>1, <3>3, <3>6, PlacedPrimed, SameNames
  <2>5. CASE Insert(t) /\ fout # 0 /\ FileGrows(t)
    <3>1. /\ UNCHANGED <<rotated, log, now, line>> /\ fout = log /\ log # 0
          /\ Busy = {t} /\ Busy' \subseteq Busy /\ log_pc[t] # "reopen"
      BY <1>2, <2>0, <2>5, Undisturbed, WorksFrame, InsertGoes, PartsAre DEF Insert, Works, LogInv, AppIsServed
    <3>2. \A f \in 0 .. Len(files) : NewLines(f) = IF f = log THEN LinesOf(f) \cup {line[t]} ELSE LinesOf(f)
      BY <2>5, <3>1, LinesGrow, LinesAreNew DEF LogInv
    <3>3. \A s \in Seconds : NewLines(rotated[s]) = LinesOf(rotated[s])
      BY <2>0, <2>r, <3>1, <3>2
    <3>4. NewLines(log) = LinesOf(log) \cup {line[t]}
      BY <2>r, <3>2
    <3>5. /\ \A s \in Seconds : \A n \in LinesOf(rotated[s]) : n < line[t]
          /\ \A n \in LinesOf(log) : n <= line[t]
          /\ line[t] <= line[t]
      BY <2>0, <3>1 DEF LogInv, LogTypes
    <3>6. PlacedAnew(Busy')
      BY <2>0, <3>1, <3>3, <3>4, <3>5 DEF PlacedAnew
    <3>7. Ordered(rotated', log', NewLines)
      BY <2>0, <3>1, <3>3, <3>4, <3>5 DEF Ordered, LogInv, LogIsKept, FilesAreInOrder, Precede
    <3> QED
      BY <3>6, <3>7, PlacedPrimed, OrderedPrimed
  <2>6. CASE Rename(t) /\ named /\ log # 0
    <3>1. /\ rotated' = [rotated EXCEPT ![now] = log] /\ log' = 0 /\ now' = now /\ files' = files
          /\ now \in Seconds /\ DOMAIN rotated = Seconds
      BY <2>6 DEF Rename, Stamp, LogInv, LogTypes
    <3>2. /\ rotated'[now] = log
          /\ \A s \in Seconds : s # now => rotated'[s] = rotated[s]
      BY <3>1
    <3>3. \A u \in Busy' : log_pc'[u] = "reopen"
      <4>1. Busy = {t} /\ Busy' \subseteq Busy
        BY <1>2, <2>6, Undisturbed, WorksFrame DEF Works, LogInv
      <4>2. log_pc'[t] = "reopen"
        BY <2>6 DEF Rename, LogGoto, LogInv, LogTypes
      <4> QED
        BY <4>1, <4>2
    <3>4. \A s \in Seconds : s \in Int /\ now \in Int
      BY <3>1 DEF Seconds
    <3>5. PlacedAnew(Busy')
      BY <2>0, <3>1, <3>2, <3>3, <3>4 DEF PlacedAnew
    <3>6. (\A f : NewLines(f) = LinesOf(f)) /\ NewLines(0) = {}
      BY <3>1 DEF LinesOf, NewLines
    <3>7. /\ \A r, s \in Seconds : r < s => \A m \in LinesOf(rotated[r]), n \in LinesOf(rotated[s]) : m < n
          /\ \A r \in Seconds : \A m \in LinesOf(rotated[r]), n \in LinesOf(log) : m < n
      BY <2>0 DEF LogInv, LogIsKept, FilesAreInOrder, Precede
    <3>8. ASSUME NEW r \in Seconds, NEW s \in Seconds, r < s
          PROVE  \A m \in NewLines(rotated'[r]), n \in NewLines(rotated'[s]) : m < n
      <4>1. CASE s = now
        <5>1. r # now
          BY <3>4, <3>8, <4>1
        <5> QED
          BY <3>2, <3>6, <3>7, <4>1, <5>1
      <4>2. CASE r = now
        <5>1. s # now /\ ~(s <= now)
          BY <3>4, <3>8, <4>2
        <5>2. rotated'[s] = 0
          BY <2>0, <3>2, <5>1
        <5> QED
          BY <3>6, <5>2
      <4>3. CASE r # now /\ s # now
        BY <3>2, <3>6, <3>7, <3>8, <4>3
      <4> QED
        BY <4>1, <4>2, <4>3
    <3>9. Ordered(rotated', log', NewLines)
      BY <3>1, <3>6, <3>8 DEF Ordered
    <3> QED
      BY <3>5, <3>9, PlacedPrimed, OrderedPrimed
  <2>7. CASE Works(t) /\ ~Reopen(t)
    <3>1. CASE Insert(t)
      BY <2>1, <2>5, <2>7, <3>1, InsertEffect DEF Insert, LogInv
    <3>2. CASE Rename(t)
      BY <2>1, <2>6, <2>7, <3>2 DEF Rename
    <3>3. CASE Test(t) \/ RotateClose(t)
      BY <2>1, <2>7, <3>3 DEF Test, RotateClose, fileVars
    <3> QED
      BY <2>7, <3>1, <3>2, <3>3 DEF Works
  <2> QED
    BY <1>2, <2>2, <2>3, <2>4, <2>7 DEF LogMoves, Works
<1> QED
  BY <1>1, <1>2, LogSteps

LEMMA KeptStep == LogInv /\ [LoggerNext]_loggerVars => LinesAreKept'
<1> SUFFICES ASSUME LogInv, [LoggerNext]_loggerVars, NEW n \in returned', n \notin raced' \cup astray'
             PROVE  Kept(n)'
  BY DEF LinesAreKept, Kept, WholeLine, Reachable
<1>0. \A m \in returned \ (raced \cup astray) : Kept(m)
  BY DEF LogInv, LogIsKept, LinesAreKept, Kept, WholeLine, Reachable
<1>1. CASE Tick \/ UNCHANGED loggerVars
  <2>1. UNCHANGED <<files, fout, log, rotated, replaced, raced, astray, returned>>
    BY <1>1 DEF loggerVars, Tick, streamVars, fileVars, historyVars
  <2> QED
    BY <1>0, <2>1, FilesSame
<1>2. ASSUME NEW t \in Loggers, LogMoves(t) PROVE Kept(n)'
  <2>1. raced \subseteq raced' /\ astray \subseteq astray'
    BY <1>2 DEF LogMoves, Open, Close, Log, Insert, Test, RotateClose, Rename, Reopen, historyVars
  <2>2. n \in returned \/ ((Test(t) \/ Reopen(t)) /\ n = line[t])
    BY <1>2 DEF LogMoves, Open, Close, Log, Insert, Test, RotateClose, Rename, Reopen, Return, historyVars
  <2>3. CASE Test(t) \/ Reopen(t)
    <3>1. t \in Busy /\ log_pc[t] \in {"test", "reopen"} /\ raced' = raced /\ astray' = astray
      BY <2>3 DEF Test, Reopen, Busy
    <3>2. n = line[t] => Kept(n)
      BY <3>1 DEF LogInv, WrittenSoFar
    <3> QED
      BY <1>0, <1>2, <2>1, <2>2, <3>2, KeptStays DEF LogInv
  <2>4. CASE n \in returned
    BY <1>0, <1>2, <2>1, <2>4, KeptStays DEF LogInv
  <2> QED
    BY <2>2, <2>3, <2>4
<1> QED
  BY <1>1, <1>2, LogSteps

LEMMA AstrayStep == LogInv /\ [LoggerNext]_loggerVars => AstrayIfClosedOrRaced'
<1> SUFFICES ASSUME LogInv, [LoggerNext]_loggerVars, raced' = {} PROVE astray' \subseteq unopened'
  BY DEF AstrayIfClosedOrRaced
<1>1. CASE Tick \/ UNCHANGED loggerVars
  BY <1>1 DEF loggerVars, Tick, historyVars, LogInv, LogIsKept, AstrayIfClosedOrRaced
<1>2. ASSUME NEW t \in Loggers, LogMoves(t) PROVE astray' \subseteq unopened'
  <2>0. astray \subseteq unopened
    BY <1>2, Undisturbed DEF LogInv, LogIsKept, AstrayIfClosedOrRaced
  <2>1. CASE Insert(t)
    <3>1. /\ unopened' = unopened /\ t \in Busy /\ Busy = {t} /\ raced = {}
          /\ log_pc[t] \notin {"idle", "rename", "reopen"}
      BY <1>2, <2>1, Undisturbed, WorksFrame, InsertGoes, PartsAre DEF Insert, Works, LogInv
    <3>2. \A u \in Loggers : log_pc[u] \notin {"rename", "reopen"}
      BY <3>1 DEF Busy
    <3>3. (app \/ line[t] \in unopened) /\ (app => fout # 0 /\ ~fail)
      BY <3>1, <3>2 DEF LogInv, AppIsServed
    <3>4. astray' = astray \/ (astray' = astray \cup {line[t]} /\ ~app)
      BY <2>1, <3>3, InsertEffect DEF LogInv
    <3> QED
      BY <2>0, <3>1, <3>3, <3>4
  <2>2. CASE ~Insert(t)
    <3>1. astray' = astray /\ unopened \subseteq unopened'
      BY <1>2, <2>2 DEF LogMoves, Open, Close, Log, Test, RotateClose, Rename, Reopen, historyVars
    <3> QED
      BY <2>0, <3>1
  <2> QED
    BY <2>1, <2>2
<1> QED
  BY <1>1, <1>2, LogSteps

LEMMA LoggerInvariance == LoggerSpec => []LogInv
<1>1. LogInv /\ [LoggerNext]_loggerVars => LogInv'
  BY LogTypesStep, AloneStep, WrittenStep, StreamStep, ServedStep, BegunStep, PlacedStep, KeptStep, AstrayStep
     DEF LogInv, LogIsKept
<1> QED
  BY LogInitEstablishes, <1>1, PTL DEF LoggerSpec

\* Lines that a thread has logged undisturbed stay whole in files that can be
\* found, and in order, through every rotation, close and open of Logger; and
\* none goes astray but for a log that was not open.
THEOREM LogStaysKept == LoggerSpec => []LogIsKept
BY LoggerInvariance, PTL DEF LogInv
=============================================================================
