------------------------- MODULE ShmTransportProofs -------------------------
(***************************************************************************)
(* Proofs about ShmTransport, for any number of transmitters, bystanders,  *)
(* dispatchers, channels, blocks and messages.  What the ring of           *)
(* announcements does is known from ConditionNotifierProofs.  The blocks   *)
(* keep the invariant of BlockRingProofs; it is proved here once more,     *)
(* about the instance and for swaps that do not fail spuriously.  To these *)
(* the composition adds which block and which message an announcement      *)
(* stands for while it is made, drawn, waited for and handled.             *)
(***************************************************************************)
EXTENDS ShmTransport, ConditionNotifierProofs, FiniteSetTheorems

Content == 0 .. MaxMessages    \* a message, or 0 for none
Handover == [seq : 0 .. MaxSeq, info : Content, payload : Content]

\* The ring exists, and nobody shuts down.
Quiet ==
    /\ shm = "constructed" /\ shutdown = {} /\ detached = {} /\ ~raced
    /\ \A n \in Notifiers : pc[n] \in {"closed", "load", "idle", "draw"} \cup Writing
    /\ \A l \in Listeners : pc[l] \in {"closed", "load", "idle", "poll"} \cup Due

-----------------------------------------------------------------------------
(* The blocks *)

BlockTypes ==
    /\ seq \in 0 .. SeqModulus - 1
    /\ lock_num \in [BlockIndex -> Int]
    /\ payload \in [BlockIndex -> Content] /\ msg_info \in [BlockIndex -> Content]
    /\ wpc \in [Transmitters -> {"idle", "seq", "try"} \cup Seg!WritingPc]
    /\ wblock \in [Transmitters -> BlockIndex]
    /\ wmsg \in [Transmitters -> Content]
    /\ rpc \in [Listeners -> {"idle", "load", "cas", "failed"} \cup Seg!ReadingPc]
    /\ rblock \in [Listeners -> BlockIndex]
    /\ rlock \in [Listeners -> -1 .. Cardinality(Listeners)]
    /\ rtries \in [Listeners -> 0 .. MaxTryLockTimes]
    /\ rinfo \in [Listeners -> Content] /\ rpayload \in [Listeners -> Content]

\* The lock word of a block counts its holders.
Locks ==
    \A b \in BlockIndex :
        \/ /\ lock_num[b] = Seg!WriteExclusive
           /\ Seg!ReadersOf(b) = {} /\ (\E t \in Transmitters : Seg!WritersOf(b) = {t})
        \/ /\ Seg!WritersOf(b) = {}
           /\ lock_num[b] = Cardinality(Seg!ReadersOf(b))

\* A reader about to swap has seen no writer, and has a try left.
CasLocal ==
    \A l \in Listeners :
        /\ rpc[l] = "cas" => rlock[l] >= 0
        /\ rpc[l] \in {"load", "cas"} => rtries[l] < MaxTryLockTimes

\* The halves of a block differ only while its writer is between them; what a
\* writer has stored and a reader has read is in the block that it holds.
Contents ==
    /\ \A b \in BlockIndex :
          payload[b] # msg_info[b] => \E t \in Transmitters : wpc[t] = "info" /\ wblock[t] = b
    /\ \A t \in Transmitters :
          /\ wpc[t] = "info" => payload[wblock[t]] = wmsg[t]
          /\ wpc[t] = "release" => msg_info[wblock[t]] = wmsg[t]
    /\ \A l \in Listeners :
          /\ rpc[l] \in {"payload", "release"} => rinfo[l] = msg_info[rblock[l]]
          /\ rpc[l] = "release" => rpayload[l] = payload[rblock[l]]

BlockInv == BlockTypes /\ Locks /\ CasLocal /\ Contents

-----------------------------------------------------------------------------
(* The composition *)

PathTypes ==
    /\ calls \in 0 .. MaxMessages
    /\ task \in [Listeners -> SUBSET Delivery]
    /\ published \in Seq(Content) /\ Len(published) = Len(sent)
    /\ got \in [Listeners -> Seq(Handover)]
    /\ rewritten \in BOOLEAN
    /\ dead \subseteq Transmitters \cup Listeners

\* A transmitter announces what it has written and released.
Announcing ==
    /\ \A t \in Transmitters :
          /\ wpc[t] # "idle" => pc[t] = "idle"
          /\ wpc[t] # "idle" \/ pc[t] = "draw" => wmsg[t] # 0
          /\ pc[t] = "draw" => /\ ninfo[t].channel = MyChannel
                               /\ msg_info[ninfo[t].block] # 0
    /\ \A n \in Bystanders : pc[n] = "draw" => ninfo[n].channel # MyChannel

\* A block that was announced has been written.
Announced ==
    \A k \in 1 .. Len(sent) :
        /\ published[k] # 0 <=> sent[k].channel = MyChannel
        /\ sent[k].channel = MyChannel => msg_info[sent[k].block] # 0

\* A dispatcher handles the last announcement that Listen has returned.
Handles(l) ==
    /\ \A d \in task[l] :
          /\ task[l] = {d} /\ pc[l] = "idle" /\ d.seq = cursor[l] - 1
          /\ ~overrun => /\ d.seq >= StartSeq /\ d.seq < next_seq
                         /\ d.info = SentInfo(d.seq)
    /\ rpc[l] # "idle" => \E d \in task[l] : d.info = [channel |-> MyChannel, block |-> rblock[l]]
    /\ pc[l] \in Opening => got[l] = <<>> /\ joined[l] = 0 /\ cursor[l] = 0

\* It has handed over nothing twice, and nothing of what comes next.
HandedOver(l) ==
    \A i \in DOMAIN got[l] :
        /\ got[l][i].info = got[l][i].payload /\ (~overrun => got[l][i].info # 0)
        /\ got[l][i].seq < cursor[l]
        /\ \A j \in DOMAIN got[l] : got[l][j].seq = got[l][i].seq => i = j
        /\ \A d \in task[l] : d.seq = got[l][i].seq => rpc[l] = "release"

\* Block b holds message m, and nobody writes it.
Holds(b, m) == msg_info[b] = m /\ Seg!WritersOf(b) = {}

\* The message that number k announces is in its block.
Present(k) ==
    \A b \in BlockIndex : SentInfo(k) = [channel |-> MyChannel, block |-> b] => Holds(b, Published(k))

\* From the release of its block to the end of every dispatch.
Unannounced ==
    \A t \in Transmitters : \A b \in BlockIndex :
        pc[t] = "draw" /\ ninfo[t].block = b => Holds(b, wmsg[t])
Kept(l) ==
    /\ pc[l] \notin Opening => \A k \in cursor[l] .. next_seq - 1 : Present(k)
    /\ \A d \in task[l] : Present(d.seq)
    /\ rpc[l] = "failed" => rtries[l] = MaxTryLockTimes

\* What is behind the cursor has been handed over, each with its message.
Complete(l) ==
    /\ \A i \in DOMAIN got[l] :
          /\ got[l][i].seq >= StartSeq /\ got[l][i].seq < next_seq
          /\ got[l][i].info = Published(got[l][i].seq)
    /\ rpc[l] = "release" => \A d \in task[l] : \E i \in DOMAIN got[l] : got[l][i].seq = d.seq
    /\ \A k \in joined[l] .. cursor[l] - 1 :
          Published(k) # 0 /\ (\A d \in task[l] : d.seq # k) =>
              \E i \in DOMAIN got[l] : got[l][i].seq = k

Calm == ~overrun /\ ~rewritten

ShmInv ==
    /\ IInv /\ Quiet /\ BlockInv
    /\ PathTypes /\ Announcing /\ Announced
    /\ \A l \in Listeners : Handles(l) /\ HandedOver(l)
    /\ Calm => Unannounced /\ \A l \in Listeners : Kept(l) /\ Complete(l)

\* What a dispatcher's part of the invariant is about.
Local(l) == <<pc[l], cursor[l], joined[l], task[l], got[l], rpc[l], rblock[l], rtries[l]>>
-----------------------------------------------------------------------------
(* The blocks *)

\* The readers of a block are finitely many.
LEMMA ReadersFinite ==
  \A b \in BlockIndex : IsFiniteSet(Seg!ReadersOf(b)) /\ Cardinality(Seg!ReadersOf(b)) \in Nat
<1> SUFFICES ASSUME NEW b \in BlockIndex
             PROVE  IsFiniteSet(Seg!ReadersOf(b)) /\ Cardinality(Seg!ReadersOf(b)) \in Nat
    OBVIOUS
<1>1. Seg!ReadersOf(b) \in SUBSET Listeners
    BY DEF Seg!ReadersOf
<1> QED
    BY <1>1, TransportAssumption, FS_Subset, FS_CardinalityType

\* A lock word is in the range of what it counts.
LEMMA LockRange ==
  ASSUME Locks, NEW b \in BlockIndex
  PROVE  lock_num[b] \in -1 .. Cardinality(Listeners)
<1>1. IsFiniteSet(Listeners) /\ Seg!ReadersOf(b) \subseteq Listeners
    BY TransportAssumption DEF Seg!ReadersOf
<1>2. /\ Cardinality(Seg!ReadersOf(b)) \in Nat /\ Cardinality(Listeners) \in Nat
      /\ Cardinality(Seg!ReadersOf(b)) <= Cardinality(Listeners)
    BY <1>1, FS_Subset, FS_CardinalityType
<1> QED
    BY <1>2 DEF Locks, Seg!WriteExclusive

\* One reader more or less changes the number of readers by one.
LEMMA CountStep ==
  ASSUME NEW S, NEW T, NEW t, IsFiniteSet(S)
  PROVE  /\ (t \notin S /\ T = S \cup {t}) => Cardinality(T) = Cardinality(S) + 1
         /\ (t \in S /\ T = S \ {t}) => Cardinality(T) = Cardinality(S) - 1
BY FS_AddElement, FS_RemoveElement

\* A step that changes no lock word and no holder keeps the count.
LEMMA CountsKept ==
  ASSUME Locks, UNCHANGED lock_num,
         \A b \in BlockIndex : Seg!ReadersOf(b)' = Seg!ReadersOf(b) /\ Seg!WritersOf(b)' = Seg!WritersOf(b)
  PROVE  Locks'
BY DEF Locks

LEMMA SeqArithmetic ==
  ASSUME NEW s \in 0 .. SeqModulus - 1
  PROVE  s % BlockNum \in BlockIndex /\ (s + 1) % SeqModulus \in 0 .. SeqModulus - 1
BY TransportAssumption

LEMMA MaxMessagesIsNat == MaxMessages \in Nat
BY RingAssumption DEF MaxMessages

LEMMA WriterStep ==
  ASSUME BlockInv, NEW w \in Transmitters,
         \/ \E m \in 1 .. MaxMessages : Seg!BeginWrite(w, m)
         \/ Seg!FetchAddSeq(w) \/ Seg!TryLockForWrite(w) \/ Seg!TryLockForWriteFails(w)
         \/ Seg!WritePayload(w) \/ Seg!WriteInfo(w) \/ Seg!ReleaseWrittenBlock(w)
  PROVE  BlockInv'
<1> USE DEF BlockInv, Seg!blockVars, Seg!writerVars, Seg!readerVars
<1>1. ASSUME NEW m \in 1 .. MaxMessages, Seg!BeginWrite(w, m) PROVE BlockInv'
  <2>1. BlockTypes'
    BY <1>1, MaxMessagesIsNat DEF BlockTypes, Content, Seg!BeginWrite
  <2>2. \A b \in BlockIndex : Seg!ReadersOf(b)' = Seg!ReadersOf(b) /\ Seg!WritersOf(b)' = Seg!WritersOf(b)
    BY <1>1 DEF BlockTypes, Seg!BeginWrite, Seg!ReadersOf, Seg!WritersOf, Seg!WritingPc
  <2>3. Locks'
    BY <1>1, <2>2, CountsKept DEF Seg!BeginWrite
  <2>4. CasLocal' /\ Contents'
    BY <1>1 DEF BlockTypes, Seg!BeginWrite, CasLocal, Contents
  <2> QED
    BY <2>1, <2>3, <2>4
<1>2. ASSUME Seg!FetchAddSeq(w) PROVE BlockInv'
  <2>1. BlockTypes'
    BY <1>2, SeqArithmetic DEF BlockTypes, Seg!FetchAddSeq
  <2>2. \A b \in BlockIndex : Seg!ReadersOf(b)' = Seg!ReadersOf(b) /\ Seg!WritersOf(b)' = Seg!WritersOf(b)
    BY <1>2 DEF BlockTypes, Seg!FetchAddSeq, Seg!ReadersOf, Seg!WritersOf, Seg!WritingPc
  <2>3. Locks'
    BY <1>2, <2>2, CountsKept DEF Seg!FetchAddSeq
  <2>4. CasLocal' /\ Contents'
    BY <1>2 DEF BlockTypes, Seg!FetchAddSeq, CasLocal, Contents
  <2> QED
    BY <2>1, <2>3, <2>4
<1>3. ASSUME Seg!TryLockForWrite(w) PROVE BlockInv'
  <2>0. PICK b0 \in BlockIndex : b0 = wblock[w]
    BY DEF BlockTypes
  <2>1. BlockTypes'
    BY <2>0, <1>3 DEF BlockTypes, Seg!TryLockForWrite, Seg!WritingPc, Seg!WriteExclusive
  <2>2. b0 \in BlockIndex /\ Seg!WritersOf(b0) = {} /\ Seg!ReadersOf(b0) = {}
    <3>1. b0 \in BlockIndex /\ lock_num[b0] = 0
      BY <2>0, <1>3 DEF BlockTypes, Seg!TryLockForWrite, Seg!RWLockFree
    <3>2. Seg!WritersOf(b0) = {} /\ Cardinality(Seg!ReadersOf(b0)) = 0
      BY <3>1 DEF Locks, Seg!WriteExclusive
    <3> QED
      BY <3>1, <3>2, ReadersFinite, FS_EmptySet
  <2>3. /\ Seg!WritersOf(b0)' = {w} /\ Seg!ReadersOf(b0)' = {} /\ lock_num'[b0] = Seg!WriteExclusive
        /\ \A b \in BlockIndex \ {b0} : /\ lock_num'[b] = lock_num[b]
                                   /\ Seg!WritersOf(b)' = Seg!WritersOf(b)
        /\ \A b \in BlockIndex : Seg!ReadersOf(b)' = Seg!ReadersOf(b)
    BY <2>0, <1>3, <2>2 DEF BlockTypes, Seg!TryLockForWrite, Seg!ReadersOf, Seg!WritersOf, Seg!WritingPc
  <2>4. Locks'
    BY <2>3 DEF Locks
  <2>5. CasLocal' /\ Contents'
    BY <2>0, <1>3 DEF BlockTypes, Seg!TryLockForWrite, CasLocal, Contents
  <2> QED
    BY <2>1, <2>4, <2>5
<1>4. ASSUME Seg!TryLockForWriteFails(w) PROVE BlockInv'
  <2> USE DEF Seg!TryLockForWriteFails
  <2>1. BlockTypes'
    BY <1>4 DEF BlockTypes
  <2>2. \A b \in BlockIndex : Seg!ReadersOf(b)' = Seg!ReadersOf(b) /\ Seg!WritersOf(b)' = Seg!WritersOf(b)
    BY <1>4 DEF BlockTypes, Seg!ReadersOf, Seg!WritersOf, Seg!WritingPc
  <2>3. Locks'
    BY <1>4, <2>2, CountsKept
  <2>4. CasLocal' /\ Contents'
    BY <1>4 DEF BlockTypes, CasLocal, Contents
  <2> QED
    BY <2>1, <2>3, <2>4
<1>5. ASSUME Seg!WritePayload(w) PROVE BlockInv'
  <2>0. PICK b0 \in BlockIndex : b0 = wblock[w]
    BY DEF BlockTypes
  <2>1. BlockTypes'
    BY <2>0, <1>5 DEF BlockTypes, Seg!WritePayload, Seg!WritingPc
  <2>2. \A b \in BlockIndex : Seg!ReadersOf(b)' = Seg!ReadersOf(b) /\ Seg!WritersOf(b)' = Seg!WritersOf(b)
    BY <2>0, <1>5 DEF BlockTypes, Seg!WritePayload, Seg!ReadersOf, Seg!WritersOf, Seg!WritingPc
  <2>3. Locks'
    BY <2>0, <1>5, <2>2, CountsKept DEF Seg!WritePayload
  <2>4. b0 \in BlockIndex /\ Seg!WritersOf(b0) = {w} /\ Seg!ReadersOf(b0) = {}
    BY <2>0, <1>5 DEF BlockTypes, Seg!WritePayload, Locks, Seg!WritersOf, Seg!WritingPc
  <2>5. \A r \in Listeners : rpc[r] \in Seg!ReadingPc => rblock[r] # b0
    BY <2>4 DEF Seg!ReadersOf
  <2>6. \A v \in Transmitters : v # w /\ wpc[v] = "info" => wblock[v] # b0
    BY <2>4 DEF Seg!WritersOf, Seg!WritingPc
  <2>7. Contents'
    BY <2>0, <1>5, <2>4, <2>5, <2>6 DEF BlockTypes, Seg!WritePayload, Contents, Seg!ReadingPc
  <2>8. CasLocal'
    BY <2>0, <1>5 DEF Seg!WritePayload, CasLocal
  <2> QED
    BY <2>1, <2>3, <2>7, <2>8
<1>6. ASSUME Seg!WriteInfo(w) PROVE BlockInv'
  <2>0. PICK b0 \in BlockIndex : b0 = wblock[w]
    BY DEF BlockTypes
  <2>1. BlockTypes'
    BY <2>0, <1>6 DEF BlockTypes, Seg!WriteInfo, Seg!WritingPc
  <2>2. \A b \in BlockIndex : Seg!ReadersOf(b)' = Seg!ReadersOf(b) /\ Seg!WritersOf(b)' = Seg!WritersOf(b)
    BY <2>0, <1>6 DEF BlockTypes, Seg!WriteInfo, Seg!ReadersOf, Seg!WritersOf, Seg!WritingPc
  <2>3. Locks'
    BY <2>0, <1>6, <2>2, CountsKept DEF Seg!WriteInfo
  <2>4. b0 \in BlockIndex /\ Seg!WritersOf(b0) = {w} /\ Seg!ReadersOf(b0) = {}
    BY <2>0, <1>6 DEF BlockTypes, Seg!WriteInfo, Locks, Seg!WritersOf, Seg!WritingPc
  <2>5. \A r \in Listeners : rpc[r] \in Seg!ReadingPc => rblock[r] # b0
    BY <2>4 DEF Seg!ReadersOf
  <2>6. payload'[b0] = msg_info'[b0]
    BY <2>0, <1>6, <2>4 DEF BlockTypes, Seg!WriteInfo, Contents
  <2>7. \A b \in BlockIndex : payload'[b] # msg_info'[b]
              => \E v \in Transmitters : wpc'[v] = "info" /\ wblock'[v] = b
    BY <2>0, <1>6, <2>6 DEF BlockTypes, Seg!WriteInfo, Contents
  <2>8a. \A v \in Transmitters \ {w} : wpc[v] \in Seg!WritingPc => wblock[v] # b0
    BY <2>4 DEF Seg!WritersOf
  <2>8b. \A v \in Transmitters :
            /\ wpc'[v] = "info" => payload'[wblock'[v]] = wmsg'[v]
            /\ wpc'[v] = "release" => msg_info'[wblock'[v]] = wmsg'[v]
    BY <2>0, <1>6, <2>8a DEF BlockTypes, Seg!WriteInfo, Contents, Seg!WritingPc
  <2>8c. \A l \in Listeners :
            /\ rpc'[l] \in {"payload", "release"} => rinfo'[l] = msg_info'[rblock'[l]]
            /\ rpc'[l] = "release" => rpayload'[l] = payload'[rblock'[l]]
    BY <2>0, <1>6, <2>5 DEF BlockTypes, Seg!WriteInfo, Contents, Seg!ReadingPc
  <2>8. Contents'
    BY <2>7, <2>8b, <2>8c DEF Contents
  <2>9. CasLocal'
    BY <2>0, <1>6 DEF Seg!WriteInfo, CasLocal
  <2> QED
    BY <2>1, <2>3, <2>8, <2>9
<1>7. ASSUME Seg!ReleaseWrittenBlock(w) PROVE BlockInv'
  <2>0. PICK b0 \in BlockIndex : b0 = wblock[w]
    BY DEF BlockTypes
  <2>1. BlockTypes'
    BY <2>0, <1>7 DEF BlockTypes, Seg!ReleaseWrittenBlock
  <2>2. /\ b0 \in BlockIndex /\ Seg!WritersOf(b0) = {w} /\ Seg!ReadersOf(b0) = {}
        /\ lock_num[b0] = -1
    BY <2>0, <1>7 DEF BlockTypes, Seg!ReleaseWrittenBlock, Locks, Seg!WritersOf, Seg!WritingPc,
                  Seg!WriteExclusive
  <2>3. /\ Seg!WritersOf(b0)' = {} /\ Seg!ReadersOf(b0)' = {} /\ lock_num'[b0] = 0
        /\ \A b \in BlockIndex \ {b0} : /\ lock_num'[b] = lock_num[b]
                                   /\ Seg!WritersOf(b)' = Seg!WritersOf(b)
        /\ \A b \in BlockIndex : Seg!ReadersOf(b)' = Seg!ReadersOf(b)
    BY <2>0, <1>7, <2>2 DEF BlockTypes, Seg!ReleaseWrittenBlock, Seg!ReadersOf, Seg!WritersOf, Seg!WritingPc
  <2>4. Locks'
    BY <2>3, FS_EmptySet DEF Locks
  <2>5. CasLocal' /\ Contents'
    BY <2>0, <1>7 DEF BlockTypes, Seg!ReleaseWrittenBlock, CasLocal, Contents
  <2> QED
    BY <2>1, <2>4, <2>5
<1> QED
  BY <1>1, <1>2, <1>3, <1>4, <1>5, <1>6, <1>7

-----------------------------------------------------------------------------
LEMMA ReaderStep ==
  ASSUME BlockInv, NEW r \in Listeners,
         \/ \E b \in BlockIndex : Seg!BeginRead(r, b)
         \/ Seg!ReadLockCas(r) \/ Seg!ReadLockCasFails(r) \/ Seg!ReadLockReload(r)
         \/ Seg!ReadInfo(r) \/ Seg!ReadPayload(r) \/ Seg!ReleaseReadBlock(r)
  PROVE  BlockInv'
<1> USE DEF BlockInv, Seg!blockVars, Seg!writerVars, Seg!readerVars
<1>1. ASSUME NEW b0 \in BlockIndex, Seg!BeginRead(r, b0) PROVE BlockInv'
  <2>1. BlockTypes'
    BY <1>1, TransportAssumption, LockRange DEF BlockTypes, Seg!BeginRead
  <2>2. \A b \in BlockIndex : Seg!ReadersOf(b)' = Seg!ReadersOf(b) /\ Seg!WritersOf(b)' = Seg!WritersOf(b)
    BY <1>1 DEF BlockTypes, Seg!BeginRead, Seg!ReadersOf, Seg!WritersOf, Seg!ReadingPc
  <2>3. Locks'
    BY <1>1, <2>2, CountsKept DEF Seg!BeginRead
  <2>4. CasLocal'
    BY <1>1, TransportAssumption DEF BlockTypes, Seg!BeginRead, CasLocal, Seg!RWLockFree
  <2>5. Contents'
    BY <1>1 DEF BlockTypes, Seg!BeginRead, Contents
  <2> QED
    BY <2>1, <2>3, <2>4, <2>5
<1>2. ASSUME Seg!ReadLockCas(r) PROVE BlockInv'
  <2>0. PICK b0 \in BlockIndex : b0 = rblock[r]
    BY DEF BlockTypes
  <2>1. BlockTypes'
    BY <2>0, <1>2 DEF BlockTypes, Seg!ReadLockCas, Seg!ReadingPc
  <2>2. b0 \in BlockIndex /\ Seg!WritersOf(b0) = {} /\ lock_num[b0] = Cardinality(Seg!ReadersOf(b0))
    BY <2>0, <1>2 DEF BlockTypes, Seg!ReadLockCas, Locks, CasLocal, Seg!WriteExclusive
  <2>3. /\ r \notin Seg!ReadersOf(b0) /\ Seg!ReadersOf(b0)' = Seg!ReadersOf(b0) \cup {r}
        /\ lock_num'[b0] = lock_num[b0] + 1
        /\ \A b \in BlockIndex \ {b0} : /\ lock_num'[b] = lock_num[b]
                                   /\ Seg!ReadersOf(b)' = Seg!ReadersOf(b)
        /\ \A b \in BlockIndex : Seg!WritersOf(b)' = Seg!WritersOf(b)
    BY <2>0, <1>2, <2>2 DEF BlockTypes, Seg!ReadLockCas, Seg!ReadersOf, Seg!WritersOf, Seg!ReadingPc
  <2>4. Cardinality(Seg!ReadersOf(b0)') = Cardinality(Seg!ReadersOf(b0)) + 1
    BY <2>2, <2>3, ReadersFinite, CountStep
  <2>5. Locks'
    BY <2>2, <2>3, <2>4 DEF Locks
  <2>6. CasLocal' /\ Contents'
    BY <2>0, <1>2 DEF BlockTypes, Seg!ReadLockCas, CasLocal, Contents
  <2> QED
    BY <2>1, <2>5, <2>6
<1>3. ASSUME Seg!ReadLockCasFails(r) PROVE BlockInv'
  <2>1. /\ rtries[r] \in 0 .. MaxTryLockTimes - 1 /\ rtries[r] + 1 \in 0 .. MaxTryLockTimes
        /\ rtries[r] + 1 = MaxTryLockTimes \/ rtries[r] + 1 < MaxTryLockTimes
    BY <1>3, TransportAssumption DEF BlockTypes, CasLocal, Seg!ReadLockCasFails
  <2>2. BlockTypes'
    BY <1>3, <2>1 DEF BlockTypes, Seg!ReadLockCasFails
  <2>3. \A b \in BlockIndex : Seg!ReadersOf(b)' = Seg!ReadersOf(b) /\ Seg!WritersOf(b)' = Seg!WritersOf(b)
    BY <1>3 DEF BlockTypes, Seg!ReadLockCasFails, Seg!ReadersOf, Seg!WritersOf, Seg!ReadingPc
  <2>4. Locks'
    BY <1>3, <2>3, CountsKept DEF Seg!ReadLockCasFails
  <2>5. CasLocal'
    BY <1>3, <2>1 DEF BlockTypes, Seg!ReadLockCasFails, CasLocal
  <2>6. Contents'
    BY <1>3 DEF BlockTypes, Seg!ReadLockCasFails, Contents
  <2> QED
    BY <2>2, <2>4, <2>5, <2>6
<1>4. ASSUME Seg!ReadLockReload(r) PROVE BlockInv'
  <2>0. PICK b0 \in BlockIndex : b0 = rblock[r]
    BY DEF BlockTypes
  <2>1. BlockTypes'
    BY <1>4, <2>0, LockRange DEF BlockTypes, Seg!ReadLockReload
  <2>2. \A b \in BlockIndex : Seg!ReadersOf(b)' = Seg!ReadersOf(b) /\ Seg!WritersOf(b)' = Seg!WritersOf(b)
    BY <1>4 DEF BlockTypes, Seg!ReadLockReload, Seg!ReadersOf, Seg!WritersOf, Seg!ReadingPc
  <2>3. Locks'
    BY <1>4, <2>2, CountsKept DEF Seg!ReadLockReload
  <2>4. CasLocal'
    BY <1>4 DEF BlockTypes, Seg!ReadLockReload, CasLocal, Seg!RWLockFree
  <2>5. Contents'
    BY <1>4 DEF BlockTypes, Seg!ReadLockReload, Contents
  <2> QED
    BY <2>1, <2>3, <2>4, <2>5
<1>5. ASSUME Seg!ReadInfo(r) PROVE BlockInv'
  <2>1. BlockTypes'
    BY <1>5 DEF BlockTypes, Seg!ReadInfo, Seg!ReadingPc
  <2>2. \A b \in BlockIndex : Seg!ReadersOf(b)' = Seg!ReadersOf(b) /\ Seg!WritersOf(b)' = Seg!WritersOf(b)
    BY <1>5 DEF BlockTypes, Seg!ReadInfo, Seg!ReadersOf, Seg!WritersOf, Seg!ReadingPc
  <2>3. Locks'
    BY <1>5, <2>2, CountsKept DEF Seg!ReadInfo
  <2>4. CasLocal' /\ Contents'
    BY <1>5 DEF BlockTypes, Seg!ReadInfo, CasLocal, Contents
  <2> QED
    BY <2>1, <2>3, <2>4
<1>6. ASSUME Seg!ReadPayload(r) PROVE BlockInv'
  <2>1. BlockTypes'
    BY <1>6 DEF BlockTypes, Seg!ReadPayload, Seg!ReadingPc
  <2>2. \A b \in BlockIndex : Seg!ReadersOf(b)' = Seg!ReadersOf(b) /\ Seg!WritersOf(b)' = Seg!WritersOf(b)
    BY <1>6 DEF BlockTypes, Seg!ReadPayload, Seg!ReadersOf, Seg!WritersOf, Seg!ReadingPc
  <2>3. Locks'
    BY <1>6, <2>2, CountsKept DEF Seg!ReadPayload
  <2>4. CasLocal' /\ Contents'
    BY <1>6 DEF BlockTypes, Seg!ReadPayload, CasLocal, Contents
  <2> QED
    BY <2>1, <2>3, <2>4
<1>7. ASSUME Seg!ReleaseReadBlock(r) PROVE BlockInv'
  <2>0. PICK b0 \in BlockIndex : b0 = rblock[r]
    BY DEF BlockTypes
  <2>1. BlockTypes'
    BY <2>0, <1>7 DEF BlockTypes, Seg!ReleaseReadBlock
  <2>2. /\ b0 \in BlockIndex /\ r \in Seg!ReadersOf(b0)
        /\ Seg!WritersOf(b0) = {} /\ lock_num[b0] = Cardinality(Seg!ReadersOf(b0))
    BY <2>0, <1>7 DEF BlockTypes, Seg!ReleaseReadBlock, Locks, Seg!ReadersOf, Seg!ReadingPc
  <2>3. /\ Seg!ReadersOf(b0)' = Seg!ReadersOf(b0) \ {r}
        /\ lock_num'[b0] = lock_num[b0] - 1
        /\ \A b \in BlockIndex \ {b0} : /\ lock_num'[b] = lock_num[b]
                                   /\ Seg!ReadersOf(b)' = Seg!ReadersOf(b)
        /\ \A b \in BlockIndex : Seg!WritersOf(b)' = Seg!WritersOf(b)
    BY <2>0, <1>7, <2>2 DEF BlockTypes, Seg!ReleaseReadBlock, Seg!ReadersOf, Seg!WritersOf, Seg!ReadingPc
  <2>4. Cardinality(Seg!ReadersOf(b0)') = Cardinality(Seg!ReadersOf(b0)) - 1
    BY <2>2, <2>3, ReadersFinite, CountStep
  <2>5. Locks'
    BY <2>2, <2>3, <2>4 DEF Locks
  <2>6. CasLocal' /\ Contents'
    BY <2>0, <1>7 DEF BlockTypes, Seg!ReleaseReadBlock, CasLocal, Contents
  <2> QED
    BY <2>1, <2>5, <2>6
<1> QED
  BY <1>1, <1>2, <1>3, <1>4, <1>5, <1>6, <1>7

-----------------------------------------------------------------------------
(* The ring of announcements *)

LEMMA Sizes ==
  /\ StartSeq \in Nat /\ StartSeq > 0 /\ MaxSeq \in Nat /\ MaxMessages \in Nat
  /\ Transmitters \subseteq Notifiers /\ Bystanders \subseteq Notifiers
  /\ Notifiers \cap Listeners = {} /\ Transmitters \cap Bystanders = {}
  /\ Notifiers \subseteq Process /\ Listeners \subseteq Process /\ Dispatchers = Listeners
BY RingAssumption, TransportAssumption, MaxMessagesIsNat DEF Bystanders, Process, Dispatchers

\* Nobody creates the ring, nobody shuts down: these steps of ConditionNotifier
\* are what is left of it.
LEMMA OpenIsJoin ==
  ASSUME Quiet, NEW p \in Process, Open(p)
  PROVE  OpenOnly(p) \/ LoadNextSeq(p)
<1>1. shm # "absent" /\ pc[p] # "construct"
    BY DEF Quiet, Writing, Due, Process
<1> QED
    BY <1>1 DEF Open, Create, Construct, At

\* A step of the transport is one of ConditionNotifier, or leaves it alone; only
\* the death by a null block is not, as it has no bound.
LEMMA StepIsRingStep ==
  ASSUME Quiet, BlockTypes, ShmNext, \A l \in Listeners : ~UseNullBlock(l)
  PROVE  [Next]_vars
<1> USE Sizes DEF notifierVars, vars, stopVars, Next
<1>1. ASSUME NEW p \in Process, Enable(p) PROVE [Next]_vars
    BY <1>1 DEF Enable
<1>2. ASSUME NEW p \in Process, ProcessDies(p) PROVE [Next]_vars
    BY <1>2 DEF ProcessDies
<1>3. ASSUME NEW t \in Transmitters, BeginTransmit(t) \/ AcquireBlock(t) \/ WriteBlock(t)
      PROVE  [Next]_vars
    BY <1>3 DEF BeginTransmit, AcquireBlock, WriteBlock, Seg!BeginWrite, Seg!TryLockForWrite,
                Seg!FetchAddSeq, Seg!TryLockForWriteFails, Seg!WritePayload, Seg!WriteInfo
<1>4. ASSUME NEW t \in Transmitters, ReleaseAndNotify(t) PROVE [Next]_vars
    <2>1. [channel |-> MyChannel, block |-> wblock[t]] \in ReadableInfo
        BY TransportAssumption DEF ReadableInfo, BlockTypes
    <2> QED
        BY <1>4, <2>1 DEF ReleaseAndNotify
<1>5. ASSUME NEW n \in Bystanders, NotifyOther(n) PROVE [Next]_vars
    <2>1. \A c \in Channel : [channel |-> c, block |-> 0] \in ReadableInfo
        BY RingAssumption DEF ReadableInfo
    <2> QED
        BY <1>5, <2>1 DEF NotifyOther
<1>6. ASSUME NEW n \in Notifiers, Announce(n) \/ StoreAnnouncement(n) PROVE [Next]_vars
    BY <1>6 DEF Announce, StoreAnnouncement, NotifyStep
<1>7. ASSUME NEW l \in Listeners, Listen(l) \/ ListenReturns(l) PROVE [Next]_vars
    BY <1>7 DEF Listen, ListenReturns, ListenStep
<1>8. ASSUME NEW l \in Listeners, Skip(l) \/ ReadMessage(l) \/ ReadBlock(l) \/ OnMessage(l)
                                  \/ ReleaseBlock(l)
      PROVE  [Next]_vars
    BY <1>8 DEF Skip, ReadMessage, ReadBlock, OnMessage, ReleaseBlock, Seg!BeginRead, Seg!ReadLockCas,
                Seg!ReadLockCasFails, Seg!ReadLockReload, Seg!ReadInfo, Seg!ReadPayload,
                Seg!ReleaseReadBlock
<1> QED
    BY <1>1, <1>2, <1>3, <1>4, <1>5, <1>6, <1>7, <1>8
    DEF ShmNext, TransmitStep, DispatchStep

\* A dispatcher that dies changes nothing that the invariant of the ring is about.
LEMMA DeathKeepsRing ==
  ASSUME IInv, NEW l \in Listeners, UseNullBlock(l)
  PROVE  IInv'
<1>1. dead' \subseteq Process /\ UNCHANGED notifierVars
    BY Sizes DEF UseNullBlock, IInv, Types, TypeOK
<1>2. TypeOK'
    BY <1>1 DEF IInv, Types, TypeOK, notifierVars, ringVars, histVars
<1>3. Histories' /\ Creation' /\ Bounds' /\ Forward'
    BY <1>1 DEF IInv, Types, Histories, Creation, Bounds, Forward, notifierVars, ringVars, histVars
<1>4. Undisturbed' => Undisturbed /\ Slots' /\ Writers'
    BY <1>1 DEF IInv, Undisturbed, Slots, Writers, SentInfo, notifierVars, ringVars, histVars
<1>5. Undisturbed' => Waiting' /\ Delivered'
    BY <1>1, <1>4 DEF IInv, Waiting, Delivered, Active, SentInfo, notifierVars, ringVars, histVars
<1> QED
    BY <1>2, <1>3, <1>4, <1>5 DEF IInv, Types

LEMMA RingStep ==
  ASSUME IInv, Quiet, BlockTypes, ShmNext
  PROVE  IInv'
<1>1. CASE \E l \in Listeners : UseNullBlock(l)
    BY <1>1, DeathKeepsRing
<1>2. CASE \A l \in Listeners : ~UseNullBlock(l)
    BY <1>2, StepIsRingStep, StepIInv
<1> QED
    BY <1>1, <1>2

LEMMA QuietStep ==
  ASSUME IInv, Quiet, ShmNext
  PROVE  Quiet'
<1>1. pc \in [Process -> {"closed", "construct", "load", "idle", "draw", "channel", "block",
                          "seq", "poll", "check", "getchannel", "getblock", "left", "fault"}]
    BY DEF IInv, Types, TypeOK
<1> USE <1>1, Sizes DEF Quiet, Writing, Due, Goto
<1>2. ASSUME NEW p \in Process, Enable(p) PROVE Quiet'
    <2>1. OpenOnly(p) \/ LoadNextSeq(p)
        BY <1>2, OpenIsJoin DEF Enable
    <2> QED
        BY <2>1 DEF OpenOnly, LoadNextSeq, At, ringVars, stopVars, histVars
<1>3. ASSUME UNCHANGED <<shm, shutdown, detached, raced, pc>> PROVE Quiet'
    BY <1>3
<1>4. ASSUME NEW p \in Process, ProcessDies(p) PROVE Quiet'
    BY <1>4, <1>3 DEF ProcessDies, Die, ringVars, histVars
<1>5. ASSUME NEW t \in Transmitters, BeginTransmit(t) \/ AcquireBlock(t) \/ WriteBlock(t)
      PROVE  Quiet'
    BY <1>5, <1>3 DEF BeginTransmit, AcquireBlock, WriteBlock, notifierVars, ringVars, histVars
<1>6. ASSUME NEW n \in Notifiers, NEW info, BeginNotify(n, info) PROVE Quiet'
    BY <1>6 DEF BeginNotify, ringVars, stopVars, histVars
<1>7. ASSUME NEW n \in Notifiers, Announce(n) PROVE Quiet'
    BY <1>7 DEF Announce, DrawSeq, stopVars
<1>8. ASSUME NEW n \in Notifiers, StoreAnnouncement(n) PROVE Quiet'
    BY <1>8 DEF StoreAnnouncement, StoreChannel, StoreBlock, StoreSeq, stopVars, histVars
<1>9. ASSUME NEW l \in Listeners, Listen(l) \/ ListenReturns(l) PROVE Quiet'
    BY <1>9 DEF Listen, ListenReturns, TestShutdown, Poll, CheckReady, CheckNotReady, LoadChannel,
                LoadBlock, ringVars, stopVars, histVars
<1>10. ASSUME NEW l \in Listeners, Skip(l) \/ ReadMessage(l) \/ ReadBlock(l) \/ OnMessage(l)
                                   \/ ReleaseBlock(l) \/ UseNullBlock(l)
       PROVE  Quiet'
    BY <1>10, <1>3 DEF Skip, ReadMessage, ReadBlock, OnMessage, ReleaseBlock, UseNullBlock,
                       notifierVars, ringVars, histVars
<1> QED
    BY <1>2, <1>4, <1>5, <1>6, <1>7, <1>8, <1>9, <1>10
    DEF ShmNext, TransmitStep, DispatchStep, ReleaseAndNotify, NotifyOther

-----------------------------------------------------------------------------
(* Blocks and types under the steps of the transport *)

LEMMA BlockStep ==
  ASSUME BlockInv, PathTypes, ShmNext
  PROVE  BlockInv'
<1>1. ASSUME UNCHANGED segmentVars PROVE BlockInv'
    <2>1. BlockTypes' /\ CasLocal' /\ Contents'
        BY <1>1 DEF BlockInv, BlockTypes, CasLocal, Contents, segmentVars
    <2>2. \A b \in BlockIndex : Seg!ReadersOf(b)' = Seg!ReadersOf(b) /\ Seg!WritersOf(b)' = Seg!WritersOf(b)
        BY <1>1 DEF segmentVars, Seg!ReadersOf, Seg!WritersOf
    <2>3. Locks'
        BY <1>1, <2>2, CountsKept DEF BlockInv, segmentVars
    <2> QED
        BY <2>1, <2>3 DEF BlockInv
<1>2. ASSUME NEW t \in Transmitters, BeginTransmit(t) PROVE BlockInv'
    <2>1. calls + 1 \in 1 .. MaxMessages
        BY <1>2, Sizes DEF BeginTransmit, PathTypes
    <2>2. Seg!BeginWrite(t, calls + 1)
        BY <1>2 DEF BeginTransmit
    <2>3. \E m \in 1 .. MaxMessages : Seg!BeginWrite(t, m)
        BY <2>1, <2>2
    <2> QED
        BY <2>3, WriterStep
<1>3. ASSUME NEW t \in Transmitters, AcquireBlock(t) \/ WriteBlock(t) \/ ReleaseAndNotify(t)
      PROVE  BlockInv'
    BY <1>3, WriterStep DEF AcquireBlock, WriteBlock, ReleaseAndNotify
<1>4. ASSUME NEW l \in Listeners, ReadMessage(l) PROVE BlockInv'
    <2>1. \A d \in task[l] : d.info.block \in BlockIndex
        BY DEF PathTypes, Delivery, Info
    <2>2. PICK d \in task[l] : Seg!BeginRead(l, d.info.block)
        BY <1>4 DEF ReadMessage
    <2>3. \E b \in BlockIndex : Seg!BeginRead(l, b)
        BY <2>1, <2>2
    <2> QED
        BY <2>3, ReaderStep
<1>5. ASSUME NEW l \in Listeners, ReadBlock(l) \/ OnMessage(l) \/ ReleaseBlock(l)
      PROVE  BlockInv'
    BY <1>5, ReaderStep DEF ReadBlock, OnMessage, ReleaseBlock
<1>6. ASSUME NEW p \in Process, Enable(p) \/ ProcessDies(p) PROVE BlockInv'
    <2>1. UNCHANGED segmentVars
        BY <1>6 DEF Enable, ProcessDies, Seg!Die, segmentVars, Seg!blockVars, Seg!writerVars, Seg!readerVars
    <2> QED
        BY <2>1, <1>1
<1>7. ASSUME NEW n \in Notifiers, NotifyOther(n) \/ Announce(n) \/ StoreAnnouncement(n)
      PROVE  BlockInv'
    BY <1>7, <1>1 DEF NotifyOther, Announce, StoreAnnouncement
<1>8. ASSUME NEW l \in Listeners, Listen(l) \/ ListenReturns(l) \/ Skip(l) \/ UseNullBlock(l)
      PROVE  BlockInv'
    BY <1>8, <1>1 DEF Listen, ListenReturns, Skip, UseNullBlock
<1> QED
    BY Sizes, <1>2, <1>3, <1>4, <1>5, <1>6, <1>7, <1>8 DEF ShmNext, TransmitStep, DispatchStep

\* What Announce and OnMessage append has the type of the rest.
LEMMA Appended ==
  ASSUME NEW S, NEW s \in Seq(S), NEW e \in S
  PROVE  /\ Append(s, e) \in Seq(S) /\ Len(Append(s, e)) = Len(s) + 1
         /\ Len(s) \in Nat /\ DOMAIN s = 1 .. Len(s) /\ DOMAIN Append(s, e) = 1 .. Len(s) + 1
         /\ Append(s, e)[Len(s) + 1] = e
         /\ \A i \in 1 .. Len(s) : Append(s, e)[i] = s[i]
BY AppendProperties, LenProperties

\* No bystander dies, and the dead of the blocks are those of the ring.
LEMMA DeadStep ==
  ASSUME dead \subseteq Transmitters \cup Listeners, Quiet, ShmNext
  PROVE  dead' \subseteq Transmitters \cup Listeners
<1>1. ASSUME NEW p \in Process, Enable(p) PROVE UNCHANGED dead
    BY <1>1, OpenIsJoin DEF Enable, OpenOnly, LoadNextSeq, stopVars
<1>2. ASSUME NEW p \in Process \ Bystanders, ProcessDies(p)
      PROVE  dead' \subseteq Transmitters \cup Listeners
    BY <1>2 DEF ProcessDies, Die, Process, Bystanders
<1>3. ASSUME NEW t \in Transmitters, BeginTransmit(t) \/ AcquireBlock(t) \/ WriteBlock(t)
      PROVE  UNCHANGED dead
    BY <1>3 DEF BeginTransmit, AcquireBlock, WriteBlock, Seg!BeginWrite, Seg!TryLockForWrite,
                Seg!FetchAddSeq, Seg!TryLockForWriteFails, Seg!WritePayload, Seg!WriteInfo
<1>4. ASSUME NEW n \in Notifiers,
             \/ Announce(n) \/ StoreAnnouncement(n) \/ NotifyOther(n)
             \/ (n \in Transmitters /\ ReleaseAndNotify(n))
      PROVE  UNCHANGED dead
    BY <1>4 DEF Announce, StoreAnnouncement, NotifyOther, ReleaseAndNotify, BeginNotify, DrawSeq,
                StoreChannel, StoreBlock, StoreSeq, stopVars
<1>5. ASSUME NEW l \in Listeners, Listen(l) \/ ListenReturns(l) PROVE UNCHANGED dead
    BY <1>5 DEF Listen, TestShutdown, Poll, CheckReady, CheckNotReady, LoadChannel, ListenReturns,
                LoadBlock, stopVars
<1>6. ASSUME NEW l \in Listeners, Skip(l) \/ ReadMessage(l) \/ ReadBlock(l) \/ OnMessage(l) \/ ReleaseBlock(l)
      PROVE  UNCHANGED dead
    BY <1>6 DEF Skip, ReadMessage, ReadBlock, OnMessage, ReleaseBlock, Seg!BeginRead, Seg!ReadLockCas,
                Seg!ReadLockCasFails, Seg!ReadLockReload, Seg!ReadInfo, Seg!ReadPayload, Seg!ReleaseReadBlock
<1>7. ASSUME NEW l \in Listeners, UseNullBlock(l) PROVE dead' \subseteq Transmitters \cup Listeners
    BY <1>7 DEF UseNullBlock
<1> QED
    BY Sizes, <1>1, <1>2, <1>3, <1>4, <1>5, <1>6, <1>7 DEF ShmNext, TransmitStep, DispatchStep

LEMMA PathTypesStep ==
  ASSUME IInv, IInv', Quiet, BlockInv, BlockInv', PathTypes, ShmNext
  PROVE  PathTypes'
<1>0. dead' \subseteq Transmitters \cup Listeners
    BY DeadStep DEF PathTypes
<1> USE <1>0
<1>1. ASSUME UNCHANGED <<myVars, sent>> PROVE PathTypes'
    BY <1>1 DEF PathTypes, myVars
<1>2. ASSUME NEW t \in Transmitters, BeginTransmit(t) PROVE PathTypes'
    BY <1>2, Sizes DEF BeginTransmit, PathTypes, notifierVars, histVars
<1>3. ASSUME NEW t \in Transmitters, AcquireBlock(t) PROVE PathTypes'
    BY <1>3 DEF AcquireBlock, PathTypes, notifierVars, histVars
<1>4. ASSUME NEW t \in Transmitters, WriteBlock(t) \/ ReleaseAndNotify(t) PROVE PathTypes'
    BY <1>4, <1>1 DEF WriteBlock, ReleaseAndNotify, notifierVars, histVars, BeginNotify
<1>5. ASSUME NEW n \in Bystanders, NotifyOther(n) PROVE PathTypes'
    BY <1>5, Sizes DEF NotifyOther, PathTypes, BeginNotify, histVars
<1>6. ASSUME NEW n \in Notifiers, Announce(n) PROVE PathTypes'
    <2>1. (IF n \in Transmitters THEN wmsg[n] ELSE 0) \in Content
        BY Sizes DEF BlockInv, BlockTypes, Content
    <2>2. published' \in Seq(Content) /\ Len(published') = Len(published) + 1
        BY <1>6, <2>1, Appended DEF Announce, PathTypes
    <2>3. sent \in Seq(Info) /\ ninfo[n] \in Info
        BY NoInfoType DEF IInv, Types, Histories, TypeOK, Info, ReadableInfo
    <2>4. Len(sent') = Len(sent) + 1
        BY <1>6, <2>3, Appended DEF Announce, DrawSeq
    <2> QED
        BY <1>6, <2>2, <2>4 DEF Announce, PathTypes
<1>7. ASSUME NEW n \in Notifiers, StoreAnnouncement(n) PROVE PathTypes'
    BY <1>7, <1>1 DEF StoreAnnouncement, StoreChannel, StoreBlock, StoreSeq, histVars
<1>8. ASSUME NEW p \in Process, Enable(p) PROVE PathTypes'
    BY <1>8, <1>1, OpenIsJoin DEF Enable, OpenOnly, LoadNextSeq, histVars
<1>9. ASSUME NEW p \in Process, ProcessDies(p) PROVE PathTypes'
    BY <1>9, <1>1 DEF ProcessDies, Die, histVars
<1>10. ASSUME NEW l \in Listeners, Listen(l) PROVE PathTypes'
    BY <1>10, <1>1 DEF Listen, TestShutdown, Poll, CheckReady, CheckNotReady, LoadChannel, histVars
<1>11. ASSUME NEW l \in Listeners, ListenReturns(l) PROVE PathTypes'
    <2>1. cursor[l] \in 0 .. MaxSeq /\ linfo'[l] \in Info
        BY DEF IInv, Types, TypeOK, Info
    <2>2. [seq |-> cursor[l], info |-> linfo'[l]] \in Delivery
        BY <2>1 DEF Delivery
    <2> QED
        BY <1>11, <2>2 DEF ListenReturns, LoadBlock, PathTypes
<1>12. ASSUME NEW l \in Listeners, Skip(l) \/ ReleaseBlock(l) PROVE PathTypes'
    BY <1>12 DEF Skip, ReleaseBlock, PathTypes, notifierVars, histVars
<1>13. ASSUME NEW l \in Listeners, ReadMessage(l) \/ ReadBlock(l) \/ UseNullBlock(l) PROVE PathTypes'
    BY <1>13, <1>1 DEF ReadMessage, ReadBlock, UseNullBlock, notifierVars, histVars
<1>14. ASSUME NEW l \in Listeners, OnMessage(l) PROVE PathTypes'
    <2>1. PICK d \in task[l] :
              got' = [got EXCEPT ![l] =
                         Append(@, [seq |-> d.seq, info |-> rinfo[l], payload |-> rpayload'[l]])]
        BY <1>14 DEF OnMessage
    <2>2. [seq |-> d.seq, info |-> rinfo[l], payload |-> rpayload'[l]] \in Handover
        BY DEF PathTypes, Delivery, Handover, BlockInv, BlockTypes
    <2>3. Append(got[l], [seq |-> d.seq, info |-> rinfo[l], payload |-> rpayload'[l]]) \in Seq(Handover)
        BY <2>2, Appended DEF PathTypes
    <2> QED
        BY <1>14, <2>1, <2>3 DEF OnMessage, PathTypes, notifierVars, histVars
<1> QED
    BY Sizes, <1>2, <1>3, <1>4, <1>5, <1>6, <1>7, <1>8, <1>9, <1>10, <1>11, <1>12, <1>13, <1>14
    DEF ShmNext, TransmitStep, DispatchStep

-----------------------------------------------------------------------------
(* What is announced *)

\* A step that changes no block and no message, and takes nobody to "draw".
LEMMA AnnouncingKept ==
  ASSUME Announcing, UNCHANGED <<wpc, wmsg, msg_info, ninfo>>,
         \A n \in Notifiers : pc'[n] = pc[n] \/ (pc[n] # "idle" /\ pc'[n] # "draw")
  PROVE  Announcing'
BY Sizes DEF Announcing

LEMMA AnnouncingStep ==
  ASSUME IInv, Quiet, BlockInv, PathTypes, Announcing, ShmNext
  PROVE  Announcing'
<1>1. pc \in [Process -> {"closed", "construct", "load", "idle", "draw", "channel", "block",
                          "seq", "poll", "check", "getchannel", "getblock", "left", "fault"}]
      /\ ninfo \in [Notifiers -> Info]
    BY NoInfoType DEF IInv, Types, TypeOK, Info, ReadableInfo
<1>2. ASSUME NEW p \in Process, Enable(p) PROVE Announcing'
    <2>1. OpenOnly(p) \/ LoadNextSeq(p)
        BY <1>2, OpenIsJoin DEF Enable
    <2>2. UNCHANGED <<wpc, wmsg, msg_info, ninfo>>
        BY <1>2, <2>1 DEF Enable, OpenOnly, LoadNextSeq, segmentVars
    <2>3. \A n \in Notifiers : pc'[n] = pc[n] \/ (pc[n] # "idle" /\ pc'[n] # "draw")
        BY <1>1, <2>1, Sizes DEF OpenOnly, LoadNextSeq, At, Goto
    <2> QED
        BY <2>2, <2>3, AnnouncingKept
<1>3. ASSUME NEW p \in Process, ProcessDies(p) PROVE Announcing'
    BY <1>3, AnnouncingKept DEF ProcessDies, Die, Seg!Die, Seg!blockVars, Seg!writerVars
<1>4. ASSUME NEW t \in Transmitters, BeginTransmit(t) PROVE Announcing'
    <2>1. calls + 1 # 0
        BY Sizes DEF PathTypes
    <2> QED
        BY <1>4, <2>1 DEF BeginTransmit, Announcing, BlockInv, BlockTypes, Seg!BeginWrite, Seg!blockVars,
                          notifierVars
<1>5. ASSUME NEW t \in Transmitters, AcquireBlock(t) PROVE Announcing'
    BY <1>5 DEF AcquireBlock, Announcing, BlockInv, BlockTypes, Seg!TryLockForWrite, notifierVars
<1>6. ASSUME NEW t \in Transmitters, WriteBlock(t) PROVE Announcing'
    <2>1. CASE Seg!WriteInfo(t)
        <3>1. \A b \in BlockIndex : msg_info[b] # 0 => msg_info'[b] # 0
            BY <2>1 DEF Seg!WriteInfo, Announcing, BlockInv, BlockTypes
        <3>2. \A s \in Transmitters : ninfo[s].block \in BlockIndex
            BY <1>1, Sizes DEF Info
        <3>3. UNCHANGED <<pc, ninfo, wmsg>> /\ \A s \in Transmitters : wpc'[s] # "idle" => wpc[s] # "idle"
            BY <1>6, <2>1 DEF WriteBlock, Seg!WriteInfo, notifierVars, BlockInv, BlockTypes
        <3> QED
            BY <3>1, <3>2, <3>3 DEF Announcing
    <2>2. CASE Seg!FetchAddSeq(t) \/ Seg!TryLockForWriteFails(t) \/ Seg!WritePayload(t)
        <3>1. UNCHANGED <<pc, ninfo, wmsg, msg_info>>
              /\ \A s \in Transmitters : wpc'[s] # "idle" => wpc[s] # "idle"
            BY <1>6, <2>2 DEF WriteBlock, Seg!FetchAddSeq, Seg!TryLockForWriteFails, Seg!WritePayload,
                              Seg!blockVars, notifierVars, BlockInv, BlockTypes
        <3> QED
            BY <3>1 DEF Announcing
    <2> QED
        BY <1>6, <2>1, <2>2 DEF WriteBlock
<1>7. ASSUME NEW t \in Transmitters, ReleaseAndNotify(t) PROVE Announcing'
    <2>1. wpc[t] = "release" /\ pc[t] = "idle" /\ wmsg[t] # 0 /\ wblock[t] \in BlockIndex
          /\ msg_info[wblock[t]] # 0
        BY <1>7 DEF ReleaseAndNotify, Seg!ReleaseWrittenBlock, Announcing, BlockInv, BlockTypes, Contents
    <2>2. /\ wpc' = [wpc EXCEPT ![t] = "idle"] /\ UNCHANGED <<msg_info, wmsg>>
          /\ pc' = [pc EXCEPT ![t] = "draw"]
          /\ ninfo' = [ninfo EXCEPT ![t] = [channel |-> MyChannel, block |-> wblock[t]]]
        BY <1>7 DEF ReleaseAndNotify, Seg!ReleaseWrittenBlock, BeginNotify, Goto
    <2>3. t \in Process /\ t \in Notifiers /\ wpc \in [Transmitters -> {"idle", "seq", "try"} \cup Seg!WritingPc]
        BY Sizes DEF BlockInv, BlockTypes
    <2> QED
        BY <1>1, <2>1, <2>2, <2>3, Sizes DEF Announcing
<1>8. ASSUME NEW n \in Bystanders, NotifyOther(n) PROVE Announcing'
    <2>1. PICK c \in Channel \ {MyChannel} : BeginNotify(n, [channel |-> c, block |-> 0])
        BY <1>8 DEF NotifyOther
    <2>2. /\ UNCHANGED <<wpc, wmsg, msg_info>> /\ pc' = [pc EXCEPT ![n] = "draw"]
          /\ ninfo' = [ninfo EXCEPT ![n] = [channel |-> c, block |-> 0]]
        BY <1>8, <2>1 DEF NotifyOther, BeginNotify, Goto, segmentVars
    <2>3. n \in Process /\ n \in Notifiers /\ n \notin Transmitters
        BY Sizes DEF Bystanders
    <2> QED
        BY <1>1, <2>2, <2>3, Sizes DEF Announcing
<1>9. ASSUME NEW n \in Notifiers, Announce(n) \/ StoreAnnouncement(n) PROVE Announcing'
    <2>1. UNCHANGED <<wpc, wmsg, msg_info, ninfo>>
        BY <1>9 DEF Announce, DrawSeq, StoreAnnouncement, StoreChannel, StoreBlock, StoreSeq, segmentVars
    <2>2. \A m \in Notifiers : pc'[m] = pc[m] \/ (pc[m] # "idle" /\ pc'[m] # "draw")
        BY <1>1, <1>9, Sizes DEF Announce, DrawSeq, StoreAnnouncement, StoreChannel, StoreBlock, StoreSeq,
                                 At, Goto
    <2> QED
        BY <2>1, <2>2, AnnouncingKept
<1>10. ASSUME NEW l \in Listeners, DispatchStep(l) PROVE Announcing'
    <2>1. UNCHANGED <<wpc, wmsg, msg_info, ninfo>>
        BY <1>10 DEF DispatchStep, Listen, TestShutdown, Poll, CheckReady, CheckNotReady, LoadChannel,
                     ListenReturns, LoadBlock, Skip, ReadMessage, ReadBlock, OnMessage, ReleaseBlock,
                     UseNullBlock, Seg!BeginRead, Seg!ReadLockCas, Seg!ReadLockCasFails,
                     Seg!ReadLockReload, Seg!ReadInfo, Seg!ReadPayload, Seg!ReleaseReadBlock,
                     Seg!blockVars, Seg!writerVars, segmentVars, notifierVars
    <2>2. pc' = pc \/ \E s : pc' = [pc EXCEPT ![l] = s]
        <3>1. CASE Listen(l)
            BY <3>1 DEF Listen, TestShutdown, Poll, CheckReady, CheckNotReady, LoadChannel, Goto
        <3>2. CASE ListenReturns(l)
            BY <3>2 DEF ListenReturns, LoadBlock, Goto
        <3>3. CASE \/ Skip(l) \/ ReadMessage(l) \/ ReadBlock(l) \/ OnMessage(l) \/ ReleaseBlock(l)
                   \/ UseNullBlock(l)
            BY <3>3 DEF Skip, ReadMessage, ReadBlock, OnMessage, ReleaseBlock, UseNullBlock, notifierVars
        <3> QED
            BY <1>10, <3>1, <3>2, <3>3 DEF DispatchStep
    <2>3. \A m \in Notifiers : pc'[m] = pc[m]
        BY <1>1, <2>2, Sizes
    <2> QED
        BY <2>1, <2>3, AnnouncingKept
<1> QED
    BY Sizes, <1>2, <1>3, <1>4, <1>5, <1>6, <1>7, <1>8, <1>9, <1>10 DEF ShmNext, TransmitStep

\* What the steps of each kind of process leave alone.
LEMMA WriterFrame ==
  ASSUME NEW t \in Transmitters, BeginTransmit(t) \/ AcquireBlock(t) \/ WriteBlock(t)
  PROVE  UNCHANGED <<notifierVars, task, published, got, dead, rpc, rblock, rlock, rtries, rinfo, rpayload>>
<1>1. CASE BeginTransmit(t)
    BY <1>1 DEF BeginTransmit, Seg!BeginWrite, Seg!readerVars
<1>2. CASE AcquireBlock(t)
    BY <1>2 DEF AcquireBlock, Seg!TryLockForWrite, Seg!readerVars
<1>3. CASE WriteBlock(t)
    <2>1. UNCHANGED <<dead, rpc, rblock, rlock, rtries, rinfo, rpayload>>
        BY <1>3 DEF WriteBlock, Seg!FetchAddSeq, Seg!TryLockForWriteFails, Seg!WritePayload,
                    Seg!WriteInfo, Seg!readerVars
    <2> QED
        BY <1>3, <2>1 DEF WriteBlock, myVars
<1> QED
    BY <1>1, <1>2, <1>3

LEMMA ReleaseFrame ==
  ASSUME NEW t \in Transmitters, ReleaseAndNotify(t)
  PROVE  UNCHANGED <<ringVars, cursor, linfo, histVars, myVars, seq, payload, msg_info, wblock, wmsg,
                     rpc, rblock, rlock, rtries, rinfo, rpayload>>
BY DEF ReleaseAndNotify, Seg!ReleaseWrittenBlock, Seg!readerVars, BeginNotify

LEMMA NotifierFrame ==
  ASSUME NEW n \in Notifiers, NotifyOther(n) \/ Announce(n) \/ StoreAnnouncement(n)
  PROVE  /\ UNCHANGED <<segmentVars, task, got, rewritten, cursor, linfo, joined, delivered, raced>>
         /\ ~Announce(n) => UNCHANGED <<next_seq, sent, published, overrun>>
         /\ ~NotifyOther(n) => UNCHANGED ninfo
BY DEF NotifyOther, Announce, StoreAnnouncement, BeginNotify, DrawSeq, StoreChannel, StoreBlock,
       StoreSeq, histVars, ringVars, myVars

LEMMA OpenFrame ==
  ASSUME Quiet, NEW p \in Process, Enable(p) \/ ProcessDies(p)
  PROVE  /\ UNCHANGED <<segmentVars, myVars, ringVars, nseq, ninfo, linfo, sent, delivered, overrun, raced>>
         /\ UNCHANGED <<pc, cursor, joined>> \/ OpenOnly(p) \/ LoadNextSeq(p)
<1>1. CASE Enable(p)
    BY <1>1, OpenIsJoin DEF Enable, OpenOnly, LoadNextSeq, histVars
<1>2. CASE ProcessDies(p)
    BY <1>2 DEF ProcessDies, Die, Seg!Die, Seg!blockVars, Seg!writerVars, Seg!readerVars, segmentVars, histVars
<1> QED
    BY <1>1, <1>2

LEMMA DispatchFrame ==
  ASSUME NEW l \in Listeners, DispatchStep(l)
  PROVE  UNCHANGED <<wpc, wblock, wmsg, seq, payload, msg_info, ringVars, nseq, ninfo, joined, sent, overrun,
                     raced, calls, published, rewritten>>
<1>1. CASE Listen(l) \/ ListenReturns(l)
    BY <1>1 DEF Listen, TestShutdown, Poll, CheckReady, CheckNotReady, LoadChannel, ListenReturns, LoadBlock,
                histVars, segmentVars, myVars
<1>2. CASE Skip(l) \/ UseNullBlock(l)
    BY <1>2 DEF Skip, UseNullBlock, segmentVars, notifierVars, histVars, myVars
<1>3. CASE ReadMessage(l) \/ ReadBlock(l) \/ OnMessage(l) \/ ReleaseBlock(l)
    BY <1>3 DEF ReadMessage, ReadBlock, OnMessage, ReleaseBlock, Seg!BeginRead, Seg!ReadLockCas,
                Seg!ReadLockCasFails, Seg!ReadLockReload, Seg!ReadInfo, Seg!ReadPayload,
                Seg!ReleaseReadBlock, Seg!blockVars, Seg!writerVars, notifierVars, histVars, myVars
<1> QED
    BY <1>1, <1>2, <1>3 DEF DispatchStep

\* A block that was written once is never without a message again.
LEMMA WrittenStays ==
  ASSUME Quiet, BlockInv, Announcing, ShmNext, NEW b \in BlockIndex, msg_info[b] # 0
  PROVE  msg_info'[b] # 0
<1>1. CASE \E t \in Transmitters : Seg!WriteInfo(t)
    BY <1>1 DEF Seg!WriteInfo, Announcing, BlockInv, BlockTypes
<1>2. ASSUME NEW t \in Transmitters, BeginTransmit(t) \/ AcquireBlock(t) \/ WriteBlock(t), ~Seg!WriteInfo(t)
      PROVE  msg_info'[b] # 0
    BY <1>2 DEF BeginTransmit, AcquireBlock, WriteBlock, Seg!BeginWrite, Seg!TryLockForWrite,
                Seg!FetchAddSeq, Seg!TryLockForWriteFails, Seg!WritePayload, Seg!blockVars
<1>3. ASSUME NEW t \in Transmitters, ReleaseAndNotify(t) PROVE msg_info'[b] # 0
    BY <1>3, ReleaseFrame
<1>4. ASSUME NEW n \in Notifiers, NotifyOther(n) \/ Announce(n) \/ StoreAnnouncement(n)
      PROVE  msg_info'[b] # 0
    BY <1>4, NotifierFrame DEF segmentVars
<1>5. ASSUME NEW p \in Process, Enable(p) \/ ProcessDies(p) PROVE msg_info'[b] # 0
    BY <1>5, OpenFrame DEF segmentVars
<1>6. ASSUME NEW l \in Listeners, DispatchStep(l) PROVE msg_info'[b] # 0
    BY <1>6, DispatchFrame
<1> QED
    BY Sizes, <1>1, <1>2, <1>3, <1>4, <1>5, <1>6 DEF ShmNext, TransmitStep

LEMMA AnnouncedStep ==
  ASSUME IInv, Quiet, BlockInv, PathTypes, Announcing, Announced, ShmNext
  PROVE  Announced'
<1>1. sent \in Seq(Info) /\ \A k \in 1 .. Len(sent) : sent[k] \in Info /\ sent[k].block \in BlockIndex
    <2>1. sent \in Seq(Info)
        BY DEF IInv, Types, Histories
    <2>2. \A k \in 1 .. Len(sent) : sent[k] \in Info
        BY <2>1, ElementOfSeq
    <2> QED
        BY <2>1, <2>2 DEF Info
<1>2. ASSUME UNCHANGED <<sent, published>> PROVE Announced'
    BY <1>1, <1>2, WrittenStays DEF Announced
<1>3. ASSUME NEW n \in Notifiers, Announce(n) PROVE Announced'
    <2> DEFINE m == IF n \in Transmitters THEN wmsg[n] ELSE 0
               N == Len(sent)
    <2>1. /\ sent' = Append(sent, ninfo[n]) /\ published' = Append(published, m)
          /\ pc[n] = "draw" /\ UNCHANGED <<msg_info>>
        BY <1>3 DEF Announce, DrawSeq, At, segmentVars
    <2>2. ninfo[n] \in Info /\ m \in Content
        BY NoInfoType, Sizes DEF IInv, Types, TypeOK, Info, ReadableInfo, BlockInv, BlockTypes, Content
    <2>3. /\ N \in Nat /\ Len(sent') = N + 1
          /\ sent'[N + 1] = ninfo[n] /\ \A k \in 1 .. N : sent'[k] = sent[k]
        BY <1>1, <2>1, <2>2, Appended
    <2>4. published'[N + 1] = m /\ \A k \in 1 .. N : published'[k] = published[k]
        BY <2>1, <2>2, Appended DEF PathTypes
    <2>5. /\ m # 0 <=> ninfo[n].channel = MyChannel
          /\ ninfo[n].channel = MyChannel => msg_info[ninfo[n].block] # 0
        BY <2>1, Sizes DEF Announcing, Bystanders
    <2>6. SUFFICES ASSUME NEW k \in 1 .. N + 1
                   PROVE  /\ published'[k] # 0 <=> sent'[k].channel = MyChannel
                          /\ sent'[k].channel = MyChannel => msg_info'[sent'[k].block] # 0
        BY <2>3 DEF Announced
    <2>7. CASE k = N + 1
        BY <2>1, <2>3, <2>4, <2>5, <2>7
    <2>8. CASE k \in 1 .. N
        BY <2>1, <2>3, <2>4, <2>8 DEF Announced
    <2> QED
        BY <2>3, <2>7, <2>8
<1>4. ASSUME NEW t \in Transmitters, BeginTransmit(t) \/ AcquireBlock(t) \/ WriteBlock(t)
      PROVE  Announced'
    BY <1>2, <1>4, WriterFrame DEF notifierVars, histVars
<1>5. ASSUME NEW t \in Transmitters, ReleaseAndNotify(t) PROVE Announced'
    BY <1>2, <1>5, ReleaseFrame DEF histVars, myVars
<1>6. ASSUME NEW n \in Notifiers, NotifyOther(n) \/ StoreAnnouncement(n), ~Announce(n) PROVE Announced'
    BY <1>2, <1>6, NotifierFrame
<1>7. ASSUME NEW p \in Process, Enable(p) \/ ProcessDies(p) PROVE Announced'
    BY <1>2, <1>7, OpenFrame DEF myVars
<1>8. ASSUME NEW l \in Listeners, DispatchStep(l) PROVE Announced'
    BY <1>2, <1>8, DispatchFrame
<1> QED
    BY Sizes, <1>3, <1>4, <1>5, <1>6, <1>7, <1>8 DEF ShmNext, TransmitStep

-----------------------------------------------------------------------------
(* One dispatcher *)

\* What has been drawn and announced stays.
LEMMA HistoryGrows ==
  ASSUME IInv, Quiet, PathTypes, BlockInv, ShmNext
  PROVE  /\ overrun => overrun'
         /\ rewritten => rewritten'
         /\ next_seq \in Nat /\ next_seq <= next_seq'
         /\ next_seq' = next_seq \/ (next_seq' = next_seq + 1 /\ \E n \in Notifiers : Announce(n))
         /\ \A k \in StartSeq .. next_seq - 1 : SentInfo(k)' = SentInfo(k) /\ Published(k)' = Published(k)
<1>1. /\ next_seq \in Nat /\ sent \in Seq(Info) /\ Len(sent) = next_seq - StartSeq
      /\ published \in Seq(Content) /\ Len(published) = Len(sent) /\ StartSeq \in Nat
    BY Sizes DEF IInv, Types, TypeOK, Histories, PathTypes
<1>2. ASSUME UNCHANGED <<next_seq, sent, published, overrun>>
      PROVE  /\ overrun => overrun'
             /\ next_seq <= next_seq'
             /\ \A k \in StartSeq .. next_seq - 1 : SentInfo(k)' = SentInfo(k) /\ Published(k)' = Published(k)
    BY <1>1, <1>2 DEF SentInfo, Published
<1>3. ASSUME NEW n \in Notifiers, Announce(n)
      PROVE  /\ overrun => overrun'
             /\ next_seq <= next_seq'
             /\ \A k \in StartSeq .. next_seq - 1 : SentInfo(k)' = SentInfo(k) /\ Published(k)' = Published(k)
    <2> DEFINE m == IF n \in Transmitters THEN wmsg[n] ELSE 0
    <2>1. /\ sent' = Append(sent, ninfo[n]) /\ published' = Append(published, m)
          /\ next_seq' = next_seq + 1 /\ (overrun => overrun')
        BY <1>3 DEF Announce, DrawSeq
    <2>2. ninfo[n] \in Info /\ m \in Content
        BY NoInfoType, Sizes DEF IInv, Types, TypeOK, Info, ReadableInfo, BlockInv, BlockTypes, Content
    <2>3. /\ \A i \in 1 .. Len(sent) : sent'[i] = sent[i]
          /\ \A i \in 1 .. Len(published) : published'[i] = published[i]
        BY <1>1, <2>1, <2>2, Appended
    <2>4. \A k \in StartSeq .. next_seq - 1 : k - StartSeq + 1 \in 1 .. Len(sent)
        BY <1>1
    <2> QED
        BY <1>1, <2>1, <2>3, <2>4 DEF SentInfo, Published
<1>4. rewritten => rewritten'
    <2>1. ASSUME NEW t \in Transmitters, BeginTransmit(t) \/ AcquireBlock(t) \/ WriteBlock(t)
          PROVE  rewritten => rewritten'
        BY <2>1 DEF BeginTransmit, AcquireBlock, WriteBlock, myVars
    <2> QED
        BY <2>1, Sizes, ReleaseFrame, NotifierFrame, OpenFrame, DispatchFrame
        DEF ShmNext, TransmitStep, myVars
<1>5. CASE \E n \in Notifiers : Announce(n)
    BY <1>1, <1>3, <1>4, <1>5 DEF Announce, DrawSeq
<1>6. CASE \A n \in Notifiers : ~Announce(n)
    <2>1. ASSUME NEW t \in Transmitters, BeginTransmit(t) \/ AcquireBlock(t) \/ WriteBlock(t)
          PROVE  UNCHANGED <<next_seq, sent, published, overrun>>
        BY <2>1, WriterFrame DEF notifierVars, ringVars, histVars
    <2>2. ASSUME NEW t \in Transmitters, ReleaseAndNotify(t)
          PROVE  UNCHANGED <<next_seq, sent, published, overrun>>
        BY <2>2, ReleaseFrame DEF ringVars, histVars, myVars
    <2>3. ASSUME NEW n \in Notifiers, NotifyOther(n) \/ StoreAnnouncement(n)
          PROVE  UNCHANGED <<next_seq, sent, published, overrun>>
        BY <1>6, <2>3, NotifierFrame
    <2>4. ASSUME NEW p \in Process, Enable(p) \/ ProcessDies(p)
          PROVE  UNCHANGED <<next_seq, sent, published, overrun>>
        BY <2>4, OpenFrame DEF ringVars, myVars
    <2>5. ASSUME NEW l \in Listeners, DispatchStep(l)
          PROVE  UNCHANGED <<next_seq, sent, published, overrun>>
        BY <2>5, DispatchFrame DEF ringVars
    <2>6. UNCHANGED <<next_seq, sent, published, overrun>>
        BY <1>6, <2>1, <2>2, <2>3, <2>4, <2>5, Sizes DEF ShmNext, TransmitStep
    <2> QED
        BY <1>1, <1>2, <1>4, <2>6
<1> QED
    BY <1>5, <1>6

\* The steps of a dispatcher leave the others alone.
LEMMA OtherDispatchers ==
  ASSUME IInv, BlockInv, PathTypes, NEW l \in Listeners, DispatchStep(l), NEW x \in Listeners \ {l}
  PROVE  UNCHANGED Local(x)
<1> USE DEF Local
<1>1. /\ pc \in [Process -> {"closed", "construct", "load", "idle", "draw", "channel", "block",
                             "seq", "poll", "check", "getchannel", "getblock", "left", "fault"}]
      /\ cursor \in [Listeners -> 0 .. MaxSeq]
      /\ x \in Process /\ l \in Process /\ x # l /\ x \in Listeners
    BY Sizes DEF IInv, Types, TypeOK
<1>2. CASE Listen(l)
    BY <1>1, <1>2 DEF Listen, TestShutdown, Poll, CheckReady, CheckNotReady, LoadChannel, Goto,
                      segmentVars, myVars, histVars
<1>3. CASE ListenReturns(l)
    BY <1>1, <1>3 DEF ListenReturns, LoadBlock, Goto, segmentVars, PathTypes
<1>4. CASE Skip(l) \/ UseNullBlock(l)
    BY <1>1, <1>4 DEF Skip, UseNullBlock, segmentVars, notifierVars, histVars, myVars, PathTypes
<1>5. CASE ReadMessage(l) \/ ReadBlock(l)
    BY <1>1, <1>5 DEF ReadMessage, ReadBlock, Seg!BeginRead, Seg!ReadLockCas,
                Seg!ReadLockCasFails, Seg!ReadLockReload, Seg!ReadInfo, notifierVars, histVars, myVars,
                BlockInv, BlockTypes
<1>6. CASE OnMessage(l) \/ ReleaseBlock(l)
    BY <1>1, <1>6 DEF OnMessage, ReleaseBlock, Seg!ReadPayload, Seg!ReleaseReadBlock, notifierVars,
                histVars, BlockInv, BlockTypes, PathTypes
<1> QED
    BY <1>2, <1>3, <1>4, <1>5, <1>6 DEF DispatchStep

\* A dispatcher is touched by its own steps only.
LEMMA Untouched ==
  ASSUME IInv, Quiet, BlockInv, PathTypes, ShmNext,
         NEW x \in Listeners, ~DispatchStep(x), ~Enable(x)
  PROVE  UNCHANGED Local(x)
<1>1. /\ pc \in [Process -> {"closed", "construct", "load", "idle", "draw", "channel", "block",
                             "seq", "poll", "check", "getchannel", "getblock", "left", "fault"}]
      /\ cursor \in [Listeners -> 0 .. MaxSeq] /\ joined \in [Listeners -> 0 .. MaxSeq]
      /\ x \in Process /\ x \notin Notifiers
    BY Sizes DEF IInv, Types, TypeOK, Histories
<1>2. ASSUME NEW t \in Transmitters, BeginTransmit(t) \/ AcquireBlock(t) \/ WriteBlock(t)
      PROVE  UNCHANGED Local(x)
    BY <1>2, WriterFrame DEF Local, notifierVars, histVars
<1>3. ASSUME NEW t \in Transmitters, ReleaseAndNotify(t) PROVE UNCHANGED Local(x)
    <2>1. pc' = [pc EXCEPT ![t] = "draw"] /\ t # x
        BY <1>1, <1>3, Sizes DEF ReleaseAndNotify, BeginNotify, Goto
    <2> QED
        BY <1>1, <1>3, <2>1, ReleaseFrame DEF Local, histVars, myVars
<1>4. ASSUME NEW n \in Notifiers, NotifyOther(n) \/ Announce(n) \/ StoreAnnouncement(n)
      PROVE  UNCHANGED Local(x)
    <2>1. \E s : pc' = [pc EXCEPT ![n] = s]
        BY <1>4 DEF NotifyOther, Announce, StoreAnnouncement, BeginNotify, DrawSeq, StoreChannel,
                    StoreBlock, StoreSeq, Goto
    <2>2. pc'[x] = pc[x]
        BY <1>1, <2>1
    <2> QED
        BY <1>4, <2>2, NotifierFrame DEF Local, segmentVars
<1>5. ASSUME NEW p \in Process, Enable(p) \/ ProcessDies(p) PROVE UNCHANGED Local(x)
    <2>1. UNCHANGED <<pc[x], cursor[x], joined[x]>>
        <3>1. CASE UNCHANGED <<pc, cursor, joined>>
            BY <3>1
        <3>2. CASE Enable(p)
            <4>1. p # x /\ (OpenOnly(p) \/ LoadNextSeq(p))
                BY <3>2, OpenIsJoin DEF Enable
            <4> QED
                BY <1>1, <4>1 DEF OpenOnly, LoadNextSeq, Goto, histVars
        <3>3. CASE ProcessDies(p)
            BY <3>3 DEF ProcessDies, Die, histVars
        <3> QED
            BY <1>5, <3>2, <3>3
    <2> QED
        BY <1>5, <2>1, OpenFrame DEF Local, segmentVars, myVars
<1>6. ASSUME NEW l \in Listeners, DispatchStep(l) PROVE UNCHANGED Local(x)
    <2>1. x \in Listeners \ {l}
        BY <1>6
    <2> QED
        BY <1>6, <2>1, OtherDispatchers
<1> QED
    BY Sizes, <1>2, <1>3, <1>4, <1>5, <1>6 DEF ShmNext, TransmitStep

\* A dispatcher that handles an announcement has nothing else to handle, and a
\* block it reads is the announced one.
LEMMA OneTask ==
  ASSUME NEW l \in Listeners, Handles(l), NEW d \in task[l]
  PROVE  /\ task[l] = {d} /\ pc[l] = "idle" /\ d.seq = cursor[l] - 1
         /\ rpc[l] # "idle" => d.info = [channel |-> MyChannel, block |-> rblock[l]]
BY DEF Handles

\* Until Listen returns, only the place in it and the cursor change.
LEMMA WhileListening ==
  ASSUME IInv, NEW l \in Listeners, Listen(l)
  PROVE  /\ task[l] = {} /\ UNCHANGED <<joined, task, got, rpc, rblock, rtries, rinfo, delivered, next_seq>>
         /\ pc[l] \notin Opening /\ pc'[l] \notin Opening
         /\ cursor[l] \in Nat /\ cursor'[l] \in Nat /\ cursor'[l] >= cursor[l]
<1>1. /\ pc \in [Process -> {"closed", "construct", "load", "idle", "draw", "channel", "block",
                             "seq", "poll", "check", "getchannel", "getblock", "left", "fault"}]
      /\ cursor \in [Listeners -> 0 .. MaxSeq] /\ seqs \in [Slot -> 0 .. MaxSeq]
      /\ l \in Process /\ cursor[l] \in Nat
    BY Sizes DEF IInv, Types, TypeOK
<1>2. /\ task[l] = {}
      /\ TestShutdown(l) \/ Poll(l) \/ CheckReady(l) \/ CheckNotReady(l) \/ LoadChannel(l)
      /\ UNCHANGED <<task, got, rpc, rblock, rtries, rinfo>>
    BY DEF Listen, segmentVars, myVars
<1>3. CASE TestShutdown(l) \/ Poll(l) \/ CheckNotReady(l) \/ LoadChannel(l)
    BY <1>1, <1>2, <1>3 DEF TestShutdown, Poll, CheckNotReady, LoadChannel, Goto, At, Opening,
                            ringVars, histVars
<1>4. CASE CheckReady(l)
    <2>1. SlotOf(cursor[l]) \in Slot
        BY <1>1, SlotIsSlot
    <2>2. ActualSeq(l) \in Nat /\ ActualSeq(l) >= cursor[l]
        BY <1>1, <1>4, <2>1, Sizes DEF CheckReady, ActualSeq
    <2> QED
        BY <1>1, <1>2, <1>4, <2>2 DEF CheckReady, Goto, At, Opening, ringVars, histVars
<1> QED
    BY <1>2, <1>3, <1>4

\* Listen returns an announcement, to a dispatcher that has none in hand.
LEMMA WhenListenReturns ==
  ASSUME IInv, PathTypes, NEW l \in Listeners, Handles(l), ListenReturns(l)
  PROVE  /\ task[l] = {} /\ task'[l] = {[seq |-> cursor[l], info |-> linfo'[l]]}
         /\ UNCHANGED <<joined, got, rpc, rblock, rtries, rinfo, next_seq>>
         /\ delivered' = [delivered EXCEPT ![l] =
                             Append(@, [seq |-> cursor[l], info |-> linfo'[l]])]
         /\ pc[l] = "getblock" /\ pc'[l] = "idle"
         /\ cursor[l] \in Nat /\ cursor'[l] = cursor[l] + 1
<1>1. /\ pc \in [Process -> {"closed", "construct", "load", "idle", "draw", "channel", "block",
                             "seq", "poll", "check", "getchannel", "getblock", "left", "fault"}]
      /\ cursor \in [Listeners -> 0 .. MaxSeq] /\ l \in Process /\ cursor[l] \in Nat
      /\ task \in [Listeners -> SUBSET Delivery]
    BY Sizes DEF IInv, Types, TypeOK, PathTypes
<1>2. /\ LoadBlock(l) /\ task' = [task EXCEPT ![l] = {[seq |-> cursor[l], info |-> linfo'[l]]}]
      /\ UNCHANGED <<segmentVars, got>>
    BY DEF ListenReturns
<1>3. pc[l] = "getblock"
    BY <1>2 DEF LoadBlock, At
<1>4. task[l] = {}
    BY <1>3 DEF Handles
<1> QED
    BY <1>1, <1>2, <1>3, <1>4 DEF LoadBlock, Goto, segmentVars, ringVars

\* Reading the announced block changes neither the place in the ring nor the task.
LEMMA WhileReading ==
  ASSUME BlockInv, PathTypes, NEW l \in Listeners, Handles(l), ReadMessage(l) \/ ReadBlock(l)
  PROVE  /\ UNCHANGED <<pc, cursor, joined, task, got, delivered, next_seq>>
         /\ rpc[l] # "release" /\ rpc'[l] # "release" /\ rpc[l] # "failed"
         /\ \E d \in task[l] : d.info = [channel |-> MyChannel, block |-> rblock'[l]]
<1>1. UNCHANGED <<pc, cursor, joined, task, got, delivered, next_seq>>
    BY DEF ReadMessage, ReadBlock, notifierVars, ringVars, histVars, myVars
<1>2. CASE ReadMessage(l)
    <2>1. PICK d \in task[l] : d.info.channel = MyChannel /\ Seg!BeginRead(l, d.info.block)
        BY <1>2 DEF ReadMessage
    <2>2. d.info = [channel |-> MyChannel, block |-> d.info.block]
        BY <2>1 DEF PathTypes, Delivery, Info
    <2> QED
        BY <1>1, <2>1, <2>2 DEF Seg!BeginRead, BlockInv, BlockTypes
<1>3. CASE ReadBlock(l)
    <2>1. \E d \in task[l] : d.info = [channel |-> MyChannel, block |-> rblock[l]]
        BY <1>3 DEF ReadBlock, Handles, Seg!ReadLockCas, Seg!ReadLockCasFails, Seg!ReadLockReload,
                    Seg!ReadInfo
    <2> QED
        BY <1>1, <1>3, <2>1 DEF ReadBlock, Seg!ReadLockCas, Seg!ReadLockCasFails, Seg!ReadLockReload,
                    Seg!ReadInfo, BlockInv, BlockTypes
<1> QED
    BY <1>2, <1>3

\* The message is appended to what was handed over, and the task stays.
LEMMA WhenHandedOver ==
  ASSUME BlockInv, BlockInv', PathTypes, NEW l \in Listeners, Handles(l), OnMessage(l)
  PROVE  /\ UNCHANGED <<pc, cursor, joined, task, delivered, next_seq, rblock, rtries, msg_info>>
         /\ rpc[l] = "payload" /\ rpc'[l] = "release"
         /\ \E d \in task[l] : \E e :
               /\ e = [seq |-> d.seq, info |-> rinfo[l], payload |-> rpayload'[l]]
               /\ e.info = e.payload /\ e.info = msg_info[rblock[l]]
               /\ DOMAIN got'[l] = 1 .. Len(got[l]) + 1 /\ DOMAIN got[l] = 1 .. Len(got[l])
               /\ got'[l][Len(got[l]) + 1] = e /\ Len(got[l]) \in Nat
               /\ \A i \in DOMAIN got[l] : got'[l][i] = got[l][i]
<1>1. UNCHANGED <<pc, cursor, joined, task, delivered, next_seq, rblock, rtries, msg_info, payload, rinfo>>
    BY DEF OnMessage, Seg!ReadPayload, Seg!blockVars, notifierVars, ringVars, histVars
<1>2. rpc[l] = "payload" /\ rpc'[l] = "release"
    BY DEF OnMessage, Seg!ReadPayload, BlockInv, BlockTypes
<1>3. PICK d \in task[l] :
          got' = [got EXCEPT ![l] =
                     Append(@, [seq |-> d.seq, info |-> rinfo[l], payload |-> rpayload'[l]])]
    BY DEF OnMessage
<1>4. rinfo[l] = msg_info[rblock[l]] /\ rpayload'[l] = payload[rblock[l]]
    BY <1>1, <1>2 DEF BlockInv, Contents
<1>5. payload[rblock[l]] = msg_info[rblock[l]]
    <2>1. rblock[l] \in BlockIndex /\ l \in Seg!ReadersOf(rblock[l])
        BY <1>2 DEF BlockInv, BlockTypes, Seg!ReadersOf, Seg!ReadingPc
    <2>2. Seg!WritersOf(rblock[l]) = {}
        BY <2>1 DEF BlockInv, Locks
    <2> QED
        BY <2>1, <2>2 DEF BlockInv, Contents, Seg!WritersOf, Seg!WritingPc
<1> DEFINE e == [seq |-> d.seq, info |-> rinfo[l], payload |-> rpayload'[l]]
<1>6. e \in Handover /\ got[l] \in Seq(Handover)
    <2>1. d \in Delivery /\ got[l] \in Seq(Handover)
        BY DEF PathTypes
    <2>2. rinfo[l] \in Content /\ rpayload'[l] \in Content
        BY DEF BlockInv, BlockTypes
    <2> QED
        BY <2>1, <2>2 DEF Delivery, Handover
<1>7. got'[l] = Append(got[l], e)
    BY <1>3 DEF PathTypes
<1>8. /\ DOMAIN got'[l] = 1 .. Len(got[l]) + 1 /\ DOMAIN got[l] = 1 .. Len(got[l])
      /\ got'[l][Len(got[l]) + 1] = e /\ Len(got[l]) \in Nat
      /\ \A i \in DOMAIN got[l] : got'[l][i] = got[l][i]
    BY <1>6, <1>7, Appended
<1>9. e.info = e.payload /\ e.info = msg_info[rblock[l]]
    BY <1>4, <1>5
<1> HIDE DEF e
<1>10. \E x : /\ x = [seq |-> d.seq, info |-> rinfo[l], payload |-> rpayload'[l]]
              /\ x.info = x.payload /\ x.info = msg_info[rblock[l]]
              /\ DOMAIN got'[l] = 1 .. Len(got[l]) + 1 /\ DOMAIN got[l] = 1 .. Len(got[l])
              /\ got'[l][Len(got[l]) + 1] = x /\ Len(got[l]) \in Nat
              /\ \A i \in DOMAIN got[l] : got'[l][i] = got[l][i]
    <2>1. e = [seq |-> d.seq, info |-> rinfo[l], payload |-> rpayload'[l]]
        BY DEF e
    <2> WITNESS e
    <2> QED
        BY <1>8, <1>9, <2>1
<1> QED
    BY <1>1, <1>2, <1>10

\* The announcement is done with.
LEMMA WhenDone ==
  ASSUME BlockInv, PathTypes, NEW l \in Listeners, Handles(l), Skip(l) \/ ReleaseBlock(l)
  PROVE  /\ UNCHANGED <<pc, cursor, joined, got, delivered, next_seq, rblock, rtries>>
         /\ task'[l] = {} /\ rpc'[l] = "idle"
         /\ \A d \in task[l] : d.info.channel # MyChannel \/ rpc[l] = "release"
<1>1. UNCHANGED <<pc, cursor, joined, got, delivered, next_seq, rblock, rtries>> /\ task'[l] = {}
    BY DEF Skip, ReleaseBlock, Seg!ReleaseReadBlock, segmentVars, notifierVars, ringVars, histVars, PathTypes
<1>2. CASE Skip(l)
    <2>1. PICK d \in task[l] : d.info.channel # MyChannel
        BY <1>2 DEF Skip
    <2>2. task[l] = {d} /\ rpc[l] = "idle"
        <3>1. d.info # [channel |-> MyChannel, block |-> rblock[l]]
            BY <2>1
        <3> QED
            BY <3>1, OneTask
    <2>3. rpc' = rpc
        BY <1>2 DEF Skip, segmentVars
    <2> QED
        BY <1>1, <2>1, <2>2, <2>3
<1>3. CASE ReleaseBlock(l)
    BY <1>1, <1>3 DEF ReleaseBlock, Seg!ReleaseReadBlock, BlockInv, BlockTypes
<1> QED
    BY <1>2, <1>3

\* The notifier of a dispatcher is attached, or has just loaded its cursor.
LEMMA WhenOpening ==
  ASSUME IInv, Quiet, NEW l \in Listeners, Handles(l), Enable(l)
  PROVE  /\ task[l] = {} /\ rpc[l] = "idle" /\ got[l] = <<>> /\ pc[l] \in Opening
         /\ UNCHANGED <<task, got, rpc, rblock, rtries, delivered, next_seq>>
         /\ \/ pc'[l] \in Opening /\ UNCHANGED <<cursor, joined>>
            \/ pc'[l] = "idle" /\ cursor'[l] = next_seq /\ joined'[l] = next_seq
<1>1. /\ pc \in [Process -> {"closed", "construct", "load", "idle", "draw", "channel", "block",
                             "seq", "poll", "check", "getchannel", "getblock", "left", "fault"}]
      /\ cursor \in [Listeners -> 0 .. MaxSeq] /\ joined \in [Listeners -> 0 .. MaxSeq]
      /\ l \in Process
    BY Sizes DEF IInv, Types, TypeOK, Histories
<1>2. OpenOnly(l) \/ LoadNextSeq(l)
    BY <1>1, OpenIsJoin DEF Enable
<1>3. pc[l] \in Opening /\ pc[l] # "idle"
    BY <1>2 DEF OpenOnly, LoadNextSeq, At, Opening
<1>4. task[l] = {} /\ rpc[l] = "idle" /\ got[l] = <<>>
    BY <1>3 DEF Handles
<1>5. UNCHANGED <<task, got, rpc, rblock, rtries, delivered, next_seq>>
    BY <1>1, OpenFrame DEF segmentVars, myVars, ringVars
<1>6. CASE OpenOnly(l)
    BY <1>1, <1>3, <1>4, <1>5, <1>6 DEF OpenOnly, Goto, Opening, histVars
<1>7. CASE LoadNextSeq(l)
    BY <1>1, <1>3, <1>4, <1>5, <1>7 DEF LoadNextSeq, Goto
<1> QED
    BY <1>2, <1>6, <1>7

LEMMA NullBlockIsUsed ==
  ASSUME NEW l \in Listeners, UseNullBlock(l)
  PROVE  UNCHANGED Local(l)
BY DEF UseNullBlock, Local, segmentVars, notifierVars, histVars, myVars

\* What a delivery to listener l says of announcement k.
LEMMA AnnouncementIsSent ==
  ASSUME IInv, IInv', Quiet', NEW l \in Listeners, ~overrun', NEW k, NEW f, k = cursor[l], f = linfo'[l],
         delivered' = [delivered EXCEPT ![l] = Append(@, [seq |-> k, info |-> f])]
  PROVE  k >= StartSeq /\ k < next_seq' /\ f = SentInfo(k)'
<1> DEFINE e == [seq |-> k, info |-> f]
<1>1. k \in 0 .. MaxSeq /\ f \in Info /\ delivered[l] \in Seq(Delivery)
      /\ delivered \in [Listeners -> Seq(Delivery)]
    BY DEF IInv, Types, TypeOK, Histories, Info
<1>2. e \in Delivery
    BY <1>1 DEF Delivery
<1>3. delivered'[l] = Append(delivered[l], e)
    BY <1>1
<1>4. \E n \in DOMAIN delivered'[l] : delivered'[l][n] = e
    BY <1>1, <1>2, <1>3, Appended
<1>5. Delivered'
    BY DEF IInv, Quiet, Undisturbed
<1>6. k >= StartSeq /\ k < next_seq' /\ (k > 0 => f = SentInfo(k)')
    BY <1>4, <1>5 DEF Delivered, SentInfo
<1> QED
    BY <1>1, <1>6, Sizes

\* The announcement in hand stays what it is.
LEMMA TaskIsSent ==
  ASSUME IInv, IInv', Quiet, PathTypes, BlockInv, ShmNext,
         NEW x \in Listeners, Handles(x), ~overrun', NEW d \in task[x]
  PROVE  d.seq >= StartSeq /\ d.seq < next_seq' /\ d.info = SentInfo(d.seq)'
<1>2. ~overrun /\ next_seq \in Nat /\ next_seq <= next_seq'
    BY HistoryGrows
<1>3. d.seq \in Nat
    BY Sizes DEF PathTypes, Delivery
<1>4. d.seq >= StartSeq /\ d.seq < next_seq /\ d.info = SentInfo(d.seq)
    BY <1>2 DEF Handles
<1>5. d.seq \in StartSeq .. next_seq - 1
    BY <1>2, <1>3, <1>4, Sizes
<1>6. SentInfo(d.seq)' = SentInfo(d.seq)
    BY <1>5, HistoryGrows
<1>7. next_seq' \in Nat
    BY DEF IInv, Types, TypeOK
<1> QED
    BY <1>2, <1>3, <1>4, <1>6, <1>7

LEMMA HandlesStep ==
  ASSUME IInv, IInv', Quiet, Quiet', BlockInv, BlockInv', PathTypes, ShmNext,
         NEW x \in Listeners, Handles(x)
  PROVE  Handles(x)'
<1>1. CASE UNCHANGED Local(x)
    BY <1>1, TaskIsSent DEF Handles, Local
<1>2. CASE Enable(x)
    BY <1>2, WhenOpening DEF Handles, Opening
<1>3. CASE Listen(x)
    BY <1>3, WhileListening DEF Handles
<1>4. CASE ListenReturns(x)
    <2>1. PICK k, f : k = cursor[x] /\ f = linfo'[x]
        OBVIOUS
    <2> DEFINE e == [seq |-> k, info |-> f]
    <2>2. /\ task'[x] = {e} /\ pc'[x] = "idle" /\ rpc'[x] = "idle"
          /\ k \in Nat /\ cursor'[x] = k + 1
        BY <1>4, <2>1, WhenListenReturns DEF Handles
    <2>3. ~overrun' => k >= StartSeq /\ k < next_seq' /\ f = SentInfo(k)'
        BY <1>4, <2>1, WhenListenReturns, AnnouncementIsSent
    <2>4. e.seq = k /\ e.info = f /\ k = cursor'[x] - 1
        BY <2>2
    <2> HIDE DEF e
    <2>5. \A d \in task'[x] :
              /\ task'[x] = {d} /\ pc'[x] = "idle" /\ d.seq = cursor'[x] - 1
              /\ ~overrun' => d.seq >= StartSeq /\ d.seq < next_seq' /\ d.info = SentInfo(d.seq)'
        BY <2>2, <2>3, <2>4
    <2> QED
        BY <2>2, <2>5 DEF Handles, Opening
<1>5. CASE Skip(x) \/ ReleaseBlock(x)
    BY <1>5, WhenDone DEF Handles
<1>6. CASE ReadMessage(x) \/ ReadBlock(x)
    <2>1. UNCHANGED <<pc, cursor, joined, task, got>>
          /\ \E d \in task[x] : d.info = [channel |-> MyChannel, block |-> rblock'[x]]
        BY <1>6, WhileReading
    <2> QED
        BY <2>1, TaskIsSent DEF Handles
<1>7. CASE OnMessage(x)
    <2>1. UNCHANGED <<pc, cursor, joined, task, rblock>> /\ rpc[x] = "payload" /\ task[x] # {}
        BY <1>7, WhenHandedOver
    <2>2. pc[x] = "idle"
        BY <2>1 DEF Handles
    <2> QED
        BY <2>1, <2>2, TaskIsSent DEF Handles, Opening
<1> QED
    BY <1>1, <1>2, <1>3, <1>4, <1>5, <1>6, <1>7, NullBlockIsUsed, Untouched DEF DispatchStep

LEMMA HandedOverStep ==
  ASSUME IInv, IInv', Quiet, BlockInv, BlockInv', PathTypes, Announced, ShmNext,
         NEW x \in Listeners, Handles(x), HandedOver(x)
  PROVE  HandedOver(x)'
<1>0. cursor[x] \in Nat /\ cursor'[x] \in Nat
      /\ \A i \in DOMAIN got[x] : got[x][i].seq \in Nat
    <2>1. got[x] \in Seq(Handover) /\ MaxSeq \in Nat
        BY Sizes DEF PathTypes
    <2>2. \A i \in DOMAIN got[x] : got[x][i] \in Handover
        <3>1. DOMAIN got[x] = 1 .. Len(got[x])
            BY <2>1, LenProperties
        <3> QED
            BY <2>1, <3>1, ElementOfSeq
    <2> QED
        BY <2>1, <2>2, Sizes DEF IInv, Types, TypeOK, Handover
<1>1. CASE UNCHANGED Local(x)
    BY <1>1, HistoryGrows DEF HandedOver, Local
<1>2. CASE Enable(x)
    BY <1>2, WhenOpening DEF HandedOver
<1>3. CASE Listen(x)
    BY <1>0, <1>3, WhileListening, HistoryGrows DEF HandedOver
<1>4. CASE ListenReturns(x)
    <2>1. /\ task'[x] = {[seq |-> cursor[x], info |-> linfo'[x]]} /\ got' = got
          /\ cursor'[x] = cursor[x] + 1
        BY <1>4, WhenListenReturns
    <2>2. \A d \in task'[x] : d.seq = cursor[x]
        BY <2>1
    <2> QED
        BY <1>0, <2>1, <2>2, HistoryGrows DEF HandedOver
<1>5. CASE Skip(x) \/ ReleaseBlock(x)
    BY <1>5, WhenDone, HistoryGrows DEF HandedOver
<1>6. CASE ReadMessage(x) \/ ReadBlock(x)
    BY <1>6, WhileReading, HistoryGrows DEF HandedOver
<1>7. CASE OnMessage(x)
    <2>1. PICK d \in task[x] : \E e :
               /\ e = [seq |-> d.seq, info |-> rinfo[x], payload |-> rpayload'[x]]
               /\ e.info = e.payload /\ e.info = msg_info[rblock[x]]
               /\ DOMAIN got'[x] = 1 .. Len(got[x]) + 1 /\ DOMAIN got[x] = 1 .. Len(got[x])
               /\ got'[x][Len(got[x]) + 1] = e /\ Len(got[x]) \in Nat
               /\ \A i \in DOMAIN got[x] : got'[x][i] = got[x][i]
        BY <1>7, WhenHandedOver
    <2>2. PICK e :
               /\ e = [seq |-> d.seq, info |-> rinfo[x], payload |-> rpayload'[x]]
               /\ e.info = e.payload /\ e.info = msg_info[rblock[x]]
               /\ DOMAIN got'[x] = 1 .. Len(got[x]) + 1 /\ DOMAIN got[x] = 1 .. Len(got[x])
               /\ got'[x][Len(got[x]) + 1] = e /\ Len(got[x]) \in Nat
               /\ \A i \in DOMAIN got[x] : got'[x][i] = got[x][i]
        BY <2>1
    <2>3. /\ UNCHANGED <<cursor, task, next_seq>> /\ rpc[x] = "payload" /\ rpc'[x] = "release"
        BY <1>7, WhenHandedOver
    <2>4. e.seq = d.seq /\ d.seq = cursor[x] - 1 /\ d.info = [channel |-> MyChannel, block |-> rblock[x]]
        BY <2>2, <2>3, OneTask
    <2>5. ~overrun => e.info # 0
        <3>1. SUFFICES ASSUME ~overrun PROVE e.info # 0
            OBVIOUS
        <3>2. d.seq >= StartSeq /\ d.seq < next_seq /\ d.info = SentInfo(d.seq)
            BY <3>1 DEF Handles
        <3>3. next_seq \in Nat /\ Len(sent) = next_seq - StartSeq
            BY DEF IInv, Types, TypeOK, Histories
        <3>4. d.seq - StartSeq + 1 \in 1 .. Len(sent)
            BY <1>0, <2>4, <3>2, <3>3, Sizes
        <3> QED
            BY <2>2, <2>4, <3>2, <3>4 DEF SentInfo, Announced
    <2>6. \A i \in DOMAIN got[x] : got[x][i].seq # e.seq
        BY <2>3, <2>4 DEF HandedOver
    <2>7. ASSUME NEW i \in DOMAIN got'[x]
          PROVE  /\ got'[x][i].info = got'[x][i].payload /\ (~overrun' => got'[x][i].info # 0)
                 /\ got'[x][i].seq < cursor'[x]
                 /\ \A j \in DOMAIN got'[x] : got'[x][j].seq = got'[x][i].seq => i = j
        <3>1. CASE i = Len(got[x]) + 1
            <4>1. /\ got'[x][i] = e /\ cursor' = cursor
                  /\ \A j \in DOMAIN got'[x] : j \in DOMAIN got[x] \/ j = Len(got[x]) + 1
                BY <2>2, <2>3, <3>1
            <4>2. \A j \in DOMAIN got'[x] : got'[x][j].seq = e.seq => i = j
                BY <2>2, <2>6, <3>1, <4>1
            <4>3. e.info = e.payload /\ e.seq < cursor[x]
                BY <1>0, <2>2, <2>4
            <4> QED
                BY <2>5, <4>1, <4>2, <4>3, HistoryGrows
        <3>2. CASE i \in DOMAIN got[x]
            <4>1. /\ got'[x][i] = got[x][i] /\ cursor' = cursor
                  /\ \A j \in DOMAIN got'[x] : j \in DOMAIN got[x] \/ j = Len(got[x]) + 1
                BY <2>2, <2>3, <3>2
            <4>2. \A j \in DOMAIN got'[x] : got'[x][j].seq = got'[x][i].seq => i = j
                BY <2>2, <2>6, <3>2, <4>1 DEF HandedOver
            <4>3. /\ got[x][i].info = got[x][i].payload /\ (~overrun => got[x][i].info # 0)
                  /\ got[x][i].seq < cursor[x]
                BY <3>2 DEF HandedOver
            <4> QED
                BY <4>1, <4>2, <4>3, HistoryGrows
        <3> QED
            BY <2>2, <3>1, <3>2
    <2> QED
        BY <2>3, <2>7 DEF HandedOver
<1> QED
    BY <1>1, <1>2, <1>3, <1>4, <1>5, <1>6, <1>7, NullBlockIsUsed, Untouched DEF DispatchStep

-----------------------------------------------------------------------------
(* Blocks that are not reused too early *)

\* A block keeps its message until it is locked for writing.
LEMMA HoldsStays ==
  ASSUME IInv, Quiet, BlockInv, ShmNext, NEW b \in BlockIndex, NEW m, Holds(b, m),
         \A t \in Transmitters : AcquireBlock(t) => wblock[t] # b
  PROVE  Holds(b, m)'
<1>1. /\ wpc \in [Transmitters -> {"idle", "seq", "try"} \cup Seg!WritingPc]
      /\ wblock \in [Transmitters -> BlockIndex] /\ msg_info \in [BlockIndex -> Content]
    BY DEF BlockInv, BlockTypes
<1>2. \A t \in Transmitters : wpc[t] \in Seg!WritingPc => wblock[t] # b
    BY DEF Holds, Seg!WritersOf
<1>3. SUFFICES /\ msg_info'[b] = msg_info[b]
               /\ \A t \in Transmitters : wpc'[t] \in Seg!WritingPc => wblock'[t] # b
    BY DEF Holds, Seg!WritersOf
<1>4. CASE UNCHANGED <<wpc, wblock, msg_info>>
    BY <1>2, <1>4
<1>5. ASSUME NEW t \in Transmitters, BeginTransmit(t) \/ AcquireBlock(t) \/ WriteBlock(t)
      PROVE  /\ msg_info'[b] = msg_info[b]
             /\ \A s \in Transmitters : wpc'[s] \in Seg!WritingPc => wblock'[s] # b
    <2> USE <1>1, <1>2 DEF Seg!WritingPc, Seg!blockVars
    <2>1. CASE BeginTransmit(t)
        BY <2>1 DEF BeginTransmit, Seg!BeginWrite
    <2>2. CASE AcquireBlock(t)
        BY <2>2 DEF AcquireBlock, Seg!TryLockForWrite
    <2>3. CASE Seg!FetchAddSeq(t) \/ Seg!TryLockForWriteFails(t)
        BY <2>3 DEF Seg!FetchAddSeq, Seg!TryLockForWriteFails
    <2>4. CASE Seg!WritePayload(t) \/ Seg!WriteInfo(t)
        BY <2>4 DEF Seg!WritePayload, Seg!WriteInfo
    <2> QED
        BY <1>5, <2>1, <2>2, <2>3, <2>4 DEF WriteBlock
<1>6. ASSUME NEW t \in Transmitters, ReleaseAndNotify(t)
      PROVE  /\ msg_info'[b] = msg_info[b]
             /\ \A s \in Transmitters : wpc'[s] \in Seg!WritingPc => wblock'[s] # b
    BY <1>1, <1>2, <1>6 DEF ReleaseAndNotify, Seg!ReleaseWrittenBlock, Seg!WritingPc
<1>7. ASSUME NEW n \in Notifiers, NotifyOther(n) \/ Announce(n) \/ StoreAnnouncement(n)
      PROVE  UNCHANGED <<wpc, wblock, msg_info>>
    BY <1>7, NotifierFrame DEF segmentVars
<1>8. ASSUME NEW p \in Process, Enable(p) \/ ProcessDies(p) PROVE UNCHANGED <<wpc, wblock, msg_info>>
    BY <1>8, OpenFrame DEF segmentVars
<1>9. ASSUME NEW l \in Listeners, DispatchStep(l) PROVE UNCHANGED <<wpc, wblock, msg_info>>
    BY <1>9, DispatchFrame
<1> QED
    BY Sizes, <1>4, <1>5, <1>6, <1>7, <1>8, <1>9 DEF ShmNext, TransmitStep

\* A block that is needed is not locked, or the history says so.
LEMMA NeededStays ==
  ASSUME IInv, Quiet, BlockInv, ShmNext, ~rewritten',
         NEW b \in BlockIndex, NEW m, Holds(b, m), Needed(b)
  PROVE  Holds(b, m)'
<1>1. ASSUME NEW t \in Transmitters, AcquireBlock(t), wblock[t] = b PROVE FALSE
    <2>1. rewritten' = (rewritten \/ Needed(wblock[t]))
        BY <1>1 DEF AcquireBlock
    <2> QED
        BY <1>1, <2>1
<1> QED
    BY <1>1, HoldsStays

LEMMA PresentStays ==
  ASSUME IInv, Quiet, BlockInv, PathTypes, ShmNext, ~rewritten',
         NEW k \in StartSeq .. next_seq - 1, Present(k),
         \A b \in BlockIndex : SentInfo(k) = [channel |-> MyChannel, block |-> b] => Needed(b)
  PROVE  Present(k)'
<1>1. SentInfo(k)' = SentInfo(k) /\ Published(k)' = Published(k)
    BY HistoryGrows
<1>2. PICK m : m = Published(k)
    OBVIOUS
<1>3. ASSUME NEW b \in BlockIndex, SentInfo(k) = [channel |-> MyChannel, block |-> b]
      PROVE  Holds(b, m)'
    BY <1>2, <1>3, NeededStays DEF Present
<1> QED
    BY <1>1, <1>2, <1>3 DEF Present, Holds

\* What a dispatcher is still waiting for is needed ...
LEMMA AwaitedStays ==
  ASSUME IInv, Quiet, BlockInv, PathTypes, ShmNext, ~overrun', ~rewritten',
         NEW x \in Listeners, Kept(x), pc[x] \notin Opening, NEW k \in cursor[x] .. next_seq - 1
  PROVE  Present(k)'
<1>1. ~overrun
    BY HistoryGrows
<1>2. Active(x) /\ Undisturbed
    BY <1>1 DEF Active, Quiet, Opening, Due, Undisturbed
<1>3. cursor[x] = joined[x] + Len(delivered[x]) /\ joined[x] >= StartSeq
    BY <1>2 DEF IInv, Waiting
<1>4. cursor[x] \in Nat /\ joined[x] \in Nat /\ next_seq \in Nat /\ Len(delivered[x]) \in Nat
    BY Sizes, LenProperties DEF IInv, Types, TypeOK, Histories
<1>5. k \in StartSeq .. next_seq - 1
    BY <1>3, <1>4, Sizes
<1>6. Present(k)
    BY DEF Kept
<1>7. \A b \in BlockIndex : SentInfo(k) = [channel |-> MyChannel, block |-> b] => Needed(b)
    BY Sizes DEF Needed, Opening
<1> QED
    BY <1>5, <1>6, <1>7, PresentStays

\* ... and what it has in hand.
LEMMA InHandStays ==
  ASSUME IInv, Quiet, BlockInv, PathTypes, ShmNext, ~overrun', ~rewritten',
         NEW x \in Listeners, Handles(x), Kept(x), NEW d \in task[x]
  PROVE  Present(d.seq)'
<1>1. ~overrun
    BY HistoryGrows
<1>2. d.seq >= StartSeq /\ d.seq < next_seq /\ d.info = SentInfo(d.seq) /\ pc[x] = "idle"
    BY <1>1 DEF Handles
<1>3. d.seq \in Nat /\ next_seq \in Nat
    BY HistoryGrows DEF PathTypes, Delivery
<1>4. d.seq \in StartSeq .. next_seq - 1
    BY <1>2, <1>3, Sizes
<1>5. Present(d.seq)
    BY DEF Kept
<1>6. \A b \in BlockIndex : SentInfo(d.seq) = [channel |-> MyChannel, block |-> b] => Needed(b)
    BY <1>2, Sizes DEF Needed
<1> QED
    BY <1>4, <1>5, <1>6, PresentStays

\* A message that is announced is in the block that was released before.
LEMMA JustAnnounced ==
  ASSUME IInv, BlockInv, PathTypes, Announcing, Unannounced,
         NEW n \in Notifiers, Announce(n), NEW k, k = next_seq
  PROVE  Present(k)'
<1> DEFINE m == IF n \in Transmitters THEN wmsg[n] ELSE 0
<1>1. /\ sent' = Append(sent, ninfo[n]) /\ published' = Append(published, m)
      /\ pc[n] = "draw" /\ UNCHANGED <<msg_info, wpc, wblock>>
    BY DEF Announce, DrawSeq, At, segmentVars
<1>2. ninfo[n] \in Info /\ m \in Content
    BY NoInfoType, Sizes DEF IInv, Types, TypeOK, Info, ReadableInfo, BlockInv, BlockTypes, Content
<1>3. /\ next_seq \in Nat /\ sent \in Seq(Info) /\ Len(sent) = next_seq - StartSeq
      /\ published \in Seq(Content) /\ Len(published) = Len(sent)
    BY DEF IInv, Types, TypeOK, Histories, PathTypes
<1>4. sent'[Len(sent) + 1] = ninfo[n] /\ published'[Len(sent) + 1] = m
    BY <1>1, <1>2, <1>3, Appended
<1>5. k - StartSeq + 1 = Len(sent) + 1
    BY <1>3, Sizes
<1>6. SentInfo(k)' = ninfo[n] /\ Published(k)' = m
    BY <1>4, <1>5 DEF SentInfo, Published
<1>7. ASSUME NEW b \in BlockIndex, ninfo[n] = [channel |-> MyChannel, block |-> b]
      PROVE  msg_info'[b] = m /\ Seg!WritersOf(b)' = {}
    <2>1. n \in Transmitters /\ ninfo[n].block = b
        BY <1>1, <1>7 DEF Announcing, Bystanders
    <2>2. Holds(b, wmsg[n])
        BY <1>1, <2>1 DEF Unannounced
    <2> QED
        BY <1>1, <2>1, <2>2 DEF Holds, Seg!WritersOf
<1> QED
    BY <1>6, <1>7 DEF Present, Holds

\* A transmitter is about to announce since it has released the block.
LEMMA AboutToAnnounce ==
  ASSUME IInv, Quiet, BlockInv, PathTypes, ShmNext, NEW t \in Transmitters, pc'[t] = "draw",
         ~ReleaseAndNotify(t)
  PROVE  pc[t] = "draw" /\ ninfo'[t] = ninfo[t] /\ wmsg'[t] = wmsg[t]
<1>1. /\ pc \in [Process -> {"closed", "construct", "load", "idle", "draw", "channel", "block",
                             "seq", "poll", "check", "getchannel", "getblock", "left", "fault"}]
      /\ ninfo \in [Notifiers -> Info] /\ wmsg \in [Transmitters -> Content]
      /\ t \in Process /\ t \in Notifiers /\ t \notin Listeners /\ t \notin Bystanders
    BY Sizes, NoInfoType DEF IInv, Types, TypeOK, Info, ReadableInfo, BlockInv, BlockTypes
<1>2. ASSUME NEW s \in Transmitters, BeginTransmit(s)
      PROVE  pc[t] = "draw" /\ ninfo'[t] = ninfo[t] /\ wmsg'[t] = wmsg[t]
    BY <1>1, <1>2 DEF BeginTransmit, Seg!BeginWrite, notifierVars
<1>3. ASSUME NEW s \in Transmitters, AcquireBlock(s) \/ WriteBlock(s)
      PROVE  pc[t] = "draw" /\ ninfo'[t] = ninfo[t] /\ wmsg'[t] = wmsg[t]
    BY <1>3 DEF AcquireBlock, WriteBlock, Seg!TryLockForWrite, Seg!FetchAddSeq, Seg!TryLockForWriteFails,
                Seg!WritePayload, Seg!WriteInfo, notifierVars
<1>4. ASSUME NEW s \in Transmitters \ {t}, ReleaseAndNotify(s)
      PROVE  pc[t] = "draw" /\ ninfo'[t] = ninfo[t] /\ wmsg'[t] = wmsg[t]
    BY <1>1, <1>4, ReleaseFrame, Sizes DEF ReleaseAndNotify, BeginNotify, Goto
<1>5. ASSUME NEW n \in Bystanders, NotifyOther(n)
      PROVE  pc[t] = "draw" /\ ninfo'[t] = ninfo[t] /\ wmsg'[t] = wmsg[t]
    <2>1. n # t /\ wmsg' = wmsg
        BY <1>1, <1>5 DEF NotifyOther, segmentVars
    <2> QED
        BY <1>1, <1>5, <2>1, Sizes DEF NotifyOther, BeginNotify, Goto
<1>6. ASSUME NEW n \in Notifiers, Announce(n) \/ StoreAnnouncement(n)
      PROVE  pc[t] = "draw" /\ ninfo'[t] = ninfo[t] /\ wmsg'[t] = wmsg[t]
    BY <1>1, <1>6, Sizes DEF Announce, DrawSeq, StoreAnnouncement, StoreChannel, StoreBlock, StoreSeq,
                             Goto, segmentVars
<1>7. ASSUME NEW p \in Process, Enable(p)
      PROVE  pc[t] = "draw" /\ ninfo'[t] = ninfo[t] /\ wmsg'[t] = wmsg[t]
    <2>1. OpenOnly(p) \/ LoadNextSeq(p)
        BY <1>7, OpenIsJoin DEF Enable
    <2> QED
        BY <1>1, <1>7, <2>1 DEF Enable, OpenOnly, LoadNextSeq, Goto, segmentVars
<1>8. ASSUME NEW p \in Process, ProcessDies(p)
      PROVE  pc[t] = "draw" /\ ninfo'[t] = ninfo[t] /\ wmsg'[t] = wmsg[t]
    BY <1>8 DEF ProcessDies, Die, Seg!Die, Seg!writerVars
<1>9. ASSUME NEW l \in Listeners, DispatchStep(l)
      PROVE  pc[t] = "draw" /\ ninfo'[t] = ninfo[t] /\ wmsg'[t] = wmsg[t]
    <2>1. pc' = pc \/ \E s : pc' = [pc EXCEPT ![l] = s]
        BY <1>9 DEF DispatchStep, Listen, TestShutdown, Poll, CheckReady, CheckNotReady, LoadChannel,
                    ListenReturns, LoadBlock, Skip, ReadMessage, ReadBlock, OnMessage, ReleaseBlock,
                    UseNullBlock, Goto, notifierVars
    <2> QED
        BY <1>1, <1>9, <2>1, DispatchFrame
<1>10. ASSUME NEW s \in Transmitters, ReleaseAndNotify(s)
       PROVE  pc[t] = "draw" /\ ninfo'[t] = ninfo[t] /\ wmsg'[t] = wmsg[t]
    <2>1. s \in Transmitters \ {t}
        BY <1>10
    <2> QED
        BY <1>4, <1>10, <2>1
<1> QED
    BY Sizes, <1>2, <1>3, <1>5, <1>6, <1>7, <1>8, <1>9, <1>10 DEF ShmNext, TransmitStep

LEMMA UnannouncedStep ==
  ASSUME IInv, Quiet, BlockInv, PathTypes, Unannounced, ShmNext, ~rewritten'
  PROVE  Unannounced'
<1> SUFFICES ASSUME NEW t \in Transmitters, NEW b \in BlockIndex, pc'[t] = "draw", ninfo'[t].block = b
             PROVE  msg_info'[b] = wmsg'[t] /\ Seg!WritersOf(b)' = {}
    BY DEF Unannounced, Holds
<1>1. CASE ReleaseAndNotify(t)
    <2>1. /\ wpc[t] = "release" /\ wpc' = [wpc EXCEPT ![t] = "idle"]
          /\ UNCHANGED <<msg_info, wblock, wmsg>>
          /\ ninfo' = [ninfo EXCEPT ![t] = [channel |-> MyChannel, block |-> wblock[t]]]
        BY <1>1 DEF ReleaseAndNotify, Seg!ReleaseWrittenBlock, BeginNotify
    <2>2. ninfo \in [Notifiers -> Info] /\ t \in Notifiers
        BY Sizes, NoInfoType DEF IInv, Types, TypeOK, Info, ReadableInfo
    <2>3. wblock[t] = b /\ msg_info[b] = wmsg[t]
        BY <2>1, <2>2 DEF BlockInv, Contents
    <2>4. \A s \in Transmitters : wpc[s] \in Seg!WritingPc /\ wblock[s] = b => s = t
        <3>1. t \in Seg!WritersOf(b)
            BY <2>1, <2>3 DEF Seg!WritersOf, Seg!WritingPc
        <3>2. \E s \in Transmitters : Seg!WritersOf(b) = {s}
            BY <3>1 DEF BlockInv, Locks
        <3> QED
            BY <3>1, <3>2 DEF Seg!WritersOf
    <2>5. wpc \in [Transmitters -> {"idle", "seq", "try"} \cup Seg!WritingPc]
        BY DEF BlockInv, BlockTypes
    <2>6. Seg!WritersOf(b)' = {}
        BY <2>1, <2>4, <2>5 DEF Seg!WritersOf, Seg!WritingPc
    <2> QED
        BY <2>1, <2>3, <2>6
<1>2. CASE ~ReleaseAndNotify(t)
    <2>1. pc[t] = "draw" /\ ninfo'[t] = ninfo[t] /\ wmsg'[t] = wmsg[t]
        BY <1>2, AboutToAnnounce
    <2>2. PICK m : m = wmsg[t]
        OBVIOUS
    <2>3. Holds(b, m) /\ Needed(b)
        BY <2>1, <2>2 DEF Unannounced, Needed
    <2>4. Holds(b, m)'
        BY <2>3, NeededStays
    <2> QED
        BY <2>1, <2>2, <2>4 DEF Holds
<1> QED
    BY <1>1, <1>2

\* The announcements that a dispatcher is still to receive after the step.
LEMMA AwaitedStep ==
  ASSUME IInv, Quiet, BlockInv, PathTypes, Announcing, Unannounced, ShmNext, ~overrun', ~rewritten',
         NEW x \in Listeners, Kept(x), pc[x] \notin Opening,
         cursor[x] \in Nat, cursor'[x] \in Nat, cursor'[x] >= cursor[x],
         NEW k \in cursor'[x] .. next_seq' - 1
  PROVE  Present(k)'
<1>1. /\ next_seq \in Nat
      /\ next_seq' = next_seq \/ (next_seq' = next_seq + 1 /\ \E n \in Notifiers : Announce(n))
    BY HistoryGrows
<1>2. CASE k \in cursor[x] .. next_seq - 1
    BY <1>2, AwaitedStays
<1>3. CASE k = next_seq /\ \E n \in Notifiers : Announce(n)
    BY <1>3, JustAnnounced
<1> QED
    BY <1>1, <1>2, <1>3

\* Locking the announced block fails only when the tries run out.
LEMMA RefusalStep ==
  ASSUME Quiet, BlockInv, PathTypes, NEW x \in Listeners, Handles(x), Kept(x), ~overrun,
         ReadMessage(x) \/ ReadBlock(x), rpc'[x] = "failed"
  PROVE  rtries'[x] = MaxTryLockTimes
<1>1. /\ rpc \in [Listeners -> {"idle", "load", "cas", "failed"} \cup Seg!ReadingPc]
      /\ rblock \in [Listeners -> BlockIndex] /\ rtries \in [Listeners -> Int]
    BY DEF BlockInv, BlockTypes
<1>2. PICK d \in task[x] : d.info = [channel |-> MyChannel, block |-> rblock'[x]]
    BY WhileReading
<1>3. PICK b \in BlockIndex : b = rblock'[x]
    <2>1. d.info \in Info
        BY DEF PathTypes, Delivery
    <2> QED
        BY <1>2, <2>1 DEF Info
<1>4. lock_num[b] >= 0
    <2>1. Present(d.seq) /\ SentInfo(d.seq) = [channel |-> MyChannel, block |-> b]
        BY <1>2, <1>3 DEF Handles, Kept
    <2>2. Seg!WritersOf(b) = {}
        BY <2>1 DEF Present, Holds
    <2>3. lock_num[b] = Cardinality(Seg!ReadersOf(b))
        BY <2>2 DEF BlockInv, Locks
    <2> QED
        BY <2>3, ReadersFinite
<1>5. CASE ReadMessage(x)
    <2>1. PICK c \in task[x] : Seg!BeginRead(x, c.info.block)
        BY <1>5 DEF ReadMessage
    <2>2. c = d
        <3>1. task[x] = {d}
            BY OneTask
        <3> QED
            BY <3>1
    <2>3. d.info.block = b
        BY <1>2, <1>3
    <2>4. Seg!BeginRead(x, b)
        BY <2>1, <2>2, <2>3
    <2> QED
        BY <1>1, <1>4, <2>4 DEF Seg!BeginRead, Seg!RWLockFree, BlockInv, BlockTypes
<1>6. CASE Seg!ReadLockReload(x)
    BY <1>1, <1>3, <1>4, <1>6 DEF Seg!ReadLockReload, Seg!RWLockFree, BlockInv, BlockTypes
<1>7. CASE Seg!ReadLockCas(x) \/ Seg!ReadLockCasFails(x) \/ Seg!ReadInfo(x)
    BY <1>1, <1>7 DEF Seg!ReadLockCas, Seg!ReadLockCasFails, Seg!ReadInfo
<1> QED
    BY <1>5, <1>6, <1>7 DEF ReadBlock

LEMMA KeptStep ==
  ASSUME IInv, IInv', Quiet, BlockInv, BlockInv', PathTypes, Announcing, Unannounced, ShmNext,
         ~overrun', ~rewritten', NEW x \in Listeners, Handles(x), Kept(x)
  PROVE  Kept(x)'
<1>1. ~overrun /\ cursor[x] \in Nat /\ cursor'[x] \in Nat
    BY HistoryGrows, Sizes DEF IInv, Types, TypeOK
<1>2. ASSUME pc'[x] \in Opening \/ (pc[x] \notin Opening /\ cursor'[x] >= cursor[x]),
             task'[x] = task[x] \/ task'[x] = {},
             rpc'[x] = "failed" => rtries'[x] = MaxTryLockTimes
      PROVE  Kept(x)'
    <2>1. pc'[x] \notin Opening => \A k \in cursor'[x] .. next_seq' - 1 : Present(k)'
        BY <1>1, <1>2, AwaitedStep
    <2>2. \A d \in task'[x] : Present(d.seq)'
        BY <1>2, InHandStays
    <2> QED
        BY <1>2, <2>1, <2>2 DEF Kept
<1>3. CASE UNCHANGED Local(x)
    BY <1>1, <1>2, <1>3 DEF Local, Kept
<1>4. CASE Enable(x)
    <2>1. task'[x] = {} /\ rpc'[x] = "idle"
        BY <1>4, WhenOpening
    <2>2. pc'[x] \notin Opening => cursor'[x] = next_seq /\ next_seq' = next_seq /\ next_seq \in Nat
        BY <1>4, WhenOpening, HistoryGrows
    <2>3. pc'[x] \notin Opening => \A k \in cursor'[x] .. next_seq' - 1 : Present(k)'
        BY <2>2
    <2> QED
        BY <2>1, <2>3 DEF Kept
<1>5. CASE Listen(x)
    BY <1>2, <1>5, WhileListening DEF Kept
<1>6. CASE ListenReturns(x)
    <2>1. PICK k : k = cursor[x]
        OBVIOUS
    <2>2. /\ \A d \in task'[x] : d.seq = k
          /\ UNCHANGED <<rpc, rtries>> /\ pc[x] = "getblock"
          /\ k \in Nat /\ cursor'[x] = k + 1
        <3>1. /\ task'[x] = {[seq |-> cursor[x], info |-> linfo'[x]]}
              /\ UNCHANGED <<rpc, rtries>> /\ pc[x] = "getblock"
              /\ cursor[x] \in Nat /\ cursor'[x] = cursor[x] + 1
            BY <1>6, WhenListenReturns
        <3>2. \A d \in task'[x] : d.seq = cursor[x]
            BY <3>1
        <3> QED
            BY <2>1, <3>1, <3>2
    <2>3. pc[x] \notin Opening
        BY <2>2 DEF Opening
    <2>4. Active(x) /\ Undisturbed
        BY <1>1, <2>2 DEF Active, Quiet, Opening, Undisturbed
    <2>5. k < next_seq
        BY <2>1, <2>2, <2>4 DEF IInv, Waiting, Due
    <2>6. k \in cursor[x] .. next_seq - 1
        BY <2>1, <2>2, <2>5, HistoryGrows
    <2>7. Present(k)'
        BY <2>3, <2>6, AwaitedStays
    <2>8. \A j \in cursor'[x] .. next_seq' - 1 : Present(j)'
        <3>1. cursor'[x] >= cursor[x]
            BY <2>1, <2>2
        <3> QED
            BY <1>1, <2>3, <3>1, AwaitedStep
    <2>9. \A d \in task'[x] : Present(d.seq)'
        <3>1. SUFFICES ASSUME NEW d \in task'[x] PROVE Present(d.seq)'
            OBVIOUS
        <3>2. d.seq = k
            BY <2>2
        <3> QED
            BY <2>7, <3>2
    <2> QED
        BY <2>2, <2>8, <2>9 DEF Kept
<1>7. CASE Skip(x) \/ ReleaseBlock(x)
    <2>1. UNCHANGED <<pc, cursor>> /\ task'[x] = {} /\ rpc'[x] = "idle"
        BY <1>7, WhenDone
    <2> QED
        BY <1>1, <1>2, <2>1
<1>8. CASE ReadMessage(x) \/ ReadBlock(x)
    <2>1. UNCHANGED <<pc, cursor, task>>
        BY <1>8, WhileReading
    <2>2. rpc'[x] = "failed" => rtries'[x] = MaxTryLockTimes
        BY <1>1, <1>8, RefusalStep
    <2> QED
        BY <1>1, <1>2, <2>1, <2>2
<1>9. CASE OnMessage(x)
    <2>1. UNCHANGED <<pc, cursor, task>> /\ rpc'[x] = "release"
        BY <1>9, WhenHandedOver
    <2> QED
        BY <1>1, <1>2, <2>1
<1> QED
    BY <1>3, <1>4, <1>5, <1>6, <1>7, <1>8, <1>9, NullBlockIsUsed, Untouched DEF DispatchStep

\* As long as the ring is not overrun, the cursor moves one number at a time,
\* when Listen returns.
LEMMA NoJump ==
  ASSUME IInv, IInv', Quiet, Quiet', PathTypes, NEW x \in Listeners, ~overrun, ~overrun', Listen(x)
  PROVE  cursor'[x] = cursor[x]
<1>1. /\ UNCHANGED <<joined, delivered>> /\ pc[x] \notin Opening /\ pc'[x] \notin Opening
    BY WhileListening
<1>2. Active(x) /\ Active(x)' /\ Undisturbed /\ Undisturbed'
    BY <1>1, Sizes DEF Active, Quiet, Opening, Due, Undisturbed
<1>3. /\ cursor[x] = joined[x] + Len(delivered[x])
      /\ cursor'[x] = joined'[x] + Len(delivered'[x])
    BY <1>2 DEF IInv, Waiting
<1> QED
    BY <1>1, <1>3

\* The numbers behind the cursor have been drawn.
LEMMA BehindCursor ==
  ASSUME IInv, Quiet, ~overrun, NEW x \in Listeners, Handles(x), NEW k \in joined[x] .. cursor[x] - 1
  PROVE  k \in StartSeq .. next_seq - 1
<1>1. cursor[x] \in Nat /\ joined[x] \in Nat /\ next_seq \in Nat
    BY Sizes DEF IInv, Types, TypeOK, Histories
<1>2. CASE pc[x] \in Opening
    <2>1. joined[x] = 0 /\ cursor[x] = 0
        BY <1>2 DEF Handles
    <2> QED
        BY <2>1
<1>3. CASE pc[x] \notin Opening
    <2>1. Active(x) /\ Undisturbed
        BY <1>3 DEF Active, Quiet, Opening, Due, Undisturbed
    <2>2. joined[x] >= StartSeq /\ cursor[x] <= next_seq
        BY <2>1 DEF IInv, Waiting
    <2> QED
        BY <1>1, <2>2, Sizes
<1> QED
    BY <1>2, <1>3

LEMMA CompleteStep ==
  ASSUME IInv, IInv', Quiet, Quiet', BlockInv, BlockInv', PathTypes, PathTypes', Announced, ShmNext,
         ~overrun', ~rewritten',
         NEW x \in Listeners, Handles(x), HandedOver(x), Kept(x), Complete(x)
  PROVE  Complete(x)'
<1>1. ~overrun /\ next_seq \in Nat /\ next_seq <= next_seq' /\ next_seq' \in Nat
    BY HistoryGrows DEF IInv, Types, TypeOK
<1>2. cursor[x] \in Nat /\ joined[x] \in Nat /\ Len(got[x]) \in Nat /\ DOMAIN got[x] = 1 .. Len(got[x])
      /\ \A i \in DOMAIN got[x] : got[x][i].seq \in Nat
    <2>1. got[x] \in Seq(Handover)
        BY DEF PathTypes
    <2>2. \A i \in 1 .. Len(got[x]) : got[x][i] \in Handover
        BY <2>1, ElementOfSeq
    <2>3. Len(got[x]) \in Nat /\ DOMAIN got[x] = 1 .. Len(got[x])
        BY <2>1, LenProperties
    <2>4. cursor[x] \in Nat /\ joined[x] \in Nat
        BY Sizes DEF IInv, Types, TypeOK, Histories
    <2> QED
        BY <2>2, <2>3, <2>4, Sizes DEF Handover
<1>3. \A k \in StartSeq .. next_seq - 1 : Published(k)' = Published(k)
    BY HistoryGrows
<1>4. ASSUME NEW i \in DOMAIN got[x], NEW k, k = got[x][i].seq
      PROVE  k >= StartSeq /\ k < next_seq' /\ got[x][i].info = Published(k)'
    <2>1. k \in StartSeq .. next_seq - 1 /\ got[x][i].info = Published(k)
        BY <1>1, <1>2, <1>4, Sizes DEF Complete
    <2> QED
        BY <1>1, <1>3, <2>1, Sizes
<1>5. ASSUME NEW k \in joined[x] .. cursor[x] - 1, Published(k)' # 0, \A d \in task[x] : d.seq # k
      PROVE  \E i \in DOMAIN got[x] : got[x][i].seq = k
    <2>1. Published(k) # 0
        BY <1>1, <1>3, <1>5, BehindCursor
    <2> QED
        BY <1>5, <2>1 DEF Complete
<1>6. ASSUME got'[x] = got[x]
      PROVE  \A i \in DOMAIN got'[x] :
                /\ got'[x][i].seq >= StartSeq /\ got'[x][i].seq < next_seq'
                /\ got'[x][i].info = Published(got[x][i].seq)'
    BY <1>4, <1>6 DEF Published
<1>7. ASSUME UNCHANGED <<cursor[x], joined[x], task[x], got[x]>>, rpc'[x] = "release" => rpc[x] = "release"
      PROVE  Complete(x)'
    <2>1. rpc'[x] = "release" => \A d \in task'[x] : \E i \in DOMAIN got'[x] : got'[x][i].seq = d.seq
        BY <1>7 DEF Complete
    <2>2. \A k \in joined'[x] .. cursor'[x] - 1 :
              Published(k)' # 0 /\ (\A d \in task'[x] : d.seq # k) =>
                  \E i \in DOMAIN got'[x] : got'[x][i].seq = k
        BY <1>5, <1>7
    <2> QED
        BY <1>6, <1>7, <2>1, <2>2 DEF Complete
<1>8. CASE UNCHANGED Local(x)
    BY <1>7, <1>8 DEF Local
<1>9. CASE Enable(x)
    <2>1. got'[x] = got[x] /\ rpc'[x] = "idle"
        BY <1>9, WhenOpening
    <2>2. cursor'[x] = joined'[x] /\ cursor'[x] \in Nat
        BY <1>1, <1>2, <1>9, WhenOpening DEF Handles
    <2>3. joined'[x] .. cursor'[x] - 1 = {}
        BY <2>2
    <2> QED
        BY <1>6, <2>1, <2>3 DEF Complete
<1>10. CASE Listen(x)
    <2>1. cursor'[x] = cursor[x]
        BY <1>1, <1>10, NoJump
    <2> QED
        BY <1>7, <1>10, <2>1, WhileListening
<1>11. CASE ListenReturns(x)
    <2>1. /\ task[x] = {} /\ task'[x] = {[seq |-> cursor[x], info |-> linfo'[x]]}
          /\ UNCHANGED <<joined, got, rpc>> /\ cursor'[x] = cursor[x] + 1
        BY <1>11, WhenListenReturns
    <2>2. rpc'[x] # "release"
        BY <2>1 DEF Handles
    <2>3. ASSUME NEW k \in joined'[x] .. cursor'[x] - 1, Published(k)' # 0, \A d \in task'[x] : d.seq # k
          PROVE  \E i \in DOMAIN got'[x] : got'[x][i].seq = k
        <3>1. k # cursor[x]
            BY <2>1, <2>3
        <3>2. k \in joined[x] .. cursor[x] - 1
            BY <1>2, <2>1, <3>1
        <3> QED
            BY <1>5, <2>1, <2>3, <3>2
    <2> QED
        BY <1>6, <2>1, <2>2, <2>3 DEF Complete
<1>12. CASE Skip(x) \/ ReleaseBlock(x)
    <2>1. /\ UNCHANGED <<cursor, joined, got>> /\ task'[x] = {} /\ rpc'[x] = "idle"
          /\ \A d \in task[x] : d.info.channel # MyChannel \/ rpc[x] = "release"
        BY <1>12, WhenDone
    <2>2. ASSUME NEW k \in joined'[x] .. cursor'[x] - 1, Published(k)' # 0
          PROVE  \E i \in DOMAIN got'[x] : got'[x][i].seq = k
        <3>1. CASE \A d \in task[x] : d.seq # k
            BY <1>5, <2>1, <2>2, <3>1
        <3>2. ASSUME NEW d \in task[x], d.seq = k PROVE \E i \in DOMAIN got'[x] : got'[x][i].seq = k
            <4>1. k \in StartSeq .. next_seq - 1
                BY <1>1, <2>1, BehindCursor
            <4>2. Published(k) # 0 /\ d.info = SentInfo(k)
                BY <1>1, <1>3, <2>2, <3>2, <4>1 DEF Handles
            <4>3. k - StartSeq + 1 \in 1 .. Len(sent)
                BY <1>1, <4>1, Sizes DEF IInv, Types, Histories
            <4>4. d.info.channel = MyChannel
                BY <4>2, <4>3 DEF Announced, Published, SentInfo
            <4> QED
                BY <2>1, <3>2, <4>4 DEF Complete
        <3> QED
            BY <3>1, <3>2
    <2> QED
        BY <1>6, <2>1, <2>2 DEF Complete
<1>13. CASE ReadMessage(x) \/ ReadBlock(x)
    BY <1>7, <1>13, WhileReading
<1>14. CASE OnMessage(x)
    <2>1. PICK d \in task[x] : \E e :
               /\ e = [seq |-> d.seq, info |-> rinfo[x], payload |-> rpayload'[x]]
               /\ e.info = e.payload /\ e.info = msg_info[rblock[x]]
               /\ DOMAIN got'[x] = 1 .. Len(got[x]) + 1 /\ DOMAIN got[x] = 1 .. Len(got[x])
               /\ got'[x][Len(got[x]) + 1] = e /\ Len(got[x]) \in Nat
               /\ \A i \in DOMAIN got[x] : got'[x][i] = got[x][i]
        BY <1>14, WhenHandedOver
    <2>2. PICK e :
               /\ e = [seq |-> d.seq, info |-> rinfo[x], payload |-> rpayload'[x]]
               /\ e.info = e.payload /\ e.info = msg_info[rblock[x]]
               /\ DOMAIN got'[x] = 1 .. Len(got[x]) + 1 /\ DOMAIN got[x] = 1 .. Len(got[x])
               /\ got'[x][Len(got[x]) + 1] = e /\ Len(got[x]) \in Nat
               /\ \A i \in DOMAIN got[x] : got'[x][i] = got[x][i]
        BY <2>1
    <2>3. UNCHANGED <<cursor, joined, task, next_seq>> /\ rpc[x] = "payload"
        BY <1>14, WhenHandedOver
    <2>4. /\ task[x] = {d} /\ d.info = [channel |-> MyChannel, block |-> rblock[x]]
          /\ d.seq >= StartSeq /\ d.seq < next_seq /\ d.info = SentInfo(d.seq)
        BY <1>1, <2>3, OneTask DEF Handles
    <2>5. d.seq \in StartSeq .. next_seq - 1
        BY <1>1, <2>4, Sizes DEF PathTypes, Delivery
    <2>6. e.info = Published(d.seq)'
        <3>1. rblock[x] \in BlockIndex
            BY DEF BlockInv, BlockTypes
        <3>2. Holds(rblock[x], Published(d.seq))
            BY <2>4, <3>1 DEF Kept, Present
        <3> QED
            BY <1>3, <2>2, <2>5, <3>2 DEF Holds
    <2>7. ASSUME NEW i \in DOMAIN got'[x]
          PROVE  \E k : /\ k = got'[x][i].seq /\ k >= StartSeq /\ k < next_seq'
                        /\ got'[x][i].info = Published(k)'
        <3>1. CASE i = Len(got[x]) + 1
            BY <1>1, <2>2, <2>3, <2>4, <2>6, <3>1
        <3>2. CASE i \in DOMAIN got[x]
            BY <1>4, <2>2, <3>2
        <3> QED
            BY <2>2, <3>1, <3>2
    <2>8. \A j \in task'[x] : \E i \in DOMAIN got'[x] : got'[x][i].seq = j.seq
        <3>1. Len(got[x]) + 1 \in DOMAIN got'[x] /\ got'[x][Len(got[x]) + 1].seq = d.seq
            BY <2>2
        <3> QED
            BY <2>3, <2>4, <3>1
    <2>9. ASSUME NEW k \in joined'[x] .. cursor'[x] - 1, Published(k)' # 0, \A j \in task'[x] : j.seq # k
          PROVE  \E i \in DOMAIN got'[x] : got'[x][i].seq = k
        <3>1. PICK i \in DOMAIN got[x] : got[x][i].seq = k
            BY <1>5, <2>3, <2>9
        <3> QED
            BY <2>2, <3>1
    <2> QED
        BY <2>7, <2>8, <2>9 DEF Complete, Published
<1> QED
    BY <1>8, <1>9, <1>10, <1>11, <1>12, <1>13, <1>14, NullBlockIsUsed, Untouched DEF DispatchStep

-----------------------------------------------------------------------------
(* The invariant *)

LEMMA InitShm == ShmInit => ShmInv
<1> SUFFICES ASSUME ShmInit
             PROVE  ShmInv
    OBVIOUS
<1> USE DEF ShmInit
<1>1. IInv
    BY InitIInv
<1>2. shm = "constructed" /\ pc = [p \in Process |-> "closed"]
    BY TransportAssumption DEF Init
<1>3. Quiet
    BY <1>2, Sizes DEF Init, Quiet
<1>4. \A b \in BlockIndex : Seg!ReadersOf(b) = {} /\ Seg!WritersOf(b) = {}
    BY DEF Seg!Init, Seg!ReadersOf, Seg!WritersOf, Seg!ReadingPc, Seg!WritingPc
<1>5. BlockInv
    <2>1. 0 \in BlockIndex /\ 0 \in Content /\ 0 \in 0 .. SeqModulus - 1 /\ Seg!Block = BlockIndex
        BY TransportAssumption, MaxMessagesIsNat DEF Content, Seg!Block
    <2>2. BlockTypes
        <3>1. 0 \in -1 .. Cardinality(Listeners) /\ 0 \in 0 .. MaxTryLockTimes
            BY TransportAssumption, FS_CardinalityType
        <3> QED
            BY <2>1, <3>1 DEF Seg!Init, BlockTypes, Seg!RWLockFree
    <2>3. Locks
        BY <1>4, <2>1, FS_EmptySet DEF Seg!Init, Locks, Seg!RWLockFree
    <2>4. CasLocal /\ Contents
        BY <2>1 DEF Seg!Init, CasLocal, Contents
    <2> QED
        BY <2>2, <2>3, <2>4 DEF BlockInv
<1>6. PathTypes
    <2>1. published \in Seq(Content) /\ Len(published) = Len(sent)
        BY EmptySeq DEF Init
    <2>2. got \in [Listeners -> Seq(Handover)]
        BY EmptySeq, Zenon DEF Dispatchers
    <2>3. task \in [Listeners -> SUBSET Delivery] /\ rewritten \in BOOLEAN
        BY Sizes
    <2>4. calls \in 0 .. MaxMessages
        BY MaxMessagesIsNat
    <2>5. dead = {}
        BY DEF Init
    <2> QED
        BY <2>1, <2>2, <2>3, <2>4, <2>5 DEF PathTypes
<1>7. Announcing
    BY <1>2, Sizes DEF Announcing, Seg!Init
<1>8. Announced
    <2>1. Len(sent) = 0
        BY EmptySeq DEF Init
    <2> QED
        BY <2>1 DEF Announced
<1>9. ASSUME NEW l \in Listeners
      PROVE  /\ pc[l] = "closed" /\ task[l] = {} /\ got[l] = <<>> /\ DOMAIN got[l] = {}
             /\ rpc[l] = "idle" /\ joined[l] = 0 /\ cursor[l] = 0
    <2>1. task[l] = {} /\ got[l] = <<>> /\ pc[l] = "closed"
        BY <1>2, Sizes
    <2>2. rpc[l] = "idle"
        BY DEF Seg!Init
    <2>3. joined[l] = 0 /\ cursor[l] = 0
        BY DEF Init
    <2>4. DOMAIN got[l] = {}
        BY <2>1, EmptySeq, LenProperties
    <2> QED
        BY <2>1, <2>2, <2>3, <2>4
<1>10. \A l \in Listeners : Handles(l) /\ HandedOver(l)
    BY <1>9 DEF Handles, HandedOver
<1>11. Unannounced
    BY <1>2, Sizes DEF Unannounced
<1>12. \A l \in Listeners : Kept(l) /\ Complete(l)
    <2>1. 0 .. 0 - 1 = {}
        OBVIOUS
    <2> QED
        BY <1>9, <2>1 DEF Kept, Complete, Opening
<1> QED
    BY <1>1, <1>3, <1>5, <1>6, <1>7, <1>8, <1>10, <1>11, <1>12 DEF ShmInv

LEMMA StutterShm ==
  ASSUME ShmInv, UNCHANGED shmVars
  PROVE  ShmInv'
<1>1. UNCHANGED segmentVars /\ UNCHANGED <<notifierVars, dead>> /\ UNCHANGED myVars
    BY DEF shmVars
<1>2. IInv'
    BY <1>1, StepIInv DEF ShmInv, notifierVars, vars, stopVars
<1>3. Quiet'
    BY <1>1 DEF ShmInv, Quiet, notifierVars, ringVars, histVars
<1>4. \A b \in BlockIndex : Seg!ReadersOf(b)' = Seg!ReadersOf(b) /\ Seg!WritersOf(b)' = Seg!WritersOf(b)
    BY <1>1 DEF segmentVars, Seg!ReadersOf, Seg!WritersOf
<1>5. BlockInv'
    <2>1. BlockTypes' /\ CasLocal' /\ Contents'
        BY <1>1 DEF ShmInv, BlockInv, BlockTypes, CasLocal, Contents, segmentVars
    <2> QED
        BY <1>1, <1>4, <2>1, CountsKept DEF ShmInv, BlockInv, segmentVars
<1>6. PathTypes' /\ Announcing' /\ Announced'
    BY <1>1 DEF ShmInv, PathTypes, Announcing, Announced, segmentVars, notifierVars, histVars, myVars
<1>7. \A l \in Listeners : Handles(l)' /\ HandedOver(l)'
    BY <1>1 DEF ShmInv, Handles, HandedOver, SentInfo, segmentVars, notifierVars, ringVars, histVars, myVars
<1>8. Calm' => Calm /\ Unannounced'
    BY <1>1, <1>4 DEF ShmInv, Calm, Unannounced, Holds, segmentVars, notifierVars, histVars, myVars
<1>9. \A k : Present(k) => Present(k)'
    BY <1>1, <1>4 DEF Present, Holds, Published, SentInfo, segmentVars, notifierVars, histVars, myVars
<1>10. Calm' => \A l \in Listeners : Kept(l)' /\ Complete(l)'
    BY <1>1, <1>8, <1>9 DEF ShmInv, Kept, Complete, Published, segmentVars, notifierVars, ringVars,
                           histVars, myVars
<1> QED
    BY <1>2, <1>3, <1>5, <1>6, <1>7, <1>8, <1>10 DEF ShmInv

LEMMA StepShm ==
  ASSUME ShmInv, ShmNext
  PROVE  ShmInv'
<1> USE DEF ShmInv
<1>1. IInv' /\ Quiet' /\ BlockInv'
    BY RingStep, QuietStep, BlockStep DEF BlockInv
<1>2. PathTypes' /\ Announcing' /\ Announced'
    BY <1>1, PathTypesStep, AnnouncingStep, AnnouncedStep
<1>3. \A l \in Listeners : Handles(l)' /\ HandedOver(l)'
    BY <1>1, HandlesStep, HandedOverStep
<1>4. ASSUME Calm' PROVE Unannounced' /\ \A l \in Listeners : Kept(l)' /\ Complete(l)'
    <2>1. Calm /\ ~overrun' /\ ~rewritten'
        BY <1>4, HistoryGrows DEF Calm
    <2>2. Unannounced'
        BY <2>1, UnannouncedStep
    <2>3. ASSUME NEW l \in Listeners PROVE Kept(l)' /\ Complete(l)'
        BY <1>1, <1>2, <2>1, KeptStep, CompleteStep
    <2> QED
        BY <2>2, <2>3
<1> QED
    BY <1>1, <1>2, <1>3, <1>4

\* Every state of the transport, whoever dies in it, has consistent blocks and
\* announcements, and until a slot or a block is reused too early every message
\* stays in its block from its release to the end of each dispatch.
THEOREM ShmInvariance == ShmSpec => []ShmInv
<1>1. ShmInv /\ [ShmNext]_shmVars => ShmInv'
    BY StepShm, StutterShm
<1> QED
    BY InitShm, <1>1, PTL DEF ShmSpec

\* Lock words, try counts, cursors and announcements stay in their ranges, and a
\* dispatcher handles one announcement at a time.
THEOREM TransportTypes == ShmSpec => []ShmTypeOK
<1>1. ASSUME ShmInv PROVE Seg!TypeOK
    <2>1. BlockTypes /\ Locks /\ dead \subseteq Transmitters \cup Listeners
        BY <1>1 DEF ShmInv, BlockInv, PathTypes
    <2>2. Seg!Block = BlockIndex /\ (1 .. MaxMessages) \cup {0} = Content
        BY TransportAssumption, MaxMessagesIsNat DEF Seg!Block, Content
    <2>3. lock_num \in [BlockIndex -> -1 .. Cardinality(Listeners)]
        BY <2>1, LockRange DEF BlockTypes
    <2>4. Seg!Cardinality(Listeners) = Cardinality(Listeners)
        BY DEF Seg!Cardinality, Cardinality
    <2> QED
        BY <2>1, <2>2, <2>3, <2>4 DEF BlockTypes, Seg!TypeOK
<1>2. ASSUME ShmInv, NEW l \in Listeners PROVE Cardinality(task[l]) <= 1
    <2>1. task[l] = {} \/ \E d : task[l] = {d}
        BY <1>2 DEF ShmInv, Handles
    <2>2. task[l] = {} => Cardinality(task[l]) = 0
        BY FS_EmptySet
    <2>3. ASSUME NEW d, task[l] = {d} PROVE Cardinality(task[l]) = 1
        BY <2>3, FS_Singleton
    <2> QED
        BY <2>1, <2>2, <2>3
<1>3. ShmInv => ShmTypeOK
    BY <1>1, <1>2, Sizes DEF ShmInv, IInv, Types, PathTypes, Content, ShmTypeOK
<1> QED
    BY <1>3, ShmInvariance, PTL

\* A dispatcher's OnMessage never sees a message of which Transmit has written
\* only a part, nor one block's payload with another message's info, also when
\* announcements come late and blocks have been reused.
THEOREM WholeIsHandedOver == ShmSpec => []HandedOverIsWhole
<1>1. ShmInv => HandedOverIsWhole
    BY Sizes DEF ShmInv, HandedOver, HandedOverIsWhole
<1> QED
    BY <1>1, ShmInvariance, PTL

\* Between Transmit, which releases a block before it announces it, and the
\* dispatcher, which locks it after it has been told, no message is lost, handed
\* over twice or exchanged, unless a slot or a block is reused too early.
THEOREM AnnouncedIsHandedOverOnce == ShmSpec => []HandedOverIsAnnounced
<1>1. ASSUME ShmInv, ~overrun, ~rewritten, NEW l \in Listeners, NEW k \in joined[l] .. cursor[l] - 1,
             Published(k) # 0, \A d \in task[l] : d.seq # k
      PROVE  Cardinality({i \in DOMAIN got[l] : got[l][i].seq = k}) = 1
    <2>1. PICK i \in DOMAIN got[l] : got[l][i].seq = k
        BY <1>1 DEF ShmInv, Calm, Complete
    <2>2. \A j \in DOMAIN got[l] : got[l][j].seq = k => j = i
        BY <1>1, <2>1 DEF ShmInv, HandedOver
    <2>3. {j \in DOMAIN got[l] : got[l][j].seq = k} = {i}
        BY <2>1, <2>2
    <2> QED
        BY <2>3, FS_Singleton
<1>2. ShmInv => HandedOverIsAnnounced
    BY <1>1, Sizes DEF ShmInv, Calm, Complete, HandedOverIsAnnounced
<1> QED
    BY <1>2, ShmInvariance, PTL

\* AcquireBlockToRead fails for an announced block only when the block or its
\* slot was reused too early or the tries ran out: no writer keeps a dispatcher
\* that is in time out of its block, dead ones included.
THEOREM LateIsRefused == ShmSpec => []RefusedOnlyWhenLate
<1>1. ShmInv => RefusedOnlyWhenLate
    BY Sizes DEF ShmInv, Calm, Kept, RefusedOnlyWhenLate
<1> QED
    BY <1>1, ShmInvariance, PTL
=============================================================================
