-------------------------- MODULE BlockRingProofs ---------------------------
(***************************************************************************)
(* Proofs about BlockRing, for any number of writers, readers and blocks,  *)
(* any modulus of the sequence number and any number of crashes.  The lock *)
(* word of a block counts its holders; a holder that reads excludes every  *)
(* writer, so that the two halves of what it reads stay equal.             *)
(***************************************************************************)
EXTENDS BlockRing, FiniteSetTheorems, TLAPS

\* A reader about to swap has seen no writer, and has tries left.
CasLocal ==
    \A r \in Readers :
        /\ rpc[r] = "cas" => rlock[r] >= 0
        /\ rpc[r] \in {"cas", "load"} => rtries[r] < MaxTryLockTimes

\* The two halves of a block differ only while its one writer is between
\* them, and what a reader has taken is still in the block it holds.
Contents ==
    /\ \A b \in Block :
          payload[b] # msg_info[b] => \E w \in Writers : wpc[w] = "info" /\ wblock[w] = b
    /\ \A w \in Writers : wpc[w] = "info" => payload[wblock[w]] = wmsg[w]
    /\ \A r \in Readers :
          /\ rpc[r] \in {"payload", "release"} => rinfo[r] = msg_info[rblock[r]]
          /\ rpc[r] = "release" => rpayload[r] = payload[rblock[r]]

\* TypeOK, except that the lock words are only known to be integers.
WeakTypeOK ==
    /\ seq \in 0 .. SeqModulus - 1
    /\ lock_num \in [Block -> Int]
    /\ payload \in [Block -> Message \cup {NoMessage}]
    /\ msg_info \in [Block -> Message \cup {NoMessage}]
    /\ wpc \in [Writers -> {"idle", "seq", "try"} \cup WritingPc]
    /\ wblock \in [Writers -> Block]
    /\ wmsg \in [Writers -> Message \cup {NoMessage}]
    /\ rpc \in [Readers -> {"idle", "load", "cas", "failed"} \cup ReadingPc]
    /\ rblock \in [Readers -> Block]
    /\ rlock \in [Readers -> -1 .. Cardinality(Readers)]
    /\ rtries \in [Readers -> 0 .. MaxTryLockTimes]
    /\ rinfo \in [Readers -> Message \cup {NoMessage}]
    /\ rpayload \in [Readers -> Message \cup {NoMessage}]
    /\ dead \subseteq Writers \cup Readers

IInv == WeakTypeOK /\ LockCountsHolders /\ CasLocal /\ Contents

-----------------------------------------------------------------------------
\* The readers of a block are finitely many and at most all the readers.
LEMMA ReadersFinite ==
    /\ Cardinality(Readers) \in Nat
    /\ \A b \in Block : /\ IsFiniteSet(ReadersOf(b))
                        /\ Cardinality(ReadersOf(b)) \in 0 .. Cardinality(Readers)
<1>1. IsFiniteSet(Readers) /\ Cardinality(Readers) \in Nat
    BY ThreadsAssumption, FS_CardinalityType
<1>2. ASSUME NEW b \in Block
      PROVE  /\ IsFiniteSet(ReadersOf(b))
             /\ Cardinality(ReadersOf(b)) \in 0 .. Cardinality(Readers)
    <2>1. ReadersOf(b) \in SUBSET Readers
        BY DEF ReadersOf
    <2>2. IsFiniteSet(ReadersOf(b)) /\ Cardinality(ReadersOf(b)) <= Cardinality(Readers)
        BY <1>1, <2>1, FS_Subset
    <2> QED
        BY <1>1, <2>2, FS_CardinalityType
<1> QED
    BY <1>1, <1>2

LEMMA IInvImpliesTypeOK == IInv => TypeOK
<1> SUFFICES ASSUME IInv PROVE TypeOK
    OBVIOUS
<1>1. \A b \in Block : lock_num[b] \in -1 .. Cardinality(Readers)
    BY ReadersFinite DEF IInv, LockCountsHolders, WriteExclusive
<1>2. lock_num \in [Block -> -1 .. Cardinality(Readers)]
    BY <1>1 DEF IInv, WeakTypeOK
<1> QED
    BY <1>2 DEF IInv, WeakTypeOK, TypeOK

\* One reader more or less changes the number of readers by one.
LEMMA CountStep ==
    ASSUME NEW S, NEW T, NEW t, IsFiniteSet(S)
    PROVE  /\ (t \notin S /\ T = S \cup {t}) => Cardinality(T) = Cardinality(S) + 1
           /\ (t \in S /\ T = S \ {t}) => Cardinality(T) = Cardinality(S) - 1
BY FS_AddElement, FS_RemoveElement

\* A step that changes no lock word and no holder keeps the count.
LEMMA CountsKept ==
    ASSUME LockCountsHolders, UNCHANGED lock_num,
           \A b \in Block : ReadersOf(b)' = ReadersOf(b) /\ WritersOf(b)' = WritersOf(b)
    PROVE  LockCountsHolders'
BY DEF LockCountsHolders

\* Drawing a number gives a block of the segment and a number of the range.
LEMMA SeqArithmetic ==
    ASSUME NEW s \in 0 .. SeqModulus - 1
    PROVE  s % BlockNum \in Block /\ (s + 1) % SeqModulus \in 0 .. SeqModulus - 1
BY SizesAssumption DEF Block

-----------------------------------------------------------------------------
LEMMA InitIInv == Init => IInv
<1> SUFFICES ASSUME Init PROVE IInv
    OBVIOUS
<1>1. WeakTypeOK
    BY SizesAssumption, ReadersFinite DEF Init, WeakTypeOK, Block, RWLockFree
<1>2. \A b \in Block : ReadersOf(b) = {} /\ WritersOf(b) = {}
    BY DEF Init, ReadersOf, WritersOf, ReadingPc, WritingPc
<1>3. LockCountsHolders
    BY <1>2, FS_EmptySet DEF Init, LockCountsHolders, RWLockFree
<1>4. CasLocal /\ Contents
    BY DEF Init, CasLocal, Contents
<1> QED
    BY <1>1, <1>3, <1>4 DEF IInv

-----------------------------------------------------------------------------
\* The steps of a writer.
LEMMA WriterIInv ==
    ASSUME IInv, NEW w \in Writers,
           \/ \E m \in Message : BeginWrite(w, m)
           \/ TryLockForWriteSpurious(w)
           \/ WriteStep(w)
    PROVE  IInv'
<1> USE DEF IInv, blockVars, writerVars, readerVars
<1>1. ASSUME NEW m \in Message, BeginWrite(w, m) PROVE IInv'
    <2>1. WeakTypeOK'
        BY <1>1 DEF WeakTypeOK, BeginWrite
    <2>2. \A b \in Block : ReadersOf(b)' = ReadersOf(b) /\ WritersOf(b)' = WritersOf(b)
        BY <1>1 DEF WeakTypeOK, BeginWrite, ReadersOf, WritersOf, WritingPc
    <2>3. LockCountsHolders'
        BY <1>1, <2>2, CountsKept DEF BeginWrite
    <2>4. CasLocal' /\ Contents'
        BY <1>1 DEF WeakTypeOK, BeginWrite, CasLocal, Contents
    <2> QED
        BY <2>1, <2>3, <2>4
<1>2. ASSUME FetchAddSeq(w) PROVE IInv'
    <2>1. WeakTypeOK'
        BY <1>2, SeqArithmetic DEF WeakTypeOK, FetchAddSeq
    <2>2. \A b \in Block : ReadersOf(b)' = ReadersOf(b) /\ WritersOf(b)' = WritersOf(b)
        BY <1>2 DEF WeakTypeOK, FetchAddSeq, ReadersOf, WritersOf, WritingPc
    <2>3. LockCountsHolders'
        BY <1>2, <2>2, CountsKept DEF FetchAddSeq
    <2>4. CasLocal' /\ Contents'
        BY <1>2 DEF WeakTypeOK, FetchAddSeq, CasLocal, Contents
    <2> QED
        BY <2>1, <2>3, <2>4
<1>3. ASSUME TryLockForWrite(w) PROVE IInv'
    <2>0. PICK b0 \in Block : b0 = wblock[w]
        BY DEF WeakTypeOK
    <2>1. WeakTypeOK'
        BY <2>0, <1>3 DEF WeakTypeOK, TryLockForWrite, WritingPc, WriteExclusive
    <2>2. b0 \in Block /\ WritersOf(b0) = {} /\ ReadersOf(b0) = {}
        <3>1. b0 \in Block /\ lock_num[b0] = 0
            BY <2>0, <1>3 DEF WeakTypeOK, TryLockForWrite, RWLockFree
        <3>2. WritersOf(b0) = {} /\ Cardinality(ReadersOf(b0)) = 0
            BY <3>1 DEF LockCountsHolders, WriteExclusive
        <3> QED
            BY <3>1, <3>2, ReadersFinite, FS_EmptySet
    <2>3. /\ WritersOf(b0)' = {w} /\ ReadersOf(b0)' = {} /\ lock_num'[b0] = WriteExclusive
          /\ \A b \in Block \ {b0} : /\ lock_num'[b] = lock_num[b]
                                     /\ WritersOf(b)' = WritersOf(b)
          /\ \A b \in Block : ReadersOf(b)' = ReadersOf(b)
        BY <2>0, <1>3, <2>2 DEF WeakTypeOK, TryLockForWrite, ReadersOf, WritersOf, WritingPc
    <2>4. LockCountsHolders'
        BY <2>3 DEF LockCountsHolders
    <2>5. CasLocal' /\ Contents'
        BY <2>0, <1>3 DEF WeakTypeOK, TryLockForWrite, CasLocal, Contents
    <2> QED
        BY <2>1, <2>4, <2>5
<1>4. ASSUME TryLockForWriteFails(w) \/ TryLockForWriteSpurious(w) PROVE IInv'
    <2> USE DEF TryLockForWriteFails, TryLockForWriteSpurious
    <2>1. WeakTypeOK'
        BY <1>4 DEF WeakTypeOK
    <2>2. \A b \in Block : ReadersOf(b)' = ReadersOf(b) /\ WritersOf(b)' = WritersOf(b)
        BY <1>4 DEF WeakTypeOK, ReadersOf, WritersOf, WritingPc
    <2>3. LockCountsHolders'
        BY <1>4, <2>2, CountsKept
    <2>4. CasLocal' /\ Contents'
        BY <1>4 DEF WeakTypeOK, CasLocal, Contents
    <2> QED
        BY <2>1, <2>3, <2>4
<1>5. ASSUME WritePayload(w) PROVE IInv'
    <2>0. PICK b0 \in Block : b0 = wblock[w]
        BY DEF WeakTypeOK
    <2>1. WeakTypeOK'
        BY <2>0, <1>5 DEF WeakTypeOK, WritePayload, WritingPc
    <2>2. \A b \in Block : ReadersOf(b)' = ReadersOf(b) /\ WritersOf(b)' = WritersOf(b)
        BY <2>0, <1>5 DEF WeakTypeOK, WritePayload, ReadersOf, WritersOf, WritingPc
    <2>3. LockCountsHolders'
        BY <2>0, <1>5, <2>2, CountsKept DEF WritePayload
    <2>4. b0 \in Block /\ WritersOf(b0) = {w} /\ ReadersOf(b0) = {}
        BY <2>0, <1>5 DEF WeakTypeOK, WritePayload, LockCountsHolders, WritersOf, WritingPc
    <2>5. \A r \in Readers : rpc[r] \in ReadingPc => rblock[r] # b0
        BY <2>4 DEF ReadersOf
    <2>6. \A v \in Writers : v # w /\ wpc[v] = "info" => wblock[v] # b0
        BY <2>4 DEF WritersOf, WritingPc
    <2>7. Contents'
        BY <2>0, <1>5, <2>4, <2>5, <2>6 DEF WeakTypeOK, WritePayload, Contents, ReadingPc
    <2>8. CasLocal'
        BY <2>0, <1>5 DEF WritePayload, CasLocal
    <2> QED
        BY <2>1, <2>3, <2>7, <2>8
<1>6. ASSUME WriteInfo(w) PROVE IInv'
    <2>0. PICK b0 \in Block : b0 = wblock[w]
        BY DEF WeakTypeOK
    <2>1. WeakTypeOK'
        BY <2>0, <1>6 DEF WeakTypeOK, WriteInfo, WritingPc
    <2>2. \A b \in Block : ReadersOf(b)' = ReadersOf(b) /\ WritersOf(b)' = WritersOf(b)
        BY <2>0, <1>6 DEF WeakTypeOK, WriteInfo, ReadersOf, WritersOf, WritingPc
    <2>3. LockCountsHolders'
        BY <2>0, <1>6, <2>2, CountsKept DEF WriteInfo
    <2>4. b0 \in Block /\ WritersOf(b0) = {w} /\ ReadersOf(b0) = {}
        BY <2>0, <1>6 DEF WeakTypeOK, WriteInfo, LockCountsHolders, WritersOf, WritingPc
    <2>5. \A r \in Readers : rpc[r] \in ReadingPc => rblock[r] # b0
        BY <2>4 DEF ReadersOf
    <2>6. payload'[b0] = msg_info'[b0]
        BY <2>0, <1>6, <2>4 DEF WeakTypeOK, WriteInfo, Contents
    <2>7. \A b \in Block : payload'[b] # msg_info'[b]
                => \E v \in Writers : wpc'[v] = "info" /\ wblock'[v] = b
        BY <2>0, <1>6, <2>6 DEF WeakTypeOK, WriteInfo, Contents
    <2>8. Contents'
        BY <2>0, <1>6, <2>4, <2>5, <2>7 DEF WeakTypeOK, WriteInfo, Contents, ReadingPc
    <2>9. CasLocal'
        BY <2>0, <1>6 DEF WriteInfo, CasLocal
    <2> QED
        BY <2>1, <2>3, <2>8, <2>9
<1>7. ASSUME ReleaseWrittenBlock(w) PROVE IInv'
    <2>0. PICK b0 \in Block : b0 = wblock[w]
        BY DEF WeakTypeOK
    <2>1. WeakTypeOK'
        BY <2>0, <1>7 DEF WeakTypeOK, ReleaseWrittenBlock
    <2>2. /\ b0 \in Block /\ WritersOf(b0) = {w} /\ ReadersOf(b0) = {}
          /\ lock_num[b0] = -1
        BY <2>0, <1>7 DEF WeakTypeOK, ReleaseWrittenBlock, LockCountsHolders, WritersOf, WritingPc,
                    WriteExclusive
    <2>3. /\ WritersOf(b0)' = {} /\ ReadersOf(b0)' = {} /\ lock_num'[b0] = 0
          /\ \A b \in Block \ {b0} : /\ lock_num'[b] = lock_num[b]
                                     /\ WritersOf(b)' = WritersOf(b)
          /\ \A b \in Block : ReadersOf(b)' = ReadersOf(b)
        BY <2>0, <1>7, <2>2 DEF WeakTypeOK, ReleaseWrittenBlock, ReadersOf, WritersOf, WritingPc
    <2>4. LockCountsHolders'
        BY <2>3, FS_EmptySet DEF LockCountsHolders
    <2>5. CasLocal' /\ Contents'
        BY <2>0, <1>7 DEF WeakTypeOK, ReleaseWrittenBlock, CasLocal, Contents
    <2> QED
        BY <2>1, <2>4, <2>5
<1> QED
    BY <1>1, <1>2, <1>3, <1>4, <1>5, <1>6, <1>7 DEF WriteStep

-----------------------------------------------------------------------------
\* The steps of a reader.
LEMMA ReaderIInv ==
    ASSUME IInv, NEW r \in Readers,
           (\E b \in Block : BeginRead(r, b)) \/ ReadStep(r)
    PROVE  IInv'
<1>t. TypeOK
    BY IInvImpliesTypeOK
<1> USE DEF IInv, blockVars, writerVars, readerVars
<1>1. ASSUME NEW b0 \in Block, BeginRead(r, b0) PROVE IInv'
    <2>1. WeakTypeOK'
        BY <1>t, <1>1, SizesAssumption DEF WeakTypeOK, TypeOK, BeginRead
    <2>2. \A b \in Block : ReadersOf(b)' = ReadersOf(b) /\ WritersOf(b)' = WritersOf(b)
        BY <1>1 DEF WeakTypeOK, BeginRead, ReadersOf, WritersOf, ReadingPc
    <2>3. LockCountsHolders'
        BY <1>1, <2>2, CountsKept DEF BeginRead
    <2>4. CasLocal'
        BY <1>1, SizesAssumption DEF WeakTypeOK, BeginRead, CasLocal, RWLockFree
    <2>5. Contents'
        BY <1>1 DEF WeakTypeOK, BeginRead, Contents
    <2> QED
        BY <2>1, <2>3, <2>4, <2>5
<1>2. ASSUME ReadLockCas(r) PROVE IInv'
    <2>0. PICK b0 \in Block : b0 = rblock[r]
        BY DEF WeakTypeOK
    <2>1. WeakTypeOK'
        BY <2>0, <1>2 DEF WeakTypeOK, ReadLockCas, ReadingPc
    <2>2. b0 \in Block /\ WritersOf(b0) = {} /\ lock_num[b0] = Cardinality(ReadersOf(b0))
        BY <2>0, <1>2 DEF WeakTypeOK, ReadLockCas, LockCountsHolders, CasLocal, WriteExclusive
    <2>3. /\ r \notin ReadersOf(b0) /\ ReadersOf(b0)' = ReadersOf(b0) \cup {r}
          /\ lock_num'[b0] = lock_num[b0] + 1
          /\ \A b \in Block \ {b0} : /\ lock_num'[b] = lock_num[b]
                                     /\ ReadersOf(b)' = ReadersOf(b)
          /\ \A b \in Block : WritersOf(b)' = WritersOf(b)
        BY <2>0, <1>2, <2>2 DEF WeakTypeOK, ReadLockCas, ReadersOf, WritersOf, ReadingPc
    <2>4. Cardinality(ReadersOf(b0)') = Cardinality(ReadersOf(b0)) + 1
        BY <2>2, <2>3, ReadersFinite, CountStep
    <2>5. LockCountsHolders'
        BY <2>2, <2>3, <2>4 DEF LockCountsHolders
    <2>6. CasLocal' /\ Contents'
        BY <2>0, <1>2 DEF WeakTypeOK, ReadLockCas, CasLocal, Contents
    <2> QED
        BY <2>1, <2>5, <2>6
<1>3. ASSUME ReadLockCasFails(r) PROVE IInv'
    <2>1. rtries[r] + 1 \in 0 .. MaxTryLockTimes
        BY <1>3, SizesAssumption DEF WeakTypeOK, ReadLockCasFails, CasLocal
    <2>2. WeakTypeOK'
        BY <1>3, <2>1 DEF WeakTypeOK, ReadLockCasFails
    <2>3. \A b \in Block : ReadersOf(b)' = ReadersOf(b) /\ WritersOf(b)' = WritersOf(b)
        BY <1>3 DEF WeakTypeOK, ReadLockCasFails, ReadersOf, WritersOf, ReadingPc
    <2>4. LockCountsHolders'
        BY <1>3, <2>3, CountsKept DEF ReadLockCasFails
    <2>5. CasLocal'
        BY <1>3, <2>1, SizesAssumption DEF WeakTypeOK, ReadLockCasFails, CasLocal
    <2>6. Contents'
        BY <1>3 DEF WeakTypeOK, ReadLockCasFails, Contents
    <2> QED
        BY <2>2, <2>4, <2>5, <2>6
<1>4. ASSUME ReadLockReload(r) PROVE IInv'
    <2>1. WeakTypeOK'
        BY <1>t, <1>4 DEF WeakTypeOK, TypeOK, ReadLockReload
    <2>2. \A b \in Block : ReadersOf(b)' = ReadersOf(b) /\ WritersOf(b)' = WritersOf(b)
        BY <1>4 DEF WeakTypeOK, ReadLockReload, ReadersOf, WritersOf, ReadingPc
    <2>3. LockCountsHolders'
        BY <1>4, <2>2, CountsKept DEF ReadLockReload
    <2>4. CasLocal'
        BY <1>4 DEF WeakTypeOK, ReadLockReload, CasLocal, RWLockFree
    <2>5. Contents'
        BY <1>4 DEF WeakTypeOK, ReadLockReload, Contents
    <2> QED
        BY <2>1, <2>3, <2>4, <2>5
<1>5. ASSUME ReadInfo(r) PROVE IInv'
    <2>1. WeakTypeOK'
        BY <1>5 DEF WeakTypeOK, ReadInfo, ReadingPc
    <2>2. \A b \in Block : ReadersOf(b)' = ReadersOf(b) /\ WritersOf(b)' = WritersOf(b)
        BY <1>5 DEF WeakTypeOK, ReadInfo, ReadersOf, WritersOf, ReadingPc
    <2>3. LockCountsHolders'
        BY <1>5, <2>2, CountsKept DEF ReadInfo
    <2>4. CasLocal' /\ Contents'
        BY <1>5 DEF WeakTypeOK, ReadInfo, CasLocal, Contents
    <2> QED
        BY <2>1, <2>3, <2>4
<1>6. ASSUME ReadPayload(r) PROVE IInv'
    <2>1. WeakTypeOK'
        BY <1>6 DEF WeakTypeOK, ReadPayload, ReadingPc
    <2>2. \A b \in Block : ReadersOf(b)' = ReadersOf(b) /\ WritersOf(b)' = WritersOf(b)
        BY <1>6 DEF WeakTypeOK, ReadPayload, ReadersOf, WritersOf, ReadingPc
    <2>3. LockCountsHolders'
        BY <1>6, <2>2, CountsKept DEF ReadPayload
    <2>4. CasLocal' /\ Contents'
        BY <1>6 DEF WeakTypeOK, ReadPayload, CasLocal, Contents
    <2> QED
        BY <2>1, <2>3, <2>4
<1>7. ASSUME ReleaseReadBlock(r) PROVE IInv'
    <2>0. PICK b0 \in Block : b0 = rblock[r]
        BY DEF WeakTypeOK
    <2>1. WeakTypeOK'
        BY <2>0, <1>7 DEF WeakTypeOK, ReleaseReadBlock
    <2>2. /\ b0 \in Block /\ r \in ReadersOf(b0)
          /\ WritersOf(b0) = {} /\ lock_num[b0] = Cardinality(ReadersOf(b0))
        BY <2>0, <1>7 DEF WeakTypeOK, ReleaseReadBlock, LockCountsHolders, ReadersOf, ReadingPc
    <2>3. /\ ReadersOf(b0)' = ReadersOf(b0) \ {r}
          /\ lock_num'[b0] = lock_num[b0] - 1
          /\ \A b \in Block \ {b0} : /\ lock_num'[b] = lock_num[b]
                                     /\ ReadersOf(b)' = ReadersOf(b)
          /\ \A b \in Block : WritersOf(b)' = WritersOf(b)
        BY <2>0, <1>7, <2>2 DEF WeakTypeOK, ReleaseReadBlock, ReadersOf, WritersOf, ReadingPc
    <2>4. Cardinality(ReadersOf(b0)') = Cardinality(ReadersOf(b0)) - 1
        BY <2>2, <2>3, ReadersFinite, CountStep
    <2>5. LockCountsHolders'
        BY <2>2, <2>3, <2>4 DEF LockCountsHolders
    <2>6. CasLocal' /\ Contents'
        BY <2>0, <1>7 DEF WeakTypeOK, ReleaseReadBlock, CasLocal, Contents
    <2> QED
        BY <2>1, <2>5, <2>6
<1>8. ASSUME GiveUp(r) PROVE IInv'
    <2>1. WeakTypeOK'
        BY <1>8 DEF WeakTypeOK, GiveUp
    <2>2. \A b \in Block : ReadersOf(b)' = ReadersOf(b) /\ WritersOf(b)' = WritersOf(b)
        BY <1>8 DEF WeakTypeOK, GiveUp, ReadersOf, WritersOf, ReadingPc
    <2>3. LockCountsHolders'
        BY <1>8, <2>2, CountsKept DEF GiveUp
    <2>4. CasLocal' /\ Contents'
        BY <1>8 DEF WeakTypeOK, GiveUp, CasLocal, Contents
    <2> QED
        BY <2>1, <2>3, <2>4
<1> QED
    BY <1>1, <1>2, <1>3, <1>4, <1>5, <1>6, <1>7, <1>8 DEF ReadStep

-----------------------------------------------------------------------------
LEMMA NextIInv == IInv /\ [Next]_vars => IInv'
<1> SUFFICES ASSUME IInv, [Next]_vars PROVE IInv'
    OBVIOUS
<1>1. ASSUME NEW p \in Writers \cup Readers, Die(p) PROVE IInv'
    <2> USE <1>1 DEF IInv, Die, blockVars, writerVars, readerVars
    <2>1. WeakTypeOK'
        BY DEF WeakTypeOK
    <2>2. \A b \in Block : ReadersOf(b)' = ReadersOf(b) /\ WritersOf(b)' = WritersOf(b)
        BY DEF ReadersOf, WritersOf
    <2>3. LockCountsHolders'
        BY <2>2, CountsKept
    <2>4. CasLocal' /\ Contents'
        BY DEF CasLocal, Contents
    <2> QED
        BY <2>1, <2>3, <2>4
<1>2. CASE UNCHANGED vars
    <2> USE <1>2 DEF IInv, vars, blockVars, writerVars, readerVars
    <2>1. \A b \in Block : ReadersOf(b)' = ReadersOf(b) /\ WritersOf(b)' = WritersOf(b)
        BY DEF ReadersOf, WritersOf
    <2>2. LockCountsHolders'
        BY <2>1, CountsKept
    <2> QED
        BY <2>2 DEF WeakTypeOK, CasLocal, Contents
<1> QED
    BY <1>1, <1>2, WriterIInv, ReaderIInv DEF Next

\* The inductive invariant holds in every behaviour.
THEOREM InductiveInvariant == Spec => []IInv
<1> QED
    BY InitIInv, NextIInv, PTL DEF Spec

\* Every variable stays in its range; in particular no release takes a lock
\* word below -1 and TryLockForRead makes at most kMaxTryLockTimes tries.
THEOREM TypeCorrect == Spec => []TypeOK
<1> QED
    BY InductiveInvariant, IInvImpliesTypeOK, PTL

\* The lock word of every block counts its holders, whoever dies.
THEOREM LockWords == Spec => []LockCountsHolders
<1>1. IInv => LockCountsHolders
    BY DEF IInv
<1> QED
    BY <1>1, InductiveInvariant, PTL

\* No reader ever combines two messages.
THEOREM ReadsAreWhole == Spec => []NoTornRead
<1>1. IInv => NoTornRead
    <2> SUFFICES ASSUME IInv, NEW r \in Readers, rpc[r] = "release"
                 PROVE rinfo[r] = rpayload[r]
        BY DEF NoTornRead
    <2>1. rblock[r] \in Block /\ r \in ReadersOf(rblock[r])
        BY DEF IInv, WeakTypeOK, ReadersOf, ReadingPc
    <2>2. WritersOf(rblock[r]) = {}
        BY <2>1 DEF IInv, LockCountsHolders
    <2>3. payload[rblock[r]] = msg_info[rblock[r]]
        BY <2>1, <2>2 DEF IInv, Contents, WritersOf, WritingPc
    <2> QED
        BY <2>3 DEF IInv, Contents
<1> QED
    BY <1>1, InductiveInvariant, PTL
-----------------------------------------------------------------------------
\* Seen from one block, every step acquires or releases its lock, or leaves
\* its holders alone.
LEMMA StepRefinement ==
    ASSUME IInv, [Next]_vars, NEW b \in Block
    PROVE  [RW(b)!Next]_(RW(b)!vars)
<1> USE DEF IInv, blockVars, writerVars, readerVars
<1>1. ASSUME NEW w \in Writers, TryLockForWrite(w), wblock[w] = b PROVE RW(b)!Next
    <2>1. lock_num[b] = 0
        BY <1>1 DEF TryLockForWrite, RWLockFree
    <2>2. WritersOf(b) = {} /\ Cardinality(ReadersOf(b)) = 0
        BY <2>1 DEF LockCountsHolders, WriteExclusive
    <2>3. WritersOf(b) = {} /\ ReadersOf(b) = {}
        BY <2>2, ReadersFinite, FS_EmptySet
    <2>4. WritersOf(b)' = {w} /\ ReadersOf(b)' = ReadersOf(b)
        BY <1>1, <2>3 DEF WeakTypeOK, TryLockForWrite, ReadersOf, WritersOf, WritingPc
    <2> QED
        BY <2>3, <2>4 DEF RW!Next, RW!AcquireWrite
<1>2. ASSUME NEW w \in Writers, ReleaseWrittenBlock(w), wblock[w] = b PROVE RW(b)!Next
    <2>1. /\ w \in WritersOf(b) /\ WritersOf(b)' = WritersOf(b) \ {w}
          /\ ReadersOf(b)' = ReadersOf(b)
        BY <1>2 DEF WeakTypeOK, ReleaseWrittenBlock, ReadersOf, WritersOf, WritingPc
    <2> QED
        BY <2>1 DEF RW!Next, RW!ReleaseWrite
<1>3. ASSUME NEW r \in Readers, ReadLockCas(r), rblock[r] = b PROVE RW(b)!Next
    <2>1. WritersOf(b) = {}
        BY <1>3 DEF WeakTypeOK, ReadLockCas, LockCountsHolders, CasLocal, WriteExclusive
    <2>2. /\ r \notin ReadersOf(b) /\ ReadersOf(b)' = ReadersOf(b) \cup {r}
          /\ WritersOf(b)' = WritersOf(b)
        BY <1>3 DEF WeakTypeOK, ReadLockCas, ReadersOf, WritersOf, ReadingPc
    <2> QED
        BY <2>1, <2>2 DEF RW!Next, RW!AcquireRead
<1>4. ASSUME NEW r \in Readers, ReleaseReadBlock(r), rblock[r] = b PROVE RW(b)!Next
    <2>1. /\ r \in ReadersOf(b) /\ ReadersOf(b)' = ReadersOf(b) \ {r}
          /\ WritersOf(b)' = WritersOf(b)
        BY <1>4 DEF WeakTypeOK, ReleaseReadBlock, ReadersOf, WritersOf, ReadingPc
    <2> QED
        BY <2>1 DEF RW!Next, RW!ReleaseRead
<1> DEFINE Kept == ReadersOf(b)' = ReadersOf(b) /\ WritersOf(b)' = WritersOf(b)
<1>5. ASSUME NEW w \in Writers,
             \/ (TryLockForWrite(w) \/ ReleaseWrittenBlock(w)) /\ wblock[w] # b
             \/ \E m \in Message : BeginWrite(w, m)
             \/ FetchAddSeq(w) \/ TryLockForWriteFails(w) \/ TryLockForWriteSpurious(w)
             \/ WritePayload(w) \/ WriteInfo(w)
      PROVE Kept
    BY <1>5 DEF WeakTypeOK, BeginWrite, FetchAddSeq, TryLockForWrite, TryLockForWriteFails,
                TryLockForWriteSpurious, WritePayload, WriteInfo, ReleaseWrittenBlock,
                ReadersOf, WritersOf, WritingPc
<1>6. ASSUME NEW r \in Readers,
             \/ (ReadLockCas(r) \/ ReleaseReadBlock(r)) /\ rblock[r] # b
             \/ \E c \in Block : BeginRead(r, c)
             \/ ReadLockCasFails(r) \/ ReadLockReload(r)
             \/ ReadInfo(r) \/ ReadPayload(r) \/ GiveUp(r)
      PROVE Kept
    BY <1>6 DEF WeakTypeOK, BeginRead, ReadLockCas, ReadLockCasFails, ReadLockReload, ReadInfo,
                ReadPayload, ReleaseReadBlock, GiveUp, ReadersOf, WritersOf, ReadingPc
<1>7. ASSUME NEW p \in Writers \cup Readers, Die(p) PROVE Kept
    BY <1>7 DEF Die, ReadersOf, WritersOf
<1>8. CASE UNCHANGED vars
    BY <1>8 DEF vars, RW!vars, ReadersOf, WritersOf
<1>9. Kept => UNCHANGED RW(b)!vars
    BY DEF RW!vars
<1> QED
    BY <1>1, <1>2, <1>3, <1>4, <1>5, <1>6, <1>7, <1>8, <1>9 DEF Next, WriteStep, ReadStep

\* The lock of every block implements the abstract readers/writer lock.
THEOREM Refinement == Spec => ImplementsRWLock
<1>1. Init => \A b \in Block : RW(b)!Init
    BY DEF Init, RW!Init, ReadersOf, WritersOf, ReadingPc, WritingPc
<1>2. IInv /\ [Next]_vars => \A b \in Block : [RW(b)!Next]_(RW(b)!vars)
    BY StepRefinement
<1> QED
    BY <1>1, <1>2, InductiveInvariant, PTL DEF Spec, ImplementsRWLock
=============================================================================
