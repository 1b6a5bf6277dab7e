----------------------------- MODULE BlockRing ------------------------------
(***************************************************************************)
(* The blocks of one mapped shared-memory segment, used by the processes   *)
(* that have it open: transport/shm/core/block.cpp (the lock of a block),  *)
(* state.h (the shared sequence number), segment.cpp (acquiring and        *)
(* releasing a block) and the copies that ShmTransmitter::Transmit and     *)
(* ShmDispatcher::ReadMessage make while they hold one.  Creating,         *)
(* remapping and removing the segment is not part of this module.          *)
(*                                                                         *)
(* A block carries a payload and, behind it, a message info; a write fills *)
(* them one after the other, and a read takes them in the opposite order,  *)
(* so that a read that overlaps a write would see two different messages.  *)
(*                                                                         *)
(* wpc[w]:  "idle"      not in Transmit                                    *)
(*          "seq"       about to draw a number in GetNextWritableBlockIndex*)
(*          "try"       about to try the lock of wblock[w]                 *)
(*          "payload"   holds the write lock, payload not copied yet       *)
(*          "info"      payload copied, message info not yet               *)
(*          "release"   about to release the write lock                    *)
(* rpc[r]:  "idle"      not reading                                        *)
(*          "load"      TryLockForRead, about to load lock_num_ again      *)
(*          "cas"       TryLockForRead, about to compare-and-swap          *)
(*          "failed"    AcquireBlockToRead has returned false              *)
(*          "info"      holds the read lock, message info not read yet     *)
(*          "payload"   message info read, payload not yet                 *)
(*          "release"   payload read, about to release the read lock       *)
(* A process may die at any of these points: the memory, and with it the   *)
(* locks the process holds, stays as it is.                                *)
(***************************************************************************)
EXTENDS Integers, FiniteSets

CONSTANTS Writers,            \* threads that transmit through this segment
          Readers,            \* dispatcher threads that read it
          Message,            \* what is written
          NoMessage,          \* content of a block that nobody has written
          BlockNum,           \* conf_.block_num()
          SeqModulus,         \* 2^32 in the code: seq_ is a uint32_t
          MaxTryLockTimes,    \* kMaxTryLockTimes
          WeakCas,            \* can compare_exchange_weak fail on equal values?
                              \* (on x86 it cannot, on ARM it can)
          MaxCrashes          \* bound: how many processes may die

ASSUME ThreadsAssumption ==
    /\ IsFiniteSet(Writers) /\ IsFiniteSet(Readers) /\ Writers \cap Readers = {}
    /\ NoMessage \notin Message
ASSUME SizesAssumption ==
    /\ BlockNum \in Nat \ {0} /\ SeqModulus \in Nat \ {0}
    /\ MaxTryLockTimes \in Nat \ {0} /\ MaxCrashes \in Nat /\ WeakCas \in BOOLEAN

RWLockFree     == 0
WriteExclusive == -1
Block == 0 .. BlockNum - 1

VARIABLES
    seq,       \* State::seq_
    lock_num,  \* Block::lock_num_ of every block
    payload,   \* the buffer of every block
    msg_info,  \* the message info behind the payload
    wpc, wblock, wmsg,
    rpc, rblock,
    rlock,     \* TryLockForRead's local copy of lock_num_
    rtries,    \* its try_times
    rinfo,     \* the message info a reader has read
    rpayload,  \* the payload a reader has read
    dead       \* the processes that have died

blockVars  == <<seq, lock_num, payload, msg_info>>
writerVars == <<wpc, wblock, wmsg>>
readerVars == <<rpc, rblock, rlock, rtries, rinfo, rpayload>>
vars == <<blockVars, writerVars, readerVars, dead>>

WritingPc == {"payload", "info", "release"}
ReadingPc == {"info", "payload", "release"}
WritersOf(b) == {w \in Writers : wpc[w] \in WritingPc /\ wblock[w] = b}
ReadersOf(b) == {r \in Readers : rpc[r] \in ReadingPc /\ rblock[r] = b}

Init ==
    /\ seq = 0
    /\ lock_num = [b \in Block |-> RWLockFree]
    /\ payload  = [b \in Block |-> NoMessage]
    /\ msg_info = [b \in Block |-> NoMessage]
    /\ wpc    = [w \in Writers |-> "idle"]
    /\ wblock = [w \in Writers |-> 0]
    /\ wmsg   = [w \in Writers |-> NoMessage]
    /\ rpc    = [r \in Readers |-> "idle"]
    /\ rblock = [r \in Readers |-> 0]
    /\ rlock  = [r \in Readers |-> 0]
    /\ rtries = [r \in Readers |-> 0]
    /\ rinfo    = [r \in Readers |-> NoMessage]
    /\ rpayload = [r \in Readers |-> NoMessage]
    /\ dead = {}

-----------------------------------------------------------------------------
(* Writing a block *)

\* Transmit has serialised m and calls AcquireBlockToWrite.
BeginWrite(w, m) ==
    /\ wpc[w] = "idle" /\ w \notin dead
    /\ wmsg' = [wmsg EXCEPT ![w] = m]
    /\ wpc' = [wpc EXCEPT ![w] = "seq"]
    /\ UNCHANGED <<blockVars, wblock, readerVars, dead>>

FetchAddSeq(w) ==
    /\ wpc[w] = "seq" /\ w \notin dead
    /\ wblock' = [wblock EXCEPT ![w] = seq % BlockNum]
    /\ seq' = (seq + 1) % SeqModulus
    /\ wpc' = [wpc EXCEPT ![w] = "try"]
    /\ UNCHANGED <<lock_num, payload, msg_info, wmsg, readerVars, dead>>

\* Mutant: takes the block whatever its lock word says.
TryLockForWriteStores(w) ==
    /\ wpc[w] = "try" /\ w \notin dead
    /\ lock_num' = [lock_num EXCEPT ![wblock[w]] = WriteExclusive]
    /\ wpc' = [wpc EXCEPT ![w] = "payload"]
    /\ UNCHANGED <<seq, payload, msg_info, wblock, wmsg, readerVars, dead>>

TryLockForWrite(w) ==
    /\ wpc[w] = "try" /\ w \notin dead
    /\ lock_num[wblock[w]] = RWLockFree
    /\ lock_num' = [lock_num EXCEPT ![wblock[w]] = WriteExclusive]
    /\ wpc' = [wpc EXCEPT ![w] = "payload"]
    /\ UNCHANGED <<seq, payload, msg_info, wblock, wmsg, readerVars, dead>>

\* The block is busy: back to the loop, for the next number.
TryLockForWriteFails(w) ==
    /\ wpc[w] = "try" /\ w \notin dead
    /\ lock_num[wblock[w]] # RWLockFree
    /\ wpc' = [wpc EXCEPT ![w] = "seq"]
    /\ UNCHANGED <<blockVars, wblock, wmsg, readerVars, dead>>

\* compare_exchange_weak may also fail on a free block.
TryLockForWriteSpurious(w) ==
    /\ WeakCas
    /\ wpc[w] = "try" /\ w \notin dead
    /\ lock_num[wblock[w]] = RWLockFree
    /\ wpc' = [wpc EXCEPT ![w] = "seq"]
    /\ UNCHANGED <<blockVars, wblock, wmsg, readerVars, dead>>

WritePayload(w) ==
    /\ wpc[w] = "payload" /\ w \notin dead
    /\ payload' = [payload EXCEPT ![wblock[w]] = wmsg[w]]
    /\ wpc' = [wpc EXCEPT ![w] = "info"]
    /\ UNCHANGED <<seq, lock_num, msg_info, wblock, wmsg, readerVars, dead>>

WriteInfo(w) ==
    /\ wpc[w] = "info" /\ w \notin dead
    /\ msg_info' = [msg_info EXCEPT ![wblock[w]] = wmsg[w]]
    /\ wpc' = [wpc EXCEPT ![w] = "release"]
    /\ UNCHANGED <<seq, lock_num, payload, wblock, wmsg, readerVars, dead>>

\* Mutant: the written block is never released.
ReleaseWrittenBlockForgets(w) ==
    /\ wpc[w] = "release" /\ w \notin dead
    /\ wpc' = [wpc EXCEPT ![w] = "idle"]
    /\ UNCHANGED <<blockVars, wblock, wmsg, readerVars, dead>>

ReleaseWrittenBlock(w) ==
    /\ wpc[w] = "release" /\ w \notin dead
    /\ lock_num' = [lock_num EXCEPT ![wblock[w]] = lock_num[wblock[w]] + 1]
    /\ wpc' = [wpc EXCEPT ![w] = "idle"]
    /\ UNCHANGED <<seq, payload, msg_info, wblock, wmsg, readerVars, dead>>

-----------------------------------------------------------------------------
(* Reading a block *)

\* Mutant: TryLockForRead does not mind a writer inside.
BeginReadIgnoresWriter(r, b) ==
    /\ rpc[r] = "idle" /\ r \notin dead
    /\ rblock' = [rblock EXCEPT ![r] = b]
    /\ rlock' = [rlock EXCEPT ![r] = lock_num[b]]
    /\ rtries' = [rtries EXCEPT ![r] = 0]
    /\ rpc' = [rpc EXCEPT ![r] = "cas"]
    /\ UNCHANGED <<blockVars, writerVars, rinfo, rpayload, dead>>

\* The first load of TryLockForRead; a writer inside makes it fail at once.
BeginRead(r, b) ==
    /\ rpc[r] = "idle" /\ r \notin dead
    /\ rblock' = [rblock EXCEPT ![r] = b]
    /\ rlock' = [rlock EXCEPT ![r] = lock_num[b]]
    /\ rtries' = [rtries EXCEPT ![r] = 0]
    /\ rpc' = [rpc EXCEPT ![r] = IF lock_num[b] < RWLockFree THEN "failed" ELSE "cas"]
    /\ UNCHANGED <<blockVars, writerVars, rinfo, rpayload, dead>>

ReadLockCas(r) ==
    /\ rpc[r] = "cas" /\ r \notin dead
    /\ lock_num[rblock[r]] = rlock[r]
    /\ lock_num' = [lock_num EXCEPT ![rblock[r]] = rlock[r] + 1]
    /\ rpc' = [rpc EXCEPT ![r] = "info"]
    /\ UNCHANGED <<seq, payload, msg_info, writerVars, rblock, rlock, rtries,
                   rinfo, rpayload, dead>>

\* The lock word has changed, or the swap fails spuriously.
ReadLockCasFails(r) ==
    /\ rpc[r] = "cas" /\ r \notin dead
    /\ WeakCas \/ lock_num[rblock[r]] # rlock[r]
    /\ rtries' = [rtries EXCEPT ![r] = rtries[r] + 1]
    /\ rpc' = [rpc EXCEPT ![r] =
                  IF rtries[r] + 1 = MaxTryLockTimes THEN "failed" ELSE "load"]
    /\ UNCHANGED <<blockVars, writerVars, rblock, rlock, rinfo, rpayload, dead>>

ReadLockReload(r) ==
    /\ rpc[r] = "load" /\ r \notin dead
    /\ rlock' = [rlock EXCEPT ![r] = lock_num[rblock[r]]]
    /\ rpc' = [rpc EXCEPT ![r] =
                  IF lock_num[rblock[r]] < RWLockFree THEN "failed" ELSE "cas"]
    /\ UNCHANGED <<blockVars, writerVars, rblock, rtries, rinfo, rpayload, dead>>

ReadInfo(r) ==
    /\ rpc[r] = "info" /\ r \notin dead
    /\ rinfo' = [rinfo EXCEPT ![r] = msg_info[rblock[r]]]
    /\ rpc' = [rpc EXCEPT ![r] = "payload"]
    /\ UNCHANGED <<blockVars, writerVars, rblock, rlock, rtries, rpayload, dead>>

ReadPayload(r) ==
    /\ rpc[r] = "payload" /\ r \notin dead
    /\ rpayload' = [rpayload EXCEPT ![r] = payload[rblock[r]]]
    /\ rpc' = [rpc EXCEPT ![r] = "release"]
    /\ UNCHANGED <<blockVars, writerVars, rblock, rlock, rtries, rinfo, dead>>

ReleaseReadBlock(r) ==
    /\ rpc[r] = "release" /\ r \notin dead
    /\ lock_num' = [lock_num EXCEPT ![rblock[r]] = lock_num[rblock[r]] - 1]
    /\ rpc' = [rpc EXCEPT ![r] = "idle"]
    /\ UNCHANGED <<seq, payload, msg_info, writerVars, rblock, rlock, rtries,
                   rinfo, rpayload, dead>>

\* AcquireBlockToRead has returned false and its caller drops the block.
GiveUp(r) ==
    /\ rpc[r] = "failed" /\ r \notin dead
    /\ rpc' = [rpc EXCEPT ![r] = "idle"]
    /\ UNCHANGED <<blockVars, writerVars, rblock, rlock, rtries, rinfo, rpayload, dead>>

-----------------------------------------------------------------------------
Die(p) ==
    /\ p \notin dead
    /\ Cardinality(dead) < MaxCrashes
    /\ dead' = dead \cup {p}
    /\ UNCHANGED <<blockVars, writerVars, readerVars>>

WriteStep(w) ==
    \/ FetchAddSeq(w) \/ TryLockForWrite(w) \/ TryLockForWriteFails(w)
    \/ WritePayload(w) \/ WriteInfo(w) \/ ReleaseWrittenBlock(w)

ReadStep(r) ==
    \/ ReadLockCas(r) \/ ReadLockCasFails(r) \/ ReadLockReload(r)
    \/ ReadInfo(r) \/ ReadPayload(r) \/ ReleaseReadBlock(r) \/ GiveUp(r)

Next ==
    \/ \E w \in Writers : \/ \E m \in Message : BeginWrite(w, m)
                          \/ TryLockForWriteSpurious(w)
                          \/ WriteStep(w)
    \/ \E r \in Readers : \/ \E b \in Block : BeginRead(r, b)
                          \/ ReadStep(r)
    \/ \E p \in Writers \cup Readers : Die(p)

Spec == Init /\ [][Next]_vars

-----------------------------------------------------------------------------
(* Properties *)

TypeOK ==
    /\ seq \in 0 .. SeqModulus - 1
    /\ lock_num \in [Block -> -1 .. Cardinality(Readers)]
    /\ payload \in [Block -> Message \cup {NoMessage}]
    /\ msg_info \in [Block -> Message \cup {NoMessage}]
    /\ wpc \in [Writers -> {"idle", "seq", "try"} \cup WritingPc]
    /\ wblock \in [Writers -> Block]
    /\ wmsg \in [Writers -> Message \cup {NoMessage}]
    /\ rpc \in [Readers -> {"idle", "load", "cas", "failed"} \cup ReadingPc]
    /\ rblock \in [Readers -> Block]
    /\ rlock \in [Readers -> -1 .. Cardinality(Readers)]
    /\ rtries \in [Readers -> 0 .. MaxTryLockTimes]
    /\ rinfo \in [Readers -> Message \cup {NoMessage}]
    /\ rpayload \in [Readers -> Message \cup {NoMessage}]
    /\ dead \subseteq Writers \cup Readers

\* The lock word of every block counts its holders, dead ones included: a
\* crash leaves the block locked and never half-unlocked.
LockCountsHolders ==
    \A b \in Block :
        \/ /\ lock_num[b] = WriteExclusive
           /\ ReadersOf(b) = {} /\ (\E w \in Writers : WritersOf(b) = {w})
        \/ /\ WritersOf(b) = {}
           /\ lock_num[b] = Cardinality(ReadersOf(b))

\* A reader never combines the info of one message with the payload of
\* another, although writers take blocks from the ring whenever they find
\* them free and may die in the middle of a copy.
NoTornRead ==
    \A r \in Readers : rpc[r] = "release" => rinfo[r] = rpayload[r]

\* The lock of every block implements the abstract readers/writer lock.
RW(b) == INSTANCE RWLock WITH Thread <- Writers \cup Readers,
                              readers <- ReadersOf(b), writers <- WritersOf(b)
ImplementsRWLock ==
    /\ \A b \in Block : RW(b)!Init
    /\ [][\A b \in Block : [RW(b)!Next]_(RW(b)!vars)]_vars

-----------------------------------------------------------------------------
\* A process that is inside the segment keeps running unless it dies; nobody
\* has to start anything.  Some swaps of a writer that tries forever on free
\* blocks succeed.
FairSpec ==
    /\ Spec
    /\ \A w \in Writers : WF_vars(WriteStep(w))
    /\ \A w \in Writers :
          []<><<TryLockForWriteSpurious(w)>>_vars => []<><<TryLockForWrite(w)>>_vars
    /\ \A r \in Readers : WF_vars(ReadStep(r))

\* A writer that finds every block locked does not spin for ever: it leaves the
\* loop, or a block becomes free (for the comment on GetNextWritableBlockIndex,
\* segment.h, the loop even ends with a special value when no block is free).
\* Only when every block has a holder that died does it never end.
BusyRingIsLeft ==
    \A w \in Writers :
        (wpc[w] \in {"seq", "try"} /\ \A b \in Block : lock_num[b] # RWLockFree)
            ~> \/ wpc[w] \notin {"seq", "try"} \/ w \in dead
               \/ \E b \in Block : lock_num[b] = RWLockFree
               \/ \A b \in Block : (WritersOf(b) \cup ReadersOf(b)) \cap dead # {}
=============================================================================
