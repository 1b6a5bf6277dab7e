---------------------------- MODULE ShmTransport ----------------------------
(***************************************************************************)
(* Shared-memory transport of one channel, end to end:                     *)
(*   transport/transmitter/transmitter.h       Transmit(msg)               *)
(*   transport/transmitter/shm_transmitter.h   Transmit                    *)
(*   transport/dispatcher/shm_dispatcher.cpp   ThreadFunc and ReadMessage  *)
(* It adds the blocks of the channel's segment (an instance of BlockRing)  *)
(* to the ring of announcements that all channels of the host share        *)
(* (ConditionNotifier, whose steps its actions contain and whose shutdown  *)
(* is left out).  A transmitter writes a block, releases it and     *)
(* only then announces its index; a dispatcher thread waits for an         *)
(* announcement and only then locks the block that it names.  Between the  *)
(* two the block belongs to nobody.                                        *)
(*                                                                         *)
(* Bystanders announce blocks of other channels, for which the             *)
(* dispatchers have no segment.  Every thread is a process of its own.     *)
(* A compare-and-swap fails only because the word has changed: spurious    *)
(* failures are left to BlockRing, they make the state space too large.    *)
(* Messages are numbered in the order in which Transmit is called, all     *)
(* transmitters together: a number stands for the sender and its seq_num_. *)
(***************************************************************************)
EXTENDS ConditionNotifier

CONSTANTS Transmitters,     \* the notifiers that transmit on this channel
          MyChannel,
          BlockNum, SeqModulus, MaxTryLockTimes   \* of its segment, see BlockRing

\* Memory and ring exist, and the ring is not as fresh as to have drawn no number.
ASSUME TransportAssumption ==
    /\ Transmitters \subseteq Notifiers /\ MyChannel \in Channel
    /\ IsFiniteSet(Transmitters) /\ IsFiniteSet(Listeners)
    /\ BlockNum \in Nat \ {0} /\ BlockIndex = 0 .. BlockNum - 1
    /\ SeqModulus \in Nat \ {0} /\ MaxTryLockTimes \in Nat \ {0}
    /\ ~FirstRun /\ StartSeq > 0

Bystanders == Notifiers \ Transmitters
Dispatchers == Listeners
MaxMessages == MaxSeq - StartSeq   \* bound: calls of Transmit

VARIABLES
    \* of BlockRing
    seq, lock_num, payload, msg_info, wpc, wblock, wmsg,
    rpc, rblock, rlock, rtries, rinfo, rpayload,
    \* of the composition
    calls,      \* how many times Transmit has been called
    task,       \* what Listen has returned and ThreadFunc is handling
    published,  \* history: the message of every announcement
    got,        \* history: what each dispatcher has handed to its listeners
    rewritten   \* history: has a block been written again although a message
                \* in it was not announced yet, or not read by a dispatcher?

segmentVars == <<seq, lock_num, payload, msg_info, wpc, wblock, wmsg,
                 rpc, rblock, rlock, rtries, rinfo, rpayload>>
notifierVars == <<ringVars, pc, nseq, ninfo, cursor, linfo, shutdown, detached, histVars>>
myVars == <<calls, task, published, got, rewritten>>
shmVars == <<segmentVars, notifierVars, dead, myVars>>

Seg == INSTANCE BlockRing
    WITH Writers <- Transmitters, Readers <- Listeners, Message <- 1 .. MaxMessages,
         NoMessage <- 0, WeakCas <- FALSE, MaxCrashes <- MaxStops

ShmInit ==
    /\ Seg!Init
    /\ Init
    /\ calls = 0
    /\ task = [l \in Dispatchers |-> {}]
    /\ published = <<>>
    /\ got = [l \in Dispatchers |-> <<>>]
    /\ rewritten = FALSE

\* Enable, or the constructor of ShmDispatcher: the notifier is opened.
Enable(p) == Open(p) /\ UNCHANGED <<segmentVars, myVars>>

-----------------------------------------------------------------------------
(* Transmitter::Transmit, ShmTransmitter::Transmit *)

BeginTransmit(t) ==
    /\ pc[t] = "idle"
    /\ calls < MaxMessages
    /\ calls' = calls + 1
    /\ Seg!BeginWrite(t, calls + 1)
    /\ UNCHANGED <<notifierVars, task, published, got, rewritten>>

\* Somebody still needs the message in block b.
Needed(b) ==
    \/ \E n \in Transmitters : pc[n] = "draw" /\ ninfo[n].block = b
    \/ \E l \in Dispatchers :
          /\ pc[l] \notin {"closed", "load"}
          /\ \/ \E k \in cursor[l] .. next_seq - 1 :
                   SentInfo(k) = [channel |-> MyChannel, block |-> b]
             \/ \E d \in task[l] : d.info = [channel |-> MyChannel, block |-> b]

AcquireBlock(t) ==
    /\ Seg!TryLockForWrite(t)
    /\ rewritten' = (rewritten \/ Needed(wblock[t]))
    /\ UNCHANGED <<notifierVars, calls, task, published, got>>

WriteBlock(t) ==
    /\ \/ Seg!FetchAddSeq(t) \/ Seg!TryLockForWriteFails(t)
       \/ Seg!WritePayload(t) \/ Seg!WriteInfo(t)
    /\ UNCHANGED <<notifierVars, myVars>>

ReleaseAndNotify(t) ==
    /\ Seg!ReleaseWrittenBlock(t)
    /\ BeginNotify(t, [channel |-> MyChannel, block |-> wblock[t]])
    /\ UNCHANGED myVars

\* A transmitter of another channel has written a block of its own segment.
NotifyOther(n) ==
    /\ calls < MaxMessages
    /\ calls' = calls + 1
    /\ \E c \in Channel \ {MyChannel} : BeginNotify(n, [channel |-> c, block |-> 0])
    /\ UNCHANGED <<segmentVars, task, published, got, rewritten>>

Announce(n) ==
    /\ DrawSeq(n)
    /\ published' = Append(published, IF n \in Transmitters THEN wmsg[n] ELSE 0)
    /\ UNCHANGED <<segmentVars, calls, task, got, rewritten>>

StoreAnnouncement(n) ==
    /\ StoreChannel(n) \/ StoreBlock(n) \/ StoreSeq(n)
    /\ UNCHANGED <<segmentVars, myVars>>

-----------------------------------------------------------------------------
(* ShmDispatcher::ThreadFunc *)

Listen(l) ==
    /\ task[l] = {}
    /\ \/ TestShutdown(l) \/ Poll(l) \/ CheckReady(l)
       \/ CheckNotReady(l) \/ LoadChannel(l)
    /\ UNCHANGED <<segmentVars, myVars>>

ListenReturns(l) ==
    /\ LoadBlock(l)
    /\ task' = [task EXCEPT ![l] = {[seq |-> cursor[l], info |-> linfo'[l]]}]
    /\ UNCHANGED <<segmentVars, calls, published, got, rewritten>>

\* Mutant: drops announcements of its own channel, too.
SkipAny(l) ==
    /\ l \notin dead
    /\ task[l] # {} /\ rpc[l] = "idle"
    /\ task' = [task EXCEPT ![l] = {}]
    /\ UNCHANGED <<segmentVars, notifierVars, dead, calls, published, got, rewritten>>

\* There is no segment for this channel.
Skip(l) ==
    /\ l \notin dead
    /\ \E d \in task[l] : d.info.channel # MyChannel
    /\ task' = [task EXCEPT ![l] = {}]
    /\ UNCHANGED <<segmentVars, notifierVars, dead, calls, published, got, rewritten>>

\* ReadMessage calls AcquireBlockToRead.
ReadMessage(l) ==
    /\ \E d \in task[l] : d.info.channel = MyChannel /\ Seg!BeginRead(l, d.info.block)
    /\ UNCHANGED <<notifierVars, myVars>>

ReadBlock(l) ==
    /\ \/ Seg!ReadLockCas(l) \/ Seg!ReadLockCasFails(l) \/ Seg!ReadLockReload(l)
       \/ Seg!ReadInfo(l)
    /\ UNCHANGED <<notifierVars, myVars>>

\* OnMessage: the listener's callback deserialises the payload in place.
OnMessage(l) ==
    /\ Seg!ReadPayload(l)
    /\ \E d \in task[l] :
          got' = [got EXCEPT ![l] =
                     Append(@, [seq |-> d.seq, info |-> rinfo[l], payload |-> rpayload'[l]])]
    /\ UNCHANGED <<notifierVars, calls, task, published, rewritten>>

ReleaseBlock(l) ==
    /\ Seg!ReleaseReadBlock(l)
    /\ task' = [task EXCEPT ![l] = {}]
    /\ UNCHANGED <<notifierVars, calls, published, got, rewritten>>

\* AcquireBlockToRead has failed.  ReadMessage only logs it, and goes on to
\* rb->block->msg_size() with a null rb->block: the process dies.
UseNullBlock(l) ==
    /\ rpc[l] = "failed" /\ l \notin dead
    /\ dead' = dead \cup {l}
    /\ UNCHANGED <<segmentVars, notifierVars, myVars>>

-----------------------------------------------------------------------------
\* A process of this channel dies (what a dead bystander leaves behind, a
\* number without an announcement, a dead transmitter leaves as well).
ProcessDies(p) ==
    /\ Seg!Die(p)
    /\ Die(p)
    /\ UNCHANGED myVars

TransmitStep(t) ==
    \/ AcquireBlock(t) \/ WriteBlock(t) \/ ReleaseAndNotify(t)
    \/ Announce(t) \/ StoreAnnouncement(t)

DispatchStep(l) ==
    \/ Listen(l) \/ ListenReturns(l) \/ Skip(l) \/ ReadMessage(l) \/ ReadBlock(l)
    \/ OnMessage(l) \/ ReleaseBlock(l) \/ UseNullBlock(l)

ShmNext ==
    \/ \E p \in Process : Enable(p)
    \/ \E p \in Process \ Bystanders : ProcessDies(p)
    \/ \E t \in Transmitters : BeginTransmit(t) \/ TransmitStep(t)
    \/ \E n \in Bystanders : NotifyOther(n) \/ Announce(n) \/ StoreAnnouncement(n)
    \/ \E l \in Dispatchers : DispatchStep(l)

ShmSpec == ShmInit /\ [][ShmNext]_shmVars

\* A Transmit that has begun goes on, and the dispatcher threads run.
ShmFairSpec ==
    /\ ShmSpec
    /\ \A t \in Transmitters : WF_shmVars(TransmitStep(t))
    /\ \A n \in Bystanders : WF_shmVars(Announce(n) \/ StoreAnnouncement(n))
    /\ \A l \in Dispatchers : WF_shmVars(DispatchStep(l))

-----------------------------------------------------------------------------
(* Properties *)

ShmTypeOK ==
    /\ Seg!TypeOK
    /\ TypeOK
    /\ calls \in 0 .. MaxMessages
    /\ \A l \in Dispatchers : Cardinality(task[l]) <= 1
    /\ published \in Seq(0 .. MaxMessages)

Published(k) == published[k - StartSeq + 1]

\* What a dispatcher hands over is one message, complete, that some
\* transmitter had finished writing, even when it is not the message that was
\* announced (the block may have been reused in the meantime).  Once the ring
\* of announcements has been overrun, the channel of one announcement and the
\* block of another may name a block that nobody has written.
HandedOverIsWhole ==
    \A l \in Dispatchers : \A i \in DOMAIN got[l] :
        got[l][i].info = got[l][i].payload /\ (~overrun => got[l][i].info # 0)

\* As long as neither a block nor an announcement slot is reused too early,
\* every announcement is handed over with exactly the message it was made
\* for, and none of this channel is missed or repeated.
HandedOverIsAnnounced ==
    (~overrun /\ ~rewritten) =>
        \A l \in Dispatchers :
            /\ \A i \in DOMAIN got[l] : got[l][i].info = Published(got[l][i].seq)
            /\ \A k \in joined[l] .. cursor[l] - 1 :
                  Published(k) # 0 /\ (\A d \in task[l] : d.seq # k) =>
                      Cardinality({i \in DOMAIN got[l] : got[l][i].seq = k}) = 1

\* A reader that fails to lock an announced block was too slow, or ran out of
\* tries; a reader that keeps up is never refused because of a writer.
RefusedOnlyWhenLate ==
    \A l \in Dispatchers :
        rpc[l] = "failed" => rewritten \/ overrun \/ rtries[l] = MaxTryLockTimes

\* Every message that is announced while a dispatcher listens reaches it,
\* unless it is overtaken, the dispatcher dies, or a dead transmitter has left
\* a number before it unwritten.
AnnouncedIsHandedOver ==
    \A l \in Dispatchers : \A m \in 1 .. MaxMessages :
        (pc[l] \notin {"closed", "load"}
         /\ \E k \in cursor[l] .. next_seq - 1 : Published(k) = m)
            ~> \/ \E i \in DOMAIN got[l] : got[l][i].payload = m
               \/ rewritten \/ overrun \/ l \in dead \/ Abandoned(MaxSeq)

\* Transmit ends although it spins for a block: dispatchers release what they
\* lock and lock nothing that is not announced, and a process that dies with a
\* lock takes only one block with it.
TransmitEnds ==
    \A t \in Transmitters :
        wpc[t] # "idle" ~> wpc[t] = "idle" \/ t \in dead \/ Cardinality(dead) >= BlockNum
=============================================================================
