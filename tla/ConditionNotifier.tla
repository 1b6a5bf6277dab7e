------------------------- MODULE ConditionNotifier --------------------------
(***************************************************************************)
(* transport/shm/notifier/condition_notifier.cpp: one ring in shared       *)
(* memory, through which every process of a host announces the blocks it   *)
(* has written and every process finds out what to read.                   *)
(*                                                                         *)
(* The ring is an atomic next_seq and two plain arrays, infos and seqs.    *)
(* Notify draws a sequence number and then stores the info and the number, *)
(* one plain store after the other (ReadableInfo::operator= copies field   *)
(* by field; the host is the same for every process and is left out, the   *)
(* stores reach the memory in program order); Listen reads them in the     *)
(* opposite order.  Nothing stops two of them from using one slot at the   *)
(* same time, so every store and every load is a step.                     *)
(*                                                                         *)
(* Each notifier and each listener is a thread of a process of its own.    *)
(* pc[p]:                                                                  *)
(*   "closed"     its ConditionNotifier does not exist yet                 *)
(*   "construct"  has created the shared memory, Indicator not built yet   *)
(*   "load"       attached, next_seq_ not loaded yet                       *)
(*   "idle"       outside Notify; in Listen before the is_shutdown_ test   *)
(*   "draw" "channel" "block" "seq"    steps of Notify                     *)
(*   "poll" "check" "getchannel" "getblock"    steps of Listen             *)
(*   "left"       is_shutdown_ was seen and the call has returned          *)
(*   "fault"      touched the ring after it was detached                   *)
(* Waiting between two polls, and Listen's time-out (its caller calls it   *)
(* again), leave the state as it is.                                       *)
(***************************************************************************)
EXTENDS Integers, Sequences, FiniteSets

CONSTANTS Notifiers, Listeners,
          Channel,        \* channel ids
          NoChannel,      \* the channel id of a default ReadableInfo
          BlockIndex,     \* block indexes; a default ReadableInfo has index 0
          BufLength,      \* kBufLength
          FirstRun,       \* does the shared memory still have to be created?
          StartSeq,       \* if not: how many numbers earlier processes drew
          MaxSeq,         \* bound: numbers drawn
          MaxStops        \* bound: processes that die or shut down

ASSUME RingAssumption ==
    /\ BufLength \in Nat \ {0} /\ StartSeq \in Nat /\ MaxSeq \in Nat /\ MaxStops \in Nat
    /\ FirstRun \in BOOLEAN /\ (FirstRun => StartSeq = 0)
    /\ StartSeq <= MaxSeq   \* the bound leaves the numbers already drawn alone
    /\ 0 \in BlockIndex /\ NoChannel \notin Channel /\ Notifiers \cap Listeners = {}

Process == Notifiers \cup Listeners
Slot == 0 .. BufLength - 1
ReadableInfo == [channel : Channel, block : BlockIndex]
NoInfo == [channel |-> NoChannel, block |-> 0]

VARIABLES
    shm,         \* the shared memory: "absent", "created", "constructed"
    next_seq,    \* Indicator::next_seq
    infos, seqs, \* its two arrays
    pc,
    nseq, ninfo, \* Notify's seq and info
    cursor,      \* a listener's next_seq_
    linfo,       \* Listen's *info
    shutdown,    \* the processes whose is_shutdown_ is set
    detached,    \* those that have detached the shared memory
    dead,        \* those that have died
    sent,        \* history: the info of every number drawn since the start
    joined,      \* history: every listener's first next_seq_
    delivered,   \* history: what Listen has returned to each listener
    overrun,     \* history: has a number been drawn while the slot it reuses
                 \* was still being written, or not yet read by a listener?
    raced        \* history: was the Indicator built under an open process?

ringVars == <<shm, next_seq, infos, seqs>>
stopVars == <<shutdown, detached, dead>>
histVars == <<sent, joined, delivered, overrun, raced>>
vars == <<ringVars, pc, nseq, ninfo, cursor, linfo, stopVars, histVars>>

SlotOf(k) == k % BufLength

\* Numbers drawn earlier are in the ring: the last one of every slot.
LastSeq(i) == IF i < StartSeq THEN i + BufLength * ((StartSeq - 1 - i) \div BufLength) ELSE 0

Init ==
    /\ shm = IF FirstRun THEN "absent" ELSE "constructed"
    /\ next_seq = StartSeq
    /\ infos = [i \in Slot |-> NoInfo]
    /\ seqs = [i \in Slot |-> LastSeq(i)]
    /\ pc = [p \in Process |-> "closed"]
    /\ nseq = [n \in Notifiers |-> 0]
    /\ ninfo = [n \in Notifiers |-> NoInfo]
    /\ cursor = [l \in Listeners |-> 0]
    /\ linfo = [l \in Listeners |-> NoInfo]
    /\ shutdown = {} /\ detached = {} /\ dead = {}
    /\ sent = <<>>
    /\ joined = [l \in Listeners |-> 0]
    /\ delivered = [l \in Listeners |-> <<>>]
    /\ overrun = FALSE /\ raced = FALSE

\* The process p is about to do step s, and can touch the ring.
At(p, s) == pc[p] = s /\ p \notin dead /\ p \notin detached
Goto(p, s) == pc' = [pc EXCEPT ![p] = s]

-----------------------------------------------------------------------------
(* The constructor: OpenOrCreate, and the first load of next_seq *)

Create(p) ==
    /\ pc[p] = "closed" /\ p \notin dead
    /\ shm = "absent"
    /\ shm' = "created"
    /\ Goto(p, "construct")
    /\ UNCHANGED <<next_seq, infos, seqs, nseq, ninfo, cursor, linfo, stopVars, histVars>>

\* The key exists: attach, without building anything.
OpenOnly(p) ==
    /\ pc[p] = "closed" /\ p \notin dead
    /\ shm # "absent"
    /\ Goto(p, "load")
    /\ UNCHANGED <<ringVars, nseq, ninfo, cursor, linfo, stopVars, histVars>>

\* new (managed_shm_) Indicator()
Construct(p) ==
    /\ At(p, "construct")
    /\ shm' = "constructed"
    /\ next_seq' = 0
    /\ infos' = [i \in Slot |-> NoInfo]
    /\ seqs' = [i \in Slot |-> 0]
    /\ sent' = <<>>
    /\ raced' = (raced \/ \E q \in Process \ {p} : pc[q] # "closed")
    /\ Goto(p, "load")
    /\ UNCHANGED <<nseq, ninfo, cursor, linfo, stopVars, joined, delivered, overrun>>

LoadNextSeq(p) ==
    /\ At(p, "load")
    /\ IF p \in Listeners
       THEN /\ cursor' = [cursor EXCEPT ![p] = next_seq]
            /\ joined' = [joined EXCEPT ![p] = next_seq]
       ELSE UNCHANGED <<cursor, joined>>
    /\ Goto(p, "idle")
    /\ UNCHANGED <<ringVars, nseq, ninfo, linfo, stopVars, sent, delivered, overrun, raced>>

-----------------------------------------------------------------------------
(* Notify *)

BeginNotify(n, info) ==
    /\ pc[n] = "idle" /\ n \notin dead
    /\ n \notin shutdown
    /\ next_seq < MaxSeq
    /\ ninfo' = [ninfo EXCEPT ![n] = info]
    /\ Goto(n, "draw")
    /\ UNCHANGED <<ringVars, nseq, cursor, linfo, stopVars, histVars>>

NotifyRefused(n) ==
    /\ pc[n] = "idle" /\ n \notin dead
    /\ n \in shutdown
    /\ Goto(n, "left")
    /\ UNCHANGED <<ringVars, nseq, ninfo, cursor, linfo, stopVars, histVars>>

\* Number k reuses the slot of k - BufLength: is that one still in use?
InUse(k) ==
    \/ \E n \in Notifiers : pc[n] \in {"channel", "block", "seq"} /\ nseq[n] <= k - BufLength
    \/ \E l \in Listeners : /\ pc[l] \notin {"closed", "construct", "load", "left", "fault"}
                            /\ cursor[l] <= k - BufLength

DrawSeq(n) ==
    /\ At(n, "draw")
    /\ next_seq < MaxSeq
    /\ nseq' = [nseq EXCEPT ![n] = next_seq]
    /\ next_seq' = next_seq + 1
    /\ sent' = Append(sent, ninfo[n])
    /\ overrun' = (overrun \/ InUse(next_seq))
    /\ Goto(n, "channel")
    /\ UNCHANGED <<shm, infos, seqs, ninfo, cursor, linfo, stopVars, joined, delivered, raced>>

StoreChannel(n) ==
    /\ At(n, "channel")
    /\ infos' = [infos EXCEPT ![SlotOf(nseq[n])].channel = ninfo[n].channel]
    /\ Goto(n, "block")
    /\ UNCHANGED <<shm, next_seq, seqs, nseq, ninfo, cursor, linfo, stopVars, histVars>>

StoreBlock(n) ==
    /\ At(n, "block")
    /\ infos' = [infos EXCEPT ![SlotOf(nseq[n])].block = ninfo[n].block]
    /\ Goto(n, "seq")
    /\ UNCHANGED <<shm, next_seq, seqs, nseq, ninfo, cursor, linfo, stopVars, histVars>>

\* Mutant: Notify does not publish the number.
StoreSeqForgets(n) ==
    /\ At(n, "seq")
    /\ Goto(n, "idle")
    /\ UNCHANGED <<ringVars, nseq, ninfo, cursor, linfo, stopVars, histVars>>

StoreSeq(n) ==
    /\ At(n, "seq")
    /\ seqs' = [seqs EXCEPT ![SlotOf(nseq[n])] = nseq[n]]
    /\ Goto(n, "idle")
    /\ UNCHANGED <<shm, next_seq, infos, nseq, ninfo, cursor, linfo, stopVars, histVars>>

-----------------------------------------------------------------------------
(* Listen, called again and again by the dispatcher thread *)

TestShutdown(l) ==
    /\ pc[l] = "idle" /\ l \notin dead
    /\ Goto(l, IF l \in shutdown THEN "left" ELSE "poll")
    /\ UNCHANGED <<ringVars, nseq, ninfo, cursor, linfo, stopVars, histVars>>

Poll(l) ==
    /\ At(l, "poll")
    /\ Goto(l, IF next_seq # cursor[l] THEN "check" ELSE "idle")
    /\ UNCHANGED <<ringVars, nseq, ninfo, cursor, linfo, stopVars, histVars>>

ActualSeq(l) == seqs[SlotOf(cursor[l])]

\* Mutant: reads the slot as soon as next_seq has moved, without a look at
\* the number in it.
CheckReadyAlways(l) ==
    /\ At(l, "check")
    /\ Goto(l, "getchannel")
    /\ UNCHANGED <<ringVars, nseq, ninfo, cursor, linfo, stopVars, histVars>>

\* The slot holds the number that is due, or a later one: jump to it.
CheckReady(l) ==
    /\ At(l, "check")
    /\ ActualSeq(l) >= cursor[l]
    /\ cursor' = [cursor EXCEPT ![l] = ActualSeq(l)]
    /\ Goto(l, "getchannel")
    /\ UNCHANGED <<ringVars, nseq, ninfo, linfo, stopVars, histVars>>

CheckNotReady(l) ==
    /\ At(l, "check")
    /\ ActualSeq(l) < cursor[l]
    /\ Goto(l, "idle")
    /\ UNCHANGED <<ringVars, nseq, ninfo, cursor, linfo, stopVars, histVars>>

\* The slot was located before the jump, so both numbers name the same one.
LoadChannel(l) ==
    /\ At(l, "getchannel")
    /\ linfo' = [linfo EXCEPT ![l].channel = infos[SlotOf(cursor[l])].channel]
    /\ Goto(l, "getblock")
    /\ UNCHANGED <<ringVars, nseq, ninfo, cursor, stopVars, histVars>>

\* Mutant: next_seq_ is not advanced.
LoadBlockStays(l) ==
    /\ At(l, "getblock")
    /\ linfo' = [linfo EXCEPT ![l].block = infos[SlotOf(cursor[l])].block]
    /\ delivered' = [delivered EXCEPT ![l] =
                        Append(@, [seq |-> cursor[l], info |-> linfo'[l]])]
    /\ Goto(l, "idle")
    /\ UNCHANGED <<ringVars, nseq, ninfo, cursor, stopVars, sent, joined, overrun, raced>>

\* The last load, and Listen returns true.
LoadBlock(l) ==
    /\ At(l, "getblock")
    /\ linfo' = [linfo EXCEPT ![l].block = infos[SlotOf(cursor[l])].block]
    /\ cursor' = [cursor EXCEPT ![l] = cursor[l] + 1]
    /\ delivered' = [delivered EXCEPT ![l] =
                        Append(@, [seq |-> cursor[l], info |-> linfo'[l]])]
    /\ Goto(l, "idle")
    /\ UNCHANGED <<ringVars, nseq, ninfo, stopVars, sent, joined, overrun, raced>>

-----------------------------------------------------------------------------
(* Shutdown and crashes *)

Stopped == shutdown \cup dead

Shutdown(p) ==
    /\ p \notin Stopped /\ pc[p] \notin {"closed", "construct", "load"}
    /\ Cardinality(Stopped) < MaxStops
    /\ shutdown' = shutdown \cup {p}
    /\ UNCHANGED <<ringVars, pc, nseq, ninfo, cursor, linfo, detached, dead, histVars>>

\* Reset, after a sleep that does not wait for anybody.
Detach(p) ==
    /\ p \in shutdown \ (detached \cup dead)
    /\ detached' = detached \cup {p}
    /\ UNCHANGED <<ringVars, pc, nseq, ninfo, cursor, linfo, shutdown, dead, histVars>>

Fault(p) ==
    /\ p \in detached \ dead
    /\ pc[p] \notin {"idle", "left", "fault"}
    /\ Goto(p, "fault")
    /\ UNCHANGED <<ringVars, nseq, ninfo, cursor, linfo, stopVars, histVars>>

Die(p) ==
    /\ p \notin Stopped /\ pc[p] # "closed"
    /\ Cardinality(Stopped) < MaxStops
    /\ dead' = dead \cup {p}
    /\ UNCHANGED <<ringVars, pc, nseq, ninfo, cursor, linfo, shutdown, detached, histVars>>

-----------------------------------------------------------------------------
Open(p) == Create(p) \/ OpenOnly(p) \/ Construct(p) \/ LoadNextSeq(p)

NotifyStep(n) ==
    DrawSeq(n) \/ StoreChannel(n) \/ StoreBlock(n) \/ StoreSeq(n) \/ NotifyRefused(n)

ListenStep(l) ==
    \/ TestShutdown(l) \/ Poll(l) \/ CheckReady(l) \/ CheckNotReady(l)
    \/ LoadChannel(l) \/ LoadBlock(l)

Next ==
    \/ \E p \in Process : Open(p) \/ Shutdown(p) \/ Detach(p) \/ Fault(p) \/ Die(p)
    \/ \E n \in Notifiers : (\E info \in ReadableInfo : BeginNotify(n, info)) \/ NotifyStep(n)
    \/ \E l \in Listeners : ListenStep(l)

Spec == Init /\ [][Next]_vars

\* A process that has started its constructor or a Notify goes on; the
\* dispatcher thread listens in a loop.
FairSpec ==
    /\ Spec
    /\ \A p \in Process : WF_vars(Open(p))
    /\ \A n \in Notifiers : WF_vars(NotifyStep(n))
    /\ \A l \in Listeners : WF_vars(ListenStep(l))

-----------------------------------------------------------------------------
(* Properties *)

TypeOK ==
    /\ shm \in {"absent", "created", "constructed"}
    /\ next_seq \in 0 .. MaxSeq
    /\ infos \in [Slot -> [channel : Channel \cup {NoChannel}, block : BlockIndex]]
    /\ seqs \in [Slot -> 0 .. MaxSeq]
    /\ pc \in [Process -> {"closed", "construct", "load", "idle", "draw", "channel", "block",
                           "seq", "poll", "check", "getchannel", "getblock", "left", "fault"}]
    /\ nseq \in [Notifiers -> 0 .. MaxSeq]
    /\ ninfo \in [Notifiers -> ReadableInfo \cup {NoInfo}]
    /\ cursor \in [Listeners -> 0 .. MaxSeq]
    /\ linfo \in [Listeners -> [channel : Channel \cup {NoChannel}, block : BlockIndex]]
    /\ shutdown \subseteq Process /\ detached \subseteq shutdown /\ dead \subseteq Process

Undisturbed == ~overrun /\ ~raced

\* The info announced with number k.
SentInfo(k) == sent[k - StartSeq + 1]

\* As long as no slot is reused under a process that still needs it, every
\* listener receives every announcement made since it joined, exactly once,
\* in order and whole, although the stores and loads are not synchronised.
\* Number 0 is the exception: in a fresh ring its slot looks written already,
\* because seqs is zero, and Listen may return before Notify has stored it.
ExactlyOnceInOrder ==
    Undisturbed =>
        \A l \in Listeners : \A i \in DOMAIN delivered[l] :
            LET d == delivered[l][i]
            IN  /\ d.seq = joined[l] + i - 1
                /\ d.seq > 0 => d.info = SentInfo(d.seq)

\* Even when the ring is overrun, a listener never goes back: no announcement
\* number is delivered twice or after a later one.
NeverBackwards ==
    [][\A l \in Listeners :
          delivered'[l] # delivered[l] /\ delivered[l] # <<>>
              => delivered'[l][Len(delivered'[l])].seq > delivered[l][Len(delivered[l])].seq]_vars

\* A notifier that died, or detached the ring, before it had stored number k
\* or an earlier one: listeners wait for it until the ring laps.
Abandoned(k) ==
    \E n \in Notifiers : /\ n \in dead \cup detached
                         /\ pc[n] \in {"channel", "block", "seq", "fault"} /\ nseq[n] <= k

\* Every announcement reaches every listener that was listening when it was
\* made and keeps listening, unless the ring is overrun before the listener
\* gets there, or a notifier leaves a number unwritten.
EveryListenerCatchesUp ==
    \A l \in Listeners : \A k \in StartSeq .. MaxSeq - 1 :
        (pc[l] \notin {"closed", "construct", "load"} /\ cursor[l] <= k /\ k < next_seq)
            ~> (cursor[l] > k \/ ~Undisturbed \/ l \in Stopped \/ Abandoned(k))
=============================================================================
