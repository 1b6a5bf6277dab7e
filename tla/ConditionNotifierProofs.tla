---------------------- MODULE ConditionNotifierProofs -----------------------
(***************************************************************************)
(* Proofs about ConditionNotifier, for any number of notifiers, listeners, *)
(* numbers and slots.  The numbers from next_seq - BufLength on are those  *)
(* whose slots may be in use.  As long as the ring is not overrun, every   *)
(* notifier that is writing and every listener stays in this window; two   *)
(* numbers of the window have different slots, so that a slot belongs to   *)
(* the notifier that has drawn its number until seqs says otherwise, and   *)
(* from then on to the listeners that wait for it.                         *)
(***************************************************************************)
EXTENDS ConditionNotifier, SequenceTheorems, TLAPS

Info == [channel : Channel \cup {NoChannel}, block : BlockIndex]
Delivery == [seq : 0 .. MaxSeq, info : Info]
Opening == {"closed", "construct", "load"}
Writing == {"channel", "block", "seq"}
Due == {"check", "getchannel", "getblock"}
Active(l) == pc[l] \notin Opening \cup {"left", "fault"}

Histories ==
    /\ sent \in Seq(Info) /\ Len(sent) = next_seq - StartSeq
    /\ joined \in [Listeners -> 0 .. MaxSeq]
    /\ delivered \in [Listeners -> Seq(Delivery)]
    /\ overrun \in BOOLEAN /\ raced \in BOOLEAN

\* Only the first run builds the Indicator.
Creation ==
    /\ shm = "absent" => StartSeq = 0
    /\ \A p \in Process : pc[p] = "construct" => StartSeq = 0

Types == TypeOK /\ Histories /\ Creation

\* A number that is stored, written or read has been drawn, also when the ring
\* is overrun or built twice.
Bounds ==
    /\ \A i \in Slot : seqs[i] = 0 \/ seqs[i] < MaxSeq
    /\ \A n \in Notifiers : pc[n] \in Writing => nseq[n] < MaxSeq
    /\ \A l \in Listeners :
          /\ pc[l] = "check" => MaxSeq > 0
          /\ pc[l] \in {"getchannel", "getblock"} => cursor[l] < MaxSeq

\* A listener is beyond what it has been given, always.
Forward ==
    \A l \in Listeners :
        /\ pc[l] \in Opening => delivered[l] = <<>>
        /\ delivered[l] # <<>> => delivered[l][Len(delivered[l])].seq < cursor[l]

\* What is in a slot.  Numbers below StartSeq are of other processes, and 0 is
\* in the slots that nobody has written.
Slots ==
    \A i \in Slot :
        /\ seqs[i] = 0 \/ seqs[i] < next_seq
        /\ seqs[i] >= StartSeq /\ seqs[i] > 0 =>
              /\ SlotOf(seqs[i]) = i
              /\ seqs[i] >= next_seq - BufLength => infos[i] = SentInfo(seqs[i])

\* A notifier that writes, alone in its slot.
Writers ==
    \A n \in Notifiers : pc[n] \in Writing =>
        /\ nseq[n] >= StartSeq /\ nseq[n] < next_seq /\ nseq[n] >= next_seq - BufLength
        /\ SentInfo(nseq[n]) = ninfo[n]
        /\ \A m \in Notifiers \ {n} : pc[m] \in Writing => nseq[m] # nseq[n]
        /\ nseq[n] > 0 => seqs[SlotOf(nseq[n])] # nseq[n]
        /\ pc[n] # "channel" => infos[SlotOf(nseq[n])].channel = ninfo[n].channel
        /\ pc[n] = "seq" => infos[SlotOf(nseq[n])].block = ninfo[n].block

\* A listener that waits for a number or reads it.
Waiting ==
    \A l \in Listeners : Active(l) =>
        /\ joined[l] >= StartSeq /\ cursor[l] = joined[l] + Len(delivered[l])
        /\ cursor[l] <= next_seq /\ cursor[l] >= next_seq - BufLength
        /\ pc[l] \in Due => cursor[l] < next_seq
        /\ pc[l] \in {"getchannel", "getblock"} /\ cursor[l] > 0 =>
              seqs[SlotOf(cursor[l])] = cursor[l]
        /\ pc[l] = "getblock" /\ cursor[l] > 0 =>
              linfo[l].channel = SentInfo(cursor[l]).channel

Delivered ==
    \A l \in Listeners : \A i \in DOMAIN delivered[l] :
        LET d == delivered[l][i]
        IN  /\ d.seq = joined[l] + i - 1 /\ d.seq >= StartSeq /\ d.seq < next_seq
            /\ d.seq > 0 => d.info = SentInfo(d.seq)

IInv ==
    /\ Types /\ Bounds /\ Forward
    /\ Undisturbed => Slots /\ Writers /\ Waiting /\ Delivered

-----------------------------------------------------------------------------
(* Slots *)

LEMMA Division ==
    ASSUME NEW N \in Nat \ {0}, NEW a \in Nat
    PROVE  /\ a % N \in 0 .. N - 1
           /\ a \div N \in Nat
           /\ a = N * (a \div N) + (a % N)
BY SMT

LEMMA Multiples ==
    ASSUME NEW N \in Nat \ {0}, NEW x \in Int, NEW y \in Int, x < y
    PROVE  N * y - N * x >= N
<1>1. N * y - N * x = N * (y - x)
  BY SMT
<1>2. y - x >= 1
  BY SMT
<1>3. N * (y - x) >= N
  BY <1>2, SMT
<1>. QED  BY <1>1, <1>3, SMT

\* Two numbers less than N apart are in different slots of a ring of N.
LEMMA Modulo ==
    ASSUME NEW N \in Nat \ {0}, NEW a \in Nat, NEW b \in Nat, a < b
    PROVE  /\ b - a < N => a % N # b % N
           /\ b - a = N => a % N = b % N
<1>. DEFINE x == a \div N
            y == b \div N
            X == N * x
            Y == N * y
            r == a % N
            s == b % N
<1>1. /\ x \in Nat /\ a = X + r /\ r \in 0 .. N - 1
      /\ y \in Nat /\ b = Y + s /\ s \in 0 .. N - 1
  BY Division
<1>2. X \in Nat /\ Y \in Nat
  BY <1>1, SMT
<1>3. x < y => Y - X >= N
  BY <1>1, Multiples
<1>4. y < x => X - Y >= N
  BY <1>1, Multiples
<1>5. x = y => X = Y
  OBVIOUS
<1>6. x + 1 < y => Y - X >= 2 * N
  <2>1. x + 1 < y => Y - N * (x + 1) >= N
    BY <1>1, Multiples
  <2>2. N * (x + 1) = X + N
    BY <1>1, SMT
  <2>. HIDE DEF X, Y
  <2>. QED  BY <1>2, <2>1, <2>2, SMT
<1>7. y = x + 1 => Y = X + N
  <2>1. N * (x + 1) = N * x + N
    BY <1>1, SMT
  <2>. QED  BY <2>1
<1>. HIDE DEF x, y, X, Y, r, s
<1>8. b - a < N => r # s
  BY <1>1, <1>2, <1>3, <1>4, <1>5, SMT
<1>9. b - a = N => r = s
  <2>1. x = y \/ y < x \/ y = x + 1 \/ x + 1 < y
    BY <1>1, SMT
  <2>. QED  BY <1>1, <1>2, <1>4, <1>5, <1>6, <1>7, <2>1, SMT
<1>. QED  BY <1>8, <1>9 DEF r, s

LEMMA SlotIsSlot ==
    ASSUME NEW k \in Nat
    PROVE  SlotOf(k) \in Slot
BY Division, RingAssumption DEF SlotOf, Slot

LEMMA SlotsDiffer ==
    ASSUME NEW a \in Nat, NEW b \in Nat, a # b, a - b < BufLength, b - a < BufLength
    PROVE  SlotOf(a) # SlotOf(b)
<1>1. BufLength \in Nat \ {0}
  BY RingAssumption
<1>2. CASE a < b
  BY <1>1, <1>2, Modulo DEF SlotOf
<1>3. CASE b < a
  BY <1>1, <1>3, Modulo DEF SlotOf
<1>. QED  BY <1>2, <1>3, SMT

\* Numbers that were drawn before the start are below StartSeq.
LEMMA LastSeqBound ==
    ASSUME NEW i \in Slot
    PROVE  LastSeq(i) \in Nat /\ (LastSeq(i) = 0 \/ LastSeq(i) < StartSeq)
<1>1. BufLength \in Nat \ {0} /\ StartSeq \in Nat /\ i \in Nat
  BY RingAssumption DEF Slot
<1>2. CASE i < StartSeq
  <2>. DEFINE k == StartSeq - 1 - i
              m == BufLength * (k \div BufLength)
  <2>1. k \in Nat
    BY <1>1, <1>2, SMT
  <2>2. k \div BufLength \in Nat /\ k = m + (k % BufLength) /\ k % BufLength \in 0 .. BufLength - 1
    BY <1>1, <2>1, Division
  <2>3. m \in Nat
    BY <1>1, <2>2, SMT
  <2>4. LastSeq(i) = i + m
    BY <1>2 DEF LastSeq
  <2>. HIDE DEF m
  <2>. QED  BY <1>1, <2>1, <2>2, <2>3, <2>4, SMT
<1>3. CASE ~(i < StartSeq)
  BY <1>3, SMT DEF LastSeq
<1>. QED  BY <1>2, <1>3

LEMMA NoInfoType == NoInfo \in Info
BY RingAssumption DEF NoInfo, Info

LEMMA ChannelUpdate ==
    ASSUME NEW D, NEW f \in [D -> Info], NEW i \in D, NEW c \in Channel \cup {NoChannel}
    PROVE  LET g == [f EXCEPT ![i].channel = c]
           IN  /\ g \in [D -> Info] /\ g[i].channel = c /\ g[i].block = f[i].block
               /\ \A j \in D \ {i} : g[j] = f[j]
BY DEF Info

LEMMA BlockUpdate ==
    ASSUME NEW D, NEW f \in [D -> Info], NEW i \in D, NEW b \in BlockIndex
    PROVE  LET g == [f EXCEPT ![i].block = b]
           IN  /\ g \in [D -> Info] /\ g[i].block = b /\ g[i].channel = f[i].channel
               /\ \A j \in D \ {i} : g[j] = f[j]
BY DEF Info

-----------------------------------------------------------------------------
(* Types and bounds *)

LEMMA InitTypes == Init => Types /\ Bounds
<1>. SUFFICES ASSUME Init
     PROVE  Types /\ Bounds
  OBVIOUS
<1>1. NoInfo \in Info /\ NoInfo \in ReadableInfo \cup {NoInfo}
  BY NoInfoType
<1>2. \A i \in Slot : seqs[i] \in 0 .. MaxSeq /\ (seqs[i] = 0 \/ seqs[i] < MaxSeq)
  BY LastSeqBound, RingAssumption DEF Init
<1>3. TypeOK
  <2>1. seqs \in [Slot -> 0 .. MaxSeq]
    BY <1>2 DEF Init
  <2>. QED  BY <1>1, <2>1, RingAssumption DEF Init, TypeOK, Process, Info
<1>4. Histories
  <2>1. sent \in Seq(Info) /\ Len(sent) = 0
    BY EmptySeq DEF Init
  <2>2. delivered \in [Listeners -> Seq(Delivery)]
    BY EmptySeq, Zenon DEF Init
  <2>3. next_seq = StartSeq /\ StartSeq \in Nat /\ 0 \in 0 .. MaxSeq
    BY RingAssumption DEF Init
  <2>4. joined \in [Listeners -> 0 .. MaxSeq] /\ overrun = FALSE /\ raced = FALSE
    BY <2>3 DEF Init
  <2>5. Len(sent) = next_seq - StartSeq
    BY <2>1, <2>3
  <2>. QED  BY <2>1, <2>2, <2>4, <2>5 DEF Histories
<1>5. Creation
  BY RingAssumption DEF Init, Creation
<1>6. Bounds
  BY <1>2 DEF Bounds, Init, Process, Writing
<1>. QED  BY <1>3, <1>4, <1>5, <1>6 DEF Types

LEMMA TypesStep ==
    ASSUME TypeOK, Histories, Creation, Bounds, [Next]_vars
    PROVE  TypeOK' /\ Histories' /\ Creation' /\ Bounds'
<1>1. ASSUME NEW p \in Process, Create(p)
     PROVE  TypeOK' /\ Histories' /\ Creation' /\ Bounds'
  <2>1. TypeOK'
    BY <1>1 DEF Create, TypeOK, Process, At, Goto, ringVars, stopVars, histVars
  <2>2. Histories' /\ Creation'
    BY <1>1 DEF Create, Histories, Creation, TypeOK, Process, At, Goto, ringVars, stopVars, histVars
  <2>3. Bounds'
    BY <1>1, RingAssumption DEF Create, Bounds, Histories, TypeOK, Process, Writing, At, Goto,
       ringVars, stopVars, histVars
  <2>. QED  BY <2>1, <2>2, <2>3
<1>2. ASSUME NEW p \in Process, OpenOnly(p)
     PROVE  TypeOK' /\ Histories' /\ Creation' /\ Bounds'
  <2>1. TypeOK'
    BY <1>2 DEF OpenOnly, TypeOK, Process, At, Goto, ringVars, stopVars, histVars
  <2>2. Histories' /\ Creation'
    BY <1>2 DEF OpenOnly, Histories, Creation, TypeOK, Process, At, Goto, ringVars, stopVars,
       histVars
  <2>3. Bounds'
    BY <1>2, RingAssumption DEF OpenOnly, Bounds, Histories, TypeOK, Process, Writing, At, Goto,
       ringVars, stopVars, histVars
  <2>. QED  BY <2>1, <2>2, <2>3
<1>3. ASSUME NEW p \in Process, Construct(p)
     PROVE  TypeOK' /\ Histories' /\ Creation' /\ Bounds'
  <2>1. TypeOK'
    BY <1>3, NoInfoType, RingAssumption DEF Construct, TypeOK, Info, Process, At, Goto, ringVars,
       stopVars, histVars
  <2>2. Histories' /\ Creation'
    <3>1. StartSeq = 0
      BY <1>3 DEF Construct, At, Creation
    <3>2. sent' \in Seq(Info) /\ Len(sent') = 0
      BY <1>3, EmptySeq DEF Construct
    <3>. QED  BY <1>3, <3>1, <3>2 DEF Construct, Histories, Creation, TypeOK, Process, At, Goto, ringVars, stopVars, histVars
  <2>3. Bounds'
    BY <1>3, RingAssumption DEF Construct, Bounds, Histories, TypeOK, Process, Writing, At, Goto,
       ringVars, stopVars, histVars
  <2>. QED  BY <2>1, <2>2, <2>3
<1>4. ASSUME NEW p \in Process, LoadNextSeq(p)
     PROVE  TypeOK' /\ Histories' /\ Creation' /\ Bounds'
  <2>1. TypeOK'
    BY <1>4 DEF LoadNextSeq, TypeOK, Process, At, Goto, ringVars, stopVars, histVars
  <2>2. Histories' /\ Creation'
    BY <1>4 DEF LoadNextSeq, Histories, Creation, TypeOK, Process, At, Goto, ringVars, stopVars,
       histVars
  <2>3. Bounds'
    BY <1>4, RingAssumption DEF LoadNextSeq, Bounds, Histories, TypeOK, Process, Writing, At,
       Goto, ringVars, stopVars, histVars
  <2>. QED  BY <2>1, <2>2, <2>3
<1>5. ASSUME NEW p \in Process, Shutdown(p)
     PROVE  TypeOK' /\ Histories' /\ Creation' /\ Bounds'
  <2>1. TypeOK'
    BY <1>5 DEF Shutdown, TypeOK, Process, At, Goto, ringVars, stopVars, histVars
  <2>2. Histories' /\ Creation'
    BY <1>5 DEF Shutdown, Histories, Creation, TypeOK, Process, At, Goto, ringVars, stopVars,
       histVars
  <2>3. Bounds'
    BY <1>5, RingAssumption DEF Shutdown, Bounds, Histories, TypeOK, Process, Writing, At, Goto,
       ringVars, stopVars, histVars
  <2>. QED  BY <2>1, <2>2, <2>3
<1>6. ASSUME NEW p \in Process, Detach(p)
     PROVE  TypeOK' /\ Histories' /\ Creation' /\ Bounds'
  <2>1. TypeOK'
    BY <1>6 DEF Detach, TypeOK, Process, At, Goto, ringVars, stopVars, histVars
  <2>2. Histories' /\ Creation'
    BY <1>6 DEF Detach, Histories, Creation, TypeOK, Process, At, Goto, ringVars, stopVars, histVars
  <2>3. Bounds'
    BY <1>6, RingAssumption DEF Detach, Bounds, Histories, TypeOK, Process, Writing, At, Goto,
       ringVars, stopVars, histVars
  <2>. QED  BY <2>1, <2>2, <2>3
<1>7. ASSUME NEW p \in Process, Fault(p)
     PROVE  TypeOK' /\ Histories' /\ Creation' /\ Bounds'
  <2>1. TypeOK'
    BY <1>7 DEF Fault, TypeOK, Process, At, Goto, ringVars, stopVars, histVars
  <2>2. Histories' /\ Creation'
    BY <1>7 DEF Fault, Histories, Creation, TypeOK, Process, At, Goto, ringVars, stopVars, histVars
  <2>3. Bounds'
    BY <1>7, RingAssumption DEF Fault, Bounds, Histories, TypeOK, Process, Writing, At, Goto,
       ringVars, stopVars, histVars
  <2>. QED  BY <2>1, <2>2, <2>3
<1>8. ASSUME NEW p \in Process, Die(p)
     PROVE  TypeOK' /\ Histories' /\ Creation' /\ Bounds'
  <2>1. TypeOK'
    BY <1>8 DEF Die, TypeOK, Process, At, Goto, ringVars, stopVars, histVars
  <2>2. Histories' /\ Creation'
    BY <1>8 DEF Die, Histories, Creation, TypeOK, Process, At, Goto, ringVars, stopVars, histVars
  <2>3. Bounds'
    BY <1>8, RingAssumption DEF Die, Bounds, Histories, TypeOK, Process, Writing, At, Goto,
       ringVars, stopVars, histVars
  <2>. QED  BY <2>1, <2>2, <2>3
<1>9. ASSUME NEW n \in Notifiers, DrawSeq(n)
     PROVE  TypeOK' /\ Histories' /\ Creation' /\ Bounds'
  <2>1. TypeOK'
    <3>1. next_seq + 1 \in 0 .. MaxSeq
      BY <1>9, RingAssumption DEF DrawSeq, TypeOK
    <3>. QED  BY <1>9, <3>1 DEF DrawSeq, TypeOK, Process, At, Goto, ringVars, stopVars, histVars
  <2>2. Histories' /\ Creation'
    <3>1. ninfo[n] \in Info
      BY NoInfoType, RingAssumption DEF TypeOK, Info, ReadableInfo
    <3>2. sent' \in Seq(Info) /\ Len(sent') = Len(sent) + 1
      BY <1>9, <3>1, AppendProperties DEF DrawSeq, Histories
    <3>. QED  BY <1>9, <3>2, RingAssumption DEF DrawSeq, Histories, Creation, TypeOK, Process, At, Goto, ringVars, stopVars, histVars
  <2>3. Bounds'
    BY <1>9, RingAssumption DEF DrawSeq, Bounds, Histories, TypeOK, Process, Writing, At, Goto,
       ringVars, stopVars, histVars
  <2>. QED  BY <2>1, <2>2, <2>3
<1>10. ASSUME NEW n \in Notifiers, StoreChannel(n)
     PROVE  TypeOK' /\ Histories' /\ Creation' /\ Bounds'
  <2>1. TypeOK'
    <3>1. SlotOf(nseq[n]) \in Slot
      BY SlotIsSlot, RingAssumption DEF TypeOK
    <3>2. ninfo[n].channel \in Channel \cup {NoChannel}
      BY NoInfoType, RingAssumption DEF TypeOK, Info, ReadableInfo
    <3>3. infos' \in [Slot -> Info]
      BY <1>10, <3>1, <3>2, ChannelUpdate DEF StoreChannel, TypeOK, Info
    <3>. QED  BY <1>10, <3>3 DEF StoreChannel, TypeOK, Info, Process, At, Goto, ringVars, stopVars, histVars
  <2>2. Histories' /\ Creation'
    BY <1>10 DEF StoreChannel, Histories, Creation, TypeOK, Process, At, Goto, ringVars,
       stopVars, histVars
  <2>3. Bounds'
    BY <1>10, RingAssumption DEF StoreChannel, Bounds, Histories, TypeOK, Process, Writing, At,
       Goto, ringVars, stopVars, histVars
  <2>. QED  BY <2>1, <2>2, <2>3
<1>11. ASSUME NEW n \in Notifiers, StoreBlock(n)
     PROVE  TypeOK' /\ Histories' /\ Creation' /\ Bounds'
  <2>1. TypeOK'
    <3>1. SlotOf(nseq[n]) \in Slot
      BY SlotIsSlot, RingAssumption DEF TypeOK
    <3>2. ninfo[n].block \in BlockIndex
      BY NoInfoType, RingAssumption DEF TypeOK, Info, ReadableInfo
    <3>3. infos' \in [Slot -> Info]
      BY <1>11, <3>1, <3>2, BlockUpdate DEF StoreBlock, TypeOK, Info
    <3>. QED  BY <1>11, <3>3 DEF StoreBlock, TypeOK, Info, Process, At, Goto, ringVars, stopVars, histVars
  <2>2. Histories' /\ Creation'
    BY <1>11 DEF StoreBlock, Histories, Creation, TypeOK, Process, At, Goto, ringVars, stopVars,
       histVars
  <2>3. Bounds'
    BY <1>11, RingAssumption DEF StoreBlock, Bounds, Histories, TypeOK, Process, Writing, At,
       Goto, ringVars, stopVars, histVars
  <2>. QED  BY <2>1, <2>2, <2>3
<1>12. ASSUME NEW n \in Notifiers, StoreSeq(n)
     PROVE  TypeOK' /\ Histories' /\ Creation' /\ Bounds'
  <2>1. TypeOK'
    BY <1>12 DEF StoreSeq, TypeOK, Process, At, Goto, ringVars, stopVars, histVars
  <2>2. Histories' /\ Creation'
    BY <1>12 DEF StoreSeq, Histories, Creation, TypeOK, Process, At, Goto, ringVars, stopVars,
       histVars
  <2>3. Bounds'
    BY <1>12, RingAssumption DEF StoreSeq, Bounds, Histories, TypeOK, Process, Writing, At, Goto,
       ringVars, stopVars, histVars
  <2>. QED  BY <2>1, <2>2, <2>3
<1>13. ASSUME NEW n \in Notifiers, NotifyRefused(n)
     PROVE  TypeOK' /\ Histories' /\ Creation' /\ Bounds'
  <2>1. TypeOK'
    BY <1>13 DEF NotifyRefused, TypeOK, Process, At, Goto, ringVars, stopVars, histVars
  <2>2. Histories' /\ Creation'
    BY <1>13 DEF NotifyRefused, Histories, Creation, TypeOK, Process, At, Goto, ringVars,
       stopVars, histVars
  <2>3. Bounds'
    BY <1>13, RingAssumption DEF NotifyRefused, Bounds, Histories, TypeOK, Process, Writing, At,
       Goto, ringVars, stopVars, histVars
  <2>. QED  BY <2>1, <2>2, <2>3
<1>14. ASSUME NEW l \in Listeners, TestShutdown(l)
     PROVE  TypeOK' /\ Histories' /\ Creation' /\ Bounds'
  <2>1. TypeOK'
    BY <1>14 DEF TestShutdown, TypeOK, Process, At, Goto, ringVars, stopVars, histVars
  <2>2. Histories' /\ Creation'
    BY <1>14 DEF TestShutdown, Histories, Creation, TypeOK, Process, At, Goto, ringVars,
       stopVars, histVars
  <2>3. Bounds'
    BY <1>14, RingAssumption DEF TestShutdown, Bounds, Histories, TypeOK, Process, Writing, At,
       Goto, ringVars, stopVars, histVars
  <2>. QED  BY <2>1, <2>2, <2>3
<1>15. ASSUME NEW l \in Listeners, Poll(l)
     PROVE  TypeOK' /\ Histories' /\ Creation' /\ Bounds'
  <2>1. TypeOK'
    BY <1>15 DEF Poll, TypeOK, Process, At, Goto, ringVars, stopVars, histVars
  <2>2. Histories' /\ Creation'
    BY <1>15 DEF Poll, Histories, Creation, TypeOK, Process, At, Goto, ringVars, stopVars, histVars
  <2>3. Bounds'
    BY <1>15, RingAssumption DEF Poll, Bounds, Histories, TypeOK, Process, Writing, At, Goto,
       ringVars, stopVars, histVars
  <2>. QED  BY <2>1, <2>2, <2>3
<1>16. ASSUME NEW l \in Listeners, CheckReady(l)
     PROVE  TypeOK' /\ Histories' /\ Creation' /\ Bounds'
  <2>0. ActualSeq(l) \in 0 .. MaxSeq /\ (MaxSeq > 0 => ActualSeq(l) < MaxSeq)
    <3>1. SlotOf(cursor[l]) \in Slot
      BY SlotIsSlot, RingAssumption DEF TypeOK
    <3>. QED  BY <3>1, RingAssumption DEF ActualSeq, TypeOK, Bounds
  <2>1. TypeOK'
    BY <1>16, <2>0 DEF CheckReady, TypeOK, Process, At, Goto, ringVars, stopVars, histVars
  <2>2. Histories' /\ Creation'
    BY <1>16 DEF CheckReady, Histories, Creation, TypeOK, Process, At, Goto, ringVars, stopVars,
       histVars
  <2>3. Bounds'
    BY <1>16, <2>0 DEF CheckReady, Bounds, TypeOK, Process, Writing, At, Goto, ringVars,
       stopVars, histVars
  <2>. QED  BY <2>1, <2>2, <2>3
<1>17. ASSUME NEW l \in Listeners, CheckNotReady(l)
     PROVE  TypeOK' /\ Histories' /\ Creation' /\ Bounds'
  <2>1. TypeOK'
    BY <1>17 DEF CheckNotReady, TypeOK, Process, At, Goto, ringVars, stopVars, histVars
  <2>2. Histories' /\ Creation'
    BY <1>17 DEF CheckNotReady, Histories, Creation, TypeOK, Process, At, Goto, ringVars,
       stopVars, histVars
  <2>3. Bounds'
    BY <1>17, RingAssumption DEF CheckNotReady, Bounds, Histories, TypeOK, Process, Writing, At,
       Goto, ringVars, stopVars, histVars
  <2>. QED  BY <2>1, <2>2, <2>3
<1>18. ASSUME NEW l \in Listeners, LoadChannel(l)
     PROVE  TypeOK' /\ Histories' /\ Creation' /\ Bounds'
  <2>1. TypeOK'
    <3>1. SlotOf(cursor[l]) \in Slot
      BY SlotIsSlot, RingAssumption DEF TypeOK
    <3>2. infos[SlotOf(cursor[l])].channel \in Channel \cup {NoChannel}
      BY <3>1 DEF TypeOK
    <3>3. linfo' \in [Listeners -> Info]
      BY <1>18, <3>2, ChannelUpdate DEF LoadChannel, TypeOK, Info
    <3>. QED  BY <1>18, <3>3 DEF LoadChannel, TypeOK, Info, Process, At, Goto, ringVars, stopVars, histVars
  <2>2. Histories' /\ Creation'
    BY <1>18 DEF LoadChannel, Histories, Creation, TypeOK, Process, At, Goto, ringVars, stopVars,
       histVars
  <2>3. Bounds'
    BY <1>18, RingAssumption DEF LoadChannel, Bounds, Histories, TypeOK, Process, Writing, At,
       Goto, ringVars, stopVars, histVars
  <2>. QED  BY <2>1, <2>2, <2>3
<1>19. ASSUME NEW l \in Listeners, LoadBlock(l)
     PROVE  TypeOK' /\ Histories' /\ Creation' /\ Bounds'
  <2>0. cursor[l] + 1 \in 0 .. MaxSeq
    BY <1>19, RingAssumption DEF LoadBlock, At, Bounds, TypeOK
  <2>4. linfo' \in [Listeners -> Info]
    <3>1. SlotOf(cursor[l]) \in Slot
      BY SlotIsSlot, RingAssumption DEF TypeOK
    <3>2. infos[SlotOf(cursor[l])].block \in BlockIndex
      BY <3>1 DEF TypeOK
    <3>. QED  BY <1>19, <3>2, BlockUpdate DEF LoadBlock, TypeOK, Info
  <2>1. TypeOK'
    BY <1>19, <2>0, <2>4 DEF LoadBlock, TypeOK, Info, Process, At, Goto, ringVars, stopVars,
       histVars
  <2>2. Histories' /\ Creation'
    <3>. DEFINE d == [seq |-> cursor[l], info |-> linfo'[l]]
    <3>1. d \in Delivery
      BY <2>4 DEF TypeOK, Delivery
    <3>2. Append(delivered[l], d) \in Seq(Delivery)
      BY <3>1, AppendProperties DEF Histories
    <3>3. delivered' = [delivered EXCEPT ![l] = Append(delivered[l], d)]
      BY <1>19 DEF LoadBlock
    <3>. HIDE DEF d
    <3>4. delivered' \in [Listeners -> Seq(Delivery)]
      BY <3>2, <3>3 DEF Histories
    <3>. QED  BY <1>19, <3>4 DEF LoadBlock, Histories, Creation, Process, At, Goto, ringVars, stopVars, histVars
  <2>3. Bounds'
    BY <1>19, RingAssumption DEF LoadBlock, Bounds, Histories, TypeOK, Process, Writing, At,
       Goto, ringVars, stopVars, histVars
  <2>. QED  BY <2>1, <2>2, <2>3
<1>20. ASSUME NEW n \in Notifiers, NEW info \in ReadableInfo, BeginNotify(n, info)
     PROVE  TypeOK' /\ Histories' /\ Creation' /\ Bounds'
  <2>1. TypeOK'
    BY <1>20 DEF BeginNotify, TypeOK, Process, At, Goto, ringVars, stopVars, histVars
  <2>2. Histories' /\ Creation'
    BY <1>20 DEF BeginNotify, Histories, Creation, TypeOK, Process, At, Goto, ringVars, stopVars,
       histVars
  <2>3. Bounds'
    BY <1>20, RingAssumption DEF BeginNotify, Bounds, Histories, TypeOK, Process, Writing, At,
       Goto, ringVars, stopVars, histVars
  <2>. QED  BY <2>1, <2>2, <2>3
<1>21. CASE UNCHANGED vars
  BY <1>21 DEF vars, TypeOK, Histories, Creation, Bounds, At, Goto, ringVars, stopVars, histVars
<1>. QED
  BY <1>1, <1>2, <1>3, <1>4, <1>5, <1>6, <1>7, <1>8, <1>9, <1>10, <1>11, <1>12, <1>13, <1>14,
     <1>15, <1>16, <1>17, <1>18, <1>19, <1>20, <1>21
  DEF Next, Open, NotifyStep, ListenStep

-----------------------------------------------------------------------------
(* Delivery goes forward, whatever happens to the ring *)

LEMMA InitForward == Init => Forward
BY DEF Init, Forward, Opening, Process

\* What Listen returns is appended, with the number of the listener's cursor.
LEMMA DeliveredStep ==
    ASSUME TypeOK, Histories, NEW l \in Listeners, LoadBlock(l)
    PROVE  /\ Len(delivered'[l]) = Len(delivered[l]) + 1 /\ delivered'[l] # <<>>
           /\ delivered'[l] \in Seq(Delivery) /\ Len(delivered[l]) \in Nat
           /\ delivered'[l][Len(delivered[l]) + 1] = [seq |-> cursor[l], info |-> linfo'[l]]
           /\ \A i \in 1 .. Len(delivered[l]) : delivered'[l][i] = delivered[l][i]
           /\ \A m \in Listeners \ {l} : delivered'[m] = delivered[m]
           /\ linfo' \in [Listeners -> Info]
<1>1. linfo' \in [Listeners -> Info]
  <2>1. SlotOf(cursor[l]) \in Slot
    BY SlotIsSlot, RingAssumption DEF TypeOK
  <2>2. infos[SlotOf(cursor[l])].block \in BlockIndex
    BY <2>1 DEF TypeOK
  <2>. QED  BY <2>2, BlockUpdate DEF LoadBlock, TypeOK, Info
<1>. DEFINE d == [seq |-> cursor[l], info |-> linfo'[l]]
<1>2. d \in Delivery
  BY <1>1 DEF TypeOK, Delivery
<1>3. delivered' = [delivered EXCEPT ![l] = Append(delivered[l], d)]
  BY DEF LoadBlock
<1>. HIDE DEF d
<1>4. delivered'[l] = Append(delivered[l], d) /\ delivered[l] \in Seq(Delivery)
  BY <1>3 DEF Histories
<1>5. \A m \in Listeners \ {l} : delivered'[m] = delivered[m]
  BY <1>3 DEF Histories
<1>6. Len(delivered[l]) \in Nat
  BY <1>4, LenProperties
<1>7. /\ delivered'[l] \in Seq(Delivery)
      /\ Len(delivered'[l]) = Len(delivered[l]) + 1
      /\ \A i \in 1 .. Len(delivered[l]) : delivered'[l][i] = delivered[l][i]
      /\ delivered'[l][Len(delivered[l]) + 1] = d
  BY <1>2, <1>4, AppendProperties
<1>8. delivered'[l] # <<>>
  BY <1>6, <1>7, EmptySeq, SMT
<1>. QED  BY <1>1, <1>5, <1>6, <1>7, <1>8 DEF d

LEMMA LastDelivered ==
    ASSUME Histories, NEW l \in Listeners, delivered[l] # <<>>
    PROVE  /\ Len(delivered[l]) \in 1 .. Len(delivered[l])
           /\ delivered[l][Len(delivered[l])] \in Delivery
           /\ delivered[l][Len(delivered[l])].seq \in Nat
<1>1. delivered[l] \in Seq(Delivery)
  BY DEF Histories
<1>2. Len(delivered[l]) \in Nat /\ Len(delivered[l]) # 0
  BY <1>1, LenProperties, EmptySeq
<1>3. delivered[l][Len(delivered[l])] \in Delivery
  BY <1>1, <1>2, ElementOfSeq
<1>. QED  BY <1>2, <1>3, RingAssumption DEF Delivery

LEMMA ForwardStep ==
    ASSUME TypeOK, Histories, Forward, [Next]_vars
    PROVE  Forward'
<1>1. ASSUME NEW p \in Process, Create(p)
     PROVE  Forward'
  BY <1>1 DEF Create, Forward, TypeOK, Opening, Process, At, Goto, ringVars, stopVars, histVars
<1>2. ASSUME NEW p \in Process, OpenOnly(p)
     PROVE  Forward'
  BY <1>2 DEF OpenOnly, Forward, TypeOK, Opening, Process, At, Goto, ringVars, stopVars, histVars
<1>3. ASSUME NEW p \in Process, Construct(p)
     PROVE  Forward'
  BY <1>3 DEF Construct, Forward, TypeOK, Opening, Process, At, Goto, ringVars, stopVars, histVars
<1>4. ASSUME NEW p \in Process, LoadNextSeq(p)
     PROVE  Forward'
  BY <1>4 DEF LoadNextSeq, Forward, TypeOK, Opening, Process, At, Goto, ringVars, stopVars, histVars
<1>5. ASSUME NEW p \in Process, Shutdown(p)
     PROVE  Forward'
  BY <1>5 DEF Shutdown, Forward, TypeOK, Opening, Process, At, Goto, ringVars, stopVars, histVars
<1>6. ASSUME NEW p \in Process, Detach(p)
     PROVE  Forward'
  BY <1>6 DEF Detach, Forward, TypeOK, Opening, Process, At, Goto, ringVars, stopVars, histVars
<1>7. ASSUME NEW p \in Process, Fault(p)
     PROVE  Forward'
  BY <1>7 DEF Fault, Forward, TypeOK, Opening, Process, At, Goto, ringVars, stopVars, histVars
<1>8. ASSUME NEW p \in Process, Die(p)
     PROVE  Forward'
  BY <1>8 DEF Die, Forward, TypeOK, Opening, Process, At, Goto, ringVars, stopVars, histVars
<1>9. ASSUME NEW n \in Notifiers, DrawSeq(n)
     PROVE  Forward'
  BY <1>9 DEF DrawSeq, Forward, TypeOK, Opening, Process, At, Goto, ringVars, stopVars, histVars
<1>10. ASSUME NEW n \in Notifiers, StoreChannel(n)
     PROVE  Forward'
  BY <1>10 DEF StoreChannel, Forward, TypeOK, Opening, Process, At, Goto, ringVars, stopVars,
     histVars
<1>11. ASSUME NEW n \in Notifiers, StoreBlock(n)
     PROVE  Forward'
  BY <1>11 DEF StoreBlock, Forward, TypeOK, Opening, Process, At, Goto, ringVars, stopVars, histVars
<1>12. ASSUME NEW n \in Notifiers, StoreSeq(n)
     PROVE  Forward'
  BY <1>12 DEF StoreSeq, Forward, TypeOK, Opening, Process, At, Goto, ringVars, stopVars, histVars
<1>13. ASSUME NEW n \in Notifiers, NotifyRefused(n)
     PROVE  Forward'
  BY <1>13 DEF NotifyRefused, Forward, TypeOK, Opening, Process, At, Goto, ringVars, stopVars,
     histVars
<1>14. ASSUME NEW l \in Listeners, TestShutdown(l)
     PROVE  Forward'
  BY <1>14 DEF TestShutdown, Forward, TypeOK, Opening, Process, At, Goto, ringVars, stopVars,
     histVars
<1>15. ASSUME NEW l \in Listeners, Poll(l)
     PROVE  Forward'
  BY <1>15 DEF Poll, Forward, TypeOK, Opening, Process, At, Goto, ringVars, stopVars, histVars
<1>16. ASSUME NEW l \in Listeners, CheckReady(l)
     PROVE  Forward'
  <2>1. SlotOf(cursor[l]) \in Slot
    BY SlotIsSlot, RingAssumption DEF TypeOK
  <2>2. ActualSeq(l) \in Nat /\ cursor[l] \in Nat /\ cursor'[l] = ActualSeq(l)
    BY <1>16, <2>1, RingAssumption DEF ActualSeq, TypeOK, CheckReady
  <2>3. delivered[l] # <<>> => delivered[l][Len(delivered[l])].seq \in Nat
    BY LastDelivered
  <2>4. ActualSeq(l) >= cursor[l]
    BY <1>16 DEF CheckReady
  <2>5. delivered[l] # <<>> => delivered[l][Len(delivered[l])].seq < cursor'[l]
    BY <2>2, <2>3, <2>4 DEF Forward
  <2>. QED  BY <1>16, <2>5 DEF CheckReady, Forward, TypeOK, Opening, Process, At, Goto, ringVars, stopVars, histVars
<1>17. ASSUME NEW l \in Listeners, CheckNotReady(l)
     PROVE  Forward'
  BY <1>17 DEF CheckNotReady, Forward, TypeOK, Opening, Process, At, Goto, ringVars, stopVars,
     histVars
<1>18. ASSUME NEW l \in Listeners, LoadChannel(l)
     PROVE  Forward'
  BY <1>18 DEF LoadChannel, Forward, TypeOK, Opening, Process, At, Goto, ringVars, stopVars,
     histVars
<1>19. ASSUME NEW l \in Listeners, LoadBlock(l)
     PROVE  Forward'
  <2>1. cursor[l] \in Nat /\ cursor' = [cursor EXCEPT ![l] = cursor[l] + 1]
    BY <1>19, RingAssumption DEF TypeOK, LoadBlock
  <2>2. delivered'[l][Len(delivered'[l])].seq = cursor[l]
    <3>1. /\ Len(delivered'[l]) = Len(delivered[l]) + 1
          /\ delivered'[l][Len(delivered[l]) + 1] = [seq |-> cursor[l], info |-> linfo'[l]]
      BY <1>19, DeliveredStep
    <3>. QED  BY <3>1
  <2>3. \A m \in Listeners \ {l} : delivered'[m] = delivered[m]
    BY <1>19, DeliveredStep
  <2>4. pc'[l] = "idle" /\ \A m \in Listeners \ {l} : pc'[m] = pc[m] /\ cursor'[m] = cursor[m]
    BY <1>19, <2>1 DEF LoadBlock, Goto, TypeOK, Process
  <2>5. cursor'[l] = cursor[l] + 1
    BY <2>1 DEF TypeOK
  <2>. HIDE DEF LoadBlock
  <2>. SUFFICES ASSUME NEW m \in Listeners
       PROVE  /\ pc'[m] \in Opening => delivered'[m] = <<>>
              /\ delivered'[m] # <<>> => delivered'[m][Len(delivered'[m])].seq < cursor'[m]
    BY DEF Forward
  <2>6. CASE m = l
    BY <2>1, <2>2, <2>4, <2>5, <2>6 DEF Opening
  <2>7. CASE m # l
    BY <2>3, <2>4, <2>7 DEF Forward
  <2>. QED  BY <2>6, <2>7
<1>20. ASSUME NEW n \in Notifiers, NEW info \in ReadableInfo, BeginNotify(n, info)
     PROVE  Forward'
  BY <1>20 DEF BeginNotify, Forward, TypeOK, Opening, Process, At, Goto, ringVars, stopVars,
     histVars
<1>21. CASE UNCHANGED vars
  BY <1>21 DEF vars, Forward, At, Goto, ringVars, stopVars, histVars
<1>. QED
  BY <1>1, <1>2, <1>3, <1>4, <1>5, <1>6, <1>7, <1>8, <1>9, <1>10, <1>11, <1>12, <1>13, <1>14,
     <1>15, <1>16, <1>17, <1>18, <1>19, <1>20, <1>21
  DEF Next, Open, NotifyStep, ListenStep

-----------------------------------------------------------------------------
(* A ring that is not disturbed *)

LEMMA InitUndisturbed == Init => Slots /\ Writers /\ Waiting /\ Delivered
<1>. SUFFICES ASSUME Init
     PROVE  Slots /\ Writers /\ Waiting /\ Delivered
  OBVIOUS
<1>1. Slots
  <2>. SUFFICES ASSUME NEW i \in Slot
       PROVE  (seqs[i] = 0 \/ seqs[i] < next_seq) /\ ~(seqs[i] >= StartSeq /\ seqs[i] > 0)
    BY DEF Slots
  <2>1. seqs[i] \in Nat /\ (seqs[i] = 0 \/ seqs[i] < StartSeq)
    BY LastSeqBound DEF Init
  <2>. QED  BY <2>1, RingAssumption DEF Init
<1>2. Writers /\ Waiting
  BY DEF Init, Writers, Waiting, Active, Writing, Opening, Process
<1>3. \A l \in Listeners : DOMAIN delivered[l] = {}
  BY EmptySeq, SMT DEF Init
<1>. QED  BY <1>1, <1>2, <1>3 DEF Delivered

\* Two numbers that may be in use have slots of their own.
LEMMA Window ==
    ASSUME TypeOK, NEW a \in Nat, NEW b \in Nat, SlotOf(a) = SlotOf(b),
           a < next_seq, a >= next_seq - BufLength, b < next_seq, b >= next_seq - BufLength
    PROVE  a = b
<1>1. next_seq \in Nat /\ BufLength \in Nat \ {0}
  BY RingAssumption DEF TypeOK
<1>2. a - b < BufLength /\ b - a < BufLength
  BY <1>1
<1>. QED  BY <1>2, SlotsDiffer

LEMMA WriterSlot ==
    ASSUME TypeOK, Writers, NEW n \in Notifiers, pc[n] \in Writing
    PROVE  /\ nseq[n] \in Nat /\ SlotOf(nseq[n]) \in Slot
           /\ nseq[n] < next_seq /\ nseq[n] >= next_seq - BufLength /\ nseq[n] >= StartSeq
           /\ \A m \in Notifiers \ {n} : pc[m] \in Writing => SlotOf(nseq[m]) # SlotOf(nseq[n])
           /\ \A k \in Nat :
                 (k < next_seq /\ k >= next_seq - BufLength /\ SlotOf(k) = SlotOf(nseq[n]))
                    => k = nseq[n]
<1>1. \A m \in Notifiers : nseq[m] \in Nat
  BY RingAssumption DEF TypeOK
<1>2. \A m \in Notifiers : pc[m] \in Writing =>
         nseq[m] < next_seq /\ nseq[m] >= next_seq - BufLength /\ nseq[m] >= StartSeq
  BY DEF Writers
<1>3. \A m \in Notifiers \ {n} : pc[m] \in Writing => nseq[m] # nseq[n]
  BY DEF Writers
<1>4. \A k \in Nat :
         (k < next_seq /\ k >= next_seq - BufLength /\ SlotOf(k) = SlotOf(nseq[n])) => k = nseq[n]
  BY <1>1, <1>2, Window
<1>5. ASSUME NEW m \in Notifiers \ {n}, pc[m] \in Writing
      PROVE  SlotOf(nseq[m]) # SlotOf(nseq[n])
  BY <1>1, <1>2, <1>3, <1>4, <1>5
<1>6. nseq[n] \in Nat /\ SlotOf(nseq[n]) \in Slot
  BY <1>1, SlotIsSlot
<1>7. nseq[n] < next_seq /\ nseq[n] >= next_seq - BufLength /\ nseq[n] >= StartSeq
  BY <1>2
<1>. QED  BY <1>4, <1>5, <1>6, <1>7

\* An active listener's number, and its slot.
LEMMA ListenerSlot ==
    ASSUME TypeOK, Histories, Waiting, NEW l \in Listeners, Active(l)
    PROVE  /\ cursor[l] \in Nat /\ SlotOf(cursor[l]) \in Slot
           /\ cursor[l] >= StartSeq /\ cursor[l] >= next_seq - BufLength
           /\ joined[l] \in Nat /\ joined[l] >= StartSeq
           /\ cursor[l] = joined[l] + Len(delivered[l]) /\ Len(delivered[l]) \in Nat
           /\ pc[l] \in Due => cursor[l] < next_seq
<1>1. cursor[l] \in Nat /\ joined[l] \in Nat /\ Len(delivered[l]) \in Nat
  BY RingAssumption, LenProperties DEF TypeOK, Histories
<1>. QED  BY <1>1, SlotIsSlot, RingAssumption DEF Waiting

LEMMA SlotsTypes ==
    ASSUME TypeOK
    PROVE  /\ next_seq \in Nat /\ BufLength \in Nat \ {0} /\ StartSeq \in Nat
           /\ infos \in [Slot -> Info] /\ \A i \in Slot : seqs[i] \in Nat
BY RingAssumption DEF TypeOK, Info

LEMMA DeliveredType ==
    ASSUME Histories, NEW l \in Listeners, NEW i \in DOMAIN delivered[l]
    PROVE  delivered[l][i] \in Delivery /\ delivered[l][i].seq \in Nat
<1>1. delivered[l] \in Seq(Delivery)
  BY DEF Histories
<1>2. i \in 1 .. Len(delivered[l])
  BY <1>1, LenProperties
<1>3. delivered[l][i] \in Delivery
  BY <1>1, <1>2, ElementOfSeq
<1>. QED  BY <1>3, RingAssumption DEF Delivery

LEMMA UndisturbedStep ==
    ASSUME TypeOK, Histories, Creation, Forward, Undisturbed, Undisturbed',
           Slots, Writers, Waiting, Delivered, [Next]_vars
    PROVE  Slots' /\ Writers' /\ Waiting' /\ Delivered'
<1>1. ASSUME NEW p \in Process, Create(p)
     PROVE  Slots' /\ Writers' /\ Waiting' /\ Delivered'
  <2>1. Slots'
    BY <1>1 DEF Create, Slots, SentInfo, At, Goto, ringVars, stopVars, histVars
  <2>2. Writers'
    BY <1>1 DEF Create, Writers, Writing, SentInfo, TypeOK, Process, At, Goto, ringVars,
       stopVars, histVars
  <2>3. Waiting'
    BY <1>1 DEF Create, Waiting, Active, Opening, Due, SentInfo, TypeOK, Process, At, Goto,
       ringVars, stopVars, histVars
  <2>4. Delivered'
    BY <1>1 DEF Create, Delivered, SentInfo, At, Goto, ringVars, stopVars, histVars
  <2>. QED  BY <2>1, <2>2, <2>3, <2>4
<1>2. ASSUME NEW p \in Process, OpenOnly(p)
     PROVE  Slots' /\ Writers' /\ Waiting' /\ Delivered'
  <2>1. Slots'
    BY <1>2 DEF OpenOnly, Slots, SentInfo, At, Goto, ringVars, stopVars, histVars
  <2>2. Writers'
    BY <1>2 DEF OpenOnly, Writers, Writing, SentInfo, TypeOK, Process, At, Goto, ringVars,
       stopVars, histVars
  <2>3. Waiting'
    BY <1>2 DEF OpenOnly, Waiting, Active, Opening, Due, SentInfo, TypeOK, Process, At, Goto,
       ringVars, stopVars, histVars
  <2>4. Delivered'
    BY <1>2 DEF OpenOnly, Delivered, SentInfo, At, Goto, ringVars, stopVars, histVars
  <2>. QED  BY <2>1, <2>2, <2>3, <2>4
<1>3. ASSUME NEW p \in Process, Construct(p)
     PROVE  Slots' /\ Writers' /\ Waiting' /\ Delivered'
  <2>1. \A q \in Process \ {p} : pc[q] = "closed"
    BY <1>3 DEF Construct, Undisturbed
  <2>2. \A q \in Process : pc[q] \in Opening /\ pc'[q] \in Opening
    BY <1>3, <2>1 DEF Construct, TypeOK, Opening, At, Goto, ringVars, stopVars, histVars
  <2>3. Slots'
    BY <1>3 DEF Construct, Slots
  <2>4. Writers' /\ Waiting'
    BY <2>2 DEF Writers, Waiting, Active, Writing, Opening, Process
  <2>5. \A l \in Listeners : DOMAIN delivered'[l] = {}
    <3>1. \A l \in Listeners : delivered'[l] = <<>>
      BY <1>3, <2>2 DEF Construct, Forward, Process
    <3>. QED  BY <3>1, EmptySeq, SMT
  <2>6. Delivered'
    BY <2>5 DEF Delivered
  <2>. QED  BY <2>3, <2>4, <2>6
<1>4. ASSUME NEW p \in Process, LoadNextSeq(p)
     PROVE  Slots' /\ Writers' /\ Waiting' /\ Delivered'
  <2>1. Slots'
    BY <1>4 DEF LoadNextSeq, Slots, SentInfo, At, Goto, ringVars, stopVars, histVars
  <2>2. Writers'
    BY <1>4 DEF LoadNextSeq, Writers, Writing, SentInfo, TypeOK, Process, At, Goto, ringVars,
       stopVars, histVars
  <2>3. next_seq \in Nat /\ BufLength \in Nat \ {0} /\ next_seq >= StartSeq
    <3>1. Len(sent) \in Nat /\ Len(sent) = next_seq - StartSeq
      BY LenProperties DEF Histories
    <3>. QED  BY <3>1, SlotsTypes
  <2>4. p \in Listeners => delivered[p] = <<>> /\ Len(delivered[p]) = 0 /\ DOMAIN delivered[p] = {}
    <3>1. p \in Listeners => delivered[p] = <<>>
      BY <1>4 DEF LoadNextSeq, Forward, Opening, At, Goto, ringVars, stopVars, histVars
    <3>. QED  BY <3>1, EmptySeq, SMT
  <2>5. Waiting'
    <3>. SUFFICES ASSUME NEW m \in Listeners, Active(m)'
         PROVE  /\ joined'[m] >= StartSeq /\ cursor'[m] = joined'[m] + Len(delivered'[m])
                /\ cursor'[m] <= next_seq' /\ cursor'[m] >= next_seq' - BufLength
                /\ pc'[m] \in Due => cursor'[m] < next_seq'
                /\ pc'[m] \in {"getchannel", "getblock"} /\ cursor'[m] > 0 =>
                      seqs'[SlotOf(cursor'[m])] = cursor'[m]
                /\ pc'[m] = "getblock" /\ cursor'[m] > 0 =>
                      linfo'[m].channel = SentInfo(cursor[m]).channel'
      BY DEF Waiting, SentInfo
    <3>1. CASE m = p
      <4>1. joined'[m] = next_seq /\ cursor'[m] = next_seq /\ pc'[m] = "idle"
        BY <1>4, <3>1 DEF LoadNextSeq, Histories, TypeOK, Process, At, Goto, ringVars, stopVars,
           histVars
      <4>2. Len(delivered'[m]) = 0 /\ next_seq' = next_seq
        BY <1>4, <2>4, <3>1 DEF LoadNextSeq, At, Goto, ringVars, stopVars, histVars
      <4>. QED  BY <2>3, <4>1, <4>2 DEF Due
    <3>2. CASE m # p
      BY <1>4, <3>2 DEF LoadNextSeq, Waiting, Active, SentInfo, Histories, TypeOK, Process, At,
         Goto, ringVars, stopVars, histVars
    <3>. QED  BY <3>1, <3>2
  <2>6. Delivered'
    <3>1. \A m \in Listeners \ {p} : joined'[m] = joined[m]
      BY <1>4 DEF LoadNextSeq, Histories
    <3>2. delivered' = delivered /\ sent' = sent /\ next_seq' = next_seq
      BY <1>4 DEF LoadNextSeq, At, Goto, ringVars, stopVars, histVars
    <3>. QED  BY <2>4, <3>1, <3>2 DEF Delivered, SentInfo
  <2>. QED  BY <2>1, <2>2, <2>5, <2>6
<1>5. ASSUME NEW p \in Process, Shutdown(p)
     PROVE  Slots' /\ Writers' /\ Waiting' /\ Delivered'
  <2>1. Slots'
    BY <1>5 DEF Shutdown, Slots, SentInfo, At, Goto, ringVars, stopVars, histVars
  <2>2. Writers'
    BY <1>5 DEF Shutdown, Writers, Writing, SentInfo, TypeOK, Process, At, Goto, ringVars,
       stopVars, histVars
  <2>3. Waiting'
    BY <1>5 DEF Shutdown, Waiting, Active, Opening, Due, SentInfo, TypeOK, Process, At, Goto,
       ringVars, stopVars, histVars
  <2>4. Delivered'
    BY <1>5 DEF Shutdown, Delivered, SentInfo, At, Goto, ringVars, stopVars, histVars
  <2>. QED  BY <2>1, <2>2, <2>3, <2>4
<1>6. ASSUME NEW p \in Process, Detach(p)
     PROVE  Slots' /\ Writers' /\ Waiting' /\ Delivered'
  <2>1. Slots'
    BY <1>6 DEF Detach, Slots, SentInfo, At, Goto, ringVars, stopVars, histVars
  <2>2. Writers'
    BY <1>6 DEF Detach, Writers, Writing, SentInfo, TypeOK, Process, At, Goto, ringVars,
       stopVars, histVars
  <2>3. Waiting'
    BY <1>6 DEF Detach, Waiting, Active, Opening, Due, SentInfo, TypeOK, Process, At, Goto,
       ringVars, stopVars, histVars
  <2>4. Delivered'
    BY <1>6 DEF Detach, Delivered, SentInfo, At, Goto, ringVars, stopVars, histVars
  <2>. QED  BY <2>1, <2>2, <2>3, <2>4
<1>7. ASSUME NEW p \in Process, Fault(p)
     PROVE  Slots' /\ Writers' /\ Waiting' /\ Delivered'
  <2>1. Slots'
    BY <1>7 DEF Fault, Slots, SentInfo, At, Goto, ringVars, stopVars, histVars
  <2>2. Writers'
    BY <1>7 DEF Fault, Writers, Writing, SentInfo, TypeOK, Process, At, Goto, ringVars, stopVars,
       histVars
  <2>3. Waiting'
    BY <1>7 DEF Fault, Waiting, Active, Opening, Due, SentInfo, TypeOK, Process, At, Goto,
       ringVars, stopVars, histVars
  <2>4. Delivered'
    BY <1>7 DEF Fault, Delivered, SentInfo, At, Goto, ringVars, stopVars, histVars
  <2>. QED  BY <2>1, <2>2, <2>3, <2>4
<1>8. ASSUME NEW p \in Process, Die(p)
     PROVE  Slots' /\ Writers' /\ Waiting' /\ Delivered'
  <2>1. Slots'
    BY <1>8 DEF Die, Slots, SentInfo, At, Goto, ringVars, stopVars, histVars
  <2>2. Writers'
    BY <1>8 DEF Die, Writers, Writing, SentInfo, TypeOK, Process, At, Goto, ringVars, stopVars,
       histVars
  <2>3. Waiting'
    BY <1>8 DEF Die, Waiting, Active, Opening, Due, SentInfo, TypeOK, Process, At, Goto,
       ringVars, stopVars, histVars
  <2>4. Delivered'
    BY <1>8 DEF Die, Delivered, SentInfo, At, Goto, ringVars, stopVars, histVars
  <2>. QED  BY <2>1, <2>2, <2>3, <2>4
<1>9. ASSUME NEW n \in Notifiers, DrawSeq(n)
     PROVE  Slots' /\ Writers' /\ Waiting' /\ Delivered'
  <2>1. /\ next_seq' = next_seq + 1 /\ infos' = infos /\ seqs' = seqs /\ joined' = joined
        /\ nseq' = [nseq EXCEPT ![n] = next_seq] /\ ninfo' = ninfo /\ cursor' = cursor
        /\ linfo' = linfo /\ delivered' = delivered /\ pc' = [pc EXCEPT ![n] = "channel"]
    BY <1>9 DEF DrawSeq, At, Goto, ringVars, stopVars, histVars
  <2>2. /\ \A k \in Nat : k >= StartSeq /\ k < next_seq => sent'[k - StartSeq + 1] = SentInfo(k)
        /\ sent'[next_seq - StartSeq + 1] = ninfo[n] /\ next_seq >= StartSeq
    <3>1. ninfo[n] \in Info
      BY NoInfoType, RingAssumption DEF TypeOK, Info, ReadableInfo
    <3>2. /\ Len(sent) \in Nat /\ Len(sent) = next_seq - StartSeq
          /\ sent' = Append(sent, ninfo[n])
      BY <1>9, LenProperties DEF Histories, DrawSeq
    <3>3. sent'[Len(sent) + 1] = ninfo[n] /\ \A i \in 1 .. Len(sent) : sent'[i] = sent[i]
      BY <3>1, <3>2, AppendProperties DEF Histories
    <3>. QED  BY <2>1, <3>2, <3>3, SlotsTypes DEF SentInfo
  <2>3. ~InUse(next_seq)
    BY <1>9 DEF DrawSeq, Undisturbed
  <2>4. Slots'
    <3>. SUFFICES ASSUME NEW i \in Slot
         PROVE  /\ seqs[i] = 0 \/ seqs[i] < next_seq'
                /\ seqs[i] >= StartSeq /\ seqs[i] > 0 =>
                      /\ SlotOf(seqs[i]) = i
                      /\ seqs[i] >= next_seq' - BufLength =>
                            infos[i] = sent'[seqs[i] - StartSeq + 1]
      BY <2>1 DEF Slots, SentInfo
    <3>1. seqs[i] \in Nat /\ next_seq' = next_seq + 1
      BY <2>1, SlotsTypes
    <3>. QED  BY <2>2, <3>1, SlotsTypes DEF Slots
  <2>5. Writers'
    <3>. SUFFICES ASSUME NEW m \in Notifiers, pc'[m] \in Writing
         PROVE  /\ nseq'[m] >= StartSeq /\ nseq'[m] < next_seq' /\ nseq'[m] >= next_seq' - BufLength
                /\ SentInfo(nseq[m])' = ninfo'[m]
                /\ \A o \in Notifiers \ {m} : pc'[o] \in Writing => nseq'[o] # nseq'[m]
                /\ nseq'[m] > 0 => seqs'[SlotOf(nseq'[m])] # nseq'[m]
                /\ pc'[m] # "channel" => infos'[SlotOf(nseq'[m])].channel = ninfo'[m].channel
                /\ pc'[m] = "seq" => infos'[SlotOf(nseq'[m])].block = ninfo'[m].block
      BY DEF Writers
    <3>1. nseq'[n] = next_seq /\ pc'[n] = "channel"
      BY <2>1 DEF TypeOK, Process
    <3>2. \A o \in Notifiers \ {n} : nseq'[o] = nseq[o] /\ pc'[o] = pc[o]
      BY <2>1 DEF TypeOK, Process
    <3>3. \A o \in Notifiers \ {n} : pc'[o] \in Writing => nseq'[o] < next_seq /\ nseq'[o] \in Nat
      BY <3>2, WriterSlot
    <3>4. CASE m = n
      <4>1. SlotOf(next_seq) \in Slot
        BY SlotIsSlot, SlotsTypes
      <4>2. next_seq > 0 => seqs[SlotOf(next_seq)] # next_seq
        BY <4>1, SlotsTypes DEF Slots
      <4>3. SentInfo(nseq[n])' = ninfo'[n]
        BY <2>1, <2>2, <3>1 DEF SentInfo
      <4>4. \A o \in Notifiers \ {n} : pc'[o] \in Writing => nseq'[o] # next_seq
        BY <3>3, SlotsTypes
      <4>. QED  BY <2>1, <2>2, <3>1, <3>4, <4>2, <4>3, <4>4, SlotsTypes
    <3>5. CASE m # n
      <4>1. nseq'[m] = nseq[m] /\ pc[m] \in Writing /\ pc'[m] = pc[m] /\ nseq[m] \in Nat
        BY <3>2, <3>3, <3>5
      <4>2. /\ nseq[m] >= StartSeq /\ nseq[m] < next_seq /\ SentInfo(nseq[m]) = ninfo[m]
            /\ \A o \in Notifiers \ {m} : pc[o] \in Writing => nseq[o] # nseq[m]
            /\ nseq[m] > 0 => seqs[SlotOf(nseq[m])] # nseq[m]
            /\ pc[m] # "channel" => infos[SlotOf(nseq[m])].channel = ninfo[m].channel
            /\ pc[m] = "seq" => infos[SlotOf(nseq[m])].block = ninfo[m].block
        BY <4>1 DEF Writers
      <4>3. ~(nseq[m] <= next_seq - BufLength)
        BY <2>3, <4>1 DEF InUse, Writing
      <4>4. SentInfo(nseq[m])' = ninfo'[m]
        BY <2>1, <2>2, <4>1, <4>2 DEF SentInfo
      <4>5. \A o \in Notifiers \ {m} : pc'[o] \in Writing => nseq'[o] # nseq'[m]
        BY <3>1, <3>2, <4>1, <4>2, SlotsTypes
      <4>. QED  BY <2>1, <4>1, <4>2, <4>3, <4>4, <4>5, SlotsTypes
    <3>. QED  BY <3>4, <3>5
  <2>6. Waiting'
    <3>. SUFFICES ASSUME NEW l \in Listeners, Active(l)'
         PROVE  /\ joined'[l] >= StartSeq /\ cursor'[l] = joined'[l] + Len(delivered'[l])
                /\ cursor'[l] <= next_seq' /\ cursor'[l] >= next_seq' - BufLength
                /\ pc'[l] \in Due => cursor'[l] < next_seq'
                /\ pc'[l] \in {"getchannel", "getblock"} /\ cursor'[l] > 0 =>
                      seqs'[SlotOf(cursor'[l])] = cursor'[l]
                /\ pc'[l] = "getblock" /\ cursor'[l] > 0 =>
                      linfo'[l].channel = SentInfo(cursor[l])'.channel
      BY DEF Waiting
    <3>1. pc'[l] = pc[l] /\ Active(l)
      BY <2>1, RingAssumption DEF Active, TypeOK, Process
    <3>2. ~(cursor[l] <= next_seq - BufLength)
      BY <2>3, <3>1 DEF InUse, Active, Opening
    <3>3. /\ cursor[l] \in Nat /\ cursor[l] >= StartSeq
          /\ joined[l] >= StartSeq /\ cursor[l] = joined[l] + Len(delivered[l])
          /\ cursor[l] <= next_seq
          /\ pc[l] \in Due => cursor[l] < next_seq
          /\ pc[l] \in {"getchannel", "getblock"} /\ cursor[l] > 0 =>
                seqs[SlotOf(cursor[l])] = cursor[l]
          /\ pc[l] = "getblock" /\ cursor[l] > 0 => linfo[l].channel = SentInfo(cursor[l]).channel
      BY <3>1, ListenerSlot DEF Waiting
    <3>4. cursor[l] < next_seq => SentInfo(cursor[l])' = SentInfo(cursor[l])
      BY <2>1, <2>2, <3>3 DEF SentInfo
    <3>. QED  BY <2>1, <3>1, <3>2, <3>3, <3>4, SlotsTypes DEF Due
  <2>7. Delivered'
    <3>. SUFFICES ASSUME NEW l \in Listeners, NEW i \in DOMAIN delivered[l]
         PROVE  LET d == delivered[l][i]
                IN  /\ d.seq = joined[l] + i - 1 /\ d.seq >= StartSeq /\ d.seq < next_seq'
                    /\ d.seq > 0 => d.info = sent'[d.seq - StartSeq + 1]
      BY <2>1 DEF Delivered, SentInfo
    <3>1. delivered[l][i].seq \in Nat
      BY DeliveredType
    <3>. QED  BY <2>1, <2>2, <3>1, SlotsTypes DEF Delivered
  <2>. QED  BY <2>4, <2>5, <2>6, <2>7
<1>10. ASSUME NEW n \in Notifiers, StoreChannel(n)
     PROVE  Slots' /\ Writers' /\ Waiting' /\ Delivered'
  <2>1. /\ infos' = [infos EXCEPT ![SlotOf(nseq[n])].channel = ninfo[n].channel]
        /\ next_seq' = next_seq /\ seqs' = seqs /\ nseq' = nseq /\ ninfo' = ninfo /\ sent' = sent
        /\ cursor' = cursor /\ linfo' = linfo /\ joined' = joined /\ delivered' = delivered
    BY <1>10 DEF StoreChannel, At, Goto, ringVars, stopVars, histVars
  <2>2. /\ pc[n] = "channel" /\ pc' = [pc EXCEPT ![n] = "block"]
        /\ pc[n] \in Writing
    BY <1>10 DEF StoreChannel, Writing, At, Goto, ringVars, stopVars, histVars
  <2>3. ninfo[n].channel \in Channel \cup {NoChannel}
    BY NoInfoType, RingAssumption DEF TypeOK, Info, ReadableInfo
  <2>4. SlotOf(nseq[n]) \in Slot
    BY <2>2, WriterSlot
  <2>5. /\ infos'[SlotOf(nseq[n])].channel = ninfo[n].channel
        /\ infos'[SlotOf(nseq[n])].block = infos[SlotOf(nseq[n])].block
        /\ \A i \in Slot \ {SlotOf(nseq[n])} : infos'[i] = infos[i]
    BY <2>1, <2>3, <2>4, SlotsTypes, ChannelUpdate
  <2>6. Slots'
    <3>. SUFFICES ASSUME NEW i \in Slot, seqs[i] >= StartSeq, seqs[i] > 0,
                         seqs[i] >= next_seq - BufLength
         PROVE  i # SlotOf(nseq[n])
      BY <2>1, <2>5 DEF Slots, SentInfo
    <3>1. seqs[i] \in Nat /\ SlotOf(seqs[i]) = i /\ seqs[i] < next_seq
      BY SlotsTypes DEF Slots
    <3>2. i = SlotOf(nseq[n]) => seqs[i] = nseq[n]
      BY <2>2, <3>1, WriterSlot
    <3>3. nseq[n] > 0 => seqs[SlotOf(nseq[n])] # nseq[n]
      BY <2>2 DEF Writers
    <3>. QED  BY <3>2, <3>3
  <2>7. Writers'
    <3>. SUFFICES ASSUME NEW m \in Notifiers, pc'[m] \in Writing
         PROVE  /\ nseq[m] >= StartSeq /\ nseq[m] < next_seq /\ nseq[m] >= next_seq - BufLength
                /\ SentInfo(nseq[m]) = ninfo[m]
                /\ \A o \in Notifiers \ {m} : pc'[o] \in Writing => nseq[o] # nseq[m]
                /\ nseq[m] > 0 => seqs[SlotOf(nseq[m])] # nseq[m]
                /\ pc'[m] # "channel" => infos'[SlotOf(nseq[m])].channel = ninfo[m].channel
                /\ pc'[m] = "seq" => infos'[SlotOf(nseq[m])].block = ninfo[m].block
      BY <2>1 DEF Writers, SentInfo
    <3>1. /\ \A o \in Notifiers : pc'[o] \in Writing => pc[o] \in Writing
          /\ pc'[n] = "block" /\ \A o \in Notifiers \ {n} : pc'[o] = pc[o]
      BY <2>2 DEF TypeOK, Process
    <3>2. /\ nseq[m] >= StartSeq /\ nseq[m] < next_seq /\ nseq[m] >= next_seq - BufLength
          /\ SentInfo(nseq[m]) = ninfo[m]
          /\ \A o \in Notifiers \ {m} : pc'[o] \in Writing => nseq[o] # nseq[m]
          /\ nseq[m] > 0 => seqs[SlotOf(nseq[m])] # nseq[m]
          /\ pc[m] # "channel" => infos[SlotOf(nseq[m])].channel = ninfo[m].channel
          /\ pc[m] = "seq" => infos[SlotOf(nseq[m])].block = ninfo[m].block
      BY <3>1 DEF Writers
    <3>3. CASE m = n
      BY <2>2, <2>5, <3>1, <3>2, <3>3
    <3>4. CASE m # n
      <4>1. SlotOf(nseq[m]) \in Slot \ {SlotOf(nseq[n])}
        BY <2>2, <3>1, <3>4, WriterSlot
      <4>2. infos'[SlotOf(nseq[m])] = infos[SlotOf(nseq[m])] /\ pc'[m] = pc[m]
        BY <2>5, <3>1, <3>4, <4>1
      <4>. QED  BY <3>2, <4>2
    <3>. QED  BY <3>3, <3>4
  <2>8. Waiting'
    BY <2>1, <2>2, RingAssumption DEF Waiting, Active, Opening, Due, SentInfo, TypeOK, Process
  <2>9. Delivered'
    BY <2>1 DEF Delivered, SentInfo
  <2>. QED  BY <2>6, <2>7, <2>8, <2>9
<1>11. ASSUME NEW n \in Notifiers, StoreBlock(n)
     PROVE  Slots' /\ Writers' /\ Waiting' /\ Delivered'
  <2>1. /\ infos' = [infos EXCEPT ![SlotOf(nseq[n])].block = ninfo[n].block]
        /\ next_seq' = next_seq /\ seqs' = seqs /\ nseq' = nseq /\ ninfo' = ninfo /\ sent' = sent
        /\ cursor' = cursor /\ linfo' = linfo /\ joined' = joined /\ delivered' = delivered
    BY <1>11 DEF StoreBlock, At, Goto, ringVars, stopVars, histVars
  <2>2. /\ pc[n] = "block" /\ pc' = [pc EXCEPT ![n] = "seq"]
        /\ pc[n] \in Writing
    BY <1>11 DEF StoreBlock, Writing, At, Goto, ringVars, stopVars, histVars
  <2>3. ninfo[n].block \in BlockIndex
    BY NoInfoType, RingAssumption DEF TypeOK, Info, ReadableInfo
  <2>4. SlotOf(nseq[n]) \in Slot
    BY <2>2, WriterSlot
  <2>5. /\ infos'[SlotOf(nseq[n])].block = ninfo[n].block
        /\ infos'[SlotOf(nseq[n])].channel = infos[SlotOf(nseq[n])].channel
        /\ \A i \in Slot \ {SlotOf(nseq[n])} : infos'[i] = infos[i]
    BY <2>1, <2>3, <2>4, SlotsTypes, BlockUpdate
  <2>6. Slots'
    <3>. SUFFICES ASSUME NEW i \in Slot, seqs[i] >= StartSeq, seqs[i] > 0,
                         seqs[i] >= next_seq - BufLength
         PROVE  i # SlotOf(nseq[n])
      BY <2>1, <2>5 DEF Slots, SentInfo
    <3>1. seqs[i] \in Nat /\ SlotOf(seqs[i]) = i /\ seqs[i] < next_seq
      BY SlotsTypes DEF Slots
    <3>2. i = SlotOf(nseq[n]) => seqs[i] = nseq[n]
      BY <2>2, <3>1, WriterSlot
    <3>3. nseq[n] > 0 => seqs[SlotOf(nseq[n])] # nseq[n]
      BY <2>2 DEF Writers
    <3>. QED  BY <3>2, <3>3
  <2>7. Writers'
    <3>. SUFFICES ASSUME NEW m \in Notifiers, pc'[m] \in Writing
         PROVE  /\ nseq[m] >= StartSeq /\ nseq[m] < next_seq /\ nseq[m] >= next_seq - BufLength
                /\ SentInfo(nseq[m]) = ninfo[m]
                /\ \A o \in Notifiers \ {m} : pc'[o] \in Writing => nseq[o] # nseq[m]
                /\ nseq[m] > 0 => seqs[SlotOf(nseq[m])] # nseq[m]
                /\ pc'[m] # "channel" => infos'[SlotOf(nseq[m])].channel = ninfo[m].channel
                /\ pc'[m] = "seq" => infos'[SlotOf(nseq[m])].block = ninfo[m].block
      BY <2>1 DEF Writers, SentInfo
    <3>1. /\ \A o \in Notifiers : pc'[o] \in Writing => pc[o] \in Writing
          /\ pc'[n] = "seq" /\ \A o \in Notifiers \ {n} : pc'[o] = pc[o]
      BY <2>2 DEF TypeOK, Process
    <3>2. /\ nseq[m] >= StartSeq /\ nseq[m] < next_seq /\ nseq[m] >= next_seq - BufLength
          /\ SentInfo(nseq[m]) = ninfo[m]
          /\ \A o \in Notifiers \ {m} : pc'[o] \in Writing => nseq[o] # nseq[m]
          /\ nseq[m] > 0 => seqs[SlotOf(nseq[m])] # nseq[m]
          /\ pc[m] # "channel" => infos[SlotOf(nseq[m])].channel = ninfo[m].channel
          /\ pc[m] = "seq" => infos[SlotOf(nseq[m])].block = ninfo[m].block
      BY <3>1 DEF Writers
    <3>3. CASE m = n
      BY <2>2, <2>5, <3>1, <3>2, <3>3
    <3>4. CASE m # n
      <4>1. SlotOf(nseq[m]) \in Slot \ {SlotOf(nseq[n])}
        BY <2>2, <3>1, <3>4, WriterSlot
      <4>2. infos'[SlotOf(nseq[m])] = infos[SlotOf(nseq[m])] /\ pc'[m] = pc[m]
        BY <2>5, <3>1, <3>4, <4>1
      <4>. QED  BY <3>2, <4>2
    <3>. QED  BY <3>3, <3>4
  <2>8. Waiting'
    BY <2>1, <2>2, RingAssumption DEF Waiting, Active, Opening, Due, SentInfo, TypeOK, Process
  <2>9. Delivered'
    BY <2>1 DEF Delivered, SentInfo
  <2>. QED  BY <2>6, <2>7, <2>8, <2>9
<1>12. ASSUME NEW n \in Notifiers, StoreSeq(n)
     PROVE  Slots' /\ Writers' /\ Waiting' /\ Delivered'
  <2>1. /\ seqs' = [seqs EXCEPT ![SlotOf(nseq[n])] = nseq[n]]
        /\ next_seq' = next_seq /\ infos' = infos /\ nseq' = nseq /\ ninfo' = ninfo /\ sent' = sent
        /\ cursor' = cursor /\ linfo' = linfo /\ joined' = joined /\ delivered' = delivered
    BY <1>12 DEF StoreSeq, At, Goto, ringVars, stopVars, histVars
  <2>2. pc[n] = "seq" /\ pc' = [pc EXCEPT ![n] = "idle"] /\ pc[n] \in Writing
    BY <1>12 DEF StoreSeq, Writing, At, Goto, ringVars, stopVars, histVars
  <2>3. /\ SlotOf(nseq[n]) \in Slot /\ nseq[n] \in Nat
        /\ seqs'[SlotOf(nseq[n])] = nseq[n]
        /\ \A i \in Slot \ {SlotOf(nseq[n])} : seqs'[i] = seqs[i]
    BY <2>1, <2>2, WriterSlot DEF TypeOK
  <2>4. infos[SlotOf(nseq[n])] = SentInfo(nseq[n])
    <3>1. /\ SentInfo(nseq[n]) = ninfo[n]
          /\ infos[SlotOf(nseq[n])].channel = ninfo[n].channel
          /\ infos[SlotOf(nseq[n])].block = ninfo[n].block
      BY <2>2 DEF Writers
    <3>2. infos[SlotOf(nseq[n])] \in Info /\ ninfo[n] \in Info
      BY <2>3, SlotsTypes, NoInfoType, RingAssumption DEF TypeOK, Info, ReadableInfo
    <3>. QED  BY <3>1, <3>2 DEF Info
  <2>5. Slots'
    <3>. SUFFICES ASSUME NEW i \in Slot
         PROVE  /\ seqs'[i] = 0 \/ seqs'[i] < next_seq
                /\ seqs'[i] >= StartSeq /\ seqs'[i] > 0 =>
                      /\ SlotOf(seqs'[i]) = i
                      /\ seqs'[i] >= next_seq - BufLength => infos[i] = SentInfo(seqs[i])'
      BY <2>1 DEF Slots
    <3>1. CASE i = SlotOf(nseq[n])
      <4>1. SentInfo(seqs[i])' = SentInfo(nseq[n]) /\ nseq[n] < next_seq
        BY <2>1, <2>2, <2>3, <3>1, WriterSlot DEF SentInfo
      <4>. QED  BY <2>3, <2>4, <3>1, <4>1
    <3>2. CASE i # SlotOf(nseq[n])
      <4>1. seqs'[i] = seqs[i] /\ SentInfo(seqs[i])' = SentInfo(seqs[i])
        BY <2>1, <2>3, <3>2 DEF SentInfo
      <4>. QED  BY <4>1 DEF Slots
    <3>. QED  BY <3>1, <3>2
  <2>6. Writers'
    <3>. SUFFICES ASSUME NEW m \in Notifiers, pc'[m] \in Writing
         PROVE  /\ nseq[m] >= StartSeq /\ nseq[m] < next_seq /\ nseq[m] >= next_seq - BufLength
                /\ SentInfo(nseq[m]) = ninfo[m]
                /\ \A o \in Notifiers \ {m} : pc'[o] \in Writing => nseq[o] # nseq[m]
                /\ nseq[m] > 0 => seqs'[SlotOf(nseq[m])] # nseq[m]
                /\ pc'[m] # "channel" => infos[SlotOf(nseq[m])].channel = ninfo[m].channel
                /\ pc'[m] = "seq" => infos[SlotOf(nseq[m])].block = ninfo[m].block
      BY <2>1 DEF Writers, SentInfo
    <3>1. /\ pc'[n] \notin Writing /\ m # n
          /\ \A o \in Notifiers \ {n} : pc'[o] = pc[o]
      BY <2>2 DEF TypeOK, Process, Writing
    <3>2. SlotOf(nseq[m]) \in Slot \ {SlotOf(nseq[n])}
      BY <2>2, <3>1, WriterSlot
    <3>3. seqs'[SlotOf(nseq[m])] = seqs[SlotOf(nseq[m])] /\ pc'[m] = pc[m]
      BY <2>3, <3>1, <3>2
    <3>4. /\ nseq[m] >= StartSeq /\ nseq[m] < next_seq /\ nseq[m] >= next_seq - BufLength
          /\ SentInfo(nseq[m]) = ninfo[m]
          /\ \A o \in Notifiers \ {m} : pc[o] \in Writing => nseq[o] # nseq[m]
          /\ nseq[m] > 0 => seqs[SlotOf(nseq[m])] # nseq[m]
          /\ pc[m] # "channel" => infos[SlotOf(nseq[m])].channel = ninfo[m].channel
          /\ pc[m] = "seq" => infos[SlotOf(nseq[m])].block = ninfo[m].block
      BY <3>1, <3>3 DEF Writers
    <3>. QED  BY <3>1, <3>3, <3>4
  <2>7. Waiting'
    <3>1. \A l \in Listeners : Active(l)' <=> Active(l)
      BY <2>2, RingAssumption DEF Active, TypeOK, Process
    <3>2. \A l \in Listeners : pc'[l] = pc[l]
      BY <2>2, RingAssumption DEF TypeOK, Process
    <3>3. ASSUME NEW l \in Listeners, Active(l), pc[l] \in {"getchannel", "getblock"}, cursor[l] > 0
          PROVE  seqs'[SlotOf(cursor[l])] = cursor[l]
      <4>1. seqs[SlotOf(cursor[l])] = cursor[l] /\ SlotOf(cursor[l]) \in Slot
        BY <3>3, ListenerSlot DEF Waiting
      <4>2. /\ cursor[l] \in Nat /\ cursor[l] < next_seq /\ cursor[l] >= next_seq - BufLength
        BY <3>3, ListenerSlot DEF Due
      <4>3. SlotOf(cursor[l]) = SlotOf(nseq[n]) => cursor[l] = nseq[n]
        BY <2>2, <4>2, WriterSlot
      <4>. QED  BY <2>3, <4>1, <4>3
    <3>. QED  BY <2>1, <3>1, <3>2, <3>3 DEF Waiting, SentInfo
  <2>8. Delivered'
    BY <2>1 DEF Delivered, SentInfo
  <2>. QED  BY <2>5, <2>6, <2>7, <2>8
<1>13. ASSUME NEW n \in Notifiers, NotifyRefused(n)
     PROVE  Slots' /\ Writers' /\ Waiting' /\ Delivered'
  <2>1. Slots'
    BY <1>13 DEF NotifyRefused, Slots, SentInfo, At, Goto, ringVars, stopVars, histVars
  <2>2. Writers'
    BY <1>13 DEF NotifyRefused, Writers, Writing, SentInfo, TypeOK, Process, At, Goto, ringVars,
       stopVars, histVars
  <2>3. Waiting'
    BY <1>13 DEF NotifyRefused, Waiting, Active, Opening, Due, SentInfo, TypeOK, Process, At,
       Goto, ringVars, stopVars, histVars
  <2>4. Delivered'
    BY <1>13 DEF NotifyRefused, Delivered, SentInfo, At, Goto, ringVars, stopVars, histVars
  <2>. QED  BY <2>1, <2>2, <2>3, <2>4
<1>14. ASSUME NEW l \in Listeners, TestShutdown(l)
     PROVE  Slots' /\ Writers' /\ Waiting' /\ Delivered'
  <2>1. Slots'
    BY <1>14 DEF TestShutdown, Slots, SentInfo, At, Goto, ringVars, stopVars, histVars
  <2>2. Writers'
    BY <1>14 DEF TestShutdown, Writers, Writing, SentInfo, TypeOK, Process, At, Goto, ringVars,
       stopVars, histVars
  <2>3. Waiting'
    BY <1>14 DEF TestShutdown, Waiting, Active, Opening, Due, SentInfo, TypeOK, Process, At,
       Goto, ringVars, stopVars, histVars
  <2>4. Delivered'
    BY <1>14 DEF TestShutdown, Delivered, SentInfo, At, Goto, ringVars, stopVars, histVars
  <2>. QED  BY <2>1, <2>2, <2>3, <2>4
<1>15. ASSUME NEW l \in Listeners, Poll(l)
     PROVE  Slots' /\ Writers' /\ Waiting' /\ Delivered'
  <2>1. Slots'
    BY <1>15 DEF Poll, Slots, SentInfo, At, Goto, ringVars, stopVars, histVars
  <2>2. Writers'
    BY <1>15 DEF Poll, Writers, Writing, SentInfo, TypeOK, Process, At, Goto, ringVars, stopVars,
       histVars
  <2>3. Waiting'
    BY <1>15 DEF Poll, Waiting, Active, Opening, Due, SentInfo, TypeOK, Process, At, Goto,
       ringVars, stopVars, histVars
  <2>4. Delivered'
    BY <1>15 DEF Poll, Delivered, SentInfo, At, Goto, ringVars, stopVars, histVars
  <2>. QED  BY <2>1, <2>2, <2>3, <2>4
<1>16. ASSUME NEW l \in Listeners, CheckReady(l)
     PROVE  Slots' /\ Writers' /\ Waiting' /\ Delivered'
  <2>1. /\ next_seq' = next_seq /\ infos' = infos /\ seqs' = seqs /\ sent' = sent
        /\ nseq' = nseq /\ ninfo' = ninfo /\ joined' = joined
    BY <1>16 DEF CheckReady, At, Goto, ringVars, stopVars, histVars
  <2>2. Active(l) /\ pc[l] \in Due
    BY <1>16 DEF CheckReady, Active, Opening, Due, At, Goto, ringVars, stopVars, histVars
  <2>3. Slots'
    BY <2>1 DEF Slots, SentInfo
  <2>4. Writers'
    <3>1. \A n \in Notifiers : pc'[n] = pc[n]
      BY <1>16, RingAssumption DEF CheckReady, TypeOK, Process, At, Goto, ringVars, stopVars,
         histVars
    <3>. QED  BY <2>1, <3>1 DEF Writers, SentInfo
  <2>5. ActualSeq(l) = cursor[l]
    <3>1. /\ cursor[l] \in Nat /\ SlotOf(cursor[l]) \in Slot /\ cursor[l] >= StartSeq
          /\ cursor[l] >= next_seq - BufLength /\ cursor[l] < next_seq
      BY <2>2, ListenerSlot
    <3>2. ActualSeq(l) \in Nat /\ ActualSeq(l) >= cursor[l]
      BY <1>16, <3>1, SlotsTypes DEF CheckReady, ActualSeq
    <3>3. CASE ActualSeq(l) = 0
      BY <3>1, <3>2, <3>3
    <3>4. CASE ActualSeq(l) > 0
      <4>1. ActualSeq(l) < next_seq /\ SlotOf(ActualSeq(l)) = SlotOf(cursor[l])
        BY <3>1, <3>2, <3>4, SlotsTypes DEF Slots, ActualSeq
      <4>2. ActualSeq(l) >= next_seq - BufLength
        BY <3>1, <3>2, SlotsTypes
      <4>. QED  BY <3>1, <3>2, <4>1, <4>2, Window
    <3>. QED  BY <3>2, <3>3, <3>4
  <2>6. cursor'[l] = cursor[l] /\ pc'[l] = "getchannel" /\ delivered' = delivered
    BY <1>16, <2>5 DEF CheckReady, TypeOK, Process, At, Goto, ringVars, stopVars, histVars
  <2>7. Delivered'
    BY <2>1, <2>6 DEF Delivered, SentInfo
  <2>8. Waiting'
    <3>. SUFFICES ASSUME NEW m \in Listeners, Active(m)'
         PROVE  /\ joined'[m] >= StartSeq /\ cursor'[m] = joined'[m] + Len(delivered'[m])
                /\ cursor'[m] <= next_seq' /\ cursor'[m] >= next_seq' - BufLength
                /\ pc'[m] \in Due => cursor'[m] < next_seq'
                /\ pc'[m] \in {"getchannel", "getblock"} /\ cursor'[m] > 0 =>
                      seqs'[SlotOf(cursor'[m])] = cursor'[m]
                /\ pc'[m] = "getblock" /\ cursor'[m] > 0 =>
                      linfo'[m].channel = SentInfo(cursor[m])'.channel
      BY DEF Waiting
    <3>1. CASE m = l
      <4>1. seqs[SlotOf(cursor[l])] = cursor[l]
        BY <2>5 DEF ActualSeq
      <4>. QED  BY <2>1, <2>2, <2>6, <3>1, <4>1 DEF Waiting, Due
    <3>2. CASE m # l
      <4>1. /\ Active(m) /\ pc'[m] = pc[m] /\ cursor'[m] = cursor[m] /\ linfo'[m] = linfo[m]
            /\ delivered'[m] = delivered[m]
        BY <1>16, <3>2 DEF CheckReady, Active, Histories, TypeOK, Process, At, Goto, ringVars,
           stopVars, histVars
      <4>. QED  BY <2>1, <4>1 DEF Waiting, SentInfo
    <3>. QED  BY <3>1, <3>2
  <2>. QED  BY <2>3, <2>4, <2>7, <2>8
<1>17. ASSUME NEW l \in Listeners, CheckNotReady(l)
     PROVE  Slots' /\ Writers' /\ Waiting' /\ Delivered'
  <2>1. Slots'
    BY <1>17 DEF CheckNotReady, Slots, SentInfo, At, Goto, ringVars, stopVars, histVars
  <2>2. Writers'
    BY <1>17 DEF CheckNotReady, Writers, Writing, SentInfo, TypeOK, Process, At, Goto, ringVars,
       stopVars, histVars
  <2>3. Waiting'
    BY <1>17 DEF CheckNotReady, Waiting, Active, Opening, Due, SentInfo, TypeOK, Process, At,
       Goto, ringVars, stopVars, histVars
  <2>4. Delivered'
    BY <1>17 DEF CheckNotReady, Delivered, SentInfo, At, Goto, ringVars, stopVars, histVars
  <2>. QED  BY <2>1, <2>2, <2>3, <2>4
<1>18. ASSUME NEW l \in Listeners, LoadChannel(l)
     PROVE  Slots' /\ Writers' /\ Waiting' /\ Delivered'
  <2>1. /\ next_seq' = next_seq /\ infos' = infos /\ seqs' = seqs /\ sent' = sent
        /\ nseq' = nseq /\ ninfo' = ninfo /\ joined' = joined
    BY <1>18 DEF LoadChannel, At, Goto, ringVars, stopVars, histVars
  <2>2. Active(l) /\ pc[l] \in Due
    BY <1>18 DEF LoadChannel, Active, Opening, Due, At, Goto, ringVars, stopVars, histVars
  <2>3. Slots'
    BY <2>1 DEF Slots, SentInfo
  <2>4. Writers'
    <3>1. \A n \in Notifiers : pc'[n] = pc[n]
      BY <1>18, RingAssumption DEF LoadChannel, TypeOK, Process, At, Goto, ringVars, stopVars,
         histVars
    <3>. QED  BY <2>1, <3>1 DEF Writers, SentInfo
  <2>5. infos[SlotOf(cursor[l])] \in Info /\ cursor[l] \in Nat
    BY <2>2, ListenerSlot, SlotsTypes
  <2>6. cursor' = cursor /\ pc'[l] = "getblock" /\ pc[l] = "getchannel" /\ delivered' = delivered
        /\ linfo'[l].channel = infos[SlotOf(cursor[l])].channel
    <3>1. infos[SlotOf(cursor[l])].channel \in Channel \cup {NoChannel}
      BY <2>5 DEF Info
    <3>2. linfo' = [linfo EXCEPT ![l].channel = infos[SlotOf(cursor[l])].channel]
      BY <1>18 DEF LoadChannel
    <3>3. linfo'[l].channel = infos[SlotOf(cursor[l])].channel
      BY <3>1, <3>2, ChannelUpdate DEF TypeOK, Info
    <3>. QED  BY <1>18, <3>3 DEF LoadChannel, TypeOK, Process, At, Goto, ringVars, stopVars, histVars
  <2>7. Delivered'
    BY <2>1, <2>6 DEF Delivered, SentInfo
  <2>8. Waiting'
    <3>. SUFFICES ASSUME NEW m \in Listeners, Active(m)'
         PROVE  /\ joined'[m] >= StartSeq /\ cursor'[m] = joined'[m] + Len(delivered'[m])
                /\ cursor'[m] <= next_seq' /\ cursor'[m] >= next_seq' - BufLength
                /\ pc'[m] \in Due => cursor'[m] < next_seq'
                /\ pc'[m] \in {"getchannel", "getblock"} /\ cursor'[m] > 0 =>
                      seqs'[SlotOf(cursor'[m])] = cursor'[m]
                /\ pc'[m] = "getblock" /\ cursor'[m] > 0 =>
                      linfo'[m].channel = SentInfo(cursor[m])'.channel
      BY DEF Waiting
    <3>1. CASE m = l
      <4>1. cursor[l] > 0 => infos[SlotOf(cursor[l])] = SentInfo(cursor[l])
        <5>1. cursor[l] > 0 => seqs[SlotOf(cursor[l])] = cursor[l]
          BY <2>2, <2>6 DEF Waiting
        <5>. QED  BY <2>2, <5>1, ListenerSlot DEF Slots
      <4>2. SentInfo(cursor[l])' = SentInfo(cursor[l])
        BY <2>1, <2>6 DEF SentInfo
      <4>. QED  BY <2>1, <2>2, <2>6, <3>1, <4>1, <4>2 DEF Waiting, Due
    <3>2. CASE m # l
      <4>1. /\ Active(m) /\ pc'[m] = pc[m] /\ cursor'[m] = cursor[m] /\ linfo'[m] = linfo[m]
            /\ delivered'[m] = delivered[m]
        BY <1>18, <3>2 DEF LoadChannel, Active, Histories, TypeOK, Process, At, Goto, ringVars,
           stopVars, histVars
      <4>. QED  BY <2>1, <4>1 DEF Waiting, SentInfo
    <3>. QED  BY <3>1, <3>2
  <2>. QED  BY <2>3, <2>4, <2>7, <2>8
<1>19. ASSUME NEW l \in Listeners, LoadBlock(l)
     PROVE  Slots' /\ Writers' /\ Waiting' /\ Delivered'
  <2>1. /\ next_seq' = next_seq /\ infos' = infos /\ seqs' = seqs /\ sent' = sent
        /\ nseq' = nseq /\ ninfo' = ninfo /\ joined' = joined
    BY <1>19 DEF LoadBlock, At, Goto, ringVars, stopVars, histVars
  <2>2. Active(l) /\ pc[l] \in Due
    BY <1>19 DEF LoadBlock, Active, Opening, Due, At, Goto, ringVars, stopVars, histVars
  <2>3. Slots'
    BY <2>1 DEF Slots, SentInfo
  <2>4. Writers'
    <3>1. \A n \in Notifiers : pc'[n] = pc[n]
      BY <1>19, RingAssumption DEF LoadBlock, TypeOK, Process, At, Goto, ringVars, stopVars,
         histVars
    <3>. QED  BY <2>1, <3>1 DEF Writers, SentInfo
  <2>5. /\ cursor'[l] = cursor[l] + 1 /\ pc'[l] = "idle" /\ pc[l] = "getblock"
        /\ \A m \in Listeners \ {l} : delivered'[m] = delivered[m]
    BY <1>19, DeliveredStep DEF LoadBlock, TypeOK, Process, At, Goto, ringVars, stopVars, histVars
  <2>6. cursor[l] > 0 => linfo'[l] = SentInfo(cursor[l])
    <3>. SUFFICES ASSUME cursor[l] > 0
         PROVE  linfo'[l] = SentInfo(cursor[l])
      OBVIOUS
    <3>1. seqs[SlotOf(cursor[l])] = cursor[l] /\ linfo[l].channel = SentInfo(cursor[l]).channel
      BY <2>2, <2>5 DEF Waiting
    <3>2. infos[SlotOf(cursor[l])] = SentInfo(cursor[l])
      BY <2>2, <3>1, ListenerSlot DEF Slots
    <3>3. infos[SlotOf(cursor[l])] \in Info
      BY <2>2, ListenerSlot, SlotsTypes
    <3>4. /\ linfo'[l].block = infos[SlotOf(cursor[l])].block /\ linfo'[l].channel = linfo[l].channel
          /\ linfo'[l] \in Info
      <4>1. infos[SlotOf(cursor[l])].block \in BlockIndex
        BY <3>3 DEF Info
      <4>2. linfo' = [linfo EXCEPT ![l].block = infos[SlotOf(cursor[l])].block]
        BY <1>19 DEF LoadBlock
      <4>3. linfo \in [Listeners -> Info]
        BY DEF TypeOK, Info
      <4>. QED  BY <4>1, <4>2, <4>3, BlockUpdate
    <3>. QED  BY <3>1, <3>2, <3>3, <3>4 DEF Info
  <2>7. Delivered'
    <3>. SUFFICES ASSUME NEW m \in Listeners, NEW i \in DOMAIN delivered'[m]
         PROVE  LET d == delivered'[m][i]
                IN  /\ d.seq = joined[m] + i - 1 /\ d.seq >= StartSeq /\ d.seq < next_seq
                    /\ d.seq > 0 => d.info = SentInfo(d.seq)
      BY <2>1 DEF Delivered, SentInfo
    <3>1. CASE m # l
      BY <2>5, <3>1 DEF Delivered
    <3>2. CASE m = l
      <4>1. /\ Len(delivered'[l]) = Len(delivered[l]) + 1 /\ delivered'[l] \in Seq(Delivery)
            /\ delivered'[l][Len(delivered[l]) + 1] = [seq |-> cursor[l], info |-> linfo'[l]]
            /\ \A j \in 1 .. Len(delivered[l]) : delivered'[l][j] = delivered[l][j]
            /\ Len(delivered[l]) \in Nat
        BY <1>19, DeliveredStep
      <4>2. i \in 1 .. Len(delivered[l]) + 1
        BY <3>2, <4>1, LenProperties
      <4>3. CASE i = Len(delivered[l]) + 1
        <5>1. delivered'[m][i].seq = cursor[l] /\ delivered'[m][i].info = linfo'[l]
          BY <3>2, <4>1, <4>3
        <5>. QED  BY <2>2, <2>6, <3>2, <4>3, <5>1, ListenerSlot, SlotsTypes
      <4>4. CASE i \in 1 .. Len(delivered[l])
        <5>1. i \in DOMAIN delivered[l] /\ delivered'[m][i] = delivered[m][i]
          BY <3>2, <4>1, <4>4, LenProperties DEF Histories
        <5>. QED  BY <3>2, <5>1 DEF Delivered
      <4>. QED  BY <4>1, <4>2, <4>3, <4>4
    <3>. QED  BY <3>1, <3>2
  <2>8. Waiting'
    <3>. SUFFICES ASSUME NEW m \in Listeners, Active(m)'
         PROVE  /\ joined'[m] >= StartSeq /\ cursor'[m] = joined'[m] + Len(delivered'[m])
                /\ cursor'[m] <= next_seq' /\ cursor'[m] >= next_seq' - BufLength
                /\ pc'[m] \in Due => cursor'[m] < next_seq'
                /\ pc'[m] \in {"getchannel", "getblock"} /\ cursor'[m] > 0 =>
                      seqs'[SlotOf(cursor'[m])] = cursor'[m]
                /\ pc'[m] = "getblock" /\ cursor'[m] > 0 =>
                      linfo'[m].channel = SentInfo(cursor[m])'.channel
      BY DEF Waiting
    <3>1. CASE m = l
      <4>1. Len(delivered'[l]) = Len(delivered[l]) + 1
        BY <1>19, DeliveredStep
      <4>2. /\ cursor[l] \in Nat /\ cursor[l] < next_seq /\ cursor[l] >= next_seq - BufLength
            /\ joined[l] \in Nat /\ joined[l] >= StartSeq /\ Len(delivered[l]) \in Nat
            /\ cursor[l] = joined[l] + Len(delivered[l])
        BY <2>2, ListenerSlot
      <4>3. /\ cursor'[m] = cursor[l] + 1 /\ pc'[m] = "idle" /\ joined'[m] = joined[l]
            /\ Len(delivered'[m]) = Len(delivered[l]) + 1 /\ next_seq' = next_seq
        BY <2>1, <2>5, <3>1, <4>1
      <4>4. next_seq \in Nat /\ BufLength \in Nat
        BY SlotsTypes
      <4>5. /\ joined'[m] >= StartSeq /\ cursor'[m] = joined'[m] + Len(delivered'[m])
            /\ cursor'[m] <= next_seq' /\ cursor'[m] >= next_seq' - BufLength
        BY <4>2, <4>3, <4>4
      <4>6. pc'[m] \notin Due /\ pc'[m] \notin {"getchannel", "getblock"} /\ pc'[m] # "getblock"
        BY <4>3 DEF Due
      <4>. QED  BY <4>5, <4>6
    <3>2. CASE m # l
      <4>1. /\ Active(m) /\ pc'[m] = pc[m] /\ cursor'[m] = cursor[m] /\ linfo'[m] = linfo[m]
            /\ delivered'[m] = delivered[m]
        BY <1>19, <3>2 DEF LoadBlock, Active, Histories, TypeOK, Process, At, Goto, ringVars,
           stopVars, histVars
      <4>. QED  BY <2>1, <4>1 DEF Waiting, SentInfo
    <3>. QED  BY <3>1, <3>2
  <2>. QED  BY <2>3, <2>4, <2>7, <2>8
<1>20. ASSUME NEW n \in Notifiers, NEW info \in ReadableInfo, BeginNotify(n, info)
     PROVE  Slots' /\ Writers' /\ Waiting' /\ Delivered'
  <2>1. Slots'
    BY <1>20 DEF BeginNotify, Slots, SentInfo, At, Goto, ringVars, stopVars, histVars
  <2>2. Writers'
    BY <1>20 DEF BeginNotify, Writers, Writing, SentInfo, TypeOK, Process, At, Goto, ringVars,
       stopVars, histVars
  <2>3. Waiting'
    BY <1>20 DEF BeginNotify, Waiting, Active, Opening, Due, SentInfo, TypeOK, Process, At, Goto,
       ringVars, stopVars, histVars
  <2>4. Delivered'
    BY <1>20 DEF BeginNotify, Delivered, SentInfo, At, Goto, ringVars, stopVars, histVars
  <2>. QED  BY <2>1, <2>2, <2>3, <2>4
<1>21. CASE UNCHANGED vars
  BY <1>21 DEF vars, Slots, Writers, Waiting, Active, Delivered, SentInfo, At, Goto, ringVars,
     stopVars, histVars
<1>. QED
  BY <1>1, <1>2, <1>3, <1>4, <1>5, <1>6, <1>7, <1>8, <1>9, <1>10, <1>11, <1>12, <1>13, <1>14,
     <1>15, <1>16, <1>17, <1>18, <1>19, <1>20, <1>21
  DEF Next, Open, NotifyStep, ListenStep

-----------------------------------------------------------------------------
(* Theorems *)

LEMMA InitIInv == Init => IInv
BY InitTypes, InitForward, InitUndisturbed DEF IInv

LEMMA StepIInv == IInv /\ [Next]_vars => IInv'
<1>. SUFFICES ASSUME IInv, [Next]_vars
     PROVE  IInv'
  OBVIOUS
<1>1. TypeOK /\ Histories /\ Creation /\ Bounds /\ Forward
  BY DEF IInv, Types
<1>2. TypeOK' /\ Histories' /\ Creation' /\ Bounds'
  BY <1>1, TypesStep
<1>3. Forward'
  BY <1>1, ForwardStep
<1>4. Undisturbed' => Undisturbed
  BY <1>1 DEF Undisturbed, Next, vars, Open, NotifyStep, ListenStep, Create, OpenOnly, Construct,
       LoadNextSeq, BeginNotify, NotifyRefused, DrawSeq, StoreChannel, StoreBlock, StoreSeq,
       TestShutdown, Poll, CheckReady, CheckNotReady, LoadChannel, LoadBlock, Shutdown, Detach,
       Fault, Die, histVars
<1>5. Undisturbed' => Slots' /\ Writers' /\ Waiting' /\ Delivered'
  BY <1>1, <1>4, UndisturbedStep DEF IInv
<1>. QED  BY <1>2, <1>3, <1>5 DEF IInv, Types, Undisturbed

\* The inductive invariant of the ring's numbers, slots and readers holds in every
\* state that the Notify and Listen of any number of processes lead to.
THEOREM Invariance == Spec => []IInv
BY InitIInv, StepIInv, PTL DEF Spec

\* The numbers in the ring, in the hands of notifiers and of listeners stay in
\* the range that has been drawn, whatever overruns, dies or is detached.
THEOREM TypeCorrect == Spec => []TypeOK
<1>1. IInv => TypeOK
  BY DEF IInv, Types
<1>. QED  BY <1>1, Invariance, PTL

\* Notify and Listen, whose stores and loads nothing synchronises, hand every
\* announcement since a listener joined over to it, exactly once, in order and
\* whole, for as long as no slot is reused under a process that still needs it.
THEOREM RingDelivers == Spec => []ExactlyOnceInOrder
<1>1. IInv => ExactlyOnceInOrder
  BY DEF IInv, Delivered, ExactlyOnceInOrder
<1>. QED  BY <1>1, Invariance, PTL

\* A listener is never given a number it has had or passed, also when the ring
\* is overrun, built under it or left by notifiers that died: Listen's jump and
\* its increment only move next_seq_ on.
THEOREM DeliveryMovesOn == Spec => NeverBackwards
<1>. DEFINE Step == \A l \in Listeners :
          delivered'[l] # delivered[l] /\ delivered[l] # <<>>
              => delivered'[l][Len(delivered'[l])].seq > delivered[l][Len(delivered[l])].seq
<1>1. IInv /\ [Next]_vars => [Step]_vars
  <2>. SUFFICES ASSUME IInv, [Next]_vars, NEW m \in Listeners,
                       delivered'[m] # delivered[m], delivered[m] # <<>>
       PROVE  delivered'[m][Len(delivered'[m])].seq > delivered[m][Len(delivered[m])].seq
    OBVIOUS
  <2>1. TypeOK /\ Histories /\ Forward
    BY DEF IInv, Types
  <2>2. PICK l \in Listeners : LoadBlock(l)
    BY DEF Next, vars, Open, NotifyStep, ListenStep, Create, OpenOnly, Construct,
       LoadNextSeq, BeginNotify, NotifyRefused, DrawSeq, StoreChannel, StoreBlock, StoreSeq,
       TestShutdown, Poll, CheckReady, CheckNotReady, LoadChannel, Shutdown, Detach,
       Fault, Die, histVars
  <2>3. /\ Len(delivered'[l]) = Len(delivered[l]) + 1
        /\ delivered'[l][Len(delivered[l]) + 1] = [seq |-> cursor[l], info |-> linfo'[l]]
        /\ \A o \in Listeners \ {l} : delivered'[o] = delivered[o]
    BY <2>1, <2>2, DeliveredStep
  <2>4. m = l /\ delivered'[m][Len(delivered'[m])].seq = cursor[m]
    BY <2>3
  <2>5. delivered[m][Len(delivered[m])].seq < cursor[m]
    BY <2>1 DEF Forward
  <2>6. cursor[m] \in Nat /\ delivered[m][Len(delivered[m])].seq \in Nat
    BY <2>1, LastDelivered, RingAssumption DEF TypeOK
  <2>. QED  BY <2>4, <2>5, <2>6
<1>. QED  BY <1>1, Invariance, PTL DEF Spec, NeverBackwards
=============================================================================
