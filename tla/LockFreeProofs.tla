--------------------------- MODULE LockFreeProofs ---------------------------
(***************************************************************************)
(* Proofs about the lock-free structures of base/.                         *)
(*                                                                         *)
(* AtomicRWLock, for every finite set of threads and both preferences: the *)
(* counters are tied to the sets of holders by CountersMatchHolders;       *)
(* everything else follows from that tie.                                  *)
(*                                                                         *)
(* AtomicHashMap, for every set of callers, keys and addresses: MapInv     *)
(* says where a call stands in the list and who owns the memory; from it   *)
(* follow that the bucket stays intact and that it implements AtomicMap.   *)
(*                                                                         *)
(* UnboundedQueue, for any number of producers, consumers and nodes:       *)
(* ListInv says who holds which reference of a node.  A reference is that  *)
(* of the tail, from tail_ to the producer that moves it away, or that of  *)
(* the head; refs counts the two.  A thread that has released its          *)
(* reference may be stale, and knows nothing.                              *)
(***************************************************************************)
EXTENDS AtomicRWLock, AtomicHashMap, UnboundedQueue,
        FiniteSetTheorems, FunctionTheorems, SequenceTheorems, WellFoundedInduction, TLAPS

-----------------------------------------------------------------------------
(* AtomicRWLock *)

\* A reader about to compare-and-swap has seen a lock word that is not a
\* writer's, so a successful swap means that no writer is inside.
CasLocal == \A t \in Thread : pc[t] = "r_cas" => local[t] >= 0

\* Writers leave the history of every reader when they get the lock, and a
\* reader that passed need_wait() saw an announcement counter of zero.
AheadWaits ==
    /\ \A r \in Thread : ahead[r] \subseteq Waiting
    /\ WriteFirst => \A r \in Thread : pc[r] \in {"r_cas", "reading"} => ahead[r] = {}

\* The ranges that hold step by step; TypeOK's bounds follow from the counts.
WeakTypeOK ==
    /\ lock_num \in Int
    /\ write_lock_wait_num \in Nat
    /\ pc \in [Thread -> {"idle", "r_check", "r_reload", "r_cas", "reading",
                          "w_cas", "w_done", "writing"}]
    /\ local \in [Thread -> -1 .. Cardinality(Thread)]
    /\ ahead \in [Thread -> SUBSET Thread]

IInv == WeakTypeOK /\ CountersMatchHolders /\ CasLocal /\ AheadWaits

-----------------------------------------------------------------------------
\* The sets of holders are subsets of the finite set Thread, so that their
\* cardinalities are naturals and at most Cardinality(Thread).
LEMMA HoldersFinite ==
    /\ IsFiniteSet(Readers) /\ IsFiniteSet(Announced)
    /\ Cardinality(Readers) \in 0 .. Cardinality(Thread)
    /\ Cardinality(Announced) \in 0 .. Cardinality(Thread)
    /\ Cardinality(Thread) \in Nat
<1>1. IsFiniteSet(Thread)
    BY ThreadAssumption
<1>2. Readers \in SUBSET Thread /\ Announced \in SUBSET Thread
    BY DEF Readers, Announced
<1>3. /\ IsFiniteSet(Readers) /\ Cardinality(Readers) <= Cardinality(Thread)
      /\ IsFiniteSet(Announced) /\ Cardinality(Announced) <= Cardinality(Thread)
    BY <1>1, <1>2, FS_Subset
<1>4. Cardinality(Thread) \in Nat /\ Cardinality(Readers) \in Nat /\ Cardinality(Announced) \in Nat
    BY <1>1, <1>3, FS_CardinalityType
<1> QED
    BY <1>3, <1>4

\* The invariant bounds the two counters.
LEMMA IInvImpliesTypeOK == IInv => TypeOK
<1> SUFFICES ASSUME IInv PROVE TypeOK
    OBVIOUS
<1>1. lock_num \in -1 .. Cardinality(Thread)
    BY HoldersFinite DEF IInv, CountersMatchHolders, WRITE_EXCLUSIVE
<1>2. write_lock_wait_num \in 0 .. Cardinality(Thread)
    BY HoldersFinite DEF IInv, CountersMatchHolders
<1> QED
    BY <1>1, <1>2 DEF IInv, WeakTypeOK, TypeOK

\* A thread that enters a set of holders adds one to its cardinality, a thread
\* that leaves takes one away.
LEMMA CountStep ==
    ASSUME NEW S, NEW T, NEW t, IsFiniteSet(S)
    PROVE  /\ (t \notin S /\ T = S \cup {t}) => Cardinality(T) = Cardinality(S) + 1
           /\ (t \in S /\ T = S \ {t}) => Cardinality(T) = Cardinality(S) - 1
BY FS_AddElement, FS_RemoveElement

-----------------------------------------------------------------------------
LEMMA InitIInv == Init => IInv
<1> SUFFICES ASSUME Init PROVE IInv
    OBVIOUS
<1>1. Readers = {} /\ Writers = {} /\ Announced = {} /\ Waiting = {}
    BY DEF Init, Readers, Writers, Announced, Waiting
<1>2. Cardinality({}) = 0
    BY FS_EmptySet
<1>3. WeakTypeOK
    BY HoldersFinite DEF Init, WeakTypeOK, RW_LOCK_FREE
<1>4. CountersMatchHolders
    BY <1>1, <1>2 DEF Init, CountersMatchHolders, RW_LOCK_FREE
<1>5. CasLocal /\ AheadWaits
    BY DEF Init, CasLocal, AheadWaits
<1> QED
    BY <1>3, <1>4, <1>5 DEF IInv

\* Every step preserves the invariant: one step per action, and under it one
\* step per conjunct that the action can disturb.
LEMMA NextIInv == IInv /\ [Next]_vars => IInv'
<1> SUFFICES ASSUME IInv, [Next]_vars PROVE IInv'
    OBVIOUS
<1>t. TypeOK
    BY IInvImpliesTypeOK
<1> USE DEF IInv
<1>1. ASSUME NEW t \in Thread, BeginReadLock(t) PROVE IInv'
    <2>1. WeakTypeOK'
        BY <1>t, <1>1 DEF WeakTypeOK, TypeOK, BeginReadLock, Waiting
    <2>2. UNCHANGED <<Readers, Writers, Announced, Waiting>>
        BY <1>1 DEF WeakTypeOK, BeginReadLock, Readers, Writers, Announced, Waiting
    <2>3. CountersMatchHolders'
        BY <1>1, <2>2 DEF CountersMatchHolders, BeginReadLock
    <2>4. CasLocal' /\ AheadWaits'
        BY <1>1, <2>2 DEF WeakTypeOK, BeginReadLock, CasLocal, AheadWaits
    <2> QED
        BY <2>1, <2>3, <2>4
<1>2. ASSUME NEW t \in Thread, ReadLockCheck(t) PROVE IInv'
    <2>1. WeakTypeOK'
        BY <1>2 DEF WeakTypeOK, ReadLockCheck
    <2>2. UNCHANGED <<Readers, Writers, Announced, Waiting>>
        BY <1>2 DEF WeakTypeOK, ReadLockCheck, Readers, Writers, Announced, Waiting
    <2>3. CountersMatchHolders' /\ CasLocal'
        BY <1>2, <2>2 DEF WeakTypeOK, CountersMatchHolders, CasLocal, ReadLockCheck, NeedWait, RW_LOCK_FREE
    <2>4. WriteFirst /\ pc'[t] = "r_cas" => ahead[t] = {}
        <3> SUFFICES ASSUME WriteFirst, pc'[t] = "r_cas" PROVE ahead[t] = {}
            OBVIOUS
        <3>1. write_lock_wait_num = 0
            BY <1>2 DEF WeakTypeOK, ReadLockCheck, NeedWait
        <3>2. Announced = {}
            BY <3>1, HoldersFinite, FS_EmptySet DEF CountersMatchHolders
        <3> QED
            BY <3>2 DEF AheadWaits, Waiting, Announced
    <2>5. AheadWaits'
        BY <1>2, <2>2, <2>4 DEF WeakTypeOK, AheadWaits, ReadLockCheck
    <2> QED
        BY <2>1, <2>3, <2>5
<1>3. ASSUME NEW t \in Thread, ReadLockReload(t) \/ ReadLockCasFails(t) \/ ReadLockCasSpurious(t)
      PROVE IInv'
    <2> USE DEF ReadLockReload, ReadLockCasFails, ReadLockCasSpurious
    <2>1. WeakTypeOK'
        BY <1>t, <1>3 DEF WeakTypeOK, TypeOK
    <2>2. UNCHANGED <<Readers, Writers, Announced, Waiting>>
        BY <1>3 DEF WeakTypeOK, Readers, Writers, Announced, Waiting
    <2>3. CountersMatchHolders'
        BY <1>3, <2>2 DEF CountersMatchHolders
    <2>4. CasLocal' /\ AheadWaits'
        BY <1>3, <2>2 DEF WeakTypeOK, CasLocal, AheadWaits
    <2> QED
        BY <2>1, <2>3, <2>4
<1>4. ASSUME NEW t \in Thread, ReadLockCas(t) PROVE IInv'
    <2>1. WeakTypeOK'
        BY <1>4 DEF WeakTypeOK, ReadLockCas
    <2>2. Writers = {} /\ lock_num = Cardinality(Readers)
        BY <1>4 DEF WeakTypeOK, ReadLockCas, CountersMatchHolders, CasLocal, WRITE_EXCLUSIVE
    <2>3. /\ t \notin Readers /\ Readers' = Readers \cup {t}
          /\ UNCHANGED <<Writers, Announced, Waiting>>
        BY <1>4 DEF WeakTypeOK, ReadLockCas, Readers, Writers, Announced, Waiting
    <2>4. Cardinality(Readers') = Cardinality(Readers) + 1
        BY <2>3, CountStep, HoldersFinite
    <2>5. CountersMatchHolders'
        BY <1>4, <2>2, <2>3, <2>4 DEF CountersMatchHolders, ReadLockCas
    <2>6. CasLocal' /\ AheadWaits'
        BY <1>4, <2>3 DEF WeakTypeOK, ReadLockCas, CasLocal, AheadWaits
    <2> QED
        BY <2>1, <2>5, <2>6
<1>5. ASSUME NEW t \in Thread, ReadUnlock(t) PROVE IInv'
    <2>1. WeakTypeOK'
        BY <1>5 DEF WeakTypeOK, ReadUnlock
    <2>2. /\ t \in Readers /\ Readers' = Readers \ {t}
          /\ UNCHANGED <<Writers, Announced, Waiting>>
        BY <1>5 DEF WeakTypeOK, ReadUnlock, Readers, Writers, Announced, Waiting
    <2>3. Cardinality(Readers') = Cardinality(Readers) - 1
        BY <2>2, CountStep, HoldersFinite
    <2>4. CountersMatchHolders'
        BY <1>5, <2>2, <2>3 DEF CountersMatchHolders, ReadUnlock
    <2>5. CasLocal' /\ AheadWaits'
        BY <1>5, <2>2 DEF WeakTypeOK, ReadUnlock, CasLocal, AheadWaits
    <2> QED
        BY <2>1, <2>4, <2>5
<1>6. ASSUME NEW t \in Thread, BeginWriteLock(t) PROVE IInv'
    <2>1. WeakTypeOK'
        BY <1>6 DEF WeakTypeOK, BeginWriteLock
    <2>2. /\ t \notin Announced /\ Announced' = Announced \cup {t}
          /\ Waiting \subseteq Waiting'
          /\ UNCHANGED <<Readers, Writers>>
        BY <1>6 DEF WeakTypeOK, BeginWriteLock, Readers, Writers, Announced, Waiting
    <2>3. Cardinality(Announced') = Cardinality(Announced) + 1
        BY <2>2, CountStep, HoldersFinite
    <2>4. CountersMatchHolders'
        BY <1>6, <2>2, <2>3 DEF CountersMatchHolders, BeginWriteLock
    <2>5. CasLocal' /\ AheadWaits'
        BY <1>6, <2>2 DEF WeakTypeOK, BeginWriteLock, CasLocal, AheadWaits
    <2> QED
        BY <2>1, <2>4, <2>5
<1>7. ASSUME NEW t \in Thread, WriteLockCas(t) PROVE IInv'
    <2>1. WeakTypeOK'
        BY <1>7 DEF WeakTypeOK, WriteLockCas, WRITE_EXCLUSIVE
    <2>2. Writers = {} /\ Readers = {}
        BY <1>7, HoldersFinite, FS_EmptySet
        DEF WriteLockCas, CountersMatchHolders, WRITE_EXCLUSIVE, RW_LOCK_FREE
    <2>3. /\ Writers' = Writers \cup {t}
          /\ Waiting' = Waiting \ {t}
          /\ UNCHANGED <<Readers, Announced>>
        BY <1>7 DEF WeakTypeOK, WriteLockCas, Readers, Writers, Announced, Waiting
    <2>4. CountersMatchHolders'
        BY <1>7, <2>2, <2>3 DEF CountersMatchHolders, WriteLockCas
    <2>5. CasLocal' /\ AheadWaits'
        BY <1>7, <2>3 DEF WeakTypeOK, WriteLockCas, CasLocal, AheadWaits
    <2> QED
        BY <2>1, <2>4, <2>5
<1>8. ASSUME NEW t \in Thread, EndWriteLock(t) PROVE IInv'
    <2>1. /\ t \in Announced /\ Announced' = Announced \ {t}
          /\ UNCHANGED <<Readers, Writers, Waiting>>
        BY <1>8 DEF WeakTypeOK, EndWriteLock, Readers, Writers, Announced, Waiting
    <2>2. Cardinality(Announced') = Cardinality(Announced) - 1
        BY <2>1, CountStep, HoldersFinite
    <2>3. CountersMatchHolders'
        BY <1>8, <2>1, <2>2 DEF CountersMatchHolders, EndWriteLock
    <2>4. write_lock_wait_num' \in Nat
        BY <2>3, HoldersFinite, <2>1, <2>2, FS_RemoveElement, FS_CardinalityType DEF CountersMatchHolders
    <2>5. WeakTypeOK'
        BY <1>8, <2>4 DEF WeakTypeOK, EndWriteLock
    <2>6. CasLocal' /\ AheadWaits'
        BY <1>8, <2>1 DEF WeakTypeOK, EndWriteLock, CasLocal, AheadWaits
    <2> QED
        BY <2>3, <2>5, <2>6
<1>9. ASSUME NEW t \in Thread, WriteUnlock(t) PROVE IInv'
    <2>1. WeakTypeOK'
        BY <1>9 DEF WeakTypeOK, WriteUnlock
    <2>2. /\ t \in Writers /\ Writers' = Writers \ {t}
          /\ UNCHANGED <<Readers, Announced, Waiting>>
        BY <1>9 DEF WeakTypeOK, WriteUnlock, Readers, Writers, Announced, Waiting
    <2>3. lock_num = -1 /\ Readers = {} /\ Writers = {t}
        BY <2>2 DEF CountersMatchHolders, WRITE_EXCLUSIVE
    <2>4. CountersMatchHolders'
        BY <1>9, <2>2, <2>3, FS_EmptySet DEF CountersMatchHolders, WriteUnlock
    <2>5. CasLocal' /\ AheadWaits'
        BY <1>9, <2>2 DEF WeakTypeOK, WriteUnlock, CasLocal, AheadWaits
    <2> QED
        BY <2>1, <2>4, <2>5
<1>10. CASE UNCHANGED vars
    <2>1. UNCHANGED <<Readers, Writers, Announced, Waiting>>
        BY <1>10 DEF vars, Readers, Writers, Announced, Waiting
    <2> QED
        BY <1>10, <2>1 DEF vars, WeakTypeOK, CountersMatchHolders, CasLocal, AheadWaits
<1> QED
    BY <1>1, <1>2, <1>3, <1>4, <1>5, <1>6, <1>7, <1>8, <1>9, <1>10 DEF Next, Step

-----------------------------------------------------------------------------
\* The inductive invariant holds in every behaviour.
THEOREM InductiveInvariant == Spec => []IInv
<1> QED
    BY InitIInv, NextIInv, PTL DEF Spec

\* Both counters stay in range: fetch_sub and the unlocks never underflow.
THEOREM TypeCorrect == Spec => []TypeOK
<1> QED
    BY InductiveInvariant, IInvImpliesTypeOK, PTL

\* The lock word and the announcement counter always count the threads inside.
THEOREM CountersCorrect == Spec => []CountersMatchHolders
<1>1. IInv => CountersMatchHolders
    BY DEF IInv
<1> QED
    BY <1>1, InductiveInvariant, PTL

\* A writer excludes everybody else, for any number of threads.
THEOREM Exclusion == Spec => []MutualExclusion
<1>1. IInv => MutualExclusion
    BY HoldersFinite, FS_EmptySet DEF IInv, CountersMatchHolders, MutualExclusion
<1> QED
    BY <1>1, InductiveInvariant, PTL

\* Under write_first_, a reader never overtakes a writer that was waiting
\* before the reader asked for the lock.
THEOREM WriterPriority == Spec => []NoOvertaking
<1>1. IInv => NoOvertaking
    BY DEF IInv, AheadWaits, NoOvertaking, Readers
<1> QED
    BY <1>1, InductiveInvariant, PTL
\* Every step of the lock is a step of the abstract lock or leaves the holders
\* as they are: only the successful swaps and the unlocks are visible.
LEMMA StepRefinement == IInv /\ [Next]_vars => [RW!Next]_(RW!vars)
<1> SUFFICES ASSUME IInv, [Next]_vars PROVE [RW!Next]_(RW!vars)
    OBVIOUS
<1> USE DEF IInv
<1>1. ASSUME NEW t \in Thread, ReadLockCas(t) PROVE RW!Next
    <2>1. Writers = {}
        BY <1>1 DEF WeakTypeOK, ReadLockCas, CountersMatchHolders, CasLocal, WRITE_EXCLUSIVE
    <2>2. t \notin Readers /\ Readers' = Readers \cup {t} /\ Writers' = Writers
        BY <1>1 DEF WeakTypeOK, ReadLockCas, Readers, Writers
    <2> QED
        BY <2>1, <2>2 DEF RW!Next, RW!AcquireRead
<1>2. ASSUME NEW t \in Thread, ReadUnlock(t) PROVE RW!Next
    <2>1. t \in Readers /\ Readers' = Readers \ {t} /\ Writers' = Writers
        BY <1>2 DEF WeakTypeOK, ReadUnlock, Readers, Writers
    <2> QED
        BY <2>1 DEF RW!Next, RW!ReleaseRead
<1>3. ASSUME NEW t \in Thread, WriteLockCas(t) PROVE RW!Next
    <2>1. Writers = {} /\ Readers = {}
        BY <1>3, HoldersFinite, FS_EmptySet
        DEF WriteLockCas, CountersMatchHolders, WRITE_EXCLUSIVE, RW_LOCK_FREE
    <2>2. Writers' = Writers \cup {t} /\ Readers' = Readers
        BY <1>3 DEF WeakTypeOK, WriteLockCas, Readers, Writers
    <2>3. Writers' = {t}
        BY <2>1, <2>2
    <2> QED
        BY <2>1, <2>2, <2>3 DEF RW!Next, RW!AcquireWrite
<1>4. ASSUME NEW t \in Thread, WriteUnlock(t) PROVE RW!Next
    <2>1. t \in Writers /\ Writers' = Writers \ {t} /\ Readers' = Readers
        BY <1>4 DEF WeakTypeOK, WriteUnlock, Readers, Writers
    <2> QED
        BY <2>1 DEF RW!Next, RW!ReleaseWrite
<1>5. ASSUME NEW t \in Thread,
             \/ BeginReadLock(t) \/ ReadLockCheck(t) \/ ReadLockReload(t)
             \/ ReadLockCasFails(t) \/ ReadLockCasSpurious(t)
             \/ BeginWriteLock(t) \/ EndWriteLock(t)
      PROVE UNCHANGED <<Readers, Writers>>
    BY <1>5 DEF WeakTypeOK, BeginReadLock, ReadLockCheck, ReadLockReload, ReadLockCasFails,
                ReadLockCasSpurious, BeginWriteLock, EndWriteLock, Readers, Writers
<1>6. CASE UNCHANGED vars
    BY <1>6 DEF vars, RW!vars, Readers, Writers
<1> QED
    BY <1>1, <1>2, <1>3, <1>4, <1>5, <1>6 DEF Next, Step, RW!vars

\* The lock implements the abstract readers/writer lock, for every number of
\* threads and both preferences.
THEOREM Refinement == Spec => ImplementsRWLock
<1>1. Init => RW!Init
    BY DEF Init, RW!Init, Readers, Writers
<1> QED
    BY <1>1, StepRefinement, InductiveInvariant, PTL DEF Spec, ImplementsRWLock, RW!Spec

-----------------------------------------------------------------------------
(* AtomicHashMap: the inductive invariant *)

Undecided == {"find", "load", "swap", "link"}    \* the call has not taken effect

\* An entry is linked by the call that made it, at the end of this call.
LinkedByItsCall ==
    \A t \in Callers, n \in 1 .. MaxMapCalls :
        <<t, n>> \in linked =>
            \/ n < map_calls[t]
            \/ n = map_calls[t] /\ map_pc[t] \notin Undecided

\* Where a call has come to tells what was asked for.
PlaceFitsRequest ==
    \A t \in Callers :
        /\ map_pc[t] # "idle" => map_calls[t] \in 1 .. MaxMapCalls
        /\ request[t].name = "set" => request[t].value \in Entries
        /\ map_pc[t] \in {"swap", "link", "delete"} => request[t].name = "set"
        /\ map_pc[t] = "load" => request[t].name # "has"
        /\ map_pc[t] = "copy" => request[t].name = "get"

\* A walk has passed only smaller keys; next and value_ptr of an entry are
\* looked at, and swapped, where the key belongs.
WalkIsBehind ==
    \A t \in Callers :
        /\ map_pc[t] \in {"find", "link"} =>
               /\ prev[t] \in linked \cup {HeadEntry}
               /\ prev[t] # HeadEntry => key[prev[t]] < request[t].key
        /\ map_pc[t] = "link" =>
               /\ next[Mine(t)] = target[t]
               /\ target[t] # Nil => target[t] \in linked /\ request[t].key < key[target[t]]
        /\ map_pc[t] \in {"load", "swap", "copy"} =>
               target[t] \in linked /\ key[target[t]] = request[t].key

\* What Set has allocated: the entry of its call and a value, both with what
\* it was asked to set, until another call can reach them.
AllocatedForCall ==
    \A t \in Callers :
        /\ new_entry[t] # Nil =>
               /\ new_entry[t] = Mine(t)
               /\ request[t].name = "set" /\ map_pc[t] \in Undecided \cup {"delete"}
               /\ Mine(t) \notin linked =>
                      /\ key[Mine(t)] = request[t].key
                      /\ value_ptr[Mine(t)] \in Addresses
                      /\ content[value_ptr[Mine(t)]] = request[t].value
        /\ new_value[t] # Nil =>
               /\ request[t].name = "set" /\ map_pc[t] \in Undecided \cup {"delete"}
               /\ content[new_value[t]] = request[t].value
        /\ map_pc[t] = "link" => new_entry[t] # Nil
        /\ map_pc[t] = "load" /\ request[t].name = "set" => new_value[t] # Nil
        /\ map_pc[t] = "swap" => new_value[t] # Nil
        /\ map_pc[t] \in {"find", "load", "link"} => old_val_ptr[t] = Nil

LinkedHaveValues == \A e \in linked : value_ptr[e] \in Addresses

\* The owners of an address, as in MemoryIsOwned.
OwnedByEntry(a, e) ==
    /\ e \in linked \/ \E t \in Callers : new_entry[t] = e
    /\ value_ptr[e] = a
OwnedAsNew(a, t) == new_value[t] = a
OwnedAsOld(a, t) == map_pc[t] = "delete" /\ old_val_ptr[t] = a

OneOwner ==
    \A a \in Addresses :
        /\ content[a] # Freed =>
               \/ \E e \in Entries : OwnedByEntry(a, e)
               \/ \E t \in Callers : OwnedAsNew(a, t) \/ OwnedAsOld(a, t)
        /\ \A e \in Entries : OwnedByEntry(a, e) =>
               /\ content[a] # Freed
               /\ \A d \in Entries : OwnedByEntry(a, d) => d = e
               /\ \A t \in Callers : ~OwnedAsNew(a, t) /\ ~OwnedAsOld(a, t)
        /\ \A t \in Callers : OwnedAsNew(a, t) =>
               /\ content[a] # Freed
               /\ \A u \in Callers : (OwnedAsNew(a, u) => u = t) /\ ~OwnedAsOld(a, u)
        /\ \A t \in Callers : OwnedAsOld(a, t) =>
               /\ content[a] # Freed
               /\ \A u \in Callers : OwnedAsOld(a, u) => u = t

\* What a Get that was not disturbed is about to copy, or has copied.
CopiesWhatItSaw ==
    \A t \in Callers :
        /\ map_pc[t] \in Undecided => copied[t] = Absent
        /\ map_pc[t] = "copy" => old_val_ptr[t] \in Addresses
        /\ map_pc[t] = "copy" /\ t \notin disturbed =>
               /\ old_val_ptr[t] = value_ptr[target[t]]
               /\ content[old_val_ptr[t]] = map_answer[t]

MapInv ==
    /\ MapTypeOK /\ ListIsSorted /\ UndisturbedGet
    /\ LinkedByItsCall /\ PlaceFitsRequest /\ WalkIsBehind /\ AllocatedForCall
    /\ LinkedHaveValues /\ OneOwner /\ CopiesWhatItSaw

\* What one caller may do next.
CallerStep(t) == MapStep(t) \/ \E name \in {"set", "get", "has"}, k \in Keys : Begin(t, name, k)

\* A step is of one caller, or changes nothing.
LEMMA MapNextSteps ==
    ASSUME [MapNext]_mapVars
    PROVE  UNCHANGED mapVars \/ \E t \in Callers : CallerStep(t)
BY DEF MapNext, CallerStep

-----------------------------------------------------------------------------
\* The first entry of a call is the one it makes; it exists while it runs.
LEMMA MineIsEntry ==
    ASSUME MapTypeOK, NEW t \in Callers, map_calls[t] \in 1 .. MaxMapCalls
    PROVE  Mine(t) \in Entries
BY DEF Mine, Entries

LEMMA MapTypeInit == MapInit => MapTypeOK
BY AtomicHashMapAssumption DEF MapInit, MapTypeOK, Request, Pointers, Entries

\* Types are kept by every step.
LEMMA MapTypeStep ==
    ASSUME MapInv, NEW t \in Callers, CallerStep(t)
    PROVE  MapTypeOK'
<1> USE AtomicHashMapAssumption
<1> USE DEF MapInv, MapTypeOK, MapGoto, mapVars, listVars, mapCallVars, mapLocalVars
<1>1. ASSUME NEW name \in {"set", "get", "has"}, NEW k \in Keys, Begin(t, name, k)
      PROVE  MapTypeOK'
    <2>1. map_calls'[t] \in 1 .. MaxMapCalls /\ map_calls' \in [Callers -> 0 .. MaxMapCalls]
        BY <1>1 DEF Begin
    <2>2. <<t, map_calls'[t]>> \in Entries
        BY <2>1 DEF Entries
    <2>3. request' \in [Callers -> Request]
        BY <1>1, <2>2 DEF Begin, Request
    <2>4. UNCHANGED <<listVars, content, target>> /\ disturbed' \in SUBSET Callers
        BY <1>1 DEF Begin
    <2>5. /\ map_pc' \in [Callers -> {"idle", "find", "load", "swap", "link", "delete", "copy", "return"}]
          /\ prev' \in [Callers -> Entries \cup {HeadEntry}]
          /\ new_entry' \in [Callers -> Entries \cup {Nil}]
        BY <1>1 DEF Begin
    <2>6. /\ new_value' \in [Callers -> Pointers] /\ old_val_ptr' \in [Callers -> Pointers]
          /\ copied' \in [Callers -> Entries \cup {Freed, Absent}]
          /\ map_answer' \in [Callers -> Entries \cup {Absent, Present, Freed}]
        BY <1>1 DEF Begin, Pointers
    <2> QED
        BY <2>1, <2>3, <2>4, <2>5, <2>6
<1>2. ASSUME Walk(t) PROVE MapTypeOK'
    BY <1>2 DEF Walk, Ahead
<1>3. ASSUME HasFound(t) \/ \E name \in {"has", "get"} : NotFound(t, name) PROVE MapTypeOK'
    BY <1>3 DEF HasFound, NotFound, Answer
<1>4. ASSUME Found(t) PROVE MapTypeOK'
    BY <1>4 DEF Found, Ahead, IsHere, PlaceFitsRequest, Pointers
<1>5. ASSUME MakeEntry(t) PROVE MapTypeOK'
    <2>1. Mine(t) \in Entries
        BY <1>5, MineIsEntry DEF MakeEntry, PlaceFitsRequest
    <2>2. request[t].key \in Nat /\ request[t].value \in Entries
        BY <1>5 DEF MakeEntry, PlaceFitsRequest, Request
    <2> QED
        BY <1>5, <2>1, <2>2 DEF MakeEntry, Ahead, Pointers
<1>6. ASSUME Link(t) \/ LinkFails(t) PROVE MapTypeOK'
    <2>1. new_entry[t] \in Entries \/ LinkFails(t)
        BY <1>6 DEF Link, AllocatedForCall
    <2> QED
        BY <1>6, <2>1 DEF Link, LinkFails
<1>7. ASSUME LoadValue(t) PROVE MapTypeOK'
    BY <1>7 DEF LoadValue, WalkIsBehind, LinkedHaveValues
<1>8. ASSUME SwapValue(t) \/ SwapValueFails(t) PROVE MapTypeOK'
    BY <1>8 DEF SwapValue, SwapValueFails, Pointers
<1>9. ASSUME Delete(t) PROVE MapTypeOK'
    BY <1>9 DEF Delete, Pointers
<1>10. ASSUME CopyValue(t) PROVE MapTypeOK'
    BY <1>10 DEF CopyValue, CopiesWhatItSaw
<1>11. ASSUME MapReturn(t) PROVE MapTypeOK'
    BY <1>11 DEF MapReturn
<1> QED
    BY <1>1, <1>2, <1>3, <1>4, <1>5, <1>6, <1>7, <1>8, <1>9, <1>10, <1>11 DEF CallerStep, MapStep

-----------------------------------------------------------------------------
\* ListIsSorted, without the set of the entries with larger keys.
Above(e, d) == d = HeadEntry \/ key[e] > key[d]

Sorted ==
    /\ \A d, e \in linked : key[d] = key[e] => d = e
    /\ \A d \in linked \cup {HeadEntry} :
        /\ next[d] = Nil => \A e \in linked : ~Above(e, d)
        /\ next[d] # Nil =>
               /\ next[d] \in linked /\ Above(next[d], d)
               /\ \A e \in linked : Above(e, d) => key[next[d]] <= key[e]

LEMMA SortedMeans == MapTypeOK => (ListIsSorted <=> Sorted)
<1> SUFFICES ASSUME MapTypeOK PROVE ListIsSorted <=> Sorted
    OBVIOUS
<1> DEFINE L(d) == {e \in linked : d = HeadEntry \/ key[e] > key[d]}
<1>1. Nil \notin linked /\ linked \subseteq Entries
    BY AtomicHashMapAssumption DEF MapTypeOK
<1>2. ASSUME NEW d \in linked \cup {HeadEntry}
      PROVE  (IF L(d) = {} THEN next[d] = Nil
              ELSE next[d] \in L(d) /\ \A e \in L(d) : key[next[d]] <= key[e])
                 <=>
             (/\ next[d] = Nil => \A e \in linked : ~Above(e, d)
              /\ next[d] # Nil =>
                     /\ next[d] \in linked /\ Above(next[d], d)
                     /\ \A e \in linked : Above(e, d) => key[next[d]] <= key[e])
    BY <1>1, <1>2 DEF Above
<1> QED
    BY <1>2 DEF ListIsSorted, Sorted

\* Where a walk stands: everything up to prev is smaller than its key.
LEMMA BeyondIsAbsent ==
    ASSUME MapInv, NEW t \in Callers, map_pc[t] = "find", IsBeyond(t), NEW e \in linked
    PROVE  /\ key[e] # request[t].key
           /\ prev[t] # HeadEntry => key[prev[t]] < request[t].key
           /\ Ahead(t) # Nil => Ahead(t) \in linked /\ request[t].key < key[Ahead(t)]
<1> USE AtomicHashMapAssumption
<1>1. Sorted
    BY SortedMeans DEF MapInv
<1>2. /\ key[e] \in Nat /\ request[t].key \in Nat
      /\ prev[t] \in linked \cup {HeadEntry}
      /\ prev[t] # HeadEntry => key[prev[t]] < request[t].key
      /\ prev[t] # HeadEntry => key[prev[t]] \in Nat
      /\ linked \subseteq Entries /\ key \in [Entries -> Nat]
    BY DEF MapInv, MapTypeOK, Request, WalkIsBehind
<1>3. Ahead(t) # Nil => Ahead(t) \in linked /\ request[t].key < key[Ahead(t)]
    BY <1>1, <1>2 DEF Sorted, IsBeyond, Ahead
<1>4. key[e] # request[t].key
    BY <1>1, <1>2, <1>3 DEF Sorted, Above, Ahead
<1> QED
    BY <1>2, <1>3, <1>4

\* A call that has not taken effect has not linked its entry.
LEMMA MineIsNotLinked ==
    ASSUME MapInv, NEW t \in Callers, map_pc[t] \in Undecided
    PROVE  map_calls[t] \in 1 .. MaxMapCalls /\ Mine(t) \in Entries /\ Mine(t) \notin linked
<1>1. map_calls[t] \in 1 .. MaxMapCalls
    BY DEF MapInv, PlaceFitsRequest, Undecided
<1> QED
    BY <1>1, MineIsEntry DEF MapInv, Mine, LinkedByItsCall

\* Steps that leave the list alone.
LEMMA ListUntouched ==
    ASSUME MapInv, NEW t \in Callers, CallerStep(t), ~Link(t)
    PROVE  /\ linked' = linked
           /\ \A e \in linked : key'[e] = key[e]
           /\ \A d \in linked \cup {HeadEntry} : next'[d] = next[d]
<1> USE DEF listVars
<1>1. CASE MakeEntry(t)
    <2>1. Mine(t) \notin linked
        BY <1>1, MineIsNotLinked DEF MakeEntry, Undecided
    <2>2. Mine(t) # HeadEntry
        BY <1>1, MineIsEntry, AtomicHashMapAssumption DEF MakeEntry, MapInv, PlaceFitsRequest
    <2> QED
        BY <1>1, <2>1, <2>2 DEF MakeEntry, MapInv, MapTypeOK
<1>2. CASE ~MakeEntry(t)
    <2>1. UNCHANGED <<key, next, linked>>
        BY <1>2 DEF CallerStep, MapStep, Begin, Walk, HasFound, NotFound, Answer, Found, LinkFails,
                    LoadValue, SwapValue, SwapValueFails, Delete, CopyValue, MapReturn
    <2> QED
        BY <2>1
<1> QED
    BY <1>1, <1>2

\* Linking puts the entry of the call where its key belongs.
LEMMA LinkFacts ==
    ASSUME MapInv, NEW t \in Callers, Link(t)
    PROVE  /\ new_entry[t] = Mine(t) /\ Mine(t) \in Entries /\ Mine(t) \notin linked
           /\ Mine(t) # HeadEntry /\ Mine(t) # Nil
           /\ key[Mine(t)] = request[t].key /\ request[t].key \in Keys
           /\ value_ptr[Mine(t)] \in Addresses
           /\ content[value_ptr[Mine(t)]] = request[t].value
           /\ request[t].name = "set" /\ request[t].value \in Entries
           /\ linked' = linked \cup {Mine(t)}
           /\ next' = [next EXCEPT ![prev[t]] = Mine(t)]
           /\ prev[t] \in linked \cup {HeadEntry}
           /\ prev[t] # HeadEntry => key[prev[t]] < request[t].key
           /\ next[prev[t]] = next[Mine(t)]
           /\ next[prev[t]] # Nil => request[t].key < key[next[prev[t]]]
           /\ UNCHANGED <<key, value_ptr, content, mapCallVars, mapLocalVars, map_answer>>
<1>1. map_pc[t] = "link" /\ map_pc[t] \in Undecided
    BY DEF Link, Undecided
<1>2. Mine(t) \in Entries /\ Mine(t) \notin linked
    BY <1>1, MineIsNotLinked
<1>3. new_entry[t] = Mine(t)
    BY <1>1 DEF MapInv, AllocatedForCall
<1>4. /\ key[Mine(t)] = request[t].key /\ value_ptr[Mine(t)] \in Addresses
      /\ content[value_ptr[Mine(t)]] = request[t].value
    BY <1>1, <1>2, <1>3, AtomicHashMapAssumption DEF MapInv, AllocatedForCall
<1>5. Mine(t) # HeadEntry /\ Mine(t) # Nil
    BY <1>2, AtomicHashMapAssumption
<1>6. /\ request[t].name = "set" /\ request[t].value \in Entries
      /\ request[t].key \in Keys
    BY <1>1 DEF MapInv, MapTypeOK, Request, PlaceFitsRequest
<1>7. /\ prev[t] \in linked \cup {HeadEntry}
      /\ prev[t] # HeadEntry => key[prev[t]] < request[t].key
      /\ next[prev[t]] = next[Mine(t)]
      /\ next[prev[t]] # Nil => request[t].key < key[next[prev[t]]]
    BY <1>1 DEF MapInv, WalkIsBehind, Link, Ahead
<1>8. /\ linked' = linked \cup {Mine(t)} /\ next' = [next EXCEPT ![prev[t]] = Mine(t)]
      /\ UNCHANGED <<key, value_ptr, content, mapCallVars, mapLocalVars, map_answer>>
    BY <1>3 DEF Link
<1> QED
    BY <1>2, <1>3, <1>4, <1>5, <1>6, <1>7, <1>8

\* No key is linked twice, and the entry that is linked is between its neighbours.
LEMMA SortedStep ==
    ASSUME MapInv, NEW t \in Callers, CallerStep(t)
    PROVE  ListIsSorted'
<1>1. MapTypeOK' /\ Sorted
    BY MapTypeStep, SortedMeans DEF MapInv
<1>0. Sorted' => ListIsSorted'
    BY <1>1, SortedMeans, PTL
<1>2. CASE ~Link(t)
    <2>1. /\ linked' = linked /\ \A e \in linked : key'[e] = key[e]
          /\ \A d \in linked \cup {HeadEntry} : next'[d] = next[d]
        BY <1>2, ListUntouched
    <2>2. Sorted'
        BY <1>1, <2>1 DEF Sorted, Above
    <2> QED
        BY <1>0, <2>2
<1>3. CASE Link(t)
    <2> DEFINE m == Mine(t)
               k == request[t].key
               p == prev[t]
    <2>1. /\ m \in Entries /\ m \notin linked /\ m # HeadEntry /\ m # Nil
          /\ key[m] = k /\ k \in Nat
          /\ linked' = linked \cup {m} /\ key' = key
          /\ next' = [next EXCEPT ![p] = m]
          /\ p \in linked \cup {HeadEntry}
          /\ p # HeadEntry => key[p] < k
          /\ next[p] = next[m]
          /\ next[p] # Nil => k < key[next[p]]
        BY <1>3, LinkFacts, AtomicHashMapAssumption
    <2> HIDE DEF m, k, p
    <2>2. /\ key \in [Entries -> Nat] /\ linked \subseteq Entries
          /\ next \in [Entries \cup {HeadEntry} -> Entries \cup {Nil}]
          /\ HeadEntry \notin linked
        BY AtomicHashMapAssumption DEF MapInv, MapTypeOK
    <2>3. \A e \in linked : key[e] # k /\ (Above(e, p) => k < key[e])
        BY <1>1, <2>1, <2>2 DEF Sorted, Above
    <2>4. \A d, e \in linked' : key'[d] = key'[e] => d = e
        BY <1>1, <2>1, <2>3 DEF Sorted
    <2>5. next'[p] = m /\ \A d \in linked' \cup {HeadEntry} : d # p => next'[d] = next[d]
        BY <2>1, <2>2
    <2>6. ASSUME NEW d \in linked' \cup {HeadEntry}
          PROVE  /\ next'[d] = Nil => \A e \in linked' : ~Above(e, d)'
                 /\ next'[d] # Nil =>
                        /\ next'[d] \in linked' /\ Above(next[d], d)'
                        /\ \A e \in linked' : Above(e, d)' => key'[next'[d]] <= key'[e]
        <3> \A e \in linked' : Above(e, d)' <=> (d = HeadEntry \/ key[e] > key[d])
            BY <2>1 DEF Above
        <3>1. CASE d = p
            BY <2>1, <2>2, <2>3, <2>5, <3>1 DEF Above
        <3>2. CASE d = m
            BY <1>1, <2>1, <2>2, <2>3, <2>5, <3>2 DEF Above, Sorted
        <3>3. CASE d # p /\ d # m
            <4>1. d \in linked \cup {HeadEntry} /\ next'[d] = next[d]
                BY <2>1, <2>5, <3>3
            <4>2. Above(m, d) => next[d] # Nil /\ key[next[d]] <= k
                BY <1>1, <2>1, <2>2, <2>3, <3>3, <4>1 DEF Above, Sorted
            <4> QED
                BY <1>1, <2>1, <2>2, <4>1, <4>2 DEF Above, Sorted
        <3> QED
            BY <3>1, <3>2, <3>3
    <2>7. Sorted'
        BY <2>4, <2>6 DEF Sorted
    <2> QED
        BY <1>0, <2>7
<1> QED
    BY <1>2, <1>3

\* A step of one caller leaves the locals of the others alone.
LEMMA OthersUntouched ==
    ASSUME MapInv, NEW t \in Callers, CallerStep(t), NEW u \in Callers, u # t
    PROVE  /\ map_pc'[u] = map_pc[u] /\ map_calls'[u] = map_calls[u] /\ request'[u] = request[u]
           /\ prev'[u] = prev[u] /\ target'[u] = target[u]
           /\ new_entry'[u] = new_entry[u] /\ new_value'[u] = new_value[u]
           /\ old_val_ptr'[u] = old_val_ptr[u]
           /\ copied'[u] = copied[u] /\ map_answer'[u] = map_answer[u]
           /\ Mine(u)' = Mine(u) /\ Mine(u) # Mine(t)
<1> USE DEF MapInv, MapTypeOK, MapGoto, listVars, mapCallVars, mapLocalVars, Mine
<1>1. CASE \E name \in {"set", "get", "has"}, k \in Keys : Begin(t, name, k)
    BY <1>1 DEF Begin
<1>2. CASE Walk(t) \/ HasFound(t) \/ (\E name \in {"has", "get"} : NotFound(t, name)) \/ Found(t)
    BY <1>2 DEF Walk, HasFound, NotFound, Answer, Found
<1>3. CASE MakeEntry(t) \/ Link(t) \/ LinkFails(t)
    BY <1>3 DEF MakeEntry, Link, LinkFails
<1>4. CASE LoadValue(t) \/ SwapValue(t) \/ SwapValueFails(t)
    BY <1>4 DEF LoadValue, SwapValue, SwapValueFails
<1>5. CASE Delete(t) \/ CopyValue(t) \/ MapReturn(t)
    BY <1>5 DEF Delete, CopyValue, MapReturn
<1> QED
    BY <1>1, <1>2, <1>3, <1>4, <1>5 DEF CallerStep, MapStep

LEMMA LinkedByItsCallStep ==
    ASSUME MapInv, NEW t \in Callers, CallerStep(t)
    PROVE  LinkedByItsCall'
<1> SUFFICES ASSUME NEW u \in Callers, NEW n \in 1 .. MaxMapCalls, <<u, n>> \in linked'
             PROVE  \/ n < map_calls'[u]
                    \/ n = map_calls'[u] /\ map_pc'[u] \notin Undecided
    BY DEF LinkedByItsCall
<1> USE AtomicHashMapAssumption
<1>1. CASE <<u, n>> \notin linked
    <2>1. Link(t) /\ <<u, n>> = Mine(t)
        BY <1>1, ListUntouched, LinkFacts
    <2>2. u = t /\ n = map_calls[t]
        BY <2>1 DEF Mine
    <2>3. map_calls'[t] = map_calls[t] /\ map_pc'[t] = "delete"
        BY <2>1 DEF Link, MapGoto, MapInv, MapTypeOK, mapCallVars
    <2> QED
        BY <2>2, <2>3 DEF Undecided
<1>2. CASE <<u, n>> \in linked
    <2>1. n < map_calls[u] \/ (n = map_calls[u] /\ map_pc[u] \notin Undecided)
        BY <1>2 DEF MapInv, LinkedByItsCall
    <2>2. CASE u # t
        BY <2>1, <2>2, OthersUntouched
    <2>3. CASE u = t /\ map_calls' = map_calls
        <3>1. map_pc[t] \notin Undecided => map_pc'[t] \notin Undecided
            BY <2>3 DEF CallerStep, MapStep, Begin, Walk, HasFound, NotFound, Answer, Found, MakeEntry, Link,
                        LinkFails, LoadValue, SwapValue, SwapValueFails, Delete, CopyValue, MapReturn,
                        MapGoto, Undecided, MapInv, MapTypeOK
        <3> QED
            BY <2>1, <2>3, <3>1
    <2>4. CASE u = t /\ map_calls' # map_calls
        <3>1. map_calls'[t] = map_calls[t] + 1 /\ map_calls[t] \in Nat
            BY <2>4 DEF CallerStep, MapStep, Begin, Walk, HasFound, NotFound, Answer, Found, MakeEntry, Link,
                        LinkFails, LoadValue, SwapValue, SwapValueFails, Delete, CopyValue, MapReturn,
                        mapCallVars, MapInv, MapTypeOK
        <3> QED
            BY <2>1, <2>4, <3>1
    <2> QED
        BY <2>2, <2>3, <2>4
<1> QED
    BY <1>1, <1>2

LEMMA PlaceFitsRequestStep ==
    ASSUME MapInv, NEW t \in Callers, CallerStep(t)
    PROVE  PlaceFitsRequest'
<1> SUFFICES ASSUME NEW u \in Callers
             PROVE  /\ map_pc'[u] # "idle" => map_calls'[u] \in 1 .. MaxMapCalls
                    /\ request'[u].name = "set" => request'[u].value \in Entries
                    /\ map_pc'[u] \in {"swap", "link", "delete"} => request'[u].name = "set"
                    /\ map_pc'[u] = "load" => request'[u].name # "has"
                    /\ map_pc'[u] = "copy" => request'[u].name = "get"
    BY DEF PlaceFitsRequest
<1>1. CASE u # t
    BY <1>1, OthersUntouched DEF MapInv, PlaceFitsRequest
<1>2. CASE u = t /\ \E name \in {"set", "get", "has"}, k \in Keys : Begin(t, name, k)
    <2>1. map_calls'[t] \in 1 .. MaxMapCalls
        BY <1>2, AtomicHashMapAssumption DEF Begin, MapInv, MapTypeOK
    <2>2. <<t, map_calls'[t]>> \in Entries
        BY <2>1 DEF Entries
    <2> QED
        BY <1>2, <2>1, <2>2 DEF Begin, MapInv, MapTypeOK, MapGoto
<1>3. CASE u = t /\ MapStep(t)
    <2>1. UNCHANGED mapCallVars /\ map_pc[t] # "idle"
        BY <1>3 DEF MapStep, Walk, HasFound, NotFound, Answer, Found, MakeEntry, Link,
                    LinkFails, LoadValue, SwapValue, SwapValueFails, Delete, CopyValue, MapReturn
    <2>2. request[t].name \in {"set", "get", "has"}
        BY DEF MapInv, MapTypeOK, Request
    <2> QED
        BY <1>3, <2>1, <2>2
        DEF MapStep, Walk, HasFound, NotFound, Answer, Found, MakeEntry, Link,
            LinkFails, LoadValue, SwapValue, SwapValueFails, Delete, CopyValue, MapReturn,
            MapInv, MapTypeOK, MapGoto, PlaceFitsRequest, mapCallVars
<1> QED
    BY <1>1, <1>2, <1>3 DEF CallerStep

LEMMA WalkIsBehindStep ==
    ASSUME MapInv, NEW t \in Callers, CallerStep(t)
    PROVE  WalkIsBehind'
<1> USE AtomicHashMapAssumption
<1> SUFFICES ASSUME NEW u \in Callers
             PROVE  /\ map_pc'[u] \in {"find", "link"} =>
                          /\ prev'[u] \in linked' \cup {HeadEntry}
                          /\ prev'[u] # HeadEntry => key'[prev'[u]] < request'[u].key
                    /\ map_pc'[u] = "link" =>
                          /\ next'[Mine(u)'] = target'[u]
                          /\ target'[u] # Nil =>
                                target'[u] \in linked' /\ request'[u].key < key'[target'[u]]
                    /\ map_pc'[u] \in {"load", "swap", "copy"} =>
                          target'[u] \in linked' /\ key'[target'[u]] = request'[u].key
    BY DEF WalkIsBehind
<1>1. linked \subseteq linked' /\ (\A e \in linked : key'[e] = key[e])
    BY ListUntouched, LinkFacts
<1>2. CASE u # t
    <2>1. map_pc[u] = "link" => next'[Mine(u)] = next[Mine(u)]
        <3>1. CASE MakeEntry(t)
            BY <1>2, <3>1, OthersUntouched, MineIsEntry DEF MakeEntry, MapInv, MapTypeOK, PlaceFitsRequest
        <3>2. CASE Link(t)
            <4>1. map_pc[u] = "link" => Mine(u) \notin linked /\ Mine(u) # HeadEntry /\ Mine(u) \in Entries
                BY MineIsNotLinked DEF Undecided
            <4> QED
                BY <3>2, <4>1, LinkFacts DEF MapInv, MapTypeOK
        <3>3. CASE ~MakeEntry(t) /\ ~Link(t)
            BY <3>3 DEF CallerStep, MapStep, Begin, Walk, HasFound, NotFound, Answer, Found, LinkFails,
                    LoadValue, SwapValue, SwapValueFails, Delete, CopyValue, MapReturn, listVars
        <3> QED
            BY <3>1, <3>2, <3>3
    <2> QED
        BY <1>1, <1>2, <2>1, OthersUntouched DEF MapInv, WalkIsBehind
<1>3. CASE u = t
    <2> USE DEF MapInv, MapTypeOK, MapGoto, listVars, mapCallVars, mapLocalVars, WalkIsBehind
    <2>1. CASE \E name \in {"set", "get", "has"}, k \in Keys : Begin(t, name, k)
        BY <1>3, <2>1 DEF Begin
    <2>2. CASE Walk(t)
        <3>1. Sorted
            BY SortedMeans
        <3>2. Ahead(t) \in linked
            BY <2>2, <3>1 DEF Sorted, Walk, Ahead
        <3> QED
            BY <1>3, <2>2, <3>2 DEF Walk
    <2>3. CASE HasFound(t) \/ \E name \in {"has", "get"} : NotFound(t, name)
        BY <1>3, <2>3 DEF HasFound, NotFound, Answer
    <2>4. CASE Found(t)
        <3>1. Sorted
            BY SortedMeans
        <3>2. Ahead(t) \in linked
            BY <2>4, <3>1 DEF Sorted, Found, IsHere, Ahead
        <3> QED
            BY <1>3, <2>4, <3>2 DEF Found, IsHere
    <2>5. CASE MakeEntry(t)
        <3>1. map_pc[t] = "find" /\ IsBeyond(t)
            BY <2>5 DEF MakeEntry
        <3>2. Ahead(t) # Nil => Ahead(t) \in linked /\ request[t].key < key[Ahead(t)]
            <4>1. Sorted
                BY SortedMeans
            <4> QED
                BY <3>1, <4>1, BeyondIsAbsent DEF Sorted, Ahead
        <3>3. Mine(t) \in Entries /\ Mine(t)' = Mine(t)
            BY <2>5, <3>1, MineIsNotLinked DEF MakeEntry, Mine, Undecided
        <3>4. next'[Mine(t)] = Ahead(t) /\ target'[t] = Ahead(t)
            BY <2>5, <3>3 DEF MakeEntry
        <3>5. UNCHANGED <<request, prev>> /\ map_pc'[t] = "link"
            BY <2>5 DEF MakeEntry
        <3> QED
            BY <1>1, <1>3, <3>1, <3>2, <3>3, <3>4, <3>5
    <2>6. CASE Link(t) \/ LinkFails(t)
        BY <1>3, <2>6 DEF Link, LinkFails
    <2>7. CASE LoadValue(t) \/ SwapValue(t) \/ SwapValueFails(t)
        BY <1>3, <2>7 DEF LoadValue, SwapValue, SwapValueFails
    <2>8. CASE Delete(t) \/ CopyValue(t) \/ MapReturn(t)
        BY <1>3, <2>8 DEF Delete, CopyValue, MapReturn
    <2> QED
        BY <2>1, <2>2, <2>3, <2>4, <2>5, <2>6, <2>7, <2>8 DEF CallerStep, MapStep
<1> QED
    BY <1>2, <1>3

-----------------------------------------------------------------------------
\* The memory that a call gives back belongs to it alone.
OwnedByCall(a, t) ==
    \/ OwnedAsNew(a, t) \/ OwnedAsOld(a, t)
    \/ new_entry[t] = Mine(t) /\ Mine(t) \notin linked /\ value_ptr[Mine(t)] = a

\* Memory is changed when it is allocated and when its owner gives it back.
LEMMA ContentKept ==
    ASSUME MapInv, NEW t \in Callers, CallerStep(t), NEW a \in Addresses, content[a] # Freed,
           Delete(t) => ~OwnedByCall(a, t)
    PROVE  content'[a] = content[a]
<1> USE AtomicHashMapAssumption
<1>1. CASE Found(t) \/ MakeEntry(t)
    BY <1>1 DEF Found, MakeEntry, MapInv, MapTypeOK
<1>2. CASE Delete(t)
    <2>1. map_pc[t] = "delete"
        BY <1>2 DEF Delete
    <2>2. a \notin Garbage(t)
        BY <1>2, <2>1 DEF Garbage, OwnedByCall, OwnedAsNew, OwnedAsOld, MapInv, AllocatedForCall
    <2> QED
        BY <1>2, <2>2 DEF Delete
<1>3. CASE ~Found(t) /\ ~MakeEntry(t) /\ ~Delete(t)
    BY <1>3 DEF CallerStep, MapStep, Begin, Walk, HasFound, NotFound, Answer, Link, LinkFails,
                LoadValue, SwapValue, SwapValueFails, CopyValue, MapReturn
<1> QED
    BY <1>1, <1>2, <1>3

\* The value of an entry is replaced where a Set has found it, and the entry
\* that a call makes gets its value when it is made.
LEMMA ValuePtrKept ==
    ASSUME MapInv, NEW t \in Callers, CallerStep(t), NEW e \in Entries,
           SwapValue(t) => e # target[t],
           MakeEntry(t) /\ new_entry[t] = Nil => e # Mine(t)
    PROVE  value_ptr'[e] = value_ptr[e] /\ key'[e] = key[e]
<1>1. CASE MakeEntry(t)
    BY <1>1 DEF MakeEntry, MapInv, MapTypeOK
<1>2. CASE SwapValue(t)
    BY <1>2 DEF SwapValue, MapInv, MapTypeOK
<1>3. CASE ~MakeEntry(t) /\ ~SwapValue(t)
    BY <1>3 DEF CallerStep, MapStep, Begin, Walk, HasFound, NotFound, Answer, Found, Link, LinkFails,
                LoadValue, SwapValueFails, Delete, CopyValue, MapReturn, listVars
<1> QED
    BY <1>1, <1>2, <1>3

\* The value of an entry in the list is what it was unless it is replaced.
LEMMA LinkedValueKept ==
    ASSUME MapInv, NEW t \in Callers, CallerStep(t), NEW e \in linked,
           SwapValue(t) => e # target[t]
    PROVE  /\ value_ptr'[e] = value_ptr[e] /\ value_ptr[e] \in Addresses
           /\ content[value_ptr[e]] # Freed
           /\ content'[value_ptr[e]] = content[value_ptr[e]]
<1>1. e \in Entries /\ value_ptr[e] \in Addresses
    BY DEF MapInv, MapTypeOK, LinkedHaveValues
<1>2. MakeEntry(t) => e # Mine(t)
    BY MineIsNotLinked DEF MakeEntry, Undecided
<1>3. value_ptr'[e] = value_ptr[e]
    BY <1>1, <1>2, ValuePtrKept
<1> DEFINE a == value_ptr[e]
<1>4. OwnedByEntry(a, e)
    BY DEF OwnedByEntry
<1>5. content[a] # Freed
    BY <1>1, <1>4 DEF MapInv, OneOwner
<1>6. ~OwnedAsNew(a, t) /\ ~OwnedAsOld(a, t)
    BY <1>1, <1>4 DEF MapInv, OneOwner
<1>7. ASSUME Delete(t), OwnedByCall(a, t) PROVE FALSE
    <2>1. new_entry[t] = Mine(t) /\ Mine(t) \notin linked /\ value_ptr[Mine(t)] = a
        BY <1>6, <1>7 DEF OwnedByCall
    <2>2. map_calls[t] \in 1 .. MaxMapCalls
        BY <1>7 DEF Delete, MapInv, PlaceFitsRequest
    <2>3. Mine(t) \in Entries /\ OwnedByEntry(a, Mine(t))
        BY <2>1, <2>2, MineIsEntry DEF MapInv, OwnedByEntry
    <2>4. Mine(t) = e
        BY <1>1, <1>4, <2>3 DEF MapInv, OneOwner
    <2> QED
        BY <2>1, <2>4
<1> QED
    BY <1>1, <1>3, <1>5, <1>7, ContentKept

LEMMA LinkedHaveValuesStep ==
    ASSUME MapInv, NEW t \in Callers, CallerStep(t)
    PROVE  LinkedHaveValues'
<1> SUFFICES ASSUME NEW e \in linked' PROVE value_ptr'[e] \in Addresses
    BY DEF LinkedHaveValues
<1>1. CASE e \notin linked
    <2>1. Link(t) /\ e = Mine(t)
        BY <1>1, ListUntouched, LinkFacts
    <2> QED
        BY <2>1, LinkFacts
<1>2. CASE e \in linked /\ ~(SwapValue(t) /\ e = target[t])
    BY <1>2, LinkedValueKept
<1>3. CASE e \in linked /\ SwapValue(t) /\ e = target[t]
    <2>1. new_value[t] \in Addresses
        BY <1>3 DEF SwapValue, MapInv, MapTypeOK, AllocatedForCall, Pointers
    <2> QED
        BY <1>3, <2>1 DEF SwapValue, MapInv, MapTypeOK
<1> QED
    BY <1>1, <1>2, <1>3

\* What a call has allocated is out of reach of the others.
LEMMA AllocationIsPrivate ==
    ASSUME MapInv, NEW t \in Callers, CallerStep(t), NEW u \in Callers, u # t
    PROVE  /\ new_value[u] # Nil => content'[new_value[u]] = content[new_value[u]]
           /\ new_entry[u] # Nil /\ Mine(u) \notin linked =>
                  /\ Mine(u) \notin linked'
                  /\ key'[Mine(u)] = key[Mine(u)] /\ value_ptr'[Mine(u)] = value_ptr[Mine(u)]
                  /\ content'[value_ptr[Mine(u)]] = content[value_ptr[Mine(u)]]
<1> USE AtomicHashMapAssumption
<1>1. ASSUME new_value[u] # Nil PROVE content'[new_value[u]] = content[new_value[u]]
    <2> DEFINE a == new_value[u]
    <2>1. a \in Addresses /\ OwnedAsNew(a, u)
        BY <1>1 DEF OwnedAsNew, MapInv, MapTypeOK, Pointers
    <2>2. content[a] # Freed /\ ~OwnedAsNew(a, t) /\ ~OwnedAsOld(a, t)
        BY <2>1 DEF MapInv, OneOwner
    <2>3. ASSUME Delete(t), OwnedByCall(a, t) PROVE FALSE
        <3>1. new_entry[t] = Mine(t) /\ value_ptr[Mine(t)] = a
            BY <2>2, <2>3 DEF OwnedByCall
        <3>2. Mine(t) \in Entries
            BY <2>3, MineIsEntry DEF Delete, MapInv, PlaceFitsRequest
        <3>3. OwnedByEntry(a, Mine(t))
            BY <3>1 DEF OwnedByEntry
        <3> QED
            BY <2>1, <3>2, <3>3 DEF MapInv, OneOwner
    <2> QED
        BY <2>1, <2>2, <2>3, ContentKept
<1>2. ASSUME new_entry[u] # Nil, Mine(u) \notin linked
      PROVE  /\ Mine(u) \notin linked'
             /\ key'[Mine(u)] = key[Mine(u)] /\ value_ptr'[Mine(u)] = value_ptr[Mine(u)]
             /\ content'[value_ptr[Mine(u)]] = content[value_ptr[Mine(u)]]
    <2> DEFINE m == Mine(u)
               a == value_ptr[m]
    <2>1. new_entry[u] = m /\ a \in Addresses /\ m \in Entries
        BY <1>2 DEF MapInv, MapTypeOK, AllocatedForCall
    <2>2. m # Mine(t)
        BY OthersUntouched
    <2>3. m \notin linked'
        BY <1>2, <2>2, ListUntouched, LinkFacts
    <2>4. SwapValue(t) => m # target[t]
        BY <1>2 DEF SwapValue, MapInv, WalkIsBehind
    <2>5. key'[m] = key[m] /\ value_ptr'[m] = value_ptr[m]
        BY <2>1, <2>2, <2>4, ValuePtrKept
    <2>6. OwnedByEntry(a, m)
        BY <2>1 DEF OwnedByEntry
    <2>7. content[a] # Freed /\ ~OwnedAsNew(a, t) /\ ~OwnedAsOld(a, t)
        BY <2>1, <2>6 DEF MapInv, OneOwner
    <2>8. ASSUME Delete(t), OwnedByCall(a, t) PROVE FALSE
        <3>1. new_entry[t] = Mine(t) /\ value_ptr[Mine(t)] = a
            BY <2>7, <2>8 DEF OwnedByCall
        <3>2. Mine(t) \in Entries
            BY <2>8, MineIsEntry DEF Delete, MapInv, PlaceFitsRequest
        <3>3. OwnedByEntry(a, Mine(t))
            BY <3>1 DEF OwnedByEntry
        <3> QED
            BY <2>1, <2>2, <2>6, <3>2, <3>3 DEF MapInv, OneOwner
    <2> QED
        BY <2>1, <2>3, <2>5, <2>7, <2>8, ContentKept
<1> QED
    BY <1>1, <1>2

LEMMA AllocatedForCallStep ==
    ASSUME MapInv, NEW t \in Callers, CallerStep(t)
    PROVE  AllocatedForCall'
<1> USE AtomicHashMapAssumption
<1> SUFFICES ASSUME NEW u \in Callers
             PROVE  /\ new_entry'[u] # Nil =>
                          /\ new_entry'[u] = Mine(u)'
                          /\ request'[u].name = "set" /\ map_pc'[u] \in Undecided \cup {"delete"}
                          /\ Mine(u)' \notin linked' =>
                                 /\ key'[Mine(u)'] = request'[u].key
                                 /\ value_ptr'[Mine(u)'] \in Addresses
                                 /\ content'[value_ptr'[Mine(u)']] = request'[u].value
                    /\ new_value'[u] # Nil =>
                          /\ request'[u].name = "set" /\ map_pc'[u] \in Undecided \cup {"delete"}
                          /\ content'[new_value'[u]] = request'[u].value
                    /\ map_pc'[u] = "link" => new_entry'[u] # Nil
                    /\ map_pc'[u] = "load" /\ request'[u].name = "set" => new_value'[u] # Nil
                    /\ map_pc'[u] = "swap" => new_value'[u] # Nil
                    /\ map_pc'[u] \in {"find", "load", "link"} => old_val_ptr'[u] = Nil
    BY DEF AllocatedForCall
<1>1. CASE u # t
    <2>1. linked \subseteq linked'
        BY ListUntouched, LinkFacts
    <2> QED
        BY <1>1, <2>1, OthersUntouched, AllocationIsPrivate DEF MapInv, AllocatedForCall
<1>2. CASE u = t
    <2> USE DEF MapInv, MapTypeOK, MapGoto, listVars, mapCallVars, mapLocalVars, AllocatedForCall,
                Undecided
    <2>1. CASE \E name \in {"set", "get", "has"}, k \in Keys : Begin(t, name, k)
        BY <1>2, <2>1 DEF Begin
    <2>2. CASE \/ Walk(t) \/ HasFound(t) \/ \E name \in {"has", "get"} : NotFound(t, name)
               \/ LinkFails(t) \/ LoadValue(t) \/ SwapValueFails(t)
        <3>1. UNCHANGED <<key, value_ptr, linked, content, mapCallVars, new_entry, new_value>>
            BY <2>2 DEF Walk, HasFound, NotFound, Answer, LinkFails, LoadValue, SwapValueFails
        <3>2. Mine(t)' = Mine(t)
            BY <3>1 DEF Mine
        <3>3. /\ map_pc[t] \in Undecided
              /\ request[t].name = "set" => map_pc'[t] \in Undecided
              /\ map_pc'[t] \in {"link", "load"} => FALSE
              /\ map_pc'[t] = "swap" => map_pc[t] = "load" /\ request[t].name = "set"
              /\ map_pc'[t] = "find" => old_val_ptr'[t] = Nil
            BY <2>2 DEF Walk, HasFound, NotFound, Answer, LinkFails, LoadValue, SwapValueFails,
                        PlaceFitsRequest, Request
        <3> QED
            BY <1>2, <3>1, <3>2, <3>3
    <2>3. CASE Found(t)
        <3>1. Mine(t)' = Mine(t)
            BY <2>3 DEF Found, Mine
        <3> QED
            BY <1>2, <2>3, <3>1 DEF Found, PlaceFitsRequest
    <2>4. CASE MakeEntry(t)
        <3>1. Mine(t)' = Mine(t) /\ Mine(t) \in Entries
            BY <2>4, MineIsNotLinked DEF MakeEntry, Mine
        <3>2. request[t].name = "set" /\ request[t].value \in Entries
            BY <2>4 DEF MakeEntry, PlaceFitsRequest
        <3>3. /\ map_pc'[t] = "link" /\ new_value'[t] = new_value[t]
              /\ UNCHANGED <<request, linked, old_val_ptr>>
            BY <2>4 DEF MakeEntry
        <3>4. new_value[t] # Nil => content'[new_value[t]] = request[t].value
            BY <2>4, <3>2 DEF MakeEntry, Pointers
        <3>5. /\ new_entry'[t] = Mine(t) /\ key'[Mine(t)] = request[t].key
              /\ value_ptr'[Mine(t)] \in Addresses
              /\ content'[value_ptr'[Mine(t)]] = request[t].value
            <4>1. CASE new_entry[t] = Nil
                BY <2>4, <3>1, <4>1 DEF MakeEntry
            <4>2. CASE new_entry[t] # Nil
                BY <2>4, <3>1, <4>2, MineIsNotLinked DEF MakeEntry
            <4> QED
                BY <4>1, <4>2
        <3>6. old_val_ptr[t] = Nil /\ Mine(t) # Nil
            BY <2>4, <3>1 DEF MakeEntry
        <3> QED
            BY <1>2, <3>1, <3>2, <3>3, <3>4, <3>5, <3>6
    <2>5. CASE Link(t)
        BY <1>2, <2>5 DEF Link, Mine
    <2>6. CASE SwapValue(t)
        <3>1. Mine(t)' = Mine(t) /\ target[t] \in linked
            BY <2>6 DEF SwapValue, Mine, WalkIsBehind
        <3> QED
            BY <1>2, <2>6, <3>1 DEF SwapValue
    <2>7. CASE Delete(t) \/ CopyValue(t) \/ MapReturn(t)
        BY <1>2, <2>7 DEF Delete, CopyValue, MapReturn
    <2> QED
        BY <2>1, <2>2, <2>3, <2>4, <2>5, <2>6, <2>7 DEF CallerStep, MapStep
<1> QED
    BY <1>1, <1>2

LEMMA CopiesWhatItSawStep ==
    ASSUME MapInv, NEW t \in Callers, CallerStep(t)
    PROVE  CopiesWhatItSaw'
<1> SUFFICES ASSUME NEW u \in Callers
             PROVE  /\ map_pc'[u] \in Undecided => copied'[u] = Absent
                    /\ map_pc'[u] = "copy" => old_val_ptr'[u] \in Addresses
                    /\ map_pc'[u] = "copy" /\ u \notin disturbed' =>
                          /\ old_val_ptr'[u] = value_ptr'[target'[u]]
                          /\ content'[old_val_ptr'[u]] = map_answer'[u]
    BY DEF CopiesWhatItSaw
<1>1. CASE u # t
    <2>1. CASE map_pc[u] = "copy" /\ u \notin disturbed'
        <3>1. u \notin disturbed /\ target[u] \in linked
            BY <1>1, <2>1 DEF CallerStep, MapStep, Begin, Walk, HasFound, NotFound, Answer, Found,
                    MakeEntry, Link, LinkFails, LoadValue, SwapValue, SwapValueFails, Delete, CopyValue,
                    MapReturn, MapInv, WalkIsBehind
        <3>2. SwapValue(t) => target[u] # target[t]
            BY <2>1 DEF SwapValue
        <3>3. /\ value_ptr'[target[u]] = value_ptr[target[u]]
              /\ content'[value_ptr[target[u]]] = content[value_ptr[target[u]]]
            BY <3>1, <3>2, LinkedValueKept
        <3> QED
            BY <1>1, <2>1, <3>1, <3>3, OthersUntouched DEF MapInv, CopiesWhatItSaw, Undecided
    <2>2. CASE ~(map_pc[u] = "copy" /\ u \notin disturbed')
        BY <1>1, <2>2, OthersUntouched DEF MapInv, CopiesWhatItSaw
    <2> QED
        BY <2>1, <2>2
<1>2. CASE u = t
    <2> USE DEF MapInv, MapTypeOK, MapGoto, listVars, mapCallVars, mapLocalVars, CopiesWhatItSaw,
                Undecided
    <2>1. CASE \E name \in {"set", "get", "has"}, k \in Keys : Begin(t, name, k)
        BY <1>2, <2>1 DEF Begin
    <2>2. CASE LoadValue(t)
        <3>1. value_ptr[target[t]] \in Addresses
            BY <2>2 DEF LoadValue, WalkIsBehind, LinkedHaveValues
        <3> QED
            BY <1>2, <2>2, <3>1 DEF LoadValue
    <2>3. CASE Walk(t) \/ HasFound(t) \/ (\E name \in {"has", "get"} : NotFound(t, name)) \/ Found(t)
        BY <1>2, <2>3 DEF Walk, HasFound, NotFound, Answer, Found
    <2>4. CASE MakeEntry(t) \/ Link(t) \/ LinkFails(t) \/ SwapValue(t) \/ SwapValueFails(t)
        BY <1>2, <2>4 DEF MakeEntry, Link, LinkFails, SwapValue, SwapValueFails
    <2>5. CASE Delete(t) \/ CopyValue(t) \/ MapReturn(t)
        BY <1>2, <2>5 DEF Delete, CopyValue, MapReturn
    <2> QED
        BY <2>1, <2>2, <2>3, <2>4, <2>5 DEF CallerStep, MapStep
<1> QED
    BY <1>1, <1>2

LEMMA UndisturbedGetStep ==
    ASSUME MapInv, NEW t \in Callers, CallerStep(t)
    PROVE  UndisturbedGet'
<1> SUFFICES ASSUME NEW u \in Callers, map_pc'[u] = "return", request'[u].name = "get",
                    u \notin disturbed'
             PROVE  copied'[u] = map_answer'[u]
    BY DEF UndisturbedGet
<1>1. CASE u # t
    <2>1. u \notin disturbed
        BY <1>1 DEF CallerStep, MapStep, Begin, Walk, HasFound, NotFound, Answer, Found, MakeEntry,
                Link, LinkFails, LoadValue, SwapValue, SwapValueFails, Delete, CopyValue, MapReturn
    <2> QED
        BY <1>1, <2>1, OthersUntouched DEF MapInv, UndisturbedGet
<1>2. CASE u = t
    <2> USE DEF MapInv, MapTypeOK, MapGoto, listVars, mapCallVars, mapLocalVars
    <2>1. CASE \E name \in {"set", "get", "has"}, k \in Keys : Begin(t, name, k)
        BY <1>2, <2>1 DEF Begin
    <2>2. CASE HasFound(t)
        BY <1>2, <2>2 DEF HasFound, Answer
    <2>3. CASE \E name \in {"has", "get"} : NotFound(t, name)
        BY <1>2, <2>3 DEF NotFound, Answer, CopiesWhatItSaw, Undecided
    <2>4. CASE Walk(t) \/ Found(t) \/ MakeEntry(t) \/ Link(t) \/ LinkFails(t)
        BY <1>2, <2>4 DEF Walk, Found, MakeEntry, Link, LinkFails
    <2>5. CASE LoadValue(t) \/ SwapValue(t) \/ SwapValueFails(t)
        BY <1>2, <2>5 DEF LoadValue, SwapValue, SwapValueFails
    <2>6. CASE CopyValue(t)
        BY <1>2, <2>6 DEF CopyValue, CopiesWhatItSaw
    <2>7. CASE Delete(t)
        BY <1>2, <2>7 DEF Delete, PlaceFitsRequest
    <2>8. CASE MapReturn(t)
        BY <1>2, <2>8 DEF MapReturn
    <2> QED
        BY <2>1, <2>2, <2>3, <2>4, <2>5, <2>6, <2>7, <2>8 DEF CallerStep, MapStep
<1> QED
    BY <1>1, <1>2

\* A step that neither allocates nor frees, and after which everything has
\* the owner that it had.
LEMMA OwnersKept ==
    ASSUME MapInv, content' = content,
           \A a \in Addresses :
               /\ \A e \in Entries : OwnedByEntry(a, e)' <=> OwnedByEntry(a, e)
               /\ \A u \in Callers : OwnedAsNew(a, u)' <=> OwnedAsNew(a, u)
               /\ \A u \in Callers : OwnedAsOld(a, u)' <=> OwnedAsOld(a, u)
    PROVE  OneOwner'
BY DEF MapInv, OneOwner

\* Allocation: an address that was free gets one owner.
LEMMA OwnerOfFree ==
    ASSUME MapInv, NEW b \in Addresses, content[b] = Freed, content'[b] # Freed,
           \A a \in Addresses : a # b =>
               /\ content'[a] = content[a]
               /\ \A e \in Entries : OwnedByEntry(a, e)' <=> OwnedByEntry(a, e)
               /\ \A u \in Callers : OwnedAsNew(a, u)' <=> OwnedAsNew(a, u)
               /\ \A u \in Callers : OwnedAsOld(a, u)' <=> OwnedAsOld(a, u),
           \A u \in Callers : ~OwnedAsOld(b, u)',
           \/ \E t \in Callers :
                  /\ \A u \in Callers : OwnedAsNew(b, u)' <=> u = t
                  /\ \A e \in Entries : ~OwnedByEntry(b, e)'
           \/ \E m \in Entries :
                  /\ \A e \in Entries : OwnedByEntry(b, e)' <=> e = m
                  /\ \A u \in Callers : ~OwnedAsNew(b, u)'
    PROVE  OneOwner'
BY DEF MapInv, OneOwner

\* No entry, value or replaced value is held at an address that is free.
LEMMA FreeIsUnowned ==
    ASSUME MapInv, NEW a \in Addresses, content[a] = Freed
    PROVE  /\ \A e \in Entries : ~OwnedByEntry(a, e)
           /\ \A u \in Callers : ~OwnedAsNew(a, u) /\ ~OwnedAsOld(a, u)
BY DEF MapInv, OneOwner

LEMMA OneOwnerFound ==
    ASSUME MapInv, NEW t \in Callers, Found(t)
    PROVE  OneOwner'
<1> USE AtomicHashMapAssumption
<1> USE DEF MapInv, MapTypeOK, MapGoto, listVars, mapCallVars
<1>1. UNCHANGED <<linked, value_ptr, new_entry, old_val_ptr>> /\ map_pc' = [map_pc EXCEPT ![t] = "load"]
    BY DEF Found
<1>2. map_pc[t] = "find"
    BY DEF Found
<1>3. \A a \in Addresses :
          /\ \A e \in Entries : OwnedByEntry(a, e)' <=> OwnedByEntry(a, e)
          /\ \A u \in Callers : OwnedAsOld(a, u)' <=> OwnedAsOld(a, u)
    BY <1>1, <1>2 DEF OwnedByEntry, OwnedAsOld
<1>4. CASE UNCHANGED <<content, new_value>>
    BY <1>3, <1>4, OwnersKept DEF OwnedAsNew
<1>5. CASE ~UNCHANGED <<content, new_value>>
    <2>1. new_value[t] = Nil /\ request[t].value \in Entries
        BY <1>5 DEF Found, PlaceFitsRequest
    <2>2. PICK b \in Addresses :
              /\ content[b] = Freed
              /\ content' = [content EXCEPT ![b] = request[t].value]
              /\ new_value' = [new_value EXCEPT ![t] = b]
        BY <1>5 DEF Found
    <2>3. content'[b] # Freed /\ \A a \in Addresses : a # b => content'[a] = content[a]
        BY <2>1, <2>2
    <2>4. \A u \in Callers : OwnedAsNew(b, u)' <=> u = t
        BY <2>2, FreeIsUnowned DEF OwnedAsNew
    <2>5. \A a \in Addresses : a # b => \A u \in Callers : OwnedAsNew(a, u)' <=> OwnedAsNew(a, u)
        BY <2>1, <2>2 DEF OwnedAsNew
    <2>6. \A e \in Entries : ~OwnedByEntry(b, e)'
        BY <1>3, <2>2, FreeIsUnowned
    <2>7. \A u \in Callers : ~OwnedAsOld(b, u)'
        BY <1>3, <2>2, FreeIsUnowned
    <2> QED
        BY <1>3, <2>2, <2>3, <2>4, <2>5, <2>6, <2>7, OwnerOfFree
<1> QED
    BY <1>4, <1>5

LEMMA OneOwnerMakeEntry ==
    ASSUME MapInv, NEW t \in Callers, MakeEntry(t)
    PROVE  OneOwner'
<1> USE AtomicHashMapAssumption
<1> USE DEF MapInv, MapTypeOK, MapGoto, listVars, mapCallVars
<1> PICK m : m = Mine(t)    \* as it is before the step
    OBVIOUS
<1>1. UNCHANGED <<linked, new_value, old_val_ptr>> /\ map_pc' = [map_pc EXCEPT ![t] = "link"]
    BY DEF MakeEntry
<1>2. map_pc[t] = "find"
    BY DEF MakeEntry
<1>3. \A a \in Addresses :
          /\ \A u \in Callers : OwnedAsNew(a, u)' <=> OwnedAsNew(a, u)
          /\ \A u \in Callers : OwnedAsOld(a, u)' <=> OwnedAsOld(a, u)
    BY <1>1, <1>2 DEF OwnedAsNew, OwnedAsOld
<1>4. CASE UNCHANGED <<content, value_ptr, new_entry>>
    BY <1>1, <1>3, <1>4, OwnersKept DEF OwnedByEntry
<1>5. CASE ~UNCHANGED <<content, value_ptr, new_entry>>
    <2>1. /\ new_entry[t] = Nil /\ request[t].value \in Entries
          /\ m \in Entries /\ m \notin linked
        BY <1>2, <1>5, MineIsNotLinked DEF MakeEntry, PlaceFitsRequest, Undecided
    <2>2. PICK b \in Addresses :
              /\ content[b] = Freed
              /\ content' = [content EXCEPT ![b] = request[t].value]
              /\ value_ptr' = [value_ptr EXCEPT ![m] = b]
              /\ new_entry' = [new_entry EXCEPT ![t] = m]
        BY <1>5 DEF MakeEntry
    <2>3. content'[b] # Freed /\ \A a \in Addresses : a # b => content'[a] = content[a]
        BY <2>1, <2>2
    <2>4. ASSUME NEW u \in Callers, new_entry[u] = m PROVE FALSE
        <3>1. u # t /\ m # Nil
            BY <2>1, <2>4
        <3>2. new_entry[u] = Mine(u)
            BY <2>4, <3>1 DEF AllocatedForCall
        <3> QED
            BY <2>4, <3>1, <3>2 DEF Mine
    <2>5. \A a \in Addresses : \A e \in Entries :
              e # m => (OwnedByEntry(a, e)' <=> OwnedByEntry(a, e))
        <3> SUFFICES ASSUME NEW a \in Addresses, NEW e \in Entries, e # m
                     PROVE  OwnedByEntry(a, e)' <=> OwnedByEntry(a, e)
            OBVIOUS
        <3>1. value_ptr'[e] = value_ptr[e] /\ linked' = linked
            BY <1>1, <2>2
        <3>2. (\E u \in Callers : new_entry'[u] = e) <=> (\E u \in Callers : new_entry[u] = e)
            BY <2>1, <2>2
        <3> QED
            BY <3>1, <3>2 DEF OwnedByEntry
    <2>6. \A a \in Addresses : ~OwnedByEntry(a, m) /\ (OwnedByEntry(a, m)' <=> a = b)
        BY <1>1, <2>1, <2>2, <2>4 DEF OwnedByEntry
    <2>7. \A e \in Entries : OwnedByEntry(b, e)' <=> e = m
        BY <2>2, <2>5, <2>6, FreeIsUnowned
    <2>8. \A u \in Callers : ~OwnedAsOld(b, u)' /\ ~OwnedAsNew(b, u)'
        BY <1>3, <2>2, FreeIsUnowned
    <2>9. \A a \in Addresses : a # b =>
              \A e \in Entries : OwnedByEntry(a, e)' <=> OwnedByEntry(a, e)
        BY <2>5, <2>6
    <2> QED
        BY <1>3, <2>1, <2>2, <2>3, <2>7, <2>8, <2>9, OwnerOfFree
<1> QED
    BY <1>4, <1>5

LEMMA OneOwnerLink ==
    ASSUME MapInv, NEW t \in Callers, Link(t)
    PROVE  OneOwner'
<1> USE AtomicHashMapAssumption
<1>1. PICK m : m = Mine(t) /\ m \in Entries /\ new_entry[t] = m
    BY LinkFacts
<1>2. /\ UNCHANGED <<content, value_ptr, new_entry, new_value, old_val_ptr>>
      /\ linked' = linked \cup {m} /\ map_pc' = [map_pc EXCEPT ![t] = "delete"]
    BY <1>1 DEF Link, mapLocalVars, MapGoto
<1>3. map_pc[t] = "link" /\ old_val_ptr[t] = Nil
    BY DEF Link, MapInv, AllocatedForCall
<1>4. \A a \in Addresses :
          /\ \A e \in Entries : OwnedByEntry(a, e)' <=> OwnedByEntry(a, e)
          /\ \A u \in Callers : OwnedAsNew(a, u)' <=> OwnedAsNew(a, u)
          /\ \A u \in Callers : OwnedAsOld(a, u)' <=> OwnedAsOld(a, u)
    BY <1>1, <1>2, <1>3 DEF OwnedByEntry, OwnedAsNew, OwnedAsOld, MapInv, MapTypeOK
<1> QED
    BY <1>2, <1>4, OwnersKept

\* The new value passes from the call to the entry, the old one from the entry
\* to the call.
LEMMA OneOwnerSwap ==
    ASSUME MapInv, NEW t \in Callers, SwapValue(t)
    PROVE  OneOwner'
<1> USE AtomicHashMapAssumption
<1> USE DEF MapInv, MapTypeOK
<1>1. PICK m : m = target[t] /\ m \in Entries /\ m \in linked
    BY DEF SwapValue, WalkIsBehind
<1>2. PICK b : b = new_value[t] /\ b \in Addresses
    BY DEF SwapValue, AllocatedForCall, Pointers
<1>3. PICK o : o = value_ptr[m] /\ o = old_val_ptr[t] /\ o \in Addresses
    BY <1>1 DEF SwapValue, LinkedHaveValues
<1>4. /\ UNCHANGED <<content, linked, new_entry, old_val_ptr>> /\ map_pc[t] = "swap"
      /\ value_ptr' = [value_ptr EXCEPT ![m] = b]
      /\ new_value' = [new_value EXCEPT ![t] = Nil]
      /\ map_pc' = [map_pc EXCEPT ![t] = "delete"]
    BY <1>1, <1>2 DEF SwapValue, MapGoto
<1>5. OwnedByEntry(o, m) /\ OwnedAsNew(b, t)
    BY <1>1, <1>2, <1>3 DEF OwnedByEntry, OwnedAsNew
<1>6. b # o
    BY <1>1, <1>2, <1>3, <1>5 DEF OneOwner
<1>7. \A a \in Addresses, e \in Entries : e # m => (OwnedByEntry(a, e)' <=> OwnedByEntry(a, e))
    BY <1>1, <1>4 DEF OwnedByEntry
<1>8. \A a \in Addresses : (OwnedByEntry(a, m)' <=> a = b) /\ (OwnedByEntry(a, m) <=> a = o)
    BY <1>1, <1>3, <1>4 DEF OwnedByEntry
<1>9. \A a \in Addresses, u \in Callers : u # t =>
          (OwnedAsNew(a, u)' <=> OwnedAsNew(a, u)) /\ (OwnedAsOld(a, u)' <=> OwnedAsOld(a, u))
    BY <1>4 DEF OwnedAsNew, OwnedAsOld
<1>10. \A a \in Addresses :
           /\ ~OwnedAsNew(a, t)' /\ (OwnedAsNew(a, t) <=> a = b)
           /\ ~OwnedAsOld(a, t) /\ (OwnedAsOld(a, t)' <=> a = o)
    BY <1>2, <1>3, <1>4 DEF OwnedAsNew, OwnedAsOld
<1>11. OneOwner /\ content' = content
    BY <1>4
<1> HIDE DEF MapInv, MapTypeOK
<1> SUFFICES ASSUME NEW a \in Addresses
             PROVE  /\ content'[a] # Freed =>
                           \/ \E e \in Entries : OwnedByEntry(a, e)'
                           \/ \E u \in Callers : OwnedAsNew(a, u)' \/ OwnedAsOld(a, u)'
                    /\ \A e \in Entries : OwnedByEntry(a, e)' =>
                           /\ content'[a] # Freed
                           /\ \A d \in Entries : OwnedByEntry(a, d)' => d = e
                           /\ \A u \in Callers : ~OwnedAsNew(a, u)' /\ ~OwnedAsOld(a, u)'
                    /\ \A u \in Callers : OwnedAsNew(a, u)' =>
                           /\ content'[a] # Freed
                           /\ \A v \in Callers : (OwnedAsNew(a, v)' => v = u) /\ ~OwnedAsOld(a, v)'
                    /\ \A u \in Callers : OwnedAsOld(a, u)' =>
                           /\ content'[a] # Freed
                           /\ \A v \in Callers : OwnedAsOld(a, v)' => v = u
    BY DEF OneOwner
<1>12. CASE a = b
    BY <1>1, <1>5, <1>6, <1>7, <1>8, <1>9, <1>10, <1>11, <1>12 DEF OneOwner
<1>13. CASE a = o
    BY <1>1, <1>5, <1>6, <1>7, <1>8, <1>9, <1>10, <1>11, <1>13 DEF OneOwner
<1>14. CASE a # b /\ a # o
    BY <1>1, <1>7, <1>8, <1>9, <1>10, <1>11, <1>14 DEF OneOwner
<1> QED
    BY <1>12, <1>13, <1>14

\* What is given back has no other owner, and none afterwards.
LEMMA OneOwnerDelete ==
    ASSUME MapInv, NEW t \in Callers, Delete(t)
    PROVE  OneOwner'
<1> USE AtomicHashMapAssumption
<1> USE DEF MapInv, MapTypeOK
<1>1. map_pc[t] = "delete" /\ request[t].name = "set"
    BY DEF Delete, PlaceFitsRequest
<1>2. PICK m : m = Mine(t) /\ m \in Entries
    BY <1>1, MineIsEntry DEF PlaceFitsRequest
<1>3. new_entry[t] = Nil \/ new_entry[t] = m
    BY <1>2 DEF AllocatedForCall
<1>4. /\ UNCHANGED <<value_ptr, linked>>
      /\ new_entry' = [new_entry EXCEPT ![t] = Nil] /\ new_value' = [new_value EXCEPT ![t] = Nil]
      /\ old_val_ptr' = [old_val_ptr EXCEPT ![t] = Nil]
      /\ map_pc' = [map_pc EXCEPT ![t] = "return"]
    BY DEF Delete, listVars, MapGoto
<1>5. \A a \in Addresses : a \in Garbage(t) <=> OwnedByCall(a, t)
    <2>1. m # Nil
        BY <1>2
    <2> QED
        BY <1>1, <1>2, <1>3, <2>1 DEF Garbage, OwnedByCall, OwnedAsNew, OwnedAsOld
<1>6. \A a \in Addresses : content'[a] = IF OwnedByCall(a, t) THEN Freed ELSE content[a]
    BY <1>5 DEF Delete
<1>7. \A a \in Addresses, e \in Entries :
          OwnedByEntry(a, e)' <=> OwnedByEntry(a, e) /\ (e \in linked \/ e # new_entry[t])
    <2> SUFFICES ASSUME NEW a \in Addresses, NEW e \in Entries
                 PROVE  OwnedByEntry(a, e)' <=> OwnedByEntry(a, e) /\ (e \in linked \/ e # new_entry[t])
        OBVIOUS
    <2>1. ASSUME NEW u \in Callers, u # t, new_entry[u] = e PROVE e # new_entry[t]
        <3>1. e # Nil
            OBVIOUS
        <3>2. e = Mine(u)
            BY <2>1, <3>1 DEF AllocatedForCall
        <3>3. Mine(u) # Mine(t)
            BY <2>1 DEF Mine
        <3> QED
            BY <1>2, <1>3, <3>1, <3>2, <3>3
    <2>2. (\E u \in Callers : new_entry'[u] = e) <=> (\E u \in Callers : u # t /\ new_entry[u] = e)
        BY <1>4
    <2> QED
        BY <1>4, <2>1, <2>2 DEF OwnedByEntry
<1>8. \A a \in Addresses, u \in Callers :
          /\ OwnedAsNew(a, u)' <=> OwnedAsNew(a, u) /\ u # t
          /\ OwnedAsOld(a, u)' <=> OwnedAsOld(a, u) /\ u # t
    BY <1>1, <1>4 DEF OwnedAsNew, OwnedAsOld
<1>9. \A a \in Addresses :
          OwnedByCall(a, t) <=> \/ OwnedAsNew(a, t) \/ OwnedAsOld(a, t)
                                \/ OwnedByEntry(a, m) /\ new_entry[t] = m /\ m \notin linked
    BY <1>2 DEF OwnedByCall, OwnedByEntry
<1>10. OneOwner
    OBVIOUS
<1> HIDE DEF MapInv, MapTypeOK
<1> SUFFICES ASSUME NEW a \in Addresses
             PROVE  /\ content'[a] # Freed =>
                           \/ \E e \in Entries : OwnedByEntry(a, e)'
                           \/ \E u \in Callers : OwnedAsNew(a, u)' \/ OwnedAsOld(a, u)'
                    /\ \A e \in Entries : OwnedByEntry(a, e)' =>
                           /\ content'[a] # Freed
                           /\ \A d \in Entries : OwnedByEntry(a, d)' => d = e
                           /\ \A u \in Callers : ~OwnedAsNew(a, u)' /\ ~OwnedAsOld(a, u)'
                    /\ \A u \in Callers : OwnedAsNew(a, u)' =>
                           /\ content'[a] # Freed
                           /\ \A v \in Callers : (OwnedAsNew(a, v)' => v = u) /\ ~OwnedAsOld(a, v)'
                    /\ \A u \in Callers : OwnedAsOld(a, u)' =>
                           /\ content'[a] # Freed
                           /\ \A v \in Callers : OwnedAsOld(a, v)' => v = u
    BY DEF OneOwner
<1>11. CASE OwnedByCall(a, t)
    <2>1. /\ \A e \in Entries : ~OwnedByEntry(a, e)'
          /\ \A u \in Callers : ~OwnedAsNew(a, u)' /\ ~OwnedAsOld(a, u)'
        BY <1>2, <1>3, <1>7, <1>8, <1>9, <1>10, <1>11 DEF OneOwner
    <2> QED
        BY <1>6, <1>11, <2>1
<1>12. CASE ~OwnedByCall(a, t)
    <2>1. /\ content'[a] = content[a]
          /\ \A e \in Entries : OwnedByEntry(a, e)' <=> OwnedByEntry(a, e)
          /\ \A u \in Callers : OwnedAsNew(a, u)' <=> OwnedAsNew(a, u)
          /\ \A u \in Callers : OwnedAsOld(a, u)' <=> OwnedAsOld(a, u)
        BY <1>2, <1>3, <1>6, <1>7, <1>8, <1>9, <1>12
    <2> QED
        BY <1>10, <2>1 DEF OneOwner
<1> QED
    BY <1>11, <1>12

LEMMA OneOwnerStep ==
    ASSUME MapInv, NEW t \in Callers, CallerStep(t)
    PROVE  OneOwner'
<1> USE AtomicHashMapAssumption
<1>1. CASE Found(t) \/ MakeEntry(t) \/ Link(t) \/ SwapValue(t) \/ Delete(t)
    BY <1>1, OneOwnerFound, OneOwnerMakeEntry, OneOwnerLink, OneOwnerSwap, OneOwnerDelete
<1>2. CASE \E name \in {"set", "get", "has"}, k \in Keys : Begin(t, name, k)
    <2>1. UNCHANGED <<content, linked, value_ptr>> /\ new_entry' = new_entry /\ new_value' = new_value
        BY <1>2 DEF Begin, listVars, MapInv, MapTypeOK, AllocatedForCall, Undecided
    <2>2. \A a \in Addresses, u \in Callers : OwnedAsOld(a, u)' <=> OwnedAsOld(a, u)
        BY <1>2 DEF Begin, MapGoto, OwnedAsOld, MapInv, MapTypeOK
    <2> QED
        BY <2>1, <2>2, OwnersKept DEF OwnedByEntry, OwnedAsNew
<1>3. CASE \/ Walk(t) \/ HasFound(t) \/ \E name \in {"has", "get"} : NotFound(t, name)
           \/ LinkFails(t) \/ LoadValue(t) \/ SwapValueFails(t) \/ CopyValue(t) \/ MapReturn(t)
    <2>1. UNCHANGED <<content, linked, value_ptr, new_entry, new_value>>
        BY <1>3 DEF Walk, HasFound, NotFound, Answer, LinkFails, LoadValue, SwapValueFails, CopyValue,
                    MapReturn, listVars, mapLocalVars
    <2>2. map_pc[t] # "delete" /\ map_pc'[t] # "delete"
        BY <1>3 DEF Walk, HasFound, NotFound, Answer, LinkFails, LoadValue, SwapValueFails, CopyValue,
                    MapReturn, MapGoto, MapInv, MapTypeOK
    <2>3. \A a \in Addresses, u \in Callers : OwnedAsOld(a, u)' <=> OwnedAsOld(a, u)
        BY <2>2, OthersUntouched DEF OwnedAsOld
    <2> QED
        BY <2>1, <2>3, OwnersKept DEF OwnedByEntry, OwnedAsNew
<1> QED
    BY <1>1, <1>2, <1>3 DEF CallerStep, MapStep

-----------------------------------------------------------------------------
LEMMA MapInvInit == MapInit => MapInv
<1> SUFFICES ASSUME MapInit PROVE MapInv
    OBVIOUS
<1>1. MapTypeOK
    BY MapTypeInit
<1>2. ListIsSorted /\ UndisturbedGet
    BY DEF MapInit, ListIsSorted, UndisturbedGet
<1>3. LinkedByItsCall /\ PlaceFitsRequest /\ WalkIsBehind /\ LinkedHaveValues /\ CopiesWhatItSaw
    BY DEF MapInit, LinkedByItsCall, PlaceFitsRequest, WalkIsBehind, LinkedHaveValues,
           CopiesWhatItSaw, Undecided
<1>4. AllocatedForCall
    BY DEF MapInit, AllocatedForCall
<1>5. OneOwner
    BY AtomicHashMapAssumption
    DEF MapInit, OneOwner, OwnedByEntry, OwnedAsNew, OwnedAsOld
<1> QED
    BY <1>1, <1>2, <1>3, <1>4, <1>5 DEF MapInv

LEMMA MapInvStep == MapInv /\ [MapNext]_mapVars => MapInv'
<1> SUFFICES ASSUME MapInv, [MapNext]_mapVars PROVE MapInv'
    OBVIOUS
<1>1. CASE UNCHANGED mapVars
    BY <1>1
    DEF mapVars, listVars, mapCallVars, mapLocalVars, MapInv, MapTypeOK, ListIsSorted,
        UndisturbedGet, LinkedByItsCall, PlaceFitsRequest, WalkIsBehind, AllocatedForCall, Mine,
        LinkedHaveValues, OneOwner, OwnedByEntry, OwnedAsNew, OwnedAsOld, CopiesWhatItSaw
<1>2. ASSUME NEW t \in Callers, CallerStep(t) PROVE MapInv'
    BY <1>2, MapTypeStep, SortedStep, UndisturbedGetStep, LinkedByItsCallStep, PlaceFitsRequestStep,
       WalkIsBehindStep, AllocatedForCallStep, LinkedHaveValuesStep, OneOwnerStep,
       CopiesWhatItSawStep
    DEF MapInv
<1> QED
    BY <1>1, <1>2, MapNextSteps

\* The invariant holds of every bucket, whatever the callers and the memory.
THEOREM MapInvariance == MapSpec => []MapInv
BY MapInvInit, MapInvStep, PTL DEF MapSpec

\* The pairwise form of the owners and the sets of MemoryIsOwned agree.
LEMMA OwnersAreOne == MapInv => MemoryIsOwned
<1> SUFFICES ASSUME MapInv, NEW a \in Addresses
             PROVE  IF content[a] = Freed THEN Owners(a) = {}
                    ELSE \E o \in Owners(a) : Owners(a) = {o}
    BY DEF MemoryIsOwned
<1> USE AtomicHashMapAssumption
<1>1. ASSUME NEW o
      PROVE  o \in Owners(a) <=> \/ \E e \in Entries : o = <<"entry", e>> /\ OwnedByEntry(a, e)
                                 \/ \E t \in Callers : o = <<"new", t>> /\ OwnedAsNew(a, t)
                                 \/ \E t \in Callers : o = <<"old", t>> /\ OwnedAsOld(a, t)
    <2>1. linked \subseteq Entries /\ \A t \in Callers : new_entry[t] \in Entries \cup {Nil}
        BY DEF MapInv, MapTypeOK
    <2> QED
        BY <2>1 DEF Owners, OwnedByEntry, OwnedAsNew, OwnedAsOld
<1>2. CASE content[a] = Freed
    BY <1>1, <1>2, FreeIsUnowned
<1>3. CASE content[a] # Freed
    <2>1. CASE \E e \in Entries : OwnedByEntry(a, e)
        <3>1. PICK e \in Entries : OwnedByEntry(a, e)
            BY <2>1
        <3>2. \A o : o \in Owners(a) <=> o = <<"entry", e>>
            BY <1>1, <3>1 DEF MapInv, OneOwner
        <3>3. Owners(a) = {<<"entry", e>>}
            BY <3>2
        <3> QED
            BY <1>3, <3>3
    <2>2. CASE \E t \in Callers : OwnedAsNew(a, t)
        <3>1. PICK t \in Callers : OwnedAsNew(a, t)
            BY <2>2
        <3>2. \A o : o \in Owners(a) <=> o = <<"new", t>>
            BY <1>1, <3>1 DEF MapInv, OneOwner
        <3>3. Owners(a) = {<<"new", t>>}
            BY <3>2
        <3> QED
            BY <1>3, <3>3
    <2>3. CASE \E t \in Callers : OwnedAsOld(a, t)
        <3>1. PICK t \in Callers : OwnedAsOld(a, t)
            BY <2>3
        <3>2. \A o : o \in Owners(a) <=> o = <<"old", t>>
            BY <1>1, <3>1 DEF MapInv, OneOwner
        <3>3. Owners(a) = {<<"old", t>>}
            BY <3>2
        <3> QED
            BY <1>3, <3>3
    <2> QED
        BY <1>3, <2>1, <2>2, <2>3 DEF MapInv, OneOwner
<1> QED
    BY <1>2, <1>3

\* The list of a bucket stays sorted and has no key twice, all its memory has
\* one owner until it is free, and a Get that nobody disturbs copies the value
\* that the map had.
THEOREM BucketStaysIntact == MapSpec => []BucketIsIntact
<1>1. MapInv => BucketIsIntact
    BY OwnersAreOne DEF MapInv, BucketIsIntact
<1> QED
    BY <1>1, MapInvariance, PTL

-----------------------------------------------------------------------------
(* AtomicHashMap implements AtomicMap *)

\* The value of a key is that of the only entry that has it.
ContentIsLinked ==
    \A k \in Keys :
        /\ \A e \in linked : key[e] = k =>
               Content(k) = content[value_ptr[e]] /\ Content(k) \in Entries
        /\ (\A e \in linked : key[e] # k) => Content(k) = Absent

LEMMA ContentOfLinked == MapInv => ContentIsLinked
<1> SUFFICES ASSUME MapInv, NEW k \in Keys
             PROVE  /\ \A e \in linked : key[e] = k =>
                           Content(k) = content[value_ptr[e]] /\ Content(k) \in Entries
                    /\ (\A e \in linked : key[e] # k) => Content(k) = Absent
    BY DEF ContentIsLinked
<1>1. ASSUME NEW e \in linked, key[e] = k
      PROVE  Content(k) = content[value_ptr[e]] /\ Content(k) \in Entries
    <2>1. e \in Entries /\ value_ptr[e] \in Addresses
        BY DEF MapInv, MapTypeOK, LinkedHaveValues
    <2>2. OwnedByEntry(value_ptr[e], e)
        BY DEF OwnedByEntry
    <2>3. content[value_ptr[e]] \in Entries
        BY <2>1, <2>2 DEF MapInv, MapTypeOK, OneOwner
    <2>4. Sorted
        BY SortedMeans DEF MapInv
    <2>5. (CHOOSE d \in linked : key[d] = k) = e
        BY <1>1, <2>4 DEF Sorted
    <2> QED
        BY <1>1, <2>3, <2>5 DEF Content
<1>2. (\A e \in linked : key[e] # k) => Content(k) = Absent
    BY DEF Content
<1> QED
    BY <1>1, <1>2

\* Only linking an entry and replacing a value change the map.
LEMMA ContentUnchanged ==
    ASSUME MapInv, MapInv', NEW t \in Callers, CallerStep(t), ~Link(t), ~SwapValue(t), NEW k \in Keys
    PROVE  Content(k)' = Content(k)
<1>1. linked' = linked /\ \A e \in linked : key'[e] = key[e]
    BY ListUntouched
<1>2. \A e \in linked :
          value_ptr'[e] = value_ptr[e] /\ content'[value_ptr[e]] = content[value_ptr[e]]
    BY LinkedValueKept
<1>3. /\ \A e \in linked' : key'[e] = k => Content(k)' = content'[value_ptr'[e]]
      /\ (\A e \in linked' : key'[e] # k) => Content(k)' = Absent
    <2>1. ContentIsLinked'
        BY ContentOfLinked, PTL
    <2> QED
        BY <2>1 DEF ContentIsLinked
<1>4. /\ \A e \in linked : key[e] = k => Content(k) = content[value_ptr[e]]
      /\ (\A e \in linked : key[e] # k) => Content(k) = Absent
    BY ContentOfLinked DEF ContentIsLinked
<1> QED
    BY <1>1, <1>2, <1>3, <1>4

\* Linking an entry and replacing a value set the key of the call.
LEMMA ContentSet ==
    ASSUME MapInv, MapInv', NEW t \in Callers, Link(t) \/ SwapValue(t), NEW k \in Keys
    PROVE  Content(k)' = IF k = request[t].key THEN request[t].value ELSE Content(k)
<1>0. CallerStep(t)
    BY DEF CallerStep, MapStep
<1>1. /\ \A e \in linked' : key'[e] = k => Content(k)' = content'[value_ptr'[e]]
      /\ (\A e \in linked' : key'[e] # k) => Content(k)' = Absent
    <2>1. ContentIsLinked'
        BY ContentOfLinked, PTL
    <2> QED
        BY <2>1 DEF ContentIsLinked
<1>2. /\ \A e \in linked : key[e] = k => Content(k) = content[value_ptr[e]]
      /\ (\A e \in linked : key[e] # k) => Content(k) = Absent
    BY ContentOfLinked DEF ContentIsLinked
<1>3. CASE Link(t)
    BY <1>1, <1>2, <1>3, LinkFacts
<1>4. CASE SwapValue(t)
    <2>1. /\ target[t] \in linked /\ target[t] \in Entries /\ key[target[t]] = request[t].key
          /\ new_value[t] \in Addresses /\ content[new_value[t]] = request[t].value
        BY <1>4 DEF SwapValue, MapInv, MapTypeOK, WalkIsBehind, AllocatedForCall, Pointers
    <2>2. /\ UNCHANGED <<linked, key, content>>
          /\ value_ptr' = [value_ptr EXCEPT ![target[t]] = new_value[t]]
        BY <1>4 DEF SwapValue
    <2>3. \A e \in linked : e # target[t] => value_ptr'[e] = value_ptr[e] /\ key[e] # request[t].key
        <3>1. Sorted
            BY SortedMeans DEF MapInv
        <3> QED
            BY <2>1, <2>2, <3>1 DEF Sorted, MapInv, MapTypeOK
    <2>4. value_ptr'[target[t]] = new_value[t]
        BY <2>1, <2>2 DEF MapInv, MapTypeOK
    <2> QED
        BY <1>1, <1>2, <2>1, <2>2, <2>3, <2>4
<1> QED
    BY <1>3, <1>4

LEMMA MapInitImplements == MapInit => Map!Init
<1> SUFFICES ASSUME MapInit PROVE Map!Init
    OBVIOUS
<1>1. \A k \in Keys : Content(k) = Absent
    BY DEF MapInit, Content
<1>2. \A t \in Callers : Phase(t) = "idle"
    BY DEF MapInit, Phase
<1>3. request \in [Callers -> Map!Request]
    BY DEF MapInit, Map!Request
<1> QED
    BY <1>1, <1>2, <1>3 DEF Map!Init, MapInit

\* A step between the beginning of a call and the moment it takes effect, or
\* after it, is none of the map.
LEMMA InnerStep ==
    ASSUME MapInv, MapInv', NEW t \in Callers,
           \/ Walk(t) \/ Found(t) \/ MakeEntry(t) \/ LinkFails(t)
           \/ LoadValue(t) /\ request[t].name # "get"
           \/ SwapValueFails(t) \/ Delete(t) \/ CopyValue(t)
    PROVE  UNCHANGED Map!vars
<1>1. CallerStep(t) /\ ~Link(t) /\ ~SwapValue(t)
    BY DEF CallerStep, MapStep, Walk, Found, MakeEntry, LinkFails, LoadValue, SwapValueFails, Delete,
           CopyValue, Link, SwapValue
<1>2. \A k \in Keys : Content(k)' = Content(k)
    BY <1>1, ContentUnchanged
<1>3. UNCHANGED <<request, map_answer>>
    BY DEF Walk, Found, MakeEntry, LinkFails, LoadValue, SwapValueFails, Delete, CopyValue, mapCallVars
<1>4. \A u \in Callers : Phase(u)' = Phase(u)
    <2>1. ASSUME NEW u \in Callers, u # t PROVE Phase(u)' = Phase(u)
        BY <1>1, <2>1, OthersUntouched DEF Phase
    <2>2. Phase(t)' = Phase(t)
        BY DEF Walk, Found, MakeEntry, LinkFails, LoadValue, SwapValueFails, Delete, CopyValue,
               MapGoto, Phase, MapInv, MapTypeOK
    <2> QED
        BY <2>1, <2>2
<1> QED
    BY <1>2, <1>3, <1>4 DEF Map!vars

\* The phases of the callers when one of them has moved on.
LEMMA PhaseStep ==
    ASSUME MapInv, NEW t \in Callers, CallerStep(t), NEW p, Phase(t)' = p
    PROVE  [u \in Callers |-> Phase(u)]' = [[u \in Callers |-> Phase(u)] EXCEPT ![t] = p]
<1>1. \A u \in Callers : u # t => Phase(u)' = Phase(u)
    BY OthersUntouched DEF Phase
<1> QED
    BY <1>1

LEMMA CallerStepImplements ==
    ASSUME MapInv, MapInv', NEW t \in Callers, CallerStep(t)
    PROVE  [Map!Next]_(Map!vars)
<1> USE DEF MapInv, MapTypeOK
<1> DEFINE phase == [u \in Callers |-> Phase(u)]
           map == [k \in Keys |-> Content(k)]
<1>1. CASE \E name \in {"set", "get", "has"}, k \in Keys : Begin(t, name, k)
    <2>1. PICK name \in {"set", "get", "has"}, k \in Keys : Begin(t, name, k)
        BY <1>1
    <2>2. map' = map
        BY <2>1, ContentUnchanged DEF Begin, Link, SwapValue
    <2>3. Phase(t) = "idle" /\ Phase(t)' = "called"
        BY <2>1 DEF Begin, MapGoto, Phase
    <2>4. phase' = [phase EXCEPT ![t] = "called"]
        BY <2>3, PhaseStep
    <2>5. PICK q \in Map!Request : request' = [request EXCEPT ![t] = q]
        <3>1. map_calls'[t] \in 1 .. MaxMapCalls
            BY <2>1, AtomicHashMapAssumption DEF Begin
        <3>2. <<t, map_calls'[t]>> \in Entries
            BY <3>1 DEF Entries
        <3> QED
            BY <2>1, <3>2 DEF Begin, Map!Request
    <2>6. map_answer' = [map_answer EXCEPT ![t] = Absent]
        BY <2>1 DEF Begin
    <2>7. Map!Call(t)
        BY <2>2, <2>3, <2>4, <2>5, <2>6 DEF Map!Call
    <2> QED
        BY <2>7 DEF Map!Next
<1>2. CASE Link(t) \/ SwapValue(t)
    <2>1. \A k \in Keys : Content(k)' = IF k = request[t].key THEN request[t].value ELSE Content(k)
        BY <1>2, ContentSet
    <2>2. map' = [map EXCEPT ![request[t].key] = request[t].value]
        BY <2>1
    <2>3. Phase(t) = "called" /\ Phase(t)' = "done"
        BY <1>2 DEF Link, SwapValue, MapGoto, Phase
    <2>4. phase' = [phase EXCEPT ![t] = "done"]
        BY <2>3, PhaseStep
    <2>5. UNCHANGED <<request, map_answer>> /\ request[t].name = "set"
        BY <1>2 DEF Link, SwapValue, mapCallVars, PlaceFitsRequest
    <2>6. Map!Set(t)
        BY <2>2, <2>3, <2>4, <2>5 DEF Map!Set
    <2> QED
        BY <2>6 DEF Map!Next
<1>3. CASE \/ HasFound(t) \/ \E name \in {"has", "get"} : NotFound(t, name)
           \/ LoadValue(t) /\ request[t].name = "get"
    <2> DEFINE found == map[request[t].key]
    <2>1. map' = map
        BY <1>3, ContentUnchanged DEF HasFound, NotFound, Answer, LoadValue, Link, SwapValue
    <2>2. Phase(t) = "called" /\ Phase(t)' = "done"
        BY <1>3 DEF HasFound, NotFound, Answer, LoadValue, MapGoto, Phase
    <2>3. phase' = [phase EXCEPT ![t] = "done"]
        BY <2>2, PhaseStep
    <2>4. request' = request /\ request[t].name # "set" /\ request[t].key \in Keys
        BY <1>3 DEF HasFound, NotFound, Answer, LoadValue, mapCallVars, Request
    <2>5. map_answer' = [map_answer EXCEPT ![t] =
              IF request[t].name = "has" /\ found # Absent THEN Present ELSE found]
        <3>1. CASE HasFound(t)
            <4>1. Sorted
                BY SortedMeans
            <4>2. Ahead(t) \in linked /\ key[Ahead(t)] = request[t].key
                BY <3>1, <4>1 DEF HasFound, IsHere, Ahead, Answer, WalkIsBehind, Sorted
            <4>3. found \in Entries
                BY <2>4, <4>2, ContentOfLinked DEF ContentIsLinked
            <4> QED
                BY <3>1, <4>3, AtomicHashMapAssumption DEF HasFound, Answer
        <3>2. CASE \E name \in {"has", "get"} : NotFound(t, name)
            <4>1. \A e \in linked : key[e] # request[t].key
                BY <3>2, BeyondIsAbsent DEF NotFound, Answer
            <4>2. found = Absent
                BY <2>4, <4>1, ContentOfLinked DEF ContentIsLinked
            <4> QED
                BY <3>2, <4>2 DEF NotFound, Answer
        <3>3. CASE LoadValue(t) /\ request[t].name = "get"
            <4>1. target[t] \in linked /\ key[target[t]] = request[t].key
                BY <3>3 DEF LoadValue, WalkIsBehind
            <4>2. found = content[value_ptr[target[t]]]
                BY <2>4, <4>1, ContentOfLinked DEF ContentIsLinked
            <4> QED
                BY <3>3, <4>2 DEF LoadValue
        <3> QED
            BY <1>3, <3>1, <3>2, <3>3
    <2>6. Map!Look(t)
        BY <2>1, <2>2, <2>3, <2>4, <2>5 DEF Map!Look
    <2> QED
        BY <2>6 DEF Map!Next
<1>4. CASE MapReturn(t)
    <2>1. map' = map
        BY <1>4, ContentUnchanged DEF MapReturn, Link, SwapValue
    <2>2. Phase(t) = "done" /\ Phase(t)' = "idle"
        BY <1>4 DEF MapReturn, MapGoto, Phase
    <2>3. phase' = [phase EXCEPT ![t] = "idle"]
        BY <2>2, PhaseStep
    <2>4. Map!Return(t)
        BY <1>4, <2>1, <2>2, <2>3 DEF MapReturn, Map!Return, mapCallVars
    <2> QED
        BY <2>4 DEF Map!Next
<1>5. CASE \/ Walk(t) \/ Found(t) \/ MakeEntry(t) \/ LinkFails(t)
           \/ LoadValue(t) /\ request[t].name # "get"
           \/ SwapValueFails(t) \/ Delete(t) \/ CopyValue(t)
    BY <1>5, InnerStep
<1> QED
    BY <1>1, <1>2, <1>3, <1>4, <1>5 DEF CallerStep, MapStep

\* Every call on the map takes effect at one moment: what its loads and
\* compare-and-swaps do, step by step, is a step of AtomicMap or none.
THEOREM MapImplements == MapSpec => ImplementsMap
<1>1. MapInv /\ MapInv' /\ [MapNext]_mapVars => [Map!Next]_(Map!vars)
    <2> SUFFICES ASSUME MapInv, MapInv', [MapNext]_mapVars PROVE [Map!Next]_(Map!vars)
        OBVIOUS
    <2>1. CASE UNCHANGED mapVars
        <3>1. \A k \in Keys : Content(k)' = Content(k)
            BY <2>1 DEF mapVars, listVars, Content
        <3>2. \A t \in Callers : Phase(t)' = Phase(t)
            BY <2>1 DEF mapVars, Phase
        <3> QED
            BY <2>1, <3>1, <3>2 DEF mapVars, mapCallVars, Map!vars
    <2>2. ASSUME NEW t \in Callers, CallerStep(t) PROVE [Map!Next]_(Map!vars)
        BY <2>2, CallerStepImplements
    <2> QED
        BY <2>1, <2>2, MapNextSteps
<1> QED
    BY <1>1, MapInitImplements, MapInvariance, PTL DEF MapSpec, ImplementsMap, Map!Spec

-----------------------------------------------------------------------------
(* UnboundedQueue: invariant *)

InChain(n) == \E i \in 1 .. Len(chain) : chain[i] = n

\* A node that its producer has not put in.
IsFresh(n) == \E p \in Enqueuers : list_pc[p] = "cas" /\ node[p] = n

\* A reference of old[t] is t's to release: that of the tail or that of the head.
HoldsTail(p) == list_pc[p] \in {"link", "release"}
HoldsHead(c) == list_pc[c] \in {"copy", "count", "release"}

TailIsHeld(n) == IsFresh(n) \/ n = list_tail \/ \E p \in Enqueuers : HoldsTail(p) /\ old[p] = n
HeadIsHeld(n) == IsFresh(n) \/ InChain(n) \/ \E c \in Dequeuers : HoldsHead(c) /\ old[c] = n

\* t has released its reference and looks whether it was the last.
Tests(t) == list_pc[t] \in {"test", "delete"}

One(b) == IF b THEN 1 ELSE 0

\* Where a thread can be; who is stale waits for a swap, a node to read, or a test.
Labels ==
    /\ \A p \in Enqueuers : list_pc[p] \in {"idle", "cas", "link", "release", "test", "delete", "count"}
    /\ \A c \in Dequeuers : list_pc[c] \in {"idle", "read", "cas", "copy", "count", "release", "test", "delete"}
    /\ \A p \in Enqueuers : p \in stale => list_pc[p] \in {"cas", "test", "delete"}
    /\ \A c \in Dequeuers : c \in stale => list_pc[c] \in {"read", "cas", "copy", "test", "delete"}
    /\ \A c \in Dequeuers : list_pc[c] # "idle" => calls[c] > 0

\* The chain begins with the head, ends with the tail, and its nodes exist.
ChainStands ==
    /\ Len(chain) >= 1 /\ chain[1] = list_head /\ chain[Len(chain)] = list_tail
    /\ \A i, j \in 1 .. Len(chain) : chain[i] = chain[j] => i = j
    /\ \A i \in 1 .. Len(chain) : chain[i] \in live

\* Neighbours in the chain are linked, except where a producer is about to.
ChainIsLinked ==
    /\ next_node[list_tail] = NoNode
    /\ \A i \in 1 .. Len(chain) - 1 :
           \/ next_node[chain[i]] = chain[i + 1]
           \/ next_node[chain[i]] = NoNode /\ \E p \in Enqueuers : list_pc[p] = "link" /\ old[p] = chain[i]
    /\ \A p \in Enqueuers : list_pc[p] = "link" =>
           \E i \in 1 .. Len(chain) - 1 :
               chain[i] = old[p] /\ chain[i + 1] = node[p] /\ next_node[old[p]] = NoNode

\* A node that is not put in yet is known to its producer alone.
FreshAreApart ==
    \A p \in Enqueuers : list_pc[p] = "cas" =>
        /\ node[p] \in live /\ next_node[node[p]] = NoNode /\ ~InChain(node[p])
        /\ \A q \in Enqueuers : list_pc[q] = "cas" /\ node[p] = node[q] => p = q
        /\ \A q \in Enqueuers : HoldsTail(q) => old[q] # node[p]
        /\ \A c \in Dequeuers : HoldsHead(c) => old[c] # node[p]

\* A reference is released by one thread: that which moved the tail, or the head.
HoldersAreOne ==
    /\ \A p \in Enqueuers : HoldsTail(p) =>
           /\ old[p] \in live /\ old[p] # list_tail
           /\ \A q \in Enqueuers : HoldsTail(q) /\ old[q] = old[p] => p = q
    /\ \A c \in Dequeuers : HoldsHead(c) =>
           /\ old[c] \in live /\ ~InChain(old[c])
           /\ \A d \in Dequeuers : HoldsHead(d) /\ old[d] = old[c] => c = d

\* A node that exists counts the references that are still held.
RefsAreHeld == \A n \in live : refs[n] = One(TailIsHeld(n)) + One(HeadIsHeld(n))

\* Who has released a reference and is not stale looks at a node that exists.
TestersAreRight ==
    \A t \in Threads \ stale : Tests(t) => old[t] \in live /\ (list_pc[t] = "delete" => refs[old[t]] = 0)

\* A node that exists is referred to, or somebody is about to find it has no references.
LiveAreOwned ==
    \A n \in live :
        \/ TailIsHeld(n) \/ HeadIsHeld(n)
        \/ \E t \in Threads \ stale : Tests(t) /\ old[t] = n

\* What a consumer that is not stale has read is so.
ReadersKnow ==
    \A c \in Dequeuers \ stale :
        /\ list_pc[c] \in {"read", "cas"} =>
               \/ old[c] = list_head
               \/ old[c] \in live /\ ~InChain(old[c]) /\ next_node[old[c]] # NoNode
        /\ list_pc[c] = "cas" => node[c] = next_node[old[c]] /\ node[c] # NoNode
        /\ list_pc[c] = "copy" => node[c] \in live /\ data[node[c]] = list_taken[c]

\* The only consumer has the head in hand until it has copied.
OneIsNotStale ==
    OneConsumes =>
        \A c \in Dequeuers :
            /\ list_pc[c] \in {"read", "cas"} => c \notin stale /\ old[c] = list_head
            /\ list_pc[c] = "copy" => c \notin stale /\ node[c] = list_head

\* size_ is the length of the list, but for the calls that have not counted.
SizeIsRight ==
    size = (Len(chain) - 1
              + Counting(Dequeuers, {"copy", "count"})
              - Counting(Enqueuers, {"link", "release", "test", "delete", "count"})) % SizeLimit

\* What a consumer has copied is what the queue lost.
CopiesAreTaken ==
    \A c \in Dequeuers :
        list_pc[c] \in {"count", "release", "test", "delete"} => received[c] = list_taken[c]

ListInv ==
    /\ ListTypeOK
    /\ Labels /\ ChainStands /\ ChainIsLinked /\ FreshAreApart /\ HoldersAreOne
    /\ RefsAreHeld /\ TestersAreRight /\ LiveAreOwned /\ ReadersKnow /\ OneIsNotStale
    /\ SizeIsRight /\ CopiesAreTaken /\ OnlyReleaseIsUndefined

-----------------------------------------------------------------------------
(* UnboundedQueue: what each step does *)

\* Only t moves, to the place s.
Goes(t, s) ==
    /\ list_pc'[t] = s
    /\ \A u \in Threads : u # t => list_pc'[u] = list_pc[u]

Stands == UNCHANGED <<list_head, list_tail, chain>>
Memory == UNCHANGED <<live, data, next_node, refs>>
LocalPointers == UNCHANGED <<old, node>>

LEMMA GotoGoes ==
    ASSUME ListTypeOK, NEW t \in Threads, NEW s, ListGoto(t, s)
    PROVE  Goes(t, s)
BY DEF ListTypeOK, ListGoto, Goes

LEMMA AllocateEffect ==
    ASSUME ListInv, NEW p \in Enqueuers, AllocateNode(p)
    PROVE  \E n \in Nodes \ live :
               /\ list_pc[p] = "idle" /\ p \notin stale /\ Goes(p, "cas") /\ Stands
               /\ live' = live \cup {n}
               /\ data'[n] \in Elements /\ next_node'[n] = NoNode /\ refs'[n] = 2
               /\ \A m \in Nodes : m # n =>
                      data'[m] = data[m] /\ next_node'[m] = next_node[m] /\ refs'[m] = refs[m]
               /\ node'[p] = n /\ old'[p] = list_tail
               /\ \A u \in Threads : u # p => node'[u] = node[u] /\ old'[u] = old[u] /\ calls'[u] = calls[u]
               /\ calls'[p] = calls[p] + 1
               /\ UNCHANGED <<size, stale, fault, list_taken, received, refused>>
<1>0. p \in Threads /\ p \notin Dequeuers /\ calls[p] + 1 \in 1 .. MaxCalls
  BY ListAssumption DEF Threads, AllocateNode, ListInv, ListTypeOK
<1>1. PICK n \in Nodes \ live :
          /\ live' = live \cup {n}
          /\ data' = [data EXCEPT ![n] = <<p, calls[p] + 1>>]
          /\ next_node' = [next_node EXCEPT ![n] = NoNode]
          /\ refs' = [refs EXCEPT ![n] = 2]
          /\ node' = [node EXCEPT ![p] = n]
  BY DEF AllocateNode
<1>2. data'[n] = <<p, calls[p] + 1>> /\ data'[n] \in Elements
  <2>1. data'[n] = <<p, calls[p] + 1>>
    BY <1>1 DEF ListInv, ListTypeOK
  <2> QED
    BY <1>0, <2>1 DEF Elements
<1>3. list_pc[p] = "idle" /\ p \notin stale /\ Goes(p, "cas")
  BY <1>0, GotoGoes DEF AllocateNode, At, ListInv, Labels
<1>4. \A m \in Nodes : m # n =>
          data'[m] = data[m] /\ next_node'[m] = next_node[m] /\ refs'[m] = refs[m]
  BY <1>1 DEF ListInv, ListTypeOK
<1>5. next_node'[n] = NoNode /\ refs'[n] = 2 /\ node'[p] = n /\ old'[p] = list_tail /\ calls'[p] = calls[p] + 1
  BY <1>0, <1>1 DEF ListInv, ListTypeOK, AllocateNode
<1>6. \A u \in Threads : u # p => node'[u] = node[u] /\ old'[u] = old[u] /\ calls'[u] = calls[u]
  BY <1>0, <1>1 DEF ListInv, ListTypeOK, AllocateNode
<1>7. Stands /\ UNCHANGED <<size, stale, fault, list_taken, received, refused>>
  BY DEF AllocateNode, Stands, historyVars
<1> QED
  BY <1>1, <1>2, <1>3, <1>4, <1>5, <1>6, <1>7

LEMMA MoveTailEffect ==
    ASSUME ListInv, NEW p \in Enqueuers, MoveTail(p)
    PROVE  /\ list_pc[p] = "cas" /\ Goes(p, "link") /\ Memory /\ LocalPointers
           /\ list_tail = old[p] /\ list_tail' = node[p] /\ list_head' = list_head
           /\ node[p] \in Nodes /\ node[p] \in live
           /\ chain' \in Seq(Nodes) /\ Len(chain') = Len(chain) + 1 /\ chain'[Len(chain) + 1] = node[p]
           /\ \A i \in 1 .. Len(chain) : chain'[i] = chain[i]
           /\ stale' = stale \ {p}
           /\ UNCHANGED <<size, calls, fault, list_taken, received, refused>>
<1>1. p \in Threads /\ list_pc[p] = "cas" /\ Goes(p, "link")
  BY GotoGoes DEF Threads, MoveTail, At, ListInv
<1>2. node[p] \in live /\ node[p] \in Nodes
  BY <1>1 DEF ListInv, FreshAreApart, ListTypeOK
<1>3. chain' = Append(chain, node[p]) /\ chain \in Seq(Nodes)
  BY DEF MoveTail, ListInv, ListTypeOK
<1>4. /\ chain' \in Seq(Nodes) /\ Len(chain') = Len(chain) + 1 /\ chain'[Len(chain) + 1] = node[p]
      /\ \A i \in 1 .. Len(chain) : chain'[i] = chain[i]
  BY <1>2, <1>3, AppendProperties
<1> QED
  BY <1>1, <1>2, <1>4 DEF MoveTail, Memory, LocalPointers, nodeVars, localVars

LEMMA MoveTailFailsEffect ==
    ASSUME ListInv, NEW p \in Enqueuers, MoveTailFails(p)
    PROVE  /\ list_pc[p] = "cas" /\ Stands /\ Memory
           /\ old'[p] = list_tail /\ \A u \in Threads : u # p => old'[u] = old[u]
           /\ stale' = stale \ {p}
           /\ UNCHANGED <<list_pc, node, size, calls, fault, list_taken, received, refused>>
BY DEF MoveTailFails, At, Stands, Memory, nodeVars, historyVars, ListInv, ListTypeOK, Threads

LEMMA LinkEffect ==
    ASSUME ListInv, NEW p \in Enqueuers, LinkNode(p)
    PROVE  /\ list_pc[p] = "link" /\ Goes(p, "release") /\ Stands /\ LocalPointers
           /\ old[p] \in Nodes /\ old[p] \in live
           /\ next_node'[old[p]] = node[p] /\ \A m \in Nodes : m # old[p] => next_node'[m] = next_node[m]
           /\ UNCHANGED <<live, data, refs, size, stale, calls, fault, list_taken, received, refused>>
<1>1. p \in Threads /\ list_pc[p] = "link" /\ Goes(p, "release")
  BY GotoGoes DEF Threads, LinkNode, At, ListInv
<1>2. old[p] \in Nodes /\ old[p] \in live
  BY <1>1 DEF ListInv, HoldersAreOne, HoldsTail, ListTypeOK
<1> QED
  BY <1>1, <1>2 DEF LinkNode, Uses, Stands, LocalPointers, localVars, historyVars, ListInv, ListTypeOK

LEMMA CountEffect ==
    ASSUME ListInv, NEW t \in Threads, CountUp(t) \/ CountDown(t)
    PROVE  /\ list_pc[t] = "count" /\ Stands /\ Memory /\ LocalPointers
           /\ CountUp(t) => t \in Enqueuers /\ Goes(t, "idle") /\ size' = (size + 1) % SizeLimit
           /\ CountDown(t) => t \in Dequeuers /\ Goes(t, "release") /\ size' = (size - 1) % SizeLimit
           /\ UNCHANGED <<stale, calls, fault, list_taken, received, refused>>
BY GotoGoes DEF CountUp, CountDown, At, Stands, Memory, LocalPointers, nodeVars, localVars, historyVars, ListInv

LEMMA LoadHeadEffect ==
    ASSUME ListInv, NEW c \in Dequeuers, LoadHead(c)
    PROVE  /\ list_pc[c] = "idle" /\ c \notin stale /\ Goes(c, "read") /\ Stands /\ Memory
           /\ old'[c] = list_head /\ \A u \in Threads : u # c => old'[u] = old[u] /\ calls'[u] = calls[u]
           /\ calls'[c] = calls[c] + 1 /\ calls[c] \in 0 .. MaxCalls - 1
           /\ refused' = refused \ {c}
           /\ UNCHANGED <<node, size, stale, fault, list_taken, received>>
<1>1. c \in Threads /\ list_pc[c] = "idle" /\ c \notin stale /\ Goes(c, "read")
  BY GotoGoes DEF Threads, LoadHead, At, ListInv, Labels
<1>2. calls[c] \in 0 .. MaxCalls - 1
  BY <1>1, ListAssumption DEF LoadHead, ListInv, ListTypeOK
<1> QED
  BY <1>1, <1>2 DEF LoadHead, Stands, Memory, nodeVars, ListInv, ListTypeOK

LEMMA ReadNextEffect ==
    ASSUME ListInv, NEW c \in Dequeuers, ReadNext(c)
    PROVE  /\ list_pc[c] = "read" /\ c \notin stale /\ Stands /\ Memory
           /\ old[c] \in live /\ old[c] \in Nodes
           /\ node'[c] = next_node[old[c]] /\ \A u \in Threads : u # c => node'[u] = node[u]
           /\ \/ next_node[old[c]] = NoNode /\ Goes(c, "idle") /\ refused' = refused \cup {c}
              \/ next_node[old[c]] # NoNode /\ Goes(c, "cas") /\ refused' = refused
           /\ UNCHANGED <<old, size, calls, stale, fault, list_taken, received>>
<1>1. c \in Threads /\ list_pc[c] = "read" /\ c \notin stale
  BY DEF Threads, ReadNext, At, Uses
<1>2. list_head \in live /\ list_head \in Nodes
  BY DEF ListInv, ChainStands, ListTypeOK
<1>3. old[c] \in live /\ old[c] \in Nodes
  BY <1>1, <1>2 DEF ListInv, ReadersKnow, ListTypeOK
<1>4. node'[c] = next_node[old[c]] /\ \A u \in Threads : u # c => node'[u] = node[u]
  BY <1>1 DEF ReadNext, ListInv, ListTypeOK
<1>5. \/ next_node[old[c]] = NoNode /\ Goes(c, "idle") /\ refused' = refused \cup {c}
      \/ next_node[old[c]] # NoNode /\ Goes(c, "cas") /\ refused' = refused
  BY <1>1, GotoGoes DEF ReadNext, ListInv
<1> QED
  BY <1>1, <1>3, <1>4, <1>5 DEF ReadNext, Uses, Stands, Memory, nodeVars

LEMMA MoveHeadEffect ==
    ASSUME ListInv, NEW c \in Dequeuers, MoveHead(c)
    PROVE  /\ list_pc[c] = "cas" /\ c \notin stale /\ Goes(c, "copy") /\ Memory /\ LocalPointers
           /\ list_head = old[c] /\ next_node[list_head] # NoNode
           /\ Len(chain) > 1 /\ node[c] = chain[2] /\ node[c] = next_node[list_head]
           /\ list_head' = node[c] /\ list_tail' = list_tail
           /\ node[c] \in live /\ node[c] \in Nodes
           /\ chain' \in Seq(Nodes) /\ Len(chain') = Len(chain) - 1
           /\ \A i \in 1 .. Len(chain) - 1 : chain'[i] = chain[i + 1]
           /\ list_taken'[c] = data[node[c]] /\ \A d \in Dequeuers : d # c => list_taken'[d] = list_taken[d]
           /\ UNCHANGED <<size, calls, stale, fault, received, refused>>
<1>1. c \in Threads /\ list_pc[c] = "cas" /\ c \notin stale /\ Goes(c, "copy")
  BY GotoGoes DEF Threads, MoveHead, At, Uses, ListInv
<1>2. list_head = old[c] /\ node[c] = next_node[list_head] /\ node[c] # NoNode
  BY <1>1 DEF MoveHead, ListInv, ReadersKnow
<1>3. chain \in Seq(Nodes) /\ Len(chain) \in Nat /\ Len(chain) >= 1
  BY DEF ListInv, ListTypeOK, ChainStands
<1>4. Len(chain) # 1
  BY <1>2, <1>3 DEF ListInv, ChainStands, ChainIsLinked
<1>5. Len(chain) > 1 /\ 1 \in 1 .. Len(chain) - 1
  <2>1. \A k \in Nat : k >= 1 /\ k # 1 => k > 1 /\ 1 \in 1 .. k - 1
    OBVIOUS
  <2> QED
    BY <1>3, <1>4, <2>1
<1>6. node[c] = chain[2]
  BY <1>2, <1>5 DEF ListInv, ChainStands, ChainIsLinked
<1>7. node[c] \in live /\ node[c] \in Nodes
  BY <1>5, <1>6 DEF ListInv, ChainStands, ListTypeOK
<1>8. chain' = Tail(chain) /\ chain # <<>>
  BY <1>3 DEF MoveHead
<1>9. /\ chain' \in Seq(Nodes) /\ Len(chain') = Len(chain) - 1
      /\ \A i \in 1 .. Len(chain) - 1 : chain'[i] = chain[i + 1]
  BY <1>3, <1>8, HeadTailProperties
<1>10. list_taken'[c] = data[node[c]] /\ \A d \in Dequeuers : d # c => list_taken'[d] = list_taken[d]
  BY DEF MoveHead, ListInv, ListTypeOK
<1> QED
  BY <1>1, <1>2, <1>5, <1>6, <1>7, <1>9, <1>10 DEF MoveHead, Uses, Memory, LocalPointers, nodeVars, localVars

LEMMA MoveHeadFailsEffect ==
    ASSUME ListInv, NEW c \in Dequeuers, MoveHeadFails(c)
    PROVE  /\ list_pc[c] = "cas" /\ Goes(c, "read") /\ Stands /\ Memory
           /\ old[c] # list_head
           /\ old'[c] = list_head /\ \A u \in Threads : u # c => old'[u] = old[u]
           /\ stale' = stale \ {c}
           /\ UNCHANGED <<node, size, calls, fault, list_taken, received, refused>>
<1>1. c \in Threads /\ list_pc[c] = "cas" /\ Goes(c, "read")
  BY GotoGoes DEF Threads, MoveHeadFails, At, ListInv
<1> QED
  BY <1>1 DEF MoveHeadFails, Stands, Memory, nodeVars, historyVars, ListInv, ListTypeOK

LEMMA CopyEffect ==
    ASSUME ListInv, NEW c \in Dequeuers, CopyElement(c)
    PROVE  /\ list_pc[c] = "copy" /\ c \notin stale /\ Goes(c, "count") /\ Stands /\ Memory /\ LocalPointers
           /\ received'[c] = data[node[c]] /\ \A u \in Threads : u # c => received'[u] = received[u]
           /\ received' \in [Threads -> Elements] /\ data[node[c]] = list_taken[c]
           /\ UNCHANGED <<size, calls, stale, fault, list_taken, refused>>
<1>1. c \in Threads /\ list_pc[c] = "copy" /\ c \notin stale /\ Goes(c, "count")
  BY GotoGoes DEF Threads, CopyElement, At, Uses, ListInv
<1>2. node[c] \in live /\ data[node[c]] = list_taken[c]
  BY <1>1 DEF ListInv, ReadersKnow
<1>3. data[node[c]] \in Elements
  BY <1>2 DEF ListInv, ListTypeOK
<1>4. received' = [received EXCEPT ![c] = data[node[c]]] /\ received \in [Threads -> Elements]
  BY DEF CopyElement, ListInv, ListTypeOK
<1> QED
  BY <1>1, <1>2, <1>3, <1>4 DEF CopyElement, Uses, Stands, Memory, LocalPointers, nodeVars, historyVars

LEMMA DecrementEffect ==
    ASSUME ListInv, NEW t \in Threads, Decrement(t)
    PROVE  /\ list_pc[t] = "release" /\ t \notin stale /\ Goes(t, "test") /\ Stands /\ LocalPointers
           /\ old[t] \in live /\ old[t] \in Nodes
           /\ t \in Enqueuers => HoldsTail(t)
           /\ t \in Dequeuers => HoldsHead(t)
           /\ refs'[old[t]] = refs[old[t]] - 1 /\ \A m \in Nodes : m # old[t] => refs'[m] = refs[m]
           /\ UNCHANGED <<live, data, next_node, size, calls, stale, fault, list_taken, received, refused>>
<1>1. list_pc[t] = "release" /\ t \notin stale /\ Goes(t, "test")
  BY GotoGoes DEF Decrement, At, Uses, ListInv
<1>2. /\ t \in Enqueuers => HoldsTail(t)
      /\ t \in Dequeuers => HoldsHead(t)
  BY <1>1 DEF HoldsTail, HoldsHead
<1>3. old[t] \in live /\ old[t] \in Nodes
  BY <1>2 DEF ListInv, HoldersAreOne, Threads, ListTypeOK
<1> QED
  BY <1>1, <1>2, <1>3 DEF Decrement, Uses, Stands, LocalPointers, localVars, historyVars, ListInv, ListTypeOK

LEMMA TestEffect ==
    ASSUME ListInv, NEW t \in Threads, TestCount(t)
    PROVE  /\ list_pc[t] = "test" /\ t \notin stale /\ Stands /\ Memory /\ LocalPointers
           /\ \/ refs[old[t]] = 0 /\ Goes(t, "delete")
              \/ refs[old[t]] # 0 /\ Goes(t, IF t \in Enqueuers THEN "count" ELSE "idle")
           /\ UNCHANGED <<size, calls, stale, fault, list_taken, received, refused>>
<1>1. list_pc[t] = "test" /\ t \notin stale
  BY DEF TestCount, At, Uses
<1>2. \/ refs[old[t]] = 0 /\ Goes(t, "delete")
      \/ refs[old[t]] # 0 /\ Goes(t, IF t \in Enqueuers THEN "count" ELSE "idle")
  BY GotoGoes DEF TestCount, Released, ListInv
<1> QED
  BY <1>1, <1>2 DEF TestCount, Uses, Stands, Memory, LocalPointers, nodeVars, localVars, historyVars

LEMMA DeleteEffect ==
    ASSUME ListInv, NEW t \in Threads, DeleteNode(t)
    PROVE  /\ list_pc[t] = "delete" /\ t \notin stale /\ Stands /\ LocalPointers
           /\ Goes(t, IF t \in Enqueuers THEN "count" ELSE "idle")
           /\ old[t] \in live /\ ~TailIsHeld(old[t]) /\ ~HeadIsHeld(old[t])
           /\ live' = live \ {old[t]} /\ stale' = stale \cup (Pointing(old[t]) \ {t})
           /\ UNCHANGED <<data, next_node, refs, size, calls, fault, list_taken, received, refused>>
<1>1. list_pc[t] = "delete" /\ t \notin stale /\ Goes(t, IF t \in Enqueuers THEN "count" ELSE "idle")
  BY GotoGoes DEF DeleteNode, At, Uses, Released, ListInv
<1>2. old[t] \in live /\ refs[old[t]] = 0
  BY <1>1 DEF ListInv, TestersAreRight, Tests
<1>3. One(TailIsHeld(old[t])) + One(HeadIsHeld(old[t])) = 0
  BY <1>2 DEF ListInv, RefsAreHeld
<1>4. ~TailIsHeld(old[t]) /\ ~HeadIsHeld(old[t])
  BY <1>3 DEF One
<1> QED
  BY <1>1, <1>2, <1>4 DEF DeleteNode, Uses, Stands, LocalPointers, localVars, historyVars

\* The steps of the calls that may run side by side, apart from the use of a
\* node that is gone.
CallStep(t) ==
    \/ t \in Enqueuers /\ (AllocateNode(t) \/ MoveTail(t) \/ MoveTailFails(t) \/ LinkNode(t))
    \/ t \in Dequeuers /\ (LoadHead(t) \/ ReadNext(t) \/ MoveHead(t) \/ MoveHeadFails(t) \/ CopyElement(t))
    \/ CountUp(t) \/ CountDown(t) \/ Decrement(t) \/ TestCount(t) \/ DeleteNode(t)

LEMMA ListSteps ==
    ASSUME ListNext
    PROVE  Clear \/ \E t \in Threads : CallStep(t) \/ UseDeletedNode(t)
BY DEF ListNext, EnqueueOn, DequeueOn, release, CallStep, Threads

LEMMA CallsAreUndisturbed ==
    ASSUME NEW t \in Threads, CallStep(t)
    PROVE  fault = "none" /\ fault' = "none" /\ clears' = clears
BY DEF CallStep, AllocateNode, MoveTail, MoveTailFails, LinkNode, LoadHead, ReadNext, MoveHead, MoveHeadFails,
       CopyElement, CountUp, CountDown, Decrement, TestCount, DeleteNode, Uses, At

-----------------------------------------------------------------------------
(* UnboundedQueue: who holds which node *)

\* What keeps a node is what keeps it after every step but these: a node is
\* allocated, a reference is released, and Clear.
LEMMA HoldsStay ==
    ASSUME ListInv, NEW t \in Threads, CallStep(t), ~Decrement(t), ~(t \in Enqueuers /\ AllocateNode(t)),
           NEW n \in Nodes
    PROVE  (TailIsHeld(n)' <=> TailIsHeld(n)) /\ (HeadIsHeld(n)' <=> HeadIsHeld(n))
<1>0. Enqueuers \cap Dequeuers = {} /\ Enqueuers \subseteq Threads /\ Dequeuers \subseteq Threads
  BY ListAssumption DEF Threads
<1>1. CASE t \in Enqueuers /\ MoveTail(t)
  <2>1. /\ list_pc[t] = "cas" /\ Goes(t, "link") /\ LocalPointers
        /\ list_tail = old[t] /\ list_tail' = node[t] /\ Len(chain) \in Nat
        /\ Len(chain') = Len(chain) + 1 /\ chain'[Len(chain) + 1] = node[t]
        /\ \A i \in 1 .. Len(chain) : chain'[i] = chain[i]
    BY <1>1, MoveTailEffect DEF ListInv, ListTypeOK
  <2>2. IsFresh(n) <=> IsFresh(n)' \/ n = node[t]
    BY <1>0, <1>1, <2>1 DEF IsFresh, Goes, LocalPointers
  <2>3. InChain(n)' <=> InChain(n) \/ n = node[t]
    BY <2>1 DEF InChain
  <2>4. (\E p \in Enqueuers : HoldsTail(p)' /\ old'[p] = n)
          <=> (n = list_tail \/ \E p \in Enqueuers : HoldsTail(p) /\ old[p] = n)
    BY <1>0, <1>1, <2>1 DEF HoldsTail, Goes, LocalPointers
  <2>5. \A c \in Dequeuers : (HoldsHead(c)' <=> HoldsHead(c)) /\ old'[c] = old[c]
    BY <1>0, <1>1, <2>1 DEF HoldsHead, Goes, LocalPointers
  <2> QED
    BY <2>1, <2>2, <2>3, <2>4, <2>5 DEF TailIsHeld, HeadIsHeld
<1>2. CASE t \in Dequeuers /\ MoveHead(t)
  <2>1. /\ list_pc[t] = "cas" /\ Goes(t, "copy") /\ LocalPointers
        /\ list_head = old[t] /\ list_tail' = list_tail /\ Len(chain) \in Nat
        /\ Len(chain) > 1 /\ Len(chain') = Len(chain) - 1 /\ chain[1] = old[t]
        /\ \A i \in 1 .. Len(chain) - 1 : chain'[i] = chain[i + 1]
    BY <1>2, MoveHeadEffect DEF ListInv, ListTypeOK, ChainStands
  <2>2. IsFresh(n)' <=> IsFresh(n)
    BY <1>0, <1>2, <2>1 DEF IsFresh, Goes, LocalPointers
  <2>3. InChain(n) <=> InChain(n)' \/ n = old[t]
    <3>1. ASSUME NEW i \in 1 .. Len(chain), chain[i] = n  PROVE InChain(n)' \/ n = old[t]
      <4>1. CASE i = 1
        BY <3>1, <4>1, <2>1
      <4>2. CASE i # 1
        <5>1. i - 1 \in 1 .. Len(chain) - 1 /\ chain'[i - 1] = n
          BY <2>1, <3>1, <4>2
        <5> QED
          BY <5>1, <2>1 DEF InChain
      <4> QED
        BY <4>1, <4>2
    <3>2. ASSUME NEW i \in 1 .. Len(chain'), chain'[i] = n  PROVE InChain(n)
      <4>1. i + 1 \in 1 .. Len(chain) /\ chain[i + 1] = n
        BY <2>1, <3>2
      <4> QED
        BY <4>1 DEF InChain
    <3>3. n = old[t] => InChain(n)
      BY <2>1 DEF InChain
    <3> QED
      BY <3>1, <3>2, <3>3 DEF InChain
  <2>4. \A p \in Enqueuers : (HoldsTail(p)' <=> HoldsTail(p)) /\ old'[p] = old[p]
    BY <1>0, <1>2, <2>1 DEF HoldsTail, Goes, LocalPointers
  <2>5. (\E c \in Dequeuers : HoldsHead(c)' /\ old'[c] = n)
          <=> (n = old[t] \/ \E c \in Dequeuers : HoldsHead(c) /\ old[c] = n)
    BY <1>0, <1>2, <2>1 DEF HoldsHead, Goes, LocalPointers
  <2> QED
    BY <2>1, <2>2, <2>3, <2>4, <2>5 DEF TailIsHeld, HeadIsHeld
<1>3. CASE ~(t \in Enqueuers /\ MoveTail(t)) /\ ~(t \in Dequeuers /\ MoveHead(t))
  <2>1. Stands
    BY <1>3, MoveTailFailsEffect, LinkEffect, CountEffect, LoadHeadEffect, ReadNextEffect, MoveHeadFailsEffect,
       CopyEffect, TestEffect, DeleteEffect DEF CallStep
  <2>2. /\ \A p \in Enqueuers : list_pc'[p] = "cas" <=> list_pc[p] = "cas"
        /\ \A p \in Enqueuers : node'[p] = node[p]
    BY <1>0, <1>3, MoveTailFailsEffect, LinkEffect, CountEffect, LoadHeadEffect, ReadNextEffect, MoveHeadFailsEffect,
       CopyEffect, TestEffect, DeleteEffect DEF CallStep, Goes, LocalPointers
  <2>3. \A p \in Enqueuers : (HoldsTail(p)' <=> HoldsTail(p)) /\ (HoldsTail(p) => old'[p] = old[p])
    BY <1>0, <1>3, MoveTailFailsEffect, LinkEffect, CountEffect, LoadHeadEffect, ReadNextEffect, MoveHeadFailsEffect,
       CopyEffect, TestEffect, DeleteEffect DEF CallStep, Goes, LocalPointers, HoldsTail
  <2>4. \A c \in Dequeuers : (HoldsHead(c)' <=> HoldsHead(c)) /\ (HoldsHead(c) => old'[c] = old[c])
    BY <1>0, <1>3, MoveTailFailsEffect, LinkEffect, CountEffect, LoadHeadEffect, ReadNextEffect, MoveHeadFailsEffect,
       CopyEffect, TestEffect, DeleteEffect DEF CallStep, Goes, LocalPointers, HoldsHead
  <2>5. IsFresh(n)' <=> IsFresh(n)
    BY <2>2 DEF IsFresh
  <2>6. InChain(n)' <=> InChain(n)
    BY <2>1 DEF InChain, Stands
  <2> QED
    BY <2>1, <2>3, <2>4, <2>5, <2>6 DEF TailIsHeld, HeadIsHeld, Stands
<1> QED
  BY <1>1, <1>2, <1>3

LEMMA AllocatedIsHeld ==
    ASSUME ListInv, NEW p \in Enqueuers, AllocateNode(p), NEW n \in Nodes
    PROVE  /\ TailIsHeld(n)' <=> TailIsHeld(n) \/ n = node'[p]
           /\ HeadIsHeld(n)' <=> HeadIsHeld(n) \/ n = node'[p]
<1>0. Enqueuers \cap Dequeuers = {} /\ Enqueuers \subseteq Threads /\ Dequeuers \subseteq Threads
  BY ListAssumption DEF Threads
<1>1. /\ list_pc[p] = "idle" /\ Goes(p, "cas") /\ Stands
      /\ \A u \in Threads : u # p => node'[u] = node[u] /\ old'[u] = old[u]
  BY AllocateEffect
<1>2. IsFresh(n)' <=> IsFresh(n) \/ n = node'[p]
  BY <1>0, <1>1 DEF IsFresh, Goes
<1>3. \A q \in Enqueuers : (HoldsTail(q)' <=> HoldsTail(q)) /\ (HoldsTail(q) => old'[q] = old[q])
  BY <1>0, <1>1 DEF HoldsTail, Goes
<1>4. \A c \in Dequeuers : (HoldsHead(c)' <=> HoldsHead(c)) /\ old'[c] = old[c]
  BY <1>0, <1>1 DEF HoldsHead, Goes
<1>5. InChain(n)' <=> InChain(n)
  BY <1>1 DEF InChain, Stands
<1> QED
  BY <1>1, <1>2, <1>3, <1>4, <1>5 DEF TailIsHeld, HeadIsHeld, Stands

LEMMA ReleasedIsHeld ==
    ASSUME ListInv, NEW t \in Threads, Decrement(t), NEW n \in Nodes
    PROVE  /\ TailIsHeld(n)' <=> TailIsHeld(n) /\ ~(t \in Enqueuers /\ n = old[t])
           /\ HeadIsHeld(n)' <=> HeadIsHeld(n) /\ ~(t \in Dequeuers /\ n = old[t])
<1>0. Enqueuers \cap Dequeuers = {} /\ Enqueuers \subseteq Threads /\ Dequeuers \subseteq Threads
  BY ListAssumption DEF Threads
<1>1. /\ list_pc[t] = "release" /\ Goes(t, "test") /\ Stands /\ LocalPointers
      /\ t \in Enqueuers => HoldsTail(t)
      /\ t \in Dequeuers => HoldsHead(t)
  BY DecrementEffect
<1>2. /\ IsFresh(n)' <=> IsFresh(n)
      /\ IsFresh(n) /\ t \in Threads => n # old[t]
  <2>1. IsFresh(n)' <=> IsFresh(n)
    BY <1>0, <1>1 DEF IsFresh, Goes, LocalPointers
  <2>2. IsFresh(n) => n # old[t]
    BY <1>0, <1>1 DEF IsFresh, ListInv, FreshAreApart, Threads
  <2> QED
    BY <2>1, <2>2
<1>3. /\ \A q \in Enqueuers : (HoldsTail(q)' <=> HoldsTail(q) /\ q # t) /\ old'[q] = old[q]
      /\ t \in Enqueuers => \A q \in Enqueuers : HoldsTail(q) /\ old[q] = old[t] => q = t
      /\ t \in Enqueuers => old[t] # list_tail
  BY <1>0, <1>1 DEF HoldsTail, Goes, LocalPointers, ListInv, HoldersAreOne
<1>4. /\ \A q \in Dequeuers : (HoldsHead(q)' <=> HoldsHead(q) /\ q # t) /\ old'[q] = old[q]
      /\ t \in Dequeuers => \A q \in Dequeuers : HoldsHead(q) /\ old[q] = old[t] => q = t
      /\ t \in Dequeuers => ~InChain(old[t])
  BY <1>0, <1>1 DEF HoldsHead, Goes, LocalPointers, ListInv, HoldersAreOne
<1>5. InChain(n)' <=> InChain(n)
  BY <1>1 DEF InChain, Stands
<1>6. TailIsHeld(n)' <=> TailIsHeld(n) /\ ~(t \in Enqueuers /\ n = old[t])
  BY <1>0, <1>1, <1>2, <1>3 DEF TailIsHeld, Stands
<1>7. HeadIsHeld(n)' <=> HeadIsHeld(n) /\ ~(t \in Dequeuers /\ n = old[t])
  BY <1>0, <1>1, <1>2, <1>4, <1>5 DEF HeadIsHeld
<1> QED
  BY <1>6, <1>7

\* Which nodes are in the queue changes only when tail_ or head_ moves.
LEMMA ChainMoves ==
    ASSUME ListInv, NEW t \in Threads, CallStep(t), NEW n
    PROVE  /\ InChain(n)' => (InChain(n) \/ (t \in Enqueuers /\ MoveTail(t) /\ n = node[t]))
           /\ InChain(n) => (InChain(n)' \/ (t \in Dequeuers /\ MoveHead(t) /\ n = old[t]))
           /\ t \in Dequeuers /\ MoveHead(t) => ~InChain(old[t])'
<1>1. CASE t \in Enqueuers /\ MoveTail(t)
  <2>1. /\ Len(chain) \in Nat
        /\ Len(chain') = Len(chain) + 1 /\ chain'[Len(chain) + 1] = node[t]
        /\ \A i \in 1 .. Len(chain) : chain'[i] = chain[i]
    BY <1>1, MoveTailEffect DEF ListInv, ListTypeOK
  <2>2. InChain(n)' <=> InChain(n) \/ n = node[t]
    BY <2>1 DEF InChain
  <2>3. t \notin Dequeuers
    BY <1>1, ListAssumption
  <2> QED
    BY <1>1, <2>2, <2>3 DEF InChain
<1>2. CASE t \in Dequeuers /\ MoveHead(t)
  <2>1. /\ list_head = old[t] /\ Len(chain) \in Nat
        /\ Len(chain) > 1 /\ Len(chain') = Len(chain) - 1 /\ chain[1] = old[t]
        /\ \A i \in 1 .. Len(chain) - 1 : chain'[i] = chain[i + 1]
        /\ \A i, j \in 1 .. Len(chain) : chain[i] = chain[j] => i = j
    BY <1>2, MoveHeadEffect DEF ListInv, ListTypeOK, ChainStands
  <2>2. ASSUME NEW i \in 1 .. Len(chain), chain[i] = n  PROVE InChain(n)' \/ n = old[t]
    <3>1. CASE i = 1
      BY <3>1, <2>2, <2>1
    <3>2. CASE i # 1
      <4>1. i - 1 \in 1 .. Len(chain) - 1 /\ chain'[i - 1] = n
        BY <2>1, <2>2, <3>2
      <4> QED
        BY <4>1, <2>1 DEF InChain
    <3> QED
      BY <3>1, <3>2
  <2>3. ASSUME NEW i \in 1 .. Len(chain'), chain'[i] = n  PROVE InChain(n) /\ n # old[t]
    <3>1. i + 1 \in 1 .. Len(chain) /\ chain[i + 1] = n /\ i + 1 # 1 /\ 1 \in 1 .. Len(chain)
      BY <2>1, <2>3
    <3> QED
      BY <3>1, <2>1 DEF InChain
  <2>4. /\ InChain(n) => InChain(n)' \/ n = old[t]
        /\ InChain(n)' => InChain(n) /\ n # old[t]
    BY <2>2, <2>3 DEF InChain
  <2>5. ASSUME NEW i \in 1 .. Len(chain'), chain'[i] = old[t]  PROVE FALSE
    <3>1. i + 1 \in 1 .. Len(chain) /\ chain[i + 1] = old[t] /\ i + 1 # 1 /\ 1 \in 1 .. Len(chain)
      BY <2>1, <2>5
    <3> QED
      BY <3>1, <2>1
  <2>6. ~InChain(old[t])'
    <3>1. old'[t] = old[t]
      BY <1>2, MoveHeadEffect DEF LocalPointers
    <3> QED
      BY <2>5, <3>1 DEF InChain
  <2> QED
    BY <1>1, <1>2, <2>4, <2>6, ListAssumption
<1>3. CASE ~(t \in Enqueuers /\ MoveTail(t)) /\ ~(t \in Dequeuers /\ MoveHead(t))
  <2>1. Stands
    BY <1>3, AllocateEffect, MoveTailFailsEffect, LinkEffect, CountEffect, LoadHeadEffect, ReadNextEffect, MoveHeadFailsEffect,
       CopyEffect, DecrementEffect, TestEffect, DeleteEffect DEF CallStep
  <2> QED
    BY <1>3, <2>1 DEF InChain, Stands, Threads
<1> QED
  BY <1>1, <1>2, <1>3

-----------------------------------------------------------------------------
(* UnboundedQueue: each part stays *)

LEMMA ListTypesStay ==
    ASSUME ListInv, NEW t \in Threads, CallStep(t)
    PROVE  ListTypeOK'
<1> USE DEF ListTypeOK
<1>0. ListTypeOK /\ ListAssumption /\ Threads = Enqueuers \cup Dequeuers
  BY ListAssumption DEF ListInv, Threads
<1>1. CASE t \in Enqueuers /\ AllocateNode(t)
  <2>1. calls[t] + 1 \in 1 .. MaxCalls /\ <<t, calls[t] + 1>> \in Elements
    BY <1>0, <1>1 DEF AllocateNode, Elements
  <2> QED
    BY <1>0, <1>1, <2>1 DEF AllocateNode, ListGoto, historyVars
<1>2. CASE t \in Enqueuers /\ MoveTail(t)
  <2>1. chain' \in Seq(Nodes) /\ node[t] \in Nodes
    BY <1>2, MoveTailEffect
  <2> QED
    BY <1>0, <1>2, <2>1 DEF MoveTail, ListGoto, nodeVars, localVars
<1>3. CASE t \in Enqueuers /\ MoveTailFails(t)
  BY <1>0, <1>3 DEF MoveTailFails, nodeVars, historyVars
<1>4. CASE t \in Enqueuers /\ LinkNode(t)
  BY <1>0, <1>4 DEF LinkNode, Uses, ListGoto, localVars, historyVars
<1>5. CASE t \in Dequeuers /\ LoadHead(t)
  BY <1>0, <1>5 DEF LoadHead, ListGoto, nodeVars
<1>6. CASE t \in Dequeuers /\ ReadNext(t)
  <2>1. old[t] \in Nodes
    BY <1>6, ReadNextEffect
  <2> QED
    BY <1>0, <1>6, <2>1 DEF ReadNext, Uses, ListGoto, nodeVars
<1>7. CASE t \in Dequeuers /\ MoveHead(t)
  <2>1. chain' \in Seq(Nodes) /\ node[t] \in Nodes
    BY <1>7, MoveHeadEffect
  <2> QED
    BY <1>0, <1>7, <2>1 DEF MoveHead, Uses, ListGoto, nodeVars, localVars
<1>8. CASE t \in Dequeuers /\ MoveHeadFails(t)
  BY <1>0, <1>8 DEF MoveHeadFails, ListGoto, nodeVars, historyVars
<1>9. CASE t \in Dequeuers /\ CopyElement(t)
  <2>1. received' \in [Threads -> Elements]
    BY <1>9, CopyEffect
  <2> QED
    BY <1>0, <1>9, <2>1 DEF CopyElement, Uses, ListGoto, nodeVars, historyVars
<1>10. CASE CountUp(t) \/ CountDown(t)
  <2>1. size' \in 0 .. SizeLimit - 1
    BY <1>0, <1>10 DEF CountUp, CountDown
  <2> QED
    BY <1>0, <1>10, <2>1 DEF CountUp, CountDown, ListGoto, nodeVars, localVars, historyVars
<1>11. CASE Decrement(t)
  <2>1. refs[old[t]] - 1 \in 0 .. 2 /\ old[t] \in Nodes
    <3>1. /\ old[t] \in live /\ old[t] \in Nodes
          /\ TailIsHeld(old[t]) \/ HeadIsHeld(old[t])
      BY <1>0, <1>11, DecrementEffect DEF TailIsHeld, HeadIsHeld
    <3>2. refs[old[t]] = One(TailIsHeld(old[t])) + One(HeadIsHeld(old[t]))
      BY <3>1 DEF ListInv, RefsAreHeld
    <3> QED
      BY <3>1, <3>2 DEF One
  <2>2. refs' \in [Nodes -> 0 .. 2]
    BY <1>0, <1>11, <2>1 DEF Decrement
  <2> QED
    BY <1>0, <1>11, <2>2 DEF Decrement, Uses, ListGoto, localVars, historyVars
<1>12. CASE TestCount(t)
  BY <1>0, <1>12 DEF TestCount, Released, Uses, ListGoto, nodeVars, localVars, historyVars
<1>13. CASE DeleteNode(t)
  BY <1>0, <1>13 DEF DeleteNode, Pointing, Released, Uses, ListGoto, localVars, historyVars
<1> QED
  BY <1>1, <1>2, <1>3, <1>4, <1>5, <1>6, <1>7, <1>8, <1>9, <1>10, <1>11, <1>12, <1>13 DEF CallStep

LEMMA LabelsStay ==
    ASSUME ListInv, NEW t \in Threads, CallStep(t)
    PROVE  Labels'
<1>0. /\ Labels /\ Enqueuers \cap Dequeuers = {} /\ Threads = Enqueuers \cup Dequeuers
      /\ \A u \in Threads : calls[u] \in Nat
  BY ListAssumption DEF ListInv, Threads, ListTypeOK
<1>1. CASE ~DeleteNode(t)
  <2>1. \A u \in Threads : u # t => (list_pc'[u] = list_pc[u] /\ (u \in stale' => u \in stale))
    BY <1>0, <1>1, AllocateEffect, MoveTailEffect, MoveTailFailsEffect, LinkEffect, CountEffect, LoadHeadEffect,
       ReadNextEffect, MoveHeadEffect, MoveHeadFailsEffect, CopyEffect, DecrementEffect, TestEffect DEF CallStep, Goes
  <2>2. \A u \in Threads : calls'[u] = calls[u] \/ calls'[u] = calls[u] + 1
    BY <1>0, <1>1, AllocateEffect, MoveTailEffect, MoveTailFailsEffect, LinkEffect, CountEffect, LoadHeadEffect,
       ReadNextEffect, MoveHeadEffect, MoveHeadFailsEffect, CopyEffect, DecrementEffect, TestEffect DEF CallStep
  <2>3. CASE t \in Enqueuers
    <3>1. /\ list_pc'[t] \in {"idle", "cas", "link", "release", "test", "delete", "count"}
          /\ t \in stale' => list_pc'[t] \in {"cas", "test", "delete"}
      BY <1>0, <1>1, <2>3, AllocateEffect, MoveTailEffect, MoveTailFailsEffect, LinkEffect, CountEffect,
         DecrementEffect, TestEffect DEF CallStep, Goes, Labels
    <3> QED
      BY <1>0, <2>1, <2>2, <2>3, <3>1 DEF Labels
  <2>4. CASE t \in Dequeuers
    <3>1. /\ list_pc'[t] \in {"idle", "read", "cas", "copy", "count", "release", "test", "delete"}
          /\ t \in stale' => list_pc'[t] \in {"read", "cas", "copy", "test", "delete"}
      BY <1>0, <1>1, <2>4, LoadHeadEffect, CountEffect, ReadNextEffect, MoveHeadEffect, MoveHeadFailsEffect, CopyEffect,
         DecrementEffect, TestEffect DEF CallStep, Goes, Labels
    <3>2. list_pc'[t] # "idle" => calls'[t] > 0
      <4>1. list_pc[t] # "idle" \/ LoadHead(t)
        BY <1>0, <1>1, <2>4, CountEffect, ReadNextEffect, MoveHeadEffect, MoveHeadFailsEffect, CopyEffect,
           DecrementEffect, TestEffect DEF CallStep
      <4>2. LoadHead(t) => calls'[t] = calls[t] + 1
        BY <2>4, LoadHeadEffect
      <4> QED
        BY <1>0, <2>2, <2>4, <4>1, <4>2 DEF Labels
    <3> QED
      BY <1>0, <2>1, <2>2, <2>4, <3>1, <3>2 DEF Labels
  <2> QED
    BY <1>0, <2>3, <2>4
<1>2. CASE DeleteNode(t)
  <2>1. /\ list_pc[t] = "delete" /\ t \notin stale
        /\ list_pc'[t] = (IF t \in Enqueuers THEN "count" ELSE "idle")
        /\ \A u \in Threads : u # t => list_pc'[u] = list_pc[u]
        /\ stale' = stale \cup (Pointing(old[t]) \ {t}) /\ calls' = calls
        /\ ~TailIsHeld(old[t]) /\ ~HeadIsHeld(old[t])
    BY <1>2, DeleteEffect DEF Goes
  <2>2. \A p \in Enqueuers : list_pc[p] = "link" => InChain(node[p])
    <3> SUFFICES ASSUME NEW p \in Enqueuers, list_pc[p] = "link"
                 PROVE  InChain(node[p])
      OBVIOUS
    <3>1. PICK i \in 1 .. Len(chain) - 1 : chain[i + 1] = node[p]
      BY DEF ListInv, ChainIsLinked
    <3>2. i + 1 \in 1 .. Len(chain)
      BY <3>1 DEF ListInv, ListTypeOK
    <3> QED
      BY <3>1, <3>2 DEF InChain
  <2>3. \A p \in Enqueuers : p \in Pointing(old[t]) => list_pc[p] \in {"cas", "test", "delete"}
    BY <1>0, <2>1, <2>2 DEF Pointing, TailIsHeld, HeadIsHeld, HoldsTail, Labels
  <2>4. \A c \in Dequeuers : c \in Pointing(old[t]) => list_pc[c] \in {"read", "cas", "copy", "test", "delete"}
    BY <1>0, <2>1 DEF Pointing, HeadIsHeld, HoldsHead, Labels
  <2> QED
    BY <1>0, <2>1, <2>3, <2>4 DEF Labels
<1> QED
  BY <1>1, <1>2

LEMMA ChainKeepsStanding ==
    ASSUME ListInv, NEW t \in Threads, CallStep(t)
    PROVE  ChainStands'
<1>0. /\ ChainStands /\ Len(chain) \in Nat /\ list_head \in Nodes
  BY DEF ListInv, ListTypeOK
<1>1. CASE t \in Enqueuers /\ MoveTail(t)
  <2>1. /\ list_pc[t] = "cas" /\ list_tail' = node[t] /\ list_head' = list_head /\ live' = live
        /\ node[t] \in live
        /\ Len(chain') = Len(chain) + 1 /\ chain'[Len(chain) + 1] = node[t]
        /\ \A i \in 1 .. Len(chain) : chain'[i] = chain[i]
    BY <1>1, MoveTailEffect DEF Memory
  <2>2. \A i \in 1 .. Len(chain) : chain[i] # node[t]
    BY <1>1, <2>1 DEF ListInv, FreshAreApart, InChain
  <2>3. \A i, j \in 1 .. Len(chain') : chain'[i] = chain'[j] => i = j
    BY <1>0, <2>1, <2>2 DEF ChainStands
  <2>4. \A i \in 1 .. Len(chain') : chain'[i] \in live'
    BY <1>0, <2>1 DEF ChainStands
  <2> QED
    BY <1>0, <2>1, <2>3, <2>4 DEF ChainStands
<1>2. CASE t \in Dequeuers /\ MoveHead(t)
  <2>1. /\ list_head' = node[t] /\ list_tail' = list_tail /\ live' = live /\ node[t] = chain[2]
        /\ Len(chain) > 1 /\ Len(chain') = Len(chain) - 1
        /\ \A i \in 1 .. Len(chain) - 1 : chain'[i] = chain[i + 1]
    BY <1>2, MoveHeadEffect DEF Memory
  <2>2. \A i \in 1 .. Len(chain') : chain'[i] = chain[i + 1] /\ i + 1 \in 1 .. Len(chain)
    BY <1>0, <2>1
  <2>3. \A i, j \in 1 .. Len(chain') : chain'[i] = chain'[j] => i = j
    BY <1>0, <2>1, <2>2 DEF ChainStands
  <2>4. \A i \in 1 .. Len(chain') : chain'[i] \in live'
    BY <1>0, <2>1, <2>2 DEF ChainStands
  <2>5. chain'[1] = list_head' /\ chain'[Len(chain')] = list_tail' /\ Len(chain') >= 1
    BY <1>0, <2>1 DEF ChainStands
  <2> QED
    BY <2>3, <2>4, <2>5 DEF ChainStands
<1>3. CASE DeleteNode(t)
  <2>1. Stands /\ live' = live \ {old[t]} /\ ~HeadIsHeld(old[t])
    BY <1>3, DeleteEffect
  <2>2. \A i \in 1 .. Len(chain) : chain[i] # old[t]
    BY <2>1 DEF HeadIsHeld, InChain
  <2> QED
    BY <1>0, <2>1, <2>2 DEF ChainStands, Stands
<1>4. CASE ~(t \in Enqueuers /\ MoveTail(t)) /\ ~(t \in Dequeuers /\ MoveHead(t)) /\ ~DeleteNode(t)
  <2>1. Stands /\ live \subseteq live'
    BY <1>4, AllocateEffect, MoveTailFailsEffect, LinkEffect, CountEffect, LoadHeadEffect, ReadNextEffect,
       MoveHeadFailsEffect, CopyEffect, DecrementEffect, TestEffect DEF CallStep, Memory
  <2> QED
    BY <1>0, <2>1 DEF ChainStands, Stands
<1> QED
  BY <1>1, <1>2, <1>3, <1>4

LEMMA ChainKeepsLinks ==
    ASSUME ListInv, NEW t \in Threads, CallStep(t)
    PROVE  ChainIsLinked'
<1>0. /\ ChainIsLinked /\ ChainStands /\ Len(chain) \in Nat /\ list_tail \in Nodes
      /\ \A i \in 1 .. Len(chain) : chain[i] \in live /\ chain[i] \in Nodes
      /\ Enqueuers \cap Dequeuers = {} /\ Threads = Enqueuers \cup Dequeuers
  <2>1. \A i \in 1 .. Len(chain) : chain[i] \in live /\ chain[i] \in Nodes
    BY DEF ListInv, ListTypeOK, ChainStands
  <2> QED
    BY <2>1, ListAssumption DEF ListInv, ListTypeOK, Threads
<1>1. CASE t \in Enqueuers /\ MoveTail(t)
  <2>1. /\ list_pc[t] = "cas" /\ Goes(t, "link") /\ list_tail = old[t] /\ list_tail' = node[t]
        /\ next_node' = next_node /\ LocalPointers
        /\ Len(chain') = Len(chain) + 1 /\ chain'[Len(chain) + 1] = node[t]
        /\ \A i \in 1 .. Len(chain) : chain'[i] = chain[i]
    BY <1>1, MoveTailEffect DEF Memory
  <2>2. next_node[node[t]] = NoNode
    BY <1>1, <2>1 DEF ListInv, FreshAreApart
  <2>3. ASSUME NEW i \in 1 .. Len(chain') - 1
        PROVE  \/ next_node'[chain'[i]] = chain'[i + 1]
               \/ next_node'[chain'[i]] = NoNode /\ \E p \in Enqueuers : list_pc'[p] = "link" /\ old'[p] = chain'[i]
    <3>1. CASE i = Len(chain)
      BY <1>0, <1>1, <2>1, <3>1 DEF Goes, LocalPointers, ChainStands, ChainIsLinked
    <3>2. CASE i # Len(chain)
      <4>1. i \in 1 .. Len(chain) - 1 /\ chain'[i] = chain[i] /\ chain'[i + 1] = chain[i + 1]
        BY <1>0, <2>1, <3>2
      <4>2. \A p \in Enqueuers : list_pc[p] = "link" => list_pc'[p] = "link" /\ old'[p] = old[p]
        BY <1>0, <1>1, <2>1 DEF Goes, LocalPointers
      <4> QED
        BY <1>0, <2>1, <4>1, <4>2 DEF ChainIsLinked
    <3> QED
      BY <3>1, <3>2
  <2>4. ASSUME NEW p \in Enqueuers, list_pc'[p] = "link"
        PROVE  \E i \in 1 .. Len(chain') - 1 :
                   chain'[i] = old'[p] /\ chain'[i + 1] = node'[p] /\ next_node'[old'[p]] = NoNode
    <3>1. CASE p = t
      <4>1. Len(chain) \in 1 .. Len(chain') - 1 /\ chain'[Len(chain)] = list_tail
        BY <1>0, <2>1 DEF ChainStands
      <4> QED
        BY <1>0, <2>1, <3>1, <4>1 DEF LocalPointers, ChainIsLinked
    <3>2. CASE p # t
      <4>1. list_pc[p] = "link" /\ old'[p] = old[p] /\ node'[p] = node[p]
        BY <1>0, <2>1, <2>4, <3>2 DEF Goes, LocalPointers
      <4>2. PICK i \in 1 .. Len(chain) - 1 :
                chain[i] = old[p] /\ chain[i + 1] = node[p] /\ next_node[old[p]] = NoNode
        BY <1>0, <4>1 DEF ChainIsLinked
      <4>3. i \in 1 .. Len(chain') - 1 /\ chain'[i] = chain[i] /\ chain'[i + 1] = chain[i + 1]
        BY <1>0, <2>1, <4>2
      <4> QED
        BY <2>1, <4>1, <4>2, <4>3
    <3> QED
      BY <3>1, <3>2
  <2> QED
    BY <2>1, <2>2, <2>3, <2>4 DEF ChainIsLinked
<1>2. CASE t \in Dequeuers /\ MoveHead(t)
  <2>1. /\ list_head = old[t] /\ Goes(t, "copy") /\ next_node[list_head] # NoNode
        /\ list_tail' = list_tail /\ next_node' = next_node /\ LocalPointers
        /\ Len(chain) > 1 /\ Len(chain') = Len(chain) - 1
        /\ \A i \in 1 .. Len(chain) - 1 : chain'[i] = chain[i + 1]
    BY <1>2, MoveHeadEffect DEF Memory
  <2>2. \A p \in Enqueuers : list_pc'[p] = list_pc[p] /\ old'[p] = old[p] /\ node'[p] = node[p]
    BY <1>0, <1>2, <2>1 DEF Goes, LocalPointers
  <2>3. \A i \in 1 .. Len(chain') - 1 :
            i + 1 \in 1 .. Len(chain) - 1 /\ chain'[i] = chain[i + 1] /\ chain'[i + 1] = chain[(i + 1) + 1]
    BY <1>0, <2>1
  <2>4. ASSUME NEW p \in Enqueuers, list_pc'[p] = "link"
        PROVE  \E i \in 1 .. Len(chain') - 1 :
                   chain'[i] = old'[p] /\ chain'[i + 1] = node'[p] /\ next_node'[old'[p]] = NoNode
    <3>1. PICK i \in 1 .. Len(chain) - 1 :
              chain[i] = old[p] /\ chain[i + 1] = node[p] /\ next_node[old[p]] = NoNode
      BY <1>0, <2>2, <2>4 DEF ChainIsLinked
    <3>2. i # 1
      BY <1>0, <2>1, <3>1 DEF ChainStands
    <3>3. i - 1 \in 1 .. Len(chain') - 1 /\ chain'[i - 1] = chain[i] /\ chain'[(i - 1) + 1] = chain[i + 1]
      BY <1>0, <2>1, <3>1, <3>2
    <3> QED
      BY <2>1, <2>2, <3>1, <3>3
  <2>5. \A i \in 1 .. Len(chain') - 1 :
           \/ next_node'[chain'[i]] = chain'[i + 1]
           \/ next_node'[chain'[i]] = NoNode /\ \E p \in Enqueuers : list_pc'[p] = "link" /\ old'[p] = chain'[i]
    <3> SUFFICES ASSUME NEW i \in 1 .. Len(chain') - 1
                 PROVE  \/ next_node'[chain'[i]] = chain'[i + 1]
                        \/ /\ next_node'[chain'[i]] = NoNode
                           /\ \E p \in Enqueuers : list_pc'[p] = "link" /\ old'[p] = chain'[i]
      OBVIOUS
    <3>1. i + 1 \in 1 .. Len(chain) - 1 /\ chain'[i] = chain[i + 1] /\ chain'[i + 1] = chain[(i + 1) + 1]
      BY <2>3
    <3>2. \/ next_node[chain[i + 1]] = chain[(i + 1) + 1]
          \/ /\ next_node[chain[i + 1]] = NoNode
             /\ \E p \in Enqueuers : list_pc[p] = "link" /\ old[p] = chain[i + 1]
      BY <1>0, <3>1 DEF ChainIsLinked
    <3> QED
      BY <2>1, <2>2, <3>1, <3>2
  <2> QED
    BY <1>0, <2>1, <2>4, <2>5 DEF ChainIsLinked
<1>3. CASE t \in Enqueuers /\ LinkNode(t)
  <2>1. /\ list_pc[t] = "link" /\ Goes(t, "release") /\ Stands /\ LocalPointers /\ old[t] \in Nodes
        /\ next_node'[old[t]] = node[t] /\ \A m \in Nodes : m # old[t] => next_node'[m] = next_node[m]
    BY <1>3, LinkEffect
  <2>2. old[t] # list_tail
    BY <1>3, <2>1 DEF ListInv, HoldersAreOne, HoldsTail
  <2>3. PICK k \in 1 .. Len(chain) - 1 : chain[k] = old[t] /\ chain[k + 1] = node[t]
    BY <1>0, <1>3, <2>1 DEF ChainIsLinked
  <2>4. ASSUME NEW i \in 1 .. Len(chain) - 1
        PROVE  \/ next_node'[chain[i]] = chain[i + 1]
               \/ next_node'[chain[i]] = NoNode /\ \E p \in Enqueuers : list_pc'[p] = "link" /\ old'[p] = chain[i]
    <3>1. CASE chain[i] = old[t]
      <4>1. i = k
        BY <1>0, <2>3, <3>1 DEF ChainStands
      <4> QED
        BY <2>1, <2>3, <3>1, <4>1
    <3>2. CASE chain[i] # old[t]
      <4>1. next_node'[chain[i]] = next_node[chain[i]]
        BY <1>0, <2>1, <3>2
      <4>2. \A p \in Enqueuers : list_pc[p] = "link" /\ old[p] = chain[i] => list_pc'[p] = "link" /\ old'[p] = chain[i]
        BY <1>0, <2>1, <3>2 DEF Goes, LocalPointers
      <4> QED
        BY <1>0, <4>1, <4>2 DEF ChainIsLinked
    <3> QED
      BY <3>1, <3>2
  <2>5. ASSUME NEW p \in Enqueuers, list_pc'[p] = "link"
        PROVE  \E i \in 1 .. Len(chain) - 1 :
                   chain[i] = old'[p] /\ chain[i + 1] = node'[p] /\ next_node'[old'[p]] = NoNode
    <3>1. p # t /\ list_pc[p] = "link" /\ old'[p] = old[p] /\ node'[p] = node[p]
      BY <1>0, <2>1, <2>5 DEF Goes, LocalPointers
    <3>2. PICK i \in 1 .. Len(chain) - 1 :
              chain[i] = old[p] /\ chain[i + 1] = node[p] /\ next_node[old[p]] = NoNode
      BY <1>0, <3>1 DEF ChainIsLinked
    <3>3. old[p] # old[t] /\ old[p] \in Nodes
      BY <1>0, <1>3, <2>1, <3>1, <3>2 DEF ListInv, HoldersAreOne, HoldsTail
    <3> QED
      BY <2>1, <3>1, <3>2, <3>3
  <2> QED
    BY <1>0, <2>1, <2>2, <2>4, <2>5 DEF ChainIsLinked, Stands
<1>4. CASE ~(t \in Enqueuers /\ (MoveTail(t) \/ LinkNode(t))) /\ ~(t \in Dequeuers /\ MoveHead(t))
  <2>1. Stands
    BY <1>4, AllocateEffect, MoveTailFailsEffect, CountEffect, LoadHeadEffect, ReadNextEffect,
       MoveHeadFailsEffect, CopyEffect, DecrementEffect, TestEffect, DeleteEffect DEF CallStep
  <2>2. \A p \in Enqueuers : (list_pc'[p] = "link" <=> list_pc[p] = "link")
    BY <1>0, <1>4, AllocateEffect, MoveTailFailsEffect, CountEffect, LoadHeadEffect, ReadNextEffect,
       MoveHeadFailsEffect, CopyEffect, DecrementEffect, TestEffect, DeleteEffect DEF CallStep, Goes
  <2>3. \A p \in Enqueuers : list_pc[p] = "link" => (old'[p] = old[p] /\ node'[p] = node[p])
    BY <1>0, <1>4, AllocateEffect, MoveTailFailsEffect, CountEffect, LoadHeadEffect, ReadNextEffect,
       MoveHeadFailsEffect, CopyEffect, DecrementEffect, TestEffect, DeleteEffect DEF CallStep, LocalPointers
  <2>4. \A m \in live : next_node'[m] = next_node[m]
    BY <1>4, AllocateEffect, MoveTailFailsEffect, CountEffect, LoadHeadEffect, ReadNextEffect,
       MoveHeadFailsEffect, CopyEffect, DecrementEffect, TestEffect, DeleteEffect DEF CallStep, Memory, ListInv, ListTypeOK
  <2>5. list_tail \in live
    BY <1>0 DEF ChainStands
  <2>6. \A i \in 1 .. Len(chain) - 1 : chain[i] \in live
    BY <1>0
  <2> QED
    BY <1>0, <2>1, <2>2, <2>3, <2>4, <2>5, <2>6 DEF ChainIsLinked, Stands
<1> QED
  BY <1>1, <1>2, <1>3, <1>4

\* Who begins to hold a node is who has moved tail_ or head_ from it; a node
\* that is in nobody's place in the list is new.
LEMMA HoldingMoves ==
    ASSUME ListInv, NEW t \in Threads, CallStep(t)
    PROVE  /\ \A p \in Enqueuers : HoldsTail(p)' =>
                  \/ HoldsTail(p) /\ old'[p] = old[p]
                  \/ p = t /\ MoveTail(t) /\ old'[p] = list_tail
           /\ \A c \in Dequeuers : HoldsHead(c)' =>
                  \/ HoldsHead(c) /\ old'[c] = old[c]
                  \/ c = t /\ MoveHead(t) /\ old'[c] = list_head
           /\ \A p \in Enqueuers : list_pc'[p] = "cas" =>
                  \/ list_pc[p] = "cas" /\ node'[p] = node[p] /\ (p = t => MoveTailFails(t))
                  \/ p = t /\ AllocateNode(t)
<1>0. Enqueuers \cap Dequeuers = {} /\ Threads = Enqueuers \cup Dequeuers /\ Labels
  BY ListAssumption DEF Threads, ListInv
<1>1. CASE t \in Enqueuers
  <2>1. \A u \in Threads : u # t => (list_pc'[u] = list_pc[u] /\ old'[u] = old[u] /\ node'[u] = node[u])
    BY <1>0, <1>1, AllocateEffect, MoveTailEffect, MoveTailFailsEffect, LinkEffect, CountEffect,
       DecrementEffect, TestEffect, DeleteEffect DEF CallStep, Goes, LocalPointers
  <2>2. \A c \in Dequeuers : HoldsHead(c)' => HoldsHead(c) /\ old'[c] = old[c]
    BY <1>0, <1>1, <2>1 DEF HoldsHead
  <2>3. HoldsTail(t)' => (HoldsTail(t) /\ old'[t] = old[t]) \/ (MoveTail(t) /\ old'[t] = list_tail)
    BY <1>0, <1>1, AllocateEffect, MoveTailEffect, MoveTailFailsEffect, LinkEffect, CountEffect,
       DecrementEffect, TestEffect, DeleteEffect DEF CallStep, Goes, LocalPointers, HoldsTail
  <2>4. list_pc'[t] = "cas" => (list_pc[t] = "cas" /\ node'[t] = node[t] /\ MoveTailFails(t)) \/ AllocateNode(t)
    BY <1>0, <1>1, MoveTailEffect, MoveTailFailsEffect, LinkEffect, CountEffect,
       DecrementEffect, TestEffect, DeleteEffect DEF CallStep, Goes
  <2> QED
    BY <1>0, <2>1, <2>2, <2>3, <2>4 DEF HoldsTail
<1>2. CASE t \in Dequeuers
  <2>1. \A u \in Threads : u # t => (list_pc'[u] = list_pc[u] /\ old'[u] = old[u] /\ node'[u] = node[u])
    BY <1>0, <1>2, LoadHeadEffect, ReadNextEffect, MoveHeadEffect, MoveHeadFailsEffect, CopyEffect, CountEffect,
       DecrementEffect, TestEffect, DeleteEffect DEF CallStep, Goes, LocalPointers
  <2>2. HoldsHead(t)' => (HoldsHead(t) /\ old'[t] = old[t]) \/ (MoveHead(t) /\ old'[t] = list_head)
    BY <1>0, <1>2, LoadHeadEffect, ReadNextEffect, MoveHeadEffect, MoveHeadFailsEffect, CopyEffect, CountEffect,
       DecrementEffect, TestEffect, DeleteEffect DEF CallStep, Goes, LocalPointers, HoldsHead
  <2> QED
    BY <1>0, <1>2, <2>1, <2>2 DEF HoldsTail, HoldsHead
<1> QED
  BY <1>0, <1>1, <1>2

LEMMA FreshStayApart ==
    ASSUME ListInv, NEW t \in Threads, CallStep(t)
    PROVE  FreshAreApart'
<1>0. /\ Enqueuers \cap Dequeuers = {} /\ Threads = Enqueuers \cup Dequeuers
      /\ FreshAreApart /\ HoldersAreOne /\ ChainStands /\ Len(chain) \in Nat
      /\ live \subseteq Nodes /\ list_tail \in Nodes /\ list_head \in Nodes
  BY ListAssumption DEF Threads, ListInv, ListTypeOK
<1>1. InChain(list_head) /\ InChain(list_tail) /\ \A n : InChain(n) => n \in live
  BY <1>0 DEF ChainStands, InChain
<1>2. CASE t \in Enqueuers /\ AllocateNode(t)
  <2>1. PICK n \in Nodes \ live :
            /\ list_pc[t] = "idle" /\ Goes(t, "cas") /\ Stands
            /\ live' = live \cup {n} /\ next_node'[n] = NoNode /\ node'[t] = n
            /\ \A m \in Nodes : m # n => next_node'[m] = next_node[m]
            /\ \A u \in Threads : u # t => node'[u] = node[u] /\ old'[u] = old[u]
    BY <1>2, AllocateEffect
  <2>2. \A q \in Enqueuers : HoldsTail(q)' => HoldsTail(q) /\ old'[q] = old[q] /\ old[q] \in live
    BY <1>0, <1>2, <2>1 DEF HoldsTail, Goes, HoldersAreOne
  <2>3. \A c \in Dequeuers : HoldsHead(c)' => HoldsHead(c) /\ old'[c] = old[c] /\ old[c] \in live
    BY <1>0, <1>2, <2>1 DEF HoldsHead, Goes, HoldersAreOne
  <2>4. \A m : InChain(m)' <=> InChain(m)
    BY <2>1 DEF Stands, InChain
  <2>5. \A q \in Enqueuers : q # t /\ list_pc'[q] = "cas" => list_pc[q] = "cas" /\ node'[q] = node[q]
    BY <1>0, <2>1 DEF Goes
  <2>6. ASSUME NEW p \in Enqueuers, list_pc'[p] = "cas"
        PROVE  /\ node'[p] \in live' /\ next_node'[node'[p]] = NoNode /\ ~InChain(node[p])'
               /\ \A q \in Enqueuers : list_pc'[q] = "cas" /\ node'[p] = node'[q] => p = q
               /\ \A q \in Enqueuers : HoldsTail(q)' => old'[q] # node'[p]
               /\ \A c \in Dequeuers : HoldsHead(c)' => old'[c] # node'[p]
    <3>0. ~InChain(node[p])' <=> \A i \in 1 .. Len(chain) : chain[i] # node'[p]
      BY <2>1 DEF Stands, InChain
    <3>1. CASE p = t
      <4>1. node'[p] = n /\ n \notin live
        BY <2>1, <3>1
      <4>2. \A i \in 1 .. Len(chain) : chain[i] # n
        BY <1>0, <4>1 DEF ChainStands
      <4>3. \A q \in Enqueuers : q # t /\ list_pc'[q] = "cas" => node'[q] # n
        BY <1>0, <2>5, <4>1 DEF FreshAreApart
      <4> QED
        BY <2>1, <2>2, <2>3, <3>0, <3>1, <4>1, <4>2, <4>3
    <3>2. CASE p # t
      <4>1. /\ list_pc[p] = "cas" /\ node'[p] = node[p] /\ node[p] \in live /\ node[p] # n
            /\ next_node[node[p]] = NoNode /\ ~InChain(node[p])
        BY <1>0, <2>1, <2>5, <2>6, <3>2 DEF FreshAreApart
      <4>2. \A q \in Enqueuers : list_pc'[q] = "cas" /\ node'[p] = node'[q] => p = q
        BY <1>0, <2>1, <2>5, <4>1 DEF FreshAreApart
      <4>3. /\ \A q \in Enqueuers : HoldsTail(q)' => old'[q] # node'[p]
            /\ \A c \in Dequeuers : HoldsHead(c)' => old'[c] # node'[p]
        BY <1>0, <2>2, <2>3, <4>1 DEF FreshAreApart
      <4>4. \A i \in 1 .. Len(chain) : chain[i] # node'[p]
        BY <4>1 DEF InChain
      <4> QED
        BY <1>0, <2>1, <3>0, <4>1, <4>2, <4>3, <4>4
    <3> QED
      BY <3>1, <3>2
  <2> QED
    BY <2>6 DEF FreshAreApart
<1>3. CASE ~(t \in Enqueuers /\ AllocateNode(t))
  <2> SUFFICES ASSUME NEW p \in Enqueuers, list_pc'[p] = "cas"
               PROVE  /\ node'[p] \in live' /\ next_node'[node'[p]] = NoNode /\ ~InChain(node[p])'
                      /\ \A q \in Enqueuers : list_pc'[q] = "cas" /\ node'[p] = node'[q] => p = q
                      /\ \A q \in Enqueuers : HoldsTail(q)' => old'[q] # node'[p]
                      /\ \A c \in Dequeuers : HoldsHead(c)' => old'[c] # node'[p]
    BY DEF FreshAreApart
  <2>1. \A q \in Enqueuers : list_pc'[q] = "cas" =>
            list_pc[q] = "cas" /\ node'[q] = node[q] /\ (q = t => MoveTailFails(t))
    BY <1>3, HoldingMoves
  <2>2. list_pc[p] = "cas" /\ node'[p] = node[p]
    BY <2>1
  <2>3. node[p] \in live /\ node[p] \in Nodes /\ next_node[node[p]] = NoNode /\ ~InChain(node[p]) /\ IsFresh(node[p])
    BY <1>0, <2>2 DEF FreshAreApart, IsFresh
  <2>4. node[p] \in live'
    BY <1>3, <2>3, MoveTailEffect, MoveTailFailsEffect, LinkEffect, CountEffect, LoadHeadEffect, ReadNextEffect,
       MoveHeadEffect, MoveHeadFailsEffect, CopyEffect, DecrementEffect, TestEffect, DeleteEffect DEF CallStep, Memory, TailIsHeld
  <2>5. next_node'[node[p]] = NoNode
    <3>1. CASE t \in Enqueuers /\ LinkNode(t)
      <4>1. list_pc[t] = "link" /\ \A m \in Nodes : m # old[t] => next_node'[m] = next_node[m]
        BY <3>1, LinkEffect
      <4>2. old[t] # node[p]
        BY <1>0, <2>2, <3>1, <4>1 DEF FreshAreApart, HoldsTail
      <4> QED
        BY <2>3, <4>1, <4>2
    <3>2. CASE ~(t \in Enqueuers /\ LinkNode(t))
      <4>1. next_node' = next_node
        BY <1>3, <3>2, MoveTailEffect, MoveTailFailsEffect, CountEffect, LoadHeadEffect, ReadNextEffect,
           MoveHeadEffect, MoveHeadFailsEffect, CopyEffect, DecrementEffect, TestEffect, DeleteEffect DEF CallStep, Memory
      <4> QED
        BY <2>3, <4>1
    <3> QED
      BY <3>1, <3>2
  <2>6. t \in Enqueuers /\ MoveTail(t) => p # t /\ node[t] # node[p] /\ list_pc[t] = "cas"
    <3> SUFFICES ASSUME t \in Enqueuers, MoveTail(t) PROVE p # t /\ node[t] # node[p] /\ list_pc[t] = "cas"
      OBVIOUS
    <3>1. list_pc[t] = "cas" /\ list_pc'[t] = "link"
      BY MoveTailEffect DEF Goes
    <3> QED
      BY <1>0, <2>2, <3>1 DEF FreshAreApart
  <2>7. \A n : n = node[p] => ~InChain(n)'
    BY <2>3, <2>6, ChainMoves
  <2>8. ~InChain(node[p])'
    BY <2>2, <2>7 DEF InChain
  <2>9. \A q \in Enqueuers : list_pc'[q] = "cas" /\ node'[p] = node'[q] => p = q
    BY <1>0, <2>1, <2>2 DEF FreshAreApart
  <2>10. \A q \in Enqueuers : HoldsTail(q)' => old'[q] # node[p]
    BY <1>0, <1>1, <2>2, <2>3, HoldingMoves DEF FreshAreApart
  <2>11. \A c \in Dequeuers : HoldsHead(c)' => old'[c] # node[p]
    BY <1>0, <1>1, <2>2, <2>3, HoldingMoves DEF FreshAreApart
  <2> QED
    BY <2>2, <2>4, <2>5, <2>8, <2>9, <2>10, <2>11
<1> QED
  BY <1>2, <1>3

LEMMA HoldersStayOne ==
    ASSUME ListInv, NEW t \in Threads, CallStep(t)
    PROVE  HoldersAreOne'
<1>0. /\ Enqueuers \cap Dequeuers = {} /\ Threads = Enqueuers \cup Dequeuers
      /\ FreshAreApart /\ HoldersAreOne /\ ChainStands /\ Len(chain) \in Nat
      /\ live \subseteq Nodes /\ list_tail \in Nodes /\ list_head \in Nodes
  BY ListAssumption DEF Threads, ListInv, ListTypeOK
<1>1. /\ InChain(list_head) /\ InChain(list_tail) /\ \A n : InChain(n) => n \in live
      /\ list_head \in live /\ list_tail \in live
  BY <1>0 DEF ChainStands, InChain
<1>2. \A n \in live : (TailIsHeld(n) \/ HeadIsHeld(n)) => n \in live'
  BY AllocateEffect, MoveTailEffect, MoveTailFailsEffect, LinkEffect, CountEffect, LoadHeadEffect, ReadNextEffect,
     MoveHeadEffect, MoveHeadFailsEffect, CopyEffect, DecrementEffect, TestEffect, DeleteEffect DEF CallStep, Memory
<1>3. CASE t \in Enqueuers /\ MoveTail(t)
  <2>1. list_pc[t] = "cas" /\ list_tail' = node[t] /\ old[t] = list_tail
    BY <1>3, MoveTailEffect
  <2>2. \A n : n # list_tail /\ n # node[t] /\ ~InChain(n) => ~InChain(n)'
    BY ChainMoves
  <2>3. \A p \in Enqueuers : HoldsTail(p)' => (HoldsTail(p) /\ old'[p] = old[p]) \/ (p = t /\ old'[p] = list_tail)
    BY HoldingMoves
  <2>4. \A c \in Dequeuers : HoldsHead(c)' => HoldsHead(c) /\ old'[c] = old[c]
    BY <1>0, <1>3, HoldingMoves
  <2>5. ~InChain(node[t]) /\ \A p \in Enqueuers : HoldsTail(p) => old[p] # node[t] /\ old[p] \in live /\ old[p] # list_tail /\ TailIsHeld(old[p])
    BY <1>0, <1>3, <2>1 DEF FreshAreApart, HoldersAreOne, TailIsHeld
  <2>6. \A c \in Dequeuers : HoldsHead(c) => /\ old[c] # node[t] /\ old[c] \in live /\ old[c] # list_tail
                                             /\ HeadIsHeld(old[c]) /\ ~InChain(old[c])
    BY <1>0, <1>1, <1>3, <2>1 DEF FreshAreApart, HoldersAreOne, HeadIsHeld
  <2>7. list_tail # node[t] /\ TailIsHeld(list_tail)
    BY <1>1, <2>5 DEF TailIsHeld
  <2>8. ASSUME NEW p \in Enqueuers, HoldsTail(p)'
        PROVE  /\ old'[p] \in live' /\ old'[p] # list_tail'
               /\ \A q \in Enqueuers : HoldsTail(q)' /\ old'[q] = old'[p] => p = q
    BY <1>0, <1>1, <1>2, <2>1, <2>3, <2>5, <2>7, <2>8 DEF HoldersAreOne
  <2>9. ASSUME NEW c \in Dequeuers, HoldsHead(c)'
        PROVE  /\ old'[c] \in live' /\ ~InChain(old[c])'
               /\ \A d \in Dequeuers : HoldsHead(d)' /\ old'[d] = old'[c] => c = d
    <3>1. \A n : n = old[c] => ~InChain(n)'
      BY <2>2, <2>4, <2>6, <2>9
    <3>2. ~InChain(old[c])'
      BY <2>4, <2>9, <3>1 DEF InChain
    <3> QED
      BY <1>0, <1>2, <2>4, <2>6, <2>9, <3>2 DEF HoldersAreOne
  <2> QED
    BY <2>8, <2>9 DEF HoldersAreOne
<1>4. CASE ~(t \in Enqueuers /\ MoveTail(t))
  <2>1. list_tail' = list_tail
    BY <1>4, AllocateEffect, MoveTailFailsEffect, LinkEffect, CountEffect, LoadHeadEffect, ReadNextEffect,
       MoveHeadEffect, MoveHeadFailsEffect, CopyEffect, DecrementEffect, TestEffect, DeleteEffect DEF CallStep, Stands
  <2>2. \A p \in Enqueuers : HoldsTail(p)' => HoldsTail(p) /\ old'[p] = old[p]
    BY <1>4, HoldingMoves
  <2>3. \A c \in Dequeuers : HoldsHead(c)' =>
            (HoldsHead(c) /\ old'[c] = old[c]) \/ (c = t /\ MoveHead(t) /\ old'[c] = list_head)
    BY HoldingMoves
  <2>4. \A n : ~InChain(n) => ~InChain(n)'
    BY <1>4, ChainMoves
  <2>5. ASSUME NEW p \in Enqueuers, HoldsTail(p)'
        PROVE  /\ old'[p] \in live' /\ old'[p] # list_tail'
               /\ \A q \in Enqueuers : HoldsTail(q)' /\ old'[q] = old'[p] => p = q
    BY <1>0, <1>2, <2>1, <2>2, <2>5 DEF HoldersAreOne, TailIsHeld
  <2>6. ASSUME NEW c \in Dequeuers, HoldsHead(c)'
        PROVE  /\ old'[c] \in live' /\ ~InChain(old[c])'
               /\ \A d \in Dequeuers : HoldsHead(d)' /\ old'[d] = old'[c] => c = d
    <3>1. CASE HoldsHead(c) /\ old'[c] = old[c]
      <4>1. old[c] \in live /\ ~InChain(old[c]) /\ HeadIsHeld(old[c]) /\ old[c] # list_head
        BY <1>0, <1>1, <3>1 DEF HoldersAreOne, HeadIsHeld
      <4>2. \A n : n = old[c] => ~InChain(n)'
        BY <2>4, <4>1
      <4>3. ~InChain(old[c])'
        BY <3>1, <4>2 DEF InChain
      <4>4. \A d \in Dequeuers : HoldsHead(d)' /\ old'[d] = old'[c] => c = d
        BY <1>0, <2>3, <3>1, <4>1 DEF HoldersAreOne
      <4> QED
        BY <1>2, <3>1, <4>1, <4>3, <4>4
    <3>2. CASE c = t /\ MoveHead(t) /\ old'[c] = list_head
      <4>1. ~InChain(old[c])'
        BY <1>0, <3>2, ChainMoves
      <4>2. list_head \in live'
        BY <1>1, <1>2 DEF HeadIsHeld
      <4>3. \A d \in Dequeuers : HoldsHead(d)' /\ old'[d] = old'[c] => c = d
        <5> SUFFICES ASSUME NEW d \in Dequeuers, HoldsHead(d)', old'[d] = old'[c], d # c
                     PROVE  FALSE
          OBVIOUS
        <5>1. HoldsHead(d) /\ old[d] = list_head
          BY <2>3, <3>2
        <5> QED
          BY <1>0, <1>1, <5>1 DEF HoldersAreOne
      <4> QED
        BY <3>2, <4>1, <4>2, <4>3
    <3> QED
      BY <2>3, <2>6, <3>1, <3>2
  <2> QED
    BY <2>5, <2>6 DEF HoldersAreOne
<1> QED
  BY <1>3, <1>4

LEMMA RefsStayHeld ==
    ASSUME ListInv, NEW t \in Threads, CallStep(t)
    PROVE  RefsAreHeld'
<1>0. /\ Enqueuers \cap Dequeuers = {} /\ Threads = Enqueuers \cup Dequeuers
      /\ RefsAreHeld /\ live \subseteq Nodes
  BY ListAssumption DEF Threads, ListInv, ListTypeOK
<1> SUFFICES ASSUME NEW n \in live'
             PROVE  refs'[n] = (IF TailIsHeld(n)' THEN 1 ELSE 0) + (IF HeadIsHeld(n)' THEN 1 ELSE 0)
  BY DEF RefsAreHeld, One
<1>1. CASE t \in Enqueuers /\ AllocateNode(t)
  <2>1. PICK m \in Nodes \ live :
            /\ live' = live \cup {m} /\ node'[t] = m /\ refs'[m] = 2
            /\ \A k \in Nodes : k # m => refs'[k] = refs[k]
    BY <1>1, AllocateEffect
  <2>2. n \in Nodes
    BY <1>0, <2>1
  <2>3. /\ TailIsHeld(n)' <=> TailIsHeld(n) \/ n = m
        /\ HeadIsHeld(n)' <=> HeadIsHeld(n) \/ n = m
    BY <1>1, <2>1, <2>2, AllocatedIsHeld
  <2>4. n # m => refs[n] = (IF TailIsHeld(n) THEN 1 ELSE 0) + (IF HeadIsHeld(n) THEN 1 ELSE 0)
    BY <1>0, <2>1 DEF RefsAreHeld, One
  <2> QED
    BY <2>1, <2>2, <2>3, <2>4
<1>2. CASE Decrement(t)
  <2>1. /\ live' = live /\ refs'[old[t]] = refs[old[t]] - 1 /\ \A m \in Nodes : m # old[t] => refs'[m] = refs[m]
        /\ t \in Enqueuers => HoldsTail(t)
        /\ t \in Dequeuers => HoldsHead(t)
    BY <1>2, DecrementEffect
  <2>2. /\ t \in Enqueuers => TailIsHeld(old[t])
        /\ t \in Dequeuers => HeadIsHeld(old[t])
    BY <2>1 DEF TailIsHeld, HeadIsHeld
  <2>3. /\ TailIsHeld(n)' <=> TailIsHeld(n) /\ ~(t \in Enqueuers /\ n = old[t])
        /\ HeadIsHeld(n)' <=> HeadIsHeld(n) /\ ~(t \in Dequeuers /\ n = old[t])
    BY <1>0, <1>2, <2>1, ReleasedIsHeld
  <2>4. refs[n] = (IF TailIsHeld(n) THEN 1 ELSE 0) + (IF HeadIsHeld(n) THEN 1 ELSE 0) /\ n \in Nodes
    BY <1>0, <2>1 DEF RefsAreHeld, One
  <2>5. CASE n = old[t]
    <3>1. /\ TailIsHeld(n)' <=> TailIsHeld(n) /\ t \notin Enqueuers
          /\ HeadIsHeld(n)' <=> HeadIsHeld(n) /\ t \notin Dequeuers
          /\ t \in Enqueuers => TailIsHeld(n) /\ t \notin Dequeuers
          /\ t \in Dequeuers => HeadIsHeld(n) /\ t \notin Enqueuers
          /\ t \in Enqueuers \/ t \in Dequeuers
      BY <1>0, <2>2, <2>3, <2>5
    <3> QED
      BY <2>1, <2>4, <2>5, <3>1
  <2>6. CASE n # old[t]
    BY <2>1, <2>3, <2>4, <2>6
  <2> QED
    BY <2>5, <2>6
<1>3. CASE ~(t \in Enqueuers /\ AllocateNode(t)) /\ ~Decrement(t)
  <2>1. refs' = refs /\ live' \subseteq live
    BY <1>3, MoveTailEffect, MoveTailFailsEffect, LinkEffect, CountEffect, LoadHeadEffect, ReadNextEffect,
       MoveHeadEffect, MoveHeadFailsEffect, CopyEffect, TestEffect, DeleteEffect DEF CallStep, Memory
  <2>2. n \in live /\ n \in Nodes
    BY <1>0, <2>1
  <2>3. (TailIsHeld(n)' <=> TailIsHeld(n)) /\ (HeadIsHeld(n)' <=> HeadIsHeld(n))
    BY <1>3, <2>2, HoldsStay
  <2>4. refs[n] = (IF TailIsHeld(n) THEN 1 ELSE 0) + (IF HeadIsHeld(n) THEN 1 ELSE 0)
    BY <1>0, <2>2 DEF RefsAreHeld, One
  <2> QED
    BY <2>1, <2>3, <2>4
<1> QED
  BY <1>1, <1>2, <1>3

\* What another thread than t has and t does.
LEMMA OthersStay ==
    ASSUME ListInv, NEW t \in Threads, CallStep(t), NEW u \in Threads, u # t
    PROVE  /\ list_pc'[u] = list_pc[u] /\ old'[u] = old[u] /\ node'[u] = node[u] /\ calls'[u] = calls[u]
           /\ u \in stale => u \in stale'
           /\ u \in stale' => u \in stale \/ (DeleteNode(t) /\ u \in Pointing(old[t]))
<1>1. /\ list_pc'[u] = list_pc[u] /\ old'[u] = old[u] /\ node'[u] = node[u] /\ calls'[u] = calls[u]
  BY AllocateEffect, MoveTailEffect, MoveTailFailsEffect, LinkEffect, CountEffect, LoadHeadEffect, ReadNextEffect,
     MoveHeadEffect, MoveHeadFailsEffect, CopyEffect, DecrementEffect, TestEffect, DeleteEffect DEF CallStep, Goes, LocalPointers
<1>2. /\ u \in stale => u \in stale'
      /\ u \in stale' => u \in stale \/ (DeleteNode(t) /\ u \in Pointing(old[t]))
  BY AllocateEffect, MoveTailEffect, MoveTailFailsEffect, LinkEffect, CountEffect, LoadHeadEffect, ReadNextEffect,
     MoveHeadEffect, MoveHeadFailsEffect, CopyEffect, DecrementEffect, TestEffect, DeleteEffect DEF CallStep
<1> QED
  BY <1>1, <1>2

LEMMA TestersStayRight ==
    ASSUME ListInv, NEW t \in Threads, CallStep(t)
    PROVE  TestersAreRight'
<1>0. /\ Enqueuers \cap Dequeuers = {} /\ Threads = Enqueuers \cup Dequeuers
      /\ TestersAreRight /\ live \subseteq Nodes /\ Labels
  BY ListAssumption DEF Threads, ListInv, ListTypeOK
<1> SUFFICES ASSUME NEW u \in Threads \ stale', list_pc'[u] \in {"test", "delete"}
             PROVE  old'[u] \in live' /\ (list_pc'[u] = "delete" => refs'[old'[u]] = 0)
  BY <1>0 DEF TestersAreRight, Tests, Threads
<1>1. CASE u = t
  <2>1. \/ Decrement(t) /\ list_pc'[t] = "test" /\ old[t] \in live /\ live' = live /\ old' = old
        \/ /\ TestCount(t) /\ list_pc[t] = "test" /\ list_pc'[t] = "delete" /\ refs[old[t]] = 0 /\ t \notin stale
           /\ refs' = refs /\ live' = live /\ old' = old
    BY <1>0, <1>1, AllocateEffect, MoveTailEffect, MoveTailFailsEffect, LinkEffect, CountEffect, LoadHeadEffect,
       ReadNextEffect, MoveHeadEffect, MoveHeadFailsEffect, CopyEffect, DecrementEffect, TestEffect, DeleteEffect
       DEF CallStep, Goes, Memory, LocalPointers
  <2> QED
    BY <1>0, <1>1, <2>1 DEF TestersAreRight, Tests
<1>2. CASE u # t
  <2>1. list_pc'[u] = list_pc[u] /\ old'[u] = old[u] /\ u \notin stale
    BY <1>2, OthersStay
  <2>2. old[u] \in live /\ (list_pc[u] = "delete" => refs[old[u]] = 0)
    BY <1>0, <2>1 DEF TestersAreRight, Tests
  <2>3. CASE t \in Enqueuers /\ AllocateNode(t)
    <3>1. PICK n \in Nodes \ live :
              live' = live \cup {n} /\ \A m \in Nodes : m # n => refs'[m] = refs[m]
      BY <2>3, AllocateEffect
    <3> QED
      BY <1>0, <2>1, <2>2, <3>1
  <2>4. CASE Decrement(t)
    <3>1. /\ live' = live /\ old[t] \in live /\ (TailIsHeld(old[t]) \/ HeadIsHeld(old[t]))
          /\ \A m \in Nodes : m # old[t] => refs'[m] = refs[m]
      BY <1>0, <2>4, DecrementEffect DEF TailIsHeld, HeadIsHeld
    <3>2. refs[old[t]] # 0
      <4>1. old[t] \in live /\ refs[old[t]] = One(TailIsHeld(old[t])) + One(HeadIsHeld(old[t]))
        BY <2>4, DecrementEffect DEF ListInv, RefsAreHeld
      <4> QED
        BY <3>1, <4>1 DEF One
    <3> QED
      BY <1>0, <2>1, <2>2, <2>4, <3>1, <3>2, DecrementEffect
  <2>5. CASE DeleteNode(t)
    <3>1. live' = live \ {old[t]} /\ refs' = refs /\ stale' = stale \cup (Pointing(old[t]) \ {t})
      BY <2>5, DeleteEffect
    <3>2. old[u] # old[t]
      BY <1>0, <1>2, <2>1, <3>1 DEF Pointing
    <3> QED
      BY <2>1, <2>2, <3>1, <3>2
  <2>6. CASE ~(t \in Enqueuers /\ AllocateNode(t)) /\ ~Decrement(t) /\ ~DeleteNode(t)
    <3>1. live' = live /\ refs' = refs
      BY <2>6, MoveTailEffect, MoveTailFailsEffect, LinkEffect, CountEffect, LoadHeadEffect,
         ReadNextEffect, MoveHeadEffect, MoveHeadFailsEffect, CopyEffect, TestEffect DEF CallStep, Memory
    <3> QED
      BY <2>1, <2>2, <3>1
  <2> QED
    BY <2>3, <2>4, <2>5, <2>6
<1> QED
  BY <1>1, <1>2

LEMMA LiveStayOwned ==
    ASSUME ListInv, NEW t \in Threads, CallStep(t)
    PROVE  LiveAreOwned'
<1>0. /\ Enqueuers \cap Dequeuers = {} /\ Threads = Enqueuers \cup Dequeuers
      /\ LiveAreOwned /\ live \subseteq Nodes /\ Labels
  BY ListAssumption DEF Threads, ListInv, ListTypeOK
<1> SUFFICES ASSUME NEW n \in live'
             PROVE  \/ TailIsHeld(n)' \/ HeadIsHeld(n)'
                    \/ \E u \in Threads \ stale' : list_pc'[u] \in {"test", "delete"} /\ old'[u] = n
  BY <1>0 DEF LiveAreOwned, Tests, Threads
<1>1. ASSUME NEW u \in Threads \ stale, u # t, list_pc[u] \in {"test", "delete"}, old[u] = n
      PROVE  \E v \in Threads \ stale' : list_pc'[v] \in {"test", "delete"} /\ old'[v] = n
  <2>1. list_pc'[u] = list_pc[u] /\ old'[u] = old[u]
    BY <1>1, OthersStay
  <2>2. DeleteNode(t) => n # old[t]
    BY DeleteEffect
  <2>3. DeleteNode(t) => u \notin Pointing(old[t])
    BY <1>0, <1>1, <2>2 DEF Pointing
  <2>4. u \notin stale'
    BY <1>1, <2>3, OthersStay
  <2> QED
    BY <1>1, <2>1, <2>4
<1>2. CASE t \in Enqueuers /\ AllocateNode(t)
  <2>1. PICK m \in Nodes \ live : live' = live \cup {m} /\ node'[t] = m
    BY <1>2, AllocateEffect
  <2>2. n \in Nodes
    BY <1>0, <2>1
  <2>3. /\ TailIsHeld(n)' <=> TailIsHeld(n) \/ n = m
        /\ HeadIsHeld(n)' <=> HeadIsHeld(n) \/ n = m
    BY <1>2, <2>1, <2>2, AllocatedIsHeld
  <2>4. list_pc[t] = "idle"
    BY <1>2, AllocateEffect
  <2>5. n \in live => \/ TailIsHeld(n) \/ HeadIsHeld(n)
                      \/ \E u \in Threads \ stale : u # t /\ list_pc[u] \in {"test", "delete"} /\ old[u] = n
    BY <1>0, <2>4 DEF LiveAreOwned, Tests
  <2> QED
    BY <1>1, <2>1, <2>3, <2>5
<1>3. CASE Decrement(t)
  <2>1. live' = live /\ list_pc'[t] = "test" /\ list_pc[t] = "release" /\ old' = old /\ stale' = stale /\ t \notin stale
    BY <1>3, DecrementEffect DEF Goes, LocalPointers
  <2>2. CASE n = old[t]
    BY <2>1, <2>2
  <2>3. CASE n # old[t]
    <3>1. (TailIsHeld(n)' <=> TailIsHeld(n)) /\ (HeadIsHeld(n)' <=> HeadIsHeld(n))
      BY <1>0, <1>3, <2>1, <2>3, ReleasedIsHeld
    <3>2. \/ TailIsHeld(n) \/ HeadIsHeld(n)
          \/ \E u \in Threads \ stale : u # t /\ list_pc[u] \in {"test", "delete"} /\ old[u] = n
      BY <1>0, <2>1 DEF LiveAreOwned, Tests
    <3> QED
      BY <1>1, <3>1, <3>2
  <2> QED
    BY <2>2, <2>3
<1>4. CASE ~(t \in Enqueuers /\ AllocateNode(t)) /\ ~Decrement(t)
  <2>1. live' \subseteq live
    BY <1>4, MoveTailEffect, MoveTailFailsEffect, LinkEffect, CountEffect, LoadHeadEffect, ReadNextEffect,
       MoveHeadEffect, MoveHeadFailsEffect, CopyEffect, TestEffect, DeleteEffect DEF CallStep, Memory
  <2>2. n \in live /\ n \in Nodes
    BY <1>0, <2>1
  <2>3. (TailIsHeld(n)' <=> TailIsHeld(n)) /\ (HeadIsHeld(n)' <=> HeadIsHeld(n))
    BY <1>4, <2>2, HoldsStay
  <2>4. ASSUME t \notin stale, list_pc[t] \in {"test", "delete"}, old[t] = n
        PROVE  \/ TailIsHeld(n) \/ HeadIsHeld(n)
               \/ \E u \in Threads \ stale' : list_pc'[u] \in {"test", "delete"} /\ old'[u] = n
    <3>1. TestCount(t)
      <4>1. ~DeleteNode(t)
        BY <2>4, DeleteEffect
      <4> QED
        BY <1>0, <1>4, <2>4, <4>1, MoveTailEffect, MoveTailFailsEffect, LinkEffect, CountEffect, LoadHeadEffect,
           ReadNextEffect, MoveHeadEffect, MoveHeadFailsEffect, CopyEffect DEF CallStep
    <3>2. /\ stale' = stale /\ old' = old
          /\ (refs[n] = 0 /\ list_pc'[t] = "delete") \/ refs[n] # 0
      BY <2>4, <3>1, TestEffect DEF Goes, LocalPointers
    <3>3. refs[n] = (IF TailIsHeld(n) THEN 1 ELSE 0) + (IF HeadIsHeld(n) THEN 1 ELSE 0)
      BY <2>2 DEF ListInv, RefsAreHeld, One
    <3> QED
      BY <2>4, <3>2, <3>3
  <2>5. \/ TailIsHeld(n) \/ HeadIsHeld(n)
        \/ \E u \in Threads \ stale : list_pc[u] \in {"test", "delete"} /\ old[u] = n
    BY <1>0, <2>2 DEF LiveAreOwned, Tests
  <2> QED
    BY <1>1, <2>3, <2>4, <2>5
<1> QED
  BY <1>2, <1>3, <1>4

LEMMA ReadersStillKnow ==
    ASSUME ListInv, NEW t \in Threads, CallStep(t)
    PROVE  ReadersKnow'
<1>0. /\ Enqueuers \cap Dequeuers = {} /\ Threads = Enqueuers \cup Dequeuers
      /\ ReadersKnow /\ live \subseteq Nodes /\ Labels /\ ChainStands /\ Len(chain) \in Nat /\ list_head \in live
      /\ NoNode \notin Nodes
  BY ListAssumption DEF Threads, ListInv, ListTypeOK, ChainStands
<1>1. InChain(list_head)
  BY <1>0 DEF ChainStands, InChain
<1> SUFFICES ASSUME NEW c \in Dequeuers, c \notin stale'
             PROVE  /\ list_pc'[c] \in {"read", "cas"} =>
                           \/ old'[c] = list_head'
                           \/ old'[c] \in live' /\ ~InChain(old[c])' /\ next_node'[old'[c]] # NoNode
                    /\ list_pc'[c] = "cas" => node'[c] = next_node'[old'[c]] /\ node'[c] # NoNode
                    /\ list_pc'[c] = "copy" => node'[c] \in live' /\ data'[node'[c]] = list_taken'[c]
  BY DEF ReadersKnow
<1>2. CASE t = c
  <2>1. CASE LoadHead(c) \/ MoveHeadFails(c)
    BY <2>1, LoadHeadEffect, MoveHeadFailsEffect DEF Goes, Stands
  <2>2. CASE ReadNext(c)
    <3>1. /\ list_pc[c] = "read" /\ c \notin stale /\ Stands /\ Memory /\ old' = old
          /\ node'[c] = next_node[old[c]]
          /\ list_pc'[c] = "idle" \/ (next_node[old[c]] # NoNode /\ list_pc'[c] = "cas")
      BY <2>2, ReadNextEffect DEF Goes
    <3>2. InChain(old[c])' <=> InChain(old[c])
      BY <3>1 DEF InChain, Stands
    <3> QED
      BY <1>0, <3>1, <3>2 DEF ReadersKnow, Memory, Stands
  <2>3. CASE MoveHead(c)
    BY <2>3, MoveHeadEffect DEF Goes, Memory, LocalPointers
  <2>4. CASE CopyElement(c) \/ CountDown(c) \/ Decrement(c) \/ TestCount(c) \/ DeleteNode(c)
    <3>1. list_pc'[c] \in {"count", "release", "test", "delete", "idle"}
      BY <1>0, <2>4, CopyEffect, CountEffect, DecrementEffect, TestEffect, DeleteEffect DEF Goes
    <3> QED
      BY <3>1
  <2> QED
    BY <1>0, <1>2, <2>1, <2>2, <2>3, <2>4, CountEffect DEF CallStep
<1>3. CASE t # c
  <2>1. /\ list_pc'[c] = list_pc[c] /\ old'[c] = old[c] /\ node'[c] = node[c] /\ c \notin stale
        /\ DeleteNode(t) => c \notin Pointing(old[t])
    <3>1. list_pc'[c] = list_pc[c] /\ old'[c] = old[c] /\ node'[c] = node[c] /\ c \notin stale
      BY <1>0, <1>3, OthersStay
    <3>2. DeleteNode(t) => stale' = stale \cup (Pointing(old[t]) \ {t})
      BY DeleteEffect
    <3> QED
      BY <1>3, <3>1, <3>2
  <2>2. ASSUME NEW n \in live, DeleteNode(t) => n # old[t]
        PROVE  n \in live' /\ data'[n] = data[n] /\ (next_node[n] # NoNode => next_node'[n] = next_node[n])
    <3>1. CASE t \in Enqueuers /\ AllocateNode(t)
      BY <1>0, <2>2, <3>1, AllocateEffect
    <3>2. CASE t \in Enqueuers /\ LinkNode(t)
      <4>1. next_node[old[t]] = NoNode
        BY <3>2, LinkEffect DEF ListInv, ChainIsLinked
      <4> QED
        BY <1>0, <2>2, <3>2, <4>1, LinkEffect
    <3>3. CASE DeleteNode(t)
      BY <2>2, <3>3, DeleteEffect
    <3>4. CASE ~(t \in Enqueuers /\ (AllocateNode(t) \/ LinkNode(t))) /\ ~DeleteNode(t)
      <4>1. live' = live /\ data' = data /\ next_node' = next_node
        BY <3>4, MoveTailEffect, MoveTailFailsEffect, CountEffect, LoadHeadEffect,
           ReadNextEffect, MoveHeadEffect, MoveHeadFailsEffect, CopyEffect, DecrementEffect, TestEffect DEF CallStep, Memory
      <4> QED
        BY <2>2, <4>1
    <3> QED
      BY <3>1, <3>2, <3>3, <3>4
  <2>3. ASSUME list_pc[c] \in {"read", "cas"}
        PROVE  \/ old[c] = list_head'
               \/ old[c] \in live' /\ ~InChain(old[c])' /\ next_node'[old[c]] # NoNode
    <3>1. DeleteNode(t) => old[c] # old[t]
      BY <1>0, <2>1, <2>3, ListAssumption DEF Pointing
    <3>2. CASE old[c] = list_head
      <4>1. CASE t \in Dequeuers /\ MoveHead(t)
        <5>1. list_head = old[t] /\ next_node[list_head] # NoNode /\ live' = live /\ next_node' = next_node /\ old' = old
          BY <4>1, MoveHeadEffect DEF Memory, LocalPointers
        <5>2. ~InChain(old[t])'
          BY <4>1, ChainMoves
        <5>3. ~InChain(old[c])'
          BY <3>2, <5>1, <5>2 DEF InChain
        <5> QED
          BY <1>0, <3>2, <5>1, <5>3
      <4>2. CASE ~(t \in Dequeuers /\ MoveHead(t))
        <5>1. list_head' = list_head
          BY <4>2, AllocateEffect, MoveTailEffect, MoveTailFailsEffect, LinkEffect, CountEffect, LoadHeadEffect,
             ReadNextEffect, MoveHeadFailsEffect, CopyEffect, DecrementEffect, TestEffect, DeleteEffect DEF CallStep, Stands
        <5> QED
          BY <3>2, <5>1
      <4> QED
        BY <4>1, <4>2
    <3>3. CASE old[c] # list_head
      <4>1. old[c] \in live /\ ~InChain(old[c]) /\ next_node[old[c]] # NoNode
        BY <1>0, <2>1, <2>3, <3>3 DEF ReadersKnow
      <4>2. old[c] \in live' /\ next_node'[old[c]] # NoNode
        BY <2>2, <3>1, <4>1
      <4>3. t \in Enqueuers /\ MoveTail(t) => next_node[node[t]] = NoNode
        BY MoveTailEffect DEF ListInv, FreshAreApart
      <4>4. \A n : n = old[c] => ~InChain(n)'
        BY <4>1, <4>3, ChainMoves
      <4>5. ~InChain(old[c])'
        BY <2>1, <4>4 DEF InChain
      <4> QED
        BY <4>2, <4>5
    <3> QED
      BY <3>2, <3>3
  <2>4. ASSUME list_pc[c] = "cas"
        PROVE  node[c] = next_node'[old[c]] /\ node[c] # NoNode
    <3>1. DeleteNode(t) => old[c] # old[t]
      BY <1>0, <2>1, <2>4 DEF Pointing
    <3>2. old[c] \in live /\ node[c] = next_node[old[c]] /\ node[c] # NoNode
      BY <1>0, <2>1, <2>4 DEF ReadersKnow
    <3> QED
      BY <2>2, <3>1, <3>2
  <2>5. ASSUME list_pc[c] = "copy"
        PROVE  node[c] \in live' /\ data'[node[c]] = list_taken'[c]
    <3>1. DeleteNode(t) => node[c] # old[t]
      BY <1>0, <2>1, <2>5 DEF Pointing
    <3>2. node[c] \in live /\ data[node[c]] = list_taken[c]
      BY <1>0, <2>1, <2>5 DEF ReadersKnow
    <3>3. list_taken'[c] = list_taken[c]
      BY <1>3, AllocateEffect, MoveTailEffect, MoveTailFailsEffect, LinkEffect, CountEffect, LoadHeadEffect,
         ReadNextEffect, MoveHeadEffect, MoveHeadFailsEffect, CopyEffect, DecrementEffect, TestEffect, DeleteEffect DEF CallStep
    <3> QED
      BY <2>2, <3>1, <3>2, <3>3
  <2> QED
    BY <2>1, <2>3, <2>4, <2>5
<1> QED
  BY <1>2, <1>3

LEMMA OneStaysFresh ==
    ASSUME ListInv, NEW t \in Threads, CallStep(t)
    PROVE  OneIsNotStale'
<1>0. /\ Enqueuers \cap Dequeuers = {} /\ Threads = Enqueuers \cup Dequeuers
      /\ ReadersKnow /\ Labels /\ Labels' /\ ChainStands /\ Len(chain) \in Nat /\ list_tail \in Nodes
      /\ \A u \in Threads : calls[u] \in Nat
  BY ListAssumption, LabelsStay DEF Threads, ListInv, ListTypeOK
<1> SUFFICES ASSUME OneConsumes', NEW c \in Dequeuers
             PROVE  /\ list_pc'[c] \in {"read", "cas"} => c \notin stale' /\ old'[c] = list_head'
                    /\ list_pc'[c] = "copy" => c \notin stale' /\ node'[c] = list_head'
  BY DEF OneIsNotStale
<1>1. \A u \in Threads : calls'[u] >= calls[u]
  BY <1>0, AllocateEffect, MoveTailEffect, MoveTailFailsEffect, LinkEffect, CountEffect, LoadHeadEffect,
     ReadNextEffect, MoveHeadEffect, MoveHeadFailsEffect, CopyEffect, DecrementEffect, TestEffect, DeleteEffect DEF CallStep
<1>2. OneConsumes
  <2> SUFFICES ASSUME NEW d \in Dequeuers, NEW e \in Dequeuers, calls[d] > 0, calls[e] > 0
               PROVE  d = e
    BY DEF OneConsumes
  <2>1. calls'[d] > 0 /\ calls'[e] > 0
    <3>1. \A m, n \in Nat : m > 0 /\ n >= m => n > 0
      OBVIOUS
    <3>2. \A u \in Threads : calls'[u] \in Nat
      BY ListTypesStay, ListAssumption DEF ListTypeOK
    <3> QED
      BY <1>0, <1>1, <3>1, <3>2
  <2> QED
    BY <2>1 DEF OneConsumes
<1>3. /\ list_pc[c] \in {"read", "cas"} => c \notin stale /\ old[c] = list_head
      /\ list_pc[c] = "copy" => c \notin stale /\ node[c] = list_head
  BY <1>2 DEF ListInv, OneIsNotStale
<1>4. CASE t = c
  <2>1. CASE LoadHead(c)
    BY <2>1, LoadHeadEffect DEF Goes, Stands
  <2>2. CASE MoveHeadFails(c)
    BY <1>3, <2>2, MoveHeadFailsEffect
  <2>3. CASE ReadNext(c)
    BY <1>3, <2>3, ReadNextEffect DEF Goes, Stands
  <2>4. CASE MoveHead(c)
    BY <2>4, MoveHeadEffect DEF Goes, LocalPointers
  <2>5. CASE CopyElement(c) \/ CountDown(c) \/ Decrement(c) \/ TestCount(c) \/ DeleteNode(c)
    <3>1. list_pc'[c] \in {"count", "release", "test", "delete", "idle"}
      BY <1>0, <2>5, CopyEffect, CountEffect, DecrementEffect, TestEffect, DeleteEffect DEF Goes
    <3> QED
      BY <3>1
  <2> QED
    BY <1>0, <1>4, <2>1, <2>2, <2>3, <2>4, <2>5, CountEffect DEF CallStep
<1>5. CASE t # c /\ list_pc'[c] \in {"read", "cas", "copy"}
  <2>1. list_pc'[c] = list_pc[c] /\ old'[c] = old[c] /\ node'[c] = node[c] /\ calls'[c] = calls[c]
    BY <1>0, <1>5, OthersStay
  <2>2. calls'[c] > 0
    BY <1>0, <1>5 DEF Labels
  <2>3. t \notin Dequeuers
    <3> SUFFICES ASSUME t \in Dequeuers PROVE FALSE
      OBVIOUS
    <3>1. LoadHead(t) \/ list_pc[t] # "idle"
      BY <1>0, ReadNextEffect, MoveHeadEffect, MoveHeadFailsEffect, CopyEffect, CountEffect, DecrementEffect,
         TestEffect, DeleteEffect DEF CallStep
    <3>2. calls'[t] > 0
      <4>1. LoadHead(t) => calls'[t] = calls[t] + 1
        BY LoadHeadEffect
      <4>2. list_pc[t] # "idle" => calls[t] > 0
        BY <1>0 DEF Labels
      <4>3. calls[t] \in Nat /\ calls'[t] \in Nat /\ calls'[t] >= calls[t]
        BY <1>0, <1>1, ListTypesStay, ListAssumption DEF ListTypeOK
      <4> QED
        BY <3>1, <4>1, <4>2, <4>3
    <3> QED
      BY <1>5, <2>2, <3>2 DEF OneConsumes
  <2>4. t \in Enqueuers
    BY <1>0, <2>3
  <2>5. list_head' = list_head
    BY <2>3, <2>4, AllocateEffect, MoveTailEffect, MoveTailFailsEffect, LinkEffect, CountEffect,
       DecrementEffect, TestEffect, DeleteEffect DEF CallStep, Stands
  <2>6. InChain(list_head)
    BY <1>0 DEF ChainStands, InChain
  <2>7. list_pc[c] = "cas" => InChain(node[c])
    <3> SUFFICES ASSUME list_pc[c] = "cas" PROVE InChain(node[c])
      OBVIOUS
    <3>1. node[c] = next_node[list_head] /\ node[c] # NoNode
      BY <1>0, <1>3 DEF ReadersKnow
    <3>2. Len(chain) # 1
      BY <1>0, <3>1 DEF ListInv, ChainStands, ChainIsLinked
    <3>3. 1 \in 1 .. Len(chain) - 1 /\ 2 \in 1 .. Len(chain)
      <4>1. \A k \in Nat : k >= 1 /\ k # 1 => 1 \in 1 .. k - 1 /\ 2 \in 1 .. k
        OBVIOUS
      <4>2. Len(chain) >= 1
        BY <1>0 DEF ChainStands
      <4> QED
        BY <1>0, <3>2, <4>1, <4>2
    <3>4. chain[2] = node[c]
      BY <1>0, <3>1, <3>3 DEF ListInv, ChainStands, ChainIsLinked
    <3> QED
      BY <3>3, <3>4 DEF InChain
  <2>8. DeleteNode(t) => c \notin Pointing(old[t])
    <3> SUFFICES ASSUME DeleteNode(t) PROVE c \notin Pointing(old[t])
      OBVIOUS
    <3>1. ~HeadIsHeld(old[t])
      BY DeleteEffect
    <3>2. /\ ~InChain(old[t])
          /\ list_pc[c] = "copy" => old[c] # old[t]
      BY <3>1 DEF HeadIsHeld, HoldsHead
    <3> QED
      BY <1>0, <1>3, <1>5, <2>1, <2>6, <2>7, <3>2 DEF Pointing
  <2>9. c \notin stale'
    BY <1>0, <1>3, <1>5, <2>1, <2>8, OthersStay
  <2> QED
    BY <1>3, <2>1, <2>5, <2>9
<1> QED
  BY <1>4, <1>5

-----------------------------------------------------------------------------
(* UnboundedQueue: size_ *)

\* The threads that are in one of the given places.
InPlaces(T, places) == {u \in T : list_pc[u] \in places}

Takers == InPlaces(Dequeuers, {"copy", "count"})
Putters == InPlaces(Enqueuers, {"link", "release", "test", "delete", "count"})

LEMMA PlacesAreFinite ==
    /\ IsFiniteSet(Takers) /\ Cardinality(Takers) \in Nat
    /\ IsFiniteSet(Putters) /\ Cardinality(Putters) \in Nat
    /\ IsFiniteSet(Takers') /\ IsFiniteSet(Putters')
<1>1. IsFiniteSet(Takers) /\ IsFiniteSet(Putters)
  BY ListAssumption, FS_Subset DEF Takers, Putters, InPlaces
<1>2. IsFiniteSet(Takers') /\ IsFiniteSet(Putters')
  BY ListAssumption, FS_Subset DEF Takers, Putters, InPlaces
<1> QED
  BY <1>1, <1>2, FS_CardinalityType

LEMMA SizeIsCounted ==
    SizeIsRight <=> size = (Len(chain) - 1 + Cardinality(Takers) - Cardinality(Putters)) % SizeLimit
BY DEF SizeIsRight, Counting, Takers, Putters, InPlaces

\* The remainder is the only one.
LEMMA OneRemainder ==
    ASSUME NEW n \in Nat \ {0}, NEW q \in Int, NEW r \in 0 .. n - 1
    PROVE  (n * q + r) % n = r
<1> DEFINE b == n * q + r
           d == b \div n
<1>1. b \in Int /\ d \in Int /\ b = n * d + (b % n) /\ (b % n) \in 0 .. n - 1
  BY SMT
<1>2. ASSUME NEW x \in Int, NEW y \in Int, x < y
      PROVE  n * y - n * x >= n
  <2>1. n * y - n * x = n * (y - x) /\ y - x >= 1
    BY <1>2, SMT
  <2>2. n * (y - x) >= n
    BY <2>1, SMT
  <2> QED
    BY <2>1, <2>2, SMT
<1>3. n * q \in Int /\ n * d \in Int
  BY <1>1, SMT
<1>4. CASE d < q
  <2>1. n * q - n * d >= n
    BY <1>1, <1>2, <1>4
  <2> HIDE DEF d
  <2> QED
    BY <1>1, <1>3, <2>1, SMT
<1>5. CASE q < d
  <2>1. n * d - n * q >= n
    BY <1>1, <1>2, <1>5
  <2> HIDE DEF d
  <2> QED
    BY <1>1, <1>3, <2>1, SMT
<1>6. CASE q = d
  <2> HIDE DEF d
  <2> QED
    BY <1>1, <1>3, <1>6, SMT
<1> QED
  BY <1>1, <1>4, <1>5, <1>6, SMT

\* One more or one less, modulo n.
LEMMA StepModulo ==
    ASSUME NEW a \in Int, NEW n \in Nat \ {0}
    PROVE  /\ (a % n) \in 0 .. n - 1
           /\ ((a % n) + 1) % n = (a + 1) % n
           /\ ((a % n) - 1) % n = (a - 1) % n
<1> DEFINE q == a \div n
           r == a % n
<1>1. q \in Int /\ r \in 0 .. n - 1 /\ a = n * q + r
  BY SMT
<1>2. n * (q + 1) = n * q + n /\ n * (q - 1) = n * q - n /\ n * q \in Int /\ n * 0 = 0 /\ n * 1 = n /\ n * (0 - 1) = 0 - n
  BY <1>1, SMT
<1> HIDE DEF q, r
<1>3. (r + 1) % n = (a + 1) % n
  <2>1. CASE r + 1 < n
    <3>1. (r + 1) \in 0 .. n - 1 /\ a + 1 = n * q + (r + 1) /\ r + 1 = n * 0 + (r + 1)
      BY <1>1, <1>2, <2>1, SMT
    <3> QED
      BY <1>1, <3>1, OneRemainder
  <2>2. CASE r + 1 = n
    <3>1. 0 \in 0 .. n - 1 /\ a + 1 = n * (q + 1) + 0 /\ r + 1 = n * 1 + 0
      BY <1>1, <1>2, <2>2, SMT
    <3> QED
      BY <1>1, <3>1, OneRemainder
  <2> QED
    BY <1>1, <2>1, <2>2
<1>4. (r - 1) % n = (a - 1) % n
  <2>1. CASE r >= 1
    <3>1. (r - 1) \in 0 .. n - 1 /\ a - 1 = n * q + (r - 1) /\ r - 1 = n * 0 + (r - 1)
      BY <1>1, <1>2, <2>1, SMT
    <3>2. (n * q + (r - 1)) % n = r - 1 /\ (n * 0 + (r - 1)) % n = r - 1
      BY <1>1, <3>1, OneRemainder
    <3> QED
      BY <3>1, <3>2, Zenon
  <2>2. CASE r = 0
    <3>1. (n - 1) \in 0 .. n - 1 /\ a - 1 = n * (q - 1) + (n - 1) /\ r - 1 = n * (0 - 1) + (n - 1)
      BY <1>1, <1>2, <2>2, SMT
    <3>2. q - 1 \in Int /\ 0 - 1 \in Int
      BY <1>1
    <3>3. (n * (q - 1) + (n - 1)) % n = n - 1 /\ (n * (0 - 1) + (n - 1)) % n = n - 1
      BY <3>1, <3>2, OneRemainder
    <3> QED
      BY <3>1, <3>3, Zenon
  <2> QED
    BY <1>1, <2>1, <2>2
<1> QED
  BY <1>1, <1>3, <1>4 DEF r

LEMMA SizeStaysRight ==
    ASSUME ListInv, NEW t \in Threads, CallStep(t)
    PROVE  SizeIsRight'
<1>0. /\ Enqueuers \cap Dequeuers = {} /\ Threads = Enqueuers \cup Dequeuers
      /\ SizeLimit \in Nat \ {0} /\ Len(chain) \in Nat /\ Labels
  BY ListAssumption DEF Threads, ListInv, ListTypeOK
<1>1. size = (Len(chain) - 1 + Cardinality(Takers) - Cardinality(Putters)) % SizeLimit
  BY SizeIsCounted DEF ListInv
<1> DEFINE Due == Len(chain) - 1 + Cardinality(Takers) - Cardinality(Putters)
<1>2. SizeIsRight' <=> size' = Due' % SizeLimit
  BY DEF SizeIsRight, Counting, Takers, Putters, InPlaces
<1>3. \A u \in Threads : u # t => list_pc'[u] = list_pc[u]
  BY OthersStay
<1>4. /\ IsFiniteSet(Takers) /\ Cardinality(Takers) \in Nat
      /\ IsFiniteSet(Putters) /\ Cardinality(Putters) \in Nat
      /\ Due \in Int
  <2>1. \A k, m, n \in Nat : k - 1 + m - n \in Int
    OBVIOUS
  <2> QED
    BY <1>0, <2>1, PlacesAreFinite
<1>5. CASE t \in Enqueuers /\ MoveTail(t)
  <2>1. list_pc[t] = "cas" /\ list_pc'[t] = "link" /\ Len(chain') = Len(chain) + 1 /\ size' = size
    BY <1>5, MoveTailEffect DEF Goes
  <2>2. Takers' = Takers
    BY <1>0, <1>3, <1>5 DEF Takers, InPlaces
  <2>3. t \notin Putters /\ Putters' = Putters \cup {t}
    BY <1>0, <1>3, <1>5, <2>1 DEF Putters, InPlaces
  <2>4. Cardinality(Putters') = Cardinality(Putters) + 1
    BY <1>4, <2>3, FS_AddElement
  <2>5. Due' = Due
    BY <1>0, <1>4, <2>1, <2>2, <2>4
  <2> QED
    BY <1>1, <1>2, <2>1, <2>5
<1>6. CASE t \in Dequeuers /\ MoveHead(t)
  <2>1. list_pc[t] = "cas" /\ list_pc'[t] = "copy" /\ Len(chain') = Len(chain) - 1 /\ size' = size
    BY <1>6, MoveHeadEffect DEF Goes
  <2>2. Putters' = Putters
    BY <1>0, <1>3, <1>6 DEF Putters, InPlaces
  <2>3. t \notin Takers /\ Takers' = Takers \cup {t}
    BY <1>0, <1>3, <1>6, <2>1 DEF Takers, InPlaces
  <2>4. Cardinality(Takers') = Cardinality(Takers) + 1
    BY <1>4, <2>3, FS_AddElement
  <2>5. Due' = Due
    BY <1>0, <1>4, <2>1, <2>2, <2>4
  <2> QED
    BY <1>1, <1>2, <2>1, <2>5
<1>7. CASE CountUp(t)
  <2>1. t \in Enqueuers /\ list_pc[t] = "count" /\ list_pc'[t] = "idle" /\ chain' = chain /\ size' = (size + 1) % SizeLimit
    BY <1>7, CountEffect DEF Goes, Stands
  <2>2. Takers' = Takers
    BY <1>0, <1>3, <2>1 DEF Takers, InPlaces
  <2>3. t \in Putters /\ Putters' = Putters \ {t}
    BY <1>0, <1>3, <2>1 DEF Putters, InPlaces
  <2>4. Cardinality(Putters') = Cardinality(Putters) - 1
    BY <1>4, <2>3, FS_RemoveElement
  <2>5. Due' = Due + 1
    BY <1>0, <1>4, <2>1, <2>2, <2>4
  <2>6. size' = (Due + 1) % SizeLimit
    BY <1>0, <1>1, <1>4, <2>1, StepModulo
  <2> QED
    BY <1>2, <2>5, <2>6
<1>8. CASE CountDown(t)
  <2>1. t \in Dequeuers /\ list_pc[t] = "count" /\ list_pc'[t] = "release" /\ chain' = chain /\ size' = (size - 1) % SizeLimit
    BY <1>8, CountEffect DEF Goes, Stands
  <2>2. Putters' = Putters
    BY <1>0, <1>3, <2>1 DEF Putters, InPlaces
  <2>3. t \in Takers /\ Takers' = Takers \ {t}
    BY <1>0, <1>3, <2>1 DEF Takers, InPlaces
  <2>4. Cardinality(Takers') = Cardinality(Takers) - 1
    BY <1>4, <2>3, FS_RemoveElement
  <2>5. Due' = Due - 1
    BY <1>0, <1>4, <2>1, <2>2, <2>4
  <2>6. size' = (Due - 1) % SizeLimit
    BY <1>0, <1>1, <1>4, <2>1, StepModulo
  <2> QED
    BY <1>2, <2>5, <2>6
<1>9. CASE ~(t \in Enqueuers /\ MoveTail(t)) /\ ~(t \in Dequeuers /\ MoveHead(t)) /\ ~CountUp(t) /\ ~CountDown(t)
  <2>1. chain' = chain /\ size' = size
    BY <1>9, AllocateEffect, MoveTailFailsEffect, LinkEffect, LoadHeadEffect, ReadNextEffect,
       MoveHeadFailsEffect, CopyEffect, DecrementEffect, TestEffect, DeleteEffect DEF CallStep, Stands
  <2>2. /\ t \in Enqueuers => (list_pc'[t] \in {"link", "release", "test", "delete", "count"}
                                  <=> list_pc[t] \in {"link", "release", "test", "delete", "count"})
        /\ t \in Dequeuers => (list_pc'[t] \in {"copy", "count"} <=> list_pc[t] \in {"copy", "count"})
    BY <1>0, <1>9, AllocateEffect, MoveTailFailsEffect, LinkEffect, LoadHeadEffect, ReadNextEffect,
       MoveHeadFailsEffect, CopyEffect, DecrementEffect, TestEffect, DeleteEffect DEF CallStep, Goes
  <2>3. Takers' = Takers /\ Putters' = Putters
    BY <1>0, <1>3, <2>2 DEF Takers, Putters, InPlaces
  <2>4. Due' = Due
    BY <2>1, <2>3
  <2> QED
    BY <1>1, <1>2, <2>1, <2>4
<1> QED
  BY <1>5, <1>6, <1>7, <1>8, <1>9

LEMMA CopiesStayTaken ==
    ASSUME ListInv, NEW t \in Threads, CallStep(t)
    PROVE  CopiesAreTaken'
<1>0. /\ Enqueuers \cap Dequeuers = {} /\ Threads = Enqueuers \cup Dequeuers /\ Labels /\ CopiesAreTaken
  BY ListAssumption DEF Threads, ListInv
<1> SUFFICES ASSUME NEW c \in Dequeuers, list_pc'[c] \in {"count", "release", "test", "delete"}
             PROVE  received'[c] = list_taken'[c]
  BY DEF CopiesAreTaken
<1>1. CASE t = c
  <2>1. \/ CopyElement(c)
        \/ list_pc[c] \in {"count", "release", "test", "delete"} /\ received' = received /\ list_taken' = list_taken
    BY <1>0, <1>1, CountEffect, LoadHeadEffect, ReadNextEffect, MoveHeadEffect, MoveHeadFailsEffect, DecrementEffect,
       TestEffect, DeleteEffect DEF CallStep, Goes
  <2>2. CopyElement(c) => received'[c] = list_taken'[c]
    BY CopyEffect
  <2> QED
    BY <1>0, <2>1, <2>2 DEF CopiesAreTaken
<1>2. CASE t # c
  <2>1. list_pc'[c] = list_pc[c]
    BY <1>0, <1>2, OthersStay
  <2>2. received'[c] = received[c] /\ list_taken'[c] = list_taken[c]
    BY <1>0, <1>2, AllocateEffect, MoveTailEffect, MoveTailFailsEffect, LinkEffect, CountEffect, LoadHeadEffect,
       ReadNextEffect, MoveHeadEffect, MoveHeadFailsEffect, CopyEffect, DecrementEffect, TestEffect, DeleteEffect DEF CallStep
  <2> QED
    BY <1>0, <2>1, <2>2 DEF CopiesAreTaken
<1> QED
  BY <1>1, <1>2

LEMMA CallKeepsList ==
    ASSUME ListInv, NEW t \in Threads, CallStep(t)
    PROVE  ListInv'
<1>1. OnlyReleaseIsUndefined'
  BY CallsAreUndisturbed DEF OnlyReleaseIsUndefined
<1> QED
  BY <1>1, ListTypesStay, LabelsStay, ChainKeepsStanding, ChainKeepsLinks, FreshStayApart, HoldersStayOne, RefsStayHeld,
     TestersStayRight, LiveStayOwned, ReadersStillKnow, OneStaysFresh, SizeStaysRight, CopiesStayTaken DEF ListInv

-----------------------------------------------------------------------------
(* UnboundedQueue: when no call is under way *)

\* A non-empty set of numbers has a smallest one.
LEMMA Smallest ==
    ASSUME NEW M \in SUBSET Nat, M # {}
    PROVE  \E x \in M : \A y \in M : x <= y
<1> DEFINE R == {xy \in Nat \X Nat : xy[1] < xy[2]}
<1>1. IsWellFoundedOn(R, Nat)
  <2>1. R = OpToRel(<, Nat)
    BY DEF OpToRel
  <2> QED
    BY <2>1, NatLessThanWellFounded
<1>2. \E x \in M : \A y \in M : ~(<<y, x>> \in R)
  <2> HIDE DEF R
  <2> QED
    BY <1>1, WFMin
<1>3. \A x, y \in Nat : ~(<<y, x>> \in R) => x <= y
  BY SMT
<1> QED
  <2> HIDE DEF R
  <2>1. PICK x \in M : \A y \in M : ~(<<y, x>> \in R)
    BY <1>2
  <2>2. \A y \in M : x <= y
    BY <1>3, <2>1
  <2> QED
    BY <2>2

LEMMA LastUse ==
    ASSUME ListInv, NEW t \in Threads, UseDeletedNode(t)
    PROVE  ListInv'
<1>0. /\ Enqueuers \cap Dequeuers = {} /\ Threads = Enqueuers \cup Dequeuers
      /\ Labels /\ OneIsNotStale
  BY ListAssumption DEF Threads, ListInv
<1>1. t \in stale /\ Use(t) # "none" /\ fault' = Use(t)
  BY DEF UseDeletedNode
<1>2. OneConsumes => fault' = "release"
  <2> SUFFICES ASSUME OneConsumes PROVE fault' = "release"
    OBVIOUS
  <2>1. CASE t \in Enqueuers
    <3>1. list_pc[t] \in {"cas", "test", "delete"} /\ t \notin Dequeuers
      BY <1>0, <1>1, <2>1 DEF Labels
    <3>2. list_pc[t] \in {"test", "delete"}
      BY <1>1, <3>1 DEF Use
    <3> QED
      BY <1>1, <3>2 DEF Use
  <2>2. CASE t \in Dequeuers
    <3>1. list_pc[t] \in {"test", "delete"}
      BY <1>0, <1>1, <2>2 DEF Labels, OneIsNotStale
    <3> QED
      BY <1>1, <3>1 DEF Use
  <2> QED
    BY <1>0, <2>1, <2>2
<1>3. UNCHANGED <<list_head, list_tail, size, live, data, next_node, refs, list_pc, calls, clears, old, node, received,
                  stale, chain, list_taken, refused>>
  BY DEF UseDeletedNode, nodeVars, localVars, historyVars
<1>4. fault' \in {"none", "next", "head", "data", "release"}
  BY <1>1 DEF Use
<1>5. ListTypeOK'
  BY <1>3, <1>4 DEF ListInv, ListTypeOK
<1>6. OnlyReleaseIsUndefined'
  BY <1>2, <1>3 DEF OnlyReleaseIsUndefined, OneConsumes
<1>7. Labels' /\ ChainStands' /\ OneIsNotStale' /\ CopiesAreTaken'
  BY <1>3 DEF ListInv, Labels, ChainStands, OneIsNotStale, OneConsumes, CopiesAreTaken
<1>8. ChainIsLinked'
  BY <1>3 DEF ListInv, ChainIsLinked
<1>9. FreshAreApart' /\ HoldersAreOne'
  BY <1>3 DEF ListInv, FreshAreApart, HoldersAreOne, InChain, HoldsTail, HoldsHead
<1>10. RefsAreHeld' /\ LiveAreOwned'
  BY <1>3 DEF ListInv, RefsAreHeld, LiveAreOwned, TailIsHeld, HeadIsHeld, InChain, IsFresh, HoldsTail, HoldsHead, Tests, One
<1>11. TestersAreRight' /\ ReadersKnow'
  BY <1>3 DEF ListInv, TestersAreRight, ReadersKnow, Tests, InChain
<1>12. SizeIsRight'
  BY <1>3 DEF ListInv, SizeIsRight, Counting
<1> QED
  BY <1>5, <1>6, <1>7, <1>8, <1>9, <1>10, <1>11, <1>12 DEF ListInv

\* When no call is under way, the allocated nodes are those of the list, and
\* all of them are reached from head_.
LEMMA QuietList ==
    ASSUME ListInv, Quiet
    PROVE  /\ live = {n \in Nodes : InChain(n)}
           /\ Reached(list_head) = live
           /\ \A i \in 1 .. Len(chain) - 1 : next_node[chain[i]] = chain[i + 1]
<1>0. /\ Threads = Enqueuers \cup Dequeuers /\ \A u \in Threads : list_pc[u] = "idle"
      /\ Len(chain) \in Nat /\ Len(chain) >= 1 /\ live \subseteq Nodes
      /\ chain[1] = list_head /\ chain[Len(chain)] = list_tail
      /\ next_node[list_tail] = NoNode
  BY DEF Threads, Quiet, ListInv, ListTypeOK, ChainStands, ChainIsLinked
<1>1. \A i \in 1 .. Len(chain) : chain[i] \in live
  BY DEF ListInv, ChainStands
<1>2. InChain(list_tail)
  BY <1>0 DEF InChain
<1>3. \A n \in live : InChain(n)
  <2> SUFFICES ASSUME NEW n \in live PROVE InChain(n)
    OBVIOUS
  <2>1. ~IsFresh(n)
    BY <1>0 DEF IsFresh
  <2>2. ~\E t \in Threads \ stale : Tests(t) /\ old[t] = n
    BY <1>0 DEF Tests
  <2>3. TailIsHeld(n) \/ HeadIsHeld(n)
    BY <2>2 DEF ListInv, LiveAreOwned
  <2>4. TailIsHeld(n) => n = list_tail
    BY <1>0, <2>1 DEF TailIsHeld, HoldsTail
  <2>5. HeadIsHeld(n) => InChain(n)
    BY <1>0, <2>1 DEF HeadIsHeld, HoldsHead
  <2> QED
    BY <1>2, <2>3, <2>4, <2>5
<1>4. live = {n \in Nodes : InChain(n)}
  BY <1>0, <1>1, <1>3 DEF InChain
<1>5. \A i \in 1 .. Len(chain) - 1 : next_node[chain[i]] = chain[i + 1]
  BY <1>0 DEF ListInv, ChainIsLinked
<1>6. Reached(list_head) \subseteq live
  <2>1. list_head \in live
    BY <1>0, <1>1
  <2>2. ASSUME NEW k \in live, next_node[k] # NoNode
        PROVE  next_node[k] \in live
    <3>1. PICK i \in 1 .. Len(chain) : chain[i] = k
      BY <1>3 DEF InChain
    <3>2. i # Len(chain)
      BY <1>0, <2>2, <3>1
    <3>3. i \in 1 .. Len(chain) - 1 /\ i + 1 \in 1 .. Len(chain)
      BY <1>0, <3>1, <3>2
    <3> QED
      BY <1>1, <1>5, <3>1, <3>3
  <2>3. live \in SUBSET Nodes
    BY <1>0
  <2> QED
    BY <2>1, <2>2, <2>3 DEF Reached
<1>7. live \subseteq Reached(list_head)
  <2> SUFFICES ASSUME NEW S \in SUBSET Nodes, list_head \in S,
                      \A k \in S : next_node[k] # NoNode => next_node[k] \in S,
                      NEW m \in live, m \notin S
               PROVE  FALSE
    BY <1>0 DEF Reached
  <2> DEFINE Out == {i \in 1 .. Len(chain) : chain[i] \notin S}
  <2>1. Out \in SUBSET Nat /\ Out # {}
    BY <1>0, <1>3 DEF InChain
  <2>2. PICK i \in Out : \A j \in Out : i <= j
    <3> HIDE DEF Out
    <3> QED
      BY <2>1, Smallest
  <2>3. i \in 1 .. Len(chain) /\ chain[i] \notin S
    BY <2>2
  <2>4. i # 1
    BY <1>0, <2>3
  <2>5. i - 1 \in 1 .. Len(chain) - 1 /\ i - 1 \in 1 .. Len(chain) /\ (i - 1) + 1 = i /\ ~(i <= i - 1)
    BY <1>0, <2>3, <2>4
  <2>6. chain[i - 1] \in S
    BY <2>2, <2>5
  <2>7. next_node[chain[i - 1]] = chain[i]
    BY <1>5, <2>5
  <2>8. chain[i] # NoNode
    BY <1>0, <1>1, <2>3, ListAssumption
  <2> QED
    BY <2>3, <2>6, <2>7, <2>8
<1> QED
  BY <1>4, <1>5, <1>6, <1>7

LEMMA QuietCount ==
    ASSUME ListInv, Quiet
    PROVE  Cardinality(live) = Len(chain)
<1>0. /\ Len(chain) \in Nat /\ live = {n \in Nodes : InChain(n)} /\ chain \in Seq(Nodes)
      /\ \A i, j \in 1 .. Len(chain) : chain[i] = chain[j] => i = j
      /\ \A i \in 1 .. Len(chain) : chain[i] \in live
  BY QuietList DEF ListInv, ListTypeOK, ChainStands
<1> DEFINE f == [i \in 1 .. Len(chain) |-> chain[i]]
<1>1. f \in [1 .. Len(chain) -> live]
  BY <1>0
<1>2. \A i, j \in 1 .. Len(chain) : f[i] = f[j] => i = j
  BY <1>0
<1>3. \A n \in live : \E i \in 1 .. Len(chain) : f[i] = n
  BY <1>0 DEF InChain
<1>4. ExistsBijection(1 .. Len(chain), live)
  <2> HIDE DEF f
  <2> QED
    BY <1>1, <1>2, <1>3, Fun_IsBij, Fun_ExistsBij
<1> QED
  BY <1>0, <1>4, FS_CountingElements

-----------------------------------------------------------------------------
(* UnboundedQueue: the first state, and Clear *)

\* Only the sentinel, and nobody inside.
OnlySentinel ==
    /\ \E n \in Nodes :
           /\ list_head = n /\ list_tail = n /\ chain = <<n>> /\ live = {n}
           /\ next_node[n] = NoNode /\ refs[n] = 2
    /\ \A t \in Threads : list_pc[t] = "idle"
    /\ size = 0 /\ stale = {} /\ fault = "none"

LEMMA SentinelStandsAlone ==
    ListTypeOK /\ OnlySentinel => ListInv
<1> SUFFICES ASSUME ListTypeOK, OnlySentinel PROVE ListInv
  OBVIOUS
<1>0. Threads = Enqueuers \cup Dequeuers /\ SizeLimit \in Nat \ {0}
  BY ListAssumption DEF Threads
<1>1. PICK n \in Nodes : /\ list_head = n /\ list_tail = n /\ chain = <<n>> /\ live = {n}
                         /\ next_node[n] = NoNode /\ refs[n] = 2
  BY DEF OnlySentinel
<1>2. (\A t \in Threads : list_pc[t] = "idle") /\ size = 0 /\ stale = {} /\ fault = "none"
  BY DEF OnlySentinel
<1>3. Len(chain) = 1 /\ chain[1] = n
  BY <1>1
<1>4. InChain(n) /\ \A t \in Threads : ~HoldsTail(t) /\ ~HoldsHead(t) /\ ~Tests(t)
  BY <1>2, <1>3 DEF InChain, HoldsTail, HoldsHead, Tests
<1>5. Labels /\ OneIsNotStale /\ CopiesAreTaken /\ OnlyReleaseIsUndefined
  BY <1>0, <1>2 DEF Labels, OneIsNotStale, CopiesAreTaken, OnlyReleaseIsUndefined
<1>6. ChainStands /\ ChainIsLinked
  BY <1>0, <1>1, <1>2, <1>3 DEF ChainStands, ChainIsLinked
<1>7. FreshAreApart /\ HoldersAreOne /\ TestersAreRight /\ ReadersKnow
  BY <1>0, <1>2, <1>4 DEF FreshAreApart, HoldersAreOne, TestersAreRight, ReadersKnow
<1>8. TailIsHeld(n) /\ HeadIsHeld(n)
  BY <1>1, <1>4 DEF TailIsHeld, HeadIsHeld
<1>9. RefsAreHeld /\ LiveAreOwned
  BY <1>1, <1>8 DEF RefsAreHeld, LiveAreOwned, One
<1>10. SizeIsRight
  <2>1. Takers = {} /\ Putters = {}
    BY <1>0, <1>2 DEF Takers, Putters, InPlaces
  <2>2. 0 = (1 - 1 + 0 - 0) % SizeLimit
    BY <1>0
  <2> QED
    BY <1>2, <1>3, <2>1, <2>2, FS_EmptySet, SizeIsCounted
<1> QED
  BY <1>5, <1>6, <1>7, <1>9, <1>10 DEF ListInv

LEMMA ListStarts ==
    ListInit => ListInv
<1> SUFFICES ASSUME ListInit PROVE ListInv
  OBVIOUS
<1>1. PICK n \in Nodes : list_head = n /\ list_tail = n /\ live = {n} /\ chain = <<n>>
  BY DEF ListInit
<1>2. ListTypeOK
  <2>1. chain \in Seq(Nodes)
    BY <1>1
  <2> QED
    BY <1>1, <2>1, ListAssumption DEF ListInit, ListTypeOK, Elements
<1>3. OnlySentinel
  BY <1>1 DEF ListInit, OnlySentinel
<1> QED
  BY <1>2, <1>3, SentinelStandsAlone

LEMMA ClearKeepsList ==
    ASSUME ListInv, Clear
    PROVE  ListInv' /\ Len(chain') = 1 /\ list_taken' = list_taken /\ refused' = refused
<1>1. Quiet
  BY DEF Clear
<1>2. live \ Destroyed = {}
  BY <1>1, QuietList DEF Destroyed
<1>3. PICK n \in Nodes : /\ list_head' = n /\ list_tail' = n /\ chain' = <<n>> /\ live' = {n}
                         /\ next_node' = [next_node EXCEPT ![n] = NoNode] /\ refs' = [refs EXCEPT ![n] = 2]
  BY <1>2 DEF Clear
<1>4. /\ size' = 0 /\ clears' \in 0 .. MaxClears
      /\ UNCHANGED <<data, list_pc, calls, old, node, received, stale, fault, list_taken, refused>>
  BY ListAssumption DEF Clear, ResetSize, localVars, ListInv, ListTypeOK
<1>5. chain' \in Seq(Nodes) /\ Len(chain') = 1
  BY <1>3
<1>6. ListTypeOK'
  BY <1>3, <1>4, <1>5, ListAssumption DEF ListInv, ListTypeOK
<1>7. stale = {}
  BY <1>1 DEF Quiet, ListInv, Labels, ListTypeOK, Threads
<1>8. OnlySentinel'
  BY <1>1, <1>3, <1>4, <1>7 DEF OnlySentinel, Quiet, ListInv, ListTypeOK
<1>9. (ListTypeOK /\ OnlySentinel => ListInv)'
  BY SentinelStandsAlone, PTL
<1> QED
  BY <1>4, <1>5, <1>6, <1>8, <1>9

LEMMA ListInvariance ==
    ListSpec => []ListInv
<1>1. ListInit => ListInv
  BY ListStarts
<1>2. ListInv /\ [ListNext]_unboundedVars => ListInv'
  <2> SUFFICES ASSUME ListInv, [ListNext]_unboundedVars PROVE ListInv'
    OBVIOUS
  <2>1. CASE ListNext
    BY <2>1, ListSteps, ClearKeepsList, CallKeepsList, LastUse
  <2>2. CASE UNCHANGED unboundedVars
    BY <2>2 DEF unboundedVars, nodeVars, localVars, historyVars, ListInv, ListTypeOK, Labels, ChainStands, ChainIsLinked,
       FreshAreApart, HoldersAreOne, RefsAreHeld, TestersAreRight, LiveAreOwned, ReadersKnow, OneIsNotStale, OneConsumes,
       SizeIsRight, Counting, CopiesAreTaken, OnlyReleaseIsUndefined, InChain, IsFresh, HoldsTail, HoldsHead, TailIsHeld,
       HeadIsHeld, Tests, One
  <2> QED
    BY <2>1, <2>2
<1> QED
  BY <1>1, <1>2, PTL DEF ListSpec

\* One consumer's calls use a deleted node only in release(); and with any number of
\* consumers, until a deleted node is used, Dequeue copies the element it took, no node
\* leaks, and size_ is right up to the calls under way.
THEOREM ConsumerIsSafe ==
    ListSpec => []OneConsumerIsSafe
<1>1. ListInv => OneConsumerIsSafe
  <2> SUFFICES ASSUME ListInv PROVE OneConsumerIsSafe
    OBVIOUS
  <2>1. ListTypeOK /\ OnlyReleaseIsUndefined
    BY DEF ListInv
  <2>2. CopiedIsTaken
    BY DEF ListInv, CopiesAreTaken, CopiedIsTaken
  <2>3. Len(Inside) = Len(chain) - 1
    BY <2>1 DEF ListInv, ChainStands, Inside, ListTypeOK
  <2>4. AllReclaimed
    <3>1. Len(chain) \in Nat
      BY <2>1 DEF ListTypeOK
    <3> QED
      BY <2>3, <3>1, QuietList, QuietCount DEF AllReclaimed
  <2>5. SizeAccounts
    BY <2>3 DEF ListInv, SizeIsRight, SizeAccounts
  <2> QED
    BY <2>1, <2>2, <2>4, <2>5 DEF OneConsumerIsSafe
<1> QED
  BY <1>1, ListInvariance, PTL

-----------------------------------------------------------------------------
(* UnboundedQueue: the queue it implements *)

InsideIsRight ==
    /\ Len(chain) \in Nat /\ Len(chain) >= 1
    /\ Inside \in Seq(Elements) /\ Len(Inside) = Len(chain) - 1
    /\ \A i \in 1 .. Len(chain) - 1 : Inside[i] = data[chain[i + 1]]

LEMMA InsideSequence ==
    ListInv => InsideIsRight
<1> SUFFICES ASSUME ListInv PROVE InsideIsRight
  OBVIOUS
<1>1. Len(chain) \in Nat /\ Len(chain) >= 1 /\ chain \in Seq(Nodes) /\ data \in [Nodes -> Elements]
  BY DEF ListInv, ListTypeOK, ChainStands
<1>2. Len(chain) - 1 \in Nat /\ \A i \in 1 .. Len(chain) - 1 : i + 1 \in 1 .. Len(chain)
  BY <1>1
<1>3. \A i \in 1 .. Len(chain) - 1 : data[chain[i + 1]] \in Elements
  BY <1>1, <1>2
<1>4. Inside \in [1 .. Len(chain) - 1 -> Elements]
  BY <1>3 DEF Inside
<1>5. Inside \in Seq(Elements)
  BY <1>2, <1>4, SeqDef
<1>6. Len(Inside) = Len(chain) - 1
  BY <1>2, <1>4, <1>5
<1> QED
  BY <1>1, <1>5, <1>6 DEF Inside, InsideIsRight

LEMMA InsideSequencePrimed ==
    ListInv' => InsideIsRight'
BY InsideSequence, PTL

\* No more nodes can be in the list than there are.
LEMMA ChainIsBounded ==
    ASSUME ListInv
    PROVE  Len(chain) <= Cardinality(Nodes) /\ Cardinality(Nodes) \in Nat
<1>0. /\ Len(chain) \in Nat /\ chain \in Seq(Nodes)
      /\ \A i, j \in 1 .. Len(chain) : chain[i] = chain[j] => i = j
  BY DEF ListInv, ListTypeOK, ChainStands
<1> DEFINE f == [i \in 1 .. Len(chain) |-> chain[i]]
<1>1. f \in [1 .. Len(chain) -> Nodes]
  BY <1>0
<1>2. \A i, j \in 1 .. Len(chain) : f[i] = f[j] => i = j
  BY <1>0
<1>3. f \in Injection(1 .. Len(chain), Nodes)
  <2> HIDE DEF f
  <2> QED
    BY <1>1, <1>2, Fun_IsInj
<1>4. Cardinality(1 .. Len(chain)) = Len(chain)
  <2>1. \A k \in Nat : Cardinality(1 .. k) = IF 1 > k THEN 0 ELSE k - 1 + 1
    BY FS_Interval
  <2>2. \A k \in Nat : Cardinality(1 .. k) = k
    BY <2>1
  <2> QED
    BY <1>0, <2>2
<1> QED
  <2> HIDE DEF f
  <2> QED
    BY <1>3, <1>4, FS_Injection, FS_CardinalityType, ListAssumption

\* Moving tail_ puts an element in.
LEMMA MoveTailPuts ==
    ASSUME ListInv, ListInv', NEW p \in Enqueuers, MoveTail(p)
    PROVE  ListFifo!Next
<1>1. /\ node[p] \in Nodes /\ data' = data /\ list_taken' = list_taken
      /\ Len(chain') = Len(chain) + 1 /\ chain'[Len(chain) + 1] = node[p]
      /\ \A i \in 1 .. Len(chain) : chain'[i] = chain[i]
  BY MoveTailEffect DEF Memory
<1>2. PICK e \in Elements : e = data[node[p]]
  BY <1>1 DEF ListInv, ListTypeOK
<1>3. PICK k \in Nat : k = Len(chain) /\ k >= 1
  BY InsideSequence DEF InsideIsRight
<1>4. Inside \in Seq(Elements) /\ Len(Inside) = k - 1 /\ \A i \in 1 .. k - 1 : Inside[i] = data[chain[i + 1]]
  BY <1>3, InsideSequence DEF InsideIsRight
<1>5. Inside' \in Seq(Elements) /\ Len(Inside') = k /\ \A i \in 1 .. k : Inside'[i] = data[chain'[i + 1]]
  <2>1. Len(chain') = k + 1 /\ (k + 1) - 1 = k
    BY <1>1, <1>3
  <2> QED
    BY <1>1, <2>1, InsideSequencePrimed DEF InsideIsRight
<1>6. Len(Inside) < Cardinality(Nodes)
  BY <1>3, <1>4, ChainIsBounded
<1>7. Inside' = Append(Inside, e)
  <2>1. /\ Append(Inside, e) \in Seq(Elements) /\ Len(Append(Inside, e)) = k
        /\ Append(Inside, e)[k] = e
        /\ \A i \in 1 .. k - 1 : Append(Inside, e)[i] = Inside[i]
    <3>1. /\ Append(Inside, e) \in Seq(Elements) /\ Len(Append(Inside, e)) = Len(Inside) + 1
          /\ Append(Inside, e)[Len(Inside) + 1] = e
          /\ \A i \in 1 .. Len(Inside) : Append(Inside, e)[i] = Inside[i]
      BY <1>4, AppendProperties
    <3>2. Len(Inside) + 1 = k
      BY <1>3, <1>4
    <3> QED
      BY <1>4, <3>1, <3>2
  <2>2. ASSUME NEW i \in 1 .. k  PROVE Inside'[i] = Append(Inside, e)[i]
    <3>1. CASE i = k
      BY <1>1, <1>2, <1>3, <1>5, <2>1, <3>1
    <3>2. CASE i # k
      <4>1. i \in 1 .. k - 1 /\ i + 1 \in 1 .. k
        BY <1>3, <3>2
      <4> QED
        BY <1>1, <1>3, <1>4, <1>5, <2>1, <4>1
    <3> QED
      BY <3>1, <3>2
  <2> QED
    BY <1>5, <2>1, <2>2, SeqEqual
<1>8. ListFifo!Put(e)
  BY <1>1, <1>6, <1>7 DEF ListFifo!Put
<1> QED
  BY <1>8 DEF ListFifo!Next

\* Moving head_ takes the oldest element out.
LEMMA MoveHeadTakes ==
    ASSUME ListInv, ListInv', NEW c \in Dequeuers, MoveHead(c)
    PROVE  ListFifo!Next
<1>1. /\ node[c] = chain[2] /\ data' = data /\ Len(chain) > 1
      /\ Len(chain') = Len(chain) - 1
      /\ \A i \in 1 .. Len(chain) - 1 : chain'[i] = chain[i + 1]
  BY MoveHeadEffect DEF Memory
<1>2. list_taken' = [list_taken EXCEPT ![c] = data[node[c]]]
  BY DEF MoveHead
<1>3. PICK k \in Nat : k = Len(chain) /\ k >= 2
  BY <1>1, InsideSequence DEF InsideIsRight
<1>4. Inside \in Seq(Elements) /\ Len(Inside) = k - 1 /\ \A i \in 1 .. k - 1 : Inside[i] = data[chain[i + 1]]
  BY <1>3, InsideSequence DEF InsideIsRight
<1>5. Inside' \in Seq(Elements) /\ Len(Inside') = k - 2 /\ \A i \in 1 .. k - 2 : Inside'[i] = data[chain'[i + 1]]
  <2>1. Len(chain') = k - 1 /\ (k - 1) - 1 = k - 2
    BY <1>1, <1>3
  <2> QED
    BY <1>1, <2>1, InsideSequencePrimed DEF InsideIsRight
<1>6. Inside # <<>> /\ Head(Inside) = data[node[c]]
  <2>1. 1 \in 1 .. k - 1 /\ k - 1 >= 1 /\ 1 + 1 = 2
    BY <1>3
  <2>2. Inside[1] = data[chain[2]]
    BY <1>4, <2>1
  <2> QED
    BY <1>1, <1>4, <2>1, <2>2
<1>7. Inside' = Tail(Inside)
  <2>1. /\ Tail(Inside) \in Seq(Elements) /\ Len(Tail(Inside)) = k - 2
        /\ \A i \in 1 .. k - 2 : Tail(Inside)[i] = Inside[i + 1]
    <3>1. /\ Tail(Inside) \in Seq(Elements) /\ Len(Tail(Inside)) = Len(Inside) - 1
          /\ \A i \in 1 .. Len(Tail(Inside)) : Tail(Inside)[i] = Inside[i + 1]
      BY <1>4, <1>6, HeadTailProperties
    <3>2. Len(Inside) - 1 = k - 2
      BY <1>3, <1>4
    <3> QED
      BY <3>1, <3>2
  <2>2. ASSUME NEW i \in 1 .. k - 2  PROVE Inside'[i] = Tail(Inside)[i]
    <3>1. i + 1 \in 1 .. k - 1
      BY <1>3
    <3>2. chain'[i + 1] = chain[(i + 1) + 1]
      BY <1>1, <1>3, <3>1
    <3> QED
      BY <1>4, <1>5, <2>1, <3>1, <3>2
  <2> QED
    BY <1>5, <2>1, <2>2, SeqEqual
<1>8. ListFifo!Take(c)
  BY <1>2, <1>6, <1>7 DEF ListFifo!Take
<1> QED
  BY <1>8 DEF ListFifo!Next

\* No other step of a call can be seen.
LEMMA OthersChangeNothingInside ==
    ASSUME ListInv, NEW t \in Threads, CallStep(t), ~(t \in Enqueuers /\ MoveTail(t)), ~(t \in Dequeuers /\ MoveHead(t))
    PROVE  Inside' = Inside /\ list_taken' = list_taken
<1>1. chain' = chain /\ list_taken' = list_taken
  BY AllocateEffect, MoveTailFailsEffect, LinkEffect, CountEffect, LoadHeadEffect, ReadNextEffect,
     MoveHeadFailsEffect, CopyEffect, DecrementEffect, TestEffect, DeleteEffect DEF CallStep, Stands
<1>2. \A n \in live : data'[n] = data[n]
  BY AllocateEffect, MoveTailFailsEffect, LinkEffect, CountEffect, LoadHeadEffect, ReadNextEffect,
     MoveHeadFailsEffect, CopyEffect, DecrementEffect, TestEffect, DeleteEffect DEF CallStep, Memory, ListInv, ListTypeOK
<1>3. \A i \in 1 .. Len(chain) - 1 : chain[i + 1] \in live
  <2>1. Len(chain) \in Nat /\ \A i \in 1 .. Len(chain) : chain[i] \in live
    BY DEF ListInv, ListTypeOK, ChainStands
  <2> QED
    BY <2>1
<1> QED
  BY <1>1, <1>2, <1>3 DEF Inside

\* Dequeue finds no next node only at the end of the list or before a link.
LEMMA RefusesRightly ==
    ASSUME ListInv, NEW c \in Dequeuers, ReadNext(c), c \notin refused, c \in refused'
    PROVE  Inside = <<>> \/ \E p \in Enqueuers : list_pc[p] = "link"
<1>1. list_pc[c] = "read" /\ c \notin stale /\ next_node[old[c]] = NoNode
  BY ReadNextEffect
<1>2. old[c] = list_head
  BY <1>1 DEF ListInv, ReadersKnow
<1>3. /\ Len(chain) \in Nat /\ Len(chain) >= 1
      /\ Inside \in Seq(Elements) /\ Len(Inside) = Len(chain) - 1
  BY InsideSequence DEF InsideIsRight
<1>4. CASE Len(chain) = 1
  BY <1>3, <1>4
<1>5. CASE Len(chain) # 1
  <2>1. 1 \in 1 .. Len(chain) - 1 /\ 2 \in 1 .. Len(chain) /\ 1 + 1 = 2
    <3>1. \A k \in Nat : k >= 1 /\ k # 1 => 1 \in 1 .. k - 1 /\ 2 \in 1 .. k
      OBVIOUS
    <3> QED
      BY <1>3, <1>5, <3>1
  <2>2. chain[1] = list_head /\ chain[2] \in live /\ live \subseteq Nodes
    BY <2>1 DEF ListInv, ChainStands, ListTypeOK
  <2>3. next_node[chain[1]] # chain[2]
    BY <1>1, <1>2, <2>2, ListAssumption
  <2> QED
    BY <2>1, <2>3 DEF ListInv, ChainIsLinked
<1> QED
  BY <1>4, <1>5

\* The list is a FIFO queue, and Dequeue finds it empty only if it is, or while a
\* producer has moved tail_ and has not linked its node.
THEOREM ListRefines ==
    ListSpec => ListImplementsFifo
<1>1. ListInit => ListFifo!Init
  <2> SUFFICES ASSUME ListInit PROVE ListFifo!Init
    OBVIOUS
  <2>1. PICK n \in Nodes : chain = <<n>>
    BY DEF ListInit
  <2>2. Len(chain) = 1
    BY <2>1
  <2>3. Inside \in Seq(Elements) /\ Len(Inside) = 0
    BY <2>2, ListStarts, InsideSequence DEF InsideIsRight
  <2>4. list_taken \in [Dequeuers -> Elements]
    BY ListStarts DEF ListInv, ListTypeOK
  <2> QED
    BY <2>3, <2>4 DEF ListFifo!Init
<1>2. ListInv /\ ListInv' /\ [ListNext]_unboundedVars
        => [ListFifo!Next \/ (Quiet /\ Inside' = <<>> /\ UNCHANGED list_taken)]_<<Inside, list_taken>>
  <2> SUFFICES ASSUME ListInv, ListInv', [ListNext]_unboundedVars
               PROVE  \/ ListFifo!Next
                      \/ Quiet /\ Inside' = <<>> /\ list_taken' = list_taken
                      \/ Inside' = Inside /\ list_taken' = list_taken
    OBVIOUS
  <2>1. CASE Clear
    <3>1. Len(chain') = 1 /\ list_taken' = list_taken /\ Quiet
      BY <2>1, ClearKeepsList DEF Clear
    <3>2. Inside' \in Seq(Elements) /\ Len(Inside') = 0
      BY <3>1, InsideSequencePrimed DEF InsideIsRight
    <3>3. Inside' = <<>>
      BY <3>2
    <3> QED
      BY <3>1, <3>3
  <2>2. ASSUME NEW t \in Threads, CallStep(t)
        PROVE  ListFifo!Next \/ (Inside' = Inside /\ list_taken' = list_taken)
    BY <2>2, MoveTailPuts, MoveHeadTakes, OthersChangeNothingInside
  <2>3. ASSUME NEW t \in Threads, UseDeletedNode(t)
        PROVE  Inside' = Inside /\ list_taken' = list_taken
    BY <2>3 DEF UseDeletedNode, nodeVars, historyVars, Inside
  <2>4. CASE UNCHANGED unboundedVars
    BY <2>4 DEF unboundedVars, nodeVars, historyVars, Inside
  <2> QED
    BY <2>1, <2>2, <2>3, <2>4, ListSteps
<1>3. ListInv /\ [ListNext]_unboundedVars
        => [\A c \in Dequeuers : (c \notin refused /\ c \in refused') =>
                Inside = <<>> \/ \E p \in Enqueuers : list_pc[p] = "link"]_unboundedVars
  <2> SUFFICES ASSUME ListInv, ListNext, NEW c \in Dequeuers, c \notin refused, c \in refused'
               PROVE  Inside = <<>> \/ \E p \in Enqueuers : list_pc[p] = "link"
    OBVIOUS
  <2>1. PICK t \in Threads : CallStep(t)
    BY ListSteps, ClearKeepsList DEF UseDeletedNode, historyVars
  <2>2. t = c /\ ReadNext(c)
    BY <2>1, AllocateEffect, MoveTailEffect, MoveTailFailsEffect, LinkEffect, CountEffect, LoadHeadEffect,
       ReadNextEffect, MoveHeadEffect, MoveHeadFailsEffect, CopyEffect, DecrementEffect, TestEffect, DeleteEffect DEF CallStep
  <2> QED
    BY <2>2, RefusesRightly
<1> QED
  BY <1>1, <1>2, <1>3, ListInvariance, PTL DEF ListSpec, ListImplementsFifo, ListIsFifo, RefusesWhenUnlinked
=============================================================================
