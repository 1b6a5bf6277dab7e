---------------------------- MODULE AtomicRWLock ----------------------------
(***************************************************************************)
(* base/atomic_rw_lock.h: a spinning readers/writer lock made of two       *)
(* atomics.  Every atomic access of the code is a step of its own, because *)
(* ReadLock reads write_lock_wait_num_, decides, and only then changes     *)
(* lock_num_.                                                              *)
(*                                                                         *)
(* pc[t] is where thread t is:                                             *)
(*   "idle"      outside the lock                                          *)
(*   "r_check"   ReadLock, about to evaluate need_wait()                   *)
(*   "r_reload"  ReadLock, in the spin loop, about to load lock_num_ again *)
(*   "r_cas"     ReadLock, about to compare-and-swap lock_num_             *)
(*   "reading"   holds the lock shared                                     *)
(*   "w_cas"     WriteLock, announced, about to compare-and-swap           *)
(*   "w_done"    WriteLock, owns the lock, announcement not yet withdrawn  *)
(*   "writing"   holds the lock exclusively                                *)
(* The retry counter only decides when the thread yields the processor and *)
(* is left out.  A failed compare-and-swap of WriteLock changes nothing,   *)
(* so it is a stuttering step.                                             *)
(***************************************************************************)
EXTENDS Integers, FiniteSets

CONSTANTS Thread,      \* the threads that share the lock
          WriteFirst   \* write_first_: must readers let waiting writers pass?

\* lock_num_ is an int32_t that counts the readers: fewer threads than 2^31.
ASSUME ThreadAssumption == IsFiniteSet(Thread) /\ Cardinality(Thread) <= 2147483647
ASSUME WriteFirstAssumption == WriteFirst \in BOOLEAN

RW_LOCK_FREE    == 0
WRITE_EXCLUSIVE == -1

VARIABLES
    lock_num,             \* lock_num_: -1 written, n >= 0 read by n threads
    write_lock_wait_num,  \* write_lock_wait_num_: writers that have announced
    pc,                   \* where each thread is
    local,                \* ReadLock's local copy of lock_num_
    ahead                 \* history: the writers that were waiting when the
                          \* reader entered ReadLock and have not got in yet

vars == <<lock_num, write_lock_wait_num, pc, local, ahead>>

Readers == {t \in Thread : pc[t] = "reading"}
Writers == {t \in Thread : pc[t] \in {"w_done", "writing"}}
Waiting == {t \in Thread : pc[t] = "w_cas"}
Announced == {t \in Thread : pc[t] \in {"w_cas", "w_done"}}

Init ==
    /\ lock_num = RW_LOCK_FREE
    /\ write_lock_wait_num = 0
    /\ pc = [t \in Thread |-> "idle"]
    /\ local = [t \in Thread |-> 0]
    /\ ahead = [t \in Thread |-> {}]

-----------------------------------------------------------------------------
(* ReadLock *)

BeginReadLock(t) ==
    /\ pc[t] = "idle"
    /\ local' = [local EXCEPT ![t] = lock_num]
    /\ ahead' = [ahead EXCEPT ![t] = Waiting]
    /\ pc' = [pc EXCEPT ![t] = "r_check"]
    /\ UNCHANGED <<lock_num, write_lock_wait_num>>

\* Mutant: need_wait() that does not look at the waiting writers.
NeedWaitIgnoresWaiting(t) == local[t] < RW_LOCK_FREE

NeedWait(t) == \/ local[t] < RW_LOCK_FREE
               \/ WriteFirst /\ write_lock_wait_num > 0

ReadLockCheck(t) ==
    /\ pc[t] = "r_check"
    /\ pc' = [pc EXCEPT ![t] = IF NeedWait(t) THEN "r_reload" ELSE "r_cas"]
    /\ UNCHANGED <<lock_num, write_lock_wait_num, local, ahead>>

ReadLockReload(t) ==
    /\ pc[t] = "r_reload"
    /\ local' = [local EXCEPT ![t] = lock_num]
    /\ pc' = [pc EXCEPT ![t] = "r_check"]
    /\ UNCHANGED <<lock_num, write_lock_wait_num, ahead>>

\* Mutant: a plain store instead of a compare-and-swap.
ReadLockStore(t) ==
    /\ pc[t] = "r_cas"
    /\ lock_num' = local[t] + 1
    /\ pc' = [pc EXCEPT ![t] = "reading"]
    /\ UNCHANGED <<write_lock_wait_num, local, ahead>>

ReadLockCas(t) ==
    /\ pc[t] = "r_cas"
    /\ lock_num = local[t]
    /\ lock_num' = local[t] + 1
    /\ pc' = [pc EXCEPT ![t] = "reading"]
    /\ UNCHANGED <<write_lock_wait_num, local, ahead>>

\* The lock word has changed since it was loaded.
ReadLockCasFails(t) ==
    /\ pc[t] = "r_cas"
    /\ lock_num # local[t]
    /\ local' = [local EXCEPT ![t] = lock_num]
    /\ pc' = [pc EXCEPT ![t] = "r_check"]
    /\ UNCHANGED <<lock_num, write_lock_wait_num, ahead>>

\* compare_exchange_weak may also fail when the values are equal.
ReadLockCasSpurious(t) ==
    /\ pc[t] = "r_cas"
    /\ lock_num = local[t]
    /\ pc' = [pc EXCEPT ![t] = "r_check"]
    /\ UNCHANGED <<lock_num, write_lock_wait_num, local, ahead>>

ReadUnlock(t) ==
    /\ pc[t] = "reading"
    /\ lock_num' = lock_num - 1
    /\ pc' = [pc EXCEPT ![t] = "idle"]
    /\ UNCHANGED <<write_lock_wait_num, local, ahead>>

-----------------------------------------------------------------------------
(* WriteLock *)

BeginWriteLock(t) ==
    /\ pc[t] = "idle"
    /\ write_lock_wait_num' = write_lock_wait_num + 1
    /\ pc' = [pc EXCEPT ![t] = "w_cas"]
    /\ UNCHANGED <<lock_num, local, ahead>>

WriteLockCas(t) ==
    /\ pc[t] = "w_cas"
    /\ lock_num = RW_LOCK_FREE
    /\ lock_num' = WRITE_EXCLUSIVE
    /\ ahead' = [r \in Thread |-> ahead[r] \ {t}]
    /\ pc' = [pc EXCEPT ![t] = "w_done"]
    /\ UNCHANGED <<write_lock_wait_num, local>>

EndWriteLock(t) ==
    /\ pc[t] = "w_done"
    /\ write_lock_wait_num' = write_lock_wait_num - 1
    /\ pc' = [pc EXCEPT ![t] = "writing"]
    /\ UNCHANGED <<lock_num, local, ahead>>

WriteUnlock(t) ==
    /\ pc[t] = "writing"
    /\ lock_num' = lock_num + 1
    /\ pc' = [pc EXCEPT ![t] = "idle"]
    /\ UNCHANGED <<write_lock_wait_num, local, ahead>>

-----------------------------------------------------------------------------
\* What a thread does once it has asked for the lock.
Step(t) ==
    \/ ReadLockCheck(t) \/ ReadLockReload(t) \/ ReadLockCas(t)
    \/ ReadLockCasFails(t) \/ ReadUnlock(t)
    \/ WriteLockCas(t) \/ EndWriteLock(t) \/ WriteUnlock(t)

Next == \E t \in Thread :
            BeginReadLock(t) \/ BeginWriteLock(t) \/ Step(t) \/ ReadLockCasSpurious(t)

Spec == Init /\ [][Next]_vars

\* Nobody has to ask for the lock, but whoever has asked goes on, leaves its
\* critical section (the guards unlock in their destructors).  A thread does
\* not see spurious failures only: if it sees infinitely many, some of its
\* compare-and-swaps succeed.
FairSpec ==
    /\ Spec
    /\ \A t \in Thread : WF_vars(Step(t))
    /\ \A t \in Thread : []<><<ReadLockCasSpurious(t)>>_vars => []<><<ReadLockCas(t)>>_vars

-----------------------------------------------------------------------------
(* Properties *)

\* The lock word and the announcement counter stay in range (neither
\* underflows when an unlock or fetch_sub is matched with its lock).
TypeOK ==
    /\ lock_num \in -1 .. Cardinality(Thread)
    /\ write_lock_wait_num \in 0 .. Cardinality(Thread)
    /\ pc \in [Thread -> {"idle", "r_check", "r_reload", "r_cas", "reading",
                          "w_cas", "w_done", "writing"}]
    /\ local \in [Thread -> -1 .. Cardinality(Thread)]
    /\ ahead \in [Thread -> SUBSET Thread]

\* The lock word says exactly who is inside: -1 for one writer and nobody
\* else, otherwise the number of readers; and the announcement counter is the
\* number of writers between their fetch_add and their fetch_sub.
CountersMatchHolders ==
    /\ \/ lock_num = WRITE_EXCLUSIVE /\ Readers = {} /\ (\E w \in Thread : Writers = {w})
       \/ Writers = {} /\ lock_num = Cardinality(Readers)
    /\ write_lock_wait_num = Cardinality(Announced)

\* A writer is alone: no other writer and no reader holds the lock with it,
\* although ReadLock adds one to a lock word it read some steps earlier.
MutualExclusion ==
    \A w \in Writers : Writers = {w} /\ Readers = {}

\* Writer priority (write_first_): a reader that found a writer already
\* waiting when it entered ReadLock does not get the lock before that writer.
\* A reader that entered earlier may still pass: the announcement and the
\* reader's compare-and-swap are on different atomics.
NoOvertaking ==
    WriteFirst => \A r \in Readers : ahead[r] = {}

\* The lock implements the abstract readers/writer lock.
RW == INSTANCE RWLock WITH readers <- Readers, writers <- Writers
ImplementsRWLock == RW!Spec

\* With write_first_ a stream of readers cannot starve the writers: once one
\* has announced itself, some writer gets the lock.
WriterProgress == Waiting # {} ~> Writers # {}

=============================================================================
