------------------------------- MODULE RWLock -------------------------------
(***************************************************************************)
(* What a readers/writer lock promises, with no lock word, no counter and  *)
(* no waiting: who holds it for reading and who holds it for writing.      *)
(* base/atomic_rw_lock.h implements it (module AtomicRWLock), and so does  *)
(* the try-lock of every block of a shared-memory segment (BlockRing).     *)
(***************************************************************************)
CONSTANT Thread

VARIABLES readers,  \* the threads that hold the lock shared
          writers   \* the threads that hold it exclusively

vars == <<readers, writers>>

Init == readers = {} /\ writers = {}

AcquireRead(t) ==
    /\ t \notin readers
    /\ writers = {}
    /\ readers' = readers \cup {t}
    /\ UNCHANGED writers

AcquireWrite(t) ==
    /\ readers = {} /\ writers = {}
    /\ writers' = {t}
    /\ UNCHANGED readers

ReleaseRead(t) ==
    /\ t \in readers
    /\ readers' = readers \ {t}
    /\ UNCHANGED writers

ReleaseWrite(t) ==
    /\ t \in writers
    /\ writers' = writers \ {t}
    /\ UNCHANGED readers

Next == \E t \in Thread :
            AcquireRead(t) \/ AcquireWrite(t) \/ ReleaseRead(t) \/ ReleaseWrite(t)

Spec == Init /\ [][Next]_vars
=============================================================================
