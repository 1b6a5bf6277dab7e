--------------------------- MODULE AtomicRWLockMC ---------------------------
(* Three threads that share one lock, each free to read or to write.       *)
EXTENDS AtomicRWLock

CONSTANTS t1, t2, t3
MCThread == {t1, t2, t3}
=============================================================================
