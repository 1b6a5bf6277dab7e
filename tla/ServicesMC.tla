------------------------------ MODULE ServicesMC -----------------------------
(* Small instances of three services that a process has: its pool of threads, *)
(* its log, and the notifier that NotifierFactory would make of type          *)
(* multicast.  They share no state: one of them runs, and the others stay as  *)
(* they are.                                                                  *)
EXTENDS ThreadPool, Logger, MulticastNotifier

CONSTANTS c1, c2, w1, w2, t1, t2, i1

VARIABLE service   \* the one that runs

TwoClients == {c1, c2}
TwoWorkers == {w1, w2}

\* Of the notifier; the cfg gives it as many descriptors as sockets, so that one
\* that is closed is the next to be opened.
TwoThreads == {t1, t2}
OneInfo == {i1}
OneListens == {t1}

\* A file of the log is full after the second line.  One thread logs for a
\* while, or two log at once, then with fewer lines.
TwoLoggers == {c1, c2}

OneLogs == line'[c2] = 0 /\ raced' = {}
TwoLog == begun' <= 2 /\ opens' <= 2 /\ now' <= 1

allVars == <<service, poolVars, loggerVars, multicastVars>>

EitherInit ==
    /\ service \in {"pool", "log", "log of two", "multicast"}
    /\ PoolInit /\ LoggerInit /\ MulticastInit

EitherNext ==
    /\ \/ service = "pool" /\ PoolNext /\ UNCHANGED <<loggerVars, multicastVars>>
       \/ service = "log" /\ LoggerNext /\ OneLogs /\ UNCHANGED <<poolVars, multicastVars>>
       \/ service = "log of two" /\ LoggerNext /\ TwoLog /\ UNCHANGED <<poolVars, multicastVars>>
       \/ service = "multicast" /\ MulticastNext /\ UNCHANGED <<poolVars, loggerVars>>
    /\ UNCHANGED service

\* The fairness of FairSpec.
EitherSpec ==
    /\ EitherInit /\ [][EitherNext]_allVars
    /\ \A c \in Clients : WF_poolVars(service = "pool" /\ ClientStep(c))
    /\ \A w \in Workers : WF_poolVars(service = "pool" /\ WorkerStep(w))
    /\ WF_poolVars(service = "pool" /\ DestroyStep)
    /\ \A t \in Threads : WF_multicastVars(service = "multicast" /\ MulticastStep(t))
    /\ \A t \in Listeners : WF_multicastVars(service = "multicast" /\ (Instance(t) \/ Listen(t)))

-----------------------------------------------------------------------------

\* A worker that is awake serves what is in the queue, and the destructor ends
\* unless a worker misses its notify_all: see ThreadPool.
PoolGoesOn == ActiveWorkerServes /\ DestructorEndsUnlessMissed
=============================================================================
