----------------------------- MODULE ThreadPool -----------------------------
(***************************************************************************)
(* base/thread_pool.h: workers that take tasks from a BoundedQueue with    *)
(* WaitDequeue and sleep in its BlockWaitStrategy (base/wait_strategy.h).  *)
(*                                                                         *)
(* The queue itself is the abstract FIFO queue that BoundedQueue           *)
(* implements: Enqueue and Dequeue are one step each.  What is looked at   *)
(* here is what lies between them: the flags stop_ and break_all_wait_,    *)
(* the test of a flag or of the queue, and the wait on a condition         *)
(* variable that is notified without holding its mutex and waited for      *)
(* without a predicate.                                                    *)
(*                                                                         *)
(* tpc[c] of a client:   "idle", "stop?" (Enqueue, before the test of      *)
(*                       stop_), "push", "notify"                          *)
(* tpc[w] of a worker:   "stop?" (while (!stop_)), "break?" and "take"     *)
(*                       (WaitDequeue), "wait" (EmptyWait, about to block),*)
(*                       "asleep", "run", "ended"                          *)
(* dpc of the destructor: "idle", "break", "notify", "join", "done"        *)
(***************************************************************************)
EXTENDS Integers, Sequences, FiniteSets, Functions

CONSTANTS Clients, Workers,
          MaxTaskNum,   \* max_task_num
          MaxTasks      \* bound: calls of Enqueue

ASSUME PoolAssumption ==
    /\ Clients \cap Workers = {} /\ IsFiniteSet(Clients) /\ IsFiniteSet(Workers)
    /\ MaxTaskNum \in Nat \ {0} /\ MaxTasks \in Nat

Task == 1 .. MaxTasks

VARIABLES
    tasks,      \* the content of task_queue_
    stop,       \* stop_
    break_all,  \* break_all_wait_ of the queue
    tpc, dpc,
    mine,       \* a client's or a worker's task
    before,     \* how many tasks had gone into the queue when a client came
    created,    \* history: calls of Enqueue
    accepted,   \* history: tasks that went into the queue
    refused,    \* history: tasks whose Enqueue saw stop_ or a full queue
    started,    \* history: tasks in the order in which workers began them
    missed      \* history: workers that went to sleep after notify_all

queueVars == <<tasks, stop, break_all>>
histVars == <<created, accepted, refused, started, missed>>
poolVars == <<queueVars, tpc, dpc, mine, before, histVars>>

PoolThread == Clients \cup Workers

PoolInit ==
    /\ tasks = <<>> /\ stop = FALSE /\ break_all = FALSE
    /\ tpc = [t \in PoolThread |-> IF t \in Workers THEN "stop?" ELSE "idle"]
    /\ dpc = "idle"
    /\ mine = [t \in PoolThread |-> 0]
    /\ before = [c \in Clients |-> 0]
    /\ created = 0 /\ accepted = {} /\ refused = {} /\ started = <<>> /\ missed = {}

PoolGoto(t, s) == tpc' = [tpc EXCEPT ![t] = s]

-----------------------------------------------------------------------------
(* ThreadPool::Enqueue *)

BeginPoolEnqueue(c) ==
    /\ tpc[c] = "idle"
    /\ dpc # "done"
    /\ created < MaxTasks
    /\ created' = created + 1
    /\ mine' = [mine EXCEPT ![c] = created + 1]
    /\ PoolGoto(c, "stop?")
    /\ UNCHANGED <<queueVars, dpc, accepted, refused, started, missed, before>>

TestStop(c) ==
    /\ tpc[c] = "stop?" /\ c \in Clients
    /\ PoolGoto(c, IF stop THEN "idle" ELSE "push")
    /\ refused' = IF stop THEN refused \cup {mine[c]} ELSE refused
    /\ before' = [before EXCEPT ![c] = Cardinality(accepted)]
    /\ UNCHANGED <<queueVars, dpc, mine, created, accepted, started, missed>>

PushTask(c) ==
    /\ tpc[c] = "push"
    /\ Len(tasks) < MaxTaskNum
    /\ tasks' = Append(tasks, mine[c])
    /\ accepted' = accepted \cup {mine[c]}
    /\ PoolGoto(c, "notify")
    /\ UNCHANGED <<stop, break_all, dpc, mine, created, refused, started, missed, before>>

\* The queue refuses: it is full, or it looks full because two tasks of other
\* clients have gone in and out since this one loaded tail_ (RefusedWhenFull
\* in BoundedQueue).  The result is ignored.
DropTask(c) ==
    /\ tpc[c] = "push"
    /\ \/ Len(tasks) = MaxTaskNum
       \/ Cardinality(accepted) - Len(tasks) >= before[c] + 2
    /\ refused' = refused \cup {mine[c]}
    /\ PoolGoto(c, "idle")
    /\ UNCHANGED <<queueVars, dpc, mine, created, accepted, started, missed, before>>

Asleep == {w \in Workers : tpc[w] = "asleep"}

\* cv_.notify_one()
NotifyOne(c) ==
    /\ tpc[c] = "notify"
    /\ IF Asleep = {}
       THEN PoolGoto(c, "idle")
       ELSE \E w \in Asleep : tpc' = [tpc EXCEPT ![c] = "idle", ![w] = "break?"]
    /\ UNCHANGED <<queueVars, dpc, mine, before, histVars>>

-----------------------------------------------------------------------------
(* The loop of a worker *)

WorkerTestStop(w) ==
    /\ tpc[w] = "stop?" /\ w \in Workers
    /\ PoolGoto(w, IF stop THEN "ended" ELSE "break?")
    /\ UNCHANGED <<queueVars, dpc, mine, before, histVars>>

\* WaitDequeue gives up once break_all_wait_ is set.
TestBreak(w) ==
    /\ tpc[w] = "break?"
    /\ PoolGoto(w, IF break_all THEN "stop?" ELSE "take")
    /\ UNCHANGED <<queueVars, dpc, mine, before, histVars>>

TakeTask(w) ==
    /\ tpc[w] = "take"
    /\ tasks # <<>>
    /\ tasks' = Tail(tasks)
    /\ mine' = [mine EXCEPT ![w] = Head(tasks)]
    /\ PoolGoto(w, "run")
    /\ UNCHANGED <<stop, break_all, dpc, before, histVars>>

NothingToTake(w) ==
    /\ tpc[w] = "take"
    /\ tasks = <<>>
    /\ PoolGoto(w, "wait")
    /\ UNCHANGED <<queueVars, dpc, mine, before, histVars>>

\* cv_.wait(lock), whatever has happened since the queue was found empty.
Sleep(w) ==
    /\ tpc[w] = "wait"
    /\ missed' = IF dpc \in {"join", "done"} THEN missed \cup {w} ELSE missed
    /\ PoolGoto(w, "asleep")
    /\ UNCHANGED <<queueVars, dpc, mine, created, accepted, refused, started, before>>

SpuriousWakeup(w) ==
    /\ tpc[w] = "asleep"
    /\ PoolGoto(w, "break?")
    /\ UNCHANGED <<queueVars, dpc, mine, before, histVars>>

\* Mutant: looks at stop_ once more before it runs the task.
RunTaskUnlessStopped(w) ==
    /\ tpc[w] = "run"
    /\ started' = IF stop THEN started ELSE Append(started, mine[w])
    /\ PoolGoto(w, "stop?")
    /\ UNCHANGED <<queueVars, dpc, mine, created, accepted, refused, missed, before>>

RunTask(w) ==
    /\ tpc[w] = "run"
    /\ started' = Append(started, mine[w])
    /\ PoolGoto(w, "stop?")
    /\ UNCHANGED <<queueVars, dpc, mine, created, accepted, refused, missed, before>>

-----------------------------------------------------------------------------
(* The destructor *)

BeginDestroy ==
    /\ dpc = "idle"
    /\ stop' = TRUE
    /\ dpc' = "break"
    /\ UNCHANGED <<tasks, break_all, tpc, mine, before, histVars>>

SetBreakAll ==
    /\ dpc = "break"
    /\ break_all' = TRUE
    /\ dpc' = "notify"
    /\ UNCHANGED <<tasks, stop, tpc, mine, before, histVars>>

\* Mutant: the sleeping workers are not notified.
NotifyAllForgets ==
    /\ dpc = "notify"
    /\ dpc' = "join"
    /\ UNCHANGED <<queueVars, tpc, mine, before, histVars>>

\* cv_.notify_all()
NotifyAll ==
    /\ dpc = "notify"
    /\ tpc' = [t \in PoolThread |-> IF t \in Asleep THEN "break?" ELSE tpc[t]]
    /\ dpc' = "join"
    /\ UNCHANGED <<queueVars, mine, before, histVars>>

Join ==
    /\ dpc = "join"
    /\ \A w \in Workers : tpc[w] = "ended"
    /\ dpc' = "done"
    /\ UNCHANGED <<queueVars, tpc, mine, before, histVars>>

-----------------------------------------------------------------------------
ClientStep(c) == TestStop(c) \/ PushTask(c) \/ DropTask(c) \/ NotifyOne(c)

WorkerStep(w) ==
    \/ WorkerTestStop(w) \/ TestBreak(w) \/ TakeTask(w) \/ NothingToTake(w)
    \/ Sleep(w) \/ RunTask(w)

DestroyStep == SetBreakAll \/ NotifyAll \/ Join

PoolNext ==
    \/ \E c \in Clients : BeginPoolEnqueue(c) \/ ClientStep(c)
    \/ \E w \in Workers : WorkerStep(w) \/ SpuriousWakeup(w)
    \/ BeginDestroy \/ DestroyStep

PoolSpec == PoolInit /\ [][PoolNext]_poolVars

\* Threads that can go on do, and tasks end; nobody has to call Enqueue, to
\* destroy the pool, or to be woken without a reason.
FairPoolSpec ==
    /\ PoolSpec
    /\ \A c \in Clients : WF_poolVars(ClientStep(c))
    /\ \A w \in Workers : WF_poolVars(WorkerStep(w))
    /\ WF_poolVars(DestroyStep)

-----------------------------------------------------------------------------
(* Properties *)

PoolTypeOK ==
    /\ tasks \in Seq(Task) /\ Len(tasks) <= MaxTaskNum
    /\ stop \in BOOLEAN /\ break_all \in BOOLEAN
    /\ \A c \in Clients : tpc[c] \in {"idle", "stop?", "push", "notify"}
    /\ \A w \in Workers : tpc[w] \in {"stop?", "break?", "take", "wait", "asleep", "run", "ended"}
    /\ dpc \in {"idle", "break", "notify", "join", "done"}
    /\ mine \in [PoolThread -> 0 .. MaxTasks]
    /\ before \in [Clients -> 0 .. MaxTasks]
    /\ created \in 0 .. MaxTasks
    /\ accepted \subseteq Task /\ refused \subseteq Task /\ missed \subseteq Workers

\* No task is lost or run twice between the queue and the workers: an accepted
\* task is in the queue, in the hands of one worker, or has been started once.
\* A worker that sees stop_ does not leave with a task it has not run.
TaskIsSomewhere ==
    /\ accepted = Range(tasks) \cup Range(started)
                  \cup {mine[w] : w \in {v \in Workers : tpc[v] = "run"}}
    /\ Cardinality(accepted) = Len(tasks) + Len(started)
                               + Cardinality({w \in Workers : tpc[w] = "run"})

\* A task is not left lying while a worker is on its way to the queue: such a
\* worker takes it, or another one does, unless the pool is being stopped.
ActiveWorkerServes ==
    \A k \in Task :
        (/\ k \in Range(tasks)
         /\ \E w \in Workers : tpc[w] \in {"stop?", "break?", "take", "run"})
            ~> (k \notin Range(tasks) \/ stop)

\* The destructor ends, unless a worker tested break_all_wait_ before it was
\* set and went to sleep after notify_all.
DestructorEndsUnlessMissed == dpc # "idle" ~> (dpc = "done" \/ missed # {})

=============================================================================
