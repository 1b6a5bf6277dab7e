------------------------- MODULE MulticastNotifier --------------------------
(***************************************************************************)
(* MulticastNotifier: announcements as UDP datagrams to a multicast group. *)
(*                                                                         *)
(* The threads of one process construct the notifier (one of them, in      *)
(* Instance), notify, listen and shut down.  Nothing but the flag          *)
(* is_shutdown_ is synchronised: notify_fd_ and listen_fd_ are read by     *)
(* calls that have seen the flag and closed by another thread.             *)
(*                                                                         *)
(* External: open[fd] is what a descriptor of the process stands for.      *)
(* socket takes the lowest that is free, also one that was closed just     *)
(* now, and the rest of the process opens and closes descriptors, "other". *)
(* The group loses, repeats and reorders datagrams, and a socket that has  *)
(* BufferSize of them drops the next one.  Other processes send, too.      *)
(*                                                                         *)
(* thread_pc[t]: "none", before Instance; "socket", "socket2", "join": in  *)
(* Init; "notify", "send": in Notify; "listen", "poll", "receive", "take": *)
(* in Listen; "close", "forget", "close2", "forget2": in Shutdown.  fd[t]  *)
(* is the descriptor that the thread has read.  Notify and Listen after    *)
(* Shutdown return at once and are left out.                               *)
(***************************************************************************)
EXTENDS Integers, Sequences

CONSTANTS
    Threads, Infos, None,
    Descriptors,   \* how many a process may have
    BufferSize,
    MaxCalls,      \* bound: calls of Notify and Shutdown per thread; each info is sent once
    Listeners      \* the threads that call Listen again and again

\* None stands for no thread; descriptors and the buffer are finite.
ASSUME MulticastAssumption ==
    /\ None \notin Threads /\ Listeners \subseteq Threads
    /\ Descriptors \in Nat /\ BufferSize \in Nat /\ MaxCalls \in Nat

VARIABLES
    notify_fd, listen_fd, is_shutdown,   \* MulticastNotifier
    maker,      \* the thread that constructs it, or None
    made,       \* has the constructor returned?
    open,       \* the descriptors of the process
    in_group,     \* is the listening socket in the group?
    buffer,     \* datagrams that have arrived at it
    group,      \* datagrams under way
    thread_pc, fd, calls,
    closed,     \* history: what Shutdown has closed
    foreign,    \* history: threads that have used what is not the notifier's
    notified,   \* history: infos that were sent
    listened    \* history: infos that Listen has returned

sockets == <<notify_fd, listen_fd>>
instance == <<maker, made>>
network == <<in_group, buffer, group>>
history == <<closed, foreign, notified, listened>>
multicastVars == <<sockets, is_shutdown, instance, open, network, thread_pc, fd, calls, history>>

Fds == 0 .. Descriptors - 1

MulticastInit ==
    /\ notify_fd = -1 /\ listen_fd = -1 /\ is_shutdown = FALSE /\ maker = None /\ made = FALSE
    /\ open = [f \in Fds |-> "free"] /\ in_group = FALSE /\ buffer = <<>> /\ group = {}
    /\ thread_pc = [t \in Threads |-> "none"] /\ fd = [t \in Threads |-> -1] /\ calls = [t \in Threads |-> 0]
    /\ closed = {} /\ foreign = {} /\ notified = {} /\ listened = {}

ThreadGoto(t, l) == thread_pc' = [thread_pc EXCEPT ![t] = l]

Count(t) == calls[t] < MaxCalls /\ calls' = [calls EXCEPT ![t] = @ + 1]

\* The descriptor that socket and open take.
Lowest(f) == open[f] = "free" /\ \A g \in Fds : open[g] = "free" => f <= g

Is(f) == IF f \in Fds THEN open[f] ELSE "free"

-----------------------------------------------------------------------------
(* The rest of the process, the group and the other processes *)

Elsewhere ==
    /\ \E f \in Fds : \/ Lowest(f) /\ open' = [open EXCEPT ![f] = "other"]
                      \/ open[f] = "other" /\ open' = [open EXCEPT ![f] = "free"]
    /\ UNCHANGED <<sockets, is_shutdown, instance, network, thread_pc, fd, calls, history>>

OthersNotify(i) ==
    /\ i \notin notified
    /\ group' = group \cup {i} /\ notified' = notified \cup {i}
    /\ UNCHANGED <<sockets, is_shutdown, instance, open, in_group, buffer, thread_pc, fd, calls, closed, foreign, listened>>

\* Into the buffer if there is room; it may come again.
Arrive(i) ==
    /\ i \in group /\ in_group
    /\ buffer' = IF Len(buffer) < BufferSize THEN Append(buffer, i) ELSE buffer
    /\ group' \in {group, group \ {i}}
    /\ UNCHANGED <<sockets, is_shutdown, instance, open, in_group, thread_pc, fd, calls, history>>

Lose(i) ==
    /\ i \in group /\ group' = group \ {i}
    /\ UNCHANGED <<sockets, is_shutdown, instance, open, in_group, buffer, thread_pc, fd, calls, history>>

-----------------------------------------------------------------------------
(* Instance, the constructor and Init *)

\* The others wait for the one that constructs (call_once).
Instance(t) ==
    /\ thread_pc[t] = "none"
    /\ \/ maker = None /\ maker' = t /\ ThreadGoto(t, "socket")
       \/ made /\ ThreadGoto(t, "idle") /\ UNCHANGED maker
    /\ UNCHANGED <<sockets, is_shutdown, made, open, network, fd, calls, history>>

OpenNotifySocket(t) ==
    /\ thread_pc[t] = "socket"
    /\ \E f \in Fds : Lowest(f) /\ notify_fd' = f /\ open' = [open EXCEPT ![f] = "notify"]
    /\ ThreadGoto(t, "socket2")
    /\ UNCHANGED <<listen_fd, is_shutdown, instance, network, fd, calls, history>>

OpenListenSocket(t) ==
    /\ thread_pc[t] = "socket2"
    /\ \E f \in Fds : Lowest(f) /\ listen_fd' = f /\ open' = [open EXCEPT ![f] = "listen"]
    /\ ThreadGoto(t, "join")
    /\ UNCHANGED <<notify_fd, is_shutdown, instance, network, fd, calls, history>>

\* fcntl, setsockopt, bind and IP_ADD_MEMBERSHIP
JoinGroup(t) ==
    /\ thread_pc[t] = "join"
    /\ in_group' = TRUE /\ made' = TRUE
    /\ ThreadGoto(t, "idle")
    /\ UNCHANGED <<sockets, is_shutdown, maker, open, buffer, group, fd, calls, history>>

\* A call of Init fails, and the constructor shuts down.
InitFails(t) ==
    /\ thread_pc[t] \in {"socket", "socket2", "join"}
    /\ is_shutdown' = TRUE
    /\ ThreadGoto(t, "close")
    /\ UNCHANGED <<sockets, instance, open, network, fd, calls, history>>

-----------------------------------------------------------------------------
(* Notify and Listen *)

Notify(t) ==
    /\ thread_pc[t] = "idle" /\ ~is_shutdown
    /\ Count(t) /\ ThreadGoto(t, "notify")
    /\ UNCHANGED <<sockets, is_shutdown, instance, open, network, fd, history>>

Listen(t) ==
    /\ thread_pc[t] = "idle" /\ ~is_shutdown
    /\ ThreadGoto(t, "listen")
    /\ UNCHANGED <<sockets, is_shutdown, instance, open, network, fd, calls, history>>

\* notify_fd_ as the argument of sendto
ReadNotifyFd(t) ==
    /\ thread_pc[t] = "notify"
    /\ fd' = [fd EXCEPT ![t] = notify_fd]
    /\ ThreadGoto(t, "send")
    /\ UNCHANGED <<sockets, is_shutdown, instance, open, network, calls, history>>

\* sendto a descriptor that is closed fails.
SendTo(t) ==
    /\ thread_pc[t] = "send"
    /\ \/ /\ Is(fd[t]) = "notify"
          /\ \E i \in Infos \ notified : group' = group \cup {i} /\ notified' = notified \cup {i}
          /\ UNCHANGED foreign
       \/ Is(fd[t]) = "notify" /\ UNCHANGED <<group, notified, foreign>>
       \/ Is(fd[t]) = "free" /\ UNCHANGED <<group, notified, foreign>>
       \/ Is(fd[t]) \in {"other", "listen"} /\ foreign' = foreign \cup {t} /\ UNCHANGED <<group, notified>>
    /\ ThreadGoto(t, "idle")
    /\ UNCHANGED <<sockets, is_shutdown, instance, open, in_group, buffer, fd, calls, closed, listened>>

ReadListenFd(t) ==
    /\ thread_pc[t] = "listen"
    /\ fd' = [fd EXCEPT ![t] = listen_fd]
    /\ ThreadGoto(t, "poll")
    /\ UNCHANGED <<sockets, is_shutdown, instance, open, network, calls, history>>

\* Mutant: poll waits for no event.
PollNothing(t) ==
    /\ thread_pc[t] = "poll"
    /\ ThreadGoto(t, "idle")
    /\ UNCHANGED <<sockets, is_shutdown, instance, open, network, fd, calls, history>>

\* There is a datagram, or the descriptor is not one; else the call times out,
\* and poll ignores -1.
Poll(t) ==
    /\ thread_pc[t] = "poll"
    /\ \/ Is(fd[t]) = "listen" /\ ThreadGoto(t, IF buffer # <<>> THEN "receive" ELSE "idle") /\ UNCHANGED foreign
       \/ Is(fd[t]) = "free" /\ ThreadGoto(t, IF fd[t] = -1 THEN "idle" ELSE "receive") /\ UNCHANGED foreign
       \/ /\ Is(fd[t]) \in {"other", "notify"} /\ foreign' = foreign \cup {t}
          /\ ThreadGoto(t, "idle") \/ ThreadGoto(t, "receive")
    /\ UNCHANGED <<sockets, is_shutdown, instance, open, network, fd, calls, closed, notified, listened>>

\* listen_fd_ again, as the argument of recvfrom
ReadListenFdAgain(t) ==
    /\ thread_pc[t] = "receive"
    /\ fd' = [fd EXCEPT ![t] = listen_fd]
    /\ ThreadGoto(t, "take")
    /\ UNCHANGED <<sockets, is_shutdown, instance, open, network, calls, history>>

\* recvfrom does not wait, and DeserializeFrom takes a whole datagram.
ReceiveFrom(t) ==
    /\ thread_pc[t] = "take"
    /\ \/ /\ Is(fd[t]) = "listen" /\ buffer # <<>>
          /\ listened' = listened \cup {Head(buffer)} /\ buffer' = Tail(buffer)
          /\ UNCHANGED foreign
       \/ Is(fd[t]) = "listen" /\ buffer = <<>> /\ UNCHANGED <<listened, buffer, foreign>>
       \/ Is(fd[t]) = "free" /\ UNCHANGED <<listened, buffer, foreign>>
       \/ Is(fd[t]) \in {"other", "notify"} /\ foreign' = foreign \cup {t} /\ UNCHANGED <<listened, buffer>>
    /\ ThreadGoto(t, "idle")
    /\ UNCHANGED <<sockets, is_shutdown, instance, open, in_group, group, fd, calls, closed, notified>>

-----------------------------------------------------------------------------
(* Shutdown *)

\* Mutant: the flag is read and set in two steps.
ShutdownUnlessSeen(t) ==
    \/ /\ thread_pc[t] = "idle" /\ ~is_shutdown /\ Count(t) /\ ThreadGoto(t, "close") /\ UNCHANGED is_shutdown
       /\ UNCHANGED <<sockets, instance, open, network, fd, history>>
    \/ /\ thread_pc[t] = "close" /\ ~is_shutdown /\ is_shutdown' = TRUE
       /\ UNCHANGED <<sockets, instance, open, network, thread_pc, fd, calls, history>>

\* exchange
Shutdown(t) ==
    /\ thread_pc[t] = "idle" /\ Count(t)
    /\ is_shutdown' = TRUE
    /\ ThreadGoto(t, IF is_shutdown THEN "idle" ELSE "close")
    /\ UNCHANGED <<sockets, instance, open, network, fd, history>>

CloseNotifySocket(t) ==
    /\ thread_pc[t] = "close"
    /\ IF notify_fd # -1
       THEN open' = [open EXCEPT ![notify_fd] = "free"] /\ closed' = closed \cup {Is(notify_fd)}
       ELSE UNCHANGED <<open, closed>>
    /\ ThreadGoto(t, "forget")
    /\ UNCHANGED <<sockets, is_shutdown, instance, network, fd, calls, foreign, notified, listened>>

ForgetNotifySocket(t) ==
    /\ thread_pc[t] = "forget"
    /\ notify_fd' = -1
    /\ ThreadGoto(t, "close2")
    /\ UNCHANGED <<listen_fd, is_shutdown, instance, open, network, fd, calls, history>>

\* What is in the buffer is lost.
CloseListenSocket(t) ==
    /\ thread_pc[t] = "close2"
    /\ IF listen_fd # -1
       THEN /\ open' = [open EXCEPT ![listen_fd] = "free"] /\ closed' = closed \cup {Is(listen_fd)}
            /\ in_group' = FALSE /\ buffer' = <<>>
       ELSE UNCHANGED <<open, closed, in_group, buffer>>
    /\ ThreadGoto(t, "forget2")
    /\ UNCHANGED <<sockets, is_shutdown, instance, group, fd, calls, foreign, notified, listened>>

ForgetListenSocket(t) ==
    /\ thread_pc[t] = "forget2"
    /\ listen_fd' = -1 /\ made' = TRUE
    /\ ThreadGoto(t, "idle")
    /\ UNCHANGED <<notify_fd, is_shutdown, maker, open, network, fd, calls, history>>

-----------------------------------------------------------------------------

MulticastStep(t) ==
    \/ OpenNotifySocket(t) \/ OpenListenSocket(t) \/ JoinGroup(t) \/ InitFails(t)
    \/ ReadNotifyFd(t) \/ SendTo(t)
    \/ ReadListenFd(t) \/ Poll(t) \/ ReadListenFdAgain(t) \/ ReceiveFrom(t)
    \/ CloseNotifySocket(t) \/ ForgetNotifySocket(t) \/ CloseListenSocket(t) \/ ForgetListenSocket(t)

MulticastNext ==
    \/ \E t \in Threads : Instance(t) \/ MulticastStep(t) \/ Notify(t) \/ Listen(t) \/ Shutdown(t)
    \/ \E i \in Infos : OthersNotify(i) \/ Arrive(i) \/ Lose(i)
    \/ Elsewhere

MulticastSpec == MulticastInit /\ [][MulticastNext]_multicastVars

\* Threads run on, and ThreadFunc of the dispatcher listens in a loop.
MulticastFairSpec ==
    /\ MulticastSpec
    /\ \A t \in Threads : WF_multicastVars(MulticastStep(t))
    /\ \A t \in Listeners : WF_multicastVars(Instance(t)) /\ WF_multicastVars(Listen(t))

-----------------------------------------------------------------------------
(* Properties *)

Label == {"none", "idle", "socket", "socket2", "join", "notify", "send", "listen", "poll", "receive",
          "take", "close", "forget", "close2", "forget2"}

\* Every variable has its type; a socket in the group is open, and while nobody
\* shuts down the members are the descriptors that stand for the sockets.
MulticastTypeOK ==
    /\ notify_fd \in Fds \cup {-1} /\ listen_fd \in Fds \cup {-1}
    /\ is_shutdown \in BOOLEAN /\ made \in BOOLEAN /\ in_group \in BOOLEAN
    /\ maker \in Threads \cup {None}
    /\ open \in [Fds -> {"free", "notify", "listen", "other"}]
    /\ buffer \in Seq(Infos) /\ Len(buffer) <= BufferSize /\ group \subseteq Infos
    /\ thread_pc \in [Threads -> Label] /\ fd \in [Threads -> Fds \cup {-1}]
    /\ in_group => \E f \in Fds : open[f] = "listen"
    /\ ~is_shutdown => \A f \in Fds : (open[f] = "notify" <=> f = notify_fd) /\ (open[f] = "listen" <=> f = listen_fd)

\* Several threads that shut down, the constructor of a notifier that could not
\* be made among them, close its sockets once: never a descriptor that belongs
\* to somebody else by now.
ClosedWereItsOwn == closed \subseteq {"notify", "listen"}

\* When all calls have ended after a shutdown no socket is left, also where the
\* constructor has failed half way.
NoSocketIsLeft ==
    is_shutdown /\ (\A t \in Threads : thread_pc[t] \in {"none", "idle"}) =>
        \A f \in Fds : open[f] \notin {"notify", "listen"}

\* A call uses a descriptor that has become somebody else's only while another
\* thread shuts down; nothing in Notify and Listen keeps it from that.
ForeignOnlyIfShutDown == foreign # {} => is_shutdown

\* The three together: a notifier closes its sockets once, leaves none open, and
\* has a descriptor of somebody else in hand only after a Shutdown.
ClosesItsOwn == MulticastTypeOK /\ ClosedWereItsOwn /\ NoSocketIsLeft /\ ForeignOnlyIfShutDown

\* What has arrived at the socket is returned by some Listen, however many
\* threads poll and race to receive it, unless somebody shuts down.
ArrivedIsListened ==
    \A i \in Infos : (\E k \in 1 .. Len(buffer) : buffer[k] = i) ~> i \in listened \/ is_shutdown
=============================================================================
