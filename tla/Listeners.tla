------------------------------ MODULE Listeners ------------------------------
(***************************************************************************)
(* Who hears a message: the receivers of one channel in one process        *)
(* register and remove their callbacks while the dispatcher thread shm_calls   *)
(* them.                                                                   *)
(*   transport/receiver/shm_receiver.h        Enable, Disable              *)
(*   transport/dispatcher/dispatcher.h        AddListener, RemoveListener  *)
(*   transport/dispatcher/shm_dispatcher.cpp  AddSegment, ThreadFunc,      *)
(*                                            OnMessage, Shutdown          *)
(*   transport/message/listener_handler.h     Connect, Disconnect, Run     *)
(*   transport/common/identity.h              set_data, HashValue          *)
(*   base/signal.h                            slots and connections        *)
(*                                                                         *)
(* A ListenerHandler has one signal for the messages of everybody and one  *)
(* for each sender somebody listens to alone.  It is named here after the  *)
(* receiver whose AddListener made it (each makes at most one).  The map   *)
(* msg_listeners_ owns it through a shared_ptr; Get returns the address of *)
(* that shared_ptr, which a later Set deletes.  A mutex of a signal, and   *)
(* the write side of segments_lock_ and of rw_lock_, is held for one step  *)
(* only; the dispatcher holds the read side of both while callbacks run.   *)
(* The list of the slots of a signal is a set: the order in which they are *)
(* called is left open.                                                    *)
(*                                                                         *)
(* shm_pc[r], the thread of a receiver:                                    *)
(*   "idle"; "look" "copy" "set" "connect" "record" "segment" in Enable;   *)
(*   "find" "deref" "disconnect" in Disable                                *)
(* dpc, the dispatcher thread:                                             *)
(*   "listen" "wait" "lock" "test" "get" "copy" "signal" "calls"           *)
(*   "handler" "mycalls" "unlock"; "ended"                                 *)
(* spc, the thread that shm_calls Shutdown: "idle" "join" "clear" "done"       *)
(* A thread is at "fault" after it has used memory that had been freed.    *)
(***************************************************************************)
EXTENDS Integers, Sequences, FiniteSets

CONSTANTS Receivers,
          Senders,
          Everyone,     \* the signal for the messages of all senders
          NoHash,       \* hash_value_ of an Identity it was not computed for: 0
          Opposites,    \* what a receiver may listen to: Everyone, a sender
          Nobody,       \* no handler
          MaxReceiverCalls,   \* bound: calls of Enable and Disable of each receiver
          MaxMessages   \* bound: messages

ASSUME ListenersAssumption ==
    /\ Nobody \notin Receivers /\ Everyone \notin Senders /\ NoHash \notin Senders \cup {Everyone}
    /\ Opposites \in [Receivers -> SUBSET (Senders \cup {Everyone})]
    /\ MaxReceiverCalls \in [Receivers -> Nat] /\ MaxMessages \in Nat

VARIABLES
    handler,    \* msg_listeners_: the handler of the channel
    slots,      \* the slots of every signal of every handler
    connected,  \* the slots whose connected_ is set
    conns,      \* signal_conns_ and signals_conns_ of every handler
    segment,    \* does segments_ have the channel?
    shm_shutdown,   \* is_shutdown_
    shm_pc, ptr,    \* a receiver's handler_base, then its handler
    opposite,   \* what a receiver has last asked to listen to
    enabled,    \* enabled_ (the opposite variants: kept by their callers)
    shm_calls,      \* how often a receiver has called Enable or Disable
    dpc, dptr,  \* the dispatcher's handler_base, then its handler
    sender,     \* of the message that is dispatched
    local,      \* the copy of the slots that are still to be called
    running,    \* the slot whose callback is running
    spc,
    messages,   \* history: how many messages have arrived
    must,       \* history: receivers that have been enabled throughout
    mustNot,    \* history: receivers that have been disabled throughout
    heard,      \* history: how often each has been called for this message
    raced       \* history: has Set replaced a handler by another?

registryVars == <<handler, slots, connected, conns, segment>>
receiverVars == <<shm_pc, ptr, opposite, enabled, shm_calls>>
dispatchVars == <<dpc, dptr, sender, local, running, messages, heard>>
history == <<must, mustNot, raced>>
listenersVars == <<registryVars, shm_shutdown, receiverVars, dispatchVars, spc, history>>

Signal == Senders \cup {Everyone, NoHash}
Slot(r) == <<r, shm_calls[r]>>
NoSlot == <<Nobody, 0>>

ListenersInit ==
    /\ handler = Nobody
    /\ slots = [h \in Receivers |-> [s \in Signal |-> {}]]
    /\ connected = {}
    /\ conns = [h \in Receivers |-> [r \in Receivers |-> NoSlot]]
    /\ segment = FALSE /\ shm_shutdown = FALSE
    /\ shm_pc = [r \in Receivers |-> "idle"]
    /\ ptr = [r \in Receivers |-> Nobody]
    /\ opposite = [r \in Receivers |-> Everyone]
    /\ enabled = [r \in Receivers |-> FALSE]
    /\ shm_calls = [r \in Receivers |-> 0]
    /\ dpc = "listen" /\ dptr = Nobody /\ sender = Everyone
    /\ local = {} /\ running = NoSlot
    /\ spc = "idle" /\ messages = 0
    /\ must = {} /\ mustNot = {} /\ heard = [r \in Receivers |-> 0]
    /\ raced = FALSE

ReceiverGoto(r, s) == shm_pc' = [shm_pc EXCEPT ![r] = s]

\* The locks that the dispatcher thread holds for reading.
SegmentsLocked == dpc \notin {"listen", "wait", "lock", "ended"}
HandlerLocked(h) == dpc = "mycalls" /\ dptr = h

\* Somebody has a shared_ptr to handler h.
Alive(h) ==
    \/ handler = h
    \/ \E r \in Receivers : shm_pc[r] \in {"connect", "record"} /\ ptr[r] = h
    \/ dpc \in {"signal", "calls", "handler", "mycalls"} /\ dptr = h

-----------------------------------------------------------------------------
(* Enable: AddListener, then AddSegment *)

BeginEnable(r, o) ==
    /\ shm_pc[r] = "idle" /\ ~enabled[r]
    /\ shm_calls[r] < MaxReceiverCalls[r]
    /\ shm_calls' = [shm_calls EXCEPT ![r] = @ + 1]
    /\ opposite' = [opposite EXCEPT ![r] = o]
    /\ mustNot' = mustNot \ {r}
    /\ ReceiverGoto(r, IF shm_shutdown THEN "segment" ELSE "look")
    /\ UNCHANGED <<registryVars, shm_shutdown, ptr, enabled, dispatchVars, spc, must, raced>>

\* msg_listeners_.Get
LookUp(r) ==
    /\ shm_pc[r] = "look"
    /\ ptr' = [ptr EXCEPT ![r] = IF handler = Nobody THEN r ELSE handler]
    /\ ReceiverGoto(r, IF handler = Nobody THEN "set" ELSE "copy")
    /\ UNCHANGED <<registryVars, shm_shutdown, opposite, enabled, shm_calls, dispatchVars, spc,
                   history>>

\* msg_listeners_.Set with a new handler; the shared_ptr that was there before
\* is deleted.
SetHandler(r) ==
    /\ shm_pc[r] = "set"
    /\ handler' = r
    /\ raced' = (raced \/ handler # Nobody)
    /\ ReceiverGoto(r, "connect")
    /\ UNCHANGED <<slots, connected, conns, segment, shm_shutdown, ptr, opposite, enabled,
                   shm_calls, dispatchVars, spc, must, mustNot>>

CopyHandler(r) ==
    /\ shm_pc[r] = "copy"
    /\ ReceiverGoto(r, IF handler = ptr[r] THEN "connect" ELSE "fault")
    /\ UNCHANGED <<registryVars, shm_shutdown, ptr, opposite, enabled, shm_calls, dispatchVars,
                   spc, history>>

\* Signal::Connect
AddSlot(r) ==
    /\ slots' = [slots EXCEPT ![ptr[r]][opposite[r]] = @ \cup {Slot(r)}]
    /\ connected' = connected \cup {Slot(r)}

\* Connect(self_id, listener): the slot is in the signal before the lock is
\* taken to record its connection.
ConnectToAll(r) ==
    /\ shm_pc[r] = "connect" /\ opposite[r] = Everyone
    /\ AddSlot(r)
    /\ ReceiverGoto(r, "record")
    /\ UNCHANGED <<handler, conns, segment, shm_shutdown, ptr, opposite, enabled, shm_calls,
                   dispatchVars, spc, history>>

RecordConnection(r) ==
    /\ shm_pc[r] = "record"
    /\ ~HandlerLocked(ptr[r])
    /\ conns' = [conns EXCEPT ![ptr[r]][r] = Slot(r)]
    /\ ReceiverGoto(r, "segment")
    /\ UNCHANGED <<handler, slots, connected, segment, shm_shutdown, ptr, opposite, enabled,
                   shm_calls, dispatchVars, spc, history>>

\* Connect(self_id, oppo_id, listener): all of it under the lock.
ConnectToOne(r) ==
    /\ shm_pc[r] = "connect" /\ opposite[r] # Everyone
    /\ ~HandlerLocked(ptr[r])
    /\ AddSlot(r)
    /\ conns' = [conns EXCEPT ![ptr[r]][r] = Slot(r)]
    /\ ReceiverGoto(r, "segment")
    /\ UNCHANGED <<handler, segment, shm_shutdown, ptr, opposite, enabled, shm_calls,
                   dispatchVars, spc, history>>

AddSegment(r) ==
    /\ shm_pc[r] = "segment"
    /\ ~SegmentsLocked
    /\ segment' = TRUE
    /\ enabled' = [enabled EXCEPT ![r] = TRUE]
    /\ ReceiverGoto(r, "idle")
    /\ UNCHANGED <<handler, slots, connected, conns, shm_shutdown, ptr, opposite, shm_calls,
                   dispatchVars, spc, history>>

-----------------------------------------------------------------------------
(* Disable: RemoveListener *)

BeginDisable(r) ==
    /\ shm_pc[r] = "idle" /\ enabled[r]
    /\ shm_calls[r] < MaxReceiverCalls[r]
    /\ shm_calls' = [shm_calls EXCEPT ![r] = @ + 1]
    /\ must' = must \ {r}
    /\ IF shm_shutdown THEN enabled' = [enabled EXCEPT ![r] = FALSE] /\ UNCHANGED shm_pc
                   ELSE ReceiverGoto(r, "find") /\ UNCHANGED enabled
    /\ UNCHANGED <<registryVars, shm_shutdown, ptr, opposite, dispatchVars, spc, mustNot,
                   raced>>

FindHandler(r) ==
    /\ shm_pc[r] = "find"
    /\ IF handler = Nobody
       THEN ReceiverGoto(r, "idle") /\ enabled' = [enabled EXCEPT ![r] = FALSE] /\ UNCHANGED ptr
       ELSE ReceiverGoto(r, "deref") /\ ptr' = [ptr EXCEPT ![r] = handler] /\ UNCHANGED enabled
    /\ UNCHANGED <<registryVars, shm_shutdown, opposite, shm_calls, dispatchVars, spc, history>>

\* (*handler_base)-> : no shared_ptr is taken.
Dereference(r) ==
    /\ shm_pc[r] = "deref"
    /\ ReceiverGoto(r, IF handler = ptr[r] THEN "disconnect" ELSE "fault")
    /\ UNCHANGED <<registryVars, shm_shutdown, ptr, opposite, enabled, shm_calls, dispatchVars,
                   spc, history>>

HandlerIsGone(r) ==
    /\ shm_pc[r] = "disconnect"
    /\ ~Alive(ptr[r])
    /\ ReceiverGoto(r, "fault")
    /\ UNCHANGED <<registryVars, shm_shutdown, ptr, opposite, enabled, shm_calls, dispatchVars,
                   spc, history>>

\* Connection::Disconnect and Signal::Disconnect: the slot of the recorded
\* connection, if there is one, is disconnected and taken out of its signal.
RemoveSlot(r) ==
    /\ connected' = connected \ {conns[ptr[r]][r]}
    /\ slots' = [slots EXCEPT ![ptr[r]][opposite[r]] = @ \cap connected']

\* Mutant: the connection is forgotten and its slot left alone.
DisconnectForgets(r) ==
    /\ shm_pc[r] = "disconnect"
    /\ Alive(ptr[r]) /\ ~HandlerLocked(ptr[r])
    /\ conns' = [conns EXCEPT ![ptr[r]][r] = NoSlot]
    /\ enabled' = [enabled EXCEPT ![r] = FALSE]
    /\ ReceiverGoto(r, "idle")
    /\ UNCHANGED <<handler, slots, connected, segment, shm_shutdown, ptr, opposite, shm_calls,
                   dispatchVars, spc, history>>

\* Mutant: the handler leaves the map with the receiver.
DisconnectErases(r) ==
    /\ shm_pc[r] = "disconnect"
    /\ Alive(ptr[r]) /\ ~HandlerLocked(ptr[r])
    /\ RemoveSlot(r)
    /\ conns' = [conns EXCEPT ![ptr[r]][r] = NoSlot]
    /\ enabled' = [enabled EXCEPT ![r] = FALSE]
    /\ handler' = Nobody
    /\ ReceiverGoto(r, "idle")
    /\ UNCHANGED <<segment, shm_shutdown, ptr, opposite, shm_calls, dispatchVars, spc, history>>

Disconnect(r) ==
    /\ shm_pc[r] = "disconnect"
    /\ Alive(ptr[r]) /\ ~HandlerLocked(ptr[r])
    /\ RemoveSlot(r)
    /\ conns' = [conns EXCEPT ![ptr[r]][r] = NoSlot]
    /\ enabled' = [enabled EXCEPT ![r] = FALSE]
    /\ ReceiverGoto(r, "idle")
    /\ UNCHANGED <<handler, segment, shm_shutdown, ptr, opposite, shm_calls, dispatchVars, spc,
                   history>>

-----------------------------------------------------------------------------
(* The dispatcher thread *)

\* while (!is_shutdown_.load())
TestShutdown ==
    /\ dpc = "listen"
    /\ dpc' = IF shm_shutdown THEN "ended" ELSE "wait"
    /\ UNCHANGED <<registryVars, shm_shutdown, receiverVars, dptr, sender, local, running,
                   messages, heard, spc, history>>

ListenTimesOut ==
    /\ dpc = "wait"
    /\ dpc' = "listen"
    /\ UNCHANGED <<registryVars, shm_shutdown, receiverVars, dptr, sender, local, running,
                   messages, heard, spc, history>>

ListenReturns(s) ==
    /\ dpc = "wait"
    /\ messages < MaxMessages
    /\ messages' = messages + 1
    /\ sender' = s
    /\ dpc' = "lock"
    /\ UNCHANGED <<registryVars, shm_shutdown, receiverVars, dptr, local, running, heard, spc,
                   history>>

Wants(r) == opposite[r] \in {Everyone, sender}

\* The read lock on segments_lock_, and ReadMessage: the block is read.
LockSegments ==
    /\ dpc = "lock"
    /\ dpc' = IF segment THEN "test" ELSE "listen"
    /\ heard' = [r \in Receivers |-> 0]
    /\ must' = {r \in Receivers : enabled[r] /\ shm_pc[r] = "idle" /\ Wants(r)}
    /\ mustNot' = {r \in Receivers : ~Wants(r) \/ (~enabled[r] /\ shm_pc[r] = "idle")}
    /\ UNCHANGED <<registryVars, shm_shutdown, receiverVars, dptr, sender, local, running,
                   messages, spc, raced>>

\* OnMessage
TestShutdownAgain ==
    /\ dpc = "test"
    /\ dpc' = IF shm_shutdown THEN "unlock" ELSE "get"
    /\ UNCHANGED <<registryVars, shm_shutdown, receiverVars, dptr, sender, local, running,
                   messages, heard, spc, history>>

GetHandler ==
    /\ dpc = "get"
    /\ dptr' = handler
    /\ dpc' = IF handler = Nobody THEN "unlock" ELSE "copy"
    /\ UNCHANGED <<registryVars, shm_shutdown, receiverVars, sender, local, running, messages,
                   heard, spc, history>>

CastHandler ==
    /\ dpc = "copy"
    /\ dpc' = IF handler = dptr THEN "signal" ELSE "fault"
    /\ UNCHANGED <<registryVars, shm_shutdown, receiverVars, dptr, sender, local, running,
                   messages, heard, spc, history>>

\* msg_info.sender_id().HashValue(): ReadMessage copies the bytes of the id into
\* a new Identity behind its back, so that its hash is never computed.
SenderHash == NoHash

\* Mutant: only the signal of the sender is called.
CopySlotsOfOne ==
    /\ \/ dpc = "signal" /\ dpc' = "mycalls" /\ local' = slots[dptr][SenderHash]
       \/ dpc = "handler" /\ dpc' = "mycalls" /\ local' = slots[dptr][SenderHash]
    /\ UNCHANGED <<registryVars, shm_shutdown, receiverVars, dptr, sender, running, messages,
                   heard, spc, history>>

\* Signal::operator() copies its slots; that of the sender under the read
\* side of rw_lock_, which it keeps while the callbacks run.
CopySlots ==
    /\ \/ dpc = "signal" /\ dpc' = "calls" /\ local' = slots[dptr][Everyone]
       \/ dpc = "handler" /\ dpc' = "mycalls" /\ local' = slots[dptr][SenderHash]
    /\ UNCHANGED <<registryVars, shm_shutdown, receiverVars, dptr, sender, running, messages,
                   heard, spc, history>>

SkipSlot ==
    /\ dpc \in {"calls", "mycalls"} /\ running = NoSlot
    /\ \E slot \in local \ connected : local' = local \ {slot}
    /\ UNCHANGED <<registryVars, shm_shutdown, receiverVars, dpc, dptr, sender, running,
                   messages, heard, spc, history>>

CallSlot ==
    /\ dpc \in {"calls", "mycalls"} /\ running = NoSlot
    /\ \E slot \in local \cap connected :
          /\ running' = slot /\ local' = local \ {slot}
          /\ heard' = [heard EXCEPT ![slot[1]] = @ + 1]
    /\ UNCHANGED <<registryVars, shm_shutdown, receiverVars, dpc, dptr, sender, messages, spc,
                   history>>

CallbackEnds ==
    /\ running # NoSlot
    /\ running' = NoSlot
    /\ UNCHANGED <<registryVars, shm_shutdown, receiverVars, dpc, dptr, sender, local, messages,
                   heard, spc, history>>

Called == IF dpc = "calls" THEN Everyone ELSE SenderHash

ClearDisconnectedSlots ==
    /\ dpc \in {"calls", "mycalls"} /\ local = {} /\ running = NoSlot
    /\ slots' = [slots EXCEPT ![dptr][Called] = @ \cap connected]
    /\ dpc' = IF dpc = "calls" THEN "handler" ELSE "unlock"
    /\ UNCHANGED <<handler, connected, conns, segment, shm_shutdown, receiverVars, dptr,
                   sender, local, running, messages, heard, spc, history>>

UnlockSegments ==
    /\ dpc = "unlock"
    /\ dpc' = "listen"
    /\ UNCHANGED <<registryVars, shm_shutdown, receiverVars, dptr, sender, local, running,
                   messages, heard, spc, history>>

-----------------------------------------------------------------------------
(* ShmDispatcher::Shutdown *)

BeginShutdown ==
    /\ spc = "idle"
    /\ shm_shutdown' = TRUE
    /\ spc' = "join"
    /\ UNCHANGED <<registryVars, receiverVars, dispatchVars, history>>

Join ==
    /\ spc = "join"
    /\ dpc = "ended"
    /\ spc' = "clear"
    /\ UNCHANGED <<registryVars, shm_shutdown, receiverVars, dispatchVars, history>>

ClearSegments ==
    /\ spc = "clear"
    /\ segment' = FALSE
    /\ spc' = "done"
    /\ UNCHANGED <<handler, slots, connected, conns, shm_shutdown, receiverVars, dispatchVars,
                   history>>

-----------------------------------------------------------------------------
ReceiverStep(r) ==
    \/ LookUp(r) \/ SetHandler(r) \/ CopyHandler(r) \/ ConnectToAll(r) \/ RecordConnection(r)
    \/ ConnectToOne(r) \/ AddSegment(r)
    \/ FindHandler(r) \/ Dereference(r) \/ HandlerIsGone(r) \/ Disconnect(r)

DispatchStep ==
    \/ TestShutdown \/ ListenTimesOut \/ (\E s \in Senders : ListenReturns(s))
    \/ LockSegments \/ TestShutdownAgain \/ GetHandler \/ CastHandler \/ CopySlots
    \/ SkipSlot \/ CallSlot \/ CallbackEnds \/ ClearDisconnectedSlots \/ UnlockSegments

ListenersNext ==
    \/ \E r \in Receivers :
        (\E o \in Opposites[r] : BeginEnable(r, o)) \/ BeginDisable(r) \/ ReceiverStep(r)
    \/ DispatchStep
    \/ BeginShutdown \/ Join \/ ClearSegments

ListenersSpec == ListenersInit /\ [][ListenersNext]_listenersVars

\* Threads inside a call go on, the dispatcher thread runs, callbacks end.
ListenersFairSpec ==
    /\ ListenersSpec
    /\ \A r \in Receivers : WF_listenersVars(ReceiverStep(r))
    /\ WF_listenersVars(DispatchStep)
    /\ WF_listenersVars(Join \/ ClearSegments)

-----------------------------------------------------------------------------
(* Properties *)

SlotId == Receivers \X Nat

ListenersTypeOK ==
    /\ handler \in Receivers \cup {Nobody}
    /\ slots \in [Receivers -> [Signal -> SUBSET SlotId]]
    /\ connected \subseteq SlotId
    /\ conns \in [Receivers -> [Receivers -> SlotId \cup {NoSlot}]]
    /\ segment \in BOOLEAN /\ shm_shutdown \in BOOLEAN /\ raced \in BOOLEAN
    /\ shm_pc \in [Receivers -> {"idle", "look", "copy", "set", "connect", "record", "segment",
                                 "find", "deref", "disconnect", "fault"}]
    /\ ptr \in [Receivers -> Receivers \cup {Nobody}] /\ dptr \in Receivers \cup {Nobody}
    /\ opposite \in [Receivers -> Senders \cup {Everyone}] /\ enabled \in [Receivers -> BOOLEAN]
    /\ shm_calls \in [Receivers -> Nat] /\ (\A r \in Receivers : shm_calls[r] <= MaxReceiverCalls[r])
    /\ dpc \in {"listen", "wait", "lock", "test", "get", "copy", "signal", "calls", "handler",
                "mycalls", "unlock", "ended", "fault"}
    /\ sender \in Senders \cup {Everyone}
    /\ local \subseteq SlotId /\ running \in SlotId \cup {NoSlot} /\ heard \in [Receivers -> Nat]
    /\ spc \in {"idle", "join", "clear", "done"} /\ messages \in 0 .. MaxMessages
    /\ must \subseteq Receivers /\ mustNot \subseteq Receivers

\* A receiver of all senders that is enabled from the beginning of a dispatch
\* to its end is called for the message, whoever else comes and goes meanwhile;
\* no receiver is called twice, not even one that is disabled and enabled again.
\* Two things lose a receiver: Shutdown, and two threads that both found no
\* handler for the channel and set one each (raced).
EnabledHears ==
    /\ ListenersTypeOK
    /\ dpc = "unlock" =>
        /\ ~raced /\ ~shm_shutdown => \A r \in must : opposite[r] = Everyone => heard[r] > 0
        /\ \A r \in Receivers : heard[r] <= 1

\* The same of a receiver that listens to the sender of the message alone:
\* Run, its README and the dispatcher test say that it is called.
SenderIsHeard ==
    dpc = "unlock" /\ ~raced /\ ~shm_shutdown =>
        \A r \in must : opposite[r] = sender => heard[r] > 0

\* A receiver whose Disable had returned before the dispatch began is not
\* called, even if handlers were lost or the dispatcher is shut down; neither
\* is one that listens to another sender.
DisabledIsSilent ==
    \A r \in mustNot : heard[r] = 0

\* Every Enable and Disable returns and Shutdown ends: receivers wait for the
\* dispatcher, the dispatcher for callbacks, Shutdown for the dispatcher, and
\* nobody in a circle (as long as callbacks do not call back); and no thread
\* finds the handler it has looked up deleted, although Get returns an address
\* and RemoveListener takes no shared_ptr.  All this unless two threads both
\* found no handler for the channel (raced).
CallsEnd ==
    /\ \A r \in Receivers : shm_pc[r] # "idle" ~> shm_pc[r] = "idle" \/ raced
    /\ spc # "idle" ~> spc = "done" \/ raced
=============================================================================
