---------------------------- MODULE RtpsTransport ----------------------------
(***************************************************************************)
(* Transport, Participant, RtpsDispatcher and RtpsTransmitter: who makes   *)
(* and removes the participant of Fast DDS, and who uses it meanwhile.     *)
(*                                                                         *)
(* Participant makes the participant of Fast DDS when fastrtps_participant *)
(* is called first.  Enable of a transmitter and AddReader call it twice,  *)
(* to create the endpoint and to register it.  All of them run in any      *)
(* threads while another shuts the transport or the dispatcher down.       *)
(*                                                                         *)
(* Fast DDS is external.  Its participants are numbered as they are made;  *)
(* domain holds those that exist.  An endpoint is the number of its        *)
(* participant, 0 for nullptr.  Fast DDS creates none for a participant    *)
(* that it does not know, and registering through a participant that is    *)
(* null or removed, or using a writer of one, is undefined: the model      *)
(* records it in fault and stops.                                          *)
(*                                                                         *)
(* Endpoints are made and enabled in mode RTPS; ShmTransport has the other.*)
(* What runs under Participant::mutex_ is one step, what runs under        *)
(* readers_mutex_ is not.  A creation that is refused since the transport  *)
(* is shut down changes nothing and is left out.                           *)
(*                                                                         *)
(* pc[t]: "copy", before participant(); "add", "readers": in AddReader;    *)
(* "ask", before shutdown_ is read; "get", before the mutex of Participant;*)
(* "got", with what fastrtps_participant() has returned; "send", "sent":   *)
(* in Transmit; "close", "remove", "reset": in Transport::Shutdown;        *)
(* "clear", "drop": in RtpsDispatcher::Shutdown                            *)
(***************************************************************************)
EXTENDS Integers, FiniteSets

CONSTANTS Threads, Channels, None,
          MaxCalls   \* bound: calls per thread

ASSUME RtpsTransportAssumption ==
    /\ None \notin Threads \cup Channels
    /\ MaxCalls \in Nat

Absent == -1   \* no reader in readers_; no endpoint yet

VARIABLES
    is_shutdown, participant,    \* Transport; has it a Participant?
    shutdown, fastrtps,          \* Participant: shutdown_, fastrtps_participant_
    domain, created,             \* Fast DDS
    disp_shutdown, disp_participant, readers, readers_mutex,   \* RtpsDispatcher
    pc, calls,
    channel,   \* of the receiver that is made, None for a transmitter
    mine,      \* has the transmitter a Participant?
    got, endpoint,
    writer,    \* rtps_writer of the transmitter of a thread, 0 if it is not enabled
    receivers, \* the receivers that are enabled
    fault,     \* history: what has been used that is not there
    failed,    \* history: Fast DDS has failed to create or to register
    late,      \* history: participants made by a call that began before the shutdown
    made,      \* history: readers created for a channel
    down       \* history: has a Shutdown of the transport returned?

transportVars == <<is_shutdown, participant, down>>
participantVars == <<shutdown, fastrtps, domain, created, late>>
dispatcherVars == <<disp_shutdown, disp_participant, readers, readers_mutex, made>>
localVars == <<channel, mine, got, endpoint>>
resultVars == <<writer, receivers, fault, failed>>
vars == <<transportVars, participantVars, dispatcherVars, pc, calls, localVars, resultVars>>

Init ==
    /\ is_shutdown = FALSE /\ participant = TRUE /\ down = FALSE
    /\ shutdown = FALSE /\ fastrtps = 0 /\ domain = {} /\ created = 0 /\ late = {}
    /\ disp_shutdown = FALSE /\ disp_participant = TRUE /\ readers_mutex = None
    /\ readers = [c \in Channels |-> Absent] /\ made = [c \in Channels |-> 0]
    /\ pc = [t \in Threads |-> "idle"] /\ calls = [t \in Threads |-> 0]
    /\ channel = [t \in Threads |-> None] /\ mine = [t \in Threads |-> FALSE]
    /\ got = [t \in Threads |-> 0] /\ endpoint = [t \in Threads |-> Absent]
    /\ writer = [t \in Threads |-> 0] /\ receivers = {}
    /\ fault = "none" /\ failed = FALSE

Goto(t, l) == pc' = [pc EXCEPT ![t] = l]

Begin(t, l) ==
    /\ pc[t] = "idle" /\ calls[t] < MaxCalls
    /\ calls' = [calls EXCEPT ![t] = @ + 1]
    /\ Goto(t, l)

-----------------------------------------------------------------------------
(* CreateTransmitter, CreateReceiver and AddReader *)

CreateTransmitter(t) ==
    /\ ~is_shutdown /\ writer[t] = 0
    /\ Begin(t, "copy")
    /\ UNCHANGED <<transportVars, participantVars, dispatcherVars, localVars, resultVars>>

CopyParticipant(t) ==
    /\ pc[t] = "copy"
    /\ mine' = [mine EXCEPT ![t] = participant]
    /\ Goto(t, "ask")
    /\ UNCHANGED <<transportVars, participantVars, dispatcherVars, calls, channel, got, endpoint, resultVars>>

\* AddListener registers the listener first, as in Listeners.
CreateReceiver(t, c) ==
    /\ ~is_shutdown
    /\ Begin(t, "add")
    /\ channel' = [channel EXCEPT ![t] = c]
    /\ UNCHANGED <<transportVars, participantVars, dispatcherVars, mine, got, endpoint, resultVars>>

\* The receiver is enabled, whatever AddReader has done.
EnableReceiver(t) ==
    /\ receivers' = receivers \cup {<<t, channel[t]>>}
    /\ channel' = [channel EXCEPT ![t] = None]
    /\ Goto(t, "idle")

AddReader(t) ==
    /\ pc[t] = "add"
    /\ IF disp_participant
       THEN Goto(t, "readers") /\ UNCHANGED <<channel, receivers>>
       ELSE EnableReceiver(t)
    /\ UNCHANGED <<transportVars, participantVars, dispatcherVars, calls, mine, got, endpoint, writer, fault, failed>>

FindReader(t) ==
    /\ pc[t] = "readers" /\ readers_mutex = None
    /\ readers[channel[t]] # Absent
    /\ EnableReceiver(t)
    /\ UNCHANGED <<transportVars, participantVars, dispatcherVars, calls, mine, got, endpoint, writer, fault, failed>>

\* Mutant: the entry is made before the reader is.
EnterReaderFirst(t) ==
    /\ pc[t] = "readers" /\ readers_mutex = None
    /\ readers[channel[t]] = Absent
    /\ readers' = [readers EXCEPT ![channel[t]] = 0]
    /\ Goto(t, "ask")
    /\ UNCHANGED <<transportVars, participantVars, disp_shutdown, disp_participant, readers_mutex, made, calls, localVars, resultVars>>

LockReaders(t) ==
    /\ pc[t] = "readers" /\ readers_mutex = None
    /\ readers[channel[t]] = Absent
    /\ readers_mutex' = t
    /\ Goto(t, "ask")
    /\ UNCHANGED <<transportVars, participantVars, disp_shutdown, disp_participant, readers, made, calls, localVars, resultVars>>

-----------------------------------------------------------------------------
(* Participant::fastrtps_participant *)

HasParticipant(t) == IF channel[t] = None THEN mine[t] ELSE disp_participant

Fault(t, f) ==
    /\ fault' = f
    /\ UNCHANGED <<transportVars, participantVars, dispatcherVars, pc, calls, localVars, writer, receivers, failed>>

AskNull(t) ==
    /\ pc[t] = "ask" /\ ~HasParticipant(t)
    /\ Fault(t, "null Participant")

AskAfterShutdown(t) ==
    /\ pc[t] = "ask" /\ HasParticipant(t) /\ shutdown
    /\ got' = [got EXCEPT ![t] = 0]
    /\ Goto(t, "got")
    /\ UNCHANGED <<transportVars, participantVars, dispatcherVars, calls, channel, mine, endpoint, resultVars>>

Ask(t) ==
    /\ pc[t] = "ask" /\ HasParticipant(t) /\ ~shutdown
    /\ Goto(t, "get")
    /\ UNCHANGED <<transportVars, participantVars, dispatcherVars, calls, localVars, resultVars>>

GetExisting(t) ==
    /\ pc[t] = "get" /\ fastrtps # 0
    /\ got' = [got EXCEPT ![t] = fastrtps]
    /\ Goto(t, "got")
    /\ UNCHANGED <<transportVars, participantVars, dispatcherVars, calls, channel, mine, endpoint, resultVars>>

\* Mutant: the call that makes the participant returns what it has read before.
CreateAndReturnOld(t) ==
    /\ pc[t] = "get" /\ fastrtps = 0
    /\ created' = created + 1
    /\ domain' = domain \cup {created'} /\ fastrtps' = created'
    /\ late' = IF shutdown THEN late \cup {created'} ELSE late
    /\ got' = [got EXCEPT ![t] = 0]
    /\ Goto(t, "got")
    /\ UNCHANGED <<transportVars, shutdown, dispatcherVars, calls, channel, mine, endpoint, resultVars>>

CreateFastRtpsParticipant(t) ==
    /\ pc[t] = "get" /\ fastrtps = 0
    /\ created' = created + 1
    /\ domain' = domain \cup {created'} /\ fastrtps' = created'
    /\ late' = IF shutdown THEN late \cup {created'} ELSE late
    /\ got' = [got EXCEPT ![t] = created']
    /\ Goto(t, "got")
    /\ UNCHANGED <<transportVars, shutdown, dispatcherVars, calls, channel, mine, endpoint, resultVars>>

\* HNU_IP is empty, or Fast DDS returns nullptr.
CreateFails(t) ==
    /\ pc[t] = "get" /\ fastrtps = 0
    /\ got' = [got EXCEPT ![t] = 0]
    /\ failed' = TRUE
    /\ Goto(t, "got")
    /\ UNCHANGED <<transportVars, participantVars, dispatcherVars, calls, channel, mine, endpoint, writer, receivers, fault>>

-----------------------------------------------------------------------------
(* Enable and AddReader, with what fastrtps_participant has returned *)

\* createRTPSWriter, createRTPSReader
CreateEndpoint(t) ==
    /\ pc[t] = "got" /\ endpoint[t] = Absent
    /\ endpoint' = [endpoint EXCEPT ![t] = IF got[t] \in domain THEN got[t] ELSE 0]
    /\ made' = IF channel[t] = None THEN made ELSE [made EXCEPT ![channel[t]] = @ + 1]
    /\ Goto(t, "ask")
    /\ UNCHANGED <<transportVars, participantVars, disp_shutdown, disp_participant, readers, readers_mutex, calls, channel, mine, got, resultVars>>

CannotRegister(t) ==
    /\ pc[t] = "got" /\ endpoint[t] # Absent
    /\ \/ got[t] \notin domain /\ Fault(t, IF got[t] = 0 THEN "null participant" ELSE "removed participant")
       \/ got[t] \in domain /\ endpoint[t] = 0 /\ Fault(t, "null endpoint")

CanRegister(t) ==
    /\ pc[t] = "got" /\ endpoint[t] # Absent
    /\ got[t] \in domain /\ endpoint[t] # 0
    /\ endpoint' = [endpoint EXCEPT ![t] = Absent]

\* A writer that could not be registered leaves the transmitter disabled.
RegisterWriter(t) ==
    /\ CanRegister(t)
    /\ channel[t] = None
    /\ \/ writer' = [writer EXCEPT ![t] = endpoint[t]] /\ UNCHANGED failed
       \/ failed' = TRUE /\ UNCHANGED writer
    /\ Goto(t, "idle")
    /\ UNCHANGED <<transportVars, participantVars, dispatcherVars, calls, channel, mine, got, receivers, fault>>

\* The result of register_reader is not looked at.
RegisterReader(t) ==
    /\ CanRegister(t)
    /\ channel[t] # None
    /\ readers' = [readers EXCEPT ![channel[t]] = endpoint[t]]
    /\ readers_mutex' = None
    /\ failed' \in {failed, TRUE}
    /\ EnableReceiver(t)
    /\ UNCHANGED <<transportVars, participantVars, disp_shutdown, disp_participant, made, calls, mine, got, writer, fault>>

-----------------------------------------------------------------------------
(* Transmit, and Disable in the destructor of the transmitter *)

Transmit(t) ==
    /\ writer[t] # 0
    /\ Begin(t, "send")
    /\ UNCHANGED <<transportVars, participantVars, dispatcherVars, localVars, resultVars>>

\* new_change and add_change
AddChange(t) ==
    /\ pc[t] = "send"
    /\ IF writer[t] \in domain
       THEN Goto(t, "sent") /\ UNCHANGED <<transportVars, participantVars, dispatcherVars, calls, localVars, resultVars>>
       ELSE Fault(t, "removed writer")

\* Returns ~shutdown.
EndTransmit(t) ==
    /\ pc[t] = "sent"
    /\ Goto(t, "idle")
    /\ UNCHANGED <<transportVars, participantVars, dispatcherVars, calls, localVars, resultVars>>

Disable(t) ==
    /\ writer[t] # 0
    /\ Begin(t, "idle")
    /\ writer' = [writer EXCEPT ![t] = 0]
    /\ UNCHANGED <<transportVars, participantVars, dispatcherVars, localVars, receivers, fault, failed>>

-----------------------------------------------------------------------------
(* Transport::Shutdown and Participant::Shutdown *)

Shutdown(t) ==
    /\ IF is_shutdown
       THEN Begin(t, "idle") /\ down' = TRUE /\ UNCHANGED is_shutdown
       ELSE Begin(t, "close") /\ is_shutdown' = TRUE /\ UNCHANGED down
    /\ UNCHANGED <<participant, participantVars, dispatcherVars, localVars, resultVars>>

CloseParticipant(t) ==
    /\ pc[t] = "close"
    /\ shutdown' = TRUE
    /\ Goto(t, "remove")
    /\ UNCHANGED <<transportVars, fastrtps, domain, created, late, dispatcherVars, calls, localVars, resultVars>>

RemoveParticipant(t) ==
    /\ pc[t] = "remove"
    /\ domain' = domain \ {fastrtps} /\ fastrtps' = 0
    /\ Goto(t, "reset")
    /\ UNCHANGED <<transportVars, shutdown, created, late, dispatcherVars, calls, localVars, resultVars>>

ResetParticipant(t) ==
    /\ pc[t] = "reset"
    /\ participant' = FALSE /\ down' = TRUE
    /\ Goto(t, "idle")
    /\ UNCHANGED <<is_shutdown, participantVars, dispatcherVars, calls, localVars, resultVars>>

(* RtpsDispatcher::Shutdown *)

ShutdownDispatcher(t) ==
    /\ ~disp_shutdown
    /\ disp_shutdown' = TRUE
    /\ Begin(t, "clear")
    /\ UNCHANGED <<transportVars, participantVars, disp_participant, readers, readers_mutex, made, localVars, resultVars>>

\* The entries stay, with a null reader.
ClearReaders(t) ==
    /\ pc[t] = "clear" /\ readers_mutex = None
    /\ readers' = [c \in Channels |-> IF readers[c] = Absent THEN Absent ELSE 0]
    /\ Goto(t, "drop")
    /\ UNCHANGED <<transportVars, participantVars, disp_shutdown, disp_participant, readers_mutex, made, calls, localVars, resultVars>>

DropParticipant(t) ==
    /\ pc[t] = "drop"
    /\ disp_participant' = FALSE
    /\ Goto(t, "idle")
    /\ UNCHANGED <<transportVars, participantVars, disp_shutdown, readers, readers_mutex, made, calls, localVars, resultVars>>

-----------------------------------------------------------------------------

Step(t) ==
    \/ CopyParticipant(t) \/ AddReader(t) \/ FindReader(t) \/ LockReaders(t)
    \/ AskNull(t) \/ AskAfterShutdown(t) \/ Ask(t)
    \/ GetExisting(t) \/ CreateFastRtpsParticipant(t) \/ CreateFails(t)
    \/ CreateEndpoint(t) \/ CannotRegister(t) \/ RegisterWriter(t) \/ RegisterReader(t)
    \/ AddChange(t) \/ EndTransmit(t)
    \/ CloseParticipant(t) \/ RemoveParticipant(t) \/ ResetParticipant(t)
    \/ ClearReaders(t) \/ DropParticipant(t)

Call(t) ==
    \/ CreateTransmitter(t) \/ \E c \in Channels : CreateReceiver(t, c)
    \/ Transmit(t) \/ Disable(t) \/ Shutdown(t) \/ ShutdownDispatcher(t)

Next == fault = "none" /\ \E t \in Threads : Step(t) \/ Call(t)

Spec == Init /\ [][Next]_vars

-----------------------------------------------------------------------------
(* Properties *)

Label == {"idle", "copy", "add", "readers", "ask", "get", "got", "send", "sent",
          "close", "remove", "reset", "clear", "drop"}

\* Every variable has its type, and readers_mutex_ is held by a thread that makes
\* a reader or by nobody.
TypeOK ==
    /\ is_shutdown \in BOOLEAN /\ participant \in BOOLEAN /\ down \in BOOLEAN
    /\ shutdown \in BOOLEAN /\ created \in Nat /\ fastrtps \in 0 .. created
    /\ domain \subseteq 1 .. created /\ late \subseteq 1 .. created
    /\ disp_shutdown \in BOOLEAN /\ disp_participant \in BOOLEAN
    /\ readers_mutex \in Threads \cup {None}
    /\ readers \in [Channels -> Nat \cup {Absent}] /\ made \in [Channels -> Nat]
    /\ pc \in [Threads -> Label] /\ calls \in [Threads -> Nat]
    /\ channel \in [Threads -> Channels \cup {None}] /\ mine \in [Threads -> BOOLEAN]
    /\ got \in [Threads -> Nat] /\ endpoint \in [Threads -> Nat \cup {Absent}]
    /\ writer \in [Threads -> Nat] /\ receivers \subseteq Threads \X Channels
    /\ failed \in BOOLEAN
    /\ readers_mutex # None =>
          pc[readers_mutex] \in {"ask", "get", "got"} /\ channel[readers_mutex] # None

\* Threads that enable their first endpoints together share one participant of
\* Fast DDS, also across a shutdown: there are never two (fastrtps_participant).
OneParticipant == Cardinality(domain) <= 1

\* What fastrtps_participant returns is used without a test.  It is there
\* unless somebody shuts down or Fast DDS has failed.
NullOnlyOnShutdown == fault # "none" => is_shutdown \/ disp_shutdown \/ failed

\* After Transport::Shutdown, when all calls have ended, a participant of Fast
\* DDS exists only if a call had read shutdown_ before and made it since.
LeftOnlyIfRaced ==
    down /\ (\A t \in Threads : pc[t] = "idle") => domain \subseteq late

\* Receivers of a channel share one reader, however they race in AddReader:
\* none is created twice, since it could not be removed.
OneReaderPerChannel == \A c \in Channels : made[c] <= 1

\* A receiver that is enabled has a reader in a participant that exists, also
\* where another thread has made it, unless somebody shuts down or Fast DDS has
\* failed.
EnabledHasReader ==
    is_shutdown \/ disp_shutdown \/ failed
        \/ \A r \in receivers : readers[r[2]] \in domain

\* Where Transmit is about to return true the writer it has used exists.
SentWasThere ==
    \A t \in Threads : pc[t] = "sent" /\ ~shutdown => writer[t] \in domain
=============================================================================
