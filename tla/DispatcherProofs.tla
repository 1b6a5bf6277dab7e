--------------------------- MODULE DispatcherProofs ---------------------------
(***************************************************************************)
(* Theorems about RtpsTransport, for any threads, channels and number of   *)
(* calls, and about Listeners, for any receivers, senders and calls.       *)
(*                                                                         *)
(* RtpsTransport: the inductive invariant IInv says in which order a       *)
(* shutdown goes, who holds readers_mutex_ and what it knows of readers_,  *)
(* and that while nobody shuts down and Fast DDS has not failed (Calm),    *)
(* every pointer that a thread, a transmitter or the dispatcher has leads  *)
(* somewhere.                                                              *)
(*                                                                         *)
(* Listeners: the inductive invariant ListenersInv says where the slot of  *)
(* a receiver is at each point of AddListener and RemoveListener           *)
(* (PlacedInCall), that a handler which was not set yet knows nobody, that *)
(* every address of a handler is that of the one in the map unless another *)
(* was set over it (OneHandler), and what the dispatch under way has still *)
(* to do for the receivers that must be called and those that must not.    *)
(***************************************************************************)
EXTENDS RtpsTransport, Listeners, FiniteSetTheorems, TLAPS

DomainIsMember == domain = IF fastrtps = 0 THEN {} ELSE {fastrtps}

ShutdownOrder ==
    /\ shutdown \/ down \/ ~participant => is_shutdown
    /\ ~disp_participant => disp_shutdown
    /\ \A t \in Threads :
          /\ pc[t] \in {"close", "remove", "reset"} => is_shutdown
          /\ pc[t] \in {"remove", "reset"} => shutdown
          /\ pc[t] \in {"clear", "drop"} => disp_shutdown

\* Behind a shutdown only late participants are left.
NothingBehind ==
    is_shutdown /\ (\A t \in Threads : pc[t] \notin {"close", "remove"}) =>
        shutdown /\ (fastrtps # 0 => fastrtps \in late)

Asking == {"ask", "get", "got"}

\* A thread that makes the reader of a channel holds the lock, and there is none.
LocksOwn ==
    \A t \in Threads :
        /\ pc[t] \in {"add", "readers"} => channel[t] # None
        /\ channel[t] # None => pc[t] \in {"add", "readers"} \cup Asking
        /\ endpoint[t] # Absent => pc[t] \in Asking
        /\ channel[t] # None /\ pc[t] \in Asking =>
              readers_mutex = t /\ readers[channel[t]] = Absent

\* The reader that was made for a channel is in readers_ or in the hands of the
\* thread that holds the lock.
MadeOnce ==
    \A c \in Channels :
        /\ made[c] \in {0, 1}
        /\ made[c] = 1 /\ readers[c] = Absent =>
              readers_mutex # None /\ channel[readers_mutex] = c /\ endpoint[readers_mutex] # Absent

Calm == ~is_shutdown /\ ~disp_shutdown /\ ~failed

SentIsThere ==
    \A t \in Threads :
        /\ ~is_shutdown => writer[t] \in domain \cup {0} /\ endpoint[t] \in domain \cup {0, Absent}
        /\ pc[t] \in {"send", "sent"} => writer[t] # 0
        /\ pc[t] = "sent" /\ ~shutdown => writer[t] \in domain

CalmIsThere ==
    Calm =>
        /\ fault = "none"
        /\ \A t \in Threads :
              /\ pc[t] \in Asking => HasParticipant(t)
              /\ pc[t] = "got" => got[t] \in domain
              /\ endpoint[t] \in domain \cup {Absent}
        /\ \A c \in Channels : readers[c] \in domain \cup {Absent}
        /\ \A r \in receivers : readers[r[2]] # Absent

IInv == /\ TypeOK /\ DomainIsMember /\ ShutdownOrder /\ NothingBehind /\ LocksOwn
        /\ MadeOnce /\ SentIsThere /\ CalmIsThere

-----------------------------------------------------------------------------

LEMMA InitEstablishes == Init => IInv
  <1> SUFFICES ASSUME Init PROVE IInv
    OBVIOUS
  <1> USE RtpsTransportAssumption DEF Init, Asking
  <1>1. TypeOK
    <2>1. /\ readers \in [Channels -> Nat \cup {Absent}] /\ made \in [Channels -> Nat]
          /\ pc \in [Threads -> Label] /\ calls \in [Threads -> Nat]
          /\ channel \in [Threads -> Channels \cup {None}] /\ mine \in [Threads -> BOOLEAN]
          /\ got \in [Threads -> Nat] /\ endpoint \in [Threads -> Nat \cup {Absent}]
          /\ writer \in [Threads -> Nat]
      BY DEF Label
    <2>2. /\ created \in Nat /\ fastrtps \in 0 .. created
          /\ domain \subseteq 1 .. created /\ late \subseteq 1 .. created
          /\ receivers \subseteq Threads \X Channels
      OBVIOUS
    <2> QED
      BY <2>1, <2>2 DEF TypeOK
  <1>2. DomainIsMember /\ ShutdownOrder /\ NothingBehind
    BY DEF DomainIsMember, ShutdownOrder, NothingBehind
  <1>3. LocksOwn /\ MadeOnce
    BY DEF LocksOwn, MadeOnce, Absent
  <1>4. SentIsThere /\ CalmIsThere
    BY DEF SentIsThere, CalmIsThere, Calm, HasParticipant
  <1> QED
    BY <1>1, <1>2, <1>3, <1>4 DEF IInv

\* What a use of something that is not there changes.
LEMMA FaultyStep ==
    ASSUME NEW t \in Threads,
           AskNull(t) \/ CannotRegister(t) \/ (AddChange(t) /\ writer[t] \notin domain)
    PROVE  UNCHANGED <<transportVars, participantVars, dispatcherVars, pc, calls, localVars,
                       writer, receivers, failed>>
  BY DEF AskNull, CannotRegister, AddChange, Fault

\* An AddChange that is not at fault ends the use of the writer.
LEMMA SoundAddChange ==
    ASSUME NEW t \in Threads, AddChange(t), writer[t] \in domain
    PROVE  /\ pc[t] = "send" /\ pc' = [pc EXCEPT ![t] = "sent"]
           /\ UNCHANGED <<transportVars, participantVars, dispatcherVars, calls, localVars, resultVars>>
  BY DEF AddChange, Goto

\* A step that leaves the flags alone and ends no shutdown.
LEMMA BehindKept ==
    ASSUME NothingBehind, UNCHANGED <<is_shutdown, shutdown, fastrtps, late>>,
           \A u \in Threads : pc[u] \in {"close", "remove"} => pc'[u] \in {"close", "remove"}
    PROVE  NothingBehind'
  BY Zenon DEF NothingBehind

\* Types are kept, and readers_mutex_ stays with the thread that makes a reader.
LEMMA TypeStep == IInv /\ [Next]_vars => TypeOK'
  <1> SUFFICES ASSUME IInv, [Next]_vars PROVE TypeOK'
    OBVIOUS
  <1> USE RtpsTransportAssumption DEF IInv, TypeOK, Label, LocksOwn, Goto, transportVars, participantVars,
          dispatcherVars, localVars, resultVars
  <1>1. CASE UNCHANGED vars
    BY <1>1 DEF vars
  <1> SUFFICES ASSUME fault = "none", NEW t \in Threads, Step(t) \/ Call(t) PROVE TypeOK'
    BY <1>1 DEF Next
  <1>2. CASE CopyParticipant(t)
    BY <1>2 DEF CopyParticipant
  <1>3. CASE AddReader(t)
    BY <1>3 DEF AddReader, EnableReceiver
  <1>4. CASE FindReader(t)
    BY <1>4 DEF FindReader, EnableReceiver
  <1>5. CASE LockReaders(t)
    BY <1>5 DEF LockReaders
  <1>6. CASE AskAfterShutdown(t)
    BY <1>6 DEF AskAfterShutdown
  <1>7. CASE Ask(t)
    BY <1>7 DEF Ask
  <1>8. CASE GetExisting(t)
    BY <1>8 DEF GetExisting
  <1>9. CASE CreateFastRtpsParticipant(t)
    BY <1>9 DEF CreateFastRtpsParticipant
  <1>10. CASE CreateFails(t)
    BY <1>10 DEF CreateFails
  <1>11. CASE CreateEndpoint(t)
    BY <1>11 DEF CreateEndpoint
  <1>12. CASE RegisterWriter(t)
    BY <1>12 DEF RegisterWriter, CanRegister
  <1>13. CASE RegisterReader(t)
    <2>1. /\ readers' \in [Channels -> Nat \cup {Absent}] /\ pc' \in [Threads -> Label]
          /\ channel' \in [Threads -> Channels \cup {None}]
          /\ endpoint' \in [Threads -> Nat \cup {Absent}]
      BY <1>13 DEF RegisterReader, EnableReceiver, CanRegister
    <2>2. receivers' \subseteq Threads \X Channels
      BY <1>13 DEF RegisterReader, EnableReceiver
    <2>3. /\ readers_mutex' = None /\ failed' \in BOOLEAN
          /\ UNCHANGED <<transportVars, participantVars, disp_shutdown, disp_participant, made,
                          calls, mine, got, writer>>
      BY <1>13 DEF RegisterReader
    <2> QED
      BY <2>1, <2>2, <2>3
  <1>14. CASE EndTransmit(t)
    BY <1>14 DEF EndTransmit
  <1>15. CASE CloseParticipant(t)
    BY <1>15 DEF CloseParticipant
  <1>16. CASE RemoveParticipant(t)
    BY <1>16 DEF RemoveParticipant
  <1>17. CASE ResetParticipant(t)
    BY <1>17 DEF ResetParticipant
  <1>18. CASE ClearReaders(t)
    BY <1>18 DEF ClearReaders
  <1>19. CASE DropParticipant(t)
    BY <1>19 DEF DropParticipant
  <1>20. CASE CreateTransmitter(t)
    BY <1>20 DEF CreateTransmitter, Begin
  <1>21. CASE (\E c \in Channels : CreateReceiver(t, c))
    BY <1>21 DEF CreateReceiver, Begin
  <1>22. CASE Transmit(t)
    BY <1>22 DEF Transmit, Begin
  <1>23. CASE Disable(t)
    BY <1>23 DEF Disable, Begin
  <1>24. CASE Shutdown(t)
    <2>0. is_shutdown' \in BOOLEAN /\ down' \in BOOLEAN
      BY <1>24 DEF Shutdown
    <2>1. /\ calls' \in [Threads -> Nat] /\ pc' \in [Threads -> Label]
          /\ pc[t] = "idle" /\ \A u \in Threads : u # t => pc'[u] = pc[u]
      BY <1>24 DEF Shutdown, Begin
    <2>2. UNCHANGED <<participant, participantVars, dispatcherVars, localVars, resultVars>>
      BY <1>24 DEF Shutdown
    <2>3. readers_mutex' # None => readers_mutex' # t /\ readers_mutex' \in Threads
      BY <2>1, <2>2
    <2> QED
      BY <2>0, <2>1, <2>2, <2>3
  <1>25. CASE ShutdownDispatcher(t)
    BY <1>25 DEF ShutdownDispatcher, Begin
  <1>26. CASE AskNull(t) \/ CannotRegister(t) \/ (AddChange(t) /\ writer[t] \notin domain)
    BY <1>26, FaultyStep
  <1>27. CASE AddChange(t) /\ writer[t] \in domain
    <2>1. pc' \in [Threads -> Label] /\ (readers_mutex # None => pc'[readers_mutex] = pc[readers_mutex])
      BY <1>27, SoundAddChange
    <2>2. UNCHANGED <<transportVars, participantVars, dispatcherVars, calls, localVars, resultVars>>
      BY <1>27, SoundAddChange
    <2> QED
      BY <2>1, <2>2
  <1> QED
    BY <1>2, <1>3, <1>4, <1>5, <1>6, <1>7, <1>8, <1>9, <1>10, <1>11, <1>12, <1>13,
       <1>14, <1>15, <1>16, <1>17, <1>18, <1>19, <1>20, <1>21, <1>22, <1>23, <1>24,
       <1>25, <1>26, <1>27 DEF Step, Call

\* The participant that exists is the one Participant points to.
LEMMA DomainStep == IInv /\ [Next]_vars => DomainIsMember'
  <1> SUFFICES ASSUME IInv, [Next]_vars PROVE DomainIsMember'
    OBVIOUS
  <1> USE RtpsTransportAssumption DEF IInv, TypeOK, DomainIsMember, Goto, transportVars, participantVars,
          dispatcherVars, localVars, resultVars
  <1>1. CASE UNCHANGED vars
    BY <1>1 DEF vars
  <1> SUFFICES ASSUME fault = "none", NEW t \in Threads, Step(t) \/ Call(t) PROVE DomainIsMember'
    BY <1>1 DEF Next
  <1>2. CASE CreateFastRtpsParticipant(t)
    BY <1>2 DEF CreateFastRtpsParticipant
  <1>3. CASE RemoveParticipant(t)
    BY <1>3 DEF RemoveParticipant
  <1>4. CASE \/ CopyParticipant(t) \/ AddReader(t) \/ FindReader(t)
           \/ LockReaders(t) \/ AskAfterShutdown(t) \/ Ask(t) \/ GetExisting(t)
           \/ CreateFails(t) \/ CreateEndpoint(t) \/ RegisterWriter(t)
           \/ RegisterReader(t) \/ EndTransmit(t) \/ CloseParticipant(t)
           \/ ResetParticipant(t) \/ ClearReaders(t) \/ DropParticipant(t)
           \/ CreateTransmitter(t) \/ (\E c \in Channels : CreateReceiver(t, c))
           \/ Transmit(t) \/ Disable(t) \/ Shutdown(t) \/ ShutdownDispatcher(t)
    BY <1>4 DEF CopyParticipant, AddReader, EnableReceiver, FindReader, LockReaders,
               AskAfterShutdown, Ask, GetExisting, CreateFails, CreateEndpoint,
               RegisterWriter, CanRegister, RegisterReader, EndTransmit,
               CloseParticipant, ResetParticipant, ClearReaders, DropParticipant,
               CreateTransmitter, Begin, CreateReceiver, Transmit, Disable, Shutdown,
               ShutdownDispatcher
  <1>5. CASE AskNull(t) \/ CannotRegister(t) \/ (AddChange(t) /\ writer[t] \notin domain)
    BY <1>5, FaultyStep
  <1>6. CASE AddChange(t) /\ writer[t] \in domain
    BY <1>6, SoundAddChange
  <1> QED
    BY <1>2, <1>3, <1>4, <1>5, <1>6 DEF Step, Call

\* A shutdown sets its flags in order.
LEMMA OrderStep == IInv /\ [Next]_vars => ShutdownOrder'
  <1> SUFFICES ASSUME IInv, [Next]_vars PROVE ShutdownOrder'
    OBVIOUS
  <1> pc \in [Threads -> Label] /\ fastrtps \in Nat /\ created \in Nat
    BY DEF IInv, TypeOK
  <1> ShutdownOrder /\ NothingBehind /\ DomainIsMember
    BY DEF IInv
  <1> USE RtpsTransportAssumption DEF ShutdownOrder, Goto, transportVars, participantVars, dispatcherVars,
          localVars, resultVars
  <1>1. CASE UNCHANGED vars
    BY <1>1 DEF vars
  <1> SUFFICES ASSUME fault = "none", NEW t \in Threads, Step(t) \/ Call(t) PROVE ShutdownOrder'
    BY <1>1 DEF Next
  <1>2. CASE CopyParticipant(t) \/ AddReader(t) \/ FindReader(t) \/ LockReaders(t)
    BY <1>2 DEF CopyParticipant, AddReader, EnableReceiver, FindReader, LockReaders
  <1>3. CASE CloseParticipant(t) \/ RemoveParticipant(t) \/ ResetParticipant(t)
    BY <1>3 DEF CloseParticipant, RemoveParticipant, ResetParticipant
  <1>4. CASE ClearReaders(t) \/ DropParticipant(t)
    BY <1>4 DEF ClearReaders, DropParticipant
  <1>5. CASE Shutdown(t) \/ ShutdownDispatcher(t)
    BY <1>5 DEF Shutdown, Begin, ShutdownDispatcher
  <1>6. CASE AskAfterShutdown(t) \/ Ask(t) \/ GetExisting(t)
    BY <1>6 DEF AskAfterShutdown, Ask, GetExisting
  <1>7. CASE CreateFastRtpsParticipant(t) \/ CreateFails(t)
    BY <1>7 DEF CreateFastRtpsParticipant, CreateFails
  <1>8. CASE CreateEndpoint(t)
    BY <1>8 DEF CreateEndpoint
  <1>9. CASE RegisterWriter(t)
    BY <1>9 DEF RegisterWriter, CanRegister
  <1>10. CASE RegisterReader(t)
    BY <1>10 DEF RegisterReader, EnableReceiver, CanRegister
  <1>11. CASE \/ EndTransmit(t) \/ CreateTransmitter(t)
           \/ (\E c \in Channels : CreateReceiver(t, c)) \/ Transmit(t)
           \/ Disable(t)
    BY <1>11 DEF EndTransmit, CreateTransmitter, Begin, CreateReceiver, Transmit, Disable
  <1>12. CASE AskNull(t) \/ CannotRegister(t) \/ (AddChange(t) /\ writer[t] \notin domain)
    BY <1>12, FaultyStep
  <1>13. CASE AddChange(t) /\ writer[t] \in domain
    BY <1>13, SoundAddChange
  <1> QED
    BY <1>2, <1>3, <1>4, <1>5, <1>6, <1>7, <1>8, <1>9, <1>10, <1>11, <1>12, <1>13 DEF Step, Call

\* What is made behind a shutdown is late.
LEMMA BehindStep == IInv /\ [Next]_vars => NothingBehind'
  <1> SUFFICES ASSUME IInv, [Next]_vars PROVE NothingBehind'
    OBVIOUS
  <1> pc \in [Threads -> Label] /\ fastrtps \in Nat /\ created \in Nat
    BY DEF IInv, TypeOK
  <1> ShutdownOrder /\ NothingBehind /\ DomainIsMember
    BY DEF IInv
  <1> USE RtpsTransportAssumption DEF ShutdownOrder, NothingBehind, Goto, transportVars, participantVars,
          dispatcherVars, localVars, resultVars
  <1>1. CASE UNCHANGED vars
    BY <1>1 DEF vars
  <1> SUFFICES ASSUME fault = "none", NEW t \in Threads, Step(t) \/ Call(t) PROVE NothingBehind'
    BY <1>1 DEF Next
  <1>2. CASE CreateFastRtpsParticipant(t)
    BY <1>2 DEF CreateFastRtpsParticipant
  <1>3. CASE CloseParticipant(t)
    BY <1>3 DEF CloseParticipant
  <1>4. CASE RemoveParticipant(t)
    BY <1>4 DEF RemoveParticipant
  <1>5. CASE ResetParticipant(t)
    BY <1>5 DEF ResetParticipant
  <1>6. CASE Shutdown(t)
    BY <1>6 DEF Shutdown, Begin
  <1>7. CASE \/ CopyParticipant(t) \/ AddReader(t) \/ FindReader(t)
           \/ LockReaders(t) \/ AskAfterShutdown(t) \/ Ask(t) \/ GetExisting(t)
           \/ CreateFails(t) \/ CreateEndpoint(t) \/ RegisterWriter(t)
           \/ RegisterReader(t) \/ EndTransmit(t) \/ ClearReaders(t)
           \/ DropParticipant(t) \/ CreateTransmitter(t)
           \/ (\E c \in Channels : CreateReceiver(t, c)) \/ Transmit(t)
           \/ Disable(t) \/ ShutdownDispatcher(t)
    <2>1. UNCHANGED <<is_shutdown, shutdown, fastrtps, late>>
      BY <1>7 DEF CopyParticipant, AddReader, EnableReceiver, FindReader, LockReaders,
                 AskAfterShutdown, Ask, GetExisting, CreateFails, CreateEndpoint,
                 RegisterWriter, CanRegister, RegisterReader, EndTransmit, ClearReaders,
                 DropParticipant, CreateTransmitter, Begin, CreateReceiver, Transmit,
                 Disable, ShutdownDispatcher
    <2>2. \A u \in Threads : pc[u] \in {"close", "remove"} => pc'[u] \in {"close", "remove"}
      BY <1>7 DEF CopyParticipant, AddReader, EnableReceiver, FindReader, LockReaders,
                 AskAfterShutdown, Ask, GetExisting, CreateFails, CreateEndpoint,
                 RegisterWriter, CanRegister, RegisterReader, EndTransmit, ClearReaders,
                 DropParticipant, CreateTransmitter, Begin, CreateReceiver, Transmit,
                 Disable, ShutdownDispatcher
    <2> QED
      BY <2>1, <2>2, BehindKept
  <1>8. CASE AskNull(t) \/ CannotRegister(t) \/ (AddChange(t) /\ writer[t] \notin domain)
    BY <1>8, FaultyStep, BehindKept
  <1>9. CASE AddChange(t) /\ writer[t] \in domain
    BY <1>9, SoundAddChange, BehindKept
  <1> QED
    BY <1>2, <1>3, <1>4, <1>5, <1>6, <1>7, <1>8, <1>9 DEF Step, Call

\* readers_mutex_ protects the entry of the channel.
LEMMA LockStep == IInv /\ [Next]_vars => LocksOwn'
  <1> SUFFICES ASSUME IInv, [Next]_vars PROVE LocksOwn'
    OBVIOUS
  <1> USE RtpsTransportAssumption DEF IInv, TypeOK, LocksOwn, Asking, Absent, Goto, transportVars, participantVars,
          dispatcherVars, localVars, resultVars
  <1>1. CASE UNCHANGED vars
    BY <1>1 DEF vars
  <1> SUFFICES ASSUME fault = "none", NEW t \in Threads, Step(t) \/ Call(t) PROVE LocksOwn'
    BY <1>1 DEF Next
  <1>2. CASE CopyParticipant(t) \/ AddReader(t)
    BY <1>2 DEF CopyParticipant, AddReader, EnableReceiver
  <1>3. CASE FindReader(t) \/ LockReaders(t)
    BY <1>3 DEF FindReader, EnableReceiver, LockReaders
  <1>4. CASE CreateEndpoint(t)
    BY <1>4 DEF CreateEndpoint
  <1>5. CASE RegisterWriter(t)
    BY <1>5 DEF RegisterWriter, CanRegister
  <1>6. CASE RegisterReader(t)
    BY <1>6 DEF RegisterReader, EnableReceiver, CanRegister
  <1>7. CASE ClearReaders(t)
    BY <1>7 DEF ClearReaders
  <1>8. CASE CreateTransmitter(t) \/ (\E c \in Channels : CreateReceiver(t, c))
    BY <1>8 DEF CreateTransmitter, Begin, CreateReceiver
  <1>9. CASE \/ AskAfterShutdown(t) \/ Ask(t) \/ GetExisting(t)
           \/ CreateFastRtpsParticipant(t) \/ CreateFails(t) \/ EndTransmit(t)
           \/ CloseParticipant(t) \/ RemoveParticipant(t) \/ ResetParticipant(t)
           \/ DropParticipant(t) \/ Transmit(t) \/ Disable(t) \/ Shutdown(t)
           \/ ShutdownDispatcher(t)
    BY <1>9 DEF AskAfterShutdown, Ask, GetExisting, CreateFastRtpsParticipant,
               CreateFails, EndTransmit, CloseParticipant, RemoveParticipant,
               ResetParticipant, DropParticipant, Transmit, Begin, Disable, Shutdown,
               ShutdownDispatcher
  <1>10. CASE AskNull(t) \/ CannotRegister(t) \/ (AddChange(t) /\ writer[t] \notin domain)
    BY <1>10, FaultyStep
  <1>11. CASE AddChange(t) /\ writer[t] \in domain
    BY <1>11, SoundAddChange
  <1> QED
    BY <1>2, <1>3, <1>4, <1>5, <1>6, <1>7, <1>8, <1>9, <1>10, <1>11 DEF Step, Call

\* A second reader is not created.
LEMMA MadeStep == IInv /\ [Next]_vars => MadeOnce'
  <1> SUFFICES ASSUME IInv, [Next]_vars PROVE MadeOnce'
    OBVIOUS
  <1> USE RtpsTransportAssumption DEF IInv, TypeOK, LocksOwn, MadeOnce, Asking, Absent, Goto, transportVars,
          participantVars, dispatcherVars, localVars, resultVars
  <1>1. CASE UNCHANGED vars
    BY <1>1 DEF vars
  <1> SUFFICES ASSUME fault = "none", NEW t \in Threads, Step(t) \/ Call(t) PROVE MadeOnce'
    BY <1>1 DEF Next
  <1>2. CASE CopyParticipant(t) \/ AddReader(t) \/ FindReader(t)
    BY <1>2 DEF CopyParticipant, AddReader, EnableReceiver, FindReader
  <1>3. CASE LockReaders(t)
    BY <1>3 DEF LockReaders
  <1>4. CASE CreateEndpoint(t)
    BY <1>4 DEF CreateEndpoint
  <1>5. CASE RegisterWriter(t)
    BY <1>5 DEF RegisterWriter, CanRegister
  <1>6. CASE RegisterReader(t)
    BY <1>6 DEF RegisterReader, EnableReceiver, CanRegister
  <1>7. CASE ClearReaders(t)
    BY <1>7 DEF ClearReaders
  <1>8. CASE (\E c \in Channels : CreateReceiver(t, c))
    BY <1>8 DEF CreateReceiver, Begin
  <1>9. CASE \/ AskAfterShutdown(t) \/ Ask(t) \/ GetExisting(t)
           \/ CreateFastRtpsParticipant(t) \/ CreateFails(t) \/ EndTransmit(t)
           \/ CloseParticipant(t) \/ RemoveParticipant(t) \/ ResetParticipant(t)
           \/ DropParticipant(t) \/ CreateTransmitter(t) \/ Transmit(t)
           \/ Disable(t) \/ Shutdown(t) \/ ShutdownDispatcher(t)
    BY <1>9 DEF AskAfterShutdown, Ask, GetExisting, CreateFastRtpsParticipant,
               CreateFails, EndTransmit, CloseParticipant, RemoveParticipant,
               ResetParticipant, DropParticipant, CreateTransmitter, Begin, Transmit,
               Disable, Shutdown, ShutdownDispatcher
  <1>10. CASE AskNull(t) \/ CannotRegister(t) \/ (AddChange(t) /\ writer[t] \notin domain)
    BY <1>10, FaultyStep
  <1>11. CASE AddChange(t) /\ writer[t] \in domain
    BY <1>11, SoundAddChange
  <1> QED
    BY <1>2, <1>3, <1>4, <1>5, <1>6, <1>7, <1>8, <1>9, <1>10, <1>11 DEF Step, Call

\* Writers live until the participant is removed.
LEMMA SentStep == IInv /\ [Next]_vars => SentIsThere'
  <1> SUFFICES ASSUME IInv, [Next]_vars PROVE SentIsThere'
    OBVIOUS
  <1> USE RtpsTransportAssumption DEF IInv, TypeOK, DomainIsMember, ShutdownOrder, SentIsThere, LocksOwn, Asking,
          Absent, Goto, transportVars, participantVars, dispatcherVars, localVars,
          resultVars
  <1>1. CASE UNCHANGED vars
    BY <1>1 DEF vars
  <1> SUFFICES ASSUME fault = "none", NEW t \in Threads, Step(t) \/ Call(t) PROVE SentIsThere'
    BY <1>1 DEF Next
  <1>2. CASE CreateFastRtpsParticipant(t)
    BY <1>2 DEF CreateFastRtpsParticipant
  <1>3. CASE CreateEndpoint(t)
    BY <1>3 DEF CreateEndpoint
  <1>4. CASE RegisterWriter(t)
    BY <1>4 DEF RegisterWriter, CanRegister
  <1>5. CASE RegisterReader(t)
    BY <1>5 DEF RegisterReader, EnableReceiver, CanRegister
  <1>6. CASE CloseParticipant(t) \/ RemoveParticipant(t)
    BY <1>6 DEF CloseParticipant, RemoveParticipant
  <1>7. CASE Transmit(t) \/ Disable(t)
    BY <1>7 DEF Transmit, Begin, Disable
  <1>8. CASE \/ CopyParticipant(t) \/ AddReader(t) \/ FindReader(t)
           \/ LockReaders(t) \/ AskAfterShutdown(t) \/ Ask(t) \/ GetExisting(t)
           \/ CreateFails(t) \/ EndTransmit(t) \/ ResetParticipant(t)
           \/ ClearReaders(t) \/ DropParticipant(t) \/ CreateTransmitter(t)
           \/ (\E c \in Channels : CreateReceiver(t, c)) \/ Shutdown(t)
           \/ ShutdownDispatcher(t)
    BY <1>8 DEF CopyParticipant, AddReader, EnableReceiver, FindReader, LockReaders,
               AskAfterShutdown, Ask, GetExisting, CreateFails, EndTransmit,
               ResetParticipant, ClearReaders, DropParticipant, CreateTransmitter,
               Begin, CreateReceiver, Shutdown, ShutdownDispatcher
  <1>9. CASE AskNull(t) \/ CannotRegister(t) \/ (AddChange(t) /\ writer[t] \notin domain)
    BY <1>9, FaultyStep
  <1>10. CASE AddChange(t) /\ writer[t] \in domain
    BY <1>10, SoundAddChange
  <1> QED
    BY <1>2, <1>3, <1>4, <1>5, <1>6, <1>7, <1>8, <1>9, <1>10 DEF Step, Call

\* Without a shutdown or a failure nothing goes away.
LEMMA CalmStep == IInv /\ [Next]_vars => CalmIsThere'
  <1> SUFFICES ASSUME IInv, [Next]_vars PROVE CalmIsThere'
    OBVIOUS
  <1> USE RtpsTransportAssumption DEF IInv, TypeOK, DomainIsMember, ShutdownOrder, SentIsThere, LocksOwn,
          CalmIsThere, Calm, HasParticipant, Asking, Absent, Goto, transportVars,
          participantVars, dispatcherVars, localVars, resultVars
  <1>1. CASE UNCHANGED vars
    BY <1>1 DEF vars
  <1> SUFFICES ASSUME fault = "none", NEW t \in Threads, Step(t) \/ Call(t) PROVE CalmIsThere'
    BY <1>1 DEF Next
  <1>2. CASE CopyParticipant(t)
    BY <1>2 DEF CopyParticipant
  <1>3. CASE AddReader(t) \/ FindReader(t)
    BY <1>3 DEF AddReader, EnableReceiver, FindReader
  <1>4. CASE LockReaders(t)
    BY <1>4 DEF LockReaders
  <1>5. CASE AskAfterShutdown(t) \/ Ask(t) \/ GetExisting(t)
    BY <1>5 DEF AskAfterShutdown, Ask, GetExisting
  <1>6. CASE CreateFastRtpsParticipant(t) \/ CreateFails(t)
    BY <1>6 DEF CreateFastRtpsParticipant, CreateFails
  <1>7. CASE CreateEndpoint(t)
    BY <1>7 DEF CreateEndpoint
  <1>8. CASE RegisterWriter(t)
    BY <1>8 DEF RegisterWriter, CanRegister
  <1>9. CASE RegisterReader(t)
    <2> SUFFICES ASSUME Calm' PROVE CalmIsThere'
      OBVIOUS
    <2>0. Calm
      <3>1. UNCHANGED <<is_shutdown, disp_shutdown>> /\ failed' \in {failed, TRUE}
        BY <1>9 DEF RegisterReader
      <3>2. ~is_shutdown' /\ ~disp_shutdown' /\ ~failed'
        BY DEF Calm
      <3> QED
        BY <3>1, <3>2, Zenon DEF Calm
    <2>1. /\ UNCHANGED <<domain, fault, mine, got, disp_participant, transportVars>>
          /\ pc' = [pc EXCEPT ![t] = "idle"] /\ channel' = [channel EXCEPT ![t] = None]
          /\ endpoint' = [endpoint EXCEPT ![t] = Absent]
      BY <1>9 DEF RegisterReader, EnableReceiver, CanRegister
    <2>2. endpoint[t] \in domain
      BY <1>9, <2>0 DEF RegisterReader, CanRegister
    <2>3. readers' = [readers EXCEPT ![channel[t]] = endpoint[t]] /\ channel[t] \in Channels
      BY <1>9 DEF RegisterReader
    <2>4. \A c \in Channels : readers'[c] \in domain' \cup {Absent}
      BY <2>0, <2>1, <2>2, <2>3
    <2>5. receivers' = receivers \cup {<<t, channel[t]>>}
      BY <1>9 DEF RegisterReader, EnableReceiver
    <2>6. \A r \in receivers' : readers'[r[2]] # Absent
      BY <2>0, <2>1, <2>2, <2>3, <2>5
    <2>7. \A u \in Threads :
             /\ pc'[u] \in Asking => HasParticipant(u)'
             /\ pc'[u] = "got" => got'[u] \in domain'
             /\ endpoint'[u] \in domain' \cup {Absent}
      BY <2>0, <2>1
    <2> QED
      BY <2>0, <2>1, <2>4, <2>6, <2>7
  <1>10. CASE CloseParticipant(t) \/ RemoveParticipant(t) \/ ResetParticipant(t)
    BY <1>10 DEF CloseParticipant, RemoveParticipant, ResetParticipant
  <1>11. CASE ClearReaders(t) \/ DropParticipant(t)
    BY <1>11 DEF ClearReaders, DropParticipant
  <1>12. CASE \/ CreateTransmitter(t) \/ (\E c \in Channels : CreateReceiver(t, c))
           \/ Transmit(t) \/ Disable(t)
    BY <1>12 DEF CreateTransmitter, Begin, CreateReceiver, Transmit, Disable
  <1>13. CASE Shutdown(t) \/ ShutdownDispatcher(t)
    BY <1>13 DEF Shutdown, Begin, ShutdownDispatcher
  <1>14. CASE EndTransmit(t)
    BY <1>14 DEF EndTransmit
  <1>15. CASE AskNull(t) \/ CannotRegister(t) \/ (AddChange(t) /\ writer[t] \notin domain)
    <2>1. ~Calm
      BY <1>15 DEF AskNull, CannotRegister, AddChange, Fault
    <2> QED
      BY <2>1, <1>15, FaultyStep
  <1>16. CASE AddChange(t) /\ writer[t] \in domain
    BY <1>16, SoundAddChange
  <1> QED
    BY <1>2, <1>3, <1>4, <1>5, <1>6, <1>7, <1>8, <1>9, <1>10, <1>11, <1>12, <1>13,
       <1>14, <1>15, <1>16 DEF Step, Call

-----------------------------------------------------------------------------

LEMMA Invariance == Spec => []IInv
  <1>1. IInv /\ [Next]_vars => IInv'
    BY TypeStep, DomainStep, OrderStep, BehindStep, LockStep, MadeStep, SentStep, CalmStep DEF IInv
  <1> QED
    BY <1>1, InitEstablishes, PTL DEF Spec

\* Every variable of Transport, Participant, RtpsDispatcher and of the threads has
\* its type, and readers_mutex_ is held by a thread that makes a reader.
THEOREM TypeCorrect == Spec => []TypeOK
  BY Invariance, PTL DEF IInv

\* fastrtps_participant, called from any number of threads, before, during and
\* after a shutdown, never makes a second participant of Fast DDS.
THEOREM ParticipantIsUnique == Spec => []OneParticipant
  <1>1. IInv => OneParticipant
    <2> SUFFICES ASSUME IInv PROVE OneParticipant
      OBVIOUS
    <2>1. CASE fastrtps = 0
      <3>1. domain = {}
        BY <2>1 DEF IInv, DomainIsMember
      <3> QED
        BY <3>1, FS_EmptySet DEF OneParticipant
    <2>2. CASE fastrtps # 0
      <3>1. domain = {fastrtps}
        BY <2>2 DEF IInv, DomainIsMember
      <3> QED
        BY <3>1, FS_Singleton DEF OneParticipant
    <2> QED
      BY <2>1, <2>2
  <1> QED
    BY <1>1, Invariance, PTL

\* What is used without a test is there, unless somebody shuts down or Fast DDS
\* has failed.
THEOREM NullMeansShutdown == Spec => []NullOnlyOnShutdown
  <1>1. IInv => NullOnlyOnShutdown
    BY DEF IInv, CalmIsThere, Calm, NullOnlyOnShutdown
  <1> QED
    BY <1>1, Invariance, PTL

\* Transport::Shutdown leaves no participant of Fast DDS, except one that a call
\* has made that had read shutdown_ before.
THEOREM LeftMeansRaced == Spec => []LeftOnlyIfRaced
  <1>1. IInv => LeftOnlyIfRaced
    BY DEF IInv, DomainIsMember, ShutdownOrder, NothingBehind, LeftOnlyIfRaced
  <1> QED
    BY <1>1, Invariance, PTL

\* No channel gets a second reader, however many threads are in AddReader.
THEOREM ReaderIsUnique == Spec => []OneReaderPerChannel
  <1>1. IInv => OneReaderPerChannel
    BY DEF IInv, MadeOnce, OneReaderPerChannel
  <1> QED
    BY <1>1, Invariance, PTL

\* A receiver that is enabled has a reader that exists, with the same exceptions.
THEOREM ReceiverHasReader == Spec => []EnabledHasReader
  <1>1. IInv => EnabledHasReader
    BY DEF IInv, TypeOK, CalmIsThere, Calm, EnabledHasReader
  <1> QED
    BY <1>1, Invariance, PTL

\* A Transmit that returns true has used a writer that existed.
THEOREM WriterWasThere == Spec => []SentWasThere
  <1>1. IInv => SentWasThere
    BY DEF IInv, SentIsThere, SentWasThere
  <1> QED
    BY <1>1, Invariance, PTL

-----------------------------------------------------------------------------
(* Listeners: the invariant *)

\* The slots of a receiver in a signal of a handler.
SlotsOf(r, h, s) == {k \in slots[h][s] : k[1] = r}

\* The handler knows nothing of the receiver.
Clean(r, h) == conns[h][r] = NoSlot /\ \A s \in Signal : SlotsOf(r, h, s) = {}

\* No slot of the receiver but this one, in one signal.
OnlyIn(r, h, o, k) == \A s \in Signal : SlotsOf(r, h, s) \subseteq IF s = o THEN {k} ELSE {}

\* No slot of the receiver but the one that is recorded, in the signal that it
\* has asked for.
Placed(r, h) ==
    /\ OnlyIn(r, h, opposite[r], conns[h][r])
    /\ conns[h][r] = NoSlot => Clean(r, h)

\* The receiver is called if this handler is run.
Hears(r, h, o, k) == k \in connected /\ k \in slots[h][o]

\* Where a receiver has an address of a handler, and where the dispatcher has.
UsesHandler(r) == shm_pc[r] \in {"copy", "connect", "record", "deref", "disconnect"}
DispatcherUses == dpc \in {"copy", "signal", "calls", "handler", "mycalls"}

\* A handler that nobody has set knows nobody; one that somebody uses was set.
FreshKnowsNobody ==
    \A h \in Receivers : handler = Nobody \/ shm_pc[h] = "set" => \A r \in Receivers : Clean(r, h)

UsedWasSet ==
    /\ handler # Nobody => shm_pc[handler] # "set"
    /\ \A r \in Receivers : UsesHandler(r) => handler # Nobody /\ ptr[r] \in Receivers /\ shm_pc[ptr[r]] # "set"
    /\ \A r \in Receivers : shm_pc[r] = "set" => ptr[r] = r
    /\ DispatcherUses => handler # Nobody /\ dptr \in Receivers

\* A connection is one of the receiver it is recorded for, and nobody listens
\* to the signal of senders without a hash.
ConnectionsAreOwn ==
    \A h \in Receivers :
        /\ slots[h][NoHash] = {}
        /\ \A r \in Receivers : conns[h][r] # NoSlot => conns[h][r][1] = r

\* What the handler of the channel and the handler of a receiver's call know of
\* the receiver, from the beginning of a call to its end.
Unknown(r) == handler # Nobody => Clean(r, handler)

PlacedInCall(r) ==
    /\ \/ shm_pc[r] \in {"look", "set", "copy", "connect", "fault"}
       \/ shm_pc[r] = "idle" /\ ~enabled[r] /\ ~shm_shutdown
       => Unknown(r)
    /\ shm_pc[r] \in {"copy", "connect"} => Clean(r, ptr[r])
    /\ \/ shm_pc[r] \in {"segment", "idle"} /\ ~shm_shutdown
       \/ shm_pc[r] = "find"
       => (handler # Nobody => Placed(r, handler))
    /\ shm_pc[r] \in {"deref", "disconnect"} => Placed(r, ptr[r])
    /\ shm_pc[r] = "record" =>
        /\ opposite[r] = Everyone /\ conns[ptr[r]][r] = NoSlot
        /\ OnlyIn(r, ptr[r], Everyone, Slot(r))
    /\ shm_pc[r] \in {"record", "deref", "disconnect"} /\ handler # ptr[r] => Unknown(r)

SlotsArePlaced == \A r \in Receivers : PlacedInCall(r)

\* As long as no handler has replaced another there is one, and the receivers
\* that are enabled are in it.
OneHandler ==
    ~raced =>
        /\ \A r \in Receivers : UsesHandler(r) => ptr[r] = handler
        /\ DispatcherUses => dptr = handler
        /\ dpc # "fault" /\ \A r \in Receivers : shm_pc[r] # "fault"

EnabledIsConnected ==
    ~raced /\ ~shm_shutdown => \A r \in Receivers :
        /\ shm_pc[r] = "segment" \/ (shm_pc[r] = "idle" /\ enabled[r]) =>
            /\ handler # Nobody /\ conns[handler][r] # NoSlot
            /\ Hears(r, handler, opposite[r], conns[handler][r])
        /\ shm_pc[r] = "record" => Hears(r, handler, Everyone, Slot(r))

\* What the dispatch under way has done, and what it is going to do.
CalledOnce ==
    /\ dpc \in {"test", "get", "copy", "signal"} => \A r \in Receivers : heard[r] = 0
    /\ \A r \in Receivers : heard[r] <= 1
    /\ \A k \in local : heard[k[1]] = 0
    /\ \A k, l \in local : k[1] = l[1] => k = l
    /\ dpc # "calls" => local = {}

MustWillHear ==
    \A r \in must :
        /\ enabled[r] /\ shm_pc[r] = "idle"
        /\ ~raced /\ ~shm_shutdown /\ opposite[r] = Everyone =>
            /\ dpc = "calls" => heard[r] > 0 \/ \E k \in local : k[1] = r /\ k \in connected
            /\ dpc \in {"handler", "mycalls", "unlock"} => heard[r] > 0

MustNotIsSilent ==
    \A r \in mustNot :
        /\ opposite[r] # Everyone \/ (shm_pc[r] = "idle" /\ ~enabled[r])
        /\ heard[r] = 0
        /\ (dpc = "test" /\ ~shm_shutdown) \/ dpc = "get" =>
            (handler # Nobody => SlotsOf(r, handler, Everyone) = {})
        /\ dpc \in {"copy", "signal"} => SlotsOf(r, dptr, Everyone) = {}
        /\ \A k \in local : k[1] # r

\* One receiver has at most one slot in a signal.
OneSlotEach ==
    \A h \in Receivers, s \in Signal : \A k, l \in slots[h][s] : k[1] = l[1] => k = l

ListenersInv ==
    /\ ListenersTypeOK /\ FreshKnowsNobody /\ UsedWasSet /\ ConnectionsAreOwn /\ SlotsArePlaced
    /\ OneHandler /\ EnabledIsConnected /\ OneSlotEach /\ CalledOnce /\ MustWillHear /\ MustNotIsSilent

-----------------------------------------------------------------------------
(* Listeners: what a step leaves alone *)

LEMMA NoSlotIsNone == NoSlot \notin SlotId /\ NoSlot[1] = Nobody /\ NoSlot[1] \notin Receivers
  BY ListenersAssumption DEF NoSlot, SlotId

\* The points of the program of a receiver.
ReceiverLabel == {"idle", "look", "copy", "set", "connect", "record", "segment", "find", "deref", "disconnect", "fault"}

LEMMA ListenersInitEstablishes == ListenersInit => ListenersInv
  <1> SUFFICES ASSUME ListenersInit PROVE ListenersInv
    OBVIOUS
  <1> USE ListenersAssumption, NoSlotIsNone DEF ListenersInit
  <1>1. ListenersTypeOK
    <2>1. slots \in [Receivers -> [Signal -> SUBSET SlotId]] /\ conns \in [Receivers -> [Receivers -> SlotId \cup {NoSlot}]]
      OBVIOUS
    <2>2. segment \in BOOLEAN /\ shm_shutdown \in BOOLEAN /\ raced \in BOOLEAN /\ enabled \in [Receivers -> BOOLEAN]
      OBVIOUS
    <2>3. shm_calls \in [Receivers -> Nat] /\ (\A r \in Receivers : shm_calls[r] <= MaxReceiverCalls[r])
      OBVIOUS
    <2>4. shm_pc \in [Receivers -> ReceiverLabel] /\ ptr \in [Receivers -> Receivers \cup {Nobody}] /\ heard \in [Receivers -> Nat]
      BY DEF ReceiverLabel
    <2>5. messages \in 0 .. MaxMessages /\ opposite \in [Receivers -> Senders \cup {Everyone}]
      OBVIOUS
    <2> QED
      BY <2>1, <2>2, <2>3, <2>4, <2>5 DEF ListenersTypeOK, ReceiverLabel
  <1>2. \A r, h \in Receivers : Clean(r, h) /\ \A s \in Signal : slots[h][s] = {} /\ SlotsOf(r, h, s) = {}
    BY DEF Clean, SlotsOf, Signal
  <1>3. FreshKnowsNobody /\ UsedWasSet
    BY <1>2 DEF FreshKnowsNobody, UsedWasSet, UsesHandler, DispatcherUses
  <1>4. ConnectionsAreOwn /\ OneSlotEach
    BY <1>2 DEF ConnectionsAreOwn, OneSlotEach, Signal
  <1>5. SlotsArePlaced
    BY DEF SlotsArePlaced, PlacedInCall, Unknown
  <1>6. OneHandler /\ EnabledIsConnected
    BY DEF OneHandler, EnabledIsConnected, UsesHandler, DispatcherUses
  <1>7. CalledOnce /\ MustWillHear /\ MustNotIsSilent
    BY DEF CalledOnce, MustWillHear, MustNotIsSilent
  <1> QED
    BY <1>1, <1>3, <1>4, <1>5, <1>6, <1>7 DEF ListenersInv

\* A slot that is added has its type.
LEMMA TypeOfAdded ==
    ASSUME ListenersTypeOK, NEW r \in Receivers, AddSlot(r)
    PROVE  slots' \in [Receivers -> [Signal -> SUBSET SlotId]] /\ connected' \subseteq SlotId
  <1>0. Slot(r) \in SlotId
    BY DEF Slot, SlotId, ListenersTypeOK
  <1>1. connected' \subseteq SlotId
    BY <1>0 DEF AddSlot, ListenersTypeOK
  <1>2. slots \in [Receivers -> [Signal -> SUBSET SlotId]]
    BY DEF ListenersTypeOK
  <1>3. slots' \in [Receivers -> [Signal -> SUBSET SlotId]]
    BY <1>0, <1>2 DEF AddSlot
  <1> QED
    BY <1>1, <1>3

\* The types are kept.
LEMMA ListenersTypeStep == ListenersTypeOK /\ UsedWasSet /\ [ListenersNext]_listenersVars => ListenersTypeOK'
  <1> SUFFICES ASSUME ListenersTypeOK, UsedWasSet, [ListenersNext]_listenersVars PROVE ListenersTypeOK'
    OBVIOUS
  <1> USE ListenersAssumption DEF registryVars, receiverVars, dispatchVars, history
  <1>1. ASSUME NEW r \in Receivers, NEW o \in Opposites[r], BeginEnable(r, o) PROVE ListenersTypeOK'
    BY <1>1 DEF BeginEnable, ReceiverGoto, ListenersTypeOK
  <1>2. ASSUME NEW r \in Receivers, BeginDisable(r) PROVE ListenersTypeOK'
    <2>1. CASE shm_shutdown
      <3>1. shm_calls' \in [Receivers -> Nat] /\ (\A q \in Receivers : shm_calls'[q] <= MaxReceiverCalls[q])
        BY <1>2 DEF BeginDisable, ListenersTypeOK
      <3>2. must' \subseteq Receivers /\ enabled' \in [Receivers -> BOOLEAN]
        BY <1>2, <2>1 DEF BeginDisable, ListenersTypeOK
      <3>3. UNCHANGED <<registryVars, shm_shutdown, shm_pc, ptr, opposite, dispatchVars, spc, mustNot, raced>>
        BY <1>2, <2>1 DEF BeginDisable
      <3> QED
        BY <3>1, <3>2, <3>3 DEF ListenersTypeOK
    <2>2. CASE ~shm_shutdown
      <3>1. shm_calls' \in [Receivers -> Nat] /\ (\A q \in Receivers : shm_calls'[q] <= MaxReceiverCalls[q])
        BY <1>2 DEF BeginDisable, ListenersTypeOK
      <3>2. must' \subseteq Receivers /\ shm_pc' \in [Receivers -> ReceiverLabel]
        BY <1>2, <2>2 DEF BeginDisable, ReceiverGoto, ListenersTypeOK, ReceiverLabel
      <3>3. UNCHANGED <<registryVars, shm_shutdown, enabled, ptr, opposite, dispatchVars, spc, mustNot, raced>>
        BY <1>2, <2>2 DEF BeginDisable
      <3> QED
        BY <3>1, <3>2, <3>3 DEF ListenersTypeOK, ReceiverLabel
    <2> QED
      BY <2>1, <2>2
  <1>3. ASSUME NEW r \in Receivers, ReceiverStep(r) PROVE ListenersTypeOK'
    <2>0. Slot(r) \in SlotId
      BY DEF Slot, SlotId, ListenersTypeOK
    <2>1. CASE LookUp(r)
      BY <2>1 DEF LookUp, ReceiverGoto, ListenersTypeOK
    <2>2. CASE SetHandler(r)
      BY <2>2 DEF SetHandler, ReceiverGoto, ListenersTypeOK
    <2>3. CASE CopyHandler(r)
      BY <2>3 DEF CopyHandler, ReceiverGoto, ListenersTypeOK
    <2>4. CASE ConnectToAll(r)
      <3>1. slots' \in [Receivers -> [Signal -> SUBSET SlotId]] /\ connected' \subseteq SlotId
        BY <2>0, <2>4, TypeOfAdded DEF ConnectToAll
      <3> QED
        <4>1. shm_pc' \in [Receivers -> ReceiverLabel]
          BY <2>4 DEF ConnectToAll, ReceiverGoto, ListenersTypeOK, ReceiverLabel
        <4>2. UNCHANGED <<handler, conns, segment, shm_shutdown, ptr, opposite, enabled, shm_calls, dispatchVars, spc, history>>
          BY <2>4 DEF ConnectToAll
        <4> QED
          BY <3>1, <4>1, <4>2 DEF ListenersTypeOK, ReceiverLabel
    <2>5. CASE RecordConnection(r)
      <3>1. conns' \in [Receivers -> [Receivers -> SlotId \cup {NoSlot}]]
        BY <2>0, <2>5 DEF RecordConnection, ListenersTypeOK
      <3> QED
        BY <2>5, <3>1 DEF RecordConnection, ReceiverGoto, ListenersTypeOK
    <2>6. CASE ConnectToOne(r)
      <3>1. slots' \in [Receivers -> [Signal -> SUBSET SlotId]] /\ connected' \subseteq SlotId
        BY <2>0, <2>6, TypeOfAdded DEF ConnectToOne
      <3>2. conns' \in [Receivers -> [Receivers -> SlotId \cup {NoSlot}]]
        BY <2>0, <2>6 DEF ConnectToOne, ListenersTypeOK
      <3> QED
        BY <2>6, <3>1, <3>2 DEF ConnectToOne, ReceiverGoto, ListenersTypeOK
    <2>7. CASE AddSegment(r)
      BY <2>7 DEF AddSegment, ReceiverGoto, ListenersTypeOK
    <2>8. CASE FindHandler(r)
      <3>1. CASE handler = Nobody
        <4>1. shm_pc' = [shm_pc EXCEPT ![r] = "idle"] /\ enabled' = [enabled EXCEPT ![r] = FALSE]
          BY <2>8, <3>1 DEF FindHandler, ReceiverGoto
        <4>2. UNCHANGED <<handler, slots, connected, conns, segment, shm_shutdown, ptr, opposite, shm_calls, dispatchVars, spc, history>>
          BY <2>8, <3>1 DEF FindHandler
        <4> QED
          BY <4>1, <4>2 DEF ListenersTypeOK
      <3>2. CASE handler # Nobody
        <4>1. shm_pc' = [shm_pc EXCEPT ![r] = "deref"] /\ ptr' = [ptr EXCEPT ![r] = handler]
          BY <2>8, <3>2 DEF FindHandler, ReceiverGoto
        <4>2. UNCHANGED <<registryVars, shm_shutdown, opposite, shm_calls, dispatchVars, spc, history, enabled>>
          BY <2>8, <3>2 DEF FindHandler
        <4> QED
          BY <4>1, <4>2 DEF ListenersTypeOK
      <3> QED
        BY <3>1, <3>2
    <2>9. CASE Dereference(r)
      BY <2>9 DEF Dereference, ReceiverGoto, ListenersTypeOK
    <2>10. CASE HandlerIsGone(r)
      BY <2>10 DEF HandlerIsGone, ReceiverGoto, ListenersTypeOK
    <2>11. CASE Disconnect(r)
      <3>1. slots' \in [Receivers -> [Signal -> SUBSET SlotId]] /\ connected' \subseteq SlotId
        BY <2>11 DEF Disconnect, RemoveSlot, ListenersTypeOK
      <3>2. conns' \in [Receivers -> [Receivers -> SlotId \cup {NoSlot}]]
        BY <2>11 DEF Disconnect, ListenersTypeOK
      <3> QED
        BY <2>11, <3>1, <3>2 DEF Disconnect, ReceiverGoto, ListenersTypeOK
    <2> QED
      BY <1>3, <2>1, <2>2, <2>3, <2>4, <2>5, <2>6, <2>7, <2>8, <2>9, <2>10, <2>11 DEF ReceiverStep
  <1>4. CASE DispatchStep
    <2>1. CASE TestShutdown \/ ListenTimesOut \/ TestShutdownAgain \/ CastHandler \/ UnlockSegments
      BY <2>1 DEF TestShutdown, ListenTimesOut, TestShutdownAgain, CastHandler, UnlockSegments, ListenersTypeOK
    <2>2. ASSUME NEW s \in Senders, ListenReturns(s) PROVE ListenersTypeOK'
      BY <2>2 DEF ListenReturns, ListenersTypeOK
    <2>3. CASE LockSegments
      BY <2>3 DEF LockSegments, ListenersTypeOK
    <2>4. CASE GetHandler
      BY <2>4 DEF GetHandler, ListenersTypeOK
    <2>5. CASE CopySlots
      <3>1. dptr \in Receivers /\ Everyone \in Signal /\ NoHash \in Signal
        BY <2>5 DEF CopySlots, UsedWasSet, DispatcherUses, Signal
      <3>2. slots[dptr][Everyone] \subseteq SlotId /\ slots[dptr][NoHash] \subseteq SlotId
        BY <3>1 DEF ListenersTypeOK
      <3> QED
        BY <2>5, <3>2 DEF CopySlots, SenderHash, ListenersTypeOK
    <2>6. CASE SkipSlot \/ CallbackEnds
      BY <2>6 DEF SkipSlot, CallbackEnds, ListenersTypeOK
    <2>7. CASE CallSlot
      <3>1. PICK slot \in local \cap connected : running' = slot /\ local' = local \ {slot} /\ heard' = [heard EXCEPT ![slot[1]] = @ + 1]
        BY <2>7 DEF CallSlot
      <3>2. slot \in SlotId /\ slot[1] \in Receivers
        BY <3>1 DEF ListenersTypeOK, SlotId
      <3>3. heard' \in [Receivers -> Nat] /\ local' \subseteq SlotId /\ running' \in SlotId
        BY <3>1, <3>2 DEF ListenersTypeOK
      <3> QED
        BY <2>7, <3>3 DEF CallSlot, ListenersTypeOK
    <2>8. CASE ClearDisconnectedSlots
      BY <2>8 DEF ClearDisconnectedSlots, Called, SenderHash, ListenersTypeOK, Signal
    <2> QED
      BY <1>4, <2>1, <2>2, <2>3, <2>4, <2>5, <2>6, <2>7, <2>8 DEF DispatchStep
  <1>5. CASE BeginShutdown \/ Join \/ ClearSegments
    BY <1>5 DEF BeginShutdown, Join, ClearSegments, ListenersTypeOK
  <1>6. CASE UNCHANGED listenersVars
    BY <1>6 DEF listenersVars, ListenersTypeOK
  <1> QED
    BY <1>1, <1>2, <1>3, <1>4, <1>5, <1>6 DEF ListenersNext

-----------------------------------------------------------------------------
(* What becomes of slots and connections *)

\* Nothing is learnt of the receiver, and what is heard of it stays connected.
Kept(r) ==
    /\ \A h \in Receivers : conns'[h][r] = conns[h][r]
    /\ \A h \in Receivers, s \in Signal : SlotsOf(r, h, s)' \subseteq SlotsOf(r, h, s)
    /\ \A h \in Receivers, s \in Signal, k \in SlotId : k[1] = r /\ Hears(r, h, s, k) => Hears(r, h, s, k)'

LEMMA AddKeepsOthers ==
    ASSUME ListenersTypeOK, NEW q \in Receivers, AddSlot(q), NEW r \in Receivers, r # q,
           NEW h \in Receivers, NEW s \in Signal
    PROVE  /\ SlotsOf(r, h, s)' = SlotsOf(r, h, s)
           /\ \A k \in SlotId : k[1] = r /\ Hears(r, h, s, k) => Hears(r, h, s, k)'
  <1>1. slots'[h][s] \in {slots[h][s], slots[h][s] \cup {Slot(q)}}
    BY DEF AddSlot, ListenersTypeOK
  <1>2. Slot(q)[1] = q
    BY DEF Slot
  <1>3. connected \subseteq connected'
    BY DEF AddSlot
  <1> QED
    BY <1>1, <1>2, <1>3 DEF SlotsOf, Hears

LEMMA AddAddsOne ==
    ASSUME ListenersTypeOK, NEW q \in Receivers, AddSlot(q), NEW h \in Receivers, NEW s \in Signal,
           ptr[q] \in Receivers
    PROVE  /\ ~(h = ptr[q] /\ s = opposite[q]) => slots'[h][s] = slots[h][s]
           /\ h = ptr[q] /\ s = opposite[q] => slots'[h][s] = slots[h][s] \cup {Slot(q)}
           /\ ~(h = ptr[q] /\ s = opposite[q]) => SlotsOf(q, h, s)' = SlotsOf(q, h, s)
           /\ h = ptr[q] /\ s = opposite[q] => SlotsOf(q, h, s)' = SlotsOf(q, h, s) \cup {Slot(q)}
  <1>1. ~(h = ptr[q] /\ s = opposite[q]) => slots'[h][s] = slots[h][s]
    BY DEF AddSlot, ListenersTypeOK
  <1>2. h = ptr[q] /\ s = opposite[q] => slots'[h][s] = slots[h][s] \cup {Slot(q)}
    BY DEF AddSlot, ListenersTypeOK
  <1>3. Slot(q)[1] = q
    BY DEF Slot
  <1> QED
    BY <1>1, <1>2, <1>3 DEF SlotsOf

LEMMA RemoveOnlyShrinks ==
    ASSUME ListenersTypeOK, NEW q \in Receivers, RemoveSlot(q), NEW h \in Receivers, NEW s \in Signal
    PROVE  /\ slots'[h][s] \subseteq slots[h][s]
           /\ slots[h][s] \cap connected' \subseteq slots'[h][s]
           /\ h = ptr[q] /\ s = opposite[q] => slots'[h][s] = slots[h][s] \cap connected'
           /\ connected' = connected \ {conns[ptr[q]][q]}
  BY DEF RemoveSlot, ListenersTypeOK

LEMMA ClearOnlyShrinks ==
    ASSUME ListenersTypeOK, ClearDisconnectedSlots, NEW h \in Receivers, NEW s \in Signal
    PROVE  /\ slots'[h][s] \subseteq slots[h][s]
           /\ slots[h][s] \cap connected \subseteq slots'[h][s]
           /\ connected' = connected
  BY DEF ClearDisconnectedSlots, ListenersTypeOK

\* What another receiver does to a receiver, the dispatcher and Shutdown: nothing.
Rest(q, r) ==
    /\ Kept(r) /\ shm_pc'[r] = shm_pc[r] /\ ptr'[r] = ptr[r] /\ opposite'[r] = opposite[r]
    /\ enabled'[r] = enabled[r] /\ shm_calls'[r] = shm_calls[r]
    /\ shm_shutdown' = shm_shutdown /\ dispatchVars' = dispatchVars
    /\ must' \ {q} = must \ {q} /\ must' \subseteq must /\ mustNot' \ {q} = mustNot \ {q} /\ mustNot' \subseteq mustNot

\* A step of one receiver keeps what is known of the others.
LEMMA OthersKept ==
    ASSUME ListenersInv, NEW q \in Receivers,
           ReceiverStep(q) \/ BeginDisable(q) \/ (\E o \in Opposites[q] : BeginEnable(q, o)),
           NEW r \in Receivers, r # q
    PROVE  Rest(q, r)
  <1> USE DEF ReceiverGoto, registryVars, history
  <1>0. ListenersTypeOK
    BY DEF ListenersInv
  <1>1. ASSUME slots' = slots, connected' = connected, conns' = conns PROVE Kept(r)
    BY <1>1 DEF Kept, SlotsOf, Hears
  <1>2. ASSUME NEW o \in Opposites[q], BeginEnable(q, o) PROVE Rest(q, r)
    BY <1>0, <1>1, <1>2 DEF BeginEnable, ListenersTypeOK, Rest
  <1>3. CASE BeginDisable(q)
    BY <1>0, <1>1, <1>3 DEF BeginDisable, ListenersTypeOK, Rest
  <1>4. CASE LookUp(q)
    BY <1>0, <1>1, <1>4 DEF LookUp, ListenersTypeOK, Rest
  <1>5. CASE SetHandler(q)
    BY <1>0, <1>1, <1>5 DEF SetHandler, ListenersTypeOK, Rest
  <1>6. CASE CopyHandler(q)
    BY <1>0, <1>1, <1>6 DEF CopyHandler, ListenersTypeOK, Rest
  <1>7. CASE ConnectToAll(q)
    <2>1. AddSlot(q) /\ UNCHANGED conns
      BY <1>7 DEF ConnectToAll
    <2>2. \A h \in Receivers : conns'[h][r] = conns[h][r]
      BY <1>0, <2>1 DEF ListenersTypeOK
    <2>3. Kept(r)
      BY <1>0, <2>1, <2>2, AddKeepsOthers DEF Kept
    <2> QED
      BY <1>0, <1>7, <2>3 DEF ConnectToAll, ListenersTypeOK, Rest
  <1>8. CASE RecordConnection(q)
    <2>1. \A h \in Receivers : conns'[h][r] = conns[h][r]
      BY <1>0, <1>8 DEF RecordConnection, ListenersTypeOK
    <2>2. Kept(r)
      BY <1>8, <2>1 DEF RecordConnection, Kept, SlotsOf, Hears
    <2> QED
      BY <1>0, <1>8, <2>2 DEF RecordConnection, ListenersTypeOK, Rest
  <1>9. CASE ConnectToOne(q)
    <2>1. AddSlot(q) /\ conns' = [conns EXCEPT ![ptr[q]][q] = Slot(q)]
      BY <1>9 DEF ConnectToOne
    <2>2. \A h \in Receivers : conns'[h][r] = conns[h][r]
      BY <1>0, <2>1 DEF ListenersTypeOK
    <2>3. Kept(r)
      BY <1>0, <2>1, <2>2, AddKeepsOthers DEF Kept
    <2> QED
      BY <1>0, <1>9, <2>3 DEF ConnectToOne, ListenersTypeOK, Rest
  <1>10. CASE AddSegment(q)
    BY <1>0, <1>1, <1>10 DEF AddSegment, ListenersTypeOK, Rest
  <1>11. CASE FindHandler(q)
    BY <1>0, <1>1, <1>11 DEF FindHandler, ListenersTypeOK, Rest
  <1>12. CASE Dereference(q)
    BY <1>0, <1>1, <1>12 DEF Dereference, ListenersTypeOK, Rest
  <1>13. CASE HandlerIsGone(q)
    BY <1>0, <1>1, <1>13 DEF HandlerIsGone, ListenersTypeOK, Rest
  <1>14. CASE Disconnect(q)
    <2>1. RemoveSlot(q) /\ conns' = [conns EXCEPT ![ptr[q]][q] = NoSlot]
      BY <1>14 DEF Disconnect
    <2>2. \A h \in Receivers : conns'[h][r] = conns[h][r]
      BY <1>0, <2>1 DEF ListenersTypeOK
    <2>3. conns[ptr[q]][q][1] # r
      BY NoSlotIsNone, <1>14 DEF ListenersInv, ConnectionsAreOwn, UsedWasSet, UsesHandler, Disconnect
    <2>4. Kept(r)
      BY <1>0, <2>1, <2>2, <2>3, RemoveOnlyShrinks DEF Kept, SlotsOf, Hears
    <2> QED
      BY <1>0, <1>14, <2>4 DEF Disconnect, ListenersTypeOK, Rest
  <1> QED
    BY <1>2, <1>3, <1>4, <1>5, <1>6, <1>7, <1>8, <1>9, <1>10, <1>11, <1>12, <1>13, <1>14 DEF ReceiverStep

\* The dispatcher and Shutdown keep what is known of every receiver.
LEMMA AllKept ==
    ASSUME ListenersInv, DispatchStep \/ BeginShutdown \/ Join \/ ClearSegments
    PROVE  /\ \A r \in Receivers : Kept(r)
           /\ receiverVars' = receiverVars /\ handler' = handler /\ conns' = conns /\ connected' = connected
           /\ raced' = raced
           /\ \A h \in Receivers, s \in Signal : slots'[h][s] \subseteq slots[h][s]
  <1> USE DEF registryVars, receiverVars, history
  <1>0. ListenersTypeOK
    BY DEF ListenersInv
  <1>1. ASSUME registryVars' = registryVars \/ (handler' = handler /\ slots' = slots /\ connected' = connected /\ conns' = conns)
        PROVE  /\ \A r \in Receivers : Kept(r)
               /\ handler' = handler /\ conns' = conns /\ connected' = connected
               /\ \A h \in Receivers, s \in Signal : slots'[h][s] \subseteq slots[h][s]
    BY <1>1 DEF Kept, SlotsOf, Hears
  <1>2. CASE ClearDisconnectedSlots
    <2>1. handler' = handler /\ conns' = conns /\ connected' = connected /\ receiverVars' = receiverVars /\ raced' = raced
      BY <1>2 DEF ClearDisconnectedSlots
    <2>2. \A r \in Receivers : Kept(r)
      BY <1>0, <1>2, <2>1, ClearOnlyShrinks DEF Kept, SlotsOf, Hears
    <2> QED
      BY <1>0, <1>2, <2>1, <2>2, ClearOnlyShrinks
  <1>3. CASE TestShutdown \/ ListenTimesOut \/ LockSegments \/ TestShutdownAgain \/ GetHandler \/ CastHandler
             \/ UnlockSegments
    BY <1>1, <1>3 DEF TestShutdown, ListenTimesOut, LockSegments, TestShutdownAgain, GetHandler, CastHandler,
                      UnlockSegments
  <1>4. ASSUME NEW s \in Senders, ListenReturns(s)
        PROVE  UNCHANGED <<registryVars, receiverVars, raced>>
    BY <1>4 DEF ListenReturns
  <1>5. CASE CopySlots \/ SkipSlot \/ CallSlot \/ CallbackEnds
    <2>1. UNCHANGED <<registryVars, receiverVars, raced>>
      BY <1>5 DEF CopySlots, SkipSlot, CallSlot, CallbackEnds
    <2> QED
      BY <1>1, <2>1
  <1>6. CASE BeginShutdown \/ Join \/ ClearSegments
    BY <1>1, <1>6 DEF BeginShutdown, Join, ClearSegments
  <1> QED
    BY <1>1, <1>2, <1>3, <1>4, <1>5, <1>6 DEF DispatchStep

\* The handler of the channel is kept, or replaced by a new one.
LEMMA HandlerStep ==
    ASSUME ListenersInv, NEW q \in Receivers,
           ReceiverStep(q) \/ BeginDisable(q) \/ (\E o \in Opposites[q] : BeginEnable(q, o))
    PROVE  \/ handler' = handler /\ raced' = raced
           \/ /\ SetHandler(q) /\ handler' = q /\ (\A r \in Receivers : Clean(r, q))
              /\ raced' = (raced \/ handler # Nobody)
  <1> USE DEF registryVars, history
  <1>1. CASE SetHandler(q)
    BY <1>1 DEF SetHandler, ListenersInv, FreshKnowsNobody
  <1>2. ASSUME NEW o \in Opposites[q], BeginEnable(q, o) PROVE handler' = handler /\ raced' = raced
    BY <1>2 DEF BeginEnable
  <1>3. CASE BeginDisable(q) \/ LookUp(q) \/ CopyHandler(q) \/ ConnectToAll(q) \/ RecordConnection(q)
    BY <1>3 DEF BeginDisable, LookUp, CopyHandler, ConnectToAll, RecordConnection
  <1>4. CASE ConnectToOne(q) \/ AddSegment(q) \/ FindHandler(q) \/ Dereference(q) \/ HandlerIsGone(q) \/ Disconnect(q)
    BY <1>4 DEF ConnectToOne, AddSegment, FindHandler, Dereference, HandlerIsGone, Disconnect
  <1> QED
    BY <1>1, <1>2, <1>3, <1>4 DEF ReceiverStep

LEMMA CleanKept ==
    ASSUME NEW r \in Receivers, Kept(r), NEW h \in Receivers
    PROVE  /\ Clean(r, h) => Clean(r, h)'
           /\ \A o, k : OnlyIn(r, h, o, k) => \A s \in Signal : SlotsOf(r, h, s)' \subseteq IF s = o THEN {k} ELSE {}
           /\ opposite'[r] = opposite[r] /\ Placed(r, h) => Placed(r, h)'
  <1>1. Clean(r, h) => Clean(r, h)'
    BY DEF Kept, Clean
  <1>2. \A o, k : OnlyIn(r, h, o, k) => \A s \in Signal : SlotsOf(r, h, s)' \subseteq IF s = o THEN {k} ELSE {}
    BY DEF Kept, OnlyIn
  <1>3. opposite'[r] = opposite[r] /\ Placed(r, h) => Placed(r, h)'
    BY <1>1, <1>2 DEF Kept, Placed, OnlyIn
  <1> QED
    BY <1>1, <1>2, <1>3

LEMMA CleanIsPlaced ==
    ASSUME NEW r \in Receivers, NEW h \in Receivers, Clean(r, h)
    PROVE  Placed(r, h)
  BY DEF Clean, Placed, OnlyIn

\* Where a receiver stands stays right while it does nothing.
LEMMA PlacedStays ==
    ASSUME ListenersInv, NEW r \in Receivers, Kept(r), shm_pc'[r] = shm_pc[r], ptr'[r] = ptr[r],
           opposite'[r] = opposite[r], enabled'[r] = enabled[r], shm_calls'[r] = shm_calls[r],
           shm_shutdown => shm_shutdown',
           handler' = handler \/ (handler' \in Receivers /\ Clean(r, handler'))
    PROVE  PlacedInCall(r)'
  <1>0. ListenersTypeOK /\ PlacedInCall(r) /\ UsedWasSet
    BY DEF ListenersInv, SlotsArePlaced
  <1>1. handler' = Nobody \/ handler' \in Receivers
    BY <1>0 DEF ListenersTypeOK
  <1>2. Unknown(r) => Unknown(r)'
    BY <1>0, <1>1, CleanKept DEF Unknown, ListenersTypeOK
  <1>3. ((handler # Nobody /\ Placed(r, handler)) \/ handler' # handler) => (handler' # Nobody => Placed(r, handler)')
    BY <1>0, <1>1, CleanKept, CleanIsPlaced DEF ListenersTypeOK
  <1>4. UsesHandler(r) => ptr[r] \in Receivers
    BY <1>0 DEF UsedWasSet
  <1>5. \/ shm_pc[r] \in {"look", "set", "copy", "connect", "fault"}
        \/ shm_pc[r] = "idle" /\ ~enabled'[r] /\ ~shm_shutdown'
        => Unknown(r)'
    BY <1>0, <1>2 DEF PlacedInCall
  <1>6. shm_pc[r] \in {"copy", "connect"} => Clean(r, ptr[r])'
    BY <1>0, <1>4, CleanKept DEF PlacedInCall, UsesHandler
  <1>7. \/ shm_pc[r] \in {"segment", "idle"} /\ ~shm_shutdown'
        \/ shm_pc[r] = "find"
        => (handler' # Nobody => Placed(r, handler)')
    BY <1>0, <1>3 DEF PlacedInCall
  <1>8. shm_pc[r] \in {"deref", "disconnect"} => Placed(r, ptr[r])'
    BY <1>0, <1>4, CleanKept DEF PlacedInCall, UsesHandler
  <1>9. shm_pc[r] = "record" => conns'[ptr[r]][r] = NoSlot /\ OnlyIn(r, ptr[r], Everyone, Slot(r))'
    <2>1. HAVE shm_pc[r] = "record"
    <2>2. PICK h \in Receivers : h = ptr[r]
      BY <1>4, <2>1 DEF UsesHandler
    <2>3. PICK k : k = Slot(r)
      OBVIOUS
    <2>4. Slot(r)' = k
      BY <2>3 DEF Slot
    <2>5. \A s \in Signal : SlotsOf(r, h, s)' \subseteq IF s = Everyone THEN {k} ELSE {}
      BY <1>0, <2>1, <2>2, <2>3, CleanKept DEF PlacedInCall
    <2>6. conns'[h][r] = NoSlot
      BY <1>0, <2>1, <2>2 DEF PlacedInCall, Kept
    <2> QED
      BY <2>2, <2>4, <2>5, <2>6 DEF OnlyIn
  <1>10. shm_pc[r] \in {"record", "deref", "disconnect"} /\ handler' # ptr[r] => Unknown(r)'
    <2>1. CASE handler' = handler
      BY <1>0, <1>2, <2>1 DEF PlacedInCall
    <2>2. CASE handler' # handler
      BY <1>1, <2>2, CleanKept DEF Unknown
    <2> QED
      BY <2>1, <2>2
  <1> QED
    BY <1>0, <1>5, <1>6, <1>7, <1>8, <1>9, <1>10 DEF PlacedInCall

LEMMA SameRegistry ==
    ASSUME NEW r \in Receivers, UNCHANGED <<slots, connected, conns>>, NEW h \in Receivers
    PROVE  Clean(r, h)' = Clean(r, h) /\ (opposite'[r] = opposite[r] => Placed(r, h)' = Placed(r, h))
  BY DEF Clean, Placed, OnlyIn, SlotsOf

\* A receiver's own step.
LEMMA PlacedMoves ==
    ASSUME ListenersInv, NEW r \in Receivers,
           ReceiverStep(r) \/ BeginDisable(r) \/ (\E o \in Opposites[r] : BeginEnable(r, o))
    PROVE  PlacedInCall(r)'
  <1> USE DEF ReceiverGoto, registryVars, history
  <1>0. ListenersTypeOK /\ PlacedInCall(r) /\ UsedWasSet
    BY DEF ListenersInv, SlotsArePlaced
  <1>a. handler = Nobody \/ handler \in Receivers
    BY <1>0 DEF ListenersTypeOK
  <1>b. UsesHandler(r) => ptr[r] \in Receivers
    BY <1>0 DEF UsedWasSet
  <1>c. ASSUME UNCHANGED <<handler, slots, connected, conns>> PROVE Unknown(r)' = Unknown(r)
    BY <1>a, <1>c, SameRegistry DEF Unknown
  <1>d. ASSUME UNCHANGED <<handler, slots, connected, conns>>, opposite'[r] = opposite[r]
        PROVE  (handler # Nobody => Placed(r, handler)') <=> (handler # Nobody => Placed(r, handler))
    BY <1>a, <1>d, SameRegistry
  <1>1. ASSUME NEW o \in Opposites[r], BeginEnable(r, o) PROVE PlacedInCall(r)'
    <2>1. shm_pc'[r] = IF shm_shutdown THEN "segment" ELSE "look"
      BY <1>0, <1>1 DEF BeginEnable, ListenersTypeOK
    <2>2. UNCHANGED <<handler, slots, connected, conns, shm_shutdown>> /\ shm_pc[r] = "idle" /\ ~enabled[r]
      BY <1>1 DEF BeginEnable
    <2>3. ~shm_shutdown => Unknown(r)'
      BY <1>0, <1>c, <2>2 DEF PlacedInCall
    <2> QED
      BY <2>1, <2>2, <2>3 DEF PlacedInCall
  <1>2. CASE BeginDisable(r)
    <2>1. shm_pc'[r] = IF shm_shutdown THEN "idle" ELSE "find"
      BY <1>0, <1>2 DEF BeginDisable, ListenersTypeOK
    <2>2. UNCHANGED <<handler, slots, connected, conns, shm_shutdown, opposite>> /\ shm_pc[r] = "idle"
      BY <1>2 DEF BeginDisable
    <2>3. ~shm_shutdown => (handler # Nobody => Placed(r, handler)')
      BY <1>0, <1>d, <2>2 DEF PlacedInCall
    <2> QED
      BY <2>1, <2>2, <2>3 DEF PlacedInCall
  <1>3. CASE LookUp(r)
    <2>1. /\ shm_pc'[r] = IF handler = Nobody THEN "set" ELSE "copy"
          /\ handler # Nobody => ptr'[r] = handler
      BY <1>0, <1>3 DEF LookUp, ListenersTypeOK
    <2>2. UNCHANGED <<handler, slots, connected, conns, shm_shutdown, opposite>> /\ shm_pc[r] = "look"
      BY <1>3 DEF LookUp
    <2>3. Unknown(r)' /\ Unknown(r)
      BY <1>0, <1>c, <2>2 DEF PlacedInCall
    <2>4. handler # Nobody => Clean(r, ptr[r])'
      BY <1>a, <2>1, <2>2, <2>3, SameRegistry DEF Unknown
    <2> QED
      BY <2>1, <2>3, <2>4 DEF PlacedInCall
  <1>4. CASE SetHandler(r)
    <2>1. shm_pc'[r] = "connect" /\ handler' = r /\ ptr'[r] = r
      BY <1>0, <1>4 DEF SetHandler, ListenersTypeOK, UsedWasSet
    <2>2. UNCHANGED <<slots, connected, conns>> /\ shm_pc[r] = "set"
      BY <1>4 DEF SetHandler
    <2>3. Clean(r, r)'
      BY <2>2, SameRegistry DEF ListenersInv, FreshKnowsNobody
    <2>4. Unknown(r)' /\ Clean(r, ptr[r])'
      BY <2>1, <2>3 DEF Unknown
    <2> QED
      BY <2>1, <2>4 DEF PlacedInCall
  <1>5. CASE CopyHandler(r)
    <2>1. shm_pc'[r] \in {"connect", "fault"} /\ shm_pc[r] = "copy"
      BY <1>0, <1>5 DEF CopyHandler, ListenersTypeOK
    <2>2. UNCHANGED <<handler, slots, connected, conns, ptr>>
      BY <1>5 DEF CopyHandler
    <2>3. Unknown(r)' /\ Clean(r, ptr[r])'
      BY <1>0, <1>b, <1>c, <2>1, <2>2, SameRegistry DEF PlacedInCall, UsesHandler
    <2> QED
      BY <2>1, <2>3 DEF PlacedInCall
  <1>e. ASSUME shm_pc[r] = "connect", AddSlot(r), UNCHANGED <<ptr, opposite, shm_calls>>, NEW h, h = ptr[r]
        PROVE  /\ h \in Receivers /\ Clean(r, h) /\ OnlyIn(r, h, opposite[r], Slot(r))'
               /\ \A g \in Receivers : g # h /\ conns'[g][r] = conns[g][r] /\ Clean(r, g) => Clean(r, g)'
    <2>1. h \in Receivers /\ Clean(r, h)
      BY <1>0, <1>b, <1>e DEF UsesHandler, PlacedInCall
    <2>2. ASSUME NEW g \in Receivers, g # h, conns'[g][r] = conns[g][r], Clean(r, g) PROVE Clean(r, g)'
      BY <1>0, <1>e, <2>1, <2>2, AddAddsOne DEF Clean
    <2>3. ASSUME NEW s \in Signal PROVE SlotsOf(r, h, s)' \subseteq IF s = opposite[r] THEN {Slot(r)} ELSE {}
      BY <1>0, <1>e, <2>1, AddAddsOne DEF Clean
    <2>4. PICK k, o : k = Slot(r) /\ o = opposite[r]
      OBVIOUS
    <2>5. Slot(r)' = k /\ opposite'[r] = o
      BY <1>e, <2>4 DEF Slot
    <2>6. OnlyIn(r, h, o, k)'
      BY <2>3, <2>4 DEF OnlyIn
    <2> QED
      BY <2>1, <2>2, <2>5, <2>6
  <1>6. CASE ConnectToAll(r)
    <2>1. shm_pc'[r] = "record" /\ shm_pc[r] = "connect" /\ opposite[r] = Everyone
      BY <1>0, <1>6 DEF ConnectToAll, ListenersTypeOK
    <2>2. AddSlot(r) /\ UNCHANGED <<handler, conns, ptr, opposite, shm_calls>>
      BY <1>6 DEF ConnectToAll
    <2>3. PICK h : h = ptr[r]
      OBVIOUS
    <2>4. h \in Receivers /\ Clean(r, h) /\ OnlyIn(r, h, opposite[r], Slot(r))'
      BY <1>e, <2>1, <2>2, <2>3
    <2>5. OnlyIn(r, ptr[r], Everyone, Slot(r))'
      BY <2>1, <2>2, <2>3, <2>4
    <2>6. conns'[h][r] = NoSlot
      BY <2>2, <2>4 DEF Clean
    <2>7. handler # h => Unknown(r)'
      BY <1>0, <1>a, <1>e, <2>1, <2>2, <2>3 DEF Unknown, PlacedInCall
    <2> QED
      BY <2>1, <2>2, <2>3, <2>5, <2>6, <2>7 DEF PlacedInCall
  <1>f. ASSUME NEW h \in Receivers, conns' = [conns EXCEPT ![h][r] = Slot(r)], handler' = handler,
               OnlyIn(r, h, opposite[r], Slot(r))', UNCHANGED <<opposite, shm_calls>>,
               handler # h => Unknown(r)', shm_pc'[r] = "segment"
        PROVE  PlacedInCall(r)'
    <2>1. PICK k : k = Slot(r)
      OBVIOUS
    <2>2. Slot(r)' = k /\ k # NoSlot
      BY <1>0, <1>f, <2>1, NoSlotIsNone DEF Slot, SlotId, ListenersTypeOK
    <2>3. conns'[h][r] = k
      BY <1>0, <1>f, <2>1 DEF ListenersTypeOK
    <2>4. Placed(r, h)'
      BY <1>f, <2>2, <2>3 DEF Placed
    <2>5. handler # Nobody /\ handler # h => Placed(r, handler)'
      <3>1. PICK g : g = handler
        OBVIOUS
      <3>2. g # Nobody /\ g # h => Clean(r, g)' /\ g \in Receivers
        BY <1>a, <1>f, <3>1 DEF Unknown
      <3>3. g # Nobody /\ g # h => Placed(r, g)'
        BY <3>2 DEF Clean, Placed, OnlyIn
      <3> QED
        BY <1>f, <3>1, <3>3
    <2>6. handler' # Nobody => Placed(r, handler)'
      BY <1>f, <2>4, <2>5
    <2> QED
      BY <1>f, <2>6 DEF PlacedInCall
  <1>7. CASE RecordConnection(r)
    <2>1. shm_pc'[r] = "segment" /\ shm_pc[r] = "record"
      BY <1>0, <1>7 DEF RecordConnection, ListenersTypeOK
    <2>2. conns' = [conns EXCEPT ![ptr[r]][r] = Slot(r)] /\ UNCHANGED <<handler, slots, connected, ptr, opposite, shm_calls>>
      BY <1>7 DEF RecordConnection
    <2>3. PICK h \in Receivers : h = ptr[r]
      BY <1>b, <2>1 DEF UsesHandler
    <2>4. PICK k, o : k = Slot(r) /\ o = opposite[r]
      OBVIOUS
    <2>5. Slot(r)' = k /\ opposite'[r] = o
      BY <2>2, <2>4 DEF Slot
    <2>6. OnlyIn(r, h, o, k)
      BY <1>0, <2>1, <2>3, <2>4 DEF PlacedInCall
    <2>7. OnlyIn(r, h, o, k)'
      BY <2>2, <2>6 DEF OnlyIn, SlotsOf
    <2>8. handler # h => Unknown(r)'
      <3>1. \A g \in Receivers : g # h => conns'[g][r] = conns[g][r]
        BY <1>0, <2>2, <2>3 DEF ListenersTypeOK
      <3>2. \A g \in Receivers : g # h /\ Clean(r, g) => Clean(r, g)'
        BY <2>2, <3>1 DEF Clean, SlotsOf
      <3> QED
        BY <1>0, <1>a, <2>1, <2>2, <2>3, <3>2 DEF Unknown, PlacedInCall
    <2>9. OnlyIn(r, h, opposite[r], Slot(r))'
      BY <2>5, <2>7
    <2> QED
      BY <1>f, <2>1, <2>2, <2>3, <2>8, <2>9
  <1>8. CASE ConnectToOne(r)
    <2>1. shm_pc'[r] = "segment" /\ shm_pc[r] = "connect"
      BY <1>0, <1>8 DEF ConnectToOne, ListenersTypeOK
    <2>2. AddSlot(r) /\ conns' = [conns EXCEPT ![ptr[r]][r] = Slot(r)] /\ UNCHANGED <<handler, ptr, opposite, shm_calls>>
      BY <1>8 DEF ConnectToOne
    <2>3. PICK h : h = ptr[r]
      OBVIOUS
    <2>4. h \in Receivers /\ OnlyIn(r, h, opposite[r], Slot(r))'
      BY <1>e, <2>1, <2>2, <2>3
    <2>5. handler # h => Unknown(r)'
      <3>1. \A g \in Receivers : g # h => conns'[g][r] = conns[g][r]
        BY <1>0, <2>2, <2>3, <2>4 DEF ListenersTypeOK
      <3>2. \A g \in Receivers : g # h /\ Clean(r, g) => Clean(r, g)'
        BY <1>e, <2>1, <2>2, <2>3, <3>1
      <3> QED
        BY <1>0, <1>a, <2>1, <2>2, <2>3, <3>2 DEF Unknown, PlacedInCall
    <2> QED
      BY <1>f, <2>1, <2>2, <2>3, <2>4, <2>5
  <1>9. CASE AddSegment(r)
    <2>1. shm_pc'[r] = "idle" /\ enabled'[r] /\ shm_pc[r] = "segment"
      BY <1>0, <1>9 DEF AddSegment, ListenersTypeOK
    <2>2. UNCHANGED <<handler, slots, connected, conns, shm_shutdown, opposite>>
      BY <1>9 DEF AddSegment
    <2>3. ~shm_shutdown => (handler # Nobody => Placed(r, handler)')
      BY <1>0, <1>d, <2>1, <2>2 DEF PlacedInCall
    <2> QED
      BY <2>1, <2>2, <2>3 DEF PlacedInCall
  <1>10. CASE FindHandler(r)
    <2>1. /\ shm_pc'[r] = IF handler = Nobody THEN "idle" ELSE "deref"
          /\ handler # Nobody => ptr'[r] = handler
      BY <1>0, <1>10 DEF FindHandler, ListenersTypeOK
    <2>2. UNCHANGED <<handler, slots, connected, conns, shm_shutdown, opposite>> /\ shm_pc[r] = "find"
      BY <1>10 DEF FindHandler
    <2>3. handler # Nobody => Placed(r, handler)'
      BY <1>0, <1>d, <2>2 DEF PlacedInCall
    <2>4. handler # Nobody => Placed(r, ptr[r])'
      BY <2>1, <2>2, <2>3
    <2> QED
      BY <2>1, <2>2, <2>3, <2>4 DEF PlacedInCall, Unknown
  <1>11. CASE Dereference(r)
    <2>1. shm_pc'[r] = (IF handler = ptr[r] THEN "disconnect" ELSE "fault") /\ shm_pc[r] = "deref"
      BY <1>0, <1>11 DEF Dereference, ListenersTypeOK
    <2>2. UNCHANGED <<handler, slots, connected, conns, shm_shutdown, opposite, ptr>>
      BY <1>11 DEF Dereference
    <2>3. Placed(r, ptr[r])' /\ (handler # ptr[r] => Unknown(r)')
      BY <1>0, <1>b, <1>c, <2>1, <2>2, SameRegistry DEF PlacedInCall, UsesHandler
    <2> QED
      BY <2>1, <2>2, <2>3 DEF PlacedInCall
  <1>12. CASE HandlerIsGone(r)
    <2>1. shm_pc'[r] = "fault" /\ shm_pc[r] = "disconnect" /\ handler # ptr[r]
      BY <1>0, <1>12 DEF HandlerIsGone, ListenersTypeOK, Alive
    <2>2. UNCHANGED <<handler, slots, connected, conns>>
      BY <1>12 DEF HandlerIsGone
    <2>3. Unknown(r)'
      BY <1>0, <1>c, <2>1, <2>2 DEF PlacedInCall
    <2> QED
      BY <2>1, <2>3 DEF PlacedInCall
  <1>13. CASE Disconnect(r)
    <2>1. shm_pc'[r] = "idle" /\ ~enabled'[r] /\ shm_pc[r] = "disconnect"
      BY <1>0, <1>13 DEF Disconnect, ListenersTypeOK
    <2>2. RemoveSlot(r) /\ conns' = [conns EXCEPT ![ptr[r]][r] = NoSlot] /\ UNCHANGED <<handler, ptr, opposite>>
      BY <1>13 DEF Disconnect
    <2>3. PICK h \in Receivers : h = ptr[r]
      BY <1>b, <2>1 DEF UsesHandler
    <2>4. Placed(r, h)
      BY <1>0, <2>1, <2>3 DEF PlacedInCall
    <2>5. \A g \in Receivers : conns'[g][r] = IF g = h THEN NoSlot ELSE conns[g][r]
      BY <1>0, <2>2, <2>3 DEF ListenersTypeOK
    <2>6. ASSUME NEW s \in Signal PROVE SlotsOf(r, h, s)' = {}
      BY <1>0, <2>2, <2>3, <2>4, <2>6, RemoveOnlyShrinks DEF Placed, OnlyIn, SlotsOf
    <2>7. Clean(r, h)'
      BY <2>5, <2>6 DEF Clean
    <2>8. \A g \in Receivers : g # h /\ Clean(r, g) => Clean(r, g)'
      BY <1>0, <2>2, <2>5, RemoveOnlyShrinks DEF Clean, SlotsOf
    <2>9. Unknown(r)'
      BY <1>0, <1>a, <2>1, <2>2, <2>3, <2>7, <2>8 DEF Unknown, PlacedInCall
    <2>10. handler' # Nobody => Placed(r, handler)'
      <3>1. PICK g : g = handler
        OBVIOUS
      <3>2. g # Nobody => Clean(r, g)' /\ g \in Receivers
        BY <1>a, <2>2, <2>9, <3>1 DEF Unknown
      <3>3. g # Nobody => Placed(r, g)'
        BY <3>2 DEF Clean, Placed, OnlyIn
      <3> QED
        BY <2>2, <3>1, <3>3
    <2> QED
      BY <2>1, <2>9, <2>10 DEF PlacedInCall
  <1> QED
    BY <1>1, <1>2, <1>3, <1>4, <1>5, <1>6, <1>7, <1>8, <1>9, <1>10, <1>11, <1>12, <1>13 DEF ReceiverStep

\* The steps of ListenersNext: of a receiver, or of the dispatcher and Shutdown.
Moves(q) == ReceiverStep(q) \/ BeginDisable(q) \/ (\E o \in Opposites[q] : BeginEnable(q, o))
ElseMoves == DispatchStep \/ BeginShutdown \/ Join \/ ClearSegments

LEMMA EveryStep ==
    ListenersNext => ElseMoves \/ \E q \in Receivers : Moves(q)
  BY DEF ListenersNext, ElseMoves, Moves

LEMMA PlacedStep ==
    ListenersInv /\ [ListenersNext]_listenersVars => SlotsArePlaced'
  <1> SUFFICES ASSUME ListenersInv, [ListenersNext]_listenersVars, NEW r \in Receivers PROVE PlacedInCall(r)'
    BY DEF SlotsArePlaced
  <1>0. handler = Nobody \/ handler \in Receivers
    BY DEF ListenersInv, ListenersTypeOK
  <1>1. ASSUME NEW q \in Receivers, Moves(q) PROVE PlacedInCall(r)'
    <2>1. CASE q = r
      BY <1>1, <2>1, PlacedMoves DEF Moves
    <2>2. CASE q # r
      <3>1. Rest(q, r)
        BY <1>1, <2>2, OthersKept DEF Moves
      <3>2. handler' = handler \/ (handler' \in Receivers /\ Clean(r, handler'))
        BY <1>1, HandlerStep DEF Moves
      <3> QED
        BY <3>1, <3>2, PlacedStays DEF Rest
    <2> QED
      BY <2>1, <2>2
  <1>2. CASE ElseMoves
    <2>1. Kept(r) /\ receiverVars' = receiverVars /\ handler' = handler
      BY <1>2, AllKept DEF ElseMoves
    <2>2. shm_shutdown => shm_shutdown'
      BY <1>2 DEF ElseMoves, DispatchStep, TestShutdown, ListenTimesOut, ListenReturns, LockSegments,
                  TestShutdownAgain, GetHandler, CastHandler, CopySlots, SkipSlot, CallSlot, CallbackEnds,
                  ClearDisconnectedSlots, UnlockSegments, BeginShutdown, Join, ClearSegments
    <2> QED
      BY <2>1, <2>2, PlacedStays DEF receiverVars
  <1>3. CASE UNCHANGED listenersVars
    <2>1. Kept(r)
      BY <1>3 DEF listenersVars, registryVars, Kept, SlotsOf, Hears
    <2> QED
      BY <1>3, <2>1, PlacedStays DEF listenersVars, registryVars, receiverVars
  <1> QED
    BY <1>1, <1>2, <1>3, EveryStep

\* Where a receiver's call goes on with a handler's address, and where it sets one.
LEMMA UsesMoves ==
    ASSUME ListenersInv, NEW r \in Receivers, Moves(r)
    PROVE  /\ UsesHandler(r)' => \/ UsesHandler(r) /\ ptr'[r] = ptr[r] /\ (shm_pc[r] = "copy" \/ shm_pc[r] = "deref" => handler = ptr[r])
                                 \/ ptr'[r] = handler /\ handler # Nobody /\ handler' = handler
                                 \/ shm_pc[r] = "set" /\ ptr'[r] = r /\ handler' = r
           /\ shm_pc'[r] = "set" => shm_pc[r] = "look" /\ handler = Nobody /\ handler' = Nobody /\ ptr'[r] = r
           /\ shm_pc'[r] = "fault" => shm_pc[r] = "fault" \/ (UsesHandler(r) /\ handler # ptr[r] /\ raced' = raced)
  <1> USE DEF ReceiverGoto, registryVars, history, UsesHandler
  <1>0. ListenersTypeOK /\ UsedWasSet
    BY DEF ListenersInv
  <1>1. ASSUME NEW o \in Opposites[r], BeginEnable(r, o) PROVE shm_pc'[r] \in {"segment", "look"}
    BY <1>0, <1>1 DEF BeginEnable, ListenersTypeOK
  <1>2. CASE BeginDisable(r)
    BY <1>0, <1>2 DEF BeginDisable, ListenersTypeOK
  <1>3. CASE LookUp(r)
    BY <1>0, <1>3 DEF LookUp, ListenersTypeOK
  <1>4. CASE SetHandler(r)
    BY <1>0, <1>4 DEF SetHandler, ListenersTypeOK, UsedWasSet
  <1>5. CASE CopyHandler(r)
    BY <1>0, <1>5 DEF CopyHandler, ListenersTypeOK
  <1>6. CASE ConnectToAll(r) \/ RecordConnection(r) \/ ConnectToOne(r)
    BY <1>0, <1>6 DEF ConnectToAll, RecordConnection, ConnectToOne, ListenersTypeOK
  <1>7. CASE AddSegment(r) \/ FindHandler(r)
    BY <1>0, <1>7 DEF AddSegment, FindHandler, ListenersTypeOK
  <1>8. CASE Dereference(r)
    BY <1>0, <1>8 DEF Dereference, ListenersTypeOK
  <1>9. CASE HandlerIsGone(r)
    BY <1>0, <1>9 DEF HandlerIsGone, Alive, ListenersTypeOK
  <1>10. CASE Disconnect(r)
    BY <1>0, <1>10 DEF Disconnect, ListenersTypeOK
  <1> QED
    BY <1>1, <1>2, <1>3, <1>4, <1>5, <1>6, <1>7, <1>8, <1>9, <1>10 DEF Moves, ReceiverStep

\* A receiver's step changes the handler of its call and no other.
LEMMA OtherHandlersKept ==
    ASSUME ListenersInv, NEW q \in Receivers, Moves(q), NEW g \in Receivers, ~(UsesHandler(q) /\ g = ptr[q])
    PROVE  slots'[g] = slots[g] /\ conns'[g] = conns[g]
  <1> USE DEF registryVars, UsesHandler
  <1>0. ListenersTypeOK
    BY DEF ListenersInv
  <1>1. ASSUME NEW o \in Opposites[q], BeginEnable(q, o) PROVE UNCHANGED <<slots, conns>>
    BY <1>1 DEF BeginEnable
  <1>2. CASE BeginDisable(q) \/ LookUp(q) \/ SetHandler(q) \/ CopyHandler(q) \/ AddSegment(q) \/ FindHandler(q) \/ Dereference(q)
             \/ HandlerIsGone(q)
    BY <1>2 DEF BeginDisable, LookUp, SetHandler, CopyHandler, AddSegment, FindHandler, Dereference, HandlerIsGone
  <1>3. CASE ConnectToAll(q) \/ ConnectToOne(q)
    BY <1>0, <1>3 DEF ConnectToAll, ConnectToOne, AddSlot, ListenersTypeOK
  <1>4. CASE RecordConnection(q)
    BY <1>0, <1>4 DEF RecordConnection, ListenersTypeOK
  <1>5. CASE Disconnect(q)
    BY <1>0, <1>5 DEF Disconnect, RemoveSlot, ListenersTypeOK
  <1> QED
    BY <1>1, <1>2, <1>3, <1>4, <1>5 DEF Moves, ReceiverStep

LEMMA FreshStep ==
    ListenersInv /\ [ListenersNext]_listenersVars => FreshKnowsNobody'
  <1> SUFFICES ASSUME ListenersInv, [ListenersNext]_listenersVars, NEW h \in Receivers,
                      handler' = Nobody \/ shm_pc'[h] = "set", NEW r \in Receivers
               PROVE  Clean(r, h)'
    BY DEF FreshKnowsNobody
  <1>0. FreshKnowsNobody /\ UsedWasSet /\ ListenersAssumption
    BY ListenersAssumption DEF ListenersInv
  <1>1. ASSUME NEW q \in Receivers, Moves(q) PROVE Clean(r, h)'
    <2>1. handler' = Nobody => handler = Nobody
      BY <1>0, <1>1, HandlerStep DEF Moves
    <2>2. shm_pc'[h] = "set" => shm_pc[h] = "set" \/ handler = Nobody
      BY <1>1, UsesMoves, OthersKept DEF Moves, Rest
    <2>3. Clean(r, h)
      BY <1>0, <2>1, <2>2 DEF FreshKnowsNobody
    <2>4. ~(UsesHandler(q) /\ h = ptr[q])
      BY <1>0, <2>1, <2>2 DEF UsedWasSet
    <2>5. slots'[h] = slots[h] /\ conns'[h] = conns[h]
      BY <1>1, <2>4, OtherHandlersKept
    <2> QED
      BY <2>3, <2>5 DEF Clean, SlotsOf
  <1>2. CASE ElseMoves
    <2>1. Kept(r) /\ shm_pc' = shm_pc /\ handler' = handler
      BY <1>2, AllKept DEF ElseMoves, receiverVars
    <2> QED
      BY <1>0, <2>1, CleanKept DEF FreshKnowsNobody
  <1>3. CASE UNCHANGED listenersVars
    BY <1>0, <1>3 DEF FreshKnowsNobody, Clean, SlotsOf, listenersVars, registryVars, receiverVars
  <1> QED
    BY <1>1, <1>2, <1>3, EveryStep

\* Where the dispatcher has got a handler, and where it finds it gone.
LEMMA DispatcherMoves ==
    ASSUME ListenersInv, ElseMoves
    PROVE  /\ DispatcherUses' => \/ DispatcherUses /\ dptr' = dptr
                                 \/ dptr' = handler /\ handler # Nobody
           /\ dpc' = "fault" => dpc = "fault" \/ (DispatcherUses /\ handler # dptr)
           /\ shm_shutdown => shm_shutdown'
  <1> USE DEF DispatcherUses
  <1>1. ASSUME NEW s \in Senders, ListenReturns(s) PROVE dpc' = "lock" /\ UNCHANGED shm_shutdown
    BY <1>1 DEF ListenReturns
  <1>2. CASE TestShutdown \/ ListenTimesOut \/ LockSegments \/ TestShutdownAgain \/ GetHandler \/ CastHandler
    BY <1>2 DEF TestShutdown, ListenTimesOut, LockSegments, TestShutdownAgain, GetHandler, CastHandler
  <1>3. CASE CopySlots \/ SkipSlot \/ CallSlot \/ UnlockSegments
    BY <1>3 DEF CopySlots, SkipSlot, CallSlot, UnlockSegments
  <1>4. CASE CallbackEnds \/ ClearDisconnectedSlots
    BY <1>4 DEF CallbackEnds, ClearDisconnectedSlots
  <1>5. CASE BeginShutdown \/ Join \/ ClearSegments
    BY <1>5 DEF BeginShutdown, Join, ClearSegments, dispatchVars
  <1> QED
    BY <1>1, <1>2, <1>3, <1>4, <1>5 DEF ElseMoves, DispatchStep

LEMMA UsedStep ==
    ListenersInv /\ [ListenersNext]_listenersVars => UsedWasSet'
  <1> SUFFICES ASSUME ListenersInv, [ListenersNext]_listenersVars PROVE UsedWasSet'
    OBVIOUS
  <1>0. ListenersTypeOK /\ UsedWasSet /\ Nobody \notin Receivers
    BY ListenersAssumption DEF ListenersInv
  <1>1. ASSUME NEW q \in Receivers, Moves(q) PROVE UsedWasSet'
    <2>1. \/ handler' = handler
          \/ handler' = q /\ SetHandler(q)
      BY <1>1, HandlerStep DEF Moves
    <2>2. \A r \in Receivers : r # q => Rest(q, r)
      BY <1>1, OthersKept DEF Moves
    <2>3. SetHandler(q) => shm_pc'[q] = "connect"
      BY <1>0 DEF SetHandler, ReceiverGoto, ListenersTypeOK
    <2>4. ASSUME NEW r \in Receivers, shm_pc'[r] = "set" PROVE (shm_pc[r] = "set" \/ handler' = Nobody) /\ ptr'[r] = r
      BY <1>0, <1>1, <2>2, <2>4, UsesMoves DEF Rest, UsedWasSet
    <2>5. handler' # Nobody => shm_pc'[handler'] # "set"
      BY <1>0, <2>1, <2>3, <2>4 DEF UsedWasSet, ListenersTypeOK
    <2>6. ASSUME NEW r \in Receivers, UsesHandler(r)' PROVE handler' # Nobody /\ ptr'[r] \in Receivers /\ shm_pc'[ptr'[r]] # "set"
      <3>1. CASE UsesHandler(r) /\ ptr'[r] = ptr[r]
        BY <1>0, <2>1, <2>4, <3>1 DEF UsedWasSet
      <3>2. CASE ptr'[r] = handler' /\ handler' # Nobody
        BY <1>0, <2>1, <2>5, <3>2 DEF ListenersTypeOK
      <3>3. r # q => UsesHandler(r) /\ ptr'[r] = ptr[r]
        BY <2>2, <2>6 DEF UsesHandler, Rest
      <3> QED
        BY <1>0, <1>1, <2>6, <3>1, <3>2, <3>3, UsesMoves
    <2>7. DispatcherUses' => handler' # Nobody /\ dptr' \in Receivers
      <3>1. UNCHANGED <<dpc, dptr>>
        BY <1>1 DEF Moves, ReceiverStep, BeginEnable, BeginDisable, LookUp, SetHandler, CopyHandler, ConnectToAll,
                    RecordConnection, ConnectToOne, AddSegment, FindHandler, Dereference, HandlerIsGone, Disconnect,
                    dispatchVars
      <3> QED
        BY <1>0, <2>1, <3>1 DEF UsedWasSet, DispatcherUses
    <2> QED
      BY <2>4, <2>5, <2>6, <2>7 DEF UsedWasSet
  <1>2. CASE ElseMoves
    <2>1. UNCHANGED <<shm_pc, ptr, handler>>
      BY <1>2, AllKept DEF ElseMoves, receiverVars
    <2>2. DispatcherUses' => handler' # Nobody /\ dptr' \in Receivers
      BY <1>0, <1>2, <2>1, DispatcherMoves DEF UsedWasSet, ListenersTypeOK
    <2> QED
      BY <1>0, <2>1, <2>2 DEF UsedWasSet, UsesHandler
  <1>3. CASE UNCHANGED listenersVars
    BY <1>0, <1>3 DEF UsedWasSet, UsesHandler, DispatcherUses, listenersVars, registryVars, receiverVars, dispatchVars
  <1> QED
    BY <1>1, <1>2, <1>3, EveryStep

LEMMA DispatcherKept ==
    ASSUME NEW q \in Receivers, Moves(q)
    PROVE  UNCHANGED <<dpc, dptr, sender, local, running, messages, heard, shm_shutdown>>
  BY DEF Moves, ReceiverStep, BeginEnable, BeginDisable, LookUp, SetHandler, CopyHandler, ConnectToAll,
         RecordConnection, ConnectToOne, AddSegment, FindHandler, Dereference, HandlerIsGone, Disconnect,
         dispatchVars

\* How a step changes slots and connections.
LEMMA SlotsMove ==
    ASSUME ListenersInv, NEW q \in Receivers, Moves(q), NEW h \in Receivers, NEW s \in Signal
    PROVE  /\ \/ slots'[h][s] \subseteq slots[h][s]
              \/ /\ shm_pc[q] = "connect" /\ h = ptr[q] /\ s = opposite[q]
                 /\ slots'[h][s] = slots[h][s] \cup {Slot(q)}
           /\ \A r \in Receivers : conns'[h][r] \in {conns[h][r], NoSlot} \/ (r = q /\ conns'[h][r] = Slot(q))
  <1>0. ListenersTypeOK /\ UsedWasSet
    BY DEF ListenersInv
  <1>1. ASSUME UNCHANGED <<slots, conns>>
        PROVE  /\ slots'[h][s] \subseteq slots[h][s]
               /\ \A r \in Receivers : conns'[h][r] = conns[h][r]
    BY <1>1
  <1>2. ASSUME NEW o \in Opposites[q], BeginEnable(q, o) PROVE UNCHANGED <<slots, conns>>
    BY <1>2 DEF BeginEnable, registryVars
  <1>3. CASE BeginDisable(q) \/ LookUp(q) \/ SetHandler(q) \/ CopyHandler(q) \/ AddSegment(q) \/ FindHandler(q) \/ Dereference(q)
             \/ HandlerIsGone(q)
    BY <1>1, <1>3 DEF BeginDisable, LookUp, SetHandler, CopyHandler, AddSegment, FindHandler, Dereference, HandlerIsGone, registryVars
  <1>4. ASSUME shm_pc[q] = "connect", AddSlot(q)
        PROVE  \/ slots'[h][s] \subseteq slots[h][s]
               \/ h = ptr[q] /\ s = opposite[q] /\ slots'[h][s] = slots[h][s] \cup {Slot(q)}
    BY <1>0, <1>4, AddAddsOne DEF UsedWasSet, UsesHandler
  <1>5. CASE ConnectToAll(q)
    BY <1>4, <1>5 DEF ConnectToAll
  <1>6. CASE ConnectToOne(q)
    <2>1. \A r \in Receivers : conns'[h][r] = conns[h][r] \/ (r = q /\ conns'[h][r] = Slot(q))
      BY <1>0, <1>6 DEF ConnectToOne, ListenersTypeOK
    <2> QED
      BY <1>4, <1>6, <2>1 DEF ConnectToOne
  <1>7. CASE RecordConnection(q)
    BY <1>0, <1>7 DEF RecordConnection, ListenersTypeOK
  <1>8. CASE Disconnect(q)
    <2>1. \A r \in Receivers : conns'[h][r] \in {conns[h][r], NoSlot}
      BY <1>0, <1>8 DEF Disconnect, ListenersTypeOK
    <2> QED
      BY <1>0, <1>8, <2>1, RemoveOnlyShrinks DEF Disconnect
  <1> QED
    BY <1>1, <1>2, <1>3, <1>5, <1>6, <1>7, <1>8 DEF Moves, ReceiverStep

LEMMA OwnStep ==
    ListenersInv /\ [ListenersNext]_listenersVars => ConnectionsAreOwn'
  <1> SUFFICES ASSUME ListenersInv, [ListenersNext]_listenersVars, NEW h \in Receivers
               PROVE  slots'[h][NoHash] = {} /\ \A r \in Receivers : conns'[h][r] # NoSlot => conns'[h][r][1] = r
    BY DEF ConnectionsAreOwn
  <1>0. ListenersTypeOK /\ ConnectionsAreOwn /\ NoHash \in Signal
    BY DEF ListenersInv, Signal
  <1>1. ASSUME NEW q \in Receivers, Moves(q)
        PROVE  slots'[h][NoHash] = {} /\ \A r \in Receivers : conns'[h][r] # NoSlot => conns'[h][r][1] = r
    <2>1. opposite[q] # NoHash
      BY <1>0, ListenersAssumption DEF ListenersTypeOK
    <2>2. slots'[h][NoHash] = {}
      BY <1>0, <1>1, <2>1, SlotsMove DEF ConnectionsAreOwn
    <2>3. Slot(q)[1] = q
      BY DEF Slot
    <2> QED
      BY <1>0, <1>1, <2>2, <2>3, SlotsMove DEF ConnectionsAreOwn
  <1>2. CASE ElseMoves
    BY <1>0, <1>2, AllKept DEF ElseMoves, ConnectionsAreOwn
  <1>3. CASE UNCHANGED listenersVars
    BY <1>0, <1>3 DEF ConnectionsAreOwn, listenersVars, registryVars
  <1> QED
    BY <1>1, <1>2, <1>3, EveryStep

LEMMA OneEachStep ==
    ListenersInv /\ [ListenersNext]_listenersVars => OneSlotEach'
  <1> SUFFICES ASSUME ListenersInv, [ListenersNext]_listenersVars, NEW h \in Receivers, NEW s \in Signal
               PROVE  \A k, l \in slots'[h][s] : k[1] = l[1] => k = l
    BY DEF OneSlotEach, Signal
  <1>0. ListenersTypeOK /\ OneSlotEach /\ SlotsArePlaced /\ UsedWasSet
    BY DEF ListenersInv
  <1>1. ASSUME NEW q \in Receivers, Moves(q) PROVE \A k, l \in slots'[h][s] : k[1] = l[1] => k = l
    <2>1. CASE slots'[h][s] \subseteq slots[h][s]
      BY <1>0, <2>1 DEF OneSlotEach
    <2>2. CASE shm_pc[q] = "connect" /\ h = ptr[q] /\ slots'[h][s] = slots[h][s] \cup {Slot(q)}
      <3>1. SlotsOf(q, h, s) = {}
        BY <1>0, <2>2 DEF SlotsArePlaced, PlacedInCall, Clean
      <3>2. Slot(q)[1] = q
        BY DEF Slot
      <3> QED
        BY <1>0, <2>2, <3>1, <3>2 DEF OneSlotEach, SlotsOf
    <2> QED
      BY <1>1, <2>1, <2>2, SlotsMove
  <1>2. CASE ElseMoves
    BY <1>0, <1>2, AllKept DEF ElseMoves, OneSlotEach
  <1>3. CASE UNCHANGED listenersVars
    BY <1>0, <1>3 DEF OneSlotEach, listenersVars, registryVars
  <1> QED
    BY <1>1, <1>2, <1>3, EveryStep

LEMMA OneHandlerStep ==
    ListenersInv /\ [ListenersNext]_listenersVars => OneHandler'
  <1> SUFFICES ASSUME ListenersInv, [ListenersNext]_listenersVars, ~raced'
               PROVE  /\ \A r \in Receivers : UsesHandler(r)' => ptr'[r] = handler'
                      /\ DispatcherUses' => dptr' = handler'
                      /\ dpc' # "fault" /\ \A r \in Receivers : shm_pc'[r] # "fault"
    BY DEF OneHandler
  <1>0. ListenersTypeOK /\ OneHandler /\ UsedWasSet
    BY DEF ListenersInv
  <1>1. ASSUME NEW q \in Receivers, Moves(q)
        PROVE  /\ \A r \in Receivers : UsesHandler(r)' => ptr'[r] = handler'
               /\ DispatcherUses' => dptr' = handler'
               /\ dpc' # "fault" /\ \A r \in Receivers : shm_pc'[r] # "fault"
    <2>1. ~raced /\ (handler' = handler \/ handler = Nobody)
      BY <1>1, HandlerStep DEF Moves
    <2>2. \A r \in Receivers : r # q => UsesHandler(r)' = UsesHandler(r) /\ ptr'[r] = ptr[r] /\ shm_pc'[r] = shm_pc[r]
      BY <1>1, OthersKept DEF Moves, Rest, UsesHandler
    <2>3. UNCHANGED <<dpc, dptr>>
      BY <1>1, DispatcherKept
    <2>4. UsesHandler(q)' => ptr'[q] = handler'
      BY <1>0, <1>1, <2>1, UsesMoves DEF OneHandler, UsedWasSet
    <2>5. shm_pc'[q] # "fault"
      BY <1>0, <1>1, <2>1, UsesMoves DEF OneHandler
    <2> QED
      BY <1>0, <2>1, <2>2, <2>3, <2>4, <2>5 DEF OneHandler, UsedWasSet, DispatcherUses
  <1>2. CASE ElseMoves
    <2>1. UNCHANGED <<shm_pc, ptr, handler, raced>>
      BY <1>2, AllKept DEF ElseMoves, receiverVars
    <2>2. (DispatcherUses' => dptr' = handler') /\ dpc' # "fault"
      BY <1>0, <1>2, <2>1, DispatcherMoves DEF OneHandler
    <2> QED
      BY <1>0, <2>1, <2>2 DEF OneHandler, UsesHandler
  <1>3. CASE UNCHANGED listenersVars
    BY <1>0, <1>3 DEF OneHandler, UsesHandler, DispatcherUses, listenersVars, registryVars, receiverVars, dispatchVars, history
  <1> QED
    BY <1>1, <1>2, <1>3, EveryStep

\* A receiver's own step: it is enabled only with a connected slot.
LEMMA ConnectedMoves ==
    ASSUME ListenersInv, NEW q \in Receivers, Moves(q), ~raced', ~shm_shutdown'
    PROVE  /\ shm_pc'[q] = "segment" \/ (shm_pc'[q] = "idle" /\ enabled'[q]) =>
                /\ handler' # Nobody /\ conns'[handler'][q] # NoSlot
                /\ conns'[handler'][q] \in connected' /\ conns'[handler'][q] \in slots'[handler'][opposite'[q]]
           /\ shm_pc'[q] = "record" => Slot(q)' \in connected' /\ Slot(q)' \in slots'[handler'][Everyone]
  <1> USE DEF ReceiverGoto, registryVars, history
  <1>0. ListenersTypeOK /\ UsedWasSet /\ OneHandler /\ EnabledIsConnected /\ SlotsArePlaced /\ ~shm_shutdown
    BY DispatcherKept DEF ListenersInv
  <1>1. ~raced
    BY HandlerStep DEF Moves
  <1>2. ASSUME NEW o \in Opposites[q], BeginEnable(q, o) PROVE shm_pc'[q] = "look"
    BY <1>0, <1>2 DEF BeginEnable, ListenersTypeOK
  <1>3. CASE BeginDisable(q) \/ LookUp(q) \/ SetHandler(q) \/ CopyHandler(q)
    <2>1. shm_pc'[q] \notin {"segment", "idle", "record"}
      BY <1>0, <1>3 DEF BeginDisable, LookUp, SetHandler, CopyHandler, ListenersTypeOK
    <2> QED
      BY <2>1
  <1>4. CASE FindHandler(q) \/ Dereference(q) \/ HandlerIsGone(q) \/ Disconnect(q)
    <2>1. shm_pc'[q] \notin {"segment", "record"} /\ (shm_pc'[q] = "idle" => ~enabled'[q])
      BY <1>0, <1>4 DEF FindHandler, Dereference, HandlerIsGone, Disconnect, ListenersTypeOK
    <2> QED
      BY <2>1
  <1>5. ASSUME AddSlot(q), shm_pc[q] = "connect", UNCHANGED <<handler, shm_calls, opposite>>
        PROVE  /\ handler # Nobody /\ handler = ptr[q] /\ Slot(q)' = Slot(q) /\ Slot(q) # NoSlot
               /\ Slot(q) \in connected' /\ Slot(q) \in slots'[handler][opposite[q]]
    <2>1. handler # Nobody /\ handler = ptr[q] /\ ptr[q] \in Receivers
      BY <1>0, <1>1, <1>5 DEF UsedWasSet, OneHandler, UsesHandler
    <2>2. Slot(q)' = Slot(q)
      BY <1>5 DEF Slot
    <2>3. Slot(q) # NoSlot
      BY <1>0, NoSlotIsNone DEF Slot, SlotId, ListenersTypeOK
    <2>4. opposite[q] \in Signal
      BY <1>0 DEF ListenersTypeOK, Signal
    <2>5. Slot(q) \in connected' /\ Slot(q) \in slots'[ptr[q]][opposite[q]]
      <3>1. Slot(q) \in connected'
        BY <1>5 DEF AddSlot
      <3>2. slots'[ptr[q]][opposite[q]] = slots[ptr[q]][opposite[q]] \cup {Slot(q)}
        BY <1>0, <1>5, <2>1, <2>4, AddAddsOne
      <3> QED
        BY <3>1, <3>2
    <2> QED
      BY <2>1, <2>2, <2>3, <2>5
  <1>6. CASE ConnectToAll(q)
    <2>1. shm_pc'[q] = "record"
      BY <1>0, <1>6 DEF ConnectToAll, ListenersTypeOK
    <2> QED
      BY <1>5, <1>6, <2>1 DEF ConnectToAll
  <1>7. CASE ConnectToOne(q)
    <2>1. shm_pc'[q] = "segment"
      BY <1>0, <1>7 DEF ConnectToOne, ListenersTypeOK
    <2>2. AddSlot(q) /\ shm_pc[q] = "connect" /\ UNCHANGED <<handler, shm_calls, opposite>>
      BY <1>7 DEF ConnectToOne
    <2>3. handler \in Receivers
      BY <1>0, <1>5, <2>2 DEF ListenersTypeOK
    <2>4. conns'[handler][q] = Slot(q)
      BY <1>0, <1>5, <1>7, <2>2, <2>3 DEF ConnectToOne, ListenersTypeOK
    <2> QED
      BY <1>5, <2>1, <2>2, <2>4
  <1>8. CASE RecordConnection(q)
    <2>1. shm_pc'[q] = "segment" /\ shm_pc[q] = "record"
      BY <1>0, <1>8 DEF RecordConnection, ListenersTypeOK
    <2>2. handler # Nobody /\ handler = ptr[q] /\ ptr[q] \in Receivers
      BY <1>0, <1>1, <2>1 DEF UsedWasSet, OneHandler, UsesHandler
    <2>3. Slot(q) \in connected /\ Slot(q) \in slots[handler][Everyone] /\ opposite[q] = Everyone
      BY <1>0, <1>1, <2>1 DEF EnabledIsConnected, Hears, SlotsArePlaced, PlacedInCall
    <2>4. conns'[handler][q] = Slot(q) /\ Slot(q) # NoSlot
      BY <1>0, <1>8, <2>2, NoSlotIsNone DEF RecordConnection, ListenersTypeOK, Slot, SlotId
    <2> QED
      BY <1>8, <2>1, <2>2, <2>3, <2>4 DEF RecordConnection
  <1>9. CASE AddSegment(q)
    <2>1. shm_pc'[q] = "idle" /\ shm_pc[q] = "segment"
      BY <1>0, <1>9 DEF AddSegment, ListenersTypeOK
    <2> QED
      BY <1>0, <1>1, <1>9, <2>1 DEF AddSegment, EnabledIsConnected, Hears
  <1> QED
    BY <1>2, <1>3, <1>4, <1>6, <1>7, <1>8, <1>9 DEF Moves, ReceiverStep

LEMMA ConnectedStays ==
    ASSUME ListenersInv, NEW r \in Receivers, Kept(r), ~raced, ~shm_shutdown, handler' = handler \/ handler = Nobody,
           shm_pc'[r] = shm_pc[r], opposite'[r] = opposite[r], enabled'[r] = enabled[r], shm_calls'[r] = shm_calls[r]
    PROVE  /\ shm_pc'[r] = "segment" \/ (shm_pc'[r] = "idle" /\ enabled'[r]) =>
                /\ handler' # Nobody /\ conns'[handler'][r] # NoSlot
                /\ conns'[handler'][r] \in connected' /\ conns'[handler'][r] \in slots'[handler'][opposite'[r]]
           /\ shm_pc'[r] = "record" => Slot(r)' \in connected' /\ Slot(r)' \in slots'[handler'][Everyone]
  <1>0. ListenersTypeOK /\ UsedWasSet /\ EnabledIsConnected /\ ConnectionsAreOwn
    BY DEF ListenersInv
  <1>1. ASSUME shm_pc[r] = "segment" \/ (shm_pc[r] = "idle" /\ enabled[r])
        PROVE  /\ handler' # Nobody /\ conns'[handler'][r] # NoSlot
               /\ conns'[handler'][r] \in connected' /\ conns'[handler'][r] \in slots'[handler'][opposite'[r]]
    <2>1. /\ handler # Nobody /\ conns[handler][r] # NoSlot
          /\ Hears(r, handler, opposite[r], conns[handler][r])
      BY <1>0, <1>1 DEF EnabledIsConnected
    <2>2. handler' = handler /\ handler \in Receivers
      BY <1>0, <2>1 DEF ListenersTypeOK
    <2>3. PICK h, k, s : h = handler /\ k = conns[handler][r] /\ s = opposite[r]
      OBVIOUS
    <2>4. h \in Receivers /\ s \in Signal /\ k \in SlotId /\ k[1] = r /\ k # NoSlot /\ Hears(r, h, s, k)
      BY <1>0, <2>1, <2>2, <2>3 DEF ListenersTypeOK, ConnectionsAreOwn, Signal
    <2>5. Hears(r, h, s, k)' /\ conns'[h][r] = k
      BY <2>3, <2>4 DEF Kept
    <2> QED
      BY <2>1, <2>2, <2>3, <2>4, <2>5 DEF Hears
  <1>2. ASSUME shm_pc[r] = "record"
        PROVE  Slot(r)' \in connected' /\ Slot(r)' \in slots'[handler'][Everyone]
    <2>1. handler # Nobody /\ Hears(r, handler, Everyone, Slot(r))
      BY <1>0, <1>2 DEF EnabledIsConnected, UsedWasSet, UsesHandler
    <2>2. PICK h, k : h = handler /\ k = Slot(r)
      OBVIOUS
    <2>3. handler' = h /\ h \in Receivers /\ k \in SlotId /\ k[1] = r /\ Everyone \in Signal
      BY <1>0, <2>1, <2>2 DEF ListenersTypeOK, Slot, SlotId, Signal
    <2>4. Hears(r, h, Everyone, k)'
      BY <2>1, <2>2, <2>3 DEF Kept
    <2>5. Slot(r)' = k
      BY <2>2 DEF Slot
    <2> QED
      BY <2>3, <2>4, <2>5 DEF Hears
  <1> QED
    BY <1>1, <1>2

LEMMA ConnectedStep ==
    ListenersInv /\ [ListenersNext]_listenersVars => EnabledIsConnected'
  <1> SUFFICES ASSUME ListenersInv, [ListenersNext]_listenersVars, ~raced', ~shm_shutdown', NEW r \in Receivers
               PROVE  /\ shm_pc'[r] = "segment" \/ (shm_pc'[r] = "idle" /\ enabled'[r]) =>
                           /\ handler' # Nobody /\ conns'[handler'][r] # NoSlot
                           /\ conns'[handler'][r] \in connected' /\ conns'[handler'][r] \in slots'[handler'][opposite'[r]]
                      /\ shm_pc'[r] = "record" => Slot(r)' \in connected' /\ Slot(r)' \in slots'[handler'][Everyone]
    BY DEF EnabledIsConnected, Hears
  <1>1. ASSUME NEW q \in Receivers, Moves(q), q # r
        PROVE  Kept(r) /\ ~raced /\ ~shm_shutdown /\ (handler' = handler \/ handler = Nobody)
    <2>1. Rest(q, r)
      BY <1>1, OthersKept DEF Moves
    <2> QED
      BY <1>1, <2>1, HandlerStep DEF Moves, Rest
  <1>2. ASSUME NEW q \in Receivers, Moves(q), q # r PROVE Rest(q, r)
    BY <1>2, OthersKept DEF Moves
  <1>3. CASE ElseMoves
    <2>1. Kept(r) /\ UNCHANGED <<receiverVars, handler, raced>>
      BY <1>3, AllKept DEF ElseMoves
    <2>2. ~shm_shutdown
      BY <1>3, DispatcherMoves
    <2> QED
      BY <2>1, <2>2, ConnectedStays DEF receiverVars
  <1>4. CASE UNCHANGED listenersVars
    <2>1. Kept(r)
      BY <1>4 DEF listenersVars, registryVars, Kept, SlotsOf, Hears
    <2> QED
      BY <1>4, <2>1, ConnectedStays DEF listenersVars, registryVars, receiverVars, history
  <1> QED
    BY <1>1, <1>2, <1>3, <1>4, ConnectedMoves, ConnectedStays, EveryStep DEF Rest

\* The dispatcher calls nobody twice.
LEMMA CalledStep ==
    ListenersInv /\ [ListenersNext]_listenersVars => CalledOnce'
  <1> SUFFICES ASSUME ListenersInv, [ListenersNext]_listenersVars PROVE CalledOnce'
    OBVIOUS
  <1>0. ListenersTypeOK /\ CalledOnce /\ UsedWasSet /\ OneSlotEach /\ ConnectionsAreOwn
    BY DEF ListenersInv
  <1>1. ASSUME UNCHANGED <<local, heard>>,
               dpc' \in {"test", "get", "copy", "signal"} => dpc \in {"test", "get", "copy", "signal"},
               dpc' # "calls" => dpc # "calls" \/ local = {}
        PROVE  CalledOnce'
    BY <1>0, <1>1 DEF CalledOnce
  <1>2. ASSUME NEW q \in Receivers, Moves(q) PROVE CalledOnce'
    BY <1>1, <1>2, DispatcherKept
  <1>3. CASE TestShutdown \/ ListenTimesOut \/ TestShutdownAgain \/ GetHandler \/ CastHandler \/ UnlockSegments
    BY <1>1, <1>3 DEF TestShutdown, ListenTimesOut, TestShutdownAgain, GetHandler, CastHandler, UnlockSegments
  <1>4. ASSUME NEW s \in Senders, ListenReturns(s) PROVE CalledOnce'
    BY <1>1, <1>4 DEF ListenReturns
  <1>5. CASE LockSegments
    BY <1>0, <1>5 DEF LockSegments, CalledOnce
  <1>6. CASE CopySlots
    <2>1. CASE dpc = "signal"
      <3>1. local' = slots[dptr][Everyone] /\ heard' = heard /\ dpc' = "calls"
        BY <1>6, <2>1 DEF CopySlots
      <3>2. dptr \in Receivers /\ Everyone \in Signal
        BY <1>0, <2>1 DEF UsedWasSet, DispatcherUses, Signal
      <3>3. \A k \in local' : k[1] \in Receivers
        BY <1>0, <3>1, <3>2 DEF ListenersTypeOK, SlotId
      <3>4. \A k, l \in local' : k[1] = l[1] => k = l
        BY <1>0, <3>1, <3>2 DEF OneSlotEach
      <3> QED
        BY <1>0, <2>1, <3>1, <3>3, <3>4 DEF CalledOnce
    <2>2. CASE dpc = "handler"
      <3>1. local' = {} /\ heard' = heard /\ dpc' = "mycalls"
        BY <1>0, <1>6, <2>2 DEF CopySlots, SenderHash, UsedWasSet, DispatcherUses, ConnectionsAreOwn
      <3> QED
        BY <1>0, <3>1 DEF CalledOnce
    <2> QED
      BY <1>6, <2>1, <2>2 DEF CopySlots
  <1>7. CASE SkipSlot \/ CallbackEnds
    BY <1>0, <1>7 DEF SkipSlot, CallbackEnds, CalledOnce
  <1>8. CASE CallSlot
    <2>1. PICK slot \in local \cap connected : local' = local \ {slot} /\ heard' = [heard EXCEPT ![slot[1]] = @ + 1]
      BY <1>8 DEF CallSlot
    <2>2. dpc = "calls" /\ dpc' = "calls" /\ slot[1] \in Receivers
      BY <1>0, <1>8, <2>1 DEF CallSlot, CalledOnce, ListenersTypeOK, SlotId
    <2>3. \A r \in Receivers : heard'[r] = IF r = slot[1] THEN 1 ELSE heard[r]
      BY <1>0, <2>1, <2>2 DEF CalledOnce, ListenersTypeOK
    <2>4. \A k \in local' : k[1] # slot[1] /\ k[1] \in Receivers
      BY <1>0, <2>1 DEF CalledOnce, ListenersTypeOK, SlotId
    <2> QED
      BY <1>0, <2>1, <2>2, <2>3, <2>4 DEF CalledOnce
  <1>9. CASE ClearDisconnectedSlots
    BY <1>1, <1>9 DEF ClearDisconnectedSlots
  <1>10. CASE BeginShutdown \/ Join \/ ClearSegments
    BY <1>1, <1>10 DEF BeginShutdown, Join, ClearSegments, dispatchVars
  <1>11. CASE UNCHANGED listenersVars
    BY <1>1, <1>11 DEF listenersVars, dispatchVars
  <1> QED
    BY <1>2, <1>3, <1>4, <1>5, <1>6, <1>7, <1>8, <1>9, <1>10, <1>11, EveryStep DEF ElseMoves, DispatchStep

\* A receiver that must be called does nothing, and one that must not be called
\* leaves that set when it begins to be enabled.
LEMMA HistoryMoves ==
    ASSUME ListenersInv, NEW q \in Receivers, Moves(q)
    PROVE  /\ must' \subseteq must /\ mustNot' \subseteq mustNot /\ q \notin must'
           /\ q \in mustNot' => opposite'[q] = opposite[q] /\ ~(shm_pc[q] = "idle" /\ ~enabled[q])
  <1> USE DEF history, ReceiverGoto
  <1>0. ListenersTypeOK /\ MustWillHear
    BY DEF ListenersInv
  <1>1. ASSUME NEW o \in Opposites[q], BeginEnable(q, o)
        PROVE must' = must /\ mustNot' = mustNot \ {q} /\ q \notin must
    BY <1>0, <1>1 DEF BeginEnable, MustWillHear
  <1>2. CASE BeginDisable(q)
    BY <1>0, <1>2 DEF BeginDisable
  <1>3. CASE ReceiverStep(q)
    <2>1. shm_pc[q] # "idle" /\ UNCHANGED <<must, mustNot, opposite>>
      BY <1>3 DEF ReceiverStep, LookUp, SetHandler, CopyHandler, ConnectToAll,
         RecordConnection, ConnectToOne, AddSegment, FindHandler, Dereference, HandlerIsGone, Disconnect
    <2> QED
      BY <1>0, <2>1 DEF MustWillHear
  <1> QED
    BY <1>1, <1>2, <1>3 DEF Moves

\* Only a receiver's own slots are disconnected.
LEMMA ConnectedByOthers ==
    ASSUME ListenersInv, NEW q \in Receivers, Moves(q), NEW k \in connected, k[1] # q
    PROVE  k \in connected'
  <1> USE DEF registryVars
  <1>0. ListenersTypeOK /\ UsedWasSet /\ ConnectionsAreOwn
    BY DEF ListenersInv
  <1>1. ASSUME NEW o \in Opposites[q], BeginEnable(q, o) PROVE connected' = connected
    BY <1>1 DEF BeginEnable
  <1>2. CASE BeginDisable(q) \/ LookUp(q) \/ SetHandler(q) \/ CopyHandler(q) \/ AddSegment(q) \/ FindHandler(q) \/ Dereference(q)
             \/ HandlerIsGone(q) \/ RecordConnection(q)
    BY <1>2 DEF BeginDisable, LookUp, SetHandler, CopyHandler, AddSegment, FindHandler, Dereference, HandlerIsGone, RecordConnection
  <1>3. CASE ConnectToAll(q) \/ ConnectToOne(q)
    BY <1>3 DEF ConnectToAll, ConnectToOne, AddSlot
  <1>4. CASE Disconnect(q)
    <2>1. ptr[q] \in Receivers /\ connected' = connected \ {conns[ptr[q]][q]}
      BY <1>0, <1>4 DEF Disconnect, RemoveSlot, UsedWasSet, UsesHandler
    <2>2. k # NoSlot
      BY <1>0, NoSlotIsNone DEF ListenersTypeOK
    <2> QED
      BY <1>0, <2>1, <2>2 DEF ConnectionsAreOwn
  <1> QED
    BY <1>1, <1>2, <1>3, <1>4 DEF Moves, ReceiverStep

LEMMA MustStep ==
    ListenersInv /\ [ListenersNext]_listenersVars => MustWillHear'
  <1> SUFFICES ASSUME ListenersInv, [ListenersNext]_listenersVars PROVE MustWillHear'
    OBVIOUS
  <1>0. ListenersTypeOK /\ MustWillHear /\ UsedWasSet /\ OneHandler /\ EnabledIsConnected /\ ConnectionsAreOwn /\ CalledOnce
    BY DEF ListenersInv
  <1>1. ASSUME NEW q \in Receivers, Moves(q) PROVE MustWillHear'
    <2>1. SUFFICES ASSUME NEW r \in must'
                   PROVE  /\ enabled'[r] /\ shm_pc'[r] = "idle"
                          /\ ~raced' /\ ~shm_shutdown' /\ opposite'[r] = Everyone =>
                              /\ dpc' = "calls" => heard'[r] > 0 \/ \E k \in local' : k[1] = r /\ k \in connected'
                              /\ dpc' \in {"handler", "mycalls", "unlock"} => heard'[r] > 0
      BY DEF MustWillHear
    <2>2. r \in must /\ r # q /\ r \in Receivers
      BY <1>0, <1>1, <2>1, HistoryMoves DEF ListenersTypeOK
    <2>3. Rest(q, r)
      BY <1>1, <2>2, OthersKept DEF Moves
    <2>4. UNCHANGED <<dpc, heard, local, shm_shutdown>> /\ (raced => raced')
      BY <1>1, DispatcherKept, HandlerStep DEF Moves
    <2>5. \A k \in connected : k[1] = r => k \in connected'
      BY <1>1, <2>2, ConnectedByOthers
    <2> QED
      BY <1>0, <2>2, <2>3, <2>4, <2>5 DEF MustWillHear, Rest
  <1>2. ASSUME UNCHANGED <<must, enabled, shm_pc, opposite, raced, connected>>, shm_shutdown => shm_shutdown',
               \A r \in must : ~raced /\ ~shm_shutdown /\ opposite[r] = Everyone =>
                   /\ dpc' = "calls" => heard'[r] > 0 \/ \E k \in local' : k[1] = r /\ k \in connected
                   /\ dpc' \in {"handler", "mycalls", "unlock"} => heard'[r] > 0 \/ shm_shutdown'
        PROVE  MustWillHear'
    BY <1>0, <1>2 DEF MustWillHear
  <1>3. ASSUME ElseMoves PROVE UNCHANGED <<enabled, shm_pc, opposite, raced, connected>> /\ (shm_shutdown => shm_shutdown')
    BY <1>3, AllKept, DispatcherMoves DEF ElseMoves, receiverVars
  <1>4. CASE TestShutdown \/ ListenTimesOut \/ TestShutdownAgain \/ CastHandler \/ UnlockSegments
    <2>1. /\ must' = must /\ dpc' # "calls" /\ ElseMoves
          /\ dpc' \in {"handler", "mycalls", "unlock"} => shm_shutdown'
      BY <1>4 DEF TestShutdown, ListenTimesOut, TestShutdownAgain, CastHandler, UnlockSegments, history, ElseMoves, DispatchStep
    <2> QED
      BY <1>2, <1>3, <2>1
  <1>5. ASSUME NEW s \in Senders, ListenReturns(s) PROVE MustWillHear'
    <2>1. must' = must /\ dpc' = "lock" /\ ElseMoves
      BY <1>5 DEF ListenReturns, history, ElseMoves, DispatchStep
    <2> QED
      BY <1>2, <1>3, <2>1
  <1>6. CASE LockSegments
    <2>1. dpc' \in {"test", "listen"} /\ (\A r \in must' : enabled[r] /\ shm_pc[r] = "idle") /\ ElseMoves
      BY <1>6 DEF LockSegments, ElseMoves, DispatchStep
    <2> QED
      BY <1>3, <2>1 DEF MustWillHear
  <1>7. CASE GetHandler
    <2>1. must' = must /\ dpc' \in {"unlock", "copy"} /\ (dpc' = "unlock" => handler = Nobody) /\ ElseMoves
      BY <1>7 DEF GetHandler, history, ElseMoves, DispatchStep
    <2>2. \A r \in must : ~raced /\ ~shm_shutdown => handler # Nobody
      BY <1>0 DEF MustWillHear, EnabledIsConnected, ListenersTypeOK
    <2> QED
      BY <1>2, <1>3, <2>1, <2>2
  <1>8. CASE CopySlots
    <2>1. must' = must /\ ElseMoves /\ heard' = heard
      BY <1>8 DEF CopySlots, history, ElseMoves, DispatchStep
    <2>2. CASE dpc = "signal"
      <3>1. dpc' = "calls" /\ local' = slots[dptr][Everyone]
        BY <1>8, <2>2 DEF CopySlots
      <3>2. ASSUME NEW r \in must, ~raced, ~shm_shutdown, opposite[r] = Everyone
            PROVE  \E k \in local' : k[1] = r /\ k \in connected
        <4>1. r \in Receivers /\ enabled[r] /\ shm_pc[r] = "idle" /\ dptr = handler
          BY <1>0, <2>2, <3>2 DEF ListenersTypeOK, MustWillHear, OneHandler, DispatcherUses
        <4>2. /\ handler # Nobody /\ conns[handler][r] # NoSlot
              /\ Hears(r, handler, Everyone, conns[handler][r])
          BY <1>0, <3>2, <4>1 DEF EnabledIsConnected
        <4>3. conns[handler][r][1] = r
          BY <1>0, <4>1, <4>2 DEF ConnectionsAreOwn, ListenersTypeOK
        <4> QED
          BY <3>1, <4>1, <4>2, <4>3 DEF Hears
      <3> QED
        BY <1>2, <1>3, <2>1, <3>1, <3>2
    <2>3. CASE dpc = "handler"
      <3>1. dpc' = "mycalls"
        BY <1>8, <2>3 DEF CopySlots
      <3>2. \A r \in must : ~raced /\ ~shm_shutdown /\ opposite[r] = Everyone => heard[r] > 0
        BY <1>0, <2>3 DEF MustWillHear
      <3> QED
        BY <1>2, <1>3, <2>1, <3>1, <3>2
    <2> QED
      BY <1>8, <2>2, <2>3 DEF CopySlots
  <1>9. CASE SkipSlot \/ CallbackEnds
    <2>1. must' = must /\ ElseMoves /\ heard' = heard /\ dpc' = dpc /\ local \cap connected \subseteq local'
      BY <1>9 DEF SkipSlot, CallbackEnds, history, ElseMoves, DispatchStep
    <2>2. \A r \in must : ~raced /\ ~shm_shutdown /\ opposite[r] = Everyone =>
              /\ dpc = "calls" => heard[r] > 0 \/ \E k \in local' : k[1] = r /\ k \in connected
              /\ dpc \in {"handler", "mycalls", "unlock"} => heard[r] > 0
      BY <1>0, <2>1 DEF MustWillHear
    <2> QED
      BY <1>2, <1>3, <2>1, <2>2
  <1>10. CASE CallSlot
    <2>1. PICK slot \in local \cap connected : local' = local \ {slot} /\ heard' = [heard EXCEPT ![slot[1]] = @ + 1]
      BY <1>10 DEF CallSlot
    <2>2. must' = must /\ ElseMoves /\ dpc' = dpc
      BY <1>10 DEF CallSlot, history, ElseMoves, DispatchStep
    <2>3. \A r \in Receivers : heard'[r] >= heard[r] /\ (r = slot[1] => heard'[r] > 0)
      BY <1>0, <2>1 DEF ListenersTypeOK
    <2>4. ASSUME NEW r \in must, ~raced, ~shm_shutdown, opposite[r] = Everyone
          PROVE  /\ dpc = "calls" => heard'[r] > 0 \/ \E k \in local' : k[1] = r /\ k \in connected
                 /\ dpc \in {"handler", "mycalls", "unlock"} => heard'[r] > 0
      <3>1. r \in Receivers /\ heard[r] \in Nat /\ heard'[r] >= heard[r] /\ heard'[r] \in Nat
        BY <1>0, <2>1, <2>3 DEF ListenersTypeOK
      <3>2. /\ dpc = "calls" => heard[r] > 0 \/ \E k \in local : k[1] = r /\ k \in connected
            /\ dpc \in {"handler", "mycalls", "unlock"} => heard[r] > 0
        BY <1>0, <2>4 DEF MustWillHear
      <3> QED
        BY <2>1, <2>3, <3>1, <3>2
    <2> QED
      BY <1>2, <1>3, <2>2, <2>4
  <1>11. CASE ClearDisconnectedSlots
    <2>1. must' = must /\ ElseMoves /\ heard' = heard /\ dpc \in {"calls", "mycalls"} /\ local = {} /\ dpc' # "calls"
      BY <1>11 DEF ClearDisconnectedSlots, history, ElseMoves, DispatchStep
    <2>2. \A r \in must : ~raced /\ ~shm_shutdown /\ opposite[r] = Everyone => heard[r] > 0
      BY <1>0, <2>1 DEF MustWillHear
    <2> QED
      BY <1>2, <1>3, <2>1, <2>2
  <1>12. CASE BeginShutdown \/ Join \/ ClearSegments
    <2>1. UNCHANGED <<must, dpc, heard, local>> /\ ElseMoves
      BY <1>12 DEF BeginShutdown, Join, ClearSegments, history, dispatchVars, ElseMoves
    <2> QED
      BY <1>0, <1>2, <1>3, <2>1 DEF MustWillHear
  <1>13. CASE UNCHANGED listenersVars
    BY <1>0, <1>13 DEF MustWillHear, listenersVars, registryVars, receiverVars, dispatchVars, history
  <1> QED
    BY <1>1, <1>4, <1>5, <1>6, <1>7, <1>8, <1>9, <1>10, <1>11, <1>12, <1>13, EveryStep DEF ElseMoves, DispatchStep

\* What has to hold of a receiver that must not be called.
Silent(r) ==
    /\ opposite[r] # Everyone \/ (shm_pc[r] = "idle" /\ ~enabled[r])
    /\ heard[r] = 0
    /\ (dpc = "test" /\ ~shm_shutdown) \/ dpc = "get" =>
        (handler # Nobody => SlotsOf(r, handler, Everyone) = {})
    /\ dpc \in {"copy", "signal"} => SlotsOf(r, dptr, Everyone) = {}
    /\ \A k \in local : k[1] # r

LEMMA SilentInv == MustNotIsSilent <=> \A r \in mustNot : Silent(r)
  BY DEF MustNotIsSilent, Silent

\* A receiver in no call of AddListener for everybody has no slot in their signal.
LEMMA NotForEveryone ==
    ASSUME ListenersInv, ~shm_shutdown, handler # Nobody, NEW r \in Receivers,
           opposite[r] # Everyone \/ (shm_pc[r] = "idle" /\ ~enabled[r])
    PROVE  SlotsOf(r, handler, Everyone) = {}
  <1>0. PlacedInCall(r) /\ ListenersTypeOK /\ Everyone \in Signal
    BY DEF ListenersInv, SlotsArePlaced, Signal
  <1>1. Clean(r, handler) => SlotsOf(r, handler, Everyone) = {}
    BY <1>0 DEF Clean
  <1>2. Placed(r, handler) /\ opposite[r] # Everyone => SlotsOf(r, handler, Everyone) = {}
    BY <1>0 DEF Placed, OnlyIn
  <1>3. CASE shm_pc[r] = "idle" /\ ~enabled[r]
    BY <1>0, <1>1, <1>3 DEF PlacedInCall, Unknown
  <1>4. CASE opposite[r] # Everyone
    BY <1>0, <1>1, <1>2, <1>4 DEF PlacedInCall, Unknown, ListenersTypeOK
  <1> QED
    BY <1>3, <1>4

LEMMA MustNotStep ==
    ListenersInv /\ [ListenersNext]_listenersVars => MustNotIsSilent'
  <1> SUFFICES ASSUME ListenersInv, [ListenersNext]_listenersVars, NEW r \in mustNot' PROVE Silent(r)'
    BY DEF MustNotIsSilent, Silent
  <1>0. ListenersTypeOK /\ UsedWasSet /\ ConnectionsAreOwn /\ CalledOnce /\ Everyone \in Signal
    BY DEF ListenersInv, Signal
  <1>1. r \in mustNot => r \in Receivers /\ Silent(r)
    BY SilentInv DEF ListenersInv, ListenersTypeOK
  <1>2. ASSUME NEW q \in Receivers, Moves(q) PROVE Silent(r)'
    <2>1. r \in mustNot /\ r \in Receivers /\ Silent(r)
      BY <1>1, <1>2, HistoryMoves
    <2>2. UNCHANGED <<dpc, dptr, heard, local, shm_shutdown>>
      BY <1>2, DispatcherKept
    <2>3. opposite'[r] # Everyone \/ (shm_pc'[r] = "idle" /\ ~enabled'[r])
      BY <1>2, <2>1, OthersKept, HistoryMoves DEF Moves, Rest, Silent
    <2>4. ASSUME NEW h \in Receivers PROVE SlotsOf(r, h, Everyone)' \subseteq SlotsOf(r, h, Everyone)
      <3>1. CASE r # q
        <4>1. Kept(r)
          BY <1>2, <2>1, <3>1, OthersKept DEF Moves, Rest
        <4> QED
          BY <1>0, <4>1 DEF Kept
      <3>2. CASE r = q
        <4>1. ~(shm_pc[q] = "connect" /\ Everyone = opposite[q])
          BY <2>1, <3>2 DEF Silent
        <4>2. slots'[h][Everyone] \subseteq slots[h][Everyone]
          BY <1>0, <1>2, <4>1, SlotsMove
        <4> QED
          BY <4>2 DEF SlotsOf
      <3> QED
        BY <3>1, <3>2
    <2>5. ASSUME (dpc = "test" /\ ~shm_shutdown) \/ dpc = "get", handler' # Nobody
          PROVE  SlotsOf(r, handler, Everyone)' = {}
      <3>1. PICK h : h = handler'
        OBVIOUS
      <3>2. h \in Receivers /\ SlotsOf(r, h, Everyone) = {}
        <4>1. CASE handler' = handler
          BY <1>0, <2>1, <2>5, <3>1, <4>1 DEF Silent, ListenersTypeOK
        <4>2. CASE h = q /\ Clean(r, q)
          BY <1>0, <4>2 DEF Clean
        <4> QED
          BY <1>2, <2>1, <3>1, <4>1, <4>2, HandlerStep DEF Moves
      <3>3. SlotsOf(r, h, Everyone)' = {}
        BY <2>4, <3>2
      <3> QED
        BY <3>1, <3>3 DEF SlotsOf
    <2>6. ASSUME dpc \in {"copy", "signal"} PROVE SlotsOf(r, dptr, Everyone)' = {}
      <3>1. PICK h : h = dptr
        OBVIOUS
      <3>2. h \in Receivers /\ SlotsOf(r, h, Everyone) = {}
        BY <1>0, <2>1, <2>6, <3>1 DEF Silent, UsedWasSet, DispatcherUses
      <3>3. SlotsOf(r, h, Everyone)' = {}
        BY <2>4, <3>2
      <3> QED
        BY <2>2, <3>1, <3>3 DEF SlotsOf
    <2> QED
      BY <2>1, <2>2, <2>3, <2>5, <2>6 DEF Silent
  <1>3. ASSUME ElseMoves
        PROVE  /\ UNCHANGED <<receiverVars, handler>> /\ (shm_shutdown => shm_shutdown')
               /\ \A h \in Receivers : slots'[h][Everyone] \subseteq slots[h][Everyone]
    BY <1>0, <1>3, AllKept, DispatcherMoves DEF ElseMoves
  <1>4. ASSUME ElseMoves, mustNot' = mustNot, heard'[r] = heard[r], local' \subseteq local,
               (dpc' = "test" /\ ~shm_shutdown') => dpc = "test", dpc' = "get" => dpc = "get" \/ (dpc = "test" /\ ~shm_shutdown),
               dpc' \in {"copy", "signal"} => (dpc \in {"copy", "signal"} /\ dptr' = dptr) \/ (dpc = "get" /\ dptr' = handler /\ handler # Nobody)
        PROVE  Silent(r)'
    <2>1. Silent(r) /\ r \in Receivers
      BY <1>1, <1>4
    <2>2. UNCHANGED <<receiverVars, handler>> /\ (shm_shutdown => shm_shutdown')
      BY <1>3, <1>4
    <2>3. \A h \in Receivers : SlotsOf(r, h, Everyone) = {} => SlotsOf(r, h, Everyone)' = {}
      BY <1>3, <1>4 DEF SlotsOf
    <2>4. ASSUME (dpc' = "test" /\ ~shm_shutdown') \/ dpc' = "get", handler # Nobody
          PROVE  SlotsOf(r, handler, Everyone)' = {}
      <3>1. PICK h : h = handler
        OBVIOUS
      <3>2. h \in Receivers /\ SlotsOf(r, h, Everyone) = {}
        BY <1>0, <1>4, <2>1, <2>2, <2>4, <3>1 DEF Silent, ListenersTypeOK
      <3> QED
        BY <2>2, <2>3, <3>1, <3>2 DEF SlotsOf
    <2>5. ASSUME dpc' \in {"copy", "signal"} PROVE SlotsOf(r, dptr, Everyone)' = {}
      <3>1. PICK h : h = dptr'
        OBVIOUS
      <3>2. h \in Receivers /\ SlotsOf(r, h, Everyone) = {}
        BY <1>0, <1>4, <2>1, <2>5, <3>1 DEF Silent, ListenersTypeOK, UsedWasSet, DispatcherUses
      <3>3. SlotsOf(r, h, Everyone)' = {}
        BY <2>3, <3>2
      <3> QED
        BY <3>1, <3>3 DEF SlotsOf
    <2> QED
      BY <1>4, <2>1, <2>2, <2>4, <2>5 DEF Silent, receiverVars
  <1>5. CASE TestShutdown \/ ListenTimesOut \/ TestShutdownAgain \/ GetHandler \/ CastHandler \/ UnlockSegments
    BY <1>4, <1>5 DEF TestShutdown, ListenTimesOut, TestShutdownAgain, GetHandler, CastHandler, UnlockSegments, history,
                      ElseMoves, DispatchStep
  <1>6. ASSUME NEW s \in Senders, ListenReturns(s) PROVE Silent(r)'
    BY <1>4, <1>6 DEF ListenReturns, history, ElseMoves, DispatchStep
  <1>7. CASE LockSegments
    <2>1. r \in Receivers /\ (opposite[r] # Everyone \/ (shm_pc[r] = "idle" /\ ~enabled[r]))
      BY <1>7 DEF LockSegments, Wants
    <2>2. heard'[r] = 0 /\ local' = {} /\ dpc' \in {"test", "listen"} /\ ElseMoves /\ UNCHANGED <<handler, slots, shm_shutdown, receiverVars>>
      BY <1>0, <1>7, <2>1 DEF LockSegments, CalledOnce, ElseMoves, DispatchStep, registryVars
    <2>3. ~shm_shutdown /\ handler # Nobody => SlotsOf(r, handler, Everyone) = {}
      BY <2>1, NotForEveryone
    <2>4. ~shm_shutdown /\ handler # Nobody => SlotsOf(r, handler, Everyone)' = {}
      BY <2>2, <2>3 DEF SlotsOf
    <2> QED
      BY <2>1, <2>2, <2>4 DEF Silent, receiverVars
  <1>8. CASE CopySlots
    <2>1. Silent(r) /\ UNCHANGED <<opposite, shm_pc, enabled, heard>> /\ dpc' \in {"calls", "mycalls"}
      BY <1>1, <1>8 DEF CopySlots, history, receiverVars
    <2>2. \A k \in local' : k[1] # r
      BY <1>0, <1>8, <2>1 DEF CopySlots, SenderHash, ConnectionsAreOwn, UsedWasSet, DispatcherUses, Silent, SlotsOf
    <2> QED
      BY <2>1, <2>2 DEF Silent
  <1>9. CASE SkipSlot \/ CallbackEnds
    BY <1>4, <1>9 DEF SkipSlot, CallbackEnds, history, ElseMoves, DispatchStep
  <1>10. CASE CallSlot
    <2>1. PICK slot \in local \cap connected : local' = local \ {slot} /\ heard' = [heard EXCEPT ![slot[1]] = @ + 1]
      BY <1>10 DEF CallSlot
    <2>2. mustNot' = mustNot /\ dpc \in {"calls", "mycalls"} /\ dpc' = dpc /\ ElseMoves
      BY <1>10 DEF CallSlot, history, ElseMoves, DispatchStep
    <2>3. slot[1] # r /\ r \in Receivers
      BY <1>1, <2>1, <2>2 DEF Silent
    <2>4. heard'[r] = heard[r]
      BY <1>0, <2>1, <2>3 DEF ListenersTypeOK
    <2> QED
      BY <1>4, <2>1, <2>2, <2>4
  <1>11. CASE ClearDisconnectedSlots
    BY <1>4, <1>11 DEF ClearDisconnectedSlots, history, ElseMoves, DispatchStep
  <1>12. CASE BeginShutdown \/ Join \/ ClearSegments
    <2>1. UNCHANGED <<mustNot, dpc, dptr, heard, local>> /\ ElseMoves /\ (shm_shutdown => shm_shutdown')
      BY <1>3, <1>12 DEF BeginShutdown, Join, ClearSegments, history, dispatchVars, ElseMoves
    <2>2. dpc \in {"copy", "signal"} => dptr' = dptr
      BY <2>1
    <2> QED
      BY <1>4, <2>1, <2>2
  <1>13. CASE UNCHANGED listenersVars
    BY <1>1, <1>13 DEF Silent, SlotsOf, listenersVars, registryVars, receiverVars, dispatchVars, history
  <1> QED
    BY <1>2, <1>5, <1>6, <1>7, <1>8, <1>9, <1>10, <1>11, <1>12, <1>13, EveryStep DEF ElseMoves, DispatchStep

-----------------------------------------------------------------------------
(* Listeners: the theorems *)

\* The inductive invariant holds in every state.
THEOREM ListenersInvariance == ListenersSpec => []ListenersInv
  <1>1. ListenersInv /\ [ListenersNext]_listenersVars => ListenersInv'
    <2> SUFFICES ASSUME ListenersInv, [ListenersNext]_listenersVars PROVE ListenersInv'
      OBVIOUS
    <2>1. ListenersTypeOK'
      BY ListenersTypeStep DEF ListenersInv
    <2>2. FreshKnowsNobody' /\ UsedWasSet' /\ ConnectionsAreOwn' /\ SlotsArePlaced'
      BY FreshStep, UsedStep, OwnStep, PlacedStep
    <2>3. OneHandler' /\ EnabledIsConnected' /\ OneSlotEach' /\ CalledOnce' /\ MustWillHear' /\ MustNotIsSilent'
      BY OneHandlerStep, ConnectedStep, OneEachStep, CalledStep, MustStep, MustNotStep
    <2> QED
      BY <2>1, <2>2, <2>3 DEF ListenersInv
  <1> QED
    BY <1>1, ListenersInitEstablishes, PTL DEF ListenersSpec

\* Who is enabled throughout a dispatch hears every message for all senders,
\* unless a handler was lost or the dispatcher shuts down, and nobody hears a
\* message twice: for any receivers, senders and calls.
THEOREM WhoIsEnabledHears == ListenersSpec => []EnabledHears
  <1>1. ListenersInv => EnabledHears
    BY DEF ListenersInv, EnabledHears, ListenersTypeOK, MustWillHear, CalledOnce
  <1> QED
    BY <1>1, ListenersInvariance, PTL

\* Who is disabled throughout a dispatch, or listens to another sender, is not
\* called, whatever is lost or shut down.
THEOREM WhoIsDisabledIsSilent == ListenersSpec => []DisabledIsSilent
  <1>1. ListenersInv => DisabledIsSilent
    BY DEF ListenersInv, DisabledIsSilent, MustNotIsSilent
  <1> QED
    BY <1>1, ListenersInvariance, PTL

\* No thread finds the handler it has looked up deleted, although Get returns an
\* address, unless two threads have both found no handler and set one each.
NoHandlerIsGone == ~raced => dpc # "fault" /\ \A r \in Receivers : shm_pc[r] # "fault"

\* Nobody uses a handler that is gone, for any receivers, senders and calls.
THEOREM HandlersStay == ListenersSpec => []NoHandlerIsGone
  <1>1. ListenersInv => NoHandlerIsGone
    BY DEF ListenersInv, NoHandlerIsGone, OneHandler
  <1> QED
    BY <1>1, ListenersInvariance, PTL

====
