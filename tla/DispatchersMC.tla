---------------------------- MODULE DispatchersMC ----------------------------
(* Small instances of the two dispatchers at work: ShmDispatcher with the     *)
(* receivers of one channel, of which one hears everybody and the other       *)
(* everybody or one of two senders, and RtpsDispatcher with its participant.  *)
(* They share no state: one of them runs, and the other stays as it is.       *)
EXTENDS RtpsTransport, Listeners

CONSTANTS t1, t2, c1, c2, r1, r2, s1, s2

VARIABLES dispatcher   \* the one that runs

TwoThreads == {t1, t2}
TwoChannels == {c1, c2}
TwoReceivers == {r1, r2}
TwoSenders == {s1, s2}
OneIsFree == [r \in TwoReceivers |-> IF r = r1 THEN {Everyone} ELSE {Everyone, s1}]
ThreeAndTwo == [r \in TwoReceivers |-> IF r = r1 THEN 3 ELSE 2]

EitherInit == dispatcher \in {"shm", "rtps"} /\ Init /\ ListenersInit

EitherNext ==
    /\ \/ dispatcher = "rtps" /\ Next /\ UNCHANGED listenersVars
       \/ dispatcher = "shm" /\ ListenersNext /\ UNCHANGED vars
    /\ UNCHANGED dispatcher

\* The fairness of ListenersFairSpec.
EitherSpec ==
    /\ EitherInit /\ [][EitherNext]_<<dispatcher, vars, listenersVars>>
    /\ \A r \in Receivers : WF_listenersVars(dispatcher = "shm" /\ ReceiverStep(r))
    /\ WF_listenersVars(dispatcher = "shm" /\ DispatchStep)
    /\ WF_listenersVars(dispatcher = "shm" /\ (Join \/ ClearSegments))
=============================================================================
