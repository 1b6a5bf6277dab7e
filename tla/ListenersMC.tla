---------------------------- MODULE ListenersMC -----------------------------
(* A small instance of Listeners: one receiver hears everybody, the other   *)
(* everybody or one of two senders.                                         *)
EXTENDS Listeners

CONSTANTS r1, r2, s1, s2

TwoReceivers == {r1, r2}
TwoSenders == {s1, s2}
OneIsFree == [r \in TwoReceivers |-> IF r = r1 THEN {Everyone} ELSE {Everyone, s1}]
ThreeAndTwo == [r \in TwoReceivers |-> IF r = r1 THEN 3 ELSE 2]
=============================================================================
