------------------------ MODULE ConditionNotifierMC -------------------------
(* Small instances of ConditionNotifier: a ring of two slots, so that it    *)
(* laps after two announcements.                                            *)
EXTENDS ConditionNotifier, TLC

CONSTANTS n1, n2, l1, c1

OneNotifier == {n1}
TwoNotifiers == {n1, n2}
OneListener == {l1}
OneChannel == {c1}
TwoBlocks == {0, 1}

NotifierSymmetry == Permutations(TwoNotifiers)
=============================================================================
