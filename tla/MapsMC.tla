-------------------------------- MODULE MapsMC -------------------------------
(* A small instance of GlobalData's table of channels, where two names have   *)
(* the same hash and that of the third is next to it, and one of the map in   *)
(* which it is kept, with two keys in a bucket and addresses that are used    *)
(* again.  The calls of the table take effect at one moment, as those of the  *)
(* map do: each is looked at without the other, one of them runs.             *)
EXTENDS ChannelRegistry, AtomicHashMap, TLC

CONSTANTS t1, t2, n1, n2, n3, a1, a2, a3, a4

VARIABLE running   \* the one that runs

TwoThreads == {t1, t2}
ThreeNames == {n1, n2, n3}
CloseHashes == (n1 :> 2) @@ (n2 :> 2) @@ (n3 :> 0)
FourAddresses == {a1, a2, a3, a4}

\* Which key the request of nobody has makes no difference.
EitherInit == running \in {"table", "bucket"} /\ RegistryInit /\ MapInit /\ request[t1].key = 1

EitherNext ==
    /\ \/ running = "table" /\ RegistryNext /\ UNCHANGED mapVars
       \/ running = "bucket" /\ MapNext /\ UNCHANGED registryVars
    /\ UNCHANGED running

EitherSpec == EitherInit /\ [][EitherNext]_<<running, registryVars, mapVars>>

AnyOrder == Permutations(TwoThreads) \cup Permutations(FourAddresses)
=============================================================================
