---------------------------- MODULE BlockRingMC -----------------------------
(* A small instance of BlockRing: two writers and a reader on two blocks,   *)
(* and two processes that may die while they hold one: all blocks may stay  *)
(* locked.                                                                  *)
EXTENDS BlockRing

CONSTANTS w1, w2, r1, m1

TwoWriters == {w1, w2}
OneReader  == {r1}
OneMessage  == {m1}
=============================================================================
