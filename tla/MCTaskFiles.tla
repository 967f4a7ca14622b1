---------------------------- MODULE MCTaskFiles ----------------------------
(* TaskFiles for TLC: one file on a backend with room for whatever an open *)
(* file holds, one on a backend that keeps a byte (ramfs).                 *)
EXTENDS TaskFiles, TLC

CONSTANTS disk, ram, x, y

MCCap == [f \in Names |-> IF f = ram THEN 1 ELSE OpenMax]
MCInitially == {[f \in Names |-> IF f = ram THEN r ELSE <<x>>] : r \in {<<>>, <<x>>}}
MCSymmetry == Permutations(Data)
=============================================================================
