------------------------------ MODULE MCFatFs ------------------------------
(* FatFs on a small volume: the constants a .cfg cannot write. *)
EXTENDS FatFs, TLC

CONSTANTS p, q

(* Clusters 1 and 2 share a FAT sector; the others are in the next one. *)
MCRow == [c \in 1..NClusters |-> IF c <= 2 THEN 0 ELSE 1]

(* Files of no, one and two clusters. *)
MCWritten == {<<>>, <<q>>, <<p, q>>}
MCWrittenFull == {<<q>>, <<p, q>>}
MCWrittenLong == {<<p, q>>}

NameSymmetry == Permutations(Names)

(* Runs that are not about the read cursor leave reads out. *)
NoReads == at = NoAt

(* What the mount left is history: no step looks at it, and runs whose     *)
(* properties do not speak of it need not tell states apart by it.         *)
NoHistory == <<fat, disk, fsinfo, mounted, fsDone, hint, at, op>>
=============================================================================
