---------------------------- MODULE MCSnapshots ----------------------------
(* Snapshots for TLC: backups of every path, and of the last path alone,   *)
(* whose files differ from those the user writes.                          *)
EXTENDS Snapshots

MCPacks == {[p \in Paths |-> 2], [p \in Paths |-> IF p = NPaths THEN 2 ELSE None]}
=============================================================================
