---------------------------- MODULE MCR3Window ----------------------------
(* R3Window for TLC.  A run stops at a double free, after which the heap   *)
(* is anyone's; and it has either windows that keep their size, or one     *)
(* program whose window is resized.                                        *)
EXTENDS R3Window

OneSize ==
  LET only == <<Min(Widths), Min(Heights)>>
  IN  /\ \A i \in DOMAIN windows : windows[i].size = only
      /\ \A r \in Rows : {rows[r].size, rows[r].want} \subseteq {only, NoSize} /\ rows[r].old = None
OneProgram ==
  /\ \A t \in Tasks \ {1} : ~used[t]
  /\ \A r \in Rows \ {1} : rows[r].task = None
  /\ Len(windows) <= 1 /\ refused = {}
MCBound == FreedOnce /\ (OneSize \/ OneProgram)
=============================================================================
