----------------------------- MODULE Snapshots -----------------------------
(***************************************************************************)
(* Home snapshots of the ARM64 port (arch/arm64/snap.c): ~ is copied into  *)
(* ~/SNAP/<n>/, a snapshot counts once its _DONE marker is written, the    *)
(* newest SNAP_KEEP are kept, restore puts one back, and a backup from the *)
(* Mac is unpacked over the home behind a fresh snapshot.                  *)
(*                                                                         *)
(* A call runs to its end in the one poll loop, but the power can go       *)
(* between any two calls to the FAT driver, each of which is atomic        *)
(* (FatFs) and, if it writes, may be refused.  Reads are taken to succeed. *)
(* A path stands for a file, whatever folder it is in; a folder is listed  *)
(* in the order of its entries and up to its ListMax'th.                   *)
(***************************************************************************)
EXTENDS Integers, FiniteSets, FiniteSetsExt

CONSTANTS
  NPaths,      \* paths of a home, in the order of their folder entries
  Contents,    \* contents of the user's files that a snapshot takes
  Packs,       \* backups: the files that each holds
  Keep,        \* SNAP_KEEP
  ListMax,     \* SNAP_LIST_MAX
  MaxId,       \* bound: snapshot numbers
  MaxEdits, MaxCuts, MaxFaults   \* bounds: the user's edits, power cuts, refused writes

Paths == 1..NPaths
Ids == 1..MaxId
None == 0            \* no file, no snapshot
Big == -1            \* a file over SNAP_FILE_MAX
Marker == NPaths + 1 \* _DONE, the last entry of its folder

ASSUME SnapAssumption ==
  /\ NPaths \in Nat \ {0} /\ Keep \in Nat \ {0} /\ ListMax \in Nat \ {0} /\ MaxId \in Nat
  /\ MaxEdits \in Nat /\ MaxCuts \in Nat /\ MaxFaults \in Nat
  /\ Contents \subseteq Nat \ {None} /\ Packs \subseteq [Paths -> Nat]

VARIABLES
  home,      \* home[p]: what the file p holds
  snaps,     \* snaps[n]: the folder SNAP/n
  pc,        \* the call's place
  op,        \* its variables
  taken,     \* history: taken[n], the home when snapshot n was begun
  condemned, \* history: snapshots that a take has begun to drop as the oldest
  before,    \* history: the home a backup was unpacked over, until the next call or edit
  edits, cuts, faults

vars == <<home, snaps, pc, op, taken, condemned, before, edits, cuts, faults>>
bounds == <<edits, cuts, faults>>

Empty == [p \in Paths |-> None]
NoSnap == [there |-> FALSE, done |-> FALSE, files |-> Empty]
NoOp == [call |-> "none", id |-> None, unfinished |-> {}, done |-> {}, victim |-> None,
         why |-> "none", left |-> {}, gone |-> FALSE, listed |-> {}, pack |-> Empty, ok |-> FALSE]

Present(files) == {p \in Paths : files[p] # None}
(* collect: the first ListMax entries of a folder. *)
Listed(entries) == {e \in entries : Cardinality({f \in entries : f < e}) < ListMax}
Entries(snap) == Present(snap.files) \cup (IF snap.done THEN {Marker} ELSE {})

There == {n \in Ids : snaps[n].there}
Done == {n \in Ids : snaps[n].done}

NoFault == faults' = faults
Refused == faults < MaxFaults /\ faults' = faults + 1

Return(ok) == pc' = "idle" /\ op' = [NoOp EXCEPT !.call = op.call, !.id = op.id,
                                           !.listed = op.listed, !.ok = ok]
-----------------------------------------------------------------------------
(* The user. *)

Edit(p) ==
  /\ pc = "idle" /\ edits < MaxEdits
  /\ \E c \in Contents \cup {None, Big} : c # home[p] /\ home' = [home EXCEPT ![p] = c]
  /\ edits' = edits + 1
  /\ op' = NoOp /\ before' = Empty
  /\ UNCHANGED <<snaps, pc, taken, condemned, cuts, faults>>

(* The power goes; nothing in memory is left. *)
PowerCut ==
  /\ pc # "idle" /\ cuts < MaxCuts
  /\ cuts' = cuts + 1 /\ pc' = "idle" /\ op' = NoOp
  /\ UNCHANGED <<home, snaps, taken, condemned, before, edits, faults>>
-----------------------------------------------------------------------------
(* wipe, drop: the entries that are listed, again and again, as long as    *)
(* one goes in a pass; then the folder.                                    *)
Wiping(n, why, rest) ==
  /\ pc' = "wipe"
  /\ op' = [rest EXCEPT !.victim = n, !.why = why, !.gone = FALSE,
                        !.left = Listed(Entries(snaps[n]))]

Without(snap, e) ==
  IF e = Marker THEN [snap EXCEPT !.done = FALSE] ELSE [snap EXCEPT !.files[e] = None]
WipeEntry ==
  /\ pc = "wipe" /\ op.left # {}
  /\ LET e == Min(op.left)
     IN  \/ /\ NoFault
            /\ snaps' = [snaps EXCEPT ![op.victim] = Without(@, e)]
            /\ op' = [op EXCEPT !.left = @ \ {e}, !.gone = TRUE]
         \/ Refused /\ op' = [op EXCEPT !.left = @ \ {e}] /\ UNCHANGED snaps
  /\ UNCHANGED <<home, pc, taken, condemned, before, edits, cuts>>

(* A drop has ended.  That of an unfinished snapshot is not looked at, the *)
(* oldest must have gone, and a take that failed is over.                  *)
Dropped(ok) ==
  IF op.why = "undo" \/ (op.why = "oldest" /\ ~ok) THEN Return(FALSE)
  ELSE pc' = "choose" /\ op' = [op EXCEPT !.done = @ \ {op.victim}]
WipePass ==
  /\ pc = "wipe" /\ op.left = {}
  /\ IF Entries(snaps[op.victim]) = {}
     THEN \/ /\ NoFault /\ Dropped(TRUE)
             /\ snaps' = [snaps EXCEPT ![op.victim] = NoSnap]
             /\ taken' = [taken EXCEPT ![op.victim] = Empty]
             /\ condemned' = condemned \ {op.victim}
          \/ Refused /\ Dropped(FALSE) /\ UNCHANGED <<snaps, taken, condemned>>
     ELSE /\ NoFault /\ UNCHANGED <<snaps, taken, condemned>>
          /\ IF op.gone THEN Wiping(op.victim, op.why, op) ELSE Dropped(FALSE)
  /\ UNCHANGED <<home, before, edits, cuts>>
-----------------------------------------------------------------------------
(* snap_take. *)

(* list_ids, twice: all there are, and those that are done.  The number is *)
(* chosen before anything is dropped.                                      *)
Begin(call, pack) ==
  LET next == IF There = {} THEN 1 ELSE Max(There) + 1
  IN  /\ pc = "idle" /\ next <= MaxId
      /\ pc' = "choose"
      /\ op' = [NoOp EXCEPT !.call = call, !.id = next, !.unfinished = There \ Done,
                            !.done = Done, !.pack = pack]
      /\ before' = Empty
      /\ UNCHANGED <<home, snaps, taken, condemned, bounds>>
Take == Begin("take", Empty)
(* snap_unpack, of a container that has been checked. *)
Unpack == \E pack \in Packs : Begin("unpack", pack)

TooMany_Mut(done) == Cardinality(done) > Keep      \* mutated: one more kept
TooMany(done) == Cardinality(done) >= Keep
Oldest_Mut(done) == Max(done)      \* mutated: the newest goes
Oldest(done) == Min(done)
Unfinished_Mut == {}      \* mutated: what was cut short stays
Unfinished == op.unfinished
Choose ==
  /\ pc = "choose"
  /\ IF Unfinished # {}
     THEN LET n == Min(Unfinished)
          IN  Wiping(n, "unfinished", [op EXCEPT !.unfinished = @ \ {n}]) /\ UNCHANGED condemned
     ELSE IF TooMany(op.done)
     THEN LET n == Oldest(op.done)
          IN  Wiping(n, "oldest", op) /\ condemned' = condemned \cup {n}
     ELSE pc' = "make" /\ UNCHANGED <<op, condemned>>
  /\ UNCHANGED <<home, snaps, taken, before, bounds>>

(* mkdir; then copy_tree begins, over what is listed and not too big.      *)
Copied_Mut(files) == Listed(Present(files))      \* mutated: of any size
Copied(files) == {p \in Listed(Present(files)) : files[p] # Big}
Make ==
  /\ pc = "make"
  /\ \/ /\ NoFault
        /\ snaps' = [snaps EXCEPT ![op.id] = [NoSnap EXCEPT !.there = TRUE]]
        /\ taken' = [taken EXCEPT ![op.id] = home]
        /\ pc' = "copy" /\ op' = [op EXCEPT !.left = Copied(home)]
     \/ Refused /\ Return(FALSE) /\ UNCHANGED <<snaps, taken>>
  /\ UNCHANGED <<home, condemned, before, edits, cuts>>

CopyFile ==
  /\ pc = "copy" /\ op.left # {}
  /\ LET p == Min(op.left)
     IN  \/ /\ NoFault
            /\ snaps' = [snaps EXCEPT ![op.id].files[p] = home[p]]
            /\ op' = [op EXCEPT !.left = @ \ {p}] /\ UNCHANGED pc
         \/ Refused /\ Wiping(op.id, "undo", op) /\ UNCHANGED snaps
  /\ UNCHANGED <<home, taken, condemned, before, edits, cuts>>

(* _DONE; then a take returns, and an unpack begins.                       *)
MarkTime_Mut == pc = "copy"      \* mutated: the marker written first
MarkTime == pc = "copy" /\ op.left = {}
Mark ==
  /\ MarkTime
  /\ \/ /\ NoFault
        /\ snaps' = [snaps EXCEPT ![op.id].done = TRUE]
        /\ IF op.call = "take" THEN Return(TRUE) /\ UNCHANGED before
           ELSE /\ pc' = "unpack" /\ before' = home
                /\ op' = [op EXCEPT !.left = Present(op.pack)]
     \/ Refused /\ Wiping(op.id, "undo", op) /\ UNCHANGED <<snaps, before>>
  /\ UNCHANGED <<home, taken, condemned, edits, cuts>>
-----------------------------------------------------------------------------
(* unpack, writing: a file that is here goes over only if the snapshot     *)
(* holds it.                                                               *)
LeftAlone_Mut(p) == home[p] = Big      \* mutated: only what is too big is left alone
LeftAlone(p) == home[p] # None /\ snaps[op.id].files[p] = None
UnpackFile ==
  /\ pc = "unpack" /\ op.left # {}
  /\ LET p == Min(op.left)
     IN  \/ /\ NoFault
            /\ home' = [home EXCEPT ![p] = IF LeftAlone(p) THEN @ ELSE op.pack[p]]
            /\ op' = [op EXCEPT !.left = @ \ {p}] /\ UNCHANGED pc
         \/ ~LeftAlone(p) /\ Refused /\ Return(FALSE) /\ UNCHANGED home
  /\ UNCHANGED <<snaps, taken, condemned, before, edits, cuts>>
-----------------------------------------------------------------------------
(* snap_restore: the snapshot is copied over the home, then what it lacks  *)
(* is removed.                                                             *)
Restore(n) ==
  /\ pc = "idle" /\ n \in Done
  /\ pc' = "restore"
  /\ op' = [NoOp EXCEPT !.call = "restore", !.id = n, !.left = Copied(snaps[n].files)]
  /\ before' = Empty
  /\ UNCHANGED <<home, snaps, taken, condemned, bounds>>

RestoreFile ==
  /\ pc = "restore" /\ op.left # {}
  /\ LET p == Min(op.left)
     IN  \/ /\ NoFault
            /\ home' = [home EXCEPT ![p] = snaps[op.id].files[p]]
            /\ op' = [op EXCEPT !.left = @ \ {p}] /\ UNCHANGED pc
         \/ Refused /\ Return(FALSE) /\ UNCHANGED home
  /\ UNCHANGED <<snaps, taken, condemned, before, edits, cuts>>

Prunable_Mut(files) == {p \in Listed(Present(home)) : home[p] # Big /\ files[p] # None}      \* mutated: swapped
Prunable(files) == {p \in Listed(Present(home)) : home[p] # Big /\ files[p] = None}
StartPrune ==
  /\ pc = "restore" /\ op.left = {}
  /\ pc' = "prune"
  /\ op' = [op EXCEPT !.left = Prunable(snaps[op.id].files), !.listed = Listed(Present(home))]
  /\ UNCHANGED <<home, snaps, taken, condemned, before, bounds>>
PruneFile ==
  /\ pc = "prune" /\ op.left # {}
  /\ LET p == Min(op.left)
     IN  \/ /\ NoFault
            /\ home' = [home EXCEPT ![p] = None]
            /\ op' = [op EXCEPT !.left = @ \ {p}] /\ UNCHANGED pc
         \/ Refused /\ Return(FALSE) /\ UNCHANGED home
  /\ UNCHANGED <<snaps, taken, condemned, before, edits, cuts>>

AllWritten ==
  /\ pc \in {"unpack", "prune"} /\ op.left = {}
  /\ Return(TRUE)
  /\ UNCHANGED <<home, snaps, taken, condemned, before, bounds>>
-----------------------------------------------------------------------------
Init ==
  /\ home \in [Paths -> Contents \cup {None, Big}]
  /\ snaps = [n \in Ids |-> NoSnap]
  /\ pc = "idle" /\ op = NoOp
  /\ taken = [n \in Ids |-> Empty] /\ condemned = {} /\ before = Empty
  /\ edits = 0 /\ cuts = 0 /\ faults = 0

Call == \/ WipeEntry \/ WipePass \/ Choose \/ Make \/ CopyFile \/ Mark
        \/ UnpackFile \/ RestoreFile \/ StartPrune \/ PruneFile \/ AllWritten
Next ==
  \/ \E p \in Paths : Edit(p)
  \/ Take \/ Unpack \/ \E n \in Ids : Restore(n)
  \/ Call \/ PowerCut

Spec == Init /\ [][Next]_vars
-----------------------------------------------------------------------------
(* Correctness. *)

Files == [Paths -> Nat \cup {Big}]
(* Every variable stays in its range; a marker is only in a folder that is *)
(* there, and no snapshot holds a file that is too big.                    *)
TypeOK ==
  /\ home \in Files /\ taken \in [Ids -> Files] /\ before \in Files
  /\ snaps \in [Ids -> [there: BOOLEAN, done: BOOLEAN, files: [Paths -> Nat]]]
  /\ \A n \in Ids : ~snaps[n].there => snaps[n] = NoSnap
  /\ pc \in {"idle", "choose", "wipe", "make", "copy", "unpack", "restore", "prune"}
  /\ op.left \subseteq 1..Marker /\ op.id \in Ids \cup {None}
  /\ condemned \subseteq Ids

(* What snapshot n should hold. *)
Whole(n) == \A p \in Paths : snaps[n].files[p] = IF p \in Copied(taken[n]) THEN taken[n][p] ELSE None

(* A snapshot that counts is whole: "one cut short by a pulled card is     *)
(* ignored" (snap.h:7-8).                                                  *)
DoneIsWhole == \A n \in Done : Whole(n)

(* Every snapshot that counts is the home as it was when it was taken,     *)
(* whatever was cut or refused since, but for the one that a take has      *)
(* begun to drop as the oldest.                                            *)
DoneIsWholeNewest == \A n \in Done \ condemned : Whole(n)

(* No more than SNAP_KEEP snapshots count. *)
AtMostKeep == Cardinality(Done) <= Keep

(* The snapshots that count are few and true, whatever was cut or refused. *)
SnapshotsSound == TypeOK /\ DoneIsWholeNewest /\ AtMostKeep

(* A take, cut or refused anywhere and begun as often as one likes, leaves *)
(* the newest SNAP_KEEP - 1 snapshots whole.                               *)
Sound == {n \in Done : Whole(n)}
NewestKept ==
  [][\A n \in Sound : n \notin Sound' => Cardinality({m \in Sound' : m > n}) >= Keep - 1]_vars

(* A take that succeeds on a card that works has cleaned up after every    *)
(* one that was cut short: only snapshots that count are there.            *)
NoLitter == op.call \in {"take", "unpack"} /\ op.ok /\ faults = 0 => There = Done

(* Unpacking a backup loses nothing: until the home is touched again, what *)
(* was in it is there or in the snapshot taken before, however the         *)
(* unpacking ended ("only when the snapshot holds it", snap.c:221-222).    *)
UnpackLosesNothing ==
  \A p \in Present(before) :
    home[p] = before[p] \/ \E n \in Done : snaps[n].files[p] = before[p] /\ Whole(n)

(* A restore that succeeds leaves the home as the snapshot has it, but for *)
(* the files that are too big or lay past the listed entries.              *)
RestoreExact ==
  op.call = "restore" /\ op.ok =>
    \A p \in Paths :
      \/ snaps[op.id].files[p] = home[p]
      \/ snaps[op.id].files[p] = None /\ (home[p] = Big \/ p \notin op.listed)
=============================================================================
