--------------------------- MODULE Snapshots_proofs ---------------------------
(***************************************************************************)
(* What TLAPS proves of Snapshots, for homes of any size, listings of any  *)
(* length, any number of snapshots kept, and any number of edits, power    *)
(* cuts and refused writes: everything the run snap_cuts checks.           *)
(***************************************************************************)
EXTENDS Snapshots, WellFoundedInduction, FiniteSetTheorems, TLAPS

(* The order of the naturals, as a well-founded relation.                  *)
LEMMA LessFact == \E R : IsWellFoundedOn(R, Nat) /\ \A x, y \in Nat : x < y => <<x, y>> \in R
<1>1. \A x, y \in Nat : x < y => <<x, y>> \in OpToRel(<, Nat)
  BY Zenon DEF OpToRel
<1>2. IsWellFoundedOn(OpToRel(<, Nat), Nat)
  BY Zenon, NatLessThanWellFounded
<1> QED BY Zenon, <1>1, <1>2

LEMMA FirstFact ==
  ASSUME NEW R, IsWellFoundedOn(R, Nat), NEW T, T \subseteq Nat, T # {}
  PROVE  \E x \in T : \A y \in T : ~(<<y, x>> \in R)
BY Zenon, WFMin

(* A set of naturals has a least element, and Min is it.                   *)
LEMMA MinFact ==
  ASSUME NEW S, S \subseteq Nat, S # {}
  PROVE  Min(S) \in S /\ \A x \in S : Min(S) <= x
<1>1. PICK R : IsWellFoundedOn(R, Nat) /\ \A x, y \in Nat : x < y => <<x, y>> \in R
  BY LessFact
<1>2. PICK x \in S : \A y \in S : ~(<<y, x>> \in R)
  BY Zenon, <1>1, FirstFact
<1>3. ASSUME NEW y \in S PROVE x <= y
  <2>1. ~(y < x)
    BY <1>1, <1>2
  <2>2. x \in Nat /\ y \in Nat
    OBVIOUS
  <2> QED BY <2>1, <2>2
<1> QED BY <1>3 DEF Min

(* One with a bound has a greatest, and Max is it.                         *)
LEMMA MaxFact ==
  ASSUME NEW k \in Nat, NEW S, S \subseteq 0..k, S # {}
  PROVE  Max(S) \in S /\ \A x \in S : x <= Max(S)
<1> DEFINE T == {k - x : x \in S}
<1>1. T \subseteq Nat /\ T # {}
  <2>1. \A x \in S : k - x \in Nat
    OBVIOUS
  <2>2. PICK x : x \in S
    OBVIOUS
  <2>3. k - x \in T
    BY <2>2
  <2> QED BY <2>1, <2>3
<1>2. Min(T) \in T /\ \A y \in T : Min(T) <= y
  BY <1>1, MinFact
<1>3. PICK m \in S : Min(T) = k - m
  BY <1>2
<1>4. ASSUME NEW x \in S PROVE x <= m
  <2>1. k - x \in T
    OBVIOUS
  <2>2. k - m <= k - x
    BY <1>2, <1>3, <2>1
  <2> QED BY <2>2
<1> QED BY <1>4 DEF Max

Slots == 1..Marker

LEMMA Numbers ==
  /\ NPaths \in Nat /\ Keep \in Nat \ {0} /\ ListMax \in Nat \ {0} /\ MaxId \in Nat
  /\ Paths \subseteq Nat /\ Ids \subseteq Nat /\ Slots \subseteq Nat
  /\ None \notin Paths /\ None \notin Ids /\ None \in Nat /\ Big \notin Nat
  /\ Marker \notin Paths /\ Slots = Paths \cup {Marker}
  /\ Contents \subseteq Nat /\ Packs \subseteq [Paths -> Nat]
<1> USE SnapAssumption DEF SnapAssumption, None, Big, Paths, Ids, Marker, Slots
<1>1. NPaths \in Nat /\ MaxId \in Nat
  OBVIOUS
<1>2. 1..(NPaths + 1) = (1..NPaths) \cup {NPaths + 1}
  BY <1>1
<1>3. ~(NPaths + 1 \in 1..NPaths)
  BY <1>1
<1> QED BY <1>1, <1>2, <1>3

LEMMA Finite ==
  ASSUME NEW S
  PROVE  /\ S \subseteq Slots => IsFiniteSet(S)
         /\ S \subseteq Ids => IsFiniteSet(S) /\ Cardinality(S) \in Nat
<1>1. 1 \in Int /\ Marker \in Int /\ MaxId \in Int
  BY Numbers DEF Marker
<1>2. IsFiniteSet(1..Marker) /\ IsFiniteSet(1..MaxId)
  BY <1>1, FS_Interval
<1> QED BY <1>2, FS_Subset, FS_CardinalityType DEF Slots, Ids

(* A folder that is not empty lists something.                             *)
LEMMA ListedFact ==
  ASSUME NEW E, E \subseteq Slots
  PROVE  Listed(E) \subseteq E /\ (E # {} => Listed(E) # {})
<1>1. ASSUME E # {} PROVE Min(E) \in Listed(E)
  <2>1. Min(E) \in E /\ \A x \in E : Min(E) <= x
    BY <1>1, Numbers, MinFact
  <2>2. {f \in E : f < Min(E)} = {}
    <3>1. PICK m \in E : m = Min(E)
      BY <2>1
    <3>2. \A f \in E : m \in Nat /\ f \in Nat /\ m <= f
      BY <2>1, <3>1, Numbers
    <3>3. \A f \in E : ~(f < m)
      BY <3>2
    <3> QED BY <3>1, <3>3
  <2>3. Cardinality({f \in E : f < Min(E)}) = 0
    BY <2>2, FS_EmptySet
  <2> QED BY <2>1, <2>3, Numbers DEF Listed
<1> QED BY <1>1 DEF Listed

(* What was listed of a folder is all listed where it has been copied to.  *)
LEMMA SubListed ==
  ASSUME NEW E, E \subseteq Slots, NEW A, A \subseteq Listed(E)
  PROVE  Listed(A) = A
<1>1. ASSUME NEW e \in A PROVE Cardinality({f \in A : f < e}) < ListMax
  <2> DEFINE a == {f \in A : f < e}
             b == {f \in E : f < e}
  <2>1. a \subseteq b /\ IsFiniteSet(b)
    BY Finite DEF Listed
  <2>2. Cardinality(a) <= Cardinality(b) /\ Cardinality(a) \in Nat /\ Cardinality(b) \in Nat
    BY <2>1, FS_Subset, FS_CardinalityType
  <2>3. Cardinality(b) < ListMax
    BY DEF Listed
  <2> HIDE DEF a, b
  <2>4. Cardinality(a) < ListMax
    BY <2>2, <2>3, Numbers
  <2> QED BY <2>4 DEF a
<1> QED BY <1>1 DEF Listed

-----------------------------------------------------------------------------
(* The invariant. *)

Folders == [there: BOOLEAN, done: BOOLEAN, files: [Paths -> Nat]]
Calls == [call: {"none", "take", "unpack", "restore"}, id: Ids \cup {None},
          unfinished: SUBSET Ids, done: SUBSET Ids, victim: Ids \cup {None},
          why: {"none", "unfinished", "oldest", "undo"}, left: SUBSET Slots, gone: BOOLEAN,
          listed: SUBSET Paths, pack: [Paths -> Nat], ok: BOOLEAN]
TypeInv ==
  /\ home \in Files /\ taken \in [Ids -> Files] /\ before \in Files
  /\ snaps \in [Ids -> Folders]
  /\ \A n \in Ids : ~snaps[n].there => snaps[n] = NoSnap
  /\ pc \in {"idle", "choose", "wipe", "make", "copy", "unpack", "restore", "prune"}
  /\ op \in Calls
  /\ condemned \subseteq Ids /\ faults \in Nat

(* A snapshot holds nothing but what was to be copied; one that counts     *)
(* holds it all, unless it is the oldest and being dropped.                *)
FolderInv ==
  /\ \A n \in Ids, p \in Paths :
       snaps[n].files[p] # None => p \in Copied(taken[n]) /\ snaps[n].files[p] = taken[n][p]
  /\ \A n \in Done : n \notin condemned => Whole(n)
  /\ \A c \in condemned : c \in There /\ \A m \in Done : c <= m
  /\ AtMostKeep

(* The number of a new snapshot is above all there are; then it is the     *)
(* last.                                                                   *)
Fresh == /\ op.call \in {"take", "unpack"} /\ op.id \in Ids /\ op.id \notin There
         /\ \A n \in There : n < op.id
Latest == /\ op.call \in {"take", "unpack"} /\ op.id \in There
          /\ \A n \in There : n <= op.id
(* What was cut short is among S, if the card has taken every write.       *)
Litter(S) == faults = 0 => There \ Done \subseteq S

ChooseInv ==
  pc = "choose" => /\ Fresh /\ op.done = Done /\ op.unfinished \subseteq There \ Done
                   /\ Litter(op.unfinished)
WipeInv ==
  pc = "wipe" =>
    /\ op.victim \in There /\ op.why # "none"
    /\ op.why # "undo" =>
         /\ Fresh /\ op.done \ {op.victim} = Done \ {op.victim}
         /\ op.unfinished \subseteq There \ Done /\ op.victim \notin op.unfinished
         /\ Litter(op.unfinished \cup {op.victim})
    /\ op.why # "oldest" => op.victim \notin Done
    /\ op.why = "oldest" =>
         op.victim \in condemned /\ op.victim \in op.done /\ Keep <= Cardinality(op.done)
    /\ faults = 0 => op.why # "undo" /\ (~op.gone => op.left = Listed(Entries(snaps[op.victim])))
MakeInv == pc = "make" => Fresh /\ Cardinality(Done) < Keep /\ Litter({})
CopyInv ==
  pc = "copy" =>
    /\ Latest /\ op.id \notin Done /\ Cardinality(Done) < Keep /\ Litter({op.id})
    /\ home = taken[op.id] /\ op.left \subseteq Copied(home)
    /\ \A p \in Paths : snaps[op.id].files[p] =
                          IF p \in Copied(home) \ op.left THEN home[p] ELSE None
UnpackInv ==
  pc = "unpack" => /\ Latest /\ op.id \in Done /\ Whole(op.id) /\ Litter({})
                   /\ taken[op.id] = before /\ op.left \subseteq Paths
(* A restore has copied what is not left to copy, and then removed what is *)
(* listed, not too big and not left to remove.                             *)
RestoreInv ==
  pc \in {"restore", "prune"} =>
    /\ op.call = "restore" /\ op.id \in Ids /\ op.left \subseteq Paths
    /\ \A p \in Paths : snaps[op.id].files[p] # None /\ (pc = "prune" \/ p \notin op.left) =>
                          home[p] = snaps[op.id].files[p]
    /\ pc = "prune" =>
         /\ \A p \in op.left : snaps[op.id].files[p] = None
         /\ \A p \in op.listed : snaps[op.id].files[p] = None =>
                                   home[p] \in {None, Big} \/ p \in op.left
BeforeInv ==
  /\ pc \notin {"idle", "unpack"} => before = Empty
  /\ op.ok => pc = "idle"
CallInv == ChooseInv /\ WipeInv /\ MakeInv /\ CopyInv /\ UnpackInv /\ RestoreInv /\ BeforeInv

Results == NoLitter /\ UnpackLosesNothing /\ RestoreExact

Inv == TypeInv /\ FolderInv /\ CallInv /\ Results

LEMMA InvInit == Init => Inv
<1> SUFFICES ASSUME Init PROVE Inv
  OBVIOUS
<1>1. Empty \in Files /\ Empty \in [Paths -> Nat] /\ \A p \in Paths : Empty[p] = None
  BY Numbers DEF Empty, Files
<1>2. NoSnap \in Folders /\ NoSnap.done = FALSE /\ NoSnap.there = FALSE /\ NoSnap.files = Empty
  BY <1>1 DEF NoSnap, Folders
<1>3. NoOp \in Calls /\ NoOp.ok = FALSE
  BY <1>1 DEF NoOp, Calls
<1>4. TypeInv
  <2>1. home \in Files
    BY Numbers DEF Init, Files
  <2> QED BY <1>1, <1>2, <1>3, <2>1 DEF Init, TypeInv
<1>5. Done = {} /\ There = {}
  BY <1>2 DEF Init, Done, There
<1>6. FolderInv
  <2>1. Cardinality(Done) <= Keep
    BY <1>5, FS_EmptySet, Numbers
  <2> QED BY <1>1, <1>2, <1>5, <2>1 DEF Init, FolderInv, AtMostKeep
<1>7. CallInv
  BY <1>3 DEF Init, CallInv, ChooseInv, WipeInv, MakeInv, CopyInv, UnpackInv, RestoreInv, BeforeInv
<1>8. Results
  BY <1>1, <1>3 DEF Init, Results, NoLitter, UnpackLosesNothing, RestoreExact, Present
<1> QED BY <1>4, <1>6, <1>7, <1>8 DEF Inv

LEMMA SnapFact ==
  ASSUME TypeInv, NEW n \in Ids
  PROVE  /\ snaps[n] \in Folders /\ snaps[n].there \in BOOLEAN /\ snaps[n].done \in BOOLEAN
         /\ snaps[n].files \in [Paths -> Nat]
         /\ n \in Done => n \in There
         /\ n \in There <=> snaps[n].there
         /\ n \in Done <=> snaps[n].done
         /\ taken[n] \in Files
<1>1. snaps[n] \in Folders
  BY DEF TypeInv
<1>2. snaps[n].done => snaps[n].there
  <2>1. NoSnap.done = FALSE
    BY DEF NoSnap
  <2> QED BY <2>1 DEF TypeInv
<1> QED BY <1>1, <1>2 DEF Folders, There, Done, TypeInv

LEMMA EntriesFact ==
  ASSUME TypeInv, NEW n \in Ids
  PROVE  /\ Entries(snaps[n]) \subseteq Slots /\ Listed(Entries(snaps[n])) \subseteq Slots
         /\ Entries(snaps[n]) = {} => n \notin Done
<1>1. Entries(snaps[n]) \subseteq Slots
  BY Numbers DEF Entries, Present
<1> QED BY <1>1, ListedFact, SnapFact DEF Entries

(* Present, Listed and Copied of a home or of a snapshot.                  *)
LEMMA CopiedFact ==
  ASSUME NEW f
  PROVE  /\ Present(f) \subseteq Paths /\ Listed(Present(f)) \subseteq Paths
         /\ Copied(f) \subseteq Paths /\ Copied(f) \subseteq Listed(Present(f))
         /\ \A p \in Copied(f) : f[p] # None /\ f[p] # Big
<1>1. Present(f) \subseteq Paths /\ Present(f) \subseteq Slots
  BY Numbers DEF Present
<1>2. Listed(Present(f)) \subseteq Present(f)
  BY <1>1, ListedFact
<1> QED BY <1>1, <1>2 DEF Copied, Present

(* Everything a snapshot holds is copied back.                             *)
LEMMA AllCopied ==
  ASSUME TypeInv, FolderInv, NEW n \in Ids, NEW p \in Paths, snaps[n].files[p] # None
  PROVE  p \in Copied(snaps[n].files)
<1> DEFINE A == Present(snaps[n].files)
           E == Present(taken[n])
<1>1. A \subseteq Listed(E) /\ E \subseteq Slots
  <2>1. \A q \in A : q \in Copied(taken[n])
    BY DEF FolderInv, Present
  <2> QED BY <2>1, CopiedFact, Numbers
<1>2. Listed(A) = A
  BY <1>1, SubListed
<1>3. p \in A /\ snaps[n].files[p] \in Nat
  BY SnapFact DEF Present
<1> QED BY <1>2, <1>3, Numbers DEF Copied

-----------------------------------------------------------------------------
(* Every step keeps the invariant: what the steps share.                   *)

LEMMA Still ==
  ASSUME FolderInv, UNCHANGED <<snaps, taken, condemned>>
  PROVE  /\ FolderInv' /\ There' = There /\ Done' = Done
         /\ \A n : Whole(n)' = Whole(n)
BY DEF FolderInv, There, Done, AtMostKeep, Whole

LEMMA Idle == ASSUME pc' = "idle" PROVE CallInv'
BY DEF CallInv, ChooseInv, WipeInv, MakeInv, CopyInv, UnpackInv, RestoreInv, BeforeInv

(* A step after which nothing has been returned, and nothing unpacked.     *)
LEMMA Quiet == ASSUME before' = Empty, ~op'.ok PROVE Results'
<1>1. \A p \in Paths : before'[p] = None
  BY DEF Empty
<1> QED BY <1>1 DEF Results, NoLitter, UnpackLosesNothing, RestoreExact, Present

LEMMA SameHome ==
  ASSUME UnpackLosesNothing, UNCHANGED <<home, snaps, taken, before>>
  PROVE  UnpackLosesNothing'
BY DEF UnpackLosesNothing, Present, Done, Whole

LEMMA OpFact ==
  /\ Empty \in Files /\ Empty \in [Paths -> Nat] /\ \A p \in Paths : Empty[p] = None
  /\ NoSnap \in Folders /\ NoSnap.done = FALSE /\ NoSnap.there = FALSE /\ NoSnap.files = Empty
  /\ NoOp \in Calls /\ NoOp.ok = FALSE /\ NoOp.call = "none" /\ NoOp.victim = None
  /\ NoOp.why = "none" /\ NoOp.left = {} /\ NoOp.gone = FALSE
<1>1. Empty \in Files /\ Empty \in [Paths -> Nat] /\ \A p \in Paths : Empty[p] = None
  BY Numbers DEF Empty, Files
<1> QED BY <1>1 DEF NoSnap, Folders, NoOp, Calls

LEMMA ReturnFact ==
  ASSUME TypeInv, NEW ok \in BOOLEAN, Return(ok)
  PROVE  /\ pc' = "idle" /\ op' \in Calls /\ op'.ok = ok
         /\ op'.call = op.call /\ op'.id = op.id /\ op'.listed = op.listed
BY OpFact DEF Return, TypeInv, Calls

LEMMA EditStep == ASSUME Inv, NEW p \in Paths, Edit(p) PROVE Inv'
<1>1. home' \in Files
  BY Numbers DEF Edit, Inv, TypeInv, Files
<1>2. TypeInv'
  BY <1>1, OpFact DEF Edit, Inv, TypeInv
<1> QED BY <1>2, Still, Idle, Quiet, OpFact DEF Edit, Inv

LEMMA PowerCutStep == ASSUME Inv, PowerCut PROVE Inv'
<1>1. TypeInv'
  BY OpFact DEF PowerCut, Inv, TypeInv
<1>2. Results'
  BY SameHome, OpFact DEF PowerCut, Inv, Results, NoLitter, RestoreExact
<1> QED BY <1>1, <1>2, Still, Idle DEF PowerCut, Inv

LEMMA BeginStep ==
  ASSUME Inv, NEW call \in {"take", "unpack"}, NEW pack \in [Paths -> Nat], Begin(call, pack)
  PROVE  Inv'
<1> USE DEF Inv
<1>1. PICK next : next = IF There = {} THEN 1 ELSE Max(There) + 1
  OBVIOUS
<1>2. next <= MaxId
  BY <1>1 DEF Begin
<1>3. next \in Ids /\ \A n \in There : n < next
  <2>1. CASE There = {}
    BY <1>1, <1>2, <2>1, Numbers DEF Ids
  <2>2. CASE There # {}
    <3>1. There \subseteq 0..MaxId
      BY Numbers DEF There, Ids
    <3>2. Max(There) \in There /\ \A n \in There : n <= Max(There)
      BY <2>2, <3>1, Numbers, MaxFact
    <3>3. PICK m \in There : m = Max(There)
      BY <3>2
    <3>4. m \in Nat /\ There \subseteq Nat /\ next = m + 1
      BY <1>1, <2>2, <3>1, <3>3
    <3> QED BY <1>2, <3>2, <3>3, <3>4, Numbers DEF Ids
  <2> QED BY <2>1, <2>2
<1>4. next \notin There
  BY <1>3, Numbers
<1>5. /\ pc' = "choose" /\ before' = Empty
      /\ op' = [NoOp EXCEPT !.call = call, !.id = next, !.unfinished = There \ Done,
                            !.done = Done, !.pack = pack]
      /\ UNCHANGED <<home, snaps, taken, condemned, bounds>>
  BY <1>1 DEF Begin
<1>6. There \subseteq Ids /\ Done \subseteq Ids
  BY DEF There, Done
<1>7. /\ op' \in Calls /\ op'.call = call /\ op'.id = next /\ op'.ok = FALSE
      /\ op'.unfinished = There \ Done /\ op'.done = Done
  BY <1>3, <1>5, <1>6, OpFact DEF Calls
<1>8. FolderInv' /\ There' = There /\ Done' = Done
  BY <1>5, Still
<1>9. TypeInv'
  BY <1>5, <1>7, OpFact DEF TypeInv, bounds
<1>10. ChooseInv'
  BY <1>3, <1>4, <1>7, <1>8 DEF ChooseInv, Fresh, Litter
<1>11. CallInv'
  BY <1>5, <1>7, <1>10 DEF CallInv, WipeInv, MakeInv, CopyInv, UnpackInv, RestoreInv, BeforeInv
<1> QED BY <1>5, <1>7, <1>8, <1>9, <1>11, Quiet

LEMMA RestoreStep == ASSUME Inv, NEW n \in Ids, Restore(n) PROVE Inv'
<1> USE DEF Inv
<1>1. Copied(snaps[n].files) \subseteq Paths
  BY CopiedFact
<1>2. /\ op' \in Calls /\ op'.call = "restore" /\ op'.id = n /\ op'.ok = FALSE
      /\ op'.left = Copied(snaps[n].files)
  BY <1>1, OpFact, Numbers DEF Restore, Calls
<1>3. TypeInv'
  BY <1>2, OpFact DEF Restore, TypeInv, bounds
<1>4. RestoreInv'
  BY <1>1, <1>2, AllCopied DEF Restore, RestoreInv
<1>5. CallInv'
  BY <1>2, <1>4 DEF Restore, CallInv, ChooseInv, WipeInv, MakeInv, CopyInv, UnpackInv, BeforeInv
<1> QED BY <1>2, <1>3, <1>5, Still, Quiet DEF Restore

-----------------------------------------------------------------------------
(* Dropping a snapshot.                                                    *)

LEMMA WipingFact ==
  ASSUME TypeInv, NEW n \in Ids, NEW why \in {"unfinished", "oldest", "undo"},
         NEW rest \in Calls, Wiping(n, why, rest)
  PROVE  /\ pc' = "wipe" /\ op' \in Calls
         /\ op'.victim = n /\ op'.why = why /\ op'.gone = FALSE
         /\ op'.left = Listed(Entries(snaps[n]))
         /\ op'.call = rest.call /\ op'.id = rest.id /\ op'.ok = rest.ok
         /\ op'.done = rest.done /\ op'.unfinished = rest.unfinished
<1>1. Listed(Entries(snaps[n])) \subseteq Slots
  BY EntriesFact
<1> QED BY <1>1 DEF Wiping, Calls

(* One entry of one folder goes.                                           *)
LEMMA WithoutFact ==
  ASSUME NEW snap \in Folders, NEW e \in Slots
  PROVE  /\ Without(snap, e) \in Folders /\ Without(snap, e).there = snap.there
         /\ Without(snap, e).done => snap.done
         /\ \A p \in Paths : Without(snap, e).files[p] \in {None, snap.files[p]}
BY Numbers DEF Without, Folders

LEMMA WipeEntryStep == ASSUME Inv, WipeEntry PROVE Inv'
<1> USE DEF Inv
<1>1. /\ pc = "wipe" /\ op.left # {} /\ pc' = "wipe" /\ before' = Empty /\ ~op.ok
      /\ UNCHANGED <<home, taken, condemned, before>>
  BY DEF WipeEntry, CallInv, BeforeInv
<1>2. PICK e : e = Min(op.left)
  OBVIOUS
<1>3. op \in Calls /\ op.left \subseteq Slots /\ e \in op.left /\ e \in Slots
  <2>1. op \in Calls /\ op.left \subseteq Slots
    BY DEF TypeInv, Calls
  <2> QED BY <1>1, <1>2, <2>1, MinFact, Numbers
<1>4. WipeInv
  BY DEF CallInv
<1>5. PICK v : v = op.victim
  OBVIOUS
<1>6. v \in Ids /\ v \in There /\ snaps[v] \in Folders /\ There \subseteq Ids
  BY <1>1, <1>4, <1>5, SnapFact DEF WipeInv, There
<1>7. CASE /\ NoFault /\ snaps' = [snaps EXCEPT ![op.victim] = Without(@, e)]
           /\ op' = [op EXCEPT !.left = @ \ {e}, !.gone = TRUE]
  <2>1. snaps' = [snaps EXCEPT ![v] = Without(snaps[v], e)] /\ snaps \in [Ids -> Folders]
    BY <1>5, <1>6, <1>7 DEF TypeInv
  <2>2. /\ snaps' \in [Ids -> Folders] /\ snaps'[v] = Without(snaps[v], e)
        /\ \A n \in Ids : n # v => snaps'[n] = snaps[n]
    BY <1>3, <1>6, <2>1, WithoutFact
  <2>3. There' = There /\ Done' \subseteq Done /\ \A n \in Done : n # v => n \in Done'
    BY SMTT(30), <1>3, <1>6, <2>2, WithoutFact DEF There, Done, Folders
  <2>4. /\ op' \in Calls /\ op'.gone = TRUE /\ op'.ok = op.ok /\ op'.victim = v /\ op'.why = op.why
        /\ op'.done = op.done /\ op'.unfinished = op.unfinished /\ op'.call = op.call /\ op'.id = op.id
    BY <1>3, <1>5, <1>7 DEF Calls
  <2>5. TypeInv'
    BY <1>1, <1>6, <1>7, <2>2, <2>3, <2>4 DEF TypeInv, There, NoFault
  <2>6. v \in Done => v \in condemned
    BY <1>1, <1>4, <1>5 DEF WipeInv
  <2>7. \A n \in Ids, p \in Paths : snaps'[n].files[p] # None => snaps'[n].files[p] = snaps[n].files[p]
    BY <1>3, <1>6, <2>2, WithoutFact
  <2>8. AtMostKeep'
    <3>1. IsFiniteSet(Done) /\ Done \subseteq Ids
      BY Finite DEF Done
    <3>2. Cardinality(Done') <= Cardinality(Done) /\ Cardinality(Done') \in Nat /\ Cardinality(Done) \in Nat
      BY <2>3, <3>1, Finite, FS_Subset
    <3> QED BY <3>2, Numbers DEF AtMostKeep, FolderInv
  <2>9. FolderInv'
    <3>1. \A n \in Ids, p \in Paths :
            snaps'[n].files[p] # None => p \in Copied(taken'[n]) /\ snaps'[n].files[p] = taken'[n][p]
      BY <1>1, <2>7 DEF FolderInv
    <3>2. \A n \in Done' : n \notin condemned' => Whole(n)'
      <4> SUFFICES ASSUME NEW n \in Done', n \notin condemned PROVE Whole(n)'
        BY <1>1
      <4>1. n \in Done /\ n # v /\ n \in Ids
        BY <2>3, <2>6 DEF Done
      <4>2. Whole(n) /\ snaps'[n] = snaps[n]
        BY <2>2, <4>1 DEF FolderInv
      <4> QED BY <1>1, <4>2 DEF Whole
    <3>3. \A c \in condemned' : c \in There' /\ \A m \in Done' : c <= m
      BY <1>1, <2>3 DEF FolderInv
    <3> QED BY <2>8, <3>1, <3>2, <3>3 DEF FolderInv
  <2>10. WipeInv'
    BY <1>1, <1>4, <1>5, <1>7, <2>3, <2>4 DEF WipeInv, Fresh, Litter, NoFault
  <2>11. CallInv'
    BY <1>1, <2>4, <2>10 DEF CallInv, ChooseInv, MakeInv, CopyInv, UnpackInv, RestoreInv, BeforeInv
  <2> QED BY <1>1, <2>4, <2>5, <2>9, <2>11, Quiet
<1>8. CASE Refused /\ op' = [op EXCEPT !.left = @ \ {e}] /\ UNCHANGED snaps
  <2>1. FolderInv' /\ There' = There /\ Done' = Done
    BY <1>1, <1>8, Still
  <2>2. /\ op' \in Calls /\ op'.ok = op.ok /\ op'.victim = op.victim /\ op'.why = op.why
        /\ op'.done = op.done /\ op'.unfinished = op.unfinished /\ op'.call = op.call /\ op'.id = op.id
    BY <1>3, <1>8 DEF Calls
  <2>3. faults' \in Nat /\ faults' # 0
    BY <1>8 DEF Refused, TypeInv
  <2>4. TypeInv'
    BY <1>1, <1>8, <2>2, <2>3 DEF TypeInv
  <2>5. WipeInv'
    BY <1>1, <1>4, <2>1, <2>2, <2>3 DEF WipeInv, Fresh, Litter
  <2>6. CallInv'
    BY <1>1, <2>2, <2>5 DEF CallInv, ChooseInv, MakeInv, CopyInv, UnpackInv, RestoreInv, BeforeInv
  <2> QED BY <1>1, <2>1, <2>2, <2>4, <2>6, Quiet
<1> QED BY <1>2, <1>7, <1>8 DEF WipeEntry

(* The end of a drop.                                                      *)
LEMMA DroppedFact ==
  ASSUME TypeInv, NEW ok \in BOOLEAN, Dropped(ok)
  PROVE  /\ op' \in Calls
         /\ \/ pc' = "idle" /\ ~op'.ok
            \/ /\ pc' = "choose" /\ op.why # "undo" /\ (op.why = "oldest" => ok)
               /\ op' = [op EXCEPT !.done = @ \ {op.victim}]
               /\ op'.done = op.done \ {op.victim} /\ op'.unfinished = op.unfinished
               /\ op'.call = op.call /\ op'.id = op.id /\ op'.ok = op.ok
<1>1. CASE Return(FALSE)
  BY <1>1, ReturnFact
<1>2. CASE /\ ~(op.why = "undo" \/ (op.why = "oldest" /\ ~ok))
           /\ pc' = "choose" /\ op' = [op EXCEPT !.done = @ \ {op.victim}]
  BY <1>2 DEF TypeInv, Calls
<1> QED BY <1>1, <1>2 DEF Dropped

LEMMA WipePassStep == ASSUME Inv, WipePass PROVE Inv'
<1> USE DEF Inv
<1>1. /\ pc = "wipe" /\ op.left = {} /\ before = Empty /\ before' = Empty /\ ~op.ok /\ home' = home
  BY DEF WipePass, CallInv, BeforeInv
<1>2. WipeInv /\ op \in Calls
  BY DEF CallInv, TypeInv
<1>3. PICK v : v = op.victim
  OBVIOUS
<1>4. v \in Ids /\ v \in There /\ There \subseteq Ids /\ Done \subseteq There
  BY <1>1, <1>2, <1>3, SnapFact DEF WipeInv, There, Done
<1>5. CASE /\ Entries(snaps[v]) = {} /\ NoFault /\ Dropped(TRUE)
           /\ snaps' = [snaps EXCEPT ![op.victim] = NoSnap]
           /\ taken' = [taken EXCEPT ![op.victim] = Empty]
           /\ condemned' = condemned \ {op.victim}
  <2>1. /\ snaps' \in [Ids -> Folders] /\ snaps'[v] = NoSnap /\ taken' \in [Ids -> Files]
        /\ \A n \in Ids : n # v => snaps'[n] = snaps[n] /\ taken'[n] = taken[n]
    BY <1>3, <1>4, <1>5, OpFact DEF TypeInv
  <2>2. v \notin Done
    BY <1>4, <1>5, EntriesFact
  <2>3. There' = There \ {v} /\ Done' = Done
    BY <1>4, <2>1, <2>2, OpFact DEF There, Done
  <2>4. FolderInv'
    <3>1. \A n \in Ids, p \in Paths :
            snaps'[n].files[p] # None => p \in Copied(taken'[n]) /\ snaps'[n].files[p] = taken'[n][p]
      BY <2>1, OpFact DEF FolderInv
    <3>2. \A n \in Done' : n \notin condemned' => Whole(n)'
      <4> SUFFICES ASSUME NEW n \in Done, n \notin condemned' PROVE Whole(n)'
        BY <2>3
      <4>1. n # v /\ n \in Ids /\ n \notin condemned
        BY <1>3, <1>4, <1>5, <2>2
      <4>2. Whole(n) /\ snaps'[n] = snaps[n] /\ taken'[n] = taken[n]
        BY <2>1, <4>1 DEF FolderInv
      <4> QED BY <4>2 DEF Whole
    <3>3. \A c \in condemned' : c \in There' /\ \A m \in Done' : c <= m
      BY <1>3, <1>5, <2>3 DEF FolderInv
    <3> QED BY <2>3, <3>1, <3>2, <3>3 DEF FolderInv, AtMostKeep
  <2>5. /\ op' \in Calls
        /\ \/ pc' = "idle" /\ ~op'.ok
           \/ /\ pc' = "choose" /\ op.why # "undo"
              /\ op'.done = op.done \ {v} /\ op'.unfinished = op.unfinished
              /\ op'.call = op.call /\ op'.id = op.id /\ op'.ok = op.ok
    BY <1>3, <1>5, DroppedFact
  <2>6. TypeInv'
    BY <1>1, <1>5, <2>1, <2>5 DEF TypeInv, NoFault
  <2>7. CallInv'
    <3>1. CASE pc' = "idle"
      BY <3>1, Idle
    <3>2. CASE pc' = "choose"
      <4>1. /\ Fresh /\ op.done \ {v} = Done \ {v}
            /\ op.unfinished \subseteq There \ Done /\ v \notin op.unfinished
            /\ Litter(op.unfinished \cup {v})
        BY <1>1, <1>2, <1>3, <2>5, <3>2 DEF WipeInv
      <4>2. ChooseInv'
        BY <1>5, <2>2, <2>3, <2>5, <3>2, <4>1 DEF ChooseInv, Fresh, Litter, NoFault
      <4> QED BY <1>1, <2>5, <3>2, <4>2
              DEF CallInv, WipeInv, MakeInv, CopyInv, UnpackInv, RestoreInv, BeforeInv
    <3> QED BY <2>5, <3>1, <3>2
  <2> QED BY <1>1, <2>4, <2>5, <2>6, <2>7, Quiet
<1>6. CASE /\ faults' \in Nat /\ faults' # 0 /\ Dropped(FALSE)
           /\ UNCHANGED <<snaps, taken, condemned>>
  <2>1. FolderInv' /\ There' = There /\ Done' = Done
    BY <1>6, Still
  <2>2. /\ op' \in Calls
        /\ \/ pc' = "idle" /\ ~op'.ok
           \/ /\ pc' = "choose" /\ op.why # "undo" /\ op.why # "oldest"
              /\ op'.done = op.done \ {v} /\ op'.unfinished = op.unfinished
              /\ op'.call = op.call /\ op'.id = op.id /\ op'.ok = op.ok
    BY <1>3, <1>6, DroppedFact
  <2>3. TypeInv'
    BY <1>1, <1>6, <2>2 DEF TypeInv
  <2>4. CallInv'
    <3>1. CASE pc' = "idle"
      BY <3>1, Idle
    <3>2. CASE pc' = "choose"
      <4>1. /\ Fresh /\ op.done \ {v} = Done \ {v} /\ v \notin Done
            /\ op.unfinished \subseteq There \ Done
        BY <1>1, <1>2, <1>3, <2>2, <3>2 DEF WipeInv
      <4>2. ChooseInv'
        BY <1>6, <2>1, <2>2, <3>2, <4>1 DEF ChooseInv, Fresh, Litter
      <4> QED BY <1>1, <2>2, <3>2, <4>2
              DEF CallInv, WipeInv, MakeInv, CopyInv, UnpackInv, RestoreInv, BeforeInv
    <3> QED BY <2>2, <3>1, <3>2
  <2> QED BY <1>1, <2>1, <2>2, <2>3, <2>4, Quiet
<1>7. CASE /\ op.gone /\ NoFault /\ Wiping(op.victim, op.why, op)
           /\ UNCHANGED <<snaps, taken, condemned>>
  <2>1. FolderInv' /\ There' = There /\ Done' = Done
    BY <1>7, Still
  <2>2. /\ pc' = "wipe" /\ op' \in Calls /\ op'.victim = v /\ op'.why = op.why
        /\ op'.left = Listed(Entries(snaps[v])) /\ op'.call = op.call /\ op'.id = op.id
        /\ op'.ok = op.ok /\ op'.done = op.done /\ op'.unfinished = op.unfinished
    <3>1. op.why \in {"unfinished", "oldest", "undo"}
      BY <1>1, <1>2 DEF WipeInv, Calls
    <3> QED BY ZenonT(60), <1>2, <1>3, <1>4, <1>7, <3>1, WipingFact
  <2>3. TypeInv'
    BY <1>1, <1>7, <2>2 DEF TypeInv, NoFault
  <2>4. WipeInv'
    BY <1>1, <1>2, <1>3, <1>7, <2>1, <2>2 DEF WipeInv, Fresh, Litter, NoFault
  <2>5. CallInv'
    BY <1>1, <2>2, <2>4 DEF CallInv, ChooseInv, MakeInv, CopyInv, UnpackInv, RestoreInv, BeforeInv
  <2> QED BY <1>1, <2>1, <2>2, <2>3, <2>5, Quiet
<1>8. ASSUME ~op.gone, NoFault, Entries(snaps[v]) # {}
      PROVE  faults' \in Nat /\ faults' # 0
  <2>1. Listed(Entries(snaps[v])) # {}
    BY <1>4, <1>8, EntriesFact, ListedFact
  <2> QED BY <1>1, <1>2, <1>3, <1>8, <2>1 DEF WipeInv, NoFault, TypeInv
<1>9. Refused => faults' \in Nat /\ faults' # 0
  BY DEF Refused, TypeInv
<1> QED BY <1>3, <1>5, <1>6, <1>7, <1>8, <1>9 DEF WipePass

-----------------------------------------------------------------------------
(* Taking one.                                                             *)

LEMMA ChooseStep == ASSUME Inv, Choose PROVE Inv'
<1> USE DEF Inv
<1>1. /\ pc = "choose" /\ before = Empty /\ before' = Empty /\ ~op.ok
      /\ UNCHANGED <<home, snaps, taken, bounds>> /\ faults' = faults
  BY DEF Choose, CallInv, BeforeInv, bounds
<1>2. /\ Fresh /\ op.done = Done /\ op.unfinished \subseteq There \ Done /\ Litter(op.unfinished)
      /\ op \in Calls
  BY <1>1 DEF CallInv, ChooseInv, TypeInv
<1>3. There \subseteq Ids /\ Done \subseteq There /\ Ids \subseteq Nat
  BY SnapFact, Numbers DEF There, Done
<1>4. There' = There /\ Done' = Done /\ \A n : Whole(n)' = Whole(n)
  BY <1>1 DEF There, Done, Whole
<1>5. ASSUME NEW n \in Ids, NEW why \in {"unfinished", "oldest"}, NEW rest \in Calls,
             Wiping(n, why, rest), rest.call = op.call, rest.id = op.id, rest.ok = op.ok,
             rest.done = op.done, rest.unfinished = op.unfinished \ {n}, n \in There,
             why = "unfinished" => n \notin Done,
             why = "oldest" => n \in condemned' /\ n \in Done /\ Keep <= Cardinality(Done),
             condemned' \subseteq Ids, FolderInv'
      PROVE  Inv'
  <2>1. /\ pc' = "wipe" /\ op' \in Calls /\ op'.victim = n /\ op'.why = why /\ op'.gone = FALSE
        /\ op'.left = Listed(Entries(snaps[n])) /\ op'.call = op.call /\ op'.id = op.id
        /\ op'.ok = op.ok /\ op'.done = op.done /\ op'.unfinished = op.unfinished \ {n}
    <3>1. /\ why \in {"unfinished", "oldest", "undo"} /\ n \in Ids /\ rest \in Calls
          /\ Wiping(n, why, rest) /\ TypeInv
      BY <1>5
    <3>2. /\ pc' = "wipe" /\ op' \in Calls /\ op'.victim = n /\ op'.why = why /\ op'.gone = FALSE
          /\ op'.left = Listed(Entries(snaps[n])) /\ op'.call = rest.call /\ op'.id = rest.id
          /\ op'.ok = rest.ok /\ op'.done = rest.done /\ op'.unfinished = rest.unfinished
      BY <3>1, WipingFact
    <3> QED BY <1>5, <3>2
  <2>2. TypeInv'
    BY <1>1, <1>5, <2>1 DEF TypeInv
  <2>3. WipeInv'
    BY <1>1, <1>2, <1>4, <1>5, <2>1 DEF WipeInv, Fresh, Litter
  <2>4. CallInv'
    BY <1>1, <2>1, <2>3 DEF CallInv, ChooseInv, MakeInv, CopyInv, UnpackInv, RestoreInv, BeforeInv
  <2> QED BY <1>1, <1>5, <2>1, <2>2, <2>4, Quiet
<1>6. CASE op.unfinished # {}
  <2>1. PICK n : n = Min(op.unfinished)
    OBVIOUS
  <2>2. n \in op.unfinished
    <3>1. op.unfinished \subseteq Nat
      BY <1>2, <1>3
    <3> QED BY <1>6, <2>1, <3>1, MinFact
  <2>3. Wiping(n, "unfinished", [op EXCEPT !.unfinished = @ \ {n}]) /\ condemned' = condemned
    BY <1>6, <2>1 DEF Choose, Unfinished
  <2>4. PICK rest : rest = [op EXCEPT !.unfinished = @ \ {n}]
    OBVIOUS
  <2>5. /\ rest \in Calls /\ rest.call = op.call /\ rest.id = op.id /\ rest.ok = op.ok
        /\ rest.done = op.done /\ rest.unfinished = op.unfinished \ {n}
    BY <1>2, <2>4 DEF Calls
  <2>6. FolderInv'
    BY <1>1, <2>3, Still
  <2>7. Wiping(n, "unfinished", rest)
    BY <2>3, <2>4
  <2>8. n \in Ids /\ n \in There /\ n \notin Done /\ condemned' \subseteq Ids
    BY <1>2, <1>3, <2>2, <2>3 DEF TypeInv
  <2> QED BY <1>5, <2>5, <2>6, <2>7, <2>8
<1>7. CASE op.unfinished = {} /\ TooMany(op.done)
  <2>1. PICK n : n = Min(op.done)
    OBVIOUS
  <2>2. Keep <= Cardinality(Done)
    BY <1>2, <1>3, <1>7, Numbers, Finite DEF TooMany
  <2>3. Done # {}
    BY <2>2, FS_EmptySet, Numbers
  <2>4. n \in Done /\ \A m \in Done : n <= m
    <3>1. Done \subseteq Nat
      BY <1>3
    <3> QED BY <1>2, <2>1, <2>3, <3>1, MinFact
  <2>5. Wiping(n, "oldest", op) /\ condemned' = condemned \cup {n}
    BY <1>7, <2>1 DEF Choose, Unfinished, Oldest
  <2>6. n \in Ids /\ n \in There /\ condemned' \subseteq Ids
    BY <1>3, <2>4, <2>5 DEF TypeInv
  <2>7. FolderInv'
    BY <1>1, <1>4, <2>4, <2>5, <2>6 DEF FolderInv, AtMostKeep
  <2>8. op.unfinished = op.unfinished \ {n}
    BY <1>7
  <2> QED BY <1>2, <1>5, <2>2, <2>4, <2>5, <2>6, <2>7, <2>8
<1>8. CASE op.unfinished = {} /\ ~TooMany(op.done)
  <2>1. pc' = "make" /\ op' = op /\ condemned' = condemned
    BY <1>8 DEF Choose, Unfinished
  <2>2. Cardinality(Done) < Keep
    <3>1. Cardinality(Done) \in Nat /\ Keep \in Nat
      BY <1>3, Finite, Numbers DEF There
    <3> QED BY <1>2, <1>8, <3>1 DEF TooMany
  <2>3. TypeInv'
    BY <1>1, <2>1 DEF TypeInv
  <2>4. MakeInv'
    BY <1>1, <1>2, <1>4, <1>8, <2>1, <2>2 DEF MakeInv, Fresh, Litter
  <2>5. CallInv'
    BY <1>1, <2>1, <2>4 DEF CallInv, ChooseInv, WipeInv, CopyInv, UnpackInv, RestoreInv, BeforeInv
  <2> QED BY <1>1, <2>1, <2>3, <2>5, Still, Quiet
<1> QED BY <1>6, <1>7, <1>8

LEMMA MakeStep == ASSUME Inv, Make PROVE Inv'
<1> USE DEF Inv
<1>1. /\ pc = "make" /\ before = Empty /\ before' = Empty /\ ~op.ok
      /\ UNCHANGED <<home, condemned>>
  BY DEF Make, CallInv, BeforeInv
<1>2. Fresh /\ Cardinality(Done) < Keep /\ Litter({}) /\ op \in Calls
  BY <1>1 DEF CallInv, MakeInv, TypeInv
<1>3. There \subseteq Ids /\ Done \subseteq There /\ op.id \in Ids /\ op.id \notin There /\ Ids \subseteq Nat
  BY <1>2, SnapFact, Numbers DEF There, Done, Fresh
<1>4. CASE /\ NoFault
           /\ snaps' = [snaps EXCEPT ![op.id] = [NoSnap EXCEPT !.there = TRUE]]
           /\ taken' = [taken EXCEPT ![op.id] = home]
           /\ pc' = "copy" /\ op' = [op EXCEPT !.left = Copied(home)]
  <2>1. PICK made : made = [NoSnap EXCEPT !.there = TRUE]
    OBVIOUS
  <2>2. made \in Folders /\ made.there = TRUE /\ made.done = FALSE /\ made.files = Empty
    BY <2>1, OpFact DEF Folders
  <2>3. /\ snaps' \in [Ids -> Folders] /\ snaps'[op.id] = made
        /\ taken' \in [Ids -> Files] /\ taken'[op.id] = home
        /\ \A n \in Ids : n # op.id => snaps'[n] = snaps[n] /\ taken'[n] = taken[n]
    BY <1>3, <1>4, <2>1, <2>2 DEF TypeInv
  <2>4. There' = There \cup {op.id} /\ Done' = Done
    BY <1>3, <2>2, <2>3 DEF There, Done
  <2>5. Copied(home) \subseteq Paths
    BY CopiedFact
  <2>6. op' \in Calls /\ op'.left = Copied(home) /\ op'.id = op.id /\ op'.call = op.call /\ op'.ok = op.ok
    BY <1>2, <1>4, <2>5, Numbers DEF Calls
  <2>7. TypeInv'
    BY <1>1, <1>4, <2>2, <2>3, <2>6 DEF TypeInv, NoFault
  <2>8. FolderInv'
    <3>1. \A n \in Ids, p \in Paths :
            snaps'[n].files[p] # None => p \in Copied(taken'[n]) /\ snaps'[n].files[p] = taken'[n][p]
      BY <2>2, <2>3, OpFact DEF FolderInv
    <3>2. \A n \in Done' : n \notin condemned' => Whole(n)'
      <4> SUFFICES ASSUME NEW n \in Done, n \notin condemned PROVE Whole(n)'
        BY <1>1, <2>4
      <4>1. n # op.id /\ n \in Ids
        BY <1>3
      <4>2. Whole(n) /\ snaps'[n] = snaps[n] /\ taken'[n] = taken[n]
        BY <2>3, <4>1 DEF FolderInv
      <4> QED BY <4>2 DEF Whole
    <3>3. \A c \in condemned' : c \in There' /\ \A m \in Done' : c <= m
      BY <1>1, <2>4 DEF FolderInv
    <3> QED BY <2>4, <3>1, <3>2, <3>3 DEF FolderInv, AtMostKeep
  <2>9. Latest'
    <3>1. \A n \in There : n \in Nat /\ op.id \in Nat /\ n < op.id
      BY <1>2, <1>3 DEF Fresh
    <3>2. \A n \in There \cup {op.id} : n <= op.id
      BY <1>3, <3>1
    <3> QED BY <1>2, <1>3, <2>4, <2>6, <3>2 DEF Fresh, Latest
  <2>10. CopyInv'
    BY <1>1, <1>2, <1>3, <1>4, <2>2, <2>3, <2>4, <2>6, <2>9, OpFact DEF CopyInv, Litter, NoFault
  <2>11. CallInv'
    BY <1>1, <1>4, <2>6, <2>10 DEF CallInv, ChooseInv, WipeInv, MakeInv, UnpackInv, RestoreInv, BeforeInv
  <2> QED BY <1>1, <2>6, <2>7, <2>8, <2>11, Quiet
<1>5. CASE Refused /\ Return(FALSE) /\ UNCHANGED <<snaps, taken>>
  <2>1. pc' = "idle" /\ op' \in Calls /\ ~op'.ok
    BY <1>5, ReturnFact
  <2>2. TypeInv'
    BY <1>1, <1>5, <2>1 DEF TypeInv, Refused
  <2> QED BY <1>1, <1>5, <2>1, <2>2, Still, Idle, Quiet
<1> QED BY <1>4, <1>5 DEF Make

(* A copy or a marker that is refused: the new folder is dropped again.    *)
LEMMA UndoStep ==
  ASSUME Inv, pc = "copy", Refused, Wiping(op.id, "undo", op),
         UNCHANGED <<home, snaps, taken, condemned, before>>
  PROVE  Inv'
<1> USE DEF Inv
<1>1. before' = Empty /\ ~op.ok /\ op \in Calls /\ Latest /\ op.id \notin Done /\ op.id \in There
  BY DEF CallInv, BeforeInv, CopyInv, TypeInv, Latest
<1>2. /\ pc' = "wipe" /\ op' \in Calls /\ op'.victim = op.id /\ op'.why = "undo" /\ ~op'.ok
  BY <1>1, WipingFact DEF There
<1>3. faults' \in Nat /\ faults' # 0
  BY DEF Refused, TypeInv
<1>4. FolderInv' /\ There' = There /\ Done' = Done
  BY Still
<1>5. TypeInv'
  BY <1>2, <1>3 DEF TypeInv
<1>6. WipeInv'
  BY <1>1, <1>2, <1>3, <1>4 DEF WipeInv
<1>7. CallInv'
  BY <1>1, <1>2, <1>6 DEF CallInv, ChooseInv, MakeInv, CopyInv, UnpackInv, RestoreInv, BeforeInv
<1> QED BY <1>1, <1>2, <1>4, <1>5, <1>7, Quiet

LEMMA CopyFileStep == ASSUME Inv, CopyFile PROVE Inv'
<1> USE DEF Inv
<1>1. /\ pc = "copy" /\ op.left # {} /\ before = Empty /\ before' = Empty /\ ~op.ok
      /\ UNCHANGED <<home, taken, condemned, before>>
  BY DEF CopyFile, CallInv, BeforeInv
<1>2. CopyInv /\ op \in Calls
  BY DEF CallInv, TypeInv
<1>3. PICK p : p = Min(op.left)
  OBVIOUS
<1>4. p \in op.left /\ p \in Paths /\ home[p] \in Nat /\ p \in Copied(home)
  <2>1. op.left \subseteq Copied(home) /\ Copied(home) \subseteq Paths
    BY <1>1, <1>2, CopiedFact DEF CopyInv
  <2>2. p \in op.left
    <3>1. op.left \subseteq Nat
      BY <2>1, Numbers
    <3> QED BY <1>1, <1>3, <3>1, MinFact
  <2>3. home[p] # Big
    BY <2>1, <2>2, CopiedFact
  <2> QED BY <2>1, <2>2, <2>3 DEF TypeInv, Files
<1>5. op.id \in There /\ op.id \in Ids /\ op.id \notin Done /\ snaps[op.id] \in Folders /\ taken[op.id] = home
  BY <1>1, <1>2, SnapFact DEF CopyInv, Latest, There
<1>6. CASE /\ NoFault
           /\ snaps' = [snaps EXCEPT ![op.id].files[p] = home[p]]
           /\ op' = [op EXCEPT !.left = @ \ {p}] /\ UNCHANGED pc
  <2>1. PICK new : new = [snaps[op.id] EXCEPT !.files[p] = home[p]]
    OBVIOUS
  <2>2. /\ new \in Folders /\ new.there = snaps[op.id].there /\ new.done = snaps[op.id].done
        /\ new.files[p] = home[p]
        /\ \A q \in Paths : q # p => new.files[q] = snaps[op.id].files[q]
    BY <1>4, <1>5, <2>1 DEF Folders
  <2>3. /\ snaps' \in [Ids -> Folders] /\ snaps'[op.id] = new
        /\ \A n \in Ids : n # op.id => snaps'[n] = snaps[n]
    BY <1>5, <1>6, <2>1, <2>2 DEF TypeInv
  <2>4. There' = There /\ Done' = Done
    BY <1>5, <2>2, <2>3 DEF There, Done
  <2>5. op' \in Calls /\ op'.left = op.left \ {p} /\ op'.id = op.id /\ op'.call = op.call /\ op'.ok = op.ok
    BY <1>2, <1>6 DEF Calls
  <2>6. TypeInv'
    BY <1>1, <1>5, <1>6, <2>2, <2>3, <2>4, <2>5 DEF TypeInv, NoFault, There
  <2>7. FolderInv'
    <3>1. \A n \in Ids, q \in Paths :
            snaps'[n].files[q] # None => q \in Copied(taken'[n]) /\ snaps'[n].files[q] = taken'[n][q]
      <4> SUFFICES ASSUME NEW n \in Ids, NEW q \in Paths, snaps'[n].files[q] # None
                   PROVE  q \in Copied(taken[n]) /\ snaps'[n].files[q] = taken[n][q]
        BY <1>1
      <4>1. CASE n = op.id /\ q = p
        BY <1>4, <1>5, <2>2, <2>3, <4>1
      <4>2. CASE ~(n = op.id /\ q = p)
        BY <2>2, <2>3, <4>2 DEF FolderInv
      <4> QED BY <4>1, <4>2
    <3>2. \A n \in Done' : n \notin condemned' => Whole(n)'
      <4> SUFFICES ASSUME NEW n \in Done, n \notin condemned PROVE Whole(n)'
        BY <1>1, <2>4
      <4>1. n # op.id /\ n \in Ids
        BY <1>5 DEF Done
      <4>2. Whole(n) /\ snaps'[n] = snaps[n]
        BY <2>3, <4>1 DEF FolderInv
      <4> QED BY <1>1, <4>2 DEF Whole
    <3> QED BY <1>1, <2>4, <3>1, <3>2 DEF FolderInv, AtMostKeep
  <2>8. CopyInv'
    <3>1. \A q \in Paths : snaps'[op.id].files[q] =
                             IF q \in Copied(home) \ (op.left \ {p}) THEN home[q] ELSE None
      BY <1>1, <1>2, <1>4, <2>2, <2>3 DEF CopyInv
    <3> QED BY <1>1, <1>2, <1>6, <2>4, <2>5, <3>1 DEF CopyInv, Latest, Litter, NoFault
  <2>9. CallInv'
    BY <1>1, <1>6, <2>5, <2>8 DEF CallInv, ChooseInv, WipeInv, MakeInv, UnpackInv, RestoreInv, BeforeInv
  <2> QED BY <1>1, <2>5, <2>6, <2>7, <2>9, Quiet
<1> QED BY <1>1, <1>3, <1>6, UndoStep DEF CopyFile

LEMMA MarkStep == ASSUME Inv, Mark PROVE Inv'
<1> USE DEF Inv
<1>1. /\ pc = "copy" /\ op.left = {} /\ before = Empty /\ ~op.ok /\ UNCHANGED <<home, taken, condemned>>
  BY DEF Mark, MarkTime, CallInv, BeforeInv
<1>2. CopyInv /\ op \in Calls
  BY DEF CallInv, TypeInv
<1>3. /\ op.id \in There /\ op.id \in Ids /\ op.id \notin Done /\ snaps[op.id] \in Folders
      /\ taken[op.id] = home /\ op.call \in {"take", "unpack"} /\ Litter({op.id})
      /\ Cardinality(Done) < Keep /\ \A n \in There : n <= op.id
  BY <1>1, <1>2, SnapFact DEF CopyInv, Latest, There
<1>4. PICK id : id = op.id
  OBVIOUS
<1>5. ASSUME NoFault, snaps' = [snaps EXCEPT ![op.id].done = TRUE]
      PROVE  /\ snaps' \in [Ids -> Folders] /\ There' = There /\ Done' = Done \cup {id}
             /\ \A n \in Ids : ~snaps'[n].there => snaps'[n] = NoSnap
             /\ Whole(id)' /\ FolderInv' /\ Litter({})'
  <2>1. PICK new : new = [snaps[id] EXCEPT !.done = TRUE]
    OBVIOUS
  <2>2. /\ new \in Folders /\ new.there = snaps[id].there /\ new.done = TRUE
        /\ new.files = snaps[id].files
    BY <1>3, <1>4, <2>1 DEF Folders
  <2>3. /\ snaps' \in [Ids -> Folders] /\ snaps'[id] = new
        /\ \A n \in Ids : n # id => snaps'[n] = snaps[n]
    BY <1>3, <1>4, <1>5, <2>1, <2>2 DEF TypeInv
  <2>4. There' = There /\ Done' = Done \cup {id}
    BY <1>3, <1>4, <2>2, <2>3 DEF There, Done
  <2>5. \A n \in Ids : ~snaps'[n].there => snaps'[n] = NoSnap
    BY <1>3, <1>4, <2>2, <2>3 DEF TypeInv, There
  <2>6. \A n \in Ids : snaps'[n].files = snaps[n].files
    BY <2>2, <2>3
  <2>7. Whole(id)'
    <3>1. \A p \in Paths : snaps[id].files[p] = IF p \in Copied(home) THEN home[p] ELSE None
      BY <1>1, <1>2, <1>4 DEF CopyInv
    <3>2. \A p \in Paths : snaps'[id].files[p] = IF p \in Copied(taken'[id]) THEN taken'[id][p] ELSE None
      BY <1>1, <1>3, <1>4, <2>6, <3>1
    <3> QED BY <3>2 DEF Whole
  <2>8. FolderInv'
    <3>1. \A n \in Ids, p \in Paths :
            snaps'[n].files[p] # None => p \in Copied(taken'[n]) /\ snaps'[n].files[p] = taken'[n][p]
      BY <1>1, <2>6 DEF FolderInv
    <3>2. \A n \in Done' : n \notin condemned' => Whole(n)'
      <4> SUFFICES ASSUME NEW n \in Done, n \notin condemned PROVE Whole(n)'
        BY <1>1, <2>4, <2>7
      <4>1. Whole(n) /\ snaps'[n].files = snaps[n].files
        BY <2>6 DEF FolderInv, Done
      <4> QED BY <1>1, <4>1 DEF Whole
    <3>3. \A c \in condemned' : c \in There' /\ \A m \in Done' : c <= m
      BY <1>1, <1>3, <1>4, <2>4 DEF FolderInv
    <3>4. AtMostKeep'
      <4>1. IsFiniteSet(Done) /\ Cardinality(Done) \in Nat /\ Keep \in Nat
        BY Finite, Numbers DEF Done
      <4>2. Cardinality(Done \cup {id}) = Cardinality(Done) + 1
        BY <1>3, <1>4, <4>1, FS_AddElement
      <4> QED BY <1>3, <2>4, <4>1, <4>2 DEF AtMostKeep
    <3> QED BY <3>1, <3>2, <3>3, <3>4 DEF FolderInv
  <2>9. Litter({})'
    BY <1>3, <1>4, <1>5, <2>4 DEF Litter, NoFault
  <2> QED BY <2>3, <2>4, <2>5, <2>7, <2>8, <2>9
<1>6. Done \subseteq There
  BY SnapFact DEF Done
<1>7. CASE /\ NoFault /\ snaps' = [snaps EXCEPT ![op.id].done = TRUE]
           /\ op.call = "take" /\ Return(TRUE) /\ UNCHANGED before
  <2>1. pc' = "idle" /\ op' \in Calls /\ op'.call = "take" /\ op'.id = id
    BY <1>4, <1>7, ReturnFact
  <2>2. TypeInv'
    BY <1>1, <1>5, <1>7, <2>1 DEF TypeInv, NoFault
  <2>3. Results'
    <3>1. There' \subseteq There /\ Done' \subseteq There'
      BY <1>3, <1>4, <1>5, <1>6, <1>7
    <3>2. NoLitter'
      BY <1>5, <1>7, <3>1 DEF NoLitter, Litter
    <3>3. UnpackLosesNothing'
      BY <1>1, <1>7, OpFact DEF UnpackLosesNothing, Present
    <3>4. RestoreExact'
      BY <2>1 DEF RestoreExact
    <3> QED BY <3>2, <3>3, <3>4 DEF Results
  <2> QED BY <1>5, <1>7, <2>1, <2>2, <2>3, Idle
<1>8. CASE /\ NoFault /\ snaps' = [snaps EXCEPT ![op.id].done = TRUE]
           /\ op.call # "take" /\ pc' = "unpack" /\ before' = home
           /\ op' = [op EXCEPT !.left = Present(op.pack)]
  <2>1. Present(op.pack) \subseteq Paths
    BY CopiedFact
  <2>2. /\ op' \in Calls /\ op'.call = op.call /\ op'.id = id /\ op'.ok = op.ok
        /\ op'.left = Present(op.pack)
    BY <1>2, <1>4, <1>8, <2>1, Numbers DEF Calls
  <2>3. TypeInv'
    BY <1>1, <1>5, <1>8, <2>2 DEF TypeInv, NoFault
  <2>4. Results'
    <3>1. UnpackLosesNothing'
      BY <1>1, <1>8 DEF UnpackLosesNothing
    <3> QED BY <1>1, <2>2, <3>1 DEF Results, NoLitter, RestoreExact
  <2>5. UnpackInv'
    <3>1. Latest' /\ op'.id \in Done'
      BY <1>3, <1>4, <1>5, <1>8, <2>2 DEF Latest
    <3>2. Whole(op.id)'
      BY <1>5, <1>8, <2>2 DEF Whole
    <3> QED BY <1>1, <1>3, <1>4, <1>5, <1>8, <2>1, <2>2, <3>1, <3>2 DEF UnpackInv
  <2>6. CallInv'
    BY <1>1, <1>8, <2>2, <2>5 DEF CallInv, ChooseInv, WipeInv, MakeInv, CopyInv, RestoreInv, BeforeInv
  <2> QED BY <1>5, <1>8, <2>3, <2>4, <2>6
<1>9. Refused /\ Wiping(op.id, "undo", op) /\ UNCHANGED <<snaps, before>> => Inv'
  BY <1>1, UndoStep
<1> QED BY <1>7, <1>8, <1>9 DEF Mark

-----------------------------------------------------------------------------
(* Unpacking a backup, and restoring.                                      *)

(* A step that writes to the home, or ends a call, leaves the folders.     *)
LEMMA LeftFact ==
  ASSUME TypeInv, op.left # {}, op.left \subseteq Paths
  PROVE  Min(op.left) \in op.left /\ Min(op.left) \in Paths
<1>1. op.left \subseteq Nat
  BY Numbers
<1> QED BY <1>1, MinFact

LEMMA UnpackFileStep == ASSUME Inv, UnpackFile PROVE Inv'
<1> USE DEF Inv
<1>1. /\ pc = "unpack" /\ op.left # {} /\ ~op.ok /\ UNCHANGED <<snaps, taken, condemned, before>>
  BY DEF UnpackFile, CallInv, BeforeInv
<1>2. UnpackInv /\ op \in Calls /\ op.pack \in [Paths -> Nat]
  BY DEF CallInv, TypeInv, Calls
<1>3. /\ op.id \in Done /\ op.id \in Ids /\ Whole(op.id) /\ taken[op.id] = before /\ op.left \subseteq Paths
      /\ Latest /\ Litter({})
  BY <1>1, <1>2 DEF UnpackInv, Done
<1>4. PICK p : p = Min(op.left)
  OBVIOUS
<1>5. p \in op.left /\ p \in Paths
  BY <1>1, <1>3, <1>4, LeftFact
<1>6. FolderInv' /\ There' = There /\ Done' = Done /\ \A n : Whole(n)' = Whole(n)
  BY <1>1, Still
<1>7. CASE /\ NoFault
           /\ home' = [home EXCEPT ![p] = IF LeftAlone(p) THEN @ ELSE op.pack[p]]
           /\ op' = [op EXCEPT !.left = @ \ {p}] /\ UNCHANGED pc
  <2>1. home' \in Files /\ \A q \in Paths : q # p => home'[q] = home[q]
    BY <1>2, <1>5, <1>7 DEF TypeInv, Files
  <2>2. op' \in Calls /\ op'.left = op.left \ {p} /\ op'.id = op.id /\ op'.call = op.call /\ op'.ok = op.ok
    BY <1>2, <1>7 DEF Calls
  <2>3. TypeInv'
    BY <1>1, <1>7, <2>1, <2>2 DEF TypeInv, NoFault
  <2>4. \A n \in Done, q \in Paths :
          snaps[n].files[q] = before[q] /\ Whole(n)
            => \E m \in Done' : snaps'[m].files[q] = before'[q] /\ Whole(m)'
    BY <1>1, <1>6
  <2>5. UnpackLosesNothing'
    <3> SUFFICES ASSUME NEW q \in Paths, before[q] # None, home'[q] # before[q]
                 PROVE  \E m \in Done' : snaps'[m].files[q] = before'[q] /\ Whole(m)'
      BY <1>1 DEF UnpackLosesNothing, Present
    <3>1. CASE home[q] # before[q]
      <4>1. UnpackLosesNothing /\ q \in Present(before)
        BY DEF Results, Present
      <4>2. PICK n \in Done : snaps[n].files[q] = before[q] /\ Whole(n)
        BY <3>1, <4>1 DEF UnpackLosesNothing
      <4> QED BY <2>4, <4>2
    <3>2. CASE home[q] = before[q]
      <4>1. q = p /\ ~LeftAlone(p)
        BY <1>5, <1>7, <2>1, <3>2 DEF TypeInv, Files
      <4>2. snaps[op.id].files[q] # None
        BY <3>2, <4>1 DEF LeftAlone
      <4>3. snaps[op.id].files[q] = before[q]
        BY <1>3, <4>2 DEF FolderInv
      <4> QED BY <1>3, <2>4, <4>3
    <3> QED BY <3>1, <3>2
  <2>6. UnpackInv'
    <3>1. Latest'
      BY <1>3, <1>6, <2>2 DEF Latest
    <3>2. Whole(op.id)'
      BY <1>1, <1>3, <2>2 DEF Whole
    <3> QED BY <1>1, <1>3, <1>6, <1>7, <2>2, <3>1, <3>2 DEF UnpackInv, Litter, NoFault
  <2>7. CallInv'
    BY <1>1, <1>7, <2>2, <2>6 DEF CallInv, ChooseInv, WipeInv, MakeInv, CopyInv, RestoreInv, BeforeInv
  <2>8. Results'
    BY <1>1, <2>2, <2>5 DEF Results, NoLitter, RestoreExact
  <2> QED BY <1>6, <2>3, <2>7, <2>8
<1>8. CASE Refused /\ Return(FALSE) /\ UNCHANGED home
  <2>1. pc' = "idle" /\ op' \in Calls /\ ~op'.ok
    BY <1>8, ReturnFact
  <2>2. TypeInv'
    BY <1>1, <1>8, <2>1 DEF TypeInv, Refused
  <2>3. Results'
    BY <1>1, <1>8, <2>1, SameHome DEF Results, NoLitter, RestoreExact
  <2> QED BY <1>6, <2>1, <2>2, <2>3, Idle
<1> QED BY <1>4, <1>7, <1>8 DEF UnpackFile

(* A restore's write that is refused.                                      *)
LEMMA StopStep ==
  ASSUME Inv, pc \in {"restore", "prune"}, Refused, Return(FALSE),
         UNCHANGED <<home, snaps, taken, condemned, before>>
  PROVE  Inv'
<1> USE DEF Inv
<1>1. before' = Empty
  BY DEF CallInv, BeforeInv
<1>2. pc' = "idle" /\ op' \in Calls /\ ~op'.ok
  BY ReturnFact
<1>3. TypeInv'
  BY <1>2 DEF TypeInv, Refused
<1> QED BY <1>1, <1>2, <1>3, Still, Idle, Quiet

LEMMA RestoreFileStep == ASSUME Inv, RestoreFile PROVE Inv'
<1> USE DEF Inv
<1>1. /\ pc = "restore" /\ op.left # {} /\ before = Empty /\ before' = Empty /\ ~op.ok
      /\ UNCHANGED <<snaps, taken, condemned, before>>
  BY DEF RestoreFile, CallInv, BeforeInv
<1>2. RestoreInv /\ op \in Calls
  BY DEF CallInv, TypeInv
<1>3. op.left \subseteq Paths /\ op.id \in Ids /\ snaps[op.id].files \in [Paths -> Nat]
  BY <1>1, <1>2, SnapFact DEF RestoreInv
<1>4. PICK p : p = Min(op.left)
  OBVIOUS
<1>5. p \in op.left /\ p \in Paths
  BY <1>1, <1>3, <1>4, LeftFact
<1>6. CASE /\ NoFault /\ home' = [home EXCEPT ![p] = snaps[op.id].files[p]]
           /\ op' = [op EXCEPT !.left = @ \ {p}] /\ UNCHANGED pc
  <2>1. /\ home' \in Files /\ home'[p] = snaps[op.id].files[p]
        /\ \A q \in Paths : q # p => home'[q] = home[q]
    BY <1>3, <1>5, <1>6 DEF TypeInv, Files
  <2>2. op' \in Calls /\ op'.left = op.left \ {p} /\ op'.id = op.id /\ op'.call = op.call /\ op'.ok = op.ok
    BY <1>2, <1>6 DEF Calls
  <2>3. TypeInv'
    BY <1>1, <1>6, <2>1, <2>2 DEF TypeInv, NoFault
  <2>4. RestoreInv'
    BY <1>1, <1>2, <1>6, <2>1, <2>2 DEF RestoreInv
  <2>5. CallInv'
    BY <1>1, <1>6, <2>2, <2>4 DEF CallInv, ChooseInv, WipeInv, MakeInv, CopyInv, UnpackInv, BeforeInv
  <2> QED BY <1>1, <2>2, <2>3, <2>5, Still, Quiet
<1> QED BY <1>1, <1>4, <1>6, StopStep DEF RestoreFile

LEMMA StartPruneStep == ASSUME Inv, StartPrune PROVE Inv'
<1> USE DEF Inv
<1>1. /\ pc = "restore" /\ op.left = {} /\ pc' = "prune" /\ before' = Empty /\ ~op.ok
      /\ UNCHANGED <<home, snaps, taken, condemned, before>> /\ faults' = faults
  BY DEF StartPrune, CallInv, BeforeInv, bounds
<1>2. RestoreInv /\ op \in Calls
  BY DEF CallInv, TypeInv
<1>3. PICK f : f = snaps[op.id].files
  OBVIOUS
<1>4. Listed(Present(home)) \subseteq Paths /\ Prunable(f) \subseteq Paths
  BY CopiedFact DEF Prunable
<1>5. /\ op' \in Calls /\ op'.left = Prunable(f) /\ op'.listed = Listed(Present(home))
      /\ op'.id = op.id /\ op'.call = op.call /\ op'.ok = op.ok
  BY <1>2, <1>3, <1>4, Numbers DEF StartPrune, Calls
<1>6. TypeInv'
  BY <1>1, <1>5 DEF TypeInv
<1>7. RestoreInv'
  <2>1. \A p \in op'.left : f[p] = None
    BY <1>5 DEF Prunable
  <2>2. \A p \in op'.listed : f[p] = None => home[p] \in {None, Big} \/ p \in op'.left
    BY <1>5 DEF Prunable
  <2> QED BY <1>1, <1>2, <1>3, <1>4, <1>5, <2>1, <2>2 DEF RestoreInv
<1>8. CallInv'
  BY <1>1, <1>5, <1>7 DEF CallInv, ChooseInv, WipeInv, MakeInv, CopyInv, UnpackInv, BeforeInv
<1> QED BY <1>1, <1>5, <1>6, <1>8, Still, Quiet

LEMMA PruneFileStep == ASSUME Inv, PruneFile PROVE Inv'
<1> USE DEF Inv
<1>1. /\ pc = "prune" /\ op.left # {} /\ before = Empty /\ before' = Empty /\ ~op.ok
      /\ UNCHANGED <<snaps, taken, condemned, before>>
  BY DEF PruneFile, CallInv, BeforeInv
<1>2. RestoreInv /\ op \in Calls
  BY DEF CallInv, TypeInv
<1>3. op.left \subseteq Paths
  BY <1>1, <1>2 DEF RestoreInv
<1>4. PICK p : p = Min(op.left)
  OBVIOUS
<1>5. p \in op.left /\ p \in Paths /\ snaps[op.id].files[p] = None
  BY <1>1, <1>2, <1>3, <1>4, LeftFact DEF RestoreInv
<1>6. CASE /\ NoFault /\ home' = [home EXCEPT ![p] = None]
           /\ op' = [op EXCEPT !.left = @ \ {p}] /\ UNCHANGED pc
  <2>1. home' \in Files /\ home'[p] = None /\ \A q \in Paths : q # p => home'[q] = home[q]
    BY <1>5, <1>6, Numbers DEF TypeInv, Files
  <2>2. /\ op' \in Calls /\ op'.left = op.left \ {p} /\ op'.listed = op.listed
        /\ op'.id = op.id /\ op'.call = op.call /\ op'.ok = op.ok
    BY <1>2, <1>6 DEF Calls
  <2>3. TypeInv'
    BY <1>1, <1>6, <2>1, <2>2 DEF TypeInv, NoFault
  <2>4. RestoreInv'
    <3>1. op.listed \subseteq Paths
      BY <1>2 DEF Calls
    <3> QED BY <1>1, <1>2, <1>5, <1>6, <2>1, <2>2, <3>1 DEF RestoreInv
  <2>5. CallInv'
    BY <1>1, <1>6, <2>2, <2>4 DEF CallInv, ChooseInv, WipeInv, MakeInv, CopyInv, UnpackInv, BeforeInv
  <2> QED BY <1>1, <2>2, <2>3, <2>5, Still, Quiet
<1> QED BY <1>1, <1>4, <1>6, StopStep DEF PruneFile

LEMMA AllWrittenStep == ASSUME Inv, AllWritten PROVE Inv'
<1> USE DEF Inv
<1>1. /\ pc \in {"unpack", "prune"} /\ op.left = {}
      /\ UNCHANGED <<home, snaps, taken, condemned, before>> /\ faults' = faults
  BY DEF AllWritten, bounds
<1>2. /\ pc' = "idle" /\ op' \in Calls
      /\ op'.call = op.call /\ op'.id = op.id /\ op'.listed = op.listed
  BY ReturnFact DEF AllWritten
<1>3. FolderInv' /\ There' = There /\ Done' = Done
  BY <1>1, Still
<1>4. TypeInv'
  BY <1>1, <1>2 DEF TypeInv
<1>5. UnpackLosesNothing'
  BY <1>1, SameHome DEF Results
<1>6. Done \subseteq There
  BY SnapFact DEF Done
<1>7. CASE pc = "unpack"
  <2>1. Latest /\ Litter({})
    BY <1>7 DEF CallInv, UnpackInv
  <2> QED BY <1>1, <1>2, <1>3, <1>4, <1>5, <1>6, <2>1, Idle
          DEF Results, NoLitter, RestoreExact, Latest, Litter
<1>8. CASE pc = "prune"
  <2>1. RestoreInv
    BY DEF CallInv
  <2>2. RestoreExact'
    BY <1>1, <1>2, <1>8, <2>1 DEF RestoreExact, RestoreInv
  <2> QED BY <1>2, <1>3, <1>4, <1>5, <1>8, <2>1, <2>2, Idle DEF Results, NoLitter, RestoreInv
<1> QED BY <1>1, <1>7, <1>8

LEMMA InvStep == ASSUME Inv, [Next]_vars PROVE Inv'
<1>1. ASSUME NEW p \in Paths, Edit(p) PROVE Inv'
  BY <1>1, EditStep
<1>2. CASE Take
  BY <1>2, BeginStep, OpFact DEF Take
<1>3. CASE Unpack
  BY <1>3, BeginStep, Numbers DEF Unpack
<1>4. ASSUME NEW n \in Ids, Restore(n) PROVE Inv'
  BY <1>4, RestoreStep
<1>5. CASE Call
  BY <1>5, WipeEntryStep, WipePassStep, ChooseStep, MakeStep, CopyFileStep, MarkStep,
     UnpackFileStep, RestoreFileStep, StartPruneStep, PruneFileStep, AllWrittenStep DEF Call
<1>6. CASE PowerCut
  BY <1>6, PowerCutStep
<1>7. CASE UNCHANGED vars
  BY <1>7 DEF vars, Inv, TypeInv, FolderInv, CallInv, ChooseInv, WipeInv, MakeInv, CopyInv,
     UnpackInv, RestoreInv, BeforeInv, Results, NoLitter, UnpackLosesNothing, RestoreExact,
     Fresh, Latest, Litter, There, Done, Whole, AtMostKeep
<1> QED BY <1>1, <1>2, <1>3, <1>4, <1>5, <1>6, <1>7 DEF Next

THEOREM InvAlways == Spec => []Inv
<1>1. Init => Inv
  BY InvInit
<1>2. Inv /\ [Next]_vars => Inv'
  BY InvStep
<1> QED BY <1>1, <1>2, PTL DEF Spec
-----------------------------------------------------------------------------
(* The results.                                                            *)

(* The snapshots that count are never more than Keep, and each is what the *)
(* home was when it was begun, but the oldest while it is dropped: a power *)
(* cut or a refused write anywhere in a take leaves no half snapshot that  *)
(* is listed (snap_take, drop, list_ids).                                  *)
THEOREM SnapshotsAreSound == Spec => []SnapshotsSound
<1>1. Inv => SnapshotsSound
  <2> SUFFICES ASSUME Inv PROVE SnapshotsSound
    OBVIOUS
  <2>1. TypeOK
    BY DEF Inv, TypeInv, TypeOK, Calls, Slots, Folders
  <2>2. DoneIsWholeNewest /\ AtMostKeep
    BY DEF Inv, FolderInv, DoneIsWholeNewest
  <2> QED BY <2>1, <2>2 DEF SnapshotsSound
<1> QED BY <1>1, InvAlways, PTL

(* On a card that takes every write, a take that succeeds leaves no folder *)
(* of an earlier one that was cut short (snap_take's first loop).          *)
THEOREM CleansUp == Spec => []NoLitter
<1>1. Inv => NoLitter
  BY DEF Inv, Results
<1> QED BY <1>1, InvAlways, PTL

(* However an unpack ends, what was in the home is there or in the whole   *)
(* snapshot taken before it (snap_unpack).                                 *)
THEOREM NothingLost == Spec => []UnpackLosesNothing
<1>1. Inv => UnpackLosesNothing
  BY DEF Inv, Results
<1> QED BY <1>1, InvAlways, PTL

(* A restore that succeeds has put back all the snapshot holds, and        *)
(* removed all else that it could list and would have copied.              *)
THEOREM RestoreIsExact == Spec => []RestoreExact
<1>1. Inv => RestoreExact
  BY DEF Inv, Results
<1> QED BY <1>1, InvAlways, PTL

-----------------------------------------------------------------------------
(* What a take may drop.                                                   *)

LEMMA SoundStays ==
  ASSUME NEW n \in Sound, snaps'[n] = snaps[n], taken'[n] = taken[n]
  PROVE  n \in Sound'
BY DEF Sound, Done, Whole

(* Only the dropping of the oldest takes anything from a snapshot that     *)
(* counts.                                                                 *)
LEMMA OnlyWiped ==
  ASSUME Inv, [Next]_vars, NEW n \in Sound, n \notin Sound'
  PROVE  WipeEntry /\ op.victim = n
<1> USE DEF Inv
<1>1. n \in Done /\ n \in Ids /\ n \in There
  BY SnapFact DEF Sound, Done
<1>2. UNCHANGED <<snaps, taken>> => FALSE
  BY SoundStays
<1>3. ASSUME NEW v \in Ids, NEW new, NEW old, v # n,
             snaps' = [snaps EXCEPT ![v] = new], taken' \in {taken, [taken EXCEPT ![v] = old]}
      PROVE  FALSE
  <2>1. snaps'[n] = snaps[n] /\ taken'[n] = taken[n]
    BY <1>1, <1>3 DEF TypeInv
  <2> QED BY <2>1, SoundStays
<1>4. WipePass => FALSE
  <2> SUFFICES ASSUME WipePass PROVE FALSE
    OBVIOUS
  <2>1. pc = "wipe" /\ op.victim \in Ids
    BY DEF WipePass, CallInv, WipeInv, There
  <2>2. CASE Entries(snaps[op.victim]) = {} /\ snaps' = [snaps EXCEPT ![op.victim] = NoSnap]
             /\ taken' = [taken EXCEPT ![op.victim] = Empty]
    <3>1. op.victim # n
      BY <1>1, <2>1, <2>2, EntriesFact
    <3> QED BY <1>3, <2>1, <2>2, <3>1
  <2> QED BY <1>2, <2>2 DEF WipePass
<1>5. Make => FALSE
  <2> SUFFICES ASSUME Make PROVE FALSE
    OBVIOUS
  <2>1. op.id \in Ids /\ op.id # n
    BY <1>1 DEF Make, CallInv, MakeInv, Fresh
  <2> QED BY <1>2, <1>3, <2>1 DEF Make
<1>6. pc = "copy" => op.id \in Ids /\ op.id # n
  BY <1>1 DEF CallInv, CopyInv, Latest, There
<1>7. CopyFile => FALSE
  <2> SUFFICES ASSUME CopyFile PROVE FALSE
    OBVIOUS
  <2>1. PICK p : p = Min(op.left)
    OBVIOUS
  <2>2. CASE snaps' = [snaps EXCEPT ![op.id].files[p] = home[p]]
    <3>1. snaps'[n] = snaps[n] /\ taken' = taken
      BY <1>1, <1>6, <2>2 DEF CopyFile, TypeInv
    <3> QED BY <3>1, SoundStays
  <2> QED BY <1>2, <2>1, <2>2 DEF CopyFile
<1>8. Mark => FALSE
  <2> SUFFICES ASSUME Mark PROVE FALSE
    OBVIOUS
  <2>1. CASE snaps' = [snaps EXCEPT ![op.id].done = TRUE]
    <3>1. snaps'[n] = snaps[n] /\ taken' = taken
      BY <1>1, <1>6, <2>1 DEF Mark, MarkTime, TypeInv
    <3> QED BY <3>1, SoundStays
  <2> QED BY <1>2, <2>1 DEF Mark
<1>9. WipeEntry => op.victim = n
  <2> SUFFICES ASSUME WipeEntry, op.victim # n PROVE FALSE
    OBVIOUS
  <2>1. op.victim \in Ids
    BY DEF WipeEntry, CallInv, WipeInv, There
  <2>2. PICK e : e = Min(op.left)
    OBVIOUS
  <2>3. CASE snaps' = [snaps EXCEPT ![op.victim] = Without(@, e)]
    <3>1. snaps'[n] = snaps[n] /\ taken' = taken
      BY <1>1, <2>1, <2>3 DEF WipeEntry, TypeInv
    <3> QED BY <3>1, SoundStays
  <2> QED BY <1>2, <2>2, <2>3 DEF WipeEntry
<1>10. \/ WipeEntry \/ WipePass \/ Make \/ CopyFile \/ Mark
       \/ UNCHANGED <<snaps, taken>>
  BY DEF Next, Call, vars, Edit, Take, Unpack, Begin, Restore, PowerCut, Choose, UnpackFile,
     RestoreFile, StartPrune, PruneFile, AllWritten
<1> QED BY <1>2, <1>4, <1>5, <1>7, <1>8, <1>9, <1>10

(* However often a take is begun, cut and refused, a snapshot is lost only *)
(* when Keep - 1 newer ones are whole: nothing that is kept is dropped to  *)
(* make room for one that may not come about (snap_take, list_ids).        *)
THEOREM NewestAreKept == Spec => NewestKept
<1>1. ASSUME Inv, [Next]_vars, NEW n \in Sound, n \notin Sound'
      PROVE  Cardinality({m \in Sound' : m > n}) >= Keep - 1
  <2>1. WipeEntry /\ n = op.victim
    BY <1>1, OnlyWiped
  <2>2. n \in Done /\ n \in Ids /\ n \in Nat /\ Done \subseteq Ids /\ Ids \subseteq Nat
    BY Numbers DEF Sound, Done
  <2>3. n \in condemned /\ Keep <= Cardinality(Done)
    <3>1. WipeInv /\ pc = "wipe"
      BY <1>1, <2>1 DEF WipeEntry, Inv, CallInv
    <3>2. op.why = "oldest" /\ op.why # "undo"
      BY <2>1, <2>2, <3>1 DEF WipeInv
    <3>3. n \in op.done /\ op.done \ {n} = Done \ {n} /\ Keep <= Cardinality(op.done) /\ n \in condemned
      BY <2>1, <3>1, <3>2 DEF WipeInv
    <3>4. op.done = Done
      BY <2>2, <3>3
    <3> QED BY <3>3, <3>4
  <2>4. \A m \in Done \ {n} : m > n /\ m \in Sound'
    <3> SUFFICES ASSUME NEW m \in Done, m # n PROVE m > n /\ m \in Sound'
      OBVIOUS
    <3>1. m \in Nat /\ m \in Ids /\ n <= m
      BY <1>1, <2>2, <2>3 DEF Inv, FolderInv
    <3>2. m > n
      BY <2>2, <3>1
    <3>3. m \notin condemned
      <4>1. ASSUME m \in condemned PROVE m <= n
        BY <1>1, <2>2, <4>1 DEF Inv, FolderInv
      <4> QED BY <2>2, <3>1, <3>2, <4>1
    <3>4. m \in Sound
      BY <1>1, <3>3 DEF Inv, FolderInv, Sound
    <3>5. op.victim # m
      BY <2>1
    <3> QED BY <1>1, <3>2, <3>4, <3>5, OnlyWiped
  <2>5. Done \ {n} \subseteq {m \in Sound' : m > n} /\ {m \in Sound' : m > n} \subseteq Ids
    BY <2>4 DEF Sound, Done
  <2>6. IsFiniteSet(Done) /\ Cardinality(Done) \in Nat
    BY <2>2, Finite
  <2>7. Cardinality(Done \ {n}) = Cardinality(Done) - 1
    BY <2>2, <2>6, FS_RemoveElement
  <2>8. PICK newer : newer = {m \in Sound' : m > n}
    OBVIOUS
  <2>9. IsFiniteSet(newer) /\ Cardinality(newer) \in Nat /\ Done \ {n} \subseteq newer
    BY <2>5, <2>8, Finite
  <2>10. Cardinality(Done \ {n}) <= Cardinality(newer)
    BY <2>9, FS_Subset
  <2>11. Cardinality(newer) >= Keep - 1
    BY <2>3, <2>6, <2>7, <2>9, <2>10, Numbers
  <2> QED BY <2>8, <2>11
<1>2. Inv /\ [Next]_vars =>
        [\A n \in Sound : n \notin Sound' => Cardinality({m \in Sound' : m > n}) >= Keep - 1]_vars
  BY <1>1
<1> QED BY <1>2, InvAlways, PTL DEF Spec, NewestKept
=============================================================================
