--------------------------- MODULE R3Window_proofs ---------------------------
(***************************************************************************)
(* What TLAPS proves of R3Window, for any number of programs, rows, blocks *)
(* and window sizes and rings of any length: everything the run win checks *)
(* of the windows of ring-3 programs.                                      *)
(***************************************************************************)
EXTENDS R3Window, WellFoundedInduction, FiniteSetTheorems, SequenceTheorems, TLAPS

(* The order of the naturals, as a well-founded relation.                  *)
LEMMA LessFact == \E R : IsWellFoundedOn(R, Nat) /\ \A x, y \in Nat : x < y => <<x, y>> \in R
<1>1. \A x, y \in Nat : x < y => <<x, y>> \in OpToRel(<, Nat)
  BY Zenon DEF OpToRel
<1>2. IsWellFoundedOn(OpToRel(<, Nat), Nat)
  BY Zenon, NatLessThanWellFounded
<1> QED BY Zenon, <1>1, <1>2

LEMMA FirstFact ==
  ASSUME NEW R, IsWellFoundedOn(R, Nat), NEW T, T \subseteq Nat, T # {}
  PROVE  \E x \in T : \A y \in T : ~(<<y, x>> \in R)
BY Zenon, WFMin

(* A set of naturals has a least element, and Min is it.                   *)
LEMMA MinFact ==
  ASSUME NEW S, S \subseteq Nat, S # {}
  PROVE  Min(S) \in S /\ \A x \in S : Min(S) <= x
<1>1. PICK R : IsWellFoundedOn(R, Nat) /\ \A x, y \in Nat : x < y => <<x, y>> \in R
  BY LessFact
<1>2. PICK x \in S : \A y \in S : ~(<<y, x>> \in R)
  BY Zenon, <1>1, FirstFact
<1>3. ASSUME NEW y \in S PROVE x <= y
  <2>1. ~(y < x)
    BY <1>1, <1>2
  <2>2. x \in Nat /\ y \in Nat
    OBVIOUS
  <2> QED BY <2>1, <2>2
<1> QED BY <1>3 DEF Min

-----------------------------------------------------------------------------
(* Fresh blocks. *)

LEMMA Numbers ==
  /\ NTasks \in Nat /\ NRows \in Nat /\ MaxWindows \in Nat /\ NBlocks \in Nat
  /\ RingSize \in Nat \ {0}
  /\ None \notin Tasks /\ None \notin Rows /\ None \notin Blocks
  /\ Tasks \subseteq Nat /\ Rows \subseteq Nat /\ Blocks \subseteq Nat
BY WindowAssumption DEF WindowAssumption, None, Tasks, Rows, Blocks

LEMMA SizeFact ==
  ASSUME NEW size \in Sizes \cup {NoSize}
  PROVE  size[1] \in Nat /\ size[2] \in Nat /\ size = <<size[1], size[2]>>
<1>1. Widths \subseteq Nat /\ Heights \subseteq Nat
  BY WindowAssumption DEF WindowAssumption
<1>2. CASE size = NoSize
  BY <1>2 DEF NoSize
<1>3. CASE size \in Sizes
  <2>1. PICK w \in Widths, h \in Heights : size = <<w, h>>
    BY <1>3 DEF Sizes
  <2>2. w \in Nat /\ h \in Nat
    BY <1>1
  <2> QED BY <2>1, <2>2
<1> QED BY <1>2, <1>3

LEMMA FiniteFact ==
  ASSUME NEW bs, bs \subseteq Blocks
  PROVE  IsFiniteSet(bs)
<1>1. 1 \in Int /\ NBlocks \in Int
  BY Numbers
<1>2. IsFiniteSet(1..NBlocks)
  BY <1>1, FS_Interval
<1> QED BY <1>2, FS_Subset DEF Blocks

LEMMA OneBlock ==
  ASSUME NEW bs \in FreshBlocks(1)
  PROVE  \E b \in Blocks \ heap : bs = {b} /\ Min(bs) = b /\ Max(bs) = b
<1>1. bs \subseteq Blocks \ heap /\ Cardinality(bs) = 1
  BY DEF FreshBlocks
<1>2. IsFiniteSet(bs)
  BY <1>1, FiniteFact
<1>3. PICK b : bs = {b}
  BY <1>1, <1>2, FS_Singleton
<1>4. b \in Blocks \ heap /\ b \in Nat
  BY <1>1, <1>3, Numbers
<1>5. Min(bs) = b /\ Max(bs) = b
  BY <1>3, <1>4 DEF Min, Max
<1> QED BY <1>3, <1>4, <1>5

LEMMA TwoBlocks ==
  ASSUME NEW bs \in FreshBlocks(2)
  PROVE  /\ Min(bs) \in Blocks \ heap /\ Max(bs) \in Blocks \ heap
         /\ Min(bs) # Max(bs) /\ bs = {Min(bs), Max(bs)}
<1>1. bs \subseteq Blocks \ heap /\ Cardinality(bs) = 2
  BY DEF FreshBlocks
<1>2. IsFiniteSet(bs)
  BY <1>1, FiniteFact
<1>3. bs # {}
  BY <1>1, FS_EmptySet
<1>4. PICK x : x \in bs
  BY <1>3
<1>5. IsFiniteSet(bs \ {x}) /\ Cardinality(bs \ {x}) = 1
  BY <1>1, <1>2, <1>4, FS_RemoveElement
<1>6. PICK y : bs \ {x} = {y}
  BY <1>5, FS_Singleton
<1>7. bs = {x, y} /\ x # y /\ x \in Blocks \ heap /\ y \in Blocks \ heap /\ x \in Nat /\ y \in Nat
  <2>1. bs = {x, y} /\ x # y
    BY <1>4, <1>6
  <2> QED BY <1>1, <2>1, Numbers
<1>8. CASE x < y
  <2>1. Min(bs) = x /\ Max(bs) = y
    BY <1>7, <1>8 DEF Min, Max
  <2> QED BY <1>7, <2>1
<1>9. CASE y < x
  <2>1. Min(bs) = y /\ Max(bs) = x
    BY <1>7, <1>9 DEF Min, Max
  <2> QED BY <1>7, <2>1
<1> QED BY <1>7, <1>8, <1>9

-----------------------------------------------------------------------------
(* Rings. *)

Events == {"click", "drag", "resize"}
Rings == UNION {[1..k -> Events] : k \in 0..RingSize}

LEMMA RingFact ==
  ASSUME NEW q
  PROVE  q \in Rings <=> q \in Seq(Events) /\ Len(q) <= RingSize
<1>1. ASSUME q \in Rings PROVE q \in Seq(Events) /\ Len(q) <= RingSize
  <2>1. PICK k \in 0..RingSize : q \in [1..k -> Events]
    BY <1>1 DEF Rings
  <2>2. k \in Nat /\ k <= RingSize
    BY <2>1, Numbers
  <2>3. q \in Seq(Events) /\ Len(q) = k
    BY <2>1, <2>2
  <2> QED BY <2>2, <2>3
<1>2. ASSUME q \in Seq(Events), Len(q) <= RingSize PROVE q \in Rings
  <2>1. q \in [1..Len(q) -> Events] /\ Len(q) \in 0..RingSize
    BY <1>2, Numbers
  <2> QED BY <2>1 DEF Rings
<1> QED BY <1>1, <1>2

LEMMA PushedFact ==
  ASSUME NEW q \in Rings, NEW ev \in Events
  PROVE  /\ Pushed(q, ev) \in Rings
         /\ \A k \in DOMAIN q : k \in DOMAIN Pushed(q, ev) /\ Pushed(q, ev)[k] = q[k]
         /\ Len(q) < RingSize => \E k \in DOMAIN Pushed(q, ev) : Pushed(q, ev)[k] = ev
<1>1. q \in Seq(Events) /\ Len(q) <= RingSize /\ Len(q) \in Nat
  BY RingFact
<1>2. CASE Len(q) < RingSize
  <2> DEFINE u == Append(q, ev)
  <2>1. /\ u \in Seq(Events) /\ Len(u) = Len(q) + 1 /\ u[Len(q) + 1] = ev
        /\ \A k \in 1..Len(q) : u[k] = q[k]
    BY <1>1, AppendProperties
  <2>2. Pushed(q, ev) = u
    BY <1>2 DEF Pushed
  <2> HIDE DEF u
  <2>3. u \in Rings
    BY <1>1, <1>2, <2>1, Numbers, RingFact
  <2>4. DOMAIN u = 1..(Len(q) + 1) /\ DOMAIN q = 1..Len(q)
    BY <1>1, <2>1
  <2> QED BY <1>1, <2>1, <2>2, <2>3, <2>4
<1>3. CASE ~(Len(q) < RingSize)
  BY <1>3 DEF Pushed
<1> QED BY <1>2, <1>3

LEMMA TailFact ==
  ASSUME NEW q \in Rings, q # <<>>
  PROVE  /\ Tail(q) \in Rings /\ Head(q) \in Events
         /\ \A e \in Events : (\E k \in DOMAIN q : q[k] = e) =>
              Head(q) = e \/ \E k \in DOMAIN Tail(q) : Tail(q)[k] = e
<1>1. q \in Seq(Events) /\ Len(q) <= RingSize /\ Len(q) \in Nat
  BY RingFact
<1> DEFINE u == Tail(q)
<1>2. /\ u \in Seq(Events) /\ Len(u) = Len(q) - 1 /\ Head(q) = q[1] /\ Head(q) \in Events
      /\ \A k \in 1..Len(u) : u[k] = q[k + 1] /\ Len(q) > 0
  BY <1>1, HeadTailProperties, EmptySeq
<1> HIDE DEF u
<1>3. u \in Rings
  BY <1>1, <1>2, Numbers, RingFact
<1>4. ASSUME NEW e \in Events, NEW k \in DOMAIN q, q[k] = e
      PROVE  Head(q) = e \/ \E j \in DOMAIN u : u[j] = e
  <2>1. k \in 1..Len(q)
    BY <1>1
  <2>2. CASE k = 1
    BY <1>2, <1>4, <2>2
  <2>3. CASE k # 1
    <3>1. k - 1 \in 1..Len(u) /\ (k - 1) + 1 = k
      BY <1>1, <1>2, <2>1, <2>3
    <3>2. u[k - 1] = e /\ DOMAIN u = 1..Len(u)
      BY <1>2, <1>4, <3>1
    <3> QED BY <3>1, <3>2
  <2> QED BY <2>2, <2>3
<1> QED BY <1>2, <1>3, <1>4 DEF u

-----------------------------------------------------------------------------
(* The invariant. *)

Looks == [pc: LookPCs, task: Tasks \cup {None}, row: Rows \cup {None}, blit: BOOLEAN,
          size: Sizes \cup {NoSize}, old: Blocks \cup {None}, w: Nat, h: Nat,
          fb: Blocks \cup {None}, made: Sizes \cup {NoSize},
          gone: BOOLEAN, torn: BOOLEAN, early: BOOLEAN]
TypeInv ==
  /\ used \in [Tasks -> BOOLEAN] /\ killed \in [Tasks -> BOOLEAN] /\ told \in [Tasks -> BOOLEAN]
  /\ rows \in [Rows -> RowType]
  /\ heap \subseteq Blocks /\ refused \subseteq Blocks /\ wild \in BOOLEAN
  /\ windows \in Seq([task: Tasks, size: Sizes]) /\ Len(windows) <= MaxWindows
  /\ look \in Looks

(* A free row holds nothing and waits for nothing, one in use belongs to   *)
(* one live program.                                                       *)
RowInv ==
  /\ \A r \in Rows : rows[r].task = None =>
       /\ rows[r].fb = None /\ rows[r].old = None /\ rows[r].image = None
       /\ rows[r].want = rows[r].size
  /\ \A r \in Rows : rows[r].task # None =>
       used[rows[r].task] /\ rows[r].fb # None /\ rows[r].image # None
  /\ \A r, q \in Rows : rows[r].task # None /\ rows[q].task = rows[r].task => q = r

(* While the desktop looks at a row no other program gets it; what it is   *)
(* about to free is there, unless the program has gone; and the buffer it  *)
(* blits is the row's, or the one before, with no further ask in between.  *)
Looked == rows[look.row]
LookInv ==
  /\ look.pc # "idle" =>
       look.row \in Rows /\ look.task \in Tasks /\ Looked.task \in {None, look.task}
  /\ look.pc # "idle" /\ ~look.gone => Looked.task = look.task
  /\ look.pc \in {"zero", "free"} => look.old # None /\ (Looked.old # None \/ Looked.task = None)
  /\ look.pc = "forget" /\ ~wild => Looked.task = None \/ OldIsStale(look.row)
  /\ look.pc \in {"ask", "blit"} => look.fb # None
  /\ look.pc = "ask" /\ ~look.gone /\ ~look.early => look.fb = Looked.fb
  /\ look.pc = "blit" /\ ~look.gone /\ ~look.early =>
       look.fb = Looked.fb \/ (look.fb = Looked.old /\ Looked.want = Looked.size)

(* The table and the heap: each block given out has one place, or is the   *)
(* image of a refused launch.                                              *)
Places == {"fb", "old", "image"}
Holds(r, f) == rows[r][f] # None /\ ~(f = "old" /\ OldIsStale(r))
Apart ==
  \A r, q \in Rows, f, g \in Places :
    Holds(r, f) /\ Holds(q, g) /\ rows[r][f] = rows[q][g] => r = q /\ f = g
Given ==
  \A b : b \in heap <=> b \in refused \/ \E r \in Rows, f \in Places : Holds(r, f) /\ rows[r][f] = b
Refusals == \A r \in Rows, f \in Places : Holds(r, f) => rows[r][f] \notin refused
BlockInv == ~wild => Apart /\ Given /\ Refusals

Inv == TypeInv /\ RowInv /\ LookInv /\ ResizeNotLost /\ BlockInv

LEMMA InvInit == Init => Inv
<1> SUFFICES ASSUME Init PROVE Inv
  OBVIOUS
<1>1. FreeRow \in RowType
  <2>1. <<>> \in Rings
    <3>1. <<>> \in Seq(Events) /\ Len(<<>>) = 0
      OBVIOUS
    <3>2. 0 <= RingSize
      BY Numbers
    <3> QED BY <3>1, <3>2, RingFact
  <2> QED BY <2>1 DEF FreeRow, RowType, Rings, Events
<1>2. NoLook \in Looks
  BY DEF NoLook, Looks, LookPCs
<1>3. \A r \in Rows : rows[r] = FreeRow
  BY DEF Init
<1>4. TypeInv
  <2>1. windows \in Seq([task: Tasks, size: Sizes]) /\ Len(windows) = 0
    BY DEF Init
  <2>2. Len(windows) <= MaxWindows
    BY <2>1, Numbers
  <2>3. rows \in [Rows -> RowType] /\ look \in Looks
    BY <1>1, <1>2 DEF Init
  <2> QED BY <2>1, <2>2, <2>3 DEF Init, TypeInv
<1>5. RowInv
  BY <1>3 DEF RowInv, FreeRow
<1>6. LookInv
  BY DEF Init, LookInv, NoLook
<1>7. ResizeNotLost
  BY <1>3 DEF ResizeNotLost, FreeRow
<1>8. \A r \in Rows, f \in Places : rows[r][f] = None
  BY <1>3 DEF FreeRow, Places
<1>9. BlockInv
  BY <1>8 DEF Init, BlockInv, Apart, Given, Refusals, Holds
<1> QED BY <1>4, <1>5, <1>6, <1>7, <1>9 DEF Inv

LEMMA RowOfFact ==
  ASSUME TypeInv, RowInv, NEW t \in Tasks
  PROVE  /\ RowOf(t) # None => RowOf(t) \in Rows /\ rows[RowOf(t)].task = t
         /\ \A r \in Rows : rows[r].task = t => RowOf(t) = r
<1> DEFINE mine == {r \in Rows : rows[r].task = t}
<1>1. CASE mine = {}
  BY <1>1 DEF RowOf
<1>2. CASE mine # {}
  <2>1. Min(mine) \in mine
    BY <1>2, Numbers, MinFact
  <2>2. RowOf(t) = Min(mine)
    BY <1>2 DEF RowOf
  <2>3. t # None
    BY Numbers
  <2> QED BY <2>1, <2>2, <2>3 DEF RowInv
<1> QED BY <1>1, <1>2

LEMMA RowFact ==
  ASSUME TypeInv, NEW r \in Rows
  PROVE  /\ rows[r] \in RowType /\ rows[r].ring \in Rings
         /\ rows[r].task \in Tasks \cup {None} /\ rows[r].fb \in Blocks \cup {None}
         /\ rows[r].old \in Blocks \cup {None} /\ rows[r].image \in Blocks \cup {None}
         /\ rows[r].size \in Sizes \cup {NoSize} /\ rows[r].want \in Sizes \cup {NoSize}
         /\ rows[r].made \in Sizes \cup {NoSize}
         /\ rows[r].dirty \in BOOLEAN
BY DEF TypeInv, RowType, Rings, Events

-----------------------------------------------------------------------------
(* Steps that move no block. *)

LEMMA BlocksStay ==
  ASSUME Inv, UNCHANGED <<heap, refused, wild>>,
         \A r \in Rows, f \in Places : rows'[r][f] = rows[r][f],
         \A r \in Rows : OldIsStale(r)' <=> OldIsStale(r)
  PROVE  BlockInv'
<1>1. \A r \in Rows, f \in Places : Holds(r, f)' <=> Holds(r, f)
  BY DEF Holds
<1>2. CASE wild
  BY <1>2 DEF BlockInv
<1>3. CASE ~wild
  <2>1. Apart /\ Given /\ Refusals
    BY <1>3 DEF Inv, BlockInv
  <2>2. Apart'
    BY <1>1, <2>1 DEF Apart
  <2>3. Given'
    BY <1>1, <2>1 DEF Given
  <2>4. Refusals'
    BY <1>1, <2>1 DEF Refusals
  <2> QED BY <2>2, <2>3, <2>4 DEF BlockInv
<1> QED BY <1>2, <1>3 DEF Inv, TypeInv

SameRow(r) ==
  /\ rows'[r].task = rows[r].task /\ rows'[r].fb = rows[r].fb /\ rows'[r].old = rows[r].old
  /\ rows'[r].image = rows[r].image

LEMMA QuietFact ==
  ASSUME Inv, UNCHANGED <<heap, refused, wild, used>>, \A r \in Rows : SameRow(r),
         \A r \in Rows : rows[r].task = None => rows'[r].want = rows'[r].size,
         \/ look' = look \/ (look.pc # "forget" /\ look'.pc # "forget")
  PROVE  RowInv' /\ BlockInv'
<1>1. RowInv'
  BY DEF Inv, RowInv, SameRow
<1>2. \A r \in Rows, f \in Places : rows'[r][f] = rows[r][f]
  BY DEF SameRow, Places
<1>3. \A r \in Rows : OldIsStale(r)' <=> OldIsStale(r)
  BY DEF SameRow, OldIsStale
<1> QED BY <1>1, <1>2, <1>3, BlocksStay

(* Nothing in the rows changes but rings and dirty flags, and the desktop  *)
(* does nothing.                                                           *)
LEMMA RingStep ==
  ASSUME Inv, UNCHANGED <<heap, refused, wild, used, look>>,
         \A r \in Rows : SameRow(r) /\ rows'[r].want = rows[r].want /\ rows'[r].size = rows[r].size
  PROVE  RowInv' /\ BlockInv' /\ LookInv'
<1>1. RowInv' /\ BlockInv'
  BY QuietFact DEF Inv, RowInv
<1>2. LookInv'
  <2>1. CASE look.pc = "idle"
    BY <2>1 DEF LookInv
  <2>2. CASE look.pc # "idle"
    <3>1. look.row \in Rows
      BY <2>2 DEF Inv, LookInv
    <3>2. OldIsStale(look.row)' <=> OldIsStale(look.row)
      BY <3>1 DEF SameRow, OldIsStale
    <3> QED BY <3>1, <3>2 DEF Inv, LookInv, Looked, SameRow
  <2> QED BY <2>1, <2>2
<1> QED BY <1>1, <1>2

LEMMA WindowFact ==
  ASSUME TypeInv, NEW i \in DOMAIN windows
  PROVE  /\ windows[i] \in [task: Tasks, size: Sizes] /\ i \in 1..Len(windows)
         /\ windows[i].task \in Tasks /\ windows[i].size \in Sizes
<1> DEFINE T == [task: Tasks, size: Sizes]
<1>1. windows \in Seq(T)
  BY DEF TypeInv
<1> HIDE DEF T
<1>2. i \in 1..Len(windows)
  BY <1>1
<1>3. windows[i] \in T
  BY <1>1, <1>2, ElementOfSeq
<1>4. windows[i] \in [task: Tasks, size: Sizes]
  BY <1>3 DEF T
<1> QED BY <1>2, <1>4

(* What a row that is edited becomes.                                      *)
LEMMA EditFact ==
  ASSUME TypeInv, NEW r \in Rows, NEW v \in RowType, rows' = [rows EXCEPT ![r] = v]
  PROVE  /\ rows' \in [Rows -> RowType] /\ rows'[r] = v
         /\ \A q \in Rows : q # r => rows'[q] = rows[q]
BY DEF TypeInv

LEMMA RingEdit ==
  ASSUME Inv, NEW r \in Rows, NEW ring \in Rings, rows' = [rows EXCEPT ![r].ring = ring],
         UNCHANGED <<heap, refused, wild, used, killed, windows, look>>,
         told' \in [Tasks -> BOOLEAN], \A t \in Tasks : told[t] => told'[t],
         rows[r].task \in Tasks,
         (\E k \in DOMAIN rows[r].ring : rows[r].ring[k] = "resize") =>
           told'[rows[r].task] \/ \E k \in DOMAIN ring : ring[k] = "resize"
  PROVE  Inv'
<1> DEFINE v == [rows[r] EXCEPT !.ring = ring]
<1>1. /\ v \in RowType /\ v.ring = ring /\ v.task = rows[r].task /\ v.fb = rows[r].fb
      /\ v.old = rows[r].old /\ v.image = rows[r].image /\ v.size = rows[r].size /\ v.want = rows[r].want
  BY RowFact DEF Inv, RowType, Rings, Events
<1>2. rows' = [rows EXCEPT ![r] = v]
  BY DEF Inv, TypeInv
<1> HIDE DEF v
<1>3. /\ rows' \in [Rows -> RowType] /\ rows'[r] = v
      /\ \A q \in Rows : q # r => rows'[q] = rows[q]
  BY <1>1, <1>2, EditFact DEF Inv
<1>4. TypeInv'
  BY <1>3 DEF Inv, TypeInv
<1>5. \A q \in Rows : SameRow(q) /\ rows'[q].want = rows[q].want /\ rows'[q].size = rows[q].size
  BY <1>1, <1>3 DEF SameRow
<1>6. RowInv' /\ BlockInv' /\ LookInv'
  BY <1>5, RingStep
<1>7. ASSUME NEW q \in Rows, rows'[q].want # rows'[q].size
      PROVE  told'[rows'[q].task] \/ \E k \in DOMAIN rows'[q].ring : rows'[q].ring[k] = "resize"
  <2>1. /\ rows[q].want # rows[q].size /\ rows'[q].task = rows[q].task
        /\ told[rows[q].task] \/ \E k \in DOMAIN rows[q].ring : rows[q].ring[k] = "resize"
    BY <1>5, <1>7 DEF SameRow, Inv, ResizeNotLost
  <2>2. rows[q].task \in Tasks
    BY <2>1, RowFact DEF Inv, RowInv
  <2>3. CASE q = r
    BY <1>1, <1>3, <2>1, <2>2, <2>3
  <2>4. CASE q # r
    BY <1>3, <2>1, <2>2, <2>4
  <2> QED BY <2>3, <2>4
<1>8. ResizeNotLost'
  BY <1>7 DEF ResizeNotLost
<1> QED BY <1>4, <1>6, <1>8 DEF Inv

LEMMA InputStep ==
  ASSUME Inv, NEW i \in DOMAIN windows, NEW ev \in {"click", "drag"}, Input(i, ev)
  PROVE  Inv'
<1> DEFINE t == windows[i].task
           r == RowOf(t)
           ring == Pushed(rows[r].ring, ev)
<1>1. t \in Tasks
  BY WindowFact DEF Inv
<1>2. r \in Rows /\ rows[r].task = t
  BY <1>1, RowOfFact DEF Inv, Input
<1>3. /\ ring \in Rings
      /\ \A k \in DOMAIN rows[r].ring : k \in DOMAIN ring /\ ring[k] = rows[r].ring[k]
  BY <1>2, RowFact, PushedFact DEF Inv, Events
<1>4. rows' = [rows EXCEPT ![r].ring = ring]
  BY DEF Input
<1>5. told' \in [Tasks -> BOOLEAN] /\ told' = told
  BY DEF Input, Inv, TypeInv
<1> HIDE DEF t, r, ring
<1> QED BY ZenonT(60), <1>1, <1>2, <1>3, <1>4, <1>5, RingEdit DEF Input

LEMMA PollStep ==
  ASSUME Inv, NEW t \in Tasks, Poll(t)
  PROVE  Inv'
<1> DEFINE r == RowOf(t)
           ring == Tail(rows[r].ring)
<1>1. r \in Rows /\ rows[r].task = t
  BY RowOfFact DEF Inv, Poll, Runs
<1>2. rows[r].ring \in Rings /\ rows[r].ring # <<>>
  BY <1>1, RowFact DEF Inv, Poll
<1>3. /\ ring \in Rings
      /\ (\E k \in DOMAIN rows[r].ring : rows[r].ring[k] = "resize") =>
            Head(rows[r].ring) = "resize" \/ \E k \in DOMAIN ring : ring[k] = "resize"
  BY <1>2, TailFact DEF Events
<1>4. rows' = [rows EXCEPT ![r].ring = ring]
  BY <1>1 DEF Poll, Inv, TypeInv
<1>5. /\ told \in [Tasks -> BOOLEAN]
      /\ told' = [told EXCEPT ![t] = told[t] \/ Head(rows[r].ring) = "resize"]
  BY DEF Poll, Inv, TypeInv
<1> HIDE DEF r, ring
<1>6. /\ told' \in [Tasks -> BOOLEAN] /\ \A u \in Tasks : told[u] => told'[u]
      /\ Head(rows[r].ring) = "resize" => told'[t]
  BY <1>5
<1> QED BY <1>1, <1>3, <1>4, <1>6, RingEdit DEF Poll

(* Steps that leave the rows alone.                                        *)
LEMMA RowsStay ==
  ASSUME Inv, TypeInv', LookInv', UNCHANGED <<rows, heap, refused, wild, used, told>>,
         look' = look \/ (look.pc # "forget" /\ look'.pc # "forget")
  PROVE  Inv'
<1>1. \A r \in Rows : SameRow(r)
  BY DEF SameRow
<1>2. RowInv' /\ BlockInv'
  BY <1>1, QuietFact DEF Inv, RowInv
<1>3. ResizeNotLost'
  BY DEF Inv, ResizeNotLost
<1> QED BY <1>2, <1>3 DEF Inv

LEMMA RemoveFact ==
  ASSUME NEW T, NEW q \in Seq(T), NEW i \in 1..Len(q)
  PROVE  RemoveAt(q, i) \in Seq(T) /\ Len(RemoveAt(q, i)) = Len(q) - 1
<1> DEFINE a == SubSeq(q, 1, i - 1)
           b == SubSeq(q, i + 1, Len(q))
<1>1. i \in Nat /\ i >= 1 /\ i <= Len(q) /\ Len(q) \in Nat
  OBVIOUS
<1>2. a \in Seq(T) /\ Len(a) = i - 1
  <2>1. 1 \in 1..(Len(q) + 1) /\ i - 1 \in (1 - 1)..Len(q)
    BY <1>1
  <2> QED BY <1>1, <2>1, SubSeqProperties
<1>3. b \in Seq(T) /\ Len(b) = Len(q) - i
  <2>1. i + 1 \in 1..(Len(q) + 1) /\ Len(q) \in ((i + 1) - 1)..Len(q)
    BY <1>1
  <2> QED BY <1>1, <2>1, SubSeqProperties
<1>4. RemoveAt(q, i) = a \o b
  BY DEF RemoveAt
<1> HIDE DEF a, b
<1>5. Len(a \o b) = Len(a) + Len(b) /\ a \o b \in Seq(T)
  BY <1>2, <1>3
<1> QED BY <1>1, <1>2, <1>3, <1>4, <1>5

LEMMA UserStep ==
  ASSUME Inv, NEW i \in DOMAIN windows, Close(i) \/ Reap(i) \/ \E size \in Sizes : Drag(i, size)
  PROVE  Inv'
<1>1. windows[i].task \in Tasks /\ i \in 1..Len(windows)
  BY WindowFact DEF Inv
<1>2. UNCHANGED <<rows, heap, refused, wild, used, told, look>>
  BY DEF Close, Reap, Drag
<1>3. LookInv'
  BY <1>2 DEF Inv, LookInv, Looked, OldIsStale
<1>4. windows' \in Seq([task: Tasks, size: Sizes]) /\ Len(windows') <= MaxWindows
  <2> DEFINE T == [task: Tasks, size: Sizes]
  <2>1. windows \in Seq(T) /\ Len(windows) <= MaxWindows /\ Len(windows) \in Nat /\ windows[i] \in T
    BY WindowFact DEF Inv, TypeInv
  <2>2. CASE Close(i)
    BY <2>1, <2>2 DEF Close
  <2>3. CASE Reap(i)
    <3>1. windows' = RemoveAt(windows, i)
      BY <2>3 DEF Reap
    <3> HIDE DEF T
    <3>2. RemoveAt(windows, i) \in Seq(T) /\ Len(RemoveAt(windows, i)) = Len(windows) - 1
      BY <1>1, <2>1, RemoveFact
    <3>3. windows' \in Seq(T) /\ Len(windows') <= MaxWindows
      BY <2>1, <3>1, <3>2, Numbers
    <3> QED BY <3>3 DEF T
  <2>4. ASSUME NEW size \in Sizes, Drag(i, size)
        PROVE  windows' \in Seq([task: Tasks, size: Sizes]) /\ Len(windows') <= MaxWindows
    <3> DEFINE w == [windows[i] EXCEPT !.size = size]
    <3>1. w \in T
      BY <2>1
    <3>2. windows' = [windows EXCEPT ![i] = w]
      BY <1>1, <2>1, <2>4 DEF Drag
    <3> HIDE DEF w, T
    <3>3. windows' \in Seq(T) /\ Len(windows') = Len(windows)
      BY <1>1, <2>1, <3>1, <3>2, ExceptSeq
    <3>4. windows' \in Seq(T) /\ Len(windows') <= MaxWindows
      BY <2>1, <3>3
    <3> QED BY <3>4 DEF T
  <2> QED BY <2>2, <2>3, <2>4
<1>5. killed' \in [Tasks -> BOOLEAN]
  BY <1>1 DEF Inv, TypeInv, Close, Reap, Drag
<1>6. TypeInv'
  BY <1>2, <1>4, <1>5 DEF Inv, TypeInv
<1> QED BY <1>2, <1>3, <1>6, RowsStay

LEMMA PresentStep ==
  ASSUME Inv, NEW t \in Tasks, Present(t)
  PROVE  Inv'
<1> DEFINE r == RowOf(t)
           v == [rows[r] EXCEPT !.dirty = TRUE]
<1>1. r \in Rows
  BY RowOfFact DEF Inv, Present, Runs
<1>2. /\ v \in RowType /\ v.task = rows[r].task /\ v.fb = rows[r].fb /\ v.old = rows[r].old
      /\ v.image = rows[r].image /\ v.size = rows[r].size /\ v.want = rows[r].want
      /\ v.ring = rows[r].ring
  BY <1>1, RowFact DEF Inv, RowType
<1>3. rows' = [rows EXCEPT ![r] = v]
  BY <1>1 DEF Present, Inv, TypeInv
<1> HIDE DEF v, r
<1>4. /\ rows' \in [Rows -> RowType] /\ rows'[r] = v
      /\ \A q \in Rows : q # r => rows'[q] = rows[q]
  BY <1>1, <1>2, <1>3, EditFact DEF Inv
<1>5. \A q \in Rows : /\ SameRow(q) /\ rows'[q].want = rows[q].want
                      /\ rows'[q].size = rows[q].size /\ rows'[q].ring = rows[q].ring
  BY <1>2, <1>4 DEF SameRow
<1>6. RowInv' /\ BlockInv' /\ LookInv'
  BY <1>5, RingStep DEF Present
<1>7. ResizeNotLost'
  BY <1>5 DEF Present, Inv, ResizeNotLost, SameRow
<1>8. TypeInv'
  BY <1>4 DEF Present, Inv, TypeInv
<1> QED BY <1>6, <1>7, <1>8 DEF Inv

-----------------------------------------------------------------------------
(* The desktop's look at a row. *)

LEMMA LookAtStep ==
  ASSUME Inv, NEW i \in DOMAIN windows, NEW blit \in BOOLEAN, LookAt(i, blit)
  PROVE  Inv'
<1> DEFINE t == windows[i].task
           r == RowOf(t)
<1>1. t \in Tasks /\ windows[i].size \in Sizes
  BY WindowFact DEF Inv
<1>2. r \in Rows /\ rows[r].task = t
  BY <1>1, RowOfFact DEF Inv, LookAt
<1>3. look' = [pc |-> IF rows[r].old = None THEN "width" ELSE "zero", task |-> t, row |-> r,
               blit |-> blit, size |-> windows[i].size, old |-> rows[r].old, w |-> 0, h |-> 0,
               fb |-> None, made |-> NoSize, gone |-> FALSE, torn |-> FALSE, early |-> FALSE]
  BY DEF LookAt, NoLook
<1>4. rows[r].old \in Blocks \cup {None}
  BY <1>2, RowFact DEF Inv
<1> HIDE DEF t, r
<1>5. look' \in Looks
  BY <1>1, <1>2, <1>3, <1>4 DEF Looks, LookPCs, t
<1>6. TypeInv'
  BY <1>5 DEF LookAt, Inv, TypeInv
<1>7. rows' = rows
  BY DEF LookAt
<1>8. /\ look'.row = r /\ look'.task = t /\ look'.old = rows[r].old
      /\ look'.pc \in {"width", "zero"} /\ (look'.pc = "zero" => rows[r].old # None)
  BY <1>3
<1>9. LookInv'
  BY <1>1, <1>2, <1>7, <1>8 DEF LookInv, Looked, t
<1> QED BY <1>6, <1>8, <1>9, RowsStay DEF LookAt, Looking

LEMMA LookStep ==
  ASSUME Inv, ZeroOld \/ ReadWidth \/ ReadHeight \/ ReadDirty \/ Blit
  PROVE  Inv'
<1>1. look \in Looks
  BY DEF Inv, TypeInv
<1>2. CASE Blit
  <2>1. look' \in Looks /\ look'.pc = "idle"
    BY <1>2 DEF Blit, Looks, LookPCs, NoLook
  <2>2. TypeInv'
    BY <1>2, <2>1 DEF Blit, Inv, TypeInv
  <2>3. LookInv'
    BY <2>1 DEF LookInv
  <2> QED BY <1>2, <2>1, <2>2, <2>3, RowsStay DEF Blit, Looking
<1>3. CASE ZeroOld
  <2>1. /\ look' \in Looks /\ look.pc = "zero" /\ look'.pc = "free" /\ look'.row = look.row
        /\ look'.task = look.task /\ look'.old = look.old /\ look'.gone = look.gone
    BY <1>1, <1>3 DEF ZeroOld, Looking, Looks, LookPCs
  <2>2. TypeInv'
    BY <1>3, <2>1 DEF ZeroOld, Inv, TypeInv
  <2>3. LookInv'
    BY <1>3, <2>1 DEF ZeroOld, Inv, LookInv, Looked
  <2> QED BY <1>3, <2>1, <2>2, <2>3, RowsStay DEF ZeroOld
<1>4. CASE ReadWidth \/ ReadHeight \/ ReadDirty
  <2>1. /\ look.pc \in {"width", "height", "dirty"}
        /\ UNCHANGED <<used, killed, rows, heap, windows, told, wild, refused>>
    BY <1>4 DEF ReadWidth, ReadHeight, ReadDirty, Looking
  <2>2. look.row \in Rows
    BY <2>1 DEF Inv, LookInv
  <2>3. rows[look.row].size[1] \in Nat /\ rows[look.row].size[2] \in Nat
    BY <2>2, RowFact, SizeFact DEF Inv
  <2>4. /\ look' \in Looks /\ look'.pc \in {"height", "dirty", "clear"} /\ look'.row = look.row
        /\ look'.task = look.task /\ look'.gone = look.gone
    <3>1. CASE ReadWidth
      BY <1>1, <2>3, <3>1 DEF ReadWidth, Looks, LookPCs
    <3>2. CASE ReadHeight
      BY <1>1, <2>3, <3>2 DEF ReadHeight, Looks, LookPCs
    <3>3. CASE ReadDirty
      BY <1>1, <3>3 DEF ReadDirty, Looks, LookPCs
    <3> QED BY <1>4, <3>1, <3>2, <3>3
  <2>5. TypeInv'
    BY <2>1, <2>4 DEF Inv, TypeInv
  <2>6. LookInv'
    BY <2>1, <2>4 DEF Inv, LookInv, Looked
  <2> QED BY <2>1, <2>4, <2>5, <2>6, RowsStay
<1> QED BY <1>2, <1>3, <1>4

LEMMA ClearStep ==
  ASSUME Inv, ClearDirty
  PROVE  Inv'
<1> DEFINE r == look.row
           v == [rows[r] EXCEPT !.dirty = FALSE]
<1>1. look \in Looks /\ look.pc = "clear" /\ r \in Rows
  BY DEF Inv, TypeInv, ClearDirty, Looking, LookInv
<1>2. /\ v \in RowType /\ v.task = rows[r].task /\ v.fb = rows[r].fb /\ v.old = rows[r].old
      /\ v.image = rows[r].image /\ v.size = rows[r].size /\ v.want = rows[r].want
      /\ v.ring = rows[r].ring
  BY ZenonT(60), <1>1, RowFact DEF Inv, RowType
<1>3. rows' = [rows EXCEPT ![r] = v]
  BY <1>1 DEF ClearDirty, Inv, TypeInv
<1> HIDE DEF v
<1>4. /\ rows' \in [Rows -> RowType] /\ rows'[r] = v
      /\ \A q \in Rows : q # r => rows'[q] = rows[q]
  BY <1>1, <1>2, <1>3, EditFact DEF Inv
<1>5. \A q \in Rows : /\ SameRow(q) /\ rows'[q].want = rows[q].want
                      /\ rows'[q].size = rows[q].size /\ rows'[q].ring = rows[q].ring
  BY <1>2, <1>4 DEF SameRow
<1>6. /\ look' \in Looks /\ look'.pc \in {"idle", "fetch"}
      /\ look'.pc = "fetch" => look'.row = r /\ look'.task = look.task /\ look'.gone = look.gone
  <2>1. CASE look.blit
    <3>1. look' = [look EXCEPT !.pc = "fetch"]
      BY <2>1 DEF ClearDirty
    <3> QED BY <1>1, <3>1 DEF Looks, LookPCs
  <2>2. CASE ~look.blit
    <3>1. look' = NoLook
      BY <2>2 DEF ClearDirty
    <3> QED BY <3>1 DEF NoLook, Looks, LookPCs
  <2> QED BY <2>1, <2>2
<1>7. RowInv' /\ BlockInv'
  BY <1>1, <1>5, <1>6, QuietFact DEF ClearDirty, Inv, RowInv
<1>8. LookInv'
  BY <1>1, <1>2, <1>4, <1>6 DEF Inv, LookInv, Looked
<1>9. ResizeNotLost'
  BY <1>5 DEF ClearDirty, Inv, ResizeNotLost, SameRow
<1>10. TypeInv'
  BY <1>4, <1>6 DEF ClearDirty, Inv, TypeInv
<1> QED BY <1>7, <1>8, <1>9, <1>10 DEF Inv

LEMMA FetchStep ==
  ASSUME Inv, Fetch
  PROVE  Inv'
<1>0. PICK r : r = look.row
  OBVIOUS
<1>1. /\ look \in Looks /\ look.pc = "fetch" /\ r \in Rows
      /\ UNCHANGED <<used, killed, rows, heap, windows, told, wild, refused>>
  BY <1>0 DEF Inv, TypeInv, Fetch, Looking, LookInv
<1>2. rows[r].fb \in Blocks \cup {None} /\ rows[r].made \in Sizes \cup {NoSize}
  BY <1>1, RowFact DEF Inv
<1>3. /\ look' \in Looks /\ look'.pc \in {"idle", "ask"}
      /\ look'.pc = "ask" => /\ look'.row = r /\ look'.task = look.task /\ look'.gone = look.gone
                             /\ look'.fb = rows[r].fb /\ look'.fb # None
  <2>1. CASE rows[r].fb # None
    <3>1. look' = [look EXCEPT !.pc = "ask", !.fb = rows[r].fb, !.made = rows[r].made]
      BY <1>0, <2>1 DEF Fetch
    <3> QED BY <1>0, <1>1, <1>2, <2>1, <3>1 DEF Looks, LookPCs
  <2>2. CASE rows[r].fb = None
    <3>1. look' = NoLook
      BY <1>0, <2>2 DEF Fetch
    <3> QED BY <3>1 DEF NoLook, Looks, LookPCs
  <2> QED BY <2>1, <2>2
<1>4. TypeInv'
  BY <1>1, <1>3 DEF Inv, TypeInv
<1>5. LookInv'
  BY <1>0, <1>1, <1>3 DEF Inv, LookInv, Looked
<1> QED BY <1>1, <1>3, <1>4, <1>5, RowsStay

LEMMA AskStep ==
  ASSUME Inv, Ask
  PROVE  Inv'
<1> DEFINE t == look.task
           r == RowOf(t)
           asks == look.size # <<look.w, look.h>> /\ r # None /\ CanAsk(rows[r], look.size)
<1>1. look \in Looks /\ look.pc = "ask" /\ t \in Tasks /\ look.row \in Rows
  BY DEF Inv, TypeInv, Ask, Looking, LookInv
<1>2. /\ look' \in Looks /\ look'.pc = "blit" /\ look'.row = look.row /\ look'.task = t
      /\ look'.gone = look.gone /\ look'.early = look.early /\ look'.fb = look.fb
  BY <1>1 DEF Ask, Looks, LookPCs
<1>3. CASE ~asks
  <2>1. rows' = rows
    BY <1>3 DEF Ask
  <2>2. LookInv'
    BY <1>1, <1>2, <2>1 DEF Inv, LookInv, Looked
  <2>3. TypeInv'
    BY <1>2, <2>1 DEF Ask, Inv, TypeInv
  <2> QED BY <1>1, <1>2, <2>1, <2>2, <2>3, RowsStay DEF Ask
<1>4. CASE asks
  <2> DEFINE ring == Pushed(rows[r].ring, "resize")
             v == [rows[r] EXCEPT !.want = look.size, !.ring = ring]
  <2>1. r \in Rows /\ rows[r].task = t /\ Len(rows[r].ring) < RingSize
    BY <1>1, <1>4, RowOfFact DEF Inv, CanAsk
  <2>2. ring \in Rings /\ \E k \in DOMAIN ring : ring[k] = "resize"
    BY <2>1, RowFact, PushedFact DEF Inv, Events
  <2>3. rows' = [rows EXCEPT ![r].want = look.size, ![r].ring = ring]
    BY <1>4 DEF Ask
  <2> HIDE DEF ring
  <2>4. look.size \in Sizes \cup {NoSize}
    BY <1>1 DEF Looks
  <2>5. /\ v \in RowType /\ v.task = t /\ v.fb = rows[r].fb /\ v.old = rows[r].old
        /\ v.image = rows[r].image /\ v.size = rows[r].size /\ v.ring = ring
    BY <2>1, <2>2, <2>4, RowFact DEF Inv, RowType, Rings, Events
  <2>6. rows' = [rows EXCEPT ![r] = v]
    BY <2>1, <2>3 DEF Inv, TypeInv
  <2> HIDE DEF v
  <2>7. /\ rows' \in [Rows -> RowType] /\ rows'[r] = v
        /\ \A q \in Rows : q # r => rows'[q] = rows[q]
    BY <2>1, <2>5, <2>6, EditFact DEF Inv
  <2>8. \A q \in Rows : SameRow(q)
    BY <2>1, <2>5, <2>7 DEF SameRow
  <2>9. t # None
    BY <1>1, Numbers
  <2>10. \A q \in Rows : rows[q].task = None => rows'[q].want = rows'[q].size
    BY <2>1, <2>7, <2>9 DEF Inv, RowInv
  <2>11. RowInv' /\ BlockInv'
    BY <1>1, <1>2, <2>8, <2>10, QuietFact DEF Ask
  <2>12. LookInv'
    BY <1>1, <1>2, <2>8 DEF Inv, LookInv, Looked, SameRow
  <2>13. ResizeNotLost'
    BY <2>2, <2>5, <2>7 DEF Ask, Inv, ResizeNotLost
  <2>14. TypeInv'
    BY <1>2, <2>7 DEF Ask, Inv, TypeInv
  <2> QED BY <2>11, <2>12, <2>13, <2>14 DEF Inv
<1> QED BY <1>3, <1>4

(* r3win_free_old: the old buffer leaves its place with the kfree ...      *)
LEMMA FreeOldStep ==
  ASSUME Inv, FreeOld
  PROVE  Inv'
<1>0. PICK r : r = look.row
  OBVIOUS
<1>1. look \in Looks /\ look.pc = "free" /\ look.row = r /\ r \in Rows /\ look.old # None
  BY <1>0 DEF Inv, TypeInv, FreeOld, Looking, LookInv
<1>2. PICK b \in {look.old, rows[r].old} :
        /\ heap' = heap \ ({b} \ {None})
        /\ wild' = (wild \/ b \notin {None, rows[r].old} \/ ~(({b} \ {None}) \subseteq heap))
        /\ look' = [look EXCEPT !.pc = "forget", !.old = b]
  BY <1>1 DEF FreeOld, Freeing
<1>3. b \in Blocks \cup {None}
  BY <1>1, <1>2, RowFact DEF Inv, Looks
<1>4. /\ look' \in Looks /\ look'.pc = "forget" /\ look'.row = r /\ look'.task = look.task
      /\ look'.old = b /\ look'.gone = look.gone
  BY <1>1, <1>2, <1>3 DEF Looks, LookPCs
<1>5. UNCHANGED <<used, killed, rows, windows, told, refused>>
  BY DEF FreeOld
<1>6. TypeInv'
  <2>1. heap' \subseteq Blocks /\ wild' \in BOOLEAN
    BY <1>2 DEF Inv, TypeInv
  <2> QED BY <1>4, <1>5, <2>1 DEF Inv, TypeInv
<1>7. RowInv' /\ ResizeNotLost'
  BY <1>5 DEF Inv, RowInv, ResizeNotLost
<1>8. ~wild' => ~wild /\ b \in {None, rows[r].old} /\ (b = None \/ b \in heap)
  BY <1>2
<1>9. ~wild' /\ b = None => rows[r].old = None /\ rows[r].task = None
  BY <1>1, <1>2 DEF Inv, RowInv, LookInv, Looked
<1>10. /\ \A q \in Rows : ~OldIsStale(q)
       /\ \A q \in Rows : OldIsStale(q)' <=> q = r /\ rows[r].old = b /\ b # None
  BY <1>1, <1>4, <1>5 DEF OldIsStale
<1>11. LookInv'
  <2>1. ~wild' => rows[r].task = None \/ OldIsStale(r)'
    BY <1>1, <1>8, <1>9, <1>10
  <2> QED BY <1>1, <1>4, <1>5, <2>1 DEF Inv, LookInv, Looked
<1>12. ASSUME ~wild', b = None
       PROVE  Apart' /\ Given' /\ Refusals'
  <2>1. /\ Apart /\ Given /\ Refusals
        /\ \A q \in Rows, f \in Places : Holds(q, f)' <=> Holds(q, f)
    BY <1>5, <1>8, <1>10, <1>12 DEF Inv, BlockInv, Holds
  <2>2. heap' = heap
    BY <1>2, <1>12
  <2> QED BY <1>5, <2>1, <2>2 DEF Apart, Given, Refusals
<1>13. ASSUME ~wild', b # None
       PROVE  Apart' /\ Given' /\ Refusals'
  <2>1. Apart /\ Given /\ Refusals /\ b = rows[r].old /\ heap' = heap \ {b}
    BY <1>2, <1>8, <1>13 DEF Inv, BlockInv
  <2>2. Holds(r, "old") /\ ~Holds(r, "old")'
    <3>1. rows[r]["old"] = b /\ b # None
      BY <1>13, <2>1
    <3>2. ~OldIsStale(r) /\ OldIsStale(r)'
      BY <1>1, <1>10, <1>13, <2>1
    <3> QED BY <3>1, <3>2 DEF Holds
  <2>3. \A q \in Rows, f \in Places : Holds(q, f)' <=> Holds(q, f) /\ ~(q = r /\ f = "old")
    BY <1>5, <1>10, <2>2 DEF Holds
  <2>4. \A q \in Rows, f \in Places : Holds(q, f) /\ rows[q][f] = b => q = r /\ f = "old"
    BY <1>1, <2>1, <2>2 DEF Apart, Places
  <2>5. b \notin refused
    BY <1>1, <2>1, <2>2 DEF Refusals, Places
  <2>6. Apart' /\ Refusals'
    BY <1>5, <2>1, <2>3 DEF Apart, Refusals
  <2>7. Given'
    <3>1. ASSUME NEW x, x \in heap'
          PROVE  x \in refused' \/ \E q \in Rows, f \in Places : Holds(q, f)' /\ rows'[q][f] = x
      BY <1>5, <2>1, <2>3, <3>1 DEF Given
    <3>2. ASSUME NEW x, x \in refused'
          PROVE  x \in heap'
      BY <1>5, <2>1, <2>5, <3>2 DEF Given
    <3>3. ASSUME NEW q \in Rows, NEW f \in Places, Holds(q, f)'
          PROVE  rows'[q][f] \in heap'
      BY <1>5, <2>1, <2>3, <2>4, <3>3 DEF Given
    <3> QED BY <3>1, <3>2, <3>3 DEF Given
  <2> QED BY <2>6, <2>7
<1>14. BlockInv'
  BY <1>12, <1>13 DEF BlockInv
<1> QED BY <1>6, <1>7, <1>11, <1>14 DEF Inv

(* ... and what forgetting it changes held nothing any more.               *)
LEMMA ForgetOldStep ==
  ASSUME Inv, ForgetOld
  PROVE  Inv'
<1>0. PICK r : r = look.row
  OBVIOUS
<1> DEFINE v == [rows[r] EXCEPT !.old = None]
<1>1. look \in Looks /\ look.pc = "forget" /\ look.row = r /\ r \in Rows
  BY <1>0 DEF Inv, TypeInv, ForgetOld, Looking, LookInv
<1>2. /\ v \in RowType /\ v.task = rows[r].task /\ v.fb = rows[r].fb /\ v.old = None
      /\ v.image = rows[r].image /\ v.size = rows[r].size /\ v.want = rows[r].want
      /\ v.ring = rows[r].ring /\ \A f \in Places : f # "old" => v[f] = rows[r][f]
  BY <1>1, RowFact DEF Inv, RowType, Places
<1>3. rows' = [rows EXCEPT ![r] = v]
  BY <1>1 DEF ForgetOld, Inv, TypeInv
<1> HIDE DEF v
<1>4. /\ rows' \in [Rows -> RowType] /\ rows'[r] = v
      /\ \A q \in Rows : q # r => rows'[q] = rows[q]
  BY <1>1, <1>2, <1>3, EditFact DEF Inv
<1>5. /\ look' \in Looks /\ look'.pc = "width" /\ look'.row = r /\ look'.task = look.task
      /\ look'.gone = look.gone
  BY <1>1 DEF ForgetOld, Looks, LookPCs
<1>6. UNCHANGED <<used, killed, heap, windows, told, wild, refused>>
  BY DEF ForgetOld
<1>7. TypeInv'
  BY <1>4, <1>5, <1>6 DEF Inv, TypeInv
<1>8. \A q \in Rows : /\ rows'[q].task = rows[q].task /\ rows'[q].fb = rows[q].fb
                      /\ rows'[q].image = rows[q].image /\ rows'[q].size = rows[q].size
                      /\ rows'[q].want = rows[q].want /\ rows'[q].ring = rows[q].ring
                      /\ rows'[q].old \in {None, rows[q].old}
  BY <1>2, <1>4
<1>9. RowInv' /\ ResizeNotLost' /\ LookInv'
  <2>1. RowInv'
    BY <1>6, <1>8 DEF Inv, RowInv
  <2>2. ResizeNotLost'
    BY <1>6, <1>8 DEF Inv, ResizeNotLost
  <2>3. LookInv'
    BY <1>1, <1>5, <1>8 DEF Inv, LookInv, Looked
  <2> QED BY <2>1, <2>2, <2>3
<1>10. ASSUME ~wild'
       PROVE  Apart' /\ Given' /\ Refusals'
  <2>1. Apart /\ Given /\ Refusals /\ (rows[r].task = None \/ OldIsStale(r))
    BY <1>1, <1>6, <1>10 DEF Inv, BlockInv, LookInv, Looked
  <2>2. ~Holds(r, "old")
    BY <1>1, <2>1 DEF Inv, RowInv, Holds, OldIsStale
  <2>3. \A q \in Rows : ~OldIsStale(q)'
    BY <1>5 DEF OldIsStale
  <2>4. \A q \in Rows : q # r => ~OldIsStale(q)
    BY <1>1 DEF OldIsStale
  <2>5. \A q \in Rows, f \in Places : ~(q = r /\ f = "old") => rows'[q][f] = rows[q][f]
    BY <1>2, <1>4
  <2>6. \A q \in Rows, f \in Places : Holds(q, f)' <=> Holds(q, f)
    <3>1. ~Holds(r, "old")'
      BY <1>2, <1>4 DEF Holds
    <3> QED BY <2>2, <2>3, <2>4, <2>5, <3>1 DEF Holds
  <2>7. \A q \in Rows, f \in Places : Holds(q, f) => rows'[q][f] = rows[q][f]
    BY <2>2, <2>5
  <2>8. Apart' /\ Refusals'
    BY <1>6, <2>1, <2>6, <2>7 DEF Apart, Refusals
  <2>9. Given'
    BY <1>6, <2>1, <2>6, <2>7 DEF Given
  <2> QED BY <2>8, <2>9
<1> QED BY <1>7, <1>9, <1>10 DEF Inv, BlockInv

-----------------------------------------------------------------------------
(* Opening a window. *)

LEMMA OpenRefused ==
  ASSUME Inv, NEW bs \in FreshBlocks(1), look.pc = "idle", NEW t \in Tasks, ~used[t],
         heap' = heap \cup bs, refused' = refused \cup bs,
         used' = [used EXCEPT ![t] = TRUE], killed' = [killed EXCEPT ![t] = TRUE],
         UNCHANGED <<rows, windows, look, told, wild>>
  PROVE  Inv'
<1>1. PICK b \in Blocks \ heap : bs = {b}
  BY OneBlock
<1>2. TypeInv'
  BY <1>1 DEF Inv, TypeInv
<1>3. RowInv'
  BY RowFact DEF Inv, TypeInv, RowInv
<1>4. LookInv' /\ ResizeNotLost'
  BY DEF Inv, LookInv, ResizeNotLost
<1>5. ASSUME ~wild
      PROVE  Apart' /\ Given' /\ Refusals'
  <2>1. Apart /\ Given /\ Refusals
    BY <1>5 DEF Inv, BlockInv
  <2>2. \A q \in Rows, f \in Places : Holds(q, f)' <=> Holds(q, f)
    BY DEF Holds, OldIsStale
  <2>3. \A q \in Rows, f \in Places : Holds(q, f) => rows[q][f] \in heap
    BY <2>1 DEF Given
  <2>4. Apart'
    BY <2>1, <2>2 DEF Apart
  <2>5. Refusals'
    BY <1>1, <2>1, <2>2, <2>3 DEF Refusals
  <2>6. Given'
    BY <2>1, <2>2 DEF Given
  <2> QED BY <2>4, <2>5, <2>6
<1> QED BY <1>2, <1>3, <1>4, <1>5 DEF Inv, BlockInv

LEMMA OpenKilled ==
  ASSUME Inv, NEW t \in Tasks, ~used[t],
         used' = [used EXCEPT ![t] = TRUE], killed' = [killed EXCEPT ![t] = TRUE],
         UNCHANGED <<rows, heap, refused, windows, look, told, wild>>
  PROVE  Inv'
<1>1. TypeInv'
  BY DEF Inv, TypeInv
<1>2. RowInv'
  BY RowFact DEF Inv, TypeInv, RowInv
<1>3. LookInv' /\ ResizeNotLost'
  BY DEF Inv, LookInv, ResizeNotLost, Looked, OldIsStale
<1>4. BlockInv'
  BY BlocksStay DEF OldIsStale
<1> QED BY <1>1, <1>2, <1>3, <1>4 DEF Inv

LEMMA OpenDone ==
  ASSUME Inv, look.pc = "idle", Len(windows) < MaxWindows, NEW t \in Tasks, ~used[t],
         NEW r \in Rows, rows[r].task = None, NEW size \in Sizes,
         NEW a \in Blocks \ heap, NEW b \in Blocks \ heap, a # b,
         heap' = heap \cup {a, b},
         rows' = [rows EXCEPT ![r] = [FreeRow EXCEPT !.task = t, !.image = a, !.fb = b,
                                                     !.size = size, !.want = size, !.made = size]],
         windows' = Append(windows, [task |-> t, size |-> size]),
         used' = [used EXCEPT ![t] = TRUE],
         UNCHANGED <<killed, refused, look, told, wild>>
  PROVE  Inv'
<1> DEFINE v == [FreeRow EXCEPT !.task = t, !.image = a, !.fb = b, !.size = size, !.want = size, !.made = size]
<1>1. rows' = [rows EXCEPT ![r] = v]
  OBVIOUS
<1>2. <<>> \in Rings
  <2>1. <<>> \in Seq(Events) /\ Len(<<>>) = 0 /\ 0 <= RingSize
    BY Numbers
  <2> QED BY <2>1, RingFact
<1>3. /\ v \in RowType /\ v.task = t /\ v.fb = b /\ v.old = None /\ v.image = a
      /\ v.size = size /\ v.want = size
      /\ v["fb"] = b /\ v["old"] = None /\ v["image"] = a
  BY <1>2 DEF FreeRow, RowType, Rings, Events
<1> HIDE DEF v
<1>4. /\ rows' \in [Rows -> RowType] /\ rows'[r] = v
      /\ \A q \in Rows : q # r => rows'[q] = rows[q]
  BY <1>1, <1>3, EditFact DEF Inv
<1>5. windows' \in Seq([task: Tasks, size: Sizes]) /\ Len(windows') <= MaxWindows
  <2> DEFINE T == [task: Tasks, size: Sizes]
             w == [task |-> t, size |-> size]
  <2>1. w \in T /\ windows \in Seq(T) /\ windows' = Append(windows, w)
    BY DEF Inv, TypeInv
  <2> HIDE DEF T, w
  <2>2. windows' \in Seq(T) /\ Len(windows') = Len(windows) + 1 /\ Len(windows) \in Nat
    BY <2>1, AppendProperties
  <2>3. windows' \in Seq(T) /\ Len(windows') <= MaxWindows
    BY <2>2, Numbers
  <2> QED BY <2>3 DEF T
<1>6. TypeInv'
  <2>1. heap' \subseteq Blocks /\ used' \in [Tasks -> BOOLEAN]
    BY DEF Inv, TypeInv
  <2> QED BY <1>4, <1>5, <2>1 DEF Inv, TypeInv
<1>7. a # None /\ b # None /\ t # None
  BY Numbers
<1>8. \A q \in Rows : rows[q].task # t
  BY <1>7 DEF Inv, RowInv
<1>9. RowInv'
  <2>1. used'[t] /\ \A u \in Tasks : used[u] => used'[u]
    BY DEF Inv, TypeInv
  <2>2. ASSUME NEW q \in Rows, rows'[q].task = None
        PROVE  rows'[q].fb = None /\ rows'[q].old = None /\ rows'[q].image = None
               /\ rows'[q].want = rows'[q].size
    BY <1>3, <1>4, <1>7, <2>2 DEF Inv, RowInv
  <2>3. ASSUME NEW q \in Rows, rows'[q].task # None
        PROVE  used'[rows'[q].task] /\ rows'[q].fb # None /\ rows'[q].image # None
    BY <1>3, <1>4, <1>7, <2>1, <2>3, RowFact DEF Inv, RowInv
  <2>4. ASSUME NEW p \in Rows, NEW q \in Rows, rows'[p].task # None, rows'[q].task = rows'[p].task
        PROVE  q = p
    BY <1>3, <1>4, <1>8, <2>4 DEF Inv, RowInv
  <2> QED BY <2>2, <2>3, <2>4 DEF RowInv
<1>10. LookInv'
  BY DEF LookInv
<1>11. ResizeNotLost'
  BY <1>3, <1>4 DEF Inv, ResizeNotLost
<1>12. ASSUME ~wild
       PROVE  Apart' /\ Given' /\ Refusals'
  <2>1. Apart /\ Given /\ Refusals
    BY <1>12 DEF Inv, BlockInv
  <2>2. \A q \in Rows : ~OldIsStale(q)' /\ ~OldIsStale(q)
    BY DEF OldIsStale
  <2>3. \A f \in Places : ~Holds(r, f)
    BY DEF Inv, RowInv, Holds, Places
  <2>4. \A q \in Rows, f \in Places : q # r => (Holds(q, f)' <=> Holds(q, f)) /\ rows'[q][f] = rows[q][f]
    BY <1>4, <2>2 DEF Holds
  <2>5. /\ Holds(r, "fb")' /\ rows'[r]["fb"] = b /\ Holds(r, "image")' /\ rows'[r]["image"] = a
        /\ ~Holds(r, "old")'
    BY <1>3, <1>4, <1>7, <2>2 DEF Holds
  <2>6. \A q \in Rows, f \in Places : Holds(q, f) => rows[q][f] \in heap
    BY <2>1 DEF Given
  <2>7. Apart'
    <3> SUFFICES ASSUME NEW p \in Rows, NEW q \in Rows, NEW f \in Places, NEW g \in Places,
                        Holds(p, f)', Holds(q, g)', rows'[p][f] = rows'[q][g]
                 PROVE  p = q /\ f = g
      BY DEF Apart
    <3>1. CASE p # r /\ q # r
      BY <2>1, <2>4, <3>1 DEF Apart
    <3>2. CASE p = r /\ q # r
      <4>1. rows'[q][g] \in heap /\ rows'[p][f] \in {a, b}
        BY <2>4, <2>5, <2>6, <3>2 DEF Places
      <4> QED BY <4>1
    <3>3. CASE p # r /\ q = r
      <4>1. rows'[p][f] \in heap /\ rows'[q][g] \in {a, b}
        BY <2>4, <2>5, <2>6, <3>3 DEF Places
      <4> QED BY <4>1
    <3>4. CASE p = r /\ q = r
      BY <2>5, <3>4 DEF Places
    <3> QED BY <3>1, <3>2, <3>3, <3>4
  <2>8. Refusals'
    <3>1. a \notin refused /\ b \notin refused
      BY <2>1 DEF Given
    <3>2. ASSUME NEW q \in Rows, NEW f \in Places, Holds(q, f)'
          PROVE  rows'[q][f] \notin refused
      <4>1. CASE q = r
        <5>1. f \in {"fb", "image"}
          BY <2>5, <3>2, <4>1 DEF Places
        <5> QED BY <2>5, <3>1, <4>1, <5>1
      <4>2. CASE q # r
        BY <2>1, <2>4, <3>2, <4>2 DEF Refusals
      <4> QED BY <4>1, <4>2
    <3> QED BY <3>2 DEF Refusals
  <2>9. Given'
    <3>1. ASSUME NEW x, x \in heap'
          PROVE  x \in refused' \/ \E q \in Rows, f \in Places : Holds(q, f)' /\ rows'[q][f] = x
      <4>1. CASE x \in {a, b}
        BY <2>5, <4>1 DEF Places
      <4>2. CASE x \in heap
        BY <2>1, <2>3, <2>4, <4>2 DEF Given
      <4> QED BY <3>1, <4>1, <4>2
    <3>2. ASSUME NEW x, x \in refused'
          PROVE  x \in heap'
      BY <2>1, <3>2 DEF Given
    <3>3. ASSUME NEW q \in Rows, NEW f \in Places, Holds(q, f)'
          PROVE  rows'[q][f] \in heap'
      <4>1. CASE q = r
        <5>1. f \in {"fb", "image"}
          BY <2>5, <3>3, <4>1 DEF Places
        <5>2. rows'[q][f] \in {a, b}
          BY <2>5, <4>1, <5>1
        <5> QED BY <5>2
      <4>2. CASE q # r
        BY <2>4, <2>6, <3>3, <4>2
      <4> QED BY <4>1, <4>2
    <3> QED BY <3>1, <3>2, <3>3 DEF Given
  <2> QED BY <2>7, <2>8, <2>9
<1> QED BY <1>6, <1>9, <1>10, <1>11, <1>12 DEF Inv, BlockInv

LEMMA OpenStep ==
  ASSUME Inv, NEW size \in Sizes, Open(size)
  PROVE  Inv'
<1>0. PICK t : t = Min(FreeSlots)
  OBVIOUS
<1>1. look.pc = "idle" /\ Len(windows) < MaxWindows /\ UNCHANGED <<look, told, wild>>
  BY DEF Open
<1>2. t \in Tasks /\ ~used[t]
  <2>1. FreeSlots # {} /\ FreeSlots \subseteq Nat
    BY Numbers DEF Open, FreeSlots
  <2>2. t \in FreeSlots
    BY <1>0, <2>1, MinFact
  <2> QED BY <2>2 DEF FreeSlots
<1>3. ASSUME NEW bs \in FreshBlocks(2), FreeRows # {},
             heap' = heap \cup bs,
             rows' = [rows EXCEPT ![Min(FreeRows)] =
                        [FreeRow EXCEPT !.task = t, !.image = Min(bs), !.fb = Max(bs),
                                        !.size = size, !.want = size, !.made = size]],
             windows' = Append(windows, [task |-> t, size |-> size]),
             used' = [used EXCEPT ![t] = TRUE], UNCHANGED <<killed, refused>>
      PROVE  Inv'
  <2>0. PICK r : r = Min(FreeRows)
    OBVIOUS
  <2>1. r \in Rows /\ rows[r].task = None
    <3>1. FreeRows \subseteq Nat
      BY Numbers DEF FreeRows
    <3>2. r \in FreeRows
      BY <1>3, <2>0, <3>1, MinFact
    <3> QED BY <3>2 DEF FreeRows
  <2>2. /\ Min(bs) \in Blocks \ heap /\ Max(bs) \in Blocks \ heap /\ Min(bs) # Max(bs)
        /\ heap' = heap \cup {Min(bs), Max(bs)}
    BY <1>3, TwoBlocks
  <2>3. rows' = [rows EXCEPT ![r] = [FreeRow EXCEPT !.task = t, !.image = Min(bs), !.fb = Max(bs),
                                                    !.size = size, !.want = size, !.made = size]]
    BY <1>3, <2>0
  <2>4. PICK a, b : a = Min(bs) /\ b = Max(bs)
    OBVIOUS
  <2> QED BY <1>1, <1>2, <1>3, <2>1, <2>2, <2>3, <2>4, OpenDone
<1>4. ASSUME NEW bs \in FreshBlocks(1),
             \/ heap' = heap \cup bs /\ refused' = refused \cup bs
             \/ UNCHANGED <<heap, refused>>,
             used' = [used EXCEPT ![t] = TRUE], killed' = [killed EXCEPT ![t] = TRUE],
             UNCHANGED <<rows, windows>>
      PROVE  Inv'
  <2>1. CASE heap' = heap \cup bs /\ refused' = refused \cup bs
    BY <1>1, <1>2, <1>4, <2>1, OpenRefused
  <2>2. CASE UNCHANGED <<heap, refused>>
    BY <1>1, <1>2, <1>4, <2>2, OpenKilled
  <2> QED BY <1>4, <2>1, <2>2
<1> QED BY <1>0, <1>3, <1>4 DEF Open

-----------------------------------------------------------------------------
(* A program gets a new buffer, or ends.                                   *)

(* The desktop looks at another row than the one that changes.             *)
LEMMA LookElsewhere ==
  ASSUME Inv, NEW r \in Rows, look.pc # "idle", look.row # r,
         \A q \in Rows : q # r => rows'[q] = rows[q],
         look'.pc = look.pc, look'.row = look.row, look'.task = look.task, look'.old = look.old,
         look'.fb = look.fb, look.gone => look'.gone, look.early => look'.early,
         ~wild' => ~wild
  PROVE  LookInv'
<1>1. look.row \in Rows /\ Looked' = Looked
  BY DEF Inv, LookInv, Looked
<1>2. look.pc = "forget" /\ ~wild => Looked.task = None \/ (Looked.old = look.old /\ look.old # None)
  BY DEF Inv, LookInv, OldIsStale, Looked
<1>3. look.pc = "forget" /\ ~wild' => Looked'.task = None \/ OldIsStale(look.row)'
  BY <1>1, <1>2 DEF OldIsStale, Looked
<1> QED BY <1>1, <1>3 DEF Inv, LookInv

LEMMA ReopenStep ==
  ASSUME Inv, NEW t \in Tasks, Reopen(t)
  PROVE  Inv'
<1>0. PICK r, o, c : r = RowOf(t) /\ o = rows[r].old /\ c = rows[r].fb
  OBVIOUS
<1>1. /\ r \in Rows /\ rows[r].task = t /\ used[t] /\ t # None
      /\ \A q \in Rows : rows[q].task = t => q = r
  BY <1>0, RowOfFact, Numbers DEF Inv, Reopen, Runs
<1>2. PICK bs \in FreshBlocks(1) :
        /\ heap' = (heap \cup bs) \ ({o} \ {None})
        /\ wild' = (wild \/ OldIsStale(r) \/ ~(({o} \ {None}) \subseteq heap))
        /\ rows' = [rows EXCEPT ![r].old = c, ![r].fb = Max(bs),
                                ![r].size = rows[r].want, ![r].made = rows[r].want,
                                ![r].dirty = TRUE]
  BY <1>0 DEF Reopen, Outdated, NewSize
<1>3. PICK b \in Blocks \ heap : bs = {b} /\ Max(bs) = b
  BY OneBlock
<1>4. /\ rows[r].want # rows[r].size /\ c # None /\ c = rows[r].fb /\ o = rows[r].old /\ b # None
      /\ c \in Blocks /\ o \in Blocks \cup {None}
  BY <1>0, <1>1, RowFact, Numbers DEF Inv, RowInv, Reopen
<1> DEFINE v == [rows[r] EXCEPT !.old = c, !.fb = b, !.size = rows[r].want,
                        !.made = rows[r].want, !.dirty = TRUE]
<1>5. /\ v \in RowType /\ v.task = t /\ v.fb = b /\ v.old = c /\ v.image = rows[r].image
      /\ v.size = rows[r].want /\ v.want = rows[r].want
      /\ v["fb"] = b /\ v["old"] = c /\ v["image"] = rows[r]["image"]
  BY ZenonT(60), <1>1, <1>4, RowFact DEF Inv, RowType
<1>6. rows' = [rows EXCEPT ![r] = v]
  BY <1>1, <1>2, <1>3 DEF Inv, TypeInv
<1> HIDE DEF v
<1>7. /\ rows' \in [Rows -> RowType] /\ rows'[r] = v
      /\ \A q \in Rows : q # r => rows'[q] = rows[q]
  BY <1>1, <1>5, <1>6, EditFact DEF Inv
<1>8. /\ look' \in Looks /\ look'.pc = look.pc /\ look'.row = look.row /\ look'.task = look.task
      /\ look'.old = look.old /\ look'.fb = look.fb /\ look'.gone = look.gone
      /\ look'.early = (look.early \/ (look.pc = "ask" /\ look.task = t))
  BY ZenonT(60) DEF Reopen, Inv, TypeInv, Looks
<1>9. UNCHANGED <<used, killed, windows, refused>> /\ told' = [told EXCEPT ![t] = FALSE]
  BY DEF Reopen
<1>10. TypeInv'
  <2>1. heap' \subseteq Blocks /\ wild' \in BOOLEAN /\ told' \in [Tasks -> BOOLEAN]
    BY <1>2, <1>3, <1>9 DEF Inv, TypeInv, OldIsStale
  <2> QED BY <1>7, <1>8, <1>9, <2>1 DEF Inv, TypeInv
<1>11. RowInv'
  <2>1. ASSUME NEW q \in Rows, rows'[q].task = None
        PROVE  rows'[q].fb = None /\ rows'[q].old = None /\ rows'[q].image = None
               /\ rows'[q].want = rows'[q].size
    BY <1>1, <1>5, <1>7, <2>1 DEF Inv, RowInv
  <2>2. ASSUME NEW q \in Rows, rows'[q].task # None
        PROVE  used'[rows'[q].task] /\ rows'[q].fb # None /\ rows'[q].image # None
    BY <1>1, <1>4, <1>5, <1>7, <1>9, <2>2 DEF Inv, RowInv
  <2>3. \A q \in Rows : rows'[q].task = rows[q].task
    BY <1>1, <1>5, <1>7
  <2> QED BY <2>1, <2>2, <2>3 DEF Inv, RowInv
<1>12. ResizeNotLost'
  <2>1. ASSUME NEW q \in Rows, rows'[q].want # rows'[q].size
        PROVE  told'[rows'[q].task] \/ \E k \in DOMAIN rows'[q].ring : rows'[q].ring[k] = "resize"
    <3>1. q # r /\ rows'[q] = rows[q] /\ rows[q].task # t
      BY <1>1, <1>5, <1>7, <2>1
    <3>2. rows[q].task \in Tasks
      BY <2>1, <3>1, RowFact DEF Inv, RowInv
    <3>3. told'[rows[q].task] = told[rows[q].task]
      BY <1>9, <3>1, <3>2 DEF Inv, TypeInv
    <3> QED BY <2>1, <3>1, <3>3 DEF Inv, ResizeNotLost
  <2> QED BY <2>1 DEF ResizeNotLost
(* Looked at in the middle of forgetting, the row's old buffer is freed a  *)
(* second time.                                                            *)
<1>13. ~wild' => ~wild /\ ~OldIsStale(r) /\ (o = None \/ o \in heap)
                 /\ ~(look.pc = "forget" /\ look.row = r)
  <2>1. ~wild' => ~wild /\ ~OldIsStale(r) /\ (o = None \/ o \in heap)
    BY <1>2
  <2>2. look.pc = "forget" /\ look.row = r /\ ~wild => OldIsStale(r)
    BY <1>1 DEF Inv, LookInv, Looked
  <2> QED BY <2>1, <2>2
<1>14. ~wild' => \A q \in Rows : OldIsStale(q)' <=> OldIsStale(q)
  BY <1>7, <1>8, <1>13 DEF OldIsStale
<1>15. LookInv'
  <2>1. CASE look.pc = "idle"
    BY <1>8, <2>1 DEF LookInv
  <2>2. CASE look.pc # "idle" /\ look.row # r
    <3>1. \A q \in Rows : q # r => rows'[q] = rows[q]
      BY <1>7
    <3>2. (look.gone => look'.gone) /\ (look.early => look'.early) /\ (~wild' => ~wild)
      BY <1>8, <1>13
    <3>3. /\ look'.pc = look.pc /\ look'.row = look.row /\ look'.task = look.task
          /\ look'.old = look.old /\ look'.fb = look.fb
      BY <1>8
    <3>4. look.pc # "idle" /\ look.row # r /\ r \in Rows
      BY <1>1, <2>2
    <3> QED BY Zenon, <3>1, <3>2, <3>3, <3>4, LookElsewhere
  <2>3. CASE look.pc # "idle" /\ look.row = r
    <3>1. look.task = t
      BY <1>1, <2>3 DEF Inv, LookInv, Looked
    <3>2. look.pc = "blit" /\ ~look.gone /\ ~look.early => look.fb = c
      BY <1>4, <2>3 DEF Inv, LookInv, Looked
    <3>3. /\ Looked'.task = t /\ Looked'.old = c /\ Looked'.fb = b
          /\ Looked'.want = Looked'.size
      BY <1>5, <1>7, <1>8, <2>3 DEF Looked
    <3>4. look.pc = "forget" => wild'
      BY <1>13, <2>3
    <3>5. look.pc \in {"zero", "free"} => look.old # None
      BY DEF Inv, LookInv
    <3>6. look.pc \in {"ask", "blit"} => look.fb # None
      BY DEF Inv, LookInv
    <3>7. look.pc = "ask" => look'.early
      BY <1>8, <3>1
    <3> QED BY <1>1, <1>4, <1>8, <2>3, <3>1, <3>2, <3>3, <3>4, <3>5, <3>6, <3>7 DEF LookInv
  <2> QED BY <2>1, <2>2, <2>3
<1>16. ASSUME ~wild'
       PROVE  Apart' /\ Given' /\ Refusals'
  <2>1. Apart /\ Given /\ Refusals
    BY <1>13, <1>16 DEF Inv, BlockInv
  <2>2. \A q \in Rows, f \in Places : q # r => (Holds(q, f)' <=> Holds(q, f)) /\ rows'[q][f] = rows[q][f]
    BY <1>7, <1>14, <1>16 DEF Holds
  <2>3. ~OldIsStale(r) /\ ~OldIsStale(r)'
    BY <1>1, <1>13, <1>14, <1>16
  <2>4. /\ rows'[r]["fb"] = b /\ rows'[r]["old"] = c /\ rows'[r]["image"] = rows[r]["image"]
        /\ rows[r]["fb"] = c /\ rows[r]["old"] = o
    BY <1>4, <1>5, <1>7
  <2>5. /\ Holds(r, "fb")' /\ Holds(r, "old")' /\ Holds(r, "fb")
        /\ Holds(r, "image")' <=> Holds(r, "image")
        /\ Holds(r, "old") <=> o # None
    BY <1>4, <2>3, <2>4 DEF Holds
  <2>6. \A q \in Rows, f \in Places : Holds(q, f) => rows[q][f] \in heap
    BY <2>1 DEF Given
  (* Every place holds what a place held before, but for the new buffer.   *)
  <2>7. ASSUME NEW q \in Rows, NEW f \in Places, Holds(q, f)', ~(q = r /\ f = "fb")
        PROVE  \E g \in Places : /\ Holds(q, g) /\ rows[q][g] = rows'[q][f] /\ ~(q = r /\ g = "old")
                                 /\ g = IF q = r /\ f = "old" THEN "fb" ELSE f
    <3>1. CASE q # r
      BY <2>2, <2>7, <3>1
    <3>2. CASE q = r /\ f = "old"
      <4>1. Holds(q, "fb") /\ rows[q]["fb"] = rows'[q][f] /\ "fb" \in Places
        BY <2>4, <2>5, <3>2 DEF Places
      <4> QED BY <3>2, <4>1
    <3>3. CASE q = r /\ f = "image"
      <4>1. Holds(q, "image") /\ rows[q]["image"] = rows'[q][f] /\ "image" \in Places
        BY <2>4, <2>5, <2>7, <3>3 DEF Places
      <4> QED BY <3>3, <4>1
    <3> QED BY <2>7, <3>1, <3>2, <3>3 DEF Places
  <2>8. \A q \in Rows, f \in Places : Holds(q, f)' /\ ~(q = r /\ f = "fb") => rows'[q][f] \in heap /\ rows'[q][f] # b
    BY <2>6, <2>7
  <2>9. Apart'
    <3> SUFFICES ASSUME NEW p \in Rows, NEW q \in Rows, NEW f \in Places, NEW g \in Places,
                        Holds(p, f)', Holds(q, g)', rows'[p][f] = rows'[q][g]
                 PROVE  p = q /\ f = g
      BY DEF Apart
    <3>1. CASE p = r /\ f = "fb"
      BY <2>4, <2>8, <3>1
    <3>2. CASE q = r /\ g = "fb"
      BY <2>4, <2>8, <3>2
    <3>3. CASE ~(p = r /\ f = "fb") /\ ~(q = r /\ g = "fb")
      <4>1. PICK i \in Places : /\ Holds(p, i) /\ rows[p][i] = rows'[p][f]
                                /\ i = IF p = r /\ f = "old" THEN "fb" ELSE f
        BY <2>7, <3>3
      <4>2. PICK j \in Places : /\ Holds(q, j) /\ rows[q][j] = rows'[q][g]
                                /\ j = IF q = r /\ g = "old" THEN "fb" ELSE g
        BY <2>7, <3>3
      <4>3. p = q /\ i = j
        BY <2>1, <4>1, <4>2 DEF Apart
      <4> QED BY <3>3, <4>1, <4>2, <4>3
    <3> QED BY <3>1, <3>2, <3>3
  <2>10. Refusals'
    <3>1. b \notin refused
      BY <2>1 DEF Given
    <3>2. ASSUME NEW q \in Rows, NEW f \in Places, Holds(q, f)'
          PROVE  rows'[q][f] \notin refused
      <4>1. CASE q = r /\ f = "fb"
        BY <2>4, <3>1, <4>1
      <4>2. CASE ~(q = r /\ f = "fb")
        BY <2>1, <2>7, <3>2, <4>2 DEF Refusals
      <4> QED BY <4>1, <4>2
    <3> QED BY <1>9, <3>2 DEF Refusals
  <2>11. heap' = (heap \cup {b}) \ ({o} \ {None})
    BY <1>2, <1>3
  <2>12. \A q \in Rows, f \in Places : Holds(q, f) /\ rows[q][f] = o => (q = r /\ f = "old") \/ o = None
    <3>1. "old" \in Places
      BY DEF Places
    <3> QED BY <1>1, <2>1, <2>4, <2>5, <3>1 DEF Apart
  <2>13. Given'
    <3>1. ASSUME NEW x, x \in heap'
          PROVE  x \in refused' \/ \E q \in Rows, f \in Places : Holds(q, f)' /\ rows'[q][f] = x
      <4>1. CASE x = b
        <5>1. "fb" \in Places /\ Holds(r, "fb")' /\ rows'[r]["fb"] = x
          BY <2>4, <2>5, <4>1 DEF Places
        <5> QED BY <1>1, <5>1
      <4>2. CASE x \in heap /\ x \notin refused
        <5>1. PICK q \in Rows, f \in Places : Holds(q, f) /\ rows[q][f] = x
          BY <2>1, <4>2 DEF Given
        <5>2. CASE q # r
          BY <2>2, <5>1, <5>2
        <5>3. CASE q = r /\ f = "fb"
          <6>1. "old" \in Places /\ Holds(r, "old")' /\ rows'[r]["old"] = x
            BY <2>4, <2>5, <5>1, <5>3 DEF Places
          <6> QED BY <1>1, <6>1
        <5>4. CASE q = r /\ f = "image"
          BY <1>1, <2>4, <2>5, <5>1, <5>4
        <5>5. CASE q = r /\ f = "old"
          <6>1. x = o /\ o # None
            BY <2>4, <2>5, <5>1, <5>5
          <6> QED BY <2>11, <3>1, <6>1
        <5> QED BY <5>2, <5>3, <5>4, <5>5 DEF Places
      <4>3. CASE x \in refused
        BY <1>9, <4>3
      <4> QED BY <2>11, <3>1, <4>1, <4>2, <4>3
    <3>2. ASSUME NEW x, x \in refused'
          PROVE  x \in heap'
      <4>1. x \in refused /\ x \in heap
        BY <1>9, <2>1, <3>2 DEF Given
      <4>2. x # o \/ o = None
        <5>1. "old" \in Places
          BY DEF Places
        <5> QED BY <1>1, <2>1, <2>4, <2>5, <4>1, <5>1 DEF Refusals
      <4> QED BY <2>11, <4>1, <4>2
    <3>3. ASSUME NEW q \in Rows, NEW f \in Places, Holds(q, f)'
          PROVE  rows'[q][f] \in heap'
      <4>1. CASE q = r /\ f = "fb"
        <5>1. rows'[q][f] = b
          BY <2>4, <4>1
        <5>2. b # o \/ o = None
          BY <1>13, <1>16
        <5> QED BY <2>11, <5>1, <5>2
      <4>2. CASE ~(q = r /\ f = "fb")
        <5>1. PICK g \in Places : Holds(q, g) /\ rows[q][g] = rows'[q][f] /\ ~(q = r /\ g = "old")
          BY <2>7, <3>3, <4>2
        <5>2. rows[q][g] \in heap /\ (rows[q][g] # o \/ o = None)
          BY <2>6, <2>12, <5>1
        <5> QED BY <2>11, <5>1, <5>2
      <4> QED BY <4>1, <4>2
    <3> QED BY <3>1, <3>2, <3>3 DEF Given
  <2> QED BY <2>9, <2>10, <2>13
<1> QED BY <1>10, <1>11, <1>12, <1>15, <1>16 DEF Inv, BlockInv

LEMMA ExitStep ==
  ASSUME Inv, NEW t \in Tasks, Exit(t)
  PROVE  Inv'
<1>1. /\ used' = [used EXCEPT ![t] = FALSE] /\ killed' = [killed EXCEPT ![t] = FALSE]
      /\ told' = [told EXCEPT ![t] = FALSE] /\ UNCHANGED <<windows, refused>>
  BY DEF Exit
<1>2. /\ look' \in Looks /\ look'.pc = look.pc /\ look'.row = look.row /\ look'.task = look.task
      /\ look'.old = look.old /\ look'.fb = look.fb /\ look'.early = look.early
      /\ look'.gone = (look.gone \/ look.task = t)
  BY DEF Exit, Inv, TypeInv, Looks
<1>3. used' \in [Tasks -> BOOLEAN] /\ killed' \in [Tasks -> BOOLEAN] /\ told' \in [Tasks -> BOOLEAN]
  BY <1>1 DEF Inv, TypeInv
<1>4. \A u \in Tasks : u # t => used'[u] = used[u] /\ told'[u] = told[u]
  BY <1>1 DEF Inv, TypeInv
<1>5. CASE RowOf(t) = None
  <2>1. UNCHANGED <<rows, heap, wild>>
    BY <1>5 DEF Exit
  <2>2. \A q \in Rows : rows[q].task # t
    BY <1>5, RowOfFact, Numbers DEF Inv
  <2>3. \A q \in Rows : rows[q].task # None => rows[q].task \in Tasks
    BY RowFact DEF Inv
  <2>4. TypeInv'
    BY <1>1, <1>2, <1>3, <2>1 DEF Inv, TypeInv
  <2>5. RowInv'
    BY <1>4, <2>1, <2>2, <2>3 DEF Inv, RowInv
  <2>6. ResizeNotLost'
    BY <1>4, <2>1, <2>2, <2>3 DEF Inv, RowInv, ResizeNotLost
  <2>7. LookInv'
    BY <1>2, <2>1 DEF Inv, LookInv, Looked, OldIsStale
  <2>8. \A q \in Rows : OldIsStale(q)' <=> OldIsStale(q)
    BY <1>2, <2>1 DEF OldIsStale
  <2>9. BlockInv'
    BY <1>1, <2>1, <2>8, BlocksStay
  <2> QED BY <2>4, <2>5, <2>6, <2>7, <2>9 DEF Inv
<1>6. CASE RowOf(t) # None
  <2>0. PICK r, out : r = RowOf(t) /\ out = Released(rows[r])
    OBVIOUS
  <2>1. /\ r \in Rows /\ rows[r].task = t /\ t # None
        /\ \A q \in Rows : rows[q].task = t => q = r
    BY <1>6, <2>0, RowOfFact, Numbers DEF Inv
  <2>2. /\ heap' = heap \ out /\ wild' = (wild \/ OldIsStale(r) \/ ~(out \subseteq heap))
        /\ rows' = [rows EXCEPT ![r] = FreeRow]
    BY <1>6, <2>0 DEF Exit, Freeing
  <2>3. /\ rows'[r] = FreeRow
        /\ \A q \in Rows : q # r => rows'[q] = rows[q] /\ rows'[q].task # t
    BY <2>1, <2>2 DEF Inv, TypeInv
  <2>4. /\ FreeRow \in RowType /\ FreeRow.task = None /\ FreeRow.want = FreeRow.size
        /\ FreeRow.fb = None /\ FreeRow.old = None /\ FreeRow.image = None
        /\ \A f \in Places : FreeRow[f] = None
    <3>1. <<>> \in Rings
      <4>1. <<>> \in Seq(Events) /\ Len(<<>>) = 0 /\ 0 <= RingSize
        BY Numbers
      <4> QED BY <4>1, RingFact
    <3> QED BY <3>1 DEF FreeRow, RowType, Rings, Events, Places
  <2>5. \A q \in Rows : q # r /\ rows[q].task # None => rows[q].task \in Tasks /\ rows[q].task # t
    BY <2>3, RowFact DEF Inv
  <2>6. TypeInv'
    <3>1. rows' \in [Rows -> RowType] /\ heap' \subseteq Blocks /\ wild' \in BOOLEAN
      BY <2>1, <2>2, <2>4 DEF Inv, TypeInv, OldIsStale
    <3> QED BY <1>1, <1>2, <1>3, <3>1 DEF Inv, TypeInv
  <2>7. RowInv'
    BY <1>4, <2>3, <2>4, <2>5 DEF Inv, RowInv
  <2>8. ResizeNotLost'
    <3>1. ASSUME NEW q \in Rows, rows'[q].want # rows'[q].size
          PROVE  told'[rows'[q].task] \/ \E k \in DOMAIN rows'[q].ring : rows'[q].ring[k] = "resize"
      <4>1. q # r /\ rows'[q] = rows[q] /\ rows[q].task # None
        BY <2>3, <2>4, <3>1 DEF Inv, RowInv
      <4> QED BY <1>4, <2>5, <3>1, <4>1 DEF Inv, ResizeNotLost
    <3> QED BY <3>1 DEF ResizeNotLost
  <2>9. LookInv'
    <3>1. CASE look.pc = "idle"
      BY <1>2, <3>1 DEF LookInv
    <3>2. CASE look.pc # "idle" /\ look.row # r
      <4>0. ~wild' => ~wild
        BY <2>2
      <4>1. \A q \in Rows : q # r => rows'[q] = rows[q]
        BY <2>3
      <4>2. (look.gone => look'.gone) /\ (look.early => look'.early) /\ (~wild' => ~wild)
        BY <1>2, <4>0
      <4>3. /\ look'.pc = look.pc /\ look'.row = look.row /\ look'.task = look.task
            /\ look'.old = look.old /\ look'.fb = look.fb
        BY <1>2
      <4>4. look.pc # "idle" /\ look.row # r /\ r \in Rows
        BY <2>1, <3>2
      <4> QED BY Zenon, <4>1, <4>2, <4>3, <4>4, LookElsewhere
    <3>3. CASE look.pc # "idle" /\ look.row = r
      <4>1. look.task = t
        BY <2>1, <3>3 DEF Inv, LookInv, Looked
      <4> QED BY <1>2, <2>1, <2>3, <2>4, <3>3, <4>1 DEF Inv, LookInv, Looked
    <3> QED BY <3>1, <3>2, <3>3
  <2>10. ASSUME ~wild'
         PROVE  Apart' /\ Given' /\ Refusals'
    <3>1. Apart /\ Given /\ Refusals /\ ~OldIsStale(r)
      BY <2>2, <2>10 DEF Inv, BlockInv
    <3>2. \A q \in Rows : q # r => (OldIsStale(q)' <=> OldIsStale(q))
      BY <1>2, <2>3 DEF OldIsStale
    <3>3. \A q \in Rows, f \in Places : q # r => (Holds(q, f)' <=> Holds(q, f)) /\ rows'[q][f] = rows[q][f]
      BY <2>3, <3>2 DEF Holds
    <3>4. \A f \in Places : ~Holds(r, f)'
      BY <2>3, <2>4 DEF Holds
    <3>5. out = {rows[r].old, rows[r].fb, rows[r].image} \ {None}
      BY <2>0 DEF Released
    <3>6. \A x : x \in out <=> \E f \in Places : Holds(r, f) /\ rows[r][f] = x
      BY <3>1, <3>5 DEF Holds, Places
    <3>7. Apart' /\ Refusals'
      BY <1>1, <3>1, <3>3, <3>4 DEF Apart, Refusals
    <3>8. \A q \in Rows, f \in Places : q # r /\ Holds(q, f) => rows[q][f] \notin out
      BY <2>1, <3>1, <3>6 DEF Apart
    <3>9. \A x \in refused : x \notin out
      BY <2>1, <3>1, <3>6 DEF Refusals
    <3>10. Given'
      <4>1. ASSUME NEW x, x \in heap'
            PROVE  x \in refused' \/ \E q \in Rows, f \in Places : Holds(q, f)' /\ rows'[q][f] = x
        <5>1. CASE x \in refused
          BY <1>1, <5>1
        <5>2. CASE x \notin refused
          <6>1. PICK q \in Rows, f \in Places : Holds(q, f) /\ rows[q][f] = x
            BY <2>2, <3>1, <4>1, <5>2 DEF Given
          <6>2. q # r
            BY <2>2, <3>6, <4>1, <6>1
          <6> QED BY <3>3, <6>1, <6>2
        <5> QED BY <5>1, <5>2
      <4>2. ASSUME NEW x, x \in refused'
            PROVE  x \in heap'
        BY <1>1, <2>2, <3>1, <3>9, <4>2 DEF Given
      <4>3. ASSUME NEW q \in Rows, NEW f \in Places, Holds(q, f)'
            PROVE  rows'[q][f] \in heap'
        <5>1. q # r /\ Holds(q, f) /\ rows'[q][f] = rows[q][f]
          BY <3>3, <3>4, <4>3
        <5>2. rows[q][f] \in heap /\ rows[q][f] \notin out
          BY <3>1, <3>8, <5>1 DEF Given
        <5> QED BY <2>2, <5>1, <5>2
      <4> QED BY <4>1, <4>2, <4>3 DEF Given
    <3> QED BY <3>7, <3>10
  <2> QED BY <2>6, <2>7, <2>8, <2>9, <2>10 DEF Inv, BlockInv
<1> QED BY <1>5, <1>6

-----------------------------------------------------------------------------
LEMMA InvStep == Inv /\ [Next]_vars => Inv'
<1> SUFFICES ASSUME Inv, [Next]_vars PROVE Inv'
  OBVIOUS
<1>1. CASE Desktop
  BY <1>1, LookStep, FreeOldStep, ForgetOldStep, ClearStep, FetchStep, AskStep, LookAtStep, UserStep DEF Desktop
<1>2. CASE User
  BY <1>2, OpenStep, UserStep, InputStep DEF User
<1>3. ASSUME NEW t \in Tasks, Program(t) PROVE Inv'
  BY <1>3, PresentStep, PollStep, ReopenStep, ExitStep DEF Program
<1>4. CASE UNCHANGED vars
  <2>1. /\ UNCHANGED <<rows, heap, refused, wild, used, told, killed, windows, look>>
    BY <1>4 DEF vars
  <2>2. TypeInv' /\ LookInv'
    BY <2>1 DEF Inv, TypeInv, LookInv, Looked, OldIsStale
  <2> QED BY <2>1, <2>2, RowsStay
<1> QED BY <1>1, <1>2, <1>3, <1>4 DEF Next

LEMMA Invariant == Spec => []Inv
BY InvInit, InvStep, PTL DEF Spec

(* A block in the table by Held is one by Holds.                           *)
LEMMA HeldFact ==
  ASSUME NEW r \in Rows, NEW f \in Places
  PROVE  (<<r, f>> \in Held <=> Holds(r, f)) /\ BlockAt(<<r, f>>) = rows[r][f]
BY DEF Held, Holds, BlockAt, Places

LEMMA SoundFact == Inv => WindowsSound
<1> SUFFICES ASSUME Inv PROVE WindowsSound
  OBVIOUS
<1>1. TypeOK
  <2>1. \A i \in DOMAIN windows : windows[i] \in [task: Tasks, size: Sizes]
    BY WindowFact DEF Inv
  <2> QED BY <2>1 DEF Inv, TypeInv, TypeOK, Looks
<1>2. RowsOwned
  BY DEF Inv, RowInv, RowsOwned
<1>3. \A x \in Held : \E r \in Rows, f \in Places : x = <<r, f>> /\ Holds(r, f) /\ BlockAt(x) = rows[r][f]
  BY DEF Held, Holds, BlockAt, Places
<1>4. ASSUME ~wild
      PROVE  /\ \A x, y \in Held : BlockAt(x) = BlockAt(y) => x = y
             /\ \A x \in Held : BlockAt(x) \in heap
             /\ heap = {BlockAt(x) : x \in Held} \cup refused
  <2>1. Apart /\ Given
    BY <1>4 DEF Inv, BlockInv
  <2>2. ASSUME NEW x \in Held, NEW y \in Held, BlockAt(x) = BlockAt(y)
        PROVE  x = y
    <3>1. PICK r \in Rows, f \in Places : x = <<r, f>> /\ Holds(r, f) /\ BlockAt(x) = rows[r][f]
      BY <1>3
    <3>2. PICK q \in Rows, g \in Places : y = <<q, g>> /\ Holds(q, g) /\ BlockAt(y) = rows[q][g]
      BY <1>3
    <3>3. r = q /\ f = g
      BY <2>1, <2>2, <3>1, <3>2 DEF Apart
    <3> QED BY <3>1, <3>2, <3>3
  <2>3. \A x \in Held : BlockAt(x) \in heap
    BY <1>3, <2>1 DEF Given
  <2>4. \A b \in heap : b \in refused \/ \E x \in Held : BlockAt(x) = b
    <3> SUFFICES ASSUME NEW b \in heap, b \notin refused
                 PROVE  \E x \in Held : BlockAt(x) = b
      OBVIOUS
    <3>1. PICK r \in Rows, f \in Places : Holds(r, f) /\ rows[r][f] = b
      BY <2>1 DEF Given
    <3>2. <<r, f>> \in Held /\ BlockAt(<<r, f>>) = b
      BY <3>1, HeldFact
    <3> QED BY <3>2
  <2>5. refused \subseteq heap
    BY <2>1 DEF Given
  <2> QED BY <2>2, <2>3, <2>4, <2>5
<1> QED BY <1>1, <1>2, <1>4 DEF WindowsSound, BlocksApart, NoLeak

-----------------------------------------------------------------------------
(* The sizes of the buffers: what the desktop has read of a row it looks   *)
(* at is the row's, unless the program has re-opened its window since.     *)
SizeInv ==
  /\ \A r \in Rows : rows[r].made = rows[r].size
  /\ ~look.gone /\ ~look.torn =>
       /\ look.pc \in {"height", "dirty", "clear", "fetch"} => look.w = Looked.size[1]
       /\ look.pc \in {"dirty", "clear", "fetch"} => look.h = Looked.size[2]
       /\ look.pc \in {"ask", "blit"} => <<look.w, look.h>> = look.made

LEMMA SizeInit == Init => SizeInv
BY DEF Init, SizeInv, FreeRow, NoLook, Looked

SizesStay == \A r \in Rows : rows'[r].size = rows[r].size /\ rows'[r].made = rows[r].made

LEMMA FlagEdit ==
  ASSUME TypeInv, NEW r \in Rows, NEW x,
         \/ rows' = [rows EXCEPT ![r].dirty = x] \/ rows' = [rows EXCEPT ![r].ring = x]
         \/ rows' = [rows EXCEPT ![r].old = x]
  PROVE  SizesStay
<1>1. rows \in [Rows -> RowType]
  BY DEF TypeInv
<1>2. CASE rows' = [rows EXCEPT ![r].dirty = x]
  BY <1>1, <1>2 DEF RowType, SizesStay
<1>3. CASE rows' = [rows EXCEPT ![r].ring = x]
  BY <1>1, <1>3 DEF RowType, SizesStay
<1>4. CASE rows' = [rows EXCEPT ![r].old = x]
  BY <1>1, <1>4 DEF RowType, SizesStay
<1> QED BY <1>2, <1>3, <1>4

(* The rows' sizes stay, and so does the desktop.                          *)
LEMMA SizesKept ==
  ASSUME Inv, SizeInv, SizesStay,
         look'.pc = look.pc, look'.row = look.row, look'.w = look.w, look'.h = look.h,
         look'.made = look.made, look.gone => look'.gone, look.torn => look'.torn
  PROVE  SizeInv'
<1>1. look.pc # "idle" => look.row \in Rows
  BY DEF Inv, LookInv
<1>2. look.pc # "idle" => Looked'.size = Looked.size
  BY <1>1 DEF SizesStay, Looked
<1> QED BY <1>2 DEF SizeInv, SizesStay

LEMMA DesktopSizes ==
  ASSUME Inv, SizeInv, Desktop
  PROVE  SizeInv'
<1>1. look \in Looks
  BY DEF Inv, TypeInv
<1>2. look.pc # "idle" => look.row \in Rows
  BY DEF Inv, LookInv
<1>3. SizesStay
  <2>1. CASE ClearDirty \/ ForgetOld
    <3>1. look.row \in Rows
      BY <1>2, <2>1 DEF ClearDirty, ForgetOld, Looking
    <3>2. \/ rows' = [rows EXCEPT ![look.row].dirty = FALSE]
          \/ rows' = [rows EXCEPT ![look.row].old = None]
      BY Zenon, <2>1 DEF ClearDirty, ForgetOld
    <3> QED BY <3>1, <3>2, FlagEdit DEF Inv
  <2>2. CASE Ask
    <3>1. look.task \in Tasks
      BY <2>2 DEF Ask, Looking, Inv, LookInv
    <3>2. PICK r : r = RowOf(look.task)
      OBVIOUS
    <3>3. r # None => r \in Rows
      BY <3>1, <3>2, RowOfFact DEF Inv
    <3> QED BY <2>2, <3>2, <3>3 DEF Ask, Inv, TypeInv, RowType, SizesStay
  <2>3. CASE UNCHANGED rows
    BY <2>3 DEF SizesStay
  <2> QED BY <2>1, <2>2, <2>3
          DEF Desktop, ZeroOld, FreeOld, ReadWidth, ReadHeight, ReadDirty, Fetch, Blit, LookAt, Reap
<1>4. \A r \in Rows : rows'[r].made = rows'[r].size
  BY <1>3 DEF SizeInv, SizesStay
<1>5. CASE look'.pc \in {"idle", "zero", "free", "forget", "width"}
  BY <1>4, <1>5 DEF SizeInv
<1>6. CASE ReadWidth
  BY <1>1, <1>2, <1>4, <1>6 DEF ReadWidth, Looking, Looks, SizeInv, Looked
<1>7. CASE ReadHeight
  BY <1>1, <1>2, <1>4, <1>7 DEF ReadHeight, Looking, Looks, SizeInv, Looked
<1>8. CASE ReadDirty
  BY <1>1, <1>2, <1>4, <1>8 DEF ReadDirty, Looking, Looks, SizeInv, Looked
<1>9. CASE ClearDirty
  <2>1. Looked'.size = Looked.size \/ look'.pc = "idle"
    BY <1>1, <1>2, <1>3, <1>9 DEF ClearDirty, Looking, Looks, NoLook, SizesStay, Looked
  <2> QED BY <1>1, <1>4, <1>5, <1>9, <2>1 DEF ClearDirty, Looking, Looks, NoLook, SizeInv
<1>10. CASE Fetch
  <2>1. look.row \in Rows /\ look.pc = "fetch"
    BY <1>2, <1>10 DEF Fetch, Looking
  <2>2. Looked.size = <<Looked.size[1], Looked.size[2]>>
    BY <2>1, RowFact, SizeFact DEF Inv, Looked
  <2>3. CASE look' = NoLook
    BY <1>5, <2>3 DEF NoLook
  <2>4. CASE look' = [look EXCEPT !.pc = "ask", !.fb = Looked.fb, !.made = Looked.made]
    BY <1>1, <1>4, <2>1, <2>2, <2>4 DEF Looks, SizeInv, Looked
  <2> QED BY <1>10, <2>3, <2>4 DEF Fetch, Looked
<1>11. CASE Ask
  BY <1>1, <1>4, <1>11 DEF Ask, Looking, Looks, SizeInv
<1>12. CASE \E i \in DOMAIN windows : Reap(i)
  <2>1. look' = look
    BY <1>12 DEF Reap
  <2> QED BY <1>3, <2>1, SizesKept
<1>13. CASE ZeroOld \/ FreeOld \/ ForgetOld \/ Blit
  <2>1. look'.pc \in {"idle", "free", "forget", "width"}
    <3>1. CASE ZeroOld
      BY <1>1, <3>1 DEF ZeroOld, Looks
    <3>2. CASE FreeOld
      <4>1. PICK b : look' = [look EXCEPT !.pc = "forget", !.old = b]
        BY Zenon, <3>2 DEF FreeOld
      <4> QED BY <1>1, <4>1 DEF Looks
    <3>3. CASE ForgetOld
      BY <1>1, <3>3 DEF ForgetOld, Looks
    <3>4. CASE Blit
      BY <3>4 DEF Blit, NoLook
    <3> QED BY <1>13, <3>1, <3>2, <3>3, <3>4
  <2> QED BY <1>5, <2>1
<1>14. CASE \E i \in DOMAIN windows, blit \in BOOLEAN : LookAt(i, blit)
  <2>1. look'.pc \in {"zero", "width"}
    BY <1>14 DEF LookAt, NoLook
  <2> QED BY <1>5, <2>1
<1> QED BY <1>6, <1>7, <1>8, <1>9, <1>10, <1>11, <1>12, <1>13, <1>14 DEF Desktop

LEMMA UserSizes ==
  ASSUME Inv, SizeInv, User
  PROVE  SizeInv'
<1>1. look' = look /\ look.pc = "idle"
  BY DEF User, Open, Close, Input, Drag
<1>2. \A r \in Rows : rows'[r].made = rows'[r].size
  <2>1. ASSUME NEW size \in Sizes, Open(size)
        PROVE  \A r \in Rows : rows'[r].made = rows'[r].size
    <3>1. CASE UNCHANGED rows
      BY <3>1 DEF SizeInv
    <3>2. ASSUME NEW bs,
                 rows' = [rows EXCEPT ![Min(FreeRows)] =
                            [FreeRow EXCEPT !.task = Min(FreeSlots), !.image = Min(bs), !.fb = Max(bs),
                                            !.size = size, !.want = size, !.made = size]]
          PROVE  \A r \in Rows : rows'[r].made = rows'[r].size
      <4> DEFINE v == [FreeRow EXCEPT !.task = Min(FreeSlots), !.image = Min(bs), !.fb = Max(bs),
                                      !.size = size, !.want = size, !.made = size]
      <4>1. v.made = v.size
        BY DEF FreeRow
      <4>2. PICK r : r = Min(FreeRows)
        OBVIOUS
      <4>3. rows' = [rows EXCEPT ![r] = v]
        BY <3>2, <4>2
      <4> HIDE DEF v
      <4> QED BY <4>1, <4>3 DEF Inv, TypeInv, SizeInv
    <3> QED BY Zenon, <2>1, <3>1, <3>2 DEF Open
  <2>2. ASSUME NEW i \in DOMAIN windows, NEW ev \in {"click", "drag"}, Input(i, ev)
        PROVE  \A r \in Rows : rows'[r].made = rows'[r].size
    <3>1. \E q, ring : rows' = [rows EXCEPT ![q].ring = ring]
      BY <2>2 DEF Input
    <3> QED BY <3>1 DEF Inv, TypeInv, RowType, SizeInv
  <2>3. CASE UNCHANGED rows
    BY <2>3 DEF SizeInv
  <2> QED BY <2>1, <2>2, <2>3 DEF User, Close, Drag
<1> QED BY <1>1, <1>2 DEF SizeInv

LEMMA ProgramSizes ==
  ASSUME Inv, SizeInv, NEW t \in Tasks, Program(t)
  PROVE  SizeInv'
<1>0. PICK r : r = RowOf(t)
  OBVIOUS
<1>1. look \in Looks /\ (r # None => r \in Rows /\ rows[r].task = t)
  BY <1>0, RowOfFact DEF Inv, TypeInv
<1>2. look.pc # "idle" => look.row \in Rows /\ (look.gone \/ Looked.task = look.task)
  BY DEF Inv, LookInv
<1>3. CASE Present(t) \/ Poll(t)
  <2>1. look' = look /\ r # None
    BY <1>0, <1>3 DEF Present, Poll, Runs
  <2>2. (\E x : rows' = [rows EXCEPT ![r].dirty = x]) \/ \E x : rows' = [rows EXCEPT ![r].ring = x]
    BY <1>0, <1>3 DEF Present, Poll
  <2>3. SizesStay
    BY <1>1, <2>1, <2>2, FlagEdit DEF Inv
  <2> QED BY <2>1, <2>3, SizesKept
(* Re-opened while the desktop reads its row, the window is torn.          *)
<1>4. CASE Reopen(t)
  <2>1. /\ r \in Rows /\ rows[r].task = t
        /\ \E b : rows' = [rows EXCEPT ![r].old = rows[r].fb, ![r].fb = b, ![r].size = rows[r].want,
                                      ![r].made = rows[r].want, ![r].dirty = TRUE]
    BY <1>0, <1>1, <1>4 DEF Reopen, Runs, NewSize
  <2>2. /\ rows'[r].made = rows'[r].size
        /\ \A q \in Rows : q # r => rows'[q] = rows[q]
    BY <2>1 DEF Inv, TypeInv, RowType
  <2>3. /\ look'.pc = look.pc /\ look'.row = look.row /\ look'.w = look.w /\ look'.h = look.h
        /\ look'.made = look.made /\ look'.gone = look.gone
        /\ look'.torn = (look.torn \/ (Sizing /\ look.task = t))
    BY <1>1, <1>4 DEF Reopen, Looks
  <2>4. \A q \in Rows : rows'[q].made = rows'[q].size
    BY <2>2 DEF SizeInv
  <2>5. Sizing /\ ~look'.gone /\ ~look'.torn => Looked'.size = Looked.size
    BY <1>2, <2>1, <2>2, <2>3 DEF Sizing, Looked
  <2> QED BY <2>3, <2>4, <2>5 DEF SizeInv, Sizing
<1>5. CASE Exit(t)
  <2>1. /\ look'.pc = look.pc /\ look'.row = look.row /\ look'.w = look.w /\ look'.h = look.h
        /\ look'.made = look.made /\ look'.torn = look.torn
        /\ look'.gone = (look.gone \/ look.task = t)
    BY <1>1, <1>5 DEF Exit, Looks
  <2>2. CASE r = None
    <3>1. SizesStay
      BY <1>0, <1>5, <2>2 DEF Exit, SizesStay
    <3> QED BY <2>1, <3>1, SizesKept
  <2>3. CASE r # None
    <3>1. rows' = [rows EXCEPT ![r] = FreeRow]
      BY <1>0, <1>5, <2>3 DEF Exit
    <3>2. rows'[r] = FreeRow /\ \A q \in Rows : q # r => rows'[q] = rows[q]
      BY <1>1, <2>3, <3>1 DEF Inv, TypeInv
    <3>3. \A q \in Rows : rows'[q].made = rows'[q].size
      BY <3>2 DEF SizeInv, FreeRow
    <3>4. look.pc # "idle" /\ ~look'.gone => Looked'.size = Looked.size
      BY <1>1, <1>2, <2>1, <2>3, <3>2 DEF Looked
    <3> QED BY <2>1, <3>3, <3>4 DEF SizeInv
  <2> QED BY <2>2, <2>3
<1> QED BY <1>3, <1>4, <1>5 DEF Program

LEMMA SizeStep == Inv /\ SizeInv /\ [Next]_vars => SizeInv'
<1>1. ASSUME Inv, SizeInv, UNCHANGED vars PROVE SizeInv'
  BY <1>1, SizesKept DEF vars, SizesStay
<1> QED BY <1>1, DesktopSizes, UserSizes, ProgramSizes DEF Next

LEMMA SizesInvariant == Spec => []SizeInv
BY SizeInit, SizeStep, Invariant, PTL DEF Spec

LEMMA SizedFact == SizeInv => BlitSized
BY DEF SizeInv, BlitSized

LEMMA BlitFact == Inv => BlitLive
<1> SUFFICES ASSUME Inv, look.pc \in {"ask", "blit"}, ~look.gone, ~look.early, ~wild
             PROVE  look.fb \in heap
  BY DEF BlitLive
<1>1. PICK r : r = look.row
  OBVIOUS
<1>2. /\ r \in Rows /\ look.fb # None /\ (look.fb = rows[r].fb \/ look.fb = rows[r].old)
  BY <1>1 DEF Inv, LookInv, Looked
<1>3. Given /\ ~OldIsStale(r)
  BY DEF Inv, BlockInv, OldIsStale
<1>4. CASE look.fb = rows[r].fb
  <2>1. "fb" \in Places /\ Holds(r, "fb") /\ rows[r]["fb"] = look.fb
    BY <1>2, <1>4 DEF Holds, Places
  <2> QED BY <1>2, <1>3, <2>1 DEF Given
<1>5. CASE look.fb = rows[r].old
  <2>1. "old" \in Places /\ Holds(r, "old") /\ rows[r]["old"] = look.fb
    BY <1>2, <1>3, <1>5 DEF Holds, Places
  <2> QED BY <1>2, <1>3, <2>1 DEF Given
<1> QED BY <1>2, <1>4, <1>5

(* The table, the slots and the heap fit together: a row has one live      *)
(* program, a block one place, and none is lost (r3win_register, _resize,  *)
(* _free_old and _release).                                                *)
THEOREM TableSound == Spec => []WindowsSound
BY Invariant, SoundFact, PTL

(* A program whose window was changed gets, or got, the event that says so *)
(* (syscall_window_request_size).                                          *)
THEOREM AsksKept == Spec => []ResizeNotLost
<1>1. Inv => ResizeNotLost
  BY DEF Inv
<1> QED BY <1>1, Invariant, PTL

(* A blit reads allocated memory while its program lives and has not       *)
(* re-opened the window between the fetch and the ask; and by the size the *)
(* buffer was made for unless it has while width, height and buffer were   *)
(* read (syscall_window_fb, r3win_resize).                                 *)
THEOREM BlitReadsLive == Spec => []BlitSafe
<1>1. BlitLive /\ BlitSized => BlitSafe
  BY DEF BlitSafe
<1> QED BY <1>1, Invariant, BlitFact, SizesInvariant, SizedFact, PTL
=============================================================================
