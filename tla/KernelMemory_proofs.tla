------------------------- MODULE KernelMemory_proofs -------------------------
(***************************************************************************)
(* Proofs about KernelMemory.  The frame bitmap and the block list are     *)
(* reasoned about as values: MemOk and HeapOk say what a good one is, Took *)
(* which frames a run of grabs has left the bitmap with, and each operator *)
(* of the allocator has a fact in those terms.  The invariant relates the  *)
(* two to who holds what.                                                  *)
(***************************************************************************)
EXTENDS KernelMemory, WellFoundedInduction, FiniteSetTheorems, SequenceTheorems, TLAPS

(* The order of the naturals, as a well-founded relation.                  *)
LEMMA LessFact == \E R : IsWellFoundedOn(R, Nat) /\ \A x, y \in Nat : x < y => <<x, y>> \in R
<1>1. \A x, y \in Nat : x < y => <<x, y>> \in OpToRel(<, Nat)
  BY Zenon DEF OpToRel
<1>2. IsWellFoundedOn(OpToRel(<, Nat), Nat)
  BY Zenon, NatLessThanWellFounded
<1> QED BY Zenon, <1>1, <1>2

LEMMA FirstFact ==
  ASSUME NEW R, IsWellFoundedOn(R, Nat), NEW T, T \subseteq Nat, T # {}
  PROVE  \E x \in T : \A y \in T : ~(<<y, x>> \in R)
BY Zenon, WFMin

(* A set of naturals has a least element, and Min is it.                   *)
LEMMA MinFact ==
  ASSUME NEW S, S \subseteq Nat, S # {}
  PROVE  Min(S) \in S /\ \A x \in S : Min(S) <= x
<1>1. PICK R : IsWellFoundedOn(R, Nat) /\ \A x, y \in Nat : x < y => <<x, y>> \in R
  BY LessFact
<1>2. PICK x \in S : \A y \in S : ~(<<y, x>> \in R)
  BY Zenon, <1>1, FirstFact
<1>3. ASSUME NEW y \in S PROVE x <= y
  <2>1. ~(y < x)
    BY <1>1, <1>2
  <2>2. x \in Nat /\ y \in Nat
    OBVIOUS
  <2> QED BY <2>1, <2>2
<1> QED BY <1>3 DEF Min

(* What holds of 1, and of k + 1 whenever of k, holds up to any n.         *)
LEMMA CountUp ==
  ASSUME NEW n \in Nat, NEW T, n >= 1 => 1 \in T,
         \A k \in 1..(n - 1) : k \in T => k + 1 \in T
  PROVE  \A k \in 1..n : k \in T
<1> DEFINE B == {k \in 1..n : k \notin T}
<1> SUFFICES ASSUME B # {} PROVE FALSE
  OBVIOUS
<1>1. PICK m : m \in B /\ \A x \in B : m <= x
  <2>1. B \subseteq Nat
    OBVIOUS
  <2> QED BY <2>1, MinFact
<1>2. m \in Nat /\ 1 <= m /\ m <= n /\ m \notin T
  BY <1>1
<1>3. m # 1
  BY <1>2
<1>4. m - 1 \in 1..(n - 1) /\ m - 1 \in 1..n /\ (m - 1) + 1 = m /\ ~(m <= m - 1)
  BY <1>2, <1>3
<1>5. m - 1 \in T
  BY <1>1, <1>4
<1> QED BY <1>2, <1>4, <1>5

LEMMA Sizing ==
  /\ NFrames \in Nat /\ NFrames >= 1 /\ FrameWords \in Nat /\ FrameWords >= 1
  /\ Header \in Nat /\ Header >= 1 /\ MinSplit \in Nat /\ MinSplit >= 1
  /\ RegionFrames \in Nat /\ RegionFrames >= 1 /\ NTasks \in Nat /\ NTasks >= 1
  /\ StackSize \in Nat /\ StackSize >= 1 /\ BrkMax \in Nat /\ BrkMax >= 1
  /\ TablePages \in Nat /\ TablePages >= 1
  /\ KernelFrames \in Nat /\ MaxExtra \in Nat /\ MaxHeld \in Nat /\ MaxLive \in Nat
  /\ KernelFrames <= NFrames /\ Header + MinSplit <= FrameWords /\ Floor \in Nat
  /\ \A size \in Sizes : size \in Nat /\ size >= 1
BY MemoryAssumption

-----------------------------------------------------------------------------
(* The bitmap, and the kernel half of every directory.                     *)

AllRegions == Regions \cup BaseMap
MemShape == [bitmap : SUBSET Frames, pdes : SUBSET AllRegions, seen : [Tasks -> SUBSET AllRegions]]
MemOk(m) ==
  /\ m \in MemShape
  /\ BaseMap \subseteq m.pdes
  /\ \A t \in Tasks : m.seen[t] = {} \/ m.seen[t] = m.pdes

(* n is m with the frames fs taken; a directory of either is one of both.  *)
Took(m, n, fs) ==
  /\ fs \subseteq Frames \ m.bitmap
  /\ n.bitmap = m.bitmap \cup fs
  /\ \A t \in Tasks : n.seen[t] = {} <=> m.seen[t] = {}

LEMMA FrameNumbers == Frames \subseteq Nat /\ 0 \notin Frames
BY Sizing DEF Frames

LEMMA TookNone == ASSUME NEW m PROVE Took(m, m, {})
BY DEF Took

LEMMA TookTwice ==
  ASSUME NEW m, NEW n, NEW p, NEW A, NEW B, Took(m, n, A), Took(n, p, B)
  PROVE  Took(m, p, A \cup B) /\ A \cap B = {}
BY DEF Took

LEMMA FreeLeast ==
  ASSUME NEW m, MemOk(m), FreeFrames(m) # {}
  PROVE  Min(FreeFrames(m)) \in Frames \ m.bitmap
<1>1. FreeFrames(m) \subseteq Nat
  BY Sizing DEF FreeFrames, Frames
<1> QED BY <1>1, MinFact DEF FreeFrames

LEMMA GrabFact ==
  ASSUME NEW m, MemOk(m)
  PROVE  LET g == Grab(m)
         IN  /\ MemOk(g.mem) /\ g.mem.pdes = m.pdes
             /\ \/ g.frame = 0 /\ g.mem = m
                \/ g.frame \in Frames /\ Took(m, g.mem, {g.frame})
<1>1. CASE FreeFrames(m) = {}
  BY <1>1, Zenon DEF Grab
<1>2. CASE FreeFrames(m) # {}
  <2> PICK f : f = Min(FreeFrames(m))
    OBVIOUS
  <2>1. f \in Frames \ m.bitmap
    BY <1>2, FreeLeast
  <2> PICK n : n = [m EXCEPT !.bitmap = m.bitmap \cup {f}]
    OBVIOUS
  <2>2. Grab(m) = [mem |-> n, frame |-> f]
    BY <1>2, Zenon DEF Grab
  <2>3. n \in MemShape /\ n.bitmap = m.bitmap \cup {f} /\ n.pdes = m.pdes /\ n.seen = m.seen
    BY <2>1 DEF MemOk, MemShape
  <2>4. MemOk(n) /\ Took(m, n, {f})
    BY <2>1, <2>3 DEF MemOk, Took
  <2>5. Grab(m).mem = n /\ Grab(m).frame = f
    BY <2>2
  <2> QED BY <2>1, <2>3, <2>4, <2>5
<1> QED BY <1>1, <1>2

LEMMA GiveBackFact ==
  ASSUME NEW m, MemOk(m), NEW fs
  PROVE  LET n == GiveBack(m, fs)
         IN  MemOk(n) /\ n.bitmap = m.bitmap \ fs /\ n.pdes = m.pdes /\ n.seen = m.seen
<1> PICK n : n = GiveBack(m, fs)
  OBVIOUS
<1>1. n \in MemShape /\ n.bitmap = m.bitmap \ fs /\ n.pdes = m.pdes /\ n.seen = m.seen
  BY DEF GiveBack, MemOk, MemShape
<1>2. MemOk(n)
  BY <1>1 DEF MemOk
<1> QED BY <1>1, <1>2

LEMMA TookBack ==
  ASSUME NEW m, NEW n, NEW fs, NEW gs, MemOk(n), Took(m, n, fs), gs \subseteq fs
  PROVE  MemOk(GiveBack(n, gs)) /\ Took(m, GiveBack(n, gs), fs \ gs)
<1>1. MemOk(GiveBack(n, gs)) /\ GiveBack(n, gs).bitmap = n.bitmap \ gs /\ GiveBack(n, gs).seen = n.seen
  BY GiveBackFact
<1> QED BY <1>1 DEF Took

LEMMA MapRegionFact ==
  ASSUME NEW m, MemOk(m), NEW f \in Frames
  PROVE  MemOk(MapRegion(m, f)) /\ Took(m, MapRegion(m, f), {})
<1>1. CASE RegionOf(f) \in m.pdes
  BY <1>1, TookNone DEF MapRegion
<1>2. CASE RegionOf(f) \notin m.pdes
  <2>1. RegionOf(f) \in AllRegions
    BY DEF AllRegions, Regions
  <2> PICK n : n = MapRegion(m, f)
    OBVIOUS
  <2>2. /\ n \in MemShape /\ n.bitmap = m.bitmap /\ n.pdes = m.pdes \cup {RegionOf(f)}
        /\ n.seen = [t \in Tasks |-> IF m.seen[t] = {} THEN {} ELSE m.seen[t] \cup {RegionOf(f)}]
    BY <1>2, <2>1 DEF MapRegion, MemOk, MemShape
  <2>3. MemOk(n)
    BY <2>2 DEF MemOk
  <2>4. Took(m, n, {})
    BY <2>2 DEF Took
  <2> QED BY <2>3, <2>4
<1> QED BY <1>1, <1>2

(* A frame the kernel can write is a free one, or none and nothing taken.  *)
LEMMA GrabMappedFact ==
  ASSUME NEW m, MemOk(m)
  PROVE  LET g == GrabMapped(m)
         IN  /\ MemOk(g.mem)
             /\ \/ g.frame = 0 /\ Took(m, g.mem, {})
                \/ g.frame \in Frames /\ Took(m, g.mem, {g.frame})
<1> PICK g : g = Grab(m)
  OBVIOUS
<1>0. /\ MemOk(g.mem)
      /\ (g.frame = 0 /\ g.mem = m) \/ (g.frame \in Frames /\ Took(m, g.mem, {g.frame}))
  BY GrabFact
<1>1. CASE g.frame = 0
  BY <1>0, <1>1, TookNone, Sizing DEF GrabMapped, Frames
<1>2. CASE g.frame # 0 /\ CanMap(g.mem, g.frame)
  <2> PICK n : n = MapRegion(g.mem, g.frame)
    OBVIOUS
  <2>1. MemOk(n) /\ Took(g.mem, n, {})
    BY <1>0, <1>2, MapRegionFact
  <2>2. Took(m, n, {g.frame} \cup {})
    BY <1>0, <1>2, <2>1, TookTwice
  <2>3. GrabMapped(m) = [g EXCEPT !.mem = n]
    BY <1>2, Zenon DEF GrabMapped
  <2>4. g = [mem |-> g.mem, frame |-> g.frame]
    <3>1. CASE FreeFrames(m) = {}
      BY <3>1, Zenon DEF Grab
    <3>2. CASE FreeFrames(m) # {}
      BY <3>2 DEF Grab
    <3> QED BY <3>1, <3>2
  <2>5. GrabMapped(m) = [mem |-> n, frame |-> g.frame]
    BY <2>3, <2>4
  <2>6. {g.frame} \cup {} = {g.frame}
    OBVIOUS
  <2> QED BY <1>0, <1>2, <2>1, <2>2, <2>5, <2>6
<1>3. CASE g.frame # 0 /\ ~CanMap(g.mem, g.frame)
  <2> PICK n : n = GiveBack(g.mem, {g.frame})
    OBVIOUS
  <2>1. MemOk(n) /\ Took(m, n, {g.frame} \ {g.frame})
    BY <1>0, <1>3, TookBack
  <2>2. GrabMapped(m) = [mem |-> n, frame |-> 0]
    BY <1>3, Zenon DEF GrabMapped
  <2>3. {g.frame} \ {g.frame} = {}
    OBVIOUS
  <2> QED BY <2>1, <2>2, <2>3
<1> QED BY <1>1, <1>2, <1>3

-----------------------------------------------------------------------------
(* Words and frames.                                                       *)

LEMMA FrameEdge ==
  ASSUME NEW f \in Nat
  PROVE  /\ f * FrameWords \in Nat /\ (f + 1) * FrameWords \in Nat
         /\ (f + 1) * FrameWords = f * FrameWords + FrameWords
BY Sizing

LEMMA FrameOf ==
  ASSUME NEW w \in Nat
  PROVE  /\ w \div FrameWords \in Nat
         /\ (w \div FrameWords) * FrameWords <= w
         /\ w < (w \div FrameWords + 1) * FrameWords
BY Sizing, Z3

LEMMA FrameOrder ==
  ASSUME NEW f \in Nat, NEW g \in Nat, f < g
  PROVE  (f + 1) * FrameWords <= g * FrameWords
<1>1. PICK d \in Nat : g = f + 1 + d
  <2>1. g - f - 1 \in Nat /\ g = f + 1 + (g - f - 1)
    OBVIOUS
  <2> QED BY <2>1
<1>2. g * FrameWords = (f + 1) * FrameWords + d * FrameWords
  BY <1>1, Sizing
<1>3. d * FrameWords \in Nat /\ (f + 1) * FrameWords \in Nat
  BY Sizing
<1> QED BY <1>2, <1>3

LEMMA OneFrame ==
  ASSUME NEW w \in Nat, NEW f \in Nat
  PROVE  w \div FrameWords = f <=> (f * FrameWords <= w /\ w < (f + 1) * FrameWords)
<1> PICK g \in Nat : g = w \div FrameWords
  BY FrameOf
<1>1. g * FrameWords <= w /\ w < (g + 1) * FrameWords
  BY FrameOf
<1>2. /\ f * FrameWords \in Nat /\ (f + 1) * FrameWords \in Nat
      /\ g * FrameWords \in Nat /\ (g + 1) * FrameWords \in Nat
  BY FrameEdge
<1>3. CASE f < g
  <2>1. (f + 1) * FrameWords <= g * FrameWords
    BY <1>3, FrameOrder
  <2> QED BY <1>1, <1>2, <1>3, <2>1
<1>4. CASE g < f
  <2>1. (g + 1) * FrameWords <= f * FrameWords
    BY <1>4, FrameOrder
  <2> QED BY <1>1, <1>2, <1>4, <2>1
<1>5. CASE f = g
  BY <1>1, <1>5
<1> QED BY <1>3, <1>4, <1>5

-----------------------------------------------------------------------------
(* Blocks and lists of blocks.                                             *)

BlockRec == [at : Nat, size : Nat \ {0}, free : BOOLEAN]
On(b, w) == b.at <= w /\ w < End(b)
Clear(b, c) == End(b) <= c.at \/ End(c) <= b.at
Apart(list) == \A i, j \in 1..Len(list) : i # j => Clear(list[i], list[j])
Covered(list) == {w \in Nat : \E i \in 1..Len(list) : On(list[i], w)}
InUse(list) == {b \in Range(list) : ~b.free}

LEMMA ClearOff ==
  ASSUME NEW b \in BlockRec, NEW c \in BlockRec
  PROVE  /\ Clear(b, c) <=> Clear(c, b)
         /\ Clear(b, c) => ~(On(b, c.at) \/ On(c, b.at)) /\ b # c
         /\ On(b, b.at) /\ End(b) \in Nat /\ b.at < End(b)
BY Sizing DEF Clear, On, End, BlockRec

LEMMA MergeFact ==
  ASSUME NEW b \in BlockRec, NEW c \in BlockRec, Mergeable(b, c)
  PROVE  LET d == [c EXCEPT !.size = @ + Header + b.size]
         IN  /\ d \in BlockRec /\ d.free
             /\ \A w \in Nat : On(d, w) <=> (On(b, w) \/ On(c, w))
             /\ \A x \in BlockRec : Clear(x, b) /\ Clear(x, c) => Clear(x, d)
<1> PICK d : d = [c EXCEPT !.size = @ + Header + b.size]
  OBVIOUS
<1>1. d \in BlockRec /\ d.at = c.at /\ d.size = c.size + Header + b.size /\ d.free
  BY Sizing DEF BlockRec, Mergeable
<1>2. End(d) = End(b) /\ End(c) = b.at /\ c.at < b.at /\ b.at < End(b)
  BY <1>1, Sizing DEF BlockRec, Mergeable, End
<1>3. \A w \in Nat : On(d, w) <=> (On(b, w) \/ On(c, w))
  BY <1>1, <1>2, Sizing DEF On, BlockRec, End
<1>4. ASSUME NEW x \in BlockRec, Clear(x, b), Clear(x, c) PROVE Clear(x, d)
  BY <1>1, <1>2, <1>4, Sizing DEF Clear, BlockRec, End
<1> QED BY <1>1, <1>3, <1>4

LEMMA FrontFact ==
  ASSUME NEW list \in Seq(BlockRec), list # <<>>
  PROVE  /\ Front(list) \in Seq(BlockRec) /\ Last(list) \in BlockRec
         /\ Len(list) \in Nat /\ Len(list) >= 1 /\ Len(Front(list)) = Len(list) - 1
         /\ \A i \in 1..Len(list) - 1 : Front(list)[i] = list[i]
         /\ Last(list) = list[Len(list)]
<1>1. Len(list) \in Nat /\ Len(list) >= 1
  OBVIOUS
<1>2. \A i \in 1..Len(list) : list[i] \in BlockRec
  OBVIOUS
<1> PICK n : n = Len(list) - 1
  OBVIOUS
<1>3. /\ SubSeq(list, 1, n) \in Seq(BlockRec) /\ Len(SubSeq(list, 1, n)) = n
      /\ \A i \in 1..n : SubSeq(list, 1, n)[i] = list[i]
  <2>1. n \in Int /\ 1 \in Int /\ \A i \in 1..n : list[i] \in BlockRec
    BY <1>1, <1>2
  <2>2. /\ SubSeq(list, 1, n) \in Seq(BlockRec)
        /\ Len(SubSeq(list, 1, n)) = IF 1 <= n THEN n - 1 + 1 ELSE 0
        /\ \A i \in 1..(n - 1 + 1) : SubSeq(list, 1, n)[i] = list[1 + i - 1]
    BY <2>1, SubSeqProperties
  <2>3. n - 1 + 1 = n /\ \A i \in 1..n : 1 + i - 1 = i
    BY <1>1
  <2> QED BY <1>1, <2>2, <2>3
<1> QED BY <1>1, <1>2, <1>3 DEF Front, Last

LEMMA AppendFact ==
  ASSUME NEW list \in Seq(BlockRec), NEW b \in BlockRec
  PROVE  /\ Append(list, b) \in Seq(BlockRec) /\ Len(Append(list, b)) = Len(list) + 1 /\ Len(list) \in Nat
         /\ \A i \in 1..Len(list) : Append(list, b)[i] = list[i]
         /\ Append(list, b)[Len(list) + 1] = b
OBVIOUS

LEMMA ListFact ==
  ASSUME NEW list \in Seq(BlockRec)
  PROVE  /\ Len(list) \in Nat /\ DOMAIN list = 1..Len(list)
         /\ \A i \in 1..Len(list) : list[i] \in BlockRec
         /\ Range(list) = {list[i] : i \in 1..Len(list)}
BY DEF Range

(* What kfree's walk has when it has looked at one more block.             *)
Walked(done, low, new) ==
  /\ new \in Seq(BlockRec) /\ Apart(new)
  /\ Covered(new) = Covered(done) \cup {w \in Nat : On(low, w)}
  /\ InUse(new) = InUse(done) \cup {b \in {low} : ~b.free}
  /\ \A x \in BlockRec : Clear(x, low) /\ (\A p \in 1..Len(done) : Clear(x, done[p]))
                           => \A p \in 1..Len(new) : Clear(x, new[p])

LEMMA WalkAppend ==
  ASSUME NEW done \in Seq(BlockRec), Apart(done), NEW low \in BlockRec,
         \A p \in 1..Len(done) : Clear(done[p], low)
  PROVE  Walked(done, low, Append(done, low))
<1> PICK new : new = Append(done, low)
  OBVIOUS
<1>1. /\ new \in Seq(BlockRec) /\ Len(new) = Len(done) + 1 /\ Len(done) \in Nat
      /\ \A i \in 1..Len(done) : new[i] = done[i]
      /\ new[Len(done) + 1] = low
  BY AppendFact
<1>2. \A i \in 1..Len(new) : i \in 1..Len(done) \/ i = Len(done) + 1
  BY <1>1
<1>3. Len(done) + 1 \in 1..Len(new) /\ \A i \in 1..Len(done) : i \in 1..Len(new)
  BY <1>1
<1>4. \A i \in 1..Len(done) : done[i] \in BlockRec
  BY ListFact
<1>5. Apart(new)
  <2> SUFFICES ASSUME NEW i \in 1..Len(new), NEW j \in 1..Len(new), i # j
               PROVE  Clear(new[i], new[j])
    BY DEF Apart
  <2>1. CASE i \in 1..Len(done) /\ j \in 1..Len(done)
    BY <1>1, <2>1 DEF Apart
  <2>2. CASE i \in 1..Len(done) /\ j = Len(done) + 1
    BY <1>1, <2>2
  <2>3. CASE i = Len(done) + 1 /\ j \in 1..Len(done)
    BY <1>1, <1>4, <2>3, ClearOff
  <2> QED BY <1>2, <2>1, <2>2, <2>3
<1>6. Covered(new) = Covered(done) \cup {w \in Nat : On(low, w)}
  BY <1>1, <1>2, <1>3 DEF Covered
<1>7. InUse(new) = InUse(done) \cup {b \in {low} : ~b.free}
  <2>1. Range(new) = Range(done) \cup {low}
    <3>1. Range(new) = {new[i] : i \in 1..Len(new)} /\ Range(done) = {done[i] : i \in 1..Len(done)}
      BY <1>1, ListFact
    <3> QED BY <1>1, <1>2, <1>3, <3>1
  <2> QED BY <2>1 DEF InUse
<1> QED BY <1>1, <1>2, <1>5, <1>6, <1>7 DEF Walked

LEMMA WalkFact ==
  ASSUME NEW done \in Seq(BlockRec), Apart(done), NEW low \in BlockRec,
         \A p \in 1..Len(done) : Clear(done[p], low)
  PROVE  Walked(done, low, Walk(done, low))
<1>1. CASE ~(done # <<>> /\ Mergeable(Last(done), low))
  <2>1. Walk(done, low) = Append(done, low)
    BY <1>1 DEF Walk
  <2> QED BY <2>1, WalkAppend
<1>2. CASE done # <<>> /\ Mergeable(Last(done), low)
  <2> PICK top : top = Last(done)
    OBVIOUS
  <2> PICK big : big = [low EXCEPT !.size = @ + Header + top.size]
    OBVIOUS
  <2> PICK rest : rest = Front(done)
    OBVIOUS
  <2>0. Walk(done, low) = Append(rest, big)
    BY <1>2 DEF Walk
  <2>1. /\ rest \in Seq(BlockRec) /\ top \in BlockRec
        /\ Len(done) \in Nat /\ Len(done) >= 1 /\ Len(rest) = Len(done) - 1
        /\ \A i \in 1..Len(done) - 1 : rest[i] = done[i]
        /\ top = done[Len(done)]
    BY <1>2, FrontFact
  <2>2. /\ big \in BlockRec /\ big.free
        /\ \A w \in Nat : On(big, w) <=> (On(top, w) \/ On(low, w))
        /\ \A x \in BlockRec : Clear(x, top) /\ Clear(x, low) => Clear(x, big)
    BY <1>2, <2>1, MergeFact
  <2>3. \A i \in 1..Len(rest) : i \in 1..Len(done) /\ i # Len(done) /\ i \in 1..Len(done) - 1
    BY <2>1
  <2>4. Len(done) \in 1..Len(done) /\ \A i \in 1..Len(done) : i \in 1..Len(rest) \/ i = Len(done)
    BY <2>1
  <2>5. Apart(rest)
    BY <2>1, <2>3 DEF Apart
  <2>6. \A p \in 1..Len(rest) : Clear(rest[p], big)
    <3> SUFFICES ASSUME NEW p \in 1..Len(rest) PROVE Clear(rest[p], big)
      OBVIOUS
    <3>1. rest[p] = done[p] /\ p \in 1..Len(done) /\ rest[p] \in BlockRec
      BY <2>1, <2>3, ListFact
    <3>2. Clear(done[p], top) /\ Clear(done[p], low)
      BY <2>1, <2>3, <2>4, <3>1 DEF Apart
    <3> QED BY <2>2, <3>1, <3>2
  <2>7. Walked(rest, big, Append(rest, big))
    BY <2>1, <2>2, <2>5, <2>6, WalkAppend
  <2>8. Covered(rest) \cup {w \in Nat : On(big, w)} = Covered(done) \cup {w \in Nat : On(low, w)}
    <3>1. Covered(done) = Covered(rest) \cup {w \in Nat : On(top, w)}
      BY <2>1, <2>3, <2>4 DEF Covered
    <3> QED BY <2>2, <3>1
  <2>9. InUse(rest) \cup {b \in {big} : ~b.free} = InUse(done) \cup {b \in {low} : ~b.free}
    <3>1. Range(rest) = {rest[i] : i \in 1..Len(rest)} /\ Range(done) = {done[i] : i \in 1..Len(done)}
      BY <2>1, ListFact
    <3>2. Range(done) = Range(rest) \cup {top}
      BY <2>1, <2>3, <2>4, <3>1
    <3>3. top.free /\ low.free /\ big.free
      BY <1>2, <2>2 DEF Mergeable
    <3> QED BY <3>2, <3>3 DEF InUse
  <2>10. ASSUME NEW x \in BlockRec, Clear(x, low), \A p \in 1..Len(done) : Clear(x, done[p])
         PROVE  \A p \in 1..Len(Append(rest, big)) : Clear(x, Append(rest, big)[p])
    <3>1. Clear(x, big)
      BY <2>1, <2>2, <2>4, <2>10
    <3>2. \A p \in 1..Len(rest) : Clear(x, rest[p])
      BY <2>1, <2>3, <2>10
    <3> QED BY <2>7, <3>1, <3>2 DEF Walked
  <2> QED BY <2>0, <2>7, <2>8, <2>9, <2>10 DEF Walked
<1> QED BY <1>1, <1>2

-----------------------------------------------------------------------------
(* kfree.                                                                  *)

(* What holds of 0, and of k + 1 whenever of k, holds of n.                *)
LEMMA UpFromZero ==
  ASSUME NEW n \in Nat, NEW T, 0 \in T, \A k \in 0..(n - 1) : k \in T => k + 1 \in T
  PROVE  n \in T
<1>1. CASE n = 0
  BY <1>1
<1>2. CASE n >= 1
  <2>1. 1 \in T
    <3>1. 0 \in 0..(n - 1) /\ 0 + 1 = 1
      BY <1>2
    <3> QED BY <3>1
  <2>2. \A k \in 1..(n - 1) : k \in T => k + 1 \in T
    <3>1. \A k \in 1..(n - 1) : k \in 0..(n - 1)
      OBVIOUS
    <3> QED BY <3>1
  <2>3. \A k \in 1..n : k \in T
    BY <2>1, <2>2, CountUp
  <2> QED BY <1>2, <2>3
<1> QED BY <1>1, <1>2

WalkRun(list, n, d) == d = [i \in 0..n |-> IF i = 0 THEN <<>> ELSE Walk(d[i - 1], list[i])]

LEMMA WalkRunExists ==
  ASSUME NEW list, NEW n \in Nat
  PROVE  \E d : WalkRun(list, n, d)
<1> DEFINE Good == {m \in Nat : \E d : WalkRun(list, m, d)}
<1>1. 0 \in Good
  <2> PICK d : d = [i \in 0..0 |-> <<>>]
    OBVIOUS
  <2>1. \A i \in 0..0 : i = 0
    OBVIOUS
  <2>2. d = [i \in 0..0 |-> IF i = 0 THEN <<>> ELSE Walk(d[i - 1], list[i])]
    BY <2>1
  <2> QED BY <2>2 DEF WalkRun
<1>2. ASSUME NEW m \in 0..(n - 1), m \in Good PROVE m + 1 \in Good
  <2>1. PICK g : WalkRun(list, m, g)
    BY <1>2
  <2>2. PICK h : h = [i \in 0..(m + 1) |-> IF i \in 0..m THEN g[i] ELSE Walk(g[i - 1], list[i])]
    OBVIOUS
  <2>3. \A i \in 0..(m + 1) : h[i] = IF i = 0 THEN <<>> ELSE Walk(h[i - 1], list[i])
    <3> SUFFICES ASSUME NEW i \in 0..(m + 1)
                 PROVE  h[i] = IF i = 0 THEN <<>> ELSE Walk(h[i - 1], list[i])
      OBVIOUS
    <3>1. i # 0 => i - 1 \in 0..m /\ i - 1 \in 0..(m + 1)
      OBVIOUS
    <3>2. i \notin 0..m => i # 0
      OBVIOUS
    <3>3. i \in 0..m => g[i] = IF i = 0 THEN <<>> ELSE Walk(g[i - 1], list[i])
      BY <2>1 DEF WalkRun
    <3> QED BY <2>2, <3>1, <3>2, <3>3
  <2>4. h = [i \in 0..(m + 1) |-> IF i = 0 THEN <<>> ELSE Walk(h[i - 1], list[i])]
    BY <2>2, <2>3
  <2> QED BY <2>4 DEF WalkRun
<1> HIDE DEF Good
<1>3. n \in Good
  BY <1>1, <1>2, UpFromZero
<1> QED BY <1>3 DEF Good

LEMMA CoalesceRun ==
  ASSUME NEW list \in Seq(BlockRec)
  PROVE  \E d : /\ Coalesce(list) = d[Len(list)] /\ d[0] = <<>>
                /\ \A i \in 1..Len(list) : d[i] = Walk(d[i - 1], list[i])
<1>1. PICK d : /\ d = [i \in 0..Len(list) |-> IF i = 0 THEN <<>> ELSE Walk(d[i - 1], list[i])]
               /\ Coalesce(list) = d[Len(list)]
  <2>1. \E d : d = [i \in 0..Len(list) |-> IF i = 0 THEN <<>> ELSE Walk(d[i - 1], list[i])]
    BY WalkRunExists, ListFact DEF WalkRun
  <2> QED BY <2>1 DEF Coalesce
<1>2. 0 \in 0..Len(list) /\ \A i \in 1..Len(list) : i \in 0..Len(list) /\ i # 0
  BY ListFact
<1> QED BY <1>1, <1>2

(* Coalescing keeps every word and every block in use, and the blocks      *)
(* that are left share no word.                                            *)
LEMMA CoalesceFact ==
  ASSUME NEW list \in Seq(BlockRec), Apart(list)
  PROVE  LET new == Coalesce(list)
         IN  /\ new \in Seq(BlockRec) /\ Apart(new)
             /\ Covered(new) = Covered(list) /\ InUse(new) = InUse(list)
<1> PICK n \in Nat : n = Len(list)
  BY ListFact
<1>1. PICK d : Coalesce(list) = d[n] /\ d[0] = <<>> /\ \A i \in 1..n : d[i] = Walk(d[i - 1], list[i])
  BY CoalesceRun
<1> DEFINE Good(i) ==
      /\ d[i] \in Seq(BlockRec) /\ Apart(d[i])
      /\ Covered(d[i]) = {w \in Nat : \E k \in 1..i : On(list[k], w)}
      /\ InUse(d[i]) = {b \in {list[k] : k \in 1..i} : ~b.free}
      /\ \A x \in BlockRec : (\A p \in 1..i : Clear(x, list[p])) => \A p \in 1..Len(d[i]) : Clear(x, d[i][p])
<1> DEFINE T == {i \in Nat : Good(i)}
<1>2. 0 \in T
  <2>1. Len(<<>>) = 0 /\ <<>> \in Seq(BlockRec) /\ 1..0 = {} /\ Range(<<>>) = {}
    BY DEF Range
  <2> QED BY <1>1, <2>1 DEF Apart, Covered, InUse
<1>3. ASSUME NEW i \in 0..(n - 1), i \in T PROVE i + 1 \in T
  <2> PICK low : low = list[i + 1]
    OBVIOUS
  <2> PICK done : done = d[i]
    OBVIOUS
  <2>0. /\ i + 1 \in 1..n /\ i \in Nat /\ i + 1 \in Nat /\ (i + 1) - 1 = i
        /\ \A k \in 1..i : k \in 1..n /\ k # i + 1 /\ k \in 1..(i + 1)
        /\ i + 1 \in 1..(i + 1) /\ \A k \in 1..(i + 1) : k \in 1..i \/ k = i + 1
    OBVIOUS
  <2>1. low \in BlockRec /\ \A k \in 1..n : list[k] \in BlockRec
    BY <2>0, ListFact
  <2>2. d[i + 1] = Walk(done, low)
    BY <1>1, <2>0
  <2>3. done \in Seq(BlockRec) /\ Apart(done)
    BY <1>3
  <2>4. \A p \in 1..Len(done) : Clear(done[p], low)
    <3>1. \A k \in 1..i : Clear(low, list[k])
      BY <2>0 DEF Apart
    <3>2. \A p \in 1..Len(done) : Clear(low, done[p])
      BY <1>3, <2>1, <3>1
    <3>3. \A p \in 1..Len(done) : done[p] \in BlockRec
      BY <2>3, ListFact
    <3> QED BY <2>1, <3>2, <3>3, ClearOff
  <2>5. Walked(done, low, d[i + 1])
    BY <2>1, <2>2, <2>3, <2>4, WalkFact
  <2>6. Covered(d[i + 1]) = {w \in Nat : \E k \in 1..(i + 1) : On(list[k], w)}
    <3>1. Covered(d[i + 1]) = {w \in Nat : \E k \in 1..i : On(list[k], w)} \cup {w \in Nat : On(low, w)}
      BY <1>3, <2>5 DEF Walked
    <3> QED BY <2>0, <3>1
  <2>7. InUse(d[i + 1]) = {b \in {list[k] : k \in 1..(i + 1)} : ~b.free}
    <3>1. InUse(d[i + 1]) = {b \in {list[k] : k \in 1..i} : ~b.free} \cup {b \in {low} : ~b.free}
      BY <1>3, <2>5 DEF Walked
    <3> QED BY <2>0, <3>1
  <2>8. ASSUME NEW x \in BlockRec, \A p \in 1..(i + 1) : Clear(x, list[p])
        PROVE  \A p \in 1..Len(d[i + 1]) : Clear(x, d[i + 1][p])
    <3>1. Clear(x, low) /\ \A p \in 1..i : Clear(x, list[p])
      BY <2>0, <2>8
    <3>2. \A p \in 1..Len(done) : Clear(x, done[p])
      BY <1>3, <3>1
    <3> QED BY <2>5, <3>1, <3>2 DEF Walked
  <2>9. d[i + 1] \in Seq(BlockRec) /\ Apart(d[i + 1])
    BY <2>5 DEF Walked
  <2> QED BY <2>0, <2>6, <2>7, <2>8, <2>9
<1>4. n \in T
  <2> HIDE DEF T
  <2> QED BY <1>2, <1>3, UpFromZero
<1>5. Covered(list) = {w \in Nat : \E k \in 1..n : On(list[k], w)}
  BY DEF Covered
<1>6. InUse(list) = {b \in {list[k] : k \in 1..n} : ~b.free}
  BY ListFact DEF InUse
<1>7. Coalesce(list) = d[n]
  BY <1>1
<1> QED BY <1>4, <1>5, <1>6, <1>7

(* A good heap: its blocks and its tail share no word, it lies in frames   *)
(* of memory, the frame before its limit is whole, and any other misses    *)
(* only a few words at its end.                                            *)
HeapShape == [head : Seq(BlockRec), next : Nat, limit : Nat]
TailWords(h) == {w \in Nat : h.next <= w /\ w < h.limit}
WordsIn(h) == Covered(h.head) \cup TailWords(h)
FramesIn(h) == {w \div FrameWords : w \in WordsIn(h)}
Short(f, words) ==
  \E n \in Nat : /\ n < Header + MinSplit
                 /\ \A w \in WordsOf(f) : w < (f + 1) * FrameWords - n => w \in words
LastWhole(h) ==
  h.limit # 0 => \E k \in Frames : h.limit = (k + 1) * FrameWords /\ WordsOf(k) \subseteq WordsIn(h)
HeapOk(h) ==
  /\ h \in HeapShape /\ h.next <= h.limit
  /\ Apart(h.head) /\ Covered(h.head) \cap TailWords(h) = {}
  /\ FramesIn(h) \subseteq Frames
  /\ LastWhole(h)
  /\ \A f \in FramesIn(h) : Short(f, WordsIn(h))

LEMMA SameWordsOk ==
  ASSUME NEW h, HeapOk(h), NEW g \in HeapShape, g.next <= g.limit, g.limit = h.limit,
         Apart(g.head), Covered(g.head) \cap TailWords(g) = {}, WordsIn(g) = WordsIn(h)
  PROVE  HeapOk(g) /\ FramesIn(g) = FramesIn(h)
<1>1. FramesIn(g) = FramesIn(h)
  BY DEF FramesIn
<1>2. LastWhole(g)
  BY DEF LastWhole, HeapOk
<1> QED BY <1>1, <1>2 DEF HeapOk

LEMMA DistinctAt ==
  ASSUME NEW list \in Seq(BlockRec), Apart(list), NEW b \in Range(list), NEW c \in Range(list), b.at = c.at
  PROVE  b = c
<1>1. PICK i \in 1..Len(list), j \in 1..Len(list) : b = list[i] /\ c = list[j]
  BY ListFact
<1>2. b \in BlockRec /\ c \in BlockRec
  BY <1>1, ListFact
<1>3. i # j => Clear(b, c)
  BY <1>1 DEF Apart
<1> QED BY <1>1, <1>2, <1>3, ClearOff

(* kfree of a block in use: its words stay the heap's, no other block in   *)
(* use changes.                                                            *)
LEMMA KfreeFact ==
  ASSUME NEW h, HeapOk(h), NEW b \in InUse(h.head)
  PROVE  LET g == Kfree(h, b.at)
         IN  /\ HeapOk(g) /\ WordsIn(g) = WordsIn(h) /\ FramesIn(g) = FramesIn(h)
             /\ InUse(g.head) = InUse(h.head) \ {b}
<1> PICK list : list = h.head
  OBVIOUS
<1> PICK at : at = b.at
  OBVIOUS
<1> PICK new : new = [i \in DOMAIN list |-> IF list[i].at = at THEN [list[i] EXCEPT !.free = TRUE] ELSE list[i]]
  OBVIOUS
<1>1. list \in Seq(BlockRec) /\ Apart(list) /\ b \in Range(list) /\ ~b.free
  BY DEF HeapOk, HeapShape, InUse
<1>2. Len(list) \in Nat /\ DOMAIN list = 1..Len(list) /\ \A i \in 1..Len(list) : list[i] \in BlockRec
  BY <1>1, ListFact
<1>3. \A i \in 1..Len(list) : /\ new[i] \in BlockRec /\ new[i].at = list[i].at /\ new[i].size = list[i].size
                              /\ new[i].free = (list[i].free \/ list[i].at = at)
                              /\ list[i].at # at => new[i] = list[i]
  BY <1>2 DEF BlockRec
<1>4. new \in Seq(BlockRec) /\ Len(new) = Len(list)
  <2>1. new \in [1..Len(list) -> BlockRec]
    BY <1>2, <1>3
  <2> QED BY <1>2, <2>1, IsASeq, LenProperties
<1>5. \A i \in 1..Len(list) : /\ End(new[i]) = End(list[i])
                              /\ \A w \in Nat : On(new[i], w) <=> On(list[i], w)
  BY <1>3 DEF End, On
<1>6. Apart(new)
  <2> SUFFICES ASSUME NEW i \in 1..Len(list), NEW j \in 1..Len(list), i # j
               PROVE  Clear(new[i], new[j])
    BY <1>4 DEF Apart
  <2>1. Clear(list[i], list[j])
    BY <1>1 DEF Apart
  <2> QED BY <1>3, <1>5, <2>1 DEF Clear
<1>7. Covered(new) = Covered(list)
  BY <1>4, <1>5 DEF Covered
<1>8. InUse(new) = InUse(list) \ {b}
  <2>1. /\ Range(new) = {new[i] : i \in 1..Len(list)} /\ Range(list) = {list[i] : i \in 1..Len(list)}
    BY <1>1, <1>4, ListFact
  <2>2. \A i \in 1..Len(list) : list[i].at = at => list[i] = b
    BY <1>1, <2>1, DistinctAt
  <2>3. ASSUME NEW c \in InUse(new) PROVE c \in InUse(list) \ {b}
    <3>1. PICK i \in 1..Len(list) : c = new[i] /\ ~new[i].free
      BY <2>1, <2>3 DEF InUse
    <3>2. list[i].at # at /\ new[i] = list[i] /\ ~list[i].free
      BY <1>3, <3>1
    <3> QED BY <2>1, <3>1, <3>2 DEF InUse
  <2>4. ASSUME NEW c \in InUse(list) \ {b} PROVE c \in InUse(new)
    <3>1. PICK i \in 1..Len(list) : c = list[i] /\ ~c.free
      BY <2>1 DEF InUse
    <3>2. list[i].at # at
      BY <2>2, <3>1
    <3>3. new[i] = list[i]
      BY <1>3, <3>2
    <3> QED BY <2>1, <3>1, <3>3 DEF InUse
  <2> QED BY <2>3, <2>4
<1> PICK done : done = Coalesce(new)
  OBVIOUS
<1>9. /\ done \in Seq(BlockRec) /\ Apart(done)
      /\ Covered(done) = Covered(list) /\ InUse(done) = InUse(list) \ {b}
  BY <1>4, <1>6, <1>7, <1>8, CoalesceFact
<1> PICK g : g = [h EXCEPT !.head = done]
  OBVIOUS
<1>10. Kfree(h, b.at) = g
  BY Zenon DEF Kfree
<1>11. g \in HeapShape /\ g.head = done /\ g.next = h.next /\ g.limit = h.limit
  BY <1>9 DEF HeapOk, HeapShape
<1>12. TailWords(g) = TailWords(h) /\ WordsIn(g) = WordsIn(h)
  BY <1>9, <1>11 DEF TailWords, WordsIn
<1>13. HeapOk(g) /\ FramesIn(g) = FramesIn(h)
  <2>1. g.next <= g.limit /\ Apart(g.head) /\ Covered(g.head) \cap TailWords(g) = {}
    BY <1>9, <1>11, <1>12 DEF HeapOk
  <2> QED BY <1>11, <1>12, <2>1, SameWordsOk
<1> QED BY <1>9, <1>10, <1>11, <1>12, <1>13

-----------------------------------------------------------------------------
(* grow_heap.                                                              *)

LEMMA WordsApart ==
  ASSUME NEW b \in BlockRec, NEW c \in BlockRec, \A w \in Nat : ~(On(b, w) /\ On(c, w))
  PROVE  Clear(b, c)
<1>1. b.at \in Nat /\ c.at \in Nat /\ End(b) \in Nat /\ End(c) \in Nat /\ b.at < End(b) /\ c.at < End(c)
  BY ClearOff DEF BlockRec
<1>2. ~(On(b, b.at) /\ On(c, b.at)) /\ ~(On(b, c.at) /\ On(c, c.at))
  BY <1>1
<1> QED BY <1>1, <1>2 DEF On, Clear

LEMMA ClearOn ==
  ASSUME NEW b \in BlockRec, NEW c \in BlockRec, Clear(b, c), NEW w \in Nat
  PROVE  ~(On(b, w) /\ On(c, w))
BY ClearOff DEF On, Clear, BlockRec

(* Two lists that share no word, one after the other.                      *)
LEMMA ConcatFact ==
  ASSUME NEW u \in Seq(BlockRec), NEW v \in Seq(BlockRec), Apart(u), Apart(v), Covered(u) \cap Covered(v) = {}
  PROVE  LET new == u \o v
         IN  /\ new \in Seq(BlockRec) /\ Apart(new)
             /\ Covered(new) = Covered(u) \cup Covered(v) /\ InUse(new) = InUse(u) \cup InUse(v)
<1> PICK new : new = u \o v
  OBVIOUS
<1> PICK n \in Nat : n = Len(u)
  BY ListFact
<1> PICK l \in Nat : l = Len(v)
  BY ListFact
<1>1. new \in Seq(BlockRec) /\ Len(new) = n + l /\ \A i \in 1..(n + l) : new[i] = IF i <= n THEN u[i] ELSE v[i - n]
  BY ConcatProperties
<1>2. /\ \A i \in 1..n : i \in 1..(n + l) /\ i <= n
      /\ \A j \in 1..l : n + j \in 1..(n + l) /\ ~(n + j <= n) /\ (n + j) - n = j
  OBVIOUS
<1>3. /\ \A i \in 1..n : i \in 1..Len(new) /\ new[i] = u[i]
      /\ \A j \in 1..l : n + j \in 1..Len(new) /\ new[n + j] = v[j]
  BY <1>1, <1>2
<1>4. ASSUME NEW i \in 1..Len(new) PROVE i \in 1..n \/ (i \notin 1..n /\ i - n \in 1..l /\ i = n + (i - n))
  BY <1>1
<1>5. \A i \in 1..n, j \in 1..l : Clear(u[i], v[j]) /\ Clear(v[j], u[i])
  <2> SUFFICES ASSUME NEW i \in 1..n, NEW j \in 1..l PROVE Clear(u[i], v[j]) /\ Clear(v[j], u[i])
    OBVIOUS
  <2>1. u[i] \in BlockRec /\ v[j] \in BlockRec
    BY ListFact
  <2>2. \A w \in Nat : ~(On(u[i], w) /\ On(v[j], w))
    BY DEF Covered
  <2> QED BY <2>1, <2>2, WordsApart, ClearOff
<1>6. Apart(new)
  <2> SUFFICES ASSUME NEW i \in 1..Len(new), NEW j \in 1..Len(new), i # j PROVE Clear(new[i], new[j])
    BY DEF Apart
  <2>1. CASE i \in 1..n /\ j \in 1..n
    BY <1>3, <2>1 DEF Apart
  <2>2. CASE i \in 1..n /\ j \notin 1..n
    BY <1>3, <1>4, <1>5, <2>2
  <2>3. CASE i \notin 1..n /\ j \in 1..n
    BY <1>3, <1>4, <1>5, <2>3
  <2>4. CASE i \notin 1..n /\ j \notin 1..n
    <3>1. /\ i - n \in 1..l /\ new[i] = v[i - n] /\ j - n \in 1..l /\ new[j] = v[j - n]
          /\ i - n # j - n
      BY <1>3, <1>4, <2>4
    <3> QED BY <3>1 DEF Apart
  <2> QED BY <2>1, <2>2, <2>3, <2>4
<1>7. \A x : (\E i \in 1..Len(new) : new[i] = x) <=> (\E i \in 1..n : u[i] = x) \/ (\E j \in 1..l : v[j] = x)
  <2>1. ASSUME NEW i \in 1..Len(new)
        PROVE  (\E k \in 1..n : u[k] = new[i]) \/ (\E j \in 1..l : v[j] = new[i])
    <3>1. CASE i \in 1..n
      BY <1>3, <3>1
    <3>2. CASE i \notin 1..n
      <4>1. i - n \in 1..l /\ i = n + (i - n)
        BY <1>4, <3>2
      <4>2. new[i] = v[i - n]
        BY <1>3, <4>1
      <4> QED BY <4>1, <4>2
    <3> QED BY <3>1, <3>2
  <2>2. \A i \in 1..n : \E k \in 1..Len(new) : new[k] = u[i]
    BY <1>3
  <2>3. \A j \in 1..l : \E k \in 1..Len(new) : new[k] = v[j]
    BY <1>3
  <2> SUFFICES ASSUME NEW x
               PROVE  (\E i \in 1..Len(new) : new[i] = x) <=> (\E i \in 1..n : u[i] = x) \/ (\E j \in 1..l : v[j] = x)
    OBVIOUS
  <2>4. ASSUME NEW i \in 1..Len(new), new[i] = x PROVE (\E k \in 1..n : u[k] = x) \/ (\E j \in 1..l : v[j] = x)
    BY <2>1, <2>4
  <2>5. ASSUME NEW i \in 1..n, u[i] = x PROVE \E k \in 1..Len(new) : new[k] = x
    BY <2>2, <2>5
  <2>6. ASSUME NEW j \in 1..l, v[j] = x PROVE \E k \in 1..Len(new) : new[k] = x
    BY <2>3, <2>6
  <2> QED BY <2>4, <2>5, <2>6
<1>8. Covered(new) = Covered(u) \cup Covered(v)
  BY <1>7 DEF Covered
<1>9. InUse(new) = InUse(u) \cup InUse(v)
  <2>1. /\ Range(new) = {new[i] : i \in 1..Len(new)} /\ Range(u) = {u[i] : i \in 1..n}
        /\ Range(v) = {v[i] : i \in 1..l}
    BY <1>1, ListFact
  <2>2. \A x : x \in Range(new) <=> x \in Range(u) \/ x \in Range(v)
    BY <1>7, <2>1
  <2> QED BY <2>2 DEF InUse
<1> QED BY <1>1, <1>6, <1>8, <1>9

LEMMA OneBlock ==
  ASSUME NEW b \in BlockRec
  PROVE  /\ <<b>> \in Seq(BlockRec) /\ Apart(<<b>>)
         /\ Covered(<<b>>) = {w \in Nat : On(b, w)} /\ InUse(<<b>>) = {c \in {b} : ~c.free}
<1>1. <<b>> \in Seq(BlockRec) /\ Len(<<b>>) = 1 /\ <<b>>[1] = b /\ 1..1 = {1}
  OBVIOUS
<1>2. Range(<<b>>) = {b}
  <2>1. Range(<<b>>) = {<<b>>[i] : i \in 1..Len(<<b>>)}
    BY <1>1, ListFact
  <2> QED BY <1>1, <2>1
<1> QED BY <1>1, <1>2 DEF Apart, Covered, InUse

(* A block put at the head of the list, over words no other has.           *)
LEMMA PrependFact ==
  ASSUME NEW list \in Seq(BlockRec), NEW b \in BlockRec, Apart(list),
         \A w \in Nat : On(b, w) => w \notin Covered(list)
  PROVE  LET new == <<b>> \o list
         IN  /\ new \in Seq(BlockRec) /\ Apart(new)
             /\ Covered(new) = Covered(list) \cup {w \in Nat : On(b, w)}
             /\ InUse(new) = InUse(list) \cup {c \in {b} : ~c.free}
<1>1. /\ <<b>> \in Seq(BlockRec) /\ Apart(<<b>>)
      /\ Covered(<<b>>) = {w \in Nat : On(b, w)} /\ InUse(<<b>>) = {c \in {b} : ~c.free}
  BY OneBlock
<1>2. Covered(<<b>>) \cap Covered(list) = {}
  BY <1>1
<1> PICK new : new = <<b>> \o list
  OBVIOUS
<1>3. /\ new \in Seq(BlockRec) /\ Apart(new)
      /\ Covered(new) = Covered(<<b>>) \cup Covered(list) /\ InUse(new) = InUse(<<b>>) \cup InUse(list)
  BY <1>1, <1>2, ConcatFact
<1> QED BY <1>1, <1>3

LEMMA FrameFact ==
  ASSUME NEW f \in Frames
  PROVE  /\ f \in Nat /\ f * FrameWords \in WordsOf(f) /\ WordsOf(f) \subseteq Nat
         /\ f * FrameWords \in Nat /\ (f + 1) * FrameWords = f * FrameWords + FrameWords
         /\ \A w \in Nat : w \in WordsOf(f) <=> (f * FrameWords <= w /\ w < (f + 1) * FrameWords)
         /\ \A w \in Nat : w \in WordsOf(f) <=> w \div FrameWords = f
<1>1. f \in Nat
  BY Sizing DEF Frames
<1>2. f * FrameWords \in Nat /\ (f + 1) * FrameWords = f * FrameWords + FrameWords
  BY <1>1, FrameEdge
<1>3. \A w \in Nat : w \in WordsOf(f) <=> (f * FrameWords <= w /\ w < (f + 1) * FrameWords)
  BY <1>2, Sizing DEF WordsOf
<1>4. \A w \in Nat : w \in WordsOf(f) <=> w \div FrameWords = f
  BY <1>1, <1>3, OneFrame
<1>5. f * FrameWords \in WordsOf(f) /\ WordsOf(f) \subseteq Nat
  BY <1>2, Sizing DEF WordsOf
<1> QED BY <1>1, <1>2, <1>3, <1>4, <1>5

LEMMA ShortWhole ==
  ASSUME NEW f, NEW words, WordsOf(f) \subseteq words
  PROVE  Short(f, words)
BY Sizing DEF Short

LEMMA ShortMore ==
  ASSUME NEW f, NEW few, NEW words, Short(f, few), few \subseteq words
  PROVE  Short(f, words)
BY DEF Short

LEMMA HeapFields ==
  ASSUME NEW h, HeapOk(h)
  PROVE  /\ h.head \in Seq(BlockRec) /\ h.next \in Nat /\ h.limit \in Nat
         /\ WordsIn(h) \subseteq Nat /\ FramesIn(h) \subseteq Frames
         /\ \A w \in WordsIn(h) : w \div FrameWords \in FramesIn(h)
BY DEF HeapOk, HeapShape, WordsIn, Covered, TailWords, FramesIn

(* A frame that was nobody's joins the heap, at its end or elsewhere.      *)
LEMMA JoinFact ==
  ASSUME NEW h, HeapOk(h), NEW f \in Frames, f \notin FramesIn(h), NEW g \in HeapShape,
         g.next <= g.limit, g.limit = (f + 1) * FrameWords, Apart(g.head),
         Covered(g.head) \cap TailWords(g) = {},
         NEW old, old \subseteq WordsIn(h), WordsIn(g) = old \cup WordsOf(f),
         \A x \in FramesIn(h) : /\ \E w \in old : w \div FrameWords = x
                                /\ Short(x, old)
  PROVE  HeapOk(g) /\ FramesIn(g) = FramesIn(h) \cup {f}
<1>1. /\ f * FrameWords \in WordsOf(f) /\ WordsOf(f) \subseteq Nat
      /\ \A w \in Nat : w \in WordsOf(f) <=> w \div FrameWords = f
  BY FrameFact
<1>2. FramesIn(g) = FramesIn(h) \cup {f}
  <2>1. ASSUME NEW x \in FramesIn(g) PROVE x \in FramesIn(h) \cup {f}
    BY <1>1 DEF FramesIn
  <2>2. ASSUME NEW x \in FramesIn(h) PROVE x \in FramesIn(g)
    BY DEF FramesIn
  <2>3. f \in FramesIn(g)
    BY <1>1 DEF FramesIn
  <2> QED BY <2>1, <2>2, <2>3
<1>3. FramesIn(g) \subseteq Frames
  BY <1>2, HeapFields
<1>4. LastWhole(g)
  BY DEF LastWhole
<1>5. \A x \in FramesIn(g) : Short(x, WordsIn(g))
  <2>1. Short(f, WordsIn(g))
    BY ShortWhole
  <2>2. ASSUME NEW x \in FramesIn(h) PROVE Short(x, WordsIn(g))
    <3>1. Short(x, old) /\ old \subseteq WordsIn(g)
      OBVIOUS
    <3> QED BY <3>1, ShortMore
  <2> QED BY <1>2, <2>1, <2>2
<1> QED BY <1>2, <1>3, <1>4, <1>5 DEF HeapOk

LEMMA ExtendFact ==
  ASSUME NEW h, HeapOk(h), NEW f \in Frames, f \notin FramesIn(h)
  PROVE  LET g == Extend(h, f)
         IN  HeapOk(g) /\ FramesIn(g) = FramesIn(h) \cup {f} /\ InUse(g.head) = InUse(h.head)
<1> PICK g : g = Extend(h, f)
  OBVIOUS
<1>1. PICK start \in Nat :
      /\ start = f * FrameWords /\ start \in WordsOf(f) /\ WordsOf(f) \subseteq Nat
      /\ \A w \in Nat : w \in WordsOf(f) <=> (start <= w /\ w < start + FrameWords)
      /\ \A w \in Nat : w \in WordsOf(f) <=> w \div FrameWords = f
  BY FrameFact
<1>0. (f + 1) * FrameWords = start + FrameWords
  BY <1>1, FrameFact
<1>n. /\ FrameWords \in Nat /\ FrameWords >= 1 /\ Header \in Nat /\ MinSplit \in Nat
      /\ MinSplit >= 1 /\ Header + MinSplit <= FrameWords
      /\ h.next \in Nat /\ h.limit \in Nat /\ h.next <= h.limit
  BY Sizing, HeapFields DEF HeapOk
<1>2. /\ h.head \in Seq(BlockRec) /\ h.next \in Nat /\ h.limit \in Nat
      /\ WordsIn(h) \subseteq Nat /\ FramesIn(h) \subseteq Frames
      /\ \A w \in WordsIn(h) : w \div FrameWords \in FramesIn(h)
  BY HeapFields
<1>3. h.next <= h.limit /\ Apart(h.head) /\ Covered(h.head) \cap TailWords(h) = {}
  BY DEF HeapOk
<1>4. WordsOf(f) \cap WordsIn(h) = {}
  BY <1>1, <1>2
<1>5. \A x \in FramesIn(h) : /\ \E w \in WordsIn(h) : w \div FrameWords = x
                             /\ Short(x, WordsIn(h))
  BY DEF FramesIn, HeapOk
<1>6. CASE start = h.limit
  <2>1. /\ g \in HeapShape /\ g.head = h.head /\ g.next = h.next /\ g.limit = start + FrameWords
    <3>1. g = [h EXCEPT !.limit = start + FrameWords]
      BY <1>1, <1>6 DEF Extend
    <3>2. h \in HeapShape /\ start + FrameWords \in Nat
      BY <1>1, Sizing DEF HeapOk
    <3> QED BY <3>1, <3>2 DEF HeapShape
  <2>2. g.next <= g.limit
    BY <1>n, <1>6, <2>1
  <2>3. TailWords(g) = TailWords(h) \cup WordsOf(f)
    <3>1. \A w \in Nat : (h.next <= w /\ w < start + FrameWords)
                          <=> ((h.next <= w /\ w < h.limit) \/ (start <= w /\ w < start + FrameWords))
      BY <1>n, <1>6
    <3> QED BY <1>1, <2>1, <3>1 DEF TailWords
  <2>4. WordsIn(g) = WordsIn(h) \cup WordsOf(f)
    BY <2>1, <2>3 DEF WordsIn
  <2>5. Covered(g.head) \cap TailWords(g) = {}
    BY <1>3, <1>4, <2>1, <2>3 DEF WordsIn
  <2>6. Apart(g.head) /\ g.limit = (f + 1) * FrameWords /\ g \in HeapShape
    BY <1>0, <1>3, <2>1
  <2>7. HeapOk(g) /\ FramesIn(g) = FramesIn(h) \cup {f}
    BY <1>5, <2>2, <2>4, <2>5, <2>6, JoinFact
  <2> QED BY <2>1, <2>7
<1>7. CASE start # h.limit
  <2>1. g = [head |-> Parked(h) \o h.head, next |-> start, limit |-> start + FrameWords]
    BY <1>1, <1>7 DEF Extend
  <2>2. TailWords(g) = WordsOf(f)
    BY <1>1, <2>1 DEF TailWords
  <2>3. g.next <= g.limit /\ g.limit = (f + 1) * FrameWords
    BY <1>0, <1>1, <2>1, Sizing
  <2>4. CASE h.limit - h.next >= Header + MinSplit
    <3> PICK b : b = Block(h.next, h.limit - h.next - Header, TRUE)
      OBVIOUS
    <3>1. b \in BlockRec /\ b.free /\ \A w \in Nat : On(b, w) <=> w \in TailWords(h)
      BY <1>2, <2>4, Sizing DEF Block, BlockRec, On, End, TailWords
    <3>2. g.head = <<b>> \o h.head
      BY <2>1, <2>4 DEF Parked
    <3>3. \A w \in Nat : On(b, w) => w \notin Covered(h.head)
      BY <1>3, <3>1
    <3>4. /\ g.head \in Seq(BlockRec) /\ Apart(g.head)
          /\ Covered(g.head) = Covered(h.head) \cup {w \in Nat : On(b, w)}
          /\ InUse(g.head) = InUse(h.head) \cup {c \in {b} : ~c.free}
      <4>1. h.head \in Seq(BlockRec) /\ Apart(h.head) /\ b \in BlockRec
        BY <1>2, <1>3, <3>1
      <4> QED BY ZenonT(60), <3>2, <3>3, <4>1, PrependFact
    <3>5. Covered(g.head) = WordsIn(h) /\ InUse(g.head) = InUse(h.head)
      <4>1. {w \in Nat : On(b, w)} = TailWords(h)
        BY <3>1 DEF TailWords
      <4> QED BY <3>1, <3>4, <4>1 DEF WordsIn
    <3>6. WordsIn(g) = WordsIn(h) \cup WordsOf(f)
      BY <2>2, <3>5 DEF WordsIn
    <3>7. Covered(g.head) \cap TailWords(g) = {}
      BY <1>4, <2>2, <3>5
    <3>8. g \in HeapShape
      BY <1>1, <2>1, <3>4, Sizing DEF HeapShape
    <3>9. HeapOk(g) /\ FramesIn(g) = FramesIn(h) \cup {f}
      BY <1>5, <2>3, <3>4, <3>6, <3>7, <3>8, JoinFact
    <3> QED BY <3>5, <3>9
  <2>5. CASE ~(h.limit - h.next >= Header + MinSplit)
    <3>0. Parked(h) \o h.head = h.head
      BY <1>2, <2>5, ConcatEmptySeq DEF Parked
    <3>1. g.head = h.head
      BY <2>1, <3>0
    <3>2. g \in HeapShape
      <4>1. g = [head |-> h.head, next |-> start, limit |-> start + FrameWords]
        BY <2>1, <3>0
      <4>2. h.head \in Seq(BlockRec) /\ start + FrameWords \in Nat
        BY <1>2, <1>n
      <4> QED BY <4>1, <4>2 DEF HeapShape
    <3>3. Covered(g.head) \cap TailWords(g) = {}
      BY <1>4, <2>2, <3>1 DEF WordsIn
    <3>4. /\ WordsIn(g) = (WordsIn(h) \ TailWords(h)) \cup WordsOf(f)
          /\ WordsIn(h) \ TailWords(h) \subseteq WordsIn(h)
      BY <1>3, <2>2, <3>1 DEF WordsIn
    <3>5. ASSUME NEW x \in FramesIn(h)
          PROVE  /\ \E w \in WordsIn(h) \ TailWords(h) : w \div FrameWords = x
                 /\ Short(x, WordsIn(h) \ TailWords(h))
      <4>1. CASE h.limit = 0
        <5>1. TailWords(h) = {}
          BY <1>2, <4>1 DEF TailWords
        <5> QED BY <1>5, <5>1
      <4>2. CASE h.limit # 0
        <5>1. PICK k \in Frames : h.limit = (k + 1) * FrameWords /\ WordsOf(k) \subseteq WordsIn(h)
          BY <4>2 DEF HeapOk, LastWhole
        <5>2. /\ k * FrameWords \in WordsOf(k) /\ k * FrameWords \in Nat
              /\ (k + 1) * FrameWords = k * FrameWords + FrameWords
              /\ \A w \in Nat : w \in WordsOf(k) <=> (k * FrameWords <= w /\ w < (k + 1) * FrameWords)
              /\ \A w \in Nat : w \in WordsOf(k) <=> w \div FrameWords = k
          BY FrameFact
        <5>3. h.next > k * FrameWords /\ h.limit - h.next \in Nat /\ h.limit - h.next < Header + MinSplit
          <6>1. PICK e \in Nat : e = k * FrameWords
            BY <5>2
          <6>2. h.limit = e + FrameWords
            BY <5>1, <5>2, <6>1
          <6> QED BY <1>n, <2>5, <6>1, <6>2
        <5>4. TailWords(h) \subseteq WordsOf(k) /\ k * FrameWords \notin TailWords(h)
          BY <1>2, <5>1, <5>2, <5>3 DEF TailWords
        <5>5. CASE x = k
          <6>1. \E w \in WordsIn(h) \ TailWords(h) : w \div FrameWords = x
            BY <5>1, <5>2, <5>4, <5>5
          <6>2. \A w \in WordsOf(x) : w < (x + 1) * FrameWords - (h.limit - h.next)
                                        => w \in WordsIn(h) \ TailWords(h)
            <7> SUFFICES ASSUME NEW w \in WordsOf(k), w < (k + 1) * FrameWords - (h.limit - h.next)
                         PROVE  w \in WordsIn(h) \ TailWords(h)
              BY <5>5
            <7>1. (k + 1) * FrameWords - (h.limit - h.next) = h.next
              BY <1>2, <5>1
            <7>2. w \in Nat /\ ~(h.next <= w)
              BY <1>2, <7>1, FrameFact
            <7> QED BY <5>1, <7>2 DEF TailWords
          <6> QED BY <5>3, <6>1, <6>2 DEF Short
        <5>6. CASE x # k
          <6>1. PICK w \in WordsIn(h) : w \div FrameWords = x
            BY <1>5
          <6>2. w \notin TailWords(h)
            BY <1>2, <5>2, <5>4, <5>6, <6>1
          <6>3. x \in Frames /\ \A v \in WordsOf(x) : v \notin TailWords(h)
            <7>1. x \in Frames
              BY <1>2
            <7>2. \A v \in WordsOf(x) : v \in Nat /\ v \div FrameWords = x
              BY <7>1, FrameFact
            <7> QED BY <5>2, <5>4, <5>6, <7>1, <7>2
          <6>4. Short(x, WordsIn(h) \ TailWords(h))
            BY <1>5, <6>3 DEF Short
          <6> QED BY <6>1, <6>2, <6>4
        <5> QED BY <5>5, <5>6
      <4> QED BY <4>1, <4>2
    <3>6. HeapOk(g) /\ FramesIn(g) = FramesIn(h) \cup {f}
      <4>1. Apart(g.head)
        BY <1>3, <3>1
      <4> QED BY <2>3, <3>2, <3>3, <3>4, <3>5, <4>1, JoinFact
    <3> QED BY <3>1, <3>6
  <2> QED BY <2>4, <2>5
<1> QED BY <1>6, <1>7

(* What grow_heap's loop keeps, from the bitmap m and the heap h on.       *)
Grown(m, h, s) ==
  /\ MemOk(s.mem) /\ HeapOk(s.heap) /\ FramesIn(s.heap) \subseteq s.mem.bitmap
  /\ InUse(s.heap.head) = InUse(h.head)
  /\ \E A : Took(m, s.mem, A) /\ FramesIn(s.heap) = FramesIn(h) \cup A

Roomy(h, need) == h.next + need <= h.limit

LEMMA FewFrames ==
  ASSUME NEW m, MemOk(m)
  PROVE  /\ IsFiniteSet(m.bitmap) /\ Cardinality(m.bitmap) \in Nat /\ Cardinality(m.bitmap) <= NFrames
         /\ \A f : f \notin m.bitmap => Cardinality(m.bitmap \cup {f}) = Cardinality(m.bitmap) + 1
<1>1. IsFiniteSet(Frames) /\ Cardinality(Frames) = NFrames
  BY Sizing, FS_Interval DEF Frames
<1>2. m.bitmap \subseteq Frames
  BY DEF MemOk, MemShape
<1>3. IsFiniteSet(m.bitmap) /\ Cardinality(m.bitmap) <= NFrames
  BY <1>1, <1>2, FS_Subset
<1> QED BY <1>3, FS_CardinalityType, FS_AddElement

LEMMA GrowTurnFact ==
  ASSUME NEW m, NEW h, NEW s, s.ok \in BOOLEAN, Grown(m, h, s), NEW need
  PROVE  LET r == GrowTurn(s, need)
         IN  /\ r.ok \in BOOLEAN /\ Grown(m, h, r)
             /\ r.ok => \/ Roomy(s.heap, need) /\ r = s
                        \/ Cardinality(r.mem.bitmap) = Cardinality(s.mem.bitmap) + 1
             /\ r.ok => s.ok
<1> PICK g : g = GrabMapped(s.mem)
  OBVIOUS
<1> PICK r : r = GrowTurn(s, need)
  OBVIOUS
<1>1. /\ MemOk(g.mem)
      /\ (g.frame = 0 /\ Took(s.mem, g.mem, {})) \/ (g.frame \in Frames /\ Took(s.mem, g.mem, {g.frame}))
  BY GrabMappedFact DEF Grown
<1>2. CASE ~s.ok \/ Roomy(s.heap, need)
  BY <1>2 DEF GrowTurn, Roomy
<1>3. CASE s.ok /\ ~Roomy(s.heap, need) /\ g.frame = 0
  <2>1. r.mem = g.mem /\ r.heap = s.heap /\ r.ok = FALSE
    BY <1>3 DEF GrowTurn, Roomy
  <2>2. Took(s.mem, g.mem, {})
    BY <1>1, <1>3, Sizing DEF Frames
  <2>3. Grown(m, h, r)
    <3>1. PICK A : Took(m, s.mem, A) /\ FramesIn(s.heap) = FramesIn(h) \cup A
      BY DEF Grown
    <3>2. Took(m, r.mem, A \cup {}) /\ A \cup {} = A
      BY <2>1, <2>2, <3>1, TookTwice
    <3>3. FramesIn(r.heap) \subseteq r.mem.bitmap
      BY <2>1, <2>2 DEF Grown, Took
    <3> QED BY <1>1, <2>1, <3>1, <3>2, <3>3 DEF Grown
  <2> QED BY <2>1, <2>3
<1>4. CASE s.ok /\ ~Roomy(s.heap, need) /\ g.frame # 0
  <2> PICK f : f = g.frame
    OBVIOUS
  <2>1. r.mem = g.mem /\ r.heap = Extend(s.heap, f) /\ r.ok = TRUE
    BY <1>4 DEF GrowTurn, Roomy
  <2>2. f \in Frames /\ Took(s.mem, g.mem, {f})
    BY <1>1, <1>4
  <2>3. f \notin s.mem.bitmap /\ g.mem.bitmap = s.mem.bitmap \cup {f} /\ f \notin FramesIn(s.heap)
    BY <2>2 DEF Took, Grown
  <2>4. /\ HeapOk(r.heap) /\ FramesIn(r.heap) = FramesIn(s.heap) \cup {f}
        /\ InUse(r.heap.head) = InUse(s.heap.head)
    BY <2>1, <2>2, <2>3, ExtendFact DEF Grown
  <2>5. Grown(m, h, r)
    <3>1. PICK A : Took(m, s.mem, A) /\ FramesIn(s.heap) = FramesIn(h) \cup A
      BY DEF Grown
    <3>2. Took(m, r.mem, A \cup {f})
      BY <2>1, <2>2, <3>1, TookTwice
    <3>3. FramesIn(r.heap) = FramesIn(h) \cup (A \cup {f})
      BY <2>4, <3>1
    <3>4. FramesIn(r.heap) \subseteq r.mem.bitmap
      BY <2>1, <2>3, <2>4 DEF Grown
    <3> QED BY <1>1, <2>1, <2>4, <3>2, <3>3, <3>4 DEF Grown
  <2>6. Cardinality(r.mem.bitmap) = Cardinality(s.mem.bitmap) + 1
    <3>1. MemOk(s.mem)
      BY DEF Grown
    <3>2. Cardinality(s.mem.bitmap \cup {f}) = Cardinality(s.mem.bitmap) + 1
      BY <2>3, <3>1, FewFrames
    <3> QED BY <2>1, <2>3, <3>2
  <2> QED BY <1>4, <2>1, <2>5, <2>6
<1> QED BY <1>2, <1>3, <1>4

GrowRun(s0, need, n, s) == s = [i \in 0..n |-> IF i = 0 THEN s0 ELSE GrowTurn(s[i - 1], need)]

LEMMA GrowRunExists ==
  ASSUME NEW s0, NEW need, NEW n \in Nat
  PROVE  \E s : GrowRun(s0, need, n, s)
<1> DEFINE Good == {m \in Nat : \E s : GrowRun(s0, need, m, s)}
<1>1. 0 \in Good
  <2> PICK s : s = [i \in 0..0 |-> s0]
    OBVIOUS
  <2>1. \A i \in 0..0 : i = 0
    OBVIOUS
  <2>2. s = [i \in 0..0 |-> IF i = 0 THEN s0 ELSE GrowTurn(s[i - 1], need)]
    BY <2>1
  <2> QED BY <2>2 DEF GrowRun
<1>2. ASSUME NEW m \in 0..(n - 1), m \in Good PROVE m + 1 \in Good
  <2>1. PICK g : GrowRun(s0, need, m, g)
    BY <1>2
  <2>2. PICK s : s = [i \in 0..(m + 1) |-> IF i \in 0..m THEN g[i] ELSE GrowTurn(g[i - 1], need)]
    OBVIOUS
  <2>3. \A i \in 0..(m + 1) : s[i] = IF i = 0 THEN s0 ELSE GrowTurn(s[i - 1], need)
    <3> SUFFICES ASSUME NEW i \in 0..(m + 1)
                 PROVE  s[i] = IF i = 0 THEN s0 ELSE GrowTurn(s[i - 1], need)
      OBVIOUS
    <3>1. i # 0 => i - 1 \in 0..m /\ i - 1 \in 0..(m + 1)
      OBVIOUS
    <3>2. i \notin 0..m => i # 0
      OBVIOUS
    <3>3. i \in 0..m => g[i] = IF i = 0 THEN s0 ELSE GrowTurn(g[i - 1], need)
      BY <2>1 DEF GrowRun
    <3> QED BY <2>2, <3>1, <3>2, <3>3
  <2>4. s = [i \in 0..(m + 1) |-> IF i = 0 THEN s0 ELSE GrowTurn(s[i - 1], need)]
    BY <2>2, <2>3
  <2> QED BY <2>4 DEF GrowRun
<1> HIDE DEF Good
<1>3. n \in Good
  BY <1>1, <1>2, UpFromZero
<1> QED BY <1>3 DEF Good

(* grow_heap: it ends with the room it was asked for, or without a frame   *)
(* to take; NFrames + 1 turns are enough of a loop.                        *)
LEMMA GrowHeapFact ==
  ASSUME NEW m, MemOk(m), NEW h, HeapOk(h), FramesIn(h) \subseteq m.bitmap, NEW need
  PROVE  LET s == GrowHeap(m, h, need)
         IN  Grown(m, h, s) /\ s.ok \in BOOLEAN /\ (s.ok => Roomy(s.heap, need))
<1> PICK s0 : s0 = [mem |-> m, heap |-> h, ok |-> TRUE]
  OBVIOUS
<1> PICK n \in Nat : n = NFrames + 1
  BY Sizing
<1>1. PICK s : /\ s = [i \in 0..n |-> IF i = 0 THEN s0 ELSE GrowTurn(s[i - 1], need)]
               /\ GrowHeap(m, h, need) = s[n]
  <2>1. \E s : s = [i \in 0..n |-> IF i = 0 THEN s0 ELSE GrowTurn(s[i - 1], need)]
    <3>1. PICK s : GrowRun(s0, need, n, s)
      BY GrowRunExists
    <3> QED BY <3>1 DEF GrowRun
  <2> QED BY <2>1 DEF GrowHeap
<1> DEFINE T == {i \in Nat : /\ Grown(m, h, s[i]) /\ s[i].ok \in BOOLEAN
                             /\ s[i].ok => Roomy(s[i].heap, need) \/ Cardinality(s[i].mem.bitmap) >= i}
<1>2. 0 \in T
  <2>1. s[0] = s0
    BY <1>1
  <2>2. s0.mem = m /\ s0.heap = h /\ s0.ok = TRUE
    OBVIOUS
  <2>3. Grown(m, h, s0)
    <3>1. Took(m, m, {}) /\ FramesIn(h) = FramesIn(h) \cup {}
      BY TookNone
    <3> QED BY <2>2, <3>1 DEF Grown
  <2>4. Cardinality(m.bitmap) >= 0
    BY FewFrames
  <2> QED BY <2>1, <2>2, <2>3, <2>4
<1>3. ASSUME NEW i \in 0..(n - 1), i \in T PROVE i + 1 \in T
  <2>1. i \in Nat /\ i + 1 \in Nat /\ i + 1 \in 0..n /\ i + 1 # 0 /\ (i + 1) - 1 = i
    OBVIOUS
  <2> PICK a : a = s[i]
    OBVIOUS
  <2> PICK b : b = s[i + 1]
    OBVIOUS
  <2>2. b = GrowTurn(a, need)
    BY <1>1, <2>1
  <2>3. a.ok \in BOOLEAN /\ Grown(m, h, a) /\ (a.ok => Roomy(a.heap, need) \/ Cardinality(a.mem.bitmap) >= i)
    BY <1>3
  <2>4. /\ b.ok \in BOOLEAN /\ Grown(m, h, b) /\ (b.ok => a.ok)
        /\ b.ok => \/ Roomy(a.heap, need) /\ b = a
                   \/ Cardinality(b.mem.bitmap) = Cardinality(a.mem.bitmap) + 1
    BY <2>2, <2>3, GrowTurnFact
  <2>5. Cardinality(a.mem.bitmap) \in Nat /\ Cardinality(b.mem.bitmap) \in Nat
    BY <2>3, <2>4, FewFrames DEF Grown
  <2>6. b.ok => Roomy(b.heap, need) \/ Cardinality(b.mem.bitmap) >= i + 1
    <3>1. SUFFICES ASSUME b.ok, ~Roomy(b.heap, need) PROVE Cardinality(b.mem.bitmap) >= i + 1
      OBVIOUS
    <3>2. Cardinality(b.mem.bitmap) = Cardinality(a.mem.bitmap) + 1
      BY <2>4, <3>1
    <3>3. CASE Roomy(a.heap, need)
      <4>1. GrowTurn(a, need) = a
        BY <3>3 DEF GrowTurn, Roomy
      <4> QED BY <2>2, <3>1, <3>3, <4>1
    <3>4. CASE ~Roomy(a.heap, need)
      <4>1. Cardinality(a.mem.bitmap) >= i
        BY <2>3, <2>4, <3>1, <3>4
      <4> QED BY <2>1, <2>5, <3>2, <4>1
    <3> QED BY <3>3, <3>4
  <2> QED BY <2>1, <2>4, <2>6
<1>4. n \in T
  <2> HIDE DEF T
  <2> QED BY <1>2, <1>3, UpFromZero
<1>5. Cardinality(s[n].mem.bitmap) \in Nat /\ Cardinality(s[n].mem.bitmap) <= NFrames
  BY <1>4, FewFrames DEF Grown
<1>6. ~(Cardinality(s[n].mem.bitmap) >= n)
  BY <1>5, Sizing
<1> QED BY <1>1, <1>4, <1>6

-----------------------------------------------------------------------------
(* kmalloc.                                                                *)

Slice(list, lo, hi, part) ==
  /\ part \in Seq(BlockRec) /\ Apart(part)
  /\ \A w : w \in Covered(part) <=> w \in Nat /\ \E k \in lo..hi : On(list[k], w)
  /\ \A b : b \in InUse(part) <=> ~b.free /\ \E k \in lo..hi : b = list[k]

LEMMA SliceFact ==
  ASSUME NEW list \in Seq(BlockRec), Apart(list), NEW lo \in Int, NEW hi \in Int, lo >= 1, hi <= Len(list)
  PROVE  Slice(list, lo, hi, SubSeq(list, lo, hi))
<1> PICK part : part = SubSeq(list, lo, hi)
  OBVIOUS
<1>1. \A k \in lo..hi : k \in 1..Len(list) /\ list[k] \in BlockRec
  BY ListFact
<1>2. /\ part \in Seq(BlockRec) /\ Len(part) = IF lo <= hi THEN hi - lo + 1 ELSE 0
      /\ \A i \in 1..(hi - lo + 1) : part[i] = list[lo + i - 1]
  BY <1>1, SubSeqProperties
<1>3. \A i \in 1..Len(part) : lo + i - 1 \in lo..hi /\ part[i] = list[lo + i - 1]
  <2>1. \A i \in 1..Len(part) : i \in 1..(hi - lo + 1) /\ lo + i - 1 \in lo..hi
    BY <1>2
  <2> QED BY <1>2, <2>1
<1>4. \A k \in lo..hi : k - lo + 1 \in 1..Len(part) /\ part[k - lo + 1] = list[k]
  <2>1. \A k \in lo..hi : k - lo + 1 \in 1..(hi - lo + 1) /\ k - lo + 1 \in 1..Len(part) /\ lo + (k - lo + 1) - 1 = k
    BY <1>2
  <2> QED BY <1>2, <2>1
<1>5. Apart(part)
  <2> SUFFICES ASSUME NEW i \in 1..Len(part), NEW j \in 1..Len(part), i # j PROVE Clear(part[i], part[j])
    BY DEF Apart
  <2>1. lo + i - 1 # lo + j - 1
    BY <1>2
  <2> QED BY <1>1, <1>3, <2>1 DEF Apart
<1>6. \A x : (\E i \in 1..Len(part) : part[i] = x) <=> (\E k \in lo..hi : list[k] = x)
  <2>1. \A i \in 1..Len(part) : \E k \in lo..hi : list[k] = part[i]
    BY <1>3
  <2>2. \A k \in lo..hi : \E i \in 1..Len(part) : part[i] = list[k]
    BY <1>4
  <2> SUFFICES ASSUME NEW x
               PROVE  (\E i \in 1..Len(part) : part[i] = x) <=> (\E k \in lo..hi : list[k] = x)
    OBVIOUS
  <2>3. ASSUME NEW i \in 1..Len(part), part[i] = x PROVE \E k \in lo..hi : list[k] = x
    BY <2>1, <2>3
  <2>4. ASSUME NEW k \in lo..hi, list[k] = x PROVE \E i \in 1..Len(part) : part[i] = x
    BY <2>2, <2>4
  <2> QED BY <2>3, <2>4
<1>7. \A w : w \in Covered(part) <=> w \in Nat /\ \E k \in lo..hi : On(list[k], w)
  BY <1>6 DEF Covered
<1>8. \A b : b \in InUse(part) <=> ~b.free /\ \E k \in lo..hi : b = list[k]
  <2>1. Range(part) = {part[i] : i \in 1..Len(part)}
    BY <1>2, ListFact
  <2>2. \A x : x \in Range(part) <=> x \in {list[k] : k \in lo..hi}
    BY ZenonT(60), <1>6, <2>1
  <2> QED BY <2>2 DEF InUse
<1> QED BY <1>2, <1>5, <1>7, <1>8 DEF Slice

(* A free block in the list replaced by blocks over its words.             *)
Replaced(list, mid, new) ==
  /\ new \in Seq(BlockRec) /\ Apart(new)
  /\ Covered(new) = Covered(list) /\ InUse(new) = InUse(list) \cup InUse(mid)

LEMMA ReplaceFact ==
  ASSUME NEW list \in Seq(BlockRec), Apart(list), NEW i \in 1..Len(list), list[i].free,
         NEW mid \in Seq(BlockRec), Apart(mid), Covered(mid) = {w \in Nat : On(list[i], w)}
  PROVE  Replaced(list, mid, SubSeq(list, 1, i - 1) \o mid \o SubSeq(list, i + 1, Len(list)))
<1>0. Len(list) \in Nat
  BY ListFact
<1> PICK pre : pre = SubSeq(list, 1, i - 1)
  OBVIOUS
<1> PICK post : post = SubSeq(list, i + 1, Len(list))
  OBVIOUS
<1>1. /\ pre \in Seq(BlockRec) /\ Apart(pre)
      /\ \A w : w \in Covered(pre) <=> w \in Nat /\ \E k \in 1..(i - 1) : On(list[k], w)
      /\ \A b : b \in InUse(pre) <=> ~b.free /\ \E k \in 1..(i - 1) : b = list[k]
  <2>1. 1 \in Int /\ (i - 1) \in Int /\ 1 >= 1 /\ (i - 1) <= Len(list)
    OBVIOUS
  <2>2. Slice(list, 1, i - 1, pre)
    BY <2>1, SliceFact
  <2> QED BY <2>2 DEF Slice
<1>2. /\ post \in Seq(BlockRec) /\ Apart(post)
      /\ \A w : w \in Covered(post) <=> w \in Nat /\ \E k \in (i + 1)..Len(list) : On(list[k], w)
      /\ \A b : b \in InUse(post) <=> ~b.free /\ \E k \in (i + 1)..Len(list) : b = list[k]
  <2>1. (i + 1) \in Int /\ Len(list) \in Int /\ (i + 1) >= 1 /\ Len(list) <= Len(list)
    BY <1>0
  <2>2. Slice(list, i + 1, Len(list), post)
    BY <2>1, SliceFact
  <2> QED BY <2>2 DEF Slice
<1>3. ASSUME NEW w \in Nat, NEW j \in 1..Len(list), NEW k \in 1..Len(list), j # k PROVE ~(On(list[j], w) /\ On(list[k], w))
  <2>1. Clear(list[j], list[k]) /\ list[j] \in BlockRec /\ list[k] \in BlockRec
    BY <1>3, ListFact DEF Apart
  <2> QED BY <2>1, ClearOn
<1>4. /\ \A k \in 1..(i - 1) : k \in 1..Len(list) /\ k # i
      /\ \A k \in (i + 1)..Len(list) : k \in 1..Len(list) /\ k # i
      /\ \A j \in 1..(i - 1), k \in (i + 1)..Len(list) : j # k
      /\ \A k \in 1..Len(list) : k \in 1..(i - 1) \/ k = i \/ k \in (i + 1)..Len(list)
  OBVIOUS
<1>5. /\ Covered(pre) \cap Covered(mid) = {} /\ Covered(pre) \cap Covered(post) = {}
      /\ Covered(mid) \cap Covered(post) = {}
  <2>1. \A w \in Nat : w \in Covered(mid) <=> On(list[i], w)
    OBVIOUS
  <2>2. Covered(pre) \subseteq Nat /\ Covered(mid) \subseteq Nat
    BY <1>1
  <2>3. Covered(pre) \cap Covered(mid) = {}
    BY <1>1, <1>3, <1>4, <2>1
  <2>4. Covered(pre) \cap Covered(post) = {}
    BY <1>1, <1>2, <1>3, <1>4
  <2>5. Covered(mid) \cap Covered(post) = {}
    BY <1>2, <1>3, <1>4, <2>1, <2>2
  <2> QED BY <2>3, <2>4, <2>5
<1> PICK front : front = pre \o mid
  OBVIOUS
<1>6. /\ front \in Seq(BlockRec) /\ Apart(front)
      /\ Covered(front) = Covered(pre) \cup Covered(mid) /\ InUse(front) = InUse(pre) \cup InUse(mid)
  BY <1>1, <1>5, ConcatFact
<1> PICK new : new = front \o post
  OBVIOUS
<1>7. /\ new \in Seq(BlockRec) /\ Apart(new)
      /\ Covered(new) = Covered(front) \cup Covered(post) /\ InUse(new) = InUse(front) \cup InUse(post)
  <2>1. Covered(front) \cap Covered(post) = {}
    BY <1>5, <1>6
  <2> QED BY ZenonT(60), <1>2, <1>6, <2>1, ConcatFact
<1>8. Covered(list) = Covered(pre) \cup Covered(mid) \cup Covered(post)
  BY <1>1, <1>2, <1>4 DEF Covered
<1>9. InUse(list) = InUse(pre) \cup InUse(post)
  <2>1. Range(list) = {list[k] : k \in 1..Len(list)}
    BY ListFact
  <2>2. \A b : b \in InUse(list) <=> ~b.free /\ \E k \in 1..Len(list) : b = list[k]
    BY <2>1 DEF InUse
  <2>3. ASSUME NEW b \in InUse(list) PROVE b \in InUse(pre) \cup InUse(post)
    <3>1. PICK k \in 1..Len(list) : b = list[k] /\ ~b.free
      BY <2>2
    <3>2. k # i
      BY <3>1
    <3> QED BY <1>1, <1>2, <1>4, <3>1, <3>2
  <2>4. ASSUME NEW b \in InUse(pre) \cup InUse(post) PROVE b \in InUse(list)
    BY <1>1, <1>2, <1>4, <2>2
  <2> QED BY <2>3, <2>4
<1> QED BY <1>6, <1>7, <1>8, <1>9 DEF Replaced

Pair(x, y, mid) ==
  /\ mid \in Seq(BlockRec) /\ Apart(mid)
  /\ \A w : w \in Covered(mid) <=> w \in Nat /\ (On(x, w) \/ On(y, w))
  /\ \A c : c \in InUse(mid) <=> ~c.free /\ (c = x \/ c = y)

LEMMA TwoBlocks ==
  ASSUME NEW x \in BlockRec, NEW y \in BlockRec, \A w \in Nat : ~(On(x, w) /\ On(y, w))
  PROVE  Pair(x, y, <<x, y>>)
<1> PICK mid : mid = <<x, y>>
  OBVIOUS
<1>1. mid \in Seq(BlockRec) /\ Len(mid) = 2 /\ mid[1] = x /\ mid[2] = y
  OBVIOUS
<1>2. /\ \A i \in 1..Len(mid) : i = 1 \/ i = 2
      /\ 1 \in 1..Len(mid) /\ 2 \in 1..Len(mid)
  BY <1>1
<1>3. Clear(x, y) /\ Clear(y, x)
  BY WordsApart, ClearOff
<1>4. Apart(mid)
  BY <1>1, <1>2, <1>3 DEF Apart
<1>5. \A w : w \in Covered(mid) <=> w \in Nat /\ (On(x, w) \/ On(y, w))
  BY <1>1, <1>2 DEF Covered
<1>6. \A c : c \in InUse(mid) <=> ~c.free /\ (c = x \/ c = y)
  <2>1. Range(mid) = {mid[i] : i \in 1..Len(mid)}
    BY <1>1, ListFact
  <2>2. \A c : c \in Range(mid) <=> (c = x \/ c = y)
    BY <1>1, <1>2, <2>1
  <2> QED BY <2>2 DEF InUse
<1> QED BY <1>1, <1>4, <1>5, <1>6 DEF Pair

LEMMA SplitFact ==
  ASSUME NEW b \in BlockRec, NEW size \in Nat, size >= 1, Fits(b, size)
  PROVE  LET mid == Split(b, size)
         IN  /\ mid \in Seq(BlockRec) /\ Apart(mid) /\ Covered(mid) = {w \in Nat : On(b, w)}
             /\ \E c \in BlockRec : /\ InUse(mid) = {c} /\ ~c.free /\ c.at = b.at /\ c.size >= size
<1>1. CASE b.size >= size + Header + MinSplit
  <2> PICK x : x = Block(b.at + Header + size, b.size - size - Header, TRUE)
    OBVIOUS
  <2> PICK y : y = Block(b.at, size, FALSE)
    OBVIOUS
  <2>1. x \in BlockRec /\ y \in BlockRec /\ x.free /\ ~y.free /\ y.at = b.at /\ y.size >= size
    BY <1>1, Sizing DEF Block, BlockRec
  <2>2. \A w \in Nat : ~(On(x, w) /\ On(y, w)) /\ (On(b, w) <=> On(x, w) \/ On(y, w))
    BY <1>1, Sizing DEF Block, BlockRec, On, End
  <2> PICK mid : mid = <<x, y>>
    OBVIOUS
  <2>3. Split(b, size) = mid
    BY <1>1 DEF Split
  <2>4. \A w \in Nat : ~(On(x, w) /\ On(y, w))
    BY <2>2
  <2>5. Pair(x, y, mid)
    BY <2>1, <2>4, TwoBlocks
  <2>6. mid \in Seq(BlockRec) /\ Apart(mid) /\ InUse(mid) = {y}
    BY <2>1, <2>5 DEF Pair
  <2>7. Covered(mid) = {w \in Nat : On(b, w)}
    BY <2>2, <2>5 DEF Pair
  <2> QED BY <2>1, <2>3, <2>6, <2>7, Zenon
<1>2. CASE ~(b.size >= size + Header + MinSplit)
  <2> PICK c : c = [b EXCEPT !.free = FALSE]
    OBVIOUS
  <2>1. c \in BlockRec /\ ~c.free /\ c.at = b.at /\ c.size = b.size /\ c.size >= size
    BY DEF Fits, BlockRec
  <2>2. Split(b, size) = <<c>>
    BY <1>2 DEF Split
  <2>3. \A w \in Nat : On(c, w) <=> On(b, w)
    BY <2>1 DEF On, End
  <2>4. /\ <<c>> \in Seq(BlockRec) /\ Apart(<<c>>)
        /\ Covered(<<c>>) = {w \in Nat : On(c, w)} /\ InUse(<<c>>) = {d \in {c} : ~d.free}
    BY <2>1, OneBlock
  <2>5. InUse(<<c>>) = {c} /\ Covered(<<c>>) = {w \in Nat : On(b, w)}
    BY <2>1, <2>3, <2>4
  <2> QED BY <2>1, <2>2, <2>4, <2>5, Zenon
<1> QED BY <1>1, <1>2

LEMMA NotNull ==
  ASSUME NEW h, HeapOk(h), NEW w \in WordsIn(h)
  PROVE  w # 0
<1>1. w \in Nat /\ w \div FrameWords \in Frames
  BY HeapFields
<1> PICK f \in Frames : f = w \div FrameWords
  BY <1>1
<1>2. f * FrameWords <= w
  BY <1>1, FrameFact
<1>3. f - 1 \in Nat /\ (f - 1) + 1 = f
  BY Sizing DEF Frames
<1>4. (f - 1) * FrameWords \in Nat /\ f * FrameWords = (f - 1) * FrameWords + FrameWords
  BY <1>3, FrameEdge
<1>5. f * FrameWords >= 1
  <2>1. FrameWords \in Nat /\ FrameWords >= 1
    BY Sizing
  <2> HIDE <1>3
  <2> QED BY <1>4, <2>1
<1>6. w \in Nat /\ f * FrameWords \in Nat
  BY <1>1, FrameFact
<1> QED BY <1>2, <1>5, <1>6

FitAt(list, size) == SelectInSeq(list, LAMBDA b : Fits(b, size))

LEMMA FitFact ==
  ASSUME NEW list \in Seq(BlockRec), NEW size
  PROVE  FitAt(list, size) = 0 \/ (FitAt(list, size) \in 1..Len(list) /\ Fits(list[FitAt(list, size)], size))
<1> PICK I : I = {i \in 1..Len(list) : Fits(list[i], size)}
  OBVIOUS
<1>1. FitAt(list, size) = IF I # {} THEN Min(I) ELSE 0
  BY DEF FitAt, SelectInSeq
<1>2. I \subseteq Nat
  OBVIOUS
<1>3. I # {} => Min(I) \in I
  BY <1>2, MinFact
<1> QED BY <1>1, <1>3

(* The block b is new in the heap g, and the caller's.                     *)
NewBlock(h, g, b, at, size) ==
  /\ b \in BlockRec /\ b \notin InUse(h.head) /\ ~b.free /\ b.at = at /\ at # 0 /\ b.size >= size
  /\ InUse(g.head) = InUse(h.head) \cup {b}

Allocated(m, h, size, k) ==
  /\ MemOk(k.mem) /\ HeapOk(k.heap) /\ FramesIn(k.heap) \subseteq k.mem.bitmap
  /\ \E A : Took(m, k.mem, A) /\ FramesIn(k.heap) = FramesIn(h) \cup A
  /\ \/ k.at = 0 /\ InUse(k.heap.head) = InUse(h.head)
     \/ \E b : NewBlock(h, k.heap, b, k.at, size)

FitHeap(h, i, size) ==
  [h EXCEPT !.head = SubSeq(h.head, 1, i - 1) \o Split(h.head[i], size) \o SubSeq(h.head, i + 1, Len(h.head))]
BumpHeap(h, size) ==
  [h EXCEPT !.head = <<Block(h.next, size, FALSE)>> \o h.head, !.next = h.next + size + Header]

LEMMA FitBlock ==
  ASSUME NEW h, HeapOk(h), NEW size \in Nat, size >= 1, NEW i \in 1..Len(h.head), Fits(h.head[i], size),
         NEW g, g = FitHeap(h, i, size)
  PROVE  HeapOk(g) /\ FramesIn(g) = FramesIn(h) /\ \E b : NewBlock(h, g, b, h.head[i].at, size)
<1> PICK list : list = h.head
  OBVIOUS
<1> PICK old : old = list[i]
  OBVIOUS
<1>1. list \in Seq(BlockRec) /\ Apart(list)
  BY DEF HeapOk, HeapShape
<1>2. old \in BlockRec /\ old.free /\ old \in Range(list)
  BY <1>1, ListFact DEF Fits
<1> PICK mid : mid = Split(old, size)
  OBVIOUS
<1>3. /\ mid \in Seq(BlockRec) /\ Apart(mid) /\ Covered(mid) = {w \in Nat : On(old, w)}
      /\ \E c \in BlockRec : InUse(mid) = {c} /\ ~c.free /\ c.at = old.at /\ c.size >= size
  BY <1>2, SplitFact
<1> PICK new : new = SubSeq(list, 1, i - 1) \o mid \o SubSeq(list, i + 1, Len(list))
  OBVIOUS
<1>4. /\ new \in Seq(BlockRec) /\ Apart(new)
      /\ Covered(new) = Covered(list) /\ InUse(new) = InUse(list) \cup InUse(mid)
  <2>1. list[i].free /\ Covered(mid) = {w \in Nat : On(list[i], w)} /\ i \in 1..Len(list)
    BY <1>2, <1>3
  <2>2. Replaced(list, mid, new)
    BY <1>1, <1>3, <2>1, ReplaceFact
  <2> QED BY <2>2 DEF Replaced
<1>5. g \in HeapShape /\ g.head = new /\ g.next = h.next /\ g.limit = h.limit
  <2>1. g = [h EXCEPT !.head = new]
    BY DEF FitHeap
  <2>2. h \in HeapShape
    BY DEF HeapOk
  <2> QED BY <1>4, <2>1, <2>2 DEF HeapShape
<1>6. TailWords(g) = TailWords(h) /\ WordsIn(g) = WordsIn(h)
  BY <1>4, <1>5 DEF TailWords, WordsIn
<1>7. HeapOk(g) /\ FramesIn(g) = FramesIn(h)
  <2>1. g.next <= g.limit /\ Apart(g.head) /\ Covered(g.head) \cap TailWords(g) = {}
    BY <1>4, <1>5, <1>6 DEF HeapOk
  <2> QED BY <1>5, <1>6, <2>1, SameWordsOk
<1>8. PICK c \in BlockRec : InUse(mid) = {c} /\ ~c.free /\ c.at = old.at /\ c.size >= size
  BY <1>3
<1>9. c \notin InUse(list)
  <2>1. c \in Range(list) => c = old
    BY <1>1, <1>2, <1>8, DistinctAt
  <2> QED BY <1>2, <1>8, <2>1 DEF InUse
<1>10. old.at # 0
  <2>1. On(old, old.at) /\ old.at \in Nat
    BY <1>2, ClearOff DEF BlockRec
  <2>2. old.at \in WordsIn(h)
    BY <2>1 DEF WordsIn, Covered
  <2> QED BY <2>2, NotNull
<1>11. NewBlock(h, g, c, old.at, size)
  BY <1>4, <1>5, <1>8, <1>9, <1>10 DEF NewBlock
<1> QED BY <1>7, <1>11

LEMMA BumpBlock ==
  ASSUME NEW h, HeapOk(h), NEW size \in Nat, size >= 1, Roomy(h, Need(size)),
         NEW g, g = BumpHeap(h, size)
  PROVE  HeapOk(g) /\ FramesIn(g) = FramesIn(h) /\ NewBlock(h, g, Block(h.next, size, FALSE), h.next, size)
<1> PICK b : b = Block(h.next, size, FALSE)
  OBVIOUS
<1>1. h \in HeapShape /\ h.head \in Seq(BlockRec) /\ h.next \in Nat /\ h.limit \in Nat
  BY HeapFields DEF HeapOk
<1>2. /\ b \in BlockRec /\ ~b.free /\ b.at = h.next /\ b.size >= size
      /\ End(b) = h.next + size + Header /\ h.next + size + Header \in Nat
      /\ h.next + size + Header <= h.limit /\ h.next < End(b)
  <2>1. Header \in Nat /\ h.next + (size + Header) <= h.limit
    BY Sizing DEF Roomy, Need
  <2> QED BY <1>1, <2>1 DEF Block, BlockRec, End
<1>3. \A w \in Nat : On(b, w) <=> (h.next <= w /\ w < h.next + size + Header)
  BY <1>2 DEF On
<1>4. \A w \in Nat : On(b, w) => w \in TailWords(h)
  <2>1. \A w \in Nat : w < h.next + size + Header => w < h.limit
    BY <1>1, <1>2
  <2> QED BY <1>3, <2>1 DEF TailWords
<1>5. Apart(h.head) /\ Covered(h.head) \cap TailWords(h) = {}
  BY DEF HeapOk
<1>6. \A w \in Nat : On(b, w) => w \notin Covered(h.head)
  BY <1>4, <1>5
<1> PICK new : new = <<b>> \o h.head
  OBVIOUS
<1>7. /\ new \in Seq(BlockRec) /\ Apart(new)
      /\ Covered(new) = Covered(h.head) \cup {w \in Nat : On(b, w)}
      /\ InUse(new) = InUse(h.head) \cup {c \in {b} : ~c.free}
  BY <1>1, <1>2, <1>5, <1>6, PrependFact
<1>8. g \in HeapShape /\ g.head = new /\ g.next = h.next + size + Header /\ g.limit = h.limit
  <2>1. g = [h EXCEPT !.head = new, !.next = h.next + size + Header]
    BY DEF BumpHeap
  <2> QED BY <1>1, <1>2, <1>7, <2>1 DEF HeapShape
<1>9. TailWords(h) = TailWords(g) \cup {w \in Nat : On(b, w)} /\ TailWords(g) \cap {w \in Nat : On(b, w)} = {}
  <2>1. \A w \in Nat : (h.next <= w /\ w < h.limit)
                         <=> \/ h.next + size + Header <= w /\ w < h.limit
                             \/ h.next <= w /\ w < h.next + size + Header
    <3> PICK e : e = h.next + size + Header
      OBVIOUS
    <3>1. h.next \in Nat /\ e \in Nat /\ h.limit \in Nat /\ h.next < e /\ e <= h.limit
      BY <1>1, <1>2
    <3>2. \A w \in Nat : (h.next <= w /\ w < h.limit) <=> ((e <= w /\ w < h.limit) \/ (h.next <= w /\ w < e))
      BY <3>1
    <3> QED BY <3>2
  <2>2. \A w \in Nat : ~((h.next + size + Header <= w) /\ (w < h.next + size + Header))
    BY <1>1, <1>2
  <2> QED BY <1>3, <1>8, <2>1, <2>2 DEF TailWords
<1>10. WordsIn(g) = WordsIn(h) /\ Covered(g.head) \cap TailWords(g) = {}
  BY <1>5, <1>7, <1>8, <1>9 DEF WordsIn
<1>11. HeapOk(g) /\ FramesIn(g) = FramesIn(h)
  BY <1>2, <1>7, <1>8, <1>10, SameWordsOk
<1>12. On(b, b.at) /\ b.at \in Nat
  BY <1>2, ClearOff DEF BlockRec
<1>13. b \notin InUse(h.head)
  <2>1. ASSUME b \in InUse(h.head) PROVE b.at \in Covered(h.head)
    <3>1. PICK i \in 1..Len(h.head) : b = h.head[i]
      BY <1>1, <2>1, ListFact DEF InUse
    <3> QED BY <1>12, <3>1 DEF Covered
  <2> QED BY <1>6, <1>12, <2>1
<1>14. h.next # 0
  <2>1. h.next \in WordsIn(h)
    BY <1>2, <1>4, <1>12 DEF WordsIn
  <2> QED BY <2>1, NotNull
<1>15. NewBlock(h, g, b, h.next, size)
  <2>1. InUse(g.head) = InUse(h.head) \cup {b}
    BY <1>2, <1>7, <1>8
  <2> QED BY <1>2, <1>13, <1>14, <2>1 DEF NewBlock
<1> QED BY <1>11, <1>15

(* kmalloc: a block of the size asked that nobody had, or the null pointer *)
(* and no block changed; the frames it took are the heap's.                *)
LEMMA KmallocFact ==
  ASSUME NEW m, MemOk(m), NEW h, HeapOk(h), FramesIn(h) \subseteq m.bitmap, NEW size \in Nat, size >= 1
  PROVE  Allocated(m, h, size, Kmalloc(m, h, size))
<1> PICK k : k = Kmalloc(m, h, size)
  OBVIOUS
<1> PICK i : i = FitAt(h.head, size)
  OBVIOUS
<1> PICK s : s = GrowHeap(m, h, Need(size))
  OBVIOUS
<1>0. h.head \in Seq(BlockRec)
  BY HeapFields
<1>1. i = 0 \/ (i \in 1..Len(h.head) /\ Fits(h.head[i], size))
  BY <1>0, FitFact
<1>2. Grown(m, h, s) /\ s.ok \in BOOLEAN /\ (s.ok => Roomy(s.heap, Need(size)))
  BY GrowHeapFact
<1>3. CASE i # 0
  <2> PICK g : g = FitHeap(h, i, size)
    OBVIOUS
  <2>1. k = [mem |-> m, at |-> h.head[i].at, heap |-> g]
    BY <1>3 DEF Kmalloc, FitAt, FitHeap
  <2>2. HeapOk(g) /\ FramesIn(g) = FramesIn(h) /\ \E b : NewBlock(h, g, b, h.head[i].at, size)
    BY <1>1, <1>3, FitBlock
  <2>3. Took(m, m, {}) /\ FramesIn(g) = FramesIn(h) \cup {}
    BY <2>2, TookNone
  <2>4. k.mem = m /\ k.heap = g /\ k.at = h.head[i].at
    BY <2>1
  <2> QED BY <2>2, <2>3, <2>4 DEF Allocated
<1>4. CASE i = 0 /\ ~s.ok
  <2>1. k = [mem |-> s.mem, at |-> 0, heap |-> s.heap]
    BY <1>4 DEF Kmalloc, FitAt
  <2> QED BY <1>2, <2>1 DEF Allocated, Grown
<1>5. CASE i = 0 /\ s.ok
  <2> PICK e : e = s.heap
    OBVIOUS
  <2> PICK b : b = Block(e.next, size, FALSE)
    OBVIOUS
  <2> PICK g : g = BumpHeap(e, size)
    OBVIOUS
  <2>1. k = [mem |-> s.mem, at |-> e.next, heap |-> g]
    BY <1>5 DEF Kmalloc, FitAt, BumpHeap
  <2>2. HeapOk(e) /\ InUse(e.head) = InUse(h.head)
    BY <1>2 DEF Grown
  <2>3. Roomy(e, Need(size))
    BY <1>2, <1>5 DEF Roomy
  <2>4. HeapOk(g) /\ FramesIn(g) = FramesIn(e) /\ NewBlock(e, g, b, e.next, size)
    BY <2>2, <2>3, BumpBlock
  <2>5. NewBlock(h, g, b, e.next, size)
    BY <2>2, <2>4 DEF NewBlock
  <2>6. k.mem = s.mem /\ k.heap = g /\ k.at = e.next
    BY <2>1
  <2>7. MemOk(s.mem) /\ FramesIn(e) \subseteq s.mem.bitmap
    BY <1>2 DEF Grown
  <2>8. \E A : Took(m, s.mem, A) /\ FramesIn(e) = FramesIn(h) \cup A
    BY <1>2 DEF Grown
  <2> QED BY <2>4, <2>5, <2>6, <2>7, <2>8 DEF Allocated
<1> QED BY <1>1, <1>2, <1>3, <1>4, <1>5

-----------------------------------------------------------------------------
(* What a task's record names, slot by slot.                               *)

MaybeFrame == Frames \cup {0}
TaskRec == [stack : Nat, dir : MaybeFrame, table : MaybeFrame, page : MaybeFrame, window : MaybeFrame,
            killed : BOOLEAN, ptab : [BrkTables -> MaybeFrame], pte : [0..BrkMax - 1 -> MaybeFrame]]
Slots == ({"dir", "table", "page", "window"} \X {0}) \cup ({"ptab"} \X BrkTables) \cup ({"pte"} \X (0..BrkMax - 1))
FrameAt(k, s) ==
  IF s[1] = "dir" THEN k.dir ELSE IF s[1] = "table" THEN k.table ELSE IF s[1] = "page" THEN k.page
  ELSE IF s[1] = "window" THEN k.window ELSE IF s[1] = "ptab" THEN k.ptab[s[2]] ELSE k.pte[s[2]]

(* Every frame named once, by a task, the heap or the kernel image, and    *)
(* taken in the bitmap.                                                    *)
FramesOk(m, h, ts) ==
  /\ 1..KernelFrames \subseteq m.bitmap /\ FramesIn(h) \subseteq m.bitmap
  /\ FramesIn(h) \cap 1..KernelFrames = {}
  /\ \A t \in Tasks, s \in Slots : FrameAt(ts[t], s) # 0 =>
       /\ FrameAt(ts[t], s) \in m.bitmap
       /\ FrameAt(ts[t], s) \notin 1..KernelFrames /\ FrameAt(ts[t], s) \notin FramesIn(h)
  /\ \A t, u \in Tasks, s, r \in Slots :
       FrameAt(ts[t], s) # 0 /\ FrameAt(ts[t], s) = FrameAt(ts[u], r) => t = u /\ s = r

Named(ts, f) == f # 0 /\ \E t \in Tasks, s \in Slots : FrameAt(ts[t], s) = f
OwnedIn(h, ts, f) == f \in 1..KernelFrames \/ f \in FramesIn(h) \/ Named(ts, f)

(* No frame is taken for nobody, and none but those of "leak" is left      *)
(* taken when its owner goes.                                              *)
NoneLost(m, h, ts, n, g, us, leak) ==
  /\ \A f \in n.bitmap \ m.bitmap : OwnedIn(g, us, f)
  /\ \A f : OwnedIn(h, ts, f) /\ ~OwnedIn(g, us, f) => f \notin n.bitmap \/ f \in leak

LEMMA LostTwice ==
  ASSUME NEW m, NEW h, NEW ts, NEW n, NEW g, NEW us, NEW p, NEW k, NEW vs,
         NoneLost(m, h, ts, n, g, us, {}), NoneLost(n, g, us, p, k, vs, {})
  PROVE  NoneLost(m, h, ts, p, k, vs, {})
BY DEF NoneLost

LEMMA HeapGrows ==
  ASSUME NEW m, NEW h, NEW ts, FramesOk(m, h, ts), NEW n, NEW g, NEW A, MemOk(m),
         Took(m, n, A), FramesIn(g) = FramesIn(h) \cup A
  PROVE  FramesOk(n, g, ts) /\ NoneLost(m, h, ts, n, g, ts, {})
<1>1. n.bitmap = m.bitmap \cup A /\ A \cap m.bitmap = {}
  BY DEF Took
<1>2. FramesOk(n, g, ts)
  BY <1>1 DEF FramesOk
<1>3. NoneLost(m, h, ts, n, g, ts, {})
  BY <1>1 DEF NoneLost, OwnedIn
<1> QED BY <1>2, <1>3

(* The record k becomes j over frames taken between m and n, each for one  *)
(* slot that was empty.                                                    *)
Filled(k, j, A) ==
  /\ \A s \in Slots : FrameAt(j, s) = FrameAt(k, s) \/ (FrameAt(k, s) = 0 /\ FrameAt(j, s) \in A)
  /\ \A s, r \in Slots : FrameAt(j, s) \in A /\ FrameAt(j, s) = FrameAt(j, r) => s = r
  /\ \A f \in A : \E s \in Slots : FrameAt(j, s) = f
Added(m, k, n, j) == \E A : Took(m, n, A) /\ Filled(k, j, A)

(* All that a record names is taken.                                       *)
Held(m, k) == \A s \in Slots : FrameAt(k, s) = 0 \/ FrameAt(k, s) \in m.bitmap

LEMMA AddedNone ==
  ASSUME NEW m, NEW k PROVE Added(m, k, m, k)
<1>1. Filled(k, k, {})
  BY DEF Filled
<1> QED BY <1>1, TookNone DEF Added

LEMMA AddedTwice ==
  ASSUME NEW m, NEW n, NEW p, NEW k, NEW j, NEW l, Held(m, k), Added(m, k, n, j), Added(n, j, p, l)
  PROVE  Added(m, k, p, l) /\ Held(n, j)
<1>1. PICK A : Took(m, n, A) /\ Filled(k, j, A)
  BY DEF Added
<1>2. PICK B : Took(n, p, B) /\ Filled(j, l, B)
  BY DEF Added
<1>3. Took(m, p, A \cup B) /\ A \cap B = {}
  BY <1>1, <1>2, TookTwice
<1>4. 0 \notin A /\ 0 \notin B /\ A \cap m.bitmap = {} /\ B \cap n.bitmap = {} /\ n.bitmap = m.bitmap \cup A
  BY <1>1, <1>2, FrameNumbers DEF Took
<1>5. Held(n, j)
  BY <1>1, <1>4 DEF Held, Filled
<1>6. \A s \in Slots : FrameAt(l, s) = FrameAt(k, s) \/ (FrameAt(k, s) = 0 /\ FrameAt(l, s) \in A \cup B)
  BY <1>1, <1>2, <1>4 DEF Filled
<1>7. \A s, r \in Slots : FrameAt(l, s) \in A \cup B /\ FrameAt(l, s) = FrameAt(l, r) => s = r
  <2> SUFFICES ASSUME NEW s \in Slots, NEW r \in Slots, FrameAt(l, s) \in A \cup B, FrameAt(l, s) = FrameAt(l, r)
               PROVE  s = r
    OBVIOUS
  <2>1. CASE FrameAt(l, s) \in B
    BY <1>2, <2>1 DEF Filled
  <2>2. CASE FrameAt(l, s) \in A
    <3>1. FrameAt(l, s) \notin B /\ FrameAt(l, r) \notin B
      BY <1>3, <2>2
    <3>2. FrameAt(l, s) = FrameAt(j, s) /\ FrameAt(l, r) = FrameAt(j, r)
      BY <1>2, <3>1 DEF Filled
    <3> QED BY <1>1, <2>2, <3>2 DEF Filled
  <2> QED BY <2>1, <2>2
<1>8. \A f \in A \cup B : \E s \in Slots : FrameAt(l, s) = f
  <2>1. ASSUME NEW f \in A PROVE \E s \in Slots : FrameAt(l, s) = f
    <3>1. PICK s \in Slots : FrameAt(j, s) = f
      BY <1>1 DEF Filled
    <3>2. f # 0
      BY <1>4
    <3>3. FrameAt(l, s) = FrameAt(j, s)
      BY <1>2, <3>1, <3>2 DEF Filled
    <3> QED BY <3>1, <3>3
  <2>2. ASSUME NEW f \in B PROVE \E s \in Slots : FrameAt(l, s) = f
    BY <1>2 DEF Filled
  <2> QED BY <2>1, <2>2
<1>9. Filled(k, l, A \cup B)
  BY <1>6, <1>7, <1>8 DEF Filled
<1> QED BY <1>3, <1>5, <1>9 DEF Added

PutTask(ts, t, j) == [ts EXCEPT ![t] = j]

LEMMA AddedOk ==
  ASSUME NEW m, MemOk(m), NEW h, NEW ts, FramesOk(m, h, ts), NEW t \in Tasks, NEW n, NEW j,
         DOMAIN ts = Tasks, Added(m, ts[t], n, j), NEW us, us = [ts EXCEPT ![t] = j]
  PROVE  FramesOk(n, h, us) /\ NoneLost(m, h, ts, n, h, us, {})
<1>1. us[t] = j /\ \A u \in Tasks : u # t => us[u] = ts[u]
  OBVIOUS
<1>2. PICK A : Took(m, n, A) /\ Filled(ts[t], j, A)
  BY DEF Added
<1>3. n.bitmap = m.bitmap \cup A /\ A \cap m.bitmap = {} /\ 0 \notin A
  BY <1>2, FrameNumbers DEF Took
<1>4. \A f \in A : f \notin 1..KernelFrames /\ f \notin FramesIn(h)
  BY <1>3 DEF FramesOk
<1>5. \A u \in Tasks, s \in Slots : \/ FrameAt(us[u], s) = FrameAt(ts[u], s)
                                   \/ (u = t /\ FrameAt(ts[u], s) = 0 /\ FrameAt(us[u], s) \in A)
  BY <1>1, <1>2 DEF Filled
<1>6. \A u \in Tasks, s \in Slots : FrameAt(us[u], s) \in A => u = t
  BY <1>1, <1>3 DEF FramesOk
<1>7. ASSUME NEW u \in Tasks, NEW s \in Slots, FrameAt(us[u], s) # 0
      PROVE  /\ FrameAt(us[u], s) \in n.bitmap
             /\ FrameAt(us[u], s) \notin 1..KernelFrames /\ FrameAt(us[u], s) \notin FramesIn(h)
  BY <1>3, <1>4, <1>5, <1>7 DEF FramesOk
<1>8. ASSUME NEW u \in Tasks, NEW v \in Tasks, NEW s \in Slots, NEW r \in Slots,
             FrameAt(us[u], s) # 0, FrameAt(us[u], s) = FrameAt(us[v], r)
      PROVE  u = v /\ s = r
  <2>1. CASE FrameAt(us[u], s) \in A
    <3>1. u = t /\ v = t
      BY <1>6, <1>8, <2>1
    <3> QED BY <1>1, <1>2, <1>8, <2>1, <3>1 DEF Filled
  <2>2. CASE FrameAt(us[u], s) \notin A
    <3>1. FrameAt(us[u], s) = FrameAt(ts[u], s) /\ FrameAt(us[v], r) = FrameAt(ts[v], r)
      BY <1>5, <1>8, <2>2
    <3> QED BY <1>8, <3>1 DEF FramesOk
  <2> QED BY <2>1, <2>2
<1>9. FramesOk(n, h, us)
  <2>1. 1..KernelFrames \subseteq n.bitmap /\ FramesIn(h) \subseteq n.bitmap /\ FramesIn(h) \cap 1..KernelFrames = {}
    BY <1>3 DEF FramesOk
  <2> QED BY <1>7, <1>8, <2>1 DEF FramesOk
<1>10. \A f : OwnedIn(h, ts, f) => OwnedIn(h, us, f)
  <2>1. ASSUME NEW f, Named(ts, f) PROVE Named(us, f)
    <3>1. PICK u \in Tasks, s \in Slots : FrameAt(ts[u], s) = f /\ f # 0
      BY <2>1 DEF Named
    <3>2. FrameAt(us[u], s) = f
      BY <1>5, <3>1
    <3> QED BY <3>1, <3>2 DEF Named
  <2> QED BY <2>1 DEF OwnedIn
<1>11. \A f \in A : Named(us, f)
  <2> SUFFICES ASSUME NEW f \in A PROVE Named(us, f)
    OBVIOUS
  <2>1. PICK s \in Slots : FrameAt(j, s) = f
    BY <1>2 DEF Filled
  <2> QED BY <1>1, <1>3, <2>1 DEF Named
<1>12. NoneLost(m, h, ts, n, h, us, {})
  BY <1>3, <1>10, <1>11 DEF NoneLost, OwnedIn
<1> QED BY <1>9, <1>12

(* The record k becomes j: the frames G, all of emptied slots, go back; of *)
(* an emptied slot they miss those of "leak".                              *)
Emptied(k, j, G, leak) ==
  /\ \A s \in Slots : FrameAt(j, s) = FrameAt(k, s) \/ FrameAt(j, s) = 0
  /\ \A f \in G : \E s \in Slots : FrameAt(k, s) = f /\ f # 0 /\ FrameAt(j, s) = 0
  /\ \A s \in Slots : FrameAt(k, s) # 0 /\ FrameAt(j, s) = 0 => FrameAt(k, s) \in G \cup leak

LEMMA EmptiedOk ==
  ASSUME NEW m, MemOk(m), NEW h, NEW ts, FramesOk(m, h, ts), NEW t \in Tasks, NEW n, NEW j, NEW G, NEW leak,
         DOMAIN ts = Tasks, Emptied(ts[t], j, G, leak), n.bitmap = m.bitmap \ G,
         NEW us, us = PutTask(ts, t, j)
  PROVE  FramesOk(n, h, us) /\ NoneLost(m, h, ts, n, h, us, leak)
<1>1. us[t] = j /\ \A u \in Tasks : u # t => us[u] = ts[u]
  BY DEF PutTask
<1>2. \A u \in Tasks, s \in Slots : FrameAt(us[u], s) # 0 => FrameAt(us[u], s) = FrameAt(ts[u], s)
  BY <1>1 DEF Emptied
<1>3. \A f \in G : \E s \in Slots : FrameAt(ts[t], s) = f /\ f # 0 /\ FrameAt(us[t], s) = 0
  BY <1>1 DEF Emptied
<1>4. ASSUME NEW u \in Tasks, NEW s \in Slots, FrameAt(us[u], s) # 0 PROVE FrameAt(us[u], s) \notin G
  <2> SUFFICES ASSUME FrameAt(us[u], s) \in G PROVE FALSE
    OBVIOUS
  <2>1. PICK r \in Slots : FrameAt(ts[t], r) = FrameAt(us[u], s) /\ FrameAt(us[t], r) = 0
    BY <1>3
  <2>2. FrameAt(us[u], s) = FrameAt(ts[u], s)
    BY <1>2, <1>4
  <2>3. t = u /\ r = s
    BY <1>4, <2>1, <2>2 DEF FramesOk
  <2> QED BY <1>4, <2>1, <2>3
<1>5. \A f \in G : f \notin 1..KernelFrames /\ f \notin FramesIn(h)
  BY <1>3 DEF FramesOk
<1>6. FramesOk(n, h, us)
  <2>1. 1..KernelFrames \subseteq n.bitmap /\ FramesIn(h) \subseteq n.bitmap /\ FramesIn(h) \cap 1..KernelFrames = {}
    BY <1>5 DEF FramesOk
  <2>2. ASSUME NEW u \in Tasks, NEW s \in Slots, FrameAt(us[u], s) # 0
        PROVE  /\ FrameAt(us[u], s) \in n.bitmap
               /\ FrameAt(us[u], s) \notin 1..KernelFrames /\ FrameAt(us[u], s) \notin FramesIn(h)
    BY <1>2, <1>4, <2>2 DEF FramesOk
  <2>3. ASSUME NEW u \in Tasks, NEW v \in Tasks, NEW s \in Slots, NEW r \in Slots,
               FrameAt(us[u], s) # 0, FrameAt(us[u], s) = FrameAt(us[v], r)
        PROVE  u = v /\ s = r
    <3>1. FrameAt(us[u], s) = FrameAt(ts[u], s) /\ FrameAt(us[v], r) = FrameAt(ts[v], r)
      BY <1>2, <2>3
    <3>2. FrameAt(ts[u], s) # 0 /\ FrameAt(ts[u], s) = FrameAt(ts[v], r)
      BY <2>3, <3>1
    <3> QED BY <3>2 DEF FramesOk
  <2> QED BY <2>1, <2>2, <2>3 DEF FramesOk
<1>7. ASSUME NEW f, OwnedIn(h, ts, f), ~OwnedIn(h, us, f) PROVE f \notin n.bitmap \/ f \in leak
  <2>1. PICK u \in Tasks, s \in Slots : f # 0 /\ FrameAt(ts[u], s) = f
    BY <1>7 DEF OwnedIn, Named
  <2>2. FrameAt(us[u], s) # f
    BY <1>7, <2>1 DEF OwnedIn, Named
  <2>3. u = t /\ FrameAt(j, s) = 0 /\ FrameAt(ts[t], s) = f
    BY <1>1, <2>1, <2>2 DEF Emptied
  <2>4. f \in G \cup leak
    BY <2>1, <2>3 DEF Emptied
  <2> QED BY <2>4
<1>8. NoneLost(m, h, ts, n, h, us, leak)
  BY <1>7 DEF NoneLost
<1> QED BY <1>6, <1>8

LEMMA SlotKinds ==
  /\ \A s \in Slots : \/ s \in {<<"dir", 0>>, <<"table", 0>>, <<"page", 0>>, <<"window", 0>>}
                      \/ \E i \in BrkTables : s = <<"ptab", i>>
                      \/ \E v \in 0..BrkMax - 1 : s = <<"pte", v>>
  /\ {<<"dir", 0>>, <<"table", 0>>, <<"page", 0>>, <<"window", 0>>} \subseteq Slots
  /\ \A i \in BrkTables : <<"ptab", i>> \in Slots
  /\ \A v \in 0..BrkMax - 1 : <<"pte", v>> \in Slots
BY DEF Slots

LEMMA SlotFrames ==
  ASSUME NEW k
  PROVE  /\ FrameAt(k, <<"dir", 0>>) = k.dir /\ FrameAt(k, <<"table", 0>>) = k.table
         /\ FrameAt(k, <<"page", 0>>) = k.page /\ FrameAt(k, <<"window", 0>>) = k.window
         /\ \A i : FrameAt(k, <<"ptab", i>>) = k.ptab[i]
         /\ \A v : FrameAt(k, <<"pte", v>>) = k.pte[v]
BY DEF FrameAt

(* paging_new_task_directory.                                              *)
LEMMA NewDirectoryFact ==
  ASSUME NEW m, MemOk(m), NEW d, d = NewDirectory(m)
  PROVE  /\ MemOk(d.mem)
         /\ \/ d.dir = 0 /\ Took(m, d.mem, {})
            \/ /\ {d.dir, d.table, d.page} \subseteq Frames
               /\ d.dir # d.table /\ d.dir # d.page /\ d.table # d.page
               /\ Took(m, d.mem, {d.dir, d.table, d.page}) /\ d.copied = d.mem.pdes
<1> PICK x : x = GrabMapped(m)
  OBVIOUS
<1> PICK y : y = GrabMapped(x.mem)
  OBVIOUS
<1> PICK z : z = Grab(y.mem)
  OBVIOUS
<1>1. MemOk(x.mem) /\ ((x.frame = 0 /\ Took(m, x.mem, {})) \/ (x.frame \in Frames /\ Took(m, x.mem, {x.frame})))
  BY GrabMappedFact
<1>2. MemOk(y.mem) /\ ((y.frame = 0 /\ Took(x.mem, y.mem, {})) \/ (y.frame \in Frames /\ Took(x.mem, y.mem, {y.frame})))
  BY <1>1, GrabMappedFact
<1>3. /\ MemOk(z.mem) /\ z.mem.pdes = y.mem.pdes
      /\ (z.frame = 0 /\ z.mem = y.mem) \/ (z.frame \in Frames /\ Took(y.mem, z.mem, {z.frame}))
  BY <1>2, GrabFact
<1>4. CASE x.frame = 0
  <2>1. d.mem = x.mem /\ d.dir = 0
    BY <1>4, Zenon DEF NewDirectory, NoDirectory
  <2> QED BY <1>1, <1>4, <2>1, FrameNumbers
<1>5. CASE x.frame # 0 /\ y.frame = 0
  <2>1. d = NoDirectory(GiveBack(y.mem, {x.frame}))
    BY <1>5, Zenon DEF NewDirectory
  <2>2. d.mem = GiveBack(y.mem, {x.frame}) /\ d.dir = 0
    BY <2>1 DEF NoDirectory
  <2>3. Took(m, y.mem, {x.frame} \cup {})
    BY <1>1, <1>2, <1>5, FrameNumbers, TookTwice
  <2>4. Took(m, y.mem, {x.frame}) /\ {x.frame} \ {x.frame} = {}
    BY <2>3
  <2>5. MemOk(GiveBack(y.mem, {x.frame})) /\ Took(m, GiveBack(y.mem, {x.frame}), {x.frame} \ {x.frame})
    BY <1>2, <2>4, TookBack
  <2> QED BY <2>2, <2>4, <2>5
<1>6. CASE x.frame # 0 /\ y.frame # 0
  <2>1. Took(m, y.mem, {x.frame, y.frame}) /\ x.frame # y.frame
    <3>1. Took(m, y.mem, {x.frame} \cup {y.frame}) /\ {x.frame} \cap {y.frame} = {}
      BY <1>1, <1>2, <1>6, TookTwice
    <3>2. {x.frame} \cup {y.frame} = {x.frame, y.frame}
      OBVIOUS
    <3> QED BY <3>1, <3>2
  <2>2. CASE z.frame = 0
    <3>1. d = NoDirectory(GiveBack(z.mem, {x.frame, y.frame}))
      BY <1>6, <2>2, Zenon DEF NewDirectory
    <3>2. d.mem = GiveBack(z.mem, {x.frame, y.frame}) /\ d.dir = 0
      BY <3>1 DEF NoDirectory
    <3>3. z.mem = y.mem
      BY <1>3, <2>2, FrameNumbers
    <3>4. /\ MemOk(GiveBack(y.mem, {x.frame, y.frame}))
          /\ Took(m, GiveBack(y.mem, {x.frame, y.frame}), {x.frame, y.frame} \ {x.frame, y.frame})
      BY <1>2, <2>1, TookBack
    <3>5. {x.frame, y.frame} \ {x.frame, y.frame} = {}
      OBVIOUS
    <3> QED BY <3>2, <3>3, <3>4, <3>5
  <2>3. CASE z.frame # 0
    <3>1. d = [mem |-> z.mem, dir |-> x.frame, table |-> y.frame, page |-> z.frame, copied |-> Copied(x, y)]
      BY <1>6, <2>3, Zenon DEF NewDirectory
    <3>2. /\ d.mem = z.mem /\ d.dir = x.frame /\ d.table = y.frame /\ d.page = z.frame
          /\ d.copied = d.mem.pdes
      BY <1>3, <3>1 DEF Copied
    <3>3. Took(m, z.mem, {x.frame, y.frame} \cup {z.frame}) /\ {x.frame, y.frame} \cap {z.frame} = {}
      BY <1>3, <2>1, <2>3, TookTwice
    <3>4. {x.frame, y.frame} \cup {z.frame} = {d.dir, d.table, d.page}
      BY <3>2
    <3>5. d.dir # d.page /\ d.table # d.page /\ d.dir # d.table
      BY <2>1, <3>2, <3>3
    <3>6. {d.dir, d.table, d.page} \subseteq Frames
      BY <1>1, <1>2, <1>3, <1>6, <2>3, <3>2
    <3>7. Took(m, d.mem, {d.dir, d.table, d.page}) /\ MemOk(d.mem)
      BY <1>3, <3>2, <3>3, <3>4
    <3> QED BY <3>2, <3>5, <3>6, <3>7
  <2> QED BY <2>2, <2>3
<1> QED BY <1>4, <1>5, <1>6

-----------------------------------------------------------------------------
(* SYS_BRK's pages.                                                        *)

LEMMA DivisionFact ==
  ASSUME NEW w \in Nat, NEW n \in Nat, n >= 1
  PROVE  w \div n \in Nat /\ (w \div n) * n <= w /\ w < (w \div n) * n + n
BY Z3

LEMMA TableFact ==
  ASSUME NEW v \in 0..BrkMax - 1
  PROVE  TableOf(v) \in BrkTables
<1> PICK b \in Nat : b = BrkMax - 1
  BY Sizing
<1> PICK n \in Nat : n = TablePages
  BY Sizing
<1>0. v \in Nat /\ v <= b /\ n >= 1
  BY Sizing
<1> PICK q \in Nat : q = v \div n
  BY <1>0, DivisionFact
<1> PICK p \in Nat : p = b \div n
  BY <1>0, DivisionFact
<1>1. q * n <= v /\ v < q * n + n /\ p * n <= b /\ b < p * n + n
  BY <1>0, DivisionFact
<1>2. ~(p < q)
  <2> SUFFICES ASSUME p < q PROVE FALSE
    OBVIOUS
  <2>1. PICK d \in Nat : q = p + 1 + d
    <3>1. q - p - 1 \in Nat /\ q = p + 1 + (q - p - 1)
      OBVIOUS
    <3> QED BY <3>1
  <2>2. q * n = p * n + n + d * n /\ d * n \in Nat /\ p * n \in Nat /\ q * n \in Nat
    BY <2>1
  <2> QED BY <1>0, <1>1, <2>2
<1>3. q \in 0..p
  BY <1>2
<1> QED BY <1>3 DEF TableOf, BrkTables

(* One slot filled with a frame just taken; none filled.                   *)
LEMMA FillSlot ==
  ASSUME NEW m, NEW n, NEW k, NEW j, NEW f, NEW s \in Slots, Held(m, k), Took(m, n, {f}),
         FrameAt(k, s) = 0, FrameAt(j, s) = f,
         \A r \in Slots : r # s => FrameAt(j, r) = FrameAt(k, r)
  PROVE  Added(m, k, n, j)
<1>1. f \notin m.bitmap /\ f # 0
  BY FrameNumbers DEF Took
<1>2. \A r \in Slots : FrameAt(k, r) # f
  BY <1>1 DEF Held
<1>3. Filled(k, j, {f})
  BY <1>2 DEF Filled
<1> QED BY <1>3 DEF Added

LEMMA FillNone ==
  ASSUME NEW m, NEW n, NEW k, Took(m, n, {})
  PROVE  Added(m, k, n, k)
<1>1. Filled(k, k, {})
  BY DEF Filled
<1> QED BY <1>1 DEF Added

MapState == [mem : MemShape, ptab : [BrkTables -> MaybeFrame], pte : [0..BrkMax - 1 -> MaybeFrame],
             mapped : Nat, ok : BOOLEAN]
With(k, s) == [k EXCEPT !.ptab = s.ptab, !.pte = s.pte]

(* What the loop of brk_set keeps: pages mapped in one run from "have".    *)
MapKept(m, k, have, s) ==
  /\ s \in MapState /\ MemOk(s.mem)
  /\ Held(s.mem, With(k, s)) /\ Added(m, k, s.mem, With(k, s))
  /\ \A v \in 0..BrkMax - 1 : /\ s.pte[v] # 0 <=> v < have + s.mapped
                              /\ v < have + s.mapped => s.ptab[TableOf(v)] # 0

LEMMA WithFact ==
  ASSUME NEW k \in TaskRec, NEW s \in MapState
  PROVE  /\ With(k, s) \in TaskRec
         /\ \A i \in BrkTables : FrameAt(With(k, s), <<"ptab", i>>) = s.ptab[i]
         /\ \A v \in 0..BrkMax - 1 : FrameAt(With(k, s), <<"pte", v>>) = s.pte[v]
         /\ \A r \in {<<"dir", 0>>, <<"table", 0>>, <<"page", 0>>, <<"window", 0>>} :
              FrameAt(With(k, s), r) = FrameAt(k, r)
<1> PICK j : j = With(k, s)
  OBVIOUS
<1>1. /\ j \in TaskRec /\ j.ptab = s.ptab /\ j.pte = s.pte
      /\ j.dir = k.dir /\ j.table = k.table /\ j.page = k.page /\ j.window = k.window
  BY DEF With, TaskRec, MapState
<1> QED BY <1>1, SlotFrames

(* A state with one more slot filled.                                      *)
LEMMA WithOne ==
  ASSUME NEW k \in TaskRec, NEW s \in MapState, NEW r \in MapState, NEW f, Took(s.mem, r.mem, {f}),
         Held(s.mem, With(k, s)),
         \/ \E i \in BrkTables : s.ptab[i] = 0 /\ r.ptab = [s.ptab EXCEPT ![i] = f] /\ r.pte = s.pte
         \/ \E v \in 0..BrkMax - 1 : s.pte[v] = 0 /\ r.pte = [s.pte EXCEPT ![v] = f] /\ r.ptab = s.ptab
  PROVE  Added(s.mem, With(k, s), r.mem, With(k, r))
<1> PICK a : a = With(k, s)
  OBVIOUS
<1> PICK b : b = With(k, r)
  OBVIOUS
<1>1. /\ \A i \in BrkTables : FrameAt(a, <<"ptab", i>>) = s.ptab[i] /\ FrameAt(b, <<"ptab", i>>) = r.ptab[i]
      /\ \A v \in 0..BrkMax - 1 : FrameAt(a, <<"pte", v>>) = s.pte[v] /\ FrameAt(b, <<"pte", v>>) = r.pte[v]
      /\ \A x \in {<<"dir", 0>>, <<"table", 0>>, <<"page", 0>>, <<"window", 0>>} : FrameAt(a, x) = FrameAt(b, x)
  BY WithFact
<1>2. s.ptab \in [BrkTables -> MaybeFrame] /\ s.pte \in [0..BrkMax - 1 -> MaybeFrame]
  BY DEF MapState
<1>3. CASE \E i \in BrkTables : s.ptab[i] = 0 /\ r.ptab = [s.ptab EXCEPT ![i] = f] /\ r.pte = s.pte
  <2>p. PICK i \in BrkTables : s.ptab[i] = 0 /\ r.ptab = [s.ptab EXCEPT ![i] = f] /\ r.pte = s.pte
    BY <1>3
  <2>1. r.ptab[i] = f /\ \A e \in BrkTables : e # i => r.ptab[e] = s.ptab[e]
    BY <1>2, <2>p
  <2>2. PICK y \in Slots : y = <<"ptab", i>>
    BY <2>p, SlotKinds
  <2>3. FrameAt(a, y) = 0 /\ FrameAt(b, y) = f
    BY <1>1, <2>p, <2>1, <2>2
  <2>4. \A x \in Slots : x # y => FrameAt(b, x) = FrameAt(a, x)
    BY <1>1, <2>p, <2>1, <2>2, SlotKinds
  <2>5. y \in Slots
    BY <2>2
  <2>6. Added(s.mem, a, r.mem, b)
    BY <2>3, <2>4, <2>5, FillSlot
  <2> QED BY <2>6
<1>4. CASE \E v \in 0..BrkMax - 1 : s.pte[v] = 0 /\ r.pte = [s.pte EXCEPT ![v] = f] /\ r.ptab = s.ptab
  <2>p. PICK v \in 0..BrkMax - 1 : s.pte[v] = 0 /\ r.pte = [s.pte EXCEPT ![v] = f] /\ r.ptab = s.ptab
    BY <1>4
  <2>1. r.pte[v] = f /\ \A e \in 0..BrkMax - 1 : e # v => r.pte[e] = s.pte[e]
    BY <1>2, <2>p
  <2>2. PICK y \in Slots : y = <<"pte", v>>
    BY <2>p, SlotKinds
  <2>3. FrameAt(a, y) = 0 /\ FrameAt(b, y) = f
    BY <1>1, <2>p, <2>1, <2>2
  <2>4. \A x \in Slots : x # y => FrameAt(b, x) = FrameAt(a, x)
    BY <1>1, <2>p, <2>1, <2>2, SlotKinds
  <2>5. y \in Slots
    BY <2>2
  <2>6. Added(s.mem, a, r.mem, b)
    BY <2>3, <2>4, <2>5, FillSlot
  <2> QED BY <2>6
<1> QED BY <1>3, <1>4

LEMMA AddedHeld ==
  ASSUME NEW m, NEW n, NEW k, NEW j, Held(m, k), Added(m, k, n, j)
  PROVE  Held(n, j)
<1>1. PICK A : Took(m, n, A) /\ Filled(k, j, A)
  BY DEF Added
<1>2. n.bitmap = m.bitmap \cup A
  BY <1>1 DEF Took
<1> QED BY <1>1, <1>2 DEF Held, Filled

(* What one turn of the loop does to its state: nothing but the bitmap,    *)
(* a table made, a page mapped.                                            *)
SamePages(s, r) == r \in MapState /\ MemOk(r.mem) /\ r.ptab = s.ptab /\ r.pte = s.pte /\ r.mapped = s.mapped
TableMade(s, i, f, r) ==
  /\ r \in MapState /\ MemOk(r.mem) /\ r.ptab = [s.ptab EXCEPT ![i] = f] /\ r.pte = s.pte /\ r.mapped = s.mapped
  /\ r.ok = s.ok
PageMade(s, v, f, r) ==
  r \in MapState /\ MemOk(r.mem) /\ r.ptab = s.ptab /\ r.pte = [s.pte EXCEPT ![v] = f] /\ r.mapped = s.mapped + 1

LEMMA KeptOnly ==
  ASSUME NEW m, NEW k \in TaskRec, NEW have \in Nat, NEW s, Held(m, k), MapKept(m, k, have, s),
         NEW r, Took(s.mem, r.mem, {}), SamePages(s, r)
  PROVE  MapKept(m, k, have, r)
<1>1. With(k, r) = With(k, s)
  BY DEF With, SamePages
<1>2. Added(s.mem, With(k, s), r.mem, With(k, s))
  BY FillNone
<1>3. Held(s.mem, With(k, s)) /\ Added(m, k, s.mem, With(k, s))
  BY DEF MapKept
<1>4. Added(m, k, r.mem, With(k, s)) /\ Held(r.mem, With(k, s))
  BY <1>2, <1>3, AddedTwice, AddedHeld
<1>5. Added(m, k, r.mem, With(k, r)) /\ Held(r.mem, With(k, r))
  BY <1>1, <1>4
<1> QED BY <1>5 DEF MapKept, SamePages

LEMMA KeptTable ==
  ASSUME NEW m, NEW k \in TaskRec, NEW have \in Nat, NEW s, Held(m, k), MapKept(m, k, have, s),
         NEW r, NEW f \in Frames, Took(s.mem, r.mem, {f}), NEW i \in BrkTables, s.ptab[i] = 0,
         TableMade(s, i, f, r)
  PROVE  MapKept(m, k, have, r) /\ r.ptab[i] # 0
<1>1. s \in MapState /\ r \in MapState
  BY DEF MapKept, TableMade
<1>2. s.ptab \in [BrkTables -> MaybeFrame]
  BY <1>1 DEF MapState
<1>3. Added(s.mem, With(k, s), r.mem, With(k, r))
  BY <1>1, WithOne DEF MapKept, TableMade
<1>4. Held(s.mem, With(k, s)) /\ Added(m, k, s.mem, With(k, s))
  BY DEF MapKept
<1>5. Added(m, k, r.mem, With(k, r)) /\ Held(r.mem, With(k, r))
  BY <1>3, <1>4, AddedTwice, AddedHeld
<1>6. r.ptab[i] = f /\ f # 0 /\ \A e \in BrkTables : s.ptab[e] # 0 => r.ptab[e] # 0
  BY <1>2, FrameNumbers DEF TableMade
<1>7. r.pte = s.pte /\ r.mapped = s.mapped
  BY DEF TableMade
<1>8. \A v \in 0..BrkMax - 1 : /\ r.pte[v] # 0 <=> v < have + r.mapped
                               /\ v < have + r.mapped => r.ptab[TableOf(v)] # 0
  BY <1>6, <1>7, TableFact DEF MapKept
<1> QED BY <1>5, <1>6, <1>8 DEF MapKept, TableMade

LEMMA KeptPage ==
  ASSUME NEW m, NEW k \in TaskRec, NEW have \in Nat, NEW s, Held(m, k), MapKept(m, k, have, s),
         NEW r, NEW f \in Frames, Took(s.mem, r.mem, {f}), NEW v \in 0..BrkMax - 1, v = have + s.mapped,
         s.ptab[TableOf(v)] # 0, PageMade(s, v, f, r)
  PROVE  MapKept(m, k, have, r)
<1>1. s \in MapState /\ r \in MapState
  BY DEF MapKept, PageMade
<1>2. s.pte \in [0..BrkMax - 1 -> MaybeFrame] /\ s.mapped \in Nat
  BY <1>1 DEF MapState
<1>3. s.pte[v] = 0
  BY <1>2 DEF MapKept
<1>4. Added(s.mem, With(k, s), r.mem, With(k, r))
  BY <1>1, <1>3, WithOne DEF MapKept, PageMade
<1>5. Held(s.mem, With(k, s)) /\ Added(m, k, s.mem, With(k, s))
  BY DEF MapKept
<1>6. Added(m, k, r.mem, With(k, r)) /\ Held(r.mem, With(k, r))
  BY <1>4, <1>5, AddedTwice, AddedHeld
<1>7. r.ptab = s.ptab /\ r.mapped = s.mapped + 1
  BY DEF PageMade
<1>8. r.pte[v] = f /\ f # 0 /\ \A e \in 0..BrkMax - 1 : e # v => r.pte[e] = s.pte[e]
  BY <1>2, FrameNumbers DEF PageMade
<1>9. \A e \in 0..BrkMax - 1 : e < have + r.mapped <=> (e < have + s.mapped \/ e = v)
  BY <1>2, <1>7
<1>10. ASSUME NEW e \in 0..BrkMax - 1
       PROVE  /\ r.pte[e] # 0 <=> e < have + r.mapped
              /\ e < have + r.mapped => r.ptab[TableOf(e)] # 0
  <2>1. CASE e = v
    BY <1>7, <1>8, <1>9, <2>1
  <2>2. CASE e # v
    <3>1. (e < have + r.mapped <=> e < have + s.mapped) /\ r.pte[e] = s.pte[e] /\ r.ptab = s.ptab
      BY <1>7, <1>8, <1>9, <2>2
    <3> QED BY <3>1 DEF MapKept
  <2> QED BY <2>1, <2>2
<1> QED BY <1>6, <1>10 DEF MapKept, PageMade

MemTo(s, n) == [s EXCEPT !.mem = n, !.ok = FALSE]
TableTo(s, n, i, f) == [s EXCEPT !.mem = n, !.ptab = [s.ptab EXCEPT ![i] = f]]
PageTo(s, n, v, f) == [s EXCEPT !.mem = n, !.pte = [s.pte EXCEPT ![v] = f], !.mapped = s.mapped + 1]

LEMMA MemChanged ==
  ASSUME NEW s \in MapState, NEW n, MemOk(n), NEW r, r = MemTo(s, n)
  PROVE  SamePages(s, r) /\ r.mem = n /\ r.ok = FALSE
<1>1. n \in MemShape
  BY DEF MemOk
<1>2. r \in MapState /\ r.mem = n /\ r.ok = FALSE /\ r.ptab = s.ptab /\ r.pte = s.pte /\ r.mapped = s.mapped
  BY <1>1 DEF MapState, MemTo
<1> QED BY <1>2 DEF SamePages

LEMMA TableChanged ==
  ASSUME NEW s \in MapState, NEW n, MemOk(n), NEW i \in BrkTables, NEW f \in Frames
  PROVE  TableMade(s, i, f, TableTo(s, n, i, f)) /\ TableTo(s, n, i, f).mem = n
<1> PICK r : r = TableTo(s, n, i, f)
  OBVIOUS
<1>1. n \in MemShape /\ s.ptab \in [BrkTables -> MaybeFrame]
  BY DEF MemOk, MapState
<1>2. [s.ptab EXCEPT ![i] = f] \in [BrkTables -> MaybeFrame]
  BY <1>1 DEF MaybeFrame
<1> PICK g \in [BrkTables -> MaybeFrame] : g = [s.ptab EXCEPT ![i] = f]
  BY <1>2
<1>3. r = [s EXCEPT !.mem = n, !.ptab = g]
  BY DEF TableTo
<1>4. r \in MapState /\ r.mem = n /\ r.ok = s.ok /\ r.ptab = g /\ r.pte = s.pte /\ r.mapped = s.mapped
  BY <1>1, <1>3 DEF MapState
<1> QED BY <1>4 DEF TableMade

LEMMA PageChanged ==
  ASSUME NEW s \in MapState, NEW n, MemOk(n), NEW v \in 0..BrkMax - 1, NEW f \in Frames, NEW r,
         r = PageTo(s, n, v, f)
  PROVE  PageMade(s, v, f, r) /\ r.mem = n /\ r.ok = s.ok
<1>1. n \in MemShape /\ s.pte \in [0..BrkMax - 1 -> MaybeFrame] /\ s.mapped \in Nat
  BY DEF MemOk, MapState
<1>2. [s.pte EXCEPT ![v] = f] \in [0..BrkMax - 1 -> MaybeFrame] /\ s.mapped + 1 \in Nat
  BY <1>1 DEF MaybeFrame
<1> PICK g \in [0..BrkMax - 1 -> MaybeFrame] : g = [s.pte EXCEPT ![v] = f]
  BY <1>2
<1>3. r = [s EXCEPT !.mem = n, !.pte = g, !.mapped = s.mapped + 1]
  BY DEF PageTo
<1>4. r \in MapState /\ r.mem = n /\ r.ok = s.ok /\ r.ptab = s.ptab /\ r.pte = g /\ r.mapped = s.mapped + 1
  BY <1>1, <1>2, <1>3 DEF MapState
<1> QED BY <1>4 DEF PageMade

Turned(s, r) == r.mapped = (IF r.ok THEN s.mapped + 1 ELSE s.mapped)

LEMMA MapOneFact ==
  ASSUME NEW m, NEW k \in TaskRec, NEW have \in Nat, NEW s, Held(m, k), MapKept(m, k, have, s),
         NEW v \in 0..BrkMax - 1, v = have + s.mapped, NEW r, r = MapOne(s, v), s.ok = TRUE
  PROVE  MapKept(m, k, have, r) /\ Turned(s, r)
<1>i. PICK i \in BrkTables : i = TableOf(v)
  BY TableFact
<1>t. PICK t : t = IF s.ptab[i] # 0 THEN [mem |-> s.mem, frame |-> s.ptab[i]] ELSE GrabMapped(s.mem)
  OBVIOUS
<1>p. PICK p : p = GrabMapped(t.mem)
  OBVIOUS
<1>0. s \in MapState /\ MemOk(s.mem) /\ s.ptab \in [BrkTables -> MaybeFrame] /\ s.pte \in [0..BrkMax - 1 -> MaybeFrame]
  BY DEF MapKept, MapState
<1>s. s \in MapState
  BY DEF MapKept
<1>1. r = IF t.frame = 0 THEN [s EXCEPT !.mem = t.mem, !.ok = FALSE]
          ELSE IF p.frame = 0 THEN [s EXCEPT !.mem = p.mem, !.ptab[i] = t.frame, !.ok = FALSE]
          ELSE [s EXCEPT !.mem = p.mem, !.ptab[i] = t.frame, !.pte[v] = p.frame, !.mapped = @ + 1]
  BY <1>i, <1>t, <1>p DEF MapOne
<1>2. CASE t.frame = 0
  <2>1. s.ptab[i] = 0 /\ t = GrabMapped(s.mem)
    BY <1>2, <1>i, <1>t, FrameNumbers
  <2>2. MemOk(t.mem) /\ Took(s.mem, t.mem, {})
    BY <1>0, <1>2, <2>1, GrabMappedFact, FrameNumbers
  <2>3. r = MemTo(s, t.mem)
    BY <1>1, <1>2 DEF MemTo
  <2>4. SamePages(s, r) /\ r.mem = t.mem /\ r.ok = FALSE
    BY ZenonT(60), <1>s, <2>2, <2>3, MemChanged
  <2>5. MapKept(m, k, have, r)
    BY <2>2, <2>4, KeptOnly
  <2> QED BY <2>4, <2>5 DEF SamePages, Turned
<1>3. CASE t.frame # 0
  <2>q. PICK q : q = TableTo(s, t.mem, i, t.frame)
    OBVIOUS
  <2>1. /\ MapKept(m, k, have, q) /\ q.mapped = s.mapped /\ q.ok = s.ok /\ q.mem = t.mem /\ q.ptab[i] # 0
    <3>1. CASE s.ptab[i] # 0
      <4>1. t.mem = s.mem /\ t.frame = s.ptab[i]
        BY <3>1, <1>t
      <4>2. q = s
        <5>1. [s.ptab EXCEPT ![i] = s.ptab[i]] = s.ptab
          BY <1>0
        <5> QED BY <1>0, <2>q, <4>1, <5>1 DEF MapState, TableTo
      <4> QED BY <3>1, <4>1, <4>2
    <3>2. CASE s.ptab[i] = 0
      <4>1. t = GrabMapped(s.mem)
        BY <3>2, <1>t
      <4>2. MemOk(t.mem) /\ t.frame \in Frames /\ Took(s.mem, t.mem, {t.frame})
        BY <1>0, <1>3, <4>1, GrabMappedFact
      <4>3. TableMade(s, i, t.frame, q) /\ q.mem = t.mem
        BY <1>s, <1>i, <2>q, <4>2, TableChanged
      <4>4. Took(s.mem, q.mem, {t.frame})
        BY <4>2, <4>3
      <4>5. MapKept(m, k, have, q) /\ q.ptab[i] # 0
        BY <1>i, <3>2, <4>2, <4>3, <4>4, KeptTable
      <4> QED BY <4>3, <4>5 DEF TableMade
    <3> QED BY <3>1, <3>2
  <2>2. MemOk(t.mem) /\ q \in MapState
    BY <2>1 DEF MapKept
  <2>3. /\ MemOk(p.mem)
        /\ (p.frame = 0 /\ Took(t.mem, p.mem, {})) \/ (p.frame \in Frames /\ Took(t.mem, p.mem, {p.frame}))
    BY <1>p, <2>2, GrabMappedFact
  <2>5. CASE p.frame = 0
    <3>1. Took(q.mem, p.mem, {})
      BY <2>1, <2>3, <2>5, FrameNumbers
    <3>2. r = MemTo(q, p.mem)
      <4>1. r = [s EXCEPT !.mem = p.mem, !.ptab[i] = t.frame, !.ok = FALSE]
        BY <1>1, <1>3, <2>5
      <4> QED BY <1>0, <2>q, <4>1 DEF MapState, MemTo, TableTo
    <3>3. SamePages(q, r) /\ r.mem = p.mem /\ r.ok = FALSE
      BY ZenonT(60), <2>2, <2>3, <3>2, MemChanged
    <3>4. MapKept(m, k, have, r)
      BY <2>1, <3>1, <3>3, KeptOnly
    <3> QED BY <2>1, <3>3, <3>4 DEF SamePages, Turned
  <2>6. CASE p.frame # 0
    <3>1. Took(q.mem, p.mem, {p.frame}) /\ p.frame \in Frames
      BY <2>1, <2>3, <2>6
    <3>2. r = PageTo(q, p.mem, v, p.frame)
      <4>1. r = [s EXCEPT !.mem = p.mem, !.ptab[i] = t.frame, !.pte[v] = p.frame, !.mapped = @ + 1]
        BY <1>1, <1>3, <2>6
      <4> QED BY <1>0, <2>q, <4>1 DEF MapState, PageTo, TableTo
    <3>3. PageMade(q, v, p.frame, r) /\ r.mem = p.mem /\ r.ok = q.ok
      BY <2>2, <2>3, <3>1, <3>2, PageChanged
    <3>4. v = have + q.mapped /\ q.ptab[TableOf(v)] # 0
      BY <1>i, <2>1
    <3>5. Took(q.mem, r.mem, {p.frame})
      BY <3>1, <3>3
    <3>6. MapKept(m, k, have, r)
      BY <2>1, <3>1, <3>3, <3>4, <3>5, KeptPage
    <3> QED BY <2>1, <3>3, <3>6 DEF PageMade, Turned
  <2> QED BY <2>5, <2>6
<1> QED BY <1>2, <1>3

MapTurn(a, v) == IF a.ok THEN MapOne(a, v) ELSE a
MapRunIs(s0, from, n, s) == s = [i \in 0..n |-> IF i = 0 THEN s0 ELSE MapTurn(s[i - 1], from + i - 1)]

LEMMA MapRunExists ==
  ASSUME NEW s0, NEW from, NEW n \in Nat
  PROVE  \E s : MapRunIs(s0, from, n, s)
<1> DEFINE Good == {m \in Nat : \E s : MapRunIs(s0, from, m, s)}
<1>1. 0 \in Good
  <2> PICK s : s = [i \in 0..0 |-> s0]
    OBVIOUS
  <2>1. \A i \in 0..0 : i = 0
    OBVIOUS
  <2>2. s = [i \in 0..0 |-> IF i = 0 THEN s0 ELSE MapTurn(s[i - 1], from + i - 1)]
    BY <2>1
  <2> QED BY <2>2 DEF MapRunIs
<1>2. ASSUME NEW m \in 0..(n - 1), m \in Good PROVE m + 1 \in Good
  <2>1. PICK g : MapRunIs(s0, from, m, g)
    BY <1>2
  <2>2. PICK s : s = [i \in 0..(m + 1) |-> IF i \in 0..m THEN g[i] ELSE MapTurn(g[i - 1], from + i - 1)]
    OBVIOUS
  <2>3. \A i \in 0..(m + 1) : s[i] = IF i = 0 THEN s0 ELSE MapTurn(s[i - 1], from + i - 1)
    <3> SUFFICES ASSUME NEW i \in 0..(m + 1)
                 PROVE  s[i] = IF i = 0 THEN s0 ELSE MapTurn(s[i - 1], from + i - 1)
      OBVIOUS
    <3>1. i # 0 => i - 1 \in 0..m /\ i - 1 \in 0..(m + 1)
      OBVIOUS
    <3>2. i \notin 0..m => i # 0
      OBVIOUS
    <3>3. i \in 0..m => g[i] = IF i = 0 THEN s0 ELSE MapTurn(g[i - 1], from + i - 1)
      BY <2>1 DEF MapRunIs
    <3> QED BY <2>2, <3>1, <3>2, <3>3
  <2>4. s = [i \in 0..(m + 1) |-> IF i = 0 THEN s0 ELSE MapTurn(s[i - 1], from + i - 1)]
    BY <2>2, <2>3
  <2> QED BY <2>4 DEF MapRunIs
<1> HIDE DEF Good
<1>3. n \in Good
  BY <1>1, <1>2, UpFromZero
<1> QED BY <1>3 DEF Good

AllMapped(r, n) == r.mapped <= n /\ (r.ok = TRUE => r.mapped = n)

(* The loop of brk_set: it maps as many pages as it made good turns.       *)
LEMMA MapRunFact ==
  ASSUME NEW m, NEW k \in TaskRec, NEW have \in Nat, NEW s0, Held(m, k), MapKept(m, k, have, s0),
         s0.mapped = 0, NEW n \in Nat, have + n <= BrkMax, NEW r, r = MapRun(s0, have, n)
  PROVE  MapKept(m, k, have, r) /\ AllMapped(r, n)
<1>1. PICK s : /\ s = [i \in 0..n |-> IF i = 0 THEN s0 ELSE MapTurn(s[i - 1], have + i - 1)]
               /\ MapRun(s0, have, n) = s[n]
  <2>1. \E s : s = [i \in 0..n |-> IF i = 0 THEN s0 ELSE MapTurn(s[i - 1], have + i - 1)]
    <3>1. PICK s : MapRunIs(s0, have, n, s)
      BY MapRunExists
    <3> QED BY <3>1 DEF MapRunIs
  <2> QED BY <2>1 DEF MapRun, MapTurn
<1> DEFINE T == {i \in Nat : MapKept(m, k, have, s[i]) /\ s[i].mapped <= i /\ (s[i].ok = TRUE => s[i].mapped = i)}
<1>2. 0 \in T
  <2>1. s[0] = s0
    BY <1>1
  <2> QED BY <2>1
<1>3. ASSUME NEW i \in 0..(n - 1), i \in T PROVE i + 1 \in T
  <2>1. i \in Nat /\ i + 1 \in Nat /\ i + 1 \in 0..n /\ i + 1 # 0 /\ (i + 1) - 1 = i
    OBVIOUS
  <2> PICK a : a = s[i]
    OBVIOUS
  <2> PICK b : b = s[i + 1]
    OBVIOUS
  <2> PICK v : v = have + i
    OBVIOUS
  <2>2. v \in 0..BrkMax - 1 /\ have + (i + 1) - 1 = v
    BY Sizing
  <2>3. b = MapTurn(a, v)
    BY <1>1, <2>1, <2>2
  <2>4. MapKept(m, k, have, a) /\ a.mapped <= i /\ (a.ok = TRUE => a.mapped = i)
    BY <1>3
  <2>5. a.ok \in BOOLEAN /\ a.mapped \in Nat
    BY <2>4 DEF MapKept, MapState
  <2>6. CASE a.ok = TRUE
    <3>1. b = MapOne(a, v)
      BY <2>3, <2>6 DEF MapTurn
    <3>2. v = have + a.mapped
      BY <2>4, <2>6
    <3>3. MapKept(m, k, have, b) /\ Turned(a, b)
      BY <2>2, <2>4, <2>6, <3>1, <3>2, MapOneFact
    <3>4. b.mapped <= i + 1 /\ (b.ok = TRUE => b.mapped = i + 1)
      BY <2>1, <2>4, <2>5, <2>6, <3>3 DEF Turned
    <3> QED BY <2>1, <3>3, <3>4
  <2>7. CASE a.ok = FALSE
    <3>1. b = a
      BY <2>3, <2>7 DEF MapTurn
    <3>2. b.mapped <= i + 1
      BY <2>1, <2>4, <2>5, <3>1
    <3>3. b.ok # TRUE
      BY <2>7, <3>1
    <3> QED BY <2>1, <2>4, <3>1, <3>2, <3>3
  <2> QED BY <2>5, <2>6, <2>7
<1>4. n \in T
  <2> HIDE DEF T
  <2> QED BY <1>2, <1>3, UpFromZero
<1> QED BY <1>1, <1>4 DEF AllMapped

-----------------------------------------------------------------------------
(* Who holds the blocks in use.  A claim: a block's address, and the size  *)
(* it was asked for.                                                       *)
ClaimRec == [at : Nat, size : Nat]
Answered(list, x) == \E b \in InUse(list) : b.at = x.at /\ b.size >= x.size
ClaimsOk(list, C) ==
  /\ C \subseteq ClaimRec /\ IsFiniteSet(C) /\ IsFiniteSet(InUse(list))
  /\ \A x \in C : Answered(list, x)
  /\ \A x, y \in C : x.at = y.at => x = y
  /\ Cardinality(InUse(list)) = Cardinality(C)

LEMMA ClaimAdded ==
  ASSUME NEW h, NEW g, HeapOk(g), NEW C, ClaimsOk(h.head, C), NEW b, NEW x \in ClaimRec,
         NewBlock(h, g, b, x.at, x.size)
  PROVE  ClaimsOk(g.head, C \cup {x}) /\ (\A y \in C : y.at # x.at)
<1>1. /\ b \notin InUse(h.head) /\ b.at = x.at /\ b.size >= x.size
      /\ InUse(g.head) = InUse(h.head) \cup {b}
  BY DEF NewBlock
<1>2. g.head \in Seq(BlockRec) /\ Apart(g.head)
  BY DEF HeapOk, HeapShape
<1>3. ASSUME NEW c \in InUse(g.head), c.at = b.at PROVE c = b
  <2>1. c \in Range(g.head) /\ b \in Range(g.head)
    BY <1>1 DEF InUse
  <2> QED BY <1>2, <1>3, <2>1, DistinctAt
<1>4. ASSUME NEW y \in C PROVE y.at # x.at
  <2>1. PICK c \in InUse(h.head) : c.at = y.at /\ c.size >= y.size
    BY DEF ClaimsOk, Answered
  <2>2. c \in InUse(g.head) /\ c # b
    BY <1>1, <2>1
  <2> QED BY <1>1, <1>3, <2>1, <2>2
<1>5. x \notin C
  BY <1>4
<1>6. IsFiniteSet(C \cup {x}) /\ Cardinality(C \cup {x}) = Cardinality(C) + 1
  BY <1>5, FS_AddElement DEF ClaimsOk
<1>7. IsFiniteSet(InUse(g.head)) /\ Cardinality(InUse(g.head)) = Cardinality(InUse(h.head)) + 1
  BY <1>1, FS_AddElement DEF ClaimsOk
<1>8. \A y \in C \cup {x} : Answered(g.head, y)
  BY <1>1 DEF ClaimsOk, Answered
<1>9. \A y, z \in C \cup {x} : y.at = z.at => y = z
  BY <1>4 DEF ClaimsOk
<1>10. C \cup {x} \subseteq ClaimRec
  BY DEF ClaimsOk
<1>11. Cardinality(InUse(g.head)) = Cardinality(C \cup {x})
  BY <1>6, <1>7 DEF ClaimsOk
<1> QED BY <1>4, <1>6, <1>7, <1>8, <1>9, <1>10, <1>11 DEF ClaimsOk

LEMMA ClaimSame ==
  ASSUME NEW list, NEW new, NEW C, ClaimsOk(list, C), InUse(new) = InUse(list)
  PROVE  ClaimsOk(new, C)
BY DEF ClaimsOk, Answered

(* kfree of a block that is claimed.                                       *)
LEMMA ClaimDropped ==
  ASSUME NEW h, HeapOk(h), NEW C, ClaimsOk(h.head, C), NEW x \in C, NEW g, g = Kfree(h, x.at)
  PROVE  HeapOk(g) /\ FramesIn(g) = FramesIn(h) /\ ClaimsOk(g.head, C \ {x})
<1>1. PICK b \in InUse(h.head) : b.at = x.at /\ b.size >= x.size
  BY DEF ClaimsOk, Answered
<1>2. HeapOk(g) /\ FramesIn(g) = FramesIn(h) /\ InUse(g.head) = InUse(h.head) \ {b}
  BY <1>1, KfreeFact
<1>3. ASSUME NEW y \in C \ {x} PROVE Answered(g.head, y)
  <2>1. PICK c \in InUse(h.head) : c.at = y.at /\ c.size >= y.size
    BY DEF ClaimsOk, Answered
  <2>2. y.at # x.at
    BY DEF ClaimsOk
  <2>3. c \in InUse(g.head)
    BY <1>1, <1>2, <2>1, <2>2
  <2> QED BY <2>1, <2>3 DEF Answered
<1>4. IsFiniteSet(C \ {x}) /\ Cardinality(C \ {x}) = Cardinality(C) - 1
  BY FS_RemoveElement DEF ClaimsOk
<1>5. IsFiniteSet(InUse(g.head)) /\ Cardinality(InUse(g.head)) = Cardinality(InUse(h.head)) - 1
  BY <1>2, FS_RemoveElement DEF ClaimsOk
<1>6. C \ {x} \subseteq ClaimRec /\ \A y, z \in C \ {x} : y.at = z.at => y = z
  BY DEF ClaimsOk
<1>7. Cardinality(InUse(g.head)) = Cardinality(C \ {x})
  BY <1>4, <1>5 DEF ClaimsOk
<1> QED BY <1>2, <1>3, <1>4, <1>5, <1>6, <1>7 DEF ClaimsOk

(* The claims: what "held" says, and the kernel stack of each task.        *)
UsedIn(ts) == {t \in Tasks : ts[t].dir # 0}
StackClaim(ts, t) == [at |-> ts[t].stack, size |-> StackSize]
StackClaims(ts) == {StackClaim(ts, t) : t \in UsedIn(ts)}
OwnersOk(list, hd, ts) ==
  /\ ClaimsOk(list, hd \cup StackClaims(ts))
  /\ hd \cap StackClaims(ts) = {}
  /\ \A t, u \in UsedIn(ts) : ts[t].stack = ts[u].stack => t = u

LEMMA OwnersAlloc ==
  ASSUME NEW m, NEW h, NEW hd, NEW ts, OwnersOk(h.head, hd, ts), NEW size \in Nat,
         NEW k, Allocated(m, h, size, k), NEW hd2,
         hd2 = IF k.at = 0 THEN hd ELSE hd \cup {[at |-> k.at, size |-> size]}
  PROVE  OwnersOk(k.heap.head, hd2, ts)
<1> PICK C : C = hd \cup StackClaims(ts)
  OBVIOUS
<1>0. ClaimsOk(h.head, C)
  BY DEF OwnersOk
<1>1. CASE k.at = 0
  <2>1. InUse(k.heap.head) = InUse(h.head)
    BY <1>1 DEF Allocated, NewBlock
  <2> QED BY <1>1, <2>1, ClaimSame DEF OwnersOk
<1>2. CASE k.at # 0
  <2>1. PICK b : NewBlock(h, k.heap, b, k.at, size)
    BY <1>2 DEF Allocated
  <2> PICK x : x = [at |-> k.at, size |-> size]
    OBVIOUS
  <2>2. k.at \in Nat
    BY <2>1 DEF NewBlock, BlockRec
  <2>3. x \in ClaimRec /\ x.at = k.at /\ x.size = size
    BY <2>2 DEF ClaimRec
  <2>4. ClaimsOk(k.heap.head, C \cup {x}) /\ (\A y \in C : y.at # x.at)
    BY SMTT(30), <1>0, <2>1, <2>3, ClaimAdded DEF Allocated
  <2>5. hd2 = hd \cup {x} /\ x \notin StackClaims(ts)
    BY <1>2, <2>4
  <2>6. hd2 \cup StackClaims(ts) = C \cup {x}
    BY <2>5
  <2> QED BY <2>4, <2>5, <2>6 DEF OwnersOk
<1> QED BY <1>1, <1>2

LEMMA OwnersFree ==
  ASSUME NEW h, HeapOk(h), NEW hd, NEW ts, OwnersOk(h.head, hd, ts), NEW x \in hd, NEW g, g = Kfree(h, x.at)
  PROVE  HeapOk(g) /\ FramesIn(g) = FramesIn(h) /\ OwnersOk(g.head, hd \ {x}, ts)
<1> PICK C : C = hd \cup StackClaims(ts)
  OBVIOUS
<1>1. ClaimsOk(h.head, C) /\ x \in C /\ x \notin StackClaims(ts)
  BY DEF OwnersOk
<1>2. HeapOk(g) /\ FramesIn(g) = FramesIn(h) /\ ClaimsOk(g.head, C \ {x})
  BY <1>1, ClaimDropped
<1>3. C \ {x} = (hd \ {x}) \cup StackClaims(ts)
  BY <1>1
<1> QED BY <1>2, <1>3 DEF OwnersOk

LEMMA OwnersLaunch ==
  ASSUME NEW m, NEW h, NEW hd, NEW ts, OwnersOk(h.head, hd, ts), NEW k, Allocated(m, h, StackSize, k), k.at # 0,
         DOMAIN ts = Tasks, NEW t \in Tasks, ts[t].dir = 0, NEW j, j.dir # 0, j.stack = k.at,
         NEW us, us = [ts EXCEPT ![t] = j]
  PROVE  OwnersOk(k.heap.head, hd, us)
<1> PICK C : C = hd \cup StackClaims(ts)
  OBVIOUS
<1>1. PICK b : NewBlock(h, k.heap, b, k.at, StackSize)
  BY DEF Allocated
<1> PICK x : x = [at |-> k.at, size |-> StackSize]
  OBVIOUS
<1>2. x \in ClaimRec /\ x.at = k.at /\ x.size = StackSize
  BY <1>1, Sizing DEF ClaimRec, NewBlock, BlockRec
<1>3. ClaimsOk(h.head, C)
  BY DEF OwnersOk
<1>4. ClaimsOk(k.heap.head, C \cup {x}) /\ (\A y \in C : y.at # x.at)
  BY SMTT(30), <1>1, <1>2, <1>3, ClaimAdded DEF Allocated
<1>5. us[t] = j /\ \A u \in Tasks : u # t => us[u] = ts[u]
  OBVIOUS
<1>6. UsedIn(us) = UsedIn(ts) \cup {t} /\ t \notin UsedIn(ts)
  BY <1>5 DEF UsedIn
<1>7. StackClaim(us, t) = x /\ \A u \in UsedIn(ts) : StackClaim(us, u) = StackClaim(ts, u)
  BY <1>5, <1>6 DEF StackClaim, UsedIn
<1>8. StackClaims(us) = StackClaims(ts) \cup {x}
  <2>1. ASSUME NEW y \in StackClaims(us) PROVE y \in StackClaims(ts) \cup {x}
    <3>1. PICK u \in UsedIn(us) : y = StackClaim(us, u)
      BY DEF StackClaims
    <3>2. CASE u = t
      BY <1>7, <3>1, <3>2
    <3>3. CASE u # t
      <4>1. u \in UsedIn(ts) /\ y = StackClaim(ts, u)
        BY <1>6, <1>7, <3>1, <3>3
      <4> QED BY <4>1 DEF StackClaims
    <3> QED BY <3>2, <3>3
  <2>2. ASSUME NEW y \in StackClaims(ts) \cup {x} PROVE y \in StackClaims(us)
    <3>1. CASE y = x
      BY <1>6, <1>7, <3>1 DEF StackClaims
    <3>2. CASE y \in StackClaims(ts)
      <4>1. PICK u \in UsedIn(ts) : y = StackClaim(ts, u)
        BY <3>2 DEF StackClaims
      <4>2. u \in UsedIn(us) /\ y = StackClaim(us, u)
        BY <1>6, <1>7, <4>1
      <4> QED BY <4>2 DEF StackClaims
    <3> QED BY <3>1, <3>2
  <2> QED BY <2>1, <2>2
<1>9. hd \cup StackClaims(us) = C \cup {x} /\ hd \cap StackClaims(us) = {}
  BY <1>4, <1>8 DEF OwnersOk
<1>10. \A u \in UsedIn(ts) : ts[u].stack # k.at
  <2> SUFFICES ASSUME NEW u \in UsedIn(ts) PROVE ts[u].stack # k.at
    OBVIOUS
  <2>1. StackClaim(ts, u) \in C /\ StackClaim(ts, u).at = ts[u].stack
    BY DEF StackClaims, StackClaim
  <2> QED BY <1>2, <1>4, <2>1
<1>11. \A u, v \in UsedIn(us) : us[u].stack = us[v].stack => u = v
  BY <1>5, <1>6, <1>10 DEF OwnersOk, UsedIn
<1> QED BY <1>4, <1>9, <1>11 DEF OwnersOk

LEMMA OwnersUndo ==
  ASSUME NEW m, NEW h, NEW hd, NEW ts, OwnersOk(h.head, hd, ts), NEW k, Allocated(m, h, StackSize, k), k.at # 0,
         NEW g, g = Kfree(k.heap, k.at)
  PROVE  HeapOk(g) /\ FramesIn(g) = FramesIn(k.heap) /\ OwnersOk(g.head, hd, ts)
<1> PICK C : C = hd \cup StackClaims(ts)
  OBVIOUS
<1>1. PICK b : NewBlock(h, k.heap, b, k.at, StackSize)
  BY DEF Allocated
<1> PICK x : x = [at |-> k.at, size |-> StackSize]
  OBVIOUS
<1>2. x \in ClaimRec /\ x.at = k.at /\ x.size = StackSize
  BY <1>1, Sizing DEF ClaimRec, NewBlock, BlockRec
<1>3. ClaimsOk(h.head, C)
  BY DEF OwnersOk
<1>4. ClaimsOk(k.heap.head, C \cup {x}) /\ (\A y \in C : y.at # x.at)
  <2>1. HeapOk(k.heap)
    BY DEF Allocated
  <2>2. NewBlock(h, k.heap, b, x.at, x.size)
    BY <1>1, <1>2
  <2>3. x \in ClaimRec
    BY <1>2
  <2> QED BY <1>3, <2>1, <2>2, <2>3, ClaimAdded
<1>5. HeapOk(k.heap) /\ x \in C \cup {x} /\ g = Kfree(k.heap, x.at)
  BY <1>2 DEF Allocated
<1>6. HeapOk(g) /\ FramesIn(g) = FramesIn(k.heap) /\ ClaimsOk(g.head, (C \cup {x}) \ {x})
  BY <1>4, <1>5, ClaimDropped
<1>7. (C \cup {x}) \ {x} = C
  BY <1>4
<1> QED BY <1>6, <1>7 DEF OwnersOk

LEMMA OwnersExit ==
  ASSUME NEW h, HeapOk(h), NEW hd, NEW ts, OwnersOk(h.head, hd, ts), DOMAIN ts = Tasks,
         NEW t \in Tasks, ts[t].dir # 0, NEW g, g = Kfree(h, ts[t].stack),
         NEW j, j.dir = 0, NEW us, us = PutTask(ts, t, j)
  PROVE  HeapOk(g) /\ FramesIn(g) = FramesIn(h) /\ OwnersOk(g.head, hd, us)
<1>c. PICK C : C = hd \cup StackClaims(ts)
  OBVIOUS
<1>x. PICK x : x = StackClaim(ts, t)
  OBVIOUS
<1>1. t \in UsedIn(ts) /\ x.at = ts[t].stack
  BY <1>x DEF UsedIn, StackClaim
<1>2. ClaimsOk(h.head, C) /\ x \in C /\ x \in StackClaims(ts) /\ x \notin hd
  BY <1>c, <1>x, <1>1 DEF OwnersOk, StackClaims
<1>3. HeapOk(g) /\ FramesIn(g) = FramesIn(h) /\ ClaimsOk(g.head, C \ {x})
  <2>1. g = Kfree(h, x.at) /\ x \in C /\ ClaimsOk(h.head, C)
    BY <1>1, <1>2
  <2> QED BY <2>1, ClaimDropped
<1>4. us[t] = j /\ \A u \in Tasks : u # t => us[u] = ts[u]
  BY DEF PutTask
<1>5. UsedIn(us) = UsedIn(ts) \ {t}
  BY <1>4 DEF UsedIn
<1>6. \A u \in UsedIn(us) : StackClaim(us, u) = StackClaim(ts, u) /\ us[u].stack = ts[u].stack
  BY <1>4, <1>5 DEF StackClaim, UsedIn
<1>7. \A u \in UsedIn(us) : StackClaim(ts, u) # x
  <2> SUFFICES ASSUME NEW u \in UsedIn(us), StackClaim(ts, u) = x PROVE FALSE
    OBVIOUS
  <2>1. ts[u].stack = ts[t].stack
    BY <1>x, <1>1 DEF StackClaim
  <2> QED BY <1>1, <1>5, <2>1 DEF OwnersOk
<1>8. StackClaims(us) = StackClaims(ts) \ {x}
  BY <1>5, <1>6, <1>7, <1>x, <1>1 DEF StackClaims
<1>9. C \ {x} = hd \cup StackClaims(us) /\ hd \cap StackClaims(us) = {}
  BY <1>c, <1>2, <1>8 DEF OwnersOk
<1>10. \A u, v \in UsedIn(us) : us[u].stack = us[v].stack => u = v
  BY <1>5, <1>6 DEF OwnersOk
<1> QED BY <1>3, <1>9, <1>10 DEF OwnersOk

LEMMA OwnersKept ==
  ASSUME NEW list, NEW hd, NEW ts, NEW us, OwnersOk(list, hd, ts), DOMAIN ts = Tasks, NEW t \in Tasks,
         NEW j, j.dir = ts[t].dir, j.stack = ts[t].stack, us = PutTask(ts, t, j)
  PROVE  OwnersOk(list, hd, us)
<1>1. \A u \in Tasks : us[u].dir = ts[u].dir /\ us[u].stack = ts[u].stack
  BY DEF PutTask
<1>2. UsedIn(us) = UsedIn(ts)
  BY <1>1 DEF UsedIn
<1>3. \A u \in UsedIn(ts) : StackClaim(us, u) = StackClaim(ts, u) /\ us[u].stack = ts[u].stack
  BY <1>1 DEF StackClaim, UsedIn
<1>4. StackClaims(us) = StackClaims(ts)
  BY <1>2, <1>3 DEF StackClaims
<1> QED BY <1>2, <1>3, <1>4 DEF OwnersOk

-----------------------------------------------------------------------------
(* live_pages never falls below the pages the tasks have.                  *)
PagesOut(bp) == {p \in Tasks \X (0..BrkMax - 1) : p[2] < bp[p[1]]}
PagesElsewhere(bp, t) == {p \in Tasks \X (0..BrkMax - 1) : p[1] # t /\ p[2] < bp[p[1]]}
Column(t, n) == {t} \X (0..n - 1)
LiveOk(bp, live) == live \in Nat /\ Cardinality(PagesOut(bp)) <= live

LEMMA PagesFinite == \A S \in SUBSET (Tasks \X (0..BrkMax - 1)) : IsFiniteSet(S) /\ Cardinality(S) \in Nat
<1>1. IsFiniteSet(Tasks) /\ IsFiniteSet(0..BrkMax - 1)
  BY Sizing, FS_Interval DEF Tasks
<1>2. IsFiniteSet(Tasks \X (0..BrkMax - 1))
  BY <1>1, FS_Product
<1> QED BY <1>2, FS_Subset, FS_CardinalityType

LEMMA ColumnFact ==
  ASSUME NEW t \in Tasks, NEW n \in 0..BrkMax
  PROVE  IsFiniteSet(Column(t, n)) /\ Cardinality(Column(t, n)) = n
<1>1. IsFiniteSet({t}) /\ Cardinality({t}) = 1
  BY FS_Singleton
<1>2. IsFiniteSet(0..n - 1) /\ Cardinality(0..n - 1) = n
  <2>1. n \in Int /\ n - 1 \in Int /\ n >= 0
    BY Sizing
  <2>2. IsFiniteSet(0..n - 1) /\ Cardinality(0..n - 1) = IF 0 > n - 1 THEN 0 ELSE (n - 1) - 0 + 1
    BY <2>1, FS_Interval
  <2> QED BY <2>1, <2>2
<1>3. IsFiniteSet({t} \X (0..n - 1)) /\ Cardinality({t} \X (0..n - 1)) = Cardinality({t}) * Cardinality(0..n - 1)
  BY <1>1, <1>2, FS_Product
<1>4. 1 * n = n
  BY Sizing
<1> QED BY <1>1, <1>2, <1>3, <1>4 DEF Column

LEMMA PagesSplit ==
  ASSUME NEW bp \in [Tasks -> 0..BrkMax], NEW t \in Tasks
  PROVE  /\ Cardinality(PagesElsewhere(bp, t)) \in Nat
         /\ Cardinality(PagesOut(bp)) = Cardinality(PagesElsewhere(bp, t)) + bp[t]
<1> PICK O : O = PagesElsewhere(bp, t)
  OBVIOUS
<1> PICK c : c = Column(t, bp[t])
  OBVIOUS
<1>1. IsFiniteSet(O) /\ Cardinality(O) \in Nat
  BY PagesFinite DEF PagesElsewhere
<1>2. IsFiniteSet(c) /\ Cardinality(c) = bp[t]
  BY ColumnFact
<1>3. \A p \in Tasks \X (0..BrkMax - 1) : p[1] = t /\ p[2] < bp[t] => p \in c
  <2> SUFFICES ASSUME NEW u \in Tasks, NEW v \in 0..BrkMax - 1, u = t, v < bp[t] PROVE <<u, v>> \in c
    OBVIOUS
  <2>1. v \in 0..bp[t] - 1
    BY Sizing
  <2> QED BY <2>1 DEF Column
<1>4. \A p \in c : p \in Tasks \X (0..BrkMax - 1) /\ p[1] = t /\ p[2] < bp[t]
  <2> SUFFICES ASSUME NEW v \in 0..bp[t] - 1 PROVE v \in 0..BrkMax - 1 /\ v < bp[t]
    BY DEF Column
  <2> QED BY Sizing
<1>5. PagesOut(bp) = O \cup c
  BY <1>3, <1>4 DEF PagesOut, PagesElsewhere
<1>6. O \cap c = {}
  BY <1>4 DEF PagesElsewhere
<1>7. Cardinality(O \cup c) = Cardinality(O) + Cardinality(c) - Cardinality(O \cap c)
  BY <1>1, <1>2, FS_Union
<1>8. Cardinality(O \cap c) = 0
  BY <1>6, FS_EmptySet
<1> QED BY <1>1, <1>2, <1>5, <1>7, <1>8

LEMMA LiveMoves ==
  ASSUME NEW bp \in [Tasks -> 0..BrkMax], NEW t \in Tasks, NEW n \in 0..BrkMax, NEW live, LiveOk(bp, live),
         NEW bq, bq = [bp EXCEPT ![t] = n], NEW d \in Int, d >= n - bp[t]
  PROVE  LiveOk(bq, live + d) /\ bp[t] <= live
<1>1. bq \in [Tasks -> 0..BrkMax] /\ bq[t] = n /\ \A u \in Tasks : u # t => bq[u] = bp[u]
  OBVIOUS
<1>2. PagesElsewhere(bq, t) = PagesElsewhere(bp, t)
  BY <1>1 DEF PagesElsewhere
<1> PICK e \in Nat : e = Cardinality(PagesElsewhere(bp, t))
  BY PagesSplit
<1>3. Cardinality(PagesOut(bp)) = e + bp[t] /\ Cardinality(PagesOut(bq)) = e + n
  BY <1>1, <1>2, PagesSplit
<1>4. bp[t] \in Nat /\ n \in Nat
  BY Sizing
<1> QED BY <1>3, <1>4 DEF LiveOk

-----------------------------------------------------------------------------
(* brk_set.                                                                *)
PagesOk(k, n) ==
  \A v \in 0..BrkMax - 1 : (k.pte[v] # 0 <=> v < n) /\ (v < n => k.ptab[TableOf(v)] # 0)
StartOf(m, k) == [mem |-> m, ptab |-> k.ptab, pte |-> k.pte, mapped |-> 0, ok |-> TRUE]

LEMMA StartFact ==
  ASSUME NEW m, MemOk(m), NEW k \in TaskRec, NEW s, s = StartOf(m, k)
  PROVE  /\ s \in MapState /\ s.mem = m /\ s.mapped = 0
         /\ s.ptab = k.ptab /\ s.pte = k.pte /\ With(k, s) = k
<1>1. k.ptab \in [BrkTables -> MaybeFrame] /\ k.pte \in [0..BrkMax - 1 -> MaybeFrame] /\ m \in MemShape
  BY DEF TaskRec, MemOk
<1>2. s \in MapState /\ s.mem = m /\ s.mapped = 0 /\ s.ptab = k.ptab /\ s.pte = k.pte
  BY <1>1 DEF StartOf, MapState
<1>3. With(k, s) = [k EXCEPT !.ptab = k.ptab, !.pte = k.pte]
  BY <1>2 DEF With
<1>4. [k EXCEPT !.ptab = k.ptab, !.pte = k.pte] = k
  BY DEF TaskRec
<1> QED BY <1>2, <1>3, <1>4

LEMMA StartKept ==
  ASSUME NEW m, MemOk(m), NEW k \in TaskRec, Held(m, k), NEW have \in Nat, PagesOk(k, have),
         NEW s, s = StartOf(m, k)
  PROVE  MapKept(m, k, have, s) /\ s.mapped = 0
<1>1. /\ s \in MapState /\ s.mem = m /\ s.mapped = 0
      /\ s.ptab = k.ptab /\ s.pte = k.pte /\ With(k, s) = k
  BY StartFact
<1>2. Held(s.mem, With(k, s)) /\ Added(m, k, s.mem, With(k, s))
  BY <1>1, AddedNone
<1>3. \A v \in 0..BrkMax - 1 : /\ s.pte[v] # 0 <=> v < have + s.mapped
                               /\ v < have + s.mapped => s.ptab[TableOf(v)] # 0
  BY <1>1 DEF PagesOk
<1>4. MemOk(s.mem)
  BY <1>1
<1> QED BY <1>1, <1>2, <1>3, <1>4 DEF MapKept

PagesTo(s, n, p) == [s EXCEPT !.mem = n, !.pte = p]

LEMMA PagesChanged ==
  ASSUME NEW s \in MapState, NEW n, MemOk(n), NEW p \in [0..BrkMax - 1 -> MaybeFrame], NEW u, u = PagesTo(s, n, p)
  PROVE  u \in MapState /\ u.mem = n /\ u.ptab = s.ptab /\ u.pte = p
<1>1. n \in MemShape
  BY DEF MemOk
<1> QED BY <1>1 DEF PagesTo, MapState

(* The pages from "from" on, up to "to", given back.                       *)
Zeroed(s, u, from, to) == \A v \in 0..BrkMax - 1 : u.pte[v] = IF v \in from..to - 1 THEN 0 ELSE s.pte[v]
PagesIn(s, from, to) == {s.pte[v] : v \in from..to - 1} \ {0}
Within(from, to) == from..to - 1 \subseteq 0..BrkMax - 1

LEMMA UnmapFact ==
  ASSUME NEW k \in TaskRec, NEW s \in MapState, MemOk(s.mem), NEW from, NEW to,
         Within(from, to), NEW u, u = Unmap(s, from, to), NEW G, G = PagesIn(s, from, to)
  PROVE  /\ u \in MapState /\ MemOk(u.mem) /\ u.mem.bitmap = s.mem.bitmap \ G /\ u.mem.seen = s.mem.seen
         /\ u.ptab = s.ptab /\ Zeroed(s, u, from, to)
         /\ Emptied(With(k, s), With(k, u), G, {})
<1>w. from..to - 1 \subseteq 0..BrkMax - 1 /\ G = {s.pte[v] : v \in from..to - 1} \ {0}
  BY DEF Within, PagesIn
<1> PICK n : n = GiveBack(s.mem, G)
  OBVIOUS
<1>1. MemOk(n) /\ n.bitmap = s.mem.bitmap \ G /\ n.seen = s.mem.seen
  BY GiveBackFact
<1>p. PICK p : p = [v \in 0..BrkMax - 1 |-> IF v \in from..to - 1 THEN 0 ELSE s.pte[v]]
  OBVIOUS
<1>2. s.pte \in [0..BrkMax - 1 -> MaybeFrame] /\ DOMAIN s.pte = 0..BrkMax - 1
  BY DEF MapState
<1>3. p \in [0..BrkMax - 1 -> MaybeFrame] /\ \A v \in 0..BrkMax - 1 : p[v] = IF v \in from..to - 1 THEN 0 ELSE s.pte[v]
  BY <1>2, <1>p DEF MaybeFrame
<1>4. u = PagesTo(s, n, p)
  BY <1>2, <1>p, <1>w DEF Unmap, PagesTo
<1>5. u \in MapState /\ u.mem = n /\ u.ptab = s.ptab /\ u.pte = p
  BY <1>1, <1>3, <1>4, PagesChanged
<1> PICK a : a = With(k, s)
  OBVIOUS
<1> PICK b : b = With(k, u)
  OBVIOUS
<1>6. /\ \A i \in BrkTables : FrameAt(b, <<"ptab", i>>) = FrameAt(a, <<"ptab", i>>)
      /\ \A v \in 0..BrkMax - 1 : FrameAt(a, <<"pte", v>>) = s.pte[v] /\ FrameAt(b, <<"pte", v>>) = p[v]
      /\ \A x \in {<<"dir", 0>>, <<"table", 0>>, <<"page", 0>>, <<"window", 0>>} : FrameAt(b, x) = FrameAt(a, x)
  <2>1. /\ \A i \in BrkTables : FrameAt(a, <<"ptab", i>>) = s.ptab[i]
        /\ \A v \in 0..BrkMax - 1 : FrameAt(a, <<"pte", v>>) = s.pte[v]
        /\ \A x \in {<<"dir", 0>>, <<"table", 0>>, <<"page", 0>>, <<"window", 0>>} : FrameAt(a, x) = FrameAt(k, x)
    BY WithFact
  <2>2. /\ \A i \in BrkTables : FrameAt(b, <<"ptab", i>>) = u.ptab[i]
        /\ \A v \in 0..BrkMax - 1 : FrameAt(b, <<"pte", v>>) = u.pte[v]
        /\ \A x \in {<<"dir", 0>>, <<"table", 0>>, <<"page", 0>>, <<"window", 0>>} : FrameAt(b, x) = FrameAt(k, x)
    BY <1>5, WithFact
  <2> QED BY <1>5, <2>1, <2>2
<1>7. \A x \in Slots : \/ FrameAt(b, x) = FrameAt(a, x)
                      \/ \E v \in from..to - 1 : x = <<"pte", v>> /\ FrameAt(b, x) = 0 /\ FrameAt(a, x) = s.pte[v]
  BY <1>3, <1>6, <1>w, SlotKinds
<1>8. \A f \in G : \E x \in Slots : FrameAt(a, x) = f /\ f # 0 /\ FrameAt(b, x) = 0
  <2> SUFFICES ASSUME NEW v \in from..to - 1, s.pte[v] # 0
               PROVE  \E x \in Slots : FrameAt(a, x) = s.pte[v] /\ FrameAt(b, x) = 0
    BY <1>w
  <2>1. v \in 0..BrkMax - 1 /\ <<"pte", v>> \in Slots
    BY <1>w, SlotKinds
  <2> QED BY <1>3, <1>6, <2>1
<1>9. \A x \in Slots : FrameAt(a, x) # 0 /\ FrameAt(b, x) = 0 => FrameAt(a, x) \in G
  BY <1>7, <1>w
<1>10. Emptied(a, b, G, {})
  BY <1>7, <1>8, <1>9 DEF Emptied
<1>11. Zeroed(s, u, from, to)
  BY <1>3, <1>5 DEF Zeroed
<1> QED BY <1>1, <1>5, <1>10, <1>11

-----------------------------------------------------------------------------
(***************************************************************************)
(* The inductive invariant.  The heap's part says more than HeapSound: its *)
(* frames are what its words lie in, the last of them whole, and what a    *)
(* frame misses is at its end; the frames' part is FramesApart slot by     *)
(* slot; live_pages never falls below what the tasks have.                 *)
(***************************************************************************)
SeenOk(m, ts) == \A t \in Tasks : m.seen[t] = {} <=> ts[t].dir = 0
TasksOk(ts, bt) ==
  /\ ts \in [Tasks -> TaskRec]
  /\ \A t \in Tasks : ts[t].dir = 0 => ts[t] = NoTask /\ bt[t] = NoTop
HaveOf(bt, t) == IF bt[t] = NoTop THEN 0 ELSE bt[t]
BrkOk(ts, bt, bp) ==
  /\ bt \in [Tasks -> {NoTop} \cup 0..BrkMax] /\ bp \in [Tasks -> 0..BrkMax]
  /\ \A t \in Tasks : bp[t] = HaveOf(bt, t) /\ PagesOk(ts[t], HaveOf(bt, t))
Sound(m, h, hd, ts, bt, bp, live) ==
  /\ MemOk(m) /\ SeenOk(m, ts) /\ HeapOk(h) /\ FramesOk(m, h, ts)
  /\ TasksOk(ts, bt) /\ BrkOk(ts, bt, bp) /\ OwnersOk(h.head, hd, ts)
  /\ LiveOk(bp, live) /\ live <= MaxLive
IInv == Sound(mem, heap, held, tasks, brk_top, brk_pages, live_pages)
LostNothing(leak) == NoneLost(mem, heap, tasks, mem', heap', tasks', leak)

LEMMA SeenKept ==
  ASSUME NEW m, NEW ts, SeenOk(m, ts), NEW n, NEW A, Took(m, n, A)
  PROVE  SeenOk(n, ts)
BY DEF SeenOk, Took

LEMMA AllocStep ==
  ASSUME IInv, NEW size \in Sizes, Alloc(size)
  PROVE  IInv' /\ LostNothing({})
<1> PICK k : k = Kmalloc(mem, heap, size)
  OBVIOUS
<1>1. /\ MemOk(mem) /\ SeenOk(mem, tasks) /\ HeapOk(heap) /\ FramesOk(mem, heap, tasks)
      /\ TasksOk(tasks, brk_top) /\ BrkOk(tasks, brk_top, brk_pages) /\ OwnersOk(heap.head, held, tasks)
      /\ LiveOk(brk_pages, live_pages) /\ live_pages <= MaxLive
  BY DEF IInv, Sound
<1>2. /\ mem' = k.mem /\ heap' = k.heap
      /\ held' = IF k.at = 0 THEN held ELSE held \cup {[at |-> k.at, size |-> size]}
      /\ tasks' = tasks /\ brk_top' = brk_top /\ brk_pages' = brk_pages /\ live_pages' = live_pages
  BY DEF Alloc
<1>3. FramesIn(heap) \subseteq mem.bitmap
  BY <1>1 DEF FramesOk
<1>4. size \in Nat /\ size >= 1
  BY Sizing
<1>5. Allocated(mem, heap, size, k)
  BY <1>1, <1>3, <1>4, KmallocFact
<1>6. PICK A : Took(mem, k.mem, A) /\ FramesIn(k.heap) = FramesIn(heap) \cup A
  BY <1>5 DEF Allocated
<1>7. FramesOk(k.mem, k.heap, tasks) /\ NoneLost(mem, heap, tasks, k.mem, k.heap, tasks, {})
  BY <1>1, <1>6, HeapGrows
<1>8. OwnersOk(k.heap.head, held', tasks)
  BY <1>1, <1>2, <1>4, <1>5, OwnersAlloc
<1>9. SeenOk(k.mem, tasks)
  BY <1>1, <1>6, SeenKept
<1>10. MemOk(k.mem) /\ HeapOk(k.heap)
  BY <1>5 DEF Allocated
<1>11. Sound(k.mem, k.heap, held', tasks, brk_top, brk_pages, live_pages)
  BY <1>1, <1>7, <1>8, <1>9, <1>10 DEF Sound
<1>12. IInv'
  BY <1>2, <1>11 DEF IInv
<1>13. LostNothing({})
  BY <1>2, <1>7 DEF LostNothing
<1> QED BY <1>12, <1>13

LEMMA FreeStep ==
  ASSUME IInv, NEW b \in held, Free(b)
  PROVE  IInv' /\ LostNothing({})
<1> PICK g : g = Kfree(heap, b.at)
  OBVIOUS
<1>1. /\ MemOk(mem) /\ SeenOk(mem, tasks) /\ HeapOk(heap) /\ FramesOk(mem, heap, tasks)
      /\ TasksOk(tasks, brk_top) /\ BrkOk(tasks, brk_top, brk_pages) /\ OwnersOk(heap.head, held, tasks)
      /\ LiveOk(brk_pages, live_pages) /\ live_pages <= MaxLive
  BY DEF IInv, Sound
<1>2. /\ heap' = g /\ held' = held \ {b} /\ mem' = mem
      /\ tasks' = tasks /\ brk_top' = brk_top /\ brk_pages' = brk_pages /\ live_pages' = live_pages
  BY DEF Free
<1>3. HeapOk(g) /\ FramesIn(g) = FramesIn(heap) /\ OwnersOk(g.head, held \ {b}, tasks)
  BY <1>1, OwnersFree
<1>4. Took(mem, mem, {}) /\ FramesIn(g) = FramesIn(heap) \cup {}
  BY <1>3, TookNone
<1>5. FramesOk(mem, g, tasks) /\ NoneLost(mem, heap, tasks, mem, g, tasks, {})
  BY <1>1, <1>4, HeapGrows
<1>6. Sound(mem, g, held \ {b}, tasks, brk_top, brk_pages, live_pages)
  BY <1>1, <1>3, <1>5 DEF Sound
<1>7. IInv'
  BY <1>2, <1>6 DEF IInv
<1>8. LostNothing({})
  BY <1>2, <1>5 DEF LostNothing
<1> QED BY <1>7, <1>8

-----------------------------------------------------------------------------
(* A launch.                                                               *)
LEMMA NoTaskFact ==
  /\ NoTask \in TaskRec /\ NoTask.dir = 0
  /\ \A s \in Slots : FrameAt(NoTask, s) = 0
  /\ PagesOk(NoTask, 0)
<1>1. /\ NoTask.dir = 0 /\ NoTask.table = 0 /\ NoTask.page = 0 /\ NoTask.window = 0
      /\ \A i \in BrkTables : NoTask.ptab[i] = 0
      /\ \A v \in 0..BrkMax - 1 : NoTask.pte[v] = 0
  BY DEF NoTask
<1>2. NoTask \in TaskRec
  BY DEF NoTask, TaskRec, MaybeFrame
<1>3. \A s \in Slots : FrameAt(NoTask, s) = 0
  BY <1>1, SlotKinds, SlotFrames
<1>4. PagesOk(NoTask, 0)
  BY <1>1 DEF PagesOk
<1> QED BY <1>1, <1>2, <1>3, <1>4

Newborn(at, d, window) ==
  [NoTask EXCEPT !.stack = at, !.dir = d.dir, !.table = d.table, !.page = d.page, !.window = window,
                 !.killed = window = 0]

LEMMA NewbornFact ==
  ASSUME NEW at \in Nat, NEW d, {d.dir, d.table, d.page} \subseteq Frames, NEW window \in MaybeFrame,
         NEW j, j = Newborn(at, d, window)
  PROVE  /\ j \in TaskRec /\ j.dir = d.dir /\ j.stack = at /\ PagesOk(j, 0)
         /\ FrameAt(j, <<"dir", 0>>) = d.dir /\ FrameAt(j, <<"table", 0>>) = d.table
         /\ FrameAt(j, <<"page", 0>>) = d.page /\ FrameAt(j, <<"window", 0>>) = window
         /\ \A i \in BrkTables : FrameAt(j, <<"ptab", i>>) = 0
         /\ \A v \in 0..BrkMax - 1 : FrameAt(j, <<"pte", v>>) = 0
<1>1. NoTask \in TaskRec
  BY NoTaskFact
<1>2. /\ j \in TaskRec /\ j.stack = at /\ j.dir = d.dir /\ j.table = d.table /\ j.page = d.page
      /\ j.window = window /\ j.ptab = NoTask.ptab /\ j.pte = NoTask.pte
  BY <1>1 DEF Newborn, TaskRec, MaybeFrame
<1>3. /\ \A i \in BrkTables : j.ptab[i] = 0
      /\ \A v \in 0..BrkMax - 1 : j.pte[v] = 0
  BY <1>2 DEF NoTask
<1>4. PagesOk(j, 0)
  BY <1>3 DEF PagesOk
<1> QED BY <1>2, <1>3, <1>4, SlotFrames

LEMMA NewbornAdded ==
  ASSUME NEW m, NEW n, NEW at \in Nat, NEW d, {d.dir, d.table, d.page} \subseteq Frames, NEW window \in MaybeFrame,
         d.dir # d.table, d.dir # d.page, d.table # d.page,
         NEW W, W = {window} \ {0}, W \cap {d.dir, d.table, d.page} = {},
         Took(m, n, {d.dir, d.table, d.page} \cup W)
  PROVE  Added(m, NoTask, n, Newborn(at, d, window))
<1> PICK j : j = Newborn(at, d, window)
  OBVIOUS
<1> PICK A : A = {d.dir, d.table, d.page} \cup W
  OBVIOUS
<1>1. /\ FrameAt(j, <<"dir", 0>>) = d.dir /\ FrameAt(j, <<"table", 0>>) = d.table
      /\ FrameAt(j, <<"page", 0>>) = d.page /\ FrameAt(j, <<"window", 0>>) = window
      /\ \A i \in BrkTables : FrameAt(j, <<"ptab", i>>) = 0
      /\ \A v \in 0..BrkMax - 1 : FrameAt(j, <<"pte", v>>) = 0
  BY NewbornFact
<1>2. 0 \notin A
  BY FrameNumbers
<1>3. \A s \in Slots : FrameAt(NoTask, s) = 0
  BY NoTaskFact
<1>4. \A s \in Slots : FrameAt(j, s) = 0 \/ FrameAt(j, s) \in A
  BY <1>1, SlotKinds
<1>5. \A s \in Slots : FrameAt(j, s) \in A => s \in {<<"dir", 0>>, <<"table", 0>>, <<"page", 0>>, <<"window", 0>>}
  BY <1>1, <1>2, SlotKinds
<1>6. \A s, r \in Slots : FrameAt(j, s) \in A /\ FrameAt(j, s) = FrameAt(j, r) => s = r
  <2> SUFFICES ASSUME NEW s \in Slots, NEW r \in Slots, FrameAt(j, s) \in A, FrameAt(j, s) = FrameAt(j, r)
               PROVE  s = r
    OBVIOUS
  <2>1. /\ s \in {<<"dir", 0>>, <<"table", 0>>, <<"page", 0>>, <<"window", 0>>}
        /\ r \in {<<"dir", 0>>, <<"table", 0>>, <<"page", 0>>, <<"window", 0>>}
    BY <1>5
  <2>2. window = 0 \/ window \notin {d.dir, d.table, d.page}
    OBVIOUS
  <2>3. FrameAt(j, s) # 0 /\ FrameAt(j, r) # 0
    BY <1>2
  <2> QED BY <1>1, <2>1, <2>2, <2>3
<1>7. \A f \in A : \E s \in Slots : FrameAt(j, s) = f
  BY <1>1, SlotKinds
<1>8. Filled(NoTask, j, A)
  BY <1>3, <1>4, <1>6, <1>7 DEF Filled
<1> QED BY <1>8 DEF Added

(* The directory counts as live from its copy on; the window's table.      *)
BornIn(m, t, copied) == [m EXCEPT !.seen[t] = copied]
SeenAs(n, m) == [n EXCEPT !.seen = m.seen]

LEMMA BornInFact ==
  ASSUME NEW m, MemOk(m), NEW t \in Tasks, NEW b, b = BornIn(m, t, m.pdes)
  PROVE  /\ MemOk(b) /\ b.bitmap = m.bitmap /\ b.seen[t] # {}
         /\ \A u \in Tasks : u # t => b.seen[u] = m.seen[u]
<1>1. m \in MemShape /\ m.seen \in [Tasks -> SUBSET AllRegions] /\ m.pdes \in SUBSET AllRegions
  BY DEF MemOk, MemShape
<1> PICK e : e = [m.seen EXCEPT ![t] = m.pdes]
  OBVIOUS
<1>2. e \in [Tasks -> SUBSET AllRegions] /\ e[t] = m.pdes /\ \A u \in Tasks : u # t => e[u] = m.seen[u]
  BY <1>1
<1>3. b = [m EXCEPT !.seen = e]
  BY <1>1 DEF BornIn, MemShape
<1>4. b \in MemShape /\ b.bitmap = m.bitmap /\ b.pdes = m.pdes /\ b.seen = e
  BY <1>1, <1>2, <1>3 DEF MemShape
<1>5. 0 \in m.pdes
  BY DEF MemOk, BaseMap
<1>6. BaseMap \subseteq b.pdes /\ \A u \in Tasks : b.seen[u] = {} \/ b.seen[u] = b.pdes
  BY <1>2, <1>4 DEF MemOk
<1>7. MemOk(b)
  BY <1>4, <1>6 DEF MemOk
<1> QED BY <1>2, <1>4, <1>5, <1>7

LEMMA SeenAsFact ==
  ASSUME NEW m, NEW n, MemOk(n), NEW x, x = SeenAs(n, m)
  PROVE  x.bitmap = n.bitmap /\ x.seen = m.seen
<1>1. n \in MemShape
  BY DEF MemOk
<1> QED BY <1>1 DEF SeenAs, MemShape

SeenBut(m, n, t) == n.seen[t] # {} /\ \A u \in Tasks : u # t => (n.seen[u] = {} <=> m.seen[u] = {})

LEMMA BornFact ==
  ASSUME NEW m, MemOk(m), NEW t \in Tasks, NEW at \in Nat, NEW d, d = NewDirectory(m), d.dir # 0,
         NEW w, w = GrabMapped(BornIn(d.mem, t, d.copied))
  PROVE  /\ MemOk(w.mem) /\ w.frame \in MaybeFrame /\ {d.dir, d.table, d.page} \subseteq Frames
         /\ SeenBut(m, w.mem, t)
         /\ Added(m, NoTask, SeenAs(w.mem, m), Newborn(at, d, w.frame))
<1> PICK b : b = BornIn(d.mem, t, d.copied)
  OBVIOUS
<1> PICK n : n = w.mem
  OBVIOUS
<1>1. /\ {d.dir, d.table, d.page} \subseteq Frames /\ d.dir # d.table /\ d.dir # d.page /\ d.table # d.page
      /\ Took(m, d.mem, {d.dir, d.table, d.page}) /\ d.copied = d.mem.pdes /\ MemOk(d.mem)
  BY NewDirectoryFact
<1>2. /\ MemOk(b) /\ b.bitmap = d.mem.bitmap /\ b.seen[t] # {}
      /\ \A u \in Tasks : u # t => b.seen[u] = d.mem.seen[u]
  <2>1. b = BornIn(d.mem, t, d.mem.pdes) /\ MemOk(d.mem)
    BY <1>1
  <2> QED BY <2>1, BornInFact
<1>3. /\ MemOk(n)
      /\ \/ w.frame = 0 /\ Took(b, n, {})
         \/ w.frame \in Frames /\ Took(b, n, {w.frame})
  BY <1>2, GrabMappedFact
<1> PICK W : W = {w.frame} \ {0}
  OBVIOUS
<1>4. Took(b, n, W) /\ w.frame \in MaybeFrame
  <2>1. CASE w.frame = 0 /\ Took(b, n, {})
    <3>1. W = {}
      BY <2>1
    <3> QED BY <2>1, <3>1 DEF MaybeFrame
  <2>2. CASE w.frame \in Frames /\ Took(b, n, {w.frame})
    <3>1. W = {w.frame}
      BY <2>2, FrameNumbers
    <3> QED BY <2>2, <3>1 DEF MaybeFrame
  <2> QED BY <1>3, <2>1, <2>2
<1>5. SeenBut(m, n, t)
  BY <1>1, <1>2, <1>4 DEF Took, SeenBut
<1> PICK x : x = SeenAs(n, m)
  OBVIOUS
<1>6. x.bitmap = n.bitmap /\ x.seen = m.seen
  BY <1>3, SeenAsFact
<1>7. W \cap {d.dir, d.table, d.page} = {} /\ Took(m, x, {d.dir, d.table, d.page} \cup W)
  <2> PICK D : D = {d.dir, d.table, d.page}
    OBVIOUS
  <2>1. D \subseteq Frames \ m.bitmap /\ d.mem.bitmap = m.bitmap \cup D
    BY <1>1 DEF Took
  <2>2. W \subseteq Frames \ b.bitmap /\ x.bitmap = b.bitmap \cup W
    BY <1>4, <1>6 DEF Took
  <2>3. b.bitmap = m.bitmap \cup D
    BY <1>2, <2>1
  <2>4. W \cap D = {}
    BY ONLY <2>2, <2>3
  <2>5. D \cup W \subseteq Frames \ m.bitmap /\ x.bitmap = m.bitmap \cup (D \cup W)
    BY ONLY <2>1, <2>2, <2>3
  <2>6. Took(m, x, D \cup W)
    BY <1>6, <2>5 DEF Took
  <2> QED BY <2>4, <2>6
<1>8. Added(m, NoTask, x, Newborn(at, d, w.frame))
  BY <1>1, <1>4, <1>7, NewbornAdded
<1> QED BY <1>1, <1>3, <1>4, <1>5, <1>8

LEMMA BitmapOnly ==
  ASSUME NEW m, NEW h, NEW ts, NEW n, NEW g, NEW us, NEW x, x.bitmap = n.bitmap,
         FramesOk(x, g, us), NoneLost(m, h, ts, x, g, us, {})
  PROVE  FramesOk(n, g, us) /\ NoneLost(m, h, ts, n, g, us, {})
BY DEF FramesOk, NoneLost

LEMMA LaunchStep ==
  ASSUME IInv, NEW t \in Tasks, Launch(t)
  PROVE  IInv' /\ LostNothing({})
<1>s. PICK s : s = Kmalloc(mem, heap, StackSize)
  OBVIOUS
<1>d. PICK d : d = NewDirectory(s.mem)
  OBVIOUS
<1>w. PICK w : w = GrabMapped(BornIn(d.mem, t, d.copied))
  OBVIOUS
<1>1. /\ MemOk(mem) /\ SeenOk(mem, tasks) /\ HeapOk(heap) /\ FramesOk(mem, heap, tasks)
      /\ TasksOk(tasks, brk_top) /\ BrkOk(tasks, brk_top, brk_pages) /\ OwnersOk(heap.head, held, tasks)
      /\ LiveOk(brk_pages, live_pages) /\ live_pages <= MaxLive
  BY DEF IInv, Sound
<1>2. /\ held' = held /\ brk_top' = brk_top /\ brk_pages' = brk_pages /\ live_pages' = live_pages
      /\ tasks[t].dir = 0
  BY DEF Launch, FirstFree, Used
<1>3. \/ s.at = 0 /\ mem' = s.mem /\ heap' = s.heap /\ tasks' = tasks
      \/ s.at # 0 /\ d.dir = 0 /\ mem' = d.mem /\ heap' = Kfree(s.heap, s.at) /\ tasks' = tasks
      \/ /\ s.at # 0 /\ d.dir # 0 /\ mem' = w.mem /\ heap' = s.heap
         /\ tasks' = [tasks EXCEPT ![t] = Newborn(s.at, d, w.frame)]
  BY <1>s, <1>d, <1>w, Zenon DEF Launch, Newborn, BornIn
<1>4. FramesIn(heap) \subseteq mem.bitmap
  BY <1>1 DEF FramesOk
<1>5. Allocated(mem, heap, StackSize, s)
  BY <1>1, <1>4, <1>s, Sizing, KmallocFact
<1>6. PICK A : Took(mem, s.mem, A) /\ FramesIn(s.heap) = FramesIn(heap) \cup A
  BY <1>5 DEF Allocated
<1>7. FramesOk(s.mem, s.heap, tasks) /\ NoneLost(mem, heap, tasks, s.mem, s.heap, tasks, {})
  BY <1>1, <1>6, HeapGrows
<1>8. MemOk(s.mem) /\ HeapOk(s.heap) /\ SeenOk(s.mem, tasks)
  BY <1>1, <1>5, <1>6, SeenKept DEF Allocated
<1>9. CASE s.at = 0 /\ mem' = s.mem /\ heap' = s.heap /\ tasks' = tasks
  <2>1. InUse(s.heap.head) = InUse(heap.head)
    BY <1>5, <1>9 DEF Allocated, NewBlock
  <2>2. OwnersOk(s.heap.head, held, tasks)
    BY <1>1, <2>1, ClaimSame DEF OwnersOk
  <2>3. Sound(s.mem, s.heap, held, tasks, brk_top, brk_pages, live_pages)
    BY <1>1, <1>7, <1>8, <2>2 DEF Sound
  <2> QED BY <1>2, <1>7, <1>9, <2>3 DEF IInv, LostNothing
<1>10. CASE s.at # 0 /\ d.dir = 0 /\ mem' = d.mem /\ heap' = Kfree(s.heap, s.at) /\ tasks' = tasks
  <2> PICK g : g = Kfree(s.heap, s.at)
    OBVIOUS
  <2>1. HeapOk(g) /\ FramesIn(g) = FramesIn(s.heap) /\ OwnersOk(g.head, held, tasks)
    BY <1>1, <1>5, <1>10, OwnersUndo
  <2>2. MemOk(d.mem) /\ Took(s.mem, d.mem, {})
    <3>1. 0 \notin Frames
      BY FrameNumbers
    <3> QED BY <1>8, <1>d, <1>10, <3>1, NewDirectoryFact
  <2>3. Took(mem, d.mem, A \cup {})
    BY <1>6, <2>2, TookTwice
  <2>4. FramesIn(g) = FramesIn(heap) \cup (A \cup {})
    BY <1>6, <2>1
  <2>5. FramesOk(d.mem, g, tasks) /\ NoneLost(mem, heap, tasks, d.mem, g, tasks, {})
    BY <1>1, <2>3, <2>4, HeapGrows
  <2>6. SeenOk(d.mem, tasks)
    BY <1>8, <2>2, SeenKept
  <2>7. Sound(d.mem, g, held, tasks, brk_top, brk_pages, live_pages)
    BY <1>1, <2>1, <2>2, <2>5, <2>6 DEF Sound
  <2> QED BY <1>2, <1>10, <2>5, <2>7 DEF IInv, LostNothing
<1>11. CASE /\ s.at # 0 /\ d.dir # 0 /\ mem' = w.mem /\ heap' = s.heap
            /\ tasks' = [tasks EXCEPT ![t] = Newborn(s.at, d, w.frame)]
  <2> PICK j : j = Newborn(s.at, d, w.frame)
    OBVIOUS
  <2>t. PICK us : us = [tasks EXCEPT ![t] = j]
    OBVIOUS
  <2>1. s.at \in Nat
    BY <1>5, <1>11 DEF Allocated, NewBlock, BlockRec
  <2>2. /\ MemOk(w.mem) /\ w.frame \in MaybeFrame /\ {d.dir, d.table, d.page} \subseteq Frames
        /\ SeenBut(s.mem, w.mem, t)
        /\ Added(s.mem, NoTask, SeenAs(w.mem, s.mem), j)
    <3>1. MemOk(s.mem) /\ d.dir # 0
      BY <1>8, <1>11
    <3> QED BY <1>d, <1>w, <2>1, <3>1, BornFact
  <2> PICK x : x = SeenAs(w.mem, s.mem)
    OBVIOUS
  <2>3. x.bitmap = w.mem.bitmap
    BY <2>2, SeenAsFact
  <2>4. tasks[t] = NoTask /\ brk_top[t] = NoTop /\ DOMAIN tasks = Tasks
    BY <1>1, <1>2 DEF TasksOk
  <2>5. FramesOk(x, s.heap, us) /\ NoneLost(s.mem, s.heap, tasks, x, s.heap, us, {})
    BY <1>7, <1>8, <2>t, <2>2, <2>4, AddedOk
  <2>6. NoneLost(mem, heap, tasks, x, s.heap, us, {})
    BY <1>7, <2>5, LostTwice
  <2>7. FramesOk(w.mem, s.heap, us) /\ NoneLost(mem, heap, tasks, w.mem, s.heap, us, {})
    BY <2>3, <2>5, <2>6, BitmapOnly
  <2>8. j \in TaskRec /\ j.dir = d.dir /\ j.stack = s.at /\ PagesOk(j, 0)
    BY <2>1, <2>2, NewbornFact
  <2>9. us[t] = j /\ (\A u \in Tasks : u # t => us[u] = tasks[u]) /\ us \in [Tasks -> TaskRec]
    BY <1>1, <2>t, <2>8 DEF TasksOk
  <2>10. SeenOk(w.mem, us)
    BY <1>8, <1>11, <2>2, <2>8, <2>9 DEF SeenOk, SeenBut
  <2>11. TasksOk(us, brk_top)
    BY <1>1, <1>11, <2>8, <2>9 DEF TasksOk
  <2>12. BrkOk(us, brk_top, brk_pages)
    <3>1. HaveOf(brk_top, t) = 0
      BY <2>4 DEF HaveOf
    <3>2. \A u \in Tasks : PagesOk(us[u], HaveOf(brk_top, u))
      BY <1>1, <2>8, <2>9, <3>1 DEF BrkOk
    <3> QED BY <1>1, <3>2 DEF BrkOk
  <2>13. OwnersOk(s.heap.head, held, us)
    BY <1>1, <1>2, <1>5, <1>11, <2>t, <2>4, <2>8, OwnersLaunch
  <2>14. Sound(w.mem, s.heap, held, us, brk_top, brk_pages, live_pages)
    BY <1>1, <1>8, <2>2, <2>7, <2>10, <2>11, <2>12, <2>13 DEF Sound
  <2>15. tasks' = us
    BY <1>11, <2>t
  <2> QED BY <1>2, <1>11, <2>7, <2>14, <2>15 DEF IInv, LostNothing
<1> QED BY <1>3, <1>9, <1>10, <1>11

-----------------------------------------------------------------------------
(* The end of a task.                                                      *)
GoneFrom(m, t) == [m EXCEPT !.seen[t] = {}]

LEMMA GoneFact ==
  ASSUME NEW m, MemOk(m), NEW t \in Tasks, NEW b, b = GoneFrom(m, t)
  PROVE  /\ MemOk(b) /\ b.bitmap = m.bitmap /\ b.seen[t] = {}
         /\ \A u \in Tasks : u # t => b.seen[u] = m.seen[u]
<1>1. m \in MemShape /\ m.seen \in [Tasks -> SUBSET AllRegions]
  BY DEF MemOk, MemShape
<1> PICK e : e = [m.seen EXCEPT ![t] = {}]
  OBVIOUS
<1>2. e \in [Tasks -> SUBSET AllRegions] /\ e[t] = {} /\ \A u \in Tasks : u # t => e[u] = m.seen[u]
  BY <1>1
<1>3. b = [m EXCEPT !.seen = e]
  BY <1>1 DEF GoneFrom, MemShape
<1>4. b \in MemShape /\ b.bitmap = m.bitmap /\ b.pdes = m.pdes /\ b.seen = e
  BY <1>1, <1>2, <1>3 DEF MemShape
<1>6. BaseMap \subseteq b.pdes /\ \A u \in Tasks : b.seen[u] = {} \/ b.seen[u] = b.pdes
  BY <1>2, <1>4 DEF MemOk
<1>7. MemOk(b)
  BY <1>4, <1>6 DEF MemOk
<1> QED BY <1>2, <1>4, <1>7

(* All that a task names goes back, but the page tables of one that never  *)
(* got a page.                                                             *)
LeftBehind(t) == IF Idle(t) THEN {tasks[t].ptab[i] : i \in BrkTables} ELSE {}

LEMMA ExitEmpties ==
  ASSUME NEW t \in Tasks, tasks[t] \in TaskRec, PagesOk(tasks[t], Have(t)), Have(t) \in 0..BrkMax,
         NEW G, G = Released(t) \cup DirFrames(t)
  PROVE  Emptied(tasks[t], NoTask, G, LeftBehind(t))
<1> PICK k : k = tasks[t]
  OBVIOUS
<1>1. /\ FrameAt(k, <<"dir", 0>>) = k.dir /\ FrameAt(k, <<"table", 0>>) = k.table
      /\ FrameAt(k, <<"page", 0>>) = k.page /\ FrameAt(k, <<"window", 0>>) = k.window
      /\ \A i \in BrkTables : FrameAt(k, <<"ptab", i>>) = k.ptab[i]
      /\ \A v \in 0..BrkMax - 1 : FrameAt(k, <<"pte", v>>) = k.pte[v]
  BY SlotFrames
<1>2. \A s \in Slots : FrameAt(NoTask, s) = 0
  BY NoTaskFact
<1>3. \A v \in 0..Have(t) - 1 : v \in 0..BrkMax - 1
  BY Sizing
<1>4. ASSUME NEW f \in DirFrames(t) PROVE f # 0 /\ \E s \in Slots : FrameAt(k, s) = f
  BY <1>1, SlotKinds DEF DirFrames
<1>5. ASSUME NEW f \in Released(t) PROVE f # 0 /\ \E s \in Slots : FrameAt(k, s) = f
  <2>1. f \in BrkFrames(t)
    BY <1>5 DEF Released
  <2>2. f # 0 /\ ((\E v \in 0..Have(t) - 1 : f = k.pte[v]) \/ (\E i \in BrkTables : f = k.ptab[i]))
    BY <2>1 DEF BrkFrames
  <2>3. CASE \E v \in 0..Have(t) - 1 : f = k.pte[v]
    <3>1. PICK v \in 0..Have(t) - 1 : f = k.pte[v]
      BY <2>3
    <3>2. v \in 0..BrkMax - 1
      BY <1>3
    <3> QED BY <1>1, <2>2, <3>1, <3>2, SlotKinds
  <2>4. CASE \E i \in BrkTables : f = k.ptab[i]
    BY <1>1, <2>2, <2>4, SlotKinds
  <2> QED BY <2>2, <2>3, <2>4
<1>6. ASSUME NEW s \in Slots, FrameAt(k, s) # 0 PROVE FrameAt(k, s) \in G \cup LeftBehind(t)
  <2>1. CASE s \in {<<"dir", 0>>, <<"table", 0>>, <<"page", 0>>, <<"window", 0>>}
    BY <1>1, <1>6, <2>1 DEF DirFrames
  <2>2. CASE \E i \in BrkTables : s = <<"ptab", i>>
    <3>1. PICK i \in BrkTables : FrameAt(k, s) = k.ptab[i]
      BY <1>1, <2>2
    <3>2. CASE Idle(t)
      BY <3>1, <3>2 DEF LeftBehind
    <3>3. CASE ~Idle(t)
      <4>1. k.ptab[i] \in BrkFrames(t)
        BY <1>6, <3>1 DEF BrkFrames
      <4> QED BY <3>1, <3>3, <4>1 DEF Released
    <3> QED BY <3>2, <3>3
  <2>3. CASE \E v \in 0..BrkMax - 1 : s = <<"pte", v>>
    <3>1. PICK v \in 0..BrkMax - 1 : FrameAt(k, s) = k.pte[v]
      BY <1>1, <2>3
    <3>2. v < Have(t)
      BY <1>6, <3>1 DEF PagesOk
    <3>3. v \in 0..Have(t) - 1
      BY <3>2, Sizing
    <3>4. ~Idle(t)
      BY <3>2, Sizing DEF Idle, Have
    <3>5. k.pte[v] \in BrkFrames(t)
      BY <1>6, <3>1, <3>3 DEF BrkFrames
    <3> QED BY <3>1, <3>4, <3>5 DEF Released
  <2> QED BY <2>1, <2>2, <2>3, SlotKinds
<1>7. \A f \in G : \E s \in Slots : FrameAt(k, s) = f /\ f # 0 /\ FrameAt(NoTask, s) = 0
  BY <1>2, <1>4, <1>5
<1> QED BY <1>2, <1>6, <1>7 DEF Emptied

LEMMA ExitStep ==
  ASSUME IInv, NEW t \in Tasks, Exit(t)
  PROVE  IInv' /\ LostNothing(LeftBehind(t))
<1>c. PICK G : G = Released(t) \cup DirFrames(t)
  OBVIOUS
<1>n. PICK n : n = GiveBack(mem, G)
  OBVIOUS
<1>b. PICK b : b = GoneFrom(n, t)
  OBVIOUS
<1>g. PICK g : g = Kfree(heap, tasks[t].stack)
  OBVIOUS
<1>t. PICK us : us = [tasks EXCEPT ![t] = NoTask]
  OBVIOUS
<1>p. PICK bt : bt = [brk_top EXCEPT ![t] = NoTop]
  OBVIOUS
<1>q. PICK bp : bp = [brk_pages EXCEPT ![t] = 0]
  OBVIOUS
<1>1. /\ MemOk(mem) /\ SeenOk(mem, tasks) /\ HeapOk(heap) /\ FramesOk(mem, heap, tasks)
      /\ TasksOk(tasks, brk_top) /\ BrkOk(tasks, brk_top, brk_pages) /\ OwnersOk(heap.head, held, tasks)
      /\ LiveOk(brk_pages, live_pages) /\ live_pages <= MaxLive
  BY DEF IInv, Sound
<1>2. /\ mem' = b /\ heap' = g /\ tasks' = us /\ brk_top' = bt /\ brk_pages' = bp /\ held' = held
      /\ live_pages' = LiveAfter(t) /\ LiveAfter(t) <= MaxLive /\ tasks[t].dir # 0
  BY <1>c, <1>n, <1>b, <1>g, <1>t, <1>p, <1>q DEF Exit, Count, GoneFrom, Used
<1>3. MemOk(n) /\ n.bitmap = mem.bitmap \ G /\ n.seen = mem.seen
  BY <1>1, <1>n, GiveBackFact
<1>4. MemOk(b) /\ b.bitmap = mem.bitmap \ G /\ b.seen[t] = {} /\ \A u \in Tasks : u # t => b.seen[u] = mem.seen[u]
  <2>1. MemOk(b) /\ b.bitmap = n.bitmap /\ b.seen[t] = {} /\ \A u \in Tasks : u # t => b.seen[u] = n.seen[u]
    BY <1>3, <1>b, GoneFact
  <2> QED BY <1>3, <2>1
<1>5. /\ tasks \in [Tasks -> TaskRec] /\ brk_top \in [Tasks -> {NoTop} \cup 0..BrkMax]
      /\ brk_pages \in [Tasks -> 0..BrkMax] /\ brk_pages[t] = Have(t) /\ PagesOk(tasks[t], Have(t))
  BY <1>1 DEF TasksOk, BrkOk, HaveOf, Have
<1>6. Emptied(tasks[t], NoTask, G, LeftBehind(t))
  BY <1>5, <1>c, ExitEmpties
<1>7. HeapOk(g) /\ FramesIn(g) = FramesIn(heap) /\ OwnersOk(g.head, held, us)
  <2>1. HeapOk(heap) /\ OwnersOk(heap.head, held, tasks) /\ DOMAIN tasks = Tasks /\ tasks[t].dir # 0 /\ NoTask.dir = 0
    BY <1>1, <1>2, <1>5, NoTaskFact
  <2> PICK j : j = NoTask
    OBVIOUS
  <2>2. us = PutTask(tasks, t, j) /\ j.dir = 0
    BY <1>t, <2>1 DEF PutTask
  <2> QED BY <1>g, <2>1, <2>2, OwnersExit
<1>8. FramesOk(b, heap, us) /\ NoneLost(mem, heap, tasks, b, heap, us, LeftBehind(t))
  <2>1. us = PutTask(tasks, t, NoTask) /\ DOMAIN tasks = Tasks
    BY <1>5, <1>t DEF PutTask
  <2> QED BY <1>1, <1>4, <1>6, <2>1, EmptiedOk
<1>9. FramesOk(b, g, us) /\ NoneLost(mem, heap, tasks, b, g, us, LeftBehind(t))
  BY <1>7, <1>8 DEF FramesOk, NoneLost, OwnedIn
<1>10. us[t] = NoTask /\ (\A u \in Tasks : u # t => us[u] = tasks[u]) /\ us \in [Tasks -> TaskRec]
  BY <1>5, <1>t, NoTaskFact
<1>11. bt[t] = NoTop /\ (\A u \in Tasks : u # t => bt[u] = brk_top[u]) /\ bt \in [Tasks -> {NoTop} \cup 0..BrkMax]
  BY <1>5, <1>p
<1>12. bp[t] = 0 /\ (\A u \in Tasks : u # t => bp[u] = brk_pages[u]) /\ bp \in [Tasks -> 0..BrkMax]
  BY <1>5, <1>q, Sizing
<1>13. SeenOk(b, us)
  BY <1>1, <1>4, <1>10, NoTaskFact DEF SeenOk
<1>14. TasksOk(us, bt)
  BY <1>1, <1>10, <1>11 DEF TasksOk
<1>15. BrkOk(us, bt, bp)
  <2>1. \A u \in Tasks : bp[u] = HaveOf(bt, u) /\ PagesOk(us[u], HaveOf(bt, u))
    BY <1>1, <1>10, <1>11, <1>12, NoTaskFact DEF BrkOk, HaveOf
  <2> QED BY <1>11, <1>12, <2>1 DEF BrkOk
<1>16. LiveOk(bp, LiveAfter(t))
  <2>1. 0 \in 0..BrkMax /\ -brk_pages[t] \in Int /\ -brk_pages[t] >= 0 - brk_pages[t]
    BY <1>5, Sizing
  <2>2. LiveOk(bp, live_pages + (-brk_pages[t])) /\ brk_pages[t] <= live_pages
    BY <1>1, <1>5, <1>q, <2>1, LiveMoves
  <2>3. LiveAfter(t) = live_pages + (-brk_pages[t])
    BY <1>1, <1>5, <2>1, <2>2 DEF LiveAfter, LiveOk
  <2> QED BY <2>2, <2>3
<1>17. Sound(b, g, held, us, bt, bp, LiveAfter(t))
  BY <1>2, <1>4, <1>7, <1>9, <1>13, <1>14, <1>15, <1>16 DEF Sound
<1>18. IInv'
  BY <1>2, <1>17 DEF IInv
<1>19. LostNothing(LeftBehind(t))
  BY <1>2, <1>9 DEF LostNothing
<1> QED BY <1>18, <1>19

-----------------------------------------------------------------------------
(* SYS_BRK.                                                                *)
LEMMA BrkSound ==
  ASSUME IInv, NEW t \in Tasks, tasks[t].dir # 0, NEW n, MemOk(n), SeenOk(n, tasks),
         NEW j \in TaskRec, j.dir = tasks[t].dir, j.stack = tasks[t].stack,
         NEW us, us = PutTask(tasks, t, j), FramesOk(n, heap, us),
         NEW top \in {NoTop} \cup 0..BrkMax, NEW bt, bt = [brk_top EXCEPT ![t] = top],
         NEW have, have = HaveOf(bt, t), PagesOk(j, have),
         NEW bp, bp = [brk_pages EXCEPT ![t] = have], NEW live, LiveOk(bp, live), live <= MaxLive
  PROVE  Sound(n, heap, held, us, bt, bp, live)
<1>1. /\ HeapOk(heap) /\ TasksOk(tasks, brk_top) /\ BrkOk(tasks, brk_top, brk_pages)
      /\ OwnersOk(heap.head, held, tasks)
  BY DEF IInv, Sound
<1>2. /\ tasks \in [Tasks -> TaskRec] /\ brk_top \in [Tasks -> {NoTop} \cup 0..BrkMax]
      /\ brk_pages \in [Tasks -> 0..BrkMax]
  BY <1>1 DEF TasksOk, BrkOk
<1>3. us[t] = j /\ (\A u \in Tasks : u # t => us[u] = tasks[u]) /\ us \in [Tasks -> TaskRec]
  BY <1>2 DEF PutTask
<1>4. bt[t] = top /\ (\A u \in Tasks : u # t => bt[u] = brk_top[u]) /\ bt \in [Tasks -> {NoTop} \cup 0..BrkMax]
  BY <1>2
<1>5. have \in 0..BrkMax
  BY <1>4, Sizing DEF HaveOf
<1>6. bp[t] = have /\ (\A u \in Tasks : u # t => bp[u] = brk_pages[u]) /\ bp \in [Tasks -> 0..BrkMax]
  BY <1>2, <1>5
<1>7. SeenOk(n, us)
  BY <1>3 DEF SeenOk
<1>8. TasksOk(us, bt)
  BY <1>1, <1>3, <1>4 DEF TasksOk
<1>9. BrkOk(us, bt, bp)
  <2>1. \A u \in Tasks : bp[u] = HaveOf(bt, u) /\ PagesOk(us[u], HaveOf(bt, u))
    BY <1>1, <1>3, <1>4, <1>6 DEF BrkOk, HaveOf
  <2> QED BY <1>4, <1>6, <2>1 DEF BrkOk
<1>10. OwnersOk(heap.head, held, us)
  <2>1. DOMAIN tasks = Tasks
    BY <1>2
  <2> QED BY <1>1, <2>1, OwnersKept
<1> QED BY <1>1, <1>7, <1>8, <1>9, <1>10 DEF Sound

LEMMA StoreFact ==
  ASSUME NEW t \in Tasks, tasks \in [Tasks -> TaskRec], NEW s \in MapState, Store(t, s)
  PROVE  /\ mem' = s.mem /\ tasks' = PutTask(tasks, t, With(tasks[t], s))
         /\ With(tasks[t], s) \in TaskRec
         /\ With(tasks[t], s).dir = tasks[t].dir /\ With(tasks[t], s).stack = tasks[t].stack
         /\ With(tasks[t], s).pte = s.pte /\ With(tasks[t], s).ptab = s.ptab
<1> PICK k \in TaskRec : k = tasks[t]
  OBVIOUS
<1> PICK j : j = With(k, s)
  OBVIOUS
<1>1. j \in TaskRec
  BY WithFact
<1>2. j.dir = k.dir /\ j.stack = k.stack /\ j.pte = s.pte /\ j.ptab = s.ptab
  BY DEF With, TaskRec
<1>3. tasks' = [tasks EXCEPT ![t].ptab = s.ptab, ![t].pte = s.pte] /\ mem' = s.mem
  BY DEF Store
<1>4. tasks' = [tasks EXCEPT ![t] = j]
  BY <1>3 DEF With
<1> QED BY <1>1, <1>2, <1>3, <1>4 DEF PutTask

(* What a call on brk finds.                                               *)
LEMMA BrkStart ==
  ASSUME IInv, NEW t \in Tasks, NEW s, s = BrkState(t)
  PROVE  /\ MemOk(mem) /\ SeenOk(mem, tasks) /\ FramesOk(mem, heap, tasks) /\ LiveOk(brk_pages, live_pages)
         /\ tasks \in [Tasks -> TaskRec] /\ tasks[t] \in TaskRec /\ DOMAIN tasks = Tasks
         /\ brk_top \in [Tasks -> {NoTop} \cup 0..BrkMax] /\ brk_pages \in [Tasks -> 0..BrkMax]
         /\ Have(t) \in 0..BrkMax /\ Have(t) \in Nat /\ brk_pages[t] = Have(t) /\ HaveOf(brk_top, t) = Have(t)
         /\ PagesOk(tasks[t], Have(t)) /\ Held(mem, tasks[t]) /\ s = StartOf(mem, tasks[t])
<1>1. /\ MemOk(mem) /\ SeenOk(mem, tasks) /\ FramesOk(mem, heap, tasks)
      /\ TasksOk(tasks, brk_top) /\ BrkOk(tasks, brk_top, brk_pages) /\ LiveOk(brk_pages, live_pages)
  BY DEF IInv, Sound
<1>2. /\ tasks \in [Tasks -> TaskRec] /\ brk_top \in [Tasks -> {NoTop} \cup 0..BrkMax]
      /\ brk_pages \in [Tasks -> 0..BrkMax]
  BY <1>1 DEF TasksOk, BrkOk
<1>3. HaveOf(brk_top, t) = Have(t)
  BY DEF HaveOf, Have
<1>4. brk_pages[t] = Have(t) /\ PagesOk(tasks[t], Have(t))
  BY <1>1, <1>3 DEF BrkOk
<1>5. Have(t) \in 0..BrkMax /\ Have(t) \in Nat
  <2>1. Have(t) \in 0..BrkMax
    BY <1>2, <1>4
  <2> QED BY <2>1, Sizing
<1>6. Held(mem, tasks[t])
  BY <1>1 DEF FramesOk, Held
<1>7. s = StartOf(mem, tasks[t])
  BY DEF BrkState, StartOf
<1> QED BY <1>1, <1>2, <1>3, <1>4, <1>5, <1>6, <1>7

(* What a state of the loop means for the frames once it is stored.        *)
LEMMA KeptStored ==
  ASSUME NEW m, MemOk(m), NEW h, NEW ts, FramesOk(m, h, ts), SeenOk(m, ts), NEW t \in Tasks, DOMAIN ts = Tasks,
         NEW have, NEW s, MapKept(m, ts[t], have, s), NEW us, us = PutTask(ts, t, With(ts[t], s))
  PROVE  FramesOk(s.mem, h, us) /\ NoneLost(m, h, ts, s.mem, h, us, {}) /\ SeenOk(s.mem, ts) /\ MemOk(s.mem)
<1> PICK j : j = With(ts[t], s)
  OBVIOUS
<1>1. Added(m, ts[t], s.mem, j) /\ MemOk(s.mem)
  BY DEF MapKept
<1>2. us = [ts EXCEPT ![t] = j]
  BY DEF PutTask
<1>3. FramesOk(s.mem, h, us) /\ NoneLost(m, h, ts, s.mem, h, us, {})
  BY <1>1, <1>2, AddedOk
<1>4. PICK A : Took(m, s.mem, A)
  BY <1>1 DEF Added
<1>5. SeenOk(s.mem, ts)
  BY <1>4, SeenKept
<1> QED BY <1>1, <1>3, <1>5

LEMMA GrowGood ==
  ASSUME IInv, NEW t \in Tasks, tasks[t].dir # 0, NEW want \in 0..BrkMax, want > Have(t),
         NEW s, s = MapRun(BrkState(t), Have(t), want - Have(t)), s.ok,
         Store(t, s), Count(t, brk_pages[t] + s.mapped, live_pages + s.mapped),
         brk_top' = [brk_top EXCEPT ![t] = want], heap' = heap, held' = held
  PROVE  IInv' /\ LostNothing({})
<1> PICK have \in Nat : have = Have(t)
  BY BrkStart
<1> PICK k \in TaskRec : k = tasks[t]
  BY BrkStart
<1> PICK n \in Nat : n = want - have
  BY Sizing
<1> PICK s0 : s0 = BrkState(t)
  OBVIOUS
<1>1. /\ MemOk(mem) /\ SeenOk(mem, tasks) /\ FramesOk(mem, heap, tasks) /\ LiveOk(brk_pages, live_pages)
      /\ tasks \in [Tasks -> TaskRec] /\ DOMAIN tasks = Tasks
      /\ brk_top \in [Tasks -> {NoTop} \cup 0..BrkMax] /\ brk_pages \in [Tasks -> 0..BrkMax]
      /\ have \in 0..BrkMax /\ brk_pages[t] = have
      /\ PagesOk(k, have) /\ Held(mem, k) /\ s0 = StartOf(mem, k)
  BY BrkStart
<1>2. MapKept(mem, k, have, s0) /\ s0.mapped = 0
  BY <1>1, StartKept
<1>3. have + n <= BrkMax /\ have + n = want
  BY Sizing
<1>4. s = MapRun(s0, have, n)
  OBVIOUS
<1>5. MapKept(mem, k, have, s) /\ AllMapped(s, n)
  BY <1>1, <1>2, <1>3, <1>4, MapRunFact
<1>6. s \in MapState /\ s.ok \in BOOLEAN
  BY <1>5 DEF MapKept, MapState
<1>7. s.mapped = n
  BY <1>5, <1>6 DEF AllMapped
<1> PICK j : j = With(k, s)
  OBVIOUS
<1> PICK us : us = PutTask(tasks, t, j)
  OBVIOUS
<1>8. /\ mem' = s.mem /\ tasks' = us /\ j \in TaskRec /\ j.dir = k.dir /\ j.stack = k.stack
      /\ j.pte = s.pte /\ j.ptab = s.ptab
  BY <1>1, <1>6, StoreFact
<1>9. FramesOk(s.mem, heap, us) /\ NoneLost(mem, heap, tasks, s.mem, heap, us, {}) /\ SeenOk(s.mem, tasks) /\ MemOk(s.mem)
  BY <1>1, <1>5, KeptStored
<1>10. PagesOk(j, want)
  BY <1>3, <1>5, <1>7, <1>8 DEF MapKept, PagesOk
<1> PICK bt : bt = [brk_top EXCEPT ![t] = want]
  OBVIOUS
<1> PICK bp : bp = [brk_pages EXCEPT ![t] = want]
  OBVIOUS
<1>11. HaveOf(bt, t) = want
  BY <1>1, Sizing DEF HaveOf, NoTop
<1>12. brk_pages' = bp /\ live_pages' = live_pages + n /\ live_pages + n <= MaxLive
  BY <1>1, <1>3, <1>7 DEF Count
<1>13. LiveOk(bp, live_pages + n)
  <2>1. n \in Int /\ n >= want - brk_pages[t]
    BY <1>1, <1>3
  <2> QED BY <1>1, <2>1, LiveMoves
<1>14. Sound(s.mem, heap, held, us, bt, bp, live_pages + n)
  BY <1>8, <1>9, <1>10, <1>11, <1>12, <1>13, BrkSound
<1>15. IInv'
  BY <1>8, <1>12, <1>14 DEF IInv
<1>16. LostNothing({})
  BY <1>8, <1>9 DEF LostNothing
<1> QED BY <1>15, <1>16

(* A call that fails, or is refused, counts the same pages again.          *)
LEMMA RecountFact ==
  ASSUME IInv, NEW t \in Tasks, NEW need, NEW mapped \in Nat, Recount(t, need, mapped)
  PROVE  /\ brk_pages' = [brk_pages EXCEPT ![t] = Have(t)] /\ live_pages' <= MaxLive
         /\ LiveOk([brk_pages EXCEPT ![t] = Have(t)], live_pages')
<1> PICK have \in Nat : have = Have(t)
  BY BrkStart
<1>1. have \in 0..BrkMax /\ brk_pages[t] = have /\ brk_pages \in [Tasks -> 0..BrkMax] /\ LiveOk(brk_pages, live_pages)
  BY BrkStart
<1> PICK a \in Nat : a = Adjusted(brk_pages[t] + mapped, need) /\ a <= have + mapped
  <2>1. Adjusted(brk_pages[t] + mapped, need) = 0 \/ Adjusted(brk_pages[t] + mapped, need) = have + mapped
    BY <1>1 DEF Adjusted
  <2> QED BY <2>1
<1> PICK d \in Int : d = mapped - a + have
  OBVIOUS
<1>2. live_pages \in Nat
  BY <1>1 DEF LiveOk
<1>3. brk_pages' = [brk_pages EXCEPT ![t] = have] /\ live_pages' = live_pages + mapped - a + have
  BY DEF Recount, Count
<1>4. live_pages' <= MaxLive
  BY DEF Recount, Count
<1>5. live_pages' = live_pages + d
  BY <1>2, <1>3
<1>6. d >= have - brk_pages[t]
  BY <1>1
<1>7. LiveOk([brk_pages EXCEPT ![t] = have], live_pages + d)
  BY <1>1, <1>6, LiveMoves
<1> QED BY <1>3, <1>4, <1>5, <1>7

(* Pages taken back from a state of the loop, and stored.                  *)
Stored(m, h, ts, t, s) ==
  LET us == PutTask(ts, t, With(ts[t], s))
  IN  /\ s \in MapState /\ MemOk(s.mem) /\ SeenOk(s.mem, ts) /\ FramesOk(s.mem, h, us)
      /\ NoneLost(m, h, ts, s.mem, h, us, {})

LEMMA UnmapStored ==
  ASSUME NEW m, NEW h, NEW ts, NEW t \in Tasks, DOMAIN ts = Tasks, ts[t] \in TaskRec, NEW s, Stored(m, h, ts, t, s),
         NEW from, NEW to, Within(from, to), NEW u, u = Unmap(s, from, to)
  PROVE  Stored(m, h, ts, t, u) /\ u.ptab = s.ptab /\ Zeroed(s, u, from, to)
<1>us. PICK us : us = PutTask(ts, t, With(ts[t], s))
  OBVIOUS
<1>vs. PICK vs : vs = PutTask(ts, t, With(ts[t], u))
  OBVIOUS
<1>s. /\ s \in MapState /\ MemOk(s.mem) /\ SeenOk(s.mem, ts) /\ FramesOk(s.mem, h, us)
      /\ NoneLost(m, h, ts, s.mem, h, us, {})
  BY <1>us DEF Stored
<1> PICK k \in TaskRec : k = ts[t]
  OBVIOUS
<1> PICK G : G = PagesIn(s, from, to)
  OBVIOUS
<1>2. /\ u \in MapState /\ MemOk(u.mem) /\ u.mem.bitmap = s.mem.bitmap \ G /\ u.mem.seen = s.mem.seen
      /\ u.ptab = s.ptab /\ Zeroed(s, u, from, to)
      /\ Emptied(With(k, s), With(k, u), G, {})
  BY <1>s, UnmapFact
<1> PICK a : a = With(k, s)
  OBVIOUS
<1> PICK b : b = With(k, u)
  OBVIOUS
<1>3. us[t] = a /\ DOMAIN us = Tasks
  BY <1>us DEF PutTask
<1>4. vs = PutTask(us, t, b)
  BY <1>us, <1>vs DEF PutTask
<1>5. Emptied(us[t], b, G, {})
  BY <1>2, <1>3
<1>6. u.mem.bitmap = s.mem.bitmap \ G
  BY <1>2
<1>7. FramesOk(u.mem, h, vs) /\ NoneLost(s.mem, h, us, u.mem, h, vs, {})
  BY <1>s, <1>3, <1>4, <1>5, <1>6, EmptiedOk
<1>8. NoneLost(m, h, ts, u.mem, h, vs, {})
  BY <1>s, <1>7, LostTwice
<1>9. SeenOk(u.mem, ts)
  BY <1>s, <1>2 DEF SeenOk
<1> QED BY <1>vs, <1>2, <1>7, <1>8, <1>9 DEF Stored

LEMMA GrowBad ==
  ASSUME IInv, NEW t \in Tasks, tasks[t].dir # 0, NEW want \in 0..BrkMax, want > Have(t),
         NEW s, s = MapRun(BrkState(t), Have(t), want - Have(t)),
         Store(t, Unmap(s, Have(t), Have(t) + s.mapped)), Recount(t, want - Have(t), s.mapped),
         brk_top' = brk_top, heap' = heap, held' = held
  PROVE  IInv' /\ LostNothing({})
<1>h. PICK have \in Nat : have = Have(t)
  BY BrkStart
<1>k. PICK k \in TaskRec : k = tasks[t]
  BY BrkStart
<1>n. PICK n \in Nat : n = want - have
  BY <1>h, Sizing
<1>0. PICK s0 : s0 = BrkState(t)
  OBVIOUS
<1>1. /\ MemOk(mem) /\ SeenOk(mem, tasks) /\ FramesOk(mem, heap, tasks) /\ LiveOk(brk_pages, live_pages)
      /\ tasks \in [Tasks -> TaskRec] /\ DOMAIN tasks = Tasks
      /\ brk_top \in [Tasks -> {NoTop} \cup 0..BrkMax] /\ brk_pages \in [Tasks -> 0..BrkMax]
      /\ have \in 0..BrkMax /\ brk_pages[t] = have /\ HaveOf(brk_top, t) = have
      /\ PagesOk(k, have) /\ Held(mem, k) /\ s0 = StartOf(mem, k)
  BY <1>h, <1>k, <1>0, BrkStart
<1>2. MapKept(mem, k, have, s0) /\ s0.mapped = 0
  BY <1>h, <1>k, <1>1, StartKept
<1>3. have + n <= BrkMax /\ have + n = want
  BY <1>h, <1>n, Sizing
<1>4. s = MapRun(s0, have, n)
  BY <1>h, <1>n, <1>0
<1>5. MapKept(mem, k, have, s) /\ AllMapped(s, n)
  BY <1>h, <1>k, <1>n, <1>1, <1>2, <1>3, <1>4, MapRunFact
<1>6. s \in MapState /\ s.mapped \in Nat /\ s.mapped <= n
  BY <1>5 DEF MapKept, MapState, AllMapped
<1>7. PICK us : us = PutTask(tasks, t, With(k, s))
  OBVIOUS
<1>8. FramesOk(s.mem, heap, us) /\ NoneLost(mem, heap, tasks, s.mem, heap, us, {}) /\ SeenOk(s.mem, tasks) /\ MemOk(s.mem)
  BY <1>k, <1>1, <1>5, <1>7, KeptStored
<1>9. PICK to \in Nat : to = have + s.mapped /\ to <= BrkMax
  BY <1>3, <1>6, <1>h, <1>n, Sizing
<1>10. PICK u : u = Unmap(s, have, to)
  OBVIOUS
<1>11. PICK vs : vs = PutTask(tasks, t, With(k, u))
  OBVIOUS
<1>12. /\ u \in MapState /\ MemOk(u.mem) /\ SeenOk(u.mem, tasks) /\ FramesOk(u.mem, heap, vs)
       /\ NoneLost(mem, heap, tasks, u.mem, heap, vs, {}) /\ u.ptab = s.ptab
       /\ Zeroed(s, u, have, to)
  <2>1. us = PutTask(tasks, t, With(tasks[t], s)) /\ vs = PutTask(tasks, t, With(tasks[t], u))
    BY <1>k, <1>7, <1>11
  <2>2. DOMAIN tasks = Tasks /\ tasks[t] \in TaskRec
    BY <1>k, <1>1
  <2>3. Stored(mem, heap, tasks, t, s)
    BY <1>6, <1>8, <2>1 DEF Stored
  <2>4. Within(have, to)
    BY <1>h, <1>9, Sizing DEF Within
  <2>5. Stored(mem, heap, tasks, t, u) /\ u.ptab = s.ptab /\ Zeroed(s, u, have, to)
    BY <1>10, <2>2, <2>3, <2>4, UnmapStored
  <2> QED BY <2>1, <2>5 DEF Stored
<1>13. PICK j : j = With(k, u)
  OBVIOUS
<1>14. /\ mem' = u.mem /\ tasks' = vs /\ j \in TaskRec /\ j.dir = k.dir /\ j.stack = k.stack
       /\ j.pte = u.pte /\ j.ptab = u.ptab
  <2>1. Store(t, u)
    BY <1>h, <1>9, <1>10
  <2> QED BY <1>k, <1>1, <1>11, <1>12, <1>13, <2>1, StoreFact
<1>15. PagesOk(j, have)
  <2>1. ASSUME NEW v \in 0..BrkMax - 1
        PROVE  (j.pte[v] # 0 <=> v < have) /\ (v < have => j.ptab[TableOf(v)] # 0)
    <3>1. j.pte[v] = (IF v \in have..to - 1 THEN 0 ELSE s.pte[v]) /\ j.ptab = s.ptab
      BY <1>12, <1>14 DEF Zeroed
    <3>2. (s.pte[v] # 0 <=> v < to) /\ (v < to => s.ptab[TableOf(v)] # 0)
      BY <1>5, <1>9 DEF MapKept
    <3>3. v \in have..to - 1 <=> (v >= have /\ v < to)
      BY <1>h, <1>9
    <3>4. v < have => v < to
      BY <1>9, <1>6, <1>h
    <3> QED BY <3>1, <3>2, <3>3, <3>4, <1>h
  <2> QED BY <2>1 DEF PagesOk
<1>16. PICK bp : bp = [brk_pages EXCEPT ![t] = have]
  OBVIOUS
<1>17. brk_pages' = bp /\ live_pages' <= MaxLive /\ LiveOk(bp, live_pages')
  BY <1>h, <1>6, <1>16, RecountFact
<1>18. brk_top[t] \in {NoTop} \cup 0..BrkMax /\ brk_top = [brk_top EXCEPT ![t] = brk_top[t]]
  BY <1>1
<1>19. Sound(u.mem, heap, held, vs, brk_top, bp, live_pages')
  <2>1. PICK top \in {NoTop} \cup 0..BrkMax : brk_top = [brk_top EXCEPT ![t] = top]
    BY <1>18
  <2>2. vs = PutTask(tasks, t, j) /\ j.dir = tasks[t].dir /\ j.stack = tasks[t].stack
    BY <1>k, <1>11, <1>13, <1>14
  <2>3. have = HaveOf(brk_top, t)
    BY <1>1
  <2> QED BY <1>12, <1>14, <1>15, <1>16, <1>17, <2>1, <2>2, <2>3, BrkSound
<1>20. IInv'
  BY <1>14, <1>17, <1>19 DEF IInv
<1>21. LostNothing({})
  BY <1>12, <1>14 DEF LostNothing
<1> QED BY <1>20, <1>21

LEMMA RefusedStep ==
  ASSUME IInv, NEW t \in Tasks, tasks[t].dir # 0, NEW need, Recount(t, need, 0),
         mem' = mem, tasks' = tasks, brk_top' = brk_top, heap' = heap, held' = held
  PROVE  IInv' /\ LostNothing({})
<1>1. /\ brk_pages \in [Tasks -> 0..BrkMax] /\ brk_pages[t] = Have(t)
  BY BrkStart
<1>2. brk_pages = [brk_pages EXCEPT ![t] = Have(t)]
  BY <1>1
<1>3. brk_pages' = brk_pages /\ live_pages' <= MaxLive /\ LiveOk(brk_pages, live_pages')
  <2>1. 0 \in Nat
    OBVIOUS
  <2> QED BY <1>2, <2>1, RecountFact
<1>4. Sound(mem, heap, held, tasks, brk_top, brk_pages, live_pages')
  BY <1>3 DEF IInv, Sound
<1>5. IInv'
  BY <1>3, <1>4 DEF IInv
<1>6. LostNothing({})
  BY DEF LostNothing, NoneLost
<1> QED BY <1>5, <1>6

LEMMA ShrinkStep ==
  ASSUME IInv, NEW t \in Tasks, tasks[t].dir # 0, NEW want \in 0..BrkMax, Shrink(t, want),
         heap' = heap, held' = held
  PROVE  IInv' /\ LostNothing({})
<1>h. PICK have \in Nat : have = Have(t)
  BY BrkStart
<1>k. PICK k \in TaskRec : k = tasks[t]
  BY BrkStart
<1>s. PICK s : s = BrkState(t)
  OBVIOUS
<1>1. /\ MemOk(mem) /\ SeenOk(mem, tasks) /\ FramesOk(mem, heap, tasks) /\ LiveOk(brk_pages, live_pages)
      /\ tasks \in [Tasks -> TaskRec] /\ DOMAIN tasks = Tasks
      /\ brk_top \in [Tasks -> {NoTop} \cup 0..BrkMax] /\ brk_pages \in [Tasks -> 0..BrkMax]
      /\ have \in 0..BrkMax /\ brk_pages[t] = have
      /\ PagesOk(k, have) /\ s = StartOf(mem, k)
  BY <1>h, <1>k, <1>s, BrkStart
<1>2. want <= have /\ want \in Nat
  BY <1>h, Sizing DEF Shrink
<1>3. s \in MapState /\ s.mem = mem /\ s.ptab = k.ptab /\ s.pte = k.pte /\ With(k, s) = k
  BY <1>1, StartFact
<1>4. PutTask(tasks, t, With(tasks[t], s)) = tasks
  BY <1>k, <1>1, <1>3 DEF PutTask
<1>5. NoneLost(mem, heap, tasks, mem, heap, tasks, {})
  BY DEF NoneLost
<1>6. Stored(mem, heap, tasks, t, s)
  BY <1>1, <1>3, <1>4, <1>5 DEF Stored
<1>7. Within(want, have)
  BY <1>1, <1>2, Sizing DEF Within
<1>8. PICK u : u = Unmap(s, want, have)
  OBVIOUS
<1>9. Stored(mem, heap, tasks, t, u) /\ u.ptab = s.ptab /\ Zeroed(s, u, want, have)
  BY <1>k, <1>1, <1>6, <1>7, <1>8, UnmapStored
<1>10. PICK j : j = With(tasks[t], u)
  OBVIOUS
<1>11. PICK vs : vs = PutTask(tasks, t, j)
  OBVIOUS
<1>12. /\ u \in MapState /\ MemOk(u.mem) /\ SeenOk(u.mem, tasks) /\ FramesOk(u.mem, heap, vs)
       /\ NoneLost(mem, heap, tasks, u.mem, heap, vs, {})
  BY <1>9, <1>10, <1>11 DEF Stored
<1>13. /\ mem' = u.mem /\ tasks' = vs /\ j \in TaskRec /\ j.dir = tasks[t].dir /\ j.stack = tasks[t].stack
       /\ j.pte = u.pte /\ j.ptab = u.ptab
  <2>1. Store(t, u)
    BY <1>h, <1>s, <1>8 DEF Shrink
  <2> QED BY <1>1, <1>10, <1>11, <1>12, <2>1, StoreFact
<1>14. PagesOk(j, want)
  <2>1. ASSUME NEW v \in 0..BrkMax - 1
        PROVE  (j.pte[v] # 0 <=> v < want) /\ (v < want => j.ptab[TableOf(v)] # 0)
    <3>1. j.pte[v] = (IF v \in want..have - 1 THEN 0 ELSE k.pte[v]) /\ j.ptab = k.ptab
      BY <1>3, <1>9, <1>13 DEF Zeroed
    <3>2. (k.pte[v] # 0 <=> v < have) /\ (v < have => k.ptab[TableOf(v)] # 0)
      BY <1>1 DEF PagesOk
    <3>3. v \in want..have - 1 <=> (v >= want /\ v < have)
      BY <1>h, <1>2
    <3>4. v < want => v < have
      BY <1>2, <1>h
    <3> QED BY <3>1, <3>2, <3>3, <3>4, <1>h, <1>2
  <2> QED BY <2>1 DEF PagesOk
<1>15. PICK bt : bt = [brk_top EXCEPT ![t] = want]
  OBVIOUS
<1>16. PICK bp : bp = [brk_pages EXCEPT ![t] = want]
  OBVIOUS
<1>17. HaveOf(bt, t) = want
  BY <1>1, <1>2, <1>15 DEF HaveOf, NoTop
<1>18. PICK d \in Int : d = want - have
  BY <1>h, <1>2
<1>19. Count(t, brk_pages[t] - (Have(t) - want), live_pages - (Have(t) - want)) /\ brk_top' = bt
  BY <1>15 DEF Shrink
<1>20. live_pages \in Nat
  BY <1>1 DEF LiveOk
<1>21. brk_pages[t] - (Have(t) - want) = want /\ live_pages - (Have(t) - want) = live_pages + d
  BY <1>h, <1>1, <1>2, <1>18, <1>20
<1>22. brk_pages' = bp /\ live_pages' = live_pages + d /\ live_pages + d <= MaxLive
  BY <1>16, <1>19, <1>21 DEF Count
<1>23. LiveOk(bp, live_pages + d)
  <2>1. d >= want - brk_pages[t]
    BY <1>1, <1>18
  <2> QED BY <1>1, <1>16, <2>1, LiveMoves
<1>24. Sound(u.mem, heap, held, vs, bt, bp, live_pages + d)
  <2>1. want \in {NoTop} \cup 0..BrkMax
    OBVIOUS
  <2> QED BY <1>11, <1>12, <1>13, <1>14, <1>15, <1>16, <1>17, <1>22, <1>23, <2>1, BrkSound
<1>25. IInv'
  BY <1>13, <1>19, <1>22, <1>24 DEF IInv
<1>26. LostNothing({})
  BY <1>12, <1>13 DEF LostNothing
<1> QED BY <1>25, <1>26

LEMMA SetBrkStep ==
  ASSUME IInv, NEW t \in Tasks, NEW want \in 0..BrkMax, SetBrk(t, want)
  PROVE  IInv' /\ LostNothing({})
<1>1. tasks[t].dir # 0 /\ heap' = heap /\ held' = held
  BY DEF SetBrk, Used
<1>2. CASE Grow(t, want)
  <2>1. PICK s : s = MapRun(BrkState(t), Have(t), want - Have(t))
    OBVIOUS
  <2>2. want > Have(t)
    BY <1>2 DEF Grow
  <2>3. \/ /\ s.ok /\ Store(t, s)
           /\ Count(t, brk_pages[t] + s.mapped, live_pages + s.mapped)
           /\ brk_top' = [brk_top EXCEPT ![t] = want]
        \/ /\ Store(t, Unmap(s, Have(t), Have(t) + s.mapped))
           /\ Recount(t, want - Have(t), s.mapped)
           /\ brk_top' = brk_top
    BY <1>2, <2>1 DEF Grow
  <2> QED BY <1>1, <2>1, <2>2, <2>3, GrowGood, GrowBad
<1>3. CASE Refused(t, want)
  BY <1>1, <1>3, RefusedStep DEF Refused
<1>4. CASE Shrink(t, want)
  BY <1>1, <1>4, ShrinkStep
<1> QED BY <1>2, <1>3, <1>4 DEF SetBrk

-----------------------------------------------------------------------------
(***************************************************************************)
(* The invariant holds from the start, and every step keeps it.            *)
(***************************************************************************)
LEMMA EmptyHeap ==
  ASSUME NEW h, h = [head |-> <<>>, next |-> 0, limit |-> 0]
  PROVE  HeapOk(h) /\ FramesIn(h) = {} /\ InUse(h.head) = {}
<1>1. h.head = <<>> /\ h.next = 0 /\ h.limit = 0 /\ h \in HeapShape
  BY DEF HeapShape
<1>2. Len(h.head) = 0 /\ Range(h.head) = {}
  BY <1>1 DEF Range
<1>3. Covered(h.head) = {}
  BY <1>2 DEF Covered
<1>4. TailWords(h) = {}
  BY <1>1 DEF TailWords
<1>5. WordsIn(h) = {}
  BY <1>3, <1>4 DEF WordsIn
<1>6. FramesIn(h) = {}
  BY <1>5 DEF FramesIn
<1>7. Apart(h.head)
  BY <1>2 DEF Apart
<1>8. HeapOk(h)
  BY <1>1, <1>3, <1>6, <1>7 DEF HeapOk, LastWhole
<1>9. InUse(h.head) = {}
  BY <1>2 DEF InUse
<1> QED BY <1>6, <1>8, <1>9

LEMMA InitInv == Init => IInv
<1> SUFFICES ASSUME Init PROVE IInv
  OBVIOUS
<1>1. /\ mem = [bitmap |-> 1..KernelFrames, pdes |-> BaseMap, seen |-> [t \in Tasks |-> {}]]
      /\ heap = [head |-> <<>>, next |-> 0, limit |-> 0]
      /\ held = {} /\ live_pages = 0
  BY DEF Init
<1>2. /\ tasks = [t \in Tasks |-> NoTask]
      /\ brk_top = [t \in Tasks |-> NoTop] /\ brk_pages = [t \in Tasks |-> 0]
  BY DEF Init
<1>3. /\ \A t \in Tasks : tasks[t] = NoTask /\ brk_top[t] = NoTop /\ brk_pages[t] = 0
      /\ tasks \in [Tasks -> TaskRec] /\ brk_top \in [Tasks -> {NoTop} \cup 0..BrkMax]
      /\ brk_pages \in [Tasks -> 0..BrkMax]
  BY <1>2, NoTaskFact, Sizing
<1>4. 1..KernelFrames \subseteq Frames
  BY Sizing DEF Frames
<1>5. mem.bitmap = 1..KernelFrames /\ mem.pdes = BaseMap /\ \A t \in Tasks : mem.seen[t] = {}
  BY <1>1
<1>6. MemOk(mem)
  <2>1. mem \in MemShape
    BY <1>1, <1>4 DEF MemShape, AllRegions
  <2> QED BY <1>5, <2>1 DEF MemOk
<1>7. SeenOk(mem, tasks)
  BY <1>3, <1>5, NoTaskFact DEF SeenOk
<1>8. HeapOk(heap) /\ FramesIn(heap) = {} /\ InUse(heap.head) = {}
  BY <1>1, EmptyHeap
<1>9. FramesOk(mem, heap, tasks)
  BY <1>3, <1>5, <1>8, NoTaskFact DEF FramesOk
<1>10. TasksOk(tasks, brk_top)
  BY <1>3 DEF TasksOk
<1>11. BrkOk(tasks, brk_top, brk_pages)
  <2>1. \A t \in Tasks : HaveOf(brk_top, t) = 0
    BY <1>3 DEF HaveOf
  <2> QED BY <1>3, <2>1, NoTaskFact DEF BrkOk
<1>12. OwnersOk(heap.head, held, tasks)
  <2>1. UsedIn(tasks) = {}
    BY <1>3, NoTaskFact DEF UsedIn
  <2>2. StackClaims(tasks) = {}
    BY <2>1 DEF StackClaims
  <2>3. ClaimsOk(heap.head, {})
    BY <1>8, FS_EmptySet DEF ClaimsOk
  <2>4. held \cup StackClaims(tasks) = {}
    BY <1>1, <2>2
  <2> QED BY <1>1, <2>1, <2>3, <2>4 DEF OwnersOk
<1>13. LiveOk(brk_pages, live_pages) /\ live_pages <= MaxLive
  <2>1. PagesOut(brk_pages) = {}
    <3>1. \A p \in Tasks \X (0..BrkMax - 1) : ~(p[2] < brk_pages[p[1]])
      BY <1>3, Sizing
    <3> QED BY <3>1 DEF PagesOut
  <2> QED BY <1>1, <2>1, FS_EmptySet, Sizing DEF LiveOk
<1> QED BY <1>6, <1>7, <1>8, <1>9, <1>10, <1>11, <1>12, <1>13 DEF IInv, Sound

(* What a step may leave behind: the page tables of a task that exits with *)
(* neither a top nor pages.                                                *)
LeftBehindIn(leak) == leak = {} \/ \E t \in Tasks : Exit(t) /\ leak = LeftBehind(t)

LEMMA NextStep ==
  ASSUME IInv, Next
  PROVE  IInv' /\ \E leak : LeftBehindIn(leak) /\ LostNothing(leak)
<1>1. ASSUME NEW size \in Sizes, Alloc(size)
      PROVE  IInv' /\ LostNothing({})
  BY <1>1, AllocStep
<1>2. ASSUME NEW b \in held, Free(b)
      PROVE  IInv' /\ LostNothing({})
  BY <1>2, FreeStep
<1>3. ASSUME NEW t \in Tasks, Launch(t)
      PROVE  IInv' /\ LostNothing({})
  BY <1>3, LaunchStep
<1>4. ASSUME NEW t \in Tasks, Exit(t)
      PROVE  IInv' /\ LostNothing(LeftBehind(t))
  BY <1>4, ExitStep
<1>5. ASSUME NEW t \in Tasks, NEW want \in 0..BrkMax, SetBrk(t, want)
      PROVE  IInv' /\ LostNothing({})
  BY <1>5, SetBrkStep
<1> QED BY <1>1, <1>2, <1>3, <1>4, <1>5 DEF Next, LeftBehindIn

LEMMA StutterStep ==
  ASSUME IInv, UNCHANGED vars
  PROVE  IInv'
BY DEF IInv, vars

(* The inductive invariant holds of every reachable state.                 *)
THEOREM Invariance == Spec => []IInv
<1>1. IInv /\ [Next]_vars => IInv'
  BY NextStep, StutterStep
<1> QED BY InitInv, <1>1, PTL DEF Spec

-----------------------------------------------------------------------------
(***************************************************************************)
(* What the invariant says in the words of the specification.              *)
(***************************************************************************)
LEMMA WordsFact ==
  ASSUME IInv
  PROVE  HeapWords = WordsIn(heap) /\ HeapFrames = FramesIn(heap) /\ \A b \in Blocks : b \in BlockRec
<1>1. heap \in HeapShape
  BY DEF IInv, Sound, HeapOk
<1>2. heap.head \in Seq(BlockRec) /\ heap.next \in Nat /\ heap.limit \in Nat
  BY <1>1 DEF HeapShape
<1>3. Blocks = {heap.head[i] : i \in 1..Len(heap.head)}
  BY <1>2 DEF Blocks, Range
<1>4. \A b \in Blocks : b \in BlockRec
  BY <1>2, <1>3
<1>5. \A b \in Blocks : \A w : w \in Span(b) <=> w \in Nat /\ On(b, w)
  <2> SUFFICES ASSUME NEW b \in Blocks, NEW w PROVE w \in Span(b) <=> w \in Nat /\ On(b, w)
    OBVIOUS
  <2>1. b.at \in Nat /\ b.size \in Nat
    BY <1>4 DEF BlockRec
  <2>2. End(b) \in Nat
    BY <2>1, Sizing DEF End
  <2> QED BY <2>1, <2>2 DEF Span, On
<1>6. UNION {Span(b) : b \in Blocks} = Covered(heap.head)
  <2>1. ASSUME NEW w PROVE w \in UNION {Span(b) : b \in Blocks} <=> w \in Covered(heap.head)
    <3>1. w \in UNION {Span(b) : b \in Blocks} <=> \E b \in Blocks : w \in Span(b)
      OBVIOUS
    <3>2. (\E b \in Blocks : w \in Span(b)) <=> w \in Nat /\ \E b \in Blocks : On(b, w)
      BY <1>5
    <3>3. (\E b \in Blocks : On(b, w)) <=> \E i \in 1..Len(heap.head) : On(heap.head[i], w)
      BY <1>3
    <3> QED BY <3>1, <3>2, <3>3 DEF Covered
  <2> QED BY <2>1
<1>7. heap.next..heap.limit - 1 = TailWords(heap)
  BY <1>2 DEF TailWords
<1>8. HeapWords = WordsIn(heap)
  BY <1>6, <1>7 DEF HeapWords, WordsIn
<1>9. HeapFrames = FramesIn(heap)
  BY <1>8 DEF HeapFrames, FramesIn
<1> QED BY <1>4, <1>8, <1>9

LEMMA ShapeFact == IInv => TypeOK
<1> SUFFICES ASSUME IInv PROVE TypeOK
  OBVIOUS
<1>1. /\ MemOk(mem) /\ HeapOk(heap) /\ TasksOk(tasks, brk_top) /\ BrkOk(tasks, brk_top, brk_pages)
      /\ LiveOk(brk_pages, live_pages) /\ live_pages <= MaxLive
  BY DEF IInv, Sound
<1>2. /\ mem.bitmap \subseteq Frames /\ mem.pdes \subseteq Regions \cup BaseMap
  BY <1>1 DEF MemOk, MemShape, AllRegions
<1>3. mem.seen \in [Tasks -> SUBSET mem.pdes]
  <2>1. mem.seen \in [Tasks -> SUBSET AllRegions]
    BY <1>1 DEF MemOk, MemShape
  <2>2. \A t \in Tasks : mem.seen[t] \subseteq mem.pdes
    BY <1>1 DEF MemOk
  <2> QED BY <2>1, <2>2
<1>4. \A b \in Blocks : b.at \in Nat /\ b.size \in Nat \ {0} /\ b.free \in BOOLEAN
  BY WordsFact DEF BlockRec
<1>5. heap.next \in 0..heap.limit
  BY <1>1 DEF HeapOk, HeapShape
<1>6. \A t \in Tasks : tasks[t].pte \in [0..BrkMax - 1 -> Frames \cup {0}]
  BY <1>1 DEF TasksOk, TaskRec, MaybeFrame
<1>7. brk_top \in [Tasks -> {NoTop} \cup 0..BrkMax] /\ brk_pages \in [Tasks -> 0..BrkMax]
  BY <1>1 DEF BrkOk
<1>8. live_pages \in 0..MaxLive
  BY <1>1, Sizing DEF LiveOk
<1> QED BY <1>2, <1>3, <1>4, <1>5, <1>6, <1>7, <1>8 DEF TypeOK

(* What one function makes of a set, no two elements to the same.          *)
LEMMA CountImage ==
  ASSUME NEW S, IsFiniteSet(S), NEW T, NEW f \in [S -> T],
         \A x, y \in S : f[x] = f[y] => x = y, \A z \in T : \E x \in S : f[x] = z
  PROVE  IsFiniteSet(T) /\ Cardinality(T) = Cardinality(S)
<1>1. f \in Bijection(S, T)
  BY DEF Bijection, Injection, Surjection, IsInjective
<1>2. ExistsBijection(S, T)
  BY <1>1 DEF ExistsBijection
<1> QED BY <1>2, FS_Bijection

LEMMA BlocksFact == IInv => HeapSound
<1> SUFFICES ASSUME IInv PROVE HeapSound
  OBVIOUS
<1>1. HeapOk(heap) /\ OwnersOk(heap.head, held, tasks)
  BY DEF IInv, Sound
<1>2. heap.head \in Seq(BlockRec) /\ heap.next \in Nat /\ heap.limit \in Nat
  BY <1>1 DEF HeapOk, HeapShape
<1>3. \A b \in BlockRec : b.at \in Nat /\ End(b) \in Nat
  BY Sizing DEF BlockRec, End
<1>4. \A i, j \in DOMAIN heap.head : i # j => Span(heap.head[i]) \cap Span(heap.head[j]) = {}
  <2> SUFFICES ASSUME NEW i \in DOMAIN heap.head, NEW j \in DOMAIN heap.head, i # j
               PROVE  Span(heap.head[i]) \cap Span(heap.head[j]) = {}
    OBVIOUS
  <2>1. i \in 1..Len(heap.head) /\ j \in 1..Len(heap.head)
    BY <1>2
  <2>2. PICK b \in BlockRec : b = heap.head[i]
    BY <1>2, <2>1
  <2>3. PICK c \in BlockRec : c = heap.head[j]
    BY <1>2, <2>1
  <2>4. Clear(b, c)
    BY <1>1, <2>1, <2>2, <2>3 DEF HeapOk, Apart
  <2>5. b.at \in Nat /\ c.at \in Nat /\ End(b) \in Nat /\ End(c) \in Nat
    BY <1>3, <2>2, <2>3
  <2>6. Span(b) \cap Span(c) = {}
    BY <2>4, <2>5 DEF Clear, Span
  <2> QED BY <2>2, <2>3, <2>6
<1>5. \A b \in Blocks : Span(b) \cap heap.next..heap.limit - 1 = {}
  <2> SUFFICES ASSUME NEW b \in Blocks PROVE Span(b) \cap heap.next..heap.limit - 1 = {}
    OBVIOUS
  <2>1. PICK i \in 1..Len(heap.head) : b = heap.head[i]
    BY <1>2 DEF Blocks, Range
  <2>2. b \in BlockRec /\ b.at \in Nat /\ End(b) \in Nat
    BY <1>3, WordsFact
  <2>3. \A w \in Span(b) : w \in Nat /\ On(b, w)
    BY <2>2 DEF Span, On
  <2>4. Span(b) \subseteq Covered(heap.head)
    BY <2>1, <2>3 DEF Covered
  <2>5. heap.next..heap.limit - 1 = TailWords(heap)
    BY <1>2 DEF TailWords
  <2> QED BY <1>1, <2>4, <2>5 DEF HeapOk
<1>6. \A x \in held \cup StackClaims(tasks) : Holds(x.at, x.size)
  <2>1. \A x \in held \cup StackClaims(tasks) : Answered(heap.head, x)
    BY <1>1 DEF OwnersOk, ClaimsOk
  <2> QED BY <2>1 DEF Answered, InUse, Holds, Blocks
<1>7. \A t \in Tasks : Used(t) => Holds(tasks[t].stack, StackSize)
  <2> SUFFICES ASSUME NEW t \in Tasks, Used(t) PROVE Holds(tasks[t].stack, StackSize)
    OBVIOUS
  <2>1. PICK x : x = StackClaim(tasks, t)
    OBVIOUS
  <2>2. x \in StackClaims(tasks)
    BY <2>1 DEF StackClaims, UsedIn, Used
  <2>3. x.at = tasks[t].stack /\ x.size = StackSize
    BY <2>1 DEF StackClaim
  <2> QED BY <1>6, <2>2, <2>3
<1>8. UsedIn(tasks) = {t \in Tasks : Used(t)} /\ InUse(heap.head) = {b \in Blocks : ~b.free}
  BY DEF UsedIn, Used, InUse, Blocks
<1>9. IsFiniteSet(UsedIn(tasks))
  <2>1. IsFiniteSet(Tasks)
    BY Sizing, FS_Interval DEF Tasks
  <2>2. UsedIn(tasks) \subseteq Tasks
    BY DEF UsedIn
  <2> QED BY <2>1, <2>2, FS_Subset
<1>10. IsFiniteSet(StackClaims(tasks)) /\ Cardinality(StackClaims(tasks)) = Cardinality(UsedIn(tasks))
  <2>1. PICK f : f = [t \in UsedIn(tasks) |-> StackClaim(tasks, t)]
    OBVIOUS
  <2>2. f \in [UsedIn(tasks) -> StackClaims(tasks)]
    BY <2>1 DEF StackClaims
  <2>3. \A t, u \in UsedIn(tasks) : f[t] = f[u] => t = u
    <3>1. \A t \in UsedIn(tasks) : f[t].at = tasks[t].stack
      BY <2>1 DEF StackClaim
    <3> QED BY <1>1, <3>1 DEF OwnersOk
  <2>4. \A z \in StackClaims(tasks) : \E t \in UsedIn(tasks) : f[t] = z
    BY <2>1 DEF StackClaims
  <2> QED BY <1>9, <2>2, <2>3, <2>4, CountImage
<1>11. Cardinality(InUse(heap.head)) = Cardinality(held) + Cardinality(UsedIn(tasks))
  <2>1. IsFiniteSet(held \cup StackClaims(tasks))
        /\ Cardinality(InUse(heap.head)) = Cardinality(held \cup StackClaims(tasks))
    BY <1>1 DEF OwnersOk, ClaimsOk
  <2>2. IsFiniteSet(held)
    BY <2>1, FS_Subset
  <2>3. Cardinality(held \cup StackClaims(tasks))
          = Cardinality(held) + Cardinality(StackClaims(tasks)) - Cardinality(held \cap StackClaims(tasks))
    BY <1>10, <2>2, FS_Union
  <2>4. Cardinality(held \cap StackClaims(tasks)) = 0
    BY <1>1, FS_EmptySet DEF OwnersOk
  <2>5. Cardinality(held) \in Nat /\ Cardinality(StackClaims(tasks)) \in Nat
    BY <1>10, <2>2, FS_CardinalityType
  <2> QED BY <1>10, <2>1, <2>3, <2>4, <2>5
<1>12. \A x \in held : Holds(x.at, x.size)
  BY <1>6
<1> QED BY <1>4, <1>5, <1>7, <1>8, <1>11, <1>12 DEF HeapSound

(* The frames of a task are what its slots name, each by one slot.         *)
SlotsUsed(k) == {s \in Slots : FrameAt(k, s) # 0}
NamedBy(k) == {FrameAt(k, s) : s \in SlotsUsed(k)}
NameSlots(k) == {s \in SlotsUsed(k) : s[2] = 0 /\ s[1] \in {"dir", "table", "page", "window"}}
TableSlots(k) == {s \in SlotsUsed(k) : s[1] = "ptab"}
PageSlots(k) == {s \in SlotsUsed(k) : s[1] = "pte"}

LEMMA NamedByFact ==
  ASSUME IInv, NEW t \in Tasks
  PROVE  TaskFrames(t) = NamedBy(tasks[t]) /\ DirFrames(t) \cup (Range(tasks[t].ptab) \ {0}) \subseteq TaskFrames(t)
<1>k. PICK k \in TaskRec : k = tasks[t]
  BY DEF IInv, Sound, TasksOk
<1>h. PICK have \in Nat : have = Have(t)
  BY BrkStart
<1>1. PagesOk(k, have) /\ have \in 0..BrkMax
  BY <1>k, <1>h, BrkStart
<1>2. DOMAIN k.ptab = BrkTables /\ DOMAIN k.pte = 0..BrkMax - 1
  BY DEF TaskRec
<1>3. DirFrames(t) = {k.dir, k.table, k.page, k.window} \ {0}
  BY <1>k DEF DirFrames
<1>4. BrkFrames(t) = ({k.pte[v] : v \in 0..BrkMax - 1} \cup {k.ptab[i] : i \in BrkTables}) \ {0}
  <2>1. BrkFrames(t) = ({k.pte[v] : v \in 0..have - 1} \cup {k.ptab[i] : i \in BrkTables}) \ {0}
    BY <1>k, <1>h DEF BrkFrames
  <2>2. \A v \in 0..BrkMax - 1 : k.pte[v] # 0 => v \in 0..have - 1
    BY <1>1 DEF PagesOk
  <2>3. \A v \in 0..have - 1 : v \in 0..BrkMax - 1
    BY <1>1, Sizing
  <2>4. {k.pte[v] : v \in 0..have - 1} \ {0} = {k.pte[v] : v \in 0..BrkMax - 1} \ {0}
    BY <2>2, <2>3
  <2> QED BY <2>1, <2>4
<1>5. /\ \A f \in DirFrames(t) : f \in NamedBy(k)
      /\ \A i \in BrkTables : k.ptab[i] # 0 => k.ptab[i] \in NamedBy(k)
      /\ \A v \in 0..BrkMax - 1 : k.pte[v] # 0 => k.pte[v] \in NamedBy(k)
  <2>1. \A s \in Slots : FrameAt(k, s) # 0 => FrameAt(k, s) \in NamedBy(k)
    BY DEF NamedBy, SlotsUsed
  <2>2. \A f \in DirFrames(t) : f \in NamedBy(k)
    <3>1. {<<"dir", 0>>, <<"table", 0>>, <<"page", 0>>, <<"window", 0>>} \subseteq Slots
      BY SlotKinds
    <3>2. /\ FrameAt(k, <<"dir", 0>>) = k.dir /\ FrameAt(k, <<"table", 0>>) = k.table
          /\ FrameAt(k, <<"page", 0>>) = k.page /\ FrameAt(k, <<"window", 0>>) = k.window
      BY SlotFrames
    <3> QED BY <1>3, <2>1, <3>1, <3>2
  <2>3. ASSUME NEW i \in BrkTables, k.ptab[i] # 0 PROVE k.ptab[i] \in NamedBy(k)
    <3>1. <<"ptab", i>> \in Slots /\ FrameAt(k, <<"ptab", i>>) = k.ptab[i]
      BY SlotKinds, SlotFrames
    <3> QED BY <2>1, <2>3, <3>1
  <2>4. ASSUME NEW v \in 0..BrkMax - 1, k.pte[v] # 0 PROVE k.pte[v] \in NamedBy(k)
    <3>1. <<"pte", v>> \in Slots /\ FrameAt(k, <<"pte", v>>) = k.pte[v]
      BY SlotKinds, SlotFrames
    <3> QED BY <2>1, <2>4, <3>1
  <2> QED BY <2>2, <2>3, <2>4
<1>6. \A f \in NamedBy(k) : f \in DirFrames(t) \/ f \in BrkFrames(t)
  <2> SUFFICES ASSUME NEW s \in SlotsUsed(k) PROVE FrameAt(k, s) \in DirFrames(t) \/ FrameAt(k, s) \in BrkFrames(t)
    BY DEF NamedBy
  <2>1. s \in Slots /\ FrameAt(k, s) # 0
    BY DEF SlotsUsed
  <2>2. CASE s \in {<<"dir", 0>>, <<"table", 0>>, <<"page", 0>>, <<"window", 0>>}
    BY <1>3, <2>1, <2>2, SlotFrames
  <2>3. CASE \E i \in BrkTables : s = <<"ptab", i>>
    BY <1>4, <2>1, <2>3, SlotFrames
  <2>4. CASE \E v \in 0..BrkMax - 1 : s = <<"pte", v>>
    BY <1>4, <2>1, <2>4, SlotFrames
  <2> QED BY <2>1, <2>2, <2>3, <2>4, SlotKinds
<1>7. TaskFrames(t) = NamedBy(k)
  <2>1. \A f \in BrkFrames(t) : f \in NamedBy(k)
    BY <1>4, <1>5
  <2> QED BY <1>5, <1>6, <2>1 DEF TaskFrames
<1>8. \A f \in Range(k.ptab) \ {0} : f \in NamedBy(k)
  BY <1>2, <1>5 DEF Range
<1> QED BY <1>k, <1>5, <1>7, <1>8

LEMMA OwnedFact == IInv => \A f : f \in Owned <=> OwnedIn(heap, tasks, f)
<1> SUFFICES ASSUME IInv, NEW f PROVE f \in Owned <=> OwnedIn(heap, tasks, f)
  OBVIOUS
<1>1. HeapFrames = FramesIn(heap)
  BY WordsFact
<1>2. \A t \in Tasks : TaskFrames(t) = NamedBy(tasks[t])
  BY NamedByFact
<1>3. f \in UNION {TaskFrames(t) : t \in Tasks} <=> \E t \in Tasks : f \in NamedBy(tasks[t])
  BY <1>2
<1>4. (\E t \in Tasks : f \in NamedBy(tasks[t])) <=> Named(tasks, f)
  BY DEF Named, NamedBy, SlotsUsed
<1> QED BY <1>1, <1>3, <1>4 DEF Owned, OwnedIn

(* Uses counts the slots that name a frame.                                *)
LEMMA UsesFact ==
  ASSUME NEW t \in Tasks, tasks[t] \in TaskRec
  PROVE  IsFiniteSet(SlotsUsed(tasks[t])) /\ Cardinality(SlotsUsed(tasks[t])) = Uses(t)
<1>k. PICK k \in TaskRec : k = tasks[t]
  OBVIOUS
<1>d. PICK D : D = {x \in {"dir", "table", "page", "window"} : k[x] # 0}
  OBVIOUS
<1>p. PICK P : P = {i \in BrkTables : k.ptab[i] # 0}
  OBVIOUS
<1>v. PICK V : V = {v \in 0..BrkMax - 1 : k.pte[v] # 0}
  OBVIOUS
<1>1. Uses(t) = Cardinality(D) + Cardinality(P) + Cardinality(V)
  BY <1>k, <1>d, <1>p, <1>v DEF Uses
<1>2. IsFiniteSet(D) /\ IsFiniteSet(P) /\ IsFiniteSet(V)
  <2>1. IsFiniteSet({"dir", "table", "page", "window"})
    <3>1. IsFiniteSet({"dir"}) /\ IsFiniteSet({"table"}) /\ IsFiniteSet({"page"}) /\ IsFiniteSet({"window"})
      BY FS_Singleton
    <3>2. IsFiniteSet({"dir"} \cup {"table"}) /\ IsFiniteSet({"page"} \cup {"window"})
      BY <3>1, FS_Union
    <3>3. IsFiniteSet(({"dir"} \cup {"table"}) \cup ({"page"} \cup {"window"}))
      BY <3>2, FS_Union
    <3>4. ({"dir"} \cup {"table"}) \cup ({"page"} \cup {"window"}) = {"dir", "table", "page", "window"}
      OBVIOUS
    <3> QED BY <3>3, <3>4
  <2>2. IsFiniteSet(0..BrkMax - 1)
    BY Sizing, FS_Interval
  <2>3. IsFiniteSet(BrkTables)
    <3>1. (BrkMax - 1) \div TablePages \in Int
      BY Sizing
    <3> QED BY <3>1, FS_Interval DEF BrkTables
  <2>4. D \subseteq {"dir", "table", "page", "window"} /\ P \subseteq BrkTables /\ V \subseteq 0..BrkMax - 1
    BY <1>d, <1>p, <1>v
  <2> QED BY <2>1, <2>2, <2>3, <2>4, FS_Subset
<1>3. IsFiniteSet(NameSlots(k)) /\ Cardinality(NameSlots(k)) = Cardinality(D)
  <2>1. PICK g : g = [x \in D |-> <<x, 0>>]
    OBVIOUS
  <2>2. k["dir"] = k.dir /\ k["table"] = k.table /\ k["page"] = k.page /\ k["window"] = k.window
    OBVIOUS
  <2>3. \A x \in {"dir", "table", "page", "window"} : <<x, 0>> \in Slots /\ FrameAt(k, <<x, 0>>) = k[x]
    BY <2>2, SlotKinds, SlotFrames
  <2>4. \A x \in D : <<x, 0>> \in NameSlots(k)
    BY <1>d, <2>3 DEF NameSlots, SlotsUsed
  <2>5. g \in [D -> NameSlots(k)]
    BY <2>1, <2>4
  <2>6. \A s \in NameSlots(k) : s[1] \in D /\ s = <<s[1], 0>>
    <3> SUFFICES ASSUME NEW s \in NameSlots(k) PROVE s[1] \in D /\ s = <<s[1], 0>>
      OBVIOUS
    <3>1. s \in Slots /\ FrameAt(k, s) # 0 /\ s[2] = 0 /\ s[1] \in {"dir", "table", "page", "window"}
      BY DEF NameSlots, SlotsUsed
    <3>2. s = <<s[1], 0>>
      BY <3>1 DEF Slots
    <3> QED BY <1>d, <2>3, <3>1, <3>2
  <2>7. \A x, y \in D : g[x] = g[y] => x = y
    BY <2>1
  <2>8. \A s \in NameSlots(k) : \E x \in D : g[x] = s
    BY <2>1, <2>6
  <2> QED BY <1>2, <2>5, <2>7, <2>8, CountImage
<1>4. IsFiniteSet(TableSlots(k)) /\ Cardinality(TableSlots(k)) = Cardinality(P)
  <2>1. PICK g : g = [i \in P |-> <<"ptab", i>>]
    OBVIOUS
  <2>2. \A i \in P : <<"ptab", i>> \in TableSlots(k)
    <3>1. ASSUME NEW i \in P, NEW s, s = <<"ptab", i>> PROVE s \in TableSlots(k)
      <4>1. s \in Slots /\ FrameAt(k, s) = k.ptab[i] /\ k.ptab[i] # 0 /\ s[1] = "ptab"
        BY <1>p, <3>1, SlotKinds, SlotFrames
      <4> QED BY <4>1 DEF TableSlots, SlotsUsed
    <3> QED BY <3>1
  <2>3. g \in [P -> TableSlots(k)]
    BY <2>1, <2>2
  <2>4. \A s \in TableSlots(k) : \E i \in P : s = <<"ptab", i>>
    <3> SUFFICES ASSUME NEW s \in TableSlots(k) PROVE \E i \in P : s = <<"ptab", i>>
      OBVIOUS
    <3>1. s \in Slots /\ FrameAt(k, s) # 0 /\ s[1] = "ptab"
      BY DEF TableSlots, SlotsUsed
    <3>2. PICK i \in BrkTables : s = <<"ptab", i>>
      BY <3>1 DEF Slots
    <3>3. k.ptab[i] # 0
      BY <3>1, <3>2, SlotFrames
    <3> QED BY <1>p, <3>2, <3>3
  <2>5. \A x, y \in P : g[x] = g[y] => x = y
    BY <2>1
  <2>6. \A s \in TableSlots(k) : \E x \in P : g[x] = s
    BY <2>1, <2>4
  <2> QED BY <1>2, <2>3, <2>5, <2>6, CountImage
<1>5. IsFiniteSet(PageSlots(k)) /\ Cardinality(PageSlots(k)) = Cardinality(V)
  <2>1. PICK g : g = [v \in V |-> <<"pte", v>>]
    OBVIOUS
  <2>2. \A v \in V : <<"pte", v>> \in PageSlots(k)
    <3>1. ASSUME NEW v \in V, NEW s, s = <<"pte", v>> PROVE s \in PageSlots(k)
      <4>1. s \in Slots /\ FrameAt(k, s) = k.pte[v] /\ k.pte[v] # 0 /\ s[1] = "pte"
        BY <1>v, <3>1, SlotKinds, SlotFrames
      <4> QED BY <4>1 DEF PageSlots, SlotsUsed
    <3> QED BY <3>1
  <2>3. g \in [V -> PageSlots(k)]
    BY <2>1, <2>2
  <2>4. \A s \in PageSlots(k) : \E v \in V : s = <<"pte", v>>
    <3> SUFFICES ASSUME NEW s \in PageSlots(k) PROVE \E v \in V : s = <<"pte", v>>
      OBVIOUS
    <3>1. s \in Slots /\ FrameAt(k, s) # 0 /\ s[1] = "pte"
      BY DEF PageSlots, SlotsUsed
    <3>2. PICK v \in 0..BrkMax - 1 : s = <<"pte", v>>
      BY <3>1 DEF Slots
    <3>3. k.pte[v] # 0
      BY <3>1, <3>2, SlotFrames
    <3> QED BY <1>v, <3>2, <3>3
  <2>5. \A x, y \in V : g[x] = g[y] => x = y
    BY <2>1
  <2>6. \A s \in PageSlots(k) : \E x \in V : g[x] = s
    BY <2>1, <2>4
  <2> QED BY <1>2, <2>3, <2>5, <2>6, CountImage
<1>6. PICK B : B = TableSlots(k) \cup PageSlots(k)
  OBVIOUS
<1>7. TableSlots(k) \cap PageSlots(k) = {} /\ NameSlots(k) \cap B = {}
  <2>1. /\ \A s \in TableSlots(k) : s[1] = "ptab"
        /\ \A s \in PageSlots(k) : s[1] = "pte"
        /\ \A s \in NameSlots(k) : s[1] \in {"dir", "table", "page", "window"}
    BY DEF TableSlots, PageSlots, NameSlots
  <2> QED BY <1>6, <2>1
<1>8. SlotsUsed(k) = NameSlots(k) \cup B
  <2>1. \A s \in SlotsUsed(k) : s \in NameSlots(k) \/ s \in TableSlots(k) \/ s \in PageSlots(k)
    <3> SUFFICES ASSUME NEW s \in SlotsUsed(k) PROVE s \in NameSlots(k) \/ s \in TableSlots(k) \/ s \in PageSlots(k)
      OBVIOUS
    <3>1. s \in Slots
      BY DEF SlotsUsed
    <3>2. (s[2] = 0 /\ s[1] \in {"dir", "table", "page", "window"}) \/ s[1] = "ptab" \/ s[1] = "pte"
      BY <3>1, SlotKinds
    <3> QED BY <3>2 DEF NameSlots, TableSlots, PageSlots
  <2>2. NameSlots(k) \subseteq SlotsUsed(k) /\ TableSlots(k) \subseteq SlotsUsed(k) /\ PageSlots(k) \subseteq SlotsUsed(k)
    BY DEF NameSlots, TableSlots, PageSlots
  <2> QED BY <1>6, <2>1, <2>2
<1>9. IsFiniteSet(B) /\ Cardinality(B) = Cardinality(P) + Cardinality(V)
  <2>1. IsFiniteSet(B) /\ Cardinality(B) = Cardinality(TableSlots(k)) + Cardinality(PageSlots(k)) - 0
    BY <1>4, <1>5, <1>6, <1>7, FS_Union, FS_EmptySet
  <2>2. Cardinality(P) \in Nat /\ Cardinality(V) \in Nat
    BY <1>2, FS_CardinalityType
  <2> QED BY <1>4, <1>5, <2>1, <2>2
<1>10. IsFiniteSet(SlotsUsed(k)) /\ Cardinality(SlotsUsed(k)) = Cardinality(D) + Cardinality(B)
  <2>1. IsFiniteSet(SlotsUsed(k)) /\ Cardinality(SlotsUsed(k)) = Cardinality(NameSlots(k)) + Cardinality(B) - 0
    BY <1>3, <1>7, <1>8, <1>9, FS_Union, FS_EmptySet
  <2>2. Cardinality(D) \in Nat /\ Cardinality(B) \in Nat
    BY <1>2, <1>9, FS_CardinalityType
  <2> QED BY <1>3, <2>1, <2>2
<1>11. Cardinality(D) \in Nat /\ Cardinality(P) \in Nat /\ Cardinality(V) \in Nat
  BY <1>2, FS_CardinalityType
<1> QED BY <1>k, <1>1, <1>9, <1>10, <1>11

LEMMA FramesFact == IInv => FramesApart
<1> SUFFICES ASSUME IInv PROVE FramesApart
  OBVIOUS
<1>1. FramesOk(mem, heap, tasks) /\ tasks \in [Tasks -> TaskRec]
  BY DEF IInv, Sound, TasksOk
<1>2. HeapFrames = FramesIn(heap)
  BY WordsFact
<1>3. \A t \in Tasks : TaskFrames(t) = NamedBy(tasks[t])
  BY NamedByFact
<1>4. \A t \in Tasks : \A f \in NamedBy(tasks[t]) : f # 0 /\ \E s \in Slots : FrameAt(tasks[t], s) = f
  BY DEF NamedBy, SlotsUsed
<1>5. Owned \subseteq mem.bitmap
  <2> SUFFICES ASSUME NEW f \in Owned PROVE f \in mem.bitmap
    OBVIOUS
  <2>1. OwnedIn(heap, tasks, f)
    BY OwnedFact
  <2> QED BY <1>1, <2>1 DEF OwnedIn, Named, FramesOk
<1>6. ASSUME NEW t \in Tasks PROVE TaskFrames(t) \cap (1..KernelFrames \cup HeapFrames) = {}
  <2>1. \A f \in NamedBy(tasks[t]) : f \notin 1..KernelFrames /\ f \notin FramesIn(heap)
    BY <1>1, <1>4 DEF FramesOk
  <2> QED BY <1>2, <1>3, <2>1
<1>7. ASSUME NEW t \in Tasks PROVE Cardinality(TaskFrames(t)) = Uses(t)
  <2>k. PICK k : k = tasks[t]
    OBVIOUS
  <2>1. IsFiniteSet(SlotsUsed(k)) /\ Cardinality(SlotsUsed(k)) = Uses(t)
    BY <2>k, <1>1, UsesFact
  <2>2. PICK g : g = [s \in SlotsUsed(k) |-> FrameAt(k, s)]
    OBVIOUS
  <2>3. g \in [SlotsUsed(k) -> NamedBy(k)]
    BY <2>2 DEF NamedBy
  <2>4. ASSUME NEW s \in SlotsUsed(k), NEW r \in SlotsUsed(k), g[s] = g[r] PROVE s = r
    <3>1. s \in Slots /\ r \in Slots /\ FrameAt(k, s) # 0 /\ FrameAt(k, s) = FrameAt(k, r)
      BY <2>2, <2>4 DEF SlotsUsed
    <3> QED BY <1>1, <2>k, <3>1 DEF FramesOk
  <2>5. \A f \in NamedBy(k) : \E s \in SlotsUsed(k) : g[s] = f
    BY <2>2 DEF NamedBy
  <2>6. Cardinality(NamedBy(k)) = Cardinality(SlotsUsed(k))
    BY <2>1, <2>3, <2>4, <2>5, CountImage
  <2> QED BY <1>3, <2>k, <2>1, <2>6
<1>8. ASSUME NEW t \in Tasks, NEW u \in Tasks \ {t} PROVE TaskFrames(t) \cap TaskFrames(u) = {}
  <2>1. ASSUME NEW f \in NamedBy(tasks[t]), f \in NamedBy(tasks[u]) PROVE FALSE
    <3>1. f # 0
      BY <1>4
    <3>2. PICK s \in Slots : FrameAt(tasks[t], s) = f
      BY <1>4
    <3>3. PICK r \in Slots : FrameAt(tasks[u], r) = f
      BY <1>4, <2>1
    <3> QED BY <1>1, <3>1, <3>2, <3>3 DEF FramesOk
  <2> QED BY <1>3, <2>1
<1> QED BY <1>5, <1>6, <1>7, <1>8 DEF FramesApart

LEMMA DirectoriesFact == IInv => NoDrift
BY DEF IInv, Sound, MemOk, SeenOk, NoDrift, Used

LEMMA PagesFact == IInv => PagesHonest
<1> SUFFICES ASSUME IInv, NEW t \in Tasks
             PROVE  /\ brk_pages[t] = Have(t)
                    /\ \A v \in 0..BrkMax - 1 : tasks[t].pte[v] # 0 <=> v < Have(t)
                    /\ \A v \in 0..Have(t) - 1 : tasks[t].ptab[TableOf(v)] # 0
  BY DEF PagesHonest
<1>1. brk_pages[t] = Have(t) /\ PagesOk(tasks[t], Have(t)) /\ Have(t) \in 0..BrkMax
  BY BrkStart
<1>2. \A v \in 0..Have(t) - 1 : v \in 0..BrkMax - 1 /\ v < Have(t)
  BY <1>1, Sizing
<1> QED BY <1>1, <1>2 DEF PagesOk

(* What a frame of the heap misses is at its end.                          *)
LEMMA TailFact ==
  ASSUME NEW n \in Nat, NEW e \in Nat, NEW S, S \subseteq e - n..e - 1
  PROVE  Cardinality(S) <= n
<1>1. IsFiniteSet(e - n..e - 1) /\ Cardinality(e - n..e - 1) = n
  <2>1. e - n \in Int /\ e - 1 \in Int
    OBVIOUS
  <2>2. IsFiniteSet(e - n..e - 1)
        /\ Cardinality(e - n..e - 1) = IF e - n > e - 1 THEN 0 ELSE (e - 1) - (e - n) + 1
    BY <2>1, FS_Interval
  <2> QED BY <2>2
<1> QED BY <1>1, FS_Subset

LEMMA NoWordFact == IInv => NoWordLost
<1> SUFFICES ASSUME IInv, NEW f \in HeapFrames
             PROVE  Cardinality(WordsOf(f) \ HeapWords) < Header + MinSplit
  BY DEF NoWordLost
<1>1. HeapWords = WordsIn(heap) /\ HeapFrames = FramesIn(heap) /\ HeapOk(heap)
  BY WordsFact DEF IInv, Sound
<1>2. f \in Nat /\ Short(f, WordsIn(heap))
  BY <1>1, FrameNumbers DEF HeapOk
<1>3. PICK n \in Nat : /\ n < Header + MinSplit
                       /\ \A w \in WordsOf(f) : w < (f + 1) * FrameWords - n => w \in WordsIn(heap)
  BY <1>2 DEF Short
<1>4. PICK e \in Nat : e = (f + 1) * FrameWords
  BY <1>2, Sizing
<1>5. PICK d \in Nat : d = f * FrameWords
  BY <1>2, Sizing
<1>6. \A w \in WordsOf(f) : w \in d..e - 1
  BY <1>4, <1>5 DEF WordsOf
<1>7. PICK S : S = WordsOf(f) \ HeapWords
  OBVIOUS
<1>8. S \subseteq e - n..e - 1
  <2> SUFFICES ASSUME NEW w \in S PROVE w \in e - n..e - 1
    OBVIOUS
  <2>1. w \in WordsOf(f) /\ w \notin WordsIn(heap) /\ w \in d..e - 1
    BY <1>1, <1>6, <1>7
  <2>2. ~(w < e - n)
    BY <1>3, <1>4, <2>1
  <2> QED BY <2>1, <2>2
<1>9. Cardinality(S) <= n
  BY <1>8, TailFact
<1>10. Cardinality(S) \in Nat
  <2>1. IsFiniteSet(e - n..e - 1)
    BY FS_Interval
  <2> QED BY <1>8, <2>1, FS_Subset, FS_CardinalityType
<1> QED BY <1>3, <1>7, <1>9, <1>10, Sizing

(* No word and no frame has two owners, every frame with an owner is       *)
(* taken, every directory has the kernel's half and the heap loses no      *)
(* block's worth of words: kmalloc, kfree, the launch and the end of a     *)
(* program and SYS_BRK together, in any order.                             *)
THEOREM MemoryIsSound == Spec => []MemorySound
<1>1. IInv => MemorySound
  BY ShapeFact, BlocksFact, FramesFact, DirectoriesFact, NoWordFact DEF MemorySound
<1> QED BY Invariance, <1>1, PTL

(* brk_pages is what the tables map, whatever brk_set refused.             *)
THEOREM PagesAreHonest == Spec => []PagesHonest
BY Invariance, PagesFact, PTL

(* grow_heap never leaves a block's worth of words behind.                 *)
THEOREM NoWordIsLost == Spec => []NoWordLost
BY Invariance, NoWordFact, PTL

(* Every step tracks the frames.                                           *)
OwnersKnown == \A f : f \in Owned <=> OwnedIn(heap, tasks, f)

LEMMA TrackedStep ==
  ASSUME IInv, OwnersKnown, OwnersKnown', [Next]_vars
  PROVE  FramesTracked
<1>1. /\ \A f : f \in Owned <=> OwnedIn(heap, tasks, f)
      /\ \A f : f \in Owned' <=> OwnedIn(heap', tasks', f)
  BY DEF OwnersKnown
<1>2. CASE UNCHANGED vars
  <2>1. mem' = mem /\ heap' = heap /\ tasks' = tasks
    BY <1>2 DEF vars
  <2>2. \A f : f \in Owned <=> f \in Owned'
    BY <1>1, <2>1
  <2> QED BY <2>1, <2>2 DEF FramesTracked
<1>3. CASE Next
  <2>1. PICK leak : LeftBehindIn(leak) /\ LostNothing(leak)
    BY <1>3, NextStep
  <2>2. /\ \A f \in mem'.bitmap \ mem.bitmap : OwnedIn(heap', tasks', f)
        /\ \A f : OwnedIn(heap, tasks, f) /\ ~OwnedIn(heap', tasks', f) => f \notin mem'.bitmap \/ f \in leak
    BY <2>1 DEF LostNothing, NoneLost
  <2>3. \A f \in leak : \E t \in Tasks : NeverGrew(t) /\ ~Used(t)' /\ f \in Range(tasks[t].ptab)
    <3> SUFFICES ASSUME NEW f \in leak
                 PROVE  \E t \in Tasks : NeverGrew(t) /\ ~Used(t)' /\ f \in Range(tasks[t].ptab)
      OBVIOUS
    <3>1. PICK t \in Tasks : Exit(t) /\ leak = LeftBehind(t)
      BY <2>1 DEF LeftBehindIn
    <3>2. Idle(t) /\ f \in {tasks[t].ptab[i] : i \in BrkTables}
      BY <3>1 DEF LeftBehind
    <3>3. tasks \in [Tasks -> TaskRec]
      BY DEF IInv, Sound, TasksOk
    <3>4. DOMAIN tasks[t].ptab = BrkTables
      BY <3>3 DEF TaskRec
    <3>5. f \in Range(tasks[t].ptab)
      BY <3>2, <3>4 DEF Range
    <3>6. Used(t) /\ tasks' = [tasks EXCEPT ![t] = NoTask]
      BY <3>1 DEF Exit
    <3>7. tasks'[t].dir = 0
      BY <3>3, <3>6, NoTaskFact
    <3> QED BY <3>2, <3>5, <3>6, <3>7 DEF NeverGrew, Used
  <2> QED BY <1>1, <2>2, <2>3 DEF FramesTracked
<1> QED BY <1>2, <1>3

(* No call takes a frame for nobody, and none but the end of a task whose  *)
(* first SYS_BRK failed leaves a frame taken that has lost its owner.      *)
THEOREM NoFrameIsLost == Spec => NoFrameLost
<1>1. IInv => OwnersKnown
  BY OwnedFact DEF OwnersKnown
<1>2. IInv /\ OwnersKnown /\ OwnersKnown' /\ [Next]_vars => [FramesTracked]_vars
  BY TrackedStep
<1> QED BY Invariance, <1>1, <1>2, PTL DEF Spec, NoFrameLost
-----------------------------------------------------------------------------
(***************************************************************************)
(* The refinement of Allocator.  What is given out is a block in use       *)
(* behind its header, or a frame of a task's: the first part says that     *)
(* these are apart, the second follows each call.                          *)
(***************************************************************************)
LEMMA TimesFact ==
  ASSUME NEW f \in Nat, NEW g \in Nat, f < g
  PROVE  f * FrameWords + FrameWords <= g * FrameWords
<1> PICK n \in Nat : n = FrameWords
  BY Sizing
<1>1. f + 1 <= g
  OBVIOUS
<1>2. (f + 1) * n <= g * n
  BY Z3, <1>1
<1>3. (f + 1) * n = f * n + n
  BY Z3
<1> QED BY <1>2, <1>3

LEMMA InFrameFact ==
  ASSUME NEW w \in Nat, NEW f \in Nat, f * FrameWords <= w, w < f * FrameWords + FrameWords
  PROVE  w \div FrameWords = f
<1> PICK g \in Nat : g = w \div FrameWords
  BY DivisionFact, Sizing
<1> PICK a \in Nat, b \in Nat, n \in Nat : a = f * FrameWords /\ b = g * FrameWords /\ n = FrameWords
  BY Sizing
<1>1. b <= w /\ w < b + n /\ a <= w /\ w < a + n
  BY DivisionFact, Sizing
<1>2. ~(f < g)
  <2> SUFFICES ASSUME f < g PROVE FALSE
    OBVIOUS
  <2>1. a + n <= b
    BY TimesFact
  <2> QED BY ONLY <1>1, <2>1, a \in Nat, b \in Nat, n \in Nat, w \in Nat
<1>3. ~(g < f)
  <2> SUFFICES ASSUME g < f PROVE FALSE
    OBVIOUS
  <2>1. b + n <= a
    BY TimesFact
  <2> QED BY ONLY <1>1, <2>1, a \in Nat, b \in Nat, n \in Nat, w \in Nat
<1> QED BY <1>2, <1>3

(* A range, by its first word and its length. *)
Beside(at, size, to, len) == at + size <= to \/ to + len <= at
LowWord == (KernelFrames + 1) * FrameWords
HighWord == (NFrames + 1) * FrameWords

LEMMA FramesBeside ==
  ASSUME NEW f \in Frames, NEW g \in Frames, f # g
  PROVE  Beside(f * FrameWords, FrameWords, g * FrameWords, FrameWords)
<1>1. f \in Nat /\ g \in Nat
  BY FrameNumbers
<1>2. f < g \/ g < f
  BY <1>1
<1> QED BY <1>1, <1>2, TimesFact DEF Beside

LEMMA FrameRoom ==
  ASSUME NEW f \in Frames, f \notin 1..KernelFrames
  PROVE  LowWord <= f * FrameWords /\ f * FrameWords + FrameWords <= HighWord
<1>1. f \in Nat /\ KernelFrames + 1 \in Nat /\ NFrames + 1 \in Nat /\ f < NFrames + 1
  BY Sizing DEF Frames
<1>2. KernelFrames + 1 <= f
  BY Sizing DEF Frames
<1>3. f * FrameWords + FrameWords <= HighWord
  BY <1>1, TimesFact DEF HighWord
<1>4. CASE KernelFrames + 1 = f
  <2> PICK a \in Nat : a = f * FrameWords
    BY <1>1, Sizing
  <2>1. LowWord = a
    BY <1>4 DEF LowWord
  <2> QED BY <1>3, <2>1
<1>5. CASE KernelFrames + 1 < f
  <2>1. (KernelFrames + 1) * FrameWords + FrameWords <= f * FrameWords
    BY <1>1, <1>5, TimesFact
  <2> PICK a \in Nat, b \in Nat, n \in Nat : a = (KernelFrames + 1) * FrameWords /\ b = f * FrameWords /\ n = FrameWords
    BY <1>1, Sizing
  <2>2. LowWord = a /\ a + n <= b
    BY <2>1 DEF LowWord
  <2>3. LowWord <= b
    BY <2>2
  <2> QED BY <1>3, <2>3
<1> QED BY <1>1, <1>2, <1>3, <1>4, <1>5

(* The block a claim names: its words are the heap's. *)
LEMMA ClaimBlock ==
  ASSUME NEW h, HeapOk(h), NEW c \in ClaimRec, Answered(h.head, c)
  PROVE  /\ c.at \in Nat /\ c.size \in Nat
         /\ \E i \in 1..Len(h.head) : /\ h.head[i] \in BlockRec /\ h.head[i].at = c.at
                                      /\ c.at + Header + c.size <= End(h.head[i])
         /\ \A w \in Nat : c.at <= w /\ w < c.at + Header + c.size => w \div FrameWords \in FramesIn(h)
<1>1. PICK b \in InUse(h.head) : b.at = c.at /\ b.size >= c.size
  BY DEF Answered
<1>2. h.head \in Seq(BlockRec)
  BY DEF HeapOk, HeapShape
<1>3. PICK i \in 1..Len(h.head) : b = h.head[i]
  BY <1>2 DEF InUse, Range
<1>4. b \in BlockRec
  BY <1>2, <1>3
<1>5. c.at \in Nat /\ c.size \in Nat /\ b.size \in Nat
  BY <1>4 DEF ClaimRec, BlockRec
<1>6. c.at + Header + c.size <= End(b)
  BY <1>1, <1>5, Sizing DEF End
<1>7. ASSUME NEW w \in Nat, c.at <= w, w < c.at + Header + c.size
      PROVE  w \div FrameWords \in FramesIn(h)
  <2>1. On(b, w)
    <3>1. End(b) \in Nat
      BY <1>1, <1>5, Sizing DEF End
    <3> QED BY <1>1, <1>5, <1>6, <1>7, <3>1, Sizing DEF On
  <2>2. w \in WordsIn(h)
    BY <1>3, <2>1 DEF WordsIn, Covered
  <2> QED BY <2>2 DEF FramesIn
<1> QED BY <1>1, <1>3, <1>4, <1>5, <1>6, <1>7

(* Claims on the heap lie in its memory, apart from each other and from    *)
(* every frame that is not the heap's.                                     *)
LEMMA ClaimRoom ==
  ASSUME NEW h, HeapOk(h), FramesIn(h) \cap 1..KernelFrames = {}, NEW c \in ClaimRec, Answered(h.head, c)
  PROVE  LowWord <= c.at + Header /\ c.at + Header + c.size <= HighWord
<1>1. /\ c.at \in Nat /\ c.size \in Nat
      /\ \A w \in Nat : c.at <= w /\ w < c.at + Header + c.size => w \div FrameWords \in FramesIn(h)
  BY ClaimBlock
<1>2. FramesIn(h) \subseteq Frames
  BY DEF HeapOk
<1>3. ASSUME NEW w \in Nat, c.at <= w, w < c.at + Header + c.size
      PROVE  LowWord <= w /\ w < HighWord
  <2> PICK f \in Frames : f = w \div FrameWords /\ f \notin 1..KernelFrames
    BY <1>1, <1>2, <1>3
  <2>1. LowWord <= f * FrameWords /\ f * FrameWords + FrameWords <= HighWord
    BY FrameRoom
  <2>2. f * FrameWords <= w /\ w < f * FrameWords + FrameWords /\ f \in Nat
    BY DivisionFact, Sizing, FrameNumbers
  <2> PICK a \in Nat, n \in Nat, lo \in Nat, hi \in Nat :
             a = f * FrameWords /\ n = FrameWords /\ lo = LowWord /\ hi = HighWord
    BY <2>2, Sizing DEF LowWord, HighWord
  <2> QED BY <2>1, <2>2
<1> PICK lo \in Nat, hi \in Nat : lo = LowWord /\ hi = HighWord
  BY Sizing DEF LowWord, HighWord
<1>4. LowWord <= c.at
  <2>1. c.at < c.at + Header + c.size
    BY <1>1, Sizing
  <2> QED BY <1>1, <1>3, <2>1
<1>5. c.at + Header + c.size - 1 < HighWord
  <2> PICK w \in Nat : w = c.at + Header + c.size - 1
    BY <1>1, Sizing
  <2>1. c.at <= w /\ w < c.at + Header + c.size
    BY <1>1, Sizing
  <2> QED BY <1>3, <2>1
<1> QED BY <1>1, <1>4, <1>5, Sizing

LEMMA BehindHeader ==
  ASSUME NEW p \in Nat, NEW n \in Nat, NEW q \in Nat, NEW m \in Nat, NEW hdr \in Nat, NEW a \in Nat, NEW b \in Nat,
         p + hdr + n <= a, q + hdr + m <= b, a <= q \/ b <= p
  PROVE  p + hdr + n <= q + hdr \/ q + hdr + m <= p + hdr
OBVIOUS

LEMMA ClaimsBeside ==
  ASSUME NEW h, HeapOk(h), NEW C, ClaimsOk(h.head, C), NEW c \in C, NEW d \in C, c # d
  PROVE  Beside(c.at + Header, c.size, d.at + Header, d.size)
<1>1. c \in ClaimRec /\ d \in ClaimRec /\ Answered(h.head, c) /\ Answered(h.head, d) /\ c.at # d.at
  BY DEF ClaimsOk
<1>2. PICK i \in 1..Len(h.head) : /\ h.head[i] \in BlockRec /\ h.head[i].at = c.at
                                  /\ c.at + Header + c.size <= End(h.head[i])
  BY <1>1, ClaimBlock
<1>3. PICK j \in 1..Len(h.head) : /\ h.head[j] \in BlockRec /\ h.head[j].at = d.at
                                  /\ d.at + Header + d.size <= End(h.head[j])
  BY <1>1, ClaimBlock
<1>4. c.at \in Nat /\ c.size \in Nat /\ d.at \in Nat /\ d.size \in Nat
  BY <1>1 DEF ClaimRec
<1>5. Clear(h.head[i], h.head[j])
  BY <1>1, <1>2, <1>3 DEF HeapOk, Apart
<1>0. \A x \in BlockRec : End(x) \in Nat
  BY Sizing DEF End, BlockRec
<1>6. PICK a, b : a = End(h.head[i]) /\ b = End(h.head[j]) /\ a \in Nat /\ b \in Nat
  BY <1>0, <1>2, <1>3
<1>7. a <= d.at \/ b <= c.at
  BY <1>2, <1>3, <1>5, <1>6 DEF Clear
<1>8. c.at + Header + c.size <= a /\ d.at + Header + d.size <= b
  BY <1>2, <1>3, <1>6
<1>9. Header \in Nat /\ a \in Nat /\ b \in Nat
  BY <1>6, Sizing
<1>11. c.at + Header + c.size <= d.at + Header \/ d.at + Header + d.size <= c.at + Header
  BY ZenonT(60), <1>4, <1>7, <1>8, <1>9, BehindHeader
<1> QED BY <1>11 DEF Beside

LEMMA ClaimFrameBeside ==
  ASSUME NEW h, HeapOk(h), NEW c \in ClaimRec, Answered(h.head, c), NEW f \in Frames, f \notin FramesIn(h)
  PROVE  /\ Beside(c.at + Header, c.size, f * FrameWords, FrameWords)
         /\ Beside(f * FrameWords, FrameWords, c.at + Header, c.size)
<1>1. /\ c.at \in Nat /\ c.size \in Nat
      /\ \A w \in Nat : c.at <= w /\ w < c.at + Header + c.size => w \div FrameWords \in FramesIn(h)
  BY ClaimBlock
<1>2. f \in Nat
  BY FrameNumbers
<1> PICK a \in Nat, n \in Nat : a = f * FrameWords /\ n = FrameWords /\ n >= 1
  BY <1>2, Sizing
<1> PICK e \in Nat : e = c.at + Header + c.size
  BY <1>1, Sizing
<1> PICK z \in Nat : z = c.at + Header
  BY <1>1, Sizing
<1>3. ASSUME NEW w \in Nat, a <= w, w < a + n, c.at <= w, w < e
      PROVE  FALSE
  <2>1. w \div FrameWords = f
    BY <1>2, <1>3, InFrameFact
  <2> QED BY <1>1, <1>3, <2>1
<1>4. c.at <= z /\ c.at < e
  BY <1>1, Sizing
<1>5. e <= a \/ a + n <= c.at
  BY <1>1, <1>3, <1>4
<1>6. e <= a \/ a + n <= z
  BY <1>1, <1>4, <1>5
<1> QED BY <1>6 DEF Beside

-----------------------------------------------------------------------------
(* What backs a piece of memory: a claim on the heap, or a slot of a task. *)
GivenIn(hd, ts) ==
  {Lease(0, "block", 0, b.at + Header, b.size) : b \in hd} \cup UNION {Leases(t, ts[t]) : t \in Tasks}
OwnOk(ts) == \A t \in UsedIn(ts) : ts[t].page # 0
ByClaim(hd, ts, x, c) ==
  \/ c \in hd /\ x = Lease(0, "block", 0, c.at + Header, c.size)
  \/ \E t \in UsedIn(ts) : c = StackClaim(ts, t) /\ x = Lease(t, "stack", 0, c.at + Header, c.size)
SlotLease(t, s, f) ==
  IF s[1] = "pte" THEN Lease(t, "page", s[2], f * FrameWords, FrameWords)
  ELSE Lease(t, "own", 0, f * FrameWords, FrameWords)
BySlot(ts, x, t, s) ==
  /\ s \in Slots /\ (s[1] = "pte" \/ s = <<"page", 0>>)
  /\ FrameAt(ts[t], s) # 0 /\ x = SlotLease(t, s, FrameAt(ts[t], s))

LEMMA LeaseFact ==
  ASSUME NEW who, NEW what, NEW n, NEW at, NEW size, NEW x, x = Lease(who, what, n, at, size)
  PROVE  x.who = who /\ x.what = what /\ x.n = n /\ x.at = at /\ x.size = size
BY DEF Lease

LEMMA LeasesFact ==
  ASSUME NEW t, NEW k, k.dir # 0, NEW x
  PROVE  x \in Leases(t, k) <=>
           \/ x = Lease(t, "stack", 0, k.stack + Header, StackSize)
           \/ x = Lease(t, "own", 0, k.page * FrameWords, FrameWords)
           \/ \E v \in 0..BrkMax - 1 : k.pte[v] # 0 /\ x = Lease(t, "page", v, k.pte[v] * FrameWords, FrameWords)
BY DEF Leases

LEMMA BackedFact ==
  ASSUME NEW hd, NEW ts, OwnOk(ts), NEW x \in GivenIn(hd, ts)
  PROVE  \/ \E c \in hd \cup StackClaims(ts) : ByClaim(hd, ts, x, c)
         \/ \E t \in Tasks, s \in Slots : BySlot(ts, x, t, s)
<1>1. CASE \E b \in hd : x = Lease(0, "block", 0, b.at + Header, b.size)
  BY <1>1 DEF ByClaim
<1>2. ASSUME NEW t \in Tasks, x \in Leases(t, ts[t])
      PROVE  \/ \E c \in hd \cup StackClaims(ts) : ByClaim(hd, ts, x, c)
             \/ \E s \in Slots : BySlot(ts, x, t, s)
  <2> PICK k : k = ts[t]
    OBVIOUS
  <2>1. k.dir # 0 /\ t \in UsedIn(ts) /\ k.page # 0
    <3>1. k.dir # 0
      BY <1>2 DEF Leases
    <3> QED BY <3>1 DEF UsedIn, OwnOk
  <2>2. \/ x = Lease(t, "stack", 0, k.stack + Header, StackSize)
        \/ x = Lease(t, "own", 0, k.page * FrameWords, FrameWords)
        \/ \E v \in 0..BrkMax - 1 : k.pte[v] # 0 /\ x = Lease(t, "page", v, k.pte[v] * FrameWords, FrameWords)
    BY <1>2, <2>1, LeasesFact
  <2>3. CASE x = Lease(t, "stack", 0, k.stack + Header, StackSize)
    <3> PICK c : c = StackClaim(ts, t)
      OBVIOUS
    <3>1. c.at = k.stack /\ c.size = StackSize
      BY DEF StackClaim
    <3>2. c \in StackClaims(ts)
      BY <2>1 DEF StackClaims
    <3>3. ByClaim(hd, ts, x, c)
      BY <2>1, <2>3, <3>1 DEF ByClaim
    <3> QED BY <3>2, <3>3
  <2>4. CASE x = Lease(t, "own", 0, k.page * FrameWords, FrameWords)
    <3> PICK s : s = <<"page", 0>>
      OBVIOUS
    <3>1. s \in Slots /\ FrameAt(k, s) = k.page /\ s[1] # "pte"
      BY SlotKinds, SlotFrames
    <3>2. BySlot(ts, x, t, s)
      BY <2>1, <2>4, <3>1 DEF BySlot, SlotLease
    <3> QED BY <3>1, <3>2
  <2>5. ASSUME NEW v \in 0..BrkMax - 1, k.pte[v] # 0, x = Lease(t, "page", v, k.pte[v] * FrameWords, FrameWords)
        PROVE  \E s \in Slots : BySlot(ts, x, t, s)
    <3> PICK s : s = <<"pte", v>>
      OBVIOUS
    <3>1. s \in Slots /\ FrameAt(k, s) = k.pte[v] /\ s[1] = "pte" /\ s[2] = v
      BY SlotKinds, SlotFrames
    <3>2. BySlot(ts, x, t, s)
      BY <2>5, <3>1 DEF BySlot, SlotLease
    <3> QED BY <3>1, <3>2
  <2> QED BY <2>2, <2>3, <2>4, <2>5
<1> QED BY <1>1, <1>2 DEF GivenIn

LEMMA ClaimLease ==
  ASSUME NEW hd, NEW ts, NEW x, NEW c, ByClaim(hd, ts, x, c)
  PROVE  x.at = c.at + Header /\ x.size = c.size
BY LeaseFact DEF ByClaim

LEMMA SlotRange ==
  ASSUME NEW ts, NEW x, NEW t, NEW s, BySlot(ts, x, t, s)
  PROVE  s \in Slots /\ FrameAt(ts[t], s) # 0 /\ x.at = FrameAt(ts[t], s) * FrameWords /\ x.size = FrameWords
<1> PICK f : f = FrameAt(ts[t], s)
  OBVIOUS
<1>1. s \in Slots /\ f # 0 /\ x = SlotLease(t, s, f)
  BY DEF BySlot
<1>2. x = Lease(t, "page", s[2], f * FrameWords, FrameWords) \/ x = Lease(t, "own", 0, f * FrameWords, FrameWords)
  BY <1>1 DEF SlotLease
<1>3. x.at = f * FrameWords /\ x.size = FrameWords
  BY <1>2, LeaseFact
<1> QED BY <1>1, <1>3

(* One claim backs one piece of memory. *)
LEMMA ClaimOnce ==
  ASSUME NEW list, NEW hd, NEW ts, OwnersOk(list, hd, ts), NEW x, NEW y, NEW c,
         ByClaim(hd, ts, x, c), ByClaim(hd, ts, y, c)
  PROVE  x = y
<1>1. \A t \in UsedIn(ts) : StackClaim(ts, t) \in StackClaims(ts) /\ StackClaim(ts, t) \notin hd
  BY DEF OwnersOk, StackClaims
<1>2. \A t, u \in UsedIn(ts) : StackClaim(ts, t) = StackClaim(ts, u) => t = u
  <2> SUFFICES ASSUME NEW t \in UsedIn(ts), NEW u \in UsedIn(ts), StackClaim(ts, t) = StackClaim(ts, u)
               PROVE  t = u
    OBVIOUS
  <2>1. ts[t].stack = ts[u].stack
    BY DEF StackClaim
  <2> QED BY <2>1 DEF OwnersOk
<1>3. CASE c \in hd
  BY <1>1, <1>3 DEF ByClaim
<1>4. CASE c \notin hd
  BY <1>2, <1>4 DEF ByClaim
<1> QED BY <1>3, <1>4

(* No two pieces of memory given out share a word. *)
LEMMA GivenBeside ==
  ASSUME NEW m, MemOk(m), NEW h, HeapOk(h), NEW hd, NEW ts, FramesOk(m, h, ts), OwnersOk(h.head, hd, ts), OwnOk(ts),
         NEW x \in GivenIn(hd, ts), NEW y \in GivenIn(hd, ts), x # y
  PROVE  Beside(x.at, x.size, y.at, y.size)
<1> PICK C : C = hd \cup StackClaims(ts)
  OBVIOUS
<1>1. ClaimsOk(h.head, C)
  BY DEF OwnersOk
<1>2. \A c \in C : c \in ClaimRec /\ Answered(h.head, c)
  BY <1>1 DEF ClaimsOk
<1>3. \A z \in GivenIn(hd, ts) : \/ \E c \in C : ByClaim(hd, ts, z, c)
                                 \/ \E t \in Tasks, s \in Slots : BySlot(ts, z, t, s)
  BY BackedFact
<1>4. \A t \in Tasks, s \in Slots : FrameAt(ts[t], s) # 0 =>
         FrameAt(ts[t], s) \in Frames /\ FrameAt(ts[t], s) \notin FramesIn(h)
  BY DEF FramesOk, MemOk, MemShape
<1>5. ASSUME NEW c \in C, NEW d \in C, ByClaim(hd, ts, x, c), ByClaim(hd, ts, y, d)
      PROVE  Beside(x.at, x.size, y.at, y.size)
  <2>1. c # d
    BY <1>5, ClaimOnce
  <2>2. Beside(c.at + Header, c.size, d.at + Header, d.size)
    BY <1>1, <2>1, ClaimsBeside
  <2> QED BY <1>5, <2>2, ClaimLease
<1>6. ASSUME NEW z, NEW c \in C, ByClaim(hd, ts, z, c), NEW w, NEW t \in Tasks, NEW s \in Slots, BySlot(ts, w, t, s)
      PROVE  Beside(z.at, z.size, w.at, w.size) /\ Beside(w.at, w.size, z.at, z.size)
  <2> PICK f : f = FrameAt(ts[t], s)
    OBVIOUS
  <2>1. f # 0 /\ w.at = f * FrameWords /\ w.size = FrameWords
    BY <1>6, SlotRange
  <2>2. f \in Frames /\ f \notin FramesIn(h)
    BY <1>4, <2>1
  <2>3. z.at = c.at + Header /\ z.size = c.size
    BY <1>6, ClaimLease
  <2> QED BY <1>2, <2>1, <2>2, <2>3, ClaimFrameBeside
<1>7. ASSUME NEW t \in Tasks, NEW s \in Slots, BySlot(ts, x, t, s), NEW u \in Tasks, NEW r \in Slots, BySlot(ts, y, u, r)
      PROVE  Beside(x.at, x.size, y.at, y.size)
  <2> PICK f : f = FrameAt(ts[t], s)
    OBVIOUS
  <2> PICK g : g = FrameAt(ts[u], r)
    OBVIOUS
  <2>1. /\ f # 0 /\ x.at = f * FrameWords /\ x.size = FrameWords
        /\ g # 0 /\ y.at = g * FrameWords /\ y.size = FrameWords
    BY <1>7, SlotRange
  <2>2. ~(t = u /\ s = r)
    BY <1>7 DEF BySlot
  <2>3. f # g
    BY <2>1, <2>2 DEF FramesOk
  <2>4. f \in Frames /\ g \in Frames
    BY <1>4, <2>1
  <2> QED BY <2>1, <2>3, <2>4, FramesBeside
<1> QED BY <1>3, <1>5, <1>6, <1>7

(* All that is given out lies in memory, above the kernel image. *)
LEMMA GivenRoom ==
  ASSUME NEW m, MemOk(m), NEW h, HeapOk(h), NEW hd, NEW ts, FramesOk(m, h, ts), OwnersOk(h.head, hd, ts), OwnOk(ts),
         NEW x \in GivenIn(hd, ts)
  PROVE  LowWord <= x.at /\ x.at + x.size <= HighWord
<1>1. ASSUME NEW c \in hd \cup StackClaims(ts), ByClaim(hd, ts, x, c)
      PROVE  LowWord <= x.at /\ x.at + x.size <= HighWord
  <2>1. c \in ClaimRec /\ Answered(h.head, c)
    BY DEF OwnersOk, ClaimsOk
  <2>2. FramesIn(h) \cap 1..KernelFrames = {}
    BY DEF FramesOk
  <2>3. LowWord <= c.at + Header /\ c.at + Header + c.size <= HighWord
    BY <2>1, <2>2, ClaimRoom
  <2> QED BY <1>1, <2>3, ClaimLease
<1>2. ASSUME NEW t \in Tasks, NEW s \in Slots, BySlot(ts, x, t, s)
      PROVE  LowWord <= x.at /\ x.at + x.size <= HighWord
  <2> PICK f : f = FrameAt(ts[t], s)
    OBVIOUS
  <2>1. f # 0 /\ x.at = f * FrameWords /\ x.size = FrameWords
    BY <1>2, SlotRange
  <2>2. f \in Frames /\ f \notin 1..KernelFrames
    BY <2>1 DEF FramesOk, MemOk, MemShape
  <2> QED BY <2>1, <2>2, FrameRoom
<1> QED BY <1>1, <1>2, BackedFact

-----------------------------------------------------------------------------
(* Each call, as a step of Allocator. *)
LEMMA GivenNow == Given = GivenIn(held, tasks) /\ Given' = GivenIn(held', tasks')
BY DEF Given, GivenIn

LEMMA LendFact ==
  ASSUME IInv', OwnOk(tasks'), Given \subseteq Given'
  PROVE  Memory!Lend
<1>1. /\ MemOk(mem') /\ HeapOk(heap') /\ FramesOk(mem', heap', tasks') /\ OwnersOk(heap'.head, held', tasks')
  BY DEF IInv, Sound
<1>2. Given' = GivenIn(held', tasks')
  BY GivenNow
<1>3. \A x \in Given' : LowWord <= x.at /\ x.at + x.size <= HighWord
  BY <1>1, <1>2, GivenRoom
<1>4. \A x, y \in Given' : x # y => Beside(x.at, x.size, y.at, y.size)
  BY <1>1, <1>2, GivenBeside
<1>5. \A x, y \in Given' : y # x => x.at + x.size <= y.at \/ y.at + y.size <= x.at
  BY <1>4 DEF Beside
<1> QED BY <1>3, <1>5 DEF Memory!Lend, Memory!New, Memory!Apart, LowWord, HighWord

(* The leases of one task, and those of all others. *)
Rest(hd, ts, t) == {z \in GivenIn(hd, ts) : z.who # t}
Mine(hd, ts, t) == {z \in GivenIn(hd, ts) : z.who = t}

LEMMA RestFact == ASSUME NEW hd, NEW ts, NEW t, NEW z \in Rest(hd, ts, t) PROVE z.who # t
BY DEF Rest

LEMMA WhoFact ==
  ASSUME NEW t, NEW k, NEW z \in Leases(t, k)
  PROVE  z.who = t
<1>1. k.dir # 0
  BY DEF Leases
<1> QED BY <1>1, LeasesFact, LeaseFact

LEMMA BlockFact ==
  ASSUME NEW hd, NEW ts, NEW z \in GivenIn(hd, ts)
  PROVE  \/ z.who = 0 /\ \E b \in hd : z = Lease(0, "block", 0, b.at + Header, b.size)
         \/ \E t \in Tasks : z.who = t /\ z \in Leases(t, ts[t])
<1>1. CASE \E b \in hd : z = Lease(0, "block", 0, b.at + Header, b.size)
  BY <1>1, LeaseFact
<1>2. CASE \E t \in Tasks : z \in Leases(t, ts[t])
  BY <1>2, WhoFact
<1> QED BY <1>1, <1>2 DEF GivenIn

LEMMA NoKernelTask == 0 \notin Tasks
BY Sizing DEF Tasks

LEMMA WhoseFact ==
  ASSUME NEW hd, NEW ts, NEW t \in Tasks
  PROVE  /\ GivenIn(hd, ts) = Rest(hd, ts, t) \cup Leases(t, ts[t])
         /\ Mine(hd, ts, t) = Leases(t, ts[t])
<1>1. Leases(t, ts[t]) \subseteq GivenIn(hd, ts)
  BY DEF GivenIn
<1>2. \A z \in Leases(t, ts[t]) : z.who = t
  BY WhoFact
<1>3. \A z \in GivenIn(hd, ts) : z.who = t => z \in Leases(t, ts[t])
  BY BlockFact, NoKernelTask
<1>4. Mine(hd, ts, t) = Leases(t, ts[t])
  BY <1>1, <1>2, <1>3 DEF Mine
<1> QED BY <1>1, <1>3, <1>4 DEF Rest

LEMMA RestKept ==
  ASSUME NEW hd, NEW ts, DOMAIN ts = Tasks, NEW t \in Tasks, NEW j, NEW us, us = PutTask(ts, t, j)
  PROVE  Rest(hd, us, t) = Rest(hd, ts, t) /\ us[t] = j
<1>1. us[t] = j /\ \A u \in Tasks : u # t => us[u] = ts[u]
  BY DEF PutTask
<1>2. ASSUME NEW z \in GivenIn(hd, us), z.who # t PROVE z \in GivenIn(hd, ts)
  <2>1. CASE \E b \in hd : z = Lease(0, "block", 0, b.at + Header, b.size)
    BY <2>1 DEF GivenIn
  <2>2. ASSUME NEW u \in Tasks, z.who = u, z \in Leases(u, us[u]) PROVE z \in GivenIn(hd, ts)
    BY <1>1, <1>2, <2>2 DEF GivenIn
  <2> QED BY <2>1, <2>2, BlockFact
<1>3. ASSUME NEW z \in GivenIn(hd, ts), z.who # t PROVE z \in GivenIn(hd, us)
  <2>1. CASE \E b \in hd : z = Lease(0, "block", 0, b.at + Header, b.size)
    BY <2>1 DEF GivenIn
  <2>2. ASSUME NEW u \in Tasks, z.who = u, z \in Leases(u, ts[u]) PROVE z \in GivenIn(hd, us)
    BY <1>1, <1>3, <2>2 DEF GivenIn
  <2> QED BY <2>1, <2>2, BlockFact
<1> QED BY <1>1, <1>2, <1>3 DEF Rest

LEMMA NoLeases == ASSUME NEW t PROVE Leases(t, NoTask) = {}
BY NoTaskFact DEF Leases

(* kmalloc and kfree. *)
LEMMA AllocGives ==
  ASSUME IInv, IInv', OwnOk(tasks'), NEW size \in Sizes, Alloc(size)
  PROVE  Given' = Given \/ Memory!Allocate
<1>1. /\ tasks' = tasks
      /\ held' = held \/ \E at : held' = held \cup {[at |-> at, size |-> size]}
  BY DEF Alloc
<1>2. CASE held' = held
  BY <1>1, <1>2, GivenNow
<1>3. ASSUME NEW at, held' = held \cup {[at |-> at, size |-> size]}
      PROVE  Given' = Given \/ Memory!Allocate
  <2> PICK b : b = [at |-> at, size |-> size]
    OBVIOUS
  <2> PICK x : x = Lease(0, "block", 0, b.at + Header, b.size)
    OBVIOUS
  <2>1. x.who = 0 /\ x.what = "block" /\ x.size = size
    BY LeaseFact
  <2>2. Given' = Given \cup {x}
    <3>1. GivenIn(held \cup {b}, tasks) = GivenIn(held, tasks) \cup {x}
      BY DEF GivenIn
    <3> QED BY <1>1, <1>3, <3>1, GivenNow
  <2>3. Memory!Lend
    BY <2>2, LendFact
  <2>4. CASE x \in Given
    BY <2>2, <2>4
  <2>5. CASE x \notin Given
    <3>1. Memory!New = {x}
      BY <2>2, <2>5 DEF Memory!New
    <3>2. x.size > 0
      BY <2>1, Sizing
    <3> QED BY <2>1, <2>3, <3>1, <3>2 DEF Memory!Allocate
  <2> QED BY <2>4, <2>5
<1> QED BY <1>1, <1>2, <1>3

LEMMA FreeGives ==
  ASSUME IInv, NEW b \in held, Free(b)
  PROVE  Memory!Free
<1>1. tasks' = tasks /\ held' = held \ {b}
  BY DEF Free
<1> PICK x : x = Lease(0, "block", 0, b.at + Header, b.size)
  OBVIOUS
<1>2. \A c \in held : c \in ClaimRec
  BY DEF IInv, Sound, OwnersOk, ClaimsOk
<1>3. ASSUME NEW c \in held, Lease(0, "block", 0, c.at + Header, c.size) = x PROVE c = b
  <2>1. c.at + Header = b.at + Header /\ c.size = b.size
    BY <1>3, LeaseFact
  <2>2. c.at \in Nat /\ b.at \in Nat
    BY <1>2 DEF ClaimRec
  <2>3. c.at = b.at
    BY <2>1, <2>2, Sizing
  <2> QED BY <1>2, <2>1, <2>3 DEF ClaimRec
<1>4. \A t \in Tasks : x \notin Leases(t, tasks[t])
  BY WhoFact, LeaseFact, NoKernelTask
<1>5. GivenIn(held \ {b}, tasks) = GivenIn(held, tasks) \ {x}
  <2>1. {Lease(0, "block", 0, c.at + Header, c.size) : c \in held \ {b}}
          = {Lease(0, "block", 0, c.at + Header, c.size) : c \in held} \ {x}
    BY <1>3
  <2> QED BY <1>4, <2>1 DEF GivenIn
<1>6. x \in Given /\ x.who = 0
  BY GivenNow, LeaseFact DEF GivenIn
<1>7. Given' = Given \ {x}
  BY <1>1, <1>5, GivenNow
<1> QED BY <1>6, <1>7 DEF Memory!Free, Memory!Of

(* What a launch adds: a task with a page of its own and none of SYS_BRK's. *)
LEMMA LaunchBorn ==
  ASSUME IInv, NEW t \in Tasks, Launch(t)
  PROVE  /\ held' = held /\ tasks[t] = NoTask /\ DOMAIN tasks = Tasks
         /\ \/ tasks' = tasks
            \/ \E j : /\ tasks' = PutTask(tasks, t, j) /\ j.dir # 0 /\ j.page \in Frames
                      /\ \A v \in 0..BrkMax - 1 : j.pte[v] = 0
<1>s. PICK s : s = Kmalloc(mem, heap, StackSize)
  OBVIOUS
<1>d. PICK d : d = NewDirectory(s.mem)
  OBVIOUS
<1>w. PICK w : w = GrabMapped(BornIn(d.mem, t, d.copied))
  OBVIOUS
<1>1. /\ MemOk(mem) /\ HeapOk(heap) /\ FramesIn(heap) \subseteq mem.bitmap /\ TasksOk(tasks, brk_top)
  BY DEF IInv, Sound, FramesOk
<1>2. held' = held /\ tasks[t].dir = 0
  BY DEF Launch, FirstFree, Used
<1>3. tasks[t] = NoTask /\ DOMAIN tasks = Tasks
  BY <1>1, <1>2 DEF TasksOk
<1>4. \/ tasks' = tasks
      \/ d.dir # 0 /\ tasks' = PutTask(tasks, t, Newborn(s.at, d, w.frame))
  BY <1>s, <1>d, <1>w, Zenon DEF Launch, Newborn, BornIn, PutTask
<1>5. ASSUME d.dir # 0, tasks' = PutTask(tasks, t, Newborn(s.at, d, w.frame))
      PROVE  \E j : /\ tasks' = PutTask(tasks, t, j) /\ j.dir # 0 /\ j.page \in Frames
                    /\ \A v \in 0..BrkMax - 1 : j.pte[v] = 0
  <2> PICK j : j = Newborn(s.at, d, w.frame)
    OBVIOUS
  <2>1. MemOk(s.mem)
    BY <1>1, <1>s, Sizing, KmallocFact DEF Allocated
  <2>2. d.page \in Frames
    BY <1>d, <1>5, <2>1, NewDirectoryFact
  <2>3. j.dir = d.dir /\ j.page = d.page /\ \A v \in 0..BrkMax - 1 : j.pte[v] = 0
    BY DEF Newborn, NoTask
  <2> QED BY <1>5, <2>2, <2>3
<1> QED BY <1>2, <1>3, <1>4, <1>5

(* What one task has, before and after a step that changes no other.       *)
LEMMA GivenOf ==
  ASSUME NEW t \in Tasks
  PROVE  Given = Rest(held, tasks, t) \cup Leases(t, tasks[t]) /\ Memory!Of(t) = Leases(t, tasks[t])
<1>1. GivenIn(held, tasks) = Rest(held, tasks, t) \cup Leases(t, tasks[t]) /\ Mine(held, tasks, t) = Leases(t, tasks[t])
  BY WhoseFact
<1>2. Memory!Of(t) = Mine(held, tasks, t)
  BY GivenNow DEF Memory!Of, Mine
<1> QED BY <1>1, <1>2, GivenNow

LEMMA GivenPut ==
  ASSUME NEW t \in Tasks, DOMAIN tasks = Tasks, NEW j, tasks' = PutTask(tasks, t, j), held' = held
  PROVE  Given' = Rest(held, tasks, t) \cup Leases(t, j)
<1> PICK us : us = tasks'
  OBVIOUS
<1>1. Given' = GivenIn(held, us)
  BY GivenNow
<1>2. GivenIn(held, us) = Rest(held, us, t) \cup Leases(t, us[t])
  BY WhoseFact
<1>3. Rest(held, us, t) = Rest(held, tasks, t) /\ us[t] = j
  BY RestKept
<1> QED BY <1>1, <1>2, <1>3

LEMMA LaunchGives ==
  ASSUME IInv, IInv', OwnOk(tasks'), NEW t \in Tasks, Launch(t)
  PROVE  Given' = Given \/ Memory!Start(t)
<1>1. held' = held /\ tasks[t] = NoTask /\ DOMAIN tasks = Tasks
  BY LaunchBorn
<1>2. CASE tasks' = tasks
  BY <1>1, <1>2, GivenNow
<1>3. ASSUME NEW j, tasks' = PutTask(tasks, t, j), j.dir # 0, \A v \in 0..BrkMax - 1 : j.pte[v] = 0
      PROVE  Memory!Start(t)
  <2> PICK R : R = Rest(held, tasks, t)
    OBVIOUS
  <2> PICK x : x = Lease(t, "stack", 0, j.stack + Header, StackSize)
    OBVIOUS
  <2> PICK y : y = Lease(t, "own", 0, j.page * FrameWords, FrameWords)
    OBVIOUS
  <2>1. Given = R /\ Memory!Of(t) = {}
    <3>1. Leases(t, tasks[t]) = {}
      BY <1>1, NoLeases
    <3> QED BY <3>1, GivenOf
  <2>2. Leases(t, j) = {x, y}
    BY <1>3, LeasesFact
  <2>3. Given' = R \cup {x, y}
    BY <1>1, <1>3, <2>2, GivenPut
  <2>4. /\ x.who = t /\ y.who = t /\ x.what = "stack" /\ x.size = StackSize
        /\ y.what = "own" /\ y.size = FrameWords
    BY LeaseFact
  <2>5. Memory!New = {x, y}
    <3>1. x \notin R /\ y \notin R
      BY <2>4, RestFact
    <3> QED BY <2>1, <2>3, <3>1 DEF Memory!New
  <2>6. Memory!Lend
    BY <2>1, <2>3, LendFact
  <2> QED BY <2>1, <2>4, <2>5, <2>6 DEF Memory!Start
<1> QED BY <1>2, <1>3, LaunchBorn

LEMMA ExitGives ==
  ASSUME IInv, NEW t \in Tasks, Exit(t)
  PROVE  Memory!End(t)
<1>1. held' = held /\ tasks' = PutTask(tasks, t, NoTask) /\ DOMAIN tasks = Tasks
  BY DEF Exit, IInv, Sound, TasksOk, PutTask
<1> PICK R : R = Rest(held, tasks, t)
  OBVIOUS
<1>2. Given' = R
  BY <1>1, GivenPut, NoLeases
<1>4. R = Given \ {z \in Given : z.who = t}
  BY GivenNow DEF Rest
<1> QED BY <1>2, <1>4 DEF Memory!End, Memory!Of

(* What brk_set leaves of a task: its stack, its own page, and every page  *)
(* that it has before and after.                                           *)
Stays(k, j) ==
  /\ j.dir = k.dir /\ j.stack = k.stack /\ j.page = k.page
  /\ \A v \in 0..BrkMax - 1 : k.pte[v] # 0 /\ j.pte[v] # 0 => j.pte[v] = k.pte[v]

LEMMA StoredStays ==
  ASSUME IInv, NEW t \in Tasks, NEW s \in MapState, Store(t, s),
         \A v \in 0..BrkMax - 1 : tasks[t].pte[v] # 0 /\ s.pte[v] # 0 => s.pte[v] = tasks[t].pte[v]
  PROVE  \E j : tasks' = PutTask(tasks, t, j) /\ Stays(tasks[t], j)
<1> PICK k \in TaskRec : k = tasks[t]
  BY BrkStart
<1> PICK j : j = With(k, s)
  OBVIOUS
<1>1. /\ tasks' = PutTask(tasks, t, j) /\ j.dir = k.dir /\ j.stack = k.stack /\ j.pte = s.pte
  BY BrkStart, StoreFact
<1>2. j.page = k.page
  BY DEF With, TaskRec
<1> QED BY <1>1, <1>2 DEF Stays

LEMMA GrowKept ==
  ASSUME IInv, NEW t \in Tasks, NEW want \in 0..BrkMax, want > Have(t),
         NEW s, s = MapRun(BrkState(t), Have(t), want - Have(t))
  PROVE  MapKept(mem, tasks[t], Have(t), s) /\ AllMapped(s, want - Have(t))
<1> PICK have \in Nat : have = Have(t)
  BY BrkStart
<1> PICK k \in TaskRec : k = tasks[t]
  BY BrkStart
<1> PICK n \in Nat : n = want - have
  BY Sizing
<1> PICK s0 : s0 = BrkState(t)
  OBVIOUS
<1>1. MemOk(mem) /\ PagesOk(k, have) /\ Held(mem, k) /\ s0 = StartOf(mem, k)
  BY BrkStart
<1>2. MapKept(mem, k, have, s0) /\ s0.mapped = 0
  BY <1>1, StartKept
<1>3. have + n <= BrkMax
  BY Sizing
<1>4. s = MapRun(s0, have, n)
  OBVIOUS
<1> QED BY <1>1, <1>2, <1>3, <1>4, MapRunFact

(* A page mapped before the loop is where it was. *)
LEMMA KeptPages ==
  ASSUME NEW m, NEW k \in TaskRec, NEW have, NEW s, MapKept(m, k, have, s), NEW v \in 0..BrkMax - 1, k.pte[v] # 0
  PROVE  s.pte[v] = k.pte[v]
<1>1. s \in MapState
  BY DEF MapKept
<1> PICK j : j = With(k, s)
  OBVIOUS
<1>2. FrameAt(j, <<"pte", v>>) = s.pte[v] /\ FrameAt(k, <<"pte", v>>) = k.pte[v] /\ <<"pte", v>> \in Slots
  BY <1>1, WithFact, SlotFrames, SlotKinds
<1>3. \A x \in Slots : FrameAt(j, x) = FrameAt(k, x) \/ FrameAt(k, x) = 0
  BY DEF MapKept, Added, Filled
<1> QED BY <1>2, <1>3

LEMMA PagesStay ==
  ASSUME IInv, NEW t \in Tasks, NEW want \in 0..BrkMax, SetBrk(t, want)
  PROVE  \E j : tasks' = PutTask(tasks, t, j) /\ Stays(tasks[t], j)
<1>h. PICK have \in Nat : have = Have(t) /\ have <= BrkMax
  BY BrkStart, Sizing
<1>k. PICK k \in TaskRec : k = tasks[t]
  BY BrkStart
<1>0. /\ tasks \in [Tasks -> TaskRec] /\ BrkState(t) = StartOf(mem, k) /\ MemOk(mem)
  BY <1>k, BrkStart
<1>1. CASE tasks' = tasks
  <2>1. tasks' = PutTask(tasks, t, k)
    BY <1>0, <1>1, <1>k DEF PutTask
  <2> QED BY <1>k, <2>1 DEF Stays
<1>2. ASSUME NEW s, s = MapRun(BrkState(t), Have(t), want - Have(t)), want > Have(t),
             Store(t, s) \/ Store(t, Unmap(s, Have(t), Have(t) + s.mapped))
      PROVE  \E j : tasks' = PutTask(tasks, t, j) /\ Stays(tasks[t], j)
  <2>1. MapKept(mem, k, have, s) /\ AllMapped(s, want - have)
    BY <1>2, <1>h, <1>k, GrowKept
  <2>2. s \in MapState /\ MemOk(s.mem) /\ s.mapped \in Nat /\ have + s.mapped <= BrkMax
    <3>1. s \in MapState /\ MemOk(s.mem) /\ s.mapped <= want - have
      BY <2>1 DEF MapKept, AllMapped
    <3>2. s.mapped \in Nat
      BY <3>1 DEF MapState
    <3> QED BY <1>h, <3>1, <3>2, Sizing
  <2>3. \A v \in 0..BrkMax - 1 : k.pte[v] # 0 => s.pte[v] = k.pte[v]
    BY <2>1, KeptPages
  <2>4. CASE Store(t, s)
    BY <1>k, <2>2, <2>3, <2>4, StoredStays
  <2>5. CASE Store(t, Unmap(s, Have(t), Have(t) + s.mapped))
    <3> PICK to \in Nat : to = have + s.mapped /\ to <= BrkMax
      BY <2>2
    <3> PICK u : u = Unmap(s, have, to)
      OBVIOUS
    <3>1. Within(have, to)
      BY Sizing DEF Within
    <3>2. u \in MapState /\ Zeroed(s, u, have, to)
      BY <2>2, <3>1, UnmapFact
    <3>3. \A v \in 0..BrkMax - 1 : k.pte[v] # 0 /\ u.pte[v] # 0 => u.pte[v] = k.pte[v]
      BY <2>3, <3>2 DEF Zeroed
    <3>4. Store(t, u)
      BY <1>h, <2>5
    <3> QED BY <1>k, <3>2, <3>3, <3>4, StoredStays
  <2> QED BY <1>2, <2>4, <2>5
<1>3. ASSUME want <= Have(t), Store(t, Unmap(BrkState(t), want, Have(t)))
      PROVE  \E j : tasks' = PutTask(tasks, t, j) /\ Stays(tasks[t], j)
  <2> PICK s : s = BrkState(t)
    OBVIOUS
  <2>1. s \in MapState /\ s.mem = mem /\ s.pte = k.pte
    BY <1>0, StartFact
  <2> PICK u : u = Unmap(s, want, have)
    OBVIOUS
  <2>2. Within(want, have)
    BY <1>h, Sizing DEF Within
  <2>3. u \in MapState /\ Zeroed(s, u, want, have)
    BY <1>0, <2>1, <2>2, UnmapFact
  <2>4. \A v \in 0..BrkMax - 1 : k.pte[v] # 0 /\ u.pte[v] # 0 => u.pte[v] = k.pte[v]
    BY <2>1, <2>3 DEF Zeroed
  <2>5. Store(t, u)
    BY <1>3, <1>h
  <2> QED BY <1>k, <2>3, <2>4, <2>5, StoredStays
<1>4. \/ tasks' = tasks
      \/ want > Have(t) /\ \E s : /\ s = MapRun(BrkState(t), Have(t), want - Have(t))
                                  /\ Store(t, s) \/ Store(t, Unmap(s, Have(t), Have(t) + s.mapped))
      \/ want <= Have(t) /\ Store(t, Unmap(BrkState(t), want, Have(t)))
  BY DEF SetBrk, Grow, Refused, Shrink
<1> QED BY <1>1, <1>2, <1>3, <1>4

(* A task's memory: what it starts with, and its pages from 0 on.          *)
Basic(t, k) ==
  {Lease(t, "stack", 0, k.stack + Header, StackSize), Lease(t, "own", 0, k.page * FrameWords, FrameWords)}
PageAt(t, k, v) == Lease(t, "page", v, k.pte[v] * FrameWords, FrameWords)
PagesUpTo(t, k, n) == {PageAt(t, k, v) : v \in 0..n - 1}

LEMMA LeasesParts ==
  ASSUME NEW t, NEW k, k.dir # 0, NEW n \in 0..BrkMax, PagesOk(k, n)
  PROVE  Leases(t, k) = Basic(t, k) \cup PagesUpTo(t, k, n)
<1>1. \A v : v \in 0..n - 1 <=> v \in 0..BrkMax - 1 /\ k.pte[v] # 0
  <2>1. n \in Nat /\ n <= BrkMax
    BY Sizing
  <2>2. \A v \in 0..BrkMax - 1 : k.pte[v] # 0 <=> v < n
    BY DEF PagesOk
  <2>3. \A v : v \in 0..n - 1 <=> v \in 0..BrkMax - 1 /\ v < n
    BY <2>1, Sizing
  <2> QED BY <2>2, <2>3
<1>2. \A x : x \in Leases(t, k) <=> \/ x \in Basic(t, k)
                                    \/ \E v \in 0..BrkMax - 1 : k.pte[v] # 0 /\ x = PageAt(t, k, v)
  BY LeasesFact DEF Basic, PageAt
<1>3. \A x : x \in PagesUpTo(t, k, n) <=> \E v \in 0..BrkMax - 1 : k.pte[v] # 0 /\ x = PageAt(t, k, v)
  BY <1>1 DEF PagesUpTo
<1> QED BY <1>2, <1>3

LEMMA BasicFact ==
  ASSUME NEW t, NEW k, NEW x \in Basic(t, k)
  PROVE  x.who = t /\ x.what # "page"
BY LeaseFact DEF Basic

LEMMA PageFact ==
  ASSUME NEW t, NEW k, NEW v, NEW x, x = PageAt(t, k, v)
  PROVE  x.who = t /\ x.what = "page" /\ x.n = v /\ x.size = FrameWords
BY LeaseFact DEF PageAt

LEMMA PartsStay ==
  ASSUME NEW t, NEW k, NEW j, Stays(k, j), NEW n \in 0..BrkMax, PagesOk(k, n), NEW m \in 0..BrkMax, PagesOk(j, m)
  PROVE  /\ Basic(t, j) = Basic(t, k)
         /\ \A v \in 0..BrkMax - 1 : v < n /\ v < m => PageAt(t, j, v) = PageAt(t, k, v)
<1>1. Basic(t, j) = Basic(t, k)
  BY DEF Stays, Basic
<1>2. ASSUME NEW v \in 0..BrkMax - 1, v < n, v < m PROVE PageAt(t, j, v) = PageAt(t, k, v)
  <2>1. k.pte[v] # 0 /\ j.pte[v] # 0
    BY <1>2 DEF PagesOk
  <2>2. j.pte[v] = k.pte[v]
    BY <2>1 DEF Stays
  <2> QED BY <2>2 DEF PageAt
<1> QED BY <1>1, <1>2

(* More pages: those there were, and others after them. *)
LEMMA PagesMore ==
  ASSUME NEW t, NEW k, NEW j, Stays(k, j), k.dir # 0, NEW n \in 0..BrkMax, PagesOk(k, n),
         NEW m \in 0..BrkMax, PagesOk(j, m), n <= m,
         NEW L, L = Leases(t, k), NEW N, N = Leases(t, j) \ L
  PROVE  /\ L \subseteq Leases(t, j)
         /\ \A x \in N : \E v \in n..m - 1 : x = PageAt(t, j, v)
         /\ \A v \in n..m - 1 : PageAt(t, j, v) \in N
<1>1. L = Basic(t, k) \cup PagesUpTo(t, k, n)
  BY LeasesParts
<1>2. Leases(t, j) = Basic(t, k) \cup PagesUpTo(t, j, m)
  <2>1. j.dir # 0
    BY DEF Stays
  <2> QED BY <2>1, LeasesParts, PartsStay
<1>3. n \in Nat /\ m \in Nat /\ m <= BrkMax
  BY Sizing
<1>4. \A v \in 0..n - 1 : v \in 0..m - 1 /\ PageAt(t, j, v) = PageAt(t, k, v)
  <2> SUFFICES ASSUME NEW v \in 0..n - 1 PROVE v \in 0..m - 1 /\ PageAt(t, j, v) = PageAt(t, k, v)
    OBVIOUS
  <2>1. v \in 0..m - 1 /\ v \in 0..BrkMax - 1 /\ v < n /\ v < m
    BY <1>3, Sizing
  <2> QED BY <2>1, PartsStay
<1>5. PagesUpTo(t, k, n) \subseteq PagesUpTo(t, j, m)
  BY <1>4 DEF PagesUpTo
<1>6. ASSUME NEW x \in N PROVE \E v \in n..m - 1 : x = PageAt(t, j, v)
  <2>1. x \in PagesUpTo(t, j, m) /\ x \notin PagesUpTo(t, k, n)
    BY <1>1, <1>2
  <2>2. PICK v \in 0..m - 1 : x = PageAt(t, j, v)
    BY <2>1 DEF PagesUpTo
  <2>3. v \notin 0..n - 1
    BY <1>4, <2>1, <2>2 DEF PagesUpTo
  <2>4. v \in n..m - 1
    BY <1>3, <2>3
  <2> QED BY <2>2, <2>4
<1>7. ASSUME NEW v \in n..m - 1 PROVE PageAt(t, j, v) \in N
  <2> PICK x : x = PageAt(t, j, v)
    OBVIOUS
  <2>1. x.what = "page" /\ x.n = v
    BY PageFact
  <2>2. v \in 0..m - 1 /\ v \notin 0..n - 1
    BY <1>3
  <2>3. x \in Leases(t, j)
    BY <1>2, <2>2 DEF PagesUpTo
  <2>4. x \notin Basic(t, k)
    BY <2>1, BasicFact
  <2>5. x \notin PagesUpTo(t, k, n)
    <3>1. \A u \in 0..n - 1 : x # PageAt(t, k, u)
      BY <2>1, <2>2, PageFact
    <3> QED BY <3>1 DEF PagesUpTo
  <2> QED BY <1>1, <2>3, <2>4, <2>5
<1> QED BY <1>1, <1>2, <1>5, <1>6, <1>7

(* Fewer: those up to the new top. *)
LEMMA PagesFewer ==
  ASSUME NEW t, NEW k, NEW j, Stays(k, j), k.dir # 0, NEW n \in 0..BrkMax, PagesOk(k, n),
         NEW m \in 0..BrkMax, PagesOk(j, m), m <= n, NEW L, L = Leases(t, k)
  PROVE  Leases(t, j) = L \ {x \in L : x.what = "page" /\ x.n >= m}
<1>1. L = Basic(t, k) \cup PagesUpTo(t, k, n)
  BY LeasesParts
<1>2. Leases(t, j) = Basic(t, k) \cup PagesUpTo(t, j, m)
  <2>1. j.dir # 0
    BY DEF Stays
  <2> QED BY <2>1, LeasesParts, PartsStay
<1>3. n \in Nat /\ m \in Nat /\ n <= BrkMax
  BY Sizing
<1>4. \A v \in 0..m - 1 : v \in 0..n - 1 /\ PageAt(t, j, v) = PageAt(t, k, v)
  <2> SUFFICES ASSUME NEW v \in 0..m - 1 PROVE v \in 0..n - 1 /\ PageAt(t, j, v) = PageAt(t, k, v)
    OBVIOUS
  <2>1. v \in 0..n - 1 /\ v \in 0..BrkMax - 1 /\ v < n /\ v < m
    BY <1>3, Sizing
  <2> QED BY <2>1, PartsStay
<1>5. ASSUME NEW x \in Leases(t, j) PROVE x \in L /\ ~(x.what = "page" /\ x.n >= m)
  <2>1. CASE x \in Basic(t, k)
    BY <1>1, <2>1, BasicFact
  <2>2. CASE x \in PagesUpTo(t, j, m)
    <3>1. PICK v \in 0..m - 1 : x = PageAt(t, j, v)
      BY <2>2 DEF PagesUpTo
    <3>2. x.n = v /\ ~(v >= m)
      BY <1>3, <3>1, PageFact
    <3>3. x \in PagesUpTo(t, k, n)
      BY <1>4, <3>1 DEF PagesUpTo
    <3> QED BY <1>1, <3>2, <3>3
  <2> QED BY <1>2, <1>5, <2>1, <2>2
<1>6. ASSUME NEW x \in L, ~(x.what = "page" /\ x.n >= m) PROVE x \in Leases(t, j)
  <2>1. CASE x \in Basic(t, k)
    BY <1>2, <2>1
  <2>2. CASE x \in PagesUpTo(t, k, n)
    <3>1. PICK v \in 0..n - 1 : x = PageAt(t, k, v)
      BY <2>2 DEF PagesUpTo
    <3>2. ~(v >= m)
      BY <1>6, <3>1, PageFact
    <3>3. v \in 0..m - 1
      BY <1>3, <3>2
    <3>4. x \in PagesUpTo(t, j, m)
      BY <1>4, <3>1, <3>3 DEF PagesUpTo
    <3> QED BY <1>2, <3>4
  <2> QED BY <1>1, <1>6, <2>1, <2>2
<1> QED BY <1>5, <1>6

(* brk_set, whatever of it fails: pages are added at the top, or go there. *)
HeapPages(S) == {x \in S : x.what = "page"}

LEMMA PagesOfTask ==
  ASSUME NEW t, NEW k, k.dir # 0, NEW n \in 0..BrkMax, PagesOk(k, n)
  PROVE  {x.n : x \in HeapPages(Leases(t, k))} = 0..n - 1
<1>1. Leases(t, k) = Basic(t, k) \cup PagesUpTo(t, k, n)
  BY LeasesParts
<1>2. ASSUME NEW x \in HeapPages(Leases(t, k)) PROVE x.n \in 0..n - 1
  <2>1. x \in PagesUpTo(t, k, n)
    BY <1>1, <1>2, BasicFact DEF HeapPages
  <2>2. PICK v \in 0..n - 1 : x = PageAt(t, k, v)
    BY <2>1 DEF PagesUpTo
  <2> QED BY <2>2, PageFact
<1>3. ASSUME NEW v \in 0..n - 1 PROVE \E x \in HeapPages(Leases(t, k)) : x.n = v
  <2> PICK x : x = PageAt(t, k, v)
    OBVIOUS
  <2>1. x \in Leases(t, k)
    BY <1>1 DEF PagesUpTo
  <2>2. x.what = "page" /\ x.n = v
    BY PageFact
  <2> QED BY <2>1, <2>2 DEF HeapPages
<1> QED BY <1>2, <1>3

LEMMA BrkGives ==
  ASSUME IInv, IInv', OwnOk(tasks'), NEW t \in Tasks, NEW want \in 0..BrkMax, SetBrk(t, want)
  PROVE  Memory!Grow(t) \/ Memory!Shrink(t)
<1>1. held' = held /\ DOMAIN tasks = Tasks /\ BrkOk(tasks, brk_top, brk_pages) /\ BrkOk(tasks', brk_top', brk_pages')
  BY DEF SetBrk, IInv, Sound, TasksOk
<1>2. PICK j : tasks' = PutTask(tasks, t, j) /\ Stays(tasks[t], j)
  BY PagesStay
<1> PICK k : k = tasks[t]
  OBVIOUS
<1>3. tasks'[t] = j
  BY <1>1, <1>2 DEF PutTask
<1>4. PICK n \in 0..BrkMax : PagesOk(k, n)
  BY <1>1 DEF BrkOk
<1>5. PICK m \in 0..BrkMax : PagesOk(j, m)
  BY <1>1, <1>3 DEF BrkOk
<1>6. n \in Nat /\ m \in Nat
  BY Sizing
<1> PICK R : R = Rest(held, tasks, t)
  OBVIOUS
<1> PICK L : L = Leases(t, k)
  OBVIOUS
<1>7. Given = R \cup L /\ Memory!Of(t) = L
  BY GivenOf
<1>8. Given' = R \cup Leases(t, j)
  BY <1>1, <1>2, GivenPut
<1>9. Memory!PagesOf(t) = HeapPages(L)
  BY <1>7 DEF Memory!PagesOf, HeapPages
<1>10. k.dir # 0 /\ Stays(k, j)
  BY <1>2 DEF SetBrk, Used
<1>11. CASE n <= m
  <2> PICK N : N = Leases(t, j) \ L
    OBVIOUS
  <2>1. L \subseteq Leases(t, j) /\ (\A x \in N : \E v \in n..m - 1 : x = PageAt(t, j, v))
          /\ \A v \in n..m - 1 : PageAt(t, j, v) \in N
    BY <1>4, <1>5, <1>10, <1>11, PagesMore
  <2>2. Memory!Lend
    BY <1>7, <1>8, <2>1, LendFact
  <2>3. Memory!New = N
    <3>1. \A x \in N : x \notin R
      <4> SUFFICES ASSUME NEW x \in N PROVE x \notin R
        OBVIOUS
      <4>1. x.who = t
        BY WhoFact
      <4> QED BY <4>1, RestFact
    <3> QED BY <1>7, <1>8, <3>1 DEF Memory!New
  <2>4. ASSUME NEW x \in N PROVE x.who = t /\ x.what = "page" /\ x.size = FrameWords
                                 /\ x.n \in n..m - 1 /\ x = PageAt(t, j, x.n)
    <3>1. PICK v \in n..m - 1 : x = PageAt(t, j, v)
      BY <2>1
    <3> QED BY <3>1, PageFact
  <2>5. \A x, y \in N : y.n = x.n => y = x
    BY <2>4
  <2>6. Memory!Of(t) # {}
    BY <1>7, <1>10, LeasesFact
  <2>7. {x.n : x \in Memory!PagesOf(t)} = 0..n - 1
    BY <1>4, <1>9, <1>10, PagesOfTask
  <2>8. {x.n : x \in N} = n..m - 1
    <3>1. ASSUME NEW v \in n..m - 1 PROVE \E x \in N : x.n = v
      <4> PICK x : x = PageAt(t, j, v)
        OBVIOUS
      <4>1. x \in N
        BY <2>1
      <4>2. x.n = v
        BY PageFact
      <4> QED BY <4>1, <4>2
    <3> QED BY <2>4, <3>1
  <2>9. Memory!Grow(t)
    BY <2>2, <2>3, <2>4, <2>5, <2>6, <2>7, <2>8 DEF Memory!Grow
  <2> QED BY <2>9
<1>12. CASE m <= n
  <2>1. Leases(t, j) = L \ {x \in L : x.what = "page" /\ x.n >= m}
    BY <1>4, <1>5, <1>10, <1>12, PagesFewer
  <2>2. \A x \in L : x \notin R
    <3> SUFFICES ASSUME NEW x \in L PROVE x \notin R
      OBVIOUS
    <3>1. x.who = t
      BY WhoFact
    <3> QED BY <3>1, RestFact
  <2>3. Given' = Given \ {x \in Memory!PagesOf(t) : x.n >= m}
    BY <1>7, <1>8, <1>9, <2>1, <2>2 DEF HeapPages
  <2> QED BY <2>3 DEF Memory!Shrink
<1> QED BY <1>6, <1>11, <1>12

(* A task in use has a page of its own. *)
LEMMA OwnStep ==
  ASSUME IInv, OwnOk(tasks), [Next]_vars
  PROVE  OwnOk(tasks')
<1> USE DEF OwnOk, UsedIn
<1>1. CASE tasks' = tasks
  BY <1>1
<1>2. ASSUME NEW t \in Tasks, NEW j, DOMAIN tasks = Tasks, tasks' = PutTask(tasks, t, j),
             j.dir # 0 => j.page # 0
      PROVE  OwnOk(tasks')
  <2>1. tasks'[t] = j /\ \A u \in Tasks : u # t => tasks'[u] = tasks[u]
    BY <1>2 DEF PutTask
  <2> QED BY <1>2, <2>1
<1>3. ASSUME NEW t \in Tasks, Launch(t) PROVE OwnOk(tasks')
  <2>1. 0 \notin Frames
    BY FrameNumbers
  <2> QED BY <1>1, <1>2, <1>3, <2>1, LaunchBorn
<1>4. ASSUME NEW t \in Tasks, Exit(t) PROVE OwnOk(tasks')
  <2>1. tasks' = PutTask(tasks, t, NoTask) /\ DOMAIN tasks = Tasks
    BY <1>4 DEF Exit, IInv, Sound, TasksOk, PutTask
  <2> QED BY <1>2, <2>1, NoTaskFact
<1>5. ASSUME NEW t \in Tasks, NEW want \in 0..BrkMax, SetBrk(t, want) PROVE OwnOk(tasks')
  <2>1. DOMAIN tasks = Tasks
    BY DEF IInv, Sound, TasksOk
  <2>2. PICK j : tasks' = PutTask(tasks, t, j) /\ Stays(tasks[t], j)
    BY <1>5, PagesStay
  <2>3. tasks[t].dir # 0
    BY <1>5 DEF SetBrk, Used
  <2> QED BY <1>2, <2>1, <2>2, <2>3 DEF Stays
<1>6. ASSUME NEW size \in Sizes, Alloc(size) PROVE OwnOk(tasks')
  BY <1>1, <1>6 DEF Alloc
<1>7. ASSUME NEW b \in held, Free(b) PROVE OwnOk(tasks')
  BY <1>1, <1>7 DEF Free
<1> QED BY <1>1, <1>3, <1>4, <1>5, <1>6, <1>7 DEF Next, vars

LEMMA GivesStep ==
  ASSUME IInv, IInv', OwnOk(tasks), OwnOk(tasks'), [Next]_vars
  PROVE  Given' = Given \/ Memory!Next
<1>1. ASSUME NEW size \in Sizes, Alloc(size) PROVE Given' = Given \/ Memory!Allocate
  BY <1>1, AllocGives
<1>2. ASSUME NEW b \in held, Free(b) PROVE Memory!Free
  BY <1>2, FreeGives
<1>3. ASSUME NEW t \in Tasks, Launch(t) PROVE Given' = Given \/ Memory!Start(t)
  BY <1>3, LaunchGives
<1>4. ASSUME NEW t \in Tasks, Exit(t) PROVE Memory!End(t)
  BY <1>4, ExitGives
<1>5. ASSUME NEW t \in Tasks, NEW want \in 0..BrkMax, SetBrk(t, want) PROVE Memory!Grow(t) \/ Memory!Shrink(t)
  BY <1>5, BrkGives
<1>6. CASE UNCHANGED vars
  BY <1>6, GivenNow DEF vars
<1> QED BY <1>1, <1>2, <1>3, <1>4, <1>5, <1>6 DEF Next, Memory!Next

LEMMA NothingGiven ==
  ASSUME Init
  PROVE  Given = {} /\ OwnOk(tasks)
<1>1. held = {} /\ \A t \in Tasks : tasks[t] = NoTask
  BY DEF Init
<1>2. \A t \in Tasks : Leases(t, tasks[t]) = {}
  BY <1>1, NoLeases
<1>3. Given = {}
  BY <1>1, <1>2, GivenNow DEF GivenIn
<1>4. OwnOk(tasks)
  BY <1>1, NoTaskFact DEF OwnOk, UsedIn
<1> QED BY <1>3, <1>4

(* The kernel's memory is Allocator's: what kmalloc, a launch and SYS_BRK   *)
(* hand out is memory nobody else has, it stays where it is until it is     *)
(* given back, and a call refused half way leaves what was given as it was. *)
THEOREM MemoryIsGiven == Spec => GivesMemory
<1> DEFINE Paged == OwnOk(tasks)
<1>1. Init => Memory!Init /\ Paged
  BY NothingGiven DEF Memory!Init
<1>2. IInv /\ Paged /\ [Next]_vars => Paged'
  BY OwnStep
<1>3. IInv /\ IInv' /\ Paged /\ Paged' /\ [Next]_vars => [Memory!Next]_Given
  BY GivesStep
<1> HIDE DEF Paged
<1> QED BY Invariance, <1>1, <1>2, <1>3, PTL DEF Spec, GivesMemory, Memory!Spec
=============================================================================
